----------------------------- MODULE CheerGuide -----------------------------
(***************************************************************************)
(* A song's lyrics and its cheer guides, one per mode, and the browsers in *)
(* which administrators edit them. A guide's private draft is saved under  *)
(* the version its editor has; the older song editor writes the song, and  *)
(* with it the publication of the guide that was imported from the song.   *)
(* Guides are created, imported and deleted meanwhile. A save is a call    *)
(* whose answer may be lost.                                               *)
(***************************************************************************)
EXTENDS Integers

CONSTANTS Modes,          \* of a guide: a concert's, a festival's
          Editors,        \* pages that are open in browsers
          Contents,       \* lyrics
          NoContent, NoMode,
          MaxGuideVersion \* bound: versions of a guide

ASSUME GuideNamesAssumption == NoContent \notin Contents /\ NoMode \notin Modes

VARIABLES lyrics,  \* the song's lyrics
          guide,   \* guide[m]: the cheer_guide row and what it points to
          plan,    \* the lyrics that a planned import was reviewed with
          editor   \* editor[e]: the page e

guideVars == <<lyrics, guide, plan, editor>>

\* A version of 0 where there is no guide; a guide without history, of an
\* older release, has neither draft nor publication.
GuideRow ==
    [version : Nat, legacy : BOOLEAN, working : Contents \cup {NoContent},
     published : Contents \cup {NoContent}]
NoGuide == [version |-> 0, legacy |-> FALSE, working |-> NoContent, published |-> NoContent]

\* mode: the guide whose draft is edited, or NoMode in the song's editor;
\* version: the version it may write, 0 for a song without an imported guide.
Page ==
    [open : BOOLEAN, mode : Modes \cup {NoMode}, version : Nat,
     saved : Contents \cup {NoContent},
     call : {"none", "sent", "stored", "refused"}, sent : Contents \cup {NoContent}]
NoPage == [open |-> FALSE, mode |-> NoMode, version |-> 0, saved |-> NoContent, call |-> "none", sent |-> NoContent]

Exists(m)   == guide[m].version # 0
IsEmpty(m)  == guide[m].working = NoContent /\ guide[m].published = NoContent
\* findGuideEditorRecord: the draft comes before the publication.
Content(g)  == IF g.working # NoContent THEN g.working ELSE g.published
Imported(m) == Exists(m) /\ guide[m].legacy

\* A guide of an older release may be there, without history.
GuideInit ==
    /\ lyrics \in Contents
    /\ \E old \in SUBSET Modes :
          guide = [m \in Modes |-> [NoGuide EXCEPT !.version = IF m \in old THEN 1 ELSE 0]]
    /\ plan = NoContent
    /\ editor = [e \in Editors |-> NoPage]

-----------------------------------------------------------------------------
(* Guides: cheer-guide-service, cheer-guide-import-service. The song is      *)
(* locked by every writer, so each is one step.                              *)

\* createAdminCheerGuide: guide and first draft together.
CreateGuide(m) ==
    /\ ~Exists(m)
    /\ guide' = [guide EXCEPT ![m] = [NoGuide EXCEPT !.version = 1, !.working = lyrics]]
    /\ UNCHANGED <<lyrics, plan, editor>>

\* deleteEmptyCheerGuide: only a guide without history.
DeleteGuide(m) ==
    /\ Exists(m) /\ IsEmpty(m)
    /\ guide' = [guide EXCEPT ![m] = NoGuide]
    /\ UNCHANGED <<lyrics, plan, editor>>

\* planLegacyGuideImport and its review.
PlanImport ==
    /\ plan' = lyrics
    /\ UNCHANGED <<lyrics, guide, editor>>

\* importLegacyGuide: the lyrics are those that were reviewed, the mode is free
\* and no guide of the song was imported before. A repetition changes nothing.
ImportGuide(m) ==
    /\ plan = lyrics
    /\ ~Exists(m) /\ \A n \in Modes : ~Imported(n)
    /\ guide' = [guide EXCEPT ![m] =
           [NoGuide EXCEPT !.version = 1, !.legacy = TRUE, !.published = lyrics]]
    /\ UNCHANGED <<lyrics, plan, editor>>

-----------------------------------------------------------------------------
(* Pages: useAdminEditor, useLyricsEditor, use-guide-draft-editor.           *)

Opened(m, version, c) ==
    [NoPage EXCEPT !.open = TRUE, !.mode = m, !.version = version, !.saved = c]

\* getAdminCheerGuideEditor; a guide without a snapshot is not found.
OpenDraft(e, m) ==
    /\ ~editor[e].open
    /\ Exists(m) /\ ~IsEmpty(m)
    /\ editor' = [editor EXCEPT ![e] = Opened(m, guide[m].version, Content(guide[m]))]
    /\ UNCHANGED <<lyrics, guide, plan>>

\* The imported guide's version, or 0.
SongVersion == IF \E m \in Modes : Imported(m)
               THEN guide[CHOOSE m \in Modes : Imported(m)].version ELSE 0

\* getAdminSongEditorBySlug.
OpenSong(e) ==
    /\ ~editor[e].open
    /\ editor' = [editor EXCEPT ![e] = Opened(NoMode, SongVersion, lyrics)]
    /\ UNCHANGED <<lyrics, guide, plan>>

ClosePage(e) ==
    /\ editor[e].open /\ editor[e].call = "none"
    /\ editor' = [editor EXCEPT ![e] = NoPage]
    /\ UNCHANGED <<lyrics, guide, plan>>

\* handleSave up to its call; one at a time. What has been typed by then is left
\* to LyricsEditor: any text may be sent.
SendPage(e, c) ==
    /\ editor[e].open /\ editor[e].call = "none"
    /\ editor' = [editor EXCEPT ![e] = [@ EXCEPT !.call = "sent", !.sent = c]]
    /\ UNCHANGED <<lyrics, guide, plan>>

\* Fault: the version is only counted, not compared.
VersionUncheckedFault(e, m) == Exists(m)
\* claimGuideVersion.
VersionHeld(e, m) == Exists(m) /\ editor[e].version = guide[m].version

\* saveAdminCheerGuideDraft.
StoreDraft(e) ==
    LET m == editor[e].mode
    IN /\ editor[e].call = "sent" /\ m # NoMode
       /\ VersionHeld(e, m)
       /\ guide[m].version < MaxGuideVersion
       /\ guide' = [guide EXCEPT ![m] =
              [guide[m] EXCEPT !.version = @ + 1, !.working = editor[e].sent]]
       /\ editor' = [editor EXCEPT ![e].call = "stored"]
       /\ UNCHANGED <<lyrics, plan>>

\* writeLegacyGuide: no draft waits, the version is held, there is a publication.
MayPublish(e, m) ==
    guide[m].working = NoContent /\ VersionHeld(e, m) /\ guide[m].published # NoContent

\* saveSongLyrics and editSong: the song alone, or the song and its publication.
StoreSong(e) ==
    /\ editor[e].call = "sent" /\ editor[e].mode = NoMode
    /\ \/ /\ editor[e].version = 0 /\ \A m \in Modes : ~Imported(m)
          /\ UNCHANGED guide
       \/ \E m \in Modes :
             /\ Imported(m) /\ MayPublish(e, m)
             /\ guide[m].version < MaxGuideVersion
             /\ guide' = [guide EXCEPT ![m] =
                    [guide[m] EXCEPT !.version = @ + 1, !.published = editor[e].sent]]
    /\ lyrics' = editor[e].sent
    /\ editor' = [editor EXCEPT ![e].call = "stored"]
    /\ UNCHANGED plan

\* A conflict, a draft that waits, a failing connection before the call.
PageRefused(e) ==
    /\ editor[e].call = "sent"
    /\ editor' = [editor EXCEPT ![e].call = "refused"]
    /\ UNCHANGED <<lyrics, guide, plan>>

\* The answer carries the version that the next save may write.
PageAnswered(e) ==
    LET next == IF editor[e].version = 0 THEN 0 ELSE editor[e].version + 1
    IN /\ editor[e].call = "stored"
       /\ editor' = [editor EXCEPT ![e] =
              [@ EXCEPT !.call = "none", !.saved = editor[e].sent, !.version = next,
                        !.sent = NoContent]]
       /\ UNCHANGED <<lyrics, guide, plan>>

\* The answer is an error, or is lost although the save was stored.
PageFails(e) ==
    /\ editor[e].call \in {"stored", "refused"}
    /\ editor' = [editor EXCEPT ![e] = [@ EXCEPT !.call = "none", !.sent = NoContent]]
    /\ UNCHANGED <<lyrics, guide, plan>>

EditorNext(e) ==
    \/ \E m \in Modes : OpenDraft(e, m)
    \/ OpenSong(e) \/ ClosePage(e)
    \/ \E c \in Contents : SendPage(e, c)
    \/ StoreDraft(e) \/ StoreSong(e) \/ PageRefused(e) \/ PageAnswered(e) \/ PageFails(e)

GuideNext ==
    \/ \E m \in Modes : CreateGuide(m) \/ DeleteGuide(m) \/ ImportGuide(m)
    \/ PlanImport
    \/ \E e \in Editors : EditorNext(e)

GuideSpec == GuideInit /\ [][GuideNext]_guideVars

-----------------------------------------------------------------------------
(* Properties.                                                             *)

\* A save that a page's version admits: the guide it writes, what is written.
Writes(e, m) == editor[e].call = "sent" /\ editor'[e].call = "stored"
                /\ guide'[m].version # guide[m].version

\* A guide's text is only replaced by a page that has seen it: whatever else
\* was saved, answered, lost, created or imported, what the write replaces
\* (the draft, or the publication where no draft waits) is what the page was
\* opened with or had confirmed last.
NoLostEdit ==
    [][\A m \in Modes :
          (guide'[m] # guide[m] /\ Exists(m) /\ guide'[m].version # 0)
             => \E e \in Editors :
                    Writes(e, m) /\ editor[e].saved = Content(guide[m])]_guideVars

\* What readers of the one imported guide see is the song's text.
GuideFollowsSong ==
    \A m \in Modes : Imported(m) =>
        /\ guide[m].published = lyrics
        /\ \A n \in Modes : Imported(n) => n = m

=============================================================================
