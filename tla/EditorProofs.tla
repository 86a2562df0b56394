---------------------------- MODULE EditorProofs ----------------------------
(***************************************************************************)
(* LyricsEditor and CheerGuide for any lyrics, modes and pages: the page   *)
(* keeps its snapshots, tells the truth about what is saved, and replaces  *)
(* no text that it has not seen.                                           *)
(***************************************************************************)
EXTENDS LyricsEditor, CheerGuide, TLAPS

-----------------------------------------------------------------------------
(* LyricsEditor.                                                           *)

\* What counts as saved is what the server has, as far as answers have told.
Known ==
    /\ (save.state # "stored" /\ save.told) => clean = stored
    /\ save.state = "stored" => stored = save.sent

PageInv == PageTypeOK /\ PageTrue /\ Known

\* A new snapshot is the last one, what was shown comes right before it, and the
\* limit holds.
LEMMA SnapshotsEnd ==
    ASSUME PageTypeOK, NEW t \in Texts
    PROVE  /\ Snapshots(t) \in Seq(Texts)
           /\ Len(Snapshots(t)) >= 2 /\ Len(Snapshots(t)) <= HistoryLimit
           /\ Snapshots(t)[Len(Snapshots(t))] = t
           /\ Snapshots(t)[Len(Snapshots(t)) - 1] = past[at]
<1> DEFINE front == SubSeq(past, 1, at)
           kept  == Append(front, t)
<1>1. /\ past \in Seq(Texts) /\ at \in 1 .. Len(past) /\ Len(past) <= HistoryLimit
      /\ at \in Nat /\ at >= 1 /\ HistoryLimit \in Nat /\ HistoryLimit >= 2
    BY HistoryAssumption DEF PageTypeOK
<1>2. front \in Seq(Texts) /\ Len(front) = at /\ front[at] = past[at]
    BY <1>1
<1> HIDE DEF front
<1>3. /\ kept \in Seq(Texts) /\ Len(kept) = at + 1
      /\ kept[at + 1] = t /\ kept[at] = past[at]
    BY <1>1, <1>2
<1> HIDE DEF kept
<1>4. Snapshots(t) = IF Len(kept) > HistoryLimit THEN Tail(kept) ELSE kept
    BY DEF Snapshots, kept, front
<1>5. CASE Len(kept) > HistoryLimit
    <2>1. at >= 2
        BY <1>1, <1>3, <1>5
    <2>2. Tail(kept) \in Seq(Texts) /\ Len(Tail(kept)) = at
        BY <1>1, <1>3
    <2>3. Tail(kept)[at] = kept[at + 1] /\ Tail(kept)[at - 1] = kept[at]
        BY <2>1, <2>2, <1>1, <1>3
    <2> QED  BY <2>1, <2>2, <2>3, <1>1, <1>3, <1>4, <1>5
<1>6. CASE ~(Len(kept) > HistoryLimit)
    BY <1>1, <1>3, <1>4, <1>6
<1> QED  BY <1>5, <1>6

LEMMA PageInitial == PageInit => PageInv
<1> SUFFICES ASSUME PageInit PROVE PageInv
    OBVIOUS
<1>1. PICK t \in Texts : /\ shown = t /\ clean = t /\ stored = t
                         /\ past = <<t>> /\ at = 1
                         /\ save = [state |-> "none", sent |-> t, told |-> TRUE]
    BY DEF PageInit
<1>2. past \in Seq(Texts) /\ Len(past) = 1 /\ past[1] = t /\ DOMAIN past = {1}
    BY <1>1
<1>3. save \in Saves
    BY <1>1 DEF Saves
<1> QED  BY <1>1, <1>2, <1>3, HistoryAssumption DEF PageInv, PageTypeOK, PageTrue, Known

\* Each handler keeps the page true, and replaces nothing but by a new snapshot.
LEMMA PageStep ==
    ASSUME PageInv, [PageNext]_pageVars
    PROVE  /\ PageInv'
           /\ shown' # shown =>
                 \/ past' = past /\ at' \in {at - 1, at + 1}
                 \/ /\ at' = Len(past') /\ at' >= 2
                    /\ past'[at'] = shown' /\ past'[at' - 1] = shown
           /\ clean' # clean => clean' = stored
<1>t. /\ past \in Seq(Texts) /\ at \in 1 .. Len(past) /\ Len(past) <= HistoryLimit
      /\ save \in Saves /\ shown \in Texts /\ clean \in Texts /\ stored \in Texts
      /\ HistoryLimit \in Nat
    BY HistoryAssumption DEF PageInv, PageTypeOK
<1>v. PageTrue /\ Known
    BY DEF PageInv
<1>1. ASSUME NEW t \in Texts, Edit(t) PROVE /\ PageInv'
                                            /\ at' = Len(past') /\ at' >= 2
                                            /\ past'[at'] = shown' /\ past'[at' - 1] = shown
                                            /\ clean' = clean
    <2>1. /\ past' = Snapshots(t) /\ at' = Len(past') /\ shown' = t
          /\ UNCHANGED <<clean, stored, save>>
        BY <1>1 DEF Edit
    <2>2. /\ past' \in Seq(Texts) /\ Len(past') >= 2 /\ Len(past') <= HistoryLimit
          /\ past'[Len(past')] = t /\ past'[Len(past') - 1] = past[at]
        BY <2>1, SnapshotsEnd DEF PageInv
    <2>3. at' \in 1 .. Len(past') /\ DOMAIN past' = 1 .. Len(past')
        BY <2>1, <2>2
    <2>4. PageTypeOK' /\ PageTrue'
        BY <2>1, <2>2, <2>3, <1>t, <1>v DEF PageTypeOK, PageTrue, Known
    <2> QED  BY <2>1, <2>2, <2>4, <1>v DEF PageInv, PageTrue, Known
<1>2. ASSUME NEW i \in {at - 1, at + 1}, Walk(i)
      PROVE  PageInv' /\ past' = past /\ at' \in {at - 1, at + 1} /\ clean' = clean
    <2>1. /\ at' = i /\ shown' = past[i] /\ i \in 1 .. Len(past)
          /\ UNCHANGED <<past, clean, stored, save>>
        BY <1>2, <1>t DEF Walk
    <2>2. past[i] \in Texts
        BY <2>1, <1>t
    <2>3. PageTypeOK' /\ PageTrue'
        BY <2>1, <2>2, <1>t, <1>v DEF PageTypeOK, PageTrue, Known
    <2> QED  BY <2>1, <2>3, <1>v DEF PageInv, Known
<1>3. CASE SendSave
    <2>1. /\ save' \in Saves /\ save'.state = "sent" /\ save'.told = save.told
          /\ save.state = "none"
        BY <1>3, <1>t DEF SendSave, Saves
    <2> QED  BY <2>1, <1>3, <1>t, <1>v DEF SendSave, PageInv, PageTypeOK, PageTrue, Known
<1>4. CASE SaveStored
    <2>1. /\ save' \in Saves /\ save'.state = "stored" /\ save'.sent = save.sent
          /\ stored' = save.sent /\ stored' \in Texts
        BY <1>4, <1>t DEF SaveStored, Saves
    <2> QED  BY <2>1, <1>4, <1>t, <1>v DEF SaveStored, PageInv, PageTypeOK, PageTrue, Known
<1>5. CASE MarkSaved
    <2>1. /\ save' \in Saves /\ save'.state = "none" /\ save.state = "stored"
          /\ clean' = save.sent /\ clean' \in Texts
        BY <1>5, <1>t DEF MarkSaved, Confirmed, Saves
    <2> QED  BY <2>1, <1>5, <1>t, <1>v DEF MarkSaved, PageInv, PageTypeOK, PageTrue, Known
<1>6. CASE SaveFails
    <2>1. /\ save' \in Saves /\ save'.state = "none"
          /\ save'.told => save.told /\ save.state = "sent"
        BY <1>6, <1>t DEF SaveFails, Saves
    <2> QED  BY <2>1, <1>6, <1>t, <1>v DEF SaveFails, PageInv, PageTypeOK, PageTrue, Known
<1>7. CASE UNCHANGED pageVars
    BY <1>7, <1>t, <1>v DEF pageVars, PageInv, PageTypeOK, PageTrue, Known
<1> QED  BY <1>1, <1>2, <1>3, <1>4, <1>5, <1>6, <1>7 DEF PageNext, Undo, Redo

\* The page's state keeps its types and its strengthened invariant.
THEOREM PageInvariance == PageSpec => []PageInv
<1>1. PageInv /\ [PageNext]_pageVars => PageInv'
    BY PageStep
<1> QED  BY <1>1, PageInitial, PTL DEF PageSpec

\* A page that shows no unsaved change shows what the server has.
THEOREM PageStaysTrue == PageSpec => []PageTrue
<1>1. PageInv => PageTrue
    BY DEF PageInv
<1> QED  BY <1>1, PageInvariance, PTL

\* Whatever is replaced on the page can be brought back by one undo.
THEOREM NothingReplacedForGood == PageSpec => EditsUndoable
<1> DEFINE Kept == /\ shown' # shown =>
                         \/ past' = past /\ at' \in {at - 1, at + 1}
                         \/ /\ at' = Len(past') /\ at' >= 2
                            /\ past'[at'] = shown' /\ past'[at' - 1] = shown
                   /\ clean' # clean => clean' = stored
<1>1. PageInv /\ [PageNext]_pageVars => [Kept]_pageVars
    BY PageStep
<1> QED  BY <1>1, PageInvariance, PTL DEF PageSpec, EditsUndoable

-----------------------------------------------------------------------------
(* CheerGuide.                                                             *)

GuideTypeOK ==
    /\ lyrics \in Contents /\ plan \in Contents \cup {NoContent}
    /\ guide \in [Modes -> GuideRow] /\ editor \in [Editors -> Page]

\* A guide that is not there has nothing; an imported one is published.
RowsMake ==
    \A m \in Modes :
        /\ ~Exists(m) => (~guide[m].legacy /\ IsEmpty(m))
        /\ Imported(m) => guide[m].published # NoContent

\* The page p writes the guide m: its draft, or the publication of the song.
Target(p, m) == p.mode = m \/ (p.mode = NoMode /\ p.version # 0 /\ Imported(m))

\* What the page has seen, its own save included where it was stored, and at
\* which version.
SeenText(p) == IF p.call = "stored" THEN p.sent ELSE p.saved
SeenAt(p)   == IF p.call = "stored" THEN p.version + 1 ELSE p.version

\* A page is behind its guide, or has seen what the guide says.
Behind(p, m) ==
    /\ Exists(m) /\ ~IsEmpty(m)
    /\ p.version # 0 /\ SeenAt(p) <= guide[m].version
    /\ (SeenAt(p) = guide[m].version /\ (p.mode = NoMode => guide[m].working = NoContent))
          => SeenText(p) = Content(guide[m])

PageSound(p) ==
    /\ p.call # "none" => (p.open /\ p.sent \in Contents)
    /\ p.open =>
          /\ \A m \in Modes : Target(p, m) => Behind(p, m)
          /\ (p.mode = NoMode /\ p.version # 0) => \E m \in Modes : Imported(m)

PagesSound == \A e \in Editors : PageSound(editor[e])

GuideInv == GuideTypeOK /\ RowsMake /\ PagesSound /\ GuideFollowsSong

LEMMA PageNames == NoPage \in Page /\ ~NoPage.open /\ NoPage.call = "none" /\ NoGuide \in GuideRow
BY DEF NoPage, Page, NoGuide, GuideRow

LEMMA GuideInitial == GuideInit => GuideInv
<1> SUFFICES ASSUME GuideInit PROVE GuideInv
    OBVIOUS
<1>1. PICK old \in SUBSET Modes :
         guide = [m \in Modes |-> [NoGuide EXCEPT !.version = IF m \in old THEN 1 ELSE 0]]
    BY DEF GuideInit
<1>2. \A m \in Modes : /\ guide[m] \in GuideRow /\ ~guide[m].legacy
                       /\ guide[m].working = NoContent /\ guide[m].published = NoContent
    BY <1>1 DEF NoGuide, GuideRow
<1>3. \A e \in Editors : editor[e] = NoPage
    BY DEF GuideInit
<1>4. GuideTypeOK
    BY <1>1, <1>2, PageNames DEF GuideInit, GuideTypeOK
<1> QED
    BY <1>2, <1>3, <1>4, PageNames
    DEF GuideInv, RowsMake, PagesSound, PageSound, GuideFollowsSong, Imported, IsEmpty

\* A guide that no page writes may come and go.
LEMMA GuideStep ==
    ASSUME GuideInv, NEW m \in Modes, CreateGuide(m) \/ DeleteGuide(m) \/ ImportGuide(m)
    PROVE  GuideInv' /\ (Exists(m) => guide'[m].version = 0)
           /\ \A n \in Modes : n # m => guide'[n] = guide[n]
<1>t. guide \in [Modes -> GuideRow] /\ editor \in [Editors -> Page] /\ lyrics \in Contents
    BY DEF GuideInv, GuideTypeOK
<1>1. PICK g \in GuideRow :
         /\ guide' = [guide EXCEPT ![m] = g]
         /\ g.version = 0 => (~g.legacy /\ g.working = NoContent /\ g.published = NoContent)
         /\ g.legacy => /\ g.published = lyrics /\ g.version # 0 /\ g.working = NoContent
                        /\ \A n \in Modes : ~Imported(n)
         /\ Exists(m) => g.version = 0
         /\ ~Exists(m) \/ IsEmpty(m)
    <2>1. CASE CreateGuide(m)
        <3> DEFINE g == [NoGuide EXCEPT !.version = 1, !.working = lyrics]
        <3>1. g \in GuideRow /\ g.version = 1 /\ ~g.legacy
            BY <1>t DEF NoGuide, GuideRow
        <3>2. guide' = [guide EXCEPT ![m] = g] /\ ~Exists(m)
            BY <2>1 DEF CreateGuide
        <3> HIDE DEF g
        <3>3. /\ guide' = [guide EXCEPT ![m] = g]
              /\ g.version = 0 => (~g.legacy /\ g.working = NoContent /\ g.published = NoContent)
              /\ g.legacy => /\ g.published = lyrics /\ g.version # 0 /\ g.working = NoContent
                             /\ \A n \in Modes : ~Imported(n)
              /\ Exists(m) => g.version = 0
              /\ ~Exists(m) \/ IsEmpty(m)
            BY <3>1, <3>2
        <3> QED  BY <3>1, <3>3, Zenon
    <2>2. CASE DeleteGuide(m)
        <3>1. guide' = [guide EXCEPT ![m] = NoGuide] /\ IsEmpty(m)
            BY <2>2 DEF DeleteGuide
        <3> QED  BY <3>1, PageNames DEF NoGuide
    <2>3. CASE ImportGuide(m)
        <3> DEFINE g == [NoGuide EXCEPT !.version = 1, !.legacy = TRUE, !.published = lyrics]
        <3>1. g \in GuideRow /\ g.version = 1 /\ g.published = lyrics /\ g.working = NoContent
            BY <1>t DEF NoGuide, GuideRow
        <3>2. guide' = [guide EXCEPT ![m] = g] /\ ~Exists(m) /\ \A n \in Modes : ~Imported(n)
            BY <2>3 DEF ImportGuide
        <3> HIDE DEF g
        <3>3. /\ guide' = [guide EXCEPT ![m] = g]
              /\ g.version = 0 => (~g.legacy /\ g.working = NoContent /\ g.published = NoContent)
              /\ g.legacy => /\ g.published = lyrics /\ g.version # 0 /\ g.working = NoContent
                             /\ \A n \in Modes : ~Imported(n)
              /\ Exists(m) => g.version = 0
              /\ ~Exists(m) \/ IsEmpty(m)
            BY <3>1, <3>2
        <3> QED  BY <3>1, <3>3, Zenon
    <2> QED  BY <2>1, <2>2, <2>3
<1>2. UNCHANGED <<lyrics, plan, editor>>
    BY DEF CreateGuide, DeleteGuide, ImportGuide
<1>3. /\ guide' \in [Modes -> GuideRow] /\ guide'[m] = g
      /\ \A n \in Modes : n # m => guide'[n] = guide[n]
    BY <1>t, <1>1
<1>4. \A e \in Editors : editor[e].open => ~Target(editor[e], m)
    BY <1>1 DEF GuideInv, PagesSound, PageSound, Behind
<1>5. ~Imported(m)
    BY <1>1 DEF GuideInv, RowsMake, Imported, IsEmpty
<1>6. RowsMake'
    BY <1>t, <1>1, <1>2, <1>3, GuideNamesAssumption
    DEF GuideInv, RowsMake, Exists, Imported, IsEmpty
<1>7. GuideFollowsSong'
    BY <1>1, <1>2, <1>3 DEF GuideInv, GuideFollowsSong, Imported, Exists
<1>8. PagesSound'
    <2> SUFFICES ASSUME NEW e \in Editors PROVE PageSound(editor[e])'
        BY DEF PagesSound
    <2>1. PageSound(editor[e]) /\ editor' = editor
        BY <1>2 DEF GuideInv, PagesSound
    <2>2. ASSUME NEW n \in Modes, editor[e].open, Target(editor[e], n)'
          PROVE  Behind(editor[e], n)'
        <3>1. CASE n # m
            <4>1. guide'[n] = guide[n] /\ Target(editor[e], n)
                BY <3>1, <2>1, <2>2, <1>3 DEF Target, Imported, Exists
            <4>2. Behind(editor[e], n)
                BY <4>1, <2>1, <2>2 DEF PageSound
            <4> QED  BY <4>1, <4>2, <2>1 DEF Behind, Exists, IsEmpty, SeenAt, SeenText
        <3>2. CASE n = m
            <4>1. editor[e].mode # m
                BY <2>2, <1>4 DEF Target
            <4>2. editor[e].mode = NoMode /\ editor[e].version # 0 /\ g.legacy
                BY <4>1, <3>2, <2>1, <2>2, <1>3 DEF Target, Imported
            <4> QED  BY <4>2, <2>1, <2>2, <1>1 DEF PageSound
        <3> QED  BY <3>1, <3>2
    <2>3. (\E n \in Modes : Imported(n)) => (\E n \in Modes : Imported(n))'
        BY <1>3, <1>5 DEF Imported, Exists
    <2> QED  BY <2>1, <2>2, <2>3 DEF PageSound
<1> QED
    BY <1>1, <1>2, <1>3, <1>6, <1>7, <1>8 DEF GuideInv, GuideTypeOK

\* A step that changes one page only, and keeps the guides and what they say.
LEMMA OnePage ==
    ASSUME GuideInv, NEW e \in Editors, NEW p \in Page, PageSound(p),
           editor' = [editor EXCEPT ![e] = p], UNCHANGED <<lyrics, guide, plan>>
    PROVE  GuideInv' /\ guide' = guide
<1>1. editor \in [Editors -> Page]
    BY DEF GuideInv, GuideTypeOK
<1>2. /\ editor' \in [Editors -> Page]
      /\ \A d \in Editors : editor'[d] = IF d = e THEN p ELSE editor[d]
    BY <1>1
<1>3. GuideTypeOK' /\ RowsMake' /\ GuideFollowsSong'
    BY <1>2 DEF GuideInv, GuideTypeOK, RowsMake, GuideFollowsSong, Exists, IsEmpty, Imported
<1>4. \A d \in Editors : PageSound(editor'[d])
    BY <1>2 DEF GuideInv, PagesSound
<1>5. PagesSound'
    BY <1>4 DEF PagesSound, PageSound, Target, Behind, Exists, IsEmpty, Imported
<1> QED  BY <1>3, <1>5 DEF GuideInv

\* Opening, closing, sending, answers: nothing is written.
LEMMA PageOnlyStep ==
    ASSUME GuideInv, NEW e \in Editors,
           \/ \E m \in Modes : OpenDraft(e, m)
           \/ OpenSong(e) \/ ClosePage(e)
           \/ \E c \in Contents : SendPage(e, c)
           \/ PageRefused(e) \/ PageAnswered(e) \/ PageFails(e)
    PROVE  GuideInv' /\ guide' = guide
<1>t. /\ guide \in [Modes -> GuideRow] /\ editor \in [Editors -> Page] /\ lyrics \in Contents
      /\ editor[e] \in Page
    BY DEF GuideInv, GuideTypeOK
<1>f. /\ editor[e].version \in Nat /\ editor[e].mode \in Modes \cup {NoMode}
      /\ editor[e].sent \in Contents \cup {NoContent}
      /\ \A m \in Modes : /\ guide[m].version \in Nat
                          /\ guide[m].working \in Contents \cup {NoContent}
                          /\ guide[m].published \in Contents \cup {NoContent}
    BY <1>t DEF Page, GuideRow
<1>v. PageSound(editor[e])
    BY DEF GuideInv, PagesSound
<1>1. ASSUME NEW m \in Modes, OpenDraft(e, m) PROVE GuideInv' /\ guide' = guide
    <2> DEFINE p == Opened(m, guide[m].version, Content(guide[m]))
    <2>1. /\ p \in Page /\ p.mode = m /\ p.version = guide[m].version /\ p.call = "none"
          /\ p.saved = Content(guide[m]) /\ p.open
        BY <1>f DEF Opened, NoPage, Page, Content
    <2>2. /\ editor' = [editor EXCEPT ![e] = p] /\ UNCHANGED <<lyrics, guide, plan>>
          /\ Exists(m) /\ ~IsEmpty(m)
        BY <1>1 DEF OpenDraft
    <2> HIDE DEF p
    <2>3. p.mode # NoMode
        BY <2>1, GuideNamesAssumption
    <2>4. Behind(p, m)
        BY <2>1, <2>2, <1>f DEF Behind, SeenAt, SeenText, Exists
    <2>5. PageSound(p)
        BY <2>1, <2>3, <2>4 DEF PageSound, Target
    <2> QED  BY <2>1, <2>2, <2>5, OnePage
<1>2. CASE OpenSong(e)
    <2> DEFINE p == Opened(NoMode, SongVersion, lyrics)
    <2>1. SongVersion \in Nat /\ \A m \in Modes : Imported(m) => SongVersion = guide[m].version
        BY <1>f DEF SongVersion, GuideInv, GuideFollowsSong
    <2>2. SongVersion # 0 => \E m \in Modes : Imported(m)
        BY DEF SongVersion
    <2>3. /\ p \in Page /\ p.mode = NoMode /\ p.version = SongVersion /\ p.call = "none"
          /\ p.saved = lyrics /\ p.open
        BY <1>t, <2>1 DEF Opened, NoPage, Page
    <2>4. editor' = [editor EXCEPT ![e] = p] /\ UNCHANGED <<lyrics, guide, plan>>
        BY <1>2 DEF OpenSong
    <2> HIDE DEF p
    <2>5. \A m \in Modes : Imported(m) =>
             /\ Exists(m) /\ ~IsEmpty(m)
             /\ guide[m].working = NoContent => Content(guide[m]) = lyrics
        BY DEF GuideInv, RowsMake, GuideFollowsSong, Imported, IsEmpty, Content
    <2>6. \A m \in Modes : Target(p, m) => Imported(m) /\ p.version # 0
        BY <2>3, GuideNamesAssumption DEF Target
    <2>7. \A m \in Modes : Target(p, m) => Behind(p, m)
        BY <2>1, <2>3, <2>5, <2>6, <1>f DEF Behind, SeenAt, SeenText
    <2>8. PageSound(p)
        BY <2>2, <2>3, <2>7 DEF PageSound
    <2> QED  BY <2>3, <2>4, <2>8, OnePage
<1>3. CASE ClosePage(e)
    <2>1. editor' = [editor EXCEPT ![e] = NoPage] /\ UNCHANGED <<lyrics, guide, plan>>
        BY <1>3 DEF ClosePage
    <2> QED  BY <2>1, PageNames, OnePage DEF PageSound
<1>k. ASSUME NEW p \in Page, p.mode = editor[e].mode, p.open = editor[e].open,
             p.call # "none" => (p.open /\ p.sent \in Contents),
             p.version # 0 <=> editor[e].version # 0,
             editor[e].version # 0 =>
                 \/ SeenAt(p) = SeenAt(editor[e]) /\ SeenText(p) = SeenText(editor[e])
                 \/ SeenAt(p) < SeenAt(editor[e]) /\ SeenAt(p) \in Nat
      PROVE  PageSound(p)
    <2>1. \A m \in Modes : Target(p, m) => Target(editor[e], m)
        BY <1>k DEF Target
    <2>2. SeenAt(editor[e]) \in Nat
        BY <1>f DEF SeenAt
    <2>3. \A m \in Modes : (p.open /\ Target(p, m)) => Behind(p, m)
        BY <2>1, <2>2, <1>k, <1>v, <1>f DEF PageSound, Behind
    <2> QED  BY <2>3, <1>k, <1>v DEF PageSound
<1>4. ASSUME NEW c \in Contents, SendPage(e, c) PROVE GuideInv' /\ guide' = guide
    <2> DEFINE p == [editor[e] EXCEPT !.call = "sent", !.sent = c]
    <2>1. /\ p \in Page /\ p.mode = editor[e].mode /\ p.version = editor[e].version
          /\ p.call = "sent" /\ p.sent = c /\ p.saved = editor[e].saved /\ p.open = editor[e].open
        BY <1>t DEF Page
    <2>2. /\ editor' = [editor EXCEPT ![e] = p] /\ UNCHANGED <<lyrics, guide, plan>>
          /\ editor[e].open /\ editor[e].call = "none"
        BY <1>4 DEF SendPage
    <2> HIDE DEF p
    <2>3. SeenAt(p) = SeenAt(editor[e]) /\ SeenText(p) = SeenText(editor[e])
        BY <2>1, <2>2 DEF SeenAt, SeenText
    <2>4. PageSound(p)
        BY <2>1, <2>2, <2>3, <1>k
    <2> QED  BY <2>1, <2>2, <2>4, OnePage
<1>5. CASE PageRefused(e)
    <2> DEFINE p == [editor[e] EXCEPT !.call = "refused"]
    <2>1. /\ p \in Page /\ p.mode = editor[e].mode /\ p.version = editor[e].version
          /\ p.call = "refused" /\ p.sent = editor[e].sent /\ p.saved = editor[e].saved
          /\ p.open = editor[e].open
        BY <1>t DEF Page
    <2>2. /\ editor' = [editor EXCEPT ![e] = p] /\ UNCHANGED <<lyrics, guide, plan>>
          /\ editor[e].call = "sent"
        BY <1>5 DEF PageRefused
    <2> HIDE DEF p
    <2>3. SeenAt(p) = SeenAt(editor[e]) /\ SeenText(p) = SeenText(editor[e])
        BY <2>1, <2>2 DEF SeenAt, SeenText
    <2>4. PageSound(p)
        BY <2>1, <2>2, <2>3, <1>k, <1>v DEF PageSound
    <2> QED  BY <2>1, <2>2, <2>4, OnePage
<1>6. CASE PageAnswered(e)
    <2> DEFINE next == IF editor[e].version = 0 THEN 0 ELSE editor[e].version + 1
               p    == [editor[e] EXCEPT !.call = "none", !.saved = editor[e].sent,
                                         !.version = next, !.sent = NoContent]
    <2>1. next \in Nat /\ (next # 0 <=> editor[e].version # 0)
          /\ (editor[e].version # 0 => next = editor[e].version + 1)
        BY <1>f
    <2>2. /\ editor' = [editor EXCEPT ![e] = p] /\ UNCHANGED <<lyrics, guide, plan>>
          /\ editor[e].call = "stored"
        BY <1>6 DEF PageAnswered
    <2> HIDE DEF next
    <2>3. /\ p \in Page /\ p.mode = editor[e].mode /\ p.version = next
          /\ p.call = "none" /\ p.saved = editor[e].sent /\ p.open = editor[e].open
        BY <2>1, <1>t, <1>f DEF Page
    <2> HIDE DEF p
    <2>4. editor[e].version # 0 => SeenAt(p) = SeenAt(editor[e]) /\ SeenText(p) = SeenText(editor[e])
        BY <2>1, <2>2, <2>3 DEF SeenAt, SeenText
    <2>5. PageSound(p)
        BY <2>1, <2>3, <2>4, <1>k
    <2> QED  BY <2>2, <2>3, <2>5, OnePage
<1>7. CASE PageFails(e)
    <2> DEFINE p == [editor[e] EXCEPT !.call = "none", !.sent = NoContent]
    <2>1. /\ p \in Page /\ p.mode = editor[e].mode /\ p.version = editor[e].version
          /\ p.call = "none" /\ p.saved = editor[e].saved /\ p.open = editor[e].open
        BY <1>t DEF Page
    <2>2. /\ editor' = [editor EXCEPT ![e] = p] /\ UNCHANGED <<lyrics, guide, plan>>
          /\ editor[e].call \in {"stored", "refused"}
        BY <1>7 DEF PageFails
    <2> HIDE DEF p
    <2>3. \/ SeenAt(p) = SeenAt(editor[e]) /\ SeenText(p) = SeenText(editor[e])
          \/ SeenAt(p) < SeenAt(editor[e]) /\ SeenAt(p) \in Nat
        BY <2>1, <2>2, <1>f DEF SeenAt, SeenText
    <2>4. PageSound(p)
        BY <2>1, <2>3, <1>k
    <2> QED  BY <2>1, <2>2, <2>4, OnePage
<1> QED  BY <1>1, <1>2, <1>3, <1>4, <1>5, <1>6, <1>7

\* A page stores what it sent in the guide it writes: the guide's version passes
\* every other page's.
LEMMA StoredOne ==
    ASSUME GuideInv, NEW e \in Editors, NEW m \in Modes, NEW g \in GuideRow,
           editor[e].call = "sent", Target(editor[e], m), editor[e].version = guide[m].version,
           editor' = [editor EXCEPT ![e].call = "stored"],
           guide' = [guide EXCEPT ![m] = g], plan' = plan, lyrics' \in Contents,
           g.version = guide[m].version + 1, g.legacy = guide[m].legacy,
           Imported(m) => g.published # NoContent /\ g.published = lyrics',
           \A n \in Modes : n # m /\ Imported(n) => lyrics' = lyrics,
           g.working # NoContent \/ g.published # NoContent,
           editor[e].mode = NoMode => g.published = editor[e].sent,
           editor[e].mode # NoMode => g.working = editor[e].sent
    PROVE  GuideInv'
<1> DEFINE p == [editor[e] EXCEPT !.call = "stored"]
<1>t. /\ guide \in [Modes -> GuideRow] /\ editor \in [Editors -> Page] /\ editor[e] \in Page
      /\ PageSound(editor[e])
    BY DEF GuideInv, GuideTypeOK, PagesSound
<1>f. /\ \A d \in Editors : editor[d].version \in Nat /\ SeenAt(editor[d]) \in Nat
      /\ \A n \in Modes : guide[n].version \in Nat
    BY <1>t DEF Page, GuideRow, SeenAt
<1>1. /\ p \in Page /\ p.mode = editor[e].mode /\ p.version = editor[e].version
      /\ p.call = "stored" /\ p.sent = editor[e].sent /\ p.open = editor[e].open
    BY <1>t DEF Page
<1> HIDE DEF p
<1>2. /\ editor' \in [Editors -> Page]
      /\ \A d \in Editors : editor'[d] = IF d = e THEN p ELSE editor[d]
    BY <1>t, <1>1 DEF p
<1>3. /\ guide' \in [Modes -> GuideRow] /\ guide'[m] = g
      /\ \A n \in Modes : n # m => guide'[n] = guide[n]
    BY <1>t
<1>o. editor[e].open /\ editor[e].sent \in Contents /\ editor[e].sent # NoContent
    BY <1>t, GuideNamesAssumption DEF PageSound
<1>4. Exists(m) /\ ~IsEmpty(m) /\ editor[e].version # 0
    BY <1>t, <1>o DEF PageSound, Behind
<1>5. GuideTypeOK'
    BY <1>2, <1>3 DEF GuideInv, GuideTypeOK
<1>6. \A n \in Modes : Imported(n)' <=> Imported(n)
    BY <1>3, <1>4, <1>f DEF Imported, Exists
<1>7. \A n \in Modes : Exists(n) => Exists(n)'
    BY <1>3, <1>4, <1>f DEF Exists
<1>8. RowsMake'
    <2> SUFFICES ASSUME NEW n \in Modes
                 PROVE  /\ ~Exists(n)' => (~guide'[n].legacy /\ IsEmpty(n)')
                        /\ Imported(n)' => guide'[n].published # NoContent
        BY DEF RowsMake
    <2>1. CASE n = m  BY <2>1, <1>3, <1>4, <1>6, <1>7
    <2>2. CASE n # m
        BY <2>2, <1>3, <1>6 DEF GuideInv, RowsMake, Exists, IsEmpty
    <2> QED  BY <2>1, <2>2
<1>9. GuideFollowsSong'
    BY <1>3, <1>6 DEF GuideInv, GuideFollowsSong
<1>10. PagesSound'
    <2> SUFFICES ASSUME NEW d \in Editors PROVE PageSound(editor[d])'
        BY DEF PagesSound
    <2>d. PageSound(editor[d])
        BY DEF GuideInv, PagesSound
    <2>1. ASSUME NEW n \in Modes, editor'[d].open, Target(editor[d], n)' PROVE Behind(editor[d], n)'
        <3>1. /\ Target(editor[d], n) /\ editor[d].open
              /\ editor'[d].mode = editor[d].mode /\ editor'[d].version = editor[d].version
            BY <2>1, <1>1, <1>2, <1>6 DEF Target
        <3>2. Behind(editor[d], n)
            BY <3>1, <2>d DEF PageSound
        <3>3. Exists(n)' /\ ~IsEmpty(n)' /\ editor'[d].version # 0
            BY <3>1, <3>2, <1>3, <1>7 DEF Behind, IsEmpty
        <3>4. CASE d # e /\ n # m
            BY <3>2, <3>3, <3>4, <1>2, <1>3 DEF Behind, SeenAt, SeenText
        <3>5. CASE d # e /\ n = m
            <4>1. SeenAt(editor[d]) < guide'[m].version /\ editor'[d] = editor[d]
                BY <3>2, <3>5, <1>2, <1>3, <1>f DEF Behind
            <4> QED  BY <4>1, <3>3, <3>5, <1>3, <1>f DEF Behind, SeenAt, SeenText
        <3>6. CASE d = e /\ n = m
            <4>1. /\ SeenAt(p) = guide'[m].version /\ SeenText(p) = editor[e].sent
                  /\ editor'[d] = p
                BY <3>6, <1>1, <1>2, <1>3 DEF SeenAt, SeenText
            <4>2. (p.mode = NoMode => g.working = NoContent) => Content(g) = editor[e].sent
                BY <1>1, <1>o DEF Content
            <4>3. guide'[m].version \in Nat
                BY <1>3, <1>f
            <4> QED
                BY <4>1, <4>2, <4>3, <3>3, <3>6, <1>1, <1>3 DEF Behind, SeenAt, SeenText
        <3>7. CASE d = e /\ n # m
            <4>1. editor[e].mode = NoMode /\ Imported(n) /\ Imported(m)
                BY <3>1, <3>7, GuideNamesAssumption DEF Target
            <4> QED  BY <4>1, <3>7 DEF GuideInv, GuideFollowsSong
        <3> QED  BY <3>4, <3>5, <3>6, <3>7
    <2>2. /\ editor'[d].open = editor[d].open /\ editor'[d].mode = editor[d].mode
          /\ editor'[d].version = editor[d].version /\ editor'[d].sent = editor[d].sent
          /\ editor'[d].call # "none" => editor[d].call # "none"
        BY <1>1, <1>2
    <2>3. editor'[d].call # "none" => (editor'[d].open /\ editor'[d].sent \in Contents)
        BY <2>2, <2>d DEF PageSound
    <2>4. (editor'[d].open /\ editor'[d].mode = NoMode /\ editor'[d].version # 0)
             => \E n \in Modes : Imported(n)'
        BY <2>2, <2>d, <1>6 DEF PageSound
    <2> QED  BY <2>1, <2>3, <2>4 DEF PageSound
<1> QED  BY <1>5, <1>8, <1>9, <1>10 DEF GuideInv

\* What a step may do to the guide m that was there and stays.
Seen(m) ==
    (guide'[m] # guide[m] /\ Exists(m) /\ guide'[m].version # 0)
       => \E e \in Editors : Writes(e, m) /\ editor[e].saved = Content(guide[m])

LEMMA StoreStep ==
    ASSUME GuideInv, NEW e \in Editors, StoreDraft(e) \/ StoreSong(e)
    PROVE  GuideInv' /\ \A m \in Modes : Seen(m)
<1>t. /\ guide \in [Modes -> GuideRow] /\ editor \in [Editors -> Page] /\ editor[e] \in Page
      /\ lyrics \in Contents /\ PageSound(editor[e])
    BY DEF GuideInv, GuideTypeOK, PagesSound
<1>0. editor[e].call = "sent" /\ editor' = [editor EXCEPT ![e].call = "stored"] /\ plan' = plan
    BY DEF StoreDraft, StoreSong
<1>o. editor[e].open /\ editor[e].sent \in Contents /\ editor[e].sent # NoContent
    BY <1>t, <1>0, GuideNamesAssumption DEF PageSound
<1>c. editor'[e].call = "stored"
    BY <1>t, <1>0 DEF Page
<1>w. ASSUME NEW m \in Modes, NEW g \in GuideRow, guide' = [guide EXCEPT ![m] = g],
             g.version = guide[m].version + 1, Target(editor[e], m),
             editor[e].version = guide[m].version,
             editor[e].mode = NoMode => guide[m].working = NoContent
      PROVE  \A n \in Modes : Seen(n)
    <2>1. guide[m].version \in Nat /\ guide'[m].version # guide[m].version
        BY <1>t, <1>w DEF GuideRow
    <2>2. editor[e].saved = Content(guide[m])
        BY <1>t, <1>0, <1>o, <1>w DEF PageSound, Behind, SeenAt, SeenText
    <2>3. \A n \in Modes : n # m => guide'[n] = guide[n]
        BY <1>t, <1>w
    <2> QED  BY <2>1, <2>2, <2>3, <1>0, <1>c DEF Seen, Writes
<1>1. CASE StoreDraft(e)
    <2> DEFINE m == editor[e].mode
               v == guide[m].version + 1
               g == [guide[m] EXCEPT !.version = v, !.working = editor[e].sent]
    <2>0. m \in Modes /\ guide[m] \in GuideRow
        BY <1>1, <1>t DEF StoreDraft, Page
    <2>1. /\ VersionHeld(e, m) /\ UNCHANGED lyrics
          /\ guide' = [guide EXCEPT ![m] = g]
        BY <1>1 DEF StoreDraft
    <2>n. v \in Nat
        BY <2>0 DEF GuideRow
    <2> HIDE DEF v
    <2>2. /\ g \in GuideRow /\ g.version = v /\ g.legacy = guide[m].legacy
          /\ g.published = guide[m].published /\ g.working = editor[e].sent
        BY <2>0, <2>n, <1>o DEF GuideRow
    <2> USE DEF v
    <2>3. Target(editor[e], m) /\ editor[e].version = guide[m].version /\ editor[e].mode # NoMode
        BY <2>0, <2>1, GuideNamesAssumption DEF Target, VersionHeld
    <2>4. Imported(m) => g.published # NoContent /\ g.published = lyrics
        BY <2>0, <2>1, <2>2 DEF GuideInv, RowsMake, GuideFollowsSong
    <2> HIDE DEF g
    <2>5. GuideInv'
        BY <2>0, <2>1, <2>2, <2>3, <2>4, <1>t, <1>0, <1>o, StoredOne
    <2> QED  BY <2>0, <2>1, <2>2, <2>3, <2>5, <1>w
<1>2. CASE StoreSong(e)
    <2>1. editor[e].mode = NoMode /\ lyrics' = editor[e].sent
        BY <1>2 DEF StoreSong
    <2>2. CASE editor[e].version = 0 /\ (\A m \in Modes : ~Imported(m)) /\ guide' = guide
        <3> DEFINE p == [editor[e] EXCEPT !.call = "stored"]
        <3>1. /\ p \in Page /\ p.mode = NoMode /\ p.version = 0 /\ p.open
              /\ p.call = "stored" /\ p.sent = editor[e].sent
            BY <2>1, <2>2, <1>t, <1>o DEF Page
        <3>2. \A d \in Editors : editor'[d] = IF d = e THEN p ELSE editor[d]
            BY <1>t, <1>0
        <3>3. editor' \in [Editors -> Page]
            BY <3>1, <1>t, <1>0
        <3> HIDE DEF p
        <3>4. PageSound(p)
            BY <3>1, <1>o, GuideNamesAssumption DEF PageSound, Target
        <3>5. \A d \in Editors : PageSound(editor'[d])
            BY <3>2, <3>4 DEF GuideInv, PagesSound
        <3>6. PagesSound'
            BY <3>5, <2>2 DEF PagesSound, PageSound, Target, Behind, Exists, IsEmpty, Imported
        <3>7. GuideTypeOK' /\ RowsMake' /\ GuideFollowsSong'
            BY <3>3, <2>1, <2>2, <1>o, <1>0
            DEF GuideInv, GuideTypeOK, RowsMake, GuideFollowsSong, Exists, IsEmpty, Imported
        <3> QED  BY <3>6, <3>7, <2>2 DEF GuideInv, Seen
    <2>3. ASSUME NEW m \in Modes, Imported(m), MayPublish(e, m),
                 guide' = [guide EXCEPT ![m] =
                    [guide[m] EXCEPT !.version = guide[m].version + 1, !.published = editor[e].sent]]
          PROVE  GuideInv' /\ \A n \in Modes : Seen(n)
        <3> DEFINE v == guide[m].version + 1
                   g == [guide[m] EXCEPT !.version = v, !.published = editor[e].sent]
        <3>1. guide' = [guide EXCEPT ![m] = g]
            BY <2>3
        <3>r. guide[m] \in GuideRow
            BY <1>t
        <3>n. v \in Nat
            BY <3>r DEF GuideRow
        <3> HIDE DEF v
        <3>2. /\ g \in GuideRow /\ g.version = v /\ g.legacy = guide[m].legacy
              /\ g.published = editor[e].sent
            BY <3>r, <3>n, <1>o DEF GuideRow
        <3> USE DEF v
        <3>3. /\ editor[e].version = guide[m].version /\ guide[m].working = NoContent
              /\ editor[e].version # 0
            BY <2>3 DEF MayPublish, VersionHeld, Exists
        <3>4. Target(editor[e], m)
            BY <2>1, <2>3, <3>3 DEF Target
        <3>5. \A n \in Modes : Imported(n) => n = m
            BY <2>3 DEF GuideInv, GuideFollowsSong
        <3> HIDE DEF g
        <3>6. GuideInv'
            BY <3>1, <3>2, <3>3, <3>4, <3>5, <2>1, <1>0, <1>o, StoredOne
        <3> QED  BY <3>1, <3>2, <3>3, <3>4, <3>6, <1>w
    <2> QED  BY <2>2, <2>3, <1>2 DEF StoreSong
<1> QED  BY <1>1, <1>2

\* Every step keeps the invariant, and writes over nothing that was not seen.
LEMMA GuideNextStep ==
    ASSUME GuideInv, [GuideNext]_guideVars
    PROVE  GuideInv' /\ \A m \in Modes : Seen(m)
<1>1. ASSUME NEW m \in Modes, CreateGuide(m) \/ DeleteGuide(m) \/ ImportGuide(m)
      PROVE  GuideInv' /\ \A n \in Modes : Seen(n)
    BY <1>1, GuideStep DEF Seen
<1>2. CASE PlanImport \/ UNCHANGED guideVars
    <2>1. UNCHANGED <<lyrics, guide, editor>> /\ (plan' = lyrics \/ plan' = plan)
        BY <1>2 DEF PlanImport, guideVars
    <2>2. GuideTypeOK'
        BY <2>1 DEF GuideInv, GuideTypeOK
    <2>3. RowsMake' /\ PagesSound' /\ GuideFollowsSong'
        BY <2>1 DEF GuideInv, RowsMake, PagesSound, PageSound, Target, Behind, GuideFollowsSong,
                    Exists, IsEmpty, Imported
    <2> QED  BY <2>1, <2>2, <2>3 DEF GuideInv, Seen
<1>3. ASSUME NEW e \in Editors, EditorNext(e) PROVE GuideInv' /\ \A m \in Modes : Seen(m)
    <2>1. CASE StoreDraft(e) \/ StoreSong(e)
        BY <2>1, StoreStep
    <2>2. CASE ~(StoreDraft(e) \/ StoreSong(e))
        BY <2>2, <1>3, PageOnlyStep DEF EditorNext, Seen
    <2> QED  BY <2>1, <2>2
<1> QED  BY <1>1, <1>2, <1>3 DEF GuideNext

\* Guides, pages and song keep their types, and each page is behind its guide or
\* has seen what it says, for any number of modes, pages and texts.
THEOREM GuideInvariance == GuideSpec => []GuideInv
<1>1. GuideInv /\ [GuideNext]_guideVars => GuideInv'
    BY GuideNextStep
<1> QED  BY <1>1, GuideInitial, PTL DEF GuideSpec

\* Readers of the one imported guide see the song's text.
THEOREM SongAndGuideAgree == GuideSpec => []GuideFollowsSong
<1>1. GuideInv => GuideFollowsSong
    BY DEF GuideInv
<1> QED  BY <1>1, GuideInvariance, PTL

\* No page replaces a guide's text that it has not seen.
THEOREM NoEditLost == GuideSpec => NoLostEdit
<1> DEFINE Kept ==
        \A m \in Modes :
            (guide'[m] # guide[m] /\ Exists(m) /\ guide'[m].version # 0)
               => \E e \in Editors : Writes(e, m) /\ editor[e].saved = Content(guide[m])
<1>1. GuideInv /\ [GuideNext]_guideVars => [Kept]_guideVars
    BY GuideNextStep DEF Seen
<1> QED  BY <1>1, GuideInvariance, PTL DEF GuideSpec, NoLostEdit

=============================================================================
