------------------------------ MODULE RowLocks ------------------------------
(***************************************************************************)
(* The row locks that the transactions on songs, jobs, guides, albums,     *)
(* accounts and registrations of browsers take, one after the other and    *)
(* kept to the end: those they ask for (select ... for update), those of   *)
(* their writes, and the key-share locks of foreign keys. Who waits for    *)
(* whom is all that matters here, what is written is left out.             *)
(***************************************************************************)
EXTENDS Sequences, Naturals

CONSTANTS Songs, Jobs, Guides, Albums, Admins, Devices,
          SongOf,        \* the song of a job or a guide, which never changes
          Transactions,
          NoId

ASSUME LocksAssumption ==
    /\ SongOf \in [Jobs \cup Guides -> Songs]
    /\ Jobs \cap Guides = {}
    /\ NoId \notin Songs \cup Jobs \cup Guides \cup Albums \cup Admins \cup Devices

VARIABLE tx   \* tx[t]: what transaction t does, holds, has yet to ask for and waits for

\* update: for update, delete, or a change of a key; nokey: any other update;
\* keyshare: a row that refers to it was written.
Conflicts(m, n) == {m, n} \in {{"update"}, {"nokey"}, {"update", "nokey"}, {"update", "keyshare"}}

Update(table, ids)   == {[table |-> table, id |-> i, mode |-> "update"] : i \in ids}
NoKey(table, ids)    == {[table |-> table, id |-> i, mode |-> "nokey"] : i \in ids}
KeyShare(table, ids) == {[table |-> table, id |-> i, mode |-> "keyshare"] : i \in ids}

JobsOf(songs)   == {j \in Jobs : SongOf[j] \in songs}
GuidesOf(songs) == {g \in Guides : SongOf[g] \in songs}

\* The notifications of a job's requesters and their deliveries.
Notices == KeyShare("account", Admins) \cup KeyShare("device", Devices)
\* on delete cascade, and the check that no guide is left behind.
Cascade(songs) == Update("job", JobsOf(songs)) \cup Update("waveform", songs)
                  \cup KeyShare("guide", GuidesOf(songs))

-----------------------------------------------------------------------------
(* What each transaction locks, step by step: the first step's locks, then *)
(* some of those of each later step, as it finds the rows.                 *)

\* requestWaveformJob.
RequestSteps(j, p) ==
    <<Update("song", {SongOf[j]}), Update("job", {j}), KeyShare("account", {p})>>

\* importSongWaveform.
ImportSteps(j, p) ==
    <<Update("song", {SongOf[j]}), Update("job", {j}), KeyShare("account", {p}),
      Update("waveform", {SongOf[j]}), Notices>>

\* Fault: the job is locked first.
RunnerStepsFault(j) == <<Update("job", {j}), Update("song", {SongOf[j]})>>
\* recordWaveformEnqueued and startWaveformJob, by lockRunnerJob.
RunnerSteps(j) == <<Update("song", {SongOf[j]}), Update("job", {j})>>

\* completeWaveformJob.
CompleteSteps(j) ==
    <<Update("song", {SongOf[j]}), Update("job", {j}), Update("waveform", {SongOf[j]}), Notices>>

\* editSong and saveSongLyrics: the song, its guide, the author of the guide's
\* new snapshot and publication, and then the album that the song goes to.
EditSteps(s, b) ==
    <<Update("song", {s}), Update("guide", GuidesOf({s})), KeyShare("account", Admins),
      KeyShare("album", {b})>>

\* saveAdminCheerGuideDraft, createAdminCheerGuide; importLegacyGuide locks all
\* guides of the song.
DraftSteps(g, p) ==
    <<Update("song", {SongOf[g]}), NoKey("guide", {g}), KeyShare("account", {p})>>
ImportGuideSteps(s, p) ==
    <<Update("song", {s}), Update("guide", GuidesOf({s})), KeyShare("account", {p})>>

\* deleteEmptyCheerGuide: one conditional statement.
DeleteGuideSteps(g) == <<Update("guide", {g})>>

\* deleteSong, deleteAlbum: one statement each, with what the database does for it.
DeleteSongSteps(s)  == <<Update("song", {s}), Cascade({s})>>
DeleteAlbumSteps(b) == <<Update("album", {b}), Update("song", Songs), Cascade(Songs)>>

\* createSong.
CreateSongSteps(b) == <<KeyShare("album", {b})>>

\* lockConsoleAuthenticationFacts: set-up, sign-in, reset, change of access.
AccessSteps(a) == <<Update("account", {a}), Update("credential", {a}), Update("mfa", {a})>>

\* registerPushInstallation; unregister and release are one statement.
RegisterSteps(a, d) == Append(AccessSteps(a), NoKey("device", {d}))
ReleaseSteps(d)     == <<NoKey("device", {d})>>

Ops == ({"request", "import"} \X Jobs \X Admins) \cup ({"runner", "complete"} \X Jobs \X {NoId})
       \cup ({"edit"} \X Songs \X Albums) \cup ({"draft"} \X Guides \X Admins)
       \cup ({"importGuide"} \X Songs \X Admins) \cup ({"deleteGuide"} \X Guides \X {NoId})
       \cup ({"deleteSong"} \X Songs \X {NoId}) \cup ({"deleteAlbum", "createSong"} \X Albums \X {NoId})
       \cup ({"access"} \X Admins \X {NoId}) \cup ({"register"} \X Admins \X Devices)
       \cup ({"release"} \X Devices \X {NoId})
NoOp == <<"idle", NoId, NoId>>

Program(op) ==
    CASE op[1] = "request"     -> RequestSteps(op[2], op[3])
      [] op[1] = "import"      -> ImportSteps(op[2], op[3])
      [] op[1] = "runner"      -> RunnerSteps(op[2])
      [] op[1] = "complete"    -> CompleteSteps(op[2])
      [] op[1] = "edit"        -> EditSteps(op[2], op[3])
      [] op[1] = "draft"       -> DraftSteps(op[2], op[3])
      [] op[1] = "importGuide" -> ImportGuideSteps(op[2], op[3])
      [] op[1] = "deleteGuide" -> DeleteGuideSteps(op[2])
      [] op[1] = "deleteSong"  -> DeleteSongSteps(op[2])
      [] op[1] = "deleteAlbum" -> DeleteAlbumSteps(op[2])
      [] op[1] = "createSong"  -> CreateSongSteps(op[2])
      [] op[1] = "access"      -> AccessSteps(op[2])
      [] op[1] = "register"    -> RegisterSteps(op[2], op[3])
      [] op[1] = "release"     -> ReleaseSteps(op[2])
      [] OTHER                 -> <<>>

-----------------------------------------------------------------------------
(* The transactions and the database's locks.                              *)

NoLock == [table |-> "none", id |-> NoId, mode |-> "none"]
NoTransaction == [op |-> NoOp, step |-> 0, todo |-> {}, want |-> NoLock, held |-> {}]

LocksInit == tx = [t \in Transactions |-> NoTransaction]

BeginTx(t, op) ==
    /\ tx[t].op = NoOp
    /\ tx' = [tx EXCEPT ![t] = [NoTransaction EXCEPT !.op = op, !.step = 1, !.todo = Program(op)[1]]]

\* Its statement comes to the next row; the database takes them in any order.
Ask(t, lock) ==
    /\ tx[t].want = NoLock /\ lock \in tx[t].todo
    /\ tx' = [tx EXCEPT ![t].want = lock, ![t].todo = @ \ {lock}]

Blocks(u, lock) ==
    \E h \in tx[u].held : /\ h.table = lock.table /\ h.id = lock.id
                          /\ Conflicts(h.mode, lock.mode)

Grant(t) ==
    /\ tx[t].want # NoLock
    /\ \A u \in Transactions \ {t} : ~Blocks(u, tx[t].want)
    /\ tx' = [tx EXCEPT ![t].held = @ \cup {tx[t].want}, ![t].want = NoLock]

\* After a wait the row is no longer what the statement looks for.
Skip(t) ==
    /\ tx[t].want # NoLock /\ tx[t].step > 1
    /\ tx' = [tx EXCEPT ![t].want = NoLock]

\* Only the rows of the songs that were found are deleted with them.
Within(t, lock) ==
    (tx[t].op[1] = "deleteAlbum" /\ tx[t].step = 2) =>
        lock \in Cascade({s \in Songs : Update("song", {s}) \subseteq tx[t].held})

\* The next statement, for those of its rows that it finds.
Advance(t) ==
    /\ tx[t].want = NoLock /\ tx[t].todo = {}
    /\ tx[t].step < Len(Program(tx[t].op))
    /\ \E todo \in SUBSET Program(tx[t].op)[tx[t].step + 1] :
          /\ \A lock \in todo : Within(t, lock)
          /\ tx' = [tx EXCEPT ![t].step = @ + 1, ![t].todo = todo]

\* Commit, or an error at any time: a refusal, lock_timeout, the connection.
EndTx(t) ==
    /\ tx[t].op # NoOp
    /\ tx' = [tx EXCEPT ![t] = NoTransaction]

LocksNext ==
    \E t \in Transactions :
        \/ \E op \in Ops : BeginTx(t, op)
        \/ \E lock \in tx[t].todo : Ask(t, lock)
        \/ Grant(t) \/ Skip(t) \/ Advance(t) \/ EndTx(t)

LocksSpec == LocksInit /\ [][LocksNext]_tx

-----------------------------------------------------------------------------
(* Properties.                                                             *)

Waits(t, u) == t # u /\ tx[t].want # NoLock /\ Blocks(u, tx[t].want)
Circle(D)   == D # {} /\ \A t \in D : \E u \in D : Waits(t, u)

\* Transactions never wait for each other in a circle, so that none is stopped by
\* the database or by lock_timeout for a deadlock; but for the deletion of an album,
\* which takes the album before its songs, together with another one or with an
\* edit that takes a song before the album it goes to.
CirclesNeedAlbums ==
    \A D \in SUBSET Transactions : Circle(D) =>
        \E t \in D : /\ tx[t].op[1] = "deleteAlbum"
                     /\ \E u \in D \ {t} :
                           \/ tx[u].op[1] = "deleteAlbum"
                           \/ tx[u].op[1] = "edit" /\ tx[u].want.table = "album"

=============================================================================
