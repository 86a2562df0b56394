--------------------------- MODULE RowLocksProofs ---------------------------
(***************************************************************************)
(* Proof that transactions wait for each other in a circle only around the *)
(* deletion of an album, for any numbers of rows and transactions.         *)
(***************************************************************************)
EXTENDS RowLocks, SequenceTheorems, TLAPS

Ids    == Songs \cup Jobs \cup Guides \cup Albums \cup Admins \cup Devices
Tables == {"song", "job", "waveform", "guide", "album", "account", "credential", "mfa", "device"}
Lock   == [table : Tables, id : Ids, mode : {"update", "nokey", "keyshare"}]

Transaction == [op : Ops \cup {NoOp}, step : Nat, todo : SUBSET Lock,
                want : Lock \cup {NoLock}, held : SUBSET Lock]

\* The lock on a song's row, and the song that a row belongs to.
SongLock(s)    == [table |-> "song", id |-> s, mode |-> "update"]
AccountLock(a) == [table |-> "account", id |-> a, mode |-> "update"]
OwnerOf(l)     == IF l.table = "waveform" THEN l.id ELSE SongOf[l.id]

Last(op) == Program(op)[Len(Program(op))]

\* Where a transaction is among its steps.
Shape(x) ==
    /\ x.op = NoOp => x = NoTransaction
    /\ x.op # NoOp =>
          /\ x.step \in 1..Len(Program(x.op))
          /\ x.todo \subseteq Program(x.op)[x.step]
          /\ x.want \in Program(x.op)[x.step] \cup {NoLock}
          /\ \A h \in x.held : \E n \in 1..x.step : h \in Program(x.op)[n]
          /\ Program(x.op)[1] \subseteq
                x.held \cup (IF x.step = 1 THEN x.todo \cup {x.want} ELSE {})
    /\ x.want \notin x.todo
    /\ x.step = 1 => x.held \cap (x.todo \cup {x.want}) = {}

\* A lock that is the last that its transaction takes.
Closing(op, l) ==
    \/ l.table = "album" /\ op[1] # "deleteAlbum"
    \/ l.table = "device" /\ l.mode = "nokey"
    \/ l.table = "guide" /\ op[1] = "deleteGuide"
Closed(x) == (\E h \in x.held : Closing(x.op, h)) => x.todo = {} /\ x.want = NoLock

\* An album's deletion touches what belongs to songs only when it has these.
Cascaded(x) ==
    x.op[1] = "deleteAlbum" =>
        \A l \in x.held \cup x.todo \cup {x.want} :
            l.table \in {"job", "waveform", "guide"} => SongLock(OwnerOf(l)) \in x.held

Good(x) == Shape(x) /\ Closed(x) /\ Cascaded(x)

\* The locks that are held are compatible.
Exclusive ==
    \A t, u \in Transactions : t # u =>
        \A h \in tx[t].held, k \in tx[u].held :
            (h.table = k.table /\ h.id = k.id) => ~Conflicts(h.mode, k.mode)

LocksInv ==
    /\ tx \in [Transactions -> Transaction]
    /\ \A t \in Transactions : Good(tx[t])
    /\ Exclusive

-----------------------------------------------------------------------------
(* The programs.                                                           *)

\* l is all that the first step takes, or the last.
Opens(op, n, l)  == n = 1 /\ Program(op)[1] = {l}
Closes(op, n, l) == n = Len(Program(op)) /\ Last(op) = {l}

\* What kind of lock l a transaction takes at its step n.
Placed(op, n, l) ==
    /\ l \in Lock
    /\ l.table = "song" => l.mode = "update" /\ (op[1] = "deleteAlbum" \/ Opens(op, n, l))
    /\ l.table \in {"job", "waveform"} => l.mode = "update" /\ n > 1
    /\ l.table = "guide" =>
          IF op[1] = "deleteGuide" THEN Opens(op, n, l) /\ Closes(op, n, l) ELSE n > 1
    /\ l.table \in {"job", "waveform", "guide"} =>
          /\ OwnerOf(l) \in Songs
          /\ op[1] \in {"deleteAlbum", "deleteGuide"} \/ SongLock(OwnerOf(l)) \in Program(op)[1]
    /\ l.table \in {"credential", "mfa"} =>
          /\ l.mode = "update" /\ n > 1 /\ AccountLock(l.id) \in Program(op)[1]
          /\ op[1] \in {"access", "register"}
    /\ l.table = "account" =>
          \/ l.mode = "keyshare" /\ op[1] \notin {"access", "register"}
          \/ l.mode = "update" /\ op[1] \in {"access", "register"} /\ Opens(op, n, l)
    /\ l.table = "device" =>
          \/ l.mode = "keyshare"
          \/ l.mode = "nokey" /\ Closes(op, n, l)
    /\ l.table = "album" =>
          \/ /\ l.mode = "keyshare" /\ op[1] \in {"edit", "createSong"} /\ Closes(op, n, l)
             /\ op[1] = "createSong" => Opens(op, n, l)
          \/ l.mode = "update" /\ op[1] = "deleteAlbum"
    /\ op[1] \in {"access", "register"} => l.table \in {"account", "credential", "mfa", "device"}

WellPlaced(op) ==
    /\ Len(Program(op)) \in Nat /\ Len(Program(op)) >= 1
    /\ \A n \in 1..Len(Program(op)) : \A l \in Program(op)[n] :
          Placed(op, n, l)

LEMMA LockSets ==
    ASSUME NEW T \in Tables, NEW I, I \subseteq Ids
    PROVE  /\ Update(T, I) \subseteq Lock /\ NoKey(T, I) \subseteq Lock /\ KeyShare(T, I) \subseteq Lock
           /\ \A l \in Update(T, I) : l.table = T /\ l.mode = "update" /\ l.id \in I
           /\ \A l \in NoKey(T, I) : l.table = T /\ l.mode = "nokey" /\ l.id \in I
           /\ \A l \in KeyShare(T, I) : l.table = T /\ l.mode = "keyshare" /\ l.id \in I
BY DEF Update, NoKey, KeyShare, Lock

LEMMA OneLock ==
    ASSUME NEW T \in Tables, NEW i \in Ids
    PROVE  /\ Update(T, {i}) = {[table |-> T, id |-> i, mode |-> "update"]}
           /\ NoKey(T, {i}) = {[table |-> T, id |-> i, mode |-> "nokey"]}
           /\ KeyShare(T, {i}) = {[table |-> T, id |-> i, mode |-> "keyshare"]}
BY DEF Update, NoKey, KeyShare

LEMMA SongRow == \A s \in Songs : Update("song", {s}) = {SongLock(s)}
BY DEF Update, SongLock

LEMMA CascadeLocks ==
    ASSUME NEW S, S \subseteq Songs
    PROVE  \A l \in Cascade(S) : /\ l \in Lock /\ l.table \in {"job", "waveform", "guide"}
                                 /\ OwnerOf(l) \in S
                                 /\ l.table \in {"job", "waveform"} => l.mode = "update"
<1>1. JobsOf(S) \subseteq Jobs /\ GuidesOf(S) \subseteq Guides
  BY DEF JobsOf, GuidesOf
<1>2. \A l \in Update("job", JobsOf(S)) :
          l \in Lock /\ l.table = "job" /\ l.mode = "update" /\ SongOf[l.id] \in S
  BY <1>1, LockSets DEF Tables, Ids, JobsOf
<1>3. \A l \in Update("waveform", S) :
          l \in Lock /\ l.table = "waveform" /\ l.mode = "update" /\ l.id \in S
  BY LockSets DEF Tables, Ids
<1>4. \A l \in KeyShare("guide", GuidesOf(S)) : l \in Lock /\ l.table = "guide" /\ SongOf[l.id] \in S
  BY <1>1, LockSets DEF Tables, Ids, GuidesOf
<1> QED BY <1>2, <1>3, <1>4 DEF Cascade, OwnerOf

-----------------------------------------------------------------------------
(* Each kind of lock, placed.                                              *)

LEMMA RowsPlaced ==
    ASSUME NEW op, op[1] \notin {"deleteGuide", "access", "register"},
           NEW n \in Nat, n > 1, NEW s \in Songs, SongLock(s) \in Program(op)[1]
    PROVE  /\ \A j \in Jobs : SongOf[j] = s =>
                  \A l \in Update("job", {j}) : Placed(op, n, l)
           /\ \A l \in Update("waveform", {s}) : Placed(op, n, l)
           /\ \A g \in Guides : SongOf[g] = s =>
                  \A l \in NoKey("guide", {g}) : Placed(op, n, l)
           /\ \A l \in Update("guide", GuidesOf({s})) : Placed(op, n, l)
           /\ \A l \in Cascade({s}) : Placed(op, n, l)
<1>1. ASSUME NEW j \in Jobs, SongOf[j] = s, NEW l \in Update("job", {j})
      PROVE  Placed(op, n, l)
  <2>1. l \in Lock /\ l.table = "job" /\ l.mode = "update" /\ l.id = j
    BY <1>1, LockSets DEF Tables, Ids
  <2> QED BY <1>1, <2>1 DEF Placed, OwnerOf
<1>2. ASSUME NEW l \in Update("waveform", {s}) PROVE Placed(op, n, l)
  <2>1. l \in Lock /\ l.table = "waveform" /\ l.mode = "update" /\ l.id = s
    BY <1>2, LockSets DEF Tables, Ids
  <2> QED BY <2>1 DEF Placed, OwnerOf
<1>3. ASSUME NEW g \in Guides, SongOf[g] = s, NEW l \in NoKey("guide", {g})
      PROVE  Placed(op, n, l)
  <2>1. l \in Lock /\ l.table = "guide" /\ l.id = g
    BY <1>3, LockSets DEF Tables, Ids
  <2> QED BY <1>3, <2>1 DEF Placed, OwnerOf
<1>4. ASSUME NEW l \in Update("guide", GuidesOf({s})) PROVE Placed(op, n, l)
  <2>1. l \in Lock /\ l.table = "guide" /\ SongOf[l.id] = s
    BY <1>4, LockSets DEF Tables, Ids, GuidesOf
  <2> QED BY <2>1 DEF Placed, OwnerOf
<1>5. ASSUME NEW l \in Cascade({s}) PROVE Placed(op, n, l)
  <2>1. /\ l \in Lock /\ l.table \in {"job", "waveform", "guide"} /\ OwnerOf(l) = s
        /\ l.table \in {"job", "waveform"} => l.mode = "update"
    BY <1>5, CascadeLocks
  <2> QED BY <2>1 DEF Placed
<1> QED BY <1>1, <1>2, <1>3, <1>4, <1>5

LEMMA SharesPlaced ==
    ASSUME NEW op, op[1] \notin {"access", "register"}, NEW n \in Nat
    PROVE  /\ \A P \in SUBSET Admins : \A l \in KeyShare("account", P) :
                  Placed(op, n, l)
           /\ \A l \in Notices : Placed(op, n, l)
           /\ \A s \in Songs : (n = 1 /\ Program(op)[1] = Update("song", {s})) =>
                 \A l \in Update("song", {s}) : Placed(op, n, l)
<1>1. \A P \in SUBSET Admins : \A l \in KeyShare("account", P) :
          l \in Lock /\ l.table = "account" /\ l.mode = "keyshare"
  BY LockSets DEF Tables, Ids
<1>2. \A l \in Notices : l \in Lock /\ l.table \in {"account", "device"} /\ l.mode = "keyshare"
  BY LockSets DEF Tables, Ids, Notices
<1>3. \A s \in Songs : \A l \in Update("song", {s}) :
          l \in Lock /\ l.table = "song" /\ l.mode = "update"
  BY LockSets DEF Tables, Ids
<1>4. \A s \in Songs : \A l \in Update("song", {s}) : Update("song", {s}) = {l}
  BY SongRow
<1> QED BY <1>1, <1>2, <1>3, <1>4 DEF Placed, Opens

LEMMA RequestsPlaced ==
    ASSUME NEW j \in Jobs, NEW p \in Admins
    PROVE  /\ WellPlaced(<<"request", j, p>>)
           /\ WellPlaced(<<"import", j, p>>)
<1>1. SongOf[j] \in Songs
  BY LocksAssumption
<1>2. WellPlaced(<<"request", j, p>>)
  <2> DEFINE op == <<"request", j, p>>
  <2>1. /\ op[1] = "request"
        /\ Program(op) = <<Update("song", {SongOf[j]}), Update("job", {j}),
                         KeyShare("account", {p})>>
    BY DEF Program, RequestSteps
  <2> HIDE DEF op
  <2>2. /\ Len(Program(op)) = 3
        /\ Program(op)[1] = Update("song", {SongOf[j]})
        /\ Program(op)[2] = Update("job", {j})
        /\ Program(op)[3] = KeyShare("account", {p})
    BY <2>1
  <2>3. SongLock(SongOf[j]) \in Program(op)[1]
    BY <1>1, <2>2, SongRow
  <2>4. ASSUME NEW n \in 1..3, NEW l \in Program(op)[n]
        PROVE  Placed(op, n, l)
    <3>1. CASE n = 1
      BY <2>1, <1>1, <2>2, <2>4, <3>1, SharesPlaced
    <3>2. CASE n = 2
      <4>1. /\ n \in Nat /\ n > 1 /\ op[1] \notin {"deleteGuide", "access", "register"}
            /\ l \in Update("job", {j})
        BY <2>1, <2>2, <2>4, <3>2
      <4> QED BY <1>1, <2>3, <4>1, RowsPlaced
    <3>3. CASE n = 3
      BY <2>1, <2>2, <2>4, <3>3, SharesPlaced
    <3> QED BY <3>1, <3>2, <3>3
  <2> QED BY <2>2, <2>4 DEF WellPlaced, op
<1>3. WellPlaced(<<"import", j, p>>)
  <2> DEFINE op == <<"import", j, p>>
  <2>1. /\ op[1] = "import"
        /\ Program(op) = <<Update("song", {SongOf[j]}), Update("job", {j}),
                         KeyShare("account", {p}), Update("waveform", {SongOf[j]}), Notices>>
    BY DEF Program, ImportSteps
  <2> HIDE DEF op
  <2>2. /\ Len(Program(op)) = 5
        /\ Program(op)[1] = Update("song", {SongOf[j]})
        /\ Program(op)[2] = Update("job", {j})
        /\ Program(op)[3] = KeyShare("account", {p})
        /\ Program(op)[4] = Update("waveform", {SongOf[j]})
        /\ Program(op)[5] = Notices
    BY <2>1
  <2>3. SongLock(SongOf[j]) \in Program(op)[1]
    BY <1>1, <2>2, SongRow
  <2>4. ASSUME NEW n \in 1..5, NEW l \in Program(op)[n]
        PROVE  Placed(op, n, l)
    <3>1. CASE n = 1
      BY <2>1, <1>1, <2>2, <2>4, <3>1, SharesPlaced
    <3>2. CASE n = 2
      <4>1. /\ n \in Nat /\ n > 1 /\ op[1] \notin {"deleteGuide", "access", "register"}
            /\ l \in Update("job", {j})
        BY <2>1, <2>2, <2>4, <3>2
      <4> QED BY <1>1, <2>3, <4>1, RowsPlaced
    <3>3. CASE n = 3
      BY <2>1, <2>2, <2>4, <3>3, SharesPlaced
    <3>4. CASE n = 4
      <4>1. /\ n \in Nat /\ n > 1 /\ op[1] \notin {"deleteGuide", "access", "register"}
            /\ l \in Update("waveform", {SongOf[j]})
        BY <2>1, <2>2, <2>4, <3>4
      <4> QED BY <1>1, <2>3, <4>1, RowsPlaced
    <3>5. CASE n = 5
      BY <2>1, <2>2, <2>4, <3>5, SharesPlaced
    <3> QED BY <3>1, <3>2, <3>3, <3>4, <3>5
  <2> QED BY <2>2, <2>4 DEF WellPlaced, op
<1> QED BY <1>2, <1>3

LEMMA RunsPlaced ==
    ASSUME NEW j \in Jobs
    PROVE  /\ WellPlaced(<<"runner", j, NoId>>)
           /\ WellPlaced(<<"complete", j, NoId>>)
<1>1. SongOf[j] \in Songs
  BY LocksAssumption
<1>2. WellPlaced(<<"runner", j, NoId>>)
  <2> DEFINE op == <<"runner", j, NoId>>
  <2>1. /\ op[1] = "runner"
        /\ Program(op) = <<Update("song", {SongOf[j]}), Update("job", {j})>>
    BY DEF Program, RunnerSteps
  <2> HIDE DEF op
  <2>2. /\ Len(Program(op)) = 2
        /\ Program(op)[1] = Update("song", {SongOf[j]})
        /\ Program(op)[2] = Update("job", {j})
    BY <2>1
  <2>3. SongLock(SongOf[j]) \in Program(op)[1]
    BY <1>1, <2>2, SongRow
  <2>4. ASSUME NEW n \in 1..2, NEW l \in Program(op)[n]
        PROVE  Placed(op, n, l)
    <3>1. CASE n = 1
      BY <2>1, <1>1, <2>2, <2>4, <3>1, SharesPlaced
    <3>2. CASE n = 2
      <4>1. /\ n \in Nat /\ n > 1 /\ op[1] \notin {"deleteGuide", "access", "register"}
            /\ l \in Update("job", {j})
        BY <2>1, <2>2, <2>4, <3>2
      <4> QED BY <1>1, <2>3, <4>1, RowsPlaced
    <3> QED BY <3>1, <3>2
  <2> QED BY <2>2, <2>4 DEF WellPlaced, op
<1>3. WellPlaced(<<"complete", j, NoId>>)
  <2> DEFINE op == <<"complete", j, NoId>>
  <2>1. /\ op[1] = "complete"
        /\ Program(op) = <<Update("song", {SongOf[j]}), Update("job", {j}),
                         Update("waveform", {SongOf[j]}), Notices>>
    BY DEF Program, CompleteSteps
  <2> HIDE DEF op
  <2>2. /\ Len(Program(op)) = 4
        /\ Program(op)[1] = Update("song", {SongOf[j]})
        /\ Program(op)[2] = Update("job", {j})
        /\ Program(op)[3] = Update("waveform", {SongOf[j]})
        /\ Program(op)[4] = Notices
    BY <2>1
  <2>3. SongLock(SongOf[j]) \in Program(op)[1]
    BY <1>1, <2>2, SongRow
  <2>4. ASSUME NEW n \in 1..4, NEW l \in Program(op)[n]
        PROVE  Placed(op, n, l)
    <3>1. CASE n = 1
      BY <2>1, <1>1, <2>2, <2>4, <3>1, SharesPlaced
    <3>2. CASE n = 2
      <4>1. /\ n \in Nat /\ n > 1 /\ op[1] \notin {"deleteGuide", "access", "register"}
            /\ l \in Update("job", {j})
        BY <2>1, <2>2, <2>4, <3>2
      <4> QED BY <1>1, <2>3, <4>1, RowsPlaced
    <3>3. CASE n = 3
      <4>1. /\ n \in Nat /\ n > 1 /\ op[1] \notin {"deleteGuide", "access", "register"}
            /\ l \in Update("waveform", {SongOf[j]})
        BY <2>1, <2>2, <2>4, <3>3
      <4> QED BY <1>1, <2>3, <4>1, RowsPlaced
    <3>4. CASE n = 4
      BY <2>1, <2>2, <2>4, <3>4, SharesPlaced
    <3> QED BY <3>1, <3>2, <3>3, <3>4
  <2> QED BY <2>2, <2>4 DEF WellPlaced, op
<1> QED BY <1>2, <1>3

LEMMA DraftPlaced ==
    ASSUME NEW g \in Guides, NEW p \in Admins
    PROVE  /\ WellPlaced(<<"draft", g, p>>)
<1>1. SongOf[g] \in Songs
  BY LocksAssumption
<1>2. WellPlaced(<<"draft", g, p>>)
  <2> DEFINE op == <<"draft", g, p>>
  <2>1. /\ op[1] = "draft"
        /\ Program(op) = <<Update("song", {SongOf[g]}), NoKey("guide", {g}),
                         KeyShare("account", {p})>>
    BY DEF Program, DraftSteps
  <2> HIDE DEF op
  <2>2. /\ Len(Program(op)) = 3
        /\ Program(op)[1] = Update("song", {SongOf[g]})
        /\ Program(op)[2] = NoKey("guide", {g})
        /\ Program(op)[3] = KeyShare("account", {p})
    BY <2>1
  <2>3. SongLock(SongOf[g]) \in Program(op)[1]
    BY <1>1, <2>2, SongRow
  <2>4. ASSUME NEW n \in 1..3, NEW l \in Program(op)[n]
        PROVE  Placed(op, n, l)
    <3>1. CASE n = 1
      BY <2>1, <1>1, <2>2, <2>4, <3>1, SharesPlaced
    <3>2. CASE n = 2
      <4>1. /\ n \in Nat /\ n > 1 /\ op[1] \notin {"deleteGuide", "access", "register"}
            /\ l \in NoKey("guide", {g})
        BY <2>1, <2>2, <2>4, <3>2
      <4> QED BY <1>1, <2>3, <4>1, RowsPlaced
    <3>3. CASE n = 3
      BY <2>1, <2>2, <2>4, <3>3, SharesPlaced
    <3> QED BY <3>1, <3>2, <3>3
  <2> QED BY <2>2, <2>4 DEF WellPlaced, op
<1> QED BY <1>2

LEMMA ImportGuidePlaced ==
    ASSUME NEW s \in Songs, NEW p \in Admins
    PROVE  /\ WellPlaced(<<"importGuide", s, p>>)
<1>1. WellPlaced(<<"importGuide", s, p>>)
  <2> DEFINE op == <<"importGuide", s, p>>
  <2>1. /\ op[1] = "importGuide"
        /\ Program(op) = <<Update("song", {s}), Update("guide", GuidesOf({s})),
                         KeyShare("account", {p})>>
    BY DEF Program, ImportGuideSteps
  <2> HIDE DEF op
  <2>2. /\ Len(Program(op)) = 3
        /\ Program(op)[1] = Update("song", {s})
        /\ Program(op)[2] = Update("guide", GuidesOf({s}))
        /\ Program(op)[3] = KeyShare("account", {p})
    BY <2>1
  <2>3. SongLock(s) \in Program(op)[1]
    BY <2>2, SongRow
  <2>4. ASSUME NEW n \in 1..3, NEW l \in Program(op)[n]
        PROVE  Placed(op, n, l)
    <3>1. CASE n = 1
      BY <2>1, <2>2, <2>4, <3>1, SharesPlaced
    <3>2. CASE n = 2
      <4>1. /\ n \in Nat /\ n > 1 /\ op[1] \notin {"deleteGuide", "access", "register"}
            /\ l \in Update("guide", GuidesOf({s}))
        BY <2>1, <2>2, <2>4, <3>2
      <4> QED BY <2>3, <4>1, RowsPlaced
    <3>3. CASE n = 3
      BY <2>1, <2>2, <2>4, <3>3, SharesPlaced
    <3> QED BY <3>1, <3>2, <3>3
  <2> QED BY <2>2, <2>4 DEF WellPlaced, op
<1> QED BY <1>1

LEMMA DeleteSongPlaced ==
    ASSUME NEW s \in Songs
    PROVE  /\ WellPlaced(<<"deleteSong", s, NoId>>)
<1>1. WellPlaced(<<"deleteSong", s, NoId>>)
  <2> DEFINE op == <<"deleteSong", s, NoId>>
  <2>1. /\ op[1] = "deleteSong"
        /\ Program(op) = <<Update("song", {s}), Cascade({s})>>
    BY DEF Program, DeleteSongSteps
  <2> HIDE DEF op
  <2>2. /\ Len(Program(op)) = 2
        /\ Program(op)[1] = Update("song", {s})
        /\ Program(op)[2] = Cascade({s})
    BY <2>1
  <2>3. SongLock(s) \in Program(op)[1]
    BY <2>2, SongRow
  <2>4. ASSUME NEW n \in 1..2, NEW l \in Program(op)[n]
        PROVE  Placed(op, n, l)
    <3>1. CASE n = 1
      BY <2>1, <2>2, <2>4, <3>1, SharesPlaced
    <3>2. CASE n = 2
      <4>1. /\ n \in Nat /\ n > 1 /\ op[1] \notin {"deleteGuide", "access", "register"}
            /\ l \in Cascade({s})
        BY <2>1, <2>2, <2>4, <3>2
      <4> QED BY <2>3, <4>1, RowsPlaced
    <3> QED BY <3>1, <3>2
  <2> QED BY <2>2, <2>4 DEF WellPlaced, op
<1> QED BY <1>1

LEMMA EditPlaced ==
    ASSUME NEW s \in Songs, NEW b \in Albums
    PROVE  WellPlaced(<<"edit", s, b>>)
<1> DEFINE op == <<"edit", s, b>>
<1>1. /\ op[1] = "edit"
      /\ Program(op) = <<Update("song", {s}), Update("guide", GuidesOf({s})),
                       KeyShare("account", Admins), KeyShare("album", {b})>>
  BY DEF Program, EditSteps
<1> HIDE DEF op
<1>2. /\ Len(Program(op)) = 4
      /\ Program(op)[1] = Update("song", {s})
      /\ Program(op)[2] = Update("guide", GuidesOf({s}))
      /\ Program(op)[3] = KeyShare("account", Admins)
      /\ Program(op)[4] = KeyShare("album", {b})
  BY <1>1
<1>3. SongLock(s) \in Program(op)[1]
  BY <1>2, SongRow
<1>4. ASSUME NEW n \in 1..4, NEW l \in Program(op)[n]
      PROVE  Placed(op, n, l)
  <2>1. CASE n = 1
    BY <1>1, <1>2, <1>4, <2>1, SharesPlaced
  <2>2. CASE n = 2
    <3>1. n \in Nat /\ n > 1 /\ op[1] \notin {"deleteGuide", "access", "register"} /\ l \in Update("guide", GuidesOf({s}))
      BY <1>1, <1>2, <1>4, <2>2
    <3> QED BY <1>3, <3>1, RowsPlaced
  <2>3. CASE n = 3
    BY <1>1, <1>2, <1>4, <2>3, SharesPlaced
  <2>4. CASE n = 4
    <3>1. l \in KeyShare("album", {b}) /\ Last(op) = KeyShare("album", {b})
      BY <1>2, <1>4, <2>4 DEF Last
    <3>2. l \in Lock /\ l.table = "album" /\ l.mode = "keyshare"
      BY <3>1, LockSets DEF Tables, Ids
    <3>3. Last(op) = {l}
      BY <3>1 DEF KeyShare
    <3> QED BY <1>1, <1>2, <2>4, <3>2, <3>3 DEF Placed, Closes
  <2> QED BY <2>1, <2>2, <2>3, <2>4
<1> QED BY <1>2, <1>4 DEF WellPlaced, op

LEMMA OneStepPlaced ==
    /\ \A g \in Guides : WellPlaced(<<"deleteGuide", g, NoId>>)
    /\ \A b \in Albums : WellPlaced(<<"createSong", b, NoId>>)
    /\ \A d \in Devices : WellPlaced(<<"release", d, NoId>>)
<1>1. ASSUME NEW g \in Guides PROVE WellPlaced(<<"deleteGuide", g, NoId>>)
  <2> DEFINE op == <<"deleteGuide", g, NoId>>
  <2>1. op[1] = "deleteGuide" /\ Program(op) = <<Update("guide", {g})>>
    BY DEF Program, DeleteGuideSteps
  <2> HIDE DEF op
  <2>2. Len(Program(op)) = 1 /\ Program(op)[1] = Update("guide", {g}) /\ Last(op) = Update("guide", {g})
    BY <2>1 DEF Last
  <2>3. ASSUME NEW l \in Program(op)[1] PROVE Placed(op, 1, l)
    <3>1. l \in Lock /\ l.table = "guide" /\ l.id = g
      BY <2>2, <2>3, LockSets DEF Tables, Ids
    <3>2. Last(op) = {l}
      BY <2>2, <2>3 DEF Update
    <3>3. OwnerOf(l) \in Songs
      BY <3>1, LocksAssumption DEF OwnerOf
    <3> QED BY <2>1, <2>2, <3>1, <3>2, <3>3 DEF Placed, Opens, Closes
  <2> QED BY <2>2, <2>3 DEF WellPlaced, op
<1>2. ASSUME NEW b \in Albums PROVE WellPlaced(<<"createSong", b, NoId>>)
  <2> DEFINE op == <<"createSong", b, NoId>>
  <2>1. op[1] = "createSong" /\ Program(op) = <<KeyShare("album", {b})>>
    BY DEF Program, CreateSongSteps
  <2> HIDE DEF op
  <2>2. Len(Program(op)) = 1 /\ Program(op)[1] = KeyShare("album", {b}) /\ Last(op) = KeyShare("album", {b})
    BY <2>1 DEF Last
  <2>3. ASSUME NEW l \in Program(op)[1] PROVE Placed(op, 1, l)
    <3>1. l \in Lock /\ l.table = "album" /\ l.mode = "keyshare"
      BY <2>2, <2>3, LockSets DEF Tables, Ids
    <3>2. Last(op) = {l}
      BY <2>2, <2>3 DEF KeyShare
    <3> QED BY <2>1, <2>2, <3>1, <3>2 DEF Placed, Opens, Closes
  <2> QED BY <2>2, <2>3 DEF WellPlaced, op
<1>3. ASSUME NEW d \in Devices PROVE WellPlaced(<<"release", d, NoId>>)
  <2> DEFINE op == <<"release", d, NoId>>
  <2>1. op[1] = "release" /\ Program(op) = <<NoKey("device", {d})>>
    BY DEF Program, ReleaseSteps
  <2> HIDE DEF op
  <2>2. Len(Program(op)) = 1 /\ Program(op)[1] = NoKey("device", {d}) /\ Last(op) = NoKey("device", {d})
    BY <2>1 DEF Last
  <2>3. ASSUME NEW l \in Program(op)[1] PROVE Placed(op, 1, l)
    <3>1. l \in Lock /\ l.table = "device" /\ l.mode = "nokey"
      BY <2>2, <2>3, LockSets DEF Tables, Ids
    <3>2. Last(op) = {l}
      BY <2>2, <2>3 DEF NoKey
    <3> QED BY <2>1, <2>2, <3>1, <3>2 DEF Placed, Opens, Closes
  <2> QED BY <2>2, <2>3 DEF WellPlaced, op
<1> QED BY <1>1, <1>2, <1>3

LEMMA DeleteAlbumPlaced ==
    ASSUME NEW b \in Albums
    PROVE  WellPlaced(<<"deleteAlbum", b, NoId>>)
<1> DEFINE op == <<"deleteAlbum", b, NoId>>
<1>1. /\ op[1] = "deleteAlbum"
      /\ Program(op) = <<Update("album", {b}), Update("song", Songs), Cascade(Songs)>>
  BY DEF Program, DeleteAlbumSteps
<1> HIDE DEF op
<1>2. /\ Len(Program(op)) = 3
      /\ Program(op)[1] = Update("album", {b})
      /\ Program(op)[2] = Update("song", Songs)
      /\ Program(op)[3] = Cascade(Songs)
  BY <1>1
<1>3. ASSUME NEW n \in 1..3, NEW l \in Program(op)[n]
      PROVE  Placed(op, n, l)
  <2>1. CASE n = 1
    <3>1. l \in Lock /\ l.table = "album" /\ l.mode = "update"
      BY <1>2, <1>3, <2>1, LockSets DEF Tables, Ids
    <3> QED BY <1>1, <2>1, <3>1 DEF Placed
  <2>2. CASE n = 2
    <3>1. l \in Lock /\ l.table = "song" /\ l.mode = "update"
      BY <1>2, <1>3, <2>2, LockSets DEF Tables, Ids
    <3> QED BY <1>1, <3>1 DEF Placed
  <2>3. CASE n = 3
    <3>1. /\ l \in Lock /\ l.table \in {"job", "waveform", "guide"} /\ OwnerOf(l) \in Songs
          /\ l.table \in {"job", "waveform"} => l.mode = "update"
      BY <1>2, <1>3, <2>3, CascadeLocks
    <3> QED BY <1>1, <2>3, <3>1 DEF Placed
  <2> QED BY <2>1, <2>2, <2>3
<1>4. WellPlaced(op)
  BY <1>2, <1>3 DEF WellPlaced
<1> QED BY <1>4 DEF op

\* The rows of an account, its own first.
LEMMA AccountPlaced ==
    ASSUME NEW op, op[1] \in {"access", "register"}, NEW a \in Admins,
           Program(op)[1] = Update("account", {a})
    PROVE  /\ \A l \in Update("account", {a}) : Placed(op, 1, l)
           /\ \A n \in {2, 3} : \A l \in Update("credential", {a}) \cup Update("mfa", {a}) :
                 Placed(op, n, l)
<1>1. Update("account", {a}) = {AccountLock(a)}
  BY DEF Update, AccountLock
<1>2. ASSUME NEW l \in Update("account", {a}) PROVE Placed(op, 1, l)
  <2>1. l \in Lock /\ l.table = "account" /\ l.mode = "update"
    BY <1>2, LockSets DEF Tables, Ids
  <2> QED BY <1>1, <1>2, <2>1 DEF Placed, Opens
<1>3. ASSUME NEW n \in {2, 3}, NEW l \in Update("credential", {a}) \cup Update("mfa", {a})
      PROVE  Placed(op, n, l)
  <2>1. l \in Lock /\ l.table \in {"credential", "mfa"} /\ l.mode = "update" /\ l.id = a
    BY <1>3, LockSets DEF Tables, Ids
  <2> QED BY <1>1, <1>3, <2>1 DEF Placed
<1> QED BY <1>2, <1>3

LEMMA AccountsPlaced ==
    ASSUME NEW a \in Admins
    PROVE  /\ WellPlaced(<<"access", a, NoId>>)
           /\ \A d \in Devices : WellPlaced(<<"register", a, d>>)
<1>1. AccessSteps(a) = <<Update("account", {a}), Update("credential", {a}), Update("mfa", {a})>>
  BY DEF AccessSteps
<1>2. WellPlaced(<<"access", a, NoId>>)
  <2> DEFINE op == <<"access", a, NoId>>
  <2>1. op[1] = "access" /\ Program(op) = AccessSteps(a)
    BY DEF Program
  <2> HIDE DEF op
  <2>2. /\ Len(Program(op)) = 3 /\ Program(op)[1] = Update("account", {a})
        /\ Program(op)[2] = Update("credential", {a}) /\ Program(op)[3] = Update("mfa", {a})
    BY <1>1, <2>1
  <2>3. ASSUME NEW n \in 1..3, NEW l \in Program(op)[n]
        PROVE  Placed(op, n, l)
    BY <2>1, <2>2, <2>3, AccountPlaced
  <2> QED BY <2>2, <2>3 DEF WellPlaced, op
<1>3. ASSUME NEW d \in Devices PROVE WellPlaced(<<"register", a, d>>)
  <2> DEFINE op == <<"register", a, d>>
  <2>1. op[1] = "register" /\ Program(op) = Append(AccessSteps(a), NoKey("device", {d}))
    BY DEF Program, RegisterSteps
  <2> HIDE DEF op
  <2> DEFINE steps == AccessSteps(a)
             new   == NoKey("device", {d})
             All   == {Update("account", {a}), Update("credential", {a}), Update("mfa", {a}), new}
  <2>2. /\ steps \in Seq(All) /\ new \in All /\ Len(steps) = 3 /\ steps[1] = Update("account", {a})
        /\ steps[2] = Update("credential", {a}) /\ steps[3] = Update("mfa", {a})
    BY <1>1
  <2> HIDE DEF steps, new, All
  <2>3. /\ Len(Program(op)) = 4 /\ Program(op)[1] = Update("account", {a})
        /\ Program(op)[2] = Update("credential", {a}) /\ Program(op)[3] = Update("mfa", {a})
        /\ Program(op)[4] = NoKey("device", {d}) /\ Last(op) = NoKey("device", {d})
    <3>1. Program(op) = Append(steps, new)
      BY <2>1 DEF steps, new
    <3>2. Len(Append(steps, new)) = Len(steps) + 1 /\ Append(steps, new)[Len(steps) + 1] = new
      BY <2>2, AppendProperties
    <3>3. \A i \in 1..Len(steps) : Append(steps, new)[i] = steps[i]
      BY <2>2, AppendProperties
    <3> QED BY <2>2, <3>1, <3>2, <3>3 DEF Last, new
  <2>4. ASSUME NEW n \in 1..4, NEW l \in Program(op)[n]
        PROVE  Placed(op, n, l)
    <3>1. CASE n = 4
      <4>1. l \in Lock /\ l.table = "device" /\ l.mode = "nokey"
        BY <2>3, <2>4, <3>1, LockSets DEF Tables, Ids
      <4>2. Last(op) = {l}
        BY <2>3, <2>4, <3>1 DEF NoKey
      <4> QED BY <2>1, <2>3, <3>1, <4>1, <4>2 DEF Placed, Closes
    <3>2. CASE n \in 1..3
      BY <2>1, <2>3, <2>4, <3>2, AccountPlaced
    <3> QED BY <3>1, <3>2
  <2> QED BY <2>3, <2>4 DEF WellPlaced, op
<1> QED BY <1>2, <1>3

LEMMA AllPlaced == \A op \in Ops : WellPlaced(op)
<1> SUFFICES ASSUME NEW op \in Ops PROVE WellPlaced(op)
  OBVIOUS
<1>1. CASE op \in {"request", "import"} \X Jobs \X Admins
  <2>1. PICK j \in Jobs, p \in Admins : op = <<"request", j, p>> \/ op = <<"import", j, p>>
    BY <1>1
  <2> QED BY <2>1, RequestsPlaced
<1>2. CASE op \in {"runner", "complete"} \X Jobs \X {NoId}
  <2>1. PICK j \in Jobs : op = <<"runner", j, NoId>> \/ op = <<"complete", j, NoId>>
    BY <1>2
  <2> QED BY <2>1, RunsPlaced
<1>3. CASE op \in {"edit"} \X Songs \X Albums
  BY <1>3, EditPlaced
<1>4. CASE op \in {"draft"} \X Guides \X Admins
  BY <1>4, DraftPlaced
<1>5. CASE op \in {"importGuide"} \X Songs \X Admins
  BY <1>5, ImportGuidePlaced
<1>6. CASE op \in {"deleteGuide"} \X Guides \X {NoId}
  BY <1>6, OneStepPlaced
<1>7. CASE op \in {"deleteSong"} \X Songs \X {NoId}
  BY <1>7, DeleteSongPlaced
<1>8. CASE op \in {"deleteAlbum", "createSong"} \X Albums \X {NoId}
  BY <1>8, OneStepPlaced, DeleteAlbumPlaced
<1>9. CASE op \in {"access"} \X Admins \X {NoId}
  BY <1>9, AccountsPlaced
<1>10. CASE op \in {"register"} \X Admins \X Devices
  <2>1. PICK a \in Admins, d \in Devices : op = <<"register", a, d>>
    BY <1>10
  <2> QED BY <2>1, AccountsPlaced
<1>11. CASE op \in {"release"} \X Devices \X {NoId}
  BY <1>11, OneStepPlaced
<1> QED BY <1>1, <1>2, <1>3, <1>4, <1>5, <1>6, <1>7, <1>8, <1>9, <1>10, <1>11 DEF Ops

-----------------------------------------------------------------------------
(* A transaction's locks.                                                  *)

LocksOf(x) == x.held \cup x.todo \cup ({x.want} \ {NoLock})

LEMMA NoLockTable == NoLock.table = "none" /\ NoLock \notin Lock
<1>1. NoLock.table = "none"
  BY DEF NoLock
<1>2. \A l \in Lock : l.table # "none"
  BY DEF Lock, Tables
<1> QED BY <1>1, <1>2

\* Each lock of a transaction is one of a step that it has come to.
LEMMA LockStep ==
    ASSUME NEW x \in Transaction, Good(x), NEW l \in LocksOf(x)
    PROVE  /\ x.op \in Ops /\ x.op # NoOp /\ WellPlaced(x.op)
           /\ \E n \in 1..x.step : n \in Nat /\ l \in Program(x.op)[n] /\ Placed(x.op, n, l)
<1>1. x.op # NoOp
  BY DEF Good, Shape, NoTransaction, LocksOf
<1>2. x.op \in Ops /\ WellPlaced(x.op)
  BY <1>1, AllPlaced DEF Transaction
<1>3. \E n \in 1..x.step : l \in Program(x.op)[n]
  <2>1. CASE l \in x.held
    BY <1>1, <2>1 DEF Good, Shape
  <2>2. CASE l \in x.todo \cup ({x.want} \ {NoLock})
    BY <1>1, <2>2 DEF Good, Shape, Transaction
  <2> QED BY <2>1, <2>2 DEF LocksOf
<1> QED BY <1>1, <1>2, <1>3 DEF WellPlaced, Good, Shape, Transaction

\* The lock asked for is one of the step it is at.
LEMMA WantStep ==
    ASSUME NEW x \in Transaction, Good(x), x.want # NoLock
    PROVE  /\ x.op \in Ops /\ x.op # NoOp /\ x.want \in Lock
           /\ x.want \in Program(x.op)[x.step] /\ Placed(x.op, x.step, x.want)
           /\ Opens(x.op, x.step, x.want) => x.held = {}
<1>1. x.op # NoOp
  BY DEF Good, Shape, NoTransaction
<1>2. x.op \in Ops /\ WellPlaced(x.op)
  BY <1>1, AllPlaced DEF Transaction
<1>3. x.want \in Program(x.op)[x.step] /\ x.step \in 1..Len(Program(x.op))
  BY <1>1 DEF Good, Shape
<1>4. ASSUME Opens(x.op, x.step, x.want) PROVE x.held = {}
  <2>1. x.step = 1 /\ Program(x.op)[1] = {x.want} /\ x.want \notin x.held
    BY <1>4 DEF Opens, Good, Shape
  <2> QED BY <1>1, <2>1 DEF Good, Shape
<1> QED BY <1>1, <1>2, <1>3, <1>4 DEF WellPlaced, Transaction

\* What belongs to a song is touched under the song's lock, what belongs to an
\* account under the account's.
LEMMA UnderItsOwner ==
    ASSUME NEW x \in Transaction, Good(x), NEW l \in LocksOf(x)
    PROVE  /\ (l.table \in {"job", "waveform", "guide"} /\ x.op[1] # "deleteGuide") =>
                 SongLock(OwnerOf(l)) \in x.held
           /\ l.table \in {"credential", "mfa"} => AccountLock(l.id) \in x.held
<1>1. PICK n \in 1..x.step : n \in Nat /\ l \in Program(x.op)[n] /\ Placed(x.op, n, l)
  BY LockStep
<1>2. x.op # NoOp
  BY LockStep
<1>3. n > 1 => Program(x.op)[1] \subseteq x.held
  <2>1. x.step \in Nat
    BY DEF Transaction
  <2> QED BY <1>1, <1>2, <2>1 DEF Good, Shape
<1>4. ASSUME l.table \in {"job", "waveform", "guide"}, x.op[1] # "deleteGuide"
      PROVE  SongLock(OwnerOf(l)) \in x.held
  <2>1. CASE x.op[1] = "deleteAlbum"
    BY <1>4, <2>1 DEF Good, Cascaded, LocksOf
  <2>2. CASE x.op[1] # "deleteAlbum"
    BY <1>1, <1>3, <1>4, <2>2 DEF Placed
  <2> QED BY <2>1, <2>2
<1>5. ASSUME l.table \in {"credential", "mfa"} PROVE AccountLock(l.id) \in x.held
  BY <1>1, <1>3, <1>5 DEF Placed
<1> QED BY <1>4, <1>5

\* Who holds a closing lock wants nothing.
LEMMA ClosedWants ==
    ASSUME NEW x \in Transaction, Good(x), NEW h \in x.held, Closing(x.op, h)
    PROVE  x.want = NoLock
BY DEF Good, Closed

LEMMA ConflictTable ==
    /\ Conflicts("update", "update")
    /\ \A m : Conflicts(m, "keyshare") => m = "update"
    /\ \A m : Conflicts(m, "nokey") => m \in {"update", "nokey"}
    /\ \A m, n : Conflicts(m, n) => Conflicts(n, m)
<1>1. Conflicts("update", "update")
  BY DEF Conflicts
<1>2. ASSUME NEW m, Conflicts(m, "keyshare") PROVE m = "update"
  BY <1>2 DEF Conflicts
<1>3. ASSUME NEW m, Conflicts(m, "nokey") PROVE m \in {"update", "nokey"}
  BY <1>3 DEF Conflicts
<1>4. ASSUME NEW m, NEW n, Conflicts(m, n) PROVE Conflicts(n, m)
  <2>1. {m, n} = {n, m}
    OBVIOUS
  <2> QED BY <1>4, <2>1 DEF Conflicts
<1> QED BY <1>1, <1>2, <1>3, <1>4

-----------------------------------------------------------------------------
(* The invariant.                                                          *)

LEMMA InitInv == LocksInit => LocksInv
<1> SUFFICES ASSUME LocksInit PROVE LocksInv
  OBVIOUS
<1>1. \A t \in Transactions : tx[t] = NoTransaction
  BY DEF LocksInit
<1>2. NoTransaction \in Transaction /\ Good(NoTransaction) /\ NoTransaction.held = {}
  BY DEF NoTransaction, Transaction, Good, Shape, Closed, Cascaded, NoLock, NoOp
<1>3. tx \in [Transactions -> Transaction]
  BY <1>2 DEF LocksInit
<1> QED BY <1>1, <1>2, <1>3 DEF LocksInv, Exclusive

\* What a step of one transaction has to keep.
LEMMA OneChanges ==
    ASSUME LocksInv, NEW t \in Transactions, NEW y \in Transaction, Good(y),
           tx' = [tx EXCEPT ![t] = y],
           \A u \in Transactions \ {t} : \A h \in y.held, k \in tx[u].held :
               (h.table = k.table /\ h.id = k.id) => ~Conflicts(h.mode, k.mode)
    PROVE  LocksInv'
<1>1. tx' \in [Transactions -> Transaction] /\ tx'[t] = y
      /\ \A u \in Transactions \ {t} : tx'[u] = tx[u]
  BY DEF LocksInv
<1>2. \A u \in Transactions : Good(tx'[u])
  BY <1>1 DEF LocksInv
<1>3. ASSUME NEW u \in Transactions, NEW v \in Transactions, u # v,
             NEW h \in tx'[u].held, NEW k \in tx'[v].held, h.table = k.table, h.id = k.id
      PROVE  ~Conflicts(h.mode, k.mode)
  <2>1. CASE u = t
    BY <1>1, <1>3, <2>1
  <2>2. CASE v = t
    <3>1. ~Conflicts(k.mode, h.mode)
      BY <1>1, <1>3, <2>2
    <3> QED BY <3>1, ConflictTable
  <2>3. CASE u # t /\ v # t
    BY <1>1, <1>3, <2>3 DEF LocksInv, Exclusive
  <2> QED BY <2>1, <2>2, <2>3
<1>4. Exclusive'
  BY <1>3 DEF Exclusive
<1>5. \A u \in Transactions : Good(tx[u])'
  BY <1>2 DEF Good, Shape, Closed, Cascaded
<1> QED BY <1>1, <1>4, <1>5 DEF LocksInv

LEMMA IdleOp == \A op \in Ops : op # NoOp /\ Program(op)[1] \subseteq Lock
<1> SUFFICES ASSUME NEW op \in Ops PROVE op # NoOp /\ Program(op)[1] \subseteq Lock
  OBVIOUS
<1>1. WellPlaced(op)
  BY AllPlaced
<1>2. Program(NoOp) = <<>>
  BY DEF Program, NoOp
<1>3. op # NoOp
  BY <1>1, <1>2 DEF WellPlaced
<1> QED BY <1>1, <1>3 DEF WellPlaced, Placed

LEMMA BeginInv ==
    ASSUME LocksInv, NEW t \in Transactions, NEW op \in Ops, BeginTx(t, op)
    PROVE  LocksInv'
<1> DEFINE y == [NoTransaction EXCEPT !.op = op, !.step = 1, !.todo = Program(op)[1]]
<1>1. tx' = [tx EXCEPT ![t] = y]
  BY DEF BeginTx
<1>2. /\ y \in Transaction /\ y.op = op /\ y.step = 1 /\ y.todo = Program(op)[1] /\ y.want = NoLock
      /\ y.held = {}
  BY IdleOp DEF NoTransaction, Transaction, NoLock
<1> HIDE DEF y
<1>3. WellPlaced(op) /\ op # NoOp
  BY AllPlaced, IdleOp
<1>4. Shape(y)
  <2>1. NoLock \notin y.todo
    BY <1>2, IdleOp, NoLockTable
  <2>2. y.step \in 1..Len(Program(y.op))
    BY <1>2, <1>3 DEF WellPlaced
  <2> QED BY <1>2, <1>3, <2>1, <2>2 DEF Shape
<1>5. Closed(y)
  BY <1>2 DEF Closed
<1>6. Cascaded(y)
  <2> SUFFICES ASSUME op[1] = "deleteAlbum", NEW l \in y.todo
               PROVE  l.table \notin {"job", "waveform", "guide"}
    BY <1>2, NoLockTable DEF Cascaded
  <2>1. Placed(op, 1, l)
    BY <1>2, <1>3 DEF WellPlaced
  <2> QED BY <2>1 DEF Placed
<1> QED BY <1>1, <1>2, <1>4, <1>5, <1>6, OneChanges DEF Good

LEMMA AskInv ==
    ASSUME LocksInv, NEW t \in Transactions, NEW lock \in tx[t].todo, Ask(t, lock)
    PROVE  LocksInv'
<1> DEFINE x == tx[t]
           y == [x EXCEPT !.want = lock, !.todo = @ \ {lock}]
<1>1. x \in Transaction /\ Good(x) /\ x.want = NoLock /\ lock \in x.todo
  BY DEF LocksInv, Ask
<1>2. tx' = [tx EXCEPT ![t] = y]
  BY DEF Ask, LocksInv
<1>3. /\ y \in Transaction /\ y.op = x.op /\ y.step = x.step /\ y.todo = x.todo \ {lock}
      /\ y.want = lock /\ y.held = x.held
  BY <1>1 DEF Transaction
<1> HIDE DEF y
<1>4. x.op # NoOp
  BY <1>1 DEF Good, Shape, NoTransaction
<1>5. Shape(y)
  <2>1. x.op \in Ops /\ NoLock \notin Program(x.op)[1]
    BY <1>1, <1>4, IdleOp, NoLockTable DEF Transaction
  <2> QED BY <1>1, <1>3, <1>4, <2>1 DEF Good, Shape
<1>6. Closed(y) /\ Cascaded(y)
  BY <1>1, <1>3 DEF Good, Closed, Cascaded
<1>7. \A u \in Transactions \ {t} : \A h \in y.held, k \in tx[u].held :
          (h.table = k.table /\ h.id = k.id) => ~Conflicts(h.mode, k.mode)
  BY <1>3 DEF LocksInv, Exclusive
<1> QED BY <1>2, <1>3, <1>5, <1>6, <1>7, OneChanges DEF Good

LEMMA GrantInv ==
    ASSUME LocksInv, NEW t \in Transactions, Grant(t)
    PROVE  LocksInv'
<1> DEFINE x == tx[t]
           y == [x EXCEPT !.held = @ \cup {x.want}, !.want = NoLock]
<1>1. x \in Transaction /\ Good(x) /\ x.want # NoLock
  BY DEF LocksInv, Grant
<1>2. tx' = [tx EXCEPT ![t] = y]
  BY DEF Grant, LocksInv
<1>3. /\ y \in Transaction /\ y.op = x.op /\ y.step = x.step /\ y.todo = x.todo
      /\ y.want = NoLock /\ y.held = x.held \cup {x.want}
  BY <1>1 DEF Transaction
<1> HIDE DEF y
<1>4. /\ x.op \in Ops /\ x.op # NoOp /\ x.want \in Lock /\ x.want \in Program(x.op)[x.step]
      /\ Placed(x.op, x.step, x.want)
  BY <1>1, WantStep
<1>5. x.step \in Nat /\ x.todo \subseteq Lock /\ x.held \subseteq Lock
  BY <1>1 DEF Transaction
<1>6. Shape(y)
  BY <1>1, <1>3, <1>4, <1>5, NoLockTable DEF Good, Shape
<1>7. Closed(y)
  <2>1. CASE Closing(x.op, x.want)
    <3>1. x.step = Len(Program(x.op)) /\ Program(x.op)[x.step] = {x.want}
      BY <1>4, <2>1 DEF Closing, Placed, Closes, Last
    <3>2. x.todo = {}
      BY <1>1, <1>4, <3>1 DEF Good, Shape
    <3> QED BY <1>3, <3>2 DEF Closed
  <2>2. CASE ~Closing(x.op, x.want)
    BY <1>1, <1>3, <2>2 DEF Good, Closed
  <2> QED BY <2>1, <2>2
<1>8. Cascaded(y)
  BY <1>1, <1>3, NoLockTable DEF Good, Cascaded
<1>9. \A u \in Transactions \ {t} : \A h \in y.held, k \in tx[u].held :
          (h.table = k.table /\ h.id = k.id) => ~Conflicts(h.mode, k.mode)
  <2> SUFFICES ASSUME NEW u \in Transactions \ {t}, NEW h \in y.held, NEW k \in tx[u].held,
                      h.table = k.table, h.id = k.id
               PROVE  ~Conflicts(h.mode, k.mode)
    OBVIOUS
  <2>1. CASE h \in x.held
    BY <2>1 DEF LocksInv, Exclusive
  <2>2. CASE h = x.want
    <3>1. ~Conflicts(k.mode, h.mode)
      BY <2>2 DEF Grant, Blocks
    <3> QED BY <3>1, ConflictTable
  <2> QED BY <1>3, <2>1, <2>2
<1> QED BY <1>2, <1>3, <1>6, <1>7, <1>8, <1>9, OneChanges DEF Good

LEMMA SkipInv ==
    ASSUME LocksInv, NEW t \in Transactions, Skip(t)
    PROVE  LocksInv'
<1> DEFINE x == tx[t]
           y == [x EXCEPT !.want = NoLock]
<1>1. x \in Transaction /\ Good(x) /\ x.want # NoLock /\ x.step > 1
  BY DEF LocksInv, Skip
<1>2. tx' = [tx EXCEPT ![t] = y]
  BY DEF Skip, LocksInv
<1>3. /\ y \in Transaction /\ y.op = x.op /\ y.step = x.step /\ y.todo = x.todo
      /\ y.want = NoLock /\ y.held = x.held
  BY <1>1 DEF Transaction
<1> HIDE DEF y
<1>4. x.op # NoOp
  BY <1>1, WantStep
<1>5. x.step \in Nat /\ x.todo \subseteq Lock /\ x.held \subseteq Lock
  BY <1>1 DEF Transaction
<1>6. Shape(y)
  BY <1>1, <1>3, <1>4, <1>5, NoLockTable DEF Good, Shape
<1>7. Closed(y) /\ Cascaded(y)
  BY <1>1, <1>3, NoLockTable DEF Good, Closed, Cascaded
<1>8. \A u \in Transactions \ {t} : \A h \in y.held, k \in tx[u].held :
          (h.table = k.table /\ h.id = k.id) => ~Conflicts(h.mode, k.mode)
  BY <1>3 DEF LocksInv, Exclusive
<1> QED BY <1>2, <1>3, <1>6, <1>7, <1>8, OneChanges DEF Good

\* An album's deletion: the album, the songs, what belongs to them.
LEMMA AlbumSteps ==
    ASSUME NEW op \in Ops, op[1] = "deleteAlbum", NEW n \in 1..Len(Program(op)), NEW l \in Program(op)[n],
           l.table \in {"job", "waveform", "guide"}
    PROVE  n = 3
<1>1. PICK b \in Albums : op = <<"deleteAlbum", b, NoId>>
  BY DEF Ops
<1>2. Program(op) = <<Update("album", {b}), Update("song", Songs), Cascade(Songs)>>
  BY <1>1 DEF Program, DeleteAlbumSteps
<1>3. CASE n = 1
  BY <1>2, <1>3 DEF Update
<1>4. CASE n = 2
  BY <1>2, <1>4 DEF Update
<1> QED BY <1>2, <1>3, <1>4

LEMMA AdvanceInv ==
    ASSUME LocksInv, NEW t \in Transactions, Advance(t)
    PROVE  LocksInv'
<1> DEFINE x == tx[t]
<1>1. PICK todo \in SUBSET Program(x.op)[x.step + 1] :
          /\ \A lock \in todo : Within(t, lock)
          /\ tx' = [tx EXCEPT ![t].step = @ + 1, ![t].todo = todo]
  BY DEF Advance
<1> DEFINE y == [x EXCEPT !.step = @ + 1, !.todo = todo]
<1>2. /\ x \in Transaction /\ Good(x) /\ x.want = NoLock /\ x.todo = {}
      /\ x.step \in Nat /\ x.step < Len(Program(x.op))
  BY DEF LocksInv, Advance, Transaction
<1>3. tx' = [tx EXCEPT ![t] = y]
  BY <1>1 DEF LocksInv
<1>4. x.op # NoOp
  <2>1. Len(Program(NoOp)) = 0
    BY DEF Program, NoOp
  <2> QED BY <1>2, <2>1
<1>5. x.op \in Ops /\ WellPlaced(x.op)
  BY <1>2, <1>4, AllPlaced DEF Transaction
<1>6. \A l \in todo : l \in Lock /\ Placed(x.op, x.step + 1, l)
  BY <1>1, <1>2, <1>5 DEF WellPlaced, Placed
<1>7. /\ y \in Transaction /\ y.op = x.op /\ y.step = x.step + 1 /\ y.todo = todo
      /\ y.want = NoLock /\ y.held = x.held
  <2>1. todo \in SUBSET Lock /\ x.step + 1 \in Nat
    BY <1>2, <1>6
  <2> QED BY <1>2, <2>1 DEF Transaction
<1> HIDE DEF y
<1>8. x.step >= 1 /\ x.held \subseteq Lock
  BY <1>2, <1>4 DEF Good, Shape, Transaction
<1>9. Shape(y)
  <2>1. NoLock \notin todo
    BY <1>6, NoLockTable
  <2>2. Program(x.op)[1] \subseteq x.held
    <3>1. NoLock \notin Program(x.op)[1]
      BY <1>5, IdleOp, NoLockTable
    <3> QED BY <1>2, <1>4, <3>1 DEF Good, Shape
  <2>3. \A h \in x.held : \E n \in 1..y.step : h \in Program(x.op)[n]
    BY <1>2, <1>4, <1>7 DEF Good, Shape
  <2>4. y.step \in 1..Len(Program(x.op)) /\ y.step # 1
    BY <1>2, <1>5, <1>7, <1>8 DEF WellPlaced
  <2> QED BY <1>1, <1>4, <1>7, <2>1, <2>2, <2>3, <2>4 DEF Shape
<1>10. Closed(y)
  <2> SUFFICES ASSUME NEW h \in x.held, Closing(x.op, h) PROVE FALSE
    BY <1>7 DEF Closed
  <2>1. h \in LocksOf(x)
    BY DEF LocksOf
  <2>2. PICK n \in 1..x.step : n \in Nat /\ Placed(x.op, n, h)
    BY <1>2, <2>1, LockStep
  <2>3. n = Len(Program(x.op))
    BY <2>2 DEF Closing, Placed, Closes
  <2> QED BY <1>2, <2>2, <2>3
<1>11. Cascaded(y)
  <2> SUFFICES ASSUME x.op[1] = "deleteAlbum", NEW l \in x.held \cup todo \cup {NoLock},
                      l.table \in {"job", "waveform", "guide"}
               PROVE  SongLock(OwnerOf(l)) \in x.held
    BY <1>7 DEF Cascaded
  <2>1. CASE l \in x.held
    BY <1>2, <2>1 DEF Good, Cascaded
  <2>2. CASE l \in todo
    <3>1. x.step = 2
      BY <1>1, <1>2, <1>5, <1>6, <1>8, <2>2, AlbumSteps
    <3> DEFINE S == {s \in Songs : Update("song", {s}) \subseteq x.held}
    <3>2. l \in Cascade(S)
      BY <1>1, <2>2, <3>1 DEF Within
    <3>3. OwnerOf(l) \in S
      BY <3>2, CascadeLocks
    <3> QED BY <3>3, SongRow
  <2> QED BY <2>1, <2>2, NoLockTable
<1>12. \A u \in Transactions \ {t} : \A h \in y.held, k \in tx[u].held :
          (h.table = k.table /\ h.id = k.id) => ~Conflicts(h.mode, k.mode)
  BY <1>7 DEF LocksInv, Exclusive
<1> QED BY <1>3, <1>7, <1>9, <1>10, <1>11, <1>12, OneChanges DEF Good

LEMMA EndInv ==
    ASSUME LocksInv, NEW t \in Transactions, EndTx(t)
    PROVE  LocksInv'
<1>1. tx' = [tx EXCEPT ![t] = NoTransaction]
  BY DEF EndTx
<1>2. NoTransaction \in Transaction /\ Good(NoTransaction) /\ NoTransaction.held = {}
  BY DEF NoTransaction, Transaction, Good, Shape, Closed, Cascaded, NoLock, NoOp
<1> QED BY <1>1, <1>2, OneChanges

\* Every step keeps the invariant.
LEMMA NextInv == LocksInv /\ [LocksNext]_tx => LocksInv'
<1> SUFFICES ASSUME LocksInv, [LocksNext]_tx PROVE LocksInv'
  OBVIOUS
<1>1. CASE UNCHANGED tx
  BY <1>1 DEF LocksInv, Good, Shape, Closed, Cascaded, Exclusive
<1>2. ASSUME NEW t \in Transactions, NEW op \in Ops, BeginTx(t, op) PROVE LocksInv'
  BY <1>2, BeginInv
<1>3. ASSUME NEW t \in Transactions, NEW lock \in tx[t].todo, Ask(t, lock) PROVE LocksInv'
  BY <1>3, AskInv
<1>4. ASSUME NEW t \in Transactions, Grant(t) \/ Skip(t) \/ Advance(t) \/ EndTx(t) PROVE LocksInv'
  BY <1>4, GrantInv, SkipInv, AdvanceInv, EndInv
<1> QED BY <1>1, <1>2, <1>3, <1>4 DEF LocksNext

-----------------------------------------------------------------------------
(* Circles.                                                                *)

LEMMA GuideDeletion ==
    ASSUME NEW x \in Transaction, Good(x), NEW l \in LocksOf(x), x.op[1] = "deleteGuide"
    PROVE  l.table = "guide"
<1>1. x.op \in Ops /\ x.op # NoOp /\ \E n \in 1..x.step : n \in Nat /\ l \in Program(x.op)[n]
  BY LockStep
<1>2. PICK g \in Guides : x.op = <<"deleteGuide", g, NoId>>
  BY <1>1 DEF Ops
<1>3. Program(x.op) = <<Update("guide", {g})>>
  BY <1>2 DEF Program, DeleteGuideSteps
<1>4. x.step = 1
  BY <1>1, <1>3 DEF Good, Shape
<1> QED BY <1>1, <1>3, <1>4 DEF Update

\* What the one who waits for another who waits as well can be waiting for.
LEMMA Waiting ==
    ASSUME LocksInv, NEW t \in Transactions, NEW u \in Transactions,
           Waits(t, u), tx[u].want # NoLock
    PROVE  /\ tx[t].want.table \in {"song", "guide", "album", "account"}
           /\ tx[t].want.table = "guide" => tx[t].op[1] = "deleteGuide"
           /\ tx[t].want.table = "album" => tx[u].op[1] = "deleteAlbum"
           /\ (tx[t].want.table = "account" /\ tx[t].want.mode = "keyshare") =>
                 tx[u].op[1] \in {"access", "register"} /\ tx[u].want.table # "account"
<1> DEFINE x == tx[t]
           y == tx[u]
           w == x.want
<1>1. t # u /\ x \in Transaction /\ y \in Transaction /\ Good(x) /\ Good(y) /\ w # NoLock
  BY DEF LocksInv, Waits
<1>2. PICK h \in y.held : h.table = w.table /\ h.id = w.id /\ Conflicts(h.mode, w.mode)
  BY DEF Waits, Blocks
<1>3. x.op \in Ops /\ w \in Lock /\ Placed(x.op, x.step, w)
  BY <1>1, WantStep
<1>4. h \in LocksOf(y) /\ w \in LocksOf(x)
  BY <1>1, <1>2 DEF LocksOf
<1>5. PICK n \in 1..y.step : n \in Nat /\ h \in Program(y.op)[n] /\ Placed(y.op, n, h)
  BY <1>1, <1>4, LockStep
<1>6. ~Closing(y.op, h)
  BY <1>1, <1>2, ClosedWants
<1>7. ASSUME NEW l, l \in x.held, l \in y.held, l.mode = "update" PROVE FALSE
  BY <1>1, <1>7, ConflictTable DEF LocksInv, Exclusive
<1>8. \A s : SongLock(s).mode = "update" /\ AccountLock(s).mode = "update"
  BY DEF SongLock, AccountLock
<1>9. OwnerOf(h) = OwnerOf(w)
  BY <1>2 DEF OwnerOf
<1>10. w.table \in {"job", "waveform", "guide"} => x.op[1] = "deleteGuide" \/ y.op[1] = "deleteGuide"
  <2> SUFFICES ASSUME w.table \in {"job", "waveform", "guide"},
                      x.op[1] # "deleteGuide", y.op[1] # "deleteGuide"
               PROVE  FALSE
    OBVIOUS
  <2>1. SongLock(OwnerOf(w)) \in x.held
    BY <1>1, <1>4, UnderItsOwner
  <2>2. SongLock(OwnerOf(h)) \in y.held
    BY <1>1, <1>2, <1>4, UnderItsOwner
  <2> QED BY <1>7, <1>8, <1>9, <2>1, <2>2
<1>11. w.table \in {"job", "waveform"} => FALSE
  <2> SUFFICES ASSUME w.table \in {"job", "waveform"} PROVE FALSE
    OBVIOUS
  <2>1. x.op[1] # "deleteGuide" /\ y.op[1] # "deleteGuide"
    BY <1>2, <1>3, <1>5, GuideDeletion, <1>1, <1>4
  <2> QED BY <1>10, <2>1
<1>12. w.table = "guide" => x.op[1] = "deleteGuide"
  <2> SUFFICES ASSUME w.table = "guide", x.op[1] # "deleteGuide" PROVE FALSE
    OBVIOUS
  <2>1. y.op[1] = "deleteGuide"
    BY <1>10
  <2> QED BY <1>2, <1>6, <2>1 DEF Closing
<1>13. w.table \notin {"credential", "mfa"}
  <2> SUFFICES ASSUME w.table \in {"credential", "mfa"} PROVE FALSE
    OBVIOUS
  <2>1. AccountLock(w.id) \in x.held /\ AccountLock(h.id) \in y.held
    BY <1>1, <1>2, <1>4, UnderItsOwner
  <2> QED BY <1>2, <1>7, <1>8, <2>1
<1>14. w.table # "device"
  <2> SUFFICES ASSUME w.table = "device" PROVE FALSE
    OBVIOUS
  <2>1. h.mode \in {"keyshare", "nokey"} /\ w.mode \in {"keyshare", "nokey"}
    BY <1>2, <1>3, <1>5 DEF Placed
  <2>2. h.mode # "nokey"
    BY <1>2, <1>6 DEF Closing
  <2> QED BY <1>2, <2>1, <2>2, ConflictTable
<1>15. w.table = "album" => y.op[1] = "deleteAlbum"
  BY <1>2, <1>6 DEF Closing
<1>16. (w.table = "account" /\ w.mode = "keyshare") =>
           y.op[1] \in {"access", "register"} /\ y.want.table # "account"
  <2> SUFFICES ASSUME w.table = "account", w.mode = "keyshare"
               PROVE  y.op[1] \in {"access", "register"} /\ y.want.table # "account"
    OBVIOUS
  <2>1. h.table = "account" /\ h.mode = "update"
    BY <1>2, ConflictTable
  <2>2. y.op[1] \in {"access", "register"}
    BY <1>5, <2>1 DEF Placed
  <2>3. y.want.table # "account"
    <3>1. Placed(y.op, y.step, y.want) /\ (Opens(y.op, y.step, y.want) => y.held = {})
      BY <1>1, WantStep
    <3> QED BY <1>2, <2>2, <3>1 DEF Placed
  <2> QED BY <2>2, <2>3
<1>17. w.table \in Tables
  BY <1>3 DEF Lock
<1> QED BY <1>11, <1>12, <1>13, <1>14, <1>15, <1>16, <1>17 DEF Tables

\* Those in a circle who delete no album, and do not wait as an edit for one, hold
\* nothing yet.
LEMMA EmptyHanded ==
    ASSUME LocksInv, NEW D \in SUBSET Transactions, Circle(D), NEW t \in D,
           tx[t].op[1] # "deleteAlbum",
           ~(tx[t].op[1] = "edit" /\ tx[t].want.table = "album")
    PROVE  tx[t].held = {}
<1> DEFINE x == tx[t]
<1>1. PICK u \in D : Waits(t, u)
  BY DEF Circle
<1>2. PICK v \in D : Waits(u, v)
  BY DEF Circle
<1>3. PICK z \in D : Waits(v, z)
  BY DEF Circle
<1>4. /\ t \in Transactions /\ u \in Transactions /\ v \in Transactions
      /\ x.want # NoLock /\ tx[u].want # NoLock /\ tx[v].want # NoLock
  BY <1>1, <1>2, <1>3 DEF Waits
<1>5. x \in Transaction /\ Good(x) /\ tx[u] \in Transaction /\ Good(tx[u])
  BY <1>4 DEF LocksInv
<1>6. Placed(x.op, x.step, x.want) /\ (Opens(x.op, x.step, x.want) => x.held = {})
  BY <1>4, <1>5, WantStep
<1>7. /\ x.want.table \in {"song", "guide", "album", "account"}
      /\ x.want.table = "guide" => x.op[1] = "deleteGuide"
      /\ (x.want.table = "account" /\ x.want.mode = "keyshare") =>
            tx[u].op[1] \in {"access", "register"} /\ tx[u].want.table # "account"
  BY <1>1, <1>4, Waiting
<1>8. tx[u].want.table \in {"song", "guide", "album", "account"}
  BY <1>2, <1>4, Waiting
<1>9. ~(x.want.table = "account" /\ x.want.mode = "keyshare")
  <2> SUFFICES ASSUME x.want.table = "account", x.want.mode = "keyshare" PROVE FALSE
    OBVIOUS
  <2>1. Placed(tx[u].op, tx[u].step, tx[u].want)
    BY <1>4, <1>5, WantStep
  <2> QED BY <1>7, <1>8, <2>1 DEF Placed
<1> QED BY <1>6, <1>7, <1>9 DEF Placed

LEMMA OnlyAroundAlbums == LocksInv => CirclesNeedAlbums
<1> SUFFICES ASSUME LocksInv, NEW D \in SUBSET Transactions, Circle(D)
             PROVE  \E t \in D : /\ tx[t].op[1] = "deleteAlbum"
                                 /\ \E u \in D \ {t} :
                                       \/ tx[u].op[1] = "deleteAlbum"
                                       \/ tx[u].op[1] = "edit" /\ tx[u].want.table = "album"
  BY DEF CirclesNeedAlbums
<1> DEFINE Album(t) == tx[t].op[1] = "deleteAlbum"
           Edit(t)  == tx[t].op[1] = "edit" /\ tx[t].want.table = "album"
<1>1. \A t \in D : \E u \in D \ {t} : tx[u].held # {}
  BY DEF Circle, Waits, Blocks
<1>2. \A t \in D : tx[t].held # {} => Album(t) \/ Edit(t)
  BY EmptyHanded
<1>3. \A t \in D : Edit(t) => \E u \in D \ {t} : Album(u)
  <2> SUFFICES ASSUME NEW t \in D, Edit(t) PROVE \E u \in D \ {t} : Album(u)
    OBVIOUS
  <2>1. PICK u \in D : Waits(t, u)
    BY DEF Circle
  <2>2. tx[u].want # NoLock /\ u # t
    BY <2>1 DEF Circle, Waits
  <2> QED BY <2>1, <2>2, Waiting
<1>4. PICK t \in D : Album(t)
  <2>1. PICK t \in D : tx[t].held # {}
    BY <1>1 DEF Circle
  <2> QED BY <1>2, <1>3, <2>1
<1>5. PICK u \in D \ {t} : Album(u) \/ Edit(u)
  BY <1>1, <1>2
<1> QED BY <1>4, <1>5

-----------------------------------------------------------------------------
(* Theorems.                                                               *)

\* In every state, what each transaction holds, has yet to ask for and waits for
\* are locks of the steps it has come to, it holds the song's (or the account's)
\* row under which it touches others, and the locks held are compatible.
THEOREM LocksAreKept == LocksSpec => []LocksInv
<1> QED BY InitInv, NextInv, PTL DEF LocksSpec

\* Transactions wait for each other in a circle only around the deletion of an
\* album, with another one or with an edit that waits for an album.
THEOREM NoCircleWithoutAlbums == LocksSpec => []CirclesNeedAlbums
<1> QED BY LocksAreKept, OnlyAroundAlbums, PTL


=============================================================================
