---------------------------- MODULE ServersProofs ----------------------------
(***************************************************************************)
(* Proofs about the server: DashboardSnapshot for every number of          *)
(* requests, builds and runs (its types, one build at a time, what a       *)
(* rebuild of one's own is worth, and that the server keeps what           *)
(* DashboardService promises), the login limiter, and what a server that   *)
(* starts tells of its migrations.                                         *)
(***************************************************************************)
EXTENDS DashboardSnapshot, LoginLimiter, Migrations, FiniteSetTheorems, TLAPS

-----------------------------------------------------------------------------
(* The parts of the inductive invariant.                                   *)

(* A build that has read its numbers read them after the snapshot's.        *)
BuildsForward ==
  /\ snapshot.stats <= written
  /\ \A b \in Build : builds[b].pc = "read" =>
       /\ snapshot.stats <= builds[b].stats
       /\ builds[b].stats <= written

(* snapshotBuild is a build under way, and whoever waits, waits for it.     *)
WaitForBuild ==
  /\ snapshotBuild # None => builds[snapshotBuild].pc # "free"
  /\ \A l \in Load : loads[l].pc = "waits" => loads[l].on = snapshotBuild /\ snapshotBuild # None
  /\ \A a \in Asker : asks[a].pc = "rebuild" => asks[a].on = snapshotBuild /\ snapshotBuild # None

(* No answer tells of a run that has not written its rows.                  *)
KnownUpdate(u) == RunOf(u) <= written
UpdatesKnown ==
  /\ KnownUpdate(freshnessCache.value)
  /\ \A a \in Asker : KnownUpdate(asks[a].value)

(* The build an asker started itself has not read yet, or read its run.     *)
OwnBuild ==
  \A a \in Asker : asks[a].own =>
    /\ asks[a].pc \in {"rebuild", "answered"}
    /\ asks[a].pc = "rebuild" /\ builds[asks[a].on].pc = "read"
         => RunOf(asks[a].value) <= builds[asks[a].on].stats

(* Nothing has been answered before it is.                                  *)
NotAnsweredYet ==
  /\ \A l \in Load : loads[l].pc # "done" => loads[l].stats = Blank
  /\ \A l \in Load : loads[l].pc = "done" => loads[l].stats <= snapshot.stats

SnapshotInv ==
  /\ TypeOK
  /\ OneBuild
  /\ BuildsForward
  /\ WaitForBuild
  /\ UpdatesKnown
  /\ OwnBuild
  /\ OwnRebuildCurrent
  /\ NotAnsweredYet

-----------------------------------------------------------------------------
(* RunOf: the run of an update, from 0 up to the run that has written.      *)
LEMMA RunOfUpdate ==
  ASSUME NEW u \in Nat, NEW w \in Nat, u <= 2 * w
  PROVE  RunOf(u) \in Int /\ RunOf(u) <= w
BY DEF RunOf

(* Every update an answer can hold has a run, a number.                     *)
LEMMA RunsOfUpdates == \A u \in Update : RunOf(u) \in Nat
BY SnapshotAssumption DEF RunOf, Update

-----------------------------------------------------------------------------
(* Types.                                                                  *)

LEMMA StateTypes ==
  /\ NoBuild \in BuildState
  /\ NoLoad \in LoadState
  /\ NoAsk \in AskState
  /\ \A stats \in Runs \cup {Blank} : [pc |-> "done", stats |-> stats, on |-> None] \in LoadState
  /\ [pc |-> "failed", stats |-> Blank, on |-> None] \in LoadState
<1> USE SnapshotAssumption DEF Runs, Some, Blank
<1>1. NoBuild \in BuildState
  BY DEF NoBuild, BuildState
<1>2. NoLoad \in LoadState
  BY DEF NoLoad, LoadState
<1>3. NoAsk \in AskState
  BY DEF NoAsk, AskState, Update
<1>4. \A stats \in Runs \cup {Blank} : [pc |-> "done", stats |-> stats, on |-> None] \in LoadState
  BY DEF LoadState
<1>5. [pc |-> "failed", stats |-> Blank, on |-> None] \in LoadState
  BY DEF LoadState
<1>6. QED
  BY <1>1, <1>2, <1>3, <1>4, <1>5

LEMMA StartBuildType ==
  ASSUME TypeOK, NEW b \in Build, StartBuild(b)
  PROVE  snapshotBuild' \in Some /\ builds' \in [Build -> BuildState]
BY DEF StartBuild, StartAnother, TypeOK, Some, BuildState

LEMMA DecideType ==
  ASSUME TypeOK, NEW a \in Asker, NEW u \in Update, Decide(a, u)
  PROVE  /\ snapshotBuild' \in Some
         /\ builds' \in [Build -> BuildState]
         /\ rebuiltForUpdate' \in Update
         /\ asks' \in [Asker -> AskState]
<1>1. CASE Rebuilds(u)
  <2>1. PICK b \in Build :
          /\ StartBuild(b)
          /\ asks' = [asks EXCEPT ![a] = [pc |-> "rebuild", value |-> u, on |-> b,
                                         own |-> snapshotBuild = None]]
    BY <1>1 DEF Decide
  <2>2. (snapshotBuild = None) \in BOOLEAN
    OBVIOUS
  <2>3. [pc |-> "rebuild", value |-> u, on |-> b, own |-> snapshotBuild = None] \in AskState
    BY <2>2 DEF AskState, Some
  <2>4. asks' \in [Asker -> AskState]
    BY <2>1, <2>3 DEF TypeOK
  <2>5. rebuiltForUpdate' \in Update
    BY <1>1 DEF Decide
  <2>6. QED
    BY <2>1, <2>4, <2>5, StartBuildType
<1>2. CASE ~Rebuilds(u)
  <2>1. asks' = [asks EXCEPT ![a] = [pc |-> "answered", value |-> u, on |-> None, own |-> FALSE]]
    BY <1>2 DEF Decide, AnswerAsk, NoAsk
  <2>2. asks' \in [Asker -> AskState]
    BY <2>1 DEF TypeOK, AskState, Some
  <2>3. rebuiltForUpdate' \in Update /\ UNCHANGED <<snapshotBuild, builds>>
    BY <1>2 DEF Decide, TypeOK
  <2>4. QED
    BY <2>2, <2>3 DEF TypeOK
<1>3. QED
  BY <1>1, <1>2

LEMMA TypeStep ==
  ASSUME TypeOK, [Next]_vars
  PROVE  TypeOK'
<1> USE SnapshotAssumption, StateTypes DEF TypeOK, db
<1>1. CASE Scheduler
  BY <1>1 DEF Scheduler, WriteRows, NoteRun, Runs
<1>2. CASE Ages
  BY <1>2 DEF Ages, SnapshotAges, FreshnessAges, Age
<1>3. ASSUME NEW b \in Build, BuildReads(b)
      PROVE  TypeOK'
  BY <1>3 DEF BuildReads, BuildState
<1>4. ASSUME NEW b \in Build, BuildEnds(b)
      PROVE  TypeOK'
  <2>1. builds[b] \in BuildState /\ builds[b].stats \in Runs
    BY DEF BuildState
  <2>2. PICK answer \in LoadState, ok \in BOOLEAN :
          LoadsAwaiting(b, answer) /\ AskersAwaiting(b, ok)
    BY <1>4, <2>1 DEF BuildEnds, BuildDone, BuildFails
  <2>3. loads' \in [Load -> LoadState]
    BY <2>2 DEF LoadsAwaiting
  <2>4. ASSUME NEW x \in Asker
        PROVE  [asks[x] EXCEPT !.pc = "answered", !.on = None, !.own = @ /\ ok] \in AskState
    BY DEF AskState, Some
  <2>5. asks' \in [Asker -> AskState]
    BY <2>2, <2>4 DEF AskersAwaiting
  <2>6. builds' \in [Build -> BuildState]
    BY <1>4 DEF BuildEnds, BuildDone, BuildFails
  <2>7. [stats |-> builds[b].stats, at |-> "fresh"] \in [stats : Runs, at : Age]
    BY <2>1 DEF Age
  <2>8. snapshot' \in [stats : Runs, at : Age] /\ snapshotBuild' \in Some
    <3>1. CASE BuildDone(b)
      BY <3>1, <2>7 DEF BuildDone, Some
    <3>2. CASE BuildFails(b)
      BY <3>2 DEF BuildFails, Some
    <3>3. QED
      BY <1>4, <3>1, <3>2 DEF BuildEnds
  <2>9. QED
    BY <1>4, <2>3, <2>5, <2>6, <2>8 DEF BuildEnds, BuildDone, BuildFails
<1>5. ASSUME NEW l \in Load, LoadArrives(l) \/ LoadTaken(l) \/ LoadServed(l) \/ LoadRefused(l)
      PROVE  TypeOK'
  <2>1. [loads[l] EXCEPT !.pc = "sent"] \in LoadState
    BY DEF LoadState
  <2>2. Blank \in Runs \cup {Blank} /\ snapshot.stats \in Runs \cup {Blank}
    OBVIOUS
  <2>3. loads' \in [Load -> LoadState]
    BY <1>5, <2>1, <2>2 DEF LoadArrives, LoadTaken, LoadServed, LoadRefused, Answer
  <2>4. QED
    BY <1>5, <2>3 DEF LoadArrives, LoadTaken, LoadServed, LoadRefused
<1>6. ASSUME NEW l \in Load, LoadServedOld(l) \/ LoadWaits(l)
      PROVE  TypeOK'
  <2>1. PICK b \in Build : StartBuild(b)
    BY <1>6 DEF LoadServedOld, LoadWaits
  <2>2. \A x \in Build : [loads[l] EXCEPT !.pc = "waits", !.on = x] \in LoadState
    BY ZenonT(60) DEF LoadState, Some
  <2>3. snapshot.stats \in Runs \cup {Blank}
    OBVIOUS
  <2>4. loads' \in [Load -> LoadState]
    BY ZenonT(60), <1>6, <2>2, <2>3 DEF LoadServedOld, LoadWaits, Answer
  <2>5. QED
    BY <1>6, <2>1, <2>4, StartBuildType DEF LoadServedOld, LoadWaits
<1>7. ASSUME NEW a \in Asker, AskHit(a) \/ AskStores(a)
      PROVE  TypeOK'
  <2>1. asks[a].value \in Update
    BY DEF AskState
  <2>2. freshnessCache' \in [value : Update, at : Age]
    BY <1>7, <2>1 DEF AskHit, AskStores, Age
  <2>3. PICK u \in Update : Decide(a, u)
    BY <1>7, <2>1 DEF AskHit, AskStores
  <2>4. QED
    BY <1>7, <2>2, <2>3, DecideType DEF AskHit, AskStores
<1>8. ASSUME NEW a \in Asker, AskReads(a)
      PROVE  TypeOK'
  <2>1. Noted \in Update /\ RowStamp \in Update
    BY DEF Noted, RowStamp, Update, Runs
  <2>2. \A u \in Update : [asks[a] EXCEPT !.pc = "read", !.value = u] \in AskState
    BY DEF AskState
  <2>3. PICK u \in Update : asks' = [asks EXCEPT ![a] = [@ EXCEPT !.pc = "read", !.value = u]]
    BY <1>8, <2>1 DEF AskReads
  <2>4. asks' \in [Asker -> AskState]
    BY <2>2, <2>3
  <2>5. QED
    BY <1>8, <2>4 DEF AskReads
<1>9. ASSUME NEW a \in Asker, AskMiss(a) \/ AskFails(a) \/ AskTaken(a)
      PROVE  TypeOK'
  <2>1. /\ [asks[a] EXCEPT !.pc = "query"] \in AskState
        /\ [NoAsk EXCEPT !.pc = "failed"] \in AskState
    BY DEF AskState
  <2>2. asks' \in [Asker -> AskState]
    BY <1>9, <2>1 DEF AskMiss, AskFails, AskTaken
  <2>3. QED
    BY <1>9, <2>2 DEF AskMiss, AskFails, AskTaken
<1>10. CASE UNCHANGED vars
  BY <1>10 DEF vars
<1>11. QED
  BY <1>1, <1>2, <1>3, <1>4, <1>5, <1>6, <1>7, <1>8, <1>9, <1>10
     DEF Next, Clients, LoadStep, AskStep

-----------------------------------------------------------------------------
(* The invariant.                                                          *)

LEMMA InitInv == Init => SnapshotInv
<1> SUFFICES ASSUME Init
             PROVE  SnapshotInv
  OBVIOUS
<1> USE SnapshotAssumption DEF Init, Runs, Update, NoSnapshot, NoCache, NoBuild, NoLoad, NoAsk, Blank
<1>1. TypeOK
  BY StateTypes DEF TypeOK, Age, Some
<1>2. RunOf(0) <= written
  BY RunOfUpdate
<1>3. OneBuild /\ BuildsForward /\ WaitForBuild
  BY DEF OneBuild, BuildsForward, WaitForBuild
<1>4. UpdatesKnown
  BY <1>2 DEF UpdatesKnown, KnownUpdate
<1>5. OwnBuild /\ OwnRebuildCurrent /\ NotAnsweredYet
  BY DEF OwnBuild, OwnRebuildCurrent, NotAnsweredYet
<1>6. QED
  BY <1>1, <1>3, <1>4, <1>5 DEF SnapshotInv

(* startBuild() returns the one build under way; if there was none, the new *)
(* one has not read anything yet.                                           *)
LEMMA StartBuildEffect ==
  ASSUME SnapshotInv, NEW b \in Build, StartBuild(b)
  PROVE  /\ snapshotBuild' = b
         /\ builds'[b].pc # "free"
         /\ \A c \in Build : builds'[c] = builds[c] \/ (c = b /\ builds'[b].pc = "asked")
         /\ snapshotBuild # None => UNCHANGED <<snapshotBuild, builds>>
         /\ snapshotBuild = None => builds'[b].pc = "asked"
         /\ OneBuild'
<1> USE SnapshotAssumption DEF SnapshotInv, TypeOK, BuildState, OneBuild, WaitForBuild
<1>1. CASE b = snapshotBuild /\ UNCHANGED <<snapshotBuild, builds>>
  BY <1>1
<1>2. CASE snapshotBuild = None /\ StartAnother(b)
  BY <1>2 DEF StartAnother
<1>3. QED
  BY <1>1, <1>2 DEF StartBuild

(* A build that starts has read nothing: the others stay between the        *)
(* snapshot and the database.                                               *)
LEMMA StartedInv ==
  ASSUME SnapshotInv, NEW b \in Build, StartBuild(b), UNCHANGED <<written, snapshot>>
  PROVE  BuildsForward'
BY StartBuildEffect DEF SnapshotInv, BuildsForward

(* The end of getDataFreshness keeps every part of the invariant.           *)
LEMMA DecideInv ==
  ASSUME SnapshotInv, TypeOK', NEW a \in Asker, NEW u \in Update, KnownUpdate(u), Decide(a, u),
         UNCHANGED <<written, snapshot, loads>>
  PROVE  /\ OneBuild' /\ BuildsForward' /\ WaitForBuild' /\ OwnBuild'
         /\ OwnRebuildCurrent'
         /\ \A x \in Asker : KnownUpdate(asks[x].value)'
<1> USE DEF KnownUpdate
<1>1. CASE Rebuilds(u)
  <2>1. PICK b \in Build :
          /\ StartBuild(b)
          /\ asks' = [asks EXCEPT ![a] = [pc |-> "rebuild", value |-> u, on |-> b,
                                         own |-> snapshotBuild = None]]
    BY <1>1 DEF Decide
  <2> DEFINE new == [pc |-> "rebuild", value |-> u, on |-> b, own |-> snapshotBuild = None]
  <2>2. asks'[a] = new /\ \A x \in Asker \ {a} : asks'[x] = asks[x]
    BY <2>1 DEF SnapshotInv, TypeOK
  <2>3. new.pc = "rebuild" /\ new.value = u /\ new.on = b /\ (new.own <=> snapshotBuild = None)
    OBVIOUS
  <2> HIDE DEF new
  <2>4. OneBuild' /\ BuildsForward'
    BY <2>1, StartBuildEffect, StartedInv
  <2>5. WaitForBuild'
    BY <2>1, <2>2, <2>3, StartBuildEffect, SnapshotAssumption
       DEF SnapshotInv, WaitForBuild
  <2>6. OwnBuild'
    BY <2>1, <2>2, <2>3, StartBuildEffect, SnapshotAssumption
       DEF SnapshotInv, WaitForBuild, OwnBuild
  <2>7. OwnRebuildCurrent'
    BY <2>2, <2>3 DEF SnapshotInv, OwnRebuildCurrent
  <2>8. \A x \in Asker : KnownUpdate(asks[x].value)'
    BY <2>2, <2>3 DEF SnapshotInv, UpdatesKnown
  <2>9. QED
    BY <2>4, <2>5, <2>6, <2>7, <2>8
<1>2. CASE ~Rebuilds(u)
  <2>1. asks' = [asks EXCEPT ![a] = [pc |-> "answered", value |-> u, on |-> None, own |-> FALSE]]
    BY <1>2 DEF Decide, AnswerAsk, NoAsk
  <2>2. UNCHANGED <<snapshotBuild, builds>>
    BY <1>2 DEF Decide
  <2> DEFINE new == [pc |-> "answered", value |-> u, on |-> None, own |-> FALSE]
  <2>3. asks'[a] = new /\ \A x \in Asker \ {a} : asks'[x] = asks[x]
    BY <2>1 DEF SnapshotInv, TypeOK
  <2>4. new.pc = "answered" /\ new.value = u /\ ~new.own
    OBVIOUS
  <2> HIDE DEF new
  <2>5. OneBuild' /\ BuildsForward' /\ WaitForBuild' /\ OwnBuild'
    BY <2>2, <2>3, <2>4 DEF SnapshotInv, OneBuild, BuildsForward, WaitForBuild, OwnBuild
  <2>6. OwnRebuildCurrent' /\ \A x \in Asker : KnownUpdate(asks[x].value)'
    BY <2>3, <2>4 DEF SnapshotInv, OwnRebuildCurrent, UpdatesKnown
  <2>7. QED
    BY <2>5, <2>6
<1>3. QED
  BY <1>1, <1>2

(* What a step of the clients' side that only changes requests keeps.       *)
LEMMA RequestsInv ==
  ASSUME SnapshotInv, TypeOK', UNCHANGED <<db, snapshot, snapshotBuild, builds, freshnessCache>>,
         \A l \in Load : loads'[l].pc = "waits" => loads'[l] = loads[l],
         \A l \in Load : loads'[l].pc # "done" => loads'[l].stats = Blank,
         \A l \in Load : loads'[l].pc = "done" => loads'[l].stats <= snapshot.stats,
         \A a \in Asker : asks'[a] = asks[a] \/ (~asks'[a].own /\ asks'[a].pc # "rebuild"),
         \A a \in Asker : KnownUpdate(asks'[a].value)
  PROVE  SnapshotInv'
<1> USE DEF SnapshotInv, db
<1>1. OneBuild' /\ BuildsForward'
  BY DEF OneBuild, BuildsForward
<1>2. WaitForBuild'
  BY DEF WaitForBuild
<1>3. UpdatesKnown'
  BY DEF UpdatesKnown, KnownUpdate
<1>4. OwnBuild' /\ OwnRebuildCurrent'
  BY DEF OwnBuild, OwnRebuildCurrent
<1>5. NotAnsweredYet'
  BY DEF NotAnsweredYet
<1>6. QED
  BY <1>1, <1>2, <1>3, <1>4, <1>5

LEMMA InvStep ==
  ASSUME SnapshotInv, [Next]_vars
  PROVE  SnapshotInv'
<1>0. TypeOK'
  BY TypeStep DEF SnapshotInv
<1> USE SnapshotAssumption, <1>0
<1>1. CASE Scheduler
  <2>1. /\ written' \in Int /\ written \in Int /\ written' >= written
        /\ UNCHANGED <<snapshot, snapshotBuild, builds, freshnessCache, loads, asks>>
    BY <1>1 DEF Scheduler, WriteRows, NoteRun, SnapshotInv, TypeOK, Runs
  <2>2. OneBuild' /\ WaitForBuild' /\ OwnBuild' /\ OwnRebuildCurrent' /\ NotAnsweredYet'
    BY <2>1 DEF SnapshotInv, OneBuild, WaitForBuild, OwnBuild, OwnRebuildCurrent, NotAnsweredYet
  <2>3. BuildsForward'
    BY <2>1 DEF SnapshotInv, BuildsForward, TypeOK, BuildState, Runs
  <2>4. \A u \in Update : KnownUpdate(u) => KnownUpdate(u)'
    BY <2>1, RunsOfUpdates DEF KnownUpdate
  <2>5. UpdatesKnown'
    BY <2>1, <2>4 DEF SnapshotInv, UpdatesKnown, TypeOK, AskState
  <2>6. QED
    BY <2>2, <2>3, <2>5 DEF SnapshotInv
<1>2. CASE Ages
  <2>1. /\ snapshot'.stats = snapshot.stats
        /\ freshnessCache'.value = freshnessCache.value
        /\ UNCHANGED <<db, snapshotBuild, builds, loads, asks>>
    BY <1>2 DEF Ages, SnapshotAges, FreshnessAges, SnapshotInv, TypeOK
  <2>2. QED
    BY <2>1 DEF SnapshotInv, OneBuild, BuildsForward, WaitForBuild, UpdatesKnown, KnownUpdate,
                OwnBuild, OwnRebuildCurrent, NotAnsweredYet, db
<1>3. ASSUME NEW b \in Build, BuildReads(b)
      PROVE  SnapshotInv'
  <2>1. /\ builds[b].pc = "asked"
        /\ builds'[b].pc = "read" /\ builds'[b].stats = written
        /\ \A c \in Build \ {b} : builds'[c] = builds[c]
        /\ UNCHANGED <<db, snapshot, snapshotBuild, freshnessCache, loads, asks>>
    BY <1>3 DEF BuildReads, SnapshotInv, TypeOK
  <2>2. OneBuild' /\ WaitForBuild'
    BY <2>1 DEF SnapshotInv, OneBuild, WaitForBuild, TypeOK, Some
  <2>3. BuildsForward'
    BY <2>1 DEF SnapshotInv, BuildsForward, TypeOK, Runs, db
  <2>4. UpdatesKnown' /\ OwnRebuildCurrent' /\ NotAnsweredYet'
    BY <2>1 DEF SnapshotInv, UpdatesKnown, KnownUpdate, OwnRebuildCurrent, NotAnsweredYet, db
  <2>5. OwnBuild'
    BY <2>1 DEF SnapshotInv, OwnBuild, WaitForBuild, UpdatesKnown, KnownUpdate, TypeOK, Some, db
  <2>6. QED
    BY <2>2, <2>3, <2>4, <2>5 DEF SnapshotInv
<1>4. ASSUME NEW b \in Build, BuildEnds(b)
      PROVE  SnapshotInv'
  <2>1. /\ builds[b].pc # "free" /\ b = snapshotBuild
        /\ snapshotBuild' = None
        /\ \A c \in Build : builds'[c].pc = "free"
        /\ UNCHANGED <<db, freshnessCache>>
    <3>1. /\ builds[b].pc # "free"
          /\ builds' = [builds EXCEPT ![b] = NoBuild] /\ snapshotBuild' = None
          /\ UNCHANGED <<db, freshnessCache>>
      BY <1>4 DEF BuildEnds, BuildDone, BuildFails
    <3>2. b = snapshotBuild /\ \A c \in Build \ {b} : builds[c].pc = "free"
      BY <3>1 DEF SnapshotInv, OneBuild
    <3>3. builds'[b] = NoBuild /\ \A c \in Build \ {b} : builds'[c] = builds[c]
      BY <3>1 DEF SnapshotInv, TypeOK
    <3>4. QED
      BY <3>1, <3>2, <3>3 DEF NoBuild
  <2>2. PICK answer \in LoadState, ok \in BOOLEAN :
          /\ LoadsAwaiting(b, answer) /\ AskersAwaiting(b, ok)
          /\ \/ /\ ok = TRUE /\ builds[b].pc = "read"
                /\ answer.pc = "done" /\ answer.stats = builds[b].stats
                /\ snapshot'.stats = builds[b].stats
             \/ /\ ok = FALSE /\ UNCHANGED snapshot
                /\ answer.pc = "failed" /\ answer.stats = Blank
    <3>1. CASE BuildDone(b)
      <4>1. [pc |-> "done", stats |-> builds[b].stats, on |-> None] \in LoadState
        BY StateTypes DEF SnapshotInv, TypeOK, BuildState
      <4>2. QED
        BY <3>1, <4>1 DEF BuildDone
    <3>2. CASE BuildFails(b)
      <4>1. [pc |-> "failed", stats |-> Blank, on |-> None] \in LoadState
        BY StateTypes
      <4>2. QED
        BY <3>2, <4>1 DEF BuildFails
    <3>3. QED
      BY <1>4, <3>1, <3>2 DEF BuildEnds
  <2>3. /\ snapshot.stats \in Nat /\ snapshot'.stats \in Nat
        /\ snapshot.stats <= snapshot'.stats /\ snapshot'.stats <= written
    BY <2>2 DEF SnapshotInv, BuildsForward, TypeOK, Runs, BuildState
  <2>4. /\ \A l \in Load : /\ loads'[l].pc # "waits"
                           /\ loads'[l] = loads[l] \/ loads'[l] = answer
        /\ \A a \in Asker :
             /\ asks'[a].pc # "rebuild"
             /\ asks'[a].value = asks[a].value
             /\ asks'[a].own => /\ asks[a].own /\ asks'[a].pc = "answered"
                                /\ asks[a].pc = "answered"
                                    \/ (asks[a].pc = "rebuild" /\ asks[a].on = b /\ ok)
    <3>1. ASSUME NEW l \in Load
          PROVE  loads'[l].pc # "waits" /\ (loads'[l] = loads[l] \/ loads'[l] = answer)
      BY <2>1, <2>2 DEF LoadsAwaiting, SnapshotInv, WaitForBuild
    <3>2. ASSUME NEW a \in Asker, asks[a].pc = "rebuild"
          PROVE  /\ asks'[a].pc = "answered" /\ asks'[a].value = asks[a].value
                 /\ asks'[a].own => asks[a].own /\ ok
                 /\ asks[a].on = b
      <4>1. asks[a].on = b /\ asks[a] \in AskState
        BY <2>1, <3>2 DEF SnapshotInv, WaitForBuild, TypeOK
      <4>2. asks'[a] = [asks[a] EXCEPT !.pc = "answered", !.on = None, !.own = @ /\ ok]
        BY <2>2, <3>2, <4>1 DEF AskersAwaiting
      <4>3. QED
        BY <4>1, <4>2 DEF AskState
    <3>3. ASSUME NEW a \in Asker, asks[a].pc # "rebuild"
          PROVE  /\ asks'[a] = asks[a]
                 /\ asks[a].own => asks[a].pc = "answered"
      BY <2>2, <3>3 DEF AskersAwaiting, SnapshotInv, OwnBuild
    <3>4. QED
      BY <3>1, <3>2, <3>3
  <2>5. OneBuild' /\ BuildsForward' /\ WaitForBuild' /\ OwnBuild'
    <3>1. OneBuild' /\ BuildsForward'
      BY <2>1, <2>3 DEF OneBuild, BuildsForward, db
    <3>2. WaitForBuild'
      BY <2>1, <2>4 DEF WaitForBuild
    <3>3. \A a \in Asker : asks'[a].own => asks'[a].pc = "answered"
      BY <2>4
    <3>4. OwnBuild'
      BY <3>3 DEF OwnBuild
    <3>5. QED
      BY <3>1, <3>2, <3>4
  <2>6. UpdatesKnown'
    BY <2>1, <2>4 DEF SnapshotInv, UpdatesKnown, KnownUpdate, db
  <2>7. OwnRebuildCurrent'
    <3>1. SUFFICES ASSUME NEW a \in Asker, asks'[a].own
                   PROVE  RunOf(asks[a].value) <= snapshot'.stats
      BY <2>3, <2>4, RunsOfUpdates DEF OwnRebuildCurrent, SnapshotInv, TypeOK, AskState
    <3>2. RunOf(asks[a].value) \in Nat
      BY RunsOfUpdates DEF SnapshotInv, TypeOK, AskState
    <3>3. CASE asks[a].pc = "answered"
      <4>1. RunOf(asks[a].value) <= snapshot.stats
        BY <2>3, <2>4, <3>1, <3>2, <3>3 DEF SnapshotInv, OwnRebuildCurrent
      <4>2. QED
        BY <2>3, <3>2, <4>1
    <3>4. CASE asks[a].pc = "rebuild" /\ asks[a].on = b /\ ok
      <4>1. snapshot'.stats = builds[b].stats /\ builds[b].pc = "read"
        BY <2>2, <3>4, Zenon
      <4>2. asks[a].own
        BY <2>4, <3>1
      <4>3. RunOf(asks[a].value) <= builds[b].stats
        BY <3>4, <4>1, <4>2 DEF SnapshotInv, OwnBuild
      <4>4. QED
        BY <4>1, <4>3
    <3>5. QED
      BY <2>4, <3>1, <3>3, <3>4
  <2>8. NotAnsweredYet'
    BY SMTT(60), <2>2, <2>3, <2>4 DEF SnapshotInv, NotAnsweredYet, TypeOK, LoadState, Runs, Blank
  <2>9. QED
    BY <2>5, <2>6, <2>7, <2>8 DEF SnapshotInv
<1>5. ASSUME NEW l \in Load, LoadArrives(l) \/ LoadTaken(l) \/ LoadServed(l) \/ LoadRefused(l)
      PROVE  SnapshotInv'
  <2>1. \A x \in Load \ {l} : loads'[x] = loads[x]
    BY <1>5 DEF LoadArrives, LoadTaken, LoadServed, LoadRefused, Answer, SnapshotInv, TypeOK
  <2>2. /\ loads'[l].pc # "waits"
        /\ loads'[l].pc # "done" => loads'[l].stats = Blank
        /\ loads'[l].pc = "done" => loads'[l].stats <= snapshot.stats
    BY <1>5 DEF LoadArrives, LoadTaken, LoadServed, LoadRefused, Answer, NoLoad,
                SnapshotInv, TypeOK, LoadState, NotAnsweredYet, Blank, Runs
  <2>3. /\ UNCHANGED <<db, snapshot, snapshotBuild, builds, freshnessCache, asks>>
    BY <1>5 DEF LoadArrives, LoadTaken, LoadServed, LoadRefused
  <2>4. QED
    BY <2>1, <2>2, <2>3, RequestsInv DEF SnapshotInv, NotAnsweredYet, UpdatesKnown
<1>6. ASSUME NEW l \in Load, LoadServedOld(l) \/ LoadWaits(l)
      PROVE  SnapshotInv'
  <2>0. snapshot.stats \in Nat /\ loads[l].stats = Blank /\ loads[l].pc = "sent"
    <3>1. loads[l].pc = "sent"
      BY <1>6 DEF LoadServedOld, LoadWaits
    <3>2. snapshot.stats \in Nat
      BY DEF SnapshotInv, TypeOK, Runs
    <3>3. QED
      BY <3>1, <3>2 DEF SnapshotInv, NotAnsweredYet
  <2>1. PICK b \in Build :
          /\ StartBuild(b)
          /\ \/ loads'[l] = [pc |-> "done", stats |-> snapshot.stats, on |-> None]
             \/ loads'[l] = [loads[l] EXCEPT !.pc = "waits", !.on = b]
    <3>1. CASE LoadServedOld(l)
      BY <3>1 DEF LoadServedOld, Answer, SnapshotInv, TypeOK
    <3>2. CASE LoadWaits(l)
      BY <3>2 DEF LoadWaits, SnapshotInv, TypeOK
    <3>3. QED
      BY <1>6, <3>1, <3>2
  <2>2. \A x \in Load \ {l} : loads'[x] = loads[x]
    BY <1>6 DEF LoadServedOld, LoadWaits, Answer, SnapshotInv, TypeOK
  <2>3. /\ loads'[l].pc = "waits" => loads'[l].on = b
        /\ loads'[l].pc # "done" => loads'[l].stats = Blank
        /\ loads'[l].pc = "done" => loads'[l].stats <= snapshot.stats
    <3>1. loads[l] \in LoadState
      BY DEF SnapshotInv, TypeOK
    <3>2. CASE loads'[l] = [pc |-> "done", stats |-> snapshot.stats, on |-> None]
      BY <2>0, <3>2
    <3>3. CASE loads'[l] = [loads[l] EXCEPT !.pc = "waits", !.on = b]
      BY <2>0, <3>1, <3>3 DEF LoadState
    <3>4. QED
      BY <2>1, <3>2, <3>3
  <2>4. UNCHANGED <<db, snapshot, freshnessCache, asks>>
    BY <1>6 DEF LoadServedOld, LoadWaits
  <2>5. OneBuild' /\ BuildsForward'
    BY <2>1, <2>4, StartBuildEffect, StartedInv DEF db
  <2>6. WaitForBuild'
    BY <2>1, <2>2, <2>3, <2>4, StartBuildEffect DEF SnapshotInv, WaitForBuild
  <2>7. OwnBuild'
    BY <2>1, <2>4, StartBuildEffect DEF SnapshotInv, OwnBuild, WaitForBuild
  <2>8. UpdatesKnown' /\ OwnRebuildCurrent' /\ NotAnsweredYet'
    BY <2>2, <2>3, <2>4 DEF SnapshotInv, UpdatesKnown, KnownUpdate, OwnRebuildCurrent,
                            NotAnsweredYet, db
  <2>9. QED
    BY <2>5, <2>6, <2>7, <2>8 DEF SnapshotInv
<1>7. ASSUME NEW a \in Asker, AskHit(a) \/ AskStores(a)
      PROVE  SnapshotInv'
  <2>1. PICK u \in Update : KnownUpdate(u) /\ Decide(a, u) /\ freshnessCache'.value = u
    BY <1>7 DEF AskHit, AskStores, SnapshotInv, TypeOK, AskState, UpdatesKnown
  <2>2. UNCHANGED <<db, snapshot, loads>>
    BY <1>7 DEF AskHit, AskStores
  <2>3. /\ OneBuild' /\ BuildsForward' /\ WaitForBuild' /\ OwnBuild' /\ OwnRebuildCurrent'
        /\ \A x \in Asker : KnownUpdate(asks[x].value)'
    BY <2>1, <2>2, DecideInv DEF db
  <2>4. UpdatesKnown' /\ NotAnsweredYet'
    BY <2>1, <2>2, <2>3 DEF UpdatesKnown, KnownUpdate, SnapshotInv, NotAnsweredYet, db
  <2>5. QED
    BY <2>3, <2>4 DEF SnapshotInv
<1>8. ASSUME NEW a \in Asker, AskReads(a)
      PROVE  SnapshotInv'
  <2>1. Noted \in Update /\ RowStamp \in Update
    BY DEF Noted, RowStamp, Update, Runs, SnapshotInv, TypeOK
  <2>2. KnownUpdate(Noted) /\ KnownUpdate(RowStamp)
    BY RunOfUpdate DEF KnownUpdate, Noted, RowStamp, Runs, SnapshotInv, TypeOK
  <2>3. PICK u \in Update : /\ KnownUpdate(u)
                           /\ asks' = [asks EXCEPT ![a] = [@ EXCEPT !.pc = "read", !.value = u]]
    BY <1>8, <2>1, <2>2 DEF AskReads
  <2>4. /\ \A x \in Asker \ {a} : asks'[x] = asks[x]
        /\ asks'[a].pc = "read" /\ asks'[a].value = u /\ ~asks'[a].own
    BY ZenonT(60), <1>8, <2>3 DEF AskReads, SnapshotInv, TypeOK, AskState, OwnBuild
  <2>5. UNCHANGED <<db, snapshot, snapshotBuild, builds, freshnessCache, loads>>
    BY <1>8 DEF AskReads
  <2>6. QED
    BY <2>3, <2>4, <2>5, RequestsInv DEF SnapshotInv, NotAnsweredYet, UpdatesKnown
<1>9. ASSUME NEW a \in Asker, AskMiss(a) \/ AskFails(a) \/ AskTaken(a)
      PROVE  SnapshotInv'
  <2>1. KnownUpdate(0)
    BY RunOfUpdate DEF KnownUpdate, SnapshotInv, TypeOK, Runs
  <2>2. /\ \A x \in Asker \ {a} : asks'[x] = asks[x]
        /\ asks'[a].pc # "rebuild" /\ ~asks'[a].own
        /\ asks'[a].value \in {asks[a].value, 0}
    BY <1>9 DEF AskMiss, AskFails, AskTaken, NoAsk, SnapshotInv, TypeOK, AskState, OwnBuild
  <2>3. UNCHANGED <<db, snapshot, snapshotBuild, builds, freshnessCache, loads>>
    BY <1>9 DEF AskMiss, AskFails, AskTaken
  <2>4. QED
    BY <2>1, <2>2, <2>3, RequestsInv DEF SnapshotInv, NotAnsweredYet, UpdatesKnown
<1>10. CASE UNCHANGED vars
  BY <1>10 DEF vars, db, SnapshotInv, OneBuild, BuildsForward, WaitForBuild, UpdatesKnown,
               KnownUpdate, OwnBuild, OwnRebuildCurrent, NotAnsweredYet
<1>11. QED
  BY <1>1, <1>2, <1>3, <1>4, <1>5, <1>6, <1>7, <1>8, <1>9, <1>10
     DEF Next, Clients, LoadStep, AskStep

LEMMA Invariance == Spec => []SnapshotInv
<1>1. SnapshotInv /\ [Next]_vars => SnapshotInv'
  BY InvStep
<1>2. QED
  BY InitInv, <1>1, PTL DEF Spec, Safety

-----------------------------------------------------------------------------
(* The theorems.                                                           *)

(* The variables have their types.                                         *)
THEOREM SnapshotTypes == Spec => []TypeOK
<1>1. SnapshotInv => TypeOK
  BY DEF SnapshotInv
<1>2. QED
  BY Invariance, <1>1, PTL

(* Builds never overlap: startBuild() shares the one under way.             *)
THEOREM OneBuildAlways == Spec => []OneBuild
<1>1. SnapshotInv => OneBuild
  BY DEF SnapshotInv
<1>2. QED
  BY Invariance, <1>1, PTL

(* A request for the freshness that rebuilt the snapshot itself is told of  *)
(* no run the snapshot does not have (getDataFreshness's await).            *)
THEOREM RebuildKept == Spec => []OwnRebuildCurrent
<1>1. SnapshotInv => OwnRebuildCurrent
  BY DEF SnapshotInv
<1>2. QED
  BY Invariance, <1>1, PTL

-----------------------------------------------------------------------------
(* The server implements DashboardService.                                 *)

Seen(load) == [pc    |-> IF load.pc = "waits" THEN "sent" ELSE load.pc,
               stats |-> load.stats]

(* A step that only answers, or puts off, requests is one of the service.   *)
LEMMA ServeStep ==
  ASSUME SnapshotInv, SnapshotInv', written' = written,
         snapshot.stats <= snapshot'.stats,
         \A l \in Load :
           \/ loads'[l] = loads[l]
           \/ /\ loads[l].pc \in {"sent", "waits"}
              /\ \/ loads'[l].pc = "waits"
                 \/ loads'[l].pc = "failed"
                 \/ loads'[l].pc = "done" /\ loads'[l].stats \in {Blank, snapshot'.stats}
  PROVE  Service!Serve
<1> DEFINE sl == [l \in Load |-> Seen(loads[l])]
<1>1. snapshot'.stats \in snapshot.stats .. written
  BY DEF SnapshotInv, BuildsForward, TypeOK, Runs
<1>2. ASSUME NEW l \in Load
      PROVE  /\ sl'[l] \in Service!LoadState
             /\ \/ sl'[l] = sl[l]
                \/ /\ sl[l].pc = "sent"
                   /\ sl'[l] \in {Service!Done(snapshot'.stats), Service!Done(Service!Blank),
                                  Service!Failed}
  <2>1. loads[l] \in LoadState /\ loads'[l] \in LoadState
    BY DEF SnapshotInv, TypeOK, LoadState, Some, Runs
  <2>2. sl[l] = Seen(loads[l]) /\ sl'[l] = Seen(loads'[l])
    BY DEF Seen
  <2> HIDE DEF sl
  <2>3. loads'[l].pc # "done" => loads'[l].stats = Blank
    BY DEF SnapshotInv, NotAnsweredYet
  <2>4. loads[l].pc # "done" => loads[l].stats = Blank
    BY DEF SnapshotInv, NotAnsweredYet
  <2>5. sl'[l] \in Service!LoadState
    BY <2>1, <2>2 DEF Seen, LoadState, Service!LoadState, Service!Runs, Service!Blank, Runs, Blank
  <2>6. CASE loads'[l] = loads[l]
    BY <2>2, <2>5, <2>6
  <2>7. CASE loads'[l] # loads[l]
    <3>1. sl[l] = [pc |-> "sent", stats |-> Blank]
      BY <2>2, <2>4, <2>7 DEF Seen
    <3>2. CASE loads'[l].pc = "waits"
      <4>1. sl'[l] = [pc |-> "sent", stats |-> Blank]
        BY <2>2, <2>3, <3>2 DEF Seen
      <4>2. QED
        BY <2>5, <3>1, <4>1
    <3>3. CASE loads'[l].pc = "failed"
      <4>1. sl'[l] = [pc |-> "failed", stats |-> Blank]
        BY <2>2, <2>3, <3>3 DEF Seen
      <4>2. QED
        BY <2>5, <3>1, <4>1 DEF Service!Failed, Service!Blank, Blank
    <3>4. CASE loads'[l].pc = "done" /\ loads'[l].stats \in {Blank, snapshot'.stats}
      <4>1. sl'[l] = [pc |-> "done", stats |-> loads'[l].stats]
        BY <2>2, <3>4 DEF Seen
      <4>2. QED
        BY <2>5, <3>1, <3>4, <4>1 DEF Service!Done, Service!Blank, Blank
    <3>5. QED
      BY <2>7, <3>2, <3>3, <3>4
  <2>8. QED
    BY <2>6, <2>7
<1>3. sl' \in [Load -> Service!LoadState]
  BY <1>2
<1>4. QED
  BY <1>1, <1>2, <1>3 DEF Service!Serve, Seen

(* A step that leaves rows, snapshot and requests alone is a stutter.       *)
LEMMA StutterStep ==
  ASSUME UNCHANGED <<written, snapshot, loads>>
  PROVE  UNCHANGED Service!serviceVars
BY DEF Service!serviceVars

LEMMA ServerStep ==
  ASSUME SnapshotInv, [Next]_vars
  PROVE  [Service!ServiceNext]_(Service!serviceVars)
<1>0. SnapshotInv'
  BY InvStep
<1> USE <1>0, SnapshotAssumption
<1>1. CASE WriteRows
  BY <1>1 DEF WriteRows, SnapshotInv, TypeOK, Runs, Service!ServiceNext, Service!ServiceStep,
              Service!WriteRows
<1>2. CASE NoteRun \/ FreshnessAges \/ UNCHANGED vars
  BY <1>2, StutterStep DEF NoteRun, FreshnessAges, vars, db
<1>3. CASE SnapshotAges
  BY <1>3 DEF SnapshotAges, db, SnapshotInv, TypeOK, Service!serviceVars
<1>4. ASSUME NEW b \in Build, BuildReads(b)
      PROVE  UNCHANGED Service!serviceVars
  BY <1>4, StutterStep DEF BuildReads, db
<1>5. ASSUME NEW b \in Build, BuildEnds(b)
      PROVE  Service!Serve
  <2>1. CASE BuildDone(b)
    <3>1. /\ written' = written /\ snapshot'.stats = builds[b].stats
          /\ snapshot.stats <= builds[b].stats
      BY <2>1 DEF BuildDone, db, SnapshotInv, BuildsForward
    <3>2. ASSUME NEW l \in Load, loads'[l] # loads[l]
          PROVE  loads[l].pc = "waits" /\ loads'[l].pc = "done" /\ loads'[l].stats = snapshot'.stats
      BY <2>1, <3>1, <3>2 DEF BuildDone, LoadsAwaiting
    <3>3. QED
      BY <3>1, <3>2, ServeStep
  <2>2. CASE BuildFails(b)
    <3>1. /\ written' = written /\ snapshot' = snapshot /\ snapshot.stats \in Nat
      BY <2>2 DEF BuildFails, db, SnapshotInv, TypeOK, Runs
    <3>2. ASSUME NEW l \in Load, loads'[l] # loads[l]
          PROVE  loads[l].pc = "waits" /\ loads'[l].pc = "failed"
      BY <2>2, <3>2 DEF BuildFails, LoadsAwaiting
    <3>3. QED
      BY <3>1, <3>2, ServeStep
  <2>3. QED
    BY <1>5, <2>1, <2>2 DEF BuildEnds
<1>6. ASSUME NEW l \in Load, LoadStep(l)
      PROVE  Service!Serve
  <2>1. /\ written' = written /\ snapshot' = snapshot /\ snapshot.stats \in Nat
    <3>1. UNCHANGED <<written, snapshot>>
      BY <1>6 DEF LoadStep, LoadServed, LoadServedOld, LoadWaits, LoadRefused, db
    <3>2. QED
      BY <3>1 DEF SnapshotInv, TypeOK, Runs
  <2>2. loads[l].pc = "sent" /\ \A x \in Load \ {l} : loads'[x] = loads[x]
    BY <1>6 DEF LoadStep, LoadServed, LoadServedOld, LoadWaits, LoadRefused, Answer,
                SnapshotInv, TypeOK
  <2>3. \/ loads'[l].pc = "waits"
        \/ loads'[l].pc = "failed"
        \/ loads'[l].pc = "done" /\ loads'[l].stats \in {Blank, snapshot'.stats}
    <3>1. CASE LoadServed(l) \/ LoadServedOld(l)
      BY <2>1, <3>1 DEF LoadServed, LoadServedOld, Answer, SnapshotInv, TypeOK
    <3>2. CASE LoadWaits(l)
      BY <3>2 DEF LoadWaits, SnapshotInv, TypeOK, LoadState
    <3>3. CASE LoadRefused(l)
      BY <3>3 DEF LoadRefused, SnapshotInv, TypeOK
    <3>4. QED
      BY <1>6, <3>1, <3>2, <3>3 DEF LoadStep
  <2>4. QED
    BY <2>1, <2>2, <2>3, ServeStep
<1>7. ASSUME NEW l \in Load, LoadArrives(l)
      PROVE  Service!Call({l})
  <2>1. /\ loads[l].pc = "idle" /\ loads[l].stats = Blank /\ UNCHANGED <<written, snapshot>>
    BY <1>7 DEF LoadArrives, db, SnapshotInv, NotAnsweredYet
  <2>2. /\ \A x \in Load \ {l} : loads'[x] = loads[x]
        /\ loads'[l].pc = "sent" /\ loads'[l].stats = Blank
    BY <1>7, <2>1 DEF LoadArrives, SnapshotInv, TypeOK, LoadState
  <2>3. QED
    BY <2>1, <2>2 DEF Service!Call, Service!Requests, Service!Sent, Service!Blank, Blank
<1>8. ASSUME NEW l \in Load, LoadTaken(l)
      PROVE  Service!Take(l)
  <2>1. loads[l].pc \in {"done", "failed"} /\ UNCHANGED <<written, snapshot>>
    BY <1>8 DEF LoadTaken, db
  <2>2. /\ \A x \in Load \ {l} : loads'[x] = loads[x]
        /\ loads'[l].pc = "idle" /\ loads'[l].stats = Blank
    BY <1>8 DEF LoadTaken, NoLoad, SnapshotInv, TypeOK
  <2>3. QED
    BY <2>1, <2>2 DEF Service!Take, Service!Answered, Service!NoLoad, Service!Blank, Blank
<1>9. ASSUME NEW a \in Asker, AskHit(a) \/ AskMiss(a) \/ AskTaken(a) \/ AskStep(a)
      PROVE  UNCHANGED Service!serviceVars
  BY <1>9, StutterStep DEF AskHit, AskMiss, AskTaken, AskStep, AskReads, AskStores, AskFails, db
<1>10. QED
  <2>1. Service!Serve => Service!ServiceNext
    BY DEF Service!ServiceNext, Service!ServiceStep
  <2>2. \A l \in Load : Service!Call({l}) \/ Service!Take(l) => Service!ServiceNext
    BY DEF Service!ServiceNext, Service!CallerStep
  <2>3. QED
    BY <1>1, <1>2, <1>3, <1>4, <1>5, <1>6, <1>7, <1>8, <1>9, <2>1, <2>2
       DEF Next, Scheduler, Ages, Clients

(* Whichever requests, builds and failures overlap, the answers are those   *)
(* DashboardService promises: never older than what was served before.      *)
THEOREM ServiceImplemented == Spec => RefinesService
<1>1. Init => Service!ServiceInit
  <2> SUFFICES ASSUME Init
               PROVE  Service!ServiceInit
    OBVIOUS
  <2>2. written \in Service!Runs /\ snapshot.stats = 0
    BY DEF Init, Runs, Service!Runs, NoSnapshot
  <2>3. QED
    BY <2>2 DEF Init, NoLoad, Blank, Service!ServiceInit, Service!NoLoad, Service!Blank
<1>2. SnapshotInv /\ [Next]_vars => [Service!ServiceNext]_(Service!serviceVars)
  BY ServerStep
<1>3. QED
  BY <1>1, <1>2, Invariance, PTL DEF Spec, Safety, RefinesService, Service!ServiceSpec

-----------------------------------------------------------------------------
(***************************************************************************)
(* The limiter.  What an attempt waits under is a window that ended, or    *)
(* the row's; so a window that opens has nobody under it.                  *)
(***************************************************************************)
Book == [failed : Nat, standing : Nat, strays : Nat]

LimiterTypes ==
  /\ now \in Nat
  /\ row \in [hits : Nat, reset : Nat]
  /\ req \in [Attempt -> [st : {"idle", "asking", "landing"}, under : Nat]]
  /\ book \in Book

UnderPast ==
  \A r \in Attempt : req[r].under <= IF row.reset = 0 THEN now ELSE row.reset

\* Attempts that stand are told by the hits, but for the strays; those under way
\* and those that failed stand.
Balance ==
  row.reset # 0 =>
    /\ row.hits <= book.standing
    /\ book.standing <= row.hits + book.strays
    /\ book.failed + Cardinality(Asking) + Cardinality(Landing) <= book.standing
    /\ book.failed + Cardinality(Asking) + Cardinality(Landing) <= Limit + book.strays

LimiterInv == LimiterTypes /\ UnderPast /\ Balance

LEMMA AskingFinite ==
  /\ IsFiniteSet(Asking) /\ Cardinality(Asking) \in Nat
  /\ IsFiniteSet(Landing) /\ Cardinality(Landing) \in Nat
<1>1. Asking \subseteq Attempt /\ Landing \subseteq Attempt
  BY DEF Asking, Landing
<1> QED
  BY <1>1, LimiterAssumption, FS_Subset, FS_CardinalityType

\* The row after an attempt is counted, and its book: either the window goes on,
\* or a new one opens.
LEMMA Counting ==
  ASSUME LimiterInv
  PROVE  /\ Incremented \in [hits : Nat, reset : Nat]
         /\ Counted \in Book
         /\ Incremented.reset # 0
         /\ Opens => /\ Incremented = [hits |-> 1, reset |-> now + Window]
                     /\ Counted = [failed |-> 0, standing |-> 1, strays |-> 0]
                     /\ \A r \in Attempt : req[r].under < Incremented.reset
         /\ ~Opens => /\ Incremented = [row EXCEPT !.hits = @ + 1]
                      /\ Counted = [book EXCEPT !.standing = @ + 1]
                      /\ row.reset # 0
                      /\ \A r \in Attempt : req[r].under <= Incremented.reset
<1>1. now \in Nat /\ Window \in Nat \ {0} /\ row.reset \in Nat /\ row.hits \in Nat
  BY LimiterAssumption DEF LimiterInv, LimiterTypes
<1>2. CASE Opens
  <2>1. Incremented = [hits |-> 1, reset |-> now + Window]
    BY <1>2 DEF Incremented, Opens
  <2>2. Counted = [failed |-> 0, standing |-> 1, strays |-> 0]
    BY <1>2 DEF Counted, BookNow, NewBook
  <2>3. ASSUME NEW r \in Attempt PROVE req[r].under < Incremented.reset
    <3>1. req[r].under <= (IF row.reset = 0 THEN now ELSE row.reset) /\ req[r].under \in Nat
      BY DEF LimiterInv, UnderPast, LimiterTypes
    <3> QED BY <1>1, <1>2, <2>1, <3>1 DEF Opens
  <2> QED BY <1>1, <1>2, <2>1, <2>2, <2>3 DEF Book
<1>3. CASE ~Opens
  <2>1. Incremented = [row EXCEPT !.hits = @ + 1] /\ row.reset # 0
    BY <1>3 DEF Incremented, Opens
  <2>2. Counted = [book EXCEPT !.standing = @ + 1]
    BY <1>3 DEF Counted, BookNow
  <2>3. Incremented.reset = row.reset
    BY <2>1 DEF LimiterInv, LimiterTypes
  <2>4. \A r \in Attempt : req[r].under <= Incremented.reset
    BY <2>1, <2>3 DEF LimiterInv, UnderPast
  <2>5. Incremented \in [hits : Nat, reset : Nat] /\ Counted \in Book
    BY <2>1, <2>2 DEF LimiterInv, LimiterTypes, Book
  <2> QED BY <1>3, <2>1, <2>2, <2>3, <2>4, <2>5
<1> QED BY <1>2, <1>3

LEMMA LimiterInitially == LimiterInit => LimiterInv
<1> SUFFICES ASSUME LimiterInit PROVE LimiterInv
  OBVIOUS
<1>1. LimiterTypes
  BY DEF LimiterInit, LimiterTypes, NoRow, Idle, NewBook, Book
<1>2. UnderPast /\ Balance
  BY DEF LimiterInit, UnderPast, Balance, NoRow, Idle
<1> QED BY <1>1, <1>2 DEF LimiterInv

LEMMA Admitted ==
  ASSUME LimiterInv, NEW r \in Attempt, Admit(r)
  PROVE  LimiterInv'
<1> DEFINE q == [st |-> "asking", under |-> Incremented.reset]
<1>1. /\ now \in Nat /\ Limit \in Nat /\ Window \in Nat \ {0}
      /\ row' = Incremented /\ book' = Counted /\ now' = now
      /\ req' = [req EXCEPT ![r] = q] /\ req[r].st = "idle"
      /\ Incremented.hits <= Limit
  BY LimiterAssumption, Counting DEF LimiterInv, LimiterTypes, Admit, Over
<1>2. /\ row' \in [hits : Nat, reset : Nat] /\ row'.reset \in Nat \ {0} /\ book' \in Book
  BY <1>1, Counting
<1>3. req' \in [Attempt -> [st : {"idle", "asking", "landing"}, under : Nat]]
  BY <1>1, <1>2 DEF LimiterInv, LimiterTypes
<1>4. LimiterTypes'
  BY <1>1, <1>2, <1>3 DEF LimiterTypes
<1>5. UnderPast'
  <2> SUFFICES ASSUME NEW s \in Attempt PROVE req'[s].under <= row'.reset
    BY <1>2 DEF UnderPast
  <2>1. CASE s = r
    BY <2>1, <1>1, <1>2 DEF LimiterInv, LimiterTypes
  <2>2. CASE s # r
    <3>1. req'[s] = req[s] /\ req[s].under \in Nat
      BY <2>2, <1>1 DEF LimiterInv, LimiterTypes
    <3> QED BY <3>1, <1>1, <1>2, Counting
  <2> QED BY <2>1, <2>2
<1>6. Balance'
  <2>1. CASE Opens
    <3>1. Asking' = {r} /\ Landing' = {}
      BY <1>1, <2>1, Counting DEF LimiterInv, LimiterTypes, Asking, Landing
    <3>2. row' = [hits |-> 1, reset |-> now + Window]
          /\ book' = [failed |-> 0, standing |-> 1, strays |-> 0]
      BY <1>1, <2>1, Counting
    <3>3. Cardinality(Asking') = 1 /\ Cardinality(Landing') = 0
      BY <3>1, FS_Singleton, FS_EmptySet
    <3>4. 1 <= Limit
      BY <1>1, <3>2
    <3> QED BY <1>1, <3>2, <3>3, <3>4 DEF Balance
  <2>2. CASE ~Opens
    <3>1. /\ row'.hits = row.hits + 1 /\ row'.reset = row.reset /\ row.reset # 0
          /\ book'.failed = book.failed /\ book'.standing = book.standing + 1
          /\ book'.strays = book.strays
      BY <1>1, <2>2, Counting DEF LimiterInv, LimiterTypes, Book
    <3>2. Asking' = Asking \cup {r} /\ r \notin Asking /\ Landing' = Landing
      BY <1>1, <3>1 DEF LimiterInv, LimiterTypes, Asking, Landing
    <3>3. Cardinality(Asking') = Cardinality(Asking) + 1 /\ Cardinality(Landing') = Cardinality(Landing)
      BY <3>2, AskingFinite, FS_AddElement
    <3>4. Balance /\ row.hits \in Nat /\ book.failed \in Nat /\ book.standing \in Nat /\ book.strays \in Nat
      BY DEF LimiterInv, LimiterTypes, Book
    <3> QED BY <1>1, <3>1, <3>3, <3>4, AskingFinite DEF Balance
  <2> QED BY <2>1, <2>2
<1> QED BY <1>4, <1>5, <1>6 DEF LimiterInv

\* An attempt that is counted and answered at once, or let through with a wait
\* that is under no window.
LEMMA CountedOnly ==
  ASSUME LimiterInv, NEW r \in Attempt, req[r].st = "idle",
         row' = Incremented, book' = Counted, now' = now,
         req' = req \/ req' = [req EXCEPT ![r] = [st |-> "asking", under |-> 0]]
  PROVE  LimiterInv'
<1>1. now \in Nat /\ Limit \in Nat /\ Window \in Nat \ {0}
  BY LimiterAssumption DEF LimiterInv, LimiterTypes
<1>2. /\ row' \in [hits : Nat, reset : Nat] /\ row'.reset \in Nat \ {0} /\ book' \in Book
  BY Counting
<1>3. req' \in [Attempt -> [st : {"idle", "asking", "landing"}, under : Nat]]
  BY <1>1 DEF LimiterInv, LimiterTypes
<1>4. LimiterTypes'
  BY <1>1, <1>2, <1>3 DEF LimiterTypes
<1>5. \A s \in Attempt : req'[s] = req[s] \/ (s = r /\ req'[s].under = 0)
  BY DEF LimiterInv, LimiterTypes
<1>6. \A s \in Attempt : req[s].under <= row'.reset /\ (Opens => req[s].under < row'.reset)
  <2>1. CASE Opens
    <3>1. \A s \in Attempt : req[s].under \in Nat
      BY DEF LimiterInv, LimiterTypes
    <3> QED BY <2>1, <3>1, <1>2, Counting
  <2>2. CASE ~Opens
    BY <2>2, Counting
  <2> QED BY <2>1, <2>2
<1>7. UnderPast'
  <2> SUFFICES ASSUME NEW s \in Attempt PROVE req'[s].under <= row'.reset
    BY <1>2 DEF UnderPast
  <2> QED BY <1>2, <1>5, <1>6
<1>8. Balance'
  <2>1. CASE Opens
    <3>0. \A s \in Attempt : req'[s].under # row'.reset
      <4> SUFFICES ASSUME NEW s \in Attempt PROVE req'[s].under # row'.reset
        OBVIOUS
      <4>1. req[s].under \in Nat /\ req[s].under < row'.reset
        BY <2>1, <1>6 DEF LimiterInv, LimiterTypes
      <4> QED BY <4>1, <1>2, <1>5
    <3>1. Asking' = {} /\ Landing' = {}
      BY <3>0 DEF Asking, Landing
    <3>2. row' = [hits |-> 1, reset |-> now + Window]
          /\ book' = [failed |-> 0, standing |-> 1, strays |-> 0]
      BY <2>1, Counting
    <3>3. Cardinality(Asking') = 0 /\ Cardinality(Landing') = 0
      BY <3>1, FS_EmptySet
    <3> QED BY <1>1, <3>2, <3>3 DEF Balance
  <2>2. CASE ~Opens
    <3>1. /\ row'.hits = row.hits + 1 /\ row'.reset = row.reset /\ row.reset # 0
          /\ book'.failed = book.failed /\ book'.standing = book.standing + 1
          /\ book'.strays = book.strays
      BY <2>2, Counting DEF LimiterInv, LimiterTypes, Book
    <3>2. Asking' = Asking /\ Landing' = Landing
      BY <3>1, <1>5 DEF LimiterInv, LimiterTypes, Asking, Landing
    <3>3. Balance /\ row.hits \in Nat /\ book.failed \in Nat /\ book.standing \in Nat /\ book.strays \in Nat
      BY DEF LimiterInv, LimiterTypes, Book
    <3> QED BY <1>1, <3>1, <3>2, <3>3, AskingFinite DEF Balance
  <2> QED BY <2>1, <2>2
<1> QED BY <1>4, <1>7, <1>8 DEF LimiterInv

\* What the end of an attempt does to those who ask and who land.
LEMMA Leaves ==
  ASSUME LimiterInv, NEW r \in Attempt, req' = [req EXCEPT ![r] = Idle],
         row'.reset = row.reset, row.reset # 0
  PROVE  /\ Cardinality(Asking') =
              IF r \in Asking THEN Cardinality(Asking) - 1 ELSE Cardinality(Asking)
         /\ Cardinality(Landing') =
              IF r \in Landing THEN Cardinality(Landing) - 1 ELSE Cardinality(Landing)
<1>1. Asking' = Asking \ {r} /\ Landing' = Landing \ {r}
  BY DEF LimiterInv, LimiterTypes, Idle, Asking, Landing
<1> QED BY <1>1, AskingFinite, FS_RemoveElement

LEMMA IdleTypes ==
  ASSUME LimiterInv, NEW r \in Attempt, req' = [req EXCEPT ![r] = Idle],
         now' = now, row'.reset = row.reset
  PROVE  /\ req' \in [Attempt -> [st : {"idle", "asking", "landing"}, under : Nat]]
         /\ UnderPast'
<1>1. /\ req' \in [Attempt -> [st : {"idle", "asking", "landing"}, under : Nat]]
      /\ \A s \in Attempt : req'[s].under = req[s].under \/ req'[s].under = 0
  BY DEF LimiterInv, LimiterTypes, Idle
<1>2. \A s \in Attempt : req[s].under <= IF row.reset = 0 THEN now ELSE row.reset
  BY DEF LimiterInv, UnderPast
<1>3. now \in Nat /\ row.reset \in Nat
  BY DEF LimiterInv, LimiterTypes
<1>4. UnderPast'
  <2> SUFFICES ASSUME NEW s \in Attempt
               PROVE  req'[s].under <= IF row.reset = 0 THEN now ELSE row.reset
    BY DEF UnderPast
  <2> QED BY <1>1, <1>2, <1>3
<1> QED BY <1>1, <1>4

LEMMA Failed ==
  ASSUME LimiterInv, NEW r \in Attempt, Fail(r)
  PROVE  LimiterInv'
<1>1. /\ req' = [req EXCEPT ![r] = Idle] /\ row' = row /\ now' = now /\ req[r].st = "asking"
      /\ book' = IF req[r].under = row.reset /\ row.reset # 0
                   THEN [book EXCEPT !.failed = @ + 1] ELSE book
  BY DEF Fail
<1>2. LimiterTypes'
  <2>1. book' \in Book
    BY <1>1 DEF LimiterInv, LimiterTypes, Book
  <2> QED BY <1>1, <2>1, IdleTypes DEF LimiterInv, LimiterTypes
<1>3. UnderPast'
  BY <1>1, IdleTypes
<1>4. Balance'
  <2> SUFFICES ASSUME row.reset # 0 PROVE Balance'
    BY <1>1 DEF Balance
  <2>1. Balance /\ row.hits \in Nat /\ book.failed \in Nat /\ book.standing \in Nat /\ book.strays \in Nat
        /\ Limit \in Nat
    BY LimiterAssumption DEF LimiterInv, LimiterTypes, Book
  <2>2. r \notin Landing /\ (r \in Asking <=> req[r].under = row.reset)
    BY <1>1 DEF Asking, Landing
  <2>3. Cardinality(Landing') = Cardinality(Landing)
    BY <1>1, <2>2, Leaves
  <2>4. CASE r \in Asking
    <3>1. book'.failed = book.failed + 1 /\ book'.standing = book.standing /\ book'.strays = book.strays
      BY <1>1, <2>2, <2>4 DEF LimiterInv, LimiterTypes, Book
    <3>2. Cardinality(Asking') = Cardinality(Asking) - 1
      BY <1>1, <2>4, Leaves
    <3> QED BY <1>1, <2>1, <2>3, <3>1, <3>2, AskingFinite DEF Balance
  <2>5. CASE r \notin Asking
    <3>1. book' = book
      BY <1>1, <2>2, <2>5
    <3>2. Cardinality(Asking') = Cardinality(Asking)
      BY <1>1, <2>5, Leaves
    <3> QED BY <1>1, <2>1, <2>3, <3>1, <3>2 DEF Balance
  <2> QED BY <2>4, <2>5
<1> QED BY <1>2, <1>3, <1>4 DEF LimiterInv

LEMMA Succeeded ==
  ASSUME LimiterInv, NEW r \in Attempt, Succeed(r)
  PROVE  LimiterInv'
<1>1. row' = row /\ book' = book /\ now' = now /\ req[r].st = "asking"
      /\ req' = [req EXCEPT ![r] = IF req[r].under = 0 THEN Idle ELSE [req[r] EXCEPT !.st = "landing"]]
  BY DEF Succeed
<1>2. /\ req' \in [Attempt -> [st : {"idle", "asking", "landing"}, under : Nat]]
      /\ \A s \in Attempt : req'[s].under = req[s].under /\ (s # r => req'[s] = req[s])
      /\ req[r].under # 0 => req'[r].st = "landing"
  BY <1>1 DEF LimiterInv, LimiterTypes, Idle
<1>3. LimiterTypes'
  BY <1>1, <1>2 DEF LimiterInv, LimiterTypes
<1>4. UnderPast'
  BY <1>1, <1>2 DEF LimiterInv, UnderPast
<1>5. Balance'
  <2> SUFFICES ASSUME row.reset # 0 PROVE Balance'
    BY <1>1 DEF Balance
  <2>1. Balance /\ book.failed \in Nat /\ Limit \in Nat /\ book.strays \in Nat /\ book.standing \in Nat
    BY LimiterAssumption DEF LimiterInv, LimiterTypes, Book
  <2>2. CASE req[r].under = row.reset
    <3>1. Asking' = Asking \ {r} /\ r \in Asking /\ Landing' = Landing \cup {r} /\ r \notin Landing
      BY <1>1, <1>2, <2>2 DEF Asking, Landing
    <3>2. Cardinality(Asking') = Cardinality(Asking) - 1 /\ Cardinality(Landing') = Cardinality(Landing) + 1
      BY <3>1, AskingFinite, FS_AddElement, FS_RemoveElement
    <3> QED BY <1>1, <2>1, <3>2, AskingFinite DEF Balance
  <2>3. CASE req[r].under # row.reset
    <3>1. Asking' = Asking /\ Landing' = Landing
      BY <1>1, <1>2, <2>3 DEF Asking, Landing
    <3> QED BY <1>1, <2>1, <3>1 DEF Balance
  <2> QED BY <2>2, <2>3
<1> QED BY <1>3, <1>4, <1>5 DEF LimiterInv

LEMMA TakenBack ==
  ASSUME LimiterInv, NEW r \in Attempt, TakeBack(r)
  PROVE  LimiterInv'
<1>1. /\ req' = [req EXCEPT ![r] = Idle] /\ now' = now /\ req[r].st = "landing"
      /\ row' = Decremented
      /\ book' = CASE row.reset = 0 -> book
                   [] row.reset # 0 /\ req[r].under = row.reset -> [book EXCEPT !.standing = @ - 1]
                   [] OTHER -> [book EXCEPT !.strays = @ + 1]
  BY DEF TakeBack
<1>2. /\ row'.reset = row.reset /\ row'.hits = (IF row.hits > 0 THEN row.hits - 1 ELSE 0)
      /\ row' \in [hits : Nat, reset : Nat]
  BY <1>1 DEF LimiterInv, LimiterTypes, Decremented
<1>3. UnderPast'
  BY <1>1, <1>2, IdleTypes
<1>4. Balance /\ row.hits \in Nat /\ book.failed \in Nat /\ book.standing \in Nat /\ book.strays \in Nat
      /\ Limit \in Nat /\ book \in Book
  BY LimiterAssumption DEF LimiterInv, LimiterTypes, Book
<1>5. CASE row.reset = 0
  <2>1. book' = book
    BY <1>1, <1>5
  <2>2. LimiterTypes'
    BY <1>1, <1>2, <1>4, <2>1, IdleTypes DEF LimiterInv, LimiterTypes
  <2> QED BY <1>2, <1>3, <1>5, <2>2 DEF LimiterInv, Balance
<1>6. CASE row.reset # 0
  <2>1. r \notin Asking /\ (r \in Landing <=> req[r].under = row.reset)
    BY <1>1 DEF Asking, Landing
  <2>2. Cardinality(Asking') = Cardinality(Asking)
    BY <1>1, <1>2, <1>6, <2>1, Leaves
  <2>3. CASE r \in Landing
    <3>1. book' = [book EXCEPT !.standing = @ - 1]
      BY <1>1, <1>6, <2>1, <2>3
    <3>2. Cardinality(Landing') = Cardinality(Landing) - 1
      BY <1>1, <1>2, <1>6, <2>3, Leaves
    <3>3. Cardinality(Landing) # 0
      BY <2>3, AskingFinite, FS_EmptySet
    <3>4. book.standing >= 1
      BY <1>4, <1>6, <3>3, AskingFinite DEF Balance
    <3>5. book'.failed = book.failed /\ book'.standing = book.standing - 1 /\ book'.strays = book.strays
          /\ book' \in Book
      BY <1>4, <3>1, <3>4 DEF Book
    <3>6. Balance'
      BY <1>2, <1>4, <1>6, <2>2, <3>2, <3>4, <3>5, AskingFinite DEF Balance
    <3>7. LimiterTypes'
      BY <1>1, <1>2, <3>5, IdleTypes DEF LimiterInv, LimiterTypes
    <3> QED BY <1>3, <3>6, <3>7 DEF LimiterInv
  <2>4. CASE r \notin Landing
    <3>1. book' = [book EXCEPT !.strays = @ + 1]
      BY <1>1, <1>6, <2>1, <2>4
    <3>2. Cardinality(Landing') = Cardinality(Landing)
      BY <1>1, <1>2, <1>6, <2>4, Leaves
    <3>3. book'.failed = book.failed /\ book'.standing = book.standing /\ book'.strays = book.strays + 1
          /\ book' \in Book
      BY <1>4, <3>1 DEF Book
    <3>4. Balance'
      BY <1>2, <1>4, <1>6, <2>2, <3>2, <3>3, AskingFinite DEF Balance
    <3>5. LimiterTypes'
      BY <1>1, <1>2, <3>3, IdleTypes DEF LimiterInv, LimiterTypes
    <3> QED BY <1>3, <3>4, <3>5 DEF LimiterInv
  <2> QED BY <2>3, <2>4
<1> QED BY <1>5, <1>6

LEMMA KeptBack ==
  ASSUME LimiterInv, NEW r \in Attempt, NotTakenBack(r)
  PROVE  LimiterInv'
<1>1. req' = [req EXCEPT ![r] = Idle] /\ row' = row /\ now' = now /\ book' = book /\ req[r].st = "landing"
  BY DEF NotTakenBack
<1>2. LimiterTypes' /\ UnderPast'
  BY <1>1, IdleTypes DEF LimiterInv, LimiterTypes
<1>3. Balance'
  <2> SUFFICES ASSUME row.reset # 0 PROVE Balance'
    BY <1>1 DEF Balance
  <2>1. Cardinality(Asking') <= Cardinality(Asking) /\ Cardinality(Landing') <= Cardinality(Landing)
        /\ Cardinality(Asking') \in Int /\ Cardinality(Landing') \in Int
    <3>1. row'.reset = row.reset
      BY <1>1
    <3>2. Cardinality(Asking') \in {Cardinality(Asking), Cardinality(Asking) - 1}
          /\ Cardinality(Landing') \in {Cardinality(Landing), Cardinality(Landing) - 1}
      BY <1>1, <3>1, Leaves
    <3> QED BY <3>2, AskingFinite
  <2>2. Balance /\ book.failed \in Nat /\ Limit \in Nat /\ book.strays \in Nat /\ book.standing \in Nat
    BY LimiterAssumption DEF LimiterInv, LimiterTypes, Book
  <2> QED BY <1>1, <2>1, <2>2, AskingFinite DEF Balance
<1> QED BY <1>2, <1>3 DEF LimiterInv

LEMMA LimiterStep ==
  ASSUME LimiterInv, [LimiterNext]_limiterVars
  PROVE  LimiterInv'
<1>1. ASSUME NEW r \in Attempt, Admit(r) PROVE LimiterInv'
  BY <1>1, Admitted
<1>2. ASSUME NEW r \in Attempt, Refuse(r) PROVE LimiterInv'
  BY <1>2, CountedOnly DEF Refuse
<1>3. ASSUME NEW r \in Attempt, PassUncounted(r) PROVE LimiterInv'
  <2>1. CASE row' = Incremented /\ book' = Counted
    BY <1>3, <2>1, CountedOnly DEF PassUncounted
  <2>2. CASE row' = row /\ book' = book
    <3>1. /\ req' = [req EXCEPT ![r] = [st |-> "asking", under |-> 0]] /\ now' = now
          /\ req[r].st = "idle"
      BY <1>3 DEF PassUncounted
    <3>2. /\ req' \in [Attempt -> [st : {"idle", "asking", "landing"}, under : Nat]]
          /\ \A s \in Attempt : req'[s] = req[s] \/ (s = r /\ req'[s].under = 0)
      BY <3>1 DEF LimiterInv, LimiterTypes
    <3>3. LimiterTypes' /\ UnderPast'
      BY <2>2, <3>1, <3>2 DEF LimiterInv, LimiterTypes, UnderPast
    <3>4. row.reset # 0 => Asking' = Asking /\ Landing' = Landing
      BY <2>2, <3>1, <3>2 DEF Asking, Landing
    <3> QED BY <2>2, <3>3, <3>4 DEF LimiterInv, Balance
  <2> QED BY <1>3, <2>1, <2>2 DEF PassUncounted
<1>4. ASSUME NEW r \in Attempt, Fail(r) PROVE LimiterInv'
  BY <1>4, Failed
<1>5. ASSUME NEW r \in Attempt, Succeed(r) PROVE LimiterInv'
  BY <1>5, Succeeded
<1>6. ASSUME NEW r \in Attempt, TakeBack(r) PROVE LimiterInv'
  BY <1>6, TakenBack
<1>7. ASSUME NEW r \in Attempt, NotTakenBack(r) PROVE LimiterInv'
  BY <1>7, KeptBack
<1>8. CASE Sweep
  <2>1. row' = [hits |-> 0, reset |-> 0] /\ now' = now /\ req' = req
        /\ book' = [failed |-> 0, standing |-> 0, strays |-> 0] /\ row.reset < now - Keep
        /\ row.reset # 0 /\ Keep \in Nat
    BY <1>8, LimiterAssumption DEF Sweep, NoRow, NewBook
  <2>2. LimiterTypes'
    BY <2>1 DEF LimiterInv, LimiterTypes, Book
  <2>3. UnderPast'
    BY <2>1 DEF LimiterInv, LimiterTypes, UnderPast
  <2> QED BY <2>1, <2>2, <2>3 DEF LimiterInv, Balance
<1>9. CASE Tick
  <2>1. now' = now + 1 /\ row' = row /\ req' = req /\ book' = book
    BY <1>9 DEF Tick
  <2>2. LimiterTypes' /\ UnderPast'
    BY <2>1 DEF LimiterInv, LimiterTypes, UnderPast
  <2> QED BY <2>1, <2>2 DEF LimiterInv, Balance, Asking, Landing
<1>10. CASE UNCHANGED limiterVars
  BY <1>10 DEF limiterVars, LimiterInv, LimiterTypes, UnderPast, Balance, Asking, Landing
<1> QED BY <1>1, <1>2, <1>3, <1>4, <1>5, <1>6, <1>7, <1>8, <1>9, <1>10 DEF LimiterNext

\* However many processes count, fail to count and take back, in one window no more
\* passwords are tried than the limit and the strays allow.
THEOREM GuessesAreBounded == LimiterSpec => []GuessesBounded
<1>1. LimiterInv => GuessesBounded
  <2> SUFFICES ASSUME LimiterInv, row.reset # 0
               PROVE  book.failed + Cardinality(Asking) <= Limit + book.strays
    BY DEF GuessesBounded
  <2>1. Balance /\ book.failed \in Nat /\ book.strays \in Nat /\ Limit \in Nat
    BY LimiterAssumption DEF LimiterInv, LimiterTypes, Book
  <2> QED BY <2>1, AskingFinite DEF Balance
<1> QED BY <1>1, LimiterInitially, LimiterStep, PTL DEF LimiterSpec

\* A refusal is for attempts that stand in this very window, and no attempt moves
\* the end of a window that is still open.
THEOREM RefusalsAreFair == LimiterSpec => RefusedFairly
<1> DEFINE A == /\ (\E r \in Attempt : Refuse(r)) => BookNow.standing >= Limit
                /\ row'.reset # row.reset => row.reset <= now /\ row'.reset <= now + Window
<1>1. LimiterInv /\ [LimiterNext]_limiterVars => [A]_limiterVars
  <2> SUFFICES ASSUME LimiterInv, LimiterNext PROVE A
    OBVIOUS
  <2>1. /\ Limit \in Nat /\ Window \in Nat \ {0} /\ Keep \in Nat /\ now \in Nat /\ row.reset \in Nat
        /\ row.hits \in Nat /\ book \in Book
    BY LimiterAssumption DEF LimiterInv, LimiterTypes
  <2>2. ASSUME NEW r \in Attempt, Refuse(r) PROVE BookNow.standing >= Limit
    <3>0. Incremented.hits > Limit
      BY <2>2 DEF Refuse, Over
    <3>1. CASE Opens
      <4>1. Incremented.hits = 1
        BY <3>1, Counting
      <4>2. BookNow.standing = 0
        BY <3>1 DEF BookNow, NewBook
      <4> QED BY <2>1, <3>0, <4>1, <4>2
    <3>2. CASE ~Opens
      <4>1. BookNow = book /\ row.reset # 0
        BY <3>2 DEF BookNow, Opens
      <4>2. Incremented.hits = row.hits + 1
        BY <2>1, <3>2, Counting DEF LimiterInv, LimiterTypes
      <4>3. row.hits <= book.standing /\ book.standing \in Nat
        BY <2>1, <4>1 DEF LimiterInv, Balance, Book
      <4> QED BY <2>1, <3>0, <4>1, <4>2, <4>3
    <3> QED BY <3>1, <3>2
  <2>3. ASSUME row'.reset # row.reset PROVE row.reset <= now /\ row'.reset <= now + Window
    <3>1. row' = Incremented \/ row' = row \/ row' = Decremented \/ Sweep
      BY DEF LimiterNext, Admit, Refuse, PassUncounted, Fail, Succeed, TakeBack, NotTakenBack, Tick
    <3>2. Decremented.reset = row.reset
      BY DEF LimiterInv, LimiterTypes, Decremented
    <3>3. CASE row' = Incremented
      <4>1. CASE Opens
        BY <2>1, <3>3, <4>1, Counting DEF Opens
      <4>2. CASE ~Opens
        <5>1. Incremented.reset = row.reset
          BY <4>2, Counting DEF LimiterInv, LimiterTypes
        <5> QED BY <2>3, <3>3, <5>1
      <4> QED BY <4>1, <4>2
    <3>4. CASE Sweep
      <4>1. row'.reset = 0 /\ row.reset < now - Keep
        BY <3>4 DEF Sweep, NoRow
      <4> QED BY <2>1, <4>1
    <3> QED BY <2>3, <3>1, <3>2, <3>3, <3>4
  <2> QED BY <2>2, <2>3
<1>2. LimiterSpec => [][A]_limiterVars
  BY <1>1, LimiterInitially, LimiterStep, PTL DEF LimiterSpec
<1> QED BY <1>2 DEF RefusedFairly

-----------------------------------------------------------------------------
(***************************************************************************)
(* A server that starts.  A file it has passed is there or was skipped; it *)
(* is up when it has passed them all, or failed at the one it stands at.   *)
(***************************************************************************)
Server ==
  [st : {"down", "next", "running", "queued", "behind", "up"}, file : Nat \ {0},
   said : [File -> {"nothing", "ran", "skipped", "applied", "failed"}], starts : Nat]

PassedIsTold ==
  \A i \in Instance : \A f \in File :
    f < F(i) /\ f \notin there => inst[i].said[f] = "skipped"

UpAtTheEnd ==
  \A i \in Instance : At(i, "up") => F(i) \notin File \/ inst[i].said[F(i)] = "failed"

BusyWithAFile ==
  \A i \in Instance : inst[i].st \in {"running", "queued", "behind"} => F(i) \in File

MigrationsInv ==
  inst \in [Instance -> Server] /\ PassedIsTold /\ UpAtTheEnd /\ BusyWithAFile

LEMMA MigrationsInitially == MigrationsInit => MigrationsInv
<1> SUFFICES ASSUME MigrationsInit PROVE MigrationsInv
  OBVIOUS
<1>1. inst = [i \in Instance |-> Down(0)]
  BY DEF MigrationsInit
<1>2. Down(0) \in Server /\ Down(0).st = "down" /\ Down(0).file = 1
  BY DEF Down, Server
<1>3. \A f \in File : ~(f < 1)
  BY MigrationsAssumption DEF File
<1> QED BY <1>1, <1>2, <1>3 DEF MigrationsInv, PassedIsTold, UpAtTheEnd, BusyWithAFile, At, F

\* A step of one instance, after which all it passed is told, is a step of the
\* invariant: what is there stays there.
LEMMA OneServer ==
  ASSUME MigrationsInv, NEW i \in Instance, NEW s \in Server,
         inst' = [inst EXCEPT ![i] = s], there \subseteq there',
         \A f \in File : f < s.file /\ f \notin there' => s.said[f] = "skipped",
         s.st = "up" => s.file \notin File \/ s.said[s.file] = "failed",
         s.st \in {"running", "queued", "behind"} => s.file \in File
  PROVE  MigrationsInv'
<1>1. inst' \in [Instance -> Server] /\ \A j \in Instance : inst'[j] = IF j = i THEN s ELSE inst[j]
  BY DEF MigrationsInv
<1> QED BY <1>1 DEF MigrationsInv, PassedIsTold, UpAtTheEnd, BusyWithAFile, At, F

LEMMA MigrationsStep ==
  ASSUME MigrationsInv, [MigrationsNext]_migrationVars
  PROVE  MigrationsInv'
<1>0. /\ \A i \in Instance : inst[i] \in Server
      /\ \A i \in Instance : \A f \in File :
           f < inst[i].file /\ f \notin there => inst[i].said[f] = "skipped"
  BY DEF MigrationsInv, PassedIsTold, F
<1>1. ASSUME NEW i \in Instance, NEW st \in {"next", "running", "queued", "behind"},
             inst' = [inst EXCEPT ![i].st = st], there' = there, F(i) \in File
      PROVE  MigrationsInv'
  <2> DEFINE s == [inst[i] EXCEPT !.st = st]
  <2>1. s \in Server /\ s.file = inst[i].file /\ s.said = inst[i].said /\ s.st # "up"
    BY <1>0 DEF Server
  <2>2. inst' = [inst EXCEPT ![i] = s]
    BY <1>1
  <2>3. \A f \in File : f < s.file /\ f \notin there' => s.said[f] = "skipped"
    BY <1>0, <1>1, <2>1
  <2>4. s.file \in File /\ there \subseteq there'
    BY <1>1, <2>1 DEF F
  <2> HIDE DEF s
  <2> QED BY <2>1, <2>2, <2>3, <2>4, OneServer
<1>2. ASSUME NEW i \in Instance, NEW what \in {"ran", "skipped", "applied"}, F(i) \in File,
             Says(i, what), there \subseteq there', what # "skipped" => F(i) \in there'
      PROVE  MigrationsInv'
  <2> DEFINE s == [st |-> "next", file |-> F(i) + 1,
                   said |-> [inst[i].said EXCEPT ![F(i)] = what], starts |-> inst[i].starts]
  <2>1. inst' = [inst EXCEPT ![i] = s] /\ inst[i] \in Server
    BY <1>0, <1>2 DEF Says
  <2>2. s.st = "next" /\ s.file = inst[i].file + 1 /\ s.said = [inst[i].said EXCEPT ![F(i)] = what]
    BY DEF F
  <2>3. s \in Server
    BY <1>2, <2>1 DEF Server, F
  <2>4. ASSUME NEW f \in File, f < s.file, f \notin there' PROVE s.said[f] = "skipped"
    <3>1. f \in Nat /\ F(i) \in Nat
      BY <2>1, MigrationsAssumption DEF File, F, Server
    <3>2. CASE f = F(i)
      BY <1>2, <2>1, <2>2, <2>4, <3>2 DEF Server
    <3>3. CASE f # F(i)
      <4>1. f < inst[i].file
        BY <2>2, <2>4, <3>1, <3>3 DEF F
      <4>2. inst[i].said[f] = "skipped"
        BY <1>0, <1>2, <2>4, <4>1
      <4> QED BY <2>1, <2>2, <3>3, <4>2 DEF Server
    <3> QED BY <3>2, <3>3
  <2>5. s.st # "up" /\ s.st \notin {"running", "queued", "behind"}
    BY <2>2
  <2> HIDE DEF s
  <2> QED BY <1>2, <2>1, <2>3, <2>4, <2>5, OneServer
<1>3. ASSUME NEW i \in Instance, Start(i) PROVE MigrationsInv'
  <2> DEFINE s == [Down(inst[i].starts + 1) EXCEPT !.st = "next"]
  <2>1. inst' = [inst EXCEPT ![i] = s] /\ there' = there
    BY <1>3 DEF Start
  <2>2. s \in Server /\ s.file = 1 /\ s.st = "next"
    BY <1>0 DEF Down, Server
  <2>3. \A f \in File : ~(f < 1)
    BY MigrationsAssumption DEF File
  <2> QED BY <2>1, <2>2, <2>3, OneServer
<1>4. ASSUME NEW i \in Instance, Send(i) PROVE MigrationsInv'
  BY <1>1, <1>4 DEF Send
<1>5. ASSUME NEW i \in Instance, SendAndWait(i) PROVE MigrationsInv'
  <2>1. (IF F(i) \in used THEN "queued" ELSE "behind") \in {"next", "running", "queued", "behind"}
    OBVIOUS
  <2> QED BY <1>1, <1>5, <2>1 DEF SendAndWait
<1>6. ASSUME NEW i \in Instance, Commit(i) PROVE MigrationsInv'
  BY <1>2, <1>6 DEF Commit, MigrationsInv, BusyWithAFile, At
<1>7. ASSUME NEW i \in Instance, TimeOut(i) PROVE MigrationsInv'
  BY <1>2, <1>7 DEF TimeOut, Waiting, MigrationsInv, BusyWithAFile, At
<1>8. ASSUME NEW i \in Instance, Woken(i) PROVE MigrationsInv'
  BY <1>1, <1>2, <1>8 DEF Woken, Duplicate, Waiting, MigrationsInv, BusyWithAFile, At
<1>9. ASSUME NEW i \in Instance, Break(i) PROVE MigrationsInv'
  <2> DEFINE s == [st |-> "up", file |-> F(i),
                   said |-> [inst[i].said EXCEPT ![F(i)] = "failed"], starts |-> inst[i].starts]
  <2>1. inst' = [inst EXCEPT ![i] = s] /\ inst[i] \in Server /\ there' = there /\ F(i) \in File
    BY <1>0, <1>9 DEF Break, GivesUp
  <2>2. /\ s.st = "up" /\ s.file = inst[i].file
        /\ s.said = [inst[i].said EXCEPT ![F(i)] = "failed"]
    BY DEF F
  <2>3. s \in Server /\ s.said[s.file] = "failed"
    BY <2>1 DEF Server, F
  <2>4. ASSUME NEW f \in File, f < s.file, f \notin there' PROVE s.said[f] = "skipped"
    <3>1. f # F(i)
      BY <2>2, <2>4, MigrationsAssumption DEF File, F
    <3>2. inst[i].said[f] = "skipped"
      BY <1>0, <2>1, <2>2, <2>4
    <3> QED BY <2>1, <2>2, <3>1, <3>2 DEF Server
  <2>5. s.st \notin {"running", "queued", "behind"}
    BY <2>2
  <2> HIDE DEF s
  <2> QED BY <2>1, <2>3, <2>4, <2>5, OneServer
<1>10. ASSUME NEW i \in Instance, Listen(i) PROVE MigrationsInv'
  <2> DEFINE s == [inst[i] EXCEPT !.st = "up"]
  <2>1. s \in Server /\ s.file = inst[i].file /\ s.said = inst[i].said /\ s.file \notin File
    BY <1>0, <1>10 DEF Server, Listen, F
  <2>2. inst' = [inst EXCEPT ![i] = s] /\ there' = there
    BY <1>10 DEF Listen
  <2>3. \A f \in File : f < s.file /\ f \notin there' => s.said[f] = "skipped"
    BY <1>0, <2>1, <2>2
  <2>4. s.st \notin {"running", "queued", "behind"}
    BY <1>0 DEF Server
  <2> HIDE DEF s
  <2> QED BY <2>1, <2>2, <2>3, <2>4, OneServer
<1>11. ASSUME NEW i \in Instance, Die(i) PROVE MigrationsInv'
  <2> DEFINE s == Down(inst[i].starts)
  <2>1. inst' = [inst EXCEPT ![i] = s] /\ there' = there
    BY <1>11 DEF Die
  <2>2. s \in Server /\ s.file = 1 /\ s.st = "down"
    BY <1>0 DEF Down, Server
  <2>3. \A f \in File : ~(f < 1)
    BY MigrationsAssumption DEF File
  <2> QED BY <2>1, <2>2, <2>3, OneServer
<1>12. CASE inst' = inst /\ there' = there
  BY <1>12 DEF MigrationsInv, PassedIsTold, UpAtTheEnd, BusyWithAFile, At, F
<1> QED
  BY <1>3, <1>4, <1>5, <1>6, <1>7, <1>8, <1>9, <1>10, <1>11, <1>12
     DEF MigrationsNext, Proceed, Use, Leave, migrationVars

\* A server that is up without the tables of a file has said why, for any number
\* of files, instances and starts.
THEOREM MissingIsAlwaysTold == MigrationsSpec => []MissingIsTold
<1>1. MigrationsInv => MissingIsTold
  <2> SUFFICES ASSUME MigrationsInv, NEW i \in Instance, NEW f \in File,
                      At(i, "up"), f \notin there
               PROVE  \/ inst[i].said[f] \in {"skipped", "failed"}
                      \/ \E e \in 1 .. f - 1 : inst[i].said[e] = "failed"
    BY DEF MissingIsTold
  <2>1. F(i) \in Nat \ {0} /\ Files \in Nat /\ f \in Nat /\ f <= Files
    BY MigrationsAssumption DEF MigrationsInv, Server, F, File
  <2>2. CASE f < F(i)
    BY <2>2 DEF MigrationsInv, PassedIsTold
  <2>3. CASE f >= F(i)
    <3>1. F(i) \in File
      BY <2>1, <2>3 DEF File
    <3>2. inst[i].said[F(i)] = "failed"
      BY <3>1 DEF MigrationsInv, UpAtTheEnd
    <3> QED BY <2>1, <2>3, <3>2
  <2> QED BY <2>1, <2>2, <2>3
<1> QED BY <1>1, MigrationsInitially, MigrationsStep, PTL DEF MigrationsSpec
=============================================================================
