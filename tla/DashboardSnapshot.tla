------------------------- MODULE DashboardSnapshot --------------------------
(***************************************************************************)
(* services/dashboardService.ts in one backend process: the snapshot of    *)
(* the numbers all dashboard pages are served from, the builds that renew  *)
(* it, and the freshness answers that tell the pages when to reload.       *)
(*                                                                         *)
(* The numbers are abstracted to the scheduler run they come from.  The    *)
(* clock is abstracted away: that SNAPSHOT_TTL_MS or FRESHNESS_TTL_MS has  *)
(* passed is a step that may come at any time.                             *)
(***************************************************************************)
EXTENDS Integers

CONSTANTS
  Load,      \* requests for the rows of a node
  Asker,     \* requests for the freshness of the data
  Build,     \* identities of builds, numbers; a new build takes the least free one
  None,      \* no build
  Failures,  \* whether queries and upstream calls may fail
  MaxRun     \* bound on the scheduler's runs

ASSUME SnapshotAssumption ==
  /\ Build \subseteq Nat
  /\ None \notin Build
  /\ Failures \in BOOLEAN
  /\ MaxRun \in Nat

VARIABLES
  run,             \* the last run noted in water_sync_status
  written,         \* the last run whose rows are in water_meter_daily
  snapshot,        \* snapshot, if there is one
  snapshotBuild,   \* snapshotBuild
  builds,          \* the builds under way
  freshnessCache,  \* freshnessCache
  rebuiltForUpdate, \* rebuiltForUpdate
  loads,           \* the requests for rows
  asks             \* the requests for the freshness

db   == <<run, written>>
vars == <<run, written, snapshot, snapshotBuild, builds, freshnessCache,
          rebuiltForUpdate, loads, asks>>

(* Updates are ordered by time: the rows of run k are stamped 2k-1, its end *)
(* is noted at 2k, and 0 stands for the null of a database without rows.   *)
Runs     == 0 .. MaxRun
Update   == 0 .. 2 * MaxRun
Noted    == 2 * run
RowStamp == IF written = 0 THEN 0 ELSE 2 * written - 1
RunOf(u) == (u + 1) \div 2

Blank      == -1   \* the answer [] to a caller who may open no site
NoSnapshot == [stats |-> 0, at |-> "never"]
NoCache    == [value |-> 0, at |-> "never"]
NoBuild    == [pc |-> "free", stats |-> 0]
NoLoad     == [pc |-> "idle", stats |-> Blank, on |-> None]
NoAsk      == [pc |-> "idle", value |-> 0, on |-> None, own |-> FALSE]

Age  == {"never", "fresh", "old"}
Some == Build \cup {None}

BuildState == [pc : {"free", "asked", "read"}, stats : Runs]
LoadState  == [pc : {"idle", "sent", "waits", "done", "failed"},
               stats : Runs \cup {Blank}, on : Some]
AskState   == [pc : {"idle", "query", "read", "rebuild", "answered", "failed"},
               value : Update, on : Some, own : BOOLEAN]

TypeOK ==
  /\ run \in Runs /\ written \in Runs /\ run <= written
  /\ snapshot \in [stats : Runs, at : Age]
  /\ snapshotBuild \in Some
  /\ builds \in [Build -> BuildState]
  /\ freshnessCache \in [value : Update, at : Age]
  /\ rebuiltForUpdate \in Update
  /\ loads \in [Load -> LoadState]
  /\ asks \in [Asker -> AskState]

Exists == snapshot.at # "never"

Init ==
  /\ run \in Runs
  /\ written = run
  /\ snapshot = NoSnapshot
  /\ snapshotBuild = None
  /\ builds = [b \in Build |-> NoBuild]
  /\ freshnessCache = NoCache
  /\ rebuiltForUpdate = 0
  /\ loads = [l \in Load |-> NoLoad]
  /\ asks = [a \in Asker |-> NoAsk]

-----------------------------------------------------------------------------
(* The scheduler: a run writes its rows, then notes its time.              *)

WriteRows ==
  /\ written = run
  /\ written < MaxRun
  /\ written' = written + 1
  /\ UNCHANGED <<run, snapshot, snapshotBuild, builds, freshnessCache,
                 rebuiltForUpdate, loads, asks>>

NoteRun ==
  /\ written = run + 1
  /\ run' = written
  /\ UNCHANGED <<written, snapshot, snapshotBuild, builds, freshnessCache,
                 rebuiltForUpdate, loads, asks>>

SnapshotAges ==
  /\ snapshot.at = "fresh"
  /\ snapshot' = [snapshot EXCEPT !.at = "old"]
  /\ UNCHANGED <<db, snapshotBuild, builds, freshnessCache, rebuiltForUpdate, loads, asks>>

FreshnessAges ==
  /\ freshnessCache.at = "fresh"
  /\ freshnessCache' = [freshnessCache EXCEPT !.at = "old"]
  /\ UNCHANGED <<db, snapshot, snapshotBuild, builds, rebuiltForUpdate, loads, asks>>

-----------------------------------------------------------------------------
(* Builds.                                                                 *)

\* The query is sent.  (Mutant: a build is started even if one is under way.)
StartAnother(b) ==
  /\ builds[b].pc = "free"
  /\ \A c \in Build : c < b => builds[c].pc # "free"
  /\ builds' = [builds EXCEPT ![b].pc = "asked"]
  /\ snapshotBuild' = b

\* startBuild() returns b: the build under way, or a new one.
StartBuild(b) ==
  \/ /\ b = snapshotBuild
     /\ UNCHANGED <<snapshotBuild, builds>>
  \/ /\ snapshotBuild = None
     /\ StartAnother(b)

\* The query STATS_SQL is executed.
BuildReads(b) ==
  /\ builds[b].pc = "asked"
  /\ builds' = [builds EXCEPT ![b] = [pc |-> "read", stats |-> written]]
  /\ UNCHANGED <<db, snapshot, snapshotBuild, freshnessCache, rebuiltForUpdate, loads, asks>>

\* Those that awaited b go on: the requests for rows with `answer`, the askers in any case.
LoadsAwaiting(b, answer) ==
  loads' = [l \in Load |-> IF loads[l].pc = "waits" /\ loads[l].on = b THEN answer
                                                                       ELSE loads[l]]
AskersAwaiting(b, ok) ==
  asks' = [a \in Asker |->
             IF asks[a].pc = "rebuild" /\ asks[a].on = b
               THEN [asks[a] EXCEPT !.pc = "answered", !.on = None, !.own = @ /\ ok]
               ELSE asks[a]]

BuildDone(b) ==
  /\ builds[b].pc = "read"
  /\ snapshot' = [stats |-> builds[b].stats, at |-> "fresh"]
  /\ snapshotBuild' = None
  /\ builds' = [builds EXCEPT ![b] = NoBuild]
  /\ LoadsAwaiting(b, [pc |-> "done", stats |-> builds[b].stats, on |-> None])
  /\ AskersAwaiting(b, TRUE)
  /\ UNCHANGED <<db, freshnessCache, rebuiltForUpdate>>

\* Mutant: a failed build drops the snapshot it was to replace.
BuildFailsAll(b) ==
  /\ Failures
  /\ builds[b].pc # "free"
  /\ snapshot' = NoSnapshot
  /\ snapshotBuild' = None
  /\ builds' = [builds EXCEPT ![b] = NoBuild]
  /\ LoadsAwaiting(b, [pc |-> "failed", stats |-> Blank, on |-> None])
  /\ AskersAwaiting(b, FALSE)
  /\ UNCHANGED <<db, freshnessCache, rebuiltForUpdate>>

BuildFails(b) ==
  /\ Failures
  /\ builds[b].pc # "free"
  /\ snapshotBuild' = None
  /\ builds' = [builds EXCEPT ![b] = NoBuild]
  /\ LoadsAwaiting(b, [pc |-> "failed", stats |-> Blank, on |-> None])
  /\ AskersAwaiting(b, FALSE)
  /\ UNCHANGED <<db, snapshot, freshnessCache, rebuiltForUpdate>>

-----------------------------------------------------------------------------
(* Requests for rows: getSnapshot() after the caller's sites are known.    *)

LoadArrives(l) ==
  /\ loads[l].pc = "idle"
  /\ loads' = [loads EXCEPT ![l].pc = "sent"]
  /\ UNCHANGED <<db, snapshot, snapshotBuild, builds, freshnessCache, rebuiltForUpdate, asks>>

Answer(l) == loads' = [loads EXCEPT ![l] = [pc |-> "done", stats |-> snapshot.stats, on |-> None]]

LoadServed(l) ==
  /\ loads[l].pc = "sent"
  /\ snapshot.at = "fresh"
  /\ Answer(l)
  /\ UNCHANGED <<db, snapshot, snapshotBuild, builds, freshnessCache, rebuiltForUpdate, asks>>

\* The old snapshot is served at once, the new one is built in the background.
LoadServedOld(l) ==
  /\ loads[l].pc = "sent"
  /\ snapshot.at = "old"
  /\ \E b \in Build : StartBuild(b)
  /\ Answer(l)
  /\ UNCHANGED <<db, snapshot, freshnessCache, rebuiltForUpdate, asks>>

\* Mutant: the first request waits for a build that nobody starts.
LoadWaitsOnly(l) ==
  /\ loads[l].pc = "sent"
  /\ ~Exists
  /\ loads' = [loads EXCEPT ![l] = [@ EXCEPT !.pc = "waits", !.on = snapshotBuild]]
  /\ UNCHANGED <<db, snapshot, snapshotBuild, builds, freshnessCache, rebuiltForUpdate, asks>>

LoadWaits(l) ==
  /\ loads[l].pc = "sent"
  /\ ~Exists
  /\ \E b \in Build :
       /\ StartBuild(b)
       /\ loads' = [loads EXCEPT ![l] = [@ EXCEPT !.pc = "waits", !.on = b]]
  /\ UNCHANGED <<db, snapshot, freshnessCache, rebuiltForUpdate, asks>>

\* getAllowedSiteIds: no site on an upstream failure, an error on its 401.
LoadRefused(l) ==
  /\ Failures
  /\ loads[l].pc = "sent"
  /\ \E answer \in {[pc |-> "done", stats |-> Blank, on |-> None],
                    [pc |-> "failed", stats |-> Blank, on |-> None]} :
       loads' = [loads EXCEPT ![l] = answer]
  /\ UNCHANGED <<db, snapshot, snapshotBuild, builds, freshnessCache, rebuiltForUpdate, asks>>

LoadTaken(l) ==
  /\ loads[l].pc \in {"done", "failed"}
  /\ loads' = [loads EXCEPT ![l] = NoLoad]
  /\ UNCHANGED <<db, snapshot, snapshotBuild, builds, freshnessCache, rebuiltForUpdate, asks>>

-----------------------------------------------------------------------------
(* Requests for the freshness: getDataFreshness().                         *)

Rebuilds(u) == Exists /\ u > rebuiltForUpdate

AnswerAsk(a, u) ==
  asks' = [asks EXCEPT ![a] = [NoAsk EXCEPT !.pc = "answered", !.value = u]]

\* Mutant: the rebuild is started and not awaited.
DecideAtOnce(a, u) ==
  \/ /\ Rebuilds(u)
     /\ rebuiltForUpdate' = u
     /\ \E b \in Build :
          /\ StartBuild(b)
          /\ asks' = [asks EXCEPT ![a] = [pc |-> "answered", value |-> u, on |-> None,
                                          own |-> snapshotBuild = None]]
  \/ /\ ~Rebuilds(u)
     /\ AnswerAsk(a, u)
     /\ UNCHANGED <<rebuiltForUpdate, snapshotBuild, builds>>

\* The part after the value is known, up to the await of the rebuild.
Decide(a, u) ==
  \/ /\ Rebuilds(u)
     /\ rebuiltForUpdate' = u
     /\ \E b \in Build :
          /\ StartBuild(b)
          /\ asks' = [asks EXCEPT ![a] = [pc |-> "rebuild", value |-> u, on |-> b,
                                          own |-> snapshotBuild = None]]
  \/ /\ ~Rebuilds(u)
     /\ rebuiltForUpdate' = IF ~Exists /\ u > rebuiltForUpdate THEN u ELSE rebuiltForUpdate
     /\ AnswerAsk(a, u)
     /\ UNCHANGED <<snapshotBuild, builds>>

AskHit(a) ==
  /\ asks[a].pc = "idle"
  /\ freshnessCache.at = "fresh"
  /\ Decide(a, freshnessCache.value)
  /\ UNCHANGED <<db, snapshot, freshnessCache, loads>>

AskMiss(a) ==
  /\ asks[a].pc = "idle"
  /\ freshnessCache.at # "fresh"
  /\ asks' = [asks EXCEPT ![a].pc = "query"]
  /\ UNCHANGED <<db, snapshot, snapshotBuild, builds, freshnessCache, rebuiltForUpdate, loads>>

\* The query is executed; when it fails, the one on the daily rows.
AskReads(a) ==
  /\ asks[a].pc = "query"
  /\ \E u \in {Noted} \cup (IF Failures THEN {RowStamp} ELSE {}) :
       asks' = [asks EXCEPT ![a] = [@ EXCEPT !.pc = "read", !.value = u]]
  /\ UNCHANGED <<db, snapshot, snapshotBuild, builds, freshnessCache, rebuiltForUpdate, loads>>

\* The result comes back, in any order with those of other requests.
AskStores(a) ==
  /\ asks[a].pc = "read"
  /\ freshnessCache' = [value |-> asks[a].value, at |-> "fresh"]
  /\ Decide(a, asks[a].value)
  /\ UNCHANGED <<db, snapshot, loads>>

AskFails(a) ==
  /\ Failures
  /\ asks[a].pc \in {"query", "read"}
  /\ asks' = [asks EXCEPT ![a] = [NoAsk EXCEPT !.pc = "failed"]]
  /\ UNCHANGED <<db, snapshot, snapshotBuild, builds, freshnessCache, rebuiltForUpdate, loads>>

AskTaken(a) ==
  /\ asks[a].pc \in {"answered", "failed"}
  /\ asks' = [asks EXCEPT ![a] = NoAsk]
  /\ UNCHANGED <<db, snapshot, snapshotBuild, builds, freshnessCache, rebuiltForUpdate, loads>>

-----------------------------------------------------------------------------
Scheduler   == WriteRows \/ NoteRun
Ages        == SnapshotAges \/ FreshnessAges
BuildEnds(b) == BuildDone(b) \/ BuildFails(b)
LoadStep(l) == LoadServed(l) \/ LoadServedOld(l) \/ LoadWaits(l) \/ LoadRefused(l)
AskStep(a)  == AskReads(a) \/ AskStores(a) \/ AskFails(a)
Clients     == \/ \E l \in Load : LoadArrives(l) \/ LoadTaken(l)
               \/ \E a \in Asker : AskHit(a) \/ AskMiss(a) \/ AskTaken(a)

Next ==
  \/ Scheduler
  \/ Ages
  \/ Clients
  \/ \E b \in Build : BuildReads(b) \/ BuildEnds(b)
  \/ \E l \in Load : LoadStep(l)
  \/ \E a \in Asker : AskStep(a)

\* Queries and upstream calls end (or time out), and the event loop runs what awaits them.
Fairness ==
  /\ \A b \in Build : WF_vars(BuildReads(b)) /\ WF_vars(BuildEnds(b))
  /\ \A l \in Load : WF_vars(LoadStep(l))
  /\ \A a \in Asker : WF_vars(AskStep(a))

Safety == Init /\ [][Next]_vars
Spec   == Safety /\ Fairness

-----------------------------------------------------------------------------
(* Properties.                                                             *)

(* One build at a time, and it is the one requests share: this is what      *)
(* keeps the snapshot from being replaced by an older one (startBuild).     *)
OneBuild == \A b \in Build : builds[b].pc # "free" => b = snapshotBuild

(* A freshness answer whose request started a rebuild of its own, which     *)
(* succeeded, is kept: what the page asks for next is at least that run.    *)
OwnRebuildCurrent ==
  \A a \in Asker : asks[a].pc = "answered" /\ asks[a].own =>
    snapshot.stats >= RunOf(asks[a].value)

(* Every request is answered, also when the snapshot does not exist yet or  *)
(* its build fails.                                                         *)
EveryRequestAnswered ==
  /\ \A l \in Load : loads[l].pc \in {"sent", "waits"} ~> loads[l].pc \notin {"sent", "waits"}
  /\ \A a \in Asker : asks[a].pc \in {"query", "read", "rebuild"}
                        ~> asks[a].pc \notin {"query", "read", "rebuild"}

(* The answers are those DashboardService promises: never older than what   *)
(* was served before, whichever requests, builds and failures overlap.      *)
Service == INSTANCE DashboardService WITH
  floor <- snapshot.stats,
  loads <- [l \in Load |->
              [pc    |-> IF loads[l].pc = "waits" THEN "sent" ELSE loads[l].pc,
               stats |-> loads[l].stats]]
RefinesService == Service!ServiceSpec
=============================================================================
