-------------------------- MODULE DashboardService --------------------------
(***************************************************************************)
(* What GET /api/dashboard/nodes promises its callers, without saying how: *)
(* every answer is the state of the daily numbers after some scheduler     *)
(* run, that state never goes backwards, and a request gets one answer.    *)
(* The server may be behind the database for as long as it likes.          *)
(***************************************************************************)
EXTENDS Integers

CONSTANTS
  Load,    \* requests for the rows of a node
  MaxRun   \* bound on the scheduler's runs

ASSUME ServiceAssumption == MaxRun \in Nat

VARIABLES
  written,  \* how many runs have written their rows to water_meter_daily
  floor,    \* the run the server's answers are at
  loads     \* the requests and their answers

serviceVars == <<written, floor, loads>>

Blank == -1   \* the answer [] to a caller who may open no site
Runs  == 0 .. MaxRun

NoLoad    == [pc |-> "idle", stats |-> Blank]
LoadState == [pc : {"idle", "sent", "done", "failed"}, stats : Runs \cup {Blank}]

Sent      == [pc |-> "sent", stats |-> Blank]
Failed    == [pc |-> "failed", stats |-> Blank]
Done(run) == [pc |-> "done", stats |-> run]

Answered(l) == loads[l].pc \in {"done", "failed"}

ServiceInit ==
  /\ written \in Runs
  /\ floor = 0
  /\ loads = [l \in Load |-> NoLoad]

WriteRows == /\ written < MaxRun
             /\ written' = written + 1
             /\ UNCHANGED <<floor, loads>>

\* One step of the server: it catches up, or not, and answers any of its callers.
Serve ==
  /\ floor' \in floor .. written
  /\ loads' \in [Load -> LoadState]
  /\ \A l \in Load : \/ loads'[l] = loads[l]
                     \/ /\ loads[l].pc = "sent"
                        /\ loads'[l] \in {Done(floor'), Done(Blank), Failed}
  /\ UNCHANGED written

\* One step of the callers: requests are sent, an answer is taken.
Requests(ls) == loads' = [l \in Load |-> IF l \in ls THEN Sent ELSE loads[l]]

Call(ls) == /\ \A l \in ls : loads[l].pc = "idle"
            /\ Requests(ls)
            /\ UNCHANGED <<written, floor>>

Take(l) == /\ Answered(l)
           /\ loads' = [loads EXCEPT ![l] = NoLoad]
           /\ UNCHANGED <<written, floor>>

ServiceStep == WriteRows \/ Serve
CallerStep  == (\E ls \in SUBSET Load : Call(ls)) \/ (\E l \in Load : Take(l))
ServiceNext == ServiceStep \/ CallerStep

ServiceSpec == ServiceInit /\ [][ServiceNext]_serviceVars
=============================================================================
