------------------------------ MODULE MCServers ------------------------------
(***************************************************************************)
(* What the server processes do: serve the dashboard from a snapshot that  *)
(* they rebuild, count logins in one database, and start over it.  The     *)
(* three share no state: a behaviour is about one of them, and the others  *)
(* keep a first state.                                                     *)
(***************************************************************************)
EXTENDS DashboardSnapshot, LoginLimiter, Migrations

VARIABLE about

serversVars == <<vars, limiterVars, migrationVars, about>>

ServersInit ==
  /\ about \in {"snapshot", "logins", "starts"}
  /\ Init           /\ (about # "snapshot" => written = 0)
  /\ LimiterInit
  /\ MigrationsInit /\ (about # "starts" => there = {})

ServersNext ==
  /\ about' = about
  /\ \/ about = "snapshot" /\ Next /\ UNCHANGED <<limiterVars, migrationVars>>
     \/ about = "logins" /\ LimiterNext /\ UNCHANGED <<vars, migrationVars>>
     \/ about = "starts" /\ MigrationsNext /\ UNCHANGED <<vars, limiterVars>>

ServersSpec ==
  /\ ServersInit
  /\ [][ServersNext]_serversVars
  /\ Fairness
  /\ \A i \in Instance : WF_migrationVars(about = "starts" /\ Proceed(i))
=============================================================================
