------------------------------ MODULE Migrations ------------------------------
(***************************************************************************)
(* What a server does to the database when it starts (runMigrations and    *)
(* start in server.ts).  Several instances may start together, each runs   *)
(* the same files in the same order, and other sessions use the tables     *)
(* meanwhile.                                                              *)
(*                                                                         *)
(* The statements of a file are sent as one query, so Postgres runs them   *)
(* in one transaction: either all of a file's tables are there or none.    *)
(* Of the waits inside a file only the first is modelled.                  *)
(***************************************************************************)
EXTENDS Naturals

CONSTANTS
  Instance,
  Files,      \* how many files the list has
  MaxStarts   \* bound of the runs: how often an instance starts

ASSUME MigrationsAssumption ==
  /\ Files \in Nat
  /\ MaxStarts \in Nat

File == 1 .. Files

VARIABLES
  there,    \* the files whose tables are there
  creator,  \* who is in the transaction that creates a file's tables
  used,     \* the files of which another session holds a table
  inst      \* of an instance: its state, its file, what it said, its starts

migrationVars == <<there, creator, used, inst>>

Nobody == "nobody"
Down(n) == [st |-> "down", file |-> 1, said |-> [f \in File |-> "nothing"], starts |-> n]

\* A database that some of the files have been run on before.
MigrationsInit ==
  /\ there \in SUBSET File
  /\ creator = [f \in File |-> Nobody]
  /\ used = {}
  /\ inst = [i \in Instance |-> Down(0)]

-----------------------------------------------------------------------------
At(i, st) == inst[i].st = st
F(i) == inst[i].file
Blocked(i) == F(i) \in used \/ creator[F(i)] \notin {Nobody, i}

\* Says something of its file and goes on to the next.
Says(i, what) ==
  inst' = [inst EXCEPT ![i] = [st |-> "next", file |-> F(i) + 1,
                               said |-> [@.said EXCEPT ![F(i)] = what], starts |-> @.starts]]

\* An error other than those two: no further file is run, and start() only logs it.
GivesUp(i) ==
  inst' = [inst EXCEPT ![i] = [st |-> "up", file |-> F(i),
                               said |-> [@.said EXCEPT ![F(i)] = "failed"], starts |-> @.starts]]

RolledBack(i) == [f \in File |-> IF creator[f] = i THEN Nobody ELSE creator[f]]

Start(i) ==
  /\ At(i, "down")
  /\ inst[i].starts < MaxStarts
  /\ inst' = [inst EXCEPT ![i] = [Down(@.starts + 1) EXCEPT !.st = "next"]]
  /\ UNCHANGED <<there, creator, used>>

\* The file is sent.  What is there already is left alone (IF NOT EXISTS), what
\* is not is created, out of sight of the others until the end.
Send(i) ==
  /\ At(i, "next")
  /\ F(i) \in File
  /\ ~Blocked(i)
  /\ inst' = [inst EXCEPT ![i].st = "running"]
  /\ creator' = IF F(i) \in there THEN creator ELSE [creator EXCEPT ![F(i)] = i]
  /\ UNCHANGED <<there, used>>

\* A statement has to wait for another session, or for one that is creating the
\* same table.
SendAndWait(i) ==
  /\ At(i, "next")
  /\ F(i) \in File
  /\ Blocked(i)
  /\ inst' = [inst EXCEPT ![i].st = IF F(i) \in used THEN "queued" ELSE "behind"]
  /\ UNCHANGED <<there, creator, used>>

Commit(i) ==
  /\ At(i, "running")
  /\ there' = there \cup {F(i)}
  /\ creator' = RolledBack(i)
  /\ Says(i, "ran")
  /\ UNCHANGED used

\* lock_timeout: the file is skipped and the next one is run.
Waiting(i) == At(i, "queued") \/ At(i, "behind")

\* Mutant: without a lock_timeout whoever waits goes on waiting.
WaitOn(i) == FALSE /\ inst' = inst

TimeOut(i) ==
  /\ Waiting(i)
  /\ Blocked(i)
  /\ Says(i, "skipped")
  /\ UNCHANGED <<there, creator, used>>

\* Mutant: whoever waited behind another takes the file to be applied.
WokenAnyhow(i) == At(i, "behind")

\* The table it waited to create has been created: "duplicate key".
Duplicate(i) == At(i, "behind") /\ F(i) \in there

Woken(i) ==
  /\ Waiting(i)
  /\ ~Blocked(i)
  /\ IF Duplicate(i)
       THEN Says(i, "applied") /\ creator' = creator
       ELSE /\ inst' = [inst EXCEPT ![i].st = "running"]
            /\ creator' = IF F(i) \in there THEN creator ELSE [creator EXCEPT ![F(i)] = i]
  /\ UNCHANGED <<there, used>>

\* No connection, a lost one, a statement refused.
Break(i) ==
  /\ inst[i].st \in {"next", "running", "queued", "behind"}
  /\ F(i) \in File
  /\ creator' = RolledBack(i)
  /\ GivesUp(i)
  /\ UNCHANGED <<there, used>>

Listen(i) ==
  /\ At(i, "next")
  /\ F(i) \notin File
  /\ inst' = [inst EXCEPT ![i].st = "up"]
  /\ UNCHANGED <<there, creator, used>>

Die(i) ==
  /\ ~At(i, "down")
  /\ inst' = [inst EXCEPT ![i] = Down(@.starts)]
  /\ creator' = RolledBack(i)
  /\ UNCHANGED <<there, used>>

\* Another session, the scheduler's for one, writes to a table for a while.
Use(f) ==
  /\ f \in there \ used
  /\ used' = used \cup {f}
  /\ UNCHANGED <<there, creator, inst>>

Leave(f) ==
  /\ f \in used
  /\ used' = used \ {f}
  /\ UNCHANGED <<there, creator, inst>>

\* What an instance and the server do without anyone else's help.
Proceed(i) == Send(i) \/ SendAndWait(i) \/ Commit(i) \/ TimeOut(i) \/ Woken(i) \/ Listen(i)

MigrationsNext ==
  \/ \E i \in Instance : Start(i) \/ Proceed(i) \/ Break(i) \/ Die(i)
  \/ \E f \in File : Use(f) \/ Leave(f)

MigrationsSpec ==
  /\ MigrationsInit
  /\ [][MigrationsNext]_migrationVars
  /\ \A i \in Instance : WF_migrationVars(Proceed(i))

-----------------------------------------------------------------------------
(* A server that runs without one of the tables has said so: a file was      *)
(* skipped for a lock, or failed.  Nobody relies on what another instance    *)
(* began and then rolled back (server.ts:196-236).                           *)
MissingIsTold ==
  \A i \in Instance : \A f \in File :
    At(i, "up") /\ f \notin there =>
      \/ inst[i].said[f] \in {"skipped", "failed"}
      \/ \E e \in 1 .. f - 1 : inst[i].said[e] = "failed"

(* However long others hold on to a table, and whoever else is starting, a   *)
(* server that starts comes to listen, or dies (server.ts:200-208, 256-266). *)
StartEnds == \A i \in Instance : At(i, "next") ~> At(i, "up") \/ At(i, "down")
=============================================================================
