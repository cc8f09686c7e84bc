----------------------------- MODULE LoginLimiter -----------------------------
(***************************************************************************)
(* The login lockout (routes/auth.ts with middleware/pgRateLimitStore.ts): *)
(* one row per address and account, shared by every process, that counts   *)
(* attempts in a window of fixed length.  A login that succeeds is taken   *)
(* back after its response was sent.  When the store cannot be reached the *)
(* attempt is let through uncounted.                                       *)
(*                                                                         *)
(* One key is modelled: the keys share nothing.  Time moves in ticks.  The *)
(* records "book" and "req" also keep what the properties need: attempts   *)
(* by how they ended, in the window they were counted in.                  *)
(***************************************************************************)
EXTENDS Integers, FiniteSets

CONSTANTS
  Attempt,   \* attempts that may be under way together
  Limit,
  Window,    \* windowMs
  Keep,      \* how long a row outlives its window
  MaxTime,   \* bounds of the runs: time,
  MaxHits    \* and hits in one window

ASSUME LimiterAssumption ==
  /\ IsFiniteSet(Attempt)
  /\ Limit \in Nat /\ Window \in Nat \ {0} /\ Keep \in Nat
  /\ MaxTime \in Nat /\ MaxHits \in Nat

VARIABLES
  now,
  row,      \* hits and reset_at; reset_at is 0 when there is no row
  req,      \* what an attempt waits for, and the reset_at it was counted under
  book      \* of the row's window: refused guesses, attempts not taken back,
            \* and decrements that belong to an earlier window

limiterVars == <<now, row, req, book>>

Idle    == [st |-> "idle", under |-> 0]
NoRow   == [hits |-> 0, reset |-> 0]
NewBook == [failed |-> 0, standing |-> 0, strays |-> 0]

LimiterInit ==
  /\ now = 1
  /\ row = NoRow
  /\ req = [r \in Attempt |-> Idle]
  /\ book = NewBook

-----------------------------------------------------------------------------
\* Mutant: a window that has ended is opened again with its old hits.
ReopenedWith == [hits |-> row.hits + 1, reset |-> IF row.reset <= now THEN now + Window ELSE row.reset]

\* The upsert of increment.
Incremented ==
  IF row.reset = 0 \/ row.reset <= now
    THEN [hits |-> 1, reset |-> now + Window]
    ELSE [row EXCEPT !.hits = @ + 1]

Opens == row.reset = 0 \/ row.reset <= now
BookNow == IF Opens THEN NewBook ELSE book
Counted == [BookNow EXCEPT !.standing = @ + 1]

\* More hits than the limit: the answer is 429, and nothing is taken back.
Over == Incremented.hits > Limit

Admit(r) ==
  /\ req[r].st = "idle"
  /\ ~Over
  /\ row' = Incremented
  /\ book' = Counted
  /\ req' = [req EXCEPT ![r] = [st |-> "asking", under |-> Incremented.reset]]
  /\ UNCHANGED now

Refuse(r) ==
  /\ req[r].st = "idle"
  /\ Over
  /\ Incremented.hits <= MaxHits
  /\ row' = Incremented
  /\ book' = Counted
  /\ UNCHANGED <<now, req>>

\* passOnStoreError: the store failed, before the row was written or after, and
\* the attempt goes on without the limiter.
PassUncounted(r) ==
  /\ req[r].st = "idle"
  /\ req' = [req EXCEPT ![r] = [st |-> "asking", under |-> 0]]
  /\ \/ UNCHANGED <<row, book>>
     \/ Incremented.hits <= MaxHits /\ row' = Incremented /\ book' = Counted
  /\ UNCHANGED now

\* The upstream refuses the password, or nobody is left to be told.
Fail(r) ==
  /\ req[r].st = "asking"
  /\ req' = [req EXCEPT ![r] = Idle]
  /\ book' = IF req[r].under = row.reset /\ row.reset # 0
               THEN [book EXCEPT !.failed = @ + 1] ELSE book
  /\ UNCHANGED <<now, row>>

Succeed(r) ==
  /\ req[r].st = "asking"
  /\ req' = [req EXCEPT ![r] = IF @.under = 0 THEN Idle ELSE [@ EXCEPT !.st = "landing"]]
  /\ UNCHANGED <<now, row, book>>

\* Mutant: a success clears what is held against the account.
Cleared == [row EXCEPT !.hits = 0]

\* decrement: no look at the window, and never below zero.
Decremented == [row EXCEPT !.hits = IF @ > 0 THEN @ - 1 ELSE 0]

TakeBack(r) ==
  /\ req[r].st = "landing"
  /\ req' = [req EXCEPT ![r] = Idle]
  /\ row' = Decremented
  /\ book' = CASE row.reset = 0 -> book
               [] row.reset # 0 /\ req[r].under = row.reset -> [book EXCEPT !.standing = @ - 1]
               [] OTHER -> [book EXCEPT !.strays = @ + 1]
  /\ UNCHANGED now

\* The decrement fails, or its process ends before it was sent.
NotTakenBack(r) ==
  /\ req[r].st = "landing"
  /\ req' = [req EXCEPT ![r] = Idle]
  /\ UNCHANGED <<now, row, book>>

\* The clean-up that increment starts now and then and waits for no longer.
Sweep ==
  /\ row.reset # 0
  /\ row.reset < now - Keep
  /\ row' = NoRow
  /\ book' = NewBook
  /\ UNCHANGED <<now, req>>

Tick ==
  /\ now < MaxTime
  /\ now' = now + 1
  /\ UNCHANGED <<row, req, book>>

LimiterNext ==
  \/ \E r \in Attempt :
       \/ Admit(r) \/ Refuse(r) \/ PassUncounted(r)
       \/ Fail(r) \/ Succeed(r) \/ TakeBack(r) \/ NotTakenBack(r)
  \/ Sweep
  \/ Tick

LimiterSpec == LimiterInit /\ [][LimiterNext]_limiterVars

-----------------------------------------------------------------------------
(* The attempts of the row's window that the limiter let through and that    *)
(* were not answered with a token.                                           *)
Asking == {r \in Attempt : req[r].st = "asking" /\ req[r].under = row.reset}
Landing == {r \in Attempt : req[r].st = "landing" /\ req[r].under = row.reset}

(* In one window no more passwords are tried than the limit, over all the    *)
(* processes and however the attempts overlap, but for those the store could *)
(* not count, and one more for each successful login of an earlier window    *)
(* whose decrement lands in this one (pgRateLimitStore.ts:26-47,             *)
(* routes/auth.ts:64-79).                                                    *)
GuessesBounded ==
  row.reset # 0 => book.failed + Cardinality(Asking) <= Limit + book.strays

(* Nobody is refused for what is not held against them: a refusal means that *)
(* as many attempts as the limit stand in this very window, none of them a   *)
(* login that was taken back, and attempts never push the end of the window  *)
(* further away (pgRateLimitStore.ts:30-34).                                 *)
RefusedFairly ==
  [][/\ (\E r \in Attempt : Refuse(r)) => BookNow.standing >= Limit
     /\ row'.reset # row.reset => row.reset <= now /\ row'.reset <= now + Window]_limiterVars
=============================================================================
