---------------------------- MODULE ClientContext ---------------------------
(***************************************************************************)
(* services/clientContext.ts with middleware/auth.ts and the logout route: *)
(* how the backend's processes decide whether a token may act for a client *)
(* and how they share the client's session through client_sessions.        *)
(*                                                                         *)
(* Every process keeps its memory in mem[p] (the Maps resolved, active and *)
(* lastWritten, and the statements it sent and did not wait for), its      *)
(* single-flight upstream calls in calls[p] and the HTTP requests that     *)
(* wait for them in waiting[p].  A step is one macrotask of a process: what *)
(* runs between two awaits cannot be interleaved.                          *)
(***************************************************************************)
EXTENDS Integers, FiniteSets

-----------------------------------------------------------------------------
(***************************************************************************)
(* services/sessionStore.ts: the client_sessions table, one row per client *)
(* with the newest session token of that client, and the two best-effort   *)
(* statements the backend runs on it.                                      *)
(*                                                                         *)
(* The operators are pure: a row, or one process's memory m, in and out.   *)
(* Encryption is abstracted away (a row holds the token it decrypts to),   *)
(* CLIENT_SYNC_MAX_IDLE_HOURS has its default 0 (no idle limit), and the   *)
(* database's NOW() and the processes' Date.now() are one clock.           *)
(***************************************************************************)
CONSTANTS
  Token,        \* the upstream's JWTs
  Client,       \* client keys, the primary key of client_sessions
  None,         \* no token
  ClientOf,     \* the client each token's sites belong to
  Exp,          \* the expiry each token carries
  RewriteEvery  \* REWRITE_EVERY_MS

ASSUME SessionAssumption ==
  /\ None \notin Token
  /\ ClientOf \in [Token -> Client]
  /\ Exp \in [Token -> Nat]
  /\ RewriteEvery \in Nat

Row     == [token : Token \cup {None}, exp : Nat]
Written == [token : Token \cup {None}, at : Nat]

NoRow       == [token |-> None, exp |-> 0]
NeverWritten == [token |-> None, at |-> 0]

-----------------------------------------------------------------------------
(* The upsert: INSERT ... ON CONFLICT (client_key) DO UPDATE.  token_hash   *)
(* and token_enc are decided by one CASE, expires_at by another.           *)

\* Mutant: the newest writer always wins.
AnyoneWins(row, t, now) == TRUE

Wins(row, t, now) ==
  \/ row.token = None
  \/ Exp[t] >= row.exp
  \/ row.exp < now

\* Mutant: the remaining lifetime is stored in place of the expiry.
RemainingLife(row, t, now) == Exp[t] - now

KeptExpiry(row, t, now) ==
  LET stored == IF row.exp < now THEN Exp[t] ELSE row.exp
  IN  IF Exp[t] >= stored THEN Exp[t] ELSE stored

Upsert(row, t, now) ==
  IF row.token = None
    THEN [token |-> t, exp |-> Exp[t]]
    ELSE [token |-> IF Wins(row, t, now) THEN t ELSE row.token,
          exp   |-> KeptExpiry(row, t, now)]

\* DELETE FROM client_sessions WHERE token_hash = the hash of t.
DeleteRows(rows, t) ==
  [c \in Client |-> IF rows[c].token = t THEN NoRow ELSE rows[c]]

\* SELECT ... WHERE expires_at > NOW(): what loadSessions returns, None for no row.
LoadRows(rows, now) ==
  [c \in Client |-> IF rows[c].exp > now THEN rows[c].token ELSE None]

-----------------------------------------------------------------------------
(* The calling side.  m.lastWritten is the throttle; m.saves and m.deletes *)
(* are the tokens with an INSERT, with a DELETE, that was sent and has not *)
(* ended.  No caller awaits them and each runs on a pool connection of its *)
(* own, so they end in any order.  Identical statements are not counted:   *)
(* when one ends, another one of the same token may still be under way.    *)

Throttled(m, t, now) ==
  LET prev == m.lastWritten[ClientOf[t]]
  IN  prev.token = t /\ now - prev.at < RewriteEvery

SaveSession(m, t, now) ==
  IF Throttled(m, t, now) THEN m ELSE [m EXCEPT !.saves = @ \cup {t}]

DeleteSession(m, t) ==
  [m EXCEPT !.lastWritten = [c \in Client |->
                               IF m.lastWritten[c].token = t THEN NeverWritten
                                                             ELSE m.lastWritten[c]],
            !.deletes = @ \cup {t}]

\* The write came back: lastWritten is set whichever token the row kept.
SaveReturned(m, t, now) ==
  [m EXCEPT !.lastWritten[ClientOf[t]] = [token |-> t, at |-> now]]

-----------------------------------------------------------------------------
CONSTANTS
  Proc,        \* the backend's processes (serverless instances)
  WebProc,     \* those that serve requests
  SyncProc,    \* those that run syncClients
  ValidTTL,    \* VALID_TTL_MS
  Timeout,     \* UPSTREAM_TIMEOUT_MS, the abort timer of proxyUpstream
  MaxCached,   \* MAX_CACHED_TOKENS
  DbFailures,  \* whether a statement may fail
  Crashes,     \* whether a process may die
  Verdicts,    \* how the upstream withdraws a token: "rejected", "noclient"
  MaxTime,     \* bound on the clock
  MaxCalls,    \* bound on a process's other calls under way when a request comes
  MaxPending   \* bound on the tokens with a pending statement when a request comes

ASSUME ContextAssumption ==
  /\ WebProc \subseteq Proc
  /\ SyncProc \subseteq Proc
  /\ ValidTTL \in Nat
  /\ Timeout \in Nat \ {0}
  /\ MaxCached \in Nat \ {0}
  /\ {DbFailures, Crashes} \subseteq BOOLEAN
  /\ Verdicts \subseteq {"rejected", "noclient"}
  /\ MaxTime \in Nat
  /\ MaxCalls \in Nat
  /\ MaxPending \in Nat

VARIABLES
  now,        \* Date.now() and NOW()
  standing,   \* what the upstream says of each token
  vouchedAt,  \* history: when it last said yes
  mem,        \* the Maps of each process
  calls,      \* inflight: the upstream calls under way
  waiting,    \* the requests waiting for a call's answer
  sync,       \* the syncClients round of each process
  rows,       \* client_sessions
  ended,      \* history: tokens logged out or refused at some time
  gone        \* history: <<p, t>>, t logged out at p and not presented since

upstream == <<standing, vouchedAt>>
vars == <<now, standing, vouchedAt, mem, calls, waiting, sync, rows, ended, gone>>

NotCached    == -1
NeverVouched == -1
Standing     == {"client"} \cup Verdicts
Answers      == Standing \cup {"outage"}
Kind         == {"serve", "logout"}
TokenOrNone  == Token \cup {None}

NoMemory == [resolved    |-> [t \in Token |-> NotCached],
             before      |-> [t \in Token |-> {}],
             active      |-> [c \in Client |-> None],
             lastWritten |-> [c \in Client |-> NeverWritten],
             saves       |-> {},
             deletes     |-> {}]

NoCall == [reply |-> "idle", since |-> 0]
NoSync == [pc |-> "idle", todo |-> [c \in Client |-> None], cur |-> None,
           byKey |-> [c \in Client |-> None]]

Memory == [resolved    : [Token -> Nat \cup {NotCached}],
           before      : [Token -> SUBSET Token],
           active      : [Client -> TokenOrNone],
           lastWritten : [Client -> Written],
           saves       : SUBSET Token,
           deletes     : SUBSET Token]
Call   == [reply : Answers \cup {"idle", "asked"}, since : Nat]
Sync   == [pc    : {"idle", "load", "check", "ask", "delete"},
           todo  : [Client -> TokenOrNone],
           cur   : TokenOrNone,
           byKey : [Client -> TokenOrNone]]

TypeOK ==
  /\ now \in Nat
  /\ standing \in [Token -> Standing]
  /\ vouchedAt \in [Token -> Nat \cup {NeverVouched}]
  /\ mem \in [Proc -> Memory]
  /\ calls \in [Proc -> [Token -> Call]]
  /\ waiting \in [Proc -> [Token -> SUBSET Kind]]
  /\ sync \in [Proc -> Sync]
  /\ rows \in [Client -> Row]
  /\ ended \in SUBSET Token
  /\ gone \in SUBSET (Proc \X Token)

-----------------------------------------------------------------------------
(* The Map resolved: hash of a token -> {ctx, checkedAt, expiresAtMs}.      *)
(* m.resolved[t] is checkedAt; m.before[t] holds the entries inserted       *)
(* before t, the Map's iteration order.                                    *)

Expired(t) == Exp[t] <= now

Cached(m) == {t \in Token : m.resolved[t] # NotCached}

\* Mutant: a cached answer never ages.
HitAnyAge(m, t) == m.resolved[t] # NotCached /\ ~Expired(t)

Hit(m, t) == /\ m.resolved[t] # NotCached
             /\ now - m.resolved[t] < ValidTTL
             /\ ~Expired(t)

CacheHit(p, t) == Hit(mem[p], t)

Uncache(m, t) ==
  [m EXCEPT !.resolved[t] = NotCached,
            !.before = [x \in Token |-> IF x = t THEN {} ELSE @[x] \ {t}]]

Oldest(m) == CHOOSE t \in Cached(m) : m.before[t] \cap Cached(m) = {}

\* Mutant: the limit is passed by one before anything is evicted.
EvictLate(m) == IF Cardinality(Cached(m)) > MaxCached THEN Uncache(m, Oldest(m)) ELSE m

EvictIfFull(m) == IF Cardinality(Cached(m)) >= MaxCached THEN Uncache(m, Oldest(m)) ELSE m

CacheEntry(m, t) ==
  [m EXCEPT !.resolved[t] = now,
            !.before[t] = IF t \in Cached(m) THEN @ ELSE Cached(m)]

\* A 200 with sites: cache the context, make it the client's active one, store it.
Resolve(m, t) ==
  SaveSession([CacheEntry(EvictIfFull(m), t) EXCEPT !.active[ClientOf[t]] = t], t, now)

\* The middleware's touchClient.
Touch(m, t) == SaveSession(m, t, now)

\* Mutant: logout only deletes the stored row.
ForgetStoredOnly(m, t) == DeleteSession(m, t)

\* The logout route's forgetToken.
Forget(m, t) ==
  LET c  == ClientOf[t]
      m1 == Uncache(m, t)
      m2 == IF t \in Cached(m) /\ m.active[c] = t THEN [m1 EXCEPT !.active[c] = None]
                                                  ELSE m1
  IN  DeleteSession(m2, t)

\* What an authenticated request of each kind does once the client is known.
Run(m, t, kind) == IF kind = "logout" THEN Forget(Touch(m, t), t) ELSE Touch(m, t)

\* The waiting requests run one after the other, in the order they came.
RunAll(m, t, kinds) ==
  CASE kinds = {}         -> {m}
    [] kinds = {"serve"}  -> {Run(m, t, "serve")}
    [] kinds = {"logout"} -> {Run(m, t, "logout")}
    [] OTHER              -> {Run(Run(m, t, "serve"), t, "logout"),
                              Run(Run(m, t, "logout"), t, "serve")}

\* The requests that find no client: only logout, a public path, does anything.
RunAnonymous(m, t, kinds) == IF "logout" \in kinds THEN Forget(m, t) ELSE m

-----------------------------------------------------------------------------
Init ==
  /\ now = 0
  /\ standing = [t \in Token |-> "client"]
  /\ vouchedAt = [t \in Token |-> NeverVouched]
  /\ mem = [p \in Proc |-> NoMemory]
  /\ calls = [p \in Proc |-> [t \in Token |-> NoCall]]
  /\ waiting = [p \in Proc |-> [t \in Token |-> {}]]
  /\ sync = [p \in Proc |-> NoSync]
  /\ rows = [c \in Client |-> NoRow]
  /\ ended = {}
  /\ gone = {}

(* The environment: time, and the upstream's own view of the tokens.  The  *)
(* abort timer of a call fires before time passes its deadline.            *)
Tick ==
  /\ now < MaxTime
  /\ \A p \in Proc, t \in Token :
       calls[p][t].reply # "idle" => now < calls[p][t].since + Timeout
  /\ now' = now + 1
  /\ UNCHANGED <<standing, vouchedAt, mem, calls, waiting, sync, rows, ended, gone>>

UpstreamChanges(t, s) ==
  /\ standing[t] \notin {"rejected", s}
  /\ standing' = [standing EXCEPT ![t] = s]
  /\ UNCHANGED <<now, vouchedAt, mem, calls, waiting, sync, rows, ended, gone>>

-----------------------------------------------------------------------------
(* A request with a bearer token, through authMiddleware.                  *)

\* Bounds: how much else a process has under way when it takes a request.
Busy(p) == {t \in Token : calls[p][t].reply # "idle"}
Bounded(p, t) == /\ Cardinality(Busy(p) \ {t}) <= MaxCalls
                 /\ Cardinality(mem[p].saves \cup mem[p].deletes) <= MaxPending

\* Presenting t anywhere starts its history anew; logging it out at p records that.
Presented(t) == gone \ (Proc \X {t})
LoggedOut(p, t, kinds) == IF "logout" \in kinds THEN {<<p, t>>} ELSE {}

Ask(p, t) == IF calls[p][t].reply = "idle"
               THEN calls' = [calls EXCEPT ![p][t] = [reply |-> "asked", since |-> now]]
               ELSE UNCHANGED calls

\* An expired token has no client; the request goes on without one.
RequestExpired(p, t) ==
  /\ Expired(t)
  /\ Bounded(p, t)
  /\ mem' = [mem EXCEPT ![p] = RunAnonymous(@, t, {"logout"})]
  /\ ended' = ended \cup {t}
  /\ gone' = Presented(t) \cup {<<p, t>>}
  /\ UNCHANGED <<now, standing, vouchedAt, calls, waiting, sync, rows>>

RequestHit(p, t, kind) ==
  /\ Hit(mem[p], t)
  /\ Bounded(p, t)
  /\ mem' = [mem EXCEPT ![p] = Run(@, t, kind)]
  /\ ended' = IF kind = "logout" THEN ended \cup {t} ELSE ended
  /\ gone' = Presented(t) \cup LoggedOut(p, t, {kind})
  /\ UNCHANGED <<now, standing, vouchedAt, calls, waiting, sync, rows>>

RequestMiss(p, t, kind) ==
  /\ ~Expired(t)
  /\ ~Hit(mem[p], t)
  /\ Bounded(p, t)
  /\ Ask(p, t)
  /\ waiting' = [waiting EXCEPT ![p][t] = @ \cup {kind}]
  /\ gone' = Presented(t)
  /\ UNCHANGED <<now, standing, vouchedAt, mem, sync, rows, ended>>

\* The upstream looks the token up and answers.
Answer(p, t) ==
  /\ calls[p][t].reply = "asked"
  /\ calls' = [calls EXCEPT ![p][t].reply = standing[t]]
  /\ vouchedAt' = IF standing[t] = "client" THEN [vouchedAt EXCEPT ![t] = now]
                                            ELSE vouchedAt
  /\ UNCHANGED <<now, standing, mem, waiting, sync, rows, ended, gone>>

\* Network error, 5xx, malformed body, or the abort timer: before or after it answered.
CallFails(p, t) ==
  /\ calls[p][t].reply \notin {"idle", "outage"}
  /\ calls' = [calls EXCEPT ![p][t].reply = "outage"]
  /\ UNCHANGED <<now, standing, vouchedAt, mem, waiting, sync, rows, ended, gone>>

Awaits(p, t) == sync[p].pc = "ask" /\ sync[p].cur = t

\* resolveClient's answer reaches the syncClients round that awaits it.
SyncGets(s, t) == [s EXCEPT !.pc = "check", !.cur = None, !.byKey[ClientOf[t]] = t]
SyncDrops(s)   == [s EXCEPT !.pc = "delete"]
SyncSkips(s)   == [s EXCEPT !.pc = "check", !.cur = None]

Settled(p, t) == /\ calls' = [calls EXCEPT ![p][t] = NoCall]
                 /\ waiting' = [waiting EXCEPT ![p][t] = {}]

SettleClient(p, t) ==
  /\ calls[p][t].reply = "client"
  /\ Settled(p, t)
  /\ \E m \in RunAll(Resolve(mem[p], t), t, waiting[p][t]) : mem' = [mem EXCEPT ![p] = m]
  /\ sync' = IF Awaits(p, t) THEN [sync EXCEPT ![p] = SyncGets(@, t)] ELSE sync
  /\ ended' = IF "logout" \in waiting[p][t] THEN ended \cup {t} ELSE ended
  /\ gone' = gone \cup LoggedOut(p, t, waiting[p][t])
  /\ UNCHANGED <<now, standing, vouchedAt, rows>>

\* 401 and 403 drop the cached entry; a token without sites only gets null.
SettleRefused(p, t) ==
  LET reply == calls[p][t].reply
      m1 == IF reply = "rejected" THEN Uncache(mem[p], t) ELSE mem[p]
      m2 == RunAnonymous(m1, t, waiting[p][t])
  IN  /\ reply \in {"rejected", "noclient"}
      /\ Settled(p, t)
      /\ mem' = [mem EXCEPT ![p] = IF Awaits(p, t) THEN DeleteSession(m2, t) ELSE m2]
      /\ sync' = IF Awaits(p, t) THEN [sync EXCEPT ![p] = SyncDrops(@)] ELSE sync
      /\ ended' = ended \cup {t}
      /\ gone' = gone \cup LoggedOut(p, t, waiting[p][t])
      /\ UNCHANGED <<now, standing, vouchedAt, rows>>

\* Mutant: an outage is taken for a refusal, and the stored row goes.
OutageRefuses(p, t) ==
  /\ calls[p][t].reply = "outage"
  /\ Settled(p, t)
  /\ mem' = [mem EXCEPT ![p] = DeleteSession(@, t)]
  /\ sync' = IF Awaits(p, t) THEN [sync EXCEPT ![p] = SyncDrops(@)] ELSE sync
  /\ UNCHANGED <<now, standing, vouchedAt, rows, ended, gone>>

\* Mutant: an outage lets the token through.
OutageServes(p, t) ==
  /\ calls[p][t].reply = "outage"
  /\ Settled(p, t)
  /\ mem' = [mem EXCEPT ![p] = Resolve(@, t)]
  /\ sync' = IF Awaits(p, t) THEN [sync EXCEPT ![p] = SyncSkips(@)] ELSE sync
  /\ UNCHANGED <<now, standing, vouchedAt, rows, ended, gone>>

\* Mutant: the entry in inflight is removed only when the call succeeds.
OutageKeepsCall(p, t) ==
  /\ calls[p][t].reply = "outage"
  /\ sync' = IF Awaits(p, t) THEN [sync EXCEPT ![p] = SyncSkips(@)] ELSE sync
  /\ UNCHANGED <<now, standing, vouchedAt, mem, calls, waiting, rows, ended, gone>>

\* AuthUnavailableError: every waiting request answers 503, a logout too.
SettleOutage(p, t) ==
  /\ calls[p][t].reply = "outage"
  /\ Settled(p, t)
  /\ sync' = IF Awaits(p, t) THEN [sync EXCEPT ![p] = SyncSkips(@)] ELSE sync
  /\ UNCHANGED <<now, standing, vouchedAt, mem, rows, ended, gone>>

-----------------------------------------------------------------------------
(* The statements that were sent to the database.                          *)

\* The statement of t that ended was the last one of its kind, or not.
Ended(ts, t) == {ts, ts \ {t}}

SaveLands(p, t) ==
  /\ t \in mem[p].saves
  /\ rows' = [rows EXCEPT ![ClientOf[t]] = Upsert(@, t, now)]
  /\ \E left \in Ended(mem[p].saves, t) :
       mem' = [mem EXCEPT ![p] = [SaveReturned(@, t, now) EXCEPT !.saves = left]]
  /\ UNCHANGED <<now, standing, vouchedAt, calls, waiting, sync, ended, gone>>

DeleteLands(p, t) ==
  /\ t \in mem[p].deletes
  /\ rows' = DeleteRows(rows, t)
  /\ \E left \in Ended(mem[p].deletes, t) : mem' = [mem EXCEPT ![p].deletes = left]
  /\ UNCHANGED <<now, standing, vouchedAt, calls, waiting, sync, ended, gone>>

\* The error is logged and swallowed; the statement may have been executed.
SaveFails(p, t) ==
  /\ DbFailures
  /\ t \in mem[p].saves
  /\ \E executed \in BOOLEAN :
       rows' = IF executed THEN [rows EXCEPT ![ClientOf[t]] = Upsert(@, t, now)]
                           ELSE rows
  /\ \E left \in Ended(mem[p].saves, t) : mem' = [mem EXCEPT ![p].saves = left]
  /\ UNCHANGED <<now, standing, vouchedAt, calls, waiting, sync, ended, gone>>

DeleteFails(p, t) ==
  /\ DbFailures
  /\ t \in mem[p].deletes
  /\ \E left \in Ended(mem[p].deletes, t) : mem' = [mem EXCEPT ![p].deletes = left]
  /\ UNCHANGED <<now, standing, vouchedAt, calls, waiting, sync, rows, ended, gone>>

\* A process dies and starts again; the table and the upstream stay.
Restart(p) ==
  /\ Crashes
  /\ mem' = [mem EXCEPT ![p] = NoMemory]
  /\ calls' = [calls EXCEPT ![p] = [t \in Token |-> NoCall]]
  /\ waiting' = [waiting EXCEPT ![p] = [t \in Token |-> {}]]
  /\ sync' = [sync EXCEPT ![p] = NoSync]
  /\ UNCHANGED <<now, standing, vouchedAt, rows, ended, gone>>

-----------------------------------------------------------------------------
(* syncClients.                                                            *)

\* The sessions in memory: expired ones are dropped, the others taken as they are.
SyncStart(p) ==
  LET live == [c \in Client |-> LET t == mem[p].active[c]
                                IN  IF t # None /\ Exp[t] > now THEN t ELSE None]
  IN  /\ sync[p].pc = "idle"
      /\ mem' = [mem EXCEPT ![p].active = live]
      /\ sync' = [sync EXCEPT ![p] = [NoSync EXCEPT !.pc = "load", !.byKey = live]]
      /\ UNCHANGED <<now, standing, vouchedAt, calls, waiting, rows, ended, gone>>

\* await loadSessions(); a failed query loads nothing.
SyncLoad(p) ==
  /\ sync[p].pc = "load"
  /\ \E failed \in {FALSE, DbFailures} :
       sync' = [sync EXCEPT ![p].pc = "check",
                            ![p].todo = IF failed THEN NoSync.todo ELSE LoadRows(rows, now)]
  /\ UNCHANGED <<now, standing, vouchedAt, mem, calls, waiting, rows, ended, gone>>

\* The next stored session of the round, and the rest of the round.
Stored(p, c) == sync[p].todo[c]
Taken(p, c)  == [sync[p] EXCEPT !.todo[c] = None]
SyncTurn(p, c) == sync[p].pc = "check" /\ Stored(p, c) # None

SyncSkip(p, c) ==
  /\ SyncTurn(p, c)
  /\ sync[p].byKey[c] # None
  /\ sync' = [sync EXCEPT ![p] = Taken(p, c)]
  /\ UNCHANGED <<now, standing, vouchedAt, mem, calls, waiting, rows, ended, gone>>

SyncHit(p, c) ==
  /\ SyncTurn(p, c)
  /\ sync[p].byKey[c] = None
  /\ Hit(mem[p], Stored(p, c))
  /\ sync' = [sync EXCEPT ![p] = SyncGets(Taken(p, c), Stored(p, c))]
  /\ gone' = Presented(Stored(p, c))
  /\ UNCHANGED <<now, standing, vouchedAt, mem, calls, waiting, rows, ended>>

SyncExpired(p, c) ==
  /\ SyncTurn(p, c)
  /\ sync[p].byKey[c] = None
  /\ Expired(Stored(p, c))
  /\ mem' = [mem EXCEPT ![p] = DeleteSession(@, Stored(p, c))]
  /\ sync' = [sync EXCEPT ![p] = SyncDrops([Taken(p, c) EXCEPT !.cur = Stored(p, c)])]
  /\ UNCHANGED <<now, standing, vouchedAt, calls, waiting, rows, ended, gone>>

SyncAsks(p, c) ==
  /\ SyncTurn(p, c)
  /\ sync[p].byKey[c] = None
  /\ ~Expired(Stored(p, c))
  /\ ~Hit(mem[p], Stored(p, c))
  /\ Bounded(p, Stored(p, c))
  /\ Ask(p, Stored(p, c))
  /\ sync' = [sync EXCEPT ![p] = [Taken(p, c) EXCEPT !.pc = "ask", !.cur = Stored(p, c)]]
  /\ gone' = Presented(Stored(p, c))
  /\ UNCHANGED <<now, standing, vouchedAt, mem, waiting, rows, ended>>

\* The awaited deleteSession came back.
SyncDeleted(p) ==
  /\ sync[p].pc = "delete"
  /\ sync[p].cur \notin mem[p].deletes
  /\ sync' = [sync EXCEPT ![p] = SyncSkips(@)]
  /\ UNCHANGED <<now, standing, vouchedAt, mem, calls, waiting, rows, ended, gone>>

Returning(p) == sync[p].pc = "check" /\ \A c \in Client : Stored(p, c) = None

SyncReturn(p) ==
  /\ Returning(p)
  /\ sync' = [sync EXCEPT ![p] = NoSync]
  /\ UNCHANGED <<now, standing, vouchedAt, mem, calls, waiting, rows, ended, gone>>

-----------------------------------------------------------------------------
RequestStep(p, t) ==
  \/ RequestExpired(p, t)
  \/ \E kind \in Kind : RequestHit(p, t, kind) \/ RequestMiss(p, t, kind)

CallStep(p, t) == Answer(p, t) \/ CallFails(p, t)

SettleStep(p, t) == SettleClient(p, t) \/ SettleRefused(p, t) \/ SettleOutage(p, t)

StatementStep(p, t) ==
  SaveLands(p, t) \/ DeleteLands(p, t) \/ SaveFails(p, t) \/ DeleteFails(p, t)

SyncStep(p) ==
  \/ SyncStart(p) \/ SyncLoad(p) \/ SyncDeleted(p) \/ SyncReturn(p)
  \/ \E c \in Client : SyncSkip(p, c) \/ SyncHit(p, c) \/ SyncExpired(p, c) \/ SyncAsks(p, c)

Next ==
  \/ Tick
  \/ \E t \in Token, s \in Standing : UpstreamChanges(t, s)
  \/ \E p \in WebProc, t \in Token : RequestStep(p, t)
  \/ \E p \in Proc, t \in Token : CallStep(p, t) \/ SettleStep(p, t) \/ StatementStep(p, t)
  \/ \E p \in SyncProc : SyncStep(p)
  \/ \E p \in Proc : Restart(p)

\* The abort timer ends every call and the event loop runs every continuation.
Fairness == \A p \in Proc, t \in Token : WF_vars(CallStep(p, t)) /\ WF_vars(SettleStep(p, t))

Safety == Init /\ [][Next]_vars
Spec == Safety /\ Fairness
-----------------------------------------------------------------------------
(* Properties.                                                             *)

(* Access: a process lets a token through from memory only if the upstream  *)
(* said yes to it less than VALID_TTL_MS and one call's timeout ago.  The   *)
(* answer ages while it travels, and a token may be revoked at once: this   *)
(* bounds how long a revoked session keeps working (resolveClient).         *)
ServedWhileVouched ==
  \A p \in Proc, t \in Token :
    CacheHit(p, t) => /\ vouchedAt[t] # NeverVouched
                      /\ now < vouchedAt[t] + ValidTTL + Timeout

(* A process where t was logged out does not let t through from memory,     *)
(* until t is presented again: no call that was shared with the logout, or  *)
(* was under way, puts it back (forgetToken against singleFlight).          *)
LogoutSticks == \A pt \in gone : ~CacheHit(pt[1], pt[2])

(* A stored row is usable: its token is one of the row's own client, it was *)
(* vouched for, and the row's expiry is that token's, though two CASEs of   *)
(* the upsert choose them apart (saveSession).                              *)
RowMatchesToken ==
  \A c \in Client : rows[c].token # None =>
    /\ ClientOf[rows[c].token] = c
    /\ rows[c].exp = Exp[rows[c].token]
    /\ vouchedAt[rows[c].token] # NeverVouched

(* The Map of resolved tokens never exceeds MAX_CACHED_TOKENS.              *)
CacheWithinLimit == \A p \in Proc : Cardinality(Cached(mem[p])) <= MaxCached

(* The longer-lived token wins, whatever the order in which the writes of   *)
(* several processes land: a live row loses its token only to one that      *)
(* expires no earlier, or because that token was logged out or refused.     *)
(* An outage or a crash never costs a client its stored session.            *)
LosesRow(c) ==
  /\ rows[c].token # None
  /\ rows[c].exp > now
  /\ rows'[c].token # rows[c].token
LongestSessionKept ==
  [][\A c \in Client : LosesRow(c) =>
       \/ rows[c].token \in ended'
       \/ rows'[c].token # None /\ Exp[rows'[c].token] >= Exp[rows[c].token]]_vars

(* A request that waits for the identity check is answered (or its process  *)
(* died), also when the shared call fails (singleFlight's finally).         *)
EveryRequestAnswered ==
  \A p \in WebProc, t \in Token : waiting[p][t] # {} ~> waiting[p][t] = {}

(* The access decisions are leases in the sense of AccessLease.             *)
Lease == INSTANCE AccessLease WITH
  lease <- [p \in Proc |-> [t \in Token |->
              IF mem[p].resolved[t] = NotCached THEN 0
                                                ELSE mem[p].resolved[t] + ValidTTL]]
RefinesLease == Lease!Spec

-----------------------------------------------------------------------------
(* What comments of the code say, and the code does not keep.              *)

(* 010_client_sessions.sql: the token "is deleted on logout".  Once t was   *)
(* logged out, not presented since, and every statement about it has ended  *)
(* without an error, no row holds t.                                        *)
Quiet(t) == \A p \in Proc : /\ t \notin mem[p].saves
                            /\ t \notin mem[p].deletes
                            /\ calls[p][t].reply = "idle"
LogoutDeletesRow ==
  \A pt \in gone : Quiet(pt[2]) => \A c \in Client : rows[c].token # pt[2]
=============================================================================
