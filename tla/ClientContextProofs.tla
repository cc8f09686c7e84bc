------------------------ MODULE ClientContextProofs -------------------------
(***************************************************************************)
(* Type correctness and the safety properties of ClientContext, for every  *)
(* set of processes, tokens and clients and every value of the time        *)
(* constants.  First what its operators on a process's memory guarantee,   *)
(* and what any step does to the memories.                                 *)
(***************************************************************************)
EXTENDS ClientContext, FiniteSetTheorems, TLAPS

USE SessionAssumption, ContextAssumption

-----------------------------------------------------------------------------
(* What the operators on a process's memory leave: each only drops cached   *)
(* entries (CacheEntry adds one) and only adds statements of its token.     *)

\* SaveSession and touchClient add at most an INSERT.
LEMMA SaveSessionFacts ==
  ASSUME NEW m \in Memory, NEW t \in Token, NEW n \in Nat
  PROVE  /\ SaveSession(m, t, n) \in Memory
         /\ SaveSession(m, t, n).resolved = m.resolved
         /\ SaveSession(m, t, n).saves \subseteq m.saves \cup {t}
         /\ SaveSession(m, t, n).deletes = m.deletes
  BY DEF SaveSession, Memory

\* deleteSession adds a DELETE and touches nothing else but the throttle.
LEMMA DeleteSessionFacts ==
  ASSUME NEW m \in Memory, NEW t \in Token
  PROVE  /\ DeleteSession(m, t) \in Memory
         /\ DeleteSession(m, t).resolved = m.resolved
         /\ DeleteSession(m, t).saves = m.saves
         /\ DeleteSession(m, t).deletes = m.deletes \cup {t}
  BY DEF DeleteSession, Memory, Written, NeverWritten

\* resolved.delete, of whatever key.
LEMMA UncacheFacts ==
  ASSUME NEW m \in Memory, NEW t
  PROVE  /\ Uncache(m, t) \in Memory
         /\ Uncache(m, t).resolved = [m.resolved EXCEPT ![t] = NotCached]
         /\ Uncache(m, t).saves = m.saves
         /\ Uncache(m, t).deletes = m.deletes
         /\ Uncache(m, t).active = m.active
  BY DEF Uncache, Memory, NotCached

\* Eviction only drops.
LEMMA EvictFacts ==
  ASSUME NEW m \in Memory
  PROVE  /\ EvictIfFull(m) \in Memory
         /\ \A x \in Token : EvictIfFull(m).resolved[x] \in {m.resolved[x], NotCached}
         /\ EvictIfFull(m).saves = m.saves
         /\ EvictIfFull(m).deletes = m.deletes
<1>1. CASE Cardinality(Cached(m)) >= MaxCached
  <2> DEFINE u == Uncache(m, Oldest(m))
  <2>1. EvictIfFull(m) = u
    BY <1>1 DEF EvictIfFull
  <2>2. /\ u \in Memory
        /\ u.resolved = [m.resolved EXCEPT ![Oldest(m)] = NotCached]
        /\ u.saves = m.saves
        /\ u.deletes = m.deletes
    BY UncacheFacts
  <2> HIDE DEF u
  <2>3. \A x \in Token : u.resolved[x] \in {m.resolved[x], NotCached}
    BY <2>2 DEF Memory
  <2>4. QED
    BY <2>1, <2>2, <2>3
<1>2. CASE ~(Cardinality(Cached(m)) >= MaxCached)
  BY <1>2 DEF EvictIfFull
<1>3. QED
  BY <1>1, <1>2

\* A 200 caches t as of now and drops others at most.
LEMMA ResolveFacts ==
  ASSUME NEW m \in Memory, NEW t \in Token, now \in Nat
  PROVE  /\ Resolve(m, t) \in Memory
         /\ Resolve(m, t).resolved[t] = now
         /\ \A x \in Token \ {t} : Resolve(m, t).resolved[x] \in {m.resolved[x], NotCached}
         /\ Resolve(m, t).saves \subseteq m.saves \cup {t}
         /\ Resolve(m, t).deletes = m.deletes
<1> DEFINE e == EvictIfFull(m)
           k == CacheEntry(e, t)
           a == [k EXCEPT !.active[ClientOf[t]] = t]
<1>1. /\ e \in Memory
      /\ \A x \in Token : e.resolved[x] \in {m.resolved[x], NotCached}
      /\ e.saves = m.saves
      /\ e.deletes = m.deletes
  BY EvictFacts
<1> HIDE DEF e
<1>2. /\ k \in Memory
      /\ k.resolved = [e.resolved EXCEPT ![t] = now]
      /\ k.saves = e.saves
      /\ k.deletes = e.deletes
  BY <1>1 DEF CacheEntry, Memory, Cached
<1> HIDE DEF k
<1>3. /\ a \in Memory
      /\ a.resolved = k.resolved
      /\ a.saves = k.saves
      /\ a.deletes = k.deletes
  BY <1>2 DEF Memory, TokenOrNone
<1>4. Resolve(m, t) = SaveSession(a, t, now)
  BY DEF Resolve, e, k, a
<1> HIDE DEF a
<1> DEFINE r == SaveSession(a, t, now)
<1>5. /\ r \in Memory
      /\ r.resolved = a.resolved
      /\ r.saves \subseteq a.saves \cup {t}
      /\ r.deletes = a.deletes
  BY <1>3, SaveSessionFacts
<1> HIDE DEF r
<1>6. /\ r.resolved[t] = now
      /\ \A x \in Token \ {t} : r.resolved[x] \in {m.resolved[x], NotCached}
  BY <1>1, <1>2, <1>3, <1>5 DEF Memory
<1>7. Resolve(m, t) = r
  BY <1>4 DEF r
<1>8. QED
  BY <1>1, <1>2, <1>3, <1>5, <1>6, <1>7

\* forgetToken: t is not cached afterwards, and a DELETE is under way.
LEMMA ForgetFacts ==
  ASSUME NEW m \in Memory, NEW t \in Token
  PROVE  /\ Forget(m, t) \in Memory
         /\ Forget(m, t).resolved = [m.resolved EXCEPT ![t] = NotCached]
         /\ Forget(m, t).saves = m.saves
         /\ Forget(m, t).deletes = m.deletes \cup {t}
<1> DEFINE u == Uncache(m, t)
           f == IF t \in Cached(m) /\ m.active[ClientOf[t]] = t
                  THEN [u EXCEPT !.active[ClientOf[t]] = None]
                  ELSE u
<1>1. /\ u \in Memory
      /\ u.resolved = [m.resolved EXCEPT ![t] = NotCached]
      /\ u.saves = m.saves
      /\ u.deletes = m.deletes
  BY UncacheFacts
<1>2. Forget(m, t) = DeleteSession(f, t)
  BY DEF Forget
<1> HIDE DEF u
<1>3. /\ f \in Memory
      /\ f.resolved = u.resolved
      /\ f.saves = u.saves
      /\ f.deletes = u.deletes
  BY <1>1 DEF Memory, TokenOrNone
<1> HIDE DEF f
<1>4. QED
  BY <1>1, <1>2, <1>3, DeleteSessionFacts

\* One request, or the anonymous logout, on a memory where t may be cached.
Forgets(m, n, t) ==
  /\ n \in Memory
  /\ n.resolved[t] \in {m.resolved[t], NotCached}
  /\ \A x \in Token \ {t} : n.resolved[x] = m.resolved[x]
  /\ n.saves \subseteq m.saves \cup {t}
  /\ n.deletes \subseteq m.deletes \cup {t}

LEMMA RunFacts ==
  ASSUME NEW m \in Memory, NEW t \in Token, NEW kind \in Kind, now \in Nat
  PROVE  /\ Forgets(m, Run(m, t, kind), t)
         /\ kind = "logout" => Run(m, t, kind).resolved[t] = NotCached
         /\ kind = "serve" => Run(m, t, kind).deletes = m.deletes
<1>1. /\ Touch(m, t) \in Memory
      /\ Touch(m, t).resolved = m.resolved
      /\ Touch(m, t).saves \subseteq m.saves \cup {t}
      /\ Touch(m, t).deletes = m.deletes
  BY SaveSessionFacts DEF Touch
<1>2. m.resolved \in [Token -> Nat \cup {NotCached}]
  BY DEF Memory
<1>3. CASE kind = "logout"
  <2> DEFINE u == Touch(m, t)
             f == Forget(u, t)
  <2>1. Run(m, t, kind) = f
    BY <1>3 DEF Run
  <2>2. /\ f \in Memory
        /\ f.resolved = [u.resolved EXCEPT ![t] = NotCached]
        /\ f.saves = u.saves
        /\ f.deletes = u.deletes \cup {t}
    BY <1>1, ForgetFacts
  <2> HIDE DEF f
  <2>3. Forgets(m, f, t) /\ f.resolved[t] = NotCached
    BY <1>1, <1>2, <2>2 DEF Forgets
  <2>4. QED
    BY <1>3, <2>1, <2>3
<1>4. CASE kind = "serve"
  BY <1>1, <1>2, <1>4 DEF Run, Forgets
<1>5. QED
  BY <1>3, <1>4 DEF Kind

LEMMA RunAllFacts ==
  ASSUME NEW m \in Memory, NEW t \in Token, NEW kinds \in SUBSET Kind, now \in Nat,
         NEW n \in RunAll(m, t, kinds)
  PROVE  /\ Forgets(m, n, t)
         /\ "logout" \in kinds => n.resolved[t] = NotCached
         /\ "logout" \notin kinds => n.deletes = m.deletes
<1>0. /\ "serve" \in Kind
      /\ "logout" \in Kind
      /\ m.resolved \in [Token -> Nat \cup {NotCached}]
  BY DEF Kind, Memory
<1>1. CASE kinds = {}
  BY <1>0, <1>1 DEF RunAll, Forgets
<1>2. CASE kinds = {"serve"}
  <2>1. n = Run(m, t, "serve")
    BY <1>2 DEF RunAll
  <2>2. QED
    BY <1>0, <1>2, <2>1, RunFacts
<1>3. CASE kinds = {"logout"}
  <2>1. n = Run(m, t, "logout")
    BY <1>3 DEF RunAll
  <2>2. QED
    BY <1>0, <1>3, <2>1, RunFacts
<1>4. CASE kinds = Kind
  <2>1. kinds # {} /\ kinds # {"serve"} /\ kinds # {"logout"}
    BY <1>4 DEF Kind
  <2>2. \/ n = Run(Run(m, t, "serve"), t, "logout")
        \/ n = Run(Run(m, t, "logout"), t, "serve")
    BY <2>1 DEF RunAll
  <2>3. \A k \in Kind : /\ Forgets(m, Run(m, t, k), t)
                        /\ k = "logout" => Run(m, t, k).resolved[t] = NotCached
    BY RunFacts
  <2>4. CASE n = Run(Run(m, t, "serve"), t, "logout")
    BY <1>0, <1>4, <2>3, <2>4, RunFacts DEF Forgets
  <2>5. CASE n = Run(Run(m, t, "logout"), t, "serve")
    <3> DEFINE l == Run(m, t, "logout")
    <3>1. Forgets(m, l, t) /\ l.resolved[t] = NotCached
      BY <1>0, <2>3
    <3> HIDE DEF l
    <3>2. l \in Memory
      BY <3>1 DEF Forgets
    <3>3. Forgets(l, n, t)
      BY <1>0, <2>5, <3>2, RunFacts DEF l
    <3>4. QED
      BY <1>0, <1>4, <3>1, <3>3 DEF Forgets
  <2>6. QED
    BY <2>2, <2>4, <2>5
<1>5. QED
  BY <1>1, <1>2, <1>3, <1>4 DEF Kind

LEMMA RunAnonymousFacts ==
  ASSUME NEW m \in Memory, NEW t \in Token, NEW kinds \in SUBSET Kind
  PROVE  /\ Forgets(m, RunAnonymous(m, t, kinds), t)
         /\ RunAnonymous(m, t, kinds).saves = m.saves
         /\ "logout" \in kinds => RunAnonymous(m, t, kinds).resolved[t] = NotCached
<1>1. m.resolved \in [Token -> Nat \cup {NotCached}]
  BY DEF Memory
<1>2. CASE "logout" \in kinds
  <2> DEFINE f == Forget(m, t)
  <2>1. RunAnonymous(m, t, kinds) = f
    BY <1>2 DEF RunAnonymous
  <2>2. /\ f \in Memory
        /\ f.resolved = [m.resolved EXCEPT ![t] = NotCached]
        /\ f.saves = m.saves
        /\ f.deletes = m.deletes \cup {t}
    BY ForgetFacts
  <2> HIDE DEF f
  <2>3. Forgets(m, f, t) /\ f.resolved[t] = NotCached
    BY <1>1, <2>2 DEF Forgets
  <2>4. QED
    BY <2>1, <2>2, <2>3
<1>3. CASE "logout" \notin kinds
  BY <1>1, <1>3 DEF RunAnonymous, Forgets
<1>4. QED
  BY <1>2, <1>3
-----------------------------------------------------------------------------
(* What any step does to the memories: at most one process's changes, and   *)
(* it only drops cached entries except where a call settles with a yes; an   *)
(* INSERT is sent for a token that is let through, a DELETE for a token     *)
(* that ended.                                                              *)

Move(p, n) ==
  /\ n \in Memory
  /\ \A t \in Token :
       /\ \/ n.resolved[t] \in {mem[p].resolved[t], NotCached}
          \/ /\ n.resolved[t] = now
             /\ calls[p][t].reply = "client"
             /\ calls'[p][t].reply = "idle"
       /\ t \in n.saves => \/ t \in mem[p].saves
                           \/ CacheHit(p, t)
                           \/ calls[p][t].reply = "client"
       /\ t \in n.deletes => t \in mem[p].deletes \/ t \in ended' \/ Expired(t)

MemoryMoves ==
  \/ mem' = mem
  \/ \E p \in Proc, n \in Memory : mem' = [mem EXCEPT ![p] = n] /\ Move(p, n)

LEMMA MovesBy ==
  ASSUME NEW p \in Proc, NEW n \in Memory, mem' = [mem EXCEPT ![p] = n], Move(p, n)
  PROVE  MemoryMoves
  BY DEF MemoryMoves

\* A memory that only forgot t is a move, if its DELETE is justified.
LEMMA ForgetsMoves ==
  ASSUME TypeOK, NEW p \in Proc, NEW t \in Token, NEW n, Forgets(mem[p], n, t),
         CacheHit(p, t) \/ calls[p][t].reply = "client" \/ n.saves = mem[p].saves,
         n.deletes = mem[p].deletes \/ t \in ended' \/ Expired(t)
  PROVE  n \in Memory /\ Move(p, n)
  BY DEF Forgets, Move

LEMMA RequestMoves ==
  ASSUME TypeOK, NEW p \in Proc, NEW t \in Token, RequestStep(p, t)
  PROVE  MemoryMoves
<1>0. mem[p] \in Memory /\ now \in Nat /\ DOMAIN mem = Proc
  BY DEF TypeOK
<1>1. CASE RequestExpired(p, t)
  <2> DEFINE n == RunAnonymous(mem[p], t, {"logout"})
  <2>1. Forgets(mem[p], n, t) /\ n.saves = mem[p].saves
    BY <1>0, RunAnonymousFacts DEF Kind
  <2>2. mem' = [mem EXCEPT ![p] = n] /\ Expired(t)
    BY <1>1 DEF RequestExpired
  <2> HIDE DEF n
  <2>3. QED
    BY <2>1, <2>2, ForgetsMoves, MovesBy
<1>2. ASSUME NEW kind \in Kind, RequestHit(p, t, kind)
      PROVE  MemoryMoves
  <2> DEFINE n == Run(mem[p], t, kind)
  <2>1. Forgets(mem[p], n, t) /\ (kind = "serve" => n.deletes = mem[p].deletes)
    BY <1>0, RunFacts
  <2>2. mem' = [mem EXCEPT ![p] = n] /\ CacheHit(p, t) /\ (kind = "logout" => t \in ended')
    BY <1>2 DEF RequestHit, CacheHit
  <2> HIDE DEF n
  <2>3. kind \in {"serve", "logout"}
    BY DEF Kind
  <2>4. QED
    BY <2>1, <2>2, <2>3, ForgetsMoves, MovesBy
<1>3. ASSUME NEW kind \in Kind, RequestMiss(p, t, kind)
      PROVE  MemoryMoves
  BY <1>3 DEF RequestMiss, MemoryMoves
<1>4. QED
  BY <1>1, <1>2, <1>3 DEF RequestStep

LEMMA SettleMoves ==
  ASSUME TypeOK, NEW p \in Proc, NEW t \in Token, SettleStep(p, t)
  PROVE  MemoryMoves
<1>0. /\ mem[p] \in Memory
      /\ now \in Nat
      /\ waiting[p][t] \in SUBSET Kind
  BY DEF TypeOK
<1>1. CASE SettleClient(p, t)
  <2> DEFINE r == Resolve(mem[p], t)
  <2>1. PICK n \in RunAll(r, t, waiting[p][t]) : mem' = [mem EXCEPT ![p] = n]
    BY <1>1 DEF SettleClient
  <2>2. /\ r \in Memory
        /\ r.resolved[t] = now
        /\ \A x \in Token \ {t} : r.resolved[x] \in {mem[p].resolved[x], NotCached}
        /\ r.saves \subseteq mem[p].saves \cup {t}
        /\ r.deletes = mem[p].deletes
    BY <1>0, ResolveFacts
  <2>3. /\ calls[p][t].reply = "client"
        /\ calls'[p][t].reply = "idle"
        /\ "logout" \in waiting[p][t] => t \in ended'
    BY <1>1 DEF SettleClient, Settled, NoCall, TypeOK
  <2> HIDE DEF r
  <2>4. /\ Forgets(r, n, t)
        /\ "logout" \notin waiting[p][t] => n.deletes = r.deletes
    BY <1>0, <2>2, RunAllFacts
  <2>5. n \in Memory /\ Move(p, n)
    BY <2>2, <2>3, <2>4 DEF Forgets, Move
  <2>6. QED
    BY <2>1, <2>5, MovesBy
<1>2. CASE SettleRefused(p, t)
  <2> DEFINE m1 == IF calls[p][t].reply = "rejected" THEN Uncache(mem[p], t) ELSE mem[p]
             m2 == RunAnonymous(m1, t, waiting[p][t])
             n  == IF Awaits(p, t) THEN DeleteSession(m2, t) ELSE m2
  <2>1. mem' = [mem EXCEPT ![p] = n] /\ t \in ended'
    BY <1>2 DEF SettleRefused
  <2>2. Forgets(mem[p], m1, t) /\ m1.saves = mem[p].saves
    <3> DEFINE u == Uncache(mem[p], t)
    <3>1. /\ u \in Memory
          /\ u.resolved = [mem[p].resolved EXCEPT ![t] = NotCached]
          /\ u.saves = mem[p].saves
          /\ u.deletes = mem[p].deletes
      BY <1>0, UncacheFacts
    <3> HIDE DEF u
    <3>2. mem[p].resolved \in [Token -> Nat \cup {NotCached}]
      BY <1>0 DEF Memory
    <3>3. Forgets(mem[p], u, t) /\ Forgets(mem[p], mem[p], t)
      BY <1>0, <3>1, <3>2 DEF Forgets
    <3>4. QED
      BY <3>1, <3>3 DEF u
  <2> HIDE DEF m1
  <2>3. m1 \in Memory
    BY <2>2 DEF Forgets
  <2>4. Forgets(m1, m2, t) /\ m2.saves = m1.saves
    BY <1>0, <2>3, RunAnonymousFacts
  <2> HIDE DEF m2
  <2>5. Forgets(m2, n, t) /\ n.saves = m2.saves
    <3> DEFINE d == DeleteSession(m2, t)
    <3>1. m2 \in Memory /\ m2.resolved \in [Token -> Nat \cup {NotCached}]
      BY <2>4 DEF Forgets, Memory
    <3>2. /\ d \in Memory
          /\ d.resolved = m2.resolved
          /\ d.saves = m2.saves
          /\ d.deletes = m2.deletes \cup {t}
      BY <3>1, DeleteSessionFacts
    <3> HIDE DEF d
    <3>3. Forgets(m2, d, t) /\ Forgets(m2, m2, t)
      BY <3>1, <3>2 DEF Forgets
    <3>4. QED
      BY <3>2, <3>3 DEF d
  <2> HIDE DEF n
  <2>6. Forgets(mem[p], n, t) /\ n.saves = mem[p].saves
    BY <2>2, <2>4, <2>5 DEF Forgets
  <2>7. QED
    BY <2>1, <2>6, ForgetsMoves, MovesBy
<1>3. CASE SettleOutage(p, t)
  BY <1>3 DEF SettleOutage, MemoryMoves
<1>4. QED
  BY <1>1, <1>2, <1>3 DEF SettleStep

LEMMA StatementMoves ==
  ASSUME TypeOK, NEW p \in Proc, NEW t \in Token, StatementStep(p, t)
  PROVE  MemoryMoves
<1> DEFINE m == mem[p]
<1>0. /\ m \in Memory
      /\ now \in Nat
      /\ m.saves \in SUBSET Token
      /\ m.deletes \in SUBSET Token
  BY DEF TypeOK, Memory
<1>1. CASE SaveLands(p, t)
  <2>1. PICK left \in Ended(m.saves, t) :
          mem' = [mem EXCEPT ![p] = [SaveReturned(m, t, now) EXCEPT !.saves = left]]
    BY <1>1 DEF SaveLands
  <2> DEFINE n == [SaveReturned(m, t, now) EXCEPT !.saves = left]
  <2>2. left \subseteq m.saves
    BY <2>1 DEF Ended
  <2>3. /\ n \in Memory
        /\ n.resolved = m.resolved
        /\ n.saves = left
        /\ n.deletes = m.deletes
    BY <1>0, <2>2 DEF SaveReturned, Memory, Written
  <2> HIDE DEF n
  <2>4. Move(p, n)
    BY <2>2, <2>3 DEF Move
  <2>5. mem' = [mem EXCEPT ![p] = n]
    BY <2>1 DEF n
  <2>6. QED
    BY <2>3, <2>4, <2>5, MovesBy
<1>2. ASSUME NEW left \in Ended(m.saves, t), mem' = [mem EXCEPT ![p].saves = left]
      PROVE  MemoryMoves
  <2> DEFINE n == [m EXCEPT !.saves = left]
  <2>1. left \subseteq m.saves
    BY DEF Ended
  <2>2. /\ n \in Memory
        /\ n.resolved = m.resolved
        /\ n.saves = left
        /\ n.deletes = m.deletes
    BY <1>0, <2>1 DEF Memory
  <2>3. mem' = [mem EXCEPT ![p] = n]
    BY <1>2
  <2> HIDE DEF n
  <2>4. Move(p, n)
    BY <2>1, <2>2 DEF Move
  <2>5. QED
    BY <2>2, <2>3, <2>4, MovesBy
<1>3. ASSUME NEW left \in Ended(m.deletes, t), mem' = [mem EXCEPT ![p].deletes = left]
      PROVE  MemoryMoves
  <2> DEFINE n == [m EXCEPT !.deletes = left]
  <2>1. left \subseteq m.deletes
    BY DEF Ended
  <2>2. /\ n \in Memory
        /\ n.resolved = m.resolved
        /\ n.saves = m.saves
        /\ n.deletes = left
    BY <1>0, <2>1 DEF Memory
  <2>3. mem' = [mem EXCEPT ![p] = n]
    BY <1>3
  <2> HIDE DEF n
  <2>4. Move(p, n)
    BY <2>1, <2>2 DEF Move
  <2>5. QED
    BY <2>2, <2>3, <2>4, MovesBy
<1>4. CASE DeleteLands(p, t)
  BY <1>3, <1>4 DEF DeleteLands
<1>5. CASE SaveFails(p, t)
  BY <1>2, <1>5 DEF SaveFails
<1>6. CASE DeleteFails(p, t)
  BY <1>3, <1>6 DEF DeleteFails
<1>7. QED
  BY <1>1, <1>4, <1>5, <1>6 DEF StatementStep

LEMMA SyncMoves ==
  ASSUME TypeOK, NEW p \in Proc, SyncStep(p)
  PROVE  MemoryMoves
<1> DEFINE m == mem[p]
<1>0. m \in Memory /\ sync[p] \in Sync
  BY DEF TypeOK
<1>1. CASE SyncStart(p)
  <2> DEFINE live == [c \in Client |-> LET t == m.active[c]
                                       IN  IF t # None /\ Exp[t] > now THEN t ELSE None]
             n == [m EXCEPT !.active = live]
  <2>1. mem' = [mem EXCEPT ![p] = n]
    BY <1>1 DEF SyncStart
  <2>2. live \in [Client -> TokenOrNone]
    BY <1>0 DEF Memory, TokenOrNone
  <2> HIDE DEF live
  <2>3. /\ n \in Memory
        /\ n.resolved = m.resolved
        /\ n.saves = m.saves
        /\ n.deletes = m.deletes
    BY <1>0, <2>2 DEF Memory
  <2> HIDE DEF n
  <2>4. Move(p, n)
    BY <2>3 DEF Move
  <2>5. QED
    BY <2>1, <2>3, <2>4, MovesBy
<1>2. ASSUME NEW c \in Client, SyncExpired(p, c)
      PROVE  MemoryMoves
  <2> DEFINE t == Stored(p, c)
             n == DeleteSession(m, t)
  <2>1. /\ mem' = [mem EXCEPT ![p] = n]
        /\ Expired(t)
        /\ t # None
    BY <1>2 DEF SyncExpired, SyncTurn
  <2>2. t \in Token
    BY <1>0, <2>1 DEF Stored, Sync, TokenOrNone
  <2> HIDE DEF t
  <2>3. /\ n \in Memory
        /\ n.resolved = m.resolved
        /\ n.saves = m.saves
        /\ n.deletes = m.deletes \cup {t}
    BY <1>0, <2>2, DeleteSessionFacts
  <2> HIDE DEF n
  <2>4. Move(p, n)
    BY <2>1, <2>2, <2>3 DEF Move
  <2>5. QED
    BY <2>1, <2>3, <2>4, MovesBy
<1>3. CASE SyncLoad(p) \/ SyncDeleted(p) \/ SyncReturn(p)
  BY <1>3 DEF SyncLoad, SyncDeleted, SyncReturn, MemoryMoves
<1>4. ASSUME NEW c \in Client, SyncSkip(p, c) \/ SyncHit(p, c) \/ SyncAsks(p, c)
      PROVE  MemoryMoves
  BY <1>4 DEF SyncSkip, SyncHit, SyncAsks, MemoryMoves
<1>5. QED
  BY <1>1, <1>2, <1>3, <1>4 DEF SyncStep

LEMMA RestartMoves ==
  ASSUME NEW p \in Proc, Restart(p)
  PROVE  MemoryMoves
<1>1. NoMemory \in Memory
  BY DEF NoMemory, Memory, NeverWritten, Written, TokenOrNone
<1>2. /\ NoMemory.saves = {}
      /\ NoMemory.deletes = {}
      /\ \A t \in Token : NoMemory.resolved[t] = NotCached
  BY DEF NoMemory
<1>3. mem' = [mem EXCEPT ![p] = NoMemory]
  BY DEF Restart
<1>4. Move(p, NoMemory)
  BY <1>1, <1>2 DEF Move
<1>5. QED
  BY <1>1, <1>3, <1>4, MovesBy

LEMMA EveryStepMoves ==
  ASSUME TypeOK, [Next]_vars
  PROVE  MemoryMoves
<1>1. CASE Tick
  BY <1>1 DEF Tick, MemoryMoves
<1>2. ASSUME NEW t \in Token, NEW s \in Standing, UpstreamChanges(t, s)
      PROVE  MemoryMoves
  BY <1>2 DEF UpstreamChanges, MemoryMoves
<1>3. ASSUME NEW p \in Proc, NEW t \in Token, CallStep(p, t)
      PROVE  MemoryMoves
  BY <1>3 DEF CallStep, Answer, CallFails, MemoryMoves
<1>4. CASE UNCHANGED vars
  BY <1>4 DEF vars, MemoryMoves
<1>5. QED
  BY <1>1, <1>2, <1>3, <1>4, RequestMoves, SettleMoves, StatementMoves, SyncMoves,
     RestartMoves DEF Next

-----------------------------------------------------------------------------
(* Type correctness.                                                        *)

LEMMA InitTyped == Init => TypeOK
<1> SUFFICES ASSUME Init
             PROVE  TypeOK
  OBVIOUS
<1> USE DEF Init, TypeOK
<1>1. NoMemory \in Memory
  BY DEF NoMemory, Memory, NeverWritten, Written, TokenOrNone
<1>2. NoCall \in Call
  BY DEF NoCall, Call
<1>3. NoSync \in Sync
  BY DEF NoSync, Sync, TokenOrNone
<1>4. NoRow \in Row
  BY DEF NoRow, Row
<1>5. /\ standing \in [Token -> Standing]
      /\ vouchedAt \in [Token -> Nat \cup {NeverVouched}]
  BY DEF Standing
<1>6. QED
  BY <1>1, <1>2, <1>3, <1>4, <1>5

\* The upsert keeps the table's type.
LEMMA UpsertTyped ==
  ASSUME NEW row \in Row, NEW t \in Token, NEW n \in Nat
  PROVE  Upsert(row, t, n) \in Row
<1>1. KeptExpiry(row, t, n) \in Nat
  BY DEF KeptExpiry, Row
<1>2. QED
  BY <1>1 DEF Upsert, Row

\* What the steps do to the variables other than mem.
OthersTyped ==
  /\ now' \in Nat
  /\ standing' \in [Token -> Standing]
  /\ vouchedAt' \in [Token -> Nat \cup {NeverVouched}]
  /\ calls' \in [Proc -> [Token -> Call]]
  /\ waiting' \in [Proc -> [Token -> SUBSET Kind]]
  /\ sync' \in [Proc -> Sync]
  /\ rows' \in [Client -> Row]
  /\ ended' \in SUBSET Token
  /\ gone' \in SUBSET (Proc \X Token)

LEMMA AskTyped ==
  ASSUME TypeOK, NEW p \in Proc, NEW t \in Token, Ask(p, t)
  PROVE  calls' \in [Proc -> [Token -> Call]]
<1> DEFINE asked == [reply |-> "asked", since |-> now]
<1>1. asked \in Call
  BY DEF TypeOK, Call
<1>2. calls' = calls \/ calls' = [calls EXCEPT ![p][t] = asked]
  BY DEF Ask
<1> HIDE DEF asked
<1>3. calls \in [Proc -> [Token -> Call]]
  BY DEF TypeOK
<1>4. [calls EXCEPT ![p][t] = asked] \in [Proc -> [Token -> Call]]
  BY <1>1, <1>3
<1>5. QED
  BY <1>2, <1>3, <1>4

LEMMA RequestTyped ==
  ASSUME TypeOK, NEW p \in Proc, NEW t \in Token, RequestStep(p, t)
  PROVE  OthersTyped
<1> USE DEF OthersTyped
<1>0. /\ Presented(t) \in SUBSET (Proc \X Token)
      /\ \A kinds : LoggedOut(p, t, kinds) \in SUBSET (Proc \X Token)
      /\ <<p, t>> \in Proc \X Token
  BY DEF TypeOK, Presented, LoggedOut
<1>1. CASE RequestExpired(p, t)
  BY <1>0, <1>1 DEF RequestExpired, TypeOK
<1>2. ASSUME NEW kind \in Kind, RequestHit(p, t, kind)
      PROVE  OthersTyped
  BY <1>0, <1>2 DEF RequestHit, TypeOK
<1>3. ASSUME NEW kind \in Kind, RequestMiss(p, t, kind)
      PROVE  OthersTyped
  <2>1. calls' \in [Proc -> [Token -> Call]]
    BY <1>3, AskTyped DEF RequestMiss
  <2>2. waiting' \in [Proc -> [Token -> SUBSET Kind]]
    BY <1>3 DEF RequestMiss, TypeOK
  <2>3. QED
    BY <1>0, <1>3, <2>1, <2>2 DEF RequestMiss, TypeOK
<1>4. QED
  BY <1>1, <1>2, <1>3 DEF RequestStep

LEMMA CallTyped ==
  ASSUME TypeOK, NEW p \in Proc, NEW t \in Token, CallStep(p, t)
  PROVE  OthersTyped
<1> USE DEF OthersTyped
<1>0. /\ calls[p][t] \in Call
      /\ standing[t] \in Answers
      /\ "outage" \in Answers
  BY DEF TypeOK, Answers
<1>1. \A r \in Answers : [calls[p][t] EXCEPT !.reply = r] \in Call
  BY <1>0 DEF Call
<1>2. CASE Answer(p, t)
  BY <1>0, <1>1, <1>2 DEF Answer, TypeOK
<1>3. CASE CallFails(p, t)
  BY <1>0, <1>1, <1>3 DEF CallFails, TypeOK
<1>4. QED
  BY <1>2, <1>3 DEF CallStep

\* The moves of a syncClients round keep it a round.
LEMMA RoundsTyped ==
  ASSUME NEW s \in Sync, NEW t \in Token
  PROVE  /\ SyncGets(s, t) \in Sync
         /\ SyncDrops(s) \in Sync
         /\ SyncSkips(s) \in Sync
         /\ [s EXCEPT !.pc = "ask", !.cur = t] \in Sync
         /\ [s EXCEPT !.cur = t] \in Sync
         /\ \A c \in Client : [s EXCEPT !.todo[c] = None] \in Sync
  BY DEF SyncGets, SyncDrops, SyncSkips, Sync, TokenOrNone

LEMMA SettleTyped ==
  ASSUME TypeOK, NEW p \in Proc, NEW t \in Token, SettleStep(p, t)
  PROVE  OthersTyped
<1> USE DEF OthersTyped
<1>0. /\ sync[p] \in Sync
      /\ \A kinds : LoggedOut(p, t, kinds) \in SUBSET (Proc \X Token)
  BY DEF TypeOK, LoggedOut
<1>1. ASSUME Settled(p, t)
      PROVE  /\ calls' \in [Proc -> [Token -> Call]]
             /\ waiting' \in [Proc -> [Token -> SUBSET Kind]]
  BY <1>1 DEF Settled, TypeOK, NoCall, Call
<1>2. /\ SyncGets(sync[p], t) \in Sync
      /\ SyncDrops(sync[p]) \in Sync
      /\ SyncSkips(sync[p]) \in Sync
  BY <1>0, RoundsTyped
<1>3. CASE SettleClient(p, t)
  BY <1>0, <1>1, <1>2, <1>3 DEF SettleClient, TypeOK
<1>4. CASE SettleRefused(p, t)
  BY <1>0, <1>1, <1>2, <1>4 DEF SettleRefused, TypeOK
<1>5. CASE SettleOutage(p, t)
  BY <1>0, <1>1, <1>2, <1>5 DEF SettleOutage, TypeOK
<1>6. QED
  BY <1>3, <1>4, <1>5 DEF SettleStep

LEMMA StatementTyped ==
  ASSUME TypeOK, NEW p \in Proc, NEW t \in Token, StatementStep(p, t)
  PROVE  OthersTyped
<1> USE DEF OthersTyped
<1>0. /\ ClientOf[t] \in Client
      /\ Upsert(rows[ClientOf[t]], t, now) \in Row
      /\ NoRow \in Row
  BY UpsertTyped DEF TypeOK, NoRow, Row
<1>1. CASE SaveLands(p, t)
  BY <1>0, <1>1 DEF SaveLands, TypeOK
<1>2. CASE DeleteLands(p, t)
  <2>1. DeleteRows(rows, t) \in [Client -> Row]
    BY <1>0 DEF DeleteRows, TypeOK
  <2>2. QED
    BY <1>2, <2>1 DEF DeleteLands, TypeOK
<1>3. CASE SaveFails(p, t)
  <2>1. \/ rows' = rows
        \/ rows' = [rows EXCEPT ![ClientOf[t]] = Upsert(rows[ClientOf[t]], t, now)]
    BY <1>3 DEF SaveFails
  <2>2. rows' \in [Client -> Row]
    BY <1>0, <2>1 DEF TypeOK
  <2>3. QED
    BY <1>3, <2>2 DEF SaveFails, TypeOK
<1>4. CASE DeleteFails(p, t)
  BY <1>4 DEF DeleteFails, TypeOK
<1>5. QED
  BY <1>1, <1>2, <1>3, <1>4 DEF StatementStep

LEMMA SyncTyped ==
  ASSUME TypeOK, NEW p \in Proc, SyncStep(p)
  PROVE  OthersTyped
<1> USE DEF OthersTyped
<1>0. /\ sync[p] \in Sync
      /\ NoSync \in Sync
      /\ NoSync.todo \in [Client -> TokenOrNone]
  BY DEF TypeOK, NoSync, Sync, TokenOrNone
<1>1. ASSUME NEW s \in Sync, sync' = [sync EXCEPT ![p] = s]
      PROVE  sync' \in [Proc -> Sync]
  BY <1>1 DEF TypeOK
<1>2. CASE SyncStart(p)
  <2> DEFINE live == [c \in Client |-> LET t == mem[p].active[c]
                                       IN  IF t # None /\ Exp[t] > now THEN t ELSE None]
             s == [NoSync EXCEPT !.pc = "load", !.byKey = live]
  <2>1. live \in [Client -> TokenOrNone]
    <3>1. mem[p].active \in [Client -> TokenOrNone]
      BY DEF TypeOK, Memory
    <3>2. QED
      BY <3>1 DEF TokenOrNone
  <2>2. sync' = [sync EXCEPT ![p] = s]
    BY <1>2 DEF SyncStart
  <2> HIDE DEF live
  <2>3. s \in Sync
    BY <1>0, <2>1 DEF Sync
  <2>4. QED
    BY <1>1, <1>2, <2>2, <2>3 DEF SyncStart, TypeOK
<1>3. CASE SyncLoad(p)
  <2>1. LoadRows(rows, now) \in [Client -> TokenOrNone]
    BY DEF LoadRows, TypeOK, Row, TokenOrNone
  <2>2. PICK todo \in [Client -> TokenOrNone] :
          sync' = [sync EXCEPT ![p] = [sync[p] EXCEPT !.pc = "check", !.todo = todo]]
    BY <1>0, <1>3, <2>1 DEF SyncLoad, TypeOK
  <2>3. [sync[p] EXCEPT !.pc = "check", !.todo = todo] \in Sync
    BY <1>0 DEF Sync
  <2>4. QED
    BY <1>1, <1>3, <2>2, <2>3 DEF SyncLoad, TypeOK
<1>4. CASE SyncDeleted(p) \/ SyncReturn(p)
  <2>1. SyncSkips(sync[p]) \in Sync
    BY <1>0 DEF SyncSkips, Sync, TokenOrNone
  <2>2. QED
    BY <1>0, <1>1, <1>4, <2>1 DEF SyncDeleted, SyncReturn, TypeOK
<1>5. ASSUME NEW c \in Client, SyncTurn(p, c)
      PROVE  /\ Taken(p, c) \in Sync
             /\ Stored(p, c) \in Token
             /\ Presented(Stored(p, c)) \in SUBSET (Proc \X Token)
  BY <1>0, <1>5 DEF SyncTurn, Taken, Stored, Presented, Sync, TokenOrNone, TypeOK
<1>6. ASSUME NEW c \in Client, SyncSkip(p, c)
      PROVE  OthersTyped
  BY <1>1, <1>5, <1>6 DEF SyncSkip, TypeOK
<1>7. ASSUME NEW c \in Client, SyncHit(p, c)
      PROVE  OthersTyped
  <2>1. Taken(p, c) \in Sync /\ Stored(p, c) \in Token
    BY <1>5, <1>7 DEF SyncHit
  <2>2. SyncGets(Taken(p, c), Stored(p, c)) \in Sync
    BY <2>1, RoundsTyped
  <2>3. QED
    BY <1>1, <1>5, <1>7, <2>2 DEF SyncHit, TypeOK
<1>8. ASSUME NEW c \in Client, SyncExpired(p, c)
      PROVE  OthersTyped
  <2> DEFINE s == [Taken(p, c) EXCEPT !.cur = Stored(p, c)]
  <2>1. Taken(p, c) \in Sync /\ Stored(p, c) \in Token
    BY <1>5, <1>8 DEF SyncExpired
  <2>2. s \in Sync
    BY <2>1, RoundsTyped
  <2>3. sync' = [sync EXCEPT ![p] = SyncDrops(s)]
    BY <1>8 DEF SyncExpired
  <2> HIDE DEF s
  <2>4. SyncDrops(s) \in Sync
    BY <2>1, <2>2, RoundsTyped
  <2>5. QED
    BY <1>1, <1>8, <2>3, <2>4 DEF SyncExpired, TypeOK
<1>9. ASSUME NEW c \in Client, SyncAsks(p, c)
      PROVE  OthersTyped
  <2>1. Taken(p, c) \in Sync /\ Stored(p, c) \in Token
    BY <1>5, <1>9 DEF SyncAsks
  <2>2. [Taken(p, c) EXCEPT !.pc = "ask", !.cur = Stored(p, c)] \in Sync
    BY <2>1, RoundsTyped
  <2>3. calls' \in [Proc -> [Token -> Call]]
    BY <1>9, <2>1, AskTyped DEF SyncAsks
  <2>4. QED
    BY <1>1, <1>5, <1>9, <2>2, <2>3 DEF SyncAsks, TypeOK
<1>10. QED
  BY <1>2, <1>3, <1>4, <1>6, <1>7, <1>8, <1>9 DEF SyncStep

LEMMA NextTyped == TypeOK /\ [Next]_vars => TypeOK'
<1> SUFFICES ASSUME TypeOK, [Next]_vars
             PROVE  TypeOK'
  OBVIOUS
<1>1. mem' \in [Proc -> Memory]
  BY EveryStepMoves DEF MemoryMoves, TypeOK
<1>2. OthersTyped
  <2>1. CASE Tick
    BY <2>1 DEF Tick, TypeOK, OthersTyped
  <2>2. ASSUME NEW t \in Token, NEW s \in Standing, UpstreamChanges(t, s)
        PROVE  OthersTyped
    BY <2>2 DEF UpstreamChanges, TypeOK, OthersTyped
  <2>3. ASSUME NEW p \in Proc, Restart(p)
        PROVE  OthersTyped
    <3>1. NoCall \in Call /\ NoSync \in Sync
      BY DEF NoCall, Call, NoSync, Sync, TokenOrNone
    <3>2. QED
      BY <2>3, <3>1 DEF Restart, TypeOK, OthersTyped
  <2>4. CASE UNCHANGED vars
    BY <2>4 DEF vars, TypeOK, OthersTyped
  <2>5. QED
    BY <2>1, <2>2, <2>3, <2>4, RequestTyped, CallTyped, SettleTyped, StatementTyped,
       SyncTyped DEF Next
<1>3. QED
  BY <1>1, <1>2 DEF OthersTyped, TypeOK

(* Every reachable state has the types the model declares: no operation of  *)
(* the backend leaves a half-built entry, round or row behind.              *)
THEOREM TypeCorrect == Safety => []TypeOK
  BY InitTyped, NextTyped, PTL DEF Safety

-----------------------------------------------------------------------------
(* The calls.  A call never outlives its abort timer, and one that was      *)
(* answered yes was answered after it was sent.                             *)

CallInv ==
  /\ \A t \in Token : vouchedAt[t] <= now
  /\ \A p \in Proc, t \in Token :
       calls[p][t].reply # "idle" => /\ calls[p][t].since <= now
                                     /\ now <= calls[p][t].since + Timeout
  /\ \A p \in Proc, t \in Token :
       calls[p][t].reply = "client" => /\ vouchedAt[t] # NeverVouched
                                       /\ calls[p][t].since <= vouchedAt[t]

\* Every step but the clock's and the upstream's answers.
CallsMove ==
  /\ now' = now
  /\ vouchedAt' = vouchedAt
  /\ \A p \in Proc, t \in Token :
       \/ calls'[p][t] = calls[p][t]
       \/ calls'[p][t].reply = "idle"
       \/ /\ calls[p][t].reply = "idle"
          /\ calls'[p][t].reply = "asked"
          /\ calls'[p][t].since = now
          /\ ~CacheHit(p, t)
       \/ /\ calls[p][t].reply # "idle"
          /\ calls'[p][t].reply = "outage"
          /\ calls'[p][t].since = calls[p][t].since

LEMMA AskMoves ==
  ASSUME TypeOK, NEW q \in Proc, NEW x \in Token, Ask(q, x),
         ~CacheHit(q, x), now' = now, vouchedAt' = vouchedAt
  PROVE  CallsMove
<1>1. \/ calls' = calls
      \/ /\ calls' = [calls EXCEPT ![q][x] = [reply |-> "asked", since |-> now]]
         /\ calls[q][x].reply = "idle"
  BY DEF Ask
<1>2. calls \in [Proc -> [Token -> Call]]
  BY DEF TypeOK
<1>3. QED
  BY <1>1, <1>2 DEF CallsMove

LEMMA SettledMoves ==
  ASSUME TypeOK, NEW q \in Proc, NEW x \in Token, Settled(q, x),
         now' = now, vouchedAt' = vouchedAt
  PROVE  CallsMove
<1>1. calls' = [calls EXCEPT ![q][x] = NoCall] /\ NoCall.reply = "idle"
  BY DEF Settled, NoCall
<1>2. calls \in [Proc -> [Token -> Call]]
  BY DEF TypeOK
<1>3. QED
  BY <1>1, <1>2 DEF CallsMove

LEMMA CallCases ==
  ASSUME TypeOK, [Next]_vars
  PROVE  \/ Tick
         \/ \E p \in Proc, t \in Token : Answer(p, t)
         \/ CallsMove
<1> SUFFICES ASSUME ~Tick, \A p \in Proc, t \in Token : ~Answer(p, t)
             PROVE  CallsMove
  OBVIOUS
<1>0. calls \in [Proc -> [Token -> Call]]
  BY DEF TypeOK
<1>1. ASSUME UNCHANGED <<now, vouchedAt, calls>>
      PROVE  CallsMove
  BY <1>1 DEF CallsMove
<1>2. ASSUME NEW t \in Token, NEW s \in Standing, UpstreamChanges(t, s)
      PROVE  CallsMove
  BY <1>1, <1>2 DEF UpstreamChanges
<1>3. ASSUME NEW p \in Proc, NEW t \in Token, RequestStep(p, t)
      PROVE  CallsMove
  <2>1. CASE RequestExpired(p, t)
    BY <1>1, <2>1 DEF RequestExpired
  <2>2. ASSUME NEW kind \in Kind, RequestHit(p, t, kind) \/ RequestMiss(p, t, kind)
        PROVE  CallsMove
    BY <1>1, <2>2, AskMoves DEF RequestHit, RequestMiss, CacheHit
  <2>3. QED
    BY <1>3, <2>1, <2>2 DEF RequestStep
<1>4. ASSUME NEW p \in Proc, NEW t \in Token, CallFails(p, t)
      PROVE  CallsMove
  <2>1. /\ calls' = [calls EXCEPT ![p][t].reply = "outage"]
        /\ calls[p][t].reply # "idle"
        /\ now' = now
        /\ vouchedAt' = vouchedAt
    BY <1>4 DEF CallFails
  <2>2. QED
    BY <1>0, <2>1 DEF CallsMove, Call
<1>5. ASSUME NEW p \in Proc, NEW t \in Token, SettleStep(p, t)
      PROVE  CallsMove
  BY <1>5, SettledMoves DEF SettleStep, SettleClient, SettleRefused, SettleOutage
<1>6. ASSUME NEW p \in Proc, NEW t \in Token, StatementStep(p, t)
      PROVE  CallsMove
  BY <1>1, <1>6 DEF StatementStep, SaveLands, DeleteLands, SaveFails, DeleteFails
<1>7. ASSUME NEW p \in Proc, SyncStep(p)
      PROVE  CallsMove
  <2>1. ASSUME NEW c \in Client, SyncAsks(p, c)
        PROVE  CallsMove
    <3>1. Stored(p, c) \in Token
      BY <2>1 DEF SyncAsks, SyncTurn, Stored, TypeOK, Sync, TokenOrNone
    <3>2. QED
      BY <2>1, <3>1, AskMoves DEF SyncAsks, CacheHit
  <2>2. CASE SyncStart(p) \/ SyncLoad(p) \/ SyncDeleted(p) \/ SyncReturn(p)
    BY <1>1, <2>2 DEF SyncStart, SyncLoad, SyncDeleted, SyncReturn
  <2>3. ASSUME NEW c \in Client, SyncSkip(p, c) \/ SyncHit(p, c) \/ SyncExpired(p, c)
        PROVE  CallsMove
    BY <1>1, <2>3 DEF SyncSkip, SyncHit, SyncExpired
  <2>4. QED
    BY <1>7, <2>1, <2>2, <2>3 DEF SyncStep
<1>8. ASSUME NEW p \in Proc, Restart(p)
      PROVE  CallsMove
  BY <1>0, <1>8 DEF Restart, CallsMove, NoCall
<1>9. CASE UNCHANGED vars
  BY <1>1, <1>9 DEF vars
<1>10. WebProc \subseteq Proc /\ SyncProc \subseteq Proc
  BY ContextAssumption DEF ContextAssumption
<1>11. QED
  BY <1>2, <1>3, <1>4, <1>5, <1>6, <1>7, <1>8, <1>9, <1>10 DEF Next, CallStep

LEMMA InitCalls == Init => CallInv
  BY DEF Init, CallInv, NoCall, NeverVouched

LEMMA NextCalls == TypeOK /\ CallInv /\ [Next]_vars => CallInv'
<1> SUFFICES ASSUME TypeOK, CallInv, [Next]_vars
             PROVE  CallInv'
  OBVIOUS
<1>0. /\ calls \in [Proc -> [Token -> Call]]
      /\ vouchedAt \in [Token -> Nat \cup {NeverVouched}]
      /\ now \in Nat
  BY DEF TypeOK
<1>s. /\ \A p \in Proc, t \in Token : calls[p][t].since \in Nat
      /\ Timeout \in Nat
  BY <1>0, ContextAssumption DEF Call, ContextAssumption
<1>1. CASE Tick
  <2>1. /\ now' = now + 1
        /\ vouchedAt' = vouchedAt
        /\ calls' = calls
        /\ \A p \in Proc, t \in Token :
             calls[p][t].reply # "idle" => now < calls[p][t].since + Timeout
    BY <1>1 DEF Tick
  <2>2. \A t \in Token : vouchedAt'[t] <= now'
    BY <1>0, <2>1 DEF CallInv, NeverVouched
  <2>3. \A p \in Proc, t \in Token :
          calls'[p][t].reply # "idle" => /\ calls'[p][t].since <= now'
                                         /\ now' <= calls'[p][t].since + Timeout
    BY <1>0, <1>s, <2>1 DEF CallInv
  <2>4. QED
    BY <2>1, <2>2, <2>3 DEF CallInv
<1>2. ASSUME NEW p \in Proc, NEW t \in Token, Answer(p, t)
      PROVE  CallInv'
  <2>1. /\ calls' = [calls EXCEPT ![p][t].reply = standing[t]]
        /\ calls[p][t].reply = "asked"
        /\ now' = now
        /\ vouchedAt' = IF standing[t] = "client" THEN [vouchedAt EXCEPT ![t] = now]
                                                  ELSE vouchedAt
    BY <1>2 DEF Answer
  <2>2. \A q \in Proc, x \in Token :
          /\ calls'[q][x].since = calls[q][x].since
          /\ calls'[q][x].reply # "idle" => calls[q][x].reply # "idle"
          /\ calls'[q][x].reply = "client" =>
               calls[q][x].reply = "client" \/ (x = t /\ standing[t] = "client")
    BY <1>0, <2>1 DEF Call
  <2>3. \A x \in Token : /\ vouchedAt'[x] \in {vouchedAt[x], now}
                         /\ x = t /\ standing[t] = "client" => vouchedAt'[x] = now
    BY <1>0, <2>1
  <2>4. QED
    BY <1>0, <1>s, <2>1, <2>2, <2>3 DEF CallInv, NeverVouched
<1>3. CASE CallsMove
  <2>1. \A p \in Proc, t \in Token :
          calls'[p][t].reply # "idle" => /\ calls'[p][t].since <= now
                                         /\ now <= calls'[p][t].since + Timeout
    BY <1>0, <1>s, <1>3 DEF CallsMove, CallInv
  <2>2. \A p \in Proc, t \in Token :
          calls'[p][t].reply = "client" => calls'[p][t] = calls[p][t]
    BY <1>3 DEF CallsMove
  <2>3. QED
    BY <1>3, <2>1, <2>2 DEF CallsMove, CallInv
<1>4. QED
  BY <1>1, <1>2, <1>3, CallCases

-----------------------------------------------------------------------------
(* ClientContext implements AccessLease.                                    *)

TheLease == [p \in Proc |-> [t \in Token |->
              IF mem[p].resolved[t] = NotCached THEN 0
                                                ELSE mem[p].resolved[t] + ValidTTL]]

LEMMA InitLease == Init => Lease!Init
  BY DEF Init, Lease!Init, NoMemory, NeverVouched, Lease!NeverVouched

\* A process's move keeps, gives up or is granted each lease.
LEMMA MoveDecides ==
  ASSUME TypeOK, TypeOK', CallInv, NEW p \in Proc, NEW n \in Memory,
         mem' = [mem EXCEPT ![p] = n], Move(p, n), now' = now, vouchedAt' = vouchedAt
  PROVE  Lease!Decide(p)
<1>0. ValidTTL \in Nat /\ Timeout \in Nat
  BY ContextAssumption DEF ContextAssumption
<1>1. /\ mem \in [Proc -> Memory]
      /\ now \in Nat
      /\ vouchedAt \in [Token -> Nat \cup {NeverVouched}]
      /\ \A t \in Token : calls[p][t].since \in Nat
  BY DEF TypeOK, Call
<1>2. /\ mem'[p] = n
      /\ \A q \in Proc \ {p} : mem'[q] = mem[q]
  BY <1>1
<1>3. TheLease' \in [Proc -> [Token -> Nat]]
  <2>1. \A q \in Proc, t \in Token : mem'[q].resolved[t] \in Nat \cup {NotCached}
    BY DEF TypeOK, Memory
  <2>2. QED
    BY <1>0, <2>1 DEF TheLease
<1>4. ASSUME NEW t \in Token
      PROVE  TheLease'[p][t] \in {TheLease[p][t], 0} \cup Lease!Offered(t)
  <2>1. CASE n.resolved[t] \in {mem[p].resolved[t], NotCached}
    BY <1>2, <2>1 DEF TheLease
  <2>2. CASE n.resolved[t] = now /\ calls[p][t].reply = "client"
    <3>1. vouchedAt[t] # NeverVouched /\ now <= vouchedAt[t] + Timeout
      BY <1>0, <1>1, <2>2 DEF CallInv, NeverVouched
    <3>2. Lease!Offered(t) = {now + ValidTTL}
      BY <3>1 DEF Lease!Offered, Lease!MayGrant, Lease!NeverVouched, NeverVouched
    <3>3. TheLease'[p][t] = now + ValidTTL
      BY <1>1, <1>2, <2>2 DEF TheLease, NotCached
    <3>4. QED
      BY <3>2, <3>3
  <2>3. QED
    BY <2>1, <2>2 DEF Move
<1>5. \A q \in Proc \ {p} : TheLease'[q] = TheLease[q]
  BY <1>2 DEF TheLease
<1>6. QED
  BY <1>3, <1>4, <1>5 DEF Lease!Decide, TheLease

LEMMA NextLease ==
  ASSUME TypeOK, TypeOK', CallInv, [Next]_vars
  PROVE  [Lease!Next]_(Lease!vars)
<1>1. CASE Tick
  BY <1>1 DEF Tick, Lease!Next, Lease!Tick
<1>2. ASSUME NEW p \in Proc, NEW t \in Token, Answer(p, t)
      PROVE  [Lease!Next]_(Lease!vars)
  <2>1. CASE standing[t] = "client"
    BY <1>2, <2>1 DEF Answer, Lease!Next, Lease!Vouch
  <2>2. CASE standing[t] # "client"
    BY <1>2, <2>2 DEF Answer, Lease!vars
  <2>3. QED
    BY <2>1, <2>2
<1>3. CASE CallsMove
  <2>1. now' = now /\ vouchedAt' = vouchedAt
    BY <1>3 DEF CallsMove
  <2>2. CASE mem' = mem
    BY <2>1, <2>2 DEF Lease!vars
  <2>3. ASSUME NEW p \in Proc, NEW n \in Memory, mem' = [mem EXCEPT ![p] = n], Move(p, n)
        PROVE  Lease!Next
    BY <2>1, <2>3, MoveDecides DEF Lease!Next
  <2>4. QED
    BY <2>2, <2>3, EveryStepMoves DEF MemoryMoves
<1>4. QED
  BY <1>1, <1>2, <1>3, CallCases

LEMMA CallsCorrect == Safety => []CallInv
  BY TypeCorrect, InitCalls, NextCalls, PTL DEF Safety

(* The access decisions of any number of processes are leases: nothing a    *)
(* process does (settle, evict, log out, crash, sync) lets a token through  *)
(* without an answer that is at most one call's timeout old.                *)
THEOREM Refinement == Safety => RefinesLease
<1>1. TypeOK /\ TypeOK' /\ CallInv /\ [Next]_vars => [Lease!Next]_(Lease!vars)
  BY NextLease
<1>2. QED
  BY <1>1, InitLease, TypeCorrect, CallsCorrect, PTL DEF Safety, RefinesLease, Lease!Spec

(* Whoever a process lets through from memory was vouched for less than     *)
(* VALID_TTL_MS and one call's timeout ago.                                 *)
THEOREM Served == Safety => []ServedWhileVouched
<1>1. ValidTTL \in Nat /\ Timeout \in Nat
  BY ContextAssumption DEF ContextAssumption
<1>2. Lease!Spec => []Lease!OnlyVouched
  BY <1>1, Lease!LeaseSafe
<1>3. TypeOK /\ Lease!OnlyVouched => ServedWhileVouched
  <2> SUFFICES ASSUME TypeOK, Lease!OnlyVouched, NEW p \in Proc, NEW t \in Token,
                      CacheHit(p, t)
               PROVE  /\ vouchedAt[t] # NeverVouched
                      /\ now < vouchedAt[t] + ValidTTL + Timeout
    BY DEF ServedWhileVouched
  <2>1. mem[p].resolved[t] \in Nat \cup {NotCached} /\ now \in Nat /\ Exp[t] \in Nat
    BY SessionAssumption DEF SessionAssumption, TypeOK, Memory
  <2>2. /\ mem[p].resolved[t] # NotCached
        /\ now < mem[p].resolved[t] + ValidTTL
        /\ now < Exp[t]
    BY <1>1, <2>1 DEF CacheHit, Hit, Expired
  <2>3. Lease!LetsThrough(p, t)
    BY <2>2 DEF Lease!LetsThrough
  <2>4. QED
    BY <2>3 DEF Lease!OnlyVouched, Lease!NeverVouched, NeverVouched
<1>4. QED
  BY <1>2, <1>3, TypeCorrect, Refinement, PTL DEF RefinesLease

-----------------------------------------------------------------------------
(* The stored rows.                                                         *)

\* A row that holds a token holds its expiry, and someone vouched for it.
GoodRow(c) ==
  rows[c].token # None => /\ rows[c].token \in Token
                          /\ ClientOf[rows[c].token] = c
                          /\ rows[c].exp = Exp[rows[c].token]
                          /\ vouchedAt[rows[c].token] # NeverVouched

(* RowMatchesToken is not inductive: the row a statement writes is good     *)
(* only because the token was vouched for before the statement was sent,    *)
(* and it may be sent because the token is cached.                          *)
StoreInv ==
  /\ \A p \in Proc, t \in Token :
       mem[p].resolved[t] # NotCached \/ t \in mem[p].saves => vouchedAt[t] # NeverVouched
  /\ \A c \in Client : GoodRow(c)

\* The two CASEs of the upsert never give a row one token and another's expiry.
LEMMA UpsertAgrees ==
  ASSUME NEW row \in Row, NEW t \in Token, NEW n \in Nat,
         row.token # None => row.token \in Token /\ row.exp = Exp[row.token]
  PROVE  /\ Upsert(row, t, n).token \in {row.token, t} \ {None}
         /\ Upsert(row, t, n).exp = Exp[Upsert(row, t, n).token]
<1>0. /\ t # None
      /\ Exp[t] \in Nat
      /\ row.exp \in Nat
  BY SessionAssumption DEF SessionAssumption, Row
<1>1. CASE row.token = None
  BY <1>0, <1>1 DEF Upsert
<1>2. CASE row.token # None /\ Exp[t] >= row.exp
  BY <1>0, <1>2 DEF Upsert, Wins, KeptExpiry
<1>3. CASE row.token # None /\ ~(Exp[t] >= row.exp) /\ row.exp < n
  BY <1>0, <1>3 DEF Upsert, Wins, KeptExpiry
<1>4. CASE row.token # None /\ ~(Exp[t] >= row.exp) /\ ~(row.exp < n)
  BY <1>0, <1>4 DEF Upsert, Wins, KeptExpiry
<1>5. QED
  BY <1>1, <1>2, <1>3, <1>4

\* How the rows change: an INSERT or a DELETE that was sent, ends.
Inserts(p, t) ==
  /\ t \in mem[p].saves
  /\ rows' = [rows EXCEPT ![ClientOf[t]] = Upsert(rows[ClientOf[t]], t, now)]

Deletes(p, t) ==
  /\ t \in mem[p].deletes
  /\ rows' = DeleteRows(rows, t)

LEMMA RowCases ==
  ASSUME [Next]_vars
  PROVE  \/ rows' = rows
         \/ \E p \in Proc, t \in Token : Inserts(p, t) \/ Deletes(p, t)
<1> SUFFICES ASSUME \A p \in Proc, t \in Token : ~Inserts(p, t) /\ ~Deletes(p, t)
             PROVE  rows' = rows
  OBVIOUS
<1>1. CASE Tick
  BY <1>1 DEF Tick
<1>2. ASSUME NEW t \in Token, NEW s \in Standing, UpstreamChanges(t, s)
      PROVE  rows' = rows
  BY <1>2 DEF UpstreamChanges
<1>3. ASSUME NEW p \in Proc, NEW t \in Token, RequestStep(p, t)
      PROVE  rows' = rows
  BY <1>3 DEF RequestStep, RequestExpired, RequestHit, RequestMiss
<1>4. ASSUME NEW p \in Proc, NEW t \in Token, CallStep(p, t)
      PROVE  rows' = rows
  BY <1>4 DEF CallStep, Answer, CallFails
<1>5. ASSUME NEW p \in Proc, NEW t \in Token, SettleStep(p, t)
      PROVE  rows' = rows
  BY <1>5 DEF SettleStep, SettleClient, SettleRefused, SettleOutage
<1>6. ASSUME NEW p \in Proc, NEW t \in Token, StatementStep(p, t)
      PROVE  rows' = rows
  BY <1>6 DEF StatementStep, SaveLands, DeleteLands, SaveFails, DeleteFails,
     Inserts, Deletes
<1>7. ASSUME NEW p \in Proc, SyncStep(p)
      PROVE  rows' = rows
  BY <1>7 DEF SyncStep, SyncStart, SyncLoad, SyncDeleted, SyncReturn, SyncSkip, SyncHit,
     SyncExpired, SyncAsks
<1>8. ASSUME NEW p \in Proc, Restart(p)
      PROVE  rows' = rows
  BY <1>8 DEF Restart
<1>9. CASE UNCHANGED vars
  BY <1>9 DEF vars
<1>10. WebProc \subseteq Proc /\ SyncProc \subseteq Proc
  BY ContextAssumption DEF ContextAssumption
<1>11. QED
  BY <1>1, <1>2, <1>3, <1>4, <1>5, <1>6, <1>7, <1>8, <1>9, <1>10 DEF Next

LEMMA VouchedForever ==
  ASSUME TypeOK, [Next]_vars, NEW t \in Token, vouchedAt[t] # NeverVouched
  PROVE  vouchedAt'[t] # NeverVouched
<1>1. CASE Tick
  BY <1>1 DEF Tick
<1>2. ASSUME NEW p \in Proc, NEW x \in Token, Answer(p, x)
      PROVE  vouchedAt'[t] # NeverVouched
  BY <1>2 DEF Answer, TypeOK, NeverVouched
<1>3. CASE CallsMove
  BY <1>3 DEF CallsMove
<1>4. QED
  BY <1>1, <1>2, <1>3, CallCases

LEMMA InitStore == Init => StoreInv
  BY DEF Init, StoreInv, GoodRow, NoMemory, NoRow

LEMMA NextStore == TypeOK /\ CallInv /\ StoreInv /\ [Next]_vars => StoreInv'
<1> SUFFICES ASSUME TypeOK, CallInv, StoreInv, [Next]_vars
             PROVE  StoreInv'
  OBVIOUS
<1>1. ASSUME NEW q \in Proc, NEW t \in Token,
             mem'[q].resolved[t] # NotCached \/ t \in mem'[q].saves
      PROVE  vouchedAt'[t] # NeverVouched
  <2>1. CASE mem'[q] = mem[q]
    BY <1>1, <2>1, VouchedForever DEF StoreInv
  <2>2. CASE mem'[q] \in Memory /\ Move(q, mem'[q])
    BY <1>1, <2>2, VouchedForever DEF Move, StoreInv, CallInv, CacheHit, Hit
  <2>3. QED
    BY <2>1, <2>2, EveryStepMoves DEF MemoryMoves, TypeOK
<1>2. ASSUME NEW c \in Client
      PROVE  GoodRow(c)'
  <2>0. rows \in [Client -> Row] /\ now \in Nat /\ GoodRow(c)
    BY DEF TypeOK, StoreInv
  <2>1. CASE rows' = rows
    BY <2>0, <2>1, VouchedForever DEF GoodRow
  <2>2. ASSUME NEW p \in Proc, NEW t \in Token, Inserts(p, t)
        PROVE  GoodRow(c)'
    <3> DEFINE row == Upsert(rows[c], t, now)
    <3>1. CASE c # ClientOf[t]
      BY <2>0, <2>2, <3>1, VouchedForever DEF GoodRow, Inserts
    <3>2. CASE c = ClientOf[t]
      <4>1. rows'[c] = row
        BY <2>0, <2>2, <3>2 DEF Inserts
      <4>2. row.token \in {rows[c].token, t} \ {None} /\ row.exp = Exp[row.token]
        BY <2>0, UpsertAgrees DEF GoodRow
      <4>3. vouchedAt[t] # NeverVouched
        BY <2>2 DEF Inserts, StoreInv
      <4> HIDE DEF row
      <4>4. QED
        BY <2>0, <3>2, <4>1, <4>2, <4>3, VouchedForever DEF GoodRow
    <3>3. QED
      BY <3>1, <3>2
  <2>3. ASSUME NEW p \in Proc, NEW t \in Token, Deletes(p, t)
        PROVE  GoodRow(c)'
    <3>1. rows'[c] = rows[c] \/ rows'[c].token = None
      BY <2>0, <2>3 DEF Deletes, DeleteRows, NoRow
    <3>2. QED
      BY <2>0, <3>1, VouchedForever DEF GoodRow
  <2>4. QED
    BY <2>1, <2>2, <2>3, RowCases
<1>3. QED
  BY <1>1, <1>2 DEF StoreInv, GoodRow

LEMMA StoreCorrect == Safety => []StoreInv
  BY TypeCorrect, CallsCorrect, InitStore, NextStore, PTL DEF Safety

(* Whatever the processes' INSERTs and DELETEs and the order they land in,  *)
(* a stored row holds a vouched token of its client and that token's expiry.*)
THEOREM RowsMatch == Safety => []RowMatchesToken
<1>1. StoreInv => RowMatchesToken
  BY DEF StoreInv, GoodRow, RowMatchesToken
<1>2. QED
  BY <1>1, StoreCorrect, PTL

-----------------------------------------------------------------------------
(* The order in which the writes of several processes land.                 *)

\* A token with a DELETE under way was logged out, refused, or has expired.
DeleteInv ==
  \A p \in Proc, t \in Token : t \in mem[p].deletes => t \in ended \/ Expired(t)

LEMMA EndedForever ==
  ASSUME [Next]_vars
  PROVE  ended \subseteq ended'
<1>1. CASE Tick
  BY <1>1 DEF Tick
<1>2. ASSUME NEW t \in Token, NEW s \in Standing, UpstreamChanges(t, s)
      PROVE  ended \subseteq ended'
  BY <1>2 DEF UpstreamChanges
<1>3. ASSUME NEW p \in Proc, NEW t \in Token, RequestStep(p, t)
      PROVE  ended \subseteq ended'
  BY <1>3 DEF RequestStep, RequestExpired, RequestHit, RequestMiss
<1>4. ASSUME NEW p \in Proc, NEW t \in Token, CallStep(p, t)
      PROVE  ended \subseteq ended'
  BY <1>4 DEF CallStep, Answer, CallFails
<1>5. ASSUME NEW p \in Proc, NEW t \in Token, SettleStep(p, t)
      PROVE  ended \subseteq ended'
  BY <1>5 DEF SettleStep, SettleClient, SettleRefused, SettleOutage
<1>6. ASSUME NEW p \in Proc, NEW t \in Token, StatementStep(p, t)
      PROVE  ended \subseteq ended'
  BY <1>6 DEF StatementStep, SaveLands, DeleteLands, SaveFails, DeleteFails
<1>7. ASSUME NEW p \in Proc, SyncStep(p)
      PROVE  ended \subseteq ended'
  BY <1>7 DEF SyncStep, SyncStart, SyncLoad, SyncDeleted, SyncReturn, SyncSkip, SyncHit,
     SyncExpired, SyncAsks
<1>8. ASSUME NEW p \in Proc, Restart(p)
      PROVE  ended \subseteq ended'
  BY <1>8 DEF Restart
<1>9. CASE UNCHANGED vars
  BY <1>9 DEF vars
<1>10. WebProc \subseteq Proc /\ SyncProc \subseteq Proc
  BY ContextAssumption DEF ContextAssumption
<1>11. QED
  BY <1>1, <1>2, <1>3, <1>4, <1>5, <1>6, <1>7, <1>8, <1>9, <1>10 DEF Next

LEMMA ClockForward ==
  ASSUME TypeOK, [Next]_vars
  PROVE  now' \in Nat /\ now <= now'
  BY CallCases DEF TypeOK, Tick, Answer, CallsMove

LEMMA InitDeletes == Init => DeleteInv
  BY DEF Init, DeleteInv, NoMemory

LEMMA NextDeletes == TypeOK /\ DeleteInv /\ [Next]_vars => DeleteInv'
<1> SUFFICES ASSUME TypeOK, DeleteInv, [Next]_vars,
                    NEW q \in Proc, NEW t \in Token, t \in mem'[q].deletes
             PROVE  t \in ended' \/ Expired(t)'
  BY DEF DeleteInv
<1>1. Expired(t) => Expired(t)'
  BY ClockForward, SessionAssumption DEF Expired, TypeOK, SessionAssumption
<1>2. CASE mem'[q] = mem[q]
  BY <1>1, <1>2, EndedForever DEF DeleteInv
<1>3. CASE mem'[q] \in Memory /\ Move(q, mem'[q])
  BY <1>1, <1>3, EndedForever DEF Move, DeleteInv
<1>4. QED
  BY <1>2, <1>3, EveryStepMoves DEF MemoryMoves, TypeOK

LEMMA DeletesCorrect == Safety => []DeleteInv
  BY TypeCorrect, InitDeletes, NextDeletes, PTL DEF Safety

(* A live row loses its token only to one that expires no earlier, or       *)
(* because that token was logged out or refused: for any interleaving of    *)
(* the INSERTs and DELETEs of any number of processes.                      *)
THEOREM LongestKept == Safety => LongestSessionKept
<1>1. ASSUME TypeOK, StoreInv, DeleteInv, [Next]_vars, NEW c \in Client, LosesRow(c)
      PROVE  \/ rows[c].token \in ended'
             \/ rows'[c].token # None /\ Exp[rows'[c].token] >= Exp[rows[c].token]
  <2>0. /\ rows \in [Client -> Row]
        /\ now \in Nat
        /\ GoodRow(c)
        /\ rows[c].token # None
        /\ rows[c].exp > now
        /\ rows[c].exp \in Nat
        /\ rows'[c].token # rows[c].token
    BY <1>1 DEF TypeOK, StoreInv, LosesRow, Row
  <2>1. ASSUME NEW p \in Proc, NEW t \in Token, Inserts(p, t)
        PROVE  rows'[c].token # None /\ Exp[rows'[c].token] >= Exp[rows[c].token]
    <3>1. rows'[c] = Upsert(rows[c], t, now)
      BY <2>0, <2>1 DEF Inserts
    <3>2. rows'[c].token = t /\ Wins(rows[c], t, now)
      BY <2>0, <3>1 DEF Upsert
    <3>3. Exp[t] >= rows[c].exp
      BY <2>0, <3>2 DEF Wins
    <3>4. t # None
      BY SessionAssumption DEF SessionAssumption
    <3>5. QED
      BY <2>0, <3>2, <3>3, <3>4 DEF GoodRow
  <2>2. ASSUME NEW p \in Proc, NEW t \in Token, Deletes(p, t)
        PROVE  rows[c].token \in ended'
    <3>1. rows[c].token = t
      BY <2>0, <2>2 DEF Deletes, DeleteRows
    <3>2. ~Expired(t)
      BY <2>0, <3>1 DEF GoodRow, Expired
    <3>3. t \in ended
      BY <1>1, <2>2, <3>2 DEF Deletes, DeleteInv
    <3>4. QED
      BY <1>1, <3>1, <3>3, EndedForever
  <2>3. QED
    BY <1>1, <2>0, <2>1, <2>2, RowCases
<1>2. TypeOK /\ StoreInv /\ DeleteInv /\ [Next]_vars =>
        [\A c \in Client : LosesRow(c) =>
           \/ rows[c].token \in ended'
           \/ rows'[c].token # None /\ Exp[rows'[c].token] >= Exp[rows[c].token]]_vars
  BY <1>1
<1>3. QED
  BY <1>2, TypeCorrect, StoreCorrect, DeletesCorrect, PTL DEF Safety, LongestSessionKept

-----------------------------------------------------------------------------
(* Logout.                                                                  *)

(* LogoutSticks is not inductive: a call under way could put the token      *)
(* back.  None is, because a call starts only when the token is not let     *)
(* through, and the requests that share it, the logout included, settle     *)
(* with it.  An expired token may have one, which nothing can come of.      *)
LogoutInv ==
  /\ \A p \in Proc, t \in Token : calls[p][t].reply # "idle" => ~CacheHit(p, t)
  /\ \A p \in Proc, t \in Token : <<p, t>> \in gone =>
       /\ ~CacheHit(p, t)
       /\ calls[p][t].reply = "idle" \/ Expired(t)

\* Time only takes cached answers away.
LEMMA HitsAge ==
  ASSUME TypeOK, TypeOK', [Next]_vars, NEW p \in Proc, NEW t \in Token,
         mem'[p].resolved[t] \in {mem[p].resolved[t], NotCached}, CacheHit(p, t)'
  PROVE  CacheHit(p, t)
<1>1. /\ mem'[p].resolved[t] # NotCached
      /\ now' - mem'[p].resolved[t] < ValidTTL
      /\ ~(Exp[t] <= now')
  BY DEF CacheHit, Hit, Expired
<1>2. mem[p].resolved[t] \in Nat /\ mem'[p].resolved[t] = mem[p].resolved[t]
  BY <1>1 DEF TypeOK, Memory
<1>3. now \in Nat /\ now' \in Nat /\ now <= now'
  BY ClockForward DEF TypeOK
<1>4. ValidTTL \in Nat /\ Exp[t] \in Nat
  BY SessionAssumption, ContextAssumption DEF SessionAssumption, ContextAssumption
<1>5. now - mem[p].resolved[t] < ValidTTL /\ ~(Exp[t] <= now)
  BY <1>1, <1>2, <1>3, <1>4
<1>6. mem[p].resolved[t] # NotCached
  BY <1>1, <1>2
<1>7. QED
  BY <1>5, <1>6 DEF CacheHit, Hit, Expired

\* A process lets t through after a step only if it did before, or t's call settled.
LEMMA NewHits ==
  ASSUME TypeOK, TypeOK', [Next]_vars, NEW p \in Proc, NEW t \in Token, CacheHit(p, t)'
  PROVE  CacheHit(p, t) \/ (calls[p][t].reply = "client" /\ calls'[p][t].reply = "idle")
<1>1. CASE mem'[p] = mem[p]
  BY <1>1, HitsAge
<1>2. CASE Move(p, mem'[p])
  BY <1>2, HitsAge DEF Move
<1>3. QED
  BY <1>1, <1>2, EveryStepMoves DEF MemoryMoves, TypeOK

\* A call starts only for a token that is not let through.
LEMMA CallsStartOnMiss ==
  ASSUME TypeOK, [Next]_vars, NEW p \in Proc, NEW t \in Token,
         calls[p][t].reply = "idle", calls'[p][t].reply # "idle"
  PROVE  ~CacheHit(p, t)
<1>1. CASE Tick
  BY <1>1 DEF Tick
<1>2. ASSUME NEW q \in Proc, NEW x \in Token, Answer(q, x)
      PROVE  ~CacheHit(p, t)
  BY <1>2 DEF Answer, TypeOK
<1>3. CASE CallsMove
  BY <1>3 DEF CallsMove
<1>4. QED
  BY <1>1, <1>2, <1>3, CallCases

\* A call that starts takes its token out of gone, at every process.
Starts(p, t) == calls[p][t].reply = "idle" /\ calls'[p][t].reply # "idle"

GoneMoves ==
  \A p \in Proc, t \in Token : <<p, t>> \in gone' =>
    \/ <<p, t>> \in gone /\ ~Starts(p, t)
    \/ Expired(t)
    \/ mem'[p].resolved[t] = NotCached /\ calls'[p][t].reply = "idle"

LEMMA AskStarts ==
  ASSUME TypeOK, NEW q \in Proc, NEW x \in Token, Ask(q, x), gone' = Presented(x)
  PROVE  GoneMoves
<1> SUFFICES ASSUME NEW p \in Proc, NEW t \in Token, <<p, t>> \in gone'
             PROVE  <<p, t>> \in gone /\ ~Starts(p, t)
  BY DEF GoneMoves
<1>1. <<p, t>> \in gone /\ <<p, t>> \notin Proc \X {x}
  BY DEF Presented
<1>2. t # x
  BY <1>1
<1>3. calls'[p][t] = calls[p][t]
  <2>1. calls \in [Proc -> [Token -> Call]]
    BY DEF TypeOK
  <2>2. CASE calls' = calls
    BY <2>2
  <2>3. CASE calls' = [calls EXCEPT ![q][x] = [reply |-> "asked", since |-> now]]
    BY <1>2, <2>1, <2>3
  <2>4. QED
    BY <2>2, <2>3 DEF Ask
<1>4. QED
  BY <1>1, <1>3 DEF Starts

\* What a step that is not a request's leaves in gone was there before.
LEMMA SameGone ==
  ASSUME gone' = gone, \A p \in Proc, t \in Token : ~Starts(p, t)
  PROVE  GoneMoves
  BY DEF GoneMoves

\* A logout at q takes t out of the memory of q, and its call is over.
LEMMA LogoutGone ==
  ASSUME NEW q \in Proc, NEW x \in Token, NEW kinds, NEW before \in SUBSET gone,
         gone' = before \cup LoggedOut(q, x, kinds),
         \A p \in Proc, t \in Token : ~Starts(p, t),
         "logout" \in kinds => mem'[q].resolved[x] = NotCached /\ calls'[q][x].reply = "idle"
  PROVE  GoneMoves
  BY DEF GoneMoves, LoggedOut

LEMMA RequestGone ==
  ASSUME TypeOK, LogoutInv, NEW q \in Proc, NEW x \in Token, RequestStep(q, x)
  PROVE  GoneMoves
<1>0. mem \in [Proc -> Memory] /\ mem[q] \in Memory /\ now \in Nat
  BY DEF TypeOK
<1>1. CASE RequestExpired(q, x)
  <2>1. /\ gone' = Presented(x) \cup {<<q, x>>}
        /\ calls' = calls
        /\ Expired(x)
    BY <1>1 DEF RequestExpired
  <2>2. QED
    BY <2>1 DEF GoneMoves, Starts, Presented
<1>2. ASSUME NEW kind \in Kind, RequestHit(q, x, kind)
      PROVE  GoneMoves
  <2>1. /\ gone' = Presented(x) \cup LoggedOut(q, x, {kind})
        /\ calls' = calls
        /\ mem' = [mem EXCEPT ![q] = Run(mem[q], x, kind)]
        /\ calls[q][x].reply = "idle"
    BY <1>2 DEF RequestHit, LogoutInv, CacheHit
  <2>2. kind = "logout" => mem'[q].resolved[x] = NotCached
    BY <1>0, <2>1, RunFacts
  <2>3. /\ Presented(x) \in SUBSET gone
        /\ \A p \in Proc, t \in Token : ~Starts(p, t)
    BY <2>1 DEF Presented, Starts
  <2>4. QED
    BY <2>1, <2>2, <2>3, LogoutGone
<1>3. ASSUME NEW kind \in Kind, RequestMiss(q, x, kind)
      PROVE  GoneMoves
  BY <1>3, AskStarts DEF RequestMiss
<1>4. QED
  BY <1>1, <1>2, <1>3 DEF RequestStep

LEMMA SettleGone ==
  ASSUME TypeOK, NEW q \in Proc, NEW x \in Token, SettleStep(q, x)
  PROVE  GoneMoves
<1>0. /\ mem \in [Proc -> Memory]
      /\ mem[q] \in Memory
      /\ now \in Nat
      /\ waiting[q][x] \in SUBSET Kind
      /\ calls \in [Proc -> [Token -> Call]]
  BY DEF TypeOK
<1>1. /\ calls'[q][x].reply = "idle"
      /\ \A p \in Proc, t \in Token : ~Starts(p, t)
  <2>1. calls' = [calls EXCEPT ![q][x] = NoCall] /\ NoCall.reply = "idle"
    BY DEF SettleStep, SettleClient, SettleRefused, SettleOutage, Settled, NoCall
  <2>2. QED
    BY <1>0, <2>1 DEF Starts
<1>2. CASE SettleClient(q, x)
  <2> DEFINE r == Resolve(mem[q], x)
  <2>1. PICK n \in RunAll(r, x, waiting[q][x]) : mem' = [mem EXCEPT ![q] = n]
    BY <1>2 DEF SettleClient
  <2>2. r \in Memory
    BY <1>0, ResolveFacts
  <2> HIDE DEF r
  <2>3. "logout" \in waiting[q][x] => n.resolved[x] = NotCached
    BY <1>0, <2>2, RunAllFacts
  <2>4. mem'[q] = n
    BY <1>0, <2>1
  <2>5. gone' = gone \cup LoggedOut(q, x, waiting[q][x])
    BY <1>2 DEF SettleClient
  <2>6. QED
    BY <1>1, <2>3, <2>4, <2>5, LogoutGone
<1>3. CASE SettleRefused(q, x)
  <2> DEFINE m1 == IF calls[q][x].reply = "rejected" THEN Uncache(mem[q], x) ELSE mem[q]
             m2 == RunAnonymous(m1, x, waiting[q][x])
  <2>1. mem'[q] = IF Awaits(q, x) THEN DeleteSession(m2, x) ELSE m2
    BY <1>0, <1>3 DEF SettleRefused
  <2>2. m1 \in Memory
    BY <1>0, UncacheFacts
  <2> HIDE DEF m1
  <2>3. /\ m2 \in Memory
        /\ "logout" \in waiting[q][x] => m2.resolved[x] = NotCached
    BY <1>0, <2>2, RunAnonymousFacts DEF Forgets
  <2> HIDE DEF m2
  <2>4. DeleteSession(m2, x).resolved = m2.resolved
    BY <2>3, DeleteSessionFacts
  <2>5. mem'[q].resolved = m2.resolved
    BY <2>1, <2>4
  <2>6. gone' = gone \cup LoggedOut(q, x, waiting[q][x])
    BY <1>3 DEF SettleRefused
  <2>7. QED
    BY <1>1, <2>3, <2>5, <2>6, LogoutGone
<1>4. CASE SettleOutage(q, x)
  BY <1>1, <1>4, SameGone DEF SettleOutage
<1>5. QED
  BY <1>2, <1>3, <1>4 DEF SettleStep

LEMMA EveryStepGone ==
  ASSUME TypeOK, LogoutInv, [Next]_vars
  PROVE  GoneMoves
<1>0. calls \in [Proc -> [Token -> Call]]
  BY DEF TypeOK
<1>1. ASSUME UNCHANGED <<calls, gone>>
      PROVE  GoneMoves
  BY <1>1, SameGone DEF Starts
<1>2. ASSUME NEW p \in Proc, NEW t \in Token, CallStep(p, t)
      PROVE  GoneMoves
  <2>1. \A q \in Proc, x \in Token : ~Starts(q, x)
    BY SMTT(60), <1>0, <1>2 DEF CallStep, Answer, CallFails, Starts
  <2>2. QED
    BY <1>2, <2>1, SameGone DEF CallStep, Answer, CallFails
<1>3. ASSUME NEW p \in Proc, NEW t \in Token, StatementStep(p, t)
      PROVE  GoneMoves
  BY <1>1, <1>3 DEF StatementStep, SaveLands, DeleteLands, SaveFails, DeleteFails
<1>4. ASSUME NEW p \in Proc, SyncStep(p)
      PROVE  GoneMoves
  <2>1. CASE SyncStart(p) \/ SyncLoad(p) \/ SyncDeleted(p) \/ SyncReturn(p)
    BY <1>1, <2>1 DEF SyncStart, SyncLoad, SyncDeleted, SyncReturn
  <2>2. ASSUME NEW c \in Client, SyncSkip(p, c) \/ SyncExpired(p, c)
        PROVE  GoneMoves
    BY <1>1, <2>2 DEF SyncSkip, SyncExpired
  <2>3. ASSUME NEW c \in Client, SyncHit(p, c)
        PROVE  GoneMoves
    BY <2>3 DEF SyncHit, GoneMoves, Presented, Starts
  <2>4. ASSUME NEW c \in Client, SyncAsks(p, c)
        PROVE  GoneMoves
    <3>1. Stored(p, c) \in Token
      BY <2>4 DEF SyncAsks, SyncTurn, Stored, TypeOK, Sync, TokenOrNone
    <3>2. QED
      BY <2>4, <3>1, AskStarts DEF SyncAsks
  <2>5. QED
    BY <1>4, <2>1, <2>2, <2>3, <2>4 DEF SyncStep
<1>5. ASSUME NEW p \in Proc, Restart(p)
      PROVE  GoneMoves
  <2>1. \A q \in Proc, x \in Token : ~Starts(q, x)
    BY <1>0, <1>5 DEF Restart, Starts, NoCall
  <2>2. QED
    BY <1>5, <2>1, SameGone DEF Restart
<1>6. CASE Tick \/ (\E t \in Token, s \in Standing : UpstreamChanges(t, s)) \/ UNCHANGED vars
  BY <1>1, <1>6 DEF Tick, UpstreamChanges, vars
<1>7. WebProc \subseteq Proc /\ SyncProc \subseteq Proc
  BY ContextAssumption DEF ContextAssumption
<1>8. QED
  BY <1>2, <1>3, <1>4, <1>5, <1>6, <1>7, RequestGone, SettleGone DEF Next

LEMMA InitLogout == Init => LogoutInv
  BY DEF Init, LogoutInv, NoCall

LEMMA NextLogout == TypeOK /\ TypeOK' /\ LogoutInv /\ [Next]_vars => LogoutInv'
<1> SUFFICES ASSUME TypeOK, TypeOK', LogoutInv, [Next]_vars,
                    NEW p \in Proc, NEW t \in Token
             PROVE  /\ calls'[p][t].reply # "idle" => ~CacheHit(p, t)'
                    /\ <<p, t>> \in gone' => /\ ~CacheHit(p, t)'
                                             /\ calls'[p][t].reply = "idle" \/ Expired(t)'
  BY DEF LogoutInv
<1>1. calls'[p][t].reply # "idle" => ~CacheHit(p, t)'
  BY NewHits, CallsStartOnMiss DEF LogoutInv
<1>2. Expired(t) => Expired(t)'
  BY ClockForward, SessionAssumption DEF Expired, TypeOK, SessionAssumption
<1>3. Expired(t)' => ~CacheHit(p, t)'
  BY DEF CacheHit, Hit
<1>4. mem'[p].resolved[t] = NotCached => ~CacheHit(p, t)'
  BY DEF CacheHit, Hit
<1>5. ASSUME <<p, t>> \in gone, ~Starts(p, t)
      PROVE  /\ ~CacheHit(p, t)'
             /\ calls'[p][t].reply = "idle" \/ Expired(t)'
  <2>1. CASE Expired(t)
    BY <1>2, <1>3, <2>1
  <2>2. CASE ~Expired(t)
    <3>1. ~CacheHit(p, t) /\ calls[p][t].reply = "idle"
      BY <1>5, <2>2 DEF LogoutInv
    <3>2. calls'[p][t].reply = "idle"
      BY <1>5, <3>1 DEF Starts
    <3>3. QED
      BY <3>1, <3>2, NewHits
  <2>3. QED
    BY <2>1, <2>2
<1>6. QED
  BY <1>1, <1>2, <1>3, <1>4, <1>5, EveryStepGone DEF GoneMoves

(* A process where a token was logged out does not let it through again     *)
(* from memory before it is presented again, whatever calls were under way. *)
THEOREM Logout == Safety => []LogoutSticks
<1>1. TypeOK /\ LogoutInv => LogoutSticks
  BY DEF TypeOK, LogoutInv, LogoutSticks
<1>2. QED
  BY <1>1, TypeCorrect, InitLogout, NextLogout, PTL DEF Safety
-----------------------------------------------------------------------------
(* The limit of the cache.  Of every set of cached entries one is the       *)
(* oldest, so there is always one to evict; what is evicted makes room for  *)
(* what is cached next, and everything else only drops entries.             *)

Orderly(m) ==
  /\ IsFiniteSet(Cached(m)) /\ Cardinality(Cached(m)) <= MaxCached
  /\ \A t \in Token : m.before[t] \subseteq Cached(m)
  /\ \A S \in SUBSET Cached(m) : S # {} => \E t \in S : m.before[t] \cap S = {}

\* Entries may have been dropped, from the order too.
Fewer(m, n) ==
  /\ n \in Memory
  /\ Cached(n) \subseteq Cached(m)
  /\ \A t \in Token : /\ n.before[t] \subseteq m.before[t]
                      /\ m.before[t] \subseteq Cached(m) => n.before[t] \subseteq Cached(n)

LEMMA FewerOrderly ==
  ASSUME NEW m \in Memory, NEW n, Orderly(m), Fewer(m, n)
  PROVE  Orderly(n)
<1>1. IsFiniteSet(Cached(n)) /\ Cardinality(Cached(n)) <= Cardinality(Cached(m))
  BY FS_Subset DEF Orderly, Fewer
<1>2. Cardinality(Cached(n)) \in Nat /\ Cardinality(Cached(m)) \in Nat
  BY <1>1, FS_CardinalityType DEF Orderly
<1>3. Cardinality(Cached(n)) <= MaxCached
  BY <1>1, <1>2 DEF Orderly, ContextAssumption
<1>4. \A t \in Token : n.before[t] \subseteq Cached(n)
  BY DEF Orderly, Fewer
<1>5. ASSUME NEW S \in SUBSET Cached(n), S # {}
      PROVE  \E t \in S : n.before[t] \cap S = {}
  <2>1. PICK t \in S : m.before[t] \cap S = {}
    BY <1>5 DEF Orderly, Fewer
  <2>2. t \in Token
    BY DEF Cached
  <2>3. QED
    BY <2>1, <2>2 DEF Fewer
<1>6. QED
  BY <1>1, <1>3, <1>4, <1>5 DEF Orderly

LEMMA FewerTwice ==
  ASSUME NEW m, NEW n, NEW o, Fewer(m, n), Fewer(n, o)
  PROVE  Fewer(m, o)
  BY DEF Fewer

\* What leaves resolved and its order alone.
LEMMA SameEntries ==
  ASSUME NEW m \in Memory, NEW n \in Memory, n.resolved = m.resolved, n.before = m.before
  PROVE  Fewer(m, n)
  BY DEF Fewer, Cached

LEMMA UncacheFewer ==
  ASSUME NEW m \in Memory, NEW t
  PROVE  /\ Fewer(m, Uncache(m, t))
         /\ Cached(Uncache(m, t)) = Cached(m) \ {t}
<1> DEFINE u == Uncache(m, t)
<1>1. /\ u \in Memory
      /\ u.resolved = [m.resolved EXCEPT ![t] = NotCached]
  BY UncacheFacts
<1>2. \A x \in Token : u.before[x] = IF x = t THEN {} ELSE m.before[x] \ {t}
  BY DEF Uncache, Memory
<1> HIDE DEF u
<1>3. m.resolved \in [Token -> Nat \cup {NotCached}]
  BY DEF Memory
<1>4. Cached(u) = Cached(m) \ {t}
  BY <1>1, <1>3 DEF Cached
<1>5. Fewer(m, u)
  BY <1>1, <1>2, <1>4 DEF Fewer
<1>6. QED
  BY <1>4, <1>5 DEF u

LEMMA SaveFewer ==
  ASSUME NEW m \in Memory, NEW t \in Token, NEW n \in Nat
  PROVE  Fewer(m, SaveSession(m, t, n))
<1> DEFINE s == SaveSession(m, t, n)
<1>1. s \in Memory /\ s.resolved = m.resolved
  BY SaveSessionFacts
<1>2. s.before = m.before
  BY DEF SaveSession, Memory
<1> QED BY <1>1, <1>2, SameEntries

LEMMA DeleteFewer ==
  ASSUME NEW m \in Memory, NEW t \in Token
  PROVE  Fewer(m, DeleteSession(m, t))
<1> DEFINE d == DeleteSession(m, t)
<1>1. d \in Memory /\ d.resolved = m.resolved
  BY DeleteSessionFacts
<1>2. d.before = m.before
  BY DEF DeleteSession, Memory
<1> QED BY <1>1, <1>2, SameEntries

LEMMA ForgetFewer ==
  ASSUME NEW m \in Memory, NEW t \in Token
  PROVE  Fewer(m, Forget(m, t))
<1> DEFINE u == Uncache(m, t)
           f == IF t \in Cached(m) /\ m.active[ClientOf[t]] = t
                  THEN [u EXCEPT !.active[ClientOf[t]] = None]
                  ELSE u
<1>1. u \in Memory /\ Fewer(m, u)
  BY UncacheFewer, UncacheFacts
<1>2. Forget(m, t) = DeleteSession(f, t)
  BY DEF Forget
<1> HIDE DEF u
<1>3. f \in Memory /\ f.resolved = u.resolved /\ f.before = u.before
  BY <1>1 DEF Memory, TokenOrNone
<1> HIDE DEF f
<1>4. Fewer(u, f) /\ Fewer(f, DeleteSession(f, t))
  BY <1>1, <1>3, SameEntries, DeleteFewer
<1> QED BY <1>1, <1>2, <1>4, FewerTwice

LEMMA RunFewer ==
  ASSUME NEW m \in Memory, NEW t \in Token, NEW kind \in Kind, now \in Nat
  PROVE  Fewer(m, Run(m, t, kind))
<1> DEFINE s == Touch(m, t)
<1>1. s \in Memory /\ Fewer(m, s)
  BY SaveFewer DEF Touch, Fewer
<1>2. Run(m, t, kind) \in {s, Forget(s, t)}
  BY DEF Run
<1> HIDE DEF s
<1>3. Fewer(s, Forget(s, t))
  BY <1>1, ForgetFewer
<1> QED BY <1>1, <1>2, <1>3, FewerTwice

LEMMA RunAllFewer ==
  ASSUME NEW m \in Memory, NEW t \in Token, NEW kinds \in SUBSET Kind, now \in Nat,
         NEW n \in RunAll(m, t, kinds)
  PROVE  Fewer(m, n)
<1> DEFINE one(k) == Run(m, t, k)
<1>1. \A k \in Kind : one(k) \in Memory /\ Fewer(m, one(k))
  BY RunFewer DEF Fewer
<1>2. \A k, l \in Kind : Fewer(one(k), Run(one(k), t, l))
  BY <1>1, RunFewer
<1>3. "serve" \in Kind /\ "logout" \in Kind
  BY DEF Kind
<1>4. \/ n = m
      \/ \E k \in Kind : n = one(k)
      \/ \E k, l \in Kind : n = Run(one(k), t, l)
  BY <1>3 DEF RunAll
<1> HIDE DEF one
<1>5. Fewer(m, m)
  BY SameEntries
<1> QED BY <1>1, <1>2, <1>4, <1>5, FewerTwice

LEMMA AnonymousFewer ==
  ASSUME NEW m \in Memory, NEW t \in Token, NEW kinds
  PROVE  Fewer(m, RunAnonymous(m, t, kinds))
<1>1. Fewer(m, m) /\ Fewer(m, Forget(m, t))
  BY SameEntries, ForgetFewer
<1> QED BY <1>1 DEF RunAnonymous

\* There is room for one more when the eviction is done.
LEMMA EvictRoom ==
  ASSUME NEW m \in Memory, Orderly(m)
  PROVE  /\ Fewer(m, EvictIfFull(m))
         /\ Cardinality(Cached(EvictIfFull(m))) < MaxCached
<1>0. /\ Cardinality(Cached(m)) \in Nat /\ MaxCached \in Nat \ {0}
      /\ IsFiniteSet(Cached(m)) /\ Cardinality(Cached(m)) <= MaxCached
  BY FS_CardinalityType DEF Orderly, ContextAssumption
<1>1. CASE Cardinality(Cached(m)) >= MaxCached
  <2>1. Cached(m) # {}
    BY <1>0, <1>1, FS_EmptySet
  <2>2. \E t \in Cached(m) : m.before[t] \cap Cached(m) = {}
    BY <2>1 DEF Orderly
  <2>3. Oldest(m) \in Cached(m)
    BY <2>2 DEF Oldest
  <2> DEFINE u == Uncache(m, Oldest(m))
  <2>4. Fewer(m, u) /\ Cached(u) = Cached(m) \ {Oldest(m)}
    BY UncacheFewer
  <2>5. EvictIfFull(m) = u
    BY <1>1 DEF EvictIfFull
  <2> HIDE DEF u
  <2>6. Cardinality(Cached(u)) = Cardinality(Cached(m)) - 1
    BY <1>0, <2>3, <2>4, FS_RemoveElement
  <2> QED BY <1>0, <2>4, <2>5, <2>6
<1>2. CASE ~(Cardinality(Cached(m)) >= MaxCached)
  <2>1. EvictIfFull(m) = m
    BY <1>2 DEF EvictIfFull
  <2> QED BY <1>0, <1>2, <2>1, SameEntries
<1> QED BY <1>1, <1>2

\* What is cached now comes after everything that is there.
LEMMA EntryOrderly ==
  ASSUME NEW m \in Memory, NEW t \in Token, Orderly(m), now \in Nat,
         Cardinality(Cached(m)) < MaxCached
  PROVE  CacheEntry(m, t) \in Memory /\ Orderly(CacheEntry(m, t))
<1> DEFINE e == CacheEntry(m, t)
           C == Cached(m)
<1>1. /\ e \in Memory
      /\ e.resolved = [m.resolved EXCEPT ![t] = now]
      /\ \A x \in Token : e.before[x] = IF x = t /\ t \notin C THEN C ELSE m.before[x]
  BY DEF CacheEntry, Memory, Cached
<1> HIDE DEF e
<1>2. m.resolved \in [Token -> Nat \cup {NotCached}]
  BY DEF Memory
<1>3. Cached(e) = C \cup {t}
  BY <1>1, <1>2 DEF Cached, NotCached
<1> HIDE DEF C
<1>4. IsFiniteSet(C) /\ Cardinality(C) < MaxCached /\ Cardinality(C) \in Nat /\ MaxCached \in Nat
  BY FS_CardinalityType DEF Orderly, C, ContextAssumption
<1>5. IsFiniteSet(Cached(e)) /\ Cardinality(Cached(e)) <= MaxCached
  <2>1. /\ IsFiniteSet(C \cup {t})
        /\ Cardinality(C \cup {t}) = IF t \in C THEN Cardinality(C) ELSE Cardinality(C) + 1
    BY <1>4, FS_AddElement
  <2> QED BY <1>3, <1>4, <2>1
<1>6. \A x \in Token : m.before[x] \subseteq C
  BY DEF Orderly, C
<1>7. \A x \in Token : e.before[x] \subseteq Cached(e)
  BY <1>1, <1>3, <1>6
<1>8. ASSUME NEW S \in SUBSET Cached(e), S # {}
      PROVE  \E x \in S : e.before[x] \cap S = {}
  <2>1. \A T \in SUBSET C : T # {} => \E x \in T : m.before[x] \cap T = {}
    BY DEF Orderly, C
  <2>2. C \subseteq Token
    BY DEF C, Cached
  <2>3. CASE t \in C
    BY <1>1, <1>3, <1>8, <2>1, <2>2, <2>3
  <2>4. CASE t \notin C /\ S = {t}
    BY <1>1, <2>4
  <2>5. CASE t \notin C /\ S # {t}
    <3>1. S \ {t} \subseteq C /\ S \ {t} # {}
      BY <1>3, <1>8, <2>5
    <3>2. PICK x \in S \ {t} : m.before[x] \cap (S \ {t}) = {}
      BY <2>1, <3>1
    <3>3. x \in Token /\ t \notin m.before[x] /\ e.before[x] = m.before[x]
      BY <1>1, <1>6, <2>2, <2>5, <3>1, <3>2
    <3> QED BY <3>2, <3>3
  <2> QED BY <2>3, <2>4, <2>5
<1> QED BY <1>1, <1>5, <1>7, <1>8 DEF Orderly, e

LEMMA ResolveOrderly ==
  ASSUME NEW m \in Memory, NEW t \in Token, Orderly(m), now \in Nat
  PROVE  Resolve(m, t) \in Memory /\ Orderly(Resolve(m, t))
<1> DEFINE e == EvictIfFull(m)
           k == CacheEntry(e, t)
           a == [k EXCEPT !.active[ClientOf[t]] = t]
           r == SaveSession(a, t, now)
<1>1. e \in Memory /\ Orderly(e) /\ Cardinality(Cached(e)) < MaxCached
  BY EvictRoom, FewerOrderly DEF Fewer
<1>2. Resolve(m, t) = r
  BY DEF Resolve
<1> HIDE DEF e
<1>3. k \in Memory /\ Orderly(k)
  BY <1>1, EntryOrderly
<1> HIDE DEF k
<1>4. a \in Memory /\ a.resolved = k.resolved /\ a.before = k.before
  BY <1>3 DEF Memory, TokenOrNone
<1> HIDE DEF a
<1>5. Orderly(a)
  BY <1>3, <1>4, SameEntries, FewerOrderly
<1>6. Fewer(a, r)
  BY <1>4, SaveFewer
<1> HIDE DEF r
<1>7. r \in Memory /\ Orderly(r)
  BY <1>4, <1>5, <1>6, FewerOrderly DEF Fewer
<1> QED BY <1>2, <1>7

CachesOrderly == \A p \in Proc : Orderly(mem[p])

\* Where a memory changes, it only drops entries, or a call settles with a yes first.
EntriesMove ==
  \/ mem' = mem
  \/ \E p \in Proc, n \in Memory :
       /\ mem' = [mem EXCEPT ![p] = n]
       /\ \/ Fewer(mem[p], n)
          \/ \E t \in Token : Fewer(Resolve(mem[p], t), n)

LEMMA DropsEntries ==
  ASSUME NEW p \in Proc, NEW n, mem' = [mem EXCEPT ![p] = n], Fewer(mem[p], n)
  PROVE  EntriesMove
  BY DEF EntriesMove, Fewer

LEMMA SettleEntries ==
  ASSUME TypeOK, NEW p \in Proc, NEW t \in Token, SettleStep(p, t)
  PROVE  EntriesMove
<1>0. mem[p] \in Memory /\ now \in Nat /\ waiting[p][t] \in SUBSET Kind
  BY DEF TypeOK
<1>1. CASE SettleClient(p, t)
  <2>1. PICK n \in RunAll(Resolve(mem[p], t), t, waiting[p][t]) : mem' = [mem EXCEPT ![p] = n]
    BY <1>1 DEF SettleClient
  <2>2. Resolve(mem[p], t) \in Memory
    BY <1>0, ResolveFacts
  <2>3. Fewer(Resolve(mem[p], t), n)
    BY <1>0, <2>2, RunAllFewer
  <2> QED BY <2>1, <2>3 DEF EntriesMove, Fewer
<1>2. CASE SettleRefused(p, t)
  <2> DEFINE m1 == IF calls[p][t].reply = "rejected" THEN Uncache(mem[p], t) ELSE mem[p]
             m2 == RunAnonymous(m1, t, waiting[p][t])
             n  == IF Awaits(p, t) THEN DeleteSession(m2, t) ELSE m2
  <2>1. mem' = [mem EXCEPT ![p] = n]
    BY <1>2 DEF SettleRefused
  <2>2. Fewer(mem[p], m1)
    BY <1>0, UncacheFewer, SameEntries
  <2> HIDE DEF m1
  <2>3. Fewer(m1, m2)
    BY <2>2, AnonymousFewer DEF Fewer
  <2> HIDE DEF m2
  <2>4. Fewer(m2, n)
    BY <2>3, DeleteFewer, SameEntries DEF Fewer
  <2> HIDE DEF n
  <2> QED BY <2>1, <2>2, <2>3, <2>4, FewerTwice, DropsEntries
<1>3. CASE SettleOutage(p, t)
  BY <1>3 DEF SettleOutage, EntriesMove
<1> QED BY <1>1, <1>2, <1>3 DEF SettleStep

LEMMA RequestEntries ==
  ASSUME TypeOK, NEW p \in Proc, NEW t \in Token, RequestStep(p, t)
  PROVE  EntriesMove
<1>0. mem[p] \in Memory /\ now \in Nat /\ DOMAIN mem = Proc
  BY DEF TypeOK
<1>1. CASE RequestExpired(p, t)
  BY <1>0, <1>1, AnonymousFewer, DropsEntries DEF RequestExpired
<1>2. ASSUME NEW kind \in Kind, RequestHit(p, t, kind)
      PROVE  EntriesMove
  BY <1>0, <1>2, RunFewer, DropsEntries DEF RequestHit
<1>3. ASSUME NEW kind \in Kind, RequestMiss(p, t, kind)
      PROVE  EntriesMove
  BY <1>3 DEF RequestMiss, EntriesMove
<1> QED BY <1>1, <1>2, <1>3 DEF RequestStep

LEMMA KeepsEntries ==
  ASSUME TypeOK, mem' \in [Proc -> Memory], NEW p \in Proc, NEW n,
         mem' = [mem EXCEPT ![p] = n],
         n.resolved = mem[p].resolved, n.before = mem[p].before
  PROVE  EntriesMove
<1>1. n \in Memory /\ mem[p] \in Memory
  BY DEF TypeOK
<1> QED BY <1>1, SameEntries, DropsEntries

\* Statements and rounds change neither resolved nor its order.
LEMMA OtherEntries ==
  ASSUME TypeOK, mem' \in [Proc -> Memory], NEW p \in Proc,
         SyncStep(p) \/ \E t \in Token : StatementStep(p, t)
  PROVE  EntriesMove
<1> DEFINE m == mem[p]
           Saving(S) == [m EXCEPT !.saves = S]
           Deleting(S) == [m EXCEPT !.deletes = S]
           Living(S) == [m EXCEPT !.active = S]
           Returned(t, S) == [SaveReturned(m, t, now) EXCEPT !.saves = S]
           Dropping(t) == DeleteSession(m, t)
           Kept(n) == n.resolved = m.resolved /\ n.before = m.before
<1>0. m \in Memory /\ DOMAIN mem = Proc
  BY DEF TypeOK
<1>1. /\ \A S : Kept(Saving(S)) /\ Kept(Deleting(S)) /\ Kept(Living(S))
      /\ \A t \in Token : \A S : Kept(Returned(t, S))
      /\ \A t : Kept(Dropping(t))
  BY <1>0 DEF Memory, SaveReturned, DeleteSession
<1>2. \/ mem' = mem
      \/ \E S : \/ mem' = [mem EXCEPT ![p] = Saving(S)]
                \/ mem' = [mem EXCEPT ![p] = Deleting(S)]
                \/ mem' = [mem EXCEPT ![p] = Living(S)]
      \/ \E t \in Token : \E S : mem' = [mem EXCEPT ![p] = Returned(t, S)]
      \/ \E t : mem' = [mem EXCEPT ![p] = Dropping(t)]
  <2>1. ASSUME NEW t \in Token, StatementStep(p, t)
        PROVE  \/ \E S : mem' = [mem EXCEPT ![p] = Saving(S)]
               \/ \E S : mem' = [mem EXCEPT ![p] = Deleting(S)]
               \/ \E S : mem' = [mem EXCEPT ![p] = Returned(t, S)]
    BY <2>1 DEF StatementStep, SaveLands, DeleteLands, SaveFails, DeleteFails
  <2>2. CASE SyncStep(p)
    BY <2>2 DEF SyncStep, SyncStart, SyncLoad, SyncDeleted, SyncReturn, SyncSkip, SyncHit,
                SyncExpired, SyncAsks
  <2> QED BY <2>1, <2>2
<1>3. \A n : mem' = [mem EXCEPT ![p] = n] /\ Kept(n) => EntriesMove
  BY KeepsEntries
<1> HIDE DEF Saving, Deleting, Living, Returned, Dropping, Kept
<1>4. mem' = mem => EntriesMove
  BY DEF EntriesMove
<1> QED BY <1>1, <1>2, <1>3, <1>4

LEMMA EveryStepEntries ==
  ASSUME TypeOK, TypeOK', [Next]_vars
  PROVE  EntriesMove
<1>0. mem' \in [Proc -> Memory] /\ mem \in [Proc -> Memory]
  BY DEF TypeOK
<1>1. CASE \/ Tick \/ \E t \in Token, s \in Standing : UpstreamChanges(t, s)
           \/ \E p \in Proc, t \in Token : CallStep(p, t)
           \/ UNCHANGED vars
  BY <1>1 DEF Tick, UpstreamChanges, CallStep, Answer, CallFails, vars, EntriesMove
<1>2. ASSUME NEW p \in Proc, Restart(p)
      PROVE  EntriesMove
  <2>1. Fewer(mem[p], NoMemory)
    <3>1. NoMemory \in Memory
      BY DEF NoMemory, Memory, NeverWritten, Written, TokenOrNone
    <3>2. Cached(NoMemory) = {} /\ \A t \in Token : NoMemory.before[t] = {}
      BY DEF NoMemory, Cached
    <3> QED BY <3>1, <3>2 DEF Fewer
  <2> QED BY <1>2, <2>1, DropsEntries DEF Restart
<1>3. WebProc \subseteq Proc /\ SyncProc \subseteq Proc
  BY DEF ContextAssumption
<1> QED BY <1>0, <1>1, <1>2, <1>3, RequestEntries, SettleEntries, OtherEntries DEF Next

LEMMA InitOrderly == Init => CachesOrderly
<1>1. Cached(NoMemory) = {} /\ \A t \in Token : NoMemory.before[t] = {}
  BY DEF NoMemory, Cached
<1>2. Orderly(NoMemory)
  BY <1>1, FS_EmptySet DEF Orderly, ContextAssumption
<1> QED BY <1>2 DEF Init, CachesOrderly

LEMMA NextOrderly == TypeOK /\ TypeOK' /\ CachesOrderly /\ [Next]_vars => CachesOrderly'
<1> SUFFICES ASSUME TypeOK, TypeOK', CachesOrderly, [Next]_vars
             PROVE  CachesOrderly'
  OBVIOUS
<1>0. mem \in [Proc -> Memory] /\ now \in Nat
  BY DEF TypeOK
<1>1. CASE mem' = mem
  BY <1>1 DEF CachesOrderly, Orderly, Cached
<1>2. ASSUME NEW p \in Proc, NEW n \in Memory, mem' = [mem EXCEPT ![p] = n],
             Fewer(mem[p], n) \/ \E t \in Token : Fewer(Resolve(mem[p], t), n)
      PROVE  CachesOrderly'
  <2>1. Orderly(n)
    <3>1. CASE Fewer(mem[p], n)
      BY <1>0, <3>1, FewerOrderly DEF CachesOrderly
    <3>2. ASSUME NEW t \in Token, Fewer(Resolve(mem[p], t), n)
          PROVE  Orderly(n)
      <4>1. Resolve(mem[p], t) \in Memory /\ Orderly(Resolve(mem[p], t))
        BY <1>0, ResolveOrderly DEF CachesOrderly
      <4> QED BY <3>2, <4>1, FewerOrderly
    <3> QED BY <1>2, <3>1, <3>2
  <2>2. \A q \in Proc : mem'[q] = IF q = p THEN n ELSE mem[q]
    BY <1>0, <1>2
  <2>3. \A q \in Proc : Orderly(mem'[q])
    BY <2>1, <2>2 DEF CachesOrderly
  <2> QED BY <2>3 DEF CachesOrderly
<1> QED BY <1>1, <1>2, EveryStepEntries DEF EntriesMove

(* (clientContext.ts) The Map of resolved tokens never holds more than      *)
(* MAX_CACHED_TOKENS entries, whatever is answered, refused, logged out or  *)
(* evicted in between: there is always an oldest entry to give up.          *)
THEOREM CacheBounded == Safety => []CacheWithinLimit
<1>1. CachesOrderly => CacheWithinLimit
  BY DEF CachesOrderly, Orderly, CacheWithinLimit
<1>2. QED
  BY <1>1, TypeCorrect, InitOrderly, NextOrderly, PTL DEF Safety
=============================================================================
