----------------------------- MODULE AccessLease ----------------------------
(***************************************************************************)
(* What the backend promises about access, without saying how: a process   *)
(* lets a token through from memory only under a lease, a lease is granted *)
(* only on an answer the identity service gave at most Timeout ago, and it *)
(* runs for ValidTTL at most.  Leases may be given up at any time.         *)
(***************************************************************************)
EXTENDS Integers, TLAPS

CONSTANTS Proc, Token, Exp, ValidTTL, Timeout

VARIABLES
  now,        \* the clock
  vouchedAt,  \* when the identity service last answered yes for a token
  lease       \* until when each process lets each token through, 0 for no lease

vars == <<now, vouchedAt, lease>>

NeverVouched == -1

Init ==
  /\ now = 0
  /\ vouchedAt = [t \in Token |-> NeverVouched]
  /\ lease = [p \in Proc |-> [t \in Token |-> 0]]

Tick == /\ now' = now + 1
        /\ UNCHANGED <<vouchedAt, lease>>

Vouch(t) == /\ vouchedAt' = [vouchedAt EXCEPT ![t] = now]
            /\ UNCHANGED <<now, lease>>

MayGrant(t) == /\ vouchedAt[t] # NeverVouched
               /\ now <= vouchedAt[t] + Timeout

\* One step of a process: each of its leases is kept, given up or granted anew.
Offered(t) == IF MayGrant(t) THEN {now + ValidTTL} ELSE {}

Decide(p) ==
  /\ lease' \in [Proc -> [Token -> Nat]]
  /\ \A t \in Token : lease'[p][t] \in {lease[p][t], 0} \cup Offered(t)
  /\ \A q \in Proc \ {p} : lease'[q] = lease[q]
  /\ UNCHANGED <<now, vouchedAt>>

Next == \/ Tick
        \/ \E t \in Token : Vouch(t)
        \/ \E p \in Proc : Decide(p)

Spec == Init /\ [][Next]_vars

LetsThrough(p, t) == now < lease[p][t] /\ now < Exp[t]

-----------------------------------------------------------------------------
(* Whoever is let through was vouched for less than a lease and one travel  *)
(* time ago: this bounds how long a revoked token keeps working, whatever   *)
(* processes cache, evict or forget.                                        *)
OnlyVouched ==
  \A p \in Proc, t \in Token :
    LetsThrough(p, t) => /\ vouchedAt[t] # NeverVouched
                         /\ now < vouchedAt[t] + ValidTTL + Timeout

LeaseTypeOK == /\ now \in Nat
               /\ vouchedAt \in [Token -> Nat \cup {NeverVouched}]
               /\ lease \in [Proc -> [Token -> Nat]]

(* Inductive: OnlyVouched says nothing of a lease that has run out and may  *)
(* not be extended by the clock alone, so the bound is put on the lease.    *)
LeaseInv ==
  /\ LeaseTypeOK
  /\ \A t \in Token : vouchedAt[t] <= now
  /\ \A p \in Proc, t \in Token :
       lease[p][t] # 0 => /\ vouchedAt[t] # NeverVouched
                          /\ lease[p][t] <= vouchedAt[t] + ValidTTL + Timeout

(* Every lease granted keeps the bound, so OnlyVouched holds throughout.    *)
THEOREM LeaseSafe ==
  ASSUME ValidTTL \in Nat, Timeout \in Nat
  PROVE  Spec => []OnlyVouched
<1>1. Init => LeaseInv
  BY DEF Init, LeaseInv, LeaseTypeOK, NeverVouched
<1>2. LeaseInv /\ [Next]_vars => LeaseInv'
  <2> SUFFICES ASSUME LeaseInv, [Next]_vars
               PROVE  LeaseInv'
    OBVIOUS
  <2> USE DEF LeaseInv, LeaseTypeOK, NeverVouched
  <2>1. CASE Tick
    BY <2>1 DEF Tick
  <2>2. ASSUME NEW t \in Token, Vouch(t)
        PROVE  LeaseInv'
    BY <2>2 DEF Vouch
  <2>3. ASSUME NEW p \in Proc, Decide(p)
        PROVE  LeaseInv'
    BY <2>3 DEF Decide, Offered, MayGrant
  <2>4. CASE UNCHANGED vars
    BY <2>4 DEF vars
  <2>5. QED
    BY <2>1, <2>2, <2>3, <2>4 DEF Next
<1>3. LeaseInv => OnlyVouched
  BY DEF LeaseInv, LeaseTypeOK, OnlyVouched, LetsThrough, NeverVouched
<1>4. QED
  BY <1>1, <1>2, <1>3, PTL DEF Spec
=============================================================================
