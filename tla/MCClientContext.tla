-------------------------- MODULE MCClientContext ---------------------------
(***************************************************************************)
(* ClientContext on small instances: a short- and a long-lived token of    *)
(* one client.  Clients share nothing but the capacity of the token cache, *)
(* so one client is the unit of contention.                                *)
(***************************************************************************)
EXTENDS ClientContext, TLC

CONSTANTS short, long, A, ShortExp, LongExp

MCClientOf == [t \in Token |-> A]
MCExp == [t \in Token |-> IF t = short THEN ShortExp ELSE LongExp]
=============================================================================
