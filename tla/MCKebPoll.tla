----------------------------- MODULE MCKebPoll -----------------------------
(* KebPoll with runtimes that all belong to one subaccount; the            *)
(* configuration has one of them filtered.                                 *)
EXTENDS KebPoll

CONSTANT k1

MCSubAccountOf == [r \in Runtimes |-> k1]
=============================================================================
