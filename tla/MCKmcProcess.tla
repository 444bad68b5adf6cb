---------------------------- MODULE MCKmcProcess ----------------------------
(* Small instances of KmcProcess: r1 and r2 are two clusters of subaccount *)
(* k1, one provisioned after the other; r3 is the cluster of k2.           *)
EXTENDS KmcProcess, TLC

CONSTANTS k1, k2, r1, r2, r3

MCSubAccountOf == [r \in Runtimes |-> IF r = r3 THEN k2 ELSE k1]

(* KEB may say anything of any runtime.                                    *)
MCAnyAnswer == [r \in Runtimes |-> Status]

(* No runtime is in a filtered global account.                             *)
MCUnfiltered == [r \in Runtimes |-> Status \ {"filtered"}]

(* k1 stays billable, k2 comes and goes.                                   *)
MCSecondComesAndGoes ==
    [r \in Runtimes |-> IF r = r3 THEN {"absent", "trackable"} ELSE {"trackable"}]
=============================================================================
