----------------------------- MODULE MCRunEngine -----------------------------
(* Small instances of RunEngine and RunClaims for TLC. *)
EXTENDS RunClaims, TLC

\* The deliveries' processes are interchangeable.
WorkerSymmetry == Permutations(Workers)
=============================================================================
