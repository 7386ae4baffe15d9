---------------------------- MODULE MCCertStore ----------------------------
(* A small instance of CertStore.                                          *)
EXTENDS CertStore, TLC

CONSTANTS t1, t2, q1

\* A certificate whose proof is none, with the names of the first builds.
MCForeign ==
    {[producer_ay_identity |-> 1, external_clean_checker_identity |-> 1,
      smt2_sha256 |-> q1, smt2 |-> q1, alethe_proof |-> Bogus]}

Sym == Permutations(Threads)
=============================================================================
