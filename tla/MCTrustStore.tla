---------------------------- MODULE MCTrustStore ----------------------------
(***************************************************************************)
(* TrustStore on small instances.                                          *)
(***************************************************************************)
EXTENDS TrustStore, TLC

\* Peers are interchangeable, and so are clients and identities.
Interchangeable ==
    Permutations(Peers) \cup Permutations(Clients) \cup Permutations(Identities)
=============================================================================
