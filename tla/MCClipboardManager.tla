-------------------------- MODULE MCClipboardManager --------------------------
(***************************************************************************)
(* ClipboardManager for TLC.  No definition tells two peers, sessions,     *)
(* clients or updates apart.                                               *)
(***************************************************************************)
EXTENDS ClipboardManager, TLC

Symmetry ==
    Permutations(Peers) \cup Permutations(Sessions) \cup Permutations(Clients)
        \cup Permutations(Events)

=============================================================================
