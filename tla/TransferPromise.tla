--------------------------- MODULE TransferPromise ---------------------------
(***************************************************************************)
(* What files.v1 promises about one transfer, seen from outside: the state *)
(* the sender shows, the state the receiver shows, and whether the file is *)
(* in the receiver's download folder (docs/architecture/FILES.md).         *)
(***************************************************************************)
VARIABLES snd, rcv, stored

vars == <<snd, rcv, stored>>

Ended == {"completed", "failed", "cancelled"}

Init == snd = "none" /\ rcv = "none" /\ stored = FALSE

Offer == snd = "none" /\ snd' = "offered" /\ UNCHANGED <<rcv, stored>>

Arrive == snd # "none" /\ rcv = "none" /\ rcv' = "waiting" /\ UNCHANGED <<snd, stored>>

Agree == rcv = "waiting" /\ rcv' = "transferring" /\ UNCHANGED <<snd, stored>>

\* The sender starts only once the receiver has agreed.
Start ==
    /\ snd = "offered"
    /\ rcv \notin {"none", "waiting"}
    /\ snd' = "transferring"
    /\ UNCHANGED <<rcv, stored>>

Check == rcv = "transferring" /\ rcv' = "verifying" /\ UNCHANGED <<snd, stored>>

\* The file gets its final name; an end that comes during the check may come
\* too late to prevent it.
Store ==
    /\ rcv \in {"verifying", "failed", "cancelled"}
    /\ ~ stored
    /\ stored' = TRUE
    /\ UNCHANGED <<snd, rcv>>

\* Completed means stored, on the receiver first and only then on the sender.
Receive == rcv = "verifying" /\ stored /\ rcv' = "completed" /\ UNCHANGED <<snd, stored>>

Confirm == snd = "transferring" /\ rcv = "completed" /\ snd' = "completed" /\ UNCHANGED <<rcv, stored>>

GiveUp ==
    \/ snd \notin Ended \cup {"none"} /\ snd' \in {"failed", "cancelled"} /\ UNCHANGED <<rcv, stored>>
    \/ rcv \notin Ended \cup {"none"} /\ rcv' \in {"failed", "cancelled"} /\ UNCHANGED <<snd, stored>>

Next == Offer \/ Arrive \/ Agree \/ Start \/ Check \/ Store \/ Receive \/ Confirm \/ GiveUp

Spec == Init /\ [][Next]_vars

=============================================================================
