------------------------------ MODULE WorkQueue ------------------------------
(***************************************************************************)
(* The bounded, coalescing queue between a session and the display work of *)
(* one peer (capabilities/notifications/src/queue.rs), as operators on     *)
(* sequences.  A unit of work is a record with a kind in "t":              *)
(*   roles, upsert (id, ...), remove (id), dismiss (id), begin and end (the *)
(*   two snapshot markers), lock (locked), closeAll.                       *)
(* Offer is one hold of the queue's mutex; the counters are left out.      *)
(***************************************************************************)
LOCAL INSTANCE Naturals
LOCAL INSTANCE Sequences
LOCAL INSTANCE FiniteSets
LOCAL INSTANCE FiniteSetsExt
LOCAL INSTANCE SequencesExt

IsTerminal(w) == w.t \in {"remove", "closeAll"}

IsBarrier(w) == w.t \in {"begin", "end", "closeAll", "lock"}

\* The place of the pending upsert for id that a newer one may be merged into:
\* the last one, unless a barrier was queued since.  Empty if there is none.
UpsertSlot(q, id) ==
    {k \in 1 .. Len(q) :
        /\ q[k].t = "upsert" /\ q[k].id = id
        /\ \A j \in k + 1 .. Len(q) :
               ~ IsBarrier(q[j]) /\ ~ (q[j].t = "upsert" /\ q[j].id = id)}

\* The ceiling: the oldest work that is not terminal makes room.  When all of
\* it is terminal there is no room.
Evict(q, cap) ==
    LET open == {k \in 1 .. Len(q) : ~ IsTerminal(q[k])}
    IN  [queue |-> RemoveAt(q, Min(open)), evicted |-> {q[Min(open)]}]

\* A removal takes the pending upsert of its notification out of the queue,
\* and still gets a place of its own.
Supersede(q, w) ==
    IF w.t = "remove" /\ UpsertSlot(q, w.id) # {}
    THEN RemoveAt(q, Max(UpsertSlot(q, w.id)))
    ELSE q

\* The queue after w is offered, what was evicted for it, and whether w itself
\* was dropped.
Offer(q, w, cap) ==
    LET slot == IF w.t = "upsert" THEN UpsertSlot(q, w.id) ELSE {}
        base == Supersede(q, w)
        room == IF Len(base) < cap THEN [queue |-> base, evicted |-> {}] ELSE Evict(base, cap)
    IN  IF slot # {}
        THEN [queue |-> [q EXCEPT ![Max(slot)] = w], evicted |-> {}, dropped |-> FALSE]
        ELSE IF w.t = "roles" /\ \E k \in 1 .. Len(q) : q[k].t = "roles"
        THEN [queue |-> q, evicted |-> {}, dropped |-> FALSE]
        ELSE IF Len(base) >= cap /\ \A k \in 1 .. Len(base) : IsTerminal(base[k])
        THEN [queue |-> base, evicted |-> {}, dropped |-> TRUE]
        ELSE [queue |-> Append(room.queue, w), evicted |-> room.evicted, dropped |-> FALSE]

=============================================================================
