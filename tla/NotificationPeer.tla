--------------------------- MODULE NotificationPeer ---------------------------
(***************************************************************************)
(* notifications.v1 on the desktop, what one peer's slot goes through: its *)
(* sessions, roles, work queue and worker, snapshot and reconnect grace    *)
(* (PeerSlot and its users in capabilities/notifications/src/lib.rs).      *)
(*                                                                         *)
(* The sessions call attach, handle_control and detach; the worker drains  *)
(* the queue and works through the batch; grace timers and the control     *)
(* server put work in the queue.  The phone is its list of active          *)
(* notifications and what it writes into each connection, in order.  What  *)
(* a mirror looks like and the desktop's server are in NotificationScreen; *)
(* here a mirror is the version of the notification it shows.              *)
(***************************************************************************)
EXTENDS Naturals, Sequences, SequencesExt, WorkQueue

CONSTANTS
    Ids,            \* notifications of the phone
    MaxSession,     \* sessions are 1 .. MaxSession, in the order they connect
    MaxVersion,     \* versions of a notification's content
    QueueCap,       \* MAX_QUEUED_WORK
    MaxChanges,     \* bound on what happens in the phone's shade
    MaxTrouble      \* bound on grant changes, role changes and lost time

Sessions == 1 .. MaxSession
None == 0

ASSUME PeerAssumption == {MaxSession, MaxVersion, QueueCap} \subseteq Nat \ {0}

VARIABLES
    phase,      \* each session: where its task is
    chan,       \* each session: what the phone wrote and the task has not read
    slot,       \* PeerState and PeerSlot: the record of Init
    queue,      \* WorkQueue
    batch,      \* the worker's drained work
    job,        \* the worker: where it is, and the sender it took
    wake,       \* the permit in Notify
    timer,      \* each session: the grace timer its detach armed
    revoking,   \* revoke_peer has yet to be called for a withdrawn grant
    grant,      \* the policy allows mirroring
    mirrors,    \* MirrorTable: the version shown, 0 for no entry
    phone,      \* the phone: active notifications, roles, what it was told
    budget,     \* what is left of the bounds
    skipped,    \* history: notifications of which an upsert was not applied
    trouble     \* history: the overlaps that happened

session == <<phase, chan>>
worker == <<batch, job>>
history == <<skipped, trouble>>
vars == <<session, slot, queue, worker, wake, timer, revoking, grant, mirrors, phone, budget, history>>

Init ==
    /\ phase = [s \in Sessions |-> "new"]
    /\ chan = [s \in Sessions |-> <<>>]
    /\ slot = [generation |-> 0, outbound |-> None, connected |-> FALSE, superseded |-> 0,
               epoch |-> 0, source |-> FALSE, announced |-> FALSE, snapshot |-> None, named |-> {}]
    /\ queue = <<>> /\ batch = <<>> /\ job = [at |-> "wait", sender |-> None]
    /\ wake = FALSE
    /\ timer = [s \in Sessions |-> [at |-> "off", generation |-> 0]]
    /\ revoking = FALSE
    /\ grant = TRUE
    /\ mirrors = [i \in Ids |-> 0]
    /\ phone = [active |-> [i \in Ids |-> 1], on |-> None, epoch |-> 0, sourcing |-> TRUE,
                sink |-> FALSE]
    /\ budget = [changes |-> MaxChanges, trouble |-> MaxTrouble]
    /\ skipped = {}
    /\ trouble = {}

Spend(what) ==
    /\ budget[what] > 0
    /\ budget' = [budget EXCEPT ![what] = @ - 1]

Goes(s, step) == phase' = [phase EXCEPT ![s] = step]

\* What was lost by an offer.
LostBy(o) ==
    IF o.dropped \/ \E e \in o.evicted : e.t # "roles" THEN {"lost"}
    ELSE IF o.evicted # {} THEN {"unannounced"} ELSE {}

\* offer and wake; what is lost is added to the troubles so far.
Put(w, troubles) ==
    \E o \in {Offer(queue, w, QueueCap)} :
        /\ queue' = o.queue
        /\ wake' = (wake \/ ~ o.dropped)
        /\ skipped' = skipped \cup {e.id : e \in {x \in o.evicted : x.t = "upsert"}}
        /\ trouble' = troubles \cup LostBy(o)

-----------------------------------------------------------------------------
(* The phone: what it writes into the connection it believes in.           *)

Active == {i \in Ids : phone.active[i] # 0}

\* The upserts of the notifications in d, in one order.
Upserts(d) ==
    LET ids == SetToSeq(d)
    IN  [k \in 1 .. Len(ids) |-> [t |-> "upsert", id |-> ids[k], v |-> phone.active[ids[k]]]]

\* A snapshot, which live traffic does not split.
Snapshot(s) ==
    <<[t |-> "begin", of |-> s]>> \o Upserts(Active) \o <<[t |-> "end", of |-> s, claims |-> Active]>>

Writes(s, messages) == chan' = [chan EXCEPT ![s] = @ \o messages]

\* The phone has heard that the desktop is a sink, and has sent its snapshot.
Synced == phone.on # None /\ phone.sink /\ phone.sourcing

\* A notification is posted, updated or removed in the shade; while the phone
\* is a source and its snapshot is out, the desktop hears of it.
Shade(i, v, message) ==
    /\ Spend("changes")
    /\ phone' = [phone EXCEPT !.active[i] = v]
    /\ IF Synced THEN Writes(phone.on, <<message>>) ELSE UNCHANGED chan
    /\ UNCHANGED <<phase, slot, queue, worker, wake, timer, revoking, grant, mirrors, history>>

PhonePosts(i) ==
    /\ phone.active[i] < MaxVersion
    /\ LET v == phone.active[i] + 1 IN Shade(i, v, [t |-> "upsert", id |-> i, v |-> v])

PhoneRemoves(i) ==
    /\ phone.active[i] # 0
    /\ Shade(i, 0, [t |-> "remove", id |-> i])

\* Access to the shade is taken from the app, or given back: a narrower role, or
\* a wider one and then a snapshot.
PhoneRolesChange ==
    /\ phone.on # None
    /\ Spend("trouble")
    /\ phone' = [phone EXCEPT !.sourcing = ~ @, !.epoch = @ + 1]
    /\ Writes(phone.on, <<[t |-> "peerRoles", epoch |-> phone.epoch + 1, source |-> ~ phone.sourcing]>>
                         \o IF phone.sink /\ ~ phone.sourcing THEN Snapshot(phone.on) ELSE <<>>)
    /\ UNCHANGED <<phase, slot, queue, worker, wake, timer, revoking, grant, mirrors, history>>

\* The phone hears on connection s that this desktop is a sink.
PhoneHears(s) ==
    IF phone.on # s THEN UNCHANGED <<phone, chan>>
    ELSE /\ phone' = [phone EXCEPT !.sink = TRUE]
         /\ Writes(s, IF phone.sourcing /\ ~ phone.sink THEN Snapshot(s) ELSE <<>>)

-----------------------------------------------------------------------------
(* Sessions.                                                               *)

Attached(s) == phase[s] \notin {"new", "attaching"}

\* An attach or a detach that overlaps another one of the same peer.
Torn(s) ==
    IF \E r \in Sessions \ {s} : phase[r] \in {"attaching", "dropping", "clearing"}
    THEN {"torn"} ELSE {}

\* The overlaps in d are recorded; together they are bounded.
Overlaps(d) ==
    /\ trouble' = trouble \cup d
    /\ IF d \subseteq trouble THEN UNCHANGED budget ELSE Spend("trouble")

\* The phone connects, again if it must, and announces its roles;
\* attach_session begins, with the generation and the sender.
AttachOutbound(s) ==
    /\ phase[s] = "new" /\ \A r \in 1 .. s - 1 : phase[r] # "new"
    /\ Goes(s, "attaching")
    /\ phone' = [phone EXCEPT !.on = s, !.epoch = 1, !.sink = FALSE]
    /\ Writes(s, <<[t |-> "peerRoles", epoch |-> 1, source |-> phone.sourcing]>>)
    /\ slot' = [slot EXCEPT !.generation = @ + 1, !.outbound = s]
    /\ Overlaps(Torn(s))
    /\ UNCHANGED <<queue, worker, wake, timer, revoking, grant, mirrors, skipped>>

\* Roles and snapshot of a connection that is over, or not yet begun.
Fresh(t) == [t EXCEPT !.announced = FALSE, !.epoch = 0, !.source = FALSE, !.snapshot = None, !.named = {}]

\* Mutant: the attach forgets to wake the worker.
AttachSilently(s) ==
    /\ phase[s] = "attaching"
    /\ Goes(s, "up")
    /\ slot' = Fresh([slot EXCEPT !.connected = TRUE,
                                 !.superseded = IF slot.connected THEN @ + 1 ELSE @])
    /\ queue' = Offer(queue, [t |-> "roles"], QueueCap).queue
    /\ UNCHANGED <<chan, worker, wake, timer, revoking, grant, mirrors, phone, budget, history>>

\* attach_session: the state, and the announcement.
AttachState(s) ==
    /\ phase[s] = "attaching"
    /\ Goes(s, "up")
    /\ slot' = Fresh([slot EXCEPT !.connected = TRUE,
                                 !.superseded = IF slot.connected THEN @ + 1 ELSE @])
    /\ Put([t |-> "roles"],
           (trouble \cap ({"torn", "lost"} \cup IF revoking THEN {"denied"} ELSE {}))
           \cup (IF \E r \in Sessions : timer[r].at = "offering" THEN {"grace"} ELSE {}))
    /\ IF "grace" \in trouble' THEN Spend("trouble") ELSE UNCHANGED budget
    /\ UNCHANGED <<chan, worker, timer, revoking, grant, mirrors, phone>>

\* The connection is over (lost, replaced or told to stop); what was not read
\* is gone, and so is what the phone knew of it.
Leaves(s) ==
    /\ phase[s] = "up"
    /\ chan' = [chan EXCEPT ![s] = <<>>]
    /\ phone' = IF phone.on = s THEN [phone EXCEPT !.on = None, !.epoch = 0, !.sink = FALSE]
                ELSE phone

\* Mutant: no detach is owed to a session that was replaced.
DetachUnspent(s) ==
    /\ Leaves(s)
    /\ Goes(s, "dropping")
    /\ UNCHANGED <<slot, queue, worker, wake, timer, revoking, grant, mirrors, budget, history>>

\* detach_session: the detach of a replaced session is spent and does nothing.
DetachCheck(s) ==
    /\ Leaves(s)
    /\ \/ /\ slot.superseded > 0
          /\ slot' = [slot EXCEPT !.superseded = @ - 1]
          /\ Goes(s, "gone")
          /\ UNCHANGED <<budget, trouble>>
       \/ /\ slot.superseded = 0
          /\ Goes(s, "dropping")
          /\ Overlaps(Torn(s))
          /\ UNCHANGED slot
    /\ UNCHANGED <<queue, worker, wake, timer, revoking, grant, mirrors, skipped>>

\* detach_session: the sender goes, and the generation is read.
DetachOutbound(s) ==
    /\ phase[s] = "dropping"
    /\ Goes(s, "clearing")
    /\ slot' = [slot EXCEPT !.outbound = None]
    /\ timer' = [timer EXCEPT ![s].generation = slot.generation]
    /\ UNCHANGED <<chan, queue, worker, wake, revoking, grant, mirrors, phone, budget, history>>

\* detach_session: the state goes, and the grace begins.
DetachState(s) ==
    /\ phase[s] = "clearing"
    /\ Goes(s, "gone")
    /\ slot' = Fresh([slot EXCEPT !.connected = FALSE])
    /\ timer' = [timer EXCEPT ![s].at = "armed"]
    /\ UNCHANGED <<chan, queue, worker, wake, revoking, grant, mirrors, phone, budget, history>>

\* The grace timer: the generation and the flag, and the work it offers.
Timer(s, from, to) ==
    /\ timer[s].at = from
    /\ timer' = [timer EXCEPT ![s] = [at |-> to, generation |-> IF to = "armed" THEN @.generation ELSE 0]]

\* Mutant: the timer does not look whether the peer came back.
GraceUnchecked(s) ==
    /\ Timer(s, "armed", "offering")
    /\ UNCHANGED <<session, slot, queue, worker, wake, revoking, grant, mirrors, phone, budget, history>>

GraceEnds(s) ==
    /\ Timer(s, "armed", IF slot.generation = timer[s].generation /\ ~ slot.connected
                         THEN "offering" ELSE "off")
    /\ UNCHANGED <<session, slot, queue, worker, wake, revoking, grant, mirrors, phone, budget, history>>

GraceCloses(s) ==
    /\ Timer(s, "offering", "off")
    /\ Put([t |-> "closeAll"], trouble)
    /\ UNCHANGED <<session, slot, worker, revoking, grant, mirrors, phone, budget>>

-----------------------------------------------------------------------------
(* handle_control, on the session's task.                                  *)

\* A message of a session that has been replaced.
Late(s) == IF \E r \in s + 1 .. MaxSession : Attached(r) THEN {"late"} ELSE {}
BoundLate(s) == IF Late(s) \subseteq trouble THEN UNCHANGED budget ELSE Spend("trouble")

\* PeerRoles::apply: only a higher epoch counts.
PeerRolesApply(m) ==
    IF m.epoch > slot.epoch THEN [slot EXCEPT !.epoch = m.epoch, !.source = m.source] ELSE slot

\* The roles are applied here; a peer that is no longer a source loses its
\* mirrors.
HandleRoles(s) ==
    /\ phase[s] = "up" /\ chan[s] # <<>>
    /\ chan' = [chan EXCEPT ![s] = Tail(@)]
    /\ LET m == Head(chan[s])
       IN  /\ m.t = "peerRoles"
           /\ slot' = PeerRolesApply(m)
           /\ IF slot.source /\ ~ slot'.source
              THEN Put([t |-> "closeAll"], trouble \cup Late(s))
              ELSE /\ trouble' = trouble \cup Late(s)
                   /\ UNCHANGED <<queue, wake, skipped>>
    /\ BoundLate(s)
    /\ UNCHANGED <<phase, worker, timer, revoking, grant, mirrors, phone>>

\* Anything else needs the grant, asked for here;
AskGrant(s) ==
    /\ phase[s] = "up" /\ chan[s] # <<>>
    /\ LET m == Head(chan[s])
       IN  /\ m.t # "peerRoles"
           /\ IF grant
              THEN Goes(s, "granted") /\ UNCHANGED <<chan, skipped>>
              ELSE /\ chan' = [chan EXCEPT ![s] = Tail(@)]
                   /\ skipped' = skipped \cup (IF m.t = "upsert" THEN {m.id} ELSE {})
                   /\ UNCHANGED phase
    /\ UNCHANGED <<slot, queue, worker, wake, timer, revoking, grant, mirrors, phone, budget, trouble>>

\* and is queued.
Enqueue(s) ==
    /\ phase[s] = "granted"
    /\ Goes(s, "up")
    /\ chan' = [chan EXCEPT ![s] = Tail(@)]
    /\ Put(Head(chan[s]), trouble \cup Late(s))
    /\ BoundLate(s)
    /\ UNCHANGED <<slot, worker, timer, revoking, grant, mirrors, phone>>

-----------------------------------------------------------------------------
(* The policy, and what the control server does when it is withdrawn.      *)

SetPolicy ==
    /\ Spend("trouble")
    /\ grant' = ~ grant
    /\ revoking' = (revoking \/ grant)
    /\ trouble' = trouble \cup {"denied"}
    /\ UNCHANGED <<session, slot, queue, worker, wake, timer, mirrors, phone, skipped>>

\* revoke_peer; a peer that never had a session has no slot.
RevokePeer ==
    /\ revoking
    /\ revoking' = FALSE
    /\ IF slot.generation = 0
       THEN UNCHANGED <<queue, wake, history>>
       ELSE Put([t |-> "closeAll"], trouble)
    /\ UNCHANGED <<session, slot, worker, timer, grant, mirrors, phone, budget>>

-----------------------------------------------------------------------------
(* The worker.                                                             *)

Item == Head(batch)
Working(kind) == job.at = "next" /\ Item.t = kind

\* The item is done; after the last one the worker waits.
Done ==
    /\ batch' = Tail(batch)
    /\ job' = [at |-> IF Len(batch) = 1 THEN "wait" ELSE "next", sender |-> None]

Drain ==
    /\ job.at = "wait" /\ wake
    /\ wake' = FALSE
    /\ batch' = queue /\ queue' = <<>>
    /\ job' = [job EXCEPT !.at = IF queue = <<>> THEN "wait" ELSE "next"]
    /\ UNCHANGED <<session, slot, timer, revoking, grant, mirrors, phone, budget, history>>

\* The deadline of an open snapshot passes while the worker waits.
AbandonSnapshot ==
    /\ job.at = "wait" /\ slot.snapshot # None
    /\ Spend("trouble")
    /\ slot' = [slot EXCEPT !.snapshot = None, !.named = {}]
    /\ trouble' = trouble \cup {"timeout"}
    /\ UNCHANGED <<session, queue, worker, wake, timer, revoking, grant, mirrors, phone, skipped>>

\* announce_roles: the sender is taken first.
TakeSender ==
    /\ Working("roles")
    /\ IF slot.outbound = None
       THEN Done
       ELSE job' = [at |-> "announce", sender |-> slot.outbound] /\ UNCHANGED batch
    /\ UNCHANGED <<session, slot, queue, wake, timer, revoking, grant, mirrors, phone, budget, history>>

\* announce_roles: an unchanged set is not sent again.
AnnounceRoles ==
    /\ job.at = "announce"
    /\ Done
    /\ slot' = [slot EXCEPT !.announced = TRUE]
    /\ IF slot.announced
       THEN UNCHANGED <<chan, phone, budget, trouble>>
       ELSE /\ PhoneHears(job.sender)
            /\ Overlaps(IF slot.outbound # job.sender THEN {"elsewhere"} ELSE {})
    /\ UNCHANGED <<phase, queue, wake, timer, revoking, grant, mirrors, skipped>>

Permitted == grant /\ slot.source

\* apply_upsert asks for the grant and the role first.
CheckUpsert ==
    /\ Working("upsert")
    /\ IF Permitted
       THEN job' = [job EXCEPT !.at = "passed"] /\ UNCHANGED <<batch, skipped>>
       ELSE Done /\ skipped' = skipped \cup {Item.id}
    /\ UNCHANGED <<session, slot, queue, wake, timer, revoking, grant, mirrors, phone, budget, trouble>>

\* apply_upsert: recorded in an open snapshot, and shown.
ApplyUpsert ==
    /\ job.at = "passed"
    /\ Done
    /\ slot' = [slot EXCEPT !.named = IF slot.snapshot = None THEN @ ELSE @ \cup {Item.id}]
    /\ mirrors' = [mirrors EXCEPT ![Item.id] = Item.v]
    /\ UNCHANGED <<session, queue, wake, timer, revoking, grant, phone, budget, history>>

ApplyRemove ==
    /\ Working("remove")
    /\ Done
    /\ mirrors' = IF Permitted THEN [mirrors EXCEPT ![Item.id] = 0] ELSE mirrors
    /\ UNCHANGED <<session, slot, queue, wake, timer, revoking, grant, phone, budget, history>>

\* apply_sync: BEGIN opens a snapshot, in place of one that is open.
SyncBegin ==
    /\ Working("begin")
    /\ Done
    /\ slot' = [slot EXCEPT !.snapshot = Item.of, !.named = {}]
    /\ UNCHANGED <<session, queue, wake, timer, revoking, grant, mirrors, phone, budget, history>>

\* Mutant: an END counts although no snapshot is open.
SyncEndUnopened ==
    /\ Working("end")
    /\ Done
    /\ IF slot.snapshot \in {Item.of, None}
       THEN /\ mirrors' = [i \in Ids |-> IF i \in slot.named THEN mirrors[i] ELSE 0]
            /\ slot' = [slot EXCEPT !.snapshot = None, !.named = {}]
       ELSE UNCHANGED <<mirrors, slot>>
    /\ UNCHANGED <<session, queue, wake, timer, revoking, grant, phone, budget, history>>

\* apply_sync: the END of the open snapshot closes what it did not name; any
\* other END is ignored.
SyncEnd ==
    /\ Working("end")
    /\ Done
    /\ IF slot.snapshot = Item.of
       THEN /\ mirrors' = [i \in Ids |-> IF i \in slot.named THEN mirrors[i] ELSE 0]
            /\ slot' = [slot EXCEPT !.snapshot = None, !.named = {}]
       ELSE UNCHANGED <<mirrors, slot>>
    /\ UNCHANGED <<session, queue, wake, timer, revoking, grant, phone, budget, history>>

CloseAll ==
    /\ Working("closeAll")
    /\ Done
    /\ mirrors' = [i \in Ids |-> 0]
    /\ slot' = [slot EXCEPT !.snapshot = None, !.named = {}]
    /\ UNCHANGED <<session, queue, wake, timer, revoking, grant, phone, budget, history>>

-----------------------------------------------------------------------------
SessionStep(s) ==
    \/ AttachState(s) \/ HandleRoles(s) \/ AskGrant(s) \/ Enqueue(s)
    \/ DetachOutbound(s) \/ DetachState(s)
    \/ GraceEnds(s) \/ GraceCloses(s)

WorkerStep ==
    \/ Drain \/ TakeSender \/ AnnounceRoles \/ CheckUpsert
    \/ ApplyUpsert \/ ApplyRemove \/ SyncBegin \/ SyncEnd \/ CloseAll

Next ==
    \/ \E s \in Sessions : AttachOutbound(s) \/ SessionStep(s) \/ DetachCheck(s)
    \/ \E i \in Ids : PhonePosts(i) \/ PhoneRemoves(i)
    \/ PhoneRolesChange \/ SetPolicy \/ RevokePeer
    \/ WorkerStep \/ AbandonSnapshot

\* Tasks that can go on do, and timers fire.  Nothing obliges the phone to
\* connect, or a connection to end.
Work == WorkerStep \/ RevokePeer \/ \E s \in Sessions : SessionStep(s)

Fairness == WF_vars(Work)

Spec == Init /\ [][Next]_vars /\ Fairness

-----------------------------------------------------------------------------
(* Properties.                                                             *)

\* No other session is on its way in.
Newest(s) == phase[s] \in {"up", "granted"} /\ \A r \in s + 1 .. MaxSession : phase[r] = "new"
Idle == queue = <<>> /\ batch = <<>> /\ ~ revoking

\* Coalescing, snapshots, late timers and reconnects come out even: once the
\* work is done, the phone knows the desktop for a sink and the mirrors are its
\* active notifications, in their last version.  Left out are the overlaps
\* recorded in trouble.
MirrorsMatchPhone ==
    \A s \in Sessions :
        /\ Newest(s) /\ phone.sourcing /\ chan[s] = <<>> /\ Idle /\ grant
        /\ trouble = {}
        => phone.sink /\ mirrors = phone.active

\* What was queued is done.  A removal or a bulk close leaves the queue for
\* the worker's batch and no other way, also at the ceiling.  And a snapshot
\* closes nothing it names, unless an upsert for it was refused or evicted on
\* the way, or two sessions wrote at once.
WorkIsDoneAsQueued ==
    [][/\ \A w \in ToSet(queue) : IsTerminal(w) => w \in ToSet(queue') \cup ToSet(batch')
       /\ Working("end") /\ batch' # batch
            => "late" \in trouble \/ \A i \in Item.claims \ skipped : mirrors'[i] = mirrors[i]]_vars

\* The slot of a peer follows its sessions.  The detach of a replaced session,
\* which comes after the attach of its successor, takes nothing from it: a live
\* session is connected in the slot and holds the sender, unless its attach
\* overlapped a detach.  And nothing stays on the screen for a peer without a
\* grant, or for one whose sessions are gone and whose grace is over.
SlotFollowsSessions ==
    /\ \A s \in Sessions :
        Newest(s) /\ "torn" \notin trouble => slot.connected /\ slot.outbound = s
    /\ \/ ~ Idle \/ trouble \cap {"torn", "lost"} # {}
       \/ grant /\ \E s \in Sessions : phase[s] \notin {"new", "gone"} \/ timer[s].at # "off"
       \/ \A i \in Ids : mirrors[i] = 0

\* A connection that stays up, with access and a grant, ends with the phone's
\* notifications on the screen: no wake-up and no announcement is lost.
MirroringArrives ==
    <>[](/\ \E s \in Sessions : Newest(s)
         /\ phone.sourcing /\ grant /\ trouble = {})
        => <>[](mirrors = phone.active)

=============================================================================
