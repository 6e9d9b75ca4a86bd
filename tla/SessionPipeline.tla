--------------------------- MODULE SessionPipeline ---------------------------
(***************************************************************************)
(* One connection from accept to close: the listener's slots (listener.rs), *)
(* both halves of the handshake, and the tasks of an established session   *)
(* (session.rs): reader, dispatch loop and writer with the bounded queues  *)
(* between them, control clients that ping and stop it, and a phone that   *)
(* answers, stalls, leaves or vanishes.                                    *)
(*                                                                         *)
(*   up -> reader -> inbound -> loop -> writeq -> writer -> down           *)
(*                              loop <- cmds         \- capq <- handlers   *)
(*                                                                         *)
(* Sequence numbers are stamped by the one writer in wire order and are    *)
(* left out; "replay" is a frame that ReplayGuard refuses.                 *)
(***************************************************************************)
EXTENDS Naturals, Sequences, FiniteSets

CONSTANTS
    Slots,          \* MAX_CONCURRENT_CONNECTIONS
    QueueCap,       \* capacity of each channel and of each direction of the wire
    ClientOrder,    \* control clients, named in the order in which they ping
    PhoneVersions,  \* the version ranges phones offer, [min, max]
    MaxReplies,     \* most messages a handler sends for one it received
    MaxFrames,      \* bound on messages the phone sends by itself
    MaxTrouble      \* bound on stalls, vanishing phones and timeouts

VersionMin == 1
VersionMax == 1
ProbeAfter == 1     \* LIVENESS_PROBE_AFTER, in units of silence
DeadAfter == 3      \* LIVENESS_DEAD_AFTER
None == "none"
Clients == {ClientOrder[i] : i \in DOMAIN ClientOrder}

ASSUME PipelineAssumption ==
    /\ Slots \in Nat /\ QueueCap \in Nat \ {0} /\ None \notin Clients
    /\ PhoneVersions \subseteq [min : Nat, max : Nat]
    /\ {MaxReplies, MaxFrames, MaxTrouble} \subseteq Nat

VARIABLES
    slots,      \* free permits, and those other connections hold
    trust,      \* the desktop's record of the phone, and its pairing window
    phone,      \* the initiator: where it is ("up": it holds a record of the
                \* desktop, and the session), whether it is awake, its token
    conn,       \* the connection's task: phase, and the version agreed
    up,         \* frames on their way to the desktop
    down,       \* frames on their way to the phone
    inbound,    \* channel from the reader to the loop
    cmds,       \* channel of commands
    writeq,     \* channel of the session's own frames
    capq,       \* channel of the capabilities' messages
    loop,       \* the dispatch loop
    writer,     \* the writer: idle, a frame, "failed"
    pending,    \* pending_ping: the client it is for, or None
    client,     \* what each pinging client sees
    stopper,    \* a handler in enforce_revocation
    silent,     \* silence since the last frame the loop saw
    budget,     \* what is left of the bounds
    ponged      \* history: the pings the phone answered

net == <<up, down>>
queues == <<inbound, cmds, writeq, capq>>
tasks == <<loop, writer, pending>>
users == <<client, stopper>>
vars == <<slots, trust, phone, conn, net, queues, tasks, users, silent, budget, ponged>>

\* A frame: its kind, and the ping it belongs to, or None; an answer of the
\* handshake carries the version instead.
Frame(k) == [k |-> k, id |-> None]
Ping(who) == [k |-> "ping", id |-> who]
Selecting == [at |-> "select", req |-> Frame(None), left |-> 0]

Init ==
    /\ slots \in [free : {Slots}, others : {0}]
    /\ trust \in [record : {"trusted", "unknown", "revoked"}, window : BOOLEAN]
    /\ trust.window => trust.record # "trusted"    \* where it is not asked for
    /\ phone \in [at : {"away"}, awake : {TRUE}, token : BOOLEAN,
                  offers : PhoneVersions, version : {0}]
    /\ conn = [phase |-> "none", version |-> 0]
    /\ up = <<>> /\ down = <<>>
    /\ inbound = <<>> /\ cmds = <<>> /\ writeq = <<>> /\ capq = <<>>
    /\ loop = Selecting /\ writer = Frame("idle") /\ pending = None
    /\ client = [c \in Clients |-> "idle"] /\ stopper = "idle"
    /\ silent = 0
    /\ budget = [frames |-> MaxFrames, trouble |-> MaxTrouble]
    /\ ponged = {}

Spend(what) == budget[what] > 0 /\ budget' = [budget EXCEPT ![what] = @ - 1]
HasRoom(q) == Len(q) < QueueCap
Items(q) == {q[i] : i \in 1 .. Len(q)}
Reading == phone.awake /\ phone.at \in {"hello", "pairing", "up"}

-----------------------------------------------------------------------------
(* The listener.                                                           *)

\* Other connections come and go.
OtherConnection ==
    /\ \/ slots.free > 0 /\ slots' = [free |-> slots.free - 1, others |-> slots.others + 1]
       \/ slots.others > 0 /\ slots' = [free |-> slots.free + 1, others |-> slots.others - 1]
    /\ phone.at = "away"
    /\ UNCHANGED <<trust, phone, conn, net, queues, tasks, users, silent, budget, ponged>>

\* accept_loop: without a permit the socket is dropped.
Accept ==
    /\ phone.at = "away" /\ conn.phase = "none"
    /\ IF slots.free > 0
       THEN /\ slots' = [slots EXCEPT !.free = @ - 1]
            /\ conn' = [conn EXCEPT !.phase = "tls"]
            /\ phone' = [phone EXCEPT !.at = "hello"]
            /\ up' = <<Frame("hello")>>
       ELSE /\ conn' = [conn EXCEPT !.phase = "dropped"]
            /\ phone' = [phone EXCEPT !.at = "failed"]
            /\ UNCHANGED <<slots, up>>
    /\ UNCHANGED <<trust, down, queues, tasks, users, silent, budget, ponged>>

\* _permit is dropped with the connection's task.
Release == slots' = [slots EXCEPT !.free = @ + 1]

\* An error of handle_connection before the session runs.
Fail ==
    /\ conn' = [conn EXCEPT !.phase = "closed"]
    /\ Release

\* handle_connection: TLS, and which protocol was negotiated.
Tls(alpn) ==
    /\ conn.phase = "tls" /\ Reading
    /\ \/ alpn = "control" /\ conn' = [conn EXCEPT !.phase = "hello"] /\ UNCHANGED slots
       \/ alpn = "data" /\ conn' = [conn EXCEPT !.phase = "data"] /\ UNCHANGED slots
       \/ alpn = "none" /\ Fail
    /\ UNCHANGED <<trust, phone, net, queues, tasks, users, silent, budget, ponged>>

\* handle_data_stream: a stream of files.v1, under the same permit.
DataEnds ==
    /\ conn.phase = "data"
    /\ Fail
    /\ UNCHANGED <<trust, phone, net, queues, tasks, users, silent, budget, ponged>>

\* TLS_HANDSHAKE_TIMEOUT or HANDSHAKE_TIMEOUT: the phone stalls, or it is late.
HandshakeTimeout ==
    /\ conn.phase \in {"tls", "hello", "pair"}
    /\ IF ~ Reading THEN UNCHANGED budget ELSE Spend("trouble")
    /\ Fail
    /\ UNCHANGED <<trust, phone, net, queues, tasks, users, silent, ponged>>

-----------------------------------------------------------------------------
(* The handshake.                                                          *)

NegotiateVersion(offer) ==
    LET chosen == IF offer.max < VersionMax THEN offer.max ELSE VersionMax
        floor == IF offer.min > VersionMin THEN offer.min ELSE VersionMin
    IN  IF chosen >= floor THEN chosen ELSE 0

Answer(k, version) == down' = Append(down, [k |-> k, version |-> version])

\* accept_handshake, on HELLO.
AcceptHello ==
    /\ conn.phase = "hello" /\ up # <<>>
    /\ up' = Tail(up)
    /\ LET version == NegotiateVersion(phone.offers)
           known == trust.record = "trusted"
           refused == trust.record = "revoked" /\ ~ trust.window
       IN  \/ version = 0 /\ Answer("unsupported", 0) /\ Fail
           \/ version # 0 /\ refused /\ Answer("rejected", version) /\ Fail
           \/ /\ version # 0 /\ known /\ Answer("trusted", version)
              /\ conn' = [phase |-> "start", version |-> version] /\ UNCHANGED slots
           \/ /\ version # 0 /\ ~ known /\ ~ refused /\ trust.window /\ Answer("prove", version)
              /\ conn' = [phase |-> "pair", version |-> version] /\ UNCHANGED slots
           \/ version # 0 /\ ~ known /\ ~ refused /\ ~ trust.window /\ Answer("required", version) /\ Fail
    /\ UNCHANGED <<trust, phone, queues, tasks, users, silent, budget, ponged>>

\* Mutant: the answer goes out before the record is written, and the write may
\* fail.
AnswerBeforeStore(outcome) ==
    /\ conn.phase = "pair" /\ up # <<>>
    /\ up' = Tail(up)
    /\ IF outcome = "declined" THEN Answer("declined", 0) ELSE Answer("accepted", 0)
    /\ IF outcome = "stored"
       THEN /\ trust' = [record |-> "trusted", window |-> FALSE]
            /\ conn' = [conn EXCEPT !.phase = "start"]
            /\ UNCHANGED slots
       ELSE Fail /\ UNCHANGED trust
    /\ UNCHANGED <<phone, queues, tasks, users, silent, budget, ponged>>

\* accept_pairing, on PAIR_REQUEST: proof (which uses the window up) and person,
\* the record, then the answer; none if the record cannot be written.
AcceptPairing(outcome) ==
    /\ conn.phase = "pair" /\ up # <<>>
    /\ up' = Tail(up)
    /\ \/ /\ outcome = "stored" /\ Answer("accepted", 0)
          /\ trust' = [record |-> "trusted", window |-> FALSE]
          /\ conn' = [conn EXCEPT !.phase = "start"]
          /\ UNCHANGED slots
       \/ outcome = "declined" /\ Answer("declined", 0) /\ Fail /\ UNCHANGED trust
       \/ outcome = "unwritten" /\ Fail /\ UNCHANGED <<trust, down>>
    /\ UNCHANGED <<phone, queues, tasks, users, silent, budget, ponged>>

\* An established session has no more use for the token and the offer.
NoOffer == [min |-> 0, max |-> 0]
Up == [phone EXCEPT !.at = "up", !.token = FALSE, !.offers = NoOffer]

\* connect_handshake, on HELLO_ACK.
ConnectAck ==
    /\ phone.at = "hello" /\ phone.awake /\ down # <<>>
    /\ down' = Tail(down)
    /\ LET k == Head(down).k
       IN  \/ /\ k = "trusted"
              /\ phone' = [Up EXCEPT !.version = Head(down).version]
              /\ UNCHANGED up
           \/ /\ k = "prove" /\ phone.token
              /\ phone' = [phone EXCEPT !.at = "pairing", !.version = Head(down).version]
              /\ up' = Append(up, Frame("proof"))
           \/ /\ k \in {"unsupported", "rejected", "required"} \/ (k = "prove" /\ ~ phone.token)
              /\ phone' = [phone EXCEPT !.at = "left"]
              /\ UNCHANGED up
    /\ UNCHANGED <<slots, trust, conn, queues, tasks, users, silent, budget, ponged>>

\* connect_handshake, on PAIR_RESPONSE: the confirmation is verified, then the
\* desktop is stored.
ConnectPaired ==
    /\ phone.at = "pairing" /\ phone.awake /\ down # <<>>
    /\ down' = Tail(down)
    /\ phone' = IF Head(down).k = "accepted" THEN Up
                ELSE [phone EXCEPT !.at = "left"]
    /\ UNCHANGED <<slots, trust, conn, up, queues, tasks, users, silent, budget, ponged>>

-----------------------------------------------------------------------------
(* The phone on an established session.                                    *)

\* A frame goes on the wire.  A reader that waits for one has it at once.
Deliver(f) ==
    IF conn.phase \in {"start", "loop"} /\ up = <<>> /\ HasRoom(inbound)
    THEN inbound' = Append(inbound, f) /\ UNCHANGED up
    ELSE up' = Append(up, f) /\ UNCHANGED inbound

\* It answers a ping and takes everything else.
PhoneReads ==
    /\ phone.at = "up" /\ phone.awake /\ down # <<>> /\ HasRoom(up)
    /\ down' = Tail(down)
    /\ LET f == Head(down)
       IN  IF f.k = "ping"
           THEN Deliver([f EXCEPT !.k = "pong"]) /\ ponged' = ponged \cup ({f.id} \cap Clients)
           ELSE UNCHANGED <<up, inbound, ponged>>
    /\ UNCHANGED <<slots, trust, phone, conn, cmds, writeq, capq, tasks, users, silent, budget>>

PhoneSends(k) ==
    /\ phone.at = "up" /\ phone.awake /\ HasRoom(up)
    /\ conn.phase \in {"start", "loop"}             \* later ones are not read
    /\ Spend("frames")
    /\ Deliver(Frame(k))
    /\ UNCHANGED <<slots, trust, phone, conn, down, cmds, writeq, capq, tasks, users, silent, ponged>>

\* It stops reading and writing, goes on, leaves, or is out of reach.
PhoneStalls ==
    /\ Reading /\ Spend("trouble")
    /\ \/ phone' = [phone EXCEPT !.awake = FALSE]
       \/ phone' = [phone EXCEPT !.at = "left"]
       \/ phone' = [phone EXCEPT !.at = "lost"]
    /\ UNCHANGED <<slots, trust, conn, net, queues, tasks, users, silent, ponged>>

PhoneWakes ==
    /\ ~ phone.awake
    /\ phone' = [phone EXCEPT !.awake = TRUE]
    /\ UNCHANGED <<slots, trust, conn, net, queues, tasks, users, silent, budget, ponged>>

PhoneSeesClose ==
    /\ Reading /\ conn.phase = "closed" /\ down = <<>>
    /\ phone' = [phone EXCEPT !.at = "left"]
    /\ UNCHANGED <<slots, trust, conn, net, queues, tasks, users, silent, budget, ponged>>

-----------------------------------------------------------------------------
(* The tasks of run_session.                                               *)

\* on_peer_connected (notifications.v1 announces its roles) and on_established.
Start ==
    /\ conn.phase = "start"
    /\ conn' = [conn EXCEPT !.phase = "loop"]
    /\ capq' = <<Frame("cap")>>
    /\ UNCHANGED <<slots, trust, phone, net, inbound, cmds, writeq, tasks, users, silent, budget, ponged>>

Reader ==
    /\ conn.phase \in {"start", "loop"} /\ HasRoom(inbound)
    /\ \/ up # <<>> /\ inbound' = Append(inbound, Head(up)) /\ up' = Tail(up)
       \/ /\ up = <<>> /\ phone.at = "left" /\ inbound = <<>>
          /\ inbound' = <<Frame("eof")>>
          /\ UNCHANGED up
    /\ UNCHANGED <<slots, trust, phone, conn, down, cmds, writeq, capq, tasks, users, silent, budget, ponged>>

\* Mutant: the loop alone writes, between two messages it handles.
WriterInLoop ==
    /\ conn.phase \in {"start", "loop", "leaving", "draining"} /\ writer.k = "idle"
    /\ loop.at = "select"
    /\ HasRoom(down)
    /\ \/ writeq # <<>> /\ down' = Append(down, Head(writeq)) /\ writeq' = Tail(writeq) /\ UNCHANGED capq
       \/ capq # <<>> /\ down' = Append(down, Head(capq)) /\ capq' = Tail(capq) /\ UNCHANGED writeq
    /\ UNCHANGED <<slots, trust, phone, conn, up, inbound, cmds, tasks, users, silent, budget, ponged>>

\* The writer serves both queues.  It waits while the wire is full.
Writer ==
    /\ conn.phase \in {"start", "loop", "leaving", "draining"} /\ writer.k = "idle"
    /\ HasRoom(down)
    /\ \/ writeq # <<>> /\ down' = Append(down, Head(writeq)) /\ writeq' = Tail(writeq) /\ UNCHANGED capq
       \/ capq # <<>> /\ down' = Append(down, Head(capq)) /\ capq' = Tail(capq) /\ UNCHANGED writeq
    /\ UNCHANGED <<slots, trust, phone, conn, up, inbound, cmds, tasks, users, silent, budget, ponged>>

\* A write fails once the peer is gone; its queues are closed with it.
WriterFails ==
    /\ conn.phase \in {"start", "loop", "leaving", "draining"} /\ writer.k = "idle"
    /\ writeq \o capq # <<>> /\ phone.at \in {"left", "lost"}
    /\ writer' = Frame("failed") /\ writeq' = <<>> /\ capq' = <<>>
    /\ UNCHANGED <<slots, trust, phone, conn, net, inbound, cmds, loop, pending, users, silent, budget, ponged>>

AtSelect == conn.phase = "loop" /\ loop.at = "select"
End == conn' = [conn EXCEPT !.phase = "leaving"]
Send(req) == loop' = [Selecting EXCEPT !.at = "write", !.req = req]

\* Mutant: a pong that does not match takes the pending ping with it.
PutBackNothing == pending' = None /\ UNCHANGED client

\* A pong that does not match leaves the pending ping in place.
PutBack == UNCHANGED <<pending, client>>

Matches(f) == pending # None /\ f.id = pending

\* The first branch of select!: a frame.
LoopInbound ==
    /\ AtSelect /\ inbound # <<>>
    /\ inbound' = Tail(inbound)
    /\ silent' = 0
    /\ LET f == Head(inbound)
       IN  \/ f.k \in {"eof", "replay", "fatal"} /\ End /\ UNCHANGED <<loop, pending, client>>
           \/ /\ f.k \in {"ping", "foreign"}
              /\ Send(Frame("reply"))    \* PONG, or a nonfatal ERROR
              /\ UNCHANGED <<conn, pending, client>>
           \/ /\ f.k = "pong"
              /\ IF Matches(f)
                 THEN /\ pending' = None
                      /\ client' = [client EXCEPT ![pending] = IF @ = "waiting" THEN "answered" ELSE @]
                 ELSE PutBack
              /\ UNCHANGED <<conn, loop>>
           \/ /\ f.k = "cap"
              /\ \E n \in {0, MaxReplies} : loop' = [Selecting EXCEPT !.at = "handler", !.left = n]
              /\ UNCHANGED <<conn, pending, client>>
           \/ f.k = "error" /\ UNCHANGED <<conn, loop, pending, client>>
    /\ UNCHANGED <<slots, trust, phone, net, cmds, writeq, capq, writer, stopper, budget, ponged>>

\* write_tx.send: room, or the writer is gone.  A ping becomes the pending one
\* only now; the one it replaces is forgotten with its reply channel.
LoopWrite ==
    /\ conn.phase = "loop" /\ loop.at = "write"
    /\ loop' = Selecting
    /\ LET who == IF loop.req.k = "ping" /\ loop.req.id \in Clients THEN loop.req.id ELSE None
       IN  \/ writer.k = "failed" /\ End /\ UNCHANGED <<writeq, pending, client>>
           \/ /\ writer.k # "failed" /\ HasRoom(writeq)
              /\ writeq' = Append(writeq, loop.req)
              /\ pending' = IF who # None THEN who ELSE pending
              /\ client' = IF who # None /\ pending # None
                           THEN [client EXCEPT ![pending] = IF @ = "waiting" THEN "unanswered" ELSE @]
                           ELSE client
              /\ UNCHANGED conn
    /\ UNCHANGED <<slots, trust, phone, net, inbound, cmds, capq, writer, stopper, silent, budget, ponged>>

\* on_message, sending its answers one by one.
LoopHandler ==
    /\ conn.phase = "loop" /\ loop.at = "handler"
    /\ \/ (loop.left = 0 \/ writer.k = "failed") /\ loop' = Selecting /\ UNCHANGED capq
       \/ /\ loop.left > 0 /\ writer.k # "failed" /\ HasRoom(capq)
          /\ capq' = Append(capq, Frame("cap"))
          /\ loop' = [loop EXCEPT !.left = @ - 1]
    /\ UNCHANGED <<slots, trust, phone, conn, net, inbound, cmds, writeq, writer, pending, users, silent, budget, ponged>>

\* The second branch: a command.
LoopCommand ==
    /\ AtSelect /\ inbound = <<>> /\ cmds # <<>>
    /\ cmds' = Tail(cmds)
    /\ IF Head(cmds).k = "shutdown" THEN End /\ UNCHANGED loop ELSE Send(Head(cmds)) /\ UNCHANGED conn
    /\ UNCHANGED <<slots, trust, phone, net, inbound, writeq, capq, writer, pending, users, silent, budget, ponged>>

\* The third: the writer stopped.
LoopWriterGone ==
    /\ AtSelect /\ inbound = <<>> /\ cmds = <<>> /\ writer.k = "failed"
    /\ End
    /\ UNCHANGED <<slots, trust, phone, net, queues, tasks, users, silent, budget, ponged>>

LinkQuiet == up \o down \o writeq \o capq = <<>>

\* Mutant: one probe, and the rest is left to the writer's error.
TickProbesOnce ==
    /\ AtSelect /\ inbound = <<>> /\ cmds = <<>> /\ writer.k # "failed"
    /\ Reading => LinkQuiet
    /\ silent < ProbeAfter
    /\ silent' = silent + 1
    /\ Send(Ping("probe"))
    /\ UNCHANGED <<slots, trust, phone, conn, net, queues, writer, pending, users, budget, ponged>>

\* The fourth: the liveness tick, one unit of silence later.  An answer of a
\* phone that reads takes less than that.
LoopTick ==
    /\ AtSelect /\ inbound = <<>> /\ cmds = <<>> /\ writer.k # "failed"
    /\ Reading => LinkQuiet
    /\ silent' = IF silent < DeadAfter THEN silent + 1 ELSE silent
    /\ IF silent' >= DeadAfter THEN End /\ UNCHANGED loop
       ELSE UNCHANGED conn /\ IF silent' >= ProbeAfter THEN Send(Ping("probe")) ELSE UNCHANGED loop
    /\ UNCHANGED <<slots, trust, phone, net, queues, writer, pending, users, budget, ponged>>

\* After the loop: capabilities and host are told, the reader is stopped.
Leave ==
    /\ conn.phase = "leaving"
    /\ conn' = [conn EXCEPT !.phase = "draining"]
    /\ inbound' = <<>>
    /\ UNCHANGED <<slots, trust, phone, net, cmds, writeq, capq, tasks, users, silent, budget, ponged>>

\* The writer has written its queue, or WRITER_DRAIN_TIMEOUT is over: what is
\* left is dropped, and with it every reply channel.
Close ==
    /\ conn.phase = "draining"
    /\ conn' = [conn EXCEPT !.phase = "closed"]
    /\ Release
    /\ up' = <<>> /\ cmds' = <<>> /\ writeq' = <<>> /\ capq' = <<>>
    /\ writer' = Frame("idle") /\ pending' = None /\ silent' = 0
    /\ client' = [c \in Clients |-> IF client[c] \in {"sending", "waiting"} THEN "unanswered" ELSE client[c]]
    /\ stopper' = IF stopper = "sending" THEN "done" ELSE stopper
    /\ UNCHANGED <<trust, phone, down, inbound, loop, budget, ponged>>

-----------------------------------------------------------------------------
(* SessionHandle.                                                          *)

Registered == conn.phase \in {"loop", "leaving", "draining"}

\* ping: the command is queued, or waits for room, outside the timeout.
PingAsked(c) ==
    /\ client[c] = "idle" /\ conn.phase = "loop"
    /\ \E i \in DOMAIN ClientOrder :
          ClientOrder[i] = c /\ \A j \in 1 .. i - 1 : client[ClientOrder[j]] # "idle"
    /\ IF HasRoom(cmds) THEN cmds' = Append(cmds, Ping(c)) /\ client' = [client EXCEPT ![c] = "waiting"]
       ELSE client' = [client EXCEPT ![c] = "sending"] /\ UNCHANGED cmds
    /\ UNCHANGED <<slots, trust, phone, conn, net, inbound, writeq, capq, tasks, stopper, silent, budget, ponged>>

PingQueued(c) ==
    /\ client[c] = "sending" /\ Registered /\ HasRoom(cmds)
    /\ cmds' = Append(cmds, Ping(c))
    /\ client' = [client EXCEPT ![c] = "waiting"]
    /\ UNCHANGED <<slots, trust, phone, conn, net, inbound, writeq, capq, tasks, stopper, silent, budget, ponged>>

PingTimeout(c) ==
    /\ client[c] = "waiting" /\ Spend("trouble")
    /\ client' = [client EXCEPT ![c] = "unanswered"]
    /\ UNCHANGED <<slots, trust, phone, conn, net, queues, tasks, stopper, silent, ponged>>

\* enforce_revocation, register_session, renegotiate_after_grant: shutdown.
StopAsked ==
    /\ stopper = "idle" /\ conn.phase = "loop"
    /\ IF HasRoom(cmds) THEN cmds' = Append(cmds, Frame("shutdown")) /\ stopper' = "done"
       ELSE stopper' = "sending" /\ UNCHANGED cmds
    /\ UNCHANGED <<slots, trust, phone, conn, net, inbound, writeq, capq, tasks, client, silent, budget, ponged>>

StopQueued ==
    /\ stopper = "sending" /\ Registered /\ HasRoom(cmds)
    /\ cmds' = Append(cmds, Frame("shutdown"))
    /\ stopper' = "done"
    /\ UNCHANGED <<slots, trust, phone, conn, net, inbound, writeq, capq, tasks, client, silent, budget, ponged>>

-----------------------------------------------------------------------------
LoopStep == LoopInbound \/ LoopWrite \/ LoopHandler \/ LoopCommand \/ LoopWriterGone \/ LoopTick
Handshake == Tls("control") \/ AcceptHello \/ (\E o \in {"stored", "declined", "unwritten"} : AcceptPairing(o))
                 \/ HandshakeTimeout
PhoneStep == ConnectAck \/ ConnectPaired \/ PhoneReads \/ PhoneSeesClose
HandleStep == (\E c \in Clients : PingQueued(c)) \/ StopQueued

Next ==
    \/ OtherConnection \/ Accept \/ Tls("none") \/ Tls("data") \/ DataEnds \/ Handshake \/ Start
    \/ Reader \/ Writer \/ WriterFails \/ LoopStep \/ Leave \/ Close
    \/ PhoneStep \/ (\E k \in {"ping", "cap", "foreign", "error", "fatal", "replay"} : PhoneSends(k))
    \/ PhoneStalls \/ PhoneWakes
    \/ HandleStep \/ (\E c \in Clients : PingAsked(c) \/ PingTimeout(c)) \/ StopAsked

\* The tasks of the session and a phone that is awake go on, and so does a
\* handler that waits for room.  Nothing obliges a phone to wake or a person to
\* act.
Work == Handshake \/ Start \/ Reader \/ Writer \/ WriterFails \/ LoopStep \/ Leave \/ Close \/ PhoneStep
Fairness == WF_vars(Work) /\ WF_vars(HandleStep)

Spec == Init /\ [][Next]_vars /\ Fairness

-----------------------------------------------------------------------------
\* A phone that counts itself as paired is stored by the desktop
\* (accept_pairing writes its record before it answers, connect_handshake
\* stores after the answer), and both ends speak the version they agreed on.
EndsAgree ==
    phone.at = "up" => /\ trust.record = "trusted"
                       /\ phone.version = conn.version /\ conn.version # 0

\* Pings and pongs are matched (pending_ping and the correlation id).  A ping
\* is reported as answered only when the phone answered that ping.  And a
\* client still waits only while its ping is under way or is the pending one:
\* no pong of another ping, no probe and no overtaking ping leaves it waiting
\* for an answer that nobody will pass on.
PingsAreMatched ==
    \A c \in Clients :
        /\ client[c] = "answered" => c \in ponged
        /\ client[c] = "waiting" /\ conn.phase = "loop"
            => Ping(c) \in Items(cmds) \cup {loop.req} \/ pending = c

\* The loop waits for room in a queue: with a phone that stopped reading, or
\* with one that itself waits to write while both directions are full.
Wedged ==
    /\ conn.phase = "loop" /\ loop.at \in {"write", "handler"}
    /\ ~ phone.awake \/ ~ (HasRoom(up) \/ HasRoom(inbound) \/ HasRoom(down))

\* A message or a command once taken is dealt with, also when a handler sends
\* more than its queue holds, and a shutdown that was asked for closes the
\* session; unless the loop is wedged for good.
StopIsHeard ==
    \/ <>[]Wedged
    \/ stopper # "idle" ~> conn.phase = "closed"

\* The free permits, those of other connections and the one of a connection
\* that still runs are all there are.
PermitsAddUp ==
    slots.free + slots.others + (IF conn.phase \in {"none", "dropped", "closed"} THEN 0 ELSE 1) = Slots

\* No phone keeps a permit for nothing.  Every permit is free or held by a
\* connection that still runs (accept_loop, _permit); a connection does not stay
\* in the handshake, whatever the phone does (the two timeouts); and a phone
\* that vanished or stalls for good does not keep its session, the wedged one
\* excepted (the liveness tick, the error of the writer).  A stream of files.v1
\* has deadlines of its own.
PermitsComeBack ==
    /\ []PermitsAddUp
    /\ conn.phase \in {"tls", "hello", "pair"} ~> conn.phase \in {"loop", "data", "closed"}
    /\ <>[](phone.at = "lost" \/ ~ phone.awake)
        => <>[](conn.phase \in {"none", "dropped", "data", "closed"} \/ Wedged)

-----------------------------------------------------------------------------
(* The inductive invariant.                                                *)

FromPhone == {"hello", "proof", "ping", "pong", "cap", "foreign", "error", "fatal", "replay"}
FromSession == {"reply", "ping", "cap"}
Acks == {"trusted", "prove", "accepted"}
Refusals == {"unsupported", "rejected", "required", "declined"}
Frames(kinds) == [k : kinds, id : Clients \cup {None, "probe"}]
Answers == [k : Acks \cup Refusals, version : Nat]
Early == {"none", "dropped", "tls", "hello", "data"}
Phases == Early \cup {"pair", "start", "loop", "leaving", "draining", "closed"}

Phones ==
    [at : {"away", "failed", "hello", "pairing", "up", "left", "lost"}, awake : BOOLEAN,
     token : BOOLEAN, offers : [min : Nat, max : Nat], version : Nat]
Loops == [at : {"select", "write", "handler"}, req : Frames({None, "reply", "ping"}), left : Nat]
Permits == [free : Nat, others : Nat]
Trusts == [record : {"trusted", "unknown", "revoked"}, window : BOOLEAN]
Conns == [phase : Phases, version : Nat]
Budgets == [frames : Nat, trouble : Nat]
Seen == {"idle", "sending", "waiting", "answered", "unanswered"}

\* Every queue and every task holds what it is declared to hold.
TypeOK ==
    /\ slots \in Permits
    /\ trust \in Trusts
    /\ phone \in Phones
    /\ conn \in Conns
    /\ up \in Seq(Frames(FromPhone))
    /\ down \in Seq(Frames(FromSession) \cup Answers)
    /\ inbound \in Seq(Frames(FromPhone \cup {"eof"}))
    /\ cmds \in Seq(Frames({"ping", "shutdown"}))
    /\ writeq \in Seq(Frames(FromSession))
    /\ capq \in Seq(Frames(FromSession))
    /\ loop \in Loops
    /\ loop.at = "write" => loop.req.k # None
    /\ writer \in Frames({"idle", "failed"})
    /\ pending \in Clients \cup {None}
    /\ client \in [Clients -> Seen]
    /\ stopper \in {"idle", "sending", "done"}
    /\ silent \in 0 .. DeadAfter
    /\ budget \in Budgets
    /\ ponged \subseteq Clients

\* What the desktop answered is true of its record and of the version it chose,
\* also while the answer is on its way and while the phone proves its token.
AnswersAreTrue ==
    /\ conn.phase \in Early => down = <<>> /\ phone.at \notin {"pairing", "up"}
    /\ \A f \in Items(down) :
        /\ f.k \in {"trusted", "accepted"} => trust.record = "trusted"
        /\ f.k \in {"trusted", "prove"} => f.version = conn.version /\ conn.version # 0
    /\ phone.at = "pairing" => phone.version = conn.version /\ conn.version # 0

\* A pong on its way answers a ping the phone answered, the loop holds a frame
\* only while it writes, and nobody pings before the loop runs.
PingsAreKnown ==
    /\ \A f \in Items(up) \cup Items(inbound) : f.k = "pong" /\ f.id \in Clients => f.id \in ponged
    /\ loop.at # "write" => loop.req = Frame(None)
    /\ conn.phase \in Early \cup {"pair", "start"} => client = [c \in Clients |-> "idle"]

PipelineInv == TypeOK /\ PermitsAddUp /\ AnswersAreTrue /\ EndsAgree /\ PingsAreKnown /\ PingsAreMatched

=============================================================================
