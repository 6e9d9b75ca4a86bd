------------------------ MODULE SessionPipelineProofs ------------------------
(***************************************************************************)
(* SessionPipeline for any number of permits and control clients, queues   *)
(* of any capacity and phones of any versions: PipelineInv is kept by every *)
(* step, and the safety properties follow.                                 *)
(***************************************************************************)
EXTENDS SessionPipeline, TLAPS

\* What a queue holds after one more was put in, and after the first was taken.
LEMMA QueueEffect ==
    ASSUME NEW S, NEW q \in Seq(S)
    PROVE  /\ \A x \in S : Append(q, x) \in Seq(S) /\ Items(Append(q, x)) = Items(q) \cup {x}
           /\ q # <<>> => /\ Head(q) \in S /\ Tail(q) \in Seq(S)
                          /\ Items(q) = Items(Tail(q)) \cup {Head(q)}
<1>1. ASSUME NEW x \in S
      PROVE  Append(q, x) \in Seq(S) /\ Items(Append(q, x)) = Items(q) \cup {x}
    <2> DEFINE a == Append(q, x)
    <2>1. /\ a \in Seq(S) /\ Len(a) = Len(q) + 1 /\ Len(q) \in Nat
          /\ a[Len(q) + 1] = x /\ \A i \in 1 .. Len(q) : a[i] = q[i]
        OBVIOUS
    <2> HIDE DEF a
    <2>2. Items(a) = Items(q) \cup {x}
        BY <2>1 DEF Items
    <2> QED
        BY Zenon, <2>1, <2>2 DEF a
<1>2. ASSUME q # <<>>
      PROVE  /\ Head(q) \in S /\ Tail(q) \in Seq(S)
             /\ Items(q) = Items(Tail(q)) \cup {Head(q)}
    <2> DEFINE t == Tail(q)
    <2>1. /\ Head(q) = q[1] /\ Head(q) \in S /\ t \in Seq(S) /\ Len(t) = Len(q) - 1 /\ Len(q) \in Nat \ {0}
          /\ \A i \in 1 .. Len(q) - 1 : t[i] = q[i + 1]
        BY <1>2
    <2> HIDE DEF t
    <2>2. ASSUME NEW y \in Items(q) PROVE y \in Items(t) \cup {q[1]}
        <3>1. PICK i \in 1 .. Len(q) : y = q[i]
            BY Zenon DEF Items
        <3>2. i = 1 \/ (i - 1 \in 1 .. Len(t) /\ t[i - 1] = q[i])
            BY <2>1
        <3> QED
            BY Zenon, <3>1, <3>2 DEF Items
    <2>3. ASSUME NEW y \in Items(t) \cup {q[1]} PROVE y \in Items(q)
        BY <2>1 DEF Items
    <2> QED
        BY Zenon, <2>1, <2>2, <2>3 DEF t
<1> QED
    BY Zenon, <1>1, <1>2

\* A queue of nothing, and of one frame.
LEMMA ShortQueues ==
    /\ Items(<<>>) = {} /\ \A S : <<>> \in Seq(S)
    /\ \A S : \A x \in S : <<x>> \in Seq(S) /\ Items(<<x>>) = {x}
<1>1. Items(<<>>) = {}
    BY DEF Items
<1>2. ASSUME NEW S, NEW x \in S PROVE <<x>> \in Seq(S) /\ Items(<<x>>) = {x}
    BY DEF Items
<1> QED
    BY <1>1, <1>2

\* The kinds of message the phone sends by itself.
Sent == {"ping", "cap", "foreign", "error", "fatal", "replay"}

\* The frames and the requests the code builds are of their declared kinds.
LEMMA FramesFit ==
    /\ \A k \in FromPhone : Frame(k) \in Frames(FromPhone)
    /\ Frame("eof") \in Frames(FromPhone \cup {"eof"})
    /\ Frames(FromPhone) \subseteq Frames(FromPhone \cup {"eof"})
    /\ Frame("cap") \in Frames(FromSession)
    /\ Frame("shutdown") \in Frames({"ping", "shutdown"})
    /\ \A c \in Clients : Ping(c) \in Frames({"ping", "shutdown"})
    /\ \A f \in Frames({"ping", "shutdown"}) : f.k # "shutdown" => f \in Frames({None, "reply", "ping"})
    /\ \A f \in Frames({None, "reply", "ping"}) : f.k # None => f \in Frames(FromSession)
    /\ Frame("idle") \in Frames({"idle", "failed"}) /\ Frame("failed") \in Frames({"idle", "failed"})
    /\ \A f \in Frames(FromSession) \cup Answers : f.k = "ping" => [f EXCEPT !.k = "pong"] \in Frames(FromPhone)
    /\ Frames(FromSession) \subseteq Frames(FromSession) \cup Answers
    /\ \A f \in Frames(FromSession) \cup Answers : f.k \in Acks => f.version \in Nat
    BY Zenon DEF Frame, Ping, Frames, FromPhone, FromSession, None, Answers, Acks, Refusals

\* So are the states of the loop.
LEMMA LoopsFit ==
    /\ Selecting \in Loops /\ Selecting.at = "select"
    /\ \A n \in Nat : [Selecting EXCEPT !.at = "handler", !.left = n] \in Loops
    /\ \A f \in {Frame("reply"), Ping("probe")} :
            [Selecting EXCEPT !.at = "write", !.req = f] \in Loops /\ f.k # None
    /\ \A f \in Frames({"ping", "shutdown"}) :
            f.k # "shutdown" => [Selecting EXCEPT !.at = "write", !.req = f] \in Loops /\ f.k # None
<1> USE DEF Selecting, Loops, Frames, Frame, Ping, None
<1>1. Selecting \in Loops /\ Selecting.at = "select"
    BY Zenon
<1>2. ASSUME NEW n \in Nat PROVE [Selecting EXCEPT !.at = "handler", !.left = n] \in Loops
    BY Zenon
<1>3. ASSUME NEW f \in Frames({"reply", "ping"})
      PROVE  [Selecting EXCEPT !.at = "write", !.req = f] \in Loops /\ f.k # None
    BY Zenon
<1>4. Frame("reply") \in Frames({"reply", "ping"}) /\ Ping("probe") \in Frames({"reply", "ping"})
    BY Zenon
<1>5. \A f \in Frames({"ping", "shutdown"}) : f.k # "shutdown" => f \in Frames({"reply", "ping"})
    BY Zenon
<1> HIDE DEF Selecting, Loops, Frames, Frame, Ping
<1> QED
    BY Zenon, <1>1, <1>2, <1>3, <1>4, <1>5

\* A queue of S, what adding one and what taking the first makes of it.
QueueOf(q, S) ==
    /\ q \in Seq(S)
    /\ \A f \in S : Append(q, f) \in Seq(S) /\ Items(Append(q, f)) = Items(q) \cup {f}
    /\ q # <<>> => Head(q) \in S /\ Tail(q) \in Seq(S) /\ Items(q) = Items(Tail(q)) \cup {Head(q)}

\* What each queue holds.
LEMMA TypedQueues ==
    ASSUME TypeOK
    PROVE  /\ QueueOf(up, Frames(FromPhone))
           /\ QueueOf(down, Frames(FromSession) \cup Answers)
           /\ QueueOf(inbound, Frames(FromPhone \cup {"eof"}))
           /\ QueueOf(cmds, Frames({"ping", "shutdown"}))
           /\ QueueOf(writeq, Frames(FromSession))
           /\ QueueOf(capq, Frames(FromSession))
<1>1. \A S : \A q \in Seq(S) : QueueOf(q, S)
    BY QueueEffect DEF QueueOf
<1> QED
    BY Zenon, <1>1 DEF TypeOK

\* The same without what is in the queue.
Holds(q, S) ==
    /\ q \in Seq(S)
    /\ \A f \in S : Append(q, f) \in Seq(S)
    /\ q # <<>> => Head(q) \in S /\ Tail(q) \in Seq(S)

\* What each queue can take and give.
LEMMA HeldInQueues ==
    ASSUME TypeOK
    PROVE  /\ Holds(up, Frames(FromPhone))
           /\ Holds(down, Frames(FromSession) \cup Answers)
           /\ Holds(inbound, Frames(FromPhone \cup {"eof"}))
           /\ Holds(cmds, Frames({"ping", "shutdown"}))
           /\ Holds(writeq, Frames(FromSession))
           /\ Holds(capq, Frames(FromSession))
<1>1. \A q, S : QueueOf(q, S) => Holds(q, S)
    BY Zenon DEF QueueOf, Holds
<1> QED
    BY Zenon, <1>1, TypedQueues

\* What the other variables hold.
LEMMA TypedTasks ==
    ASSUME TypeOK
    PROVE  /\ slots \in Permits
           /\ trust \in Trusts
           /\ phone \in Phones
           /\ conn \in Conns
           /\ loop \in Loops
           /\ writer \in Frames({"idle", "failed"})
           /\ pending \in Clients \cup {None}
           /\ client \in [Clients -> Seen]
           /\ stopper \in {"idle", "sending", "done"}
           /\ silent \in 0 .. DeadAfter
           /\ budget \in Budgets
           /\ ponged \in SUBSET Clients
           /\ loop.at = "write" => loop.req.k # None
    BY Zenon DEF TypeOK

\* An answer of the handshake carries the version agreed.
LEMMA AnswersFit ==
    /\ \A offer \in [min : Nat, max : Nat] : NegotiateVersion(offer) \in Nat
    /\ \A k \in Acks \cup Refusals, v \in Nat : [k |-> k, version |-> v] \in Frames(FromSession) \cup Answers
    BY Zenon DEF NegotiateVersion, VersionMin, VersionMax, Answers

\* Every step keeps the types.
LEMMA TypedStep ==
    ASSUME TypeOK, Next
    PROVE  TypeOK'
<1> USE DEF net, queues, tasks, users
<1>1. CASE OtherConnection
    <2>1. slots' \in Permits
        BY <1>1, TypedTasks DEF OtherConnection, Permits
    <2>2. UNCHANGED <<trust, phone, conn, up, down, inbound, cmds, writeq, capq, loop, writer, pending, client, stopper, silent, budget, ponged>>
        BY Zenon, <1>1 DEF OtherConnection
    <2> QED
        BY Zenon, <2>1, <2>2, TypeOK DEF TypeOK
<1>2. CASE Accept
    <2>1. slots' \in Permits
        BY <1>2, TypedTasks DEF Accept, Frame, Permits
    <2>2. conn' \in Conns
        BY Zenon, <1>2, TypedTasks DEF Accept, Frame, Conns, Phases, Early
    <2>3. phone' \in Phones
        BY <1>2, TypedTasks DEF Accept, Frame, Phones
    <2>4. up' \in Seq(Frames(FromPhone))
        <3>1. Frame("hello") \in Frames(FromPhone)
            BY Zenon, FramesFit DEF FromPhone
        <3>2. <<Frame("hello")>> \in Seq(Frames(FromPhone))
            BY Zenon, <3>1, ShortQueues
        <3> QED
            BY Zenon, <1>2, <3>2, HeldInQueues DEF Accept, Holds
    <2>5. UNCHANGED <<trust, down, inbound, cmds, writeq, capq, loop, writer, pending, client, stopper, silent, budget, ponged>>
        BY Zenon, <1>2 DEF Accept
    <2> QED
        BY Zenon, <2>1, <2>2, <2>3, <2>4, <2>5, TypeOK DEF TypeOK
<1>3. ASSUME NEW alpn \in {"control", "data", "none"}, Tls(alpn) PROVE TypeOK'
    <2>1. slots' \in Permits
        BY <1>3, TypedTasks DEF Tls, Fail, Release, Permits
    <2>2. conn' \in Conns
        BY Zenon, <1>3, TypedTasks DEF Tls, Fail, Release, Conns, Phases, Early
    <2>3. UNCHANGED <<trust, phone, up, down, inbound, cmds, writeq, capq, loop, writer, pending, client, stopper, silent, budget, ponged>>
        BY Zenon, <1>3 DEF Tls
    <2> QED
        BY Zenon, <2>1, <2>2, <2>3, TypeOK DEF TypeOK
<1>4. CASE DataEnds
    <2>1. slots' \in Permits
        BY <1>4, TypedTasks DEF DataEnds, Fail, Release, Permits
    <2>2. conn' \in Conns
        BY Zenon, <1>4, TypedTasks DEF DataEnds, Fail, Release, Conns, Phases, Early
    <2>3. UNCHANGED <<trust, phone, up, down, inbound, cmds, writeq, capq, loop, writer, pending, client, stopper, silent, budget, ponged>>
        BY Zenon, <1>4 DEF DataEnds
    <2> QED
        BY Zenon, <2>1, <2>2, <2>3, TypeOK DEF TypeOK
<1>5. CASE HandshakeTimeout
    <2>1. slots' \in Permits
        BY <1>5, TypedTasks DEF HandshakeTimeout, Fail, Release, Spend, Permits
    <2>2. conn' \in Conns
        BY Zenon, <1>5, TypedTasks DEF HandshakeTimeout, Fail, Release, Spend, Conns, Phases, Early
    <2>3. budget' \in Budgets
        BY <1>5, TypedTasks DEF HandshakeTimeout, Fail, Release, Spend, Budgets
    <2>4. UNCHANGED <<trust, phone, up, down, inbound, cmds, writeq, capq, loop, writer, pending, client, stopper, silent, ponged>>
        BY Zenon, <1>5 DEF HandshakeTimeout
    <2> QED
        BY Zenon, <2>1, <2>2, <2>3, <2>4, TypeOK DEF TypeOK
<1>6. CASE AcceptHello
    <2>1. up' \in Seq(Frames(FromPhone))
        BY <1>6, HeldInQueues, ShortQueues, FramesFit DEF AcceptHello, Fail, Release, Holds
    <2>2. down' \in Seq(Frames(FromSession) \cup Answers)
        <3> DEFINE v == NegotiateVersion(phone.offers)
        <3>1. v \in Nat
            BY Zenon, TypedTasks, AnswersFit DEF Phones
        <3> HIDE DEF v
        <3>2. PICK k \in Acks \cup Refusals, w \in Nat : down' = Append(down, [k |-> k, version |-> w])
            BY Zenon, <1>6, <3>1 DEF AcceptHello, Answer, Acks, Refusals, v
        <3> QED
            BY Zenon, <3>2, HeldInQueues, AnswersFit DEF Holds
    <2>3. slots' \in Permits
        BY <1>6, TypedTasks DEF AcceptHello, Answer, Fail, Release, Permits
    <2>4. conn' \in Conns
        <3> DEFINE v == NegotiateVersion(phone.offers)
        <3>1. v \in Nat
            BY Zenon, TypedTasks, AnswersFit DEF Phones
        <3> HIDE DEF v
        <3>2. \/ conn' = [conn EXCEPT !.phase = "closed"]
              \/ conn' = [phase |-> "start", version |-> v]
              \/ conn' = [phase |-> "pair", version |-> v]
            BY Zenon, <1>6 DEF AcceptHello, Fail, v
        <3> QED
            BY <3>1, <3>2, TypedTasks DEF Conns, Phases
    <2>5. UNCHANGED <<trust, phone, inbound, cmds, writeq, capq, loop, writer, pending, client, stopper, silent, budget, ponged>>
        BY Zenon, <1>6 DEF AcceptHello
    <2> QED
        BY Zenon, <2>1, <2>2, <2>3, <2>4, <2>5, TypeOK DEF TypeOK
<1>7. ASSUME NEW o \in {"stored", "declined", "unwritten"}, AcceptPairing(o) PROVE TypeOK'
    <2>1. up' \in Seq(Frames(FromPhone))
        BY Zenon, <1>7, HeldInQueues, ShortQueues, FramesFit DEF AcceptPairing, Fail, Release, Holds
    <2>2. down' \in Seq(Frames(FromSession) \cup Answers)
        <3>1. \/ down' = down
              \/ \E k \in Acks \cup Refusals : down' = Append(down, [k |-> k, version |-> 0])
            BY Zenon, <1>7 DEF AcceptPairing, Answer, Acks, Refusals
        <3> QED
            BY Zenon, <3>1, HeldInQueues, AnswersFit DEF Holds
    <2>3. slots' \in Permits
        BY <1>7, TypedTasks DEF AcceptPairing, Answer, Fail, Release, Permits
    <2>4. conn' \in Conns
        BY Zenon, <1>7, TypedTasks DEF AcceptPairing, Answer, Fail, Release, Conns, Phases, Early
    <2>5. trust' \in Trusts
        <3>1. trust' = trust \/ trust' = [record |-> "trusted", window |-> FALSE]
            BY Zenon, <1>7 DEF AcceptPairing
        <3>2. [record |-> "trusted", window |-> FALSE] \in Trusts
            BY Zenon DEF Trusts
        <3>3. trust \in Trusts
            BY Zenon, TypedTasks
        <3> QED
            BY Zenon, <3>1, <3>2, <3>3
    <2>6. UNCHANGED <<phone, inbound, cmds, writeq, capq, loop, writer, pending, client, stopper, silent, budget, ponged>>
        BY Zenon, <1>7 DEF AcceptPairing
    <2> QED
        BY <2>1, <2>2, <2>3, <2>4, <2>5, <2>6, TypeOK DEF TypeOK
<1>8. CASE Start
    <2>1. conn' \in Conns
        BY Zenon, <1>8, TypedTasks DEF Start, Frame, Conns, Phases, Early
    <2>2. capq' \in Seq(Frames(FromSession))
        BY Zenon, <1>8, HeldInQueues, ShortQueues, FramesFit DEF Start, Holds
    <2>3. UNCHANGED <<slots, trust, phone, up, down, inbound, cmds, writeq, loop, writer, pending, client, stopper, silent, budget, ponged>>
        BY Zenon, <1>8 DEF Start
    <2> QED
        BY Zenon, <2>1, <2>2, <2>3, TypeOK DEF TypeOK
<1>9. CASE Reader
    <2>1. inbound' \in Seq(Frames(FromPhone \cup {"eof"}))
        <3>1. <<Frame("eof")>> \in Seq(Frames(FromPhone \cup {"eof"}))
            BY Zenon, FramesFit, ShortQueues
        <3>2. up # <<>> => Append(inbound, Head(up)) \in Seq(Frames(FromPhone \cup {"eof"}))
            BY Zenon, HeldInQueues, FramesFit DEF Holds
        <3> QED
            BY Zenon, <1>9, <3>1, <3>2 DEF Reader
    <2>2. up' \in Seq(Frames(FromPhone))
        BY Zenon, <1>9, HeldInQueues, ShortQueues, FramesFit DEF Reader, Holds, FromPhone
    <2>3. UNCHANGED <<slots, trust, phone, conn, down, cmds, writeq, capq, loop, writer, pending, client, stopper, silent, budget, ponged>>
        BY Zenon, <1>9 DEF Reader
    <2> QED
        BY Zenon, <2>1, <2>2, <2>3, TypeOK DEF TypeOK
<1>10. CASE Writer
    <2>1. down' \in Seq(Frames(FromSession) \cup Answers)
        BY ZenonT(60), <1>10, HeldInQueues, ShortQueues, FramesFit DEF Writer, Holds
    <2>2. writeq' \in Seq(Frames(FromSession))
        BY Zenon, <1>10, HeldInQueues, ShortQueues, FramesFit DEF Writer, Holds
    <2>3. capq' \in Seq(Frames(FromSession))
        BY Zenon, <1>10, HeldInQueues, ShortQueues, FramesFit DEF Writer, Holds
    <2>4. UNCHANGED <<slots, trust, phone, conn, up, inbound, cmds, loop, writer, pending, client, stopper, silent, budget, ponged>>
        BY Zenon, <1>10 DEF Writer
    <2> QED
        BY <2>1, <2>2, <2>3, <2>4, TypeOK DEF TypeOK
<1>11. CASE WriterFails
    <2>1. writer' \in Frames({"idle", "failed"})
        BY <1>11, TypedTasks, FramesFit DEF WriterFails
    <2>2. writeq' \in Seq(Frames(FromSession))
        BY <1>11, HeldInQueues, ShortQueues, FramesFit DEF WriterFails, Holds
    <2>3. capq' \in Seq(Frames(FromSession))
        BY <1>11, HeldInQueues, ShortQueues, FramesFit DEF WriterFails, Holds
    <2>4. UNCHANGED <<slots, trust, phone, conn, up, down, inbound, cmds, loop, pending, client, stopper, silent, budget, ponged>>
        BY Zenon, <1>11 DEF WriterFails
    <2> QED
        BY <2>1, <2>2, <2>3, <2>4, TypeOK DEF TypeOK
<1>12. CASE LoopInbound
    <2>1. inbound' \in Seq(Frames(FromPhone \cup {"eof"}))
        BY Zenon, <1>12, HeldInQueues, ShortQueues, FramesFit DEF LoopInbound, AtSelect, End, Send, Selecting, Holds, FromPhone
    <2>2. silent' \in 0 .. DeadAfter
        BY <1>12, TypedTasks DEF LoopInbound, AtSelect, End, Send, Frame, Selecting, DeadAfter
    <2>3. conn' \in Conns
        BY Zenon, <1>12, TypedTasks DEF LoopInbound, AtSelect, End, Send, Frame, Selecting, Conns, Phases, Early
    <2>4. loop' \in Loops /\ (loop'.at = "write" => loop'.req.k # None)
        <3>1. \/ loop' = loop
              \/ loop' = [Selecting EXCEPT !.at = "write", !.req = Frame("reply")]
              \/ \E n \in Nat : loop' = [Selecting EXCEPT !.at = "handler", !.left = n]
            BY Zenon, <1>12, PipelineAssumption DEF LoopInbound, Send
        <3>2. \A n : [Selecting EXCEPT !.at = "handler", !.left = n].at = "handler"
            BY Zenon DEF Selecting
        <3>3. \A f : [Selecting EXCEPT !.at = "write", !.req = f].req = f
            BY Zenon DEF Selecting
        <3>4. loop \in Loops /\ (loop.at = "write" => loop.req.k # None)
            BY Zenon, TypedTasks
        <3>5. CASE loop' = [Selecting EXCEPT !.at = "write", !.req = Frame("reply")]
            BY Zenon, <3>3, <3>5, LoopsFit
        <3>6. CASE \E n \in Nat : loop' = [Selecting EXCEPT !.at = "handler", !.left = n]
            BY Zenon, <3>2, <3>6, LoopsFit
        <3> QED
            BY Zenon, <3>1, <3>4, <3>5, <3>6
    <2>5. pending' \in Clients \cup {None}
        BY Zenon, <1>12, TypedTasks DEF LoopInbound, AtSelect, End, Send, PutBack, Matches, Frame, Selecting
    <2>6. client' \in [Clients -> Seen]
        BY <1>12, TypedTasks DEF LoopInbound, AtSelect, End, Send, PutBack, Matches, Frame, Selecting, Seen
    <2>7. UNCHANGED <<slots, trust, phone, up, down, cmds, writeq, capq, writer, stopper, budget, ponged>>
        BY Zenon, <1>12 DEF LoopInbound
    <2> QED
        BY SMTT(60), <2>1, <2>2, <2>3, <2>4, <2>5, <2>6, <2>7, TypeOK DEF TypeOK
<1>13. CASE LoopWrite
    <2>1. loop' \in Loops /\ (loop'.at = "write" => loop'.req.k # None)
        BY Zenon, <1>13, TypedTasks, LoopsFit, HeldInQueues DEF LoopWrite, End
    <2>2. conn' \in Conns
        BY Zenon, <1>13, TypedTasks DEF LoopWrite, End, Selecting, Conns, Phases, Early
    <2>3. writeq' \in Seq(Frames(FromSession))
        <3>1. loop.req \in Frames(FromSession)
            BY Zenon, <1>13, TypedTasks, FramesFit DEF LoopWrite, Loops
        <3> QED
            BY Zenon, <1>13, <3>1, HeldInQueues DEF LoopWrite, Holds
    <2>4. pending' \in Clients \cup {None}
        BY Zenon, <1>13, TypedTasks DEF LoopWrite, End, Selecting
    <2>5. client' \in [Clients -> Seen]
        BY SMTT(60), <1>13, TypedTasks DEF LoopWrite, End, Selecting, Seen
    <2>6. UNCHANGED <<slots, trust, phone, up, down, inbound, cmds, capq, writer, stopper, silent, budget, ponged>>
        BY Zenon, <1>13 DEF LoopWrite
    <2> QED
        BY SMTT(60), <2>1, <2>2, <2>3, <2>4, <2>5, <2>6, TypeOK DEF TypeOK
<1>14. CASE LoopHandler
    <2>1. loop' \in Loops /\ (loop'.at = "write" => loop'.req.k # None)
        <3>1. loop' = Selecting \/ (loop.left > 0 /\ loop' = [loop EXCEPT !.left = loop.left - 1])
            BY Zenon, <1>14 DEF LoopHandler
        <3>2. loop.left > 0 => [loop EXCEPT !.left = loop.left - 1] \in Loops
            BY TypedTasks DEF Loops
        <3>3. [loop EXCEPT !.left = loop.left - 1].at = "handler"
            BY Zenon, <1>14, TypedTasks DEF LoopHandler, Loops
        <3> QED
            BY Zenon, <3>1, <3>2, <3>3, LoopsFit
    <2>2. capq' \in Seq(Frames(FromSession))
        BY ZenonT(60), <1>14, HeldInQueues, ShortQueues, FramesFit DEF LoopHandler, Selecting, Holds
    <2>3. UNCHANGED <<slots, trust, phone, conn, up, down, inbound, cmds, writeq, writer, pending, client, stopper, silent, budget, ponged>>
        BY Zenon, <1>14 DEF LoopHandler
    <2> QED
        BY SMTT(60), <2>1, <2>2, <2>3, TypeOK DEF TypeOK
<1>15. CASE LoopCommand
    <2>1. cmds' \in Seq(Frames({"ping", "shutdown"}))
        BY Zenon, <1>15, HeldInQueues, ShortQueues, FramesFit DEF LoopCommand, AtSelect, End, Send, Selecting, Holds
    <2>2. conn' \in Conns
        BY Zenon, <1>15, TypedTasks DEF LoopCommand, AtSelect, End, Send, Selecting, Conns, Phases, Early
    <2>3. loop' \in Loops /\ (loop'.at = "write" => loop'.req.k # None)
        <3> DEFINE f == Head(cmds)
        <3>1. f \in Frames({"ping", "shutdown"})
            BY Zenon, <1>15, HeldInQueues DEF LoopCommand, Holds
        <3>2. loop' = loop \/ (f.k # "shutdown" /\ loop' = [Selecting EXCEPT !.at = "write", !.req = f])
            BY Zenon, <1>15 DEF LoopCommand, Send
        <3>3. [Selecting EXCEPT !.at = "write", !.req = f].req = f
            BY Zenon DEF Selecting
        <3> HIDE DEF f
        <3> QED
            BY Zenon, <3>1, <3>2, <3>3, TypedTasks, LoopsFit
    <2>4. UNCHANGED <<slots, trust, phone, up, down, inbound, writeq, capq, writer, pending, client, stopper, silent, budget, ponged>>
        BY Zenon, <1>15 DEF LoopCommand
    <2> QED
        BY <2>1, <2>2, <2>3, <2>4, TypeOK DEF TypeOK
<1>16. CASE LoopWriterGone
    <2>1. conn' \in Conns
        BY Zenon, <1>16, TypedTasks DEF LoopWriterGone, AtSelect, End, Conns, Phases, Early
    <2>2. UNCHANGED <<slots, trust, phone, up, down, inbound, cmds, writeq, capq, loop, writer, pending, client, stopper, silent, budget, ponged>>
        BY Zenon, <1>16 DEF LoopWriterGone
    <2> QED
        BY Zenon, <2>1, <2>2, TypeOK DEF TypeOK
<1>17. CASE LoopTick
    <2>1. silent' \in 0 .. DeadAfter
        BY <1>17, TypedTasks DEF LoopTick, AtSelect, End, Send, Selecting, Ping, ProbeAfter, DeadAfter
    <2>2. conn' \in Conns
        BY Zenon, <1>17, TypedTasks DEF LoopTick, AtSelect, End, Send, Selecting, Ping, ProbeAfter, DeadAfter, Conns, Phases, Early
    <2>3. loop' \in Loops /\ (loop'.at = "write" => loop'.req.k # None)
        <3>1. loop' = loop \/ loop' = [Selecting EXCEPT !.at = "write", !.req = Ping("probe")]
            BY Zenon, <1>17 DEF LoopTick, Send
        <3>2. \A f : [Selecting EXCEPT !.at = "write", !.req = f].req = f
            BY Zenon DEF Selecting
        <3> QED
            BY <3>1, <3>2, TypedTasks, LoopsFit
    <2>4. UNCHANGED <<slots, trust, phone, up, down, inbound, cmds, writeq, capq, writer, pending, client, stopper, budget, ponged>>
        BY Zenon, <1>17 DEF LoopTick
    <2> QED
        BY <2>1, <2>2, <2>3, <2>4, TypeOK DEF TypeOK
<1>18. CASE Leave
    <2>1. conn' \in Conns
        BY Zenon, <1>18, TypedTasks DEF Leave, Conns, Phases, Early
    <2>2. inbound' \in Seq(Frames(FromPhone \cup {"eof"}))
        BY Zenon, <1>18, HeldInQueues, ShortQueues, FramesFit DEF Leave, Holds
    <2>3. UNCHANGED <<slots, trust, phone, up, down, cmds, writeq, capq, loop, writer, pending, client, stopper, silent, budget, ponged>>
        BY Zenon, <1>18 DEF Leave
    <2> QED
        BY Zenon, <2>1, <2>2, <2>3, TypeOK DEF TypeOK
<1>19. CASE Close
    <2>1. conn' \in Conns
        BY Zenon, <1>19, TypedTasks DEF Close, Release, Frame, Conns, Phases, Early
    <2>2. slots' \in Permits
        BY <1>19, TypedTasks DEF Close, Release, Frame, Permits
    <2>3. up' \in Seq(Frames(FromPhone))
        BY Zenon, <1>19, HeldInQueues, ShortQueues, FramesFit DEF Close, Release, Holds, FromPhone
    <2>4. cmds' \in Seq(Frames({"ping", "shutdown"}))
        BY Zenon, <1>19, HeldInQueues, ShortQueues, FramesFit DEF Close, Release, Holds
    <2>5. writeq' \in Seq(Frames(FromSession))
        BY Zenon, <1>19, HeldInQueues, ShortQueues, FramesFit DEF Close, Release, Holds
    <2>6. capq' \in Seq(Frames(FromSession))
        BY Zenon, <1>19, HeldInQueues, ShortQueues, FramesFit DEF Close, Release, Holds
    <2>7. writer' \in Frames({"idle", "failed"})
        BY Zenon, <1>19, TypedTasks, FramesFit DEF Close, Release
    <2>8. pending' \in Clients \cup {None}
        BY Zenon, <1>19, TypedTasks DEF Close, Release, Frame
    <2>9. silent' \in 0 .. DeadAfter
        BY <1>19, TypedTasks DEF Close, Release, Frame, DeadAfter
    <2>10. client' \in [Clients -> Seen]
        BY Zenon, <1>19, TypedTasks DEF Close, Release, Frame, Seen
    <2>11. stopper' \in {"idle", "sending", "done"}
        BY Zenon, <1>19, TypedTasks DEF Close, Release, Frame
    <2>12. UNCHANGED <<trust, phone, down, inbound, loop, budget, ponged>>
        BY Zenon, <1>19 DEF Close
    <2> QED
        BY SMTT(60), <2>1, <2>2, <2>3, <2>4, <2>5, <2>6, <2>7, <2>8, <2>9, <2>10, <2>11, <2>12, TypeOK DEF TypeOK
<1>20. CASE ConnectAck
    <2>1. down' \in Seq(Frames(FromSession) \cup Answers)
        BY SMTT(60), <1>20, HeldInQueues, ShortQueues, FramesFit DEF ConnectAck, Up, NoOffer, Holds
    <2>2. phone' \in Phones
        <3>1. Head(down).k \in Acks => Head(down).version \in Nat
            BY Zenon, <1>20, HeldInQueues, FramesFit DEF ConnectAck, Holds
        <3>2. \/ phone' = [phone EXCEPT !.at = "left"]
              \/ Head(down).k \in Acks /\ phone' = [Up EXCEPT !.version = Head(down).version]
              \/ Head(down).k \in Acks
                 /\ phone' = [phone EXCEPT !.at = "pairing", !.version = Head(down).version]
            BY Zenon, <1>20 DEF ConnectAck, Acks
        <3>3. phone \in Phones
            BY Zenon, TypedTasks
        <3>4. ASSUME NEW v \in Nat
              PROVE  /\ [phone EXCEPT !.at = "left"] \in Phones
                     /\ [phone EXCEPT !.at = "pairing", !.version = v] \in Phones
            BY Zenon, <3>3 DEF Phones
        <3>5. ASSUME NEW v \in Nat PROVE [Up EXCEPT !.version = v] \in Phones
            BY Zenon, <3>3 DEF Phones, Up, NoOffer
        <3> QED
            BY Zenon, <3>1, <3>2, <3>4, <3>5
    <2>3. up' \in Seq(Frames(FromPhone))
        BY ZenonT(60), <1>20, HeldInQueues, ShortQueues, FramesFit DEF ConnectAck, Up, NoOffer, Holds, FromPhone
    <2>4. UNCHANGED <<slots, trust, conn, inbound, cmds, writeq, capq, loop, writer, pending, client, stopper, silent, budget, ponged>>
        BY <1>20 DEF ConnectAck
    <2> QED
        BY SMTT(60), <2>1, <2>2, <2>3, <2>4, TypeOK DEF TypeOK
<1>21. CASE ConnectPaired
    <2>1. down' \in Seq(Frames(FromSession) \cup Answers)
        BY <1>21, HeldInQueues, ShortQueues, FramesFit DEF ConnectPaired, Up, NoOffer, Holds
    <2>2. phone' \in Phones
        BY Zenon, <1>21, TypedTasks DEF ConnectPaired, Up, NoOffer, Phones
    <2>3. UNCHANGED <<slots, trust, conn, up, inbound, cmds, writeq, capq, loop, writer, pending, client, stopper, silent, budget, ponged>>
        BY Zenon, <1>21 DEF ConnectPaired
    <2> QED
        BY <2>1, <2>2, <2>3, TypeOK DEF TypeOK
<1>22. CASE PhoneReads
    <2>1. down' \in Seq(Frames(FromSession) \cup Answers)
        BY <1>22, HeldInQueues, ShortQueues, FramesFit DEF PhoneReads, Deliver, Holds
    <2>2. up' \in Seq(Frames(FromPhone))
        BY Zenon, <1>22, HeldInQueues, ShortQueues, FramesFit DEF PhoneReads, Deliver, Holds
    <2>3. inbound' \in Seq(Frames(FromPhone \cup {"eof"}))
        BY Zenon, <1>22, HeldInQueues, ShortQueues, FramesFit DEF PhoneReads, Deliver, Holds
    <2>4. ponged' \in SUBSET Clients
        BY Zenon, <1>22, TypedTasks DEF PhoneReads, Deliver
    <2>5. UNCHANGED <<slots, trust, phone, conn, cmds, writeq, capq, loop, writer, pending, client, stopper, silent, budget>>
        BY Zenon, <1>22 DEF PhoneReads
    <2> QED
        BY <2>1, <2>2, <2>3, <2>4, <2>5, TypeOK DEF TypeOK
<1>23. CASE PhoneSeesClose
    <2>1. phone' \in Phones
        BY Zenon, <1>23, TypedTasks DEF PhoneSeesClose, Phones
    <2>2. UNCHANGED <<slots, trust, conn, up, down, inbound, cmds, writeq, capq, loop, writer, pending, client, stopper, silent, budget, ponged>>
        BY Zenon, <1>23 DEF PhoneSeesClose
    <2> QED
        BY <2>1, <2>2, TypeOK DEF TypeOK
<1>24. ASSUME NEW k \in Sent, PhoneSends(k) PROVE TypeOK'
    <2>1. up' \in Seq(Frames(FromPhone))
        BY ZenonT(60), <1>24, HeldInQueues, ShortQueues, FramesFit DEF PhoneSends, Deliver, Spend, Sent, Holds, FromPhone
    <2>2. inbound' \in Seq(Frames(FromPhone \cup {"eof"}))
        BY ZenonT(60), <1>24, HeldInQueues, ShortQueues, FramesFit DEF PhoneSends, Deliver, Spend, Sent, Holds, FromPhone
    <2>3. budget' \in Budgets
        BY <1>24, TypedTasks DEF PhoneSends, Deliver, Frame, Spend, Sent, Budgets
    <2>4. UNCHANGED <<slots, trust, phone, conn, down, cmds, writeq, capq, loop, writer, pending, client, stopper, silent, ponged>>
        BY Zenon, <1>24 DEF PhoneSends
    <2> QED
        BY SMTT(60), <2>1, <2>2, <2>3, <2>4, TypeOK DEF TypeOK
<1>25. CASE PhoneStalls
    <2>1. phone' \in Phones
        BY Zenon, <1>25, TypedTasks DEF PhoneStalls, Spend, Phones
    <2>2. budget' \in Budgets
        BY <1>25, TypedTasks DEF PhoneStalls, Spend, Budgets
    <2>3. UNCHANGED <<slots, trust, conn, up, down, inbound, cmds, writeq, capq, loop, writer, pending, client, stopper, silent, ponged>>
        BY Zenon, <1>25 DEF PhoneStalls
    <2> QED
        BY Zenon, <2>1, <2>2, <2>3, TypeOK DEF TypeOK
<1>26. CASE PhoneWakes
    <2>1. phone' \in Phones
        BY Zenon, <1>26, TypedTasks DEF PhoneWakes, Phones
    <2>2. UNCHANGED <<slots, trust, conn, up, down, inbound, cmds, writeq, capq, loop, writer, pending, client, stopper, silent, budget, ponged>>
        BY Zenon, <1>26 DEF PhoneWakes
    <2> QED
        BY Zenon, <2>1, <2>2, TypeOK DEF TypeOK
<1>27. ASSUME NEW c \in Clients, PingQueued(c) PROVE TypeOK'
    <2>1. cmds' \in Seq(Frames({"ping", "shutdown"}))
        BY Zenon, <1>27, HeldInQueues, ShortQueues, FramesFit DEF PingQueued, Holds
    <2>2. client' \in [Clients -> Seen]
        BY Zenon, <1>27, TypedTasks DEF PingQueued, Ping, Seen
    <2>3. UNCHANGED <<slots, trust, phone, conn, up, down, inbound, writeq, capq, loop, writer, pending, stopper, silent, budget, ponged>>
        BY Zenon, <1>27 DEF PingQueued
    <2> QED
        BY SMTT(60), <2>1, <2>2, <2>3, TypeOK DEF TypeOK
<1>28. CASE StopQueued
    <2>1. cmds' \in Seq(Frames({"ping", "shutdown"}))
        BY Zenon, <1>28, HeldInQueues, ShortQueues, FramesFit DEF StopQueued, Holds
    <2>2. stopper' \in {"idle", "sending", "done"}
        BY Zenon, <1>28, TypedTasks DEF StopQueued, Frame
    <2>3. UNCHANGED <<slots, trust, phone, conn, up, down, inbound, writeq, capq, loop, writer, pending, client, silent, budget, ponged>>
        BY SMTT(60), <1>28 DEF StopQueued
    <2> QED
        BY <2>1, <2>2, <2>3, TypeOK DEF TypeOK
<1>29. ASSUME NEW c \in Clients, PingAsked(c) PROVE TypeOK'
    <2>1. cmds' \in Seq(Frames({"ping", "shutdown"}))
        BY Zenon, <1>29, HeldInQueues, ShortQueues, FramesFit DEF PingAsked, Holds
    <2>2. client' \in [Clients -> Seen]
        BY Zenon, <1>29, TypedTasks DEF PingAsked, Ping, Seen
    <2>3. UNCHANGED <<slots, trust, phone, conn, up, down, inbound, writeq, capq, loop, writer, pending, stopper, silent, budget, ponged>>
        BY Zenon, <1>29 DEF PingAsked
    <2> QED
        BY Zenon, <2>1, <2>2, <2>3, TypeOK DEF TypeOK
<1>30. ASSUME NEW c \in Clients, PingTimeout(c) PROVE TypeOK'
    <2>1. client' \in [Clients -> Seen]
        BY Zenon, <1>30, TypedTasks DEF PingTimeout, Spend, Seen
    <2>2. budget' \in Budgets
        BY <1>30, TypedTasks DEF PingTimeout, Spend, Budgets
    <2>3. UNCHANGED <<slots, trust, phone, conn, up, down, inbound, cmds, writeq, capq, loop, writer, pending, stopper, silent, ponged>>
        BY Zenon, <1>30 DEF PingTimeout
    <2> QED
        BY <2>1, <2>2, <2>3, TypeOK DEF TypeOK
<1>31. CASE StopAsked
    <2>1. cmds' \in Seq(Frames({"ping", "shutdown"}))
        BY Zenon, <1>31, HeldInQueues, ShortQueues, FramesFit DEF StopAsked, Holds
    <2>2. stopper' \in {"idle", "sending", "done"}
        BY Zenon, <1>31, TypedTasks DEF StopAsked, Frame
    <2>3. UNCHANGED <<slots, trust, phone, conn, up, down, inbound, writeq, capq, loop, writer, pending, client, silent, budget, ponged>>
        BY Zenon, <1>31 DEF StopAsked
    <2> QED
        BY Zenon, <2>1, <2>2, <2>3, TypeOK DEF TypeOK
<1> QED
    BY SMTT(60), <1>1, <1>2, <1>3, <1>4, <1>5, <1>6, <1>7, <1>8, <1>9, <1>10, <1>11, <1>12, <1>13, <1>14, <1>15, <1>16, <1>17, <1>18, <1>19, <1>20, <1>21, <1>22, <1>23, <1>24, <1>25, <1>26, <1>27, <1>28, <1>29, <1>30, <1>31
    DEF Next, Handshake, LoopStep, PhoneStep, HandleStep, Sent

\* Every permit that is taken is given back once (accept_loop, _permit).
LEMMA PermitsStep ==
    ASSUME TypeOK, PermitsAddUp, Next
    PROVE  PermitsAddUp'
<1> USE DEF net, queues, tasks, users
<1>0. slots \in Permits /\ conn \in Conns /\ Slots \in Nat
    BY Zenon, TypedTasks, PipelineAssumption
<1>a. PermitsAddUp
    BY Zenon
<1>1. CASE OtherConnection
    BY <1>1, <1>0, <1>a DEF OtherConnection, PermitsAddUp, Conns, Permits
<1>2. CASE Accept
    BY <1>2, <1>0, <1>a DEF Accept, Frame, PermitsAddUp, Conns, Permits
<1>3. ASSUME NEW alpn \in {"control", "data", "none"}, Tls(alpn) PROVE PermitsAddUp'
    BY <1>3, <1>0, <1>a DEF Tls, Fail, Release, PermitsAddUp, Conns, Permits
<1>4. CASE DataEnds
    BY <1>4, <1>0, <1>a DEF DataEnds, Fail, Release, PermitsAddUp, Conns, Permits
<1>5. CASE HandshakeTimeout
    BY <1>5, <1>0, <1>a DEF HandshakeTimeout, Fail, Release, Spend, PermitsAddUp, Conns, Permits
<1>6. CASE AcceptHello
    BY SMTT(60), <1>6, <1>0, <1>a DEF AcceptHello, Answer, Fail, Release, PermitsAddUp, Conns, Permits
<1>7. ASSUME NEW o \in {"stored", "declined", "unwritten"}, AcceptPairing(o) PROVE PermitsAddUp'
    BY <1>7, <1>0, <1>a DEF AcceptPairing, Answer, Fail, Release, PermitsAddUp, Conns, Permits
<1>8. CASE Start
    BY Zenon, <1>8, <1>0, <1>a DEF Start, Frame, PermitsAddUp, Conns, Permits
<1>9. CASE Reader
    BY Zenon, <1>9, <1>0, <1>a DEF Reader, Frame, PermitsAddUp, Conns, Permits
<1>10. CASE Writer
    BY Zenon, <1>10, <1>0, <1>a DEF Writer, PermitsAddUp, Conns, Permits
<1>11. CASE WriterFails
    BY Zenon, <1>11, <1>0, <1>a DEF WriterFails, Frame, PermitsAddUp, Conns, Permits
<1>12. CASE LoopInbound
    BY <1>12, <1>0, <1>a DEF LoopInbound, AtSelect, End, Send, PutBack, Matches, Frame, Selecting, PermitsAddUp, Conns, Permits
<1>13. CASE LoopWrite
    BY Zenon, <1>13, <1>0, <1>a DEF LoopWrite, End, Selecting, PermitsAddUp, Conns, Permits
<1>14. CASE LoopHandler
    BY Zenon, <1>14, <1>0, <1>a DEF LoopHandler, Selecting, Frame, PermitsAddUp, Conns, Permits
<1>15. CASE LoopCommand
    BY Zenon, <1>15, <1>0, <1>a DEF LoopCommand, AtSelect, End, Send, Selecting, PermitsAddUp, Conns, Permits
<1>16. CASE LoopWriterGone
    BY Zenon, <1>16, <1>0, <1>a DEF LoopWriterGone, AtSelect, End, PermitsAddUp, Conns, Permits
<1>17. CASE LoopTick
    BY <1>17, <1>0, <1>a DEF LoopTick, AtSelect, End, Send, Selecting, Ping, ProbeAfter, DeadAfter, PermitsAddUp, Conns, Permits
<1>18. CASE Leave
    BY <1>18, <1>0, <1>a DEF Leave, PermitsAddUp, Conns, Permits
<1>19. CASE Close
    BY <1>19, <1>0, <1>a DEF Close, Release, Frame, PermitsAddUp, Conns, Permits
<1>20. CASE ConnectAck
    BY <1>20, <1>0, <1>a DEF ConnectAck, Up, NoOffer, Frame, PermitsAddUp, Conns, Permits
<1>21. CASE ConnectPaired
    BY Zenon, <1>21, <1>0, <1>a DEF ConnectPaired, Up, NoOffer, PermitsAddUp, Conns, Permits
<1>22. CASE PhoneReads
    BY Zenon, <1>22, <1>0, <1>a DEF PhoneReads, Deliver, PermitsAddUp, Conns, Permits
<1>23. CASE PhoneSeesClose
    BY Zenon, <1>23, <1>0, <1>a DEF PhoneSeesClose, PermitsAddUp, Conns, Permits
<1>24. ASSUME NEW k \in Sent, PhoneSends(k) PROVE PermitsAddUp'
    BY Zenon, <1>24, <1>0, <1>a DEF PhoneSends, Deliver, Frame, Spend, Sent, PermitsAddUp, Conns, Permits
<1>25. CASE PhoneStalls
    BY <1>25, <1>0, <1>a DEF PhoneStalls, Spend, PermitsAddUp, Conns, Permits
<1>26. CASE PhoneWakes
    BY Zenon, <1>26, <1>0, <1>a DEF PhoneWakes, PermitsAddUp, Conns, Permits
<1>27. ASSUME NEW c \in Clients, PingQueued(c) PROVE PermitsAddUp'
    BY Zenon, <1>27, <1>0, <1>a DEF PingQueued, Ping, PermitsAddUp, Conns, Permits
<1>28. CASE StopQueued
    BY <1>28, <1>0, <1>a DEF StopQueued, Frame, PermitsAddUp, Conns, Permits
<1>29. ASSUME NEW c \in Clients, PingAsked(c) PROVE PermitsAddUp'
    BY Zenon, <1>29, <1>0, <1>a DEF PingAsked, Ping, PermitsAddUp, Conns, Permits
<1>30. ASSUME NEW c \in Clients, PingTimeout(c) PROVE PermitsAddUp'
    BY Zenon, <1>30, <1>0, <1>a DEF PingTimeout, Spend, PermitsAddUp, Conns, Permits
<1>31. CASE StopAsked
    BY Zenon, <1>31, <1>0, <1>a DEF StopAsked, Frame, PermitsAddUp, Conns, Permits
<1> QED
    BY <1>1, <1>2, <1>3, <1>4, <1>5, <1>6, <1>7, <1>8, <1>9, <1>10, <1>11, <1>12, <1>13, <1>14, <1>15, <1>16, <1>17, <1>18, <1>19, <1>20, <1>21, <1>22, <1>23, <1>24, <1>25, <1>26, <1>27, <1>28, <1>29, <1>30, <1>31
    DEF Next, Handshake, LoopStep, PhoneStep, HandleStep, Sent

\* A step that changes neither the record nor the version, and sends no answer of
\* the handshake.
Silent ==
    /\ trust' = trust /\ conn'.version = conn.version
    /\ conn'.phase \in Early => conn.phase \in Early /\ down' = down
    /\ phone'.at \in {"pairing", "up"} => phone'.at = phone.at /\ phone'.version = phone.version
    /\ \A f \in Items(down') : f \in Items(down) \/ f.k \notin Acks

\* Such a step leaves the answers true.
LEMMA SilentStep ==
    ASSUME AnswersAreTrue, EndsAgree, Silent
    PROVE  AnswersAreTrue' /\ EndsAgree'
    BY Zenon DEF AnswersAreTrue, EndsAgree, Silent, Acks

\* No frame the session sends is an answer of the handshake.
LEMMA SessionFrames ==
    /\ \A f \in Frames(FromSession) : f.k \notin Acks
    BY Zenon DEF Frames, FromSession, Acks

\* What the desktop answered stays true, and both ends agree.
LEMMA AnswersStep ==
    ASSUME TypeOK, AnswersAreTrue, EndsAgree, Next
    PROVE  AnswersAreTrue' /\ EndsAgree'
<1> USE DEF net, queues, tasks, users
<1>0. conn \in Conns /\ phone \in Phones
    BY Zenon, TypedTasks
<1>q. \A f \in Items(<<>>) : FALSE
    BY Zenon, ShortQueues
<1>1. CASE OtherConnection
    <2>1. Silent
        BY <1>1, <1>0, <1>q DEF OtherConnection, Silent, Conns, Phones, Early
    <2> QED
        BY Zenon, <2>1, SilentStep
<1>2. CASE Accept
    <2>1. Silent
        BY <1>2, <1>0, <1>q DEF Accept, Frame, Silent, Conns, Phones, Early
    <2> QED
        BY Zenon, <2>1, SilentStep
<1>3. ASSUME NEW alpn \in {"control", "data", "none"}, Tls(alpn) PROVE AnswersAreTrue' /\ EndsAgree'
    <2>1. Silent
        BY <1>3, <1>0, <1>q DEF Tls, Fail, Release, Silent, Conns, Phones, Early
    <2> QED
        BY Zenon, <2>1, SilentStep
<1>4. CASE DataEnds
    <2>1. Silent
        BY <1>4, <1>0, <1>q DEF DataEnds, Fail, Release, Silent, Conns, Phones, Early
    <2> QED
        BY Zenon, <2>1, SilentStep
<1>5. CASE HandshakeTimeout
    <2>1. Silent
        BY Zenon, <1>5, <1>0, <1>q DEF HandshakeTimeout, Fail, Release, Spend, Silent, Conns, Phones, Early
    <2> QED
        BY Zenon, <2>1, SilentStep
<1>6. CASE AcceptHello
    <2> DEFINE v == NegotiateVersion(phone.offers)
    <2>1. v \in Nat
        BY Zenon, <1>0, AnswersFit DEF Phones
    <2> HIDE DEF v
    <2>2. down = <<>> /\ phone.at \notin {"pairing", "up"}
        BY Zenon, <1>6 DEF AcceptHello, AnswersAreTrue, Early
    <2>3. \/ \E k \in Refusals, w \in Nat :
                down' = Append(down, [k |-> k, version |-> w]) /\ conn' = [conn EXCEPT !.phase = "closed"]
          \/ /\ down' = Append(down, [k |-> "trusted", version |-> v]) /\ v # 0
             /\ trust.record = "trusted" /\ conn' = [phase |-> "start", version |-> v]
          \/ /\ down' = Append(down, [k |-> "prove", version |-> v]) /\ v # 0
             /\ conn' = [phase |-> "pair", version |-> v]
        BY <1>6, <2>1 DEF AcceptHello, Answer, Fail, Refusals, v
    <2>4. \A f \in Items(down') :
            /\ f.k \in {"trusted", "accepted"} => trust.record = "trusted"
            /\ f.k \in {"trusted", "prove"} => f.version = conn'.version /\ conn'.version # 0
        <3>1. ASSUME NEW k \in Acks \cup Refusals, NEW w \in Nat, down' = Append(down, [k |-> k, version |-> w])
              PROVE  \A f \in Items(down') : f = [k |-> k, version |-> w]
            BY <2>2, <3>1, TypedQueues, ShortQueues, AnswersFit DEF QueueOf
        <3>2. CASE \E k \in Refusals, w \in Nat : down' = Append(down, [k |-> k, version |-> w])
            <4>1. PICK k \in Refusals, w \in Nat : down' = Append(down, [k |-> k, version |-> w])
                BY <3>2
            <4>2. \A f \in Items(down') : f = [k |-> k, version |-> w]
                BY <3>1, <4>1
            <4>3. k \notin {"trusted", "accepted", "prove"}
                BY Zenon DEF Refusals
            <4> QED
                BY <4>2, <4>3
        <3>3. CASE /\ down' = Append(down, [k |-> "trusted", version |-> v]) /\ v # 0
                   /\ trust.record = "trusted" /\ conn' = [phase |-> "start", version |-> v]
            <4>1. \A f \in Items(down') : f = [k |-> "trusted", version |-> v]
                BY <2>1, <3>1, <3>3 DEF Acks
            <4> QED
                BY <4>1, <3>3
        <3>4. CASE /\ down' = Append(down, [k |-> "prove", version |-> v]) /\ v # 0
                   /\ conn' = [phase |-> "pair", version |-> v]
            <4>1. \A f \in Items(down') : f = [k |-> "prove", version |-> v]
                BY <2>1, <3>1, <3>4 DEF Acks
            <4> QED
                BY <4>1, <3>4
        <3> QED
            BY Zenon, <2>3, <3>2, <3>3, <3>4
    <2>6. conn'.phase \notin Early
        <3>1. conn'.phase \in {"closed", "start", "pair"}
            BY SMTT(60), <1>6, <1>0 DEF AcceptHello, Fail, Conns
        <3> QED
            BY Zenon, <3>1 DEF Early
    <2>5. UNCHANGED <<trust, phone>>
        BY Zenon, <1>6 DEF AcceptHello
    <2> QED
        BY Zenon, <2>2, <2>4, <2>5, <2>6 DEF AnswersAreTrue, EndsAgree
<1>7. ASSUME NEW o \in {"stored", "declined", "unwritten"}, AcceptPairing(o) PROVE AnswersAreTrue' /\ EndsAgree'
    <2>1. /\ \/ down' = down /\ trust' = trust
             \/ \E k \in Acks \cup Refusals :
                    /\ down' = Append(down, [k |-> k, version |-> 0]) /\ k \notin {"trusted", "prove"}
                    /\ \/ k = "accepted" /\ trust'.record = "trusted"
                       \/ k # "accepted" /\ trust' = trust
          /\ conn'.version = conn.version /\ conn'.phase \notin Early /\ phone' = phone
        BY SMTT(60), <1>7, <1>0 DEF AcceptPairing, Answer, Fail, Acks, Refusals, Early, Conns
    <2>2. \A f \in Items(down') : f \in Items(down)
            \/ f.k \notin Acks \/ (f.k = "accepted" /\ trust'.record = "trusted")
        <3>1. ASSUME NEW k \in Acks \cup Refusals, down' = Append(down, [k |-> k, version |-> 0])
              PROVE  \A f \in Items(down') : f \in Items(down) \/ f = [k |-> k, version |-> 0]
            <4>1. [k |-> k, version |-> 0] \in Frames(FromSession) \cup Answers
                BY Zenon, AnswersFit
            <4>2. QueueOf(down, Frames(FromSession) \cup Answers)
                BY Zenon, TypedQueues
            <4> QED
                BY <3>1, <4>1, <4>2 DEF QueueOf
        <3>2. CASE down' = down
            BY Zenon, <3>2
        <3>3. CASE \E k \in Acks \cup Refusals :
                    /\ down' = Append(down, [k |-> k, version |-> 0]) /\ k \notin {"trusted", "prove"}
                    /\ \/ k = "accepted" /\ trust'.record = "trusted"
                       \/ k # "accepted" /\ trust' = trust
            BY <3>1, <3>3 DEF Acks
        <3> QED
            BY Zenon, <2>1, <3>2, <3>3
    <2>3. trust.record = "trusted" => trust'.record = "trusted"
        BY Zenon, <2>1
    <2> QED
        BY <2>1, <2>2, <2>3 DEF AnswersAreTrue, EndsAgree, Acks
<1>8. CASE Start
    <2>1. Silent
        BY <1>8, <1>0, <1>q DEF Start, Frame, Silent, Conns, Phones, Early
    <2> QED
        BY Zenon, <2>1, SilentStep
<1>9. CASE Reader
    <2>1. Silent
        BY <1>9, <1>0, <1>q DEF Reader, Frame, Silent, Conns, Phones, Early
    <2> QED
        BY Zenon, <2>1, SilentStep
<1>10. CASE Writer
    <2>1. \A f \in Items(down') : f \in Items(down) \/ f \in Frames(FromSession)
        <3>1. ASSUME NEW g \in Frames(FromSession), down' = Append(down, g)
              PROVE  \A f \in Items(down') : f \in Items(down) \/ f = g
            BY <3>1, TypedQueues, FramesFit DEF QueueOf
        <3>2. \E g \in Frames(FromSession) : down' = Append(down, g)
            BY ZenonT(60), <1>10, TypedQueues DEF Writer, QueueOf
        <3> QED
            BY <3>1, <3>2
    <2>2. Silent
        BY <1>10, <2>1, SessionFrames DEF Writer, Silent, Early
    <2> QED
        BY Zenon, <2>2, SilentStep
<1>11. CASE WriterFails
    <2>1. Silent
        BY <1>11, <1>0, <1>q DEF WriterFails, Frame, Silent, Conns, Phones, Early
    <2> QED
        BY Zenon, <2>1, SilentStep
<1>12. CASE LoopInbound
    <2>1. Silent
        BY <1>12, <1>0, <1>q DEF LoopInbound, AtSelect, End, Send, PutBack, Matches, Frame, Selecting, Silent, Conns, Phones, Early
    <2> QED
        BY Zenon, <2>1, SilentStep
<1>13. CASE LoopWrite
    <2>1. Silent
        BY <1>13, <1>0, <1>q DEF LoopWrite, End, Selecting, Silent, Conns, Phones, Early
    <2> QED
        BY Zenon, <2>1, SilentStep
<1>14. CASE LoopHandler
    <2>1. Silent
        BY <1>14, <1>0, <1>q DEF LoopHandler, Selecting, Frame, Silent, Conns, Phones, Early
    <2> QED
        BY Zenon, <2>1, SilentStep
<1>15. CASE LoopCommand
    <2>1. Silent
        BY <1>15, <1>0, <1>q DEF LoopCommand, AtSelect, End, Send, Selecting, Silent, Conns, Phones, Early
    <2> QED
        BY Zenon, <2>1, SilentStep
<1>16. CASE LoopWriterGone
    <2>1. Silent
        BY <1>16, <1>0, <1>q DEF LoopWriterGone, AtSelect, End, Silent, Conns, Phones, Early
    <2> QED
        BY Zenon, <2>1, SilentStep
<1>17. CASE LoopTick
    <2>1. Silent
        BY <1>17, <1>0, <1>q DEF LoopTick, AtSelect, End, Send, Selecting, Ping, ProbeAfter, DeadAfter, Silent, Conns, Phones, Early
    <2> QED
        BY Zenon, <2>1, SilentStep
<1>18. CASE Leave
    <2>1. Silent
        BY <1>18, <1>0, <1>q DEF Leave, Silent, Conns, Phones, Early
    <2> QED
        BY Zenon, <2>1, SilentStep
<1>19. CASE Close
    <2>1. Silent
        BY <1>19, <1>0, <1>q DEF Close, Release, Frame, Silent, Conns, Phones, Early
    <2> QED
        BY Zenon, <2>1, SilentStep
<1>20. CASE ConnectAck
    <2>1. Head(down) \in Items(down) /\ \A f \in Items(down') : f \in Items(down)
        BY Zenon, <1>20, TypedQueues DEF ConnectAck, QueueOf
    <2>2. \/ phone'.at = "left"
          \/ /\ phone'.at \in {"up", "pairing"} /\ phone'.version = Head(down).version
             /\ Head(down).k \in {"trusted", "prove"}
             /\ phone'.at = "up" => Head(down).k = "trusted"
        BY ZenonT(60), <1>20, <1>0 DEF ConnectAck, Up, NoOffer, Frame, Phones
    <2>3. UNCHANGED <<trust, conn>> /\ conn.phase \notin Early
        BY Zenon, <1>20 DEF ConnectAck, AnswersAreTrue
    <2> QED
        BY <2>1, <2>2, <2>3 DEF AnswersAreTrue, EndsAgree
<1>21. CASE ConnectPaired
    <2>1. Head(down) \in Items(down) /\ \A f \in Items(down') : f \in Items(down)
        BY <1>21, TypedQueues DEF ConnectPaired, QueueOf
    <2>2. \/ phone'.at = "left"
          \/ phone'.at = "up" /\ phone'.version = phone.version /\ Head(down).k = "accepted"
        BY <1>21, <1>0 DEF ConnectPaired, Up, NoOffer, Phones
    <2>3. UNCHANGED <<trust, conn>> /\ conn.phase \notin Early /\ phone.at = "pairing"
        BY <1>21 DEF ConnectPaired, AnswersAreTrue
    <2> QED
        BY <2>1, <2>2, <2>3 DEF AnswersAreTrue, EndsAgree
<1>22. CASE PhoneReads
    <2>1. conn.phase \notin Early
        BY <1>22 DEF PhoneReads, AnswersAreTrue
    <2>2. \A f \in Items(down') : f \in Items(down)
        BY <1>22, TypedQueues DEF PhoneReads, QueueOf
    <2>3. Silent
        BY <1>22, <2>1, <2>2 DEF PhoneReads, Silent
    <2> QED
        BY Zenon, <2>3, SilentStep
<1>23. CASE PhoneSeesClose
    <2>1. Silent
        BY <1>23, <1>0, <1>q DEF PhoneSeesClose, Silent, Conns, Phones, Early
    <2> QED
        BY Zenon, <2>1, SilentStep
<1>24. ASSUME NEW k \in Sent, PhoneSends(k) PROVE AnswersAreTrue' /\ EndsAgree'
    <2>1. Silent
        BY <1>24, <1>0, <1>q DEF PhoneSends, Deliver, Frame, Spend, Sent, Silent, Conns, Phones, Early
    <2> QED
        BY <2>1, SilentStep
<1>25. CASE PhoneStalls
    <2>1. Silent
        BY <1>25, <1>0, <1>q DEF PhoneStalls, Spend, Silent, Conns, Phones, Early
    <2> QED
        BY Zenon, <2>1, SilentStep
<1>26. CASE PhoneWakes
    <2>1. Silent
        BY <1>26, <1>0, <1>q DEF PhoneWakes, Silent, Conns, Phones, Early
    <2> QED
        BY Zenon, <2>1, SilentStep
<1>27. ASSUME NEW c \in Clients, PingQueued(c) PROVE AnswersAreTrue' /\ EndsAgree'
    <2>1. Silent
        BY SMTT(60), <1>27, <1>0, <1>q DEF PingQueued, Ping, Silent, Conns, Phones, Early
    <2> QED
        BY Zenon, <2>1, SilentStep
<1>28. CASE StopQueued
    <2>1. Silent
        BY SMTT(60), <1>28, <1>0, <1>q DEF StopQueued, Frame, Silent, Conns, Phones, Early
    <2> QED
        BY Zenon, <2>1, SilentStep
<1>29. ASSUME NEW c \in Clients, PingAsked(c) PROVE AnswersAreTrue' /\ EndsAgree'
    <2>1. Silent
        BY SMTT(60), <1>29, <1>0, <1>q DEF PingAsked, Ping, Silent, Conns, Phones, Early
    <2> QED
        BY Zenon, <2>1, SilentStep
<1>30. ASSUME NEW c \in Clients, PingTimeout(c) PROVE AnswersAreTrue' /\ EndsAgree'
    <2>1. Silent
        BY SMTT(60), <1>30, <1>0, <1>q DEF PingTimeout, Spend, Silent, Conns, Phones, Early
    <2> QED
        BY Zenon, <2>1, SilentStep
<1>31. CASE StopAsked
    <2>1. Silent
        BY <1>31, <1>0, <1>q DEF StopAsked, Frame, Silent, Conns, Phones, Early
    <2> QED
        BY Zenon, <2>1, SilentStep
<1> QED
    BY SMTT(60), <1>1, <1>2, <1>3, <1>4, <1>5, <1>6, <1>7, <1>8, <1>9, <1>10, <1>11, <1>12, <1>13, <1>14, <1>15, <1>16, <1>17, <1>18, <1>19, <1>20, <1>21, <1>22, <1>23, <1>24, <1>25, <1>26, <1>27, <1>28, <1>29, <1>30, <1>31
    DEF Next, Handshake, LoopStep, PhoneStep, HandleStep, Sent

BeforeLoop == Early \cup {"pair", "start"}

\* A step that leaves the clients, the loop and the pending ping alone, and puts on
\* the wire no pong but one the phone just gave.
Quiet ==
    /\ UNCHANGED <<loop, pending, client>>
    /\ ponged \subseteq ponged' /\ Items(cmds) \subseteq Items(cmds')
    /\ \A f \in Items(up') \cup Items(inbound') :
        f.k = "pong" /\ f.id \in Clients => f \in Items(up) \cup Items(inbound) \/ f.id \in ponged'
    /\ conn'.phase = "loop" => conn.phase = "loop"
    /\ conn'.phase \in BeforeLoop => conn.phase \in BeforeLoop

\* Such a step leaves pings and pongs matched.
LEMMA QuietStep ==
    ASSUME PingsAreKnown, PingsAreMatched, Quiet
    PROVE  PingsAreKnown' /\ PingsAreMatched'
<1>1. PingsAreKnown'
    BY Zenon DEF PingsAreKnown, Quiet, BeforeLoop
<1>2. PingsAreMatched'
    BY Zenon DEF PingsAreMatched, Quiet, Ping
<1> QED
    BY Zenon, <1>1, <1>2

\* A frame on the wire, or with the loop at once, is the only new one.
LEMMA DeliverEffect ==
    ASSUME TypeOK, NEW f \in Frames(FromPhone), Deliver(f)
    PROVE  \A g \in Items(up') \cup Items(inbound') : g \in Items(up) \cup Items(inbound) \cup {f}
<1>1. QueueOf(up, Frames(FromPhone)) /\ QueueOf(inbound, Frames(FromPhone \cup {"eof"}))
    BY Zenon, TypedQueues
<1>2. f \in Frames(FromPhone \cup {"eof"})
    BY Zenon, FramesFit
<1> QED
    BY ZenonT(60), <1>1, <1>2 DEF Deliver, QueueOf

\* What the loop is at after a branch of select!, a send and a handler's start.
LEMMA LoopShapes ==
    /\ Selecting.at = "select" /\ Selecting.req = Frame(None)
    /\ \A f : /\ [Selecting EXCEPT !.at = "write", !.req = f].at = "write"
              /\ [Selecting EXCEPT !.at = "write", !.req = f].req = f
    /\ \A n : /\ [Selecting EXCEPT !.at = "handler", !.left = n].at = "handler"
              /\ [Selecting EXCEPT !.at = "handler", !.left = n].req = Frame(None)
    BY Zenon DEF Selecting

\* The loop takes frames off the wire and puts none there.
LEMMA LoopKnown ==
    ASSUME PingsAreKnown, conn'.phase \notin BeforeLoop, ponged' = ponged,
           Items(up') \cup Items(inbound') \subseteq Items(up) \cup Items(inbound),
           loop'.at # "write" => loop'.req = Frame(None)
    PROVE  PingsAreKnown'
    BY Zenon DEF PingsAreKnown, BeforeLoop

\* A loop that is at select! holds no ping.
LEMMA SelectHoldsNone ==
    ASSUME PingsAreKnown, loop.at # "write"
    PROVE  \A c : loop.req # Ping(c)
    BY DEF PingsAreKnown, Frame, Ping, None

\* Pings and pongs stay matched.
LEMMA PingsStep ==
    ASSUME TypeOK, PingsAreKnown, PingsAreMatched, Next
    PROVE  PingsAreKnown' /\ PingsAreMatched'
<1> USE DEF net, queues, tasks, users
<1>0. conn \in Conns /\ loop \in Loops /\ pending \in Clients \cup {None} /\ client \in [Clients -> Seen]
        /\ ponged \subseteq Clients /\ None \notin Clients
    BY TypedTasks, PipelineAssumption
<1>q. \A f \in Items(<<>>) : FALSE
    BY Zenon, ShortQueues
<1>s. \A x : Items(<<x>>) = {x}
    BY DEF Items
<1>f. \A k : Frame(k).k = k
    BY Zenon DEF Frame
<1>l. loop.at # "write" => loop.req = Frame(None)
    BY Zenon DEF PingsAreKnown
<1>1. CASE OtherConnection
    <2>1. Quiet
        BY <1>1, <1>0, <1>q DEF OtherConnection, Quiet, BeforeLoop, Early, Conns
    <2> QED
        BY Zenon, <2>1, QuietStep
<1>2. CASE Accept
    <2>1. Quiet
        BY <1>2, <1>0, <1>q, <1>s, <1>f DEF Accept, Quiet, BeforeLoop, Early, Conns
    <2> QED
        BY Zenon, <2>1, QuietStep
<1>3. ASSUME NEW alpn \in {"control", "data", "none"}, Tls(alpn) PROVE PingsAreKnown' /\ PingsAreMatched'
    <2>1. Quiet
        BY <1>3, <1>0, <1>q DEF Tls, Fail, Release, Quiet, BeforeLoop, Early, Conns
    <2> QED
        BY Zenon, <2>1, QuietStep
<1>4. CASE DataEnds
    <2>1. Quiet
        BY <1>4, <1>0, <1>q DEF DataEnds, Fail, Release, Quiet, BeforeLoop, Early, Conns
    <2> QED
        BY Zenon, <2>1, QuietStep
<1>5. CASE HandshakeTimeout
    <2>1. Quiet
        BY SMTT(60), <1>5, <1>0, <1>q DEF HandshakeTimeout, Fail, Release, Spend, Quiet, BeforeLoop, Early, Conns
    <2> QED
        BY Zenon, <2>1, QuietStep
<1>6. CASE AcceptHello
    <2>1. \A f \in Items(up') : f \in Items(up)
        BY <1>6, TypedQueues DEF AcceptHello, QueueOf
    <2>2. Quiet
        BY <1>6, <1>0, <2>1 DEF AcceptHello, Fail, Quiet, BeforeLoop, Early, Conns
    <2> QED
        BY Zenon, <2>2, QuietStep
<1>7. ASSUME NEW o \in {"stored", "declined", "unwritten"}, AcceptPairing(o) PROVE PingsAreKnown' /\ PingsAreMatched'
    <2>1. \A f \in Items(up') : f \in Items(up)
        BY <1>7, TypedQueues DEF AcceptPairing, QueueOf
    <2>2. Quiet
        BY <1>7, <1>0, <2>1 DEF AcceptPairing, Fail, Quiet, BeforeLoop, Early, Conns
    <2> QED
        BY Zenon, <2>2, QuietStep
<1>8. CASE Start
    <2>1. PingsAreKnown'
        BY <1>8, <1>0, <1>q DEF Start, Frame, PingsAreKnown, BeforeLoop, Early, Conns
    <2>2. PingsAreMatched'
        BY SMTT(60), <1>8, <1>0, <1>q DEF Start, Frame, PingsAreKnown, PingsAreMatched, Early, Conns, Seen
    <2> QED
        BY <2>1, <2>2
<1>9. CASE Reader
    <2>1. QueueOf(up, Frames(FromPhone)) /\ QueueOf(inbound, Frames(FromPhone \cup {"eof"}))
        BY Zenon, TypedQueues
    <2>2. \A f \in Items(up') \cup Items(inbound') : f \in Items(up) \cup Items(inbound) \/ f.k = "eof"
        <3>1. CASE up # <<>> /\ inbound' = Append(inbound, Head(up)) /\ up' = Tail(up)
            <4>1. Head(up) \in Frames(FromPhone \cup {"eof"})
                BY Zenon, <2>1, <3>1, FramesFit DEF QueueOf
            <4> QED
                BY ZenonT(60), <2>1, <3>1, <4>1 DEF QueueOf
        <3>2. CASE inbound' = <<Frame("eof")>> /\ up' = up
            BY SMTT(60), <3>2, <1>s, <1>f
        <3> QED
            BY SMTT(60), <1>9, <3>1, <3>2 DEF Reader
    <2>3. Quiet
        BY Zenon, <1>9, <2>2 DEF Reader, Quiet
    <2> QED
        BY Zenon, <2>3, QuietStep
<1>10. CASE Writer
    <2>1. Quiet
        BY SMTT(60), <1>10, <1>0, <1>q DEF Writer, Quiet, BeforeLoop, Early, Conns
    <2> QED
        BY Zenon, <2>1, QuietStep
<1>11. CASE WriterFails
    <2>1. Quiet
        BY <1>11, <1>0, <1>q DEF WriterFails, Frame, Quiet, BeforeLoop, Early, Conns
    <2> QED
        BY Zenon, <2>1, QuietStep
<1>12. CASE LoopInbound
    <2>0. conn.phase = "loop" /\ conn'.phase \in {"loop", "leaving"} /\ conn'.phase \notin BeforeLoop
        BY <1>12, <1>0 DEF LoopInbound, AtSelect, End, Conns, BeforeLoop, Early
    <2> DEFINE f == Head(inbound)
    <2>1. Items(inbound) = Items(inbound') \cup {f}
        BY SMTT(60), <1>12, TypedQueues DEF LoopInbound, QueueOf
    <2>2. \/ loop' = loop
          \/ loop' = [Selecting EXCEPT !.at = "write", !.req = Frame("reply")]
          \/ \E n : loop' = [Selecting EXCEPT !.at = "handler", !.left = n]
        BY Zenon, <1>12 DEF LoopInbound, Send
    <2>3. loop'.at # "write" => loop'.req = Frame(None)
        <3>1. CASE \E n : loop' = [Selecting EXCEPT !.at = "handler", !.left = n]
            <4> PICK n : loop' = [Selecting EXCEPT !.at = "handler", !.left = n]
                BY <3>1
            <4> QED
                BY Zenon, LoopShapes
        <3>2. CASE loop' = [Selecting EXCEPT !.at = "write", !.req = Frame("reply")]
            BY <3>2, LoopShapes
        <3> QED
            BY Zenon, <1>l, <2>2, <3>1, <3>2
    <2>4. PingsAreKnown'
        BY <1>12, <2>0, <2>1, <2>3, LoopKnown DEF LoopInbound
    <2>5. \A c : loop.req # Ping(c)
        BY <1>12, SelectHoldsNone DEF LoopInbound, AtSelect
    <2>6. \/ UNCHANGED <<pending, client>>
          \/ /\ pending # None /\ f.k = "pong" /\ f.id = pending /\ pending' = None
             /\ client' = [client EXCEPT ![pending] = IF @ = "waiting" THEN "answered" ELSE @]
        BY Zenon, <1>12 DEF LoopInbound, Matches, PutBack
    <2>7. UNCHANGED <<cmds, ponged>>
        BY Zenon, <1>12 DEF LoopInbound
    <2>8. f.k = "pong" /\ f.id \in Clients => f.id \in ponged
        BY Zenon, <2>1 DEF PingsAreKnown
    <2> HIDE DEF f
    <2>9. PingsAreMatched'
        <3>1. CASE UNCHANGED <<pending, client>>
            BY Zenon, <2>0, <2>5, <2>7, <3>1 DEF PingsAreMatched, Ping
        <3>2. CASE /\ pending # None /\ f.k = "pong" /\ f.id = pending /\ pending' = None
                   /\ client' = [client EXCEPT ![pending] = IF @ = "waiting" THEN "answered" ELSE @]
            <4>1. pending \in Clients /\ pending \in ponged
                BY Zenon, <1>0, <2>8, <3>2
            <4>2. \A c \in Clients : client'[c] = IF c = pending /\ client[c] = "waiting" THEN "answered" ELSE client[c]
                BY Zenon, <1>0, <3>2, <4>1
            <4> QED
                BY Zenon, <2>0, <2>5, <2>7, <4>1, <4>2 DEF PingsAreMatched, Ping
        <3> QED
            BY Zenon, <2>6, <3>1, <3>2
    <2> QED
        BY Zenon, <2>4, <2>9
<1>13. CASE LoopWrite
    <2>0. conn.phase = "loop" /\ conn'.phase \in {"loop", "leaving"} /\ conn'.phase \notin BeforeLoop
        BY Zenon, <1>13, <1>0 DEF LoopWrite, AtSelect, End, Conns, BeforeLoop, Early
    <2> DEFINE who == IF loop.req.k = "ping" /\ loop.req.id \in Clients THEN loop.req.id ELSE None
    <2>1. loop' = Selecting /\ UNCHANGED <<up, inbound, cmds, ponged>>
        BY Zenon, <1>13 DEF LoopWrite
    <2>2. PingsAreKnown'
        BY Zenon, <2>0, <2>1, LoopShapes, LoopKnown
    <2>3. \A c \in Clients : loop.req = Ping(c) => who = c
        BY DEF Ping
    <2>4. \/ conn'.phase = "leaving" /\ UNCHANGED <<pending, client>>
          \/ /\ pending' = IF who # None THEN who ELSE pending
             /\ client' = IF who # None /\ pending # None
                          THEN [client EXCEPT ![pending] = IF @ = "waiting" THEN "unanswered" ELSE @]
                          ELSE client
        BY Zenon, <1>13, <1>0 DEF LoopWrite, End, Conns
    <2> HIDE DEF who
    <2>5. \A c \in Clients : client[c] = "waiting" => Ping(c) \in Items(cmds) \/ who = c \/ pending = c
        BY Zenon, <2>0, <2>3 DEF PingsAreMatched
    <2>6. PingsAreMatched'
        <3>1. CASE conn'.phase = "leaving" /\ UNCHANGED <<pending, client>>
            BY SMTT(60), <2>1, <3>1 DEF PingsAreMatched
        <3>2. CASE /\ pending' = IF who # None THEN who ELSE pending
                   /\ client' = IF who # None /\ pending # None
                                THEN [client EXCEPT ![pending] = IF @ = "waiting" THEN "unanswered" ELSE @]
                                ELSE client
            <4>1. \A c \in Clients :
                    client'[c] = IF who # None /\ c = pending /\ client[c] = "waiting" THEN "unanswered" ELSE client[c]
                BY Zenon, <1>0, <3>2
            <4> QED
                BY Zenon, <1>0, <2>1, <2>5, <3>2, <4>1 DEF PingsAreMatched, Ping
        <3> QED
            BY Zenon, <2>4, <3>1, <3>2
    <2> QED
        BY Zenon, <2>2, <2>6
<1>14. CASE LoopHandler
    <2>0. conn.phase = "loop" /\ conn'.phase \in {"loop", "leaving"} /\ conn'.phase \notin BeforeLoop
        BY Zenon, <1>14, <1>0 DEF LoopHandler, AtSelect, End, Conns, BeforeLoop, Early
    <2>1. loop.req = Frame(None) /\ loop'.at # "write" /\ loop'.req = loop.req
        BY Zenon, <1>14, <1>0, LoopShapes DEF LoopHandler, PingsAreKnown, Loops
    <2>2. PingsAreKnown'
        BY Zenon, <1>14, <2>0, <2>1, LoopKnown DEF LoopHandler
    <2>3. PingsAreMatched'
        BY Zenon, <1>14, <2>1 DEF LoopHandler, PingsAreMatched, Ping
    <2> QED
        BY Zenon, <2>2, <2>3
<1>15. CASE LoopCommand
    <2>0. conn.phase = "loop" /\ conn'.phase \in {"loop", "leaving"} /\ conn'.phase \notin BeforeLoop
        BY Zenon, <1>15, <1>0 DEF LoopCommand, AtSelect, End, Conns, BeforeLoop, Early
    <2>1. /\ Items(cmds) = Items(cmds') \cup {Head(cmds)}
          /\ \/ conn'.phase = "leaving" /\ loop' = loop
             \/ loop' = [Selecting EXCEPT !.at = "write", !.req = Head(cmds)]
        BY Zenon, <1>15, <1>0, TypedQueues DEF LoopCommand, Send, End, QueueOf, Conns
    <2>2. loop'.at # "write" => loop'.req = Frame(None)
        BY ZenonT(60), <1>l, <2>1, LoopShapes
    <2>3. PingsAreKnown'
        BY Zenon, <1>15, <2>0, <2>2, LoopKnown DEF LoopCommand
    <2>4. \A c : loop.req # Ping(c)
        BY Zenon, <1>15, SelectHoldsNone DEF LoopCommand, AtSelect
    <2>5. conn'.phase = "leaving" \/ loop'.req = Head(cmds)
        BY Zenon, <2>1, LoopShapes
    <2>6. UNCHANGED <<client, pending, ponged>>
        BY Zenon, <1>15 DEF LoopCommand
    <2>7. PingsAreMatched'
        BY Zenon, <2>0, <2>1, <2>4, <2>5, <2>6 DEF PingsAreMatched, Ping
    <2> QED
        BY Zenon, <2>3, <2>7
<1>16. CASE LoopWriterGone
    <2>1. Quiet
        BY Zenon, <1>16, <1>0, <1>q DEF LoopWriterGone, AtSelect, End, Quiet, BeforeLoop, Early, Conns
    <2> QED
        BY Zenon, <2>1, QuietStep
<1>17. CASE LoopTick
    <2>0. conn.phase = "loop" /\ conn'.phase \in {"loop", "leaving"} /\ conn'.phase \notin BeforeLoop
        BY Zenon, <1>17, <1>0 DEF LoopTick, AtSelect, End, Conns, BeforeLoop, Early
    <2>1. loop' = loop \/ loop' = [Selecting EXCEPT !.at = "write", !.req = Ping("probe")]
        BY Zenon, <1>17 DEF LoopTick, Send
    <2>2. loop'.at # "write" => loop'.req = Frame(None)
        BY ZenonT(60), <1>l, <2>1, LoopShapes
    <2>3. PingsAreKnown'
        BY Zenon, <1>17, <2>0, <2>2, LoopKnown DEF LoopTick
    <2>4. \A c : loop.req # Ping(c)
        BY Zenon, <1>17, SelectHoldsNone DEF LoopTick, AtSelect
    <2>5. PingsAreMatched'
        BY Zenon, <1>17, <2>0, <2>4 DEF LoopTick, PingsAreMatched, Ping
    <2> QED
        BY Zenon, <2>3, <2>5
<1>18. CASE Leave
    <2>1. Quiet
        BY Zenon, <1>18, <1>0, <1>q DEF Leave, Quiet, BeforeLoop, Early, Conns
    <2> QED
        BY Zenon, <2>1, QuietStep
<1>19. CASE Close
    <2>1. PingsAreKnown'
        BY Zenon, <1>19, <1>0, <1>q DEF Close, Release, Frame, PingsAreKnown, BeforeLoop, Early, Conns
    <2>2. PingsAreMatched'
        BY Zenon, <1>19, <1>0, <1>q DEF Close, Release, Frame, PingsAreKnown, PingsAreMatched, Early, Conns, Seen
    <2> QED
        BY Zenon, <2>1, <2>2
<1>20. CASE ConnectAck
    <2>1. \A f \in Items(up') : f \in Items(up) \/ f.k = "proof"
        <3>1. Frame("proof") \in Frames(FromPhone)
            BY Zenon, FramesFit DEF FromPhone
        <3>2. up' = up \/ up' = Append(up, Frame("proof"))
            BY Zenon, <1>20 DEF ConnectAck
        <3>3. QueueOf(up, Frames(FromPhone))
            BY Zenon, TypedQueues
        <3> QED
            BY Zenon, <3>1, <3>2, <3>3, <1>f DEF QueueOf
    <2>2. Quiet
        BY Zenon, <1>20, <2>1 DEF ConnectAck, Quiet
    <2> QED
        BY Zenon, <2>2, QuietStep
<1>21. CASE ConnectPaired
    <2>1. Quiet
        BY Zenon, <1>21, <1>0, <1>q DEF ConnectPaired, Up, NoOffer, Quiet, BeforeLoop, Early, Conns
    <2> QED
        BY Zenon, <2>1, QuietStep
<1>22. CASE PhoneReads
    <2>1. CASE Head(down).k = "ping"
        <3> DEFINE f == [Head(down) EXCEPT !.k = "pong"]
        <3>1. f \in Frames(FromPhone)
            BY Zenon, <1>22, <2>1, TypedQueues, FramesFit DEF PhoneReads, QueueOf
        <3>2. f.id \in Clients => f.id \in ponged'
            <4>1. f.id = Head(down).id
                BY Zenon, <1>22, <2>1, TypedQueues DEF PhoneReads, QueueOf, Frames, Answers, Acks, Refusals
            <4> QED
                BY Zenon, <1>22, <2>1, <4>1 DEF PhoneReads
        <3>3. \A g \in Items(up') \cup Items(inbound') : g \in Items(up) \cup Items(inbound) \cup {f}
            BY Zenon, <1>22, <2>1, <3>1, DeliverEffect DEF PhoneReads
        <3> HIDE DEF f
        <3>4. Quiet
            BY Zenon, <1>22, <2>1, <3>2, <3>3 DEF PhoneReads, Quiet
        <3> QED
            BY Zenon, <3>4, QuietStep
    <2>2. CASE Head(down).k # "ping"
        <3>1. Quiet
            BY Zenon, <1>22, <2>2 DEF PhoneReads, Quiet
        <3> QED
            BY Zenon, <3>1, QuietStep
    <2> QED
        BY Zenon, <2>1, <2>2
<1>23. CASE PhoneSeesClose
    <2>1. Quiet
        BY Zenon, <1>23, <1>0, <1>q DEF PhoneSeesClose, Quiet, BeforeLoop, Early, Conns
    <2> QED
        BY Zenon, <2>1, QuietStep
<1>24. ASSUME NEW k \in Sent, PhoneSends(k) PROVE PingsAreKnown' /\ PingsAreMatched'
    <2>1. Frame(k) \in Frames(FromPhone) /\ Frame(k).k # "pong"
        BY Zenon, FramesFit, <1>f DEF FromPhone, Sent
    <2>2. \A g \in Items(up') \cup Items(inbound') : g \in Items(up) \cup Items(inbound) \cup {Frame(k)}
        BY Zenon, <1>24, <2>1, DeliverEffect DEF PhoneSends
    <2>3. Quiet
        BY Zenon, <1>24, <2>1, <2>2 DEF PhoneSends, Quiet
    <2> QED
        BY Zenon, <2>3, QuietStep
<1>25. CASE PhoneStalls
    <2>1. Quiet
        BY Zenon, <1>25, <1>0, <1>q DEF PhoneStalls, Spend, Quiet, BeforeLoop, Early, Conns
    <2> QED
        BY Zenon, <2>1, QuietStep
<1>26. CASE PhoneWakes
    <2>1. Quiet
        BY Zenon, <1>26, <1>0, <1>q DEF PhoneWakes, Quiet, BeforeLoop, Early, Conns
    <2> QED
        BY Zenon, <2>1, QuietStep
<1>27. ASSUME NEW c \in Clients, PingQueued(c) PROVE PingsAreKnown' /\ PingsAreMatched'
    <2>1. \/ Items(cmds') = Items(cmds) \cup {Ping(c)} /\ client' = [client EXCEPT ![c] = "waiting"]
          \/ cmds' = cmds /\ client' = [client EXCEPT ![c] = "sending"]
        BY Zenon, <1>27, TypedQueues, FramesFit DEF PingQueued, QueueOf
    <2>2. UNCHANGED <<conn, up, inbound, loop, pending, ponged>> /\ conn.phase \notin BeforeLoop
        BY Zenon, <1>27 DEF PingQueued, Registered, BeforeLoop, Early
    <2>3. PingsAreKnown'
        BY Zenon, <2>2 DEF PingsAreKnown, BeforeLoop
    <2>4. PingsAreMatched'
        BY Zenon, <1>0, <2>1, <2>2 DEF PingsAreMatched, Ping
    <2> QED
        BY Zenon, <2>3, <2>4
<1>28. CASE StopQueued
    <2>1. Items(cmds) \subseteq Items(cmds')
        BY SMTT(60), <1>28, TypedQueues, FramesFit DEF StopQueued, QueueOf
    <2>2. Quiet
        BY Zenon, <1>28, <2>1 DEF StopQueued, Quiet
    <2> QED
        BY Zenon, <2>2, QuietStep
<1>29. ASSUME NEW c \in Clients, PingAsked(c) PROVE PingsAreKnown' /\ PingsAreMatched'
    <2>1. \/ Items(cmds') = Items(cmds) \cup {Ping(c)} /\ client' = [client EXCEPT ![c] = "waiting"]
          \/ cmds' = cmds /\ client' = [client EXCEPT ![c] = "sending"]
        BY Zenon, <1>29, TypedQueues, FramesFit DEF PingAsked, QueueOf
    <2>2. UNCHANGED <<conn, up, inbound, loop, pending, ponged>> /\ conn.phase \notin BeforeLoop
        BY Zenon, <1>29 DEF PingAsked, Registered, BeforeLoop, Early
    <2>3. PingsAreKnown'
        BY Zenon, <2>2 DEF PingsAreKnown, BeforeLoop
    <2>4. PingsAreMatched'
        BY Zenon, <1>0, <2>1, <2>2 DEF PingsAreMatched, Ping
    <2> QED
        BY Zenon, <2>3, <2>4
<1>30. ASSUME NEW c \in Clients, PingTimeout(c) PROVE PingsAreKnown' /\ PingsAreMatched'
    <2>1. PingsAreKnown'
        BY Zenon, <1>30, <1>0, <1>q DEF PingTimeout, Spend, PingsAreKnown, BeforeLoop, Early, Conns
    <2>2. PingsAreMatched'
        BY Zenon, <1>30, <1>0, <1>q DEF PingTimeout, Spend, PingsAreKnown, PingsAreMatched, Early, Conns, Seen
    <2> QED
        BY Zenon, <2>1, <2>2
<1>31. CASE StopAsked
    <2>1. Items(cmds) \subseteq Items(cmds')
        <3>1. QueueOf(cmds, Frames({"ping", "shutdown"})) /\ Frame("shutdown") \in Frames({"ping", "shutdown"})
            BY Zenon, TypedQueues, FramesFit
        <3>2. cmds' = cmds \/ cmds' = Append(cmds, Frame("shutdown"))
            BY Zenon, <1>31 DEF StopAsked
        <3> QED
            BY Zenon, <3>1, <3>2 DEF QueueOf
    <2>2. Quiet
        BY Zenon, <1>31, <2>1 DEF StopAsked, Quiet
    <2> QED
        BY Zenon, <2>2, QuietStep
<1> QED
    BY Zenon, <1>1, <1>2, <1>3, <1>4, <1>5, <1>6, <1>7, <1>8, <1>9, <1>10, <1>11, <1>12, <1>13, <1>14, <1>15, <1>16, <1>17, <1>18, <1>19, <1>20, <1>21, <1>22, <1>23, <1>24, <1>25, <1>26, <1>27, <1>28, <1>29, <1>30, <1>31
    DEF Next, Handshake, LoopStep, PhoneStep, HandleStep, Sent

\* At the start there is no connection and nothing is queued.
LEMMA StartInv ==
    Init => PipelineInv
<1> SUFFICES ASSUME Init PROVE PipelineInv
    BY Zenon
<1> USE DEF Init
<1>1. TypeOK
    <2>1. slots \in Permits /\ trust \in Trusts /\ conn \in Conns
        BY SMTT(60), PipelineAssumption DEF Permits, Trusts, Conns, Phases, Early
    <2>2. phone \in Phones
        <3> DEFINE Offers == [min : Nat, max : Nat]
        <3>1. PhoneVersions \subseteq Offers
            BY Zenon, PipelineAssumption
        <3> HIDE DEF Offers
        <3>2. phone \in [at : {"away"}, awake : {TRUE}, token : BOOLEAN, offers : PhoneVersions, version : {0}]
            BY Zenon
        <3>3. phone \in [at : {"away", "failed", "hello", "pairing", "up", "left", "lost"}, awake : BOOLEAN,
                         token : BOOLEAN, offers : Offers, version : Nat]
            <4> HIDE DEF Init
            <4>1. PICK a \in {"away"}, w \in {TRUE}, t \in BOOLEAN, o \in PhoneVersions, v \in {0} :
                    phone = [at |-> a, awake |-> w, token |-> t, offers |-> o, version |-> v]
                BY Zenon, <3>2
            <4>2. o \in Offers /\ v \in Nat /\ a \in {"away", "failed", "hello", "pairing", "up", "left", "lost"}
                BY <3>1
            <4> QED
                BY Zenon, <4>1, <4>2
        <3> QED
            BY Zenon, <3>3 DEF Phones, Offers
    <2>3. loop \in Loops /\ loop.at = "select" /\ writer \in Frames({"idle", "failed"})
        BY Zenon, LoopsFit, FramesFit
    <2>4. /\ pending \in Clients \cup {None} /\ client \in [Clients -> Seen] /\ silent \in 0 .. DeadAfter
          /\ budget \in Budgets
        BY SMTT(60), PipelineAssumption DEF Seen, DeadAfter, Budgets
    <2> QED
        BY Zenon, <2>1, <2>2, <2>3, <2>4, ShortQueues DEF TypeOK
<1>2. PermitsAddUp
    BY SMTT(60), PipelineAssumption DEF PermitsAddUp
<1>3. AnswersAreTrue /\ EndsAgree
    BY Zenon, ShortQueues DEF AnswersAreTrue, EndsAgree
<1>4. PingsAreKnown /\ PingsAreMatched
    BY Zenon, ShortQueues, LoopShapes DEF PingsAreKnown, PingsAreMatched
<1> QED
    BY Zenon, <1>1, <1>2, <1>3, <1>4 DEF PipelineInv

\* Stuttering changes nothing the invariant reads.
LEMMA StutterInv ==
    PipelineInv /\ UNCHANGED vars => PipelineInv'
<1> SUFFICES ASSUME PipelineInv, UNCHANGED vars PROVE PipelineInv'
    BY Zenon
<1> USE DEF PipelineInv, vars, net, queues, tasks, users
<1>1. TypeOK'
    BY Zenon DEF TypeOK
<1>2. PermitsAddUp' /\ AnswersAreTrue' /\ EndsAgree'
    BY Zenon DEF PermitsAddUp, AnswersAreTrue, EndsAgree
<1>3. PingsAreKnown' /\ PingsAreMatched'
    BY Zenon DEF PingsAreKnown, PingsAreMatched
<1> QED
    BY Zenon, <1>1, <1>2, <1>3

\* The invariant holds in every state of a connection, from accept to close.
THEOREM PipelineInvariant ==
    Spec => []PipelineInv
<1>1. PipelineInv /\ Next => PipelineInv'
    BY Zenon, TypedStep, PermitsStep, AnswersStep, PingsStep DEF PipelineInv
<1> QED
    BY StartInv, StutterInv, <1>1, PTL DEF Spec

\* A phone that counts itself as paired is stored by the desktop, and both ends
\* speak the version they agreed on (accept_handshake, connect_handshake).
THEOREM EndsAlwaysAgree ==
    Spec => []EndsAgree
<1>1. PipelineInv => EndsAgree
    BY Zenon DEF PipelineInv
<1> QED
    BY PipelineInvariant, <1>1, PTL

\* A ping is reported as answered only when it was, and no client waits for an
\* answer that nobody will pass on (pending_ping, the loop of run_session).
THEOREM PingsAlwaysMatched ==
    Spec => []PingsAreMatched
<1>1. PipelineInv => PingsAreMatched
    BY Zenon DEF PipelineInv
<1> QED
    BY PipelineInvariant, <1>1, PTL

\* No permit is lost and none is made up (accept_loop, _permit).
THEOREM PermitsAlwaysAddUp ==
    Spec => []PermitsAddUp
<1>1. PipelineInv => PermitsAddUp
    BY Zenon DEF PipelineInv
<1> QED
    BY PipelineInvariant, <1>1, PTL

==============================================================================
