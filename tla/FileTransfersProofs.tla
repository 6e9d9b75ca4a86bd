------------------------- MODULE FileTransfersProofs -------------------------
(***************************************************************************)
(* FileTransfers for any number of transfers: what a write to a record, a   *)
(* stream or a queue does and what makes a step a good one; TransfersInv is *)
(* kept by every step, every step of the two managers is a step of the     *)
(* promise or leaves it alone, and the safety properties follow.           *)
(***************************************************************************)
EXTENDS FileTransfers, TLAPS

\* The other end of the other end is this end.
LEMMA NodesPair ==
    \A n \in Nodes : Other(n) \in Nodes /\ Other(n) # n /\ Other(Other(n)) = n
BY Zenon DEF Nodes, Other

\* Sender and receiver of a transfer are the two ends.
LEMMA Ends ==
    ASSUME TypeOK, NEW t \in Transfers
    PROVE  /\ Sender(t) \in Nodes /\ Receiver(t) \in Nodes
           /\ Sender(t) # Receiver(t)
           /\ Other(Sender(t)) = Receiver(t) /\ Other(Receiver(t)) = Sender(t)
           /\ \A n \in Nodes : n # Sender(t) => n = Receiver(t)
<1>1. from[t] \in Nodes
  BY Zenon DEF TypeOK
<1> QED BY Zenon, <1>1 DEF Sender, Receiver, Other, Nodes

-----------------------------------------------------------------------------
(* Writes to the records.                                                  *)

Records == [Nodes -> [Transfers -> Record]]

\* g is f except at n and t, where it is v.
Put(f, g, n, t, v) ==
    /\ g[n][t] = v
    /\ \A m \in Nodes, u \in Transfers : m # n \/ u # t => g[m][u] = f[m][u]

\* The record of t at n gets the state st and the partial file's mark temp.
Writes(n, t, st, temp) ==
    /\ rec' \in Records
    /\ \A m \in Nodes, u \in Transfers : m # n \/ u # t => rec'[m][u] = rec[m][u]
    /\ rec'[n][t].st = st /\ rec'[n][t].temp = temp

\* A whole record is written at one place only.
LEMMA WriteRecord ==
    ASSUME TypeOK, NEW n \in Nodes, NEW t \in Transfers, NEW r \in Record,
           rec' = [rec EXCEPT ![n][t] = r]
    PROVE  Writes(n, t, r.st, r.temp)
<1>1. rec \in [Nodes -> [Transfers -> Record]]
  BY Zenon DEF TypeOK
<1>2. rec' \in [Nodes -> [Transfers -> Record]] /\ Put(rec, rec', n, t, r)
  BY Zenon, <1>1 DEF Put
<1> QED BY Zenon, <1>2 DEF Writes, Put, Records

\* A transfer has a record at each end.
LEMMA RecordTyped ==
    ASSUME TypeOK, NEW n \in Nodes, NEW t \in Transfers
    PROVE  rec \in Records /\ rec[n][t] \in Record
<1>1. rec \in Records
  BY Zenon DEF TypeOK, Records
<1> QED BY Zenon, <1>1 DEF Records

\* Writing the state of a record leaves its partial file alone.
LEMMA WriteState ==
    ASSUME TypeOK, NEW n \in Nodes, NEW t \in Transfers,
           NEW st \in {"none", "offered", "waiting", "transferring", "verifying"} \cup Terminal,
           NEW chal \in BOOLEAN,
           rec' = [rec EXCEPT ![n][t].st = st, ![n][t].chal = chal]
    PROVE  Writes(n, t, st, rec[n][t].temp)
<1> DEFINE r == [rec[n][t] EXCEPT !.st = st, !.chal = chal]
<1>1. r \in Record /\ r.st = st /\ r.temp = rec[n][t].temp
  BY ZenonT(60), RecordTyped DEF Record
<1>2. rec' = [rec EXCEPT ![n][t] = r]
  BY Zenon, RecordTyped DEF Records, Record
<1> HIDE DEF r
<1> QED BY Zenon, <1>1, <1>2, WriteRecord

\* Writing the partial file of a record leaves its state alone.
LEMMA WriteTemp ==
    ASSUME TypeOK, NEW n \in Nodes, NEW t \in Transfers, NEW temp \in BOOLEAN,
           \/ rec' = [rec EXCEPT ![n][t].temp = temp]
           \/ \E chal \in BOOLEAN : rec' = [rec EXCEPT ![n][t].temp = temp, ![n][t].chal = chal]
    PROVE  Writes(n, t, rec[n][t].st, temp)
<1>0. rec \in Records /\ rec[n][t] \in Record
  BY Zenon, RecordTyped
<1>1. CASE rec' = [rec EXCEPT ![n][t].temp = temp]
  <2> DEFINE r == [rec[n][t] EXCEPT !.temp = temp]
  <2>1. r \in Record /\ r.st = rec[n][t].st /\ r.temp = temp
    BY Zenon, <1>0 DEF Record
  <2>2. rec' = [rec EXCEPT ![n][t] = r]
    BY Zenon, <1>0, <1>1 DEF Records, Record
  <2> HIDE DEF r
  <2> QED BY Zenon, <2>1, <2>2, WriteRecord
<1>2. ASSUME NEW chal \in BOOLEAN,
             rec' = [rec EXCEPT ![n][t].temp = temp, ![n][t].chal = chal]
      PROVE  Writes(n, t, rec[n][t].st, temp)
  <2> DEFINE r == [rec[n][t] EXCEPT !.temp = temp, !.chal = chal]
  <2>1. r \in Record /\ r.st = rec[n][t].st /\ r.temp = temp
    BY Zenon, <1>0 DEF Record
  <2>2. rec' = [rec EXCEPT ![n][t] = r]
    BY ZenonT(60), <1>0, <1>2 DEF Records, Record
  <2> HIDE DEF r
  <2> QED BY Zenon, <2>1, <2>2, WriteRecord
<1> QED BY Zenon, <1>1, <1>2

\* Writing the challenge or stream_active leaves both alone.
LEMMA WriteFlags ==
    ASSUME TypeOK, NEW n \in Nodes, NEW t \in Transfers, NEW chal \in BOOLEAN, NEW active \in BOOLEAN,
           \/ rec' = [rec EXCEPT ![n][t].chal = chal]
           \/ rec' = [rec EXCEPT ![n][t].active = active]
           \/ rec' = [rec EXCEPT ![n][t].chal = chal, ![n][t].active = active]
    PROVE  Writes(n, t, rec[n][t].st, rec[n][t].temp)
<1> DEFINE r == rec[n][t]
           r1 == [r EXCEPT !.chal = chal]
           r2 == [r EXCEPT !.active = active]
           r3 == [r EXCEPT !.chal = chal, !.active = active]
<1>0. rec \in Records /\ r \in Record
  BY Zenon, RecordTyped
<1>1. /\ r1 \in Record /\ r1.st = r.st /\ r1.temp = r.temp
      /\ r2 \in Record /\ r2.st = r.st /\ r2.temp = r.temp
      /\ r3 \in Record /\ r3.st = r.st /\ r3.temp = r.temp
  BY ZenonT(60), <1>0 DEF Record
<1>2. \/ rec' = [rec EXCEPT ![n][t] = r1]
      \/ rec' = [rec EXCEPT ![n][t] = r2]
      \/ rec' = [rec EXCEPT ![n][t] = r3]
  BY SMTT(60), <1>0 DEF Records, Record
<1> HIDE DEF r1, r2, r3
<1> QED BY Zenon, <1>1, <1>2, WriteRecord

\* A receiver that completes has no partial file on record any more.
LEMMA WriteCompleted ==
    ASSUME TypeOK, NEW n \in Nodes, NEW t \in Transfers,
           rec' = [rec EXCEPT ![n][t].temp = FALSE, ![n][t].st = "completed", ![n][t].chal = FALSE]
    PROVE  Writes(n, t, "completed", FALSE)
<1> DEFINE r == [rec[n][t] EXCEPT !.temp = FALSE, !.st = "completed", !.chal = FALSE]
<1>1. r \in Record /\ r.st = "completed" /\ r.temp = FALSE
  BY ZenonT(60), RecordTyped DEF Record, Terminal
<1>2. rec' = [rec EXCEPT ![n][t] = r]
  BY ZenonT(60), RecordTyped DEF Records, Record
<1> HIDE DEF r
<1> QED BY ZenonT(60), <1>1, <1>2, WriteRecord

-----------------------------------------------------------------------------
(* Writes to the streams and to what is left to clean, and transitions.    *)

\* The stream of t at n is now at x.
RunsTo(n, t, x) ==
    /\ run' \in [Nodes -> [Transfers -> Stream]]
    /\ \A m \in Nodes, u \in Transfers : m # n \/ u # t => run'[m][u] = run[m][u]
    /\ run'[n][t].at = x

\* A data stream is written at one place only.
LEMMA WriteStream ==
    ASSUME TypeOK, NEW n \in Nodes, NEW t \in Transfers, NEW r \in Stream,
           run' = [run EXCEPT ![n][t] = r]
    PROVE  RunsTo(n, t, r.at)
<1>1. run \in [Nodes -> [Transfers -> Stream]]
  BY Zenon DEF TypeOK
<1>2. run' \in [Nodes -> [Transfers -> Stream]] /\ Put(run, run', n, t, r)
  BY Zenon, <1>1 DEF Put
<1> QED BY Zenon, <1>2 DEF RunsTo, Put

\* A data stream that goes on to a step does so at one place only.
LEMMA RunsWrites ==
    ASSUME TypeOK, NEW n \in Nodes, NEW t \in Transfers,
           NEW x \in {"ready", "unready", "plan", "got", "verify", "promote", "stored", "tell", "done"},
           Runs(n, t, x)
    PROVE  RunsTo(n, t, x)
<1> DEFINE r == [at |-> x, deaf |-> FALSE, res |-> None]
<1>1. r \in Stream /\ r.at = x
  BY Zenon DEF Stream
<1>2. run' = [run EXCEPT ![n][t] = r]
  BY Zenon DEF Runs
<1> HIDE DEF r
<1> QED BY Zenon, <1>1, <1>2, WriteStream

\* What is left to do for t at n is one of x, the rest is as it was.
Marks(n, t, x) ==
    /\ clean' \in [Nodes -> [Transfers -> {"no", "fail", "end", "tell", "done"}]]
    /\ \A m \in Nodes, u \in Transfers : m # n \/ u # t => clean'[m][u] = clean[m][u]
    /\ clean'[n][t] \in x

\* What is left to clean up is written at one place only.
LEMMA WriteMark ==
    ASSUME TypeOK, NEW n \in Nodes, NEW t \in Transfers, NEW v \in {"no", "fail", "end", "tell", "done"},
           clean' = [clean EXCEPT ![n][t] = v]
    PROVE  Marks(n, t, {v})
<1>1. clean \in [Nodes -> [Transfers -> {"no", "fail", "end", "tell", "done"}]]
  BY Zenon DEF TypeOK
<1>2. /\ clean' \in [Nodes -> [Transfers -> {"no", "fail", "end", "tell", "done"}]]
      /\ Put(clean, clean', n, t, v)
  BY <1>1 DEF Put
<1> QED BY <1>2 DEF Marks, Put

\* The record of t at n moves to next.
Moves(n, t, next) ==
    /\ CanTransition(rec[n][t].st, next)
    /\ Writes(n, t, next, rec[n][t].temp)
    /\ Marks(n, t, IF next \in Terminal THEN {"fail", "end"} ELSE {clean[n][t]})

\* transition either moves the record along an edge of can_transition, and notes
\* what an end leaves to clean up, or it changes nothing.
LEMMA TransitionMoves ==
    ASSUME TypeOK, NEW n \in Nodes, NEW t \in Transfers,
           NEW next \in {"transferring", "verifying", "completed", "failed", "cancelled"},
           NEW tell \in BOOLEAN, Transition(n, t, next, tell)
    PROVE  \/ Moves(n, t, next)
           \/ ~ CanTransition(rec[n][t].st, next) /\ UNCHANGED <<rec, clean>>
<1> SUFFICES ASSUME CanTransition(rec[n][t].st, next)
             PROVE  Moves(n, t, next)
  BY Zenon DEF Transition
<1>1. rec[n][t].chal \in BOOLEAN
  BY Zenon, RecordTyped DEF Record
<1>2. Writes(n, t, next, rec[n][t].temp)
  <2> DEFINE chal == rec[n][t].chal /\ next \notin Terminal
  <2>1. rec' = [rec EXCEPT ![n][t].st = next, ![n][t].chal = chal]
    BY Zenon, RecordTyped DEF Transition, Records, Record
  <2>2. chal \in BOOLEAN
    BY Zenon
  <2>3. next \in {"none", "offered", "waiting", "transferring", "verifying"} \cup Terminal
    BY Zenon DEF Terminal
  <2> HIDE DEF chal
  <2> QED BY Zenon, <2>1, <2>2, <2>3, WriteState
<1>3. CASE next \in Terminal
  <2> DEFINE v == IF tell THEN "fail" ELSE "end"
  <2>1. clean' = [clean EXCEPT ![n][t] = v] /\ v \in {"fail", "end"}
    BY Zenon, <1>3 DEF Transition
  <2> HIDE DEF v
  <2>2. Marks(n, t, {v})
    BY Zenon, <2>1, WriteMark
  <2> QED BY <1>2, <1>3, <2>1, <2>2 DEF Moves, Marks
<1>4. CASE next \notin Terminal
  <2>1. clean' = clean
    BY Zenon, <1>4 DEF Transition
  <2> QED BY Zenon, <1>2, <1>4, <2>1 DEF Moves, Marks, TypeOK
<1> QED BY <1>3, <1>4

-----------------------------------------------------------------------------
(* What a step may do to one transfer.                                     *)

Kept(t) == Promised(t)!Next \/ UNCHANGED Promised(t)!vars

\* A step is good for t when it keeps what is known of t and the promise about
\* it; a receiver's record is not made on the way.
Good(t) ==
    /\ TransferHolds(t)'
    /\ Kept(t)
    /\ rec[Receiver(t)][t].st = "none" => rec'[Receiver(t)][t].st = "none"

\* The files of t stay as they are, and its tasks give up or begin.
Steady(t) ==
    /\ part'[t] = part[t] /\ final'[t] = final[t] /\ good'[t] = good[t]
    /\ \/ offer'[t].at \in {offer[t].at, "done"}
       \/ offer[t].at = "idle" /\ offer'[t].at = "hash"
    /\ \/ appr'[t] = appr[t]
       \/ appr[t] = "asking" /\ appr'[t] = "open"
       \/ appr[t] \in {"asking", "open", "accept"} /\ appr'[t] = "done"
    /\ run'[Receiver(t)][t].at
         \in {run[Receiver(t)][t].at, "none", "ready", "unready", "plan", "lost", "done"}

\* The records of t stay as they are, but for challenges and deadlines.
SameRecords(t) ==
    /\ rec'[Sender(t)][t].st = rec[Sender(t)][t].st
    /\ rec'[Receiver(t)][t].st = rec[Receiver(t)][t].st
    /\ rec'[Receiver(t)][t].temp = rec[Receiver(t)][t].temp
    /\ clean'[Receiver(t)][t] = clean[Receiver(t)][t]

\* A step that leaves the records and files of t alone is good for t.
LEMMA SteadyIsGood ==
    ASSUME TransfersInv, from' = from, NEW t \in Transfers, Steady(t), SameRecords(t)
    PROVE  Good(t)
<1>1. TransferHolds(t) /\ Sender(t)' = Sender(t) /\ Receiver(t)' = Receiver(t)
  BY Zenon DEF TransfersInv, Sender, Receiver
<1>2. Kept(t)
  BY Zenon, <1>1 DEF Kept, Promised!vars, Steady, SameRecords
<1>3. Directed(t)'
  BY Zenon, <1>1 DEF TransferHolds, Directed, Steady, SameRecords
<1>4. ApprovalFollows(t)'
  BY Zenon, <1>1 DEF TransferHolds, ApprovalFollows, Steady, SameRecords
<1>5. ReceivingFollows(t)'
  BY SMTT(60), <1>1 DEF TransferHolds, ReceivingFollows, Steady, SameRecords
<1>6. PartialFollows(t)'
  BY Zenon, <1>1 DEF TransferHolds, PartialFollows, Steady, SameRecords
<1> QED BY Zenon, <1>2, <1>3, <1>4, <1>5, <1>6 DEF Good, TransferHolds, SameRecords

\* So is one that ends t at one of its ends, at any time.
LEMMA EndIsGood ==
    ASSUME TransfersInv, from' = from, NEW t \in Transfers, NEW n \in Nodes, NEW next \in {"failed", "cancelled"},
           Moves(n, t, next), Steady(t)
    PROVE  Good(t)
<1>1. /\ TransferHolds(t) /\ Sender(t)' = Sender(t) /\ Receiver(t)' = Receiver(t)
      /\ TypeOK
  BY Zenon DEF TransfersInv, Sender, Receiver
<1>2. Sender(t) \in Nodes /\ Receiver(t) \in Nodes /\ Sender(t) # Receiver(t)
  BY Zenon, <1>1, Ends
<1>3. rec[n][t].st \notin Terminal \cup {"none"} /\ next \in Terminal
  BY Zenon DEF Moves, CanTransition, Terminal
<1>4. CASE n = Sender(t)
  <2>1. /\ rec'[n][t].st = next
        /\ rec'[Receiver(t)][t] = rec[Receiver(t)][t]
        /\ clean'[Receiver(t)][t] = clean[Receiver(t)][t]
    BY Zenon, <1>2, <1>4 DEF Moves, Writes, Marks
  <2>2. Kept(t)
    BY Zenon, <1>1, <1>3, <1>4, <2>1 DEF Kept, Promised!Next, Promised!GiveUp, Promised!Ended, Steady, Terminal
  <2>3. Directed(t)'
    BY Zenon, <1>1, <1>3, <1>4, <2>1 DEF TransferHolds, Directed, Steady
  <2>4. ApprovalFollows(t)'
    BY Zenon, <1>1, <2>1 DEF TransferHolds, ApprovalFollows, Steady
  <2>5. ReceivingFollows(t)'
    BY SMTT(60), <1>1, <2>1 DEF TransferHolds, ReceivingFollows, Steady
  <2>6. PartialFollows(t)'
    BY Zenon, <1>1, <2>1 DEF TransferHolds, PartialFollows, Steady
  <2> QED BY Zenon, <2>1, <2>2, <2>3, <2>4, <2>5, <2>6 DEF Good, TransferHolds
<1>5. CASE n = Receiver(t)
  <2>1. /\ rec'[n][t].st = next /\ rec'[n][t].temp = rec[n][t].temp
        /\ rec'[Sender(t)][t] = rec[Sender(t)][t]
        /\ clean'[n][t] \in {"fail", "end"}
    BY Zenon, <1>2, <1>3, <1>5 DEF Moves, Writes, Marks
  <2>2. Kept(t)
    BY SMTT(60), <1>1, <1>3, <1>5, <2>1 DEF Kept, Promised!Next, Promised!GiveUp, Promised!Ended, Steady, Terminal
  <2>3. Directed(t)'
    BY SMTT(60), <1>1, <1>3, <1>5, <2>1 DEF TransferHolds, Directed, Steady
  <2>4. ApprovalFollows(t)'
    BY Zenon, <1>1, <1>3, <1>5, <2>1 DEF TransferHolds, ApprovalFollows, Steady, Terminal
  <2>5. ReceivingFollows(t)'
    BY SMTT(60), <1>1, <1>3, <1>5, <2>1 DEF TransferHolds, ReceivingFollows, Steady, Terminal
  <2>6. PartialFollows(t)'
    BY Zenon, <1>1, <1>3, <1>5, <2>1 DEF TransferHolds, PartialFollows, Steady
  <2> QED BY Zenon, <1>3, <1>5, <2>1, <2>2, <2>3, <2>4, <2>5, <2>6 DEF Good, TransferHolds
<1> QED BY Zenon, <1>1, <1>4, <1>5, Ends

-----------------------------------------------------------------------------
(* Messages.                                                               *)

\* Every message is an old one, or says what is true.
NewsHolds ==
    \A n \in Nodes : \A i \in 1 .. Len(ctl'[n]) :
        \/ \E j \in 1 .. Len(ctl[n]) : ctl'[n][i] = ctl[n][j]
        \/ MessageHolds(n, ctl[n][i])'

\* What a message says stays true, whatever good steps follow.
LEMMA MessageStays ==
    ASSUME TypeOK, from' = from, \A u \in Transfers : Kept(u),
           NEW n \in Nodes, NEW m \in Message, MessageHolds(n, m)
    PROVE  MessageHolds(n, m)'
<1> DEFINE t == m.t
<1>1. t \in Transfers /\ Sender(t)' = Sender(t) /\ Receiver(t)' = Receiver(t)
  BY Zenon DEF Message, Sender, Receiver
<1>2. Kept(t)
  BY Zenon, <1>1
<1>3. /\ rec[Sender(t)][t].st # "none" => rec'[Sender(t)][t].st # "none"
      /\ rec[Receiver(t)][t].st \notin {"none", "waiting"} => rec'[Receiver(t)][t].st \notin {"none", "waiting"}
      /\ rec[Receiver(t)][t].st = "completed" => rec'[Receiver(t)][t].st = "completed"
  BY Zenon, <1>1, <1>2 DEF Kept, Promised!vars, Promised!Next, Promised!Offer, Promised!Arrive, Promised!Agree,
     Promised!Start, Promised!Check, Promised!Store, Promised!Receive, Promised!Confirm, Promised!GiveUp,
     Promised!Ended
<1> QED BY Zenon, <1>1, <1>3 DEF MessageHolds

\* The messages under way stay true if the new ones are.
LEMMA MessagesHold ==
    ASSUME TransfersInv, TypeOK', from' = from, \A u \in Transfers : Kept(u), NewsHolds
    PROVE  \A n \in Nodes : \A i \in 1 .. Len(ctl'[n]) : MessageHolds(n, ctl[n][i])'
<1> SUFFICES ASSUME NEW n \in Nodes, NEW i \in 1 .. Len(ctl'[n]),
                    NEW j \in 1 .. Len(ctl[n]), ctl'[n][i] = ctl[n][j]
             PROVE  MessageHolds(n, ctl[n][i])'
  BY Zenon DEF NewsHolds
<1>1. TypeOK /\ MessageHolds(n, ctl[n][j])
  BY Zenon DEF TransfersInv
<1>2. PICK m \in Message : m = ctl[n][j]
  <2>1. ctl[n] \in Seq(Message)
    BY Zenon, <1>1 DEF TypeOK
  <2> QED BY SMTT(60), <2>1
<1>3. MessageHolds(n, m)'
  BY Zenon, <1>1, <1>2, MessageStays
<1> QED BY Zenon, <1>2, <1>3 DEF MessageHolds

\* A step that is good for every transfer and brings true messages keeps the
\* invariant.
LEMMA GoodStep ==
    ASSUME TransfersInv, TypeOK', from' = from, taking' = taking,
           \A u \in Transfers : Good(u), NewsHolds
    PROVE  TransfersInv' /\ \A u \in Transfers : Kept(u)
<1>1. \A u \in Transfers : Kept(u) /\ TransferHolds(u)'
  BY Zenon DEF Good
<1>2. \A n \in Nodes : \A i \in 1 .. Len(ctl'[n]) : MessageHolds(n, ctl[n][i])'
  BY Zenon, <1>1, MessagesHold
<1>3. ASSUME NEW n \in Nodes PROVE TakingHolds(n)'
  <2> SUFFICES ASSUME taking[n] # None
               PROVE  TakingHolds(n)'
    BY Zenon DEF TakingHolds
  <2> DEFINE t == taking[n].t
  <2>1. TypeOK
    BY Zenon DEF TransfersInv
  <2>2. t \in Transfers
    <3>1. taking[n] \in [t : Transfers, sess : Nat] \cup {None}
      BY Zenon, <2>1 DEF TypeOK
    <3> QED BY Zenon, <3>1
  <2>3. n = Receiver(t) /\ rec[Sender(t)][t].st # "none" /\ rec[n][t].st = "none"
    BY Zenon DEF TransfersInv, TakingHolds
  <2>4. Receiver(t)' = Receiver(t) /\ Sender(t)' = Sender(t)
    BY Zenon DEF Receiver, Sender
  <2>5. rec'[n][t].st = "none"
    BY Zenon, <2>2, <2>3 DEF Good
  <2>6. rec'[Sender(t)][t].st # "none"
    <3> DEFINE m == [kind |-> "offer", t |-> t]
    <3>1. m \in Message /\ MessageHolds(n, m)
      BY Zenon, <2>2, <2>3 DEF Message, MessageHolds
    <3>2. MessageHolds(n, m)'
      BY Zenon, <1>1, <2>1, <3>1, MessageStays
    <3> QED BY Zenon, <2>4, <3>2 DEF MessageHolds
  <2> QED BY Zenon, <2>3, <2>4, <2>5, <2>6 DEF TakingHolds
<1> QED BY Zenon, <1>1, <1>2, <1>3 DEF TransfersInv

\* Queues: nothing happens, the first message is taken, another one arrives.
LEMMA Quiet ==
    ASSUME TypeOK, ctl' = ctl
    PROVE  NewsHolds
BY Zenon DEF NewsHolds

\* The queue of an end is a sequence of messages.
LEMMA QueueTyped ==
    ASSUME TypeOK, NEW n \in Nodes
    PROVE  ctl \in [Nodes -> Seq(Message)] /\ ctl[n] \in Seq(Message)
<1>1. ctl \in [Nodes -> Seq(Message)]
  BY Zenon DEF TypeOK
<1> QED BY Zenon, <1>1

\* Taking a message off its queue brings no news.
LEMMA PopNews ==
    ASSUME TypeOK, NEW n \in Nodes, ctl[n] # <<>>, Pops(n)
    PROVE  ctl' \in [Nodes -> Seq(Message)] /\ NewsHolds
<1>1. ctl' = [ctl EXCEPT ![n] = Tail(ctl[n])]
  BY Zenon DEF Pops
<1>2. Tail(ctl[n]) \in Seq(Message)
  BY QueueTyped
<1>3. ctl' \in [Nodes -> Seq(Message)]
  BY Zenon, <1>1, <1>2, QueueTyped
<1>4. \A i \in 1 .. Len(Tail(ctl[n])) : i + 1 \in 1 .. Len(ctl[n]) /\ Tail(ctl[n])[i] = ctl[n][i + 1]
  BY QueueTyped
<1>5. \A m \in Nodes : ctl'[m] = IF m = n THEN Tail(ctl[n]) ELSE ctl[m]
  BY Zenon, <1>1, QueueTyped
<1>6. NewsHolds
  <2> SUFFICES ASSUME NEW m \in Nodes, NEW i \in 1 .. Len(ctl'[m])
               PROVE  \E j \in 1 .. Len(ctl[m]) : ctl'[m][i] = ctl[m][j]
    BY Zenon DEF NewsHolds
  <2>1. CASE m = n
    <3>1. ctl'[m] = Tail(ctl[n])
      BY Zenon, <2>1, <1>5
    <3> QED BY Zenon, <2>1, <3>1, <1>4
  <2>2. CASE m # n
    <3>1. ctl'[m] = ctl[m]
      BY Zenon, <2>2, <1>5
    <3> QED BY Zenon, <3>1
  <2> QED BY Zenon, <2>1, <2>2
<1> QED BY Zenon, <1>3, <1>6

\* A queue q becomes r, and x may be appended to the queue of p.
LEMMA AppendNews ==
    ASSUME TypeOK, NEW p \in Nodes, NEW x \in Message, MessageHolds(p, x)',
           NEW q \in [Nodes -> Seq(Message)],
           \A m \in Nodes : \A i \in 1 .. Len(q[m]) : \E j \in 1 .. Len(ctl[m]) : q[m][i] = ctl[m][j],
           ctl' = [q EXCEPT ![p] = Append(q[p], x)]
    PROVE  ctl' \in [Nodes -> Seq(Message)] /\ NewsHolds
<1>1. q[p] \in Seq(Message) /\ Append(q[p], x) \in Seq(Message)
  BY SMTT(60)
<1>2. ctl' \in [Nodes -> Seq(Message)]
  BY Zenon, <1>1
<1>3. ctl'[p] = Append(q[p], x) /\ \A m \in Nodes : m # p => ctl'[m] = q[m]
  BY Zenon
<1>4. NewsHolds
  <2> SUFFICES ASSUME NEW m \in Nodes, NEW i \in 1 .. Len(ctl'[m])
               PROVE  \/ \E j \in 1 .. Len(ctl[m]) : ctl'[m][i] = ctl[m][j]
                      \/ MessageHolds(m, ctl[m][i])'
    BY Zenon DEF NewsHolds
  <2>1. CASE m # p
    BY Zenon, <2>1, <1>3
  <2>2. CASE m = p /\ i \in 1 .. Len(q[p])
    <3>1. ctl'[m][i] = q[m][i]
      BY <2>2, <1>1, <1>3
    <3>2. i \in 1 .. Len(q[m])
      BY Zenon, <2>2
    <3>3. \E j \in 1 .. Len(ctl[m]) : q[m][i] = ctl[m][j]
      BY Zenon, <3>2
    <3> QED BY Zenon, <3>1, <3>3
  <2>3. CASE m = p /\ i \notin 1 .. Len(q[p])
    <3>1. ctl'[m][i] = x
      BY <2>3, <1>1, <1>3
    <3> QED BY Zenon, <2>3, <3>1 DEF MessageHolds
  <2> QED BY Zenon, <2>1, <2>2, <2>3
<1> QED BY Zenon, <1>2, <1>4

\* A message that is true when it is sent may be sent, or get lost.
LEMMA SendNews ==
    ASSUME TypeOK, NEW n \in Nodes, NEW s, NEW kind, NEW t, NEW sent \in BOOLEAN, Send(n, s, kind, t, sent),
           [kind |-> kind, t |-> t] \in Message,
           sent => MessageHolds(Other(n), [kind |-> kind, t |-> t])'
    PROVE  ctl' \in [Nodes -> Seq(Message)] /\ NewsHolds
<1>1. ctl \in [Nodes -> Seq(Message)] /\ Other(n) \in Nodes
  BY Zenon, QueueTyped, NodesPair
<1>2. CASE sent
  <2>1. ctl' = [ctl EXCEPT ![Other(n)] = Append(ctl[Other(n)], [kind |-> kind, t |-> t])]
    BY Zenon, <1>2 DEF Send
  <2>2. \A m \in Nodes : \A i \in 1 .. Len(ctl[m]) : \E j \in 1 .. Len(ctl[m]) : ctl[m][i] = ctl[m][j]
    BY Zenon
  <2> QED BY Zenon, <1>1, <1>2, <2>1, <2>2, AppendNews
<1>3. CASE ~ sent
  BY Zenon, <1>1, <1>3, Quiet DEF Send
<1> QED BY Zenon, <1>2, <1>3

\* The same for a reply to the message that is taken off the queue.
LEMMA ReplyNews ==
    ASSUME TypeOK, NEW n \in Nodes, ctl[n] # <<>>, NEW x \in Message, NEW sent \in BOOLEAN,
           sent => MessageHolds(Other(n), x)',
           ctl' = [ctl EXCEPT ![n] = Tail(@), ![Other(n)] = IF sent THEN Append(@, x) ELSE @]
    PROVE  ctl' \in [Nodes -> Seq(Message)] /\ NewsHolds
<1>1. /\ ctl \in [Nodes -> Seq(Message)] /\ ctl[n] \in Seq(Message)
      /\ Other(n) \in Nodes /\ Other(n) # n
  BY Zenon, QueueTyped, NodesPair
<1>2. Tail(ctl[n]) \in Seq(Message)
  BY <1>1
<1>3. CASE ~ sent
  <2>1. ctl' = [ctl EXCEPT ![n] = Tail(ctl[n])]
    BY Zenon, <1>1, <1>2, <1>3
  <2> QED BY Zenon, <2>1, PopNews DEF Pops
<1>4. CASE sent
  <2> DEFINE q == [ctl EXCEPT ![n] = Tail(ctl[n])]
  <2>1. q \in [Nodes -> Seq(Message)]
    BY Zenon, <1>1, <1>2
  <2>2. q[n] = Tail(ctl[n]) /\ \A m \in Nodes : m # n => q[m] = ctl[m]
    BY Zenon, <1>1
  <2>3. ctl' = [q EXCEPT ![Other(n)] = Append(q[Other(n)], x)]
    BY Zenon, <1>1, <1>4
  <2> HIDE DEF q
  <2>4. \A i \in 1 .. Len(Tail(ctl[n])) : i + 1 \in 1 .. Len(ctl[n]) /\ Tail(ctl[n])[i] = ctl[n][i + 1]
    BY <1>1
  <2>5. ASSUME NEW m \in Nodes, NEW i \in 1 .. Len(q[m])
        PROVE  \E j \in 1 .. Len(ctl[m]) : q[m][i] = ctl[m][j]
    <3>1. CASE m = n
      BY Zenon, <3>1, <2>2, <2>4
    <3>2. CASE m # n
      BY Zenon, <3>2, <2>2
    <3> QED BY Zenon, <3>1, <3>2
  <2> QED BY ZenonT(60), <1>1, <1>4, <2>1, <2>3, <2>5, AppendNews
<1> QED BY Zenon, <1>3, <1>4

-----------------------------------------------------------------------------
(* Steps that leave the records' states alone, and steps that end one.     *)

Preserved == TransfersInv' /\ \A u \in Transfers : Kept(u)

\* A step that touches no record and no file keeps the invariant and the promise.
LEMMA StillStep ==
    ASSUME TransfersInv, TypeOK', from' = from, taking' = taking, NewsHolds,
           \A u \in Transfers : Steady(u) /\ SameRecords(u)
    PROVE  Preserved
<1>1. \A u \in Transfers : Good(u)
  BY Zenon, SteadyIsGood
<1> QED BY Zenon, <1>1, GoodStep DEF Preserved

\* All but t is left alone.
Aside(t) == \A u \in Transfers : u # t => Steady(u) /\ SameRecords(u)

\* So does a step that is good for one transfer and leaves the others alone.
LEMMA AsideStep ==
    ASSUME TransfersInv, TypeOK', from' = from, taking' = taking, NewsHolds,
           NEW t \in Transfers, Aside(t), Good(t)
    PROVE  Preserved
<1>1. \A u \in Transfers : Good(u)
  BY Zenon, SteadyIsGood DEF Aside
<1> QED BY Zenon, <1>1, GoodStep DEF Preserved

\* A write to the record of t leaves the records of the others alone.
LEMMA UntouchedRecords ==
    ASSUME TypeOK, NEW n \in Nodes, NEW t \in Transfers,
           \/ rec' = rec
           \/ \E st, temp : Writes(n, t, st, temp),
           \/ clean' = clean
           \/ \E x : Marks(n, t, x)
    PROVE  \A u \in Transfers : u # t => SameRecords(u)
<1>1. \A m \in Nodes, u \in Transfers : u # t => rec'[m][u] = rec[m][u] /\ clean'[m][u] = clean[m][u]
  BY Zenon DEF Writes, Marks
<1>2. \A u \in Transfers : Sender(u) \in Nodes /\ Receiver(u) \in Nodes
  BY Zenon, Ends
<1> QED BY Zenon, <1>1, <1>2 DEF SameRecords

\* A step that fails or cancels one transfer and touches no file keeps both.
LEMMA FailStep ==
    ASSUME TransfersInv, TypeOK', from' = from, taking' = taking, NewsHolds,
           NEW n \in Nodes, NEW t \in Transfers, NEW next \in {"failed", "cancelled"}, NEW tell \in BOOLEAN,
           Transition(n, t, next, tell), \A u \in Transfers : Steady(u)
    PROVE  Preserved
<1>1. TypeOK
  BY Zenon DEF TransfersInv
<1>2. Moves(n, t, next) \/ UNCHANGED <<rec, clean>>
  BY Zenon, <1>1, TransitionMoves
<1>3. CASE UNCHANGED <<rec, clean>>
  <2>1. \A u \in Transfers : SameRecords(u)
    BY Zenon, <1>3 DEF SameRecords
  <2> QED BY Zenon, <2>1, StillStep
<1>4. CASE Moves(n, t, next)
  <2>1. \A u \in Transfers : u # t => SameRecords(u)
    BY Zenon, <1>1, <1>4, UntouchedRecords DEF Moves
  <2>2. Good(t)
    BY Zenon, <1>4, EndIsGood
  <2> QED BY Zenon, <2>1, <2>2, AsideStep DEF Aside
<1> QED BY Zenon, <1>2, <1>3, <1>4

\* transition keeps the types.
LEMMA TransitionTyped ==
    ASSUME TypeOK, NEW n \in Nodes, NEW t \in Transfers,
           NEW next \in {"transferring", "verifying", "completed", "failed", "cancelled"},
           NEW tell \in BOOLEAN, Transition(n, t, next, tell)
    PROVE  /\ rec' \in [Nodes -> [Transfers -> Record]]
           /\ clean' \in [Nodes -> [Transfers -> {"no", "fail", "end", "tell", "done"}]]
<1>1. Moves(n, t, next) \/ UNCHANGED <<rec, clean>>
  BY Zenon, TransitionMoves
<1>2. /\ rec \in [Nodes -> [Transfers -> Record]]
      /\ clean \in [Nodes -> [Transfers -> {"no", "fail", "end", "tell", "done"}]]
  BY Zenon DEF TypeOK
<1> QED BY Zenon, <1>1, <1>2 DEF Moves, Writes, Marks, Records

\* fail is such a transition.
LEMMA FailIsTransition ==
    ASSUME NEW n \in Nodes, NEW t \in Transfers, NEW why, Fail(n, t, why)
    PROVE  \E next \in {"failed", "cancelled"} : Transition(n, t, next, TRUE)
BY Zenon DEF Fail

-----------------------------------------------------------------------------
(* offer_file.                                                             *)

\* offer_file, the limit and the hash: the invariant and the promise are kept.
LEMMA OfferCheckInv ==
    ASSUME TransfersInv, NEW t \in Transfers, OfferCheck(t)
    PROVE  Preserved
<1>1. TypeOK
  BY Zenon DEF TransfersInv
<1>2. /\ offer \in [Transfers -> [at : {"idle", "hash", "send", "done"}, sess : Nat]]
      /\ sess \in Nat
  BY Zenon, <1>1 DEF TypeOK
<1>3. offer' = [offer EXCEPT ![t] = [at |-> "hash", sess |-> sess]] /\ offer[t].at = "idle"
  BY Zenon DEF OfferCheck
<1>4. offer' \in [Transfers -> [at : {"idle", "hash", "send", "done"}, sess : Nat]]
  BY Zenon, <1>2, <1>3
<1>5. TypeOK'
  BY Zenon, <1>1, <1>4 DEF TypeOK, OfferCheck, sessVars
<1>6. \A u \in Transfers : offer'[u].at = offer[u].at \/ (offer[u].at = "idle" /\ offer'[u].at = "hash")
  BY Zenon, <1>2, <1>3
<1>7. \A u \in Transfers : Steady(u) /\ SameRecords(u)
  BY Zenon, <1>6 DEF Steady, SameRecords, OfferCheck
<1>8. NewsHolds /\ from' = from /\ taking' = taking
  BY Zenon, <1>1, Quiet DEF OfferCheck
<1> QED BY Zenon, <1>5, <1>7, <1>8, StillStep

\* The offer's record is the first thing anybody knows of a transfer.
LEMMA OfferInsertInv ==
    ASSUME TransfersInv, NEW t \in Transfers, OfferInsert(t)
    PROVE  Preserved
<1>1. TypeOK /\ TransferHolds(t)
  BY Zenon DEF TransfersInv
<1>2. /\ offer \in [Transfers -> [at : {"idle", "hash", "send", "done"}, sess : Nat]]
      /\ offer[t].at = "hash"
  BY Zenon, <1>1 DEF TypeOK, OfferInsert
<1>3. /\ Sender(t) \in Nodes /\ Receiver(t) \in Nodes /\ Sender(t) # Receiver(t)
      /\ Sender(t)' = Sender(t) /\ Receiver(t)' = Receiver(t)
  BY Zenon, <1>1, Ends DEF OfferInsert, Sender, Receiver
<1>4. \E v \in [at : {"send", "done"}, sess : Nat] : offer' = [offer EXCEPT ![t] = v]
  <2>1. CASE offer' = [offer EXCEPT ![t].at = "send"]
    <3>1. [offer[t] EXCEPT !.at = "send"] \in [at : {"send", "done"}, sess : Nat]
      BY Zenon, <1>2
    <3>2. offer' = [offer EXCEPT ![t] = [offer[t] EXCEPT !.at = "send"]]
      BY Zenon, <1>2, <2>1
    <3> QED BY Zenon, <3>1, <3>2
  <2>2. CASE offer' = [offer EXCEPT ![t] = [at |-> "done", sess |-> 0]]
    BY Zenon, <2>2
  <2> QED BY Zenon, <2>1, <2>2 DEF OfferInsert
<1>5. /\ offer' \in [Transfers -> [at : {"idle", "hash", "send", "done"}, sess : Nat]]
      /\ \A u \in Transfers : u # t => offer'[u] = offer[u]
      /\ offer'[t].at \in {"send", "done"}
  BY Zenon, <1>2, <1>4
<1>6. NewsHolds /\ from' = from /\ taking' = taking
  BY Zenon, <1>1, Quiet DEF OfferInsert
<1>7. \A u \in Transfers : u # t \/ offer'[t].at = "done" => Steady(u)
  BY Zenon, <1>5 DEF Steady, OfferInsert
<1>8. CASE offer' = [offer EXCEPT ![t] = [at |-> "done", sess |-> 0]] /\ UNCHANGED rec
  <2>1. TypeOK'
    BY Zenon, <1>1, <1>5, <1>8 DEF TypeOK, OfferInsert, sessVars
  <2>2. \A u \in Transfers : SameRecords(u)
    BY Zenon, <1>8 DEF SameRecords, OfferInsert
  <2>3. offer'[t].at = "done"
    BY Zenon, <1>2, <1>8
  <2> QED BY Zenon, <2>1, <2>2, <2>3, <1>6, <1>7, StillStep
<1>9. CASE rec' = [rec EXCEPT ![Sender(t)][t] = NewRecord("offered", offer[t].sess)]
  <2> DEFINE r == NewRecord("offered", offer[t].sess)
  <2>1. r \in Record /\ r.st = "offered"
    <3>1. offer[t].sess \in Nat
      BY Zenon, <1>2
    <3> QED BY Zenon, <3>1 DEF NewRecord, Record
  <2> HIDE DEF r
  <2>2. Writes(Sender(t), t, "offered", r.temp)
    BY Zenon, <1>1, <1>3, <1>9, <2>1, WriteRecord DEF r
  <2>3. TypeOK'
    <3>1. rec' \in [Nodes -> [Transfers -> Record]]
      BY Zenon, <2>2 DEF Writes, Records
    <3> QED BY Zenon, <1>1, <1>5, <3>1 DEF TypeOK, OfferInsert, sessVars
  <2>4. Aside(t)
    <3>1. clean' = clean
      BY Zenon DEF OfferInsert
    <3>2. \A u \in Transfers : u # t => SameRecords(u)
      BY Zenon, <1>1, <1>3, <2>2, <3>1, UntouchedRecords
    <3> QED BY Zenon, <1>7, <3>2 DEF Aside
  <2>5. /\ rec[Sender(t)][t].st = "none" /\ rec'[Sender(t)][t].st = "offered"
        /\ rec'[Receiver(t)][t] = rec[Receiver(t)][t]
        /\ clean' = clean /\ appr' = appr /\ run' = run /\ part' = part /\ final' = final /\ good' = good
    BY Zenon, <1>1, <1>2, <1>3, <2>2 DEF TransferHolds, Directed, Writes, OfferInsert
  <2>6. Good(t)
    <3>1. Kept(t)
      BY Zenon, <1>3, <2>5 DEF Kept, Promised!Next, Promised!Offer
    <3>2. Directed(t)'
      BY Zenon, <1>1, <1>3, <1>5, <2>5 DEF TransferHolds, Directed
    <3>3. ApprovalFollows(t)' /\ ReceivingFollows(t)' /\ PartialFollows(t)'
      BY <1>1, <1>3, <2>5 DEF TransferHolds, ApprovalFollows, ReceivingFollows, PartialFollows
    <3> QED BY Zenon, <2>5, <3>1, <3>2, <3>3 DEF Good, TransferHolds
  <2> QED BY Zenon, <1>6, <2>3, <2>4, <2>6, AsideStep
<1> QED BY Zenon, <1>8, <1>9 DEF OfferInsert

\* offer_file, sending the offer.
LEMMA OfferSendInv ==
    ASSUME TransfersInv, NEW t \in Transfers, OfferSend(t)
    PROVE  Preserved
<1>1. TypeOK /\ TransferHolds(t)
  BY Zenon DEF TransfersInv
<1>2. /\ offer \in [Transfers -> [at : {"idle", "hash", "send", "done"}, sess : Nat]]
      /\ offer' = [offer EXCEPT ![t] = [at |-> "done", sess |-> 0]]
  BY Zenon, <1>1 DEF TypeOK, OfferSend
<1>3. /\ offer' \in [Transfers -> [at : {"idle", "hash", "send", "done"}, sess : Nat]]
      /\ \A u \in Transfers : offer'[u].at \in {offer[u].at, "done"}
  BY Zenon, <1>2
<1>4. from' = from /\ taking' = taking /\ \A u \in Transfers : Steady(u)
  BY Zenon, <1>3 DEF Steady, OfferSend
<1>5. /\ Sender(t) \in Nodes /\ Other(Sender(t)) = Receiver(t)
      /\ Sender(t)' = Sender(t) /\ Receiver(t)' = Receiver(t)
  BY Zenon, <1>1, <1>4, Ends DEF Sender, Receiver
<1>6. PICK sent \in BOOLEAN :
        /\ Send(Sender(t), offer[t].sess, "offer", t, sent)
        /\ IF sent THEN UNCHANGED <<rec, clean>> ELSE Transition(Sender(t), t, "failed", FALSE)
  BY Zenon DEF OfferSend
<1>7. [kind |-> "offer", t |-> t] \in Message
  BY Zenon DEF Message
<1>8. CASE sent
  <2>1. rec' = rec /\ clean' = clean
    BY Zenon, <1>6, <1>8
  <2>2. MessageHolds(Other(Sender(t)), [kind |-> "offer", t |-> t])'
    <3>1. rec[Sender(t)][t].st # "none"
      BY Zenon, <1>1 DEF TransferHolds, Directed, OfferSend
    <3> QED BY Zenon, <1>5, <2>1, <3>1 DEF MessageHolds
  <2>3. ctl' \in [Nodes -> Seq(Message)] /\ NewsHolds
    BY Zenon, <1>1, <1>5, <1>6, <1>7, <2>2, SendNews
  <2>4. TypeOK'
    BY Zenon, <1>1, <1>3, <2>1, <2>3 DEF TypeOK, OfferSend, sessVars
  <2>5. \A u \in Transfers : SameRecords(u)
    BY Zenon, <2>1 DEF SameRecords
  <2> QED BY Zenon, <1>4, <2>3, <2>4, <2>5, StillStep
<1>9. CASE ~ sent
  <2>1. Transition(Sender(t), t, "failed", FALSE) /\ ctl' = ctl
    BY Zenon, <1>6, <1>9 DEF Send
  <2>2. /\ rec' \in [Nodes -> [Transfers -> Record]]
        /\ clean' \in [Nodes -> [Transfers -> {"no", "fail", "end", "tell", "done"}]]
    BY Zenon, <1>1, <1>5, <2>1, TransitionTyped
  <2>3. TypeOK'
    BY Zenon, <1>1, <1>3, <2>1, <2>2 DEF TypeOK, OfferSend, sessVars
  <2>4. NewsHolds
    BY Zenon, <1>1, <2>1, Quiet
  <2> QED BY Zenon, <1>4, <1>5, <2>1, <2>3, <2>4, FailStep
<1> QED BY Zenon, <1>8, <1>9

-----------------------------------------------------------------------------
(* handle_control.                                                         *)

\* What the first message of a queue says is true.
LEMMA HeadHolds ==
    ASSUME TransfersInv, NEW n \in Nodes, NEW m, Says(n, m)
    PROVE  m \in Message /\ MessageHolds(n, m) /\ ctl[n] # <<>>
<1>1. ctl[n] # <<>> /\ Head(ctl[n]) = m /\ TypeOK
  BY Zenon DEF Says, TransfersInv
<1>2. ctl[n] \in Seq(Message)
  BY Zenon, <1>1, QueueTyped
<1>3. 1 \in 1 .. Len(ctl[n]) /\ ctl[n][1] = m /\ m \in Message
  BY SMTT(60), <1>1, <1>2
<1>4. MessageHolds(n, ctl[n][1])
  BY Zenon, <1>3 DEF TransfersInv
<1> QED BY Zenon, <1>1, <1>3, <1>4

\* What on_offer remembers between its checks and its insert is true.
LEMMA TakingTyped ==
    ASSUME TypeOK, NEW n \in Nodes, taking[n] # None
    PROVE  taking[n].t \in Transfers /\ taking[n].sess \in Nat
<1>1. taking[n] \in [t : Transfers, sess : Nat] \cup {None}
  BY Zenon DEF TypeOK
<1> QED BY Zenon, <1>1

\* on_offer, its checks: refused, or on its way to being recorded.
LEMMA OnOfferInv ==
    ASSUME TransfersInv, NEW n \in Nodes, NEW t \in Transfers, OnOffer(n, t)
    PROVE  Preserved
<1> DEFINE o == [kind |-> "offer", t |-> t]
           x == [kind |-> "reject", t |-> t]
<1>1. TypeOK /\ MessageHolds(n, o) /\ ctl[n] # <<>>
  BY Zenon, HeadHolds DEF TransfersInv, OnOffer
<1>2. n = Receiver(t) /\ rec[Sender(t)][t].st # "none"
  BY Zenon, <1>1 DEF MessageHolds
<1>3. /\ from' = from /\ rec' = rec
      /\ \A u \in Transfers : Steady(u) /\ SameRecords(u)
  BY Zenon DEF OnOffer, Steady, SameRecords
<1>4. \A u \in Transfers : Kept(u) /\ TransferHolds(u)'
  BY Zenon, <1>3, SteadyIsGood DEF Good
<1>5. x \in Message /\ MessageHolds(Other(n), x)'
  BY Zenon DEF Message, MessageHolds
<1>6. ctl' \in [Nodes -> Seq(Message)] /\ NewsHolds
  <2>1. CASE Pops(n)
    BY Zenon, <1>1, <2>1, PopNews
  <2>2. ASSUME NEW told \in BOOLEAN,
               ctl' = [ctl EXCEPT ![n] = Tail(@), ![Other(n)] = IF told THEN Append(@, x) ELSE @]
        PROVE  ctl' \in [Nodes -> Seq(Message)] /\ NewsHolds
    <3> HIDE DEF x
    <3> QED BY Zenon, <1>1, <1>5, <2>2, ReplyNews
  <2> QED BY Zenon, <2>1, <2>2 DEF OnOffer
<1>7. CASE taking' = taking
  <2>1. TypeOK'
    BY Zenon, <1>1, <1>6, <1>7 DEF TypeOK, OnOffer, sessVars
  <2> QED BY Zenon, <1>3, <1>6, <1>7, <2>1, StillStep
<1>8. CASE taking' = [taking EXCEPT ![n] = [t |-> t, sess |-> sess]] /\ rec[n][t].st = "none"
  <2>1. taking \in [Nodes -> [t : Transfers, sess : Nat] \cup {None}] /\ sess \in Nat
    BY Zenon, <1>1 DEF TypeOK
  <2>2. /\ taking' \in [Nodes -> [t : Transfers, sess : Nat] \cup {None}]
        /\ taking'[n] = [t |-> t, sess |-> sess]
        /\ \A m \in Nodes : m # n => taking'[m] = taking[m]
    BY Zenon, <1>8, <2>1
  <2>3. TypeOK'
    BY Zenon, <1>1, <1>6, <2>2 DEF TypeOK, OnOffer, sessVars
  <2>4. \A m \in Nodes : \A i \in 1 .. Len(ctl'[m]) : MessageHolds(m, ctl[m][i])'
    BY Zenon, <1>3, <1>4, <1>6, <2>3, MessagesHold
  <2>5. ASSUME NEW m \in Nodes PROVE TakingHolds(m)'
    <3>1. CASE m = n
      BY Zenon, <1>2, <1>3, <1>8, <2>2, <3>1 DEF TakingHolds, Receiver, Sender
    <3>2. CASE m # n
      BY Zenon, <1>3, <2>2, <3>2 DEF TakingHolds, TransfersInv, Receiver, Sender
    <3> QED BY Zenon, <3>1, <3>2
  <2> QED BY Zenon, <1>4, <2>3, <2>4, <2>5 DEF Preserved, TransfersInv
<1> QED BY Zenon, <1>7, <1>8 DEF OnOffer

\* on_offer, recording it.
LEMMA OnOfferInsertInv ==
    ASSUME TransfersInv, NEW n \in Nodes, OnOfferInsert(n)
    PROVE  Preserved
<1>1. TypeOK /\ taking[n] # None
  BY Zenon DEF TransfersInv, OnOfferInsert
<1>2. PICK t \in Transfers : t = taking[n].t
  BY Zenon, <1>1, TakingTyped
<1>3. /\ TransferHolds(t)
      /\ n = Receiver(t) /\ rec[Sender(t)][t].st # "none" /\ rec[n][t].st = "none"
  BY Zenon, <1>1, <1>2 DEF TransfersInv, TakingHolds
<1>4. /\ from' = from /\ clean' = clean /\ ctl' = ctl /\ offer' = offer
      /\ part' = part /\ final' = final /\ good' = good /\ run' = run
      /\ Sender(t) \in Nodes /\ Sender(t) # n
      /\ Sender(t)' = Sender(t) /\ Receiver(t)' = n
  BY Zenon, <1>1, <1>3, Ends DEF OnOfferInsert, Sender, Receiver
<1>5. Writes(n, t, "waiting", FALSE)
  <2> DEFINE r == NewRecord("waiting", taking[n].sess)
  <2>1. r \in Record /\ r.st = "waiting" /\ r.temp = FALSE
    BY Zenon, <1>1, TakingTyped DEF NewRecord, Record
  <2>2. rec' = [rec EXCEPT ![n][t] = r]
    BY Zenon, <1>2 DEF OnOfferInsert
  <2> HIDE DEF r
  <2> QED BY Zenon, <1>1, <2>1, <2>2, WriteRecord
<1>6. /\ appr' \in [Transfers -> {"none", "asking", "open", "record", "agree", "undo", "accept", "done"}]
      /\ appr'[t] = "asking" /\ \A u \in Transfers : u # t => appr'[u] = appr[u]
  <2>1. appr \in [Transfers -> {"none", "asking", "open", "record", "agree", "undo", "accept", "done"}]
    BY Zenon, <1>1 DEF TypeOK
  <2>2. appr' = [appr EXCEPT ![t] = "asking"]
    BY Zenon, <1>2 DEF OnOfferInsert
  <2> QED BY Zenon, <2>1, <2>2
<1>7. /\ taking' \in [Nodes -> [t : Transfers, sess : Nat] \cup {None}]
      /\ taking'[n] = None /\ \A m \in Nodes : m # n => taking'[m] = taking[m]
  <2>1. taking \in [Nodes -> [t : Transfers, sess : Nat] \cup {None}]
    BY Zenon, <1>1 DEF TypeOK
  <2>2. taking' = [taking EXCEPT ![n] = None]
    BY Zenon DEF OnOfferInsert
  <2> QED BY Zenon, <2>1, <2>2
<1>8. TypeOK'
  <2>1. rec' \in [Nodes -> [Transfers -> Record]]
    BY Zenon, <1>5 DEF Writes, Records
  <2> QED BY Zenon, <1>1, <1>6, <1>7, <2>1 DEF TypeOK, OnOfferInsert, sessVars
<1>9. \A u \in Transfers : u # t => Good(u)
  <2>1. \A u \in Transfers : u # t => SameRecords(u)
    BY Zenon, <1>1, <1>4, <1>5, UntouchedRecords
  <2>2. \A u \in Transfers : u # t => Steady(u)
    BY Zenon, <1>4, <1>6 DEF Steady
  <2> QED BY Zenon, <1>4, <2>1, <2>2, SteadyIsGood
<1>10. rec'[n][t].st = "waiting" /\ rec'[n][t].temp = FALSE /\ rec'[Sender(t)][t] = rec[Sender(t)][t]
  BY Zenon, <1>4, <1>5 DEF Writes
<1>11. Kept(t)
  BY Zenon, <1>3, <1>4, <1>10 DEF Kept, Promised!Next, Promised!Arrive
<1>12. TransferHolds(t)'
  <2>1. appr[t] = "none"
    BY Zenon, <1>3 DEF TransferHolds, ApprovalFollows
  <2>2. ~ part[t] /\ ~ final[t]
    BY Zenon, <1>3, <2>1 DEF TransferHolds, PartialFollows
  <2>3. Directed(t)'
    BY Zenon, <1>3, <1>4, <1>10 DEF TransferHolds, Directed
  <2>4. ApprovalFollows(t)'
    BY Zenon, <1>4, <1>6, <1>10 DEF ApprovalFollows
  <2>5. ReceivingFollows(t)'
    BY Zenon, <1>3, <1>4, <1>10, <2>2 DEF TransferHolds, ReceivingFollows, Terminal
  <2>6. PartialFollows(t)'
    BY Zenon, <1>3, <1>4, <1>10, <2>2 DEF TransferHolds, PartialFollows, Terminal
  <2> QED BY Zenon, <2>3, <2>4, <2>5, <2>6 DEF TransferHolds
<1>13. \A u \in Transfers : Kept(u) /\ TransferHolds(u)'
  BY Zenon, <1>9, <1>11, <1>12 DEF Good
<1>14. \A m \in Nodes : \A i \in 1 .. Len(ctl'[m]) : MessageHolds(m, ctl[m][i])'
  BY Zenon, <1>1, <1>4, <1>8, <1>13, Quiet, MessagesHold
<1>15. ASSUME NEW m \in Nodes PROVE TakingHolds(m)'
  <2>1. CASE m = n
    BY Zenon, <1>7, <2>1 DEF TakingHolds
  <2>2. CASE m # n /\ taking[m] = None
    BY Zenon, <1>7, <2>2 DEF TakingHolds
  <2>3. CASE m # n /\ taking[m] # None
    <3>1. PICK u \in Transfers : u = taking[m].t
      BY Zenon, <1>1, <2>3, TakingTyped
    <3>2. m = Receiver(u) /\ rec[Sender(u)][u].st # "none" /\ rec[m][u].st = "none"
      BY Zenon, <2>3, <3>1 DEF TransfersInv, TakingHolds
    <3>3. u # t /\ Sender(u) \in Nodes
      BY Zenon, <1>1, <1>3, <2>3, <3>2, Ends
    <3>4. rec'[Sender(u)][u] = rec[Sender(u)][u] /\ rec'[m][u] = rec[m][u] /\ taking'[m].t = u
      BY Zenon, <1>5, <1>7, <2>3, <3>1, <3>3 DEF Writes
    <3> QED BY Zenon, <1>4, <3>2, <3>4 DEF TakingHolds, Receiver, Sender
  <2> QED BY Zenon, <2>1, <2>2, <2>3
<1> QED BY Zenon, <1>8, <1>13, <1>14, <1>15 DEF Preserved, TransfersInv

\* The count of spawned approvals stays a number.
LEMMA SpawnTyped ==
    ASSUME TypeOK, NEW t \in Transfers,
           spawned' = spawned \/ spawned' = [spawned EXCEPT ![t] = @ + 1]
    PROVE  spawned' \in [Transfers -> Nat]
<1>1. spawned \in [Transfers -> Nat]
  BY Zenon DEF TypeOK
<1> QED BY SMTT(60), <1>1

\* An Accept finds a receiver that has agreed.
LEMMA OnAcceptInv ==
    ASSUME TransfersInv, NEW n \in Nodes, NEW t \in Transfers, OnAccept(n, t)
    PROVE  Preserved
<1> DEFINE a == [kind |-> "accept", t |-> t]
           x == [kind |-> "ready", t |-> t]
<1>1. TypeOK /\ TransferHolds(t) /\ MessageHolds(n, a) /\ ctl[n] # <<>>
  BY Zenon, HeadHolds DEF TransfersInv, OnAccept
<1>2. from' = from /\ taking' = taking /\ clean' = clean /\ \A u \in Transfers : Steady(u)
  BY Zenon DEF OnAccept, Steady
<1>3. spawned' \in [Transfers -> Nat]
  <2>1. spawned' = spawned \/ spawned' = [spawned EXCEPT ![t] = @ + 1]
    BY Zenon DEF OnAccept
  <2> QED BY Zenon, <1>1, <2>1, SpawnTyped
<1>4. CASE Pops(n) /\ UNCHANGED <<rec, spawned>>
  <2>1. ctl' \in [Nodes -> Seq(Message)] /\ NewsHolds
    BY Zenon, <1>1, <1>4, PopNews
  <2>2. TypeOK'
    BY Zenon, <1>1, <1>4, <2>1 DEF TypeOK, OnAccept, sessVars
  <2>3. \A u \in Transfers : SameRecords(u)
    BY Zenon, <1>2, <1>4 DEF SameRecords
  <2> QED BY Zenon, <1>2, <2>1, <2>2, <2>3, StillStep
<1>5. CASE from[t] = n /\ CanTransition(rec[n][t].st, "transferring")
  <2>1. /\ n = Sender(t) /\ Receiver(t) \in Nodes /\ Receiver(t) # n
        /\ Sender(t)' = n /\ Receiver(t)' = Receiver(t)
    BY Zenon, <1>1, <1>2, <1>5, Ends DEF Sender, Receiver
  <2>2. rec[n][t].st = "offered" /\ rec[Receiver(t)][t].st \notin {"none", "waiting"}
    BY Zenon, <1>1, <1>5, <2>1 DEF TransferHolds, Directed, CanTransition, Terminal, MessageHolds
  <2>3. Writes(n, t, "transferring", rec[n][t].temp)
    <3>1. rec' = [rec EXCEPT ![n][t].st = "transferring", ![n][t].chal = TRUE]
      BY Zenon, <1>5 DEF OnAccept
    <3> QED BY Zenon, <1>1, <3>1, WriteState
  <2>4. ctl' \in [Nodes -> Seq(Message)] /\ NewsHolds
    <3>1. PICK sent \in BOOLEAN :
            ctl' = [ctl EXCEPT ![n] = Tail(@), ![Other(n)] = IF sent THEN Append(@, x) ELSE @]
      BY Zenon, <1>5 DEF OnAccept
    <3>2. x \in Message /\ MessageHolds(Other(n), x)'
      BY Zenon DEF Message, MessageHolds
    <3> HIDE DEF x
    <3> QED BY Zenon, <1>1, <3>1, <3>2, ReplyNews
  <2>5. TypeOK'
    <3>1. rec' \in [Nodes -> [Transfers -> Record]]
      BY Zenon, <2>3 DEF Writes, Records
    <3> QED BY Zenon, <1>1, <1>3, <2>4, <3>1 DEF TypeOK, OnAccept, sessVars
  <2>6. Aside(t)
    BY Zenon, <1>1, <1>2, <2>3, UntouchedRecords DEF Aside
  <2>7. rec'[n][t].st = "transferring" /\ rec'[Receiver(t)][t] = rec[Receiver(t)][t]
    BY Zenon, <2>1, <2>3 DEF Writes
  <2>8. Good(t)
    <3>1. Kept(t)
      BY ZenonT(60), <1>2, <2>1, <2>2, <2>7 DEF Kept, Promised!Next, Promised!Start, Steady
    <3>2. Directed(t)'
      BY ZenonT(60), <1>1, <1>2, <2>1, <2>2, <2>7 DEF TransferHolds, Directed, Steady
    <3>3. ApprovalFollows(t)' /\ ReceivingFollows(t)' /\ PartialFollows(t)'
      BY Zenon, <1>1, <1>2, <2>1, <2>7 DEF TransferHolds, ApprovalFollows, ReceivingFollows, PartialFollows, OnAccept
    <3> QED BY Zenon, <2>1, <2>7, <3>1, <3>2, <3>3 DEF Good, TransferHolds
  <2> QED BY Zenon, <1>2, <2>4, <2>5, <2>6, <2>8, AsideStep
<1> QED BY Zenon, <1>4, <1>5 DEF OnAccept

\* A step that only sets challenges or deadlines of t.
LEMMA FlagsStill ==
    ASSUME TypeOK, NEW n \in Nodes, NEW t \in Transfers, clean' = clean,
           rec' = rec \/ Writes(n, t, rec[n][t].st, rec[n][t].temp)
    PROVE  /\ rec' \in [Nodes -> [Transfers -> Record]]
           /\ \A u \in Transfers : SameRecords(u)
<1>1. /\ rec' \in [Nodes -> [Transfers -> Record]]
      /\ \A m \in Nodes, u \in Transfers : rec'[m][u].st = rec[m][u].st /\ rec'[m][u].temp = rec[m][u].temp
  BY Zenon, RecordTyped DEF Writes, Records
<1>2. \A u \in Transfers : Sender(u) \in Nodes /\ Receiver(u) \in Nodes
  BY Zenon, Ends
<1> QED BY Zenon, <1>1, <1>2 DEF SameRecords

\* on_ready.
LEMMA OnReadyInv ==
    ASSUME TransfersInv, NEW n \in Nodes, NEW t \in Transfers, OnReady(n, t)
    PROVE  Preserved
<1>1. TypeOK /\ ctl[n] # <<>>
  BY Zenon, HeadHolds DEF TransfersInv, OnReady
<1>2. from' = from /\ taking' = taking /\ clean' = clean /\ \A u \in Transfers : Steady(u)
  BY Zenon DEF OnReady, Steady
<1>3. spawned' \in [Transfers -> Nat]
  <2>1. spawned' = spawned \/ spawned' = [spawned EXCEPT ![t] = @ + 1]
    BY Zenon DEF OnReady
  <2> QED BY Zenon, <1>1, <2>1, SpawnTyped
<1>4. ctl' \in [Nodes -> Seq(Message)] /\ NewsHolds
  BY Zenon, <1>1, PopNews DEF OnReady
<1>5. rec' = rec \/ Writes(n, t, rec[n][t].st, rec[n][t].temp)
  <2>1. rec' = rec \/ rec' = [rec EXCEPT ![n][t].chal = TRUE]
    BY Zenon DEF OnReady
  <2> QED BY Zenon, <1>1, <2>1, WriteFlags
<1>6. rec' \in [Nodes -> [Transfers -> Record]] /\ \A u \in Transfers : SameRecords(u)
  BY Zenon, <1>1, <1>2, <1>5, FlagsStill
<1>7. TypeOK'
  BY Zenon, <1>1, <1>3, <1>4, <1>6 DEF TypeOK, OnReady, sessVars
<1> QED BY Zenon, <1>2, <1>4, <1>6, <1>7, StillStep

\* on_peer_ended.
LEMMA OnPeerEndedInv ==
    ASSUME TransfersInv, NEW n \in Nodes, NEW t \in Transfers, OnPeerEnded(n, t)
    PROVE  Preserved
<1>1. PICK kind \in {"reject", "cancel", "failed"} :
        /\ Says(n, [kind |-> kind, t |-> t])
        /\ Transition(n, t, IF kind = "failed" THEN "failed" ELSE "cancelled", FALSE)
  BY Zenon DEF OnPeerEnded
<1>2. TypeOK /\ ctl[n] # <<>>
  BY Zenon, <1>1, HeadHolds DEF TransfersInv
<1>3. PICK next \in {"failed", "cancelled"} : Transition(n, t, next, FALSE)
  BY Zenon, <1>1
<1>4. from' = from /\ taking' = taking /\ \A u \in Transfers : Steady(u)
  BY Zenon DEF OnPeerEnded, Steady, tasks
<1>5. ctl' \in [Nodes -> Seq(Message)] /\ NewsHolds
  BY Zenon, <1>2, PopNews DEF OnPeerEnded
<1>6. /\ rec' \in [Nodes -> [Transfers -> Record]]
      /\ clean' \in [Nodes -> [Transfers -> {"no", "fail", "end", "tell", "done"}]]
  BY Zenon, <1>2, <1>3, TransitionTyped
<1>7. TypeOK'
  BY Zenon, <1>2, <1>5, <1>6 DEF TypeOK, OnPeerEnded, sessVars, tasks
<1> QED BY Zenon, <1>3, <1>4, <1>5, <1>7, FailStep

\* A Complete finds a receiver that has stored the file.
LEMMA OnCompleteInv ==
    ASSUME TransfersInv, NEW n \in Nodes, NEW t \in Transfers, OnComplete(n, t)
    PROVE  Preserved
<1> DEFINE c == [kind |-> "complete", t |-> t]
<1>1. TypeOK /\ TransferHolds(t) /\ MessageHolds(n, c) /\ ctl[n] # <<>>
  BY Zenon, HeadHolds DEF TransfersInv, OnComplete
<1>2. from' = from /\ taking' = taking /\ \A u \in Transfers : Steady(u)
  BY Zenon DEF OnComplete, Steady, tasks
<1>3. ctl' \in [Nodes -> Seq(Message)] /\ NewsHolds
  BY Zenon, <1>1, PopNews DEF OnComplete
<1>4. CASE UNCHANGED <<rec, clean>>
  <2>1. TypeOK'
    BY Zenon, <1>1, <1>3, <1>4 DEF TypeOK, OnComplete, sessVars, tasks
  <2>2. \A u \in Transfers : SameRecords(u)
    BY Zenon, <1>4 DEF SameRecords
  <2> QED BY Zenon, <1>2, <1>3, <2>1, <2>2, StillStep
<1>5. CASE from[t] = n /\ Moves(n, t, "completed")
  <2>1. /\ n = Sender(t) /\ Receiver(t) \in Nodes /\ Receiver(t) # n
        /\ Sender(t)' = n /\ Receiver(t)' = Receiver(t)
    BY Zenon, <1>1, <1>2, <1>5, Ends DEF Sender, Receiver
  <2>2. rec[n][t].st = "transferring" /\ rec[Receiver(t)][t].st = "completed"
    BY Zenon, <1>1, <1>5, <2>1 DEF TransferHolds, Directed, Moves, CanTransition, Terminal, MessageHolds
  <2>3. /\ rec'[n][t].st = "completed" /\ rec'[Receiver(t)][t] = rec[Receiver(t)][t]
        /\ clean'[Receiver(t)][t] = clean[Receiver(t)][t]
    BY Zenon, <1>5, <2>1 DEF Moves, Writes, Marks
  <2>4. TypeOK'
    <3>1. /\ rec' \in [Nodes -> [Transfers -> Record]]
          /\ clean' \in [Nodes -> [Transfers -> {"no", "fail", "end", "tell", "done"}]]
      BY Zenon, <1>5 DEF Moves, Writes, Marks, Records
    <3> QED BY Zenon, <1>1, <1>3, <3>1 DEF TypeOK, OnComplete, sessVars, tasks
  <2>5. Aside(t)
    BY Zenon, <1>1, <1>2, <1>5, UntouchedRecords DEF Aside, Moves
  <2>6. Good(t)
    <3>1. Kept(t)
      BY ZenonT(60), <1>2, <2>1, <2>2, <2>3 DEF Kept, Promised!Next, Promised!Confirm, Steady
    <3>2. Directed(t)'
      BY ZenonT(60), <1>1, <1>2, <2>1, <2>2, <2>3 DEF TransferHolds, Directed, Steady, Terminal
    <3>3. ApprovalFollows(t)' /\ ReceivingFollows(t)' /\ PartialFollows(t)'
      BY Zenon, <1>1, <1>2, <2>1, <2>3 DEF TransferHolds, ApprovalFollows, ReceivingFollows, PartialFollows, OnComplete, tasks
    <3> QED BY Zenon, <2>1, <2>3, <3>1, <3>2, <3>3 DEF Good, TransferHolds
  <2> QED BY Zenon, <1>2, <1>3, <2>4, <2>5, <2>6, AsideStep
<1>6. UNCHANGED <<rec, clean>> \/ (from[t] = n /\ Moves(n, t, "completed"))
  <2>1. CASE from[t] = n
    <3>1. Transition(n, t, "completed", FALSE)
      BY Zenon, <2>1 DEF OnComplete
    <3> QED BY Zenon, <1>1, <2>1, <3>1, TransitionMoves
  <2>2. CASE from[t] # n
    BY Zenon, <2>2 DEF OnComplete
  <2> QED BY Zenon, <2>1, <2>2
<1> QED BY Zenon, <1>4, <1>5, <1>6

-----------------------------------------------------------------------------
(* await_approval.                                                         *)

Steps == {"none", "asking", "open", "record", "agree", "undo", "accept", "done"}

\* The approval of one transfer goes on without touching the others.
LEMMA ApprovalWrites ==
    ASSUME TypeOK, NEW t \in Transfers, NEW v \in Steps, appr' = [appr EXCEPT ![t] = v]
    PROVE  /\ appr' \in [Transfers -> Steps]
           /\ appr'[t] = v /\ \A u \in Transfers : u # t => appr'[u] = appr[u]
<1>1. appr \in [Transfers -> Steps]
  BY Zenon DEF TypeOK, Steps
<1> QED BY Zenon, <1>1

\* await_approval, on the person's answer or the timeout.
LEMMA AnswerInv ==
    ASSUME TransfersInv, NEW t \in Transfers, NEW yes \in BOOLEAN, Answer(t, yes)
    PROVE  Preserved
<1>1. TypeOK /\ appr[t] = "asking"
  BY Zenon DEF TransfersInv, Answer
<1>2. Receiver(t) \in Nodes
  BY Zenon, <1>1, Ends
<1>3. from' = from /\ taking' = taking /\ NewsHolds
  BY Zenon, <1>1, Quiet DEF Answer
<1>4. PICK v \in {"open", "done"} : appr' = [appr EXCEPT ![t] = v]
  BY Zenon DEF Answer
<1>5. appr' \in [Transfers -> Steps] /\ appr'[t] = v /\ \A u \in Transfers : u # t => appr'[u] = appr[u]
  BY Zenon, <1>1, <1>4, ApprovalWrites DEF Steps
<1>6. \A u \in Transfers : Steady(u)
  BY Zenon, <1>1, <1>5 DEF Steady, Answer
<1>7. CASE UNCHANGED <<rec, clean>>
  <2>1. TypeOK'
    BY Zenon, <1>1, <1>5, <1>7 DEF TypeOK, Answer, sessVars, Steps
  <2>2. \A u \in Transfers : SameRecords(u)
    BY Zenon, <1>7 DEF SameRecords
  <2> QED BY Zenon, <1>3, <1>6, <2>1, <2>2, StillStep
<1>8. CASE Fail(Receiver(t), t, IF yes THEN "revoked" ELSE "declined")
  <2>1. PICK next \in {"failed", "cancelled"} : Transition(Receiver(t), t, next, TRUE)
    BY Zenon, <1>2, <1>8, FailIsTransition
  <2>2. /\ rec' \in [Nodes -> [Transfers -> Record]]
        /\ clean' \in [Nodes -> [Transfers -> {"no", "fail", "end", "tell", "done"}]]
    BY Zenon, <1>1, <1>2, <2>1, TransitionTyped
  <2>3. TypeOK'
    BY Zenon, <1>1, <1>5, <2>2 DEF TypeOK, Answer, sessVars, Steps
  <2> QED BY Zenon, <1>2, <1>3, <1>6, <2>1, <2>3, FailStep
<1> QED BY Zenon, <1>7, <1>8 DEF Answer

\* await_approval, opening the partial file.
LEMMA OpenTempInv ==
    ASSUME TransfersInv, NEW t \in Transfers, OpenTemp(t)
    PROVE  Preserved
<1>1. TypeOK /\ TransferHolds(t) /\ appr[t] = "open"
  BY Zenon DEF TransfersInv, OpenTemp
<1>2. /\ Receiver(t) \in Nodes /\ from' = from /\ taking' = taking /\ NewsHolds
      /\ Sender(t)' = Sender(t) /\ Receiver(t)' = Receiver(t)
  BY Zenon, <1>1, Ends, Quiet DEF OpenTemp, Sender, Receiver
<1>3. CASE /\ part' = [part EXCEPT ![t] = TRUE]
           /\ appr' = [appr EXCEPT ![t] = "record"]
           /\ UNCHANGED <<rec, clean>>
  <2>1. appr' \in [Transfers -> Steps] /\ appr'[t] = "record" /\ \A u \in Transfers : u # t => appr'[u] = appr[u]
    BY Zenon, <1>1, <1>3, ApprovalWrites DEF Steps
  <2>2. part' \in [Transfers -> BOOLEAN] /\ \A u \in Transfers : u # t => part'[u] = part[u]
    <3>1. part \in [Transfers -> BOOLEAN]
      BY Zenon, <1>1 DEF TypeOK
    <3> QED BY Zenon, <1>3, <3>1
  <2>3. TypeOK'
    BY Zenon, <1>1, <1>3, <2>1, <2>2 DEF TypeOK, OpenTemp, sessVars, Steps
  <2>4. Aside(t) /\ SameRecords(t)
    BY Zenon, <1>3, <2>1, <2>2 DEF Aside, Steady, SameRecords, OpenTemp
  <2>5. ~ final[t] /\ rec[Receiver(t)][t].st # "none"
    BY Zenon, <1>1 DEF TransferHolds, PartialFollows, ApprovalFollows
  <2>6. final' = final /\ good' = good /\ run' = run /\ offer' = offer /\ clean' = clean /\ rec' = rec
    BY Zenon, <1>3 DEF OpenTemp
  <2>7. Good(t)
    <3>1. Kept(t)
      BY Zenon, <1>2, <2>6 DEF Kept, Promised!vars
    <3>2. Directed(t)' /\ ReceivingFollows(t)'
      BY Zenon, <1>1, <1>2, <2>6 DEF TransferHolds, Directed, ReceivingFollows
    <3>3. ApprovalFollows(t)'
      BY Zenon, <1>2, <2>1, <2>5, <2>6 DEF ApprovalFollows
    <3>4. PartialFollows(t)'
      BY Zenon, <1>1, <1>2, <2>1, <2>5, <2>6 DEF TransferHolds, PartialFollows
    <3> QED BY Zenon, <2>6, <3>1, <3>2, <3>3, <3>4 DEF Good, TransferHolds
  <2> QED BY Zenon, <1>2, <2>3, <2>4, <2>7, AsideStep
<1>4. CASE /\ appr' = [appr EXCEPT ![t] = "done"]
           /\ Fail(Receiver(t), t, "storage")
           /\ UNCHANGED part
  <2>1. appr' \in [Transfers -> Steps] /\ appr'[t] = "done" /\ \A u \in Transfers : u # t => appr'[u] = appr[u]
    BY Zenon, <1>1, <1>4, ApprovalWrites DEF Steps
  <2>2. \A u \in Transfers : Steady(u)
    BY Zenon, <1>1, <1>4, <2>1 DEF Steady, OpenTemp
  <2>3. PICK next \in {"failed", "cancelled"} : Transition(Receiver(t), t, next, TRUE)
    BY Zenon, <1>2, <1>4, FailIsTransition
  <2>4. /\ rec' \in [Nodes -> [Transfers -> Record]]
        /\ clean' \in [Nodes -> [Transfers -> {"no", "fail", "end", "tell", "done"}]]
    BY Zenon, <1>1, <1>2, <2>3, TransitionTyped
  <2>5. TypeOK'
    BY Zenon, <1>1, <1>4, <2>1, <2>4 DEF TypeOK, OpenTemp, sessVars, Steps
  <2> QED BY Zenon, <1>2, <2>2, <2>3, <2>5, FailStep
<1> QED BY Zenon, <1>3, <1>4 DEF OpenTemp

\* await_approval, recording the partial file.
LEMMA RecordTempInv ==
    ASSUME TransfersInv, NEW t \in Transfers, RecordTemp(t)
    PROVE  Preserved
<1> DEFINE n == Receiver(t)
<1>1. TypeOK /\ TransferHolds(t) /\ appr[t] = "record"
  BY Zenon DEF TransfersInv, RecordTemp
<1>2. /\ n \in Nodes /\ Sender(t) \in Nodes /\ Sender(t) # n
      /\ from' = from /\ taking' = taking /\ NewsHolds
      /\ Sender(t)' = Sender(t) /\ Receiver(t)' = n
  BY Zenon, <1>1, Ends, Quiet DEF RecordTemp, Sender, Receiver
<1>3. appr' \in [Transfers -> Steps] /\ appr'[t] = "agree" /\ \A u \in Transfers : u # t => appr'[u] = appr[u]
  BY Zenon, <1>1, ApprovalWrites DEF Steps, RecordTemp
<1>4. Writes(n, t, rec[n][t].st, TRUE)
  <2>1. PICK chal \in BOOLEAN : chal = (n = "acceptor")
    BY Zenon
  <2>2. rec' = [rec EXCEPT ![n][t].temp = TRUE, ![n][t].chal = chal]
    BY Zenon, <2>1 DEF RecordTemp
  <2> QED BY Zenon, <1>1, <1>2, <2>2, WriteTemp
<1>5. TypeOK'
  <2>1. rec' \in [Nodes -> [Transfers -> Record]]
    BY Zenon, <1>4 DEF Writes, Records
  <2> QED BY Zenon, <1>1, <1>3, <2>1 DEF TypeOK, RecordTemp, sessVars, Steps
<1>6. Aside(t)
  <2>1. clean' = clean
    BY Zenon DEF RecordTemp
  <2>2. \A u \in Transfers : u # t => SameRecords(u)
    BY Zenon, <1>1, <1>2, <1>4, <2>1, UntouchedRecords
  <2> QED BY Zenon, <1>3, <2>2 DEF Aside, Steady, RecordTemp
<1>7. /\ rec'[n][t].st = rec[n][t].st /\ rec'[n][t].temp = TRUE /\ rec'[Sender(t)][t] = rec[Sender(t)][t]
      /\ part' = part /\ final' = final /\ good' = good /\ run' = run /\ offer' = offer /\ clean' = clean
  BY Zenon, <1>2, <1>4 DEF Writes, RecordTemp
<1>8. Good(t)
  <2>1. Kept(t)
    BY Zenon, <1>2, <1>7 DEF Kept, Promised!vars
  <2>2. Directed(t)' /\ ReceivingFollows(t)'
    BY Zenon, <1>1, <1>2, <1>7 DEF TransferHolds, Directed, ReceivingFollows
  <2>3. ApprovalFollows(t)'
    BY Zenon, <1>1, <1>2, <1>3, <1>7 DEF TransferHolds, ApprovalFollows
  <2>4. PartialFollows(t)'
    BY Zenon, <1>1, <1>2, <1>3, <1>7 DEF TransferHolds, PartialFollows
  <2> QED BY Zenon, <1>7, <2>1, <2>2, <2>3, <2>4 DEF Good, TransferHolds
<1> QED BY Zenon, <1>2, <1>5, <1>6, <1>8, AsideStep

\* await_approval, agreeing: the record goes to transferring, or the partial file
\* is undone.
LEMMA AgreeInv ==
    ASSUME TransfersInv, NEW t \in Transfers, Agree(t)
    PROVE  Preserved
<1> DEFINE n == Receiver(t)
<1>1. TypeOK /\ TransferHolds(t) /\ appr[t] = "agree"
  BY Zenon DEF TransfersInv, Agree
<1>2. /\ n \in Nodes /\ Sender(t) \in Nodes /\ Sender(t) # n
      /\ from' = from /\ taking' = taking /\ NewsHolds
      /\ Sender(t)' = Sender(t) /\ Receiver(t)' = n
  BY Zenon, <1>1, Ends, Quiet DEF Agree, Sender, Receiver
<1>3. PICK v \in {"accept", "undo"} :
        /\ appr' = [appr EXCEPT ![t] = v]
        /\ v = "accept" <=> CanTransition(rec[n][t].st, "transferring")
  BY Zenon DEF Agree
<1>4. appr' \in [Transfers -> Steps] /\ appr'[t] = v /\ \A u \in Transfers : u # t => appr'[u] = appr[u]
  BY Zenon, <1>1, <1>3, ApprovalWrites DEF Steps
<1>5. Transition(n, t, "transferring", FALSE)
  BY Zenon DEF Agree
<1>6. TypeOK'
  <2>1. /\ rec' \in [Nodes -> [Transfers -> Record]]
        /\ clean' \in [Nodes -> [Transfers -> {"no", "fail", "end", "tell", "done"}]]
    BY Zenon, <1>1, <1>2, <1>5, TransitionTyped
  <2> QED BY Zenon, <1>1, <1>4, <2>1 DEF TypeOK, Agree, sessVars, Steps
<1>7. \A u \in Transfers : u # t => Steady(u)
  BY Zenon, <1>4 DEF Steady, Agree
<1>8. part' = part /\ final' = final /\ good' = good /\ run' = run /\ offer' = offer
  BY Zenon DEF Agree
<1>9. CASE Moves(n, t, "transferring")
  <2>1. rec[n][t].st = "waiting"
    BY Zenon, <1>1, <1>9 DEF Moves, CanTransition, TransferHolds, Directed, Terminal
  <2>2. /\ rec'[n][t].st = "transferring" /\ rec'[n][t].temp = rec[n][t].temp
        /\ rec'[Sender(t)][t] = rec[Sender(t)][t] /\ clean'[n][t] = clean[n][t]
    BY Zenon, <1>2, <1>9 DEF Moves, Writes, Marks, Terminal
  <2>3. Aside(t)
    BY Zenon, <1>1, <1>2, <1>7, <1>9, UntouchedRecords DEF Aside, Moves
  <2>4. Good(t)
    <3>1. Kept(t)
      BY Zenon, <1>2, <1>8, <2>1, <2>2 DEF Kept, Promised!Next, Promised!Agree
    <3>2. Directed(t)'
      BY Zenon, <1>1, <1>2, <1>8, <2>1, <2>2 DEF TransferHolds, Directed
    <3>3. ApprovalFollows(t)'
      BY Zenon, <1>2, <2>2 DEF ApprovalFollows
    <3>4. ReceivingFollows(t)'
      BY Zenon, <1>1, <1>2, <1>8, <2>1, <2>2 DEF TransferHolds, ReceivingFollows, Terminal
    <3>5. PartialFollows(t)'
      BY Zenon, <1>1, <1>2, <1>3, <1>4, <1>8, <2>1, <2>2 DEF TransferHolds, PartialFollows, Terminal
    <3> QED BY Zenon, <2>1, <2>2, <3>1, <3>2, <3>3, <3>4, <3>5 DEF Good, TransferHolds
  <2> QED BY Zenon, <1>2, <1>6, <2>3, <2>4, AsideStep
<1>10. CASE ~ CanTransition(rec[n][t].st, "transferring") /\ UNCHANGED <<rec, clean>>
  <2>1. Aside(t)
    BY Zenon, <1>7, <1>10 DEF Aside, SameRecords
  <2>2. Good(t)
    <3>1. Kept(t)
      BY Zenon, <1>2, <1>8, <1>10 DEF Kept, Promised!vars
    <3>2. Directed(t)' /\ ReceivingFollows(t)'
      BY Zenon, <1>1, <1>2, <1>8, <1>10 DEF TransferHolds, Directed, ReceivingFollows
    <3>3. ApprovalFollows(t)'
      BY Zenon, <1>1, <1>2, <1>3, <1>4, <1>10 DEF TransferHolds, ApprovalFollows
    <3>4. PartialFollows(t)'
      BY Zenon, <1>1, <1>2, <1>3, <1>4, <1>8, <1>10 DEF TransferHolds, PartialFollows
    <3> QED BY Zenon, <1>10, <3>1, <3>2, <3>3, <3>4 DEF Good, TransferHolds
  <2> QED BY Zenon, <1>2, <1>6, <2>1, <2>2, AsideStep
<1> QED BY Zenon, <1>1, <1>2, <1>5, <1>9, <1>10, TransitionMoves

\* The record of t at n knows of no partial file, and one it knew of is gone.
Cleaned(n, t) ==
    /\ rec' = rec \/ Writes(n, t, rec[n][t].st, FALSE)
    /\ rec' \in [Nodes -> [Transfers -> Record]] /\ part' \in [Transfers -> BOOLEAN]
    /\ rec'[n][t].st = rec[n][t].st /\ rec'[n][t].temp = FALSE
    /\ part'[t] => part[t] /\ ~ rec[n][t].temp
    /\ \A u \in Transfers : u # t => part'[u] = part[u]

\* Cleaning up removes the partial file that is on record, and that mark.
LEMMA CleanUpTempDoes ==
    ASSUME TypeOK, NEW n \in Nodes, NEW t \in Transfers, CleanUpTemp(n, t)
    PROVE  Cleaned(n, t)
<1>1. part \in [Transfers -> BOOLEAN] /\ rec \in [Nodes -> [Transfers -> Record]]
  BY Zenon DEF TypeOK
<1>2. rec[n][t].temp \in BOOLEAN
  BY Zenon, RecordTyped DEF Record
<1>3. CASE rec[n][t].temp
  <2>1. rec' = [rec EXCEPT ![n][t].temp = FALSE] /\ part' = [part EXCEPT ![t] = FALSE]
    BY Zenon, <1>3 DEF CleanUpTemp
  <2>2. Writes(n, t, rec[n][t].st, FALSE)
    BY Zenon, <2>1, WriteTemp
  <2>3. part' \in [Transfers -> BOOLEAN] /\ part'[t] = FALSE /\ \A u \in Transfers : u # t => part'[u] = part[u]
    BY Zenon, <1>1, <2>1
  <2> QED BY Zenon, <1>3, <2>2, <2>3 DEF Writes, Records, Cleaned
<1>4. CASE ~ rec[n][t].temp
  <2>1. rec' = rec /\ part' = part
    BY Zenon, <1>4 DEF CleanUpTemp
  <2>2. part[t] \in BOOLEAN
    BY Zenon, <1>1
  <2> QED BY Zenon, <1>1, <1>2, <1>4, <2>1, <2>2 DEF Cleaned
<1> QED BY Zenon, <1>3, <1>4

\* The yes that came too late removes the file it made.
LEMMA UndoTempInv ==
    ASSUME TransfersInv, NEW t \in Transfers, UndoTemp(t)
    PROVE  Preserved
<1> DEFINE n == Receiver(t)
<1>1. TypeOK /\ TransferHolds(t) /\ appr[t] = "undo" /\ CleanUpTemp(n, t)
  BY Zenon DEF TransfersInv, UndoTemp
<1>2. /\ n \in Nodes /\ Sender(t) \in Nodes /\ Sender(t) # n
      /\ from' = from /\ taking' = taking /\ NewsHolds
      /\ Sender(t)' = Sender(t) /\ Receiver(t)' = n
  BY Zenon, <1>1, Ends, Quiet DEF UndoTemp, Sender, Receiver
<1>3. appr' \in [Transfers -> Steps] /\ appr'[t] = "done" /\ \A u \in Transfers : u # t => appr'[u] = appr[u]
  BY Zenon, <1>1, ApprovalWrites DEF Steps, UndoTemp
<1>4. Cleaned(n, t)
  BY Zenon, <1>1, <1>2, CleanUpTempDoes
<1>5. /\ final' = final /\ good' = good /\ run' = run /\ offer' = offer /\ clean' = clean
      /\ rec'[Sender(t)][t] = rec[Sender(t)][t]
  BY Zenon, <1>2, <1>4 DEF UndoTemp, Cleaned, Writes
<1>6. TypeOK'
  BY Zenon, <1>1, <1>3, <1>4 DEF TypeOK, Cleaned, UndoTemp, sessVars, Steps
<1>7. Aside(t)
  <2>1. \A u \in Transfers : u # t => SameRecords(u)
    BY ZenonT(60), <1>1, <1>2, <1>4, <1>5, UntouchedRecords DEF Cleaned
  <2> QED BY Zenon, <1>3, <1>4, <1>5, <2>1 DEF Aside, Steady, Cleaned
<1>8. ~ part'[t]
  BY Zenon, <1>1, <1>4 DEF Cleaned, TransferHolds, PartialFollows
<1>9. Good(t)
  <2>1. Kept(t)
    BY Zenon, <1>2, <1>4, <1>5 DEF Cleaned, Kept, Promised!vars
  <2>2. Directed(t)' /\ ReceivingFollows(t)'
    BY ZenonT(60), <1>1, <1>2, <1>4, <1>5 DEF Cleaned, TransferHolds, Directed, ReceivingFollows
  <2>3. ApprovalFollows(t)'
    BY Zenon, <1>1, <1>2, <1>3, <1>4 DEF Cleaned, TransferHolds, ApprovalFollows
  <2>4. PartialFollows(t)'
    BY ZenonT(60), <1>1, <1>2, <1>3, <1>4, <1>5, <1>8 DEF Cleaned, TransferHolds, PartialFollows
  <2> QED BY SMTT(60), <1>4, <2>1, <2>2, <2>3, <2>4 DEF Cleaned, Good, TransferHolds
<1> QED BY Zenon, <1>2, <1>6, <1>7, <1>9, AsideStep

\* await_approval, sending the acceptance.
LEMMA SendAcceptInv ==
    ASSUME TransfersInv, NEW t \in Transfers, SendAccept(t)
    PROVE  Preserved
<1> DEFINE n == Receiver(t)
<1>1. TypeOK /\ TransferHolds(t) /\ appr[t] = "accept"
  BY Zenon DEF TransfersInv, SendAccept
<1>2. /\ n \in Nodes /\ from' = from /\ taking' = taking /\ Receiver(t)' = n
  BY Zenon, <1>1, Ends DEF SendAccept, Receiver
<1>3. appr' \in [Transfers -> Steps] /\ appr'[t] = "done" /\ \A u \in Transfers : u # t => appr'[u] = appr[u]
  BY Zenon, <1>1, ApprovalWrites DEF Steps, SendAccept
<1>4. \A u \in Transfers : Steady(u)
  BY Zenon, <1>1, <1>3 DEF Steady, SendAccept
<1>5. PICK sent \in BOOLEAN :
        /\ Send(n, rec[n][t].sess, "accept", t, sent)
        /\ IF sent THEN UNCHANGED <<rec, clean>> ELSE Fail(n, t, "transport")
        /\ spawned' = IF sent /\ n = "dialer" THEN [spawned EXCEPT ![t] = @ + 1] ELSE spawned
  BY Zenon DEF SendAccept
<1>6. spawned' \in [Transfers -> Nat]
  <2>1. spawned' = spawned \/ spawned' = [spawned EXCEPT ![t] = @ + 1]
    BY Zenon, <1>5
  <2> QED BY Zenon, <1>1, <2>1, SpawnTyped
<1>7. CASE sent
  <2>1. rec' = rec /\ clean' = clean
    BY Zenon, <1>5, <1>7
  <2>2. [kind |-> "accept", t |-> t] \in Message
    BY Zenon DEF Message
  <2>3. MessageHolds(Other(n), [kind |-> "accept", t |-> t])'
    BY Zenon, <1>1, <1>2, <2>1 DEF MessageHolds, TransferHolds, ApprovalFollows
  <2>4. ctl' \in [Nodes -> Seq(Message)] /\ NewsHolds
    BY Zenon, <1>1, <1>2, <1>5, <2>2, <2>3, SendNews
  <2>5. TypeOK'
    BY ZenonT(60), <1>1, <1>3, <1>6, <2>1, <2>4 DEF TypeOK, SendAccept, sessVars, Steps
  <2>6. \A u \in Transfers : SameRecords(u)
    BY Zenon, <2>1 DEF SameRecords
  <2> QED BY SMTT(60), <1>2, <1>4, <2>4, <2>5, <2>6, StillStep
<1>8. CASE ~ sent
  <2>1. ctl' = ctl /\ Fail(n, t, "transport")
    BY Zenon, <1>5, <1>8 DEF Send
  <2>2. PICK next \in {"failed", "cancelled"} : Transition(n, t, next, TRUE)
    BY Zenon, <1>2, <2>1, FailIsTransition
  <2>3. /\ rec' \in [Nodes -> [Transfers -> Record]]
        /\ clean' \in [Nodes -> [Transfers -> {"no", "fail", "end", "tell", "done"}]]
    BY Zenon, <1>1, <1>2, <2>2, TransitionTyped
  <2>4. TypeOK'
    BY Zenon, <1>1, <1>3, <1>6, <2>1, <2>3 DEF TypeOK, SendAccept, sessVars, Steps
  <2>5. NewsHolds
    BY Zenon, <1>1, <2>1, Quiet
  <2> QED BY Zenon, <1>2, <1>4, <2>2, <2>4, <2>5, FailStep
<1> QED BY Zenon, <1>7, <1>8

-----------------------------------------------------------------------------
(* The data stream is opened.                                              *)

\* A stream that gives up, or one of a sender, says nothing of the files.
LEMMA StreamSteady ==
    ASSUME TypeOK, NEW n \in Nodes, NEW t \in Transfers, NEW x, RunsTo(n, t, x),
           UNCHANGED <<part, final, good, offer, appr>>
    PROVE  \A u \in Transfers :
             u # t \/ n # Receiver(t) \/ x \in {"none", "ready", "unready", "plan", "lost", "done"} => Steady(u)
<1>1. \A u \in Transfers : Receiver(u) \in Nodes
  BY Zenon, Ends
<1> QED BY <1>1 DEF Steady, RunsTo

\* dial_and_run, taking the challenge.
LEMMA DialTakeInv ==
    ASSUME TransfersInv, NEW t \in Transfers, DialTake(t)
    PROVE  Preserved
<1>1. TypeOK /\ "dialer" \in Nodes
  BY Zenon DEF TransfersInv, Nodes
<1>2. /\ from' = from /\ taking' = taking /\ clean' = clean /\ NewsHolds
      /\ \A u \in Transfers : Steady(u)
  BY Zenon, <1>1, Quiet DEF DialTake, Steady
<1>3. rec' = rec \/ Writes("dialer", t, rec["dialer"][t].st, rec["dialer"][t].temp)
  <2>1. rec' = rec \/ rec' = [rec EXCEPT !["dialer"][t].chal = FALSE]
    BY Zenon DEF DialTake
  <2> QED BY Zenon, <1>1, <2>1, WriteFlags
<1>4. rec' \in [Nodes -> [Transfers -> Record]] /\ \A u \in Transfers : SameRecords(u)
  BY Zenon, <1>1, <1>2, <1>3, FlagsStill
<1>5. /\ spawned' \in [Transfers -> Nat]
      /\ dial' \in [Transfers -> {"none", "dial", "await", "done"}]
  <2>1. spawned \in [Transfers -> Nat] /\ dial \in [Transfers -> {"none", "dial", "await", "done"}]
    BY Zenon, <1>1 DEF TypeOK
  <2>2. spawned[t] > 0 /\ spawned[t] \in Nat /\ spawned' = [spawned EXCEPT ![t] = spawned[t] - 1]
    BY Zenon, <2>1 DEF DialTake
  <2>3. dial' = dial \/ dial' = [dial EXCEPT ![t] = "dial"]
    BY Zenon DEF DialTake
  <2> QED BY <2>1, <2>2, <2>3
<1>6. TypeOK'
  BY Zenon, <1>1, <1>4, <1>5 DEF TypeOK, DialTake, sessVars
<1> QED BY Zenon, <1>2, <1>4, <1>6, StillStep

\* The connection of a transfer keeps its type.
LEMMA ConnectionTyped ==
    ASSUME TypeOK, NEW t \in Transfers, NEW c \in {"none", "auth", "rejected", "ready", "broken", "over"},
           conn' = conn \/ conn' = [conn EXCEPT ![t] = c]
    PROVE  conn' \in [Transfers -> {"none", "auth", "rejected", "ready", "broken", "over"}]
<1>1. conn \in [Transfers -> {"none", "auth", "rejected", "ready", "broken", "over"}]
  BY Zenon DEF TypeOK
<1> QED BY Zenon, <1>1

\* So does its dialling.
LEMMA DialTyped ==
    ASSUME TypeOK, NEW t \in Transfers, NEW d \in {"await", "done"}, dial' = [dial EXCEPT ![t] = d]
    PROVE  dial' \in [Transfers -> {"none", "dial", "await", "done"}]
<1>1. dial \in [Transfers -> {"none", "dial", "await", "done"}]
  BY Zenon DEF TypeOK
<1> QED BY Zenon, <1>1

\* dial_and_run, the connection and the proof.
LEMMA DialConnectInv ==
    ASSUME TransfersInv, NEW t \in Transfers, DialConnect(t)
    PROVE  Preserved
<1>1. TypeOK /\ "dialer" \in Nodes
  BY Zenon DEF TransfersInv, Nodes
<1>2. from' = from /\ taking' = taking /\ NewsHolds /\ \A u \in Transfers : Steady(u)
  BY Zenon, <1>1, Quiet DEF DialConnect, Steady
<1>3. conn' \in [Transfers -> {"none", "auth", "rejected", "ready", "broken", "over"}]
  <2>1. conn' = conn \/ conn' = [conn EXCEPT ![t] = "auth"]
    BY Zenon DEF DialConnect
  <2> QED BY Zenon, <1>1, <2>1, ConnectionTyped
<1>4. dial' \in [Transfers -> {"none", "dial", "await", "done"}]
  <2>1. PICK d \in {"await", "done"} : dial' = [dial EXCEPT ![t] = d]
    BY Zenon DEF DialConnect
  <2> QED BY Zenon, <1>1, <2>1, DialTyped
<1>5. CASE UNCHANGED <<rec, clean>>
  <2>1. TypeOK'
    BY Zenon, <1>1, <1>3, <1>4, <1>5 DEF TypeOK, DialConnect, sessVars
  <2>2. \A u \in Transfers : SameRecords(u)
    BY Zenon, <1>5 DEF SameRecords
  <2> QED BY Zenon, <1>2, <2>1, <2>2, StillStep
<1>6. CASE Fail("dialer", t, "transport")
  <2>1. PICK next \in {"failed", "cancelled"} : Transition("dialer", t, next, TRUE)
    BY Zenon, <1>1, <1>6, FailIsTransition
  <2>2. /\ rec' \in [Nodes -> [Transfers -> Record]]
        /\ clean' \in [Nodes -> [Transfers -> {"no", "fail", "end", "tell", "done"}]]
    BY Zenon, <1>1, <2>1, TransitionTyped
  <2>3. TypeOK'
    BY Zenon, <1>1, <1>3, <1>4, <2>2 DEF TypeOK, DialConnect, sessVars
  <2> QED BY Zenon, <1>1, <1>2, <2>1, <2>3, FailStep
<1> QED BY Zenon, <1>5, <1>6 DEF DialConnect

\* accept_data_stream and check_stream.
LEMMA CheckStreamInv ==
    ASSUME TransfersInv, NEW t \in Transfers, CheckStream(t)
    PROVE  Preserved
<1>1. TypeOK /\ "acceptor" \in Nodes
  BY Zenon DEF TransfersInv, Nodes
<1>2. from' = from /\ taking' = taking /\ clean' = clean /\ NewsHolds
  BY Zenon, <1>1, Quiet DEF CheckStream, tasks
<1>3. PICK x \in {"ready", "done"} : Runs("acceptor", t, x)
  BY Zenon DEF CheckStream
<1>4. RunsTo("acceptor", t, x)
  BY Zenon, <1>1, <1>3, RunsWrites
<1>5. \A u \in Transfers : Steady(u)
  <2>1. UNCHANGED <<part, final, good, offer, appr>>
    BY Zenon DEF CheckStream, tasks
  <2> QED BY Zenon, <1>1, <1>4, <2>1, StreamSteady
<1>6. rec' = rec \/ Writes("acceptor", t, rec["acceptor"][t].st, rec["acceptor"][t].temp)
  <2>1. rec' = rec \/ rec' = [rec EXCEPT !["acceptor"][t].chal = FALSE, !["acceptor"][t].active = TRUE]
    BY Zenon DEF CheckStream
  <2> QED BY Zenon, <1>1, <2>1, WriteFlags
<1>7. rec' \in [Nodes -> [Transfers -> Record]] /\ \A u \in Transfers : SameRecords(u)
  BY Zenon, <1>1, <1>2, <1>6, FlagsStill
<1>8. conn' \in [Transfers -> {"none", "auth", "rejected", "ready", "broken", "over"}]
  <2>1. conn' = conn \/ conn' = [conn EXCEPT ![t] = "rejected"]
    BY Zenon DEF CheckStream
  <2> QED BY Zenon, <1>1, <2>1, ConnectionTyped
<1>9. TypeOK'
  <2>1. run' \in [Nodes -> [Transfers -> Stream]]
    BY Zenon, <1>4 DEF RunsTo
  <2> QED BY Zenon, <1>1, <1>7, <1>8, <2>1 DEF TypeOK, CheckStream, sessVars, tasks
<1> QED BY Zenon, <1>2, <1>5, <1>7, <1>9, StillStep

\* DataStreamReady is written.
LEMMA WriteReadyInv ==
    ASSUME TransfersInv, NEW t \in Transfers, WriteReady(t)
    PROVE  Preserved
<1>1. TypeOK /\ "acceptor" \in Nodes
  BY Zenon DEF TransfersInv, Nodes
<1>2. from' = from /\ taking' = taking /\ NewsHolds /\ \A u \in Transfers : SameRecords(u)
  BY Zenon, <1>1, Quiet DEF WriteReady, tasks, SameRecords
<1>3. PICK x \in {"plan", "unready"} : Runs("acceptor", t, x)
  BY Zenon DEF WriteReady
<1>4. RunsTo("acceptor", t, x)
  BY Zenon, <1>1, <1>3, RunsWrites
<1>5. \A u \in Transfers : Steady(u)
  <2>1. UNCHANGED <<part, final, good, offer, appr>>
    BY Zenon DEF WriteReady, tasks
  <2> QED BY Zenon, <1>1, <1>4, <2>1, StreamSteady
<1>6. conn' \in [Transfers -> {"none", "auth", "rejected", "ready", "broken", "over"}]
  <2>1. conn \in [Transfers -> {"none", "auth", "rejected", "ready", "broken", "over"}]
    BY Zenon, <1>1 DEF TypeOK
  <2>2. conn' = conn \/ conn' = [conn EXCEPT ![t] = IF @ = "auth" THEN "ready" ELSE @]
    BY Zenon DEF WriteReady
  <2> QED BY Zenon, <2>1, <2>2
<1>7. TypeOK'
  <2>1. run' \in [Nodes -> [Transfers -> Stream]]
    BY Zenon, <1>4 DEF RunsTo
  <2> QED BY Zenon, <1>1, <1>6, <2>1 DEF TypeOK, WriteReady, sessVars, tasks
<1> QED BY Zenon, <1>2, <1>5, <1>7, StillStep

\* The dialer reads it.
LEMMA ReadReadyInv ==
    ASSUME TransfersInv, NEW t \in Transfers, ReadReady(t)
    PROVE  Preserved
<1>1. TypeOK /\ "dialer" \in Nodes
  BY Zenon DEF TransfersInv, Nodes
<1>2. /\ from' = from /\ taking' = taking /\ NewsHolds
      /\ UNCHANGED <<part, final, good, offer, appr>>
  BY Zenon, <1>1, Quiet DEF ReadReady
<1>3. /\ conn' \in [Transfers -> {"none", "auth", "rejected", "ready", "broken", "over"}]
      /\ dial' \in [Transfers -> {"none", "dial", "await", "done"}]
  BY Zenon, <1>1, ConnectionTyped, DialTyped DEF ReadReady
<1>4. CASE rec' = [rec EXCEPT !["dialer"][t].active = TRUE] /\ Runs("dialer", t, "plan") /\ UNCHANGED clean
  <2>1. RunsTo("dialer", t, "plan")
    BY Zenon, <1>1, <1>4, RunsWrites
  <2>2. \A u \in Transfers : Steady(u)
    BY Zenon, <1>1, <1>2, <2>1, StreamSteady
  <2>3. rec' \in [Nodes -> [Transfers -> Record]] /\ \A u \in Transfers : SameRecords(u)
    BY Zenon, <1>1, <1>4, WriteFlags, FlagsStill
  <2>4. TypeOK'
    <3>1. run' \in [Nodes -> [Transfers -> Stream]]
      BY Zenon, <2>1 DEF RunsTo
    <3> QED BY Zenon, <1>1, <1>3, <1>4, <2>3, <3>1 DEF TypeOK, ReadReady, sessVars
  <2> QED BY Zenon, <1>2, <2>2, <2>3, <2>4, StillStep
<1>5. CASE Fail("dialer", t, "peer") /\ UNCHANGED run
  <2>1. PICK next \in {"failed", "cancelled"} : Transition("dialer", t, next, TRUE)
    BY ZenonT(60), <1>1, <1>5, FailIsTransition
  <2>2. /\ rec' \in [Nodes -> [Transfers -> Record]]
        /\ clean' \in [Nodes -> [Transfers -> {"no", "fail", "end", "tell", "done"}]]
    BY Zenon, <1>1, <2>1, TransitionTyped
  <2>3. TypeOK'
    BY Zenon, <1>1, <1>3, <1>5, <2>2 DEF TypeOK, ReadReady, sessVars
  <2>4. \A u \in Transfers : Steady(u)
    BY Zenon, <1>2, <1>5 DEF Steady
  <2> QED BY Zenon, <1>1, <1>2, <2>1, <2>3, <2>4, FailStep
<1> QED BY Zenon, <1>4, <1>5 DEF ReadReady

-----------------------------------------------------------------------------
(* The data stream is run.                                                 *)

Beside == <<from, part, final, sessVars, ctl, grant, revoking, tasks, conn, reap, good, trouble>>

\* A step of a data stream that leaves the rest alone brings no news.
LEMMA BesideStays ==
    ASSUME TypeOK, UNCHANGED Beside
    PROVE  /\ from' = from /\ taking' = taking /\ NewsHolds
           /\ UNCHANGED <<part, final, good, offer, appr>>
           /\ \A u \in Transfers : Sender(u)' = Sender(u) /\ Receiver(u)' = Receiver(u)
BY Zenon, Quiet DEF Beside, tasks, Sender, Receiver

\* Where only records, streams and what is left to clean change, they alone are
\* to be typed.
LEMMA BesideTyped ==
    ASSUME TypeOK, UNCHANGED Beside,
           rec' \in [Nodes -> [Transfers -> Record]], run' \in [Nodes -> [Transfers -> Stream]],
           clean' \in [Nodes -> [Transfers -> {"no", "fail", "end", "tell", "done"}]]
    PROVE  TypeOK'
BY Zenon DEF TypeOK, Beside, sessVars, tasks

\* Records, streams and marks are typed.
LEMMA RecordsTyped ==
    ASSUME TypeOK
    PROVE  /\ rec \in [Nodes -> [Transfers -> Record]] /\ run \in [Nodes -> [Transfers -> Stream]]
           /\ clean \in [Nodes -> [Transfers -> {"no", "fail", "end", "tell", "done"}]]
BY Zenon DEF TypeOK

\* A stream that fails its transfer.
LEMMA StreamFails ==
    ASSUME TransfersInv, NEW n \in Nodes, NEW t \in Transfers, NEW why, Fail(n, t, why),
           Runs(n, t, "done"), UNCHANGED Beside
    PROVE  Preserved
<1>1. TypeOK
  BY Zenon DEF TransfersInv
<1>2. from' = from /\ taking' = taking /\ NewsHolds /\ UNCHANGED <<part, final, good, offer, appr>>
  BY Zenon, <1>1, BesideStays
<1>3. RunsTo(n, t, "done")
  BY Zenon, <1>1, RunsWrites
<1>4. \A u \in Transfers : Steady(u)
  BY Zenon, <1>1, <1>2, <1>3, StreamSteady
<1>5. PICK next \in {"failed", "cancelled"} : Transition(n, t, next, TRUE)
  BY Zenon, FailIsTransition
<1>6. /\ rec' \in [Nodes -> [Transfers -> Record]]
      /\ clean' \in [Nodes -> [Transfers -> {"no", "fail", "end", "tell", "done"}]]
  BY Zenon, <1>1, <1>5, TransitionTyped
<1>7. TypeOK'
  <2>1. run' \in [Nodes -> [Transfers -> Stream]]
    BY Zenon, <1>3 DEF RunsTo
  <2> QED BY Zenon, <1>1, <1>6, <2>1, BesideTyped
<1> QED BY Zenon, <1>2, <1>4, <1>5, <1>7, FailStep

\* A stream that goes on to x, with what run_receive knows at x.
LEMMA StreamGoesOn ==
    ASSUME TransfersInv, NEW n \in Nodes, NEW t \in Transfers, NEW x, RunsTo(n, t, x),
           UNCHANGED Beside, clean' = clean,
           rec' = rec \/ Writes(n, t, rec[n][t].st, rec[n][t].temp),
           n = Receiver(t) => \/ x \in {"none", "ready", "unready", "plan", "lost", "done"}
                              \/ x = "copy" /\ ~ final[t]
                              \/ /\ x = "promote" /\ good[t] /\ ~ final[t]
                                 /\ rec[n][t].st \in {"verifying", "failed", "cancelled"}
    PROVE  Preserved
<1>1. TypeOK /\ TransferHolds(t)
  BY Zenon DEF TransfersInv
<1>2. /\ from' = from /\ taking' = taking /\ NewsHolds /\ UNCHANGED <<part, final, good, offer, appr>>
      /\ Sender(t)' = Sender(t) /\ Receiver(t)' = Receiver(t)
  BY Zenon, <1>1, BesideStays
<1>3. rec' \in [Nodes -> [Transfers -> Record]] /\ \A u \in Transfers : SameRecords(u)
  BY Zenon, <1>1, FlagsStill
<1>4. TypeOK'
  <2>1. run' \in [Nodes -> [Transfers -> Stream]]
    BY Zenon DEF RunsTo
  <2> QED BY Zenon, <1>1, <1>3, <2>1, RecordsTyped, BesideTyped
<1>5. CASE n # Receiver(t) \/ x \in {"none", "ready", "unready", "plan", "lost", "done"}
  <2>1. \A u \in Transfers : Steady(u)
    BY Zenon, <1>1, <1>2, <1>5, StreamSteady
  <2> QED BY Zenon, <1>2, <1>3, <1>4, <2>1, StillStep
<1>6. CASE /\ n = Receiver(t)
           /\ \/ x = "copy" /\ ~ final[t]
              \/ /\ x = "promote" /\ good[t] /\ ~ final[t]
                 /\ rec[n][t].st \in {"verifying", "failed", "cancelled"}
  <2>1. Aside(t)
    BY Zenon, <1>1, <1>2, <1>3, StreamSteady DEF Aside
  <2>2. run'[Receiver(t)][t].at = x /\ SameRecords(t)
    BY Zenon, <1>3, <1>6 DEF RunsTo
  <2>3. Good(t)
    <3>1. Kept(t)
      BY Zenon, <1>2, <2>2 DEF Kept, Promised!vars, SameRecords
    <3>2. Directed(t)' /\ ApprovalFollows(t)'
      BY Zenon, <1>1, <1>2, <2>2 DEF TransferHolds, Directed, ApprovalFollows, SameRecords
    <3>3. ReceivingFollows(t)'
      BY Zenon, <1>1, <1>2, <1>6, <2>2 DEF TransferHolds, ReceivingFollows, SameRecords
    <3>4. PartialFollows(t)'
      BY Zenon, <1>1, <1>2, <2>2 DEF TransferHolds, PartialFollows, SameRecords
    <3> QED BY Zenon, <2>2, <3>1, <3>2, <3>3, <3>4 DEF Good, TransferHolds, SameRecords
  <2> QED BY Zenon, <1>2, <1>4, <2>1, <2>3, AsideStep
<1> QED BY Zenon, <1>5, <1>6

\* run_stream, its plan, at either end.
LEMMA PlanInv ==
    ASSUME TransfersInv, NEW n \in Nodes, NEW t \in Transfers, Plan(n, t)
    PROVE  Preserved
<1>1. TypeOK /\ TransferHolds(t) /\ UNCHANGED Beside
  BY Zenon DEF TransfersInv, Plan, Beside
<1>2. CASE Fail(n, t, "storage") /\ Runs(n, t, "done")
  BY Zenon, <1>1, <1>2, StreamFails
<1>3. CASE /\ n = Receiver(t) => rec[n][t].temp /\ part[t]
           /\ run' = [run EXCEPT ![n][t] = [at |-> "copy", deaf |-> rec[n][t].st \in Terminal, res |-> None]]
           /\ UNCHANGED <<rec, clean>>
  <2> DEFINE r == [at |-> "copy", deaf |-> rec[n][t].st \in Terminal, res |-> None]
  <2>1. r \in Stream /\ r.at = "copy"
    BY SMTT(60) DEF Stream
  <2> HIDE DEF r
  <2>2. RunsTo(n, t, "copy")
    BY Zenon, <1>1, <1>3, <2>1, WriteStream DEF r
  <2>3. n = Receiver(t) => ~ final[t]
    BY Zenon, <1>1, <1>3 DEF TransferHolds, PartialFollows
  <2> QED BY Zenon, <1>1, <1>3, <2>2, <2>3, StreamGoesOn
<1> QED BY Zenon, <1>2, <1>3 DEF Plan

\* A stream that is lost is so at one place only.
LEMMA LostWrites ==
    ASSUME TypeOK, NEW n \in Nodes, NEW t \in Transfers, Lost(n, t)
    PROVE  RunsTo(n, t, "lost")
<1>1. PICK res \in {"cancelled by user", "transport"} :
        run' = [run EXCEPT ![n][t] = [at |-> "lost", deaf |-> FALSE, res |-> res]]
  BY Zenon DEF Lost
<1>2. [at |-> "lost", deaf |-> FALSE, res |-> res] \in Stream
  BY Zenon DEF Stream, Cancellations
<1> QED BY Zenon, <1>1, <1>2, WriteStream

\* The sender's copy ends.
LEMMA SendEndsInv ==
    ASSUME TransfersInv, NEW t \in Transfers, SendEnds(t)
    PROVE  Preserved
<1> DEFINE n == Sender(t)
<1>1. TypeOK /\ UNCHANGED Beside /\ clean' = clean
  BY Zenon DEF TransfersInv, SendEnds, Beside
<1>2. n \in Nodes /\ n # Receiver(t)
  BY Zenon, <1>1, Ends
<1>3. PICK x \in {"done", "lost"} : RunsTo(n, t, x)
  BY Zenon, <1>1, <1>2, LostWrites, RunsWrites DEF SendEnds
<1>4. Writes(n, t, rec[n][t].st, rec[n][t].temp)
  BY Zenon, <1>1, <1>2, WriteFlags DEF SendEnds
<1> QED BY <1>1, <1>2, <1>3, <1>4, StreamGoesOn

\* The receiver's copy ends.
LEMMA ReceiveEndsInv ==
    ASSUME TransfersInv, NEW t \in Transfers, ReceiveEnds(t)
    PROVE  Preserved
<1> DEFINE n == Receiver(t)
<1>1. TypeOK /\ TransferHolds(t) /\ clean' = clean /\ run[n][t].at = "copy"
  BY Zenon DEF TransfersInv, ReceiveEnds
<1>2. n \in Nodes
  BY Zenon, <1>1, Ends
<1>3. Writes(n, t, rec[n][t].st, rec[n][t].temp)
  BY Zenon, <1>1, <1>2, WriteFlags DEF ReceiveEnds
<1>4. CASE Lost(n, t) /\ UNCHANGED good
  <2>1. UNCHANGED Beside /\ RunsTo(n, t, "lost")
    BY Zenon, <1>1, <1>2, <1>4, LostWrites DEF ReceiveEnds, Beside
  <2> QED BY Zenon, <1>1, <1>2, <1>3, <2>1, StreamGoesOn
<1>5. CASE Runs(n, t, "got") /\ \E ok \in BOOLEAN : good' = [good EXCEPT ![t] = ok]
  <2>1. RunsTo(n, t, "got")
    BY Zenon, <1>1, <1>2, <1>5, RunsWrites
  <2>2. good' \in [Transfers -> BOOLEAN] /\ \A u \in Transfers : u # t => good'[u] = good[u]
    <3>1. good \in [Transfers -> BOOLEAN]
      BY Zenon, <1>1 DEF TypeOK
    <3> QED BY Zenon, <1>5, <3>1
  <2>3. rec' \in [Nodes -> [Transfers -> Record]] /\ \A u \in Transfers : SameRecords(u)
    BY Zenon, <1>1, <1>2, <1>3, FlagsStill
  <2>4. TypeOK'
    <3>1. run' \in [Nodes -> [Transfers -> Stream]]
      BY Zenon, <2>1 DEF RunsTo
    <3> QED BY Zenon, <1>1, <2>2, <2>3, <3>1 DEF TypeOK, ReceiveEnds, sessVars, tasks
  <2>5. /\ from' = from /\ taking' = taking /\ NewsHolds
        /\ part' = part /\ final' = final /\ offer' = offer /\ appr' = appr
        /\ Sender(t)' = Sender(t) /\ Receiver(t)' = n
    BY Zenon, <1>1, Quiet DEF ReceiveEnds, tasks, Sender, Receiver
  <2>6. Aside(t)
    <3>1. \A u \in Transfers : Receiver(u) \in Nodes
      BY Zenon, <1>1, Ends
    <3>2. \A u \in Transfers : u # t => run'[Receiver(u)][u] = run[Receiver(u)][u]
      BY Zenon, <2>1, <3>1 DEF RunsTo
    <3> QED BY Zenon, <2>2, <2>3, <2>5, <3>2 DEF Aside, Steady
  <2>7. ~ final[t] /\ run'[n][t].at = "got" /\ SameRecords(t)
    BY Zenon, <1>1, <2>1, <2>3 DEF TransferHolds, ReceivingFollows, RunsTo
  <2>8. Good(t)
    <3>1. Kept(t)
      BY Zenon, <2>5, <2>7 DEF Kept, Promised!vars, SameRecords
    <3>2. Directed(t)' /\ ApprovalFollows(t)'
      BY Zenon, <1>1, <2>5, <2>7 DEF TransferHolds, Directed, ApprovalFollows, SameRecords
    <3>3. ReceivingFollows(t)'
      BY Zenon, <1>1, <2>5, <2>7 DEF TransferHolds, ReceivingFollows, SameRecords
    <3>4. PartialFollows(t)'
      BY Zenon, <1>1, <2>5, <2>7 DEF TransferHolds, PartialFollows, SameRecords
    <3> QED BY Zenon, <2>7, <3>1, <3>2, <3>3, <3>4 DEF Good, TransferHolds, SameRecords
  <2> QED BY Zenon, <2>4, <2>5, <2>6, <2>8, AsideStep
<1> QED BY Zenon, <1>4, <1>5 DEF ReceiveEnds

\* The copy fails at either end.
LEMMA CopyFailsInv ==
    ASSUME TransfersInv, NEW n \in Nodes, NEW t \in Transfers, CopyFails(n, t)
    PROVE  Preserved
<1>1. UNCHANGED Beside /\ Fail(n, t, run[n][t].res) /\ Runs(n, t, "done")
  BY Zenon DEF CopyFails, Beside
<1> QED BY Zenon, <1>1, StreamFails

\* The receiver syncs its file and goes on to verifying.
LEMMA SyncInv ==
    ASSUME TransfersInv, NEW t \in Transfers, Sync(t)
    PROVE  Preserved
<1> DEFINE n == Receiver(t)
<1>1. TypeOK /\ TransferHolds(t) /\ UNCHANGED Beside /\ run[n][t].at = "got"
  BY Zenon DEF TransfersInv, Sync, Beside
<1>2. /\ n \in Nodes /\ Sender(t) \in Nodes /\ Sender(t) # n
      /\ from' = from /\ taking' = taking /\ NewsHolds /\ UNCHANGED <<part, final, good, offer, appr>>
      /\ Sender(t)' = Sender(t) /\ Receiver(t)' = n
  BY Zenon, <1>1, Ends, BesideStays
<1>3. CASE Fail(n, t, "storage") /\ Runs(n, t, "done")
  BY Zenon, <1>1, <1>2, <1>3, StreamFails
<1>4. CASE ~ CanTransition(rec[n][t].st, "verifying") /\ Runs(n, t, "done") /\ UNCHANGED <<rec, clean>>
  <2>1. RunsTo(n, t, "done")
    BY Zenon, <1>1, <1>2, <1>4, RunsWrites
  <2> QED BY Zenon, <1>1, <1>2, <1>4, <2>1, StreamGoesOn
<1>5. CASE Moves(n, t, "verifying") /\ Runs(n, t, "verify")
  <2>1. RunsTo(n, t, "verify")
    BY Zenon, <1>1, <1>2, <1>5, RunsWrites
  <2>2. rec[n][t].st = "transferring" /\ ~ final[t]
    BY Zenon, <1>1, <1>5 DEF Moves, CanTransition, TransferHolds, ReceivingFollows
  <2>3. /\ rec'[n][t].st = "verifying" /\ rec'[n][t].temp = rec[n][t].temp
        /\ rec'[Sender(t)][t] = rec[Sender(t)][t] /\ clean'[n][t] = clean[n][t]
        /\ run'[n][t].at = "verify"
    BY Zenon, <1>2, <1>5, <2>1 DEF Moves, Writes, Marks, Terminal, RunsTo
  <2>4. TypeOK'
    <3>1. /\ rec' \in [Nodes -> [Transfers -> Record]] /\ run' \in [Nodes -> [Transfers -> Stream]]
          /\ clean' \in [Nodes -> [Transfers -> {"no", "fail", "end", "tell", "done"}]]
      BY Zenon, <1>5, <2>1 DEF Moves, Writes, Marks, RunsTo, Records
    <3> QED BY Zenon, <1>1, <3>1, BesideTyped
  <2>5. Aside(t)
    <3>1. \A u \in Transfers : u # t => SameRecords(u)
      BY Zenon, <1>1, <1>2, <1>5, UntouchedRecords DEF Moves
    <3> QED BY Zenon, <1>1, <1>2, <2>1, <3>1, StreamSteady DEF Aside
  <2>6. Good(t)
    <3>1. Kept(t)
      BY Zenon, <1>2, <2>2, <2>3 DEF Kept, Promised!Next, Promised!Check
    <3>2. Directed(t)'
      BY Zenon, <1>1, <1>2, <2>3 DEF TransferHolds, Directed
    <3>3. ApprovalFollows(t)'
      BY Zenon, <1>2, <2>3 DEF ApprovalFollows
    <3>4. ReceivingFollows(t)'
      BY Zenon, <1>1, <1>2, <2>2, <2>3 DEF TransferHolds, ReceivingFollows
    <3>5. PartialFollows(t)'
      BY Zenon, <1>1, <1>2, <2>2, <2>3 DEF TransferHolds, PartialFollows, Terminal
    <3> QED BY Zenon, <2>2, <2>3, <3>1, <3>2, <3>3, <3>4, <3>5 DEF Good, TransferHolds
  <2> QED BY Zenon, <1>2, <2>4, <2>5, <2>6, AsideStep
<1>6. ASSUME Runs(n, t, IF CanTransition(rec[n][t].st, "verifying") THEN "verify" ELSE "done"),
             Transition(n, t, "verifying", FALSE)
      PROVE  Preserved
  <2>1. \/ Moves(n, t, "verifying")
        \/ ~ CanTransition(rec[n][t].st, "verifying") /\ UNCHANGED <<rec, clean>>
    BY Zenon, <1>1, <1>2, <1>6, TransitionMoves
  <2> QED BY Zenon, <1>4, <1>5, <1>6, <2>1 DEF Moves
<1> QED BY Zenon, <1>3, <1>6 DEF Sync

\* The receiver compares size and hash.
LEMMA VerifyInv ==
    ASSUME TransfersInv, NEW t \in Transfers, Verify(t)
    PROVE  Preserved
<1> DEFINE n == Receiver(t)
<1>1. TypeOK /\ TransferHolds(t) /\ UNCHANGED Beside /\ run[n][t].at = "verify"
  BY Zenon DEF TransfersInv, Verify, Beside
<1>2. n \in Nodes
  BY Zenon, <1>1, Ends
<1>3. CASE good[t]
  <2>1. Runs(n, t, "promote") /\ UNCHANGED <<rec, clean>>
    BY Zenon, <1>3 DEF Verify
  <2>2. RunsTo(n, t, "promote")
    BY Zenon, <1>1, <1>2, <2>1, RunsWrites
  <2>3. rec[n][t].st \in {"verifying", "failed", "cancelled"} /\ ~ final[t]
    BY Zenon, <1>1 DEF TransferHolds, ReceivingFollows
  <2> QED BY Zenon, <1>1, <1>2, <1>3, <2>1, <2>2, <2>3, StreamGoesOn
<1>4. CASE ~ good[t]
  <2>1. Fail(n, t, "integrity") /\ Runs(n, t, "done")
    BY Zenon, <1>4 DEF Verify
  <2> QED BY Zenon, <1>1, <1>2, <2>1, StreamFails
<1> QED BY Zenon, <1>3, <1>4

\* The file that gets its final name has been verified.
LEMMA PromoteInv ==
    ASSUME TransfersInv, NEW t \in Transfers, Promote(t)
    PROVE  Preserved
<1> DEFINE n == Receiver(t)
<1>1. TypeOK /\ TransferHolds(t) /\ run[n][t].at = "promote"
  BY Zenon DEF TransfersInv, Promote
<1>2. n \in Nodes
  BY Zenon, <1>1, Ends
<1>3. CASE Fail(n, t, "storage") /\ Runs(n, t, "done") /\ UNCHANGED <<part, final>>
  <2>1. UNCHANGED Beside
    BY Zenon, <1>3 DEF Promote, Beside
  <2> QED BY Zenon, <1>2, <1>3, <2>1, StreamFails
<1>4. CASE /\ part[t]
           /\ part' = [part EXCEPT ![t] = FALSE]
           /\ final' = [final EXCEPT ![t] = TRUE]
           /\ Runs(n, t, "stored")
           /\ UNCHANGED <<rec, clean>>
  <2>1. RunsTo(n, t, "stored")
    BY Zenon, <1>1, <1>2, <1>4, RunsWrites
  <2>2. /\ part' \in [Transfers -> BOOLEAN] /\ final' \in [Transfers -> BOOLEAN]
        /\ ~ part'[t] /\ final'[t]
        /\ \A u \in Transfers : u # t => part'[u] = part[u] /\ final'[u] = final[u]
    <3>1. part \in [Transfers -> BOOLEAN] /\ final \in [Transfers -> BOOLEAN]
      BY Zenon, <1>1 DEF TypeOK
    <3> QED BY Zenon, <1>4, <3>1
  <2>3. /\ from' = from /\ taking' = taking /\ NewsHolds /\ good' = good /\ offer' = offer /\ appr' = appr
        /\ Sender(t)' = Sender(t) /\ Receiver(t)' = n
    BY Zenon, <1>1, Quiet DEF Promote, tasks, Sender, Receiver
  <2>4. TypeOK'
    <3>1. run' \in [Nodes -> [Transfers -> Stream]]
      BY Zenon, <2>1 DEF RunsTo
    <3> QED BY Zenon, <1>1, <1>4, <2>2, <3>1 DEF TypeOK, Promote, sessVars, tasks
  <2>5. Aside(t)
    <3>1. \A u \in Transfers : Receiver(u) \in Nodes
      BY Zenon, <1>1, Ends
    <3>2. \A u \in Transfers : u # t => run'[Receiver(u)][u] = run[Receiver(u)][u]
      BY Zenon, <2>1, <3>1 DEF RunsTo
    <3> QED BY Zenon, <1>4, <2>2, <2>3, <3>2 DEF Aside, Steady, SameRecords
  <2>6. /\ rec[n][t].st \in {"verifying", "failed", "cancelled"} /\ good[t] /\ ~ final[t]
        /\ appr[t] \notin {"none", "asking", "open"} /\ run'[n][t].at = "stored"
    BY Zenon, <1>1, <1>4, <2>1 DEF TransferHolds, ReceivingFollows, PartialFollows, RunsTo
  <2>7. Good(t)
    <3>1. Kept(t)
      <4>1. final'[t] = TRUE
        BY Zenon, <2>2
      <4> QED BY Zenon, <1>4, <2>3, <2>6, <4>1 DEF Kept, Promised!Next, Promised!Store
    <3>2. Directed(t)' /\ ApprovalFollows(t)'
      BY Zenon, <1>1, <1>4, <2>3 DEF TransferHolds, Directed, ApprovalFollows
    <3>3. ReceivingFollows(t)'
      BY Zenon, <1>4, <2>2, <2>3, <2>6 DEF ReceivingFollows
    <3>4. PartialFollows(t)'
      BY Zenon, <1>1, <1>4, <2>2, <2>3, <2>6 DEF TransferHolds, PartialFollows
    <3> QED BY Zenon, <1>4, <3>1, <3>2, <3>3, <3>4 DEF Good, TransferHolds
  <2> QED BY Zenon, <2>3, <2>4, <2>5, <2>7, AsideStep
<1> QED BY Zenon, <1>3, <1>4 DEF Promote

\* The receiver records that the file, under its final name, is complete.
LEMMA CompleteInv ==
    ASSUME TransfersInv, NEW t \in Transfers, Complete(t)
    PROVE  Preserved
<1> DEFINE n == Receiver(t)
<1>1. TypeOK /\ TransferHolds(t) /\ UNCHANGED Beside /\ run[n][t].at = "stored"
  BY Zenon DEF TransfersInv, Complete, Beside
<1>2. /\ n \in Nodes /\ Sender(t) \in Nodes /\ Sender(t) # n
      /\ from' = from /\ taking' = taking /\ NewsHolds /\ UNCHANGED <<part, final, good, offer, appr>>
      /\ Sender(t)' = Sender(t) /\ Receiver(t)' = n
  BY Zenon, <1>1, Ends, BesideStays
<1>3. /\ rec[n][t].st \in {"verifying", "failed", "cancelled"} /\ final[t] /\ good[t] /\ ~ part[t]
      /\ appr[t] # "none"
  BY Zenon, <1>1 DEF TransferHolds, ReceivingFollows, PartialFollows
<1>4. CASE CanTransition(rec[n][t].st, "completed")
  <2>1. /\ rec' = [rec EXCEPT ![n][t].temp = FALSE, ![n][t].st = "completed", ![n][t].chal = FALSE]
        /\ clean' = [clean EXCEPT ![n][t] = "end"]
        /\ Runs(n, t, "tell")
    BY Zenon, <1>4 DEF Complete
  <2>2. Writes(n, t, "completed", FALSE) /\ Marks(n, t, {"end"}) /\ RunsTo(n, t, "tell")
    BY Zenon, <1>1, <1>2, <2>1, WriteCompleted, WriteMark, RunsWrites
  <2>3. rec[n][t].st = "verifying"
    BY Zenon, <1>3, <1>4 DEF CanTransition
  <2>4. TypeOK'
    <3>1. /\ rec' \in [Nodes -> [Transfers -> Record]] /\ run' \in [Nodes -> [Transfers -> Stream]]
          /\ clean' \in [Nodes -> [Transfers -> {"no", "fail", "end", "tell", "done"}]]
      BY Zenon, <2>2 DEF Writes, Marks, RunsTo, Records
    <3> QED BY Zenon, <1>1, <3>1, BesideTyped
  <2>5. Aside(t)
    <3>1. \A u \in Transfers : u # t => SameRecords(u)
      BY Zenon, <1>1, <1>2, <2>2, UntouchedRecords
    <3> QED BY Zenon, <1>1, <1>2, <2>2, <3>1, StreamSteady DEF Aside
  <2>6. /\ rec'[n][t].st = "completed" /\ rec'[n][t].temp = FALSE
        /\ rec'[Sender(t)][t] = rec[Sender(t)][t] /\ clean'[n][t] = "end" /\ run'[n][t].at = "tell"
    BY Zenon, <1>2, <2>2 DEF Writes, Marks, RunsTo
  <2>7. Good(t)
    <3>1. Kept(t)
      BY Zenon, <1>2, <1>3, <2>3, <2>6 DEF Kept, Promised!Next, Promised!Receive
    <3>2. Directed(t)'
      BY Zenon, <1>1, <1>2, <2>6 DEF TransferHolds, Directed, Terminal
    <3>3. ApprovalFollows(t)'
      BY Zenon, <1>2, <2>6 DEF ApprovalFollows
    <3>4. ReceivingFollows(t)'
      BY Zenon, <1>2, <1>3, <2>6 DEF ReceivingFollows
    <3>5. PartialFollows(t)'
      BY ZenonT(60), <1>1, <1>2, <1>3, <2>6 DEF TransferHolds, PartialFollows, Terminal
    <3> QED BY Zenon, <2>3, <2>6, <3>1, <3>2, <3>3, <3>4, <3>5 DEF Good, TransferHolds
  <2> QED BY Zenon, <1>2, <2>4, <2>5, <2>7, AsideStep
<1>5. CASE ~ CanTransition(rec[n][t].st, "completed")
  <2>1. rec' = [rec EXCEPT ![n][t].temp = FALSE] /\ Runs(n, t, "done") /\ clean' = clean
    BY Zenon, <1>5 DEF Complete
  <2>2. Writes(n, t, rec[n][t].st, FALSE) /\ RunsTo(n, t, "done")
    BY ZenonT(60), <1>1, <1>2, <2>1, WriteTemp, RunsWrites
  <2>3. TypeOK'
    <3>1. rec' \in [Nodes -> [Transfers -> Record]] /\ run' \in [Nodes -> [Transfers -> Stream]]
      BY Zenon, <2>2 DEF Writes, RunsTo, Records
    <3> QED BY Zenon, <1>1, <2>1, <3>1, RecordsTyped, BesideTyped
  <2>4. Aside(t)
    <3>1. \A u \in Transfers : u # t => SameRecords(u)
      BY Zenon, <1>1, <1>2, <2>1, <2>2, UntouchedRecords
    <3> QED BY Zenon, <1>1, <1>2, <2>2, <3>1, StreamSteady DEF Aside
  <2>5. /\ rec'[n][t].st = rec[n][t].st /\ rec'[Sender(t)][t] = rec[Sender(t)][t] /\ run'[n][t].at = "done"
    BY Zenon, <1>2, <2>2 DEF Writes, RunsTo
  <2>6. Good(t)
    <3>1. Kept(t)
      BY Zenon, <1>2, <2>5 DEF Kept, Promised!vars
    <3>2. Directed(t)' /\ ApprovalFollows(t)'
      BY Zenon, <1>1, <1>2, <2>5 DEF TransferHolds, Directed, ApprovalFollows
    <3>3. ReceivingFollows(t)'
      BY Zenon, <1>2, <1>3, <2>5 DEF ReceivingFollows
    <3>4. PartialFollows(t)'
      BY Zenon, <1>1, <1>2, <1>3, <2>1, <2>5 DEF TransferHolds, PartialFollows
    <3> QED BY Zenon, <2>5, <3>1, <3>2, <3>3, <3>4 DEF Good, TransferHolds
  <2> QED BY Zenon, <1>2, <2>3, <2>4, <2>6, AsideStep
<1> QED BY Zenon, <1>4, <1>5

\* The receiver tells the sender that it completed.
LEMMA TellCompleteInv ==
    ASSUME TransfersInv, NEW t \in Transfers, TellComplete(t)
    PROVE  Preserved
<1> DEFINE n == Receiver(t)
<1>1. TypeOK /\ TransferHolds(t) /\ run[n][t].at = "tell"
  BY Zenon DEF TransfersInv, TellComplete
<1>2. /\ n \in Nodes /\ from' = from /\ taking' = taking /\ rec' = rec /\ Receiver(t)' = n
      /\ UNCHANGED <<part, final, good, offer, appr>>
      /\ \A u \in Transfers : SameRecords(u)
  BY Zenon, <1>1, Ends DEF TellComplete, Receiver, tasks, SameRecords
<1>3. RunsTo(n, t, "done")
  BY Zenon, <1>1, <1>2, RunsWrites DEF TellComplete
<1>4. \A u \in Transfers : Steady(u)
  BY Zenon, <1>1, <1>2, <1>3, StreamSteady
<1>5. ctl' \in [Nodes -> Seq(Message)] /\ NewsHolds
  <2>1. PICK sent \in BOOLEAN : Send(n, rec[n][t].sess, "complete", t, sent)
    BY Zenon DEF TellComplete
  <2>2. [kind |-> "complete", t |-> t] \in Message
    BY Zenon DEF Message
  <2>3. MessageHolds(Other(n), [kind |-> "complete", t |-> t])'
    BY Zenon, <1>1, <1>2 DEF MessageHolds, TransferHolds, ReceivingFollows
  <2> QED BY Zenon, <1>1, <1>2, <2>1, <2>2, <2>3, SendNews
<1>6. TypeOK'
  <2>1. run' \in [Nodes -> [Transfers -> Stream]]
    BY Zenon, <1>3 DEF RunsTo
  <2> QED BY Zenon, <1>1, <1>5, <2>1 DEF TypeOK, TellComplete, sessVars, tasks
<1> QED BY Zenon, <1>2, <1>4, <1>5, <1>6, StillStep

-----------------------------------------------------------------------------
(* Ends.                                                                   *)

\* The end of transition: cleaning up.
LEMMA CleanInv ==
    ASSUME TransfersInv, NEW n \in Nodes, NEW t \in Transfers, Clean(n, t)
    PROVE  Preserved
<1>1. TypeOK /\ TransferHolds(t) /\ clean[n][t] \in {"fail", "end"} /\ CleanUpTemp(n, t)
  BY Zenon DEF TransfersInv, Clean
<1>2. /\ Receiver(t) \in Nodes /\ Sender(t) \in Nodes /\ Sender(t) # Receiver(t)
      /\ from' = from /\ taking' = taking /\ NewsHolds
      /\ final' = final /\ good' = good /\ run' = run /\ offer' = offer /\ appr' = appr
      /\ Sender(t)' = Sender(t) /\ Receiver(t)' = Receiver(t)
  BY Zenon, <1>1, Ends, Quiet DEF Clean, tasks, Sender, Receiver
<1>3. Cleaned(n, t)
  BY Zenon, <1>1, CleanUpTempDoes
<1>4. PICK v \in {"tell", "done"} : Marks(n, t, {v})
  <2>1. clean \in [Nodes -> [Transfers -> {"no", "fail", "end", "tell", "done"}]]
    BY Zenon, <1>1 DEF TypeOK
  <2>2. PICK v \in {"tell", "done"} : clean' = [clean EXCEPT ![n][t] = v]
    BY Zenon, <2>1 DEF Clean
  <2> QED BY Zenon, <1>1, <2>2, WriteMark
<1>5. TypeOK'
  <2>1. clean' \in [Nodes -> [Transfers -> {"no", "fail", "end", "tell", "done"}]]
    BY Zenon, <1>4 DEF Marks
  <2> QED BY Zenon, <1>1, <1>3, <2>1 DEF TypeOK, Clean, Cleaned, sessVars, tasks
<1>6. Aside(t)
  <2>1. \A u \in Transfers : u # t => SameRecords(u)
    BY Zenon, <1>1, <1>3, <1>4, UntouchedRecords DEF Cleaned
  <2> QED BY Zenon, <1>2, <1>3, <2>1 DEF Aside, Steady, Cleaned
<1>7. /\ rec'[Sender(t)][t].st = rec[Sender(t)][t].st
      /\ rec'[Receiver(t)][t].st = rec[Receiver(t)][t].st
      /\ part'[t] => part[t]
      /\ n = Receiver(t) => ~ (part'[t] /\ rec[n][t].temp)
      /\ n # Receiver(t) => /\ rec'[Receiver(t)][t] = rec[Receiver(t)][t]
                            /\ clean'[Receiver(t)][t] = clean[Receiver(t)][t]
  BY ZenonT(60), <1>2, <1>3, <1>4 DEF Cleaned, Writes, Marks
<1>8. Good(t)
  <2>1. Kept(t)
    BY Zenon, <1>2, <1>7 DEF Kept, Promised!vars
  <2>2. Directed(t)' /\ ApprovalFollows(t)'
    BY Zenon, <1>1, <1>2, <1>7 DEF TransferHolds, Directed, ApprovalFollows
  <2>3. ReceivingFollows(t)'
    BY Zenon, <1>1, <1>2, <1>7 DEF TransferHolds, ReceivingFollows
  <2>4. PartialFollows(t)'
    <3>1. CASE n = Receiver(t)
      <4>1. part'[t] => appr[t] = "record"
        BY Zenon, <1>1, <1>7, <3>1 DEF TransferHolds, PartialFollows
      <4>2. rec[n][t].st \in Terminal
        BY Zenon, <1>1, <3>1 DEF TransferHolds, PartialFollows
      <4> QED BY Zenon, <1>1, <1>2, <1>7, <3>1, <4>1, <4>2 DEF TransferHolds, PartialFollows
    <3>2. CASE n # Receiver(t)
      BY Zenon, <1>1, <1>2, <1>7, <3>2 DEF TransferHolds, PartialFollows
    <3> QED BY Zenon, <3>1, <3>2
  <2> QED BY Zenon, <1>7, <2>1, <2>2, <2>3, <2>4 DEF Good, TransferHolds
<1> QED BY Zenon, <1>2, <1>5, <1>6, <1>8, AsideStep

\* The end of fail: telling the other end.
LEMMA TellInv ==
    ASSUME TransfersInv, NEW n \in Nodes, NEW t \in Transfers, Tell(n, t)
    PROVE  Preserved
<1>1. TypeOK /\ TransferHolds(t) /\ clean[n][t] = "tell"
  BY Zenon DEF TransfersInv, Tell
<1>2. /\ Receiver(t) \in Nodes /\ from' = from /\ taking' = taking /\ rec' = rec
      /\ part' = part /\ final' = final /\ good' = good /\ run' = run /\ offer' = offer /\ appr' = appr
      /\ Sender(t)' = Sender(t) /\ Receiver(t)' = Receiver(t)
  BY Zenon, <1>1, Ends DEF Tell, tasks, Sender, Receiver
<1>3. Marks(n, t, {"done"})
  BY Zenon, <1>1, WriteMark DEF Tell
<1>4. ctl' \in [Nodes -> Seq(Message)] /\ NewsHolds
  <2>1. PICK sent \in BOOLEAN, kind \in {"cancel", "failed"} : Send(n, rec[n][t].sess, kind, t, sent)
    BY Zenon DEF Tell
  <2>2. [kind |-> kind, t |-> t] \in Message
    BY Zenon DEF Message
  <2>3. MessageHolds(Other(n), [kind |-> kind, t |-> t])'
    BY Zenon DEF MessageHolds
  <2> QED BY Zenon, <1>1, <2>1, <2>2, <2>3, SendNews
<1>5. TypeOK'
  <2>1. clean' \in [Nodes -> [Transfers -> {"no", "fail", "end", "tell", "done"}]]
    BY Zenon, <1>3 DEF Marks
  <2> QED BY Zenon, <1>1, <1>4, <2>1 DEF TypeOK, Tell, sessVars, tasks
<1>6. Aside(t)
  <2>1. \A u \in Transfers : u # t => SameRecords(u)
    BY Zenon, <1>1, <1>2, <1>3, UntouchedRecords
  <2> QED BY Zenon, <1>2, <2>1 DEF Aside, Steady
<1>7. /\ n = Receiver(t) => clean'[Receiver(t)][t] = "done"
      /\ n # Receiver(t) => clean'[Receiver(t)][t] = clean[Receiver(t)][t]
  BY Zenon, <1>2, <1>3 DEF Marks
<1>8. Good(t)
  <2>1. Kept(t)
    BY Zenon, <1>2 DEF Kept, Promised!vars
  <2>2. Directed(t)' /\ ApprovalFollows(t)' /\ ReceivingFollows(t)'
    BY Zenon, <1>1, <1>2 DEF TransferHolds, Directed, ApprovalFollows, ReceivingFollows
  <2>3. PartialFollows(t)'
    BY Zenon, <1>1, <1>2, <1>7 DEF TransferHolds, PartialFollows
  <2> QED BY Zenon, <1>2, <2>1, <2>2, <2>3 DEF Good, TransferHolds
<1> QED BY Zenon, <1>2, <1>4, <1>5, <1>6, <1>8, AsideStep

\* What people, the reaper and the store cause: a transfer fails, and all else
\* that matters to the invariant stays.
LEMMA EndedFromOutside ==
    ASSUME TransfersInv, NEW n \in Nodes, NEW t \in Transfers, NEW why, Fail(n, t, why),
           UNCHANGED <<from, part, final, sessVars, ctl, grant, tasks, conn, run, good>>,
           trouble' \in Nat,
           reap' \in [Nodes -> SUBSET (Transfers \X {"transport", "timed out"})],
           revoking' \in [Nodes -> [at : {"no", "list", "end", "done"}, left : SUBSET Transfers]]
    PROVE  Preserved
<1>1. TypeOK
  BY Zenon DEF TransfersInv
<1>2. from' = from /\ taking' = taking /\ NewsHolds /\ \A u \in Transfers : Steady(u)
  BY Zenon, <1>1, Quiet DEF tasks, Steady
<1>3. PICK next \in {"failed", "cancelled"} : Transition(n, t, next, TRUE)
  BY Zenon, FailIsTransition
<1>4. /\ rec' \in [Nodes -> [Transfers -> Record]]
      /\ clean' \in [Nodes -> [Transfers -> {"no", "fail", "end", "tell", "done"}]]
  BY Zenon, <1>1, <1>3, TransitionTyped
<1>5. TypeOK'
  BY Zenon, <1>1, <1>4 DEF TypeOK, sessVars, tasks
<1> QED BY Zenon, <1>2, <1>3, <1>5, FailStep

\* The bound on trouble, the reaper's and the revocation's lists are typed.
LEMMA OutsideTyped ==
    ASSUME TypeOK
    PROVE  /\ trouble \in Nat
           /\ reap \in [Nodes -> SUBSET (Transfers \X {"transport", "timed out"})]
           /\ revoking \in [Nodes -> [at : {"no", "list", "end", "done"}, left : SUBSET Transfers]]
BY Zenon DEF TypeOK

\* The bound on trouble stays a number.
LEMMA TroubleTyped ==
    ASSUME TypeOK, Troubles
    PROVE  trouble' \in Nat
<1>1. trouble \in Nat
  BY Zenon DEF TypeOK
<1>2. trouble' = trouble + 1
  BY Zenon DEF Troubles
<1> QED BY SMTT(60), <1>1, <1>2

\* A person cancels at either end.
LEMMA CancelInv ==
    ASSUME TransfersInv, NEW n \in Nodes, NEW t \in Transfers, Cancel(n, t)
    PROVE  Preserved
<1>1. /\ trouble \in Nat
      /\ reap \in [Nodes -> SUBSET (Transfers \X {"transport", "timed out"})]
      /\ revoking \in [Nodes -> [at : {"no", "list", "end", "done"}, left : SUBSET Transfers]]
  BY Zenon, OutsideTyped DEF TransfersInv
<1>2. /\ Fail(n, t, "cancelled by user") /\ trouble' \in Nat
      /\ UNCHANGED <<from, part, final, sessVars, ctl, grant, revoking, tasks, conn, run, reap, good>>
  BY Zenon, TroubleTyped DEF Cancel, TransfersInv
<1> QED BY Zenon, <1>1, <1>2, EndedFromOutside

\* reap_once, asking again whether the peer may do this.
LEMMA ReapCheckInv ==
    ASSUME TransfersInv, NEW n \in Nodes, NEW t \in Transfers, ReapCheck(n, t)
    PROVE  Preserved
<1>1. /\ trouble \in Nat
      /\ reap \in [Nodes -> SUBSET (Transfers \X {"transport", "timed out"})]
      /\ revoking \in [Nodes -> [at : {"no", "list", "end", "done"}, left : SUBSET Transfers]]
  BY Zenon, OutsideTyped DEF TransfersInv
<1> QED BY Zenon, <1>1, EndedFromOutside DEF ReapCheck

\* reap_once, failing one it listed.
LEMMA ReapFailInv ==
    ASSUME TransfersInv, NEW n \in Nodes, ReapFail(n)
    PROVE  Preserved
<1>1. /\ trouble \in Nat
      /\ reap \in [Nodes -> SUBSET (Transfers \X {"transport", "timed out"})]
      /\ revoking \in [Nodes -> [at : {"no", "list", "end", "done"}, left : SUBSET Transfers]]
  BY Zenon, OutsideTyped DEF TransfersInv
<1>2. PICK d \in reap[n] :
        /\ reap' = [reap EXCEPT ![n] = @ \ {d}]
        /\ Fail(n, d[1], d[2])
        /\ UNCHANGED <<from, part, final, sessVars, ctl, grant, revoking, tasks, conn, run, good, trouble>>
  BY Zenon DEF ReapFail
<1>3. d[1] \in Transfers
  <2>1. d \in Transfers \X {"transport", "timed out"}
    BY Zenon, <1>1, <1>2
  <2> QED BY Zenon, <2>1
<1>4. reap' \in [Nodes -> SUBSET (Transfers \X {"transport", "timed out"})]
  BY Zenon, <1>1, <1>2
<1> QED BY Zenon, <1>1, <1>2, <1>3, <1>4, EndedFromOutside

\* cancel_peer, one transfer of its list.
LEMMA CancelNextInv ==
    ASSUME TransfersInv, NEW n \in Nodes, CancelNext(n)
    PROVE  Preserved
<1>1. /\ trouble \in Nat
      /\ reap \in [Nodes -> SUBSET (Transfers \X {"transport", "timed out"})]
      /\ revoking \in [Nodes -> [at : {"no", "list", "end", "done"}, left : SUBSET Transfers]]
  BY Zenon, OutsideTyped DEF TransfersInv
<1>2. PICK t \in revoking[n].left :
        /\ revoking' = [revoking EXCEPT ![n].left = @ \ {t}]
        /\ Fail(n, t, "revoked")
        /\ UNCHANGED <<from, part, final, sessVars, ctl, grant, tasks, conn, run, reap, good, trouble>>
  BY Zenon DEF CancelNext
<1>3. t \in Transfers
  BY Zenon, <1>1, <1>2
<1>4. revoking' \in [Nodes -> [at : {"no", "list", "end", "done"}, left : SUBSET Transfers]]
  BY Zenon, <1>1, <1>2
<1> QED BY Zenon, <1>1, <1>2, <1>3, <1>4, EndedFromOutside

\* Where no record, file, task or stream changes, nothing known of a transfer does.
LEMMA Elsewhere ==
    ASSUME TransfersInv, TypeOK', NewsHolds,
           UNCHANGED <<from, rec, part, final, tasks, run, clean, good>>
    PROVE  Preserved
<1>1. from' = from /\ taking' = taking /\ \A u \in Transfers : Steady(u) /\ SameRecords(u)
  BY Zenon DEF tasks, Steady, SameRecords
<1> QED BY Zenon, <1>1, StillStep

\* reap_once, listing.
LEMMA ReapScanInv ==
    ASSUME TransfersInv, NEW n \in Nodes, ReapScan(n)
    PROVE  Preserved
<1>1. TypeOK /\ NewsHolds
  BY Zenon, Quiet DEF TransfersInv, ReapScan
<1>2. Orphaned(n) \cup Overdue(n) \subseteq Transfers \X {"transport", "timed out"}
  <2>1. ASSUME NEW d \in Orphaned(n) PROVE d \in Transfers \X {"transport", "timed out"}
    <3>1. PICK u \in Transfers : d = <<u, "transport">>
      BY Zenon DEF Orphaned
    <3> QED BY Zenon, <3>1
  <2>2. ASSUME NEW d \in Overdue(n) PROVE d \in Transfers \X {"transport", "timed out"}
    <3>1. PICK u \in Transfers : d = <<u, "timed out">>
      BY Zenon DEF Overdue
    <3> QED BY Zenon, <3>1
  <2> QED BY Zenon, <2>1, <2>2
<1>3. PICK late \in SUBSET Overdue(n) : reap' = [reap EXCEPT ![n] = Orphaned(n) \cup late]
  BY Zenon DEF ReapScan
<1>4. reap' \in [Nodes -> SUBSET (Transfers \X {"transport", "timed out"})]
  BY Zenon, <1>1, <1>2, <1>3, OutsideTyped
<1>5. TypeOK'
  BY Zenon, <1>1, <1>4 DEF TypeOK, ReapScan, sessVars, tasks
<1> QED BY SMTT(60), <1>1, <1>5, Elsewhere DEF ReapScan

\* The other end is revoked.
LEMMA RevokeInv ==
    ASSUME TransfersInv, NEW n \in Nodes, Revoke(n)
    PROVE  Preserved
<1>1. TypeOK /\ NewsHolds
  BY Zenon, Quiet DEF TransfersInv, Revoke
<1>2. /\ grant \in [Nodes -> BOOLEAN]
      /\ revoking \in [Nodes -> [at : {"no", "list", "end", "done"}, left : SUBSET Transfers]]
  BY Zenon, <1>1 DEF TypeOK
<1>3. /\ grant' = [grant EXCEPT ![n] = FALSE] /\ trouble' \in Nat
      /\ revoking' = [revoking EXCEPT ![n].at = "list"]
  BY Zenon, <1>1, TroubleTyped DEF Revoke
<1>4. /\ grant' \in [Nodes -> BOOLEAN] /\ trouble' \in Nat
      /\ revoking' \in [Nodes -> [at : {"no", "list", "end", "done"}, left : SUBSET Transfers]]
  BY Zenon, <1>2, <1>3
<1>5. TypeOK'
  BY Zenon, <1>1, <1>4 DEF TypeOK, Revoke, sessVars, tasks
<1> QED BY Zenon, <1>1, <1>5, Elsewhere DEF Revoke

\* cancel_peer lists what to cancel.
LEMMA CancelPeerInv ==
    ASSUME TransfersInv, NEW n \in Nodes, CancelPeer(n)
    PROVE  Preserved
<1>1. TypeOK /\ NewsHolds
  BY Zenon, Quiet DEF TransfersInv, CancelPeer
<1>2. revoking' \in [Nodes -> [at : {"no", "list", "end", "done"}, left : SUBSET Transfers]]
  BY Zenon, <1>1, OutsideTyped DEF CancelPeer
<1>3. TypeOK'
  BY Zenon, <1>1, <1>2 DEF TypeOK, CancelPeer, sessVars, tasks
<1> QED BY Zenon, <1>1, <1>3, Elsewhere DEF CancelPeer

\* A session that ends takes its messages along.
LEMMA EmptyQueues ==
    ASSUME TypeOK, ctl' = [n \in Nodes |-> <<>>]
    PROVE  ctl' \in [Nodes -> Seq(Message)] /\ NewsHolds
<1>1. \A n \in Nodes : ctl'[n] = <<>> /\ Len(ctl'[n]) = 0
  BY Zenon
<1>2. ctl' \in [Nodes -> Seq(Message)]
  BY SMTT(60)
<1>3. NewsHolds
  BY SMTT(60), <1>1 DEF NewsHolds
<1> QED BY Zenon, <1>2, <1>3

\* cancel_peer has been through its list.
LEMMA RevokeEndsInv ==
    ASSUME TransfersInv, NEW n \in Nodes, RevokeEnds(n)
    PROVE  Preserved
<1>1. TypeOK
  BY Zenon DEF TransfersInv
<1>2. ctl' \in [Nodes -> Seq(Message)] /\ NewsHolds
  BY Zenon, <1>1, EmptyQueues DEF RevokeEnds, SessionOver
<1>3. revoking' \in [Nodes -> [at : {"no", "list", "end", "done"}, left : SUBSET Transfers]]
  BY Zenon, <1>1, OutsideTyped DEF RevokeEnds
<1>4. TypeOK'
  BY Zenon, <1>1, <1>2, <1>3 DEF TypeOK, RevokeEnds, SessionOver, tasks
<1> QED BY Zenon, <1>2, <1>4, Elsewhere DEF RevokeEnds

\* A session ends or starts.
LEMMA SessionInv ==
    ASSUME TransfersInv, SessionEnds \/ SessionStarts
    PROVE  Preserved
<1>1. TypeOK
  BY Zenon DEF TransfersInv
<1>2. ctl' \in [Nodes -> Seq(Message)] /\ NewsHolds
  BY SMTT(60), <1>1, EmptyQueues DEF SessionEnds, SessionStarts, SessionOver
<1>3. sess' \in Nat /\ up' \in BOOLEAN /\ trouble' \in Nat
  <2>1. sess \in Nat
    BY Zenon, <1>1 DEF TypeOK
  <2>2. trouble' \in Nat
    BY SMTT(60), <1>1, TroubleTyped DEF SessionEnds, SessionStarts
  <2>3. sess' \in {sess, sess + 1} /\ up' \in BOOLEAN
    BY Zenon DEF SessionEnds, SessionStarts, SessionOver
  <2> QED BY SMTT(60), <2>1, <2>2, <2>3
<1>4. TypeOK'
  BY Zenon, <1>1, <1>2, <1>3 DEF TypeOK, SessionEnds, SessionStarts, tasks
<1> QED BY SMTT(60), <1>2, <1>4, Elsewhere DEF SessionEnds, SessionStarts

\* A data connection breaks.
LEMMA BreakInv ==
    ASSUME TransfersInv, NEW t \in Transfers, Break(t)
    PROVE  Preserved
<1>1. TypeOK /\ NewsHolds
  BY SMTT(60), Quiet DEF TransfersInv, Break
<1>2. conn' \in [Transfers -> {"none", "auth", "rejected", "ready", "broken", "over"}]
  BY ZenonT(60), <1>1, ConnectionTyped DEF Break
<1>3. trouble' \in Nat
  BY <1>1, TroubleTyped DEF Break
<1>4. TypeOK'
  BY Zenon, <1>1, <1>2, <1>3 DEF TypeOK, Break, sessVars, tasks
<1> QED BY SMTT(60), <1>1, <1>4, Elsewhere DEF Break

-----------------------------------------------------------------------------
(* The theorems.                                                           *)

\* At the start nothing is offered, as the promise has it.
LEMMA StartInv ==
    ASSUME Init
    PROVE  TransfersInv /\ \A t \in Transfers : Promised(t)!Init
<1>0. from \in [Transfers -> Nodes]
  BY SMTT(60) DEF Init
<1>1. \A n \in Nodes, t \in Transfers :
        /\ rec[n][t] \in Record /\ rec[n][t].st = "none" /\ clean[n][t] = "no"
        /\ run[n][t].at = "none" /\ ctl[n] = <<>> /\ taking[n] = None
  BY ZenonT(60) DEF Init, NewRecord, Record
<1>2. \A t \in Transfers :
        ~ part[t] /\ ~ final[t] /\ final[t] = FALSE /\ offer[t].at = "idle" /\ appr[t] = "none"
  BY SMTT(60) DEF Init
<1>3. TypeOK
  <2>1. rec \in [Nodes -> [Transfers -> Record]]
    BY SMTT(60), <1>1 DEF Init
  <2>2. run \in [Nodes -> [Transfers -> Stream]] /\ ctl \in [Nodes -> Seq(Message)]
    BY SMTT(60) DEF Init, Stream
  <2>3. /\ revoking \in [Nodes -> [at : {"no", "list", "end", "done"}, left : SUBSET Transfers]]
        /\ offer \in [Transfers -> [at : {"idle", "hash", "send", "done"}, sess : Nat]]
        /\ taking \in [Nodes -> [t : Transfers, sess : Nat] \cup {None}]
        /\ reap \in [Nodes -> SUBSET (Transfers \X {"transport", "timed out"})]
    BY ZenonT(60) DEF Init
  <2> QED BY ZenonT(60), <2>1, <2>2, <2>3 DEF TypeOK, Init
<1>4. \A t \in Transfers : Sender(t) \in Nodes /\ Receiver(t) \in Nodes
  BY SMTT(60), <1>3, Ends
<1>5. ASSUME NEW t \in Transfers PROVE TransferHolds(t)
  <2>1. Sender(t) \in Nodes /\ Receiver(t) \in Nodes
    BY SMTT(60), <1>4
  <2>2. Directed(t)
    BY SMTT(60), <1>1, <1>2, <2>1 DEF Directed
  <2>3. ApprovalFollows(t) /\ ReceivingFollows(t)
    BY ZenonT(60), <1>1, <1>2, <2>1 DEF ApprovalFollows, ReceivingFollows, Terminal
  <2>4. PartialFollows(t)
    BY SMTT(60), <1>1, <1>2, <2>1 DEF PartialFollows, Terminal
  <2> QED BY SMTT(60), <2>2, <2>3, <2>4 DEF TransferHolds
<1>6. \A n \in Nodes : \A i \in 1 .. Len(ctl[n]) : MessageHolds(n, ctl[n][i])
  <2>1. \A n \in Nodes : Len(ctl[n]) = 0
    BY Zenon DEF Init
  <2> QED BY SMTT(60), <2>1
<1>7. \A n \in Nodes : TakingHolds(n)
  BY Zenon DEF Init, TakingHolds
<1>8. \A t \in Transfers : Promised(t)!Init
  BY SMTT(60), <1>1, <1>2, <1>4 DEF Promised!Init
<1> QED BY SMTT(60), <1>3, <1>5, <1>6, <1>7, <1>8 DEF TransfersInv

\* Every step keeps the invariant, and is a step of the promise or leaves what it
\* is about alone.
LEMMA NextInv ==
    ASSUME TransfersInv, Next
    PROVE  Preserved
<1>1. \A t \in Transfers : Sender(t) \in Nodes /\ Receiver(t) \in Nodes
  BY Ends DEF TransfersInv
<1>2. ASSUME NEW t \in Transfers, OfferInsert(t) \/ OfferSend(t) \/ Approving(t) \/ Answer(t, FALSE)
      PROVE  Preserved
  BY ZenonT(60), <1>2, OfferInsertInv, OfferSendInv, OpenTempInv, RecordTempInv, AgreeInv, UndoTempInv,
     SendAcceptInv, AnswerInv DEF Approving
<1>3. ASSUME NEW t \in Transfers, Dialing(t) \/ Accepting(t) \/ Sending(t) \/ Receiving(t)
      PROVE  Preserved
  BY SMTT(40), <1>1, <1>3, DialTakeInv, DialConnectInv, ReadReadyInv, CheckStreamInv, WriteReadyInv, PlanInv,
     SendEndsInv, ReceiveEndsInv, CopyFailsInv, SyncInv, VerifyInv, PromoteInv, CompleteInv, TellCompleteInv
     DEF Dialing, Accepting, Sending, Receiving
<1>4. ASSUME NEW n \in Nodes, Handles(n) \/ Reaping(n) \/ CancelPeer(n) \/ CancelNext(n)
      PROVE  Preserved
  BY SMTT(60), <1>4, OnOfferInsertInv, OnOfferInv, OnAcceptInv, OnReadyInv, OnPeerEndedInv, OnCompleteInv,
     ReapScanInv, ReapFailInv, CancelPeerInv, CancelNextInv DEF Handles, Reaping
<1>5. ASSUME NEW n \in Nodes, NEW t \in Transfers, Ending(n, t) \/ ReapCheck(n, t)
      PROVE  Preserved
  BY SMTT(60), <1>5, CleanInv, TellInv, ReapCheckInv DEF Ending
<1>6. ASSUME Environment
      PROVE  Preserved
  BY ZenonT(60), <1>6, OfferCheckInv, AnswerInv, BreakInv, RevokeInv, RevokeEndsInv, CancelInv, SessionInv DEF Environment
<1> QED BY Zenon, <1>2, <1>3, <1>4, <1>5, <1>6 DEF Next, Work

\* Stuttering changes nothing the invariant reads.
LEMMA StutterInv ==
    ASSUME TransfersInv, UNCHANGED vars
    PROVE  TransfersInv'
<1>1. TypeOK' /\ NewsHolds
  BY Zenon, Quiet DEF TransfersInv, TypeOK, vars
<1> QED BY <1>1, Elsewhere DEF Preserved, vars, tasks

\* Whatever the two managers, their peers and the network do, and for any number
\* of transfers: the record, the approval, the stream, the files and the messages
\* on their way agree about how far a transfer has come.
THEOREM TransfersInvariant == Spec => []TransfersInv
<1>1. Init => TransfersInv
  BY SMTT(60), StartInv
<1>2. TransfersInv /\ [Next]_vars => TransfersInv'
  BY SMTT(60), NextInv, StutterInv DEF Preserved
<1> QED BY <1>1, <1>2, PTL DEF Spec

\* The records, files, queues and tasks of the managers keep their types.
THEOREM TransfersTyped == Spec => []TypeOK
<1>1. TransfersInv => TypeOK
  BY Zenon DEF TransfersInv
<1> QED BY <1>1, TransfersInvariant, PTL

\* Every step of offer_file, handle_control, await_approval, run_stream, the reaper
\* and the revocation is, for each transfer, a step that FILES.md promises or
\* leaves what it promises alone: the managers implement TransferPromise.
THEOREM PromiseRefined == Spec => PromiseKept
<1>1. Init => \A t \in Transfers : Promised(t)!Init
  BY SMTT(60), StartInv
<1>2. TransfersInv /\ [Next]_vars => [\A t \in Transfers : Promised(t)!Next \/ UNCHANGED Promised(t)!vars]_vars
  BY SMTT(60), NextInv DEF Preserved, Kept
<1> QED BY <1>1, <1>2, TransfersInvariant, PTL DEF Spec, PromiseKept

\* run_receive: a file under its final name has the digest that was offered.
THEOREM StoredIsVerified == Spec => []OnlyVerifiedIsStored
<1>1. TransfersInv => OnlyVerifiedIsStored
  BY ZenonT(60) DEF TransfersInv, TransferHolds, ReceivingFollows, OnlyVerifiedIsStored
<1> QED BY <1>1, TransfersInvariant, PTL

\* clean_up_temp and await_approval: however a transfer's end raced with the yes of
\* a person or with its stream, nothing partial is left once its tasks are gone.
THEOREM NothingPartialStays == Spec => []PartialIsRemoved
<1>1. TransfersInv => PartialIsRemoved
  <2> SUFFICES ASSUME TransfersInv, NEW t \in Transfers,
                      clean[Receiver(t)][t] \in {"tell", "done"}, appr[t] \in {"none", "done"}
               PROVE  ~ part[t]
    BY SMTT(60) DEF PartialIsRemoved
  <2>1. PartialFollows(t)
    BY DEF TransfersInv, TransferHolds
  <2> QED BY ZenonT(60), <2>1 DEF PartialFollows
<1> QED BY <1>1, TransfersInvariant, PTL

=============================================================================
