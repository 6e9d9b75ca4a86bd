------------------------- MODULE FileApprovalProofs -------------------------
(***************************************************************************)
(* FileApproval for any number of offers and of providers: ApprovalInv is  *)
(* kept by every step, and the safety properties follow.                   *)
(***************************************************************************)
EXTENDS FileApproval, TLAPS

\* At the start nobody is attached and nothing is asked.
LEMMA ApprovalInit ==
    Init => ApprovalInv
<1> SUFFICES ASSUME Init PROVE ApprovalInv
    BY Zenon
<1> USE ApprovalAssumption DEF Init
<1>1. ApprovalTypes
    BY DEF ApprovalTypes
<1>2. AskedWhereAttached
    BY DEF AskedWhereAttached, At
<1>3. YesFromTheAttachedScreen /\ ReplacementStaysAttached
    BY Zenon DEF YesFromTheAttachedScreen, ReplacementStaysAttached
<1> QED
    BY Zenon, <1>1, <1>2, <1>3 DEF ApprovalInv

\* A step that attaches nobody, asks nothing new and accepts nothing: offers are
\* passed on or dropped, and questions are withdrawn or declined.
Recedes ==
    /\ ApprovalTypes'
    /\ UNCHANGED <<unattended, provider, epoch, by>>
    /\ pending' \subseteq pending
    /\ \A t \in Transfers : ask'[t] = ask[t] \/ (ask[t] = "asking" /\ ask'[t] = "no")
    /\ \A o \in Providers, t \in Transfers : At(o, t)' => At(o, t)
    /\ \A o \in Providers : sess'[o] \notin {"idle", "returned"} => sess[o] \notin {"idle", "returned"}

\* Such a step keeps the invariant.
LEMMA RecedesInv ==
    ASSUME ApprovalInv, Recedes
    PROVE  ApprovalInv'
<1> USE DEF ApprovalInv, Recedes
<1>1. AskedWhereAttached'
    BY Zenon DEF AskedWhereAttached
<1>2. YesFromTheAttachedScreen'
    BY Zenon DEF YesFromTheAttachedScreen
<1>3. ReplacementStaysAttached'
    BY Zenon DEF ReplacementStaysAttached
<1> QED
    BY Zenon, <1>1, <1>2, <1>3

\* Dropping reply senders declines open questions and touches no others.
LEMMA DeclinedEffect ==
    ASSUME ApprovalTypes, NEW S, ask' = Declined(S)
    PROVE  /\ ask' \in [Transfers -> {"new", "asking", "yes", "no"}]
           /\ \A t \in Transfers : ask'[t] = ask[t] \/ (ask[t] = "asking" /\ ask'[t] = "no")
    BY Zenon DEF Declined, ApprovalTypes

\* A session that returns keeps no offer.
LEMMA ReturnsEffect ==
    ASSUME ApprovalTypes, NEW o \in Providers, Returns(o)
    PROVE  /\ queue' \in [Providers -> Seq(Transfers)] /\ \A p \in Providers : Len(queue'[p]) <= QueueCap
           /\ sess' \in [Providers -> {"idle", "attached", "loop", "received", "showing", "ending", "returned"}]
           /\ held' \in [Providers -> Transfers \cup {None}]
           /\ open' \in [Providers -> SUBSET Transfers]
           /\ \A p \in Providers : sess'[p] = IF p = o THEN "returned" ELSE sess[p]
           /\ \A p \in Providers : p # o => held'[p] = held[p]
           /\ \A p \in Providers, t \in Transfers : At(p, t)' => p # o /\ At(p, t)
<1> USE ApprovalAssumption DEF Returns
<1>1. queue' \in [Providers -> Seq(Transfers)] /\ \A p \in Providers : Len(queue'[p]) <= QueueCap
    BY DEF ApprovalTypes
<1>2. /\ sess' \in [Providers -> {"idle", "attached", "loop", "received", "showing", "ending", "returned"}]
      /\ \A p \in Providers : sess'[p] = IF p = o THEN "returned" ELSE sess[p]
    BY Zenon DEF ApprovalTypes
<1>3. /\ held' \in [Providers -> Transfers \cup {None}] /\ open' \in [Providers -> SUBSET Transfers]
      /\ \A p \in Providers : p # o => held'[p] = held[p]
    BY Zenon DEF ApprovalTypes
<1>4. ASSUME NEW p \in Providers, NEW t \in Transfers, At(p, t)'
      PROVE  p # o /\ At(p, t)
  <2>1. CASE p # o
    BY <1>4, <2>1 DEF At, ApprovalTypes
  <2>2. CASE p = o
    <3>1. queue'[p] = <<>> /\ held'[p] = None /\ open'[p] = {}
        BY Zenon, <2>2 DEF ApprovalTypes
    <3> QED
        BY <1>4, <3>1 DEF At
  <2> QED
    BY Zenon, <2>1, <2>2
<1> QED
    BY Zenon, <1>1, <1>2, <1>3, <1>4

\* A step of files.v1 keeps the invariant.
LEMMA FilesStepInv ==
    ASSUME ApprovalInv, NEW t \in Transfers, Files(t)
    PROVE  ApprovalInv'
<1> USE ApprovalAssumption
<1>t. ApprovalTypes
    BY Zenon DEF ApprovalInv
<1>1. CASE ConfirmReceive(t)
  <2> USE DEF ApprovalInv
  <2>0. /\ ask[t] = "new"
        /\ UNCHANGED <<unattended, provider, epoch, sess, held, open, by>>
    BY Zenon, <1>1 DEF ConfirmReceive
  <2>1. CASE UNCHANGED <<queue, pending>> /\ ask' = [ask EXCEPT ![t] = "no"]
    <3>1. ApprovalTypes'
        BY Zenon, <1>t, <2>0, <2>1 DEF ApprovalTypes
    <3>2. AskedWhereAttached'
        BY <1>t, <2>0, <2>1 DEF AskedWhereAttached, At, ApprovalTypes
    <3>3. YesFromTheAttachedScreen' /\ ReplacementStaysAttached'
        BY <1>t, <2>0, <2>1 DEF YesFromTheAttachedScreen, ReplacementStaysAttached, ApprovalTypes
    <3> QED
        BY Zenon, <3>1, <3>2, <3>3
  <2>2. CASE unattended /\ UNCHANGED <<queue, pending>> /\ ask' = [ask EXCEPT ![t] = "yes"]
    <3>1. ApprovalTypes'
        BY Zenon, <1>t, <2>0, <2>2 DEF ApprovalTypes
    <3>2. AskedWhereAttached'
        BY <1>t, <2>0, <2>2 DEF AskedWhereAttached, At, ApprovalTypes
    <3>3. YesFromTheAttachedScreen' /\ ReplacementStaysAttached'
        BY Zenon, <1>t, <2>0, <2>2 DEF YesFromTheAttachedScreen, ReplacementStaysAttached, ApprovalTypes
    <3> QED
        BY Zenon, <3>1, <3>2, <3>3
  <2>3. CASE /\ provider # None /\ Len(queue[provider]) # QueueCap
             /\ ask' = [ask EXCEPT ![t] = "asking"]
             /\ queue' = [queue EXCEPT ![provider] = Append(@, t)]
             /\ pending' = pending \cup {t}
    <3>1. /\ provider \in Providers /\ queue[provider] \in Seq(Transfers)
          /\ Len(queue[provider]) \in Nat /\ Len(queue[provider]) < QueueCap
        BY <1>t, <2>3 DEF ApprovalTypes
    <3>2. /\ queue' \in [Providers -> Seq(Transfers)]
          /\ \A p \in Providers : queue'[p] = IF p = provider THEN Append(queue[p], t) ELSE queue[p]
          /\ \A p \in Providers : Len(queue'[p]) <= QueueCap
        BY <1>t, <2>3, <3>1 DEF ApprovalTypes
    <3>3. /\ ask' \in [Transfers -> {"new", "asking", "yes", "no"}]
          /\ \A u \in Transfers : ask'[u] = IF u = t THEN "asking" ELSE ask[u]
        BY Zenon, <1>t, <2>3 DEF ApprovalTypes
    <3>4. ApprovalTypes'
        BY <1>t, <2>0, <2>3, <3>2, <3>3 DEF ApprovalTypes
    <3>5. ASSUME NEW p \in Providers, NEW u \in Transfers, At(p, u)'
          PROVE  At(p, u) \/ (p = provider /\ u = t)
      <4>1. CASE p # provider
        BY Zenon, <2>0, <3>2, <3>5, <4>1 DEF At
      <4>2. CASE p = provider
        <5>1. queue'[p] = Append(queue[p], t)
            BY Zenon, <3>2, <4>2
        <5>2. \A i \in 1 .. Len(queue'[p]) :
                  queue'[p][i] = t \/ (i \in 1 .. Len(queue[p]) /\ queue'[p][i] = queue[p][i])
            BY <3>1, <4>2, <5>1
        <5> QED
            BY Zenon, <2>0, <3>5, <4>2, <5>2 DEF At
      <4> QED
        BY Zenon, <4>1, <4>2
    <3>6. AskedWhereAttached'
        BY <2>0, <2>3, <3>3, <3>5 DEF AskedWhereAttached
    <3>7. YesFromTheAttachedScreen' /\ ReplacementStaysAttached'
        BY Zenon, <2>0, <3>3 DEF YesFromTheAttachedScreen, ReplacementStaysAttached
    <3> QED
        BY Zenon, <3>4, <3>6, <3>7
  <2> QED
    BY Zenon, <1>1, <2>1, <2>2, <2>3 DEF ConfirmReceive
<1>2. CASE AcceptTimeout(t)
  <2> USE <1>2 DEF AcceptTimeout
  <2>1. ApprovalTypes'
    BY Zenon, <1>t DEF ApprovalTypes
  <2>2. \A o \in Providers, u \in Transfers : At(o, u)' => At(o, u)
    BY Zenon DEF At
  <2>3. Recedes
    BY <1>t, <2>1, <2>2 DEF Recedes, ApprovalTypes
  <2> QED
    BY Zenon, <2>3, RecedesInv
<1>3. CASE TransferEnds(t)
  <2> USE <1>3 DEF TransferEnds
  <2>1. ApprovalTypes'
    BY Zenon, <1>t DEF ApprovalTypes
  <2>2. \A o \in Providers, u \in Transfers : At(o, u)' => At(o, u)
    BY Zenon DEF At
  <2>3. Recedes
    BY Zenon, <2>1, <2>2 DEF Recedes
  <2> QED
    BY Zenon, <2>3, RecedesInv
<1> QED
    BY Zenon, <1>1, <1>2, <1>3 DEF Files

\* A step of a provider's session keeps the invariant.
LEMMA SessionStepInv ==
    ASSUME ApprovalInv, NEW o \in Providers, Session(o)
    PROVE  ApprovalInv'
<1> USE ApprovalAssumption
<1>t. ApprovalTypes
    BY Zenon DEF ApprovalInv
<1>1. CASE Attach(o)
  <2> USE <1>1 DEF ApprovalInv, Attach
  <2>1. /\ ask' \in [Transfers -> {"new", "asking", "yes", "no"}]
        /\ \A t \in Transfers : ask'[t] = ask[t] \/ (ask[t] = "asking" /\ ask'[t] = "no")
    BY Zenon, <1>t, DeclinedEffect
  <2>2. ApprovalTypes'
    BY <1>t, <2>1 DEF ApprovalTypes
  <2>3. AskedWhereAttached'
    BY <2>1 DEF AskedWhereAttached, At
  <2>4. YesFromTheAttachedScreen'
    BY Zenon, <2>1 DEF YesFromTheAttachedScreen
  <2>5. ReplacementStaysAttached'
    BY Zenon DEF ReplacementStaysAttached
  <2> QED
    BY Zenon, <2>2, <2>3, <2>4, <2>5
<1>2. CASE SendReady(o)
  <2>0. sess[o] = "attached" /\ UNCHANGED <<unattended, provider, epoch, pending, ask, by>>
    BY Zenon, <1>2 DEF SendReady
  <2>1. CASE sess' = [sess EXCEPT ![o] = "loop"] /\ UNCHANGED <<queue, held, open, unread>>
    <3>1. ApprovalTypes'
        BY Zenon, <1>t, <2>0, <2>1 DEF ApprovalTypes
    <3>2. \A p \in Providers, t \in Transfers : At(p, t)' => At(p, t)
        BY Zenon, <2>1 DEF At
    <3>3. Recedes
        BY <1>t, <2>0, <2>1, <3>1, <3>2 DEF Recedes, ApprovalTypes
    <3> QED
        BY Zenon, <3>3, RecedesInv
  <2>2. CASE Returns(o)
    <3>1. ApprovalTypes'
        BY Zenon, <1>t, <2>0, <2>2, ReturnsEffect DEF ApprovalTypes
    <3>2. Recedes
        BY Zenon, <1>t, <2>0, <2>2, <3>1, ReturnsEffect DEF Recedes
    <3> QED
        BY Zenon, <3>2, RecedesInv
  <2> QED
    BY Zenon, <1>2, <2>1, <2>2 DEF SendReady
<1>3. CASE Receive(o)
  <2>0. sess[o] = "loop" /\ UNCHANGED <<unattended, provider, epoch, pending, open, ask, by>>
    BY Zenon, <1>3 DEF Receive
  <2>1. CASE /\ queue[o] # <<>>
             /\ held' = [held EXCEPT ![o] = Head(queue[o])]
             /\ queue' = [queue EXCEPT ![o] = Tail(@)]
             /\ sess' = [sess EXCEPT ![o] = "received"]
    <3>1. queue[o] \in Seq(Transfers) /\ Len(queue[o]) \in Nat /\ Len(queue[o]) <= QueueCap
        BY <1>t DEF ApprovalTypes
    <3>2. /\ Head(queue[o]) = queue[o][1] /\ 1 \in 1 .. Len(queue[o]) /\ Head(queue[o]) \in Transfers
          /\ Tail(queue[o]) \in Seq(Transfers) /\ Len(Tail(queue[o])) <= QueueCap
          /\ \A i \in 1 .. Len(Tail(queue[o])) :
                 i + 1 \in 1 .. Len(queue[o]) /\ Tail(queue[o])[i] = queue[o][i + 1]
        BY <2>1, <3>1
    <3>3. /\ queue' \in [Providers -> Seq(Transfers)]
          /\ \A p \in Providers : queue'[p] = IF p = o THEN Tail(queue[o]) ELSE queue[p]
          /\ \A p \in Providers : held'[p] = IF p = o THEN Head(queue[o]) ELSE held[p]
        BY <1>t, <2>1, <3>2 DEF ApprovalTypes
    <3>4. ApprovalTypes'
        BY <1>t, <2>0, <2>1, <3>2, <3>3 DEF ApprovalTypes
    <3>5. \A p \in Providers, t \in Transfers : At(p, t)' => At(p, t)
      <4>1. ASSUME NEW p \in Providers, NEW t \in Transfers, At(p, t)' PROVE At(p, t)
        <5>1. CASE p # o
            BY Zenon, <2>0, <3>3, <4>1, <5>1 DEF At
        <5>2. CASE p = o
          <6>1. CASE \E i \in 1 .. Len(queue'[p]) : queue'[p][i] = t
            <7>1. PICK i \in 1 .. Len(Tail(queue[o])) : Tail(queue[o])[i] = t
                BY Zenon, <3>3, <5>2, <6>1
            <7>2. i + 1 \in 1 .. Len(queue[o]) /\ queue[o][i + 1] = t
                BY Zenon, <3>2, <7>1
            <7> QED
                BY Zenon, <5>2, <7>2 DEF At
          <6>2. CASE held'[p] = t
            <7>1. queue[o][1] = t
                BY Zenon, <3>2, <3>3, <5>2, <6>2
            <7> QED
                BY Zenon, <3>2, <5>2, <7>1 DEF At
          <6>3. CASE t \in open'[p]
            BY Zenon, <2>0, <6>3 DEF At
          <6> QED
            BY Zenon, <4>1, <6>1, <6>2, <6>3 DEF At
        <5> QED
            BY Zenon, <5>1, <5>2
      <4> QED
        BY Zenon, <4>1
    <3>6. Recedes
        BY <1>t, <2>0, <2>1, <3>4, <3>5 DEF Recedes, ApprovalTypes
    <3> QED
        BY Zenon, <3>6, RecedesInv
  <2>2. CASE sess' = [sess EXCEPT ![o] = "ending"] /\ UNCHANGED <<held, queue>>
    <3>1. ApprovalTypes'
        BY Zenon, <1>t, <2>0, <2>2 DEF ApprovalTypes
    <3>2. \A p \in Providers, t \in Transfers : At(p, t)' => At(p, t)
        BY Zenon, <2>0, <2>2 DEF At
    <3>3. Recedes
        BY <1>t, <2>0, <2>2, <3>1, <3>2 DEF Recedes, ApprovalTypes
    <3> QED
        BY Zenon, <3>3, RecedesInv
  <2> QED
    BY Zenon, <1>3, <2>1, <2>2 DEF Receive
<1>4. CASE CheckLive(o)
  <2>0. sess[o] = "received" /\ UNCHANGED <<unattended, provider, epoch, queue, open, by>>
    BY Zenon, <1>4 DEF CheckLive
  <2>1. CASE /\ sess' = [sess EXCEPT ![o] = "loop"]
             /\ held' = [held EXCEPT ![o] = None]
             /\ pending' = pending \ {held[o]}
             /\ ask' = Declined({held[o]} \cap pending)
    <3>1. /\ ask' \in [Transfers -> {"new", "asking", "yes", "no"}]
          /\ \A t \in Transfers : ask'[t] = ask[t] \/ (ask[t] = "asking" /\ ask'[t] = "no")
        BY Zenon, <1>t, <2>1, DeclinedEffect
    <3>2. ApprovalTypes'
        BY Zenon, <1>t, <2>0, <2>1, <3>1 DEF ApprovalTypes
    <3>3. \A p \in Providers, t \in Transfers : At(p, t)' => At(p, t)
        BY <1>t, <2>0, <2>1 DEF At, ApprovalTypes
    <3>4. Recedes
        BY ZenonT(60), <1>t, <2>0, <2>1, <3>1, <3>2, <3>3 DEF Recedes, ApprovalTypes
    <3> QED
        BY Zenon, <3>4, RecedesInv
  <2>2. CASE sess' = [sess EXCEPT ![o] = "showing"] /\ UNCHANGED <<held, pending, ask>>
    <3>1. ApprovalTypes'
        BY <1>t, <2>0, <2>2 DEF ApprovalTypes
    <3>2. \A p \in Providers, t \in Transfers : At(p, t)' => At(p, t)
        BY Zenon, <2>0, <2>2 DEF At
    <3>3. Recedes
        BY <1>t, <2>0, <2>2, <3>1, <3>2 DEF Recedes, ApprovalTypes
    <3> QED
        BY Zenon, <3>3, RecedesInv
  <2> QED
    BY Zenon, <1>4, <2>1, <2>2 DEF CheckLive
<1>5. CASE Show(o)
  <2>0. sess[o] = "showing" /\ UNCHANGED <<unattended, provider, epoch, pending, ask, by>>
    BY Zenon, <1>5 DEF Show
  <2>1. CASE /\ sess' = [sess EXCEPT ![o] = "loop"]
             /\ open' = [open EXCEPT ![o] = @ \cup {held[o]}]
             /\ held' = [held EXCEPT ![o] = None]
             /\ UNCHANGED <<queue, unread>>
    <3>1. held[o] \in Transfers
        BY Zenon, <1>t, <2>0 DEF ApprovalTypes
    <3>2. ApprovalTypes'
        BY <1>t, <2>0, <2>1, <3>1 DEF ApprovalTypes
    <3>3. \A p \in Providers, t \in Transfers : At(p, t)' => At(p, t)
        BY <1>t, <2>1, <3>1 DEF At, ApprovalTypes
    <3>4. Recedes
        BY <1>t, <2>0, <2>1, <3>2, <3>3 DEF Recedes, ApprovalTypes
    <3> QED
        BY Zenon, <3>4, RecedesInv
  <2>2. CASE Returns(o)
    <3>1. ApprovalTypes'
        BY Zenon, <1>t, <2>0, <2>2, ReturnsEffect DEF ApprovalTypes
    <3>2. Recedes
        BY Zenon, <1>t, <2>0, <2>2, <3>1, ReturnsEffect DEF Recedes
    <3> QED
        BY Zenon, <3>2, RecedesInv
  <2> QED
    BY Zenon, <1>5, <2>1, <2>2 DEF Show
<1>6. ASSUME NEW t \in Transfers, NEW accept \in BOOLEAN, Answer(o, t, accept)
      PROVE  ApprovalInv'
  <2> USE DEF ApprovalInv
  <2>0. /\ t \in open[o] /\ open' = [open EXCEPT ![o] = @ \ {t}] /\ pending' = pending \ {t}
        /\ UNCHANGED <<unattended, provider, epoch, queue, sess, held>>
    BY Zenon, <1>6 DEF Answer, Decide
  <2>1. t \in pending => provider = o
    BY Zenon, <2>0 DEF AskedWhereAttached, At
  <2>2. /\ ask' \in [Transfers -> {"new", "asking", "yes", "no"}]
        /\ \A u \in Transfers : \/ ask'[u] = ask[u]
                                \/ ask[u] = "asking" /\ ask'[u] = "no"
                                \/ u = t /\ ask[u] = "asking" /\ ask'[u] = "yes" /\ t \in pending /\ accept
    BY ZenonT(60), <1>t, <1>6 DEF Answer, Decide, ApprovalTypes
  <2>3. \/ by' = by /\ ~ (t \in pending /\ accept)
        \/ by' = [by EXCEPT ![t] = [said |-> o, attached |-> o]]
    BY Zenon, <1>6, <2>1 DEF Answer, Decide
  <2>4. /\ [said |-> o, attached |-> o] \in [said : Providers, attached : Providers]
        /\ [said |-> o, attached |-> o] # None
    BY <1>6
  <2>5. ApprovalTypes'
    <3>1. by' \in [Transfers -> [said : Providers, attached : Providers \cup {None}] \cup {None}]
        BY <1>t, <2>3 DEF ApprovalTypes
    <3>2. open' \in [Providers -> SUBSET Transfers] /\ pending' \subseteq Transfers
        BY Zenon, <1>t, <2>0 DEF ApprovalTypes
    <3> QED
        BY Zenon, <1>t, <2>0, <2>2, <3>1, <3>2 DEF ApprovalTypes
  <2>6. AskedWhereAttached'
    <3>1. \A p \in Providers, u \in Transfers : At(p, u)' => At(p, u)
        BY <1>t, <2>0 DEF At, ApprovalTypes
    <3> QED
        BY Zenon, <2>0, <2>2, <3>1 DEF AskedWhereAttached
  <2>7. YesFromTheAttachedScreen'
    BY SMTT(60), <1>t, <2>0, <2>2, <2>3, <2>4 DEF YesFromTheAttachedScreen, ApprovalTypes
  <2>8. ReplacementStaysAttached'
    BY Zenon, <2>0 DEF ReplacementStaysAttached
  <2> QED
    BY Zenon, <2>5, <2>6, <2>7, <2>8
<1>7. ASSUME NEW t \in Transfers, ReadEvent(o, t)
      PROVE  ApprovalInv'
  <2>0. sess[o] = "loop" /\ UNCHANGED <<unattended, provider, epoch, by>>
    BY Zenon, <1>7 DEF ReadEvent
  <2>1. CASE t \notin open[o]
    <3>1. UNCHANGED <<pending, ask, open, sess, queue, held>>
        BY Zenon, <1>7, <2>1 DEF ReadEvent
    <3>2. ApprovalTypes'
        BY Zenon, <1>t, <2>0, <3>1 DEF ApprovalTypes
    <3>3. Recedes
        BY Zenon, <2>0, <3>1, <3>2 DEF Recedes, At
    <3> QED
        BY Zenon, <3>3, RecedesInv
  <2>2. CASE t \in open[o]
    <3>0. pending' = pending \ {t} /\ ask' = Declined({t} \cap pending)
        BY Zenon, <1>7, <2>2 DEF ReadEvent
    <3>1. /\ ask' \in [Transfers -> {"new", "asking", "yes", "no"}]
          /\ \A u \in Transfers : ask'[u] = ask[u] \/ (ask[u] = "asking" /\ ask'[u] = "no")
        BY Zenon, <1>t, <3>0, DeclinedEffect
    <3>2. CASE open' = [open EXCEPT ![o] = @ \ {t}] /\ UNCHANGED <<sess, queue, held>>
      <4>1. ApprovalTypes'
        BY Zenon, <1>t, <2>0, <3>0, <3>1, <3>2 DEF ApprovalTypes
      <4>2. \A p \in Providers, u \in Transfers : At(p, u)' => At(p, u)
        BY <1>t, <3>2 DEF At, ApprovalTypes
      <4>3. Recedes
        BY Zenon, <2>0, <3>0, <3>1, <3>2, <4>1, <4>2 DEF Recedes
      <4> QED
        BY Zenon, <4>3, RecedesInv
    <3>3. CASE Returns(o)
      <4>1. ApprovalTypes'
        BY ZenonT(60), <1>t, <2>0, <3>0, <3>1, <3>3, ReturnsEffect DEF ApprovalTypes
      <4>2. Recedes
        BY Zenon, <1>t, <2>0, <3>0, <3>1, <3>3, <4>1, ReturnsEffect DEF Recedes
      <4> QED
        BY Zenon, <4>2, RecedesInv
    <3> QED
        BY Zenon, <1>7, <2>2, <3>2, <3>3 DEF ReadEvent
  <2> QED
    BY Zenon, <2>1, <2>2
<1>8. CASE Lagged(o)
  <2> USE <1>8 DEF Lagged
  <2>1. ApprovalTypes'
    BY Zenon, <1>t DEF ApprovalTypes
  <2>2. Recedes
    BY Zenon, <2>1 DEF Recedes, At
  <2> QED
    BY Zenon, <2>2, RecedesInv
<1>9. CASE HangUp(o)
  <2> USE <1>9 DEF HangUp
  <2>1. ApprovalTypes'
    BY Zenon, <1>t DEF ApprovalTypes
  <2>2. Recedes
    BY <1>t, <2>1 DEF Recedes, At, ApprovalTypes
  <2> QED
    BY Zenon, <2>2, RecedesInv
<1>10. CASE Detach(o)
  <2>0. Returns(o) /\ UNCHANGED <<unattended, epoch, by>>
    BY Zenon, <1>10 DEF Detach
  <2>1. CASE epoch = o
    <3> USE DEF ApprovalInv
    <3>1. provider' = None /\ pending' = {} /\ ask' = Declined(pending)
        BY Zenon, <1>10, <2>1 DEF Detach
    <3>2. /\ ask' \in [Transfers -> {"new", "asking", "yes", "no"}]
          /\ \A u \in Transfers : ask'[u] = ask[u] \/ (ask[u] = "asking" /\ ask'[u] = "no")
        BY Zenon, <1>t, <3>1, DeclinedEffect
    <3>3. ApprovalTypes'
        BY Zenon, <1>t, <2>0, <3>1, <3>2, ReturnsEffect DEF ApprovalTypes
    <3>4. AskedWhereAttached'
      <4>1. \A p \in Providers, u \in Transfers : At(p, u)' => At(p, u)
        BY Zenon, <1>t, <2>0, ReturnsEffect
      <4> QED
        BY <3>1, <3>2, <4>1 DEF AskedWhereAttached
    <3>5. YesFromTheAttachedScreen'
        BY Zenon, <2>0, <3>2 DEF YesFromTheAttachedScreen
    <3>6. ReplacementStaysAttached'
        BY Zenon, <1>t, <2>0, <2>1, ReturnsEffect DEF ReplacementStaysAttached
    <3> QED
        BY Zenon, <3>3, <3>4, <3>5, <3>6
  <2>2. CASE epoch # o
    <3>1. UNCHANGED <<provider, pending, ask>>
        BY Zenon, <1>10, <2>2 DEF Detach
    <3>2. ApprovalTypes'
        BY Zenon, <1>t, <2>0, <3>1, ReturnsEffect DEF ApprovalTypes
    <3>3. Recedes
        BY Zenon, <1>t, <2>0, <3>1, <3>2, ReturnsEffect DEF Recedes
    <3> QED
        BY Zenon, <3>3, RecedesInv
  <2> QED
    BY Zenon, <2>1, <2>2
<1> QED
    BY Zenon, <1>1, <1>2, <1>3, <1>4, <1>5, <1>6, <1>7, <1>8, <1>9, <1>10 DEF Session

\* The inductive invariant holds throughout, for any offers and providers.
THEOREM ApprovalInvariant ==
    Spec => []ApprovalInv
<1>1. Init => ApprovalInv
    BY Zenon, ApprovalInit
<1>2. ApprovalInv /\ [Next]_vars => ApprovalInv'
  <2> SUFFICES ASSUME ApprovalInv, [Next]_vars PROVE ApprovalInv'
    BY Zenon
  <2>1. ASSUME NEW t \in Transfers, Files(t) PROVE ApprovalInv'
    BY Zenon, <2>1, FilesStepInv
  <2>2. ASSUME NEW o \in Providers, Session(o) PROVE ApprovalInv'
    BY Zenon, <2>2, SessionStepInv
  <2>3. CASE UNCHANGED vars
    BY <2>3 DEF vars, ApprovalInv, ApprovalTypes, AskedWhereAttached, At, YesFromTheAttachedScreen,
                ReplacementStaysAttached
  <2> QED
    BY Zenon, <2>1, <2>2, <2>3 DEF Next
<1> QED
    BY <1>1, <1>2, PTL DEF Spec

\* A file is accepted only by the person at the screen that was attached when
\* they answered (decide, attach).
THEOREM AcceptedByThePerson ==
    Spec => []YesFromTheAttachedScreen
<1>1. ApprovalInv => YesFromTheAttachedScreen
    BY Zenon DEF ApprovalInv
<1> QED
    BY <1>1, ApprovalInvariant, PTL

\* A displaced session that ends does not unhook its replacement (detach).
THEOREM DetachSparesReplacement ==
    Spec => []ReplacementStaysAttached
<1>1. ApprovalInv => ReplacementStaysAttached
    BY Zenon DEF ApprovalInv
<1> QED
    BY <1>1, ApprovalInvariant, PTL

\* An answer, a decline or a timeout that was reached stands: nothing answers a
\* question twice (decide, withdraw).
THEOREM FirstAnswerStands ==
    Spec => AnswerIsFinal
<1> DEFINE Final == \A t \in Transfers : ask[t] \in {"yes", "no"} => ask'[t] = ask[t]
<1>1. ApprovalInv /\ [Next]_vars => [Final]_vars
  <2> SUFFICES ASSUME ApprovalInv, Next PROVE Final
    BY Zenon
  <2>t. ApprovalTypes
    BY Zenon DEF ApprovalInv
  <2>1. ASSUME NEW t \in Transfers, Files(t) PROVE Final
    BY <2>t, <2>1 DEF Files, ConfirmReceive, AcceptTimeout, TransferEnds, ApprovalTypes
  <2>2. ASSUME NEW o \in Providers, Session(o) PROVE Final
    <3>1. CASE Attach(o) \/ Detach(o) \/ CheckLive(o) \/ \E t \in Transfers : ReadEvent(o, t)
      <4>1. ask' = ask \/ \E S \in SUBSET Transfers : ask' = Declined(S)
        BY Zenon, <2>t, <3>1 DEF Attach, Detach, CheckLive, ReadEvent, ApprovalTypes
      <4> QED
        BY Zenon, <2>t, <4>1 DEF Declined
    <3>2. CASE \E t \in Transfers, accept \in BOOLEAN : Answer(o, t, accept)
        BY <2>t, <3>2 DEF Answer, Decide, ApprovalTypes
    <3>3. CASE SendReady(o) \/ Receive(o) \/ Show(o) \/ Lagged(o) \/ HangUp(o)
        BY Zenon, <3>3 DEF SendReady, Receive, Show, Lagged, HangUp
    <3> QED
        BY Zenon, <2>2, <3>1, <3>2, <3>3 DEF Session
  <2> QED
    BY Zenon, <2>1, <2>2 DEF Next
<1> QED
    BY <1>1, ApprovalInvariant, PTL DEF Spec, AnswerIsFinal

\* The prompts stay within the channel's capacity, and every variable keeps its
\* type (confirm_receive, the provider's queue).
THEOREM ApprovalTyped ==
    Spec => []TypeOK
<1>1. ApprovalInv => TypeOK
    BY Zenon DEF ApprovalInv, ApprovalTypes, TypeOK
<1> QED
    BY <1>1, ApprovalInvariant, PTL

=============================================================================
