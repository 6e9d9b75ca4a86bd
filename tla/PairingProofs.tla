--------------------------- MODULE PairingProofs ---------------------------
(***************************************************************************)
(* Pairing for any number of control connections and of devices: the       *)
(* invariant PairingInv is kept by every step, and the safety properties   *)
(* follow from it.                                                         *)
(***************************************************************************)
EXTENDS Pairing, TLAPS

\* Init sets up the invariant: no window, nothing proved.
LEMMA PairingInit ==
    Init => PairingInv
<1> SUFFICES ASSUME Init PROVE PairingInv
    BY Zenon
<1> USE PairingAssumption DEF Init
<1>1. PairingTypes
    BY DEF PairingTypes, OperatorStates, HandshakeStates
<1>2. ConsentSoFar
    BY Zenon DEF ConsentSoFar
<1>3. WindowsAreFresh
    BY DEF WindowsAreFresh
<1>4. TokenIsSingleUse
    BY Zenon DEF TokenIsSingleUse
<1>5. LatestIsOpen
    BY Zenon DEF LatestIsOpen
<1> QED
    BY Zenon, <1>1, <1>2, <1>3, <1>4, <1>5 DEF PairingInv

\* A handshake that moves on changes its own state and nothing else.
LEMMA MovesEffect ==
    ASSUME PairingTypes, NEW h \in Handshakes, NEW x \in HandshakeStates, Moves(h, x)
    PROVE  /\ hs' \in [Handshakes -> [at : HandshakeStates, tx : Operators \cup {None}]]
           /\ \A k \in Handshakes : hs'[k].at = IF k = h THEN x ELSE hs[k].at
    BY ZenonT(60) DEF PairingTypes, Moves

\* So does a control connection.
LEMMA AtEffect ==
    ASSUME PairingTypes, NEW o \in Operators, NEW x \in OperatorStates \ {"prompted"}, op' = At(o, x)
    PROVE  /\ op' \in [Operators -> [at : OperatorStates, asks : Handshakes \cup {None}]]
           /\ \A p \in Operators : op'[p].at = IF p = o THEN x ELSE op[p].at
           /\ \A p \in Operators : op'[p].asks = op[p].asks
    BY ZenonT(60) DEF PairingTypes, At

\* A control connection that breaks off is ending; which question it asked does
\* not matter any more.
LEMMA BreaksEffect ==
    ASSUME PairingTypes, NEW o \in Operators, NEW h \in Handshakes \cup {None}, Breaks(o, h)
    PROVE  /\ op' \in [Operators -> [at : OperatorStates, asks : Handshakes \cup {None}]]
           /\ \A p \in Operators : op'[p].at = IF p = o THEN "ending" ELSE op[p].at
           /\ \A p \in Operators : p # o => op'[p].asks = op[p].asks
    BY Zenon DEF PairingTypes, Breaks, OperatorStates

\* A control connection that returns fails the handshakes it leaves behind and
\* moves none forward.
LEMMA ReturnsEffect ==
    ASSUME PairingTypes, NEW o \in Operators, NEW S, Returns(o, S)
    PROVE  /\ op' \in [Operators -> [at : OperatorStates, asks : Handshakes \cup {None}]]
           /\ \A p \in Operators : op'[p].at = IF p = o THEN "returned" ELSE op[p].at
           /\ \A p \in Operators : op'[p].asks = op[p].asks
           /\ chan' \in [Operators -> Seq(Handshakes)]
           /\ \A p \in Operators : Len(chan'[p]) <= 1
           /\ hs' \in [Handshakes -> [at : HandshakeStates, tx : Operators \cup {None}]]
           /\ \A k \in Handshakes : hs'[k].at = hs[k].at \/ hs'[k].at = "failed"
<1>1. op' = At(o, "returned") /\ "returned" \in OperatorStates \ {"prompted"}
    BY Zenon DEF Returns, OperatorStates
<1>2. /\ chan' = [chan EXCEPT ![o] = <<>>]
      /\ <<>> \in Seq(Handshakes) /\ Len(<<>>) <= 1
    BY DEF Returns
<1>3. chan' \in [Operators -> Seq(Handshakes)] /\ \A p \in Operators : Len(chan'[p]) <= 1
    BY Zenon, <1>2 DEF PairingTypes
<1>4. \A k \in Handshakes : hs'[k] = hs[k] \/ hs'[k] = [hs[k] EXCEPT !.at = "failed"]
    BY Zenon DEF Returns
<1>5. hs' \in [Handshakes -> [at : HandshakeStates, tx : Operators \cup {None}]]
  <2>1. ASSUME NEW k \in Handshakes
        PROVE  hs'[k] \in [at : HandshakeStates, tx : Operators \cup {None}]
    <3>1. hs[k] \in [at : HandshakeStates, tx : Operators \cup {None}]
        BY Zenon DEF PairingTypes
    <3>2. "failed" \in HandshakeStates
        BY Zenon DEF HandshakeStates
    <3>3. [hs[k] EXCEPT !.at = "failed"] \in [at : HandshakeStates, tx : Operators \cup {None}]
        BY Zenon, <3>1, <3>2
    <3> QED
        BY Zenon, <1>4, <3>1, <3>3
  <2> QED
    BY Zenon, <2>1 DEF Returns
<1>6. \A k \in Handshakes : hs'[k].at = hs[k].at \/ hs'[k].at = "failed"
    BY ZenonT(60), <1>4 DEF PairingTypes
<1> QED
    BY Zenon, <1>1, <1>3, <1>5, <1>6, AtEffect

\* A handshake that moves on and touches nothing else keeps the invariant, if it
\* has behind it what its new state says.
LEMMA MovesInv ==
    ASSUME PairingInv, NEW h \in Handshakes, NEW x \in HandshakeStates, Moves(h, x),
           UNCHANGED <<opVars, expired, history>>,
           x \in {"verified", "sending", "waiting", "confirmed", "stored"} => proved[h] # None,
           x \in {"confirmed", "stored"} => yes[h] # None
    PROVE  PairingInv'
<1> USE DEF PairingInv, opVars, history
<1>1. /\ hs' \in [Handshakes -> [at : HandshakeStates, tx : Operators \cup {None}]]
      /\ \A k \in Handshakes : hs'[k].at = IF k = h THEN x ELSE hs[k].at
    BY Zenon, MovesEffect
<1>2. PairingTypes'
    BY Zenon, <1>1 DEF PairingTypes
<1>3. ConsentSoFar'
    BY Zenon, <1>1 DEF ConsentSoFar
<1>4. WindowsAreFresh' /\ TokenIsSingleUse' /\ LatestIsOpen'
    BY Zenon DEF WindowsAreFresh, TokenIsSingleUse, LatestIsOpen
<1> QED
    BY Zenon, <1>2, <1>3, <1>4

\* A step of a device's handshake keeps the invariant.
LEMMA DeviceStepInv ==
    ASSUME PairingInv, NEW h \in Handshakes, Device(h)
    PROVE  PairingInv'
<1> USE PairingAssumption
<1>1. CASE SeesOperator(h)
    BY Zenon, <1>1, MovesInv DEF SeesOperator, HandshakeStates
<1>2. CASE SeesWindow(h)
    BY Zenon, <1>2, MovesInv DEF SeesWindow, HandshakeStates
<1>3. CASE Abandons(h)
    BY Zenon, <1>3, MovesInv DEF Abandons, HandshakeStates
<1>4. ASSUME NEW token \in Shown \cup {None}, Verify(h, token)
      PROVE  PairingInv'
  <2> USE <1>4 DEF PairingInv
  <2>1. CASE window = None
    BY Zenon, <2>1, MovesInv DEF Verify, HandshakeStates, opVars, history
  <2>2. CASE window # None /\ Exhausted
    <3>1. /\ Moves(h, "failed") /\ window' = None
          /\ UNCHANGED <<confirmTx, chan, op, expired, latest, spent, wrong, proved, yes>>
        BY Zenon, <2>2 DEF Verify
    <3>2. window.owner \in expired
        BY Zenon, <2>2 DEF Exhausted
    <3>3. /\ hs' \in [Handshakes -> [at : HandshakeStates, tx : Operators \cup {None}]]
          /\ \A k \in Handshakes : hs'[k].at = IF k = h THEN "failed" ELSE hs[k].at
        BY <3>1, MovesEffect DEF HandshakeStates
    <3>4. PairingTypes'
        BY Zenon, <3>1, <3>3 DEF PairingTypes
    <3>5. ConsentSoFar'
        BY Zenon, <3>1, <3>3 DEF ConsentSoFar
    <3>6. WindowsAreFresh' /\ TokenIsSingleUse'
        BY Zenon, <3>1 DEF WindowsAreFresh, TokenIsSingleUse
    <3>7. LatestIsOpen'
        BY Zenon, <3>1, <3>2 DEF LatestIsOpen
    <3> QED
        BY Zenon, <3>4, <3>5, <3>6, <3>7
  <2>3. CASE window # None /\ ~ Exhausted /\ token # window.owner
    <3> DEFINE w == window.owner
    <3>1. /\ Moves(h, "failed") /\ wrong' = [wrong EXCEPT ![w] = @ + 1]
          /\ IF window.failed + 1 >= MaxFailed
             THEN window' = None /\ spent' = spent \cup {w}
             ELSE window' = [window EXCEPT !.failed = @ + 1] /\ UNCHANGED spent
          /\ UNCHANGED <<confirmTx, chan, op, expired, latest, proved, yes>>
        BY Zenon, <2>3 DEF Verify
    <3>2. /\ w \in Operators /\ window.failed \in 0 .. MaxFailed - 1
          /\ window = [owner |-> w, failed |-> window.failed]
        BY Zenon, <2>3 DEF PairingTypes
    <3>3. /\ hs' \in [Handshakes -> [at : HandshakeStates, tx : Operators \cup {None}]]
          /\ \A k \in Handshakes : hs'[k].at = IF k = h THEN "failed" ELSE hs[k].at
        BY <3>1, MovesEffect DEF HandshakeStates
    <3>4. /\ wrong' \in [Operators -> Nat]
          /\ \A o \in Operators : wrong'[o] = IF o = w THEN window.failed + 1 ELSE wrong[o]
        BY <2>3, <3>1, <3>2 DEF PairingTypes, WindowsAreFresh
    <3>5. \/ window' = None /\ spent' = spent \cup {w}
          \/ /\ window' = [owner |-> w, failed |-> window.failed + 1] /\ spent' = spent
             /\ window.failed + 1 \in 0 .. MaxFailed - 1
        BY <3>1, <3>2
    <3>6. PairingTypes'
        BY SMTT(60), <3>1, <3>2, <3>3, <3>4, <3>5 DEF PairingTypes
    <3>7. ConsentSoFar'
        BY Zenon, <3>1, <3>3 DEF ConsentSoFar
    <3>8. WindowsAreFresh'
        BY <2>3, <3>1, <3>2, <3>4, <3>5 DEF WindowsAreFresh, PairingTypes
    <3>9. TokenIsSingleUse'
        BY Zenon, <3>1 DEF TokenIsSingleUse
    <3>10. LatestIsOpen'
        BY <2>3, <3>1, <3>2, <3>5 DEF LatestIsOpen
    <3> QED
        BY Zenon, <3>6, <3>7, <3>8, <3>9, <3>10
  <2>4. CASE window # None /\ ~ Exhausted /\ token = window.owner
    <3>1. /\ Moves(h, "verified") /\ proved' = [proved EXCEPT ![h] = token]
          /\ spent' = spent \cup {token} /\ window' = None
          /\ UNCHANGED <<confirmTx, chan, op, expired, latest, wrong, yes>>
        BY Zenon, <2>4 DEF Verify
    <3>2. token \in Operators /\ token \notin spent /\ op[token].at # "idle" /\ token # None
        BY <2>4 DEF PairingTypes, WindowsAreFresh
    <3>3. /\ hs' \in [Handshakes -> [at : HandshakeStates, tx : Operators \cup {None}]]
          /\ \A k \in Handshakes : hs'[k].at = IF k = h THEN "verified" ELSE hs[k].at
        BY <3>1, MovesEffect DEF HandshakeStates
    <3>4. /\ proved' \in [Handshakes -> Operators \cup {None}]
          /\ \A k \in Handshakes : proved'[k] = IF k = h THEN token ELSE proved[k]
        BY Zenon, <3>1, <3>2 DEF PairingTypes
    <3>5. PairingTypes'
        BY <3>1, <3>2, <3>3, <3>4 DEF PairingTypes
    <3>6. ConsentSoFar'
        BY Zenon, <3>1, <3>2, <3>3, <3>4 DEF ConsentSoFar
    <3>7. WindowsAreFresh'
        BY Zenon, <3>1, <3>2, <3>4 DEF WindowsAreFresh
    <3>8. TokenIsSingleUse'
        BY <3>2, <3>4 DEF TokenIsSingleUse, WindowsAreFresh
    <3>9. LatestIsOpen'
        BY Zenon, <2>4, <3>1 DEF LatestIsOpen
    <3> QED
        BY Zenon, <3>5, <3>6, <3>7, <3>8, <3>9
  <2> QED
    BY Zenon, <2>1, <2>2, <2>3, <2>4
<1>5. CASE ReadTx(h)
  <2> USE <1>5 DEF PairingInv, ReadTx, opVars, history
  <2>1. PairingTypes'
    BY Zenon DEF PairingTypes, HandshakeStates
  <2>2. ConsentSoFar'
    BY Zenon DEF ConsentSoFar, PairingTypes
  <2>3. WindowsAreFresh' /\ TokenIsSingleUse' /\ LatestIsOpen'
    BY Zenon DEF WindowsAreFresh, TokenIsSingleUse, LatestIsOpen
  <2> QED
    BY Zenon, <2>1, <2>2, <2>3
<1>6. CASE SendRequest(h)
  <2> DEFINE o == hs[h].tx
  <2>1. CASE op[o].at = "returned"
    BY Zenon, <1>6, <2>1, MovesInv DEF SendRequest, HandshakeStates, opVars, history
  <2>2. CASE op[o].at # "returned"
    <3> USE DEF PairingInv
    <3>1. /\ hs[h].at = "sending" /\ Len(chan[o]) < 1
          /\ chan' = [chan EXCEPT ![o] = Append(@, h)] /\ Moves(h, "waiting")
          /\ UNCHANGED <<window, confirmTx, op, expired, latest, spent, wrong, proved, yes>>
        BY Zenon, <1>6, <2>2 DEF SendRequest, history
    <3>2. /\ hs' \in [Handshakes -> [at : HandshakeStates, tx : Operators \cup {None}]]
          /\ \A k \in Handshakes : hs'[k].at = IF k = h THEN "waiting" ELSE hs[k].at
        BY <3>1, MovesEffect DEF HandshakeStates
    <3>3. chan' \in [Operators -> Seq(Handshakes)] /\ \A p \in Operators : Len(chan'[p]) <= 1
      <4>1. ASSUME NEW p \in Operators
            PROVE  chan'[p] \in Seq(Handshakes) /\ Len(chan'[p]) <= 1
        <5>1. chan[p] \in Seq(Handshakes) /\ Len(chan[p]) \in Nat /\ Len(chan[p]) <= 1
            BY DEF PairingTypes
        <5>2. chan'[p] = chan[p] \/ (p = o /\ chan'[p] = Append(chan[p], h))
            BY Zenon, <3>1 DEF PairingTypes
        <5> QED
            BY <5>1, <5>2, <3>1
      <4> QED
        BY Zenon, <4>1, <3>1 DEF PairingTypes
    <3>4. PairingTypes'
        BY Zenon, <3>1, <3>2, <3>3 DEF PairingTypes
    <3>5. ConsentSoFar'
        BY Zenon, <3>1, <3>2 DEF ConsentSoFar
    <3>6. WindowsAreFresh' /\ TokenIsSingleUse' /\ LatestIsOpen'
        BY Zenon, <3>1 DEF WindowsAreFresh, TokenIsSingleUse, LatestIsOpen
    <3> QED
        BY Zenon, <3>4, <3>5, <3>6
  <2> QED
    BY Zenon, <2>1, <2>2
<1>7. CASE ConfirmTimeout(h)
    BY Zenon, <1>7, MovesInv DEF ConfirmTimeout, HandshakeStates
<1>8. CASE StorePeer(h)
  <2>1. hs[h].at = "confirmed" /\ proved[h] # None /\ yes[h] # None
    BY Zenon, <1>8 DEF StorePeer, PairingInv, ConsentSoFar
  <2> QED
    BY Zenon, <1>8, <2>1, MovesInv DEF StorePeer, HandshakeStates
<1> QED
    BY Zenon, <1>1, <1>2, <1>3, <1>4, <1>5, <1>6, <1>7, <1>8 DEF Device

\* A control connection o moves on to x without touching the window; handshakes
\* fail or stay.
ConnectionMoves(o, x) ==
    /\ x \in OperatorStates \ {"idle", "begun"}
    /\ op[o].at \in {"begun", "opened", "loop", "prompted"} \/ x \in {"finishing", "returned"}
    /\ op' \in [Operators -> [at : OperatorStates, asks : Handshakes \cup {None}]]
    /\ \A p \in Operators : op'[p].at = IF p = o THEN x ELSE op[p].at
    /\ \A p \in Operators : op'[p].at = "prompted" => op'[p].asks \in Handshakes
    /\ confirmTx' \in Operators \cup {None}
    /\ chan' \in [Operators -> Seq(Handshakes)] /\ \A p \in Operators : Len(chan'[p]) <= 1
    /\ hs' \in [Handshakes -> [at : HandshakeStates, tx : Operators \cup {None}]]
    /\ \A k \in Handshakes : hs'[k].at = hs[k].at \/ hs'[k].at = "failed"
    /\ UNCHANGED <<window, expired, history>>

\* Such a step keeps the invariant.
LEMMA ConnectionMovesInv ==
    ASSUME PairingInv, NEW o \in Operators, NEW x, ConnectionMoves(o, x)
    PROVE  PairingInv'
<1> USE DEF PairingInv, history, ConnectionMoves
<1>1. PairingTypes'
    BY Zenon DEF PairingTypes
<1>2. ConsentSoFar' /\ TokenIsSingleUse'
    BY Zenon DEF ConsentSoFar, TokenIsSingleUse
<1>3. WindowsAreFresh'
    BY SMTT(60) DEF WindowsAreFresh, PairingTypes
<1>4. LatestIsOpen'
    BY ZenonT(60) DEF LatestIsOpen
<1> QED
    BY Zenon, <1>1, <1>2, <1>3, <1>4

\* A step of a control connection keeps the invariant.
LEMMA OperatorStepInv ==
    ASSUME PairingInv, NEW o \in Operators, Operator(o)
    PROVE  PairingInv'
<1> USE PairingAssumption
<1>t. PairingTypes
    BY Zenon DEF PairingInv
<1>h. /\ chan \in [Operators -> Seq(Handshakes)] /\ \A p \in Operators : Len(chan[p]) <= 1
      /\ hs \in [Handshakes -> [at : HandshakeStates, tx : Operators \cup {None}]]
      /\ confirmTx \in Operators \cup {None}
      /\ \A p \in Operators : op[p].at = "prompted" => op[p].asks \in Handshakes
    BY Zenon, <1>t DEF PairingTypes
<1>1. CASE BeginWindow(o)
  <2> USE DEF PairingInv
  <2>1. /\ op[o].at = "idle" /\ op' = At(o, "begun") /\ window' = [owner |-> o, failed |-> 0]
        /\ latest' = o /\ UNCHANGED <<confirmTx, chan, hs, expired, spent, wrong, proved, yes>>
    BY Zenon, <1>1 DEF BeginWindow, Window
  <2>2. /\ op' \in [Operators -> [at : OperatorStates, asks : Handshakes \cup {None}]]
        /\ \A p \in Operators : op'[p].at = IF p = o THEN "begun" ELSE op[p].at
        /\ \A p \in Operators : op'[p].asks = op[p].asks
    BY Zenon, <1>t, <2>1, AtEffect DEF OperatorStates
  <2>3. /\ window' \in [owner : Operators, failed : 0 .. MaxFailed - 1]
        /\ window' # None /\ window'.owner = o /\ window'.failed = 0
    BY <2>1
  <2>4. PairingTypes'
    BY Zenon, <2>1, <2>2, <2>3 DEF PairingTypes
  <2>5. ConsentSoFar' /\ TokenIsSingleUse'
    BY Zenon, <2>1 DEF ConsentSoFar, TokenIsSingleUse
  <2>6. WindowsAreFresh'
    BY <2>1, <2>2, <2>3 DEF WindowsAreFresh
  <2>7. LatestIsOpen'
    BY Zenon, <2>1, <2>3 DEF LatestIsOpen
  <2> QED
    BY Zenon, <2>4, <2>5, <2>6, <2>7
<1>2. CASE BeginChannel(o)
  <2>1. op[o].at = "begun" /\ op' = At(o, "opened") /\ confirmTx' = o
        /\ UNCHANGED <<window, chan, hs, expired, history>>
    BY Zenon, <1>2 DEF BeginChannel
  <2>2. ConnectionMoves(o, "opened")
    BY SMTT(60), <1>t, <1>h, <2>1, AtEffect DEF ConnectionMoves, OperatorStates
  <2> QED
    BY Zenon, <2>2, ConnectionMovesInv
<1>3. CASE SendReady(o)
  <2>1. op[o].at = "opened" /\ UNCHANGED <<window, confirmTx, expired, history>>
    BY Zenon, <1>3 DEF SendReady
  <2>2. CASE op' = At(o, "loop") /\ UNCHANGED <<chan, hs>>
    <3>1. /\ op' \in [Operators -> [at : OperatorStates, asks : Handshakes \cup {None}]]
          /\ \A p \in Operators : op'[p].at = IF p = o THEN "loop" ELSE op[p].at
          /\ \A p \in Operators : op'[p].asks = op[p].asks
        BY Zenon, <1>t, <2>2, AtEffect DEF OperatorStates
    <3>2. ConnectionMoves(o, "loop")
        BY Zenon, <1>h, <2>1, <2>2, <3>1 DEF ConnectionMoves, OperatorStates
    <3> QED
        BY Zenon, <3>2, ConnectionMovesInv
  <2>3. CASE Returns(o, {})
    <3>1. ConnectionMoves(o, "returned")
        BY Zenon, <1>t, <1>h, <2>1, <2>3, ReturnsEffect DEF ConnectionMoves, OperatorStates
    <3> QED
        BY Zenon, <3>1, ConnectionMovesInv
  <2> QED
    BY Zenon, <1>3, <2>2, <2>3 DEF SendReady
<1>4. CASE Expire(o)
  <2> USE <1>4 DEF PairingInv, Expire, opVars, history
  <2>1. PairingTypes'
    BY Zenon DEF PairingTypes
  <2>2. ConsentSoFar' /\ TokenIsSingleUse' /\ WindowsAreFresh'
    BY Zenon DEF ConsentSoFar, TokenIsSingleUse, WindowsAreFresh
  <2>3. LatestIsOpen'
    BY Zenon DEF LatestIsOpen
  <2> QED
    BY Zenon, <2>1, <2>2, <2>3
<1>5. CASE Deadline(o) \/ HangUp(o)
  <2>1. op[o].at = "loop" /\ Breaks(o, None) /\ UNCHANGED <<window, confirmTx, chan, hs, expired, history>>
    BY Zenon, <1>5 DEF Deadline, HangUp
  <2>2. /\ op' \in [Operators -> [at : OperatorStates, asks : Handshakes \cup {None}]]
        /\ \A p \in Operators : op'[p].at = IF p = o THEN "ending" ELSE op[p].at
        /\ \A p \in Operators : p # o => op'[p].asks = op[p].asks
    BY Zenon, <1>t, <2>1, BreaksEffect
  <2>3. ConnectionMoves(o, "ending")
    BY Zenon, <1>h, <2>1, <2>2 DEF ConnectionMoves, OperatorStates
  <2> QED
    BY Zenon, <2>3, ConnectionMovesInv
<1>6. CASE Prompt(o)
  <2> DEFINE h == Head(chan[o])
  <2>1. /\ op[o].at = "loop" /\ chan[o] # <<>>
        /\ UNCHANGED <<window, confirmTx, expired, history>>
    BY Zenon, <1>6 DEF Prompt
  <2>2. CASE Returns(o, {h})
    <3>1. ConnectionMoves(o, "returned")
        BY Zenon, <1>t, <1>h, <2>1, <2>2, ReturnsEffect DEF ConnectionMoves, OperatorStates
    <3> QED
        BY Zenon, <3>1, ConnectionMovesInv
  <2>3. CASE /\ op' = [op EXCEPT ![o] = [at |-> "prompted", asks |-> h]]
             /\ chan' = [chan EXCEPT ![o] = Tail(@)]
             /\ UNCHANGED hs
    <3>1. h \in Handshakes /\ Tail(chan[o]) \in Seq(Handshakes) /\ Len(Tail(chan[o])) <= 1
      <4>1. chan[o] \in Seq(Handshakes) /\ Len(chan[o]) <= 1
        BY Zenon, <1>h
      <4> QED
        BY <2>1, <4>1
    <3>2. /\ op' \in [Operators -> [at : OperatorStates, asks : Handshakes \cup {None}]]
          /\ \A p \in Operators : op'[p].at = IF p = o THEN "prompted" ELSE op[p].at
          /\ \A p \in Operators : op'[p].asks = IF p = o THEN h ELSE op[p].asks
        BY <1>t, <2>3, <3>1 DEF PairingTypes, OperatorStates
    <3>3. chan' \in [Operators -> Seq(Handshakes)] /\ \A p \in Operators : Len(chan'[p]) <= 1
        BY Zenon, <1>h, <2>3, <3>1
    <3>4. \A p \in Operators : op'[p].at = "prompted" => op'[p].asks \in Handshakes
        BY Zenon, <1>h, <3>1, <3>2
    <3>5. ConnectionMoves(o, "prompted")
        BY Zenon, <1>h, <2>1, <2>3, <3>2, <3>3, <3>4 DEF ConnectionMoves, OperatorStates
    <3> QED
        BY Zenon, <3>5, ConnectionMovesInv
  <2> QED
    BY Zenon, <1>6, <2>2, <2>3 DEF Prompt
<1>7. ASSUME NEW accept \in BOOLEAN, Answer(o, accept)
      PROVE  PairingInv'
  <2> USE DEF PairingInv
  <2> DEFINE h == op[o].asks
  <2>1. /\ op[o].at = "prompted" /\ Breaks(o, h)
        /\ UNCHANGED <<window, confirmTx, chan, expired, latest, spent, wrong, proved>>
        /\ yes' = IF accept THEN [yes EXCEPT ![h] = o] ELSE yes
        /\ IF hs[h].at = "waiting"
           THEN Moves(h, IF accept THEN "confirmed" ELSE "failed") ELSE UNCHANGED hs
    BY Zenon, <1>7 DEF Answer
  <2>2. h \in Handshakes
    BY Zenon, <1>h, <2>1
  <2>3. /\ op' \in [Operators -> [at : OperatorStates, asks : Handshakes \cup {None}]]
        /\ \A p \in Operators : op'[p].at = IF p = o THEN "ending" ELSE op[p].at
        /\ \A p \in Operators : p # o => op'[p].asks = op[p].asks
    BY Zenon, <1>t, <2>1, <2>2, BreaksEffect
  <2>4. /\ yes' \in [Handshakes -> Operators \cup {None}]
        /\ \A k \in Handshakes : yes[k] # None => yes'[k] # None
        /\ accept => yes'[h] # None
    BY <1>t, <2>1, <2>2 DEF PairingTypes
  <2>5. /\ hs' \in [Handshakes -> [at : HandshakeStates, tx : Operators \cup {None}]]
        /\ \A k \in Handshakes : \/ hs'[k].at = hs[k].at \/ hs'[k].at = "failed"
                                 \/ k = h /\ accept /\ hs[k].at = "waiting" /\ hs'[k].at = "confirmed"
    <3>1. CASE hs[h].at = "waiting" /\ accept
        BY <1>t, <2>1, <2>2, <3>1, MovesEffect DEF HandshakeStates
    <3>2. CASE hs[h].at = "waiting" /\ ~ accept
        BY <1>t, <2>1, <2>2, <3>2, MovesEffect DEF HandshakeStates
    <3>3. CASE hs[h].at # "waiting"
        BY Zenon, <1>h, <2>1, <3>3
    <3> QED
        BY Zenon, <3>1, <3>2, <3>3
  <2>6. PairingTypes'
    BY Zenon, <1>t, <2>1, <2>3, <2>4, <2>5 DEF PairingTypes
  <2>7. ConsentSoFar'
    BY Zenon, <2>1, <2>4, <2>5 DEF ConsentSoFar
  <2>8. WindowsAreFresh' /\ TokenIsSingleUse'
    BY ZenonT(60), <1>t, <2>1, <2>3 DEF WindowsAreFresh, TokenIsSingleUse, PairingTypes
  <2>9. LatestIsOpen'
    BY <2>1, <2>3 DEF LatestIsOpen
  <2> QED
    BY Zenon, <2>6, <2>7, <2>8, <2>9
<1>8. CASE EndWindow(o)
  <2> USE DEF PairingInv, history
  <2>1. /\ op[o].at = "ending" /\ op' = At(o, "detaching") /\ window' = None
        /\ UNCHANGED <<confirmTx, chan, hs, expired, history>>
    BY Zenon, <1>8 DEF EndWindow
  <2>2. /\ op' \in [Operators -> [at : OperatorStates, asks : Handshakes \cup {None}]]
        /\ \A p \in Operators : op'[p].at = IF p = o THEN "detaching" ELSE op[p].at
        /\ \A p \in Operators : op'[p].asks = op[p].asks
    BY Zenon, <1>t, <2>1, AtEffect DEF OperatorStates
  <2>3. PairingTypes'
    BY Zenon, <1>t, <2>1, <2>2 DEF PairingTypes
  <2>4. ConsentSoFar' /\ TokenIsSingleUse' /\ WindowsAreFresh'
    BY <2>1, <2>2 DEF ConsentSoFar, TokenIsSingleUse, WindowsAreFresh
  <2>5. LatestIsOpen'
    BY Zenon, <2>2 DEF LatestIsOpen
  <2> QED
    BY Zenon, <2>3, <2>4, <2>5
<1>9. CASE EndChannel(o)
  <2>1. op' = At(o, "finishing") /\ confirmTx' = None /\ UNCHANGED <<window, chan, hs, expired, history>>
    BY Zenon, <1>9 DEF EndChannel
  <2>2. /\ op' \in [Operators -> [at : OperatorStates, asks : Handshakes \cup {None}]]
        /\ \A p \in Operators : op'[p].at = IF p = o THEN "finishing" ELSE op[p].at
        /\ \A p \in Operators : op'[p].asks = op[p].asks
    BY Zenon, <1>t, <2>1, AtEffect DEF OperatorStates
  <2>3. ConnectionMoves(o, "finishing")
    BY Zenon, <1>h, <2>1, <2>2 DEF ConnectionMoves, OperatorStates
  <2> QED
    BY Zenon, <2>3, ConnectionMovesInv
<1>10. CASE Finish(o)
  <2>1. Returns(o, {}) /\ UNCHANGED <<window, confirmTx, expired, history>>
    BY Zenon, <1>10 DEF Finish
  <2>2. ConnectionMoves(o, "returned")
    BY Zenon, <1>t, <1>h, <2>1, ReturnsEffect DEF ConnectionMoves, OperatorStates
  <2> QED
    BY Zenon, <2>2, ConnectionMovesInv
<1> QED
    BY Zenon, <1>1, <1>2, <1>3, <1>4, <1>5, <1>6, <1>7, <1>8, <1>9, <1>10 DEF Operator

\* The inductive invariant holds throughout, for any control connections and
\* devices.
THEOREM PairingInvariant ==
    Spec => []PairingInv
<1>1. Init => PairingInv
    BY Zenon, PairingInit
<1>2. PairingInv /\ [Next]_vars => PairingInv'
  <2> SUFFICES ASSUME PairingInv, [Next]_vars PROVE PairingInv'
    BY Zenon
  <2>1. ASSUME NEW h \in Handshakes, Device(h) PROVE PairingInv'
    BY Zenon, <2>1, DeviceStepInv
  <2>2. ASSUME NEW o \in Operators, Operator(o) PROVE PairingInv'
    BY Zenon, <2>2, OperatorStepInv
  <2>3. CASE UNCHANGED vars
    BY Zenon, <2>3 DEF vars, PairingInv, PairingTypes, ConsentSoFar, WindowsAreFresh, TokenIsSingleUse, LatestIsOpen
  <2> QED
    BY Zenon, <2>1, <2>2, <2>3 DEF Next
<1> QED
    BY <1>1, <1>2, PTL DEF Spec

\* A device is stored only after it proved the token of a window and a person
\* said yes to that device (accept_pairing).
THEOREM OnlyByConsent ==
    Spec => []StoredByConsent
<1>1. PairingInv => StoredByConsent
    BY Zenon DEF PairingInv, ConsentSoFar, StoredByConsent
<1> QED
    BY <1>1, PairingInvariant, PTL

\* However many devices race for a code, one of them at most gets in with it
\* (verify_and_consume).
THEOREM OneDevicePerCode ==
    Spec => []TokenIsSingleUse
<1>1. PairingInv => TokenIsSingleUse
    BY Zenon DEF PairingInv
<1> QED
    BY <1>1, PairingInvariant, PTL

\* Wrong proofs against one window never exceed MAX_FAILED_ATTEMPTS, and a
\* window that is used up is not open (verify_and_consume).
THEOREM FewGuesses ==
    Spec => []GuessesAreBounded
<1>1. PairingInv => GuessesAreBounded
    BY Zenon DEF PairingInv, WindowsAreFresh, GuessesAreBounded
<1> QED
    BY <1>1, PairingInvariant, PTL

\* The code shown last works until it is used up or expires, unless an earlier
\* connection ends (begin_pairing, end_pairing).
THEOREM CodeStaysGood ==
    Spec => []ShownCodeWorks
<1>1. PairingInv => ShownCodeWorks
    BY Zenon DEF PairingInv, LatestIsOpen, ShownCodeWorks
<1> QED
    BY <1>1, PairingInvariant, PTL

\* The variables keep their types.
THEOREM PairingTyped ==
    Spec => []TypeOK
<1>1. PairingInv => TypeOK
    BY Zenon DEF PairingInv, PairingTypes, TypeOK
<1> QED
    BY <1>1, PairingInvariant, PTL

=============================================================================
