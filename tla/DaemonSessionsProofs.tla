------------------------ MODULE DaemonSessionsProofs ------------------------
(***************************************************************************)
(* DaemonSessions for any number of peers, connections and control clients: *)
(* type correctness, that every step of a connection and then every step   *)
(* of a control client preserves the inductive invariant, and the safety   *)
(* properties that follow from it.                                         *)
(***************************************************************************)
EXTENDS DaemonSessions, TLAPS

\* What a control client's record says about itself: which fields it has.
LEMMA OpsFields ==
    ASSUME NEW x \in Ops
    PROVE  /\ x.op \in Enforcing =>
                  /\ x.peer \in Peers
                  /\ x.rest \in SUBSET Peers
                  /\ x.handle \in Sessions \cup {None}
           /\ x.op = "lookup" => x.peer \in Peers /\ x.cap \in Caps
           /\ x.op = "decide" =>
                  /\ x.peer \in Peers
                  /\ x.cap \in Caps
                  /\ x.handle \in Sessions \cup {None}
           /\ x.op = "idle" => x = Idle
           /\ x.op \in Enforcing \cup {"lookup", "decide", "idle"}
    BY DEF Ops, Idle, Enforcing

\* The records the handlers build.
LEMMA OpsMade ==
    /\ Idle \in Ops
    /\ \A op \in Enforcing, p \in Peers, rest \in SUBSET Peers,
          h \in Sessions \cup {None} : Enforcement(op, p, rest, h) \in Ops
    /\ \A p \in Peers, cap \in Caps :
          [op |-> "lookup", peer |-> p, cap |-> cap] \in Ops
    /\ \A p \in Peers, cap \in Caps, h \in Sessions \cup {None} :
          [op |-> "decide", peer |-> p, cap |-> cap, handle |-> h] \in Ops
    BY Zenon DEF Ops, Idle, Enforcing, Enforcement

\* TypeOK is preserved by the steps of a connection.
LEMMA SessionStepType ==
    ASSUME TypeOK, NEW s \in Sessions, SessionStep(s)
    PROVE  TypeOK'
<1> USE ConstantsAssumption, NoneAssumption
    DEF TypeOK, Trusts, Phases, Handshaking, storeVars, sessionVars
<1>1. CASE LookupTrusted(s)
    BY Zenon, <1>1 DEF LookupTrusted, ExposeIfMidOperation
<1>2. CASE PairingConfirmed(s)
    BY Zenon, <1>2 DEF PairingConfirmed, ExposeIfMidOperation
<1>3. CASE StorePeer(s)
    BY Zenon, <1>3 DEF StorePeer, ExposeExcept
<1>4. CASE ReadGrantsBack(s)
    BY Zenon, <1>4 DEF ReadGrantsBack, ExposeIfMidOperation
<1>5. CASE HandshakeFails(s)
    BY Zenon, <1>5 DEF HandshakeFails
<1>6. CASE ClearRequest(s)
    BY Zenon, <1>6 DEF ClearRequest, ExposeIfMidOperation
<1>7. CASE Register(s)
    BY Zenon, <1>7 DEF Register, ExposeIfMidOperation
<1>8. CASE BatteryReading(s)
    BY Zenon, <1>8 DEF BatteryReading
<1>9. CASE EndLoop(s)
    BY Zenon, <1>9 DEF EndLoop
<1>10. CASE Disconnected(s)
    BY Zenon, <1>10 DEF Disconnected
<1>11. CASE Closed(s)
    BY Zenon, <1>11 DEF Closed
<1>12. CASE Recycle(s)
    BY <1>12 DEF Recycle
<1>13. QED
    BY Zenon, <1>1, <1>2, <1>3, <1>4, <1>5, <1>6, <1>7, <1>8, <1>9, <1>10, <1>11,
       <1>12 DEF SessionStep

\* TypeOK is preserved by the steps of a control client.
LEMMA ClientStepType ==
    ASSUME TypeOK, NEW c \in Clients, ClientStep(c)
    PROVE  TypeOK'
<1> USE ConstantsAssumption, NoneAssumption, OpsMade
    DEF TypeOK, Trusts, storeVars, sessionVars
<1>f. ctl[c] \in Ops
    BY Zenon
<1>1. ASSUME NEW p \in Peers, Unpair(c, p) PROVE TypeOK'
    BY SMTT(60), <1>1 DEF Unpair, Enforce, ExposeHandshakes, ExposeExcept, Enforcing
<1>2. ASSUME NEW P \in SUBSET Peers, HideRevoked(c, P) PROVE TypeOK'
    BY SMTT(60), <1>2 DEF HideRevoked, Enforce, Enforcing
<1>3. CASE EnforceSessionFor(c)
    BY SMTT(60), <1>3, <1>f, OpsFields DEF EnforceSessionFor, Enforcing
<1>4. CASE EnforceShutdown(c)
  <2>1. ctl[c].handle \in Sessions \cup {None} /\ ctl' \in [Clients -> Ops]
      BY Zenon, <1>4, <1>f, OpsFields DEF EnforceShutdown, Enforcing
  <2>2. QED
      BY Zenon, <1>4, <2>1 DEF EnforceShutdown
<1>5. CASE EnforceDrop(c)
    BY Zenon, <1>5, <1>f, OpsFields DEF EnforceDrop, Enforcing
<1>6. CASE EnforceClear(c)
  <2>1. ctl[c].peer \in Peers /\ ctl[c].rest \in SUBSET Peers
      BY Zenon, <1>6, <1>f, OpsFields DEF EnforceClear, Enforcing
  <2>2. "session_for" \in Enforcing
      BY Zenon DEF Enforcing
  <2>3. ctl' \in [Clients -> Ops]
    <3>1. CASE ctl[c].rest = {}
        BY Zenon, <1>6, <3>1 DEF EnforceClear
    <3>2. CASE ctl[c].rest # {}
      <4>1. PICK p \in ctl[c].rest : Enforce(c, p, ctl[c].rest \ {p})
          BY Zenon, <1>6, <3>2 DEF EnforceClear
      <4>2. p \in Peers /\ ctl[c].rest \ {p} \in SUBSET Peers
          BY Zenon, <2>1
      <4>3. QED
          BY Zenon, <2>2, <4>1, <4>2 DEF Enforce
    <3>3. QED
        BY Zenon, <3>1, <3>2
  <2>4. QED
      BY Zenon, <1>6, <2>1, <2>3 DEF EnforceClear
<1>7. ASSUME NEW p \in Peers, NEW cap \in Caps, Grant(c, p, cap) PROVE TypeOK'
    BY SMTT(60), <1>7 DEF Grant, ExposeHandshakes, ExposeExcept
<1>8. ASSUME NEW p \in Peers, NEW cap \in Caps, Withdraw(c, p, cap) PROVE TypeOK'
    BY Zenon, <1>8 DEF Withdraw
<1>9. CASE GrantSessionFor(c)
    BY SMTT(60), <1>9, <1>f, OpsFields DEF GrantSessionFor, Enforcing
<1>10. CASE GrantDecide(c)
  <2>1. ctl[c].peer \in Peers /\ ctl[c].handle \in Sessions \cup {None}
      BY Zenon, <1>10, <1>f, OpsFields DEF GrantDecide
  <2>2. CASE Decision(ctl[c].peer, ctl[c].cap, ctl[c].handle) = "reconnect"
    <3>1. told' \in [Sessions -> BOOLEAN]
        BY Zenon, <1>10, <2>2 DEF GrantDecide
    <3>2. requested' \in [Peers -> Sessions \cup {None}]
        BY Zenon, <1>10, <2>1, <2>2 DEF GrantDecide
    <3>3. QED
        BY Zenon, <1>10, <3>1, <3>2 DEF GrantDecide
  <2>3. CASE Decision(ctl[c].peer, ctl[c].cap, ctl[c].handle) # "reconnect"
      BY Zenon, <1>10, <2>3 DEF GrantDecide
  <2>4. QED
      BY Zenon, <2>2, <2>3
<1>11. QED
    BY Zenon, <1>1, <1>2, <1>3, <1>4, <1>5, <1>6, <1>7, <1>8, <1>9, <1>10
    DEF ClientStep, HandlerStep, HideOne, HideAll

\* Every variable keeps its type: DaemonState's maps never hold anything but
\* sessions, peers, grants of implemented capabilities and handlers' states.
THEOREM TypeCorrect == Spec => []TypeOK
<1>1. Init => TypeOK
    BY ConstantsAssumption, OpsMade
    DEF Init, TypeOK, Trusts, Phases, Handshaking
<1>2. TypeOK /\ [Next]_vars => TypeOK'
  <2> SUFFICES ASSUME TypeOK, [Next]_vars PROVE TypeOK'
      BY Zenon
  <2>1. CASE UNCHANGED vars
      BY Zenon, <2>1 DEF vars, TypeOK
  <2>2. CASE Next
      BY Zenon, <2>2, SessionStepType, ClientStepType DEF Next
  <2>3. QED
      BY Zenon, <2>1, <2>2
<1>3. QED
    BY <1>1, <1>2, PTL DEF Spec

-----------------------------------------------------------------------------

\* A connection step that moves only phase[s], and keeps it among the phases of
\* an open session if it was there, keeps the map right.
LEMMA OpenFrame ==
    ASSUME TypeOK, RegisteredIsOpen, NEW s \in Sessions, NEW ph,
           UNCHANGED <<peerOf, registered>>,
           phase' = [phase EXCEPT ![s] = ph],
           phase[s] \in {"live", "ended", "forgotten"}
               => ph \in {"live", "ended", "forgotten"}
    PROVE  RegisteredIsOpen'
<1> SUFFICES ASSUME NEW p \in Peers, registered[p] # None
             PROVE  /\ peerOf[registered[p]] = p
                    /\ phase'[registered[p]] \in {"live", "ended", "forgotten"}
    BY Zenon DEF RegisteredIsOpen
<1>1. registered[p] \in Sessions
    BY Zenon DEF TypeOK
<1>2. /\ peerOf[registered[p]] = p
      /\ phase[registered[p]] \in {"live", "ended", "forgotten"}
    BY Zenon DEF RegisteredIsOpen
<1>3. QED
    BY Zenon, <1>1, <1>2 DEF TypeOK

\* A step that leaves the handlers alone, and gives no session a new reason to
\* be attended to, keeps every session attended to.
LEMMA AttendedFrame ==
    ASSUME UntoldIsAttendedTo, UNCHANGED ctl,
           \A t \in Sessions \ exposed' :
               (phase'[t] = "live" /\ ~ told'[t]) =>
                   \/ /\ t \notin exposed
                      /\ phase[t] = "live" /\ ~ told[t]
                      /\ peerOf'[t] = peerOf[t]
                      /\ trust[peerOf[t]] = "trusted" => trust'[peerOf[t]] = "trusted"
                      /\ grants'[peerOf[t]] \subseteq grants[peerOf[t]]
                      /\ negotiated'[t] = negotiated[t]
                   \/ /\ trust'[peerOf'[t]] = "trusted"
                      /\ grants'[peerOf'[t]] \cap Advertised \subseteq negotiated'[t]
    PROVE  UntoldIsAttendedTo'
<1> SUFFICES ASSUME NEW t \in Sessions \ exposed', phase'[t] = "live", ~ told'[t]
             PROVE  /\ \/ trust'[peerOf'[t]] = "trusted"
                       \/ \E c \in Clients : WillStop(c, t)'
                    /\ \A cap \in (grants'[peerOf'[t]] \cap Advertised) \ negotiated'[t] :
                           \E c \in Clients : WillDecide(c, t, cap)'
    BY Zenon DEF UntoldIsAttendedTo
<1>0. SUFFICES ASSUME ~ (/\ trust'[peerOf'[t]] = "trusted"
                         /\ grants'[peerOf'[t]] \cap Advertised \subseteq negotiated'[t])
               PROVE  /\ \/ trust'[peerOf'[t]] = "trusted"
                         \/ \E c \in Clients : WillStop(c, t)'
                      /\ \A cap \in (grants'[peerOf'[t]] \cap Advertised) \ negotiated'[t] :
                             \E c \in Clients : WillDecide(c, t, cap)'
    BY Zenon
<1>1. /\ t \in Sessions \ exposed /\ phase[t] = "live" /\ ~ told[t]
      /\ peerOf'[t] = peerOf[t]
      /\ trust[peerOf[t]] = "trusted" => trust'[peerOf[t]] = "trusted"
      /\ grants'[peerOf[t]] \subseteq grants[peerOf[t]]
      /\ negotiated'[t] = negotiated[t]
    BY Zenon, <1>0
<1>2. /\ trust[peerOf[t]] = "trusted" \/ \E c \in Clients : WillStop(c, t)
      /\ \A cap \in (grants[peerOf[t]] \cap Advertised) \ negotiated[t] :
             \E c \in Clients : WillDecide(c, t, cap)
    BY Zenon, <1>1 DEF UntoldIsAttendedTo
<1>3. \A c \in Clients : WillStop(c, t) => WillStop(c, t)'
    BY Zenon, <1>1 DEF WillStop
<1>4. \A c \in Clients : \A cap : WillDecide(c, t, cap) => WillDecide(c, t, cap)'
    BY Zenon, <1>1 DEF WillDecide
<1>5. QED
    BY Zenon, <1>1, <1>2, <1>3, <1>4

\* A step that leaves the handlers alone, and under a handler's feet registers
\* only exposed sessions, keeps what the handlers hold.
LEMMA HoldFrame ==
    ASSUME TypeOK, HandlersHoldTheSession, UNCHANGED ctl,
           \A p \in Peers :
               /\ registered'[p] # registered[p] =>
                      \/ registered'[p] = None
                      \/ registered'[p] \in exposed'
                      \/ ~ MidOperation(p)
               /\ registered'[p] = registered[p] /\ registered[p] # None =>
                      /\ registered[p] \in exposed => registered[p] \in exposed'
                      /\ told[registered[p]] => told'[registered[p]]
    PROVE  HandlersHoldTheSession'
<1> SUFFICES ASSUME NEW c \in Clients, ctl[c].op \in {"shutdown", "drop"},
                    registered'[ctl[c].peer] # None,
                    registered'[ctl[c].peer] \notin exposed'
             PROVE  /\ ctl[c].op = "shutdown" =>
                           registered'[ctl[c].peer] = ctl[c].handle
                    /\ ctl[c].op = "drop" => told'[registered'[ctl[c].peer]]
    BY Zenon DEF HandlersHoldTheSession
<1> DEFINE p == ctl[c].peer
<1>1. p \in Peers
    BY SMTT(60), OpsFields DEF TypeOK, Enforcing
<1>2. MidOperation(p)
    BY Zenon DEF MidOperation, Acting
<1>3. registered'[p] = registered[p] /\ registered[p] \notin exposed
    BY Zenon, <1>1, <1>2
<1>4. QED
    BY Zenon, <1>1, <1>3 DEF HandlersHoldTheSession

\* SessionsInv is preserved by the steps of a connection.
LEMMA SessionStepInv ==
    ASSUME TypeOK, SessionsInv, NEW s \in Sessions, SessionStep(s)
    PROVE  SessionsInv'
<1> USE NoneAssumption DEF SessionsInv, TypeOK, storeVars, sessionVars
<1>1. CASE LookupTrusted(s)
  <2>1. RegisteredIsOpen'
      BY Zenon, <1>1, OpenFrame DEF LookupTrusted
  <2>2. UnregisteredIsToldToStop'
      BY Zenon, <1>1 DEF LookupTrusted, ExposeIfMidOperation, UnregisteredIsToldToStop
  <2>3. HandshakesAreCurrent' /\ RequestedIsTold'
      BY SMTT(60), <1>1 DEF LookupTrusted, ExposeIfMidOperation, HandshakesAreCurrent, RequestedIsTold
  <2>4. HandlersHoldTheSession'
      BY Zenon, <1>1, HoldFrame DEF LookupTrusted, ExposeIfMidOperation
  <2>5. UntoldIsAttendedTo'
      BY <1>1, AttendedFrame DEF LookupTrusted, ExposeIfMidOperation
  <2>6. QED
      BY Zenon, <2>1, <2>2, <2>3, <2>4, <2>5
<1>2. CASE PairingConfirmed(s)
  <2>1. RegisteredIsOpen'
      BY Zenon, <1>2, OpenFrame DEF PairingConfirmed
  <2>2. UnregisteredIsToldToStop'
      BY Zenon, <1>2 DEF PairingConfirmed, ExposeIfMidOperation, UnregisteredIsToldToStop
  <2>3. HandshakesAreCurrent' /\ RequestedIsTold'
      BY SMTT(60), <1>2 DEF PairingConfirmed, ExposeIfMidOperation, HandshakesAreCurrent, RequestedIsTold
  <2>4. HandlersHoldTheSession'
      BY Zenon, <1>2, HoldFrame DEF PairingConfirmed, ExposeIfMidOperation
  <2>5. UntoldIsAttendedTo'
      BY <1>2, AttendedFrame DEF PairingConfirmed, ExposeIfMidOperation
  <2>6. QED
      BY Zenon, <2>1, <2>2, <2>3, <2>4, <2>5
<1>3. CASE StorePeer(s)
  <2>1. RegisteredIsOpen'
      BY Zenon, <1>3, OpenFrame DEF StorePeer
  <2>2. UnregisteredIsToldToStop'
      BY SMTT(60), <1>3 DEF StorePeer, ExposeExcept, UnregisteredIsToldToStop
  <2>3. HandshakesAreCurrent' /\ RequestedIsTold'
      BY SMTT(60), <1>3 DEF StorePeer, ExposeExcept, HandshakesAreCurrent, RequestedIsTold
  <2>4. HandlersHoldTheSession'
      BY Zenon, <1>3, HoldFrame DEF StorePeer, ExposeExcept
  <2>5. UntoldIsAttendedTo'
      BY <1>3, AttendedFrame DEF StorePeer, ExposeExcept
  <2>6. QED
      BY Zenon, <2>1, <2>2, <2>3, <2>4, <2>5
<1>4. CASE ReadGrantsBack(s)
  <2>1. RegisteredIsOpen'
      BY Zenon, <1>4, OpenFrame DEF ReadGrantsBack
  <2>2. UnregisteredIsToldToStop'
      BY SMTT(60), <1>4 DEF ReadGrantsBack, ExposeIfMidOperation, UnregisteredIsToldToStop
  <2>3. HandshakesAreCurrent' /\ RequestedIsTold'
      BY SMTT(60), <1>4 DEF ReadGrantsBack, ExposeIfMidOperation, HandshakesAreCurrent, RequestedIsTold
  <2>4. HandlersHoldTheSession'
      BY Zenon, <1>4, HoldFrame DEF ReadGrantsBack, ExposeIfMidOperation
  <2>5. UntoldIsAttendedTo'
      BY <1>4, AttendedFrame DEF ReadGrantsBack, ExposeIfMidOperation
  <2>6. QED
      BY Zenon, <2>1, <2>2, <2>3, <2>4, <2>5
<1>5. CASE HandshakeFails(s)
  <2>1. RegisteredIsOpen'
      BY Zenon, <1>5, OpenFrame DEF HandshakeFails
  <2>2. UnregisteredIsToldToStop'
      BY Zenon, <1>5 DEF HandshakeFails, UnregisteredIsToldToStop
  <2>3. HandshakesAreCurrent' /\ RequestedIsTold'
      BY SMTT(60), <1>5 DEF HandshakeFails, HandshakesAreCurrent, RequestedIsTold
  <2>4. HandlersHoldTheSession'
      BY Zenon, <1>5, HoldFrame DEF HandshakeFails
  <2>5. UntoldIsAttendedTo'
      BY <1>5, AttendedFrame DEF HandshakeFails
  <2>6. QED
      BY Zenon, <2>1, <2>2, <2>3, <2>4, <2>5
<1>6. CASE ClearRequest(s)
  <2>1. RegisteredIsOpen'
      BY Zenon, <1>6, OpenFrame DEF ClearRequest
  <2>2. UnregisteredIsToldToStop'
      BY Zenon, <1>6 DEF ClearRequest, ExposeIfMidOperation, UnregisteredIsToldToStop
  <2>3. HandshakesAreCurrent' /\ RequestedIsTold'
      BY SMTT(60), <1>6 DEF ClearRequest, ExposeIfMidOperation, HandshakesAreCurrent, RequestedIsTold
  <2>4. HandlersHoldTheSession'
      BY Zenon, <1>6, HoldFrame DEF ClearRequest, ExposeIfMidOperation
  <2>5. UntoldIsAttendedTo'
      BY SMTT(60), <1>6, AttendedFrame DEF ClearRequest, ExposeIfMidOperation
  <2>6. QED
      BY Zenon, <2>1, <2>2, <2>3, <2>4, <2>5
<1>7. CASE Register(s)
  <2> DEFINE p == peerOf[s]
             old == registered[p]
  <2>1. RegisteredIsOpen'
      BY SMTT(60), <1>7 DEF Register, RegisteredIsOpen
  <2>2. UnregisteredIsToldToStop'
    <3> SUFFICES ASSUME NEW t \in Sessions, phase'[t] = "live", t \notin exposed',
                        registered'[peerOf[t]] # t
                 PROVE  told'[t]
        BY Zenon, <1>7 DEF Register, UnregisteredIsToldToStop
    <3>1. t # s /\ phase[t] = "live" /\ t \notin exposed
        BY Zenon, <1>7 DEF Register, ExposeIfMidOperation
    <3>2. CASE t = old
        BY Zenon, <1>7, <3>1, <3>2 DEF Register
    <3>3. CASE t # old
      <4>1. registered[peerOf[t]] # t
          BY Zenon, <1>7, <3>1, <3>3 DEF Register
      <4>2. told[t]
          BY Zenon, <3>1, <4>1 DEF UnregisteredIsToldToStop
      <4>3. QED
          BY Zenon, <1>7, <4>2 DEF Register
    <3>4. QED
        BY Zenon, <3>2, <3>3
  <2>3. HandshakesAreCurrent' /\ RequestedIsTold'
      BY SMTT(60), <1>7 DEF Register, ExposeIfMidOperation, HandshakesAreCurrent, RequestedIsTold
  <2>4. HandlersHoldTheSession'
      BY SMTT(60), <1>7, HoldFrame DEF Register, ExposeIfMidOperation
  <2>5. UntoldIsAttendedTo'
    <3>1. s \notin exposed' => /\ trust[p] = "trusted"
                               /\ grants[p] \cap Advertised \subseteq negotiated[s]
        BY Zenon, <1>7 DEF Register, ExposeIfMidOperation, HandshakesAreCurrent
    <3>2. \A t \in Sessions \ exposed' :
              (t # s /\ phase'[t] = "live" /\ ~ told'[t]) =>
                  t \notin exposed /\ phase[t] = "live" /\ ~ told[t]
        BY Zenon, <1>7 DEF Register, ExposeIfMidOperation
    <3>3. QED
        BY SMTT(60), <1>7, <3>1, <3>2, AttendedFrame DEF Register
  <2>6. QED
      BY Zenon, <2>1, <2>2, <2>3, <2>4, <2>5
<1>8. CASE BatteryReading(s)
    BY <1>8 DEF BatteryReading, RegisteredIsOpen, UnregisteredIsToldToStop,
       HandshakesAreCurrent, HandlersHoldTheSession, RequestedIsTold,
       UntoldIsAttendedTo, WillStop, WillDecide
<1>9. CASE EndLoop(s)
  <2>1. RegisteredIsOpen'
      BY Zenon, <1>9, OpenFrame DEF EndLoop
  <2>2. UnregisteredIsToldToStop'
      BY Zenon, <1>9 DEF EndLoop, UnregisteredIsToldToStop
  <2>3. HandshakesAreCurrent' /\ RequestedIsTold'
      BY SMTT(60), <1>9 DEF EndLoop, HandshakesAreCurrent, RequestedIsTold
  <2>4. HandlersHoldTheSession'
      BY Zenon, <1>9, HoldFrame DEF EndLoop
  <2>5. UntoldIsAttendedTo'
      BY <1>9, AttendedFrame DEF EndLoop
  <2>6. QED
      BY Zenon, <2>1, <2>2, <2>3, <2>4, <2>5
<1>10. CASE Disconnected(s)
  <2>1. RegisteredIsOpen'
      BY Zenon, <1>10, OpenFrame DEF Disconnected
  <2>2. UnregisteredIsToldToStop'
      BY Zenon, <1>10 DEF Disconnected, UnregisteredIsToldToStop
  <2>3. HandshakesAreCurrent' /\ RequestedIsTold'
      BY SMTT(60), <1>10 DEF Disconnected, HandshakesAreCurrent, RequestedIsTold
  <2>4. HandlersHoldTheSession'
      BY Zenon, <1>10, HoldFrame DEF Disconnected
  <2>5. UntoldIsAttendedTo'
      BY SMTT(60), <1>10, AttendedFrame DEF Disconnected
  <2>6. QED
      BY Zenon, <2>1, <2>2, <2>3, <2>4, <2>5
<1>11. CASE Closed(s)
  <2>1. RegisteredIsOpen'
    <3> SUFFICES ASSUME NEW p \in Peers, registered'[p] # None
                 PROVE  /\ peerOf[registered'[p]] = p
                        /\ phase'[registered'[p]] \in {"live", "ended", "forgotten"}
        BY SMTT(60), <1>11 DEF Closed, RegisteredIsOpen
    <3>1. registered'[p] = registered[p]
        BY SMTT(60), <1>11 DEF Closed
    <3>2. registered[p] # s
        BY SMTT(60), <1>11, <3>1 DEF Closed, RegisteredIsOpen
    <3>3. QED
        BY SMTT(60), <1>11, <3>1, <3>2 DEF Closed, RegisteredIsOpen
  <2>2. UnregisteredIsToldToStop'
      BY SMTT(60), <1>11 DEF Closed, UnregisteredIsToldToStop
  <2>3. HandshakesAreCurrent' /\ RequestedIsTold'
      BY SMTT(60), <1>11 DEF Closed, HandshakesAreCurrent, RequestedIsTold
  <2>4. HandlersHoldTheSession'
      BY SMTT(60), <1>11, HoldFrame DEF Closed
  <2>5. UntoldIsAttendedTo'
      BY SMTT(60), <1>11, AttendedFrame DEF Closed
  <2>6. QED
      BY Zenon, <2>1, <2>2, <2>3, <2>4, <2>5
<1>12. CASE Recycle(s)
  <2>1. RegisteredIsOpen'
    <3> SUFFICES ASSUME NEW p \in Peers, registered[p] # None
                 PROVE  /\ peerOf'[registered[p]] = p
                        /\ phase'[registered[p]] \in {"live", "ended", "forgotten"}
        BY SMTT(60), <1>12 DEF Recycle, RegisteredIsOpen
    <3>1. registered[p] \in Sessions /\ registered[p] # s
        BY Zenon, <1>12 DEF Recycle
    <3>2. QED
        BY SMTT(60), <1>12, <3>1 DEF Recycle, RegisteredIsOpen
  <2>2. UnregisteredIsToldToStop'
      BY SMTT(60), <1>12 DEF Recycle, UnregisteredIsToldToStop
  <2>3. HandshakesAreCurrent' /\ RequestedIsTold'
      BY SMTT(60), <1>12 DEF Recycle, HandshakesAreCurrent, RequestedIsTold
  <2>4. HandlersHoldTheSession'
      BY SMTT(60), <1>12, HoldFrame DEF Recycle
  <2>5. UntoldIsAttendedTo'
      BY SMTT(60), <1>12, AttendedFrame DEF Recycle
  <2>6. QED
      BY Zenon, <2>1, <2>2, <2>3, <2>4, <2>5
<1>13. QED
    BY SMTT(60), <1>1, <1>2, <1>3, <1>4, <1>5, <1>6, <1>7, <1>8, <1>9, <1>10, <1>11,
       <1>12 DEF SessionStep

-----------------------------------------------------------------------------
(* The steps of a control client.                                          *)


\* A step of client c that gives a session a reason to be attended to makes c the
\* one to attend to it, and c drops no such duty.
LEMMA AttendedClientFrame ==
    ASSUME TypeOK, UntoldIsAttendedTo, NEW c \in Clients, NEW x,
           ctl' = [ctl EXCEPT ![c] = x],
           UNCHANGED <<peerOf, phase, negotiated>>,
           exposed \subseteq exposed',
           \A t \in Sessions : told[t] => told'[t],
           \A t \in Sessions \ exposed' : (phase[t] = "live" /\ ~ told'[t]) =>
               LET p == peerOf[t] IN
               /\ trust[p] = "trusted" /\ trust'[p] # "trusted" => WillStop(c, t)'
               /\ WillStop(c, t) => WillStop(c, t)'
               /\ \A cap \in (grants'[p] \cap Advertised) \ negotiated[t] :
                      /\ cap \notin grants[p] => WillDecide(c, t, cap)'
                      /\ WillDecide(c, t, cap) => WillDecide(c, t, cap)'
    PROVE  UntoldIsAttendedTo'
<1> SUFFICES ASSUME NEW t \in Sessions \ exposed', phase[t] = "live", ~ told'[t]
             PROVE  /\ \/ trust'[peerOf[t]] = "trusted"
                       \/ \E d \in Clients : WillStop(d, t)'
                    /\ \A cap \in (grants'[peerOf[t]] \cap Advertised) \ negotiated[t] :
                           \E d \in Clients : WillDecide(d, t, cap)'
    BY Zenon DEF UntoldIsAttendedTo
<1>0. /\ WillStop(c, t) => WillStop(c, t)'
      /\ \A cap \in (grants'[peerOf[t]] \cap Advertised) \ negotiated[t] :
             WillDecide(c, t, cap) => WillDecide(c, t, cap)'
    BY Zenon
<1>1. /\ trust[peerOf[t]] = "trusted" \/ \E d \in Clients : WillStop(d, t)
      /\ \A cap \in (grants[peerOf[t]] \cap Advertised) \ negotiated[t] :
             \E d \in Clients : WillDecide(d, t, cap)
    BY Zenon DEF UntoldIsAttendedTo
<1>2. \A d \in Clients \ {c} : ctl'[d] = ctl[d]
    BY Zenon DEF TypeOK
<1>3. \A d \in Clients : WillStop(d, t) => WillStop(d, t)'
  <2>1. \A d \in Clients \ {c} : WillStop(d, t) => WillStop(d, t)'
      BY SMTT(60), <1>2 DEF WillStop
  <2>2. QED
      BY ZenonT(60), <1>0, <2>1 DEF WillStop
<1>4. \A cap \in (grants'[peerOf[t]] \cap Advertised) \ negotiated[t], d \in Clients :
          WillDecide(d, t, cap) => WillDecide(d, t, cap)'
  <2>1. \A d \in Clients \ {c} : \A cap : WillDecide(d, t, cap) => WillDecide(d, t, cap)'
      BY SMTT(60), <1>2 DEF WillDecide
  <2>2. QED
      BY SMTT(60), <1>0, <2>1 DEF WillDecide
<1>5. trust'[peerOf[t]] = "trusted" \/ \E d \in Clients : WillStop(d, t)'
    BY SMTT(60), <1>1, <1>3
<1>6. ASSUME NEW cap \in (grants'[peerOf[t]] \cap Advertised) \ negotiated[t]
      PROVE  \E d \in Clients : WillDecide(d, t, cap)'
  <2>1. CASE cap \in grants[peerOf[t]]
      BY SMTT(60), <1>1, <1>4, <2>1
  <2>2. CASE cap \notin grants[peerOf[t]]
      BY Zenon, <2>2
  <2>3. QED
      BY SMTT(60), <2>1, <2>2
<1>7. QED
    BY Zenon, <1>5, <1>6

\* A step of client c that only unregisters, and leaves c holding the registered
\* session or nothing of importance, keeps what the handlers hold.
LEMMA HoldClientFrame ==
    ASSUME TypeOK, HandlersHoldTheSession, NEW c \in Clients, NEW x,
           ctl' = [ctl EXCEPT ![c] = x],
           exposed \subseteq exposed',
           \A t \in Sessions : told[t] => told'[t],
           \A p \in Peers : registered'[p] \in {registered[p], None},
           x.op = "shutdown" => registered'[x.peer] = x.handle,
           x.op = "drop" => \/ registered'[x.peer] = None
                            \/ registered'[x.peer] \in exposed'
                            \/ told'[registered'[x.peer]]
    PROVE  HandlersHoldTheSession'
<1> SUFFICES ASSUME NEW d \in Clients, d # c, ctl[d].op \in {"shutdown", "drop"},
                    registered'[ctl[d].peer] # None,
                    registered'[ctl[d].peer] \notin exposed'
             PROVE  /\ ctl[d].op = "shutdown" =>
                           registered'[ctl[d].peer] = ctl[d].handle
                    /\ ctl[d].op = "drop" => told'[registered'[ctl[d].peer]]
  <2>1. ctl'[c] = x /\ \A d \in Clients \ {c} : ctl'[d] = ctl[d]
      BY SMTT(60) DEF TypeOK
  <2>2. QED
      BY SMTT(60), <2>1 DEF HandlersHoldTheSession
<1>1. ctl[d].peer \in Peers
    BY SMTT(60), OpsFields DEF TypeOK, Enforcing
<1>2. registered'[ctl[d].peer] = registered[ctl[d].peer]
    BY Zenon, <1>1
<1>3. registered[ctl[d].peer] \in Sessions
    BY <1>1, <1>2 DEF TypeOK
<1>4. QED
    BY SMTT(60), <1>2, <1>3 DEF HandlersHoldTheSession

\* SessionsInv is preserved by the steps of a control client.
LEMMA ClientStepInv ==
    ASSUME TypeOK, SessionsInv, NEW c \in Clients, ClientStep(c)
    PROVE  SessionsInv'
<1> USE NoneAssumption DEF SessionsInv, TypeOK, storeVars, sessionVars
<1>f. ctl[c] \in Ops
    BY Zenon
<1>1. ASSUME NEW p \in Peers, Unpair(c, p) PROVE SessionsInv'
  <2>1. RegisteredIsOpen' /\ RequestedIsTold'
      BY SMTT(60), <1>1 DEF Unpair, RegisteredIsOpen, RequestedIsTold
  <2>2. PICK x : /\ ctl' = [ctl EXCEPT ![c] = x]
                 /\ x.op \notin {"shutdown", "drop"}
                 /\ \/ x = Enforcement("session_for", p, {}, None)
                    \/ {t \in Sessions : peerOf[t] = p /\ phase[t] = "live"} \subseteq exposed'
      BY SMTT(60), <1>1 DEF Unpair, Enforce, ExposeExcept, Enforcement, Idle
  <2>3. exposed \subseteq exposed'
      BY SMTT(60), <1>1 DEF Unpair, ExposeHandshakes, ExposeExcept
  <2>4. UnregisteredIsToldToStop'
      BY SMTT(60), <1>1, <2>3 DEF Unpair, UnregisteredIsToldToStop
  <2>5. HandshakesAreCurrent'
      BY <1>1 DEF Unpair, ExposeHandshakes, ExposeExcept, HandshakesAreCurrent, Handshaking
  <2>6. HandlersHoldTheSession'
      BY Zenon, <1>1, <2>2, <2>3, HoldClientFrame DEF Unpair
  <2>7. UntoldIsAttendedTo'
    <3>1. ASSUME NEW t \in Sessions \ exposed', peerOf[t] = p, phase[t] = "live"
          PROVE  WillStop(c, t)'
        BY <1>1, <2>2, <3>1, SMTT(60) DEF Unpair, WillStop, Enforcement
    <3>2. \A t \in Sessions : ~ WillStop(c, t) /\ \A cap : ~ WillDecide(c, t, cap)
        BY SMTT(60), <1>1 DEF Unpair, Idle, WillStop, WillDecide, Enforcing
    <3>3. \A q \in Peers : q # p => trust'[q] = trust[q] /\ grants'[q] = grants[q]
        BY Zenon, <1>1 DEF Unpair
    <3>4. grants'[p] = {}
        BY Zenon, <1>1 DEF Unpair
    <3>5. QED
        BY Zenon, <1>1, <2>2, <2>3, <3>1, <3>2, <3>3, <3>4, AttendedClientFrame DEF Unpair
  <2>8. QED
      BY SMTT(60), <2>1, <2>4, <2>5, <2>6, <2>7
<1>2. ASSUME NEW P \in SUBSET Peers, HideRevoked(c, P) PROVE SessionsInv'
  <2>1. RegisteredIsOpen' /\ RequestedIsTold' /\ UnregisteredIsToldToStop'
      BY Zenon, <1>2 DEF HideRevoked, RegisteredIsOpen, RequestedIsTold, UnregisteredIsToldToStop
  <2>2. PICK p \in P : ctl' = [ctl EXCEPT ![c] = Enforcement("session_for", p, P \ {p}, None)]
      BY Zenon, <1>2 DEF HideRevoked, Enforce
  <2>3. HandshakesAreCurrent'
      BY <1>2 DEF HideRevoked, HandshakesAreCurrent, Handshaking
  <2>4. HandlersHoldTheSession'
      BY Zenon, <1>2, <2>2, HoldClientFrame DEF HideRevoked, Enforcement
  <2>5. UntoldIsAttendedTo'
    <3>1. \A t \in Sessions : peerOf[t] \in P => WillStop(c, t)'
        BY Zenon, <1>2, <2>2 DEF HideRevoked, WillStop, Enforcement, Enforcing
    <3>2. \A t \in Sessions : ~ WillStop(c, t) /\ \A cap : ~ WillDecide(c, t, cap)
        BY SMTT(60), <1>2 DEF HideRevoked, Idle, WillStop, WillDecide, Enforcing
    <3>3. QED
        BY Zenon, <1>2, <2>2, <3>1, <3>2, AttendedClientFrame DEF HideRevoked
  <2>6. QED
      BY Zenon, <2>1, <2>3, <2>4, <2>5
<1>3. CASE EnforceSessionFor(c)
  <2>1. /\ RegisteredIsOpen' /\ RequestedIsTold' /\ UnregisteredIsToldToStop'
        /\ HandshakesAreCurrent'
      BY Zenon, <1>3 DEF EnforceSessionFor, RegisteredIsOpen, RequestedIsTold,
         UnregisteredIsToldToStop, HandshakesAreCurrent
  <2>2. HandlersHoldTheSession'
      BY Zenon, <1>3, HoldClientFrame DEF EnforceSessionFor, Enforcement
  <2>3. UntoldIsAttendedTo'
    <3>1. ASSUME NEW t \in Sessions \ exposed, phase[t] = "live", ~ told[t]
          PROVE  registered[peerOf[t]] = t
        BY Zenon, <3>1 DEF UnregisteredIsToldToStop
    <3>2. ASSUME NEW t \in Sessions \ exposed, phase[t] = "live", ~ told[t],
                 WillStop(c, t)
          PROVE  WillStop(c, t)'
        BY SMTT(60), <1>3, <3>1, <3>2 DEF EnforceSessionFor, Enforcement, WillStop, Enforcing
    <3>3. \A t \in Sessions : \A cap : ~ WillDecide(c, t, cap)
        BY Zenon, <1>3 DEF EnforceSessionFor, WillDecide
    <3>4. QED
        BY Zenon, <1>3, <3>2, <3>3, AttendedClientFrame DEF EnforceSessionFor
  <2>4. QED
      BY Zenon, <2>1, <2>2, <2>3
<1>4. CASE EnforceShutdown(c)
  <2> DEFINE h == ctl[c].handle
  <2>1. h \in Sessions \cup {None} /\ ctl[c].peer \in Peers
      BY Zenon, <1>4, <1>f, OpsFields DEF EnforceShutdown, Enforcing
  <2>2. /\ \A t \in Sessions : told[t] => told'[t]
        /\ h # None => told'[h]
      BY Zenon, <1>4, <2>1 DEF EnforceShutdown
  <2>3. /\ RegisteredIsOpen' /\ RequestedIsTold' /\ UnregisteredIsToldToStop'
        /\ HandshakesAreCurrent'
      BY <1>4, <2>2 DEF EnforceShutdown, RegisteredIsOpen, RequestedIsTold,
         UnregisteredIsToldToStop, HandshakesAreCurrent
  <2>4. HandlersHoldTheSession'
    <3>1. registered[ctl[c].peer] \in {None, h} \cup exposed
        BY Zenon, <1>4 DEF EnforceShutdown, HandlersHoldTheSession
    <3>2. QED
        BY Zenon, <1>4, <2>1, <2>2, <3>1, HoldClientFrame DEF EnforceShutdown, Enforcement
  <2>5. UntoldIsAttendedTo'
    <3>1. ASSUME NEW t \in Sessions, ~ told'[t], WillStop(c, t)
          PROVE  WillStop(c, t)'
        BY SMTT(60), <1>4, <2>2, <3>1 DEF EnforceShutdown, Enforcement, WillStop, Enforcing
    <3>2. \A t \in Sessions : \A cap : ~ WillDecide(c, t, cap)
        BY Zenon, <1>4 DEF EnforceShutdown, WillDecide
    <3>3. QED
        BY Zenon, <1>4, <2>2, <3>1, <3>2, AttendedClientFrame DEF EnforceShutdown
  <2>6. QED
      BY Zenon, <2>3, <2>4, <2>5
<1>5. CASE EnforceDrop(c)
  <2>1. ctl[c].peer \in Peers
      BY Zenon, <1>5, <1>f, OpsFields DEF EnforceDrop, Enforcing
  <2>2. RegisteredIsOpen' /\ RequestedIsTold' /\ HandshakesAreCurrent'
      BY SMTT(60), <1>5 DEF EnforceDrop, RegisteredIsOpen, RequestedIsTold, HandshakesAreCurrent
  <2>3. UnregisteredIsToldToStop'
    <3> SUFFICES ASSUME NEW t \in Sessions \ exposed, phase[t] = "live",
                        registered'[peerOf[t]] # t
                 PROVE  told[t]
        BY Zenon, <1>5 DEF EnforceDrop, UnregisteredIsToldToStop
    <3>1. CASE registered[peerOf[t]] # t
        BY Zenon, <3>1 DEF UnregisteredIsToldToStop
    <3>2. CASE registered[peerOf[t]] = t
      <4>1. peerOf[t] = ctl[c].peer
          BY Zenon, <1>5, <3>2 DEF EnforceDrop
      <4>2. QED
          BY SMTT(60), <1>5, <3>2, <4>1 DEF EnforceDrop, HandlersHoldTheSession
    <3>3. QED
        BY Zenon, <3>1, <3>2
  <2>4. HandlersHoldTheSession'
      BY Zenon, <1>5, HoldClientFrame DEF EnforceDrop, Enforcement
  <2>5. UntoldIsAttendedTo'
    <3>1. \A t \in Sessions : WillStop(c, t) => WillStop(c, t)'
        BY SMTT(60), <1>5 DEF EnforceDrop, Enforcement, WillStop, Enforcing
    <3>2. \A t \in Sessions : \A cap : ~ WillDecide(c, t, cap)
        BY Zenon, <1>5 DEF EnforceDrop, WillDecide
    <3>3. QED
        BY Zenon, <1>5, <3>1, <3>2, AttendedClientFrame DEF EnforceDrop
  <2>6. QED
      BY Zenon, <2>2, <2>3, <2>4, <2>5
<1>6. CASE EnforceClear(c)
  <2>1. /\ RegisteredIsOpen' /\ UnregisteredIsToldToStop' /\ HandshakesAreCurrent'
        /\ RequestedIsTold'
      BY <1>6 DEF EnforceClear, RegisteredIsOpen, RequestedIsTold,
         UnregisteredIsToldToStop, HandshakesAreCurrent
  <2>2. PICK x : /\ ctl' = [ctl EXCEPT ![c] = x]
                 /\ \/ x = Idle /\ ctl[c].rest = {}
                    \/ \E p \in ctl[c].rest :
                           x = Enforcement("session_for", p, ctl[c].rest \ {p}, None)
      BY Zenon, <1>6 DEF EnforceClear, Enforce
  <2>3. x.op \notin {"shutdown", "drop"}
      BY <2>2 DEF Idle, Enforcement
  <2>4. HandlersHoldTheSession'
      BY Zenon, <1>6, <2>2, <2>3, HoldClientFrame DEF EnforceClear
  <2>5. UntoldIsAttendedTo'
    <3>1. \A t \in Sessions : WillStop(c, t) => peerOf[t] \in ctl[c].rest
        BY Zenon, <1>6 DEF EnforceClear, WillStop
    <3>2. \A t \in Sessions : peerOf[t] \in ctl[c].rest => WillStop(c, t)'
        BY SMTT(60), <1>6, <2>2 DEF EnforceClear, WillStop, Enforcement, Enforcing
    <3>3. \A t \in Sessions : \A cap : ~ WillDecide(c, t, cap)
        BY Zenon, <1>6 DEF EnforceClear, WillDecide
    <3>4. QED
        BY Zenon, <1>6, <2>2, <3>1, <3>2, <3>3, AttendedClientFrame DEF EnforceClear
  <2>6. QED
      BY SMTT(60), <2>1, <2>4, <2>5
<1>7. ASSUME NEW p \in Peers, NEW cap \in Caps, Grant(c, p, cap) PROVE SessionsInv'
  <2>1. exposed \subseteq exposed'
      BY Zenon, <1>7 DEF Grant, ExposeHandshakes, ExposeExcept
  <2>2. RegisteredIsOpen' /\ RequestedIsTold' /\ UnregisteredIsToldToStop'
      BY Zenon, <1>7, <2>1 DEF Grant, RegisteredIsOpen, RequestedIsTold,
         UnregisteredIsToldToStop
  <2>3. HandshakesAreCurrent'
      BY SMTT(60), <1>7 DEF Grant, ExposeHandshakes, ExposeExcept, HandshakesAreCurrent,
         Handshaking
  <2>4. PICK x : /\ ctl' = [ctl EXCEPT ![c] = x]
                 /\ x.op \notin {"shutdown", "drop"}
                 /\ \/ x = [op |-> "lookup", peer |-> p, cap |-> cap]
                    \/ {t \in Sessions : peerOf[t] = p /\ phase[t] = "live"} \subseteq exposed'
      BY <1>7, SMTT(60) DEF Grant, ExposeExcept, Idle
  <2>5. HandlersHoldTheSession'
      BY Zenon, <1>7, <2>1, <2>4, HoldClientFrame DEF Grant
  <2>6. UntoldIsAttendedTo'
    <3>1. ASSUME NEW t \in Sessions \ exposed', peerOf[t] = p, phase[t] = "live"
          PROVE  WillDecide(c, t, cap)'
        BY <1>7, <2>4, <3>1, SMTT(60) DEF Grant, WillDecide
    <3>2. \A t \in Sessions : ~ WillStop(c, t) /\ \A k : ~ WillDecide(c, t, k)
        BY SMTT(60), <1>7 DEF Grant, Idle, WillStop, WillDecide, Enforcing
    <3>3. \A q \in Peers : grants'[q] = grants[q] \cup (IF q = p THEN {cap} ELSE {})
        BY Zenon, <1>7 DEF Grant
    <3>4. ASSUME NEW t \in Sessions \ exposed', phase[t] = "live",
                 NEW k \in grants'[peerOf[t]], k \notin grants[peerOf[t]]
          PROVE  WillDecide(c, t, k)'
      <4>1. peerOf[t] = p /\ k = cap
          BY <3>3, <3>4, SMTT(60)
      <4>2. QED
          BY SMTT(60), <3>1, <3>4, <4>1
    <3>5. UNCHANGED <<trust, peerOf, phase, negotiated, told>>
        BY Zenon, <1>7 DEF Grant
    <3>6. QED
        BY Zenon, <2>1, <2>4, <3>2, <3>4, <3>5, AttendedClientFrame
  <2>7. QED
      BY SMTT(60), <2>2, <2>3, <2>5, <2>6
<1>8. ASSUME NEW p \in Peers, NEW cap \in Caps, Withdraw(c, p, cap) PROVE SessionsInv'
  <2>1. RegisteredIsOpen' /\ RequestedIsTold' /\ UnregisteredIsToldToStop'
      BY Zenon, <1>8 DEF Withdraw, RegisteredIsOpen, RequestedIsTold, UnregisteredIsToldToStop
  <2>2. HandshakesAreCurrent'
      BY SMTT(60), <1>8 DEF Withdraw, HandshakesAreCurrent
  <2>3. HandlersHoldTheSession'
      BY Zenon, <1>8, HoldFrame DEF Withdraw
  <2>4. UntoldIsAttendedTo'
      BY SMTT(60), <1>8, AttendedFrame DEF Withdraw
  <2>5. QED
      BY Zenon, <2>1, <2>2, <2>3, <2>4
<1>9. CASE GrantSessionFor(c)
  <2>1. /\ RegisteredIsOpen' /\ RequestedIsTold' /\ UnregisteredIsToldToStop'
        /\ HandshakesAreCurrent'
      BY Zenon, <1>9 DEF GrantSessionFor, RegisteredIsOpen, RequestedIsTold,
         UnregisteredIsToldToStop, HandshakesAreCurrent
  <2>2. HandlersHoldTheSession'
      BY Zenon, <1>9, HoldClientFrame DEF GrantSessionFor
  <2>3. UntoldIsAttendedTo'
    <3>1. ASSUME NEW t \in Sessions \ exposed, phase[t] = "live", ~ told[t]
          PROVE  registered[peerOf[t]] = t
        BY Zenon, <3>1 DEF UnregisteredIsToldToStop
    <3>2. ASSUME NEW t \in Sessions \ exposed, phase[t] = "live", ~ told[t],
                 NEW cap, WillDecide(c, t, cap)
          PROVE  WillDecide(c, t, cap)'
        BY SMTT(60), <1>9, <3>1, <3>2 DEF GrantSessionFor, WillDecide
    <3>3. \A t \in Sessions : ~ WillStop(c, t)
        BY Zenon, <1>9 DEF GrantSessionFor, WillStop, Enforcing
    <3>4. QED
        BY Zenon, <1>9, <3>2, <3>3, AttendedClientFrame DEF GrantSessionFor
  <2>4. QED
      BY Zenon, <2>1, <2>2, <2>3
<1>10. CASE GrantDecide(c)
  <2> DEFINE p == ctl[c].peer
             h == ctl[c].handle
             reconnect == Decision(p, ctl[c].cap, h) = "reconnect"
  <2>1. p \in Peers /\ h \in Sessions \cup {None}
      BY SMTT(60), <1>10, <1>f, OpsFields DEF GrantDecide
  <2>2. reconnect => h # None
      BY Zenon DEF Decision
  <2>3. /\ \A t \in Sessions : told[t] => told'[t]
        /\ reconnect => told'[h]
    <3>1. CASE reconnect
        BY SMTT(60), <1>10, <2>1, <2>2, <3>1 DEF GrantDecide
    <3>2. CASE ~ reconnect
        BY Zenon, <1>10, <3>2 DEF GrantDecide
    <3>3. QED
        BY SMTT(60), <3>1, <3>2
  <2>4. RegisteredIsOpen' /\ UnregisteredIsToldToStop' /\ HandshakesAreCurrent'
      BY Zenon, <1>10, <2>3 DEF GrantDecide, RegisteredIsOpen, UnregisteredIsToldToStop,
         HandshakesAreCurrent
  <2>5. RequestedIsTold'
    <3>1. CASE reconnect
        BY <1>10, <2>1, <2>2, <2>3, <3>1 DEF GrantDecide, RequestedIsTold
    <3>2. CASE ~ reconnect
        BY <1>10, <3>2 DEF GrantDecide, RequestedIsTold
    <3>3. QED
        BY Zenon, <3>1, <3>2
  <2>6. HandlersHoldTheSession'
      BY Zenon, <1>10, <2>3, HoldClientFrame DEF GrantDecide, Idle
  <2>7. UntoldIsAttendedTo'
    <3>1. ASSUME NEW t \in Sessions, ~ told'[t], NEW cap, cap \notin negotiated[t],
                 WillDecide(c, t, cap)
          PROVE  FALSE
      <4>1. h = t /\ ctl[c].cap = cap
          BY Zenon, <1>10, <3>1 DEF GrantDecide, WillDecide
      <4>2. ~ told[t] /\ requested[p] # t
          BY ZenonT(60), <2>1, <2>3, <3>1 DEF RequestedIsTold
      <4>3. reconnect
          BY Zenon, <3>1, <4>1, <4>2 DEF Decision
      <4>4. QED
          BY Zenon, <2>3, <3>1, <4>1, <4>3
    <3>2. \A t \in Sessions : ~ WillStop(c, t)
        BY Zenon, <1>10 DEF GrantDecide, WillStop, Enforcing
    <3>3. QED
        BY Zenon, <1>10, <2>3, <3>1, <3>2, AttendedClientFrame DEF GrantDecide
  <2>8. QED
      BY SMTT(60), <2>4, <2>5, <2>6, <2>7
<1>11. QED
    BY Zenon, <1>1, <1>2, <1>3, <1>4, <1>5, <1>6, <1>7, <1>8, <1>9, <1>10
    DEF ClientStep, HandlerStep, HideOne, HideAll

\* SessionsInv holds of every reachable state.
THEOREM SessionsInvariant == Spec => []SessionsInv
<1>1. Init => SessionsInv
    BY NoneAssumption
    DEF Init, SessionsInv, RegisteredIsOpen, UnregisteredIsToldToStop,
        HandshakesAreCurrent, HandlersHoldTheSession, RequestedIsTold,
        UntoldIsAttendedTo, Idle
<1>2. TypeOK /\ SessionsInv /\ [Next]_vars => SessionsInv'
  <2> SUFFICES ASSUME TypeOK, SessionsInv, [Next]_vars PROVE SessionsInv'
      BY Zenon
  <2>1. CASE UNCHANGED vars
      BY <2>1, SMTT(60) DEF vars, SessionsInv, RegisteredIsOpen, UnregisteredIsToldToStop,
         HandshakesAreCurrent, HandlersHoldTheSession, RequestedIsTold,
         UntoldIsAttendedTo, WillStop, WillDecide
  <2>2. CASE Next
      BY Zenon, <2>2, SessionStepInv, ClientStepInv DEF Next
  <2>3. QED
      BY Zenon, <2>1, <2>2
<1>3. QED
    BY <1>1, <1>2, TypeCorrect, PTL DEF Spec

\* unregister_session: the map names only that peer's open session, in whatever
\* order sessions replace one another and close.
THEOREM RegistryIsTrue == Spec => []RegisteredIsOpen
<1>1. SessionsInv => RegisteredIsOpen
    BY Zenon DEF SessionsInv
<1> QED
    BY <1>1, SessionsInvariant, PTL

\* register_session: a live session that the map does not name has been told to
\* stop, but for the exposed ones.
THEOREM OnlyRegisteredRuns == Spec => []UnregisteredIsToldToStop
<1>1. SessionsInv => UnregisteredIsToldToStop
    BY Zenon DEF SessionsInv
<1> QED
    BY <1>1, SessionsInvariant, PTL

\* enforce_revocation: once no handler is at work on it, a revoked peer has no
\* live session that has not been told to stop, but for the exposed ones.
THEOREM RevocationEnforced == Spec => []RevokedIsToldToStop
<1>1. TypeOK /\ SessionsInv => RevokedIsToldToStop
  <2> SUFFICES ASSUME TypeOK, SessionsInv, NEW s \in Sessions \ exposed,
                      trust[peerOf[s]] \in {"revoked", "hidden"},
                      phase[s] = "live", ~ told[s]
               PROVE  MidOperation(peerOf[s])
      BY Zenon DEF RevokedIsToldToStop
  <2>1. PICK c \in Clients : WillStop(c, s)
      BY Zenon DEF SessionsInv, UntoldIsAttendedTo
  <2>2. QED
      BY Zenon, <2>1 DEF WillStop, MidOperation, Acting, Enforcing
<1>2. QED
    BY <1>1, TypeCorrect, SessionsInvariant, PTL

\* renegotiate_after_grant: once no handler is at work on its peer, a session
\* that lacks a capability the peer may use has been told to stop, but for the
\* exposed ones.
THEOREM GrantsConverge == Spec => []FrozenIsToldToStop
<1>1. TypeOK /\ SessionsInv => FrozenIsToldToStop
  <2> SUFFICES ASSUME TypeOK, SessionsInv, NEW s \in Sessions \ exposed,
                      NEW cap \in (grants[peerOf[s]] \cap Advertised) \ negotiated[s],
                      phase[s] = "live", ~ told[s]
               PROVE  MidOperation(peerOf[s])
      BY Zenon DEF FrozenIsToldToStop
  <2>1. PICK c \in Clients : WillDecide(c, s, cap)
      BY Zenon DEF SessionsInv, UntoldIsAttendedTo
  <2>2. QED
      BY Zenon, <2>1 DEF WillDecide, MidOperation, Acting
<1>2. QED
    BY <1>1, TypeCorrect, SessionsInvariant, PTL

\* What ReadingFromOpenSession leaves out: the session of a reading negotiated
\* battery.v1, so its end is noticed.
ReadingsAreNoticed ==
    \A p \in Peers :
        battery[p] # None =>
            /\ peerOf[battery[p]] = p
            /\ phase[battery[p]] \in {"live", "ended"}
            /\ Battery \in negotiated[battery[p]]

\* A reading does not outlive the session that delivered it
\* (on_peer_disconnected).
THEOREM ReadingsEndWithTheirSession ==
    Spec => []ReadingFromOpenSession
<1> USE NoneAssumption
<1>1. Init => ReadingsAreNoticed
    BY Zenon DEF Init, ReadingsAreNoticed
<1>2. TypeOK /\ ReadingsAreNoticed /\ [Next]_vars => ReadingsAreNoticed'
  <2> SUFFICES ASSUME TypeOK, ReadingsAreNoticed, [Next]_vars PROVE ReadingsAreNoticed'
      BY Zenon
  <2> USE DEF TypeOK, ReadingsAreNoticed
  <2>1. ASSUME NEW s \in Sessions, SessionStep(s) PROVE ReadingsAreNoticed'
    <3>1. CASE LookupTrusted(s)
        BY SMTT(60), <3>1 DEF LookupTrusted
    <3>2. CASE PairingConfirmed(s)
        BY SMTT(60), <3>2 DEF PairingConfirmed
    <3>3. CASE StorePeer(s)
        BY SMTT(60), <3>3 DEF StorePeer
    <3>4. CASE ReadGrantsBack(s)
        BY SMTT(60), <3>4 DEF ReadGrantsBack
    <3>5. CASE HandshakeFails(s)
        BY SMTT(60), <3>5 DEF HandshakeFails
    <3>6. CASE ClearRequest(s)
        BY SMTT(60), <3>6 DEF ClearRequest
    <3>7. CASE Register(s)
        BY SMTT(60), <3>7 DEF Register
    <3>8. CASE BatteryReading(s)
        BY SMTT(60), <3>8 DEF BatteryReading, sessionVars
    <3>9. CASE EndLoop(s)
        BY SMTT(60), <3>9 DEF EndLoop
    <3>10. CASE Disconnected(s)
        BY SMTT(60), <3>10 DEF Disconnected
    <3>11. CASE Closed(s)
        BY SMTT(60), <3>11 DEF Closed
    <3>12. CASE Recycle(s)
        BY SMTT(60), <3>12 DEF Recycle
    <3> QED
        BY ZenonT(60), <2>1, <3>1, <3>2, <3>3, <3>4, <3>5, <3>6, <3>7, <3>8, <3>9, <3>10, <3>11, <3>12 DEF SessionStep
  <2>2. ASSUME NEW c \in Clients, ClientStep(c) PROVE ReadingsAreNoticed'
    <3>1. UNCHANGED <<battery, peerOf, phase, negotiated>>
      <4>1. CASE HandlerStep(c)
          BY Zenon, <4>1 DEF HandlerStep, EnforceSessionFor, EnforceShutdown, EnforceDrop,
             EnforceClear, GrantSessionFor, GrantDecide, sessionVars
      <4>2. CASE HideAll(c)
          BY Zenon, <4>2 DEF HideAll, HideRevoked, sessionVars
      <4>3. ASSUME NEW p \in Peers, Unpair(c, p) \/ HideOne(c, p)
            PROVE  UNCHANGED <<battery, peerOf, phase, negotiated>>
          BY Zenon, <4>3 DEF Unpair, HideOne, HideRevoked, sessionVars
      <4>4. ASSUME NEW p \in Peers, NEW cap \in Caps,
                   Grant(c, p, cap) \/ Withdraw(c, p, cap)
            PROVE  UNCHANGED <<battery, peerOf, phase, negotiated>>
          BY Zenon, <4>4 DEF Grant, Withdraw, sessionVars
      <4> QED
          BY SMTT(60), <2>2, <4>1, <4>2, <4>3, <4>4 DEF ClientStep
    <3> QED
        BY Zenon, <3>1
  <2>3. CASE UNCHANGED vars
      BY Zenon, <2>3 DEF vars
  <2> QED
      BY Zenon, <2>1, <2>2, <2>3 DEF Next
<1>3. ReadingsAreNoticed => ReadingFromOpenSession
    BY Zenon DEF ReadingsAreNoticed, ReadingFromOpenSession
<1> QED
    BY <1>1, <1>2, <1>3, TypeCorrect, PTL DEF Spec

=============================================================================
