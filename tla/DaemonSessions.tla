--------------------------- MODULE DaemonSessions ---------------------------
(***************************************************************************)
(* The daemon's view of its peers: who is trusted, which session each peer *)
(* has, and what the control clients (CLI, desktop application) do to both.*)
(*                                                                         *)
(* Three kinds of task run concurrently on one DaemonState:                *)
(*   - one task per inbound connection: accept_handshake, then run_session *)
(*     (session.rs), calling back into the SessionHost (state.rs);         *)
(*   - one task per control client: do_unpair, do_hide_revoked,            *)
(*     do_hide_all_revoked and do_grant (server.rs);                       *)
(*   - the spawned `handle.shutdown()` tasks, which only queue a command.  *)
(* Every lock is taken and released inside one action: an action is the    *)
(* code between two awaits.                                                *)
(*                                                                         *)
(* The pairing window is Pairing.tla's subject; here a connection that is  *)
(* not trusted may or may not be confirmed.  The command queues never fill *)
(* up here: a queued Shutdown stays queued until the session's loop reads  *)
(* it.                                                                     *)
(***************************************************************************)
EXTENDS Naturals, FiniteSets

CONSTANTS
    Peers,        \* pinned fingerprints
    Caps,         \* capabilities this daemon implements
    Battery,      \* battery.v1
    Advertised,   \* capabilities the peers advertise in HELLO
    AutoGrant,    \* Settings::auto_grant
    Sessions,     \* session ids (SessionId); one per connection
    Clients,      \* control clients
    DiskFaults,   \* whether writing the trust store may fail
    None          \* absence of a session

ASSUME ConstantsAssumption ==
    /\ Battery \in Caps
    /\ Advertised \subseteq Caps
    /\ AutoGrant \subseteq Caps
    /\ DiskFaults \in BOOLEAN

ASSUME NoneAssumption == None \notin Sessions

VARIABLES
    trust,        \* Store: what peer_record says of each fingerprint
    grants,       \* Store: granted_capabilities that are true
    peerOf,       \* the TLS identity of each connection
    phase,        \* how far each connection's task has got
    negotiated,   \* Established::negotiated_capabilities, frozen at HELLO
    told,         \* Command::Shutdown is in the session's command queue
    registered,   \* DaemonState::sessions
    requested,    \* Renegotiation::requested
    ctl,          \* what each control client is doing
    battery,      \* BatteryState: the session the peer's reading came from
    exposed       \* history: sessions whose handshake overlapped an operation
                  \* on their peer, or whose peer's record could not be written

storeVars   == <<trust, grants>>
sessionVars == <<peerOf, phase, negotiated>>
vars == <<trust, grants, peerOf, phase, negotiated, told, registered,
          requested, ctl, battery, exposed>>

Trusts == {"unknown", "trusted", "revoked", "hidden"}

\* accept_handshake .. register_session's two critical sections, in order.
Handshaking == {"pairing", "stored", "established", "cleared"}
Phases == Handshaking \cup {"idle", "live", "ended", "forgotten", "closed"}

\* What a control client is in the middle of.
Idle == [op |-> "idle"]
Enforcing == {"session_for", "shutdown", "drop", "clear"}
Ops == {Idle}
       \cup [op : Enforcing, peer : Peers, rest : SUBSET Peers,
             handle : Sessions \cup {None}]
       \cup [op : {"lookup"}, peer : Peers, cap : Caps]
       \cup [op : {"decide"}, peer : Peers, cap : Caps,
             handle : Sessions \cup {None}]

TypeOK ==
    /\ trust \in [Peers -> Trusts]
    /\ grants \in [Peers -> SUBSET Caps]
    /\ peerOf \in [Sessions -> Peers]
    /\ phase \in [Sessions -> Phases]
    /\ negotiated \in [Sessions -> SUBSET Caps]
    /\ told \in [Sessions -> BOOLEAN]
    /\ registered \in [Peers -> Sessions \cup {None}]
    /\ requested \in [Peers -> Sessions \cup {None}]
    /\ ctl \in [Clients -> Ops]
    /\ battery \in [Peers -> Sessions \cup {None}]
    /\ exposed \in SUBSET Sessions

Init ==
    /\ trust = [p \in Peers |-> "unknown"]
    /\ grants = [p \in Peers |-> {}]
    /\ peerOf \in [Sessions -> Peers]
    /\ phase = [s \in Sessions |-> "idle"]
    /\ negotiated = [s \in Sessions |-> {}]
    /\ told = [s \in Sessions |-> FALSE]
    /\ registered = [p \in Peers |-> None]
    /\ requested = [p \in Peers |-> None]
    /\ ctl = [c \in Clients |-> Idle]
    /\ battery = [p \in Peers |-> None]
    /\ exposed = {}

-----------------------------------------------------------------------------
(* History: a handshake and an operation on the same peer overlap.         *)

Acting(c, p) ==
    /\ ctl[c].op # "idle"
    /\ \/ ctl[c].peer = p
       \/ ctl[c].op \in Enforcing /\ p \in ctl[c].rest

MidOperation(p) == \E c \in Clients : Acting(c, p)

\* Seen from a control client that acts on p.
ExposeHandshakes(p) ==
    exposed' = exposed \cup
        {s \in Sessions : peerOf[s] = p /\ phase[s] \in Handshaking}

\* Seen from a connection s of p that takes a handshake step.
ExposeIfMidOperation(s, p) ==
    exposed' = IF MidOperation(p) THEN exposed \cup {s} ELSE exposed

\* p's record changes under connections that are not told of it: a pairing on
\* another connection replaced it, or it was changed in memory and the write
\* failed, which ends the handler with an error.
ExposeExcept(T, p) ==
    exposed' = exposed \cup
        {s \in Sessions \ T : peerOf[s] = p /\ phase[s] # "idle"}

-----------------------------------------------------------------------------
(* The connection task.                                                    *)

\* lookup_peer says Trusted: effective = mutual, filtered by the grants.
LookupTrusted(s) ==
    LET p == peerOf[s] IN
    /\ phase[s] = "idle"
    /\ trust[p] = "trusted"
    /\ phase' = [phase EXCEPT ![s] = "established"]
    /\ negotiated' = [negotiated EXCEPT ![s] = Advertised \cap grants[p]]
    /\ ExposeIfMidOperation(s, p)
    /\ UNCHANGED <<storeVars, peerOf, told, registered, requested, ctl,
                   battery>>

\* lookup_peer says Unknown or Revoked, a window is open, the proof verifies
\* and the human says yes.
PairingConfirmed(s) ==
    LET p == peerOf[s] IN
    /\ phase[s] = "idle"
    /\ trust[p] # "trusted"
    /\ phase' = [phase EXCEPT ![s] = "pairing"]
    /\ ExposeIfMidOperation(s, p)
    /\ UNCHANGED <<storeVars, peerOf, negotiated, told, registered, requested,
                   ctl, battery>>

\* store_peer writes a whole new record, over whatever was there.  A failed
\* write leaves the record in memory and ends the connection.
StorePeer(s) ==
    LET p == peerOf[s] IN
    /\ phase[s] = "pairing"
    /\ trust' = [trust EXCEPT ![p] = "trusted"]
    /\ grants' = [grants EXCEPT ![p] = Advertised \cap AutoGrant]
    /\ \E written \in {TRUE, ~ DiskFaults} :
           phase' = [phase EXCEPT ![s] = IF written THEN "stored" ELSE "closed"]
    /\ ExposeExcept(IF MidOperation(p) THEN {} ELSE {s}, p)
    /\ UNCHANGED <<peerOf, negotiated, told, registered, requested, ctl,
                   battery>>

\* accept_pairing reads the grants back with a second lookup.
ReadGrantsBack(s) ==
    LET p == peerOf[s]
        granted == IF trust[p] = "trusted" THEN grants[p] ELSE {} IN
    /\ phase[s] = "stored"
    /\ phase' = [phase EXCEPT ![s] = "established"]
    /\ negotiated' = [negotiated EXCEPT ![s] = Advertised \cap granted]
    /\ ExposeIfMidOperation(s, p)
    /\ UNCHANGED <<storeVars, peerOf, told, registered, requested, ctl,
                   battery>>

\* The socket fails before run_session registers anything.
HandshakeFails(s) ==
    /\ phase[s] \in {"pairing", "stored", "established"}
    /\ phase' = [phase EXCEPT ![s] = "closed"]
    /\ UNCHANGED <<storeVars, peerOf, negotiated, told, registered, requested,
                   ctl, battery, exposed>>

\* register_session, first critical section: renegotiation.clear.
ClearRequest(s) ==
    LET p == peerOf[s] IN
    /\ phase[s] = "established"
    /\ phase' = [phase EXCEPT ![s] = "cleared"]
    /\ requested' = [requested EXCEPT ![p] = None]
    /\ ExposeIfMidOperation(s, p)
    /\ UNCHANGED <<storeVars, peerOf, negotiated, told, registered, ctl,
                   battery>>

\* register_session, second critical section: insert, and tell whoever was
\* displaced to stop.
Register(s) ==
    LET p == peerOf[s]
        old == registered[p] IN
    /\ phase[s] = "cleared"
    /\ phase' = [phase EXCEPT ![s] = "live"]
    /\ registered' = [registered EXCEPT ![p] = s]
    /\ told' = IF old = None THEN told ELSE [told EXCEPT ![old] = TRUE]
    /\ ExposeIfMidOperation(s, p)
    /\ UNCHANGED <<storeVars, peerOf, negotiated, requested, ctl, battery>>

\* The dispatch loop hands a battery reading to the capability: negotiated is
\* all that is asked.
BatteryReading(s) ==
    /\ phase[s] = "live"
    /\ Battery \in negotiated[s]
    /\ battery' = [battery EXCEPT ![peerOf[s]] = s]
    /\ UNCHANGED <<storeVars, sessionVars, told, registered, requested, ctl,
                   exposed>>

\* Mutant: the loop never reads its command queue.
EndLoopUnasked(s) ==
    /\ phase[s] = "live"
    /\ ~ told[s]
    /\ phase' = [phase EXCEPT ![s] = "ended"]
    /\ UNCHANGED <<storeVars, peerOf, negotiated, told, registered, requested,
                   ctl, battery, exposed>>

\* The loop ends: it was told to stop, the peer went away, or a frame, the
\* writer or the liveness timer ended it.
EndLoop(s) ==
    /\ phase[s] = "live"
    /\ phase' = [phase EXCEPT ![s] = "ended"]
    /\ UNCHANGED <<storeVars, peerOf, negotiated, told, registered, requested,
                   ctl, battery, exposed>>

\* Mutant: the reading is kept.
DisconnectedKeepsReading(s) ==
    /\ phase[s] = "ended"
    /\ phase' = [phase EXCEPT ![s] = "forgotten"]
    /\ UNCHANGED <<storeVars, peerOf, negotiated, told, registered, requested,
                   ctl, battery, exposed>>

\* on_peer_disconnected, for every negotiated capability.
Disconnected(s) ==
    /\ phase[s] = "ended"
    /\ phase' = [phase EXCEPT ![s] = "forgotten"]
    /\ battery' = IF Battery \in negotiated[s]
                  THEN [battery EXCEPT ![peerOf[s]] = None] ELSE battery
    /\ UNCHANGED <<storeVars, peerOf, negotiated, told, registered, requested,
                   ctl, exposed>>

\* Mutant: the entry is removed by fingerprint alone.
ClosedByFingerprint(s) ==
    /\ phase[s] = "forgotten"
    /\ phase' = [phase EXCEPT ![s] = "closed"]
    /\ registered' = [registered EXCEPT ![peerOf[s]] = None]
    /\ UNCHANGED <<storeVars, peerOf, negotiated, told, requested, ctl,
                   battery, exposed>>

\* on_closed: unregister_session removes the entry only if it is this one.
Closed(s) ==
    LET p == peerOf[s] IN
    /\ phase[s] = "forgotten"
    /\ phase' = [phase EXCEPT ![s] = "closed"]
    /\ registered' = IF registered[p] = s
                     THEN [registered EXCEPT ![p] = None] ELSE registered
    /\ UNCHANGED <<storeVars, peerOf, negotiated, told, requested, ctl,
                   battery, exposed>>

\* Ids are never reused by the program.  Here an id returns to the pool once
\* nothing names it any more, so that any number of connections may come and
\* go: a recycled id cannot be told from a fresh one.
Recycle(s) ==
    /\ phase[s] = "closed"
    /\ \A p \in Peers : s \notin {registered[p], requested[p], battery[p]}
    /\ \A c \in Clients :
           ctl[c].op \in Enforcing \cup {"decide"} => ctl[c].handle # s
    /\ \E p \in Peers : peerOf' = [peerOf EXCEPT ![s] = p]
    /\ phase' = [phase EXCEPT ![s] = "idle"]
    /\ negotiated' = [negotiated EXCEPT ![s] = {}]
    /\ told' = [told EXCEPT ![s] = FALSE]
    /\ exposed' = exposed \ {s}
    /\ UNCHANGED <<storeVars, registered, requested, ctl, battery>>

SessionStep(s) ==
    \/ LookupTrusted(s)  \/ PairingConfirmed(s) \/ StorePeer(s)
    \/ ReadGrantsBack(s) \/ HandshakeFails(s)   \/ ClearRequest(s)
    \/ Register(s)       \/ BatteryReading(s)   \/ EndLoop(s)
    \/ Disconnected(s)   \/ Closed(s)           \/ Recycle(s)

-----------------------------------------------------------------------------
(* The control clients.  resolve_device and the store operation that follows *)
(* lock the store separately, so a record may be hidden in between.          *)

\* enforce_revocation for p, with rest still to come, about to do op.
Enforcement(op, p, rest, h) ==
    [op |-> op, peer |-> p, rest |-> rest, handle |-> h]

Enforce(c, p, rest) ==
    ctl' = [ctl EXCEPT ![c] = Enforcement("session_for", p, rest, None)]

\* Mutant: the sessions that are up are left alone.
UnpairUnenforced(c, p) ==
    /\ ctl[c] = Idle
    /\ trust[p] # "unknown"
    /\ trust' = [trust EXCEPT ![p] = IF @ = "hidden" THEN @ ELSE "revoked"]
    /\ grants' = [grants EXCEPT ![p] = {}]
    /\ ExposeHandshakes(p)
    /\ UNCHANGED <<sessionVars, told, registered, requested, ctl, battery>>

\* do_unpair: revoke_peer, then enforce_revocation if that was written.
Unpair(c, p) ==
    /\ ctl[c] = Idle
    /\ trust[p] # "unknown"
    /\ trust' = [trust EXCEPT ![p] = IF @ = "hidden" THEN @ ELSE "revoked"]
    /\ grants' = [grants EXCEPT ![p] = {}]
    /\ \/ Enforce(c, p, {}) /\ ExposeHandshakes(p)
       \/ DiskFaults /\ ctl' = ctl /\ ExposeExcept({}, p)
    /\ UNCHANGED <<sessionVars, told, registered, requested, battery>>

\* do_hide_revoked and do_hide_all_revoked: hide, then enforce for each one
\* hidden.  commit() rolls a failed write back, so a failure changes nothing.
HideRevoked(c, P) ==
    /\ ctl[c] = Idle
    /\ P # {}
    /\ \A p \in P : trust[p] = "revoked"
    /\ trust' = [p \in Peers |-> IF p \in P THEN "hidden" ELSE trust[p]]
    /\ \E p \in P : Enforce(c, p, P \ {p})
    /\ exposed' = exposed \cup
           {s \in Sessions : peerOf[s] \in P /\ phase[s] \in Handshaking}
    /\ UNCHANGED <<grants, sessionVars, told, registered, requested, battery>>

HideOne(c, p) == HideRevoked(c, {p})
HideAll(c) == HideRevoked(c, {p \in Peers : trust[p] = "revoked"})

\* enforce_revocation, one await at a time.
EnforceSessionFor(c) ==
    /\ ctl[c].op = "session_for"
    /\ ctl' = [ctl EXCEPT ![c] = Enforcement("shutdown", ctl[c].peer, ctl[c].rest,
                                              registered[ctl[c].peer])]
    /\ UNCHANGED <<storeVars, sessionVars, told, registered, requested,
                   battery, exposed>>

EnforceShutdown(c) ==
    LET h == ctl[c].handle IN
    /\ ctl[c].op = "shutdown"
    /\ told' = IF h = None THEN told ELSE [told EXCEPT ![h] = TRUE]
    /\ ctl' = [ctl EXCEPT ![c] = Enforcement("drop", ctl[c].peer, ctl[c].rest, None)]
    /\ UNCHANGED <<storeVars, sessionVars, registered, requested, battery,
                   exposed>>

EnforceDrop(c) ==
    /\ ctl[c].op = "drop"
    /\ registered' = [registered EXCEPT ![ctl[c].peer] = None]
    /\ ctl' = [ctl EXCEPT ![c] = Enforcement("clear", ctl[c].peer, ctl[c].rest, None)]
    /\ UNCHANGED <<storeVars, sessionVars, told, requested, battery,
                   exposed>>

EnforceClear(c) ==
    LET rest == ctl[c].rest IN
    /\ ctl[c].op = "clear"
    /\ requested' = [requested EXCEPT ![ctl[c].peer] = None]
    /\ IF rest = {} THEN ctl' = [ctl EXCEPT ![c] = Idle]
                    ELSE \E p \in rest : Enforce(c, p, rest \ {p})
    /\ UNCHANGED <<storeVars, sessionVars, told, registered, battery,
                   exposed>>

\* do_grant with granted = true, up to renegotiate_after_grant.
Grant(c, p, cap) ==
    /\ ctl[c] = Idle
    /\ trust[p] = "trusted"
    /\ grants' = [grants EXCEPT ![p] = @ \cup {cap}]
    /\ \/ /\ ctl' = [ctl EXCEPT ![c] = [op |-> "lookup", peer |-> p, cap |-> cap]]
          /\ ExposeHandshakes(p)
       \/ DiskFaults /\ ctl' = ctl /\ ExposeExcept({}, p)
    /\ UNCHANGED <<trust, sessionVars, told, registered, requested, battery>>

\* do_grant with granted = false: renegotiate_after_grant decides Withdrawn
\* whatever it reads, so nothing follows the store's change.
Withdraw(c, p, cap) ==
    /\ ctl[c] = Idle
    /\ trust[p] = "trusted"
    /\ grants' = [grants EXCEPT ![p] = @ \ {cap}]
    /\ UNCHANGED <<trust, sessionVars, told, registered, requested, ctl,
                   battery, exposed>>

\* renegotiate_after_grant: session_for.
GrantSessionFor(c) ==
    /\ ctl[c].op = "lookup"
    /\ ctl' = [ctl EXCEPT ![c] = [op |-> "decide", peer |-> ctl[c].peer,
                                  cap |-> ctl[c].cap,
                                  handle |-> registered[ctl[c].peer]]]
    /\ UNCHANGED <<storeVars, sessionVars, told, registered, requested,
                   battery, exposed>>

\* Mutant: compares with the store's grants instead of the frozen set.
DecisionFromStore(p, cap, h) ==
    IF h = None THEN "no-session"
    ELSE IF cap \in grants[p] THEN "already-negotiated"
    ELSE IF requested[p] = h THEN "already-requested"
    ELSE "reconnect"

\* renegotiate.rs: decide(), for granted = true.
Decision(p, cap, h) ==
    IF h = None THEN "no-session"
    ELSE IF cap \in negotiated[h] THEN "already-negotiated"
    ELSE IF requested[p] = h THEN "already-requested"
    ELSE "reconnect"

\* on_grant_changed decides and records under one lock; a Reconnect spawns the
\* session's shutdown.
GrantDecide(c) ==
    LET p == ctl[c].peer
        h == ctl[c].handle IN
    /\ ctl[c].op = "decide"
    /\ IF Decision(p, ctl[c].cap, h) = "reconnect"
       THEN /\ requested' = [requested EXCEPT ![p] = h]
            /\ told' = [told EXCEPT ![h] = TRUE]
               ELSE UNCHANGED <<requested, told>>
    /\ ctl' = [ctl EXCEPT ![c] = Idle]
    /\ UNCHANGED <<storeVars, sessionVars, registered, battery, exposed>>

\* A step of a handler that has begun.
HandlerStep(c) ==
    \/ EnforceSessionFor(c) \/ EnforceShutdown(c) \/ EnforceDrop(c)
    \/ EnforceClear(c) \/ GrantSessionFor(c) \/ GrantDecide(c)

ClientStep(c) ==
    \/ HandlerStep(c)
    \/ HideAll(c)
    \/ \E p \in Peers :
           \/ Unpair(c, p)
           \/ HideOne(c, p)
           \/ \E cap \in Caps : Grant(c, p, cap) \/ Withdraw(c, p, cap)

Next == \/ \E s \in Sessions : SessionStep(s)
        \/ \E c \in Clients : ClientStep(c)

Spec == Init /\ [][Next]_vars

\* The runtime runs every task that is ready: a handler that has begun goes on,
\* a session that was told to stop reads the command, and one whose loop ended
\* tears down.  Nothing obliges a peer to connect, nor a person to act.
Fairness ==
    /\ \A s \in Sessions :
           WF_vars((told[s] /\ EndLoop(s)) \/ Disconnected(s) \/ Closed(s))
    /\ \A c \in Clients : WF_vars(HandlerStep(c))

FairSpec == Spec /\ Fairness

-----------------------------------------------------------------------------
(* Properties.                                                             *)

\* register_session: "the daemon never holds two sessions with one device".
\* A live session that is not the registered one has been told to stop,
\* whatever order connections, disconnections and revocations happen in, unless
\* an operation on its peer overlapped its handshake.
UnregisteredIsToldToStop ==
    \A s \in Sessions :
        (phase[s] = "live" /\ registered[peerOf[s]] # s /\ s \notin exposed)
            => told[s]

\* unregister_session's id check: a superseded session's late close never
\* evicts its replacement, so what the map names is that peer's session and has
\* not been closed.
RegisteredIsOpen ==
    \A p \in Peers :
        registered[p] # None =>
            /\ peerOf[registered[p]] = p
            /\ phase[registered[p]] \in {"live", "ended", "forgotten"}

\* enforce_revocation: once no handler is still at work on a revoked peer, every
\* live session of it has been told to stop, unless its handshake overlapped.
RevokedIsToldToStop ==
    \A s \in Sessions :
        LET p == peerOf[s] IN
        (/\ trust[p] \in {"revoked", "hidden"}
         /\ ~ MidOperation(p)
         /\ phase[s] = "live"
         /\ s \notin exposed) => told[s]

\* renegotiate_after_grant: a live session that lacks a capability its peer has
\* been granted and advertises has been told to stop, so that the peer's next
\* handshake picks the grant up, unless its handshake overlapped.
FrozenIsToldToStop ==
    \A s \in Sessions :
        LET p == peerOf[s] IN
        (/\ phase[s] = "live"
         /\ ~ MidOperation(p)
         /\ s \notin exposed
         /\ ~ (grants[p] \cap Advertised \subseteq negotiated[s])) => told[s]

\* battery, on_peer_disconnected: "The value is meaningless once the peer is
\* gone".  A reading never outlives the session that delivered it, in whatever
\* order a peer's overlapping sessions end.
ReadingFromOpenSession ==
    \A p \in Peers :
        battery[p] # None =>
            /\ peerOf[battery[p]] = p
            /\ phase[battery[p]] \in {"live", "ended"}

\* A session that should not run does not linger: one that was superseded, and
\* one that is up when its peer is revoked, ends (on_established's detached
\* task, enforce_revocation, the session loop).
UnwantedSessionsEnd ==
    \A s \in Sessions :
        (/\ phase[s] = "live" /\ s \notin exposed
         /\ \/ registered[peerOf[s]] # s
            \/ trust[peerOf[s]] \in {"revoked", "hidden"}) ~> phase[s] # "live"

-----------------------------------------------------------------------------
(* The inductive invariant behind the safety properties.                   *)

\* A handshake that has read a record since revoked, or grants since widened,
\* is exposed.
HandshakesAreCurrent ==
    \A s \in Sessions \ exposed :
        LET p == peerOf[s] IN
        /\ phase[s] \in {"stored", "established", "cleared"}
               => trust[p] = "trusted"
        /\ phase[s] \in {"established", "cleared"}
               => grants[p] \cap Advertised \subseteq negotiated[s]

\* Between session_for and drop_session the registered session is the one the
\* handler holds, or one that registered meanwhile and is exposed.
HandlersHoldTheSession ==
    \A c \in Clients :
        LET r == registered[ctl[c].peer] IN
        /\ ctl[c].op = "shutdown" => r \in {None, ctl[c].handle} \cup exposed
        /\ ctl[c].op = "drop" => r = None \/ r \in exposed \/ told[r]

\* A session on record as asked to reconnect has been told to stop.
RequestedIsTold ==
    \A p \in Peers : requested[p] # None => told[requested[p]]

\* A handler is on its way to stop s for its peer's revocation.
WillStop(c, s) ==
    \/ ctl[c].op \in Enforcing /\ peerOf[s] \in ctl[c].rest
    \/ ctl[c].op = "session_for" /\ ctl[c].peer = peerOf[s]
    \/ ctl[c].op = "shutdown" /\ ctl[c].peer = peerOf[s] /\ ctl[c].handle = s

\* A handler is on its way to judge s against a grant of cap.
WillDecide(c, s, cap) ==
    /\ ctl[c].op \in {"lookup", "decide"}
    /\ ctl[c].peer = peerOf[s]
    /\ ctl[c].cap = cap
    /\ ctl[c].op = "decide" => ctl[c].handle = s

UntoldIsAttendedTo ==
    \A s \in Sessions \ exposed :
        LET p == peerOf[s] IN
        (phase[s] = "live" /\ ~ told[s]) =>
            /\ trust[p] = "trusted" \/ \E c \in Clients : WillStop(c, s)
            /\ \A cap \in (grants[p] \cap Advertised) \ negotiated[s] :
                   \E c \in Clients : WillDecide(c, s, cap)

\* Every live session of a device is accounted for, or a handler is on its way
\* to it: the state register_session, enforce_revocation and
\* renegotiate_after_grant maintain together.
SessionsInv ==
    /\ RegisteredIsOpen
    /\ UnregisteredIsToldToStop
    /\ HandshakesAreCurrent
    /\ HandlersHoldTheSession
    /\ RequestedIsTold
    /\ UntoldIsAttendedTo

-----------------------------------------------------------------------------
(* What the code's comments say without the exceptions above.              *)

\* server.rs, enforce_revocation: "Revocation must take effect now, not at the
\* next reconnect: tear down any live session with that device."
RevokedHasNoLiveSession ==
    \A s \in Sessions :
        (/\ trust[peerOf[s]] \in {"revoked", "hidden"}
         /\ ~ MidOperation(peerOf[s])
         /\ phase[s] = "live") => told[s]

=============================================================================
