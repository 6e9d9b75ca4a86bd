--------------------------- MODULE ControlReports ---------------------------
(* What the daemon answers to the five questions of the desktop application *)
(* (runtime/src/server.rs, control/src/lib.rs), and what it does with the   *)
(* requests the application sends.  The state of the daemon is one record:  *)
(* whether it runs, what it holds about each device, and the transfers of   *)
(* this run.  A report is taken at one instant.  The handlers of Grant,     *)
(* Unpair, the policies and Hide are modelled step by step in               *)
(* DaemonSessions and TrustStore; here each is one step.                    *)
EXTENDS PanelModel

CONSTANTS
  Peers,          \* devices, by full fingerprint
  MaxTransfers,   \* bound on the transfers of a run
  Reporting,      \* devices that report a battery
  HasWatch,       \* the session can report clipboard changes
  HasSensitive    \* the clipboard can mark a clip as sensitive

Kinds == {"status", "devices", "transfers", "clipboard", "notifications"}

\* listed_peers: a hidden tombstone is no row, and neither is a stranger.
Listed(d) == {p \in Peers : d.peers[p].trust # "unlisted"}

HasSession(d, p) == d.peers[p].link # "off"

\* live_state, for a device with a session.
DeviceState(d, p) ==
  CASE d.peers[p].trust = "revoked" -> "revoked"
    [] d.peers[p].trust # "revoked" /\ HasSession(d, p) -> d.peers[p].link
    [] OTHER -> "disconnected"

\* Forgotten with the session, so an offline device has no reading.
BatteryReport(d, p) ==
  {[stale |-> FALSE] : x \in {p} \cap {q \in Reporting :
       HasSession(d, q) /\ BATTERY \in d.peers[q].negotiated}}

DeviceReport(d, p) ==
  [fp |-> p, key |-> p,
   revoked |-> d.peers[p].trust = "revoked",
   paired  |-> d.peers[p].trust # "revoked",
   state   |-> DeviceState(d, p),
   granted |-> d.peers[p].granted,
   battery |-> BatteryReport(d, p),
   clock   |-> HasSession(d, p) \/ d.peers[p].seen]

BuildDevices(d) == {DeviceReport(d, p) : p \in Listed(d)}

\* Sessions come from the session map, devices from the store.
BuildStatus(d) ==
  [devices     |-> BuildDevices(d),
   connections |-> {[key |-> p, negotiated |-> d.peers[p].negotiated] :
                      p \in {q \in Peers : HasSession(d, q)}}]

BuildClipboardStatus(d) ==
  [enabled |-> TRUE, backend_available |-> TRUE,
   watch_available |-> HasWatch, sensitive_available |-> HasSensitive,
   peers   |-> {[key |-> p, granted |-> CLIPBOARD \in d.peers[p].granted,
                 revoked   |-> d.peers[p].trust = "revoked",
                 connected |-> HasSession(d, p),
                 flags     |-> d.peers[p].flags] : p \in Listed(d)},
   pending |-> {p \in Peers : d.peers[p].held}]

BuildNotificationsStatus(d) ==
  [enabled |-> TRUE, available |-> TRUE,
   peers   |-> {LET live == HasSession(d, p)
                            /\ NOTIFICATIONS \in d.peers[p].negotiated
                IN [key |-> p, granted |-> NOTIFICATIONS \in d.peers[p].granted,
                    revoked     |-> d.peers[p].trust = "revoked",
                    connected   |-> HasSession(d, p),
                    flags       |-> d.peers[p].flags,
                    when_locked |-> d.peers[p].locked,
                    reporting   |-> live,
                    peer_is_source |-> live,
                    peer_is_dismiss_target |-> live] : p \in Listed(d)}]

\* The answer to one question, as a set of one.
Answer(kind, d) ==
  CASE kind = "status" -> {BuildStatus(d)}
    [] kind = "devices" -> {BuildDevices(d)}
    [] kind = "transfers" -> {d.transfers}
    [] kind = "clipboard" -> {BuildClipboardStatus(d)}
    [] OTHER -> {BuildNotificationsStatus(d)}

\* Reports with a number of seconds in them (since a session spoke or ended,
\* since a clip arrived) differ from the last one once the clock has moved.
CarriesClock(kind, reports) ==
  \/ kind = "status" /\ \E r \in reports : \E dev \in r.devices : dev.clock
  \/ kind = "clipboard" /\ \E r \in reports : r.pending # {}

(***************************************************************************)
(* Requests, each a tuple <<what, device, which, value>> like the control  *)
(* that sent it.  Served(d, r) is the daemon afterwards.                   *)
(***************************************************************************)

SetPeer(d, p, field, value) ==
  [d EXCEPT !.peers[p] = [@ EXCEPT ![field] = value]]

Switched(S, x, value) == IF value = "on" THEN S \cup {x} ELSE S \ {x}

\* A revocation takes grants and policies with it and ends the session.
Revoked(d, p) ==
  [d EXCEPT !.peers[p] =
     [@ EXCEPT !.trust = "revoked", !.granted = {}, !.negotiated = {},
               !.flags = {}, !.locked = "suppress", !.link = "off",
               !.held = FALSE, !.seen = @ \/ d.peers[p].link # "off"]]

Hidden(d, S) ==
  [d EXCEPT !.peers = [p \in Peers |->
     IF p \in S THEN [@[p] EXCEPT !.trust = "unlisted"] ELSE @[p]]]

\* transfer_report, for a transfer that has just begun.
NewTransfer(d, p, direction) ==
  [seq |-> Cardinality(d.transfers) + 1, key |-> p, direction |-> direction,
   state |-> "streaming", failure |-> {}]

\* send_file: a listed device with a session over which files are agreed.
MayOffer(d, p) ==
  /\ p \in Listed(d) /\ HasSession(d, p)
  /\ FILES \in d.peers[p].granted \cap d.peers[p].negotiated
  /\ Cardinality(d.transfers) < MaxTransfers

MayClip(d, p) ==
  /\ p \in Listed(d) /\ HasSession(d, p)
  /\ CLIPBOARD \in d.peers[p].granted \cap d.peers[p].negotiated
  /\ "send" \in d.peers[p].flags

MayCopy(d, p) == p \in Listed(d) /\ d.peers[p].held

Cancellable(d, seq) ==
  \E t \in d.transfers : t.seq = seq /\ t.state \notin Terminal

Cancelled(d, seq) ==
  [d EXCEPT !.transfers =
     {IF t.seq = seq THEN [t EXCEPT !.state = "cancelled",
                                    !.failure = {"cancelled_by_user"}]
      ELSE t : t \in d.transfers}]

\* What the daemon requires of a request before it does anything.
Acceptable(d, r) ==
  CASE r[1] \in {"grant", "clipboard", "mirror", "dismiss", "locked"} ->
         d.peers[r[2]].trust = "trusted"
    [] r[1] = "revoke" -> r[2] \in Listed(d)
    [] r[1] = "remove" -> d.peers[r[2]].trust = "revoked"
    [] r[1] = "remove all" -> TRUE
    [] r[1] = "cancel" -> Cancellable(d, r[2])
    [] r[1] = "copy" -> MayCopy(d, r[2])
    [] r[1] = "send file" -> MayOffer(d, r[2])
    [] OTHER -> MayClip(d, r[2])

Served(d, r) ==
  LET p == r[2] IN
  CASE r[1] = "grant" ->
         SetPeer(d, p, "granted", Switched(d.peers[p].granted, r[3], r[4]))
    [] r[1] = "clipboard" ->
         SetPeer(d, p, "flags", Switched(d.peers[p].flags, r[3], r[4]))
    [] r[1] \in {"mirror", "dismiss"} ->
         SetPeer(d, p, "flags", Switched(d.peers[p].flags, r[1], r[4]))
    [] r[1] = "locked" -> SetPeer(d, p, "locked", r[3])
    [] r[1] = "revoke" -> Revoked(d, p)
    [] r[1] = "remove" -> Hidden(d, {p})
    [] r[1] = "remove all" ->
         Hidden(d, {q \in Peers : d.peers[q].trust = "revoked"})
    [] r[1] = "cancel" -> Cancelled(d, p)
    [] r[1] = "copy" -> SetPeer(d, p, "held", FALSE)
    [] r[1] = "send file" ->
         [d EXCEPT !.transfers = @ \cup {NewTransfer(d, p, "sending")}]
    [] OTHER -> d
=============================================================================
