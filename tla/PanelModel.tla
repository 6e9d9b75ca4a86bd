----------------------------- MODULE PanelModel -----------------------------
(* The decisions of the Quick Panel (gui/src/panel/model.rs): what it shows *)
(* and where its buttons send, as functions of what the daemon last said    *)
(* and of the stored choice of device.  They hold no state of their own.    *)
(*                                                                          *)
(* A field that may be missing is a set of at most one element.  `key'      *)
(* stands for the pair of device id and short fingerprint by which reports  *)
(* are matched; `fp' is the full fingerprint, by which requests are routed. *)
(* Lists are sets: their order is for display.  The sentence that goes with *)
(* a disabled control or a status row is left out.                          *)
EXTENDS Naturals, FiniteSets

CONSTANT RecentLimit    \* RECENT_LIMIT

FILES == "files.v1"
CLIPBOARD == "clipboard.v1"
NOTIFICATIONS == "notifications.v1"
BATTERY == "battery.v1"

\* The one element of a set, when there is exactly one.
Unambiguous(S) == {x \in S : S = {x}}

Health(s) ==
  IF s.error THEN "unavailable"
  ELSE IF s.status = {} THEN "reaching" ELSE "available"

(***************************************************************************)
(* Peers.                                                                  *)
(***************************************************************************)

\* The list of devices, or the one in the status report before it arrives.
Devices(s) ==
  IF s.devices # {} THEN UNION s.devices ELSE UNION {r.devices : r \in s.status}

ConnectionFor(s, d) ==
  Unambiguous({c \in UNION {r.connections : r \in s.status} : c.key = d.key})

Negotiated(s, d) == UNION {c.negotiated : c \in ConnectionFor(s, d)}

Link(d) == IF d.state \in {"connected", "stale"} THEN d.state ELSE "offline"

Capability(s, d, id) ==
  [granted |-> id \in d.granted,
   live    |-> Link(d) = "connected" /\ id \in Negotiated(s, d)]

Usable(capability) == capability.granted /\ capability.live

\* A reading is old by its own age or because the session has gone silent.
\* No reading over a live battery.v1 session is "absent", never a number.
BatteryOf(s, d) ==
  CASE \E b \in d.battery : b.stale \/ Link(d) = "stale" -> "last known"
    [] \E b \in d.battery : ~b.stale /\ Link(d) # "stale" -> "present"
    [] d.battery = {} /\ Link(d) # "offline" /\ BATTERY \in Negotiated(s, d)
         -> "absent"
    [] OTHER -> "unavailable"

PeerCard(s, chosen, d) ==
  [fp |-> d.fp, key |-> d.key, link |-> Link(d),
   selected      |-> d.fp \in chosen,
   battery       |-> BatteryOf(s, d),
   files         |-> Capability(s, d, FILES),
   clipboard     |-> Capability(s, d, CLIPBOARD),
   notifications |-> Capability(s, d, NOTIFICATIONS)]

PeerCards(s, chosen) ==
  {PeerCard(s, chosen, d) : d \in {e \in Devices(s) : ~e.revoked /\ e.paired}}

(***************************************************************************)
(* The destination: a function of the set of cards and of the choice.  A   *)
(* choice that names none of them resolves to nothing, never to another.   *)
(***************************************************************************)

Resolve(cards, chosen) ==
  LET known == {c.fp : c \in cards} IN
  CASE cards = {} -> [kind |-> "no trusted peer", fp |-> {}]
    [] cards # {} /\ chosen \cap known # {} ->
         [kind |-> "selected", fp |-> chosen]
    [] cards # {} /\ chosen # {} /\ chosen \cap known = {} ->
         [kind |-> "stale choice", fp |-> {}]
    [] chosen = {} /\ Unambiguous(cards) # {} ->
         [kind |-> "only trusted peer", fp |-> known]
    [] OTHER -> [kind |-> "must choose", fp |-> {}]

TargetPeer(cards, chosen) == {c \in cards : c.fp \in Resolve(cards, chosen).fp}

(***************************************************************************)
(* Actions: the set of the fingerprint they send to, empty when blocked.   *)
(***************************************************************************)

\* What every action asks first: a service, a destination, a live session.
Preconditions(s, cards, chosen) ==
  {c \in TargetPeer(cards, chosen) :
     Health(s) = "available" /\ c.link = "connected"}

FileAction(s, cards, chosen) ==
  {c.fp : c \in {e \in Preconditions(s, cards, chosen) : Usable(e.files)}}

PolicyEntry(report, card) ==
  Unambiguous({e \in report.peers : e.key = card.key})

MaySend(report, card) ==
  /\ report.enabled /\ report.backend_available
  /\ Usable(card.clipboard)
  /\ \E e \in PolicyEntry(report, card) : "send" \in e.flags

ClipboardAction(s, cards, chosen) ==
  {c.fp : c \in {e \in Preconditions(s, cards, chosen) :
                   \E report \in s.clipboard : MaySend(report, e)}}

(***************************************************************************)
(* Status rows.                                                            *)
(***************************************************************************)

OnOff(b) == IF b THEN "on" ELSE "off"

FilesStatus(s, peer) ==
  IF Health(s) # "available" \/ peer = {} THEN "unavailable"
  ELSE OnOff(\E c \in peer : Usable(c.files))

\* Without a policy entry a granted clipboard is "unavailable", not "off".
ClipboardStatus(s, peer) ==
  LET running == {r \in s.clipboard : r.enabled /\ r.backend_available}
      entries == UNION {PolicyEntry(r, c) : r \in running, c \in peer}
  IN IF Health(s) # "available" \/ running = {} \/ peer = {}
     THEN "unavailable"
     ELSE IF \A c \in peer : ~c.clipboard.granted THEN "off"
     ELSE IF entries = {} THEN "unavailable"
     ELSE OnOff(\E e \in entries : e.flags \cap {"send", "receive"} # {})

NotificationsStatus(s, peer) ==
  LET running == {r \in s.notifications : r.enabled /\ r.available}
      entries == UNION {PolicyEntry(r, c) : r \in running, c \in peer}
  IN IF Health(s) # "available" \/ running = {} \/ peer = {}
     THEN "unavailable"
     ELSE OnOff(\E e \in entries :
                  e.granted /\ ~e.revoked /\ "mirror" \in e.flags)

(***************************************************************************)
(* Transfers.                                                              *)
(***************************************************************************)

Terminal == {"completed", "failed", "cancelled"}

Transfers(s) == UNION s.transfers

\* The transfer in flight worth a line: the target's, or else any.
ActiveTransfer(s, peer) ==
  LET live  == {t \in Transfers(s) : t.state \notin Terminal}
      theirs == {t \in live : \E c \in peer : c.key = t.key}
  IN IF live = {} THEN {}
     ELSE LET t == CHOOSE u \in (IF theirs # {} THEN theirs ELSE live) : TRUE
          IN {[file |-> t.seq, key |-> t.key,
               outgoing |-> t.direction = "sending"]}

\* The failure token decides; without one, the state and the direction do.
Outcome(t) ==
  CASE "declined_by_user" \in t.failure -> "declined"
    [] "cancelled_by_user" \in t.failure -> "cancelled"
    [] "timed_out" \in t.failure -> "timed out"
    [] "transport" \in t.failure -> "disconnected"
    [] t.failure = {} /\ t.state = "completed" ->
         IF t.direction = "sending" THEN "sent" ELSE "received"
    [] t.failure = {} /\ t.state = "cancelled" -> "cancelled"
    [] OTHER -> "failed"

\* The newest finished ones, by the daemon's creation counter.  One whose
\* direction this build does not know is not named at all.
RecentTransfers(s) ==
  LET done == {t \in Transfers(s) : /\ t.state \in Terminal
                                    /\ t.direction \in {"sending", "receiving"}}
  IN {[seq |-> t.seq, key |-> t.key, direction |-> t.direction,
       outcome |-> Outcome(t)] :
        t \in {u \in done :
                 Cardinality({v \in done : v.seq > u.seq}) < RecentLimit}}

(***************************************************************************)
(* The panel, derived once per poll.                                       *)
(***************************************************************************)

Build(s, chosen) ==
  LET cards == PeerCards(s, chosen)
      peer  == TargetPeer(cards, chosen)
  IN [health         |-> Health(s),
      peers          |-> cards,
      target         |-> Resolve(cards, chosen),
      send_file      |-> FileAction(s, cards, chosen),
      send_clipboard |-> ClipboardAction(s, cards, chosen),
      files          |-> FilesStatus(s, peer),
      clipboard      |-> ClipboardStatus(s, peer),
      notifications  |-> NotificationsStatus(s, peer),
      transfer       |-> ActiveTransfer(s, peer),
      recent         |-> RecentTransfers(s)]
=============================================================================
