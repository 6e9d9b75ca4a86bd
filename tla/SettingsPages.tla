--------------------------- MODULE SettingsPages ---------------------------
(* The pages of the Settings window (gui/src/views) as functions of what    *)
(* the daemon last said and of the stored choice.  A page is a set of facts *)
(* it states and of controls that can be pressed.  Both are tuples: what,   *)
(* about which device (or transfer), which part of it, and its value.       *)
EXTENDS PanelModel

\* The controls that show a value; the others are buttons or facts.
Switches == {"grant", "clipboard", "mirror", "dismiss"}

\* The window's footer and status bar are drawn like a page.
Pages == {"dashboard", "files", "clipboard", "notifications", "devices",
          "peers", "settings", "frame"}

\* What a whole page says rather than one device's part of it.
Notice(words) == {<<"page", "this computer", words, "">>}

(***************************************************************************)
(* Dashboard: the devices that are not revoked, and one Send button whose  *)
(* destination is the Quick Panel's.                                       *)
(***************************************************************************)

\* The reading, whether it is the selected device, and what is granted.
DeviceCard(panel, d) ==
  {<<"device", d.fp, d.state, "">>}
  \cup {<<"battery", d.fp, OnOff(~b.stale), "">> : b \in d.battery}
  \cup {<<"allowed", d.fp, c, "">> : c \in d.granted}
  \cup (IF \E c \in panel.peers : c.fp = d.fp /\ c.selected
        THEN {<<"selected", d.fp, "", "">>} ELSE {<<"use", d.fp, "", "">>})

ActivityCard(s) == {<<"transfer", t.seq, t.state, "">> : t \in Transfers(s)}

QuickActionsCard(panel) == {<<"send file", fp, "", "">> : fp \in panel.send_file}

Dashboard(s, chosen) ==
  LET devices == {d \in Devices(s) : ~d.revoked}
      panel   == Build(s, chosen)
  IN IF s.error THEN Notice("not reachable")
     ELSE IF devices = {} THEN Notice("pair a device")
     ELSE (UNION {DeviceCard(panel, d) : d \in devices})
          \cup ActivityCard(s) \cup QuickActionsCard(panel)

(***************************************************************************)
(* Files.                                                                  *)
(***************************************************************************)

IsActive(t) == t.state \notin {"completed", "failed", "cancelled", "rejected"}

Files(s) ==
  {<<"transfer", t.seq, t.state, "">> : t \in Transfers(s)}
  \cup {<<"cancel", t.seq, "", "">> : t \in {u \in Transfers(s) : IsActive(u)}}

(***************************************************************************)
(* Clipboard.                                                              *)
(***************************************************************************)

SensitiveState(report) ==
  IF ~report.backend_available THEN "no clipboard"
  ELSE IF report.sensitive_available THEN "available" ELSE "not markable"

SendBlocked(e) == "send" \notin e.flags \/ ~e.connected

\* Sensitive to the pointer only when its direction is allowed at all.
Switchable(report, e) ==
  {"receive", "send"}
  \cup (IF "receive" \in e.flags THEN {"auto_receive"} ELSE {})
  \cup (IF "send" \in e.flags /\ report.watch_available
        THEN {"auto_send"} ELSE {})

ClipboardCard(report, e) ==
  {<<"clipboard of", e.key, OnOff(e.connected), OnOff(e.granted)>>}
  \cup (IF ~e.granted THEN {}
        ELSE {<<"clipboard", e.key, f, OnOff(f \in e.flags)>> :
                f \in Switchable(report, e)}
             \cup (IF SendBlocked(e) THEN {}
                   ELSE {<<"send clipboard", e.key, "", "">>}))

Clipboard(s) ==
  IF s.clipboard = {} THEN Notice("waiting")
  ELSE IF \E r \in s.clipboard : ~r.enabled THEN Notice("not registered")
  ELSE UNION {Notice(SensitiveState(r))
              \cup (UNION {ClipboardCard(r, e) : e \in r.peers})
              \cup {<<"copy", key, "", "">> : key \in r.pending} :
                r \in s.clipboard}

(***************************************************************************)
(* Notifications.                                                          *)
(***************************************************************************)

Readiness(e, available) ==
  CASE e.revoked -> "revoked"
    [] ~e.revoked /\ ~available -> "no backend"
    [] ~e.revoked /\ available /\ ~e.granted -> "not granted"
    [] OTHER -> IF "mirror" \notin e.flags THEN "paused"
                ELSE IF ~e.connected THEN "not connected"
                ELSE IF ~e.peer_is_source THEN "peer not sourcing"
                ELSE "ready"

DismissReadiness(e, reporting) ==
  IF ~ ({"dismiss", "mirror"} \subseteq e.flags) THEN "off"
  ELSE IF ~reporting THEN "no reporting"
  ELSE IF ~e.connected THEN "not connected"
  ELSE IF ~e.peer_is_dismiss_target THEN "peer cannot dismiss"
  ELSE "active"

\* Dismissal can be switched whatever stands in its way, which is said.
DismissSyncRow(e) ==
  <<"dismiss", e.key, DismissReadiness(e, e.reporting),
    OnOff("dismiss" \in e.flags)>>

LockPolicies == {"full", "app-only", "suppress"}

NotificationCard(report, e) ==
  {<<"notifications of", e.key, Readiness(e, report.available), "">>}
  \cup (IF e.revoked THEN {}
        ELSE {<<"grant", e.key, NOTIFICATIONS, OnOff(e.granted)>>})
  \cup (IF e.revoked \/ ~e.granted THEN {}
        ELSE {<<"mirror", e.key, "", OnOff("mirror" \in e.flags)>>,
              DismissSyncRow(e),
              <<"locked now", e.key, e.when_locked, "">>}
             \cup {<<"locked", e.key, policy, "">> :
                     policy \in LockPolicies \ {e.when_locked}})

Notifications(s) ==
  IF s.notifications = {} THEN Notice("waiting")
  ELSE IF \E r \in s.notifications : ~r.enabled THEN Notice("not registered")
  ELSE UNION {Notice(OnOff(r.available))
              \cup (UNION {NotificationCard(r, e) : e \in r.peers}) :
                r \in s.notifications}

(***************************************************************************)
(* Devices, trusted peers, settings.                                       *)
(***************************************************************************)

DevicesPage(s) ==
  {<<"device", d.fp, d.state, "">> : d \in Devices(s)}
  \cup (UNION {{<<"granted", d.fp, c, "">> : c \in d.granted} :
                 d \in Devices(s)})

Grantable == {CLIPBOARD, FILES, BATTERY}

\* A trusted device has its switches and Revoke.
TrustedCard(d) ==
  {<<"grant", d.key, c, OnOff(c \in d.granted)>> : c \in Grantable}
  \cup {<<"revoke", d.key, "", "">>}

\* A revoked device can only be removed from the list, alone or with others.
RevokedCard(d, revoked) ==
  {<<"remove", d.fp, "", "">>}
  \cup (IF Cardinality(revoked) > 1 THEN {<<"remove all", d.fp, "", "">>} ELSE {})

PeersPage(s) ==
  LET revoked == {d \in Devices(s) : d.revoked}
  IN (UNION {TrustedCard(d) : d \in Devices(s) \ revoked})
     \cup (UNION {RevokedCard(d, revoked) : d \in revoked})

SettingsPage(s) ==
  IF s.status = {} THEN Notice("not reachable")
  ELSE {<<"sessions", c.key, "", "">> :
          c \in UNION {r.connections : r \in s.status}}

Frame(s) ==
  Notice(IF ~s.error /\ s.status # {} THEN "secure connection"
         ELSE "daemon not reachable")

Draw(page, s, chosen) ==
  CASE page = "dashboard" -> Dashboard(s, chosen)
    [] page = "files" -> Files(s)
    [] page = "clipboard" -> Clipboard(s)
    [] page = "notifications" -> Notifications(s)
    [] page = "devices" -> DevicesPage(s)
    [] page = "peers" -> PeersPage(s)
    [] page = "frame" -> Frame(s)
    [] OTHER -> SettingsPage(s)

\* Mutant: one page is redrawn with the others.
SlicesOfStatus(page) ==
  IF page = "dashboard" THEN {"status", "transfers", "error"}
  ELSE IF page = "files" THEN {"transfers"} ELSE {"status"}

\* The parts of the daemon's answer whose change redraws a page.  The list
\* of devices is not among them.
Slices(page) ==
  CASE page = "dashboard" -> {"status", "transfers", "error"}
    [] page = "files" -> {"transfers"}
    [] page = "clipboard" -> {"clipboard"}
    [] page = "notifications" -> {"notifications"}
    [] page = "frame" -> {"status", "error"}
    [] OTHER -> {"status"}
=============================================================================
