-------------------------- MODULE DesktopAppProofs --------------------------
(* DesktopApp for any number of devices, transfers, presses and polls, and  *)
(* any order of replies: what the windows show, where files are sent, what  *)
(* a poll commits and how the choice of device changes.                     *)
EXTENDS DesktopApp, FiniteSetTheorems, TLAPS

(***************************************************************************)
(* The pages as functions of what they are drawn from.                     *)
(***************************************************************************)

\* A page looks only at its own slices and, some of them, at the list of
\* devices (Pages::render redraws it when one of these differs).
LEMMA PagesAreSlices ==
  ASSUME NEW page \in Pages, NEW s, NEW t, NEW chosen,
         \A k \in Slices(page) : s[k] = t[k],
         page \in {"dashboard", "devices", "peers"} => s.devices = t.devices
  PROVE  Draw(page, s, chosen) = Draw(page, t, chosen)
<1>1. CASE page = "dashboard"
  <2>1. /\ s.status = t.status /\ s.transfers = t.transfers /\ s.error = t.error
        /\ s.devices = t.devices
      BY <1>1 DEF Slices
  <2>2. Devices(s) = Devices(t) /\ Health(s) = Health(t) /\ Transfers(s) = Transfers(t)
      BY Zenon, <2>1 DEF Devices, Health, Transfers
  <2>3. PeerCards(s, chosen) = PeerCards(t, chosen)
    <3>1. \A d : Negotiated(s, d) = Negotiated(t, d)
        BY Zenon, <2>1 DEF Negotiated, ConnectionFor
    <3>2. \A d : BatteryOf(s, d) = BatteryOf(t, d) /\ \A id : Capability(s, d, id) = Capability(t, d, id)
        BY <3>1 DEF BatteryOf, Capability
    <3>3. \A d : PeerCard(s, chosen, d) = PeerCard(t, chosen, d)
        BY Zenon, <3>2 DEF PeerCard
    <3> QED
        BY Zenon, <2>2, <3>3 DEF PeerCards
  <2>4. \A cards : FileAction(s, cards, chosen) = FileAction(t, cards, chosen)
      BY Zenon, <2>2 DEF FileAction, Preconditions
  <2>5. /\ Build(s, chosen).peers = Build(t, chosen).peers
        /\ Build(s, chosen).send_file = Build(t, chosen).send_file
      BY <2>3, <2>4 DEF Build
  <2>6. \A d : DeviceCard(Build(s, chosen), d) = DeviceCard(Build(t, chosen), d)
      BY Zenon, <2>5 DEF DeviceCard
  <2>7. ActivityCard(s) = ActivityCard(t)
      BY Zenon, <2>2 DEF ActivityCard
  <2>8. QuickActionsCard(Build(s, chosen)) = QuickActionsCard(Build(t, chosen))
      BY Zenon, <2>5 DEF QuickActionsCard
  <2>9. Dashboard(s, chosen) = Dashboard(t, chosen)
      BY Zenon, <2>1, <2>2, <2>6, <2>7, <2>8 DEF Dashboard
  <2> QED
      BY <1>1, <2>9 DEF Draw
<1>2. CASE page = "files"
  <2>1. s.transfers = t.transfers
      BY <1>2 DEF Slices
  <2> QED
      BY <1>2, <2>1 DEF Draw, Files, Transfers
<1>3. CASE page = "clipboard"
  <2>1. s.clipboard = t.clipboard
      BY <1>3 DEF Slices
  <2>2. Clipboard(s) = Clipboard(t)
      BY Zenon, <2>1 DEF Clipboard
  <2> QED
      BY <1>3, <2>2 DEF Draw
<1>4. CASE page = "notifications"
  <2>1. s.notifications = t.notifications
      BY <1>4 DEF Slices
  <2>2. Notifications(s) = Notifications(t)
      BY Zenon, <2>1 DEF Notifications
  <2> QED
      BY <1>4, <2>2 DEF Draw
<1>5. CASE page \in {"devices", "peers"}
  <2>1. s.status = t.status /\ s.devices = t.devices
      BY <1>5 DEF Slices
  <2>2. Devices(s) = Devices(t)
      BY Zenon, <2>1 DEF Devices
  <2>3. DevicesPage(s) = DevicesPage(t) /\ PeersPage(s) = PeersPage(t)
      BY Zenon, <2>2 DEF DevicesPage, PeersPage
  <2> QED
      BY <1>5, <2>3 DEF Draw
<1>6. CASE page = "settings"
  <2>1. s.status = t.status
      BY <1>6 DEF Slices
  <2>2. SettingsPage(s) = SettingsPage(t)
      BY Zenon, <2>1 DEF SettingsPage
  <2> QED
      BY <1>6, <2>2 DEF Draw
<1>7. CASE page = "frame"
  <2>1. s.status = t.status /\ s.error = t.error
      BY <1>7 DEF Slices
  <2>2. Frame(s) = Frame(t)
      BY Zenon, <2>1 DEF Frame
  <2> QED
      BY <1>7, <2>2 DEF Draw
<1> QED
    BY Zenon, <1>1, <1>2, <1>3, <1>4, <1>5, <1>6, <1>7 DEF Pages

\* Only the dashboard looks at the chosen device.
LEMMA ChoiceIsOnDashboard ==
  ASSUME NEW page \in Pages \ {"dashboard"}, NEW s, NEW chosen, NEW other
  PROVE  Draw(page, s, chosen) = Draw(page, s, other)
    BY DEF Draw, Pages

(***************************************************************************)
(* What stands on a page.                                                  *)
(***************************************************************************)

Words == {"page", "device", "battery", "allowed", "selected", "transfer", "cancel",
          "clipboard of", "clipboard", "send clipboard", "copy", "notifications of",
          "grant", "mirror", "dismiss", "locked now", "locked", "granted", "revoke",
          "remove", "remove all", "sessions"}

Plain(c) == \E a \in Words : \E b, d, e : c = <<a, b, d, e>>

\* Everything but the two is plain.
LEMMA PlainIsControl ==
  ASSUME NEW c, Plain(c), NEW chosen
  PROVE  Control(c, chosen)
<1>1. PICK a \in Words : \E b, d, e : c = <<a, b, d, e>>
    BY Zenon DEF Plain
<1>2. PICK b, d, e : c = <<a, b, d, e>>
    BY Zenon, <1>1
<1>3. a # "send file" /\ a # "use"
    BY Zenon DEF Words
<1>4. c[1] = a /\ c[2] = b /\ c[3] = d /\ c[4] = e
    BY Zenon, <1>2
<1> QED
    BY Zenon, <1>2, <1>3, <1>4 DEF Control

\* One word at a time.
LEMMA WordIsPlain ==
  ASSUME NEW a \in Words, NEW b, NEW d, NEW e
  PROVE  Plain(<<a, b, d, e>>)
    BY Zenon DEF Plain

LEMMA NoticeIsPlain ==
  ASSUME NEW w, NEW c \in Notice(w)
  PROVE  Plain(c)
    BY Zenon, WordIsPlain DEF Notice, Words

\* Files, Clipboard, Notifications, Devices, Trusted peers, Settings, frame.
LEMMA OtherPagesArePlain ==
  ASSUME NEW page \in Pages \ {"dashboard"}, NEW s, NEW chosen, NEW c \in Draw(page, s, chosen)
  PROVE  Plain(c)
<1>1. \A x \in Files(s) : Plain(x)
  <2>1. /\ \A u, v, w : Plain(<<"transfer", u, v, w>>)
        /\ \A u, v, w : Plain(<<"cancel", u, v, w>>)
      BY Zenon, WordIsPlain DEF Words
  <2> QED
      BY Zenon, <2>1 DEF Files
<1>2. \A x \in Clipboard(s) : Plain(x)
  <2>1. /\ \A u, v, w : Plain(<<"clipboard of", u, v, w>>)
        /\ \A u, v, w : Plain(<<"clipboard", u, v, w>>)
        /\ \A u, v, w : Plain(<<"send clipboard", u, v, w>>)
        /\ \A u, v, w : Plain(<<"copy", u, v, w>>)
      BY Zenon, WordIsPlain DEF Words
  <2>2. ASSUME NEW r, NEW e, NEW x \in ClipboardCard(r, e) PROVE Plain(x)
    <3>1. \/ x = <<"clipboard of", e.key, OnOff(e.connected), OnOff(e.granted)>>
          \/ \E f \in Switchable(r, e) : x = <<"clipboard", e.key, f, OnOff(f \in e.flags)>>
          \/ x = <<"send clipboard", e.key, "", "">>
        BY Zenon, <2>2 DEF ClipboardCard
    <3> QED
        BY Zenon, <2>1, <3>1
  <2>3. ASSUME NEW x \in Clipboard(s) PROVE Plain(x)
    <3>1. CASE s.clipboard = {} \/ \E r \in s.clipboard : ~r.enabled
        BY Zenon, <2>3, <3>1, NoticeIsPlain DEF Clipboard
    <3>2. CASE ~ (s.clipboard = {} \/ \E r \in s.clipboard : ~r.enabled)
      <4>1. PICK r \in s.clipboard :
              x \in Notice(SensitiveState(r)) \cup (UNION {ClipboardCard(r, e) : e \in r.peers})
                    \cup {<<"copy", key, "", "">> : key \in r.pending}
          BY Zenon, <2>3, <3>2 DEF Clipboard
      <4>2. CASE x \in Notice(SensitiveState(r))
          BY Zenon, <4>2, NoticeIsPlain
      <4>3. CASE x \in UNION {ClipboardCard(r, e) : e \in r.peers}
          BY Zenon, <2>2, <4>3
      <4>4. CASE x \in {<<"copy", key, "", "">> : key \in r.pending}
          BY Zenon, <2>1, <4>4
      <4> QED
          BY Zenon, <4>1, <4>2, <4>3, <4>4
    <3> QED
        BY Zenon, <3>1, <3>2
  <2> QED
      BY Zenon, <2>3
<1>3. \A x \in Notifications(s) : Plain(x)
  <2>1. /\ \A u, v, w : Plain(<<"notifications of", u, v, w>>)
        /\ \A u, v, w : Plain(<<"grant", u, v, w>>)
        /\ \A u, v, w : Plain(<<"mirror", u, v, w>>)
        /\ \A u, v, w : Plain(<<"dismiss", u, v, w>>)
        /\ \A u, v, w : Plain(<<"locked now", u, v, w>>)
        /\ \A u, v, w : Plain(<<"locked", u, v, w>>)
      BY Zenon, WordIsPlain DEF Words
  <2>2. ASSUME NEW r, NEW e, NEW x \in NotificationCard(r, e) PROVE Plain(x)
    <3>1. \/ x = <<"notifications of", e.key, Readiness(e, r.available), "">>
          \/ x = <<"grant", e.key, NOTIFICATIONS, OnOff(e.granted)>>
          \/ x = <<"mirror", e.key, "", OnOff("mirror" \in e.flags)>>
          \/ x = DismissSyncRow(e)
          \/ x = <<"locked now", e.key, e.when_locked, "">>
          \/ \E policy : x = <<"locked", e.key, policy, "">>
        BY Zenon, <2>2 DEF NotificationCard
    <3> QED
        BY Zenon, <2>1, <3>1 DEF DismissSyncRow
  <2>3. ASSUME NEW x \in Notifications(s) PROVE Plain(x)
    <3>1. CASE s.notifications = {} \/ \E r \in s.notifications : ~r.enabled
        BY Zenon, <2>3, <3>1, NoticeIsPlain DEF Notifications
    <3>2. CASE ~ (s.notifications = {} \/ \E r \in s.notifications : ~r.enabled)
      <4>1. PICK r \in s.notifications :
              x \in Notice(OnOff(r.available)) \cup (UNION {NotificationCard(r, e) : e \in r.peers})
          BY Zenon, <2>3, <3>2 DEF Notifications
      <4>2. CASE x \in UNION {NotificationCard(r, e) : e \in r.peers}
          BY Zenon, <2>2, <4>2
      <4> QED
          BY Zenon, <4>1, <4>2, NoticeIsPlain
    <3> QED
        BY Zenon, <3>1, <3>2
  <2> QED
      BY Zenon, <2>3
<1>4. \A x \in DevicesPage(s) : Plain(x)
  <2>1. /\ \A u, v, w : Plain(<<"device", u, v, w>>)
        /\ \A u, v, w : Plain(<<"granted", u, v, w>>)
      BY Zenon, WordIsPlain DEF Words
  <2>2. ASSUME NEW x \in DevicesPage(s) PROVE Plain(x)
    <3>1. (\E d : x = <<"device", d.fp, d.state, "">>) \/ \E d, c1 : x = <<"granted", d.fp, c1, "">>
        BY Zenon, <2>2 DEF DevicesPage
    <3> QED
        BY Zenon, <2>1, <3>1
  <2> QED
      BY Zenon, <2>2
<1>5. \A x \in PeersPage(s) : Plain(x)
  <2>1. /\ \A u, v, w : Plain(<<"grant", u, v, w>>)
        /\ \A u, v, w : Plain(<<"revoke", u, v, w>>)
        /\ \A u, v, w : Plain(<<"remove", u, v, w>>)
        /\ \A u, v, w : Plain(<<"remove all", u, v, w>>)
      BY Zenon, WordIsPlain DEF Words
  <2>2. ASSUME NEW x \in PeersPage(s) PROVE Plain(x)
    <3>1. ASSUME NEW d, x \in TrustedCard(d) PROVE Plain(x)
        BY Zenon, <2>1, <3>1 DEF TrustedCard
    <3>2. ASSUME NEW d, NEW r, x \in RevokedCard(d, r) PROVE Plain(x)
      <4>1. x = <<"remove", d.fp, "", "">> \/ x = <<"remove all", d.fp, "", "">>
          BY Zenon, <3>2 DEF RevokedCard
      <4> QED
          BY Zenon, <2>1, <4>1
    <3> QED
        BY Zenon, <2>2, <3>1, <3>2 DEF PeersPage
  <2> QED
      BY Zenon, <2>2
<1>6. \A x \in SettingsPage(s) : Plain(x)
  <2>1. \A u, v, w : Plain(<<"sessions", u, v, w>>)
      BY Zenon, WordIsPlain DEF Words
  <2>2. CASE s.status = {}
      BY Zenon, <2>2, NoticeIsPlain DEF SettingsPage
  <2>3. CASE s.status # {}
      BY Zenon, <2>1, <2>3 DEF SettingsPage
  <2> QED
      BY Zenon, <2>2, <2>3
<1>7. \A x \in Frame(s) : Plain(x)
    BY Zenon, NoticeIsPlain DEF Frame
<1>8. \/ c \in Files(s) \/ c \in Clipboard(s) \/ c \in Notifications(s) \/ c \in DevicesPage(s)
      \/ c \in PeersPage(s) \/ c \in Frame(s) \/ c \in SettingsPage(s)
    BY DEF Draw, Pages
<1> QED
    BY Zenon, <1>1, <1>2, <1>3, <1>4, <1>5, <1>6, <1>7, <1>8

\* A choice is the destination or there is none (model.rs, resolve).
LEMMA ChoiceIsDestination ==
  ASSUME NEW s, NEW chosen, chosen # {}
  PROVE  /\ Build(s, chosen).send_file \subseteq chosen
         /\ Build(s, chosen).send_clipboard \subseteq chosen
<1> DEFINE cards == PeerCards(s, chosen)
<1>1. ASSUME NEW c \in TargetPeer(cards, chosen) PROVE c.fp \in chosen
  <2>1. c \in cards /\ c.fp \in Resolve(cards, chosen).fp
      BY Zenon, <1>1 DEF TargetPeer
  <2> HIDE DEF cards
  <2>2. cards # {}
      BY Zenon, <2>1
  <2>3. Resolve(cards, chosen).fp = chosen \/ Resolve(cards, chosen).fp = {}
      BY <2>2 DEF Resolve
  <2> QED
      BY Zenon, <2>1, <2>3
<1> HIDE DEF cards
<1>2. FileAction(s, cards, chosen) \subseteq chosen /\ ClipboardAction(s, cards, chosen) \subseteq chosen
    BY Zenon, <1>1 DEF FileAction, ClipboardAction, Preconditions
<1> QED
    BY <1>2 DEF Build, cards

\* Every control of every page, as drawn.
LEMMA DrawnAsChosen ==
  ASSUME NEW page \in Pages, NEW s, NEW chosen, NEW c \in Draw(page, s, chosen)
  PROVE  Control(c, chosen)
<1>1. CASE page # "dashboard"
    BY Zenon, <1>1, OtherPagesArePlain, PlainIsControl
<1>2. CASE page = "dashboard"
  <2>1. c \in Dashboard(s, chosen)
      BY <1>2 DEF Draw
  <2>2. \/ Plain(c)
        \/ \E d : c = <<"use", d.fp, "", "">>
        \/ \E fp \in Build(s, chosen).send_file : c = <<"send file", fp, "", "">>
    <3>1. ASSUME NEW d, NEW x \in DeviceCard(Build(s, chosen), d)
          PROVE  Plain(x) \/ x = <<"use", d.fp, "", "">>
      <4>1. /\ \A u, v, w : Plain(<<"device", u, v, w>>)
            /\ \A u, v, w : Plain(<<"battery", u, v, w>>)
            /\ \A u, v, w : Plain(<<"allowed", u, v, w>>)
            /\ \A u, v, w : Plain(<<"selected", u, v, w>>)
          BY Zenon, WordIsPlain DEF Words
      <4>2. \/ x = <<"device", d.fp, d.state, "">>
            \/ \E b : x = <<"battery", d.fp, OnOff(~b.stale), "">>
            \/ \E c1 : x = <<"allowed", d.fp, c1, "">>
            \/ x = <<"selected", d.fp, "", "">> \/ x = <<"use", d.fp, "", "">>
          BY Zenon, <3>1 DEF DeviceCard
      <4> QED
          BY Zenon, <4>1, <4>2
    <3>2. \A x \in ActivityCard(s) : Plain(x)
        BY Zenon, WordIsPlain DEF ActivityCard, Words
    <3> DEFINE devices == {d \in Devices(s) : ~d.revoked}
               cards == UNION {DeviceCard(Build(s, chosen), d) : d \in devices}
    <3>3. \/ Dashboard(s, chosen) = Notice("not reachable")
          \/ Dashboard(s, chosen) = Notice("pair a device")
          \/ Dashboard(s, chosen) = cards \cup ActivityCard(s) \cup QuickActionsCard(Build(s, chosen))
      <4>1. CASE s.error
          BY Zenon, <4>1 DEF Dashboard
      <4>2. CASE ~s.error /\ devices = {}
          BY Zenon, <4>2 DEF Dashboard
      <4>3. CASE ~s.error /\ devices # {}
          BY Zenon, <4>3 DEF Dashboard
      <4> QED
          BY Zenon, <4>1, <4>2, <4>3
    <3>4. c \in cards => Plain(c) \/ \E d : c = <<"use", d.fp, "", "">>
        BY Zenon, <3>1
    <3>5. c \in QuickActionsCard(Build(s, chosen)) =>
            \E fp \in Build(s, chosen).send_file : c = <<"send file", fp, "", "">>
        BY Zenon DEF QuickActionsCard
    <3> HIDE DEF cards
    <3> QED
        BY Zenon, <2>1, <3>2, <3>3, <3>4, <3>5, NoticeIsPlain
  <2>3. ASSUME NEW fp, c = <<"use", fp, "", "">> PROVE Control(c, chosen)
      BY Zenon, <2>3 DEF Control
  <2>4. ASSUME NEW fp \in Build(s, chosen).send_file, c = <<"send file", fp, "", "">>
        PROVE  Control(c, chosen)
    <3>1. c[1] = "send file" /\ c[2] = fp /\ c = <<c[1], c[2], c[3], c[4]>>
        BY Zenon, <2>4
    <3>2. c[1] # "use"
        BY Zenon, <3>1
    <3> QED
        BY Zenon, <2>4, <3>1, <3>2, ChoiceIsDestination DEF Control
  <2> QED
      BY Zenon, <2>2, <2>3, <2>4, PlainIsControl
<1> QED
    BY Zenon, <1>1, <1>2

(***************************************************************************)
(* Drawing keeps the windows right.                                        *)
(***************************************************************************)

\* A panel and pages drawn anew.
LEMMA DrawnAnew ==
  ASSUME NEW s, NEW chosen
  PROVE  /\ chosen # {} => /\ Build(s, chosen).send_file \subseteq chosen
                           /\ Build(s, chosen).send_clipboard \subseteq chosen
         /\ DrawAll(s, chosen) = [page \in Pages |-> DrawAll(s, chosen)[page]]
         /\ \A page \in Pages : /\ DrawAll(s, chosen)[page] = Draw(page, s, chosen)
                                /\ \A c \in DrawAll(s, chosen)[page] : Control(c, chosen)
<1>1. \A page \in Pages : DrawAll(s, chosen)[page] = Draw(page, s, chosen)
    BY Zenon DEF DrawAll
<1>2. DrawAll(s, chosen) = [page \in Pages |-> DrawAll(s, chosen)[page]]
    BY Zenon DEF DrawAll
<1> QED
    BY Zenon, <1>1, <1>2, ChoiceIsDestination, DrawnAsChosen

\* Nothing that a window shows, or that it is drawn from, changes.
LEMMA WindowsRest ==
  ASSUME WindowsHold, UNCHANGED <<state, panel, pages, lagging>>, choice'.now = choice.now
  PROVE  WindowsHold'
    BY Zenon DEF WindowsHold, WindowsShowState

\* redraw_panel.
LEMMA RedrawHolds ==
  ASSUME Redraw(state, choice'.now), state' = state
  PROVE  WindowsHold'
<1>1. /\ \A m \in panel' : m = Build(state', choice'.now)
      /\ \A shown \in pages' : shown = DrawAll(state', choice'.now)
    BY Zenon DEF Redraw
<1>2. ASSUME NEW m \in panel'
      PROVE  /\ m = Build(state', choice'.now)
             /\ choice'.now # {} => /\ m.send_file \subseteq choice'.now
                                    /\ m.send_clipboard \subseteq choice'.now
    BY Zenon, <1>1, DrawnAnew
<1>3. ASSUME NEW shown \in pages'
      PROVE  /\ shown = [page \in Pages |-> shown[page]]
             /\ \A page \in Pages : shown[page] = Draw(page, state', choice'.now)
             /\ \A page \in Pages : \A c \in shown[page] : Control(c, choice'.now)
  <2> DEFINE all == DrawAll(state', choice'.now)
  <2>1. /\ all = [page \in Pages |-> all[page]]
        /\ \A page \in Pages : /\ all[page] = Draw(page, state', choice'.now)
                               /\ \A c \in all[page] : Control(c, choice'.now)
      BY DrawnAnew
  <2>2. shown = all
      BY Zenon, <1>1
  <2> HIDE DEF all
  <2> QED
      BY Zenon, <2>1, <2>2
<1> QED
    BY Zenon, <1>2, <1>3 DEF WindowsHold, WindowsShowState

\* What render leaves alone on a page has not changed, or the page is lagging.
LEMMA KeptPageIsCurrent ==
  ASSUME NEW s, NEW moved \in BOOLEAN, NEW page \in Pages, page \notin Redrawn(s, moved),
         s.devices # state.devices => page \notin {"dashboard", "devices", "peers"}
  PROVE  Draw(page, state, choice.now) = Draw(page, s, choice.now)
<1>1. Slices(page) \cap Changed(state, s, moved) = {}
    BY Zenon DEF Redrawn
<1>2. Slices(page) \subseteq (Kinds \ {"devices"}) \cup {"error"}
    BY DEF Slices, Kinds, Pages
<1>3. \A k \in Slices(page) : state[k] = s[k]
  <2>1. \A k \in Kinds \ {"devices"} : state[k] # s[k] => k \in Changed(state, s, moved)
      BY Zenon DEF Changed
  <2>2. state.error # s.error => "error" \in Changed(state, s, moved)
      BY Zenon DEF Changed
  <2> QED
      BY Zenon, <1>1, <1>2, <2>1, <2>2
<1>4. page \in {"dashboard", "devices", "peers"} => state.devices = s.devices
    BY Zenon
<1> QED
    BY <1>3, <1>4, PagesAreSlices

\* render, at the commit of a poll.
LEMMA RenderHolds ==
  ASSUME AppInv, NEW s, NEW moved \in BOOLEAN, Render(s, Redrawn(s, moved)), state' = s,
         choice' = choice
  PROVE  WindowsHold'
<1> DEFINE redrawn == Redrawn(s, moved)
<1>1. /\ panel' = {Build(s, choice.now) : x \in panel}
      /\ pages' = {[page \in Pages |->
                     IF page \in redrawn THEN Draw(page, s, choice.now)
                     ELSE shown[page]] : shown \in pages}
      /\ lagging' = (lagging \ (redrawn \cup {"panel"}))
                    \cup (IF s.devices # state.devices
                          THEN {"dashboard", "devices", "peers"} \ redrawn
                          ELSE {})
    BY Zenon DEF Render
<1>2. WindowsHold /\ "panel" \notin Pages
    BY DEF AppInv, Pages
<1>3. ASSUME NEW page \in Pages, page \notin redrawn
      PROVE  Draw(page, state, choice.now) = Draw(page, s, choice.now) \/ page \in lagging'
    BY Zenon, <1>1, <1>3, KeptPageIsCurrent
<1>4. \A page \in Pages : page \in lagging /\ page \notin redrawn => page \in lagging'
    BY Zenon, <1>1, <1>2
<1> HIDE DEF redrawn
<1>5. \A m \in panel' : m = Build(s, choice.now)
    BY Zenon, <1>1
<1>6. ASSUME NEW sheet \in pages'
      PROVE  /\ sheet = [page \in Pages |-> sheet[page]]
             /\ \A page \in Pages : \A c \in sheet[page] : Control(c, choice.now)
             /\ \A page \in Pages \ lagging' : sheet[page] = Draw(page, s, choice.now)
  <2>1. PICK shown \in pages :
          sheet = [page \in Pages |-> IF page \in redrawn THEN Draw(page, s, choice.now)
                                      ELSE shown[page]]
      BY Zenon, <1>1
  <2>2. \A page \in Pages :
          sheet[page] = IF page \in redrawn THEN Draw(page, s, choice.now) ELSE shown[page]
      BY Zenon, <2>1
  <2>3. sheet = [page \in Pages |-> sheet[page]]
      BY Zenon, <2>1
  <2>4. ASSUME NEW page \in Pages PROVE \A c \in sheet[page] : Control(c, choice.now)
    <3>1. CASE page \in redrawn
      <4>1. sheet[page] = Draw(page, s, choice.now)
          BY Zenon, <2>2, <3>1
      <4> QED
          BY Zenon, <4>1, DrawnAsChosen
    <3>2. CASE page \notin redrawn
      <4>1. sheet[page] = shown[page]
          BY Zenon, <2>2, <3>2
      <4> QED
          BY Zenon, <1>2, <4>1 DEF WindowsHold
    <3> QED
        BY Zenon, <3>1, <3>2
  <2>5. ASSUME NEW page \in Pages \ lagging' PROVE sheet[page] = Draw(page, s, choice.now)
    <3>1. CASE page \in redrawn
        BY Zenon, <2>2, <3>1
    <3>2. CASE page \notin redrawn
      <4>1. page \in Pages \ lagging
          BY Zenon, <1>4, <3>2
      <4>2. shown[page] = Draw(page, state, choice.now)
          BY Zenon, <1>2, <4>1 DEF WindowsHold, WindowsShowState
      <4> QED
          BY Zenon, <1>3, <2>2, <3>2, <4>2
    <3> QED
        BY Zenon, <3>1, <3>2
  <2> QED
      BY Zenon, <2>3, <2>4, <2>5
<1> QED
    BY Zenon, <1>5, <1>6, DrawnAnew DEF WindowsHold, WindowsShowState

(***************************************************************************)
(* Presses and requests.                                                   *)
(***************************************************************************)

\* A press is aimed as the control that was pressed.
LEMMA PressIsAimed ==
  ASSUME NEW from, NEW r, NEW removes,
         (r[1] = "send file" \/ from = "panel") /\ choice.now # {} => r[2] \in choice.now
  PROVE  Aimed(Press(from, r, removes))
    BY Zenon DEF Aimed, Press

\* A request stays aimed on its way.
LEMMA StaysAimed ==
  ASSUME NEW c, Aimed(c)
  PROVE  /\ \A v : Aimed([c EXCEPT !.at = v])
         /\ \A v : v # "panel" \/ v = c.from => Aimed([c EXCEPT !.from = v])
<1>1. c = [n |-> c.n, from |-> c.from, r |-> c.r, removes |-> c.removes,
           chosen |-> c.chosen, at |-> c.at]
    BY Zenon DEF Aimed
<1>2. ASSUME NEW v
      PROVE  /\ [c EXCEPT !.at = v] = [n |-> c.n, from |-> c.from, r |-> c.r,
                                       removes |-> c.removes, chosen |-> c.chosen, at |-> v]
             /\ [c EXCEPT !.from = v] = [n |-> c.n, from |-> v, r |-> c.r,
                                       removes |-> c.removes, chosen |-> c.chosen, at |-> c.at]
    BY <1>1
<1>3. ASSUME NEW v PROVE Aimed([c EXCEPT !.at = v])
  <2> DEFINE e == [n |-> c.n, from |-> c.from, r |-> c.r,
                   removes |-> c.removes, chosen |-> c.chosen, at |-> v]
  <2>1. Aimed(e)
      BY Zenon DEF Aimed
  <2> QED
      BY Zenon, <1>2, <2>1
<1>4. ASSUME NEW v, v # "panel" \/ v = c.from PROVE Aimed([c EXCEPT !.from = v])
  <2> DEFINE e == [n |-> c.n, from |-> v, r |-> c.r,
                   removes |-> c.removes, chosen |-> c.chosen, at |-> c.at]
  <2>1. Aimed(e)
      BY Zenon, <1>4 DEF Aimed
  <2> QED
      BY Zenon, <1>2, <2>1
<1> QED
    BY Zenon, <1>3, <1>4

\* Steps that draw nothing and choose nothing keep the invariant if they keep
\* the requests aimed.
LEMMA NothingDrawn ==
  ASSUME AppInv, UNCHANGED <<state, choice, panel, pages, lagging>>,
         \A c \in dialogs' \cup calls' : Aimed(c)
  PROVE  AppInv'
<1>1. choice'.now = choice.now /\ WindowsHold'
    BY Zenon, WindowsRest DEF AppInv
<1> QED
    BY Zenon, <1>1 DEF AppInv, Aimed

\* A control that can be pressed is on its page.
LEMMA ShownIsOnPage ==
  ASSUME NEW page, NEW c \in Shown(page)
  PROVE  \E shown \in pages : c \in shown[page]
<1>1. Shown(page) \subseteq UNION {shown[page] : shown \in pages}
  <2>1. CASE \A x \in dialogs : x.from # "settings"
      BY Zenon, <2>1 DEF Shown
  <2>2. CASE ~ (\A x \in dialogs : x.from # "settings")
      BY Zenon, <2>2 DEF Shown
  <2> QED
      BY Zenon, <2>1, <2>2
<1> QED
    BY Zenon, <1>1

\* And what every control of a page is.
LEMMA ShownIsControl ==
  ASSUME AppInv, NEW page \in Pages, NEW c \in Shown(page)
  PROVE  Control(c, choice.now)
    BY Zenon, ShownIsOnPage DEF AppInv, WindowsHold

\* PressButton, OpenDialog and the two actions of the panel.
LEMMA PressInv ==
  ASSUME AppInv,
         \/ SendFileInPanel \/ SendClipboardInPanel
         \/ \E page \in Pages : \E c \in Shown(page) : PressButton(page, c) \/ OpenDialog(page, c)
  PROVE  AppInv'
<1>1. UNCHANGED <<state, choice, panel, pages, lagging>>
    BY Zenon DEF SendFileInPanel, SendClipboardInPanel, PressButton, OpenDialog
<1>2. WindowsHold /\ \A c \in dialogs \cup calls : Aimed(c)
    BY Zenon DEF AppInv
<1>3. CASE SendFileInPanel
  <2>1. PICK m \in panel : \E fp \in m.send_file :
          dialogs' = dialogs \cup {Press("panel", <<"send file", fp, "", "">>, {})}
      BY Zenon, <1>3 DEF SendFileInPanel
  <2> PICK fp \in m.send_file :
        dialogs' = dialogs \cup {Press("panel", <<"send file", fp, "", "">>, {})}
      BY Zenon, <2>1
  <2>2. choice.now # {} => <<"send file", fp, "", "">>[2] \in choice.now
      BY Zenon, <1>2 DEF WindowsHold
  <2>3. Aimed(Press("panel", <<"send file", fp, "", "">>, {})) /\ calls' = calls
      BY Zenon, <1>3, <2>2, PressIsAimed DEF SendFileInPanel
  <2> QED
      BY Zenon, <1>1, <1>2, <2>3, NothingDrawn
<1>4. CASE SendClipboardInPanel
  <2>1. PICK m \in panel : \E fp \in m.send_clipboard :
          calls' = calls \cup {Press("panel", <<"send clipboard", fp, "", "">>, {})}
      BY Zenon, <1>4 DEF SendClipboardInPanel
  <2> PICK fp \in m.send_clipboard :
        calls' = calls \cup {Press("panel", <<"send clipboard", fp, "", "">>, {})}
      BY Zenon, <2>1
  <2>2. choice.now # {} => <<"send clipboard", fp, "", "">>[2] \in choice.now
      BY Zenon, <1>2 DEF WindowsHold
  <2>3. Aimed(Press("panel", <<"send clipboard", fp, "", "">>, {})) /\ dialogs' = dialogs
      BY Zenon, <1>4, <2>2, PressIsAimed DEF SendClipboardInPanel
  <2> QED
      BY Zenon, <1>1, <1>2, <2>3, NothingDrawn
<1>5. ASSUME NEW page \in Pages, NEW c \in Shown(page), PressButton(page, c) \/ OpenDialog(page, c)
      PROVE  AppInv'
  <2>1. ASSUME NEW removes PROVE Aimed(Press("settings", c, removes))
    <3>1. "settings" # "panel"
        OBVIOUS
    <3>2. c[1] = "send file" /\ choice.now # {} => c[2] \in choice.now
        BY Zenon, ShownIsControl DEF Control
    <3> QED
        BY Zenon, <3>1, <3>2, PressIsAimed
  <2>2. \/ calls' = calls \cup {Press("settings", c, {})} /\ dialogs' = dialogs
        \/ dialogs' = dialogs \cup {Press("settings", c, Removes(page, c))} /\ calls' = calls
      BY Zenon, <1>5 DEF PressButton, OpenDialog
  <2> QED
      BY Zenon, <1>1, <1>2, <2>1, <2>2, NothingDrawn
<1> QED
    BY Zenon, <1>3, <1>4, <1>5

\* A dialog is answered; the daemon serves a request or refuses it.
LEMMA AnswerInv ==
  ASSUME AppInv,
         \/ \E x \in dialogs, yes \in BOOLEAN : AnswerDialog(x, yes)
         \/ \E c \in calls : Serve(c)
  PROVE  AppInv'
<1>1. UNCHANGED <<state, choice, panel, pages, lagging>>
    BY Zenon DEF AnswerDialog, Serve
<1>2. \A c \in dialogs \cup calls : Aimed(c)
    BY Zenon DEF AppInv
<1>3. ASSUME NEW x \in dialogs, NEW yes \in BOOLEAN, AnswerDialog(x, yes) PROVE AppInv'
  <2>1. dialogs' \subseteq dialogs /\ calls' \subseteq calls \cup {x}
      BY Zenon, <1>3 DEF AnswerDialog
  <2> QED
      BY Zenon, <1>1, <1>2, <2>1, NothingDrawn
<1>4. ASSUME NEW c \in calls, Serve(c) PROVE AppInv'
  <2>1. dialogs' = dialogs /\ \E v : calls' = (calls \ {c}) \cup {[c EXCEPT !.at = v]}
      BY Zenon, <1>4 DEF Serve
  <2>2. \A v : Aimed([c EXCEPT !.at = v])
      BY Zenon, <1>2, StaysAimed
  <2> QED
      BY Zenon, <1>1, <1>2, <2>1, <2>2, NothingDrawn
<1> QED
    BY Zenon, <1>3, <1>4

(***************************************************************************)
(* Windows, switches and the choice of device.                             *)
(***************************************************************************)

\* Opening a window reads the choice only if none was open.
LEMMA ShowInv ==
  ASSUME AppInv, ShowQuickPanel \/ ShowSettings
  PROVE  AppInv'
<1>1. /\ choice' = [choice EXCEPT !.now = IF Running THEN @ ELSE choice.file]
      /\ state' = state /\ dialogs' = dialogs /\ calls' = calls
    BY Zenon DEF ShowQuickPanel, ShowSettings
<1>2. /\ choice' = [now |-> choice'.now, file |-> choice'.file]
      /\ Running => choice'.now = choice.now
    BY <1>1 DEF AppInv
<1>3. WindowsHold /\ "panel" \notin Pages
    BY DEF AppInv, Pages
<1>4. \A c \in dialogs' \cup calls' : Aimed(c)
    BY Zenon, <1>1 DEF AppInv
<1>5. CASE ShowQuickPanel
  <2>1. /\ panel' = {Build(state, choice'.now)} /\ pages' = pages
        /\ lagging' = lagging \ {"panel"}
      BY Zenon, <1>5 DEF ShowQuickPanel
  <2>2. pages # {} => choice'.now = choice.now
      BY Zenon, <1>2 DEF Running
  <2> DEFINE now == Build(state, choice'.now)
  <2>4. choice'.now # {} => now.send_file \subseteq choice'.now /\ now.send_clipboard \subseteq choice'.now
      BY ChoiceIsDestination
  <2>5. \A m \in panel' : m = now /\ now = Build(state', choice'.now)
      BY Zenon, <1>1, <2>1
  <2> HIDE DEF now
  <2>6. \A page \in Pages \ lagging' : page \in Pages \ lagging
      BY Zenon, <1>3, <2>1
  <2>3. WindowsHold'
      BY Zenon, <1>1, <1>3, <2>1, <2>2, <2>4, <2>5, <2>6 DEF WindowsHold, WindowsShowState
  <2> QED
      BY Zenon, <1>2, <1>4, <2>3 DEF AppInv, Aimed
<1>6. CASE ShowSettings
  <2>1. /\ pages' = {DrawAll(state, choice'.now)} /\ panel' = panel
        /\ lagging' = lagging \cap {"panel"}
      BY Zenon, <1>6 DEF ShowSettings
  <2>2. panel # {} => choice'.now = choice.now
      BY Zenon, <1>2 DEF Running
  <2> DEFINE all == DrawAll(state, choice'.now)
  <2>3. /\ all = [page \in Pages |-> all[page]]
        /\ \A page \in Pages : /\ all[page] = Draw(page, state, choice'.now)
                               /\ \A c \in all[page] : Control(c, choice'.now)
      BY DrawnAnew
  <2>4. pages' = {all}
      BY Zenon, <2>1
  <2> HIDE DEF all
  <2>5. WindowsHold'
      BY Zenon, <1>1, <1>3, <2>1, <2>2, <2>3, <2>4 DEF WindowsHold, WindowsShowState
  <2> QED
      BY Zenon, <1>2, <1>4, <2>5 DEF AppInv, Aimed
<1> QED
    BY Zenon, <1>5, <1>6

\* Closing the last window ends the application, closing one of two does not.
LEMMA CloseInv ==
  ASSUME AppInv, ClosePanel \/ CloseSettings
  PROVE  AppInv'
<1>1. WindowsHold /\ "panel" \notin Pages /\ \A c \in dialogs \cup calls : Aimed(c)
    BY DEF AppInv, Pages
<1>2. CASE ClosePanel
  <2>1. /\ panel' = {} /\ pages' = pages /\ lagging' = lagging \ {"panel"}
        /\ Leave(pages # {}, {x \in dialogs : x.from # "panel"},
                 {[c EXCEPT !.from = IF @ = "panel" THEN "closed" ELSE @] : c \in calls})
      BY Zenon, <1>2 DEF ClosePanel
  <2>2. \A c \in calls : Aimed([c EXCEPT !.from = IF @ = "panel" THEN "closed" ELSE @])
    <3>1. "closed" # "panel"
        OBVIOUS
    <3> QED
        BY Zenon, <1>1, <3>1, StaysAimed
  <2>3. CASE pages # {}
    <3>1. /\ state' = state /\ choice' = choice
          /\ \A c \in dialogs' \cup calls' : Aimed(c)
        BY Zenon, <1>1, <2>1, <2>2, <2>3 DEF Leave
    <3>2. WindowsHold'
        BY Zenon, <1>1, <2>1, <3>1 DEF WindowsHold, WindowsShowState
    <3> QED
        BY Zenon, <3>1, <3>2 DEF AppInv, Aimed
  <2>4. CASE pages = {}
    <3>1. choice' = [choice EXCEPT !.now = {}] /\ dialogs' = {} /\ calls' = {}
        BY Zenon, <2>1, <2>4 DEF Leave
    <3>2. choice' = [now |-> choice'.now, file |-> choice'.file]
        BY <3>1 DEF AppInv
    <3> QED
        BY Zenon, <2>1, <2>4, <3>1, <3>2 DEF AppInv, WindowsHold, WindowsShowState
  <2> QED
      BY Zenon, <2>3, <2>4
<1>3. CASE CloseSettings
  <2> DEFINE kept == {y \in dialogs : y.from # "settings" \/ y.r[1] = "send file"}
  <2>1. /\ pages' = {} /\ panel' = panel /\ lagging' = lagging \cap {"panel"}
        /\ Leave(panel # {},
                 {[x EXCEPT !.from = IF @ = "settings" THEN "closed" ELSE @] : x \in kept}, calls)
      BY Zenon, <1>3 DEF CloseSettings
  <2>2. \A x \in kept : Aimed([x EXCEPT !.from = IF @ = "settings" THEN "closed" ELSE @])
    <3>1. "closed" # "panel"
        OBVIOUS
    <3> QED
        BY Zenon, <1>1, <3>1, StaysAimed
  <2> HIDE DEF kept
  <2>3. CASE panel # {}
    <3>1. /\ state' = state /\ choice' = choice
          /\ \A c \in dialogs' \cup calls' : Aimed(c)
        BY Zenon, <1>1, <2>1, <2>2, <2>3 DEF Leave
    <3>2. WindowsHold'
        BY Zenon, <1>1, <2>1, <3>1 DEF WindowsHold, WindowsShowState
    <3> QED
        BY Zenon, <3>1, <3>2 DEF AppInv, Aimed
  <2>4. CASE panel = {}
    <3>1. choice' = [choice EXCEPT !.now = {}] /\ dialogs' = {} /\ calls' = {}
        BY Zenon, <2>1, <2>4 DEF Leave
    <3>2. choice' = [now |-> choice'.now, file |-> choice'.file]
        BY <3>1 DEF AppInv
    <3> QED
        BY Zenon, <2>1, <2>4, <3>1, <3>2 DEF AppInv, WindowsHold, WindowsShowState
  <2> QED
      BY Zenon, <2>3, <2>4
<1> QED
    BY Zenon, <1>2, <1>3

\* A choice redraws both windows (choose, redraw_panel).
LEMMA ChooseInv ==
  ASSUME AppInv, ChooseInPanel \/ ChooseOnDashboard
  PROVE  AppInv'
<1>1. /\ Redraw(state, choice'.now)
      /\ state' = state /\ dialogs' = dialogs /\ calls' = calls
      /\ \E fp : Choose(fp)
    BY Zenon DEF ChooseInPanel, ChooseOnDashboard
<1>2. WindowsHold'
    BY Zenon, <1>1, RedrawHolds
<1>3. PICK fp : Choose(fp)
    BY Zenon, <1>1
<1>4. \E f : choice' = [now |-> {fp}, file |-> f]
    BY Zenon, <1>3 DEF Choose
<1>5. choice' = [now |-> choice'.now, file |-> choice'.file]
    BY <1>4
<1> QED
    BY Zenon, <1>1, <1>2, <1>5 DEF AppInv, Aimed

\* A switch that flips, and the row of a lock policy, stay controls.
LEMMA FlipIsControl ==
  ASSUME NEW shown, NEW chosen, \A x \in shown : Control(x, chosen),
         NEW c, Control(c, chosen), c[1] \in Switches \cup {"locked"},
         NEW y \in AfterFlip(shown, c)
  PROVE  Control(y, chosen)
<1>1. \A u, v, w : Control(<<"locked", u, v, w>>, chosen) /\ Control(<<"locked now", u, v, w>>, chosen)
  <2>1. "locked" \in Words /\ "locked now" \in Words
      BY Zenon DEF Words
  <2> QED
      BY Zenon, <2>1, WordIsPlain, PlainIsControl
<1>2. CASE c[1] = "locked"
  <2> DEFINE rest == {x \in shown : x[1] \notin {"locked", "locked now"} \/ x[2] # c[2]}
             others == LockPolicies \ {c[3]}
  <2>1. AfterFlip(shown, c) = rest \cup {<<"locked now", c[2], c[3], "">>}
                              \cup {<<"locked", c[2], policy, "">> : policy \in others}
      BY Zenon, <1>2 DEF AfterFlip
  <2>2. rest \subseteq shown
      BY Zenon
  <2> HIDE DEF rest, others
  <2>3. CASE y \in rest
      BY Zenon, <2>2, <2>3
  <2>4. CASE y = <<"locked now", c[2], c[3], "">>
      BY Zenon, <1>1, <2>4
  <2>5. CASE y \in {<<"locked", c[2], policy, "">> : policy \in others}
    <3>1. PICK policy \in others : y = <<"locked", c[2], policy, "">>
        BY Zenon, <2>5
    <3> QED
        BY Zenon, <1>1, <3>1
  <2> QED
      BY Zenon, <2>1, <2>3, <2>4, <2>5
<1>3. CASE c[1] # "locked"
  <2>1. y \in shown \/ y = Flipped(c)
      BY Zenon, <1>3 DEF AfterFlip
  <2>2. Control(Flipped(c), chosen)
    <3>1. c = <<c[1], c[2], c[3], c[4]>>
        BY Zenon DEF Control
    <3>2. c[1] \in Words
      <4>1. c[1] \in Switches
          BY Zenon, <1>3
      <4> QED
          BY Zenon, <4>1 DEF Switches, Words
    <3>3. \A u : Control(<<c[1], c[2], c[3], u>>, chosen)
        BY Zenon, <3>2, WordIsPlain, PlainIsControl
    <3>4. Flipped(c) = <<c[1], c[2], c[3], IF c[4] = "on" THEN "off" ELSE "on">>
      <4> DEFINE e == IF c[4] = "on" THEN "off" ELSE "on"
      <4>1. Flipped(c) = [c EXCEPT ![4] = e]
          BY Zenon DEF Flipped
      <4> HIDE DEF e
      <4>2. [c EXCEPT ![4] = e] = <<c[1], c[2], c[3], e>>
          BY <3>1
      <4> QED
          BY <4>1, <4>2 DEF e
    <3> QED
        BY Zenon, <3>3, <3>4
  <2> QED
      BY Zenon, <2>1, <2>2
<1> QED
    BY Zenon, <1>2, <1>3

\* A switch is pressed: its page flips it, and lags until it is drawn again.
LEMMA SwitchInv ==
  ASSUME AppInv, NEW page \in Pages, NEW c \in Shown(page), PressSwitch(page, c)
  PROVE  AppInv'
<1>1. /\ c[1] \in Switches \cup {"locked"}
      /\ calls' = calls \cup
           {Press("settings", IF c[1] = "locked" THEN c ELSE Flipped(c), {})}
      /\ pages' = {[shown EXCEPT ![page] = AfterFlip(@, c)] : shown \in pages}
      /\ lagging' = lagging \cup {page}
      /\ UNCHANGED <<state, choice, panel, dialogs>>
    BY Zenon DEF PressSwitch
<1>2. WindowsHold /\ \A x \in dialogs \cup calls : Aimed(x)
    BY Zenon DEF AppInv
<1>3. c = <<c[1], c[2], c[3], c[4]>>
    BY Zenon, ShownIsControl DEF Control
<1>4. c[1] # "send file"
    BY Zenon, <1>1 DEF Switches
<1>5. Flipped(c)[1] = c[1]
    BY <1>3 DEF Flipped
<1>6. Aimed(Press("settings", IF c[1] = "locked" THEN c ELSE Flipped(c), {}))
  <2> DEFINE r == IF c[1] = "locked" THEN c ELSE Flipped(c)
  <2>1. r[1] # "send file"
      BY Zenon, <1>4, <1>5
  <2> HIDE DEF r
  <2>2. "settings" # "panel"
      OBVIOUS
  <2>3. Aimed(Press("settings", r, {}))
      BY Zenon, <2>1, <2>2, PressIsAimed
  <2> QED
      BY Zenon, <2>3 DEF r
<1>7. \A x \in dialogs' \cup calls' : Aimed(x)
    BY Zenon, <1>1, <1>2, <1>6
<1>8. ASSUME NEW sheet \in pages'
      PROVE  /\ sheet = [q \in Pages |-> sheet[q]]
             /\ \A q \in Pages : \A x \in sheet[q] : Control(x, choice.now)
             /\ \A q \in Pages \ lagging' : sheet[q] = Draw(q, state, choice.now)
  <2>1. PICK shown \in pages : sheet = [shown EXCEPT ![page] = AfterFlip(shown[page], c)]
      BY Zenon, <1>1
  <2>2. /\ shown = [q \in Pages |-> shown[q]]
        /\ \A q \in Pages : \A x \in shown[q] : Control(x, choice.now)
        /\ \A q \in Pages \ lagging : shown[q] = Draw(q, state, choice.now)
      BY Zenon, <1>2 DEF WindowsHold, WindowsShowState
  <2> DEFINE flipped == AfterFlip(shown[page], c)
  <2>3. \A y \in flipped : Control(y, choice.now)
    <3>1. /\ Control(c, choice.now)
          /\ \A x \in shown[page] : Control(x, choice.now)
        BY Zenon, <2>2, ShownIsControl
    <3> QED
        BY Zenon, <1>1, <3>1, FlipIsControl
  <2> HIDE DEF flipped
  <2>4. /\ sheet = [q \in Pages |-> sheet[q]]
        /\ sheet[page] = flipped
        /\ \A q \in Pages \ {page} : sheet[q] = shown[q]
      BY <2>1, <2>2 DEF flipped
  <2>5. ASSUME NEW q \in Pages PROVE \A x \in sheet[q] : Control(x, choice.now)
    <3>1. CASE q = page
        BY Zenon, <2>3, <2>4, <3>1
    <3>2. CASE q # page
        BY Zenon, <2>2, <2>4, <3>2
    <3> QED
        BY Zenon, <3>1, <3>2
  <2>6. \A q \in Pages \ lagging' : sheet[q] = Draw(q, state, choice.now)
      BY Zenon, <1>1, <2>2, <2>4
  <2> QED
      BY Zenon, <2>4, <2>5, <2>6
<1>9. /\ \A m \in panel' : choice'.now # {} =>
           m.send_file \subseteq choice'.now /\ m.send_clipboard \subseteq choice'.now
      /\ "panel" \notin lagging' => \A m \in panel' : m = Build(state', choice'.now)
    BY Zenon, <1>1, <1>2 DEF WindowsHold, WindowsShowState
<1>10. WindowsHold'
    BY Zenon, <1>1, <1>8, <1>9 DEF WindowsHold, WindowsShowState
<1> QED
    BY Zenon, <1>1, <1>7, <1>10 DEF AppInv, Aimed

\* The reply to a removal forgets the device, and the windows that show the
\* choice lag; no other reply touches them (forget_if).
LEMMA DeliverInv ==
  ASSUME AppInv, NEW c \in calls, Deliver(c)
  PROVE  AppInv'
<1>1. /\ UNCHANGED <<state, panel, pages, dialogs>>
      /\ calls' \subseteq calls
      /\ choice' = choice \/ Forget(c.removes)
      /\ lagging' = lagging \cup (IF choice'.now = choice.now THEN {} ELSE {"panel", "dashboard"})
    BY Zenon DEF Deliver
<1>2. WindowsHold /\ choice = [now |-> choice.now, file |-> choice.file]
    BY Zenon DEF AppInv
<1>3. \/ choice' = choice
      \/ \E f : choice' = [now |-> {}, file |-> f]
    BY Zenon, <1>1 DEF Forget
<1>4. choice' = [now |-> choice'.now, file |-> choice'.file] /\ (choice'.now = choice.now \/ choice'.now = {})
    BY <1>2, <1>3
<1>5. \A x \in dialogs' \cup calls' : Aimed(x)
    BY Zenon, <1>1 DEF AppInv
<1>6. WindowsHold'
  <2>1. CASE choice'.now = choice.now
    <3>1. lagging' = lagging
        BY Zenon, <1>1, <2>1
    <3> QED
        BY Zenon, <1>1, <1>2, <2>1, <3>1, WindowsRest
  <2>2. CASE choice'.now # choice.now
    <3>1. choice'.now = {} /\ lagging' = lagging \cup {"panel", "dashboard"}
        BY Zenon, <1>1, <1>4, <2>2
    <3>2. ASSUME NEW shown \in pages, NEW page \in Pages \ lagging'
          PROVE  shown[page] = Draw(page, state, choice'.now)
      <4>1. page \in Pages \ {"dashboard"} /\ page \in Pages \ lagging
          BY Zenon, <3>1
      <4>2. shown[page] = Draw(page, state, choice.now)
          BY Zenon, <1>2, <4>1 DEF WindowsHold, WindowsShowState
      <4>3. Draw(page, state, choice.now) = Draw(page, state, choice'.now)
          BY Zenon, <4>1, ChoiceIsOnDashboard
      <4> QED
          BY Zenon, <4>2, <4>3
    <3>3. \A x : Control(x, choice.now) => Control(x, choice'.now)
        BY Zenon, <3>1 DEF Control
    <3> QED
        BY Zenon, <1>1, <1>2, <3>1, <3>2, <3>3 DEF WindowsHold, WindowsShowState
  <2> QED
      BY Zenon, <2>1, <2>2
<1> QED
    BY Zenon, <1>4, <1>5, <1>6 DEF AppInv, Aimed

\* The replies of a poll: nothing is drawn before the last of them.
LEMMA ReplyInv ==
  ASSUME AppInv, NEW kinds, Reply(kinds)
  PROVE  AppInv'
<1>1. UNCHANGED <<choice, dialogs, calls>> /\ Collect(kinds, cycle.asked \ kinds, cycle.old)
    BY Zenon DEF Reply
<1>2. \A c \in dialogs' \cup calls' : Aimed(c)
    BY Zenon, <1>1 DEF AppInv
<1>3. CASE Left(Cardinality(kinds)) = 0
  <2>1. PICK s : Commit(s, cycle.asked \ kinds)
      BY Zenon, <1>1, <1>3 DEF Collect
  <2>2. state' = s /\ \E moved \in BOOLEAN : Render(s, Redrawn(s, moved))
      BY Zenon, <2>1 DEF Commit
  <2>3. PICK moved \in BOOLEAN : Render(s, Redrawn(s, moved))
      BY Zenon, <2>2
  <2>4. WindowsHold'
      BY Zenon, <1>1, <2>2, <2>3, RenderHolds
  <2> QED
      BY Zenon, <1>1, <1>2, <2>4 DEF AppInv, Aimed
<1>4. CASE Left(Cardinality(kinds)) # 0
  <2>1. UNCHANGED <<state, panel, pages, lagging>>
      BY Zenon, <1>1, <1>4 DEF Collect
  <2> QED
      BY Zenon, <1>1, <1>2, <2>1, NothingDrawn
<1> QED
    BY Zenon, <1>3, <1>4

\* What happens outside happens to the daemon.
LEMMA WorldHappens == World => \E d : Happens(d)
<1>1. \A p : LinkChanges(p) \/ UnpairedElsewhere(p) \/ Pairs(p) \/ ClipArrives(p) \/ FileComes(p)
        => \E d : Happens(d)
    BY Zenon DEF LinkChanges, UnpairedElsewhere, Pairs, ClipArrives, FileComes
<1>2. \A t : TransferEnds(t) => \E d : Happens(d)
    BY Zenon DEF TransferEnds
<1>3. DaemonStops => \E d : Happens(d)
    BY Zenon DEF DaemonStops
<1> QED
    BY Zenon, <1>1, <1>2, <1>3 DEF World

\* The steps of the daemon, of the clock and of what is outside leave the
\* windows, the choice and the requests alone.
LEMMA QuietSteps ==
  ASSUME World \/ OldReply \/ Tick \/ DaemonStarts
  PROVE  UNCHANGED <<state, choice, panel, pages, lagging, dialogs, calls>>
<1>1. \A d : Happens(d) => UNCHANGED <<state, choice, panel, pages, lagging, dialogs, calls>>
    BY Zenon DEF Happens
<1>2. OldReply \/ Tick \/ DaemonStarts
        => UNCHANGED <<state, choice, panel, pages, lagging, dialogs, calls>>
    BY Zenon DEF OldReply, Tick, DaemonStarts
<1> QED
    BY Zenon, <1>1, <1>2, WorldHappens

\* The windows at the start are drawn from nothing.
LEMMA InitInv == Init => AppInv
<1> SUFFICES ASSUME Init PROVE AppInv
    OBVIOUS
<1>1. PICK start \in Starts :
        /\ choice = [now |-> start.stored, file |-> start.stored]
        /\ panel = IF "panel" \in start.windows THEN {Build(Empty, start.stored)} ELSE {}
        /\ pages = IF "settings" \in start.windows THEN {DrawAll(Empty, start.stored)} ELSE {}
    BY Zenon DEF Init
<1>2. state = Empty /\ dialogs = {} /\ calls = {}
    BY Zenon DEF Init
<1>3. choice = [now |-> choice.now, file |-> choice.file] /\ choice.now = start.stored
    BY <1>1
<1>4. /\ \A m \in panel : m = Build(state, choice.now)
      /\ \A shown \in pages : shown = DrawAll(state, choice.now)
    BY Zenon, <1>1, <1>2, <1>3
<1>5. ASSUME NEW m \in panel
      PROVE  choice.now # {} => m.send_file \subseteq choice.now /\ m.send_clipboard \subseteq choice.now
    BY Zenon, <1>4, ChoiceIsDestination
<1>6. ASSUME NEW shown \in pages
      PROVE  /\ shown = [page \in Pages |-> shown[page]]
             /\ \A page \in Pages : /\ shown[page] = Draw(page, state, choice.now)
                                    /\ \A c \in shown[page] : Control(c, choice.now)
  <2> DEFINE all == DrawAll(state, choice.now)
  <2>1. /\ all = [page \in Pages |-> all[page]]
        /\ \A page \in Pages : /\ all[page] = Draw(page, state, choice.now)
                               /\ \A c \in all[page] : Control(c, choice.now)
      BY DrawnAnew
  <2>2. shown = all
      BY Zenon, <1>4
  <2> HIDE DEF all
  <2> QED
      BY Zenon, <2>1, <2>2
<1>7. WindowsShowState
    BY Zenon, <1>4, <1>6 DEF WindowsShowState
<1>8. WindowsHold
    BY Zenon, <1>5, <1>6, <1>7 DEF WindowsHold
<1> QED
    BY Zenon, <1>2, <1>3, <1>8 DEF AppInv

\* One step of the application, whoever takes it.
LEMMA StepInv == AppInv /\ [Next]_vars => AppInv'
<1> SUFFICES ASSUME AppInv, [Next]_vars PROVE AppInv'
    OBVIOUS
<1>1. CASE Person
    BY Zenon, <1>1, ShowInv, CloseInv, ChooseInv, PressInv, SwitchInv, AnswerInv DEF Person
<1>2. CASE \E late \in Late : Reply(cycle.asked \ late)
    BY Zenon, <1>2, ReplyInv
<1>3. CASE World \/ OldReply \/ Tick \/ DaemonStarts
  <2>1. UNCHANGED <<state, choice, panel, pages, lagging, dialogs, calls>>
      BY Zenon, <1>3, QuietSteps
  <2> QED
      BY Zenon, <2>1, NothingDrawn DEF AppInv
<1>4. CASE \E c \in calls : Serve(c) \/ Deliver(c)
    BY Zenon, <1>4, AnswerInv, DeliverInv
<1>5. CASE UNCHANGED vars
    BY Zenon, <1>5, NothingDrawn DEF AppInv, vars
<1> QED
    BY Zenon, <1>1, <1>2, <1>3, <1>4, <1>5 DEF Next, Work

(***************************************************************************)
(* The theorems about windows and presses.                                 *)
(***************************************************************************)

\* The windows show what is known and chosen, up to the surfaces that lag,
\* and every request is aimed at what was chosen when it was pressed.
THEOREM AppInvariant == Spec => []AppInv
<1>1. Init => AppInv
    BY InitInv
<1>2. AppInv /\ [Next]_vars => AppInv'
    BY StepInv
<1> QED
    BY <1>1, <1>2, PTL DEF Spec

\* The Quick Panel and every page of Settings show the model of the state and
\* the choice as they are, although a page is redrawn only when a slice of its
\* own differs (refresh_if_changed, Pages::render).
THEOREM WindowsAreCurrent == Spec => []WindowsShowState
<1>1. AppInv => WindowsShowState
    BY Zenon DEF AppInv, WindowsHold
<1> QED
    BY <1>1, AppInvariant, PTL

\* A file, and a clip sent from the panel, goes where the choice was at the
\* press, whatever happens before the request is made (send_file).
THEOREM FilesGoWhereChosen == Spec => []SendsWhereChosen
<1>1. AppInv => SendsWhereChosen
    BY Zenon DEF AppInv, Aimed, SendsWhereChosen
<1> QED
    BY <1>1, AppInvariant, PTL

(***************************************************************************)
(* Whose the choice is.                                                    *)
(***************************************************************************)

\* What the person picks is a device on a window they see.
LEMMA ChoiceWasOffered ==
  ASSUME AppInv, ChooseInPanel \/ ChooseOnDashboard
  PROVE  \E fp \in choice'.now :
           \/ \E p \in panel : \E c \in p.peers : c.fp = fp
           \/ \E shown \in pages : <<"use", fp, "", "">> \in shown["dashboard"]
<1>1. \A fp : Choose(fp) => \E f : choice' = [now |-> {fp}, file |-> f]
    BY Zenon DEF Choose
<1>2. \A fp : Choose(fp) => fp \in choice'.now
    BY <1>1
<1>3. CASE ChooseInPanel
  <2>1. PICK p \in panel : \E fp \in Radios(p) : Choose(fp)
      BY Zenon, <1>3 DEF ChooseInPanel
  <2>2. PICK fp \in Radios(p) : Choose(fp)
      BY Zenon, <2>1
  <2>3. \E c \in p.peers : c.fp = fp
    <3>1. CASE p.health = "available" /\ Cardinality(p.peers) > 1
        BY Zenon, <3>1 DEF Radios
    <3>2. CASE ~ (p.health = "available" /\ Cardinality(p.peers) > 1)
        BY Zenon, <3>2 DEF Radios
    <3> QED
        BY Zenon, <3>1, <3>2
  <2> QED
      BY Zenon, <1>2, <2>2, <2>3
<1>4. CASE ChooseOnDashboard
  <2>1. PICK c \in Shown("dashboard") : c[1] = "use" /\ Choose(c[2])
      BY Zenon, <1>4 DEF ChooseOnDashboard
  <2>2. "dashboard" \in Pages
      BY Zenon DEF Pages
  <2>3. c = <<"use", c[2], "", "">>
      BY Zenon, <2>1, <2>2, ShownIsControl DEF Control
  <2>4. \E shown \in pages : c \in shown["dashboard"]
      BY Zenon, <2>1, ShownIsOnPage
  <2>5. PICK shown \in pages : <<"use", c[2], "", "">> \in shown["dashboard"]
      BY Zenon, <2>3, <2>4
  <2>6. c[2] \in choice'.now
      BY Zenon, <1>2, <2>1
  <2> QED
      BY Zenon, <2>5, <2>6
<1> QED
    BY Zenon, <1>3, <1>4

\* forget_if runs in the handler of a removal that was not refused.
LEMMA ChoiceWasRemoved ==
  ASSUME NEW c \in calls, Deliver(c), choice'.now # choice.now
  PROVE  /\ choice'.now = {}
         /\ \E x \in calls \ calls' : choice.now \subseteq x.removes /\ x.at # "refused"
<1>1. c \in calls \ calls'
    BY Zenon DEF Deliver
<1>2. Exchanged(c) # "refused" /\ Forget(c.removes)
    BY Zenon DEF Deliver
<1>3. c.at # "refused"
    BY Zenon, <1>2 DEF Exchanged
<1>4. choice.now \subseteq c.removes /\ \E f : choice' = [now |-> {}, file |-> f]
    BY Zenon, <1>2 DEF Forget
<1>5. choice'.now = {}
    BY <1>4
<1> QED
    BY Zenon, <1>1, <1>3, <1>4, <1>5

\* The other steps of a running application leave the choice alone.
LEMMA ChoiceIsKept ==
  ASSUME AppInv, Running, Running',
         \/ Person /\ ~ ChooseInPanel /\ ~ ChooseOnDashboard
         \/ World \/ OldReply \/ Tick \/ DaemonStarts
         \/ \E late \in Late : Reply(cycle.asked \ late)
         \/ \E c \in calls : Serve(c)
  PROVE  choice'.now = choice.now
<1>1. CASE ShowQuickPanel \/ ShowSettings
  <2>1. choice' = [choice EXCEPT !.now = IF Running THEN @ ELSE choice.file]
      BY Zenon, <1>1 DEF ShowQuickPanel, ShowSettings
  <2> QED
      BY <2>1 DEF AppInv
<1>2. CASE ClosePanel
  <2>1. panel' = {} /\ pages' = pages /\ \E kept, waiting : Leave(pages # {}, kept, waiting)
      BY Zenon, <1>2 DEF ClosePanel
  <2> QED
      BY Zenon, <2>1 DEF Running, Leave
<1>3. CASE CloseSettings
  <2>1. pages' = {} /\ panel' = panel /\ \E kept, waiting : Leave(panel # {}, kept, waiting)
      BY Zenon, <1>3 DEF CloseSettings
  <2> QED
      BY Zenon, <2>1 DEF Running, Leave
<1>4. CASE SendFileInPanel \/ SendClipboardInPanel
    BY Zenon, <1>4 DEF SendFileInPanel, SendClipboardInPanel
<1>5. CASE \E page \in Pages : \E c \in Shown(page) :
             PressSwitch(page, c) \/ PressButton(page, c) \/ OpenDialog(page, c)
    BY Zenon, <1>5 DEF PressSwitch, PressButton, OpenDialog
<1>6. CASE \E x \in dialogs, yes \in BOOLEAN : AnswerDialog(x, yes)
    BY Zenon, <1>6 DEF AnswerDialog
<1>7. CASE World \/ OldReply \/ Tick \/ DaemonStarts
    BY Zenon, <1>7, QuietSteps
<1>8. CASE \E late \in Late : Reply(cycle.asked \ late)
    BY Zenon, <1>8 DEF Reply
<1>9. CASE \E c \in calls : Serve(c)
    BY Zenon, <1>9 DEF Serve
<1>10. CASE Person /\ ~ ChooseInPanel /\ ~ ChooseOnDashboard
    BY Zenon, <1>1, <1>2, <1>3, <1>4, <1>5, <1>6, <1>10 DEF Person
<1> QED
    BY Zenon, <1>7, <1>8, <1>9, <1>10

\* While the application runs, its choice changes only to a device the person
\* was offered, and is forgotten only with a confirmed removal of that device
\* that the daemon did not refuse (choose, forget_if).
THEOREM TheChoiceIsThePersons == Spec => ChoiceIsThePersons
<1> DEFINE Step ==
      choice'.now # choice.now /\ Running /\ Running' =>
       \/ \E fp \in choice'.now :
            \/ \E p \in panel : \E c \in p.peers : c.fp = fp
            \/ \E shown \in pages : <<"use", fp, "", "">> \in shown["dashboard"]
       \/ /\ choice'.now = {}
          /\ \E c \in calls \ calls' :
               choice.now \subseteq c.removes /\ c.at # "refused"
<1>1. AppInv /\ [Next]_vars => [Step]_vars
  <2> SUFFICES ASSUME AppInv, Next, choice'.now # choice.now, Running, Running'
               PROVE  Step
      BY Zenon
  <2>1. CASE ChooseInPanel \/ ChooseOnDashboard
      BY Zenon, <2>1, ChoiceWasOffered
  <2>2. CASE \E c \in calls : Deliver(c)
      BY Zenon, <2>2, ChoiceWasRemoved
  <2>3. CASE ~ (ChooseInPanel \/ ChooseOnDashboard) /\ ~ \E c \in calls : Deliver(c)
    <3> HIDE DEF Step
    <3>1. \/ Person /\ ~ ChooseInPanel /\ ~ ChooseOnDashboard
          \/ World \/ OldReply \/ Tick \/ DaemonStarts
          \/ \E late \in Late : Reply(cycle.asked \ late)
          \/ \E c \in calls : Serve(c)
        BY Zenon, <2>3 DEF Next, Work
    <3> QED
        BY Zenon, <3>1, ChoiceIsKept
  <2> QED
      BY Zenon, <2>1, <2>2, <2>3
<1> QED
    BY <1>1, AppInvariant, PTL DEF Spec, ChoiceIsThePersons

(***************************************************************************)
(* The poll.                                                               *)
(***************************************************************************)

\* The five questions, and any of them, can be counted.
LEMMA QuestionsAreCounted ==
  /\ IsFiniteSet(Kinds) /\ Cardinality(Kinds) # 0
  /\ \A asked \in SUBSET Kinds : \A kinds \in SUBSET asked :
       /\ Cardinality(asked) \in Nat /\ Cardinality(kinds) \in Nat
       /\ Cardinality(kinds) <= Cardinality(asked)
       /\ Cardinality(kinds) = Cardinality(asked) => kinds = asked
       /\ Cardinality(asked \ kinds) = Cardinality(asked) - Cardinality(kinds)
  /\ \A asked \in SUBSET Kinds : Cardinality(asked) = 0 <=> asked = {}
<1>1. IsFiniteSet(Kinds)
  <2>1. \A S, x : IsFiniteSet(S) => IsFiniteSet(S \cup {x})
      BY Zenon, FS_AddElement
  <2>2. IsFiniteSet({"status"} \cup {"devices"} \cup {"transfers"})
      BY Zenon, <2>1, FS_Singleton
  <2>3. IsFiniteSet({"status"} \cup {"devices"} \cup {"transfers"} \cup {"clipboard"}
                    \cup {"notifications"})
      BY Zenon, <2>1, <2>2
  <2>4. Kinds = {"status"} \cup {"devices"} \cup {"transfers"} \cup {"clipboard"}
                \cup {"notifications"}
      BY DEF Kinds
  <2> QED
      BY Zenon, <2>3, <2>4
<1>2. \A asked \in SUBSET Kinds : IsFiniteSet(asked)
    BY Zenon, <1>1, FS_Subset
<1>3. ASSUME NEW asked \in SUBSET Kinds, NEW kinds \in SUBSET asked
      PROVE  /\ Cardinality(asked) \in Nat /\ Cardinality(kinds) \in Nat
             /\ Cardinality(kinds) <= Cardinality(asked)
             /\ Cardinality(kinds) = Cardinality(asked) => kinds = asked
             /\ Cardinality(asked \ kinds) = Cardinality(asked) - Cardinality(kinds)
  <2>1. IsFiniteSet(asked)
      BY Zenon, <1>2
  <2>2. /\ IsFiniteSet(kinds) /\ Cardinality(kinds) <= Cardinality(asked)
        /\ Cardinality(asked) = Cardinality(kinds) => asked = kinds
      BY Zenon, <2>1, FS_Subset
  <2>3. Cardinality(asked) \in Nat /\ Cardinality(kinds) \in Nat
      BY Zenon, <2>1, <2>2, FS_CardinalityType
  <2>4. asked \cap kinds = kinds
      BY Zenon
  <2>5. Cardinality(asked \ kinds) = Cardinality(asked) - Cardinality(asked \cap kinds)
      BY Zenon, <2>1, FS_Difference
  <2> QED
      BY Zenon, <2>2, <2>3, <2>4, <2>5
<1>4. \A asked \in SUBSET Kinds : Cardinality(asked) = 0 <=> asked = {}
    BY Zenon, <1>2, FS_EmptySet
<1>5. Cardinality(Kinds) # 0
  <2>1. "status" \in Kinds
      BY Zenon DEF Kinds
  <2> QED
      BY Zenon, <1>1, <2>1, FS_EmptySet
<1> QED
    BY Zenon, <1>1, <1>3, <1>4, <1>5

\* The replies that are folded in, and what is left of the others.
LEMMA FoldTakesReplies ==
  ASSUME NEW kinds, NEW s
  PROVE  /\ \A k \in Kinds : Fold(kinds, s)[k] = IF k \in kinds /\ daemon.up
                                                 THEN Answer(k, daemon) ELSE s[k]
         /\ Fold(kinds, s).error = IF "status" \in kinds THEN ~ daemon.up ELSE s.error
<1> DEFINE Now(k) == IF k \in kinds /\ daemon.up THEN Answer(k, daemon) ELSE s[k]
           wrong == IF "status" \in kinds THEN ~ daemon.up ELSE s.error
<1>1. Fold(kinds, s) = [status |-> Now("status"), devices |-> Now("devices"),
                        transfers |-> Now("transfers"), clipboard |-> Now("clipboard"),
                        notifications |-> Now("notifications"), error |-> wrong]
    BY Zenon DEF Fold
<1> HIDE DEF Now, wrong
<1>2. /\ Fold(kinds, s).status = Now("status") /\ Fold(kinds, s).devices = Now("devices")
      /\ Fold(kinds, s).transfers = Now("transfers")
      /\ Fold(kinds, s).clipboard = Now("clipboard")
      /\ Fold(kinds, s).notifications = Now("notifications")
      /\ Fold(kinds, s).error = wrong
    BY <1>1
<1>3. ASSUME NEW k \in Kinds PROVE Fold(kinds, s)[k] = Now(k)
    BY Zenon, <1>2 DEF Kinds
<1> QED
    BY Zenon, <1>2, <1>3 DEF Now, wrong

\* What the replies so far, with these folded in, are of: the daemon as it is
\* counts as one that spoke since the poll began.
LEMMA FoldIsOfItsTime ==
  ASSUME PollInv, NEW kinds, kinds \subseteq cycle.asked, kinds # {}
  PROVE  /\ daemon \in cycle.since
         /\ \A k \in Kinds :
              IF k \in cycle.asked \ kinds THEN Fold(kinds, cycle.pending)[k] = state[k]
              ELSE \E d \in cycle.since :
                     Fold(kinds, cycle.pending)[k] = IF d.up THEN Answer(k, d) ELSE state[k]
         /\ "status" \notin cycle.asked \ kinds =>
              \E d \in cycle.since : Fold(kinds, cycle.pending).error = ~ d.up
<1> DEFINE s == Fold(kinds, cycle.pending)
<1>1. /\ \A k \in Kinds : s[k] = IF k \in kinds /\ daemon.up
                                 THEN Answer(k, daemon) ELSE cycle.pending[k]
      /\ s.error = IF "status" \in kinds THEN ~ daemon.up ELSE cycle.pending.error
    BY FoldTakesReplies
<1> HIDE DEF s
<1>2. cycle.asked # {} /\ daemon \in cycle.since
    BY Zenon DEF PollInv
<1>3. /\ \A k \in Kinds : k \in cycle.asked => cycle.pending[k] = state[k]
      /\ \A k \in Kinds : k \notin cycle.asked => \E d \in cycle.since :
              cycle.pending[k] = IF d.up THEN Answer(k, d) ELSE state[k]
      /\ "status" \notin cycle.asked => \E d \in cycle.since : cycle.pending.error = ~ d.up
    BY Zenon, <1>2 DEF PollInv
<1>4. ASSUME NEW k \in Kinds, k \in cycle.asked \ kinds PROVE s[k] = state[k]
  <2>1. k \in cycle.asked /\ k \notin kinds
      BY Zenon, <1>4
  <2>2. s[k] = cycle.pending[k]
      BY Zenon, <1>1, <2>1
  <2> QED
      BY Zenon, <1>3, <2>1, <2>2
<1>5. ASSUME NEW k \in Kinds, k \notin cycle.asked \ kinds
      PROVE  \E d \in cycle.since : s[k] = IF d.up THEN Answer(k, d) ELSE state[k]
  <2>1. CASE k \in kinds
    <3>1. k \in cycle.asked
        BY Zenon, <2>1
    <3>2. s[k] = IF daemon.up THEN Answer(k, daemon) ELSE state[k]
        BY Zenon, <1>1, <1>3, <2>1, <3>1
    <3> QED
        BY Zenon, <1>2, <3>2
  <2>2. CASE k \notin kinds
      BY Zenon, <1>1, <1>3, <1>5, <2>2
  <2> QED
      BY Zenon, <2>1, <2>2
<1>6. ASSUME "status" \notin cycle.asked \ kinds
      PROVE  \E d \in cycle.since : s.error = ~ d.up
  <2>1. CASE "status" \in kinds
      BY Zenon, <1>1, <1>2, <2>1
  <2>2. CASE "status" \notin kinds
      BY Zenon, <1>1, <1>3, <1>6, <2>2
  <2> QED
      BY Zenon, <2>1, <2>2
<1> QED
    BY Zenon, <1>2, <1>4, <1>5, <1>6 DEF s

\* A poll that is started: five questions, and what is known (spawn_refresh).
LEMMA PollStarts ==
  ASSUME RefreshNow, state' = state
  PROVE  PollInv' /\ cycle'.outstanding # 0
<1> DEFINE left == cycle.old + Cardinality(cycle.asked)
           old == IF left < MaxOld THEN left ELSE MaxOld
           count == Cardinality(Kinds)
<1>1. cycle' = [asked |-> Kinds, outstanding |-> count, old |-> old,
                pending |-> state, since |-> {daemon'}]
    BY Zenon DEF RefreshNow, Refreshed
<1>2. count # 0
    BY Zenon, QuestionsAreCounted
<1>3. count = Cardinality(Kinds)
    OBVIOUS
<1> HIDE DEF old, count
<1>4. /\ cycle'.asked = Kinds /\ cycle'.outstanding = count /\ cycle'.old = old
      /\ cycle'.pending = state /\ cycle'.since = {daemon'}
    BY Zenon, <1>1
<1>5. cycle' = [asked |-> cycle'.asked, outstanding |-> cycle'.outstanding, old |-> cycle'.old,
                pending |-> cycle'.pending, since |-> cycle'.since]
    BY Zenon, <1>1, <1>4
<1>6. "status" \in cycle'.asked
    BY Zenon, <1>4 DEF Kinds
<1>7. cycle'.outstanding = Cardinality(cycle'.asked)
    BY Zenon, <1>3, <1>4
<1> QED
    BY Zenon, <1>2, <1>4, <1>5, <1>6, <1>7 DEF PollInv

\* A poll that goes on while the daemon changes.
LEMMA PollGoesOn ==
  ASSUME PollInv, state' = state, KeepPoll \/ UNCHANGED <<cycle, daemon>> \/ OldReply
  PROVE  PollInv' /\ cycle'.outstanding = cycle.outstanding
<1>1. /\ cycle' = [asked |-> cycle'.asked, outstanding |-> cycle'.outstanding, old |-> cycle'.old,
                   pending |-> cycle'.pending, since |-> cycle'.since]
      /\ cycle'.asked = cycle.asked /\ cycle'.outstanding = cycle.outstanding
      /\ cycle'.pending = cycle.pending
      /\ cycle.asked # {} => cycle'.since = cycle.since \cup {daemon'}
  <2>1. /\ cycle = [asked |-> cycle.asked, outstanding |-> cycle.outstanding, old |-> cycle.old,
                    pending |-> cycle.pending, since |-> cycle.since]
        /\ cycle.asked # {} => daemon \in cycle.since
      BY Zenon DEF PollInv
  <2>2. CASE KeepPoll
    <3> DEFINE since == IF cycle.asked = {} THEN {} ELSE cycle.since \cup {daemon'}
    <3>1. cycle' = [cycle EXCEPT !.since = since]
        BY Zenon, <2>2 DEF KeepPoll
    <3>2. cycle.asked # {} => since = cycle.since \cup {daemon'}
        BY Zenon
    <3> HIDE DEF since
    <3> QED
        BY <2>1, <3>1, <3>2
  <2>3. CASE UNCHANGED <<cycle, daemon>>
    <3>1. cycle.asked # {} => cycle.since = cycle.since \cup {daemon'}
        BY Zenon, <2>1, <2>3
    <3> QED
        BY Zenon, <2>1, <2>3, <3>1
  <2>4. CASE OldReply
    <3>1. \E n : cycle' = [cycle EXCEPT !.old = n]
        BY Zenon, <2>4 DEF OldReply
    <3>2. daemon' = daemon
        BY Zenon, <2>4 DEF OldReply
    <3>3. cycle.asked # {} => cycle.since = cycle.since \cup {daemon'}
        BY Zenon, <2>1, <3>2
    <3> QED
        BY <2>1, <3>1, <3>3
  <2> QED
      BY Zenon, <2>2, <2>3, <2>4
<1>2. /\ cycle.asked \subseteq Kinds /\ cycle.outstanding = Cardinality(cycle.asked)
      /\ \A k \in Kinds :
           IF k \in cycle.asked THEN cycle.pending[k] = state[k]
           ELSE cycle.asked # {} => \E d \in cycle.since :
                  cycle.pending[k] = IF d.up THEN Answer(k, d) ELSE state[k]
      /\ cycle.asked # {} /\ "status" \notin cycle.asked =>
           \E d \in cycle.since : cycle.pending.error = ~ d.up
    BY Zenon DEF PollInv
<1>3. cycle'.asked # {} => daemon' \in cycle'.since /\ cycle.since \subseteq cycle'.since
    BY Zenon, <1>1
<1>4. ASSUME NEW k \in Kinds
      PROVE  IF k \in cycle'.asked THEN cycle'.pending[k] = state'[k]
             ELSE cycle'.asked # {} => \E d \in cycle'.since :
                    cycle'.pending[k] = IF d.up THEN Answer(k, d) ELSE state'[k]
    BY Zenon, <1>1, <1>2, <1>3
<1>5. cycle'.asked # {} /\ "status" \notin cycle'.asked =>
        \E d \in cycle'.since : cycle'.pending.error = ~ d.up
    BY Zenon, <1>1, <1>2, <1>3
<1> QED
    BY Zenon, <1>1, <1>2, <1>3, <1>4, <1>5 DEF PollInv

\* No poll is under way: after a commit, and when the application has ended.
LEMMA NoPollHolds ==
  ASSUME cycle' = NoPoll
  PROVE  PollInv'
<1>1. /\ cycle' = [asked |-> cycle'.asked, outstanding |-> cycle'.outstanding, old |-> cycle'.old,
                   pending |-> cycle'.pending, since |-> cycle'.since]
      /\ cycle'.asked = {} /\ cycle'.outstanding = 0
    BY DEF NoPoll
<1>2. cycle'.outstanding = Cardinality(cycle'.asked)
    BY Zenon, <1>1, FS_EmptySet
<1> QED
    BY Zenon, <1>1, <1>2 DEF PollInv

\* The replies of the poll: kept with the others, or, the last of them,
\* committed, and then nothing is left to ask (Cycle).
LEMMA ReplyPoll ==
  ASSUME PollInv, NEW kinds, Reply(kinds)
  PROVE  /\ PollInv'
         /\ cycle'.outstanding = 0 =>
              /\ \A k \in Kinds : \E d \in cycle.since :
                   state'[k] = IF d.up THEN Answer(k, d) ELSE state[k]
              /\ \E d \in cycle.since : state'.error = ~ d.up
<1>1. /\ kinds # {} /\ kinds \subseteq cycle.asked /\ daemon' = daemon
      /\ Collect(kinds, cycle.asked \ kinds, cycle.old)
    BY Zenon DEF Reply
<1>2. /\ cycle.asked \subseteq Kinds /\ cycle.outstanding = Cardinality(cycle.asked)
      /\ cycle = [asked |-> cycle.asked, outstanding |-> cycle.outstanding, old |-> cycle.old,
                  pending |-> cycle.pending, since |-> cycle.since]
    BY Zenon DEF PollInv
<1>3. /\ Cardinality(cycle.asked) \in Nat /\ Cardinality(kinds) \in Nat
      /\ Cardinality(kinds) <= Cardinality(cycle.asked)
      /\ Cardinality(kinds) = Cardinality(cycle.asked) => kinds = cycle.asked
      /\ Cardinality(cycle.asked \ kinds) = Cardinality(cycle.asked) - Cardinality(kinds)
    BY Zenon, <1>1, <1>2, QuestionsAreCounted
<1>4. Left(Cardinality(kinds)) = Cardinality(cycle.asked \ kinds)
    BY <1>2, <1>3 DEF Left
<1> DEFINE s == Fold(kinds, cycle.pending)
<1>5. /\ daemon \in cycle.since
      /\ \A k \in Kinds :
           IF k \in cycle.asked \ kinds THEN s[k] = state[k]
           ELSE \E d \in cycle.since : s[k] = IF d.up THEN Answer(k, d) ELSE state[k]
      /\ "status" \notin cycle.asked \ kinds => \E d \in cycle.since : s.error = ~ d.up
    BY <1>1, FoldIsOfItsTime
<1>6. IF Left(Cardinality(kinds)) = 0 THEN Commit(s, cycle.asked \ kinds)
      ELSE /\ cycle' = [cycle EXCEPT !.asked = cycle.asked \ kinds, !.old = cycle.old, !.pending = s,
                                     !.outstanding = Left(Cardinality(kinds))]
           /\ state' = state
    BY Zenon, <1>1 DEF Collect
<1> HIDE DEF s
<1>7. CASE Left(Cardinality(kinds)) = 0
  <2>1. kinds = cycle.asked
      BY <1>3, <1>4, <1>7
  <2>2. cycle.asked \ kinds = {}
      BY Zenon, <2>1
  <2>3. state' = s /\ cycle' = [NoPoll EXCEPT !.asked = cycle.asked \ kinds]
      BY Zenon, <1>6, <1>7 DEF Commit
  <2>4. cycle' = NoPoll
      BY <2>2, <2>3 DEF NoPoll
  <2>5. PollInv'
      BY Zenon, <2>4, NoPollHolds
  <2>6. \A k \in Kinds : \E d \in cycle.since : s[k] = IF d.up THEN Answer(k, d) ELSE state[k]
      BY Zenon, <1>5, <2>2
  <2>7. \E d \in cycle.since : s.error = ~ d.up
      BY Zenon, <1>5, <2>2
  <2> QED
      BY Zenon, <2>3, <2>5, <2>6, <2>7
<1>8. CASE Left(Cardinality(kinds)) # 0
  <2> DEFINE rest == cycle.asked \ kinds
             count == Left(Cardinality(kinds))
  <2>1. /\ cycle' = [cycle EXCEPT !.asked = rest, !.old = cycle.old, !.pending = s,
                                  !.outstanding = count]
        /\ state' = state
      BY Zenon, <1>6, <1>8
  <2>2. /\ count # 0 /\ count = Cardinality(rest) /\ rest \subseteq Kinds
        /\ \A k \in Kinds :
             IF k \in rest THEN s[k] = state[k]
             ELSE \E d \in cycle.since : s[k] = IF d.up THEN Answer(k, d) ELSE state[k]
        /\ "status" \notin rest => \E d \in cycle.since : s.error = ~ d.up
      BY Zenon, <1>2, <1>4, <1>5, <1>8
  <2> HIDE DEF rest, count
  <2>3. cycle' = [asked |-> rest, outstanding |-> count, old |-> cycle.old, pending |-> s,
                  since |-> cycle.since]
      BY Zenon, <1>2, <2>1
  <2>4. /\ cycle'.asked = rest /\ cycle'.outstanding = count /\ cycle'.old = cycle.old
        /\ cycle'.pending = s /\ cycle'.since = cycle.since
      BY Zenon, <2>3
  <2>5. cycle' = [asked |-> cycle'.asked, outstanding |-> cycle'.outstanding, old |-> cycle'.old,
                  pending |-> cycle'.pending, since |-> cycle'.since]
      BY Zenon, <2>3, <2>4
  <2>6. ASSUME NEW k \in Kinds
        PROVE  IF k \in cycle'.asked THEN cycle'.pending[k] = state'[k]
               ELSE cycle'.asked # {} => \E d \in cycle'.since :
                      cycle'.pending[k] = IF d.up THEN Answer(k, d) ELSE state'[k]
      BY Zenon, <2>1, <2>2, <2>4
  <2>7. /\ cycle'.asked \subseteq Kinds /\ cycle'.outstanding = Cardinality(cycle'.asked)
        /\ daemon' \in cycle'.since
        /\ "status" \notin cycle'.asked => \E d \in cycle'.since : cycle'.pending.error = ~ d.up
      BY Zenon, <1>1, <1>5, <2>2, <2>4
  <2> QED
      BY Zenon, <2>2, <2>4, <2>5, <2>6, <2>7 DEF PollInv
<1> QED
    BY Zenon, <1>7, <1>8

\* Every other step starts a poll, lets the one under way go on, or ends the
\* application.
LEMMA OtherStepsPoll ==
  ASSUME Person \/ World \/ OldReply \/ Tick \/ DaemonStarts \/ UNCHANGED vars
         \/ \E c \in calls : Serve(c) \/ Deliver(c)
  PROVE  \/ state' = state /\ RefreshNow
         \/ state' = state /\ (KeepPoll \/ UNCHANGED <<cycle, daemon>> \/ OldReply)
         \/ cycle' = NoPoll /\ ~ Running'
<1>1. CASE ShowQuickPanel \/ ShowSettings \/ ChooseInPanel \/ Tick
    BY Zenon, <1>1 DEF ShowQuickPanel, ShowSettings, ChooseInPanel, Tick
<1>2. CASE ClosePanel
  <2>1. /\ panel' = {} /\ pages' = pages /\ daemon' = daemon
        /\ \E kept, waiting : Leave(pages # {}, kept, waiting)
      BY Zenon, <1>2 DEF ClosePanel
  <2> QED
      BY Zenon, <2>1 DEF Running, Leave
<1>3. CASE CloseSettings
  <2>1. /\ pages' = {} /\ panel' = panel /\ daemon' = daemon
        /\ \E kept, waiting : Leave(panel # {}, kept, waiting)
      BY Zenon, <1>3 DEF CloseSettings
  <2> QED
      BY Zenon, <2>1 DEF Running, Leave
<1>4. CASE SendFileInPanel \/ SendClipboardInPanel \/ ChooseOnDashboard
    BY Zenon, <1>4 DEF SendFileInPanel, SendClipboardInPanel, ChooseOnDashboard
<1>5. CASE \E page \in Pages : \E c \in Shown(page) :
             PressSwitch(page, c) \/ PressButton(page, c) \/ OpenDialog(page, c)
    BY Zenon, <1>5 DEF PressSwitch, PressButton, OpenDialog
<1>6. CASE \E x \in dialogs, yes \in BOOLEAN : AnswerDialog(x, yes)
    BY Zenon, <1>6 DEF AnswerDialog
<1>7. CASE World
    BY Zenon, <1>7, WorldHappens DEF Happens
<1>8. CASE OldReply
    BY Zenon, <1>8 DEF OldReply
<1>9. CASE DaemonStarts \/ \E c \in calls : Serve(c)
    BY Zenon, <1>9 DEF DaemonStarts, Serve
<1>10. CASE \E c \in calls : Deliver(c)
    BY Zenon, <1>10 DEF Deliver
<1>11. CASE UNCHANGED vars
    BY Zenon, <1>11 DEF vars
<1>12. CASE Person
    BY Zenon, <1>1, <1>2, <1>3, <1>4, <1>5, <1>6, <1>12 DEF Person
<1> QED
    BY Zenon, <1>1, <1>7, <1>8, <1>9, <1>10, <1>11, <1>12

\* The first poll has been started and nothing has been heard.
LEMMA InitPoll == Init => PollInv
<1> SUFFICES ASSUME Init PROVE PollInv
    OBVIOUS
<1> DEFINE count == Cardinality(Kinds)
<1>1. /\ cycle = [asked |-> Kinds, outstanding |-> count, old |-> MaxOld, pending |-> Empty,
                  since |-> {daemon}]
      /\ state = Empty
    BY Zenon DEF Init
<1>2. count = Cardinality(Kinds)
    OBVIOUS
<1> HIDE DEF count
<1>3. /\ cycle.asked = Kinds /\ cycle.outstanding = count /\ cycle.old = MaxOld
      /\ cycle.pending = Empty /\ cycle.since = {daemon}
    BY Zenon, <1>1
<1>4. cycle = [asked |-> cycle.asked, outstanding |-> cycle.outstanding, old |-> cycle.old,
               pending |-> cycle.pending, since |-> cycle.since]
    BY Zenon, <1>1, <1>3
<1>5. "status" \in cycle.asked
    BY Zenon, <1>3 DEF Kinds
<1>6. cycle.outstanding = Cardinality(cycle.asked)
    BY Zenon, <1>2, <1>3
<1> QED
    BY Zenon, <1>1, <1>3, <1>4, <1>5, <1>6 DEF PollInv

\* A poll holds answers given since it began, and what was known before of
\* the questions still open; the counter is the number of those (Cycle).
THEOREM PollInvariant == Spec => []PollInv
<1>1. Init => PollInv
    BY InitPoll
<1>2. PollInv /\ [Next]_vars => PollInv'
  <2> SUFFICES ASSUME PollInv, [Next]_vars PROVE PollInv'
      OBVIOUS
  <2>1. CASE \E late \in Late : Reply(cycle.asked \ late)
      BY Zenon, <2>1, ReplyPoll
  <2>2. CASE ~ \E late \in Late : Reply(cycle.asked \ late)
    <3>1. \/ state' = state /\ RefreshNow
          \/ state' = state /\ (KeepPoll \/ UNCHANGED <<cycle, daemon>> \/ OldReply)
          \/ cycle' = NoPoll /\ ~ Running'
        BY Zenon, <2>2, OtherStepsPoll DEF Next, Work
    <3> QED
        BY Zenon, <3>1, PollStarts, PollGoesOn, NoPollHolds
  <2> QED
      BY Zenon, <2>1, <2>2
<1> QED
    BY <1>1, <1>2, PTL DEF Spec

\* What a poll commits was said during that poll, in whatever order the
\* replies of it and of the polls it superseded come (spawn_refresh, Cycle).
THEOREM PollsAreOfTheirTime == Spec => PollIsOfItsTime
<1> DEFINE Step ==
      cycle.outstanding > 0 /\ cycle'.outstanding = 0 /\ Running' =>
       /\ \A k \in Kinds : \E d \in cycle.since :
            state'[k] = IF d.up THEN Answer(k, d) ELSE state[k]
       /\ \E d \in cycle.since : state'.error = ~d.up
<1>1. PollInv /\ [Next]_vars => [Step]_vars
  <2> SUFFICES ASSUME PollInv, Next,
                      cycle.outstanding > 0, cycle'.outstanding = 0, Running'
               PROVE  Step
      BY Zenon
  <2>1. CASE \E late \in Late : Reply(cycle.asked \ late)
      BY Zenon, <2>1, ReplyPoll
  <2>2. CASE ~ \E late \in Late : Reply(cycle.asked \ late)
    <3> HIDE DEF Step
    <3>1. \/ state' = state /\ RefreshNow
          \/ state' = state /\ (KeepPoll \/ UNCHANGED <<cycle, daemon>> \/ OldReply)
          \/ cycle' = NoPoll /\ ~ Running'
        BY Zenon, <2>2, OtherStepsPoll DEF Next, Work
    <3>2. cycle.outstanding # 0
      <4>1. ~ (0 > 0)
          OBVIOUS
      <4> QED
          BY Zenon, <4>1
    <3> QED
        BY Zenon, <3>1, <3>2, PollStarts, PollGoesOn
  <2> QED
      BY Zenon, <2>1, <2>2
<1> QED
    BY <1>1, PollInvariant, PTL DEF Spec, PollIsOfItsTime

=============================================================================
