----------------------------- MODULE DesktopApp -----------------------------
(* The desktop application (gui/src): the poll of the daemon, the stored    *)
(* choice of device, the Quick Panel and the Settings window, the dialogs   *)
(* that stand between a press and a request, and the requests in flight.    *)
(* Everything of the application runs on one thread, so a handler is one    *)
(* action; what interleaves are the replies, which arrive in any order, the *)
(* person, other clients of the daemon, and the daemon's own life.          *)
EXTENDS SettingsPages, ControlReports

CONSTANTS
  Starts,        \* the daemon, the stored choice and the windows at the start
  MaxEvents,     \* bound on presses, windows opened or closed, outside events
  Pressed(_),    \* the controls of Settings that the person presses
  Late,          \* the sets of replies of a poll that may be late
  MaxOld         \* bound on the replies followed from superseded polls

VARIABLES
  daemon,    \* the daemon's state, as in ControlReports, and whether it is up
  cycle,     \* the poll under way
  state,     \* DaemonState: what the last finished poll said
  choice,    \* Selection: the choice in memory and the one in gui.json
  panel,     \* what the Quick Panel shows, {} when it is closed
  pages,     \* what the pages of Settings show, {} when it is closed
  dialogs,   \* file choosers and confirmations in front of the person
  calls,     \* requests in flight
  said,      \* the last toast of the panel
  lagging,   \* history: surfaces that may show something else than state
  events     \* presses and outside events so far

vars == <<daemon, cycle, state, choice, panel, pages, dialogs, calls, said,
          lagging, events>>

Empty == [status |-> {}, devices |-> {}, transfers |-> {}, clipboard |-> {},
          notifications |-> {}, error |-> FALSE]

NoPoll == [asked |-> {}, outstanding |-> 0, old |-> 0, pending |-> Empty,
           since |-> {}]

\* The application lives as long as one of its windows does.
Running == panel # {} \/ pages # {}

Spend == events < MaxEvents /\ events' = events + 1

(***************************************************************************)
(* Drawing.                                                                *)
(***************************************************************************)

DrawAll(s, chosen) == [page \in Pages |-> Draw(page, s, chosen)]

\* redraw_panel: both windows, whatever has changed.
Redraw(s, chosen) ==
  /\ panel' = {Build(s, chosen) : x \in panel}
  /\ pages' = {DrawAll(s, chosen) : x \in pages}
  /\ lagging' = {}

\* The slices in which two states differ.  `moved' says that a second has
\* passed, which is a difference to a report that carries a clock.
Changed(before, after, moved) ==
  {k \in Kinds \ {"devices"} :
     before[k] # after[k] \/ (moved /\ CarriesClock(k, after[k]))}
  \cup (IF before.error # after.error THEN {"error"} ELSE {})

\* The pages with a slice that differs.
Redrawn(s, moved) ==
  LET changed == Changed(state, s, moved)
  IN {page \in Pages : Slices(page) \cap changed # {}}

\* render: the panel when its model differs, a page when a slice of it does.
Render(s, redrawn) ==
  /\ panel' = {Build(s, choice.now) : x \in panel}
  /\ pages' = {[page \in Pages |->
                  IF page \in redrawn THEN Draw(page, s, choice.now)
                  ELSE shown[page]] : shown \in pages}
  /\ lagging' = (lagging \ (redrawn \cup {"panel"}))
                \cup (IF s.devices # state.devices
                      THEN {"dashboard", "devices", "peers"} \ redrawn
                      ELSE {})

(***************************************************************************)
(* The poll: five questions, committed together.                           *)
(***************************************************************************)

\* A new generation.  Whatever is still on its way belongs to an old one.
Refreshed(s, d) ==
  LET left == cycle.old + Cardinality(cycle.asked) IN
  [asked |-> Kinds, outstanding |-> Cardinality(Kinds),
   old |-> IF left < MaxOld THEN left ELSE MaxOld,
   pending |-> s, since |-> {d}]

RefreshNow == cycle' = Refreshed(state, daemon')

\* A reply that is of no use leaves the poll as it is.
KeepPoll ==
  cycle' = [cycle EXCEPT !.since = IF cycle.asked = {} THEN {}
                                   ELSE @ \cup {daemon'}]

\* The replies to some of the questions.  A daemon that cannot be reached
\* leaves what is known as it is and is reported as an error.
Fold(kinds, s) ==
  LET Now(k) == IF k \in kinds /\ daemon.up THEN Answer(k, daemon) ELSE s[k] IN
  [status |-> Now("status"), devices |-> Now("devices"),
   transfers |-> Now("transfers"), clipboard |-> Now("clipboard"),
   notifications |-> Now("notifications"),
   error |-> IF "status" \in kinds THEN ~daemon.up ELSE s.error]

\* saturating_sub.
Left(n) == IF cycle.outstanding < n THEN 0 ELSE cycle.outstanding - n

\* The commit of the last reply, drawn where something has changed.
Commit(s, asked) ==
  /\ state' = s
  /\ cycle' = [NoPoll EXCEPT !.asked = asked]
  /\ \E redrawn \in {Redrawn(s, moved) : moved \in BOOLEAN} : Render(s, redrawn)

Collect(kinds, asked, old) ==
  \E s \in {Fold(kinds, cycle.pending)} :
    IF Left(Cardinality(kinds)) = 0 THEN Commit(s, asked)
    ELSE /\ cycle' = [cycle EXCEPT !.asked = asked, !.old = old, !.pending = s,
                                   !.outstanding = Left(Cardinality(kinds))]
         /\ UNCHANGED <<state, panel, pages, lagging>>

\* Replies arrive in any order.  Those with nothing in between are taken
\* together; the late ones come later.
Reply(kinds) ==
  /\ kinds # {} /\ kinds \subseteq cycle.asked
  /\ cycle.asked \ kinds \in Late
  /\ Collect(kinds, cycle.asked \ kinds, cycle.old)
  /\ UNCHANGED <<daemon, choice, dialogs, calls, said, events>>

\* Mutant: the generation of a reply is not looked at.
OldReplyIsFolded ==
  /\ cycle.old > 0
  /\ \E kind \in Kinds : Collect({kind}, cycle.asked, cycle.old - 1)
  /\ UNCHANGED <<daemon, choice, dialogs, calls, said, events>>

\* A reply of an earlier generation is discarded.  It is followed only while
\* a poll is under way; later there is nothing it could be taken for.
OldReply ==
  /\ cycle.old > 0
  /\ cycle' = [cycle EXCEPT !.old = @ - 1]
  /\ UNCHANGED <<daemon, state, choice, panel, pages, dialogs, calls, said,
                 lagging, events>>

\* Every REFRESH_SECS, whether or not the last poll has been answered; one
\* that overtakes the last poll counts as an event.
Tick ==
  /\ Running
  /\ IF cycle.asked = {} THEN UNCHANGED events ELSE Spend
  /\ daemon' = daemon /\ RefreshNow
  /\ UNCHANGED <<state, choice, panel, pages, dialogs, calls, said, lagging>>

(***************************************************************************)
(* Windows.                                                                *)
(***************************************************************************)

\* A window is built from the state as it stands, and a poll is started.
\* The first one starts the application: the choice is read from its file.
\* Presenting a window that exists changes nothing.
ShowQuickPanel ==
  /\ panel = {} /\ Spend
  /\ choice' = [choice EXCEPT !.now = IF Running THEN @ ELSE choice.file]
  /\ panel' = {Build(state, choice'.now)}
  /\ lagging' = lagging \ {"panel"}
  /\ daemon' = daemon /\ RefreshNow
  /\ UNCHANGED <<state, pages, dialogs, calls, said>>

ShowSettings ==
  /\ pages = {} /\ Spend
  /\ choice' = [choice EXCEPT !.now = IF Running THEN @ ELSE choice.file]
  /\ pages' = {DrawAll(state, choice'.now)}
  /\ lagging' = lagging \cap {"panel"}
  /\ daemon' = daemon /\ RefreshNow
  /\ UNCHANGED <<state, panel, dialogs, calls, said>>

\* What is left of the application when a window has closed.  With the last
\* one the process ends, and with it the poll and the waiting replies.
Leave(stays, kept, waiting) ==
  /\ state' = IF stays THEN state ELSE Empty
  /\ cycle' = IF stays THEN cycle ELSE NoPoll
  /\ dialogs' = IF stays THEN kept ELSE {}
  /\ calls' = IF stays THEN waiting ELSE {}
  /\ choice' = IF stays THEN choice ELSE [choice EXCEPT !.now = {}]

\* The panel is forgotten: its chooser goes with it, and a reply to one of
\* its requests finds nobody to tell.
ClosePanel ==
  /\ panel # {} /\ Spend
  /\ panel' = {} /\ said' = "" /\ lagging' = lagging \ {"panel"}
  /\ Leave(pages # {}, {x \in dialogs : x.from # "panel"},
           {[c EXCEPT !.from = IF @ = "panel" THEN "closed" ELSE @] : c \in calls})
  /\ UNCHANGED <<daemon, pages>>

\* The handlers of the Settings pages hold the pages themselves, so their
\* replies are still heard, and so is the dashboard's file chooser.
CloseSettings ==
  /\ pages # {} /\ Spend
  /\ pages' = {} /\ lagging' = lagging \cap {"panel"}
  /\ Leave(panel # {},
           {[x EXCEPT !.from = IF @ = "settings" THEN "closed" ELSE @] :
              x \in {y \in dialogs : y.from # "settings" \/ y.r[1] = "send file"}},
           calls)
  /\ UNCHANGED <<daemon, panel, said>>

(***************************************************************************)
(* The choice of device.                                                   *)
(***************************************************************************)

\* choose: at once in memory, and in the file if it can be written.
Choose(fp) ==
  choice' \in {[now |-> {fp}, file |-> f] :
                 f \in IF choice.now = {fp} THEN {choice.file}
                       ELSE {choice.file, {fp}}}

\* Mutant: whatever is chosen is forgotten when a device is removed.
ForgetAny(fps) == choice' = [now |-> {}, file |-> {}]

\* forget_if, for each of the devices removed.
Forget(fps) ==
  choice' \in IF choice.now # {} /\ choice.now \subseteq fps
              THEN {[now |-> {}, file |-> f] : f \in {choice.file, {}}}
              ELSE {choice}

\* The radios that can be turned on: drawn when there is a choice to make.
Radios(p) ==
  IF p.health = "available" /\ Cardinality(p.peers) > 1
  THEN {c.fp : c \in {e \in p.peers : ~e.selected}} ELSE {}

ChooseInPanel ==
  /\ Spend
  /\ \A x \in dialogs : x.from # "panel"
  /\ \E p \in panel : \E fp \in Radios(p) : Choose(fp)
  /\ Redraw(state, choice'.now)
  /\ daemon' = daemon /\ RefreshNow
  /\ UNCHANGED <<state, dialogs, calls, said>>

\* A control of the Settings window that no dialog is in front of.
Shown(page) == IF \A x \in dialogs : x.from # "settings"
               THEN {c \in UNION {shown[page] : shown \in pages} : Pressed(c)}
               ELSE {}

\* "Use this device" on the dashboard: no poll is started.
ChooseOnDashboard ==
  /\ Spend
  /\ \E c \in Shown("dashboard") : c[1] = "use" /\ Choose(c[2])
  /\ Redraw(state, choice'.now)
  /\ UNCHANGED <<daemon, cycle, state, dialogs, calls, said>>

(***************************************************************************)
(* Presses.  A request names what the control named when it was drawn.     *)
(* `chosen' keeps the choice at the press and `removes' the devices the    *)
(* request would take off the list.                                        *)
(***************************************************************************)

Press(from, r, removes) ==
  [n |-> events, from |-> from, r |-> r, removes |-> removes,
   chosen |-> choice.now, at |-> "sent"]

\* A switch flips as it is pressed, before the daemon has been asked; so
\* does the selected row of the lock policies.
Flipped(c) == [c EXCEPT ![4] = IF @ = "on" THEN "off" ELSE "on"]

AfterFlip(shown, c) ==
  IF c[1] = "locked"
  THEN {x \in shown : x[1] \notin {"locked", "locked now"} \/ x[2] # c[2]}
       \cup {<<"locked now", c[2], c[3], "">>}
       \cup {<<"locked", c[2], policy, "">> : policy \in LockPolicies \ {c[3]}}
  ELSE (shown \ {c}) \cup {Flipped(c)}

PressSwitch(page, c) ==
  /\ Spend
  /\ c \in Shown(page) /\ c[1] \in Switches \cup {"locked"}
  /\ calls' = calls \cup
       {Press("settings", IF c[1] = "locked" THEN c ELSE Flipped(c), {})}
  /\ pages' = {[shown EXCEPT ![page] = AfterFlip(@, c)] : shown \in pages}
  /\ lagging' = lagging \cup {page}
  /\ UNCHANGED <<daemon, cycle, state, choice, panel, dialogs, said>>

\* Buttons that send at once.
PressButton(page, c) ==
  /\ Spend
  /\ c \in Shown(page) /\ c[1] \in {"send clipboard", "copy", "cancel"}
  /\ calls' = calls \cup {Press("settings", c, {})}
  /\ UNCHANGED <<daemon, cycle, state, choice, panel, pages, dialogs, said,
                 lagging>>

\* The devices a request would take off the list: those drawn as revoked.
Removes(page, c) ==
  CASE c[1] = "remove" -> {c[2]}
    [] c[1] = "remove all" ->
         {x[2] : x \in {y \in Shown(page) : y[1] = "remove all"}}
    [] OTHER -> {}

\* Buttons that ask first: for a file, or whether the person means it.
OpenDialog(page, c) ==
  /\ Spend
  /\ c \in Shown(page)
  /\ c[1] \in {"send file", "revoke", "remove", "remove all"}
  /\ dialogs' = dialogs \cup {Press("settings", c, Removes(page, c))}
  /\ UNCHANGED <<daemon, cycle, state, choice, panel, pages, calls, said,
                 lagging>>

\* The two actions of the panel.
SendFileInPanel ==
  /\ Spend
  /\ \A x \in dialogs : x.from # "panel"
  /\ \E p \in panel : \E fp \in p.send_file :
       dialogs' = dialogs \cup {Press("panel", <<"send file", fp, "", "">>, {})}
  /\ UNCHANGED <<daemon, cycle, state, choice, panel, pages, calls, said,
                 lagging>>

SendClipboardInPanel ==
  /\ Spend
  /\ \A x \in dialogs : x.from # "panel"
  /\ \E p \in panel : \E fp \in p.send_clipboard :
       calls' = calls \cup {Press("panel", <<"send clipboard", fp, "", "">>, {})}
  /\ UNCHANGED <<daemon, cycle, state, choice, panel, pages, dialogs, said,
                 lagging>>

\* Mutant: the destination is looked up again when the file is chosen.
AnswerAnew(x, yes) ==
  /\ x \in dialogs
  /\ dialogs' = dialogs \ {x}
  /\ calls' = IF ~yes THEN calls
              ELSE calls \cup
                {[x EXCEPT !.r = IF x.r[1] = "send file" /\ choice.now # {}
                                 THEN <<x.r[1], CHOOSE fp \in choice.now : TRUE,
                                        "", "">>
                                 ELSE x.r]}
  /\ UNCHANGED <<daemon, cycle, state, choice, panel, pages, said, lagging,
                 events>>

\* The person chooses a file or confirms, or closes the dialog.
AnswerDialog(x, yes) ==
  /\ x \in dialogs
  /\ dialogs' = dialogs \ {x}
  /\ calls' = IF yes THEN calls \cup {x} ELSE calls
  /\ UNCHANGED <<daemon, cycle, state, choice, panel, pages, said, lagging,
                 events>>

(***************************************************************************)
(* Requests in flight.                                                     *)
(***************************************************************************)

\* The daemon serves a request or refuses it (a store that cannot be
\* written, a file that cannot be read); or it is not there to be reached.
Serve(c) ==
  /\ c \in calls /\ c.at = "sent"
  /\ \E ok \in {b \in BOOLEAN : b => daemon.up /\ Acceptable(daemon, c.r)} :
       /\ daemon' = IF ok THEN Served(daemon, c.r) ELSE daemon
       /\ calls' = (calls \ {c}) \cup
            {[c EXCEPT !.at = CASE ~daemon.up -> "lost"
                               [] daemon.up /\ ok -> "done"
                               [] OTHER -> "refused"]}
  /\ KeepPoll
  /\ UNCHANGED <<state, choice, panel, pages, dialogs, said, lagging, events>>

\* What `exchange' makes of the first line that comes back.  An accepted
\* Send is answered by a stream of events, and an event is no Response.
Exchanged(c) ==
  IF c.at = "lost" \/ (c.at = "done" /\ c.r[1] = "send file")
  THEN "error" ELSE c.at

Toast(c) ==
  CASE Exchanged(c) = "refused" -> "could not send"
    [] Exchanged(c) = "done" ->
         IF c.r[1] = "send file" THEN "offering" ELSE "submitted"
    [] OTHER -> "service not available"

\* The handler of the reply.  A request of a closed panel, a cancelled
\* transfer and the dashboard's file have none.
Deliver(c) ==
  /\ c \in calls /\ c.at # "sent"
  /\ calls' = calls \ {c}
  /\ IF c.r[1] \in {"remove", "remove all"} /\ Exchanged(c) # "refused"
     THEN Forget(c.removes) ELSE UNCHANGED choice
  /\ lagging' = lagging \cup (IF choice'.now = choice.now THEN {}
                             ELSE {"panel", "dashboard"})
  /\ said' = IF c.from = "panel" THEN Toast(c) ELSE said
  /\ daemon' = daemon
  /\ IF c.from # "settings" \/ c.r[1] \in {"cancel", "send file"}
     THEN UNCHANGED cycle ELSE RefreshNow
  /\ UNCHANGED <<state, panel, pages, dialogs, events>>

(***************************************************************************)
(* Outside events: the devices, other clients of the daemon, its life.     *)
(***************************************************************************)

\* What the daemon does of itself leaves the application as it is; a poll
\* under way will see it in the answers still to come.
Happens(d) ==
  /\ Spend /\ daemon.up /\ daemon' = d /\ KeepPoll
  /\ UNCHANGED <<state, choice, panel, pages, dialogs, calls, said, lagging>>

WithLink(peer, link) ==
  [peer EXCEPT !.link = link,
               !.negotiated = CASE link = "off" -> {}
                                [] link = "stale" -> @
                                [] OTHER -> peer.granted,
               !.held = @ /\ link # "off",
               !.seen = @ \/ link = "off"]

LinkChanges(p) ==
  \E link \in {"connected", "stale", "off"} \ {daemon.peers[p].link} :
    /\ daemon.peers[p].trust = "trusted"
    /\ link = "stale" => daemon.peers[p].link = "connected"
    /\ Happens([daemon EXCEPT !.peers[p] = WithLink(@, link)])

UnpairedElsewhere(p) ==
  /\ daemon.peers[p].trust = "trusted"
  /\ Happens(Revoked(daemon, p))

\* Pairing (again): nothing but the battery is granted, and the policies
\* are the defaults.
Pairs(p) ==
  /\ daemon.peers[p].trust # "trusted"
  /\ Happens([daemon EXCEPT !.peers[p] =
       WithLink([@ EXCEPT !.trust = "trusted", !.granted = {BATTERY},
                          !.flags = {"send", "receive", "mirror"},
                          !.locked = "app-only"], "connected")])

ClipArrives(p) ==
  /\ daemon.peers[p].link = "connected" /\ ~daemon.peers[p].held
  /\ CLIPBOARD \in daemon.peers[p].negotiated
  /\ Happens(SetPeer(daemon, p, "held", TRUE))

FileComes(p) ==
  /\ FILES \in daemon.peers[p].negotiated
  /\ Cardinality(daemon.transfers) < MaxTransfers
  /\ Happens([daemon EXCEPT !.transfers =
                @ \cup {NewTransfer(daemon, p, "receiving")}])

TransferEnds(t) ==
  /\ t.state \notin Terminal
  /\ \E end \in {<<"completed", {}>>, <<"failed", {"transport"}>>} :
       Happens([daemon EXCEPT !.transfers =
                 (@ \ {t}) \cup {[t EXCEPT !.state = end[1],
                                           !.failure = end[2]]}])

DaemonStops ==
  Happens([daemon EXCEPT
    !.up = FALSE, !.transfers = {},
    !.peers = [p \in Peers |-> [WithLink(@[p], "off") EXCEPT !.seen = FALSE]]])

DaemonStarts ==
  /\ ~daemon.up
  /\ daemon' = [daemon EXCEPT !.up = TRUE] /\ KeepPoll
  /\ UNCHANGED <<state, choice, panel, pages, dialogs, calls, said, lagging,
                 events>>

(***************************************************************************)
(* The specification.  One window, or both, before anything is heard.     *)
(***************************************************************************)

Init ==
  /\ \E start \in Starts :
       /\ daemon = start.daemon
       /\ choice = [now |-> start.stored, file |-> start.stored]
       /\ panel = IF "panel" \in start.windows
                  THEN {Build(Empty, start.stored)} ELSE {}
       /\ pages = IF "settings" \in start.windows
                  THEN {DrawAll(Empty, start.stored)} ELSE {}
  /\ state = Empty /\ dialogs = {} /\ calls = {} /\ said = "" /\ lagging = {}
  /\ cycle = [asked |-> Kinds, outstanding |-> Cardinality(Kinds),
              old |-> MaxOld, pending |-> Empty, since |-> {daemon}]
  /\ events = 0

Person ==
  \/ ShowQuickPanel \/ ShowSettings \/ ClosePanel \/ CloseSettings
  \/ ChooseInPanel \/ ChooseOnDashboard
  \/ SendFileInPanel \/ SendClipboardInPanel
  \/ /\ events < MaxEvents
     /\ \E page \in Pages : \E c \in Shown(page) :
          PressSwitch(page, c) \/ PressButton(page, c) \/ OpenDialog(page, c)
  \/ \E x \in dialogs, yes \in BOOLEAN : AnswerDialog(x, yes)

World ==
  /\ events < MaxEvents
  /\ \/ \E p \in Peers : \/ LinkChanges(p) \/ UnpairedElsewhere(p) \/ Pairs(p)
                         \/ ClipArrives(p) \/ FileComes(p)
     \/ \E t \in daemon.transfers : TransferEnds(t)
     \/ DaemonStops

Work ==
  \/ \E late \in Late : Reply(cycle.asked \ late)
  \/ OldReply \/ Tick \/ DaemonStarts
  \/ \E c \in calls : Serve(c) \/ Deliver(c)

Next == Person \/ World \/ Work

Spec == Init /\ [][Next]_vars

(***************************************************************************)
(* Properties.                                                             *)
(***************************************************************************)

\* What a poll commits was said during that poll: every slice is an answer
\* the daemon gave since the poll was started, or, if it could not be
\* reached, what was known before.  No reply of a superseded poll is in it,
\* in whatever order the replies of both come (spawn_refresh, Cycle).
PollIsOfItsTime ==
  [][cycle.outstanding > 0 /\ cycle'.outstanding = 0 /\ Running' =>
       /\ \A k \in Kinds : \E d \in cycle.since :
            state'[k] = IF d.up THEN Answer(k, d) ELSE state[k]
       /\ \E d \in cycle.since : state'.error = ~d.up]_vars

\* The Quick Panel shows the model of what is known and chosen now, whatever
\* window, press, removal or poll came last; excepted are the moments between
\* a forgotten choice and the next poll (refresh_if_changed, redraw_panel).
\* So does each page of Settings, although it is redrawn only when its own
\* slices change; excepted are a page whose switch was just pressed and one
\* that waits for the list of devices, which is in no page's slices
\* (Pages::render).
WindowsShowState ==
  /\ "panel" \notin lagging => \A m \in panel : m = Build(state, choice.now)
  /\ \A shown \in pages : \A page \in Pages \ lagging :
       shown[page] = Draw(page, state, choice.now)

\* A file, and a clip sent from the panel, goes to the device that was chosen
\* when the button was pressed, whatever is chosen, revoked or polled while
\* the file chooser is open and the request on its way (send_file).
SendsWhereChosen ==
  \A c \in dialogs \cup calls :
    (c.r[1] = "send file" \/ c.from = "panel") /\ c.chosen # {}
      => c.r[2] \in c.chosen

\* While the application runs, its choice changes only to a device that was
\* offered to the person, and is forgotten only when the removal of that very
\* device was confirmed and not refused (choose, forget_if).
ChoiceIsThePersons ==
  [][choice'.now # choice.now /\ Running /\ Running' =>
       \/ \E fp \in choice'.now :
            \/ \E p \in panel : \E c \in p.peers : c.fp = fp
            \/ \E shown \in pages : <<"use", fp, "", "">> \in shown["dashboard"]
       \/ /\ choice'.now = {}
          /\ \E c \in calls \ calls' :
               choice.now \subseteq c.removes /\ c.at # "refused"]_vars

(***************************************************************************)
(* What makes them inductive.                                              *)
(***************************************************************************)

\* A control names what it was drawn for; one that sends a file goes to the
\* chosen device, if one was chosen, and one that offers a device is all of it.
Control(c, chosen) ==
  /\ c = <<c[1], c[2], c[3], c[4]>>
  /\ c[1] = "send file" /\ chosen # {} => c[2] \in chosen
  /\ c[1] = "use" => c = <<"use", c[2], "", "">>

\* What the panel and the pages offer is aimed at the choice as it is now.
WindowsHold ==
  /\ \A m \in panel : choice.now # {} =>
       m.send_file \subseteq choice.now /\ m.send_clipboard \subseteq choice.now
  /\ \A shown \in pages :
       /\ shown = [page \in Pages |-> shown[page]]
       /\ \A page \in Pages : \A c \in shown[page] : Control(c, choice.now)
  /\ WindowsShowState

\* A press is aimed at the choice as it was then.
Aimed(c) ==
  /\ c = [n |-> c.n, from |-> c.from, r |-> c.r, removes |-> c.removes,
          chosen |-> c.chosen, at |-> c.at]
  /\ (c.r[1] = "send file" \/ c.from = "panel") /\ c.chosen # {}
       => c.r[2] \in c.chosen

AppInv ==
  /\ choice = [now |-> choice.now, file |-> choice.file]
  /\ WindowsHold
  /\ \A c \in dialogs \cup calls : Aimed(c)

\* A poll holds what the daemon said since it began, of the questions that
\* were answered, and what was known before of the others.
PollInv ==
  /\ cycle = [asked |-> cycle.asked, outstanding |-> cycle.outstanding,
              old |-> cycle.old, pending |-> cycle.pending, since |-> cycle.since]
  /\ cycle.asked \subseteq Kinds
  /\ cycle.outstanding = Cardinality(cycle.asked)
  /\ cycle.asked # {} => daemon \in cycle.since
  /\ \A k \in Kinds :
       IF k \in cycle.asked THEN cycle.pending[k] = state[k]
       ELSE cycle.asked # {} => \E d \in cycle.since :
              cycle.pending[k] = IF d.up THEN Answer(k, d) ELSE state[k]
  /\ cycle.asked # {} /\ "status" \notin cycle.asked =>
       \E d \in cycle.since : cycle.pending.error = ~d.up

=============================================================================
