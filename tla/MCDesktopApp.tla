---------------------------- MODULE MCDesktopApp ----------------------------
(* Two devices: one connected and allowed everything, the other offline,    *)
(* revoked, or connected with fewer grants.                                 *)
EXTENDS DesktopApp

CONSTANTS phone, tablet

All == {FILES, CLIPBOARD, NOTIFICATIONS, BATTERY}

Device(trust, link, caps, flags) ==
  [trust |-> trust, link |-> link, granted |-> caps,
   negotiated |-> IF link = "off" THEN {} ELSE caps,
   flags |-> flags, locked |-> "app-only", held |-> FALSE, seen |-> FALSE]

MCPeers == {phone, tablet}

Both(a, b) == [up |-> TRUE, transfers |-> {},
               peers |-> [x \in MCPeers |-> IF x = phone THEN a ELSE b]]

Full == Device("trusted", "connected", All, {"send", "receive", "mirror"})
Few == Device("trusted", "connected", {FILES}, {"send", "mirror"})
Gone == [Device("revoked", "off", {}, {}) EXCEPT !.locked = "suppress"]

Start(daemon0, stored, windows) ==
  [daemon |-> daemon0, stored |-> stored, windows |-> windows]

\* Any of these before or after the other four.
MCLate == {{}, {"status"}, {"devices"}}

\* One switch of each kind.
MCPressed(c) ==
  CASE c[1] = "grant" -> c[2] = tablet /\ c[3] \in {FILES, NOTIFICATIONS}
    [] c[1] = "clipboard" -> c[3] = "send"
    [] c[1] = "locked" -> c[3] = "full"
    [] OTHER -> TRUE

\* A choice made, a choice to be made, one that is revoked, nobody trusted.
MCStarts == {Start(Both(Full, Few), {phone}, {"panel", "settings"}),
             Start(Both(Full, Few), {}, {"panel"}),
             Start(Both(Full, Gone), {tablet}, {"panel"}),
             Start(Both(Gone, Gone), {tablet}, {"settings"})}
=============================================================================
