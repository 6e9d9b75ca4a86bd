--------------------------- MODULE ClipboardManager ---------------------------
(***************************************************************************)
(* clipboard.v1 on the desktop, the exchange with peers: ClipboardManager  *)
(* of capabilities/clipboard/src/lib.rs and EventCache of dedup.rs.        *)
(*                                                                         *)
(* A session of a peer handles one message at a time; a control client     *)
(* applies a held clip or sends the clipboard by hand.  They meet in maps  *)
(* and caches, each behind a lock of its own that is released between two  *)
(* steps.  Lifetimes are left to chance: a remembered id or a held clip    *)
(* may expire at any time.  The write itself, its suppression entry and    *)
(* the watcher are in ClipboardEcho.                                       *)
(***************************************************************************)
EXTENDS Naturals, Sequences

CONSTANTS
    Peers,
    Sessions,       \* connections with clipboard.v1, used once each
    Clients,        \* control connections
    Events,         \* event ids of inbound updates
    Policies,       \* the policies in use, each a set of flags
    EventCap,       \* EVENT_CACHE_ENTRIES
    MaxUpdates,     \* bound on inbound updates
    MaxSends,       \* bound on sends by hand
    MaxChanges,     \* bound on policy changes
    MaxTrouble,     \* bound on expiries and failed writes
    None

Flags == {"send", "receive", "autoSend", "autoReceive"}

Writers == Sessions \cup Clients

ASSUME ManagerAssumption ==
    /\ Policies \subseteq SUBSET Flags
    /\ EventCap \in Nat \ {0}
    /\ {MaxUpdates, MaxSends, MaxChanges, MaxTrouble} \subseteq Nat
    /\ Sessions \cap Clients = {}
    /\ None \notin Peers \cup Sessions \cup Events

\* An id is among the remembered ones.
Contains(s, e) == \E i \in 1 .. Len(s) : s[i] = e

VARIABLES
    policy,      \* what the authorizer answers for each peer
    attached,    \* ClipboardManager::sessions
    pending,     \* ClipboardManager::pending
    events,      \* EventCache
    at,          \* where each session and each client is
    peer,        \* the peer it works for
    job,         \* the update it is applying
    budget,      \* what is left of the bounds
    writes,      \* history: how often each update was written
    forgotten,   \* history: updates whose id left the event cache
    overtaken,   \* history: tasks whose peer's policy changed under them
    returned     \* history: peers for which a failed clip was put back

manager == <<attached, pending, events>>
history == <<writes, forgotten, overtaken, returned>>
vars == <<policy, manager, at, peer, job, budget, history>>

Init ==
    /\ policy \in [Peers -> Policies]
    /\ attached = [p \in Peers |-> None]
    /\ pending = [p \in Peers |-> None]
    /\ events = <<>>
    /\ at = [w \in Writers |-> IF w \in Sessions THEN "new" ELSE "idle"]
    /\ peer = [w \in Writers |-> None]
    /\ job = [w \in Writers |-> None]
    /\ budget = [updates |-> MaxUpdates, sends |-> MaxSends, changes |-> MaxChanges,
                 trouble |-> MaxTrouble]
    /\ writes = [e \in Events |-> 0]
    /\ forgotten = {}
    /\ overtaken = {}
    /\ returned = {}

Spend(what) ==
    /\ budget[what] > 0
    /\ budget' = [budget EXCEPT ![what] = @ - 1]

Goes(w, step) == at' = [at EXCEPT ![w] = step]

\* Between two operations.
Rest(w) == IF w \in Sessions THEN "ready" ELSE "idle"

-----------------------------------------------------------------------------
(* Policy and lifetimes.                                                   *)

AtWork == {w \in Writers : at[w] \notin {"new", "ready", "gone", "idle"}}

\* do_clipboard_policy, set_grant, unpair: the store's answer changes.
SetPolicy(p, new) ==
    /\ Spend("changes")
    /\ new # policy[p]
    /\ policy' = [policy EXCEPT ![p] = new]
    /\ overtaken' = overtaken \cup {w \in AtWork : peer[w] = p}
    /\ UNCHANGED <<manager, at, peer, job, writes, forgotten, returned>>

MayAutoReceive(p) == {"receive", "autoReceive"} \subseteq policy[p]

\* EventCache::expire, the oldest first.
EventExpires ==
    /\ Spend("trouble")
    /\ events # <<>>
    /\ events' = Tail(events)
    /\ forgotten' = forgotten \cup {Head(events)}
    /\ UNCHANGED <<policy, attached, pending, at, peer, job, writes, overtaken, returned>>

\* PENDING_CLIP_TTL: every reader of the map treats an old clip as absent.
PendingExpires(p) ==
    /\ Spend("trouble")
    /\ pending[p] # None
    /\ pending' = [pending EXCEPT ![p] = None]
    /\ UNCHANGED <<policy, attached, events, at, peer, job, history>>

-----------------------------------------------------------------------------
(* A session.                                                              *)

\* on_peer_connected.
AttachSession(s, p) ==
    /\ at[s] = "new"
    /\ Goes(s, "ready")
    /\ peer' = [peer EXCEPT ![s] = p]
    /\ attached' = [attached EXCEPT ![p] = s]
    /\ UNCHANGED <<policy, pending, events, job, budget, history>>

\* handle_update up to the event cache: the policy is read here, and used
\* after the cache has been asked.  An update that may not be received, or is
\* malformed, too large or at odds with its hash, goes no further.
HandleUpdate(s, e) ==
    /\ at[s] = "ready"
    /\ Spend("updates")
    /\ "receive" \in policy[peer[s]]
    /\ Goes(s, IF MayAutoReceive(peer[s]) THEN "admitToApply" ELSE "admitToHold")
    /\ job' = [job EXCEPT ![s] = e]
    /\ overtaken' = overtaken \ {s}
    /\ UNCHANGED <<policy, manager, peer, writes, forgotten, returned>>

\* EventCache::admit of a new id: appended, and the oldest goes when the cache
\* is full.
Remember(e) ==
    IF Len(events) < EventCap
    THEN events' = Append(events, e) /\ UNCHANGED forgotten
    ELSE /\ events' = Append(Tail(events), e)
         /\ forgotten' = forgotten \cup ({Head(events)} \ {e})

\* PendingUser: held for the person, in place of an earlier one.
Hold(s) ==
    /\ Goes(s, "ready")
    /\ pending' = [pending EXCEPT ![peer[s]] = job[s]]
    /\ job' = [job EXCEPT ![s] = None]

\* A plausible error: an id is remembered without being looked for.
AdmitAll(s) ==
    /\ at[s] \in {"admitToApply", "admitToHold"}
    /\ Remember(job[s])
    /\ IF at[s] = "admitToHold" THEN Hold(s) ELSE Goes(s, "write") /\ UNCHANGED <<pending, job>>
    /\ UNCHANGED <<policy, attached, peer, budget, writes, overtaken, returned>>

\* The id is admitted or known; a known one ends here.  The event cache and the
\* held clips are behind different locks, and no other step reads both, so the
\* clip is held in the same step.
Admit(s) ==
    /\ at[s] \in {"admitToApply", "admitToHold"}
    /\ IF Contains(events, job[s])
       THEN /\ Goes(s, "ready")
            /\ job' = [job EXCEPT ![s] = None]
            /\ UNCHANGED <<events, forgotten, pending>>
       ELSE /\ Remember(job[s])
            /\ IF at[s] = "admitToHold"
               THEN Hold(s)
               ELSE Goes(s, "write") /\ UNCHANGED <<pending, job>>
    /\ UNCHANGED <<policy, attached, peer, budget, writes, overtaken, returned>>

\* A plausible error: the sender of the session stays on record.
DetachKeepsSession(s) ==
    /\ at[s] = "ready"
    /\ Goes(s, "forgetHeld")
    /\ UNCHANGED <<policy, manager, peer, job, budget, history>>

\* detach_session: one lock after the other, all keyed by the peer and not by
\* the session.
Detach(s) ==
    /\ at[s] = "ready"
    /\ Goes(s, "forgetHeld")
    /\ attached' = [attached EXCEPT ![peer[s]] = None]
    /\ UNCHANGED <<policy, pending, events, peer, job, budget, history>>

\* last_results goes next; nothing but the status listing reads it.
DetachPending(s) ==
    /\ at[s] = "forgetHeld"
    /\ Goes(s, "gone")
    /\ pending' = [pending EXCEPT ![peer[s]] = None]
    /\ UNCHANGED <<policy, attached, events, peer, job, budget, history>>

-----------------------------------------------------------------------------
(* A control client applies a held clip.                                   *)

\* A plausible error: a clip that was accepted is applied without asking again.
ApplyUnasked(c, p) ==
    /\ at[c] = "idle"
    /\ pending[p] # None
    /\ Goes(c, "take")
    /\ peer' = [peer EXCEPT ![c] = p]
    /\ overtaken' = overtaken \ {c}
    /\ UNCHANGED <<policy, manager, job, budget, writes, forgotten, returned>>

\* apply_pending asks for leave again.  With nothing held it ends at once.
ApplyPending(c, p) ==
    /\ at[c] = "idle"
    /\ pending[p] # None
    /\ "receive" \in policy[p]
    /\ Goes(c, "take")
    /\ peer' = [peer EXCEPT ![c] = p]
    /\ overtaken' = overtaken \ {c}
    /\ UNCHANGED <<policy, manager, job, budget, writes, forgotten, returned>>

\* The clip leaves the map under its lock.
TakeHeld(c) ==
    /\ at[c] = "take"
    /\ job' = [job EXCEPT ![c] = pending[peer[c]]]
    /\ pending' = [pending EXCEPT ![peer[c]] = None]
    /\ Goes(c, IF pending[peer[c]] = None THEN "idle" ELSE "write")
    /\ UNCHANGED <<policy, attached, events, peer, budget, history>>

\* write_text, for either.  One that fails or times out sets nothing; a held
\* clip is then put back, over whatever has arrived since.
Write(w) ==
    /\ at[w] = "write"
    /\ Goes(w, Rest(w))
    /\ writes' = [writes EXCEPT ![job[w]] = IF @ < 2 THEN @ + 1 ELSE @]
    /\ job' = [job EXCEPT ![w] = None]
    /\ UNCHANGED <<policy, manager, peer, budget, forgotten, overtaken, returned>>

WriteFails(w) ==
    /\ at[w] = "write"
    /\ Spend("trouble")
    /\ Goes(w, IF w \in Sessions THEN "ready" ELSE "putBack")
    /\ IF w \in Sessions THEN job' = [job EXCEPT ![w] = None] ELSE UNCHANGED job
    /\ UNCHANGED <<policy, manager, peer, history>>

PutBack(c) ==
    /\ at[c] = "putBack"
    /\ Goes(c, "idle")
    /\ pending' = [pending EXCEPT ![peer[c]] = job[c]]
    /\ job' = [job EXCEPT ![c] = None]
    /\ returned' = returned \cup {peer[c]}
    /\ UNCHANGED <<policy, attached, events, peer, budget, writes, forgotten, overtaken>>

-----------------------------------------------------------------------------
(* A control client sends the clipboard by hand.                           *)

\* send_current_clipboard: leave first, then the clipboard is read.
SendCurrentClipboard(c, p) ==
    /\ at[c] = "idle"
    /\ Spend("sends")
    /\ "send" \in policy[p]
    /\ Goes(c, "read")
    /\ peer' = [peer EXCEPT ![c] = p]
    /\ overtaken' = overtaken \ {c}
    /\ UNCHANGED <<policy, manager, job, writes, forgotten, returned>>

\* Then deliver looks the session up.  No text, a failed read and no session
\* are all the caller's answer.
LookUp(c) ==
    /\ at[c] = "read"
    /\ \/ Goes(c, "idle") /\ UNCHANGED job
       \/ /\ attached[peer[c]] # None
          /\ Goes(c, "deliver")
          /\ job' = [job EXCEPT ![c] = attached[peer[c]]]
    /\ UNCHANGED <<policy, manager, peer, budget, history>>

\* Sent, closed meanwhile or busy for CONTROL_SEND_TIMEOUT.
Deliver(c) ==
    /\ at[c] = "deliver"
    /\ Goes(c, "idle")
    /\ job' = [job EXCEPT ![c] = None]
    /\ UNCHANGED <<policy, manager, peer, budget, history>>

-----------------------------------------------------------------------------

Next ==
    \/ EventExpires
    \/ \E p \in Peers :
        \/ PendingExpires(p)
        \/ \E new \in Policies : SetPolicy(p, new)
        \/ \E s \in Sessions : AttachSession(s, p)
        \/ \E c \in Clients : ApplyPending(c, p) \/ SendCurrentClipboard(c, p)
    \/ \E s \in Sessions :
        \/ \E e \in Events : HandleUpdate(s, e)
        \/ Admit(s)
        \/ Detach(s)
        \/ DetachPending(s)
    \/ \E w \in Writers : Write(w) \/ WriteFails(w)
    \/ \E c \in Clients : TakeHeld(c) \/ PutBack(c) \/ LookUp(c) \/ Deliver(c)

Spec == Init /\ [][Next]_vars

-----------------------------------------------------------------------------
(* Properties.                                                             *)

\* However often a peer, or another one, repeats an update, it is written to
\* the clipboard at most once while its id is remembered: by the session that
\* admitted it, or by the one client that took it out of the held clips.  A
\* held clip is taken by one client at a time and is not still on offer then.
AppliedOnce ==
    /\ \A e \in Events : writes[e] <= 1 \/ e \in forgotten
    /\ \A c, d \in Clients :
        at[c] \in {"write", "putBack"} /\ job[c] \notin forgotten
            => /\ pending[peer[c]] # job[c]
               /\ d # c /\ at[d] \in {"write", "putBack"} => job[d] # job[c]

\* What is about to be written or sent is allowed for its peer, or was when
\* the operation last asked, in the middle of which the policy changed.
ActsOnLeave ==
    \A w \in Writers \ overtaken :
        /\ at[w] = "write" => "receive" \in policy[peer[w]]
        /\ at[w] = "deliver" => "send" \in policy[peer[w]]

\* The maps of the manager follow the sessions: the sender on record for a
\* peer is that of a session of this peer that has not ended, a send is handed
\* to a session of the peer it is meant for, and nothing is held for a peer
\* none of whose sessions is left, except what a failed apply_pending put back.
MapsFollowSessions ==
    /\ \A p \in Peers :
        LET s == attached[p]
        IN  s # None => peer[s] = p /\ at[s] \notin {"new", "forgetHeld", "gone"}
    /\ \A c \in Clients : at[c] = "deliver" => peer[job[c]] = peer[c]
    /\ \A p \in Peers :
        pending[p] # None
            => \/ \E s \in Sessions : peer[s] = p /\ at[s] # "gone"
               \/ p \in returned

-----------------------------------------------------------------------------
(* The inductive invariant.                                                *)

SessionSteps == {"new", "ready", "admitToApply", "admitToHold", "write", "forgetHeld", "gone"}
ClientSteps == {"idle", "take", "write", "putBack", "read", "deliver"}

\* The maps, the caches and the tasks hold what they are declared to hold.
TypeOK ==
    /\ policy \in [Peers -> Policies]
    /\ attached \in [Peers -> Sessions \cup {None}]
    /\ pending \in [Peers -> Events \cup {None}]
    /\ events \in Seq(Events)
    /\ at \in [Writers -> SessionSteps \cup ClientSteps]
    /\ peer \in [Writers -> Peers \cup {None}]
    /\ job \in [Writers -> Events \cup Sessions \cup {None}]
    /\ budget \in [updates : Nat, sends : Nat, changes : Nat, trouble : Nat]
    /\ writes \in [Events -> 0 .. 2]
    /\ forgotten \subseteq Events
    /\ overtaken \subseteq Writers
    /\ returned \subseteq Peers

\* A task that is under way has a peer, and the update or session its step
\* works with.
TasksAreSetUp ==
    /\ \A s \in Sessions :
        /\ at[s] \in SessionSteps
        /\ IF at[s] = "new" THEN peer[s] = None ELSE peer[s] \in Peers
        /\ at[s] \in {"admitToApply", "admitToHold", "write"} => job[s] \in Events
    /\ \A c \in Clients :
        /\ at[c] \in ClientSteps
        /\ at[c] # "idle" => peer[c] \in Peers
        /\ at[c] \in {"write", "putBack"} => job[c] \in Events
        /\ at[c] = "deliver" => job[c] \in Sessions /\ at[job[c]] # "new"

\* The leave a task asked for still stands at every later step, unless the
\* policy changed since.
LeaveStands ==
    \A w \in Writers \ overtaken :
        /\ at[w] \in {"admitToApply", "admitToHold", "take", "write"} => "receive" \in policy[peer[w]]
        /\ at[w] \in {"read", "deliver"} => "send" \in policy[peer[w]]

Carries(w, e) == at[w] \in {"write", "putBack"} /\ job[w] = e

\* An update is in one place: with the task that writes it, among the held
\* clips, or written; and its id is in the event cache.
InOnePlace(e) ==
    /\ \A w \in Writers : Carries(w, e) =>
        /\ Contains(events, e) /\ writes[e] = 0
        /\ \A v \in Writers : Carries(v, e) => v = w
        /\ \A p \in Peers : pending[p] # e
    /\ \A p \in Peers : pending[p] = e =>
        /\ Contains(events, e) /\ writes[e] = 0
        /\ \A q \in Peers : pending[q] = e => q = p
    /\ writes[e] # 0 => writes[e] = 1 /\ Contains(events, e)

\* So is each one whose id was not forgotten.
OneCopy == \A e \in Events \ forgotten : InOnePlace(e)

ManagerInv == TypeOK /\ TasksAreSetUp /\ LeaveStands /\ OneCopy /\ MapsFollowSessions

=============================================================================
