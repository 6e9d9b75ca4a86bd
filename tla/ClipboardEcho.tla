---------------------------- MODULE ClipboardEcho ----------------------------
(***************************************************************************)
(* clipboard.v1 on the desktop, the side of the local clipboard: the       *)
(* writes of ClipboardManager (capabilities/clipboard/src/lib.rs) with     *)
(* their SuppressionCache (dedup.rs), the supervised watcher, and what of  *)
(* the platform backend they rely on.                                      *)
(*                                                                         *)
(* The clipboard is written for a peer by a session or a control client    *)
(* (ClipboardManager shows that each update is written once), and by the   *)
(* user.  The watcher learns that something changed, not what: it reads    *)
(* the clipboard as it is by then.  A text stands for its hash.            *)
(***************************************************************************)
EXTENDS Naturals, Sequences

CONSTANTS
    Devices,        \* paired devices that may ask for automatic sending
    Updates,        \* clips that peers sent and this device applies
    Sensitive,      \* those of them marked sensitive
    Texts,
    Environments,   \* the graphical sessions considered, each a set of Features
    SuppressionCap, \* SUPPRESSION_ENTRIES
    SignalCap,      \* capacity of the change channel
    MaxCopies,      \* bound on copies made by the user
    MaxPolicyChanges,
    MaxMishaps,     \* bound on expiries, failed calls and deaths of the watch
    Nobody          \* no text, and no one who set it

\* What the probes find: a Wayland display, wl-copy and wl-paste, a compositor
\* with data-control, an X server with XFIXES, a wl-copy with --sensitive.
Features == {"wayland", "tools", "dataControl", "xfixes", "marks"}

ASSUME EchoAssumption ==
    /\ Sensitive \subseteq Updates
    /\ Environments \subseteq SUBSET Features
    /\ {SuppressionCap, SignalCap} \subseteq Nat \ {0}
    /\ Nobody \notin Updates \cup Texts /\ "user" \notin Updates

VARIABLES
    env,         \* what detect found at the start of the daemon
    auto,        \* the peers the authorizer names for automatic sending
    telling,     \* a handler has stored a policy and not yet bumped the epoch
    bumped,      \* an epoch the watcher has not seen
    clip,        \* the system clipboard: text, who set it, nothing in the way
    text,        \* the text each update carries
    progress,    \* how far the application of each update is
    suppression, \* SuppressionCache, each entry with the update that armed it
    watcher,     \* run_watcher
    alive,       \* the platform side of the watch is running
    signals,     \* change signals in the channel
    seen,        \* what the watcher read
    targets,     \* the peers it is still to be delivered to
    left,        \* what is left of the bounds
    unread,      \* history: a watched change the watcher has not tried to read
    lost,        \* history: updates whose entry went without their own echo
    missed,      \* history: updates whose echo the watcher does not get to see
    unsaid       \* history: a policy was stored, failed to persist, no epoch

cache == <<suppression, lost>>
board == <<clip, unread, missed>>
settings == <<env, auto, telling, unsaid>>
pass == <<seen, targets>>
echoVars == <<settings, bumped, text, progress, cache, board, watcher, alive, signals, pass, left>>

Nothing == [text |-> Nobody, from |-> Nobody, quiet |-> TRUE]

EchoInit ==
    /\ env \in Environments
    /\ auto \in SUBSET Devices
    /\ telling = FALSE
    /\ bumped = FALSE
    /\ clip = Nothing
    /\ text \in [Updates -> Texts]
    /\ progress = [e \in Updates |-> "new"]
    /\ suppression = <<>>
    /\ watcher = "asking"
    /\ alive = FALSE
    /\ signals = 0
    /\ seen = Nothing
    /\ targets = {}
    /\ left = [copies |-> MaxCopies, changes |-> MaxPolicyChanges, trouble |-> MaxMishaps]
    /\ unread = FALSE
    /\ lost = {}
    /\ missed = {}
    /\ unsaid = FALSE

Use(what) ==
    /\ left[what] > 0
    /\ left' = [left EXCEPT ![what] = @ - 1]

-----------------------------------------------------------------------------
(* The platform backend.                                                   *)

\* Without a Wayland session, or without its tools, every call is refused.
Usable == {"wayland", "tools"} \subseteq env

\* detect_watch_source: data-control if the compositor has it, else the X bridge.
WatchSource ==
    CASE Usable /\ "dataControl" \in env -> "dataControl"
      [] Usable /\ "dataControl" \notin env /\ "xfixes" \in env -> "x11"
      [] OTHER -> "none"

\* How watch_changes may end: a helper that cannot be started is a failure, an
\* X server that cannot be reached an Unavailable.
WatchOutcomes ==
    CASE WatchSource = "dataControl" -> {"watching", "backoff"}
      [] WatchSource = "x11" -> {"watching", "backoff", "parked"}
      [] OTHER -> {"parked"}

\* A clip marked sensitive is refused where it cannot be marked.
Writable(e) == Usable /\ (e \in Sensitive => "marks" \in env)

-----------------------------------------------------------------------------
(* SuppressionCache.                                                       *)

\* The places of the entries of a text.
Entries(x) == {i \in 1 .. Len(suppression) : suppression[i].hash = x}

\* Entries of one text differ in nothing that matters, so the history is kept
\* as if each update consumed its own.
Own(x, e) ==
    LET own == {i \in Entries(x) : suppression[i].by = e}
    IN  IF own = {} THEN Entries(x) ELSE own

Without(s, i) == [j \in 1 .. Len(s) - 1 |-> IF j < i THEN s[j] ELSE s[j + 1]]

\* SuppressionCache::take: the first entry of the text, if there is one.
Take(x, e) ==
    \/ Entries(x) = {} /\ UNCHANGED cache
    \/ \E i \in Own(x, e) :
        /\ \A j \in Own(x, e) : i <= j
        /\ suppression' = Without(suppression, i)
        /\ lost' = lost \cup ({suppression[i].by} \ {e})

\* SuppressionCache::arm: appended, and the oldest goes when the cache is full.
Arm(e) ==
    LET entry == [hash |-> text[e], by |-> e]
    IN  IF Len(suppression) < SuppressionCap
        THEN suppression' = Append(suppression, entry) /\ UNCHANGED lost
        ELSE /\ suppression' = Append(Tail(suppression), entry)
             /\ lost' = lost \cup {Head(suppression).by}

\* SuppressionCache::expire, the oldest first; at any time.
SuppressionExpires ==
    /\ Use("trouble")
    /\ suppression # <<>>
    /\ suppression' = Tail(suppression)
    /\ lost' = lost \cup {Head(suppression).by}
    /\ UNCHANGED <<settings, bumped, text, progress, board, watcher, alive, signals, pass>>

-----------------------------------------------------------------------------
(* The system clipboard.                                                   *)

Unread == IF unread /\ clip.from \in Updates THEN {clip.from} ELSE {}

\* It changes, and a running watch is signalled; a full channel drops the
\* signal.  A change nobody watches, or one overtaken before it is read, is
\* one whose echo the watcher does not see.
Set(x, from) ==
    /\ clip' = [text |-> x, from |-> from, quiet |-> signals = 0 /\ watcher # "reading"]
    /\ signals' = IF alive /\ signals < SignalCap THEN signals + 1 ELSE signals
    /\ unread' = alive
    /\ missed' = missed \cup Unread \cup (IF ~ alive /\ from \in Updates THEN {from} ELSE {})

UserCopies(x) ==
    /\ Use("copies")
    /\ Set(x, "user")
    /\ UNCHANGED <<settings, bumped, text, progress, cache, watcher, alive, pass>>

-----------------------------------------------------------------------------
(* Writing a peer's clip: apply, and the tail of apply_pending.            *)

\* A plausible error: the entry is armed only once the write has returned.
ArmLate(e) ==
    /\ progress[e] = "new"
    /\ progress' = [progress EXCEPT ![e] = "write"]
    /\ UNCHANGED <<settings, bumped, text, cache, board, watcher, alive, signals, pass, left>>

\* The entry is there before the write.
Apply(e) ==
    /\ progress[e] = "new"
    /\ progress' = [progress EXCEPT ![e] = "write"]
    /\ Arm(e)
    /\ UNCHANGED <<settings, bumped, text, board, watcher, alive, signals, pass, left>>

\* write_text.  One that is refused, fails or times out sets nothing.
WriteText(e) ==
    /\ progress[e] = "write"
    /\ \/ /\ Writable(e)
          /\ progress' = [progress EXCEPT ![e] = "done"]
          /\ Set(text[e], e)
          /\ UNCHANGED left
       \/ /\ progress' = [progress EXCEPT ![e] = "failed"]
          /\ IF Writable(e) THEN Use("trouble") ELSE UNCHANGED left
          /\ UNCHANGED <<board, signals>>
    /\ UNCHANGED <<settings, bumped, text, cache, watcher, alive, pass>>

\* A plausible error: the entry of a write that failed stays armed.
ReleaseNothing(e) ==
    /\ progress[e] = "failed"
    /\ progress' = [progress EXCEPT ![e] = "new"]
    /\ UNCHANGED <<settings, bumped, text, cache, board, watcher, alive, signals, pass, left>>

\* No write, no echo: the entry is released.  A held clip may be tried again.
Release(e) ==
    /\ progress[e] = "failed"
    /\ progress' = [progress EXCEPT ![e] = "new"]
    /\ Take(text[e], e)
    /\ UNCHANGED <<settings, bumped, text, board, watcher, alive, signals, pass, left>>

-----------------------------------------------------------------------------
(* Policy.                                                                 *)

\* do_clipboard_policy, set_grant, unpair: the store first.  A store that does
\* not persist keeps the change, and its handler returns without the epoch.
StorePolicy(p) ==
    /\ ~ telling
    /\ Use("changes")
    /\ auto' = IF p \in auto THEN auto \ {p} ELSE auto \cup {p}
    /\ \/ telling' = TRUE /\ UNCHANGED unsaid
       \/ unsaid' = TRUE /\ UNCHANGED telling
    /\ UNCHANGED <<env, bumped, text, progress, cache, board, watcher, alive, signals, pass>>

\* policy_changed.
PolicyChanged ==
    /\ telling
    /\ telling' = FALSE
    /\ bumped' = TRUE
    /\ unsaid' = FALSE
    /\ UNCHANGED <<env, auto, text, progress, cache, board, watcher, alive, signals, pass, left>>

\* on_peer_connected bumps the epoch as well.
PeerConnected ==
    /\ Use("changes")
    /\ bumped' = TRUE
    /\ unsaid' = FALSE
    /\ UNCHANGED <<env, auto, telling, text, progress, cache, board, watcher, alive, signals, pass>>

-----------------------------------------------------------------------------
(* run_watcher.                                                            *)

Elsewhere == UNCHANGED <<settings, text, progress, cache>>

\* Idle until some peer wants automatic sending.
Ask ==
    /\ watcher = "asking"
    /\ watcher' = IF auto = {} THEN "idle" ELSE "starting"
    /\ Elsewhere
    /\ UNCHANGED <<bumped, board, alive, signals, pass, left>>

\* epoch.changed() while idle, parked, or beside an open watch.
EpochChanged ==
    /\ bumped
    /\ watcher \in {"idle", "parked", "watching"}
    /\ bumped' = FALSE
    /\ watcher' = IF watcher = "watching" THEN "reasking" ELSE "asking"
    /\ Elsewhere
    /\ UNCHANGED <<board, alive, signals, pass, left>>

\* watch_changes: a watch, an Unavailable that is waited out, or a failure
\* that is retried after a pause.
StartWatch ==
    /\ watcher = "starting"
    /\ watcher' \in WatchOutcomes
    /\ alive' = (watcher' = "watching")
    /\ Elsewhere
    /\ UNCHANGED <<bumped, board, signals, pass, left>>

Retry ==
    /\ watcher = "backoff"
    /\ watcher' = "asking"
    /\ Elsewhere
    /\ UNCHANGED <<bumped, board, alive, signals, pass, left>>

\* The helper dies, the X connection drops, the compositor restarts.
WatchDies ==
    /\ alive
    /\ Use("trouble")
    /\ alive' = FALSE
    /\ Elsewhere
    /\ UNCHANGED <<bumped, board, watcher, signals, pass>>

\* The watch is dropped, and with it the signals it still held.
DropWatch ==
    /\ watcher' = "asking"
    /\ alive' = FALSE
    /\ signals' = 0
    /\ unread' = FALSE
    /\ missed' = missed \cup Unread
    /\ UNCHANGED <<clip, pass>>

\* The channel is closed and empty.
WatchEnded ==
    /\ watcher = "watching"
    /\ ~ alive
    /\ signals = 0
    /\ DropWatch
    /\ Elsewhere
    /\ UNCHANGED <<bumped, left>>

\* A plausible error: the watch is kept for whoever may want it next.
KeepWatching ==
    /\ watcher = "reasking"
    /\ watcher' = "watching"
    /\ Elsewhere
    /\ UNCHANGED <<bumped, board, alive, signals, pass, left>>

Reask ==
    /\ watcher = "reasking"
    /\ IF auto = {}
       THEN DropWatch
       ELSE watcher' = "watching" /\ UNCHANGED <<board, alive, signals, pass>>
    /\ Elsewhere
    /\ UNCHANGED <<bumped, left>>

-----------------------------------------------------------------------------
(* on_local_change.                                                        *)

Signal ==
    /\ watcher = "watching"
    /\ signals > 0
    /\ watcher' = "reading"
    /\ signals' = signals - 1
    /\ Elsewhere
    /\ UNCHANGED <<bumped, board, alive, pass, left>>

\* read_text: the clipboard as it is now.  Not text, or a failed read: back to
\* waiting for the next change.
Read ==
    /\ watcher = "reading"
    /\ \/ /\ watcher' = "suppressing"
          /\ seen' = clip
          /\ UNCHANGED <<missed, left>>
       \/ /\ watcher' = "watching"
          /\ Use("trouble")
          /\ missed' = missed \cup Unread
          /\ UNCHANGED seen
    /\ unread' = FALSE
    /\ Elsewhere
    /\ UNCHANGED <<bumped, clip, alive, signals, targets>>

\* The echo of a peer's clip ends here.  For any other change the peers that
\* want it are asked for afresh.
Suppress ==
    /\ watcher = "suppressing"
    /\ Take(seen.text, seen.from)
    /\ IF Entries(seen.text) = {}
       THEN watcher' = "sending" /\ targets' = auto /\ UNCHANGED seen
       ELSE watcher' = "watching" /\ seen' = Nothing /\ UNCHANGED targets
    /\ UNCHANGED <<settings, bumped, text, progress, board, alive, signals, left>>

\* deliver, to one peer after the other: sent, not connected or, after
\* CONTROL_SEND_TIMEOUT, busy.  What one peer answers does not stop the rest.
DeliverChange ==
    /\ watcher = "sending"
    /\ IF targets = {}
       THEN watcher' = "watching" /\ seen' = Nothing /\ UNCHANGED targets
       ELSE /\ \E p \in targets : targets' = targets \ {p}
            /\ UNCHANGED <<watcher, seen>>
    /\ Elsewhere
    /\ UNCHANGED <<bumped, board, alive, signals, left>>

-----------------------------------------------------------------------------

WatcherStep ==
    \/ Ask \/ EpochChanged \/ StartWatch \/ Retry \/ WatchEnded \/ Reask
    \/ Signal \/ Read \/ Suppress \/ DeliverChange

EchoNext ==
    \/ WatcherStep
    \/ WatchDies
    \/ PolicyChanged
    \/ PeerConnected
    \/ SuppressionExpires
    \/ \E x \in Texts : UserCopies(x)
    \/ \E p \in Devices : StorePolicy(p)
    \/ \E e \in Updates : Apply(e) \/ WriteText(e) \/ Release(e)

\* The runtime polls the watcher's task and the handler that owes an epoch.
\* Two of the watcher's choices are not its own: select! takes its ready
\* branches at random, so an epoch is not passed over for ever; and a platform
\* that keeps failing ends by giving a watch or an answer that is waited out.
Fairness ==
    /\ WF_echoVars(WatcherStep)
    /\ WF_echoVars(PolicyChanged)
    /\ SF_echoVars(EpochChanged)
    /\ SF_echoVars(StartWatch /\ watcher' # "backoff")

EchoSpec == EchoInit /\ [][EchoNext]_echoVars /\ Fairness

-----------------------------------------------------------------------------
(* Properties.                                                             *)

\* A clip written for a peer is not sent out again by the watcher, unless its
\* entry was gone by then, or it was written while an earlier change was still
\* being reported (its own signal and the earlier one both read it).
NoEcho ==
    watcher = "sending" /\ seen.from \in Updates
        => seen.from \in lost \/ ~ seen.quiet

\* Every armed entry is waiting for an echo that can still come, so it cannot
\* swallow a copy the user makes later: its write is under way, or done and not
\* yet looked at.  Left out are the writes whose echo the watcher missed.  It
\* will be looked at, because a dropped signal loses nothing: while a change has
\* not been read, a signal is in the channel or a read is about to begin.
EntriesAreOwed ==
    /\ \A i \in 1 .. Len(suppression) :
        LET e == suppression[i].by
        IN  \/ e \in missed
            \/ progress[e] \in {"write", "failed"}
            \/ clip.from = e /\ unread
            \/ watcher = "suppressing" /\ seen.from = e
    /\ unread => signals > 0 \/ watcher = "reading"

Watching == watcher \in {"watching", "reasking", "reading", "suppressing", "sending"}

\* No wake-up is lost: once the policies are settled and the watcher has been
\* told, it stops watching for good if nobody wants automatic sending, and
\* otherwise keeps coming back to a watch (or to waiting for a platform that
\* said it cannot).
WatchFollowsPolicy ==
    /\ <>[](auto = {} /\ ~ unsaid) => <>[] ~ Watching
    /\ <>[](auto # {} /\ ~ unsaid) => []<>(Watching \/ watcher = "parked")

-----------------------------------------------------------------------------
(* What makes NoEcho and EntriesAreOwed inductive.                         *)

Clips == [text : Texts \cup {Nobody}, from : Updates \cup {"user", Nobody}, quiet : BOOLEAN]

EchoTypes ==
    /\ text \in [Updates -> Texts]
    /\ progress \in [Updates -> {"new", "write", "done", "failed"}]
    /\ suppression \in Seq([hash : Texts, by : Updates])
    /\ lost \subseteq Updates /\ missed \subseteq Updates
    /\ clip \in Clips /\ seen \in Clips
    /\ signals \in Nat
    /\ alive \in BOOLEAN /\ unread \in BOOLEAN

\* An update has at most one entry, with its own text, from before its write.
EntriesAreTheirs ==
    \A i \in 1 .. Len(suppression) :
        LET e == suppression[i].by
        IN  /\ suppression[i].hash = text[e]
            /\ progress[e] # "new"
            /\ \A j \in 1 .. Len(suppression) : suppression[j].by = e => j = i

\* A clip of an update on the clipboard, or read from it, has been written.
ClipsAreWritten ==
    /\ clip.from \in Updates => clip.text = text[clip.from] /\ progress[clip.from] = "done"
    /\ seen.from \in Updates => seen.text = text[seen.from] /\ progress[seen.from] = "done"

Armed(e) == e \in lost \/ \E i \in 1 .. Len(suppression) : suppression[i].by = e

\* An entry stays until its own echo is looked at, or it is lost.
EchoIsExpected ==
    /\ \A e \in Updates : progress[e] \in {"write", "failed"} => Armed(e)
    /\ clip.from \in Updates /\ clip.quiet /\ unread => Armed(clip.from)
    /\ watcher = "suppressing" /\ seen.from \in Updates =>
        /\ seen.quiet => Armed(seen.from)
        /\ unread => clip.from # seen.from

\* A clip that was written into the quiet is read once.
ReadOnce ==
    clip.from \in Updates /\ clip.quiet =>
        /\ watcher = "reading" => unread /\ signals = 0
        /\ signals > 0 => unread /\ signals = 1

EchoInv ==
    /\ EchoTypes /\ EntriesAreTheirs /\ ClipsAreWritten /\ EchoIsExpected /\ ReadOnce
    /\ NoEcho /\ EntriesAreOwed

=============================================================================
