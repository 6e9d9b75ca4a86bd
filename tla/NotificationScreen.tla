-------------------------- MODULE NotificationScreen --------------------------
(***************************************************************************)
(* notifications.v1 on the desktop, what is on the screen: the mirror      *)
(* table of one peer, the worker's calls to the notification server, the   *)
(* lock policy, and the three signals that arrive beside it (a             *)
(* notification was closed, the server came or went, the session locked).  *)
(* capabilities/notifications/src/lib.rs, mirror.rs, roles.rs, backend/.   *)
(*                                                                         *)
(* A step of the worker ends where it awaits the server or the state lock. *)
(* The server numbers notifications from 1 each time it starts.  Sessions  *)
(* and snapshots are in NotificationPeer; here work arrives by itself.     *)
(***************************************************************************)
EXTENDS Integers, Sequences, SequencesExt, FiniteSetsExt, WorkQueue

CONSTANTS
    Ids,
    MirrorCap,      \* MAX_MIRRORS_PER_PEER
    QueueCap,       \* MAX_QUEUED_WORK
    LockPolicies,   \* the settings of when_sink_locked in use
    DismissSync,    \* the settings of allow_dismiss_sync in use
    MaxWork,        \* bound on work that arrives
    MaxLocks,       \* bound on changes of the lock
    MaxClosed,      \* bound on notifications closed by the user or by time
    MaxTrouble      \* bound on restarts of the server and failing calls

None == 0

ASSUME ScreenAssumption ==
    /\ MirrorCap \in Nat \ {0} /\ QueueCap \in Nat \ {0}
    /\ LockPolicies \subseteq {"full", "app-only", "suppress"}
    /\ DismissSync \subseteq BOOLEAN

VARIABLES
    policy,     \* when_sink_locked, and whether dismissals are synced
    server,     \* the notification server: up, its numbering, what it shows
    signals,    \* the three streams: closes, availability, locks
    screen,     \* the session's screen is locked
    flags,      \* NotificationManager: available, locked
    announced,  \* LocalRoles: what the peer was told, {} before
    table,      \* MirrorTable, oldest first
    queue,      \* WorkQueue
    worker,     \* the worker: where it is, its batch, and what it holds
    budget,     \* what is left of the bounds
    wanted,     \* history: dismissals by the user, less those asked for
    excused     \* history: what is known to have gone astray

vars == <<policy, server, signals, screen, flags, announced, table, queue, worker, budget, wanted, excused>>

Resting == [at |-> "rest", batch |-> <<>>, num |-> None, form |-> "none", todo |-> <<>>]

Init ==
    /\ policy \in [locked : LockPolicies, dismiss : DismissSync]
    /\ server = [up |-> TRUE, next |-> 1, shown |-> {}]
    /\ signals = [closes |-> <<>>, availability |-> <<>>, locks |-> <<>>]
    /\ screen = FALSE
    /\ flags = [available |-> TRUE, locked |-> FALSE]
    /\ announced = {"sink", "reporter"}
    /\ table = <<>>
    /\ queue = <<>>
    /\ worker = Resting
    /\ budget = [work |-> MaxWork, locks |-> MaxLocks, closed |-> MaxClosed, trouble |-> MaxTrouble]
    /\ wanted = [i \in Ids |-> 0]
    /\ excused = {}

Spend(what) ==
    /\ budget[what] > 0
    /\ budget' = [budget EXCEPT ![what] = @ - 1]

Put(w) == queue' = Offer(queue, w, QueueCap).queue

\* The full queue gave up an announcement or a lock change.
LostBy(w) ==
    LET o == Offer(queue, w, QueueCap)
        gone == o.evicted \cup IF o.dropped THEN {w} ELSE {}
    IN  IF \E e \in gone : e.t \in {"roles", "lock", "closeAll"} THEN {"lost"} ELSE {}

-----------------------------------------------------------------------------
(* MirrorTable: entries [id, num, hash, reduced], oldest first.  num is the *)
(* server's number or None.                                                *)

Entry(id) == {k \in 1 .. Len(table) : table[k].id = id}
Has(id) == Entry(id) # {}
Get(id) == table[CHOOSE k \in Entry(id) : TRUE]
Without(id) == SelectSeq(table, LAMBDA e : e.id # id)

\* insert: a known identity keeps its room, a new one may cost the oldest.
Evicted(id) == ~ Has(id) /\ Len(table) >= MirrorCap

Insert(e) == Append(IF Evicted(e.id) THEN Tail(table) ELSE Without(e.id), e)

Edit(id, e) == [k \in 1 .. Len(table) |-> IF table[k].id = id THEN e ELSE table[k]]

InvalidateServerIds == [k \in 1 .. Len(table) |-> [table[k] EXCEPT !.num = None]]

-----------------------------------------------------------------------------
(* The notification server and the screen.                                 *)

\* What it shows under number n.
Shown(n) == {x \in server.shown : x.num = n}

\* Notify: in place of a notification it shows, or under the next number.
Notify(id, form, replaces) ==
    LET n == IF Shown(replaces) # {} THEN replaces ELSE server.next
    IN  [num |-> n,
         server |-> [server EXCEPT !.next = IF Shown(replaces) # {} THEN @ ELSE @ + 1,
                                   !.shown = (@ \ Shown(n)) \cup {[num |-> n, id |-> id, form |-> form]}]]

Closes(n, reason) == [signals EXCEPT !.closes = Append(@, [num |-> n, reason |-> reason])]

\* CloseNotification.
CloseNow(n) ==
    /\ server' = [server EXCEPT !.shown = @ \ Shown(n)]
    /\ signals' = IF Shown(n) # {} THEN Closes(n, "closed") ELSE signals

\* The user dismisses one, or its time is over.
UserCloses(x, reason) ==
    /\ x \in server.shown
    /\ Spend("closed")
    /\ server' = [server EXCEPT !.shown = @ \ {x}]
    /\ signals' = Closes(x.num, reason)
    /\ wanted' = IF reason = "dismissed" THEN [wanted EXCEPT ![x.id] = @ + 1] ELSE wanted
    /\ UNCHANGED <<policy, screen, flags, announced, table, queue, worker, excused>>

\* The server goes, with everything it showed, and comes back counting from 1.
\* Signals still on their way are about the old numbers.
ServerGoes ==
    /\ server.up
    /\ Spend("trouble")
    /\ server' = [up |-> FALSE, next |-> 1, shown |-> {}]
    /\ signals' = [signals EXCEPT !.availability = Append(@, FALSE)]
    /\ excused' = excused \cup (IF signals.closes # <<>> THEN {"renumbered"} ELSE {})
    /\ UNCHANGED <<policy, screen, flags, announced, table, queue, worker, wanted>>

ServerComes ==
    /\ ~ server.up
    /\ server' = [server EXCEPT !.up = TRUE]
    /\ signals' = [signals EXCEPT !.availability = Append(@, TRUE)]
    /\ UNCHANGED <<policy, screen, flags, announced, table, queue, worker, budget, wanted, excused>>

ScreenLocks ==
    /\ Spend("locks")
    /\ screen' = ~ screen
    /\ signals' = [signals EXCEPT !.locks = Append(@, ~ screen)]
    /\ UNCHANGED <<policy, server, flags, announced, table, queue, worker, wanted, excused>>

\* An upsert, a removal or a bulk close is queued.
Arrives(w) ==
    /\ Spend("work")
    /\ Put(w)
    /\ excused' = excused \cup LostBy(w)
    /\ UNCHANGED <<policy, server, signals, screen, flags, announced, table, worker, wanted>>

-----------------------------------------------------------------------------
(* The pumps: one signal at a time from each stream.                       *)

\* Mutant: any close is taken for a dismissal.
AnyClose(reason) == TRUE

IsHumanDismissal(reason) == reason = "dismissed"

\* note_closed: the entry with that number goes; if a person dismissed it, and
\* policy and roles allow, the source is asked to dismiss it too.
NoteClosed ==
    /\ signals.closes # <<>>
    /\ signals' = [signals EXCEPT !.closes = Tail(@)]
    /\ LET c == Head(signals.closes)
           hit == {k \in 1 .. Len(table) : table[k].num = c.num}
       IN  IF hit = {}
           THEN UNCHANGED <<table, queue, wanted, excused>>
           ELSE LET id == table[CHOOSE k \in hit : TRUE].id
                IN  /\ table' = Without(id)
                    /\ IF IsHumanDismissal(c.reason) /\ policy.dismiss /\ "reporter" \in announced
                       THEN /\ Put([t |-> "dismiss", id |-> id])
                            /\ wanted' = [wanted EXCEPT ![id] = @ - 1]
                            /\ excused' = excused \cup LostBy([t |-> "dismiss", id |-> id])
                       ELSE UNCHANGED <<queue, wanted, excused>>
    /\ UNCHANGED <<policy, server, screen, flags, announced, worker, budget>>

\* set_available: on a change the peer is told, and the numbers of a server
\* that went away are forgotten when one is back: also those of mirrors the
\* new server showed before its arrival was noted ("ahead").
SetAvailable(v, excuse) ==
    IF flags.available = v
    THEN UNCHANGED <<flags, table, queue, excused>>
    ELSE /\ excused' = excused \cup excuse \cup LostBy([t |-> "roles"])
         /\ flags' = [flags EXCEPT !.available = v]
         /\ table' = IF v THEN InvalidateServerIds ELSE table
         /\ Put([t |-> "roles"])

AvailabilityChanged ==
    /\ signals.availability # <<>>
    /\ signals' = [signals EXCEPT !.availability = Tail(@)]
    /\ SetAvailable(Head(signals.availability),
                    IF \E k \in 1 .. Len(table) : \E x \in Shown(table[k].num) : x.id = table[k].id
                    THEN {"ahead"} ELSE {})
    /\ UNCHANGED <<policy, server, screen, announced, worker, budget, wanted>>

\* set_locked: only a change of the flag re-evaluates what is on the screen.
LockChanged ==
    /\ signals.locks # <<>>
    /\ signals' = [signals EXCEPT !.locks = Tail(@)]
    /\ LET v == Head(signals.locks)
       IN  IF flags.locked = v
           THEN /\ excused' = excused \cup (IF v THEN {"swallowed"} ELSE {})
                /\ UNCHANGED <<flags, queue>>
           ELSE /\ flags' = [flags EXCEPT !.locked = v]
                /\ Put([t |-> "lock", locked |-> v])
                /\ excused' = excused \cup LostBy([t |-> "lock", locked |-> v])
    /\ UNCHANGED <<policy, server, screen, announced, table, worker, budget, wanted>>

-----------------------------------------------------------------------------
(* The worker.                                                             *)

Item == Head(worker.batch)
Working(kind) == worker.at = "rest" /\ worker.batch # <<>> /\ Item.t = kind
Done == worker' = [Resting EXCEPT !.batch = Tail(worker.batch)]
Holding(step, num, form) == worker' = [worker EXCEPT !.at = step, !.num = num, !.form = form]

Drain ==
    /\ worker.at = "rest" /\ worker.batch = <<>> /\ queue # <<>>
    /\ worker' = [Resting EXCEPT !.batch = queue]
    /\ queue' = <<>>
    /\ UNCHANGED <<policy, server, signals, screen, flags, announced, table, budget, wanted, excused>>

\* Presentation::resolve.
Form(locked) == IF locked THEN policy.locked ELSE "full"

\* close_mirror: the entry goes first, then the notification.
CloseMirror(id) ==
    /\ table' = Without(id)
    /\ IF Has(id) /\ Get(id).num # None THEN Holding("close", Get(id).num, "none") ELSE Done

\* apply_upsert, a SECRET one: nothing is shown, and what is comes off.
RefuseSecret ==
    /\ Working("upsert") /\ Item.secret
    /\ CloseMirror(Item.id)
    /\ UNCHANGED <<policy, server, signals, screen, flags, announced, queue, budget, wanted, excused>>

\* apply_upsert up to the call: the lock is read from the platform (a failed
\* read is locked), then the entry is looked up.
Prepare(read) ==
    /\ Working("upsert") /\ ~ Item.secret
    /\ IF read = screen THEN UNCHANGED budget ELSE read /\ Spend("trouble")
    /\ flags' = [flags EXCEPT !.locked = read]
    /\ LET form == Form(read)
           same == Has(Item.id) /\ LET e == Get(Item.id)
                                   IN  e.num # None /\ e.hash = Item.v /\ e.reduced = (form = "app-only")
       IN  \/ form = "suppress" /\ CloseMirror(Item.id)
           \/ form # "suppress" /\ same /\ Done /\ UNCHANGED table
           \/ /\ form # "suppress" /\ ~ same
              /\ Holding("display", IF Has(Item.id) THEN Get(Item.id).num ELSE None, form)
              /\ UNCHANGED table
    /\ UNCHANGED <<policy, server, signals, screen, announced, queue, wanted, excused>>

\* The call: shown, refused because there is no server, failed, or shown and
\* reported too late.  "renumbered": a new server gave out a number the table
\* still has from the old one.
Display(id, ok, failed) ==
    LET made == Notify(id, worker.form, worker.num)
        taken == IF \E k \in 1 .. Len(table) : table[k].num = made.num /\ table[k].id # id
                 THEN {"renumbered"} ELSE {}
    IN  \/ /\ server.up
           /\ server' = made.server
           /\ Holding(ok, made.num, worker.form)
           /\ excused' = excused \cup taken
           /\ UNCHANGED budget
        \/ /\ ~ server.up
           /\ Holding("unavailable", None, worker.form)
           /\ UNCHANGED <<server, budget, excused>>
        \/ /\ server.up /\ Spend("trouble")
           /\ Holding(failed, None, worker.form)
           /\ \/ UNCHANGED <<server, excused>>
              \/ server' = made.server /\ excused' = excused \cup taken \cup {"stray"}

CallDisplay ==
    /\ worker.at = "display"
    /\ Display(Item.id, "insert", "failed")
    /\ UNCHANGED <<policy, signals, screen, flags, announced, table, queue, wanted>>

\* Nothing left will tell that number n is no longer shown.
Silent(n) == Shown(n) = {} /\ signals.availability = <<>> /\ \A k \in 1 .. Len(signals.closes) : signals.closes[k].num # n

\* Mutant: what the entry evicted stays on the screen.
StoreAndForget ==
    /\ worker.at = "insert"
    /\ table' = Insert([id |-> Item.id, num |-> worker.num, hash |-> Item.v,
                        reduced |-> worker.form = "app-only"])
    /\ Done
    /\ excused' = excused \cup (IF Silent(worker.num) THEN {"early"} ELSE {})
    /\ UNCHANGED <<policy, server, signals, screen, flags, announced, queue, budget, wanted>>

\* apply_upsert, shown: the entry is stored, and what it evicted is closed.
StoreShown ==
    /\ worker.at = "insert"
    /\ table' = Insert([id |-> Item.id, num |-> worker.num, hash |-> Item.v,
                        reduced |-> worker.form = "app-only"])
    /\ IF Evicted(Item.id) /\ Head(table).num # None
       THEN Holding("close", Head(table).num, "none")
       ELSE Done
    /\ excused' = excused \cup (IF Silent(worker.num) THEN {"early"} ELSE {})
    /\ UNCHANGED <<policy, server, signals, screen, flags, announced, queue, budget, wanted>>

\* apply_upsert, not shown: the entry has no number.  A notification it had
\* one for, or the one it evicted, is left where it is ("failed").
StoreFailed ==
    /\ worker.at = "failed"
    /\ table' = Insert([id |-> Item.id, num |-> None, hash |-> 0, reduced |-> worker.form = "app-only"])
    /\ Done
    /\ excused' = excused \cup
           LET gone == IF Has(Item.id) THEN Get(Item.id).num
                       ELSE IF Evicted(Item.id) THEN Head(table).num ELSE None
           IN  IF Shown(gone) # {} THEN {"failed"} ELSE {}
    /\ UNCHANGED <<policy, server, signals, screen, flags, announced, queue, budget, wanted>>

\* note_backend_error: without a server this desktop is no sink.  "late" when
\* the server is back by now and its return was already noted.
NoteUnavailable ==
    /\ worker.at = "unavailable"
    /\ SetAvailable(FALSE, IF server.up /\ signals.availability = <<>> THEN {"late"} ELSE {})
    /\ worker' = IF worker.todo # <<>> THEN [worker EXCEPT !.at = "unlit"]
                 ELSE IF Item.t = "upsert" THEN [worker EXCEPT !.at = "failed"]
                 ELSE [Resting EXCEPT !.batch = Tail(worker.batch)]
    /\ UNCHANGED <<policy, server, signals, screen, announced, budget, wanted>>

\* What follows a close: the rest of a bulk close or of a lock change.
GoOn == IF worker.todo = <<>> THEN Done ELSE worker' = [worker EXCEPT !.at = "each", !.num = None]

\* CloseNotification, done, in vain or timed out.  Only a removal draws a
\* conclusion from a server that is not there.
CallClose ==
    /\ worker.at = "close"
    /\ \/ server.up /\ CloseNow(worker.num) /\ GoOn /\ UNCHANGED <<budget, excused>>
       \/ /\ ~ server.up
          /\ IF Item.t = "remove" THEN Holding("unavailable", None, "none") ELSE GoOn
          /\ UNCHANGED <<server, signals, budget, excused>>
       \/ /\ server.up /\ Spend("trouble") /\ GoOn
          /\ excused' = excused \cup {"stray"}
          /\ UNCHANGED <<server, signals>>
    /\ UNCHANGED <<policy, screen, flags, announced, table, queue, wanted>>

ApplyRemove ==
    /\ Working("remove")
    /\ CloseMirror(Item.id)
    /\ UNCHANGED <<policy, server, signals, screen, flags, announced, queue, budget, wanted, excused>>

\* close_all: the table is emptied at once, then one close after the other.
CloseAll ==
    /\ Working("closeAll")
    /\ table' = <<>>
    /\ worker' = IF table = <<>> THEN [Resting EXCEPT !.batch = Tail(worker.batch)]
                 ELSE [worker EXCEPT !.at = "each", !.todo = table]
    /\ UNCHANGED <<policy, server, signals, screen, flags, announced, queue, budget, wanted, excused>>

\* apply_lock_change: the entries to look at are copied, then taken in turn.
ApplyLockChange ==
    /\ Working("lock")
    /\ flags' = [flags EXCEPT !.locked = Item.locked]
    /\ worker' = IF Item.locked /\ policy.locked # "full" /\ table # <<>>
                 THEN [worker EXCEPT !.at = "each", !.todo = table]
                 ELSE [Resting EXCEPT !.batch = Tail(worker.batch)]
    /\ UNCHANGED <<policy, server, signals, screen, announced, table, queue, budget, wanted, excused>>

Each(kind) == worker.at = "each" /\ Item.t = kind
Rest == IF Len(worker.todo) = 1 THEN [Resting EXCEPT !.batch = Tail(worker.batch)]
        ELSE [worker EXCEPT !.todo = Tail(@)]

CloseEach ==
    /\ Each("closeAll")
    /\ worker' = IF Head(worker.todo).num = None THEN Rest
                 ELSE [worker EXCEPT !.at = "close", !.num = Head(worker.todo).num, !.todo = Tail(@)]
    /\ UNCHANGED <<policy, server, signals, screen, flags, announced, table, queue, budget, wanted, excused>>

\* One affected entry: suppressed, already reduced, never shown, or to be
\* shown again in its reduced form.
LockEach ==
    /\ Each("lock")
    /\ LET e == Head(worker.todo)
       IN  \/ /\ policy.locked = "suppress"
              /\ table' = Without(e.id)
              /\ worker' = IF Has(e.id) /\ Get(e.id).num # None
                           THEN [worker EXCEPT !.at = "close", !.num = Get(e.id).num, !.todo = Tail(@)]
                           ELSE Rest
           \/ policy.locked # "suppress" /\ e.reduced /\ worker' = Rest /\ UNCHANGED table
           \/ /\ policy.locked # "suppress" /\ ~ e.reduced /\ e.num = None
              /\ table' = IF Has(e.id) THEN Edit(e.id, [Get(e.id) EXCEPT !.reduced = TRUE]) ELSE table
              /\ worker' = Rest
           \/ /\ policy.locked # "suppress" /\ ~ e.reduced /\ e.num # None
              /\ Holding("redisplay", e.num, "app-only")
              /\ UNCHANGED table
    /\ UNCHANGED <<policy, server, signals, screen, flags, announced, queue, budget, wanted, excused>>

CallRedisplay ==
    /\ worker.at = "redisplay"
    /\ Display(Head(worker.todo).id, "reduced", "unlit")
    /\ UNCHANGED <<policy, signals, screen, flags, announced, table, queue, wanted>>

\* The entry, if it is still there, is now the reduced one.
StoreReduced ==
    /\ worker.at = "reduced"
    /\ LET id == Head(worker.todo).id
       IN  /\ table' = IF Has(id) THEN Edit(id, [id |-> id, num |-> worker.num, hash |-> 0, reduced |-> TRUE])
                       ELSE table
           /\ excused' = excused \cup (IF Has(id) THEN IF Silent(worker.num) THEN {"early"} ELSE {} ELSE {"stray"})
    /\ worker' = [Rest EXCEPT !.at = IF @ = "rest" THEN @ ELSE "each", !.num = None, !.form = "none"]
    /\ UNCHANGED <<policy, server, signals, screen, flags, announced, queue, budget, wanted>>

\* Mutant: what could not be reduced is left as it is.
LeaveLegible ==
    /\ worker.at = "unlit"
    /\ UNCHANGED table
    /\ worker' = [Rest EXCEPT !.at = IF @ = "rest" THEN @ ELSE "each", !.num = None, !.form = "none"]
    /\ UNCHANGED <<policy, server, signals, screen, flags, announced, queue, budget, wanted, excused>>

\* What could not be reduced is closed.
CloseUnlit ==
    /\ worker.at = "unlit"
    /\ LET id == Head(worker.todo).id
       IN  /\ table' = Without(id)
           /\ worker' = IF Has(id) /\ Get(id).num # None
                        THEN [worker EXCEPT !.at = "close", !.num = Get(id).num, !.form = "none", !.todo = Tail(@)]
                        ELSE [Rest EXCEPT !.at = IF @ = "rest" THEN @ ELSE "each", !.num = None, !.form = "none"]
    /\ UNCHANGED <<policy, server, signals, screen, flags, announced, queue, budget, wanted, excused>>

\* LocalRoles::desired.
Desired(available) == IF available THEN {"sink", "reporter"} ELSE {}

AnnounceRoles ==
    /\ Working("roles")
    /\ announced' = Desired(flags.available)
    /\ Done
    /\ UNCHANGED <<policy, server, signals, screen, flags, table, queue, budget, wanted, excused>>

SendDismiss ==
    /\ Working("dismiss")
    /\ Done
    /\ UNCHANGED <<policy, server, signals, screen, flags, announced, table, queue, budget, wanted, excused>>

-----------------------------------------------------------------------------
Arrivals ==
    [t : {"upsert"}, id : Ids, v : 1 .. 2, secret : {FALSE}]
        \cup [t : {"upsert"}, id : Ids, v : {1}, secret : {TRUE}]
        \cup [t : {"remove"}, id : Ids] \cup {[t |-> "closeAll"]}

Next ==
    \/ \E x \in server.shown, reason \in {"dismissed", "expired"} : UserCloses(x, reason)
    \/ ServerGoes \/ ServerComes \/ ScreenLocks
    \/ \E w \in Arrivals : Arrives(w)
    \/ NoteClosed \/ AvailabilityChanged \/ LockChanged
    \/ Drain \/ RefuseSecret \/ \E read \in BOOLEAN : Prepare(read)
    \/ CallDisplay \/ StoreShown \/ StoreFailed \/ NoteUnavailable \/ CallClose
    \/ ApplyRemove \/ CloseAll \/ CloseEach
    \/ ApplyLockChange \/ LockEach \/ CallRedisplay \/ StoreReduced \/ CloseUnlit
    \/ AnnounceRoles \/ SendDismiss

Spec == Init /\ [][Next]_vars

-----------------------------------------------------------------------------
\* Every signal is handled and all work is done.
Quiet ==
    /\ signals = [closes |-> <<>>, availability |-> <<>>, locks |-> <<>>]
    /\ queue = <<>> /\ worker = Resting

\* What may leave a notification without an entry: "stray", a call that timed
\* out or a lock change whose entry went meanwhile; "failed", the failure path
\* of apply_upsert; "ahead", a mirror shown before its server was noted;
\* "renumbered", a number or a signal of the server that was there before;
\* "lost", work given up at the ceiling.
Stranding == {"stray", "failed", "ahead", "renumbered", "lost", "late"}

\* On a locked screen whose policy is not "full", once all is handled, no
\* mirror shows its text (apply_lock_change, apply_upsert).  Excused: a lock
\* event that set_locked took for no change because an upsert had just read
\* the lock, and notifications without an entry.
LockedShowsNoText ==
    Quiet /\ screen /\ policy.locked # "full" /\ excused \cap (Stranding \cup {"swallowed"}) = {}
        => \A x \in server.shown : x.form = "app-only" /\ policy.locked = "app-only"

\* The source is asked to dismiss a notification only because a person closed
\* that notification here, and once for it (note_closed, forget_server_id):
\* never because this desktop closed it or its time was over.  Excused:
\* a signal or a number of a server that has restarted since.
DismissalsAreWanted ==
    "renumbered" \notin excused => \A i \in Ids : wanted[i] >= 0

\* Once all is handled, table and screen agree.  Whatever is on the screen can
\* be updated and removed, because an entry has its number (apply_upsert and the
\* eviction it causes, note_closed, close_all); excused is Stranding.  And a
\* number in the table is that of a notification on the screen
\* (invalidate_server_ids, note_closed); excused are a notification closed, and
\* a restart noted, before the entry was stored.
TableMatchesScreen ==
    /\ Quiet /\ excused \cap Stranding = {}
        => \A x \in server.shown : \E k \in 1 .. Len(table) : table[k].num = x.num /\ table[k].id = x.id
    /\ Quiet /\ server.up /\ excused \cap {"early", "renumbered", "late"} = {}
        => \A k \in 1 .. Len(table) : table[k].num # None
               => \E x \in server.shown : x.num = table[k].num /\ x.id = table[k].id

=============================================================================
