----------------------------- MODULE TrustStore -----------------------------
(***************************************************************************)
(* The daemon's trust store (core/src/store.rs) on its files               *)
(* (core/src/platform/unix_fs.rs), under crashes, failed writes, lost      *)
(* files and concurrent control clients.                                   *)
(*                                                                         *)
(* The store sits behind one async mutex that is held across persist, so a *)
(* mutation and its write are one critical section: job is the write in    *)
(* progress, and no operation starts while there is one.  A crash can fall *)
(* between any two of its steps.                                           *)
(***************************************************************************)
EXTENDS Naturals, FiniteSets

CONSTANTS
    Peers,          \* certificate fingerprints
    Caps,           \* capabilities the daemon implements
    AutoGrant,      \* settings.auto_grant
    NotifyFlags,    \* the switches of NotificationPolicy
    ClipFlags,      \* the switches of ClipboardPolicy
    DefaultFlags,   \* the switches Default::default() turns on
    Identities,     \* key pairs; the bound on identities ever created
    Clients,        \* control connections
    DiskFaults,     \* whether a write may fail while the process lives
    None, Torn, Unreadable

Flags == NotifyFlags \cup ClipFlags

ASSUME StoreAssumption ==
    /\ AutoGrant \subseteq Caps
    /\ DefaultFlags \subseteq Flags
    /\ DiskFaults \in BOOLEAN

VARIABLES
    proc,       \* "down", "creating" (in initialize) or "up"
    ident,      \* the identity the process runs with
    mem,        \* Store::peers
    disk,       \* the files identity.key and state.json
    tmp,        \* the temporary files beside them
    job,        \* the write_atomic in progress
    client,     \* a client between the two locks of do_notifications_policy
    minted,     \* history: identities ever generated
    revoked     \* history: peers whose revocation was acknowledged, no re-pairing since

vars == <<proc, ident, mem, disk, tmp, job, client, minted, revoked>>

Record == [state : {"absent", "trusted", "revoked"}, hidden : BOOLEAN,
           grants : SUBSET Caps, flags : SUBSET Flags]

Document == [ident : Identities, peers : [Peers -> Record]]

\* What an operation does with the outcome of its write.
Outcome == [op : {"boot", "pair", "hide", "grant", "clipboard", "policy"}]
               \cup [op : {"unpair"}, peer : Peers]

Job == [file : {"key", "state"}, data : Identities \cup Document,
        at : {"open", "write", "rename"}, undo : [Peers -> Record] \cup {None},
        done : Outcome]

Update == [peer : Peers, updated : SUBSET NotifyFlags]

ASSUME NothingAssumption ==
    /\ None \notin Identities \cup Document \cup [Peers -> Record] \cup Job \cup Update
    /\ Torn \notin Identities \cup Document \cup {None}
    /\ Unreadable \notin Identities \cup Document \cup {None, Torn}

\* A fingerprint that is not a key of the map.
Absent == [state |-> "absent", hidden |-> FALSE, grants |-> {}, flags |-> {}]

\* TrustedPeer::into_tombstone: the fingerprint and the revocation, nothing else.
Tombstone == [state |-> "revoked", hidden |-> TRUE, grants |-> {}, flags |-> {}]

\* revoke_peer: no grants and both policies DENIED; hidden stays as it was.
Revoked(r) == [r EXCEPT !.state = "revoked", !.grants = {}, !.flags = {}]

Files == {"key", "state"}

Reads(f) == {disk[f], Unreadable}

NoJob == job = None

-----------------------------------------------------------------------------

Init ==
    /\ proc = "down"
    /\ ident = None
    /\ mem = [p \in Peers |-> Absent]
    /\ disk = [f \in Files |-> None]
    /\ tmp = [f \in Files |-> None]
    /\ job = None
    /\ client = [c \in Clients |-> None]
    /\ minted = {}
    /\ revoked = {}

\* A plausible error: an unreadable file is taken for an absent one.
ClassifyErrorIsAbsence(s, k) ==
    CASE s \in {None, Unreadable} /\ k \in {None, Unreadable} -> "create"
      [] s \in {None, Unreadable} \/ k \in {None, Unreadable} -> "refuse"
      [] s = Torn \/ k = Torn -> "refuse"
      [] OTHER -> IF s.ident = k THEN "load" ELSE "refuse"

\* classify, and the continuity check of LocalIdentity::from_parts that load
\* adds: what to do with what reading state.json and the key gave.
Classify(s, k) ==
    IF s = None /\ k = None THEN "create"
    ELSE IF {None, Torn, Unreadable} \cap {s, k} = {} /\ s.ident = k THEN "load"
    ELSE "refuse"

\* A write_atomic starts: the file, what goes in it, and what the operation does
\* with its outcome.  "undo" is the map that commit puts back on failure.
Writing(f, data, undo, done) ==
    [file |-> f, data |-> data, at |-> "open", undo |-> undo, done |-> done]

\* Store::open_with on a first run: initialize generates an identity and writes
\* its key.  A refusal writes nothing and ends the process, so it is no step.
Create ==
    /\ proc = "down"
    /\ \E s \in Reads("state"), k \in Reads("key") : Classify(s, k) = "create"
    /\ \E i \in Identities \ minted :
         /\ ident' = i
         /\ minted' = minted \cup {i}
         /\ job' = Writing("key", i, None, [op |-> "boot"])
    /\ proc' = "creating"
    /\ mem' = [p \in Peers |-> Absent]
    /\ UNCHANGED <<disk, tmp, client, revoked>>

\* A plausible error: a hidden record is believed to be what the file says.
LoadBelieves ==
    /\ proc = "down"
    /\ \E s \in Reads("state"), k \in Reads("key") :
         /\ Classify(s, k) = "load"
         /\ ident' = k
         /\ mem' = s.peers
    /\ proc' = "up"
    /\ UNCHANGED <<disk, tmp, job, client, minted, revoked>>

\* Store::load: hidden implies revoked, whatever the file says.
Load ==
    /\ proc = "down"
    /\ \E s \in Reads("state"), k \in Reads("key") :
         /\ Classify(s, k) = "load"
         /\ ident' = k
         /\ mem' = [p \in Peers |-> IF s.peers[p].hidden
                                    THEN [s.peers[p] EXCEPT !.state = "revoked"]
                                    ELSE s.peers[p]]
    /\ proc' = "up"
    /\ UNCHANGED <<disk, tmp, job, client, minted, revoked>>

-----------------------------------------------------------------------------
(* write_atomic, and what each operation does with its result.             *)

\* Store::persist writes the whole document.
Persist(peers, undo, done) ==
    /\ mem' = peers
    /\ job' = Writing("state", [ident |-> ident, peers |-> peers], undo, done)

\* The temporary file is opened, truncated and partly written.
OpenTmp ==
    /\ ~ NoJob
    /\ job.at = "open"
    /\ job' = [job EXCEPT !.at = "write"]
    /\ tmp' = [tmp EXCEPT ![job.file] = Torn]
    /\ UNCHANGED <<proc, ident, mem, disk, client, minted, revoked>>

\* write_all and sync_all have returned.
SyncTmp ==
    /\ ~ NoJob
    /\ job.at = "write"
    /\ job' = [job EXCEPT !.at = "rename"]
    /\ tmp' = [tmp EXCEPT ![job.file] = job.data]
    /\ UNCHANGED <<proc, ident, mem, disk, client, minted, revoked>>

\* The operation has its Ok: initialize goes on from the key to the document,
\* and a control client is told that what it asked for is done.
Acknowledge ==
    \/ /\ job.file = "key"
       /\ Persist(mem, None, job.done)
       /\ UNCHANGED <<proc, revoked>>
    \/ /\ job.file = "state"
       /\ job' = None
       /\ proc' = "up"
       /\ revoked' = IF job.done.op = "unpair" THEN revoked \cup {job.done.peer}
                     ELSE revoked
       /\ UNCHANGED mem

\* The rename, and the operation's return.
Rename ==
    /\ ~ NoJob
    /\ job.at = "rename"
    /\ disk' = [disk EXCEPT ![job.file] = tmp[job.file]]
    /\ tmp' = [tmp EXCEPT ![job.file] = None]
    /\ Acknowledge
    /\ UNCHANGED <<ident, client, minted>>

\* A step of write_atomic fails.  initialize gives up and the process ends;
\* commit puts the previous map back; the other operations return the error and
\* keep what they changed in memory.
WriteFails ==
    /\ DiskFaults
    /\ ~ NoJob
    /\ job' = None
    /\ proc' = IF job.done.op = "boot" THEN "down" ELSE proc
    /\ ident' = IF job.done.op = "boot" THEN None ELSE ident
    /\ mem' = IF job.undo = None THEN mem ELSE job.undo
    /\ UNCHANGED <<disk, tmp, client, minted, revoked>>

-----------------------------------------------------------------------------
(* The operations, each under the store's lock.                            *)

Locked == proc = "up" /\ NoJob

\* DaemonState::store_peer and Store::add_peer, after a confirmed pairing: the
\* literal is the whole record.
StorePeer(p) ==
    /\ Locked
    /\ \E g \in SUBSET AutoGrant :
         Persist([mem EXCEPT ![p] = [state |-> "trusted", hidden |-> FALSE,
                                     grants |-> g, flags |-> DefaultFlags]],
                 None, [op |-> "pair"])
    /\ revoked' = revoked \ {p}
    /\ UNCHANGED <<proc, ident, disk, tmp, client, minted>>

\* A plausible error: the revocation stays in memory until the next write.
UnpairUnsaved(c, p) ==
    /\ Locked
    /\ client[c] = None
    /\ mem[p].state # "absent"
    /\ mem' = [mem EXCEPT ![p] = Revoked(@)]
    /\ revoked' = revoked \cup {p}
    /\ UNCHANGED <<proc, ident, disk, tmp, job, client, minted>>

\* do_unpair and Store::revoke_peer.  The device was resolved under an earlier
\* hold of the lock, so by now its record may be a tombstone.
Unpair(c, p) ==
    /\ Locked
    /\ client[c] = None
    /\ mem[p].state # "absent"
    /\ Persist([mem EXCEPT ![p] = Revoked(@)], None, [op |-> "unpair", peer |-> p])
    /\ UNCHANGED <<proc, ident, disk, tmp, client, minted, revoked>>

Hideable == {p \in Peers : mem[p].state = "revoked" /\ ~ mem[p].hidden}

\* hide_revoked_peer (one device) and hide_all_revoked_peers (all of them),
\* through commit.
Hide(c, ps) ==
    /\ Locked
    /\ client[c] = None
    /\ ps = Hideable \/ (ps \subseteq Hideable /\ Cardinality(ps) = 1)
    /\ Persist([p \in Peers |-> IF p \in ps THEN Tombstone ELSE mem[p]], mem, [op |-> "hide"])
    /\ UNCHANGED <<proc, ident, disk, tmp, client, minted, revoked>>

\* do_grant: trusted_peer and set_capability_grant under one lock.
Grant(c, p, cap, on) ==
    /\ Locked
    /\ client[c] = None
    /\ mem[p].state = "trusted"
    /\ Persist([mem EXCEPT ![p].grants = IF on THEN @ \cup {cap} ELSE @ \ {cap}], None,
               [op |-> "grant"])
    /\ UNCHANGED <<proc, ident, disk, tmp, client, minted, revoked>>

Switch(flags, f, on) == IF on THEN flags \cup {f} ELSE flags \ {f}

\* do_clipboard_policy: the policy is read and replaced under one lock.
ClipboardPolicy(c, p, f, on) ==
    /\ Locked
    /\ client[c] = None
    /\ mem[p].state = "trusted"
    /\ Persist([mem EXCEPT ![p].flags = Switch(@, f, on)], None, [op |-> "clipboard"])
    /\ UNCHANGED <<proc, ident, disk, tmp, client, minted, revoked>>

\* do_notifications_policy, first lock: the policy is read and changed outside.
ReadPolicy(c, p, f, on) ==
    /\ Locked
    /\ client[c] = None
    /\ mem[p].state = "trusted"
    /\ client' = [client EXCEPT ![c] =
         [peer |-> p,
          updated |-> Switch(mem[p].flags \cap NotifyFlags, f, on)]]
    /\ UNCHANGED <<proc, ident, mem, disk, tmp, job, minted, revoked>>

\* do_notifications_policy, second lock: set_notification_policy replaces the
\* policy of whatever record is there.
WritePolicy(c) ==
    /\ Locked
    /\ client[c] # None
    /\ LET p == client[c].peer
       IN  Persist(IF mem[p].state = "absent" THEN mem
                   ELSE [mem EXCEPT ![p].flags = (@ \ NotifyFlags) \cup client[c].updated],
                   None, [op |-> "policy"])
    /\ client' = [client EXCEPT ![c] = None]
    /\ UNCHANGED <<proc, ident, disk, tmp, minted, revoked>>

-----------------------------------------------------------------------------
(* The world: crashes, and files that go missing or are edited by hand.    *)

\* The process dies, wherever it is; the files stay.
Crash ==
    /\ proc # "down"
    /\ proc' = "down"
    /\ ident' = None
    /\ job' = None
    /\ mem' = [p \in Peers |-> Absent]
    /\ client' = [c \in Clients |-> None]
    /\ UNCHANGED <<disk, tmp, minted, revoked>>

\* A file is lost while the daemon is down.
LoseFile(f) ==
    /\ proc = "down"
    /\ disk[f] # None
    /\ disk' = [disk EXCEPT ![f] = None]
    /\ revoked' = IF f = "state" THEN {} ELSE revoked
    /\ UNCHANGED <<proc, ident, mem, tmp, job, client, minted>>

\* The operator puts a key back from a backup, as the refusal advises: some key
\* this daemon once had, not necessarily the one the document was made with.
RestoreKey(i) ==
    /\ proc = "down"
    /\ disk["key"] = None
    /\ i \in minted
    /\ disk' = [disk EXCEPT !["key"] = i]
    /\ UNCHANGED <<proc, ident, mem, tmp, job, client, minted, revoked>>

\* Somebody edits a tombstone to read trusted, the one edit load guards against.
HandEdit(p) ==
    /\ proc = "down"
    /\ disk["state"] \notin {None, Torn}
    /\ disk["state"].peers[p].hidden
    /\ disk' = [disk EXCEPT !["state"].peers[p].state = "trusted"]
    /\ UNCHANGED <<proc, ident, mem, tmp, job, client, minted, revoked>>

Handler(c) ==
    \/ \E p \in Peers : Unpair(c, p)
    \/ \E ps \in (SUBSET Peers) \ {{}} : Hide(c, ps)
    \/ \E p \in Peers, cap \in Caps, on \in BOOLEAN : Grant(c, p, cap, on)
    \/ \E p \in Peers, f \in ClipFlags, on \in BOOLEAN : ClipboardPolicy(c, p, f, on)
    \/ \E p \in Peers, f \in NotifyFlags, on \in BOOLEAN : ReadPolicy(c, p, f, on)
    \/ WritePolicy(c)

Next ==
    \/ Create
    \/ Load
    \/ OpenTmp
    \/ SyncTmp
    \/ Rename
    \/ WriteFails
    \/ \E p \in Peers : StorePeer(p)
    \/ \E c \in Clients : Handler(c)
    \/ Crash
    \/ \E f \in Files : LoseFile(f)
    \/ \E i \in Identities : RestoreKey(i)
    \/ \E p \in Peers : HandEdit(p)

Spec == Init /\ [][Next]_vars

-----------------------------------------------------------------------------
(* Properties.                                                             *)

\* The variables keep their types; no file the daemon reads is ever torn.
TypeOK ==
    /\ proc \in {"down", "creating", "up"}
    /\ ident \in Identities \cup {None}
    /\ mem \in [Peers -> Record]
    /\ disk["key"] \in Identities \cup {None}
    /\ disk["state"] \in Document \cup {None}
    /\ tmp["key"] \in Identities \cup {None, Torn}
    /\ tmp["state"] \in Document \cup {None, Torn}
    /\ minted \subseteq Identities
    /\ revoked \subseteq Peers

\* Nothing is admitted that was hidden, and a revoked device holds no grant: in
\* the running store, whatever was lost, edited or crashed before.
HiddenStaysOut ==
    proc = "up" =>
        \A p \in Peers :
            /\ mem[p].hidden => mem[p].state = "revoked"
            /\ mem[p].state = "revoked" => mem[p].grants = {}

\* An unpairing that was answered with Ok is still in force, in memory and after
\* any restart, until the device is paired again or state.json is lost.
RevocationStands ==
    \A p \in revoked :
        /\ proc = "up" => mem[p].state = "revoked"
        /\ disk["state"] # None =>
             disk["state"].peers[p].state = "revoked" \/ disk["state"].peers[p].hidden

\* The daemon never runs with an identity other than the one its records were
\* made under, even when the operator put back the wrong key.
OneIdentity ==
    proc = "up" => disk["key"] = ident /\ disk["state"].ident = ident

\* open_with's one rule: an identity key that exists is never overwritten, and a
\* new identity appears only where there was neither key nor document.
IdentityNeverReplaced ==
    [][/\ disk["key"] # None => disk'["key"] \in {disk["key"], None}
       /\ minted' # minted => disk["key"] = None /\ disk["state"] = None]_vars

-----------------------------------------------------------------------------
(* The inductive invariant behind the four invariants.                     *)

StoreTypes ==
    /\ TypeOK
    /\ disk \in [Files -> Identities \cup Document \cup {None}]
    /\ tmp \in [Files -> Identities \cup Document \cup {None, Torn}]
    /\ job \in Job \cup {None}
    /\ client \in [Clients -> Update \cup {None}]

\* The write in progress belongs to the process as it is: a key is written only
\* where there is no file, a document is written beside its own key, and what
\* is renamed is what was to be written.
JobIsCurrent ==
    /\ proc = "down" => job = None
    /\ proc = "creating" => job # None
    /\ proc # "down" => ident \in Identities
    /\ job # None =>
         /\ job.done.op = "boot" <=> proc = "creating"
         /\ job.file = "key" => /\ proc = "creating"
                                /\ job.data = ident
                                /\ disk["key"] = None
         /\ job.file = "state" => /\ job.data = [ident |-> ident, peers |-> mem]
                                  /\ disk["key"] = ident
         /\ job.at = "rename" => tmp[job.file] = job.data
    /\ proc = "creating" => disk["state"] = None /\ mem = [p \in Peers |-> Absent]

\* No record of a map is admitted while hidden, nor holds a grant once revoked.
Orderly(peers) ==
    \A p \in Peers :
        /\ peers[p].hidden => peers[p].state = "revoked"
        /\ peers[p].state = "revoked" => peers[p].grants = {}

\* So it is with the map in memory and with the one that a failed write would
\* put back; in the file an edit may have made a tombstone read trusted.
RecordsAreOrderly ==
    /\ Orderly(mem)
    /\ job # None /\ job.undo # None => Orderly(job.undo)
    /\ disk["state"] # None =>
         \A p \in Peers :
             LET r == disk["state"].peers[p]
             IN  r.hidden \/ r.state = "revoked" => r.grants = {}

\* What will be acknowledged, or put back, keeps acknowledged revocations.
RevocationsAreKept ==
    /\ disk["state"] = None => revoked = {}
    /\ job # None =>
         /\ job.done.op = "unpair" => mem[job.done.peer].state = "revoked"
         /\ job.undo # None => \A p \in revoked : job.undo[p].state = "revoked"

StoreInv ==
    /\ StoreTypes
    /\ JobIsCurrent
    /\ OneIdentity
    /\ RecordsAreOrderly
    /\ RevocationsAreKept
    /\ RevocationStands

=============================================================================
