-------------------------- MODULE TrustStoreProofs --------------------------
(***************************************************************************)
(* For every set of peers, clients, identities and switches: StoreInv is   *)
(* an inductive invariant of the trust store, through crashes and failed   *)
(* writes, and the store's promises follow from it.                        *)
(***************************************************************************)
EXTENDS TrustStore, TLAPS

\* A read gives the file's content or an error; what Classify loads is the
\* content of both files, of one identity.
LEMMA LoadReadsBoth ==
    ASSUME StoreTypes,
           NEW s \in Reads("state"), NEW k \in Reads("key"),
           Classify(s, k) = "load"
    PROVE  /\ s = disk["state"]
           /\ k = disk["key"]
           /\ s \in Document
           /\ k \in Identities
           /\ s.ident = k
BY Zenon, NothingAssumption DEF StoreTypes, TypeOK, Reads, Classify

\* A first start happens only where both files are absent (classify).
LEMMA CreateFindsNothing ==
    ASSUME StoreTypes,
           NEW s \in Reads("state"), NEW k \in Reads("key"),
           Classify(s, k) = "create"
    PROVE  disk["state"] = None /\ disk["key"] = None
BY Zenon, NothingAssumption DEF StoreTypes, TypeOK, Reads, Classify

\* A mutation under the lock: a new map that is orderly, keeps acknowledged
\* revocations and is on its way to the disk.
Mutates(peers, undo, done) ==
    /\ Locked
    /\ Persist(peers, undo, done)
    /\ peers \in [Peers -> Record]
    /\ Orderly(peers)
    /\ undo \in {None, mem}
    /\ done \in Outcome
    /\ done.op # "boot"
    /\ done.op = "unpair" => peers[done.peer].state = "revoked"
    /\ \A p \in revoked' : peers[p].state = "revoked"
    /\ revoked' \subseteq revoked
    /\ client' \in [Clients -> Update \cup {None}]
    /\ UNCHANGED <<proc, ident, disk, tmp, minted>>

\* A mutation preserves the invariant.
LEMMA MutationInv ==
    ASSUME StoreInv, NEW peers, NEW undo, NEW done, Mutates(peers, undo, done)
    PROVE  StoreInv'
<1>1. /\ proc = "up" /\ proc' = "up"
      /\ job = None
      /\ ident \in Identities /\ ident' = ident
      /\ disk' = disk /\ tmp' = tmp /\ disk["key"] = ident
      /\ mem' = peers /\ peers \in [Peers -> Record]
      /\ minted' = minted
    BY Zenon DEF Mutates, Locked, NoJob, StoreInv, JobIsCurrent, OneIdentity, Persist
<1>2. job' = [file |-> "state", data |-> [ident |-> ident, peers |-> peers],
              at |-> "open", undo |-> undo, done |-> done]
    BY Zenon DEF Mutates, Persist, Writing
<1>3. job' \in Job
  <2>1. [ident |-> ident, peers |-> peers] \in Document
      BY Zenon, <1>1 DEF Document
  <2>2. undo \in [Peers -> Record] \cup {None}
      BY Zenon DEF Mutates, StoreInv, StoreTypes, TypeOK
  <2>3. done \in Outcome
      BY Zenon DEF Mutates
  <2> QED
      BY Zenon, <1>2, <2>1, <2>2, <2>3 DEF Job
<1>4. job' # None
    BY Zenon, <1>3, NothingAssumption
<1>5. StoreTypes'
  <2>1. revoked' \subseteq Peers
      BY Zenon DEF Mutates, StoreInv, StoreTypes, TypeOK
  <2>2. client' \in [Clients -> Update \cup {None}]
      BY Zenon DEF Mutates
  <2> QED
      BY Zenon, <1>1, <1>3, <2>1, <2>2 DEF StoreInv, StoreTypes, TypeOK
<1>6. JobIsCurrent'
  <2>1. done.op # "boot"
      BY Zenon DEF Mutates
  <2> QED
      BY Zenon, <1>1, <1>2, <2>1 DEF JobIsCurrent
<1>7. OneIdentity'
    BY Zenon, <1>1 DEF StoreInv, OneIdentity
<1>8. RecordsAreOrderly'
  <2>1. Orderly(peers) /\ Orderly(mem) /\ undo \in {None, mem}
      BY Zenon DEF Mutates, StoreInv, RecordsAreOrderly
  <2>2. Orderly(mem)'
      BY Zenon, <1>1, <2>1 DEF Orderly
  <2>3. ASSUME undo # None PROVE Orderly(job.undo)'
      BY <1>2, <2>1, <2>3 DEF Orderly
  <2> QED
      BY Zenon, <1>1, <1>2, <2>2, <2>3 DEF StoreInv, RecordsAreOrderly
<1>9. RevocationsAreKept'
  <2>1. /\ done.op = "unpair" => peers[done.peer].state = "revoked"
        /\ revoked' \subseteq revoked
        /\ undo \in {None, mem}
      BY Zenon DEF Mutates
  <2>2. \A p \in revoked : mem[p].state = "revoked"
      BY Zenon, <1>1 DEF StoreInv, RevocationStands
  <2>3. disk["state"] = None => revoked = {}
      BY Zenon DEF StoreInv, RevocationsAreKept
  <2>4. undo # None => \A p \in revoked' : undo[p].state = "revoked"
      BY Zenon, <2>1, <2>2
  <2>5. job'.done = done /\ job'.undo = undo
      BY Zenon, <1>2
  <2>6. disk'["state"] = None => revoked' = {}
      BY Zenon, <1>1, <2>1, <2>3
  <2> QED
      BY Zenon, <1>1, <2>1, <2>4, <2>5, <2>6 DEF RevocationsAreKept
<1>10. RevocationStands'
  <2>1. /\ \A p \in revoked' : peers[p].state = "revoked"
        /\ revoked' \subseteq revoked
      BY Zenon DEF Mutates
  <2> QED
      BY Zenon, <1>1, <2>1 DEF StoreInv, RevocationStands
<1> QED
    BY Zenon, <1>5, <1>6, <1>7, <1>8, <1>9, <1>10 DEF StoreInv

\* Each operation of the store is such a mutation.
LEMMA OperationInv ==
    ASSUME StoreInv,
           \/ \E p \in Peers : StorePeer(p)
           \/ \E c \in Clients : Handler(c)
    PROVE  StoreInv'
<1>1. /\ StoreTypes /\ TypeOK
      /\ mem \in [Peers -> Record]
      /\ Orderly(mem)
      /\ client \in [Clients -> Update \cup {None}]
      /\ revoked \subseteq Peers
    BY Zenon DEF StoreInv, StoreTypes, TypeOK, RecordsAreOrderly
<1>2. ASSUME Locked PROVE \A p \in revoked : mem[p].state = "revoked"
    BY Zenon, <1>2 DEF StoreInv, RevocationStands, Locked
<1>3. ASSUME NEW p \in Peers, StorePeer(p) PROVE StoreInv'
  <2>1. PICK g \in SUBSET AutoGrant :
            Persist([mem EXCEPT ![p] = [state |-> "trusted", hidden |-> FALSE,
                                        grants |-> g, flags |-> DefaultFlags]],
                    None, [op |-> "pair"])
      BY Zenon, <1>3 DEF StorePeer
  <2> DEFINE r == [state |-> "trusted", hidden |-> FALSE, grants |-> g,
                   flags |-> DefaultFlags]
             peers == [mem EXCEPT ![p] = r]
  <2>2. r \in Record
      BY Zenon, StoreAssumption DEF Record
  <2>3. peers \in [Peers -> Record]
      BY Zenon, <1>1, <2>2
  <2>4. Orderly(peers)
      BY Zenon, <1>1 DEF Orderly
  <2>5. revoked' = revoked \ {p}
      BY Zenon, <1>3 DEF StorePeer
  <2>6. \A q \in revoked' : peers[q].state = "revoked"
      BY Zenon, <1>1, <1>2, <1>3, <2>5 DEF StorePeer
  <2>7. [op |-> "pair"] \in Outcome
      BY Zenon DEF Outcome
  <2>8. Mutates(peers, None, [op |-> "pair"])
      BY Zenon, <1>1, <1>3, <2>1, <2>3, <2>4, <2>5, <2>6, <2>7 DEF StorePeer, Mutates
  <2> QED
      BY Zenon, <2>8, MutationInv
<1>4. ASSUME NEW c \in Clients, NEW p \in Peers, Unpair(c, p) PROVE StoreInv'
  <2> DEFINE peers == [mem EXCEPT ![p] = Revoked(@)]
             done == [op |-> "unpair", peer |-> p]
  <2>1. Revoked(mem[p]) \in Record
      BY ZenonT(60), <1>1 DEF Revoked, Record
  <2>2. peers \in [Peers -> Record]
      BY Zenon, <1>1, <2>1
  <2>3. Revoked(mem[p]).state = "revoked" /\ Revoked(mem[p]).grants = {}
      BY Zenon, <1>1 DEF Revoked, Record
  <2>4. Orderly(peers)
      BY Zenon, <1>1, <2>3 DEF Orderly
  <2>5. \A q \in revoked : peers[q].state = "revoked"
      BY Zenon, <1>1, <1>2, <1>4, <2>3 DEF Unpair
  <2>6. done \in Outcome /\ peers[done.peer].state = "revoked"
      BY Zenon, <1>1, <2>3 DEF Outcome
  <2>7. Mutates(peers, None, done)
      BY Zenon, <1>1, <1>4, <2>2, <2>4, <2>5, <2>6 DEF Unpair, Mutates
  <2> QED
      BY Zenon, <2>7, MutationInv
<1>5. ASSUME NEW c \in Clients, NEW ps \in SUBSET Peers, Hide(c, ps) PROVE StoreInv'
  <2> DEFINE peers == [p \in Peers |-> IF p \in ps THEN Tombstone ELSE mem[p]]
  <2>1. Tombstone \in Record
      BY Zenon DEF Tombstone, Record
  <2>2. peers \in [Peers -> Record]
      BY Zenon, <1>1, <2>1
  <2>3. Orderly(peers)
      BY Zenon, <1>1 DEF Orderly, Tombstone
  <2>4. \A q \in revoked : peers[q].state = "revoked"
      BY Zenon, <1>1, <1>2, <1>5 DEF Hide, Tombstone
  <2>5. [op |-> "hide"] \in Outcome
      BY Zenon DEF Outcome
  <2>6. Mutates(peers, mem, [op |-> "hide"])
      BY Zenon, <1>1, <1>5, <2>2, <2>3, <2>4, <2>5 DEF Hide, Mutates
  <2> QED
      BY Zenon, <2>6, MutationInv
<1>6. ASSUME NEW c \in Clients, NEW p \in Peers, NEW cap \in Caps, NEW on \in BOOLEAN,
             Grant(c, p, cap, on)
      PROVE  StoreInv'
  <2> DEFINE g == IF on THEN mem[p].grants \cup {cap} ELSE mem[p].grants \ {cap}
             r == [mem[p] EXCEPT !.grants = g]
             peers == [mem EXCEPT ![p] = r]
  <2>1. mem[p] \in Record /\ mem[p].state = "trusted"
      BY Zenon, <1>1, <1>6 DEF Grant
  <2>2. g \in SUBSET Caps
      BY Zenon, <2>1 DEF Record
  <2> HIDE DEF g
  <2>3. r \in Record /\ r.state = "trusted" /\ r.hidden = mem[p].hidden
      BY Zenon, <2>1, <2>2 DEF Record
  <2>4. peers \in [Peers -> Record]
      BY Zenon, <1>1, <2>3
  <2>5. Orderly(peers)
      BY Zenon, <1>1, <2>1, <2>3 DEF Orderly
  <2>6. \A q \in revoked : peers[q].state = "revoked"
      BY Zenon, <1>1, <1>2, <1>6, <2>3, <2>1 DEF Grant
  <2>7. [op |-> "grant"] \in Outcome
      BY Zenon DEF Outcome
  <2>8. Persist(peers, None, [op |-> "grant"])
      BY Zenon, <1>1, <1>6 DEF Grant, g
  <2>9. Mutates(peers, None, [op |-> "grant"])
      BY Zenon, <1>1, <1>6, <2>4, <2>5, <2>6, <2>7, <2>8 DEF Grant, Mutates
  <2> QED
      BY Zenon, <2>9, MutationInv
<1>7. ASSUME NEW p \in Peers, NEW fl \in SUBSET Flags, Locked
      PROVE  LET peers == [mem EXCEPT ![p].flags = fl]
             IN  /\ peers \in [Peers -> Record]
                 /\ Orderly(peers)
                 /\ \A q \in revoked : peers[q].state = "revoked"
  <2> DEFINE r == [mem[p] EXCEPT !.flags = fl]
             peers == [mem EXCEPT ![p] = r]
  <2>1. /\ r \in Record
        /\ r.state = mem[p].state /\ r.hidden = mem[p].hidden
        /\ r.grants = mem[p].grants
      BY <1>1 DEF Record
  <2>2. peers \in [Peers -> Record]
      BY Zenon, <1>1, <2>1
  <2>3. Orderly(peers)
      BY Zenon, <1>1, <2>1 DEF Orderly
  <2>4. \A q \in revoked : peers[q].state = "revoked"
      BY Zenon, <1>1, <1>2, <1>7, <2>1
  <2> QED
      BY Zenon, <2>2, <2>3, <2>4
<1>8. ASSUME NEW c \in Clients, NEW p \in Peers, NEW f \in ClipFlags, NEW on \in BOOLEAN,
             ClipboardPolicy(c, p, f, on)
      PROVE  StoreInv'
  <2> DEFINE fl == Switch(mem[p].flags, f, on)
             peers == [mem EXCEPT ![p].flags = fl]
  <2>1. fl \in SUBSET Flags
      BY Zenon, <1>1 DEF Switch, Record, Flags
  <2>2. Persist(peers, None, [op |-> "clipboard"])
      BY Zenon, <1>1, <1>8 DEF ClipboardPolicy
  <2> HIDE DEF fl
  <2>3. /\ peers \in [Peers -> Record]
        /\ Orderly(peers)
        /\ \A q \in revoked : peers[q].state = "revoked"
      BY Zenon, <1>7, <1>8, <2>1 DEF ClipboardPolicy
  <2>4. [op |-> "clipboard"] \in Outcome
      BY Zenon DEF Outcome
  <2>5. Mutates(peers, None, [op |-> "clipboard"])
      BY Zenon, <1>1, <1>8, <2>2, <2>3, <2>4 DEF ClipboardPolicy, Mutates
  <2> QED
      BY Zenon, <2>5, MutationInv
<1>9. ASSUME NEW c \in Clients, WritePolicy(c) PROVE StoreInv'
  <2> DEFINE p == client[c].peer
             fl == (mem[p].flags \ NotifyFlags) \cup client[c].updated
             changed == [mem EXCEPT ![p].flags = fl]
             peers == IF mem[p].state = "absent" THEN mem ELSE changed
  <2>1. Locked /\ client[c] \in Update
      BY Zenon, <1>1, <1>9 DEF WritePolicy
  <2>2. p \in Peers /\ client[c].updated \in SUBSET NotifyFlags
      BY Zenon, <2>1 DEF Update
  <2>3. fl \in SUBSET Flags
      BY Zenon, <1>1, <2>2 DEF Record, Flags
  <2>4. Persist(peers, None, [op |-> "policy"])
      BY Zenon, <1>1, <1>9 DEF WritePolicy
  <2> HIDE DEF fl, p
  <2>5. /\ changed \in [Peers -> Record]
        /\ Orderly(changed)
        /\ \A q \in revoked : changed[q].state = "revoked"
      BY Zenon, <1>7, <2>1, <2>2, <2>3
  <2> HIDE DEF changed
  <2>6. /\ peers \in [Peers -> Record]
        /\ Orderly(peers)
        /\ \A q \in revoked : peers[q].state = "revoked"
      BY Zenon, <1>1, <1>2, <2>1, <2>5
  <2> HIDE DEF peers
  <2>7. [op |-> "policy"] \in Outcome
      BY Zenon DEF Outcome
  <2>8. Mutates(peers, None, [op |-> "policy"])
      BY Zenon, <1>1, <1>9, <2>1, <2>4, <2>6, <2>7 DEF WritePolicy, Mutates
  <2> QED
      BY Zenon, <2>8, MutationInv
<1>10. ASSUME NEW c \in Clients, NEW p \in Peers, NEW f \in NotifyFlags, NEW on \in BOOLEAN,
              ReadPolicy(c, p, f, on)
       PROVE  StoreInv'
  <2> DEFINE u == [peer |-> p, updated |-> Switch(mem[p].flags \cap NotifyFlags, f, on)]
  <2>1. u \in Update
      BY Zenon, <1>1 DEF Switch, Update, Record
  <2>2. client' \in [Clients -> Update \cup {None}]
      BY Zenon, <1>1, <1>10, <2>1 DEF ReadPolicy
  <2>3. UNCHANGED <<proc, ident, mem, disk, tmp, job, minted, revoked>>
      BY Zenon, <1>10 DEF ReadPolicy
  <2> QED
      BY <2>2, <2>3 DEF StoreInv, StoreTypes, TypeOK, JobIsCurrent, OneIdentity,
         RecordsAreOrderly, Orderly, RevocationsAreKept, RevocationStands
<1> QED
    BY Zenon, <1>3, <1>4, <1>5, <1>6, <1>8, <1>9, <1>10 DEF Handler

\* Starting the process preserves the invariant.
LEMMA StartInv ==
    ASSUME StoreInv, Create \/ Load
    PROVE  StoreInv'
<1>1. StoreTypes
    BY Zenon DEF StoreInv
<1>2. CASE Create
  <2>1. disk["state"] = None /\ disk["key"] = None
      BY Zenon, <1>1, <1>2, CreateFindsNothing DEF Create
  <2>2. PICK i \in Identities :
            /\ ident' = i
            /\ minted' = minted \cup {i}
            /\ job' = [file |-> "key", data |-> i, at |-> "open", undo |-> None,
                       done |-> [op |-> "boot"]]
      BY Zenon, <1>2 DEF Create, Writing
  <2>3. /\ proc' = "creating"
        /\ mem' = [p \in Peers |-> Absent]
        /\ UNCHANGED <<disk, tmp, client, revoked>>
      BY Zenon, <1>2 DEF Create
  <2>4. [op |-> "boot"] \in Outcome
      BY Zenon DEF Outcome
  <2>5. job' \in Job
      BY Zenon, <2>2, <2>4 DEF Job
  <2>6. Absent \in Record
      BY Zenon DEF Absent, Record
  <2>7. mem' \in [Peers -> Record]
      BY Zenon, <2>3, <2>6
  <2>8. StoreTypes'
      BY Zenon, <1>1, <2>2, <2>3, <2>5, <2>7 DEF StoreTypes, TypeOK
  <2>9. JobIsCurrent'
      BY Zenon, <2>1, <2>2, <2>3, <2>5, NothingAssumption DEF JobIsCurrent
  <2>10. OneIdentity'
      BY Zenon, <2>3 DEF OneIdentity
  <2>11. RecordsAreOrderly'
      BY Zenon, <2>1, <2>2, <2>3 DEF RecordsAreOrderly, Orderly, Absent
  <2>12. revoked' = {}
      BY Zenon, <2>1, <2>3 DEF StoreInv, RevocationsAreKept
  <2>13. RevocationsAreKept' /\ RevocationStands'
      BY Zenon, <2>2, <2>12 DEF RevocationsAreKept, RevocationStands
  <2> QED
      BY Zenon, <2>8, <2>9, <2>10, <2>11, <2>13 DEF StoreInv
<1>3. CASE Load
  <2> DEFINE s == disk["state"]
  <2>1. /\ s \in Document
        /\ disk["key"] \in Identities
        /\ s.ident = disk["key"]
        /\ ident' = disk["key"]
        /\ mem' = [p \in Peers |-> IF s.peers[p].hidden
                                   THEN [s.peers[p] EXCEPT !.state = "revoked"]
                                   ELSE s.peers[p]]
    <3>1. PICK st \in Reads("state"), k \in Reads("key") :
             /\ Classify(st, k) = "load"
             /\ ident' = k
             /\ mem' = [p \in Peers |-> IF st.peers[p].hidden
                                        THEN [st.peers[p] EXCEPT !.state = "revoked"]
                                        ELSE st.peers[p]]
        BY Zenon, <1>3 DEF Load
    <3> QED
        BY Zenon, <1>1, <3>1, LoadReadsBoth
  <2>2. /\ proc = "down" /\ proc' = "up"
        /\ UNCHANGED <<disk, tmp, job, client, minted, revoked>>
        /\ job = None
      BY Zenon, <1>3 DEF Load, StoreInv, JobIsCurrent
  <2>3. s # None
      BY Zenon, <2>1, NothingAssumption
  <2>4. \A p \in Peers : s.peers[p] \in Record
      BY Zenon, <2>1 DEF Document
  <2>5. \A p \in Peers : mem'[p] \in Record
      BY <2>1, <2>4 DEF Record
  <2>6. mem' \in [Peers -> Record]
      BY Zenon, <2>1, <2>5
  <2>7. StoreTypes'
      BY Zenon, <1>1, <2>1, <2>2, <2>6 DEF StoreTypes, TypeOK
  <2>8. JobIsCurrent' /\ OneIdentity'
      BY Zenon, <2>1, <2>2 DEF JobIsCurrent, OneIdentity
  <2>9. \A p \in Peers :
            /\ mem'[p].hidden = s.peers[p].hidden
            /\ mem'[p].grants = s.peers[p].grants
            /\ s.peers[p].hidden => mem'[p].state = "revoked"
            /\ ~ s.peers[p].hidden => mem'[p].state = s.peers[p].state
      BY Zenon, <2>1, <2>4 DEF Record
  <2>10. \A p \in Peers :
            s.peers[p].hidden \/ s.peers[p].state = "revoked" => s.peers[p].grants = {}
      BY Zenon, <2>3 DEF StoreInv, RecordsAreOrderly
  <2>11. Orderly(mem)'
      BY Zenon, <2>9, <2>10 DEF Orderly
  <2>12. RecordsAreOrderly'
      BY Zenon, <2>2, <2>11 DEF StoreInv, RecordsAreOrderly
  <2>13. RevocationsAreKept'
      BY Zenon, <2>2 DEF StoreInv, RevocationsAreKept
  <2>14. \A p \in revoked : s.peers[p].state = "revoked" \/ s.peers[p].hidden
      BY Zenon, <2>3 DEF StoreInv, RevocationStands
  <2>15. RevocationStands'
      BY <1>1, <2>2, <2>9, <2>14 DEF RevocationStands, StoreTypes, TypeOK
  <2> QED
      BY Zenon, <2>7, <2>8, <2>12, <2>13, <2>15 DEF StoreInv
<1> QED
    BY Zenon, <1>2, <1>3

\* The steps of write_atomic up to the rename, a failure of one of them, and
\* the end of the process preserve the invariant.
LEMMA InterruptedWriteInv ==
    ASSUME StoreInv, OpenTmp \/ SyncTmp \/ WriteFails \/ Crash
    PROVE  StoreInv'
<1>1. StoreTypes /\ TypeOK /\ JobIsCurrent
    BY Zenon DEF StoreInv, StoreTypes
<1>2. CASE OpenTmp \/ SyncTmp
  <2>1. job \in Job /\ job # None
      BY Zenon, <1>1, <1>2 DEF OpenTmp, SyncTmp, NoJob, StoreTypes
  <2>2. \E a \in {"write", "rename"}, d \in {Torn, job.data} :
           /\ job' = [job EXCEPT !.at = a]
           /\ tmp' = [tmp EXCEPT ![job.file] = d]
           /\ a = "rename" => d = job.data
      BY Zenon, <1>2 DEF OpenTmp, SyncTmp
  <2>3. UNCHANGED <<proc, ident, mem, disk, client, minted, revoked>>
      BY Zenon, <1>2 DEF OpenTmp, SyncTmp
  <2>4. PICK a \in {"write", "rename"}, d \in {Torn, job.data} :
           /\ job' = [job EXCEPT !.at = a]
           /\ tmp' = [tmp EXCEPT ![job.file] = d]
           /\ a = "rename" => d = job.data
      BY Zenon, <2>2
  <2>5. /\ job' \in Job
        /\ job'.file = job.file /\ job'.data = job.data /\ job'.undo = job.undo
        /\ job'.done = job.done /\ job'.at = a
      BY Zenon, <2>1, <2>4 DEF Job
  <2>6. /\ job.file \in Files
        /\ tmp' \in [Files -> Identities \cup Document \cup {None, Torn}]
        /\ tmp'[job.file] = d
        /\ \A f \in Files : f # job.file => tmp'[f] = tmp[f]
      BY Zenon, <1>1, <2>1, <2>4 DEF Job, Files, StoreTypes
  <2>7. /\ job.file = "key" => job.data \in Identities
        /\ job.file = "state" => job.data \in Document
    <3>1. job.file = "key" => job.data \in Identities
        BY Zenon, <1>1, <2>1 DEF JobIsCurrent
    <3>2. job.file = "state" => job.data \in Document
      <4>1. job.file = "state" => ident \in Identities /\ mem \in [Peers -> Record]
          BY Zenon, <1>1, <2>1 DEF JobIsCurrent, TypeOK
      <4>2. job.file = "state" => job.data = [ident |-> ident, peers |-> mem]
          BY Zenon, <1>1, <2>1 DEF JobIsCurrent
      <4> QED
          BY <4>1, <4>2 DEF Document
    <3> QED
        BY Zenon, <3>1, <3>2
  <2>8. /\ tmp'["key"] \in Identities \cup {None, Torn}
        /\ tmp'["state"] \in Document \cup {None, Torn}
      BY Zenon, <1>1, <2>1, <2>4, <2>6, <2>7 DEF TypeOK, Files, Job
  <2>9. StoreTypes'
      BY Zenon, <1>1, <2>3, <2>5, <2>6, <2>8 DEF StoreTypes, TypeOK
  <2>10. JobIsCurrent'
      BY <1>1, <2>1, <2>3, <2>4, <2>5, <2>6, NothingAssumption DEF JobIsCurrent
  <2>11. OneIdentity' /\ RecordsAreOrderly' /\ RevocationsAreKept' /\ RevocationStands'
      BY <2>1, <2>3, <2>5 DEF StoreInv, OneIdentity, RecordsAreOrderly, Orderly,
         RevocationsAreKept, RevocationStands
  <2> QED
      BY Zenon, <2>9, <2>10, <2>11 DEF StoreInv
<1>3. CASE WriteFails
  <2>1. /\ job \in Job /\ job # None /\ job' = None
        /\ proc' = IF job.done.op = "boot" THEN "down" ELSE proc
        /\ ident' = IF job.done.op = "boot" THEN None ELSE ident
        /\ mem' = IF job.undo = None THEN mem ELSE job.undo
        /\ UNCHANGED <<disk, tmp, client, minted, revoked>>
      BY Zenon, <1>1, <1>3 DEF WriteFails, NoJob, StoreTypes
  <2>2. mem' \in [Peers -> Record]
      BY Zenon, <1>1, <2>1 DEF TypeOK, Job
  <2>3. StoreTypes'
      BY Zenon, <1>1, <2>1, <2>2 DEF StoreTypes, TypeOK
  <2>4. /\ job.done.op = "boot" <=> proc = "creating"
        /\ proc # "down" /\ ident \in Identities
      BY Zenon, <1>1, <2>1 DEF JobIsCurrent
  <2>5. JobIsCurrent'
      BY Zenon, <1>1, <2>1, <2>4 DEF JobIsCurrent
  <2>6. OneIdentity'
      BY Zenon, <2>1, <2>4 DEF StoreInv, OneIdentity
  <2>7. RecordsAreOrderly'
      BY Zenon, <2>1 DEF StoreInv, RecordsAreOrderly, Orderly
  <2>8. RevocationsAreKept'
      BY Zenon, <2>1 DEF StoreInv, RevocationsAreKept
  <2>9. RevocationStands'
      BY Zenon, <2>1, <2>4 DEF StoreInv, RevocationsAreKept, RevocationStands
  <2> QED
      BY Zenon, <2>3, <2>5, <2>6, <2>7, <2>8, <2>9 DEF StoreInv
<1>4. CASE Crash
  <2>1. /\ proc' = "down" /\ ident' = None /\ job' = None
        /\ mem' = [p \in Peers |-> Absent]
        /\ client' = [c \in Clients |-> None]
        /\ UNCHANGED <<disk, tmp, minted, revoked>>
      BY Zenon, <1>4 DEF Crash
  <2>2. Absent \in Record
      BY Zenon DEF Absent, Record
  <2>3. StoreTypes'
      BY Zenon, <1>1, <2>1, <2>2 DEF StoreTypes, TypeOK
  <2>4. JobIsCurrent' /\ OneIdentity' /\ RevocationsAreKept' /\ RevocationStands'
      BY Zenon, <2>1 DEF StoreInv, JobIsCurrent, OneIdentity, RevocationsAreKept, RevocationStands
  <2>5. RecordsAreOrderly'
      BY Zenon, <2>1 DEF StoreInv, RecordsAreOrderly, Orderly, Absent
  <2> QED
      BY Zenon, <2>3, <2>4, <2>5 DEF StoreInv
<1> QED
    BY Zenon, <1>2, <1>3, <1>4

\* The rename, with what the operation does next, preserves the invariant.
LEMMA RenameInv ==
    ASSUME StoreInv, Rename
    PROVE  StoreInv'
<1>1. StoreTypes /\ TypeOK /\ JobIsCurrent
    BY Zenon DEF StoreInv, StoreTypes
<1>2. /\ job \in Job /\ job # None /\ job.at = "rename"
      /\ tmp[job.file] = job.data
      /\ disk' = [disk EXCEPT ![job.file] = job.data]
      /\ tmp' = [tmp EXCEPT ![job.file] = None]
      /\ Acknowledge
      /\ UNCHANGED <<ident, client, minted>>
    BY Zenon, <1>1 DEF Rename, NoJob, StoreTypes, JobIsCurrent
<1>3. /\ proc # "down" /\ ident \in Identities
      /\ job.done \in Outcome
      /\ mem \in [Peers -> Record]
    BY Zenon, <1>1, <1>2 DEF JobIsCurrent, TypeOK, Job
<1>4. CASE job.file = "key"
  <2>1. /\ proc = "creating" /\ job.data = ident /\ disk["state"] = None
        /\ mem = [p \in Peers |-> Absent]
        /\ job.done.op = "boot"
      BY Zenon, <1>1, <1>2, <1>4 DEF JobIsCurrent
  <2>2. /\ job' = [file |-> "state", data |-> [ident |-> ident, peers |-> mem],
                    at |-> "open", undo |-> None, done |-> job.done]
        /\ mem' = mem
        /\ UNCHANGED <<proc, revoked>>
      BY Zenon, <1>2, <1>4 DEF Acknowledge, Persist, Writing
  <2>3. [ident |-> ident, peers |-> mem] \in Document
      BY Zenon, <1>3 DEF Document
  <2>4. job' \in Job
      BY Zenon, <1>3, <2>2, <2>3 DEF Job
  <2>5. /\ disk' \in [Files -> Identities \cup Document \cup {None}]
        /\ disk'["key"] = ident /\ disk'["state"] = disk["state"]
      BY Zenon, <1>1, <1>2, <1>3, <1>4, <2>1 DEF StoreTypes, Files
  <2>6. /\ tmp' \in [Files -> Identities \cup Document \cup {None, Torn}]
        /\ tmp'["key"] = None /\ tmp'["state"] = tmp["state"]
      BY Zenon, <1>1, <1>2, <1>4 DEF StoreTypes, Files
  <2>7. StoreTypes'
      BY Zenon, <1>1, <1>2, <1>3, <2>2, <2>4, <2>5, <2>6 DEF StoreTypes, TypeOK
  <2>8. JobIsCurrent'
      BY Zenon, <1>2, <1>3, <2>1, <2>2, <2>4, <2>5, NothingAssumption DEF JobIsCurrent
  <2>9. OneIdentity'
      BY Zenon, <2>1, <2>2 DEF OneIdentity
  <2>10. RecordsAreOrderly'
      BY Zenon, <2>1, <2>2, <2>5 DEF StoreInv, RecordsAreOrderly, Orderly
  <2>11. RevocationsAreKept' /\ RevocationStands'
      BY Zenon, <2>1, <2>2, <2>5 DEF StoreInv, RevocationsAreKept, RevocationStands
  <2> QED
      BY Zenon, <2>7, <2>8, <2>9, <2>10, <2>11 DEF StoreInv
<1>5. CASE job.file = "state"
  <2>1. /\ job.data = [ident |-> ident, peers |-> mem]
        /\ disk["key"] = ident
      BY Zenon, <1>1, <1>2, <1>5 DEF JobIsCurrent
  <2>2. /\ job' = None /\ proc' = "up" /\ mem' = mem
        /\ revoked' = IF job.done.op = "unpair" THEN revoked \cup {job.done.peer}
                      ELSE revoked
      BY Zenon, <1>2, <1>5 DEF Acknowledge
  <2>3. job.data \in Document
      BY <1>3, <2>1 DEF Document
  <2>4. /\ disk' \in [Files -> Identities \cup Document \cup {None}]
        /\ disk'["key"] = ident
        /\ disk'["state"] = [ident |-> ident, peers |-> mem]
      BY Zenon, <1>1, <1>2, <1>5, <2>1, <2>3 DEF StoreTypes, Files
  <2>5. /\ tmp' \in [Files -> Identities \cup Document \cup {None, Torn}]
        /\ tmp'["key"] = tmp["key"] /\ tmp'["state"] = None
      BY Zenon, <1>1, <1>2, <1>5 DEF StoreTypes, Files
  <2>6. job.done.op = "unpair" => job.done.peer \in Peers
      BY Zenon, <1>3 DEF Outcome
  <2>7. revoked' \subseteq Peers
      BY Zenon, <1>1, <2>2, <2>6 DEF TypeOK
  <2>8. StoreTypes'
      BY Zenon, <1>1, <1>2, <1>3, <2>1, <2>2, <2>3, <2>4, <2>5, <2>7 DEF StoreTypes, TypeOK
  <2>9. JobIsCurrent' /\ OneIdentity'
      BY <1>2, <1>3, <2>2, <2>4 DEF JobIsCurrent, OneIdentity
  <2>10. Orderly(mem)
      BY Zenon DEF StoreInv, RecordsAreOrderly
  <2>11. RecordsAreOrderly'
      BY <2>2, <2>4, <2>10 DEF RecordsAreOrderly, Orderly
  <2>12. disk'["state"] # None
      BY Zenon, <1>3, <2>1, <2>3, <2>4, NothingAssumption
  <2>13. RevocationsAreKept'
      BY Zenon, <2>2, <2>12 DEF RevocationsAreKept
  <2>14. \A p \in revoked : mem[p].state = "revoked"
    <3>1. CASE proc = "up"
        BY Zenon, <3>1 DEF StoreInv, RevocationStands
    <3>2. CASE proc = "creating"
        BY Zenon, <1>1, <3>2 DEF StoreInv, JobIsCurrent, RevocationsAreKept
    <3> QED
        BY Zenon, <1>1, <1>3, <3>1, <3>2 DEF TypeOK
  <2>15. job.done.op = "unpair" => mem[job.done.peer].state = "revoked"
      BY Zenon, <1>2 DEF StoreInv, RevocationsAreKept
  <2>16. \A p \in revoked' : mem'[p].state = "revoked"
      BY Zenon, <2>2, <2>14, <2>15
  <2>17. RevocationStands'
      BY <2>2, <2>4, <2>16 DEF RevocationStands
  <2> QED
      BY Zenon, <2>8, <2>9, <2>11, <2>13, <2>17 DEF StoreInv
<1> QED
    BY Zenon, <1>2, <1>4, <1>5 DEF Job

\* What happens to the files of a daemon that is down preserves the invariant.
LEMMA WorldInv ==
    ASSUME StoreInv,
           \/ \E f \in Files : LoseFile(f)
           \/ \E i \in Identities : RestoreKey(i)
           \/ \E p \in Peers : HandEdit(p)
    PROVE  StoreInv'
<1>1. StoreTypes /\ TypeOK /\ JobIsCurrent
    BY Zenon DEF StoreInv, StoreTypes
<1>2. ASSUME NEW f \in Files, LoseFile(f) PROVE StoreInv'
  <2>1. /\ proc = "down" /\ disk' = [disk EXCEPT ![f] = None]
        /\ revoked' = IF f = "state" THEN {} ELSE revoked
        /\ UNCHANGED <<proc, ident, mem, tmp, job, client, minted>>
        /\ job = None
      BY Zenon, <1>1, <1>2 DEF LoseFile, JobIsCurrent
  <2>2. /\ disk' \in [Files -> Identities \cup Document \cup {None}]
        /\ disk'[f] = None
        /\ \A g \in Files : g # f => disk'[g] = disk[g]
      BY Zenon, <1>1, <2>1 DEF StoreTypes
  <2>3. StoreTypes'
      BY SMTT(60), <1>1, <2>1, <2>2 DEF StoreTypes, TypeOK, Files
  <2>4. JobIsCurrent' /\ OneIdentity'
      BY Zenon, <1>1, <2>1 DEF JobIsCurrent, OneIdentity
  <2>5. disk'["state"] \in {None, disk["state"]}
      BY Zenon, <2>2 DEF Files
  <2>6. RecordsAreOrderly'
      BY Zenon, <2>1, <2>5 DEF StoreInv, RecordsAreOrderly, Orderly
  <2>7. RevocationsAreKept' /\ RevocationStands'
      BY Zenon, <2>1, <2>2 DEF StoreInv, RevocationsAreKept, RevocationStands, Files
  <2> QED
      BY Zenon, <2>3, <2>4, <2>6, <2>7 DEF StoreInv
<1>3. ASSUME NEW i \in Identities, RestoreKey(i) PROVE StoreInv'
  <2>1. /\ proc = "down" /\ disk' = [disk EXCEPT !["key"] = i]
        /\ UNCHANGED <<proc, ident, mem, tmp, job, client, minted, revoked>>
        /\ job = None
      BY Zenon, <1>1, <1>3 DEF RestoreKey, JobIsCurrent
  <2>2. /\ disk' \in [Files -> Identities \cup Document \cup {None}]
        /\ disk'["key"] = i /\ disk'["state"] = disk["state"]
      BY Zenon, <1>1, <2>1 DEF StoreTypes, Files
  <2>3. StoreTypes'
      BY Zenon, <1>1, <2>1, <2>2 DEF StoreTypes, TypeOK
  <2>4. JobIsCurrent' /\ OneIdentity'
      BY Zenon, <1>1, <2>1 DEF JobIsCurrent, OneIdentity
  <2>5. RecordsAreOrderly' /\ RevocationsAreKept' /\ RevocationStands'
      BY <2>1, <2>2 DEF StoreInv, RecordsAreOrderly, Orderly, RevocationsAreKept,
         RevocationStands
  <2> QED
      BY Zenon, <2>3, <2>4, <2>5 DEF StoreInv
<1>4. ASSUME NEW p \in Peers, HandEdit(p) PROVE StoreInv'
  <2> DEFINE s == disk["state"]
             r == [s.peers[p] EXCEPT !.state = "trusted"]
             t == [s EXCEPT !.peers[p].state = "trusted"]
  <2>1. /\ proc = "down" /\ disk' = [disk EXCEPT !["state"] = t]
        /\ UNCHANGED <<proc, ident, mem, tmp, job, client, minted, revoked>>
        /\ job = None /\ s # None /\ s.peers[p].hidden
      BY Zenon, <1>1, <1>4 DEF HandEdit, JobIsCurrent, StoreTypes, Files
  <2>2. s \in Document
      BY Zenon, <1>1, <2>1 DEF TypeOK
  <2>3. /\ r \in Record /\ r.hidden = s.peers[p].hidden /\ r.grants = s.peers[p].grants
      BY <2>2 DEF Document, Record
  <2>4. /\ t \in Document
        /\ t.peers[p] = r
        /\ \A q \in Peers : q # p => t.peers[q] = s.peers[q]
      BY Zenon, <2>2, <2>3 DEF Document
  <2>5. /\ disk' \in [Files -> Identities \cup Document \cup {None}]
        /\ disk'["key"] = disk["key"] /\ disk'["state"] = t
      BY Zenon, <1>1, <2>1, <2>4 DEF StoreTypes, Files
  <2> HIDE DEF t, r
  <2>6. StoreTypes'
      BY SMTT(60), <1>1, <2>1, <2>4, <2>5 DEF StoreTypes, TypeOK
  <2>7. JobIsCurrent' /\ OneIdentity'
      BY Zenon, <1>1, <2>1 DEF JobIsCurrent, OneIdentity
  <2>8. \A q \in Peers : t.peers[q].hidden \/ t.peers[q].state = "revoked"
                            => t.peers[q].grants = {}
      BY SMTT(60), <2>1, <2>3, <2>4 DEF StoreInv, RecordsAreOrderly
  <2>9. RecordsAreOrderly'
      BY SMTT(60), <2>1, <2>5, <2>8 DEF StoreInv, RecordsAreOrderly, Orderly
  <2>10. RevocationsAreKept'
      BY Zenon, <2>1, <2>4, <2>5, NothingAssumption DEF StoreInv, RevocationsAreKept
  <2>11. \A q \in revoked : t.peers[q].state = "revoked" \/ t.peers[q].hidden
      BY Zenon, <1>1, <2>1, <2>3, <2>4 DEF StoreInv, RevocationStands, TypeOK
  <2>12. RevocationStands'
      BY Zenon, <2>1, <2>5, <2>11 DEF RevocationStands
  <2> QED
      BY Zenon, <2>6, <2>7, <2>9, <2>10, <2>12 DEF StoreInv
<1> QED
    BY Zenon, <1>2, <1>3, <1>4

\* The inductive invariant of the store: through any interleaving of handlers,
\* crashes, failed writes and restarts (Store::open_with, persist, commit).
THEOREM StoreInvariant ==
    Spec => []StoreInv
<1>1. Init => StoreInv
  <2> SUFFICES ASSUME Init PROVE StoreInv
      BY Zenon
  <2>1. Absent \in Record
      BY Zenon DEF Absent, Record
  <2>2. StoreTypes
      BY Zenon, <2>1 DEF Init, StoreTypes, TypeOK, Files
  <2>3. JobIsCurrent /\ OneIdentity /\ RevocationsAreKept /\ RevocationStands
      BY Zenon DEF Init, JobIsCurrent, OneIdentity, RevocationsAreKept, RevocationStands
  <2>4. RecordsAreOrderly
      BY Zenon DEF Init, RecordsAreOrderly, Orderly, Absent, Files
  <2> QED
      BY Zenon, <2>2, <2>3, <2>4 DEF StoreInv
<1>2. StoreInv /\ [Next]_vars => StoreInv'
  <2> SUFFICES ASSUME StoreInv, [Next]_vars PROVE StoreInv'
      BY Zenon
  <2>1. CASE UNCHANGED vars
      BY <2>1 DEF vars, StoreInv, StoreTypes, TypeOK, JobIsCurrent, OneIdentity,
         RecordsAreOrderly, Orderly, RevocationsAreKept, RevocationStands
  <2> QED
      BY Zenon, <2>1, StartInv, InterruptedWriteInv, RenameInv, OperationInv, WorldInv DEF Next
<1> QED
    BY <1>1, <1>2, PTL DEF Spec

\* No file the daemon reads is ever torn, and every record keeps its shape
\* (write_atomic).
THEOREM StoreTyped ==
    Spec => []TypeOK
<1>1. StoreInv => TypeOK
    BY Zenon DEF StoreInv, StoreTypes
<1> QED
    BY <1>1, StoreInvariant, PTL

\* A hidden device is never admitted and a revoked one holds no grant, whatever
\* the file says (Store::load).
THEOREM HiddenNeverAdmitted ==
    Spec => []HiddenStaysOut
<1>1. StoreInv => HiddenStaysOut
    BY Zenon DEF StoreInv, RecordsAreOrderly, Orderly, HiddenStaysOut
<1> QED
    BY <1>1, StoreInvariant, PTL

\* An acknowledged revocation survives crashes, failed writes and every later
\* mutation but a new pairing (revoke_peer, persist).
THEOREM RevocationSurvives ==
    Spec => []RevocationStands
<1>1. StoreInv => RevocationStands
    BY Zenon DEF StoreInv
<1> QED
    BY <1>1, StoreInvariant, PTL

\* The daemon runs only with the identity of its document (from_parts).
THEOREM RunsWithItsIdentity ==
    Spec => []OneIdentity
<1>1. StoreInv => OneIdentity
    BY Zenon DEF StoreInv
<1> QED
    BY <1>1, StoreInvariant, PTL

\* An identity key is never overwritten, and a new identity is made only where
\* there is neither key nor document (open_with).
THEOREM IdentityIsKept ==
    Spec => IdentityNeverReplaced
<1> DEFINE Keeps == disk["key"] # None => disk'["key"] \in {disk["key"], None}
           Mints == minted' # minted => disk["key"] = None /\ disk["state"] = None
<1>1. StoreInv /\ Next => Keeps /\ Mints
  <2> SUFFICES ASSUME StoreInv, Next PROVE Keeps /\ Mints
      BY Zenon
  <2>1. StoreTypes /\ JobIsCurrent
      BY Zenon DEF StoreInv
  <2>2. CASE Create
    <3>1. disk["state"] = None /\ disk["key"] = None
        BY Zenon, <2>1, <2>2, CreateFindsNothing DEF Create
    <3> QED
        BY Zenon, <3>1
  <2>3. CASE Rename
    <3>1. /\ job \in Job /\ job # None /\ minted' = minted
          /\ disk' = [disk EXCEPT ![job.file] = tmp[job.file]]
        BY Zenon, <2>1, <2>3 DEF Rename, NoJob, StoreTypes
    <3>2. job.file = "key" => disk["key"] = None
        BY Zenon, <2>1, <3>1 DEF JobIsCurrent
    <3> QED
        BY Zenon, <2>1, <3>1, <3>2 DEF StoreTypes, Files, Job
  <2>4. CASE Load \/ OpenTmp \/ SyncTmp \/ WriteFails \/ Crash
      BY Zenon, <2>4 DEF Load, OpenTmp, SyncTmp, WriteFails, Crash
  <2>5. ASSUME NEW p \in Peers, StorePeer(p) PROVE Keeps /\ Mints
      BY Zenon, <2>5 DEF StorePeer
  <2>6. ASSUME NEW c \in Clients, Handler(c) PROVE Keeps /\ Mints
    <3>1. UNCHANGED <<disk, minted>>
        BY Zenon, <2>6 DEF Handler, Unpair, Hide, Grant, ClipboardPolicy, ReadPolicy, WritePolicy
    <3> QED
        BY Zenon, <3>1
  <2>7. ASSUME NEW f \in Files, LoseFile(f) PROVE Keeps /\ Mints
      BY Zenon, <2>1, <2>7 DEF LoseFile, StoreTypes, Files
  <2>8. ASSUME NEW i \in Identities, RestoreKey(i) PROVE Keeps /\ Mints
      BY Zenon, <2>8 DEF RestoreKey
  <2>9. ASSUME NEW p \in Peers, HandEdit(p) PROVE Keeps /\ Mints
      BY Zenon, <2>1, <2>9 DEF HandEdit, StoreTypes, Files
  <2> QED
      BY Zenon, <2>2, <2>3, <2>4, <2>5, <2>6, <2>7, <2>8, <2>9 DEF Next
<1>2. UNCHANGED vars => Keeps /\ Mints
    BY Zenon DEF vars
<1>3. StoreInv /\ [Next]_vars => [Keeps /\ Mints]_vars
    BY Zenon, <1>1, <1>2
<1> QED
    BY <1>3, StoreInvariant, PTL DEF Spec, IdentityNeverReplaced

=============================================================================
