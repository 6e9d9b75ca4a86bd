--------------------------- MODULE ClipboardProofs ---------------------------
(***************************************************************************)
(* Proofs about clipboard.v1, for any peers, updates, texts and sizes of   *)
(* the caches and of the change channel.  ClipboardManager, the side of    *)
(* the peers: the manager's maps follow the sessions, and a clip is        *)
(* applied at most once.  ClipboardEcho, the side of the local clipboard:  *)
(* what was written for a peer is not sent out again, and no entry of the  *)
(* suppression cache is left behind.                                       *)
(***************************************************************************)
EXTENDS ClipboardManager, ClipboardEcho, TLAPS

-----------------------------------------------------------------------------
(* ClipboardManager.                                                       *)

Names == {"updates", "sends", "changes", "trouble"}

\* What is left of the bounds stays a record of numbers.
LEMMA SpendTyped ==
    ASSUME budget \in [updates : Nat, sends : Nat, changes : Nat, trouble : Nat],
           NEW what \in Names, Spend(what)
    PROVE  budget' \in [updates : Nat, sends : Nat, changes : Nat, trouble : Nat]
<1>1. budget[what] - 1 \in Nat
    BY DEF Names, Spend
<1> QED
    BY Zenon, <1>1 DEF Names, Spend

\* An update that is remembered stays so when one more is appended, and all but
\* the oldest stay when the oldest goes.
LEMMA CacheEffect ==
    ASSUME events \in Seq(Events)
    PROVE  /\ \A e, d \in Events : Contains(Append(events, e), d) <=> Contains(events, d) \/ d = e
           /\ events # <<>> =>
                /\ Head(events) \in Events /\ Tail(events) \in Seq(Events)
                /\ \A d \in Events : Contains(events, d) => Contains(Tail(events), d) \/ d = Head(events)
<1>1. ASSUME NEW e \in Events, NEW d \in Events
      PROVE  Contains(Append(events, e), d) <=> Contains(events, d) \/ d = e
    <2>1. /\ Append(events, e) \in Seq(Events) /\ Len(Append(events, e)) = Len(events) + 1
          /\ Append(events, e)[Len(events) + 1] = e
          /\ \A i \in 1 .. Len(events) : Append(events, e)[i] = events[i]
        OBVIOUS
    <2>2. Len(events) \in Nat
        OBVIOUS
    <2>3. ASSUME Contains(Append(events, e), d) PROVE Contains(events, d) \/ d = e
        BY SMTT(60), <2>1, <2>2, <2>3 DEF Contains
    <2>4. ASSUME Contains(events, d) \/ d = e PROVE Contains(Append(events, e), d)
        BY SMTT(60), <2>1, <2>2, <2>4 DEF Contains
    <2> QED
        BY Zenon, <2>3, <2>4
<1>2. ASSUME events # <<>>
      PROVE  Head(events) \in Events /\ Tail(events) \in Seq(Events)
    BY SMTT(60), <1>2
<1>3. ASSUME events # <<>>, NEW d \in Events, Contains(events, d), d # Head(events)
      PROVE  Contains(Tail(events), d)
    <2>1. /\ Len(events) \in Nat /\ Len(Tail(events)) = Len(events) - 1 /\ Head(events) = events[1]
          /\ \A i \in 1 .. Len(events) - 1 : Tail(events)[i] = events[i + 1]
        BY SMTT(60), <1>3
    <2>2. PICK i \in 1 .. Len(events) : events[i] = d
        BY Zenon, <1>3 DEF Contains
    <2>3. i # 1 /\ i - 1 \in 1 .. Len(Tail(events)) /\ Tail(events)[i - 1] = d
        BY SMTT(60), <1>3, <2>1, <2>2
    <2> QED
        BY Zenon, <2>3 DEF Contains
<1> QED
    BY Zenon, <1>1, <1>2, <1>3

\* EventCache::admit remembers the new id; what leaves the cache counts as
\* forgotten.
LEMMA RememberEffect ==
    ASSUME TypeOK, NEW e \in Events, Remember(e), ~ Contains(events, e)
    PROVE  /\ events' \in Seq(Events)
           /\ forgotten \subseteq forgotten' /\ forgotten' \subseteq Events
           /\ Contains(events', e)
           /\ \A d \in Events \ forgotten' : Contains(events, d) => Contains(events', d)
<1> USE DEF TypeOK
<1>1. CASE Len(events) < EventCap
    <2>1. events' = Append(events, e) /\ forgotten' = forgotten
        BY Zenon, <1>1 DEF Remember
    <2> QED
        BY SMTT(60), <2>1, CacheEffect
<1>2. CASE ~ Len(events) < EventCap
    <2> DEFINE rest == Tail(events)
    <2>1. events' = Append(rest, e) /\ forgotten' = forgotten \cup ({Head(events)} \ {e})
        BY Zenon, <1>2 DEF Remember
    <2>2. events # <<>>
        BY SMTT(60), <1>2, ManagerAssumption
    <2>3. /\ Head(events) \in Events /\ rest \in Seq(Events)
          /\ \A d \in Events : Contains(events, d) => Contains(rest, d) \/ d = Head(events)
        BY Zenon, <2>2, CacheEffect
    <2>4. /\ Append(rest, e) \in Seq(Events) /\ Len(Append(rest, e)) = Len(rest) + 1
          /\ Len(rest) \in Nat
          /\ Append(rest, e)[Len(rest) + 1] = e
          /\ \A i \in 1 .. Len(rest) : Append(rest, e)[i] = rest[i]
        BY SMTT(60), <2>3
    <2> HIDE DEF rest
    <2>5. Contains(events', e) /\ \A d \in Events : Contains(rest, d) => Contains(events', d)
        BY SMTT(60), <2>1, <2>4 DEF Contains
    <2>6. events' \in Seq(Events)
        BY Zenon, <2>1, <2>4
    <2>7. ASSUME NEW d \in Events \ forgotten', Contains(events, d) PROVE Contains(events', d)
        <3>1. d # Head(events) \/ d = e
            BY Zenon, <2>1, <2>7
        <3> QED
            BY Zenon, <3>1, <2>3, <2>5, <2>7
    <2> QED
        BY Zenon, <2>1, <2>3, <2>5, <2>6, <2>7
<1> QED
    BY Zenon, <1>1, <1>2

\* Every step keeps the types.
LEMMA TypedStep ==
    ASSUME TypeOK, TasksAreSetUp, Next
    PROVE  TypeOK'
<1> USE ManagerAssumption DEF manager, history, TypeOK, TasksAreSetUp, Writers, SessionSteps, ClientSteps
<1>1. ASSUME EventExpires PROVE TypeOK'
    <2>1. budget' \in [updates : Nat, sends : Nat, changes : Nat, trouble : Nat]
        BY Zenon, <1>1, SpendTyped DEF EventExpires, TypeOK, Names
    <2>2. Head(events) \in Events /\ Tail(events) \in Seq(Events)
        BY Zenon, <1>1, CacheEffect DEF EventExpires
    <2> QED
        BY SMTT(60), <1>1, <2>1, <2>2 DEF EventExpires
<1>2. ASSUME NEW p \in Peers, PendingExpires(p) PROVE TypeOK'
    <2>1. budget' \in [updates : Nat, sends : Nat, changes : Nat, trouble : Nat]
        BY Zenon, <1>2, SpendTyped DEF PendingExpires, TypeOK, Names
    <2> QED
        BY Zenon, <1>2, <2>1 DEF PendingExpires
<1>3. ASSUME NEW p \in Peers, NEW new \in Policies, SetPolicy(p, new) PROVE TypeOK'
    <2>1. budget' \in [updates : Nat, sends : Nat, changes : Nat, trouble : Nat]
        BY Zenon, <1>3, SpendTyped DEF SetPolicy, TypeOK, Names
    <2> QED
        BY Zenon, <1>3, <2>1 DEF SetPolicy, AtWork
<1>4. ASSUME NEW s \in Sessions, NEW p \in Peers, AttachSession(s, p) PROVE TypeOK'
    BY Zenon, <1>4 DEF AttachSession, Goes
<1>5. ASSUME NEW c \in Clients, NEW p \in Peers, ApplyPending(c, p) PROVE TypeOK'
    BY Zenon, <1>5 DEF ApplyPending, Goes
<1>6. ASSUME NEW c \in Clients, NEW p \in Peers, SendCurrentClipboard(c, p) PROVE TypeOK'
    <2>1. budget' \in [updates : Nat, sends : Nat, changes : Nat, trouble : Nat]
        BY Zenon, <1>6, SpendTyped DEF SendCurrentClipboard, TypeOK, Names
    <2> QED
        BY Zenon, <1>6, <2>1 DEF SendCurrentClipboard, Goes
<1>7. ASSUME NEW s \in Sessions, NEW e \in Events, HandleUpdate(s, e) PROVE TypeOK'
    <2>1. budget' \in [updates : Nat, sends : Nat, changes : Nat, trouble : Nat]
        BY Zenon, <1>7, SpendTyped DEF HandleUpdate, TypeOK, Names
    <2> QED
        BY Zenon, <1>7, <2>1 DEF HandleUpdate, Goes
<1>8. ASSUME NEW s \in Sessions, Admit(s) PROVE TypeOK'
    <2>1. job[s] \in Events /\ peer[s] \in Peers
        BY Zenon, <1>8 DEF Admit
    <2>2. events' \in Seq(Events) /\ forgotten' \subseteq Events
        BY SMTT(60), <1>8, <2>1, RememberEffect DEF Admit
    <2>3. at' \in [Writers -> SessionSteps \cup ClientSteps]
        BY SMTT(60), <1>8 DEF Admit, Goes, Hold
    <2>4. job' \in [Writers -> Events \cup Sessions \cup {None}]
        BY SMTT(60), <1>8 DEF Admit, Hold
    <2>5. pending' \in [Peers -> Events \cup {None}]
        BY SMTT(60), <1>8, <2>1 DEF Admit, Hold
    <2> QED
        BY Zenon, <1>8, <2>2, <2>3, <2>4, <2>5 DEF Admit
<1>9. ASSUME NEW s \in Sessions, Detach(s) PROVE TypeOK'
    BY Zenon, <1>9 DEF Detach, Goes
<1>10. ASSUME NEW s \in Sessions, DetachPending(s) PROVE TypeOK'
    BY Zenon, <1>10 DEF DetachPending, Goes
<1>11. ASSUME NEW w \in Writers, Write(w) PROVE TypeOK'
    <2>1. job[w] \in Events
        BY Zenon, <1>11 DEF Write, Writers
    <2>2. (IF writes[job[w]] < 2 THEN writes[job[w]] + 1 ELSE writes[job[w]]) \in 0 .. 2
        BY SMTT(60), <2>1
    <2>3. writes' \in [Events -> 0 .. 2]
        BY Zenon, <1>11, <2>1, <2>2 DEF Write
    <2> QED
        BY Zenon, <1>11, <2>3 DEF Write, Goes, Rest
<1>12. ASSUME NEW w \in Writers, WriteFails(w) PROVE TypeOK'
    <2>1. budget' \in [updates : Nat, sends : Nat, changes : Nat, trouble : Nat]
        BY Zenon, <1>12, SpendTyped DEF WriteFails, TypeOK, Names
    <2> QED
        BY SMTT(60), <1>12, <2>1 DEF WriteFails, Goes
<1>13. ASSUME NEW c \in Clients, TakeHeld(c) PROVE TypeOK'
    BY Zenon, <1>13 DEF TakeHeld, Goes
<1>14. ASSUME NEW c \in Clients, PutBack(c) PROVE TypeOK'
    BY SMTT(60), <1>14 DEF PutBack, Goes
<1>15. ASSUME NEW c \in Clients, LookUp(c) PROVE TypeOK'
    BY SMTT(60), <1>15 DEF LookUp, Goes
<1>16. ASSUME NEW c \in Clients, Deliver(c) PROVE TypeOK'
    BY Zenon, <1>16 DEF Deliver, Goes
<1> QED
    BY Zenon, <1>1, <1>2, <1>3, <1>4, <1>5, <1>6, <1>7, <1>8, <1>9, <1>10, <1>11, <1>12, <1>13, <1>14, <1>15, <1>16 DEF Next

\* Every step leaves each task with what its next step works with.
LEMMA SetUpStep ==
    ASSUME TypeOK, TasksAreSetUp, MapsFollowSessions, Next
    PROVE  TasksAreSetUp'
<1> USE ManagerAssumption DEF manager, history, TypeOK, TasksAreSetUp, Writers, SessionSteps, ClientSteps
<1>1. ASSUME EventExpires PROVE TasksAreSetUp'
    BY Zenon, <1>1 DEF EventExpires
<1>2. ASSUME NEW p \in Peers, PendingExpires(p) PROVE TasksAreSetUp'
    BY Zenon, <1>2 DEF PendingExpires
<1>3. ASSUME NEW p \in Peers, NEW new \in Policies, SetPolicy(p, new) PROVE TasksAreSetUp'
    BY Zenon, <1>3 DEF SetPolicy
<1>4. ASSUME NEW s \in Sessions, NEW p \in Peers, AttachSession(s, p) PROVE TasksAreSetUp'
    BY SMTT(60), <1>4 DEF AttachSession, Goes
<1>5. ASSUME NEW c \in Clients, NEW p \in Peers, ApplyPending(c, p) PROVE TasksAreSetUp'
    BY Zenon, <1>5 DEF ApplyPending, Goes
<1>6. ASSUME NEW c \in Clients, NEW p \in Peers, SendCurrentClipboard(c, p) PROVE TasksAreSetUp'
    BY Zenon, <1>6 DEF SendCurrentClipboard, Goes
<1>7. ASSUME NEW s \in Sessions, NEW e \in Events, HandleUpdate(s, e) PROVE TasksAreSetUp'
    BY Zenon, <1>7 DEF HandleUpdate, Goes
<1>8. ASSUME NEW s \in Sessions, Admit(s) PROVE TasksAreSetUp'
    BY SMTT(60), <1>8 DEF Admit, Goes, Hold
<1>9. ASSUME NEW s \in Sessions, Detach(s) PROVE TasksAreSetUp'
    BY Zenon, <1>9 DEF Detach, Goes
<1>10. ASSUME NEW s \in Sessions, DetachPending(s) PROVE TasksAreSetUp'
    BY Zenon, <1>10 DEF DetachPending, Goes
<1>11. ASSUME NEW w \in Writers, Write(w) PROVE TasksAreSetUp'
    BY SMTT(60), <1>11 DEF Write, Goes, Rest
<1>12. ASSUME NEW w \in Writers, WriteFails(w) PROVE TasksAreSetUp'
    BY SMTT(60), <1>12 DEF WriteFails, Goes
<1>13. ASSUME NEW c \in Clients, TakeHeld(c) PROVE TasksAreSetUp'
    BY SMTT(60), <1>13 DEF TakeHeld, Goes
<1>14. ASSUME NEW c \in Clients, PutBack(c) PROVE TasksAreSetUp'
    BY Zenon, <1>14 DEF PutBack, Goes
<1>15. ASSUME NEW c \in Clients, LookUp(c) PROVE TasksAreSetUp'
    BY SMTT(60), <1>15 DEF LookUp, Goes, MapsFollowSessions
<1>16. ASSUME NEW c \in Clients, Deliver(c) PROVE TasksAreSetUp'
    BY Zenon, <1>16 DEF Deliver, Goes
<1> QED
    BY Zenon, <1>1, <1>2, <1>3, <1>4, <1>5, <1>6, <1>7, <1>8, <1>9, <1>10, <1>11, <1>12, <1>13, <1>14, <1>15, <1>16 DEF Next

\* A task that has leave keeps it, or is counted among the overtaken.
LEMMA LeaveStep ==
    ASSUME TypeOK, TasksAreSetUp, LeaveStands, Next
    PROVE  LeaveStands'
<1> USE ManagerAssumption DEF manager, history, TypeOK, TasksAreSetUp, Writers, SessionSteps, ClientSteps, LeaveStands
<1>1. ASSUME EventExpires PROVE LeaveStands'
    BY Zenon, <1>1 DEF EventExpires
<1>2. ASSUME NEW p \in Peers, PendingExpires(p) PROVE LeaveStands'
    BY Zenon, <1>2 DEF PendingExpires
<1>3. ASSUME NEW p \in Peers, NEW new \in Policies, SetPolicy(p, new) PROVE LeaveStands'
    BY Zenon, <1>3 DEF SetPolicy, AtWork
<1>4. ASSUME NEW s \in Sessions, NEW p \in Peers, AttachSession(s, p) PROVE LeaveStands'
    BY Zenon, <1>4 DEF AttachSession, Goes
<1>5. ASSUME NEW c \in Clients, NEW p \in Peers, ApplyPending(c, p) PROVE LeaveStands'
    BY Zenon, <1>5 DEF ApplyPending, Goes
<1>6. ASSUME NEW c \in Clients, NEW p \in Peers, SendCurrentClipboard(c, p) PROVE LeaveStands'
    BY Zenon, <1>6 DEF SendCurrentClipboard, Goes
<1>7. ASSUME NEW s \in Sessions, NEW e \in Events, HandleUpdate(s, e) PROVE LeaveStands'
    BY Zenon, <1>7 DEF HandleUpdate, Goes, MayAutoReceive
<1>8. ASSUME NEW s \in Sessions, Admit(s) PROVE LeaveStands'
    BY SMTT(60), <1>8 DEF Admit, Goes, Hold
<1>9. ASSUME NEW s \in Sessions, Detach(s) PROVE LeaveStands'
    BY Zenon, <1>9 DEF Detach, Goes
<1>10. ASSUME NEW s \in Sessions, DetachPending(s) PROVE LeaveStands'
    BY Zenon, <1>10 DEF DetachPending, Goes
<1>11. ASSUME NEW w \in Writers, Write(w) PROVE LeaveStands'
    BY Zenon, <1>11 DEF Write, Goes, Rest
<1>12. ASSUME NEW w \in Writers, WriteFails(w) PROVE LeaveStands'
    BY Zenon, <1>12 DEF WriteFails, Goes
<1>13. ASSUME NEW c \in Clients, TakeHeld(c) PROVE LeaveStands'
    BY Zenon, <1>13 DEF TakeHeld, Goes
<1>14. ASSUME NEW c \in Clients, PutBack(c) PROVE LeaveStands'
    BY Zenon, <1>14 DEF PutBack, Goes
<1>15. ASSUME NEW c \in Clients, LookUp(c) PROVE LeaveStands'
    BY SMTT(60), <1>15 DEF LookUp, Goes
<1>16. ASSUME NEW c \in Clients, Deliver(c) PROVE LeaveStands'
    BY Zenon, <1>16 DEF Deliver, Goes
<1> QED
    BY Zenon, <1>1, <1>2, <1>3, <1>4, <1>5, <1>6, <1>7, <1>8, <1>9, <1>10, <1>11, <1>12, <1>13, <1>14, <1>15, <1>16 DEF Next

\* The maps keep following the sessions.
LEMMA MapsStep ==
    ASSUME TypeOK, TasksAreSetUp, MapsFollowSessions, Next
    PROVE  MapsFollowSessions'
<1>0. UNCHANGED <<attached, pending, at, peer, job, returned>> => MapsFollowSessions'
    BY Zenon DEF MapsFollowSessions
<1> USE ManagerAssumption DEF manager, history, TypeOK, TasksAreSetUp, Writers, SessionSteps, ClientSteps, MapsFollowSessions
<1>1. ASSUME EventExpires PROVE MapsFollowSessions'
    BY Zenon, <1>0, <1>1 DEF EventExpires
<1>2. ASSUME NEW p \in Peers, PendingExpires(p) PROVE MapsFollowSessions'
    BY SMTT(60), <1>2 DEF PendingExpires
<1>3. ASSUME NEW p \in Peers, NEW new \in Policies, SetPolicy(p, new) PROVE MapsFollowSessions'
    BY Zenon, <1>0, <1>3 DEF SetPolicy
<1>4. ASSUME NEW s \in Sessions, NEW p \in Peers, AttachSession(s, p) PROVE MapsFollowSessions'
    BY SMTT(60), <1>4 DEF AttachSession, Goes
<1>5. ASSUME NEW c \in Clients, NEW p \in Peers, ApplyPending(c, p) PROVE MapsFollowSessions'
    BY SMTT(60), <1>5 DEF ApplyPending, Goes
<1>6. ASSUME NEW c \in Clients, NEW p \in Peers, SendCurrentClipboard(c, p) PROVE MapsFollowSessions'
    BY SMTT(60), <1>6 DEF SendCurrentClipboard, Goes
<1>7. ASSUME NEW s \in Sessions, NEW e \in Events, HandleUpdate(s, e) PROVE MapsFollowSessions'
    BY SMTT(60), <1>7 DEF HandleUpdate, Goes
<1>8. ASSUME NEW s \in Sessions, Admit(s) PROVE MapsFollowSessions'
    BY SMTT(60), <1>8 DEF Admit, Goes, Hold
<1>9. ASSUME NEW s \in Sessions, Detach(s) PROVE MapsFollowSessions'
    BY SMTT(60), <1>9 DEF Detach, Goes
<1>10. ASSUME NEW s \in Sessions, DetachPending(s) PROVE MapsFollowSessions'
    BY SMTT(60), <1>10 DEF DetachPending, Goes
<1>11. ASSUME NEW w \in Writers, Write(w) PROVE MapsFollowSessions'
    BY SMTT(60), <1>11 DEF Write, Goes, Rest
<1>12. ASSUME NEW w \in Writers, WriteFails(w) PROVE MapsFollowSessions'
    BY SMTT(60), <1>12 DEF WriteFails, Goes
<1>13. ASSUME NEW c \in Clients, TakeHeld(c) PROVE MapsFollowSessions'
    BY SMTT(60), <1>13 DEF TakeHeld, Goes
<1>14. ASSUME NEW c \in Clients, PutBack(c) PROVE MapsFollowSessions'
    BY SMTT(60), <1>14 DEF PutBack, Goes
<1>15. ASSUME NEW c \in Clients, LookUp(c) PROVE MapsFollowSessions'
    BY SMTT(60), <1>15 DEF LookUp, Goes
<1>16. ASSUME NEW c \in Clients, Deliver(c) PROVE MapsFollowSessions'
    BY SMTT(60), <1>16 DEF Deliver, Goes
<1> QED
    BY Zenon, <1>1, <1>2, <1>3, <1>4, <1>5, <1>6, <1>7, <1>8, <1>9, <1>10, <1>11, <1>12, <1>13, <1>14, <1>15, <1>16 DEF Next

\* No update gets to a further place, and none that is remembered leaves the cache
\* without being counted as forgotten.
Kept ==
    /\ forgotten \subseteq forgotten'
    /\ \A e \in Events \ forgotten' :
        /\ writes'[e] = writes[e]
        /\ Contains(events, e) => Contains(events', e)
        /\ \A w \in Writers : Carries(w, e)' => Carries(w, e)
        /\ \A p \in Peers : pending'[p] = e => pending[p] = e

\* Such a step leaves at most one copy where there was at most one.
LEMMA KeptOneCopy ==
    ASSUME OneCopy, Kept
    PROVE  OneCopy'
<1> SUFFICES ASSUME NEW e \in Events \ forgotten' PROVE InOnePlace(e)'
    BY Zenon DEF OneCopy
<1>1. e \in Events \ forgotten
    BY Zenon DEF Kept
<1> QED
    BY SMTT(60), <1>1 DEF OneCopy, InOnePlace, Kept

\* Every step leaves a remembered update in at most one place.
LEMMA CopyStep ==
    ASSUME TypeOK, TasksAreSetUp, OneCopy, Next
    PROVE  OneCopy'
<1>0. Kept => OneCopy'
    BY Zenon, KeptOneCopy
<1> USE ManagerAssumption DEF manager, history, TypeOK, TasksAreSetUp, Writers, SessionSteps, ClientSteps, Carries
<1>1. ASSUME EventExpires PROVE OneCopy'
    <2>1. \A d \in Events : Contains(events, d) => Contains(Tail(events), d) \/ d = Head(events)
        BY Zenon, <1>1, CacheEffect DEF EventExpires
    <2>2. Kept
        BY Zenon, <1>1, <2>1 DEF Kept, EventExpires
    <2> QED
        BY Zenon, <1>0, <2>2
<1>2. ASSUME NEW p \in Peers, PendingExpires(p) PROVE OneCopy'
    <2>1. Kept
        BY SMTT(60), <1>2 DEF Kept, PendingExpires, Goes
    <2> QED
        BY Zenon, <1>0, <2>1
<1>3. ASSUME NEW p \in Peers, NEW new \in Policies, SetPolicy(p, new) PROVE OneCopy'
    <2>1. Kept
        BY Zenon, <1>3 DEF Kept, SetPolicy, Goes
    <2> QED
        BY Zenon, <1>0, <2>1
<1>4. ASSUME NEW s \in Sessions, NEW p \in Peers, AttachSession(s, p) PROVE OneCopy'
    <2>1. Kept
        BY Zenon, <1>4 DEF Kept, AttachSession, Goes
    <2> QED
        BY Zenon, <1>0, <2>1
<1>5. ASSUME NEW c \in Clients, NEW p \in Peers, ApplyPending(c, p) PROVE OneCopy'
    <2>1. Kept
        BY Zenon, <1>5 DEF Kept, ApplyPending, Goes
    <2> QED
        BY Zenon, <1>0, <2>1
<1>6. ASSUME NEW c \in Clients, NEW p \in Peers, SendCurrentClipboard(c, p) PROVE OneCopy'
    <2>1. Kept
        BY Zenon, <1>6 DEF Kept, SendCurrentClipboard, Goes
    <2> QED
        BY Zenon, <1>0, <2>1
<1>7. ASSUME NEW s \in Sessions, NEW e \in Events, HandleUpdate(s, e) PROVE OneCopy'
    <2>1. Kept
        BY Zenon, <1>7 DEF Kept, HandleUpdate, Goes
    <2> QED
        BY Zenon, <1>0, <2>1
<1>8. ASSUME NEW s \in Sessions, Admit(s) PROVE OneCopy'
    <2>1. job[s] \in Events /\ peer[s] \in Peers
        BY Zenon, <1>8 DEF Admit
    <2>2. CASE Contains(events, job[s])
        <3>1. Kept
            BY SMTT(60), <1>8, <2>2 DEF Kept, Admit, Goes
        <3> QED
            BY Zenon, <1>0, <3>1
    <2>3. CASE ~ Contains(events, job[s])
        <3>1. /\ forgotten \subseteq forgotten' /\ Contains(events', job[s])
              /\ \A d \in Events \ forgotten' : Contains(events, d) => Contains(events', d)
            BY Zenon, <1>8, <2>1, <2>3, RememberEffect DEF Admit
        <3>2. /\ UNCHANGED writes
              /\ \A d \in Events, v \in Writers :
                    Carries(v, d)' => Carries(v, d) \/ (v = s /\ d = job[s] /\ UNCHANGED pending)
              /\ \A d \in Events, p \in Peers :
                    pending'[p] = d => pending[p] = d \/ (p = peer[s] /\ d = job[s] /\ ~ Carries(s, d)')
            BY SMTT(60), <1>8, <2>1, <2>3 DEF Admit, Goes, Hold
        <3> SUFFICES ASSUME NEW d \in Events \ forgotten' PROVE InOnePlace(d)'
            BY Zenon DEF OneCopy
        <3>3. d \in Events /\ InOnePlace(d)
            BY Zenon, <3>1 DEF OneCopy
        <3> HIDE DEF Carries, TypeOK, TasksAreSetUp
        <3>4. CASE d = job[s]
            <4>1. /\ writes[d] = 0
                  /\ \A v \in Writers : ~ Carries(v, d)
                  /\ \A p \in Peers : pending[p] # d
                BY Zenon, <2>3, <3>3, <3>4 DEF InOnePlace
            <4> QED
                BY SMTT(60), <3>1, <3>2, <3>3, <3>4, <4>1 DEF InOnePlace
        <3>5. CASE d # job[s]
            BY Zenon, <3>1, <3>2, <3>3, <3>5 DEF InOnePlace
        <3> QED
            BY Zenon, <3>4, <3>5
    <2> QED
        BY Zenon, <2>2, <2>3
<1>9. ASSUME NEW s \in Sessions, Detach(s) PROVE OneCopy'
    <2>1. Kept
        BY Zenon, <1>9 DEF Kept, Detach, Goes
    <2> QED
        BY Zenon, <1>0, <2>1
<1>10. ASSUME NEW s \in Sessions, DetachPending(s) PROVE OneCopy'
    <2>1. Kept
        BY SMTT(60), <1>10 DEF Kept, DetachPending, Goes
    <2> QED
        BY Zenon, <1>0, <2>1
<1>11. ASSUME NEW w \in Writers, Write(w) PROVE OneCopy'
    BY SMTT(60), <1>11 DEF Write, Goes, Rest, OneCopy, InOnePlace
<1>12. ASSUME NEW w \in Writers, WriteFails(w) PROVE OneCopy'
    <2>1. Kept
        BY SMTT(60), <1>12 DEF Kept, WriteFails, Goes
    <2> QED
        BY Zenon, <1>0, <2>1
<1>13. ASSUME NEW c \in Clients, TakeHeld(c) PROVE OneCopy'
    BY SMTT(60), <1>13 DEF TakeHeld, Goes, OneCopy, InOnePlace
<1>14. ASSUME NEW c \in Clients, PutBack(c) PROVE OneCopy'
    BY SMTT(60), <1>14 DEF PutBack, Goes, OneCopy, InOnePlace
<1>15. ASSUME NEW c \in Clients, LookUp(c) PROVE OneCopy'
    <2>1. Kept
        BY SMTT(60), <1>15 DEF Kept, LookUp, Goes
    <2> QED
        BY Zenon, <1>0, <2>1
<1>16. ASSUME NEW c \in Clients, Deliver(c) PROVE OneCopy'
    <2>1. Kept
        BY Zenon, <1>16 DEF Kept, Deliver, Goes
    <2> QED
        BY Zenon, <1>0, <2>1
<1> QED
    BY Zenon, <1>1, <1>2, <1>3, <1>4, <1>5, <1>6, <1>7, <1>8, <1>9, <1>10, <1>11, <1>12, <1>13, <1>14, <1>15, <1>16 DEF Next

\* At the start no session is attached and nothing was received.
LEMMA StartInv ==
    Init => ManagerInv
<1> SUFFICES ASSUME Init PROVE ManagerInv
    BY Zenon
<1> USE ManagerAssumption DEF Init, Writers
<1>1. TypeOK
    BY SMTT(60) DEF TypeOK, SessionSteps, ClientSteps
<1>2. TasksAreSetUp
    BY Zenon DEF TasksAreSetUp, SessionSteps, ClientSteps
<1>3. LeaveStands /\ MapsFollowSessions
    BY Zenon DEF LeaveStands, MapsFollowSessions
<1>4. OneCopy
    BY Zenon DEF OneCopy, InOnePlace, Carries
<1> QED
    BY Zenon, <1>1, <1>2, <1>3, <1>4 DEF ManagerInv

\* Stuttering changes nothing the invariant reads.
LEMMA StutterInv ==
    ManagerInv /\ UNCHANGED vars => ManagerInv'
<1> SUFFICES ASSUME ManagerInv, UNCHANGED vars PROVE ManagerInv'
    BY Zenon
<1>1. /\ policy' = policy /\ attached' = attached /\ pending' = pending /\ events' = events
      /\ at' = at /\ peer' = peer /\ job' = job /\ budget' = budget
      /\ writes' = writes /\ forgotten' = forgotten /\ overtaken' = overtaken /\ returned' = returned
    BY Zenon DEF vars, manager, history
<1>2. TypeOK'
    BY Zenon, <1>1 DEF ManagerInv, TypeOK
<1>3. TasksAreSetUp'
    BY Zenon, <1>1 DEF ManagerInv, TasksAreSetUp
<1>4. LeaveStands' /\ MapsFollowSessions'
    BY Zenon, <1>1 DEF ManagerInv, LeaveStands, MapsFollowSessions
<1>5. OneCopy'
    <2>1. Kept
        BY Zenon, <1>1 DEF Kept, Carries
    <2> QED
        BY Zenon, <2>1, KeptOneCopy DEF ManagerInv
<1> QED
    BY Zenon, <1>2, <1>3, <1>4, <1>5 DEF ManagerInv

\* The invariant holds in every state the manager can reach.
THEOREM ManagerInvariant ==
    Spec => []ManagerInv
<1>1. ManagerInv /\ Next => ManagerInv'
    BY Zenon, TypedStep, SetUpStep, LeaveStep, MapsStep, CopyStep DEF ManagerInv
<1> QED
    BY StartInv, StutterInv, <1>1, PTL DEF Spec

\* The maps of the manager follow the sessions, which detach by peer and not by
\* session and one lock after the other (detach_session, deliver).
THEOREM MapsAlwaysFollow ==
    Spec => []MapsFollowSessions
<1>1. ManagerInv => MapsFollowSessions
    BY Zenon DEF ManagerInv
<1> QED
    BY ManagerInvariant, <1>1, PTL

\* Nothing is written or sent without the leave of the policy that stood when
\* the operation asked (handle_update, apply_pending, send_current_clipboard).
THEOREM ActsOnlyOnLeave ==
    Spec => []ActsOnLeave
<1>1. ManagerInv => ActsOnLeave
    BY Zenon DEF ManagerInv, LeaveStands, ActsOnLeave
<1> QED
    BY ManagerInvariant, <1>1, PTL

\* While its id is remembered an update is written at most once, and a held clip
\* is with one client only (EventCache::admit, apply_pending).
THEOREM AppliedOnlyOnce ==
    Spec => []AppliedOnce
<1>1. ManagerInv => AppliedOnce
    <2> SUFFICES ASSUME ManagerInv PROVE AppliedOnce
        BY Zenon
    <2> USE ManagerAssumption DEF ManagerInv, Writers
    <2>1. \A e \in Events : writes[e] <= 1 \/ e \in forgotten
        BY SMTT(60) DEF OneCopy, InOnePlace, TypeOK
    <2>2. ASSUME NEW c \in Clients, NEW d \in Clients,
                 at[c] \in {"write", "putBack"}, job[c] \notin forgotten
          PROVE  /\ pending[peer[c]] # job[c]
                 /\ d # c /\ at[d] \in {"write", "putBack"} => job[d] # job[c]
        <3>1. job[c] \in Events \ forgotten /\ peer[c] \in Peers /\ Carries(c, job[c])
            BY Zenon, <2>2 DEF TasksAreSetUp, Carries, ClientSteps
        <3>2. InOnePlace(job[c])
            BY Zenon, <3>1 DEF OneCopy
        <3>3. at[d] \in {"write", "putBack"} /\ job[d] = job[c] => Carries(d, job[c])
            BY Zenon DEF Carries
        <3> QED
            BY Zenon, <3>1, <3>2, <3>3 DEF InOnePlace
    <2> QED
        BY Zenon, <2>1, <2>2 DEF AppliedOnce
<1> QED
    BY ManagerInvariant, <1>1, PTL

-----------------------------------------------------------------------------
(* ClipboardEcho; EchoInv is the inductive invariant.                      *)

Entry == [hash : Texts, by : Updates]

\* t is s without its k-th entry.
LeavesOut(s, k, t) ==
    /\ t \in Seq(Entry) /\ Len(t) = Len(s) - 1
    /\ \A i \in 1 .. Len(t) : t[i] = s[IF i < k THEN i ELSE i + 1]

\* Entries are left out by take, and by the oldest one's going in expire and
\* in arm.
LEMMA LeavingOut ==
    ASSUME NEW s \in Seq(Entry)
    PROVE  /\ \A k \in 1 .. Len(s) : LeavesOut(s, k, Without(s, k))
           /\ s # <<>> => LeavesOut(s, 1, Tail(s)) /\ Head(s) = s[1] /\ 1 \in 1 .. Len(s)
<1>1. Len(s) \in Nat /\ \A i \in 1 .. Len(s) : s[i] \in Entry
    OBVIOUS
<1>2. ASSUME NEW k \in 1 .. Len(s) PROVE LeavesOut(s, k, Without(s, k))
  <2>1. /\ Without(s, k) \in Seq(Entry)
        /\ Len(Without(s, k)) = Len(s) - 1
      BY <1>1 DEF Without
  <2>2. \A i \in 1 .. Len(s) - 1 : Without(s, k)[i] = s[IF i < k THEN i ELSE i + 1]
      BY Zenon, <1>1 DEF Without
  <2> QED
      BY Zenon, <2>1, <2>2 DEF LeavesOut
<1>3. ASSUME s # <<>> PROVE LeavesOut(s, 1, Tail(s)) /\ Head(s) = s[1] /\ 1 \in 1 .. Len(s)
    BY <1>1, <1>3 DEF LeavesOut
<1> QED
    BY Zenon, <1>2, <1>3

\* What leaving out an entry does: the others stay, and stay different.
LEMMA OthersStay ==
    ASSUME NEW s \in Seq(Entry), NEW k \in 1 .. Len(s), NEW t, LeavesOut(s, k, t),
           \A m, n \in 1 .. Len(s) : s[m].by = s[n].by => m = n
    PROVE  /\ \A i \in 1 .. Len(t) : \E j \in 1 .. Len(s) : j # k /\ t[i] = s[j]
           /\ \A j \in 1 .. Len(s) : j # k => \E i \in 1 .. Len(t) : t[i] = s[j]
           /\ \A i, j \in 1 .. Len(t) : t[i].by = t[j].by => i = j
<1> DEFINE Place(i) == IF i < k THEN i ELSE i + 1
<1>1. Len(s) \in Nat /\ Len(t) = Len(s) - 1
    BY DEF LeavesOut
<1>2. \A i \in 1 .. Len(t) : Place(i) \in 1 .. Len(s) /\ Place(i) # k /\ t[i] = s[Place(i)]
    BY <1>1 DEF LeavesOut
<1>3. \A i, j \in 1 .. Len(t) : Place(i) = Place(j) => i = j
    BY <1>1
<1>4. ASSUME NEW j \in 1 .. Len(s), j # k PROVE \E i \in 1 .. Len(t) : t[i] = s[j]
  <2>1. CASE j < k
    <3>1. j \in 1 .. Len(t) /\ Place(j) = j
        BY <1>1, <2>1
    <3> QED
        BY Zenon, <1>2, <3>1
  <2>2. CASE j > k
    <3>1. j - 1 \in 1 .. Len(t) /\ Place(j - 1) = j
        BY <1>1, <2>2
    <3> QED
        BY Zenon, <1>2, <3>1
  <2> QED
      BY <1>1, <1>4, <2>1, <2>2
<1> HIDE DEF Place
<1>5. \A i \in 1 .. Len(t) : \E j \in 1 .. Len(s) : j # k /\ t[i] = s[j]
    BY Zenon, <1>2
<1>6. ASSUME NEW i \in 1 .. Len(t), NEW j \in 1 .. Len(t), t[i].by = t[j].by
      PROVE  i = j
    BY <1>2, <1>3, <1>6
<1> QED
    BY Zenon, <1>4, <1>5, <1>6

\* A new entry comes last (arm).
LEMMA WithOneMore ==
    ASSUME NEW s \in Seq(Entry), NEW x \in Entry, NEW t, t = Append(s, x)
    PROVE  /\ t \in Seq(Entry) /\ Len(t) = Len(s) + 1
           /\ t[Len(t)] = x /\ Len(t) \in 1 .. Len(t)
           /\ \A i \in 1 .. Len(s) : i \in 1 .. Len(t) /\ t[i] = s[i]
           /\ \A i \in 1 .. Len(t) : i = Len(t) \/ i \in 1 .. Len(s)
    OBVIOUS

\* Every entry belongs to an update.
LEMMA EntriesHaveOwners ==
    ASSUME EchoTypes
    PROVE  \A i \in 1 .. Len(suppression) : suppression[i].by \in Updates
<1>1. suppression \in Seq(Entry)
    BY Zenon DEF EchoTypes, Entry
<1>2. \A i \in 1 .. Len(suppression) : suppression[i] \in Entry
    BY <1>1
<1> QED
    BY Zenon, <1>2 DEF Entry

\* The cache without its k-th entry: the update of that entry has none left,
\* and every other one keeps its own.
LEMMA OneGoes ==
    ASSUME EchoTypes, EntriesAreTheirs, NEW k \in 1 .. Len(suppression), NEW t,
           LeavesOut(suppression, k, t)
    PROVE  /\ suppression[k].by \in Updates
           /\ t \in Seq(Entry)
           /\ \A i \in 1 .. Len(t) : \E j \in 1 .. Len(suppression) : t[i] = suppression[j]
           /\ \A i, j \in 1 .. Len(t) : t[i].by = t[j].by => i = j
           /\ \A i \in 1 .. Len(t) : t[i].by # suppression[k].by
           /\ \A j \in 1 .. Len(suppression) :
                suppression[j].by = suppression[k].by
                    \/ \E i \in 1 .. Len(t) : t[i].by = suppression[j].by
<1>1. /\ suppression \in Seq(Entry)
      /\ \A m, n \in 1 .. Len(suppression) : suppression[m].by = suppression[n].by => m = n
    BY Zenon DEF EchoTypes, EntriesAreTheirs, Entry
<1>2. suppression[k].by \in Updates
    BY Zenon, EntriesHaveOwners
<1>3. /\ \A i \in 1 .. Len(t) : \E j \in 1 .. Len(suppression) : j # k /\ t[i] = suppression[j]
      /\ \A j \in 1 .. Len(suppression) : j # k => \E i \in 1 .. Len(t) : t[i] = suppression[j]
      /\ \A i, j \in 1 .. Len(t) : t[i].by = t[j].by => i = j
    BY Zenon, <1>1, OthersStay
<1>4. t \in Seq(Entry)
    BY Zenon DEF LeavesOut
<1> QED
    BY Zenon, <1>1, <1>2, <1>3, <1>4

\* SuppressionCache::take: only the update it is for loses its entry without
\* that being recorded, and that one has none left.
LEMMA TakeTakesOwn ==
    ASSUME EchoTypes, EntriesAreTheirs, NEW x, NEW e, Take(x, e)
    PROVE  /\ suppression' \in Seq(Entry) /\ lost \subseteq lost' /\ lost' \subseteq Updates
           /\ \A i \in 1 .. Len(suppression') :
                \E j \in 1 .. Len(suppression) : suppression'[i] = suppression[j]
           /\ \A i, j \in 1 .. Len(suppression') : suppression'[i].by = suppression'[j].by => i = j
           /\ \A d \in Updates : Armed(d) => d = e \/ Armed(d)'
           /\ e \in Updates /\ x = text[e] =>
                \A i \in 1 .. Len(suppression') : suppression'[i].by # e
<1>0. suppression \in Seq(Entry) /\ lost \subseteq Updates
    BY Zenon DEF EchoTypes, Entry
<1>1. \A i, j \in 1 .. Len(suppression) : suppression[i].by = suppression[j].by => i = j
    BY Zenon DEF EntriesAreTheirs
<1>2. \A i \in 1 .. Len(suppression) : suppression[i].hash = text[suppression[i].by]
    BY Zenon DEF EntriesAreTheirs
<1>3. CASE Entries(x) = {} /\ UNCHANGED cache
  <2>1. suppression' = suppression /\ lost' = lost
      BY Zenon, <1>3 DEF cache
  <2>2. ASSUME x = text[e], NEW i \in 1 .. Len(suppression) PROVE suppression[i].by # e
      BY Zenon, <1>2, <1>3, <2>2 DEF Entries
  <2>3. \A d \in Updates : Armed(d) => Armed(d)'
      BY Zenon, <2>1 DEF Armed
  <2> QED
      BY Zenon, <1>0, <1>1, <2>1, <2>2, <2>3
<1>4. ASSUME NEW k \in Own(x, e), suppression' = Without(suppression, k),
             lost' = lost \cup ({suppression[k].by} \ {e})
      PROVE  /\ suppression' \in Seq(Entry) /\ lost \subseteq lost' /\ lost' \subseteq Updates
             /\ \A i \in 1 .. Len(suppression') :
                  \E j \in 1 .. Len(suppression) : suppression'[i] = suppression[j]
             /\ \A i, j \in 1 .. Len(suppression') : suppression'[i].by = suppression'[j].by => i = j
             /\ \A d \in Updates : Armed(d) => d = e \/ Armed(d)'
             /\ e \in Updates /\ x = text[e] =>
                  \A i \in 1 .. Len(suppression') : suppression'[i].by # e
  <2>1. k \in 1 .. Len(suppression) /\ suppression[k].hash = x
      BY Zenon, <1>4 DEF Own, Entries
  <2>2. LeavesOut(suppression, k, suppression')
      BY Zenon, <1>0, <1>4, <2>1, LeavingOut
  <2>3. /\ suppression[k].by \in Updates
        /\ suppression' \in Seq(Entry)
        /\ \A i \in 1 .. Len(suppression') : \E j \in 1 .. Len(suppression) : suppression'[i] = suppression[j]
        /\ \A i, j \in 1 .. Len(suppression') : suppression'[i].by = suppression'[j].by => i = j
        /\ \A i \in 1 .. Len(suppression') : suppression'[i].by # suppression[k].by
        /\ \A j \in 1 .. Len(suppression) :
                suppression[j].by = suppression[k].by
                    \/ \E i \in 1 .. Len(suppression') : suppression'[i].by = suppression[j].by
      BY <2>1, <2>2, OneGoes
  <2>4. ASSUME e \in Updates, x = text[e], NEW i \in 1 .. Len(suppression'), suppression'[i].by = e
        PROVE  FALSE
    <3>1. PICK j \in 1 .. Len(suppression) : suppression'[i] = suppression[j]
        BY Zenon, <2>3
    <3>2. j \in Entries(x) /\ suppression[j].by = e
        BY Zenon, <1>2, <2>4, <3>1 DEF Entries
    <3>3. suppression[k].by = e
        BY Zenon, <1>4, <3>2 DEF Own
    <3> QED
        BY Zenon, <2>3, <2>4, <3>3
  <2>5. lost \subseteq lost' /\ lost' \subseteq Updates
      BY Zenon, <1>0, <1>4, <2>3
  <2>6. ASSUME NEW d \in Updates, Armed(d), d # e PROVE Armed(d)'
    <3>1. CASE d \in lost
        BY Zenon, <2>5, <3>1 DEF Armed
    <3>2. ASSUME NEW j \in 1 .. Len(suppression), suppression[j].by = d PROVE Armed(d)'
      <4>1. CASE suppression[k].by = d
          BY Zenon, <1>4, <2>6, <4>1 DEF Armed
      <4>2. CASE \E i \in 1 .. Len(suppression') : suppression'[i].by = d
          BY Zenon, <4>2 DEF Armed
      <4> QED
          BY Zenon, <2>3, <3>2, <4>1, <4>2
    <3> QED
        BY Zenon, <2>6, <3>1, <3>2 DEF Armed
  <2> QED
      BY Zenon, <2>3, <2>4, <2>5, <2>6
<1> QED
    BY Zenon, <1>3, <1>4 DEF Take

\* The oldest entry goes, as it does when it expires or the cache is full, and
\* that is recorded.
LEMMA OldestGoes ==
    ASSUME EchoTypes, EntriesAreTheirs, suppression # <<>>,
           lost' = lost \cup {Head(suppression).by}
    PROVE  /\ Tail(suppression) \in Seq(Entry) /\ lost \subseteq lost' /\ lost' \subseteq Updates
           /\ \A i \in 1 .. Len(Tail(suppression)) :
                \E j \in 1 .. Len(suppression) : Tail(suppression)[i] = suppression[j]
           /\ \A i, j \in 1 .. Len(Tail(suppression)) :
                Tail(suppression)[i].by = Tail(suppression)[j].by => i = j
           /\ \A d \in Updates : Armed(d) =>
                d \in lost' \/ \E i \in 1 .. Len(Tail(suppression)) : Tail(suppression)[i].by = d
<1> DEFINE t == Tail(suppression)
<1>1. suppression \in Seq(Entry) /\ lost \subseteq Updates
    BY Zenon DEF EchoTypes, Entry
<1>2. LeavesOut(suppression, 1, t) /\ Head(suppression) = suppression[1] /\ 1 \in 1 .. Len(suppression)
    BY Zenon, <1>1, LeavingOut
<1> HIDE DEF t
<1>3. /\ suppression[1].by \in Updates
      /\ t \in Seq(Entry)
      /\ \A i \in 1 .. Len(t) : \E j \in 1 .. Len(suppression) : t[i] = suppression[j]
      /\ \A i, j \in 1 .. Len(t) : t[i].by = t[j].by => i = j
      /\ \A j \in 1 .. Len(suppression) :
            suppression[j].by = suppression[1].by \/ \E i \in 1 .. Len(t) : t[i].by = suppression[j].by
    BY <1>2, OneGoes
<1>4. ASSUME NEW d \in Updates, Armed(d) PROVE d \in lost' \/ \E i \in 1 .. Len(t) : t[i].by = d
    BY <1>2, <1>3, <1>4 DEF Armed
<1>5. lost \subseteq lost' /\ lost' \subseteq Updates
    BY Zenon, <1>1, <1>2, <1>3
<1> QED
    BY Zenon, <1>3, <1>4, <1>5 DEF t

\* SuppressionCache::arm: the update has an entry, and no other one loses its
\* entry without that being recorded.
LEMMA ArmArms ==
    ASSUME EchoTypes, EntriesAreTheirs, NEW e \in Updates, progress[e] = "new", Arm(e)
    PROVE  /\ suppression' \in Seq(Entry) /\ lost \subseteq lost' /\ lost' \subseteq Updates
           /\ \A i \in 1 .. Len(suppression') :
                \/ suppression'[i] = [hash |-> text[e], by |-> e]
                \/ \E j \in 1 .. Len(suppression) : suppression'[i] = suppression[j]
           /\ \A i, j \in 1 .. Len(suppression') : suppression'[i].by = suppression'[j].by => i = j
           /\ \A d \in Updates : Armed(d) => Armed(d)'
           /\ Armed(e)'
<1> DEFINE x == [hash |-> text[e], by |-> e]
<1>1. suppression \in Seq(Entry) /\ lost \subseteq Updates
    BY Zenon DEF EchoTypes, Entry
<1>2. x \in Entry /\ x.by = e
    BY Zenon DEF EchoTypes, Entry
<1>3. \E t \in Seq(Entry) :
        /\ suppression' = Append(t, x)
        /\ lost \subseteq lost' /\ lost' \subseteq Updates
        /\ \A i \in 1 .. Len(t) : \E j \in 1 .. Len(suppression) : t[i] = suppression[j]
        /\ \A i, j \in 1 .. Len(t) : t[i].by = t[j].by => i = j
        /\ \A d \in Updates : Armed(d) => d \in lost' \/ \E i \in 1 .. Len(t) : t[i].by = d
  <2>1. CASE Len(suppression) < SuppressionCap
    <3>1. suppression' = Append(suppression, x) /\ lost' = lost
        BY Zenon, <2>1 DEF Arm
    <3> QED
        BY Zenon, <1>1, <3>1 DEF Armed, EntriesAreTheirs
  <2>2. CASE ~ (Len(suppression) < SuppressionCap)
    <3>1. suppression' = Append(Tail(suppression), x) /\ lost' = lost \cup {Head(suppression).by}
        BY Zenon, <2>2 DEF Arm
    <3>2. suppression # <<>>
        BY <1>1, <2>2, EchoAssumption
    <3> QED
        BY Zenon, <3>1, <3>2, OldestGoes
  <2> QED
      BY Zenon, <2>1, <2>2
<1> HIDE DEF x
<1>4. PICK t \in Seq(Entry) :
        /\ suppression' = Append(t, x)
        /\ lost \subseteq lost' /\ lost' \subseteq Updates
        /\ \A i \in 1 .. Len(t) : \E j \in 1 .. Len(suppression) : t[i] = suppression[j]
        /\ \A i, j \in 1 .. Len(t) : t[i].by = t[j].by => i = j
        /\ \A d \in Updates : Armed(d) => d \in lost' \/ \E i \in 1 .. Len(t) : t[i].by = d
    BY Zenon, <1>3
<1>5. /\ suppression' \in Seq(Entry)
      /\ suppression'[Len(suppression')] = x /\ Len(suppression') \in 1 .. Len(suppression')
      /\ \A i \in 1 .. Len(t) : i \in 1 .. Len(suppression') /\ suppression'[i] = t[i]
      /\ \A i \in 1 .. Len(suppression') : i = Len(suppression') \/ i \in 1 .. Len(t)
    BY <1>2, <1>4, WithOneMore
<1>6. \A i \in 1 .. Len(t) : t[i].by # e
  <2>1. \A j \in 1 .. Len(suppression) : suppression[j].by # e
      BY Zenon DEF EntriesAreTheirs
  <2> QED
      BY <1>4, <2>1
<1>7. \A i, j \in 1 .. Len(suppression') : suppression'[i].by = suppression'[j].by => i = j
    BY SMTT(30), <1>2, <1>4, <1>5, <1>6
<1>8. \A i \in 1 .. Len(suppression') :
        suppression'[i] = x \/ \E j \in 1 .. Len(suppression) : suppression'[i] = suppression[j]
    BY SMTT(30), <1>4, <1>5
<1>9. ASSUME NEW d \in Updates, Armed(d) PROVE Armed(d)'
    BY <1>4, <1>5, <1>9 DEF Armed
<1>10. Armed(e)'
    BY Zenon, <1>2, <1>5 DEF Armed
<1> QED
    BY Zenon, <1>4, <1>5, <1>7, <1>8, <1>9, <1>10 DEF x

\* Steps of the watcher and of the policy that touch neither the clipboard nor
\* the cache, and are not part of looking at a change.
LEMMA OutsideInv ==
    ASSUME EchoInv, UNCHANGED <<text, progress, cache, board, signals, seen>>, alive' \in BOOLEAN,
           \/ watcher' = watcher
           \/ /\ watcher \notin {"reading", "suppressing"}
              /\ watcher' \notin {"reading", "suppressing", "sending"}
    PROVE  EchoInv'
<1>1. /\ text' = text /\ progress' = progress /\ suppression' = suppression /\ lost' = lost
      /\ clip' = clip /\ unread' = unread /\ missed' = missed /\ signals' = signals /\ seen' = seen
    BY Zenon DEF cache, board
<1>2. EchoTypes' /\ EntriesAreTheirs' /\ ClipsAreWritten'
    BY <1>1 DEF EchoInv, EchoTypes, Clips, EntriesAreTheirs, ClipsAreWritten
<1>3. EchoIsExpected' /\ ReadOnce' /\ NoEcho'
    BY Zenon, <1>1 DEF EchoInv, EchoIsExpected, Armed, ReadOnce, NoEcho
<1>4. EntriesAreOwed'
    BY Zenon, <1>1 DEF EchoInv, EntriesAreOwed
<1> QED
    BY Zenon, <1>2, <1>3, <1>4 DEF EchoInv

\* Starting, waiting, retrying and losing a watch (run_watcher), and changes of
\* the policy (do_clipboard_policy, policy_changed, on_peer_connected).
LEMMA WatchInv ==
    ASSUME EchoInv,
           \/ Ask \/ EpochChanged \/ StartWatch \/ Retry \/ WatchDies
           \/ PolicyChanged \/ PeerConnected \/ \E p \in Devices : StorePolicy(p)
    PROVE  EchoInv'
<1>1. UNCHANGED <<text, progress, cache, board, signals, seen>>
    BY Zenon DEF Ask, EpochChanged, StartWatch, Retry, WatchDies, PolicyChanged, PeerConnected, StorePolicy,
       Elsewhere, pass
<1>2. alive' \in BOOLEAN
    BY Zenon DEF Ask, EpochChanged, StartWatch, Retry, WatchDies, PolicyChanged, PeerConnected, StorePolicy,
       EchoInv, EchoTypes
<1>3. \/ watcher' = watcher
      \/ /\ watcher \notin {"reading", "suppressing"}
         /\ watcher' \notin {"reading", "suppressing", "sending"}
    BY Zenon DEF Ask, EpochChanged, StartWatch, Retry, WatchDies, PolicyChanged, PeerConnected, StorePolicy,
       WatchOutcomes
<1> QED
    BY Zenon, <1>1, <1>2, <1>3, OutsideInv

\* A watch is dropped with what it still held.
LEMMA DropInv ==
    ASSUME EchoInv, WatchEnded \/ Reask
    PROVE  EchoInv'
<1>1. text' = text /\ progress' = progress /\ suppression' = suppression /\ lost' = lost /\ clip' = clip /\ seen' = seen
    BY Zenon DEF WatchEnded, Reask, DropWatch, Elsewhere, cache, board, pass
<1>2. watcher \in {"watching", "reasking"} /\ watcher' \in {"asking", "watching"}
    BY Zenon DEF WatchEnded, Reask, DropWatch
<1>3. \/ UNCHANGED <<unread, missed, signals, alive>>
      \/ alive' = FALSE /\ signals' = 0 /\ unread' = FALSE /\ missed' = missed \cup Unread
    BY Zenon DEF WatchEnded, Reask, DropWatch, board
<1>4. Unread \subseteq Updates
    BY Zenon DEF Unread
<1>5. EchoTypes'
  <2>1. 0 \in Nat
      BY Zenon
  <2> QED
      BY Zenon, <1>1, <1>3, <1>4, <2>1 DEF EchoInv, EchoTypes
<1>6. EntriesAreTheirs' /\ ClipsAreWritten'
    BY Zenon, <1>1 DEF EchoInv, EntriesAreTheirs, ClipsAreWritten
<1>7. EchoIsExpected' /\ NoEcho'
    BY <1>1, <1>2, <1>3 DEF EchoInv, EchoIsExpected, Armed, NoEcho
<1>8. ReadOnce'
    BY SMTT(30), <1>1, <1>2, <1>3 DEF EchoInv, ReadOnce
<1>9. EntriesAreOwed'
  <2>1. \A e \in Updates : clip.from = e /\ unread => e \in Unread
      BY Zenon DEF Unread
  <2>2. \A i \in 1 .. Len(suppression) : suppression[i].by \in Updates
      BY Zenon, EntriesHaveOwners DEF EchoInv
  <2> QED
      BY <1>1, <1>2, <1>3, <2>1, <2>2 DEF EchoInv, EntriesAreOwed
<1> QED
    BY Zenon, <1>5, <1>6, <1>7, <1>8, <1>9 DEF EchoInv

\* The watcher takes a signal and reads the clipboard (on_local_change).
LEMMA ReadInv ==
    ASSUME EchoInv, Signal \/ Read
    PROVE  EchoInv'
<1>1. text' = text /\ progress' = progress /\ suppression' = suppression /\ lost' = lost /\ clip' = clip
    BY Zenon DEF Signal, Read, Elsewhere, cache, board
<1>2. CASE Signal
  <2>1. /\ watcher = "watching" /\ watcher' = "reading" /\ signals > 0 /\ signals' = signals - 1
        /\ unread' = unread /\ missed' = missed /\ seen' = seen /\ alive' = alive
      BY Zenon, <1>2 DEF Signal, board, pass
  <2>2. EchoTypes' /\ EntriesAreTheirs' /\ ClipsAreWritten'
      BY <1>1, <2>1 DEF EchoInv, EchoTypes, EntriesAreTheirs, ClipsAreWritten
  <2>3. EchoIsExpected' /\ NoEcho'
      BY Zenon, <1>1, <2>1 DEF EchoInv, EchoIsExpected, Armed, NoEcho
  <2>4. ReadOnce'
      BY SMTT(30), <1>1, <2>1 DEF EchoInv, EchoTypes, ReadOnce
  <2>5. EntriesAreOwed'
      BY Zenon, <1>1, <2>1 DEF EchoInv, EntriesAreOwed
  <2> QED
      BY Zenon, <2>2, <2>3, <2>4, <2>5 DEF EchoInv
<1>3. CASE Read
  <2>1. watcher = "reading" /\ unread' = FALSE /\ signals' = signals /\ alive' = alive
      BY Zenon, <1>3 DEF Read
  <2>2. \/ watcher' = "suppressing" /\ seen' = clip /\ missed' = missed
        \/ watcher' = "watching" /\ seen' = seen /\ missed' = missed \cup Unread
      BY Zenon, <1>3 DEF Read
  <2>3. Unread \subseteq Updates
      BY Zenon DEF Unread
  <2>4. EchoTypes' /\ EntriesAreTheirs' /\ ClipsAreWritten'
      BY Zenon, <1>1, <2>1, <2>2, <2>3 DEF EchoInv, EchoTypes, EntriesAreTheirs, ClipsAreWritten
  <2>5. EchoIsExpected' /\ NoEcho'
      BY Zenon, <1>1, <2>1, <2>2 DEF EchoInv, EchoIsExpected, Armed, NoEcho, ReadOnce
  <2>6. ReadOnce'
      BY SMTT(30), <1>1, <2>1, <2>2 DEF EchoInv, ReadOnce, EchoTypes
  <2>7. EntriesAreOwed'
    <3>1. \A e \in Updates : clip.from = e /\ unread => e \in Unread
        BY Zenon DEF Unread
    <3>2. \A i \in 1 .. Len(suppression) : suppression[i].by \in Updates
        BY Zenon, EntriesHaveOwners DEF EchoInv
    <3> QED
        BY Zenon, <1>1, <2>1, <2>2, <3>1, <3>2 DEF EchoInv, EntriesAreOwed
  <2> QED
      BY Zenon, <2>4, <2>5, <2>6, <2>7 DEF EchoInv
<1> QED
    BY Zenon, <1>2, <1>3

\* Nothing is a clip.
LEMMA NothingIsClip ==
    Nothing \in Clips /\ Nothing.from \notin Updates
    BY Zenon, EchoAssumption DEF Nothing, Clips

\* The watcher asks the suppression cache about what it read.
LEMMA SuppressInv ==
    ASSUME EchoInv, Suppress
    PROVE  EchoInv'
<1>1. /\ text' = text /\ progress' = progress /\ clip' = clip /\ unread' = unread /\ missed' = missed
      /\ alive' = alive /\ signals' = signals /\ watcher = "suppressing"
      /\ Take(seen.text, seen.from)
    BY Zenon DEF Suppress, board
<1>2. \/ Entries(seen.text) = {} /\ watcher' = "sending" /\ seen' = seen
      \/ watcher' = "watching" /\ seen' = Nothing
    BY Zenon DEF Suppress
<1>3. EchoTypes /\ EntriesAreTheirs
    BY Zenon DEF EchoInv
<1>4. /\ suppression' \in Seq(Entry) /\ lost \subseteq lost' /\ lost' \subseteq Updates
      /\ \A i \in 1 .. Len(suppression') :
            \E j \in 1 .. Len(suppression) : suppression'[i] = suppression[j]
      /\ \A i, j \in 1 .. Len(suppression') : suppression'[i].by = suppression'[j].by => i = j
      /\ \A d \in Updates : Armed(d) => d = seen.from \/ Armed(d)'
      /\ seen.from \in Updates /\ seen.text = text[seen.from] =>
            \A i \in 1 .. Len(suppression') : suppression'[i].by # seen.from
    BY Zenon, <1>1, <1>3, TakeTakesOwn
<1>5. EchoTypes'
    BY Zenon, <1>1, <1>2, <1>3, <1>4, NothingIsClip DEF EchoTypes, Entry
<1>6. EntriesAreTheirs'
  <2>1. ASSUME NEW i \in 1 .. Len(suppression')
        PROVE  suppression'[i].hash = text[suppression'[i].by] /\ progress[suppression'[i].by] # "new"
    <3>1. PICK j \in 1 .. Len(suppression) : suppression'[i] = suppression[j]
        BY Zenon, <1>4
    <3>2. suppression[j].hash = text[suppression[j].by] /\ progress[suppression[j].by] # "new"
        BY Zenon, <1>3 DEF EntriesAreTheirs
    <3> QED
        BY Zenon, <3>1, <3>2
  <2> QED
      BY Zenon, <1>1, <1>4, <2>1 DEF EntriesAreTheirs
<1>7. ClipsAreWritten'
    BY Zenon, <1>1, <1>2, NothingIsClip DEF EchoInv, ClipsAreWritten
<1>8. seen.from \in Updates => progress[seen.from] = "done" /\ seen.text = text[seen.from]
                               /\ (unread => clip.from # seen.from)
    BY Zenon, <1>1 DEF EchoInv, ClipsAreWritten, EchoIsExpected
<1>9. EchoIsExpected'
  <2>1. ASSUME NEW e \in Updates, progress[e] \in {"write", "failed"} PROVE Armed(e)'
      BY Zenon, <1>4, <1>8, <2>1 DEF EchoInv, EchoIsExpected
  <2>2. ASSUME NEW e \in Updates, clip.from = e, clip.quiet, unread PROVE Armed(e)'
      BY Zenon, <1>4, <1>8, <2>2 DEF EchoInv, EchoIsExpected
  <2>3. watcher' # "suppressing"
      BY Zenon, <1>2
  <2> QED
      BY Zenon, <1>1, <2>1, <2>2, <2>3 DEF EchoIsExpected, Armed
<1>10. ReadOnce'
    BY Zenon, <1>1, <1>2 DEF EchoInv, ReadOnce
<1>11. NoEcho'
  <2>1. CASE Entries(seen.text) = {} /\ watcher' = "sending" /\ seen' = seen
    <3>1. ASSUME seen.from \in Updates, seen.quiet PROVE seen.from \in lost
      <4>1. \A i \in 1 .. Len(suppression) : suppression[i].by # seen.from
          BY <1>3, <1>8, <2>1, <3>1 DEF Entries, EntriesAreTheirs
      <4> QED
          BY Zenon, <1>1, <3>1, <4>1 DEF EchoInv, EchoIsExpected, Armed
    <3> QED
        BY Zenon, <1>4, <2>1, <3>1 DEF NoEcho
  <2>2. CASE watcher' = "watching"
      BY Zenon, <2>2 DEF NoEcho
  <2> QED
      BY Zenon, <1>2, <2>1, <2>2
<1>12. EntriesAreOwed'
  <2>1. ASSUME NEW i \in 1 .. Len(suppression')
        PROVE  \/ suppression'[i].by \in missed
               \/ progress[suppression'[i].by] \in {"write", "failed"}
               \/ clip.from = suppression'[i].by /\ unread
    <3>1. PICK j \in 1 .. Len(suppression) : suppression'[i] = suppression[j]
        BY Zenon, <1>4
    <3>2. suppression'[i].by \in Updates
        BY Zenon, <1>3, <3>1, EntriesHaveOwners
    <3>3. suppression'[i].by # seen.from
        BY Zenon, <1>4, <1>8, <3>2
    <3> QED
        BY Zenon, <3>1, <3>3 DEF EchoInv, EntriesAreOwed
  <2>2. unread => signals > 0
      BY Zenon, <1>1 DEF EchoInv, EntriesAreOwed
  <2> QED
      BY Zenon, <1>1, <2>1, <2>2 DEF EntriesAreOwed
<1> QED
    BY Zenon, <1>5, <1>6, <1>7, <1>9, <1>10, <1>11, <1>12 DEF EchoInv

\* What passed is delivered to one peer after the other.
LEMMA DeliverInv ==
    ASSUME EchoInv, DeliverChange
    PROVE  EchoInv'
<1>1. /\ text' = text /\ progress' = progress /\ suppression' = suppression /\ lost' = lost /\ clip' = clip
      /\ unread' = unread /\ missed' = missed /\ alive' = alive /\ signals' = signals
    BY Zenon DEF DeliverChange, Elsewhere, board, cache
<1>2. CASE watcher' = watcher /\ seen' = seen
  <2>1. UNCHANGED <<text, progress, cache, board, signals, seen>> /\ alive' \in BOOLEAN
      BY Zenon, <1>1, <1>2 DEF cache, board, EchoInv, EchoTypes
  <2> QED
      BY Zenon, <1>2, <2>1, OutsideInv
<1>3. CASE watcher = "sending" /\ watcher' = "watching" /\ seen' = Nothing
  <2>1. EchoTypes' /\ EntriesAreTheirs' /\ ClipsAreWritten'
      BY Zenon, <1>1, <1>3, NothingIsClip DEF EchoInv, EchoTypes, EntriesAreTheirs, ClipsAreWritten
  <2>2. EchoIsExpected' /\ ReadOnce' /\ NoEcho' /\ EntriesAreOwed'
      BY Zenon, <1>1, <1>3 DEF EchoInv, EchoIsExpected, Armed, ReadOnce, NoEcho, EntriesAreOwed
  <2> QED
      BY Zenon, <2>1, <2>2 DEF EchoInv
<1> QED
    BY Zenon, <1>2, <1>3 DEF DeliverChange

\* An entry expires (SuppressionCache::expire).
LEMMA ExpireInv ==
    ASSUME EchoInv, SuppressionExpires
    PROVE  EchoInv'
<1>1. /\ text' = text /\ progress' = progress /\ clip' = clip /\ unread' = unread /\ missed' = missed
      /\ alive' = alive /\ signals' = signals /\ watcher' = watcher /\ seen' = seen
      /\ suppression # <<>> /\ suppression' = Tail(suppression)
      /\ lost' = lost \cup {Head(suppression).by}
    BY Zenon DEF SuppressionExpires, board, pass
<1>2. EchoTypes /\ EntriesAreTheirs
    BY Zenon DEF EchoInv
<1>3. /\ suppression' \in Seq(Entry) /\ lost \subseteq lost' /\ lost' \subseteq Updates
      /\ \A i \in 1 .. Len(suppression') :
            \E j \in 1 .. Len(suppression) : suppression'[i] = suppression[j]
      /\ \A i, j \in 1 .. Len(suppression') : suppression'[i].by = suppression'[j].by => i = j
      /\ \A d \in Updates : Armed(d) =>
            d \in lost' \/ \E i \in 1 .. Len(suppression') : suppression'[i].by = d
    BY ZenonT(40), <1>1, <1>2, OldestGoes
<1>4. EchoTypes' /\ ClipsAreWritten' /\ ReadOnce'
    BY Zenon, <1>1, <1>2, <1>3 DEF EchoInv, EchoTypes, Entry, ClipsAreWritten, ReadOnce
<1>5. \A d \in Updates : Armed(d) => Armed(d)'
    BY Zenon, <1>3 DEF Armed
<1>6. EntriesAreTheirs' /\ EntriesAreOwed'
  <2>1. ASSUME NEW i \in 1 .. Len(suppression')
        PROVE  /\ suppression'[i].hash = text[suppression'[i].by] /\ progress[suppression'[i].by] # "new"
               /\ \/ suppression'[i].by \in missed
                  \/ progress[suppression'[i].by] \in {"write", "failed"}
                  \/ clip.from = suppression'[i].by /\ unread
                  \/ watcher = "suppressing" /\ seen.from = suppression'[i].by
    <3>1. PICK j \in 1 .. Len(suppression) : suppression'[i] = suppression[j]
        BY Zenon, <1>3
    <3>2. /\ suppression[j].hash = text[suppression[j].by] /\ progress[suppression[j].by] # "new"
          /\ \/ suppression[j].by \in missed
             \/ progress[suppression[j].by] \in {"write", "failed"}
             \/ clip.from = suppression[j].by /\ unread
             \/ watcher = "suppressing" /\ seen.from = suppression[j].by
        BY Zenon DEF EchoInv, EntriesAreTheirs, EntriesAreOwed
    <3> QED
        BY Zenon, <3>1, <3>2
  <2>2. EntriesAreTheirs'
      BY Zenon, <1>1, <1>3, <2>1 DEF EntriesAreTheirs
  <2>3. EntriesAreOwed'
      BY Zenon, <1>1, <2>1 DEF EchoInv, EntriesAreOwed
  <2> QED
      BY Zenon, <2>2, <2>3
<1>7. EchoIsExpected'
  <2>1. ASSUME NEW e \in Updates, progress[e] \in {"write", "failed"} PROVE Armed(e)'
      BY Zenon, <1>5, <2>1 DEF EchoInv, EchoIsExpected
  <2>2. ASSUME NEW e \in Updates, clip.from = e, clip.quiet, unread PROVE Armed(e)'
      BY Zenon, <1>5, <2>2 DEF EchoInv, EchoIsExpected
  <2>3. ASSUME watcher = "suppressing", NEW e \in Updates, seen.from = e
        PROVE  (seen.quiet => Armed(e)') /\ (unread => clip.from # e)
      BY Zenon, <1>5, <2>3 DEF EchoInv, EchoIsExpected
  <2> QED
      BY Zenon, <1>1, <2>1, <2>2, <2>3 DEF EchoIsExpected, Armed
<1>8. NoEcho'
    BY Zenon, <1>1, <1>3 DEF EchoInv, NoEcho
<1> QED
    BY Zenon, <1>4, <1>6, <1>7, <1>8 DEF EchoInv

\* An update goes one step further: how far each one is afterwards.
LEMMA StepOf ==
    ASSUME EchoTypes, NEW e \in Updates, NEW v \in {"new", "write", "done", "failed"},
           progress' = [progress EXCEPT ![e] = v]
    PROVE  /\ progress' \in [Updates -> {"new", "write", "done", "failed"}]
           /\ progress'[e] = v
           /\ \A d \in Updates : d # e => progress'[d] = progress[d]
    BY Zenon DEF EchoTypes

\* Arming the cache before the write (apply, apply_pending).
LEMMA ApplyInv ==
    ASSUME EchoInv, NEW e \in Updates, Apply(e)
    PROVE  EchoInv'
<1>1. /\ text' = text /\ clip' = clip /\ unread' = unread /\ missed' = missed /\ alive' = alive
      /\ signals' = signals /\ watcher' = watcher /\ seen' = seen
      /\ progress[e] = "new" /\ progress' = [progress EXCEPT ![e] = "write"] /\ Arm(e)
    BY Zenon DEF Apply, board, pass
<1>2. EchoTypes /\ EntriesAreTheirs /\ EntriesAreOwed /\ ClipsAreWritten
    BY Zenon DEF EchoInv
<1>3. /\ progress' \in [Updates -> {"new", "write", "done", "failed"}]
      /\ progress'[e] = "write"
      /\ \A d \in Updates : d # e => progress'[d] = progress[d]
    BY Zenon, <1>1, <1>2, StepOf
<1>4. /\ suppression' \in Seq(Entry) /\ lost \subseteq lost' /\ lost' \subseteq Updates
      /\ \A i \in 1 .. Len(suppression') :
            \/ suppression'[i] = [hash |-> text[e], by |-> e]
            \/ \E j \in 1 .. Len(suppression) : suppression'[i] = suppression[j]
      /\ \A i, j \in 1 .. Len(suppression') : suppression'[i].by = suppression'[j].by => i = j
      /\ \A d \in Updates : Armed(d) => Armed(d)'
      /\ Armed(e)'
    BY Zenon, <1>1, <1>2, ArmArms
<1>5. EchoTypes' /\ ReadOnce'
    BY Zenon, <1>1, <1>2, <1>3, <1>4 DEF EchoInv, EchoTypes, Entry, ReadOnce
<1>6. ClipsAreWritten' /\ NoEcho'
  <2>1. "new" # "done"
      BY Zenon
  <2> QED
      BY Zenon, <1>1, <1>2, <1>3, <1>4, <2>1 DEF EchoInv, ClipsAreWritten, NoEcho
<1>7. ASSUME NEW i \in 1 .. Len(suppression')
      PROVE  /\ suppression'[i].hash = text[suppression'[i].by] /\ progress'[suppression'[i].by] # "new"
             /\ \/ suppression'[i].by \in missed
                \/ progress'[suppression'[i].by] \in {"write", "failed"}
                \/ clip.from = suppression'[i].by /\ unread
                \/ watcher = "suppressing" /\ seen.from = suppression'[i].by
  <2>1. CASE suppression'[i] = [hash |-> text[e], by |-> e]
      BY <1>3, <2>1
  <2>2. ASSUME NEW j \in 1 .. Len(suppression), suppression'[i] = suppression[j]
        PROVE  /\ suppression'[i].hash = text[suppression'[i].by] /\ progress'[suppression'[i].by] # "new"
               /\ \/ suppression'[i].by \in missed
                  \/ progress'[suppression'[i].by] \in {"write", "failed"}
                  \/ clip.from = suppression'[i].by /\ unread
                  \/ watcher = "suppressing" /\ seen.from = suppression'[i].by
    <3>1. suppression[j].hash = text[suppression[j].by] /\ progress[suppression[j].by] # "new"
        BY Zenon, <1>2 DEF EntriesAreTheirs
    <3>2. progress'[suppression[j].by] = progress[suppression[j].by]
        BY Zenon, <1>1, <1>2, <1>3, <3>1, EntriesHaveOwners
    <3> QED
        BY Zenon, <1>2, <2>2, <3>1, <3>2 DEF EntriesAreOwed
  <2> QED
      BY Zenon, <1>4, <2>1, <2>2
<1>8. EntriesAreTheirs' /\ EntriesAreOwed'
    BY Zenon, <1>1, <1>2, <1>4, <1>7 DEF EntriesAreTheirs, EntriesAreOwed
<1>9. EchoIsExpected'
  <2>1. ASSUME NEW d \in Updates, progress'[d] \in {"write", "failed"} PROVE Armed(d)'
      BY Zenon, <1>3, <1>4, <2>1 DEF EchoInv, EchoIsExpected
  <2>2. ASSUME NEW d \in Updates, clip.from = d, clip.quiet, unread PROVE Armed(d)'
      BY Zenon, <1>4, <2>2 DEF EchoInv, EchoIsExpected
  <2>3. ASSUME watcher = "suppressing", NEW d \in Updates, seen.from = d
        PROVE  (seen.quiet => Armed(d)') /\ (unread => clip.from # d)
      BY Zenon, <1>4, <2>3 DEF EchoInv, EchoIsExpected
  <2> QED
      BY Zenon, <1>1, <2>1, <2>2, <2>3 DEF EchoIsExpected, Armed
<1> QED
    BY Zenon, <1>5, <1>6, <1>8, <1>9 DEF EchoInv

\* A write that failed gives its entry back.
LEMMA ReleaseInv ==
    ASSUME EchoInv, NEW e \in Updates, Release(e)
    PROVE  EchoInv'
<1>1. /\ text' = text /\ clip' = clip /\ unread' = unread /\ missed' = missed /\ alive' = alive
      /\ signals' = signals /\ watcher' = watcher /\ seen' = seen
      /\ progress[e] = "failed" /\ progress' = [progress EXCEPT ![e] = "new"] /\ Take(text[e], e)
    BY Zenon DEF Release, board, pass
<1>2. EchoTypes /\ EntriesAreTheirs /\ EntriesAreOwed /\ ClipsAreWritten
    BY Zenon DEF EchoInv
<1>3. /\ progress' \in [Updates -> {"new", "write", "done", "failed"}]
      /\ progress'[e] = "new"
      /\ \A d \in Updates : d # e => progress'[d] = progress[d]
    BY Zenon, <1>1, <1>2, StepOf
<1>4. /\ suppression' \in Seq(Entry) /\ lost \subseteq lost' /\ lost' \subseteq Updates
      /\ \A i \in 1 .. Len(suppression') :
            \E j \in 1 .. Len(suppression) : suppression'[i] = suppression[j]
      /\ \A i, j \in 1 .. Len(suppression') : suppression'[i].by = suppression'[j].by => i = j
      /\ \A d \in Updates : Armed(d) => d = e \/ Armed(d)'
      /\ \A i \in 1 .. Len(suppression') : suppression'[i].by # e
    BY Zenon, <1>1, <1>2, TakeTakesOwn
<1>5. EchoTypes' /\ ReadOnce'
    BY Zenon, <1>1, <1>2, <1>3, <1>4 DEF EchoInv, EchoTypes, Entry, ReadOnce
<1>6. ClipsAreWritten' /\ NoEcho' /\ clip.from # e /\ seen.from # e
  <2>1. "failed" # "done"
      BY Zenon
  <2> QED
      BY Zenon, <1>1, <1>2, <1>3, <1>4, <2>1 DEF EchoInv, ClipsAreWritten, NoEcho
<1>7. ASSUME NEW i \in 1 .. Len(suppression')
      PROVE  /\ suppression'[i].hash = text[suppression'[i].by] /\ progress'[suppression'[i].by] # "new"
             /\ \/ suppression'[i].by \in missed
                \/ progress'[suppression'[i].by] \in {"write", "failed"}
                \/ clip.from = suppression'[i].by /\ unread
                \/ watcher = "suppressing" /\ seen.from = suppression'[i].by
  <2>1. PICK j \in 1 .. Len(suppression) : suppression'[i] = suppression[j]
      BY Zenon, <1>4
  <2>2. suppression[j].hash = text[suppression[j].by] /\ progress[suppression[j].by] # "new"
      BY Zenon, <1>2 DEF EntriesAreTheirs
  <2>3. suppression[j].by # e
      BY Zenon, <1>4, <2>1
  <2>4. progress'[suppression[j].by] = progress[suppression[j].by]
      BY Zenon, <1>2, <1>3, <2>3, EntriesHaveOwners
  <2> QED
      BY Zenon, <1>2, <2>1, <2>2, <2>4 DEF EntriesAreOwed
<1>8. EntriesAreTheirs' /\ EntriesAreOwed'
    BY Zenon, <1>1, <1>2, <1>4, <1>7 DEF EntriesAreTheirs, EntriesAreOwed
<1>9. EchoIsExpected'
  <2>0. "new" \notin {"write", "failed"}
      BY Zenon
  <2>1. ASSUME NEW d \in Updates, progress'[d] \in {"write", "failed"} PROVE Armed(d)'
      BY Zenon, <1>3, <1>4, <2>0, <2>1 DEF EchoInv, EchoIsExpected
  <2>2. ASSUME NEW d \in Updates, clip.from = d, clip.quiet, unread PROVE Armed(d)'
      BY Zenon, <1>4, <1>6, <2>2 DEF EchoInv, EchoIsExpected
  <2>3. ASSUME watcher = "suppressing", NEW d \in Updates, seen.from = d
        PROVE  (seen.quiet => Armed(d)') /\ (unread => clip.from # d)
      BY Zenon, <1>4, <1>6, <2>3 DEF EchoInv, EchoIsExpected
  <2> QED
      BY Zenon, <1>1, <2>1, <2>2, <2>3 DEF EchoIsExpected, Armed
<1> QED
    BY Zenon, <1>5, <1>6, <1>8, <1>9 DEF EchoInv

\* The clipboard changes: by the user's hand, or as a peer's clip is written.
LEMMA SetInv ==
    ASSUME EchoInv, NEW x \in Texts, NEW from, Set(x, from),
           text' = text, UNCHANGED cache, watcher' = watcher, alive' = alive, seen' = seen,
           \/ from = "user" /\ progress' = progress
           \/ /\ from \in Updates /\ progress[from] = "write" /\ x = text[from]
              /\ progress' = [progress EXCEPT ![from] = "done"]
    PROVE  EchoInv'
<1>1. suppression' = suppression /\ lost' = lost
    BY Zenon DEF cache
<1>2. /\ clip' = [text |-> x, from |-> from, quiet |-> signals = 0 /\ watcher # "reading"]
      /\ signals' = IF alive /\ signals < SignalCap THEN signals + 1 ELSE signals
      /\ unread' = alive
      /\ missed' = missed \cup Unread \cup (IF ~ alive /\ from \in Updates THEN {from} ELSE {})
    BY Zenon DEF Set
<1>3. clip'.text = x /\ clip'.from = from /\ clip'.quiet = (signals = 0 /\ watcher # "reading")
    BY Zenon, <1>2
<1>4. EchoTypes /\ EntriesAreTheirs /\ EntriesAreOwed /\ ClipsAreWritten /\ EchoIsExpected
    BY Zenon DEF EchoInv
<1>5. /\ progress' \in [Updates -> {"new", "write", "done", "failed"}]
      /\ \A d \in Updates : progress'[d] = progress[d] \/ (d = from /\ progress[d] = "write" /\ progress'[d] = "done")
  <2>1. CASE from = "user" /\ progress' = progress
      BY Zenon, <1>4, <2>1 DEF EchoTypes
  <2>2. CASE from \in Updates /\ progress[from] = "write" /\ progress' = [progress EXCEPT ![from] = "done"]
    <3>1. "done" \in {"new", "write", "done", "failed"}
        BY Zenon
    <3>2. /\ progress' \in [Updates -> {"new", "write", "done", "failed"}]
          /\ progress'[from] = "done"
          /\ \A d \in Updates : d # from => progress'[d] = progress[d]
        BY Zenon, <1>4, <2>2, <3>1, StepOf
    <3> QED
        BY Zenon, <2>2, <3>2
  <2> QED
      BY Zenon, <2>1, <2>2
<1>6. "user" \notin Updates /\ SignalCap \in Nat \ {0}
    BY Zenon, EchoAssumption
<1>7. from \in Updates => progress[from] = "write" /\ x = text[from] /\ progress'[from] = "done"
    BY Zenon, <1>4, <1>5, <1>6, StepOf DEF EchoTypes
<1>8. EchoTypes'
  <2>1. signals' \in Nat
      BY <1>2, <1>4 DEF EchoTypes
  <2>2. from \in Updates \cup {"user", Nobody}
      BY Zenon
  <2>3. clip' \in Clips
      BY Zenon, <1>2, <2>2 DEF Clips
  <2>4. missed' \subseteq Updates
      BY Zenon, <1>2, <1>4 DEF EchoTypes, Unread
  <2> QED
      BY Zenon, <1>1, <1>2, <1>4, <1>5, <2>1, <2>3, <2>4 DEF EchoTypes
<1>9. "new" # "done" /\ "new" # "write" /\ "write" # "done" /\ "done" \notin {"write", "failed"}
    BY Zenon
<1>10. EntriesAreTheirs'
    BY ZenonT(40), <1>1, <1>4, <1>5, <1>9, EntriesHaveOwners DEF EntriesAreTheirs
<1>11. ClipsAreWritten'
    BY Zenon, <1>3, <1>4, <1>5, <1>7, <1>9 DEF ClipsAreWritten
<1>12. EchoIsExpected'
  <2>1. ASSUME NEW d \in Updates, progress'[d] \in {"write", "failed"} PROVE Armed(d)
      BY Zenon, <1>4, <1>5, <1>9, <2>1 DEF EchoIsExpected
  <2>2. ASSUME from \in Updates PROVE Armed(from)
      BY Zenon, <1>4, <1>7, <2>2 DEF EchoIsExpected
  <2>3. ASSUME watcher = "suppressing", NEW d \in Updates, seen.from = d
        PROVE  (seen.quiet => Armed(d)) /\ from # d
      BY Zenon, <1>4, <1>6, <1>7, <1>9, <2>3 DEF EchoIsExpected, ClipsAreWritten
  <2> QED
      BY Zenon, <1>1, <1>3, <2>1, <2>2, <2>3 DEF EchoIsExpected, Armed
<1>13. ReadOnce' /\ (unread' => signals' > 0)
  <2>1. signals = 0 => (signals' > 0 => alive /\ signals' = 1)
      BY SMTT(30), <1>2, <1>6
  <2>2. unread' => signals' > 0
      BY <1>2, <1>4, <1>6 DEF EchoTypes
  <2> QED
      BY Zenon, <1>2, <1>3, <2>1, <2>2 DEF ReadOnce
<1>14. NoEcho'
    BY Zenon, <1>1 DEF EchoInv, NoEcho
<1>15. EntriesAreOwed'
  <2>1. ASSUME NEW d \in Updates,
               \/ d \in missed
               \/ progress[d] \in {"write", "failed"}
               \/ clip.from = d /\ unread
               \/ watcher = "suppressing" /\ seen.from = d
        PROVE  \/ d \in missed'
               \/ progress'[d] \in {"write", "failed"}
               \/ clip'.from = d /\ unread'
               \/ watcher = "suppressing" /\ seen.from = d
    <3>1. CASE d \in missed \/ (clip.from = d /\ unread)
        BY Zenon, <1>2, <3>1 DEF Unread
    <3>2. CASE progress[d] \in {"write", "failed"}
        BY Zenon, <1>2, <1>3, <1>5, <3>2
    <3> QED
        BY Zenon, <2>1, <3>1, <3>2
  <2>2. \A i \in 1 .. Len(suppression) : suppression[i].by \in Updates
      BY Zenon, <1>4, EntriesHaveOwners
  <2> QED
      BY Zenon, <1>1, <1>4, <1>13, <2>1, <2>2 DEF EntriesAreOwed
<1> QED
    BY Zenon, <1>8, <1>10, <1>11, <1>12, <1>13, <1>14, <1>15 DEF EchoInv

\* write_text, whether it sets the clipboard or fails.
LEMMA WriteInv ==
    ASSUME EchoInv, NEW e \in Updates, WriteText(e)
    PROVE  EchoInv'
<1>1. /\ progress[e] = "write" /\ text' = text /\ suppression' = suppression /\ lost' = lost
      /\ watcher' = watcher /\ alive' = alive /\ seen' = seen
    BY Zenon DEF WriteText, cache, pass
<1>2. EchoTypes /\ EntriesAreTheirs /\ EntriesAreOwed /\ ClipsAreWritten /\ EchoIsExpected
    BY Zenon DEF EchoInv
<1>3. CASE progress' = [progress EXCEPT ![e] = "done"] /\ Set(text[e], e)
  <2>1. text[e] \in Texts
      BY Zenon, <1>2 DEF EchoTypes
  <2> QED
      BY Zenon, <1>1, <1>3, <2>1, SetInv DEF cache
<1>4. CASE progress' = [progress EXCEPT ![e] = "failed"] /\ UNCHANGED <<board, signals>>
  <2>1. clip' = clip /\ unread' = unread /\ missed' = missed /\ signals' = signals
      BY Zenon, <1>4 DEF board
  <2>2. "failed" \in {"new", "write", "done", "failed"}
      BY Zenon
  <2>3. /\ progress' \in [Updates -> {"new", "write", "done", "failed"}]
        /\ progress'[e] = "failed"
        /\ \A d \in Updates : d # e => progress'[d] = progress[d]
      BY Zenon, <1>2, <1>4, <2>2, StepOf
  <2>4. "write" # "done" /\ "failed" # "new"
      BY Zenon
  <2>5. EchoTypes' /\ ReadOnce' /\ NoEcho'
      BY Zenon, <1>1, <1>2, <2>1, <2>3 DEF EchoInv, EchoTypes, ReadOnce, NoEcho
  <2>6. ClipsAreWritten'
      BY Zenon, <1>1, <1>2, <2>1, <2>3, <2>4 DEF ClipsAreWritten
  <2>7. EntriesAreTheirs'
      BY Zenon, <1>1, <1>2, <2>3, <2>4, EntriesHaveOwners DEF EntriesAreTheirs
  <2>8. EchoIsExpected'
      BY Zenon, <1>1, <1>2, <2>1, <2>3 DEF EchoIsExpected, Armed
  <2>9. EntriesAreOwed'
      BY Zenon, <1>1, <1>2, <2>1, <2>3, EntriesHaveOwners DEF EntriesAreOwed
  <2> QED
      BY Zenon, <2>5, <2>6, <2>7, <2>8, <2>9 DEF EchoInv
<1> QED
    BY Zenon, <1>3, <1>4 DEF WriteText

\* The user copies something.
LEMMA CopyInv ==
    ASSUME EchoInv, NEW x \in Texts, UserCopies(x)
    PROVE  EchoInv'
<1>1. /\ Set(x, "user") /\ text' = text /\ UNCHANGED cache /\ watcher' = watcher
      /\ alive' = alive /\ seen' = seen /\ progress' = progress
    BY Zenon DEF UserCopies, pass
<1> QED
    BY Zenon, <1>1, SetInv

\* Before anything was written there is no entry and no clip.
LEMMA EchoInvInit ==
    ASSUME EchoInit
    PROVE  EchoInv
<1>1. /\ clip = Nothing /\ seen = Nothing /\ suppression = <<>> /\ lost = {} /\ missed = {}
      /\ signals = 0 /\ alive = FALSE /\ unread = FALSE /\ watcher = "asking"
      /\ text \in [Updates -> Texts] /\ progress = [e \in Updates |-> "new"]
    BY Zenon DEF EchoInit
<1>2. EchoTypes
  <2>1. /\ <<>> \in Seq([hash : Texts, by : Updates])
        /\ 0 \in Nat /\ "new" \in {"new", "write", "done", "failed"}
      OBVIOUS
  <2> QED
      BY Zenon, <1>1, <2>1, NothingIsClip DEF EchoTypes
<1>3. \A e \in Updates : progress[e] = "new"
    BY Zenon, <1>1
<1>4. clip.from \notin Updates /\ seen.from \notin Updates
    BY Zenon, <1>1, NothingIsClip
<1>5. Len(suppression) = 0 /\ 1 .. 0 = {}
    BY <1>1
<1>6. EntriesAreTheirs /\ EntriesAreOwed
    BY Zenon, <1>1, <1>5 DEF EntriesAreTheirs, EntriesAreOwed
<1>7. "new" \notin {"write", "failed"}
    BY Zenon
<1>8. ClipsAreWritten /\ EchoIsExpected /\ ReadOnce /\ NoEcho
    BY Zenon, <1>3, <1>4, <1>7 DEF ClipsAreWritten, EchoIsExpected, ReadOnce, NoEcho
<1> QED
    BY Zenon, <1>2, <1>6, <1>8 DEF EchoInv

\* The inductive invariant holds for any numbers of peers, updates, texts and
\* signals, any size of the cache, and any order of writes, copies, expiries,
\* policy changes and failures of the watch.
THEOREM EchoInvariant == EchoSpec => []EchoInv
<1>1. EchoInit => EchoInv
    BY Zenon, EchoInvInit
<1>2. EchoInv /\ [EchoNext]_echoVars => EchoInv'
  <2> SUFFICES ASSUME EchoInv, [EchoNext]_echoVars PROVE EchoInv'
      BY Zenon
  <2>1. CASE \/ Ask \/ EpochChanged \/ StartWatch \/ Retry \/ WatchDies
             \/ PolicyChanged \/ PeerConnected \/ \E p \in Devices : StorePolicy(p)
      BY Zenon, <2>1, WatchInv
  <2>2. CASE WatchEnded \/ Reask
      BY Zenon, <2>2, DropInv
  <2>3. CASE Signal \/ Read
      BY Zenon, <2>3, ReadInv
  <2>4. CASE Suppress
      BY Zenon, <2>4, SuppressInv
  <2>5. CASE DeliverChange
      BY Zenon, <2>5, DeliverInv
  <2>6. CASE SuppressionExpires
      BY Zenon, <2>6, ExpireInv
  <2>7. CASE \E x \in Texts : UserCopies(x)
      BY Zenon, <2>7, CopyInv
  <2>8. CASE \E e \in Updates : Apply(e) \/ WriteText(e) \/ Release(e)
      BY Zenon, <2>8, ApplyInv, WriteInv, ReleaseInv
  <2>9. CASE UNCHANGED echoVars
    <3>1. UNCHANGED <<text, progress, cache, board, signals, seen>> /\ alive' = alive /\ watcher' = watcher
        BY Zenon, <2>9 DEF echoVars, pass
    <3>2. alive' \in BOOLEAN
        BY Zenon, <3>1 DEF EchoInv, EchoTypes
    <3> QED
        BY Zenon, <3>1, <3>2, OutsideInv
  <2> QED
      BY Zenon, <2>1, <2>2, <2>3, <2>4, <2>5, <2>6, <2>7, <2>8, <2>9 DEF EchoNext, WatcherStep
<1> QED
    BY <1>1, <1>2, PTL DEF EchoSpec

\* A clip written for a peer is not sent out again by on_local_change, unless
\* its entry had gone by then or an earlier change was still being reported.
THEOREM NothingIsEchoed == EchoSpec => []NoEcho
<1>1. EchoInv => NoEcho
    BY Zenon DEF EchoInv
<1> QED
    BY <1>1, EchoInvariant, PTL

\* Every entry of the SuppressionCache waits for an echo that can still come,
\* and a change that was not read is still signalled.
THEOREM NoEntryIsLeftBehind == EchoSpec => []EntriesAreOwed
<1>1. EchoInv => EntriesAreOwed
    BY Zenon DEF EchoInv
<1> QED
    BY <1>1, EchoInvariant, PTL

=============================================================================
