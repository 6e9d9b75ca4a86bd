---------------------------- MODULE FileTransfers ----------------------------
(***************************************************************************)
(* files.v1 (capabilities/files/src/lib.rs): two transfer managers, the    *)
(* daemon's (which accepts data streams) and a device's (which dials       *)
(* them), with the control session between them, the data stream of each   *)
(* transfer and the reaper of each side.  Both run this crate, as in its   *)
(* tests (Android's own client is not modelled here); the role decides who *)
(* issues the challenge.                                                   *)
(*                                                                         *)
(* A manager's records are behind one mutex, and a step is what happens    *)
(* under one hold of it.  The bytes are left out, and so is what ends a    *)
(* copy early, except that a cancel is told from the rest.                 *)
(***************************************************************************)
EXTENDS Naturals, Sequences, FiniteSets

CONSTANTS
    Transfers,      \* transfer ids, each offered once
    MaxSessions,    \* bound on control sessions
    MaxTrouble,     \* bound on cancels, revocations and lost connections
    Limit,          \* MAX_CONCURRENT_TRANSFERS_PER_PEER
    None

ASSUME TransfersAssumption ==
    /\ MaxSessions \in Nat \ {0}
    /\ MaxTrouble \in Nat
    /\ Limit \in Nat \ {0}
    /\ None \notin Transfers

VARIABLES
    from,       \* which side offers a transfer
    rec,        \* TransferManager::transfers, per side
    part,       \* the receiver's .part files
    final,      \* the files under their final names
    sess, up,   \* the control session, numbered; whether it lives
    ctl,        \* messages on their way to each side
    grant,      \* whether a side grants files.v1 to the other
    revoking,   \* do_unpair or do_grant under way, per side
    offer,      \* offer_file, per transfer
    taking,     \* on_offer between its checks and its insert, per side
    appr,       \* await_approval, per transfer
    spawned,    \* dial_and_run tasks that have not looked at the record yet
    dial,       \* the dial_and_run that took the challenge
    conn,       \* the data stream's connection
    run,        \* run_stream, per side
    clean,      \* what is left to do after a terminal transition, per side
    reap,       \* the transfers reap_once has found to end, per side
    good,       \* whether the received bytes have the offered digest
    trouble     \* cancels, revocations and lost connections so far

sessVars == <<sess, up>>
tasks == <<offer, taking, appr, spawned, dial>>
vars == <<from, rec, part, final, sess, up, ctl, grant, revoking, offer, taking,
          appr, spawned, dial, conn, run, clean, reap, good, trouble>>

Nodes == {"acceptor", "dialer"}
Other(n) == IF n = "acceptor" THEN "dialer" ELSE "acceptor"
Sender(t) == from[t]
Receiver(t) == Other(from[t])

Terminal == {"completed", "failed", "cancelled"}
Active(n, t) == rec[n][t].st \notin Terminal \cup {"none"}
ActiveCount(n) == Cardinality({t \in Transfers : Active(n, t)})

\* A session whose outbound channel is open.
Open(s) == up /\ s = sess

NewRecord(st, s) ==
    [st |-> st, sess |-> s, chal |-> FALSE, temp |-> FALSE,
     active |-> FALSE]

Init ==
    /\ from \in [Transfers -> Nodes]
    /\ rec = [n \in Nodes |-> [t \in Transfers |-> NewRecord("none", 0)]]
    /\ part = [t \in Transfers |-> FALSE]
    /\ final = [t \in Transfers |-> FALSE]
    /\ sess = 1 /\ up = TRUE
    /\ ctl = [n \in Nodes |-> <<>>]
    /\ grant = [n \in Nodes |-> TRUE]
    /\ revoking = [n \in Nodes |-> [at |-> "no", left |-> {}]]
    /\ offer = [t \in Transfers |-> [at |-> "idle", sess |-> 0]]
    /\ taking = [n \in Nodes |-> None]
    /\ appr = [t \in Transfers |-> "none"]
    /\ spawned = [t \in Transfers |-> 0]
    /\ dial = [t \in Transfers |-> "none"]
    /\ conn = [t \in Transfers |-> "none"]
    /\ run = [n \in Nodes |-> [t \in Transfers |-> [at |-> "none", deaf |-> FALSE, res |-> None]]]
    /\ clean = [n \in Nodes |-> [t \in Transfers |-> "no"]]
    /\ reap = [n \in Nodes |-> {}]
    /\ good = [t \in Transfers |-> FALSE]
    /\ trouble = 0

-----------------------------------------------------------------------------
(* The state machine, and the messages.                                    *)

\* can_transition_to.
CanTransition(s, next) ==
    \/ s \in {"offered", "waiting"} /\ next = "transferring"
    \/ s = "transferring" /\ next \in {"verifying", "completed"}
    \/ s = "verifying" /\ next = "completed"
    \/ s \notin Terminal \cup {"none"} /\ next \in {"failed", "cancelled"}

\* transition: refused, or the record moves.  A
\* terminal state signals cancel, drops the challenge and leaves the partial
\* file to clean_up_temp.  tell: the caller is fail, which then tells the peer.
Transition(n, t, next, tell) ==
    IF CanTransition(rec[n][t].st, next)
    THEN /\ rec' = [rec EXCEPT ![n][t].st = next,
                               ![n][t].chal = @ /\ next \notin Terminal]
         /\ clean' = IF next \in Terminal
                     THEN [clean EXCEPT ![n][t] = IF tell THEN "fail" ELSE "end"]
                     ELSE clean
    ELSE UNCHANGED <<rec, clean>>

Cancellations == {"cancelled by user", "declined"}

\* fail.
Fail(n, t, why) ==
    Transition(n, t, IF why \in Cancellations THEN "cancelled" ELSE "failed", TRUE)

\* send_control on session s: closed sessions and, after CONTROL_SEND_TIMEOUT,
\* sessions whose queue is full of anything lose the message.
Send(n, s, kind, t, sent) ==
    /\ sent => Open(s)
    /\ ctl' = IF sent THEN [ctl EXCEPT ![Other(n)] = Append(@, [kind |-> kind, t |-> t])] ELSE ctl

Troubles == trouble < MaxTrouble /\ trouble' = trouble + 1

Says(n, m) == taking[n] = None /\ ctl[n] # <<>> /\ Head(ctl[n]) = m
Pops(n) == ctl' = [ctl EXCEPT ![n] = Tail(@)]

-----------------------------------------------------------------------------
(* offer_file.                                                             *)

\* The grant, the session and the limit are checked; then the file is hashed.
OfferCheck(t) ==
    /\ offer[t].at = "idle"
    /\ grant[Sender(t)]
    /\ up
    /\ ActiveCount(Sender(t)) < Limit
    /\ offer' = [offer EXCEPT ![t] = [at |-> "hash", sess |-> sess]]
    /\ UNCHANGED <<from, rec, part, final, sessVars, ctl, grant, revoking, taking, appr,
                   spawned, dial, conn, run, clean, reap, good, trouble>>

\* The record is inserted, or the file cannot be read.
OfferInsert(t) ==
    /\ offer[t].at = "hash"
    /\ \/ /\ offer' = [offer EXCEPT ![t].at = "send"]
          /\ rec' = [rec EXCEPT ![Sender(t)][t] = NewRecord("offered", offer[t].sess)]
       \/ offer' = [offer EXCEPT ![t] = [at |-> "done", sess |-> 0]] /\ UNCHANGED rec
    /\ UNCHANGED <<from, part, final, sessVars, ctl, grant, revoking, taking, appr,
                   spawned, dial, conn, run, clean, reap, good, trouble>>

OfferSend(t) ==
    /\ offer[t].at = "send"
    /\ offer' = [offer EXCEPT ![t] = [at |-> "done", sess |-> 0]]
    /\ \E sent \in BOOLEAN :
         /\ Send(Sender(t), offer[t].sess, "offer", t, sent)
         /\ IF sent THEN UNCHANGED <<rec, clean>>
            ELSE Transition(Sender(t), t, "failed", FALSE)
    /\ UNCHANGED <<from, part, final, sessVars, grant, revoking, taking, appr,
                   spawned, dial, conn, run, reap, good, trouble>>

-----------------------------------------------------------------------------
(* handle_control.                                                         *)

\* on_offer up to its checks; a refusal is answered.
OnOffer(n, t) ==
    /\ Says(n, [kind |-> "offer", t |-> t])
    /\ IF grant[n] /\ rec[n][t].st = "none" /\ ActiveCount(n) < Limit
       THEN /\ taking' = [taking EXCEPT ![n] = [t |-> t, sess |-> sess]]
            /\ Pops(n)
       ELSE /\ UNCHANGED taking
            /\ \E told \in BOOLEAN :
                 ctl' = [ctl EXCEPT ![n] = Tail(@),
                                    ![Other(n)] = IF told THEN Append(@, [kind |-> "reject", t |-> t]) ELSE @]
    /\ UNCHANGED <<from, rec, part, final, sessVars, grant, revoking, offer, appr,
                   spawned, dial, conn, run, clean, reap, good, trouble>>

\* on_offer inserts the record and spawns await_approval.
OnOfferInsert(n) ==
    /\ taking[n] # None
    /\ LET t == taking[n].t IN
         /\ rec' = [rec EXCEPT ![n][t] = NewRecord("waiting", taking[n].sess)]
         /\ appr' = [appr EXCEPT ![t] = "asking"]
    /\ taking' = [taking EXCEPT ![n] = None]
    /\ UNCHANGED <<from, part, final, sessVars, ctl, grant, revoking, offer,
                   spawned, dial, conn, run, clean, reap, good, trouble>>

\* on_accept.  Its three holds of the lock are one step: between them only the
\* challenge of a record that just ended could differ, and nothing reads that.
\* An acceptor issues the challenge now, with Ready; a dialer dials.
OnAccept(n, t) ==
    /\ Says(n, [kind |-> "accept", t |-> t])
    /\ IF from[t] = n /\ CanTransition(rec[n][t].st, "transferring")
       THEN /\ rec' = [rec EXCEPT ![n][t].st = "transferring",
                                  ![n][t].chal = TRUE]
            /\ spawned' = IF n = "dialer" THEN [spawned EXCEPT ![t] = @ + 1] ELSE spawned
            /\ \E sent \in BOOLEAN :
                 /\ sent => n = "acceptor" /\ Open(rec[n][t].sess)
                 /\ ctl' = [ctl EXCEPT ![n] = Tail(@),
                                       ![Other(n)] = IF sent THEN Append(@, [kind |-> "ready", t |-> t]) ELSE @]
       ELSE Pops(n) /\ UNCHANGED <<rec, spawned>>
    /\ UNCHANGED <<from, part, final, sessVars, grant, revoking, offer, taking, appr,
                   dial, conn, run, clean, reap, good, trouble>>

\* on_ready.
OnReady(n, t) ==
    /\ Says(n, [kind |-> "ready", t |-> t])
    /\ Pops(n)
    /\ IF n = "dialer" /\ from[t] # n /\ Active(n, t)
       THEN /\ rec' = [rec EXCEPT ![n][t].chal = TRUE]
            /\ spawned' = [spawned EXCEPT ![t] = @ + 1]
       ELSE UNCHANGED <<rec, spawned>>
    /\ UNCHANGED <<from, part, final, sessVars, grant, revoking, offer, taking, appr,
                   dial, conn, run, clean, reap, good, trouble>>

\* on_peer_ended: terminal without a reply.
OnPeerEnded(n, t) ==
    /\ \E kind \in {"reject", "cancel", "failed"} :
         /\ Says(n, [kind |-> kind, t |-> t])
         /\ Transition(n, t, IF kind = "failed" THEN "failed" ELSE "cancelled", FALSE)
    /\ Pops(n)
    /\ UNCHANGED <<from, part, final, sessVars, grant, revoking, tasks,
                   conn, run, reap, good, trouble>>

\* on_complete.
OnComplete(n, t) ==
    /\ Says(n, [kind |-> "complete", t |-> t])
    /\ Pops(n)
    /\ IF from[t] = n THEN Transition(n, t, "completed", FALSE)
       ELSE UNCHANGED <<rec, clean>>
    /\ UNCHANGED <<from, part, final, sessVars, grant, revoking, tasks,
                   conn, run, reap, good, trouble>>

-----------------------------------------------------------------------------
(* await_approval.                                                         *)

\* The person answers; on a yes the grant is read again.
Answer(t, yes) ==
    /\ appr[t] = "asking"
    /\ IF yes /\ grant[Receiver(t)]
       THEN appr' = [appr EXCEPT ![t] = "open"] /\ UNCHANGED <<rec, clean>>
       ELSE /\ appr' = [appr EXCEPT ![t] = "done"]
            /\ Fail(Receiver(t), t, IF yes THEN "revoked" ELSE "declined")
    /\ UNCHANGED <<from, part, final, sessVars, ctl, grant, revoking, offer, taking,
                   spawned, dial, conn, run, reap, good, trouble>>

\* open_temp.
OpenTemp(t) ==
    /\ appr[t] = "open"
    /\ \/ /\ part' = [part EXCEPT ![t] = TRUE]
          /\ appr' = [appr EXCEPT ![t] = "record"]
          /\ UNCHANGED <<rec, clean>>
       \/ /\ appr' = [appr EXCEPT ![t] = "done"]
          /\ Fail(Receiver(t), t, "storage")
          /\ UNCHANGED part
    /\ UNCHANGED <<from, final, sessVars, ctl, grant, revoking, offer, taking,
                   spawned, dial, conn, run, reap, good, trouble>>

\* The record learns of the file, and of the challenge an acceptor made.
RecordTemp(t) ==
    /\ appr[t] = "record"
    /\ appr' = [appr EXCEPT ![t] = "agree"]
    /\ rec' = [rec EXCEPT ![Receiver(t)][t].temp = TRUE,
                          ![Receiver(t)][t].chal = Receiver(t) = "acceptor"]
    /\ UNCHANGED <<from, part, final, sessVars, ctl, grant, revoking, offer, taking,
                   spawned, dial, conn, run, clean, reap, good, trouble>>

\* A plausible error: the stale yes leaves its file behind.
AgreeStale(t) ==
    /\ appr[t] = "agree"
    /\ appr' = [appr EXCEPT ![t] = IF CanTransition(rec[Receiver(t)][t].st, "transferring")
                                   THEN "accept" ELSE "done"]
    /\ Transition(Receiver(t), t, "transferring", FALSE)
    /\ UNCHANGED <<from, part, final, sessVars, ctl, grant, revoking, offer, taking,
                   spawned, dial, conn, run, reap, good, trouble>>

\* The transfer starts, unless it ended while the prompt was on screen.
Agree(t) ==
    /\ appr[t] = "agree"
    /\ appr' = [appr EXCEPT ![t] = IF CanTransition(rec[Receiver(t)][t].st, "transferring")
                                   THEN "accept" ELSE "undo"]
    /\ Transition(Receiver(t), t, "transferring", FALSE)
    /\ UNCHANGED <<from, part, final, sessVars, ctl, grant, revoking, offer, taking,
                   spawned, dial, conn, run, reap, good, trouble>>

\* clean_up_temp: the record's path is taken and the file removed.  A removal
\* that comes later is a later step.
CleanUpTemp(n, t) ==
    IF rec[n][t].temp
    THEN rec' = [rec EXCEPT ![n][t].temp = FALSE] /\ part' = [part EXCEPT ![t] = FALSE]
    ELSE UNCHANGED <<rec, part>>

UndoTemp(t) ==
    /\ appr[t] = "undo"
    /\ appr' = [appr EXCEPT ![t] = "done"]
    /\ CleanUpTemp(Receiver(t), t)
    /\ UNCHANGED <<from, final, sessVars, ctl, grant, revoking, offer, taking,
                   spawned, dial, conn, run, clean, reap, good, trouble>>

\* Accept goes out; a dialer then tries to dial, with or without a challenge.
SendAccept(t) ==
    LET n == Receiver(t) IN
    /\ appr[t] = "accept"
    /\ appr' = [appr EXCEPT ![t] = "done"]
    /\ \E sent \in BOOLEAN :
         /\ Send(n, rec[n][t].sess, "accept", t, sent)
         /\ IF sent THEN UNCHANGED <<rec, clean>> ELSE Fail(n, t, "transport")
         /\ spawned' = IF sent /\ n = "dialer" THEN [spawned EXCEPT ![t] = @ + 1] ELSE spawned
    /\ UNCHANGED <<from, part, final, sessVars, grant, revoking, offer, taking,
                   dial, conn, run, reap, good, trouble>>

-----------------------------------------------------------------------------
(* The data stream: dial_and_run on one side, accept_data_stream on the    *)
(* other.                                                                  *)

\* dial_and_run takes the challenge, or finds nothing to do.
DialTake(t) ==
    /\ spawned[t] > 0
    /\ spawned' = [spawned EXCEPT ![t] = @ - 1]
    /\ IF rec["dialer"][t].st = "transferring" /\ rec["dialer"][t].chal
       THEN /\ rec' = [rec EXCEPT !["dialer"][t].chal = FALSE]
            /\ dial' = [dial EXCEPT ![t] = "dial"]
       ELSE UNCHANGED <<rec, dial>>
    /\ UNCHANGED <<from, part, final, sessVars, ctl, grant, revoking, offer, taking, appr,
                   conn, run, clean, reap, good, trouble>>

\* The connection is made and the proof sent, or not.
DialConnect(t) ==
    /\ dial[t] = "dial"
    /\ \/ /\ dial' = [dial EXCEPT ![t] = "await"]
          /\ conn' = [conn EXCEPT ![t] = "auth"]
          /\ UNCHANGED <<rec, clean>>
       \/ /\ dial' = [dial EXCEPT ![t] = "done"]
          /\ Fail("dialer", t, "transport")
          /\ UNCHANGED conn
    /\ UNCHANGED <<from, part, final, sessVars, ctl, grant, revoking, offer, taking, appr,
                   spawned, run, reap, good, trouble>>

Runs(n, t, x) == run' = [run EXCEPT ![n][t] = [at |-> x, deaf |-> FALSE, res |-> None]]

\* accept_data_stream up to check_stream, which uses the challenge up.
CheckStream(t) ==
    LET r == rec["acceptor"][t] IN
    /\ conn[t] = "auth"
    /\ run["acceptor"][t].at = "none"
    /\ IF grant["acceptor"] /\ r.st = "transferring" /\ r.chal
       THEN /\ rec' = [rec EXCEPT !["acceptor"][t].chal = FALSE, !["acceptor"][t].active = TRUE]
            /\ Runs("acceptor", t, "ready")
            /\ UNCHANGED conn
       ELSE /\ conn' = [conn EXCEPT ![t] = "rejected"]
            /\ Runs("acceptor", t, "done")
            /\ UNCHANGED rec
    /\ UNCHANGED <<from, part, final, sessVars, ctl, grant, revoking, tasks, clean, reap, good, trouble>>

\* DataStreamReady is written; a broken stream may still take it.  If it does not
\* the handler returns, and the record goes on saying that a stream is at work.
WriteReady(t) ==
    /\ run["acceptor"][t].at = "ready"
    /\ \/ /\ Runs("acceptor", t, "plan")
          /\ conn' = [conn EXCEPT ![t] = IF @ = "auth" THEN "ready" ELSE @]
       \/ conn[t] = "broken" /\ Runs("acceptor", t, "unready") /\ UNCHANGED conn
    /\ UNCHANGED <<from, rec, part, final, sessVars, ctl, grant, revoking, tasks, clean, reap, good, trouble>>

\* The dialer reads the answer, or the connection is lost before it does.
ReadReady(t) ==
    /\ dial[t] = "await"
    /\ dial' = [dial EXCEPT ![t] = "done"]
    /\ conn' = [conn EXCEPT ![t] = "over"]
    /\ \/ /\ conn[t] = "ready"
          /\ rec' = [rec EXCEPT !["dialer"][t].active = TRUE]
          /\ Runs("dialer", t, "plan")
          /\ UNCHANGED clean
       \/ /\ conn[t] \in {"rejected", "broken"} \/ run["acceptor"][t].at \in {"lost", "done"}
          /\ Fail("dialer", t, "peer")
          /\ UNCHANGED run
    /\ UNCHANGED <<from, part, final, sessVars, ctl, grant, revoking, offer, taking, appr,
                   spawned, reap, good, trouble>>

\* run_stream: the plan is read off the record and the file opened.  A transfer
\* that ended before the plan subscribes to cancel is not heard to be cancelled.
Plan(n, t) ==
    /\ run[n][t].at = "plan"
    /\ \/ /\ n = Receiver(t) => rec[n][t].temp /\ part[t]
          /\ run' = [run EXCEPT ![n][t] = [at |-> "copy", deaf |-> rec[n][t].st \in Terminal, res |-> None]]
          /\ UNCHANGED <<rec, clean>>
       \/ Fail(n, t, "storage") /\ Runs(n, t, "done")
    /\ UNCHANGED <<from, part, final, sessVars, ctl, grant, revoking, tasks, conn, reap, good, trouble>>

\* A copy loop stops early when it hears of a cancel, or because the connection,
\* the file or the idle timeout makes it.
Lost(n, t) ==
    \E res \in {"cancelled by user", "transport"} :
        /\ res = "cancelled by user" => rec[n][t].st \in Terminal /\ ~ run[n][t].deaf
        /\ run' = [run EXCEPT ![n][t] = [at |-> "lost", deaf |-> FALSE, res |-> res]]

\* A plausible error: the sender believes its own write.
SendEndsCompletes(t) ==
    LET n == Sender(t) IN
    /\ run[n][t].at = "copy"
    /\ Runs(n, t, "done")
    /\ Transition(n, t, "completed", FALSE)
    /\ UNCHANGED <<from, part, final, sessVars, ctl, grant, revoking, tasks, conn, reap, good, trouble>>

\* send_exactly is over and run_send has noted it; the verdict's deadline runs.
\* A sender may see its last write succeed though nobody reads it.
SendEnds(t) ==
    LET n == Sender(t) IN
    /\ run[n][t].at = "copy"
    /\ rec' = [rec EXCEPT ![n][t].active = FALSE]
    /\ Runs(n, t, "done") \/ Lost(n, t)
    /\ UNCHANGED <<from, part, final, sessVars, ctl, grant, revoking, tasks, conn, clean, reap, good,
                   trouble>>

\* receive_exactly is over and run_receive has noted it.  It may have every byte
\* before the sender closes its end (an empty file is complete at once), and the
\* sender's file may have changed since it was hashed.
ReceiveEnds(t) ==
    LET n == Receiver(t) IN
    /\ run[n][t].at = "copy"
    /\ rec' = [rec EXCEPT ![n][t].active = FALSE]
    /\ \/ Runs(n, t, "got") /\ \E ok \in BOOLEAN : good' = [good EXCEPT ![t] = ok]
       \/ Lost(n, t) /\ UNCHANGED good
    /\ UNCHANGED <<from, part, final, sessVars, ctl, grant, revoking, tasks, conn, clean, reap, trouble>>

\* The copy's failure is the transfer's.  A sender whose stream broke first gives
\* the peer's own reason PEER_VERDICT_GRACE to arrive.
CopyFails(n, t) ==
    /\ run[n][t].at = "lost"
    /\ Fail(n, t, run[n][t].res)
    /\ Runs(n, t, "done")
    /\ UNCHANGED <<from, part, final, sessVars, ctl, grant, revoking, tasks, conn, reap, good, trouble>>

\* sync_all, and the transition to Verifying.
Sync(t) ==
    LET n == Receiver(t) IN
    /\ run[n][t].at = "got"
    /\ \/ /\ Runs(n, t, IF CanTransition(rec[n][t].st, "verifying") THEN "verify" ELSE "done")
          /\ Transition(n, t, "verifying", FALSE)
       \/ Fail(n, t, "storage") /\ Runs(n, t, "done")
    /\ UNCHANGED <<from, part, final, sessVars, ctl, grant, revoking, tasks, conn, reap, good, trouble>>

\* A plausible error: the file gets its name before its digest is compared.
VerifyAfter(t) ==
    /\ run[Receiver(t)][t].at = "verify"
    /\ Runs(Receiver(t), t, "promote")
    /\ UNCHANGED <<from, rec, part, final, sessVars, ctl, grant, revoking, tasks, conn, clean,
                   reap, good, trouble>>

Verify(t) ==
    LET n == Receiver(t) IN
    /\ run[n][t].at = "verify"
    /\ IF good[t] THEN Runs(n, t, "promote") /\ UNCHANGED <<rec, clean>>
       ELSE Fail(n, t, "integrity") /\ Runs(n, t, "done")
    /\ UNCHANGED <<from, part, final, sessVars, ctl, grant, revoking, tasks, conn, reap, good, trouble>>

\* Destination::promote: the rename is atomic, and fails if the partial file is
\* gone.
Promote(t) ==
    LET n == Receiver(t) IN
    /\ run[n][t].at = "promote"
    /\ \/ /\ part[t]
          /\ part' = [part EXCEPT ![t] = FALSE]
          /\ final' = [final EXCEPT ![t] = TRUE]
          /\ Runs(n, t, "stored")
          /\ UNCHANGED <<rec, clean>>
       \/ Fail(n, t, "storage") /\ Runs(n, t, "done") /\ UNCHANGED <<part, final>>
    /\ UNCHANGED <<from, sessVars, ctl, grant, revoking, tasks, conn, reap, good, trouble>>

\* The record forgets its partial file and the transfer is Completed, unless it
\* ended in the meantime.
Complete(t) ==
    LET n == Receiver(t) IN
    /\ run[n][t].at = "stored"
    /\ IF CanTransition(rec[n][t].st, "completed")
       THEN /\ rec' = [rec EXCEPT ![n][t].temp = FALSE, ![n][t].st = "completed",
                                  ![n][t].chal = FALSE]
            /\ clean' = [clean EXCEPT ![n][t] = "end"]
            /\ Runs(n, t, "tell")
       ELSE /\ rec' = [rec EXCEPT ![n][t].temp = FALSE]
            /\ Runs(n, t, "done")
            /\ UNCHANGED clean
    /\ UNCHANGED <<from, part, final, sessVars, ctl, grant, revoking, tasks, conn, reap, good, trouble>>

TellComplete(t) ==
    LET n == Receiver(t) IN
    /\ run[n][t].at = "tell"
    /\ Runs(n, t, "done")
    /\ \E sent \in BOOLEAN : Send(n, rec[n][t].sess, "complete", t, sent)
    /\ UNCHANGED <<from, rec, part, final, sessVars, grant, revoking, tasks, conn, clean, reap, good, trouble>>

-----------------------------------------------------------------------------
(* Ends: what follows a terminal transition, and who causes one.           *)

\* The end of transition.
Clean(n, t) ==
    /\ clean[n][t] \in {"fail", "end"}
    /\ clean' = [clean EXCEPT ![n][t] = IF @ = "fail" THEN "tell" ELSE "done"]
    /\ CleanUpTemp(n, t)
    /\ UNCHANGED <<from, final, sessVars, ctl, grant, revoking, tasks, conn, run, reap, good, trouble>>

\* The end of fail: FileCancel or FileFailed.
Tell(n, t) ==
    /\ clean[n][t] = "tell"
    /\ clean' = [clean EXCEPT ![n][t] = "done"]
    /\ \E sent \in BOOLEAN :
         Send(n, rec[n][t].sess, IF rec[n][t].st = "cancelled" THEN "cancel" ELSE "failed", t, sent)
    /\ UNCHANGED <<from, rec, part, final, sessVars, grant, revoking, tasks, conn, run, reap, good, trouble>>

\* A person cancels.
Cancel(n, t) ==
    /\ Troubles
    /\ Active(n, t)
    /\ Fail(n, t, "cancelled by user")
    /\ UNCHANGED <<from, part, final, sessVars, ctl, grant, revoking, tasks, conn, run, reap, good>>

\* What reap_once finds under the lock: the transfers of dead sessions ...
Orphaned(n) == {<<t, "transport">> : t \in {u \in Transfers : Active(n, u) /\ ~ Open(rec[n][u].sess)}}

\* ... and those whose deadline (deadline_for) has passed with no stream at work.
\* Any such transfer may be late, or not yet.
Overdue(n) == {<<t, "timed out">> : t \in {u \in Transfers :
                  Active(n, u) /\ Open(rec[n][u].sess) /\ ~ rec[n][u].active}}

\* A plausible error: the reaper looks at deadlines only.
ReapScanDeadlines(n) ==
    /\ reap[n] = {}
    /\ \E late \in SUBSET Overdue(n) : reap' = [reap EXCEPT ![n] = late]
    /\ UNCHANGED <<from, rec, part, final, sessVars, ctl, grant, revoking, tasks, conn, run,
                   clean, good, trouble>>

\* reap_once, first half.
ReapScan(n) ==
    /\ reap[n] = {}
    /\ \E late \in SUBSET Overdue(n) : reap' = [reap EXCEPT ![n] = Orphaned(n) \cup late]
    /\ UNCHANGED <<from, rec, part, final, sessVars, ctl, grant, revoking, tasks, conn, run,
                   clean, good, trouble>>

\* reap_once, second half, one transfer at a time.
ReapFail(n) ==
    \E d \in reap[n] :
        /\ reap' = [reap EXCEPT ![n] = @ \ {d}]
        /\ Fail(n, d[1], d[2])
        /\ UNCHANGED <<from, part, final, sessVars, ctl, grant, revoking, tasks, conn, run, good, trouble>>

\* reap_once asks again whether the peer may do this.
ReapCheck(n, t) ==
    /\ Active(n, t)
    /\ ~ grant[n]
    /\ Fail(n, t, "revoked")
    /\ UNCHANGED <<from, part, final, sessVars, ctl, grant, revoking, tasks, conn, run, reap, good, trouble>>

\* do_unpair and do_grant: the store first ...
Revoke(n) ==
    /\ Troubles
    /\ grant[n]
    /\ grant' = [grant EXCEPT ![n] = FALSE]
    /\ revoking' = [revoking EXCEPT ![n].at = "list"]
    /\ UNCHANGED <<from, rec, part, final, sessVars, ctl, tasks, conn, run, clean, reap, good>>

\* ... then cancel_peer lists what is active ...
CancelPeer(n) ==
    /\ revoking[n].at = "list"
    /\ revoking' = [revoking EXCEPT ![n] = [at |-> "end", left |-> {t \in Transfers : Active(n, t)}]]
    /\ UNCHANGED <<from, rec, part, final, sessVars, ctl, grant, tasks, conn, run, clean, reap,
                   good, trouble>>

\* ... and fails it, one transfer after the other ...
CancelNext(n) ==
    \E t \in revoking[n].left :
        /\ revoking' = [revoking EXCEPT ![n].left = @ \ {t}]
        /\ Fail(n, t, "revoked")
        /\ UNCHANGED <<from, part, final, sessVars, ctl, grant, tasks, conn, run, reap, good, trouble>>

SessionOver == up' = FALSE /\ ctl' = [n \in Nodes |-> <<>>]

\* ... and an unpairing, with the peer told, also ends the session.
RevokeEnds(n) ==
    /\ revoking[n] = [at |-> "end", left |-> {}]
    /\ \A t \in Transfers : clean[n][t] \notin {"fail", "tell"}
    /\ revoking' = [revoking EXCEPT ![n].at = "done"]
    /\ SessionOver
    /\ UNCHANGED <<from, rec, part, final, sess, grant, tasks, conn, run, clean, reap, good, trouble>>

-----------------------------------------------------------------------------
(* The connections.                                                        *)

\* The control session ends, with what is in its queues.
SessionEnds ==
    /\ Troubles
    /\ up
    /\ SessionOver
    /\ UNCHANGED <<from, rec, part, final, sess, grant, revoking, tasks, conn, run, clean, reap, good>>

\* A new session; an old one that is still up is superseded.
SessionStarts ==
    /\ Troubles
    /\ sess < MaxSessions
    /\ sess' = sess + 1
    /\ up' = TRUE
    /\ ctl' = [n \in Nodes |-> <<>>]
    /\ UNCHANGED <<from, rec, part, final, grant, revoking, tasks, conn, run, clean, reap, good>>

\* The network breaks a data stream that is being opened; one that carries bytes
\* may be Lost at any time.
Break(t) ==
    /\ Troubles
    /\ conn[t] \in {"auth", "ready"}
    /\ conn' = [conn EXCEPT ![t] = "broken"]
    /\ UNCHANGED <<from, rec, part, final, sessVars, ctl, grant, revoking, tasks, run, clean, reap, good>>

-----------------------------------------------------------------------------

Handles(n) ==
    \/ OnOfferInsert(n)
    \/ \E t \in Transfers :
         OnOffer(n, t) \/ OnAccept(n, t) \/ OnReady(n, t) \/ OnPeerEnded(n, t) \/ OnComplete(n, t)

Approving(t) == OpenTemp(t) \/ RecordTemp(t) \/ Agree(t) \/ UndoTemp(t) \/ SendAccept(t)

Dialing(t) == DialTake(t) \/ DialConnect(t) \/ ReadReady(t)

Accepting(t) == CheckStream(t) \/ WriteReady(t)

Sending(t) == Plan(Sender(t), t) \/ SendEnds(t) \/ CopyFails(Sender(t), t)

Receiving(t) ==
    \/ Plan(Receiver(t), t) \/ ReceiveEnds(t) \/ CopyFails(Receiver(t), t)
    \/ Sync(t) \/ Verify(t) \/ Promote(t) \/ Complete(t) \/ TellComplete(t)

Ending(n, t) == Clean(n, t) \/ Tell(n, t)

Reaping(n) == ReapScan(n) \/ ReapFail(n)

\* What the runtime, the control session and the clocks do by themselves; the
\* approval prompt's own end is APPROVAL_BACKSTOP.
Work ==
    \/ \E t \in Transfers :
         \/ OfferInsert(t) \/ OfferSend(t) \/ Approving(t) \/ Answer(t, FALSE)
         \/ Dialing(t) \/ Accepting(t) \/ Sending(t) \/ Receiving(t)
    \/ \E n \in Nodes :
         \/ Handles(n) \/ Reaping(n) \/ CancelPeer(n) \/ CancelNext(n)
         \/ \E t \in Transfers : Ending(n, t) \/ ReapCheck(n, t)

\* What people and networks may do.
Environment ==
    \/ \E t \in Transfers : OfferCheck(t) \/ Answer(t, TRUE) \/ Break(t)
    \/ \E n \in Nodes :
         \/ Revoke(n) \/ RevokeEnds(n)
         \/ \E t \in Transfers : Cancel(n, t)
    \/ SessionEnds
    \/ SessionStarts

Next == Work \/ Environment

Spec == Init /\ [][Next]_vars

\* Something that can go on goes on.  This is less than the runtime gives (it
\* neglects no task), and enough, because no task works for ever.
FairSpec == Spec /\ WF_vars(Work)

-----------------------------------------------------------------------------
(* Properties.                                                             *)

Record ==
    [st : {"none", "offered", "waiting", "transferring", "verifying"} \cup Terminal,
     sess : Nat, chal : BOOLEAN, temp : BOOLEAN, active : BOOLEAN]
Message ==
    [kind : {"offer", "accept", "ready", "reject", "cancel", "failed", "complete"}, t : Transfers]
Stream ==
    [at : {"none", "ready", "unready", "plan", "copy", "lost", "got", "verify", "promote",
           "stored", "tell", "done"},
     deaf : BOOLEAN, res : Cancellations \cup {"transport", None}]

\* The variables keep their types.
TypeOK ==
    /\ from \in [Transfers -> Nodes]
    /\ rec \in [Nodes -> [Transfers -> Record]]
    /\ part \in [Transfers -> BOOLEAN] /\ final \in [Transfers -> BOOLEAN]
    /\ good \in [Transfers -> BOOLEAN]
    /\ sess \in Nat /\ up \in BOOLEAN /\ trouble \in Nat
    /\ ctl \in [Nodes -> Seq(Message)]
    /\ grant \in [Nodes -> BOOLEAN]
    /\ revoking \in [Nodes -> [at : {"no", "list", "end", "done"}, left : SUBSET Transfers]]
    /\ offer \in [Transfers -> [at : {"idle", "hash", "send", "done"}, sess : Nat]]
    /\ taking \in [Nodes -> [t : Transfers, sess : Nat] \cup {None}]
    /\ appr \in [Transfers -> {"none", "asking", "open", "record", "agree", "undo", "accept", "done"}]
    /\ spawned \in [Transfers -> Nat]
    /\ dial \in [Transfers -> {"none", "dial", "await", "done"}]
    /\ conn \in [Transfers -> {"none", "auth", "rejected", "ready", "broken", "over"}]
    /\ run \in [Nodes -> [Transfers -> Stream]]
    /\ clean \in [Nodes -> [Transfers -> {"no", "fail", "end", "tell", "done"}]]
    /\ reap \in [Nodes -> SUBSET (Transfers \X {"transport", "timed out"})]

Promised(t) ==
    INSTANCE TransferPromise WITH
        snd <- rec[Sender(t)][t].st, rcv <- rec[Receiver(t)][t].st, stored <- final[t]

\* Each transfer keeps the promise of FILES.md, whatever is lost, cancelled or
\* revoked: in particular a sender shows Completed only for a file that the
\* receiver has verified, stored and shown as Completed.
PromiseKept ==
    /\ \A t \in Transfers : Promised(t)!Init
    /\ [][\A t \in Transfers : Promised(t)!Next \/ UNCHANGED Promised(t)!vars]_vars

\* run_receive: only a file with the offered digest gets its final name.
OnlyVerifiedIsStored == \A t \in Transfers : final[t] => good[t]

\* clean_up_temp: a transfer that is over, with no task of its left, has no
\* partial file, however its end raced with the approval or the stream.
PartialIsRemoved ==
    \A t \in Transfers :
        /\ rec[Receiver(t)][t].st \in Terminal
        /\ clean[Receiver(t)][t] \in {"tell", "done"}
        /\ appr[t] \in {"none", "done"}
        /\ run[Receiver(t)][t].at \in {"none", "done", "tell"}
        => ~ part[t]

\* A transfer whose DataStreamReady could not be written, for as long as the peer
\* keeps its session and its grant: nothing bounds that one.
Forgotten(n, t) == run[n][t].at = "unready" /\ grant[n] /\ up

\* The reaper: every transfer is over in the end, on both sides, whoever went
\* away and whatever was lost, except a forgotten one.
EveryTransferEnds ==
    <>[](\A n \in Nodes, t \in Transfers : Active(n, t) => Forgotten(n, t))

-----------------------------------------------------------------------------
(* The inductive invariant behind PromiseKept, OnlyVerifiedIsStored and     *)
(* PartialIsRemoved.                                                       *)

\* A record has only the states of its direction, and the sender's exists once
\* offer_file has inserted it.
Directed(t) ==
    /\ rec[Sender(t)][t].st \in {"none", "offered", "transferring"} \cup Terminal
    /\ rec[Receiver(t)][t].st \in {"none", "waiting", "transferring", "verifying"} \cup Terminal
    /\ offer[t].at \in {"idle", "hash"} => rec[Sender(t)][t].st = "none"
    /\ offer[t].at = "send" => rec[Sender(t)][t].st # "none"

\* How far await_approval has come says how far the receiver's record has.
ApprovalFollows(t) ==
    /\ rec[Receiver(t)][t].st = "none" => appr[t] = "none"
    /\ appr[t] = "accept" => rec[Receiver(t)][t].st \notin {"none", "waiting"}

\* So does run_receive, which also owns the final name: no copy is made once
\* the file has it.
ReceivingFollows(t) ==
    LET at == run[Receiver(t)][t].at
        st == rec[Receiver(t)][t].st
    IN  /\ at \in {"verify", "promote", "stored"} => st \in {"verifying", "failed", "cancelled"}
        /\ at \in {"copy", "got", "verify", "promote"} => ~ final[t]
        /\ at = "promote" => good[t]
        /\ at = "stored" => final[t]
        /\ at = "tell" => st = "completed"
        /\ st = "completed" => final[t]
        /\ final[t] => good[t]

\* A partial file is known to the record, except while await_approval is about
\* to enter it; and what clean_up_temp came too early for is await_approval's
\* to undo.
PartialFollows(t) ==
    LET n == Receiver(t)
    IN  /\ part[t] \/ final[t] => appr[t] \notin {"none", "asking", "open"}
        /\ part[t] => ~ final[t]
        /\ part[t] => rec[n][t].temp \/ appr[t] = "record"
        /\ part[t] /\ clean[n][t] \in {"tell", "done"} => appr[t] \in {"record", "agree", "undo"}
        /\ clean[n][t] # "no" => rec[n][t].st \in Terminal

\* What a message says of its transfer is still true when it arrives.
MessageHolds(n, m) ==
    /\ m.kind = "offer" => n = Receiver(m.t) /\ rec[Sender(m.t)][m.t].st # "none"
    /\ m.kind = "accept" => rec[Receiver(m.t)][m.t].st \notin {"none", "waiting"}
    /\ m.kind = "complete" => rec[Receiver(m.t)][m.t].st = "completed"

\* And so does on_offer between its checks and its insert.
TakingHolds(n) ==
    taking[n] # None =>
        LET t == taking[n].t
        IN  /\ n = Receiver(t)
            /\ rec[Sender(t)][t].st # "none"
            /\ rec[n][t].st = "none"

TransferHolds(t) ==
    Directed(t) /\ ApprovalFollows(t) /\ ReceivingFollows(t) /\ PartialFollows(t)

TransfersInv ==
    /\ TypeOK
    /\ \A t \in Transfers : TransferHolds(t)
    /\ \A n \in Nodes : \A i \in 1 .. Len(ctl[n]) : MessageHolds(n, ctl[n][i])
    /\ \A n \in Nodes : TakingHolds(n)

=============================================================================
