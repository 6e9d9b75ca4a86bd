------------------------------ MODULE Pairing ------------------------------
(***************************************************************************)
(* Pairing on the daemon: the window (core/src/pairing.rs, held by         *)
(* runtime/src/state.rs), the control connections that open it and prompt  *)
(* a person (run_pair_session in runtime/src/server.rs), and the           *)
(* handshakes of unknown devices (accept_handshake and accept_pairing in   *)
(* core/src/session.rs).                                                   *)
(*                                                                         *)
(* The window and the confirmation channel are behind two mutexes, taken   *)
(* one after the other, so a step is what happens under one of them.  A    *)
(* window's token is named after the control connection that opened it.    *)
(***************************************************************************)
EXTENDS Naturals, Sequences

CONSTANTS
    Operators,      \* control connections that ask for pairing, once each
    Handshakes,     \* connections of devices that are not trusted, once each
    MaxFailed,      \* MAX_FAILED_ATTEMPTS
    None

ASSUME PairingAssumption ==
    /\ MaxFailed \in Nat \ {0}
    /\ None \notin Operators \cup Handshakes \cup [owner : Operators, failed : 0 .. MaxFailed]

VARIABLES
    window,     \* DaemonState::pairing
    confirmTx,  \* DaemonState::confirm_tx: whose channel it feeds
    chan,       \* each operator's confirmation channel, capacity 1
    op,         \* run_pair_session, per control connection
    hs,         \* accept_handshake and accept_pairing, per connection
    expired,    \* the windows whose ttl has passed
    latest,     \* history: the operator that opened a window last
    spent,      \* history: windows used up by a proof or by failed ones
    wrong,      \* history: proofs that failed against a window
    proved,     \* history: the token a handshake proved
    yes         \* history: the operator that accepted a handshake

opVars == <<window, confirmTx, chan, op>>
history == <<latest, spent, wrong, proved, yes>>
vars == <<window, confirmTx, chan, op, hs, expired, latest, spent, wrong, proved, yes>>

Window(o) == [owner |-> o, failed |-> 0]

At(o, x) == [op EXCEPT ![o].at = x]

HandshakeStates ==
    {"hello", "operator", "nonce", "verified", "sending", "waiting",
     "confirmed", "stored", "failed"}

OperatorStates ==
    {"idle", "begun", "opened", "loop", "prompted", "ending", "detaching",
     "finishing", "returned"}

Init ==
    /\ window = None
    /\ confirmTx = None
    /\ chan = [o \in Operators |-> <<>>]
    /\ op = [o \in Operators |-> [at |-> "idle", asks |-> None]]
    /\ hs = [h \in Handshakes |-> [at |-> "hello", tx |-> None]]
    /\ expired = {}
    /\ latest = None
    /\ spent = {}
    /\ wrong = [o \in Operators |-> 0]
    /\ proved = [h \in Handshakes |-> None]
    /\ yes = [h \in Handshakes |-> None]

-----------------------------------------------------------------------------
(* A device's handshake.                                                   *)

Moves(h, x) == hs' = [hs EXCEPT ![h].at = x]

\* PairingSession::is_exhausted, for a window that is still there.
Exhausted == window.owner \in expired

\* pairing_mode_active, first lock: is an operator attached?
SeesOperator(h) ==
    /\ hs[h].at = "hello"
    /\ Moves(h, IF confirmTx = None THEN "failed" ELSE "operator")
    /\ UNCHANGED <<opVars, expired, history>>

\* pairing_mode_active, second lock: is the window usable?  If so the device is
\* sent a nonce and PAIRING_REQUIRED.
SeesWindow(h) ==
    /\ hs[h].at = "operator"
    /\ Moves(h, IF window = None \/ Exhausted THEN "failed" ELSE "nonce")
    /\ UNCHANGED <<opVars, expired, history>>

\* A plausible error: a device that gives up takes the window with it.
AbandonsWindow(h) ==
    /\ hs[h].at = "nonce"
    /\ Moves(h, "failed")
    /\ window' = None
    /\ UNCHANGED <<confirmTx, chan, op, expired, history>>

\* The device hangs up or says something else, or HANDSHAKE_TIMEOUT passes.
Abandons(h) ==
    /\ hs[h].at = "nonce"
    /\ Moves(h, "failed")
    /\ UNCHANGED <<opVars, expired, history>>

\* The codes on display so far.
Shown == {o \in Operators : op[o].at \notin {"idle", "begun", "opened"}}

\* A plausible error: a proof does not use the token up.
VerifyKeepsToken(h, token) ==
    /\ hs[h].at = "nonce"
    /\ IF window = None \/ Exhausted \/ token # window.owner
       THEN Moves(h, "failed") /\ UNCHANGED proved
       ELSE Moves(h, "verified") /\ proved' = [proved EXCEPT ![h] = token]
    /\ UNCHANGED <<opVars, expired, latest, spent, wrong, yes>>

\* verify_pairing_proof, with verify_and_consume under the window's lock, on the
\* PAIR_REQUEST of a device that read some code on display (or none).  A window
\* that can no longer be used is dropped at once.
Verify(h, token) ==
    /\ hs[h].at = "nonce"
    /\ CASE window = None ->
              Moves(h, "failed") /\ UNCHANGED <<window, spent, wrong, proved>>
         [] window # None /\ Exhausted ->
              /\ Moves(h, "failed")
              /\ window' = None
              /\ UNCHANGED <<spent, wrong, proved>>
         [] window # None /\ ~ Exhausted /\ token # window.owner ->
              /\ Moves(h, "failed")
              /\ wrong' = [wrong EXCEPT ![window.owner] = @ + 1]
              /\ IF window.failed + 1 >= MaxFailed
                 THEN window' = None /\ spent' = spent \cup {window.owner}
                 ELSE window' = [window EXCEPT !.failed = @ + 1] /\ UNCHANGED spent
              /\ UNCHANGED proved
         [] OTHER ->
              /\ Moves(h, "verified")
              /\ proved' = [proved EXCEPT ![h] = token]
              /\ spent' = spent \cup {window.owner}
              /\ window' = None
              /\ UNCHANGED wrong
    /\ UNCHANGED <<confirmTx, chan, op, expired, latest, yes>>

\* confirm_pairing: the channel is cloned under its lock.
ReadTx(h) ==
    /\ hs[h].at = "verified"
    /\ hs' = [hs EXCEPT ![h] = [at |-> IF confirmTx = None THEN "failed" ELSE "sending",
                                tx |-> confirmTx]]
    /\ UNCHANGED <<opVars, expired, history>>

\* tx.send: waits for room, and fails once run_pair_session has returned.
SendRequest(h) ==
    LET o == hs[h].tx IN
    /\ hs[h].at = "sending"
    /\ IF op[o].at = "returned"
       THEN Moves(h, "failed") /\ UNCHANGED chan
       ELSE /\ Len(chan[o]) < 1
            /\ chan' = [chan EXCEPT ![o] = Append(@, h)]
            /\ Moves(h, "waiting")
    /\ UNCHANGED <<window, confirmTx, op, expired, history>>

\* A plausible error: no bound on the person's answer.
NeverTimesOut(h) == FALSE /\ UNCHANGED vars

\* PAIRING_CONFIRM_TIMEOUT.  The request stays where it is; its reply has no
\* receiver any more.
ConfirmTimeout(h) ==
    /\ hs[h].at \in {"verified", "sending", "waiting"}
    /\ Moves(h, "failed")
    /\ UNCHANGED <<opVars, expired, history>>

\* store_peer, which can fail, and the PAIR_RESPONSE.
StorePeer(h) ==
    /\ hs[h].at = "confirmed"
    /\ Moves(h, "stored") \/ Moves(h, "failed")
    /\ UNCHANGED <<opVars, expired, history>>

-----------------------------------------------------------------------------
(* run_pair_session.                                                       *)

\* begin_pairing, first lock: a new window, whatever was there.
BeginWindow(o) ==
    /\ op[o].at = "idle"
    /\ op' = At(o, "begun")
    /\ window' = Window(o)
    /\ latest' = o
    /\ UNCHANGED <<confirmTx, chan, hs, expired, spent, wrong, proved, yes>>

\* begin_pairing, second lock.
BeginChannel(o) ==
    /\ op[o].at = "begun"
    /\ op' = At(o, "opened")
    /\ confirmTx' = o
    /\ UNCHANGED <<window, chan, hs, expired, history>>

\* Handshakes whose question is dropped with a channel read as declined.
Dropped(o) == {h \in Handshakes : hs[h].at = "waiting" /\ (\E i \in DOMAIN chan[o] : chan[o][i] = h)}

\* The function returns: the receiver and what is queued in it are dropped, and
\* so is the reply of a question that was taken out but not answered.
Returns(o, holding) ==
    /\ op' = At(o, "returned")
    /\ chan' = [chan EXCEPT ![o] = <<>>]
    /\ hs' = [h \in Handshakes |->
                 IF h \in Dropped(o) \/ (h \in holding /\ hs[h].at = "waiting")
                 THEN [hs[h] EXCEPT !.at = "failed"] ELSE hs[h]]

\* PairingReady is sent.  A failed send returns from the function right there.
SendReady(o) ==
    /\ op[o].at = "opened"
    /\ \/ op' = At(o, "loop") /\ UNCHANGED <<chan, hs>>
       \/ Returns(o, {})
    /\ UNCHANGED <<window, confirmTx, expired, history>>

\* The loop ends; the status it reports (expired, cancelled, paired or declined)
\* is left out.
Breaks(o, h) ==
    op' = [op EXCEPT ![o] = [at |-> "ending", asks |-> h]]

\* Time passes for o's window.
Expire(o) ==
    /\ op[o].at \notin {"idle", "returned"}
    /\ o \notin expired
    /\ expired' = expired \cup {o}
    /\ UNCHANGED <<opVars, hs, history>>

\* The deadline, taken when PairingReady was out, is no earlier than the
\* window's own.
Deadline(o) ==
    /\ op[o].at = "loop"
    /\ o \in expired
    /\ Breaks(o, None)
    /\ UNCHANGED <<window, confirmTx, chan, hs, expired, history>>

\* The person at this control connection goes away.
HangUp(o) ==
    /\ op[o].at = "loop"
    /\ Breaks(o, None)
    /\ UNCHANGED <<window, confirmTx, chan, hs, expired, history>>

\* confirm_rx.recv, and the ConfirmRequest that is sent; a failed send returns.
Prompt(o) ==
    /\ op[o].at = "loop"
    /\ chan[o] # <<>>
    /\ LET h == Head(chan[o]) IN
         \/ /\ op' = [op EXCEPT ![o] = [at |-> "prompted", asks |-> h]]
            /\ chan' = [chan EXCEPT ![o] = Tail(@)]
            /\ UNCHANGED hs
         \/ Returns(o, {h})
    /\ UNCHANGED <<window, confirmTx, expired, history>>

\* A plausible error: the answer goes to whoever is waiting.
AnswerAnyone(o, accept) ==
    /\ op[o].at = "prompted"
    /\ Breaks(o, op[o].asks)
    /\ hs' = [h \in Handshakes |->
                 IF hs[h].at = "waiting"
                 THEN [hs[h] EXCEPT !.at = IF accept THEN "confirmed" ELSE "failed"]
                 ELSE hs[h]]
    /\ yes' = IF accept THEN [yes EXCEPT ![op[o].asks] = o] ELSE yes
    /\ UNCHANGED <<window, confirmTx, chan, expired, latest, spent, wrong, proved>>

\* The person's line, or its end, answers the prompt; nothing bounds the wait.
\* The reply reaches the handshake if that one is still waiting.
Answer(o, accept) ==
    LET h == op[o].asks IN
    /\ op[o].at = "prompted"
    /\ Breaks(o, h)
    /\ IF hs[h].at = "waiting"
       THEN Moves(h, IF accept THEN "confirmed" ELSE "failed")
       ELSE UNCHANGED hs
    /\ yes' = IF accept THEN [yes EXCEPT ![h] = o] ELSE yes
    /\ UNCHANGED <<window, confirmTx, chan, expired, latest, spent, wrong, proved>>

\* end_pairing, first lock: the window goes, whoever opened it.
EndWindow(o) ==
    /\ op[o].at = "ending"
    /\ op' = At(o, "detaching")
    /\ window' = None
    /\ UNCHANGED <<confirmTx, chan, hs, expired, history>>

\* end_pairing, second lock.
EndChannel(o) ==
    /\ op[o].at = "detaching"
    /\ op' = At(o, "finishing")
    /\ confirmTx' = None
    /\ UNCHANGED <<window, chan, hs, expired, history>>

\* Finished is sent and the function returns.
Finish(o) ==
    /\ op[o].at = "finishing"
    /\ Returns(o, {})
    /\ UNCHANGED <<window, confirmTx, expired, history>>

-----------------------------------------------------------------------------

Device(h) ==
    \/ SeesOperator(h) \/ SeesWindow(h) \/ Abandons(h)
    \/ \E token \in Shown \cup {None} : Verify(h, token)
    \/ ReadTx(h) \/ SendRequest(h) \/ ConfirmTimeout(h) \/ StorePeer(h)

Operator(o) ==
    \/ BeginWindow(o) \/ BeginChannel(o) \/ SendReady(o)
    \/ Expire(o) \/ Deadline(o) \/ HangUp(o) \/ Prompt(o)
    \/ \E accept \in BOOLEAN : Answer(o, accept)
    \/ EndWindow(o) \/ EndChannel(o) \/ Finish(o)

Next == (\E h \in Handshakes : Device(h)) \/ (\E o \in Operators : Operator(o))

Spec == Init /\ [][Next]_vars

\* The runtime polls every handshake, and a tokio timer fires.  Nothing is
\* assumed of the person: prompts may stay unanswered.
FairSpec ==
    /\ Spec
    /\ \A h \in Handshakes :
         /\ WF_vars(ReadTx(h))
         /\ WF_vars(ConfirmTimeout(h))
         /\ WF_vars(StorePeer(h))

-----------------------------------------------------------------------------
(* Properties.                                                             *)

\* The variables keep their types.
TypeOK ==
    /\ window = None \/ window \in [owner : Operators, failed : 0 .. MaxFailed - 1]
    /\ confirmTx \in Operators \cup {None}
    /\ \A o \in Operators :
         /\ op[o].at \in OperatorStates
         /\ op[o].asks \in Handshakes \cup {None}
         /\ Len(chan[o]) <= 1
    /\ \A h \in Handshakes :
         hs[h].at \in HandshakeStates /\ hs[h].tx \in Operators \cup {None}

\* accept_pairing: a device is stored only if it proved the token of a window
\* and a person who was shown this very device said yes.
StoredByConsent ==
    \A h \in Handshakes :
        hs[h].at \in {"confirmed", "stored"} =>
            /\ proved[h] # None
            /\ yes[h] # None

\* verify_and_consume: the code is single-use, whatever handshakes race for it.
TokenIsSingleUse ==
    \A h1, h2 \in Handshakes :
        proved[h1] # None /\ proved[h1] = proved[h2] => h1 = h2

\* MAX_FAILED_ATTEMPTS bounds the wrong proofs against one window over all the
\* connections that try, and a window that is used up never opens again.
GuessesAreBounded ==
    /\ \A o \in Operators : wrong[o] <= MaxFailed
    /\ window # None => window.owner \notin spent

\* A device that proved the token gets an answer even if the person never does.
ProofIsAnswered ==
    \A h \in Handshakes : hs[h].at = "verified" ~> hs[h].at \in {"stored", "failed"}

\* The code shown last works until it is used up or expires: neither devices
\* that try and fail nor the other person's answers close its window.  Excused:
\* end_pairing clears whatever window is there, so the end of an earlier
\* connection, whose own window was replaced, closes this one.
ShownCodeWorks ==
    \A o \in Operators :
        (/\ op[o].at \in {"opened", "loop", "prompted"} /\ latest = o
         /\ o \notin spent \cup expired
         /\ \A x \in Operators : op[x].at \notin {"detaching", "finishing", "returned"})
            => window # None /\ window.owner = o

(***************************************************************************)
(* The inductive invariant of PairingProofs.                               *)
(***************************************************************************)

PairingTypes ==
    /\ window = None \/ window \in [owner : Operators, failed : 0 .. MaxFailed - 1]
    /\ confirmTx \in Operators \cup {None}
    /\ chan \in [Operators -> Seq(Handshakes)] /\ \A o \in Operators : Len(chan[o]) <= 1
    /\ op \in [Operators -> [at : OperatorStates, asks : Handshakes \cup {None}]]
    /\ \A o \in Operators : op[o].at = "prompted" => op[o].asks \in Handshakes
    /\ hs \in [Handshakes -> [at : HandshakeStates, tx : Operators \cup {None}]]
    /\ expired \subseteq Operators /\ spent \subseteq Operators
    /\ wrong \in [Operators -> Nat]
    /\ proved \in [Handshakes -> Operators \cup {None}]
    /\ yes \in [Handshakes -> Operators \cup {None}]

\* What a handshake has behind it by the time it is at each state.
ConsentSoFar ==
    \A h \in Handshakes :
        /\ hs[h].at \in {"verified", "sending", "waiting", "confirmed", "stored"} => proved[h] # None
        /\ hs[h].at \in {"confirmed", "stored"} => yes[h] # None

\* A window that is open is of a connection that has begun, is not used up, and
\* counts the wrong proofs against it; a proved token is used up.
WindowsAreFresh ==
    /\ \A o \in Operators : op[o].at = "idle" => o \notin spent /\ wrong[o] = 0
    /\ window # None => /\ op[window.owner].at # "idle"
                        /\ window.owner \notin spent
                        /\ wrong[window.owner] = window.failed
    /\ \A o \in Operators : wrong[o] <= MaxFailed
    /\ \A h \in Handshakes : proved[h] # None => proved[h] \in spent

\* ShownCodeWorks from the moment its window opens.
LatestIsOpen ==
    \A o \in Operators :
        (/\ op[o].at \in {"begun", "opened", "loop", "prompted"} /\ latest = o
         /\ o \notin spent \cup expired
         /\ \A x \in Operators : op[x].at \notin {"detaching", "finishing", "returned"})
            => window # None /\ window.owner = o

PairingInv ==
    PairingTypes /\ ConsentSoFar /\ WindowsAreFresh /\ TokenIsSingleUse /\ LatestIsOpen

=============================================================================
