---------------------------- MODULE FileApproval ----------------------------
(***************************************************************************)
(* Asking a person about an incoming file: the rendezvous of               *)
(* runtime/src/approval.rs between files.v1 (confirm_receive) and the      *)
(* control connections that can ask (run_file_approval_session in          *)
(* runtime/src/server.rs).                                                 *)
(*                                                                         *)
(* The rendezvous is behind one mutex that is never held across an await,  *)
(* so each of its operations is one step.  A provider connects once here,  *)
(* and its name stands for its epoch.                                      *)
(***************************************************************************)
EXTENDS Naturals, Sequences

CONSTANTS
    Transfers,      \* incoming offers, asked about once each
    Providers,      \* control connections that attach, once each
    QueueCap,       \* PROVIDER_QUEUE
    None

ASSUME ApprovalAssumption ==
    /\ QueueCap \in Nat \ {0}
    /\ None \notin Providers \cup Transfers \cup [said : Providers, attached : Providers]

VARIABLES
    unattended, \* --accept-files-without-asking, set once at startup
    provider,   \* Inner::provider: whose queue it feeds
    epoch,      \* Inner::epoch: the provider attached last
    pending,    \* Inner::pending, the transfers with a reply sender
    queue,      \* the offers queued towards each provider
    sess,       \* run_file_approval_session, per provider
    held,       \* the offer a session took out of its queue
    open,       \* the prompts a session has on screen
    unread,     \* settled transfers a session has not read the event of
    ask,        \* confirm_receive, per transfer, and its result
    over,       \* transfers in a terminal state
    by,         \* history: who said yes, and who was attached then
    lagged      \* history: sessions that missed transfer events

vars == <<unattended, provider, epoch, pending, queue, sess, held, open, unread,
          ask, over, by, lagged>>

Init ==
    /\ unattended \in BOOLEAN
    /\ provider = None
    /\ epoch = None
    /\ pending = {}
    /\ queue = [o \in Providers |-> <<>>]
    /\ sess = [o \in Providers |-> "idle"]
    /\ held = [o \in Providers |-> None]
    /\ open = [o \in Providers |-> {}]
    /\ unread = [o \in Providers |-> {}]
    /\ ask = [t \in Transfers |-> "new"]
    /\ over = {}
    /\ by = [t \in Transfers |-> None]
    /\ lagged = {}

\* Dropping the reply sender of these transfers is a decline.
Declined(ts) == [t \in Transfers |-> IF t \in ts /\ ask[t] = "asking" THEN "no" ELSE ask[t]]

\* The sessions that have subscribed to the transfer events.
Subscribed == {o \in Providers : sess[o] \notin {"idle", "returned"}}

-----------------------------------------------------------------------------
(* files.v1.                                                               *)

\* confirm_receive up to its await: queue and record under one lock.
ConfirmReceive(t) ==
    /\ ask[t] = "new"
    /\ t \notin over
    /\ \/ unattended /\ ask' = [ask EXCEPT ![t] = "yes"] /\ UNCHANGED <<queue, pending>>
       \/ /\ ~ unattended
          /\ IF provider = None \/ sess[provider] = "returned" \/ Len(queue[provider]) = QueueCap
             THEN ask' = [ask EXCEPT ![t] = "no"] /\ UNCHANGED <<queue, pending>>
             ELSE /\ ask' = [ask EXCEPT ![t] = "asking"]
                  /\ queue' = [queue EXCEPT ![provider] = Append(@, t)]
                  /\ pending' = pending \cup {t}
    /\ UNCHANGED <<unattended, lagged, provider, epoch, sess, held, open,
                   unread, over, by>>

\* A plausible error: nothing bounds the wait for the person.
NeverTimesOut(t) ==
    /\ FALSE
    /\ UNCHANGED vars

\* The accept timeout drops the future, and the guard withdraws the question.
AcceptTimeout(t) ==
    /\ ask[t] = "asking"
    /\ ask' = [ask EXCEPT ![t] = "no"]
    /\ pending' = pending \ {t}
    /\ UNCHANGED <<unattended, lagged, provider, epoch, queue, sess, held,
                   open, unread, over, by>>

\* A transfer ends: declined or timed out, cancelled, its peer gone, reaped.
\* Every subscriber has an event to read.
TransferEnds(t) ==
    /\ t \notin over
    /\ over' = over \cup {t}
    /\ unread' = [o \in Providers |-> IF o \in Subscribed THEN unread[o] \cup {t} ELSE unread[o]]
    /\ UNCHANGED <<unattended, lagged, provider, epoch, pending, queue, sess,
                   held, open, ask, by>>

-----------------------------------------------------------------------------
(* run_file_approval_session.                                              *)

\* A plausible error: the questions of the displaced provider are kept.
AttachKeepsQuestions(o) ==
    /\ sess[o] = "idle"
    /\ sess' = [sess EXCEPT ![o] = "attached"]
    /\ provider' = o
    /\ epoch' = o
    /\ UNCHANGED <<unattended, lagged, pending, queue, held, open, unread,
                   ask, over, by>>

\* subscribe, then attach: the previous provider is replaced and what it was
\* being asked is declined.
Attach(o) ==
    /\ sess[o] = "idle"
    /\ sess' = [sess EXCEPT ![o] = "attached"]
    /\ provider' = o
    /\ epoch' = o
    /\ pending' = {}
    /\ ask' = Declined(pending)
    /\ UNCHANGED <<unattended, lagged, queue, held, open, unread, over, by>>

\* The function returns.  The receiver is dropped; the rendezvous is not told.
Returns(o) ==
    /\ sess' = [sess EXCEPT ![o] = "returned"]
    /\ queue' = [queue EXCEPT ![o] = <<>>]
    /\ held' = [held EXCEPT ![o] = None]
    /\ open' = [open EXCEPT ![o] = {}]
    /\ unread' = [unread EXCEPT ![o] = {}]

\* FileApprovalReady is sent; a failed send returns from the function.
SendReady(o) ==
    /\ sess[o] = "attached"
    /\ \/ sess' = [sess EXCEPT ![o] = "loop"] /\ UNCHANGED <<queue, held, open, unread>>
       \/ Returns(o)
    /\ UNCHANGED <<unattended, lagged, provider, epoch, pending, ask, over,
                   by>>

\* offers.recv; an empty queue whose sender is gone ends the loop ("replaced").
Receive(o) ==
    /\ sess[o] = "loop"
    /\ \/ /\ queue[o] # <<>>
          /\ held' = [held EXCEPT ![o] = Head(queue[o])]
          /\ queue' = [queue EXCEPT ![o] = Tail(@)]
          /\ sess' = [sess EXCEPT ![o] = "received"]
       \/ /\ queue[o] = <<>>
          /\ provider # o
          /\ sess' = [sess EXCEPT ![o] = "ending"]
          /\ UNCHANGED <<held, queue>>
    /\ UNCHANGED <<unattended, lagged, provider, epoch, pending, open, unread,
                   ask, over, by>>

\* A plausible error: the offer is put on screen without asking whether it is
\* still alive.
ShowUnchecked(o) ==
    /\ sess[o] = "received"
    /\ sess' = [sess EXCEPT ![o] = "showing"]
    /\ UNCHANGED <<unattended, lagged, provider, epoch, pending, queue, held,
                   open, unread, ask, over, by>>

\* snapshot_one: a transfer that ended meanwhile is withdrawn, not shown.
CheckLive(o) ==
    /\ sess[o] = "received"
    /\ IF held[o] \in over
       THEN /\ sess' = [sess EXCEPT ![o] = "loop"]
            /\ held' = [held EXCEPT ![o] = None]
            /\ pending' = pending \ {held[o]}
            /\ ask' = Declined({held[o]} \cap pending)
       ELSE sess' = [sess EXCEPT ![o] = "showing"] /\ UNCHANGED <<held, pending, ask>>
    /\ UNCHANGED <<unattended, lagged, provider, epoch, queue, open, unread,
                   over, by>>

\* The prompt goes out; a failed send returns from the function.
Show(o) ==
    /\ sess[o] = "showing"
    /\ \/ /\ sess' = [sess EXCEPT ![o] = "loop"]
          /\ open' = [open EXCEPT ![o] = @ \cup {held[o]}]
          /\ held' = [held EXCEPT ![o] = None]
          /\ UNCHANGED <<queue, unread>>
       \/ Returns(o)
    /\ UNCHANGED <<unattended, lagged, provider, epoch, pending, ask, over,
                   by>>

\* FileApproval::decide: only a pending offer is answered, and only once.
Decide(o, t, accept) ==
    /\ pending' = pending \ {t}
    /\ IF t \in pending
       THEN /\ ask' = IF ask[t] = "asking" THEN [ask EXCEPT ![t] = IF accept THEN "yes" ELSE "no"]
                      ELSE ask
            /\ by' = IF accept THEN [by EXCEPT ![t] = [said |-> o, attached |-> provider]] ELSE by
       ELSE UNCHANGED <<ask, by>>

\* apply_file_decision: only for a prompt this connection has open.
Answer(o, t, accept) ==
    /\ sess[o] = "loop"
    /\ t \in open[o]
    /\ open' = [open EXCEPT ![o] = @ \ {t}]
    /\ Decide(o, t, accept)
    /\ UNCHANGED <<unattended, lagged, provider, epoch, queue, sess, held,
                   unread, over>>

\* events.recv: a settled transfer's prompt is withdrawn; a failed send returns.
ReadEvent(o, t) ==
    /\ sess[o] = "loop"
    /\ t \in unread[o]
    /\ IF t \in open[o]
       THEN /\ pending' = pending \ {t}
            /\ ask' = Declined({t} \cap pending)
            /\ \/ /\ open' = [open EXCEPT ![o] = @ \ {t}]
                  /\ unread' = [unread EXCEPT ![o] = @ \ {t}]
                  /\ UNCHANGED <<sess, queue, held>>
               \/ Returns(o)
       ELSE /\ unread' = [unread EXCEPT ![o] = @ \ {t}]
            /\ UNCHANGED <<pending, ask, open, sess, queue, held>>
    /\ UNCHANGED <<unattended, lagged, provider, epoch, over, by>>

\* RecvError::Lagged: events were overwritten before this session read them.
Lagged(o) ==
    /\ sess[o] = "loop"
    /\ unread[o] # {}
    /\ lagged' = lagged \cup {o}
    /\ unread' = [unread EXCEPT ![o] = {}]
    /\ UNCHANGED <<unattended, provider, epoch, pending, queue, sess, held,
                   open, ask, over, by>>

\* The person's connection ends.
HangUp(o) ==
    /\ sess[o] = "loop"
    /\ sess' = [sess EXCEPT ![o] = "ending"]
    /\ UNCHANGED <<unattended, lagged, provider, epoch, pending, queue, held,
                   open, unread, ask, over, by>>

\* detach, if it is still the current epoch, and the function's return.
Detach(o) ==
    /\ sess[o] = "ending"
    /\ IF epoch = o
       THEN provider' = None /\ pending' = {} /\ ask' = Declined(pending)
       ELSE UNCHANGED <<provider, pending, ask>>
    /\ Returns(o)
    /\ UNCHANGED <<unattended, lagged, epoch, over, by>>

-----------------------------------------------------------------------------

Files(t) == ConfirmReceive(t) \/ AcceptTimeout(t) \/ TransferEnds(t)

Session(o) ==
    \/ Attach(o) \/ SendReady(o) \/ Receive(o) \/ CheckLive(o) \/ Show(o)
    \/ \E t \in Transfers, accept \in BOOLEAN : Answer(o, t, accept)
    \/ \E t \in Transfers : ReadEvent(o, t)
    \/ Lagged(o) \/ HangUp(o) \/ Detach(o)

Next == (\E t \in Transfers : Files(t)) \/ (\E o \in Providers : Session(o))

Spec == Init /\ [][Next]_vars

\* The timer fires and the runtime polls each session; select! is fair between
\* its ready branches, so an event is read in the end.  Nothing is assumed of
\* the person.
FairSpec ==
    /\ Spec
    /\ \A t \in Transfers : WF_vars(AcceptTimeout(t))
    /\ \A o \in Providers :
         /\ WF_vars(SendReady(o)) /\ WF_vars(CheckLive(o)) /\ WF_vars(Show(o))
         /\ WF_vars(Detach(o))
         /\ \A t \in Transfers : SF_vars(ReadEvent(o, t))

-----------------------------------------------------------------------------
(* Properties.                                                             *)

\* The variables keep their types.
TypeOK ==
    /\ provider \in Providers \cup {None}
    /\ epoch \in Providers \cup {None}
    /\ pending \subseteq Transfers
    /\ \A o \in Providers :
         /\ sess[o] \in {"idle", "attached", "loop", "received", "showing", "ending", "returned"}
         /\ Len(queue[o]) <= QueueCap
         /\ open[o] \subseteq Transfers
    /\ \A t \in Transfers : ask[t] \in {"new", "asking", "yes", "no"}

\* A file is accepted only by a person who had the prompt on screen, at the
\* provider that was attached when they said so: a displaced screen, a late
\* answer or a second one decides nothing.
YesFromTheAttachedScreen ==
    ~ unattended =>
        \A t \in Transfers :
            ask[t] = "yes" => by[t] # None /\ by[t].said = by[t].attached

\* decide removes what it answers: the first answer is the last.
AnswerIsFinal ==
    [][\A t \in Transfers : ask[t] \in {"yes", "no"} => ask'[t] = ask[t]]_vars

\* detach's epoch check: the provider that attached last stays attached until
\* its own session ends, whatever displaced sessions do.
ReplacementStaysAttached ==
    \A o \in Providers :
        epoch = o /\ sess[o] \notin {"idle", "returned"} => provider = o

\* Every question is answered, even if no person ever answers one.
QuestionIsAnswered ==
    \A t \in Transfers : ask[t] = "asking" ~> ask[t] # "asking"

\* A prompt whose transfer has ended does not stay on screen, unless its session
\* fell behind the transfer events.
PromptIsWithdrawn ==
    \A o \in Providers, t \in Transfers :
        t \in open[o] /\ t \in over ~> t \notin open[o] \/ o \in lagged

(***************************************************************************)
(* The inductive invariant of FileApprovalProofs.                          *)
(***************************************************************************)

ApprovalTypes ==
    /\ provider \in Providers \cup {None} /\ epoch \in Providers \cup {None}
    /\ pending \subseteq Transfers
    /\ queue \in [Providers -> Seq(Transfers)] /\ \A o \in Providers : Len(queue[o]) <= QueueCap
    /\ sess \in [Providers -> {"idle", "attached", "loop", "received", "showing", "ending", "returned"}]
    /\ held \in [Providers -> Transfers \cup {None}]
    /\ \A o \in Providers : sess[o] \in {"received", "showing"} => held[o] \in Transfers
    /\ open \in [Providers -> SUBSET Transfers]
    /\ ask \in [Transfers -> {"new", "asking", "yes", "no"}]
    /\ by \in [Transfers -> [said : Providers, attached : Providers \cup {None}] \cup {None}]

\* The offer is somewhere with provider o: queued, taken out or on screen.
At(o, t) ==
    \/ \E i \in 1 .. Len(queue[o]) : queue[o][i] = t
    \/ held[o] = t
    \/ t \in open[o]

\* An offer that is with a provider was asked about, and if it can still be
\* answered that provider is the attached one.
AskedWhereAttached ==
    \A o \in Providers, t \in Transfers :
        At(o, t) => ask[t] # "new" /\ (t \in pending => provider = o)

ApprovalInv ==
    ApprovalTypes /\ AskedWhereAttached /\ YesFromTheAttachedScreen /\ ReplacementStaysAttached

=============================================================================
