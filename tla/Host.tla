-------------------------------- MODULE Host --------------------------------
(***************************************************************************)
(* The host of base/src/host.rs and the updaters of base/src/dispatcher.rs *)
(* that feed it.  The host takes one message after the other out of its    *)
(* mailbox; for each it runs the interceptors, updates the model, collects *)
(* the signals of the model, applies the commands that the update emitted  *)
(* one by one, and flushes the collected signals.  Clients send through    *)
(* clones of the updater, from any thread; a send may be abandoned at any  *)
(* await point and an updater dropped at any time.  So may a command's own *)
(* send, which goes through a clone made for the round, and the future of  *)
(* the host itself.                                                        *)
(*                                                                         *)
(* The user's code is nondeterministic: an update emits any short list of  *)
(* commands and writes any signals, and every call into it may panic.      *)
(*                                                                         *)
(* A message is named by its sender and the sender's count.  The order of  *)
(* the signals inside the deque of collected signals is abstracted.        *)
(***************************************************************************)
EXTENDS Naturals, Sequences, FiniteSets, SequencesExt, Mpsc

CONSTANTS
  Clients,        \* updaters in the hands of the application
  Self,           \* the host, as a sender of messages
  Buffer,         \* HostBuilder::buffer_size
  Interceptors,   \* how many interceptors are installed
  States,         \* types a command may ask the world for
  World,          \* those the builder has put there
  Signals,        \* signals of the root model and of its children
  Own,            \* those a getter of the root model returns
  MayPanic,       \* may the user's code panic
  CommandLists,   \* what an update may emit
  MaxSends,       \* bound: messages per client
  MaxSelf         \* bound: messages sent by commands

Commands == {"plain", "send"} \cup States

Senders == Clients \cup {Self}

Messages == Senders \X Nat

\* The host keeps an updater, which nobody sends through, and clones one from it
\* for the commands of each round: a clone is named by the round's number.
Clones == {Self} \X Nat

Updaters == Clients \cup Clones

ASSUME HostAssumption ==
  /\ IsFiniteSet(Clients)
  /\ Buffer \in Nat
  /\ Interceptors \in Nat
  /\ MaxSends \in [Clients -> Nat]
  /\ MaxSelf \in Nat
  /\ Self \notin Clients
  /\ Clients \cap Clones = {}
  /\ World \subseteq States
  /\ States \cap {"plain", "send"} = {}
  /\ Own \subseteq Signals
  /\ MayPanic \in BOOLEAN
  /\ CommandLists \subseteq Seq(Commands)

VARIABLES
  mail,       \* the channel behind Host::message_rx
  open,       \* Host::message_rx exists
  st,         \* what each client's updater is doing
  sent,       \* messages each sender has started to send
  host,       \* where the host is
  turn,       \* interceptors that have seen the current message
  current,    \* the message in hand, as a sequence of at most one
  commands,   \* Host::queue
  signals,    \* Host::signals
  dirty,      \* signals whose flag is set
  accepted,   \* history: messages the channel took, in order
  handled,    \* history: messages the model was updated with, in order
  observed,   \* history: what each interceptor saw
  ok,         \* history: messages whose send returned Ok
  refused,    \* history: messages whose send returned HostChannelClosed
  givenUp     \* history: clones through which a command gave up a send

mailVars == <<mail, accepted>>
clientVars == <<st, ok, refused>>
roundVars == <<host, turn, current, commands, signals, dirty, handled,
               observed, givenUp>>
vars == <<mailVars, clientVars, sent, roundVars, open>>

-----------------------------------------------------------------------------
\* HostBuilder::build.
Init ==
  /\ mail = Empty
  /\ open = TRUE
  /\ st = [c \in Clients |-> "idle"]
  /\ sent = [s \in Senders |-> 0]
  /\ host = "recv"
  /\ turn = 0
  /\ current = <<>>
  /\ commands = <<>>
  /\ signals = {}
  /\ dirty = {}
  /\ accepted = <<>>
  /\ handled = <<>>
  /\ observed = [i \in 1 .. Interceptors |-> <<>>]
  /\ ok = {}
  /\ refused = {}
  /\ givenUp = {}

\* The message a sender is sending, or sent last.
Latest(s) == <<s, sent[s]>>

\* The clone in the CommandContext of the round, from the update on.
Updater == <<Self, Len(handled)>>

\* The channel takes a message through an updater.
Deliver(u, m) ==
  /\ mail' = Push(mail, Buffer, u, m)
  /\ accepted' = Append(accepted, m)

(***************************************************************************)
(* Clients.  Updater::try_send awaits `tx.send(..)', which waits for the   *)
(* sender to be unparked, pushes, and waits again until the push did not   *)
(* park the sender or the host has woken it.                               *)
(***************************************************************************)

SendStart(c) ==
  /\ st[c] = "idle"
  /\ sent[c] < MaxSends[c]
  /\ sent' = [sent EXCEPT ![c] = @ + 1]
  /\ st' = [st EXCEPT ![c] = "feeding"]
  /\ UNCHANGED <<mailVars, ok, refused, roundVars, open>>

Feed(c) ==
  /\ st[c] = "feeding"
  /\ open
  /\ ~Parked(mail, c)
  /\ Deliver(c, Latest(c))
  /\ st' = [st EXCEPT ![c] = "flushing"]
  /\ UNCHANGED <<ok, refused, sent, roundVars, open>>

\* A closed channel counts as flushed.
SendReturns(c) ==
  /\ st[c] = "flushing"
  /\ open => ~Parked(mail, c)
  /\ ok' = ok \cup {Latest(c)}
  /\ st' = [st EXCEPT ![c] = "idle"]
  /\ UNCHANGED <<mailVars, refused, sent, roundVars, open>>

\* Mutant of SendFails: the error is also reported while the push is flushed.
SendFailsLate(c, panics) ==
  /\ st[c] \in {"feeding", "flushing"}
  /\ ~open
  /\ refused' = refused \cup {Latest(c)}
  /\ st' = [st EXCEPT ![c] = IF panics THEN "gone" ELSE "idle"]
  /\ UNCHANGED <<mailVars, ok, sent, roundVars, open>>

\* The channel is closed: try_send returns the error, send panics, and with it
\* the task that owns the updater.
SendFails(c, panics) ==
  /\ st[c] = "feeding"
  /\ ~open
  /\ refused' = refused \cup {Latest(c)}
  /\ st' = [st EXCEPT ![c] = IF panics THEN "gone" ELSE "idle"]
  /\ UNCHANGED <<mailVars, ok, sent, roundVars, open>>

\* Mutant of Abandon: the message is taken back.
AbandonWithdraws(c) ==
  /\ st[c] \in {"feeding", "flushing"}
  /\ st' = [st EXCEPT ![c] = "idle"]
  /\ mail' = [mail EXCEPT !.queue = SelectSeq(@, LAMBDA m : m # Latest(c))]
  /\ UNCHANGED <<accepted, ok, refused, sent, roundVars, open>>

\* The future of a send is dropped.  A message that was pushed stays, and so
\* does the place of its sender among the parked ones.
Abandon(c) ==
  /\ st[c] \in {"feeding", "flushing"}
  /\ st' = [st EXCEPT ![c] = "idle"]
  /\ UNCHANGED <<mailVars, ok, refused, sent, roundVars, open>>

DropUpdater(c) ==
  /\ st[c] = "idle"
  /\ st' = [st EXCEPT ![c] = "gone"]
  /\ UNCHANGED <<mailVars, ok, refused, sent, roundVars, open>>

(***************************************************************************)
(* The host.                                                               *)
(***************************************************************************)

\* run_once: the next message.  The channel never ends, for the host keeps an
\* updater itself: the arm for None, with which run would return, is dead code.
RunOnce ==
  /\ host = "recv"
  /\ mail.queue # <<>>
  /\ current' = <<Head(mail.queue)>>
  /\ mail' = Pop(mail)
  /\ host' = "intercept"
  /\ turn' = 0
  /\ UNCHANGED <<accepted, clientVars, sent, commands, signals, dirty, handled,
                 observed, givenUp, open>>

Intercept ==
  /\ host = "intercept"
  /\ turn < Interceptors
  /\ turn' = turn + 1
  /\ observed' = [observed EXCEPT ![turn + 1] = @ \o current]
  /\ UNCHANGED <<mailVars, clientVars, sent, host, current, commands, signals,
                 dirty, handled, givenUp, open>>

SendsIn(list) == Cardinality({i \in DOMAIN list : list[i] = "send"})

\* Mutant of Update: some interceptors may not have had their turn.
UpdateEarly(emitted, written) ==
  /\ host = "intercept"
  /\ sent[Self] + SendsIn(emitted) <= MaxSelf
  /\ handled' = handled \o current
  /\ current' = <<>>
  /\ commands' = commands \o emitted
  /\ dirty' = dirty \cup written
  /\ host' = "accumulate"
  /\ UNCHANGED <<mailVars, clientVars, sent, turn, signals, observed, givenUp, open>>

\* The update, under the write lock of the model.
Update(emitted, written) ==
  /\ host = "intercept"
  /\ turn = Interceptors
  /\ sent[Self] + SendsIn(emitted) <= MaxSelf
  /\ handled' = handled \o current
  /\ current' = <<>>
  /\ commands' = commands \o emitted
  /\ dirty' = dirty \cup written
  /\ host' = "accumulate"
  /\ UNCHANGED <<mailVars, clientVars, sent, turn, signals, observed, givenUp, open>>

\* Mutant of Accumulate: the signals of child models too.
AccumulateChildren ==
  /\ host = "accumulate"
  /\ signals' = signals \cup Signals
  /\ host' = "commands"
  /\ UNCHANGED <<mailVars, clientVars, sent, turn, current, commands, dirty,
                 handled, observed, givenUp, open>>

\* The generated __accumulate_signals lists the signals of the model's own
\* getters, not those of child models.
Accumulate ==
  /\ host = "accumulate"
  /\ signals' = signals \cup Own
  /\ host' = "commands"
  /\ UNCHANGED <<mailVars, clientVars, sent, turn, current, commands, dirty,
                 handled, observed, givenUp, open>>

Applying(kinds) ==
  /\ host = "commands"
  /\ commands # <<>>
  /\ Head(commands) \in kinds

\* A command that only touches signals, or awaits something outside.
ApplyPlain(written) ==
  /\ Applying({"plain"})
  /\ commands' = Tail(commands)
  /\ dirty' = dirty \cup written
  /\ UNCHANGED <<mailVars, clientVars, sent, host, turn, current, signals,
                 handled, observed, givenUp, open>>

\* A command that reads a state of the world that is there.
ApplyState ==
  /\ Applying(World)
  /\ commands' = Tail(commands)
  /\ UNCHANGED <<mailVars, clientVars, sent, host, turn, current, signals,
                 dirty, handled, observed, givenUp, open>>

\* A command that calls CommandContext::send_message: once the round's updater
\* is not parked, the message goes into the host's own mailbox, and the host
\* waits for the send to return.
ApplySend ==
  /\ Applying({"send"})
  /\ ~Parked(mail, Updater)
  /\ sent' = [sent EXCEPT ![Self] = @ + 1]
  /\ Deliver(Updater, <<Self, sent[Self] + 1>>)
  /\ host' = "sending"
  /\ UNCHANGED <<clientVars, turn, current, commands, signals, dirty, handled,
                 observed, givenUp, open>>

\* Mutant of SelfSendReturns: the send does not wait to be flushed.
SelfSendReturnsEarly ==
  /\ host = "sending"
  /\ ok' = ok \cup {Latest(Self)}
  /\ commands' = Tail(commands)
  /\ host' = "commands"
  /\ UNCHANGED <<mailVars, st, refused, sent, turn, current, signals, dirty,
                 handled, observed, givenUp, open>>

SelfSendReturns ==
  /\ host = "sending"
  /\ ~Parked(mail, Updater)
  /\ ok' = ok \cup {Latest(Self)}
  /\ commands' = Tail(commands)
  /\ host' = "commands"
  /\ UNCHANGED <<mailVars, st, refused, sent, turn, current, signals, dirty,
                 handled, observed, givenUp, open>>

\* Mutant of GiveUpSelfSend: the message is taken back.
GiveUpWithdraws ==
  /\ host = "sending"
  /\ commands' = Tail(commands)
  /\ host' = "commands"
  /\ givenUp' = givenUp \cup {Updater}
  /\ mail' = [mail EXCEPT !.queue = SelectSeq(@, LAMBDA m : m # Latest(Self))]
  /\ UNCHANGED <<accepted, clientVars, sent, turn, current, signals, dirty,
                 handled, observed, open>>

\* A command waits for room in the mailbox that only the host empties: for the
\* flush of its push, or for its turn to push after an earlier command of the
\* round gave up.
Stuck ==
  /\ host = "sending" \/ Applying({"send"})
  /\ Parked(mail, Updater)

\* The command drops the future of its send, for it has a timeout around it or
\* waits for something else too.  As with a client, a message that was pushed
\* stays, and so does the place of the updater among the parked ones.
GiveUpSelfSend ==
  /\ host = "sending" \/ Stuck
  /\ commands' = Tail(commands)
  /\ host' = "commands"
  /\ givenUp' = givenUp \cup {Updater}
  /\ UNCHANGED <<mailVars, clientVars, sent, turn, current, signals, dirty,
                 handled, observed, open>>

\* Mutant of StartFlush: commands are left for later.
StartFlushEarly ==
  /\ host = "commands"
  /\ host' = "flush"
  /\ UNCHANGED <<mailVars, clientVars, sent, turn, current, commands, signals,
                 dirty, handled, observed, givenUp, open>>

StartFlush ==
  /\ host = "commands"
  /\ commands = <<>>
  /\ host' = "flush"
  /\ UNCHANGED <<mailVars, clientVars, sent, turn, current, commands, signals,
                 dirty, handled, observed, givenUp, open>>

\* Mutant of Flush: the signal stays in the deque.
FlushKeeps(sig) ==
  /\ host = "flush"
  /\ sig \in signals
  /\ dirty' = dirty \ {sig}
  /\ UNCHANGED <<mailVars, clientVars, sent, host, turn, current, commands,
                 signals, handled, observed, givenUp, open>>

\* __flush of one collected signal clears its flag (module Signal has the rest).
Flush(sig) ==
  /\ host = "flush"
  /\ sig \in signals
  /\ signals' = signals \ {sig}
  /\ dirty' = dirty \ {sig}
  /\ UNCHANGED <<mailVars, clientVars, sent, host, turn, current, commands,
                 handled, observed, givenUp, open>>

EndRound ==
  /\ host = "flush"
  /\ signals = {}
  /\ host' = "recv"
  /\ UNCHANGED <<mailVars, clientVars, sent, turn, current, commands, signals,
                 dirty, handled, observed, givenUp, open>>

\* The host ends, with all it owns: the receiver closes the channel, which
\* wakes every sender and loses what was in flight.
Close ==
  /\ host' = "dead"
  /\ open' = FALSE
  /\ mail' = Empty
  /\ current' = <<>>
  /\ commands' = <<>>
  /\ signals' = {}
  /\ UNCHANGED <<accepted, clientVars, sent, turn, dirty, handled, observed,
                 givenUp>>

\* An interceptor, the update or a command panics, or a command asks for a
\* state that the world does not have.
Panic ==
  /\ \/ MayPanic /\ host = "intercept"
     \/ MayPanic /\ Applying(Commands)
     \/ Applying(States \ World)
  /\ Close

\* The future of run is dropped where it may await: in the receive, or while a
\* command is applied.
DropHost ==
  /\ host \in {"recv", "sending"} \/ Applying(Commands)
  /\ Close

-----------------------------------------------------------------------------
Client(c) ==
  \/ SendStart(c)
  \/ Feed(c)
  \/ SendReturns(c)
  \/ \E panics \in BOOLEAN : SendFails(c, panics)
  \/ Abandon(c)
  \/ DropUpdater(c)

HostStep ==
  \/ RunOnce
  \/ Intercept
  \/ \E emitted \in CommandLists, written \in SUBSET Signals :
       Update(emitted, written)
  \/ Accumulate
  \/ \E written \in SUBSET Signals : ApplyPlain(written)
  \/ ApplyState
  \/ ApplySend
  \/ SelfSendReturns
  \/ StartFlush
  \/ \E sig \in Signals : Flush(sig)
  \/ EndRound

Next ==
  \/ \E c \in Clients : Client(c)
  \/ HostStep
  \/ GiveUpSelfSend
  \/ Panic
  \/ DropHost

Spec == Init /\ [][Next]_vars

\* The executor polls a host that can go on, and clients whose send can go on.
\* Nobody has to send, to abandon a send, to drop an updater or the host, or to
\* panic.
Fairness ==
  /\ WF_vars(HostStep \/ Panic)
  /\ \A c \in Clients :
       WF_vars(Feed(c) \/ SendReturns(c) \/ \E p \in BOOLEAN : SendFails(c, p))

FairSpec == Spec /\ Fairness

-----------------------------------------------------------------------------
(***************************************************************************)
(* Properties.                                                             *)
(***************************************************************************)

TypeOK ==
  /\ mail \in Channels(Updaters, Messages)
  /\ open \in BOOLEAN
  /\ st \in [Clients -> {"idle", "feeding", "flushing", "gone"}]
  /\ sent \in [Senders -> Nat]
  /\ host \in {"recv", "intercept", "accumulate", "commands", "sending",
               "flush", "dead"}
  /\ turn \in 0 .. Interceptors
  /\ current \in Seq(Messages)
  /\ commands \in Seq(Commands)
  /\ signals \in SUBSET Own
  /\ dirty \in SUBSET Signals
  /\ accepted \in Seq(Messages)
  /\ handled \in Seq(Messages)
  /\ observed \in [1 .. Interceptors -> Seq(Messages)]
  /\ ok \in SUBSET Messages
  /\ refused \in SUBSET Messages
  /\ givenUp \in SUBSET Clones

\* Messages are handled in the order in which the channel took them, none twice
\* and none skipped: while the host lives, each is handled, in hand or queued;
\* when it has died, what was handled is where it stopped.
FifoExactlyOnce ==
  /\ open => accepted = handled \o current \o mail.queue
  /\ IsPrefix(handled, accepted)

\* Every interceptor sees every message, once, in order and before the model is
\* updated with it.
InterceptorsSeeFirst ==
  \A i \in 1 .. Interceptors :
    open => observed[i] = IF i <= turn THEN handled \o current ELSE handled

\* What a sender is told is true: Ok means that the channel took the message,
\* HostChannelClosed that the model was not and never will be updated with it.
AnswersAreTrue ==
  /\ ok \subseteq ToSet(accepted)
  /\ refused \cap ToSet(accepted) = {}

\* A round is over before the next one starts: no command of the last message
\* is left, and no signal that a getter of the root returns is still unannounced,
\* whether the update wrote it or a command of the same round.
RoundsDontOverlap ==
  host \in {"recv", "intercept"} =>
    /\ commands = <<>>
    /\ signals = {}
    /\ dirty \cap Own = {}

\* Backpressure: the mailbox never holds more than the buffer and one message
\* per client, abandoned sends and dropped updaters included, and one per round
\* in which a command gave up its send: those are never taken off the bound, for
\* each round has an updater of its own.
MailboxBounded ==
  Len(mail.queue) <=
    Buffer + Cardinality(Clients)
           + Cardinality(givenUp \cup {u \in {Updater} : host = "sending"})

\* A command's send that does not return at once never returns: nothing that
\* clients do frees it, and the host waits until the command gives up or the
\* host itself ends.
StuckForever == [][Stuck => Stuck' \/ Latest(Self)' \notin ok']_vars

\* Every message that the channel takes is handled in the end, unless the host
\* dies.
AcceptedIsHandled ==
  \A n \in 1 .. FoldFunction(+, MaxSelf, MaxSends) :
    Len(accepted) >= n ~> Len(handled) >= n \/ ~open

\* Every send ends, whether the host keeps up, falls behind or dies.
SendsEnd ==
  \A c \in Clients :
    st[c] \in {"feeding", "flushing"} ~> st[c] \in {"idle", "gone"}

-----------------------------------------------------------------------------
(***************************************************************************)
(* Refinement: a sequential application behind a queue.                    *)
(***************************************************************************)
Phase ==
  CASE host = "dead"      -> "dead"
    [] host = "recv"      -> "idle"
    [] host = "intercept" -> "taken"
    [] OTHER              -> "applied"

App == INSTANCE SerialApp WITH
  Message <- Messages, inbox <- mail.queue, hand <- current,
  phase <- Phase, log <- handled

\* Channel, parking, rounds and panics implement a machine that applies one
\* message at a time, in the order of arrival.
ImplementsSerialApp == App!Spec
=============================================================================
