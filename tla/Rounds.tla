-------------------------------- MODULE Rounds --------------------------------
(***************************************************************************)
(* The way of a write from the message that causes it to those who watch   *)
(* it: the rounds of base/src/host.rs around one signal of the root model, *)
(* which a getter returns and __accumulate_signals therefore collects.     *)
(* Module Host has rounds with flags for signals, module Signal has a      *)
(* signal that somebody flushes; here the host of the one flushes the      *)
(* signal of the other.                                                    *)
(*                                                                         *)
(* The host is one task that plays two parts in module Signal: Block is    *)
(* the user's code that it runs, the update and the commands, which write  *)
(* the signal and drop handles of it like any thread; Host flushes.  They  *)
(* never run at the same time.  Other threads and the subscribers go on    *)
(* while the round does.                                                   *)
(***************************************************************************)
EXTENDS Signal

CONSTANTS
  Block,        \* the host's task while it runs the user's code
  MaxMessages   \* bound: messages

ASSUME RoundsAssumption ==
  /\ Block \in Threads
  /\ MaxMessages \in Nat

VARIABLES
  phase,     \* where the host is in its round
  accepted,  \* messages that the mailbox took
  taken,     \* messages that the host took out of it
  wrote      \* history: version that the round of each message wrote last

roundVars == <<phase, accepted, taken, wrote>>
allVars == <<vars, roundVars>>

UserPhases == {"update", "commands"}

RInit ==
  /\ Init
  /\ phase = "recv"
  /\ accepted = 0
  /\ taken = 0
  /\ wrote = [m \in 1 .. MaxMessages |-> 0]

Enter(p) == phase' = p

\* Updater::send, while the receiver exists.
Accept ==
  /\ phase # "dead"
  /\ accepted < MaxMessages
  /\ accepted' = accepted + 1
  /\ UNCHANGED <<vars, phase, taken, wrote>>

\* run_once takes the next message; the interceptors only read.
Take ==
  /\ phase = "recv"
  /\ taken < accepted
  /\ taken' = taken + 1
  /\ Enter("update")
  /\ UNCHANGED <<vars, accepted, wrote>>

\* The update or a command writes the signal.
BlockWrites(temp) ==
  /\ phase \in UserPhases
  /\ Update(Block, temp)
  /\ wrote' = [wrote EXCEPT ![taken] = version']
  /\ UNCHANGED <<phase, accepted, taken>>

\* Whatever else it does with the signal, up to the end of the call.
BlockRuns ==
  /\ phase \in UserPhases
  /\ \/ MarkDirty(Block)
     \/ \E temp \in BOOLEAN : WriteGuard(Block, temp)
     \/ DropHandle(Block)
     \/ Broadcast(Block)
  /\ UNCHANGED roundVars

\* The update returns.  The signal is collected by its Shared and not by a
\* handle: nothing is dropped, so nothing is broadcast.
Accumulate ==
  /\ phase = "update"
  /\ pc[Block] = "idle"
  /\ Enter("commands")
  /\ UNCHANGED <<vars, accepted, taken, wrote>>

\* Mutant of StartFlush: the commands go on while the signals are flushed.
StartFlushEarly ==
  /\ phase = "commands"
  /\ Enter("flush")
  /\ UNCHANGED <<vars, accepted, taken, wrote>>

\* All commands are applied.
StartFlush ==
  /\ phase = "commands"
  /\ pc[Block] = "idle"
  /\ Enter("flush")
  /\ UNCHANGED <<vars, accepted, taken, wrote>>

\* __flush finds the flag set: it takes it and walks the list.
FlushDirty ==
  /\ phase = "flush"
  /\ TakeDirty
  /\ Enter("walk")
  /\ UNCHANGED <<accepted, taken, wrote>>

\* __flush finds it clear and does nothing.
FlushClean ==
  /\ phase = "flush"
  /\ ~dirty
  /\ Enter("recv")
  /\ UNCHANGED <<vars, accepted, taken, wrote>>

Walk ==
  /\ phase = "walk"
  /\ Broadcast(Host)
  /\ UNCHANGED roundVars

\* Mutant of EndRound: the walk is left to another task.
EndRoundEarly ==
  /\ phase = "walk"
  /\ Enter("recv")
  /\ UNCHANGED <<vars, accepted, taken, wrote>>

EndRound ==
  /\ phase = "walk"
  /\ pc[Host] = "idle"
  /\ Enter("recv")
  /\ UNCHANGED <<vars, accepted, taken, wrote>>

\* The user's code panics between two calls; what it wrote is never flushed.
Panic ==
  /\ phase \in UserPhases
  /\ pc[Block] = "idle"
  /\ Enter("dead")
  /\ UNCHANGED <<vars, accepted, taken, wrote>>

HostStep ==
  \/ Take
  \/ \E temp \in BOOLEAN : BlockWrites(temp)
  \/ BlockRuns
  \/ Accumulate
  \/ StartFlush
  \/ FlushDirty
  \/ FlushClean
  \/ Walk
  \/ EndRound

Others == (Threads \ {Block}) \cup Subscribers

\* A call that has started, or a subscriber in its loop, goes on.
GoesOn(a) ==
  /\ \/ a \in Threads /\ MarkDirty(a)
     \/ a \in Subscribers /\ (Recv(a) \/ Read(a) \/ CloseReceiver(a))
     \/ Broadcast(a)
  /\ UNCHANGED roundVars

Begins(a) ==
  /\ \/ a \in Threads /\ \E temp \in BOOLEAN : Update(a, temp) \/ WriteGuard(a, temp)
     \/ a \in Threads /\ DropHandle(a)
     \/ a \in Subscribers /\ (Subscribe(a) \/ Unsubscribe(a))
  /\ UNCHANGED roundVars

RNext ==
  \/ Accept
  \/ HostStep
  \/ Panic
  \/ \E a \in Others : GoesOn(a) \/ Begins(a)

RSpec == RInit /\ [][RNext]_allVars

\* The executor polls the host as long as it can go on, and the user's code
\* comes to its end; the others finish what they have begun.  Nobody has to
\* send, write, subscribe, drop or panic.
RFairness ==
  /\ WF_allVars(HostStep)
  /\ \A a \in Others : WF_allVars(GoesOn(a))

RFairSpec == RSpec /\ RFairness

-----------------------------------------------------------------------------
(***************************************************************************)
(* Properties.                                                             *)
(***************************************************************************)
\* Messages whose rounds are over.
Done == IF phase = "recv" THEN taken ELSE taken - 1

\* The variables have their types, and the two parts of the host take turns.
RoundsTypeOK ==
  /\ phase \in UserPhases \cup {"recv", "flush", "walk", "dead"}
  /\ accepted \in 0 .. MaxMessages
  /\ taken \in 0 .. accepted
  /\ wrote \in [1 .. MaxMessages -> 0 .. noted]
  /\ phase \notin UserPhases => pc[Block] = "idle"
  /\ phase # "walk" => pc[Host] = "idle"
  /\ phase # "recv" => taken > 0

\* A round that is over has been announced: whoever sleeps without having read
\* what the update or a command of it wrote has a status waiting.  So no write
\* of a message is left for the next message to announce, whatever other
\* threads and the drops of handles do to the flag, the list and the channels
\* meanwhile.
RoundsPublish ==
  \A m \in 1 .. Done, s \in Subscribers :
    pc[s] = "waiting" /\ seen[s] < wrote[m] => Pending(s)

\* A message that the mailbox took is handled, and whoever follows the signal
\* reads what its round wrote, unless the host dies.
MessagesAreSeen ==
  \A m \in 1 .. MaxMessages, s \in Subscribers :
    accepted >= m /\ Listening(s)
      ~> \/ phase = "dead"
         \/ ~Listening(s)
         \/ m <= Done /\ seen[s] >= wrote[m]
=============================================================================
