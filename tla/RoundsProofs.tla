----------------------------- MODULE RoundsProofs -----------------------------
(***************************************************************************)
(* Theorems about module Rounds: every step of it is one of the signal or  *)
(* leaves the signal alone, so that the theorems of SignalProofs hold of   *)
(* the composition; and a round that is over has been announced.           *)
(*                                                                         *)
(* RoundsPublish is not inductive by itself.  Unflushed carries a write    *)
(* from the user's code to the flush: the flag it set is still set, for    *)
(* nobody but the host clears it.  Walked carries it through the walk of   *)
(* the list, and FutureRounds says that a round begins with no writes.     *)
(***************************************************************************)
EXTENDS Rounds, SignalProofs

Unflushed ==
  phase \in UserPhases \cup {"flush"} /\ wrote[taken] > 0 =>
    dirty \/ pc[Block] \in {"wroteTemp", "wroteKept"}

\* The walk has reached s, or will.
Reached(s, v) ==
  pc[s] = "waiting" /\ seen[s] < v =>
    Pending(s) \/ pc[Host] = "entering" \/ (mutex = Host /\ s \in todo)

Walked == phase = "walk" => \A s \in Subscribers : Reached(s, wrote[taken])

FutureRounds == \A m \in 1 .. MaxMessages : m > taken => wrote[m] = 0

RInv ==
  /\ Structure
  /\ RoundsTypeOK
  /\ RoundsPublish
  /\ Unflushed
  /\ Walked
  /\ FutureRounds

-----------------------------------------------------------------------------
\* The rounds run the signal by its own steps.
LEMMA RoundsStep == RNext => [Next]_vars
<1> SUFFICES ASSUME RNext PROVE [Next]_vars
  OBVIOUS
<1>1. Block \in Threads /\ Block \in Actors /\ Host \in Actors /\ Others \subseteq Actors
  BY RoundsAssumption DEF Actors, Others
<1>2. CASE Accept \/ Take \/ Accumulate \/ StartFlush \/ FlushClean \/ EndRound \/ Panic
  BY <1>2 DEF Accept, Take, Accumulate, StartFlush, FlushClean, EndRound, Panic
<1>3. ASSUME NEW temp \in BOOLEAN, BlockWrites(temp)
      PROVE  Next
  BY <1>1, <1>3 DEF BlockWrites, Next, Thread
<1>4. CASE BlockRuns
  BY <1>1, <1>4 DEF BlockRuns, Next, Thread
<1>5. CASE FlushDirty \/ Walk
  BY <1>1, <1>5 DEF FlushDirty, Walk, Next
<1>6. ASSUME NEW a \in Others, GoesOn(a) \/ Begins(a)
      PROVE  Next
  BY <1>1, <1>6 DEF GoesOn, Begins, Next, Thread, Subscriber
<1> QED BY <1>2, <1>3, <1>4, <1>5, <1>6 DEF RNext, HostStep

\* The rounds of a host with the other threads and the subscribers are a
\* behaviour of the signal: what is proved of Signal is true of a host's signal.
THEOREM RoundsImplementSignal == RSpec => Spec
<1>1. RInit => Init
  BY DEF RInit
<1>2. [RNext]_allVars => [Next]_vars
  BY RoundsStep DEF allVars
<1> QED BY <1>1, <1>2, PTL DEF RSpec, Spec

-----------------------------------------------------------------------------
\* No step of the signal takes an announcement away, nor passes somebody by whom
\* the walk had yet to reach, as long as the value itself is not newer than the
\* data.
LEMMA StepReached ==
  ASSUME Structure, [Next]_vars, NEW s \in Subscribers, NEW v \in Nat, v <= version
  PROVE  /\ (pc[s] = "waiting" /\ seen[s] < v => Pending(s))
              => (pc'[s] = "waiting" /\ seen'[s] < v => Pending(s)')
         /\ Reached(s, v) => Reached(s, v)'
<1> SUFFICES ASSUME pc'[s] = "waiting", seen'[s] < v
             PROVE  /\ pc[s] = "waiting" /\ seen[s] < v
                    /\ Pending(s) => Pending(s)'
                    /\ Pending(s) \/ pc[Host] = "entering" \/ (mutex = Host /\ s \in todo)
                         => Pending(s)' \/ pc'[Host] = "entering"
                              \/ (mutex' = Host /\ s \in todo')
  BY DEF Reached
<1> USE DEF Structure, TypeOK, Goto, Leaves, Targets, Retained
<1>1. /\ s \in Actors /\ s \notin Threads /\ s # Host
      /\ Host \in Actors /\ Host \notin Threads /\ Host \notin Subscribers
  BY SignalAssumption DEF Actors
<1>2. ASSUME NEW t \in Threads, Thread(t)
      PROVE  UNCHANGED <<pc[s], pc[Host], seen, chan, mutex, todo>>
  BY <1>1, <1>2 DEF Thread, Update, WriteGuard, MarkDirty, DropHandle
<1>3. CASE TakeDirty
  BY <1>1, <1>3 DEF TakeDirty, Pending
<1>4. ASSUME NEW a \in Actors, Lock(a)
      PROVE  /\ pc[s] = "waiting" /\ UNCHANGED <<seen, chan>>
             /\ pc[Host] = "entering" \/ (mutex = Host /\ s \in todo)
                  => pc'[Host] = "entering" \/ (mutex' = Host /\ s \in todo')
  <2>1. pc[s] = "waiting" /\ s \in registered
    BY <1>1, <1>4 DEF Lock, LiveStaysRegistered, Open
  <2>2. CASE a = Host
    BY <1>4, <2>1, <2>2 DEF Lock
  <2>3. CASE a # Host
    BY <1>1, <1>4, <2>1, <2>3, SignalAssumption DEF Lock, Actors
  <2> QED BY <2>2, <2>3
<1>5. ASSUME NEW a \in Actors, NEW r \in Subscribers, Send(a, r)
      PROVE  /\ UNCHANGED <<pc, seen, mutex>>
             /\ Pending(s) \/ s = r => Pending(s)'
             /\ s # r /\ s \in todo => s \in todo'
  <2>1. UNCHANGED <<pc, seen, mutex>> /\ todo' = todo \ {r}
    BY <1>5 DEF Send
  <2>2. CASE s # r
    BY <1>5, <2>1, <2>2 DEF Send, Pending
  <2>3. CASE s = r
    <3> DEFINE m == IF a = Host THEN "Changed" ELSE "Destroyed"
    <3>1. TrySend(chan[r], StatusBuffer, Repr, m).queue # <<>>
      BY TrySendBalanced, Repr \in {Repr}, m \in Statuses, StatusBuffer \in Nat
         DEF StatusesBounded, Statuses, StatusBuffer
    <3>2. chan'[s] = TrySend(chan[r], StatusBuffer, Repr, m)
      BY <1>5, <2>1, <2>3 DEF Send
    <3> QED BY <2>1, <2>3, <3>1, <3>2 DEF Pending
  <2> QED BY <2>2, <2>3
<1>6. ASSUME NEW a \in Actors, Unlock(a)
      PROVE  /\ pc[s] = "waiting" /\ UNCHANGED <<seen, chan>> /\ s \notin todo
             /\ pc[Host] = "entering" => pc'[Host] = "entering"
  BY <1>1, <1>6 DEF Unlock
<1>7. ASSUME NEW r \in Subscribers,
             \/ Subscribe(r) \/ Recv(r) \/ Read(r)
             \/ Unsubscribe(r) \/ CloseReceiver(r)
      PROVE  UNCHANGED <<pc[s], pc[Host], seen[s], chan[s], mutex, todo>>
  <2>1. r # s
    <3>1. CASE Read(r)
      BY <1>1, <3>1 DEF Read, HistoriesArePast
    <3>2. CASE ~Read(r)
      BY <1>1, <1>7, <3>2 DEF Subscribe, Recv, Unsubscribe, CloseReceiver
    <3> QED BY <3>1, <3>2
  <2> QED BY <1>1, <1>7, <2>1 DEF Subscribe, Recv, Read, Unsubscribe, CloseReceiver
<1>8. CASE UNCHANGED vars
  BY <1>8 DEF vars, Pending
<1> QED
  BY <1>2, <1>3, <1>4, <1>5, <1>6, <1>7, <1>8
     DEF Next, Broadcast, Subscriber, Pending

-----------------------------------------------------------------------------
LEMMA InitRounds == RInit => RInv
<1> SUFFICES ASSUME RInit PROVE RInv
  OBVIOUS
<1>1. Structure
  BY InitStructure DEF RInit
<1>2. /\ Block \in Actors /\ Host \in Actors
      /\ Block \notin Subscribers /\ Host \notin Subscribers
  BY RoundsAssumption, SignalAssumption DEF Actors
<1>3. RoundsTypeOK
  BY <1>2, RoundsAssumption DEF RInit, Init, RoundsTypeOK
<1>4. RoundsPublish
  BY DEF RInit, RoundsPublish, Done
<1>5. Unflushed /\ Walked
  BY DEF RInit, Unflushed, Walked, UserPhases
<1>6. FutureRounds
  BY DEF RInit, FutureRounds
<1> QED BY <1>1, <1>3, <1>4, <1>5, <1>6 DEF RInv

\* What the parts of the invariant say of the numbers of messages.
LEMMA Numbers ==
  ASSUME RInv
  PROVE  /\ taken \in Nat /\ accepted \in Nat /\ MaxMessages \in Nat
         /\ taken <= accepted /\ accepted <= MaxMessages
         /\ noted \in Nat /\ version \in Nat /\ noted <= version
         /\ Done \in {taken - 1, taken}
         /\ phase # "recv" => taken \in 1 .. MaxMessages
         /\ \A m \in 1 .. MaxMessages : wrote[m] \in Nat /\ wrote[m] <= version
<1>1. /\ taken \in Nat /\ accepted \in Nat /\ MaxMessages \in Nat
      /\ taken <= accepted /\ accepted <= MaxMessages
      /\ phase # "recv" => taken > 0
      /\ \A m \in 1 .. MaxMessages : wrote[m] \in 0 .. noted
  BY RoundsAssumption DEF RInv, RoundsTypeOK
<1>2. noted \in Nat /\ version \in Nat /\ noted <= version
  BY DEF RInv, Structure, TypeOK, HistoriesArePast
<1> QED BY <1>1, <1>2 DEF Done

\* The host's part of the flush and of the user's code, as far as the others
\* have no hand in it.
LEMMA OthersStayOut ==
  ASSUME RInv, NEW a \in Others, GoesOn(a) \/ Begins(a)
  PROVE  /\ UNCHANGED <<pc[Block], pc[Host]>>
         /\ dirty => dirty'
         /\ noted' \in Nat /\ noted <= noted'
<1>1. /\ a # Block /\ a # Host /\ Block \in Actors /\ Host \in Actors
      /\ pc \in [Actors -> Places]
  BY RoundsAssumption, SignalAssumption
     DEF Others, Actors, RInv, Structure, TypeOK
<1>2. CASE a \in Threads /\ MarkDirty(a)
  <2>1. dirty' /\ UNCHANGED <<pc[Block], pc[Host]>>
    BY <1>1, <1>2 DEF MarkDirty, Goto
  <2> QED BY <1>2, <2>1, Numbers DEF MarkDirty
<1>3. CASE \/ a \in Subscribers /\ (Recv(a) \/ Read(a) \/ CloseReceiver(a))
           \/ a \in Subscribers /\ (Subscribe(a) \/ Unsubscribe(a))
           \/ a \in Threads /\ DropHandle(a)
  <2>1. UNCHANGED <<pc[Block], pc[Host]>>
    BY <1>1, <1>3
       DEF Recv, Read, CloseReceiver, Subscribe, Unsubscribe, DropHandle, Goto
  <2>2. UNCHANGED <<dirty, noted>>
    BY <1>3 DEF Recv, Read, CloseReceiver, Subscribe, Unsubscribe, DropHandle
  <2> QED BY <2>1, <2>2, Numbers
<1>4. CASE Broadcast(a)
  <2>1. UNCHANGED <<pc[Block], pc[Host]>>
    BY <1>1, <1>4 DEF Broadcast, Lock, Unlock, Send, Goto
  <2>2. UNCHANGED <<dirty, noted>>
    BY <1>4 DEF Broadcast, Lock, Unlock, Send
  <2> QED BY <2>1, <2>2, Numbers
<1>5. ASSUME a \in Threads, NEW temp \in BOOLEAN, Update(a, temp) \/ WriteGuard(a, temp)
      PROVE  /\ UNCHANGED <<pc[Block], pc[Host], dirty>>
             /\ noted' \in Nat /\ noted <= noted'
  <2>1. UNCHANGED <<pc[Block], pc[Host]>>
    BY <1>1, <1>5 DEF Update, WriteGuard, Goto
  <2>2. UNCHANGED dirty /\ noted' \in {noted, version + 1}
    BY <1>5 DEF Update, WriteGuard
  <2> QED BY <2>1, <2>2, Numbers
<1> QED BY <1>2, <1>3, <1>4, <1>5 DEF GoesOn, Begins

\* While the host's place in the round and its histories stay, a step of the
\* signal keeps what was announced.
LEMMA StepAnnounced ==
  ASSUME RInv, [Next]_vars, UNCHANGED <<phase, taken>>,
         \A m \in 1 .. Done : wrote'[m] = wrote[m]
  PROVE  RoundsPublish'
<1> SUFFICES ASSUME NEW m \in 1 .. Done, NEW s \in Subscribers,
                    pc'[s] = "waiting", seen'[s] < wrote'[m]
             PROVE  Pending(s)'
  BY DEF RoundsPublish, Done
<1>1. m \in 1 .. MaxMessages
  BY Numbers
<1>2. wrote[m] \in Nat /\ wrote[m] <= version /\ wrote'[m] = wrote[m]
  BY <1>1, Numbers
<1>3. pc[s] = "waiting" /\ seen[s] < wrote[m] => Pending(s)
  BY DEF RInv, RoundsPublish
<1> QED BY <1>2, <1>3, StepReached DEF RInv

LEMMA StepWalked ==
  ASSUME RInv, [Next]_vars, phase = "walk", UNCHANGED <<taken, wrote>>
  PROVE  Walked'
<1> SUFFICES ASSUME NEW s \in Subscribers PROVE Reached(s, wrote[taken])'
  BY DEF Walked
<1>1. wrote[taken] \in Nat /\ wrote[taken] <= version
  BY Numbers
<1>2. Reached(s, wrote[taken])
  BY DEF RInv, Walked
<1> QED BY <1>1, <1>2, StepReached DEF RInv, Reached

\* Every action of the host and of the others keeps the invariant.
LEMMA StepRounds == RInv /\ [RNext]_allVars => RInv'
<1> SUFFICES ASSUME RInv, [RNext]_allVars PROVE RInv'
  OBVIOUS
<1>1. Structure' /\ [Next]_vars
  <2>1. [Next]_vars
    BY RoundsStep DEF allVars
  <2> QED BY <2>1, StepTypes, StepMutex, StepRegistered, StepStatuses
          DEF RInv, Structure
<1>2. /\ Block \in Threads /\ Block \in Actors /\ Host \in Actors /\ Block # Host
      /\ Block \notin Subscribers /\ Host \notin Subscribers
      /\ pc \in [Actors -> Places]
  BY RoundsAssumption, SignalAssumption DEF Actors, RInv, Structure, TypeOK
<1>3. /\ RoundsTypeOK /\ RoundsPublish /\ Unflushed /\ Walked /\ FutureRounds
      /\ noted \in Nat
  BY DEF RInv, Structure, TypeOK
<1>4. ASSUME NEW a \in Others, GoesOn(a) \/ Begins(a)
      PROVE  RInv'
  <2>1. UNCHANGED roundVars
    BY <1>4 DEF GoesOn, Begins
  <2>2. RoundsTypeOK'
    BY <1>3, <1>4, <2>1, OthersStayOut, Numbers DEF RoundsTypeOK, roundVars
  <2>3. RoundsPublish'
    BY <1>1, <2>1, StepAnnounced DEF roundVars
  <2>4. Unflushed'
    BY <1>3, <1>4, <2>1, OthersStayOut DEF Unflushed, roundVars
  <2>5. Walked'
    BY <1>1, <2>1, StepWalked DEF Walked, roundVars
  <2>6. FutureRounds'
    BY <1>3, <2>1 DEF FutureRounds, roundVars
  <2> QED BY <1>1, <2>2, <2>3, <2>4, <2>5, <2>6 DEF RInv
<1>5. ASSUME NEW temp \in BOOLEAN, BlockWrites(temp)
      PROVE  RInv'
  <2>1. /\ phase \in UserPhases /\ UNCHANGED <<phase, accepted, taken, pc[Host]>>
        /\ pc'[Block] \in {"wroteTemp", "wroteKept"}
        /\ wrote' = [wrote EXCEPT ![taken] = version']
        /\ version' = version + 1 /\ noted' = version + 1
    BY <1>2, <1>5 DEF BlockWrites, Update, Goto
  <2>2. taken \in 1 .. MaxMessages /\ Done = taken - 1
    BY <2>1, Numbers DEF Done, UserPhases
  <2>3. wrote' \in [1 .. MaxMessages -> 0 .. noted']
    <3>1. noted' \in Nat /\ noted <= noted' /\ version' = noted'
      BY <2>1, Numbers
    <3>2. wrote \in [1 .. MaxMessages -> 0 .. noted']
      BY <1>3, <3>1 DEF RoundsTypeOK
    <3>3. version' \in 0 .. noted'
      BY <3>1
    <3> QED BY <2>1, <3>2, <3>3
  <2>4. RoundsTypeOK'
    BY <1>3, <2>1, <2>3 DEF RoundsTypeOK, UserPhases
  <2>5. RoundsPublish'
    <3>1. \A m \in 1 .. Done : wrote'[m] = wrote[m]
      BY <1>3, <2>1, <2>2, Numbers DEF RoundsTypeOK
    <3> QED BY <1>1, <2>1, <3>1, StepAnnounced
  <2>6. Unflushed' /\ Walked'
    BY <2>1 DEF Unflushed, Walked, UserPhases
  <2>7. FutureRounds'
    BY <1>3, <2>1, <2>2 DEF FutureRounds, RoundsTypeOK
  <2> QED BY <1>1, <2>4, <2>5, <2>6, <2>7 DEF RInv
<1>6. CASE BlockRuns
  <2>1. phase \in UserPhases /\ UNCHANGED roundVars
    BY <1>6 DEF BlockRuns
  <2>2. UNCHANGED pc[Host] /\ noted' = noted
    BY <1>2, <1>6
       DEF BlockRuns, MarkDirty, WriteGuard, DropHandle, Broadcast, Lock, Unlock,
           Send, Starts, Goto
  <2>3. RoundsTypeOK'
    BY <1>3, <2>1, <2>2 DEF RoundsTypeOK, roundVars
  <2>4. RoundsPublish'
    BY <1>1, <2>1, StepAnnounced DEF roundVars
  <2>5. dirty \/ pc[Block] \in {"wroteTemp", "wroteKept"}
          => dirty' \/ pc'[Block] \in {"wroteTemp", "wroteKept"}
    <3>1. CASE MarkDirty(Block)
      BY <3>1 DEF MarkDirty
    <3>2. CASE \/ \E temp \in BOOLEAN : WriteGuard(Block, temp)
               \/ DropHandle(Block) \/ Broadcast(Block)
      <4>1. UNCHANGED dirty /\ pc[Block] \notin {"wroteTemp", "wroteKept"}
        BY <3>2 DEF WriteGuard, DropHandle, Starts, Broadcast, Lock, Unlock, Send
      <4> QED BY <4>1
    <3> QED BY <1>6, <3>1, <3>2 DEF BlockRuns
  <2>6. Unflushed' /\ Walked'
    BY <1>3, <2>1, <2>5 DEF Unflushed, Walked, UserPhases, roundVars
  <2>7. FutureRounds'
    BY <1>3, <2>1 DEF FutureRounds, roundVars
  <2> QED BY <1>1, <2>3, <2>4, <2>6, <2>7 DEF RInv
<1>7. CASE FlushDirty
  <2>1. /\ phase = "flush" /\ phase' = "walk" /\ pc'[Host] = "entering"
        /\ UNCHANGED <<accepted, taken, wrote, noted, chan, seen, pc[Block]>>
        /\ \A s \in Subscribers : pc'[s] = pc[s]
    BY <1>2, <1>7 DEF FlushDirty, TakeDirty, Goto, Enter
  <2>2. RoundsTypeOK'
    BY <1>3, <2>1 DEF RoundsTypeOK, UserPhases
  <2>3. RoundsPublish'
    BY <1>3, <2>1 DEF RoundsPublish, Done, Pending
  <2>4. Unflushed' /\ Walked' /\ FutureRounds'
    BY <1>3, <2>1 DEF Unflushed, Walked, FutureRounds, Reached, UserPhases
  <2> QED BY <1>1, <2>2, <2>3, <2>4 DEF RInv
<1>8. CASE Walk
  <2>1. phase = "walk" /\ UNCHANGED roundVars
    BY <1>8 DEF Walk
  <2>2. UNCHANGED pc[Block] /\ noted' = noted
    BY <1>2, <1>8 DEF Walk, Broadcast, Lock, Unlock, Send, Goto
  <2>3. RoundsTypeOK'
    BY <1>3, <2>1, <2>2 DEF RoundsTypeOK, roundVars, UserPhases
  <2>4. RoundsPublish' /\ Walked'
    BY <1>1, <2>1, StepAnnounced, StepWalked DEF roundVars
  <2>5. Unflushed' /\ FutureRounds'
    BY <1>3, <2>1 DEF Unflushed, FutureRounds, UserPhases, roundVars
  <2> QED BY <1>1, <2>3, <2>4, <2>5 DEF RInv
<1>9. CASE Accept \/ Take \/ Accumulate \/ StartFlush \/ FlushClean \/ EndRound \/ Panic
  <2>1. UNCHANGED <<vars, wrote>>
    BY <1>9 DEF Accept, Take, Accumulate, StartFlush, FlushClean, EndRound, Panic
  <2>2. RoundsTypeOK'
    BY <1>3, <1>9, <2>1, Numbers
       DEF Accept, Take, Accumulate, StartFlush, FlushClean, EndRound, Panic,
           Enter, RoundsTypeOK, UserPhases, vars
  <2>3. Walked'
    BY <1>3, <1>9, <2>1
       DEF Accept, Take, Accumulate, StartFlush, FlushClean, EndRound, Panic,
           Enter, Walked, Reached, Pending, UserPhases, vars
  <2>4. FutureRounds'
    BY <1>3, <1>9, <2>1, Numbers
       DEF Accept, Take, Accumulate, StartFlush, FlushClean, EndRound, Panic,
           Enter, FutureRounds
  <2>5. Unflushed'
    <3>1. CASE Take
      BY <1>3, <2>1, <3>1, Numbers DEF Take, Enter, FutureRounds, Unflushed
    <3>2. CASE ~Take
      BY <1>3, <1>9, <2>1, <3>2
         DEF Accept, Accumulate, StartFlush, FlushClean, EndRound, Panic,
             Enter, Unflushed, UserPhases, vars
    <3> QED BY <3>1, <3>2
  <2>6. RoundsPublish'
    <3> SUFFICES ASSUME NEW m \in 1 .. Done', NEW s \in Subscribers,
                        pc[s] = "waiting", seen[s] < wrote[m]
                 PROVE  Pending(s)
      BY <2>1 DEF RoundsPublish, Pending, vars
    <3>1. CASE m \in 1 .. Done
      BY <1>3, <3>1 DEF RoundsPublish
    <3>2. CASE m \notin 1 .. Done
      <4>1. (FlushClean \/ EndRound) /\ m = taken
        BY <1>9, <3>2, Numbers
           DEF Accept, Take, Accumulate, StartFlush, FlushClean, EndRound, Panic,
               Enter, Done, UserPhases
      <4>2. CASE FlushClean
        <5>1. pc[Block] = "idle" /\ phase = "flush" /\ ~dirty
          BY <1>3, <4>2 DEF FlushClean, RoundsTypeOK, UserPhases
        <5>2. ~(wrote[taken] > 0)
          BY <1>3, <5>1 DEF Unflushed
        <5>3. taken \in 1 .. MaxMessages /\ wrote[taken] \in Nat
          BY <5>1, Numbers
        <5>4. seen[s] \in Nat
          BY DEF RInv, Structure, TypeOK
        <5>5. ~(seen[s] < wrote[m])
          BY <4>1, <5>2, <5>3, <5>4
        <5> QED BY <5>5
      <4>3. CASE EndRound
        <5>1. phase = "walk" /\ pc[Host] = "idle" /\ mutex # Host
          BY <1>2, <4>3 DEF EndRound, RInv, Structure, OneBroadcaster
        <5>2. Reached(s, wrote[m])
          BY <1>3, <4>1, <5>1 DEF Walked
        <5> QED BY <5>1, <5>2 DEF Reached
      <4> QED BY <4>1, <4>2, <4>3
    <3> QED BY <3>1, <3>2
  <2> QED BY <1>1, <2>2, <2>3, <2>4, <2>5, <2>6 DEF RInv
<1>10. CASE UNCHANGED allVars
  BY <1>1, <1>3, <1>10
     DEF allVars, vars, roundVars, RInv, RoundsTypeOK, RoundsPublish, Unflushed,
         Walked, FutureRounds, Reached, Done, Pending
<1> QED
  BY <1>4, <1>5, <1>6, <1>7, <1>8, <1>9, <1>10 DEF RNext, HostStep

-----------------------------------------------------------------------------
THEOREM RoundsHold == RSpec => []RInv
BY InitRounds, StepRounds, PTL DEF RSpec

\* The types of the composition, and the turns that the two parts of the host
\* take.
THEOREM RoundsTypeCorrect == RSpec => []RoundsTypeOK
BY RoundsHold, PTL DEF RInv

\* No round ends before what it wrote has been announced to every subscriber
\* that has not read it.
THEOREM RoundsArePublished == RSpec => []RoundsPublish
BY RoundsHold, PTL DEF RInv
=============================================================================
