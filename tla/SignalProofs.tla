----------------------------- MODULE SignalProofs -----------------------------
(***************************************************************************)
(* Theorems about module Signal, for every set of threads and subscribers. *)
(*                                                                         *)
(* What a subscriber is still owed is spread over the flag, the mutex, the *)
(* list and the channel, so NoLostUpdate is not inductive by itself: a     *)
(* step preserves it only where the list holds every open subscriber when  *)
(* a flush walks it (LiveStaysRegistered), where a refused status finds a  *)
(* pending one (StatusesBounded), where nobody else changes `todo' in the  *)
(* meantime (OneBroadcaster) and where the histories do not run ahead of   *)
(* the data (HistoriesArePast).  These make up Structure, which is         *)
(* inductive; NoLostUpdate and DropAnnounces are proved on top of it.      *)
(***************************************************************************)
EXTENDS Signal, MpscProofs

HistoriesArePast ==
  /\ noted <= version
  /\ loud <= version
  /\ \A s \in Subscribers : seen[s] <= version

Structure ==
  /\ TypeOK
  /\ OneBroadcaster
  /\ LiveStaysRegistered
  /\ StatusesBounded
  /\ HistoriesArePast

-----------------------------------------------------------------------------
LEMMA InitStructure == Init => Structure
<1> SUFFICES ASSUME Init PROVE Structure
  OBVIOUS
<1> USE DEF Init
<1>1. /\ Empty \in Channels({Repr}, Statuses)
      /\ Balanced(Empty, StatusBuffer)
      /\ Len(Empty.queue) = 0
  BY EmptyBalanced DEF StatusBuffer, Empty
<1>2. TypeOK
  BY <1>1 DEF TypeOK, Actors, Places
<1>3. OneBroadcaster
  BY SignalAssumption DEF OneBroadcaster, Actors
<1>4. LiveStaysRegistered
  BY DEF LiveStaysRegistered, Open, Actors
<1>5. StatusesBounded
  BY <1>1 DEF StatusesBounded
<1>6. HistoriesArePast
  BY DEF HistoriesArePast
<1> QED BY <1>2, <1>3, <1>4, <1>5, <1>6 DEF Structure

\* Every step keeps the types and the histories.
LEMMA StepTypes == Structure /\ [Next]_vars => TypeOK' /\ HistoriesArePast'
<1> SUFFICES ASSUME Structure, [Next]_vars PROVE TypeOK' /\ HistoriesArePast'
  OBVIOUS
<1> USE DEF Structure, TypeOK, HistoriesArePast, Goto, Places,
           Leaves, Targets, Retained
<1>1. ASSUME NEW t \in Threads, NEW temp \in BOOLEAN, Update(t, temp)
      PROVE  TypeOK' /\ HistoriesArePast'
  <2>1. ops' \in [Threads -> Nat]
    BY <1>1 DEF Update, Starts
  <2>2. pc' \in [Actors -> Places]
    BY <1>1 DEF Update, Places
  <2>3. version' \in Nat /\ noted' \in Nat /\ loud' \in Nat /\ HistoriesArePast'
    BY <1>1 DEF Update
  <2> QED BY <1>1, <2>1, <2>2, <2>3 DEF Update
<1>2. ASSUME NEW t \in Threads, NEW temp \in BOOLEAN, WriteGuard(t, temp)
      PROVE  TypeOK' /\ HistoriesArePast'
  <2>1. ops' \in [Threads -> Nat]
    BY <1>2 DEF WriteGuard, Starts
  <2>2. pc' \in [Actors -> Places]
    BY <1>2 DEF WriteGuard, Places
  <2>3. version' \in Nat /\ loud' \in Nat /\ HistoriesArePast'
    BY <1>2 DEF WriteGuard
  <2> QED BY <1>2, <2>1, <2>2, <2>3 DEF WriteGuard
<1>3. ASSUME NEW t \in Threads, MarkDirty(t)
      PROVE  TypeOK' /\ HistoriesArePast'
  BY <1>3 DEF MarkDirty
<1>4. ASSUME NEW t \in Threads, DropHandle(t)
      PROVE  TypeOK' /\ HistoriesArePast'
  <2>1. ops' \in [Threads -> Nat]
    BY <1>4 DEF DropHandle, Starts
  <2>2. pc' \in [Actors -> Places]
    BY <1>4 DEF DropHandle, Places
  <2> QED BY <1>4, <2>1, <2>2 DEF DropHandle
<1>5. CASE TakeDirty
  BY <1>5 DEF TakeDirty
<1>6. ASSUME NEW a \in Actors, Lock(a)
      PROVE  TypeOK' /\ HistoriesArePast'
  BY <1>6 DEF Lock
<1>7. ASSUME NEW a \in Actors, NEW s \in Subscribers, Send(a, s)
      PROVE  TypeOK' /\ HistoriesArePast'
  <2> DEFINE m == IF a = Host THEN "Changed" ELSE "Destroyed"
  <2>1. TrySend(chan[s], StatusBuffer, Repr, m) \in Channels({Repr}, Statuses)
    BY TrySendBalanced, Repr \in {Repr}, m \in Statuses, StatusBuffer \in Nat
       DEF StatusesBounded, Statuses, StatusBuffer
  <2>2. chan' \in [Subscribers -> Channels({Repr}, Statuses)]
    BY <1>7, <2>1 DEF Send
  <2> QED BY <1>7, <2>2 DEF Send
<1>8. ASSUME NEW a \in Actors, Unlock(a)
      PROVE  TypeOK' /\ HistoriesArePast'
  BY <1>8 DEF Unlock
<1>9. ASSUME NEW s \in Subscribers, Subscribe(s)
      PROVE  TypeOK' /\ HistoriesArePast'
  BY <1>9 DEF Subscribe
<1>10. ASSUME NEW s \in Subscribers, Recv(s)
       PROVE  TypeOK' /\ HistoriesArePast'
  <2>1. Pop(chan[s]) \in Channels({Repr}, Statuses)
    BY <1>10, PopBalanced DEF Recv, Pending, StatusesBounded, StatusBuffer
  <2> QED BY <1>10, <2>1 DEF Recv
<1>11. ASSUME NEW s \in Subscribers, Read(s)
       PROVE  TypeOK' /\ HistoriesArePast'
  <2>1. seen' \in [Subscribers -> Nat] /\ HistoriesArePast'
    BY <1>11 DEF Read
  <2> QED BY <1>11, <2>1 DEF Read
<1>12. ASSUME NEW s \in Subscribers, Unsubscribe(s)
       PROVE  TypeOK' /\ HistoriesArePast'
  BY <1>12 DEF Unsubscribe
<1>13. ASSUME NEW s \in Subscribers, CloseReceiver(s)
       PROVE  TypeOK' /\ HistoriesArePast'
  BY <1>13, EmptyBalanced, StatusBuffer \in Nat DEF CloseReceiver, StatusBuffer
<1>14. CASE UNCHANGED vars
  BY <1>14 DEF vars
<1> QED
  BY <1>1, <1>2, <1>3, <1>4, <1>5, <1>6, <1>7, <1>8, <1>9, <1>10, <1>11,
     <1>12, <1>13, <1>14 DEF Next, Thread, Broadcast, Subscriber

\* Every step keeps the mutex: one walks the list at a time.
LEMMA StepMutex == Structure /\ [Next]_vars => OneBroadcaster'
<1> SUFFICES ASSUME Structure, [Next]_vars PROVE OneBroadcaster'
  OBVIOUS
<1> USE DEF Structure, TypeOK, OneBroadcaster, Goto, Leaves, Targets, Retained
<1>1. Nobody \notin Actors
  BY SignalAssumption DEF Actors
<1>2. ASSUME NEW t \in Threads, NEW temp \in BOOLEAN,
             Update(t, temp) \/ WriteGuard(t, temp) \/ MarkDirty(t) \/ DropHandle(t)
      PROVE  OneBroadcaster'
  <2>1. t \in Actors /\ pc[t] # "sending" /\ pc'[t] # "sending"
    BY <1>2 DEF Update, WriteGuard, MarkDirty, DropHandle, Starts, Actors
  <2>2. /\ \A a \in Actors \ {t} : pc'[a] = pc[a]
        /\ UNCHANGED <<mutex, todo>>
    BY <1>2 DEF Update, WriteGuard, MarkDirty, DropHandle
  <2> QED BY <2>1, <2>2
<1>3. CASE TakeDirty
  BY <1>3 DEF TakeDirty
<1>4. ASSUME NEW a \in Actors, Lock(a)
      PROVE  OneBroadcaster'
  BY <1>1, <1>4 DEF Lock
<1>5. ASSUME NEW a \in Actors, NEW s \in Subscribers, Send(a, s)
      PROVE  OneBroadcaster'
  BY <1>1, <1>5 DEF Send
<1>6. ASSUME NEW a \in Actors, Unlock(a)
      PROVE  OneBroadcaster'
  BY <1>1, <1>6 DEF Unlock
<1>7. ASSUME NEW s \in Subscribers,
             \/ Subscribe(s) \/ Recv(s) \/ Read(s)
             \/ Unsubscribe(s) \/ CloseReceiver(s)
      PROVE  OneBroadcaster'
  <2>1. s \in Actors /\ pc[s] # "sending" /\ pc'[s] # "sending"
    BY <1>7 DEF Subscribe, Recv, Read, Unsubscribe, CloseReceiver, Listening,
                Actors
  <2>2. /\ \A a \in Actors \ {s} : pc'[a] = pc[a]
        /\ UNCHANGED <<mutex, todo>>
    BY <1>7 DEF Subscribe, Recv, Read, Unsubscribe, CloseReceiver
  <2> QED BY <2>1, <2>2
<1>8. CASE UNCHANGED vars
  BY <1>8 DEF vars
<1> QED
  BY <1>2, <1>3, <1>4, <1>5, <1>6, <1>7, <1>8
     DEF Next, Thread, Broadcast, Subscriber

\* Every step keeps open subscribers in the list: a flush forgets closed ones
\* only, and nothing else takes anybody out.
LEMMA StepRegistered == Structure /\ [Next]_vars => LiveStaysRegistered'
<1> SUFFICES ASSUME Structure, [Next]_vars,
                    NEW s \in Subscribers, Open(s)'
             PROVE  s \in registered'
  BY DEF LiveStaysRegistered
<1> USE DEF Structure, TypeOK, LiveStaysRegistered, Goto, Leaves, Targets, Retained
<1>1. s \in Actors /\ s \notin Threads /\ s # Host
  BY SignalAssumption DEF Actors
<1>2. ASSUME NEW t \in Threads, Thread(t) \/ TakeDirty
      PROVE  s \in registered'
  <2>1. pc'[s] = pc[s] /\ registered' = registered
    BY <1>1, <1>2 DEF Thread, Update, WriteGuard, MarkDirty, DropHandle, TakeDirty
  <2> QED BY <2>1 DEF Open
<1>3. CASE TakeDirty
  BY <1>1, <1>3 DEF TakeDirty, Open
<1>4. ASSUME NEW a \in Actors, Lock(a)
      PROVE  s \in registered'
  BY <1>1, <1>4 DEF Lock, Open
<1>5. ASSUME NEW a \in Actors, NEW r \in Subscribers, Send(a, r)
      PROVE  s \in registered'
  BY <1>5 DEF Send, Open
<1>6. ASSUME NEW a \in Actors, Unlock(a)
      PROVE  s \in registered'
  <2>1. Open(s) /\ pc[s] # "gone"
    BY <1>1, <1>6 DEF Unlock, Open
  <2> QED BY <1>6, <2>1 DEF Unlock
<1>7. ASSUME NEW r \in Subscribers, Subscribe(r)
      PROVE  s \in registered'
  BY <1>1, <1>7 DEF Subscribe, Open
<1>8. ASSUME NEW r \in Subscribers,
             Recv(r) \/ Read(r) \/ Unsubscribe(r) \/ CloseReceiver(r)
      PROVE  s \in registered'
  <2>1. Open(s) /\ registered' = registered
    BY <1>1, <1>8
       DEF Recv, Read, Unsubscribe, CloseReceiver, Open, Listening
  <2> QED BY <2>1
<1>9. CASE UNCHANGED vars
  BY <1>9 DEF vars, Open
<1> QED
  BY <1>2, <1>3, <1>4, <1>5, <1>6, <1>7, <1>8, <1>9
     DEF Next, Broadcast, Subscriber

\* Every step keeps the channels within two statuses.
LEMMA StepStatuses == Structure /\ [Next]_vars => StatusesBounded'
<1> SUFFICES ASSUME Structure, [Next]_vars PROVE StatusesBounded'
  OBVIOUS
<1> USE DEF Structure, TypeOK, StatusesBounded
<1>1. StatusBuffer = 1 /\ StatusBuffer \in Nat
  BY DEF StatusBuffer
<1>2. ASSUME NEW a \in Actors, NEW r \in Subscribers, Send(a, r)
      PROVE  StatusesBounded'
  <2> DEFINE m == IF a = Host THEN "Changed" ELSE "Destroyed"
             c == TrySend(chan[r], StatusBuffer, Repr, m)
  <2>1. m \in Statuses /\ Repr \in {Repr}
    BY DEF Statuses
  <2>2. c \in Channels({Repr}, Statuses) /\ Balanced(c, StatusBuffer)
    BY <1>1, <2>1, TrySendBalanced
  <2>3. Len(chan[r].queue) <= StatusBuffer + 1
    BY <1>1
  <2>4. Len(c.queue) <= StatusBuffer + 1
    BY <1>1, <2>1, <2>3, SoleSenderBounded
  <2>5. \A s \in Subscribers : chan'[s] = chan[s] \/ (s = r /\ chan'[s] = c)
    BY <1>2 DEF Send
  <2> QED BY <1>1, <2>2, <2>4, <2>5
<1>3. ASSUME NEW r \in Subscribers, Recv(r)
      PROVE  StatusesBounded'
  <2> DEFINE c == Pop(chan[r])
  <2>1. /\ c \in Channels({Repr}, Statuses)
        /\ Balanced(c, StatusBuffer)
        /\ Len(c.queue) = Len(chan[r].queue) - 1
    <3>1. /\ chan[r] \in Channels({Repr}, Statuses)
          /\ Balanced(chan[r], StatusBuffer)
          /\ chan[r].queue # <<>>
      BY <1>3 DEF Recv, Pending
    <3> QED BY <1>1, <3>1, PopBalanced
  <2>2. Len(c.queue) <= 2
    <3>1. Len(chan[r].queue) \in Nat /\ Len(chan[r].queue) <= 2
      BY DEF Channels
    <3> QED BY <2>1, <3>1
  <2>3. \A s \in Subscribers : chan'[s] = IF s = r THEN c ELSE chan[s]
    BY <1>3 DEF Recv
  <2> QED BY <2>1, <2>2, <2>3
<1>4. ASSUME NEW r \in Subscribers, CloseReceiver(r)
      PROVE  StatusesBounded'
  <2>1. Balanced(Empty, StatusBuffer) /\ Len(Empty.queue) = 0
    BY <1>1, EmptyBalanced DEF Empty
  <2>2. \A s \in Subscribers : chan'[s] = IF s = r THEN Empty ELSE chan[s]
    BY <1>4 DEF CloseReceiver
  <2> QED BY <2>1, <2>2
<1>5. CASE UNCHANGED chan
  BY <1>5
<1> QED
  BY <1>2, <1>3, <1>4, <1>5
     DEF Next, Thread, Broadcast, Subscriber, vars, Update, WriteGuard,
         MarkDirty, DropHandle, TakeDirty, Lock, Unlock, Subscribe, Read,
         Unsubscribe

-----------------------------------------------------------------------------
\* The structure of the protocol holds in every reachable state.
THEOREM StructureHolds == Spec => []Structure
<1>1. Structure /\ [Next]_vars => Structure'
  BY StepTypes, StepMutex, StepRegistered, StepStatuses DEF Structure
<1> QED BY <1>1, InitStructure, PTL DEF Spec

\* The theorems the readers of Signal rely on, as stated there.
THEOREM TypeCorrect == Spec => []TypeOK
BY StructureHolds, PTL DEF Structure

THEOREM ListKeepsTheLiving == Spec => []LiveStaysRegistered
BY StructureHolds, PTL DEF Structure

THEOREM ChannelsStayBounded == Spec => []StatusesBounded
BY StructureHolds, PTL DEF Structure

\* A step that takes from none of the places a notification can be in, and
\* neither writes nor puts the subscriber to sleep, keeps its notification.
LEMMA StepNoLostUpdate ==
  Structure /\ NoLostUpdate /\ [Next]_vars => NoLostUpdate'
<1> DEFINE Due(s) == Pending(s) \/ Flagged \/ pc[Host] = "entering"
                       \/ (mutex = Host /\ s \in todo)
<1> SUFFICES ASSUME Structure, NoLostUpdate, [Next]_vars,
                    NEW s \in Subscribers,
                    pc'[s] = "waiting", seen'[s] < noted'
             PROVE  Due(s)'
  BY DEF NoLostUpdate
<1> USE DEF Structure, TypeOK, Goto, Leaves, Targets, Retained
<1>1. /\ s \in Actors /\ s \notin Threads /\ s # Host
      /\ Host \in Actors /\ Host \notin Threads /\ Host \notin Subscribers
      /\ Threads \subseteq Actors
  BY SignalAssumption DEF Actors
<1>2. pc[s] = "waiting" /\ seen[s] < noted => Due(s)
  BY DEF NoLostUpdate
<1>3. ASSUME NEW t \in Threads, NEW temp \in BOOLEAN, Update(t, temp)
      PROVE  Due(s)'
  <2>1. pc'[t] \in {"wroteTemp", "wroteKept"}
    BY <1>1, <1>3 DEF Update
  <2> QED BY <2>1 DEF Flagged
<1>4. ASSUME NEW t \in Threads, MarkDirty(t)
      PROVE  Due(s)'
  BY <1>4 DEF MarkDirty, Flagged
<1>5. ASSUME NEW t \in Threads, NEW temp \in BOOLEAN,
             WriteGuard(t, temp) \/ DropHandle(t)
      PROVE  Due(s)'
  <2>1. Due(s)
    BY <1>1, <1>2, <1>5 DEF WriteGuard, DropHandle
  <2>2. pc[t] = "idle" /\ \A a \in Actors \ {t} : pc'[a] = pc[a]
    BY <1>5 DEF WriteGuard, DropHandle, Starts
  <2>3. Flagged => Flagged'
    BY <1>1, <1>5, <2>2 DEF Flagged, WriteGuard, DropHandle
  <2> QED BY <1>1, <1>5, <2>1, <2>2, <2>3 DEF WriteGuard, DropHandle, Pending
<1>6. CASE TakeDirty
  BY <1>1, <1>6 DEF TakeDirty
<1>7. ASSUME NEW a \in Actors, Lock(a)
      PROVE  Due(s)'
  <2>1. Due(s) /\ s \in registered /\ pc[s] = "waiting"
    <3>1. pc[s] = "waiting" /\ seen[s] < noted
      BY <1>1, <1>7 DEF Lock
    <3> QED BY <1>2, <3>1 DEF LiveStaysRegistered, Open
  <2>2. Flagged => Flagged'
    BY <1>1, <1>7 DEF Lock, Flagged
  <2>3. CASE a = Host
    BY <1>7, <2>1, <2>3 DEF Lock
  <2>4. CASE a # Host
    BY <1>1, <1>7, <2>1, <2>2, <2>4 DEF Lock, Pending, OneBroadcaster
  <2> QED BY <2>3, <2>4
<1>8. ASSUME NEW a \in Actors, NEW r \in Subscribers, Send(a, r)
      PROVE  Due(s)'
  <2>1. Due(s)
    BY <1>2, <1>8 DEF Send
  <2>2. UNCHANGED <<pc, mutex, Flagged>> /\ todo' = todo \ {r}
    BY <1>8 DEF Send, Flagged
  <2>3. CASE s # r
    BY <1>8, <2>1, <2>2, <2>3 DEF Send, Pending
  <2>4. CASE s = r
    <3> DEFINE m == IF a = Host THEN "Changed" ELSE "Destroyed"
    <3>1. TrySend(chan[r], StatusBuffer, Repr, m).queue # <<>>
      BY TrySendBalanced, Repr \in {Repr}, m \in Statuses, StatusBuffer \in Nat
         DEF StatusesBounded, Statuses, StatusBuffer
    <3>2. chan'[s] = TrySend(chan[r], StatusBuffer, Repr, m)
      BY <1>8, <2>4 DEF Send
    <3> QED BY <3>1, <3>2 DEF Pending
  <2> QED BY <2>3, <2>4
<1>9. ASSUME NEW a \in Actors, Unlock(a)
      PROVE  Due(s)'
  <2>1. Due(s)
    BY <1>1, <1>2, <1>9 DEF Unlock
  <2>2. pc[a] = "sending" /\ todo = {}
        /\ \A b \in Actors \ {a} : pc'[b] = pc[b]
    BY <1>9 DEF Unlock
  <2>3. Flagged => Flagged'
    BY <1>1, <1>9, <2>2 DEF Unlock, Flagged
  <2>4. pc[Host] = "entering" => pc'[Host] = "entering"
    BY <1>1, <2>2
  <2> QED BY <1>9, <2>1, <2>2, <2>3, <2>4 DEF Unlock, Pending
<1>10. ASSUME NEW r \in Subscribers,
              \/ Subscribe(r) \/ Recv(r) \/ Read(r)
              \/ Unsubscribe(r) \/ CloseReceiver(r)
       PROVE  Due(s)'
  <2>1. r # s
    <3>1. CASE Read(r)
      BY <1>1, <3>1 DEF Read, HistoriesArePast
    <3>2. CASE ~Read(r)
      BY <1>1, <1>10, <3>2
         DEF Subscribe, Recv, Unsubscribe, CloseReceiver
    <3> QED BY <3>1, <3>2
  <2>2. pc[s] = "waiting" /\ seen[s] < noted /\ Due(s)
    BY <1>1, <1>2, <1>10, <2>1
       DEF Subscribe, Recv, Read, Unsubscribe, CloseReceiver
  <2>3. /\ \A a \in Actors \ {r} : pc'[a] = pc[a]
        /\ UNCHANGED <<dirty, mutex, todo>>
        /\ chan'[s] = chan[s]
    BY <1>10, <2>1 DEF Subscribe, Recv, Read, Unsubscribe, CloseReceiver
  <2>4. r # Host /\ r \notin Threads /\ (Flagged => Flagged')
    BY <1>1, <2>3, SignalAssumption DEF Flagged
  <2> QED BY <1>1, <2>2, <2>3, <2>4 DEF Pending
<1>11. CASE UNCHANGED vars
  BY <1>2, <1>11 DEF vars, Pending, Flagged
<1> QED
  BY <1>3, <1>4, <1>5, <1>6, <1>7, <1>8, <1>9, <1>10, <1>11
     DEF Next, Thread, Broadcast, Subscriber

\* No update is lost: while a subscriber sleeps on an older value than the last
\* one published through update or set, its notification exists somewhere.
THEOREM UpdatesAreNotLost == Spec => []NoLostUpdate
<1>1. Init => NoLostUpdate
  BY DEF Init, NoLostUpdate
<1> QED BY <1>1, StructureHolds, StepNoLostUpdate, PTL DEF Spec

-----------------------------------------------------------------------------
LEMMA StepDropAnnounces ==
  Structure /\ DropAnnounces /\ [Next]_vars => DropAnnounces'
<1> DEFINE Due(s) == \/ Pending(s)
                     \/ \E t \in Threads : pc[t] = "wroteTemp"
                     \/ \E a \in Actors : pc[a] = "entering"
                     \/ s \in todo
<1> SUFFICES ASSUME Structure, DropAnnounces, [Next]_vars,
                    NEW s \in Subscribers,
                    pc'[s] = "waiting", seen'[s] < loud'
             PROVE  Due(s)'
  BY DEF DropAnnounces
<1> USE DEF Structure, TypeOK, Goto, Leaves, Targets, Retained
<1>1. /\ s \in Actors /\ s \notin Threads /\ s # Host
      /\ Threads \subseteq Actors
  BY SignalAssumption DEF Actors
<1>2. pc[s] = "waiting" /\ seen[s] < loud => Due(s)
  BY DEF DropAnnounces
<1>3. ASSUME NEW t \in Threads, NEW temp \in BOOLEAN,
             Update(t, temp) \/ WriteGuard(t, temp)
      PROVE  Due(s)'
  <2>1. pc[t] = "idle" /\ \A a \in Actors \ {t} : pc'[a] = pc[a]
    BY <1>3 DEF Update, WriteGuard, Starts
  <2>2. CASE temp
    <3>1. pc'[t] \in {"wroteTemp", "entering"}
      BY <1>1, <1>3, <2>2 DEF Update, WriteGuard
    <3> QED BY <1>1, <3>1
  <2>3. CASE ~temp
    <3>1. pc[s] = "waiting" /\ UNCHANGED <<seen, loud, chan, todo>>
      BY <1>1, <1>3, <2>3 DEF Update, WriteGuard
    <3>2. Due(s)
      BY <1>2, <3>1
    <3> QED BY <1>1, <2>1, <3>1, <3>2 DEF Pending
  <2> QED BY <2>2, <2>3
<1>4. ASSUME NEW t \in Threads, MarkDirty(t)
      PROVE  Due(s)'
  <2>1. Due(s)
    BY <1>1, <1>2, <1>4 DEF MarkDirty
  <2>2. \A a \in Actors \ {t} : pc'[a] = pc[a]
    BY <1>4 DEF MarkDirty
  <2>3. pc[t] # "entering" /\ (pc[t] = "wroteTemp" => pc'[t] = "entering")
    BY <1>1, <1>4 DEF MarkDirty
  <2> QED BY <1>1, <1>4, <2>1, <2>2, <2>3 DEF MarkDirty, Pending
<1>5. ASSUME NEW a \in Actors, pc'[a] = "entering"
      PROVE  Due(s)'
  BY <1>5
<1>6. ASSUME NEW t \in Threads, DropHandle(t)
      PROVE  Due(s)'
  BY <1>1, <1>5, <1>6 DEF DropHandle
<1>7. CASE TakeDirty
  <2>1. Host \in Actors
    BY DEF Actors
  <2> QED BY <1>5, <1>7, <2>1 DEF TakeDirty
<1>8. ASSUME NEW a \in Actors, Lock(a)
      PROVE  Due(s)'
  <2>1. s \in registered
    BY <1>1, <1>8 DEF Lock, LiveStaysRegistered, Open
  <2> QED BY <1>8, <2>1 DEF Lock
<1>9. ASSUME NEW a \in Actors, NEW r \in Subscribers, Send(a, r)
      PROVE  Due(s)'
  <2>1. CASE s # r
    BY <1>2, <1>9, <2>1 DEF Send, Pending
  <2>2. CASE s = r
    <3> DEFINE m == IF a = Host THEN "Changed" ELSE "Destroyed"
    <3>1. TrySend(chan[r], StatusBuffer, Repr, m).queue # <<>>
      BY TrySendBalanced, Repr \in {Repr}, m \in Statuses, StatusBuffer \in Nat
         DEF StatusesBounded, Statuses, StatusBuffer
    <3>2. chan'[s] = TrySend(chan[r], StatusBuffer, Repr, m)
      BY <1>9, <2>2 DEF Send
    <3> QED BY <3>1, <3>2 DEF Pending
  <2> QED BY <2>1, <2>2
<1>10. ASSUME NEW a \in Actors, Unlock(a)
       PROVE  Due(s)'
  <2>1. Due(s)
    BY <1>1, <1>2, <1>10 DEF Unlock
  <2>2. pc[a] = "sending" /\ todo = {}
        /\ \A b \in Actors \ {a} : pc'[b] = pc[b]
    BY <1>10 DEF Unlock
  <2> QED BY <1>1, <1>10, <2>1, <2>2 DEF Unlock, Pending
<1>11. ASSUME NEW r \in Subscribers,
              Subscribe(r) \/ Recv(r) \/ Read(r) \/ CloseReceiver(r)
       PROVE  Due(s)'
  <2>1. r # s
    <3>1. CASE Read(r)
      BY <1>1, <3>1 DEF Read, HistoriesArePast
    <3>2. CASE ~Read(r)
      BY <1>1, <1>11, <3>2 DEF Subscribe, Recv, CloseReceiver
    <3> QED BY <3>1, <3>2
  <2>2. Due(s)
    BY <1>1, <1>2, <1>11, <2>1 DEF Subscribe, Recv, Read, CloseReceiver
  <2>3. /\ pc[r] \in {"out", "waiting", "due", "closing"}
        /\ \A a \in Actors \ {r} : pc'[a] = pc[a]
        /\ UNCHANGED todo
        /\ chan'[s] = chan[s]
    BY <1>11, <2>1 DEF Subscribe, Recv, Read, CloseReceiver
  <2> QED BY <1>1, <2>2, <2>3 DEF Pending
<1>12. ASSUME NEW r \in Subscribers, Unsubscribe(r)
       PROVE  Due(s)'
  <2>1. r \in Actors
    BY DEF Actors
  <2> QED BY <1>5, <1>12, <2>1 DEF Unsubscribe
<1>13. CASE UNCHANGED vars
  BY <1>2, <1>13 DEF vars, Pending
<1> QED
  BY <1>3, <1>4, <1>6, <1>7, <1>8, <1>9, <1>10, <1>11, <1>12, <1>13
     DEF Next, Thread, Broadcast, Subscriber

\* Every write through a temporary writer is announced by its drop.
THEOREM DropsAnnounce == Spec => []DropAnnounces
<1>1. Init => DropAnnounces
  BY DEF Init, DropAnnounces
<1> QED BY <1>1, StructureHolds, StepDropAnnounces, PTL DEF Spec

-----------------------------------------------------------------------------
(***************************************************************************)
(* The signal implements the level-triggered notification of module Watch. *)
(***************************************************************************)

LEMMA InitWatch == Init => SignalWatch!Init
BY SignalAssumption
   DEF Init, SignalWatch!Init, Watching, Stale, Woken, Owed, Listening,
       Flagged, Actors

\* What the steps of threads and of the host do to the refinement mapping.
LEMMA QuietStep ==
  ASSUME Structure,
         \A s \in Subscribers :
           /\ Listening(s)' <=> Listening(s)
           /\ Listening(s) =>
                /\ Pending(s)' \/ pc'[s] = "due" <=> Pending(s) \/ pc[s] = "due"
                /\ seen'[s] < noted' <=> seen[s] < noted,
         Owed' = Owed
  PROVE  UNCHANGED SignalWatch!vars
<1>1. Watching' = Watching
  BY DEF Watching
<1>2. Stale' = Stale
  <2>1. \A s \in Watching : seen'[s] < noted' <=> seen[s] < noted
    BY DEF Watching
  <2> QED BY <1>1, <2>1 DEF Stale
<1>3. Woken' = Woken
  <2>1. \A s \in Watching :
          Pending(s)' \/ pc'[s] = "due" <=> Pending(s) \/ pc[s] = "due"
    BY DEF Watching
  <2> QED BY <1>1, <2>1 DEF Woken
<1> QED BY <1>1, <1>2, <1>3 DEF SignalWatch!vars

LEMMA StepWatch ==
  Structure /\ [Next]_vars => [SignalWatch!Next]_SignalWatch!vars
<1> SUFFICES ASSUME Structure, [Next]_vars
             PROVE  SignalWatch!Next \/ UNCHANGED SignalWatch!vars
  BY DEF SignalWatch!vars
<1> USE DEF Structure, TypeOK, Goto, Leaves, Targets, Retained
<1>1. /\ Subscribers \subseteq Actors /\ Threads \subseteq Actors
      /\ Host \in Actors /\ Nobody \notin Actors
      /\ Threads \cap Subscribers = {}
      /\ Host \notin Threads /\ Host \notin Subscribers
  BY SignalAssumption DEF Actors
<1>2. ASSUME NEW t \in Threads, NEW temp \in BOOLEAN, Update(t, temp)
      PROVE  SignalWatch!Next
  <2>1. \A s \in Subscribers : pc'[s] = pc[s]
    BY <1>1, <1>2 DEF Update
  <2>2. Watching' = Watching
    BY <2>1 DEF Watching, Listening
  <2>3. Stale' = Watching
    <3>1. \A s \in Subscribers : seen'[s] < noted'
      BY <1>2 DEF Update, HistoriesArePast
    <3> QED BY <2>2, <3>1 DEF Stale, Watching
  <2>4. Woken' = Woken
    BY <1>2, <2>1, <2>2 DEF Woken, Watching, Pending, Update
  <2>5. Owed' = Watching
    <3>1. pc'[t] \in {"wroteTemp", "wroteKept"}
      BY <1>1, <1>2 DEF Update
    <3> QED BY <2>2, <3>1 DEF Owed, Flagged
  <2> QED BY <2>2, <2>3, <2>4, <2>5 DEF SignalWatch!Next, SignalWatch!Publish
<1>3. ASSUME NEW t \in Threads, MarkDirty(t)
      PROVE  UNCHANGED SignalWatch!vars
  <2>1. Flagged /\ Flagged'
    BY <1>3 DEF MarkDirty, Flagged
  <2>2. \A s \in Subscribers : pc'[s] = pc[s]
    BY <1>1, <1>3 DEF MarkDirty
  <2>3. Owed' = Owed
    BY <2>1, <2>2 DEF Owed, Watching, Listening
  <2> QED BY <1>3, <2>2, <2>3, QuietStep DEF MarkDirty, Listening, Pending
<1>4. ASSUME NEW t \in Threads, NEW temp \in BOOLEAN,
             WriteGuard(t, temp) \/ DropHandle(t)
      PROVE  UNCHANGED SignalWatch!vars
  <2>1. /\ pc[t] = "idle" /\ pc'[t] \in {"idle", "entering"}
        /\ \A a \in Actors \ {t} : pc'[a] = pc[a]
    BY <1>1, <1>4 DEF WriteGuard, DropHandle, Starts
  <2>2. Flagged' <=> Flagged
    BY <1>1, <1>4, <2>1 DEF WriteGuard, DropHandle, Flagged
  <2>3. Owed' = Owed
    BY <1>1, <1>4, <2>1, <2>2
       DEF Owed, Watching, Listening, WriteGuard, DropHandle
  <2> QED BY <1>1, <1>4, <2>1, <2>3, QuietStep
          DEF WriteGuard, DropHandle, Listening, Pending
<1>5. CASE TakeDirty
  <2>1. Flagged /\ pc'[Host] = "entering"
    BY <1>1, <1>5 DEF TakeDirty, Flagged
  <2>2. \A s \in Subscribers : pc'[s] = pc[s]
    BY <1>1, <1>5 DEF TakeDirty
  <2>3. Owed' = Owed
    BY <2>1, <2>2 DEF Owed, Watching, Listening
  <2> QED BY <1>5, <2>2, <2>3, QuietStep DEF TakeDirty, Listening, Pending
<1>6. ASSUME NEW a \in Actors, Lock(a)
      PROVE  UNCHANGED SignalWatch!vars
  <2>1. /\ pc[a] = "entering" /\ pc'[a] = "sending"
        /\ \A b \in Actors \ {a} : pc'[b] = pc[b]
    BY <1>6 DEF Lock
  <2>2. Watching' = Watching
    BY <2>1, <1>1 DEF Watching, Listening
  <2>3. Flagged' <=> Flagged
    BY <1>1, <1>6, <2>1 DEF Lock, Flagged
  <2>4. Watching \subseteq registered
    BY DEF Watching, Listening, LiveStaysRegistered, Open
  <2>5. Owed' = Owed
    <3>1. CASE a = Host
      BY <1>6, <2>1, <2>2, <2>3, <2>4, <3>1 DEF Lock, Owed
    <3>2. CASE a # Host
      BY <1>1, <1>6, <2>1, <2>2, <2>3, <3>2 DEF Lock, Owed
    <3> QED BY <3>1, <3>2
  <2> QED BY <1>1, <1>6, <2>1, <2>5, QuietStep DEF Lock, Listening, Pending
<1>7. ASSUME NEW a \in Actors, NEW r \in Subscribers, Send(a, r)
      PROVE  SignalWatch!Next \/ UNCHANGED SignalWatch!vars
  <2>1. UNCHANGED <<Watching, Stale, Flagged>>
    BY <1>7 DEF Send, Watching, Listening, Stale, Flagged
  <2>2. Owed' = Owed \/ Owed' = Owed \ {r}
    BY <1>7, <2>1 DEF Send, Owed
  <2>3. CASE r \in Watching
    <3> DEFINE m == IF a = Host THEN "Changed" ELSE "Destroyed"
    <3>1. TrySend(chan[r], StatusBuffer, Repr, m).queue # <<>>
      BY TrySendBalanced, Repr \in {Repr}, m \in Statuses, StatusBuffer \in Nat
         DEF StatusesBounded, Statuses, StatusBuffer
    <3>2. chan' = [chan EXCEPT ![r] = TrySend(chan[r], StatusBuffer, Repr, m)]
      BY <1>7, <2>3 DEF Send, Watching, Listening
    <3>3. Woken' = Woken \cup {r}
      BY <1>7, <2>1, <2>3, <3>1, <3>2 DEF Send, Woken, Pending, Watching
    <3> QED BY <2>1, <2>2, <2>3, <3>3
            DEF SignalWatch!Next, SignalWatch!Notify
  <2>4. CASE r \notin Watching
    <3>1. Owed' = Owed
      BY <1>7, <2>1, <2>4 DEF Send, Owed
    <3>2. Woken' = Woken
      BY <1>7, <2>1, <2>4 DEF Send, Woken, Pending, Watching
    <3> QED BY <2>1, <3>1, <3>2 DEF SignalWatch!vars
  <2> QED BY <2>3, <2>4
<1>8. ASSUME NEW a \in Actors, Unlock(a)
      PROVE  UNCHANGED SignalWatch!vars
  <2>1. /\ pc[a] = "sending" /\ pc'[a] \in {"closing", "idle"}
        /\ \A b \in Actors \ {a} : pc'[b] = pc[b]
        /\ mutex = a
    BY <1>8 DEF Unlock, OneBroadcaster
  <2>2. Watching' = Watching
    BY <2>1, <1>1 DEF Watching, Listening
  <2>3. Flagged' <=> Flagged
    BY <1>1, <1>8, <2>1 DEF Unlock, Flagged
  <2>4. Owed' = Owed
    BY <1>1, <1>8, <2>1, <2>2, <2>3 DEF Unlock, Owed
  <2> QED BY <1>1, <1>8, <2>1, <2>4, QuietStep DEF Unlock, Listening, Pending
<1>9. ASSUME NEW r \in Subscribers, Subscribe(r)
      PROVE  SignalWatch!Next
  <2>1. /\ r \notin Watching /\ Watching' = Watching \cup {r}
        /\ \A b \in Actors \ {r} : pc'[b] = pc[b]
        /\ pc'[r] = "due"
    BY <1>1, <1>9 DEF Subscribe, Watching, Listening
  <2>2. Woken' = Woken \cup {r}
    BY <1>1, <1>9, <2>1 DEF Subscribe, Woken, Pending, Watching
  <2>3. Stale' \in {Stale, Stale \cup {r}}
    BY <1>9, <2>1 DEF Subscribe, Stale
  <2>4. Flagged' <=> Flagged
    BY <1>1, <1>9, <2>1 DEF Subscribe, Flagged
  <2>5. Owed' \in {Owed, Owed \cup {r}}
    BY <1>1, <1>9, <2>1, <2>4 DEF Subscribe, Owed
  <2> QED BY <2>1, <2>2, <2>3, <2>5 DEF SignalWatch!Next, SignalWatch!Join
<1>10. ASSUME NEW r \in Subscribers, Recv(r) \/ CloseReceiver(r)
       PROVE  UNCHANGED SignalWatch!vars
  <2>1. /\ \A b \in Actors \ {r} : pc'[b] = pc[b]
        /\ \A b \in Subscribers \ {r} : chan'[b] = chan[b]
        /\ UNCHANGED <<dirty, mutex, todo, seen, noted>>
        /\ \/ pc[r] = "waiting" /\ Pending(r) /\ pc'[r] = "due"
           \/ pc[r] = "closing" /\ pc'[r] = "gone"
    BY <1>1, <1>10 DEF Recv, CloseReceiver
  <2>2. Watching' = Watching
    BY <1>1, <2>1 DEF Watching, Listening
  <2>3. Flagged' <=> Flagged
    BY <1>1, <2>1 DEF Flagged
  <2>4. Owed' = Owed
    BY <1>1, <2>1, <2>2, <2>3 DEF Owed
  <2> QED BY <1>1, <2>1, <2>4, QuietStep DEF Listening, Pending
<1>11. ASSUME NEW r \in Subscribers, Read(r)
       PROVE  SignalWatch!Next
  <2>1. /\ pc[r] = "due" /\ pc'[r] = "waiting"
        /\ \A b \in Actors \ {r} : pc'[b] = pc[b]
        /\ UNCHANGED <<dirty, mutex, todo, chan, noted>>
        /\ ~(seen'[r] < noted')
        /\ \A b \in Subscribers \ {r} : seen'[b] = seen[b]
    BY <1>1, <1>11 DEF Read, HistoriesArePast
  <2>2. Watching' = Watching /\ r \in Woken
    BY <1>1, <2>1 DEF Watching, Listening, Woken
  <2>3. Stale' = Stale \ {r}
    BY <2>1, <2>2 DEF Stale, Watching
  <2>4. Woken' \in {Woken, Woken \ {r}}
    BY <1>1, <2>1, <2>2 DEF Woken, Watching, Pending
  <2>5. Flagged' <=> Flagged
    BY <1>1, <2>1 DEF Flagged
  <2>6. Owed' = Owed
    BY <1>1, <2>1, <2>2, <2>5 DEF Owed
  <2> QED BY <2>2, <2>3, <2>4, <2>6 DEF SignalWatch!Next, SignalWatch!Look
<1>12. ASSUME NEW r \in Subscribers, Unsubscribe(r)
       PROVE  SignalWatch!Next
  <2>1. /\ r \in Watching /\ Watching' = Watching \ {r}
        /\ \A b \in Actors \ {r} : pc'[b] = pc[b]
        /\ UNCHANGED <<dirty, mutex, todo, chan, seen, noted>>
    BY <1>1, <1>12 DEF Unsubscribe, Watching, Listening
  <2>2. Stale' = Stale \ {r}
    BY <2>1 DEF Stale
  <2>3. Woken' = Woken \ {r}
    BY <1>1, <2>1 DEF Woken, Watching, Pending
  <2>4. Flagged' <=> Flagged
    BY <1>1, <2>1 DEF Flagged
  <2>5. Owed' = Owed \ {r}
    BY <1>1, <2>1, <2>4 DEF Owed
  <2> QED BY <2>1, <2>2, <2>3, <2>5 DEF SignalWatch!Next, SignalWatch!Leave
<1>13. CASE UNCHANGED vars
  <2>1. Owed' = Owed
    BY <1>13 DEF vars, Owed, Watching, Listening, Flagged
  <2> QED BY <1>13, <2>1, QuietStep DEF vars, Listening, Pending
<1> QED
  BY <1>2, <1>3, <1>4, <1>5, <1>6, <1>7, <1>8, <1>9, <1>10, <1>11, <1>12,
     <1>13 DEF Next, Thread, Broadcast, Subscriber

\* Flag, mutex, list and channels together implement module Watch.
THEOREM SignalImplementsWatch == Spec => ImplementsWatch
BY InitWatch, StepWatch, StructureHolds, PTL
   DEF Spec, ImplementsWatch, SignalWatch!Spec
=============================================================================
