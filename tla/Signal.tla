------------------------------- MODULE Signal -------------------------------
(***************************************************************************)
(* One Signal<T> of base/src/base.rs, shared by threads that write it,     *)
(* the host that flushes it and the subscribers that wait for its          *)
(* statuses.  The grain is one access to shared memory: the data behind    *)
(* its lock, the dirty flag, the subscriber list behind its mutex, one     *)
(* status channel.                                                         *)
(*                                                                         *)
(* Three things make the protocol delicate.  SignalWriter::update stores   *)
(* the flag after it has released the data.  Dropping any handle of the    *)
(* signal, a temporary writer or reader included, sends Destroyed to every *)
(* subscriber.  A status channel holds two statuses and silently refuses   *)
(* the rest.                                                               *)
(*                                                                         *)
(* The data is abstracted to its version, the number of writes so far.     *)
(***************************************************************************)
EXTENDS Naturals, Sequences, FiniteSets, Mpsc

CONSTANTS
  Threads,       \* tasks that hold handles of the signal
  Subscribers,   \* SignalSubscriber values, each created at most once
  Host,          \* the task that flushes
  Nobody,        \* the mutex is free
  MaxOps         \* bound: writes and drops one thread starts

ASSUME SignalAssumption ==
  /\ MaxOps \in Nat
  /\ Threads \cap Subscribers = {}
  /\ Host \notin Threads \cup Subscribers
  /\ Nobody \notin Threads \cup Subscribers \cup {Host}

VARIABLES
  version,      \* data: how often it was written
  noted,        \* history: last version written through SignalWriter::update
  loud,         \* history: last version written through a temporary writer
  dirty,        \* SignalRepr::dirty
  registered,   \* SignalRepr::subscribers, without its order
  mutex,        \* who holds the lock of the subscriber list
  todo,         \* subscribers the holder has still to send to
  chan,         \* status channel of each subscriber
  seen,         \* version each subscriber read last
  pc,           \* where each actor is
  ops           \* operations each thread has started

vars == <<version, noted, loud, dirty, registered, mutex, todo, chan, seen,
          pc, ops>>

Actors == Threads \cup {Host} \cup Subscribers

Statuses == {"Changed", "Destroyed"}

\* Mutant of StatusBuffer: a larger channel.
WiderBuffer == 2

\* `mpsc::channel(1)' in Signal::subscribe, with the one sender that the
\* subscriber list owns.
StatusBuffer == 1
Repr == "repr"

\* Where an actor can be.  Writers: wroteTemp and wroteKept lie between the
\* write and the store of the flag.  Broadcasters: entering waits for the mutex,
\* sending walks the list.  Subscribers: out, due to read, waiting in
\* recv_status, closing with the reader dropped but not the receiver, gone.
Places == {"idle", "wroteTemp", "wroteKept", "entering", "sending",
           "out", "due", "waiting", "closing", "gone"}

\* A subscriber between subscribe and the drop of its receiver.
Open(s) == pc[s] \in {"due", "waiting", "entering", "sending", "closing"}

\* A subscriber that still follows the signal.
Listening(s) == pc[s] \in {"due", "waiting"}

Pending(s) == chan[s].queue # <<>>

-----------------------------------------------------------------------------
Init ==
  /\ version = 0
  /\ noted = 0
  /\ loud = 0
  /\ dirty = FALSE
  /\ registered = {}
  /\ mutex = Nobody
  /\ todo = {}
  /\ chan = [s \in Subscribers |-> Empty]
  /\ seen = [s \in Subscribers |-> 0]
  /\ pc = [a \in Actors |-> IF a \in Subscribers THEN "out" ELSE "idle"]
  /\ ops = [t \in Threads |-> 0]

Goto(a, l) == pc' = [pc EXCEPT ![a] = l]

\* Mutant of Leaves: the drop of a temporary writer does not broadcast.
LeavesSilently(temp) == "idle"

\* Where a call through a writer leads: a temporary writer is dropped.
Leaves(temp) == IF temp THEN "entering" ELSE "idle"

Starts(t) ==
  /\ pc[t] = "idle"
  /\ ops[t] < MaxOps
  /\ ops' = [ops EXCEPT ![t] = @ + 1]

(***************************************************************************)
(* Writers.  `temp' tells whether the writer is a temporary, as in         *)
(* `self.name.writer().set(name)', or one that is kept.                    *)
(***************************************************************************)

\* First half of SignalWriter::update and set: the closure has run and the
\* write guard is released.
Update(t, temp) ==
  /\ Starts(t)
  /\ version' = version + 1
  /\ noted' = version + 1
  /\ loud' = IF temp THEN version + 1 ELSE loud
  /\ Goto(t, IF temp THEN "wroteTemp" ELSE "wroteKept")
  /\ UNCHANGED <<dirty, registered, mutex, todo, chan, seen>>

\* Second half: the flag is stored; a temporary writer is dropped next.
MarkDirty(t) ==
  /\ pc[t] \in {"wroteTemp", "wroteKept"}
  /\ dirty' = TRUE
  /\ Goto(t, Leaves(pc[t] = "wroteTemp"))
  /\ UNCHANGED <<version, noted, loud, registered, mutex, todo, chan, seen,
                 ops>>

\* SignalWriter::write: the caller writes through the guard and no flag is set.
WriteGuard(t, temp) ==
  /\ Starts(t)
  /\ version' = version + 1
  /\ loud' = IF temp THEN version + 1 ELSE loud
  /\ Goto(t, Leaves(temp))
  /\ UNCHANGED <<noted, dirty, registered, mutex, todo, chan, seen>>

\* A clone, a reader or the result of a getter goes out of scope.
DropHandle(t) ==
  /\ Starts(t)
  /\ Goto(t, "entering")
  /\ UNCHANGED <<version, noted, loud, dirty, registered, mutex, todo, chan,
                 seen>>

(***************************************************************************)
(* Broadcasts: the loop of Drop for Signal and the loop of __flush.        *)
(***************************************************************************)

\* __flush swaps the flag.  When it was clear, __flush does nothing.
TakeDirty ==
  /\ pc[Host] = "idle"
  /\ dirty
  /\ dirty' = FALSE
  /\ Goto(Host, "entering")
  /\ UNCHANGED <<version, noted, loud, registered, mutex, todo, chan, seen,
                 ops>>

\* Mutant of Targets: everybody who will ever subscribe.
Everybody == Subscribers

\* Whom a broadcast sends to.
Targets == registered

\* Mutant of Retained: the predicate of `retain' is inverted.
RetainedClosed == {s \in registered : pc[s] = "gone"}

\* What a flush keeps of the list: the subscribers whose receiver is open.
Retained == {s \in registered : pc[s] # "gone"}

Lock(a) ==
  /\ pc[a] = "entering"
  /\ mutex = Nobody
  /\ mutex' = a
  /\ todo' = Targets
  /\ Goto(a, "sending")
  /\ UNCHANGED <<version, noted, loud, dirty, registered, chan, seen, ops>>

\* One turn of the loop; a refused status is dropped (`.ok()').
Send(a, s) ==
  /\ pc[a] = "sending"
  /\ s \in todo
  /\ todo' = todo \ {s}
  /\ chan' = IF pc[s] = "gone" THEN chan
             ELSE [chan EXCEPT ![s] =
                     TrySend(@, StatusBuffer, Repr,
                             IF a = Host THEN "Changed" ELSE "Destroyed")]
  /\ UNCHANGED <<version, noted, loud, dirty, registered, mutex, seen, pc, ops>>

\* Mutant of Unlock: the flush clears the flag again when it has walked the list.
UnlockClearsFlag(a) ==
  /\ pc[a] = "sending"
  /\ todo = {}
  /\ mutex' = Nobody
  /\ dirty' = IF a = Host THEN FALSE ELSE dirty
  /\ registered' = IF a = Host THEN Retained ELSE registered
  /\ Goto(a, IF a \in Subscribers THEN "closing" ELSE "idle")
  /\ UNCHANGED <<version, noted, loud, todo, chan, seen, ops>>

Unlock(a) ==
  /\ pc[a] = "sending"
  /\ todo = {}
  /\ mutex' = Nobody
  /\ registered' = IF a = Host THEN Retained ELSE registered
  /\ Goto(a, IF a \in Subscribers THEN "closing" ELSE "idle")
  /\ UNCHANGED <<version, noted, loud, dirty, todo, chan, seen, ops>>

(***************************************************************************)
(* Subscribers.                                                            *)
(***************************************************************************)

\* Signal::subscribe; the new subscriber reads next.
Subscribe(s) ==
  /\ pc[s] = "out"
  /\ mutex = Nobody
  /\ registered' = registered \cup {s}
  /\ Goto(s, "due")
  /\ UNCHANGED <<version, noted, loud, dirty, mutex, todo, chan, seen, ops>>

\* recv_status returns.
Recv(s) ==
  /\ pc[s] = "waiting"
  /\ Pending(s)
  /\ chan' = [chan EXCEPT ![s] = Pop(@)]
  /\ Goto(s, "due")
  /\ UNCHANGED <<version, noted, loud, dirty, registered, mutex, todo, seen,
                 ops>>

\* The subscriber reads the data, then awaits the next status.
Read(s) ==
  /\ pc[s] = "due"
  /\ seen' = [seen EXCEPT ![s] = version]
  /\ Goto(s, "waiting")
  /\ UNCHANGED <<version, noted, loud, dirty, registered, mutex, todo, chan,
                 ops>>

\* The subscriber is dropped: its reader first, which is a handle of the
\* signal and broadcasts, then its receiver.
Unsubscribe(s) ==
  /\ Listening(s)
  /\ Goto(s, "entering")
  /\ UNCHANGED <<version, noted, loud, dirty, registered, mutex, todo, chan,
                 seen, ops>>

CloseReceiver(s) ==
  /\ pc[s] = "closing"
  /\ chan' = [chan EXCEPT ![s] = Empty]
  /\ Goto(s, "gone")
  /\ UNCHANGED <<version, noted, loud, dirty, registered, mutex, todo, seen,
                 ops>>

-----------------------------------------------------------------------------
Broadcast(a) == Lock(a) \/ Unlock(a) \/ \E s \in Subscribers : Send(a, s)

Thread(t) ==
  \/ \E temp \in BOOLEAN : Update(t, temp) \/ WriteGuard(t, temp)
  \/ MarkDirty(t)
  \/ DropHandle(t)

Subscriber(s) ==
  \/ Subscribe(s)
  \/ Recv(s)
  \/ Read(s)
  \/ Unsubscribe(s)
  \/ CloseReceiver(s)

Next ==
  \/ \E t \in Threads : Thread(t)
  \/ TakeDirty
  \/ \E a \in Actors : Broadcast(a)
  \/ \E s \in Subscribers : Subscriber(s)

Spec == Init /\ [][Next]_vars

\* A started call goes on, a subscriber in its loop receives and reads.  The
\* environment may stop writing, flushing, subscribing and dropping.
Fairness ==
  /\ \A t \in Threads : WF_vars(MarkDirty(t))
  /\ \A a \in Actors : WF_vars(Broadcast(a))
  /\ \A s \in Subscribers : WF_vars(Recv(s) \/ Read(s) \/ CloseReceiver(s))

FairSpec == Spec /\ Fairness

-----------------------------------------------------------------------------
(***************************************************************************)
(* Properties.                                                             *)
(***************************************************************************)

TypeOK ==
  /\ version \in Nat
  /\ noted \in Nat
  /\ loud \in Nat
  /\ dirty \in BOOLEAN
  /\ registered \in SUBSET Subscribers
  /\ mutex \in Actors \cup {Nobody}
  /\ todo \in SUBSET registered
  /\ chan \in [Subscribers -> Channels({Repr}, Statuses)]
  /\ seen \in [Subscribers -> Nat]
  /\ pc \in [Actors -> Places]
  /\ ops \in [Threads -> Nat]

\* The subscriber list is walked by one task at a time: whoever walks it holds
\* the mutex (the guard in __flush, in Drop and in subscribe).
OneBroadcaster ==
  /\ \A a \in Actors : pc[a] = "sending" <=> mutex = a
  /\ mutex = Nobody => todo = {}

\* The list never loses a subscriber whose receiver is open, whatever flushes
\* and drops do meanwhile: `retain' only removes closed ones.  This is also why
\* recv_status never returns None while its SignalSubscriber exists.
LiveStaysRegistered == \A s \in Subscribers : Open(s) => s \in registered

\* A status channel never holds more than two statuses, and the sender in the
\* list is parked exactly while it holds two: a refused status always finds a
\* pending one.
StatusesBounded ==
  \A s \in Subscribers : Len(chan[s].queue) <= 2 /\ Balanced(chan[s], StatusBuffer)

\* A write through update or set is on its way to the host's flush.
Flagged ==
  \/ dirty
  \/ \E t \in Threads : pc[t] \in {"wroteTemp", "wroteKept"}

\* No lost wake-up: a subscriber asleep in recv_status that has not read the
\* last value written through update or set has a status pending, or the flag
\* is set or about to be, or a flush has taken the flag and not reached it yet.
\* The flag is stored after the data and cleared before the list is walked; the
\* other order would lose updates.
NoLostUpdate ==
  \A s \in Subscribers :
    pc[s] = "waiting" /\ seen[s] < noted =>
      \/ Pending(s)
      \/ Flagged
      \/ pc[Host] = "entering"
      \/ mutex = Host /\ s \in todo

\* A write through a temporary writer is announced even if nobody flushes: the
\* drop of the writer, which comes after the write, sends Destroyed.
DropAnnounces ==
  \A s \in Subscribers :
    pc[s] = "waiting" /\ seen[s] < loud =>
      \/ Pending(s)
      \/ \E t \in Threads : pc[t] = "wroteTemp"
      \/ \E a \in Actors : pc[a] = "entering"
      \/ s \in todo

\* Once a flush has taken the flag, every subscriber reads the value that was
\* published then or a later one, or is dropped, however many statuses its
\* channel refuses.
FlushReachesAll ==
  \A s \in Subscribers, v \in 1 .. MaxOps * Cardinality(Threads) :
    pc[Host] = "entering" /\ noted = v /\ Listening(s)
      ~> seen[s] >= v \/ ~Listening(s)

\* The value written through a temporary writer reaches every subscriber with
\* no flush at all.
DropReachesAll ==
  \A s \in Subscribers, v \in 1 .. MaxOps * Cardinality(Threads) :
    loud = v /\ Listening(s) ~> seen[s] >= v \/ ~Listening(s)

-----------------------------------------------------------------------------
(***************************************************************************)
(* Refinement: the signal as a level-triggered notification.               *)
(***************************************************************************)
Watching == {s \in Subscribers : Listening(s)}

Stale == {s \in Watching : seen[s] < noted}

Woken == {s \in Watching : Pending(s) \/ pc[s] = "due"}

Owed == IF Flagged \/ pc[Host] = "entering" THEN Watching
        ELSE IF mutex = Host THEN todo \cap Watching ELSE {}

SignalWatch == INSTANCE Watch WITH
  Watchers <- Subscribers, watching <- Watching,
  stale <- Stale, woken <- Woken, owed <- Owed

\* The protocol of flag, mutex, list and channels implements the notification
\* that module Watch promises.
ImplementsWatch == SignalWatch!Spec
=============================================================================
