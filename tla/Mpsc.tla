-------------------------------- MODULE Mpsc --------------------------------
(***************************************************************************)
(* The bounded channel of futures::channel::mpsc, as far as its callers in *)
(* base/src/dispatcher.rs (the mailbox of the host) and base/src/base.rs   *)
(* (the status channel of a subscriber) can observe it.                    *)
(*                                                                         *)
(* A channel is a record: the messages in flight, oldest first, and the    *)
(* senders that are parked, in the order in which they will be woken.  A   *)
(* push always succeeds, but the sender of a message that finds `buffer'   *)
(* messages already in the queue is parked, and a parked sender may not    *)
(* push again.  So the queue can exceed `buffer' by one message per        *)
(* sender.  Taking a message wakes the sender that has been parked for the *)
(* longest time.                                                           *)
(***************************************************************************)
EXTENDS Naturals, Sequences

Channels(Senders, Messages) ==
  [queue : Seq(Messages), waiting : Seq(Senders)]

Empty == [queue |-> <<>>, waiting |-> <<>>]

\* Mutant of Parked: a sender is never blocked.
NeverParked(ch, s) == FALSE

Parked(ch, s) == \E i \in DOMAIN ch.waiting : ch.waiting[i] = s

Push(ch, buffer, s, m) ==
  [queue   |-> Append(ch.queue, m),
   waiting |-> IF Len(ch.queue) >= buffer THEN Append(ch.waiting, s)
                                          ELSE ch.waiting]

\* `try_send' reports "full" to a parked sender and leaves the channel alone.
TrySend(ch, buffer, s, m) ==
  IF Parked(ch, s) THEN ch ELSE Push(ch, buffer, s, m)

\* Mutant of Pop: taking a message wakes nobody.
PopWakesNobody(ch) == [ch EXCEPT !.queue = Tail(@)]

Pop(ch) ==
  [queue   |-> Tail(ch.queue),
   waiting |-> IF ch.waiting = <<>> THEN <<>> ELSE Tail(ch.waiting)]

\* One sender is parked for each message beyond the buffer: nobody sleeps
\* without a message whose departure wakes it.
Balanced(ch, buffer) ==
  Len(ch.waiting) = IF Len(ch.queue) > buffer THEN Len(ch.queue) - buffer
                                              ELSE 0
=============================================================================
