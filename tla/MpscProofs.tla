------------------------------ MODULE MpscProofs ------------------------------
(***************************************************************************)
(* Facts about the operators of module Mpsc, for every buffer and every    *)
(* number of senders.  SignalProofs and HostProofs rest on them.           *)
(***************************************************************************)
EXTENDS Mpsc, TLAPS

\* A new channel is balanced: nothing in flight, nobody parked.
LEMMA EmptyBalanced ==
  ASSUME NEW Senders, NEW Messages, NEW buffer \in Nat
  PROVE  Empty \in Channels(Senders, Messages) /\ Balanced(Empty, buffer)
BY DEF Empty, Channels, Balanced

\* A push keeps the balance: the sender is parked exactly when its message is
\* one too many.
LEMMA PushBalanced ==
  ASSUME NEW Senders, NEW Messages, NEW buffer \in Nat,
         NEW s \in Senders, NEW m \in Messages,
         NEW ch \in Channels(Senders, Messages), Balanced(ch, buffer)
  PROVE  /\ Push(ch, buffer, s, m) \in Channels(Senders, Messages)
         /\ Balanced(Push(ch, buffer, s, m), buffer)
         /\ Push(ch, buffer, s, m).queue # <<>>
         /\ Len(Push(ch, buffer, s, m).queue) = Len(ch.queue) + 1
<1> DEFINE c == Push(ch, buffer, s, m)
<1>1. /\ ch.queue \in Seq(Messages)
      /\ ch.waiting \in Seq(Senders)
  BY DEF Channels
<1>2. /\ c.queue = Append(ch.queue, m)
      /\ c.waiting = IF Len(ch.queue) >= buffer THEN Append(ch.waiting, s)
                                                ELSE ch.waiting
  BY DEF Push
<1>3. /\ c.queue \in Seq(Messages)
      /\ Len(c.queue) = Len(ch.queue) + 1
      /\ Len(ch.queue) \in Nat
      /\ c.queue # <<>>
  BY <1>1, <1>2
<1>4. /\ c.waiting \in Seq(Senders)
      /\ Len(c.waiting) = IF Len(ch.queue) >= buffer THEN Len(ch.waiting) + 1
                                                     ELSE Len(ch.waiting)
      /\ Len(ch.waiting) \in Nat
  BY <1>1, <1>2
<1>5. c \in Channels(Senders, Messages)
  BY <1>3, <1>4 DEF Channels, Push
<1>6. Balanced(c, buffer)
  BY <1>3, <1>4 DEF Balanced
<1> QED BY <1>3, <1>5, <1>6

\* Taking a message keeps the balance: one parked sender, if any, is woken.
LEMMA PopBalanced ==
  ASSUME NEW Senders, NEW Messages, NEW buffer \in Nat,
         NEW ch \in Channels(Senders, Messages), Balanced(ch, buffer),
         ch.queue # <<>>
  PROVE  /\ Pop(ch) \in Channels(Senders, Messages)
         /\ Balanced(Pop(ch), buffer)
         /\ Len(Pop(ch).queue) = Len(ch.queue) - 1
<1> DEFINE c == Pop(ch)
<1>1. /\ ch.queue \in Seq(Messages)
      /\ ch.waiting \in Seq(Senders)
  BY DEF Channels
<1>2. /\ c.queue = Tail(ch.queue)
      /\ c.waiting = IF ch.waiting = <<>> THEN <<>> ELSE Tail(ch.waiting)
  BY DEF Pop
<1>3. /\ c.queue \in Seq(Messages)
      /\ Len(c.queue) = Len(ch.queue) - 1
      /\ Len(ch.queue) \in Nat \ {0}
  BY <1>1, <1>2
<1>4. /\ c.waiting \in Seq(Senders)
      /\ Len(c.waiting) = IF Len(ch.waiting) = 0 THEN 0 ELSE Len(ch.waiting) - 1
      /\ Len(ch.waiting) \in Nat
  BY <1>1, <1>2
<1>5. c \in Channels(Senders, Messages)
  BY <1>3, <1>4 DEF Channels, Pop
<1>6. Balanced(c, buffer)
  BY <1>3, <1>4 DEF Balanced
<1> QED BY <1>3, <1>5, <1>6

\* A parked sender sleeps on a queue that is over its buffer.
LEMMA ParkedOverflows ==
  ASSUME NEW Senders, NEW Messages, NEW buffer \in Nat, NEW s,
         NEW ch \in Channels(Senders, Messages), Balanced(ch, buffer),
         Parked(ch, s)
  PROVE  Len(ch.queue) > buffer
<1>1. /\ Len(ch.waiting) \in Nat \ {0}
      /\ Len(ch.queue) \in Nat
  BY DEF Parked, Channels
<1> QED BY <1>1 DEF Balanced

\* Whether or not there is room, a pending message is in the queue after
\* try_send.
LEMMA TrySendBalanced ==
  ASSUME NEW Senders, NEW Messages, NEW buffer \in Nat,
         NEW s \in Senders, NEW m \in Messages,
         NEW ch \in Channels(Senders, Messages), Balanced(ch, buffer)
  PROVE  /\ TrySend(ch, buffer, s, m) \in Channels(Senders, Messages)
         /\ Balanced(TrySend(ch, buffer, s, m), buffer)
         /\ TrySend(ch, buffer, s, m).queue # <<>>
<1>1. CASE Parked(ch, s)
  <2>1. Len(ch.queue) > buffer
    BY <1>1, ParkedOverflows
  <2>2. ch.queue # <<>>
    BY <2>1
  <2> QED BY <1>1, <2>2 DEF TrySend
<1>2. CASE ~Parked(ch, s)
  BY <1>2, PushBalanced DEF TrySend
<1> QED BY <1>1, <1>2

\* The only sender of a channel that is not parked finds room, and leaves at
\* most one message more than the buffer behind.
LEMMA SoleSenderBounded ==
  ASSUME NEW Messages, NEW buffer \in Nat, NEW s, NEW m \in Messages,
         NEW ch \in Channels({s}, Messages), Balanced(ch, buffer),
         Len(ch.queue) <= buffer + 1
  PROVE  Len(TrySend(ch, buffer, s, m).queue) <= buffer + 1
<1>1. /\ ch.waiting \in Seq({s})
      /\ Len(ch.waiting) \in Nat
      /\ Len(ch.queue) \in Nat
  BY DEF Channels
<1>2. CASE Parked(ch, s)
  BY <1>2 DEF TrySend
<1>3. CASE ~Parked(ch, s)
  <2>1. Len(ch.waiting) = 0
    <3>1. SUFFICES ASSUME Len(ch.waiting) # 0 PROVE FALSE
      OBVIOUS
    <3>2. 1 \in DOMAIN ch.waiting /\ ch.waiting[1] = s
      BY <1>1, <3>1
    <3> QED BY <1>3, <3>2 DEF Parked
  <2>2. Len(ch.queue) <= buffer
    BY <1>1, <2>1 DEF Balanced
  <2>3. Len(Push(ch, buffer, s, m).queue) = Len(ch.queue) + 1
    BY DEF Push, Channels
  <2> QED BY <1>1, <1>3, <2>2, <2>3 DEF TrySend
<1> QED BY <1>2, <1>3
=============================================================================
