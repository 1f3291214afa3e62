------------------------------ MODULE HostProofs ------------------------------
(***************************************************************************)
(* Theorems about module Host, for every number of clients, interceptors   *)
(* and signals, every buffer and whatever updates emit.                    *)
(***************************************************************************)
EXTENDS Host, MpscProofs, SequenceTheorems, FiniteSetTheorems

(***************************************************************************)
(* Sequences.                                                              *)
(***************************************************************************)

\* What is appended to a concatenation is appended to its second part.
LEMMA AppendConcat ==
  ASSUME NEW S, NEW s \in Seq(S), NEW t \in Seq(S), NEW e \in S
  PROVE  s \o Append(t, e) = Append(s \o t, e)
<1>1. s \o t \in Seq(S) /\ <<e>> \in Seq(S)
  BY ConcatProperties
<1>2. Append(s \o t, e) = (s \o t) \o <<e>>
  BY <1>1, AppendIsConcat
<1>3. (s \o t) \o <<e>> = s \o (t \o <<e>>)
  BY <1>1, ConcatAssociative
<1>4. t \o <<e>> = Append(t, e)
  BY AppendIsConcat
<1> QED BY <1>2, <1>3, <1>4

\* A sequence is a prefix of what is built behind it.
LEMMA PrefixOfConcat ==
  ASSUME NEW S, NEW s \in Seq(S), NEW t \in Seq(S)
  PROVE  IsPrefix(s, s \o t)
<1>1. Len(s) <= Len(s \o t) /\ Len(s) \in Nat
  BY ConcatProperties, LenProperties
<1>2. SubSeq(s, 1, Len(s)) = SubSeq(s \o t, 1, Len(s))
  <2>1. CASE Len(s) = 0
    BY <2>1, SubSeqEmpty
  <2>2. CASE Len(s) # 0
    <3>1. 1 \in 1 .. Len(s) /\ Len(s) \in 1 .. Len(s)
      BY <1>1, <2>2
    <3> QED BY <3>1, SubSeqOfConcat1
  <2> QED BY <2>1, <2>2
<1> QED BY <1>1, <1>2 DEF IsPrefix

\* The first of three parts is a prefix.
LEMMA PrefixOfConcat3 ==
  ASSUME NEW S, NEW h \in Seq(S), NEW c \in Seq(S), NEW q \in Seq(S)
  PROVE  IsPrefix(h, (h \o c) \o q)
<1>1. c \o q \in Seq(S)
  BY ConcatProperties
<1>2. (h \o c) \o q = h \o (c \o q)
  BY ConcatAssociative
<1>3. IsPrefix(h, h \o (c \o q))
  BY <1>1, PrefixOfConcat
<1> QED BY <1>2, <1>3

\* Moving the head of a queue in front of it changes nothing.
LEMMA MoveHead ==
  ASSUME NEW S, NEW s \in Seq(S), NEW q \in Seq(S), q # <<>>
  PROVE  (s \o <<Head(q)>>) \o Tail(q) = s \o q
<1>1. Head(q) \in S /\ Tail(q) \in Seq(S) /\ <<Head(q)>> \in Seq(S)
  BY HeadTailProperties
<1>2. <<Head(q)>> \o Tail(q) = q
  <2>1. /\ <<Head(q)>> \o Tail(q) \in Seq(S)
        /\ Len(<<Head(q)>> \o Tail(q)) = Len(q)
        /\ \A i \in 1 .. Len(q) : (<<Head(q)>> \o Tail(q))[i] = q[i]
    BY <1>1
  <2> QED BY <2>1, SeqEqual
<1>3. (s \o <<Head(q)>>) \o Tail(q) = s \o (<<Head(q)>> \o Tail(q))
  BY <1>1, ConcatAssociative
<1> QED BY <1>2, <1>3

\* What an append adds to the elements.
LEMMA ToSetOfAppend ==
  ASSUME NEW S, NEW s \in Seq(S), NEW e \in S
  PROVE  ToSet(Append(s, e)) = ToSet(s) \cup {e}
<1>1. /\ DOMAIN s = 1 .. Len(s) /\ Len(s) \in Nat
      /\ DOMAIN Append(s, e) = 1 .. Len(s) + 1
  BY LenProperties, AppendProperties
<1>2. /\ \A i \in 1 .. Len(s) : Append(s, e)[i] = s[i]
      /\ Append(s, e)[Len(s) + 1] = e
  BY AppendProperties
<1>3. ToSet(s) \cup {e} \subseteq ToSet(Append(s, e))
  BY <1>1, <1>2 DEF ToSet
<1>4. ASSUME NEW i \in DOMAIN Append(s, e)
      PROVE  Append(s, e)[i] \in ToSet(s) \cup {e}
  <2>1. i = Len(s) + 1 \/ i \in 1 .. Len(s)
    BY <1>1
  <2> QED BY <1>1, <1>2, <2>1 DEF ToSet
<1> QED BY <1>3, <1>4 DEF ToSet

-----------------------------------------------------------------------------
(***************************************************************************)
(* The inductive invariant, in seven parts.                                *)
(***************************************************************************)

\* The host is alive exactly while its receiver exists.
Life == open <=> host # "dead"

\* Who may be parked: a client, a clone through which a command gave up a send,
\* and the clone of a round while one of its commands waits for its send.
Holders == Clients \cup givenUp \cup {u \in {Updater} : host = "sending"}

\* The mailbox: one parked updater per message beyond the buffer, none parked
\* twice.
Mailbox ==
  /\ Balanced(mail, Buffer)
  /\ IsFiniteSet(givenUp)
  /\ \A i \in DOMAIN mail.waiting : mail.waiting[i] \in Holders
  /\ \A i, j \in DOMAIN mail.waiting :
       mail.waiting[i] = mail.waiting[j] => i = j

\* The clones: none is parked before its round, and while the one of this round
\* is, the last send of a command has not returned.
SelfSends ==
  /\ \A k \in Nat : Parked(mail, <<Self, k>>) => k <= Len(handled)
  /\ host \in {"accumulate", "commands", "sending"} /\ Parked(mail, Updater) =>
       Latest(Self) \notin ok

\* The messages, and what the interceptors have seen of them.
Order ==
  /\ IF host = "intercept" THEN Len(current) = 1 ELSE current = <<>>
  /\ FifoExactlyOnce
  /\ InterceptorsSeeFirst

\* The round: where commands, collected signals and flags can be left.
Round ==
  /\ host \in {"recv", "intercept", "flush"} =>
       commands = <<>> /\ dirty \cap Own \subseteq signals
  /\ host \in {"recv", "intercept", "accumulate"} => signals = {}
  /\ host \in {"commands", "sending"} => signals = Own
  /\ host = "sending" => commands # <<>>

\* The answers: a message that is being fed has not been taken, one that is
\* being flushed has, and nothing is refused while the host lives.
Answers ==
  /\ \A s \in Senders, n \in Nat : <<s, n>> \in ToSet(accepted) => n <= sent[s]
  /\ \A c \in Clients : st[c] = "feeding" => Latest(c) \notin ToSet(accepted)
  /\ \A c \in Clients : st[c] = "flushing" => Latest(c) \in ToSet(accepted)
  /\ host = "sending" => Latest(Self) \in ToSet(accepted)
  /\ open => refused = {}
  /\ AnswersAreTrue

Inv == TypeOK /\ Life /\ Mailbox /\ SelfSends /\ Order /\ Round /\ Answers

USE DEF vars, mailVars, clientVars, roundVars

LEMMA InitInv == Init => Inv
<1> SUFFICES ASSUME Init PROVE Inv
  OBVIOUS
<1> USE HostAssumption DEF Init
<1>1. Empty \in Channels(Updaters, Messages) /\ Balanced(Empty, Buffer)
  BY EmptyBalanced
<1>2. TypeOK
  BY <1>1, EmptySeq DEF TypeOK
<1>3. Life
  BY DEF Life
<1>4. Mailbox /\ SelfSends
  BY <1>1, FS_EmptySet DEF Mailbox, SelfSends, Empty, Parked
<1>5. Order
  <2>1. IsPrefix(<<>>, <<>> \o <<>>)
    BY PrefixOfConcat, EmptySeq
  <2>2. <<>> \o <<>> = <<>> /\ (<<>> \o <<>>) \o <<>> = <<>>
    BY ConcatEmptySeq, EmptySeq
  <2>3. mail.queue = <<>>
    BY DEF Empty
  <2> QED BY <2>1, <2>2, <2>3
          DEF Order, FifoExactlyOnce, InterceptorsSeeFirst
<1>6. Round
  BY DEF Round
<1>7. Answers
  BY DEF Answers, AnswersAreTrue, ToSet
<1> QED BY <1>2, <1>3, <1>4, <1>5, <1>6, <1>7 DEF Inv

\* What delivering a message does to the channel and to its history.
LEMMA DeliverFacts ==
  ASSUME TypeOK, Mailbox, NEW s \in Updaters, NEW m \in Messages, Deliver(s, m)
  PROVE  /\ mail' \in Channels(Updaters, Messages)
         /\ accepted' \in Seq(Messages)
         /\ Balanced(mail', Buffer)
         /\ mail'.queue = Append(mail.queue, m)
         /\ mail'.waiting \in {mail.waiting, Append(mail.waiting, s)}
         /\ accepted' = Append(accepted, m)
         /\ ToSet(accepted') = ToSet(accepted) \cup {m}
<1> USE HostAssumption DEF TypeOK, Mailbox, Deliver
<1>1. mail' \in Channels(Updaters, Messages) /\ Balanced(mail', Buffer)
  BY PushBalanced
<1>2. accepted' \in Seq(Messages) /\ ToSet(accepted') = ToSet(accepted) \cup {m}
  BY AppendProperties, ToSetOfAppend
<1> QED BY <1>1, <1>2 DEF Push

\* What taking a message does.
LEMMA TakeFacts ==
  ASSUME TypeOK, Mailbox, mail.queue # <<>>
  PROVE  /\ Pop(mail) \in Channels(Updaters, Messages)
         /\ Balanced(Pop(mail), Buffer)
         /\ Head(mail.queue) \in Messages
         /\ <<Head(mail.queue)>> \in Seq(Messages)
<1>1. mail.queue \in Seq(Messages)
  BY DEF TypeOK, Channels
<1>2. Head(mail.queue) \in Messages
  BY <1>1, HeadTailProperties
<1> QED BY <1>2, PopBalanced, HostAssumption DEF TypeOK, Mailbox

\* The updater of a round is one of the clones.
LEMMA UpdaterIsClone ==
  ASSUME TypeOK
  PROVE  Len(handled) \in Nat /\ Updater \in Clones /\ Updater \in Updaters
BY DEF TypeOK, Updater, Clones, Updaters

-----------------------------------------------------------------------------
LEMMA StepTypes == Inv /\ [Next]_vars => TypeOK'
<1> SUFFICES ASSUME Inv, [Next]_vars PROVE TypeOK'
  OBVIOUS
<1> USE HostAssumption DEF Inv, TypeOK
<1>1. \A s \in Senders : Latest(s) \in Messages
  BY DEF Latest, Messages
<1>2. ASSUME NEW c \in Clients, SendStart(c) PROVE TypeOK'
  <2>1. c \in Senders
    BY DEF Senders
  <2>2. sent' \in [Senders -> Nat]
    <3>1. sent[c] + 1 \in Nat
      BY <2>1
    <3> QED BY <1>2, <3>1 DEF SendStart
  <2> QED BY <1>2, <2>2 DEF SendStart
<1>3. ASSUME NEW c \in Clients, Feed(c) PROVE TypeOK'
  <2>1. c \in Senders /\ c \in Updaters
    BY DEF Senders, Updaters
  <2>2. mail' \in Channels(Updaters, Messages) /\ accepted' \in Seq(Messages)
    BY <1>1, <1>3, <2>1, DeliverFacts DEF Feed
  <2> QED BY <1>3, <2>2 DEF Feed
<1>4. ASSUME NEW c \in Clients, SendReturns(c) PROVE TypeOK'
  BY <1>1, <1>4 DEF SendReturns, Senders
<1>5. ASSUME NEW c \in Clients, NEW p \in BOOLEAN, SendFails(c, p) PROVE TypeOK'
  <2>1. st' \in [Clients -> {"idle", "feeding", "flushing", "gone"}]
    BY <1>5 DEF SendFails
  <2>2. refused' \in SUBSET Messages
    BY <1>1, <1>5 DEF SendFails, Senders
  <2> QED BY <1>5, <2>1, <2>2 DEF SendFails
<1>6. ASSUME NEW c \in Clients, Abandon(c) \/ DropUpdater(c) PROVE TypeOK'
  BY <1>6 DEF Abandon, DropUpdater
<1>7. CASE RunOnce
  <2>1. /\ Pop(mail) \in Channels(Updaters, Messages)
        /\ <<Head(mail.queue)>> \in Seq(Messages)
    BY <1>7, TakeFacts DEF RunOnce
  <2>2. mail' = Pop(mail) /\ current' = <<Head(mail.queue)>>
    BY <1>7 DEF RunOnce
  <2>3. turn' \in 0 .. Interceptors /\ host' = "intercept"
    BY <1>7 DEF RunOnce
  <2> QED BY <1>7, <2>1, <2>2, <2>3 DEF RunOnce
<1>8. CASE Intercept
  <2>1. turn + 1 \in 1 .. Interceptors
    BY <1>8 DEF Intercept
  <2>2. observed[turn + 1] \o current \in Seq(Messages)
    BY <2>1, ConcatProperties
  <2>3. observed' \in [1 .. Interceptors -> Seq(Messages)]
    BY <1>8, <2>1, <2>2 DEF Intercept
  <2> QED BY <1>8, <2>1, <2>3 DEF Intercept
<1>9. ASSUME NEW emitted \in CommandLists, NEW written \in SUBSET Signals,
             Update(emitted, written)
      PROVE  TypeOK'
  <2>1. commands \o emitted \in Seq(Commands)
    BY ConcatProperties
  <2>2. handled \o current \in Seq(Messages) /\ <<>> \in Seq(Messages)
    BY ConcatProperties
  <2> QED BY <1>9, <2>1, <2>2 DEF Update
<1>10. CASE Accumulate
  BY <1>10 DEF Accumulate
<1>11. ASSUME NEW written \in SUBSET Signals, ApplyPlain(written) \/ ApplyState
       PROVE  TypeOK'
  <2>1. Tail(commands) \in Seq(Commands)
    BY <1>11, HeadTailProperties DEF ApplyPlain, ApplyState, Applying
  <2> QED BY <1>11, <2>1 DEF ApplyPlain, ApplyState
<1>12. CASE ApplySend
  <2>1. Self \in Senders /\ sent[Self] \in Nat
    BY DEF Senders
  <2>2. <<Self, sent[Self] + 1>> \in Messages
    BY <2>1 DEF Messages
  <2>3. mail' \in Channels(Updaters, Messages) /\ accepted' \in Seq(Messages)
    BY <1>12, <2>2, UpdaterIsClone, DeliverFacts DEF ApplySend
  <2>4. sent' \in [Senders -> Nat]
    BY <1>12, <2>1 DEF ApplySend
  <2> QED BY <1>12, <2>3, <2>4 DEF ApplySend
<1>13. CASE SelfSendReturns \/ GiveUpSelfSend
  <2>1. commands # <<>>
    BY <1>13 DEF SelfSendReturns, GiveUpSelfSend, Stuck, Applying, Round
  <2>2. Tail(commands) \in Seq(Commands)
    BY <2>1, HeadTailProperties
  <2>3. Updater \in Clones /\ Self \in Senders
    BY UpdaterIsClone DEF Senders
  <2>4. ok' \in SUBSET Messages /\ givenUp' \in SUBSET Clones
    BY <1>1, <1>13, <2>3 DEF SelfSendReturns, GiveUpSelfSend
  <2> QED BY <1>13, <2>2, <2>4 DEF SelfSendReturns, GiveUpSelfSend
<1>14. ASSUME StartFlush \/ EndRound PROVE TypeOK'
  BY <1>14 DEF StartFlush, EndRound
<1>15. ASSUME NEW sig \in Signals, Flush(sig) PROVE TypeOK'
  BY <1>15 DEF Flush
<1>16. CASE Panic \/ DropHost
  <2>1. Close
    BY <1>16 DEF Panic, DropHost
  <2> QED BY <2>1, EmptyBalanced, EmptySeq DEF Close
<1>17. CASE UNCHANGED vars
  BY <1>17
<1> QED
  BY <1>2, <1>3, <1>4, <1>5, <1>6, <1>7, <1>8, <1>9, <1>10, <1>11, <1>12,
     <1>13, <1>14, <1>15, <1>16, <1>17 DEF Next, Client, HostStep

LEMMA StepLife == Inv /\ [Next]_vars => Life'
<1> SUFFICES ASSUME Inv, [Next]_vars PROVE Life'
  OBVIOUS
<1> USE DEF Inv, Life
<1>1. ASSUME NEW c \in Clients, Client(c) PROVE Life'
  BY <1>1 DEF Client, SendStart, Feed, SendReturns, SendFails, Abandon,
              DropUpdater
<1>2. CASE Panic \/ DropHost
  BY <1>2 DEF Panic, DropHost, Close
<1>3. CASE UNCHANGED vars
  BY <1>3
<1>4. CASE HostStep
  BY <1>4
     DEF HostStep, RunOnce, Intercept, Update, Accumulate, ApplyPlain,
         ApplyState, ApplySend, SelfSendReturns, StartFlush, Flush, EndRound,
         Applying
<1>5. CASE GiveUpSelfSend
  BY <1>5 DEF GiveUpSelfSend, Stuck, Applying
<1> QED BY <1>1, <1>2, <1>3, <1>4, <1>5 DEF Next

\* Who takes a message out of the mailbox: the waiting ones move up by one.
LEMMA WaitingAfterPop ==
  ASSUME TypeOK, RunOnce
  PROVE  /\ DOMAIN mail'.waiting \subseteq Nat
         /\ \A i \in DOMAIN mail'.waiting :
              /\ i + 1 \in DOMAIN mail.waiting
              /\ mail'.waiting[i] = mail.waiting[i + 1]
<1>1. mail.waiting \in Seq(Updaters) /\ mail' = Pop(mail)
  BY DEF TypeOK, Channels, RunOnce
<1>2. CASE mail.waiting = <<>>
  BY <1>1, <1>2 DEF Pop
<1>3. CASE mail.waiting # <<>>
  <2>1. mail'.waiting = Tail(mail.waiting)
    BY <1>1, <1>3 DEF Pop
  <2>2. /\ DOMAIN mail'.waiting = 1 .. Len(mail.waiting) - 1
        /\ DOMAIN mail.waiting = 1 .. Len(mail.waiting)
        /\ Len(mail.waiting) \in Nat
    BY <1>1, <1>3, <2>1, HeadTailProperties, LenProperties
  <2>3. \A i \in 1 .. Len(mail.waiting) - 1 : mail'.waiting[i] = mail.waiting[i + 1]
    BY <1>1, <1>3, <2>1, HeadTailProperties
  <2> QED BY <2>2, <2>3
<1> QED BY <1>2, <1>3

\* Who pushes a message: at most itself is added to the waiting ones.
LEMMA WaitingAfterPush ==
  ASSUME TypeOK, Mailbox, NEW u \in Updaters, NEW m \in Messages, Deliver(u, m)
  PROVE  /\ \A i \in DOMAIN mail.waiting :
              i \in DOMAIN mail'.waiting /\ mail'.waiting[i] = mail.waiting[i]
         /\ \A i \in DOMAIN mail'.waiting :
              i \in DOMAIN mail.waiting
              \/ (mail'.waiting[i] = u /\ i = Len(mail.waiting) + 1)
<1>1. /\ mail.waiting \in Seq(Updaters)
      /\ mail'.waiting \in {mail.waiting, Append(mail.waiting, u)}
  BY DeliverFacts DEF TypeOK, Channels
<1>2. CASE mail'.waiting = mail.waiting
  BY <1>2
<1>3. CASE mail'.waiting = Append(mail.waiting, u)
  <2> DEFINE n == Len(mail.waiting)
  <2>1. n \in Nat /\ DOMAIN mail.waiting = 1 .. n
    BY <1>1
  <2>2. /\ DOMAIN mail'.waiting = 1 .. n + 1
        /\ \A i \in 1 .. n : mail'.waiting[i] = mail.waiting[i]
        /\ mail'.waiting[n + 1] = u
    BY <1>1, <1>3, AppendProperties
  <2> QED BY <2>1, <2>2
<1> QED BY <1>1, <1>2, <1>3

LEMMA StepMailbox == Inv /\ [Next]_vars => Mailbox'
<1> SUFFICES ASSUME Inv, [Next]_vars PROVE Mailbox'
  OBVIOUS
<1> USE DEF Inv
<1>1. ASSUME NEW u \in Updaters, ~Parked(mail, u), NEW m \in Messages,
             Deliver(u, m), Holders \subseteq Holders', u \in Holders',
             givenUp' = givenUp
      PROVE  Mailbox'
  <2>1. Balanced(mail', Buffer)
    BY <1>1, DeliverFacts
  <2>2. /\ \A i \in DOMAIN mail.waiting :
             i \in DOMAIN mail'.waiting /\ mail'.waiting[i] = mail.waiting[i]
        /\ \A i \in DOMAIN mail'.waiting :
             i \in DOMAIN mail.waiting
             \/ (mail'.waiting[i] = u /\ i = Len(mail.waiting) + 1)
    BY <1>1, WaitingAfterPush
  <2>3. \A i \in DOMAIN mail'.waiting : mail'.waiting[i] \in Holders'
    BY <1>1, <2>2 DEF Mailbox
  <2>4. \A i \in DOMAIN mail.waiting : mail'.waiting[i] # u
    BY <1>1, <2>2 DEF Parked
  <2>5. \A i, j \in DOMAIN mail'.waiting :
          mail'.waiting[i] = mail'.waiting[j] => i = j
    <3> SUFFICES ASSUME NEW i \in DOMAIN mail'.waiting,
                        NEW j \in DOMAIN mail'.waiting,
                        mail'.waiting[i] = mail'.waiting[j]
                 PROVE  i = j
      OBVIOUS
    <3>1. CASE i \in DOMAIN mail.waiting /\ j \in DOMAIN mail.waiting
      BY <2>2, <3>1 DEF Mailbox
    <3>2. CASE i \notin DOMAIN mail.waiting \/ j \notin DOMAIN mail.waiting
      BY <2>2, <2>4, <3>2
    <3> QED BY <3>1, <3>2
  <2> QED BY <1>1, <2>1, <2>3, <2>5 DEF Mailbox
<1>2. ASSUME NEW c \in Clients, Feed(c) PROVE Mailbox'
  <2>1. c \in Updaters /\ Latest(c) \in Messages /\ Updater' = Updater
    BY <1>2 DEF Feed, Updaters, Latest, Senders, Messages, TypeOK, Updater
  <2>2. Holders' = Holders /\ c \in Holders /\ givenUp' = givenUp
    BY <1>2, <2>1 DEF Feed, Holders
  <2> QED BY <1>1, <1>2, <2>1, <2>2 DEF Feed
<1>3. CASE ApplySend
  <2>1. host = "commands" /\ host' = "sending" /\ Updater' = Updater /\ givenUp' = givenUp
    BY <1>3 DEF ApplySend, Applying, Updater
  <2>2. <<Self, sent[Self] + 1>> \in Messages /\ Updater \in Updaters
    BY UpdaterIsClone DEF Messages, Senders, TypeOK
  <2>3. Holders \subseteq Holders' /\ Updater \in Holders'
    BY <2>1 DEF Holders
  <2> QED BY <1>1, <1>3, <2>1, <2>2, <2>3 DEF ApplySend
<1>4. CASE RunOnce
  <2>1. mail' = Pop(mail) /\ Balanced(Pop(mail), Buffer)
    BY <1>4, TakeFacts DEF RunOnce
  <2>2. /\ DOMAIN mail'.waiting \subseteq Nat
        /\ \A i \in DOMAIN mail'.waiting :
             /\ i + 1 \in DOMAIN mail.waiting
             /\ mail'.waiting[i] = mail.waiting[i + 1]
    BY <1>4, WaitingAfterPop
  <2>3. Holders \subseteq Holders' /\ givenUp' = givenUp
    BY <1>4 DEF RunOnce, Holders
  <2>4. \A i \in DOMAIN mail'.waiting : mail'.waiting[i] \in Holders'
    BY <2>2, <2>3 DEF Mailbox
  <2>5. ASSUME NEW i \in DOMAIN mail'.waiting, NEW j \in DOMAIN mail'.waiting,
               mail'.waiting[i] = mail'.waiting[j]
        PROVE  i = j
    <3>1. i + 1 = j + 1
      BY <2>2, <2>5 DEF Mailbox
    <3> QED BY <2>2, <3>1
  <2> QED BY <2>1, <2>3, <2>4, <2>5 DEF Mailbox
<1>5. CASE SelfSendReturns
  <2>1. \A i \in DOMAIN mail.waiting : mail.waiting[i] # Updater
    BY <1>5 DEF SelfSendReturns, Parked
  <2>2. \A i \in DOMAIN mail.waiting : mail.waiting[i] \in Holders'
    BY <1>5, <2>1 DEF SelfSendReturns, Mailbox, Holders
  <2> QED BY <1>5, <2>2 DEF SelfSendReturns, Mailbox
<1>6. CASE GiveUpSelfSend
  <2>1. Holders \subseteq Holders'
    BY <1>6 DEF GiveUpSelfSend, Holders
  <2>2. IsFiniteSet(givenUp')
    BY <1>6, FS_AddElement DEF GiveUpSelfSend, Mailbox
  <2> QED BY <1>6, <2>1, <2>2 DEF GiveUpSelfSend, Mailbox
<1>7. CASE Panic \/ DropHost
  <2>1. mail' = Empty /\ givenUp' = givenUp
    BY <1>7 DEF Panic, DropHost, Close
  <2> QED BY <2>1, EmptyBalanced, HostAssumption DEF Mailbox, Empty
<1>8. ASSUME mail' = mail, givenUp' = givenUp,
             host = "sending" => host' = "sending" /\ handled' = handled
      PROVE  Mailbox'
  <2>1. Holders \subseteq Holders'
    BY <1>8 DEF Holders, Updater
  <2> QED BY <1>8, <2>1 DEF Mailbox
<1> QED
  BY <1>2, <1>3, <1>4, <1>5, <1>6, <1>7, <1>8
     DEF Next, Client, HostStep, SendStart, SendReturns, SendFails, Abandon,
         DropUpdater, Intercept, Update, Accumulate, ApplyPlain, ApplyState,
         Applying, StartFlush, Flush, EndRound

\* The clones.
LEMMA StepSelfSends == Inv /\ [Next]_vars => SelfSends'
<1> SUFFICES ASSUME Inv, [Next]_vars PROVE SelfSends'
  OBVIOUS
<1> USE DEF Inv, SelfSends
<1>1. /\ Self \in Senders /\ sent[Self] \in Nat
      /\ \A c \in Clients : c # Self /\ c \in Updaters /\ c \notin Clones
      /\ \A c \in Clients : Latest(c) \in Messages
      /\ \A k \in Nat : <<Self, k>> \in Clones
  BY HostAssumption DEF Senders, Updaters, Clones, Latest, Messages, TypeOK
<1>2. Len(handled) \in Nat
  BY DEF TypeOK
<1>3. ASSUME NEW c \in Clients, Feed(c) PROVE SelfSends'
  <2>1. \A k \in Nat : Parked(mail', <<Self, k>>) => Parked(mail, <<Self, k>>)
    <3> SUFFICES ASSUME NEW k \in Nat, NEW i \in DOMAIN mail'.waiting,
                        mail'.waiting[i] = <<Self, k>>
                 PROVE  Parked(mail, <<Self, k>>)
      BY DEF Parked
    <3>1. c # <<Self, k>>
      BY <1>1
    <3>2. i \in DOMAIN mail.waiting /\ mail.waiting[i] = mail'.waiting[i]
      BY <1>1, <1>3, <3>1, WaitingAfterPush DEF Feed
    <3> QED BY <3>2 DEF Parked
  <2> QED BY <1>2, <1>3, <2>1 DEF Feed, Updater, Latest
<1>4. CASE RunOnce
  <2>1. ASSUME NEW k \in Nat, Parked(mail', <<Self, k>>) PROVE k <= Len(handled')
    <3>1. PICK i \in DOMAIN mail'.waiting : mail'.waiting[i] = <<Self, k>>
      BY <2>1 DEF Parked
    <3>2. i + 1 \in DOMAIN mail.waiting /\ mail.waiting[i + 1] = <<Self, k>>
      BY <1>4, <3>1, WaitingAfterPop
    <3>3. Parked(mail, <<Self, k>>)
      BY <3>2 DEF Parked
    <3> QED BY <1>4, <3>3 DEF RunOnce
  <2> QED BY <1>4, <2>1 DEF RunOnce
<1>5. ASSUME NEW emitted \in CommandLists, NEW written \in SUBSET Signals,
             Update(emitted, written)
      PROVE  SelfSends'
  <2>1. /\ handled' = handled \o current /\ mail' = mail /\ host = "intercept"
        /\ handled \in Seq(Messages) /\ current \in Seq(Messages)
    BY <1>5 DEF Update, TypeOK
  <2>2. Len(handled') = Len(handled) + 1
    BY <2>1, ConcatProperties DEF Order
  <2>3. \A k \in Nat : Parked(mail', <<Self, k>>) => k <= Len(handled)
    BY <2>1
  <2>4. ~Parked(mail, Updater)'
    <3>1. ~(Len(handled) + 1 <= Len(handled)) /\ Len(handled) + 1 \in Nat
      BY <1>2
    <3>2. Updater' = <<Self, Len(handled) + 1>>
      BY <2>2 DEF Updater
    <3> QED BY <2>3, <3>1, <3>2
  <2> QED BY <1>2, <2>2, <2>3, <2>4
<1>6. CASE ApplySend
  <2>1. Deliver(Updater, <<Self, sent[Self] + 1>>) /\ <<Self, sent[Self] + 1>> \in Messages
    BY <1>1, <1>6 DEF ApplySend, Messages
  <2>2. ASSUME NEW k \in Nat, Parked(mail', <<Self, k>>) PROVE k <= Len(handled)
    <3>1. PICK i \in DOMAIN mail'.waiting : mail'.waiting[i] = <<Self, k>>
      BY <2>2 DEF Parked
    <3>2. CASE i \in DOMAIN mail.waiting
      <4>1. Parked(mail, <<Self, k>>)
        BY <2>1, <3>1, <3>2, UpdaterIsClone, WaitingAfterPush DEF Parked
      <4> QED BY <4>1
    <3>3. CASE mail'.waiting[i] = Updater
      BY <1>2, <3>1, <3>3 DEF Updater
    <3> QED BY <2>1, <3>2, <3>3, UpdaterIsClone, WaitingAfterPush
  <2>3. <<Self, sent[Self] + 1>> \notin ok
    BY <1>1 DEF Answers, AnswersAreTrue
  <2>4. Latest(Self)' = <<Self, sent[Self] + 1>> /\ ok' = ok /\ handled' = handled
    BY <1>1, <1>6 DEF ApplySend, Latest, TypeOK
  <2> QED BY <2>2, <2>3, <2>4
<1>7. CASE SelfSendReturns
  BY <1>7 DEF SelfSendReturns, Updater
<1>8. CASE GiveUpSelfSend
  BY <1>8 DEF GiveUpSelfSend, Stuck, Applying, Updater, Latest
<1>9. CASE Panic \/ DropHost
  BY <1>9 DEF Panic, DropHost, Close, Empty, Parked
<1>10. ASSUME NEW c \in Clients, SendReturns(c) PROVE SelfSends'
  <2>1. Latest(c) # Latest(Self)
    BY <1>1 DEF Latest
  <2> QED BY <1>10, <2>1 DEF SendReturns, Updater, Latest
<1>11. ASSUME NEW c \in Clients, SendStart(c) PROVE SelfSends'
  <2>1. sent'[Self] = sent[Self]
    BY <1>1, <1>11 DEF SendStart, TypeOK
  <2> QED BY <1>11, <2>1 DEF SendStart, Updater, Latest
<1>12. ASSUME UNCHANGED <<mail, handled, ok, sent>>,
              host' \in {"accumulate", "commands", "sending"} =>
                host \in {"accumulate", "commands", "sending"}
       PROVE  SelfSends'
  BY <1>12 DEF Updater, Latest
<1> QED
  BY <1>3, <1>4, <1>5, <1>6, <1>7, <1>8, <1>9, <1>10, <1>11, <1>12
     DEF Next, Client, HostStep, SendFails, Abandon, DropUpdater, Intercept,
         Accumulate, ApplyPlain, ApplyState, Applying, StartFlush, Flush,
         EndRound

\* The messages.
LEMMA StepOrder == Inv /\ [Next]_vars => Order'
<1> SUFFICES ASSUME Inv, [Next]_vars PROVE Order'
  OBVIOUS
<1> USE DEF Inv
<1>1. TypeOK'
  BY StepTypes
<1>2. /\ handled \in Seq(Messages) /\ handled' \in Seq(Messages)
      /\ current \in Seq(Messages) /\ current' \in Seq(Messages)
      /\ mail.queue \in Seq(Messages) /\ mail'.queue \in Seq(Messages)
  BY <1>1 DEF TypeOK, Channels
<1>3. handled \o <<>> = handled /\ handled' \o <<>> = handled'
  BY <1>2, ConcatEmptySeq
<1>4. ASSUME accepted' = (handled' \o current') \o mail'.queue
      PROVE  FifoExactlyOnce'
  <2>1. /\ handled' \in Seq(Messages)
        /\ current' \in Seq(Messages)
        /\ mail'.queue \in Seq(Messages)
    BY <1>2
  <2>2. IsPrefix(handled', (handled' \o current') \o mail'.queue)
    BY <2>1, PrefixOfConcat3
  <2>3. IsPrefix(handled', accepted')
    BY <1>4, <2>2
  <2> QED BY <1>4, <2>3 DEF FifoExactlyOnce
<1>5. ASSUME NEW s \in Updaters, NEW m \in Messages, Deliver(s, m), open,
             UNCHANGED <<handled, current, observed, turn, open>>,
             host' = "intercept" <=> host = "intercept"
      PROVE  Order'
  <2>1. /\ mail'.queue = Append(mail.queue, m)
        /\ accepted' = Append(accepted, m)
    BY <1>5, DeliverFacts
  <2>2. handled \o current \in Seq(Messages)
    BY <1>2, ConcatProperties
  <2>3. accepted = (handled \o current) \o mail.queue
    BY <1>5 DEF Order, FifoExactlyOnce
  <2>4. accepted' = (handled' \o current') \o mail'.queue
    <3>1. (handled \o current) \o Append(mail.queue, m)
            = Append((handled \o current) \o mail.queue, m)
      <4>1. ASSUME NEW q \in Seq(Messages)
            PROVE  (handled \o current) \o Append(q, m)
                     = Append((handled \o current) \o q, m)
        BY <2>2, AppendConcat
      <4>2. mail.queue \in Seq(Messages)
        BY <1>2
      <4> QED BY <4>1, <4>2
    <3> QED BY <1>5, <2>1, <2>3, <3>1
  <2>5. FifoExactlyOnce'
    BY <1>4, <2>4
  <2>6. /\ InterceptorsSeeFirst'
        /\ IF host' = "intercept" THEN Len(current') = 1 ELSE current' = <<>>
    BY <1>5 DEF Order, InterceptorsSeeFirst
  <2> QED BY <2>5, <2>6 DEF Order
<1>6. ASSUME NEW c \in Clients, Feed(c) PROVE Order'
  <2>1. c \in Updaters /\ Latest(c) \in Messages
    BY DEF Latest, Messages, Senders, Updaters, TypeOK
  <2> QED BY <1>5, <1>6, <2>1 DEF Feed
<1>7. CASE ApplySend
  <2>1. Updater \in Updaters /\ <<Self, sent[Self] + 1>> \in Messages
    BY UpdaterIsClone DEF Messages, Senders, TypeOK
  <2>2. open /\ host = "commands" /\ host' = "sending"
    BY <1>7 DEF ApplySend, Applying, Life
  <2> QED BY <1>5, <1>7, <2>1, <2>2 DEF ApplySend
<1>8. CASE RunOnce
  <2>2. /\ mail.queue # <<>> /\ open /\ current = <<>>
        /\ current' = <<Head(mail.queue)>> /\ mail'.queue = Tail(mail.queue)
        /\ turn' = 0 /\ host' = "intercept" /\ Len(current') = 1
        /\ UNCHANGED <<handled, accepted, observed, open>>
    <3>1. open /\ current = <<>>
      BY <1>8 DEF RunOnce, Life, Order
    <3>2. mail' = Pop(mail)
      BY <1>8 DEF RunOnce
    <3>3. mail'.queue = Tail(mail.queue)
      BY <3>2 DEF Pop
    <3> QED BY <1>8, <3>1, <3>3 DEF RunOnce
  <2>3. accepted = handled \o mail.queue
    BY <1>3, <2>2 DEF Order, FifoExactlyOnce
  <2>4. accepted' = (handled' \o current') \o mail'.queue
    <3>1. (handled \o <<Head(mail.queue)>>) \o Tail(mail.queue)
            = handled \o mail.queue
      BY <1>2, <2>2, MoveHead
    <3> QED BY <2>2, <2>3, <3>1
  <2>5. \A i \in 1 .. Interceptors : observed[i] = handled
    BY <1>3, <2>2 DEF Order, InterceptorsSeeFirst
  <2>6. \A i \in 1 .. Interceptors : ~(i <= 0)
    BY HostAssumption
  <2>7. InterceptorsSeeFirst'
    BY <2>2, <2>5, <2>6 DEF InterceptorsSeeFirst
  <2> QED BY <1>4, <2>2, <2>4, <2>7 DEF Order
<1>9. CASE Intercept
  <2>1. /\ turn \in Nat /\ turn + 1 \in 1 .. Interceptors /\ turn' = turn + 1
        /\ observed \in [1 .. Interceptors -> Seq(Messages)]
        /\ observed' = [observed EXCEPT ![turn + 1] = @ \o current]
        /\ host' = host /\ host = "intercept" /\ open
        /\ UNCHANGED <<handled, current, accepted, mail, open>>
    BY <1>9, HostAssumption DEF Intercept, TypeOK, Life
  <2>2. observed[turn + 1] = handled
    BY <2>1 DEF Order, InterceptorsSeeFirst
  <2>3. ASSUME NEW i \in 1 .. Interceptors
        PROVE  observed'[i] = IF i <= turn' THEN handled' \o current' ELSE handled'
    <3>1. CASE i = turn + 1
      BY <2>1, <2>2, <3>1
    <3>2. CASE i # turn + 1
      <4>1. observed'[i] = observed[i] /\ (i <= turn' <=> i <= turn)
        BY <2>1, <3>2
      <4> QED BY <2>1, <4>1 DEF Order, InterceptorsSeeFirst
    <3> QED BY <3>1, <3>2
  <2> QED BY <2>1, <2>3 DEF Order, FifoExactlyOnce, InterceptorsSeeFirst
<1>10. ASSUME NEW emitted \in CommandLists, NEW written \in SUBSET Signals,
              Update(emitted, written)
       PROVE  Order'
  <2>1. /\ host = "intercept" /\ host' = "accumulate" /\ open /\ turn = Interceptors
        /\ handled' = handled \o current /\ current' = <<>>
        /\ UNCHANGED <<mail, accepted, observed, turn, open>>
    BY <1>10 DEF Update, Life
  <2>2. handled' \o current' = handled \o current
    BY <1>3, <2>1
  <2>3. accepted' = (handled' \o current') \o mail'.queue
    BY <2>1, <2>2 DEF Order, FifoExactlyOnce
  <2>4. InterceptorsSeeFirst'
    BY <2>1, <2>2 DEF Order, InterceptorsSeeFirst
  <2> QED BY <1>4, <2>1, <2>3, <2>4 DEF Order
<1>11. CASE Panic \/ DropHost
  BY <1>11 DEF Panic, DropHost, Close, Order, FifoExactlyOnce, InterceptorsSeeFirst
<1>12. ASSUME UNCHANGED <<mail, accepted, handled, current, observed, turn, open>>,
              host' = "intercept" <=> host = "intercept"
       PROVE  Order'
  BY <1>12 DEF Order, FifoExactlyOnce, InterceptorsSeeFirst
<1> QED
  BY <1>6, <1>7, <1>8, <1>9, <1>10, <1>11, <1>12
     DEF Next, Client, HostStep, SendStart, SendReturns, SendFails, Abandon,
         DropUpdater, Accumulate, ApplyPlain, ApplyState, Applying,
         SelfSendReturns, GiveUpSelfSend, Stuck, StartFlush, Flush, EndRound

\* The round.
LEMMA StepRound == Inv /\ [Next]_vars => Round'
<1> SUFFICES ASSUME Inv, [Next]_vars PROVE Round'
  OBVIOUS
<1> USE DEF Inv, Round
<1>1. ASSUME NEW c \in Clients, Client(c) PROVE Round'
  BY <1>1 DEF Client, SendStart, Feed, SendReturns, SendFails, Abandon,
              DropUpdater
<1>2. CASE RunOnce \/ Intercept
  BY <1>2 DEF RunOnce, Intercept
<1>3. ASSUME NEW emitted \in CommandLists, NEW written \in SUBSET Signals,
             Update(emitted, written)
      PROVE  Round'
  BY <1>3 DEF Update
<1>4. CASE Accumulate
  <2>1. signals = {} /\ signals' = signals \cup Own
    BY <1>4 DEF Accumulate
  <2> QED BY <1>4, <2>1 DEF Accumulate
<1>5. ASSUME NEW written \in SUBSET Signals, ApplyPlain(written) \/ ApplyState
      PROVE  Round'
  BY <1>5 DEF ApplyPlain, ApplyState, Applying
<1>6. CASE ApplySend \/ SelfSendReturns \/ GiveUpSelfSend
  BY <1>6 DEF ApplySend, SelfSendReturns, GiveUpSelfSend, Stuck, Applying
<1>7. CASE StartFlush
  <2>1. signals = Own /\ commands = <<>>
    BY <1>7 DEF StartFlush
  <2> QED BY <1>7, <2>1 DEF StartFlush
<1>8. ASSUME NEW sig \in Signals, Flush(sig) PROVE Round'
  <2>1. dirty \cap Own \subseteq signals
    BY <1>8 DEF Flush
  <2>2. dirty' \cap Own \subseteq signals'
    BY <1>8, <2>1 DEF Flush
  <2> QED BY <1>8, <2>2 DEF Flush
<1>9. CASE EndRound
  BY <1>9 DEF EndRound
<1>10. CASE Panic \/ DropHost
  BY <1>10 DEF Panic, DropHost, Close
<1>11. CASE UNCHANGED vars
  BY <1>11
<1> QED
  BY <1>1, <1>2, <1>3, <1>4, <1>5, <1>6, <1>7, <1>8, <1>9, <1>10, <1>11
     DEF Next, HostStep

\* The answers.
LEMMA StepAnswers == Inv /\ [Next]_vars => Answers'
<1> SUFFICES ASSUME Inv, [Next]_vars PROVE Answers'
  OBVIOUS
<1> USE DEF Inv, Answers, AnswersAreTrue
<1>1. /\ \A c \in Clients : c \in Senders /\ c \in Updaters /\ c # Self
      /\ Self \in Senders
      /\ \A s \in Senders : sent[s] \in Nat /\ Latest(s) \in Messages
      /\ st \in [Clients -> {"idle", "feeding", "flushing", "gone"}]
      /\ sent \in [Senders -> Nat]
  BY HostAssumption DEF Senders, Updaters, Messages, Latest, TypeOK
<1>2. ASSUME NEW c \in Clients, SendStart(c) PROVE Answers'
  <2>1. /\ accepted' = accepted /\ ok' = ok /\ refused' = refused /\ open' = open
        /\ st' = [st EXCEPT ![c] = "feeding"]
        /\ sent' = [sent EXCEPT ![c] = @ + 1]
    BY <1>2 DEF SendStart
  <2>2. \A s \in Senders : sent[s] <= sent'[s]
    BY <1>1, <2>1
  <2>3. \A s \in Senders, n \in Nat : <<s, n>> \in ToSet(accepted) => n <= sent'[s]
    <3>1. ASSUME NEW s \in Senders, NEW n \in Nat, <<s, n>> \in ToSet(accepted)
          PROVE  n <= sent'[s]
      <4>1. n <= sent[s] /\ sent[s] <= sent'[s]
        BY <2>2, <3>1
      <4>2. sent[s] \in Nat /\ sent'[s] \in Nat
        BY <1>1, <2>1
      <4> QED BY <4>1, <4>2
    <3> QED BY <3>1
  <2>4. Latest(c)' \notin ToSet(accepted)
    <3>1. sent'[c] = sent[c] + 1 /\ sent[c] \in Nat
      BY <1>1, <2>1
    <3>2. <<c, sent[c] + 1>> \notin ToSet(accepted)
      BY <1>1, <3>1
    <3> QED BY <3>1, <3>2 DEF Latest
  <2>5. \A d \in Clients : d # c => Latest(d)' = Latest(d) /\ st'[d] = st[d]
    BY <1>1, <2>1 DEF Latest
  <2>6. st'[c] = "feeding"
    BY <1>1, <2>1
  <2>7. host' = host /\ Latest(Self)' = Latest(Self)
    BY <1>1, <1>2, <2>1 DEF SendStart, Latest
  <2> QED BY <2>1, <2>3, <2>4, <2>5, <2>6, <2>7
<1>3. ASSUME NEW c \in Clients, Feed(c) PROVE Answers'
  <2>1. /\ Deliver(c, Latest(c)) /\ open /\ open' = open
        /\ ok' = ok /\ refused' = refused /\ sent' = sent
        /\ st' = [st EXCEPT ![c] = "flushing"] /\ host' = host
        /\ Latest(Self)' = Latest(Self)
    BY <1>3 DEF Feed, Latest
  <2>2. ToSet(accepted') = ToSet(accepted) \cup {Latest(c)}
    BY <1>1, <2>1, DeliverFacts
  <2>3. \A d \in Clients : Latest(d)' = Latest(d) /\ (Latest(d) = Latest(c) => d = c)
    BY <2>1 DEF Latest
  <2>4. \A s \in Senders, n \in Nat : <<s, n>> \in ToSet(accepted') => n <= sent'[s]
    BY <1>1, <2>1, <2>2 DEF Latest
  <2>5. \A d \in Clients : d # c => st'[d] = st[d]
    BY <1>1, <2>1
  <2>6. st'[c] = "flushing"
    BY <1>1, <2>1
  <2>7. refused' \cap ToSet(accepted') = {} /\ ok' \subseteq ToSet(accepted')
    BY <2>1, <2>2
  <2> QED BY <2>1, <2>2, <2>3, <2>4, <2>5, <2>6, <2>7
<1>4. ASSUME NEW c \in Clients, SendReturns(c) PROVE Answers'
  <2>1. /\ st[c] = "flushing" /\ st' = [st EXCEPT ![c] = "idle"]
        /\ ok' = ok \cup {Latest(c)}
        /\ UNCHANGED <<accepted, refused, sent, open, host>>
        /\ Latest(Self)' = Latest(Self)
    BY <1>4 DEF SendReturns, Latest
  <2>2. \A d \in Clients : st'[d] \in {st[d], "idle"} /\ Latest(d)' = Latest(d)
    BY <1>1, <2>1 DEF Latest
  <2> QED BY <2>1, <2>2
<1>5. ASSUME NEW c \in Clients, NEW p \in BOOLEAN, SendFails(c, p) PROVE Answers'
  <2>1. /\ st[c] = "feeding" /\ ~open
        /\ \A d \in Clients : st'[d] \in {st[d], "idle", "gone"}
        /\ refused' = refused \cup {Latest(c)}
        /\ UNCHANGED <<accepted, ok, sent, open, host>>
        /\ Latest(Self)' = Latest(Self)
    BY <1>1, <1>5 DEF SendFails, Latest
  <2>2. \A d \in Clients : Latest(d)' = Latest(d)
    BY <2>1 DEF Latest
  <2> QED BY <2>1, <2>2
<1>6. ASSUME NEW c \in Clients, Abandon(c) \/ DropUpdater(c) PROVE Answers'
  <2>1. /\ \A d \in Clients : st'[d] \in {st[d], "idle", "gone"}
        /\ UNCHANGED <<accepted, ok, refused, sent, open, host>>
        /\ Latest(Self)' = Latest(Self)
    BY <1>1, <1>6 DEF Abandon, DropUpdater, Latest
  <2>2. \A d \in Clients : Latest(d)' = Latest(d)
    BY <2>1 DEF Latest
  <2> QED BY <2>1, <2>2
<1>7. CASE ApplySend
  <2>1. /\ Deliver(Updater, <<Self, sent[Self] + 1>>) /\ Updater \in Updaters
        /\ sent' = [sent EXCEPT ![Self] = @ + 1]
        /\ UNCHANGED <<st, ok, refused, open>>
        /\ sent[Self] \in Nat /\ sent'[Self] = sent[Self] + 1
    BY <1>1, <1>7, UpdaterIsClone DEF ApplySend
  <2>2. ToSet(accepted') = ToSet(accepted) \cup {<<Self, sent[Self] + 1>>}
    <3>1. <<Self, sent[Self] + 1>> \in Messages
      BY <1>1, <2>1 DEF Messages
    <3> QED BY <2>1, <3>1, DeliverFacts
  <2>3. \A c \in Clients : Latest(c)' = Latest(c) /\ Latest(c) # <<Self, sent[Self] + 1>>
    BY <1>1, <2>1 DEF Latest
  <2>4. ASSUME NEW s \in Senders, NEW n \in Nat, <<s, n>> \in ToSet(accepted')
        PROVE  n <= sent'[s]
    <3>1. CASE <<s, n>> \in ToSet(accepted)
      <4>1. n <= sent[s] /\ sent[s] \in Nat /\ sent'[s] \in {sent[s], sent[s] + 1}
        BY <1>1, <2>1, <3>1
      <4> QED BY <4>1
    <3>2. CASE <<s, n>> = <<Self, sent[Self] + 1>>
      BY <1>1, <2>1, <3>2
    <3> QED BY <2>2, <2>4, <3>1, <3>2
  <2>5. open
    BY <1>7 DEF ApplySend, Applying, Life
  <2>6. refused' \cap ToSet(accepted') = {} /\ ok' \subseteq ToSet(accepted')
    BY <2>1, <2>2, <2>5
  <2>7. Latest(Self)' \in ToSet(accepted')
    BY <2>1, <2>2 DEF Latest
  <2> QED BY <2>1, <2>2, <2>3, <2>4, <2>5, <2>6, <2>7
<1>8. CASE Panic \/ DropHost
  BY <1>8 DEF Panic, DropHost, Close, Latest
<1>9. ASSUME UNCHANGED <<accepted, st, ok, refused, sent, open>>,
             host' = "sending" => host = "sending"
      PROVE  Answers'
  BY <1>9 DEF Latest
<1>10. CASE SelfSendReturns
  <2>1. /\ host = "sending" /\ host' = "commands"
        /\ ok' = ok \cup {Latest(Self)}
        /\ UNCHANGED <<accepted, st, refused, sent, open>>
    BY <1>10 DEF SelfSendReturns
  <2> QED BY <2>1 DEF Latest
<1> QED
  BY <1>2, <1>3, <1>4, <1>5, <1>6, <1>7, <1>8, <1>9, <1>10
     DEF Next, Client, HostStep, RunOnce, Intercept, Update, Accumulate,
         ApplyPlain, ApplyState, Applying, GiveUpSelfSend, Stuck, StartFlush,
         Flush, EndRound

-----------------------------------------------------------------------------
LEMMA StepInv == Inv /\ [Next]_vars => Inv'
BY StepTypes, StepLife, StepMailbox, StepSelfSends, StepOrder, StepRound, StepAnswers
   DEF Inv

\* The invariant holds in every state of every behaviour.
THEOREM InvHolds == Spec => []Inv
<1>1. Init => Inv
  BY InitInv
<1>2. Inv /\ [Next]_vars => Inv'
  BY StepInv
<1> QED BY <1>1, <1>2, PTL DEF Spec

\* The variables keep their types; in particular the host only ever collects
\* signals that getters of the root model return.
THEOREM TypeCorrect == Spec => []TypeOK
<1>1. Inv => TypeOK
  BY DEF Inv
<1> QED BY <1>1, InvHolds, PTL

\* Messages are handled in the order in which the channel took them, none twice
\* and none skipped, whatever sends are abandoned and whoever panics.
THEOREM MessagesInOrder == Spec => []FifoExactlyOnce
<1>1. Inv => FifoExactlyOnce
  BY DEF Inv, Order
<1> QED BY <1>1, InvHolds, PTL

\* Every interceptor sees every message before the model is updated with it.
THEOREM InterceptorsFirst == Spec => []InterceptorsSeeFirst
<1>1. Inv => InterceptorsSeeFirst
  BY DEF Inv, Order
<1> QED BY <1>1, InvHolds, PTL

\* A sender that is told Ok had its message taken, one that is told
\* HostChannelClosed had not.
THEOREM AnswersHold == Spec => []AnswersAreTrue
<1>1. Inv => AnswersAreTrue
  BY DEF Inv, Answers
<1> QED BY <1>1, InvHolds, PTL

\* A message finds no command, no collected signal and no unannounced signal of
\* the root model left by the message before it.
THEOREM RoundsAreSeparate == Spec => []RoundsDontOverlap
<1>1. Inv => RoundsDontOverlap
  BY DEF Inv, Round, RoundsDontOverlap
<1> QED BY <1>1, InvHolds, PTL

\* As many updaters can be parked as there are holders, each once.
LEMMA BoundedByHolders == Inv => MailboxBounded
<1> DEFINE G == givenUp \cup {u \in {Updater} : host = "sending"}
           n == Len(mail.waiting)
<1> SUFFICES ASSUME Inv
             PROVE  Len(mail.queue) <= Buffer + Cardinality(Clients) + Cardinality(G)
  BY DEF MailboxBounded
<1>1. /\ mail.waiting \in Seq(Updaters) /\ n \in Nat
      /\ mail.queue \in Seq(Messages) /\ Len(mail.queue) \in Nat
      /\ Balanced(mail, Buffer)
  BY DEF Inv, TypeOK, Channels, Mailbox
<1>2. IsFiniteSet(G) /\ G \subseteq Clones
  <2>1. IsFiniteSet(givenUp) /\ givenUp \subseteq Clones /\ Updater \in Clones
    BY UpdaterIsClone DEF Inv, Mailbox, TypeOK
  <2>2. CASE host = "sending"
    <3>1. G = givenUp \cup {Updater}
      BY <2>2
    <3> QED BY <2>1, <3>1, FS_AddElement
  <2>3. CASE host # "sending"
    <3>1. G = givenUp
      BY <2>3
    <3> QED BY <2>1, <3>1
  <2> QED BY <2>2, <2>3
<1>3. /\ IsFiniteSet(Holders)
      /\ Cardinality(Clients) \in Nat /\ Cardinality(G) \in Nat
      /\ Cardinality(Holders) <= Cardinality(Clients) + Cardinality(G)
  <2>1. Holders = Clients \cup G /\ Clients \cap G = {}
    BY <1>2, HostAssumption DEF Holders
  <2>2. IsFiniteSet(Clients)
    BY HostAssumption
  <2>3. /\ IsFiniteSet(Clients \cup G)
        /\ Cardinality(Clients \cup G)
             = Cardinality(Clients) + Cardinality(G) - Cardinality(Clients \cap G)
    BY <1>2, <2>2, FS_Union
  <2>4. Cardinality(Clients \cap G) = 0
    BY <2>1, FS_EmptySet
  <2>5. Cardinality(Clients) \in Nat /\ Cardinality(G) \in Nat
    BY <1>2, <2>2, FS_CardinalityType
  <2> QED BY <2>1, <2>3, <2>4, <2>5
<1>4. mail.waiting \in Injection(1 .. n, Holders)
  <2>1. \A i \in 1 .. n : mail.waiting[i] \in Holders
    BY <1>1 DEF Inv, Mailbox
  <2>2. mail.waiting \in [1 .. n -> Holders]
    BY <1>1, <2>1
  <2>3. \A i, j \in 1 .. n : mail.waiting[i] = mail.waiting[j] => i = j
    BY <1>1 DEF Inv, Mailbox
  <2> QED BY <2>2, <2>3 DEF Injection, IsInjective
<1>5. n <= Cardinality(Holders) /\ Cardinality(Holders) \in Nat
  <2>1. Cardinality(1 .. n) <= Cardinality(Holders)
    BY <1>3, <1>4, FS_Injection
  <2>2. Cardinality(1 .. n) = n
    BY <1>1, FS_Interval
  <2> QED BY <1>3, <2>1, <2>2, FS_CardinalityType
<1>6. Len(mail.queue) <= Buffer + n
  BY <1>1, HostAssumption DEF Balanced
<1> HIDE DEF G
<1> QED BY <1>1, <1>3, <1>5, <1>6, HostAssumption

\* Backpressure, for every buffer and every number of clients: only a client's
\* send and a command that gave up its send leave a message beyond the buffer.
THEOREM BackpressureHolds == Spec => []MailboxBounded
BY BoundedByHolders, InvHolds, PTL

-----------------------------------------------------------------------------
(***************************************************************************)
(* A host that waits for its own mailbox.                                  *)
(***************************************************************************)

LEMMA StuckStep ==
  ASSUME Inv, [Next]_vars, Stuck
  PROVE  Stuck' \/ Latest(Self)' \notin ok'
<1>1. /\ host \in {"commands", "sending"} /\ Parked(mail, Updater)
      /\ Latest(Self) \notin ok
  BY DEF Stuck, Applying, Inv, SelfSends
<1>2. ASSUME NEW c \in Clients, Feed(c) PROVE Stuck'
  <2>1. /\ c \in Updaters /\ Latest(c) \in Messages
        /\ UNCHANGED <<host, commands, handled>>
    BY <1>2 DEF Feed, Latest, Messages, Senders, Updaters, Inv, TypeOK
  <2>2. \A i \in DOMAIN mail.waiting :
          i \in DOMAIN mail'.waiting /\ mail'.waiting[i] = mail.waiting[i]
    BY <1>2, <2>1, WaitingAfterPush DEF Feed, Inv
  <2> QED BY <1>1, <2>1, <2>2 DEF Stuck, Applying, Parked, Updater
<1>3. ASSUME NEW c \in Clients, Client(c), ~Feed(c) PROVE Stuck'
  <2>1. UNCHANGED <<host, commands, handled, mail>>
    BY <1>3
       DEF Client, SendStart, SendReturns, SendFails, Abandon, DropUpdater
  <2> QED BY <2>1 DEF Stuck, Applying, Updater
<1>4. ~HostStep
  <2>1. \/ host = "sending"
        \/ host = "commands" /\ commands # <<>> /\ Head(commands) = "send"
    BY DEF Stuck, Applying
  <2>2. "send" \notin World
    BY HostAssumption
  <2>3. ~ApplyState /\ ~\E written \in SUBSET Signals : ApplyPlain(written)
    BY <2>1, <2>2 DEF ApplyState, ApplyPlain, Applying
  <2>4. ~ApplySend /\ ~SelfSendReturns
    BY <1>1 DEF ApplySend, SelfSendReturns
  <2>5. ~RunOnce /\ ~Intercept /\ ~Accumulate /\ ~StartFlush /\ ~EndRound
    BY <2>1 DEF RunOnce, Intercept, Accumulate, StartFlush, EndRound
  <2>6. /\ ~\E emitted \in CommandLists, written \in SUBSET Signals :
              Update(emitted, written)
        /\ ~\E sig \in Signals : Flush(sig)
    BY <2>1 DEF Update, Flush
  <2> QED BY <2>3, <2>4, <2>5, <2>6 DEF HostStep
<1>5. CASE GiveUpSelfSend \/ Panic \/ DropHost
  BY <1>1, <1>5 DEF GiveUpSelfSend, Panic, DropHost, Close, Latest
<1>6. CASE UNCHANGED vars
  BY <1>1, <1>6 DEF Stuck, Applying, Updater
<1> QED BY <1>2, <1>3, <1>4, <1>5, <1>6 DEF Next

\* A command whose send does not return at once waits until it gives up or the
\* host ends: no step of a client frees it, and the host itself has no step to
\* take.
THEOREM StuckStays == Spec => StuckForever
<1>1. Inv /\ [Next]_vars => [Stuck => Stuck' \/ Latest(Self)' \notin ok']_vars
  BY StuckStep
<1> QED BY <1>1, InvHolds, PTL DEF Spec, StuckForever

-----------------------------------------------------------------------------
(***************************************************************************)
(* Rounds come to an end.  That a host which can go on does so is fairness *)
(* and stays with TLC; that its steps lead somewhere is a matter of a      *)
(* measure, the place in the round and then what is left to do there.      *)
(***************************************************************************)
Place ==
  CASE host = "intercept" -> 4
    [] host = "accumulate" -> 3
    [] host \in {"commands", "sending"} -> 2
    [] host = "flush" -> 1
    [] OTHER -> 0

\* A command that sends is two steps, and so counts two.
Left ==
  CASE host = "intercept" -> Interceptors - turn
    [] host = "commands" -> 2 * Len(commands) + 1
    [] host = "sending" -> 2 * Len(commands)
    [] host = "flush" -> Cardinality(signals)
    [] OTHER -> 0

\* In a round, every step of the host leaves less to do, the end of a send that is
\* given up and of the host itself included; the steps of clients do
\* not touch the round at all.
Nearer ==
  Place > 0 =>
    /\ Left \in Nat
    /\ \/ UNCHANGED roundVars
       \/ Place' \in Nat /\ Place' < Place
       \/ Place' = Place /\ Left' \in Nat /\ Left' < Left

\* An application of commands shortens what is left of them.
LEMMA CommandsShrink ==
  ASSUME TypeOK, commands # <<>>
  PROVE  Len(commands) \in Nat /\ Len(commands) > 0
         /\ Len(Tail(commands)) = Len(commands) - 1
BY DEF TypeOK

\* Every step of a round brings its end nearer.
LEMMA StepNearer == ASSUME IsFiniteSet(Own), Inv, [Next]_vars PROVE Nearer
<1> SUFFICES ASSUME Place > 0 PROVE Nearer
  BY DEF Nearer
<1>1. TypeOK /\ Round
  BY DEF Inv
<1>2. turn \in Nat /\ Interceptors \in Nat /\ turn <= Interceptors
  BY <1>1, HostAssumption DEF TypeOK
<1>3. Len(commands) \in Nat
  BY <1>1 DEF TypeOK
<1>4. IsFiniteSet(signals) /\ Cardinality(signals) \in Nat
  BY <1>1, FS_Subset, FS_CardinalityType DEF TypeOK
<1>5. Left \in Nat
  BY <1>2, <1>3, <1>4 DEF Left
<1>6. ASSUME NEW c \in Clients, Client(c) PROVE UNCHANGED roundVars
  BY <1>6 DEF Client, SendStart, Feed, SendReturns, SendFails, Abandon, DropUpdater
<1>7. CASE RunOnce
  BY <1>7 DEF RunOnce, Place
<1>8. CASE Intercept
  <2>1. host = "intercept" /\ host' = host /\ turn < Interceptors /\ turn' = turn + 1
    BY <1>8 DEF Intercept
  <2>2. Left = Interceptors - turn /\ Left' = Interceptors - (turn + 1) /\ Place' = Place
    BY <2>1 DEF Left, Place
  <2> QED BY <1>2, <1>5, <2>1, <2>2 DEF Nearer
<1>9. ASSUME NEW emitted \in CommandLists, NEW written \in SUBSET Signals,
             Update(emitted, written)
      PROVE  Nearer
  <2>1. host = "intercept" /\ host' = "accumulate"
    BY <1>9 DEF Update
  <2> QED BY <1>5, <2>1 DEF Nearer, Place
<1>10. CASE Accumulate
  <2>1. host = "accumulate" /\ host' = "commands"
    BY <1>10 DEF Accumulate
  <2> QED BY <1>5, <2>1 DEF Nearer, Place
<1>11. ASSUME NEW written \in SUBSET Signals, ApplyPlain(written) \/ ApplyState
       PROVE  Nearer
  <2>1. host = "commands" /\ host' = host /\ commands # <<>> /\ commands' = Tail(commands)
    BY <1>11 DEF ApplyPlain, ApplyState, Applying
  <2>2. Len(commands') = Len(commands) - 1 /\ Len(commands) > 0
    BY <1>1, <2>1, CommandsShrink
  <2>3. /\ Left = 2 * Len(commands) + 1 /\ Left' = 2 * Len(commands') + 1
        /\ Place' = Place
    BY <2>1 DEF Left, Place
  <2> QED BY <1>3, <1>5, <2>2, <2>3 DEF Nearer
<1>12. CASE ApplySend
  <2>1. host = "commands" /\ host' = "sending" /\ commands' = commands
    BY <1>12 DEF ApplySend, Applying
  <2>2. /\ Left = 2 * Len(commands) + 1 /\ Left' = 2 * Len(commands)
        /\ Place' = Place
    BY <2>1 DEF Left, Place
  <2> QED BY <1>3, <1>5, <2>2 DEF Nearer
<1>13. CASE SelfSendReturns
  <2>1. host = "sending" /\ host' = "commands" /\ commands' = Tail(commands)
    BY <1>13 DEF SelfSendReturns
  <2>2. Len(commands') = Len(commands) - 1 /\ Len(commands) > 0
    BY <1>1, <2>1, CommandsShrink DEF Round
  <2>3. /\ Left = 2 * Len(commands) /\ Left' = 2 * Len(commands') + 1
        /\ Place' = Place
    BY <2>1 DEF Left, Place
  <2> QED BY <1>3, <1>5, <2>2, <2>3 DEF Nearer
<1>14. CASE GiveUpSelfSend
  <2>1. /\ host \in {"commands", "sending"} /\ host' = "commands"
        /\ commands # <<>> /\ commands' = Tail(commands)
    BY <1>1, <1>14 DEF GiveUpSelfSend, Stuck, Applying, Round
  <2>2. Len(commands') = Len(commands) - 1 /\ Len(commands) > 0
    BY <1>1, <2>1, CommandsShrink
  <2>3. /\ Left \in {2 * Len(commands), 2 * Len(commands) + 1}
        /\ Left' = 2 * Len(commands') + 1
        /\ Place' = Place
    BY <2>1 DEF Left, Place
  <2> QED BY <1>3, <1>5, <2>2, <2>3 DEF Nearer
<1>15. CASE StartFlush
  <2>1. host = "commands" /\ host' = "flush"
    BY <1>15 DEF StartFlush
  <2> QED BY <1>5, <2>1 DEF Nearer, Place
<1>16. ASSUME NEW sig \in Signals, Flush(sig) PROVE Nearer
  <2>1. host = "flush" /\ host' = host /\ sig \in signals /\ signals' = signals \ {sig}
    BY <1>16 DEF Flush
  <2>2. Cardinality(signals') = Cardinality(signals) - 1 /\ Cardinality(signals') \in Nat
    BY <1>4, <2>1, FS_RemoveElement, FS_CardinalityType
  <2>3. /\ Left = Cardinality(signals) /\ Left' = Cardinality(signals')
        /\ Place' = Place
    BY <2>1 DEF Left, Place
  <2> QED BY <1>4, <1>5, <2>2, <2>3 DEF Nearer
<1>17. CASE EndRound
  <2>1. host = "flush" /\ host' = "recv"
    BY <1>17 DEF EndRound
  <2> QED BY <1>5, <2>1 DEF Nearer, Place
<1>18. CASE Panic \/ DropHost
  <2>1. host \in {"recv", "intercept", "commands", "sending"} /\ host' = "dead"
    BY <1>18 DEF Panic, DropHost, Close, Applying
  <2> QED BY <1>5, <2>1 DEF Nearer, Place
<1>19. CASE UNCHANGED vars
  BY <1>5, <1>19 DEF Nearer
<1> QED
  BY <1>5, <1>6, <1>7, <1>8, <1>9, <1>10, <1>11, <1>12, <1>13, <1>14, <1>15, <1>16,
     <1>17, <1>18, <1>19 DEF Next, HostStep, Nearer

\* A model has finitely many getters: then a round is over, or its host dead,
\* after finitely many steps of the host, however many messages clients send in
\* the meantime and whatever the update emits.  That the host takes these steps is
\* not stated here: it may wait for its own mailbox (StuckStays).
THEOREM RoundsComeToAnEnd ==
  ASSUME IsFiniteSet(Own)
  PROVE  Spec => [][Nearer]_vars
<1>1. Inv /\ [Next]_vars => [Nearer]_vars
  BY StepNearer
<1> QED BY <1>1, InvHolds, PTL DEF Spec

-----------------------------------------------------------------------------
(***************************************************************************)
(* The refinement: each step of Host is a step of SerialApp or leaves its  *)
(* variables alone.                                                        *)
(***************************************************************************)

LEMMA AppInit == Init => App!Init
BY DEF Init, App!Init, Empty, Phase

LEMMA AppStep == Inv /\ [Next]_vars => [App!Next]_App!vars
<1> SUFFICES ASSUME Inv, [Next]_vars PROVE [App!Next]_App!vars
  OBVIOUS
<1> USE DEF App!vars, App!Next
<1>1. ASSUME NEW s \in Updaters, NEW m \in Messages, Deliver(s, m),
             UNCHANGED <<handled, current>>, Phase' = Phase, Phase # "dead"
      PROVE  App!Arrive
  <2>1. mail'.queue = Append(mail.queue, m) /\ mail.queue \in Seq(Messages)
    BY <1>1, DeliverFacts DEF Inv, TypeOK, Channels
  <2>2. /\ Len(mail'.queue) = Len(mail.queue) + 1
        /\ mail'.queue[Len(mail'.queue)] = m
    BY <2>1, AppendProperties
  <2> QED BY <1>1, <2>1, <2>2 DEF App!Arrive
<1>2. ASSUME NEW c \in Clients, Feed(c) PROVE App!Arrive
  <2>1. c \in Updaters /\ Latest(c) \in Messages
    BY DEF Latest, Messages, Senders, Updaters, Inv, TypeOK
  <2>2. Phase' = Phase /\ Phase # "dead"
    BY <1>2 DEF Feed, Phase, Inv, TypeOK, Life
  <2> QED BY <1>1, <1>2, <2>1, <2>2 DEF Feed
<1>3. CASE ApplySend
  <2>1. Updater \in Updaters /\ <<Self, sent[Self] + 1>> \in Messages
    BY UpdaterIsClone DEF Messages, Senders, Inv, TypeOK
  <2>2. Phase' = Phase /\ Phase # "dead"
    BY <1>3 DEF ApplySend, Applying, Phase
  <2>3. App!Arrive
    BY <1>1, <1>3, <2>1, <2>2 DEF ApplySend
  <2> QED BY <2>3
<1>4. CASE RunOnce
  <2>2. /\ host = "recv" /\ host' = "intercept" /\ mail.queue # <<>>
        /\ current' = <<Head(mail.queue)>> /\ mail' = Pop(mail)
        /\ UNCHANGED handled
    BY <1>4 DEF RunOnce
  <2>3. Phase = "idle" /\ Phase' = "taken"
    BY <2>2 DEF Phase
  <2>4. App!Take
    BY <2>2, <2>3 DEF App!Take, Pop
  <2> QED BY <2>4
<1>5. ASSUME NEW emitted \in CommandLists, NEW written \in SUBSET Signals,
             Update(emitted, written)
      PROVE  App!Apply
  <2>1. Phase = "taken" /\ Phase' = "applied"
    BY <1>5 DEF Update, Phase
  <2> QED BY <1>5, <2>1 DEF Update, App!Apply
<1>6. CASE EndRound
  <2>1. Phase = "applied" /\ Phase' = "idle"
    BY <1>6 DEF EndRound, Phase
  <2>2. App!Finish
    BY <1>6, <2>1 DEF EndRound, App!Finish
  <2> QED BY <2>2
<1>7. CASE Panic \/ DropHost
  <2>1. Phase # "dead" /\ Phase' = "dead"
    BY <1>7 DEF Panic, DropHost, Close, Applying, Phase
  <2>2. App!Die
    BY <1>7, <2>1 DEF Panic, DropHost, Close, Empty, App!Die
  <2> QED BY <2>2
<1>8. ASSUME UNCHANGED <<mail, current, handled>>, Phase' = Phase
      PROVE  UNCHANGED App!vars
  BY <1>8
<1>9. ASSUME NEW c \in Clients, Client(c), ~Feed(c) PROVE UNCHANGED App!vars
  BY <1>8, <1>9 DEF Client, SendStart, SendReturns, SendFails, Abandon,
                    DropUpdater, Phase
<1>10. ASSUME HostStep, ~RunOnce, ~ApplySend, ~EndRound,
              ~\E emitted \in CommandLists, written \in SUBSET Signals :
                 Update(emitted, written)
       PROVE  UNCHANGED App!vars
  BY <1>8, <1>10
     DEF HostStep, Intercept, Accumulate, ApplyPlain, ApplyState, Applying,
         SelfSendReturns, StartFlush, Flush, Phase
<1>11. CASE UNCHANGED vars \/ GiveUpSelfSend
  BY <1>8, <1>11 DEF GiveUpSelfSend, Stuck, Applying, Phase
<1>12. CASE HostStep
  BY <1>3, <1>4, <1>5, <1>6, <1>10, <1>12
<1>13. CASE \E c \in Clients : Client(c)
  BY <1>2, <1>9, <1>13
<1> QED BY <1>7, <1>11, <1>12, <1>13 DEF Next

\* Channel, parking, abandoned sends, rounds and panics implement an application
\* that applies one message at a time in the order of arrival.
THEOREM HostImplementsSerialApp == Spec => ImplementsSerialApp
<1>1. Inv /\ [Next]_vars => [App!Next]_App!vars
  BY AppStep
<1> QED BY <1>1, AppInit, InvHolds, PTL DEF Spec, ImplementsSerialApp, App!Spec
=============================================================================
