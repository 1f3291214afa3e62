-------------------------- MODULE JoinSignalsProofs --------------------------
(***************************************************************************)
(* Theorems about module JoinSignals, for any number of inputs.            *)
(*                                                                         *)
(* That the output is a snapshot follows from what the tuple being built   *)
(* is: as long as its guards are held it equals the inputs read so far, so *)
(* a complete one is the present state of all of them.  That nothing is    *)
(* missed is not inductive for a waiting task alone: the same must hold of *)
(* the tuple that is bound and not yet set, and of the output whose flag   *)
(* is not yet stored.                                                      *)
(***************************************************************************)
EXTENDS JoinSignals, MpscProofs

\* What the tuple is worth at each place.
TupleIsTrue ==
  /\ data \in moments
  /\ place \in {"initial", "reading"} => \A i \in 1 .. Len(got) : got[i] = data[i]
  /\ place = "setting" => Len(got) = N /\ got \in moments
  /\ place \in {"subscribing", "waiting", "marking"} => got = <<>>
  /\ place # "initial" => output \in [Inputs -> Versions]

\* Something will make the task look at input i again.
Covered(i) ==
  \/ chan[i].queue # <<>>
  \/ dirty[i] \/ wrote[i] > 0 \/ i \in taken
  \/ i \in handles

ChannelsBalanced == \A i \in Inputs : Balanced(chan[i], StatusBuffer)

HistoriesArePast ==
  \A i \in Inputs : noted[i] <= data[i] /\ wrote[i] <= data[i]

UpdatesAreCovered ==
  /\ ~Spawned => handles = Inputs
  /\ place \in {"waiting", "marking"} =>
       \A i \in Inputs : output[i] < noted[i] => Covered(i)
  /\ place = "setting" => \A i \in Inputs : got[i] < noted[i] => Covered(i)

Inv ==
  /\ TypeOK
  /\ OutputIsASnapshot
  /\ TupleIsTrue
  /\ ChannelsBalanced
  /\ HistoriesArePast
  /\ UpdatesAreCovered

Ch == Channels({"repr"}, {"status"})

-----------------------------------------------------------------------------
LEMMA InitInv == Init => Inv
<1> SUFFICES ASSUME Init PROVE Inv
  OBVIOUS
<1> USE DEF Init
<1>1. /\ Empty \in Ch
      /\ Balanced(Empty, StatusBuffer)
      /\ Empty.queue = <<>>
  BY EmptyBalanced DEF StatusBuffer, Empty, Ch
<1>2. TypeOK
  <2>1. \E i \in 0 .. N : listed = 1 .. i
    <3>1. 0 \in 0 .. N /\ listed = 1 .. 0
      BY JoinAssumption
    <3> QED BY <3>1
  <2>2. \E i \in 0 .. N : handles = 1 .. i
    BY JoinAssumption DEF Inputs
  <2>3. place \in Places /\ ~Spawned
    BY DEF Places, Spawned
  <2>4. got \in Seq(Versions) /\ Len(got) <= N
    BY JoinAssumption
  <2>5. /\ data \in [Inputs -> Versions]
        /\ noted \in [Inputs -> Versions]
        /\ wrote \in [Inputs -> 0 .. MaxWrites]
    BY JoinAssumption DEF Versions
  <2>6. chan \in [Inputs -> Ch] /\ \A i \in Inputs : chan[i].queue = <<>>
    BY <1>1
  <2> QED BY <2>1, <2>2, <2>3, <2>4, <2>5, <2>6 DEF TypeOK, Ch
<1>3. OutputIsASnapshot /\ TupleIsTrue
  BY DEF OutputIsASnapshot, TupleIsTrue
<1>4. ChannelsBalanced
  BY <1>1 DEF ChannelsBalanced
<1>5. HistoriesArePast
  BY DEF HistoriesArePast
<1>6. UpdatesAreCovered
  BY DEF UpdatesAreCovered, Spawned
<1> QED BY <1>2, <1>3, <1>4, <1>5, <1>6 DEF Inv

\* A broadcast keeps the channels in order and loses no pending status; it
\* leaves one with the subscriber of the input, if it is in the list.
LEMMA AnnounceKeeps ==
  ASSUME chan \in [Inputs -> Ch], ChannelsBalanced, NEW i \in Inputs, Announce(i)
  PROVE  /\ chan' \in [Inputs -> Ch]
         /\ ChannelsBalanced'
         /\ \A j \in Inputs : chan[j].queue # <<>> => chan'[j].queue # <<>>
         /\ i \in listed => chan'[i].queue # <<>>
         /\ \A j \in Inputs : chan'[j].queue # <<>> => chan[j].queue # <<>> \/ j \in listed
<1> DEFINE c == TrySend(chan[i], StatusBuffer, "repr", "status")
<1>1. /\ c \in Ch
      /\ Balanced(c, StatusBuffer)
      /\ c.queue # <<>>
  BY TrySendBalanced DEF ChannelsBalanced, StatusBuffer, Ch
<1>2. CASE i \in listed
  <2>1. chan' = [chan EXCEPT ![i] = c]
    BY <1>2 DEF Announce
  <2> HIDE DEF c
  <2> QED BY <1>1, <1>2, <2>1 DEF ChannelsBalanced
<1>3. CASE i \notin listed
  BY <1>3 DEF Announce, ChannelsBalanced
<1> QED BY <1>2, <1>3

-----------------------------------------------------------------------------
(* The steps of others. *)

LEMMA WriteInv ==
  ASSUME Inv, NEW i \in Inputs, NEW noting \in BOOLEAN, Write(i, noting)
  PROVE  Inv'
<1> USE DEF Inv, Write
<1>1. /\ data' = [data EXCEPT ![i] = data[i] + 1]
      /\ data[i] \in 0 .. MaxWrites /\ data[i] < MaxWrites
  BY DEF TypeOK, Versions
<1>2. data' \in [Inputs -> Versions]
  BY <1>1, JoinAssumption DEF TypeOK, Versions
<1>3. /\ noted' \in [Inputs -> Versions]
      /\ wrote' \in [Inputs -> 0 .. MaxWrites]
      /\ HistoriesArePast'
      /\ \A j \in Inputs : wrote'[j] >= wrote[j]
      /\ \A j \in Inputs : noted'[j] # noted[j] => wrote'[j] > 0
  <2>1. CASE noting
    <3>1. /\ noted' = [noted EXCEPT ![i] = data[i] + 1]
          /\ wrote' = [wrote EXCEPT ![i] = wrote[i] + 1]
      BY <2>1
    <3>2. /\ noted \in [Inputs -> 0 .. MaxWrites]
          /\ wrote \in [Inputs -> 0 .. MaxWrites]
          /\ data \in [Inputs -> 0 .. MaxWrites]
          /\ \A j \in Inputs : noted[j] <= data[j] /\ wrote[j] <= data[j]
      BY DEF TypeOK, Versions, HistoriesArePast
    <3>3. wrote[i] + 1 \in 0 .. MaxWrites /\ data[i] + 1 \in 0 .. MaxWrites
      BY <1>1, <3>2, JoinAssumption
    <3>4. /\ noted' \in [Inputs -> 0 .. MaxWrites]
          /\ wrote' \in [Inputs -> 0 .. MaxWrites]
      BY <3>1, <3>2, <3>3
    <3>5. HistoriesArePast'
      BY <1>1, <3>1, <3>2, <3>3 DEF HistoriesArePast
    <3>6. ASSUME NEW j \in Inputs
          PROVE  /\ wrote'[j] >= wrote[j]
                 /\ noted'[j] # noted[j] => wrote'[j] > 0
      BY <3>1, <3>2
    <3> QED BY <3>4, <3>5, <3>6 DEF Versions
  <2>2. CASE ~noting
    BY <1>1, <2>2, JoinAssumption DEF TypeOK, Versions, HistoriesArePast
  <2> QED BY <2>1, <2>2
<1>4. TypeOK'
  BY <1>2, <1>3 DEF TypeOK, Spawned
<1>5. OutputIsASnapshot'
  BY DEF OutputIsASnapshot
<1>6. TupleIsTrue'
  <2>1. ASSUME place \in {"initial", "reading"}, NEW j \in 1 .. Len(got)
        PROVE  got[j] = data'[j]
    <3>1. j # i
      BY <2>1 DEF Guarded
    <3>2. j \in Inputs
      BY <2>1, JoinAssumption DEF TypeOK, Inputs
    <3> QED BY <1>1, <2>1, <3>1, <3>2 DEF TypeOK, TupleIsTrue
  <2> QED BY <2>1 DEF TupleIsTrue
<1>7. ChannelsBalanced'
  BY DEF ChannelsBalanced
<1>8. UpdatesAreCovered'
  <2>1. ASSUME NEW j \in Inputs, Covered(j)
        PROVE  Covered(j)'
    <3>1. wrote[j] > 0 => wrote'[j] > 0
      <4>1. wrote[j] \in 0 .. MaxWrites /\ wrote'[j] \in 0 .. MaxWrites
        BY <1>3, <2>1 DEF TypeOK
      <4>2. wrote'[j] >= wrote[j]
        BY <1>3, <2>1
      <4> QED BY <4>1, <4>2, JoinAssumption
    <3>2. UNCHANGED <<chan, dirty, taken, handles, place>>
      OBVIOUS
    <3> QED BY <2>1, <3>1, <3>2 DEF Covered
  <2>2. ASSUME NEW j \in Inputs, noted'[j] # noted[j]
        PROVE  Covered(j)'
    BY <1>3, <2>2 DEF Covered
  <2> QED BY <2>1, <2>2 DEF UpdatesAreCovered, Spawned
<1> QED BY <1>3, <1>4, <1>5, <1>6, <1>7, <1>8

LEMMA MarkDirtyInv ==
  ASSUME Inv, NEW i \in Inputs, MarkDirty(i)
  PROVE  Inv'
<1> USE DEF Inv, MarkDirty
<1>1. /\ wrote' \in [Inputs -> 0 .. MaxWrites]
      /\ dirty' \in [Inputs -> BOOLEAN]
      /\ \A j \in Inputs : wrote'[j] <= wrote[j]
  BY JoinAssumption DEF TypeOK
<1>2. TypeOK'
  BY <1>1 DEF TypeOK, Spawned
<1>3. HistoriesArePast'
  BY <1>1, JoinAssumption DEF HistoriesArePast, TypeOK, Versions
<1>4. OutputIsASnapshot' /\ TupleIsTrue' /\ ChannelsBalanced'
  BY DEF OutputIsASnapshot, TupleIsTrue, ChannelsBalanced
<1>5. ASSUME NEW j \in Inputs, Covered(j)
      PROVE  Covered(j)'
  BY <1>5 DEF Covered, TypeOK
<1>6. UpdatesAreCovered'
  BY <1>5 DEF UpdatesAreCovered, Spawned
<1> QED BY <1>2, <1>3, <1>4, <1>6

LEMMA TakeDirtyInv ==
  ASSUME Inv, NEW i \in Inputs, TakeDirty(i)
  PROVE  Inv'
<1> USE DEF Inv, TakeDirty
<1>1. TypeOK'
  BY DEF TypeOK, Spawned
<1>2. OutputIsASnapshot' /\ TupleIsTrue' /\ ChannelsBalanced' /\ HistoriesArePast'
  BY DEF OutputIsASnapshot, TupleIsTrue, ChannelsBalanced, HistoriesArePast
<1>3. ASSUME NEW j \in Inputs, Covered(j)
      PROVE  Covered(j)'
  BY <1>3 DEF Covered, TypeOK
<1>4. UpdatesAreCovered'
  BY <1>3 DEF UpdatesAreCovered, Spawned
<1> QED BY <1>1, <1>2, <1>4

\* Once the task is spawned it is in every list, so a walk reaches it.
LEMMA WalkInv ==
  ASSUME Inv, NEW i \in Inputs, Walk(i)
  PROVE  Inv'
<1> USE DEF Inv, Walk
<1>1. chan \in [Inputs -> Ch] /\ ChannelsBalanced /\ Announce(i)
  BY DEF TypeOK, Ch
<1>2. TypeOK'
  BY <1>1, AnnounceKeeps DEF TypeOK, Spawned, Ch
<1>3. OutputIsASnapshot' /\ TupleIsTrue' /\ ChannelsBalanced' /\ HistoriesArePast'
  BY <1>1, AnnounceKeeps DEF OutputIsASnapshot, TupleIsTrue, HistoriesArePast
<1>4. ASSUME Spawned, NEW j \in Inputs, Covered(j)
      PROVE  Covered(j)'
  <2>1. i \in listed
    BY <1>4 DEF TypeOK
  <2> QED BY <1>1, <1>4, <2>1, AnnounceKeeps DEF Covered
<1>5. UpdatesAreCovered'
  BY <1>4 DEF UpdatesAreCovered, Spawned
<1> QED BY <1>2, <1>3, <1>5

LEMMA DropOtherInv ==
  ASSUME Inv, NEW i \in Inputs, DropOther(i)
  PROVE  Inv'
<1> USE DEF Inv, DropOther, inputs
<1>1. chan \in [Inputs -> Ch] /\ ChannelsBalanced /\ Announce(i)
  BY DEF TypeOK, Ch
<1>2. TypeOK'
  BY <1>1, AnnounceKeeps DEF TypeOK, Spawned, Ch
<1>3. OutputIsASnapshot' /\ TupleIsTrue' /\ ChannelsBalanced' /\ HistoriesArePast'
  BY <1>1, AnnounceKeeps DEF OutputIsASnapshot, TupleIsTrue, HistoriesArePast
<1>4. ASSUME NEW j \in Inputs, Covered(j)
      PROVE  Covered(j)'
  BY <1>1, <1>4, AnnounceKeeps DEF Covered
<1>5. UpdatesAreCovered'
  BY <1>4 DEF UpdatesAreCovered, Spawned
<1> QED BY <1>2, <1>3, <1>5

-----------------------------------------------------------------------------
(* The steps of the block and of the task. *)

LEMMA ReadNextInv == Inv /\ ReadNext => Inv'
<1> SUFFICES ASSUME Inv, ReadNext PROVE Inv'
  OBVIOUS
<1> USE DEF Inv, ReadNext, inputs
<1>1. /\ Len(got) \in Nat /\ Len(got) < N
      /\ got \in Seq(Versions)
      /\ Len(got) + 1 \in Inputs
  BY JoinAssumption DEF TypeOK, Inputs
<1>2. data[Len(got) + 1] \in Versions
  BY <1>1 DEF TypeOK
<1>3. /\ got' \in Seq(Versions)
      /\ Len(got') = Len(got) + 1
      /\ got'[Len(got) + 1] = data[Len(got) + 1]
      /\ \A i \in 1 .. Len(got) : got'[i] = got[i]
  BY <1>1, <1>2
<1>4. TypeOK'
  BY <1>1, <1>3, JoinAssumption DEF TypeOK, Spawned
<1>5. TupleIsTrue'
  <2>1. ASSUME NEW i \in 1 .. Len(got') PROVE got'[i] = data[i]
    <3>1. CASE i = Len(got) + 1
      BY <1>3, <3>1
    <3>2. CASE i \in 1 .. Len(got)
      BY <1>3, <3>2 DEF TupleIsTrue
    <3> QED BY <1>1, <1>3, <2>1, <3>1, <3>2
  <2> QED BY <2>1 DEF TupleIsTrue
<1>6. OutputIsASnapshot' /\ ChannelsBalanced' /\ HistoriesArePast'
  BY DEF OutputIsASnapshot, ChannelsBalanced, HistoriesArePast
<1>7. UpdatesAreCovered'
  BY DEF UpdatesAreCovered, Spawned
<1> QED BY <1>4, <1>5, <1>6, <1>7

\* A complete tuple whose guards are held is the state of all inputs.
LEMMA CompleteTuple ==
  ASSUME Inv, place \in {"initial", "reading"}, Len(got) = N
  PROVE  got = data /\ got \in [Inputs -> Versions] /\ got \in moments
<1>1. got \in [Inputs -> Versions] /\ data \in [Inputs -> Versions]
  BY DEF Inv, TypeOK, Inputs
<1>2. \A i \in Inputs : got[i] = data[i]
  BY DEF Inv, TupleIsTrue, Inputs
<1>3. got = data
  BY <1>1, <1>2
<1> QED BY <1>1, <1>3 DEF Inv, TupleIsTrue

LEMMA CreateInv == Inv /\ Create => Inv'
<1> SUFFICES ASSUME Inv, Create PROVE Inv'
  OBVIOUS
<1> USE DEF Inv, Create, inputs
<1>1. got \in [Inputs -> Versions] /\ got \in moments
  BY CompleteTuple
<1>2. got' \in Seq(Versions) /\ Len(got') <= N
  BY JoinAssumption
<1>3. TypeOK'
  BY <1>1, <1>2 DEF TypeOK, Spawned, Places
<1>4. OutputIsASnapshot' /\ TupleIsTrue'
  BY <1>1 DEF OutputIsASnapshot, TupleIsTrue
<1>5. ChannelsBalanced' /\ HistoriesArePast'
  BY DEF ChannelsBalanced, HistoriesArePast
<1>6. UpdatesAreCovered'
  BY DEF UpdatesAreCovered, Spawned
<1> QED BY <1>3, <1>4, <1>5, <1>6

\* Until the task runs the block holds its handles, so nothing can be missed.
LEMMA SubscribeInv ==
  ASSUME Inv, NEW i \in Inputs, Subscribe(i)
  PROVE  Inv'
<1> USE DEF Inv, Subscribe, inputs
<1>1. listed' = 1 .. i /\ i \in 0 .. N /\ (i = N => listed' = Inputs)
  BY JoinAssumption DEF Inputs
<1>2. \E k \in 0 .. N : listed' = 1 .. k
  BY <1>1
<1>3. Spawned' => i = N
  BY DEF Spawned
<1>4. TypeOK'
  BY <1>1, <1>2, <1>3 DEF TypeOK, Places
<1>5. OutputIsASnapshot' /\ TupleIsTrue' /\ ChannelsBalanced' /\ HistoriesArePast'
  BY DEF OutputIsASnapshot, TupleIsTrue, ChannelsBalanced, HistoriesArePast
<1>6. handles' = Inputs
  BY DEF UpdatesAreCovered, Spawned
<1>7. UpdatesAreCovered'
  BY <1>6 DEF UpdatesAreCovered, Covered
<1> QED BY <1>4, <1>5, <1>7

\* The drop of a handle leaves a status where the handle was.
LEMMA LeaveInv ==
  ASSUME Inv, NEW i \in Inputs, Leave(i)
  PROVE  Inv'
<1> USE DEF Inv, Leave, inputs
<1>1. chan \in [Inputs -> Ch] /\ ChannelsBalanced /\ Announce(i)
  BY DEF TypeOK, Ch
<1>2. handles' = 1 .. i - 1 /\ i - 1 \in 0 .. N
  BY JoinAssumption DEF Inputs
<1>3. \E k \in 0 .. N : handles' = 1 .. k
  BY <1>2
<1>4. TypeOK'
  BY <1>1, <1>3, AnnounceKeeps DEF TypeOK, Spawned, Ch
<1>5. OutputIsASnapshot' /\ TupleIsTrue' /\ ChannelsBalanced' /\ HistoriesArePast'
  BY <1>1, AnnounceKeeps DEF OutputIsASnapshot, TupleIsTrue, HistoriesArePast
<1>6. i \in listed
  BY DEF TypeOK
<1>7. ASSUME NEW j \in Inputs, Covered(j)
      PROVE  Covered(j)'
  BY <1>1, <1>6, <1>7, AnnounceKeeps DEF Covered
<1>8. UpdatesAreCovered'
  BY <1>7 DEF UpdatesAreCovered, Spawned
<1> QED BY <1>4, <1>5, <1>8

LEMMA SelectInv ==
  ASSUME Inv, NEW i \in Inputs, Select(i)
  PROVE  Inv'
<1> USE DEF Inv, Select, inputs
<1> DEFINE c == Pop(chan[i])
<1>1. c \in Ch /\ Balanced(c, StatusBuffer)
  BY PopBalanced DEF TypeOK, Ch, ChannelsBalanced, StatusBuffer
<1>2. chan' = [chan EXCEPT ![i] = c] /\ chan \in [Inputs -> Ch]
  BY DEF TypeOK, Ch
<1> HIDE DEF c
<1>3. chan' \in [Inputs -> Ch] /\ ChannelsBalanced'
  BY <1>1, <1>2 DEF ChannelsBalanced
<1>4. listed = Inputs
  BY DEF TypeOK, Spawned
<1>5. TypeOK'
  BY <1>3, <1>4 DEF TypeOK, Spawned, Places, Ch
<1>6. OutputIsASnapshot' /\ TupleIsTrue' /\ HistoriesArePast'
  BY DEF OutputIsASnapshot, TupleIsTrue, HistoriesArePast
<1>7. UpdatesAreCovered'
  BY DEF UpdatesAreCovered, Spawned
<1> QED BY <1>3, <1>5, <1>6, <1>7

\* The bound tuple is the present state, so no input is ahead of it.
LEMMA BindInv == Inv /\ Bind => Inv'
<1> SUFFICES ASSUME Inv, Bind PROVE Inv'
  OBVIOUS
<1> USE DEF Inv, Bind, inputs
<1>1. got = data /\ got \in moments
  BY CompleteTuple
<1>2. TypeOK'
  BY DEF TypeOK, Spawned, Places
<1>3. OutputIsASnapshot' /\ TupleIsTrue' /\ ChannelsBalanced' /\ HistoriesArePast'
  BY <1>1 DEF OutputIsASnapshot, TupleIsTrue, ChannelsBalanced, HistoriesArePast
<1>4. ASSUME NEW i \in Inputs PROVE ~(got[i] < noted[i])
  BY <1>1 DEF HistoriesArePast, TypeOK, Versions
<1>5. UpdatesAreCovered'
  BY <1>4 DEF UpdatesAreCovered, Spawned
<1> QED BY <1>2, <1>3, <1>5

LEMMA SetInv == Inv /\ Set => Inv'
<1> SUFFICES ASSUME Inv, Set PROVE Inv'
  OBVIOUS
<1> USE DEF Inv, Set, inputs
<1>1. got \in [Inputs -> Versions] /\ got \in moments
  BY DEF TypeOK, TupleIsTrue, Inputs
<1>2. got' \in Seq(Versions) /\ Len(got') <= N
  BY JoinAssumption
<1>3. TypeOK'
  BY <1>1, <1>2 DEF TypeOK, Spawned, Places
<1>4. OutputIsASnapshot' /\ TupleIsTrue' /\ ChannelsBalanced' /\ HistoriesArePast'
  BY <1>1 DEF OutputIsASnapshot, TupleIsTrue, ChannelsBalanced, HistoriesArePast
<1>5. UpdatesAreCovered'
  BY DEF UpdatesAreCovered, Spawned, Covered
<1> QED BY <1>3, <1>4, <1>5

LEMMA MarkInv == Inv /\ (Mark \/ FlushOutput \/ UNCHANGED vars) => Inv'
<1> SUFFICES ASSUME Inv, Mark \/ FlushOutput \/ UNCHANGED vars PROVE Inv'
  OBVIOUS
<1> USE DEF Inv, Mark, FlushOutput, inputs, vars
<1>1. TypeOK'
  BY DEF TypeOK, Spawned, Places
<1>2. OutputIsASnapshot' /\ TupleIsTrue' /\ ChannelsBalanced' /\ HistoriesArePast'
  BY DEF OutputIsASnapshot, TupleIsTrue, ChannelsBalanced, HistoriesArePast
<1>3. UpdatesAreCovered'
  BY DEF UpdatesAreCovered, Spawned, Covered
<1> QED BY <1>1, <1>2, <1>3

LEMMA StepInv == Inv /\ [Next]_vars => Inv'
<1> SUFFICES ASSUME Inv, [Next]_vars PROVE Inv'
  OBVIOUS
<1>1. ASSUME NEW i \in Inputs, Input(i) PROVE Inv'
  BY <1>1, WriteInv, MarkDirtyInv, TakeDirtyInv, WalkInv, DropOtherInv DEF Input
<1>2. ASSUME NEW i \in Inputs, Leave(i) PROVE Inv'
  BY <1>2, LeaveInv
<1>3. CASE Step
  BY <1>3, ReadNextInv, CreateInv, SubscribeInv, SelectInv, BindInv, SetInv, MarkInv
     DEF Step
<1>4. CASE FlushOutput \/ UNCHANGED vars
  BY <1>4, MarkInv
<1> QED BY <1>1, <1>2, <1>3, <1>4 DEF Next

\* The invariant holds in every behaviour.
LEMMA InvHolds == Spec => []Inv
BY InitInv, StepInv, PTL DEF Spec

-----------------------------------------------------------------------------
\* The variables of a join keep their types.
THEOREM TypeCorrect == Spec => []TypeOK
<1>1. Inv => TypeOK
  BY DEF Inv
<1> QED BY <1>1, InvHolds, PTL

\* However many inputs are joined and however they are written, the output is
\* never a mixture: its value is one that all inputs had at the same time.
THEOREM OutputsAreSnapshots == Spec => []OutputIsASnapshot
<1>1. Inv => OutputIsASnapshot
  BY DEF Inv
<1> QED BY <1>1, InvHolds, PTL

\* The task never sleeps on an update of an input that nothing will make it look
\* at, the update between the initial read and the subscription included.
THEOREM NothingIsMissed == Spec => []NothingMissed
<1>1. Inv => NothingMissed
  BY DEF Inv, UpdatesAreCovered, Covered, NothingMissed
<1> QED BY <1>1, InvHolds, PTL
=============================================================================
