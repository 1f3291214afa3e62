----------------------------- MODULE JoinSignals -----------------------------
(***************************************************************************)
(* join_signals! of base/src/macros.rs: a block that reads its inputs,     *)
(* makes an output signal of them, subscribes to each and spawns a task    *)
(* that waits for any status, reads all inputs and sets the output.        *)
(*                                                                         *)
(* Inputs are written and flushed meanwhile.  Two things are delicate.     *)
(* The block reads before it subscribes, so a write between the two is     *)
(* announced to nobody; what heals it is that the handles it was given go  *)
(* out of scope at its end, and the drop of a handle sends Destroyed.  And *)
(* the values of a tuple are read one after the other; what makes the      *)
(* tuple consistent is that the guards live to the end of the statement.   *)
(*                                                                         *)
(* An input is a Signal of which only the task's subscriber matters; its   *)
(* data is the number of its writes.  Inputs are numbered in the order in  *)
(* which the macro names them.                                             *)
(***************************************************************************)
EXTENDS Naturals, Sequences, FiniteSets, Mpsc

CONSTANTS
  N,         \* number of inputs
  MaxWrites, \* bound: writes to one input
  MaxMoments \* bound: states that the inputs are in, one after the other

ASSUME JoinAssumption ==
  N \in Nat \ {0} /\ MaxWrites \in Nat /\ MaxMoments \in Nat

Inputs == 1 .. N

VARIABLES
  data,     \* data of each input
  noted,    \* history: last version written through update or set
  wrote,    \* writers between the write and the store of the flag
  dirty,    \* dirty flag of each input
  taken,    \* inputs whose flag a flush has taken, with the list not walked
  listed,   \* inputs that hold the sender of the task's subscriber
  chan,     \* the task's status channels
  handles,  \* handles the block was given and still holds
  got,      \* values of the tuple that is being built or was built last
  place,    \* where the block is, and from the spawn on the task
  output,   \* data of the output, <<>> before it exists
  flagged,  \* dirty flag of the output
  moments   \* history: the states that all inputs were in at one time

vars == <<data, noted, wrote, dirty, taken, listed, chan, handles, got, place,
          output, flagged, moments>>

inputs == <<data, noted, wrote, dirty, taken, moments>>

\* The block: initial builds the first tuple, subscribing.  The task: waiting
\* in select!, reading, setting, marking the output.
Places == {"initial", "subscribing", "waiting", "reading", "setting", "marking"}

Spawned == place \in {"waiting", "reading", "setting", "marking"}

Init ==
  /\ data = [i \in Inputs |-> 0]
  /\ noted = [i \in Inputs |-> 0]
  /\ wrote = [i \in Inputs |-> 0]
  /\ dirty = [i \in Inputs |-> FALSE]
  /\ taken = {}
  /\ listed = {}
  /\ chan = [i \in Inputs |-> Empty]
  /\ handles = Inputs
  /\ got = <<>>
  /\ place = "initial"
  /\ output = <<>>
  /\ flagged = FALSE
  /\ moments = {data}

StatusBuffer == 1

\* A broadcast on input i, as far as the task is concerned; what the status says
\* is not looked at.
Announce(i) ==
  chan' = IF i \in listed
          THEN [chan EXCEPT ![i] = TrySend(@, StatusBuffer, "repr", "status")]
          ELSE chan

-----------------------------------------------------------------------------
(***************************************************************************)
(* The inputs, in the hands of others.                                     *)
(***************************************************************************)

\* Mutant of Guarded: each guard is dropped as soon as its value is cloned.
GuardsReleased == {}

\* Inputs whose read guard is held: those of the tuple being built.
Guarded == IF place \in {"initial", "reading"} THEN 1 .. Len(got) ELSE {}

Write(i, noting) ==
  /\ i \notin Guarded
  /\ data[i] < MaxWrites
  /\ Cardinality(moments) < MaxMoments
  /\ data' = [data EXCEPT ![i] = @ + 1]
  /\ moments' = moments \cup {data'}
  /\ IF noting
     THEN /\ noted' = [noted EXCEPT ![i] = data[i] + 1]
          /\ wrote' = [wrote EXCEPT ![i] = @ + 1]
     ELSE UNCHANGED <<noted, wrote>>
  /\ UNCHANGED <<dirty, taken, listed, chan, handles, got, place, output,
                 flagged>>

MarkDirty(i) ==
  /\ wrote[i] > 0
  /\ wrote' = [wrote EXCEPT ![i] = @ - 1]
  /\ dirty' = [dirty EXCEPT ![i] = TRUE]
  /\ UNCHANGED <<data, noted, taken, listed, chan, handles, got, place, output,
                 flagged, moments>>

\* __flush swaps the flag ...
TakeDirty(i) ==
  /\ dirty[i]
  /\ i \notin taken
  /\ dirty' = [dirty EXCEPT ![i] = FALSE]
  /\ taken' = taken \cup {i}
  /\ UNCHANGED <<data, noted, wrote, listed, chan, handles, got, place, output,
                 flagged, moments>>

\* ... and walks the list.
Walk(i) ==
  /\ i \in taken
  /\ taken' = taken \ {i}
  /\ Announce(i)
  /\ UNCHANGED <<data, noted, wrote, dirty, listed, handles, got, place, output,
                 flagged, moments>>

\* Somebody else drops a handle of the input.
DropOther(i) ==
  /\ Announce(i)
  /\ UNCHANGED <<inputs, listed, handles, got, place, output, flagged>>

-----------------------------------------------------------------------------
(***************************************************************************)
(* The block and the task.                                                 *)
(***************************************************************************)

\* The next element of a tuple: its guard is taken and its value cloned.
ReadNext ==
  /\ place \in {"initial", "reading"}
  /\ Len(got) < N
  /\ got' = Append(got, data[Len(got) + 1])
  /\ UNCHANGED <<inputs, listed, chan, handles, place, output, flagged>>

\* The output is made of the first tuple.
Create ==
  /\ place = "initial"
  /\ Len(got) = N
  /\ output' = got
  /\ got' = <<>>
  /\ place' = "subscribing"
  /\ UNCHANGED <<inputs, listed, chan, handles, flagged>>

\* Mutant of Subscribe: the task is spawned after the first subscription.
SubscribeOne(i) ==
  /\ place = "subscribing"
  /\ listed = 1 .. i - 1
  /\ listed' = listed \cup {i}
  /\ place' = "waiting"
  /\ UNCHANGED <<inputs, chan, handles, got, output, flagged>>

\* The inputs are subscribed to in order; then the task is spawned.
Subscribe(i) ==
  /\ place = "subscribing"
  /\ listed = 1 .. i - 1
  /\ listed' = listed \cup {i}
  /\ place' = IF i = N THEN "waiting" ELSE place
  /\ UNCHANGED <<inputs, chan, handles, got, output, flagged>>

\* Mutant of Leave: a handle goes without telling anybody.
LeaveSilently(i) ==
  /\ Spawned
  /\ handles = 1 .. i
  /\ handles' = handles \ {i}
  /\ UNCHANGED <<inputs, listed, chan, got, place, output, flagged>>

\* The block ends beside the task: the handles it was given are dropped, the
\* last first.
Leave(i) ==
  /\ Spawned
  /\ handles = 1 .. i
  /\ handles' = handles \ {i}
  /\ Announce(i)
  /\ UNCHANGED <<inputs, listed, got, place, output, flagged>>

\* Mutant of Select: select! has a branch for the first input only.
SelectFirst(i) ==
  /\ place = "waiting"
  /\ i = 1
  /\ chan[i].queue # <<>>
  /\ chan' = [chan EXCEPT ![i] = Pop(@)]
  /\ place' = "reading"
  /\ UNCHANGED <<inputs, listed, handles, got, output, flagged>>

\* select! takes one status of any input, whatever it says.
Select(i) ==
  /\ place = "waiting"
  /\ chan[i].queue # <<>>
  /\ chan' = [chan EXCEPT ![i] = Pop(@)]
  /\ place' = "reading"
  /\ UNCHANGED <<inputs, listed, handles, got, output, flagged>>

\* The tuple is complete: `new_values' is bound and the guards are released.
Bind ==
  /\ place = "reading"
  /\ Len(got) = N
  /\ place' = "setting"
  /\ UNCHANGED <<inputs, listed, chan, handles, got, output, flagged>>

\* writer.set: the data, then the flag.
Set ==
  /\ place = "setting"
  /\ output' = got
  /\ got' = <<>>
  /\ place' = "marking"
  /\ UNCHANGED <<inputs, listed, chan, handles, flagged>>

Mark ==
  /\ place = "marking"
  /\ flagged' = TRUE
  /\ place' = "waiting"
  /\ UNCHANGED <<inputs, listed, chan, handles, got, output>>

\* A round collects the output, if a getter of its model returns it, and
\* flushes it.
FlushOutput ==
  /\ flagged
  /\ flagged' = FALSE
  /\ UNCHANGED <<inputs, listed, chan, handles, got, place, output>>

-----------------------------------------------------------------------------
Input(i) ==
  \/ \E noting \in BOOLEAN : Write(i, noting)
  \/ MarkDirty(i)
  \/ TakeDirty(i)
  \/ Walk(i)
  \/ DropOther(i)

Step ==
  \/ ReadNext
  \/ Create
  \/ \E i \in Inputs : Subscribe(i) \/ Select(i)
  \/ Bind
  \/ Set
  \/ Mark

Next ==
  \/ \E i \in Inputs : Input(i) \/ Leave(i)
  \/ Step
  \/ FlushOutput

Spec == Init /\ [][Next]_vars

\* The block and the task are polled while they can go on, a write stores its
\* flag and a flush walks the list.  Nobody has to write or flush.
Fairness ==
  /\ WF_vars(Step)
  /\ \A i \in Inputs :
       WF_vars(Leave(i)) /\ WF_vars(MarkDirty(i)) /\ WF_vars(Walk(i))

FairSpec == Spec /\ Fairness

-----------------------------------------------------------------------------
(***************************************************************************)
(* Properties.                                                             *)
(***************************************************************************)

Versions == 0 .. MaxWrites

\* The variables have their types; guards are held on a prefix of the inputs,
\* and flags and statuses outlive neither their writers nor their list.
TypeOK ==
  /\ data \in [Inputs -> Versions]
  /\ noted \in [Inputs -> Versions]
  /\ wrote \in [Inputs -> 0 .. MaxWrites]
  /\ dirty \in [Inputs -> BOOLEAN]
  /\ taken \subseteq Inputs
  /\ \E i \in 0 .. N : listed = 1 .. i
  /\ \E i \in 0 .. N : handles = 1 .. i
  /\ chan \in [Inputs -> Channels({"repr"}, {"status"})]
  /\ got \in Seq(Versions) /\ Len(got) <= N
  /\ place \in Places
  /\ output \in {<<>>} \cup [Inputs -> Versions]
  /\ flagged \in BOOLEAN
  /\ Spawned => listed = Inputs
  /\ \A i \in Inputs : chan[i].queue # <<>> => i \in listed

\* The output is never a mixture: its value is one that the inputs had at the
\* same time, although they are read one after the other and others write them.
OutputIsASnapshot == output # <<>> => output \in moments

\* The task sleeps on no update of an input: if the output is older than what
\* was written through update or set, then a status is pending, or the input is
\* to be flushed, or the block has yet to drop its handle of the input.  The
\* last case is the update that falls between the initial read and the
\* subscription.
NothingMissed ==
  \A i \in Inputs :
    place = "waiting" /\ output[i] < noted[i] =>
      \/ chan[i].queue # <<>>
      \/ dirty[i] \/ wrote[i] > 0 \/ i \in taken
      \/ i \in handles

\* An update whose flag a flush has taken reaches the output.
FlushReachesOutput ==
  \A i \in Inputs, v \in 1 .. MaxWrites :
    i \in taken /\ noted[i] = v ~> output # <<>> /\ output[i] >= v

\* A write that falls between the initial read and the spawn reaches the output
\* with no flush at all, also one through a guard, which sets no flag.
RaceIsHealed ==
  \A i \in Inputs, v \in 1 .. MaxWrites :
    place = "subscribing" /\ data[i] = v ~> output # <<>> /\ output[i] >= v
=============================================================================
