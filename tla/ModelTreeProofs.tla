--------------------------- MODULE ModelTreeProofs ---------------------------
(***************************************************************************)
(* Theorems about module ModelTree, for any tree, any number of clients    *)
(* and any updates.                                                        *)
(***************************************************************************)
EXTENDS ModelTree, SequenceTheorems, FiniteSetTheorems, WellFoundedInduction,
        TLAPS

Alive == Host \notin gone

\* The tree: a model has one parent and stands deeper than it; the root, what is
\* yet to be created and what was removed have none.
Shape ==
  /\ removed \cap (spare \cup {Root}) = {}
  /\ \A m \in Models : \A f \in DOMAIN kids[m] :
       /\ Level[m] < Level[kids[m][f]]
       /\ kids[m][f] \notin spare \cup removed \cup {Root}
       /\ \A n \in Models : \A g \in DOMAIN kids[n] :
            kids[m][f] = kids[n][g] => m = n /\ f = g

\* Who is where: what each thread waits for, and where the host can hold guards.
Control ==
  /\ \A a \in Actors : Waits(a) => target[a] \in Locks
  /\ \A a \in gone : call[a] = "none" /\ guards[a] = {}
  /\ \A c \in Clients : call[c] \notin {"update", "accumulate"}
  /\ \A a \in Actors : call[a] = "write" => target[a][1] = "data"
  /\ \A a \in Actors : call[a] \in {"get", "zoom"} => target[a] = ModelLock(obj[a])
  /\ Alive =>
       /\ phase = "recv" => call[Host] = "none"
       /\ phase \notin UserPhases => guards[Host] = {}
       /\ phase \in UserPhases => call[Host] \notin {"update", "accumulate"}
       /\ phase = "update" => call[Host] \in {"none", "update", "write"}
       /\ phase = "accumulate" => call[Host] = "accumulate"
       /\ phase = "update" /\ stack = <<>> => call[Host] = "update"
       /\ call[Host] = "update" => ~ran
       /\ phase = "update" /\ call[Host] = "write" => ran
  /\ ~Alive => stack = <<>>
  /\ hand # <<>> <=> Alive /\ phase \in {"intercept", "update"}
  /\ hand # <<>> => Len(hand) = 1

\* The write guards stand one below the other, on the path of the message.
Order ==
  \A i, j \in DOMAIN stack : i < j => Level[stack[i]] < Level[stack[j]]

Follows ==
  \A i \in DOMAIN stack :
    i > 1 => /\ hand[1].at[i - 1] \in DOMAIN kids[stack[i - 1]]
             /\ stack[i] = kids[stack[i - 1]][hand[1].at[i - 1]]

\* What is left of the path, counted from the model the host is in or waits for.
RestIsLeft(n) ==
  /\ n + Len(rest) = Len(hand[1].at)
  /\ \A j \in DOMAIN rest : rest[j] = hand[1].at[n + j]

\* The write guards: a path from the root, on which the model stands whose lock
\* the host waits for.
Stack ==
  /\ stack # <<>> => stack[1] = Root
  /\ Order
  /\ call[Host] = "update" /\ stack = <<>> => target[Host] = ModelLock(Root)
  /\ phase = "update" /\ Alive =>
       /\ Len(stack) <= Len(hand[1].at) + 1
       /\ ran => rest = <<>>
       /\ Follows
       /\ ~ran /\ call[Host] = "none" => RestIsLeft(Len(stack) - 1)
       /\ call[Host] = "update" =>
            /\ RestIsLeft(Len(stack))
            /\ stack # <<>> =>
                 /\ hand[1].at[Len(stack)] \in DOMAIN kids[Top]
                 /\ target[Host] = ModelLock(kids[Top][hand[1].at[Len(stack)]])
  /\ phase = "intercept" /\ Alive => rest = hand[1].at /\ ~ran

\* What is half updated is locked or poisoned, and so is all that it is in.
Half ==
  /\ Alive => half = {stack[i] : i \in DOMAIN stack}
  /\ ~Alive => \A m \in half : ModelLock(m) \in poisoned
  /\ \A m \in Models : \A f \in DOMAIN kids[m] : kids[m][f] \in half => m \in half
  /\ \A a \in Actors, m \in Models : ModelLock(m) \in guards[a] => m \notin half

\* Below, of any tree k.
Closed(k, S) == \A s \in S : \A f \in DOMAIN k[s] : k[s][f] \in S

Under(k, r) ==
  {n \in Models : \A S \in SUBSET Models : r \in S /\ Closed(k, S) => n \in S}

\* In tree k, path p leads to model m: w is the way.
Way(k, w, p) ==
  /\ w \in [1 .. Len(p) + 1 -> Models]
  /\ w[1] = Root
  /\ \A i \in 1 .. Len(p) : p[i] \in DOMAIN k[w[i]] /\ w[i + 1] = k[w[i]][p[i]]

Leads(k, p, m) ==
  \E w \in [1 .. Len(p) + 1 -> Models] : Way(k, w, p) /\ w[Len(p) + 1] = m

\* What the models in R took with them.
Lost(k, R, m) == \E r \in R : m \in Under(k, r)

Agrees(k, R, p, m) == Leads(k, p, m) \/ Lost(k, R, m)

\* Paths and handles name the same model until it is removed.
Handles ==
  /\ \A a \in Actors : Agrees(kids, removed, path[a], obj[a])
  /\ \A i \in DOMAIN inbox : Agrees(kids, removed, inbox[i].at, inbox[i].by)
  /\ \A i \in DOMAIN hand : Agrees(kids, removed, hand[i].at, hand[i].by)

\* What has run was applied where the sender's handle says.
Handled ==
  /\ phase = "update" /\ Alive /\ ran =>
       \/ Len(handled) + 1 \in applied[hand[1].by]
       \/ Lost(kids, removed, hand[1].by)
  /\ \A i \in DOMAIN handled :
       \/ i \in applied[handled[i].by]
       \/ Lost(kids, removed, handled[i].by)

Inv == TypeOK /\ Shape /\ Control /\ Stack /\ Half /\ Handles /\ Handled

USE DEF vars, treeVars, lockVars, callVars, handleVars, roundVars

Trees == UNION {[F -> Models] : F \in SUBSET Fields}

LEMMA LockFacts ==
  /\ \A m \in Models : /\ ModelLock(m) \in Locks
                       /\ ModelLock(m)[1] = "model"
                       /\ ModelLock(m)[2] = m
                       /\ DataLock(m) \in Locks
                       /\ DataLock(m)[1] = "data"
                       /\ DataLock(m)[2] = m
  /\ \A l \in Locks : /\ l[2] \in Models
                      /\ l[1] = "model" => l = ModelLock(l[2])
                      /\ l[1] = "data" => l = DataLock(l[2])
                      /\ l[1] \in {"model", "data"}
BY DEF Locks, ModelLock, DataLock

LEMMA TreeFacts ==
  ASSUME NEW k \in [Models -> Trees], NEW m \in Models, NEW f \in DOMAIN k[m]
  PROVE  f \in Fields /\ k[m][f] \in Models
<1>1. PICK F \in SUBSET Fields : k[m] \in [F -> Models]
  BY DEF Trees
<1> QED BY <1>1

\* The top of the stack, and what is left when it is dropped.
LEMMA StackFacts ==
  ASSUME TypeOK, stack # <<>>
  PROVE  /\ Len(stack) \in DOMAIN stack
         /\ DOMAIN stack = 1 .. Len(stack)
         /\ Top = stack[Len(stack)] /\ Top \in Models
         /\ Front(stack) \in Seq(Models)
         /\ Len(Front(stack)) = Len(stack) - 1
         /\ \A i \in 1 .. Len(stack) - 1 : Front(stack)[i] = stack[i]
<1>1. /\ stack \in Seq(Models) /\ Len(stack) \in Nat /\ DOMAIN stack = 1 .. Len(stack)
      /\ Len(stack) # 0
  BY LenProperties, EmptySeq DEF TypeOK
<1>2. \A i \in 1 .. Len(stack) - 1 : stack[i] \in Models
  BY <1>1, ElementOfSeq
<1>3. stack[Len(stack)] \in Models
  BY <1>1, ElementOfSeq
<1> QED BY <1>1, <1>2, <1>3, SubSeqProperties DEF Top, Last, Front

-----------------------------------------------------------------------------
(***************************************************************************)
(* Who changes what.                                                       *)
(***************************************************************************)

\* The steps of a reader that reaches its model.
Handed(a) ==
  Read(a) \/ Get(a) \/ Write(a) \/ \E f \in Fields : Zoom(a, f)

LEMMA Steps ==
  ASSUME [Next]_vars
  PROVE  \/ \E a \in Actors, l \in Locks :
              Ask(a, "read", l) \/ Ask(a, "get", l) \/ Ask(a, "zoom", l) \/ Ask(a, "write", l)
         \/ \E a \in Actors : Handed(a)
         \/ \E a \in Actors : WritePanics(a) \/ FindsPoison(a) \/ Panic(a)
         \/ \E a \in Actors, l \in Locks : DropGuard(a, l)
         \/ \E c \in Clients, kind \in {"set", "swap"} : Send(c, kind)
         \/ Enter \/ Accumulate \/ Take \/ StartUpdate \/ Descend \/ SetBlock
         \/ SwapNothing \/ LeaveChild \/ LeaveRoot \/ EndRound
         \/ \E f \in Fields, new \in spare : SwapBlock(f, new)
         \/ UNCHANGED vars
BY DEF Next, Granted, HostStep, Handed

-----------------------------------------------------------------------------
(***************************************************************************)
(* Types.                                                                  *)
(***************************************************************************)
CallTypes ==
  /\ call \in [Actors -> {"none", "read", "get", "zoom", "write", "update",
                          "accumulate"}]
  /\ target \in [Actors -> Locks \cup {NoLock}]

LEMMA ReturnsTypes ==
  ASSUME TypeOK, NEW a \in Actors, Returns(a)
  PROVE  CallTypes'
BY DEF TypeOK, Returns, CallTypes

LEMMA AskForTypes ==
  ASSUME TypeOK, NEW a \in Actors, NEW l \in Locks,
         NEW what \in {"read", "get", "zoom", "write", "update", "accumulate"},
         AskFor(a, what, l)
  PROVE  CallTypes'
BY DEF TypeOK, AskFor, CallTypes

LEMMA AppliesTypes ==
  ASSUME TypeOK, stack # <<>>, Applies
  PROVE  applied' \in [Models -> SUBSET Nat]
<1>1. Top \in Models /\ Len(handled) + 1 \in Nat
  BY StackFacts, LenProperties DEF TypeOK
<1>2. applied \in [Models -> SUBSET Nat]
  BY DEF TypeOK
<1>3. applied[Top] \cup {Len(handled) + 1} \in SUBSET Nat
  BY <1>1, <1>2
<1> QED BY <1>1, <1>2, <1>3 DEF Applies

LEMMA DiesTypes ==
  ASSUME Inv, NEW a \in Actors, NEW more \in SUBSET Locks, Dies(a, more)
  PROVE  TypeOK'
<1> USE DEF Inv, TypeOK
<1>1. \A i \in DOMAIN stack : ModelLock(stack[i]) \in Locks
  BY LockFacts, ElementOfSeq, LenProperties
<1>2. /\ poisoned' \subseteq Locks
      /\ guards' \in [Actors -> SUBSET Locks]
      /\ stack' \in Seq(Models) /\ (stack' # <<>> => stack' = stack)
  BY <1>1, EmptySeq DEF Dies, Unwound
<1>3. CallTypes'
  BY ReturnsTypes DEF Dies
<1>4. inbox' \in Seq(Messages) /\ hand' \in Seq(Messages)
  BY EmptySeq DEF Dies
<1> QED BY <1>2, <1>3, <1>4 DEF Dies, CallTypes

LEMMA StepTypes == Inv /\ [Next]_vars => TypeOK'
<1> SUFFICES ASSUME Inv, [Next]_vars PROVE TypeOK'
  OBVIOUS
<1> USE DEF Inv, TypeOK, UserPhases
<1>1. ASSUME NEW a \in Actors, NEW l \in Locks,
             NEW what \in {"read", "get", "zoom", "write"}, Ask(a, what, l)
      PROVE  TypeOK'
  <2>1. CallTypes'
    BY <1>1, AskForTypes DEF Ask
  <2>2. calls' \in 0 .. MaxCalls
    BY <1>1, ModelTreeAssumption DEF Ask, Counted
  <2> QED BY <1>1, <2>1, <2>2 DEF Ask, CallTypes
<1>2. ASSUME NEW a \in Actors, Handed(a) PROVE TypeOK'
  <2>1. CallTypes'
    <3>1. Returns(a)
      BY <1>2 DEF Handed, Read, Get, Zoom, Write
    <3> QED BY <3>1, ReturnsTypes
  <2>2. CASE Read(a)
    <3>1. target[a] \in Locks
      BY <2>2 DEF Read, Takes, Available, Control
    <3>2. guards' \in [Actors -> SUBSET Locks]
      BY <2>2, <3>1 DEF Read
    <3> QED BY <2>1, <2>2, <3>2 DEF Read, CallTypes
  <2>3. CASE Get(a)
    <3>1. known' \in [Actors -> SUBSET Models]
      BY <2>3 DEF Get
    <3> QED BY <2>1, <2>3, <3>1 DEF Get, CallTypes
  <2>4. CASE Write(a)
    BY <2>1, <2>4 DEF Write, CallTypes
  <2>5. ASSUME NEW f \in Fields, Zoom(a, f) PROVE TypeOK'
    <3>1. kids[obj[a]][f] \in Models
      BY <2>5, TreeFacts DEF Zoom, Trees
    <3>2. Append(path[a], f) \in Seq(Fields)
      BY AppendProperties
    <3>3. obj' \in [Actors -> Models] /\ path' \in [Actors -> Seq(Fields)]
      BY <2>5, <3>1, <3>2 DEF Zoom, Composes
    <3> QED BY <2>1, <2>5, <3>3 DEF Zoom, CallTypes
  <2> QED BY <1>2, <2>2, <2>3, <2>4, <2>5 DEF Handed
<1>3. ASSUME NEW a \in Actors, WritePanics(a) \/ FindsPoison(a) \/ Panic(a)
      PROVE  TypeOK'
  <2>1. WritePanics(a) => target[a] \in Locks
    BY DEF WritePanics, Takes, Available, Control
  <2>2. \E more \in SUBSET Locks : Dies(a, more)
    BY <1>3, <2>1 DEF WritePanics, FindsPoison, Panic
  <2> QED BY <2>2, DiesTypes
<1>4. ASSUME NEW a \in Actors, NEW l \in Locks, DropGuard(a, l) PROVE TypeOK'
  BY <1>4 DEF DropGuard
<1>5. ASSUME NEW c \in Clients, NEW kind \in {"set", "swap"}, Send(c, kind)
      PROVE  TypeOK'
  <2>1. [at |-> path[c], by |-> obj[c], kind |-> kind] \in Messages
    BY DEF Messages, Actors
  <2>2. inbox' \in Seq(Messages)
    BY <1>5, <2>1, AppendProperties DEF Send
  <2>3. calls' \in 0 .. MaxCalls
    BY <1>5, ModelTreeAssumption DEF Send, Counted
  <2> QED BY <1>5, <2>2, <2>3 DEF Send
<1>6. CASE Take
  <2>1. Head(inbox) \in Messages /\ Tail(inbox) \in Seq(Messages)
    BY <1>6, HeadTailProperties DEF Take
  <2>2. Head(inbox).at \in Seq(Fields)
    BY <2>1 DEF Messages
  <2>3. <<Head(inbox)>> \in Seq(Messages)
    BY <2>1
  <2> QED BY <1>6, <2>1, <2>2, <2>3 DEF Take, HostRuns, UserPhases
<1>7. CASE StartUpdate \/ EndRound
  <2>1. phase' # "update" => stack = <<>>
    BY <1>7 DEF StartUpdate, EndRound, HostRuns
  <2>2. obj' \in [Actors -> Models] /\ path' \in [Actors -> Seq(Fields)]
    <3>1. Root \in Models /\ <<>> \in Seq(Fields)
      BY EmptySeq, ModelTreeAssumption
    <3>2. /\ obj' = [obj EXCEPT ![Host] = Root]
          /\ path' = [path EXCEPT ![Host] = <<>>]
      BY <1>7 DEF StartUpdate, EndRound
    <3> QED BY <3>1, <3>2
  <2>3. CallTypes'
    <3>1. Host \in Actors /\ ModelLock(Root) \in Locks
      BY LockFacts, ModelTreeAssumption DEF Actors
    <3> QED BY <1>7, <3>1, AskForTypes DEF StartUpdate, EndRound, CallTypes
  <2>4. CASE StartUpdate
    BY <2>2, <2>3, <2>4 DEF StartUpdate, CallTypes
  <2>5. CASE EndRound
    BY <2>1, <2>2, <2>3, <2>5 DEF EndRound, CallTypes
  <2> QED BY <1>7, <2>4, <2>5
<1>8. CASE Enter
  <2>1. target[Host] \in Locks /\ target[Host][2] \in Models
    BY <1>8, LockFacts DEF Enter, Takes, Available, Control, Actors
  <2>2. stack' \in Seq(Models)
    BY <1>8, <2>1, AppendProperties DEF Enter
  <2>3. Alive /\ phase = "update"
    BY <1>8 DEF Enter, Takes, Available, Waits, Control, Alive, Actors
  <2>4. CallTypes'
    BY <1>8, ReturnsTypes DEF Enter, Actors
  <2> QED BY <1>8, <2>1, <2>2, <2>3, <2>4 DEF Enter, CallTypes
<1>9. CASE Descend
  <2>1. stack # <<>>
    BY <1>9 DEF Descend, HostRuns, Control, Alive, Waits
  <2>2. kids[Top][Head(rest)] \in Models
    BY <1>9, <2>1, StackFacts, TreeFacts DEF Descend, Trees
  <2>3. Tail(rest) \in Seq(Fields)
    BY <1>9, HeadTailProperties DEF Descend
  <2>4. CallTypes'
    BY <1>9, <2>2, AskForTypes, LockFacts DEF Descend, Actors
  <2> QED BY <1>9, <2>3, <2>4 DEF Descend, CallTypes
<1>10. ASSUME SetBlock \/ SwapNothing PROVE TypeOK'
  <2>1. stack # <<>>
    BY <1>10 DEF SetBlock, SwapNothing, HostRuns, Control, Alive, Waits
  <2>2. applied' \in [Models -> SUBSET Nat]
    BY <1>10, <2>1, AppliesTypes DEF SetBlock, SwapNothing
  <2>3. CallTypes'
    <3>1. DataLock(Top) \in Locks
      BY <2>1, StackFacts, LockFacts
    <3> QED
      BY <1>10, <3>1, AskForTypes DEF SetBlock, SwapNothing, CallTypes, Actors
  <2>4. CASE SetBlock
    BY <2>2, <2>3, <2>4 DEF SetBlock, CallTypes
  <2>5. CASE SwapNothing
    BY <2>2, <2>5 DEF SwapNothing
  <2> QED BY <1>10, <2>4, <2>5
<1>11. ASSUME NEW f \in Fields, NEW new \in spare, SwapBlock(f, new)
       PROVE  TypeOK'
  <2>1. stack # <<>>
    BY <1>11 DEF SwapBlock, HostRuns, Control, Alive, Waits
  <2>2. applied' \in [Models -> SUBSET Nat]
    BY <1>11, <2>1, AppliesTypes DEF SwapBlock
  <2>3. Top \in Models /\ kids[Top][f] \in Models /\ new \in Models
    BY <1>11, <2>1, StackFacts, TreeFacts, ModelTreeAssumption DEF SwapBlock, Trees
  <2>4. kids' \in [Models -> Trees]
    <3>1. PICK F \in SUBSET Fields : kids[Top] \in [F -> Models]
      BY <2>3 DEF Trees
    <3>2. [kids[Top] EXCEPT ![f] = new] \in [F -> Models]
      BY <2>3, <3>1
    <3>3. [kids[Top] EXCEPT ![f] = new] \in Trees
      BY <3>2 DEF Trees
    <3>4. kids' = [kids EXCEPT ![Top] = [kids[Top] EXCEPT ![f] = new]]
      BY <1>11, <2>3 DEF SwapBlock
    <3>5. kids \in [Models -> Trees]
      BY DEF Trees
    <3> HIDE DEF Inv, TypeOK
    <3> QED BY <2>3, <3>3, <3>4, <3>5
  <2> QED BY <1>11, <2>2, <2>3, <2>4 DEF SwapBlock, Trees
<1>12. CASE LeaveChild \/ LeaveRoot
  <2>1. stack # <<>>
    BY <1>12 DEF LeaveChild, LeaveRoot, HostRuns, Control, Alive, Waits
  <2>2. Front(stack) \in Seq(Models)
    BY <2>1, StackFacts
  <2>3. handled \o hand \in Seq(Messages) /\ <<>> \in Seq(Messages)
    BY ConcatProperties, EmptySeq
  <2>4. phase = "update"
    BY <1>12 DEF LeaveChild, LeaveRoot, HostRuns
  <2>5. CASE LeaveChild
    BY <2>2, <2>4, <2>5 DEF LeaveChild
  <2>6. CASE LeaveRoot
    <3>1. CallTypes'
      <4>1. ModelLock(Root) \in Locks
        BY LockFacts, ModelTreeAssumption
      <4> QED BY <2>6, <4>1, AskForTypes DEF LeaveRoot, Actors
    <3> QED BY <2>3, <2>6, <3>1, EmptySeq DEF LeaveRoot, CallTypes
  <2> QED BY <1>12, <2>5, <2>6
<1>13. CASE Accumulate
  <2>1. Alive /\ stack = <<>>
    BY <1>13 DEF Accumulate, Takes, Available, Waits, Control, Alive, Actors
  <2>2. CallTypes'
    BY <1>13, ReturnsTypes DEF Accumulate, Actors
  <2> QED BY <1>13, <2>1, <2>2 DEF Accumulate, CallTypes
<1>14. CASE UNCHANGED vars
  BY <1>14
<1> HIDE DEF Inv, TypeOK, UserPhases
<1> QED
  BY <1>1, <1>2, <1>3, <1>4, <1>5, <1>6, <1>7, <1>8, <1>9, <1>10, <1>11, <1>12,
     <1>13, <1>14, Steps

-----------------------------------------------------------------------------
(***************************************************************************)
(* The tree.                                                               *)
(***************************************************************************)
LEMMA TreeChanges ==
  ASSUME [Next]_vars
  PROVE  \/ UNCHANGED <<kids, spare, removed>>
         \/ \E f \in Fields, new \in spare : SwapBlock(f, new)
BY Steps
   DEF Ask, Handed, Read, Get, Write, Zoom, WritePanics, FindsPoison, Panic, Dies,
       DropGuard, Send, Enter, Accumulate, Take, StartUpdate, Descend, SetBlock,
       SwapNothing, LeaveChild, LeaveRoot, EndRound

LEMMA SwapFacts ==
  ASSUME Inv, NEW f \in Fields, NEW new \in spare, SwapBlock(f, new)
  PROVE  /\ stack # <<>> /\ Top \in Models /\ new \in Models
         /\ f \in DOMAIN kids[Top] /\ kids[Top][f] \in Models
         /\ \A m \in Models : DOMAIN kids'[m] = DOMAIN kids[m]
         /\ \A m \in Models : \A g \in DOMAIN kids[m] :
              kids'[m][g] = IF m = Top /\ g = f THEN new ELSE kids[m][g]
         /\ spare' = spare \ {new} /\ removed' = removed \cup {kids[Top][f]}
<1>1. stack # <<>>
  BY DEF SwapBlock, HostRuns, Inv, Control, Alive, Waits
<1>2. Top \in Models /\ new \in Models /\ kids \in [Models -> Trees]
  BY <1>1, StackFacts, ModelTreeAssumption DEF Inv, TypeOK, Trees
<1>3. f \in DOMAIN kids[Top] /\ kids[Top][f] \in Models
  BY <1>2, TreeFacts DEF SwapBlock
<1>4. kids' = [kids EXCEPT ![Top] = [kids[Top] EXCEPT ![f] = new]]
  BY <1>2 DEF SwapBlock
<1>5. kids'[Top] = [kids[Top] EXCEPT ![f] = new]
  BY <1>2, <1>4
<1>6. \A m \in Models : m # Top => kids'[m] = kids[m]
  BY <1>2, <1>4
<1>7. PICK F \in SUBSET Fields : kids[Top] \in [F -> Models]
  BY <1>2 DEF Trees
<1>8. DOMAIN kids'[Top] = DOMAIN kids[Top]
  BY <1>5, <1>7
<1>9. \A g \in DOMAIN kids[Top] :
        kids'[Top][g] = IF g = f THEN new ELSE kids[Top][g]
  BY <1>5, <1>7
<1> QED BY <1>1, <1>2, <1>3, <1>6, <1>8, <1>9 DEF SwapBlock

LEMMA StepShape == Inv /\ [Next]_vars => Shape'
<1> SUFFICES ASSUME Inv, [Next]_vars PROVE Shape'
  OBVIOUS
<1>1. Shape
  BY DEF Inv
<1>2. CASE UNCHANGED <<kids, spare, removed>>
  BY <1>1, <1>2 DEF Shape
<1>3. ASSUME NEW f \in Fields, NEW new \in spare, SwapBlock(f, new) PROVE Shape'
  <2>1. removed' \cap (spare' \cup {Root}) = {}
    BY <1>1, <1>3, SwapFacts DEF Shape
  <2>2. Level[new] = Level[kids[Top][f]] /\ new # Root /\ new \notin removed
    BY <1>1, <1>3, ModelTreeAssumption DEF SwapBlock, Shape, Inv, TypeOK
  <2>3. ASSUME NEW m \in Models, NEW g \in DOMAIN kids[m]
        PROVE  /\ Level[m] < Level[kids'[m][g]]
               /\ kids'[m][g] \notin spare' \cup removed' \cup {Root}
    <3>1. CASE m = Top /\ g = f
      BY <1>1, <1>3, <2>2, <3>1, SwapFacts DEF Shape
    <3>2. CASE ~(m = Top /\ g = f)
      BY <1>1, <1>3, <2>2, <3>2, SwapFacts DEF Shape
    <3> QED BY <3>1, <3>2
  <2>4. ASSUME NEW m \in Models, NEW g \in DOMAIN kids[m],
               NEW n \in Models, NEW h \in DOMAIN kids[n],
               kids'[m][g] = kids'[n][h]
        PROVE  m = n /\ g = h
    BY <1>1, <1>3, <2>4, SwapFacts DEF Shape
  <2> QED BY <1>3, <2>1, <2>3, <2>4, SwapFacts DEF Shape
<1> QED BY <1>2, <1>3, TreeChanges

-----------------------------------------------------------------------------
(***************************************************************************)
(* Who is where.                                                           *)
(***************************************************************************)
LEMMA StepControl == Inv /\ [Next]_vars => Control'
<1> SUFFICES ASSUME Inv, [Next]_vars PROVE Control'
  OBVIOUS
<1>t. TypeOK /\ Control /\ Host \in Actors \ Clients /\ Clients \subseteq Actors
  BY ModelTreeAssumption DEF Inv, Actors
<1> USE <1>t DEF Control, Alive, UserPhases, Waits
<1>1. ASSUME NEW a \in Actors, NEW l \in Locks,
             NEW what \in {"read", "get", "zoom", "write"}, Ask(a, what, l)
      PROVE  Control'
  <2>1. what = "write" => l[1] = "data"
    BY <1>1 DEF Ask, DataLock
  <2>2. what \in {"get", "zoom"} => l = ModelLock(obj[a])
    BY <1>1 DEF Ask
  <2>3. a \notin gone /\ (a = Host => phase \in {"intercept", "commands"})
    BY <1>1 DEF Ask, Counted, Free
  <2>4. /\ call' = [call EXCEPT ![a] = what] /\ target' = [target EXCEPT ![a] = l]
    BY <1>1 DEF Ask, AskFor
  <2> QED BY <1>1, <2>1, <2>2, <2>3, <2>4 DEF Ask, TypeOK
<1>2. ASSUME NEW a \in Actors, Handed(a) PROVE Control'
  <2>1. /\ call' = [call EXCEPT ![a] = "none"]
        /\ target' = [target EXCEPT ![a] = NoLock]
    BY <1>2 DEF Handed, Read, Get, Write, Zoom, Returns
  <2>2. /\ call[a] \in {"read", "get", "zoom", "write"}
        /\ \A b \in Actors \ {a} : guards'[b] = guards[b] /\ obj'[b] = obj[b]
        /\ call[a] # "read" => guards' = guards
        /\ UNCHANGED <<stack, phase, gone, ran, hand>>
    BY <1>2 DEF Handed, Read, Get, Write, Zoom, Takes, TypeOK
  <2> QED BY <2>1, <2>2 DEF TypeOK
<1>3. ASSUME NEW a \in Actors, NEW more, Dies(a, more) PROVE Control'
  <2>1. /\ call' = [call EXCEPT ![a] = "none"]
        /\ target' = [target EXCEPT ![a] = NoLock]
        /\ guards' = [guards EXCEPT ![a] = {}]
        /\ gone' = gone \cup {a}
        /\ stack' = IF a = Host THEN <<>> ELSE stack
        /\ UNCHANGED <<obj, phase, ran>>
    BY <1>3 DEF Dies, Returns, Unwound
  <2>2. CASE a = Host
    <3>1. hand' = <<>>
      BY <1>3, <2>2 DEF Dies
    <3> QED BY <2>1, <2>2, <3>1 DEF TypeOK
  <2>3. CASE a # Host
    <3>1. hand' = hand
      BY <1>3, <2>3 DEF Dies
    <3> QED BY <2>1, <2>3, <3>1 DEF TypeOK
  <2> QED BY <2>2, <2>3
<1>4. ASSUME NEW a \in Actors, NEW l \in Locks, DropGuard(a, l) PROVE Control'
  BY <1>4 DEF DropGuard, Free, TypeOK
<1>5. ASSUME NEW c \in Clients, NEW kind \in {"set", "swap"}, Send(c, kind)
      PROVE  Control'
  BY <1>5 DEF Send
<1>6. CASE Take
  BY <1>6 DEF Take, HostRuns
<1>7. CASE StartUpdate
  <2>1. /\ call' = [call EXCEPT ![Host] = "update"]
        /\ target' = [target EXCEPT ![Host] = ModelLock(Root)]
        /\ obj' = [obj EXCEPT ![Host] = Root]
        /\ Alive /\ ~ran
    BY <1>7 DEF StartUpdate, AskFor, HostRuns, Inv, Stack
  <2>2. ModelLock(Root) \in Locks
    BY LockFacts, ModelTreeAssumption
  <2>3. /\ guards[Host] = {} /\ phase = "intercept" /\ phase' = "update"
        /\ UNCHANGED <<guards, stack, gone, ran, hand>>
    BY <1>7 DEF StartUpdate, HostRuns
  <2>4. \A a \in Actors \ {Host} :
          call'[a] = call[a] /\ target'[a] = target[a] /\ obj'[a] = obj[a]
    BY <2>1 DEF TypeOK
  <2>5. call'[Host] = "update" /\ target'[Host] = ModelLock(Root)
    BY <2>1 DEF TypeOK
  <2> QED BY <2>1, <2>2, <2>3, <2>4, <2>5
<1>8. CASE Enter
  <2>1. /\ call' = [call EXCEPT ![Host] = "none"]
        /\ target' = [target EXCEPT ![Host] = NoLock]
        /\ stack' # <<>> /\ call[Host] = "update"
    BY <1>8, LenProperties, AppendProperties, LockFacts
       DEF Enter, Returns, Takes, TypeOK
  <2> QED BY <1>8, <2>1 DEF Enter, TypeOK
<1>9. CASE Descend
  <2>1. /\ call' = [call EXCEPT ![Host] = "update"]
        /\ target' = [target EXCEPT ![Host] = ModelLock(kids[Top][Head(rest)])]
        /\ call[Host] = "none" /\ Alive /\ phase = "update"
    BY <1>9 DEF Descend, AskFor, HostRuns
  <2>2. ModelLock(kids[Top][Head(rest)]) \in Locks
    BY <1>9, <2>1, StackFacts, TreeFacts, LockFacts DEF Descend, TypeOK, Trees
  <2>3. ~ran
    BY <1>9, <2>1 DEF Descend, Inv, Stack
  <2> QED BY <1>9, <2>1, <2>2, <2>3 DEF Descend, TypeOK
<1>10. CASE SetBlock
  <2>1. /\ call' = [call EXCEPT ![Host] = "write"]
        /\ target' = [target EXCEPT ![Host] = DataLock(Top)]
        /\ call[Host] = "none" /\ Alive /\ phase = "update" /\ ran'
    BY <1>10 DEF SetBlock, AskFor, HostRuns
  <2>2. DataLock(Top) \in Locks /\ DataLock(Top)[1] = "data"
    BY <2>1, StackFacts, LockFacts
  <2> QED BY <1>10, <2>1, <2>2 DEF SetBlock, TypeOK
<1>11. ASSUME SwapNothing \/ LeaveChild
                \/ \E f \in Fields, new \in spare : SwapBlock(f, new)
       PROVE  Control'
  <2>1. LeaveChild => stack' # <<>>
    BY StackFacts, EmptySeq, LenProperties DEF LeaveChild
  <2> QED BY <1>11, <2>1 DEF SwapNothing, SwapBlock, LeaveChild, HostRuns
<1>12. CASE LeaveRoot
  <2>1. /\ call' = [call EXCEPT ![Host] = "accumulate"]
        /\ target' = [target EXCEPT ![Host] = ModelLock(Root)]
        /\ call[Host] = "none" /\ Alive /\ phase = "update"
        /\ phase' = "accumulate" /\ stack' = <<>> /\ hand' = <<>>
        /\ UNCHANGED <<guards, gone, ran, obj>>
    BY <1>12 DEF LeaveRoot, AskFor, HostRuns
  <2>2. ModelLock(Root) \in Locks
    BY LockFacts, ModelTreeAssumption
  <2>4. \A a \in Actors \ {Host} : call'[a] = call[a] /\ target'[a] = target[a]
    BY <2>1 DEF TypeOK
  <2>5. call'[Host] = "accumulate" /\ target'[Host] = ModelLock(Root)
    BY <2>1 DEF TypeOK
  <2> QED BY <2>1, <2>2, <2>4, <2>5
<1>13. CASE Accumulate
  <2>1. /\ call' = [call EXCEPT ![Host] = "none"]
        /\ target' = [target EXCEPT ![Host] = NoLock]
        /\ call[Host] = "accumulate" /\ phase' = "commands"
        /\ UNCHANGED <<guards, gone, ran, obj, stack, hand>>
    BY <1>13 DEF Accumulate, Returns, Takes
  <2> QED BY <2>1 DEF TypeOK
<1>14. CASE EndRound
  <2>1. /\ phase = "commands" /\ phase' = "recv" /\ call[Host] = "none"
        /\ guards[Host] = {} /\ obj' = [obj EXCEPT ![Host] = Root]
        /\ UNCHANGED <<guards, gone, ran, stack, hand, call, target>>
    BY <1>14 DEF EndRound, HostRuns
  <2> QED BY <2>1 DEF TypeOK
<1>15. CASE UNCHANGED vars
  BY <1>15
<1>16. ASSUME NEW a \in Actors, WritePanics(a) \/ FindsPoison(a) \/ Panic(a)
       PROVE  Control'
  BY <1>3, <1>16 DEF WritePanics, FindsPoison, Panic
<1> HIDE <1>t DEF Control, Alive, UserPhases, Waits
<1> QED
  BY <1>1, <1>2, <1>4, <1>5, <1>6, <1>7, <1>8, <1>9, <1>10, <1>11, <1>12, <1>13,
     <1>14, <1>15, <1>16, Steps

-----------------------------------------------------------------------------
(***************************************************************************)
(* The write guards.                                                       *)
(***************************************************************************)

\* Steps that move nothing but a reader: for the write guards, nothing.
Idle ==
  /\ UNCHANGED <<stack, phase, rest, ran, hand, kids>>
  /\ Host \in gone' <=> Host \in gone
  /\ \/ call'[Host] = call[Host] /\ target'[Host] = target[Host]
     \/ call'[Host] # "update" /\ (phase = "update" => ran)

LEMMA IdleSteps ==
  ASSUME Inv, [Next]_vars
  PROVE  \/ Idle
         \/ \E more : Dies(Host, more)
         \/ Enter \/ Accumulate \/ Take \/ StartUpdate \/ Descend \/ SetBlock
         \/ SwapNothing \/ LeaveChild \/ LeaveRoot \/ EndRound
         \/ \E f \in Fields, new \in spare : SwapBlock(f, new)
<1>t. /\ Host \in Actors /\ TypeOK /\ Control
      /\ call \in [Actors -> {"none", "read", "get", "zoom", "write", "update",
                              "accumulate"}]
      /\ target \in [Actors -> Locks \cup {NoLock}]
  BY DEF Inv, TypeOK, Actors
<1>1. ASSUME NEW a \in Actors, NEW l \in Locks,
             NEW what \in {"read", "get", "zoom", "write"}, Ask(a, what, l)
      PROVE  Idle
  <2>1. /\ call' = [call EXCEPT ![a] = what] /\ target' = [target EXCEPT ![a] = l]
        /\ a = Host => phase # "update"
        /\ UNCHANGED <<stack, phase, rest, ran, hand, kids, gone>>
    BY <1>1 DEF Ask, AskFor, Counted, Free, UserPhases
  <2> QED BY <1>t, <2>1 DEF Idle
<1>2. ASSUME NEW a \in Actors, Handed(a) PROVE Idle
  <2>1. /\ call' = [call EXCEPT ![a] = "none"]
        /\ target' = [target EXCEPT ![a] = NoLock]
        /\ call[a] \in {"read", "get", "zoom", "write"}
        /\ UNCHANGED <<stack, phase, rest, ran, hand, kids, gone>>
    BY <1>2 DEF Handed, Read, Get, Write, Zoom, Returns, Takes
  <2>2. a = Host /\ phase = "update" => ran
    <3>1. Alive \/ a # Host
      BY <1>t, <2>1 DEF Control, Alive
    <3> QED BY <1>t, <2>1, <3>1 DEF Control
  <2> QED BY <1>t, <2>1, <2>2 DEF Idle
<1>3. ASSUME NEW a \in Actors, a # Host, NEW more, Dies(a, more) PROVE Idle
  <2>1. /\ call' = [call EXCEPT ![a] = "none"]
        /\ target' = [target EXCEPT ![a] = NoLock]
        /\ gone' = gone \cup {a} /\ stack' = stack
        /\ UNCHANGED <<phase, rest, ran, hand, kids>>
    BY <1>3 DEF Dies, Returns, Unwound
  <2> QED BY <1>t, <1>3, <2>1 DEF Idle
<1>4. ASSUME NEW a \in Actors, NEW l \in Locks, DropGuard(a, l) PROVE Idle
  BY <1>4 DEF DropGuard, Idle
<1>5. ASSUME NEW c \in Clients, NEW kind \in {"set", "swap"}, Send(c, kind)
      PROVE  Idle
  BY <1>5 DEF Send, Idle
<1>6. UNCHANGED vars => Idle
  BY DEF Idle
<1>7. ASSUME NEW a \in Actors, WritePanics(a) \/ FindsPoison(a) \/ Panic(a)
      PROVE  Idle \/ \E more : Dies(Host, more)
  BY <1>3, <1>7 DEF WritePanics, FindsPoison, Panic
<1> QED BY <1>1, <1>2, <1>4, <1>5, <1>6, <1>7, Steps

LEMMA IdleStack == Inv /\ Idle => Stack'
<1> SUFFICES ASSUME Inv, Idle PROVE Stack'
  OBVIOUS
<1>1. Stack /\ Control
  BY DEF Inv
<1>2. UNCHANGED <<stack, phase, rest, ran, hand, kids>> /\ (Alive' <=> Alive) /\ Top' = Top
  BY DEF Idle, Alive, Top
<1>3. /\ (Order' <=> Order) /\ (Follows' <=> Follows)
      /\ (RestIsLeft(Len(stack))' <=> RestIsLeft(Len(stack)))
      /\ (RestIsLeft(Len(stack) - 1)' <=> RestIsLeft(Len(stack) - 1))
  BY <1>2 DEF Order, Follows, RestIsLeft
<1>4. CASE call'[Host] = call[Host] /\ target'[Host] = target[Host]
  BY <1>1, <1>2, <1>3, <1>4 DEF Stack
<1>5. CASE call'[Host] # "update" /\ (phase = "update" => ran)
  BY <1>1, <1>2, <1>3, <1>5 DEF Stack
<1> QED BY <1>4, <1>5 DEF Idle

\* The message in hand while a model is updated.
LEMMA HandFacts ==
  ASSUME Inv, Alive, phase \in {"intercept", "update"}
  PROVE  /\ hand # <<>> /\ Len(hand) = 1 /\ DOMAIN hand = {1}
         /\ hand[1] \in Messages /\ hand[1].at \in Seq(Fields)
         /\ hand[1].by \in Models /\ hand = <<hand[1]>>
<1>1. hand # <<>> /\ Len(hand) = 1 /\ hand \in Seq(Messages)
  BY DEF Inv, Control, TypeOK
<1>2. DOMAIN hand = 1 .. 1 /\ hand[1] \in Messages
  BY <1>1, LenProperties, ElementOfSeq
<1>3. hand = <<hand[1]>>
  BY <1>1, <1>2, SeqEqual
<1> QED BY <1>1, <1>2, <1>3 DEF Messages

LEMMA EnterFacts ==
  ASSUME Inv, Enter
  PROVE  /\ Alive /\ phase = "update" /\ call[Host] = "update" /\ ~ran
         /\ target[Host] \in Locks /\ target[Host] \notin poisoned
         /\ target[Host] = ModelLock(target[Host][2])
         /\ target[Host][2] \in Models
         /\ stack' = Append(stack, target[Host][2])
         /\ stack' # <<>> /\ Len(stack') = Len(stack) + 1
         /\ DOMAIN stack' = 1 .. Len(stack) + 1
         /\ DOMAIN stack = 1 .. Len(stack) /\ Len(stack) \in Nat
         /\ \A i \in 1 .. Len(stack) : stack'[i] = stack[i]
         /\ stack'[Len(stack) + 1] = target[Host][2]
         /\ stack = <<>> => target[Host][2] = Root
         /\ stack # <<>> =>
              /\ hand[1].at[Len(stack)] \in DOMAIN kids[Top]
              /\ target[Host][2] = kids[Top][hand[1].at[Len(stack)]]
<1>t. Host \in Actors /\ TypeOK /\ Control /\ Stack /\ stack \in Seq(Models)
  BY DEF Inv, TypeOK, Actors
<1>1. /\ call[Host] = "update" /\ Waits(Host)
      /\ target[Host] \notin poisoned
      /\ stack' = Append(stack, target[Host][2])
  BY DEF Enter, Takes, Waits
<1>2. Alive /\ phase = "update" /\ ~ran
  BY <1>t, <1>1 DEF Control, Alive, TypeOK, UserPhases
<1>3. target[Host] \in Locks
  BY <1>t, <1>1 DEF Control
<1>4. stack = <<>> => target[Host] = ModelLock(Root)
  BY <1>t, <1>1 DEF Stack
<1>5. stack # <<>> =>
        /\ hand[1].at[Len(stack)] \in DOMAIN kids[Top]
        /\ target[Host] = ModelLock(kids[Top][hand[1].at[Len(stack)]])
  BY <1>t, <1>1, <1>2 DEF Stack
<1>6. stack # <<>> => kids[Top][hand[1].at[Len(stack)]] \in Models
  BY <1>t, <1>5, StackFacts, TreeFacts DEF TypeOK, Trees
<1>7. target[Host] = ModelLock(target[Host][2]) /\ target[Host][2] \in Models
  BY <1>4, <1>5, <1>6, LockFacts, ModelTreeAssumption
<1> QED
  BY <1>t, <1>1, <1>2, <1>3, <1>4, <1>5, <1>6, <1>7, AppendProperties,
     LenProperties, LockFacts, ModelTreeAssumption

LEMMA EnterStack == Inv /\ Enter => Stack'
<1> SUFFICES ASSUME Inv, Enter PROVE Stack'
  OBVIOUS
<1>t. Stack /\ Shape /\ TypeOK /\ Host \in Actors
  BY DEF Inv, Actors
<1> DEFINE new == target[Host][2]
           at == hand[1].at
           n == Len(stack)
<1>1. /\ UNCHANGED <<phase, rest, ran, hand, kids, gone>>
      /\ call'[Host] = "none"
  BY <1>t DEF Enter, Returns, TypeOK
<1>2. \A i \in 1 .. n : Level[stack[i]] < Level[new]
  <2>1. CASE stack = <<>>
    BY <2>1, EnterFacts, EmptySeq
  <2>2. CASE stack # <<>>
    <3>1. Level[Top] < Level[new]
      BY <1>t, <2>2, EnterFacts, StackFacts DEF Shape
    <3>2. n \in 1 .. n /\ Top = stack[n] /\ n \in Nat /\ DOMAIN stack = 1 .. n
      BY <1>t, <2>2, EnterFacts, StackFacts
    <3>3. \A i \in 1 .. n : stack[i] \in Models
      BY <1>t, EnterFacts, ElementOfSeq DEF TypeOK
    <3> HIDE DEF n
    <3>4. ASSUME NEW i \in 1 .. n, i # n PROVE Level[stack[i]] < Level[Top]
      <4>1. i \in DOMAIN stack /\ n \in DOMAIN stack /\ i < n
        BY <3>2, <3>4
      <4>2. Order
        BY <1>t DEF Stack
      <4> QED BY <3>2, <4>1, <4>2 DEF Order
    <3>5. ASSUME NEW i \in 1 .. n PROVE Level[stack[i]] < Level[new]
      <4>1. Level[stack[i]] \in Nat /\ Level[Top] \in Nat /\ Level[new] \in Nat
        BY <3>2, <3>3, EnterFacts, ModelTreeAssumption
      <4> QED BY <3>1, <3>2, <3>4, <4>1
    <3> QED BY <3>5
  <2> QED BY <2>1, <2>2
<1>3. Order'
  <2>1. ASSUME NEW i \in 1 .. n + 1, NEW j \in 1 .. n + 1, i < j
        PROVE  Level[stack'[i]] < Level[stack'[j]]
    <3>1. i \in 1 .. n /\ n \in Nat
      BY <2>1, EnterFacts
    <3>2. CASE j = n + 1
      BY <1>2, <3>1, <3>2, EnterFacts
    <3>3. CASE j \in 1 .. n
      <4>1. Level[stack[i]] < Level[stack[j]]
        BY <1>t, <2>1, <3>1, <3>3, EnterFacts DEF Stack, Order
      <4> QED BY <3>1, <3>3, <4>1, EnterFacts
    <3> QED BY <3>1, <3>2, <3>3
  <2> QED BY <2>1, EnterFacts DEF Order
<1>4. stack'[1] = Root
  BY <1>t, EnterFacts, EmptySeq DEF Stack
<1>5. RestIsLeft(n)
  BY <1>t, EnterFacts DEF Stack
<1>6. Follows'
  <2>1. ASSUME NEW i \in 1 .. n, i > 1
        PROVE  /\ at[i - 1] \in DOMAIN kids[stack'[i - 1]]
               /\ stack'[i] = kids[stack'[i - 1]][at[i - 1]]
    <3>1. Follows /\ i - 1 \in 1 .. n
      BY <1>t, <2>1, EnterFacts DEF Stack
    <3> QED BY <2>1, <3>1, EnterFacts DEF Follows
  <2>2. ASSUME n + 1 > 1
        PROVE  /\ at[n] \in DOMAIN kids[stack'[n]]
               /\ stack'[n + 1] = kids[stack'[n]][at[n]]
    <3>1. stack # <<>> /\ n \in 1 .. n
      BY <2>2, EnterFacts, EmptySeq
    <3> QED BY <1>t, <3>1, EnterFacts, StackFacts
  <2>3. DOMAIN stack' = 1 .. n + 1 /\ n \in Nat
    BY EnterFacts
  <2>4. ASSUME NEW i \in 1 .. n + 1, i > 1
        PROVE  /\ at[i - 1] \in DOMAIN kids[stack'[i - 1]]
               /\ stack'[i] = kids[stack'[i - 1]][at[i - 1]]
    <3>1. CASE i \in 1 .. n
      BY <2>1, <2>4, <3>1
    <3>2. CASE i = n + 1
      <4>1. i - 1 = n
        BY <2>3, <3>2
      <4> QED BY <2>2, <2>4, <3>2, <4>1
    <3> QED BY <2>3, <3>1, <3>2
  <2> QED BY <1>1, <2>3, <2>4 DEF Follows
<1>7. Len(stack') = n + 1 /\ n \in Nat /\ n + 1 <= Len(at) + 1
  <2>1. Len(rest) \in Nat /\ Len(at) \in Nat
    BY <1>t, EnterFacts, HandFacts, LenProperties DEF TypeOK
  <2> QED BY <1>5, <2>1, EnterFacts DEF RestIsLeft
<1>8. RestIsLeft(Len(stack) - 1)'
  <2>1. Len(stack') - 1 = n
    BY <1>7
  <2> QED BY <1>1, <1>5, <2>1 DEF RestIsLeft
<1>9. stack' # <<>> /\ ~ran /\ phase = "update"
  BY EnterFacts
<1> QED BY <1>1, <1>3, <1>4, <1>6, <1>7, <1>8, <1>9 DEF Stack

LEMMA DescendStack == Inv /\ Descend => Stack'
<1> SUFFICES ASSUME Inv, Descend PROVE Stack'
  OBVIOUS
<1>t. Stack /\ Control /\ TypeOK /\ Host \in Actors
  BY DEF Inv, Actors
<1> DEFINE at == hand[1].at
           n == Len(stack)
<1>1. /\ UNCHANGED <<phase, ran, hand, kids, gone, stack>> /\ Top' = Top
      /\ call'[Host] = "update"
      /\ target'[Host] = ModelLock(kids[Top][Head(rest)])
      /\ Alive /\ phase = "update" /\ rest # <<>> /\ rest' = Tail(rest)
      /\ call[Host] = "none" /\ Head(rest) \in DOMAIN kids[Top]
  BY <1>t DEF Descend, AskFor, HostRuns, TypeOK, Top, Alive, Waits
<1>2. ~ran /\ stack # <<>>
  BY <1>t, <1>1 DEF Stack, Control
<1>3. RestIsLeft(n - 1)
  BY <1>t, <1>1, <1>2 DEF Stack
<1>4. /\ Len(rest') = Len(rest) - 1 /\ Len(rest) \in Nat /\ Len(rest) > 0
      /\ DOMAIN rest = 1 .. Len(rest) /\ DOMAIN rest' = 1 .. Len(rest) - 1
      /\ \A j \in 1 .. Len(rest) - 1 : rest'[j] = rest[j + 1]
      /\ Head(rest) = rest[1]
  BY <1>t, <1>1, HeadTailProperties, LenProperties, EmptySeq DEF TypeOK
<1>5. Len(at) \in Nat /\ n \in Nat
  BY <1>t, <1>1, HandFacts, LenProperties DEF TypeOK
<1>6. Head(rest) = at[n]
  <2>1. 1 \in DOMAIN rest /\ n - 1 + 1 = n
    BY <1>4, <1>5
  <2> QED BY <1>3, <1>4, <2>1 DEF RestIsLeft
<1>7. RestIsLeft(Len(stack))'
  <2>1. n + Len(rest') = Len(at)
    BY <1>3, <1>4, <1>5 DEF RestIsLeft
  <2>2. ASSUME NEW j \in 1 .. Len(rest) - 1 PROVE rest'[j] = at[n + j]
    <3>1. j + 1 \in DOMAIN rest /\ n - 1 + (j + 1) = n + j
      BY <1>4, <1>5
    <3>2. rest[j + 1] = at[n - 1 + (j + 1)]
      BY <1>3, <3>1 DEF RestIsLeft
    <3> QED BY <1>4, <3>1, <3>2
  <2> QED BY <1>1, <1>4, <2>1, <2>2 DEF RestIsLeft
<1>8. Order' /\ Follows'
  BY <1>t, <1>1 DEF Order, Follows, Stack
<1> QED BY <1>t, <1>1, <1>2, <1>6, <1>7, <1>8 DEF Stack, Alive

LEMMA SwapStack ==
  ASSUME Inv, NEW f \in Fields, NEW new \in spare, SwapBlock(f, new)
  PROVE  Stack'
<1>t. Stack /\ Control /\ TypeOK /\ Host \in Actors
  BY DEF Inv, Actors
<1>1. /\ UNCHANGED <<phase, hand, gone, stack, rest, call, target>> /\ Top' = Top
      /\ call[Host] = "none" /\ phase = "update" /\ Alive /\ rest = <<>> /\ ran'
  BY DEF SwapBlock, HostRuns, Top, Alive, Waits
<1>2. Len(stack) \in DOMAIN stack /\ DOMAIN stack = 1 .. Len(stack) /\ Len(stack) \in Nat
      /\ Top = stack[Len(stack)] /\ stack \in Seq(Models)
  BY <1>t, SwapFacts, StackFacts, LenProperties DEF TypeOK
<1>3. ASSUME NEW i \in 1 .. Len(stack) - 1 PROVE stack[i] \in Models \ {Top}
  <2>1. stack[i] \in Models /\ i < Len(stack) /\ i \in DOMAIN stack
    BY <1>2, ElementOfSeq
  <2>2. Level[stack[i]] < Level[Top]
    BY <1>t, <1>2, <2>1 DEF Stack, Order
  <2>3. Level[Top] \in Nat
    BY SwapFacts, ModelTreeAssumption
  <2> QED BY <2>1, <2>2, <2>3
<1>4. ASSUME NEW i \in DOMAIN stack, i > 1
      PROVE  /\ hand[1].at[i - 1] \in DOMAIN kids'[stack[i - 1]]
             /\ stack[i] = kids'[stack[i - 1]][hand[1].at[i - 1]]
  <2>1. i - 1 \in 1 .. Len(stack) - 1
    BY <1>2, <1>4
  <2>2. /\ hand[1].at[i - 1] \in DOMAIN kids[stack[i - 1]]
        /\ stack[i] = kids[stack[i - 1]][hand[1].at[i - 1]]
    BY <1>t, <1>1, <1>4 DEF Stack, Follows
  <2> QED BY <1>3, <2>1, <2>2, SwapFacts
<1>5. Order' /\ Follows'
  BY <1>t, <1>1, <1>4 DEF Order, Follows, Stack
<1> QED BY <1>t, <1>1, <1>5 DEF Stack, Alive

LEMMA StepStack == Inv /\ [Next]_vars => Stack'
<1> SUFFICES ASSUME Inv, [Next]_vars PROVE Stack'
  OBVIOUS
<1>t. Stack /\ Control /\ TypeOK /\ Host \in Actors
  BY DEF Inv, Actors
<1>1. ASSUME NEW more, Dies(Host, more) PROVE Stack'
  <2>1. stack' = <<>> /\ call'[Host] = "none" /\ ~Alive'
    BY <1>t, <1>1 DEF Dies, Returns, Unwound, TypeOK, Alive
  <2> QED BY <2>1, EmptySeq DEF Stack, Order
<1>2. CASE Accumulate \/ EndRound
  BY <1>t, <1>2 DEF Accumulate, EndRound, Returns, HostRuns, Takes, Stack, TypeOK,
                    Alive, Waits, Order
<1>3. CASE Take
  <2>1. /\ hand' = <<Head(inbox)>> /\ rest' = Head(inbox).at /\ ~ran'
        /\ phase' = "intercept" /\ UNCHANGED <<stack, call, target>>
        /\ call[Host] = "none"
    BY <1>3 DEF Take, HostRuns, Waits
  <2>2. hand'[1] = Head(inbox)
    BY <2>1
  <2>3. Order'
    BY <1>t, <2>1 DEF Stack, Order
  <2> QED BY <1>t, <2>1, <2>2, <2>3 DEF Stack
<1>4. CASE StartUpdate
  <2>1. /\ call'[Host] = "update" /\ target'[Host] = ModelLock(Root)
        /\ Alive /\ phase = "intercept"
        /\ UNCHANGED <<stack, hand, rest, ran, gone>>
    BY <1>t, <1>4 DEF StartUpdate, AskFor, HostRuns, TypeOK, Alive
  <2>2. stack = <<>> /\ rest = hand[1].at /\ ~ran
    BY <1>t, <2>1 DEF Stack, TypeOK
  <2>3. hand[1].at \in Seq(Fields)
    BY <2>1, HandFacts
  <2>4. /\ Len(stack) = 0 /\ DOMAIN stack = {} /\ Len(rest) \in Nat
        /\ DOMAIN rest = 1 .. Len(rest)
    BY <2>2, <2>3, LenProperties
  <2>5. RestIsLeft(Len(stack))' /\ Order' /\ Follows'
    BY <2>1, <2>2, <2>3, <2>4 DEF RestIsLeft, Order, Follows
  <2> QED BY <2>1, <2>2, <2>3, <2>4, <2>5, LenProperties DEF Stack
<1>5. CASE SetBlock \/ SwapNothing
  <2>1. /\ UNCHANGED <<phase, hand, gone, stack, rest, kids>> /\ Top' = Top /\ ran'
        /\ rest = <<>> /\ phase = "update" /\ call'[Host] # "update"
        /\ Alive
    BY <1>t, <1>5 DEF SetBlock, SwapNothing, AskFor, HostRuns, TypeOK, Top, Alive, Waits
  <2>2. Order' /\ Follows'
    BY <1>t, <2>1 DEF Stack, Order, Follows
  <2> QED BY <1>t, <2>1, <2>2 DEF Stack, Alive
<1>6. CASE LeaveChild
  <2>1. /\ UNCHANGED <<phase, hand, gone, rest, kids, call, target, ran>>
        /\ ran /\ phase = "update" /\ call[Host] = "none" /\ Alive
        /\ Len(stack) > 1 /\ stack' = Front(stack)
    BY <1>6 DEF LeaveChild, HostRuns, Alive, Waits
  <2>2. stack # <<>> /\ Len(stack) \in Nat
    BY <1>t, <2>1, EmptySeq, LenProperties DEF TypeOK
  <2>3. /\ DOMAIN stack = 1 .. Len(stack) /\ DOMAIN stack' = 1 .. Len(stack) - 1
        /\ Len(stack') = Len(stack) - 1
        /\ \A i \in 1 .. Len(stack) - 1 : stack'[i] = stack[i]
    BY <1>t, <2>1, <2>2, StackFacts, LenProperties DEF TypeOK
  <2>4. Len(hand[1].at) \in Nat
    BY <2>1, HandFacts, LenProperties
  <2>5. Order'
    BY <1>t, <2>2, <2>3 DEF Stack, Order
  <2>6. Follows'
    <3>1. ASSUME NEW i \in 1 .. Len(stack) - 1, i > 1
          PROVE  /\ hand[1].at[i - 1] \in DOMAIN kids[stack'[i - 1]]
                 /\ stack'[i] = kids[stack'[i - 1]][hand[1].at[i - 1]]
      <4>1. Follows /\ i - 1 \in 1 .. Len(stack) - 1 /\ i \in DOMAIN stack
        BY <1>t, <2>1, <2>2, <2>3, <3>1 DEF Stack
      <4> QED BY <2>3, <3>1, <4>1 DEF Follows
    <3> QED BY <2>1, <2>3, <3>1 DEF Follows
  <2>7. stack'[1] = Root /\ Len(stack') <= Len(hand[1].at) + 1
    BY <1>t, <2>1, <2>2, <2>3, <2>4 DEF Stack, Alive
  <2> QED BY <1>t, <2>1, <2>5, <2>6, <2>7 DEF Stack, Alive
<1>7. CASE LeaveRoot
  <2>1. stack' = <<>> /\ call'[Host] = "accumulate" /\ phase' = "accumulate"
    BY <1>t, <1>7 DEF LeaveRoot, AskFor, TypeOK
  <2> QED BY <2>1, EmptySeq DEF Stack, Order
<1> QED
  BY <1>1, <1>2, <1>3, <1>4, <1>5, <1>6, <1>7, IdleSteps, IdleStack, EnterStack,
     DescendStack, SwapStack

-----------------------------------------------------------------------------
(***************************************************************************)
(* What is half updated.                                                   *)
(***************************************************************************)

\* Steps that take no guard and no model in or out of an update.
Quiet ==
  /\ UNCHANGED <<half, stack, kids>>
  /\ Host \in gone' <=> Host \in gone
  /\ poisoned \subseteq poisoned'
  /\ \A a \in Actors : guards'[a] \subseteq guards[a]

LEMMA QuietSteps ==
  ASSUME Inv, [Next]_vars
  PROVE  \/ Quiet
         \/ \E a \in Actors : Read(a)
         \/ \E more : Dies(Host, more)
         \/ Enter \/ LeaveChild \/ LeaveRoot
         \/ \E f \in Fields, new \in spare : SwapBlock(f, new)
<1>t. guards \in [Actors -> SUBSET Locks]
  BY DEF Inv, TypeOK
<1>1. ASSUME NEW a \in Actors, NEW l \in Locks,
             Ask(a, "read", l) \/ Ask(a, "get", l) \/ Ask(a, "zoom", l) \/ Ask(a, "write", l)
      PROVE  Quiet
  BY <1>1 DEF Ask, Quiet
<1>2. ASSUME NEW a \in Actors, Handed(a), ~Read(a) PROVE Quiet
  BY <1>2 DEF Handed, Get, Write, Zoom, Quiet
<1>3. ASSUME NEW a \in Actors, a # Host, NEW more, Dies(a, more) PROVE Quiet
  <2>1. /\ guards' = [guards EXCEPT ![a] = {}] /\ stack' = stack
        /\ gone' = gone \cup {a} /\ UNCHANGED <<half, kids>>
        /\ poisoned \subseteq poisoned'
    BY <1>3 DEF Dies, Unwound
  <2> QED BY <1>t, <1>3, <2>1 DEF Quiet
<1>4. ASSUME NEW a \in Actors, NEW l \in Locks, DropGuard(a, l) PROVE Quiet
  BY <1>t, <1>4 DEF DropGuard, Quiet
<1>5. ASSUME NEW a \in Actors, WritePanics(a) \/ FindsPoison(a) \/ Panic(a)
      PROVE  Quiet \/ \E more : Dies(Host, more)
  BY <1>3, <1>5 DEF WritePanics, FindsPoison, Panic
<1>6. ASSUME \/ \E c \in Clients, kind \in {"set", "swap"} : Send(c, kind)
             \/ Accumulate \/ Take \/ StartUpdate \/ Descend \/ SetBlock
             \/ SwapNothing \/ EndRound
             \/ UNCHANGED vars
      PROVE  Quiet
  BY <1>6 DEF Send, Accumulate, Take, StartUpdate, Descend, SetBlock, SwapNothing,
              EndRound, Quiet
<1> QED BY <1>1, <1>2, <1>4, <1>5, <1>6, Steps

\* The host leaves the model on top of its guards.
LEMMA LeaveFacts ==
  ASSUME Inv, Alive, stack # <<>>
  PROVE  /\ Top \in Models
         /\ \A i \in DOMAIN stack : stack[i] = Top => i = Len(stack)
         /\ {stack[i] : i \in 1 .. Len(stack) - 1} = half \ {Top}
         /\ \A f \in DOMAIN kids[Top] : kids[Top][f] \notin half
<1> DEFINE n == Len(stack)
<1>t. /\ TypeOK /\ Shape /\ Order /\ half = {stack[i] : i \in DOMAIN stack}
  BY DEF Inv, Stack, Half
<1>1. /\ DOMAIN stack = 1 .. n /\ n \in Nat /\ n \in DOMAIN stack
      /\ Top = stack[n] /\ Top \in Models /\ stack \in Seq(Models)
  BY <1>t, StackFacts, LenProperties DEF TypeOK
<1> HIDE DEF n
<1>2. ASSUME NEW i \in 1 .. n PROVE stack[i] \in Models
  BY <1>1, <1>2, ElementOfSeq
<1>3. ASSUME NEW i \in 1 .. n, i # n PROVE Level[stack[i]] < Level[Top]
  <2>1. i \in DOMAIN stack /\ n \in DOMAIN stack /\ i < n
    BY <1>1, <1>3
  <2> QED BY <1>t, <1>1, <2>1 DEF Order
<1>4. ASSUME NEW i \in 1 .. n, i # n PROVE stack[i] # Top
  <2>1. Level[Top] \in Nat
    BY <1>1, ModelTreeAssumption
  <2> QED BY <1>3, <1>4, <2>1
<1>5. {stack[i] : i \in 1 .. n - 1} = half \ {Top}
  <2>1. \A i \in 1 .. n : i \in 1 .. n - 1 <=> i # n
    BY <1>1
  <2>2. \A i \in 1 .. n - 1 : i \in 1 .. n
    BY <1>1
  <2> QED BY <1>t, <1>1, <1>4, <2>1, <2>2
<1>6. ASSUME NEW f \in DOMAIN kids[Top], kids[Top][f] \in half PROVE FALSE
  <2>1. PICK i \in 1 .. n : kids[Top][f] = stack[i]
    BY <1>t, <1>1, <1>6
  <2>2. Level[Top] < Level[stack[i]]
    BY <1>t, <1>1, <2>1 DEF Shape
  <2>3. Level[Top] \in Nat /\ Level[stack[i]] \in Nat
    BY <1>1, <1>2, ModelTreeAssumption
  <2> QED BY <1>1, <1>3, <2>2, <2>3
<1> QED BY <1>1, <1>4, <1>5, <1>6 DEF n

LEMMA StepHalf == Inv /\ [Next]_vars => Half'
<1> SUFFICES ASSUME Inv, [Next]_vars PROVE Half'
  OBVIOUS
<1>t. TypeOK /\ Half /\ Shape /\ Control /\ Host \in Actors
      /\ guards \in [Actors -> SUBSET Locks]
  BY DEF Inv, TypeOK, Actors
<1>1. CASE Quiet
  BY <1>t, <1>1 DEF Quiet, Half, Alive
<1>2. ASSUME NEW a \in Actors, Read(a) PROVE Half'
  <2>1. /\ guards' = [guards EXCEPT ![a] = @ \cup {target[a]}]
        /\ ~WriteLocked(target[a]) /\ target[a] \notin poisoned
        /\ UNCHANGED <<half, stack, kids, gone, poisoned>>
    BY <1>2 DEF Read, Takes, Available
  <2>2. ASSUME NEW m \in Models, target[a] = ModelLock(m) PROVE m \notin half
    BY <1>t, <2>1, <2>2 DEF Half, WriteLocked
  <2> QED BY <1>t, <2>1, <2>2 DEF Half, Alive
<1>3. ASSUME NEW more, Dies(Host, more) PROVE Half'
  <2>1. /\ guards' = [guards EXCEPT ![Host] = {}] /\ stack' = <<>>
        /\ ~Alive' /\ UNCHANGED <<half, kids>>
        /\ poisoned' = poisoned \cup more \cup {ModelLock(stack[i]) : i \in DOMAIN stack}
    BY <1>3 DEF Dies, Unwound, Alive
  <2>2. \A m \in half : ModelLock(m) \in poisoned'
    BY <1>t, <2>1 DEF Half
  <2> QED BY <1>t, <2>1, <2>2 DEF Half
<1>4. CASE Enter
  <2> DEFINE new == target[Host][2]
  <2>1. /\ half' = half \cup {new} /\ UNCHANGED <<kids, guards, gone>>
        /\ \A b \in Actors : target[Host] \notin guards[b]
    BY <1>4 DEF Enter, Takes, Available, Writes
  <2>2. half' = {stack'[i] : i \in DOMAIN stack'}
    <3>1. half = {stack[i] : i \in 1 .. Len(stack)}
      BY <1>t, <1>4, EnterFacts DEF Half
    <3>2. \A i \in 1 .. Len(stack) + 1 : i \in 1 .. Len(stack) \/ i = Len(stack) + 1
      BY <1>4, EnterFacts
    <3>3. \A i \in 1 .. Len(stack) : i \in 1 .. Len(stack) + 1
      BY <1>4, EnterFacts
    <3>4. Len(stack) + 1 \in 1 .. Len(stack) + 1
      BY <1>4, EnterFacts
    <3> QED BY <1>4, <2>1, <3>1, <3>2, <3>3, <3>4, EnterFacts
  <2>3. ASSUME NEW m \in Models, NEW f \in DOMAIN kids[m], kids[m][f] = new
        PROVE  m \in half
    <3>1. stack # <<>>
      BY <1>t, <1>4, <2>3, EnterFacts DEF Shape
    <3>2. m = Top /\ Top = stack[Len(stack)] /\ Len(stack) \in DOMAIN stack
      BY <1>t, <1>4, <2>3, <3>1, EnterFacts, StackFacts DEF Shape
    <3> QED BY <1>t, <1>4, <3>2, EnterFacts DEF Half
  <2>4. \A a \in Actors : ModelLock(new) \notin guards[a]
    BY <1>4, <2>1, EnterFacts
  <2> QED BY <1>t, <1>4, <2>1, <2>2, <2>3, <2>4, EnterFacts DEF Half, Alive
<1>5. CASE LeaveChild
  <2>1. /\ half' = half \ {Top} /\ stack' = Front(stack)
        /\ UNCHANGED <<kids, guards, gone>> /\ Alive /\ Len(stack) > 1
    BY <1>5 DEF LeaveChild, HostRuns, Alive
  <2>2. stack # <<>>
    BY <2>1, EmptySeq
  <2>3. {stack'[i] : i \in DOMAIN stack'} = half'
    <3>1. DOMAIN stack' = 1 .. Len(stack) - 1
      BY <1>t, <2>1, <2>2, StackFacts, LenProperties
    <3> QED BY <1>t, <2>1, <2>2, <3>1, StackFacts, LeaveFacts
  <2>4. \A m \in Models : \A f \in DOMAIN kids[m] : kids[m][f] \in half' => m \in half'
    BY <1>t, <2>1, <2>2, LeaveFacts DEF Half
  <2> QED BY <1>t, <2>1, <2>3, <2>4 DEF Half, Alive
<1>6. CASE LeaveRoot
  <2>1. /\ half' = half \ {Top} /\ stack' = <<>> /\ UNCHANGED <<kids, guards, gone>>
        /\ Alive /\ Len(stack) = 1
    BY <1>6 DEF LeaveRoot, HostRuns, Alive
  <2>2. stack # <<>>
    BY <2>1, EmptySeq
  <2>3. half' = {}
    <3>1. {stack[i] : i \in 1 .. 0} = {}
      OBVIOUS
    <3> QED BY <2>1, <2>2, <3>1, LeaveFacts
  <2> QED BY <1>t, <2>1, <2>3, EmptySeq DEF Half, Alive
<1>7. ASSUME NEW f \in Fields, NEW new \in spare, SwapBlock(f, new) PROVE Half'
  <2>1. UNCHANGED <<half, stack, guards, gone>> /\ Alive
    BY <1>7 DEF SwapBlock, HostRuns, Alive
  <2>2. Top \in half
    BY <1>t, <1>7, <2>1, SwapFacts, StackFacts DEF Half
  <2>3. ASSUME NEW m \in Models, NEW g \in DOMAIN kids'[m], kids'[m][g] \in half
        PROVE  m \in half
    BY <1>t, <1>7, <2>2, <2>3, SwapFacts DEF Half
  <2> QED BY <1>t, <2>1, <2>3 DEF Half, Alive
<1> QED BY <1>1, <1>2, <1>3, <1>4, <1>5, <1>6, <1>7, QuietSteps

-----------------------------------------------------------------------------
(***************************************************************************)
(* Paths and handles.                                                      *)
(***************************************************************************)
LEMMA LeastNumber ==
  ASSUME NEW T \in SUBSET Nat, T # {}
  PROVE  \E n \in T : \A i \in T : n <= i
<1> DEFINE Smaller == OpToRel(<, Nat)
<1>1. IsWellFoundedOn(Smaller, Nat)
  BY NatLessThanWellFounded, Zenon
<1>2. \A i, n \in Nat : i < n => <<i, n>> \in Smaller
  BY DEF OpToRel
<1> HIDE DEF Smaller
<1>3. PICK n \in T : \A i \in T : <<i, n>> \notin Smaller
  BY <1>1, WFMin
<1>4. ASSUME NEW i \in T PROVE n <= i
  <2>1. i \in Nat /\ n \in Nat
    OBVIOUS
  <2>2. ~(i < n)
    BY <1>2, <1>3, <2>1
  <2> QED BY <2>1, <2>2
<1> QED BY <1>4

LEMMA UnderFacts ==
  ASSUME NEW k \in [Models -> Trees], NEW r \in Models
  PROVE  /\ r \in Under(k, r)
         /\ Closed(k, Under(k, r))
         /\ \A S \in SUBSET Models : r \in S /\ Closed(k, S) => Under(k, r) \subseteq S
<1>1. ASSUME NEW m \in Under(k, r), NEW f \in DOMAIN k[m]
      PROVE  k[m][f] \in Under(k, r)
  <2>1. m \in Models /\ k[m][f] \in Models
    BY <1>1, TreeFacts DEF Under
  <2>2. ASSUME NEW S \in SUBSET Models, r \in S, Closed(k, S) PROVE k[m][f] \in S
    <3>1. m \in S
      BY <2>2 DEF Under
    <3> QED BY <2>2, <3>1 DEF Closed
  <2> QED BY <2>1, <2>2 DEF Under
<1> QED BY <1>1 DEF Closed, Under

\* Tree k is changed to k2 at field f of top.
Changes(k, k2, top, f) ==
  /\ \A m \in Models : DOMAIN k2[m] = DOMAIN k[m]
  /\ \A m \in Models : \A g \in DOMAIN k[m] : (m = top /\ g = f) \/ k2[m][g] = k[m][g]

LEMMA SwapUnder ==
  ASSUME NEW k \in [Models -> Trees], NEW k2 \in [Models -> Trees],
         NEW top \in Models, NEW f \in DOMAIN k[top], Changes(k, k2, top, f),
         NEW r \in Models, top \notin Under(k, r)
  PROVE  Under(k, r) \subseteq Under(k2, r)
<1>1. ASSUME NEW S \in SUBSET Models, r \in S, Closed(k2, S)
      PROVE  Under(k, r) \subseteq S
  <2> DEFINE T == S \cap Under(k, r)
  <2>1. r \in T /\ T \in SUBSET Models
    BY <1>1, UnderFacts
  <2>2. ASSUME NEW s \in T, NEW g \in DOMAIN k[s] PROVE k[s][g] \in T
    <3>1. k2[s][g] = k[s][g] /\ g \in DOMAIN k2[s]
      BY <2>2 DEF Changes
    <3>2. k[s][g] \in Under(k, r)
      BY UnderFacts DEF Closed
    <3> QED BY <1>1, <3>1, <3>2 DEF Closed
  <2>3. Closed(k, T)
    BY <2>2 DEF Closed
  <2> HIDE DEF T
  <2>4. Under(k, r) \subseteq T
    BY <2>1, <2>3, UnderFacts
  <2> QED BY <2>4 DEF T
<1> QED BY <1>1 DEF Under

\* A path leads to where it led, or through the child that was replaced.
LEMMA SwapLeads ==
  ASSUME NEW k \in [Models -> Trees], NEW k2 \in [Models -> Trees],
         NEW top \in Models, NEW f \in DOMAIN k[top], Changes(k, k2, top, f),
         NEW p \in Seq(Fields), NEW m \in Models, Leads(k, p, m)
  PROVE  Leads(k2, p, m) \/ m \in Under(k2, k[top][f])
<1> DEFINE n == Len(p)
<1>0. n \in Nat
  BY LenProperties
<1>1. PICK w \in [1 .. n + 1 -> Models] : Way(k, w, p) /\ w[n + 1] = m
  BY DEF Leads
<1> HIDE DEF n
<1>w. /\ w[1] = Root
      /\ \A i \in 1 .. n : p[i] \in DOMAIN k[w[i]] /\ w[i + 1] = k[w[i]][p[i]]
  BY <1>1 DEF Way, n
<1>2. \A i \in 1 .. n : w[i] \in Models
  BY <1>0
<1>3. CASE \A i \in 1 .. n : ~(w[i] = top /\ p[i] = f)
  <2>1. \A i \in 1 .. n : p[i] \in DOMAIN k2[w[i]] /\ w[i + 1] = k2[w[i]][p[i]]
    BY <1>w, <1>2, <1>3 DEF Changes
  <2> QED BY <1>1, <1>w, <2>1 DEF Way, Leads, n
<1>4. CASE \E i \in 1 .. n : w[i] = top /\ p[i] = f
  <2>1. PICK i \in 1 .. n : w[i] = top /\ p[i] = f
    BY <1>4
  <2>2. ASSUME NEW S \in SUBSET Models, k[top][f] \in S, Closed(k2, S)
        PROVE  m \in S
    <3> DEFINE T == {j \in i + 1 .. n + 1 : w[j] \notin S}
    <3>1. SUFFICES ASSUME T # {} PROVE FALSE
      <4>1. n + 1 \in i + 1 .. n + 1
        BY <1>0
      <4> QED BY <1>1, <3>1, <4>1
    <3>2. T \in SUBSET Nat
      BY <1>0
    <3>3. PICK j \in T : \A h \in T : j <= h
      BY <3>1, <3>2, LeastNumber
    <3>4. j # i + 1
      BY <1>w, <2>1, <2>2, <3>3
    <3>5. j - 1 \in i + 1 .. n + 1 /\ j - 1 \in 1 .. n /\ j - 1 + 1 = j /\ ~(j <= j - 1)
      BY <1>0, <3>2, <3>3, <3>4
    <3>6. w[j - 1] \in S
      BY <3>3, <3>5
    <3>7. p[j - 1] \in DOMAIN k[w[j - 1]] /\ w[j] = k[w[j - 1]][p[j - 1]]
      BY <1>w, <3>5
    <3>8. w[j] \in S
      <4>1. CASE w[j - 1] = top /\ p[j - 1] = f
        BY <2>2, <3>7, <4>1
      <4>2. CASE ~(w[j - 1] = top /\ p[j - 1] = f)
        BY <2>2, <3>6, <3>7, <4>2 DEF Changes, Closed
      <4> QED BY <4>1, <4>2
    <3> QED BY <3>3, <3>8
  <2> QED BY <2>2 DEF Under
<1> QED BY <1>3, <1>4

LEMMA LeadsToRoot ==
  ASSUME NEW k
  PROVE  Leads(k, <<>>, Root)
<1> DEFINE w == [i \in 1 .. 1 |-> Root]
<1>1. Len(<<>>) = 0 /\ Len(<<>>) + 1 = 1
  OBVIOUS
<1>2. w \in [1 .. Len(<<>>) + 1 -> Models] /\ w[1] = Root
  BY <1>1, ModelTreeAssumption
<1>3. \A i \in 1 .. Len(<<>>) : FALSE
  BY <1>1
<1> HIDE DEF w
<1> QED BY <1>1, <1>2, <1>3 DEF Leads, Way

LEMMA ZoomAgrees ==
  ASSUME NEW k \in [Models -> Trees], NEW R \in SUBSET Models,
         NEW p \in Seq(Fields), NEW m \in Models, Agrees(k, R, p, m),
         NEW f \in DOMAIN k[m]
  PROVE  Agrees(k, R, Append(p, f), k[m][f])
<1>1. f \in Fields /\ k[m][f] \in Models
  BY TreeFacts
<1>2. CASE Lost(k, R, m)
  BY <1>2, UnderFacts DEF Lost, Closed, Agrees
<1>3. CASE Leads(k, p, m)
  <2> DEFINE n == Len(p)
             q == Append(p, f)
  <2>0. n \in Nat
    BY LenProperties
  <2>1. PICK w \in [1 .. n + 1 -> Models] : Way(k, w, p) /\ w[n + 1] = m
    BY <1>3 DEF Leads
  <2>2. Len(q) = n + 1 /\ (\A i \in 1 .. n : q[i] = p[i]) /\ q[n + 1] = f
    BY <1>1, AppendProperties
  <2>3. /\ w[1] = Root
        /\ \A i \in 1 .. n : p[i] \in DOMAIN k[w[i]] /\ w[i + 1] = k[w[i]][p[i]]
    BY <2>1 DEF Way
  <2> DEFINE v == [i \in 1 .. n + 1 + 1 |-> IF i = n + 1 + 1 THEN k[m][f] ELSE w[i]]
  <2> HIDE DEF n, q
  <2>4. v \in [1 .. n + 1 + 1 -> Models] /\ v[1] = Root /\ v[n + 1 + 1] = k[m][f]
    BY <1>1, <2>0, <2>3
  <2>5. \A i \in 1 .. n + 1 : v[i] = w[i]
    BY <2>0
  <2>6. ASSUME NEW i \in 1 .. n + 1
        PROVE  q[i] \in DOMAIN k[v[i]] /\ v[i + 1] = k[v[i]][q[i]]
    <3>1. CASE i = n + 1
      BY <2>1, <2>2, <2>4, <2>5, <3>1
    <3>2. CASE i # n + 1
      <4>1. i \in 1 .. n /\ i + 1 \in 1 .. n + 1
        BY <2>0, <3>2
      <4> QED BY <2>2, <2>3, <2>5, <4>1
    <3> QED BY <3>1, <3>2
  <2> HIDE DEF v
  <2>7. Leads(k, q, k[m][f])
    BY <2>2, <2>4, <2>6 DEF Leads, Way
  <2> QED BY <2>7 DEF Agrees, q
<1> QED BY <1>2, <1>3 DEF Agrees

LEMMA SwapChanges ==
  ASSUME Inv, NEW f \in Fields, NEW new \in spare, SwapBlock(f, new)
  PROVE  /\ kids \in [Models -> Trees] /\ kids' \in [Models -> Trees]
         /\ removed \subseteq Models
         /\ Top \in Models /\ f \in DOMAIN kids[Top] /\ kids[Top][f] \in Models
         /\ Changes(kids, kids', Top, f)
         /\ removed' = removed \cup {kids[Top][f]}
         /\ \A r \in removed : Top \notin Under(kids, r)
<1>1. TypeOK /\ TypeOK' /\ Half /\ Shape /\ Stack
  <2>1. Next
    BY DEF Next, HostStep
  <2> QED BY <2>1, StepTypes DEF Inv
<1>2. /\ kids \in [Models -> Trees] /\ kids' \in [Models -> Trees]
      /\ removed \subseteq Models
  BY <1>1 DEF TypeOK, Trees
<1>3. Changes(kids, kids', Top, f)
  BY SwapFacts DEF Changes
<1>4. ASSUME NEW r \in removed PROVE Top \notin Under(kids, r)
  <2>1. Alive /\ phase = "update" /\ half = {stack[i] : i \in DOMAIN stack}
    BY <1>1 DEF SwapBlock, HostRuns, Alive, Half
  <2>2. Top \in half
    BY <1>1, <2>1, SwapFacts, StackFacts
  <2>3. r \notin half
    <3>1. ASSUME NEW i \in DOMAIN stack PROVE stack[i] # r
      <4>1. CASE i = 1
        BY <1>1, <4>1, SwapFacts DEF Stack, Shape
      <4>2. CASE i # 1
        <5>1. i \in Nat /\ i > 1 /\ i - 1 \in DOMAIN stack /\ stack \in Seq(Models)
          <6>1. stack \in Seq(Models) /\ Len(stack) \in Nat /\ DOMAIN stack = 1 .. Len(stack)
            BY <1>1, LenProperties DEF TypeOK
          <6> QED BY <4>2, <6>1
        <5>2. /\ hand[1].at[i - 1] \in DOMAIN kids[stack[i - 1]]
              /\ stack[i] = kids[stack[i - 1]][hand[1].at[i - 1]]
          BY <1>1, <2>1, <5>1 DEF Stack, Follows
        <5>3. stack[i - 1] \in Models
          BY <5>1, ElementOfSeq, LenProperties
        <5> QED BY <1>1, <5>2, <5>3 DEF Shape
      <4> QED BY <4>1, <4>2
    <3> QED BY <2>1, <3>1
  <2> DEFINE S == Models \ half
  <2>4. Closed(kids, S)
    BY <1>1, <1>2, TreeFacts DEF Closed, Half
  <2>5. r \in S /\ S \in SUBSET Models
    BY <1>2, <2>3
  <2> HIDE DEF S
  <2>6. Under(kids, r) \subseteq S
    BY <1>2, <2>4, <2>5, UnderFacts
  <2> QED BY <2>2, <2>6 DEF S
<1> QED BY <1>2, <1>3, <1>4, SwapFacts

LEMMA LostStays ==
  ASSUME Inv, [Next]_vars, NEW m \in Models, Lost(kids, removed, m)
  PROVE  Lost(kids', removed', m)
<1>1. CASE UNCHANGED <<kids, spare, removed>>
  BY <1>1
<1>2. ASSUME NEW f \in Fields, NEW new \in spare, SwapBlock(f, new)
      PROVE  Lost(kids', removed', m)
  <2>1. PICK r \in removed : m \in Under(kids, r)
    BY DEF Lost
  <2>2. r \in Models /\ Under(kids, r) \subseteq Under(kids', r)
    BY <1>2, SwapChanges, SwapUnder
  <2> QED BY <1>2, <2>1, <2>2, SwapChanges DEF Lost
<1> QED BY <1>1, <1>2, TreeChanges

LEMMA AgreesStays ==
  ASSUME Inv, [Next]_vars, NEW p \in Seq(Fields), NEW m \in Models,
         Agrees(kids, removed, p, m)
  PROVE  Agrees(kids', removed', p, m)
<1>1. CASE UNCHANGED <<kids, spare, removed>>
  BY <1>1
<1>2. CASE Lost(kids, removed, m)
  BY <1>2, LostStays DEF Agrees
<1>3. ASSUME Leads(kids, p, m),
             NEW f \in Fields, NEW new \in spare, SwapBlock(f, new)
      PROVE  Agrees(kids', removed', p, m)
  <2>1. Leads(kids', p, m) \/ m \in Under(kids', kids[Top][f])
    BY <1>3, SwapChanges, SwapLeads
  <2>2. kids[Top][f] \in removed'
    BY <1>3, SwapChanges
  <2> QED BY <2>1, <2>2 DEF Agrees, Lost
<1> QED BY <1>1, <1>2, <1>3, TreeChanges DEF Agrees

\* Who moves a handle, a message or the message in hand.
LEMMA HandleSteps ==
  ASSUME Inv, [Next]_vars
  PROVE  /\ \/ UNCHANGED <<path, obj>>
            \/ \E a \in Actors, f \in Fields : Zoom(a, f)
            \/ /\ path' = [path EXCEPT ![Host] = <<>>]
               /\ obj' = [obj EXCEPT ![Host] = Root]
         /\ \/ UNCHANGED <<inbox, hand>>
            \/ inbox' = <<>> /\ hand' = <<>>
            \/ inbox' = inbox /\ hand' = <<>>
            \/ Take
            \/ \E c \in Clients, kind \in {"set", "swap"} : Send(c, kind)
<1>1. ASSUME NEW a \in Actors, WritePanics(a) \/ FindsPoison(a) \/ Panic(a)
      PROVE  /\ UNCHANGED <<path, obj>>
             /\ \/ UNCHANGED <<inbox, hand>>
                \/ inbox' = <<>> /\ hand' = <<>>
  BY <1>1 DEF WritePanics, FindsPoison, Panic, Dies
<1>2. ASSUME NEW a \in Actors, Handed(a)
      PROVE  /\ \/ UNCHANGED <<path, obj>>
                \/ \E f \in Fields : Zoom(a, f)
             /\ UNCHANGED <<inbox, hand>>
  BY <1>2 DEF Handed, Read, Get, Write, Zoom
<1> QED BY <1>1, <1>2, Steps
   DEF Ask, DropGuard, Send, Enter, Accumulate, Take, StartUpdate, Descend, SetBlock,
       SwapBlock, SwapNothing, LeaveChild, LeaveRoot, EndRound

LEMMA StepHandles == Inv /\ [Next]_vars => Handles'
<1> SUFFICES ASSUME Inv, [Next]_vars PROVE Handles'
  OBVIOUS
<1>t. /\ TypeOK /\ Handles /\ Control /\ Host \in Actors /\ Clients \subseteq Actors
      /\ obj \in [Actors -> Models] /\ path \in [Actors -> Seq(Fields)]
      /\ inbox \in Seq(Messages) /\ hand \in Seq(Messages)
  BY DEF Inv, TypeOK, Actors
<1>m. \A i \in DOMAIN inbox : inbox[i].at \in Seq(Fields) /\ inbox[i].by \in Models
  <2>1. \A i \in DOMAIN inbox : inbox[i] \in Messages
    BY <1>t, ElementOfSeq, LenProperties
  <2> QED BY <2>1 DEF Messages
<1>h. \A i \in DOMAIN hand : hand[i].at \in Seq(Fields) /\ hand[i].by \in Models
  <2>1. \A i \in DOMAIN hand : hand[i] \in Messages
    BY <1>t, ElementOfSeq, LenProperties
  <2> QED BY <2>1 DEF Messages
<1>1. \A a \in Actors : Agrees(kids', removed', path[a], obj[a])
  BY <1>t, AgreesStays DEF Handles
<1>2. \A i \in DOMAIN inbox : Agrees(kids', removed', inbox[i].at, inbox[i].by)
  BY <1>t, <1>m, AgreesStays DEF Handles
<1>3. \A i \in DOMAIN hand : Agrees(kids', removed', hand[i].at, hand[i].by)
  BY <1>t, <1>h, AgreesStays DEF Handles
<1>4. \A a \in Actors : Agrees(kids', removed', path'[a], obj'[a])
  <2>1. ASSUME NEW b \in Actors, NEW f \in Fields, Zoom(b, f)
        PROVE  \A a \in Actors : Agrees(kids', removed', path'[a], obj'[a])
    <3>1. /\ f \in DOMAIN kids[obj[b]] /\ UNCHANGED <<kids, removed>>
          /\ obj' = [obj EXCEPT ![b] = kids[obj[b]][f]]
          /\ path' = [path EXCEPT ![b] = Append(@, f)]
      BY <2>1 DEF Zoom, Composes
    <3>2. kids \in [Models -> Trees] /\ removed \in SUBSET Models
      BY <1>t DEF TypeOK, Trees
    <3>3. Agrees(kids, removed, Append(path[b], f), kids[obj[b]][f])
      BY <1>t, <3>1, <3>2, ZoomAgrees DEF Handles
    <3> QED BY <1>t, <1>1, <3>1, <3>3
  <2>2. ASSUME path' = [path EXCEPT ![Host] = <<>>], obj' = [obj EXCEPT ![Host] = Root]
        PROVE  \A a \in Actors : Agrees(kids', removed', path'[a], obj'[a])
    <3>1. Agrees(kids', removed', <<>>, Root)
      BY LeadsToRoot DEF Agrees
    <3> QED BY <1>t, <1>1, <2>2, <3>1
  <2> QED BY <1>1, <2>1, <2>2, HandleSteps
<1>5. /\ \A i \in DOMAIN inbox' : Agrees(kids', removed', inbox'[i].at, inbox'[i].by)
      /\ \A i \in DOMAIN hand' : Agrees(kids', removed', hand'[i].at, hand'[i].by)
  <2>1. CASE UNCHANGED <<inbox, hand>>
    BY <1>2, <1>3, <2>1
  <2>2. CASE inbox' = <<>> /\ hand' = <<>>
    BY <2>2, EmptySeq
  <2>3. CASE inbox' = inbox /\ hand' = <<>>
    BY <1>2, <2>3, EmptySeq
  <2>4. CASE Take
    <3>1. /\ inbox # <<>> /\ hand' = <<Head(inbox)>> /\ inbox' = Tail(inbox)
      BY <2>4 DEF Take
    <3>2. /\ Head(inbox) = inbox[1] /\ 1 \in DOMAIN inbox
          /\ DOMAIN inbox' = 1 .. Len(inbox) - 1 /\ DOMAIN inbox = 1 .. Len(inbox)
          /\ Len(inbox) \in Nat
          /\ \A i \in 1 .. Len(inbox) - 1 : inbox'[i] = inbox[i + 1]
      BY <1>t, <3>1, HeadTailProperties, LenProperties, EmptySeq
    <3>3. DOMAIN hand' = {1} /\ hand'[1] = inbox[1]
      <4>1. hand' = <<inbox[1]>>
        BY <3>1, <3>2
      <4>2. DOMAIN <<inbox[1]>> = 1 .. 1 /\ <<inbox[1]>>[1] = inbox[1]
        OBVIOUS
      <4> QED BY <4>1, <4>2
    <3>4. \A i \in 1 .. Len(inbox) - 1 : i + 1 \in 1 .. Len(inbox)
      BY <3>2
    <3> QED BY <1>2, <3>2, <3>3, <3>4
  <2>5. ASSUME NEW c \in Clients, NEW kind \in {"set", "swap"}, Send(c, kind)
        PROVE  /\ \A i \in DOMAIN inbox' : Agrees(kids', removed', inbox'[i].at, inbox'[i].by)
               /\ \A i \in DOMAIN hand' : Agrees(kids', removed', hand'[i].at, hand'[i].by)
    <3> DEFINE msg == [at |-> path[c], by |-> obj[c], kind |-> kind]
    <3>1. inbox' = Append(inbox, msg) /\ hand' = hand
      BY <2>5 DEF Send
    <3>2. c \in Actors /\ msg.at = path[c] /\ msg.by = obj[c] /\ msg \in Messages
      BY <1>t DEF Messages
    <3> HIDE DEF msg
    <3>3. /\ DOMAIN inbox' = 1 .. Len(inbox) + 1 /\ DOMAIN inbox = 1 .. Len(inbox)
          /\ Len(inbox) \in Nat
          /\ \A i \in 1 .. Len(inbox) : inbox'[i] = inbox[i]
          /\ inbox'[Len(inbox) + 1] = msg
      BY <1>t, <3>1, <3>2, AppendProperties, LenProperties
    <3>4. \A i \in 1 .. Len(inbox) + 1 : i \in 1 .. Len(inbox) \/ i = Len(inbox) + 1
      BY <3>3
    <3> QED BY <1>1, <1>2, <1>3, <3>1, <3>2, <3>3, <3>4
  <2> QED BY <2>1, <2>2, <2>3, <2>4, <2>5, HandleSteps
<1> QED BY <1>4, <1>5 DEF Handles

-----------------------------------------------------------------------------
(***************************************************************************)
(* What was handled.                                                       *)
(***************************************************************************)

\* Where nothing is left of the path, the host is where the path leads.
LEMMA PathEndsAtTop ==
  ASSUME Inv, Alive, phase = "update", call[Host] = "none", ~ran, rest = <<>>,
         NEW m \in Models, Leads(kids, hand[1].at, m)
  PROVE  m = Top
<1> DEFINE n == Len(stack)
           at == hand[1].at
<1>t. Stack /\ TypeOK /\ Control
  BY DEF Inv
<1>1. stack # <<>>
  BY <1>t DEF Control
<1>2. /\ n \in Nat /\ DOMAIN stack = 1 .. n /\ n \in DOMAIN stack /\ Top = stack[n]
      /\ stack[1] = Root
  BY <1>t, <1>1, StackFacts, LenProperties DEF TypeOK, Stack
<1>3. Follows
  BY <1>t DEF Stack
<1>4. n = Len(at) + 1
  <2>1. Len(rest) = 0 /\ Len(at) \in Nat
    BY HandFacts, LenProperties
  <2>2. n - 1 + Len(rest) = Len(at)
    BY <1>t DEF Stack, RestIsLeft
  <2>3. n \in Nat
    BY <1>2
  <2> HIDE DEF n, at
  <2> QED BY <2>1, <2>2, <2>3
<1>5. PICK w : Way(kids, w, at) /\ w[n] = m
  BY <1>4 DEF Leads
<1>6. \A i \in 1 .. n - 1 : w[i + 1] = kids[w[i]][at[i]]
  <2>1. n - 1 = Len(at)
    <3>1. Len(at) \in Nat
      BY HandFacts, LenProperties
    <3> QED BY <1>4, <3>1
  <2> QED BY <1>5, <2>1 DEF Way
<1>7. w[1] = Root
  BY <1>5 DEF Way
<1> HIDE DEF n, at
<1>8. \A i \in 1 .. n - 1 : stack[i + 1] = kids[stack[i]][at[i]]
  <2>1. ASSUME NEW i \in 1 .. n - 1 PROVE stack[i + 1] = kids[stack[i]][at[i]]
    <3>1. i + 1 \in 1 .. n /\ i + 1 > 1 /\ (i + 1) - 1 = i
      BY <1>2
    <3> QED BY <1>2, <1>3, <3>1 DEF Follows, at
  <2> QED BY <2>1
<1> DEFINE T == {i \in 1 .. n : w[i] # stack[i]}
<1>9. T = {}
  <2>1. SUFFICES ASSUME T # {} PROVE FALSE
    OBVIOUS
  <2>2. T \in SUBSET Nat
    BY <1>2
  <2>3. PICK j \in T : \A i \in T : j <= i
    BY <2>1, <2>2, LeastNumber
  <2>4. j # 1
    BY <1>2, <1>7, <2>3
  <2>5. j - 1 \in 1 .. n - 1 /\ j - 1 \in 1 .. n /\ ~(j <= j - 1) /\ j - 1 + 1 = j
    BY <1>2, <2>2, <2>3, <2>4
  <2>6. w[j - 1] = stack[j - 1]
    BY <2>3, <2>5
  <2>7. w[j] = stack[j]
    BY <1>6, <1>8, <2>5, <2>6
  <2> QED BY <2>3, <2>7
<1> QED BY <1>2, <1>5, <1>9

\* The messages handled stay as they are, and so does the one in hand.
Still ==
  /\ UNCHANGED <<handled, applied>>
  /\ phase' = "update" /\ Alive' /\ ran' =>
       phase = "update" /\ Alive /\ ran /\ hand' = hand

LEMMA StillSteps ==
  ASSUME Inv, [Next]_vars
  PROVE  \/ Still
         \/ SetBlock \/ SwapNothing \/ LeaveRoot
         \/ \E f \in Fields, new \in spare : SwapBlock(f, new)
<1>t. TypeOK /\ Control /\ Stack /\ Host \in Actors
  BY DEF Inv, Actors
<1>1. ASSUME NEW a \in Actors, NEW l \in Locks,
             Ask(a, "read", l) \/ Ask(a, "get", l) \/ Ask(a, "zoom", l) \/ Ask(a, "write", l)
      PROVE  Still
  BY <1>1 DEF Ask, Still, Alive
<1>2. ASSUME NEW a \in Actors, Handed(a) PROVE Still
  BY <1>2 DEF Handed, Read, Get, Write, Zoom, Still, Alive
<1>3. ASSUME NEW a \in Actors, WritePanics(a) \/ FindsPoison(a) \/ Panic(a)
      PROVE  Still
  <2>1. PICK more : Dies(a, more)
    BY <1>3 DEF WritePanics, FindsPoison, Panic
  <2>2. CASE a = Host
    BY <2>1, <2>2 DEF Dies, Still, Alive
  <2>3. CASE a # Host
    BY <2>1, <2>3 DEF Dies, Still, Alive
  <2> QED BY <2>2, <2>3
<1>4. ASSUME NEW a \in Actors, NEW l \in Locks, DropGuard(a, l) PROVE Still
  BY <1>4 DEF DropGuard, Still, Alive
<1>5. ASSUME NEW c \in Clients, NEW kind \in {"set", "swap"}, Send(c, kind)
      PROVE  Still
  BY <1>5 DEF Send, Still, Alive
<1>6. CASE StartUpdate
  <2>1. phase = "intercept" /\ Alive /\ UNCHANGED <<handled, applied, ran>>
    BY <1>6 DEF StartUpdate, HostRuns, Alive
  <2> QED BY <1>t, <2>1 DEF Still, Stack
<1>7. CASE Take \/ Accumulate \/ EndRound
  BY <1>7 DEF Take, Accumulate, EndRound, Still
<1>8. CASE Enter \/ Descend \/ LeaveChild \/ UNCHANGED vars
  BY <1>8 DEF Enter, Descend, LeaveChild, HostRuns, Still, Alive
<1> QED BY <1>1, <1>2, <1>3, <1>4, <1>5, <1>6, <1>7, <1>8, Steps

LEMMA StepHandled == Inv /\ [Next]_vars => Handled'
<1> SUFFICES ASSUME Inv, [Next]_vars PROVE Handled'
  OBVIOUS
<1>t. /\ TypeOK /\ Handled /\ Handles /\ Control
      /\ applied \in [Models -> SUBSET Nat]
      /\ handled \in Seq(Messages) /\ hand \in Seq(Messages)
      /\ DOMAIN handled = 1 .. Len(handled) /\ Len(handled) \in Nat
  BY LenProperties DEF Inv, TypeOK
<1>m. \A i \in DOMAIN handled : handled[i].by \in Models
  <2>1. \A i \in DOMAIN handled : handled[i] \in Messages
    BY <1>t, ElementOfSeq
  <2> QED BY <2>1 DEF Messages
<1>h. phase = "update" /\ Alive => hand[1].by \in Models /\ DOMAIN hand = {1}
  BY HandFacts
<1>1. CASE Still
  <2>1. \A i \in DOMAIN handled :
          \/ i \in applied[handled[i].by]
          \/ Lost(kids', removed', handled[i].by)
    BY <1>t, <1>m, LostStays DEF Handled
  <2>2. phase = "update" /\ Alive /\ ran =>
          \/ Len(handled) + 1 \in applied[hand[1].by]
          \/ Lost(kids', removed', hand[1].by)
    BY <1>t, <1>h, LostStays DEF Handled
  <2> QED BY <1>1, <2>1, <2>2 DEF Still, Handled
<1>2. ASSUME \/ SetBlock \/ SwapNothing
             \/ \E f \in Fields, new \in spare : SwapBlock(f, new)
      PROVE  Handled'
  <2>1. /\ phase = "update" /\ Alive /\ call[Host] = "none" /\ ~ran /\ rest = <<>>
        /\ Applies /\ UNCHANGED <<handled, hand>>
    BY <1>2 DEF SetBlock, SwapNothing, SwapBlock, HostRuns, Alive, Waits
  <2>2. stack # <<>> /\ Top \in Models
    BY <1>t, <2>1, StackFacts DEF Control
  <2>3. /\ applied' = [applied EXCEPT ![Top] = @ \cup {Len(handled) + 1}]
    BY <2>1 DEF Applies
  <2>4. /\ Len(handled) + 1 \in applied'[Top]
        /\ \A m \in Models : applied[m] \subseteq applied'[m]
    BY <1>t, <2>2, <2>3
  <2>5. \/ hand[1].by = Top
        \/ Lost(kids', removed', hand[1].by)
    <3>1. Agrees(kids, removed, hand[1].at, hand[1].by)
      BY <1>t, <1>h, <2>1 DEF Handles
    <3>2. Leads(kids, hand[1].at, hand[1].by) => hand[1].by = Top
      BY <1>h, <2>1, PathEndsAtTop
    <3>3. Lost(kids, removed, hand[1].by) => Lost(kids', removed', hand[1].by)
      BY <1>h, <2>1, LostStays
    <3> QED BY <3>1, <3>2, <3>3 DEF Agrees
  <2>6. \A i \in DOMAIN handled :
          \/ i \in applied'[handled[i].by]
          \/ Lost(kids', removed', handled[i].by)
    BY <1>t, <1>m, <2>4, LostStays DEF Handled
  <2> QED BY <2>1, <2>4, <2>5, <2>6 DEF Handled
<1>3. CASE LeaveRoot
  <2>1. /\ phase = "update" /\ Alive /\ ran /\ phase' = "accumulate"
        /\ handled' = handled \o hand /\ UNCHANGED <<applied, kids, removed>>
    BY <1>3 DEF LeaveRoot, HostRuns, Alive
  <2>2. /\ DOMAIN handled' = 1 .. Len(handled) + 1
        /\ \A i \in 1 .. Len(handled) : handled'[i] = handled[i]
        /\ handled'[Len(handled) + 1] = hand[1]
    <3>1. /\ Len(hand) = 1 /\ Len(handled') = Len(handled) + Len(hand)
          /\ DOMAIN handled' = 1 .. Len(handled')
      BY <1>t, <2>1, HandFacts, ConcatProperties, LenProperties
    <3>2. \A i \in 1 .. Len(handled) + Len(hand) :
            handled'[i] = IF i <= Len(handled) THEN handled[i] ELSE hand[i - Len(handled)]
      BY <1>t, <2>1, ConcatProperties
    <3> QED BY <1>t, <3>1, <3>2
  <2>3. \A i \in 1 .. Len(handled) + 1 : i \in 1 .. Len(handled) \/ i = Len(handled) + 1
    BY <1>t
  <2>4. /\ \/ Len(handled) + 1 \in applied[hand[1].by]
           \/ Lost(kids, removed, hand[1].by)
        /\ \A i \in DOMAIN handled :
             \/ i \in applied[handled[i].by]
             \/ Lost(kids, removed, handled[i].by)
    BY <1>t, <2>1 DEF Handled
  <2> QED BY <1>t, <2>1, <2>2, <2>3, <2>4 DEF Handled
<1> QED BY <1>1, <1>2, <1>3, StillSteps

-----------------------------------------------------------------------------
(***************************************************************************)
(* The invariant, and what follows from it.                                *)
(***************************************************************************)
LEMMA InitInv == Init => Inv
<1> SUFFICES ASSUME Init PROVE Inv
  OBVIOUS
<1> USE DEF Init
<1>t. /\ Host \in Actors /\ Root \in Models /\ <<>> \in Seq(Models)
      /\ <<>> \in Seq(Messages) /\ <<>> \in Seq(Fields)
      /\ \A m \in Models : \A f \in DOMAIN Children[m] : Children[m][f] \in Models
  BY EmptySeq, ModelTreeAssumption, TreeFacts DEF Actors, Trees
<1>1. TypeOK
  <2>1. kids \in [Models -> UNION {[F -> Models] : F \in SUBSET Fields}]
    BY ModelTreeAssumption
  <2>2. /\ spare \subseteq Spares /\ removed \subseteq Models /\ half \subseteq Models
        /\ poisoned \subseteq Locks /\ gone \subseteq Actors /\ calls \in 0 .. MaxCalls
    BY ModelTreeAssumption
  <2>3. /\ guards \in [Actors -> SUBSET Locks] /\ obj \in [Actors -> Models]
        /\ path \in [Actors -> Seq(Fields)] /\ known \in [Actors -> SUBSET Models]
        /\ applied \in [Models -> SUBSET Nat]
    BY <1>t
  <2>4. /\ call \in [Actors -> {"none", "read", "get", "zoom", "write", "update",
                                "accumulate"}]
        /\ target \in [Actors -> Locks \cup {NoLock}]
    OBVIOUS
  <2>5. /\ stack \in Seq(Models) /\ inbox \in Seq(Messages) /\ hand \in Seq(Messages)
        /\ rest \in Seq(Fields) /\ handled \in Seq(Messages) /\ ran \in BOOLEAN
        /\ phase \in UserPhases \cup {"recv", "update", "accumulate"}
        /\ stack = <<>>
    BY <1>t DEF UserPhases
  <2> HIDE DEF Init
  <2> QED BY <2>1, <2>2, <2>3, <2>4, <2>5 DEF TypeOK
<1>2. Shape
  BY ModelTreeAssumption DEF Shape
<1>3. Control
  <2>1. /\ phase = "recv" /\ hand = <<>> /\ stack = <<>> /\ gone = {}
        /\ \A a \in Actors : call[a] = "none" /\ guards[a] = {}
    OBVIOUS
  <2> HIDE DEF Init
  <2> QED BY <1>t, <2>1, ModelTreeAssumption DEF Control, Alive, Waits, UserPhases, Actors
<1>4. Stack
  <2>1. phase = "recv" /\ call[Host] = "none" /\ stack = <<>> /\ DOMAIN stack = {}
    BY <1>t
  <2> QED BY <2>1 DEF Stack, Order
<1>5. Half
  BY <1>t DEF Half, Alive
<1>6. Handles
  <2>1. Agrees(kids, removed, <<>>, Root)
    BY LeadsToRoot DEF Agrees
  <2> QED BY <2>1 DEF Handles
<1>7. Handled
  BY DEF Handled
<1> QED BY <1>1, <1>2, <1>3, <1>4, <1>5, <1>6, <1>7 DEF Inv

LEMMA InvHolds == Spec => []Inv
<1>1. Inv /\ [Next]_vars => Inv'
  BY StepTypes, StepShape, StepControl, StepStack, StepHalf, StepHandles, StepHandled
     DEF Inv
<1> QED BY InitInv, <1>1, PTL DEF Spec

\* Every variable of the tree, its locks and its handles has its type, for any
\* tree, any number of clients and any number of calls, and the host holds write
\* guards only while it updates.
THEOREM TypeCorrect == Spec => []TypeOK
<1>1. Inv => TypeOK
  BY DEF Inv
<1> QED BY InvHolds, <1>1, PTL

\* Who holds the read guard of a model sees no half-done update in it nor
\* anywhere below it: the models that are not half updated are closed under
\* children, because the host keeps the guards of the parents (base.rs:121) and
\* a panic poisons them all.
THEOREM GuardsShowWholeTrees == Spec => []GuardShowsWholeTree
<1>1. ASSUME Inv, NEW a \in Actors, NEW m \in Models, ModelLock(m) \in guards[a]
      PROVE  Below(m) \cap half = {}
  <2> DEFINE S == Models \ half
  <2>1. Half /\ kids \in [Models -> Trees]
    BY <1>1 DEF Inv, TypeOK, Trees
  <2>2. m \in S
    BY <1>1, <2>1 DEF Half
  <2>3. \A s \in S : \A f \in DOMAIN kids[s] : kids[s][f] \in S
    BY <2>1, TreeFacts DEF Half
  <2>4. S \in SUBSET Models
    OBVIOUS
  <2> HIDE DEF S
  <2>5. Below(m) \subseteq S
    BY <2>2, <2>3, <2>4 DEF Below
  <2> QED BY <2>5 DEF S
<1>2. Inv => GuardShowsWholeTree
  BY <1>1 DEF GuardShowsWholeTree
<1> QED BY InvHolds, <1>2, PTL

\* A message is applied to the model that its sender reads, or that model is no
\* longer in the tree: the lenses of an updater and the handle of a getter, which
\* zoom moves together, part only when an update replaces a child.
THEOREM ClientsReadTheirWrites == Spec => []ReadYourWrites
<1>1. Inv => ReadYourWrites
  BY DEF Inv, Handled, ReadYourWrites, Lost, Under, Closed, Below
<1> QED BY InvHolds, <1>1, PTL

-----------------------------------------------------------------------------
(***************************************************************************)
(* Deadlocks.                                                              *)
(***************************************************************************)
LEMMA LargestOf ==
  ASSUME NEW S, IsFiniteSet(S), S # {}, NEW g \in [S -> Nat]
  PROVE  \E s \in S : \A t \in S : g[t] <= g[s]
<1> DEFINE Bad == {U \in SUBSET S : U # {} /\ \A s \in U : \E t \in U : ~(g[t] <= g[s])}
           T == {Cardinality(U) : U \in Bad}
<1>1. SUFFICES ASSUME Bad # {} PROVE FALSE
  <2>1. S \notin Bad
    BY <1>1
  <2> QED BY <2>1
<1>2. \A U \in SUBSET S : IsFiniteSet(U) /\ Cardinality(U) \in Nat
  BY FS_Subset, FS_CardinalityType
<1>3. T \in SUBSET Nat /\ T # {}
  BY <1>1, <1>2
<1>4. PICK n \in T : \A i \in T : n <= i
  BY <1>3, LeastNumber
<1>5. PICK U \in Bad : n = Cardinality(U)
  BY <1>4
<1>6. PICK x \in U : TRUE
  BY <1>5
<1> DEFINE V == U \ {x}
<1>7. V \in SUBSET S /\ Cardinality(V) = Cardinality(U) - 1
  BY <1>2, <1>5, <1>6, FS_RemoveElement
<1>8. Cardinality(V) \in Nat /\ Cardinality(U) \in Nat
  BY <1>2, <1>5, <1>7
<1>9. V \notin Bad
  <2>1. SUFFICES ASSUME V \in Bad PROVE FALSE
    OBVIOUS
  <2>2. Cardinality(V) \in T
    BY <2>1
  <2>3. n <= Cardinality(V)
    BY <1>4, <2>2
  <2> QED BY <1>5, <1>7, <1>8, <2>3
<1>10. CASE V = {}
  <2>1. U = {x}
    BY <1>6, <1>10
  <2>2. g[x] \in Nat
    BY <1>5, <1>6
  <2> QED BY <1>5, <2>1, <2>2
<1>11. CASE V # {}
  <2>1. PICK y \in V : \A t \in V : g[t] <= g[y]
    BY <1>7, <1>9, <1>11
  <2>2. \A t \in U : t = x \/ t \in V
    OBVIOUS
  <2>3. \A t \in U : g[t] \in Nat
    BY <1>5
  <2>4. PICK t \in U : ~(g[t] <= g[y])
    BY <1>5, <2>1
  <2>5. t = x
    BY <2>1, <2>2, <2>4
  <2>6. PICK u \in U : ~(g[u] <= g[x])
    BY <1>5, <1>6
  <2>7. u \in V
    <3>1. g[x] <= g[x]
      BY <1>6, <2>3
    <3> QED BY <2>2, <2>6, <3>1
  <2>8. g[u] <= g[y] /\ y \in U
    BY <2>1, <2>7
  <2> QED BY <1>6, <2>3, <2>4, <2>5, <2>6, <2>8
<1> QED BY <1>10, <1>11

\* Lock k comes before lock l: models from the root downwards, then data.
Precedes(k, l) ==
  \/ k[1] = "model" /\ l[1] = "data"
  \/ k[1] = "model" /\ l[1] = "model" /\ Level[k[2]] < Level[l[2]]

LEMMA NoInversion ==
  ASSUME NEW a \in Actors, ~Inverts(a)
  PROVE  /\ \A k \in guards[a] : Precedes(k, target[a])
         /\ a = Host => \A i \in DOMAIN stack : Precedes(ModelLock(stack[i]), target[a])
BY DEF Inverts, Precedes

\* The framework asks for the lock of a child, or for data.
LEMMA HostLocksDownwards ==
  ASSUME Inv, phase \notin UserPhases, Waits(Host)
  PROVE  ~Inverts(Host)
<1>t. Control /\ Stack /\ Shape /\ TypeOK /\ Host \in Actors
  BY DEF Inv, Actors
<1>1. Alive /\ guards[Host] = {}
  BY <1>t DEF Control, Alive, Waits
<1>2. ASSUME NEW i \in DOMAIN stack PROVE Precedes(ModelLock(stack[i]), target[Host])
  <2>1. stack # <<>> /\ phase = "update" /\ stack \in Seq(Models)
    BY <1>t, <1>2, EmptySeq DEF TypeOK
  <2>2. stack[i] \in Models /\ ModelLock(stack[i])[1] = "model"
        /\ ModelLock(stack[i])[2] = stack[i]
    BY <2>1, <1>2, LockFacts, ElementOfSeq, LenProperties
  <2>3. CASE call[Host] = "write"
    BY <1>t, <2>2, <2>3 DEF Control, Precedes
  <2>4. CASE call[Host] = "update"
    <3> DEFINE new == kids[Top][hand[1].at[Len(stack)]]
    <3>1. /\ hand[1].at[Len(stack)] \in DOMAIN kids[Top] /\ Top \in Models
          /\ target[Host] = ModelLock(new)
      BY <1>t, <1>1, <2>1, <2>4, StackFacts DEF Stack
    <3>2. Level[Top] < Level[new] /\ new \in Models
      BY <1>t, <3>1, TreeFacts DEF Shape, TypeOK, Trees
    <3> HIDE DEF new
    <3>3. target[Host][1] = "model" /\ target[Host][2] = new
      BY <3>1, <3>2, LockFacts
    <3>4. stack[i] = Top \/ Level[stack[i]] < Level[Top]
      <4> DEFINE n == Len(stack)
      <4>1. DOMAIN stack = 1 .. n /\ n \in DOMAIN stack /\ Top = stack[n] /\ n \in Nat
        BY <1>t, <2>1, StackFacts, LenProperties
      <4> HIDE DEF n
      <4>2. i = n \/ i < n
        BY <4>1, <1>2
      <4> QED BY <1>t, <4>1, <4>2 DEF Stack, Order
    <3>5. Level[stack[i]] \in Nat /\ Level[Top] \in Nat /\ Level[new] \in Nat
      BY <2>2, <3>1, <3>2, ModelTreeAssumption
    <3>6. Level[stack[i]] < Level[new]
      BY <3>2, <3>4, <3>5
    <3> QED BY <2>2, <3>3, <3>6 DEF Precedes
  <2>5. call[Host] \in {"update", "write"}
    BY <1>t, <1>1, <2>1 DEF Control, Waits
  <2> QED BY <2>3, <2>4, <2>5
<1> QED BY <1>1, <1>2 DEF Inverts, Precedes

\* In a deadlock without an inversion somebody waits for a later lock.
LEMMA LaterLock ==
  ASSUME Inv, NEW S \in SUBSET Actors, Deadlocked(S),
         \A a \in S : ~Inverts(a),
         NEW a \in S
  PROVE  \E c \in S : Precedes(target[a], target[c])
<1>1. \A b \in S : Waits(b) /\ \E c \in S : c \in BlockedBy(b)
  BY DEF Deadlocked, BlockedBy
<1>2. ASSUME NEW b \in S, NEW c \in S, WriteLocked(target[b]), c = Host
      PROVE  Precedes(target[b], target[c])
  BY <1>2, NoInversion DEF WriteLocked
<1>3. ASSUME NEW b \in S, NEW c \in S, target[b] \in guards[c]
      PROVE  Precedes(target[b], target[c])
  BY <1>3, NoInversion
<1>4. ASSUME NEW b \in S, Writes(b)
      PROVE  \E c \in S : Precedes(target[b], target[c])
  BY <1>1, <1>2, <1>3, <1>4 DEF BlockedBy
<1>5. PICK b \in S : b \in BlockedBy(a)
  BY <1>1
<1>6. CASE ~Writes(a) /\ Writes(b) /\ target[b] = target[a]
  BY <1>4, <1>6
<1> QED BY <1>2, <1>3, <1>5, <1>6 DEF BlockedBy

\* Whatever the tree, the clients and the updates, threads wait for each other
\* for ever only if user code asks for a lock while it holds a guard that comes
\* later: the locks the framework takes are asked for from the root downwards
\* and the data of a signal last, so the latest lock of a deadlock would have no
\* holder that waits.
THEOREM DeadlocksNeedInversions == Spec => []DeadlockNeedsInversion
<1>1. ASSUME Inv, NEW S \in SUBSET Actors, Deadlocked(S),
             ~ \E a \in S : Inverts(a) /\ (a = Host => phase \in UserPhases)
      PROVE  FALSE
  <2>1. \A a \in S : Waits(a)
    BY <1>1 DEF Deadlocked, BlockedBy
  <2>2. \A a \in S : ~Inverts(a)
    BY <1>1, <2>1, HostLocksDownwards
  <2>3. \A a \in S : target[a] \in Locks
    BY <1>1, <2>1 DEF Inv, Control
  <2>4. \A a \in S : \E c \in S : Precedes(target[a], target[c])
    BY <1>1, <2>2, LaterLock
  <2> DEFINE g == [a \in S |-> Level[target[a][2]]]
  <2>5. g \in [S -> Nat]
    BY <2>3, LockFacts, ModelTreeAssumption
  <2>6. IsFiniteSet(S) /\ S # {}
    <3>1. IsFiniteSet(Actors)
      BY ModelTreeAssumption, FS_AddElement DEF Actors
    <3> QED BY <1>1, <3>1, FS_Subset DEF Deadlocked
  <2>7. \A a \in S : g[a] = Level[target[a][2]]
    OBVIOUS
  <2> HIDE DEF g
  <2>8. PICK a \in S : \A c \in S : g[c] <= g[a]
    BY <2>5, <2>6, LargestOf
  <2>9. PICK c \in S : Precedes(target[a], target[c])
    BY <2>4
  <2>10. target[c][1] = "model"
    BY <2>4 DEF Precedes
  <2>11. g[a] < g[c]
    <3>1. target[c][1] # "data"
      BY <2>10
    <3> QED BY <2>7, <2>9, <3>1 DEF Precedes
  <2>12. g[c] <= g[a] /\ g[a] \in Nat /\ g[c] \in Nat
    BY <2>5, <2>8
  <2> QED BY <2>11, <2>12
<1>2. Inv => DeadlockNeedsInversion
  BY <1>1 DEF DeadlockNeedsInversion
<1> QED BY InvHolds, <1>2, PTL

-----------------------------------------------------------------------------
(***************************************************************************)
(* Refinement.                                                             *)
(***************************************************************************)
PhaseIs ==
  /\ Host \in gone => Phase = "dead"
  /\ Host \notin gone /\ phase = "recv" => Phase = "idle"
  /\ Host \notin gone /\ phase \in {"intercept", "update"} => Phase = "taken"
  /\ Host \notin gone /\ phase \in {"accumulate", "commands"} => Phase = "applied"

LEMMA PhaseFacts == PhaseIs /\ PhaseIs'
<1>1. PhaseIs
  BY DEF PhaseIs, Phase
<1>2. PhaseIs'
  BY DEF PhaseIs, Phase
<1> QED BY <1>1, <1>2

LEMMA AppStep == Inv /\ [Next]_vars => [App!Next]_App!vars
<1> SUFFICES ASSUME Inv, [Next]_vars PROVE [App!Next]_App!vars
  OBVIOUS
<1>t. Control /\ TypeOK /\ Stack /\ Host \in Actors \ Clients
  BY ModelTreeAssumption DEF Inv, Actors
<1>1. ASSUME NEW a \in Actors, NEW l \in Locks,
             Ask(a, "read", l) \/ Ask(a, "get", l) \/ Ask(a, "zoom", l) \/ Ask(a, "write", l)
      PROVE  UNCHANGED App!vars
  BY <1>1 DEF Ask, App!vars, Phase
<1>2. ASSUME NEW a \in Actors, Handed(a) PROVE UNCHANGED App!vars
  BY <1>2 DEF Handed, Read, Get, Write, Zoom, App!vars, Phase
<1>3. ASSUME NEW a \in Actors, WritePanics(a) \/ FindsPoison(a) \/ Panic(a)
      PROVE  UNCHANGED App!vars \/ App!Die
  <2>1. PICK more : Dies(a, more)
    BY <1>3 DEF WritePanics, FindsPoison, Panic
  <2>2. CASE a # Host
    BY <2>1, <2>2 DEF Dies, App!vars, Phase
  <2>3. CASE a = Host
    <3>1. Host \notin gone /\ phase # "recv"
      BY <1>t, <1>3, <2>3 DEF WritePanics, FindsPoison, Panic, Takes, Available, Waits,
         Free, Control, Alive, UserPhases, TypeOK
    <3>2. /\ inbox' = <<>> /\ hand' = <<>> /\ Host \in gone' /\ handled' = handled
      BY <2>1, <2>3 DEF Dies
    <3>3. phase \in {"intercept", "update", "accumulate", "commands"}
      BY <1>t, <3>1 DEF TypeOK, UserPhases
    <3> QED BY <3>1, <3>2, <3>3, PhaseFacts DEF App!Die, PhaseIs
  <2> QED BY <2>2, <2>3
<1>4. ASSUME NEW a \in Actors, NEW l \in Locks, DropGuard(a, l)
      PROVE  UNCHANGED App!vars
  BY <1>4 DEF DropGuard, App!vars, Phase
<1>5. ASSUME NEW c \in Clients, NEW kind \in {"set", "swap"}, Send(c, kind)
      PROVE  App!Arrive
  <2> DEFINE msg == [at |-> path[c], by |-> obj[c], kind |-> kind]
  <2>1. /\ Host \notin gone /\ inbox' = Append(inbox, msg)
        /\ UNCHANGED <<hand, phase, handled, gone>>
    BY <1>5 DEF Send
  <2>2. msg \in Messages /\ inbox \in Seq(Messages)
    BY <1>t DEF Messages, TypeOK, Actors
  <2> HIDE DEF msg
  <2>3. Len(inbox') = Len(inbox) + 1 /\ inbox'[Len(inbox')] = msg
    BY <2>1, <2>2, AppendProperties, LenProperties
  <2> QED BY <2>1, <2>2, <2>3 DEF App!Arrive, Phase
<1>6. CASE Take
  BY <1>6, PhaseFacts DEF Take, HostRuns, App!Take, App!Next, PhaseIs
<1>7. CASE LeaveRoot
  BY <1>7, PhaseFacts DEF LeaveRoot, HostRuns, App!Apply, App!Next, PhaseIs
<1>8. CASE EndRound
  BY <1>8, PhaseFacts DEF EndRound, HostRuns, App!Finish, App!Next, PhaseIs
<1>9. CASE StartUpdate
  BY <1>9 DEF StartUpdate, HostRuns, App!vars, Phase
<1>10. CASE Accumulate
  <2>1. phase = "accumulate"
    BY <1>t, <1>10 DEF Accumulate, Takes, Available, Waits, Control, Alive, UserPhases,
       TypeOK
  <2> QED BY <1>10, <2>1 DEF Accumulate, App!vars, Phase
<1>11. ASSUME \/ Enter \/ Descend \/ SetBlock \/ SwapNothing \/ LeaveChild
              \/ \E f \in Fields, new \in spare : SwapBlock(f, new)
              \/ UNCHANGED vars
       PROVE  UNCHANGED App!vars
  BY <1>11 DEF Enter, Descend, SetBlock, SwapNothing, SwapBlock, LeaveChild, App!vars, Phase
<1> QED
  BY <1>1, <1>2, <1>3, <1>4, <1>5, <1>6, <1>7, <1>8, <1>9, <1>10, <1>11, Steps
     DEF App!Next

\* With all its locks, readers, panics and replaced models, the tree is one
\* machine that applies one message at a time, in the order they were sent.
THEOREM TreeImplementsSerialApp == Spec => ImplementsSerialApp
<1>1. Init => App!Init
  <2>1. Init => Host \notin gone
    BY DEF Init
  <2> QED BY <2>1 DEF Init, App!Init, Phase
<1>2. Inv /\ [Next]_vars => [App!Next]_App!vars
  BY AppStep
<1> QED BY <1>1, <1>2, InvHolds, PTL DEF Spec, ImplementsSerialApp, App!Spec

=============================================================================
