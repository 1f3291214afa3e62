------------------------------ MODULE ModelTree ------------------------------
(***************************************************************************)
(* The tree of models of base/src/base.rs and the handles of it in         *)
(* base/src/dispatcher.rs.  A ModelBase is a shared model behind a         *)
(* read-write lock; a model holds the ModelBases of its children, and a    *)
(* signal whose data has a lock of its own.  The host updates the models   *)
(* from the root downwards, each under its write lock; interceptors,       *)
(* commands and clients read them at the same time.  A client zooms its    *)
(* updater and its getter to a child: from then on the updater is a path   *)
(* of lenses, but the getter is the child it found then.                   *)
(*                                                                         *)
(* A lock call is two steps, for a thread waits between them.  std leaves  *)
(* open whether a reader may pass a writer that waits: here it may, and    *)
(* nobody may rely on it.  A lock whose write guard is dropped by a panic  *)
(* is poisoned; `unwrap_lock!' panics whoever takes it afterwards.         *)
(*                                                                         *)
(* The mailbox is a queue, the flags and the subscribers of a signal are   *)
(* in module Signal, the rest of a round in module Host.                   *)
(***************************************************************************)
EXTENDS Naturals, Sequences, FiniteSets, SequencesExt

CONSTANTS
  Clients,    \* threads outside the host
  Host,       \* the host's task
  Models,     \* models that exist or will be created
  Root,       \* Host::model
  Children,   \* the children of each model when it is created
  Level,      \* how deep in the tree the type of a model stands
  Spares,     \* models that updates may create
  MaxCalls    \* bound: calls of all threads together

Actors == Clients \cup {Host}

Fields == UNION {DOMAIN Children[m] : m \in Models}

\* at: the path of the lenses.  by: what the sender's getter names, a history.
Messages == [at : Seq(Fields), by : Models, kind : {"set", "swap"}]

ModelLock(m) == <<"model", m>>
DataLock(m) == <<"data", m>>
Locks == {"model", "data"} \X Models
NoLock == <<>>

\* A child has one parent and stands deeper than it; the root and the models to
\* be created have none.
ASSUME ModelTreeAssumption ==
  /\ Host \notin Clients
  /\ IsFiniteSet(Clients)
  /\ Root \in Models
  /\ Spares \subseteq Models \ {Root}
  /\ MaxCalls \in Nat
  /\ Level \in [Models -> Nat]
  /\ Children \in [Models -> UNION {[F -> Models] : F \in SUBSET Fields}]
  /\ \A m \in Models : \A f \in DOMAIN Children[m] :
       /\ Children[m][f] \in Models \ (Spares \cup {Root})
       /\ Level[m] < Level[Children[m][f]]
       /\ \A n \in Models : \A g \in DOMAIN Children[n] :
            Children[m][f] = Children[n][g] => m = n /\ f = g

VARIABLES
  kids,      \* the fields of each model that hold a child
  spare,     \* models not yet created
  removed,   \* history: models that an update has replaced
  half,      \* models whose update has begun and not ended
  poisoned,  \* poisoned locks
  guards,    \* locks each thread reads; guards of one lock are dropped together
  stack,     \* models whose write guard the host holds, the root first
  call,      \* what each thread waits for a lock for
  target,    \* that lock
  gone,      \* threads that have panicked
  calls,     \* calls made
  obj,       \* the model each thread's getter names
  path,      \* the lenses in each thread's updater
  known,     \* models whose signal each thread has got
  phase,     \* where the host is in its round
  inbox,     \* the mailbox
  hand,      \* the message in hand, as a sequence of at most one
  rest,      \* what is left of its path
  ran,       \* its block has run
  handled,   \* history: messages handled, in order
  applied    \* history: which of them each model was updated with

treeVars == <<kids, spare, removed, half, applied>>
lockVars == <<poisoned, guards, stack>>
callVars == <<call, target, calls>>
handleVars == <<obj, path, known>>
roundVars == <<phase, hand, rest, ran, handled>>
vars == <<treeVars, lockVars, callVars, handleVars, roundVars, gone, inbox>>

UserPhases == {"intercept", "commands"}

Init ==
  /\ kids = Children
  /\ spare = Spares
  /\ removed = {}
  /\ half = {}
  /\ poisoned = {}
  /\ guards = [a \in Actors |-> {}]
  /\ stack = <<>>
  /\ call = [a \in Actors |-> "none"]
  /\ target = [a \in Actors |-> NoLock]
  /\ gone = {}
  /\ calls = 0
  /\ obj = [a \in Actors |-> Root]
  /\ path = [a \in Actors |-> <<>>]
  /\ known = [a \in Actors |-> {}]
  /\ phase = "recv"
  /\ inbox = <<>>
  /\ hand = <<>>
  /\ rest = <<>>
  /\ ran = FALSE
  /\ handled = <<>>
  /\ applied = [m \in Models |-> {}]

-----------------------------------------------------------------------------
(***************************************************************************)
(* Locks.                                                                  *)
(***************************************************************************)
Waits(a) == call[a] # "none"

Writes(a) == call[a] \in {"write", "update"}

WriteLocked(l) == l \in {ModelLock(stack[i]) : i \in DOMAIN stack}

\* The lock that a waits for can be handed to it.
Available(a) ==
  /\ Waits(a)
  /\ ~WriteLocked(target[a])
  /\ Writes(a) => \A b \in Actors : target[a] \notin guards[b]

\* Threads that a may have to wait for: who holds the lock, and for a reader
\* also who waits to write.
BlockedBy(a) ==
  {b \in Actors :
     /\ Waits(a)
     /\ \/ b = Host /\ WriteLocked(target[a])
        \/ Writes(a) /\ target[a] \in guards[b]
        \/ ~Writes(a) /\ Writes(b) /\ target[b] = target[a]}

\* The thread asks for a lock.
AskFor(a, what, l) ==
  /\ call' = [call EXCEPT ![a] = what]
  /\ target' = [target EXCEPT ![a] = l]

Returns(a) ==
  /\ call' = [call EXCEPT ![a] = "none"]
  /\ target' = [target EXCEPT ![a] = NoLock]

\* The lock is handed to a thread that waits for it for this.
Takes(a, what) ==
  /\ call[a] = what
  /\ Available(a)
  /\ target[a] \notin poisoned

\* Mutant of Unwound: the read guards of a thread outlive its panic.
UnwoundKeeps(a, more) ==
  /\ poisoned' = poisoned \cup more
       \cup IF a = Host THEN {ModelLock(stack[i]) : i \in DOMAIN stack} ELSE {}
  /\ stack' = IF a = Host THEN <<>> ELSE stack
  /\ UNCHANGED guards

\* The guards of a panicking thread: its read guards are released, the locks of
\* its write guards, and those in more, poisoned.
Unwound(a, more) ==
  /\ poisoned' = poisoned \cup more
       \cup IF a = Host THEN {ModelLock(stack[i]) : i \in DOMAIN stack} ELSE {}
  /\ guards' = [guards EXCEPT ![a] = {}]
  /\ stack' = IF a = Host THEN <<>> ELSE stack

\* A thread panics and ends; with the host goes the receiver of its mailbox.
Dies(a, more) ==
  /\ Unwound(a, more)
  /\ gone' = gone \cup {a}
  /\ Returns(a)
  /\ IF a = Host THEN inbox' = <<>> /\ hand' = <<>> ELSE UNCHANGED <<inbox, hand>>
  /\ UNCHANGED <<treeVars, calls, handleVars, phase, rest, ran, handled>>

-----------------------------------------------------------------------------
(***************************************************************************)
(* Readers: clients, and the user's code in the host's task while it runs  *)
(* an interceptor or a command.                                            *)
(***************************************************************************)
Free(a) ==
  /\ a \notin gone
  /\ ~Waits(a)
  /\ a = Host => phase \in UserPhases

Shown(a) == {m \in Models : ModelLock(m) \in guards[a]}

\* Models whose lock the thread can name: its getter's, and under a read guard
\* the model itself and its children.
Seen(a) ==
  {obj[a]} \cup Shown(a)
    \cup {k \in Models : \E m \in Shown(a) : \E f \in DOMAIN kids[m] : k = kids[m][f]}

SignalsOf(a) == known[a] \cup Shown(a)

Counted(a) ==
  /\ Free(a)
  /\ calls < MaxCalls
  /\ calls' = calls + 1

\* read, get and zoom of getters and readers, read and update of signals.
Ask(a, what, l) ==
  /\ Counted(a)
  /\ \/ what = "read" /\ l \in {ModelLock(m) : m \in Seen(a)}
     \/ what = "get" /\ l = ModelLock(obj[a])
     \/ what = "zoom" /\ DOMAIN kids[obj[a]] # {} /\ l = ModelLock(obj[a])
     \/ what \in {"read", "write"} /\ l \in {DataLock(m) : m \in SignalsOf(a)}
  /\ AskFor(a, what, l)
  /\ UNCHANGED <<treeVars, lockVars, handleVars, roundVars, gone, inbox>>

\* ModelBaseReader::read, CommandContext::read, SignalReader::read.
Read(a) ==
  /\ Takes(a, "read")
  /\ guards' = [guards EXCEPT ![a] = @ \cup {target[a]}]
  /\ Returns(a)
  /\ UNCHANGED <<treeVars, poisoned, stack, calls, handleVars,
                 roundVars, gone, inbox>>

DropGuard(a, l) ==
  /\ Free(a)
  /\ l \in guards[a]
  /\ guards' = [guards EXCEPT ![a] = @ \ {l}]
  /\ UNCHANGED <<treeVars, poisoned, stack, callVars, handleVars, roundVars,
                 gone, inbox>>

\* ModelBase::get: the generated getter clones the model's signal.
Get(a) ==
  /\ Takes(a, "get")
  /\ known' = [known EXCEPT ![a] = @ \cup {obj[a]}]
  /\ Returns(a)
  /\ UNCHANGED <<treeVars, lockVars, calls, obj, path, roundVars, gone,
                 inbox>>

\* Updater::zoom: the new mapper is the child's lens and then the mapper so far.
Composes(a, f) == path' = [path EXCEPT ![a] = Append(@, f)]

\* Mutant of Zoom: the child is cloned and not its handle.
ZoomClones(a, f) ==
  /\ Takes(a, "zoom")
  /\ f \in DOMAIN kids[obj[a]]
  /\ \E copy \in spare : obj' = [obj EXCEPT ![a] = copy]
  /\ Composes(a, f)
  /\ Returns(a)
  /\ UNCHANGED <<treeVars, lockVars, calls, known, roundVars, gone,
                 inbox>>

\* Getter::zoom clones the handle of the child that is there now.
Zoom(a, f) ==
  /\ Takes(a, "zoom")
  /\ f \in DOMAIN kids[obj[a]]
  /\ obj' = [obj EXCEPT ![a] = kids[obj[a]][f]]
  /\ Composes(a, f)
  /\ Returns(a)
  /\ UNCHANGED <<treeVars, lockVars, calls, known, roundVars, gone,
                 inbox>>

\* SignalWriter::update: the closure runs under the write guard of the data.
Write(a) ==
  /\ Takes(a, "write")
  /\ Returns(a)
  /\ UNCHANGED <<treeVars, lockVars, calls, handleVars, roundVars,
                 gone, inbox>>

\* The closure panics.
WritePanics(a) ==
  /\ Takes(a, "write")
  /\ Dies(a, {target[a]})

\* The lock is poisoned.
FindsPoison(a) ==
  /\ Available(a)
  /\ target[a] \in poisoned
  /\ Dies(a, {})

\* The user's code panics, in a client, a callback or the block of an update.
Panic(a) ==
  /\ \/ Free(a)
     \/ a = Host /\ Host \notin gone /\ stack # <<>> /\ ~Waits(Host)
  /\ Dies(a, {})

\* Updater::send, through all lenses.  It never waits for room in the mailbox here:
\* a client that keeps a guard while it waits for room is outside this module, and
\* its deadlock with the host outside Deadlocked.
Send(c, kind) ==
  /\ Counted(c)
  /\ Host \notin gone
  /\ inbox' = Append(inbox, [at |-> path[c], by |-> obj[c], kind |-> kind])
  /\ UNCHANGED <<treeVars, lockVars, call, target, handleVars, roundVars, gone>>

-----------------------------------------------------------------------------
(***************************************************************************)
(* The host: handle_message, and the updates of the models on the path.    *)
(***************************************************************************)
HostRuns(at) == Host \notin gone /\ ~Waits(Host) /\ phase = at

\* Mutant of Take: the message stays in the mailbox until it is handled.
TakePeeks ==
  /\ HostRuns("recv")
  /\ inbox # <<>>
  /\ hand' = <<Head(inbox)>>
  /\ rest' = Head(inbox).at
  /\ ran' = FALSE
  /\ phase' = "intercept"
  /\ UNCHANGED <<treeVars, lockVars, callVars, handleVars, handled, gone, inbox>>

Take ==
  /\ HostRuns("recv")
  /\ inbox # <<>>
  /\ hand' = <<Head(inbox)>>
  /\ inbox' = Tail(inbox)
  /\ rest' = Head(inbox).at
  /\ ran' = FALSE
  /\ phase' = "intercept"
  /\ UNCHANGED <<treeVars, lockVars, callVars, handleVars, handled, gone>>

\* The interceptors are done: `self.model.write()'.
StartUpdate ==
  /\ HostRuns("intercept")
  /\ guards[Host] = {}
  /\ AskFor(Host, "update", ModelLock(Root))
  /\ obj' = [obj EXCEPT ![Host] = Root]
  /\ path' = [path EXCEPT ![Host] = <<>>]
  /\ phase' = "update"
  /\ UNCHANGED <<treeVars, lockVars, calls, known, hand, rest, ran, handled,
                 gone, inbox>>

\* Mutant of Enter: hand over hand, the parent's guard is released.
EnterReleases ==
  /\ Takes(Host, "update")
  /\ stack' = <<target[Host][2]>>
  /\ half' = half \cup {target[Host][2]}
  /\ Returns(Host)
  /\ UNCHANGED <<kids, spare, removed, applied, poisoned, guards, calls,
                 handleVars, roundVars, gone, inbox>>

\* ModelBase::update: the guard is a temporary that lives until the update is
\* over, and the model is changed from now on.
Enter ==
  /\ Takes(Host, "update")
  /\ stack' = Append(stack, target[Host][2])
  /\ half' = half \cup {target[Host][2]}
  /\ Returns(Host)
  /\ UNCHANGED <<kids, spare, removed, applied, poisoned, guards, calls,
                 handleVars, roundVars, gone, inbox>>

Top == Last(stack)

\* The block passes the message on: `self.child.update(message, ctx)'.
Descend ==
  /\ HostRuns("update")
  /\ rest # <<>>
  /\ Head(rest) \in DOMAIN kids[Top]
  /\ AskFor(Host, "update", ModelLock(kids[Top][Head(rest)]))
  /\ rest' = Tail(rest)
  /\ UNCHANGED <<treeVars, lockVars, calls, handleVars, phase, hand, ran,
                 handled, gone, inbox>>

Applies == applied' = [applied EXCEPT ![Top] = @ \cup {Len(handled) + 1}]

\* The block the message is for sets a field and the model's signal.
SetBlock ==
  /\ HostRuns("update")
  /\ rest = <<>>
  /\ ~ran
  /\ hand[1].kind = "set"
  /\ Applies
  /\ ran' = TRUE
  /\ AskFor(Host, "write", DataLock(Top))
  /\ UNCHANGED <<kids, spare, removed, half, lockVars, calls, handleVars, phase,
                 hand, rest, handled, gone, inbox>>

\* The block puts a new model in the place of a child.
SwapBlock(f, new) ==
  /\ HostRuns("update")
  /\ rest = <<>>
  /\ ~ran
  /\ hand[1].kind = "swap"
  /\ f \in DOMAIN kids[Top]
  /\ Level[new] = Level[kids[Top][f]]
  /\ Applies
  /\ ran' = TRUE
  /\ kids' = [kids EXCEPT ![Top] = [@ EXCEPT ![f] = new]]
  /\ spare' = spare \ {new}
  /\ removed' = removed \cup {kids[Top][f]}
  /\ UNCHANGED <<half, lockVars, callVars, handleVars, phase, hand, rest,
                 handled, gone, inbox>>

\* The block keeps the children it has.
SwapNothing ==
  /\ HostRuns("update")
  /\ rest = <<>>
  /\ ~ran
  /\ hand[1].kind = "swap"
  /\ Applies
  /\ ran' = TRUE
  /\ UNCHANGED <<kids, spare, removed, half, lockVars, callVars, handleVars,
                 phase, hand, rest, handled, gone, inbox>>

\* A child's update returns and its guard is dropped.
LeaveChild ==
  /\ HostRuns("update")
  /\ ran
  /\ Len(stack) > 1
  /\ half' = half \ {Top}
  /\ stack' = Front(stack)
  /\ UNCHANGED <<kids, spare, removed, applied, poisoned, guards, callVars,
                 handleVars, roundVars, gone, inbox>>

\* Mutant of LeaveRoot: the signals are accumulated under the write guard.
LeaveRootLate ==
  /\ HostRuns("update")
  /\ ran
  /\ Len(stack) = 1
  /\ half' = half \ {Top}
  /\ handled' = handled \o hand
  /\ hand' = <<>>
  /\ phase' = "accumulate"
  /\ AskFor(Host, "accumulate", ModelLock(Root))
  /\ UNCHANGED <<kids, spare, removed, applied, lockVars, calls, handleVars,
                 rest, ran, gone, inbox>>

\* The update of the root returns; its guard is dropped with the statement, and
\* __accumulate_signals takes a read guard.
LeaveRoot ==
  /\ HostRuns("update")
  /\ ran
  /\ Len(stack) = 1
  /\ half' = half \ {Top}
  /\ stack' = <<>>
  /\ handled' = handled \o hand
  /\ hand' = <<>>
  /\ phase' = "accumulate"
  /\ AskFor(Host, "accumulate", ModelLock(Root))
  /\ UNCHANGED <<kids, spare, removed, applied, poisoned, guards, calls,
                 handleVars, rest, ran, gone, inbox>>

\* The signals of the root's own getters are cloned; the commands come next.
Accumulate ==
  /\ Takes(Host, "accumulate")
  /\ Returns(Host)
  /\ phase' = "commands"
  /\ UNCHANGED <<treeVars, lockVars, calls, handleVars, hand, rest, ran,
                 handled, gone, inbox>>

\* The commands are done (and the collected signals flushed).
EndRound ==
  /\ HostRuns("commands")
  /\ guards[Host] = {}
  /\ obj' = [obj EXCEPT ![Host] = Root]
  /\ path' = [path EXCEPT ![Host] = <<>>]
  /\ phase' = "recv"
  /\ UNCHANGED <<treeVars, lockVars, callVars, known, hand, rest, ran, handled,
                 gone, inbox>>

-----------------------------------------------------------------------------
Granted(a) ==
  \/ Read(a) \/ Get(a) \/ Write(a) \/ WritePanics(a) \/ FindsPoison(a)
  \/ \E f \in Fields : Zoom(a, f)
  \/ a = Host /\ (Enter \/ Accumulate)

HostStep ==
  \/ Take
  \/ StartUpdate
  \/ Descend
  \/ SetBlock
  \/ SwapNothing
  \/ \E f \in Fields, new \in spare : SwapBlock(f, new)
  \/ LeaveChild
  \/ LeaveRoot
  \/ EndRound

Next ==
  \/ \E a \in Actors :
       \/ \E what \in {"read", "get", "zoom", "write"}, l \in Locks : Ask(a, what, l)
       \/ Granted(a)
       \/ \E l \in Locks : DropGuard(a, l)
       \/ Panic(a)
  \/ \E c \in Clients, kind \in {"set", "swap"} : Send(c, kind)
  \/ HostStep

Spec == Init /\ [][Next]_vars

\* A thread that need not wait for anybody gets its lock, whoever does not wait
\* drops its guards some day, and the host goes on.
Fairness ==
  /\ \A a \in Actors :
       /\ WF_vars(BlockedBy(a) = {} /\ Granted(a))
       /\ WF_vars(\E l \in Locks : DropGuard(a, l))
  /\ WF_vars(HostStep)

FairSpec == Spec /\ Fairness

-----------------------------------------------------------------------------
(***************************************************************************)
(* Properties.                                                             *)
(***************************************************************************)
\* The variables have their types; the host writes models only while it updates.
TypeOK ==
  /\ kids \in [Models -> UNION {[F -> Models] : F \in SUBSET Fields}]
  /\ spare \subseteq Spares
  /\ removed \subseteq Models
  /\ half \subseteq Models
  /\ poisoned \subseteq Locks
  /\ guards \in [Actors -> SUBSET Locks]
  /\ stack \in Seq(Models)
  /\ call \in [Actors -> {"none", "read", "get", "zoom", "write", "update",
                          "accumulate"}]
  /\ target \in [Actors -> Locks \cup {NoLock}]
  /\ gone \subseteq Actors
  /\ calls \in 0 .. MaxCalls
  /\ obj \in [Actors -> Models]
  /\ path \in [Actors -> Seq(Fields)]
  /\ known \in [Actors -> SUBSET Models]
  /\ phase \in UserPhases \cup {"recv", "update", "accumulate"}
  /\ inbox \in Seq(Messages)
  /\ hand \in Seq(Messages)
  /\ rest \in Seq(Fields)
  /\ ran \in BOOLEAN
  /\ handled \in Seq(Messages)
  /\ applied \in [Models -> SUBSET Nat]
  /\ stack # <<>> => phase = "update"

\* A model and all that is in it: the least set that holds it and the children
\* of its members.
Below(m) ==
  {n \in Models :
     \A S \in SUBSET Models :
       (m \in S /\ \A s \in S : \A f \in DOMAIN kids[s] : kids[s][f] \in S)
         => n \in S}

\* A read guard of a model shows it and everything below it as it is between
\* two updates, never in the middle of one, nor what a panic left of it: the
\* host keeps the guards of the parents while it updates a child, and a panic
\* poisons all of them.
GuardShowsWholeTree ==
  \A a \in Actors, m \in Models :
    ModelLock(m) \in guards[a] => Below(m) \cap half = {}

\* A client reads its own writes: a message that was handled was applied to the
\* model that its sender's getter named when it was sent, unless an update has
\* removed that model from the tree.  Lenses and handles agree for as long as
\* nobody swaps a child.
ReadYourWrites ==
  \A i \in DOMAIN handled :
    \/ i \in applied[handled[i].by]
    \/ \E m \in removed : handled[i].by \in Below(m)

\* The data of a signal is locked last, after any model.
Inverts(a) ==
  LET Before(k, l) ==
        \/ k[1] = "model" /\ l[1] = "data"
        \/ k[1] = "model" /\ l[1] = "model" /\ Level[k[2]] < Level[l[2]]
  IN  \/ \E k \in guards[a] : ~Before(k, target[a])
      \/ a = Host /\ \E i \in DOMAIN stack : ~Before(ModelLock(stack[i]), target[a])

\* Threads that wait for each other for ever.
Deadlocked(S) == S # {} /\ \A a \in S : BlockedBy(a) \cap S # {}

\* The framework locks from the root downwards and data last: in every deadlock
\* some code of the user asks for a lock while it reads one that comes later, as
\* a client does that asks a getter under the guard of a signal, or two joins
\* that read the same signals in different orders.
DeadlockNeedsInversion ==
  \A S \in SUBSET Actors :
    Deadlocked(S) =>
      \E a \in S : Inverts(a) /\ (a = Host => phase \in UserPhases)

\* As long as guards are dropped some day, a call that never returns waits in a
\* deadlock.
CallsEnd ==
  \A a \in Actors :
    <>[]Waits(a) => <>[](\E S \in SUBSET Actors : Deadlocked(S))

-----------------------------------------------------------------------------
(***************************************************************************)
(* Refinement.                                                             *)
(***************************************************************************)
Phase ==
  IF Host \in gone THEN "dead"
  ELSE CASE phase = "recv"                     -> "idle"
         [] phase \in {"intercept", "update"} -> "taken"
         [] OTHER                              -> "applied"

App == INSTANCE SerialApp WITH
  Message <- Messages, inbox <- inbox, hand <- hand,
  phase <- Phase, log <- handled

\* Seen from its mailbox, the tree of models with its locks is one machine that
\* applies one message at a time.
ImplementsSerialApp == App!Spec
=============================================================================
