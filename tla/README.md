# Verification of Emyu

Emyu is a Model-View-Update framework without a view: a *host* owns a model and
takes messages out of a mailbox one at a time, *updaters* send the messages, and
*signals* carry the model's values to whoever renders them. This directory holds
TLA+ modules translated from the code in `base/src`, the TLC configurations that
check them on small instances, and theorems about them that TLAPS proves for
every instance.

## 1. Inventory

| part | state | operations | talks to |
|---|---|---|---|
| `Signal` (`base.rs:202-347`) | data behind a lock, dirty flag, list of status senders behind a mutex, one status channel per subscriber | `subscribe`, `reader`, `writer`, `write`, `update`, `set`, `recv_status`, `read`, `__flush`, `drop` of any handle | written by updates and commands, flushed by the host, watched by subscribers |
| `Host` (`host.rs`) | mailbox, model, world, interceptors, command queue, collected signals, an updater of its own | `run_once` = take, intercept, update, accumulate, apply commands, flush | updaters fill its mailbox; commands get a context with a clone of its updater |
| `Updater` (`dispatcher.rs:15-73`) | a sender of the mailbox, the mapping of its messages | `try_send`, `send`, `zoom`, `clone`, drop | the mailbox |
| `Getter`, `ModelBase` (`dispatcher.rs:82-116`, `base.rs:82-176`) | the model behind a read-write lock | `get`, `zoom`, `read`, `write`, `update` | model lock, signals |
| `join_signals!` (`macros.rs:77-98`) | a detached task with one subscriber per input | initial read, subscribe, loop: receive, read all, set | input and output signals |
| `CommandFn`, `Option<Command>` (`command.rs`) | none | `apply` | host |
| locks (`maybe.rs`) | std, spin or `RefCell` locks | `read`, `write`, `lock` | everything shared |
| `AppHandle`, spawners (`handle.rs`) | an updater and a getter | `new` spawns `Host::run` | host |
| `#[emyu::model]` (`macros/src/model*`) | none at run time | classifies the methods of an impl block, generates message enum, dispatch, getters, `__accumulate_signals` | generates what the host runs |
| `#[emyu::command]` (`macros/src/command.rs`) | none at run time | turns a function into a command | generates what the host runs |

What is hard in this code: any thread may write or drop a handle of a signal while
the host flushes it; every drop of a handle, however short-lived, broadcasts
`Destroyed`; status channels refuse what does not fit; sends may be abandoned at
an await point, with the message in or out of the mailbox; senders are parked and
woken by what the host takes; user code runs in the middle of a round and may
panic, block or send to the host it runs in. `PROJECT.json` lists each hazard at
its line with the properties that would catch it.

What makes each part correct:

- a signal loses no update: whoever watches it reads the last value in the end, as
  long as somebody flushes, and the list never forgets a live subscriber;
- a host applies the messages it accepted one at a time, in order, each once, with
  all consequences of one before the next; its answers to senders are true; its
  mailbox is bounded and drained;
- whoever reads a model sees it between two updates, a client reads its own writes
  through the handles it zoomed, and calls end unless user code makes a deadlock;
- what a round writes is announced when the round ends, and read in the end;
- a joined signal converges to its inputs;
- the generated code dispatches every message to the method it was made from.

## 2. Modules

| module | models | extends / uses |
|---|---|---|
| `Mpsc` | the bounded channel of `futures::channel::mpsc`, as its callers see it (external) | |
| `Watch` | abstract: a level-triggered notification | |
| `Signal` | one `Signal<T>` | `Mpsc`; implements `Watch` |
| `MCSignal` | TLC instances | `Signal` |
| `SerialApp` | abstract: one inbox, one message at a time | |
| `Host` | `Host`, `Updater`, `CommandContext` | `Mpsc`; implements `SerialApp` |
| `MCHost` | TLC instances and what their updates emit | `Host` |
| `Rounds` | the rounds of a host that flush one signal | `Signal` |
| `ModelTree` | `ModelBase`, readers, `Getter`, `zoom`, locks and poisoning | implements `SerialApp` |
| `MCModelTree` | a tree for TLC | `ModelTree` |
| `JoinSignals` | the block and the task of `join_signals!` | `Mpsc` |
| `CommandMacro`, `MCCommandMacro` | `#[emyu::command]` and the `apply` it generates | |
| `ModelMacro`, `MCModelMacro` | `#[emyu::model]`, the messages and the dispatch it generates | |
| `MpscProofs`, `SignalProofs`, `RoundsProofs`, `HostProofs`, `ModelTreeProofs`, `JoinSignalsProofs`, `CommandMacroProofs`, `ModelMacroProofs` | theorems | the modules they speak of |

### Mpsc

A channel is a queue and the list of parked senders. `Push` always succeeds, for
the library's bound is `buffer + number of senders`: the sender whose message finds
`buffer` messages already there is parked and must not push again until `Pop` has
woken it, one per message taken. `TrySend` reports "full" to a parked sender and
changes nothing. Receiving is one step; in the library the wake-up of a sender and
the decrement of the counter are two, so that a send in between may be parked where
the model lets it pass. Such a sender is woken by the next receive like any other.

### Signal

Grain: one access to shared memory. `Update` is the closure under the data lock,
`MarkDirty` the store of the flag that follows; `TakeDirty` is the swap in
`__flush`; `Lock`, `Send`, `Unlock` are the walk of the list under its mutex, shared
by `__flush` (which sends `Changed` and at the end keeps the open subscribers) and
by `Drop` (which sends `Destroyed`). `temp` tells a temporary writer, as in
`self.name.writer().set(name)`, from a kept one: the temporary is dropped right
after the call. A subscriber registers, reads, waits in `recv_status`, reads again;
when it goes it drops its reader first, which broadcasts to everyone, and then its
receiver. The data is its version; the order of the list is abstracted, so a walk
may go in any order.

`noted`, `loud` and `seen` are history: the last version written through `update`
or `set`, the last one written through a temporary writer, and what each subscriber
read last.

### Host

Clients are updaters in the application: a send starts, is fed (the push), waits to
be flushed, and returns; it fails when the channel is closed; it can be abandoned at
both await points; an idle updater can be dropped. The host goes through the places
`recv`, `intercept`, `accumulate`, `commands`, `sending`, `flush`, as
`handle_message` does. It dies of a panic in an interceptor, in the update or in a
command, of a state that the world lacks (`Panic`), or because its future is dropped
at an await point (`DropHost`). It never ends by itself: it keeps an updater, so the
channel never runs out of senders, and the arm for `None` in `run_once` is dead code.
User code is nondeterministic: an update emits any list of `CommandLists` and writes
any signals; a command is `"plain"` (it may write signals), a state lookup or a
`"send"` to the host itself. Such a send goes through a clone of the updater that is
made for the round (`Updater`), which every command of the round shares; a command may
give it up (`GiveUpSelfSend`), whether the message was pushed or not, and then the
clone may stay parked in the channel although nobody will ever use it again (`givenUp`).
The lock of the model is not a variable: update and accumulation are atomic under it
(`ModelTree` has the lock).

### Rounds

`Host` has a flag for each signal and `Flush` clears it; `Signal` has the protocol
behind the flag and somebody who flushes. `Rounds` puts one into the other for a
signal that a getter of the root returns. The host is one task with two parts in
`Signal`: `Block` is the user's code it runs (`BlockWrites`, `BlockRuns`: every
operation of a thread on the signal, up to the end of the call), `Host` is its flush.
A round is `Take`, the update, `Accumulate` (which collects the `Shared` and drops no
handle), the commands, `StartFlush`, and then `FlushClean`, or `FlushDirty` with the
`Walk` of the list and `EndRound`. Other threads and subscribers act as in `Signal`
at any time. What `Host` shows of order, parking and errors is not repeated: the
mailbox is two counters. `wrote` is history: the last version that the round of each
message wrote through `update` or `set`.

### ModelTree

A model is a node with a read-write lock; a field of it may hold a child; each model
has one signal whose data has a lock of its own. `kids` is what the fields hold now,
`spare` the models that an update may still create. A lock call is two steps: the
thread asks (`Ask`, `StartUpdate`, `Descend`, `SetBlock`, `LeaveRoot`) and is granted
the lock (`Read`, `Get`, `Zoom`, `Write`, `Enter`, `Accumulate`) when nobody holds it
against it. `guards` are the read guards that threads keep; `stack` are the write
guards of the host, one per model on the path of the update, each of which lives until
the update of its model returns (`LeaveChild`, `LeaveRoot`), for it is a temporary of
the statement `self.write().update(..)`. A panic, in a callback, in a block or in the
closure of `SignalWriter::update`, releases the read guards and poisons what was
held for writing (`Unwound`); who takes a poisoned lock panics in turn (`FindsPoison`).

`Zoom` is done to the updater and the getter of a client together, as an `AppHandle`
of a child would: the updater gets a longer `path` of lenses, the getter the handle
`obj` of the child that is there at that time. A message is its path; its payload is
either `set` (a field and the signal of the model) or `swap` (put a new model in place
of a child). Interceptors and commands are the host while `phase` is `intercept` or
`commands`: they read like a client, and their guards are gone before the host goes on.

`half`, `removed`, `handled`, `applied` and the field `by` of a message are history:
models in the middle of an update or left so by a panic, models taken out of the tree,
messages handled, which models each was applied to, and what the sender's getter named.

### JoinSignals

The block builds its first tuple (`ReadNext`, `Create`), subscribes to each input in
order, spawns the task with the last subscription, and then drops the handles it was
given, the last one first (`Leave`), while the task runs. The task takes one status
of one input (`Select`), reads all inputs, each under a guard that lives to the end
of the statement (`ReadNext`, `Bind`), and sets the output (`Set`, `Mark`). Around it
the inputs are written, flushed and dropped by others; of their lists only the task's
own sender matters. What a status says is left out, for the task ignores it. The
`complete` branch of `select!` is never taken: the task's subscribers keep the senders
alive. A task that waits for a read lock behind a queue of writers is not modelled.

`moments` is history: every combination of values that the inputs had at one time.

### CommandMacro, ModelMacro

These are sequential: a run starts in every function, or every block of methods, that
the constants allow, expands it, and lets the application use the expansion once.
Types are reduced to what the macros look at (the kind of reference, the last segment
of the path, the kinds of its generics) and whether rustc takes them for a field
(`storable`), names to strings, pasted attributes to the list they were given in.

In `CommandMacro` the names of the generated `apply` are a `scope` of what each stands
for: `Enter` gives the context and the fields theirs, each `Bind` is one `let`, and what
a name means at the end is read off the scope and compared with what the function asked
for.

What rustc demands of the expansion is external (`Compiles` in either module) and
covers what the macros can get wrong: which name stands for what, duplicate variants,
types, methods and parameters, fields that cannot be stored, attributes within
attributes, conflicting borrows. What it demands of the user's code as such is given
with the method: `fits` says that a block and a type do without the generics and the
result that the macro drops, `used` that the block needs an argument as its pattern
binds it. Assumed besides: names are legal identifiers, the listed attributes may stand
where they are pasted, and a block uses all the states of its command.

The fold of a command and both passes over an impl block take one parameter or method
per step, so that invariants can speak of the part that is done. `Subsequence` is what
`SelectSeq` selects with a test, written without recursion; `MCModelMacro` compares the
two (`SubsequenceSelects`).

The documentation is stated apart from the code, as `Documented...` and in the
properties, and the runs compare the two.

## 3. Runs

| run | instance | shows |
|---|---|---|
| `signal_safety` | 2 threads with 1 operation each, 2 subscribers, symmetry | `TypeOK`, `LiveStaysRegistered`, `StatusesBounded`, `NoLostUpdate`, `DropAnnounces`, `Signal` implements `Watch` |
| `rounds` | the host's user code and 1 thread with 1 operation each, 2 messages, 1 subscriber, fairness | `RoundsPublish`, `MessagesAreSeen`, `FlushReachesAll`, `DropReachesAll`, `RoundsTypeOK` |
| `host_safety` | 2 clients with 2 messages and 1, mailbox of 1, 2 interceptors, two self-sends, panics, the drop of the host | `FifoExactlyOnce`, `InterceptorsSeeFirst`, `AnswersAreTrue`, `RoundsDontOverlap`, `MailboxBounded`, `StuckForever`, `TypeOK`, `Host` implements `SerialApp` |
| `host_liveness` | 2 clients with 2 messages each, mailbox of 0, commands that never send, fairness | `AcceptedIsHandled`, `SendsEnd` |
| `host_self_send` | 2 clients with 1 message each, a command that sends, mailbox of 1 | violates `AcceptedIsHandled` |
| `model_tree` | 2 clients and the host with 4 calls together, a root, a child and a model to replace it, fairness | `GuardShowsWholeTree`, `ReadYourWrites`, `DeadlockNeedsInversion`, `CallsEnd`, `TypeOK`, `ModelTree` implements `SerialApp` |
| `join_signals` | 2 inputs, 2 writes in all, fairness | `OutputIsASnapshot`, `NothingMissed`, `FlushReachesOutput`, `RaceIsHealed`, `TypeOK` |
| `command_macro` | functions of up to 3 of 19 parameters, contexts and names that hide one among them | `NamesMeanWhatIsAsked`, `ContextIsLast`, `OnlyForAppRuns` |
| `command_context` | functions with a context | violates `PanicsOnlyForStates` |
| `model_macro` | blocks of up to 2 of 93 methods | `ShapesAreRecognised`, `NothingElseRuns`, `CallsReachTheirBlocks`, `NoMetaIsLost` |
| `model_documented_blocks` | a field called `ctx`, an argument with an attribute | violates `DocumentedCompiles` |
| `model_getter_names` | a getter without `message` | violates `GetterMessagesAsDocumented` |

Bounds, and why they are enough. `MaxOps`: a lost update needs a write that races
the flush of another one; two operations, of two threads or of one, give every order
of write, store, swap, walk and read, and a status channel is full after two
statuses, which the drops of two handles fill. Two subscribers let one come, go or
be walked past while the other waits. `MaxSends`, two messages of one client and one or
two of the other, and a buffer of 0 or 1: senders are parked, woken in order, abandoned
while parked and parked again. `MaxSelf = 2`: a self-send that finds the mailbox empty,
one that finds it full, and one that follows another that was given up in the same
round. Two interceptors: a message seen by one and not yet by the other. The theorems
have no such bounds. `Rounds`: with two messages there is a next message that could
announce what the first one left behind; the user's code writes in either round or
writes in none, from a kept or a temporary writer, and the other thread's write or drop
falls anywhere around it. The two drops fill the status channel before the flush comes.
`ModelTree`: `MaxCalls = 4`, all threads together, lets a client zoom, another one swap
the child, the first one set and read it; it also lets a thread hold one guard while it
gets a signal, and read that, which is the shortest inversion (three calls). One child
and one model to replace it make every way in which a path and a handle differ.
`JoinSignals`: two inputs are enough for a mixture, and `MaxWrites = 2`,
`MaxMoments = 3` (two writes in all, to one input or to both) put the second write
anywhere in the turn that the first one started.
The macros look at one parameter or method at a time and keep the order; three
parameters put a context before, between and after fields, two methods make
duplicates and a choice of arms.

Deadlock is not checked by TLC: threads and clients run out of operations, subscribers
and hosts then wait for ever. `ModelTree` states its deadlocks itself
(`DeadlockNeedsInversion`): a set of threads each of which may have to wait for another
one of the set.

Fairness. In `Signal`: a call that has started goes on (`MarkDirty`, the broadcast
of each actor, including its turn at the mutex: the operations are finite, so
nobody overtakes for ever), and a subscriber in its loop receives and reads. Nobody
has to write, flush, subscribe or drop. In `Host`: the executor polls a host that
can go on and a client whose send can go on; nobody has to start a send, abandon it,
drop the host or panic. In `Rounds`: the executor polls the host, whose user code comes to its end,
and whoever has begun a call or waits for a status goes on. In `ModelTree`: a lock that
nobody may block is granted, whoever does not wait drops its guards some day, and the
host goes on; a reader that a waiting writer may hold back has no such promise. In
`JoinSignals`: the executor polls the block and the task, a write stores
its flag and a flush walks its list.

`CallsEnd` says what this leaves: a call that never returns belongs to a deadlock, or
waits behind one, and by `DeadlockNeedsInversion` the user's code made it.

What `command_context` shows: the macro makes a field of every parameter, so a context
is looked up in the world like a state and the command panics the host. Marked as a
`field`, it does not compile. `OnlyForAppRuns` says what that leaves: the context must be
left out and the application named with `for_app`; but then the block has no context
at all, and cannot send. A context that is not the last parameter is forgotten by the
fold (`ContextIsLast`), and a command can hold one `&mut` state only if it holds no other
(`BorrowsAgree`). `NamesMeanWhatIsAsked` rests on rustc: a parameter with the name of
the context hides it from the states after it, and only because what hides it has no
method `state` does the expansion fail to compile (`ContextVisible`).

What the two violated runs of `ModelMacro` show: a field called `ctx` hides the context
in the generated arm; an attribute of an argument is pasted inside the brackets of
another one; and the message of a getter `location` is `Location`, where the
documentation says `GetLocationMessage`. `model_documented_blocks` stands for the first
two: its instance holds a block of each, either one alone violates the property, and
without both it holds. The documented shorthand `message = "MyCoolMessage"` is refused as
well (`ArgumentsValid`): `MessageDef`, which implements it, is not used.

What `NothingElseRuns` leaves open: the documentation says of updaters and getters
"Generics are NOT allowed" (`attr/raw/model.rs:103,139`), and of updaters "must not
return anything". The macro refuses lifetimes only (`parser.rs:142-188`), and drops type
parameters and results: `fn reset<T>(&mut self) {}` is built and runs. And what
`NoMetaIsLost` leaves open: it is about the lists in `#[emyu(meta(...))]` of updaters and
getters. Every other attribute of a method, `#[cfg]` included, is dropped without a word
(`parser.rs:122`), and so are the lists `message`, `fns` and `inner` of `new`.

What `host_self_send` shows: `CommandContext::send_message` (`host.rs:71-73`) awaits a
send into the mailbox that only the awaiting host empties. If the mailbox is full
the command waits for ever, and with it every message behind it. `StuckForever`, proved
as `StuckStays`, says that no client can free it: only the command itself can, by giving
up, or the end of the host.

## 4. Proofs

All theorems hold for every value of the constants that satisfies
`SignalAssumption`, `RoundsAssumption`, `HostAssumption`, `ModelTreeAssumption`,
`JoinAssumption`, `CommandAssumption` and `ModelMacroAssumption`, which TLC evaluates in
the runs. `ModelTreeAssumption` says of the
tree what Rust's types and `ModelBase::new` give: a child has one parent, types nest to
a finite depth (`Level`), and what an update creates is not in the tree yet.

`MpscProofs`: `Balanced` (a sender is parked for each message beyond the buffer,
and for no other reason) is kept by every operation, so a sender that is refused
has a message in the queue whose departure wakes it.

`SignalProofs`: `Structure` = types + one broadcaster at a time + `LiveStaysRegistered`
+ `StatusesBounded` + histories that do not run ahead of the data. It is inductive;
`NoLostUpdate` is not by itself, for a walk covers a subscriber only if the list
holds it, a refused status only if the channel holds another, and a woken flush only
if nobody else empties `todo`. On top of it: `UpdatesAreNotLost`, `DropsAnnounce`,
and `SignalImplementsWatch`, step by step.

`RoundsProofs`: every step of `Rounds` is a step of `Signal` or leaves the signal alone
(`RoundsStep`), so `RSpec => Spec` (`RoundsImplementSignal`) and what is proved of a
signal holds of a host's signal. `RoundsPublish` is not inductive: `Unflushed` says that
between a write of the round and its flush the flag is set or about to be, because only
the host clears it; `Walked` says that the walk has reached, or will reach, whoever
sleeps on what the round wrote; `FutureRounds`, that a round begins without writes.
`StepReached` is the lemma behind both: no step of the signal, of whatever actor, takes
back an announcement of a value that is not newer than the data. This gives
`RoundsArePublished`.

`HostProofs`: `Inv` has seven parts, `TypeOK` among them. `Life`: the receiver exists exactly while the host
lives. `Mailbox`: one parked sender per message beyond the buffer, none twice, and each
a client, the clone of a send under way, or one through which a send was given up; this
gives `BackpressureHolds` by counting (`BoundedByHolders`, with `FS_Injection`).
`SelfSends`: no clone is parked before its round, and while the one of this round is,
the last send of a command has not returned; this gives `StuckStays`. `Order`: accepted = handled, in hand, queued; this
gives `MessagesInOrder`, `InterceptorsFirst` and the refinement. `Round`: where commands,
collected signals and set flags can be left, which gives `RoundsAreSeparate`.
`Answers`: a message that is being fed was not taken, one that is being flushed was,
nothing is refused while the host lives; this gives `AnswersHold`. `RoundsComeToAnEnd` is the
part of `AcceptedIsHandled` that needs no fairness: of a model with finitely many getters
every step of a round, commands that send included, lowers a measure (`Place`, `Left`)
that no step of a client touches. It does not say that the host takes the step, which it does not
where a command's own send waits (`StuckStays`).

`ModelTreeProofs`: `Inv` has seven parts, `TypeOK` among them. `Shape`: the tree is a tree, and what
was removed stays out. `Control`: who can wait for which lock where. `Stack`: the write
guards are the path of the message from the root, and the rest of the path leads on from
there. `Half`: what is half updated is under a write guard or poisoned, and so is all
that it is in; the models that are not half updated are therefore closed under children,
which gives `GuardsShowWholeTrees`. `Handles`: the lenses of a thread, or of a message,
lead to the model its getter names, or that model is below one that was removed
(`Agrees`); a swap keeps this, because a path either does not pass the field or its end
goes with the child (`SwapLeads`). With `Stack` and `Handled` it gives
`ClientsReadTheirWrites`. For `DeadlocksNeedInversions`, take the thread of the deadlock
that waits for the largest lock, in the order models by depth, then data
(`LargestOf`): whom it waits for holds that lock, or waits for it behind one, and waits
itself for one that is not larger. Where the books would use induction
over paths, the proofs take a least number with a property (`LeastNumber`), since the
induction theorems need an operator as a parameter. `TreeImplementsSerialApp` maps each
step to a step of `SerialApp` or a stutter.

`JoinSignalsProofs`: `Inv` adds to the types that the tuple read so far equals the
inputs, because the guards hold (`TupleIsTrue`), so a complete tuple is a snapshot; that
the channels are balanced; that histories do not run ahead of the data; and
`UpdatesAreCovered`, that whatever the output lacks is announced, is to be flushed, or
belongs to an input whose handle the block has not dropped yet. It
also speaks where `NothingMissed` is silent: until the task is spawned the block holds
every handle, and a tuple that is bound but not yet set is judged like the output. This
gives `OutputsAreSnapshots` and `NothingIsMissed`.

`CommandMacroProofs`: functions with any parameters, any world. What a name means when
the block runs is the work of many steps, so `Inv` speaks of the scope at every `let`:
what is bound has its meaning, a field that is not has it already, and a state that is
not finds the context under its name (`BindingsAreTrue`), for else the expansion had not
compiled. This gives `NamesAreRight`. `ExpandedContextsAreLast` needs that the last
parameter alone decides whether the fold has a context (`FoldIsTrue`). `ContextsNeverRun`
has two hypotheses: no context is storable, which is so because it leaves out a lifetime,
and the world holds no state called `CommandContext`; without the second it is false.

`ModelMacroProofs`: blocks of any length. `Inv` says that at every step of the second
pass the lists are the subsequences of their kind of what it is through with
(`PassesAreTrue`), what let an expansion through (`ExpansionIsTrue`), and which updater a
message was made by (`CallIsTrue`). Most of the module is about `Subsequence`: it
numbers its positions without gaps (`RankFacts`), it lists each of them once
(`PositionsOf`), and a position beyond all of them appends one element
(`SubsequenceGrows`), which is what the loop of the second pass does. This gives
`DocumentedShapesAreTaken`, `MetaIsKept`, `OnlyDocumentedShapesRun` and
`CallsArrive`. `CallsArrive` assumes that the arguments of a method have different names
(`ArgumentsAreNamed`): the attribute gets its methods before rustc has looked at them,
and an argument with the name of a context takes that context's place.
`DocumentedBlocksCompile` complements the run `model_documented_blocks`: what that run
finds violated holds if no field is called `ctx` or `_` or has attributes, and no updater
or getter is called `new` (`MethodsAreFree`). What Rust asks of the user's methods is in
the property itself (`Sound`): blocks that type check, fields that can be stored,
arguments of different names, and messages of getters that are new types.

Only model-checked: the liveness properties (`FlushReachesAll`, `DropReachesAll`,
`MessagesAreSeen`, `AcceptedIsHandled`, `SendsEnd`, `CallsEnd`, `FlushReachesOutput`,
`RaceIsHealed`), because fairness and ENABLED are out of the prover's reach. Not provable
is also `SubsequenceSelects`, for `SelectSeq` is recursive. Every invariant and every
refinement that a passing run checks is proved.

## 5. Not modelled

- Locks: the `spin` and `RefCell` builds. `RefCell` panics where std waits and poisons
  nothing; `ModelTree` models the std build only.
- `ModelBase::write` called by user code on a child that it found under a guard, and
  blocks that lock or read anything besides the child they pass a message on to and the
  signal they set. Either makes the user's code part of the locking order, which the
  library says nothing about.
- Poisoned signal data outside `ModelTree`: in `Signal` and `Rounds` user code panics
  between two calls and not inside the closure of `SignalWriter::update`.
- A signal that an update takes out of its model and replaces: its subscribers follow the
  old one, which is a signal of its own.
- `join_signals!` behind waiting writers: the task reads at once in `JoinSignals`; that
  two joins can wait for each other is an inversion in the sense of `ModelTree`.
- A client that keeps a guard of a model while it waits for room in the mailbox: `Send` of
  `ModelTree` never waits, and `Host` has no guards. That wait for the host, which waits
  for the guard, is therefore outside `DeadlockNeedsInversion` and `CallsEnd`.
- A command that neither returns nor sends: `AcceptedIsHandled` assumes that it returns.
- `#[emyu::model]`: attributes for flutter_rust_bridge (an explicit `new` gets `frb(sync)`
  twice, `attr.rs:224-237` and `parser.rs:395-397`), visibilities, names of the generated
  structs. They change text, and no state.
- `wrap_app_handle_for_frb!`, which is written against an API that is gone; the spawners,
  which only call their runtimes; `CommandFn` and `Option<Command>`, which forward
  `apply`; re-exports and token helpers.
