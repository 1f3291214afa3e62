---------------------------- MODULE CommandMacro ----------------------------
(***************************************************************************)
(* #[emyu::command] of macros/src/command.rs, and what the command that it *)
(* generates does when the host applies it.                                *)
(*                                                                         *)
(* The macro folds the parameters of a function into fields and, from the  *)
(* parameter that is a &mut CommandContext<App>, into the name of the      *)
(* context.  The generated `apply' names its context so, takes the fields  *)
(* of the command apart into variables, and then binds the parameters, one *)
(* `let' after the other: a `field' to the variable of its name, any other *)
(* to the state of its type, which it asks the context for and the world   *)
(* must hold.  All these names share one scope, and a later one hides an   *)
(* earlier one.                                                            *)
(*                                                                         *)
(* A function is a record: qualifiers of its header, parameters, and       *)
(* whether the attribute says `for_app'.  A type is the last segment of    *)
(* its path with the kinds of its generic arguments.  Attributes, the name *)
(* of the struct and visibility are left out, and so is what else rustc    *)
(* demands of a block (its types, Send, lifetimes).                        *)
(***************************************************************************)
EXTENDS Naturals, Sequences, FiniteSets, SequencesExt

CONSTANTS
  Params,     \* parameters a function may have, see Param
  MaxParams,  \* bound: parameters of one function
  World       \* types of the states that the host's world holds

\* Headers a function may have, `async' and none being the legal ones.
Headers == {"none", "async", "const", "unsafe", "extern", "variadic"}

\* typed: not a receiver.  simple: the pattern is an identifier.  attr: what
\* #[emyu(...)] says of it.  storable: rustc takes the type for a field of the
\* command; of a type that leaves out a lifetime, like CommandContext<App>, it does
\* not.
Param ==
  [name : STRING, typed : BOOLEAN, simple : BOOLEAN, ref : BOOLEAN,
   mut : BOOLEAN,
   ty : [last : STRING, generics : Seq({"type", "lifetime"}),
         storable : BOOLEAN],
   attr : SUBSET {"field", "state"}]

ASSUME CommandAssumption == MaxParams \in Nat /\ Params \subseteq Param

Commands ==
  [header : Headers, forApp : BOOLEAN,
   params : {ps \in SeqOf(Params, MaxParams) :
               \A i, j \in DOMAIN ps : i # j => ps[i].name # ps[j].name}]

Names == {p.name : p \in Params} \cup {"_ctx"}

\* What a name can stand for in `apply'.
Nothing == <<"nothing">>
Context == <<"context">>
Meanings ==
  {Nothing, Context} \cup ({"command", "world", "hidden"} \X STRING)

VARIABLES
  fn,      \* the function the attribute is on
  folded,  \* how many of its parameters are folded
  ctx,     \* the context found so far: a set of at most one name
  stage,   \* where the expansion or the generated `apply' is
  scope,   \* what each name stands for in `apply'
  bound    \* how many of the parameters `apply' has bound

vars == <<fn, folded, ctx, stage, scope, bound>>
expansion == <<fn, folded, ctx>>
applied == <<scope, bound>>

Stages ==
  {"fold", "rejected", "expanded", "broken", "compiled", "applying", "done",
   "panicked"}

Init ==
  /\ fn \in Commands
  /\ folded = 0
  /\ ctx = {}
  /\ stage = "fold"
  /\ scope = [n \in Names |-> Nothing]
  /\ bound = 0

Validated == fn.header \in {"none", "async"}

IsApplyContext(p) ==
  p.mut /\ p.ty.last = "CommandContext" /\ p.ty.generics = <<"type">>

\* Mutant of IsField: the default is `field'.
FieldByDefault(p) == "state" \notin p.attr

\* Of a parameter that says both, `field' wins.
IsField(p) == "field" \in p.attr

\* ParsedField::new accepts the parameter.
Parses(p) == p.typed /\ p.ref /\ p.simple

\* Mutant of Fold: a context found by an earlier turn is kept.
FoldKeepsContext ==
  /\ stage = "fold"
  /\ Validated
  /\ folded < Len(fn.params)
  /\ LET p == fn.params[folded + 1] IN
       /\ Parses(p)
       /\ ctx' = IF IsApplyContext(p) THEN {p.name} ELSE ctx
  /\ folded' = folded + 1
  /\ UNCHANGED <<fn, stage, applied>>

\* One turn of the fold.  A context becomes a field like every parameter, and the
\* context found by an earlier turn is forgotten.
Fold ==
  /\ stage = "fold"
  /\ Validated
  /\ folded < Len(fn.params)
  /\ LET p == fn.params[folded + 1] IN
       /\ Parses(p)
       /\ ctx' = IF IsApplyContext(p) THEN {p.name} ELSE {}
  /\ folded' = folded + 1
  /\ UNCHANGED <<fn, stage, applied>>

FoldFails ==
  /\ stage = "fold"
  /\ \/ ~Validated
     \/ folded < Len(fn.params) /\ ~Parses(fn.params[folded + 1])
     \/ folded = Len(fn.params) /\ ctx = {} /\ ~fn.forApp
  /\ stage' = "rejected"
  /\ UNCHANGED <<expansion, applied>>

Expand ==
  /\ stage = "fold"
  /\ Validated
  /\ folded = Len(fn.params)
  /\ ctx # {} \/ fn.forApp
  /\ stage' = "expanded"
  /\ UNCHANGED <<expansion, applied>>

\* How the generated `apply' calls its context.
ContextName == IF ctx = {} THEN "_ctx" ELSE CHOOSE n \in ctx : TRUE

FieldNames == {fn.params[i].name : i \in {j \in DOMAIN fn.params : IsField(fn.params[j])}}

-----------------------------------------------------------------------------
(* What rustc makes of the expansion. *)

\* The states that a block uses, all of them borrowed from the one context, do not
\* conflict.
BorrowsAgree ==
  LET states == {i \in DOMAIN fn.params : ~IsField(fn.params[i])} IN
    Cardinality(states) > 1 => \A i \in states : ~fn.params[i].mut

\* No `let' asks anything but the context for a state: neither a field nor a
\* parameter bound before hides it.  What hides it has no method `state'.
ContextVisible ==
  \A i \in DOMAIN fn.params :
    ~IsField(fn.params[i]) =>
      /\ ContextName \notin FieldNames
      /\ \A j \in 1 .. i - 1 : fn.params[j].name # ContextName

Compiles ==
  /\ BorrowsAgree
  /\ ContextVisible
  /\ \A i \in DOMAIN fn.params : IsField(fn.params[i]) => fn.params[i].ty.storable

Compile ==
  /\ stage = "expanded"
  /\ stage' = IF Compiles THEN "compiled" ELSE "broken"
  /\ UNCHANGED <<expansion, applied>>

-----------------------------------------------------------------------------
(* `apply' of the generated command. *)

\* The host calls it: the context has its name, and `let Self { .. } = self' gives
\* every field its own.
Enter ==
  /\ stage = "compiled"
  /\ stage' = "applying"
  /\ scope' = [n \in Names |-> IF n \in FieldNames THEN <<"command", n>>
                               ELSE IF n = ContextName THEN Context
                               ELSE Nothing]
  /\ UNCHANGED <<expansion, bound>>

\* What the right side of a parameter's `let' stands for.
Value(p) ==
  IF IsField(p) THEN scope[p.name]
  ELSE IF scope[ContextName] = Context THEN <<"world", p.ty.last>>
  ELSE <<"hidden", p.ty.last>>

\* Mutant of Available: a state that is missing is looked up all the same.
AlwaysAvailable(p) == TRUE

Available(p) == IsField(p) \/ p.ty.last \in World

\* One `let': a parameter is bound.
Bind ==
  /\ stage = "applying"
  /\ bound < Len(fn.params)
  /\ LET p == fn.params[bound + 1] IN
       /\ Available(p)
       /\ scope' = [scope EXCEPT ![p.name] = Value(p)]
  /\ bound' = bound + 1
  /\ UNCHANGED <<expansion, stage>>

\* The world lacks the state.
BindPanics ==
  /\ stage = "applying"
  /\ bound < Len(fn.params)
  /\ ~Available(fn.params[bound + 1])
  /\ stage' = "panicked"
  /\ UNCHANGED <<expansion, applied>>

\* The block runs.
Run ==
  /\ stage = "applying"
  /\ bound = Len(fn.params)
  /\ stage' = "done"
  /\ UNCHANGED <<expansion, applied>>

Next == Fold \/ FoldFails \/ Expand \/ Compile \/ Enter \/ Bind \/ BindPanics \/ Run

Spec == Init /\ [][Next]_vars

-----------------------------------------------------------------------------
(***************************************************************************)
(* Properties, in terms of the documentation of the attribute.             *)
(***************************************************************************)

\* "The field shall be retrieved as state from the CommandContext. This is the
\* default if neither `field` nor `state` is specified"; the context itself is no
\* state.
DocumentedState(p) == "field" \notin p.attr /\ ~IsApplyContext(p)

\* Names mean in a block what its function asks for, though the context, the fields
\* and the parameters bound before share their scope: a field the value that the
\* command was made with, a state the one that the world holds.  Of a parameter
\* that is asked for as both nothing is said.
NamesMeanWhatIsAsked ==
  stage = "done" =>
    \A i \in DOMAIN fn.params :
      LET p == fn.params[i] IN
        /\ p.attr = {"field"} => scope[p.name] = <<"command", p.name>>
        /\ DocumentedState(p) => scope[p.name] = <<"world", p.ty.last>>

\* The fold forgets a context that is not the last parameter: only `for_app' lets
\* such a function through.
ContextIsLast ==
  stage \notin {"fold", "rejected"} =>
    \/ fn.forApp
    \/ /\ fn.params # <<>>
       /\ IsApplyContext(fn.params[Len(fn.params)])

\* The context is also looked up in the world like a state, and a context cannot be
\* a field: so the block of a function whose attribute does not say `for_app' never
\* runs, unless the world holds a state of the context's type.
OnlyForAppRuns == stage = "done" => fn.forApp

\* A command panics only if the world lacks a state that its function asks for; the
\* context is no state, it is what `apply' is called with.
PanicsOnlyForStates ==
  stage = "panicked" =>
    \E i \in DOMAIN fn.params :
      DocumentedState(fn.params[i]) /\ fn.params[i].ty.last \notin World
=============================================================================
