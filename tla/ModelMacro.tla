----------------------------- MODULE ModelMacro -----------------------------
(***************************************************************************)
(* #[emyu::model] of macros/src/model: an impl block is parsed in two      *)
(* passes, the first classifies each method by its shape, the second sorts *)
(* them; the expansion has a message enum and its dispatch, a struct of    *)
(* updaters and one of getters.  Then the application calls updaters.      *)
(*                                                                         *)
(* A method is a record of what the passes look at.  A type is the kind of *)
(* its reference, the last segment of its path and the kinds of that       *)
(* segment's generic arguments.  Attributes that are pasted somewhere      *)
(* (`meta') are the set of the lists they were given in.  Names are legal  *)
(* identifiers, and the attribute's lists hold attributes that may stand   *)
(* where they are pasted.  Visibilities, spans, names chosen for the       *)
(* generated items and the attributes for flutter_rust_bridge are left     *)
(* out.                                                                    *)
(***************************************************************************)
EXTENDS Naturals, Sequences, FiniteSets, SequencesExt, Functions

CONSTANTS
  Methods,     \* methods an impl block may hold
  MaxMethods,  \* bound: methods of one block
  Arguments,   \* arguments the attribute may have
  Values,      \* values an updater may be called with
  Signals,     \* fields of the model that are signals
  Scope,       \* types of the module of the block, with the three generated ones
  Pascal       \* names in PascalCase, as convert_case has them

\* storable: rustc takes it for a field of the message, so it elides no lifetime,
\* is no `impl' and names no parameter of the method.
Type ==
  [ref : {"none", "shared", "mut"}, last : STRING,
   generics : Seq({"type", "lifetime"}), storable : BOOLEAN]

\* pattern: plain, mutable or no identifier at all.  used: the block needs it as
\* the pattern binds it.  attrs: its attributes.
Arg ==
  [name : STRING, pattern : {"plain", "mut", "other"}, type : Type,
   used : BOOLEAN, attrs : SUBSET STRING]

Metas == {"base", "updater", "getter", "message", "fns", "inner"}

\* header: qualifiers and kinds of generic parameters.  body: a block and not a
\* semicolon.  fits: rustc takes the block and the signal's type also without the
\* method's own generics and result.  names: what #[emyu(name(...))] renames, given
\* or not.  attrs: attributes other than #[emyu]; nothing looks at them.
Method ==
  {m \in [name : STRING,
          header : SUBSET {"const", "async", "unsafe", "extern", "variadic",
                           "lifetime", "generic"},
          receiver : {"none", "value", "typed", "shared", "mut"},
          args : Seq(Arg), ret : {"nothing", "signal", "other"}, body : BOOLEAN,
          fits : BOOLEAN, named : BOOLEAN, names : SUBSET {"updater", "getter"},
          message : STRING, meta : SUBSET Metas, attrs : SUBSET STRING] :
     m.named \/ m.names = {}}

\* message: absent, a list or a string.  meta: of the dispatcher.
Argument ==
  [message : {"absent", "list", "string"}, dispatcher : BOOLEAN,
   meta : SUBSET Metas]

ASSUME ModelMacroAssumption ==
  /\ MaxMethods \in Nat
  /\ Methods \subseteq Method
  /\ Arguments \subseteq Argument

VARIABLES
  args,      \* arguments of the attribute
  block,     \* methods of the impl block, in order
  first,     \* number of methods the first pass is through with
  second,    \* number of methods the second pass is through with
  newFn,     \* the `new' the second pass found, at most one
  updaters,  \* what the second pass sorted, in order
  getters,
  stage,     \* where the expansion is, or the application that holds it
  call,      \* the updater called and the values it was called with
  bound      \* the method whose block runs, and what its names are bound to

vars ==
  <<args, block, first, second, newFn, updaters, getters, stage, call, bound>>

Nothing == <<>>

Init ==
  /\ args \in Arguments
  /\ block \in SeqOf(Methods, MaxMethods)
  /\ first = 0
  /\ second = 0
  /\ newFn = {}
  /\ updaters = <<>>
  /\ getters = <<>>
  /\ stage = "parsing"
  /\ call = Nothing
  /\ bound = Nothing

-----------------------------------------------------------------------------
(***************************************************************************)
(* First pass: one method.                                                 *)
(***************************************************************************)

IsUpdateContext(type) ==
  /\ type.ref = "mut"
  /\ type.last = "UpdateContext"
  /\ type.generics \in {<<"type">>, <<"lifetime", "type">>}

\* FnKind::validate; type parameters pass.
HeaderValid(m) == m.header \subseteq {"generic"}

\* Mutant of SelfTy: a method without a receiver is taken for a shared one.
SelfTyDefaultsToShared(m) == IF m.receiver = "mut" THEN "mutable" ELSE "shared"

\* Only `&self' and `&mut self' count: not `self', nor `self: &mut Self'.
SelfTy(m) ==
  CASE m.receiver = "mut" -> "mutable"
    [] m.receiver = "shared" -> "shared"
    [] OTHER -> "none"

\* Mutant of Kind: a getter may have a body.
KindWithBody(m) ==
  CASE /\ m.name = "new" /\ SelfTy(m) = "none"
       /\ m.ret # "signal" /\ m.args = <<>> /\ ~m.body -> "new"
    [] SelfTy(m) = "mutable" /\ m.ret # "signal" /\ m.body -> "updater"
    [] SelfTy(m) = "shared" /\ m.ret = "signal" /\ m.args = <<>> -> "getter"
    [] OTHER -> "none"

Kind(m) ==
  CASE /\ m.name = "new" /\ SelfTy(m) = "none"
       /\ m.ret # "signal" /\ m.args = <<>> /\ ~m.body -> "new"
    [] SelfTy(m) = "mutable" /\ m.ret # "signal" /\ m.body -> "updater"
    [] /\ SelfTy(m) = "shared" /\ m.ret = "signal"
       /\ m.args = <<>> /\ ~m.body -> "getter"
    [] OTHER -> "none"

\* Mutant of AttributesValid: `inner' passes.
InnerPasses(m) ==
  CASE Kind(m) = "new" -> ~m.named
    [] Kind(m) = "updater" -> m.names = {} /\ "getter" \notin m.meta
    [] Kind(m) = "getter" -> m.names = {} /\ "updater" \notin m.meta

\* The attributes that have no place on a method of this kind are refused.
AttributesValid(m) ==
  CASE Kind(m) = "new" -> ~m.named
    [] Kind(m) = "updater" -> m.names = {} /\ m.meta \cap {"inner", "getter"} = {}
    [] Kind(m) = "getter" -> m.names = {} /\ m.meta \cap {"inner", "updater"} = {}

Parses(m) ==
  /\ HeaderValid(m)
  /\ Kind(m) # "none"
  /\ AttributesValid(m)
  /\ \A i \in DOMAIN m.args : m.args[i].pattern # "other"

\* Of a sequence the elements at the positions I, in order.  What SelectSeq selects
\* with a test, without its recursion.
Subsequence(s, I) ==
  LET rank(i) == Cardinality({j \in I : j <= i}) IN
    [k \in 1 .. Cardinality(I) |-> s[CHOOSE i \in I : rank(i) = k]]

Names(fns) == [i \in DOMAIN fns |-> fns[i].name]

Contexts(m) == {i \in DOMAIN m.args : IsUpdateContext(m.args[i].type)}

\* The arguments that become fields of the message, and their names.
FieldArgs(m) == {m.args[i] : i \in DOMAIN m.args \ Contexts(m)}

Fields(m) == Subsequence(Names(m.args), DOMAIN m.args \ Contexts(m))

\* The name the block has for the context; of several the last one counts.
ContextName(m) ==
  IF Contexts(m) = {} THEN "_" ELSE m.args[Max(Contexts(m))].name

\* What the private method that holds the block takes.
Formals(m) == Fields(m) \o <<ContextName(m)>>

MessageName(m) == IF m.message # "" THEN m.message ELSE Pascal[m.name]

FirstPass ==
  /\ stage = "parsing"
  /\ first < Len(block)
  /\ Parses(block[first + 1])
  /\ first' = first + 1
  /\ UNCHANGED <<args, block, second, newFn, updaters, getters, stage, call, bound>>

\* collect: the first error is the error of the block.
FirstPassFails ==
  /\ stage = "parsing"
  /\ first < Len(block)
  /\ ~Parses(block[first + 1])
  /\ stage' = "rejected"
  /\ UNCHANGED <<args, block, first, second, newFn, updaters, getters, call, bound>>

-----------------------------------------------------------------------------
(***************************************************************************)
(* Second pass, and what follows it.                                       *)
(***************************************************************************)
\* One method is sorted; of several `new' the last one stays.
SecondPass ==
  /\ stage = "parsing"
  /\ first = Len(block) /\ second < Len(block)
  /\ LET m == block[second + 1] IN
       /\ newFn' = IF Kind(m) = "new" THEN {m} ELSE newFn
       /\ updaters' = IF Kind(m) = "updater" THEN Append(updaters, m) ELSE updaters
       /\ getters' = IF Kind(m) = "getter" THEN Append(getters, m) ELSE getters
  /\ second' = second + 1
  /\ UNCHANGED <<args, block, first, stage, call, bound>>

\* The attribute's own arguments: `message' must be a list, `dispatcher' is
\* required, and there is no message and no function it could decorate.
ArgumentsValid ==
  /\ args.message # "string"
  /\ args.dispatcher
  /\ args.meta \cap {"message", "fns"} = {}

\* Distinct names in a sequence of them.
Distinct(names) == IsInjective(names)

Messages(methods) == [i \in DOMAIN methods |-> MessageName(methods[i])]

\* What is pasted on the field of an argument: each of its attributes, with its
\* brackets, between the brackets of another.
FieldAttributes(a) == {<<"#[", attr, "]">> : attr \in a.attrs}

\* What rustc asks of the expansion: variants, types and methods of distinct names,
\* getters of signals that the model has, and of an updater distinct formals, fields
\* that can be stored, of which none hides the `ctx' that `update' passes on, with
\* no attribute, as one in another is none, and that its block finds what it uses.
Compiles ==
  /\ \A m \in ToSet(updaters) \cup ToSet(getters) : m.fits
  /\ Distinct(Messages(updaters)) /\ Distinct(<<"new">> \o Names(updaters))
  /\ Distinct(Messages(getters)) /\ Distinct(<<"new">> \o Names(getters))
  /\ \A m \in ToSet(getters) : m.name \in Signals /\ MessageName(m) \notin Scope
  /\ \A m \in ToSet(updaters) :
       /\ Distinct(Formals(m))
       /\ "ctx" \notin ToSet(Fields(m))
       /\ \A a \in FieldArgs(m) : a.type.storable /\ FieldAttributes(a) = {}
       /\ \A a \in ToSet(m.args) :
            a.used => a.pattern = "plain" /\ a.name \in ToSet(Formals(m))

Expand ==
  /\ stage = "parsing"
  /\ first = Len(block) /\ second = Len(block)
  /\ stage' = IF ~ArgumentsValid THEN "rejected"
              ELSE IF Compiles THEN "running" ELSE "broken"
  /\ UNCHANGED <<args, block, first, second, newFn, updaters, getters, call, bound>>

-----------------------------------------------------------------------------
(***************************************************************************)
(* The expansion at work.                                                  *)
(***************************************************************************)

\* The wrapped updater's method makes a message of its arguments, by name.
Send(i, values) ==
  /\ stage = "running"
  /\ i \in DOMAIN updaters
  /\ values \in [ToSet(Fields(updaters[i])) -> Values]
  /\ call' = [variant |-> MessageName(updaters[i]), fields |-> values,
              method |-> updaters[i].name]
  /\ stage' = "sent"
  /\ UNCHANGED <<args, block, first, second, newFn, updaters, getters, bound>>

\* Where the `meta' of a method is pasted: on its message and on its function.
MessageMeta(m) == m.meta \cap {"base", "message"}

FnMeta(m) == m.meta \cap {"base", "fns", Kind(m)}

\* Mutant of Actuals: the fields are passed in the opposite order.
ActualsReversed(m, arm) ==
  [i \in DOMAIN Fields(m) |-> arm[Reverse(Fields(m))[i]]] \o <<"context">>

\* What an arm of `update' passes on: the fields in order, then the context.
Actuals(m, arm) ==
  [i \in DOMAIN Fields(m) |-> arm[Fields(m)[i]]] \o <<"context">>

\* `update' runs the arm of the message's variant.
Dispatch ==
  /\ stage = "sent"
  /\ \E i \in DOMAIN updaters :
       /\ MessageName(updaters[i]) = call.variant
       /\ bound' = [method |-> updaters[i].name,
                    names |-> Formals(updaters[i]),
                    values |-> Actuals(updaters[i], call.fields)]
  /\ stage' = "handled"
  /\ UNCHANGED <<args, block, first, second, newFn, updaters, getters, call>>

Next ==
  \/ FirstPass \/ FirstPassFails
  \/ SecondPass
  \/ Expand
  \/ \E i \in 1 .. MaxMethods :
       \E values \in UNION {[ToSet(Fields(m)) -> Values] : m \in Methods} :
         Send(i, values)
  \/ Dispatch

Spec == Init /\ [][Next]_vars

-----------------------------------------------------------------------------
(***************************************************************************)
(* Properties, in terms of the documentation in attr/raw/model.rs.         *)
(***************************************************************************)

\* "pub fn new();"
DocumentedNew(m) ==
  /\ m.name = "new" /\ m.receiver = "none" /\ m.args = <<>>
  /\ m.ret = "nothing" /\ ~m.body
  /\ ~m.named /\ m.meta \subseteq {"base", "updater", "getter"}

\* "$vis fn $fn_name(&mut self, field: i32, [, ctx: &mut UpdateContext<App>,])
\* { /* ... */ }": no other argument after the context, nothing returned.
DocumentedUpdater(m) ==
  /\ m.receiver = "mut" /\ m.ret = "nothing" /\ m.body
  /\ \A i \in DOMAIN m.args :
       /\ m.args[i].pattern = "plain"
       /\ IsUpdateContext(m.args[i].type) => i = Len(m.args)
  /\ ~m.named /\ m.meta \subseteq {"base", "message", "updater", "fns"}

\* "$vis fn $field_name(&self) -> Signal<ReturnType>;", of which "the function name
\* MUST correspond to a field on the model".
DocumentedGetter(m) ==
  /\ m.receiver = "shared" /\ m.args = <<>> /\ m.ret = "signal" /\ ~m.body
  /\ m.name \in Signals
  /\ ~m.named /\ m.meta \subseteq {"base", "message", "getter", "fns"}

\* "The header can only be the visibility followed by `fn`", "Generics are NOT
\* allowed".
Documented(m) ==
  /\ m.header = {}
  /\ DocumentedNew(m) \/ DocumentedUpdater(m) \/ DocumentedGetter(m)

Parsed == second = Len(block)

\* Every method of a documented shape is taken, and for what the documentation
\* calls it; the lists keep the order of the block.
ShapesAreRecognised ==
  /\ stage = "parsing" /\ first < Len(block) /\ Documented(block[first + 1])
       => Parses(block[first + 1])
  /\ Parsed /\ (\A m \in ToSet(block) : Documented(m)) =>
       /\ updaters =
            Subsequence(block, {i \in DOMAIN block : DocumentedUpdater(block[i])})
       /\ getters =
            Subsequence(block, {i \in DOMAIN block : DocumentedGetter(block[i])})

\* What the macro lets through beyond the documented shapes, rustc catches in the
\* expansion, but for two rules: an application that is built has only updaters and
\* getters with the documented receiver, arguments and body, yet "generics are NOT
\* allowed" and "must not return anything" are not enforced where the block does
\* without: the expansion drops generics and result.
NothingElseRuns ==
  stage \in {"running", "sent", "handled"} =>
    /\ \A m \in ToSet(updaters) :
         /\ m.receiver = "mut" /\ m.body /\ m.header \subseteq {"generic"}
         /\ \A a \in FieldArgs(m) : a.attrs = {} /\ a.type.storable
    /\ \A m \in ToSet(getters) :
         /\ m.receiver = "shared" /\ m.args = <<>> /\ m.header \subseteq {"generic"}
         /\ m.ret = "signal" /\ ~m.body /\ m.name \in Signals

\* A call of an updater runs the block of the method of that name, with every
\* argument that the block uses bound to the value it was called with and the
\* context, wherever it stands among the arguments, to the context.
CallsReachTheirBlocks ==
  stage = "handled" =>
    /\ bound.method = call.method
    /\ \A m \in ToSet(block) : m.name = call.method /\ m.receiver = "mut" =>
         \A a \in ToSet(m.args) : a.used =>
           \E k \in DOMAIN bound.names :
             /\ bound.names[k] = a.name
             /\ bound.values[k] = IF IsUpdateContext(a.type) THEN "context"
                                  ELSE call.fields[a.name]

\* No list of attributes in the #[emyu(meta(...))] of an updater or a getter is
\* dropped: it is pasted somewhere or refused.  That is not so of other attributes
\* of a method, which are dropped whatever they are, nor of the lists of `new' for
\* messages, functions and inner types.
NoMetaIsLost ==
  Parsed => \A m \in ToSet(updaters) \cup ToSet(getters) :
              m.meta \subseteq MessageMeta(m) \cup FnMeta(m)

\* What Rust asks of a method, whatever becomes of it, and of the fields that the
\* documentation says its arguments become, and of the name of a new type.
Sound(m) ==
  /\ m.fits
  /\ Distinct(Names(m.args))
  /\ \A a \in FieldArgs(m) : a.type.storable
  /\ DocumentedGetter(m) => MessageName(m) \notin Scope

\* A block of documented methods with distinct names expands to code that compiles.
DocumentedCompiles ==
  /\ \A m \in ToSet(block) : Documented(m) /\ Sound(m)
  /\ Distinct(Names(block)) /\ Distinct(Messages(block))
  => stage # "broken"

\* "If not passed, the message name will be the function name converted to
\* PascalCase with "Get" and "Message" as its prefix and suffix respectively."
GetterMessagesAsDocumented ==
  Parsed => \A m \in ToSet(getters) :
    m.message = "" => MessageName(m) = "Get" \o Pascal[m.name] \o "Message"
=============================================================================
