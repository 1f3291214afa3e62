------------------------- MODULE CommandMacroProofs -------------------------
(***************************************************************************)
(* Theorems about module CommandMacro, for any set of parameters, any      *)
(* number of them and any world.                                           *)
(*                                                                         *)
(* What a block runs with is not visible in the state in which it runs     *)
(* alone: the invariant says of the `let's done so far what their names    *)
(* stand for, and of those still to do that what they take it from is in   *)
(* scope; and of the context that it is the one of the fold's last turn.   *)
(***************************************************************************)
EXTENDS CommandMacro, TLAPS

TypeOK ==
  /\ fn \in Commands
  /\ folded \in 0 .. Len(fn.params)
  /\ ctx \in SUBSET {p.name : p \in Params}
  /\ stage \in Stages
  /\ scope \in [Names -> Meanings]
  /\ bound \in 0 .. Len(fn.params)

\* The parameters folded so far were accepted, and only the last of them decides
\* whether there is a context.
FoldIsTrue ==
  /\ \A i \in 1 .. folded : Parses(fn.params[i])
  /\ folded = 0 => ctx = {}
  /\ folded > 0 => ctx = IF IsApplyContext(fn.params[folded])
                         THEN {fn.params[folded].name} ELSE {}

\* What let an expansion through.
ExpandedIsWhole ==
  stage \notin {"fold", "rejected"} =>
    /\ folded = Len(fn.params)
    /\ ctx # {} \/ fn.forApp

\* What a parameter's name stands for once its `let' is done.
Bound(p) ==
  IF IsField(p) THEN <<"command", p.name>> ELSE <<"world", p.ty.last>>

\* What the `let's have done and what they still need.
BindingsAreTrue ==
  /\ stage \notin {"applying", "done", "panicked"} => bound = 0
  /\ stage \in {"compiled", "applying", "done", "panicked"} => Compiles
  /\ stage \in {"applying", "done", "panicked"} =>
       /\ \A i \in 1 .. bound :
            /\ scope[fn.params[i].name] = Bound(fn.params[i])
            /\ Available(fn.params[i])
       /\ \A i \in bound + 1 .. Len(fn.params) :
            IF IsField(fn.params[i])
            THEN scope[fn.params[i].name] = Bound(fn.params[i])
            ELSE scope[ContextName] = Context
  /\ stage = "done" => bound = Len(fn.params)

Inv == TypeOK /\ FoldIsTrue /\ ExpandedIsWhole /\ BindingsAreTrue

\* The parameters of a function are a sequence of parameters with different names.
LEMMA ParamsAreASequence ==
  ASSUME NEW c \in Commands
  PROVE  /\ c.params \in Seq(Params)
         /\ DOMAIN c.params = 1 .. Len(c.params)
         /\ Len(c.params) \in Nat
         /\ \A i, j \in 1 .. Len(c.params) :
              i # j => c.params[i].name # c.params[j].name
<1>1. /\ c.params \in SeqOf(Params, MaxParams)
      /\ \A i, j \in DOMAIN c.params : i # j => c.params[i].name # c.params[j].name
  BY DEF Commands
<1>2. PICK m \in 0 .. MaxParams : c.params \in [1 .. m -> Params]
  BY <1>1 DEF SeqOf
<1>3. m \in Nat
  BY CommandAssumption
<1>4. c.params \in Seq(Params)
  BY <1>2, <1>3
<1> QED BY <1>1, <1>4

\* The context's name is one of the names.
LEMMA ContextHasAName == ASSUME TypeOK PROVE ContextName \in Names
<1>1. CASE ctx = {}
  BY <1>1 DEF ContextName, Names
<1>2. CASE ctx # {}
  BY <1>2 DEF ContextName, Names, TypeOK
<1> QED BY <1>1, <1>2

\* Whether an expansion compiles depends on nothing that `apply' changes.
LEMMA ExpansionStays ==
  ASSUME fn' = fn, ctx' = ctx
  PROVE  Compiles' = Compiles /\ ContextName' = ContextName
<1>1. ContextName' = ContextName /\ FieldNames' = FieldNames
  BY DEF ContextName, FieldNames
<1>2. ContextVisible' = ContextVisible /\ BorrowsAgree' = BorrowsAgree
  BY <1>1 DEF ContextVisible, BorrowsAgree
<1> QED BY <1>1, <1>2 DEF Compiles

-----------------------------------------------------------------------------
\* A function that is not folded yet satisfies Inv.
LEMMA InitInv == Init => Inv
<1> SUFFICES ASSUME Init PROVE Inv
  OBVIOUS
<1> USE DEF Init
<1>1. Len(fn.params) \in Nat /\ folded \in 0 .. Len(fn.params)
  BY ParamsAreASequence
<1>2. TypeOK
  BY <1>1 DEF TypeOK, Stages, Meanings
<1>3. FoldIsTrue /\ ExpandedIsWhole /\ BindingsAreTrue
  BY DEF FoldIsTrue, ExpandedIsWhole, BindingsAreTrue
<1> QED BY <1>2, <1>3 DEF Inv

\* One turn of the fold keeps Inv: it forgets the context of earlier turns, and
\* FoldIsTrue speaks of the last parameter only.
LEMMA FoldKeeps == Inv /\ Fold => Inv'
<1> SUFFICES ASSUME Inv, Fold PROVE Inv'
  OBVIOUS
<1> DEFINE p == fn.params[folded + 1]
<1>0. /\ stage = "fold" /\ folded < Len(fn.params)
      /\ Parses(p)
      /\ ctx' = IF IsApplyContext(p) THEN {p.name} ELSE {}
      /\ folded' = folded + 1
      /\ fn' = fn /\ stage' = stage /\ scope' = scope /\ bound' = bound
  BY DEF Fold, applied
<1>1. /\ Len(fn.params) \in Nat /\ folded \in Nat
      /\ fn.params \in Seq(Params)
  BY ParamsAreASequence DEF Inv, TypeOK
<1>2. p \in Params
  BY <1>0, <1>1
<1>3. TypeOK'
  BY <1>0, <1>1, <1>2 DEF Inv, TypeOK
<1>4. FoldIsTrue'
  <2>1. ASSUME NEW i \in 1 .. folded' PROVE Parses(fn.params[i])
    <3>1. CASE i = folded + 1
      BY <1>0, <3>1
    <3>2. CASE i # folded + 1
      BY <1>0, <1>1, <3>2 DEF Inv, FoldIsTrue
    <3> QED BY <3>1, <3>2
  <2>2. folded' > 0
    BY <1>0, <1>1
  <2> QED BY <1>0, <2>1, <2>2 DEF FoldIsTrue
<1>5. ExpandedIsWhole' /\ BindingsAreTrue'
  BY <1>0 DEF Inv, ExpandedIsWhole, BindingsAreTrue
<1> QED BY <1>3, <1>4, <1>5 DEF Inv

\* When `apply' starts, every field has its name, and the context has its own if a
\* state will be asked for.
LEMMA EnterKeeps == Inv /\ Enter => Inv'
<1> SUFFICES ASSUME Inv, Enter PROVE Inv'
  OBVIOUS
<1>0. /\ stage = "compiled" /\ stage' = "applying" /\ bound = 0 /\ bound' = 0
      /\ fn' = fn /\ folded' = folded /\ ctx' = ctx
      /\ Compiles
  BY DEF Enter, expansion, Inv, BindingsAreTrue
<1>1. /\ Len(fn.params) \in Nat /\ fn.params \in Seq(Params)
      /\ DOMAIN fn.params = 1 .. Len(fn.params)
  BY ParamsAreASequence DEF Inv, TypeOK
<1>2. \A i \in 1 .. Len(fn.params) : fn.params[i] \in Params /\ fn.params[i].name \in Names
  BY <1>1 DEF Names
<1>3. FieldNames \subseteq STRING
  BY <1>1, <1>2, CommandAssumption DEF FieldNames, Param
<1>4. scope' = [n \in Names |-> IF n \in FieldNames THEN <<"command", n>>
                                ELSE IF n = ContextName THEN Context
                                ELSE Nothing]
  BY DEF Enter
<1>5. scope' \in [Names -> Meanings]
  <2>1. \A n \in FieldNames : <<"command", n>> \in Meanings
    BY <1>3 DEF Meanings
  <2>2. Context \in Meanings /\ Nothing \in Meanings
    BY DEF Meanings
  <2> QED BY <1>4, <2>1, <2>2
<1>6. ASSUME NEW i \in 1 .. Len(fn.params), IsField(fn.params[i])
      PROVE  scope'[fn.params[i].name] = Bound(fn.params[i])
  <2>1. fn.params[i].name \in FieldNames
    BY <1>1, <1>6 DEF FieldNames
  <2> QED BY <1>2, <1>4, <1>6, <2>1 DEF Bound
<1>7. ASSUME NEW i \in 1 .. Len(fn.params), ~IsField(fn.params[i])
      PROVE  scope'[ContextName] = Context
  <2>1. ContextName \notin FieldNames
    BY <1>0, <1>1, <1>7 DEF Compiles, ContextVisible
  <2> QED BY <1>4, <2>1, ContextHasAName DEF Inv
<1>8. TypeOK' /\ FoldIsTrue' /\ ExpandedIsWhole'
  BY <1>0, <1>1, <1>5 DEF Inv, TypeOK, Stages, FoldIsTrue, ExpandedIsWhole
<1>9. BindingsAreTrue'
  <2>1. Compiles' /\ ContextName' = ContextName
    BY <1>0, ExpansionStays
  <2>2. \A i \in bound' + 1 .. Len(fn.params) : i \in 1 .. Len(fn.params)
    BY <1>0
  <2>3. 1 .. bound' = {}
    BY <1>0
  <2> QED BY <1>0, <1>6, <1>7, <2>1, <2>2, <2>3 DEF BindingsAreTrue
<1> QED BY <1>8, <1>9 DEF Inv

\* One `let' of the generated `apply' keeps Inv: it takes what is in scope, and what
\* it hides nobody asks for any more.
LEMMA BindKeeps == Inv /\ Bind => Inv'
<1> SUFFICES ASSUME Inv, Bind PROVE Inv'
  OBVIOUS
<1> DEFINE k == bound + 1
           p == fn.params[k]
<1>0. /\ stage = "applying" /\ stage' = stage /\ bound < Len(fn.params)
      /\ Available(p)
      /\ scope' = [scope EXCEPT ![p.name] = Value(p)]
      /\ bound' = k
      /\ fn' = fn /\ folded' = folded /\ ctx' = ctx
      /\ Compiles
  BY DEF Bind, expansion, Inv, BindingsAreTrue
<1>1. /\ Len(fn.params) \in Nat /\ fn.params \in Seq(Params) /\ bound \in Nat
      /\ DOMAIN fn.params = 1 .. Len(fn.params)
      /\ k \in 1 .. Len(fn.params) /\ k \in bound + 1 .. Len(fn.params)
      /\ \A i, j \in 1 .. Len(fn.params) :
           i # j => fn.params[i].name # fn.params[j].name
  BY <1>0, ParamsAreASequence DEF Inv, TypeOK
<1>2. \A i \in 1 .. Len(fn.params) : fn.params[i] \in Params /\ fn.params[i].name \in Names
  BY <1>1 DEF Names
<1>3. Value(p) = Bound(p)
  <2>1. CASE IsField(p)
    BY <1>0, <1>1, <2>1 DEF Value, Bound, Inv, BindingsAreTrue
  <2>2. CASE ~IsField(p)
    <3>1. scope[ContextName] = Context
      BY <1>0, <1>1, <2>2 DEF Inv, BindingsAreTrue
    <3> QED BY <2>2, <3>1 DEF Value, Bound
  <2> QED BY <2>1, <2>2
<1>4. Bound(p) \in Meanings
  <2>1. p \in Param
    BY <1>1, <1>2, CommandAssumption
  <2>2. p.name \in STRING /\ p.ty.last \in STRING
    BY <2>1 DEF Param
  <2> QED BY <2>2 DEF Bound, Meanings
<1>5. /\ scope' \in [Names -> Meanings]
      /\ scope'[p.name] = Bound(p)
      /\ \A n \in Names : n # p.name => scope'[n] = scope[n]
  BY <1>0, <1>1, <1>2, <1>3, <1>4 DEF Inv, TypeOK
<1>6. ASSUME NEW i \in 1 .. bound'
      PROVE  scope'[fn.params[i].name] = Bound(fn.params[i]) /\ Available(fn.params[i])
  <2>1. CASE i = k
    BY <1>0, <1>5, <2>1
  <2>2. CASE i # k
    <3>1. i \in 1 .. bound /\ i \in 1 .. Len(fn.params)
      BY <1>0, <1>1, <2>2
    <3>2. fn.params[i].name # p.name
      BY <1>1, <2>2, <3>1
    <3> QED BY <1>0, <1>2, <1>5, <3>1, <3>2 DEF Inv, BindingsAreTrue
  <2> QED BY <2>1, <2>2
<1>7. ASSUME NEW i \in bound' + 1 .. Len(fn.params)
      PROVE  IF IsField(fn.params[i])
             THEN scope'[fn.params[i].name] = Bound(fn.params[i])
             ELSE scope'[ContextName] = Context
  <2>1. i \in bound + 1 .. Len(fn.params) /\ i \in 1 .. Len(fn.params) /\ i # k
        /\ k \in 1 .. i - 1
    BY <1>0, <1>1
  <2>2. CASE IsField(fn.params[i])
    <3>1. fn.params[i].name # p.name
      BY <1>1, <2>1
    <3> QED BY <1>0, <1>2, <1>5, <2>1, <2>2, <3>1 DEF Inv, BindingsAreTrue
  <2>3. CASE ~IsField(fn.params[i])
    <3>1. p.name # ContextName
      BY <1>0, <1>1, <2>1, <2>3 DEF Compiles, ContextVisible
    <3>2. scope[ContextName] = Context
      BY <1>0, <2>1, <2>3 DEF Inv, BindingsAreTrue
    <3> QED BY <1>5, <2>3, <3>1, <3>2, ContextHasAName DEF Inv
  <2> QED BY <2>2, <2>3
<1>8. TypeOK' /\ FoldIsTrue' /\ ExpandedIsWhole'
  BY <1>0, <1>1, <1>5 DEF Inv, TypeOK, FoldIsTrue, ExpandedIsWhole
<1>9. BindingsAreTrue'
  <2>1. Compiles' /\ ContextName' = ContextName
    BY <1>0, ExpansionStays
  <2>2. \A i \in 1 .. bound' :
          /\ scope'[fn'.params[i].name] = Bound(fn'.params[i])
          /\ Available(fn'.params[i])
    BY <1>0, <1>6
  <2>3. \A i \in bound' + 1 .. Len(fn'.params) :
          IF IsField(fn'.params[i])
          THEN scope'[fn'.params[i].name] = Bound(fn'.params[i])
          ELSE scope'[ContextName'] = Context
    BY <1>0, <1>7, <2>1
  <2>4. stage' = "applying" /\ Compiles'
    BY <1>0, <2>1
  <2> QED BY <2>2, <2>3, <2>4 DEF BindingsAreTrue
<1> QED BY <1>8, <1>9 DEF Inv

\* The steps that only change the stage.
LEMMA StageKeeps ==
  Inv /\ (FoldFails \/ Expand \/ Compile \/ BindPanics \/ Run \/ UNCHANGED vars)
    => Inv'
<1> SUFFICES ASSUME Inv,
                    FoldFails \/ Expand \/ Compile \/ BindPanics \/ Run
                      \/ UNCHANGED vars
             PROVE  Inv'
  OBVIOUS
<1>1. /\ fn' = fn /\ folded' = folded /\ ctx' = ctx /\ scope' = scope
      /\ bound' = bound /\ stage' \in Stages
  BY DEF FoldFails, Expand, Compile, BindPanics, Run, vars, expansion, applied,
         Stages, Inv, TypeOK
<1>2. TypeOK' /\ FoldIsTrue'
  BY <1>1 DEF Inv, TypeOK, FoldIsTrue
<1>3. /\ Compiles' = Compiles /\ ContextName' = ContextName
  BY <1>1, ExpansionStays
<1>4. ExpandedIsWhole' /\ BindingsAreTrue'
  <2>1. CASE FoldFails \/ Expand
    BY <1>1, <2>1 DEF FoldFails, Expand, Inv, ExpandedIsWhole, BindingsAreTrue
  <2>2. CASE Compile
    BY <1>1, <1>3, <2>2 DEF Compile, Inv, ExpandedIsWhole, BindingsAreTrue
  <2>3. CASE BindPanics \/ Run
    <3>1. /\ stage = "applying" /\ stage' \in {"done", "panicked"}
          /\ stage' = "done" => bound = Len(fn.params)
      BY <2>3 DEF BindPanics, Run
    <3>2. \A i \in 1 .. Len(fn.params) :
            /\ Bound(fn.params[i])' = Bound(fn.params[i])
            /\ Available(fn.params[i])' = Available(fn.params[i])
      BY <1>1 DEF Bound, Available
    <3> QED BY <1>1, <1>3, <3>1, <3>2
            DEF Inv, ExpandedIsWhole, BindingsAreTrue, Available, Bound
  <2>4. CASE UNCHANGED vars
    BY <1>1, <1>3, <2>4
       DEF vars, Inv, ExpandedIsWhole, BindingsAreTrue, Available, Bound
  <2> QED BY <2>1, <2>2, <2>3, <2>4
<1> QED BY <1>2, <1>4 DEF Inv

\* For functions with any parameters and any world: the types, what the fold has
\* found, what an expansion needs, and what the names of `apply' stand for so far.
THEOREM Typing == Spec => []Inv
<1>1. Inv /\ [Next]_vars => Inv'
  BY FoldKeeps, EnterKeeps, BindKeeps, StageKeeps DEF Next
<1> QED BY InitInv, <1>1, PTL DEF Spec

-----------------------------------------------------------------------------
\* Whatever names fields, states and context have, and in whatever order they are
\* bound: where the expansion compiles, a block that runs finds under each name what
\* its function asks for.
THEOREM NamesAreRight == Spec => []NamesMeanWhatIsAsked
<1>1. Inv => NamesMeanWhatIsAsked
  <2> SUFFICES ASSUME Inv, stage = "done", NEW i \in DOMAIN fn.params
               PROVE  LET p == fn.params[i] IN
                        /\ p.attr = {"field"} => scope[p.name] = <<"command", p.name>>
                        /\ DocumentedState(p) => scope[p.name] = <<"world", p.ty.last>>
    BY DEF NamesMeanWhatIsAsked
  <2>1. i \in 1 .. bound
    BY ParamsAreASequence DEF Inv, TypeOK, BindingsAreTrue
  <2>2. scope[fn.params[i].name] = Bound(fn.params[i])
    BY <2>1 DEF Inv, BindingsAreTrue
  <2> QED BY <2>2 DEF Bound, IsField, DocumentedState
<1> QED BY Typing, <1>1, PTL

\* A function whose attribute does not say `for_app' is expanded only if its last
\* parameter is the context.
THEOREM ExpandedContextsAreLast == Spec => []ContextIsLast
<1>1. Inv => ContextIsLast
  <2> SUFFICES ASSUME Inv, stage \notin {"fold", "rejected"}, ~fn.forApp
               PROVE  /\ fn.params # <<>>
                      /\ IsApplyContext(fn.params[Len(fn.params)])
    BY DEF ContextIsLast
  <2>1. folded = Len(fn.params) /\ ctx # {}
    BY DEF Inv, ExpandedIsWhole
  <2>2. fn.params \in Seq(Params)
    BY ParamsAreASequence DEF Inv, TypeOK
  <2>3. folded # 0
    BY <2>1 DEF Inv, FoldIsTrue
  <2>4. folded > 0 /\ fn.params # <<>>
    BY <2>1, <2>2, <2>3
  <2> QED BY <2>1, <2>4 DEF Inv, FoldIsTrue
<1> QED BY Typing, <1>1, PTL

\* In a world without a CommandContext, of which a command cannot hold one either,
\* only functions whose attribute says `for_app' have commands whose block runs: the
\* documented form, in which the context says what the application is, never does.
THEOREM ContextsNeverRun ==
  ASSUME "CommandContext" \notin World,
         \A p \in Params : IsApplyContext(p) => ~p.ty.storable
  PROVE  Spec => []OnlyForAppRuns
<1>1. Inv /\ ContextIsLast => OnlyForAppRuns
  <2> SUFFICES ASSUME Inv, ContextIsLast, stage = "done", ~fn.forApp
               PROVE  FALSE
    BY DEF OnlyForAppRuns
  <2> DEFINE n == Len(fn.params)
  <2>1. fn.params # <<>> /\ IsApplyContext(fn.params[n])
    BY DEF ContextIsLast
  <2>2. /\ fn.params \in Seq(Params) /\ DOMAIN fn.params = 1 .. n
        /\ n \in 1 .. n /\ fn.params[n] \in Params
    BY <2>1, ParamsAreASequence DEF Inv, TypeOK
  <2>3. Available(fn.params[n]) /\ Compiles
    BY <2>2 DEF Inv, BindingsAreTrue
  <2>4. CASE IsField(fn.params[n])
    BY <2>1, <2>2, <2>3, <2>4 DEF Compiles
  <2>5. CASE ~IsField(fn.params[n])
    BY <2>1, <2>3, <2>5 DEF Available, IsApplyContext
  <2> QED BY <2>4, <2>5
<1> QED BY Typing, ExpandedContextsAreLast, <1>1, PTL
=============================================================================
