---------------------------- MODULE MCModelMacro ----------------------------
(* Methods of impl blocks, of documented and of other shapes. *)
EXTENDS ModelMacro

plain == [ref |-> "none", last |-> "String", generics |-> <<>>, storable |-> TRUE]
context == [ref |-> "mut", last |-> "UpdateContext", generics |-> <<"type">>,
            storable |-> FALSE]

A(n, type) ==
  [name |-> n, pattern |-> "plain", type |-> type, used |-> TRUE, attrs |-> {}]
x == A("x", plain)
y == A("y", plain)
cx == A("cx", context)
renamed == [x EXCEPT !.attrs = {"serde"}]
unused(a) == [a EXCEPT !.used = FALSE]

set_it == [name |-> "set_it", header |-> {}, receiver |-> "mut",
           args |-> <<x, y>>, ret |-> "nothing", body |-> TRUE, fits |-> TRUE,
           named |-> FALSE, names |-> {}, message |-> "", meta |-> {}, attrs |-> {}]
value == [set_it EXCEPT !.name = "value", !.receiver = "shared", !.args = <<>>,
                        !.ret = "signal", !.body = FALSE]
new == [set_it EXCEPT !.name = "new", !.receiver = "none", !.args = <<>>,
                      !.body = FALSE]

\* Updaters with the context in every place, in both forms, twice or hidden.
withContext ==
  {[set_it EXCEPT !.name = "touch", !.args = as] :
     as \in {<<cx>>, <<x, y, cx>>, <<x, cx, y>>, <<cx, y>>, <<cx, A("c2", context)>>,
            <<unused(cx), A("c2", context)>>, <<x, [cx EXCEPT !.attrs = {"allow"}]>>,
            <<x, A("cx", [context EXCEPT !.generics = <<"lifetime", "type">>])>>,
            <<x, A("cx", [context EXCEPT !.ref = "shared"])>>,
            <<renamed, cx>>, <<A("x", [plain EXCEPT !.storable = FALSE])>>,
            <<A("cx", [context EXCEPT !.generics = <<>>])>>}}

\* Each of the three with one thing changed.
variants ==
  UNION {{[m EXCEPT !.header = {h}, !.fits = f] :
            h \in {"async", "generic", "lifetime"}, f \in BOOLEAN}
           \cup {[m EXCEPT !.receiver = r] : r \in {"none", "value", "typed"}}
           \cup {[m EXCEPT !.ret = "other", !.fits = f] : f \in BOOLEAN}
           \cup {[m EXCEPT !.body = ~@], [m EXCEPT !.attrs = {"cfg"}],
                 [m EXCEPT !.named = TRUE], [m EXCEPT !.message = "SetIt"],
                 [m EXCEPT !.args = <<[x EXCEPT !.pattern = "other"]>>],
                 [m EXCEPT !.args = <<[x EXCEPT !.pattern = "mut"]>>],
                 [m EXCEPT !.args = <<unused([x EXCEPT !.pattern = "mut"])>>],
                 [m EXCEPT !.message = "Other"],
                 [m EXCEPT !.named = TRUE, !.names = {"getter"}]}
           \cup {[m EXCEPT !.meta = {w}] : w \in Metas}
         : m \in {set_it, value, new}}

AllMethods == {set_it, value, new, [set_it EXCEPT !.name = "new"]}
                \cup withContext \cup variants

\* Documented updaters with an argument that is called ctx, and with an attribute.
DocumentedMethods ==
  {set_it, value, new,
   [set_it EXCEPT !.name = "touch", !.args = <<x, A("ctx", plain)>>],
   [set_it EXCEPT !.name = "rename", !.args = <<renamed, cx>>]}
    \cup withContext

\* Subsequence selects what SelectSeq does.
ASSUME SubsequenceSelects ==
  \A m \in AllMethods :
    /\ Fields(m) = Names(SelectSeq(m.args, LAMBDA a : ~IsUpdateContext(a.type)))
    /\ LET contexts == SelectSeq(m.args, LAMBDA a : IsUpdateContext(a.type)) IN
         ContextName(m) = IF contexts = <<>> THEN "_" ELSE Last(contexts).name

AllArguments ==
  {[message |-> msg, dispatcher |-> d, meta |-> w] :
     msg \in {"absent", "string"}, d \in BOOLEAN, w \in {{"base"}, {"fns"}}}

PascalCase ==
  [set_it |-> "SetIt", touch |-> "Touch", rename |-> "Rename", value |-> "Value",
   new |-> "New"]

Types == {"MyModel", "MyMessage", "MyUpdater", "MyGetter", "Other"}
=============================================================================
