--------------------------- MODULE MCCommandMacro ---------------------------
(* Parameters of commands: fields, states present and missing, a context. *)
EXTENDS CommandMacro

Plain(n, type, mutable, attributes) ==
  [name |-> n, typed |-> TRUE, simple |-> TRUE, ref |-> TRUE, mut |-> mutable,
   ty |-> [last |-> type, generics |-> <<>>, storable |-> TRUE],
   attr |-> attributes]

ordinary ==
  {Plain("a", "Clock", m, at) : m \in BOOLEAN, at \in SUBSET {"field", "state"}}
    \cup {Plain("b", "Store", m, {}) : m \in BOOLEAN}
    \cup {Plain("c", "Lost", FALSE, {}), Plain("d", "Store", TRUE, {"field"})}

refused ==
  {[Plain("e", "Clock", FALSE, {}) EXCEPT !.ref = FALSE],
   [Plain("f", "Clock", FALSE, {}) EXCEPT !.simple = FALSE],
   [Plain("self", "Clock", FALSE, {}) EXCEPT !.typed = FALSE]}

\* Parameters with the name that the macro gives a context it has not found.
hiding == {Plain("_ctx", "Clock", FALSE, at) : at \in {{}, {"field"}}}

contexts ==
  {[Plain("ctx", "CommandContext", TRUE, at) EXCEPT !.ty.generics = <<"type">>,
                                                    !.ty.storable = FALSE] :
     at \in {{}, {"field"}}}

AllParams == ordinary \cup refused \cup hiding \cup contexts
WithContext == contexts \cup {Plain("a", "Clock", FALSE, {"field"}),
                              Plain("b", "Store", FALSE, {})}
Present == {"Clock", "Store"}
=============================================================================
