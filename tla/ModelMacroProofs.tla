-------------------------- MODULE ModelMacroProofs --------------------------
(***************************************************************************)
(* Theorems about module ModelMacro, for blocks of any length of any       *)
(* methods.                                                                *)
(*                                                                         *)
(* The first part is about Subsequence, that which both passes select      *)
(* with: it enumerates its positions in order and misses none, and it      *)
(* grows by one element with a position beyond all of them.                *)
(***************************************************************************)
EXTENDS ModelMacro, FiniteSetTheorems, SequenceTheorems, TLAPS

UpTo(i, I) == {j \in I : j <= i}

Rank(i, I) == Cardinality(UpTo(i, I))

\* Ranks are strictly monotonic, hence they number a finite set without gaps.
LEMMA RankFacts ==
  ASSUME NEW I \in SUBSET Nat, IsFiniteSet(I)
  PROVE  /\ Cardinality(I) \in Nat
         /\ \A i \in I : Rank(i, I) \in 1 .. Cardinality(I)
         /\ \A i, j \in I : i < j => Rank(i, I) < Rank(j, I)
         /\ \A k \in 1 .. Cardinality(I) : \E i \in I : Rank(i, I) = k
<1> DEFINE n == Cardinality(I)
           f == [i \in I |-> Rank(i, I)]
<1>1. n \in Nat
  BY FS_CardinalityType
<1>2. ASSUME NEW i \in I
      PROVE  /\ IsFiniteSet(UpTo(i, I))
             /\ Rank(i, I) \in 1 .. n
  <2>1. UpTo(i, I) \in SUBSET I /\ i \in UpTo(i, I)
    <3>1. i \in Nat /\ i <= i
      OBVIOUS
    <3> QED BY <3>1 DEF UpTo
  <2>2. IsFiniteSet(UpTo(i, I)) /\ Rank(i, I) <= n
    BY <2>1, FS_Subset DEF Rank
  <2>3. Rank(i, I) \in Nat /\ Rank(i, I) # 0
    BY <2>1, <2>2, FS_CardinalityType, FS_EmptySet DEF Rank
  <2> QED BY <1>1, <2>2, <2>3
<1>3. ASSUME NEW i \in I, NEW j \in I, i < j PROVE Rank(i, I) < Rank(j, I)
  <2>1. UpTo(i, I) \in SUBSET (UpTo(j, I) \ {j}) /\ j \in UpTo(j, I)
    <3>1. i \in Nat /\ j \in Nat
      OBVIOUS
    <3>2. ASSUME NEW h \in UpTo(i, I) PROVE h \in UpTo(j, I) /\ h # j
      <4>1. h \in I /\ h \in Nat /\ h <= i
        BY <3>2 DEF UpTo
      <4> QED BY <1>3, <3>1, <4>1 DEF UpTo
    <3>3. j \in UpTo(j, I)
      BY <3>1 DEF UpTo
    <3> QED BY <3>2, <3>3
  <2>2. /\ IsFiniteSet(UpTo(j, I) \ {j})
        /\ Cardinality(UpTo(j, I) \ {j}) = Rank(j, I) - 1
    BY <1>2, <2>1, FS_RemoveElement DEF Rank
  <2>3. Rank(i, I) <= Rank(j, I) - 1
    BY <2>1, <2>2, FS_Subset DEF Rank
  <2> QED BY <1>2, <2>3
<1>4. ASSUME NEW k \in 1 .. n PROVE \E i \in I : Rank(i, I) = k
  <2>1. f \in [I -> 1 .. n]
    BY <1>2
  <2>2. ASSUME NEW i \in I, NEW j \in I, f[i] = f[j] PROVE i = j
    <3>1. Rank(i, I) = Rank(j, I) /\ Rank(i, I) \in Nat /\ i \in Nat /\ j \in Nat
      BY <1>2, <2>2
    <3>2. ~(i < j) /\ ~(j < i)
      BY <1>3, <3>1
    <3> QED BY <3>1, <3>2
  <2>3. f \in Injection(I, 1 .. n)
    BY <2>1, <2>2 DEF Injection, IsInjective
  <2>4. IsFiniteSet(1 .. n) /\ Cardinality(1 .. n) = n
    BY <1>1, FS_Interval
  <2>5. f \in Surjection(I, 1 .. n)
    BY <2>3, <2>4, FS_Injection
  <2> QED BY <2>5 DEF Surjection
<1> QED BY <1>1, <1>2, <1>3, <1>4

\* f numbers the positions I in order, as the subsequence of s does, and misses none.
Enumerates(f, s, I) ==
  /\ f \in [1 .. Cardinality(I) -> I]
  /\ \A k \in 1 .. Cardinality(I) :
       Rank(f[k], I) = k /\ Subsequence(s, I)[k] = s[f[k]]
  /\ \A i \in I : \E k \in 1 .. Cardinality(I) : f[k] = i
  /\ \A k, l \in 1 .. Cardinality(I) : f[k] = f[l] => k = l

\* The positions of a subsequence, in order.
LEMMA PositionsOf ==
  ASSUME NEW S, NEW s \in Seq(S), NEW I \in SUBSET (1 .. Len(s))
  PROVE  /\ Cardinality(I) \in Nat
         /\ Subsequence(s, I) \in Seq(S)
         /\ Len(Subsequence(s, I)) = Cardinality(I)
         /\ \E f : Enumerates(f, s, I)
<1> DEFINE n == Cardinality(I)
           f == [k \in 1 .. n |-> CHOOSE i \in I : Rank(i, I) = k]
<1>1. I \in SUBSET Nat /\ IsFiniteSet(I)
  <2>1. 1 \in Int /\ Len(s) \in Int /\ I \in SUBSET Nat
    OBVIOUS
  <2>2. IsFiniteSet(1 .. Len(s))
    BY <2>1, FS_Interval
  <2> QED BY <2>1, <2>2, FS_Subset
<1>2. /\ n \in Nat
      /\ \A i \in I : Rank(i, I) \in 1 .. n
      /\ \A i, j \in I : i < j => Rank(i, I) < Rank(j, I)
      /\ \A k \in 1 .. n : \E i \in I : Rank(i, I) = k
  BY <1>1, RankFacts
<1>3. ASSUME NEW k \in 1 .. n PROVE f[k] \in I /\ Rank(f[k], I) = k
  BY <1>2
<1>4. Subsequence(s, I) = [k \in 1 .. n |-> s[f[k]]]
  BY DEF Subsequence, Rank, UpTo
<1>5. f \in [1 .. n -> I]
  BY <1>3
<1> HIDE DEF f
<1>6. \A k, l \in 1 .. n : f[k] = f[l] => k = l
  BY <1>3
<1>7. ASSUME NEW i \in I PROVE \E k \in 1 .. n : f[k] = i
  <2> DEFINE k == Rank(i, I)
  <2>1. k \in 1 .. n
    BY <1>2
  <2>2. f[k] \in I /\ Rank(f[k], I) = k
    BY <1>3, <2>1
  <2>3. ~(i < f[k]) /\ ~(f[k] < i)
    <3>1. Rank(i, I) = Rank(f[k], I) /\ Rank(i, I) \in Nat
      BY <2>1, <2>2
    <3>2. /\ i < f[k] => Rank(i, I) < Rank(f[k], I)
          /\ f[k] < i => Rank(f[k], I) < Rank(i, I)
      BY <1>2, <2>2, Zenon
    <3> QED BY <3>1, <3>2
  <2>4. f[k] = i
    <3>1. f[k] \in Nat /\ i \in Nat
      BY <1>1, <2>2
    <3> QED BY <2>3, <3>1
  <2> QED BY <2>1, <2>4
<1>8. Subsequence(s, I) \in Seq(S) /\ Len(Subsequence(s, I)) = n
  <2>1. ASSUME NEW k \in 1 .. n PROVE s[f[k]] \in S
    <3>1. f[k] \in 1 .. Len(s)
      BY <1>5
    <3> QED BY <3>1
  <2> QED BY <1>2, <1>4, <2>1
<1>9. Enumerates(f, s, I)
  BY <1>3, <1>4, <1>5, <1>6, <1>7 DEF Enumerates
<1> QED BY <1>2, <1>8, <1>9

\* No positions, no elements.
LEMMA EmptySubsequence ==
  ASSUME NEW s
  PROVE  Subsequence(s, {}) = <<>>
<1>1. Cardinality({}) = 0
  BY FS_EmptySet
<1> QED BY <1>1 DEF Subsequence

\* A position beyond all others is the last of the subsequence.
LEMMA SubsequenceGrows ==
  ASSUME NEW S, NEW s \in Seq(S), NEW n \in 1 .. Len(s), NEW I \in SUBSET (1 .. n - 1)
  PROVE  Subsequence(s, I \cup {n}) = Append(Subsequence(s, I), s[n])
<1>0. SUFFICES ASSUME NEW J, J = I \cup {n}
               PROVE  Subsequence(s, J) = Append(Subsequence(s, I), s[n])
  OBVIOUS
<1> DEFINE c == Cardinality(I)
<1>1. /\ n \in Nat /\ n \notin I
      /\ \A i \in I : i \in Nat /\ i < n
      /\ I \in SUBSET (1 .. Len(s)) /\ J \in SUBSET (1 .. Len(s))
  BY <1>0
<1>2. IsFiniteSet(I) /\ I \in SUBSET Nat /\ J \in SUBSET Nat
  <2>1. 1 \in Int /\ Len(s) \in Int /\ I \in SUBSET Nat /\ J \in SUBSET Nat
    BY <1>1
  <2>2. IsFiniteSet(1 .. Len(s))
    BY <2>1, FS_Interval
  <2> QED BY <1>1, <2>1, <2>2, FS_Subset
<1>3. IsFiniteSet(J) /\ c \in Nat /\ Cardinality(J) = c + 1
  BY <1>0, <1>1, <1>2, FS_AddElement, FS_CardinalityType
<1>4. ASSUME NEW i \in I PROVE Rank(i, J) = Rank(i, I)
  <2>1. UpTo(i, J) = UpTo(i, I)
    BY <1>0, <1>1 DEF UpTo
  <2> QED BY <2>1 DEF Rank
<1>5. Rank(n, J) = c + 1
  <2>1. \A i \in J : i <= n
    BY <1>0, <1>1
  <2>2. UpTo(n, J) = J
    BY <2>1 DEF UpTo
  <2> QED BY <1>3, <2>2 DEF Rank
<1> HIDE DEF c
<1>f. PICK f : Enumerates(f, s, I)
  BY <1>1, PositionsOf
<1>6. /\ f \in [1 .. c -> I]
      /\ \A k \in 1 .. c : Rank(f[k], I) = k /\ Subsequence(s, I)[k] = s[f[k]]
  BY <1>f DEF Enumerates, c
<1>g. PICK g : Enumerates(g, s, J)
  BY <1>1, PositionsOf
<1>7. /\ g \in [1 .. c + 1 -> J]
      /\ \A k \in 1 .. c + 1 : Rank(g[k], J) = k /\ Subsequence(s, J)[k] = s[g[k]]
  BY <1>3, <1>g DEF Enumerates
<1>8. /\ Subsequence(s, I) \in Seq(S) /\ Len(Subsequence(s, I)) = c
      /\ Subsequence(s, J) \in Seq(S) /\ Len(Subsequence(s, J)) = c + 1
  BY <1>1, <1>3, PositionsOf DEF c
<1>9. \A i, j \in J : Rank(i, J) = Rank(j, J) => i = j
  <2>1. \A i \in J : Rank(i, J) \in Nat
    BY <1>2, <1>3, RankFacts
  <2>2. \A i, j \in J : i < j => Rank(i, J) < Rank(j, J)
    BY <1>2, <1>3, RankFacts
  <2>3. SUFFICES ASSUME NEW i \in J, NEW j \in J, Rank(i, J) = Rank(j, J), i # j
                 PROVE  FALSE
    OBVIOUS
  <2>4. i \in Nat /\ j \in Nat /\ (i < j \/ j < i)
    BY <1>2, <2>3
  <2>5. Rank(i, J) < Rank(j, J) \/ Rank(j, J) < Rank(i, J)
    BY <2>2, <2>4, Zenon
  <2>6. Rank(i, J) \in Nat /\ Rank(j, J) \in Nat
    BY <2>1
  <2> QED BY <2>3, <2>5, <2>6
<1>10. ASSUME NEW k \in 1 .. c PROVE Subsequence(s, J)[k] = Subsequence(s, I)[k]
  <2>1. f[k] \in I /\ f[k] \in J /\ k \in 1 .. c + 1 /\ g[k] \in J
    BY <1>0, <1>3, <1>6, <1>7
  <2>2. Rank(f[k], J) = k /\ Rank(g[k], J) = k
    BY <1>4, <1>6, <1>7, <2>1
  <2>3. f[k] = g[k]
    BY <1>9, <2>1, <2>2
  <2> QED BY <1>6, <1>7, <2>1, <2>3
<1>11. Subsequence(s, J)[c + 1] = s[n]
  <2>1. n \in J /\ c + 1 \in 1 .. c + 1 /\ g[c + 1] \in J
    BY <1>0, <1>3, <1>7
  <2>2. g[c + 1] = n
    BY <1>5, <1>7, <1>9, <2>1
  <2> QED BY <1>7, <2>1, <2>2
<1>12. s[n] \in S
  BY <1>1
<1>13. /\ Append(Subsequence(s, I), s[n]) \in Seq(S)
       /\ Len(Append(Subsequence(s, I), s[n])) = c + 1
       /\ \A k \in 1 .. c : Append(Subsequence(s, I), s[n])[k] = Subsequence(s, I)[k]
       /\ Append(Subsequence(s, I), s[n])[c + 1] = s[n]
  BY <1>3, <1>8, <1>12
<1>14. ASSUME NEW k \in 1 .. c + 1
       PROVE  Subsequence(s, J)[k] = Append(Subsequence(s, I), s[n])[k]
  <2>1. k \in 1 .. c \/ k = c + 1
    BY <1>3
  <2> QED BY <1>10, <1>11, <1>13, <2>1
<1> QED BY <1>8, <1>13, <1>14, SeqEqual

-----------------------------------------------------------------------------
(***************************************************************************)
(* The invariant: the lists of the second pass are, at every step, what    *)
(* the block holds of their kind up to there, every method the first pass  *)
(* is through with parses, and a call is that of an updater of the list.   *)
(***************************************************************************)
Stages == {"parsing", "rejected", "running", "broken", "sent", "handled"}

TypeOK ==
  /\ args \in Arguments
  /\ block \in Seq(Methods)
  /\ first \in 0 .. Len(block)
  /\ second \in 0 .. Len(block)
  /\ second > 0 => first = Len(block)
  /\ stage \in Stages

\* Where the second pass has met methods of a kind.
Positions(kind) == {i \in 1 .. second : Kind(block[i]) = kind}

OfKind(kind) == Subsequence(block, Positions(kind))

PassesAreTrue ==
  /\ \A i \in 1 .. first : Parses(block[i])
  /\ updaters = OfKind("updater")
  /\ getters = OfKind("getter")

Built == stage \in {"running", "sent", "handled"}

ExpansionIsTrue ==
  /\ Built \/ stage = "broken" => /\ first = Len(block) /\ second = Len(block)
                                  /\ ArgumentsValid
  /\ Built => Compiles
  /\ stage = "broken" => ~Compiles

IsCallOf(i) ==
  /\ call.variant = MessageName(updaters[i])
  /\ call.method = updaters[i].name

CallIsTrue ==
  /\ stage \in {"sent", "handled"} => \E i \in DOMAIN updaters : IsCallOf(i)
  /\ stage = "handled" =>
       \E i \in DOMAIN updaters :
         /\ MessageName(updaters[i]) = call.variant
         /\ bound = [method |-> updaters[i].name,
                     names |-> Formals(updaters[i]),
                     values |-> Actuals(updaters[i], call.fields)]

Inv == TypeOK /\ PassesAreTrue /\ ExpansionIsTrue /\ CallIsTrue

\* A block that no pass has looked at satisfies Inv.
LEMMA InitInv == Init => Inv
<1> SUFFICES ASSUME Init PROVE Inv
  OBVIOUS
<1> USE DEF Init
<1>1. block \in Seq(Methods)
  <2>1. PICK n \in 0 .. MaxMethods : block \in [1 .. n -> Methods]
    BY DEF SeqOf
  <2>2. n \in Nat
    BY ModelMacroAssumption
  <2> QED BY <2>1, <2>2
<1>2. TypeOK
  BY <1>1 DEF TypeOK, Stages
<1>3. PassesAreTrue
  <2>1. Positions("updater") = {} /\ Positions("getter") = {}
    BY DEF Positions
  <2>2. \A i \in 1 .. first : FALSE
    OBVIOUS
  <2> QED BY <2>1, <2>2, EmptySubsequence DEF PassesAreTrue, OfKind
<1>4. ExpansionIsTrue /\ CallIsTrue
  BY DEF ExpansionIsTrue, CallIsTrue, Built
<1> QED BY <1>2, <1>3, <1>4 DEF Inv

\* The first pass keeps Inv: one more method is one that parses.
LEMMA FirstPassKeeps == Inv /\ FirstPass => Inv'
<1> SUFFICES ASSUME Inv, FirstPass PROVE Inv'
  OBVIOUS
<1>0. /\ stage = "parsing" /\ first < Len(block) /\ Parses(block[first + 1])
      /\ first' = first + 1
      /\ args' = args /\ block' = block /\ second' = second /\ stage' = stage
      /\ updaters' = updaters /\ getters' = getters
  BY DEF FirstPass
<1>1. TypeOK /\ Len(block) \in Nat /\ second = 0
  BY <1>0 DEF Inv, TypeOK
<1>2. TypeOK'
  BY <1>0, <1>1 DEF TypeOK
<1>3. PassesAreTrue'
  <2>1. ASSUME NEW i \in 1 .. first' PROVE Parses(block[i])
    <3>1. CASE i = first + 1
      BY <1>0, <3>1
    <3>2. CASE i # first + 1
      <4>1. i \in 1 .. first
        BY <1>0, <1>1, <3>2 DEF TypeOK
      <4> QED BY <4>1 DEF Inv, PassesAreTrue
    <3> QED BY <3>1, <3>2
  <2>2. OfKind("updater")' = OfKind("updater") /\ OfKind("getter")' = OfKind("getter")
    BY <1>0 DEF OfKind, Positions
  <2> QED BY <1>0, <2>1, <2>2 DEF Inv, PassesAreTrue
<1>4. ExpansionIsTrue' /\ CallIsTrue'
  BY <1>0 DEF ExpansionIsTrue, CallIsTrue, Built
<1> QED BY <1>2, <1>3, <1>4 DEF Inv

\* A list of the second pass grows exactly by the methods of its kind.
LEMMA SortingGrows ==
  ASSUME TypeOK, SecondPass, NEW kind
  PROVE  OfKind(kind)' = IF Kind(block[second + 1]) = kind
                         THEN Append(OfKind(kind), block[second + 1])
                         ELSE OfKind(kind)
<1> DEFINE n == second + 1
<1>1. /\ block \in Seq(Methods) /\ Len(block) \in Nat /\ second \in Nat
      /\ n \in 1 .. Len(block) /\ n - 1 = second
      /\ second' = n /\ block' = block
  BY DEF TypeOK, SecondPass
<1>2. Positions(kind) \in SUBSET (1 .. n - 1)
  BY <1>1 DEF Positions
<1>3. \A i : i \in 1 .. n <=> i \in 1 .. second \/ i = n
  BY <1>1
<1>4. CASE Kind(block[n]) = kind
  <2>1. Positions(kind)' = Positions(kind) \cup {n}
    BY <1>1, <1>3, <1>4 DEF Positions
  <2> QED BY <1>1, <1>2, <1>4, <2>1, SubsequenceGrows DEF OfKind
<1>5. CASE Kind(block[n]) # kind
  <2>1. Positions(kind)' = Positions(kind)
    BY <1>1, <1>3, <1>5 DEF Positions
  <2> QED BY <1>1, <1>5, <2>1 DEF OfKind
<1> QED BY <1>4, <1>5

\* The second pass keeps Inv: one more method grows the list of its kind.
LEMMA SecondPassKeeps == Inv /\ SecondPass => Inv'
<1> SUFFICES ASSUME Inv, SecondPass PROVE Inv'
  OBVIOUS
<1>0. /\ stage = "parsing" /\ first = Len(block) /\ second < Len(block)
      /\ second' = second + 1
      /\ args' = args /\ block' = block /\ first' = first /\ stage' = stage
      /\ updaters' = IF Kind(block[second + 1]) = "updater"
                     THEN Append(updaters, block[second + 1]) ELSE updaters
      /\ getters' = IF Kind(block[second + 1]) = "getter"
                    THEN Append(getters, block[second + 1]) ELSE getters
  BY DEF SecondPass
<1>1. TypeOK /\ Len(block) \in Nat
  BY DEF Inv, TypeOK
<1>2. TypeOK'
  BY <1>0, <1>1 DEF TypeOK
<1>3. PassesAreTrue'
  <2>1. updaters' = OfKind("updater")' /\ getters' = OfKind("getter")'
    BY <1>0, <1>1, SortingGrows DEF Inv, PassesAreTrue
  <2> QED BY <1>0, <2>1 DEF Inv, PassesAreTrue
<1>4. ExpansionIsTrue' /\ CallIsTrue'
  BY <1>0 DEF ExpansionIsTrue, CallIsTrue, Built
<1> QED BY <1>2, <1>3, <1>4 DEF Inv

\* The steps that leave the block and what the passes made of it alone.
Settled == UNCHANGED <<args, block, first, second, updaters, getters>>

\* What follows the passes leaves their lists alone, and with them what they imply.
LEMMA SettledKeeps ==
  ASSUME Inv, Settled
  PROVE  /\ stage' \in Stages => TypeOK'
         /\ PassesAreTrue'
         /\ Compiles' = Compiles
         /\ ArgumentsValid' = ArgumentsValid
<1>1. /\ args' = args /\ block' = block /\ first' = first /\ second' = second
      /\ updaters' = updaters /\ getters' = getters
  BY DEF Settled
<1>2. stage' \in Stages => TypeOK'
  BY <1>1 DEF Inv, TypeOK
<1>3. PassesAreTrue'
  BY <1>1 DEF Inv, PassesAreTrue, OfKind, Positions
<1>4. Compiles' = Compiles /\ ArgumentsValid' = ArgumentsValid
  BY <1>1 DEF Compiles, ArgumentsValid
<1> QED BY <1>2, <1>3, <1>4

\* The end of the expansion keeps Inv, whether it is an error or code.
LEMMA ExpandKeeps == Inv /\ (FirstPassFails \/ Expand) => Inv'
<1> SUFFICES ASSUME Inv, FirstPassFails \/ Expand PROVE Inv'
  OBVIOUS
<1>1. Settled /\ stage' \in Stages /\ stage' \notin {"sent", "handled"}
  BY DEF FirstPassFails, Expand, Settled, Stages
<1>2. TypeOK' /\ PassesAreTrue' /\ Compiles' = Compiles /\ ArgumentsValid' = ArgumentsValid
  BY <1>1, SettledKeeps
<1>3. ExpansionIsTrue'
  <2>1. CASE FirstPassFails
    BY <2>1 DEF FirstPassFails, ExpansionIsTrue, Built
  <2>2. CASE Expand
    BY <1>1, <1>2, <2>2 DEF Expand, Settled, ExpansionIsTrue, Built
  <2> QED BY <2>1, <2>2
<1>4. CallIsTrue'
  BY <1>1 DEF CallIsTrue
<1> QED BY <1>2, <1>3, <1>4 DEF Inv

\* A call of an updater keeps Inv: its message is one of the built application's.
LEMMA SendKeeps == ASSUME NEW i, NEW values, Inv, Send(i, values) PROVE Inv'
<1>1. /\ stage = "running" /\ stage' = "sent" /\ i \in DOMAIN updaters /\ Settled
      /\ call' = [variant |-> MessageName(updaters[i]), fields |-> values,
                  method |-> updaters[i].name]
  BY DEF Send, Settled
<1>2. TypeOK' /\ PassesAreTrue' /\ Compiles' = Compiles /\ ArgumentsValid' = ArgumentsValid
  BY <1>1, SettledKeeps DEF Stages
<1>3. ExpansionIsTrue'
  BY <1>1, <1>2 DEF Inv, ExpansionIsTrue, Built, Settled
<1>4. CallIsTrue'
  <2>1. i \in DOMAIN updaters' /\ IsCallOf(i)'
    BY <1>1 DEF IsCallOf, Settled, MessageName
  <2> QED BY <1>1, <2>1 DEF CallIsTrue
<1> QED BY <1>2, <1>3, <1>4 DEF Inv

\* `update' keeps Inv: the arm it runs is that of the message's variant.
LEMMA DispatchKeeps == Inv /\ Dispatch => Inv'
<1> SUFFICES ASSUME Inv, Dispatch PROVE Inv'
  OBVIOUS
<1>1. /\ stage = "sent" /\ stage' = "handled" /\ Settled /\ call' = call
      /\ \E i \in DOMAIN updaters :
           /\ MessageName(updaters[i]) = call.variant
           /\ bound' = [method |-> updaters[i].name,
                        names |-> Formals(updaters[i]),
                        values |-> Actuals(updaters[i], call.fields)]
  BY DEF Dispatch, Settled
<1>2. TypeOK' /\ PassesAreTrue' /\ Compiles' = Compiles /\ ArgumentsValid' = ArgumentsValid
  BY <1>1, SettledKeeps DEF Stages
<1>3. ExpansionIsTrue'
  BY <1>1, <1>2 DEF Inv, ExpansionIsTrue, Built, Settled
<1>4. CallIsTrue'
  BY <1>1 DEF Inv, CallIsTrue, IsCallOf, Settled
<1> QED BY <1>2, <1>3, <1>4 DEF Inv

\* Inv is about the variables of the module only.
LEMMA StutterKeeps == Inv /\ UNCHANGED vars => Inv'
<1> SUFFICES ASSUME Inv, UNCHANGED vars PROVE Inv'
  OBVIOUS
<1>1. Settled /\ stage' = stage /\ call' = call /\ bound' = bound
  BY DEF vars, Settled
<1>2. TypeOK' /\ PassesAreTrue' /\ Compiles' = Compiles /\ ArgumentsValid' = ArgumentsValid
  BY <1>1, SettledKeeps DEF Inv, TypeOK
<1>3. ExpansionIsTrue'
  BY <1>1, <1>2 DEF Inv, ExpansionIsTrue, Built, Settled
<1>4. CallIsTrue'
  BY <1>1 DEF Inv, CallIsTrue, IsCallOf, Settled
<1> QED BY <1>2, <1>3, <1>4 DEF Inv

\* For blocks of any length of any methods: the types, what the passes have sorted,
\* what an expansion needs, and what a call has reached.
THEOREM Typing == Spec => []Inv
<1>1. Inv /\ [Next]_vars => Inv'
  BY FirstPassKeeps, SecondPassKeeps, ExpandKeeps, SendKeeps, DispatchKeeps,
     StutterKeeps DEF Next
<1> QED BY InitInv, <1>1, PTL DEF Spec

-----------------------------------------------------------------------------
(***************************************************************************)
(* What the passes let through.                                            *)
(***************************************************************************)
LEMMA KindFacts ==
  ASSUME NEW m
  PROVE  /\ Kind(m) = "updater" <=> m.receiver = "mut" /\ m.ret # "signal" /\ m.body
         /\ Kind(m) = "getter" <=> /\ m.receiver = "shared" /\ m.ret = "signal"
                                   /\ m.args = <<>> /\ ~m.body
         /\ Kind(m) = "new" <=> /\ m.name = "new" /\ m.receiver \notin {"mut", "shared"}
                                /\ m.ret # "signal" /\ m.args = <<>> /\ ~m.body
         /\ Kind(m) \in {"updater", "getter", "new", "none"}
BY DEF Kind, SelfTy

\* The lists hold the methods of their kind, all of them and no other.
LEMMA ListFacts ==
  ASSUME Inv, NEW kind
  PROVE  /\ OfKind(kind) \in Seq(Methods)
         /\ \A m \in ToSet(OfKind(kind)) :
              m \in ToSet(block) /\ Kind(m) = kind /\ Parses(m)
         /\ second = Len(block) =>
              \A m \in ToSet(block) : Kind(m) = kind => m \in ToSet(OfKind(kind))
<1> DEFINE I == Positions(kind)
           list == OfKind(kind)
<1>1. /\ block \in Seq(Methods) /\ DOMAIN block = 1 .. Len(block)
      /\ I \in SUBSET (1 .. Len(block)) /\ I \in SUBSET (1 .. second)
      /\ \A i \in 1 .. second : i \in DOMAIN block /\ Parses(block[i])
  BY DEF Inv, TypeOK, PassesAreTrue, Positions
<1>2. /\ list \in Seq(Methods) /\ Len(list) = Cardinality(I)
      /\ DOMAIN list = 1 .. Cardinality(I)
  BY <1>1, PositionsOf DEF OfKind
<1>f. PICK f : Enumerates(f, block, I)
  BY <1>1, PositionsOf
<1>3. /\ f \in [1 .. Cardinality(I) -> I]
      /\ \A k \in 1 .. Cardinality(I) : list[k] = block[f[k]]
      /\ \A i \in I : \E k \in 1 .. Cardinality(I) : f[k] = i
  <2>1. list = Subsequence(block, I)
    BY DEF OfKind
  <2> HIDE DEF I, list
  <2> QED BY <1>f, <2>1 DEF Enumerates
<1>4. ASSUME NEW m \in ToSet(list)
      PROVE  m \in ToSet(block) /\ Kind(m) = kind /\ Parses(m)
  <2>1. PICK k \in 1 .. Cardinality(I) : m = list[k]
    BY <1>2 DEF ToSet
  <2>2. f[k] \in I /\ m = block[f[k]]
    BY <1>3, <2>1
  <2> QED BY <1>1, <2>2 DEF ToSet, Positions
<1>5. ASSUME second = Len(block), NEW m \in ToSet(block), Kind(m) = kind
      PROVE  m \in ToSet(list)
  <2>1. PICK i \in 1 .. second : m = block[i]
    BY <1>1, <1>5 DEF ToSet
  <2>2. i \in I
    BY <1>5, <2>1 DEF Positions
  <2>3. PICK k \in 1 .. Cardinality(I) : list[k] = block[i]
    BY <1>3, <2>2
  <2> QED BY <1>2, <2>1, <2>3 DEF ToSet
<1> QED BY <1>2, <1>4, <1>5

\* The lists hold methods of their kind, and every method of the block is in its list.
LEMMA SortedFacts ==
  ASSUME Inv
  PROVE  /\ updaters \in Seq(Methods) /\ getters \in Seq(Methods)
         /\ \A m \in ToSet(updaters) :
              m \in ToSet(block) /\ Kind(m) = "updater" /\ Parses(m)
         /\ \A m \in ToSet(getters) :
              m \in ToSet(block) /\ Kind(m) = "getter" /\ Parses(m)
         /\ second = Len(block) =>
              \A m \in ToSet(block) :
                /\ Parses(m)
                /\ Kind(m) = "updater" => m \in ToSet(updaters)
                /\ Kind(m) = "getter" => m \in ToSet(getters)
<1>1. ASSUME second = Len(block), NEW m \in ToSet(block) PROVE Parses(m)
  <2>1. /\ DOMAIN block = 1 .. Len(block)
        /\ \A i \in 1 .. second : Parses(block[i])
    BY DEF Inv, TypeOK, PassesAreTrue
  <2> QED BY <1>1, <2>1 DEF ToSet
<1>2. updaters = OfKind("updater") /\ getters = OfKind("getter")
  BY DEF Inv, PassesAreTrue
<1> QED BY <1>1, <1>2, ListFacts

\* The fields of a method of the block.
LEMMA MethodFacts ==
  ASSUME Inv, NEW m \in ToSet(block)
  PROVE  /\ m \in Methods
         /\ m.args \in Seq(Arg)
         /\ m.meta \in SUBSET Metas
         /\ m.named \in BOOLEAN /\ m.names \in SUBSET {"updater", "getter"}
         /\ ~m.named => m.names = {}
<1>1. m \in Methods
  BY DEF Inv, TypeOK, ToSet
<1> QED BY <1>1, ModelMacroAssumption DEF Method

\* No list of attributes in the #[emyu(meta(...))] of an updater or a getter is
\* dropped: it is pasted on the message or on the functions made of the method, or
\* the block is refused.
THEOREM MetaIsKept == Spec => []NoMetaIsLost
<1>1. Inv => NoMetaIsLost
  <2> SUFFICES ASSUME Inv, Parsed, NEW m \in ToSet(updaters) \cup ToSet(getters)
               PROVE  m.meta \subseteq MessageMeta(m) \cup FnMeta(m)
    BY DEF NoMetaIsLost
  <2>1. /\ m \in ToSet(block) /\ Parses(m)
        /\ Kind(m) = "updater" \/ Kind(m) = "getter"
    BY SortedFacts
  <2>2. m.meta \in SUBSET Metas
    BY <2>1, MethodFacts
  <2>3. /\ Kind(m) = "updater" => m.meta \cap {"inner", "getter"} = {}
        /\ Kind(m) = "getter" => m.meta \cap {"inner", "updater"} = {}
    BY <2>1 DEF Parses, AttributesValid
  <2>4. ASSUME NEW w \in m.meta PROVE w \in {"base", "message", "fns", Kind(m)}
    <3>1. w \in {"base", "updater", "getter", "message", "fns", "inner"}
      BY <2>2 DEF Metas
    <3> QED BY <2>1, <2>3, <3>1
  <2> QED BY <2>4 DEF MessageMeta, FnMeta
<1> QED BY Typing, <1>1, PTL

\* An application that is built has only updaters and getters with the documented
\* receiver, arguments and body, whatever the macro itself lets through; of the
\* header only type parameters are left, which the expansion does without.
THEOREM OnlyDocumentedShapesRun == Spec => []NothingElseRuns
<1>1. Inv => NothingElseRuns
  <2> SUFFICES ASSUME Inv, Built PROVE NothingElseRuns
    BY DEF NothingElseRuns, Built
  <2>1. Compiles
    BY DEF Inv, ExpansionIsTrue
  <2>2. ASSUME NEW m \in ToSet(updaters)
        PROVE  m.receiver = "mut" /\ m.body /\ m.header \subseteq {"generic"}
    BY SortedFacts, KindFacts DEF Parses, HeaderValid
  <2>3. ASSUME NEW m \in ToSet(updaters), NEW a \in FieldArgs(m)
        PROVE  a.attrs = {} /\ a.type.storable
    <3>1. FieldAttributes(a) = {} /\ a.type.storable
      BY <2>1 DEF Compiles
    <3> QED BY <3>1 DEF FieldAttributes
  <2>4. ASSUME NEW m \in ToSet(getters)
        PROVE  /\ m.receiver = "shared" /\ m.args = <<>> /\ m.header \subseteq {"generic"}
               /\ m.ret = "signal" /\ ~m.body /\ m.name \in Signals
    <3>1. m.name \in Signals
      BY <2>1 DEF Compiles
    <3> QED BY <3>1, SortedFacts, KindFacts DEF Parses, HeaderValid
  <2> QED BY <2>2, <2>3, <2>4 DEF NothingElseRuns
<1> QED BY Typing, <1>1, PTL

\* A documented method parses, and is of the kind that the documentation calls it.
LEMMA DocumentedFacts ==
  ASSUME Inv, NEW m \in ToSet(block), Documented(m)
  PROVE  /\ Parses(m)
         /\ Kind(m) = "updater" <=> DocumentedUpdater(m)
         /\ Kind(m) = "getter" <=> DocumentedGetter(m)
<1>1. m.args \in Seq(Arg) /\ (~m.named => m.names = {})
  BY MethodFacts
<1>2. CASE DocumentedNew(m)
  <2>1. m.name = "new" /\ m.receiver = "none" /\ m.args = <<>> /\ ~m.named /\ m.header = {}
    BY <1>2 DEF DocumentedNew, Documented, DocumentedUpdater, DocumentedGetter
  <2>2. Kind(m) = "new"
    BY <1>2, KindFacts DEF DocumentedNew
  <2>3. HeaderValid(m) /\ AttributesValid(m)
    BY <2>1, <2>2 DEF HeaderValid, AttributesValid
  <2>4. \A i \in DOMAIN m.args : FALSE
    BY <2>1
  <2> QED
    BY <2>1, <2>2, <2>3, <2>4 DEF Parses, DocumentedUpdater, DocumentedGetter
<1>3. CASE DocumentedUpdater(m)
  <2>1. m.receiver = "mut" /\ ~m.named /\ m.header = {}
    BY <1>3 DEF Documented, DocumentedUpdater
  <2>2. Kind(m) = "updater"
    BY <1>3, KindFacts DEF DocumentedUpdater
  <2>3. m.meta \cap {"inner", "getter"} = {}
    BY <1>3 DEF DocumentedUpdater
  <2>4. HeaderValid(m) /\ AttributesValid(m)
    BY <1>1, <2>1, <2>2, <2>3 DEF HeaderValid, AttributesValid
  <2>5. \A i \in DOMAIN m.args : m.args[i].pattern # "other"
    BY <1>3 DEF DocumentedUpdater
  <2> QED BY <1>3, <2>1, <2>2, <2>4, <2>5 DEF Parses, DocumentedGetter
<1>4. CASE DocumentedGetter(m)
  <2>1. m.receiver = "shared" /\ ~m.named /\ m.header = {} /\ m.args = <<>>
    BY <1>4 DEF Documented, DocumentedGetter
  <2>2. Kind(m) = "getter"
    BY <1>4, KindFacts DEF DocumentedGetter
  <2>3. m.meta \cap {"inner", "updater"} = {}
    BY <1>4 DEF DocumentedGetter
  <2>4. HeaderValid(m) /\ AttributesValid(m)
    BY <1>1, <2>1, <2>2, <2>3 DEF HeaderValid, AttributesValid
  <2>5. \A i \in DOMAIN m.args : FALSE
    BY <2>1
  <2> QED BY <1>4, <2>1, <2>2, <2>4, <2>5 DEF Parses, DocumentedUpdater
<1> QED BY <1>2, <1>3, <1>4 DEF Documented

\* Every method of a documented shape is taken, and for what the documentation
\* calls it; the updaters and the getters stay in the order of the block.
THEOREM DocumentedShapesAreTaken == Spec => []ShapesAreRecognised
<1>1. Inv => ShapesAreRecognised
  <2> SUFFICES ASSUME Inv PROVE ShapesAreRecognised
    OBVIOUS
  <2>1. DOMAIN block = 1 .. Len(block) /\ Len(block) \in Nat /\ first \in Nat
    BY DEF Inv, TypeOK
  <2>2. ASSUME first < Len(block), Documented(block[first + 1])
        PROVE  Parses(block[first + 1])
    <3>1. block[first + 1] \in ToSet(block)
      BY <2>1, <2>2 DEF ToSet
    <3> QED BY <2>2, <3>1, DocumentedFacts
  <2>3. ASSUME Parsed, \A m \in ToSet(block) : Documented(m)
        PROVE  /\ updaters = Subsequence(block,
                               {i \in DOMAIN block : DocumentedUpdater(block[i])})
               /\ getters = Subsequence(block,
                              {i \in DOMAIN block : DocumentedGetter(block[i])})
    <3>1. ASSUME NEW i \in DOMAIN block
          PROVE  /\ Kind(block[i]) = "updater" <=> DocumentedUpdater(block[i])
                 /\ Kind(block[i]) = "getter" <=> DocumentedGetter(block[i])
      <4>1. block[i] \in ToSet(block)
        BY DEF ToSet
      <4> QED BY <2>3, <4>1, DocumentedFacts
    <3>2. 1 .. second = DOMAIN block
      BY <2>1, <2>3 DEF Parsed
    <3>3. /\ Positions("updater") = {i \in DOMAIN block : DocumentedUpdater(block[i])}
          /\ Positions("getter") = {i \in DOMAIN block : DocumentedGetter(block[i])}
      BY <3>1, <3>2 DEF Positions
    <3> QED BY <3>3 DEF Inv, PassesAreTrue, OfKind
  <2> QED BY <2>2, <2>3 DEF ShapesAreRecognised
<1> QED BY Typing, <1>1, PTL

-----------------------------------------------------------------------------
(***************************************************************************)
(* Arguments: what becomes of them in a message and in its handler.        *)
(***************************************************************************)
LEMMA LastOfSome ==
  ASSUME NEW n \in Nat, NEW I \in SUBSET (1 .. n), I # {}
  PROVE  Max(I) \in I /\ \A i \in I : i <= Max(I)
<1>1. I \in SUBSET Nat /\ IsFiniteSet(I)
  <2>1. 1 \in Int /\ n \in Int /\ I \in SUBSET Nat
    OBVIOUS
  <2> QED BY <2>1, FS_Interval, FS_Subset
<1>2. Cardinality(I) \in Nat /\ Cardinality(I) # 0
  BY <1>1, FS_CardinalityType, FS_EmptySet
<1>3. PICK i \in I : Rank(i, I) = Cardinality(I)
  BY <1>1, <1>2, RankFacts
<1>4. UpTo(i, I) = I
  BY <1>1, <1>3, FS_Subset DEF Rank, UpTo
<1>5. i \in Nat /\ \A j \in I : j \in Nat /\ i >= j
  BY <1>1, <1>4 DEF UpTo
<1>6. Max(I) \in I /\ \A j \in I : Max(I) >= j
  BY <1>5 DEF Max
<1>7. Max(I) \in Nat
  BY <1>1, <1>6
<1> QED BY <1>5, <1>6, <1>7

\* The fields of a method are the names of its arguments that are no context.
LEMMA FieldFacts ==
  ASSUME NEW m, m.args \in Seq(Arg)
  PROVE  /\ Fields(m) \in Seq(STRING)
         /\ \A i \in DOMAIN m.args \ Contexts(m) :
              \E k \in 1 .. Len(Fields(m)) : Fields(m)[k] = m.args[i].name
         /\ \A k \in 1 .. Len(Fields(m)) :
              \E i \in DOMAIN m.args \ Contexts(m) : Fields(m)[k] = m.args[i].name
         /\ Distinct(Names(m.args)) => Distinct(Fields(m))
<1> DEFINE s == Names(m.args)
           I == DOMAIN m.args \ Contexts(m)
<1>1. /\ s \in Seq(STRING) /\ DOMAIN m.args = DOMAIN s /\ DOMAIN s = 1 .. Len(s)
      /\ I \in SUBSET (1 .. Len(s))
      /\ \A i \in DOMAIN s : s[i] = m.args[i].name
  <2>1. DOMAIN m.args = 1 .. Len(m.args) /\ Len(m.args) \in Nat
    OBVIOUS
  <2>2. ASSUME NEW i \in 1 .. Len(m.args) PROVE m.args[i].name \in STRING
    <3>1. m.args[i] \in Arg
      OBVIOUS
    <3> QED BY <3>1 DEF Arg
  <2>3. s = [i \in 1 .. Len(m.args) |-> m.args[i].name]
    BY <2>1 DEF Names
  <2> HIDE DEF s
  <2>4. s \in Seq(STRING) /\ Len(s) = Len(m.args)
    BY <2>1, <2>2, <2>3
  <2> QED BY <2>1, <2>3, <2>4
<1>2. Fields(m) = Subsequence(s, I)
  BY DEF Fields
<1> HIDE DEF s, I
<1>3. /\ Fields(m) \in Seq(STRING) /\ Len(Fields(m)) = Cardinality(I)
      /\ DOMAIN Fields(m) = 1 .. Cardinality(I)
  BY <1>1, <1>2, PositionsOf
<1>f. PICK f : Enumerates(f, s, I)
  BY <1>1, PositionsOf
<1>4. /\ f \in [1 .. Cardinality(I) -> I]
      /\ \A k \in 1 .. Cardinality(I) : Fields(m)[k] = s[f[k]]
      /\ \A i \in I : \E k \in 1 .. Cardinality(I) : f[k] = i
      /\ \A k, l \in 1 .. Cardinality(I) : f[k] = f[l] => k = l
  BY <1>2, <1>f DEF Enumerates
<1>5. ASSUME NEW i \in I PROVE \E k \in 1 .. Len(Fields(m)) : Fields(m)[k] = m.args[i].name
  <2>1. PICK k \in 1 .. Cardinality(I) : f[k] = i
    BY <1>4
  <2> QED BY <1>1, <1>3, <1>4, <2>1
<1>6. ASSUME NEW k \in 1 .. Len(Fields(m)) PROVE \E i \in I : Fields(m)[k] = m.args[i].name
  <2>1. f[k] \in I /\ Fields(m)[k] = s[f[k]]
    BY <1>3, <1>4
  <2> QED BY <1>1, <2>1
<1>7. ASSUME Distinct(s) PROVE Distinct(Fields(m))
  <2>1. ASSUME NEW k \in 1 .. Cardinality(I), NEW l \in 1 .. Cardinality(I),
               Fields(m)[k] = Fields(m)[l]
        PROVE  k = l
    <3>1. f[k] \in DOMAIN s /\ f[l] \in DOMAIN s /\ s[f[k]] = s[f[l]]
      BY <1>1, <1>4, <2>1
    <3>2. f[k] = f[l]
      BY <1>7, <3>1 DEF Distinct, IsInjective
    <3> QED BY <1>4, <3>2
  <2> QED BY <1>3, <2>1 DEF Distinct, IsInjective
<1> QED BY <1>3, <1>5, <1>6, <1>7 DEF s, I

\* The name of the context is that of the last argument that is one.
LEMMA ContextFacts ==
  ASSUME NEW m, m.args \in Seq(Arg)
  PROVE  /\ Contexts(m) = {} => ContextName(m) = "_"
         /\ Contexts(m) # {} =>
              \E i \in Contexts(m) : /\ ContextName(m) = m.args[i].name
                                     /\ \A j \in Contexts(m) : j <= i
<1>1. CASE Contexts(m) = {}
  BY <1>1 DEF ContextName
<1>2. CASE Contexts(m) # {}
  <2>1. Contexts(m) \in SUBSET (1 .. Len(m.args)) /\ Len(m.args) \in Nat
    BY DEF Contexts
  <2>2. /\ Max(Contexts(m)) \in Contexts(m)
        /\ \A j \in Contexts(m) : j <= Max(Contexts(m))
    BY <1>2, <2>1, LastOfSome
  <2>3. ContextName(m) = m.args[Max(Contexts(m))].name
    BY <1>2 DEF ContextName
  <2> QED BY <1>2, <2>2, <2>3
<1> QED BY <1>1, <1>2

\* A handler's names and the values it is given go in step.
LEMMA FormalFacts ==
  ASSUME NEW m, m.args \in Seq(Arg), NEW arm
  PROVE  LET n == Len(Fields(m)) IN
           /\ n \in Nat
           /\ DOMAIN Formals(m) = 1 .. n + 1 /\ DOMAIN Actuals(m, arm) = 1 .. n + 1
           /\ \A k \in 1 .. n : /\ Formals(m)[k] = Fields(m)[k]
                                /\ Actuals(m, arm)[k] = arm[Fields(m)[k]]
           /\ Formals(m)[n + 1] = ContextName(m)
           /\ Actuals(m, arm)[n + 1] = "context"
<1> DEFINE n == Len(Fields(m))
           given == [i \in DOMAIN Fields(m) |-> arm[Fields(m)[i]]]
           S == {arm[Fields(m)[i]] : i \in DOMAIN Fields(m)} \cup {"context"}
           T == STRING \cup {ContextName(m)}
<1>1. Fields(m) \in Seq(STRING) /\ n \in Nat /\ DOMAIN Fields(m) = 1 .. n
  <2>1. Fields(m) \in Seq(STRING)
    BY FieldFacts
  <2> QED BY <2>1
<1>2. given \in Seq(S) /\ Len(given) = n /\ <<"context">> \in Seq(S)
  BY <1>1
<1>3. Fields(m) \in Seq(T) /\ <<ContextName(m)>> \in Seq(T)
  BY <1>1
<1>4. /\ DOMAIN Formals(m) = 1 .. n + 1
      /\ \A k \in 1 .. n : Formals(m)[k] = Fields(m)[k]
      /\ Formals(m)[n + 1] = ContextName(m)
  BY <1>1, <1>3 DEF Formals
<1>5. /\ DOMAIN Actuals(m, arm) = 1 .. n + 1
      /\ \A k \in 1 .. n : Actuals(m, arm)[k] = given[k]
      /\ Actuals(m, arm)[n + 1] = "context"
  <2>1. Actuals(m, arm) = given \o <<"context">>
    BY DEF Actuals
  <2> HIDE DEF given, S
  <2> QED BY <1>1, <1>2, <2>1
<1> QED BY <1>1, <1>4, <1>5

\* What rustc's rule against two methods of a name says of a list of methods.
LEMMA NewAndNames ==
  ASSUME NEW u \in Seq(Methods)
  PROVE  Distinct(<<"new">> \o Names(u)) <=>
           /\ \A i, j \in DOMAIN u : u[i].name = u[j].name => i = j
           /\ \A i \in DOMAIN u : u[i].name # "new"
<1> DEFINE n == Len(u)
           T == {u[i].name : i \in DOMAIN u} \cup {"new"}
           all == <<"new">> \o Names(u)
<1>1. n \in Nat /\ DOMAIN u = 1 .. n
  OBVIOUS
<1>2. Names(u) \in Seq(T) /\ Len(Names(u)) = n /\ <<"new">> \in Seq(T)
  BY <1>1 DEF Names
<1>3. \A i \in 1 .. n : Names(u)[i] = u[i].name
  BY <1>1 DEF Names
<1> HIDE DEF T
<1>4. /\ DOMAIN all = 1 .. n + 1 /\ all[1] = "new"
      /\ \A i \in 1 .. n : all[i + 1] = u[i].name
  BY <1>1, <1>2, <1>3
<1> HIDE DEF n, all
<1>5. ASSUME Distinct(all)
      PROVE  /\ \A i, j \in DOMAIN u : u[i].name = u[j].name => i = j
             /\ \A i \in DOMAIN u : u[i].name # "new"
  <2>1. \A k, l \in 1 .. n + 1 : all[k] = all[l] => k = l
    BY <1>4, <1>5 DEF Distinct, IsInjective
  <2>2. ASSUME NEW i \in DOMAIN u, NEW j \in DOMAIN u, u[i].name = u[j].name
        PROVE  i = j
    <3>1. i + 1 \in 1 .. n + 1 /\ j + 1 \in 1 .. n + 1 /\ all[i + 1] = all[j + 1]
      BY <1>1, <1>4, <2>2
    <3>2. i + 1 = j + 1
      BY <2>1, <3>1
    <3> QED BY <1>1, <3>2
  <2>3. ASSUME NEW i \in DOMAIN u PROVE u[i].name # "new"
    <3>1. i + 1 \in 1 .. n + 1 /\ 1 \in 1 .. n + 1 /\ i + 1 # 1
      BY <1>1
    <3> QED BY <1>1, <1>4, <2>1, <3>1
  <2> QED BY <2>2, <2>3
<1>6. ASSUME \A i, j \in DOMAIN u : u[i].name = u[j].name => i = j,
             \A i \in DOMAIN u : u[i].name # "new",
             NEW k \in 1 .. n + 1, NEW l \in 1 .. n + 1, all[k] = all[l]
      PROVE  k = l
  <2>1. ASSUME NEW h \in 1 .. n + 1
        PROVE  h = 1 \/ (h - 1 \in DOMAIN u /\ all[h] = u[h - 1].name)
    <3>1. CASE h # 1
      <4>1. h - 1 \in 1 .. n /\ (h - 1) + 1 = h
        BY <1>1, <3>1
      <4> QED BY <1>1, <1>4, <4>1
    <3> QED BY <3>1
  <2>2. CASE k = 1 \/ l = 1
    BY <1>4, <1>6, <2>1, <2>2
  <2>3. CASE k # 1 /\ l # 1
    <3>1. k - 1 = l - 1
      BY <1>6, <2>1, <2>3
    <3> QED BY <1>1, <3>1
  <2> QED BY <2>2, <2>3
<1>7. Distinct(all) <=> \A k, l \in 1 .. n + 1 : all[k] = all[l] => k = l
  BY <1>4 DEF Distinct, IsInjective
<1> QED BY <1>5, <1>6, <1>7 DEF all

\* No two arguments of a method share a name, as in a function of Rust.
ArgumentsAreNamed == \A m \in Methods : Distinct(Names(m.args))

\* A call of an updater runs the block of the method of that name, with every
\* argument that the block uses bound to the value it was called with and the
\* context, wherever it stands among the arguments, to the context.
THEOREM CallsArrive ==
  ASSUME ArgumentsAreNamed
  PROVE  Spec => []CallsReachTheirBlocks
<1>1. Inv => CallsReachTheirBlocks
  <2> SUFFICES ASSUME Inv, stage = "handled" PROVE CallsReachTheirBlocks
    BY DEF CallsReachTheirBlocks
  <2>1. Compiles /\ second = Len(block)
    BY DEF Inv, ExpansionIsTrue, Built
  <2>2. /\ updaters \in Seq(Methods) /\ DOMAIN updaters = 1 .. Len(updaters)
        /\ \A m \in ToSet(block) :
             Parses(m) /\ (Kind(m) = "updater" => m \in ToSet(updaters))
    BY <2>1, SortedFacts
  <2>3. PICK i \in DOMAIN updaters : IsCallOf(i)
    BY DEF Inv, CallIsTrue
  <2>4. PICK j \in DOMAIN updaters :
          /\ MessageName(updaters[j]) = call.variant
          /\ bound = [method |-> updaters[j].name,
                      names |-> Formals(updaters[j]),
                      values |-> Actuals(updaters[j], call.fields)]
    BY DEF Inv, CallIsTrue
  <2>5. i = j
    <3>1. /\ Messages(updaters)[i] = Messages(updaters)[j]
          /\ i \in DOMAIN Messages(updaters) /\ j \in DOMAIN Messages(updaters)
      BY <2>3, <2>4 DEF Messages, IsCallOf
    <3> QED BY <2>1, <3>1 DEF Compiles, Distinct, IsInjective
  <2>6. bound.method = call.method
    BY <2>3, <2>4, <2>5 DEF IsCallOf
  <2>7. ASSUME NEW m \in ToSet(block), m.name = call.method, m.receiver = "mut",
               NEW a \in ToSet(m.args), a.used
        PROVE  \E k \in DOMAIN bound.names :
                 /\ bound.names[k] = a.name
                 /\ bound.values[k] = IF IsUpdateContext(a.type) THEN "context"
                                      ELSE call.fields[a.name]
    <3>1. m \in Methods /\ m.args \in Seq(Arg) /\ Distinct(Names(m.args))
      BY <2>7, MethodFacts DEF ArgumentsAreNamed
    <3>2. m \in ToSet(updaters)
      BY <2>2, <2>7, KindFacts DEF Parses
    <3>3. m = updaters[i]
      <4>1. PICK h \in DOMAIN updaters : m = updaters[h]
        BY <3>2 DEF ToSet
      <4>2. updaters[h].name = updaters[i].name
        BY <2>3, <2>7, <4>1 DEF IsCallOf
      <4>3. h = i
        BY <2>1, <2>2, <4>2, NewAndNames DEF Compiles
      <4> QED BY <4>1, <4>3
    <3>4. bound.names = Formals(m) /\ bound.values = Actuals(m, call.fields)
      BY <2>4, <2>5, <3>3
    <3> DEFINE n == Len(Fields(m))
    <3>5. /\ n \in Nat /\ DOMAIN Formals(m) = 1 .. n + 1
          /\ \A k \in 1 .. n : /\ Formals(m)[k] = Fields(m)[k]
                               /\ Actuals(m, call.fields)[k] = call.fields[Fields(m)[k]]
          /\ Formals(m)[n + 1] = ContextName(m)
          /\ Actuals(m, call.fields)[n + 1] = "context"
      BY <3>1, FormalFacts
    <3> HIDE DEF n
    <3>6. PICK g \in DOMAIN m.args : a = m.args[g]
      BY <2>7 DEF ToSet
    <3>7. CASE ~IsUpdateContext(a.type)
      <4>1. g \in DOMAIN m.args \ Contexts(m)
        BY <3>6, <3>7 DEF Contexts
      <4>2. PICK k \in 1 .. n : Fields(m)[k] = a.name
        BY <3>1, <3>6, <4>1, FieldFacts DEF n
      <4>3. k \in DOMAIN Formals(m)
        BY <3>5
      <4> QED BY <3>4, <3>5, <3>7, <4>2, <4>3
    <3>8. CASE IsUpdateContext(a.type)
      <4>1. a.name \in ToSet(Formals(m))
        BY <2>1, <2>7, <3>2 DEF Compiles
      <4>2. PICK k \in 1 .. n + 1 : Formals(m)[k] = a.name
        BY <3>5, <4>1 DEF ToSet
      <4>3. k \notin 1 .. n
        <5> SUFFICES ASSUME k \in 1 .. n PROVE FALSE
          OBVIOUS
        <5>1. PICK h \in DOMAIN m.args \ Contexts(m) : Fields(m)[k] = m.args[h].name
          BY <3>1, FieldFacts DEF n
        <5>2. m.args[h].name = m.args[g].name
          BY <3>5, <3>6, <4>2, <5>1
        <5>3. h = g
          BY <3>1, <5>2 DEF Distinct, IsInjective, Names
        <5> QED BY <3>6, <3>8, <5>1, <5>3 DEF Contexts
      <4>4. k = n + 1
        BY <3>5, <4>3
      <4> QED BY <3>4, <3>5, <3>8, <4>2, <4>4
    <3> QED BY <3>7, <3>8
  <2> QED BY <2>6, <2>7 DEF CallsReachTheirBlocks
<1> QED BY Typing, <1>1, PTL

-----------------------------------------------------------------------------
(***************************************************************************)
(* When the expansion of a documented block compiles.                      *)
(***************************************************************************)

\* No argument but the context is called `ctx' or, as no identifier is, `_', and none
\* has attributes; only the constructor is called `new'.
FieldsAreFree(m) ==
  \A a \in ToSet(m.args) : ~IsUpdateContext(a.type) =>
    a.name # "ctx" /\ a.name # "_" /\ a.attrs = {}

MethodsAreFree ==
  \A m \in Methods :
    /\ FieldsAreFree(m)
    /\ m.receiver \in {"mut", "shared"} => m.name # "new"

\* A list keeps distinct what is distinct in the block.
LEMMA ListsKeepDistinct ==
  ASSUME Inv, NEW kind, Distinct(Names(block)), Distinct(Messages(block))
  PROVE  /\ Distinct(Messages(OfKind(kind)))
         /\ \A k, l \in DOMAIN OfKind(kind) :
              OfKind(kind)[k].name = OfKind(kind)[l].name => k = l
<1> DEFINE I == Positions(kind)
           list == OfKind(kind)
<1>1. /\ block \in Seq(Methods) /\ DOMAIN block = 1 .. Len(block)
      /\ I \in SUBSET (1 .. Len(block)) /\ I \in SUBSET DOMAIN block
  BY DEF Inv, TypeOK, Positions
<1>2. list = Subsequence(block, I)
  BY DEF OfKind
<1> HIDE DEF I, list
<1>3. list \in Seq(Methods) /\ DOMAIN list = 1 .. Cardinality(I)
  BY <1>1, <1>2, PositionsOf
<1>f. PICK f : Enumerates(f, block, I)
  BY <1>1, PositionsOf
<1>4. /\ f \in [1 .. Cardinality(I) -> I]
      /\ \A k \in 1 .. Cardinality(I) : list[k] = block[f[k]]
      /\ \A i \in I : \E k \in 1 .. Cardinality(I) : f[k] = i
      /\ \A k, l \in 1 .. Cardinality(I) : f[k] = f[l] => k = l
  BY <1>2, <1>f DEF Enumerates
<1>5. ASSUME NEW k \in DOMAIN list, NEW l \in DOMAIN list, list[k].name = list[l].name
      PROVE  k = l
  <2>1. f[k] \in DOMAIN block /\ f[l] \in DOMAIN block /\ block[f[k]].name = block[f[l]].name
    BY <1>1, <1>3, <1>4, <1>5
  <2>2. f[k] = f[l]
    BY <2>1 DEF Distinct, IsInjective, Names
  <2> QED BY <1>3, <1>4, <2>2
<1>6. ASSUME NEW k \in DOMAIN list, NEW l \in DOMAIN list,
             MessageName(list[k]) = MessageName(list[l])
      PROVE  k = l
  <2>1. /\ f[k] \in DOMAIN block /\ f[l] \in DOMAIN block
        /\ MessageName(block[f[k]]) = MessageName(block[f[l]])
    BY <1>1, <1>3, <1>4, <1>6
  <2>2. f[k] = f[l]
    BY <2>1 DEF Distinct, IsInjective, Messages
  <2> QED BY <1>3, <1>4, <2>2
<1>7. Distinct(Messages(list))
  BY <1>6 DEF Distinct, IsInjective, Messages
<1> QED BY <1>5, <1>7 DEF list

\* A documented updater's handler has one formal for every argument and no two of
\* the same name.
LEMMA DocumentedFormals ==
  ASSUME NEW m, m.args \in Seq(Arg), DocumentedUpdater(m), Distinct(Names(m.args)),
         FieldsAreFree(m)
  PROVE  /\ Distinct(Formals(m))
         /\ \A a \in ToSet(m.args) : a.name \in ToSet(Formals(m))
<1> DEFINE n == Len(Fields(m))
<1>1. /\ n \in Nat /\ DOMAIN Formals(m) = 1 .. n + 1
      /\ \A k \in 1 .. n : Formals(m)[k] = Fields(m)[k]
      /\ Formals(m)[n + 1] = ContextName(m)
  BY FormalFacts
<1>2. /\ \A i \in DOMAIN m.args \ Contexts(m) :
           \E k \in 1 .. n : Fields(m)[k] = m.args[i].name
      /\ \A k \in 1 .. n :
           \E i \in DOMAIN m.args \ Contexts(m) : Fields(m)[k] = m.args[i].name
      /\ Distinct(Fields(m)) /\ Fields(m) \in Seq(STRING)
  BY FieldFacts, Zenon
<1>0. DOMAIN Fields(m) = 1 .. n
  BY <1>2
<1> HIDE DEF n
<1>n. n \in Nat
  BY <1>1
<1>d. n + 1 \in 1 .. n + 1 /\ \A h \in 1 .. n + 1 : h \in 1 .. n \/ h = n + 1
  BY <1>n
<1>e. 1 .. n \subseteq DOMAIN Formals(m) /\ n + 1 \in DOMAIN Formals(m)
  BY <1>1, <1>n, <1>d
<1>3. \A i, j \in DOMAIN m.args : m.args[i].name = m.args[j].name => i = j
  BY DEF Distinct, IsInjective, Names
<1>4. ASSUME NEW k \in 1 .. n PROVE Fields(m)[k] # ContextName(m)
  <2>1. PICK i \in DOMAIN m.args \ Contexts(m) : Fields(m)[k] = m.args[i].name
    BY <1>2
  <2>2. m.args[i] \in ToSet(m.args) /\ ~IsUpdateContext(m.args[i].type)
    BY DEF ToSet, Contexts
  <2>3. CASE Contexts(m) = {}
    BY <2>1, <2>2, <2>3, ContextFacts DEF FieldsAreFree
  <2>4. CASE Contexts(m) # {}
    <3>1. PICK j \in Contexts(m) : ContextName(m) = m.args[j].name
      BY <2>4, ContextFacts
    <3>2. j \in DOMAIN m.args /\ i # j
      BY DEF Contexts
    <3> QED BY <1>3, <2>1, <3>1, <3>2
  <2> QED BY <2>3, <2>4
<1>5. ASSUME NEW k \in 1 .. n + 1, NEW l \in 1 .. n + 1, Formals(m)[k] = Formals(m)[l]
      PROVE  k = l
  <2>1. CASE k \in 1 .. n /\ l \in 1 .. n
    BY <1>0, <1>1, <1>2, <1>5, <2>1 DEF Distinct, IsInjective
  <2>2. CASE k = n + 1 \/ l = n + 1
    BY <1>1, <1>4, <1>5, <1>d, <2>2
  <2> QED BY <1>d, <2>1, <2>2
<1>6. ASSUME NEW a \in ToSet(m.args) PROVE a.name \in ToSet(Formals(m))
  <2>1. PICK i \in DOMAIN m.args : a = m.args[i]
    BY DEF ToSet
  <2>2. CASE i \in Contexts(m)
    <3>1. PICK j \in Contexts(m) : ContextName(m) = m.args[j].name
      BY <2>2, ContextFacts
    <3>2. i = Len(m.args) /\ j = Len(m.args)
      BY <2>2 DEF DocumentedUpdater, Contexts
    <3>3. Formals(m)[n + 1] = a.name /\ n + 1 \in DOMAIN Formals(m)
      BY <1>1, <1>e, <2>1, <3>1, <3>2
    <3> QED BY <3>3 DEF ToSet
  <2>3. CASE i \notin Contexts(m)
    <3>1. PICK k \in 1 .. n : Fields(m)[k] = a.name
      BY <1>2, <2>1, <2>3
    <3>2. Formals(m)[k] = a.name /\ k \in DOMAIN Formals(m)
      BY <1>1, <1>e, <3>1
    <3> QED BY <3>2 DEF ToSet
  <2> QED BY <2>2, <2>3
<1> QED BY <1>1, <1>5, <1>6 DEF Distinct, IsInjective

\* A block of documented methods with distinct names, each as sound as Rust asks,
\* expands to code that compiles, as long as it leaves alone the names that the
\* expansion uses and gives no attributes to the fields of messages.  With either
\* condition dropped this is false.
THEOREM DocumentedBlocksCompile ==
  ASSUME MethodsAreFree
  PROVE  Spec => []DocumentedCompiles
<1>1. Inv => DocumentedCompiles
  <2> SUFFICES ASSUME Inv, stage = "broken",
                      \A m \in ToSet(block) : Documented(m) /\ Sound(m),
                      Distinct(Names(block)), Distinct(Messages(block))
               PROVE  Compiles
    BY DEF Inv, ExpansionIsTrue, DocumentedCompiles
  <2>1. updaters = OfKind("updater") /\ getters = OfKind("getter")
    BY DEF Inv, PassesAreTrue
  <2>2. /\ updaters \in Seq(Methods) /\ getters \in Seq(Methods)
        /\ \A m \in ToSet(updaters) : m \in ToSet(block) /\ Kind(m) = "updater"
        /\ \A m \in ToSet(getters) : m \in ToSet(block) /\ Kind(m) = "getter"
    BY SortedFacts
  <2>3. \A m \in ToSet(updaters) \cup ToSet(getters) :
          m.fits /\ m.name # "new" /\ m.receiver \in {"mut", "shared"}
    BY <2>2, KindFacts, MethodFacts DEF Sound, MethodsAreFree
  <2>4. /\ Distinct(Messages(updaters)) /\ Distinct(Messages(getters))
        /\ \A k, l \in DOMAIN updaters : updaters[k].name = updaters[l].name => k = l
        /\ \A k, l \in DOMAIN getters : getters[k].name = getters[l].name => k = l
    BY <2>1, ListsKeepDistinct
  <2>5. /\ \A k \in DOMAIN updaters : updaters[k].name # "new"
        /\ \A k \in DOMAIN getters : getters[k].name # "new"
    BY <2>3 DEF ToSet
  <2>6. Distinct(<<"new">> \o Names(updaters)) /\ Distinct(<<"new">> \o Names(getters))
    BY <2>2, <2>4, <2>5, NewAndNames
  <2>7. ASSUME NEW m \in ToSet(updaters)
        PROVE  /\ Distinct(Formals(m))
               /\ "ctx" \notin ToSet(Fields(m))
               /\ \A a \in FieldArgs(m) : a.type.storable /\ FieldAttributes(a) = {}
               /\ \A a \in ToSet(m.args) :
                    a.used => a.pattern = "plain" /\ a.name \in ToSet(Formals(m))
    <3>1. /\ m \in ToSet(block) /\ m \in Methods /\ m.args \in Seq(Arg)
          /\ DocumentedUpdater(m) /\ Sound(m) /\ Distinct(Names(m.args))
      BY <2>2, DocumentedFacts, MethodFacts DEF Sound
    <3>2. FieldsAreFree(m)
      BY <3>1 DEF MethodsAreFree
    <3>3. Distinct(Formals(m)) /\ \A a \in ToSet(m.args) : a.name \in ToSet(Formals(m))
      BY <3>1, <3>2, DocumentedFormals
    <3>4. \A a \in ToSet(m.args) : a.pattern = "plain"
      BY <3>1 DEF DocumentedUpdater, ToSet
    <3>5. "ctx" \notin ToSet(Fields(m))
      <4> SUFFICES ASSUME "ctx" \in ToSet(Fields(m)) PROVE FALSE
        OBVIOUS
      <4>1. PICK k \in 1 .. Len(Fields(m)) : Fields(m)[k] = "ctx"
        <5>1. Fields(m) \in Seq(STRING)
          BY <3>1, FieldFacts
        <5> QED BY <5>1 DEF ToSet
      <4>2. PICK i \in DOMAIN m.args \ Contexts(m) : m.args[i].name = "ctx"
        <5>1. \A k1 \in 1 .. Len(Fields(m)) : \E i \in DOMAIN m.args \ Contexts(m) :
                Fields(m)[k1] = m.args[i].name
          BY <3>1, FieldFacts, Zenon
        <5> QED BY <4>1, <5>1
      <4> QED BY <3>2, <4>2 DEF FieldsAreFree, ToSet, Contexts
    <3>6. ASSUME NEW a \in FieldArgs(m)
          PROVE  a.type.storable /\ FieldAttributes(a) = {}
      <4>1. a.type.storable
        BY <3>1 DEF Sound
      <4>2. a \in ToSet(m.args) /\ ~IsUpdateContext(a.type)
        BY DEF FieldArgs, Contexts, ToSet
      <4>3. a.attrs = {}
        BY <3>2, <4>2 DEF FieldsAreFree
      <4> QED BY <4>1, <4>3 DEF FieldAttributes
    <3> QED BY <3>3, <3>4, <3>5, <3>6
  <2>8. ASSUME NEW m \in ToSet(getters)
        PROVE  m.name \in Signals /\ MessageName(m) \notin Scope
    <3>1. m \in ToSet(block) /\ DocumentedGetter(m) /\ Sound(m)
      BY <2>2, DocumentedFacts
    <3> QED BY <3>1 DEF DocumentedGetter, Sound
  <2> QED BY <2>3, <2>4, <2>6, <2>7, <2>8 DEF Compiles
<1> QED BY Typing, <1>1, PTL
=============================================================================
