------------------------- MODULE AliasRegistryProofs -------------------------
(***************************************************************************)
(* Proofs about AliasRegistry: the registry loses sight of no alias that   *)
(* lasts, keeps its bounds, and takes an alias before its time only for a  *)
(* newer one, for any set of aliases, any conversations and any bounds.    *)
(*                                                                         *)
(* The bounds are met only when a registration has ended, so the invariant *)
(* says what they will be then: the aliases that last and the new one,     *)
(* without the victims still to come, fit in (BoundsAhead).  That this is  *)
(* true when a registration begins rests on NoAccountingLie, since the     *)
(* victims are found among the registered aliases; NoAccountingLie rests   *)
(* on what is never removed from the registry: an alias that lasts is not  *)
(* the one being registered, and an alias on notice is not live.           *)
(***************************************************************************)
EXTENDS AliasRegistry, WellFoundedInduction, FiniteSetTheorems, SequenceTheorems, TLAPS

\* A nonempty set of natural numbers has a least element.
LEMMA LeastNat ==
    ASSUME NEW T \in SUBSET Nat, T # {}
    PROVE  \E m \in T : \A n \in T : m <= n
<1> DEFINE R == {p \in Nat \X Nat : p[1] < p[2]}
<1>1. R = OpToRel(<, Nat)
  BY Zenon DEF OpToRel
<1>2. IsWellFoundedOn(R, Nat)
  BY <1>1, NatLessThanWellFounded, Zenon
<1> HIDE DEF R
<1>3. PICK m \in T : \A n \in T : ~(<<n, m>> \in R)
  BY <1>2, WFMin, Zenon
<1>4. ASSUME NEW n \in T  PROVE m <= n
  <2>1. <<n, m>> \notin R  BY <1>3
  <2>2. n \in Nat /\ m \in Nat  OBVIOUS
  <2> QED  BY <2>1, <2>2, SMT DEF R
<1> QED  BY <1>4

\* A seed that has yet to reach the registry is not in it.
AskingFresh == \A a \in Aliases : seeds[a] = "asking" => a \notin Registered

\* A seed that is being registered is the one the registry works for.
WaitsForRegistry ==
    \A a \in Aliases : seeds[a] = "registering" => op.kind = "register" /\ op.alias = a

\* What the registry does: a sweep's victims have expired, a registration's
\* alias is registered and does not last yet, every victim is registered.
OpShape ==
    /\ op.kind = "none" => op = NoOp
    /\ op.kind = "sweep" => op.alias = NoAlias /\ \A v \in op.victims : left[v] = 0
    /\ op.kind = "register" => op.alias \in Registered \ Lasting
    /\ op.victims \subseteq Registered

\* An alias on notice has lost its row.
NoticesGone == notices \cap live = {}

\* The alias being registered is the newest.
NewestLast ==
    op.kind = "register" => \A i, j \in 1..Len(reg) : i < j => reg[i] # op.alias

\* The members of conversation g.
OfGroup(S, g) == {a \in S : group[a] = g}

\* The bounds, whatever the registry does.
BoundsKept ==
    /\ Cardinality(Lasting) <= MaxTotal
    /\ \A g \in Groups : Cardinality(OfGroup(Lasting, g)) <= MaxGroup

\* What is left when the registration succeeds.
Remaining == (Lasting \cup {op.alias}) \ op.victims

\* The bounds as they will be when the registration succeeds.
BoundsAhead ==
    op.kind = "register" =>
        /\ Cardinality(Remaining) <= MaxTotal
        /\ Cardinality(OfGroup(Remaining, group[op.alias])) <= MaxGroup

\* All but the bounds.
Bookkeeping ==
    /\ TypeOK
    /\ AskingFresh
    /\ WaitsForRegistry
    /\ OpShape
    /\ NoticesGone
    /\ NewestLast
    /\ NoAccountingLie

\* The inductive invariant.
RegistryInv == Bookkeeping /\ BoundsKept /\ BoundsAhead

-----------------------------------------------------------------------------
(* The registry's table.                                                   *)

\* The k-th row is deleted: the rows after it move down by one.
LEMMA WithoutAt ==
    ASSUME NEW S, NEW r \in Seq(S), NEW k \in 1..Len(r),
           \A i, j \in 1..Len(r) : r[i] = r[j] => i = j
    PROVE  LET w == Without(r, r[k])
           IN  /\ w \in Seq(S)
               /\ Len(w) = Len(r) - 1
               /\ \A i \in 1..(k - 1) : w[i] = r[i]
               /\ \A i \in k..(Len(r) - 1) : w[i] = r[i + 1]
<1> DEFINE a == r[k]
           p == CHOOSE i \in 1..Len(r) : r[i] = a
           x == SubSeq(r, 1, k - 1)
           y == SubSeq(r, k + 1, Len(r))
<1>1. p = k
  <2>1. \E i \in 1..Len(r) : r[i] = a  OBVIOUS
  <2>2. p \in 1..Len(r) /\ r[p] = a  BY <2>1
  <2> QED  BY <2>2
<1>2. Without(r, a) = x \o y
  BY <1>1 DEF Without
<1>3. x \in Seq(S) /\ Len(x) = k - 1 /\ \A i \in 1..(k - 1) : x[i] = r[i]
  BY SMT
<1>4. y \in Seq(S) /\ Len(y) = Len(r) - k /\ \A i \in 1..(Len(r) - k) : y[i] = r[k + i]
  BY SMT
<1> HIDE DEF x, y
<1> DEFINE w == x \o y
<1>5. /\ w \in Seq(S)
      /\ Len(w) = Len(x) + Len(y)
      /\ \A i \in 1..(Len(x) + Len(y)) : w[i] = IF i <= Len(x) THEN x[i] ELSE y[i - Len(x)]
  <2>1. x \in Seq(S) /\ y \in Seq(S)  BY <1>3, <1>4
  <2> QED  BY <2>1, ConcatProperties
<1> HIDE DEF w
<1>6. Len(w) = Len(r) - 1
  BY <1>3, <1>4, <1>5
<1>7. ASSUME NEW i \in 1..(k - 1) PROVE w[i] = r[i]
  <2>1. i \in 1..(Len(x) + Len(y)) /\ i <= Len(x)  BY <1>3, <1>4
  <2>2. w[i] = x[i]  BY <2>1, <1>5
  <2> QED  BY <2>2, <1>3
<1>8. ASSUME NEW i \in k..(Len(r) - 1) PROVE w[i] = r[i + 1]
  <2>1. w[i] = y[i - (k - 1)]
    BY <1>3, <1>4, <1>5
  <2> QED  BY <2>1, <1>4
<1>9. Without(r, a) = w
  BY <1>2 DEF w
<1> QED  BY <1>5, <1>6, <1>7, <1>8, <1>9

\* Rows(r) is what the table r holds.
Rows(r) == {r[i] : i \in 1..Len(r)}

\* Deleting a row: the others stay, each once and in their order.
LEMMA WithoutRow ==
    ASSUME NEW S, NEW r \in Seq(S), NEW a,
           \A i, j \in 1..Len(r) : r[i] = r[j] => i = j
    PROVE  LET w == Without(r, a)
           IN  /\ w \in Seq(S)
               /\ \A i, j \in 1..Len(w) : w[i] = w[j] => i = j
               /\ Rows(w) = Rows(r) \ {a}
               /\ \A i, j \in 1..Len(w) : i < j =>
                    \E k, l \in 1..Len(r) : k < l /\ w[i] = r[k] /\ w[j] = r[l]
<1> DEFINE w == Without(r, a)
<1>1. CASE \A i \in 1..Len(r) : r[i] # a
  <2>1. w = r  BY <1>1 DEF Without
  <2>2. a \notin Rows(r)  BY <1>1 DEF Rows
  <2> HIDE DEF w
  <2>3. \A i, j \in 1..Len(w) : i < j =>
           \E k, l \in 1..Len(r) : k < l /\ w[i] = r[k] /\ w[j] = r[l]
    BY <2>1
  <2>4. Rows(w) = Rows(r) \ {a}
    BY <2>1, <2>2
  <2>5. w \in Seq(S) /\ \A i, j \in 1..Len(w) : w[i] = w[j] => i = j
    BY <2>1
  <2> QED  BY <2>3, <2>4, <2>5 DEF w
<1>2. CASE \E i \in 1..Len(r) : r[i] = a
  <2>1. PICK q \in 1..Len(r) : r[q] = a  BY <1>2
  <2>2. /\ w \in Seq(S)
        /\ Len(w) = Len(r) - 1
        /\ \A i \in 1..(q - 1) : w[i] = r[i]
        /\ \A i \in q..(Len(r) - 1) : w[i] = r[i + 1]
    BY <2>1, WithoutAt
  <2> HIDE DEF w
  <2> DEFINE at(i) == IF i < q THEN i ELSE i + 1
  <2>3. ASSUME NEW i \in 1..Len(w)
        PROVE  at(i) \in 1..Len(r) /\ at(i) # q /\ w[i] = r[at(i)]
    <3>1. CASE i < q
      BY <3>1, <2>2
    <3>2. CASE ~(i < q)
      BY <3>2, <2>2
    <3> QED  BY <3>1, <3>2
  <2>4. ASSUME NEW i \in 1..Len(w), NEW j \in 1..Len(w), i < j
        PROVE  at(i) < at(j)
    BY <2>4
  <2>5. \A i, j \in 1..Len(w) : i < j =>
          \E k, l \in 1..Len(r) : k < l /\ w[i] = r[k] /\ w[j] = r[l]
    BY <2>3, <2>4
  <2>6. \A i, j \in 1..Len(w) : w[i] = w[j] => i = j
    BY <2>3, <2>4
  <2>7. \A i \in 1..Len(w) : w[i] \in Rows(r) /\ w[i] # a
    BY <2>1, <2>3 DEF Rows
  <2>8. ASSUME NEW k \in 1..Len(r), r[k] # a
        PROVE  \E i \in 1..Len(w) : w[i] = r[k]
    <3>1. CASE k < q
      BY <3>1, <2>2
    <3>2. CASE ~(k < q)
      <4>1. k > q  BY <3>2, <2>8, <2>1
      <4>2. k - 1 \in q..(Len(r) - 1) /\ (k - 1) + 1 = k  BY <4>1
      <4>3. w[k - 1] = r[k]  BY <4>2, <2>2
      <4> QED  BY <4>2, <4>3, <2>2
    <3> QED  BY <3>1, <3>2
  <2>9. Rows(w) = Rows(r) \ {a}
    <3>1. Rows(w) \subseteq Rows(r) \ {a}
      BY <2>7 DEF Rows
    <3>2. ASSUME NEW b \in Rows(r) \ {a}  PROVE b \in Rows(w)
      <4>1. PICK k \in 1..Len(r) : r[k] = b  BY DEF Rows
      <4>2. PICK i \in 1..Len(w) : w[i] = r[k]  BY <4>1, <2>8
      <4> QED  BY <4>1, <4>2 DEF Rows
    <3> QED  BY <3>1, <3>2
  <2> QED  BY <2>2, <2>5, <2>6, <2>9 DEF w
<1> QED  BY <1>1, <1>2

\* The table is finite.
LEMMA RowsFinite ==
    ASSUME NEW S, NEW r \in Seq(S)
    PROVE  IsFiniteSet(Rows(r))
<1>1. Len(r) \in Nat  OBVIOUS
<1>2. IsFiniteSet(1..Len(r))  BY <1>1, FS_Interval
<1>3. r \in Surjection(1..Len(r), Rows(r))
  BY DEF Surjection, Rows
<1> QED  BY <1>2, <1>3, FS_Surjection

\* Part of the table is finite, and counted.
LEMMA NewerCounted ==
    ASSUME NEW r \in Seq(Aliases), NEW i \in 1..Len(r), NEW S
    PROVE  IsFiniteSet(Newer(r, i, S)) /\ Cardinality(Newer(r, i, S)) \in Nat
<1>1. Len(r) \in Nat /\ i + 1 \in Int  OBVIOUS
<1>2. IsFiniteSet((i + 1)..Len(r))  BY <1>1, FS_Interval
<1>3. Newer(r, i, S) \in SUBSET ((i + 1)..Len(r))  BY DEF Newer
<1>4. IsFiniteSet(Newer(r, i, S))  BY <1>2, <1>3, FS_Subset
<1> QED  BY <1>4, FS_CardinalityType

\* Fewer than n rows of S are newer than each row kept: at most n are kept.
LEMMA KeptCounted ==
    ASSUME NEW r \in Seq(Aliases), NEW S, NEW n \in Nat \ {0},
           NEW K \in SUBSET (1..Len(r)),
           \A i \in K : r[i] \in S /\ ~(Cardinality(Newer(r, i, S)) >= n)
    PROVE  Cardinality({r[i] : i \in K}) <= n
<1> DEFINE T == {r[i] : i \in K}
<1>1. CASE K = {}
  <2>1. T = {}  BY <1>1
  <2> HIDE DEF T
  <2>2. Cardinality(T) = 0  BY <2>1, FS_EmptySet, Zenon
  <2> QED  BY <2>2 DEF T
<1>2. CASE K # {}
  <2>1. K \in SUBSET Nat  OBVIOUS
  <2>2. PICK m \in K : \A k \in K : m <= k
    BY <2>1, <1>2, LeastNat
  <2> DEFINE N == Newer(r, m, S)
  <2>3. IsFiniteSet(N) /\ Cardinality(N) \in Nat
    BY NewerCounted
  <2>4. K \subseteq N \cup {m}
    <3>1. SUFFICES ASSUME NEW k \in K, k # m  PROVE k \in N
      OBVIOUS
    <3>2. k \in 1..Len(r) /\ m \in 1..Len(r) /\ m <= k /\ r[k] \in S
      BY <2>2
    <3>3. k \in (m + 1)..Len(r)
      BY <3>1, <3>2
    <3> QED  BY <3>2, <3>3 DEF Newer
  <2> HIDE DEF N
  <2>5. /\ IsFiniteSet(N \cup {m})
        /\ Cardinality(N \cup {m}) = IF m \in N THEN Cardinality(N) ELSE Cardinality(N) + 1
    BY <2>3, FS_AddElement
  <2>6. ~(Cardinality(N) >= n)
    BY <2>2 DEF N
  <2>7. Cardinality(N \cup {m}) \in Nat /\ Cardinality(N \cup {m}) <= n
    BY <2>3, <2>5, <2>6
  <2>8. IsFiniteSet(K) /\ Cardinality(K) <= Cardinality(N \cup {m})
    BY <2>4, <2>5, FS_Subset
  <2> DEFINE f == [i \in K |-> r[i]]
  <2>9. f \in Surjection(K, T)
    BY DEF Surjection
  <2> HIDE DEF f, T
  <2>10. IsFiniteSet(T) /\ Cardinality(T) <= Cardinality(K)
    BY <2>8, <2>9, FS_Surjection
  <2>11. Cardinality(K) \in Nat /\ Cardinality(T) \in Nat
    BY <2>8, <2>10, FS_CardinalityType
  <2> QED  BY <2>7, <2>8, <2>10, <2>11 DEF T
<1> QED  BY <1>1, <1>2

\* What the victims leave in the table fits in both bounds.
LEMMA VictimsSuffice ==
    ASSUME NEW r \in Seq(Aliases), NEW g,
           MaxGroup \in Nat \ {0}, MaxTotal \in Nat \ {0}
    PROVE  /\ Cardinality(Rows(r) \ Victims(r, g)) <= MaxTotal
           /\ Cardinality(OfGroup(Rows(r) \ Victims(r, g), g)) <= MaxGroup
<1> DEFINE G == {a \in Aliases : group[a] = g}
           K == {i \in 1..Len(r) : r[i] \notin Victims(r, g)}
           KG == {i \in K : group[r[i]] = g}
<1>1. ASSUME NEW i \in K
      PROVE  /\ r[i] \in Aliases /\ ~(Cardinality(Newer(r, i, Aliases)) >= MaxTotal)
             /\ group[r[i]] = g => ~(Cardinality(Newer(r, i, G)) >= MaxGroup)
  <2>1. i \in 1..Len(r) /\ r[i] \in Aliases  OBVIOUS
  <2> QED  BY <2>1 DEF Victims
<1>2. Rows(r) \ Victims(r, g) = {r[i] : i \in K}
  BY DEF Rows
<1>3. OfGroup(Rows(r) \ Victims(r, g), g) = {r[i] : i \in KG}
  BY DEF Rows, OfGroup
<1>4. K \in SUBSET (1..Len(r)) /\ KG \in SUBSET (1..Len(r))
  OBVIOUS
<1>5. \A i \in KG : r[i] \in G /\ ~(Cardinality(Newer(r, i, G)) >= MaxGroup)
  BY <1>1
<1>6. \A i \in K : r[i] \in Aliases /\ ~(Cardinality(Newer(r, i, Aliases)) >= MaxTotal)
  BY <1>1
<1> HIDE DEF K, KG, G
<1>7. Cardinality({r[i] : i \in K}) <= MaxTotal
  BY <1>4, <1>6, KeptCounted
<1>8. Cardinality({r[i] : i \in KG}) <= MaxGroup
  BY <1>4, <1>5, KeptCounted
<1> QED  BY <1>2, <1>3, <1>7, <1>8

-----------------------------------------------------------------------------
(* The bookkeeping is inductive.                                           *)

\* The initial states.
LEMMA BookkeepingInit == Init => Bookkeeping
<1> SUFFICES ASSUME Init PROVE Bookkeeping
  OBVIOUS
<1> USE RegistryConstants
<1>1. TypeOK
  BY DEF Init, TypeOK, Operation, NoOp
<1>2. Registered = {} /\ Lasting = {}
  BY DEF Init, Registered, Lasting
<1> QED  BY <1>1, <1>2 DEF Init, Bookkeeping, AskingFresh, WaitsForRegistry, OpShape,
         NoticesGone, NewestLast, NoAccountingLie, NoOp

\* What an alias's object does, the passing of time, and the registry's steps
\* that leave its table alone, but for the end of a registration: the aliases
\* that last become fewer, if anything.
LEMMA QuietStep ==
    ASSUME Bookkeeping,
           \/ \E a \in Aliases : AliasStep(a)
           \/ Tick \/ Sweep \/ RegistryDies
    PROVE  /\ Bookkeeping'
           /\ Lasting' \subseteq Lasting
           /\ op' = op \/ op'.kind # "register"
           /\ group' = group
<1> USE RegistryConstants DEF Bookkeeping
<1>1. ASSUME NEW a \in Aliases, Seed(a)
      PROVE  Bookkeeping' /\ Lasting' \subseteq Lasting /\ (op' = op \/ op'.kind # "register") /\ group' = group
  <2>1. Registered' = Registered /\ group' = group /\ (op' = op \/ op'.kind # "register")
    BY <1>1 DEF Seed, Registered
  <2>2. TypeOK'
    BY <1>1 DEF Seed, TypeOK, Operation
  <2>3. Lasting' \subseteq Lasting
    BY <1>1 DEF Seed, TypeOK, Lasting
  <2>4. AskingFresh'
    BY <1>1, <2>1 DEF Seed, TypeOK, AskingFresh
  <2>5. WaitsForRegistry'
    BY <1>1 DEF Seed, TypeOK, WaitsForRegistry
  <2>6. OpShape'
    BY <1>1, <2>1, <2>3 DEF Seed, TypeOK, OpShape, Operation
  <2>7. NoticesGone'
    BY <1>1 DEF Seed, TypeOK, NoticesGone
  <2>8. NewestLast'
    BY <1>1, <2>1 DEF Seed, TypeOK, NewestLast, Registered
  <2>9. NoAccountingLie'
    BY <2>1, <2>3 DEF NoAccountingLie
  <2> QED  BY <2>1, <2>2, <2>3, <2>4, <2>5, <2>6, <2>7, <2>8, <2>9
<1>2. ASSUME NEW a \in Aliases, SeedFails(a)
      PROVE  Bookkeeping' /\ Lasting' \subseteq Lasting /\ (op' = op \/ op'.kind # "register") /\ group' = group
  <2>1. Registered' = Registered /\ group' = group /\ (op' = op \/ op'.kind # "register")
    BY <1>2 DEF SeedFails, Evicted, Registered
  <2>2. TypeOK'
    BY <1>2 DEF SeedFails, Evicted, TypeOK, Operation
  <2>3. Lasting' \subseteq Lasting
    BY <1>2 DEF SeedFails, Evicted, TypeOK, Lasting
  <2>4. AskingFresh'
    BY <1>2, <2>1 DEF SeedFails, Evicted, TypeOK, AskingFresh
  <2>5. WaitsForRegistry'
    BY <1>2 DEF SeedFails, Evicted, TypeOK, WaitsForRegistry
  <2>6. OpShape'
    BY <1>2, <2>1, <2>3 DEF SeedFails, Evicted, TypeOK, OpShape, Operation
  <2>7. NoticesGone'
    BY <1>2 DEF SeedFails, Evicted, TypeOK, NoticesGone
  <2>8. NewestLast'
    BY <1>2, <2>1 DEF SeedFails, Evicted, TypeOK, NewestLast, Registered
  <2>9. NoAccountingLie'
    BY <2>1, <2>3 DEF NoAccountingLie
  <2> QED  BY <2>1, <2>2, <2>3, <2>4, <2>5, <2>6, <2>7, <2>8, <2>9
<1>3. ASSUME NEW a \in Aliases, SeedDies(a)
      PROVE  Bookkeeping' /\ Lasting' \subseteq Lasting /\ (op' = op \/ op'.kind # "register") /\ group' = group
  <2>1. Registered' = Registered /\ group' = group /\ (op' = op \/ op'.kind # "register")
    BY <1>3 DEF SeedDies, objects, Registered
  <2>2. TypeOK'
    BY <1>3 DEF SeedDies, objects, TypeOK, Operation
  <2>3. Lasting' \subseteq Lasting
    BY <1>3 DEF SeedDies, objects, TypeOK, Lasting
  <2>4. AskingFresh'
    BY <1>3, <2>1 DEF SeedDies, objects, TypeOK, AskingFresh
  <2>5. WaitsForRegistry'
    BY <1>3 DEF SeedDies, objects, TypeOK, WaitsForRegistry
  <2>6. OpShape'
    BY <1>3, <2>1, <2>3 DEF SeedDies, objects, TypeOK, OpShape, Operation
  <2>7. NoticesGone'
    BY <1>3 DEF SeedDies, objects, TypeOK, NoticesGone
  <2>8. NewestLast'
    BY <1>3, <2>1 DEF SeedDies, objects, TypeOK, NewestLast, Registered
  <2>9. NoAccountingLie'
    BY <2>1, <2>3 DEF NoAccountingLie
  <2> QED  BY <2>1, <2>2, <2>3, <2>4, <2>5, <2>6, <2>7, <2>8, <2>9
<1>4. ASSUME NEW a \in Aliases, SeedUnanswered(a)
      PROVE  Bookkeeping' /\ Lasting' \subseteq Lasting /\ (op' = op \/ op'.kind # "register") /\ group' = group
  <2>1. Registered' = Registered /\ group' = group /\ (op' = op \/ op'.kind # "register")
    BY <1>4 DEF SeedUnanswered, objects, Registered
  <2>2. TypeOK'
    BY <1>4 DEF SeedUnanswered, objects, TypeOK, Operation
  <2>3. Lasting' \subseteq Lasting
    BY <1>4 DEF SeedUnanswered, objects, TypeOK, Lasting
  <2>4. AskingFresh'
    BY <1>4, <2>1 DEF SeedUnanswered, objects, TypeOK, AskingFresh
  <2>5. WaitsForRegistry'
    BY <1>4 DEF SeedUnanswered, objects, TypeOK, WaitsForRegistry
  <2>6. OpShape'
    BY <1>4, <2>1, <2>3 DEF SeedUnanswered, objects, TypeOK, OpShape, Operation
  <2>7. NoticesGone'
    BY <1>4 DEF SeedUnanswered, objects, TypeOK, NoticesGone
  <2>8. NewestLast'
    BY <1>4, <2>1 DEF SeedUnanswered, objects, TypeOK, NewestLast, Registered
  <2>9. NoAccountingLie'
    BY <2>1, <2>3 DEF NoAccountingLie
  <2> QED  BY <2>1, <2>2, <2>3, <2>4, <2>5, <2>6, <2>7, <2>8, <2>9
<1>5. ASSUME NEW a \in Aliases, Acquire(a)
      PROVE  Bookkeeping' /\ Lasting' \subseteq Lasting /\ (op' = op \/ op'.kind # "register") /\ group' = group
  <2>1. Registered' = Registered /\ group' = group /\ (op' = op \/ op'.kind # "register")
    BY <1>5 DEF Acquire, Registered
  <2>2. TypeOK'
    BY <1>5 DEF Acquire, TypeOK, Operation
  <2>3. Lasting' \subseteq Lasting
    BY <1>5 DEF Acquire, TypeOK, Lasting
  <2>4. AskingFresh'
    BY <1>5, <2>1 DEF Acquire, TypeOK, AskingFresh
  <2>5. WaitsForRegistry'
    BY <1>5 DEF Acquire, TypeOK, WaitsForRegistry
  <2>6. OpShape'
    BY <1>5, <2>1, <2>3 DEF Acquire, TypeOK, OpShape, Operation
  <2>7. NoticesGone'
    BY <1>5 DEF Acquire, TypeOK, NoticesGone
  <2>8. NewestLast'
    BY <1>5, <2>1 DEF Acquire, TypeOK, NewestLast, Registered
  <2>9. NoAccountingLie'
    BY <2>1, <2>3 DEF NoAccountingLie
  <2> QED  BY <2>1, <2>2, <2>3, <2>4, <2>5, <2>6, <2>7, <2>8, <2>9
<1>6. ASSUME NEW a \in Aliases, EndLease(a)
      PROVE  Bookkeeping' /\ Lasting' \subseteq Lasting /\ (op' = op \/ op'.kind # "register") /\ group' = group
  <2>1. Registered' = Registered /\ group' = group /\ (op' = op \/ op'.kind # "register")
    BY <1>6 DEF EndLease, Registered
  <2>2. TypeOK'
    BY <1>6 DEF EndLease, TypeOK, Operation
  <2>3. Lasting' \subseteq Lasting
    BY <1>6 DEF EndLease, TypeOK, Lasting
  <2>4. AskingFresh'
    BY <1>6, <2>1 DEF EndLease, TypeOK, AskingFresh
  <2>5. WaitsForRegistry'
    BY <1>6 DEF EndLease, TypeOK, WaitsForRegistry
  <2>6. OpShape'
    BY <1>6, <2>1, <2>3 DEF EndLease, TypeOK, OpShape, Operation
  <2>7. NoticesGone'
    BY <1>6 DEF EndLease, TypeOK, NoticesGone
  <2>8. NewestLast'
    BY <1>6, <2>1 DEF EndLease, TypeOK, NewestLast, Registered
  <2>9. NoAccountingLie'
    BY <2>1, <2>3 DEF NoAccountingLie
  <2> QED  BY <2>1, <2>2, <2>3, <2>4, <2>5, <2>6, <2>7, <2>8, <2>9
<1>7. ASSUME NEW a \in Aliases, Expire(a)
      PROVE  Bookkeeping' /\ Lasting' \subseteq Lasting /\ (op' = op \/ op'.kind # "register") /\ group' = group
  <2>1. Registered' = Registered /\ group' = group /\ (op' = op \/ op'.kind # "register")
    BY <1>7 DEF Expire, Registered
  <2>2. TypeOK'
    BY <1>7 DEF Expire, TypeOK, Operation
  <2>3. Lasting' \subseteq Lasting
    BY <1>7 DEF Expire, TypeOK, Lasting
  <2>4. AskingFresh'
    BY <1>7, <2>1 DEF Expire, TypeOK, AskingFresh
  <2>5. WaitsForRegistry'
    BY <1>7 DEF Expire, TypeOK, WaitsForRegistry
  <2>6. OpShape'
    BY <1>7, <2>1, <2>3 DEF Expire, TypeOK, OpShape, Operation
  <2>7. NoticesGone'
    BY <1>7 DEF Expire, TypeOK, NoticesGone
  <2>8. NewestLast'
    BY <1>7 DEF Expire, NewestLast
  <2>9. NoAccountingLie'
    BY <2>1, <2>3 DEF NoAccountingLie
  <2> QED  BY <2>1, <2>2, <2>3, <2>4, <2>5, <2>6, <2>7, <2>8, <2>9
<1>8. ASSUME NEW a \in Aliases, NoticeLost(a)
      PROVE  Bookkeeping' /\ Lasting' \subseteq Lasting /\ (op' = op \/ op'.kind # "register") /\ group' = group
  <2>1. Registered' = Registered /\ group' = group /\ (op' = op \/ op'.kind # "register")
    BY <1>8 DEF NoticeLost, objects, Registered
  <2>2. TypeOK'
    BY <1>8 DEF NoticeLost, objects, TypeOK, Operation
  <2>3. Lasting' \subseteq Lasting
    BY <1>8 DEF NoticeLost, objects, TypeOK, Lasting
  <2>4. AskingFresh'
    BY <1>8, <2>1 DEF NoticeLost, objects, TypeOK, AskingFresh
  <2>5. WaitsForRegistry'
    BY <1>8 DEF NoticeLost, objects, TypeOK, WaitsForRegistry
  <2>6. OpShape'
    BY <1>8, <2>1, <2>3 DEF NoticeLost, objects, TypeOK, OpShape, Operation
  <2>7. NoticesGone'
    BY <1>8 DEF NoticeLost, objects, TypeOK, NoticesGone
  <2>8. NewestLast'
    BY <1>8, <2>1 DEF NoticeLost, objects, TypeOK, NewestLast, Registered
  <2>9. NoAccountingLie'
    BY <2>1, <2>3 DEF NoAccountingLie
  <2> QED  BY <2>1, <2>2, <2>3, <2>4, <2>5, <2>6, <2>7, <2>8, <2>9
<1>9. ASSUME Tick
      PROVE  Bookkeeping' /\ Lasting' \subseteq Lasting /\ (op' = op \/ op'.kind # "register") /\ group' = group
  <2>1. Registered' = Registered /\ group' = group /\ (op' = op \/ op'.kind # "register")
    BY <1>9 DEF Tick, Registered
  <2>2. TypeOK'
    BY <1>9 DEF Tick, TypeOK, Operation
  <2>3. Lasting' \subseteq Lasting
    BY <1>9 DEF Tick, TypeOK, Lasting
  <2>4. AskingFresh'
    BY <1>9, <2>1 DEF Tick, TypeOK, AskingFresh
  <2>5. WaitsForRegistry'
    BY <1>9 DEF Tick, TypeOK, WaitsForRegistry
  <2>6. OpShape'
    BY <1>9, <2>1, <2>3 DEF Tick, TypeOK, OpShape, Operation
  <2>7. NoticesGone'
    BY <1>9 DEF Tick, TypeOK, NoticesGone
  <2>8. NewestLast'
    BY <1>9 DEF Tick, NewestLast
  <2>9. NoAccountingLie'
    BY <2>1, <2>3 DEF NoAccountingLie
  <2> QED  BY <2>1, <2>2, <2>3, <2>4, <2>5, <2>6, <2>7, <2>8, <2>9
<1>10. ASSUME Sweep
      PROVE  Bookkeeping' /\ Lasting' \subseteq Lasting /\ (op' = op \/ op'.kind # "register") /\ group' = group
  <2>1. Registered' = Registered /\ group' = group /\ (op' = op \/ op'.kind # "register")
    BY <1>10 DEF Sweep, objects, NoOp, Registered
  <2>2. TypeOK'
    <3>1. Registered \subseteq Aliases
      BY DEF TypeOK, Registered
    <3>2. op' \in Operation
      <4> DEFINE V == {b \in Registered : left[b] = 0}
      <4>1. V \in SUBSET Aliases  BY <3>1
      <4>2. op' = [kind |-> "sweep", alias |-> NoAlias, victims |-> V]  BY <1>10 DEF Sweep
      <4> HIDE DEF V
      <4> QED  BY <4>1, <4>2 DEF Operation
    <3> QED  BY <1>10, <3>2 DEF Sweep, objects, TypeOK
  <2>3. Lasting' \subseteq Lasting
    BY <1>10 DEF Sweep, objects, NoOp, TypeOK, Lasting
  <2>4. AskingFresh'
    BY <1>10, <2>1 DEF Sweep, objects, NoOp, TypeOK, AskingFresh
  <2>5. WaitsForRegistry'
    BY <1>10 DEF Sweep, objects, NoOp, TypeOK, WaitsForRegistry
  <2>6. OpShape'
    BY <1>10, <2>1, <2>3 DEF Sweep, objects, NoOp, TypeOK, OpShape, Operation
  <2>7. NoticesGone'
    BY <1>10 DEF Sweep, objects, NoOp, TypeOK, NoticesGone
  <2>8. NewestLast'
    BY <1>10, <2>1 DEF Sweep, objects, NoOp, TypeOK, NewestLast, Registered
  <2>9. NoAccountingLie'
    BY <2>1, <2>3 DEF NoAccountingLie
  <2> QED  BY <2>1, <2>2, <2>3, <2>4, <2>5, <2>6, <2>7, <2>8, <2>9
<1>11. ASSUME RegistryDies
      PROVE  Bookkeeping' /\ Lasting' \subseteq Lasting /\ (op' = op \/ op'.kind # "register") /\ group' = group
  <2>1. Registered' = Registered /\ group' = group /\ (op' = op \/ op'.kind # "register")
    BY <1>11 DEF RegistryDies, objects, NoOp, Answered, Registered
  <2>2. TypeOK'
    BY <1>11, SMTT(30) DEF RegistryDies, objects, NoOp, Answered, TypeOK, Operation
  <2>3. Lasting' \subseteq Lasting
    BY <1>11 DEF RegistryDies, objects, NoOp, Answered, TypeOK, Lasting
  <2>4. AskingFresh'
    BY <1>11, <2>1 DEF RegistryDies, objects, NoOp, Answered, TypeOK, AskingFresh
  <2>5. WaitsForRegistry'
    BY <1>11 DEF RegistryDies, objects, NoOp, Answered, TypeOK, WaitsForRegistry
  <2>6. OpShape'
    BY <1>11, <2>1, <2>3 DEF RegistryDies, objects, NoOp, Answered, TypeOK, OpShape, Operation
  <2>7. NoticesGone'
    BY <1>11 DEF RegistryDies, objects, NoOp, Answered, TypeOK, NoticesGone
  <2>8. NewestLast'
    BY <1>11, <2>1 DEF RegistryDies, objects, NoOp, Answered, TypeOK, NewestLast, Registered
  <2>9. NoAccountingLie'
    BY <2>1, <2>3 DEF NoAccountingLie
  <2> QED  BY <2>1, <2>2, <2>3, <2>4, <2>5, <2>6, <2>7, <2>8, <2>9
<1> QED  BY <1>1, <1>2, <1>3, <1>4, <1>5, <1>6, <1>7, <1>8, <1>9, <1>10, <1>11 DEF AliasStep

\* A row is deleted from the registry.
LEMMA RowDeleted ==
    ASSUME TypeOK, NEW a, reg' = Without(reg, a)
    PROVE  /\ reg' \in Seq(Aliases)
           /\ \A i, j \in 1..Len(reg') : reg'[i] = reg'[j] => i = j
           /\ Registered' = Registered \ {a}
           /\ \A i, j \in 1..Len(reg') : i < j =>
                \E k, l \in 1..Len(reg) : k < l /\ reg'[i] = reg[k] /\ reg'[j] = reg[l]
<1>1. reg \in Seq(Aliases) /\ \A i, j \in 1..Len(reg) : reg[i] = reg[j] => i = j
  BY DEF TypeOK
<1> DEFINE w == Without(reg, a)
<1>2. /\ w \in Seq(Aliases)
      /\ \A i, j \in 1..Len(w) : w[i] = w[j] => i = j
      /\ Rows(w) = Rows(reg) \ {a}
      /\ \A i, j \in 1..Len(w) : i < j =>
           \E k, l \in 1..Len(reg) : k < l /\ w[i] = reg[k] /\ w[j] = reg[l]
  BY <1>1, WithoutRow
<1>3. Registered' = Rows(w) /\ Registered = Rows(reg)
  BY DEF Registered, Rows
<1> HIDE DEF w
<1>4. reg' = w
  BY DEF w
<1> QED  BY <1>2, <1>3, <1>4

\* A registration that fails takes its alias back and changes nothing else of
\* the bookkeeping; the call to a victim may have deleted the victim's row.
LEMMA FailedRegistration ==
    ASSUME Bookkeeping, RegisterFails, op.kind = "register",
           live' \subseteq live, leased \subseteq live',
           UNCHANGED <<leased, group, left, notices, orphan>>
    PROVE  Bookkeeping' /\ Lasting' \subseteq Lasting /\ op' = NoOp
<1> USE RegistryConstants DEF Bookkeeping, RegisterFails
<1>1. /\ reg' \in Seq(Aliases)
      /\ \A i, j \in 1..Len(reg') : reg'[i] = reg'[j] => i = j
      /\ Registered' = Registered \ {op.alias}
  BY RowDeleted
<1>2. op' = NoOp /\ op'.kind = "none" /\ op'.victims = {}
  BY DEF NoOp
<1>3. seeds' = [seeds EXCEPT ![op.alias] = IF @ = "registering" THEN "failed" ELSE @]
  BY DEF Answered
<1>4. TypeOK'
  <2>1. op' \in Operation  BY <1>2 DEF Operation, NoOp
  <2>2. seeds' \in [Aliases -> {"none", "asking", "registering", "failed"}]
    BY <1>3 DEF TypeOK
  <2> QED  BY <1>1, <2>1, <2>2 DEF TypeOK
<1>5. Lasting' \subseteq Lasting
  BY <1>3 DEF TypeOK, Lasting
<1>6. AskingFresh'
  BY <1>1, <1>3 DEF TypeOK, AskingFresh
<1>7. WaitsForRegistry'
  BY <1>3 DEF TypeOK, WaitsForRegistry
<1>8. OpShape' /\ NewestLast'
  BY <1>2 DEF OpShape, NewestLast
<1>9. NoticesGone'
  BY DEF NoticesGone
<1>10. NoAccountingLie'
  BY <1>1, <1>5 DEF NoAccountingLie, OpShape
<1> QED  BY <1>2, <1>4, <1>5, <1>6, <1>7, <1>8, <1>9, <1>10

\* A sweep goes on to its next victim; the call to the last one may have
\* deleted the victim's row.
LEMMA SweepGoesOn ==
    ASSUME Bookkeeping, op.kind # "register",
           NEW v \in op.victims, op' = [op EXCEPT !.victims = @ \ {v}],
           live' \subseteq live, leased \subseteq live',
           UNCHANGED <<leased, group, left, seeds, reg, notices, orphan>>
    PROVE  Bookkeeping' /\ Lasting' \subseteq Lasting /\ op'.kind # "register"
<1> USE RegistryConstants DEF Bookkeeping
<1>1. op'.kind = op.kind /\ op'.alias = op.alias /\ op'.victims = op.victims \ {v}
  BY DEF TypeOK, Operation
<1>2. op.kind = "sweep"
  BY DEF OpShape, NoOp, TypeOK, Operation
<1>3. op' \in Operation
  <2>1. op.victims \ {v} \in SUBSET Aliases  BY DEF TypeOK, Operation
  <2> QED  BY <2>1 DEF TypeOK, Operation
<1>4. TypeOK'
  BY <1>3 DEF TypeOK
<1>5. Registered' = Registered /\ Lasting' \subseteq Lasting
  BY DEF Registered, Lasting
<1>6. AskingFresh' /\ NoticesGone'
  BY <1>5 DEF AskingFresh, NoticesGone
<1>7. WaitsForRegistry' /\ NewestLast'
  BY <1>1, <1>2 DEF WaitsForRegistry, NewestLast
<1>8. OpShape'
  BY <1>1, <1>2, <1>5 DEF OpShape
<1>9. NoAccountingLie'
  BY <1>5 DEF NoAccountingLie
<1> QED  BY <1>1, <1>4, <1>5, <1>6, <1>7, <1>8, <1>9

\* The steps after which a registration has failed, or a sweep has gone on
\* without its victim.
LEMMA VictimKept ==
    ASSUME Bookkeeping, NEW v \in Aliases, VictimStays(v) \/ VictimUnreachable(v)
    PROVE  Bookkeeping' /\ Lasting' \subseteq Lasting /\ op'.kind # "register" /\ group' = group
<1> USE DEF Bookkeeping
<1>1. /\ v \in op.victims
      /\ live' \subseteq live /\ leased \subseteq live'
      /\ UNCHANGED <<leased, group, left, notices, orphan>>
  BY DEF VictimStays, VictimUnreachable, objects, Evicted, TypeOK
<1>2. CASE op.kind = "register"
  <2>1. RegisterFails
    BY <1>2 DEF VictimStays, VictimUnreachable
  <2>2. Bookkeeping' /\ Lasting' \subseteq Lasting /\ op' = NoOp
    BY <1>1, <1>2, <2>1, FailedRegistration
  <2> QED  BY <1>1, <2>2 DEF NoOp
<1>3. CASE op.kind # "register"
  <2>1. op' = [op EXCEPT !.victims = @ \ {v}] /\ UNCHANGED <<seeds, reg>>
    BY <1>3 DEF VictimStays, VictimUnreachable
  <2>2. Bookkeeping' /\ Lasting' \subseteq Lasting /\ op'.kind # "register"
    BY <1>1, <1>3, <2>1, SweepGoesOn
  <2> QED  BY <1>1, <2>2
<1> QED  BY <1>2, <1>3

\* The registration of a victim ends with its row.
LEMMA VictimGoes ==
    ASSUME Bookkeeping, NEW v \in Aliases, VictimGone(v)
    PROVE  /\ Bookkeeping'
           /\ Lasting' \subseteq Lasting \ {v}
           /\ v # op.alias
           /\ op'.kind = op.kind /\ op'.alias = op.alias /\ op'.victims = op.victims \ {v}
           /\ group' = group
<1> USE RegistryConstants DEF Bookkeeping, VictimGone
<1>1. /\ reg' \in Seq(Aliases)
      /\ \A i, j \in 1..Len(reg') : reg'[i] = reg'[j] => i = j
      /\ Registered' = Registered \ {v}
      /\ \A i, j \in 1..Len(reg') : i < j =>
            \E k, l \in 1..Len(reg) : k < l /\ reg'[i] = reg[k] /\ reg'[j] = reg[l]
  BY RowDeleted
<1>2. op'.kind = op.kind /\ op'.alias = op.alias /\ op'.victims = op.victims \ {v}
  BY DEF TypeOK, Operation
<1>3. op' \in Operation
  <2>1. op.victims \ {v} \in SUBSET Aliases  BY DEF TypeOK, Operation
  <2> QED  BY <2>1 DEF TypeOK, Operation
<1>4. TypeOK'
  BY <1>1, <1>3 DEF TypeOK
<1>5. Lasting' \subseteq Lasting \ {v}
  BY DEF Lasting
<1>6. AskingFresh' /\ NoticesGone'
  BY <1>1 DEF AskingFresh, NoticesGone
<1>7. WaitsForRegistry'
  BY <1>2 DEF WaitsForRegistry
<1>8. OpShape'
  <2>1. op'.kind = "none" => op' = NoOp
    BY <1>2 DEF OpShape, NoOp
  <2> QED  BY <1>1, <1>2, <1>5, <2>1 DEF OpShape
<1>9. NewestLast'
  <2>1. SUFFICES ASSUME op'.kind = "register",
                        NEW i \in 1..Len(reg'), NEW j \in 1..Len(reg'), i < j
                 PROVE  reg'[i] # op'.alias
    BY DEF NewestLast
  <2>2. PICK k \in 1..Len(reg), l \in 1..Len(reg) : k < l /\ reg'[i] = reg[k] /\ reg'[j] = reg[l]
    BY <1>1, <2>1
  <2> QED  BY <1>2, <2>1, <2>2 DEF NewestLast
<1>10. NoAccountingLie'
  BY <1>1, <1>5 DEF NoAccountingLie
<1> QED  BY <1>2, <1>4, <1>5, <1>6, <1>7, <1>8, <1>9, <1>10

\* A notice arrives.
LEMMA NoticeArrives ==
    ASSUME Bookkeeping, NEW a \in Aliases, Unregister(a)
    PROVE  Bookkeeping' /\ Lasting' \subseteq Lasting /\ op' = op /\ op'.kind # "register" /\ group' = group
<1> USE RegistryConstants DEF Bookkeeping, Unregister, objects
<1>1. /\ reg' \in Seq(Aliases)
      /\ \A i, j \in 1..Len(reg') : reg'[i] = reg'[j] => i = j
      /\ Registered' = Registered \ {a}
  BY RowDeleted
<1>2. op.kind = "none" /\ op.victims = {} /\ op' = op
  BY DEF NoOp
<1>3. TypeOK'
  BY <1>1 DEF TypeOK
<1>4. Lasting' = Lasting /\ a \notin Lasting
  BY DEF Lasting, NoticesGone
<1>5. AskingFresh' /\ NoticesGone' /\ WaitsForRegistry'
  BY <1>1 DEF AskingFresh, NoticesGone, WaitsForRegistry
<1>6. OpShape' /\ NewestLast'
  BY <1>2 DEF OpShape, NewestLast
<1>7. NoAccountingLie'
  BY <1>1, <1>4 DEF NoAccountingLie
<1> QED  BY <1>2, <1>3, <1>4, <1>5, <1>6, <1>7

\* The end of an operation: only the alias of a registration comes to last.
LEMMA OperationEnds ==
    ASSUME Bookkeeping, OperationDone
    PROVE  /\ Bookkeeping'
           /\ Lasting' \subseteq Lasting \cup {op.alias}
           /\ op.kind # "register" => Lasting' = Lasting
           /\ op.victims = {} /\ op'.kind = "none" /\ group' = group
<1> USE RegistryConstants DEF Bookkeeping, OperationDone, objects, Answered
<1>1. op' = NoOp /\ op'.kind = "none" /\ op'.victims = {} /\ op.victims = {} /\ Registered' = Registered
  BY DEF NoOp, Registered
<1>2. TypeOK'
  <2>1. op' \in Operation  BY <1>1 DEF Operation, NoOp
  <2>2. seeds' \in [Aliases -> {"none", "asking", "registering", "failed"}]
    BY DEF TypeOK
  <2> QED  BY <2>1, <2>2 DEF TypeOK
<1>3. Lasting' \subseteq Lasting \cup {op.alias} /\ (op.kind # "register" => Lasting' = Lasting)
  BY DEF Lasting, TypeOK
<1>4. AskingFresh' /\ NoticesGone'
  BY <1>1 DEF AskingFresh, NoticesGone, TypeOK
<1>5. WaitsForRegistry'
  BY DEF WaitsForRegistry, TypeOK
<1>6. OpShape' /\ NewestLast'
  BY <1>1 DEF OpShape, NewestLast
<1>7. NoAccountingLie'
  BY <1>1, <1>3 DEF NoAccountingLie, OpShape
<1> QED  BY <1>1, <1>2, <1>3, <1>4, <1>5, <1>6, <1>7

\* A registration that is refused.
LEMMA RegisterRefused ==
    ASSUME Bookkeeping, NEW a \in Aliases, Register(a), left[a] = 0
    PROVE  Bookkeeping' /\ Lasting' \subseteq Lasting /\ op' = op /\ group' = group
<1> USE DEF Bookkeeping
<1>1. /\ seeds[a] = "asking" /\ seeds' = [seeds EXCEPT ![a] = "failed"]
      /\ UNCHANGED <<live, leased, group, left, reg, op, notices, orphan>>
  BY DEF Register, objects
<1>2. TypeOK' /\ Registered' = Registered /\ Lasting' \subseteq Lasting
  BY <1>1 DEF TypeOK, Registered, Lasting
<1>3. AskingFresh' /\ WaitsForRegistry' /\ NoticesGone' /\ NewestLast'
  BY <1>1, <1>2 DEF TypeOK, AskingFresh, WaitsForRegistry, NoticesGone, NewestLast
<1>4. OpShape'
  BY <1>1, <1>2 DEF OpShape
<1>5. NoAccountingLie'
  BY <1>2 DEF NoAccountingLie
<1> QED  BY <1>1, <1>2, <1>3, <1>4, <1>5

\* A registration that begins: with the victims it has found it will fit in.
LEMMA RegisterBegins ==
    ASSUME Bookkeeping, NEW a \in Aliases, Register(a), left[a] # 0
    PROVE  Bookkeeping' /\ BoundsAhead' /\ Lasting' \subseteq Lasting /\ group' = group
<1> USE RegistryConstants DEF Bookkeeping
<1> DEFINE V == Victims(reg', group[a])
<1>1. /\ op = NoOp
      /\ seeds[a] = "asking" /\ seeds' = [seeds EXCEPT ![a] = "registering"]
      /\ reg' = Append(reg, a)
      /\ op' = [kind |-> "register", alias |-> a, victims |-> V]
      /\ UNCHANGED <<live, leased, group, left, notices, orphan>>
  BY DEF Register, objects
<1>2. /\ reg' \in Seq(Aliases)
      /\ Len(reg') = Len(reg) + 1 /\ reg'[Len(reg) + 1] = a
      /\ \A i \in 1..Len(reg) : reg'[i] = reg[i]
  BY <1>1 DEF TypeOK
<1>3. a \notin Registered
  BY <1>1 DEF AskingFresh
<1>4. \A i, j \in 1..Len(reg') : reg'[i] = reg'[j] => i = j
  <2>1. \A i \in 1..Len(reg) : reg[i] # a
    BY <1>3 DEF Registered
  <2>2. Len(reg) \in Nat /\ \A i \in 1..Len(reg') : i \in 1..Len(reg) \/ i = Len(reg) + 1
    BY <1>2 DEF TypeOK
  <2> QED  BY <1>2, <2>1, <2>2 DEF TypeOK
<1>5. Rows(reg') = Registered \cup {a} /\ Registered' = Rows(reg')
  <2>1. Registered' = Rows(reg')  BY DEF Registered, Rows
  <2>2. Registered \cup {a} \subseteq Rows(reg')
    <3>1. 1..Len(reg) \subseteq 1..Len(reg') /\ Len(reg) + 1 \in 1..Len(reg')
      BY <1>2 DEF TypeOK
    <3> QED  BY <1>2, <3>1 DEF Registered, Rows
  <2>3. Rows(reg') \subseteq Registered \cup {a}
    <3>1. \A i \in 1..Len(reg') : i \in 1..Len(reg) \/ i = Len(reg) + 1
      BY <1>2 DEF TypeOK
    <3> QED  BY <1>2, <3>1 DEF Registered, Rows
  <2> QED  BY <2>1, <2>2, <2>3
<1>6. V \subseteq Rows(reg')
  BY DEF Victims, Rows
<1>7. Rows(reg') \subseteq Aliases
  BY <1>2 DEF Rows
<1> HIDE DEF V
<1>8. op'.kind = "register" /\ op'.alias = a /\ op'.victims = V
  BY <1>1
<1>9. TypeOK'
  <2>1. op' \in Operation
    <3>1. V \in SUBSET Aliases  BY <1>6, <1>7
    <3> QED  BY <1>1, <3>1 DEF Operation
  <2>2. seeds' \in [Aliases -> {"none", "asking", "registering", "failed"}]
    BY <1>1 DEF TypeOK
  <2> QED  BY <1>1, <1>2, <1>4, <2>1, <2>2 DEF TypeOK
<1>10. Lasting' \subseteq Lasting \ {a}
  BY <1>1 DEF TypeOK, Lasting
<1>11. AskingFresh'
  BY <1>1, <1>5 DEF TypeOK, AskingFresh
<1>12. WaitsForRegistry'
  BY <1>1, <1>8 DEF TypeOK, WaitsForRegistry, NoOp
<1>13. OpShape'
  BY <1>5, <1>6, <1>8, <1>10 DEF OpShape
<1>14. NoticesGone'
  BY <1>1 DEF NoticesGone
<1>15. NewestLast'
  <2>1. SUFFICES ASSUME NEW i \in 1..Len(reg'), NEW j \in 1..Len(reg'), i < j
                 PROVE  reg'[i] # a
    BY <1>8 DEF NewestLast
  <2>2. i \in 1..Len(reg)
    BY <1>2, <2>1 DEF TypeOK
  <2> QED  BY <1>2, <1>3, <2>2 DEF Registered
<1>16. NoAccountingLie'
  BY <1>5, <1>10 DEF NoAccountingLie
<1>17. BoundsAhead'
  <2> DEFINE rest == Rows(reg') \ V
  <2>1. Cardinality(rest) <= MaxTotal /\ Cardinality(OfGroup(rest, group[a])) <= MaxGroup
    BY <1>2, VictimsSuffice DEF V
  <2>2. IsFiniteSet(rest) /\ IsFiniteSet(OfGroup(rest, group[a]))
    <3>1. IsFiniteSet(Rows(reg'))  BY <1>2, RowsFinite
    <3>2. rest \in SUBSET Rows(reg') /\ OfGroup(rest, group[a]) \in SUBSET Rows(reg')
      BY DEF OfGroup
    <3> QED  BY <3>1, <3>2, FS_Subset
  <2>3. Remaining' \in SUBSET rest
    <3>1. Remaining' = (Lasting' \cup {a}) \ V  BY <1>8 DEF Remaining
    <3>2. Lasting' \cup {a} \subseteq Rows(reg')
      BY <1>5, <1>10 DEF NoAccountingLie
    <3> QED  BY <3>1, <3>2
  <2> HIDE DEF rest
  <2>4. OfGroup(Remaining, group[op.alias])' \in SUBSET OfGroup(rest, group[a])
    BY <1>1, <1>8, <2>3 DEF OfGroup
  <2>5. /\ Cardinality(Remaining') <= Cardinality(rest)
        /\ Cardinality(OfGroup(Remaining, group[op.alias])') <= Cardinality(OfGroup(rest, group[a]))
        /\ IsFiniteSet(Remaining') /\ IsFiniteSet(OfGroup(Remaining, group[op.alias])')
    BY <2>2, <2>3, <2>4, FS_Subset
  <2>6. /\ Cardinality(Remaining') \in Nat /\ Cardinality(rest) \in Nat
        /\ Cardinality(OfGroup(Remaining, group[op.alias])') \in Nat
        /\ Cardinality(OfGroup(rest, group[a])) \in Nat
    BY <2>2, <2>5, FS_CardinalityType
  <2>7. Cardinality(Remaining') <= MaxTotal
    BY <2>1, <2>5, <2>6
  <2>8. Cardinality(OfGroup(Remaining, group[op.alias])') <= MaxGroup
    BY <2>1, <2>5, <2>6
  <2> QED  BY <2>7, <2>8 DEF BoundsAhead
<1> QED  BY <1>1, <1>9, <1>10, <1>11, <1>12, <1>13, <1>14, <1>15, <1>16, <1>17

-----------------------------------------------------------------------------
(* The bounds are inductive.                                               *)

\* A subset is not larger.
LEMMA SubsetBounded ==
    ASSUME NEW S, IsFiniteSet(S), NEW T \in SUBSET S, NEW n \in Nat, Cardinality(S) <= n
    PROVE  Cardinality(T) <= n
<1>1. IsFiniteSet(T) /\ Cardinality(T) <= Cardinality(S)
  BY FS_Subset
<1>2. Cardinality(T) \in Nat /\ Cardinality(S) \in Nat
  BY <1>1, FS_CardinalityType
<1> QED  BY <1>1, <1>2

\* The aliases that last are finitely many, also with the one being registered.
LEMMA LastingFinite ==
    ASSUME Bookkeeping
    PROVE  /\ IsFiniteSet(Lasting) /\ IsFiniteSet(Remaining)
           /\ \A g : IsFiniteSet(OfGroup(Lasting, g)) /\ IsFiniteSet(OfGroup(Remaining, g))
<1>1. IsFiniteSet(Registered)
  BY RowsFinite DEF Bookkeeping, TypeOK, Registered, Rows
<1>2. IsFiniteSet(Lasting)
  BY <1>1, FS_Subset DEF Bookkeeping, NoAccountingLie
<1>3. IsFiniteSet(Lasting \cup {op.alias})
  BY <1>2, FS_AddElement
<1>4. Remaining \in SUBSET (Lasting \cup {op.alias})
  BY DEF Remaining
<1>5. IsFiniteSet(Remaining)
  BY <1>3, <1>4, FS_Subset
<1>6. ASSUME NEW g
      PROVE  OfGroup(Lasting, g) \in SUBSET Lasting /\ OfGroup(Remaining, g) \in SUBSET Remaining
  BY DEF OfGroup
<1> QED  BY <1>2, <1>5, <1>6, FS_Subset

\* Fewer aliases that last keep the bounds.
LEMMA FewerLast ==
    ASSUME Bookkeeping, BoundsKept, Lasting' \subseteq Lasting, group' = group
    PROVE  BoundsKept'
<1>1. Cardinality(Lasting') <= MaxTotal
  BY LastingFinite, SubsetBounded, RegistryConstants DEF BoundsKept
<1>2. ASSUME NEW g \in Groups
      PROVE  Cardinality(OfGroup(Lasting, g)') <= MaxGroup
  <2>1. OfGroup(Lasting, g)' \in SUBSET OfGroup(Lasting, g)
    BY DEF OfGroup
  <2>2. IsFiniteSet(OfGroup(Lasting, g)) /\ Cardinality(OfGroup(Lasting, g)) <= MaxGroup
    BY LastingFinite DEF BoundsKept
  <2> QED  BY <2>1, <2>2, SubsetBounded, RegistryConstants
<1> QED  BY <1>1, <1>2 DEF BoundsKept

\* Fewer that remain keep the promise of the registration.
LEMMA FewerRemain ==
    ASSUME Bookkeeping, BoundsAhead, op.kind = "register",
           Remaining' \subseteq Remaining, op'.alias = op.alias, group' = group
    PROVE  BoundsAhead'
<1>1. Cardinality(Remaining') <= MaxTotal
  BY LastingFinite, SubsetBounded, RegistryConstants DEF BoundsAhead
<1>2. OfGroup(Remaining, group[op.alias])' \in SUBSET OfGroup(Remaining, group[op.alias])
  BY DEF OfGroup
<1>3. /\ IsFiniteSet(OfGroup(Remaining, group[op.alias]))
      /\ Cardinality(OfGroup(Remaining, group[op.alias])) <= MaxGroup
  BY LastingFinite DEF BoundsAhead
<1>4. Cardinality(OfGroup(Remaining, group[op.alias])') <= MaxGroup
  BY <1>2, <1>3, SubsetBounded, RegistryConstants
<1> QED  BY <1>1, <1>4 DEF BoundsAhead

\* A registration ends within the bounds.
LEMMA DoneBounded ==
    ASSUME RegistryInv, OperationDone
    PROVE  BoundsKept'
<1> USE RegistryConstants DEF RegistryInv
<1>1. /\ Lasting' \subseteq Lasting \cup {op.alias}
      /\ op.kind # "register" => Lasting' = Lasting
      /\ op.victims = {} /\ group' = group
  BY OperationEnds
<1>2. CASE op.kind # "register"
  BY <1>1, <1>2, FewerLast
<1>3. CASE op.kind = "register"
  <2>1. Lasting' \in SUBSET Remaining
    BY <1>1 DEF Remaining
  <2>2. Cardinality(Lasting') <= MaxTotal
    BY <1>3, <2>1, LastingFinite, SubsetBounded DEF BoundsAhead
  <2>3. ASSUME NEW g \in Groups
        PROVE  Cardinality(OfGroup(Lasting, g)') <= MaxGroup
    <3>1. CASE g = group[op.alias]
      <4>1. OfGroup(Lasting, g)' \in SUBSET OfGroup(Remaining, g)
        BY <1>1, <2>1 DEF OfGroup
      <4>2. IsFiniteSet(OfGroup(Remaining, g)) /\ Cardinality(OfGroup(Remaining, g)) <= MaxGroup
        BY <1>3, <3>1, LastingFinite DEF BoundsAhead
      <4> QED  BY <4>1, <4>2, SubsetBounded
    <3>2. CASE g # group[op.alias]
      <4>1. OfGroup(Lasting, g)' \in SUBSET OfGroup(Lasting, g)
        BY <1>1, <3>2 DEF OfGroup
      <4>2. IsFiniteSet(OfGroup(Lasting, g)) /\ Cardinality(OfGroup(Lasting, g)) <= MaxGroup
        BY LastingFinite DEF BoundsKept
      <4> QED  BY <4>1, <4>2, SubsetBounded
    <3> QED  BY <3>1, <3>2
  <2> QED  BY <2>2, <2>3 DEF BoundsKept
<1> QED  BY <1>2, <1>3

\* The initial states.
LEMMA RegistryInvInit == Init => RegistryInv
<1> SUFFICES ASSUME Init PROVE RegistryInv
  OBVIOUS
<1>1. Bookkeeping
  BY BookkeepingInit
<1>2. Lasting = {} /\ \A g \in Groups : OfGroup(Lasting, g) = {}
  BY DEF Init, Lasting, OfGroup
<1>3. BoundsKept
  <2>1. Cardinality(Lasting) = 0 /\ \A g \in Groups : Cardinality(OfGroup(Lasting, g)) = 0
    BY <1>2, FS_EmptySet
  <2> QED  BY <2>1, RegistryConstants DEF BoundsKept
<1>4. BoundsAhead
  BY DEF Init, NoOp, BoundsAhead
<1> QED  BY <1>1, <1>3, <1>4 DEF RegistryInv

\* Every step.
LEMMA RegistryInvStep == RegistryInv /\ [Next]_vars => RegistryInv'
<1> SUFFICES ASSUME RegistryInv, [Next]_vars PROVE RegistryInv'
  OBVIOUS
<1> USE DEF RegistryInv
<1>1. ASSUME Bookkeeping', Lasting' \subseteq Lasting, group' = group, op' = op \/ op'.kind # "register"
      PROVE  RegistryInv'
  <2>1. BoundsKept'
    BY <1>1, FewerLast
  <2>2. CASE op'.kind # "register"
    BY <1>1, <2>1, <2>2 DEF BoundsAhead
  <2>3. CASE op' = op /\ op.kind = "register"
    <3>1. Remaining' \subseteq Remaining
      BY <1>1, <2>3 DEF Remaining
    <3>2. BoundsAhead'
      BY <1>1, <2>3, <3>1, FewerRemain
    <3> QED  BY <1>1, <2>1, <3>2
  <2> QED  BY <1>1, <2>2, <2>3
<1>2. CASE (\E a \in Aliases : AliasStep(a)) \/ Tick \/ Sweep \/ RegistryDies
  BY <1>1, <1>2, QuietStep
<1>3. ASSUME NEW a \in Aliases, Register(a)
      PROVE  RegistryInv'
  <2>1. CASE left[a] = 0
    BY <1>1, <1>3, <2>1, RegisterRefused
  <2>2. CASE left[a] # 0
    <3>1. Bookkeeping' /\ BoundsAhead' /\ Lasting' \subseteq Lasting /\ group' = group
      BY <1>3, <2>2, RegisterBegins
    <3> QED  BY <3>1, FewerLast
  <2> QED  BY <2>1, <2>2
<1>4. ASSUME NEW a \in Aliases, Unregister(a)
      PROVE  RegistryInv'
  BY <1>1, <1>4, NoticeArrives
<1>5. ASSUME NEW v \in Aliases, VictimStays(v) \/ VictimUnreachable(v)
      PROVE  RegistryInv'
  BY <1>1, <1>5, VictimKept
<1>6. ASSUME NEW v \in Aliases, VictimGone(v)
      PROVE  RegistryInv'
  <2>1. /\ Bookkeeping'
        /\ Lasting' \subseteq Lasting \ {v}
        /\ v # op.alias
        /\ op'.kind = op.kind /\ op'.alias = op.alias /\ op'.victims = op.victims \ {v}
        /\ group' = group
    BY <1>6, VictimGoes
  <2>2. BoundsKept'
    BY <2>1, FewerLast
  <2>3. Remaining' \subseteq Remaining
    BY <2>1 DEF Remaining
  <2>4. BoundsAhead'
    <3>1. CASE op.kind = "register"
      BY <2>1, <2>3, <3>1, FewerRemain
    <3>2. CASE op.kind # "register"
      BY <2>1, <3>2 DEF BoundsAhead
    <3> QED  BY <3>1, <3>2
  <2> QED  BY <2>1, <2>2, <2>4
<1>7. CASE OperationDone
  <2>1. Bookkeeping' /\ op'.kind = "none"
    BY <1>7, OperationEnds
  <2>2. BoundsKept' /\ BoundsAhead'
    BY <1>7, <2>1, DoneBounded DEF BoundsAhead
  <2> QED  BY <2>1, <2>2
<1>8. CASE UNCHANGED vars
  <2>1. Bookkeeping' /\ BoundsKept' /\ BoundsAhead'
    BY <1>8 DEF vars, Bookkeeping, TypeOK, AskingFresh, WaitsForRegistry, OpShape, NoticesGone,
       NewestLast, NoAccountingLie, BoundsKept, BoundsAhead, Registered, Lasting, Remaining, OfGroup
  <2> QED  BY <2>1
<1> QED  BY <1>2, <1>3, <1>4, <1>5, <1>6, <1>7, <1>8 DEF Next, RegistryStep

-----------------------------------------------------------------------------
(* The theorems.                                                           *)

\* The inductive invariant of the registry and the alias objects.
THEOREM RegistryInvariant == Spec => []RegistryInv
BY RegistryInvInit, RegistryInvStep, PTL DEF Spec

\* Types; the registry holds an alias once, though its table is written by
\* registrations, notices and evictions in any order (registerResponseAlias,
\* unregisterResponseAlias).
THEOREM RegistryTypes == Spec => []TypeOK
<1>1. RegistryInv => TypeOK
  BY DEF RegistryInv, Bookkeeping
<1> QED  BY <1>1, RegistryInvariant, PTL

\* The registry loses sight of no alias that lasts
\* (registerResponseAliasLocked, deleteCurrentState).
THEOREM NothingLost == Spec => []NoAccountingLie
<1>1. RegistryInv => NoAccountingLie
  BY DEF RegistryInv, Bookkeeping
<1> QED  BY <1>1, RegistryInvariant, PTL

\* The bounds per conversation and per tenant hold whenever the registry is at
\* rest, whatever calls failed and objects died (registerResponseAliasLocked).
THEOREM AliasesBounded == Spec => []AliasBounds
<1>1. RegistryInv => AliasBounds
  BY DEF RegistryInv, BoundsKept, AliasBounds, OfGroup
<1> QED  BY <1>1, RegistryInvariant, PTL

\* An alias that lasts and goes before its time is not in use, and a newer one
\* takes its place (evictResponseAlias, registerResponseAliasLocked).
THEOREM OnlyNewerDisplace == Spec => OnlyNewerDisplaces
<1> DEFINE Fair ==
        \A i \in 1..Len(reg) :
            reg[i] \in Lasting \ live' /\ left[reg[i]] > 0 =>
                /\ reg[i] \notin leased
                /\ op.kind = "register"
                /\ \E j \in (i + 1)..Len(reg) : reg[j] = op.alias
<1>1. RegistryInv /\ [Next]_vars => [Fair]_vars
  <2> SUFFICES ASSUME RegistryInv, Next,
                      NEW i \in 1..Len(reg), reg[i] \in Lasting \ live', left[reg[i]] > 0
               PROVE  /\ reg[i] \notin leased
                      /\ op.kind = "register"
                      /\ \E j \in (i + 1)..Len(reg) : reg[j] = op.alias
    OBVIOUS
  <2> DEFINE v == reg[i]
  <2>1. v \in Aliases /\ v \in live /\ seeds[v] = "none" /\ v \notin live'
    BY DEF RegistryInv, Bookkeeping, TypeOK, Lasting
  <2>2. v \in op.victims /\ v \notin leased
    <3>1. ASSUME NEW a \in Aliases, AliasStep(a)  PROVE FALSE
      BY <2>1, <3>1 DEF AliasStep, Seed, SeedFails, SeedDies, SeedUnanswered, Acquire, EndLease,
         Expire, NoticeLost, Evicted, objects, RegistryInv, Bookkeeping, TypeOK
    <3>2. CASE Tick \/ Sweep \/ RegistryDies \/ OperationDone
      BY <2>1, <3>2 DEF Tick, Sweep, RegistryDies, OperationDone, objects
    <3>3. ASSUME NEW a \in Aliases, Register(a) \/ Unregister(a)  PROVE FALSE
      BY <2>1, <3>3 DEF Register, Unregister, objects
    <3>4. ASSUME NEW b \in Aliases, VictimStays(b) \/ VictimGone(b) \/ VictimUnreachable(b)
          PROVE  v \in op.victims /\ v \notin leased
      BY <2>1, <3>4 DEF VictimStays, VictimGone, VictimUnreachable, Evicted, objects
    <3> QED  BY <3>1, <3>2, <3>3, <3>4 DEF Next, RegistryStep
  <2>3. op.kind = "register"
    <3>1. op.kind # "none"
      BY <2>2 DEF RegistryInv, Bookkeeping, OpShape, NoOp
    <3>2. op.kind # "sweep"
      BY <2>2 DEF RegistryInv, Bookkeeping, OpShape
    <3> QED  BY <3>1, <3>2 DEF RegistryInv, Bookkeeping, TypeOK, Operation
  <2>4. op.alias \in Registered \ Lasting
    BY <2>3 DEF RegistryInv, Bookkeeping, OpShape
  <2>5. PICK j \in 1..Len(reg) : reg[j] = op.alias
    BY <2>4 DEF Registered
  <2>6. j # i
    BY <2>4, <2>5
  <2>7. ~(j < i)
    BY <2>3, <2>5 DEF RegistryInv, Bookkeeping, NewestLast
  <2>8. j \in (i + 1)..Len(reg)
    BY <2>6, <2>7 DEF RegistryInv, Bookkeeping, TypeOK
  <2> QED  BY <2>2, <2>3, <2>5, <2>8
<1>2. Spec => [][Fair]_vars
  BY <1>1, RegistryInvariant, PTL DEF Spec
<1> QED  BY <1>2 DEF OnlyNewerDisplaces
=============================================================================
