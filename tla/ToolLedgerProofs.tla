-------------------------- MODULE ToolLedgerProofs --------------------------
(***************************************************************************)
(* Proofs about ToolLedger: the ledger of a request is true to what was    *)
(* executed, honest clients that continue a session are not refused, loops *)
(* are bounded, repeated failures are not handed out and claims made in    *)
(* the context of tools are backed, for any tools, errors, limits and      *)
(* length of the conversation that keep LedgerAssumption.                  *)
(*                                                                         *)
(* A chain does not restore what was executed: a snapshot merges the       *)
(* executions of an action, so their order, which of them failed and how   *)
(* is partly lost.  Mirrors(c, d) says what survives: c, as restored, has  *)
(* as many executions of each action as d, no shorter a run at the end,    *)
(* no other order of the last executions, and no failed action that it     *)
(* forgets.  It is enough for the guards, it survives one more execution,  *)
(* and saving and restoring keep it (SnapshotCovers).                      *)
(*                                                                         *)
(* The inductive invariant LedgerProtocol says how the client's history    *)
(* and the alias row fit together: the row is empty and the turn or, if no *)
(* session is found, the whole conversation is replayed (RowEmpty), or it  *)
(* covers the executions so far (RowAnswered), or it waits for a call that *)
(* is the last item, or whose result is (RowCalled).  The limits are kept  *)
(* by the executions and by the call that is handed out                    *)
(* (WithinLimits(Course)): that is why the parser of the next request      *)
(* accepts what the guard of this one allowed.                             *)
(*                                                                         *)
(* Loops over items, entries and executions are recursive functions; what  *)
(* they compute is shown by induction on the length of what is processed.  *)
(***************************************************************************)
EXTENDS ToolLedger, WellFoundedInduction, FiniteSetTheorems, SequenceTheorems, TLAPS

-----------------------------------------------------------------------------
(* Induction over the natural numbers.                                     *)

\* A nonempty set of natural numbers has a least element.
LEMMA LeastNat ==
    ASSUME NEW T \in SUBSET Nat, T # {}
    PROVE  \E m \in T : \A n \in T : m <= n
<1> DEFINE R == {p \in Nat \X Nat : p[1] < p[2]}
<1>1. R = OpToRel(<, Nat)
  BY Zenon DEF OpToRel
<1>2. IsWellFoundedOn(R, Nat)
  BY <1>1, NatLessThanWellFounded, Zenon
<1> HIDE DEF R
<1>3. PICK m \in T : \A n \in T : ~(<<n, m>> \in R)
  BY <1>2, WFMin, Zenon
<1>4. ASSUME NEW n \in T  PROVE m <= n
  <2>1. <<n, m>> \notin R  BY <1>3
  <2>2. n \in Nat /\ m \in Nat  OBVIOUS
  <2> QED  BY <2>1, <2>2, SMT DEF R
<1> QED  BY <1>4

\* A set with a, and with i if with i - 1, has every number from a to n.
LEMMA UpTo ==
    ASSUME NEW a \in Nat, NEW n \in Nat, NEW P,
           a \in P, \A i \in (a + 1)..n : i - 1 \in P => i \in P
    PROVE  a..n \subseteq P
<1> DEFINE T == {i \in a..n : i \notin P}
<1>1. SUFFICES ASSUME T # {} PROVE FALSE
  OBVIOUS
<1>2. T \in SUBSET Nat
  OBVIOUS
<1> HIDE DEF T
<1>3. PICK m \in T : \A k \in T : m <= k
  BY <1>1, <1>2, LeastNat
<1>4. m \in a..n /\ m \notin P
  BY DEF T
<1>5. m \in (a + 1)..n /\ m - 1 \in a..n
  BY <1>4
<1>6. m - 1 \in P
  BY <1>3, <1>5 DEF T
<1> QED  BY <1>4, <1>5, <1>6

-----------------------------------------------------------------------------
(* The three loops: their value on nothing, and one element more.          *)

\* f is the loop of AddItems over the first n elements of w.
ItemLoop(f, s, w, n) ==
    f = [i \in 0..n |-> IF i = 0 THEN s ELSE AddItem(f[i - 1], w[i])]

LEMMA ItemsLoop ==
    ASSUME NEW s, NEW w, NEW n \in Nat
    PROVE  \E f : ItemLoop(f, s, w, n)
<1> DEFINE Step(v, i) == AddItem(v, w[i])
           Loop(f, k) == f = [i \in 0..k |-> IF i = 0 THEN s ELSE Step(f[i - 1], i)]
           P == {k \in 0..n : \E f : Loop(f, k)}
<1> HIDE DEF Step
<1>1. 0 \in P
  <2> DEFINE f == [i \in 0..0 |-> s]
  <2>1. Loop(f, 0)
    OBVIOUS
  <2>2. 0 \in 0..n
    OBVIOUS
  <2> HIDE DEF f, Loop
  <2> QED  BY <2>1, <2>2
<1>2. ASSUME NEW k \in 1..n, k - 1 \in P
      PROVE  k \in P
  <2>1. PICK h : Loop(h, k - 1)
    BY <1>2
  <2> DEFINE f == [i \in 0..k |-> IF i = k THEN Step(h[k - 1], k) ELSE h[i]]
             g == [i \in 0..k |-> IF i = 0 THEN s ELSE Step(f[i - 1], i)]
  <2>2. ASSUME NEW i \in 0..k PROVE f[i] = g[i]
    <3>1. CASE i = k
      BY <3>1
    <3>2. CASE i # k
      <4>1. i \in 0..(k - 1) /\ f[i] = h[i]  BY <3>2
      <4>2. h[i] = IF i = 0 THEN s ELSE Step(h[i - 1], i)  BY <2>1, <4>1
      <4>3. i # 0 => f[i - 1] = h[i - 1]  BY <3>2
      <4> QED  BY <4>1, <4>2, <4>3
    <3> QED  BY <3>1, <3>2
  <2>3. f = g
    BY <2>2
  <2>4. \E e : Loop(e, k)
    <3>1. Loop(f, k)  BY <2>3
    <3> QED  BY <3>1
  <2> HIDE DEF Loop
  <2> QED  BY <2>4
<1>3. n \in P
  <2> HIDE DEF P
  <2>1. 0..n \subseteq P  BY <1>1, <1>2, UpTo
  <2> QED  BY <2>1
<1> QED  BY <1>3 DEF Step, ItemLoop

LEMMA ItemsStep ==
    /\ \A s : AddItems(s, <<>>) = s
    /\ \A s, w, v : /\ Len(w) \in Nat /\ Len(v) = Len(w) + 1
                    /\ \A i \in 1..Len(w) : v[i] = w[i]
                    => AddItems(s, v) = AddItem(AddItems(s, w), v[Len(v)])
<1> DEFINE A(s, w) == CHOOSE f : ItemLoop(f, s, w, Len(w))
<1>1. ASSUME NEW s, NEW w, Len(w) \in Nat
      PROVE  ItemLoop(A(s, w), s, w, Len(w))
  <2>1. \E f : ItemLoop(f, s, w, Len(w))
    BY <1>1, ItemsLoop
  <2> QED  BY <2>1
<1>2. ASSUME NEW s, NEW w PROVE AddItems(s, w) = A(s, w)[Len(w)]
  BY DEF AddItems, ItemLoop
<1> HIDE DEF A
<1>3. ASSUME NEW s PROVE AddItems(s, <<>>) = s
  <2>1. Len(<<>>) = 0  OBVIOUS
  <2>2. ItemLoop(A(s, <<>>), s, <<>>, 0)  BY <1>1, <2>1
  <2>3. A(s, <<>>)[0] = s  BY <2>2 DEF ItemLoop
  <2> QED  BY <2>1, <2>3, <1>2
<1>4. ASSUME NEW s, NEW w, NEW v, Len(w) \in Nat, Len(v) = Len(w) + 1,
             \A i \in 1..Len(w) : v[i] = w[i]
      PROVE  AddItems(s, v) = AddItem(AddItems(s, w), v[Len(v)])
  <2> DEFINE n == Len(w)  f == A(s, w)  g == A(s, v)
             P == {i \in 0..n : f[i] = g[i]}
  <2>1. n \in Nat /\ Len(v) = n + 1 /\ n + 1 \in Nat
    BY <1>4
  <2>2. ItemLoop(f, s, w, n) /\ ItemLoop(g, s, v, n + 1)
    BY <1>1, <2>1
  <2> HIDE DEF n, f, g
  <2>3. f[0] = s /\ \A i \in 1..n : f[i] = AddItem(f[i - 1], w[i])
    BY <2>1, <2>2 DEF ItemLoop
  <2>4. g[0] = s /\ \A i \in 1..(n + 1) : g[i] = AddItem(g[i - 1], v[i])
    BY <2>1, <2>2 DEF ItemLoop
  <2>5. 0 \in P
    BY <2>1, <2>3, <2>4
  <2>6. ASSUME NEW i \in 1..n, i - 1 \in P PROVE i \in P
    <3>1. f[i - 1] = g[i - 1]  BY <2>6
    <3>2. v[i] = w[i]  BY <1>4 DEF n
    <3>3. f[i] = AddItem(f[i - 1], w[i]) /\ g[i] = AddItem(g[i - 1], v[i])  BY <2>1, <2>3, <2>4
    <3>4. f[i] = g[i]  BY <3>1, <3>2, <3>3
    <3> QED  BY <3>4
  <2>7. n \in P
    <3> HIDE DEF P
    <3>1. \A i \in (0 + 1)..n : i - 1 \in P => i \in P  BY <2>6
    <3>2. 0..n \subseteq P  BY ONLY <2>1, <2>5, <3>1, UpTo
    <3> QED  BY <3>2, <2>1
  <2>8. g[n + 1] = AddItem(g[n], v[n + 1])
    <3>1. n + 1 \in 1..(n + 1) /\ (n + 1) - 1 = n  BY <2>1
    <3> QED  BY <3>1, <2>4
  <2>9. AddItems(s, v) = g[n + 1] /\ AddItems(s, w) = f[n]
    BY <1>2, <2>1 DEF f, g, n
  <2>10. f[n] = g[n]  BY <2>7
  <2> QED  BY <2>1, <2>8, <2>9, <2>10
<1> QED  BY <1>3, <1>4
\* f is the loop of AddCompletedSnapshots over the first n elements of w.
SnapshotLoop(f, w, n) ==
    f = [i \in 0..n |-> IF i = 0 THEN EmptyState ELSE AddSnapshot(f[i - 1], w[i])]

LEMMA SnapshotLoops ==
    ASSUME NEW w, NEW n \in Nat
    PROVE  \E f : SnapshotLoop(f, w, n)
<1> DEFINE Step(v, i) == AddSnapshot(v, w[i])
           Loop(f, k) == f = [i \in 0..k |-> IF i = 0 THEN EmptyState ELSE Step(f[i - 1], i)]
           P == {k \in 0..n : \E f : Loop(f, k)}
<1> HIDE DEF Step
<1>1. 0 \in P
  <2> DEFINE f == [i \in 0..0 |-> EmptyState]
  <2>1. Loop(f, 0)
    OBVIOUS
  <2>2. 0 \in 0..n
    OBVIOUS
  <2> HIDE DEF f, Loop
  <2> QED  BY <2>1, <2>2
<1>2. ASSUME NEW k \in 1..n, k - 1 \in P
      PROVE  k \in P
  <2>1. PICK h : Loop(h, k - 1)
    BY <1>2
  <2> DEFINE f == [i \in 0..k |-> IF i = k THEN Step(h[k - 1], k) ELSE h[i]]
             g == [i \in 0..k |-> IF i = 0 THEN EmptyState ELSE Step(f[i - 1], i)]
  <2>2. ASSUME NEW i \in 0..k PROVE f[i] = g[i]
    <3>1. CASE i = k
      BY <3>1
    <3>2. CASE i # k
      <4>1. i \in 0..(k - 1) /\ f[i] = h[i]  BY <3>2
      <4>2. h[i] = IF i = 0 THEN EmptyState ELSE Step(h[i - 1], i)  BY <2>1, <4>1
      <4>3. i # 0 => f[i - 1] = h[i - 1]  BY <3>2
      <4> QED  BY <4>1, <4>2, <4>3
    <3> QED  BY <3>1, <3>2
  <2>3. f = g
    BY <2>2
  <2>4. \E e : Loop(e, k)
    <3>1. Loop(f, k)  BY <2>3
    <3> QED  BY <3>1
  <2> HIDE DEF Loop
  <2> QED  BY <2>4
<1>3. n \in P
  <2> HIDE DEF P
  <2>1. 0..n \subseteq P  BY <1>1, <1>2, UpTo
  <2> QED  BY <2>1
<1> QED  BY <1>3 DEF Step, SnapshotLoop

LEMMA SnapshotStep ==
    /\ AddCompletedSnapshots(<<>>) = EmptyState
    /\ \A w, v : /\ Len(w) \in Nat /\ Len(v) = Len(w) + 1
                 /\ \A i \in 1..Len(w) : v[i] = w[i]
                 => AddCompletedSnapshots(v) = AddSnapshot(AddCompletedSnapshots(w), v[Len(v)])
<1> DEFINE A(w) == CHOOSE f : SnapshotLoop(f, w, Len(w))
<1>1. ASSUME NEW w, Len(w) \in Nat
      PROVE  SnapshotLoop(A(w), w, Len(w))
  <2>1. \E f : SnapshotLoop(f, w, Len(w))
    BY <1>1, SnapshotLoops
  <2> QED  BY <2>1
<1>2. ASSUME NEW w PROVE AddCompletedSnapshots(w) = A(w)[Len(w)]
  BY DEF AddCompletedSnapshots, SnapshotLoop
<1> HIDE DEF A
<1>3. AddCompletedSnapshots(<<>>) = EmptyState
  <2>1. Len(<<>>) = 0  OBVIOUS
  <2>2. SnapshotLoop(A(<<>>), <<>>, 0)  BY <1>1, <2>1
  <2>3. A(<<>>)[0] = EmptyState  BY <2>2 DEF SnapshotLoop
  <2> QED  BY <2>1, <2>3, <1>2
<1>4. ASSUME NEW w, NEW v, Len(w) \in Nat, Len(v) = Len(w) + 1,
             \A i \in 1..Len(w) : v[i] = w[i]
      PROVE  AddCompletedSnapshots(v) = AddSnapshot(AddCompletedSnapshots(w), v[Len(v)])
  <2> DEFINE n == Len(w)  f == A(w)  g == A(v)
             P == {i \in 0..n : f[i] = g[i]}
  <2>1. n \in Nat /\ Len(v) = n + 1 /\ n + 1 \in Nat
    BY <1>4
  <2>2. SnapshotLoop(f, w, n) /\ SnapshotLoop(g, v, n + 1)
    BY <1>1, <2>1
  <2> HIDE DEF n, f, g
  <2>3. f[0] = EmptyState /\ \A i \in 1..n : f[i] = AddSnapshot(f[i - 1], w[i])
    BY <2>1, <2>2 DEF SnapshotLoop
  <2>4. g[0] = EmptyState /\ \A i \in 1..(n + 1) : g[i] = AddSnapshot(g[i - 1], v[i])
    BY <2>1, <2>2 DEF SnapshotLoop
  <2>5. 0 \in P
    BY <2>1, <2>3, <2>4
  <2>6. ASSUME NEW i \in 1..n, i - 1 \in P PROVE i \in P
    <3>1. f[i - 1] = g[i - 1]  BY <2>6
    <3>2. v[i] = w[i]  BY <1>4 DEF n
    <3>3. f[i] = AddSnapshot(f[i - 1], w[i]) /\ g[i] = AddSnapshot(g[i - 1], v[i])  BY <2>1, <2>3, <2>4
    <3>4. f[i] = g[i]  BY <3>1, <3>2, <3>3
    <3> QED  BY <3>4
  <2>7. n \in P
    <3> HIDE DEF P
    <3>1. \A i \in (0 + 1)..n : i - 1 \in P => i \in P  BY <2>6
    <3>2. 0..n \subseteq P  BY ONLY <2>1, <2>5, <3>1, UpTo
    <3> QED  BY <3>2, <2>1
  <2>8. g[n + 1] = AddSnapshot(g[n], v[n + 1])
    <3>1. n + 1 \in 1..(n + 1) /\ (n + 1) - 1 = n  BY <2>1
    <3> QED  BY <3>1, <2>4
  <2>9. AddCompletedSnapshots(v) = g[n + 1] /\ AddCompletedSnapshots(w) = f[n]
    BY <1>2, <2>1 DEF f, g, n
  <2>10. f[n] = g[n]  BY <2>7
  <2> QED  BY <2>1, <2>8, <2>9, <2>10
<1> QED  BY <1>3, <1>4
\* f is the loop of Noted over the first n elements of w.
NoteLoop(f, w, n) ==
    f = [i \in 0..n |-> IF i = 0 THEN <<>> ELSE NoteCompleted(f[i - 1], w[i])]

LEMMA NoteLoops ==
    ASSUME NEW w, NEW n \in Nat
    PROVE  \E f : NoteLoop(f, w, n)
<1> DEFINE Step(v, i) == NoteCompleted(v, w[i])
           Loop(f, k) == f = [i \in 0..k |-> IF i = 0 THEN <<>> ELSE Step(f[i - 1], i)]
           P == {k \in 0..n : \E f : Loop(f, k)}
<1> HIDE DEF Step
<1>1. 0 \in P
  <2> DEFINE f == [i \in 0..0 |-> <<>>]
  <2>1. Loop(f, 0)
    OBVIOUS
  <2>2. 0 \in 0..n
    OBVIOUS
  <2> HIDE DEF f, Loop
  <2> QED  BY <2>1, <2>2
<1>2. ASSUME NEW k \in 1..n, k - 1 \in P
      PROVE  k \in P
  <2>1. PICK h : Loop(h, k - 1)
    BY <1>2
  <2> DEFINE f == [i \in 0..k |-> IF i = k THEN Step(h[k - 1], k) ELSE h[i]]
             g == [i \in 0..k |-> IF i = 0 THEN <<>> ELSE Step(f[i - 1], i)]
  <2>2. ASSUME NEW i \in 0..k PROVE f[i] = g[i]
    <3>1. CASE i = k
      BY <3>1
    <3>2. CASE i # k
      <4>1. i \in 0..(k - 1) /\ f[i] = h[i]  BY <3>2
      <4>2. h[i] = IF i = 0 THEN <<>> ELSE Step(h[i - 1], i)  BY <2>1, <4>1
      <4>3. i # 0 => f[i - 1] = h[i - 1]  BY <3>2
      <4> QED  BY <4>1, <4>2, <4>3
    <3> QED  BY <3>1, <3>2
  <2>3. f = g
    BY <2>2
  <2>4. \E e : Loop(e, k)
    <3>1. Loop(f, k)  BY <2>3
    <3> QED  BY <3>1
  <2> HIDE DEF Loop
  <2> QED  BY <2>4
<1>3. n \in P
  <2> HIDE DEF P
  <2>1. 0..n \subseteq P  BY <1>1, <1>2, UpTo
  <2> QED  BY <2>1
<1> QED  BY <1>3 DEF Step, NoteLoop

LEMMA NoteStep ==
    /\ Noted(<<>>) = <<>>
    /\ \A w, v : /\ Len(w) \in Nat /\ Len(v) = Len(w) + 1
                 /\ \A i \in 1..Len(w) : v[i] = w[i]
                 => Noted(v) = NoteCompleted(Noted(w), v[Len(v)])
<1> DEFINE A(w) == CHOOSE f : NoteLoop(f, w, Len(w))
<1>1. ASSUME NEW w, Len(w) \in Nat
      PROVE  NoteLoop(A(w), w, Len(w))
  <2>1. \E f : NoteLoop(f, w, Len(w))
    BY <1>1, NoteLoops
  <2> QED  BY <2>1
<1>2. ASSUME NEW w PROVE Noted(w) = A(w)[Len(w)]
  BY DEF Noted, NoteLoop
<1> HIDE DEF A
<1>3. Noted(<<>>) = <<>>
  <2>1. Len(<<>>) = 0  OBVIOUS
  <2>2. NoteLoop(A(<<>>), <<>>, 0)  BY <1>1, <2>1
  <2>3. A(<<>>)[0] = <<>>  BY <2>2 DEF NoteLoop
  <2> QED  BY <2>1, <2>3, <1>2
<1>4. ASSUME NEW w, NEW v, Len(w) \in Nat, Len(v) = Len(w) + 1,
             \A i \in 1..Len(w) : v[i] = w[i]
      PROVE  Noted(v) = NoteCompleted(Noted(w), v[Len(v)])
  <2> DEFINE n == Len(w)  f == A(w)  g == A(v)
             P == {i \in 0..n : f[i] = g[i]}
  <2>1. n \in Nat /\ Len(v) = n + 1 /\ n + 1 \in Nat
    BY <1>4
  <2>2. NoteLoop(f, w, n) /\ NoteLoop(g, v, n + 1)
    BY <1>1, <2>1
  <2> HIDE DEF n, f, g
  <2>3. f[0] = <<>> /\ \A i \in 1..n : f[i] = NoteCompleted(f[i - 1], w[i])
    BY <2>1, <2>2 DEF NoteLoop
  <2>4. g[0] = <<>> /\ \A i \in 1..(n + 1) : g[i] = NoteCompleted(g[i - 1], v[i])
    BY <2>1, <2>2 DEF NoteLoop
  <2>5. 0 \in P
    BY <2>1, <2>3, <2>4
  <2>6. ASSUME NEW i \in 1..n, i - 1 \in P PROVE i \in P
    <3>1. f[i - 1] = g[i - 1]  BY <2>6
    <3>2. v[i] = w[i]  BY <1>4 DEF n
    <3>3. f[i] = NoteCompleted(f[i - 1], w[i]) /\ g[i] = NoteCompleted(g[i - 1], v[i])  BY <2>1, <2>3, <2>4
    <3>4. f[i] = g[i]  BY <3>1, <3>2, <3>3
    <3> QED  BY <3>4
  <2>7. n \in P
    <3> HIDE DEF P
    <3>1. \A i \in (0 + 1)..n : i - 1 \in P => i \in P  BY <2>6
    <3>2. 0..n \subseteq P  BY ONLY <2>1, <2>5, <3>1, UpTo
    <3> QED  BY <3>2, <2>1
  <2>8. g[n + 1] = NoteCompleted(g[n], v[n + 1])
    <3>1. n + 1 \in 1..(n + 1) /\ (n + 1) - 1 = n  BY <2>1
    <3> QED  BY <3>1, <2>4
  <2>9. Noted(v) = g[n + 1] /\ Noted(w) = f[n]
    BY <1>2, <2>1 DEF f, g, n
  <2>10. f[n] = g[n]  BY <2>7
  <2> QED  BY <2>1, <2>8, <2>9, <2>10
<1> QED  BY <1>3, <1>4
-----------------------------------------------------------------------------
(* Counting the executions of an action.                                   *)

\* Where an action occurs in s.
At(s, p) == {i \in DOMAIN s : s[i].print = p}

LEMMA AtFinite ==
    ASSUME NEW S, NEW s \in Seq(S), NEW p
    PROVE  /\ At(s, p) \subseteq 1..Len(s) /\ IsFiniteSet(At(s, p))
           /\ Times(s, p) = Cardinality(At(s, p)) /\ Times(s, p) \in Nat
           /\ Times(s, p) = 0 <=> At(s, p) = {}
<1>1. Len(s) \in Nat /\ DOMAIN s = 1..Len(s)
  OBVIOUS
<1>2. At(s, p) \in SUBSET (1..Len(s))
  BY <1>1 DEF At
<1>3. IsFiniteSet(1..Len(s))
  BY <1>1, FS_Interval
<1>4. IsFiniteSet(At(s, p))
  BY <1>2, <1>3, FS_Subset
<1>5. Times(s, p) = Cardinality(At(s, p))
  BY DEF Times, At
<1> QED  BY <1>2, <1>4, <1>5, FS_CardinalityType, FS_EmptySet

LEMMA TimesAppend ==
    ASSUME NEW S, NEW s \in Seq(S), NEW x \in S, NEW p
    PROVE  Times(Append(s, x), p) = IF x.print = p THEN Times(s, p) + 1 ELSE Times(s, p)
<1> DEFINE t == Append(s, x)  n == Len(s) + 1
<1>1. t \in Seq(S) /\ Len(t) = n /\ t[n] = x /\ \A i \in 1..Len(s) : t[i] = s[i]
  OBVIOUS
<1>2. DOMAIN t = 1..n /\ DOMAIN s = 1..Len(s) /\ Len(s) \in Nat
  BY <1>1
<1> HIDE DEF t
<1>3. n \notin At(s, p) /\ n \in Nat
  BY <1>2 DEF At
<1>4. IsFiniteSet(At(s, p)) /\ Times(s, p) = Cardinality(At(s, p)) /\ Times(t, p) = Cardinality(At(t, p))
  BY <1>1, AtFinite
<1>5. CASE x.print = p
  <2>1. At(t, p) = At(s, p) \cup {n}
    BY <1>1, <1>2, <1>5 DEF At
  <2>2. Cardinality(At(s, p) \cup {n}) = Cardinality(At(s, p)) + 1
    BY <1>3, <1>4, FS_AddElement
  <2> QED  BY <1>4, <1>5, <2>1, <2>2 DEF t
<1>6. CASE x.print # p
  <2>1. At(t, p) = At(s, p)
    BY <1>1, <1>2, <1>6 DEF At
  <2> QED  BY <1>4, <1>6, <2>1 DEF t
<1> QED  BY <1>5, <1>6

\* Only the actions matter.
LEMMA TimesSame ==
    ASSUME NEW S, NEW T, NEW s \in Seq(S), NEW t \in Seq(T), NEW p, Len(s) = Len(t),
           \A i \in 1..Len(s) : s[i].print = t[i].print
    PROVE  Times(s, p) = Times(t, p)
<1>1. DOMAIN s = DOMAIN t /\ DOMAIN s = 1..Len(s)
  OBVIOUS
<1> QED  BY <1>1 DEF Times

\* A part of s, moved by d.
LEMMA TimesPart ==
    ASSUME NEW S, NEW T, NEW s \in Seq(S), NEW t \in Seq(T), NEW p, NEW d \in Nat,
           d + Len(t) <= Len(s),
           \A i \in 1..Len(t) : t[i].print = s[d + i].print
    PROVE  Times(t, p) <= Times(s, p)
<1> DEFINE f == [i \in At(t, p) |-> d + i]
<1>1. DOMAIN s = 1..Len(s) /\ DOMAIN t = 1..Len(t) /\ Len(s) \in Nat /\ Len(t) \in Nat
  OBVIOUS
<1>2. \A i \in At(t, p) : d + i \in At(s, p) /\ i \in Nat
  BY <1>1 DEF At
<1>3. f \in Injection(At(t, p), At(s, p))
  BY <1>2 DEF Injection, IsInjective
<1>4. IsFiniteSet(At(s, p)) /\ Times(s, p) = Cardinality(At(s, p)) /\ Times(t, p) = Cardinality(At(t, p))
  BY AtFinite
<1> QED  BY <1>3, <1>4, FS_Injection

\* t is s with k more executions of q.
Longer(t, s, q, k) ==
    /\ Len(t) = Len(s) + k
    /\ \A i \in 1..Len(s) : t[i] = s[i]
    /\ \A i \in (Len(s) + 1)..(Len(s) + k) : t[i].print = q

LEMMA TimesBlock ==
    ASSUME NEW S, NEW s \in Seq(S), NEW t \in Seq(S), NEW p, NEW k \in Nat, Longer(t, s, p, k)
    PROVE  Times(t, p) = Times(s, p) + k
<1> DEFINE B == (Len(s) + 1)..(Len(s) + k)
<1>1. /\ DOMAIN s = 1..Len(s) /\ DOMAIN t = 1..(Len(s) + k) /\ Len(s) \in Nat
      /\ \A i \in 1..Len(s) : t[i] = s[i]
      /\ \A i \in (Len(s) + 1)..(Len(s) + k) : t[i].print = p
  BY DEF Longer
<1>2. /\ IsFiniteSet(At(s, p)) /\ Times(s, p) = Cardinality(At(s, p)) /\ Times(s, p) \in Nat
      /\ Times(t, p) = Cardinality(At(t, p))
  BY AtFinite
<1>3. IsFiniteSet(B) /\ Cardinality(B) = k
  BY <1>1, FS_Interval
<1>4. At(t, p) = At(s, p) \cup B /\ At(s, p) \cap B = {}
  BY <1>1 DEF At
<1>5. Cardinality(At(s, p) \cup B) = Cardinality(At(s, p)) + k - Cardinality({})
  BY <1>2, <1>3, <1>4, FS_Union
<1> HIDE DEF B
<1> QED  BY <1>2, <1>4, <1>5, FS_EmptySet

LEMMA TimesOther ==
    ASSUME NEW S, NEW s \in Seq(S), NEW t \in Seq(S), NEW q, NEW k \in Nat, Longer(t, s, q, k),
           NEW p, p # q
    PROVE  Times(t, p) = Times(s, p)
<1>1. /\ DOMAIN s = 1..Len(s) /\ DOMAIN t = 1..(Len(s) + k) /\ Len(s) \in Nat
      /\ \A i \in 1..Len(s) : t[i] = s[i]
      /\ \A i \in (Len(s) + 1)..(Len(s) + k) : t[i].print = q
  BY DEF Longer
<1>2. At(t, p) = At(s, p)
  BY <1>1 DEF At
<1> QED  BY <1>2, AtFinite

\* As many executions of every action are as many executions.
LEMMA TimesLen ==
    ASSUME NEW S, NEW T, NEW s \in Seq(S), NEW t \in Seq(T), NEW Q,
           \A i \in 1..Len(s) : s[i].print \in Q,
           \A i \in 1..Len(t) : t[i].print \in Q,
           \A p \in Q : Times(s, p) = Times(t, p)
    PROVE  Len(s) = Len(t)
<1> DEFINE In(A, p) == {i \in A : s[i].print = p}
           Same(A, B) == \A p \in Q : Cardinality(In(A, p)) = Cardinality({i \in B : t[i].print = p})
           P == {n \in 0..Len(s) : \A A \in SUBSET (1..Len(s)), B \in SUBSET (1..Len(t)) :
                    Cardinality(A) = n /\ Same(A, B) => Cardinality(B) = n}
<1>0. /\ DOMAIN s = 1..Len(s) /\ DOMAIN t = 1..Len(t) /\ Len(s) \in Nat /\ Len(t) \in Nat
      /\ IsFiniteSet(1..Len(s)) /\ IsFiniteSet(1..Len(t))
      /\ Cardinality(1..Len(s)) = Len(s) /\ Cardinality(1..Len(t)) = Len(t)
  <2>1. DOMAIN s = 1..Len(s) /\ DOMAIN t = 1..Len(t) /\ Len(s) \in Nat /\ Len(t) \in Nat
    OBVIOUS
  <2>2. \A n \in Nat : IsFiniteSet(1..n) /\ Cardinality(1..n) = n
    BY FS_Interval
  <2> QED  BY <2>1, <2>2
<1>1. 0 \in P
  <2> SUFFICES ASSUME NEW A \in SUBSET (1..Len(s)), NEW B \in SUBSET (1..Len(t)),
                      Cardinality(A) = 0, Same(A, B)
               PROVE  Cardinality(B) = 0
    BY <1>0
  <2>1. A = {} /\ IsFiniteSet(B)
    BY <1>0, FS_Subset, FS_EmptySet
  <2>2. ASSUME NEW b \in B PROVE FALSE
    <3> DEFINE p == t[b].print  W == {i \in B : t[i].print = p}
    <3>1. p \in Q  OBVIOUS
    <3>2. In(A, p) = {}  BY <2>1
    <3>3. Cardinality(W) = 0  BY <3>1, <3>2, FS_EmptySet
    <3>4. IsFiniteSet(W)  BY <2>1, FS_Subset
    <3>5. W = {}  BY <3>3, <3>4, FS_EmptySet
    <3> QED  BY <3>5
  <2>3. B = {}  BY <2>2
  <2> QED  BY <2>3, FS_EmptySet
<1>2. ASSUME NEW n \in 1..Len(s), n - 1 \in P PROVE n \in P
  <2> SUFFICES ASSUME NEW A \in SUBSET (1..Len(s)), NEW B \in SUBSET (1..Len(t)),
                      Cardinality(A) = n, Same(A, B)
               PROVE  Cardinality(B) = n
    <3>1. n \in 0..Len(s)  BY <1>0
    <3> HIDE DEF Same
    <3> QED  BY <3>1
  <2>1. IsFiniteSet(A) /\ IsFiniteSet(B)
    BY <1>0, FS_Subset
  <2>2. PICK a \in A : TRUE
    <3>1. n # 0  BY <1>0
    <3> QED  BY <3>1, <2>1, FS_EmptySet
  <2> DEFINE q == s[a].print
             W(p) == {i \in B : t[i].print = p}
             V(p) == In(A, p)
  <2>3. q \in Q
    OBVIOUS
  <2>4. ASSUME NEW p PROVE IsFiniteSet(W(p)) /\ IsFiniteSet(V(p)) /\ Cardinality(W(p)) \in Nat
    <3>1. W(p) \in SUBSET B /\ V(p) \in SUBSET A  OBVIOUS
    <3> QED  BY <3>1, <2>1, FS_Subset, FS_CardinalityType
  <2>5. PICK b \in B : t[b].print = q
    <3>1. a \in V(q)  OBVIOUS
    <3>2. Cardinality(V(q)) = Cardinality(W(q))  BY <2>3
    <3>3. Cardinality(V(q)) # 0  BY <2>4, <3>1, FS_EmptySet
    <3>4. W(q) # {}  BY <3>2, <3>3, FS_EmptySet
    <3> QED  BY <3>4
  <2> DEFINE A1 == A \ {a}  B1 == B \ {b}
  <2>6. Cardinality(A1) = n - 1 /\ Cardinality(B1) = Cardinality(B) - 1
    BY <2>1, FS_RemoveElement
  <2>7. ASSUME NEW p \in Q
        PROVE  Cardinality(In(A1, p)) = Cardinality({i \in B1 : t[i].print = p})
    <3>1. Cardinality(V(p)) = Cardinality(W(p))
      OBVIOUS
    <3>2. CASE p = q
      <4>1. In(A1, p) = V(p) \ {a} /\ {i \in B1 : t[i].print = p} = W(p) \ {b}
        OBVIOUS
      <4>2. a \in V(p) /\ b \in W(p)
        BY <3>2, <2>5
      <4> HIDE DEF V, W
      <4>3. Cardinality(V(p) \ {a}) = Cardinality(V(p)) - 1 /\ Cardinality(W(p) \ {b}) = Cardinality(W(p)) - 1
        BY <2>4, <4>2, FS_RemoveElement
      <4> QED  BY <3>1, <4>1, <4>3
    <3>3. CASE p # q
      <4>1. In(A1, p) = V(p) /\ {i \in B1 : t[i].print = p} = W(p)
        BY <3>3, <2>5
      <4> QED  BY <3>1, <4>1
    <3> QED  BY <3>2, <3>3
  <2>8. Same(A1, B1)
    BY <2>7
  <2>9. A1 \in SUBSET (1..Len(s)) /\ B1 \in SUBSET (1..Len(t))
    OBVIOUS
  <2>10. Cardinality(B1) = n - 1
    <3> HIDE DEF Same, A1, B1
    <3> QED  BY <1>2, <2>6, <2>8, <2>9
  <2>11. Cardinality(B) \in Nat
    BY <2>1, FS_CardinalityType
  <2> QED  BY <2>6, <2>10, <2>11
<1>3. Len(s) \in P
  <2> HIDE DEF P
  <2>1. \A i \in (0 + 1)..Len(s) : i - 1 \in P => i \in P  BY <1>2
  <2>2. 0..Len(s) \subseteq P  BY ONLY <1>0, <1>1, <2>1, UpTo
  <2> QED  BY <2>2, <1>0
<1>4. Same(1..Len(s), 1..Len(t))
  BY <1>0 DEF Times
<1> HIDE DEF Same
<1> QED  BY <1>0, <1>3, <1>4

-----------------------------------------------------------------------------
(* What a ledger c has to know of the executions d.  A snapshot brings the  *)
(* executions of an action together and merges their outcomes; it keeps how *)
(* often, in which order last, how often at the end in a row and how an     *)
(* action was executed, and that it failed.                                 *)

\* An entry of a ledger's completed calls.
Evid == [print : Prints, failed : BOOLEAN, failure : Failures \cup {NoFailure}]

\* p was executed for the last time before q.
Before(c, p, q) ==
    \E y \in DOMAIN c : c[y].print = q /\ \A x \in DOMAIN c : c[x].print = p => x < y

\* The last k executions are of p.
RunOf(c, p, k) == k <= Len(c) /\ \A x \in (Len(c) - k + 1)..Len(c) : c[x].print = p

SomeFails(c, p) == \E x \in DOMAIN c : c[x].print = p /\ c[x].failed

LastFails(c, p) ==
    \E x \in DOMAIN c : /\ c[x].print = p /\ c[x].failed
                        /\ \A y \in DOMAIN c : c[y].print = p => y <= x

\* The ways in which p failed.
Ways(c, p) == {c[i].failure : i \in At(c, p)} \ {NoFailure}

SameTimes(c, d) == Len(c) = Len(d) /\ \A p \in Prints : Times(c, p) = Times(d, p)
KeepsOrder(c, d) == \A p, q \in Prints : Before(c, p, q) => Before(d, p, q)
KeepsRuns(c, d) == \A p \in Prints, k \in Nat : RunOf(d, p, k) => RunOf(c, p, k)
KeepsFailed(c, d) == \A p \in Prints : /\ SomeFails(d, p) => SomeFails(c, p)
                                       /\ LastFails(d, p) => LastFails(c, p)
KeepsWays(c, d) ==
    \A p \in Prints :
        /\ Ways(c, p) \subseteq Ways(d, p)
        /\ Cardinality(Ways(d, p)) <= FailureMemory => Ways(c, p) = Ways(d, p)

Mirrors(c, d) ==
    /\ SameTimes(c, d) /\ KeepsOrder(c, d) /\ KeepsRuns(c, d)
    /\ KeepsFailed(c, d) /\ KeepsWays(c, d)

LEMMA MirrorsSelf == ASSUME NEW c PROVE Mirrors(c, c)
BY DEF Mirrors, SameTimes, KeepsOrder, KeepsRuns, KeepsFailed, KeepsWays

LEMMA MirrorsTransitive ==
    ASSUME NEW b, NEW c, NEW d, Mirrors(b, c), Mirrors(c, d)
    PROVE  Mirrors(b, d)
<1>1. SameTimes(b, d)  BY DEF Mirrors, SameTimes
<1>2. KeepsOrder(b, d)  BY DEF Mirrors, KeepsOrder
<1>3. KeepsRuns(b, d)  BY DEF Mirrors, KeepsRuns
<1>4. KeepsFailed(b, d)  BY DEF Mirrors, KeepsFailed
<1>5. KeepsWays(b, d)  BY DEF Mirrors, KeepsWays
<1> QED  BY <1>1, <1>2, <1>3, <1>4, <1>5 DEF Mirrors

LEMMA WaysFinite ==
    ASSUME NEW c \in Seq(Evid), NEW p
    PROVE  IsFiniteSet(Ways(c, p))
<1> DEFINE T == {c[i].failure : i \in At(c, p)}
           f == [i \in At(c, p) |-> c[i].failure]
<1>1. IsFiniteSet(At(c, p))
  BY AtFinite
<1>2. f \in Surjection(At(c, p), T)
  BY DEF Surjection
<1>3. IsFiniteSet(T)
  BY <1>1, <1>2, FS_Surjection
<1> QED  BY <1>3, FS_Difference DEF Ways

\* One execution more, here and there.
LEMMA AppendedAt ==
    ASSUME NEW S, NEW c \in Seq(S), NEW x \in S
    PROVE  LET e == Append(c, x)
           IN  /\ e \in Seq(S) /\ Len(e) = Len(c) + 1 /\ Len(c) \in Nat
               /\ DOMAIN e = 1..(Len(c) + 1) /\ DOMAIN c = 1..Len(c)
               /\ e[Len(c) + 1] = x /\ \A i \in 1..Len(c) : e[i] = c[i]
OBVIOUS

LEMMA WaysAppend ==
    ASSUME NEW c \in Seq(Evid), NEW x \in Evid, NEW p
    PROVE  Ways(Append(c, x), p) =
             IF x.print = p THEN Ways(c, p) \cup ({x.failure} \ {NoFailure}) ELSE Ways(c, p)
<1> DEFINE e == Append(c, x)  n == Len(c) + 1
<1>1. /\ DOMAIN e = 1..n /\ DOMAIN c = 1..Len(c) /\ e[n] = x
      /\ \A i \in 1..Len(c) : e[i] = c[i]
      /\ Len(c) \in Nat
  BY AppendedAt
<1> HIDE DEF e
<1>2. CASE x.print = p
  <2>1. At(e, p) = At(c, p) \cup {n}
    BY <1>1, <1>2 DEF At
  <2>2. \A i \in At(c, p) : e[i] = c[i]
    BY <1>1 DEF At
  <2>3. {e[i].failure : i \in At(e, p)} = {c[i].failure : i \in At(c, p)} \cup {x.failure}
    BY <1>1, <2>1, <2>2
  <2> QED  BY <1>2, <2>3 DEF Ways, e
<1>3. CASE x.print # p
  <2>1. At(e, p) = At(c, p)
    BY <1>1, <1>3 DEF At
  <2>2. \A i \in At(c, p) : e[i] = c[i]
    BY <1>1 DEF At
  <2>3. {e[i].failure : i \in At(e, p)} = {c[i].failure : i \in At(c, p)}
    BY <2>1, <2>2
  <2> QED  BY <1>3, <2>3 DEF Ways, e
<1> QED  BY <1>2, <1>3

LEMMA BeforeAppend ==
    ASSUME NEW c \in Seq(Evid), NEW x \in Evid, NEW p \in Prints, NEW q \in Prints
    PROVE  Before(Append(c, x), p, q) <=>
             /\ x.print # p
             /\ x.print = q \/ Before(c, p, q)
<1> DEFINE e == Append(c, x)  n == Len(c) + 1
<1>1. /\ DOMAIN e = 1..n /\ DOMAIN c = 1..Len(c) /\ e[n] = x
      /\ \A i \in 1..Len(c) : e[i] = c[i]
      /\ Len(c) \in Nat /\ n \in Nat
  BY AppendedAt
<1> HIDE DEF e
<1>2. ASSUME Before(e, p, q) PROVE x.print # p /\ (x.print = q \/ Before(c, p, q))
  <2>1. PICK y \in 1..n : e[y].print = q /\ \A i \in 1..n : e[i].print = p => i < y
    BY <1>1, <1>2 DEF Before
  <2>2. x.print # p
    BY <1>1, <2>1
  <2>3. CASE y = n
    BY <1>1, <2>1, <2>2, <2>3
  <2>4. CASE y # n
    <3>1. y \in 1..Len(c)  BY <1>1, <2>4
    <3>2. c[y].print = q /\ \A i \in 1..Len(c) : c[i].print = p => i < y  BY <1>1, <2>1, <3>1
    <3> QED  BY <1>1, <2>2, <3>1, <3>2 DEF Before
  <2> QED  BY <2>3, <2>4
<1>3. ASSUME x.print # p, x.print = q PROVE Before(e, p, q)
  <2>1. n \in DOMAIN e /\ e[n].print = q  BY <1>1, <1>3
  <2>2. \A i \in DOMAIN e : e[i].print = p => i < n  BY <1>1, <1>3
  <2> QED  BY <2>1, <2>2 DEF Before
<1>4. ASSUME x.print # p, Before(c, p, q) PROVE Before(e, p, q)
  <2>1. PICK y \in DOMAIN c : c[y].print = q /\ \A i \in DOMAIN c : c[i].print = p => i < y
    BY <1>4 DEF Before
  <2>2. y \in DOMAIN e /\ e[y].print = q  BY <1>1, <2>1
  <2>3. \A i \in DOMAIN e : e[i].print = p => i < y  BY <1>1, <1>4, <2>1
  <2> QED  BY <2>2, <2>3 DEF Before
<1> QED  BY <1>2, <1>3, <1>4 DEF e

LEMMA RunAppend ==
    ASSUME NEW S, NEW c \in Seq(S), NEW x \in S, NEW p, NEW k \in Nat
    PROVE  RunOf(Append(c, x), p, k) <=> k = 0 \/ (x.print = p /\ RunOf(c, p, k - 1))
<1> DEFINE e == Append(c, x)  n == Len(c) + 1
<1>1. /\ Len(e) = n /\ e[n] = x
      /\ \A i \in 1..Len(c) : e[i] = c[i]
      /\ Len(c) \in Nat /\ n \in Nat
  BY AppendedAt
<1> HIDE DEF e
<1>2. CASE k = 0
  BY <1>1, <1>2 DEF RunOf, e
<1>3. CASE k # 0
  <2>1. ASSUME RunOf(e, p, k) PROVE x.print = p /\ RunOf(c, p, k - 1)
    <3>1. k <= n /\ \A i \in (n - k + 1)..n : e[i].print = p  BY <1>1, <2>1 DEF RunOf
    <3>2. n \in (n - k + 1)..n  BY <1>1, <1>3
    <3>3. \A i \in (Len(c) - (k - 1) + 1)..Len(c) : i \in (n - k + 1)..n /\ i \in 1..Len(c)
      BY <1>1, <1>3, <3>1
    <3> QED  BY <1>1, <3>1, <3>2, <3>3 DEF RunOf
  <2>2. ASSUME x.print = p, RunOf(c, p, k - 1) PROVE RunOf(e, p, k)
    <3>1. k <= n  BY <1>1, <2>2 DEF RunOf
    <3>2. ASSUME NEW i \in (n - k + 1)..n PROVE e[i].print = p
      <4>1. CASE i = n  BY <1>1, <2>2, <4>1
      <4>2. CASE i # n
        <5>1. i \in (Len(c) - (k - 1) + 1)..Len(c) /\ i \in 1..Len(c)  BY <1>1, <1>3, <3>1, <4>2
        <5> QED  BY <1>1, <2>2, <5>1 DEF RunOf
      <4> QED  BY <4>1, <4>2
    <3> QED  BY <1>1, <3>1, <3>2 DEF RunOf
  <2> QED  BY <1>3, <2>1, <2>2 DEF e
<1> QED  BY <1>2, <1>3

LEMMA FailsAppend ==
    ASSUME NEW c \in Seq(Evid), NEW x \in Evid, NEW p
    PROVE  /\ SomeFails(Append(c, x), p) <=> (x.print = p /\ x.failed) \/ SomeFails(c, p)
           /\ LastFails(Append(c, x), p) <=> IF x.print = p THEN x.failed ELSE LastFails(c, p)
<1> DEFINE e == Append(c, x)  n == Len(c) + 1
<1>1. /\ DOMAIN e = 1..n /\ DOMAIN c = 1..Len(c) /\ e[n] = x
      /\ \A i \in 1..Len(c) : e[i] = c[i]
      /\ Len(c) \in Nat /\ n \in Nat
  BY AppendedAt
<1> HIDE DEF e
<1>2. SomeFails(e, p) <=> (x.print = p /\ x.failed) \/ SomeFails(c, p)
  <2>1. DOMAIN e = DOMAIN c \cup {n}  BY <1>1
  <2>2. \A i \in DOMAIN c : e[i] = c[i]  BY <1>1
  <2> QED  BY <1>1, <2>1, <2>2, Zenon DEF SomeFails
<1>3. ASSUME x.print = p PROVE LastFails(e, p) <=> x.failed
  <2>1. n \in DOMAIN e /\ \A i \in DOMAIN e : i <= n  BY <1>1
  <2>2. \A i \in DOMAIN e : (\A y \in DOMAIN e : e[y].print = p => y <= i) => i = n
    BY <1>1, <1>3
  <2> QED  BY <1>1, <1>3, <2>1, <2>2, Zenon DEF LastFails
<1>4. ASSUME x.print # p PROVE LastFails(e, p) <=> LastFails(c, p)
  <2>1. DOMAIN e = DOMAIN c \cup {n}  BY <1>1
  <2>2. \A i \in DOMAIN c : e[i] = c[i]  BY <1>1
  <2> QED  BY <1>1, <1>4, <2>1, <2>2, Zenon DEF LastFails
<1> QED  BY <1>2, <1>3, <1>4 DEF e

LEMMA MirrorsAppend ==
    ASSUME NEW c \in Seq(Evid), NEW d \in Seq(Evid), NEW x \in Evid, Mirrors(c, d)
    PROVE  Mirrors(Append(c, x), Append(d, x))
<1> DEFINE C == Append(c, x)  D == Append(d, x)
<1>1. SameTimes(C, D)
  <2>1. Len(C) = Len(D)
    BY AppendedAt DEF Mirrors, SameTimes
  <2>2. ASSUME NEW p \in Prints PROVE Times(C, p) = Times(D, p)
    BY TimesAppend DEF Mirrors, SameTimes
  <2> QED  BY <2>1, <2>2 DEF SameTimes
<1>2. KeepsOrder(C, D)
  <2>1. ASSUME NEW p \in Prints, NEW q \in Prints, Before(C, p, q) PROVE Before(D, p, q)
    BY <2>1, BeforeAppend DEF Mirrors, KeepsOrder
  <2> QED  BY <2>1 DEF KeepsOrder
<1>3. KeepsRuns(C, D)
  <2>1. ASSUME NEW p \in Prints, NEW k \in Nat, RunOf(D, p, k) PROVE RunOf(C, p, k)
    <3>1. k = 0 \/ (x.print = p /\ RunOf(d, p, k - 1))  BY <2>1, RunAppend
    <3>2. k # 0 => k - 1 \in Nat  OBVIOUS
    <3>3. k = 0 \/ (x.print = p /\ RunOf(c, p, k - 1))  BY <3>1, <3>2 DEF Mirrors, KeepsRuns
    <3> QED  BY <3>3, RunAppend
  <2> QED  BY <2>1 DEF KeepsRuns
<1>4. KeepsFailed(C, D)
  <2>1. ASSUME NEW p \in Prints
        PROVE  (SomeFails(D, p) => SomeFails(C, p)) /\ (LastFails(D, p) => LastFails(C, p))
    BY FailsAppend, Zenon DEF Mirrors, KeepsFailed
  <2> QED  BY <2>1 DEF KeepsFailed
<1>5. KeepsWays(C, D)
  <2>1. ASSUME NEW p \in Prints
        PROVE  /\ Ways(C, p) \subseteq Ways(D, p)
               /\ Cardinality(Ways(D, p)) <= FailureMemory => Ways(C, p) = Ways(D, p)
    <3> DEFINE new == IF x.print = p THEN {x.failure} \ {NoFailure} ELSE {}
    <3>1. Ways(C, p) = Ways(c, p) \cup new /\ Ways(D, p) = Ways(d, p) \cup new
      BY WaysAppend
    <3>2. Ways(c, p) \subseteq Ways(d, p)
      BY DEF Mirrors, KeepsWays
    <3>3. Cardinality(Ways(d, p)) <= FailureMemory => Ways(c, p) = Ways(d, p)
      BY DEF Mirrors, KeepsWays
    <3>4. IsFiniteSet(Ways(D, p))
      BY AppendedAt, WaysFinite
    <3> HIDE DEF new, C, D
    <3>5. Cardinality(Ways(d, p)) <= Cardinality(Ways(D, p)) /\ IsFiniteSet(Ways(d, p))
      BY <3>1, <3>4, FS_Subset
    <3>6. Cardinality(Ways(d, p)) \in Nat /\ Cardinality(Ways(D, p)) \in Nat
      BY <3>4, <3>5, FS_CardinalityType
    <3>7. FailureMemory \in Nat  BY LedgerAssumption
    <3>8. Cardinality(Ways(D, p)) <= FailureMemory => Cardinality(Ways(d, p)) <= FailureMemory
      BY ONLY <3>5, <3>6, <3>7
    <3> QED  BY <3>1, <3>2, <3>3, <3>8
  <2> HIDE DEF C, D
  <2> QED  BY <2>1 DEF KeepsWays
<1> QED  BY <1>1, <1>2, <1>3, <1>4, <1>5 DEF Mirrors

-----------------------------------------------------------------------------
(* completedToolSnapshots.                                                 *)

\* An entry of a snapshot.
EntryRec == [print : Prints, failed : BOOLEAN, count : Nat, failures : Seq(Failures)]

Once(t) == \A i, j \in DOMAIN t : t[i] = t[j] => i = j

\* m says what there is to say about the executions of m.print in c.
Sums(m, c) ==
    /\ m.count = Times(c, m.print)
    /\ SomeFails(c, m.print) => m.failed
    /\ Once(m.failures) /\ Len(m.failures) <= m.count
    /\ ToSet(m.failures) \subseteq Ways(c, m.print)
    /\ Cardinality(Ways(c, m.print)) <= FailureMemory =>
          ToSet(m.failures) = Ways(c, m.print)

\* The entries e are one for each action of c, in the order of c.
Notes(e, c) ==
    /\ e \in Seq(EntryRec) /\ Len(e) <= Len(c)
    /\ \A i, j \in DOMAIN e : e[i].print = e[j].print => i = j
    /\ \A i \in DOMAIN e : Sums(e[i], c) /\ e[i].count > 0
    /\ \A x \in DOMAIN c : \E i \in DOMAIN e : e[i].print = c[x].print
    /\ \A i, j \in DOMAIN e : i < j => Before(c, e[i].print, e[j].print)
    /\ c # <<>> => e # <<>> /\ e[Len(e)].print = c[Len(c)].print

\* k is e without the entry of p.
Kept(k, e, p) ==
    /\ k \in Seq(EntryRec) /\ Len(k) <= Len(e)
    /\ \A i, j \in DOMAIN k : i < j =>
          \E m, n \in DOMAIN e : /\ m < n /\ k[i] = e[m] /\ k[j] = e[n]
    /\ \A i \in DOMAIN k : k[i].print # p /\ \E m \in DOMAIN e : k[i] = e[m]
    /\ \A m \in DOMAIN e : e[m].print # p => \E i \in DOMAIN k : k[i] = e[m]

LEMMA OnceCounts ==
    ASSUME NEW S, NEW t \in Seq(S), Once(t)
    PROVE  IsFiniteSet(ToSet(t)) /\ Cardinality(ToSet(t)) = Len(t)
<1>1. Len(t) \in Nat /\ DOMAIN t = 1..Len(t)
  OBVIOUS
<1>2. IsFiniteSet(1..Len(t)) /\ Cardinality(1..Len(t)) = Len(t)
  BY <1>1, FS_Interval
<1>3. t \in Surjection(1..Len(t), ToSet(t))
  BY <1>1 DEF Surjection, ToSet
<1>4. t \in Injection(1..Len(t), ToSet(t))
  BY <1>1 DEF Injection, IsInjective, ToSet, Once
<1> QED  BY <1>2, <1>3, <1>4, FS_Surjection

\* LastOf drops from the front.
LEMMA LastOfKeeps ==
    ASSUME NEW S, NEW t \in Seq(S), NEW n \in Nat
    PROVE  /\ LastOf(t, n) \in Seq(S) /\ Len(LastOf(t, n)) <= Len(t)
           /\ Len(t) <= n => LastOf(t, n) = t
           /\ \A i \in DOMAIN LastOf(t, n) :
                 LastOf(t, n)[i] = t[i + Len(t) - Len(LastOf(t, n))]
<1> DEFINE a == IF Len(t) > n THEN Len(t) - n + 1 ELSE 1
           w == SubSeq(t, a, Len(t))
<1>1. Len(t) \in Nat /\ a \in 1..(Len(t) + 1)
  OBVIOUS
<1>2. LastOf(t, n) = w
  BY DEF LastOf
<1> HIDE DEF a
<1>3. /\ w \in Seq(S) /\ Len(w) = Len(t) - a + 1
      /\ DOMAIN w = 1..(Len(t) - a + 1)
      /\ \A i \in 1..(Len(t) - a + 1) : w[i] = t[a + i - 1]
  BY <1>1
<1>4. ASSUME Len(t) <= n PROVE w = t
  <2>1. a = 1  BY <1>4, <1>1 DEF a
  <2> QED  BY <2>1, <1>1
<1> HIDE DEF w
<1> QED  BY <1>1, <1>2, <1>3, <1>4

\* What an entry remembers of the failures.
LEMMA RememberedFailures ==
    ASSUME NEW old, NEW x, old.failures \in Seq(Failures), Once(old.failures),
           x.failure \in Failures \cup {NoFailure}
    PROVE  LET r == Remembered(old, x)
               all == ToSet(old.failures) \cup ({x.failure} \ {NoFailure})
           IN  /\ r \in Seq(Failures) /\ Once(r) /\ ToSet(r) \subseteq all
               /\ Len(r) <= Len(old.failures) + 1
               /\ Cardinality(all) <= FailureMemory => ToSet(r) = all
<1> DEFINE fs == old.failures
           f == x.failure
           known == f = NoFailure \/ Contains(fs, f)
           t == IF known THEN fs ELSE Append(fs, f)
           r == LastOf(t, FailureMemory)
           all == ToSet(fs) \cup ({f} \ {NoFailure})
<1>1. fs \in Seq(Failures) /\ Once(fs) /\ f \in Failures \cup {NoFailure}
  OBVIOUS
<1>2. Remembered(old, x) = r
  BY DEF Remembered
<1>3. FailureMemory \in Nat
  BY LedgerAssumption
<1> HIDE DEF fs, f
<1>4. /\ t \in Seq(Failures) /\ Once(t) /\ ToSet(t) = all
      /\ Len(t) <= Len(fs) + 1
  <2>1. CASE known
    <3>1. t = fs  BY <2>1
    <3>2. ToSet(fs) = all
      BY <2>1, <1>1 DEF Contains, ToSet
    <3> QED  BY <3>1, <3>2, <1>1
  <2>2. CASE ~known
    <3>1. t = Append(fs, f) /\ f \in Failures /\ f # NoFailure
      BY <2>2, <1>1
    <3>2. /\ t \in Seq(Failures) /\ Len(t) = Len(fs) + 1 /\ DOMAIN t = 1..(Len(fs) + 1)
          /\ DOMAIN fs = 1..Len(fs) /\ t[Len(fs) + 1] = f /\ Len(fs) \in Nat
          /\ \A i \in 1..Len(fs) : t[i] = fs[i]
      BY <1>1, <3>1, AppendedAt
    <3>3. \A i \in 1..Len(fs) : fs[i] # f
      BY <2>2 DEF Contains
    <3> HIDE DEF t, known
    <3>4. Once(t)
      BY <1>1, <3>2, <3>3 DEF Once
    <3>5. ToSet(t) = ToSet(fs) \cup {f}
      BY <3>2 DEF ToSet
    <3> QED  BY <3>1, <3>2, <3>4, <3>5
  <2> QED  BY <2>1, <2>2
<1> HIDE DEF t
<1>5. /\ r \in Seq(Failures) /\ Len(r) <= Len(t)
      /\ Len(t) <= FailureMemory => r = t
      /\ \A i \in DOMAIN r : r[i] = t[i + Len(t) - Len(r)]
  BY <1>3, <1>4, LastOfKeeps
<1> HIDE DEF r
<1>6. DOMAIN r = 1..Len(r) /\ DOMAIN t = 1..Len(t) /\ Len(r) \in Nat /\ Len(t) \in Nat
  BY <1>4, <1>5
<1>7. \A i \in DOMAIN r : i + Len(t) - Len(r) \in DOMAIN t
  BY <1>5, <1>6
<1>8. Once(r)
  <2>1. SUFFICES ASSUME NEW i \in DOMAIN r, NEW j \in DOMAIN r, r[i] = r[j] PROVE i = j
    BY DEF Once
  <2>2. i + Len(t) - Len(r) = j + Len(t) - Len(r)
    BY <1>4, <1>5, <1>7, <2>1 DEF Once
  <2> QED  BY <2>2, <1>6
<1>9. ToSet(r) \subseteq ToSet(t)
  BY <1>5, <1>7 DEF ToSet
<1>10. ASSUME Cardinality(all) <= FailureMemory PROVE ToSet(r) = all
  <2>1. Cardinality(all) = Len(t)
    BY <1>4, OnceCounts
  <2> QED  BY <1>4, <1>5, <1>10, <2>1
<1>11. Len(r) <= Len(fs) + 1
  <2>1. Len(fs) \in Nat  BY <1>1
  <2> QED  BY <2>1, <1>4, <1>5, <1>6
<1> QED  BY <1>2, <1>4, <1>5, <1>8, <1>9, <1>10, <1>11 DEF fs, f

\* RemoveAt takes the entry of an action out.
LEMMA RemovedKept ==
    ASSUME NEW e \in Seq(EntryRec), NEW at \in DOMAIN e, NEW p, e[at].print = p,
           \A i, j \in DOMAIN e : e[i].print = e[j].print => i = j
    PROVE  Kept(RemoveAt(e, at), e, p) /\ Len(RemoveAt(e, at)) = Len(e) - 1
<1> DEFINE x == SubSeq(e, 1, at - 1)
           y == SubSeq(e, at + 1, Len(e))
           k == x \o y
           H(i) == IF i < at THEN i ELSE i + 1
<1>1. Len(e) \in Nat /\ DOMAIN e = 1..Len(e) /\ at \in 1..Len(e)
  OBVIOUS
<1>2. x \in Seq(EntryRec) /\ Len(x) = at - 1 /\ \A i \in 1..(at - 1) : x[i] = e[i]
  BY <1>1
<1>3. y \in Seq(EntryRec) /\ Len(y) = Len(e) - at /\ \A i \in 1..(Len(e) - at) : y[i] = e[at + i]
  BY <1>1
<1> HIDE DEF x, y
<1>4. /\ k \in Seq(EntryRec) /\ Len(k) = Len(x) + Len(y)
      /\ \A i \in 1..(Len(x) + Len(y)) : k[i] = IF i <= Len(x) THEN x[i] ELSE y[i - Len(x)]
  <2>1. x \in Seq(EntryRec) /\ y \in Seq(EntryRec)  BY <1>2, <1>3
  <2> QED  BY ONLY <2>1, ConcatProperties
<1> HIDE DEF k
<1>5. Len(k) = Len(e) - 1 /\ DOMAIN k = 1..(Len(e) - 1)
  BY <1>1, <1>2, <1>3, <1>4
<1>6. \A i \in DOMAIN k : k[i] = e[H(i)] /\ H(i) \in DOMAIN e /\ H(i) # at
  <2>1. ASSUME NEW i \in DOMAIN k PROVE k[i] = e[H(i)] /\ H(i) \in DOMAIN e /\ H(i) # at
    <3>1. CASE i < at
      BY <1>1, <1>2, <1>3, <1>4, <1>5, <3>1, SMTT(30)
    <3>2. CASE ~(i < at)
      <4>1. i \in Nat /\ i - (at - 1) \in 1..(Len(e) - at)  BY <1>1, <1>5, <3>2
      <4>2. i \in 1..(Len(x) + Len(y)) /\ ~(i <= Len(x)) /\ Len(x) = at - 1
        BY <1>1, <1>2, <1>3, <1>5, <3>2
      <4>3. k[i] = y[i - (at - 1)]  BY <1>4, <4>2
      <4>4. y[i - (at - 1)] = e[at + (i - (at - 1))]  BY <1>3, <4>1
      <4>5. at + (i - (at - 1)) = i + 1  BY <1>1, <4>1
      <4>6. k[i] = e[i + 1]  BY <4>3, <4>4, <4>5
      <4> QED  BY <1>1, <1>5, <3>2, <4>1, <4>6
    <3> QED  BY <3>1, <3>2
  <2> QED  BY <2>1
<1>7. \A i, j \in DOMAIN k : i < j => H(i) < H(j)
  BY <1>1, <1>5
<1>8. \A m \in DOMAIN e : m # at => \E i \in DOMAIN k : H(i) = m
  <2>1. ASSUME NEW m \in DOMAIN e, m # at PROVE \E i \in DOMAIN k : H(i) = m
    <3>1. CASE m < at
      <4>1. m \in DOMAIN k /\ H(m) = m  BY <1>1, <1>5, <3>1
      <4> QED  BY <4>1
    <3>2. CASE m > at
      <4>1. m - 1 \in DOMAIN k /\ H(m - 1) = m  BY <1>1, <1>5, <3>2
      <4> QED  BY <4>1
    <3> QED  BY <1>1, <2>1, <3>1, <3>2
  <2> QED  BY <2>1
<1> HIDE DEF H
<1>9. \A i, j \in DOMAIN k : i < j => \E m, n \in DOMAIN e : m < n /\ k[i] = e[m] /\ k[j] = e[n]
  BY <1>6, <1>7
<1>10. \A i \in DOMAIN k : k[i].print # p /\ \E m \in DOMAIN e : k[i] = e[m]
  BY <1>6
<1>11. \A m \in DOMAIN e : e[m].print # p => \E i \in DOMAIN k : k[i] = e[m]
  BY <1>6, <1>8
<1>12. RemoveAt(e, at) = k
  BY DEF RemoveAt, k, x, y
<1>13. Len(k) <= Len(e)  BY <1>1, <1>5
<1>14. Kept(k, e, p)
  BY ONLY <1>4, <1>9, <1>10, <1>11, <1>13 DEF Kept
<1> QED  BY <1>5, <1>12, <1>14

\* The new entry of an action.
LEMMA MergedSums ==
    ASSUME NEW c \in Seq(Evid), NEW x \in Evid, NEW old,
           old.failed \in BOOLEAN, old.count \in Nat, old.failures \in Seq(Failures),
           old.count = Times(c, x.print), SomeFails(c, x.print) => old.failed,
           Once(old.failures), Len(old.failures) <= old.count,
           ToSet(old.failures) \subseteq Ways(c, x.print),
           Cardinality(Ways(c, x.print)) <= FailureMemory =>
               ToSet(old.failures) = Ways(c, x.print)
    PROVE  /\ Merged(old, x) \in EntryRec /\ Merged(old, x).print = x.print
           /\ Merged(old, x).count > 0 /\ Sums(Merged(old, x), Append(c, x))
<1> DEFINE p == x.print  m == Merged(old, x)  r == Remembered(old, x)
           fs == old.failures
           new == {x.failure} \ {NoFailure}
           C == Append(c, x)
<1>1. p \in Prints /\ x.failed \in BOOLEAN /\ x.failure \in Failures \cup {NoFailure}
  BY DEF Evid
<1>2. /\ m.print = p /\ m.count = old.count + 1 /\ m.failures = r
      /\ m = [print |-> p, failed |-> old.failed \/ x.failed, count |-> old.count + 1, failures |-> r]
  BY DEF Merged
<1>3. m.failed <=> old.failed \/ x.failed
  BY Zenon DEF Merged
<1>4. /\ r \in Seq(Failures) /\ Once(r) /\ ToSet(r) \subseteq ToSet(fs) \cup new
      /\ Len(r) <= Len(fs) + 1
      /\ Cardinality(ToSet(fs) \cup new) <= FailureMemory => ToSet(r) = ToSet(fs) \cup new
  BY <1>1, RememberedFailures
<1>5. Times(C, p) = Times(c, p) + 1 /\ Ways(C, p) = Ways(c, p) \cup new
  BY TimesAppend, WaysAppend
<1>6. SomeFails(C, p) => m.failed
  <2>1. SomeFails(C, p) <=> (x.print = p /\ x.failed) \/ SomeFails(c, p)
    BY FailsAppend
  <2> HIDE DEF C, m
  <2> QED  BY <2>1, <1>3
<1>7. Cardinality(Ways(C, p)) <= FailureMemory => ToSet(r) = Ways(C, p)
  <2>1. IsFiniteSet(Ways(C, p))
    BY AppendedAt, WaysFinite
  <2>2. Cardinality(Ways(c, p)) <= Cardinality(Ways(C, p)) /\ IsFiniteSet(Ways(c, p))
    <3> HIDE DEF C, new
    <3> QED  BY <1>5, <2>1, FS_Subset
  <2>3. Cardinality(Ways(c, p)) \in Nat /\ Cardinality(Ways(C, p)) \in Nat /\ FailureMemory \in Nat
    BY <2>1, <2>2, FS_CardinalityType, LedgerAssumption
  <2>4. SUFFICES ASSUME Cardinality(Ways(C, p)) <= FailureMemory PROVE ToSet(r) = Ways(C, p)
    OBVIOUS
  <2>5. Cardinality(Ways(c, p)) <= FailureMemory
    BY ONLY <2>2, <2>3, <2>4
  <2>6. ToSet(fs) \cup new = Ways(C, p)
    BY <1>5, <2>5
  <2> QED  BY <1>4, <2>4, <2>6
<1>8. ToSet(r) \subseteq Ways(C, p)
  BY <1>4, <1>5
<1>9. m \in EntryRec
  BY <1>1, <1>2, <1>4 DEF EntryRec
<1>10. Len(r) <= m.count /\ m.count > 0 /\ m.count = Times(C, p)
  <2>1. Len(r) \in Nat /\ Len(fs) \in Nat  BY <1>4
  <2> QED  BY <2>1, <1>2, <1>4, <1>5
<1> HIDE DEF C, m, r, new
<1>11. Sums(m, C)
  BY <1>2, <1>4, <1>6, <1>7, <1>8, <1>10 DEF Sums
<1> QED  BY <1>2, <1>9, <1>10, <1>11 DEF C, m

\* Executions of others leave an entry true.
LEMMA SumsKept ==
    ASSUME NEW c \in Seq(Evid), NEW x \in Evid, NEW m \in EntryRec, m.print # x.print, Sums(m, c)
    PROVE  Sums(m, Append(c, x))
<1> DEFINE C == Append(c, x)  p == m.print
<1>1. Times(C, p) = Times(c, p)
  BY TimesAppend
<1>2. Ways(C, p) = Ways(c, p)
  BY WaysAppend
<1>3. SomeFails(C, p) <=> SomeFails(c, p)
  BY FailsAppend
<1> HIDE DEF C
<1> QED  BY <1>1, <1>2, <1>3 DEF Sums, C

\* The new entry goes to the end.
LEMMA NoteAppended ==
    ASSUME NEW c \in Seq(Evid), NEW x \in Evid, NEW e, Notes(e, c),
           NEW k, Kept(k, e, x.print), Len(k) <= Len(c),
           NEW m \in EntryRec, m.print = x.print, m.count > 0, Sums(m, Append(c, x))
    PROVE  Notes(Append(k, m), Append(c, x))
<1> DEFINE C == Append(c, x)  E == Append(k, m)  p == x.print  n == Len(k) + 1
<1>1. k \in Seq(EntryRec) /\ e \in Seq(EntryRec) /\ p \in Prints
  BY DEF Kept, Notes, Evid
<1>2. /\ E \in Seq(EntryRec) /\ Len(E) = n /\ DOMAIN E = 1..n /\ DOMAIN k = 1..Len(k)
      /\ E[n] = m /\ \A i \in 1..Len(k) : E[i] = k[i]
      /\ Len(k) \in Nat
  BY <1>1, AppendedAt
<1>3. /\ C \in Seq(Evid) /\ Len(C) = Len(c) + 1 /\ DOMAIN C = 1..(Len(c) + 1)
      /\ DOMAIN c = 1..Len(c) /\ C[Len(c) + 1] = x /\ Len(c) \in Nat
      /\ \A i \in 1..Len(c) : C[i] = c[i]
  BY AppendedAt
<1> HIDE DEF C, E
<1>4. ASSUME NEW i \in 1..Len(k)
      PROVE  k[i].print # p /\ E[i] = k[i] /\ k[i] \in EntryRec /\ k[i].print \in Prints
  <2>1. k[i] \in EntryRec  BY <1>1
  <2> QED  BY <2>1, <1>2 DEF Kept, EntryRec
<1>5. ASSUME NEW i \in 1..Len(k), NEW j \in 1..Len(k), i < j
      PROVE  k[i].print # k[j].print /\ Before(c, k[i].print, k[j].print)
  <2>1. PICK a \in DOMAIN e : \E b \in DOMAIN e : a < b /\ k[i] = e[a] /\ k[j] = e[b]
    <3>1. \A v, w \in DOMAIN k : v < w =>
             \E a, b \in DOMAIN e : a < b /\ k[v] = e[a] /\ k[w] = e[b]
      BY DEF Kept
    <3>2. i \in DOMAIN k /\ j \in DOMAIN k  BY <1>2
    <3> QED  BY <3>1, <3>2, <1>5
  <2>2. PICK b \in DOMAIN e : a < b /\ k[i] = e[a] /\ k[j] = e[b]
    BY <2>1
  <2>3. a # b  BY <1>1, <2>2
  <2> QED  BY <2>2, <2>3 DEF Notes
<1>6. \A i, j \in DOMAIN E : E[i].print = E[j].print => i = j
  <2>1. SUFFICES ASSUME NEW i \in 1..n, NEW j \in 1..n, i < j PROVE E[i].print # E[j].print
    BY <1>2
  <2>2. i \in 1..Len(k)  BY <1>2, <2>1
  <2>3. CASE j = n  BY <1>2, <1>4, <2>2, <2>3
  <2>4. CASE j # n
    <3>1. j \in 1..Len(k)  BY <1>2, <2>4
    <3> QED  BY <1>4, <1>5, <2>1, <2>2, <3>1
  <2> QED  BY <2>3, <2>4
<1>7. ASSUME NEW i \in DOMAIN E PROVE Sums(E[i], C) /\ E[i].count > 0
  <2>1. CASE i = n  BY <1>2, <2>1 DEF C
  <2>2. CASE i # n
    <3>1. i \in 1..Len(k)  BY <1>2, <2>2
    <3>2. PICK a \in DOMAIN e : k[i] = e[a]  BY <1>2, <3>1 DEF Kept
    <3>3. Sums(k[i], c) /\ k[i].count > 0  BY <3>2 DEF Notes
    <3>4. Sums(k[i], C)  BY <1>4, <3>1, <3>3, SumsKept DEF C
    <3> QED  BY <1>4, <3>1, <3>3, <3>4
  <2> QED  BY <2>1, <2>2
<1>8. ASSUME NEW y \in DOMAIN C PROVE \E i \in DOMAIN E : E[i].print = C[y].print
  <2>1. CASE C[y].print = p
    <3>1. n \in DOMAIN E /\ E[n].print = p  BY <1>2
    <3> QED  BY <2>1, <3>1
  <2>2. CASE C[y].print # p
    <3>1. y \in DOMAIN c /\ C[y] = c[y]  BY <1>3, <2>2
    <3>2. PICK a \in DOMAIN e : e[a].print = c[y].print  BY <3>1 DEF Notes
    <3>3. PICK i \in DOMAIN k : k[i] = e[a]  BY <2>2, <3>1, <3>2 DEF Kept
    <3>4. i \in DOMAIN E /\ E[i] = k[i]  BY <1>2, <3>3
    <3> QED  BY <3>1, <3>2, <3>3, <3>4
  <2> QED  BY <2>1, <2>2
<1>9. ASSUME NEW i \in DOMAIN E, NEW j \in DOMAIN E, i < j
      PROVE  Before(C, E[i].print, E[j].print)
  <2>1. i \in 1..Len(k)  BY <1>2, <1>9
  <2>2. CASE j = n
    <3>1. E[j].print = p /\ E[i].print = k[i].print /\ k[i].print # p /\ k[i].print \in Prints
      BY <1>2, <1>4, <2>1, <2>2
    <3>2. Before(C, k[i].print, p)  BY <1>1, <3>1, BeforeAppend DEF C
    <3> QED  BY <3>1, <3>2
  <2>3. CASE j # n
    <3>1. j \in 1..Len(k)  BY <1>2, <2>3
    <3>2. /\ Before(c, k[i].print, k[j].print)
          /\ k[i].print \in Prints /\ k[j].print \in Prints /\ k[i].print # p
      BY <1>4, <1>5, <1>9, <2>1, <3>1
    <3>3. Before(C, k[i].print, k[j].print)  BY <3>2, BeforeAppend DEF C
    <3> QED  BY <1>4, <2>1, <3>1, <3>3
  <2> QED  BY <2>2, <2>3
<1>10. Len(E) <= Len(C)
  BY <1>2, <1>3
<1>11. E # <<>> /\ E[Len(E)].print = C[Len(C)].print
  BY <1>2, <1>3
<1> QED  BY <1>2, <1>6, <1>7, <1>8, <1>9, <1>10, <1>11 DEF Notes, C, E

LEMMA NoteOne ==
    ASSUME NEW c \in Seq(Evid), NEW x \in Evid, NEW e, Notes(e, c)
    PROVE  Notes(NoteCompleted(e, x), Append(c, x))
<1> DEFINE p == x.print
           old == {i \in DOMAIN e : e[i].print = p}
<1>1. e \in Seq(EntryRec) /\ Len(e) \in Nat /\ Len(c) \in Nat /\ Len(e) <= Len(c)
  BY DEF Notes
<1>2. CASE old = {}
  <2>1. NoteCompleted(e, x) = Append(e, Merged(NoEntry, x))
    BY <1>2 DEF NoteCompleted
  <2>2. At(c, p) = {}
    BY <1>2 DEF Notes, At
  <2>3. Times(c, p) = 0 /\ Ways(c, p) = {} /\ ~SomeFails(c, p)
    BY <2>2, AtFinite DEF Ways, SomeFails, At
  <2>4. /\ NoEntry.failed \in BOOLEAN /\ NoEntry.count \in Nat /\ NoEntry.failures \in Seq(Failures)
        /\ NoEntry.count = 0 /\ Once(NoEntry.failures) /\ Len(NoEntry.failures) <= 0
        /\ ToSet(NoEntry.failures) = {}
    BY DEF NoEntry, Once, ToSet
  <2>5. /\ Merged(NoEntry, x) \in EntryRec /\ Merged(NoEntry, x).print = x.print
        /\ Merged(NoEntry, x).count > 0 /\ Sums(Merged(NoEntry, x), Append(c, x))
    <3>1. /\ NoEntry.count = Times(c, x.print) /\ (SomeFails(c, x.print) => NoEntry.failed)
          /\ Len(NoEntry.failures) <= NoEntry.count
          /\ ToSet(NoEntry.failures) \subseteq Ways(c, x.print)
          /\ Cardinality(Ways(c, x.print)) <= FailureMemory =>
                 ToSet(NoEntry.failures) = Ways(c, x.print)
      BY <2>3, <2>4
    <3>2. /\ NoEntry.failed \in BOOLEAN /\ NoEntry.count \in Nat
          /\ NoEntry.failures \in Seq(Failures) /\ Once(NoEntry.failures)
      BY <2>4
    <3> QED  BY <3>1, <3>2, MergedSums
  <2>6. Kept(e, e, p)
    <3>1. \A i \in DOMAIN e : e[i].print # p  BY <1>2
    <3> QED  BY <1>1, <3>1 DEF Kept
  <2> QED  BY <1>1, <2>1, <2>5, <2>6, NoteAppended
<1>3. CASE old # {}
  <2> DEFINE at == CHOOSE i \in old : TRUE
             k == RemoveAt(e, at)
             m == Merged(e[at], x)
  <2>1. NoteCompleted(e, x) = Append(k, m)
    BY <1>3 DEF NoteCompleted
  <2>2. at \in old
    BY <1>3
  <2> HIDE DEF at
  <2>3. at \in DOMAIN e /\ e[at].print = p
    BY <2>2
  <2>4. Kept(k, e, p) /\ Len(k) = Len(e) - 1
    BY <1>1, <2>3, RemovedKept DEF Notes
  <2>5. e[at] \in EntryRec /\ Sums(e[at], c)
    BY <1>1, <2>3 DEF Notes
  <2>6. /\ e[at].failed \in BOOLEAN /\ e[at].count \in Nat /\ e[at].failures \in Seq(Failures)
        /\ e[at].count = Times(c, x.print) /\ (SomeFails(c, x.print) => e[at].failed)
        /\ Once(e[at].failures) /\ Len(e[at].failures) <= e[at].count
        /\ ToSet(e[at].failures) \subseteq Ways(c, x.print)
        /\ Cardinality(Ways(c, x.print)) <= FailureMemory =>
               ToSet(e[at].failures) = Ways(c, x.print)
    BY <2>3, <2>5 DEF Sums, EntryRec
  <2>7. m \in EntryRec /\ m.print = x.print /\ m.count > 0 /\ Sums(m, Append(c, x))
    BY <2>6, MergedSums
  <2>8. Len(k) <= Len(c)
    BY <1>1, <2>4
  <2> HIDE DEF k, m
  <2> QED  BY <2>1, <2>4, <2>7, <2>8, NoteAppended
<1> QED  BY <1>2, <1>3

\* The loop of completedToolSnapshots.
LEMMA NotedNotes ==
    ASSUME NEW c \in Seq(Evid)
    PROVE  Notes(Noted(c), c)
<1> DEFINE Pre(n) == SubSeq(c, 1, n)
           P == {n \in 0..Len(c) : Notes(Noted(Pre(n)), Pre(n))}
<1>1. Len(c) \in Nat /\ Pre(Len(c)) = c /\ Pre(0) = <<>>
  OBVIOUS
<1>2. ASSUME NEW n \in 1..Len(c)
      PROVE  /\ Pre(n) = Append(Pre(n - 1), c[n]) /\ Pre(n - 1) \in Seq(Evid) /\ c[n] \in Evid
             /\ Len(Pre(n - 1)) = n - 1 /\ Len(Pre(n)) = n /\ Pre(n)[n] = c[n]
             /\ \A i \in 1..(n - 1) : Pre(n)[i] = Pre(n - 1)[i]
  <2>1. Pre(n) = Append(Pre(n - 1), c[n])
    OBVIOUS
  <2>2. /\ Pre(n - 1) \in Seq(Evid) /\ c[n] \in Evid
        /\ Len(Pre(n - 1)) = n - 1 /\ Len(Pre(n)) = n /\ Pre(n)[n] = c[n]
    OBVIOUS
  <2>3. \A i \in 1..(n - 1) : Pre(n)[i] = c[i] /\ Pre(n - 1)[i] = c[i]
    OBVIOUS
  <2> QED  BY <2>1, <2>2, <2>3
<1> HIDE DEF Pre
<1>3. 0 \in P
  <2>1. Notes(<<>>, <<>>)
    BY DEF Notes
  <2> QED  BY <1>1, <2>1, NoteStep
<1>4. ASSUME NEW n \in 1..Len(c), n - 1 \in P PROVE n \in P
  <2>1. Noted(Pre(n)) = NoteCompleted(Noted(Pre(n - 1)), c[n])
    <3> DEFINE w == Pre(n - 1)  v == Pre(n)
    <3>1. /\ Len(w) \in Nat /\ Len(v) = Len(w) + 1 /\ v[Len(v)] = c[n]
          /\ \A i \in 1..Len(w) : v[i] = w[i]
      <4>1. n - 1 \in Nat /\ n = (n - 1) + 1  BY <1>1
      <4>2. Len(w) = n - 1 /\ Len(v) = n /\ v[n] = c[n]  BY <1>2
      <4>3. \A i \in 1..(n - 1) : v[i] = w[i]  BY <1>2
      <4> HIDE DEF w, v
      <4> QED  BY <4>1, <4>2, <4>3
    <3> HIDE DEF w, v
    <3>2. Noted(v) = NoteCompleted(Noted(w), v[Len(v)])
      BY <3>1, NoteStep
    <3> QED  BY <3>1, <3>2 DEF w, v
  <2>2. Notes(Noted(Pre(n - 1)), Pre(n - 1))
    BY <1>4
  <2>3. Notes(NoteCompleted(Noted(Pre(n - 1)), c[n]), Append(Pre(n - 1), c[n]))
    BY <1>2, <2>2, NoteOne
  <2>4. n \in 0..Len(c)  BY <1>1
  <2> QED  BY <1>2, <2>1, <2>3, <2>4
<1> HIDE DEF P
<1>5. \A i \in (0 + 1)..Len(c) : i - 1 \in P => i \in P
  BY <1>4
<1>6. 0..Len(c) \subseteq P
  BY ONLY <1>1, <1>3, <1>5, UpTo
<1>7. Len(c) \in P
  BY <1>1, <1>6
<1> QED  BY <1>1, <1>7 DEF P

-----------------------------------------------------------------------------
(* addCompletedSnapshots.                                                  *)

CallRec == [id : Nat, print : Prints]
Codes ==
    {"duplicate_call_id", "completed_call_reissued", "duplicate_pending_call",
     "consecutive_fingerprint_limit", "tool_round_limit", "call_id_already_consumed",
     "unknown_call_id", "repeated_failure"}
IssueRec == [code : Codes, id : Nat, print : Prints \cup {NoPrint}]
LedgerRec ==
    [calls : Seq(CallRec), pending : SUBSET Nat, consumed : SUBSET Nat,
     completed : Seq(Evid), signatures : SUBSET (Prints \X Failures),
     issues : SUBSET IssueRec, last : Prints \cup {NoPrint}, run : Nat]

\* Every call is of the execution at its place.
Aligned(l) ==
    /\ Len(l.calls) = Len(l.completed)
    /\ \A i \in DOMAIN l.calls : l.calls[i].print = l.completed[i].print

\* A ledger made of a snapshot.
Rebuilt(l) ==
    /\ l \in LedgerRec /\ Aligned(l)
    /\ l.pending = {} /\ l.issues = {} /\ l.consumed \subseteq {0} /\ l.run = 0
    /\ \A i \in DOMAIN l.calls : l.calls[i].id = 0
    /\ \A p \in Prints : \A f \in Ways(l.completed, p) : <<p, f>> \in l.signatures

\* The executions c stand for the entries e, block by block.
Blocks(c, e) ==
    /\ \A i \in DOMAIN e : /\ Times(c, e[i].print) = e[i].count
                           /\ Ways(c, e[i].print) = ToSet(e[i].failures)
    /\ \A x \in DOMAIN c : \E i \in DOMAIN e : /\ c[x].print = e[i].print
                                               /\ c[x].failed = e[i].failed
    /\ \A x, y \in DOMAIN c, i, j \in DOMAIN e :
          x <= y /\ c[x].print = e[i].print /\ c[y].print = e[j].print => i <= j
    /\ e # <<>> => RunOf(c, e[Len(e)].print, e[Len(e)].count)

LEMMA RestoredBlock ==
    ASSUME NEW m \in EntryRec, Len(m.failures) <= m.count
    PROVE  /\ Restored(m) \in Seq(Evid) /\ Len(Restored(m)) = m.count
           /\ \A i \in 1..m.count : /\ Restored(m)[i].print = m.print
                                    /\ Restored(m)[i].failed = m.failed
           /\ {Restored(m)[i].failure : i \in 1..m.count} \ {NoFailure} = ToSet(m.failures)
<1> DEFINE n == m.count  fs == m.failures
           g(i) == IF i <= Len(fs) THEN fs[i] ELSE NoFailure
           b == [i \in 1..n |-> [print |-> m.print, failed |-> m.failed, failure |-> g(i)]]
<1>1. m.print \in Prints /\ m.failed \in BOOLEAN /\ n \in Nat /\ fs \in Seq(Failures)
  BY DEF EntryRec
<1>2. Len(fs) \in Nat /\ DOMAIN fs = 1..Len(fs) /\ Len(fs) <= n
  BY <1>1
<1>3. Restored(m) = b
  BY DEF Restored
<1> HIDE DEF n, fs
<1>4. ASSUME NEW i \in 1..n PROVE g(i) \in Failures \cup {NoFailure}
  <2>1. CASE i <= Len(fs)
    <3>1. i \in DOMAIN fs  BY <1>1, <1>2, <2>1
    <3>2. fs[i] \in Failures  BY <1>1, <3>1
    <3> QED  BY <2>1, <3>2
  <2>2. CASE ~(i <= Len(fs))
    BY <2>2
  <2> QED  BY <2>1, <2>2
<1>5. NoFailure \notin Failures
  BY LedgerAssumption
<1>6. \A f \in ToSet(fs) : f \in Failures
  BY <1>1 DEF ToSet
<1>7. {g(i) : i \in 1..n} \ {NoFailure} \subseteq ToSet(fs)
  <2>1. ASSUME NEW i \in 1..n, g(i) # NoFailure PROVE g(i) \in ToSet(fs)
    <3>1. i <= Len(fs) /\ g(i) = fs[i]  BY <2>1
    <3>2. i \in DOMAIN fs  BY <1>1, <1>2, <3>1
    <3> QED  BY <3>1, <3>2 DEF ToSet
  <2> QED  BY <2>1
<1>8. ToSet(fs) \subseteq {g(i) : i \in 1..n} \ {NoFailure}
  <2>1. ASSUME NEW i \in DOMAIN fs PROVE fs[i] \in {g(j) : j \in 1..n} /\ fs[i] # NoFailure
    <3>1. i \in 1..n /\ i <= Len(fs)  BY <1>1, <1>2
    <3>2. fs[i] = g(i)  BY <3>1
    <3>3. fs[i] \in Failures  BY <1>1
    <3> HIDE DEF g
    <3> QED  BY <3>1, <3>2, <3>3, <1>5
  <2> QED  BY <2>1 DEF ToSet
<1> HIDE DEF g
<1>9. b \in Seq(Evid) /\ Len(b) = n
  <2>1. \A i \in 1..n : [print |-> m.print, failed |-> m.failed, failure |-> g(i)] \in Evid
    BY <1>1, <1>4 DEF Evid
  <2> QED  BY <1>1, <2>1
<1>10. \A i \in 1..n : b[i].print = m.print /\ b[i].failure = g(i)
  OBVIOUS
<1>11. \A i \in 1..n : b[i].failed = m.failed
  BY Zenon
<1>12. {b[i].failure : i \in 1..n} = {g(i) : i \in 1..n}
  BY <1>10
<1> HIDE DEF b
<1> QED  BY <1>3, <1>7, <1>8, <1>9, <1>10, <1>11, <1>12 DEF n, fs

\* One entry more is one block more.
LEMMA BlockAppended ==
    ASSUME NEW c \in Seq(Evid), NEW e \in Seq(EntryRec), Blocks(c, e),
           NEW m \in EntryRec, Len(m.failures) <= m.count,
           \A i \in DOMAIN e : e[i].print # m.print
    PROVE  Blocks(c \o Restored(m), Append(e, m))
<1> DEFINE b == Restored(m)  C == c \o b  E == Append(e, m)  k == m.count  p == m.print
           n == Len(e) + 1
<1>1. /\ b \in Seq(Evid) /\ Len(b) = k
      /\ \A i \in 1..k : b[i].print = p /\ b[i].failed = m.failed
      /\ {b[i].failure : i \in 1..k} \ {NoFailure} = ToSet(m.failures)
  BY RestoredBlock
<1>2. k \in Nat /\ p \in Prints /\ ToSet(m.failures) \subseteq Failures
  BY DEF EntryRec, ToSet
<1> HIDE DEF b, k
<1>3. /\ C \in Seq(Evid) /\ Len(C) = Len(c) + k
      /\ DOMAIN C = 1..(Len(c) + k) /\ DOMAIN c = 1..Len(c) /\ Len(c) \in Nat
      /\ \A i \in 1..Len(c) : C[i] = c[i]
      /\ \A i \in 1..k : C[Len(c) + i] = b[i]
  <2>1. b \in Seq(Evid) /\ Len(b) = k  BY <1>1
  <2> HIDE DEF C
  <2>2. C = c \o b  BY DEF C
  <2>3. /\ C \in Seq(Evid) /\ Len(C) = Len(c) + Len(b)
        /\ DOMAIN C = 1..(Len(c) + Len(b)) /\ DOMAIN c = 1..Len(c) /\ Len(c) \in Nat
        /\ \A i \in 1..Len(c) : C[i] = c[i]
        /\ \A i \in 1..Len(b) : C[Len(c) + i] = b[i]
    BY ONLY <2>1, <2>2, c \in Seq(Evid)
  <2> QED  BY ONLY <2>1, <2>3
<1>4. /\ E \in Seq(EntryRec) /\ Len(E) = n /\ DOMAIN E = 1..n /\ DOMAIN e = 1..Len(e)
      /\ E[n] = m /\ Len(e) \in Nat /\ \A i \in 1..Len(e) : E[i] = e[i]
  BY AppendedAt
<1> HIDE DEF C, E
<1>5. \A x \in (Len(c) + 1)..(Len(c) + k) : C[x].print = p /\ C[x].failed = m.failed
  <2>1. ASSUME NEW x \in (Len(c) + 1)..(Len(c) + k) PROVE C[x].print = p /\ C[x].failed = m.failed
    <3>1. x - Len(c) \in 1..k /\ Len(c) + (x - Len(c)) = x  BY <1>2, <1>3
    <3>2. C[x] = b[x - Len(c)]  BY <1>3, <3>1
    <3> QED  BY <1>1, <3>1, <3>2
  <2> QED  BY <2>1
<1>6. \A x \in 1..Len(c) : c[x].print # p
  BY <1>3 DEF Blocks
<1>7. ASSUME NEW i \in 1..Len(e)
      PROVE  e[i].print # p /\ E[i] = e[i]
  BY <1>4
<1>8. C \in Seq(Evid) /\ k \in Nat /\ Longer(C, c, p, k)
  <2>1. \A x \in (Len(c) + 1)..(Len(c) + k) : C[x].print = p  BY <1>5
  <2> QED  BY <1>2, <1>3, <2>1 DEF Longer
<1>9. Times(C, p) = k
  <2>1. At(c, p) = {}  BY <1>3, <1>6 DEF At
  <2>2. Times(c, p) = 0  BY <2>1, AtFinite
  <2>3. Times(C, p) = Times(c, p) + k  BY <1>8, TimesBlock
  <2> QED  BY <1>2, <2>2, <2>3
<1>10. Ways(C, p) = ToSet(m.failures)
  <2>1. At(C, p) = (Len(c) + 1)..(Len(c) + k)
    BY <1>2, <1>3, <1>5, <1>6 DEF At
  <2>2. {C[x].failure : x \in At(C, p)} = {b[i].failure : i \in 1..k}
    <3>1. ASSUME NEW x \in At(C, p) PROVE C[x].failure \in {b[i].failure : i \in 1..k}
      <4>1. x - Len(c) \in 1..k /\ Len(c) + (x - Len(c)) = x  BY <1>2, <1>3, <2>1
      <4>2. C[x] = b[x - Len(c)]  BY <1>3, <4>1
      <4> QED  BY <4>1, <4>2
    <3>2. ASSUME NEW i \in 1..k PROVE b[i].failure \in {C[x].failure : x \in At(C, p)}
      <4>1. Len(c) + i \in At(C, p)  BY <1>2, <1>3, <2>1
      <4>2. C[Len(c) + i] = b[i]  BY <1>3
      <4> QED  BY <4>1, <4>2
    <3> QED  BY <3>1, <3>2
  <2> QED  BY <1>1, <2>2 DEF Ways
<1>11. ASSUME NEW q, q # p PROVE Ways(C, q) = Ways(c, q)
  <2>1. At(C, q) = At(c, q)
    BY <1>2, <1>3, <1>5, <1>11, SMTT(30) DEF At
  <2>2. \A x \in At(c, q) : C[x] = c[x]
    BY <1>3 DEF At
  <2> QED  BY <2>1, <2>2 DEF Ways
<1>12. ASSUME NEW i \in DOMAIN E
       PROVE  Times(C, E[i].print) = E[i].count /\ Ways(C, E[i].print) = ToSet(E[i].failures)
  <2>1. CASE i = n
    BY <1>4, <1>9, <1>10, <2>1 DEF k
  <2>2. CASE i # n
    <3>1. i \in 1..Len(e)  BY <1>4, <2>2
    <3>2. e[i].print # p /\ E[i] = e[i]  BY <1>7, <3>1
    <3>3. Times(c, e[i].print) = e[i].count /\ Ways(c, e[i].print) = ToSet(e[i].failures)
      BY <1>4, <3>1 DEF Blocks
    <3>4. Times(C, e[i].print) = Times(c, e[i].print)  BY <1>8, <3>2, TimesOther
    <3> QED  BY <1>11, <3>2, <3>3, <3>4
  <2> QED  BY <2>1, <2>2
<1>13. ASSUME NEW x \in DOMAIN C
       PROVE  \E i \in DOMAIN E : C[x].print = E[i].print /\ C[x].failed = E[i].failed
  <2>1. CASE x \in 1..Len(c)
    <3>1. PICK i \in DOMAIN e : c[x].print = e[i].print /\ c[x].failed = e[i].failed
      BY <1>3, <2>1 DEF Blocks
    <3>2. i \in DOMAIN E /\ E[i] = e[i] /\ C[x] = c[x]  BY <1>3, <1>4, <2>1, <3>1
    <3> QED  BY <3>1, <3>2
  <2>2. CASE x \notin 1..Len(c)
    <3>1. x \in (Len(c) + 1)..(Len(c) + k)  BY <1>2, <1>3, <2>2
    <3>2. n \in DOMAIN E /\ E[n] = m  BY <1>4
    <3> QED  BY <1>5, <3>1, <3>2
  <2> QED  BY <2>1, <2>2
<1>14. ASSUME NEW x \in DOMAIN C, NEW y \in DOMAIN C, NEW i \in DOMAIN E, NEW j \in DOMAIN E,
              x <= y, C[x].print = E[i].print, C[y].print = E[j].print
       PROVE  i <= j
  <2>1. CASE j = n
    BY <1>4, <2>1
  <2>2. CASE j # n
    <3>1. j \in 1..Len(e) /\ E[j] = e[j] /\ e[j].print # p  BY <1>4, <1>7, <2>2
    <3>2. y \in 1..Len(c)
      <4>1. C[y].print # p  BY <1>14, <3>1
      <4>2. y \notin (Len(c) + 1)..(Len(c) + k)  BY <1>5, <4>1
      <4> QED  BY <1>2, <1>3, <4>2
    <3>3. x \in 1..Len(c)  BY <1>3, <1>14, <3>2
    <3>4. C[x] = c[x] /\ C[y] = c[y]  BY <1>3, <3>2, <3>3
    <3>5. i # n  BY <1>4, <1>6, <1>14, <3>3, <3>4
    <3>6. i \in 1..Len(e) /\ E[i] = e[i]  BY <1>4, <3>5
    <3>7. x \in DOMAIN c /\ y \in DOMAIN c /\ i \in DOMAIN e /\ j \in DOMAIN e
      BY <1>3, <1>4, <3>1, <3>2, <3>3, <3>6
    <3>8. x <= y /\ c[x].print = e[i].print /\ c[y].print = e[j].print
      BY <1>14, <3>1, <3>4, <3>6
    <3> QED  BY <3>7, <3>8 DEF Blocks
  <2> QED  BY <2>1, <2>2
<1>15. RunOf(C, p, k)
  BY <1>2, <1>3, <1>5 DEF RunOf
<1>16. E[Len(E)] = m
  BY <1>4
<1> QED  BY <1>12, <1>13, <1>14, <1>15, <1>16 DEF Blocks, C, E, b, k

LEMMA SnapshotAdded ==
    ASSUME NEW R, Rebuilt(R), NEW e \in Seq(EntryRec), Blocks(R.completed, e),
           NEW m \in EntryRec, Len(m.failures) <= m.count,
           \A i \in DOMAIN e : e[i].print # m.print
    PROVE  /\ Rebuilt(AddSnapshot(R, m))
           /\ Blocks(AddSnapshot(R, m).completed, Append(e, m))
<1> DEFINE T == AddSnapshot(R, m)  k == m.count  b == Restored(m)
           a == [i \in 1..k |-> [id |-> 0, print |-> m.print]]
           new == {<<m.print, f>> : f \in ToSet(m.failures)}
           c == R.completed  C == c \o b  s == R.calls  A == s \o a
           E == Append(e, m)
<1>1. /\ R \in LedgerRec /\ c \in Seq(Evid) /\ s \in Seq(CallRec)
      /\ R.signatures \in SUBSET (Prints \X Failures)
      /\ R.last \in Prints \cup {NoPrint} /\ R.consumed \in SUBSET Nat
  BY DEF Rebuilt, LedgerRec
<1>2. k \in Nat /\ m.print \in Prints /\ m.failures \in Seq(Failures)
  BY DEF EntryRec
<1>3. /\ T.calls = A /\ T.completed = C /\ T.consumed = R.consumed \cup {0}
      /\ T.signatures = R.signatures \cup new /\ T.pending = R.pending
      /\ T.issues = R.issues /\ T.last = R.last /\ T.run = R.run
  BY <1>1 DEF AddSnapshot, LedgerRec
<1>4. T = [R EXCEPT !.calls = A, !.completed = C, !.consumed = @ \cup {0},
                    !.signatures = @ \cup new]
  BY DEF AddSnapshot
<1>5. /\ b \in Seq(Evid) /\ Len(b) = k
      /\ \A i \in 1..k : b[i].print = m.print
  BY RestoredBlock
<1>6. a \in Seq(CallRec) /\ Len(a) = k /\ \A i \in 1..k : a[i].id = 0 /\ a[i].print = m.print
  <2> DEFINE r == [id |-> 0, print |-> m.print]
  <2>1. r \in CallRec /\ r.id = 0 /\ r.print = m.print  BY <1>2 DEF CallRec
  <2>2. a = [i \in 1..k |-> r]  OBVIOUS
  <2> HIDE DEF k, r, a
  <2>3. a \in Seq(CallRec) /\ Len(a) = k /\ \A i \in 1..k : a[i] = r  BY ONLY <1>2, <2>1, <2>2
  <2> QED  BY <2>1, <2>3
<1>7. new \in SUBSET (Prints \X Failures)
  BY <1>2 DEF ToSet
<1> HIDE DEF T, k, a, b, new
<1>8. Blocks(C, E)
  BY <1>1, BlockAppended DEF b
<1> HIDE DEF C, A, E, c, s
<1>9. C = c \o b /\ A = s \o a
  BY DEF C, A
<1>10. /\ C \in Seq(Evid) /\ Len(C) = Len(c) + k
       /\ DOMAIN c = 1..Len(c) /\ Len(c) \in Nat
       /\ \A i \in 1..Len(c) : C[i] = c[i]
       /\ \A i \in 1..k : C[Len(c) + i] = b[i]
       /\ DOMAIN C = 1..(Len(c) + k)
  <2>1. b \in Seq(Evid) /\ c \in Seq(Evid) /\ C = c \o b  BY <1>1, <1>5, <1>9
  <2>2. /\ C \in Seq(Evid) /\ Len(C) = Len(c) + Len(b) /\ DOMAIN C = 1..(Len(c) + Len(b))
        /\ DOMAIN c = 1..Len(c) /\ Len(c) \in Nat /\ Len(b) \in Nat
        /\ \A i \in 1..Len(c) : C[i] = c[i]
        /\ \A i \in 1..Len(b) : C[Len(c) + i] = b[i]
    BY ONLY <2>1
  <2>3. Len(b) = k  BY <1>5
  <2> QED  BY ONLY <2>2, <2>3
<1>11. /\ A \in Seq(CallRec) /\ Len(A) = Len(s) + k
       /\ DOMAIN s = 1..Len(s) /\ Len(s) \in Nat
       /\ \A i \in 1..Len(s) : A[i] = s[i]
       /\ \A i \in 1..k : A[Len(s) + i] = a[i]
       /\ DOMAIN A = 1..(Len(s) + k)
  <2>1. a \in Seq(CallRec) /\ s \in Seq(CallRec) /\ A = s \o a  BY <1>1, <1>6, <1>9
  <2>2. /\ A \in Seq(CallRec) /\ Len(A) = Len(s) + Len(a) /\ DOMAIN A = 1..(Len(s) + Len(a))
        /\ DOMAIN s = 1..Len(s) /\ Len(s) \in Nat /\ Len(a) \in Nat
        /\ \A i \in 1..Len(s) : A[i] = s[i]
        /\ \A i \in 1..Len(a) : A[Len(s) + i] = a[i]
    BY ONLY <2>1
  <2>3. Len(a) = k  BY <1>6
  <2> QED  BY ONLY <2>2, <2>3
<1>12. /\ Len(s) = Len(c) /\ R.pending = {} /\ R.issues = {} /\ R.consumed \subseteq {0} /\ R.run = 0
       /\ \A i \in 1..Len(s) : s[i].id = 0 /\ s[i].print = c[i].print
  BY <1>11 DEF Rebuilt, Aligned, c, s
<1>13. ASSUME NEW i \in DOMAIN A PROVE A[i].id = 0 /\ A[i].print = C[i].print
  <2>1. CASE i \in 1..Len(s)
    BY <1>10, <1>11, <1>12, <2>1
  <2>2. CASE i \notin 1..Len(s)
    <3>1. i - Len(s) \in 1..k /\ Len(s) + (i - Len(s)) = i  BY <1>2, <1>11, <2>2 DEF k
    <3>2. PICK j \in 1..k : Len(s) + j = i  BY <3>1
    <3>3. A[i] = a[j] /\ C[i] = b[j]  BY <1>10, <1>11, <1>12, <3>2
    <3> QED  BY <1>5, <1>6, <3>3
  <2> QED  BY <2>1, <2>2
<1>14. Aligned(T)
  BY <1>3, <1>10, <1>11, <1>12, <1>13 DEF Aligned
<1>15. T \in LedgerRec
  <2>1. /\ A \in Seq(CallRec) /\ R.consumed \cup {0} \in SUBSET Nat /\ C \in Seq(Evid)
        /\ R.signatures \cup new \in SUBSET (Prints \X Failures)
    BY <1>1, <1>7, <1>10, <1>11
  <2> QED  BY <1>1, <1>4, <2>1 DEF LedgerRec
<1>16. ASSUME NEW p \in Prints, NEW f \in Ways(C, p) PROVE <<p, f>> \in T.signatures
  <2>1. PICK x \in DOMAIN C : C[x].print = p  BY DEF Ways, At
  <2>2. PICK i \in DOMAIN E : C[x].print = E[i].print  BY <1>8, <2>1 DEF Blocks
  <2>3. Ways(C, p) = ToSet(E[i].failures)  BY <1>8, <2>1, <2>2 DEF Blocks
  <2>4. /\ DOMAIN E = 1..(Len(e) + 1) /\ E[Len(e) + 1] = m /\ \A j \in 1..Len(e) : E[j] = e[j]
        /\ DOMAIN e = 1..Len(e) /\ Len(e) \in Nat
    BY AppendedAt DEF E
  <2>5. CASE i = Len(e) + 1
    BY <1>3, <2>1, <2>2, <2>3, <2>4, <2>5 DEF new
  <2>6. CASE i # Len(e) + 1
    <3>1. i \in DOMAIN e /\ E[i] = e[i]  BY <2>4, <2>6
    <3>2. Ways(c, p) = ToSet(e[i].failures)  BY <2>1, <2>2, <3>1 DEF Blocks, c
    <3>3. <<p, f>> \in R.signatures  BY <2>3, <3>1, <3>2 DEF Rebuilt, c
    <3> QED  BY <1>3, <3>3
  <2> QED  BY <2>5, <2>6
<1>17. Rebuilt(T)
  <2>1. \A i \in DOMAIN T.calls : T.calls[i].id = 0  BY <1>3, <1>13
  <2>2. \A p \in Prints : \A f \in Ways(T.completed, p) : <<p, f>> \in T.signatures
    BY <1>3, <1>16
  <2>3. T.pending = {} /\ T.issues = {} /\ T.consumed \subseteq {0} /\ T.run = 0
    BY <1>3, <1>12
  <2> QED  BY <1>14, <1>15, <2>1, <2>2, <2>3 DEF Rebuilt
<1> QED  BY <1>3, <1>8, <1>17 DEF T, E

\* The loop of addCompletedSnapshots.
LEMMA SnapshotRebuilds ==
    ASSUME NEW e \in Seq(EntryRec), \A i \in DOMAIN e : Len(e[i].failures) <= e[i].count,
           \A i, j \in DOMAIN e : e[i].print = e[j].print => i = j
    PROVE  /\ Rebuilt(AddCompletedSnapshots(e))
           /\ Blocks(AddCompletedSnapshots(e).completed, e)
<1> DEFINE Pre(n) == SubSeq(e, 1, n)
           Good(w) == /\ Rebuilt(AddCompletedSnapshots(w))
                      /\ Blocks(AddCompletedSnapshots(w).completed, w)
           P == {n \in 0..Len(e) : Good(Pre(n))}
<1>1. Len(e) \in Nat /\ Pre(Len(e)) = e /\ Pre(0) = <<>> /\ DOMAIN e = 1..Len(e)
  OBVIOUS
<1>2. ASSUME NEW n \in 1..Len(e)
      PROVE  /\ Pre(n) = Append(Pre(n - 1), e[n]) /\ Pre(n - 1) \in Seq(EntryRec) /\ e[n] \in EntryRec
             /\ Len(Pre(n - 1)) = n - 1 /\ Len(Pre(n)) = n /\ Pre(n)[n] = e[n]
             /\ \A i \in 1..(n - 1) : Pre(n)[i] = Pre(n - 1)[i] /\ Pre(n - 1)[i] = e[i]
             /\ DOMAIN Pre(n - 1) = 1..(n - 1)
  <2>1. Pre(n) = Append(Pre(n - 1), e[n])
    OBVIOUS
  <2>2. /\ Pre(n - 1) \in Seq(EntryRec) /\ e[n] \in EntryRec
        /\ Len(Pre(n - 1)) = n - 1 /\ Len(Pre(n)) = n /\ Pre(n)[n] = e[n]
        /\ DOMAIN Pre(n - 1) = 1..(n - 1)
    OBVIOUS
  <2>3. \A i \in 1..(n - 1) : Pre(n)[i] = e[i] /\ Pre(n - 1)[i] = e[i]
    OBVIOUS
  <2> QED  BY <2>1, <2>2, <2>3
<1> HIDE DEF Pre, Good
<1>3. 0 \in P
  <2>1. EmptyState \in LedgerRec
    BY DEF EmptyState, LedgerRec
  <2>2. /\ EmptyState.calls = <<>> /\ EmptyState.completed = <<>> /\ EmptyState.pending = {}
        /\ EmptyState.issues = {} /\ EmptyState.consumed = {} /\ EmptyState.run = 0
    BY DEF EmptyState
  <2>3. \A p : Ways(<<>>, p) = {}
    BY DEF Ways, At
  <2>4. Rebuilt(EmptyState)
    BY <2>1, <2>2, <2>3 DEF Rebuilt, Aligned
  <2>5. Blocks(<<>>, <<>>)
    BY DEF Blocks
  <2>6. AddCompletedSnapshots(<<>>) = EmptyState
    BY SnapshotStep
  <2> QED  BY <1>1, <2>2, <2>4, <2>5, <2>6 DEF Good
<1>4. ASSUME NEW n \in 1..Len(e), n - 1 \in P PROVE n \in P
  <2> DEFINE w == Pre(n - 1)  v == Pre(n)
  <2>1. AddCompletedSnapshots(v) = AddSnapshot(AddCompletedSnapshots(w), e[n])
    <3>1. /\ Len(w) \in Nat /\ Len(v) = Len(w) + 1 /\ v[Len(v)] = e[n]
          /\ \A i \in 1..Len(w) : v[i] = w[i]
      <4>1. n - 1 \in Nat /\ n = (n - 1) + 1  BY <1>1
      <4>2. Len(w) = n - 1 /\ Len(v) = n /\ v[n] = e[n]  BY <1>2
      <4>3. \A i \in 1..(n - 1) : v[i] = w[i]  BY <1>2
      <4> HIDE DEF w, v
      <4> QED  BY <4>1, <4>2, <4>3
    <3> HIDE DEF w, v
    <3>2. AddCompletedSnapshots(v) = AddSnapshot(AddCompletedSnapshots(w), v[Len(v)])
      BY <3>1, SnapshotStep
    <3> QED  BY <3>1, <3>2
  <2>2. Rebuilt(AddCompletedSnapshots(w)) /\ Blocks(AddCompletedSnapshots(w).completed, w)
    BY <1>4 DEF Good
  <2>3. \A i \in DOMAIN w : w[i].print # e[n].print
    <3>1. ASSUME NEW i \in DOMAIN w PROVE w[i].print # e[n].print
      <4>1. i \in 1..(n - 1) /\ w[i] = e[i]  BY <1>2
      <4>2. i \in DOMAIN e /\ n \in DOMAIN e /\ i # n  BY <1>1, <4>1
      <4> QED  BY <4>1, <4>2
    <3> QED  BY <3>1
  <2>4. w \in Seq(EntryRec) /\ e[n] \in EntryRec /\ v = Append(w, e[n])
    BY <1>2
  <2>5. Len(e[n].failures) <= e[n].count
    BY <1>1
  <2> HIDE DEF w, v
  <2>6. Good(v)
    BY <2>1, <2>2, <2>3, <2>4, <2>5, SnapshotAdded DEF Good
  <2> QED  BY <1>1, <2>6 DEF v
<1> HIDE DEF P
<1>5. \A i \in (0 + 1)..Len(e) : i - 1 \in P => i \in P
  BY <1>4
<1>6. 0..Len(e) \subseteq P
  BY ONLY <1>1, <1>3, <1>5, UpTo
<1>7. Len(e) \in P
  BY <1>1, <1>6
<1> QED  BY <1>1, <1>7 DEF P, Good

\* The last execution of an action that was executed.
LEMMA LastAt ==
    ASSUME NEW S, NEW c \in Seq(S), NEW p, At(c, p) # {}
    PROVE  \E x \in At(c, p) : \A y \in At(c, p) : y <= x
<1>1. At(c, p) \subseteq 1..Len(c) /\ Len(c) \in Nat
  BY AtFinite
<1> DEFINE P == {n \in Nat : Len(c) - n \in At(c, p)}
<1>2. PICK z \in At(c, p) : TRUE
  OBVIOUS
<1>3. Len(c) - z \in P
  <2>1. Len(c) - z \in Nat /\ Len(c) - (Len(c) - z) = z  BY <1>1
  <2> QED  BY <2>1
<1>4. PICK n \in P : \A m \in P : n <= m
  <2>1. P \subseteq Nat /\ P # {}  BY <1>3
  <2> HIDE DEF P
  <2> QED  BY <2>1, LeastNat
<1>5. ASSUME NEW y \in At(c, p) PROVE y <= Len(c) - n
  <2>1. Len(c) - y \in Nat /\ Len(c) - (Len(c) - y) = y /\ y \in Nat  BY <1>1
  <2>2. Len(c) - y \in P  BY <2>1
  <2>3. n <= Len(c) - y /\ n \in Nat  BY <1>4, <2>2
  <2> QED  BY <1>1, <2>1, <2>3
<1> QED  BY <1>4, <1>5

LEMMA NotesMirror ==
    ASSUME NEW c \in Seq(Evid), NEW d \in Seq(Evid), NEW e, Notes(e, d), Blocks(c, e)
    PROVE  Mirrors(c, d)
<1>1. /\ e \in Seq(EntryRec) /\ DOMAIN e = 1..Len(e) /\ Len(e) \in Nat
      /\ DOMAIN c = 1..Len(c) /\ Len(c) \in Nat /\ DOMAIN d = 1..Len(d) /\ Len(d) \in Nat
      /\ \A x \in DOMAIN c : c[x] \in Evid
  BY DEF Notes
<1>2. ASSUME NEW p, \A i \in DOMAIN e : e[i].print # p
      PROVE  At(c, p) = {} /\ At(d, p) = {}
  <2>1. At(c, p) = {}  BY <1>2 DEF Blocks, At
  <2>2. At(d, p) = {}  BY <1>2 DEF Notes, At
  <2> QED  BY <2>1, <2>2
<1>3. ASSUME NEW i \in DOMAIN e
      PROVE  /\ Sums(e[i], d) /\ Times(c, e[i].print) = e[i].count
             /\ e[i].count > 0 /\ e[i].count \in Nat
             /\ Ways(c, e[i].print) = ToSet(e[i].failures)
             /\ At(c, e[i].print) # {} /\ At(d, e[i].print) # {}
  <2>1. Sums(e[i], d) /\ e[i].count > 0  BY DEF Notes
  <2>2. Times(c, e[i].print) = e[i].count /\ Ways(c, e[i].print) = ToSet(e[i].failures)
    BY DEF Blocks
  <2>3. e[i].count = Times(d, e[i].print)  BY <2>1 DEF Sums
  <2>4. e[i].count \in Nat
    <3>1. e[i] \in EntryRec  BY <1>1
    <3> QED  BY <3>1 DEF EntryRec
  <2>5. e[i].count # 0  BY <2>1, <2>4
  <2>6. At(c, e[i].print) # {}  BY <2>2, <2>5, AtFinite
  <2>7. At(d, e[i].print) # {}  BY <2>3, <2>5, AtFinite
  <2> QED  BY <2>1, <2>2, <2>4, <2>6, <2>7
<1>4. ASSUME NEW i \in DOMAIN e, NEW x \in At(c, e[i].print)
      PROVE  c[x].failed = e[i].failed
  <2>1. x \in DOMAIN c /\ c[x].print = e[i].print  BY DEF At
  <2>2. PICK j \in DOMAIN e : c[x].print = e[j].print /\ c[x].failed = e[j].failed
    BY <2>1 DEF Blocks
  <2>3. i = j  BY <2>1, <2>2 DEF Notes
  <2> QED  BY <2>2, <2>3
<1>5. ASSUME NEW p \in Prints PROVE Times(c, p) = Times(d, p)
  <2>1. CASE \A i \in DOMAIN e : e[i].print # p
    BY <1>2, <2>1, AtFinite
  <2>2. CASE \E i \in DOMAIN e : e[i].print = p
    BY <1>3, <2>2 DEF Sums
  <2> QED  BY <2>1, <2>2
<1>6. Len(c) = Len(d)
  <2>1. \A i \in 1..Len(c) : c[i].print \in Prints  BY <1>1 DEF Evid
  <2>2. \A i \in 1..Len(d) : d[i].print \in Prints
    <3>1. \A i \in 1..Len(d) : d[i] \in Evid  OBVIOUS
    <3> QED  BY <3>1 DEF Evid
  <2>3. \A p \in Prints : Times(c, p) = Times(d, p)  BY <1>5
  <2> QED  BY <2>1, <2>2, <2>3, TimesLen, ZenonT(60)
<1>7. SameTimes(c, d)
  BY <1>5, <1>6 DEF SameTimes
<1>8. ASSUME NEW p \in Prints, NEW q \in Prints, Before(c, p, q) PROVE Before(d, p, q)
  <2>1. PICK y \in DOMAIN c : c[y].print = q /\ \A x \in DOMAIN c : c[x].print = p => x < y
    BY <1>8 DEF Before
  <2>2. PICK j \in DOMAIN e : e[j].print = q  BY <2>1 DEF Blocks
  <2>3. CASE \A i \in DOMAIN e : e[i].print # p
    <3>1. At(d, p) = {}  BY <1>2, <2>3
    <3>2. PICK z \in At(d, q) : TRUE  BY <1>3, <2>2
    <3> QED  BY <3>1, <3>2 DEF At, Before
  <2>4. CASE \E i \in DOMAIN e : e[i].print = p
    <3>1. PICK i \in DOMAIN e : e[i].print = p  BY <2>4
    <3>2. PICK x \in At(c, p) : TRUE  BY <1>3, <3>1
    <3>3. x \in DOMAIN c /\ c[x].print = p /\ x < y  BY <2>1, <3>2 DEF At
    <3>4. x <= y /\ x # y  BY <1>1, <3>3
    <3>5. i <= j  BY <2>1, <2>2, <3>1, <3>3, <3>4 DEF Blocks
    <3>6. i # j
      <4>1. ASSUME p = q PROVE FALSE
        <5>1. y < y  BY <2>1, <4>1
        <5> QED  BY <1>1, <5>1
      <4> QED  BY <2>2, <3>1, <4>1
    <3>7. i < j  BY <1>1, <3>5, <3>6
    <3> QED  BY <2>2, <3>1, <3>7 DEF Notes
  <2> QED  BY <2>3, <2>4
<1>9. ASSUME NEW p \in Prints, NEW k \in Nat, RunOf(d, p, k) PROVE RunOf(c, p, k)
  <2>1. CASE k = 0
    BY <1>1, <2>1 DEF RunOf
  <2>2. CASE k # 0
    <3>1. k <= Len(d) /\ \A x \in (Len(d) - k + 1)..Len(d) : d[x].print = p
      BY <1>9 DEF RunOf
    <3>2. Len(d) \in (Len(d) - k + 1)..Len(d) /\ d # <<>>  BY <1>1, <2>2, <3>1
    <3>3. e # <<>> /\ e[Len(e)].print = p  BY <3>1, <3>2 DEF Notes
    <3>4. Len(e) \in DOMAIN e  BY <1>1, <3>3
    <3> DEFINE n == e[Len(e)].count  I == (Len(d) - k + 1)..Len(d)
    <3>5. RunOf(c, p, n) /\ n \in Nat /\ n = Times(d, p)
      BY <1>3, <3>3, <3>4 DEF Blocks, Sums
    <3>6. I \subseteq At(d, p)  BY <1>1, <3>1 DEF At
    <3>7. IsFiniteSet(At(d, p)) /\ Times(d, p) = Cardinality(At(d, p))  BY AtFinite
    <3>8. Cardinality(I) = k
      <4>1. Len(d) - k + 1 \in Int /\ Len(d) \in Int /\ Len(d) - k + 1 <= Len(d)  BY <1>1, <2>2
      <4>2. Cardinality(I) = Len(d) - (Len(d) - k + 1) + 1  BY <4>1, FS_Interval
      <4> HIDE DEF I
      <4> QED  BY <1>1, <4>2
    <3> HIDE DEF I, n
    <3>9. k <= n  BY <3>5, <3>6, <3>7, <3>8, FS_Subset
    <3> QED  BY <1>1, <3>5, <3>9 DEF RunOf
  <2> QED  BY <2>1, <2>2
<1>10. ASSUME NEW p \in Prints, SomeFails(d, p) PROVE SomeFails(c, p) /\ LastFails(c, p)
  <2>1. PICK y \in DOMAIN d : d[y].print = p  BY <1>10 DEF SomeFails
  <2>2. PICK i \in DOMAIN e : e[i].print = p  BY <2>1 DEF Notes
  <2>3. e[i].failed  BY <1>3, <1>10, <2>2 DEF Sums
  <2>4. At(c, p) # {}  BY <1>3, <2>2
  <2>5. PICK x \in At(c, p) : \A z \in At(c, p) : z <= x  BY <2>4, LastAt
  <2>6. x \in DOMAIN c /\ c[x].print = p  BY <2>5 DEF At
  <2>7. c[x].failed  BY <1>4, <2>2, <2>3, <2>5
  <2>8. \A z \in DOMAIN c : c[z].print = p => z <= x  BY <2>5 DEF At
  <2>9. SomeFails(c, p)  BY <2>6, <2>7 DEF SomeFails
  <2>10. LastFails(c, p)  BY <2>6, <2>7, <2>8 DEF LastFails
  <2> QED  BY <2>9, <2>10
<1>11. ASSUME NEW p \in Prints, LastFails(d, p) PROVE SomeFails(d, p)
  BY <1>11 DEF LastFails, SomeFails
<1>12. ASSUME NEW p \in Prints
       PROVE  /\ Ways(c, p) \subseteq Ways(d, p)
              /\ Cardinality(Ways(d, p)) <= FailureMemory => Ways(c, p) = Ways(d, p)
  <2>1. CASE \A i \in DOMAIN e : e[i].print # p
    BY <1>2, <2>1 DEF Ways
  <2>2. CASE \E i \in DOMAIN e : e[i].print = p
    <3>1. PICK i \in DOMAIN e : e[i].print = p  BY <2>2
    <3> QED  BY <1>3, <3>1 DEF Sums
  <2> QED  BY <2>1, <2>2
<1>13. KeepsOrder(c, d)  BY <1>8 DEF KeepsOrder
<1>14. KeepsRuns(c, d)  BY <1>9 DEF KeepsRuns
<1>15. KeepsFailed(c, d)  BY <1>10, <1>11 DEF KeepsFailed
<1>16. KeepsWays(c, d)  BY <1>12 DEF KeepsWays
<1> QED  BY <1>7, <1>13, <1>14, <1>15, <1>16 DEF Mirrors

\* The ledger of a snapshot knows the executions s.
Covers(snapshot, s) ==
    /\ Rebuilt(AddCompletedSnapshots(snapshot))
    /\ Mirrors(AddCompletedSnapshots(snapshot).completed, s)

\* What seedAlias saves is what the next request reads back.
LEMMA SnapshotCovers ==
    ASSUME NEW c \in Seq(Evid), Len(c) <= SnapshotLimit
    PROVE  Covers(CompletedToolSnapshots(c), c)
<1> DEFINE e == Noted(c)
<1>1. Notes(e, c)
  BY NotedNotes
<1>2. e \in Seq(EntryRec) /\ Len(e) \in Nat /\ Len(e) <= SnapshotLimit
  <2>1. SnapshotLimit \in Nat  BY LedgerAssumption
  <2>2. e \in Seq(EntryRec) /\ Len(e) <= Len(c) /\ Len(e) \in Nat /\ Len(c) \in Nat
    BY <1>1 DEF Notes
  <2> HIDE DEF e
  <2> QED  BY <2>1, <2>2
<1> HIDE DEF e
<1>3. CompletedToolSnapshots(c) = e
  <2>1. SnapshotLimit \in Nat  BY LedgerAssumption
  <2>2. SubSeq(e, 1, Len(e)) = e  BY <1>2
  <2>3. ~(Len(e) > SnapshotLimit)  BY <1>2, <2>1
  <2> QED  BY <2>2, <2>3 DEF CompletedToolSnapshots, LastOf, e
<1>4. \A i \in DOMAIN e : Len(e[i].failures) <= e[i].count
  BY <1>1 DEF Notes, Sums
<1>5. \A i, j \in DOMAIN e : e[i].print = e[j].print => i = j
  BY <1>1 DEF Notes
<1>6. Rebuilt(AddCompletedSnapshots(e)) /\ Blocks(AddCompletedSnapshots(e).completed, e)
  BY <1>2, <1>4, <1>5, SnapshotRebuilds
<1>7. AddCompletedSnapshots(e).completed \in Seq(Evid)
  BY <1>6 DEF Rebuilt, LedgerRec
<1>8. Mirrors(AddCompletedSnapshots(e).completed, c)
  BY <1>1, <1>6, <1>7, NotesMirror
<1> QED  BY <1>3, <1>6, <1>8 DEF Covers

-----------------------------------------------------------------------------
(* One item of a conversation.                                             *)

\* An execution, as the client knows it and as a ledger keeps it.
RunRec == [call : Nat, print : Prints, outcome : Outcomes]
Entry(e) ==
    [print |-> e.print, failed |-> e.outcome \in Failures,
     failure |-> IF e.outcome \in Failures THEN e.outcome ELSE NoFailure]
Evidence(s) == [i \in DOMAIN s |-> Entry(s[i])]

IssuesOf(codes, id, p) == {[code |-> c, id |-> id, print |-> p] : c \in codes}

\* T is s with these issues.
Told(T, s, codes, id, p) ==
    /\ T \in LedgerRec /\ T.calls = s.calls /\ T.pending = s.pending
    /\ T.consumed = s.consumed /\ T.completed = s.completed
    /\ T.signatures = s.signatures /\ T.last = s.last /\ T.run = s.run
    /\ T.issues = s.issues \cup IssuesOf(codes, id, p)

LEMMA IssuesAdded ==
    ASSUME NEW s \in LedgerRec, NEW codes \in SUBSET Codes, NEW id \in Nat,
           NEW p \in Prints \cup {NoPrint}
    PROVE  Told(AddIssues(s, codes, id, p), s, codes, id, p)
<1> DEFINE new == IssuesOf(codes, id, p)
<1>1. new \in SUBSET IssueRec
  BY DEF IssueRec, IssuesOf
<1>2. AddIssues(s, codes, id, p) = [s EXCEPT !.issues = @ \cup new]
  BY DEF AddIssues, IssuesOf
<1> HIDE DEF new
<1>3. [s EXCEPT !.issues = @ \cup new] \in LedgerRec
  <2>1. s.issues \cup new \in SUBSET IssueRec  BY <1>1 DEF LedgerRec
  <2> QED  BY <2>1 DEF LedgerRec
<1> QED  BY <1>2, <1>3 DEF LedgerRec, new, Told

\* No check of registerToolCall objects.
Welcome(s, p) ==
    /\ Times(s.completed, p) < MaxOccurrences /\ PendingPrints(s) = {}
    /\ s.last = p => s.run + 1 <= MaxConsecutive
    /\ Len(s.calls) + 1 <= MaxToolRounds

RunAfter(s, p) == IF s.last = p THEN s.run + 1 ELSE 1

\* T is s after registerToolCall.
Registered(T, s, id, p) ==
    /\ T \in LedgerRec /\ T.calls = Append(s.calls, [id |-> id, print |-> p])
    /\ T.pending = s.pending \cup {id} /\ T.consumed = s.consumed
    /\ T.completed = s.completed /\ T.signatures = s.signatures
    /\ T.last = p /\ T.run = RunAfter(s, p)
    /\ s.issues \subseteq T.issues /\ (Welcome(s, p) => T.issues = s.issues)

LEMMA RegisterNew ==
    ASSUME NEW s \in LedgerRec, NEW id \in Nat, NEW p \in Prints, id \notin s.consumed,
           \A i \in DOMAIN s.calls : s.calls[i].id # id
    PROVE  Registered(RegisterCall(s, id, p), s, id, p)
<1> DEFINE run == IF s.last = p THEN s.run + 1 ELSE 1
           repeated == IF Times(s.completed, p) >= MaxOccurrences
                       THEN {"completed_call_reissued"}
                       ELSE IF p \in PendingPrints(s) THEN {"duplicate_pending_call"} ELSE {}
           consecutive == IF run > MaxConsecutive
                          THEN {"consecutive_fingerprint_limit"} ELSE {}
           rounds == IF Len(s.calls) + 1 > MaxToolRounds
                     THEN {"tool_round_limit"} ELSE {}
           codes == repeated \cup consecutive \cup rounds
           c == [id |-> id, print |-> p]
           calls == Append(s.calls, c)
           B == [s EXCEPT !.calls = calls, !.pending = @ \cup {id}, !.last = p, !.run = run]
<1>1. RegisterCall(s, id, p) = AddIssues(B, codes, id, p)
  BY DEF RegisterCall
<1>2. codes \in SUBSET Codes
  BY DEF Codes
<1>3. run \in Nat /\ calls \in Seq(CallRec)
  <2>1. s.run \in Nat /\ s.calls \in Seq(CallRec) /\ c \in CallRec  BY DEF LedgerRec, CallRec
  <2> QED  BY <2>1
<1>4. Welcome(s, p) => codes = {}
  <2>1. ASSUME Welcome(s, p) PROVE repeated = {} /\ consecutive = {} /\ rounds = {}
    <3>1. Times(s.completed, p) \in Nat /\ Len(s.calls) \in Nat /\ s.run \in Nat
      BY AtFinite DEF LedgerRec
    <3>2. {MaxToolRounds, MaxConsecutive, MaxOccurrences} \subseteq Nat \ {0}  BY LedgerAssumption
    <3>3. ~(Times(s.completed, p) >= MaxOccurrences)  BY <2>1, <3>1, <3>2 DEF Welcome
    <3>4. ~(p \in PendingPrints(s))  BY <2>1 DEF Welcome
    <3>5. ~(run > MaxConsecutive)  BY <2>1, <3>1, <3>2 DEF Welcome
    <3>6. ~(Len(s.calls) + 1 > MaxToolRounds)  BY <2>1, <3>1, <3>2 DEF Welcome
    <3> QED  BY <3>3, <3>4, <3>5, <3>6
  <2> QED  BY <2>1
<1> HIDE DEF codes, run, calls
<1>5. /\ B \in LedgerRec /\ B.calls = calls /\ B.pending = s.pending \cup {id}
      /\ B.consumed = s.consumed /\ B.completed = s.completed /\ B.signatures = s.signatures
      /\ B.last = p /\ B.run = run /\ B.issues = s.issues
  <2>1. s.pending \cup {id} \in SUBSET Nat  BY DEF LedgerRec
  <2> QED  BY <1>3, <2>1 DEF LedgerRec
<1> HIDE DEF B
<1> DEFINE T == AddIssues(B, codes, id, p)
<1>6. /\ T \in LedgerRec /\ T.calls = B.calls /\ T.pending = B.pending
      /\ T.consumed = B.consumed /\ T.completed = B.completed
      /\ T.signatures = B.signatures /\ T.last = B.last /\ T.run = B.run
      /\ T.issues = B.issues \cup IssuesOf(codes, id, p)
  <2>1. Told(T, B, codes, id, p)  BY <1>2, <1>5, IssuesAdded
  <2> HIDE DEF T
  <2> QED  BY <2>1 DEF Told
<1> HIDE DEF T
<1>7. s.issues \subseteq T.issues /\ (Welcome(s, p) => T.issues = s.issues)
  BY <1>4, <1>5, <1>6 DEF IssuesOf
<1>8. RegisterCall(s, id, p) = T
  BY <1>1 DEF T
<1> QED  BY <1>5, <1>6, <1>7, <1>8 DEF calls, run, RunAfter, Registered

\* The failure a result shows, and what it is reported as if it is known.
Shown(p, o) == IF o \in Failures THEN {<<p, o>>} ELSE {}
Again(signatures, id, p, o) ==
    IF o \in Failures /\ <<p, o>> \in signatures
    THEN {[code |-> "repeated_failure", id |-> id, print |-> p]} ELSE {}

\* T is s after consumeToolResult, for a call of p.
Consumed(T, s, id, p, o) ==
    LET x == [call |-> id, print |-> p, outcome |-> o]
    IN  /\ T \in LedgerRec /\ T.calls = s.calls /\ T.pending = s.pending \ {id}
        /\ T.consumed = s.consumed \cup {id} /\ T.completed = Append(s.completed, Entry(x))
        /\ T.signatures = s.signatures \cup Shown(p, o)
        /\ T.last = s.last /\ T.run = s.run
        /\ T.issues = s.issues \cup Again(s.signatures, id, p, o)

LEMMA ConsumePending ==
    ASSUME NEW s \in LedgerRec, NEW id \in s.pending, id \notin s.consumed, NEW p \in Prints,
           NEW o \in Outcomes, \E i \in DOMAIN s.calls : s.calls[i].id = id,
           \A i \in DOMAIN s.calls : s.calls[i].id = id => s.calls[i].print = p
    PROVE  Consumed(ConsumeResult(s, id, o), s, id, p, o)
<1> DEFINE again == o \in Failures /\ <<p, o>> \in s.signatures
           codes == IF again THEN {"repeated_failure"} ELSE {}
           x == [call |-> id, print |-> p, outcome |-> o]
           completed == Append(s.completed, Entry(x))
           signatures == s.signatures \cup (IF o \in Failures THEN {<<p, o>>} ELSE {})
           B == [s EXCEPT !.pending = @ \ {id}, !.consumed = @ \cup {id},
                          !.signatures = signatures, !.completed = completed]
<1>0. id \in Nat
  BY DEF LedgerRec
<1>1. ConsumeResult(s, id, o) = AddIssues(B, codes, id, p)
  <2>1. s.calls[CHOOSE i \in DOMAIN s.calls : s.calls[i].id = id].print = p
    OBVIOUS
  <2>2. Entry(x) = [print |-> p, failed |-> o \in Failures,
                    failure |-> IF o \in Failures THEN o ELSE NoFailure]
    BY DEF Entry
  <2>3. (IF o \in Failures THEN s.signatures \cup {<<p, o>>} ELSE s.signatures) = signatures
    OBVIOUS
  <2> HIDE DEF signatures
  <2> QED  BY <2>1, <2>2, <2>3, Zenon DEF ConsumeResult
<1>2. codes \in SUBSET Codes
  BY DEF Codes
<1>3. Entry(x) \in Evid
  <2>1. o \in Failures => (IF o \in Failures THEN o ELSE NoFailure) \in Failures  OBVIOUS
  <2> QED  BY <2>1 DEF Entry, Evid
<1>4. completed \in Seq(Evid)
  <2>1. s.completed \in Seq(Evid)  BY DEF LedgerRec
  <2> QED  BY <1>3, <2>1
<1>5. signatures \in SUBSET (Prints \X Failures)
  BY DEF LedgerRec
<1> HIDE DEF codes, signatures, completed
<1>6. /\ B \in LedgerRec /\ B.calls = s.calls /\ B.pending = s.pending \ {id}
      /\ B.consumed = s.consumed \cup {id} /\ B.completed = completed /\ B.signatures = signatures
      /\ B.last = s.last /\ B.run = s.run /\ B.issues = s.issues
  <2>1. s.pending \ {id} \in SUBSET Nat /\ s.consumed \cup {id} \in SUBSET Nat
    BY <1>0 DEF LedgerRec
  <2> QED  BY <1>4, <1>5, <2>1 DEF LedgerRec
<1> HIDE DEF B
<1> DEFINE T == AddIssues(B, codes, id, p)
<1>7. /\ T \in LedgerRec /\ T.calls = B.calls /\ T.pending = B.pending
      /\ T.consumed = B.consumed /\ T.completed = B.completed
      /\ T.signatures = B.signatures /\ T.last = B.last /\ T.run = B.run
      /\ T.issues = B.issues \cup IssuesOf(codes, id, p)
  <2>1. Told(T, B, codes, id, p)  BY <1>0, <1>2, <1>6, IssuesAdded
  <2> HIDE DEF T
  <2> QED  BY <2>1 DEF Told
<1> HIDE DEF T
<1>8. IssuesOf(codes, id, p) =
        IF o \in Failures /\ <<p, o>> \in s.signatures
        THEN {[code |-> "repeated_failure", id |-> id, print |-> p]} ELSE {}
  BY DEF codes, IssuesOf
<1>9. ConsumeResult(s, id, o) = T
  BY <1>1 DEF T
<1> QED  BY <1>6, <1>7, <1>8, <1>9 DEF completed, signatures, Shown, Again, Consumed

\* A call without a result never passes the preflight, nor does a result
\* without its call.
LEMMA RegisterBlocked ==
    ASSUME NEW s \in LedgerRec, NEW id \in Nat, NEW p \in Prints
    PROVE  Blocked(RegisterCall(s, id, p))
<1>1. CASE id \in s.consumed \/ \E i \in DOMAIN s.calls : s.calls[i].id = id
  <2> DEFINE T == AddIssues(s, {"duplicate_call_id"}, id, NoPrint)
  <2>1. RegisterCall(s, id, p) = T  BY <1>1 DEF RegisterCall
  <2>2. {"duplicate_call_id"} \in SUBSET Codes  BY DEF Codes
  <2>3. Told(T, s, {"duplicate_call_id"}, id, NoPrint)  BY <2>2, IssuesAdded
  <2> HIDE DEF T
  <2> DEFINE q == [code |-> "duplicate_call_id", id |-> id, print |-> NoPrint]
  <2>4. q \in T.issues /\ q.code # "repeated_failure"  BY <2>3 DEF IssuesOf, Told
  <2> HIDE DEF q
  <2> QED  BY <2>1, <2>4 DEF Blocked
<1>2. CASE ~(id \in s.consumed \/ \E i \in DOMAIN s.calls : s.calls[i].id = id)
  <2> DEFINE T == RegisterCall(s, id, p)
  <2>1. id \notin s.consumed /\ \A i \in DOMAIN s.calls : s.calls[i].id # id  BY <1>2
  <2>2. Registered(T, s, id, p)  BY <2>1, RegisterNew
  <2> HIDE DEF T
  <2>3. T.pending # {}  BY <2>2 DEF Registered
  <2> QED  BY <2>3 DEF Blocked, T
<1> QED  BY <1>1, <1>2

LEMMA ConsumeBlocked ==
    ASSUME NEW s \in LedgerRec, NEW id \in Nat, NEW o, id \in s.consumed \/ id \notin s.pending
    PROVE  Blocked(ConsumeResult(s, id, o))
<1> DEFINE code == IF id \in s.consumed THEN "call_id_already_consumed" ELSE "unknown_call_id"
           T == AddIssues(s, {code}, id, NoPrint)
           q == [code |-> code, id |-> id, print |-> NoPrint]
<1>1. ConsumeResult(s, id, o) = T  BY DEF ConsumeResult
<1>2. {code} \in SUBSET Codes /\ code # "repeated_failure"  BY DEF Codes
<1> HIDE DEF code
<1>3. Told(T, s, {code}, id, NoPrint)
  BY <1>2, IssuesAdded
<1> HIDE DEF T
<1>4. q \in T.issues /\ q.code # "repeated_failure"  BY <1>2, <1>3 DEF IssuesOf, Told
<1> HIDE DEF q
<1> QED  BY <1>1, <1>4 DEF Blocked

-----------------------------------------------------------------------------
(* The conversation and its executions.                                    *)

Item ==
    {User(c) : c \in BOOLEAN} \cup {Call(i, p) : i \in Nat, p \in Prints}
        \cup {Result(i, o) : i \in Nat, o \in Outcomes}

\* Calls carry their place as their id, results follow their call.
ItemsInv ==
    /\ items \in Seq(Item) /\ Len(items) > 0 /\ items[1].kind = "user"
    /\ \A i \in 1..Len(items) : items[i].kind = "call" =>
          items[i].id = i /\ i <= MaxItems /\ (i < Len(items) => items[i + 1].kind # "call")
    /\ \A i \in 1..Len(items) : items[i].kind = "result" =>
          i > 1 /\ items[i - 1].kind = "call" /\ items[i].id = i - 1

\* Every result is the outcome of an execution, in this order.
RanInv ==
    /\ ran \in Seq(RunRec)
    /\ \A k \in 1..Len(ran) :
          LET i == ran[k].call
          IN  /\ i \in 1..(Len(items) - 1)
              /\ items[i].kind = "call" /\ items[i].print = ran[k].print
              /\ items[i + 1].kind = "result" /\ items[i + 1].outcome = ran[k].outcome
    /\ \A k, m \in 1..Len(ran) : k < m => ran[k].call < ran[m].call
    /\ \A i \in 1..Len(items) : items[i].kind = "result" =>
          \E k \in 1..Len(ran) : ran[k].call = i - 1

LEMMA ItemFields ==
    ASSUME NEW x \in Item
    PROVE  /\ x.kind \in {"user", "call", "result"}
           /\ x.kind = "call" => x.id \in Nat /\ x.print \in Prints
           /\ x.kind = "result" => x.id \in Nat /\ x.outcome \in Outcomes
BY DEF Item, User, Call, Result

LEMMA AddedItem ==
    ASSUME NEW s, NEW x
    PROVE  /\ x.kind = "user" => AddItem(s, x) = s
           /\ x.kind = "call" => AddItem(s, x) = RegisterCall(s, x.id, x.print)
           /\ x.kind = "result" => AddItem(s, x) = ConsumeResult(s, x.id, x.outcome)
BY DEF AddItem

LEMMA EntryType ==
    ASSUME NEW x \in RunRec
    PROVE  /\ Entry(x) \in Evid /\ Entry(x).print = x.print
           /\ Entry(x).failed = (x.outcome \in Failures)
           /\ x.outcome \in Failures => Entry(x).failure = x.outcome
           /\ x.outcome \notin Failures => Entry(x).failure = NoFailure
<1>1. x.print \in Prints
  BY DEF RunRec
<1>2. Entry(x).failed = (x.outcome \in Failures)
  BY Zenon DEF Entry
<1>3. CASE x.outcome \in Failures
  BY <1>1, <1>2, <1>3 DEF Entry, Evid
<1>4. CASE x.outcome \notin Failures
  BY <1>1, <1>2, <1>4 DEF Entry, Evid
<1> QED  BY <1>3, <1>4

\* The ledger of the items from a to n.
Parsed(a, n) == AddItems(EmptyState, SubSeq(items, a, n))

LEMMA ParseStep ==
    ASSUME NEW S, items \in Seq(S), NEW a \in 1..(Len(items) + 1)
    PROVE  /\ Parsed(a, a - 1) = EmptyState
           /\ \A n \in a..Len(items) : Parsed(a, n) = AddItem(Parsed(a, n - 1), items[n])
<1>1. SubSeq(items, a, a - 1) = <<>>
  OBVIOUS
<1>2. Parsed(a, a - 1) = EmptyState
  BY <1>1, ItemsStep DEF Parsed
<1>3. ASSUME NEW n \in a..Len(items)
      PROVE  Parsed(a, n) = AddItem(Parsed(a, n - 1), items[n])
  <2> DEFINE w == SubSeq(items, a, n - 1)  v == SubSeq(items, a, n)
  <2>0. a \in Nat /\ n \in Nat /\ n <= Len(items) /\ 1 <= a /\ Len(items) \in Nat /\ a <= n
    OBVIOUS
  <2>1. Len(w) = n - a /\ Len(v) = n - a + 1 /\ n - a \in Nat
    BY <2>0
  <2>2. \A i \in 1..(n - a) : v[i] = w[i]
    <3>1. \A i \in 1..(n - a) : v[i] = items[a + i - 1] /\ w[i] = items[a + i - 1]
      BY <2>0
    <3> QED  BY <3>1
  <2>3. v[n - a + 1] = items[n]
    BY <2>0
  <2> HIDE DEF w, v
  <2>4. AddItems(EmptyState, v) = AddItem(AddItems(EmptyState, w), v[Len(v)])
    BY <2>1, <2>2, ItemsStep
  <2> QED  BY <2>1, <2>3, <2>4 DEF Parsed, w, v
<1> QED  BY <1>2, <1>3

\* What a ledger s of the items from a to n holds: their calls by id ...
Ids(s, a, n) ==
    /\ s.consumed \subseteq a..(n - 1) /\ s.pending \subseteq a..n
    /\ \A i \in DOMAIN s.calls :
          s.calls[i].id \in a..n /\ s.calls[i].print = items[s.calls[i].id].print
    /\ n >= a /\ items[n].kind = "call" =>
          n \in s.pending /\ \E i \in DOMAIN s.calls : s.calls[i].id = n

\* ... and the executions of these calls, from the one after r.
Done(c, a, n, r) ==
    /\ r + Len(c) <= Len(ran)
    /\ \A i \in 1..Len(c) : c[i] = Entry(ran[r + i])
    /\ \A k \in 1..Len(ran) :
          r < k /\ k <= r + Len(c) <=> a <= ran[k].call /\ ran[k].call < n

Seen(s, a, n, r) == s \in LedgerRec /\ Ids(s, a, n) /\ Done(s.completed, a, n, r)

\* An item other than a result ends no call.
LEMMA NothingDone ==
    ASSUME ItemsInv, RanInv, NEW a \in 1..(Len(items) + 1), NEW n \in a..Len(items),
           NEW r \in 0..Len(ran), NEW c \in Seq(Evid),
           items[n].kind # "result" \/ n = a, Done(c, a, n - 1, r)
    PROVE  Done(c, a, n, r)
<1>1. ASSUME NEW k \in 1..Len(ran), a <= ran[k].call, ran[k].call < n PROVE ran[k].call < n - 1
  <2>1. ran[k].call \in 1..(Len(items) - 1) /\ items[ran[k].call + 1].kind = "result"
    BY DEF RanInv
  <2>2. Len(items) \in Nat  BY DEF ItemsInv
  <2>3. ran[k].call # n - 1
    <3> DEFINE i == ran[k].call
    <3>1. ASSUME i = n - 1 PROVE FALSE
      <4>1. i + 1 = n /\ n # a  BY <1>1, <2>2, <3>1
      <4> QED  BY <2>1, <4>1
    <3> QED  BY <3>1
  <2> QED  BY <1>1, <2>1, <2>2, <2>3
<1>2. \A k \in 1..Len(ran) : ran[k].call \in Nat
  BY DEF RanInv
<1> QED  BY <1>1, <1>2 DEF Done

\* The result at n ends the next execution.
LEMMA OneDone ==
    ASSUME ItemsInv, RanInv, NEW a \in 1..(Len(items) + 1), NEW n \in (a + 1)..Len(items),
           NEW r \in 0..Len(ran), \A k \in 1..Len(ran) : k <= r <=> ran[k].call < a,
           NEW c \in Seq(Evid), items[n].kind = "result", Done(c, a, n - 1, r)
    PROVE  LET x == [call |-> n - 1, print |-> items[n - 1].print, outcome |-> items[n].outcome]
           IN  Done(Append(c, Entry(x)), a, n, r)
<1> DEFINE x == [call |-> n - 1, print |-> items[n - 1].print, outcome |-> items[n].outcome]
           m == r + Len(c) + 1
           C == Append(c, Entry(x))
<1>1. Len(items) \in Nat /\ n \in Nat /\ a \in Nat /\ Len(c) \in Nat /\ r \in Nat /\ Len(ran) \in Nat
  BY DEF ItemsInv, RanInv
<1>2. PICK k \in 1..Len(ran) : ran[k].call = n - 1
  BY <1>1 DEF RanInv
<1>3. /\ ran[k].print = items[n - 1].print /\ ran[k].outcome = items[n].outcome
      /\ ran[k] \in RunRec
  <2>1. ran[k].print = items[ran[k].call].print /\ ran[k].outcome = items[ran[k].call + 1].outcome
    BY DEF RanInv
  <2>2. ran[k] \in RunRec  BY DEF RanInv
  <2> QED  BY <1>1, <1>2, <2>1, <2>2
<1>4. Entry(ran[k]) = Entry(x)
  BY <1>3 DEF Entry
<1>5. k > r
  BY <1>1, <1>2
<1>6. k > r + Len(c)
  <2>1. r < k /\ k <= r + Len(c) <=> a <= ran[k].call /\ ran[k].call < n - 1  BY DEF Done
  <2>2. ~(ran[k].call < n - 1)  BY <1>1, <1>2
  <2> QED  BY <1>1, <1>5, <2>1, <2>2
<1>7. k = m
  <2>1. ASSUME m < k PROVE FALSE
    <3>1. m \in 1..Len(ran) /\ r < m  BY <1>1, <2>1
    <3>2. ran[m].call < n - 1  BY <1>2, <2>1, <3>1 DEF RanInv
    <3>3. ~(ran[m].call < a)  BY <1>1, <3>1
    <3>4. ran[m].call \in Nat  BY <3>1, SMTT(30) DEF RanInv
    <3>5. a <= ran[m].call  BY <1>1, <3>3, <3>4
    <3>6. m <= r + Len(c)  BY <3>1, <3>2, <3>5 DEF Done
    <3> QED  BY <1>1, <3>6
  <2> QED  BY <1>1, <1>6, <2>1
<1>8. Len(C) = Len(c) + 1 /\ C[Len(c) + 1] = Entry(x) /\ \A i \in 1..Len(c) : C[i] = c[i]
  <2>1. Entry(x) \in Evid  BY <1>3, <1>4, EntryType
  <2> HIDE DEF x
  <2> QED  BY <2>1
<1> HIDE DEF C, x
<1>9. r + Len(C) <= Len(ran)
  BY <1>1, <1>7, <1>8
<1>10. ASSUME NEW i \in 1..Len(C) PROVE C[i] = Entry(ran[r + i])
  <2>1. CASE i = Len(c) + 1
    <3>1. r + i = m  BY <1>1, <2>1
    <3> QED  BY <1>4, <1>7, <1>8, <2>1, <3>1
  <2>2. CASE i # Len(c) + 1
    <3>1. i \in 1..Len(c)  BY <1>1, <1>8, <2>2
    <3> QED  BY <1>8, <3>1 DEF Done
  <2> QED  BY <2>1, <2>2
<1>11. ASSUME NEW j \in 1..Len(ran)
       PROVE  r < j /\ j <= r + Len(C) <=> a <= ran[j].call /\ ran[j].call < n
  <2>1. ran[j].call \in Nat  BY SMTT(30) DEF RanInv
  <2>2. r < j /\ j <= r + Len(c) <=> a <= ran[j].call /\ ran[j].call < n - 1  BY DEF Done
  <2>3. ran[j].call = n - 1 <=> j = m
    <3>1. j < k => ran[j].call < ran[k].call  BY DEF RanInv
    <3>2. k < j => ran[k].call < ran[j].call  BY DEF RanInv
    <3> QED  BY <1>1, <1>2, <1>7, <2>1, <3>1, <3>2, SMTT(30)
  <2>4. j <= r + Len(C) <=> j <= r + Len(c) \/ j = m
    <3>1. Len(C) = Len(c) + 1  BY <1>8
    <3>2. j \in Nat  OBVIOUS
    <3> QED  BY ONLY <1>1, <3>1, <3>2, SMTT(30)
  <2>5. ran[j].call < n <=> ran[j].call < n - 1 \/ ran[j].call = n - 1  BY <1>1, <2>1, SMTT(30)
  <2>6. j = m => r < j /\ a <= ran[j].call  BY <1>1, <2>3
  <2> QED  BY <2>2, <2>3, <2>4, <2>5, <2>6
<1> QED  BY <1>9, <1>10, <1>11 DEF Done, C, x

LEMMA UserSeen ==
    ASSUME ItemsInv, RanInv, NEW a \in 1..(Len(items) + 1), NEW n \in a..Len(items),
           NEW r \in 0..Len(ran), NEW s, Seen(s, a, n - 1, r), items[n].kind = "user"
    PROVE  Seen(s, a, n, r)
<1>1. s \in LedgerRec /\ s.completed \in Seq(Evid) /\ Ids(s, a, n - 1) /\ Done(s.completed, a, n - 1, r)
  BY DEF Seen, LedgerRec
<1>2. Done(s.completed, a, n, r)
  BY <1>1, NothingDone
<1>3. Len(items) \in Nat /\ a \in Nat /\ n \in Nat
  BY DEF ItemsInv
<1>4. Ids(s, a, n)
  <2>1. a..(n - 2) \subseteq a..(n - 1) /\ a..(n - 1) \subseteq a..n  BY <1>3
  <2>2. (n - 1) - 1 = n - 2  BY <1>3
  <2>3. s.consumed \subseteq a..(n - 1) /\ s.pending \subseteq a..n  BY <1>1, <2>1, <2>2 DEF Ids
  <2>4. \A i \in DOMAIN s.calls :
          s.calls[i].id \in a..n /\ s.calls[i].print = items[s.calls[i].id].print
    BY <1>1, <2>1 DEF Ids
  <2> QED  BY <2>3, <2>4 DEF Ids
<1> QED  BY <1>1, <1>2, <1>4 DEF Seen

LEMMA CallSeen ==
    ASSUME ItemsInv, RanInv, NEW a \in 1..(Len(items) + 1), NEW n \in a..Len(items),
           NEW r \in 0..Len(ran), NEW s, Seen(s, a, n - 1, r), items[n].kind = "call",
           NEW T, T = AddItem(s, items[n])
    PROVE  Seen(T, a, n, r) /\ Registered(T, s, n, items[n].print)
<1> DEFINE p == items[n].print  x == [id |-> n, print |-> p]
<1>1. s \in LedgerRec /\ s.completed \in Seq(Evid) /\ Ids(s, a, n - 1) /\ Done(s.completed, a, n - 1, r)
  BY DEF Seen, LedgerRec
<1>2. Len(items) \in Nat /\ a \in Nat /\ n \in Nat /\ n \in 1..Len(items)
  BY DEF ItemsInv
<1>3. p \in Prints /\ items[n].id = n
  <2>1. items[n] \in Item /\ items[n].id = n  BY <1>2 DEF ItemsInv
  <2> QED  BY <2>1, ItemFields
<1>4. T = RegisterCall(s, n, p)
  BY <1>3, AddedItem
<1>5. n \notin s.consumed /\ \A i \in DOMAIN s.calls : s.calls[i].id # n
  BY <1>1, <1>2 DEF Ids
<1>6. Registered(T, s, n, p)
  BY <1>1, <1>2, <1>3, <1>4, <1>5, RegisterNew
<1>7. Done(T.completed, a, n, r)
  <2>1. T.completed = s.completed  BY <1>6 DEF Registered
  <2> QED  BY <1>1, <2>1, NothingDone
<1>8. Ids(T, a, n)
  <2> DEFINE c == s.calls  C == T.calls
  <2>1. c \in Seq(CallRec) /\ x \in CallRec  BY <1>1, <1>2, <1>3 DEF LedgerRec, CallRec
  <2>2. C = Append(c, x)  BY <1>6 DEF Registered
  <2>3. x.id = n /\ x.print = p  OBVIOUS
  <2> HIDE DEF c, C, x, p
  <2>4. /\ Len(c) \in Nat /\ DOMAIN c = 1..Len(c) /\ DOMAIN C = 1..(Len(c) + 1)
        /\ C[Len(c) + 1] = x /\ \A i \in 1..Len(c) : C[i] = c[i]
    BY <2>1, <2>2
  <2>5. T.consumed = s.consumed /\ T.pending = s.pending \cup {n}  BY <1>6 DEF Registered
  <2>6. T.consumed \subseteq a..(n - 1) /\ T.pending \subseteq a..n
    <3>1. s.consumed \subseteq a..((n - 1) - 1) /\ s.pending \subseteq a..(n - 1)  BY <1>1 DEF Ids
    <3> QED  BY <1>2, <2>5, <3>1
  <2>7. ASSUME NEW i \in DOMAIN C PROVE C[i].id \in a..n /\ C[i].print = items[C[i].id].print
    <3>1. CASE i = Len(c) + 1
      BY <1>2, <2>3, <2>4, <3>1 DEF p
    <3>2. CASE i # Len(c) + 1
      <4>1. i \in DOMAIN c /\ C[i] = c[i]  BY <2>4, <3>2
      <4>2. c[i].id \in a..(n - 1) /\ c[i].print = items[c[i].id].print  BY <1>1, <4>1 DEF Ids, c
      <4> QED  BY <1>2, <4>1, <4>2
    <3> QED  BY <3>1, <3>2
  <2>8. n \in T.pending /\ \E i \in DOMAIN C : C[i].id = n
    <3>1. Len(c) + 1 \in DOMAIN C  BY <2>4
    <3> QED  BY <2>3, <2>4, <2>5, <3>1
  <2> QED  BY <2>6, <2>7, <2>8 DEF Ids, C
<1> QED  BY <1>6, <1>7, <1>8 DEF Seen, Registered

LEMMA ResultSeen ==
    ASSUME ItemsInv, RanInv, NEW a \in 1..(Len(items) + 1), NEW n \in (a + 1)..Len(items),
           NEW r \in 0..Len(ran), \A k \in 1..Len(ran) : k <= r <=> ran[k].call < a,
           NEW s, Seen(s, a, n - 1, r), items[n].kind = "result",
           NEW T, T = AddItem(s, items[n])
    PROVE  Seen(T, a, n, r) /\ Consumed(T, s, n - 1, items[n - 1].print, items[n].outcome)
<1> DEFINE p == items[n - 1].print  o == items[n].outcome  m == n - 1
           x == [call |-> m, print |-> p, outcome |-> o]
<1>1. s \in LedgerRec /\ s.completed \in Seq(Evid) /\ Ids(s, a, m) /\ Done(s.completed, a, m, r)
  BY DEF Seen, LedgerRec
<1>2. /\ Len(items) \in Nat /\ a \in Nat /\ n \in Nat /\ m \in a..Len(items) /\ m \in 1..Len(items)
      /\ n \in 1..Len(items) /\ n \in a..Len(items)
  BY DEF ItemsInv
<1>3. items[n].id = m /\ items[m].kind = "call" /\ items[m].id = m
  BY <1>2 DEF ItemsInv
<1>4. p \in Prints /\ o \in Outcomes
  <2>1. items[n] \in Item /\ items[m] \in Item  BY <1>2 DEF ItemsInv
  <2> QED  BY <1>3, <2>1, ItemFields
<1>5. T = ConsumeResult(s, m, o)
  BY <1>3, AddedItem
<1>6. m \in s.pending /\ m \notin s.consumed /\ \E i \in DOMAIN s.calls : s.calls[i].id = m
  <2>1. m >= a  BY <1>2
  <2>2. m \in s.pending /\ \E i \in DOMAIN s.calls : s.calls[i].id = m
    BY <1>1, <1>3, <2>1 DEF Ids
  <2>3. s.consumed \subseteq a..(m - 1)  BY <1>1 DEF Ids
  <2> QED  BY <1>2, <2>2, <2>3
<1>7. \A i \in DOMAIN s.calls : s.calls[i].id = m => s.calls[i].print = p
  BY <1>1 DEF Ids
<1> HIDE DEF m, p, o
<1>8. Consumed(T, s, m, p, o)
  BY <1>1, <1>4, <1>5, <1>6, <1>7, ConsumePending
<1>9. T.completed = Append(s.completed, Entry(x))
  BY <1>8 DEF Consumed
<1>10. Done(Append(s.completed, Entry(x)), a, n, r)
  BY <1>1, OneDone DEF m, p, o
<1>11. Ids(T, a, n)
  <2>1. T.consumed = s.consumed \cup {m} /\ T.pending = s.pending \ {m} /\ T.calls = s.calls
    BY <1>8 DEF Consumed
  <2>2. s.consumed \subseteq a..(m - 1) /\ s.pending \subseteq a..m  BY <1>1 DEF Ids
  <2>3. m = n - 1  BY DEF m
  <2>4. T.consumed \subseteq a..(n - 1) /\ T.pending \subseteq a..n  BY <1>2, <2>1, <2>2, <2>3
  <2>5. \A i \in DOMAIN s.calls :
          s.calls[i].id \in a..m /\ s.calls[i].print = items[s.calls[i].id].print
    BY <1>1 DEF Ids
  <2>6. a..m \subseteq a..n  BY <1>2, <2>3
  <2> QED  BY <2>1, <2>4, <2>5, <2>6 DEF Ids
<1> QED  BY <1>8, <1>9, <1>10, <1>11 DEF Seen, Consumed, m, p, o

\* A result whose call is not among the items.
LEMMA StraySeen ==
    ASSUME ItemsInv, RanInv, NEW a \in 1..Len(items), NEW r \in 0..Len(ran),
           NEW s, Seen(s, a, a - 1, r), items[a].kind = "result"
    PROVE  Seen(AddItem(s, items[a]), a, a, r)
<1> DEFINE T == AddItem(s, items[a])
<1>1. s \in LedgerRec /\ s.completed \in Seq(Evid) /\ Ids(s, a, a - 1) /\ Done(s.completed, a, a - 1, r)
  BY DEF Seen, LedgerRec
<1>2. Len(items) \in Nat /\ a \in Nat /\ a \in 1..(Len(items) + 1) /\ a \in a..Len(items)
  BY DEF ItemsInv
<1>3. items[a].id = a - 1 /\ a - 1 \in Nat
  BY <1>2 DEF ItemsInv
<1>4. s.consumed = {} /\ s.pending = {} /\ DOMAIN s.calls = {}
  <2>1. a..((a - 1) - 1) = {} /\ a..(a - 1) = {}  BY <1>2
  <2> QED  BY <1>1, <2>1 DEF Ids
<1>5. T = AddIssues(s, {"unknown_call_id"}, a - 1, NoPrint)
  <2>1. T = ConsumeResult(s, a - 1, items[a].outcome)  BY <1>3, AddedItem
  <2> QED  BY <1>4, <2>1 DEF ConsumeResult
<1>6. /\ T \in LedgerRec /\ T.calls = s.calls /\ T.pending = s.pending
      /\ T.consumed = s.consumed /\ T.completed = s.completed
  <2> DEFINE codes == {"unknown_call_id"}  m == a - 1
             U == AddIssues(s, codes, m, NoPrint)
  <2>1. codes \in SUBSET Codes  BY DEF Codes
  <2>2. T = U /\ m \in Nat  BY <1>3, <1>5
  <2> HIDE DEF codes, m, T
  <2>3. Told(U, s, codes, m, NoPrint)  BY <1>1, <2>1, <2>2, IssuesAdded
  <2> HIDE DEF U
  <2> QED  BY <2>2, <2>3 DEF Told
<1> HIDE DEF T
<1>7. Ids(T, a, a)
  BY <1>4, <1>6 DEF Ids
<1>8. Done(s.completed, a, a, r)
  BY <1>1, <1>2, NothingDone
<1> QED  BY <1>6, <1>7, <1>8 DEF Seen, T

LEMMA ParseSeen ==
    ASSUME ItemsInv, RanInv, NEW a \in 1..(Len(items) + 1),
           NEW r \in 0..Len(ran), \A k \in 1..Len(ran) : k <= r <=> ran[k].call < a
    PROVE  \A n \in (a - 1)..Len(items) : Seen(Parsed(a, n), a, n, r)
<1> DEFINE P == {n \in (a - 1)..Len(items) : Seen(Parsed(a, n), a, n, r)}
<1>1. /\ Len(items) \in Nat /\ a - 1 \in Nat /\ (a - 1) + 1 = a /\ a - 1 <= Len(items) /\ a \in Nat
      /\ items \in Seq(Item) /\ Len(ran) \in Nat
  BY DEF ItemsInv, RanInv
<1>2. /\ Parsed(a, a - 1) = EmptyState
      /\ \A n \in a..Len(items) : Parsed(a, n) = AddItem(Parsed(a, n - 1), items[n])
  BY <1>1, ParseStep
<1>3. a - 1 \in P
  <2>1. /\ EmptyState \in LedgerRec /\ EmptyState.completed = <<>> /\ EmptyState.calls = <<>>
        /\ EmptyState.pending = {} /\ EmptyState.consumed = {}
    BY DEF EmptyState, LedgerRec
  <2>2. Ids(EmptyState, a, a - 1)
    <3>1. ~(a - 1 >= a)  BY <1>1
    <3> QED  BY <2>1, <3>1 DEF Ids
  <2>3. Done(<<>>, a, a - 1, r)
    <3>1. \A k \in 1..Len(ran) : ran[k].call \in Nat  BY DEF RanInv
    <3>2. Len(<<>>) = 0  OBVIOUS
    <3> QED  BY <1>1, <3>1, <3>2 DEF Done
  <2> QED  BY <1>1, <1>2, <2>1, <2>2, <2>3 DEF Seen
<1>4. ASSUME NEW n \in a..Len(items), n - 1 \in P PROVE n \in P
  <2> DEFINE s == Parsed(a, n - 1)
  <2>1. Seen(s, a, n - 1, r) /\ Parsed(a, n) = AddItem(s, items[n])
    BY <1>2, <1>4
  <2>2. items[n].kind \in {"user", "call", "result"}
    <3>1. items[n] \in Item  BY <1>1
    <3> QED  BY <3>1, ItemFields
  <2> HIDE DEF s
  <2>3. CASE items[n].kind = "user"
    <3>1. Parsed(a, n) = s  BY <2>1, <2>3, AddedItem
    <3>2. Seen(s, a, n, r)  BY <2>1, <2>3, UserSeen
    <3> QED  BY <1>1, <3>1, <3>2
  <2>4. CASE items[n].kind = "call"
    <3>1. Seen(Parsed(a, n), a, n, r)  BY <2>1, <2>4, CallSeen
    <3> QED  BY <1>1, <3>1
  <2>5. CASE items[n].kind = "result"
    <3>1. CASE n = a
      <4>1. Seen(AddItem(s, items[a]), a, a, r)  BY <1>1, <2>1, <2>5, <3>1, StraySeen
      <4> QED  BY <1>1, <2>1, <3>1, <4>1
    <3>2. CASE n # a
      <4>1. n \in (a + 1)..Len(items)  BY <1>1, <3>2
      <4>2. Seen(Parsed(a, n), a, n, r)  BY <2>1, <2>5, <4>1, ResultSeen
      <4> QED  BY <1>1, <4>2
    <3> QED  BY <3>1, <3>2
  <2> QED  BY <2>2, <2>3, <2>4, <2>5
<1> HIDE DEF P
<1>5. \A i \in ((a - 1) + 1)..Len(items) : i - 1 \in P => i \in P
  BY <1>1, <1>4
<1>6. (a - 1)..Len(items) \subseteq P
  BY ONLY <1>1, <1>3, <1>5, UpTo
<1> QED  BY <1>6 DEF P

-----------------------------------------------------------------------------
(* A turn, or all of them, replayed in full.                               *)

\* The executions after the first r, and those and a call without result.
RanAfter(r) == SubSeq(ran, r + 1, Len(ran))
OpenRun == [call |-> Last(items).id, print |-> Last(items).print, outcome |-> "ok"]
CourseOf(r) == IF OpenCall THEN Append(RanAfter(r), OpenRun) ELSE RanAfter(r)
Course == IF OpenCall THEN Append(Scope, OpenRun) ELSE Scope

\* The user's last message is at u, and after it calls and results alternate.
Since(u) ==
    /\ u \in 1..Len(items) /\ items[u].kind = "user"
    /\ \A j \in (u + 1)..Len(items) : items[j].kind # "user"
    /\ asked \in 0..Len(ran) /\ \A k \in 1..Len(ran) : k <= asked <=> ran[k].call < u
    /\ Len(items) - u = 2 * (Len(ran) - asked) + (IF OpenCall THEN 1 ELSE 0)

\* The user spoke at u, after r executions, and no call since is abandoned.
From(u, r) ==
    /\ u \in 1..Len(items) /\ items[u].kind = "user"
    /\ r \in 0..Len(ran) /\ \A k \in 1..Len(ran) : k <= r <=> ran[k].call < u
    /\ \A i \in u..(Len(items) - 1) : items[i].kind = "call" => items[i + 1].kind = "result"

LEMMA TailFields ==
    ASSUME RanInv, NEW r \in 0..Len(ran)
    PROVE  /\ RanAfter(r) \in Seq(RunRec) /\ Len(RanAfter(r)) = Len(ran) - r
           /\ DOMAIN RanAfter(r) = 1..(Len(ran) - r) /\ Len(ran) \in Nat
           /\ \A i \in 1..(Len(ran) - r) : RanAfter(r)[i] = ran[r + i]
<1>1. ran \in Seq(RunRec) /\ Len(ran) \in Nat /\ r \in Nat /\ r <= Len(ran)
  BY DEF RanInv
<1>2. RanAfter(r) \in Seq(RunRec) /\ Len(RanAfter(r)) = Len(ran) - r
  BY <1>1 DEF RanAfter
<1>3. \A i \in 1..(Len(ran) - r) : RanAfter(r)[i] = ran[(r + 1) + i - 1]
  BY <1>1 DEF RanAfter
<1>4. \A i \in 1..(Len(ran) - r) : (r + 1) + i - 1 = r + i
  BY <1>1
<1> QED  BY <1>1, <1>2, <1>3, <1>4

LEMMA EvidenceFields ==
    ASSUME NEW s \in Seq(RunRec)
    PROVE  /\ Evidence(s) \in Seq(Evid) /\ Len(Evidence(s)) = Len(s)
           /\ DOMAIN Evidence(s) = 1..Len(s) /\ DOMAIN s = 1..Len(s) /\ Len(s) \in Nat
           /\ \A i \in 1..Len(s) : /\ Evidence(s)[i] = Entry(s[i]) /\ s[i] \in RunRec
                                   /\ Evidence(s)[i].print = s[i].print
<1>1. DOMAIN s = 1..Len(s) /\ Len(s) \in Nat /\ \A i \in 1..Len(s) : s[i] \in RunRec
  OBVIOUS
<1>2. \A i \in 1..Len(s) : Entry(s[i]) \in Evid /\ Entry(s[i]).print = s[i].print
  BY <1>1, EntryType
<1>3. Evidence(s) = [i \in 1..Len(s) |-> Entry(s[i])]
  BY <1>1 DEF Evidence
<1> DEFINE v == Evidence(s)
<1> HIDE DEF v
<1>4. v = [i \in 1..Len(s) |-> Entry(s[i])]
  BY <1>3 DEF v
<1>5. v \in Seq(Evid) /\ Len(v) = Len(s) /\ DOMAIN v = 1..Len(s)
  BY <1>1, <1>2, <1>4
<1>6. \A i \in 1..Len(s) : v[i] = Entry(s[i])
  BY <1>4
<1> QED  BY <1>1, <1>2, <1>5, <1>6 DEF v

\* The ledger that knows the executions c is the one of the whole turn.
LEMMA DoneAll ==
    ASSUME ItemsInv, RanInv, NEW a \in 1..(Len(items) + 1),
           NEW r \in 0..Len(ran), \A k \in 1..Len(ran) : k <= r <=> ran[k].call < a,
           NEW c \in Seq(Evid), Done(c, a, Len(items), r)
    PROVE  Len(c) = Len(ran) - r /\ c = Evidence(RanAfter(r))
<1>1. Len(items) \in Nat /\ Len(ran) \in Nat /\ Len(c) \in Nat /\ r + Len(c) <= Len(ran) /\ a \in Nat
  BY DEF ItemsInv, RanInv, Done
<1>2. Len(c) = Len(ran) - r
  <2>1. ASSUME r + Len(c) < Len(ran) PROVE FALSE
    <3> DEFINE k == r + Len(c) + 1
    <3>1. k \in 1..Len(ran) /\ ~(k <= r) /\ ~(k <= r + Len(c))  BY <1>1, <2>1
    <3> HIDE DEF k
    <3>2. ran[k].call \in 1..(Len(items) - 1)  BY <3>1 DEF RanInv
    <3>3. a <= ran[k].call /\ ran[k].call < Len(items)  BY <1>1, <3>1, <3>2
    <3>4. k <= r + Len(c)  BY <3>1, <3>3 DEF Done
    <3> QED  BY <3>1, <3>4
  <2> QED  BY <1>1, <2>1
<1> DEFINE t == RanAfter(r)  e == Evidence(RanAfter(r))
<1>3. /\ t \in Seq(RunRec) /\ Len(t) = Len(ran) - r
      /\ \A i \in 1..(Len(ran) - r) : t[i] = ran[r + i]
  BY TailFields
<1>4. /\ e \in Seq(Evid) /\ Len(e) = Len(t)
      /\ \A i \in 1..Len(t) : e[i] = Entry(t[i])
  BY <1>3, EvidenceFields
<1> HIDE DEF t, e
<1>5. \A i \in 1..Len(c) : c[i] = e[i]
  <2>1. ASSUME NEW i \in 1..Len(c) PROVE c[i] = e[i]
    <3>1. c[i] = Entry(ran[r + i])  BY DEF Done
    <3>2. i \in 1..(Len(ran) - r) /\ i \in 1..Len(t)  BY <1>2, <1>3
    <3> QED  BY <1>3, <1>4, <3>1, <3>2
  <2> QED  BY <2>1
<1>6. Len(e) = Len(c)  BY <1>2, <1>3, <1>4
<1>7. c = e
  BY ONLY <1>4, <1>5, <1>6, c \in Seq(Evid)
<1> QED  BY <1>2, <1>7 DEF e

LEMMA CourseOfFields ==
    ASSUME ItemsInv, RanInv, NEW r \in 0..Len(ran)
    PROVE  /\ RanAfter(r) \in Seq(RunRec) /\ Len(RanAfter(r)) = Len(ran) - r /\ Len(RanAfter(r)) \in Nat
           /\ \A i \in 1..Len(RanAfter(r)) : RanAfter(r)[i] = ran[r + i]
           /\ CourseOf(r) \in Seq(RunRec)
           /\ \A i \in 1..Len(RanAfter(r)) : CourseOf(r)[i] = RanAfter(r)[i]
           /\ OpenCall => /\ Len(CourseOf(r)) = Len(RanAfter(r)) + 1
                          /\ CourseOf(r)[Len(RanAfter(r)) + 1].print = items[Len(items)].print
           /\ ~OpenCall => CourseOf(r) = RanAfter(r)
<1> DEFINE S == RanAfter(r)  C == CourseOf(r)
<1>1. /\ S \in Seq(RunRec) /\ Len(S) = Len(ran) - r /\ Len(S) \in Nat
      /\ \A i \in 1..Len(S) : S[i] = ran[r + i]
  BY TailFields
<1>2. CASE OpenCall
  <2>1. C = Append(S, OpenRun)  BY <1>2 DEF CourseOf
  <2>2. Len(items) \in 1..Len(items) /\ Last(items) = items[Len(items)]  BY DEF ItemsInv, Last
  <2>3. items[Len(items)].kind = "call"  BY <1>2, <2>2 DEF OpenCall
  <2>4. items[Len(items)] \in Item  BY <2>2 DEF ItemsInv
  <2>5. items[Len(items)].id \in Nat /\ items[Len(items)].print \in Prints
    BY <2>3, <2>4, ItemFields
  <2>6. OpenRun \in RunRec /\ OpenRun.print = items[Len(items)].print
    BY <2>2, <2>5 DEF OpenRun, RunRec, Outcomes
  <2> HIDE DEF S, C
  <2>7. /\ C \in Seq(RunRec) /\ Len(C) = Len(S) + 1
        /\ C[Len(S) + 1] = OpenRun /\ \A i \in 1..Len(S) : C[i] = S[i]
    BY <1>1, <2>1, <2>6
  <2> QED  BY <1>1, <1>2, <2>6, <2>7 DEF S, C
<1>3. CASE ~OpenCall
  <2>1. C = S  BY <1>3 DEF CourseOf
  <2> QED  BY <1>1, <1>3, <2>1
<1> QED  BY <1>2, <1>3

LEMMA CourseIs ==
    Scope = RanAfter(mark) /\ Course = CourseOf(mark)
BY DEF Scope, RanAfter, Course, CourseOf

LEMMA CourseFields ==
    ASSUME ItemsInv, RanInv, mark \in 0..Len(ran)
    PROVE  /\ Scope \in Seq(RunRec) /\ Len(Scope) = Len(ran) - mark /\ Len(Scope) \in Nat
           /\ \A i \in 1..Len(Scope) : Scope[i] = ran[mark + i]
           /\ Course \in Seq(RunRec)
           /\ \A i \in 1..Len(Scope) : Course[i] = Scope[i]
           /\ OpenCall => /\ Len(Course) = Len(Scope) + 1
                          /\ Course[Len(Scope) + 1].print = items[Len(items)].print
           /\ ~OpenCall => Course = Scope
BY CourseIs, CourseOfFields

\* The turn that is under way.
LEMMA SinceFrom ==
    ASSUME ItemsInv, NEW u, Since(u)
    PROVE  From(u, asked)
<1>1. ASSUME NEW i \in u..(Len(items) - 1), items[i].kind = "call" PROVE items[i + 1].kind = "result"
  <2>1. Len(items) \in Nat /\ u \in 1..Len(items)  BY DEF ItemsInv, Since
  <2>2. i \in 1..Len(items) /\ i < Len(items) /\ i + 1 \in (u + 1)..Len(items) /\ i + 1 \in 1..Len(items)
    BY <2>1
  <2>3. items[i + 1].kind # "call"  BY <1>1, <2>2 DEF ItemsInv
  <2>4. items[i + 1].kind # "user"  BY <2>2 DEF Since
  <2>5. items[i + 1] \in Item  BY <2>2 DEF ItemsInv
  <2> QED  BY <2>3, <2>4, <2>5, ItemFields
<1> QED  BY <1>1 DEF Since, From

\* A user's message is no call.
LEMMA FromNext ==
    ASSUME ItemsInv, RanInv, NEW u, NEW r, From(u, r)
    PROVE  /\ Len(items) \in Nat /\ u \in 1..Len(items) /\ u + 1 \in 1..(Len(items) + 1)
           /\ r \in 0..Len(ran) /\ Len(ran) \in Nat
           /\ \A k \in 1..Len(ran) : k <= r <=> ran[k].call < u + 1
<1>1. Len(items) \in Nat /\ u \in 1..Len(items) /\ r \in 0..Len(ran) /\ Len(ran) \in Nat
  BY DEF ItemsInv, RanInv, From
<1>2. ASSUME NEW k \in 1..Len(ran) PROVE k <= r <=> ran[k].call < u + 1
  <2>1. ran[k].call \in Nat /\ items[ran[k].call].kind = "call"  BY DEF RanInv
  <2>2. items[u].kind = "user" /\ (k <= r <=> ran[k].call < u)  BY DEF From
  <2>3. ran[k].call # u  BY <2>1, <2>2
  <2> QED  BY <1>1, <2>1, <2>2, <2>3
<1> QED  BY <1>1, <1>2

LEMMA NextInCourse ==
    ASSUME ItemsInv, RanInv, NEW u, NEW r, From(u, r), NEW n \in (u + 1)..Len(items),
           items[n].kind = "call", NEW c \in Seq(Evid), Done(c, u + 1, n, r)
    PROVE  /\ Len(c) + 1 <= Len(CourseOf(r)) /\ CourseOf(r)[Len(c) + 1].print = items[n].print
           /\ \A i \in 1..Len(c) : CourseOf(r)[i].print = c[i].print
<1> DEFINE S == RanAfter(r)  C0 == CourseOf(r)
<1>1. /\ Len(items) \in Nat /\ u \in 1..Len(items) /\ n \in 1..Len(items) /\ Len(ran) \in Nat
      /\ r \in 0..Len(ran) /\ Len(c) \in Nat
      /\ u + 1 \in 1..(Len(items) + 1) /\ n \in (u + 1)..Len(items)
  BY FromNext, SMTT(30)
<1>2. \A k \in 1..Len(ran) : k <= r <=> ran[k].call < u + 1
  BY FromNext
<1>3. /\ S \in Seq(RunRec) /\ Len(S) = Len(ran) - r /\ Len(S) \in Nat
      /\ \A i \in 1..Len(S) : S[i] = ran[r + i]
      /\ \A i \in 1..Len(S) : C0[i] = S[i]
      /\ OpenCall => /\ Len(C0) = Len(S) + 1
                     /\ C0[Len(S) + 1].print = items[Len(items)].print
      /\ ~OpenCall => C0 = S
  BY <1>1, CourseOfFields
<1> HIDE DEF S, C0
<1>4. \A i \in 1..Len(c) : C0[i].print = c[i].print
  <2>1. ASSUME NEW i \in 1..Len(c) PROVE C0[i].print = c[i].print
    <3>0. r + Len(c) <= Len(ran) /\ c[i] = Entry(ran[r + i])  BY DEF Done
    <3>1. r + i \in 1..Len(ran) /\ i \in 1..Len(S) /\ c[i] = Entry(ran[r + i])
      BY <1>1, <1>3, <3>0
    <3>2. ran[r + i] \in RunRec  BY <3>1 DEF RanInv
    <3>3. c[i].print = ran[r + i].print  BY <3>1, <3>2, EntryType
    <3> QED  BY <1>3, <3>1, <3>3
  <2> QED  BY <2>1
<1>5. CASE n = Len(items)
  <2>1. OpenCall  BY <1>5 DEF OpenCall, Last
  <2>2. Done(c, u + 1, Len(items), r)  BY <1>5
  <2>3. Len(c) = Len(ran) - r  BY <1>1, <1>2, <2>2, DoneAll
  <2> QED  BY <1>3, <1>4, <1>5, <2>1, <2>3 DEF C0
<1>6. CASE n # Len(items)
  <2> DEFINE m == n + 1
             x == [call |-> m - 1, print |-> items[m - 1].print, outcome |-> items[m].outcome]
             C == Append(c, Entry(x))
  <2>1. m \in ((u + 1) + 1)..Len(items) /\ m - 1 = n /\ n < Len(items)  BY <1>1, <1>6
  <2>2. items[m].kind = "result"
    <3>1. n \in u..(Len(items) - 1)  BY <1>1, <2>1
    <3> QED  BY <3>1 DEF From
  <2>3. Done(c, u + 1, m - 1, r)  BY <2>1
  <2>4. items[n] \in Item /\ items[m] \in Item  BY <1>1, <2>1 DEF ItemsInv
  <2>5. items[n].print \in Prints /\ items[m].outcome \in Outcomes  BY <2>2, <2>4, ItemFields
  <2> HIDE DEF m
  <2>6. Done(C, u + 1, m, r)  BY <1>1, <1>2, <2>1, <2>2, <2>3, OneDone
  <2>7. x \in RunRec /\ x.print = items[n].print  BY <1>1, <2>1, <2>5, SMTT(30) DEF RunRec
  <2> HIDE DEF x
  <2>8. Entry(x) \in Evid /\ Entry(x).print = items[n].print  BY <2>7, EntryType
  <2>9. Len(C) = Len(c) + 1 /\ C[Len(c) + 1] = Entry(x)  BY <2>8
  <2> HIDE DEF C
  <2>10. r + Len(C) <= Len(ran) /\ \A i \in 1..Len(C) : C[i] = Entry(ran[r + i])
    BY <2>6 DEF Done
  <2> DEFINE k == Len(c) + 1
  <2>11. k \in 1..Len(C) /\ r + k \in 1..Len(ran) /\ k <= Len(S) /\ k \in 1..Len(S)
    <3>1. Len(c) \in Nat /\ Len(ran) \in Nat /\ r \in Nat  BY <1>1
    <3>2. Len(S) \in Nat /\ Len(S) = Len(ran) - r  BY <1>3
    <3>3. Len(C) = Len(c) + 1 /\ r + Len(C) <= Len(ran)  BY <2>9, <2>10
    <3> QED  BY ONLY <3>1, <3>2, <3>3
  <2>12. ran[r + k] \in RunRec  BY <2>11 DEF RanInv
  <2>13. ran[r + k].print = items[n].print
    <3>1. Entry(ran[r + k]) = Entry(x)  BY <2>9, <2>10, <2>11
    <3> QED  BY <2>8, <2>12, <3>1, EntryType
  <2>14. C0[k] = ran[r + k]  BY <1>3, <2>11
  <2>15. k <= Len(C0)
    <3>1. Len(C0) = Len(S) \/ Len(C0) = Len(S) + 1  BY <1>3
    <3> QED  BY <1>1, <1>3, <2>11, <3>1, SMTT(30)
  <2> QED  BY <1>4, <2>13, <2>14, <2>15 DEF C0
<1> QED  BY <1>5, <1>6 DEF C0

\* No limit of registerToolCall is met by the next call of a bounded course.
LEMMA NextWelcome ==
    ASSUME NEW s \in LedgerRec, NEW p \in Prints, s.pending = {}, Aligned(s),
           RunOf(s.calls, s.last, s.run), NEW t \in Seq(RunRec), WithinLimits(t),
           Len(s.calls) + 1 <= Len(t), t[Len(s.calls) + 1].print = p,
           \A i \in 1..Len(s.calls) : t[i].print = s.calls[i].print
    PROVE  Welcome(s, p)
<1> DEFINE c == s.calls  m == Len(c)  x == [id |-> 0, print |-> p]  C == Append(c, x)
<1>1. c \in Seq(CallRec) /\ s.completed \in Seq(Evid) /\ s.run \in Nat /\ x \in CallRec
  BY DEF LedgerRec, CallRec
<1>2. m \in Nat /\ Len(t) \in Nat /\ DOMAIN t = 1..Len(t) /\ m + 1 <= Len(t)
  BY <1>1
<1>3. {MaxToolRounds, MaxConsecutive, MaxOccurrences} \subseteq Nat \ {0}
  BY LedgerAssumption
<1>4. m + 1 <= MaxToolRounds
  BY <1>2, <1>3 DEF WithinLimits
<1>5. PendingPrints(s) = {}
  BY DEF PendingPrints
<1>6. Times(s.completed, p) < MaxOccurrences
  <2>1. Times(C, p) = Times(c, p) + 1
    <3>1. x.print = p  OBVIOUS
    <3> HIDE DEF x
    <3> QED  BY <1>1, <3>1, TimesAppend
  <2>2. C \in Seq(CallRec) /\ Len(C) = m + 1 /\ C[m + 1].print = p /\ \A i \in 1..m : C[i] = c[i]
    <3>1. x.print = p  OBVIOUS
    <3> HIDE DEF x
    <3> QED  BY <1>1, <3>1
  <2> HIDE DEF C
  <2>3. \A i \in 1..Len(C) : C[i].print = t[0 + i].print
    <3>1. ASSUME NEW i \in 1..(m + 1) PROVE C[i].print = t[i].print
      <4>1. CASE i = m + 1  BY <2>2, <4>1
      <4>2. CASE i # m + 1
        <5>1. i \in 1..m  BY <1>2, <4>2
        <5> QED  BY <2>2, <5>1
      <4> QED  BY <4>1, <4>2
    <3> QED  BY <1>2, <2>2, <3>1
  <2>4. 0 + Len(C) <= Len(t)  BY <1>2, <2>2
  <2>5. Times(C, p) <= Times(t, p)  BY <2>2, <2>3, <2>4, TimesPart
  <2>6. Times(c, p) = Times(s.completed, p)
    <3>1. Len(c) = Len(s.completed) /\ \A i \in 1..Len(c) : c[i].print = s.completed[i].print
      BY <1>1 DEF Aligned
    <3> HIDE DEF c
    <3> QED  BY <1>1, <3>1, TimesSame, SMTT(30)
  <2>7. Times(t, p) <= MaxOccurrences  BY DEF WithinLimits
  <2>8. Times(t, p) \in Nat /\ Times(c, p) \in Nat  BY <1>1, AtFinite
  <2> QED  BY <1>3, <2>1, <2>5, <2>6, <2>7, <2>8
<1>7. ASSUME s.last = p, ~(s.run + 1 <= MaxConsecutive) PROVE FALSE
  <2> DEFINE i == m + 1 - MaxConsecutive
  <2>1. s.run >= MaxConsecutive /\ s.run <= m /\ MaxConsecutive \in Nat \ {0}
    BY <1>1, <1>3, <1>7 DEF RunOf
  <2>2. i \in 1..m /\ i + MaxConsecutive = m + 1 /\ m + 1 \in DOMAIN t /\ i \in DOMAIN t
    BY <1>1, <1>2, <2>1
  <2>3. PICK j \in i..(i + MaxConsecutive) : t[j].print # t[i].print
    BY <2>2 DEF WithinLimits
  <2>4. \A y \in i..m : t[y].print = p
    <3>1. \A y \in i..m : y \in (m - s.run + 1)..m /\ y \in 1..m  BY <1>1, <1>2, <2>1, <2>2
    <3>2. \A y \in (m - s.run + 1)..m : c[y].print = p  BY <1>7 DEF RunOf
    <3> QED  BY <3>1, <3>2
  <2>5. t[m + 1].print = p  OBVIOUS
  <2>6. j \in i..m \/ j = m + 1  BY <1>2, <2>2, SMTT(30)
  <2>7. i \in i..m  BY <1>2, <2>2
  <2> QED  BY <2>3, <2>4, <2>5, <2>6, <2>7
<1> QED  BY <1>4, <1>5, <1>6, <1>7 DEF Welcome

\* The ledger up to n of a course from r on: one call at most is pending, the
\* others were executed, and all that is found within the limits is a failure
\* that was seen before.
Tidy(s, n, r) ==
    /\ items[n].kind = "call" =>
          /\ s.pending = {n} /\ Len(s.calls) = Len(s.completed) + 1
          /\ s.calls[Len(s.calls)].print = items[n].print
    /\ items[n].kind # "call" => s.pending = {} /\ Len(s.calls) = Len(s.completed)
    /\ \A i \in 1..Len(s.completed) : s.calls[i].print = s.completed[i].print
    /\ RunOf(s.calls, s.last, s.run)
    /\ WithinLimits(CourseOf(r)) => \A q \in s.issues : q.code = "repeated_failure"

\* Every failure is known, and one that was seen before is reported.
Remembering(c, signatures, issues) ==
    /\ \A i \in DOMAIN c : c[i].failed => <<c[i].print, c[i].failure>> \in signatures
    /\ \A i, j \in DOMAIN c :
          /\ i < j /\ c[i].print = c[j].print /\ c[i].failed /\ c[j].failed
          /\ c[i].failure = c[j].failure
          => \E q \in issues : q.code = "repeated_failure" /\ q.print = c[j].print

Remembers(s) == Remembering(s.completed, s.signatures, s.issues)

LEMMA RemembersConsumed ==
    ASSUME NEW s \in LedgerRec, NEW id \in Nat, NEW p \in Prints, NEW o \in Outcomes,
           NEW T, Consumed(T, s, id, p, o), Remembers(s)
    PROVE  Remembers(T)
<1> DEFINE x == [call |-> id, print |-> p, outcome |-> o]  e == Entry(x)
           c == s.completed  C == T.completed  n == Len(c) + 1
<1>1. x \in RunRec /\ x.print = p /\ x.outcome = o
  BY DEF RunRec
<1>2. C = Append(c, e) /\ c \in Seq(Evid)
  BY DEF Consumed, LedgerRec
<1> HIDE DEF x
<1>3. /\ e \in Evid /\ e.print = p /\ e.failed = (o \in Failures)
      /\ o \in Failures => e.failure = o
  BY <1>1, EntryType
<1> HIDE DEF e, c, C
<1>4. /\ Len(c) \in Nat /\ DOMAIN c = 1..Len(c) /\ DOMAIN C = 1..n /\ C[n] = e
      /\ \A i \in 1..Len(c) : C[i] = c[i]
  BY <1>2, <1>3
<1>5. /\ T.signatures = s.signatures \cup Shown(p, o)
      /\ T.issues = s.issues \cup Again(s.signatures, id, p, o)
  BY DEF Consumed
<1>6. ASSUME NEW i \in DOMAIN C, C[i].failed PROVE <<C[i].print, C[i].failure>> \in T.signatures
  <2>1. CASE i = n
    <3>1. o \in Failures  BY <1>3, <1>4, <1>6, <2>1
    <3> QED  BY <1>3, <1>4, <1>5, <2>1, <3>1 DEF Shown
  <2>2. CASE i # n
    <3>1. i \in DOMAIN c /\ C[i] = c[i]  BY <1>4, <2>2
    <3>2. <<c[i].print, c[i].failure>> \in s.signatures  BY <1>6, <3>1 DEF Remembers, Remembering, c
    <3> QED  BY <1>5, <3>1, <3>2
  <2> QED  BY <2>1, <2>2
<1>7. ASSUME NEW i \in DOMAIN C, NEW j \in DOMAIN C, i < j, C[i].print = C[j].print,
             C[i].failed, C[j].failed, C[i].failure = C[j].failure
      PROVE  \E q \in T.issues : q.code = "repeated_failure" /\ q.print = C[j].print
  <2>1. i \in DOMAIN c /\ C[i] = c[i]  BY <1>4, <1>7
  <2>2. CASE j = n
    <3>1. o \in Failures /\ C[j].print = p /\ C[j].failure = o  BY <1>3, <1>4, <1>7, <2>2
    <3>2. <<c[i].print, c[i].failure>> \in s.signatures  BY <1>7, <2>1 DEF Remembers, Remembering, c
    <3>3. <<p, o>> \in s.signatures  BY <1>7, <2>1, <3>1, <3>2
    <3> DEFINE q == [code |-> "repeated_failure", id |-> id, print |-> p]
    <3>4. q \in T.issues  BY <1>5, <3>1, <3>3 DEF Again
    <3>5. q.code = "repeated_failure" /\ q.print = p  OBVIOUS
    <3> HIDE DEF q
    <3> QED  BY <3>1, <3>4, <3>5
  <2>3. CASE j # n
    <3>1. j \in DOMAIN c /\ C[j] = c[j]  BY <1>4, <2>3
    <3>2. PICK q \in s.issues : q.code = "repeated_failure" /\ q.print = c[j].print
      BY <1>7, <2>1, <3>1 DEF Remembers, Remembering, c
    <3>3. q \in T.issues  BY <1>5
    <3> QED  BY <3>1, <3>2, <3>3
  <2> QED  BY <2>2, <2>3
<1> QED  BY <1>6, <1>7 DEF Remembers, Remembering, C

LEMMA CallTidy ==
    ASSUME ItemsInv, RanInv, NEW u, NEW r, From(u, r),
           NEW n \in (u + 1)..Len(items), items[n].kind = "call",
           NEW s, Seen(s, u + 1, n - 1, r), Tidy(s, n - 1, r), Remembers(s),
           NEW T, Seen(T, u + 1, n, r), Registered(T, s, n, items[n].print)
    PROVE  Tidy(T, n, r) /\ Remembers(T)
<1> DEFINE p == items[n].print  c == s.calls  C == T.calls  x == [id |-> n, print |-> p]
<1>1. /\ Len(items) \in Nat /\ u \in 1..Len(items) /\ n \in 1..Len(items) /\ n - 1 \in 1..Len(items)
      /\ n - 1 < Len(items) /\ r \in 0..Len(ran) /\ (n - 1) + 1 = n
  BY FromNext
<1>2. s \in LedgerRec /\ T \in LedgerRec /\ T.completed = s.completed
  BY DEF Seen, Registered
<1>3. c \in Seq(CallRec) /\ s.completed \in Seq(Evid) /\ s.run \in Nat
  BY <1>2 DEF LedgerRec
<1>4. p \in Prints
  <2>1. items[n] \in Item  BY <1>1 DEF ItemsInv
  <2> QED  BY <2>1, ItemFields
<1>5. items[n - 1].kind # "call"
  BY <1>1 DEF ItemsInv
<1>6. s.pending = {} /\ Len(c) = Len(s.completed) /\ \A i \in 1..Len(s.completed) : c[i].print = s.completed[i].print
  BY <1>5 DEF Tidy
<1>7. Aligned(s)
  BY <1>3, <1>6, SMTT(30) DEF Aligned
<1>8. /\ Len(s.completed) + 1 <= Len(CourseOf(r)) /\ CourseOf(r)[Len(s.completed) + 1].print = p
      /\ \A i \in 1..Len(s.completed) : CourseOf(r)[i].print = s.completed[i].print
  <2>1. Done(s.completed, u + 1, n, r)  BY <1>2 DEF Seen
  <2> QED  BY <1>3, <2>1, NextInCourse
<1>9. CourseOf(r) \in Seq(RunRec)
  BY <1>1, CourseOfFields
<1>10. WithinLimits(CourseOf(r)) => Welcome(s, p)
  <2>1. RunOf(s.calls, s.last, s.run)  BY DEF Tidy
  <2>2. /\ Len(s.calls) + 1 <= Len(CourseOf(r)) /\ CourseOf(r)[Len(s.calls) + 1].print = p
        /\ \A i \in 1..Len(s.calls) : CourseOf(r)[i].print = s.calls[i].print
    BY <1>6, <1>8
  <2> HIDE DEF p
  <2> QED  BY <1>2, <1>4, <1>6, <1>7, <1>9, <2>1, <2>2, NextWelcome
<1>11. s.issues \subseteq T.issues /\ (WithinLimits(CourseOf(r)) => T.issues = s.issues)
  BY <1>10 DEF Registered
<1>12. x \in CallRec /\ x.print = p
  BY <1>1, <1>4 DEF CallRec
<1>13. C = Append(c, x) /\ T.last = p /\ T.run = RunAfter(s, p) /\ T.pending = {n} /\ T.signatures = s.signatures
  BY <1>6 DEF Registered
<1> HIDE DEF c, C, x, p
<1>14. Len(C) = Len(c) + 1 /\ C[Len(c) + 1] = x /\ \A i \in 1..Len(c) : C[i] = c[i] /\ Len(c) \in Nat
  BY <1>3, <1>12, <1>13
<1>15. RunOf(C, p, T.run)
  <2>1. CASE s.last = p
    <3>1. RunOf(c, p, s.run) /\ T.run = s.run + 1  BY <1>13, <2>1 DEF Tidy, RunAfter, c
    <3> DEFINE k == s.run + 1
    <3>2. k \in Nat /\ k - 1 = s.run  BY <1>3
    <3> HIDE DEF k
    <3>3. RunOf(c, p, k - 1)  BY <3>1, <3>2
    <3>4. RunOf(Append(c, x), p, k)  BY <1>3, <1>12, <3>2, <3>3, RunAppend
    <3> QED  BY <1>13, <3>1, <3>4 DEF k
  <2>2. CASE s.last # p
    <3>1. T.run = 1  BY <1>13, <2>2 DEF RunAfter
    <3> QED  BY <1>12, <1>14, <3>1 DEF RunOf
  <2> QED  BY <2>1, <2>2
<1>16. Tidy(T, n, r)
  <2>1. Len(C) = Len(T.completed) + 1  BY <1>2, <1>6, <1>14
  <2>2. C[Len(C)].print = p  BY <1>12, <1>14
  <2>3. \A i \in 1..Len(T.completed) : C[i].print = T.completed[i].print  BY <1>2, <1>6, <1>14
  <2>4. WithinLimits(CourseOf(r)) => \A q \in T.issues : q.code = "repeated_failure"
    BY <1>11 DEF Tidy
  <2> QED  BY <1>13, <1>15, <2>1, <2>2, <2>3, <2>4 DEF Tidy, C, p
<1>17. Remembers(T)
  <2>1. T.completed = s.completed /\ s.issues \subseteq T.issues /\ T.signatures = s.signatures
    BY <1>2, <1>11, <1>13
  <2> QED  BY <2>1 DEF Remembers, Remembering
<1> QED  BY <1>16, <1>17

LEMMA ResultTidy ==
    ASSUME ItemsInv, RanInv, NEW u, NEW r, From(u, r), NEW n \in (u + 1)..Len(items),
           items[n].kind = "result",
           NEW s, Seen(s, u + 1, n - 1, r), Tidy(s, n - 1, r), Remembers(s),
           NEW T, Consumed(T, s, n - 1, items[n - 1].print, items[n].outcome)
    PROVE  Tidy(T, n, r) /\ Remembers(T)
<1> DEFINE m == n - 1  p == items[m].print  o == items[n].outcome
           x == [call |-> m, print |-> p, outcome |-> o]  e == Entry(x)
<1>1. n \in 1..Len(items) /\ m \in 1..Len(items) /\ Len(items) \in Nat
  BY FromNext
<1>2. items[m].kind = "call"
  BY <1>1 DEF ItemsInv
<1>3. p \in Prints /\ o \in Outcomes
  <2>1. items[n] \in Item /\ items[m] \in Item  BY <1>1 DEF ItemsInv
  <2> QED  BY <1>2, <2>1, ItemFields
<1>4. s \in LedgerRec /\ s.completed \in Seq(Evid) /\ m \in Nat
  BY <1>1 DEF Seen, LedgerRec
<1>5. /\ s.pending = {m} /\ Len(s.calls) = Len(s.completed) + 1
      /\ s.calls[Len(s.calls)].print = p
  BY <1>2 DEF Tidy
<1>6. Remembers(T)
  BY <1>3, <1>4, RemembersConsumed
<1>7. /\ T.calls = s.calls /\ T.pending = s.pending \ {m} /\ T.completed = Append(s.completed, e)
      /\ T.last = s.last /\ T.run = s.run
      /\ T.issues = s.issues \cup Again(s.signatures, m, p, o)
  BY DEF Consumed
<1>8. x \in RunRec /\ x.print = p
  BY <1>3, <1>4 DEF RunRec
<1> HIDE DEF x, p, o
<1>9. e \in Evid /\ e.print = p
  BY <1>8, EntryType
<1> HIDE DEF e
<1> DEFINE c == s.completed  C == T.completed
<1>10. c \in Seq(Evid) /\ C = Append(c, e)
  BY <1>4, <1>7
<1> HIDE DEF c, C
<1>11. Len(C) = Len(c) + 1 /\ C[Len(c) + 1] = e /\ \A i \in 1..Len(c) : C[i] = c[i] /\ Len(c) \in Nat
  BY <1>9, <1>10
<1>12. \A i \in 1..Len(C) : T.calls[i].print = C[i].print
  <2>1. ASSUME NEW i \in 1..Len(C) PROVE s.calls[i].print = C[i].print
    <3>1. CASE i = Len(c) + 1
      BY <1>5, <1>9, <1>11, <3>1 DEF c
    <3>2. CASE i # Len(c) + 1
      <4>1. i \in 1..Len(c)  BY <1>11, <3>2
      <4> QED  BY <1>11, <4>1 DEF Tidy, c
    <3> QED  BY <3>1, <3>2
  <2> QED  BY <1>7, <2>1
<1>13. WithinLimits(CourseOf(r)) => \A q \in T.issues : q.code = "repeated_failure"
  <2>1. \A q \in Again(s.signatures, m, p, o) : q.code = "repeated_failure"  BY DEF Again
  <2>2. WithinLimits(CourseOf(r)) => \A q \in s.issues : q.code = "repeated_failure"  BY DEF Tidy
  <2> QED  BY <1>7, <2>1, <2>2
<1>14. T.pending = {} /\ Len(T.calls) = Len(C)
  BY <1>5, <1>7, <1>11 DEF c
<1>15. RunOf(T.calls, T.last, T.run)
  BY <1>7 DEF Tidy
<1>16. Tidy(T, n, r)
  BY <1>12, <1>13, <1>14, <1>15 DEF Tidy, C
<1> QED  BY <1>6, <1>16

LEMMA TurnParsed ==
    ASSUME ItemsInv, RanInv, NEW u, NEW r, From(u, r)
    PROVE  \A n \in u..Len(items) : /\ Seen(Parsed(u + 1, n), u + 1, n, r)
                                    /\ Tidy(Parsed(u + 1, n), n, r) /\ Remembers(Parsed(u + 1, n))
<1> DEFINE a == u + 1
           P == {n \in u..Len(items) : Tidy(Parsed(a, n), n, r) /\ Remembers(Parsed(a, n))}
<1>1. /\ Len(items) \in Nat /\ u \in 1..Len(items) /\ u \in Nat /\ a \in 1..(Len(items) + 1)
      /\ a - 1 = u /\ items \in Seq(Item) /\ r \in 0..Len(ran)
  BY FromNext DEF ItemsInv
<1>2. \A k \in 1..Len(ran) : k <= r <=> ran[k].call < a
  BY FromNext
<1>3. /\ Parsed(a, u) = EmptyState
      /\ \A n \in a..Len(items) : Parsed(a, n) = AddItem(Parsed(a, n - 1), items[n])
  <2> HIDE DEF a
  <2> QED  BY <1>1, ParseStep
<1>4. \A n \in u..Len(items) : Seen(Parsed(a, n), a, n, r)
  <2> HIDE DEF a
  <2>1. \A n \in (a - 1)..Len(items) : Seen(Parsed(a, n), a, n, r)
    BY <1>1, <1>2, ParseSeen
  <2> QED  BY <1>1, <2>1
<1>5. u \in P
  <2>1. /\ EmptyState.completed = <<>> /\ EmptyState.calls = <<>> /\ EmptyState.run = 0
        /\ EmptyState.pending = {} /\ EmptyState.issues = {}
    BY DEF EmptyState
  <2>2. items[u].kind = "user"  BY DEF From
  <2>3. Tidy(EmptyState, u, r)
    <3>1. RunOf(<<>>, EmptyState.last, 0)  BY DEF RunOf
    <3> QED  BY <2>1, <2>2, <3>1 DEF Tidy
  <2>4. Remembers(EmptyState)  BY <2>1 DEF Remembers, Remembering
  <2> QED  BY <1>1, <1>3, <2>3, <2>4
<1>6. ASSUME NEW n \in a..Len(items), n - 1 \in P PROVE n \in P
  <2> DEFINE s == Parsed(a, n - 1)  T == Parsed(a, n)
  <2>1. n \in u..Len(items) /\ n - 1 \in u..Len(items) /\ n \in 1..Len(items)  BY <1>1
  <2>2. /\ Seen(s, a, n - 1, r) /\ Seen(T, a, n, r) /\ T = AddItem(s, items[n])
        /\ Tidy(s, n - 1, r) /\ Remembers(s)
    BY <1>3, <1>4, <1>6, <2>1
  <2>3. items[n].kind \in {"user", "call", "result"}
    <3>1. items[n] \in Item  BY <1>1, <2>1
    <3> QED  BY <3>1, ItemFields
  <2> HIDE DEF s, T
  <2>4. CASE items[n].kind = "call"
    <3>1. Registered(T, s, n, items[n].print)
      <4> HIDE DEF a
      <4> QED  BY <1>1, <2>2, <2>4, CallSeen
    <3>2. Tidy(T, n, r) /\ Remembers(T)  BY <2>2, <2>4, <3>1, CallTidy
    <3> QED  BY <2>1, <3>2 DEF T
  <2>5. CASE items[n].kind = "result"
    <3>1. n # a
      <4>1. items[n - 1].kind = "call"  BY <2>1, <2>5 DEF ItemsInv
      <4>2. items[u].kind = "user"  BY DEF From
      <4> QED  BY <1>1, <4>1, <4>2
    <3>2. n \in (a + 1)..Len(items)  BY <1>1, <3>1
    <3>3. Consumed(T, s, n - 1, items[n - 1].print, items[n].outcome)
      <4> HIDE DEF a
      <4> QED  BY <1>1, <1>2, <2>2, <2>5, <3>2, ResultSeen
    <3>4. Tidy(T, n, r) /\ Remembers(T)  BY <2>2, <2>5, <3>3, ResultTidy
    <3> QED  BY <2>1, <3>4 DEF T
  <2>6. CASE items[n].kind = "user"
    <3>1. T = s  BY <2>2, <2>6, AddedItem
    <3>2. items[n - 1].kind # "call"
      <4>1. n - 1 \in u..(Len(items) - 1) /\ (n - 1) + 1 = n  BY <1>1, <2>1
      <4> QED  BY <2>6, <4>1 DEF From
    <3>3. Tidy(T, n, r)  BY <2>2, <2>6, <3>1, <3>2 DEF Tidy
    <3> QED  BY <2>1, <2>2, <3>1, <3>3 DEF T
  <2> QED  BY <2>3, <2>4, <2>5, <2>6
<1> HIDE DEF P
<1>7. \A i \in (u + 1)..Len(items) : i - 1 \in P => i \in P
  BY <1>6
<1>8. u..Len(items) \subseteq P
  <2>1. u \in Nat /\ Len(items) \in Nat  BY <1>1
  <2> QED  BY ONLY <1>5, <1>7, <2>1, UpTo
<1> QED  BY <1>4, <1>8 DEF P

\* A request that repeats what was executed after the first r makes the ledger s.
Replayed(s, r) ==
    /\ s \in LedgerRec /\ s.pending = {} /\ Aligned(s) /\ s.completed = Evidence(RanAfter(r))
    /\ Remembers(s)

LEMMA TurnLedger ==
    ASSUME ItemsInv, RanInv, NEW u, NEW r, From(u, r)
    PROVE  LET s == Parsed(u + 1, Len(items))
           IN  /\ s \in LedgerRec
               /\ OpenCall => s.pending = {Len(items)}
               /\ ~OpenCall => Replayed(s, r)
               /\ ~OpenCall /\ WithinLimits(RanAfter(r)) => ~Blocked(s)
<1> DEFINE s == Parsed(u + 1, Len(items))  n == Len(items)
<1>1. /\ n \in Nat /\ u \in 1..n /\ n \in u..n /\ u + 1 \in 1..(n + 1) /\ r \in 0..Len(ran)
      /\ u + 1 \in Nat
  BY FromNext
<1>2. Seen(s, u + 1, n, r) /\ Tidy(s, n, r) /\ Remembers(s)
  BY <1>1, TurnParsed
<1> HIDE DEF s
<1>3. s \in LedgerRec /\ s.completed \in Seq(Evid) /\ s.calls \in Seq(CallRec)
  BY <1>2 DEF Seen, LedgerRec
<1>4. OpenCall <=> items[n].kind = "call"
  BY DEF OpenCall, Last
<1>5. OpenCall => s.pending = {n}
  BY <1>2, <1>4 DEF Tidy
<1>6. ASSUME ~OpenCall PROVE Replayed(s, r) /\ (WithinLimits(RanAfter(r)) => ~Blocked(s))
  <2>1. /\ s.pending = {} /\ Len(s.calls) = Len(s.completed)
        /\ \A i \in 1..Len(s.completed) : s.calls[i].print = s.completed[i].print
        /\ WithinLimits(CourseOf(r)) => \A q \in s.issues : q.code = "repeated_failure"
    BY <1>2, <1>4, <1>6 DEF Tidy
  <2>2. Aligned(s)  BY <1>3, <2>1 DEF Aligned
  <2>3. \A k \in 1..Len(ran) : k <= r <=> ran[k].call < u + 1
    BY FromNext
  <2>4. s.completed = Evidence(RanAfter(r))
    <3>1. Done(s.completed, u + 1, Len(items), r)  BY <1>2 DEF Seen
    <3> QED  BY <1>1, <1>3, <2>3, <3>1, DoneAll
  <2>5. CourseOf(r) = RanAfter(r)  BY <1>6 DEF CourseOf
  <2>6. WithinLimits(RanAfter(r)) => ~Blocked(s)  BY <2>1, <2>5 DEF Blocked
  <2> QED  BY <1>2, <1>3, <2>1, <2>2, <2>4, <2>6 DEF Replayed
<1> QED  BY <1>3, <1>5, <1>6 DEF s


-----------------------------------------------------------------------------
(* What a request carries.                                                 *)

LEMMA LastUserAt ==
    ASSUME NEW S, NEW w \in Seq(S), NEW u \in 1..Len(w), w[u].kind = "user",
           \A j \in (u + 1)..Len(w) : w[j].kind # "user"
    PROVE  ActiveItems(w) = SubSeq(w, u + 1, Len(w))
<1> DEFINE I == {i \in 1..Len(w) : IsUser(w[i])}
<1>1. u \in I /\ \A i \in I : i \in 1..Len(w) /\ w[i].kind = "user"
  BY DEF IsUser
<1>2. Len(w) \in Nat
  OBVIOUS
<1>3. \A i \in I : u >= i
  BY <1>1, <1>2
<1>4. SelectLastInSeq(w, IsUser) = IF I # {} THEN Max(I) ELSE 0
  BY DEF SelectLastInSeq
<1> HIDE DEF I
<1>5. Max(I) = u
  <2>1. \A i \in I : (\A y \in I : i >= y) => i = u  BY <1>1, <1>2, <1>3
  <2>2. Max(I) \in I /\ \A y \in I : Max(I) >= y  BY <1>1, <1>3 DEF Max
  <2> QED  BY <2>1, <2>2
<1>6. I # {}  BY <1>1
<1> QED  BY <1>4, <1>5, <1>6 DEF ActiveItems

LEMMA NoUserActive ==
    ASSUME NEW S, NEW w \in Seq(S), \A j \in 1..Len(w) : w[j].kind # "user"
    PROVE  ActiveItems(w) = w
<1>1. {i \in 1..Len(w) : IsUser(w[i])} = {}
  BY DEF IsUser
<1>2. SelectLastInSeq(w, IsUser) = 0
  BY <1>1 DEF SelectLastInSeq
<1>3. SubSeq(w, 0 + 1, Len(w)) = w
  OBVIOUS
<1> QED  BY <1>2, <1>3 DEF ActiveItems

LEMMA LoopValues ==
    ASSUME NEW s, NEW S, NEW w \in Seq(S), NEW x \in S
    PROVE  /\ AddItems(s, <<>>) = s /\ AddItems(s, <<x>>) = AddItem(s, x)
           /\ AddItems(s, Append(w, x)) = AddItem(AddItems(s, w), x)
<1>1. AddItems(s, <<>>) = s
  BY ItemsStep
<1>2. ASSUME NEW v \in Seq(S) PROVE AddItems(s, Append(v, x)) = AddItem(AddItems(s, v), x)
  <2> DEFINE y == Append(v, x)
  <2>1. /\ Len(v) \in Nat /\ Len(y) = Len(v) + 1 /\ y[Len(y)] = x
        /\ \A i \in 1..Len(v) : y[i] = v[i]
    OBVIOUS
  <2> HIDE DEF y
  <2>2. AddItems(s, y) = AddItem(AddItems(s, v), y[Len(y)])  BY <2>1, ItemsStep
  <2> QED  BY <2>1, <2>2 DEF y
<1>3. <<x>> = Append(<<>>, x) /\ <<>> \in Seq(S)
  OBVIOUS
<1> QED  BY <1>1, <1>2, <1>3

LEMMA OneItem ==
    ASSUME NEW s, NEW x
    PROVE  AddItems(s, <<x>>) = AddItem(s, x)
BY LoopValues, x \in {x}, <<>> \in Seq({x})

\* The items of the turn, and something more that is not part of it.
Extra(x) ==
    /\ x \in Item
    /\ x.kind = "call" \/ (x.kind = "result" /\ x.id = MaxItems + 1) \/ x = items[Len(items)]

Inputs == HonestInputs \cup FaultyInputs

LEMMA InputKinds ==
    ASSUME ItemsInv, NEW input \in Inputs
    PROVE  \/ input = items
           \/ ~Whole /\ \E j \in 1..Len(items) :
                /\ input = SubSeq(items, j, Len(items))
                /\ \A k \in j..Len(items) : items[k].kind # "call"
                /\ (row.pending # NoCall) = \E k \in j..Len(items) : items[k].kind = "result"
           \/ \E x \in Item : input = Append(items, x) /\ Extra(x)
           \/ ~Whole /\ input = <<items[Len(items)]>>
           \/ input = SubSeq(items, 1, Len(items) - 1) /\ items[Len(items)].kind = "result"
<1>1. DOMAIN items = 1..Len(items) /\ items[Len(items)] \in Item /\ MaxItems + 1 \in Nat
  <2>1. MaxItems \in Nat  BY LedgerAssumption
  <2> QED  BY <2>1 DEF ItemsInv
<1>2. CASE input \in HonestInputs
  <2>1. CASE input = items
    BY <2>1
  <2>2. CASE input # items
    <3>1. ~Whole /\ \E j \in DOMAIN items :
            /\ input = SubSeq(items, j, Len(items))
            /\ \A k \in j..Len(items) : items[k].kind # "call"
            /\ (row.pending # NoCall) = \E k \in j..Len(items) : IsResult(items[k])
      BY <1>2, <2>2 DEF HonestInputs
    <3> QED  BY <1>1, <3>1 DEF IsResult
  <2> QED  BY <2>1, <2>2
<1>3. CASE input \in FaultyInputs
  <2>1. CASE \E x \in {Last(items), Result(MaxItems + 1, "ok")} \cup {Call(MaxItems + 1, p) : p \in Prints} :
                input = Append(items, x)
    <3>1. PICK x \in {Last(items), Result(MaxItems + 1, "ok")} \cup {Call(MaxItems + 1, p) : p \in Prints} :
                input = Append(items, x)
      BY <2>1
    <3>2. x = Last(items) \/ x = Result(MaxItems + 1, "ok") \/ \E p \in Prints : x = Call(MaxItems + 1, p)
      BY <3>1
    <3>3. x \in Item /\ Extra(x)
      <4>1. CASE x = Last(items)  BY <1>1, <4>1 DEF Last, Extra
      <4>2. CASE x = Result(MaxItems + 1, "ok")
        BY <1>1, <4>2 DEF Extra, Item, Result, Outcomes
      <4>3. CASE \E p \in Prints : x = Call(MaxItems + 1, p)
        BY <1>1, <4>3 DEF Extra, Item, Call
      <4> QED  BY <3>2, <4>1, <4>2, <4>3
    <3> QED  BY <3>1, <3>3
  <2>2. CASE ~Whole /\ input = <<Last(items)>>
    BY <2>2 DEF Last
  <2>3. CASE input = Front(items) /\ IsResult(Last(items))
    BY <2>3 DEF Last, Front, IsResult
  <2> QED  BY <1>3, <2>1, <2>2, <2>3 DEF FaultyInputs
<1> QED  BY <1>2, <1>3 DEF Inputs

\* The user's last message is at u.
Asked(u) ==
    /\ u \in 1..Len(items) /\ items[u].kind = "user"
    /\ \A j \in (u + 1)..Len(items) : items[j].kind # "user"

\* Both are the whole turn.
LEMMA WholeActive ==
    ASSUME ItemsInv, NEW u, Asked(u)
    PROVE  /\ ActiveItems(items) = SubSeq(items, u + 1, Len(items))
           /\ \A j \in 1..Len(items) :
                 (\A k \in j..Len(items) : items[k].kind = "user") =>
                 ActiveItems(SubSeq(items, j, Len(items))) = SubSeq(items, u + 1, Len(items))
<1>1. items \in Seq(Item) /\ Len(items) \in Nat /\ Len(items) > 0
  BY DEF ItemsInv
<1>2. ActiveItems(items) = SubSeq(items, u + 1, Len(items))
  BY <1>1, LastUserAt DEF Asked
<1>3. ASSUME NEW j \in 1..Len(items), \A k \in j..Len(items) : items[k].kind = "user"
      PROVE  ActiveItems(SubSeq(items, j, Len(items))) = SubSeq(items, u + 1, Len(items))
  <2> DEFINE w == SubSeq(items, j, Len(items))  n == Len(items) - j + 1
  <2>1. w \in Seq(Item) /\ Len(w) = n /\ n \in 1..Len(w) /\ w[n] = items[Len(items)]
    BY <1>1
  <2>2. items[Len(items)].kind = "user"  BY <1>1, <1>3
  <2>3. u = Len(items)  BY <1>1, <2>2 DEF Asked
  <2> HIDE DEF w
  <2>4. w[n].kind = "user" /\ \A i \in (n + 1)..Len(w) : w[i].kind # "user"  BY <1>1, <2>1, <2>2
  <2> HIDE DEF n
  <2>5. ActiveItems(w) = SubSeq(w, n + 1, Len(w))  BY <2>1, <2>4, LastUserAt
  <2>6. SubSeq(w, n + 1, n) = <<>>  BY <2>1
  <2>7. SubSeq(items, u + 1, Len(items)) = <<>>  BY <1>1, <2>3
  <2> QED  BY <2>1, <2>5, <2>6, <2>7 DEF w
<1> QED  BY <1>2, <1>3

\* An item more is part of the turn unless the user said it.
LEMMA ExtraActive ==
    ASSUME ItemsInv, NEW u, Asked(u), NEW x \in Item, Extra(x)
    PROVE  LET act == SubSeq(items, u + 1, Len(items))
           IN  /\ x.kind = "user" => ActiveItems(Append(items, x)) = act
               /\ x.kind # "user" => ActiveItems(Append(items, x)) = Append(act, x)
<1> DEFINE w == Append(items, x)  n == Len(items)  act == SubSeq(items, u + 1, n)
<1>1. items \in Seq(Item) /\ n \in Nat /\ n > 0 /\ u \in 1..n
  BY DEF ItemsInv, Asked
<1>2. w \in Seq(Item) /\ Len(w) = n + 1 /\ w[n + 1] = x /\ \A i \in 1..n : w[i] = items[i]
  BY <1>1
<1>3. ASSUME x.kind = "user" PROVE ActiveItems(w) = act
  <2>1. x = items[n]  BY <1>3 DEF Extra
  <2>2. u = n  BY <1>1, <1>3, <2>1 DEF Asked
  <2>3. n + 1 \in 1..Len(w) /\ w[n + 1].kind = "user" /\ \A j \in ((n + 1) + 1)..Len(w) : w[j].kind # "user"
    BY <1>1, <1>2, <1>3
  <2> HIDE DEF w
  <2>4. ActiveItems(w) = SubSeq(w, (n + 1) + 1, Len(w))  BY <1>2, <2>3, LastUserAt
  <2>5. SubSeq(w, (n + 1) + 1, n + 1) = <<>>  BY <1>1, <1>2
  <2>6. act = <<>>  BY <1>1, <2>2
  <2> QED  BY <1>2, <2>4, <2>5, <2>6
<1>4. ASSUME x.kind # "user" PROVE ActiveItems(w) = Append(act, x)
  <2>1. u \in 1..Len(w) /\ w[u].kind = "user"  BY <1>1, <1>2 DEF Asked
  <2>2. \A j \in (u + 1)..Len(w) : w[j].kind # "user"
    <3>1. ASSUME NEW j \in (u + 1)..(n + 1) PROVE w[j].kind # "user"
      <4>1. CASE j = n + 1  BY <1>2, <1>4, <4>1
      <4>2. CASE j # n + 1
        <5>1. j \in (u + 1)..n /\ j \in 1..n  BY <1>1, <4>2
        <5> QED  BY <1>2, <5>1 DEF Asked
      <4> QED  BY <4>1, <4>2
    <3> QED  BY <1>2, <3>1
  <2>3. ActiveItems(w) = SubSeq(w, u + 1, n + 1)
    <3> HIDE DEF w
    <3>1. ActiveItems(w) = SubSeq(w, u + 1, Len(w))  BY <1>2, <2>1, <2>2, LastUserAt
    <3> QED  BY <1>2, <3>1
  <2>4. SubSeq(w, u + 1, n + 1) = Append(act, x)
    <3> DEFINE A == SubSeq(w, u + 1, n + 1)  B == Append(act, x)  m == n - u
    <3>1. m \in Nat /\ u \in Nat /\ n = u + m  BY <1>1
    <3>2. act \in Seq(Item) /\ Len(act) = m /\ \A i \in 1..m : act[i] = items[u + i]
      <4>1. act \in Seq(Item) /\ Len(act) = m  BY <1>1
      <4>2. \A i \in 1..m : act[i] = items[(u + 1) + i - 1] /\ (u + 1) + i - 1 = u + i  BY <1>1
      <4> QED  BY <4>1, <4>2
    <3> HIDE DEF act, w
    <3>3. A \in Seq(Item) /\ Len(A) = m + 1 /\ \A i \in 1..(m + 1) : A[i] = w[u + i]
      <4>1. A \in Seq(Item) /\ Len(A) = m + 1  BY <1>1, <1>2
      <4>2. \A i \in 1..(m + 1) : A[i] = w[(u + 1) + i - 1] /\ (u + 1) + i - 1 = u + i  BY <1>1, <1>2
      <4> QED  BY <4>1, <4>2
    <3>4. /\ B \in Seq(Item) /\ Len(B) = m + 1 /\ B[m + 1] = x
          /\ \A i \in 1..m : B[i] = act[i]
      BY <3>2
    <3> HIDE DEF A, B, m
    <3>5. \A i \in 1..(m + 1) : A[i] = B[i]
      <4>1. ASSUME NEW i \in 1..(m + 1) PROVE A[i] = B[i]
        <5>1. CASE i = m + 1
          <6>1. u + i = n + 1  BY <3>1, <5>1
          <6> QED  BY <1>2, <3>3, <3>4, <5>1, <6>1
        <5>2. CASE i # m + 1
          <6>1. i \in 1..m /\ u + i \in 1..n  BY <3>1, <5>2
          <6> QED  BY <1>2, <3>2, <3>3, <3>4, <6>1
        <5> QED  BY <5>1, <5>2
      <4> QED  BY <4>1
    <3>6. A \in Seq(Item) /\ B \in Seq(Item) /\ Len(A) = Len(B) /\ \A i \in 1..Len(A) : A[i] = B[i]
      BY <3>3, <3>4, <3>5
    <3>7. A = B  BY ONLY <3>6
    <3> QED  BY <3>7 DEF A, B
  <2> QED  BY <2>3, <2>4
<1> QED  BY <1>3, <1>4

LEMMA ActiveCases ==
    ASSUME ItemsInv, NEW u, Asked(u), row.pending = NoCall, NEW input \in Inputs
    PROVE  LET act == SubSeq(items, u + 1, Len(items))
               last == items[Len(items)]
           IN  \/ ActiveItems(input) = act
               \/ \E x \in Item : /\ ActiveItems(input) = Append(act, x)
                                  /\ Extra(x) /\ x.kind # "user"
               \/ ActiveItems(input) = <<last>> /\ last.kind # "user"
               \/ ActiveItems(input) = SubSeq(items, u + 1, Len(items) - 1) /\ last.kind = "result"
<1> DEFINE act == SubSeq(items, u + 1, Len(items))  last == items[Len(items)]  n == Len(items)
<1>1. items \in Seq(Item) /\ n \in Nat /\ n > 0 /\ u \in 1..n /\ last \in Item /\ n \in 1..n
  BY DEF ItemsInv, Asked
<1>2. CASE input = items
  BY <1>2, WholeActive
<1>3. CASE \E j \in 1..Len(items) :
                /\ input = SubSeq(items, j, Len(items))
                /\ \A k \in j..Len(items) : items[k].kind # "call"
                /\ (row.pending # NoCall) = \E k \in j..Len(items) : items[k].kind = "result"
  <2>1. PICK j \in 1..Len(items) :
                /\ input = SubSeq(items, j, Len(items))
                /\ \A k \in j..Len(items) : items[k].kind # "call"
                /\ (row.pending # NoCall) = \E k \in j..Len(items) : items[k].kind = "result"
    BY <1>3
  <2>2. \A k \in j..Len(items) : items[k].kind # "result"  BY <2>1
  <2>3. \A k \in j..Len(items) : items[k].kind = "user"
    <3>1. \A k \in j..Len(items) : items[k] \in Item  BY <1>1
    <3> QED  BY <2>1, <2>2, <3>1, ItemFields
  <2> QED  BY <2>1, <2>3, WholeActive
<1>4. CASE \E x \in Item : input = Append(items, x) /\ Extra(x)
  <2>1. PICK x \in Item : input = Append(items, x) /\ Extra(x)  BY <1>4
  <2>2. x.kind = "user" => ActiveItems(input) = act  BY <2>1, ExtraActive
  <2>3. x.kind # "user" => ActiveItems(input) = Append(act, x)  BY <2>1, ExtraActive
  <2> HIDE DEF act
  <2> QED  BY <2>1, <2>2, <2>3 DEF act
<1>5. CASE input = <<last>>
  <2> DEFINE w == <<last>>
  <2>1. w \in Seq(Item) /\ Len(w) = 1 /\ w[1] = last  BY <1>1
  <2>2. CASE last.kind = "user"
    <3>1. u = n  BY <1>1, <2>2 DEF Asked
    <3>2. act = <<>>  BY <1>1, <3>1
    <3> HIDE DEF w
    <3>3. 1 \in 1..Len(w) /\ w[1].kind = "user" /\ \A j \in (1 + 1)..Len(w) : w[j].kind # "user"
      BY <2>1, <2>2
    <3>4. ActiveItems(w) = SubSeq(w, 1 + 1, Len(w))  BY <2>1, <3>3, LastUserAt
    <3>5. SubSeq(w, 1 + 1, Len(w)) = <<>>  BY <2>1
    <3> QED  BY <1>5, <3>2, <3>4, <3>5 DEF w
  <2>3. CASE last.kind # "user"
    <3> HIDE DEF w
    <3>1. \A j \in 1..Len(w) : w[j].kind # "user"  BY <2>1, <2>3
    <3>2. ActiveItems(w) = w  BY <2>1, <3>1, NoUserActive
    <3> QED  BY <1>5, <2>3, <3>2 DEF w
  <2> QED  BY <2>2, <2>3
<1>6. CASE input = SubSeq(items, 1, n - 1) /\ last.kind = "result"
  <2> DEFINE w == SubSeq(items, 1, n - 1)
  <2>1. u # n  BY <1>6 DEF Asked
  <2>2. w \in Seq(Item) /\ Len(w) = n - 1 /\ \A i \in 1..(n - 1) : w[i] = items[i]
    <3> DEFINE m == n - 1
    <3>1. m \in Nat /\ m <= Len(items)  BY <1>1
    <3>2. w = SubSeq(items, 1, m)  OBVIOUS
    <3> HIDE DEF m, w
    <3>3. w \in Seq(Item) /\ Len(w) = m  BY <1>1, <3>1, <3>2
    <3>4. \A i \in 1..m : w[i] = items[i]  BY <1>1, <3>1, <3>2
    <3> QED  BY <3>3, <3>4 DEF m
  <2>3. SubSeq(w, u + 1, n - 1) = SubSeq(items, u + 1, n - 1)  BY <1>1
  <2> HIDE DEF w
  <2>4. u \in 1..Len(w) /\ w[u].kind = "user" /\ \A j \in (u + 1)..Len(w) : w[j].kind # "user"
    BY <1>1, <2>1, <2>2 DEF Asked
  <2>5. ActiveItems(w) = SubSeq(w, u + 1, Len(w))  BY <2>2, <2>4, LastUserAt
  <2> QED  BY <1>6, <2>2, <2>3, <2>5 DEF w
<1>7. \/ input = items
      \/ \E j \in 1..Len(items) :
                /\ input = SubSeq(items, j, Len(items))
                /\ \A k \in j..Len(items) : items[k].kind # "call"
                /\ (row.pending # NoCall) = \E k \in j..Len(items) : items[k].kind = "result"
      \/ \E x \in Item : input = Append(items, x) /\ Extra(x)
      \/ input = <<items[Len(items)]>>
      \/ input = SubSeq(items, 1, Len(items) - 1) /\ items[Len(items)].kind = "result"
  BY InputKinds
<1> QED  BY <1>2, <1>3, <1>4, <1>5, <1>6, <1>7

LEMMA HonestActive ==
    ASSUME ItemsInv, NEW u, Asked(u), row.pending = NoCall, NEW input \in HonestInputs
    PROVE  ActiveItems(input) = SubSeq(items, u + 1, Len(items)) /\ ~OpenCall
<1>1. ~OpenCall
  BY DEF HonestInputs
<1>2. CASE input = items
  BY <1>1, <1>2, WholeActive
<1>3. CASE input # items
  <2>1. PICK j \in DOMAIN items :
            /\ input = SubSeq(items, j, Len(items))
            /\ \A k \in j..Len(items) : items[k].kind # "call"
            /\ (row.pending # NoCall) = \E k \in j..Len(items) : IsResult(items[k])
    BY <1>3 DEF HonestInputs
  <2>2. \A k \in j..Len(items) : items[k].kind # "result"  BY <2>1 DEF IsResult
  <2>3. \A k \in j..Len(items) : items[k].kind = "user" /\ j \in 1..Len(items)
    <3>1. \A k \in j..Len(items) : items[k] \in Item /\ j \in 1..Len(items)  BY DEF ItemsInv
    <3> QED  BY <2>1, <2>2, <3>1, ItemFields
  <2>4. j \in 1..Len(items)  BY DEF ItemsInv
  <2> QED  BY <1>1, <2>1, <2>3, <2>4, WholeActive
<1> QED  BY <1>2, <1>3

-----------------------------------------------------------------------------
(* The ledger of a request.                                                *)

LEMMA ItemAppended ==
    ASSUME NEW s, NEW w \in Seq(Item), NEW x \in Item
    PROVE  AddItems(s, Append(w, x)) = AddItem(AddItems(s, w), x)
<1> DEFINE y == Append(w, x)
<1>1. /\ Len(w) \in Nat /\ Len(y) = Len(w) + 1 /\ y[Len(y)] = x
      /\ \A i \in 1..Len(w) : y[i] = w[i]
  OBVIOUS
<1> HIDE DEF y
<1>2. AddItems(s, y) = AddItem(AddItems(s, w), y[Len(y)])
  BY <1>1, ItemsStep
<1> QED  BY <1>1, <1>2 DEF y

\* How many executions precede those the ledger has to know.
since == IF Whole THEN 0 ELSE mark

LEMMA RanWhole ==
    ASSUME RanInv
    PROVE  RanAfter(0) = ran
<1>1. ran \in Seq(RunRec) /\ 0 + 1 = 1
  BY DEF RanInv
<1>2. SubSeq(ran, 1, Len(ran)) = ran
  BY <1>1
<1> QED  BY <1>1, <1>2 DEF RanAfter

LEMMA CoveredIs ==
    ASSUME RanInv, mark \in 0..Len(ran)
    PROVE  /\ Covered = RanAfter(since) /\ since \in 0..mark /\ since \in 0..Len(ran)
           /\ mode = "chain" => Covered = Scope /\ Scope = ran
           /\ ~Whole => Covered = Scope /\ since = mark
<1>1. Len(ran) \in Nat
  BY DEF RanInv
<1>2. Scope = RanAfter(mark)
  BY CourseIs
<1>3. RanAfter(0) = ran
  BY RanWhole
<1>4. CASE Whole
  <2>1. Covered = ran /\ since = 0  BY <1>4 DEF Covered, since
  <2>2. mode = "chain" => mark = 0  BY DEF mark
  <2> QED  BY <1>1, <1>2, <1>3, <1>4, <2>1, <2>2
<1>5. CASE ~Whole
  <2>1. Covered = Scope /\ since = mark  BY <1>5 DEF Covered, since
  <2>2. mode = "chain" => mark = 0  BY DEF mark
  <2> QED  BY <1>1, <1>2, <1>3, <1>5, <2>1, <2>2
<1> QED  BY <1>4, <1>5

\* A failure the guard has to know of is reported.
Reports(l) ==
    \A p \in Prints, f \in Failures, i \in DOMAIN Scope :
        /\ FailedAt(p, f, i)
        /\ mode = "chain" => /\ row.pending # NoCall /\ i = Len(Scope)
                             /\ Cardinality(FailuresOf(p)) <= FailureMemory
        /\ \E j \in 1..(i - 1) : FailedAt(p, f, j)
        => \E q \in l.issues : q.code = "repeated_failure" /\ q.print = p

\* What a ledger that passes the preflight knows.
Knows(l) ==
    /\ l \in LedgerRec /\ l.pending = {} /\ Aligned(l)
    /\ Mirrors(l.completed, Evidence(Covered)) /\ Reports(l)

LEMMA ReplayedKnows ==
    ASSUME ItemsInv, RanInv, mark \in 0..Len(ran), NEW l, Replayed(l, since)
    PROVE  Knows(l)
<1> DEFINE c == l.completed  d == mark - since  C == Covered
<1>1. /\ C = RanAfter(since) /\ since \in 0..mark /\ since \in 0..Len(ran) /\ Len(ran) \in Nat
      /\ c = Evidence(C)
  BY CoveredIs DEF Replayed, RanInv
<1>2. C \in Seq(RunRec) /\ Len(C) = Len(ran) - since /\ \A i \in 1..(Len(ran) - since) : C[i] = ran[since + i]
  BY <1>1, TailFields
<1> HIDE DEF C
<1>3. /\ DOMAIN c = 1..Len(C) /\ \A i \in 1..Len(C) : c[i] = Entry(C[i]) /\ C[i] \in RunRec
  BY <1>1, <1>2, EvidenceFields
<1>4. /\ Scope \in Seq(RunRec) /\ Len(Scope) = Len(ran) - mark /\ DOMAIN Scope = 1..Len(Scope)
      /\ \A i \in 1..Len(Scope) : Scope[i] = ran[mark + i]
  BY CourseFields
<1>5. Remembering(c, l.signatures, l.issues)
  BY DEF Replayed, Remembers
<1> HIDE DEF c
<1>6. ASSUME NEW i \in DOMAIN Scope
      PROVE  d + i \in 1..Len(C) /\ C[d + i] = Scope[i] /\ d \in Nat
  <2>1. i \in 1..(Len(ran) - mark) /\ mark \in Nat /\ since \in Nat /\ since <= mark
    BY <1>1, <1>4
  <2>2. d + i \in 1..(Len(ran) - since) /\ since + (d + i) = mark + i /\ d \in Nat
    BY <1>1, <2>1
  <2> HIDE DEF d
  <2> QED  BY <1>2, <1>4, <2>1, <2>2
<1> HIDE DEF d
<1>7. ASSUME NEW p \in Prints, NEW f \in Failures, NEW i \in DOMAIN Scope, FailedAt(p, f, i)
      PROVE  c[d + i].print = p /\ c[d + i].failed /\ c[d + i].failure = f
  <2> DEFINE x == C[d + i]
  <2>1. x.print = p /\ x.outcome = f /\ c[d + i] = Entry(x) /\ x \in RunRec
    BY <1>3, <1>6, <1>7 DEF FailedAt
  <2> HIDE DEF x
  <2>2. x.outcome \in Failures  BY <2>1
  <2>3. c[d + i].print = p /\ c[d + i].failure = f  BY <2>1, <2>2, EntryType
  <2>4. c[d + i].failed  BY <2>1, <2>2, EntryType
  <2> QED  BY <2>3, <2>4
<1>8. ASSUME NEW p \in Prints, NEW f \in Failures, NEW i \in DOMAIN Scope, FailedAt(p, f, i),
             NEW j \in 1..(i - 1), FailedAt(p, f, j)
      PROVE  \E q \in l.issues : q.code = "repeated_failure" /\ q.print = p
  <2>1. j \in DOMAIN Scope /\ j < i /\ i \in Nat /\ j \in Nat  BY <1>1, <1>4
  <2>2. c[d + i].print = p /\ c[d + i].failed /\ c[d + i].failure = f  BY <1>7, <1>8
  <2>3. c[d + j].print = p /\ c[d + j].failed /\ c[d + j].failure = f  BY <1>7, <1>8, <2>1
  <2>4. d + i \in DOMAIN c /\ d + j \in DOMAIN c /\ d + j < d + i  BY <1>3, <1>6, <2>1
  <2> QED  BY <1>5, <2>2, <2>3, <2>4 DEF Remembering
<1>9. Reports(l)
  BY <1>8 DEF Reports
<1>10. Mirrors(c, Evidence(C))
  BY <1>1, MirrorsSelf
<1> QED  BY <1>9, <1>10 DEF Knows, Replayed, c, C

LEMMA EmptyParse ==
    ASSUME NEW v
    PROVE  ParseToolLedger(EmptyRow, v) = AddItems(EmptyState, v)
<1>1. EmptyRow.pending = NoCall /\ EmptyRow.snapshot = <<>>
  BY DEF EmptyRow
<1>2. AddCompletedSnapshots(<<>>) = EmptyState
  BY SnapshotStep
<1> QED  BY <1>1, <1>2 DEF ParseToolLedger

\* The ledger of a request that repeats the items after u.
LEMMA ReplayRequest ==
    ASSUME ItemsInv, RanInv, NEW u, NEW r, From(u, r), NEW l,
           LET s == Parsed(u + 1, Len(items))
           IN  \/ l = s
               \/ \E x \in Item : l = AddItem(s, x) /\ Extra(x) /\ x.kind # "user"
               \/ l = Parsed(u + 1, Len(items) - 1) /\ items[Len(items)].kind = "result"
    PROVE  Blocked(l) \/ (~OpenCall /\ Replayed(l, r))
<1> DEFINE n == Len(items)  s == Parsed(u + 1, n)  last == items[n]
<1>1. n \in Nat /\ n > 0 /\ u \in 1..n /\ n \in 1..n /\ MaxItems \in Nat
  BY FromNext, LedgerAssumption DEF ItemsInv
<1>2. s \in LedgerRec /\ (OpenCall => s.pending = {n}) /\ (~OpenCall => Replayed(s, r))
  BY TurnLedger
<1>3. OpenCall <=> last.kind = "call"
  BY DEF OpenCall, Last
<1>4. OpenCall => n <= MaxItems
  BY <1>1, <1>3 DEF ItemsInv
<1>5. last.kind = "result" => items[n - 1].kind = "call"
  BY <1>1 DEF ItemsInv
<1> HIDE DEF s
<1>6. CASE l = s
  <2>1. OpenCall => Blocked(l)  BY <1>2, <1>6 DEF Blocked
  <2> QED  BY <1>2, <1>6, <2>1
<1>7. ASSUME NEW x \in Item, l = AddItem(s, x), Extra(x), x.kind # "user" PROVE Blocked(l)
  <2>1. /\ x.kind = "call" \/ x.kind = "result"
        /\ x.kind = "call" => x.id \in Nat /\ x.print \in Prints
        /\ x.kind = "result" => x.id \in Nat
    BY <1>7, ItemFields
  <2>2. CASE x.kind = "call"
    <3>1. l = RegisterCall(s, x.id, x.print)  BY <1>7, <2>2, AddedItem
    <3> QED  BY <1>2, <2>1, <2>2, <3>1, RegisterBlocked
  <2>3. CASE x.kind = "result"
    <3>1. l = ConsumeResult(s, x.id, x.outcome)  BY <1>7, <2>3, AddedItem
    <3>2. x.id \notin s.pending
      <4>1. CASE OpenCall
        <5>1. x # last  BY <1>3, <2>3, <4>1
        <5>2. x.id = MaxItems + 1  BY <1>7, <2>3, <5>1 DEF Extra
        <5> QED  BY <1>1, <1>2, <1>4, <4>1, <5>2
      <4>2. CASE ~OpenCall
        BY <1>2, <4>2 DEF Replayed
      <4> QED  BY <4>1, <4>2
    <3> QED  BY <1>2, <2>1, <2>3, <3>1, <3>2, ConsumeBlocked
  <2> QED  BY <2>1, <2>2, <2>3
<1>8. CASE l = Parsed(u + 1, n - 1) /\ last.kind = "result"
  <2>1. items[u].kind = "user"  BY DEF From
  <2>2. u # n  BY <1>8, <2>1
  <2>3. n - 1 \in u..n  BY <1>1, <2>2
  <2>4. Tidy(Parsed(u + 1, n - 1), n - 1, r)  BY <2>3, TurnParsed
  <2>5. l.pending = {n - 1}  BY <1>5, <1>8, <2>4 DEF Tidy
  <2> QED  BY <2>5 DEF Blocked
<1> QED  BY <1>6, <1>7, <1>8 DEF s

\* A request of the turn that is under way.
LEMMA EmptyRowRequest ==
    ASSUME ItemsInv, RanInv, NEW u, Since(u), row = EmptyRow, ~Whole, mark = asked,
           WithinLimits(Course), NEW input \in Inputs, NEW l,
           l = ParseToolLedger(row, ActiveInput(row, input))
    PROVE  /\ Blocked(l) \/ (~OpenCall /\ Replayed(l, asked))
           /\ input \in HonestInputs => ~OpenCall /\ ~Blocked(l)
<1> DEFINE n == Len(items)  act == SubSeq(items, u + 1, n)  s == Parsed(u + 1, n)
           last == items[n]
<1>1. items \in Seq(Item) /\ n \in Nat /\ n > 0 /\ u \in 1..n /\ last \in Item /\ n \in 1..n
  BY SMTT(30) DEF ItemsInv, Since
<1>2. Asked(u) /\ row.pending = NoCall
  BY DEF Since, Asked, EmptyRow
<1>3. l = AddItems(EmptyState, ActiveItems(input))
  BY <1>2, EmptyParse DEF ActiveInput
<1>4. s = AddItems(EmptyState, act)
  BY DEF Parsed
<1>5. From(u, asked)
  BY SinceFrom
<1>6. EmptyState \in LedgerRec /\ EmptyState.pending = {}
  BY DEF EmptyState, LedgerRec
<1>7. act \in Seq(Item)
  BY <1>1
<1> HIDE DEF s, act
<1>8. ASSUME ActiveItems(input) = act PROVE l = s
  BY <1>3, <1>4, <1>8
<1>9. ASSUME NEW x \in Item, ActiveItems(input) = Append(act, x) PROVE l = AddItem(s, x)
  BY <1>3, <1>4, <1>7, <1>9, ItemAppended
<1>10. ASSUME ActiveItems(input) = <<last>>, last.kind # "user" PROVE Blocked(l)
  <2>1. l = AddItem(EmptyState, last)  BY <1>3, <1>10, OneItem
  <2>2. /\ last.kind = "call" \/ last.kind = "result"
        /\ last.kind = "call" => last.id \in Nat /\ last.print \in Prints
        /\ last.kind = "result" => last.id \in Nat
    BY <1>1, <1>10, ItemFields
  <2>3. CASE last.kind = "call"
    <3>1. l = RegisterCall(EmptyState, last.id, last.print)  BY <2>1, <2>3, AddedItem
    <3> QED  BY <1>6, <2>2, <2>3, <3>1, RegisterBlocked
  <2>4. CASE last.kind = "result"
    <3>1. l = ConsumeResult(EmptyState, last.id, last.outcome)  BY <2>1, <2>4, AddedItem
    <3>2. last.id \notin EmptyState.pending  BY <1>6
    <3> QED  BY <1>6, <2>2, <2>4, <3>1, <3>2, ConsumeBlocked
  <2> QED  BY <2>2, <2>3, <2>4
<1>11. ASSUME ActiveItems(input) = SubSeq(items, u + 1, n - 1) PROVE l = Parsed(u + 1, n - 1)
  BY <1>3, <1>11 DEF Parsed
<1>12. Blocked(l) \/ (~OpenCall /\ Replayed(l, asked))
  <2>1. \/ ActiveItems(input) = act
        \/ \E x \in Item : ActiveItems(input) = Append(act, x) /\ Extra(x) /\ x.kind # "user"
        \/ ActiveItems(input) = <<last>> /\ last.kind # "user"
        \/ ActiveItems(input) = SubSeq(items, u + 1, n - 1) /\ last.kind = "result"
    BY <1>2, ActiveCases DEF act
  <2>2. \/ Blocked(l)
        \/ l = s
        \/ \E x \in Item : l = AddItem(s, x) /\ Extra(x) /\ x.kind # "user"
        \/ l = Parsed(u + 1, n - 1) /\ last.kind = "result"
    BY <1>8, <1>9, <1>10, <1>11, <2>1
  <2> QED  BY <1>5, <2>2, ReplayRequest DEF s
<1>13. ASSUME input \in HonestInputs PROVE ~OpenCall /\ ~Blocked(l)
  <2>1. ActiveItems(input) = act /\ ~OpenCall  BY <1>2, <1>13, HonestActive DEF act
  <2>2. WithinLimits(RanAfter(asked))
    <3>1. Course = Scope /\ Scope = RanAfter(mark)  BY <2>1, CourseIs DEF Course
    <3> QED  BY <3>1
  <2>3. ~Blocked(s)  BY <1>5, <2>1, <2>2, TurnLedger DEF s
  <2> QED  BY <1>8, <2>1, <2>3
<1> QED  BY <1>12, <1>13

\* The first message adds nothing to the ledger.
LEMMA UserFirst ==
    ASSUME ItemsInv
    PROVE  \A n \in 1..Len(items) : Parsed(1, n) = Parsed(2, n)
<1> DEFINE P == {n \in 1..Len(items) : Parsed(1, n) = Parsed(2, n)}
<1>1. /\ items \in Seq(Item) /\ Len(items) \in Nat /\ Len(items) > 0 /\ items[1].kind = "user"
      /\ 1 \in 1..(Len(items) + 1) /\ 2 \in 1..(Len(items) + 1) /\ 1 \in 1..Len(items)
  BY DEF ItemsInv
<1>2. /\ Parsed(1, 1 - 1) = EmptyState
      /\ \A n \in 1..Len(items) : Parsed(1, n) = AddItem(Parsed(1, n - 1), items[n])
  BY <1>1, ParseStep
<1>3. /\ Parsed(2, 2 - 1) = EmptyState
      /\ \A n \in 2..Len(items) : Parsed(2, n) = AddItem(Parsed(2, n - 1), items[n])
  BY <1>1, ParseStep
<1>4. 1 \in P
  <2>1. Parsed(1, 1) = Parsed(1, 1 - 1)  BY <1>1, <1>2, AddedItem
  <2>2. Parsed(2, 1) = EmptyState
    <3>1. 2 - 1 = 1  OBVIOUS
    <3> QED  BY <1>3, <3>1
  <2> QED  BY <1>1, <1>2, <2>1, <2>2
<1>5. \A n \in (1 + 1)..Len(items) : n - 1 \in P => n \in P
  <2>1. ASSUME NEW n \in 2..Len(items), n - 1 \in P PROVE n \in P
    <3>1. n \in 1..Len(items)  BY <1>1
    <3>2. Parsed(1, n - 1) = Parsed(2, n - 1)  BY <2>1
    <3>3. Parsed(1, n) = Parsed(2, n)  BY <1>2, <1>3, <3>1, <3>2
    <3> QED  BY <3>1, <3>3
  <2> QED  BY <2>1
<1> HIDE DEF P
<1>6. 1..Len(items) \subseteq P
  BY ONLY <1>1, <1>4, <1>5, UpTo
<1> QED  BY <1>6 DEF P

\* A pending call waits for its own result.
LEMMA OtherResult ==
    ASSUME NEW s \in LedgerRec, NEW i \in s.pending, NEW id \in Nat, id # i, NEW o
    PROVE  Blocked(ConsumeResult(s, id, o))
<1>1. CASE id \in s.consumed \/ id \notin s.pending
  BY <1>1, ConsumeBlocked
<1>2. CASE ~(id \in s.consumed \/ id \notin s.pending)
  <2> DEFINE p == s.calls[CHOOSE k \in DOMAIN s.calls : s.calls[k].id = id].print
             e == [print |-> p, failed |-> o \in Failures,
                   failure |-> IF o \in Failures THEN o ELSE NoFailure]
             B == [s EXCEPT !.pending = @ \ {id}, !.consumed = @ \cup {id},
                            !.signatures = IF o \in Failures THEN @ \cup {<<p, o>>} ELSE @,
                            !.completed = Append(@, e)]
             codes == IF o \in Failures /\ <<p, o>> \in s.signatures THEN {"repeated_failure"} ELSE {}
             T == AddIssues(B, codes, id, p)
  <2>1. ConsumeResult(s, id, o) = T  BY <1>2, Zenon DEF ConsumeResult
  <2>2. B.pending = s.pending \ {id}  BY DEF LedgerRec
  <2> HIDE DEF p, e, codes
  <2>3. T.pending = B.pending
    <3>1. DOMAIN B = DOMAIN s  OBVIOUS
    <3>2. "pending" \in DOMAIN s  BY DEF LedgerRec
    <3> HIDE DEF B
    <3> QED  BY <3>1, <3>2 DEF AddIssues
  <2>4. i \in T.pending  BY <2>2, <2>3
  <2> HIDE DEF T
  <2> QED  BY <2>1, <2>4 DEF Blocked
<1> QED  BY <1>1, <1>2

\* The call at i was abandoned: it stays pending in the whole history.
LEMMA AbandonedPending ==
    ASSUME ItemsInv, RanInv, NEW i \in 1..(Len(items) - 1), items[i].kind = "call",
           items[i + 1].kind = "user"
    PROVE  \A n \in i..Len(items) : Parsed(1, n) \in LedgerRec /\ i \in Parsed(1, n).pending
<1> DEFINE P == {n \in i..Len(items) : i \in Parsed(1, n).pending}
<1>1. /\ items \in Seq(Item) /\ Len(items) \in Nat /\ items[1].kind = "user" /\ i \in Nat
      /\ i \in 1..Len(items) /\ 1 \in 1..(Len(items) + 1) /\ 0 \in 0..Len(ran) /\ i \in i..Len(items)
  BY DEF ItemsInv, RanInv
<1>2. \A k \in 1..Len(ran) : k <= 0 <=> ran[k].call < 1
  <2>1. \A k \in 1..Len(ran) : ran[k].call \in 1..(Len(items) - 1) /\ Len(ran) \in Nat  BY DEF RanInv
  <2> QED  BY <1>1, <2>1
<1>3. \A n \in (1 - 1)..Len(items) : Seen(Parsed(1, n), 1, n, 0)
  BY <1>1, <1>2, ParseSeen
<1>4. \A n \in i..Len(items) : Seen(Parsed(1, n), 1, n, 0) /\ Parsed(1, n) \in LedgerRec
  <2>1. \A n \in i..Len(items) : n \in (1 - 1)..Len(items)  BY <1>1
  <2> QED  BY <1>3, <2>1 DEF Seen
<1>5. \A n \in 1..Len(items) : Parsed(1, n) = AddItem(Parsed(1, n - 1), items[n])
  BY <1>1, ParseStep
<1>6. i \in P
  <2>1. Ids(Parsed(1, i), 1, i) /\ i >= 1  BY <1>1, <1>4 DEF Seen
  <2> QED  BY <1>1, <2>1 DEF Ids
<1>7. ASSUME NEW n \in (i + 1)..Len(items), n - 1 \in P PROVE n \in P
  <2> DEFINE s == Parsed(1, n - 1)  T == Parsed(1, n)
  <2>1. /\ n \in 1..Len(items) /\ n \in i..Len(items) /\ n - 1 \in i..Len(items) /\ n \in Nat
        /\ n \in (1 + 1)..Len(items)
    BY <1>1
  <2>2. /\ Seen(s, 1, n - 1, 0) /\ T = AddItem(s, items[n]) /\ i \in s.pending
    BY <1>4, <1>5, <1>7, <2>1
  <2>3. items[n].kind \in {"user", "call", "result"}
    <3>1. items[n] \in Item  BY <1>1, <2>1
    <3> QED  BY <3>1, ItemFields
  <2> HIDE DEF s, T
  <2>4. CASE items[n].kind = "user"
    <3>1. T = s  BY <2>2, <2>4, AddedItem
    <3> QED  BY <2>1, <2>2, <3>1 DEF T
  <2>5. CASE items[n].kind = "call"
    <3>1. Registered(T, s, n, items[n].print)  BY <1>1, <2>1, <2>2, <2>5, CallSeen
    <3>2. i \in T.pending  BY <2>2, <3>1 DEF Registered
    <3> QED  BY <2>1, <3>2 DEF T
  <2>6. CASE items[n].kind = "result"
    <3>1. Consumed(T, s, n - 1, items[n - 1].print, items[n].outcome)
      BY <1>1, <1>2, <2>1, <2>2, <2>6, ResultSeen
    <3>2. n # i + 1  BY <2>6
    <3>3. i # n - 1  BY <1>1, <2>1, <3>2
    <3>4. i \in T.pending  BY <2>2, <3>1, <3>3 DEF Consumed
    <3> QED  BY <2>1, <3>4 DEF T
  <2> QED  BY <2>3, <2>4, <2>5, <2>6
<1> HIDE DEF P
<1>8. i..Len(items) \subseteq P
  <2>1. \A n \in (i + 1)..Len(items) : n - 1 \in P => n \in P  BY <1>7
  <2> QED  BY ONLY <1>1, <1>6, <2>1, UpTo
<1> QED  BY <1>4, <1>8 DEF P

LEMMA AbandonedRequest ==
    ASSUME ItemsInv, RanInv, Abandoned, NEW l,
           LET s == Parsed(1, Len(items))
           IN  \/ l = s
               \/ \E x \in Item : l = AddItem(s, x) /\ Extra(x)
               \/ l = Parsed(1, Len(items) - 1) /\ items[Len(items)].kind = "result"
    PROVE  Blocked(l)
<1> DEFINE n == Len(items)  s == Parsed(1, n)
<1>1. PICK i \in 1..(n - 1) : items[i].kind = "call" /\ items[i + 1].kind = "user"
  BY DEF Abandoned, IsUser
<1>2. n \in Nat /\ n \in i..n /\ n - 1 \in i..n /\ i \in Nat /\ i \in 1..n /\ MaxItems \in Nat /\ n \in 1..n
  <2>1. n \in Nat  BY DEF ItemsInv
  <2>2. MaxItems \in Nat  BY LedgerAssumption
  <2> QED  BY <2>1, <2>2
<1>3. \A m \in i..n : Parsed(1, m) \in LedgerRec /\ i \in Parsed(1, m).pending
  BY <1>1, AbandonedPending
<1>4. s \in LedgerRec /\ i \in s.pending
  BY <1>2, <1>3
<1>5. i <= MaxItems
  BY <1>1, <1>2 DEF ItemsInv
<1> HIDE DEF s
<1>6. CASE l = s
  BY <1>4, <1>6 DEF Blocked
<1>7. ASSUME NEW x \in Item, l = AddItem(s, x), Extra(x) PROVE Blocked(l)
  <2>1. /\ x.kind \in {"user", "call", "result"}
        /\ x.kind = "call" => x.id \in Nat /\ x.print \in Prints
        /\ x.kind = "result" => x.id \in Nat
    BY <1>7, ItemFields
  <2>2. CASE x.kind = "user"
    <3>1. l = s  BY <1>7, <2>2, AddedItem
    <3> QED  BY <1>4, <3>1 DEF Blocked
  <2>3. CASE x.kind = "call"
    <3>1. l = RegisterCall(s, x.id, x.print)  BY <1>7, <2>3, AddedItem
    <3> QED  BY <1>4, <2>1, <2>3, <3>1, RegisterBlocked
  <2>4. CASE x.kind = "result"
    <3>1. l = ConsumeResult(s, x.id, x.outcome)  BY <1>7, <2>4, AddedItem
    <3>2. x.id # i
      <4>1. CASE x.id = MaxItems + 1  BY <1>2, <1>5, <4>1
      <4>2. CASE x = items[n]
        <5>1. items[n].kind = "result" /\ items[n].id = n - 1  BY <1>2, <2>4, <4>2 DEF ItemsInv
        <5>2. n # i + 1  BY <1>1, <5>1
        <5> QED  BY <1>2, <4>2, <5>1, <5>2
      <4> QED  BY <1>7, <2>4, <4>1, <4>2 DEF Extra
    <3> QED  BY <1>4, <2>1, <2>4, <3>1, <3>2, OtherResult
  <2> QED  BY <2>1, <2>2, <2>3, <2>4
<1>8. CASE l = Parsed(1, n - 1)
  BY <1>2, <1>3, <1>8 DEF Blocked
<1> QED  BY <1>6, <1>7, <1>8 DEF s

\* Nothing is abandoned: the whole history is one course.
LEMMA WholeFrom ==
    ASSUME ItemsInv, RanInv, ~Abandoned
    PROVE  From(1, 0)
<1>1. Len(items) \in Nat /\ Len(items) > 0 /\ 1 \in 1..Len(items) /\ items[1].kind = "user" /\ Len(ran) \in Nat
  BY DEF ItemsInv, RanInv
<1>2. \A k \in 1..Len(ran) : k <= 0 <=> ran[k].call < 1
  <2>1. \A k \in 1..Len(ran) : ran[k].call \in 1..(Len(items) - 1)  BY DEF RanInv
  <2> QED  BY <1>1, <2>1
<1>3. ASSUME NEW i \in 1..(Len(items) - 1), items[i].kind = "call" PROVE items[i + 1].kind = "result"
  <2>1. i \in 1..Len(items) /\ i + 1 \in 1..Len(items) /\ i < Len(items)  BY <1>1
  <2>2. items[i + 1].kind # "call" /\ items[i + 1] \in Item  BY <1>3, <2>1 DEF ItemsInv
  <2>3. items[i + 1].kind # "user"  BY <1>3 DEF Abandoned, IsUser
  <2> QED  BY <2>2, <2>3, ItemFields
<1> QED  BY <1>1, <1>2, <1>3 DEF From

\* A request that finds no session is read in full.
LEMMA WholeRequest ==
    ASSUME ItemsInv, RanInv, Whole, row = EmptyRow, NEW input \in Inputs, NEW l,
           l = ParseToolLedger(row, ActiveInput(row, input))
    PROVE  /\ Blocked(l) \/ (~OpenCall /\ Replayed(l, 0))
           /\ input \in HonestInputs /\ ~Abandoned /\ WithinLimits(ran) => ~Blocked(l)
<1> DEFINE n == Len(items)  s == Parsed(1, n)  last == items[n]
<1>1. items \in Seq(Item) /\ n \in Nat /\ n > 0 /\ n \in 1..n
  BY DEF ItemsInv
<1>2. l = AddItems(EmptyState, input)
  BY EmptyParse DEF ActiveInput
<1>3. SubSeq(items, 1, n) = items
  BY <1>1
<1>4. s = AddItems(EmptyState, items)
  BY <1>3 DEF Parsed
<1> HIDE DEF s
<1>5. \/ l = s
      \/ \E x \in Item : l = AddItem(s, x) /\ Extra(x)
      \/ l = Parsed(1, n - 1) /\ last.kind = "result"
  <2>1. CASE input = items
    BY <1>2, <1>4, <2>1
  <2>2. ASSUME NEW x \in Item, input = Append(items, x), Extra(x)
        PROVE  l = AddItem(s, x)
    BY <1>1, <1>2, <1>4, <2>2, ItemAppended
  <2>3. CASE input = SubSeq(items, 1, n - 1) /\ last.kind = "result"
    BY <1>2, <2>3 DEF Parsed
  <2>4. \/ input = items
        \/ \E x \in Item : input = Append(items, x) /\ Extra(x)
        \/ input = SubSeq(items, 1, n - 1) /\ last.kind = "result"
    BY InputKinds
  <2> QED  BY <2>1, <2>2, <2>3, <2>4
<1>6. CASE Abandoned
  <2>1. Blocked(l)  BY <1>5, <1>6, AbandonedRequest DEF s
  <2> QED  BY <1>6, <2>1
<1>7. CASE ~Abandoned
  <2> DEFINE t == Parsed(2, n)
  <2>1. s = t  BY <1>1, UserFirst DEF s
  <2>2. From(1, 0) /\ 1 + 1 = 2  BY <1>7, WholeFrom
  <2>3. last.kind = "result" => Parsed(1, n - 1) = Parsed(2, n - 1)
    <3>1. last.kind = "result" => n > 1  BY <1>1 DEF ItemsInv
    <3>2. n > 1 => n - 1 \in 1..n  BY <1>1
    <3> QED  BY <3>1, <3>2, UserFirst
  <2>4. \/ l = t
        \/ \E x \in Item : l = AddItem(t, x) /\ Extra(x) /\ x.kind # "user"
        \/ l = Parsed(2, n - 1) /\ last.kind = "result"
    <3>1. \A x \in Item : x.kind = "user" => AddItem(t, x) = t  BY AddedItem
    <3> HIDE DEF t
    <3> QED  BY <1>5, <2>1, <2>3, <3>1
  <2>5. Blocked(l) \/ (~OpenCall /\ Replayed(l, 0))
    <3>1. Parsed(1 + 1, n) = t /\ Parsed(1 + 1, n - 1) = Parsed(2, n - 1)  BY <2>2
    <3> HIDE DEF t
    <3> QED  BY <2>2, <2>4, <3>1, ReplayRequest
  <2>6. ASSUME input \in HonestInputs, WithinLimits(ran) PROVE ~Blocked(l)
    <3>1. input = items /\ ~OpenCall  BY <2>6 DEF HonestInputs
    <3>2. l = t  BY <1>2, <1>4, <2>1, <3>1
    <3>3. RanAfter(0) = ran  BY RanWhole
    <3>4. ~Blocked(Parsed(1 + 1, n))  BY <2>2, <2>6, <3>1, <3>3, TurnLedger
    <3> QED  BY <2>2, <3>2, <3>4
  <2> QED  BY <2>5, <2>6
<1> QED  BY <1>6, <1>7

\* Whatever a request carries is an item of the conversation, or a call or a
\* result that no one knows of.
Strange(x) == x.kind = "call" \/ (x.kind = "result" /\ x.id = MaxItems + 1)

LEMMA InputElements ==
    ASSUME ItemsInv, NEW input \in Inputs
    PROVE  /\ Len(input) \in Nat /\ DOMAIN input = 1..Len(input)
           /\ \A i \in 1..Len(input) :
                 (\E k \in 1..Len(items) : input[i] = items[k]) \/ Strange(input[i])
<1> DEFINE n == Len(items)
           Goal == /\ Len(input) \in Nat /\ DOMAIN input = 1..Len(input)
                   /\ \A i \in 1..Len(input) :
                        (\E k \in 1..n : input[i] = items[k]) \/ Strange(input[i])
<1>1. items \in Seq(Item) /\ n \in Nat /\ n > 0 /\ n \in 1..n /\ items[n] \in Item
  BY DEF ItemsInv
<1>2. CASE input = items
  BY <1>1, <1>2
<1>3. ASSUME NEW j \in 1..n, input = SubSeq(items, j, n) PROVE Goal
  <2>1. Len(input) = n - j + 1 /\ DOMAIN input = 1..Len(input) /\ Len(input) \in Nat  BY <1>1, <1>3
  <2>2. ASSUME NEW i \in 1..Len(input) PROVE \E k \in 1..n : input[i] = items[k]
    <3>1. input[i] = items[j + i - 1] /\ j + i - 1 \in 1..n  BY <1>1, <1>3, <2>1
    <3> QED  BY <3>1
  <2> QED  BY <2>1, <2>2
<1>4. ASSUME NEW x \in Item, input = Append(items, x), Extra(x) PROVE Goal
  <2>1. /\ Len(input) = n + 1 /\ DOMAIN input = 1..Len(input) /\ Len(input) \in Nat
        /\ input[n + 1] = x /\ \A i \in 1..n : input[i] = items[i]
    BY <1>1, <1>4
  <2>2. Strange(x) \/ x = items[n]  BY <1>4 DEF Extra, Strange
  <2>3. ASSUME NEW i \in 1..Len(input)
        PROVE  (\E k \in 1..n : input[i] = items[k]) \/ Strange(input[i])
    <3>1. CASE i = n + 1  BY <1>1, <2>1, <2>2, <3>1
    <3>2. CASE i # n + 1
      <4>1. i \in 1..n  BY <1>1, <2>1, <3>2
      <4> QED  BY <2>1, <4>1
    <3> QED  BY <3>1, <3>2
  <2> QED  BY <2>1, <2>3
<1>5. CASE input = <<items[n]>>
  <2>1. Len(input) = 1 /\ DOMAIN input = 1..1 /\ input[1] = items[n]  BY <1>1, <1>5
  <2>2. \A i \in 1..1 : i = 1  OBVIOUS
  <2> QED  BY <1>1, <2>1, <2>2
<1>6. CASE input = SubSeq(items, 1, n - 1)
  <2> DEFINE m == n - 1
  <2>1. m \in Nat /\ m <= n  BY <1>1
  <2>2. input = SubSeq(items, 1, m)  BY <1>6
  <2> HIDE DEF m
  <2>3. Len(input) = m /\ DOMAIN input = 1..m /\ \A i \in 1..m : input[i] = items[i]
    BY <1>1, <2>1, <2>2
  <2>4. \A i \in 1..m : i \in 1..n  BY <1>1, <2>1
  <2> QED  BY <2>1, <2>3, <2>4
<1>7. \/ input = items
      \/ \E j \in 1..n : input = SubSeq(items, j, n)
      \/ \E x \in Item : input = Append(items, x) /\ Extra(x)
      \/ input = <<items[n]>>
      \/ input = SubSeq(items, 1, n - 1)
  BY InputKinds
<1> QED  BY <1>2, <1>3, <1>4, <1>5, <1>6, <1>7

\* An honest request: the whole conversation, or the end of it.
LEMMA HonestKinds ==
    ASSUME ItemsInv, NEW input \in HonestInputs
    PROVE  /\ ~OpenCall
           /\ \/ input = items
              \/ \E j \in 1..Len(items) :
                    /\ input = SubSeq(items, j, Len(items))
                    /\ \A k \in j..Len(items) : items[k].kind # "call"
                    /\ (row.pending # NoCall) = \E k \in j..Len(items) : items[k].kind = "result"
<1>1. ~OpenCall  BY DEF HonestInputs
<1>2. DOMAIN items = 1..Len(items)  BY DEF ItemsInv
<1>3. ASSUME input # items
      PROVE  \E j \in DOMAIN items :
                /\ input = SubSeq(items, j, Len(items))
                /\ \A k \in j..Len(items) : items[k].kind # "call"
                /\ (row.pending # NoCall) = \E k \in j..Len(items) : IsResult(items[k])
  BY <1>3 DEF HonestInputs
<1> QED  BY <1>1, <1>2, <1>3 DEF IsResult

\* Without a pending call an honest request holds complete pairs.
LEMMA PairsFit ==
    ASSUME ItemsInv, row.pending = NoCall, NEW input \in HonestInputs
    PROVE  \/ \A i \in DOMAIN input : ~IsResult(input[i])
           \/ OutputsFit(row, input)
<1> DEFINE n == Len(items)
<1>1. items \in Seq(Item) /\ n \in Nat /\ DOMAIN items = 1..n
  BY DEF ItemsInv
<1>2. CASE input = items
  <2>1. ASSUME NEW i \in 1..n, items[i].kind = "result"
        PROVE  \E j \in 1..(i - 1) : items[j].kind = "call" /\ items[j].id = items[i].id
    <3>1. i > 1 /\ items[i - 1].kind = "call" /\ items[i].id = i - 1  BY <2>1 DEF ItemsInv
    <3>2. i - 1 \in 1..n /\ i - 1 \in 1..(i - 1)  BY <1>1, <3>1
    <3>3. items[i - 1].id = i - 1  BY <3>1, <3>2 DEF ItemsInv
    <3> QED  BY <3>1, <3>2, <3>3
  <2>2. OutputsFit(row, items)  BY <1>1, <2>1 DEF OutputsFit, IsResult
  <2> QED  BY <1>2, <2>2
<1>3. ASSUME NEW j \in 1..n, input = SubSeq(items, j, n),
             (row.pending # NoCall) = \E k \in j..n : items[k].kind = "result"
      PROVE  \A i \in DOMAIN input : ~IsResult(input[i])
  <2>1. \A k \in j..n : items[k].kind # "result"  BY <1>3
  <2>2. ASSUME NEW i \in DOMAIN input PROVE ~IsResult(input[i])
    <3>1. input[i] = items[j + i - 1] /\ j + i - 1 \in j..n  BY <1>1, <1>3
    <3> QED  BY <2>1, <3>1 DEF IsResult
  <2> QED  BY <2>2
<1> QED  BY <1>2, <1>3, HonestKinds

\* A ledger the preflight lets through has nothing to recover.
LEMMA NothingToRecover ==
    ASSUME NEW l, ~Blocked(l)
    PROVE  Recoverable(l) = {} /\ l.pending = {}
BY DEF Blocked, Recoverable

LEMMA AnsweredRowRequest ==
    ASSUME ItemsInv, RanInv, mark \in 0..Len(ran), mode = "chain", ~Whole, row.pending = NoCall,
           items[Len(items)].kind = "user", Covers(row.snapshot, Evidence(Scope)),
           NEW input \in Inputs, NEW l, l = ParseToolLedger(row, ActiveInput(row, input))
    PROVE  /\ Blocked(l) \/ (~OpenCall /\ Knows(l))
           /\ input \in HonestInputs => ~Blocked(l)
<1> DEFINE n == Len(items)  R == AddCompletedSnapshots(row.snapshot)
           act == SubSeq(items, n + 1, n)
<1>1. items \in Seq(Item) /\ n \in Nat /\ n > 0 /\ n \in 1..n
  BY DEF ItemsInv
<1>2. Asked(n)
  BY <1>1 DEF Asked
<1>3. act = <<>>
  BY <1>1
<1>4. Rebuilt(R) /\ Mirrors(R.completed, Evidence(Covered))
  BY CoveredIs DEF Covers
<1>5. l = AddItems(R, ActiveItems(input))
  BY DEF ParseToolLedger, ActiveInput
<1> HIDE DEF R
<1>6. R \in LedgerRec /\ R.pending = {} /\ R.issues = {} /\ Aligned(R)
  BY <1>4 DEF Rebuilt
<1>7. ~OpenCall
  BY DEF OpenCall, Last
<1>8. Reports(R)
  BY DEF Reports
<1>9. ASSUME ActiveItems(input) = <<>> PROVE l = R /\ ~Blocked(l) /\ Knows(l)
  <2>1. l = R  BY <1>5, <1>9, ItemsStep
  <2>2. ~Blocked(R)  BY <1>6 DEF Blocked
  <2> QED  BY <1>4, <1>6, <1>8, <2>1, <2>2 DEF Knows
<1>10. ASSUME NEW x \in Item, ActiveItems(input) = <<x>>, x.kind # "user" PROVE Blocked(l)
  <2>1. l = AddItem(R, x)  BY <1>5, <1>10, OneItem
  <2>2. /\ x.kind = "call" \/ x.kind = "result"
        /\ x.kind = "call" => x.id \in Nat /\ x.print \in Prints
        /\ x.kind = "result" => x.id \in Nat
    BY <1>10, ItemFields
  <2>3. CASE x.kind = "call"
    <3>1. l = RegisterCall(R, x.id, x.print)  BY <2>1, <2>3, AddedItem
    <3> QED  BY <1>6, <2>2, <2>3, <3>1, RegisterBlocked
  <2>4. CASE x.kind = "result"
    <3>1. l = ConsumeResult(R, x.id, x.outcome)  BY <2>1, <2>4, AddedItem
    <3> QED  BY <1>6, <2>2, <2>4, <3>1, ConsumeBlocked
  <2> QED  BY <2>2, <2>3, <2>4
<1>11. Blocked(l) \/ Knows(l)
  <2>1. \/ ActiveItems(input) = act
        \/ \E x \in Item : ActiveItems(input) = Append(act, x) /\ x.kind # "user"
        \/ ActiveItems(input) = <<items[n]>> /\ items[n].kind # "user"
        \/ ActiveItems(input) = SubSeq(items, n + 1, n - 1) /\ items[n].kind = "result"
    BY <1>2, ActiveCases
  <2>2. \A x : Append(<<>>, x) = <<x>>  OBVIOUS
  <2> HIDE DEF act
  <2>3. \/ ActiveItems(input) = <<>>
        \/ \E x \in Item : ActiveItems(input) = <<x>> /\ x.kind # "user"
    BY <1>3, <2>1, <2>2
  <2> QED  BY <1>9, <1>10, <2>3
<1>12. ASSUME input \in HonestInputs PROVE ~Blocked(l)
  <2>1. ActiveItems(input) = act  BY <1>2, <1>12, HonestActive
  <2> QED  BY <1>3, <1>9, <2>1
<1> QED  BY <1>7, <1>11, <1>12

\* The row waits for the result of the call at c.
Waits(c) ==
    /\ c \in 1..Len(items) /\ items[c].kind = "call"
    /\ row.pending = [id |-> c, print |-> items[c].print]
    /\ \A j \in (c + 1)..Len(items) : items[j].kind # "call"

\* Only that result can answer it.
LEMMA ActiveAnswer ==
    ASSUME ItemsInv, ~Whole, NEW c, Waits(c), NEW input \in Inputs
    PROVE  /\ row.pending # NoCall
           /\ \/ ActiveInput(row, input) = <<>> /\ ~\E i \in DOMAIN input : input[i].kind = "result" /\ input[i].id = c
              \/ /\ c + 1 \in 1..Len(items) /\ items[c + 1].kind = "result" /\ items[c + 1].id = c
                 /\ ActiveInput(row, input) = <<items[c + 1]>>
<1> DEFINE M == {i \in DOMAIN input : IsResult(input[i]) /\ input[i].id = row.pending.id}
<1>1. row.pending.id = c /\ c \in Nat /\ c # 0 /\ c <= MaxItems /\ Len(items) \in Nat /\ MaxItems \in Nat
  BY LedgerAssumption, SMTT(30) DEF Waits, ItemsInv
<1>2. row.pending # NoCall
  BY <1>1 DEF NoCall
<1>3. ActiveInput(row, input) = IF M = {} THEN <<>> ELSE <<input[Min(M)]>>
  BY <1>2 DEF ActiveInput
<1>4. M = {i \in DOMAIN input : input[i].kind = "result" /\ input[i].id = c}
  BY <1>1 DEF IsResult
<1>5. /\ Len(input) \in Nat /\ DOMAIN input = 1..Len(input)
      /\ \A i \in 1..Len(input) : (\E k \in 1..Len(items) : input[i] = items[k]) \/ Strange(input[i])
  BY InputElements
<1> HIDE DEF M
<1>6. CASE M = {}
  BY <1>2, <1>3, <1>4, <1>6
<1>7. CASE M # {}
  <2>1. M \subseteq Nat  BY <1>4, <1>5
  <2>2. \E m \in M : \A y \in M : m <= y  BY <1>7, <2>1, LeastNat
  <2>3. Min(M) \in M  BY <2>2 DEF Min
  <2> DEFINE m == Min(M)
  <2> HIDE DEF m
  <2>4. m \in 1..Len(input) /\ input[m].kind = "result" /\ input[m].id = c  BY <1>4, <1>5, <2>3 DEF m
  <2>5. ~Strange(input[m])  BY <1>1, <2>4 DEF Strange
  <2>6. PICK k \in 1..Len(items) : input[m] = items[k]  BY <1>5, <2>4, <2>5
  <2>7. k > 1 /\ items[k].id = k - 1 /\ items[k].kind = "result"  BY <2>4, <2>6 DEF ItemsInv
  <2>8. k = c + 1  BY <1>1, <2>4, <2>6, <2>7
  <2> QED  BY <1>2, <1>3, <1>7, <2>4, <2>6, <2>8 DEF m
<1> QED  BY <1>6, <1>7

\* What was executed before the last execution of the scope.
Past == SubSeq(ran, mark + 1, Len(ran) - 1)

LEMMA EvidenceAppend ==
    ASSUME NEW s \in Seq(RunRec), NEW x \in RunRec
    PROVE  Evidence(Append(s, x)) = Append(Evidence(s), Entry(x))
<1> DEFINE t == Append(s, x)  A == Evidence(t)  e == Evidence(s)  y == Entry(x)  B == Append(e, y)
           n == Len(s) + 1
<1>1. /\ t \in Seq(RunRec) /\ Len(t) = n /\ Len(s) \in Nat /\ t[n] = x
      /\ \A i \in 1..Len(s) : t[i] = s[i]
  BY AppendedAt
<1> HIDE DEF t
<1>2. A \in Seq(Evid) /\ Len(A) = Len(t) /\ \A i \in 1..Len(t) : A[i] = Entry(t[i])
  BY <1>1, EvidenceFields
<1>3. e \in Seq(Evid) /\ Len(e) = Len(s) /\ \A i \in 1..Len(s) : e[i] = Entry(s[i])
  BY EvidenceFields
<1>4. y \in Evid
  BY EntryType
<1> HIDE DEF A, e, y
<1>5. /\ B \in Seq(Evid) /\ Len(B) = Len(e) + 1 /\ B[Len(e) + 1] = y
      /\ \A i \in 1..Len(e) : B[i] = e[i]
  BY <1>3, <1>4, AppendedAt
<1> HIDE DEF B
<1>6. ASSUME NEW i \in 1..n PROVE A[i] = B[i]
  <2>1. CASE i = n  BY <1>1, <1>2, <1>3, <1>5, <2>1 DEF y
  <2>2. CASE i # n
    <3>1. i \in 1..Len(s) /\ i \in 1..Len(t)  BY <1>1, <2>2
    <3> QED  BY <1>1, <1>2, <1>3, <1>5, <3>1
  <2> QED  BY <2>1, <2>2
<1>7. A \in Seq(Evid) /\ B \in Seq(Evid) /\ Len(A) = Len(B) /\ \A i \in 1..Len(A) : A[i] = B[i]
  BY <1>1, <1>2, <1>3, <1>5, <1>6
<1>8. A = B  BY ONLY <1>7
<1> QED  BY <1>8 DEF A, B, t, e, y

LEMMA PastFields ==
    ASSUME RanInv, mark \in 0..Len(ran), mark < Len(ran)
    PROVE  /\ Past \in Seq(RunRec) /\ Len(Past) = Len(ran) - mark - 1 /\ Len(Past) \in Nat
           /\ ran[Len(ran)] \in RunRec
           /\ Scope = Append(Past, ran[Len(ran)])
           /\ Evidence(Scope) = Append(Evidence(Past), Entry(ran[Len(ran)]))
<1> DEFINE n == Len(ran)  k == n - 1  x == ran[n]  B == Append(Past, x)
<1>1. ran \in Seq(RunRec) /\ n \in Nat /\ mark \in Nat /\ mark + 1 <= n
  BY DEF RanInv
<1>2. k \in Nat /\ mark <= k /\ k <= n /\ k + 1 = n /\ x \in RunRec
  BY <1>1
<1>3. Past = SubSeq(ran, mark + 1, k)
  BY DEF Past
<1> HIDE DEF k, x
<1>4. Past \in Seq(RunRec) /\ Len(Past) = k - mark
  BY <1>1, <1>2, <1>3
<1>5. \A i \in 1..(k - mark) : Past[i] = ran[mark + i]
  <2>1. \A i \in 1..(k - mark) : Past[i] = ran[(mark + 1) + i - 1]  BY <1>1, <1>2, <1>3
  <2>2. \A i \in 1..(k - mark) : (mark + 1) + i - 1 = mark + i  BY <1>1, <1>2
  <2> QED  BY <2>1, <2>2
<1>6. Scope \in Seq(RunRec) /\ Len(Scope) = n - mark /\ \A i \in 1..(n - mark) : Scope[i] = ran[mark + i]
  <2>1. Scope = RanAfter(mark)  BY DEF Scope, RanAfter
  <2> QED  BY <2>1, TailFields
<1>7. /\ B \in Seq(RunRec) /\ Len(B) = Len(Past) + 1 /\ B[Len(Past) + 1] = x
      /\ \A i \in 1..Len(Past) : B[i] = Past[i]
  BY <1>2, <1>4, AppendedAt
<1> HIDE DEF B
<1>8. ASSUME NEW i \in 1..(n - mark) PROVE Scope[i] = B[i]
  <2>1. CASE i = n - mark
    <3>1. mark + i = n /\ i = Len(Past) + 1  BY <1>1, <1>2, <1>4, <2>1
    <3> QED  BY <1>6, <1>7, <3>1 DEF x
  <2>2. CASE i # n - mark
    <3>1. i \in 1..(k - mark)  BY <1>1, <1>2, <2>2
    <3> QED  BY <1>4, <1>5, <1>6, <1>7, <3>1
  <2> QED  BY <2>1, <2>2
<1>9. Scope \in Seq(RunRec) /\ B \in Seq(RunRec) /\ Len(Scope) = Len(B) /\ \A i \in 1..Len(Scope) : Scope[i] = B[i]
  BY <1>1, <1>2, <1>4, <1>6, <1>7, <1>8
<1>10. Scope = B  BY ONLY <1>9
<1>11. Evidence(Scope) = Append(Evidence(Past), Entry(x))
  BY <1>2, <1>4, <1>10, EvidenceAppend DEF B
<1>12. Len(Past) = n - mark - 1 /\ Len(Past) \in Nat  BY <1>1, <1>2, <1>4
<1> QED  BY <1>2, <1>4, <1>10, <1>11, <1>12 DEF B, x

\* The failures of the scope are those its evidence shows.
LEMMA FailuresShown ==
    ASSUME RanInv, mark \in 0..Len(ran), NEW p \in Prints
    PROVE  FailuresOf(p) = Ways(Evidence(Scope), p)
<1> DEFINE e == Evidence(Scope)
<1>1. Scope \in Seq(RunRec)
  <2>1. Scope = RanAfter(mark)  BY DEF Scope, RanAfter
  <2> QED  BY <2>1, TailFields
<1>2. /\ e \in Seq(Evid) /\ DOMAIN e = DOMAIN Scope
      /\ \A i \in DOMAIN Scope : e[i] = Entry(Scope[i]) /\ Scope[i] \in RunRec
  BY <1>1, EvidenceFields
<1>3. NoFailure \notin Failures  BY LedgerAssumption
<1> HIDE DEF e
<1>4. ASSUME NEW f \in FailuresOf(p) PROVE f \in Ways(e, p)
  <2>1. PICK i \in DOMAIN Scope : Scope[i].print = p /\ Scope[i].outcome = f /\ f \in Failures
    BY <1>4 DEF FailuresOf, FailedAt
  <2>2. e[i].print = p /\ e[i].failure = f  BY <1>2, <2>1, EntryType
  <2>3. i \in At(e, p)  BY <1>2, <2>2 DEF At
  <2> QED  BY <1>3, <2>1, <2>2, <2>3 DEF Ways
<1>5. ASSUME NEW f \in Ways(e, p) PROVE f \in FailuresOf(p)
  <2>1. PICK i \in At(e, p) : e[i].failure = f  BY <1>5 DEF Ways
  <2>2. f # NoFailure  BY <1>5 DEF Ways
  <2>3. i \in DOMAIN Scope /\ e[i].print = p  BY <1>2, <2>1 DEF At
  <2>4. Scope[i].outcome \in Failures /\ Scope[i].outcome = f /\ Scope[i].print = p
    BY <1>2, <2>1, <2>2, <2>3, EntryType
  <2> QED  BY <2>3, <2>4 DEF FailuresOf, FailedAt
<1> QED  BY <1>4, <1>5 DEF e

\* The execution of the call at c is the last one, and the snapshot is of what
\* was executed before it.
Executed(c) ==
    /\ mark < Len(ran) /\ ran[Len(ran)].call = c
    /\ Covers(row.snapshot, Evidence(Past))

\* The limits of a bounded scope are not met by its last execution.
LEMMA LastWelcome ==
    ASSUME RanInv, mark \in 0..Len(ran), mark < Len(ran), WithinLimits(Scope),
           NEW R, Rebuilt(R), Mirrors(R.completed, Evidence(Past)),
           NEW p \in Prints, p = ran[Len(ran)].print
    PROVE  Welcome(R, p)
<1> DEFINE x == ran[Len(ran)]
<1>1. Past \in Seq(RunRec) /\ x \in RunRec /\ Scope = Append(Past, x) /\ Len(Past) \in Nat
  BY PastFields
<1>2. {MaxToolRounds, MaxConsecutive, MaxOccurrences} \subseteq Nat \ {0}
  BY LedgerAssumption
<1> HIDE DEF x
<1>3. Times(Scope, p) = Times(Past, p) + 1
  BY <1>1, TimesAppend DEF x
<1>4. Len(Scope) = Len(Past) + 1
  BY <1>1
<1> DEFINE e == Evidence(Past)
<1>5. /\ e \in Seq(Evid) /\ Len(e) = Len(Past)
      /\ \A i \in 1..Len(Past) : e[i].print = Past[i].print
  BY <1>1, EvidenceFields
<1>6. Times(R.completed, p) = Times(e, p) /\ Len(R.completed) = Len(e)
  BY DEF Mirrors, SameTimes
<1> HIDE DEF e
<1>7. Times(e, p) = Times(Past, p)
  BY <1>1, <1>5, TimesSame
<1>8. Times(Past, p) \in Nat
  BY <1>1, AtFinite
<1>9. Times(Scope, p) <= MaxOccurrences /\ Len(Scope) <= MaxToolRounds
  BY DEF WithinLimits
<1>10. Times(R.completed, p) < MaxOccurrences
  BY <1>2, <1>3, <1>6, <1>7, <1>8, <1>9
<1>11. PendingPrints(R) = {} /\ R.run = 0 /\ Len(R.calls) = Len(R.completed)
  BY DEF PendingPrints, Rebuilt, Aligned
<1>12. Len(R.calls) + 1 <= MaxToolRounds
  BY <1>1, <1>2, <1>4, <1>5, <1>6, <1>9, <1>11
<1>13. R.run + 1 <= MaxConsecutive
  BY <1>2, <1>11
<1> QED  BY <1>10, <1>11, <1>12, <1>13 DEF Welcome

\* The pending call and its result, on top of the snapshot.
LEMMA ResultKnown ==
    ASSUME ItemsInv, RanInv, mark \in 0..Len(ran), mode = "chain", ~Whole, NEW c, Waits(c), Executed(c),
           WithinLimits(Scope), NEW l,
           l = ConsumeResult(RegisterCall(AddCompletedSnapshots(row.snapshot), c, items[c].print),
                             c, items[c + 1].outcome)
    PROVE  Knows(l) /\ ~Blocked(l)
<1> DEFINE R == AddCompletedSnapshots(row.snapshot)  p == items[c].print  o == items[c + 1].outcome
           x == ran[Len(ran)]  T == RegisterCall(R, c, p)
<1>1. Rebuilt(R) /\ Mirrors(R.completed, Evidence(Past)) /\ mark < Len(ran) /\ x.call = c
  BY DEF Executed, Covers
<1>2. /\ Past \in Seq(RunRec) /\ x \in RunRec /\ Scope = Append(Past, x)
      /\ Evidence(Scope) = Append(Evidence(Past), Entry(x))
  BY <1>1, PastFields
<1>3. Len(ran) \in 1..Len(ran)
  BY <1>1 DEF RanInv
<1>4. x.print = p /\ x.outcome = o /\ p \in Prints /\ o \in Outcomes
  <2>1. x.print = p /\ x.outcome = o  BY <1>1, <1>3 DEF RanInv
  <2> QED  BY <1>2, <2>1 DEF RunRec
<1>5. c \in Nat /\ c # 0
  BY DEF Waits, ItemsInv
<1>6. l = ConsumeResult(T, c, o)
  OBVIOUS
<1> HIDE DEF R, p, o, x, T
<1>7. /\ R \in LedgerRec /\ R.pending = {} /\ R.issues = {} /\ R.consumed \subseteq {0} /\ Aligned(R)
      /\ \A i \in DOMAIN R.calls : R.calls[i].id = 0
      /\ \A q \in Prints : \A f \in Ways(R.completed, q) : <<q, f>> \in R.signatures
  BY <1>1 DEF Rebuilt
<1>8. Welcome(R, p)
  BY <1>1, <1>4, LastWelcome DEF x
<1>9. Registered(T, R, c, p)
  BY <1>4, <1>5, <1>7, RegisterNew DEF T
<1>10. /\ T \in LedgerRec /\ T.pending = {c} /\ T.consumed = R.consumed
       /\ T.completed = R.completed /\ T.signatures = R.signatures /\ T.issues = {}
       /\ T.calls = Append(R.calls, [id |-> c, print |-> p])
  BY <1>7, <1>8, <1>9 DEF Registered
<1> DEFINE k == [id |-> c, print |-> p]  n == Len(R.calls) + 1
<1>11. k \in CallRec /\ k.id = c /\ k.print = p
  BY <1>4, <1>5 DEF CallRec
<1> HIDE DEF k
<1>12. /\ T.calls \in Seq(CallRec) /\ DOMAIN T.calls = 1..n /\ T.calls[n] = k /\ Len(T.calls) = n
       /\ DOMAIN R.calls = 1..Len(R.calls) /\ Len(R.calls) \in Nat
       /\ \A i \in 1..Len(R.calls) : T.calls[i] = R.calls[i]
  <2>1. R.calls \in Seq(CallRec)  BY <1>7 DEF LedgerRec
  <2>2. T.calls = Append(R.calls, k)  BY <1>10 DEF k
  <2> QED  BY <1>11, <2>1, <2>2, AppendedAt
<1>13. n \in DOMAIN T.calls /\ T.calls[n].id = c
  BY <1>11, <1>12
<1>14. ASSUME NEW i \in DOMAIN T.calls, T.calls[i].id = c PROVE T.calls[i].print = p
  <2>1. CASE i = n  BY <1>11, <1>12, <2>1
  <2>2. CASE i # n
    <3>1. i \in 1..Len(R.calls)  BY <1>12, <2>2
    <3> QED  BY <1>5, <1>7, <1>12, <1>14, <3>1
  <2> QED  BY <2>1, <2>2
<1>15. c \in T.pending /\ c \notin T.consumed
  BY <1>5, <1>7, <1>10
<1>16. Consumed(ConsumeResult(T, c, o), T, c, p, o)
  BY <1>4, <1>10, <1>13, <1>14, <1>15, ConsumePending
<1> DEFINE y == [call |-> c, print |-> p, outcome |-> o]
<1>17. /\ l \in LedgerRec /\ l.calls = T.calls /\ l.pending = {}
       /\ l.completed = Append(R.completed, Entry(y))
       /\ l.issues = Again(R.signatures, c, p, o)
  BY <1>6, <1>10, <1>16 DEF Consumed
<1>18. Entry(y) = Entry(x)
  BY <1>4 DEF Entry
<1>19. ~Blocked(l)
  BY <1>17 DEF Blocked, Again
<1>20. R.completed \in Seq(Evid) /\ Entry(x) \in Evid /\ Entry(x).print = p
  BY <1>2, <1>4, <1>7, EntryType DEF LedgerRec
<1>21. Mirrors(l.completed, Evidence(Covered))
  <2>1. Evidence(Past) \in Seq(Evid)  BY <1>2, EvidenceFields
  <2> DEFINE e == Entry(x)
  <2> HIDE DEF e
  <2>2. e \in Evid  BY <1>20 DEF e
  <2>3. Mirrors(Append(R.completed, e), Append(Evidence(Past), e))
    BY <1>1, <1>20, <2>1, <2>2, MirrorsAppend
  <2>4. Covered = Scope  BY CoveredIs
  <2> QED  BY <1>2, <1>17, <1>18, <2>3, <2>4 DEF e
<1>22. Aligned(l)
  <2> DEFINE C == l.completed  d == R.completed  e == Entry(x)
  <2>1. C = Append(d, e)  BY <1>17, <1>18
  <2>2. d \in Seq(Evid) /\ e \in Evid /\ e.print = p  BY <1>20
  <2> HIDE DEF C, d, e
  <2>3. /\ Len(C) = Len(d) + 1 /\ C[Len(d) + 1] = e /\ \A i \in 1..Len(d) : C[i] = d[i]
    BY <2>1, <2>2, AppendedAt
  <2>4. Len(d) = Len(R.calls) /\ \A i \in 1..Len(R.calls) : R.calls[i].print = d[i].print
    BY <1>7, <1>12 DEF Aligned, d
  <2>5. ASSUME NEW i \in 1..n PROVE T.calls[i].print = C[i].print
    <3>1. CASE i = n  BY <1>11, <1>12, <2>2, <2>3, <2>4, <3>1
    <3>2. CASE i # n
      <4>1. i \in 1..Len(R.calls)  BY <1>12, <3>2
      <4> QED  BY <1>12, <2>3, <2>4, <4>1
    <3> QED  BY <3>1, <3>2
  <2> QED  BY <1>12, <1>17, <2>3, <2>4, <2>5 DEF Aligned, C
<1>23. Reports(l)
  <2>1. ASSUME NEW q \in Prints, NEW f \in Failures, FailedAt(q, f, Len(Scope)),
               Cardinality(FailuresOf(q)) <= FailureMemory,
               NEW j \in 1..(Len(Scope) - 1), FailedAt(q, f, j)
        PROVE  \E z \in l.issues : z.code = "repeated_failure" /\ z.print = q
    <3>1. /\ Len(Scope) = Len(Past) + 1 /\ Scope[Len(Scope)] = x /\ Len(Past) \in Nat
          /\ \A i \in 1..Len(Past) : Scope[i] = Past[i] /\ Scope \in Seq(RunRec)
      BY <1>2, AppendedAt
    <3>2. q = p /\ f = o  BY <1>4, <2>1, <3>1 DEF FailedAt
    <3>3. j \in 1..Len(Past) /\ Past[j].print = q /\ Past[j].outcome = f /\ Past[j] \in RunRec
      BY <1>2, <2>1, <3>1 DEF FailedAt
    <3> DEFINE e == Evidence(Past)
    <3>4. e \in Seq(Evid) /\ DOMAIN e = 1..Len(Past) /\ e[j] = Entry(Past[j])
      BY <1>2, <3>3, EvidenceFields
    <3> HIDE DEF e
    <3>5. e[j].print = q /\ e[j].failure = f  BY <3>3, <3>4, EntryType
    <3>6. f \in Ways(e, q)
      <4>1. j \in At(e, q)  BY <3>3, <3>4, <3>5 DEF At
      <4>2. f # NoFailure  BY LedgerAssumption
      <4> QED  BY <3>5, <4>1, <4>2 DEF Ways
    <3>7. Ways(e, q) \subseteq Ways(Evidence(Scope), q)
      <4> DEFINE v == Entry(x)
      <4>1. v \in Evid /\ Evidence(Scope) = Append(e, v)  BY <1>2, <1>20 DEF e
      <4> HIDE DEF v
      <4> QED  BY <3>4, <4>1, WaysAppend
    <3>8. FailuresOf(q) = Ways(Evidence(Scope), q)  BY FailuresShown
    <3>9. IsFiniteSet(Ways(Evidence(Scope), q))
      <4>1. Evidence(Scope) \in Seq(Evid)  BY <3>1, EvidenceFields
      <4> QED  BY <4>1, WaysFinite
    <3>10. Cardinality(Ways(e, q)) <= Cardinality(Ways(Evidence(Scope), q))
      BY <3>7, <3>9, FS_Subset
    <3>11. /\ Cardinality(Ways(e, q)) \in Nat /\ Cardinality(Ways(Evidence(Scope), q)) \in Nat
           /\ FailureMemory \in Nat
      <4>1. IsFiniteSet(Ways(e, q))  BY <3>7, <3>9, FS_Subset
      <4> QED  BY <3>9, <4>1, FS_CardinalityType, LedgerAssumption
    <3>12. Cardinality(Ways(e, q)) <= FailureMemory  BY <2>1, <3>8, <3>10, <3>11
    <3>13. Ways(R.completed, q) = Ways(e, q)  BY <1>1, <3>12 DEF e, Mirrors, KeepsWays
    <3>14. <<p, o>> \in R.signatures  BY <1>7, <3>2, <3>6, <3>13
    <3> DEFINE z == [code |-> "repeated_failure", id |-> c, print |-> p]
    <3>15. z \in l.issues  BY <1>17, <2>1, <3>2, <3>14 DEF Again
    <3>16. z.code = "repeated_failure" /\ z.print = q  BY <3>2
    <3> HIDE DEF z
    <3> QED  BY <3>15, <3>16
  <2> QED  BY <2>1 DEF Reports
<1> QED  BY <1>17, <1>19, <1>21, <1>22, <1>23 DEF Knows

\* An honest request holds the pending result, once and after all others.
LEMMA AnswerFits ==
    ASSUME ItemsInv, NEW c, Waits(c), c + 1 \in 1..Len(items), items[c + 1].kind = "result",
           NEW input \in HonestInputs
    PROVE  /\ \E i \in DOMAIN input : input[i].kind = "result" /\ input[i].id = c
           /\ OutputsFit(row, input)
<1> DEFINE n == Len(items)
<1>1. /\ items \in Seq(Item) /\ n \in Nat /\ DOMAIN items = 1..n
      /\ row.pending.id = c /\ c \in 1..n /\ row.pending # NoCall
  BY DEF ItemsInv, Waits, NoCall
<1>2. ASSUME NEW i \in 1..n, items[i].kind = "result"
      PROVE  /\ i > 1 /\ i - 1 \in 1..n /\ i <= c + 1 /\ items[i].id = i - 1
             /\ items[i - 1].kind = "call" /\ items[i - 1].id = i - 1
  <2>1. i > 1 /\ items[i - 1].kind = "call" /\ items[i].id = i - 1  BY <1>2 DEF ItemsInv
  <2>2. i - 1 \in 1..n  BY <1>1, <2>1
  <2>3. items[i - 1].id = i - 1  BY <2>1, <2>2 DEF ItemsInv
  <2>4. ~(i - 1 \in (c + 1)..n)  BY <2>1 DEF Waits
  <2> QED  BY <1>1, <2>1, <2>2, <2>3, <2>4
<1>3. items[c + 1].id = c
  BY <1>1, <1>2
<1>4. CASE input = items
  <2> DEFINE results == {i \in DOMAIN input : IsResult(input[i])}
             M == {i \in results : input[i].id = row.pending.id}
  <2>1. \A i \in results : i \in 1..n /\ items[i].kind = "result"  BY <1>1, <1>4 DEF IsResult
  <2>2. c + 1 \in M  BY <1>1, <1>3, <1>4 DEF IsResult
  <2>3. \A i \in M : i = c + 1  BY <1>1, <1>2, <1>4, <2>1
  <2>4. M = {c + 1}  BY <2>2, <2>3
  <2>5. \A i \in results : i # c + 1 => i < c + 1 /\ \E j \in 1..(i - 1) :
            input[j].kind = "call" /\ input[j].id = input[i].id
    <3>1. ASSUME NEW i \in results, i # c + 1
          PROVE  i < c + 1 /\ \E j \in 1..(i - 1) : input[j].kind = "call" /\ input[j].id = input[i].id
      <4>1. /\ i > 1 /\ i <= c + 1 /\ items[i].id = i - 1 /\ i \in 1..n
            /\ items[i - 1].kind = "call" /\ items[i - 1].id = i - 1
        BY <1>2, <2>1
      <4>2. i - 1 \in 1..(i - 1) /\ i < c + 1  BY <1>1, <3>1, <4>1
      <4> QED  BY <1>4, <4>1, <4>2
    <3> QED  BY <3>1
  <2>6. OutputsFit(row, input)  BY <1>1, <2>2, <2>4, <2>5 DEF OutputsFit
  <2> QED  BY <1>1, <1>3, <1>4, <2>6
<1>5. ASSUME NEW j \in 1..n, input = SubSeq(items, j, n),
             \A k \in j..n : items[k].kind # "call",
             (row.pending # NoCall) = \E k \in j..n : items[k].kind = "result"
      PROVE  /\ \E i \in DOMAIN input : input[i].kind = "result" /\ input[i].id = c
             /\ OutputsFit(row, input)
  <2>1. PICK k \in j..n : items[k].kind = "result"  BY <1>1, <1>5
  <2>2. ASSUME NEW i \in j..n, items[i].kind = "result" PROVE i = j
    <3>1. i > 1 /\ items[i - 1].kind = "call" /\ i \in 1..n  BY <1>1, <1>2, <2>2
    <3>2. ~(i - 1 \in j..n)  BY <1>5, <3>1
    <3> QED  BY <1>1, <3>1, <3>2
  <2>3. items[j].kind = "result"  BY <2>1, <2>2
  <2>4. j = c + 1
    <3>1. j > 1 /\ j <= c + 1  BY <1>2, <2>3
    <3>2. ~(c \in j..n)  BY <1>5 DEF Waits
    <3> QED  BY <1>1, <3>1, <3>2
  <2>5. /\ DOMAIN input = 1..(n - j + 1) /\ input[1] = items[j] /\ 1 \in DOMAIN input
        /\ \A i \in DOMAIN input : input[i] = items[j + i - 1] /\ j + i - 1 \in j..n /\ i \in Nat
    BY <1>1, <1>5, SMTT(30)
  <2> DEFINE results == {i \in DOMAIN input : IsResult(input[i])}
             M == {i \in results : input[i].id = row.pending.id}
  <2>6. \A i \in results : i = 1
    <3>1. ASSUME NEW i \in results PROVE i = 1
      <4>1. i \in DOMAIN input /\ items[j + i - 1].kind = "result" /\ j + i - 1 \in j..n /\ i \in Nat
        BY <2>5 DEF IsResult
      <4>2. j + i - 1 = j  BY <2>2, <4>1
      <4> QED  BY <4>1, <4>2
    <3> QED  BY <3>1
  <2>7. 1 \in M  BY <1>1, <1>3, <2>3, <2>4, <2>5 DEF IsResult
  <2>8. M = {1}  BY <2>6, <2>7
  <2>9. OutputsFit(row, input)  BY <1>1, <2>6, <2>7, <2>8 DEF OutputsFit
  <2>10. input[1].kind = "result" /\ input[1].id = c  BY <1>3, <2>3, <2>4, <2>5
  <2> QED  BY <2>5, <2>9, <2>10
<1>6. \/ input = items
      \/ \E j \in 1..n :
            /\ input = SubSeq(items, j, n)
            /\ \A k \in j..n : items[k].kind # "call"
            /\ (row.pending # NoCall) = \E k \in j..n : items[k].kind = "result"
  BY HonestKinds
<1> QED  BY <1>4, <1>5, <1>6

LEMMA CalledRowRequest ==
    ASSUME ItemsInv, RanInv, mark \in 0..Len(ran), mode = "chain", ~Whole, NEW c, Waits(c),
           Rebuilt(AddCompletedSnapshots(row.snapshot)), ~OpenCall => Executed(c), WithinLimits(Course),
           NEW input \in Inputs, NEW l, l = ParseToolLedger(row, ActiveInput(row, input))
    PROVE  /\ Blocked(l) \/ (~OpenCall /\ Knows(l))
           /\ input \in HonestInputs => ~Blocked(l) /\ OutputsFit(row, input)
<1> DEFINE R == AddCompletedSnapshots(row.snapshot)  p == items[c].print  T == RegisterCall(R, c, p)
           v == ActiveInput(row, input)
<1>1. row.pending # NoCall /\ row.pending.id = c /\ row.pending.print = p
  BY ActiveAnswer DEF Waits
<1>2. l = AddItems(T, v)
  BY <1>1 DEF ParseToolLedger
<1>3. c \in 1..Len(items) /\ c \in Nat /\ p \in Prints /\ Len(items) \in Nat
  <2>1. c \in 1..Len(items) /\ items[c].kind = "call"  BY DEF Waits
  <2>2. items[c] \in Item  BY <2>1 DEF ItemsInv
  <2> QED  BY <2>1, <2>2, ItemFields DEF ItemsInv
<1>4. R \in LedgerRec
  BY DEF Rebuilt
<1>5. OpenCall <=> items[Len(items)].kind = "call"
  BY DEF OpenCall, Last
<1> HIDE DEF T, R
<1>6. ASSUME v = <<>> PROVE Blocked(l)
  <2>1. l = T  BY <1>2, <1>6, ItemsStep
  <2> QED  BY <1>3, <1>4, <2>1, RegisterBlocked DEF T
<1>7. ASSUME c + 1 \in 1..Len(items), items[c + 1].kind = "result" PROVE ~OpenCall
  <2>1. c < Len(items) /\ Len(items) \in (c + 1)..Len(items)  BY <1>3, <1>7
  <2> QED  BY <1>5, <2>1 DEF Waits
<1>8. ASSUME v = <<items[c + 1]>>, c + 1 \in 1..Len(items), items[c + 1].kind = "result",
             items[c + 1].id = c
      PROVE  ~OpenCall /\ Knows(l) /\ ~Blocked(l)
  <2>1. l = AddItem(T, items[c + 1])  BY <1>2, <1>8, OneItem
  <2>2. l = ConsumeResult(T, c, items[c + 1].outcome)  BY <1>8, <2>1, AddedItem
  <2>3. ~OpenCall  BY <1>7, <1>8
  <2>4. Course = Scope  BY <2>3 DEF Course
  <2>5. Executed(c) /\ WithinLimits(Scope)  BY <2>3, <2>4
  <2> QED  BY <2>2, <2>3, <2>5, ResultKnown DEF T, R
<1>9. \/ v = <<>> /\ ~\E i \in DOMAIN input : input[i].kind = "result" /\ input[i].id = c
      \/ /\ c + 1 \in 1..Len(items) /\ items[c + 1].kind = "result" /\ items[c + 1].id = c
         /\ v = <<items[c + 1]>>
  BY ActiveAnswer
<1>10. ASSUME input \in HonestInputs PROVE ~Blocked(l) /\ OutputsFit(row, input)
  <2>1. ~OpenCall  BY <1>10, HonestKinds
  <2>2. mark < Len(ran) /\ ran[Len(ran)].call = c  BY <2>1 DEF Executed
  <2>3. Len(ran) \in 1..Len(ran)  BY <2>2 DEF RanInv
  <2>4. c \in 1..(Len(items) - 1) /\ items[c + 1].kind = "result"  BY <2>2, <2>3 DEF RanInv
  <2>5. c + 1 \in 1..Len(items)  BY <1>3, <2>4
  <2>6. /\ \E i \in DOMAIN input : input[i].kind = "result" /\ input[i].id = c
        /\ OutputsFit(row, input)
    BY <1>10, <2>4, <2>5, AnswerFits
  <2> QED  BY <1>8, <1>9, <2>6
<1> QED  BY <1>6, <1>8, <1>9, <1>10

-----------------------------------------------------------------------------
(* The inductive invariant.                                                *)

\* Nothing is saved: the client replays what the request is about.
RowEmpty == row = EmptyRow /\ ~(mode = "chain" /\ session = "started")

\* The row of an answer.
RowAnswered ==
    /\ mode = "chain" /\ session = "started" /\ row.pending = NoCall /\ ~OpenCall
    /\ reply.kind \in {"answer", "prose"} \/ items[Len(items)].kind = "user"
    /\ Covers(row.snapshot, Evidence(Scope))

\* The row of a call, before and after the client executes it.
RowCalled ==
    /\ mode = "chain" /\ session = "started"
    /\ \E c : /\ Waits(c)
              /\ OpenCall => Covers(row.snapshot, Evidence(Scope))
              /\ ~OpenCall => Executed(c)

RowInv == RowEmpty \/ RowAnswered \/ RowCalled

LedgerInv == turn = "gateway" => ~OpenCall /\ reply.kind = "none" /\ Knows(ledger)

TypeInv ==
    /\ mode \in {"chat", "keyed", "chain"} /\ session \in {"new", "started", "lost"}
    /\ turn \in {"client", "gateway"}
    /\ reply \in [kind : {"none", "call", "answer", "prose", "stopped", "refused", "failed", "gone"},
                  claims : SUBSET (Actions \cup {Complete}), honest : BOOLEAN]

HistoryInv ==
    ItemsInv /\ RanInv /\ (mode = "chain" => ~Abandoned) /\ \E u : Since(u)

LedgerProtocol ==
    /\ TypeInv /\ HistoryInv /\ WithinLimits(Course) /\ RowInv /\ LedgerInv
    /\ reply.claims # {} => ~OpenCall
    /\ HonestNotRefused /\ ClaimsBacked

LEMMA HistoryFields ==
    ASSUME HistoryInv
    PROVE  /\ ItemsInv /\ RanInv /\ (mode = "chain" => ~Abandoned) /\ Len(ran) \in Nat
           /\ asked \in 0..Len(ran) /\ mark \in 0..asked /\ mark \in 0..Len(ran)
           /\ since \in 0..mark /\ since \in 0..Len(ran)
<1>1. PICK u : Since(u)
  BY DEF HistoryInv
<1>2. ItemsInv /\ RanInv /\ (mode = "chain" => ~Abandoned) /\ asked \in 0..Len(ran)
  BY <1>1 DEF HistoryInv, Since
<1>3. Len(ran) \in Nat
  BY <1>2 DEF RanInv
<1>4. mark \in 0..asked /\ mark \in 0..Len(ran)
  BY <1>2, <1>3 DEF mark
<1>5. since \in 0..mark /\ since \in 0..Len(ran)
  BY <1>2, <1>4, CoveredIs
<1> QED  BY <1>2, <1>3, <1>4, <1>5

\* One item more.
LEMMA ItemsGrow ==
    ASSUME ItemsInv, NEW x \in Item, items' = Append(items, x),
           x.kind = "call" => x.id = Len(items) + 1 /\ Len(items) < MaxItems /\ ~OpenCall,
           x.kind = "result" => OpenCall /\ x.id = Len(items)
    PROVE  /\ ItemsInv' /\ Len(items') = Len(items) + 1 /\ items'[Len(items) + 1] = x
           /\ Len(items) \in Nat /\ Len(items) > 0
           /\ \A i \in 1..Len(items) : items'[i] = items[i]
           /\ OpenCall' <=> x.kind = "call"
<1> DEFINE n == Len(items)
<1>1. items \in Seq(Item) /\ n \in Nat /\ n > 0 /\ MaxItems \in Nat
  BY LedgerAssumption DEF ItemsInv
<1>2. /\ items' \in Seq(Item) /\ Len(items') = n + 1 /\ items'[n + 1] = x
      /\ \A i \in 1..n : items'[i] = items[i]
  BY <1>1
<1>3. OpenCall <=> items[n].kind = "call"
  BY DEF OpenCall, Last
<1>4. OpenCall' <=> x.kind = "call"
  BY <1>2 DEF OpenCall, Last
<1>5. items'[1].kind = "user"
  BY <1>1, <1>2 DEF ItemsInv
<1>6. ASSUME NEW i \in 1..(n + 1), items'[i].kind = "call"
      PROVE  items'[i].id = i /\ i <= MaxItems /\ (i < n + 1 => items'[i + 1].kind # "call")
  <2>1. CASE i = n + 1  BY <1>1, <1>2, <1>6, <2>1
  <2>2. CASE i = n
    <3>1. items[n].kind = "call" /\ n \in 1..n  BY <1>1, <1>2, <1>6, <2>2
    <3>2. items[n].id = n /\ n <= MaxItems  BY <3>1 DEF ItemsInv
    <3> QED  BY <1>1, <1>2, <1>3, <2>2, <3>1, <3>2
  <2>3. CASE i < n
    <3>1. i \in 1..n /\ i + 1 \in 1..n  BY <1>1, <2>3
    <3>2. items[i].kind = "call"  BY <1>2, <1>6, <3>1
    <3>3. items[i].id = i /\ i <= MaxItems /\ items[i + 1].kind # "call"  BY <2>3, <3>1, <3>2 DEF ItemsInv
    <3> QED  BY <1>2, <3>1, <3>3
  <2> QED  BY <1>1, <2>1, <2>2, <2>3
<1>7. ASSUME NEW i \in 1..(n + 1), items'[i].kind = "result"
      PROVE  i > 1 /\ items'[i - 1].kind = "call" /\ items'[i].id = i - 1
  <2>1. CASE i = n + 1
    <3>1. n \in 1..n  BY <1>1
    <3>2. items'[n].kind = "call" /\ x.id = n  BY <1>2, <1>3, <1>7, <2>1, <3>1
    <3> QED  BY <1>1, <1>2, <2>1, <3>2
  <2>2. CASE i # n + 1
    <3>1. i \in 1..n  BY <1>1, <2>2
    <3>2. items[i].kind = "result"  BY <1>2, <1>7, <3>1
    <3>3. i > 1 /\ items[i - 1].kind = "call" /\ items[i].id = i - 1  BY <3>1, <3>2 DEF ItemsInv
    <3>4. i - 1 \in 1..n  BY <1>1, <3>1, <3>3
    <3> QED  BY <1>2, <3>1, <3>3, <3>4
  <2> QED  BY <2>1, <2>2
<1>8. ItemsInv'
  BY <1>1, <1>2, <1>5, <1>6, <1>7 DEF ItemsInv
<1> QED  BY <1>1, <1>2, <1>4, <1>8

LEMMA AbandonedGrow ==
    ASSUME ItemsInv, NEW x \in Item, items' = Append(items, x)
    PROVE  /\ Abandoned => Abandoned'
           /\ ~(OpenCall /\ x.kind = "user") => (Abandoned' => Abandoned)
<1> DEFINE n == Len(items)
<1>1. items \in Seq(Item) /\ n \in Nat /\ n > 0
  BY DEF ItemsInv
<1>2. /\ Len(items') = n + 1 /\ items'[n + 1] = x /\ \A i \in 1..n : items'[i] = items[i]
  BY <1>1
<1>3. OpenCall <=> items[n].kind = "call"
  BY DEF OpenCall, Last
<1>4. ASSUME Abandoned PROVE Abandoned'
  <2>1. PICK i \in 1..(n - 1) : items[i].kind = "call" /\ items[i + 1].kind = "user"
    BY <1>4 DEF Abandoned, IsUser
  <2>2. i \in 1..n /\ i + 1 \in 1..n /\ i \in 1..(n + 1 - 1)  BY <1>1
  <2>3. items'[i].kind = "call" /\ items'[i + 1].kind = "user"  BY <1>2, <2>1, <2>2
  <2> QED  BY <1>2, <2>2, <2>3 DEF Abandoned, IsUser
<1>5. ASSUME Abandoned', ~(OpenCall /\ x.kind = "user") PROVE Abandoned
  <2>1. PICK i \in 1..(n + 1 - 1) : items'[i].kind = "call" /\ items'[i + 1].kind = "user"
    BY <1>2, <1>5 DEF Abandoned, IsUser
  <2>2. i \in 1..n /\ n \in 1..n  BY <1>1
  <2>3. i # n  BY <1>2, <1>3, <1>5, <2>1, <2>2
  <2>4. i \in 1..(n - 1) /\ i + 1 \in 1..n  BY <1>1, <2>2, <2>3
  <2>5. items[i].kind = "call" /\ items[i + 1].kind = "user"  BY <1>2, <2>1, <2>2, <2>4
  <2> QED  BY <2>4, <2>5 DEF Abandoned, IsUser
<1> QED  BY <1>4, <1>5

\* A message or a call: nothing was executed.
LEMMA RanSame ==
    ASSUME ItemsInv, RanInv, NEW x \in Item, items' = Append(items, x), x.kind # "result",
           ran' = ran
    PROVE  RanInv'
<1> DEFINE n == Len(items)
<1>1. items \in Seq(Item) /\ n \in Nat
  BY DEF ItemsInv
<1>2. /\ Len(items') = n + 1 /\ items'[n + 1] = x /\ \A i \in 1..n : items'[i] = items[i]
  BY <1>1
<1>3. ASSUME NEW k \in 1..Len(ran)
      PROVE  /\ ran[k].call \in 1..(n + 1 - 1)
             /\ items'[ran[k].call].kind = "call" /\ items'[ran[k].call].print = ran[k].print
             /\ items'[ran[k].call + 1].kind = "result"
             /\ items'[ran[k].call + 1].outcome = ran[k].outcome
  <2> DEFINE i == ran[k].call
  <2>1. /\ i \in 1..(n - 1) /\ items[i].kind = "call" /\ items[i].print = ran[k].print
        /\ items[i + 1].kind = "result" /\ items[i + 1].outcome = ran[k].outcome
    BY DEF RanInv
  <2> HIDE DEF i
  <2>2. i \in 1..n /\ i + 1 \in 1..n /\ i \in 1..(n + 1 - 1)  BY <1>1, <2>1
  <2> QED  BY <1>2, <2>1, <2>2 DEF i
<1>4. ASSUME NEW i \in 1..(n + 1), items'[i].kind = "result"
      PROVE  \E k \in 1..Len(ran) : ran[k].call = i - 1
  <2>1. i # n + 1  BY <1>2, <1>4
  <2>2. i \in 1..n  BY <1>1, <2>1
  <2>3. items[i].kind = "result"  BY <1>2, <1>4, <2>2
  <2> QED  BY <2>2, <2>3 DEF RanInv
<1>5. ran \in Seq(RunRec) /\ \A k, m \in 1..Len(ran) : k < m => ran[k].call < ran[m].call
  BY DEF RanInv
<1> QED  BY <1>2, <1>3, <1>4, <1>5, SMTT(30) DEF RanInv

LEMMA RanGrow ==
    ASSUME ItemsInv, RanInv, OpenCall, NEW o \in Outcomes,
           items' = Append(items, Result(Len(items), o)),
           ran' = Append(ran, [call |-> Len(items), print |-> items[Len(items)].print, outcome |-> o])
    PROVE  /\ RanInv' /\ Len(ran') = Len(ran) + 1 /\ Len(ran) \in Nat
           /\ \A k \in 1..Len(ran) : ran'[k] = ran[k]
           /\ ran'[Len(ran) + 1].call = Len(items) /\ ran'[Len(ran) + 1] \in RunRec
           /\ ran'[Len(ran) + 1].print = items[Len(items)].print
           /\ \A k \in 1..Len(ran) : ran[k].call < Len(items)
<1> DEFINE n == Len(items)  m == Len(ran)  x == Result(n, o)
           e == [call |-> n, print |-> items[n].print, outcome |-> o]
<1>1. items \in Seq(Item) /\ n \in Nat /\ n > 0 /\ ran \in Seq(RunRec) /\ m \in Nat /\ n \in 1..n
  BY DEF ItemsInv, RanInv
<1>2. items[n].kind = "call" /\ items[n].print \in Prints
  <2>1. items[n].kind = "call"  BY DEF OpenCall, Last
  <2>2. items[n] \in Item  BY <1>1
  <2> QED  BY <2>1, <2>2, ItemFields
<1>3. x \in Item /\ x.kind = "result" /\ x.outcome = o
  BY <1>1 DEF Item, Result
<1>4. e \in RunRec /\ e.call = n /\ e.print = items[n].print /\ e.outcome = o
  BY <1>1, <1>2 DEF RunRec
<1> HIDE DEF x, e
<1>5. /\ Len(items') = n + 1 /\ items'[n + 1] = x /\ \A i \in 1..n : items'[i] = items[i]
  BY <1>1, <1>3 DEF x
<1>6. /\ ran' \in Seq(RunRec) /\ Len(ran') = m + 1 /\ ran'[m + 1] = e
      /\ \A k \in 1..m : ran'[k] = ran[k]
  <2>1. ran' = Append(ran, e)  BY DEF e
  <2> QED  BY <1>1, <1>4, <2>1
<1>7. ASSUME NEW k \in 1..m PROVE ran[k].call < n /\ ran[k].call \in Nat
  <2>1. ran[k].call \in 1..(n - 1)  BY DEF RanInv
  <2> QED  BY <1>1, <2>1
<1>8. ASSUME NEW k \in 1..(m + 1)
      PROVE  /\ ran'[k].call \in 1..(n + 1 - 1)
             /\ items'[ran'[k].call].kind = "call" /\ items'[ran'[k].call].print = ran'[k].print
             /\ items'[ran'[k].call + 1].kind = "result"
             /\ items'[ran'[k].call + 1].outcome = ran'[k].outcome
  <2>1. CASE k = m + 1
    <3>1. n \in 1..(n + 1 - 1)  BY <1>1
    <3> QED  BY <1>1, <1>2, <1>3, <1>4, <1>5, <1>6, <2>1, <3>1
  <2>2. CASE k # m + 1
    <3> DEFINE i == ran[k].call
    <3>0. k \in 1..m  BY <1>1, <2>2
    <3>1. /\ i \in 1..(n - 1) /\ items[i].kind = "call" /\ items[i].print = ran[k].print
          /\ items[i + 1].kind = "result" /\ items[i + 1].outcome = ran[k].outcome
      BY <3>0 DEF RanInv
    <3> HIDE DEF i
    <3>2. i \in 1..n /\ i + 1 \in 1..n /\ i \in 1..(n + 1 - 1)  BY <1>1, <3>1
    <3>3. ran'[k] = ran[k]  BY <1>6, <3>0
    <3> QED  BY <1>5, <3>1, <3>2, <3>3 DEF i
  <2> QED  BY <2>1, <2>2
<1>9. ASSUME NEW k \in 1..(m + 1), NEW l \in 1..(m + 1), k < l PROVE ran'[k].call < ran'[l].call
  <2>0. k \in 1..m /\ ran'[k] = ran[k]  BY <1>1, <1>6, <1>9
  <2>1. CASE l = m + 1  BY <1>4, <1>6, <1>7, <2>0, <2>1
  <2>2. CASE l # m + 1
    <3>1. l \in 1..m /\ ran'[l] = ran[l]  BY <1>1, <1>6, <2>2
    <3>2. ran[k].call < ran[l].call  BY <1>9, <2>0, <3>1 DEF RanInv
    <3> QED  BY <2>0, <3>1, <3>2
  <2> QED  BY <2>1, <2>2
<1>10. ASSUME NEW i \in 1..(n + 1), items'[i].kind = "result"
       PROVE  \E k \in 1..(m + 1) : ran'[k].call = i - 1
  <2>1. CASE i = n + 1
    <3>1. m + 1 \in 1..(m + 1) /\ i - 1 = n  BY <1>1, <2>1
    <3> QED  BY <1>4, <1>6, <3>1
  <2>2. CASE i # n + 1
    <3>1. i \in 1..n  BY <1>1, <2>2
    <3>2. items[i].kind = "result"  BY <1>5, <1>10, <3>1
    <3>3. PICK k \in 1..m : ran[k].call = i - 1  BY <3>1, <3>2 DEF RanInv
    <3>4. k \in 1..(m + 1) /\ ran'[k] = ran[k]  BY <1>1, <1>6
    <3> QED  BY <3>3, <3>4
  <2> QED  BY <2>1, <2>2
<1>11. RanInv'
  BY <1>5, <1>6, <1>8, <1>9, <1>10, SMTT(30) DEF RanInv
<1> QED  BY <1>1, <1>4, <1>6, <1>7, <1>11

LEMMA SinceUser ==
    ASSUME ItemsInv, RanInv, NEW continues \in BOOLEAN, items' = Append(items, User(continues)),
           ran' = ran, asked' = Len(ran), NEW v, v = Len(items) + 1
    PROVE  Since(v)'
<1> DEFINE x == User(continues)
<1>1. x \in Item /\ x.kind = "user"
  BY DEF Item, User
<1>2. Len(items') = v /\ items'[v] = x /\ ~OpenCall' /\ Len(items) \in Nat
  <2>1. items' = Append(items, x)  OBVIOUS
  <2> HIDE DEF x
  <2> QED  BY <1>1, <2>1, ItemsGrow
<1>3. Len(ran) \in Nat /\ \A k \in 1..Len(ran) : ran[k].call \in 1..(Len(items) - 1)
  BY DEF RanInv
<1>4. \A k \in 1..Len(ran) : k <= Len(ran) <=> ran[k].call < v
  BY <1>2, <1>3
<1>5. v \in 1..v /\ \A j \in (v + 1)..v : FALSE
  BY <1>2
<1>6. v - v = 2 * (Len(ran) - Len(ran)) + 0
  BY <1>2, <1>3
<1> QED  BY <1>1, <1>2, <1>3, <1>4, <1>5, <1>6 DEF Since

LEMMA SinceCall ==
    ASSUME ItemsInv, RanInv, ~OpenCall, NEW u, Since(u), NEW p \in Prints, Len(items) < MaxItems,
           items' = Append(items, Call(Len(items) + 1, p)), ran' = ran, asked' = asked
    PROVE  Since(u)'
<1> DEFINE x == Call(Len(items) + 1, p)  n == Len(items)
<1>1. x \in Item /\ x.kind = "call" /\ x.id = n + 1 /\ n \in Nat
  BY DEF Item, Call, ItemsInv
<1>2. /\ Len(items') = n + 1 /\ items'[n + 1] = x /\ OpenCall'
      /\ \A i \in 1..n : items'[i] = items[i]
  <2>1. items' = Append(items, x)  OBVIOUS
  <2> HIDE DEF x
  <2> QED  BY <1>1, <2>1, ItemsGrow
<1>3. u \in 1..n /\ items[u].kind = "user" /\ \A j \in (u + 1)..n : items[j].kind # "user"
  BY DEF Since
<1>4. \A j \in (u + 1)..(n + 1) : items'[j].kind # "user"
  <2>1. ASSUME NEW j \in (u + 1)..(n + 1) PROVE items'[j].kind # "user"
    <3>1. CASE j = n + 1  BY <1>1, <1>2, <3>1
    <3>2. CASE j # n + 1
      <4>1. j \in (u + 1)..n /\ j \in 1..n  BY <1>1, <1>3, <3>2
      <4> QED  BY <1>2, <1>3, <4>1
    <3> QED  BY <3>1, <3>2
  <2> QED  BY <2>1
<1>5. n - u = 2 * (Len(ran) - asked) + 0 /\ asked \in 0..Len(ran) /\ Len(ran) \in Nat
  BY DEF Since, RanInv
<1>6. n + 1 - u = 2 * (Len(ran) - asked) + 1
  BY <1>1, <1>3, <1>5
<1>7. u \in 1..(n + 1) /\ items'[u].kind = "user"
  BY <1>1, <1>2, <1>3
<1>8. \A k \in 1..Len(ran) : k <= asked <=> ran[k].call < u
  BY DEF Since
<1>9. Len(items') - u = 2 * (Len(ran') - asked') + (IF OpenCall' THEN 1 ELSE 0)
  <2> DEFINE open == IF OpenCall' THEN 1 ELSE 0
  <2>1. open = 1  BY <1>2
  <2> HIDE DEF open
  <2> DEFINE a == Len(items') - u  b == Len(ran') - asked'
  <2>2. a = n + 1 - u /\ b = Len(ran) - asked  BY <1>1, <1>2, <1>3, <1>5
  <2> HIDE DEF a, b
  <2>3. a = 2 * b + open  BY <1>6, <2>1, <2>2
  <2> QED  BY <2>3 DEF open, a, b
<1>10. \A j \in (u + 1)..Len(items') : items'[j].kind # "user"
  BY <1>2, <1>4
<1>11. u \in 1..Len(items')  BY <1>2, <1>7
<1> QED  BY <1>5, <1>7, <1>8, <1>9, <1>10, <1>11 DEF Since

LEMMA SinceResult ==
    ASSUME ItemsInv, RanInv, OpenCall, NEW u, Since(u), NEW o \in Outcomes,
           items' = Append(items, Result(Len(items), o)), asked' = asked,
           ran' = Append(ran, [call |-> Len(items), print |-> items[Len(items)].print, outcome |-> o])
    PROVE  Since(u)'
<1> DEFINE x == Result(Len(items), o)  n == Len(items)  m == Len(ran)
<1>1. x \in Item /\ x.kind = "result" /\ x.id = n /\ n \in Nat
  BY DEF Item, Result, ItemsInv
<1>2. /\ Len(items') = n + 1 /\ items'[n + 1] = x /\ ~OpenCall'
      /\ \A i \in 1..n : items'[i] = items[i]
  <2>1. items' = Append(items, x)  OBVIOUS
  <2> HIDE DEF x
  <2> QED  BY <1>1, <2>1, ItemsGrow
<1>3. u \in 1..n /\ items[u].kind = "user" /\ \A j \in (u + 1)..n : items[j].kind # "user"
  BY DEF Since
<1>4. \A j \in (u + 1)..(n + 1) : items'[j].kind # "user"
  <2>1. ASSUME NEW j \in (u + 1)..(n + 1) PROVE items'[j].kind # "user"
    <3>1. CASE j = n + 1  BY <1>1, <1>2, <3>1
    <3>2. CASE j # n + 1
      <4>1. j \in (u + 1)..n /\ j \in 1..n  BY <1>1, <1>3, <3>2
      <4> QED  BY <1>2, <1>3, <4>1
    <3> QED  BY <3>1, <3>2
  <2> QED  BY <2>1
<1>5. n - u = 2 * (m - asked) + 1 /\ asked \in 0..m /\ m \in Nat
  BY DEF Since, RanInv
<1>6. n + 1 - u = 2 * (m + 1 - asked) /\ asked \in 0..(m + 1)
  <2> DEFINE d == m - asked
  <2>1. d \in Nat /\ m + 1 - asked = d + 1 /\ n - u = 2 * d + 1 /\ u \in Nat  BY <1>3, <1>5
  <2> HIDE DEF d
  <2>2. n + 1 - u = 2 * (d + 1)  BY <1>1, <2>1
  <2>3. m + 1 - asked = d + 1  BY <2>1
  <2>4. n + 1 - u = 2 * (m + 1 - asked)  BY ONLY <2>2, <2>3
  <2> QED  BY <1>5, <2>4
<1>7. u \in 1..(n + 1) /\ items'[u].kind = "user"
  BY <1>1, <1>2, <1>3
<1>8. /\ Len(ran') = m + 1 /\ \A k \in 1..m : ran'[k] = ran[k] /\ ran'[m + 1].call = n
  BY RanGrow
<1>9. ran'[m + 1].call = n  BY RanGrow
<1>10. \A k \in 1..(m + 1) : k <= asked <=> ran'[k].call < u
  <2>1. ASSUME NEW k \in 1..(m + 1) PROVE k <= asked <=> ran'[k].call < u
    <3>1. CASE k = m + 1  BY <1>1, <1>3, <1>5, <1>9, <3>1
    <3>2. CASE k # m + 1
      <4>1. k \in 1..m  BY <1>5, <3>2
      <4> QED  BY <1>8, <4>1 DEF Since
    <3> QED  BY <3>1, <3>2
  <2> QED  BY <2>1
<1>11. Len(items') - u = 2 * (Len(ran') - asked') + (IF OpenCall' THEN 1 ELSE 0)
  <2> DEFINE open == IF OpenCall' THEN 1 ELSE 0
  <2>1. open = 0  BY <1>2
  <2> HIDE DEF open
  <2>2. 2 * (m + 1 - asked) + 0 = 2 * (m + 1 - asked)  BY <1>5
  <2>3. Len(ran') = m + 1 /\ asked' = asked /\ Len(items') = n + 1  BY <1>2, <1>8
  <2>4. n + 1 - u = 2 * (m + 1 - asked)  BY <1>6
  <2> DEFINE a == Len(items') - u  b == Len(ran') - asked'
  <2>5. a = n + 1 - u /\ b = m + 1 - asked  BY <1>1, <1>3, <1>5, <2>3
  <2> HIDE DEF a, b
  <2>6. a = 2 * b + open  BY <2>1, <2>2, <2>4, <2>5
  <2> QED  BY <2>6 DEF open, a, b
<1>12. \A j \in (u + 1)..Len(items') : items'[j].kind # "user"
  BY <1>2, <1>4
<1>13. u \in 1..Len(items') /\ asked \in 0..Len(ran')  BY <1>2, <1>6, <1>7, <1>8
<1>14. \A k \in 1..Len(ran') : k <= asked <=> ran'[k].call < u  BY <1>8, <1>10
<1> QED  BY <1>7, <1>11, <1>12, <1>13, <1>14 DEF Since

\* A part of a bounded course is bounded.
LEMMA BoundedPart ==
    ASSUME NEW s \in Seq(RunRec), NEW t \in Seq(RunRec), NEW d \in Nat, WithinLimits(s),
           d + Len(t) <= Len(s), \A i \in 1..Len(t) : t[i].print = s[d + i].print
    PROVE  WithinLimits(t)
<1>1. /\ Len(s) \in Nat /\ Len(t) \in Nat /\ DOMAIN s = 1..Len(s) /\ DOMAIN t = 1..Len(t)
      /\ MaxToolRounds \in Nat /\ MaxConsecutive \in Nat /\ MaxOccurrences \in Nat
  BY LedgerAssumption
<1>2. Len(t) <= MaxToolRounds
  BY <1>1 DEF WithinLimits
<1>3. ASSUME NEW p \in Prints PROVE Times(t, p) <= MaxOccurrences
  <2>1. Times(t, p) <= Times(s, p)  BY TimesPart
  <2>2. Times(t, p) \in Nat /\ Times(s, p) \in Nat  BY AtFinite
  <2>3. Times(s, p) <= MaxOccurrences  BY DEF WithinLimits
  <2> QED  BY <1>1, <2>1, <2>2, <2>3
<1>4. ASSUME NEW i \in DOMAIN t, i + MaxConsecutive \in DOMAIN t
      PROVE  \E j \in i..(i + MaxConsecutive) : t[j].print # t[i].print
  <2> DEFINE k == d + i
  <2>1. k \in DOMAIN s /\ k + MaxConsecutive \in DOMAIN s  BY <1>1, <1>4
  <2> HIDE DEF k
  <2>2. PICK j \in k..(k + MaxConsecutive) : s[j].print # s[k].print  BY <2>1 DEF WithinLimits
  <2>3. j - d \in i..(i + MaxConsecutive) /\ j - d \in 1..Len(t) /\ d + (j - d) = j
    BY <1>1, <1>4 DEF k
  <2>4. t[j - d].print = s[d + (j - d)].print /\ t[i].print = s[k].print  BY <1>1, <2>3 DEF k
  <2> QED  BY <2>2, <2>3, <2>4
<1> QED  BY <1>2, <1>3, <1>4 DEF WithinLimits

LEMMA CourseScope ==
    ASSUME ItemsInv, RanInv, mark \in 0..Len(ran), WithinLimits(Course)
    PROVE  WithinLimits(Scope)
<1>1. /\ Scope \in Seq(RunRec) /\ Len(Scope) \in Nat /\ Course \in Seq(RunRec)
      /\ \A i \in 1..Len(Scope) : Course[i] = Scope[i]
      /\ OpenCall => Len(Course) = Len(Scope) + 1
      /\ ~OpenCall => Course = Scope
  BY CourseFields
<1>2. 0 + Len(Scope) <= Len(Course)
  BY <1>1
<1>3. \A i \in 1..Len(Scope) : Scope[i].print = Course[0 + i].print
  <2>1. \A i \in 1..Len(Scope) : 0 + i = i  BY <1>1
  <2> QED  BY <1>1, <2>1
<1> QED  BY <1>1, <1>2, <1>3, BoundedPart

\* A run at the end of what was executed is one the guard counts.
LEMMA RunCounted ==
    ASSUME NEW calls \in Seq(CallRec), NEW p, NEW k \in Nat, RunOf(calls, p, k)
    PROVE  TrailingRun(calls, p) \in Nat /\ TrailingRun(calls, p) >= k
<1> DEFINE n == Len(calls)  S == {i \in DOMAIN calls : \A j \in i..Len(calls) : calls[j].print = p}
           I == (n - k + 1)..n
<1>1. n \in Nat /\ DOMAIN calls = 1..n /\ k <= n
  BY DEF RunOf
<1>2. I \in SUBSET S
  <2>1. ASSUME NEW i \in I PROVE i \in DOMAIN calls /\ \A j \in i..n : calls[j].print = p
    <3>1. i \in 1..n /\ \A j \in i..n : j \in I  BY <1>1
    <3> QED  BY <1>1, <3>1 DEF RunOf
  <2> QED  BY <2>1
<1>3. S \in SUBSET (1..n)
  BY <1>1
<1>4. IsFiniteSet(1..n)
  BY <1>1, FS_Interval
<1>5. IsFiniteSet(S)
  BY <1>3, <1>4, FS_Subset
<1>6. Cardinality(I) = k
  <2>1. n - k + 1 \in Int /\ n \in Int  BY <1>1
  <2>2. Cardinality(I) = IF n - k + 1 > n THEN 0 ELSE n - (n - k + 1) + 1  BY <2>1, FS_Interval
  <2> QED  BY <1>1, <2>2
<1>7. TrailingRun(calls, p) = Cardinality(S)
  BY DEF TrailingRun
<1> HIDE DEF S, I
<1>8. Cardinality(I) <= Cardinality(S)
  BY <1>2, <1>5, FS_Subset
<1>9. Cardinality(S) \in Nat
  BY <1>5, FS_CardinalityType
<1> QED  BY <1>6, <1>7, <1>8, <1>9

LEMMA GuardAllows ==
    ASSUME NEW l, NEW p, GuardProposedToolCall(l, p) = "allowed"
    PROVE  /\ ~(Len(l.calls) + 1 > MaxToolRounds)
           /\ ~\E q \in l.issues : q.code = "repeated_failure" /\ q.print = p
           /\ ~(Times(l.completed, p) >= MaxOccurrences)
           /\ ~(TrailingRun(l.calls, p) + 1 > MaxConsecutive)
BY DEF GuardProposedToolCall

\* What a ledger knows contains what the limits are about.
LEMMA ScopeWithin ==
    ASSUME RanInv, mark \in 0..Len(ran), NEW l, Knows(l), NEW p \in Prints
    PROVE  /\ Len(Scope) <= Len(l.completed) /\ Times(Scope, p) <= Times(l.completed, p)
           /\ \A k \in Nat : RunOf(Evidence(Scope), p, k) => RunOf(l.completed, p, k)
<1> DEFINE s == Covered  t == Scope  d == mark - since  c == Evidence(Covered)  e == Evidence(Scope)
<1>1. since \in 0..mark /\ since \in 0..Len(ran) /\ s = RanAfter(since) /\ t = RanAfter(mark)
  BY CoveredIs, CourseIs
<1>2. /\ s \in Seq(RunRec) /\ Len(s) = Len(ran) - since /\ Len(ran) \in Nat
      /\ \A i \in 1..(Len(ran) - since) : s[i] = ran[since + i]
  BY <1>1, TailFields
<1>3. /\ t \in Seq(RunRec) /\ Len(t) = Len(ran) - mark
      /\ \A i \in 1..(Len(ran) - mark) : t[i] = ran[mark + i]
  BY <1>1, TailFields
<1> HIDE DEF s, t
<1>4. d \in Nat /\ d + Len(t) = Len(s) /\ Len(t) \in Nat
  BY <1>1, <1>2, <1>3
<1>5. \A i \in 1..Len(t) : t[i].print = s[d + i].print
  <2>1. ASSUME NEW i \in 1..Len(t) PROVE t[i].print = s[d + i].print
    <3>1. d + i \in 1..(Len(ran) - since) /\ since + (d + i) = mark + i  BY <1>1, <1>2, <1>3
    <3>2. s[d + i] = ran[since + (d + i)]  BY <1>2, <3>1
    <3> QED  BY <1>3, <3>1, <3>2
  <2> QED  BY <2>1
<1> HIDE DEF d
<1>6. /\ c \in Seq(Evid) /\ Len(c) = Len(s) /\ \A i \in 1..Len(s) : c[i].print = s[i].print
  BY <1>2, EvidenceFields DEF s
<1>7. /\ e \in Seq(Evid) /\ Len(e) = Len(t) /\ \A i \in 1..Len(t) : e[i].print = t[i].print
  BY <1>3, EvidenceFields DEF t
<1>8. /\ Len(l.completed) = Len(c) /\ Times(l.completed, p) = Times(c, p)
      /\ \A k \in Nat : RunOf(c, p, k) => RunOf(l.completed, p, k)
  BY DEF Knows, Mirrors, SameTimes, KeepsRuns
<1> HIDE DEF c, e
<1>9. Times(c, p) = Times(s, p)
  BY <1>2, <1>6, TimesSame
<1>10. Times(t, p) <= Times(s, p)
  <2>1. d + Len(t) <= Len(s)  BY <1>2, <1>3, <1>4
  <2> QED  BY <1>2, <1>3, <1>4, <1>5, <2>1, TimesPart
<1>11. ASSUME NEW k \in Nat, RunOf(e, p, k) PROVE RunOf(c, p, k)
  <2>1. k <= Len(t) /\ \A x \in (Len(t) - k + 1)..Len(t) : e[x].print = p  BY <1>7, <1>11 DEF RunOf
  <2>2. ASSUME NEW x \in (Len(s) - k + 1)..Len(s) PROVE c[x].print = p
    <3> DEFINE y == x - d
    <3>1. y \in (Len(t) - k + 1)..Len(t) /\ y \in 1..Len(t) /\ d + y = x /\ x \in 1..Len(s)
      BY <1>4, <2>1
    <3> HIDE DEF y
    <3>2. e[y].print = p /\ e[y].print = t[y].print /\ t[y].print = s[d + y].print
      BY <1>5, <1>7, <2>1, <3>1
    <3> QED  BY <1>6, <3>1, <3>2
  <2>3. k <= Len(s)  BY <1>4, <2>1
  <2> QED  BY <1>6, <2>2, <2>3 DEF RunOf
<1>12. Len(t) <= Len(s)
  BY <1>4
<1>13. Len(Scope) <= Len(l.completed) /\ Times(Scope, p) <= Times(l.completed, p)
  BY <1>6, <1>8, <1>9, <1>10, <1>12 DEF t
<1>14. \A k \in Nat : RunOf(Evidence(Scope), p, k) => RunOf(l.completed, p, k)
  BY <1>8, <1>11 DEF e
<1> QED  BY <1>13, <1>14

\* What the guard of guardProposedToolCalls lets through keeps the limits.
LEMMA AllowedBounded ==
    ASSUME RanInv, mark \in 0..Len(ran), WithinLimits(Scope), NEW l, Knows(l), NEW p \in Prints,
           GuardProposedToolCall(l, p) = "allowed", NEW y \in RunRec, y.print = p
    PROVE  WithinLimits(Append(Scope, y))
<1> DEFINE m == Len(Scope)  t == Append(Scope, y)  e == Evidence(Scope)
<1>1. Scope \in Seq(RunRec)
  <2>1. Scope = RanAfter(mark)  BY DEF Scope, RanAfter
  <2> QED  BY <2>1, TailFields
<1>2. /\ MaxToolRounds \in Nat /\ MaxConsecutive \in Nat /\ MaxOccurrences \in Nat
      /\ MaxConsecutive # 0
  BY LedgerAssumption
<1>3. /\ t \in Seq(RunRec) /\ Len(t) = m + 1 /\ m \in Nat /\ DOMAIN t = 1..(m + 1)
      /\ DOMAIN Scope = 1..m /\ t[m + 1] = y /\ \A i \in 1..m : t[i] = Scope[i]
  BY <1>1, AppendedAt
<1>4. /\ l.calls \in Seq(CallRec) /\ l.completed \in Seq(Evid) /\ Len(l.calls) = Len(l.completed)
      /\ \A i \in DOMAIN l.calls : l.calls[i].print = l.completed[i].print
  BY DEF Knows, LedgerRec, Aligned
<1>5. e \in Seq(Evid) /\ Len(e) = m /\ \A i \in 1..m : e[i].print = Scope[i].print
  BY <1>1, EvidenceFields
<1>6. /\ m <= Len(l.completed) /\ Times(Scope, p) <= Times(l.completed, p)
      /\ \A k \in Nat : RunOf(e, p, k) => RunOf(l.completed, p, k)
  BY ScopeWithin
<1> HIDE DEF e
<1>7. Len(t) <= MaxToolRounds
  BY <1>2, <1>3, <1>4, <1>5, <1>6, GuardAllows
<1>8. ASSUME NEW q \in Prints PROVE Times(t, q) <= MaxOccurrences
  <2>1. Times(Scope, q) \in Nat /\ Times(Scope, q) <= MaxOccurrences  BY <1>1, AtFinite DEF WithinLimits
  <2>2. Times(t, q) = IF y.print = q THEN Times(Scope, q) + 1 ELSE Times(Scope, q)
    BY <1>1, TimesAppend
  <2>3. Times(l.completed, p) \in Nat  BY <1>4, AtFinite
  <2>4. ~(Times(l.completed, p) >= MaxOccurrences)  BY GuardAllows
  <2>5. q = p => Times(Scope, q) < MaxOccurrences  BY <1>2, <1>6, <2>1, <2>3, <2>4
  <2> QED  BY <1>2, <2>1, <2>2, <2>5
<1> HIDE DEF t
<1>9. ASSUME NEW i \in DOMAIN t, i + MaxConsecutive \in DOMAIN t
      PROVE  \E j \in i..(i + MaxConsecutive) : t[j].print # t[i].print
  <2>1. CASE i + MaxConsecutive \in 1..m
    <3>1. i \in DOMAIN Scope /\ i + MaxConsecutive \in DOMAIN Scope  BY <1>2, <1>3, <2>1
    <3>2. PICK j \in i..(i + MaxConsecutive) : Scope[j].print # Scope[i].print
      BY <3>1 DEF WithinLimits
    <3>3. j \in 1..m /\ i \in 1..m  BY <1>2, <1>3, <2>1, <3>1
    <3> QED  BY <1>3, <3>2, <3>3
  <2>2. CASE ~(i + MaxConsecutive \in 1..m)
    <3>1. i + MaxConsecutive = m + 1 /\ i \in 1..m  BY <1>2, <1>3, <1>9, <2>2
    <3>2. SUFFICES ASSUME \A j \in i..(m + 1) : t[j].print = t[i].print PROVE FALSE
      BY <3>1
    <3>3. m + 1 \in i..(m + 1) /\ \A j \in i..m : j \in i..(m + 1) /\ j \in 1..m  BY <1>3, <3>1
    <3>4. t[i].print = p  BY <1>3, <3>2, <3>3
    <3>5. \A j \in i..m : e[j].print = p  BY <1>3, <1>5, <3>2, <3>3, <3>4
    <3>6. RunOf(e, p, MaxConsecutive)
      <4>1. MaxConsecutive <= m /\ m - MaxConsecutive + 1 = i  BY <1>2, <1>3, <3>1
      <4> QED  BY <1>5, <3>5, <4>1 DEF RunOf
    <3>7. RunOf(l.completed, p, MaxConsecutive)  BY <1>2, <1>6, <3>6
    <3>8. RunOf(l.calls, p, MaxConsecutive)
      <4> DEFINE k == Len(l.calls)
      <4>1. k \in Nat /\ DOMAIN l.calls = 1..k  BY <1>4
      <4>2. MaxConsecutive <= k /\ \A x \in (k - MaxConsecutive + 1)..k : l.completed[x].print = p
        BY <1>4, <3>7 DEF RunOf
      <4>3. \A x \in (k - MaxConsecutive + 1)..k : x \in 1..k  BY <1>2, <4>1, <4>2
      <4> QED  BY <1>4, <4>1, <4>2, <4>3 DEF RunOf
    <3>9. TrailingRun(l.calls, p) \in Nat /\ TrailingRun(l.calls, p) >= MaxConsecutive
      BY <1>2, <1>4, <3>8, RunCounted
    <3>10. ~(TrailingRun(l.calls, p) + 1 > MaxConsecutive)  BY GuardAllows
    <3> QED  BY <1>2, <3>9, <3>10
  <2> QED  BY <2>1, <2>2
<1>10. WithinLimits(t)
  BY <1>7, <1>8, <1>9 DEF WithinLimits
<1> QED  BY <1>10 DEF t

\* What seedAlias writes for a chain covers the scope.
LEMMA SavedCovers ==
    ASSUME RanInv, mark \in 0..Len(ran), WithinLimits(Scope), NEW l, Knows(l), mode = "chain"
    PROVE  Covers(CompletedToolSnapshots(l.completed), Evidence(Scope))
<1> DEFINE c == l.completed  e == Evidence(Scope)  S == CompletedToolSnapshots(c)
<1>1. Scope \in Seq(RunRec)
  <2>1. Scope = RanAfter(mark)  BY DEF Scope, RanAfter
  <2> QED  BY <2>1, TailFields
<1>2. e \in Seq(Evid) /\ Len(e) = Len(Scope) /\ Len(Scope) \in Nat
  BY <1>1, EvidenceFields
<1>3. c \in Seq(Evid) /\ Mirrors(c, e) /\ Len(c) = Len(e)
  <2>1. Covered = Scope  BY CoveredIs
  <2> QED  BY <2>1 DEF Knows, LedgerRec, Mirrors, SameTimes
<1>4. Len(Scope) <= MaxToolRounds /\ MaxToolRounds \in Nat /\ SnapshotLimit \in Nat /\ SnapshotLimit >= MaxToolRounds
  BY LedgerAssumption DEF WithinLimits
<1>5. Len(c) <= SnapshotLimit
  BY <1>2, <1>3, <1>4
<1> HIDE DEF c, e
<1>6. Covers(S, c)
  BY <1>3, <1>5, SnapshotCovers
<1> HIDE DEF S
<1>7. Covers(S, e)
  BY <1>3, <1>6, MirrorsTransitive DEF Covers
<1> QED  BY <1>7 DEF S, c, e

-----------------------------------------------------------------------------
(* The steps of the client.                                                *)

\* The cases in which a client that is honest may be refused.
Excused == mode = "keyed" /\ Whole /\ (Abandoned \/ ~WithinLimits(ran))

LEMMA RequestLedger ==
    ASSUME HistoryInv, WithinLimits(Course), RowInv, mode \in {"chat", "keyed", "chain"},
           reply.kind \in {"answer", "prose"} => IsUser(Last(items)),
           NEW input \in Inputs, NEW l, l = ParseToolLedger(row, ActiveInput(row, input))
    PROVE  /\ Blocked(l) \/ (~OpenCall /\ Knows(l))
           /\ input \in HonestInputs =>
                 /\ Blocked(l) => Excused
                 /\ \/ \A i \in DOMAIN input : ~IsResult(input[i])
                    \/ OutputsFit(row, input)
<1>1. /\ ItemsInv /\ RanInv /\ (mode = "chain" => ~Abandoned) /\ mark \in 0..Len(ran)
      /\ asked \in 0..Len(ran)
  BY HistoryFields
<1>2. PICK u : Since(u)
  BY DEF HistoryInv
<1>3. CASE RowEmpty /\ Whole
  <2>1. row = EmptyRow /\ row.pending = NoCall  BY <1>3 DEF RowEmpty, EmptyRow
  <2>2. /\ Blocked(l) \/ (~OpenCall /\ Replayed(l, 0))
        /\ input \in HonestInputs /\ ~Abandoned /\ WithinLimits(ran) => ~Blocked(l)
    BY <1>1, <1>3, <2>1, WholeRequest
  <2>3. since = 0  BY <1>3 DEF since
  <2>4. Replayed(l, since) => Knows(l)  BY <1>1, ReplayedKnows
  <2>5. mode = "chain" => WithinLimits(ran)
    <3>1. WithinLimits(Scope)  BY <1>1, CourseScope
    <3>2. mode = "chain" => Scope = ran  BY <1>1, CoveredIs
    <3> QED  BY <3>1, <3>2
  <2>6. mode = "keyed" \/ mode = "chain"  BY <1>3 DEF Whole
  <2>7. input \in HonestInputs => (Blocked(l) => Excused)
    BY <1>1, <1>3, <2>2, <2>5, <2>6 DEF Excused
  <2> QED  BY <1>1, <2>1, <2>2, <2>3, <2>4, <2>7, PairsFit
<1>4. CASE RowEmpty /\ ~Whole
  <2>1. row = EmptyRow /\ row.pending = NoCall  BY <1>4 DEF RowEmpty, EmptyRow
  <2>2. mark = asked
    <3>1. mode # "chain"  BY <1>4 DEF RowEmpty, Whole
    <3> QED  BY <3>1 DEF mark
  <2>3. /\ Blocked(l) \/ (~OpenCall /\ Replayed(l, asked))
        /\ input \in HonestInputs => ~OpenCall /\ ~Blocked(l)
    BY <1>1, <1>2, <1>4, <2>1, <2>2, EmptyRowRequest
  <2>4. since = asked  BY <1>4, <2>2 DEF since
  <2>5. Replayed(l, since) => Knows(l)  BY <1>1, ReplayedKnows
  <2> QED  BY <1>1, <2>1, <2>3, <2>4, <2>5, PairsFit
<1>5. CASE RowAnswered
  <2>1. /\ mode = "chain" /\ ~Whole /\ row.pending = NoCall /\ Covers(row.snapshot, Evidence(Scope))
        /\ reply.kind \in {"answer", "prose"} \/ items[Len(items)].kind = "user"
    BY <1>5 DEF RowAnswered, Whole
  <2>2. items[Len(items)].kind = "user"  BY <2>1 DEF IsUser, Last
  <2>3. /\ Blocked(l) \/ (~OpenCall /\ Knows(l))
        /\ input \in HonestInputs => ~Blocked(l)
    BY <1>1, <2>1, <2>2, AnsweredRowRequest
  <2> QED  BY <1>1, <2>1, <2>3, PairsFit
<1>6. CASE RowCalled
  <2>1. PICK c : /\ Waits(c) /\ mode = "chain" /\ ~Whole
                 /\ OpenCall => Covers(row.snapshot, Evidence(Scope))
                 /\ ~OpenCall => Executed(c)
    BY <1>6 DEF RowCalled, Whole
  <2>2. Rebuilt(AddCompletedSnapshots(row.snapshot))  BY <2>1 DEF Executed, Covers
  <2> QED  BY <1>1, <2>1, <2>2, CalledRowRequest
<1> QED  BY <1>3, <1>4, <1>5, <1>6 DEF RowInv

\* A step that adds no item and no execution.
LEMMA SameHistory ==
    ASSUME HistoryInv, WithinLimits(Course), mode' = mode, items' = items, ran' = ran, asked' = asked
    PROVE  /\ HistoryInv' /\ WithinLimits(Course)' /\ mark' = mark /\ Scope' = Scope /\ Past' = Past
           /\ OpenCall' <=> OpenCall
           /\ Abandoned' <=> Abandoned
<1>0. mark' = mark /\ (Abandoned' <=> Abandoned)
  BY DEF mark, Abandoned
<1>1. Scope' = Scope /\ Past' = Past
  BY <1>0 DEF Scope, Past
<1>2. OpenCall' <=> OpenCall
  BY DEF OpenCall
<1>3. OpenRun' = OpenRun
  BY DEF OpenRun
<1>4. Course' = Course
  BY <1>1, <1>2, <1>3 DEF Course
<1>5. WithinLimits(Course)'
  BY <1>4 DEF WithinLimits
<1>6. ItemsInv' /\ RanInv' /\ (mode' = "chain" => ~Abandoned')
  BY <1>0 DEF ItemsInv, RanInv, HistoryInv
<1>7. PICK u : Since(u)
  BY DEF HistoryInv
<1>8. Since(u)'
  BY <1>2, <1>7 DEF Since
<1> QED  BY <1>0, <1>1, <1>2, <1>5, <1>6, <1>8 DEF HistoryInv

LEMMA KnowsSame ==
    ASSUME NEW l, Knows(l), mode' = mode, row' = row, ran' = ran, asked' = asked, session' = session
    PROVE  Knows(l)'
<1>0. mark' = mark /\ (Whole' <=> Whole)
  BY DEF mark, Whole
<1>1. Scope' = Scope
  BY <1>0 DEF Scope
<1>11. Covered' = Covered
  BY <1>0, <1>1 DEF Covered
<1>2. \A p, f, i : FailedAt(p, f, i)' <=> FailedAt(p, f, i)
  BY <1>1 DEF FailedAt
<1>3. \A p : FailuresOf(p)' = FailuresOf(p)
  BY <1>1, <1>2 DEF FailuresOf
<1>4. Reports(l)
  BY DEF Knows
<1>5. Reports(l)'
  BY <1>1, <1>2, <1>3, <1>4 DEF Reports
<1> QED  BY <1>5, <1>11 DEF Knows

LEMMA NoClaims ==
    ASSUME reply'.claims = {}
    PROVE  ClaimsBacked' /\ (reply.claims # {} => ~OpenCall)'
BY DEF ClaimsBacked

\* The row is as it was.
LEMMA SameRow ==
    ASSUME RowInv, mode' = mode, row' = row, items' = items, ran' = ran, asked' = asked,
           (session' = "started") <=> (session = "started"),
           items[Len(items)].kind # "user" /\ reply.kind \in {"answer", "prose"}
               => reply'.kind \in {"answer", "prose"}
    PROVE  RowInv'
<1>0. mark' = mark
  BY DEF mark
<1>1. Scope' = Scope /\ Past' = Past /\ (OpenCall' <=> OpenCall)
  BY <1>0 DEF Scope, Past, OpenCall
<1>2. CASE RowEmpty
  <2>1. RowEmpty'  BY <1>1, <1>2 DEF RowEmpty
  <2> QED  BY <2>1 DEF RowInv
<1>3. CASE RowAnswered
  <2>1. RowAnswered'  BY <1>1, <1>3 DEF RowAnswered
  <2> QED  BY <2>1 DEF RowInv
<1>4. CASE RowCalled
  <2>1. PICK c : /\ Waits(c) /\ mode = "chain" /\ session = "started"
                 /\ OpenCall => Covers(row.snapshot, Evidence(Scope))
                 /\ ~OpenCall => Executed(c)
    BY <1>4 DEF RowCalled
  <2>2. Waits(c)'  BY <2>1 DEF Waits
  <2>3. Executed(c) => Executed(c)'  BY <1>0, <1>1 DEF Executed
  <2>4. RowCalled'  BY <1>1, <2>1, <2>2, <2>3 DEF RowCalled
  <2> QED  BY <2>4 DEF RowInv
<1> QED  BY <1>2, <1>3, <1>4 DEF RowInv

LEMMA RequestStep ==
    ASSUME LedgerProtocol, NEW input \in Inputs, NEW honest \in BOOLEAN,
           honest => input \in HonestInputs, Request(input, honest)
    PROVE  LedgerProtocol'
<1> DEFINE L == ParseToolLedger(row, ActiveInput(row, input))
           fits == \/ mode = "chat"
                   \/ \A i \in DOMAIN input : ~IsResult(input[i])
                   \/ OutputsFit(row, input)
           verdict == IF session = "lost" THEN "gone"
                      ELSE IF ~fits THEN "refused"
                      ELSE IF Recoverable(L) # {} THEN "stopped"
                      ELSE IF Blocked(L) THEN "refused" ELSE "none"
<1>1. /\ turn = "client" /\ (reply.kind \in {"answer", "prose"} => IsUser(Last(items)))
      /\ reply' = [kind |-> verdict, claims |-> {}, honest |-> honest]
      /\ session' = (IF session = "lost" THEN "new" ELSE session)
      /\ turn' = (IF verdict = "none" THEN "gateway" ELSE "client")
      /\ ledger' = (IF verdict = "none" THEN L ELSE EmptyState)
      /\ mode' = mode /\ items' = items /\ row' = row /\ ran' = ran /\ asked' = asked
  BY DEF Request
<1>2. TypeInv /\ HistoryInv /\ WithinLimits(Course) /\ RowInv
  BY DEF LedgerProtocol
<1>3. mode \in {"chat", "keyed", "chain"} /\ session \in {"new", "started", "lost"}
  BY <1>2 DEF TypeInv
<1>4. PICK l : l = L  OBVIOUS
<1>5. /\ Blocked(l) \/ (~OpenCall /\ Knows(l))
      /\ input \in HonestInputs =>
            /\ Blocked(l) => Excused
            /\ \/ \A i \in DOMAIN input : ~IsResult(input[i])
               \/ OutputsFit(row, input)
  BY <1>1, <1>2, <1>3, <1>4, RequestLedger
<1>6. verdict = "none" => ~Blocked(l) /\ session # "lost"
  BY <1>4
<1>7. honest /\ verdict = "refused" => Excused /\ session # "lost"
  <2>1. ASSUME honest, verdict = "refused" PROVE Excused /\ session # "lost"
    <3>1. fits /\ (Blocked(l) => Excused)  BY <1>5, <2>1
    <3>2. session # "lost" /\ Blocked(l)  BY <1>4, <2>1, <3>1
    <3> QED  BY <3>1, <3>2
  <2> QED  BY <2>1
<1>8. verdict \in {"none", "stopped", "refused", "gone"}
  OBVIOUS
<1> HIDE DEF verdict, L, fits
<1>9. HistoryInv' /\ WithinLimits(Course)' /\ (OpenCall' <=> OpenCall) /\ (Abandoned' <=> Abandoned)
  BY <1>1, <1>2, SameHistory
<1>10. reply'.kind = verdict /\ reply'.claims = {} /\ reply'.honest = honest
  BY <1>1
<1>11. TypeInv'
  <2>1. /\ mode' \in {"chat", "keyed", "chain"} /\ session' \in {"new", "started", "lost"}
        /\ turn' \in {"client", "gateway"}
    BY <1>1, <1>3
  <2>2. reply' \in [kind : {"none", "call", "answer", "prose", "stopped", "refused", "failed", "gone"},
                    claims : SUBSET (Actions \cup {Complete}), honest : BOOLEAN]
    BY <1>1, <1>8
  <2> QED  BY <2>1, <2>2 DEF TypeInv
<1>12. RowInv'
  <2>1. items[Len(items)].kind # "user" /\ reply.kind \in {"answer", "prose"}
            => reply'.kind \in {"answer", "prose"}
    BY <1>1 DEF IsUser, Last
  <2>2. (session' = "started") <=> (session = "started")  BY <1>1
  <2> QED  BY <1>1, <1>2, <2>1, <2>2, SameRow
<1>13. LedgerInv'
  <2>1. ASSUME turn' = "gateway" PROVE ~OpenCall' /\ reply'.kind = "none" /\ Knows(ledger)'
    <3>1. verdict = "none"  BY <1>1, <2>1
    <3>2. ~OpenCall /\ Knows(l) /\ session' = session  BY <1>1, <1>5, <1>6, <3>1
    <3>3. Knows(l)'  BY <1>1, <3>2, KnowsSame
    <3>4. ledger' = l  BY <1>1, <1>4, <3>1
    <3>5. Knows(ledger)'  BY <3>3, <3>4 DEF Knows, Reports
    <3> QED  BY <1>9, <1>10, <3>1, <3>2, <3>5
  <2> QED  BY <2>1 DEF LedgerInv
<1>14. ClaimsBacked' /\ (reply.claims # {} => ~OpenCall)'
  BY <1>10, NoClaims
<1>15. HonestNotRefused'
  <2>1. ASSUME verdict = "refused", honest
        PROVE  mode' = "keyed" /\ Whole' /\ (Abandoned' \/ ~WithinLimits(ran)')
    <3>1. mode = "keyed" /\ Whole /\ (Abandoned \/ ~WithinLimits(ran)) /\ session' = session
      BY <1>1, <1>7, <2>1 DEF Excused
    <3>2. Whole'  BY <1>1, <3>1 DEF Whole
    <3>3. WithinLimits(ran)' <=> WithinLimits(ran)  BY <1>1 DEF WithinLimits
    <3> QED  BY <1>1, <1>9, <3>1, <3>2, <3>3
  <2> QED  BY <1>10, <2>1 DEF HonestNotRefused
<1> QED  BY <1>9, <1>11, <1>12, <1>13, <1>14, <1>15 DEF LedgerProtocol

\* The session is gone before the next request.
LEMMA SessionGoesStep ==
    ASSUME LedgerProtocol, SessionGoes
    PROVE  LedgerProtocol'
<1>1. /\ turn = "client" /\ session = "started" /\ session' \in {"new", "lost"} /\ row' = EmptyRow
      /\ mode' = mode /\ items' = items /\ turn' = turn /\ ledger' = ledger /\ reply' = reply
      /\ ran' = ran /\ asked' = asked
  BY DEF SessionGoes, SessionLost
<1>2. /\ TypeInv /\ HistoryInv /\ WithinLimits(Course) /\ HonestNotRefused /\ ClaimsBacked
      /\ reply.claims # {} => ~OpenCall
  BY DEF LedgerProtocol
<1>3. HistoryInv' /\ WithinLimits(Course)' /\ (OpenCall' <=> OpenCall)
  BY <1>1, <1>2, SameHistory
<1>4. RowEmpty'
  BY <1>1 DEF RowEmpty
<1>5. TypeInv' /\ LedgerInv'
  BY <1>1, <1>2 DEF TypeInv, LedgerInv
<1>6. HonestNotRefused'
  <2>1. ~(reply.kind = "refused" /\ reply.honest)  BY <1>1, <1>2 DEF HonestNotRefused, Whole
  <2> QED  BY <1>1, <2>1 DEF HonestNotRefused
<1>7. ClaimsBacked'
  BY <1>1, <1>2 DEF ClaimsBacked
<1> QED  BY <1>1, <1>2, <1>3, <1>4, <1>5, <1>6, <1>7 DEF LedgerProtocol, RowInv

\* One execution more.
LEMMA ScopeGrow ==
    ASSUME RanInv, mark \in 0..Len(ran), mark' = mark, NEW e \in RunRec, ran' = Append(ran, e)
    PROVE  Scope' = Append(Scope, e) /\ Past' = Scope
<1> DEFINE m == Len(ran)  r == Append(ran, e)  A == SubSeq(r, mark + 1, m + 1)
           B == Append(Scope, e)  P == SubSeq(r, mark + 1, m)  k == m - mark
<1>1. ran \in Seq(RunRec) /\ m \in Nat /\ mark \in Nat /\ mark <= m
  BY DEF RanInv
<1>2. r \in Seq(RunRec) /\ Len(r) = m + 1 /\ r[m + 1] = e /\ \A i \in 1..m : r[i] = ran[i]
  BY <1>1, AppendedAt
<1>3. Scope \in Seq(RunRec) /\ Len(Scope) = k /\ \A i \in 1..k : Scope[i] = ran[mark + i]
  <2>1. Scope = RanAfter(mark)  BY DEF Scope, RanAfter
  <2> QED  BY <2>1, TailFields
<1>4. Scope' = A /\ Past' = P
  <2>1. ran' = r /\ Len(ran') = m + 1 /\ Len(ran') - 1 = m  BY <1>1, <1>2
  <2> QED  BY <2>1 DEF Scope, Past
<1> HIDE DEF r
<1>5. k \in Nat /\ mark + k = m
  BY <1>1
<1>6. A \in Seq(RunRec) /\ Len(A) = k + 1 /\ \A i \in 1..(k + 1) : A[i] = r[mark + i]
  <2>1. A \in Seq(RunRec) /\ Len(A) = k + 1  BY <1>1, <1>2
  <2>2. \A i \in 1..(k + 1) : A[i] = r[(mark + 1) + i - 1] /\ (mark + 1) + i - 1 = mark + i
    BY <1>1, <1>2
  <2> QED  BY <2>1, <2>2
<1>7. P \in Seq(RunRec) /\ Len(P) = k /\ \A i \in 1..k : P[i] = r[mark + i]
  <2>1. P \in Seq(RunRec) /\ Len(P) = k  BY <1>1, <1>2
  <2>2. \A i \in 1..k : P[i] = r[(mark + 1) + i - 1] /\ (mark + 1) + i - 1 = mark + i
    BY <1>1, <1>2
  <2> QED  BY <2>1, <2>2
<1>8. B \in Seq(RunRec) /\ Len(B) = k + 1 /\ B[k + 1] = e /\ \A i \in 1..k : B[i] = Scope[i]
  BY <1>3, AppendedAt
<1> HIDE DEF A, B, P, k
<1>9. \A i \in 1..k : mark + i \in 1..m /\ i \in 1..(k + 1)
  BY <1>1, <1>5
<1>10. ASSUME NEW i \in 1..(k + 1) PROVE A[i] = B[i]
  <2>1. CASE i = k + 1
    <3>1. mark + i = m + 1  BY <1>1, <1>5, <2>1
    <3> QED  BY <1>2, <1>6, <1>8, <2>1, <3>1
  <2>2. CASE i # k + 1
    <3>1. i \in 1..k  BY <1>5, <2>2
    <3> QED  BY <1>2, <1>3, <1>6, <1>8, <1>9, <3>1
  <2> QED  BY <2>1, <2>2
<1>11. A \in Seq(RunRec) /\ B \in Seq(RunRec) /\ Len(A) = Len(B) /\ \A i \in 1..Len(A) : A[i] = B[i]
  BY <1>6, <1>8, <1>10
<1>12. A = B  BY ONLY <1>11
<1>13. P \in Seq(RunRec) /\ Scope \in Seq(RunRec) /\ Len(P) = Len(Scope) /\ \A i \in 1..Len(P) : P[i] = Scope[i]
  BY <1>2, <1>3, <1>7, <1>9
<1>14. P = Scope  BY ONLY <1>13
<1> QED  BY <1>4, <1>12, <1>14 DEF B

LEMMA LimitsGrow ==
    ASSUME RanInv, NEW e \in RunRec, ran' = Append(ran, e), WithinLimits(ran)'
    PROVE  WithinLimits(ran)
<1> DEFINE t == Append(ran, e)  m == Len(ran)
<1>1. ran \in Seq(RunRec) /\ m \in Nat
  BY DEF RanInv
<1>2. t \in Seq(RunRec) /\ Len(t) = m + 1 /\ \A i \in 1..m : t[i] = ran[i]
  BY <1>1, AppendedAt
<1>3. WithinLimits(t)
  BY DEF WithinLimits
<1> HIDE DEF t
<1>4. 0 + m <= Len(t) /\ \A i \in 1..m : 0 + i = i
  BY <1>1, <1>2
<1>5. \A i \in 1..m : ran[i].print = t[0 + i].print
  BY <1>2, <1>4
<1> QED  BY <1>1, <1>2, <1>3, <1>4, <1>5, BoundedPart

LEMMA RunToolStep ==
    ASSUME LedgerProtocol, NEW o \in Outcomes, RunTool(o)
    PROVE  LedgerProtocol'
<1> DEFINE n == Len(items)  x == Result(n, o)
           e == [call |-> n, print |-> items[n].print, outcome |-> o]
<1>1. /\ TypeInv /\ ItemsInv /\ RanInv /\ mark \in 0..Len(ran) /\ WithinLimits(Course) /\ RowInv
      /\ mode = "chain" => ~Abandoned
  BY HistoryFields DEF LedgerProtocol
<1>2. PICK u : Since(u)
  BY DEF LedgerProtocol, HistoryInv
<1>3. /\ OpenCall /\ turn = "client" /\ mode' = mode /\ session' = session /\ row' = row
      /\ turn' = turn /\ reply' = reply /\ asked' = asked /\ mark' = mark
  BY DEF RunTool, mark
<1>4. n \in Nat /\ n > 0 /\ n \in 1..n /\ Last(items) = items[n] /\ items[n].kind = "call"
  BY <1>1, <1>3 DEF ItemsInv, OpenCall, Last
<1>5. items[n].id = n /\ items[n].print \in Prints
  <2>1. items[n] \in Item  BY <1>1, <1>4 DEF ItemsInv
  <2> QED  BY <1>1, <1>4, <2>1, ItemFields DEF ItemsInv
<1>6. items' = Append(items, x) /\ ran' = Append(ran, e)
  BY <1>4, <1>5 DEF RunTool
<1>7. x \in Item /\ x.kind = "result" /\ x.id = n
  BY <1>4 DEF Item, Result
<1>8. e \in RunRec /\ e.call = n /\ e.print = items[n].print
  BY <1>4, <1>5 DEF RunRec
<1>9. RanInv'
  BY <1>1, <1>3, <1>6, RanGrow
<1>10. Since(u)'
  BY <1>1, <1>2, <1>3, <1>6, SinceResult
<1>11. ran'[Len(ran) + 1].call = n /\ Len(ran') = Len(ran) + 1 /\ Len(ran) \in Nat
  BY <1>1, <1>3, <1>6, RanGrow
<1> HIDE DEF x
<1>12. /\ ItemsInv' /\ Len(items') = n + 1 /\ items'[n + 1] = x /\ ~OpenCall'
       /\ \A i \in 1..n : items'[i] = items[i]
  BY <1>1, <1>3, <1>6, <1>7, ItemsGrow
<1> HIDE DEF e
<1>13. mark \in 0..Len(ran)
  BY <1>1
<1>14. Scope' = Append(Scope, e) /\ Past' = Scope
  BY <1>1, <1>3, <1>6, <1>8, <1>13, ScopeGrow
<1>15. WithinLimits(Course)'
  <2> DEFINE t == Append(Scope, e)  s == Course  m == Len(Scope)
  <2>1. Course' = t  BY <1>12, <1>14 DEF Course
  <2>2. /\ Scope \in Seq(RunRec) /\ m \in Nat /\ s \in Seq(RunRec)
        /\ \A i \in 1..m : s[i] = Scope[i]
        /\ Len(s) = m + 1 /\ s[m + 1].print = items[n].print
    BY <1>1, <1>3, <1>13, CourseFields
  <2>3. t \in Seq(RunRec) /\ Len(t) = m + 1 /\ t[m + 1] = e /\ \A i \in 1..m : t[i] = Scope[i]
    BY <1>8, <2>2, AppendedAt
  <2> HIDE DEF t, s, m
  <2>4. 0 + Len(t) <= Len(s)  BY <2>2, <2>3
  <2>5. ASSUME NEW i \in 1..Len(t) PROVE t[i].print = s[0 + i].print
    <3>0. 0 + i = i  BY <2>2, <2>3
    <3>1. CASE i = m + 1  BY <1>8, <2>2, <2>3, <3>0, <3>1
    <3>2. CASE i # m + 1
      <4>1. i \in 1..m  BY <2>2, <2>3, <3>2
      <4> QED  BY <2>2, <2>3, <3>0, <4>1
    <3> QED  BY <3>1, <3>2
  <2>6. WithinLimits(s)  BY <1>1 DEF s
  <2>7. WithinLimits(t)  BY <2>2, <2>3, <2>4, <2>5, <2>6, BoundedPart
  <2> QED  BY <2>1, <2>7 DEF WithinLimits
<1>16. RowInv'
  <2>1. CASE RowEmpty
    <3>1. RowEmpty'  BY <1>3, <2>1 DEF RowEmpty
    <3> QED  BY <3>1 DEF RowInv
  <2>2. CASE RowAnswered
    BY <1>3, <2>2 DEF RowAnswered
  <2>3. CASE RowCalled
    <3>1. PICK c : /\ Waits(c) /\ mode = "chain" /\ session = "started"
                   /\ Covers(row.snapshot, Evidence(Scope))
      BY <1>3, <2>3 DEF RowCalled
    <3>2. c = n
      <4>1. c \in 1..n /\ ~(n \in (c + 1)..n)  BY <1>4, <3>1 DEF Waits
      <4> QED  BY <1>4, <4>1
    <3>3. Waits(c)'
      <4>1. items'[c] = items[c] /\ c \in 1..(n + 1) /\ \A j \in (c + 1)..(n + 1) : j = n + 1
        BY <1>4, <1>12, <3>2
      <4>2. items[c].kind = "call" /\ row.pending = [id |-> c, print |-> items[c].print]
        BY <3>1 DEF Waits
      <4> QED  BY <1>3, <1>7, <1>12, <4>1, <4>2 DEF Waits
    <3>4. Executed(c)'
      <4>1. mark' < Len(ran') /\ ran'[Len(ran')].call = c  BY <1>3, <1>11, <1>13, <3>2
      <4>2. Covers(row.snapshot, Evidence(Past))'  BY <1>3, <1>14, <3>1
      <4> QED  BY <4>1, <4>2 DEF Executed
    <3>5. RowCalled'  BY <1>3, <1>12, <3>1, <3>3, <3>4 DEF RowCalled
    <3> QED  BY <3>5 DEF RowInv
  <2> QED  BY <1>1, <2>1, <2>2, <2>3 DEF RowInv
<1>17. reply'.claims = {}
  BY <1>3 DEF LedgerProtocol
<1>18. ClaimsBacked' /\ (reply.claims # {} => ~OpenCall)'
  BY <1>17, NoClaims
<1>19. TypeInv' /\ LedgerInv'
  BY <1>1, <1>3 DEF TypeInv, LedgerInv
<1>20. Abandoned' <=> Abandoned
  BY <1>1, <1>6, <1>7, AbandonedGrow
<1>21. HistoryInv'
  BY <1>1, <1>3, <1>9, <1>10, <1>12, <1>20 DEF HistoryInv
<1>22. HonestNotRefused'
  <2>1. WithinLimits(ran)' => WithinLimits(ran)  BY <1>1, <1>6, <1>8, LimitsGrow
  <2>2. Whole' <=> Whole  BY <1>3 DEF Whole
  <2>3. HonestNotRefused  BY DEF LedgerProtocol
  <2> QED  BY <1>3, <1>20, <2>1, <2>2, <2>3 DEF HonestNotRefused
<1> QED  BY <1>15, <1>16, <1>18, <1>19, <1>21, <1>22 DEF LedgerProtocol

LEMMA NewUserStep ==
    ASSUME LedgerProtocol, NEW continues \in BOOLEAN, NewUser(continues)
    PROVE  LedgerProtocol'
<1> DEFINE n == Len(items)  x == User(continues)  m == Len(ran)
<1>1. /\ TypeInv /\ ItemsInv /\ RanInv /\ mark \in 0..Len(ran) /\ WithinLimits(Course) /\ RowInv
      /\ mode = "chain" => ~Abandoned
  BY HistoryFields DEF LedgerProtocol
<1>2. PICK u : Since(u)
  BY DEF LedgerProtocol, HistoryInv
<1>3. /\ turn = "client" /\ mode' = mode /\ session' = session /\ row' = row /\ turn' = turn
      /\ ran' = ran /\ reply' = reply /\ asked' = m /\ items' = Append(items, x)
      /\ OpenCall => mode # "chain"
      /\ mode = "chain" => mark' = mark
      /\ mode # "chain" => mark' = m
  BY DEF NewUser, mark
<1>4. x \in Item /\ x.kind = "user"
  BY DEF Item, User
<1>5. m \in Nat /\ mark \in 0..m
  BY <1>1 DEF RanInv
<1>6. PICK v : v = n + 1  OBVIOUS
<1>7. Since(v)'
  BY <1>1, <1>3, <1>6, SinceUser
<1> HIDE DEF x
<1>8. /\ ItemsInv' /\ Len(items') = n + 1 /\ items'[n + 1] = x /\ ~OpenCall'
      /\ \A i \in 1..n : items'[i] = items[i]
  BY <1>1, <1>3, <1>4, ItemsGrow
<1>9. RanInv'
  BY <1>1, <1>3, <1>4, RanSame
<1>10. /\ Abandoned => Abandoned'
       /\ mode = "chain" => ~Abandoned'
  BY <1>1, <1>3, <1>4, AbandonedGrow
<1>11. mark' = mark => Scope' = Scope /\ Past' = Past
  BY <1>3 DEF Scope, Past
<1>12. mark' = m => Scope' = <<>>
  <2>1. SubSeq(ran, m + 1, m) = <<>>  BY <1>1, <1>5 DEF RanInv
  <2> QED  BY <1>3, <2>1 DEF Scope
<1>13. WithinLimits(Course)'
  <2>1. Course' = Scope'  BY <1>8 DEF Course
  <2>2. WithinLimits(Scope) /\ Scope \in Seq(RunRec) /\ Len(Scope) \in Nat
    BY <1>1, <1>5, CourseScope, CourseFields
  <2>3. WithinLimits(<<>>)
    <3>1. <<>> \in Seq(RunRec) /\ Len(<<>>) = 0 /\ 0 + 0 <= Len(Scope)  BY <2>2
    <3>2. \A i \in 1..Len(<<>>) : <<>>[i].print = Scope[0 + i].print  BY <3>1
    <3> QED  BY <2>2, <3>1, <3>2, BoundedPart
  <2>4. Scope' = Scope \/ Scope' = <<>>  BY <1>3, <1>11, <1>12
  <2> QED  BY <2>1, <2>2, <2>3, <2>4 DEF WithinLimits
<1>14. RowInv'
  <2>1. CASE RowEmpty
    <3>1. RowEmpty'  BY <1>3, <2>1 DEF RowEmpty
    <3> QED  BY <3>1 DEF RowInv
  <2>2. CASE ~RowEmpty
    <3>0. mode = "chain" /\ session = "started"  BY <1>1, <2>2 DEF RowInv, RowAnswered, RowCalled
    <3>1. mark' = mark /\ Scope' = Scope /\ Past' = Past  BY <1>3, <1>11, <3>0
    <3>2. CASE RowAnswered
      <4>1. items'[Len(items')].kind = "user"  BY <1>4, <1>8
      <4>2. RowAnswered'  BY <1>3, <1>8, <3>1, <3>2, <4>1 DEF RowAnswered
      <4> QED  BY <4>2 DEF RowInv
    <3>3. CASE RowCalled
      <4>1. ~OpenCall  BY <1>3, <3>0
      <4>2. PICK c : Waits(c) /\ Executed(c)  BY <3>3, <4>1 DEF RowCalled
      <4>3. Waits(c)'
        <5>1. /\ c \in 1..n /\ items[c].kind = "call" /\ row.pending = [id |-> c, print |-> items[c].print]
              /\ \A j \in (c + 1)..n : items[j].kind # "call"
          BY <4>2 DEF Waits
        <5>2. n \in Nat /\ c \in 1..(n + 1) /\ items'[c] = items[c]  BY <1>1, <1>8, <5>1 DEF ItemsInv
        <5>3. ASSUME NEW j \in (c + 1)..(n + 1) PROVE items'[j].kind # "call"
          <6>1. CASE j = n + 1  BY <1>4, <1>8, <6>1
          <6>2. CASE j # n + 1
            <7>1. j \in (c + 1)..n /\ j \in 1..n  BY <5>1, <5>2, <6>2
            <7> QED  BY <1>8, <5>1, <7>1
          <6> QED  BY <6>1, <6>2
        <5> QED  BY <1>3, <1>8, <5>1, <5>2, <5>3 DEF Waits
      <4>4. Executed(c)'  BY <1>3, <3>1, <4>2 DEF Executed
      <4>5. RowCalled'  BY <1>3, <1>8, <3>0, <4>3, <4>4 DEF RowCalled
      <4> QED  BY <4>5 DEF RowInv
    <3> QED  BY <1>1, <2>2, <3>2, <3>3 DEF RowInv
  <2> QED  BY <2>1, <2>2
<1>15. ClaimsBacked'
  <2> DEFINE task == SubSeq(ran, m + 1, m)
  <2>1. task = <<>>  BY <1>1, <1>5 DEF RanInv
  <2>2. SubSeq(ran', asked' + 1, Len(ran')) = <<>>  BY <1>3, <2>1
  <2>3. \A a : Classified(<<>>, a) = {}  BY DEF Classified
  <2>4. ClaimsBacked  BY DEF LedgerProtocol
  <2>5. reply'.kind = "answer" =>
            \A c \in reply'.claims \ {Complete} :
                /\ Classified(ran', c) # {}
                /\ \A i \in DOMAIN ran' : Latest(ran', c, i) => ran'[i].outcome = "ok"
    BY <1>3, <2>4 DEF ClaimsBacked
  <2> DEFINE t == SubSeq(ran', asked' + 1, Len(ran'))
  <2> HIDE DEF t
  <2>6. t = <<>>  BY <2>2 DEF t
  <2>7. /\ \A a \in Actions : \A i \in DOMAIN t : Latest(t, a, i) => t[i].outcome = "ok"
        /\ \A i \in Classified(t, NoAction) : t[i].outcome = "ok"
    <3>1. DOMAIN t = {}  BY <2>6
    <3> QED  BY <2>3, <2>6, <3>1
  <2> QED  BY <2>2, <2>5, <2>7 DEF ClaimsBacked, t
<1>16. (reply.claims # {} => ~OpenCall)'
  BY <1>8
<1>17. TypeInv' /\ LedgerInv' /\ HonestNotRefused'
  <2>1. TypeInv' /\ LedgerInv'  BY <1>1, <1>3 DEF TypeInv, LedgerInv
  <2>2. Whole' <=> Whole  BY <1>3 DEF Whole
  <2>3. WithinLimits(ran)' <=> WithinLimits(ran)  BY <1>3 DEF WithinLimits
  <2>4. HonestNotRefused  BY DEF LedgerProtocol
  <2>5. HonestNotRefused'  BY <1>3, <1>10, <2>2, <2>3, <2>4 DEF HonestNotRefused
  <2> QED  BY <2>1, <2>5
<1>18. HistoryInv'
  BY <1>3, <1>7, <1>8, <1>9, <1>10 DEF HistoryInv
<1> QED  BY <1>13, <1>14, <1>15, <1>16, <1>17, <1>18 DEF LedgerProtocol

-----------------------------------------------------------------------------
(* Completion evidence.                                                    *)

\* An execution of the ledger is one of the evidence.
LEMMA EvidencePlace ==
    ASSUME NEW c \in Seq(Evid), NEW d \in Seq(Evid), SameTimes(c, d), NEW p \in Prints
    PROVE  (\E x \in DOMAIN c : c[x].print = p) <=> (\E x \in DOMAIN d : d[x].print = p)
<1>1. Times(c, p) = Times(d, p)
  BY DEF SameTimes
<1>2. Times(c, p) = 0 <=> At(c, p) = {}
  BY AtFinite
<1>3. Times(d, p) = 0 <=> At(d, p) = {}
  BY AtFinite
<1>4. (At(c, p) = {}) <=> (At(d, p) = {})
  BY <1>1, <1>2, <1>3
<1> QED  BY <1>4 DEF At

\* The last execution of a class, here and there.
LEMMA LatestMirrored ==
    ASSUME NEW c \in Seq(Evid), NEW d \in Seq(Evid), Mirrors(c, d), NEW a, LatestSucceeds(c, a)
    PROVE  /\ Classified(d, a) # {}
           /\ \A j \in DOMAIN d : Latest(d, a, j) => ~d[j].failed
<1>1. PICK i \in DOMAIN c : Latest(c, a, i) /\ ~c[i].failed
  BY DEF LatestSucceeds
<1> DEFINE q == c[i].print
<1>2. /\ DOMAIN c = 1..Len(c) /\ DOMAIN d = 1..Len(d) /\ Len(c) \in Nat /\ Len(d) \in Nat
      /\ \A x \in DOMAIN c : c[x] \in Evid
      /\ \A x \in DOMAIN d : d[x] \in Evid
  OBVIOUS
<1>3. q \in Prints /\ ActionOf[q] = a
  <2>1. c[i] \in Evid  BY <1>1, <1>2
  <2>2. i \in Classified(c, a)  BY <1>1 DEF Latest
  <2> QED  BY <2>1, <2>2 DEF Evid, Classified
<1>4. \E x \in DOMAIN d : d[x].print = q
  BY <1>1, <1>3, EvidencePlace DEF Mirrors
<1>5. Classified(d, a) # {}
  BY <1>3, <1>4 DEF Classified
<1>6. ASSUME NEW j \in DOMAIN d, Latest(d, a, j), d[j].failed PROVE FALSE
  <2> DEFINE p == d[j].print
  <2>1. p \in Prints /\ ActionOf[p] = a
    <3>1. d[j] \in Evid  BY <1>2
    <3>2. j \in Classified(d, a)  BY <1>6 DEF Latest
    <3> QED  BY <3>1, <3>2 DEF Evid, Classified
  <2>2. \A y \in DOMAIN d : d[y].print = p \/ d[y].print = q => y <= j
    <3>1. \A y \in DOMAIN d : d[y].print = p \/ d[y].print = q => y \in Classified(d, a)
      BY <1>3, <2>1 DEF Classified
    <3> QED  BY <1>6, <3>1 DEF Latest
  <2>3. LastFails(d, p)  BY <1>6, <2>2 DEF LastFails
  <2>4. LastFails(c, p)  BY <2>1, <2>3 DEF Mirrors, KeepsFailed
  <2> HIDE DEF p, q
  <2>5. PICK x \in DOMAIN c : /\ c[x].print = p /\ c[x].failed
                              /\ \A y \in DOMAIN c : c[y].print = p => y <= x
    BY <2>4 DEF LastFails
  <2>6. x <= i
    <3>1. x \in Classified(c, a)  BY <2>1, <2>5 DEF Classified
    <3> QED  BY <1>1, <3>1 DEF Latest
  <2>7. x # i  BY <1>1, <2>5
  <2>8. x < i  BY <1>1, <1>2, <2>6, <2>7
  <2>9. Before(c, p, q)
    <3>1. \A y \in DOMAIN c : c[y].print = p => y < i  BY <1>1, <1>2, <2>5, <2>8
    <3> QED  BY <1>1, <3>1 DEF Before, q
  <2>10. Before(d, p, q)  BY <1>3, <2>1, <2>9 DEF Mirrors, KeepsOrder
  <2>11. PICK y \in DOMAIN d : d[y].print = q /\ \A z \in DOMAIN d : d[z].print = p => z < y
    BY <2>10 DEF Before
  <2>12. j < y  BY <2>11 DEF p
  <2>13. y <= j  BY <2>2, <2>11
  <2> QED  BY <1>2, <2>11, <2>12, <2>13
<1> QED  BY <1>5, <1>6

\* The executions of the evidence are the last ones.
LEMMA TailPlace ==
    ASSUME RanInv, NEW r \in 0..Len(ran)
    PROVE  /\ Evidence(RanAfter(r)) \in Seq(Evid) /\ DOMAIN Evidence(RanAfter(r)) = 1..(Len(ran) - r)
           /\ Len(ran) \in Nat /\ r \in Nat /\ DOMAIN ran = 1..Len(ran)
           /\ \A i \in 1..(Len(ran) - r) :
                 /\ r + i \in DOMAIN ran
                 /\ Evidence(RanAfter(r))[i].print = ran[r + i].print
                 /\ ran[r + i].print \in Prints
                 /\ ~Evidence(RanAfter(r))[i].failed <=> ran[r + i].outcome = "ok"
<1> DEFINE t == RanAfter(r)  e == Evidence(t)  m == Len(ran) - r
<1>1. /\ t \in Seq(RunRec) /\ Len(t) = m /\ Len(ran) \in Nat
      /\ \A i \in 1..m : t[i] = ran[r + i]
  BY TailFields
<1> HIDE DEF t
<1>2. /\ e \in Seq(Evid) /\ DOMAIN e = 1..m
      /\ \A i \in 1..m : e[i] = Entry(t[i]) /\ t[i] \in RunRec
  BY <1>1, EvidenceFields
<1>3. ran \in Seq(RunRec) /\ r \in Nat /\ DOMAIN ran = 1..Len(ran) /\ r <= Len(ran)
  BY <1>1 DEF RanInv
<1> HIDE DEF e
<1>4. ASSUME NEW i \in 1..m
      PROVE  /\ r + i \in DOMAIN ran /\ e[i].print = ran[r + i].print
             /\ ran[r + i].print \in Prints
             /\ ~e[i].failed <=> ran[r + i].outcome = "ok"
  <2>1. r + i \in DOMAIN ran  BY <1>1, <1>3
  <2> DEFINE y == ran[r + i]
  <2>2. y \in RunRec /\ e[i] = Entry(y)  BY <1>1, <1>2, <1>4
  <2> HIDE DEF y
  <2>3. e[i].print = y.print /\ y.print \in Prints /\ y.outcome \in Outcomes
    BY <2>2, EntryType DEF RunRec
  <2>4. e[i].failed = (y.outcome \in Failures)  BY <2>2, EntryType
  <2>5. y.outcome \in Failures \/ y.outcome = "ok"  BY <2>3 DEF Outcomes
  <2>6. "ok" \notin Failures  BY LedgerAssumption
  <2>7. ~e[i].failed <=> y.outcome = "ok"  BY <2>4, <2>5, <2>6
  <2> QED  BY <2>1, <2>3, <2>7 DEF y
<1> QED  BY <1>1, <1>2, <1>3, <1>4 DEF e, t

LEMMA LatestBacked ==
    ASSUME RanInv, NEW r \in 0..Len(ran), NEW c \in Seq(Evid), Mirrors(c, Evidence(RanAfter(r))),
           NEW a, LatestSucceeds(c, a)
    PROVE  /\ Classified(ran, a) # {}
           /\ \A i \in DOMAIN ran : Latest(ran, a, i) => ran[i].outcome = "ok"
<1> DEFINE d == Evidence(RanAfter(r))  m == Len(ran) - r
<1>1. /\ d \in Seq(Evid) /\ DOMAIN d = 1..m /\ Len(ran) \in Nat /\ r \in Nat /\ DOMAIN ran = 1..Len(ran)
      /\ \A i \in 1..m : /\ r + i \in DOMAIN ran /\ d[i].print = ran[r + i].print
                         /\ ~d[i].failed <=> ran[r + i].outcome = "ok"
  BY TailPlace
<1>2. /\ Classified(d, a) # {}
      /\ \A j \in DOMAIN d : Latest(d, a, j) => ~d[j].failed
  BY <1>1, LatestMirrored
<1> HIDE DEF d
<1>3. PICK x \in DOMAIN d : ActionOf[d[x].print] = a
  BY <1>2 DEF Classified
<1>4. r + x \in Classified(ran, a)
  BY <1>1, <1>3 DEF Classified
<1>5. ASSUME NEW i \in DOMAIN ran, Latest(ran, a, i) PROVE ran[i].outcome = "ok"
  <2>1. r + x <= i /\ x \in Nat /\ x >= 1  BY <1>1, <1>3, <1>4, <1>5 DEF Latest
  <2> DEFINE j == i - r
  <2>2. j \in 1..m /\ r + j = i  BY <1>1, <2>1
  <2> HIDE DEF j
  <2>3. ActionOf[d[j].print] = a
    <3>1. i \in Classified(ran, a)  BY <1>5 DEF Latest
    <3> QED  BY <1>1, <2>2, <3>1 DEF Classified
  <2>4. ASSUME NEW y \in Classified(d, a) PROVE y <= j
    <3>1. y \in 1..m /\ ActionOf[d[y].print] = a  BY <1>1, <2>4 DEF Classified
    <3>2. r + y \in Classified(ran, a)  BY <1>1, <3>1 DEF Classified
    <3>3. r + y <= i  BY <1>5, <3>2 DEF Latest
    <3> QED  BY <1>1, <2>2, <3>1, <3>3
  <2>5. Latest(d, a, j)
    <3>1. j \in Classified(d, a)  BY <1>1, <2>2, <2>3 DEF Classified
    <3> QED  BY <2>4, <3>1 DEF Latest
  <2>6. ~d[j].failed  BY <1>1, <1>2, <2>2, <2>5
  <2> QED  BY <1>1, <2>2, <2>6
<1> QED  BY <1>4, <1>5

\* genericCompletionSupported, for the executions since the user's last message.
LEMMA GenericBacked ==
    ASSUME RanInv, asked \in 0..Len(ran), NEW r \in 0..asked, NEW c \in Seq(Evid),
           Mirrors(c, Evidence(RanAfter(r))), GenericSupported(c)
    PROVE  LET task == SubSeq(ran, asked + 1, Len(ran))
           IN  /\ \A a \in Actions : \A i \in DOMAIN task : Latest(task, a, i) => task[i].outcome = "ok"
               /\ \A i \in Classified(task, NoAction) : task[i].outcome = "ok"
<1> DEFINE task == SubSeq(ran, asked + 1, Len(ran))  n == Len(ran) - asked
           d == Evidence(RanAfter(r))  m == Len(ran) - r
<1>1. /\ task \in Seq(RunRec) /\ DOMAIN task = 1..n /\ Len(ran) \in Nat
      /\ \A i \in 1..n : task[i] = ran[asked + i]
  <2>1. task = RanAfter(asked)  BY DEF RanAfter
  <2> QED  BY <2>1, TailFields
<1>2. r \in 0..Len(ran) /\ r <= asked /\ asked \in Nat
  BY <1>1
<1>3. /\ d \in Seq(Evid) /\ DOMAIN d = 1..m /\ r \in Nat /\ DOMAIN ran = 1..Len(ran)
      /\ \A i \in 1..m : /\ r + i \in DOMAIN ran /\ d[i].print = ran[r + i].print
                         /\ ran[r + i].print \in Prints
                         /\ ~d[i].failed <=> ran[r + i].outcome = "ok"
  BY <1>2, TailPlace
<1> HIDE DEF d, task
<1>4. ASSUME NEW i \in 1..n
      PROVE  /\ asked + i \in 1..Len(ran) /\ (asked - r) + i \in 1..m
             /\ r + ((asked - r) + i) = asked + i
  BY <1>1, <1>2, <1>3
<1>5. ASSUME NEW a \in Actions, NEW i \in DOMAIN task, Latest(task, a, i)
      PROVE  task[i].outcome = "ok"
  <2> DEFINE j == (asked - r) + i
  <2>1. i \in 1..n /\ asked + i \in 1..Len(ran) /\ j \in 1..m /\ r + j = asked + i  BY <1>1, <1>4
  <2>2. ActionOf[ran[asked + i].print] = a
    <3>1. i \in Classified(task, a)  BY <1>5 DEF Latest
    <3> QED  BY <1>1, <2>1, <3>1 DEF Classified
  <2> HIDE DEF j
  <2>3. d[j].print = ran[asked + i].print /\ ran[asked + i].print \in Prints  BY <1>3, <2>1
  <2>4. \E x \in DOMAIN c : c[x].print = ran[asked + i].print
    <3> DEFINE p == ran[asked + i].print
    <3>1. SameTimes(c, d)  BY DEF Mirrors, d
    <3>2. p \in Prints /\ \E x \in DOMAIN d : d[x].print = p  BY <1>3, <2>1, <2>3
    <3> HIDE DEF p
    <3>3. d \in Seq(Evid) /\ p \in Prints  BY <1>3, <3>2
    <3>4. (\E x \in DOMAIN c : c[x].print = p) <=> (\E x \in DOMAIN d : d[x].print = p)
      BY <3>1, <3>3, EvidencePlace
    <3> QED  BY <3>2, <3>4 DEF p
  <2>5. Classified(c, a) # {}  BY <2>2, <2>4 DEF Classified
  <2>6. LatestSucceeds(c, a)  BY <2>5 DEF GenericSupported
  <2>7. \A k \in DOMAIN ran : Latest(ran, a, k) => ran[k].outcome = "ok"
    BY <1>2, <2>6, LatestBacked
  <2>8. Latest(ran, a, asked + i)
    <3>1. asked + i \in Classified(ran, a)  BY <1>3, <2>1, <2>2 DEF Classified
    <3>2. ASSUME NEW k \in Classified(ran, a) PROVE k <= asked + i
      <4>1. k \in 1..Len(ran) /\ ActionOf[ran[k].print] = a  BY <1>3 DEF Classified
      <4>2. CASE k <= asked  BY <1>1, <1>2, <2>1, <4>1, <4>2
      <4>3. CASE ~(k <= asked)
        <5> DEFINE y == k - asked
        <5>1. y \in 1..n /\ asked + y = k  BY <1>1, <1>2, <4>1, <4>3
        <5> HIDE DEF y
        <5>2. y \in Classified(task, a)  BY <1>1, <4>1, <5>1 DEF Classified
        <5>3. y <= i  BY <1>5, <5>2 DEF Latest
        <5> QED  BY <1>2, <2>1, <5>1, <5>3
      <4> QED  BY <4>2, <4>3
    <3> QED  BY <3>1, <3>2 DEF Latest
  <2> QED  BY <1>1, <1>3, <2>1, <2>7, <2>8
<1>6. ASSUME NEW i \in Classified(task, NoAction) PROVE task[i].outcome = "ok"
  <2> DEFINE j == (asked - r) + i
  <2>0. i \in 1..n  BY <1>1, <1>6 DEF Classified
  <2>1. asked + i \in 1..Len(ran) /\ j \in 1..m /\ r + j = asked + i  BY <1>4, <2>0
  <2> DEFINE p == ran[asked + i].print
  <2>2. ActionOf[p] = NoAction  BY <1>1, <1>6, <2>0 DEF Classified
  <2> HIDE DEF j
  <2>3. d[j].print = p /\ p \in Prints  BY <1>3, <2>1
  <2> HIDE DEF p
  <2>4. ASSUME d[j].failed PROVE FALSE
    <3>1. SomeFails(d, p)  BY <1>3, <2>1, <2>3, <2>4 DEF SomeFails
    <3>2. SomeFails(c, p)  BY <2>3, <3>1 DEF Mirrors, KeepsFailed, d
    <3>3. PICK x \in DOMAIN c : c[x].print = p /\ c[x].failed  BY <3>2 DEF SomeFails
    <3>4. x \in Classified(c, NoAction)  BY <2>2, <3>3 DEF Classified
    <3> QED  BY <3>3, <3>4 DEF GenericSupported
  <2> QED  BY <1>1, <1>3, <2>0, <2>1, <2>4
<1> QED  BY <1>5, <1>6 DEF task

LEMMA EndOfEnd ==
    ASSUME NEW S, NEW s \in Seq(S), NEW a \in 1..Len(s), NEW b \in 1..(Len(s) - a + 1)
    PROVE  SubSeq(SubSeq(s, a, Len(s)), b, Len(s) - a + 1) = SubSeq(s, a + b - 1, Len(s))
<1> DEFINE n == Len(s)  w == SubSeq(s, a, n)  k == n - a + 1  A == SubSeq(w, b, k)
           d == a + b - 1  B == SubSeq(s, d, n)  m == k - b + 1
<1>1. n \in Nat /\ a \in 1..n /\ k \in Nat /\ b \in 1..k /\ d \in 1..n /\ m \in Nat /\ m = n - d + 1
  OBVIOUS
<1>2. w \in Seq(S) /\ Len(w) = k /\ \A i \in 1..k : w[i] = s[a + i - 1]
  BY <1>1
<1> HIDE DEF w
<1>3. A \in Seq(S) /\ Len(A) = m /\ \A i \in 1..m : A[i] = w[b + i - 1]
  BY <1>1, <1>2
<1>4. B \in Seq(S) /\ Len(B) = m /\ \A i \in 1..m : B[i] = s[d + i - 1]
  <2>1. B \in Seq(S) /\ Len(B) = n - d + 1  BY <1>1
  <2>2. \A i \in 1..(n - d + 1) : B[i] = s[d + i - 1]  BY <1>1
  <2> QED  BY <1>1, <2>1, <2>2
<1> HIDE DEF A, B
<1>5. ASSUME NEW i \in 1..m PROVE A[i] = B[i]
  <2>1. b + i - 1 \in 1..k /\ a + (b + i - 1) - 1 = d + i - 1  BY <1>1
  <2>2. w[b + i - 1] = s[a + (b + i - 1) - 1]  BY <1>2, <2>1
  <2> QED  BY <1>3, <1>4, <2>1, <2>2
<1>6. A \in Seq(S) /\ B \in Seq(S) /\ Len(A) = Len(B) /\ \A i \in 1..Len(A) : A[i] = B[i]
  BY <1>3, <1>4, <1>5
<1>7. A = B  BY ONLY <1>6
<1> QED  BY <1>7 DEF A, B, w

\* The window of the evidence reaches back to the user's last message.
LEMMA EvidenceStart ==
    ASSUME ItemsInv, NEW u, Asked(u), Len(items) - u < EvidenceLimit
    PROVE  \E a \in 1..(u + 1) : EvidenceItems(items) = SubSeq(items, a, Len(items))
<1> DEFINE n == Len(items)
           tasks == {i \in DOMAIN items : IsUser(items[i]) /\ ~items[i].continues}
           users == {i \in DOMAIN items : IsUser(items[i])}
           start == IF tasks # {} THEN Max(tasks) ELSE IF users # {} THEN Min(users) ELSE 1
           w == SubSeq(items, start, n)
<1>1. items \in Seq(Item) /\ n \in Nat /\ DOMAIN items = 1..n /\ u \in 1..n /\ EvidenceLimit \in Nat
  BY LedgerAssumption DEF ItemsInv, Asked
<1>2. EvidenceItems(items) = LastOf(w, EvidenceLimit)
  BY DEF EvidenceItems
<1>3. users \subseteq Nat /\ tasks \subseteq users /\ u \in users
  BY <1>1 DEF Asked, IsUser
<1>4. \A i \in users : i \in 1..n /\ i <= u
  <2>1. \A i \in users : i \in 1..n /\ items[i].kind = "user"  BY <1>1 DEF IsUser
  <2> QED  BY <1>1, <2>1 DEF Asked
<1> HIDE DEF users, tasks
<1>5. start \in users
  <2>1. CASE tasks # {}
    <3> DEFINE D == {n - i : i \in tasks}
    <3>1. D \in SUBSET Nat /\ D # {}
      <4>1. ASSUME NEW i \in tasks PROVE n - i \in Nat
        <5>1. i \in 1..n  BY <1>3, <1>4
        <5> QED  BY <1>1, <5>1
      <4> QED  BY <2>1, <4>1
    <3>2. PICK d \in D : \A y \in D : d <= y  BY <3>1, LeastNat
    <3>3. PICK i \in tasks : d = n - i  BY <3>2
    <3>4. \A y \in tasks : n - y \in D  OBVIOUS
    <3>5. \A y \in tasks : n - i <= n - y  BY <3>2, <3>3, <3>4
    <3>6. \A y \in tasks : y \in Nat /\ y <= n  BY <1>1, <1>3, <1>4
    <3>7. \A y \in tasks : i >= y  BY <1>1, <3>5, <3>6
    <3>8. Max(tasks) \in tasks  BY <3>7 DEF Max
    <3> QED  BY <1>3, <2>1, <3>8
  <2>2. CASE tasks = {}
    <3>1. \E m \in users : \A y \in users : m <= y  BY <1>3, LeastNat
    <3>2. Min(users) \in users  BY <3>1 DEF Min
    <3> QED  BY <1>3, <2>2, <3>2
  <2> QED  BY <2>1, <2>2
<1> HIDE DEF start
<1>6. start \in 1..n /\ start <= u
  BY <1>4, <1>5
<1>7. Len(w) = n - start + 1 /\ Len(w) \in Nat
  BY <1>1, <1>6
<1>8. CASE Len(w) > EvidenceLimit
  <2> DEFINE b == Len(w) - EvidenceLimit + 1  a == start + b - 1
  <2>1. b \in 1..(n - start + 1) /\ a \in 1..(u + 1)  BY <1>1, <1>6, <1>7, <1>8
  <2>2. LastOf(w, EvidenceLimit) = SubSeq(w, b, Len(w))  BY <1>8 DEF LastOf
  <2>3. Len(w) = n - start + 1  BY <1>7
  <2> HIDE DEF b
  <2>4. SubSeq(w, b, n - start + 1) = SubSeq(items, a, n)  BY <1>1, <1>6, <2>1, EndOfEnd
  <2> QED  BY <1>2, <2>1, <2>2, <2>3, <2>4
<1>9. CASE ~(Len(w) > EvidenceLimit)
  <2>1. LastOf(w, EvidenceLimit) = SubSeq(w, 1, Len(w))  BY <1>9 DEF LastOf
  <2>2. SubSeq(w, 1, Len(w)) = w
    <3>1. w \in Seq(Item)  BY <1>1, <1>6
    <3> HIDE DEF w
    <3> QED  BY <3>1
  <2>3. start \in 1..(u + 1)  BY <1>1, <1>6
  <2> QED  BY <1>2, <2>1, <2>2, <2>3
<1> QED  BY <1>8, <1>9

\* Which executions the items from a on hold.
LEMMA RanBefore ==
    ASSUME RanInv, NEW a \in Nat
    PROVE  \E r \in 0..Len(ran) : \A k \in 1..Len(ran) : k <= r <=> ran[k].call < a
<1> DEFINE S == {k \in 1..Len(ran) : ~(ran[k].call < a)}
<1>1. /\ Len(ran) \in Nat /\ \A k \in 1..Len(ran) : ran[k].call \in Nat
      /\ \A k, m \in 1..Len(ran) : k < m => ran[k].call < ran[m].call
  BY DEF RanInv
<1>2. CASE S = {}
  <2>1. Len(ran) \in 0..Len(ran) /\ \A k \in 1..Len(ran) : k <= Len(ran) /\ ran[k].call < a
    BY <1>1, <1>2
  <2> QED  BY <2>1
<1>3. CASE S # {}
  <2>1. S \in SUBSET Nat  BY <1>1
  <2>2. PICK x \in S : \A y \in S : x <= y  BY <1>3, <2>1, LeastNat
  <2> DEFINE r == x - 1
  <2>3. r \in 0..Len(ran) /\ x \in 1..Len(ran) /\ ~(ran[x].call < a)  BY <1>1, <2>2
  <2>4. ASSUME NEW k \in 1..Len(ran) PROVE k <= r <=> ran[k].call < a
    <3>1. CASE k <= r
      <4>1. k \notin S  BY <1>1, <2>2, <2>3, <3>1
      <4> QED  BY <3>1, <4>1
    <3>2. CASE ~(k <= r)
      <4>1. k = x \/ x < k  BY <1>1, <2>3, <3>2
      <4>2. x < k => ran[x].call < ran[k].call  BY <1>1, <2>3
      <4>3. ran[x].call \in Nat /\ ran[k].call \in Nat  BY <1>1, <2>3
      <4> QED  BY <2>3, <3>2, <4>1, <4>2, <4>3
    <3> QED  BY <3>1, <3>2
  <2> QED  BY <2>3, <2>4
<1> QED  BY <1>2, <1>3

\* c is what the executions after the first r left behind.
EvidenceOf(c, r) == c \in Seq(Evid) /\ Mirrors(c, Evidence(RanAfter(r)))

LEMMA ReplayEvidence ==
    ASSUME ItemsInv, RanInv, NEW u, Since(u), mark = asked, WithinLimits(Scope), ~OpenCall
    PROVE  \E r \in 0..asked :
              EvidenceOf(ParseToolLedger(EmptyRow, EvidenceItems(items)).completed, r)
<1> DEFINE n == Len(items)
<1>1. /\ n \in Nat /\ u \in 1..n /\ Len(ran) \in Nat /\ asked \in 0..Len(ran)
      /\ n - u = 2 * (Len(ran) - asked) + 0
  BY DEF ItemsInv, RanInv, Since
<1>2. n - u < EvidenceLimit
  <2>1. Len(Scope) = Len(ran) - asked  BY <1>1, CourseFields
  <2>2. Len(Scope) <= MaxToolRounds  BY DEF WithinLimits
  <2>3. EvidenceLimit > 2 * MaxToolRounds /\ MaxToolRounds \in Nat /\ EvidenceLimit \in Nat
    BY LedgerAssumption
  <2> DEFINE d == Len(ran) - asked
  <2>4. d \in Nat /\ d <= MaxToolRounds  BY <1>1, <2>1, <2>2
  <2>5. n - u = 2 * d  BY <1>1, <2>4
  <2> HIDE DEF d
  <2> QED  BY <2>3, <2>4, <2>5
<1>3. Asked(u)
  BY DEF Since, Asked
<1>4. PICK a \in 1..(u + 1) : EvidenceItems(items) = SubSeq(items, a, n)
  BY <1>2, <1>3, EvidenceStart
<1> DEFINE s == Parsed(a, n)
<1>5. ParseToolLedger(EmptyRow, EvidenceItems(items)) = s
  BY <1>4, EmptyParse DEF Parsed
<1>6. a \in Nat /\ a \in 1..(n + 1) /\ n \in (a - 1)..n
  BY <1>1
<1>7. PICK r \in 0..Len(ran) : \A k \in 1..Len(ran) : k <= r <=> ran[k].call < a
  BY <1>6, RanBefore
<1>8. r <= asked
  <2>1. ASSUME ~(r <= asked) PROVE FALSE
    <3> DEFINE k == asked + 1
    <3>1. k \in 1..Len(ran) /\ k <= r /\ ~(k <= asked)  BY <1>1, <1>7, <2>1
    <3> HIDE DEF k
    <3>2. ran[k].call < a  BY <1>7, <3>1
    <3>3. ~(ran[k].call < u)  BY <3>1 DEF Since
    <3>4. ran[k].call \in Nat /\ items[ran[k].call].kind = "call" /\ items[u].kind = "user"
      BY <3>1 DEF RanInv, Since
    <3>5. ran[k].call # u  BY <3>4
    <3> QED  BY <1>1, <3>2, <3>3, <3>4, <3>5
  <2> QED  BY <2>1
<1>9. Seen(s, a, n, r)
  BY <1>6, <1>7, ParseSeen
<1> HIDE DEF s
<1>10. s.completed \in Seq(Evid) /\ Done(s.completed, a, Len(items), r)
  BY <1>9 DEF Seen, LedgerRec
<1>11. s.completed = Evidence(RanAfter(r))
  BY <1>6, <1>7, <1>10, DoneAll
<1>12. EvidenceOf(s.completed, r)
  BY <1>10, <1>11, MirrorsSelf DEF EvidenceOf
<1>13. r \in 0..asked
  BY <1>1, <1>7, <1>8
<1> QED  BY <1>5, <1>12, <1>13

\* The evidence of an answer, in every mode.
LEMMA AnswerEvidence ==
    ASSUME HistoryInv, WithinLimits(Course), ~OpenCall, Knows(ledger)
    PROVE  \E r \in 0..asked : EvidenceOf(CompletionLedger.completed, r)
<1>1. ItemsInv /\ RanInv /\ mark \in 0..asked /\ mark \in 0..Len(ran)
  BY HistoryFields
<1>2. PICK u : Since(u)
  BY DEF HistoryInv
<1>3. Course = Scope
  BY DEF Course
<1>4. CASE mode # "chat"
  <2>1. CompletionLedger = ledger  BY <1>4 DEF CompletionLedger
  <2>2. Covered = RanAfter(since) /\ since \in 0..mark  BY <1>1, CoveredIs
  <2>3. EvidenceOf(ledger.completed, since)  BY <2>2 DEF EvidenceOf, Knows, LedgerRec
  <2>4. since \in 0..asked
    <3>1. asked \in Nat  BY <1>2 DEF Since
    <3> QED  BY <1>1, <2>2, <3>1
  <2> QED  BY <2>1, <2>3, <2>4
<1>5. CASE mode = "chat"
  <2>1. CompletionLedger = ParseToolLedger(EmptyRow, EvidenceItems(items))  BY <1>5 DEF CompletionLedger
  <2>2. mark = asked  BY <1>5 DEF mark
  <2>3. WithinLimits(Scope)  BY <1>3
  <2> QED  BY <1>1, <1>2, <2>1, <2>2, <2>3, ReplayEvidence
<1> QED  BY <1>4, <1>5

-----------------------------------------------------------------------------
(* The steps of the gateway.                                               *)

\* What holds when the gateway answers.
LEMMA AtGateway ==
    ASSUME LedgerProtocol, turn = "gateway"
    PROVE  /\ TypeInv /\ HistoryInv /\ ItemsInv /\ RanInv /\ mark \in 0..asked /\ mark \in 0..Len(ran)
           /\ WithinLimits(Course) /\ WithinLimits(Scope) /\ RowInv
           /\ ~OpenCall /\ reply.kind = "none" /\ Knows(ledger)
<1>1. TypeInv /\ HistoryInv /\ WithinLimits(Course) /\ RowInv
  BY DEF LedgerProtocol
<1>2. ~OpenCall /\ reply.kind = "none" /\ Knows(ledger)
  BY DEF LedgerProtocol, LedgerInv
<1>3. ItemsInv /\ RanInv /\ mark \in 0..asked /\ mark \in 0..Len(ran)
  BY <1>1, HistoryFields
<1>4. Course = Scope
  BY <1>2 DEF Course
<1> QED  BY <1>1, <1>2, <1>3, <1>4

\* A reply that claims nothing.
LEMMA SilentReply ==
    ASSUME TypeInv, mode' = mode, session' \in {"new", "started", "lost"}, turn' = "client",
           NEW kind \in {"call", "stopped", "failed"},
           reply' = [kind |-> kind, claims |-> {}, honest |-> TRUE]
    PROVE  /\ TypeInv' /\ LedgerInv' /\ HonestNotRefused'
           /\ ClaimsBacked' /\ (reply.claims # {} => ~OpenCall)'
<1>1. reply'.claims = {} /\ reply'.kind = kind
  OBVIOUS
<1>2. TypeInv'
  <2>1. reply' \in [kind : {"none", "call", "answer", "prose", "stopped", "refused", "failed", "gone"},
                    claims : SUBSET (Actions \cup {Complete}), honest : BOOLEAN]
    OBVIOUS
  <2> QED  BY <2>1 DEF TypeInv
<1>3. LedgerInv'
  BY DEF LedgerInv
<1>4. HonestNotRefused'
  BY <1>1 DEF HonestNotRefused
<1> QED  BY <1>1, <1>2, <1>3, <1>4, NoClaims

LEMMA HandOutStep ==
    ASSUME LedgerProtocol, NEW p \in Prints, HandOut(p)
    PROVE  LedgerProtocol'
<1> DEFINE n == Len(items)  x == Call(n + 1, p)
           y == [call |-> n + 1, print |-> p, outcome |-> "ok"]
           snapshot == CompletedToolSnapshots(ledger.completed)
<1>1. /\ turn = "gateway" /\ turn' = "client" /\ n < MaxItems
      /\ reply' = [kind |-> "call", claims |-> {}, honest |-> TRUE]
      /\ GuardProposedToolCall(ledger, p) = "allowed"
      /\ items' = Append(items, x)
      /\ mode' = mode /\ ran' = ran /\ asked' = asked
      /\ session' = IF mode = "chat" THEN session ELSE "started"
      /\ mode # "chain" => row' = EmptyRow
      /\ mode = "chain" => row' = [pending |-> [id |-> n + 1, print |-> p], snapshot |-> snapshot]
  BY DEF HandOut, Answered, SeedAlias
<1>2. /\ TypeInv /\ HistoryInv /\ ItemsInv /\ RanInv /\ mark \in 0..asked /\ mark \in 0..Len(ran)
      /\ WithinLimits(Scope) /\ RowInv /\ ~OpenCall /\ Knows(ledger)
  BY <1>1, AtGateway
<1>3. PICK u : Since(u)
  BY <1>2 DEF HistoryInv
<1>4. n \in Nat /\ x \in Item /\ x.kind = "call" /\ x.id = n + 1 /\ x.print = p
  BY <1>2 DEF ItemsInv, Item, Call
<1>5. Since(u)'
  BY <1>1, <1>2, <1>3, SinceCall
<1> HIDE DEF x
<1>6. /\ ItemsInv' /\ Len(items') = n + 1 /\ items'[n + 1] = x /\ OpenCall'
      /\ \A i \in 1..n : items'[i] = items[i]
  BY <1>1, <1>2, <1>4, ItemsGrow
<1>7. RanInv'
  BY <1>1, <1>2, <1>4, RanSame
<1>8. HistoryInv'
  <2>1. Abandoned' => Abandoned  BY <1>1, <1>2, <1>4, AbandonedGrow
  <2>2. mode' = "chain" => ~Abandoned'  BY <1>1, <1>2, <2>1 DEF HistoryInv
  <2> QED  BY <1>5, <1>6, <1>7, <2>2 DEF HistoryInv
<1>9. Scope' = Scope
  <2>1. mark' = mark  BY <1>1 DEF mark
  <2> QED  BY <1>1, <2>1 DEF Scope
<1>10. y \in RunRec /\ y.print = p
  BY <1>4 DEF RunRec, Outcomes
<1>11. OpenRun' = y
  BY <1>4, <1>6 DEF OpenRun, Last
<1> HIDE DEF y
<1>12. WithinLimits(Course)'
  <2>1. Course' = Append(Scope, y)  BY <1>6, <1>9, <1>11 DEF Course
  <2>2. WithinLimits(Append(Scope, y))  BY <1>1, <1>2, <1>10, AllowedBounded
  <2> DEFINE t == Append(Scope, y)
  <2> HIDE DEF t
  <2>3. WithinLimits(t) /\ Course' = t  BY <2>1, <2>2 DEF t
  <2> QED  BY <2>3 DEF WithinLimits
<1>13. RowInv'
  <2>1. CASE mode # "chain"
    <3>1. RowEmpty'  BY <1>1, <2>1 DEF RowEmpty
    <3> QED  BY <3>1 DEF RowInv
  <2>2. CASE mode = "chain"
    <3>1. mode' = "chain" /\ session' = "started"  BY <1>1, <2>2
    <3>2. row'.pending = [id |-> n + 1, print |-> p] /\ row'.snapshot = snapshot  BY <1>1, <2>2
    <3>3. Covers(snapshot, Evidence(Scope))  BY <1>2, <2>2, SavedCovers
    <3>4. Covers(row.snapshot, Evidence(Scope))'  BY <1>9, <3>2, <3>3
    <3>5. PICK c : c = n + 1  OBVIOUS
    <3>6. Waits(c)'
      <4>1. c \in 1..Len(items') /\ \A j \in (c + 1)..Len(items') : FALSE  BY <1>4, <1>6, <3>5
      <4>2. items'[c].kind = "call" /\ items'[c].print = p  BY <1>4, <1>6, <3>5
      <4>3. row'.pending = [id |-> c, print |-> items'[c].print]  BY <3>2, <3>5, <4>2
      <4> QED  BY <4>1, <4>2, <4>3 DEF Waits
    <3>7. RowCalled'  BY <1>6, <3>1, <3>4, <3>6 DEF RowCalled
    <3> QED  BY <3>7 DEF RowInv
  <2> QED  BY <2>1, <2>2
<1>14. /\ TypeInv' /\ LedgerInv' /\ HonestNotRefused'
       /\ ClaimsBacked' /\ (reply.claims # {} => ~OpenCall)'
  <2>1. session' \in {"new", "started", "lost"}  BY <1>1, <1>2 DEF TypeInv
  <2> QED  BY <1>1, <1>2, <2>1, SilentReply
<1> QED  BY <1>8, <1>12, <1>13, <1>14 DEF LedgerProtocol

\* A local ending keeps the row.
LEMMA EndStep ==
    ASSUME LedgerProtocol, Answered("stopped", {}) \/ Answered("failed", {}),
           UNCHANGED <<mode, session, items, row, ran, asked>>
    PROVE  LedgerProtocol'
<1>1. turn = "gateway" /\ turn' = "client"
  BY DEF Answered
<1>2. PICK kind \in {"call", "stopped", "failed"} :
            reply' = [kind |-> kind, claims |-> {}, honest |-> TRUE]
  BY DEF Answered
<1>3. TypeInv /\ HistoryInv /\ WithinLimits(Course) /\ RowInv /\ reply.kind = "none"
  BY <1>1, AtGateway
<1>4. HistoryInv' /\ WithinLimits(Course)'
  BY <1>3, SameHistory
<1>5. RowInv'
  BY <1>3, SameRow
<1>6. /\ TypeInv' /\ LedgerInv' /\ HonestNotRefused'
      /\ ClaimsBacked' /\ (reply.claims # {} => ~OpenCall)'
  <2>1. session' \in {"new", "started", "lost"}  BY <1>3 DEF TypeInv
  <2> QED  BY <1>1, <1>2, <1>3, <2>1, SilentReply
<1> QED  BY <1>4, <1>5, <1>6 DEF LedgerProtocol

\* abandonTurn: the next request finds no session.
LEMMA AbandonStep ==
    ASSUME LedgerProtocol, TurnFails(TRUE)
    PROVE  LedgerProtocol'
<1>1. /\ turn = "gateway" /\ turn' = "client" /\ row' = EmptyRow /\ session' \in {"new", "lost"}
      /\ reply' = [kind |-> "failed", claims |-> {}, honest |-> TRUE]
      /\ mode' = mode /\ items' = items /\ ran' = ran /\ asked' = asked
  BY DEF TurnFails, Answered, SessionLost
<1>2. TypeInv /\ HistoryInv /\ WithinLimits(Course)
  BY <1>1, AtGateway
<1>3. HistoryInv' /\ WithinLimits(Course)'
  BY <1>1, <1>2, SameHistory
<1>4. RowInv'
  BY <1>1 DEF RowInv, RowEmpty
<1>5. /\ TypeInv' /\ LedgerInv' /\ HonestNotRefused'
      /\ ClaimsBacked' /\ (reply.claims # {} => ~OpenCall)'
  <2>1. session' \in {"new", "started", "lost"}  BY <1>1
  <2> QED  BY <1>1, <1>2, <2>1, SilentReply
<1> QED  BY <1>3, <1>4, <1>5 DEF LedgerProtocol

LEMMA AnswerStep ==
    ASSUME LedgerProtocol, NEW claims \in Claims, NEW tools \in BOOLEAN, Answer(claims, tools)
    PROVE  LedgerProtocol'
<1> DEFINE context == HasToolContext(CompletionLedger, tools)
           kind == IF context THEN "answer" ELSE "prose"
           said == IF context /\ ~ClaimsSupported(CompletionLedger, claims) THEN {} ELSE claims
           snapshot == CompletedToolSnapshots(ledger.completed)
<1>1. /\ turn = "gateway" /\ turn' = "client"
      /\ reply' = [kind |-> kind, claims |-> said, honest |-> TRUE]
      /\ mode' = mode /\ items' = items /\ ran' = ran /\ asked' = asked
      /\ session' = IF mode = "chat" THEN session ELSE "started"
      /\ mode # "chain" => row' = EmptyRow
      /\ mode = "chain" => row' = [pending |-> NoCall, snapshot |-> snapshot]
  BY DEF Answer, Answered, SeedAlias
<1>2. /\ TypeInv /\ HistoryInv /\ ItemsInv /\ RanInv /\ mark \in 0..asked /\ mark \in 0..Len(ran)
      /\ WithinLimits(Course) /\ WithinLimits(Scope) /\ RowInv /\ ~OpenCall /\ Knows(ledger)
  BY <1>1, AtGateway
<1>3. HistoryInv' /\ WithinLimits(Course)' /\ Scope' = Scope /\ ~OpenCall'
  BY <1>1, <1>2, SameHistory
<1>4. said \in SUBSET (Actions \cup {Complete})
  BY DEF Claims
<1>5. mode \in {"chat", "keyed", "chain"} /\ session' \in {"new", "started", "lost"}
  BY <1>1, <1>2 DEF TypeInv
<1>6. PICK r \in 0..asked : EvidenceOf(CompletionLedger.completed, r)
  BY <1>2, AnswerEvidence
<1> DEFINE c == CompletionLedger.completed
<1>7. c \in Seq(Evid) /\ Mirrors(c, Evidence(RanAfter(r)))
  BY <1>6 DEF EvidenceOf
<1>8. /\ kind \in {"answer", "prose"}
      /\ kind = "answer" /\ said # {} => said = claims /\ ClaimsSupported(CompletionLedger, claims)
      /\ kind = "prose" => c = <<>>
  BY DEF HasToolContext
<1> HIDE DEF said, kind, context
<1>9. reply'.claims = said /\ reply'.kind = kind
  BY <1>1
<1>10. TypeInv'
  <2>1. reply' \in [kind : {"none", "call", "answer", "prose", "stopped", "refused", "failed", "gone"},
                    claims : SUBSET (Actions \cup {Complete}), honest : BOOLEAN]
    BY <1>1, <1>4, <1>8
  <2> QED  BY <1>1, <1>5, <2>1 DEF TypeInv
<1>11. RowInv'
  <2>1. CASE mode # "chain"
    <3>1. RowEmpty'  BY <1>1, <2>1 DEF RowEmpty
    <3> QED  BY <3>1 DEF RowInv
  <2>2. CASE mode = "chain"
    <3>1. mode' = "chain" /\ session' = "started"  BY <1>1, <2>2
    <3>2. row'.pending = NoCall /\ row'.snapshot = snapshot  BY <1>1, <2>2
    <3>3. Covers(snapshot, Evidence(Scope))  BY <1>2, <2>2, SavedCovers
    <3>4. Covers(row.snapshot, Evidence(Scope))'  BY <1>3, <3>2, <3>3
    <3>5. RowAnswered'  BY <1>3, <1>8, <1>9, <3>1, <3>2, <3>4 DEF RowAnswered
    <3> QED  BY <3>5 DEF RowInv
  <2> QED  BY <2>1, <2>2
<1>12. LedgerInv' /\ HonestNotRefused' /\ (reply.claims # {} => ~OpenCall)'
  BY <1>1, <1>3, <1>8, <1>9 DEF LedgerInv, HonestNotRefused
<1>13. asked \in 0..Len(ran) /\ r \in 0..Len(ran) /\ Len(ran) \in Nat
  BY <1>2, HistoryFields
<1> HIDE DEF c
<1>14. ASSUME kind = "answer", NEW a \in said \ {Complete}
       PROVE  /\ Classified(ran, a) # {}
              /\ \A i \in DOMAIN ran : Latest(ran, a, i) => ran[i].outcome = "ok"
  <2>1. LatestSucceeds(c, a)  BY <1>8, <1>14 DEF ClaimsSupported, c
  <2> QED  BY <1>2, <1>7, <1>13, <2>1, LatestBacked
<1> DEFINE task == SubSeq(ran, asked + 1, Len(ran))
<1>15. ASSUME kind = "answer", Complete \in said
       PROVE  /\ \A a \in Actions : \A i \in DOMAIN task : Latest(task, a, i) => task[i].outcome = "ok"
              /\ \A i \in Classified(task, NoAction) : task[i].outcome = "ok"
  <2>1. GenericSupported(c)  BY <1>8, <1>15 DEF ClaimsSupported, c
  <2> QED  BY <1>2, <1>7, <1>13, <2>1, GenericBacked
\* Without the context of tools this task has used none.
<1>16. kind = "prose" => task = <<>>
  <2>1. ASSUME kind = "prose" PROVE task = <<>>
    <3> DEFINE d == Evidence(RanAfter(r))
    <3>1. d \in Seq(Evid) /\ Len(d) = Len(ran) - r
      <4>1. RanAfter(r) \in Seq(RunRec) /\ Len(RanAfter(r)) = Len(ran) - r  BY <1>2, <1>13, TailFields
      <4> QED  BY <4>1, EvidenceFields
    <3>2. Len(c) = Len(d)  BY <1>7 DEF Mirrors, SameTimes
    <3>3. Len(c) = 0  BY <1>8, <2>1
    <3> HIDE DEF d
    <3>4. asked = Len(ran)  BY <1>13, <3>1, <3>2, <3>3
    <3>5. ran \in Seq(RunRec)  BY <1>2 DEF RanInv
    <3> QED  BY <1>13, <3>4, <3>5
  <2> QED  BY <2>1
<1>17. ClaimsBacked'
  <2>1. SubSeq(ran', asked' + 1, Len(ran')) = task  BY <1>1
  <2> HIDE DEF task
  <2>2. CASE kind = "answer"
    BY <1>1, <1>9, <1>14, <1>15, <2>1, <2>2, ZenonT(60) DEF ClaimsBacked
  <2>3. CASE kind = "prose"
    BY <1>9, <1>16, <2>1, <2>3 DEF ClaimsBacked
  <2> QED  BY <1>8, <2>2, <2>3
<1> QED  BY <1>3, <1>10, <1>11, <1>12, <1>17 DEF LedgerProtocol

-----------------------------------------------------------------------------
(* The invariant is inductive.                                             *)

LEMMA InitProtocol ==
    ASSUME Init
    PROVE  LedgerProtocol
<1> DEFINE x == User(FALSE)
<1>1. /\ mode \in {"chat", "keyed", "chain"} /\ session = "new" /\ items = <<x>> /\ row = EmptyRow
      /\ turn = "client" /\ reply = [kind |-> "none", claims |-> {}, honest |-> TRUE]
      /\ ran = <<>> /\ asked = 0 /\ mark = 0
  BY DEF Init, mark
<1>2. x \in Item /\ x.kind = "user"
  <2>1. \A c \in BOOLEAN : User(c) \in Item /\ User(c).kind = "user"  BY DEF Item, User
  <2>2. FALSE \in BOOLEAN  OBVIOUS
  <2> QED  BY <2>1, <2>2
<1> HIDE DEF x
<1>3. items \in Seq(Item) /\ Len(items) = 1 /\ items[1] = x /\ Last(items) = x
  BY <1>1, <1>2 DEF Last
<1>4. ~OpenCall
  BY <1>2, <1>3 DEF OpenCall
<1>5. reply.claims = {} /\ reply.kind = "none"
  BY <1>1
<1>6. TypeInv
  <2>1. reply \in [kind : {"none", "call", "answer", "prose", "stopped", "refused", "failed", "gone"},
                   claims : SUBSET (Actions \cup {Complete}), honest : BOOLEAN]
    BY <1>1
  <2> QED  BY <1>1, <2>1 DEF TypeInv
<1>7. ItemsInv
  BY <1>2, <1>3 DEF ItemsInv
<1>8. ran \in Seq(RunRec) /\ Len(ran) = 0
  BY <1>1
<1>9. RanInv
  BY <1>2, <1>3, <1>8 DEF RanInv
<1>10. Since(1)
  BY <1>1, <1>2, <1>3, <1>4, <1>8 DEF Since
<1>11. HistoryInv
  <2>1. ~Abandoned  BY <1>3 DEF Abandoned
  <2> QED  BY <1>7, <1>9, <1>10, <2>1 DEF HistoryInv
<1>12. Scope \in Seq(RunRec) /\ Len(Scope) = 0 /\ Course = Scope
  <2>1. mark \in 0..Len(ran)  BY <1>1, <1>8
  <2>2. Scope \in Seq(RunRec) /\ Len(Scope) = Len(ran) - mark  BY <1>7, <1>9, <2>1, CourseFields
  <2> QED  BY <1>1, <1>4, <1>8, <2>2 DEF Course
<1>13. WithinLimits(Course)
  <2>1. DOMAIN Scope = {}  BY <1>12
  <2>2. \A p \in Prints : Times(Scope, p) = 0
    <3>1. ASSUME NEW p \in Prints PROVE {i \in DOMAIN Scope : Scope[i].print = p} = {}  BY <2>1
    <3> QED  BY <3>1, FS_EmptySet DEF Times
  <2>3. MaxToolRounds \in Nat /\ MaxOccurrences \in Nat  BY LedgerAssumption
  <2> QED  BY <1>12, <2>1, <2>2, <2>3 DEF WithinLimits
<1>14. RowInv
  BY <1>1, <1>4 DEF RowInv, RowEmpty
<1>15. LedgerInv
  BY <1>1 DEF LedgerInv
<1>16. HonestNotRefused
  BY <1>5 DEF HonestNotRefused
<1>17. ClaimsBacked
  BY <1>5 DEF ClaimsBacked
<1> QED  BY <1>5, <1>6, <1>11, <1>13, <1>14, <1>15, <1>16, <1>17 DEF LedgerProtocol

LEMMA StutterProtocol ==
    ASSUME LedgerProtocol, UNCHANGED vars
    PROVE  LedgerProtocol'
<1>1. /\ mode' = mode /\ session' = session /\ items' = items /\ row' = row /\ turn' = turn
      /\ ledger' = ledger /\ reply' = reply /\ ran' = ran /\ asked' = asked
  BY DEF vars
<1>2. TypeInv /\ HistoryInv /\ WithinLimits(Course) /\ RowInv /\ LedgerInv
  BY DEF LedgerProtocol
<1>3. HistoryInv' /\ WithinLimits(Course)' /\ (OpenCall' <=> OpenCall)
  BY <1>1, <1>2, SameHistory
<1>4. RowInv'
  BY <1>1, <1>2, SameRow
<1>5. TypeInv'
  BY <1>1, <1>2 DEF TypeInv
<1>6. LedgerInv'
  <2>1. Knows(ledger) => Knows(ledger)'
    <3>1. PICK l : l = ledger  OBVIOUS
    <3>2. Knows(l) => Knows(l)'  BY <1>1, KnowsSame
    <3>3. ledger' = l  BY <1>1, <3>1
    <3> QED  BY <3>1, <3>2, <3>3
  <2> QED  BY <1>1, <1>2, <1>3, <2>1 DEF LedgerInv
<1>7. HonestNotRefused' /\ ClaimsBacked'
  <2>1. (Whole' <=> Whole) /\ (Abandoned' <=> Abandoned)  BY <1>1 DEF Whole, Abandoned
  <2>2. WithinLimits(ran)' <=> WithinLimits(ran)  BY <1>1 DEF WithinLimits
  <2>3. HonestNotRefused'  BY <1>1, <2>1, <2>2 DEF LedgerProtocol, HonestNotRefused
  <2>4. ClaimsBacked'  BY <1>1 DEF LedgerProtocol, ClaimsBacked
  <2> QED  BY <2>3, <2>4
<1>8. (reply.claims # {} => ~OpenCall)'
  BY <1>1, <1>3 DEF LedgerProtocol
<1> QED  BY <1>3, <1>4, <1>5, <1>6, <1>7, <1>8 DEF LedgerProtocol

LEMMA NextProtocol ==
    ASSUME LedgerProtocol, [Next]_vars
    PROVE  LedgerProtocol'
<1>1. CASE ClientStep
  <2>1. ASSUME NEW o \in Outcomes, RunTool(o) PROVE LedgerProtocol'
    BY <2>1, RunToolStep
  <2>2. ASSUME NEW continues \in BOOLEAN, NewUser(continues) PROVE LedgerProtocol'
    BY <2>2, NewUserStep
  <2>3. ASSUME NEW input \in HonestInputs, Request(input, TRUE) PROVE LedgerProtocol'
    <3>1. input \in Inputs  BY DEF Inputs
    <3> QED  BY <2>3, <3>1, RequestStep
  <2>4. ASSUME NEW input \in FaultyInputs \ HonestInputs, Request(input, FALSE)
        PROVE  LedgerProtocol'
    <3>1. input \in Inputs  BY DEF Inputs
    <3> QED  BY <2>4, <3>1, RequestStep
  <2>5. CASE SessionGoes
    BY <2>5, SessionGoesStep
  <2> QED  BY <1>1, <2>1, <2>2, <2>3, <2>4, <2>5 DEF ClientStep
<1>2. CASE GatewayStep
  <2>1. ASSUME NEW p \in Prints, HandOut(p) PROVE LedgerProtocol'
    BY <2>1, HandOutStep
  <2>2. ASSUME NEW p \in Prints, StopLoop(p) PROVE LedgerProtocol'
    <3>1. Answered("stopped", {}) /\ UNCHANGED <<mode, session, items, row, ran, asked>>
      BY <2>2 DEF StopLoop
    <3> QED  BY <3>1, EndStep
  <2>3. CASE EndLocally
    <3>1. Answered("stopped", {}) /\ UNCHANGED <<mode, session, items, row, ran, asked>>
      BY <2>3 DEF EndLocally
    <3> QED  BY <3>1, EndStep
  <2>4. ASSUME NEW claims \in Claims, NEW tools \in BOOLEAN, Answer(claims, tools)
        PROVE  LedgerProtocol'
    BY <2>4, AnswerStep
  <2>5. CASE TurnFails(TRUE)
    BY <2>5, AbandonStep
  <2>6. CASE TurnFails(FALSE)
    <3>1. Answered("failed", {}) /\ UNCHANGED <<mode, session, items, row, ran, asked>>
      BY <2>6 DEF TurnFails
    <3> QED  BY <3>1, EndStep
  <2> QED  BY <1>2, <2>1, <2>2, <2>3, <2>4, <2>5, <2>6 DEF GatewayStep
<1>3. CASE UNCHANGED vars
  BY <1>3, StutterProtocol
<1> QED  BY <1>1, <1>2, <1>3 DEF Next

-----------------------------------------------------------------------------
(* The theorems.                                                           *)

\* In every reachable state the client's history and the alias row fit
\* together, a ledger that passed the preflight mirrors the executions it has
\* to know, and these keep the limits with the call that is handed out: what
\* parseResponsesToolLedger restores is what completedToolSnapshots saved, and
\* a request that finds no session (activePromptItems, not continuing) replays
\* the whole conversation.
THEOREM LedgerInvariant == Spec => []LedgerProtocol
<1>1. Init => LedgerProtocol
  BY InitProtocol
<1>2. LedgerProtocol /\ [Next]_vars => LedgerProtocol'
  BY NextProtocol
<1> QED  BY <1>1, <1>2, PTL DEF Spec

\* A ledger that toolLedgerPreflight lets through counts every execution
\* exactly once, whether it came from addCompletedSnapshots, from replayed
\* items or from both: those since the user's last message, those of the chain,
\* or all of them when a Responses request finds no session.
THEOREM LedgerTrueHolds == Spec => []LedgerTrue
<1>1. ASSUME LedgerProtocol PROVE LedgerTrue
  <2> SUFFICES ASSUME turn = "gateway"
               PROVE  /\ ledger.pending = {} /\ Len(ledger.calls) = Len(Covered)
                      /\ \A p \in Prints : Times(ledger.completed, p) = Times(Covered, p)
    BY DEF LedgerTrue
  <2>1. ItemsInv /\ RanInv /\ mark \in 0..Len(ran) /\ Knows(ledger)
    BY <1>1, AtGateway
  <2> DEFINE e == Evidence(Covered)
  <2>2. Covered \in Seq(RunRec)
    <3>1. Covered = RanAfter(since) /\ since \in 0..Len(ran)  BY <2>1, CoveredIs
    <3> QED  BY <2>1, <3>1, TailFields
  <2>3. e \in Seq(Evid) /\ Len(e) = Len(Covered) /\ \A i \in 1..Len(Covered) : e[i].print = Covered[i].print
    BY <2>2, EvidenceFields
  <2>4. /\ ledger.pending = {} /\ Len(ledger.calls) = Len(ledger.completed)
        /\ Len(ledger.completed) = Len(e) /\ \A p \in Prints : Times(ledger.completed, p) = Times(e, p)
    BY <2>1 DEF Knows, Aligned, Mirrors, SameTimes
  <2> HIDE DEF e
  <2>5. \A p \in Prints : Times(e, p) = Times(Covered, p)
    BY <2>2, <2>3, TimesSame
  <2> QED  BY <2>3, <2>4, <2>5
<1> QED  BY <1>1, LedgerInvariant, PTL

\* guardProposedToolCalls bounds the rounds, the executions of one action and
\* the repetitions in a row, although a chain keeps only snapshots and may lose
\* them, whatever the three limits are.
THEOREM LoopBoundedHolds == Spec => []LoopBounded
<1>1. ASSUME LedgerProtocol PROVE LoopBounded
  <2>1. HistoryInv /\ WithinLimits(Course)
    BY <1>1 DEF LedgerProtocol
  <2>2. ItemsInv /\ RanInv /\ mark \in 0..Len(ran)
    BY <2>1, HistoryFields
  <2>3. WithinLimits(Scope)
    BY <2>1, <2>2, CourseScope
  <2> QED  BY <2>3 DEF LoopBounded
<1> QED  BY <1>1, LedgerInvariant, PTL

\* A client that only returns the results of the calls it was handed passes
\* responsesContinuationOutputIssue and toolLedgerPreflight: what the guard of
\* one turn allows, the parser of the next accepts.  It can be refused only when
\* a stateless Responses request finds no session, so that activePromptItems
\* returns all tasks, and the user once abandoned a call or they exceed a limit
\* together.
THEOREM HonestNotRefusedHolds == Spec => []HonestNotRefused
<1>1. LedgerProtocol => HonestNotRefused
  BY DEF LedgerProtocol
<1> QED  BY <1>1, LedgerInvariant, PTL

\* Every completion claim that guardAssistantCompletion lets through in the
\* context of tools (hasToolContext) is backed by an execution that really
\* succeeded, although a snapshot merges the outcomes of repeated executions and
\* the evidence window is cut; a task that has used a tool has that context.
THEOREM ClaimsBackedHolds == Spec => []ClaimsBacked
<1>1. LedgerProtocol => ClaimsBacked
  BY DEF LedgerProtocol
<1> QED  BY <1>1, LedgerInvariant, PTL

\* An action that has failed twice in the same way is not handed out by
\* guardProposedToolCalls in answer to that report; with the history replayed,
\* never again in the turn.
THEOREM FailureNotRetriedHolds == Spec => FailureNotRetried
<1> DEFINE A == \A p \in Prints, f \in Failures, i \in DOMAIN Scope :
                    /\ Len(items') > Len(items) /\ Last(items') = Call(Len(items'), p)
                    /\ FailedAt(p, f, i)
                    /\ mode = "chain" => /\ row.pending # NoCall /\ i = Len(Scope)
                                         /\ Cardinality(FailuresOf(p)) <= FailureMemory
                    => \A j \in 1..(i - 1) : ~FailedAt(p, f, j)
<1>1. ASSUME LedgerProtocol, Next PROVE A
  <2> SUFFICES ASSUME NEW p \in Prints, NEW f \in Failures, NEW i \in DOMAIN Scope,
                      Len(items') > Len(items), Last(items') = Call(Len(items'), p),
                      FailedAt(p, f, i),
                      mode = "chain" => /\ row.pending # NoCall /\ i = Len(Scope)
                                        /\ Cardinality(FailuresOf(p)) <= FailureMemory,
                      NEW j \in 1..(i - 1), FailedAt(p, f, j)
               PROVE  FALSE
    OBVIOUS
  <2>1. items \in Seq(Item) /\ Len(items) \in Nat
    BY <1>1 DEF LedgerProtocol, HistoryInv, ItemsInv
  <2>2. items' # items
    BY <2>1
  <2>3. ASSUME NEW x \in Item, items' = Append(items, x) PROVE x = Call(Len(items'), p)
    <3>1. Len(items') = Len(items) + 1 /\ items'[Len(items) + 1] = x  BY <2>1, <2>3, AppendedAt
    <3> QED  BY <3>1 DEF Last
  <2>4. ASSUME NEW o \in Outcomes, RunTool(o) PROVE FALSE
    <3> DEFINE x == Result(Last(items).id, o)
    <3>1. items' = Append(items, x) /\ OpenCall  BY <2>4 DEF RunTool
    <3>2. Len(items) \in 1..Len(items) /\ Last(items) = items[Len(items)]
      BY <1>1 DEF LedgerProtocol, HistoryInv, ItemsInv, Last
    <3>3. Last(items).id \in Nat  BY <2>1, <3>1, <3>2, ItemFields DEF OpenCall
    <3>4. x \in Item /\ x.kind = "result"  BY <2>4, <3>3 DEF Item, Result
    <3>5. Call(Len(items'), p).kind = "call"  BY DEF Call
    <3> HIDE DEF x
    <3> QED  BY <2>3, <3>1, <3>4, <3>5
  <2>5. ASSUME NEW continues \in BOOLEAN, NewUser(continues) PROVE FALSE
    <3> DEFINE x == User(continues)
    <3>1. items' = Append(items, x)  BY <2>5 DEF NewUser
    <3>2. x \in Item /\ x.kind = "user"  BY DEF Item, User
    <3>3. Call(Len(items'), p).kind = "call"  BY DEF Call
    <3> HIDE DEF x
    <3> QED  BY <2>3, <3>1, <3>2, <3>3
  <2>6. ASSUME NEW input, NEW honest, Request(input, honest) PROVE FALSE
    BY <2>2, <2>6 DEF Request
  <2>7. ASSUME NEW q \in Prints, HandOut(q) PROVE FALSE
    <3> DEFINE x == Call(Len(items) + 1, q)
    <3>1. /\ items' = Append(items, x) /\ turn = "gateway"
          /\ GuardProposedToolCall(ledger, q) = "allowed"
      BY <2>7 DEF HandOut, Answered
    <3>2. x \in Item /\ x.print = q  BY <2>1 DEF Item, Call
    <3>3. Call(Len(items'), p).print = p  BY DEF Call
    <3> HIDE DEF x
    <3>4. q = p  BY <2>3, <3>1, <3>2, <3>3
    <3>5. Reports(ledger)  BY <1>1, <3>1, AtGateway DEF Knows
    <3>6. \E r \in ledger.issues : r.code = "repeated_failure" /\ r.print = p  BY <3>5 DEF Reports
    <3> QED  BY <3>1, <3>4, <3>6, GuardAllows
  <2>8. ASSUME NEW q \in Prints, StopLoop(q) PROVE FALSE
    BY <2>2, <2>8 DEF StopLoop
  <2>9. ~EndLocally
    BY <2>2 DEF EndLocally
  <2>10. ASSUME NEW claims \in Claims, NEW tools \in BOOLEAN, Answer(claims, tools) PROVE FALSE
    BY <2>2, <2>10 DEF Answer
  <2>11. ASSUME NEW submitted \in BOOLEAN, TurnFails(submitted) PROVE FALSE
    BY <2>2, <2>11 DEF TurnFails
  <2>12. ~SessionGoes
    BY <2>2 DEF SessionGoes
  <2>13. CASE ClientStep
    BY <2>4, <2>5, <2>6, <2>12, <2>13 DEF ClientStep
  <2>14. CASE GatewayStep
    BY <2>7, <2>8, <2>9, <2>10, <2>11, <2>14 DEF GatewayStep
  <2> QED  BY <1>1, <2>13, <2>14 DEF Next
<1>2. LedgerProtocol /\ [Next]_vars => [A]_vars
  BY <1>1
<1>3. (Spec => [][A]_vars) => (Spec => FailureNotRetried)
  BY DEF FailureNotRetried
<1> HIDE DEF A
<1>4. Spec => [][A]_vars
  BY <1>2, LedgerInvariant, PTL DEF Spec
<1> QED  BY <1>3, <1>4
=============================================================================
