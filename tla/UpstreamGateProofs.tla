------------------------- MODULE UpstreamGateProofs -------------------------
(***************************************************************************)
(* Proofs that upstream calls of an account do not overlap and keep their  *)
(* distance, for any number of accounts and clients and any times with     *)
(* LeaseTime >= CallLimit + MinInterval.                                   *)
(*                                                                         *)
(* The argument: a client that calls, or may still call, and whose row was *)
(* not deleted, owns the gate's lease, and the lease outlives the call's   *)
(* deadline by LeaseTime - CallLimit.  So the gate is closed to everybody  *)
(* else while the call is open and for MinInterval after it.               *)
(*                                                                         *)
(* That cancel() leaves nothing behind rests on where a client's id can be *)
(* in the tables, stage by stage (Footprint): only in its account's queue  *)
(* while it waits, only in its account's gate once granted.                *)
(***************************************************************************)
EXTENDS UpstreamGate, WellFoundedInduction, TLAPS

-----------------------------------------------------------------------------
(* Induction over the natural numbers and over recursive functions.         *)

\* A nonempty set of natural numbers has a least element.
LEMMA LeastNat ==
    ASSUME NEW T \in SUBSET Nat, T # {}
    PROVE  \E m \in T : \A n \in T : m <= n
<1> DEFINE R == {p \in Nat \X Nat : p[1] < p[2]}
<1>1. R = OpToRel(<, Nat)
  BY Zenon DEF OpToRel
<1>2. IsWellFoundedOn(R, Nat)
  BY <1>1, NatLessThanWellFounded, Zenon
<1> HIDE DEF R
<1>3. PICK m \in T : \A n \in T : ~(<<n, m>> \in R)
  BY <1>2, WFMin, Zenon
<1>4. ASSUME NEW n \in T  PROVE m <= n
  <2>1. <<n, m>> \notin R  BY <1>3
  <2>2. n \in Nat /\ m \in Nat  OBVIOUS
  <2> QED  BY <2>1, <2>2, SMT DEF R
<1> QED  BY <1>4

\* A set with 0, and with i if with i - 1, has every number up to n.
LEMMA UpTo ==
    ASSUME NEW n \in Nat, NEW P,
           0 \in P, \A i \in 1..n : i - 1 \in P => i \in P
    PROVE  0..n \subseteq P
<1> DEFINE T == {i \in 0..n : i \notin P}
<1>1. SUFFICES ASSUME T # {} PROVE FALSE
  OBVIOUS
<1>2. T \in SUBSET Nat
  OBVIOUS
<1> HIDE DEF T
<1>3. PICK m \in T : \A k \in T : m <= k
  BY <1>1, <1>2, LeastNat
<1>4. m \in 0..n /\ m \notin P
  BY DEF T
<1>5. m \in 1..n /\ m - 1 \in 0..n
  BY <1>4
<1>6. m - 1 \in P
  BY <1>3, <1>5 DEF T
<1> QED  BY <1>4, <1>5, <1>6

\* f, on 0..n and with values in V, starts with base and goes on with g.
Recursion(f, n, V, base, g) ==
    f \in [0..n -> V] /\ f[0] = base /\ \A i \in 1..n : f[i] = g[i][f[i - 1]]

\* Such a function exists.
LEMMA RecursionExists ==
    ASSUME NEW n \in Nat, NEW V, NEW base \in V, NEW g,
           \A i \in 1..n : \A v \in V : g[i][v] \in V
    PROVE  \E f : Recursion(f, n, V, base, g)
<1> DEFINE Good(k, f) == f[0] = base /\ \A i \in 1..k : f[i] = g[i][f[i - 1]]
           P == {k \in 0..n : \E f \in [0..k -> V] : Good(k, f)}
<1>1. 0 \in P
  <2> DEFINE f == [i \in 0..0 |-> base]
  <2>1. f \in [0..0 -> V] /\ f[0] = base  OBVIOUS
  <2>2. Good(0, f)  BY <2>1
  <2> HIDE DEF f
  <2>3. \E e \in [0..0 -> V] : Good(0, e)  BY <2>1, <2>2, Zenon
  <2>4. 0 \in 0..n  OBVIOUS
  <2> HIDE DEF Good
  <2> QED  BY <2>3, <2>4
<1>2. ASSUME NEW k \in 1..n, k - 1 \in P
      PROVE  k \in P
  <2>1. PICK h \in [0..(k - 1) -> V] : Good(k - 1, h)
    BY <1>2
  <2> DEFINE last == g[k][h[k - 1]]
             f == [i \in 0..k |-> IF i = k THEN last ELSE h[i]]
  <2>2. last \in V
    <3>1. h[k - 1] \in V  OBVIOUS
    <3> QED  BY <3>1
  <2> HIDE DEF last
  <2>3. f \in [0..k -> V]
    BY <2>2
  <2>4. f[0] = base
    BY <2>1
  <2>5. ASSUME NEW i \in 1..k  PROVE f[i] = g[i][f[i - 1]]
    <3>1. CASE i = k
      BY <3>1 DEF last
    <3>2. CASE i # k
      <4>1. i \in 1..(k - 1) /\ i - 1 \in 0..(k - 1) /\ i - 1 # k  BY <3>2
      <4>2. f[i] = h[i] /\ f[i - 1] = h[i - 1]  BY <4>1
      <4> QED  BY <4>1, <4>2, <2>1
    <3> QED  BY <3>1, <3>2
  <2> HIDE DEF f
  <2>6. Good(k, f)  BY <2>4, <2>5
  <2> HIDE DEF Good
  <2>7. \E e \in [0..k -> V] : Good(k, e)  BY <2>3, <2>6
  <2>8. k \in 0..n  OBVIOUS
  <2> QED  BY <2>7, <2>8
<1>3. n \in P
  <2> HIDE DEF P
  <2>1. 0..n \subseteq P  BY <1>1, <1>2, UpTo
  <2> QED  BY <2>1
<1> QED  BY <1>3 DEF Recursion

-----------------------------------------------------------------------------
(* The gate.                                                               *)

\* The part of TypeOK the argument needs.
GateTypes ==
    /\ gate \in [Accounts -> GateRow]
    /\ clients \in [Clients -> Client]
    /\ rest \in [Accounts -> 0..MinInterval]

\* cl is calling, or has the gate and may still call, under an intact row.
MayCall(cl) ==
    /\ cl.running \/ (cl.pc = "granted" /\ cl.left > 0)
    /\ ~cl.wiped

\* Client c, in state cl, owns the lease of its account for longer than its
\* call can last, and the account has rested.
OwnsLease(c, cl, g, r) ==
    MayCall(cl) =>
        /\ cl.account \in Accounts
        /\ g[cl.account].lease = c
        /\ g[cl.account].leaseLeft >= cl.left + (LeaseTime - CallLimit)
        /\ r[cl.account] = 0

LeaseOwners == \A c \in Clients : OwnsLease(c, clients[c], gate, rest)

\* A client that is past "idle" or "gone" has an account, and only a client in
\* its call, or one that crashed in it, has a call open.
ClientShape ==
    \A c \in Clients :
        /\ clients[c].pc \notin {"idle", "gone"} \/ clients[c].running
             => clients[c].account \in Accounts
        /\ clients[c].running => clients[c].pc \in {"calling", "gone"}

\* The gate stays closed as long as the account must rest.
RestGuarded ==
    \A a \in Accounts : rest[a] <= gate[a].leaseLeft \/ rest[a] <= gate[a].nextLeft

GateInv == GateTypes /\ LeaseOwners /\ ClientShape /\ RestGuarded

-----------------------------------------------------------------------------

\* Time left never goes up or below zero (Elapse).
LEMMA ElapseBounds ==
    ASSUME NEW k \in Nat, NEW n \in 0..k
    PROVE  Elapse(n) \in 0..k
BY DEF Elapse

\* What DELETE keeps: rows of the table, and all of them in S.
LEMMA KeepRows ==
    ASSUME NEW R, NEW q \in Seq(R), NEW S
    PROVE  /\ Keep(q, S) \in Seq(R)
           /\ \A j \in 1..Len(Keep(q, S)) :
                Keep(q, S)[j] \in S /\ \E i \in 1..Len(q) : q[i] = Keep(q, S)[j]
<1> DEFINE n == Len(q)
           In == {r \in S : \E i \in 1..n : q[i] = r}
           K == In \cap R
           step(i, t) == IF q[i] \in S THEN Append(t, q[i]) ELSE t
           g == [i \in 1..n |-> [t \in Seq(K) |-> step(i, t)]]
           rec(f) == [i \in 0..n |-> IF i = 0 THEN <<>>
                        ELSE IF q[i] \in S THEN Append(f[i - 1], q[i]) ELSE f[i - 1]]
<1>1. n \in Nat /\ <<>> \in Seq(K)
  OBVIOUS
<1>2. ASSUME NEW i \in 1..n, NEW t \in Seq(K)  PROVE step(i, t) \in Seq(K)
  <2>1. q[i] \in S => q[i] \in K  OBVIOUS
  <2> HIDE DEF K
  <2> QED  BY <2>1
<1> HIDE DEF K, n
<1>3. \A i \in 1..n : \A t \in Seq(K) : g[i][t] \in Seq(K)
  BY <1>2
<1>4. PICK f : Recursion(f, n, Seq(K), <<>>, g)
  <2> HIDE DEF g
  <2> QED  BY <1>1, <1>3, RecursionExists
<1>5. f \in [0..n -> Seq(K)] /\ f[0] = <<>> /\ \A i \in 1..n : f[i] = g[i][f[i - 1]]
  <2> HIDE DEF g
  <2> QED  BY <1>4 DEF Recursion
<1>6. f = rec(f)
  <2>1. \A i \in 1..n : f[i - 1] \in Seq(K)
    BY <1>1, <1>5
  <2>2. \A i \in 1..n : g[i][f[i - 1]] = step(i, f[i - 1])
    BY <2>1
  <2>3. ASSUME NEW i \in 0..n  PROVE f[i] = rec(f)[i]
    <3>1. i # 0 => i \in 1..n
      BY <1>1
    <3>2. f[i] = IF i = 0 THEN <<>> ELSE g[i][f[i - 1]]
      BY <1>5, <3>1
    <3> QED  BY <3>1, <3>2, <2>2
  <2> QED  BY <1>5, <2>3
<1> DEFINE kept == CHOOSE h : h = rec(h)
<1>7. kept = rec(kept)
  BY <1>6
<1>8. Keep(q, S) = kept[n]
  BY DEF Keep, n
<1> HIDE DEF kept
<1>9. 0..n \subseteq {i \in 0..n : kept[i] \in Seq(K)}
  <2> DEFINE P == {i \in 0..n : kept[i] \in Seq(K)}
  <2>1. 0 \in P
    BY <1>1, <1>7
  <2>2. ASSUME NEW i \in 1..n, i - 1 \in P  PROVE i \in P
    <3>1. i \in 0..n /\ i # 0 /\ kept[i - 1] \in Seq(K)
      BY <1>1, <2>2
    <3>2. kept[i] = step(i, kept[i - 1])
      BY <1>7, <3>1
    <3>3. kept[i] \in Seq(K)
      BY <1>2, <3>1, <3>2
    <3> QED  BY <3>1, <3>3
  <2> HIDE DEF P
  <2>3. 0..n \subseteq P
    BY <1>1, <2>1, <2>2, UpTo
  <2> QED  BY <2>3 DEF P
<1>10. kept[n] \in Seq(K)
  BY <1>1, <1>9
<1>11. Keep(q, S) \in Seq(K) /\ K \subseteq R
  BY <1>8, <1>10 DEF K
<1>12. ASSUME NEW j \in 1..Len(Keep(q, S))
       PROVE  Keep(q, S)[j] \in K
  BY <1>11
<1>13. Keep(q, S) \in Seq(R)
  BY <1>11
<1> QED  BY <1>12, <1>13 DEF K, n

\* The initial state has no clients and open gates.
LEMMA GateInit == ASSUME Init PROVE GateInv
BY GateConstants DEF Init, GateInv, GateTypes, LeaseOwners, OwnsLease, MayCall,
   ClientShape, RestGuarded, OpenGate, GateRow, Idle, Client

\* The types survive every step of a client that leaves gate and rest alone
\* or writes them as acquireUpstream, releaseUpstream and EndCall do.
LEMMA ClientStepInvariant ==
    ASSUME GateInv, NEW c \in Clients, ClientStep(c)
    PROVE  GateInv'
<1> USE GateConstants DEF GateInv, GateTypes
<1>1. ASSUME NEW a \in Accounts, Begin(c, a) PROVE GateInv'
  <2> DEFINE new == [Idle EXCEPT !.pc = "waiting", !.account = a]
  <2>1. clients' = [clients EXCEPT ![c] = new] /\ gate' = gate /\ rest' = rest
    BY <1>1 DEF Begin
  <2>2. new \in Client /\ new.pc = "waiting" /\ new.account = a /\ ~new.running
    <3>1. Idle \in Client /\ ~Idle.running
      BY DEF Idle, Client
    <3>2. QED BY <3>1 DEF Client
  <2> HIDE DEF new
  <2>3. GateTypes'
    BY <2>1, <2>2
  <2>4. LeaseOwners'
    BY <2>1, <2>2 DEF LeaseOwners, OwnsLease, MayCall
  <2>5. ClientShape' /\ RestGuarded'
    BY <2>1, <2>2 DEF ClientShape, RestGuarded
  <2>6. QED BY <2>3, <2>4, <2>5
<1>2. CASE \/ PollRefused(c) \/ Abort(c) \/ QueueTimeout(c) \/ Refuse(c)
           \/ StartCall(c) \/ Crash(c) \/ Cancel(c) \/ CancelDone(c)
  <2>1. GateTypes'
    BY <1>2 DEF PollRefused, Abort, QueueTimeout, Refuse, StartCall, Crash, Cancel, CancelDone, Client
  <2>2. LeaseOwners'
    BY <1>2 DEF PollRefused, Abort, QueueTimeout, Refuse, StartCall, Crash, Cancel, CancelDone,
       LeaseOwners, OwnsLease, MayCall, Client
  <2>3. ClientShape'
    BY <1>2 DEF PollRefused, Abort, QueueTimeout, Refuse, StartCall, Crash, Cancel, CancelDone,
       ClientShape, Client
  <2>4. RestGuarded'
    BY <1>2 DEF PollRefused, Abort, QueueTimeout, Refuse, StartCall, Crash, Cancel, CancelDone,
       RestGuarded
  <2>5. QED BY <2>1, <2>2, <2>3, <2>4
<1>3. CASE CancelWaiter(c)
  BY <1>3 DEF CancelWaiter, LeaseOwners, OwnsLease, MayCall, ClientShape, RestGuarded, Client
<1>4. ASSUME NEW n \in 0..CallLimit, Poll(c, n) PROVE GateInv'
  <2> DEFINE a == clients[c].account
  <2>1. a \in Accounts /\ ~clients[c].running
    BY <1>4 DEF Poll, ClientShape
  <2>2. CASE gate' = gate /\ clients' = clients
    BY <1>4, <2>2 DEF Poll, LeaseOwners, ClientShape, RestGuarded
  <2>3. CASE /\ ~Blocked(gate[a])
             /\ gate' = [gate EXCEPT ![a].lease = c, ![a].leaseLeft = LeaseTime]
             /\ clients' = [clients EXCEPT ![c].pc = "granted", ![c].left = n]
    <3>1. rest' = rest
      BY <1>4 DEF Poll
    <3>2. gate[a].leaseLeft = 0 /\ gate[a].nextLeft = 0 /\ rest[a] = 0
      BY <2>1, <2>3 DEF Blocked, RestGuarded, GateRow
    <3>3. GateTypes'
      <4>1. gate' \in [Accounts -> GateRow]
        BY <2>1, <2>3 DEF GateRow
      <4>2. clients' \in [Clients -> Client]
        <5>1. [clients[c] EXCEPT !.pc = "granted", !.left = n] \in Client
          BY DEF Client
        <5>2. clients' = [clients EXCEPT ![c] = [clients[c] EXCEPT !.pc = "granted", !.left = n]]
          BY <2>3
        <5>3. QED BY <5>1, <5>2
      <4>3. QED BY <3>1, <4>1, <4>2
    <3>4. ASSUME NEW d \in Clients PROVE OwnsLease(d, clients'[d], gate', rest')
      <4>1. CASE d = c
        BY <4>1, <2>1, <2>3, <3>1, <3>2 DEF OwnsLease, MayCall, GateRow, Client
      <4>2. CASE d # c
        <5>1. SUFFICES ASSUME MayCall(clients[d]) PROVE OwnsLease(d, clients'[d], gate', rest')
          BY <4>2, <2>3 DEF OwnsLease, Client
        <5>2. clients[d].account # a
          BY <5>1, <3>2 DEF LeaseOwners, OwnsLease, Client
        <5>3. QED BY <4>2, <5>1, <5>2, <2>1, <2>3, <3>1 DEF LeaseOwners, OwnsLease, GateRow, Client
      <4>3. QED BY <4>1, <4>2
    <3>5. ClientShape'
      BY <2>1, <2>3 DEF ClientShape, Client
    <3>6. RestGuarded'
      BY <2>1, <2>3, <3>1, <3>2 DEF RestGuarded, GateRow
    <3>7. QED BY <3>3, <3>4, <3>5, <3>6 DEF LeaseOwners
  <2>4. QED BY <1>4, <2>2, <2>3 DEF Poll
<1>5. CASE EndCall(c)
  <2> DEFINE a == clients[c].account
  <2>1. a \in Accounts /\ gate' = gate
    BY <1>5 DEF EndCall, ClientShape
  <2>2. GateTypes'
    <3>1. clients' \in [Clients -> Client]
      <4> DEFINE new == [clients[c] EXCEPT !.running = FALSE,
                                           !.pc = IF @ = "calling" THEN "ending" ELSE @]
      <4>1. new \in Client
        BY DEF Client
      <4>2. clients' = [clients EXCEPT ![c] = new]
        BY <1>5 DEF EndCall
      <4>3. QED BY <4>1, <4>2
    <3>2. rest' \in [Accounts -> 0..MinInterval]
      BY <1>5, <2>1 DEF EndCall
    <3>3. QED BY <2>1, <3>1, <3>2
  <2>3. ASSUME NEW d \in Clients PROVE OwnsLease(d, clients'[d], gate', rest')
    <3>1. CASE d = c
      BY <3>1, <1>5 DEF EndCall, OwnsLease, MayCall, Client, ClientShape
    <3>2. CASE d # c
      <4>1. SUFFICES ASSUME MayCall(clients[d]) PROVE OwnsLease(d, clients'[d], gate', rest')
        BY <3>2, <1>5 DEF EndCall, OwnsLease, Client
      <4>2. ~clients[c].wiped => clients[d].account # a
        BY <3>2, <4>1, <1>5 DEF EndCall, LeaseOwners, OwnsLease, MayCall, Client
      <4>3. QED BY <3>2, <4>1, <4>2, <2>1, <1>5 DEF EndCall, LeaseOwners, OwnsLease, Client
    <3>3. QED BY <3>1, <3>2
  <2>4. ClientShape'
    BY <1>5 DEF EndCall, ClientShape, Client
  <2>5. RestGuarded'
    <3>1. ~clients[c].wiped => gate[a].leaseLeft >= MinInterval
      BY <1>5, <2>1 DEF EndCall, LeaseOwners, OwnsLease, MayCall, GateRow, Client
    <3>2. QED BY <3>1, <2>1, <1>5 DEF EndCall, RestGuarded, GateRow
  <2>6. QED BY <2>2, <2>3, <2>4, <2>5 DEF LeaseOwners
<1>6. CASE Release(c)
  <2> DEFINE a == clients[c].account
  <2>1. a \in Accounts /\ rest' = rest /\ ~clients[c].running
    BY <1>6 DEF Release, ClientShape
  <2>2. GateTypes'
    BY <1>6, <2>1, SMTT(30) DEF Release, Client, GateRow, OpenGate
  <2>3. LeaseOwners'
    BY <1>6, <2>1 DEF Release, LeaseOwners, OwnsLease, MayCall, Client, GateRow, OpenGate
  <2>4. ClientShape'
    BY <1>6 DEF Release, ClientShape, Client
  <2>5. RestGuarded'
    BY <1>6, <2>1 DEF Release, RestGuarded, OpenGate, GateRow
  <2>6. QED BY <2>2, <2>3, <2>4, <2>5
<1>7. QED BY <1>1, <1>2, <1>3, <1>4, <1>5, <1>6 DEF ClientStep

\* Time keeps the lease ahead of the call's deadline.
LEMMA TickInvariant == ASSUME GateInv, Tick PROVE GateInv'
<1> USE GateConstants
<1>1. gate \in [Accounts -> GateRow] /\ clients \in [Clients -> Client]
      /\ rest \in [Accounts -> 0..MinInterval]
  BY DEF GateInv, GateTypes
<1>2. ASSUME NEW a \in Accounts
      PROVE  /\ gate'[a].lease = gate[a].lease
             /\ gate'[a].leaseLeft = Elapse(gate[a].leaseLeft)
             /\ gate'[a].nextLeft = Elapse(gate[a].nextLeft)
             /\ gate[a] \in GateRow /\ gate'[a] \in GateRow
  <2>1. gate'[a] = [gate[a] EXCEPT !.leaseLeft = Elapse(@), !.nextLeft = Elapse(@)]
    BY DEF Tick
  <2>2. gate[a] \in GateRow
    BY <1>1
  <2>3. /\ gate[a].lease \in Clients \cup {NoClient}
        /\ gate[a].leaseLeft \in 0..LeaseTime /\ gate[a].nextLeft \in 0..MinInterval
    BY <2>2 DEF GateRow
  <2>4. Elapse(gate[a].leaseLeft) \in 0..LeaseTime /\ Elapse(gate[a].nextLeft) \in 0..MinInterval
    BY <2>3, ElapseBounds
  <2>5. gate'[a] = [lease |-> gate[a].lease, leaseLeft |-> Elapse(gate[a].leaseLeft),
                    nextLeft |-> Elapse(gate[a].nextLeft)]
    BY <2>1, <2>2 DEF GateRow
  <2>6. QED BY <2>2, <2>3, <2>4, <2>5 DEF GateRow
<1>3. ASSUME NEW c \in Clients
      PROVE  /\ clients'[c] = [clients[c] EXCEPT !.left = Elapse(@)]
             /\ clients[c] \in Client /\ clients'[c] \in Client
  <2>1. clients'[c] = [clients[c] EXCEPT !.left = Elapse(@)]
    BY DEF Tick
  <2>2. clients[c] \in Client
    BY <1>1
  <2>3. clients[c].left \in 0..CallLimit
    BY <2>2 DEF Client
  <2>4. Elapse(clients[c].left) \in 0..CallLimit
    BY <2>3, ElapseBounds
  <2>5. QED BY <2>1, <2>2, <2>4 DEF Client
<1>4. ASSUME NEW a \in Accounts
      PROVE  rest'[a] = Elapse(rest[a]) /\ rest[a] \in 0..MinInterval /\ rest'[a] \in 0..MinInterval
  <2>1. rest'[a] = Elapse(rest[a])
    BY DEF Tick
  <2>2. QED BY <1>1, <2>1, ElapseBounds
<1>5. GateTypes'
  <2>1. gate' \in [Accounts -> GateRow]
    <3>1. gate' = [a \in Accounts |-> gate'[a]]
      BY DEF Tick
    <3>2. QED BY <3>1, <1>2
  <2>2. clients' \in [Clients -> Client]
    <3>1. clients' = [c \in Clients |-> clients'[c]]
      BY DEF Tick
    <3>2. QED BY <3>1, <1>3
  <2>3. rest' \in [Accounts -> 0..MinInterval]
    <3>1. rest' = [a \in Accounts |-> rest'[a]]
      BY DEF Tick
    <3>2. QED BY <3>1, <1>4
  <2>4. QED BY <2>1, <2>2, <2>3 DEF GateTypes
<1>6. ASSUME NEW c \in Clients PROVE OwnsLease(c, clients'[c], gate', rest')
  <2> DEFINE a == clients[c].account
  <2>1. /\ clients'[c].account = a /\ clients'[c].pc = clients[c].pc
        /\ clients'[c].running = clients[c].running /\ clients'[c].wiped = clients[c].wiped
        /\ clients'[c].left = Elapse(clients[c].left)
        /\ clients[c].left \in 0..CallLimit
    BY <1>3 DEF Client
  <2>2. SUFFICES ASSUME MayCall(clients'[c]) PROVE OwnsLease(c, clients'[c], gate', rest')
    BY DEF OwnsLease
  <2>3. clients[c].left > 0
    <3>1. clients[c].running => clients[c].left > 0
      BY DEF Tick
    <3>2. clients[c].pc = "granted" /\ Elapse(clients[c].left) > 0 => clients[c].left > 0
      BY <2>1 DEF Elapse
    <3>3. QED BY <2>1, <2>2, <3>1, <3>2 DEF MayCall
  <2>4. MayCall(clients[c])
    BY <2>1, <2>2, <2>3 DEF MayCall
  <2>5. /\ a \in Accounts /\ gate[a].lease = c /\ rest[a] = 0
        /\ gate[a].leaseLeft >= clients[c].left + (LeaseTime - CallLimit)
    BY <2>4 DEF GateInv, LeaseOwners, OwnsLease
  <2>6. gate[a].leaseLeft \in 0..LeaseTime
    BY <2>5, <1>2 DEF GateRow
  <2>7. /\ gate'[a].lease = c /\ gate'[a].leaseLeft = gate[a].leaseLeft - 1
        /\ rest'[a] = 0 /\ clients'[c].left = clients[c].left - 1
    <3>1. gate'[a].lease = c /\ gate'[a].leaseLeft = Elapse(gate[a].leaseLeft)
      BY <2>5, <1>2
    <3>2. rest'[a] = Elapse(0)
      BY <2>5, <1>4
    <3>3. gate[a].leaseLeft > 0
      BY <2>1, <2>3, <2>5, <2>6
    <3>4. QED BY <2>1, <2>3, <2>6, <3>1, <3>2, <3>3 DEF Elapse
  <2>8. QED BY <2>1, <2>3, <2>5, <2>6, <2>7 DEF OwnsLease
<1>7. ClientShape'
  <2>1. ASSUME NEW c \in Clients
        PROVE  /\ clients'[c].pc = clients[c].pc /\ clients'[c].account = clients[c].account
               /\ clients'[c].running = clients[c].running
    BY <1>3 DEF Client
  <2>2. QED BY <2>1 DEF GateInv, ClientShape
<1>8. ASSUME NEW a \in Accounts
      PROVE  rest'[a] <= gate'[a].leaseLeft \/ rest'[a] <= gate'[a].nextLeft
  <2>1. gate[a].leaseLeft \in Nat /\ gate[a].nextLeft \in Nat /\ rest[a] \in Nat
    <3>1. gate[a] \in GateRow /\ rest[a] \in 0..MinInterval
      BY <1>2, <1>4
    <3>2. QED BY <3>1 DEF GateRow
  <2>2. rest[a] <= gate[a].leaseLeft \/ rest[a] <= gate[a].nextLeft
    BY DEF GateInv, RestGuarded
  <2>3. /\ rest'[a] = Elapse(rest[a])
        /\ gate'[a].leaseLeft = Elapse(gate[a].leaseLeft)
        /\ gate'[a].nextLeft = Elapse(gate[a].nextLeft)
    BY <1>2, <1>4
  <2>4. QED BY <2>1, <2>2, <2>3 DEF Elapse
<1>9. QED BY <1>5, <1>6, <1>7, <1>8 DEF GateInv, LeaseOwners, RestGuarded

\* Deleting rows marks the clients that hold them.
LEMMA DropRowsInvariant ==
    ASSUME GateInv, NEW S \in SUBSET Accounts, DropRows(S)
    PROVE  GateInv'
<1> USE GateConstants DEF GateInv, GateTypes
<1>1. GateTypes'
  <2>1. gate' \in [Accounts -> GateRow]
    BY DEF DropRows, GateRow, OpenGate
  <2>2. rest' \in [Accounts -> 0..MinInterval]
    BY DEF DropRows
  <2>3. \A c \in Clients : [clients[c] EXCEPT !.wiped = TRUE] \in Client
    BY DEF Client
  <2>4. clients' \in [Clients -> Client]
    BY <2>3 DEF DropRows
  <2>5. QED BY <2>1, <2>2, <2>4
<1>2. ASSUME NEW c \in Clients PROVE OwnsLease(c, clients'[c], gate', rest')
  <2>1. SUFFICES ASSUME MayCall(clients'[c]) PROVE OwnsLease(c, clients'[c], gate', rest')
    BY DEF OwnsLease
  <2>2. MayCall(clients[c]) /\ ~\E a \in S : gate[a].lease = c
    BY <2>1 DEF DropRows, MayCall, Client
  <2>3. clients[c].account \in Accounts \ S
    BY <2>2 DEF LeaseOwners, OwnsLease
  <2>4. QED BY <2>2, <2>3 DEF DropRows, LeaseOwners, OwnsLease, Client
<1>3. ClientShape'
  BY DEF DropRows, ClientShape, Client
<1>4. RestGuarded'
  BY DEF DropRows, RestGuarded, OpenGate, GateRow
<1>5. QED BY <1>1, <1>2, <1>3, <1>4 DEF LeaseOwners

\* Every step keeps the invariant.
LEMMA GateStep == ASSUME GateInv, [Next]_vars PROVE GateInv'
<1>1. CASE UNCHANGED vars \/ SwitchRoute
  BY <1>1 DEF vars, SwitchRoute, GateInv, GateTypes, LeaseOwners, ClientShape, RestGuarded
<1>2. ASSUME NEW a \in Accounts, DeleteAccount(a) PROVE GateInv'
  BY <1>2, DropRowsInvariant DEF DeleteAccount
<1>3. ASSUME NEW S \in SUBSET Accounts, NEW a \in S, ImportMigration(S, a) PROVE GateInv'
  BY <1>3, DropRowsInvariant DEF ImportMigration
<1>4. QED BY <1>1, <1>2, <1>3, ClientStepInvariant, TickInvariant DEF Next, PoolNext, AdminStep

\* GateInv holds of every reachable state.
THEOREM GateInvariant == Spec => []GateInv
<1>1. QED BY GateInit, GateStep, PTL DEF Spec

\* Calls of an account whose gate row stays in place never overlap: for any
\* number of clients and accounts, crashes and cancellations included.
THEOREM CallsAreSerial == Spec => []SerialCalls
<1>1. GateInv => SerialCalls
  BY DEF GateInv, GateTypes, LeaseOwners, OwnsLease, MayCall, SerialCalls
<1>2. QED BY <1>1, GateInvariant, PTL

\* Calls of an account start at least MinInterval after the one before.
THEOREM CallsKeepDistance == Spec => CallSpacing
<1> DEFINE Spaced == \A c \in Clients :
             ~clients[c].running /\ clients'[c].running /\ ~clients[c].wiped
             => rest[clients[c].account] = 0
<1>1. ASSUME GateInv, [Next]_vars PROVE [Spaced]_vars
  <2>1. SUFFICES ASSUME NEW c \in Clients, Next,
                        ~clients[c].running, clients'[c].running, ~clients[c].wiped
                 PROVE  rest[clients[c].account] = 0
    BY <1>1
  <2>2. clients \in [Clients -> Client]
    BY <1>1 DEF GateInv, GateTypes
  <2>3. ASSUME NEW d \in Clients, ClientStep(d) PROVE StartCall(c)
    <3>1. CASE StartCall(d)
      BY <3>1, <2>1, <2>2 DEF StartCall
    <3>2. ASSUME NEW a \in Accounts, Begin(d, a) PROVE FALSE
      BY <3>2, <2>1, <2>2 DEF Begin, Idle
    <3>3. ASSUME NEW n \in 0..CallLimit, Poll(d, n) PROVE FALSE
      <4>1. clients' = clients \/ clients' = [clients EXCEPT ![d].pc = "granted", ![d].left = n]
        BY <3>3 DEF Poll
      <4>2. QED BY <4>1, <2>1, <2>2 DEF Client
    <3>4. CASE EndCall(d)
      BY <3>4, <2>1, <2>2 DEF EndCall, Client
    <3>5. CASE \/ PollRefused(d) \/ Abort(d) \/ QueueTimeout(d) \/ CancelWaiter(d)
               \/ Refuse(d) \/ Release(d) \/ Crash(d) \/ Cancel(d) \/ CancelDone(d)
      BY <3>5, <2>1, <2>2 DEF PollRefused, Abort, QueueTimeout, CancelWaiter, Refuse, Release,
         Crash, Cancel, CancelDone, Client
    <3>6. QED BY <2>3, <3>1, <3>2, <3>3, <3>4, <3>5 DEF ClientStep
  <2>4. ~SwitchRoute
    BY <2>1 DEF SwitchRoute
  <2>5. ~Tick
    <3>1. Tick => clients'[c] = [clients[c] EXCEPT !.left = Elapse(@)]
      BY DEF Tick
    <3>2. QED BY <3>1, <2>1, <2>2 DEF Client
  <2>6. ASSUME NEW S \in SUBSET Accounts PROVE ~DropRows(S)
    <3>1. DropRows(S) => clients'[c] \in {clients[c], [clients[c] EXCEPT !.wiped = TRUE]}
      BY DEF DropRows
    <3>2. QED BY <3>1, <2>1, <2>2 DEF Client
  <2>7. ~AdminStep
    BY <2>6 DEF AdminStep, DeleteAccount, ImportMigration
  <2>8. StartCall(c)
    BY <2>1, <2>3, <2>4, <2>5, <2>7 DEF Next, PoolNext
  <2>9. QED BY <2>8, <2>1, <1>1 DEF StartCall, GateInv, LeaseOwners, OwnsLease, MayCall
<1>2. QED BY <1>1, GateInvariant, PTL DEF Spec, CallSpacing

-----------------------------------------------------------------------------
(* What a client leaves in the tables.                                     *)

\* Where client c, in state cl, may have left its id in the gates g and the
\* queues q.  A crashed client may have left it anywhere.
Footprint(c, cl, g, q) ==
    /\ cl.pc = "idle" => \A a \in Accounts : g[a].lease # c /\ c \notin Waiters(q[a])
    /\ cl.pc \in {"waiting", "leaving"} =>
         \A a \in Accounts : g[a].lease # c /\ (c \in Waiters(q[a]) => a = cl.account)
    /\ cl.pc \in {"granted", "calling", "ending"} =>
         \A a \in Accounts : c \notin Waiters(q[a]) /\ (g[a].lease = c => a = cl.account)
    /\ cl.cancel = "done" => cl.pc = "idle"

\* The rest of the types, and the footprints.
TraceInv ==
    /\ stored \in SUBSET Accounts
    /\ active \in Accounts \cup {NoAccount}
    /\ queue \in [Accounts -> Seq(WaiterRow)]
    /\ \A c \in Clients : Footprint(c, clients[c], gate, queue)

\* expireUpstreamWaiters adds nobody.
LEMMA ExpireWaiters ==
    ASSUME NEW q \in Seq(WaiterRow)
    PROVE  Expire(q) \in Seq(WaiterRow) /\ Waiters(Expire(q)) \subseteq Waiters(q)
<1> DEFINE S == {row \in WaiterRow : row.ttl > 0}
           w == Keep(q, S)
<1> HIDE DEF S
<1>1. /\ w \in Seq(WaiterRow)
      /\ \A j \in 1..Len(w) : w[j] \in S /\ \E i \in 1..Len(q) : q[i] = w[j]
  BY KeepRows
<1> HIDE DEF w
<1>2. Waiters(w) \subseteq Waiters(q)
  BY <1>1 DEF Waiters
<1> QED  BY <1>1, <1>2 DEF Expire, S, w

\* cancelUpstreamWaiter removes the waiter's row, however often it is there.
LEMMA DequeueWaiters ==
    ASSUME NEW q \in Seq(WaiterRow), NEW c
    PROVE  Dequeue(q, c) \in Seq(WaiterRow) /\ Waiters(Dequeue(q, c)) \subseteq Waiters(q) \ {c}
<1> DEFINE S == {row \in WaiterRow : row.waiter # c}
           w == Keep(q, S)
<1>1. \A r \in S : r.waiter # c
  OBVIOUS
<1> HIDE DEF S
<1>2. /\ w \in Seq(WaiterRow)
      /\ \A j \in 1..Len(w) : w[j] \in S /\ \E i \in 1..Len(q) : q[i] = w[j]
  BY KeepRows
<1> HIDE DEF w
<1>3. Waiters(w) \subseteq Waiters(q) \ {c}
  BY <1>1, <1>2 DEF Waiters
<1> QED  BY <1>2, <1>3 DEF Dequeue, S, w

\* The INSERT adds its waiter and nobody else.
LEMMA EnqueueWaiters ==
    ASSUME NEW q \in Seq(WaiterRow), NEW c \in Clients
    PROVE  Enqueue(q, c) \in Seq(WaiterRow) /\ Waiters(Enqueue(q, c)) \subseteq Waiters(q) \cup {c}
<1> USE GateConstants
<1>1. CASE c \in Waiters(q)
  <2> DEFINE new(i) == IF q[i].waiter = c THEN [q[i] EXCEPT !.ttl = WaiterTtl] ELSE q[i]
             w == [i \in 1..Len(q) |-> new(i)]
  <2>1. ASSUME NEW i \in 1..Len(q)
        PROVE  new(i) \in WaiterRow /\ new(i).waiter = q[i].waiter
    <3>1. q[i] \in WaiterRow  OBVIOUS
    <3> QED  BY <3>1 DEF WaiterRow
  <2>2. Enqueue(q, c) = w
    BY <1>1 DEF Enqueue
  <2> HIDE DEF new
  <2>3. w \in Seq(WaiterRow) /\ Len(w) = Len(q) /\ \A i \in 1..Len(q) : w[i] = new(i)
    BY <2>1
  <2> HIDE DEF w
  <2>4. Waiters(w) \subseteq Waiters(q)
    BY <2>1, <2>3 DEF Waiters
  <2> QED  BY <2>2, <2>3, <2>4
<1>2. CASE c \notin Waiters(q)
  <2> DEFINE row == [waiter |-> c, ttl |-> WaiterTtl]
             w == Append(q, row)
  <2>1. row \in WaiterRow /\ row.waiter = c
    BY DEF WaiterRow
  <2>2. Enqueue(q, c) = w
    BY <1>2 DEF Enqueue
  <2> HIDE DEF row
  <2>3. /\ w \in Seq(WaiterRow) /\ Len(w) = Len(q) + 1 /\ w[Len(q) + 1] = row
        /\ \A i \in 1..Len(q) : w[i] = q[i]
    BY <2>1
  <2> HIDE DEF w
  <2>4. \A i \in 1..Len(w) : i \in 1..Len(q) \/ i = Len(q) + 1
    BY <2>3
  <2>5. Waiters(w) \subseteq Waiters(q) \cup {c}
    BY <2>1, <2>3, <2>4 DEF Waiters
  <2> QED  BY <2>2, <2>3, <2>5
<1> QED  BY <1>1, <1>2

\* A client whose state stays and whose id does not spread keeps its footprint.
LEMMA FootprintKept ==
    ASSUME NEW c, NEW cl, NEW cm, NEW g, NEW h, NEW q, NEW r,
           Footprint(c, cl, g, q),
           cm.pc = cl.pc, cm.account = cl.account, cm.cancel = cl.cancel,
           \A a \in Accounts : /\ h[a].lease = c => g[a].lease = c
                               /\ c \in Waiters(r[a]) => c \in Waiters(q[a])
    PROVE  Footprint(c, cm, h, r)
BY DEF Footprint

\* The steps of a client that leave the tables alone.
LEMMA QuietTrace ==
    ASSUME GateInv, TraceInv, NEW c \in Clients,
           \/ \E a \in Accounts : Begin(c, a)
           \/ PollRefused(c) \/ Abort(c) \/ QueueTimeout(c) \/ Refuse(c)
           \/ StartCall(c) \/ EndCall(c) \/ Crash(c) \/ Cancel(c) \/ CancelDone(c)
    PROVE  TraceInv'
<1>1. clients \in [Clients -> Client]
  BY DEF GateInv, GateTypes
<1>2. /\ stored' = stored /\ active' = active /\ gate' = gate /\ queue' = queue
      /\ \A d \in Clients : d # c => clients'[d] = clients[d]
  BY <1>1 DEF Begin, PollRefused, Abort, QueueTimeout, Refuse, StartCall, EndCall, Crash, Cancel,
     CancelDone
<1>3. Footprint(c, clients'[c], gate, queue)
  <2>1. ASSUME NEW a \in Accounts, Begin(c, a)
        PROVE  Footprint(c, clients'[c], gate, queue)
    <3>1. clients'[c].pc = "waiting" /\ clients'[c].account = a /\ clients'[c].cancel = "no"
      BY <1>1, <2>1 DEF Begin, Idle
    <3>2. \A b \in Accounts : gate[b].lease # c /\ c \notin Waiters(queue[b])
      BY <2>1 DEF Begin, Fresh
    <3> QED  BY <3>1, <3>2 DEF Footprint
  <2>2. CASE PollRefused(c) \/ Abort(c) \/ QueueTimeout(c)
    BY <1>1, <2>2 DEF PollRefused, Abort, QueueTimeout, TraceInv, Footprint, Client
  <2>3. CASE Refuse(c) \/ StartCall(c)
    <3>1. clients[c].pc = "granted" /\ clients'[c].pc \in {"ending", "calling"}
      BY <1>1, <2>3 DEF Refuse, StartCall, Client
    <3>2. clients'[c].account = clients[c].account /\ clients'[c].cancel = clients[c].cancel
      BY <1>1, <2>3 DEF Refuse, StartCall, Client
    <3> QED  BY <3>1, <3>2 DEF TraceInv, Footprint
  <2>4. CASE EndCall(c)
    BY <1>1, <2>4 DEF EndCall, TraceInv, Footprint, Client
  <2>5. CASE Crash(c)
    BY <1>1, <2>5 DEF Crash, TraceInv, Footprint, Client
  <2>6. CASE Cancel(c) \/ CancelDone(c)
    BY <1>1, <2>6 DEF Cancel, CancelDone, TraceInv, Footprint, Client
  <2> QED  BY <2>1, <2>2, <2>3, <2>4, <2>5, <2>6
<1> QED  BY <1>2, <1>3 DEF TraceInv

\* The waiter leaves its queue.
LEMMA WaiterTrace ==
    ASSUME GateInv, TraceInv, NEW c \in Clients, CancelWaiter(c)
    PROVE  TraceInv'
<1>1. clients \in [Clients -> Client] /\ clients[c].account \in Accounts
  BY DEF GateInv, GateTypes, ClientShape, CancelWaiter
<1> DEFINE a == clients[c].account
<1>2. /\ Dequeue(queue[a], c) \in Seq(WaiterRow)
      /\ Waiters(Dequeue(queue[a], c)) \subseteq Waiters(queue[a]) \ {c}
  BY <1>1, DequeueWaiters DEF TraceInv
<1>3. /\ stored' = stored /\ active' = active /\ gate' = gate
      /\ queue' = [queue EXCEPT ![a] = Dequeue(queue[a], c)]
      /\ clients' = [clients EXCEPT ![c].pc = "idle"]
      /\ clients[c].pc = "leaving"
  BY DEF CancelWaiter
<1>4. /\ queue' \in [Accounts -> Seq(WaiterRow)]
      /\ \A b \in Accounts : Waiters(queue'[b]) \subseteq Waiters(queue[b])
      /\ c \notin Waiters(queue'[a]) /\ \A b \in Accounts \ {a} : queue'[b] = queue[b]
  BY <1>1, <1>2, <1>3 DEF TraceInv
<1>5. Footprint(c, clients'[c], gate', queue')
  <2>1. clients'[c].pc = "idle"
    BY <1>1, <1>3 DEF Client
  <2>2. \A b \in Accounts : gate[b].lease # c /\ (c \in Waiters(queue[b]) => b = a)
    BY <1>3 DEF TraceInv, Footprint
  <2>3. \A b \in Accounts : gate'[b].lease # c /\ c \notin Waiters(queue'[b])
    BY <1>3, <1>4, <2>2
  <2> QED  BY <2>1, <2>3 DEF Footprint
<1>6. ASSUME NEW d \in Clients, d # c
      PROVE  Footprint(d, clients'[d], gate', queue')
  <2>1. clients'[d] = clients[d]
    BY <1>1, <1>3, <1>6
  <2>2. Footprint(d, clients[d], gate, queue)
    BY DEF TraceInv
  <2>3. \A b \in Accounts : /\ gate'[b].lease = d => gate[b].lease = d
                            /\ d \in Waiters(queue'[b]) => d \in Waiters(queue[b])
    BY <1>3, <1>4
  <2> QED  BY <2>1, <2>2, <2>3, FootprintKept
<1> QED  BY <1>3, <1>4, <1>5, <1>6 DEF TraceInv

\* The client gives the gate back.
LEMMA ReleaseTrace ==
    ASSUME GateInv, TraceInv, NEW c \in Clients, Release(c)
    PROVE  TraceInv'
<1> DEFINE a == clients[c].account
<1>1. clients \in [Clients -> Client] /\ a \in Accounts /\ gate \in [Accounts -> GateRow]
  BY DEF GateInv, GateTypes, ClientShape, Release
<1>2. /\ stored' = stored /\ active' = active /\ queue' = queue
      /\ clients' = [clients EXCEPT ![c].pc = "idle"]
      /\ clients[c].pc = "ending"
  BY DEF Release
<1>3. /\ \A b \in Accounts : gate'[b] = gate[b] \/ gate'[b].lease = NoClient
      /\ gate'[a].lease # c
  BY <1>1, GateConstants DEF Release, OpenGate
<1>4. Footprint(c, clients'[c], gate', queue')
  <2>1. clients'[c].pc = "idle"
    BY <1>1, <1>2 DEF Client
  <2>2. \A b \in Accounts : c \notin Waiters(queue[b]) /\ (gate[b].lease = c => b = a)
    BY <1>2 DEF TraceInv, Footprint
  <2>3. \A b \in Accounts : gate'[b].lease # c /\ c \notin Waiters(queue'[b])
    BY <1>2, <1>3, <2>2, GateConstants
  <2> QED  BY <2>1, <2>3 DEF Footprint
<1>5. ASSUME NEW d \in Clients, d # c
      PROVE  Footprint(d, clients'[d], gate', queue')
  <2>1. clients'[d] = clients[d]
    BY <1>1, <1>2, <1>5
  <2>2. Footprint(d, clients[d], gate, queue)
    BY DEF TraceInv
  <2>3. \A b \in Accounts : gate'[b].lease = d => gate[b].lease = d
    BY <1>3, GateConstants
  <2> QED  BY <1>2, <2>1, <2>2, <2>3, FootprintKept
<1> QED  BY <1>2, <1>4, <1>5 DEF TraceInv

\* acquireUpstream: the waiter is in its account's queue and nowhere else, and
\* with the grant it leaves it.
LEMMA PollTrace ==
    ASSUME GateInv, TraceInv, NEW c \in Clients, NEW n \in 0..CallLimit, Poll(c, n)
    PROVE  TraceInv'
<1> DEFINE a == clients[c].account
           lines == [b \in Accounts |-> Expire(queue[b])]
           line == Enqueue(lines[a], c)
           rest0 == Dequeue(line, c)
<1>1. /\ clients \in [Clients -> Client] /\ a \in Accounts /\ gate \in [Accounts -> GateRow]
      /\ clients[c].pc = "waiting"
  BY DEF GateInv, GateTypes, ClientShape, Poll
<1>2. \A b \in Accounts : /\ lines[b] \in Seq(WaiterRow)
                          /\ Waiters(lines[b]) \subseteq Waiters(queue[b])
  BY ExpireWaiters DEF TraceInv
<1>3. /\ lines \in [Accounts -> Seq(WaiterRow)]
  BY <1>2
<1> HIDE DEF lines
<1>4. line \in Seq(WaiterRow) /\ Waiters(line) \subseteq Waiters(lines[a]) \cup {c}
  BY <1>1, <1>2, EnqueueWaiters
<1> HIDE DEF line
<1>5. rest0 \in Seq(WaiterRow) /\ Waiters(rest0) \subseteq Waiters(line) \ {c}
  BY <1>4, DequeueWaiters
<1> HIDE DEF rest0
<1>6. stored' = stored /\ active' = active
  BY DEF Poll
<1>7. ASSUME NEW b \in Accounts
      PROVE  gate[b].lease # c /\ (c \in Waiters(queue[b]) => b = a)
  BY <1>1 DEF TraceInv, Footprint
<1>8. CASE queue' = [lines EXCEPT ![a] = line] /\ gate' = gate /\ clients' = clients
  <2>1. /\ queue' \in [Accounts -> Seq(WaiterRow)]
        /\ queue'[a] = line /\ \A b \in Accounts \ {a} : queue'[b] = lines[b]
    BY <1>1, <1>3, <1>4, <1>8
  <2>2. ASSUME NEW d \in Clients, d # c
        PROVE  Footprint(d, clients'[d], gate', queue')
    <3>1. \A b \in Accounts : /\ gate'[b].lease = d => gate[b].lease = d
                              /\ d \in Waiters(queue'[b]) => d \in Waiters(queue[b])
      BY <1>1, <1>2, <1>4, <1>8, <2>1, <2>2
    <3>2. Footprint(d, clients[d], gate, queue)
      BY DEF TraceInv
    <3>3. clients'[d] = clients[d]
      BY <1>8
    <3> QED  BY <3>1, <3>2, <3>3, FootprintKept
  <2>3. Footprint(c, clients'[c], gate', queue')
    <3>1. \A b \in Accounts : c \in Waiters(queue'[b]) => b = a
      BY <1>2, <1>7, <2>1
    <3>2. clients[c].cancel # "done"
      BY <1>1 DEF TraceInv, Footprint
    <3> QED  BY <1>1, <1>7, <1>8, <3>1, <3>2 DEF Footprint
  <2> QED  BY <1>6, <2>1, <2>2, <2>3 DEF TraceInv
<1>9. CASE /\ queue' = [lines EXCEPT ![a] = rest0]
           /\ gate' = [gate EXCEPT ![a].lease = c, ![a].leaseLeft = LeaseTime]
           /\ clients' = [clients EXCEPT ![c].pc = "granted", ![c].left = n]
  <2>1. /\ queue' \in [Accounts -> Seq(WaiterRow)]
        /\ queue'[a] = rest0 /\ \A b \in Accounts \ {a} : queue'[b] = lines[b]
    BY <1>1, <1>3, <1>5, <1>9
  <2>2. gate'[a].lease = c /\ \A b \in Accounts \ {a} : gate'[b] = gate[b]
    BY <1>1, <1>9 DEF GateRow
  <2>3. ASSUME NEW d \in Clients, d # c
        PROVE  Footprint(d, clients'[d], gate', queue')
    <3>1. \A b \in Accounts : d \in Waiters(queue'[b]) => d \in Waiters(queue[b])
      BY <1>1, <1>2, <1>4, <1>5, <2>1, <2>3
    <3>2. \A b \in Accounts : gate'[b].lease = d => gate[b].lease = d
      BY <2>2, <2>3
    <3>3. Footprint(d, clients[d], gate, queue)
      BY DEF TraceInv
    <3>4. clients'[d] = clients[d]
      BY <1>1, <1>9, <2>3
    <3> QED  BY <3>1, <3>2, <3>3, <3>4, FootprintKept
  <2>4. Footprint(c, clients'[c], gate', queue')
    <3>1. /\ clients'[c].pc = "granted" /\ clients'[c].account = a
          /\ clients'[c].cancel = clients[c].cancel
      BY <1>1, <1>9 DEF Client
    <3>2. clients[c].cancel # "done"
      BY <1>1 DEF TraceInv, Footprint
    <3>3. \A b \in Accounts : c \notin Waiters(queue'[b])
      BY <1>2, <1>5, <1>7, <2>1
    <3>4. \A b \in Accounts : gate'[b].lease = c => b = a
      BY <1>7, <2>2
    <3> QED  BY <3>1, <3>2, <3>3, <3>4 DEF Footprint
  <2> QED  BY <1>6, <2>1, <2>3, <2>4 DEF TraceInv
<1> QED  BY <1>8, <1>9 DEF Poll, lines, line, rest0

\* Time passes.
LEMMA TickTrace == ASSUME GateInv, TraceInv, Tick PROVE TraceInv'
<1>1. clients \in [Clients -> Client] /\ gate \in [Accounts -> GateRow]
  BY DEF GateInv, GateTypes
<1>2. ASSUME NEW a \in Accounts
      PROVE  queue'[a] \in Seq(WaiterRow) /\ Waiters(queue'[a]) \subseteq Waiters(queue[a])
  <2> DEFINE q == queue[a]
             new(i) == [q[i] EXCEPT !.ttl = Elapse(@)]
  <2>1. queue'[a] = [i \in 1..Len(q) |-> new(i)]
    BY DEF Tick
  <2>2. q \in Seq(WaiterRow)
    BY DEF TraceInv
  <2>3. ASSUME NEW i \in 1..Len(q)
        PROVE  new(i) \in WaiterRow /\ new(i).waiter = q[i].waiter
    <3>1. q[i] \in WaiterRow
      BY <2>2
    <3>2. Elapse(q[i].ttl) \in 0..WaiterTtl
      BY <3>1, ElapseBounds, GateConstants DEF WaiterRow
    <3> QED  BY <3>1, <3>2 DEF WaiterRow
  <2> HIDE DEF q, new
  <2>4. /\ queue'[a] \in Seq(WaiterRow) /\ Len(queue'[a]) = Len(q)
        /\ \A i \in 1..Len(q) : queue'[a][i] = new(i)
    BY <2>1, <2>2, <2>3
  <2>5. Waiters(queue'[a]) \subseteq Waiters(q)
    BY <2>3, <2>4 DEF Waiters
  <2> QED  BY <2>4, <2>5 DEF q
<1>3. queue' \in [Accounts -> Seq(WaiterRow)]
  <2>1. queue' = [a \in Accounts |-> queue'[a]]
    BY DEF Tick
  <2> QED  BY <2>1, <1>2
<1>4. ASSUME NEW a \in Accounts  PROVE gate'[a].lease = gate[a].lease
  <2>1. gate'[a] = [gate[a] EXCEPT !.leaseLeft = Elapse(@), !.nextLeft = Elapse(@)]
    BY DEF Tick
  <2> QED  BY <1>1, <2>1 DEF GateRow
<1>5. ASSUME NEW c \in Clients  PROVE Footprint(c, clients'[c], gate', queue')
  <2>1. clients'[c] = [clients[c] EXCEPT !.left = Elapse(@)]
    BY DEF Tick
  <2>2. /\ clients'[c].pc = clients[c].pc /\ clients'[c].account = clients[c].account
        /\ clients'[c].cancel = clients[c].cancel
    BY <1>1, <2>1 DEF Client
  <2>3. Footprint(c, clients[c], gate, queue)
    BY DEF TraceInv
  <2>4. \A a \in Accounts : /\ gate'[a].lease = c => gate[a].lease = c
                            /\ c \in Waiters(queue'[a]) => c \in Waiters(queue[a])
    BY <1>2, <1>4
  <2> QED  BY <2>2, <2>3, <2>4, FootprintKept
<1> QED  BY <1>3, <1>5 DEF Tick, TraceInv

\* Rows are deleted by an administrator.
LEMMA DropTrace ==
    ASSUME GateInv, TraceInv, NEW S \in SUBSET Accounts, DropRows(S)
    PROVE  /\ queue' \in [Accounts -> Seq(WaiterRow)]
           /\ \A c \in Clients : Footprint(c, clients'[c], gate', queue')
<1>1. clients \in [Clients -> Client] /\ gate \in [Accounts -> GateRow]
  BY DEF GateInv, GateTypes
<1>2. ASSUME NEW a \in Accounts
      PROVE  /\ queue'[a] \in Seq(WaiterRow)
             /\ Waiters(queue'[a]) \subseteq Waiters(queue[a])
             /\ \A c \in Clients : gate'[a].lease = c => gate[a].lease = c
  <2>1. CASE a \in S
    <3>1. queue'[a] = <<>> /\ gate'[a] = OpenGate
      BY <2>1 DEF DropRows
    <3>2. Waiters(<<>>) = {}
      BY DEF Waiters
    <3> QED  BY <3>1, <3>2, GateConstants DEF OpenGate
  <2>2. CASE a \notin S
    BY <2>2 DEF DropRows, TraceInv
  <2> QED  BY <2>1, <2>2
<1>3. queue' \in [Accounts -> Seq(WaiterRow)]
  <2>1. queue' = [a \in Accounts |-> queue'[a]]
    BY DEF DropRows
  <2> QED  BY <2>1, <1>2
<1>4. ASSUME NEW c \in Clients  PROVE Footprint(c, clients'[c], gate', queue')
  <2>1. clients'[c] \in {clients[c], [clients[c] EXCEPT !.wiped = TRUE]}
    BY DEF DropRows
  <2>2. /\ clients'[c].pc = clients[c].pc /\ clients'[c].account = clients[c].account
        /\ clients'[c].cancel = clients[c].cancel
    BY <1>1, <2>1 DEF Client
  <2>3. Footprint(c, clients[c], gate, queue)
    BY DEF TraceInv
  <2>4. \A a \in Accounts : /\ gate'[a].lease = c => gate[a].lease = c
                            /\ c \in Waiters(queue'[a]) => c \in Waiters(queue[a])
    BY <1>2
  <2> QED  BY <2>2, <2>3, <2>4, FootprintKept
<1> QED  BY <1>3, <1>4

\* Every step keeps the footprints.
LEMMA TraceStep == ASSUME GateInv, TraceInv, [Next]_vars PROVE TraceInv'
<1>1. ASSUME NEW c \in Clients, ClientStep(c)  PROVE TraceInv'
  BY <1>1, QuietTrace, WaiterTrace, ReleaseTrace, PollTrace DEF ClientStep
<1>2. CASE UNCHANGED vars
  BY <1>2 DEF vars, TraceInv
<1>3. CASE SwitchRoute
  BY <1>3 DEF SwitchRoute, TraceInv
<1>4. ASSUME NEW a \in Accounts, DeleteAccount(a)  PROVE TraceInv'
  <2>1. stored' \in SUBSET Accounts /\ active' \in Accounts \cup {NoAccount}
    BY <1>4 DEF DeleteAccount, TraceInv
  <2> QED  BY <1>4, <2>1, DropTrace DEF DeleteAccount, TraceInv
<1>5. ASSUME NEW S \in SUBSET Accounts, NEW a \in S, ImportMigration(S, a)  PROVE TraceInv'
  <2>1. stored' \in SUBSET Accounts /\ active' \in Accounts \cup {NoAccount}
    BY <1>5 DEF ImportMigration, TraceInv
  <2> QED  BY <1>5, <2>1, DropTrace DEF ImportMigration, TraceInv
<1> QED  BY <1>1, <1>2, <1>3, <1>4, <1>5, TickTrace DEF Next, PoolNext, AdminStep

\* The tables start empty.
LEMMA TraceInit == ASSUME Init PROVE TraceInv
<1>1. Waiters(<<>>) = {}
  BY DEF Waiters
<1> QED  BY <1>1, GateConstants DEF Init, TraceInv, Footprint, OpenGate, Idle

\* A client's id is where its state says, and nowhere when it is idle, for any
\* number of clients and accounts.
THEOREM TraceInvariant == Spec => []TraceInv
BY TraceInit, TraceStep, GateInvariant, PTL DEF Spec

\* The state keeps its types, the queues included (upstream_gate_waiters).
THEOREM GateTypeCorrect == Spec => []TypeOK
<1>1. GateInv /\ TraceInv => TypeOK
  BY DEF GateInv, GateTypes, TraceInv, TypeOK
<1> QED  BY <1>1, GateInvariant, TraceInvariant, PTL

\* When cancel() resolves no lease, no place in a queue and no open call is
\* left, whenever the client hung up (createUpstreamGateLifecycle).
THEOREM CancelLeavesNothing == Spec => []CancelSettles
<1>1. GateInv /\ TraceInv => CancelSettles
  <2>1. SUFFICES ASSUME GateInv, TraceInv, NEW c \in Clients, clients[c].cancel = "done"
                 PROVE  Fresh(c)
    BY DEF CancelSettles
  <2>2. clients[c].pc = "idle"
    BY <2>1 DEF TraceInv, Footprint
  <2>3. ~clients[c].running
    BY <2>1, <2>2 DEF GateInv, ClientShape
  <2>4. \A a \in Accounts : gate[a].lease # c /\ c \notin Waiters(queue[a])
    BY <2>1, <2>2 DEF TraceInv, Footprint
  <2> QED  BY <2>3, <2>4 DEF Fresh
<1> QED  BY <1>1, GateInvariant, TraceInvariant, PTL
=============================================================================
