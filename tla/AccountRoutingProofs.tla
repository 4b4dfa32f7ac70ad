------------------------ MODULE AccountRoutingProofs ------------------------
(***************************************************************************)
(* Proofs about AccountRouting, for every set of accounts and of requests, *)
(* every cooldown and every limit.                                         *)
(***************************************************************************)
EXTENDS AccountRouting, TLAPS, NaturalsInduction, WellFoundedInduction,
        SequenceTheorems

Route == [id : Accounts \cup {NoAccount}, epoch : Nat]

\* The inductive invariant.  TenureOwner alone is not inductive: that a step
\* which keeps the epoch keeps the owner needs ActiveAvailable (the route is
\* left only in a step that moves the epoch).
IInv == TypeOK /\ ActiveAvailable /\ TenureOwner /\ SequenceOrder

-----------------------------------------------------------------------------
(* Operators.                                                              *)

\* A non-empty set of accounts has one with the least sequence number.
LEMMA LeastSequence ==
    ASSUME NEW S \in SUBSET Accounts, S # {}, NEW sq \in [Accounts -> Nat]
    PROVE  \E a \in S : \A b \in S : sq[a] <= sq[b]
<1> DEFINE T == {sq[a] : a \in S}
<1>1. T \subseteq Nat /\ T # {}
  OBVIOUS
<1>2. PICK n \in T : \A m \in T : ~(<<m, n>> \in OpToRel(<, Nat))
  BY <1>1, WFMin, NatLessThanWellFounded
<1>3. \A m \in T : n <= m
  <2>1. \A i, j \in Nat : i < j => <<i, j>> \in OpToRel(<, Nat)
    BY DEF OpToRel
  <2>2. n \in Nat
    BY <1>1
  <2>3. \A m \in T : m \in Nat /\ ~(m < n)
    BY <1>1, <1>2, <2>1, <2>2
  <2> HIDE DEF T
  <2> QED
    BY <2>2, <2>3
<1>4. PICK a \in S : sq[a] = n
  OBVIOUS
<1> QED
  BY <1>3, <1>4

\* FirstAfter picks a member of the set, or the empty id if there is none.
LEMMA FirstAfterMember ==
    ASSUME NEW S \in SUBSET Accounts, NEW sq \in [Accounts -> Nat], NEW n \in Int
    PROVE  IF S = {} THEN FirstAfter(S, sq, n) = NoAccount
                     ELSE FirstAfter(S, sq, n) \in S
<1>1. CASE S = {}
  BY <1>1 DEF FirstAfter
<1>2. CASE S # {}
  <2> DEFINE later == {a \in S : sq[a] > n}
             line == IF later # {} THEN later ELSE S
  <2>1. line \in SUBSET Accounts /\ line # {} /\ line \subseteq S
    BY <1>2
  <2> HIDE DEF line
  <2>2. \E a \in line : \A b \in line : sq[a] <= sq[b]
    BY <2>1, LeastSequence
  <2>3. (CHOOSE a \in line : \A b \in line : sq[a] <= sq[b]) \in line
    BY <2>2
  <2>4. FirstAfter(S, sq, n) = CHOOSE a \in line : \A b \in line : sq[a] <= sq[b]
    BY <1>2 DEF FirstAfter, line
  <2> QED
    BY <1>2, <2>1, <2>3, <2>4
<1> QED
  BY <1>1, <1>2

\* The cooldown is a positive number of units.
LEMMA CooldownPositive ==
    ASSUME NEW kind \in CoolingKinds, NEW n \in Nat \ {0}
    PROVE  Cooldown(kind, n) \in Nat \ {0}
<1>1. Lesser(7, n) \in 1..7
  BY DEF Lesser
<1>2. Doubling[Lesser(7, n)] \in Nat \ {0}
  BY <1>1 DEF Doubling
<1>3. MaxCooldown[kind] \in Nat \ {0} /\ BaseCooldown[kind] \in Nat \ {0}
  BY RoutingConstants
<1>4. \A b, d \in Nat \ {0} : b * d \in Nat \ {0}
  OBVIOUS
<1>5. BaseCooldown[kind] * Doubling[Lesser(7, n)] \in Nat \ {0}
  BY <1>2, <1>3, <1>4
<1> QED
  BY <1>3, <1>5 DEF Cooldown, Lesser

\* A charged failure makes the account unavailable.
LEMMA FailureRowSleeps ==
    ASSUME NEW row \in HealthRow, NEW kind \in Kinds
    PROVE  /\ FailureRow(row, kind) \in HealthRow
           /\ \/ FailureRow(row, kind).state = "isolated"
              \/ FailureRow(row, kind).cooldown > 0
<1> DEFINE n == IF row.kind = kind /\ row.window > 0 THEN row.count + 1 ELSE 1
<1>1. n \in Nat \ {0}
  BY DEF HealthRow
<1>2. kind \in IsolatingKinds \/ Cooldown(kind, n) \in Nat \ {0}
  BY <1>1, CooldownPositive DEF Kinds
<1>3. FailureWindow \in Nat
  BY RoutingConstants
<1> HIDE DEF n
<1>4. FailureRow(row, kind) =
        [state    |-> IF kind \in IsolatingKinds THEN "isolated" ELSE "cooldown",
         kind     |-> kind,
         count    |-> n,
         cooldown |-> IF kind \in IsolatingKinds THEN 0 ELSE Cooldown(kind, n),
         window   |-> FailureWindow]
  BY DEF FailureRow, n
<1> QED
  BY <1>1, <1>2, <1>3, <1>4 DEF HealthRow

\* ensureActiveAccountRoute returns a route to an available account, or to
\* none, and either leaves the route alone or opens a new tenure.
LEMMA EnsureRouteSound ==
    ASSUME NEW st \in SUBSET Accounts, NEW sq \in [Accounts -> Nat],
           NEW h \in [Accounts -> HealthRow], NEW rt \in Route
    PROVE  LET res == EnsureRoute(st, sq, h, rt) IN
           /\ res \in Route
           /\ res.id # NoAccount => res.id \in st /\ Available(h, res.id)
           /\ res = rt \/ res.epoch > rt.epoch
           /\ res.epoch >= rt.epoch
<1> DEFINE S == AvailableAccounts(st, h)
           selected == FirstAfter(S, sq, 0)
<1>1. S \in SUBSET Accounts
  BY DEF AvailableAccounts
<1>2. IF S = {} THEN selected = NoAccount ELSE selected \in S
  BY <1>1, FirstAfterMember
<1>3. selected # NoAccount => selected \in st /\ selected \in Accounts /\ Available(h, selected)
  BY <1>2 DEF AvailableAccounts
<1> HIDE DEF S, selected
<1>4. CASE rt.id \in st /\ Available(h, rt.id)
  BY <1>4 DEF EnsureRoute, Route
<1>5. CASE ~(rt.id \in st /\ Available(h, rt.id))
  <2>1. ~(selected # NoAccount /\ selected = rt.id)
    BY <1>3, <1>5
  <2>2. EnsureRoute(st, sq, h, rt) = [id |-> selected, epoch |-> rt.epoch + 1]
    BY <1>5, <2>1 DEF EnsureRoute, S, selected
  <2> QED
    BY <1>3, <2>2 DEF Route
<1> QED
  BY <1>4, <1>5

\* advanceActiveAccount is a no-op or opens a new tenure of another account.
LEMMA AdvanceRouteSound ==
    ASSUME NEW st \in SUBSET Accounts, NEW sq \in [Accounts -> Nat],
           NEW h \in [Accounts -> HealthRow], NEW rt \in Route,
           NEW a \in Accounts, NEW e \in Nat \cup {AnyEpoch}, OwnsRoute(rt, a, e)
    PROVE  LET res == AdvanceRoute(st, sq, h, rt, a, e) IN
           /\ res \in Route
           /\ res.epoch = rt.epoch + 1
<1> DEFINE S == AvailableAccounts(st, h) \ {a}
<1>1. S \in SUBSET Accounts
  BY DEF AvailableAccounts
<1>2. sq[a] \in Int
  OBVIOUS
<1>3. FirstAfter(S, sq, sq[a]) \in Accounts \cup {NoAccount}
  BY <1>1, <1>2, FirstAfterMember
<1>4. AdvanceRoute(st, sq, h, rt, a, e) =
        [id |-> FirstAfter(S, sq, sq[a]), epoch |-> rt.epoch + 1]
  BY DEF AdvanceRoute
<1> HIDE DEF S
<1> QED
  BY <1>3, <1>4 DEF Route

\* What reportAccountFailure leaves behind: an available owner or none, and
\* either the old tenure with the old health, or a later tenure.  Only the
\* reported account can go to sleep, and only if it owned the route in the
\* tenure the report names, or nobody did and the report names no tenure of
\* the past.
LEMMA AfterFailureSound ==
    ASSUME TypeOK, ActiveAvailable,
           NEW a \in Accounts \cup {NoAccount},
           NEW kind \in Kinds, NEW e \in Nat \cup {AnyEpoch}
    PROVE  LET res == AfterFailure(a, kind, e) IN
           /\ res.health \in [Accounts -> HealthRow]
           /\ res.route \in Route
           /\ res.route.id # NoAccount =>
                res.route.id \in stored /\ Available(res.health, res.route.id)
           /\ res.route = route \/ res.route.epoch > route.epoch
           /\ \A b \in Accounts : Available(health, b) /\ ~Available(res.health, b) =>
                /\ b = a
                /\ \/ route.id = a /\ e \in {AnyEpoch, route.epoch}
                   \/ route.id = NoAccount /\ (e = AnyEpoch \/ e > route.epoch)
                /\ res.route.id # a /\ res.route.epoch > route.epoch
<1> DEFINE current == EnsureRoute(stored, seq, health, route)
           row == FailureRow(health[a], kind)
           charged == [health EXCEPT ![a] = row]
           advanced == AdvanceRoute(stored, seq, charged, current, a, e)
           last == EnsureRoute(stored, seq, charged, advanced)
           res == AfterFailure(a, kind, e)
<1>0. /\ stored \in SUBSET Accounts /\ seq \in [Accounts -> Nat]
      /\ health \in [Accounts -> HealthRow] /\ route \in Route
  BY DEF TypeOK, Route
<1>1. /\ current \in Route
      /\ current.id # NoAccount => current.id \in stored /\ Available(health, current.id)
      /\ current = route \/ current.epoch > route.epoch
      /\ current.epoch >= route.epoch
  BY <1>0, EnsureRouteSound
<1>2. ASSUME a \in stored
      PROVE  /\ row \in HealthRow
             /\ row.state = "isolated" \/ row.cooldown > 0
  BY <1>0, <1>2, FailureRowSleeps
<1> HIDE DEF row
<1>3. ASSUME a \in stored
      PROVE  /\ charged \in [Accounts -> HealthRow]
             /\ ~Available(charged, a)
             /\ \A b \in Accounts \ {a} : Available(charged, b) <=> Available(health, b)
  BY <1>0, <1>2, <1>3 DEF Available, HealthRow
<1>4. CASE a \notin stored
  <2>1. res.health = health /\ res.route = route
    BY <1>4 DEF AfterFailure
  <2> QED
    BY <1>0, <2>1 DEF ActiveAvailable
<1>5. CASE a \in stored /\ ~OwnsRoute(current, a, e)
  <2>1. res.health = health /\ res.route = current
    BY <1>5 DEF AfterFailure
  <2> HIDE DEF current
  <2> QED
    BY <1>0, <1>1, <2>1
<1>6. CASE a \in stored /\ OwnsRoute(current, a, e)
  <2>1. res.health = charged /\ res.route = last
    BY <1>6 DEF AfterFailure, row
  <2> HIDE DEF current, charged
  <2>2. advanced \in Route /\ advanced.epoch = current.epoch + 1
    BY <1>0, <1>1, <1>3, <1>6, AdvanceRouteSound
  <2> HIDE DEF advanced
  <2>3. /\ last \in Route
        /\ last.id # NoAccount => last.id \in stored /\ Available(charged, last.id)
        /\ last.epoch >= advanced.epoch
    BY <1>0, <1>3, <1>6, <2>2, EnsureRouteSound
  <2>4. last.epoch > route.epoch
    BY <1>0, <1>1, <2>2, <2>3 DEF Route
  <2>5. last.id # a
    BY <1>0, <1>3, <1>6, <2>3, RoutingConstants
  <2> HIDE DEF last
  <2>6. ASSUME NEW b \in Accounts, Available(health, b), ~Available(charged, b)
        PROVE  /\ b = a
               /\ \/ route.id = a /\ e \in {AnyEpoch, route.epoch}
                  \/ route.id = NoAccount /\ (e = AnyEpoch \/ e > route.epoch)
    <3>1. b = a
      BY <2>6, <1>3, <1>6
    <3>2. current.id = a /\ e \in {AnyEpoch, current.epoch}
      BY <1>6 DEF OwnsRoute
    <3>3. route.id # NoAccount => current = route
      BY DEF ActiveAvailable, EnsureRoute, current
    <3> QED
      BY <1>1, <3>1, <3>2, <3>3
  <2> QED
    BY <1>3, <1>6, <2>1, <2>3, <2>4, <2>5, <2>6
<1> QED
  BY <1>4, <1>5, <1>6

\* selectAccount up to its first suspension: the route stays or moves to a
\* later tenure, and a call that suspends holds the current tenure.
LEMMA BeginSelectSound ==
    ASSUME stored \in SUBSET Accounts, seq \in [Accounts -> Nat],
           NEW h \in [Accounts -> HealthRow], NEW rt \in Route, NEW q \in Request,
           rt.id # NoAccount => rt.id \in stored /\ Available(h, rt.id)
    PROVE  LET res == BeginSelect(q, h, rt) IN
           /\ res.route \in Route
           /\ res.route.id # NoAccount =>
                res.route.id \in stored /\ Available(h, res.route.id)
           /\ res.route = rt \/ res.route.epoch > rt.epoch
           /\ res.req \in Request
           /\ \/ res.req.pc \in {"idle", "denied"}
              \/ /\ res.req.pc = "selecting" /\ res.req.account # NoAccount
                 /\ res.req.account = res.route.id /\ res.req.epoch = res.route.epoch
<1> DEFINE tooMany == ~q.preferring /\ Cardinality(q.excluded) >= 2
           ensured == EnsureRoute(stored, seq, h, rt)
           current == IF tooMany THEN rt ELSE ensured
           null == IF q.preferring THEN [q EXCEPT !.pc = "denied"] ELSE Idle
           go == [q EXCEPT !.pc = "selecting", !.account = current.id,
                           !.epoch = current.epoch]
           res == BeginSelect(q, h, rt)
<1>1. /\ ensured \in Route
      /\ ensured.id # NoAccount => ensured.id \in stored /\ Available(h, ensured.id)
      /\ ensured = rt \/ ensured.epoch > rt.epoch
  BY EnsureRouteSound
<1> HIDE DEF tooMany, ensured
<1>2. /\ current \in Route
      /\ current.id # NoAccount => current.id \in stored /\ Available(h, current.id)
      /\ current = rt \/ current.epoch > rt.epoch
  BY <1>1
<1>3. Idle \in Request /\ Idle.pc = "idle"
  BY DEF Idle, Request
<1>4. null \in Request /\ null.pc \in {"idle", "denied"}
  BY <1>3 DEF Request
<1>5. res = [route |-> current,
             req |-> IF tooMany \/ Refused(q, current) THEN null ELSE go]
  BY DEF BeginSelect, tooMany, ensured
<1> HIDE DEF current, null
<1>6. ~Refused(q, current) => current.id \in Accounts
  BY <1>2 DEF Refused, Route
<1>7. ~Refused(q, current) => go \in Request /\ go.pc = "selecting" /\ go.account # NoAccount
                              /\ go.account = current.id /\ go.epoch = current.epoch
  BY <1>2, <1>6, RoutingConstants DEF Request, Route
<1> HIDE DEF go
<1> QED
  BY <1>2, <1>4, <1>5, <1>7

-----------------------------------------------------------------------------
(* The invariant.                                                          *)

\* A later tenure does not invalidate what a request remembers.
LEMMA HoldsTenureKept ==
    ASSUME NEW q \in Request, NEW rt \in Route, NEW rt2 \in Route,
           HoldsTenure(q, rt), rt2 = rt \/ rt2.epoch > rt.epoch
    PROVE  HoldsTenure(q, rt2)
BY DEF HoldsTenure, Request, Route

\* Steps that move the route forward and change at most one request, to one
\* that is idle, denied or holds the new route.
LEMMA TenureOwnerKept ==
    ASSUME IInv, reqs' \in [Requests -> Request], route' \in Route,
           route' = route \/ route'.epoch > route.epoch,
           \A r \in Requests : \/ reqs'[r] = reqs[r]
                               \/ reqs'[r].pc \in {"idle", "denied"}
                               \/ /\ reqs'[r].account = route'.id
                                  /\ reqs'[r].account # NoAccount
                                  /\ reqs'[r].epoch = route'.epoch
                               \/ /\ reqs[r].pc = "selected"
                                  /\ reqs'[r].account = reqs[r].account
                                  /\ reqs'[r].epoch = reqs[r].epoch
    PROVE  TenureOwner'
<1> SUFFICES ASSUME NEW r \in Requests PROVE HoldsTenure(reqs'[r], route')
  BY DEF TenureOwner, HoldsTenure
<1>1. route \in Route /\ reqs[r] \in Request /\ reqs'[r] \in Request
  BY DEF IInv, TypeOK, Route
<1>2. HoldsTenure(reqs[r], route')
  BY <1>1, HoldsTenureKept DEF IInv, TenureOwner
<1> QED
  BY <1>1, <1>2 DEF HoldsTenure, Request, Route

\* The idle request is a request.
LEMMA IdleRequest == Idle \in Request /\ Idle.pc = "idle"
BY DEF Idle, Request

\* The invariant holds of a fresh, empty TenantState.
LEMMA InitInvariant == Init => IInv
<1> SUFFICES ASSUME Init PROVE IInv
  OBVIOUS
<1>1. Healthy \in HealthRow
  BY DEF Healthy, HealthRow
<1>2. TypeOK
  BY <1>1, IdleRequest DEF Init, TypeOK
<1>3. ActiveAvailable /\ SequenceOrder
  BY DEF Init, ActiveAvailable, SequenceOrder
<1>4. TenureOwner
  BY IdleRequest DEF Init, TenureOwner, HoldsTenure
<1> QED
  BY <1>2, <1>3, <1>4 DEF IInv

\* A request entering selectAccount preserves the invariant.
LEMMA SelectStep ==
    ASSUME IInv, NEW r \in Requests, NEW q \in Request,
           route' = BeginSelect(q, health, route).route,
           reqs' = [reqs EXCEPT ![r] = BeginSelect(q, health, route).req],
           UNCHANGED <<pool, health, upserts, alarm>>
    PROVE  IInv'
<1> DEFINE res == BeginSelect(q, health, route)
<1>0. route \in Route
  BY DEF IInv, TypeOK, Route
<1>1. /\ res.route \in Route
      /\ res.route.id # NoAccount =>
           res.route.id \in stored /\ Available(health, res.route.id)
      /\ res.route = route \/ res.route.epoch > route.epoch
      /\ res.req \in Request
      /\ \/ res.req.pc \in {"idle", "denied"}
         \/ /\ res.req.pc = "selecting" /\ res.req.account # NoAccount
            /\ res.req.account = res.route.id /\ res.req.epoch = res.route.epoch
  BY <1>0, BeginSelectSound DEF IInv, TypeOK, ActiveAvailable
<1>2. route' = res.route /\ reqs' = [reqs EXCEPT ![r] = res.req]
  OBVIOUS
<1> HIDE DEF res
<1>3. TypeOK'
  BY <1>1, <1>2 DEF IInv, TypeOK, pool, Route
<1>4. ActiveAvailable'
  BY <1>1, <1>2 DEF ActiveAvailable, pool, Available
<1>5. TenureOwner'
  BY <1>1, <1>2, <1>3, TenureOwnerKept DEF IInv, TypeOK, Route
<1>6. SequenceOrder'
  BY DEF IInv, SequenceOrder, pool
<1> QED
  BY <1>3, <1>4, <1>5, <1>6 DEF IInv

\* A failure report of a request (selectAccount's or exchange's) leaves a
\* state of which everything but the requests satisfies the invariant.
LEMMA ReportSound ==
    ASSUME IInv, NEW r \in Requests, NEW kind \in Kinds,
           reqs[r].pc \in {"selecting", "selected"}
    PROVE  LET res == AfterFailure(reqs[r].account, kind, reqs[r].epoch) IN
           /\ res.health \in [Accounts -> HealthRow]
           /\ res.route \in Route
           /\ res.route.id # NoAccount =>
                res.route.id \in stored /\ Available(res.health, res.route.id)
           /\ res.route = route \/ res.route.epoch > route.epoch
           /\ \A b \in Accounts : Available(health, b) /\ ~Available(res.health, b) =>
                /\ b = reqs[r].account /\ route.id = b /\ reqs[r].epoch = route.epoch
                /\ res.route.id # b /\ res.route.epoch > route.epoch
<1> DEFINE a == reqs[r].account
           e == reqs[r].epoch
           res == AfterFailure(a, kind, e)
<1>0. a \in Accounts \cup {NoAccount}
  BY DEF IInv, TypeOK, Request
<1>1. e \in Nat /\ e <= route.epoch /\ route.epoch \in Nat
  BY DEF IInv, TypeOK, Request, TenureOwner, HoldsTenure
<1>2. e # AnyEpoch /\ ~(e > route.epoch)
  BY <1>1 DEF AnyEpoch
<1>3. /\ res.health \in [Accounts -> HealthRow]
      /\ res.route \in Route
      /\ res.route.id # NoAccount =>
           res.route.id \in stored /\ Available(res.health, res.route.id)
      /\ res.route = route \/ res.route.epoch > route.epoch
      /\ \A b \in Accounts : Available(health, b) /\ ~Available(res.health, b) =>
           /\ b = a
           /\ \/ route.id = a /\ e \in {AnyEpoch, route.epoch}
              \/ route.id = NoAccount /\ (e = AnyEpoch \/ e > route.epoch)
           /\ res.route.id # a /\ res.route.epoch > route.epoch
  BY <1>0, <1>1, AfterFailureSound DEF IInv
<1> HIDE DEF e
<1> QED
  BY <1>2, <1>3 DEF e

\* Steps outside the pool: enough that health stays typed, the route stays
\* sound and moves only forward, and each request is unchanged, idle, denied,
\* holds the new route or goes on with the account it had.
LEMMA RouteStepKeeps ==
    ASSUME IInv, UNCHANGED pool,
           health' \in [Accounts -> HealthRow], route' \in Route,
           upserts' \in SUBSET Accounts, alarm' \in Accounts \cup {NoAccount},
           reqs' \in [Requests -> Request],
           route'.id # NoAccount => route'.id \in stored /\ Available(health', route'.id),
           route' = route \/ route'.epoch > route.epoch,
           \A r \in Requests : \/ reqs'[r] = reqs[r]
                               \/ reqs'[r].pc \in {"idle", "denied"}
                               \/ /\ reqs'[r].account = route'.id
                                  /\ reqs'[r].account # NoAccount
                                  /\ reqs'[r].epoch = route'.epoch
                               \/ /\ reqs[r].pc = "selected"
                                  /\ reqs'[r].account = reqs[r].account
                                  /\ reqs'[r].epoch = reqs[r].epoch
    PROVE  IInv'
<1>1. TypeOK'
  BY DEF IInv, TypeOK, pool, Route
<1>2. ActiveAvailable'
  BY DEF ActiveAvailable, pool, Available
<1>3. TenureOwner'
  BY TenureOwnerKept
<1>4. SequenceOrder'
  BY DEF IInv, SequenceOrder, pool
<1> QED
  BY <1>1, <1>2, <1>3, <1>4 DEF IInv

\* Every step of a request preserves the invariant.
LEMMA RequestStepInvariant ==
    ASSUME IInv, NEW r \in Requests, RequestStep(r)
    PROVE  IInv'
<1> USE DEF Route
<1>0. /\ stored \in SUBSET Accounts /\ seq \in [Accounts -> Nat]
      /\ health \in [Accounts -> HealthRow] /\ route \in Route
      /\ upserts \in SUBSET Accounts /\ alarm \in Accounts \cup {NoAccount}
      /\ reqs \in [Requests -> Request] /\ reqs[r] \in Request
  BY DEF IInv, TypeOK
<1>1. ASSUME NEW bound \in Accounts \cup {NoAccount}, Select(r, bound)
      PROVE  IInv'
  <2>1. [Idle EXCEPT !.bound = bound, !.preferring = bound # NoAccount] \in Request
    BY IdleRequest DEF Request
  <2> QED
    BY <1>1, <2>1, SelectStep DEF Select
<1>2. ASSUME Reselect(r) PROVE IInv'
  <2>1. [reqs[r] EXCEPT !.preferring = FALSE] \in Request
    BY <1>0 DEF Request
  <2> QED
    BY <1>2, <2>1, SelectStep DEF Reselect
<1>3. ASSUME LoadOk(r) PROVE IInv'
  <2> DEFINE q == reqs[r]
             going == [q EXCEPT !.pc = "selected", !.bound = NoAccount,
                                !.preferring = FALSE, !.excluded = {},
                                !.attempted = @ \cup {q.account}]
             denied == [q EXCEPT !.pc = "denied"]
  <2>1. PICK nq \in {going, denied, Idle} :
            /\ reqs' = [reqs EXCEPT ![r] = nq]
            /\ \/ nq = going /\ q.account = route.id /\ q.epoch = route.epoch
               \/ nq = denied
               \/ nq = Idle
    <3>1. \/ reqs' = [reqs EXCEPT ![r] = going] /\ q.account = route.id /\ q.epoch = route.epoch
          \/ reqs' = [reqs EXCEPT ![r] = denied]
          \/ reqs' = [reqs EXCEPT ![r] = Idle]
      BY <1>3 DEF LoadOk
    <3> HIDE DEF going, denied
    <3> QED
      BY <3>1
  <2>2. q.account \in Accounts /\ q.account # NoAccount
    BY <1>0, <1>3, RoutingConstants DEF LoadOk, IInv, TenureOwner, HoldsTenure, Request
  <2>3. /\ denied \in Request /\ denied.pc = "denied"
        /\ going \in Request /\ going.account = q.account /\ going.epoch = q.epoch
    BY <1>0, <2>2 DEF Request
  <2>4. UNCHANGED <<pool, health, route, upserts, alarm>>
    BY <1>3 DEF LoadOk
  <2>5. ActiveAvailable
    BY DEF IInv
  <2> HIDE DEF q, going, denied
  <2>6. /\ nq \in Request
        /\ \/ nq.pc \in {"idle", "denied"}
           \/ nq.account = route.id /\ nq.account # NoAccount /\ nq.epoch = route.epoch
    BY <2>1, <2>2, <2>3, IdleRequest
  <2>7. reqs' \in [Requests -> Request]
    BY <1>0, <2>1, <2>6
  <2>8. \A s \in Requests : \/ reqs'[s] = reqs[s]
                            \/ reqs'[s].pc \in {"idle", "denied"}
                            \/ /\ reqs'[s].account = route'.id
                               /\ reqs'[s].account # NoAccount
                               /\ reqs'[s].epoch = route'.epoch
    BY <1>0, <2>1, <2>4, <2>6
  <2> QED
    BY <1>0, <2>4, <2>5, <2>7, <2>8, RouteStepKeeps DEF ActiveAvailable
<1>4. ASSUME NEW kind \in Kinds, LoadFail(r, kind) PROVE IInv'
  <2> DEFINE q == reqs[r]
             res == AfterFailure(q.account, kind, q.epoch)
             q2 == [q EXCEPT !.excluded = @ \cup {q.account}]
             nxt == BeginSelect(q2, res.health, res.route)
             nroute == IF q.preferring THEN res.route ELSE nxt.route
             nq == IF q.preferring THEN Idle ELSE nxt.req
  <2>1. /\ res.health \in [Accounts -> HealthRow]
        /\ res.route \in Route
        /\ res.route.id # NoAccount =>
             res.route.id \in stored /\ Available(res.health, res.route.id)
        /\ res.route = route \/ res.route.epoch > route.epoch
    BY <1>4, ReportSound DEF LoadFail
  <2>2. q.account \in Accounts
    BY <1>0, <1>4, RoutingConstants DEF LoadFail, IInv, TenureOwner, HoldsTenure, Request
  <2>3. q2 \in Request
    BY <1>0, <2>2 DEF Request
  <2>4. /\ health' = res.health /\ route' = nroute
        /\ reqs' = [reqs EXCEPT ![r] = nq]
        /\ UNCHANGED <<pool, upserts, alarm>>
    BY <1>4 DEF LoadFail
  <2> HIDE DEF q2, res
  <2>5. /\ nxt.route \in Route
        /\ nxt.route.id # NoAccount =>
             nxt.route.id \in stored /\ Available(res.health, nxt.route.id)
        /\ nxt.route = res.route \/ nxt.route.epoch > res.route.epoch
        /\ nxt.req \in Request
        /\ \/ nxt.req.pc \in {"idle", "denied"}
           \/ /\ nxt.req.pc = "selecting" /\ nxt.req.account # NoAccount
              /\ nxt.req.account = nxt.route.id /\ nxt.req.epoch = nxt.route.epoch
    BY <1>0, <2>1, <2>3, BeginSelectSound
  <2> HIDE DEF nxt
  <2>6. /\ nroute \in Route
        /\ nroute.id # NoAccount =>
             nroute.id \in stored /\ Available(res.health, nroute.id)
        /\ nroute = route \/ nroute.epoch > route.epoch
    BY <1>0, <2>1, <2>5
  <2>7. /\ nq \in Request
        /\ \/ nq.pc \in {"idle", "denied"}
           \/ nq.account = nroute.id /\ nq.account # NoAccount /\ nq.epoch = nroute.epoch
    BY <2>5, IdleRequest
  <2> HIDE DEF nroute, nq, q
  <2>8. reqs' \in [Requests -> Request]
    BY <1>0, <2>4, <2>7
  <2>9. \A s \in Requests : \/ reqs'[s] = reqs[s]
                            \/ reqs'[s].pc \in {"idle", "denied"}
                            \/ /\ reqs'[s].account = route'.id
                               /\ reqs'[s].account # NoAccount
                               /\ reqs'[s].epoch = route'.epoch
    BY <1>0, <2>4, <2>7
  <2> QED
    BY <1>0, <2>1, <2>4, <2>6, <2>8, <2>9, RouteStepKeeps
<1>5. ASSUME ExchangeOk(r) PROVE IInv'
  <2> DEFINE a == reqs[r].account
             current == EnsureRoute(stored, seq, health, route)
  <2>1. /\ current \in Route
        /\ current.id # NoAccount => current.id \in stored /\ Available(health, current.id)
        /\ current = route \/ current.epoch > route.epoch
    BY <1>0, EnsureRouteSound
  <2>2. /\ route' = current
        /\ health' = IF current.id = a THEN [health EXCEPT ![a] = Healthy] ELSE health
        /\ reqs' = [reqs EXCEPT ![r] = Idle]
        /\ UNCHANGED <<pool, upserts, alarm>>
    BY <1>5 DEF ExchangeOk
  <2> HIDE DEF a, current
  <2>3. health' \in [Accounts -> HealthRow]
    BY <1>0, <2>2 DEF Healthy, HealthRow
  <2>4. current.id # NoAccount => current.id \in stored /\ Available(health', current.id)
    BY <1>0, <2>1, <2>2 DEF Available, Healthy
  <2> QED
    BY <1>0, <2>1, <2>2, <2>3, <2>4, IdleRequest, RouteStepKeeps
<1>6. ASSUME NEW kind \in Kinds, ExchangeFail(r, kind) PROVE IInv'
  <2> DEFINE res == AfterFailure(reqs[r].account, kind, reqs[r].epoch)
  <2>1. /\ res.health \in [Accounts -> HealthRow]
        /\ res.route \in Route
        /\ res.route.id # NoAccount =>
             res.route.id \in stored /\ Available(res.health, res.route.id)
        /\ res.route = route \/ res.route.epoch > route.epoch
    BY <1>6, ReportSound DEF ExchangeFail
  <2>2. /\ health' = res.health /\ route' = res.route
        /\ reqs[r].pc = "selected" /\ reqs' = [reqs EXCEPT ![r].pc = "failing"]
        /\ UNCHANGED <<pool, upserts, alarm>>
    BY <1>6 DEF ExchangeFail
  <2> HIDE DEF res
  <2>3. reqs' \in [Requests -> Request]
    BY <1>0, <2>2 DEF Request
  <2>4. \A s \in Requests : \/ reqs'[s] = reqs[s]
                            \/ /\ reqs[s].pc = "selected"
                               /\ reqs'[s].account = reqs[s].account
                               /\ reqs'[s].epoch = reqs[s].epoch
    BY <1>0, <2>2 DEF Request
  <2> QED
    BY <1>0, <2>1, <2>2, <2>3, <2>4, RouteStepKeeps
<1>7. ASSUME FailOver(r) PROVE IInv'
  <2>1. [reqs[r] EXCEPT !.excluded = reqs[r].attempted] \in Request
    BY <1>0 DEF Request
  <2> QED
    BY <1>7, <2>1, SelectStep DEF FailOver
<1>8. ASSUME GiveUp(r) PROVE IInv'
  <2>1. reqs' = [reqs EXCEPT ![r] = Idle] /\ UNCHANGED <<pool, health, route, upserts, alarm>>
    BY <1>8 DEF GiveUp
  <2>2. ActiveAvailable
    BY DEF IInv
  <2> QED
    BY <1>0, <2>1, <2>2, IdleRequest, RouteStepKeeps DEF ActiveAvailable
<1> QED
  BY <1>1, <1>2, <1>3, <1>4, <1>5, <1>6, <1>7, <1>8 DEF RequestStep

\* Administration preserves the invariant.
LEMMA AdminStepInvariant ==
    ASSUME IInv, AdminStep
    PROVE  IInv'
<1> USE DEF Route
<1>0. /\ stored \in SUBSET Accounts /\ seq \in [Accounts -> Nat] /\ counter \in Nat
      /\ health \in [Accounts -> HealthRow] /\ route \in Route
      /\ upserts \in SUBSET Accounts /\ alarm \in Accounts \cup {NoAccount}
      /\ reqs \in [Requests -> Request]
      /\ \A a \in stored : seq[a] \in 1..counter
      /\ \A a, b \in stored : seq[a] = seq[b] => a = b
  BY DEF IInv, TypeOK, SequenceOrder
<1>1. ASSUME NEW a \in Accounts, UpsertAccount(a) PROVE IInv'
  <2>1. /\ stored' = stored \cup {a} /\ upserts' = upserts \cup {a}
        /\ route' = EnsureRoute(stored', seq', health, route)
        /\ UNCHANGED <<health, alarm, reqs>>
        /\ \/ a \in stored /\ UNCHANGED <<seq, counter>>
           \/ /\ a \notin stored
              /\ seq' = [seq EXCEPT ![a] = counter + 1] /\ counter' = counter + 1
    BY <1>1 DEF UpsertAccount, NextSequence
  <2>2. stored' \in SUBSET Accounts /\ seq' \in [Accounts -> Nat] /\ counter' \in Nat
    BY <1>0, <2>1
  <2>3. /\ route' \in Route
        /\ route'.id # NoAccount => route'.id \in stored' /\ Available(health, route'.id)
        /\ route' = route \/ route'.epoch > route.epoch
    BY <1>0, <2>1, <2>2, EnsureRouteSound
  <2>4. TypeOK'
    BY <1>0, <2>1, <2>2, <2>3 DEF TypeOK
  <2>5. ActiveAvailable'
    BY <2>1, <2>3 DEF ActiveAvailable, Available
  <2>6. TenureOwner'
    BY <1>0, <2>1, <2>3, TenureOwnerKept
  <2>7. SequenceOrder'
    <3>1. CASE a \in stored
      BY <1>0, <2>1, <3>1 DEF SequenceOrder
    <3>2. CASE a \notin stored
      <4>1. seq' = [seq EXCEPT ![a] = counter + 1] /\ counter' = counter + 1
        BY <2>1, <3>2
      <4>2. \A b \in stored' : seq'[b] \in 1..counter'
        BY <1>0, <2>1, <4>1
      <4>3. \A b, c \in stored' : seq'[b] = seq'[c] => b = c
        BY <1>0, <2>1, <4>1
      <4> QED
        BY <4>2, <4>3 DEF SequenceOrder
    <3> QED
      BY <3>1, <3>2
  <2> QED
    BY <2>4, <2>5, <2>6, <2>7 DEF IInv
<1>2. ASSUME NEW a \in Accounts, FinishUpsert(a) PROVE IInv'
  <2> DEFINE once == EnsureRoute(stored, seq, health, route)
             twice == EnsureRoute(stored, seq, health', once)
  <2>1. /\ upserts' = upserts \ {a} /\ health' = [health EXCEPT ![a] = Healthy]
        /\ route' = twice
        /\ UNCHANGED <<pool, alarm, reqs>>
    BY <1>2 DEF FinishUpsert
  <2>2. health' \in [Accounts -> HealthRow]
    BY <1>0, <2>1 DEF Healthy, HealthRow
  <2>3. once \in Route /\ (once = route \/ once.epoch > route.epoch)
    BY <1>0, EnsureRouteSound
  <2> HIDE DEF once
  <2>4. /\ twice \in Route
        /\ twice.id # NoAccount => twice.id \in stored /\ Available(health', twice.id)
        /\ twice = once \/ twice.epoch > once.epoch
    BY <1>0, <2>2, <2>3, EnsureRouteSound
  <2> HIDE DEF twice
  <2>5. twice = route \/ twice.epoch > route.epoch
    BY <1>0, <2>3, <2>4
  <2> QED
    BY <1>0, <2>1, <2>2, <2>4, <2>5, RouteStepKeeps
<1>3. ASSUME NEW a \in Accounts, DeleteAccount(a) PROVE IInv'
  <2> DEFINE S == AvailableAccounts(stored', health')
             next == FirstAfter(S, seq, seq[a])
  <2>1. /\ a \in stored /\ stored' = stored \ {a}
        /\ health' = [health EXCEPT ![a] = Healthy]
        /\ route' = IF route.id # a THEN route ELSE [id |-> next, epoch |-> route.epoch + 1]
        /\ seq' = [seq EXCEPT ![a] = 0]
        /\ UNCHANGED <<counter, upserts, alarm, reqs>>
    BY <1>3 DEF DeleteAccount
  <2>2. /\ stored' \in SUBSET Accounts /\ seq' \in [Accounts -> Nat]
        /\ health' \in [Accounts -> HealthRow]
    BY <1>0, <2>1 DEF Healthy, HealthRow
  <2>3. S \in SUBSET Accounts /\ seq[a] \in Int
    BY <1>0, <2>2 DEF AvailableAccounts
  <2>4. IF S = {} THEN next = NoAccount ELSE next \in S
    BY <1>0, <2>3, FirstAfterMember
  <2>5. next # NoAccount => next \in stored' /\ Available(health', next)
    BY <2>4 DEF AvailableAccounts
  <2>6. next \in Accounts \cup {NoAccount}
    BY <2>2, <2>5
  <2> HIDE DEF next, S
  <2>7. route' \in Route /\ (route' = route \/ route'.epoch > route.epoch)
    BY <1>0, <2>1, <2>6
  <2>8. route'.id # NoAccount => route'.id \in stored' /\ Available(health', route'.id)
    <3>1. CASE route.id = a
      BY <2>1, <2>5, <3>1
    <3>2. CASE route.id # a
      <4>1. route.id # NoAccount => route.id \in stored /\ Available(health, route.id)
        BY DEF IInv, ActiveAvailable
      <4> QED
        BY <1>0, <2>1, <3>2, <4>1 DEF Available
    <3> QED
      BY <3>1, <3>2
  <2>9. TypeOK'
    BY <1>0, <2>1, <2>2, <2>7 DEF TypeOK
  <2>10. ActiveAvailable'
    BY <2>8 DEF ActiveAvailable, Available
  <2>11. TenureOwner'
    BY <1>0, <2>1, <2>7, TenureOwnerKept
  <2>12. SequenceOrder'
    BY <1>0, <2>1 DEF SequenceOrder
  <2> QED
    BY <2>9, <2>10, <2>11, <2>12 DEF IInv
<1>4. ASSUME NEW batch \in Batches, NEW k \in 1..Len(batch), ImportMigration(batch, k)
      PROVE  IInv'
  <2> DEFINE members == BatchMembers(batch)
             position(b) == CHOOSE i \in 1..Len(batch) : batch[i] = b
  <2>1. /\ batch \in [1..Len(batch) -> Accounts] /\ Len(batch) \in Nat
        /\ \A i, j \in 1..Len(batch) : batch[i] = batch[j] => i = j
    <3>1. batch \in Seq(Accounts)
      BY SeqDef, RoutingConstants DEF Batches
    <3> QED
      BY <3>1, LenProperties DEF Batches
  <2>2. members \in SUBSET Accounts
    BY <2>1 DEF BatchMembers
  <2>3. \A b \in members : position(b) \in 1..Len(batch) /\ batch[position(b)] = b
    BY <2>1 DEF BatchMembers
  <2>4. batch[k] \in members /\ batch[k] \in Accounts
    BY <2>1 DEF BatchMembers
  <2>5. /\ stored' = stored \cup members
        /\ seq' = [b \in Accounts |->
                     CASE b \in members -> position(b)
                       [] b \in stored \ members -> seq[b] + Len(batch)
                       [] OTHER -> 0]
        /\ \E m \in {seq'[b] : b \in stored'} :
             (\A b \in stored' : seq'[b] <= m) /\ counter' = m
        /\ health' = [b \in Accounts |-> IF b \in members THEN Healthy ELSE health[b]]
        /\ route' = [id |-> batch[k],
                     epoch |-> route.epoch + (IF route.id = batch[k] THEN 0 ELSE 1)]
        /\ UNCHANGED <<upserts, alarm, reqs>>
    BY <1>4 DEF ImportMigration
  <2> HIDE DEF members, position
  <2>6. /\ \A b \in members : seq'[b] = position(b)
        /\ \A b \in stored \ members : seq'[b] = seq[b] + Len(batch)
        /\ \A b \in Accounts \ (stored \cup members) : seq'[b] = 0
    BY <1>0, <2>2, <2>5
  <2>7. seq' \in [Accounts -> Nat]
    <3>1. \A b \in Accounts : seq'[b] \in Nat
      BY <1>0, <2>1, <2>2, <2>3, <2>6
    <3> QED
      BY <2>5, <3>1
  <2>8. counter' \in Nat /\ \A b \in stored' : seq'[b] <= counter'
    BY <1>0, <2>2, <2>5, <2>7
  <2>9. health' \in [Accounts -> HealthRow]
    BY <1>0, <2>5 DEF Healthy, HealthRow
  <2>10. route' \in Route /\ (route' = route \/ route'.epoch > route.epoch)
    BY <1>0, <2>4, <2>5
  <2>11. TypeOK'
    BY <1>0, <2>2, <2>5, <2>7, <2>8, <2>9, <2>10 DEF TypeOK
  <2>12. ActiveAvailable'
    BY <2>2, <2>4, <2>5 DEF ActiveAvailable, Available, Healthy
  <2>13. TenureOwner'
    BY <1>0, <2>5, <2>10, TenureOwnerKept
  <2>14. SequenceOrder'
    <3>1. \A b \in stored' : seq'[b] \in 1..counter'
      <4>1. \A b \in stored' : seq'[b] > 0
        BY <1>0, <2>1, <2>3, <2>5, <2>6
      <4>2. stored' \subseteq Accounts
        BY <1>0, <2>2, <2>5
      <4>3. \A b \in stored' : seq'[b] \in Nat
        BY <2>7, <4>2
      <4> QED
        BY <2>8, <4>1, <4>3
    <3>2. ASSUME NEW b \in stored', NEW c \in stored', seq'[b] = seq'[c]
          PROVE  b = c
      <4>1. b \in members /\ c \in members => b = c
        BY <2>1, <2>3, <2>6, <3>2
      <4>2. b \in stored \ members /\ c \in stored \ members => b = c
        BY <1>0, <2>1, <2>6, <3>2
      <4>3. ~(b \in members /\ c \in stored \ members)
        BY <1>0, <2>1, <2>3, <2>6, <3>2
      <4>4. ~(c \in members /\ b \in stored \ members)
        BY <1>0, <2>1, <2>3, <2>6, <3>2
      <4> QED
        BY <2>5, <4>1, <4>2, <4>3, <4>4
    <3> QED
      BY <3>1, <3>2 DEF SequenceOrder
  <2> QED
    BY <2>11, <2>12, <2>13, <2>14 DEF IInv
<1> QED
  BY <1>1, <1>2, <1>3, <1>4 DEF AdminStep

\* What the object does on its own account preserves the invariant.
LEMMA TenantStepInvariant ==
    ASSUME IInv, TenantStep
    PROVE  IInv'
<1> USE DEF Route
<1> DEFINE none == NoAccount
           once == EnsureRoute(stored, seq, health, route)
           twice == EnsureRoute(stored, seq, health, once)
<1>0. /\ stored \in SUBSET Accounts /\ seq \in [Accounts -> Nat]
      /\ health \in [Accounts -> HealthRow] /\ route \in Route
      /\ upserts \in SUBSET Accounts /\ alarm \in Accounts \cup {NoAccount}
      /\ reqs \in [Requests -> Request] /\ none \in Accounts \cup {NoAccount}
      /\ route.id # NoAccount => route.id \in stored /\ Available(health, route.id)
  BY DEF IInv, TypeOK, ActiveAvailable
<1>1. /\ once \in Route
      /\ once.id # NoAccount => once.id \in stored /\ Available(health, once.id)
      /\ once = route \/ once.epoch > route.epoch
  BY <1>0, EnsureRouteSound
<1> HIDE DEF once, none
<1>2. CASE Observe
  BY <1>0, <1>1, <1>2, RouteStepKeeps DEF Observe, once
<1>3. CASE AlarmRefresh
  <2>1. route' = once /\ alarm' = once.id /\ UNCHANGED <<pool, health, upserts, reqs>>
    BY <1>3 DEF AlarmRefresh, once
  <2> QED
    BY <1>0, <1>1, <2>1, RouteStepKeeps
<1>4. CASE AlarmDone
  <2>1. route' = once /\ alarm' = none /\ UNCHANGED <<pool, health, upserts, reqs>>
    BY <1>4 DEF AlarmDone, once, none
  <2> QED
    BY <1>0, <1>1, <2>1, RouteStepKeeps
<1>5. ASSUME NEW kind \in IsolatingKinds, AlarmFail(kind) PROVE IInv'
  <2> DEFINE res == AfterFailure(alarm, kind, AnyEpoch)
             last == EnsureRoute(stored, seq, res.health, res.route)
  <2>1. /\ health' = res.health /\ route' = last /\ alarm' = none
        /\ UNCHANGED <<pool, upserts, reqs>>
    BY <1>5 DEF AlarmFail, none
  <2>2. kind \in Kinds /\ alarm \in Accounts \cup {NoAccount}
    BY <1>0 DEF Kinds
  <2>3. /\ res.health \in [Accounts -> HealthRow]
        /\ res.route \in Route
        /\ res.route = route \/ res.route.epoch > route.epoch
    BY <2>2, AfterFailureSound DEF IInv
  <2> HIDE DEF res
  <2>4. /\ last \in Route
        /\ last.id # NoAccount => last.id \in stored /\ Available(res.health, last.id)
        /\ last = res.route \/ last.epoch > res.route.epoch
    BY <1>0, <2>3, EnsureRouteSound
  <2> HIDE DEF last
  <2>5. last = route \/ last.epoch > route.epoch
    BY <1>0, <2>3, <2>4
  <2> QED
    BY <1>0, <2>1, <2>3, <2>4, <2>5, RouteStepKeeps
<1>6. CASE Restart
  <2>1. /\ route' = twice /\ alarm' = none /\ upserts' = {} /\ UNCHANGED <<pool, health>>
        /\ reqs' = [r \in Requests |-> IF reqs[r].pc = "selecting" THEN Idle ELSE reqs[r]]
    BY <1>6 DEF Restart, once, none
  <2>2. /\ twice \in Route
        /\ twice.id # NoAccount => twice.id \in stored /\ Available(health, twice.id)
        /\ twice = once \/ twice.epoch > once.epoch
    BY <1>0, <1>1, EnsureRouteSound
  <2> HIDE DEF twice
  <2>3. twice = route \/ twice.epoch > route.epoch
    BY <1>0, <1>1, <2>2
  <2>4. /\ reqs' \in [Requests -> Request]
        /\ \A r \in Requests : reqs'[r] = reqs[r] \/ reqs'[r].pc \in {"idle", "denied"}
    BY <1>0, <2>1, IdleRequest
  <2> QED
    BY <1>0, <2>1, <2>2, <2>3, <2>4, RouteStepKeeps
<1>7. CASE Tick
  <2> DEFINE older(a) == [health[a] EXCEPT !.cooldown = Elapse(health[a].cooldown),
                                           !.window = Elapse(health[a].window)]
  <2>1. health' = [a \in Accounts |-> older(a)] /\ UNCHANGED <<pool, route, upserts, alarm, reqs>>
    BY <1>7 DEF Tick
  <2>2. ASSUME NEW a \in Accounts
        PROVE  older(a) \in HealthRow /\ (Available(health, a) => Available(health', a))
    <3>1. health[a] \in HealthRow
      BY <1>0
    <3>2. \A n \in Nat : Elapse(n) \in Nat
      BY DEF Elapse
    <3>3. /\ Elapse(health[a].cooldown) \in Nat /\ Elapse(health[a].window) \in Nat
          /\ Elapse(0) = 0
      BY <3>1, <3>2 DEF HealthRow, Elapse
    <3>4. older(a) \in HealthRow
      BY <3>1, <3>3 DEF HealthRow
    <3>5. older(a).state = health[a].state /\ older(a).cooldown = Elapse(health[a].cooldown)
      BY <3>1 DEF HealthRow
    <3>6. health'[a] = older(a)
      BY <2>1
    <3> QED
      BY <3>3, <3>4, <3>5, <3>6 DEF Available
  <2>3. health' \in [Accounts -> HealthRow]
    BY <2>1, <2>2
  <2> QED
    BY <1>0, <2>1, <2>2, <2>3, RouteStepKeeps
<1> QED
  BY <1>2, <1>3, <1>4, <1>5, <1>6, <1>7 DEF TenantStep

\* The invariant is inductive.
LEMMA NextInvariant == IInv /\ [Next]_vars => IInv'
<1> SUFFICES ASSUME IInv, [Next]_vars PROVE IInv'
  OBVIOUS
<1>1. CASE UNCHANGED vars
  BY <1>1 DEF vars, IInv, TypeOK, ActiveAvailable, Available, TenureOwner, HoldsTenure,
              SequenceOrder
<1> QED
  BY <1>1, RequestStepInvariant, AdminStepInvariant, TenantStepInvariant DEF Next, Undisturbed

\* The four state properties of the route hold in every reachable state:
\* persisted state is well typed, the route only ever names a stored and
\* available account, a tenure has one owner, and the rotation order is strict.
THEOREM RoutingInvariant == Spec => []IInv
<1> QED
  BY InitInvariant, NextInvariant, PTL DEF Spec

\* TenantState stays well typed under every interleaving.
THEOREM TypeCorrect == Spec => []TypeOK
<1>1. IInv => TypeOK
  BY DEF IInv
<1> QED
  BY <1>1, RoutingInvariant, PTL

\* No dormant account ever owns the route.
THEOREM RouteNeverDormant == Spec => []ActiveAvailable
<1>1. IInv => ActiveAvailable
  BY DEF IInv
<1> QED
  BY <1>1, RoutingInvariant, PTL

\* A tenure has one owner, so the epoch is a sound fence for late reports.
THEOREM TenureFence == Spec => []TenureOwner
<1>1. IInv => TenureOwner
  BY DEF IInv
<1> QED
  BY <1>1, RoutingInvariant, PTL

\* The rotation order stays strict through additions, deletions, migrations.
THEOREM RotationOrder == Spec => []SequenceOrder
<1>1. IInv => SequenceOrder
  BY DEF IInv
<1> QED
  BY <1>1, RoutingInvariant, PTL

-----------------------------------------------------------------------------
(* What a step may never do.  Both action properties are read off one fact *)
(* about the step that puts an account to sleep.                           *)

\* Account a goes to sleep only when it, or nobody, owns the route; the step
\* ends that tenure; and a request that takes the step does so on behalf of
\* the tenure in which it read the account.
SleepsRightly(a) ==
    Slept(a) => /\ route.id \in {a, NoAccount}
                /\ route'.id # a /\ route'.epoch > route.epoch
                /\ \A r \in Requests : reqs'[r] # reqs[r] =>
                        reqs[r].account = a /\ reqs[r].epoch = route.epoch

\* A step of a request: only its two failure reports put an account to sleep.
LEMMA RequestSleeps ==
    ASSUME IInv, NEW r \in Requests, RequestStep(r), NEW a \in Accounts
    PROVE  SleepsRightly(a)
<1> USE DEF Route
<1>0. /\ stored \in SUBSET Accounts /\ seq \in [Accounts -> Nat]
      /\ health \in [Accounts -> HealthRow] /\ route \in Route
      /\ reqs \in [Requests -> Request] /\ reqs[r] \in Request
  BY DEF IInv, TypeOK
<1>1. ASSUME NEW bound \in Accounts \cup {NoAccount}, Select(r, bound)
      PROVE  SleepsRightly(a)
  BY <1>1 DEF Select, SleepsRightly, Slept, Available
<1>2. CASE Reselect(r)
  BY <1>2 DEF Reselect, SleepsRightly, Slept, Available
<1>3. CASE LoadOk(r)
  BY <1>3 DEF LoadOk, SleepsRightly, Slept, Available
<1>4. ASSUME NEW kind \in Kinds, LoadFail(r, kind) PROVE SleepsRightly(a)
  <2> DEFINE q == reqs[r]
             res == AfterFailure(q.account, kind, q.epoch)
             qx == [q EXCEPT !.excluded = @ \cup {q.account}]
             nxt == BeginSelect(qx, res.health, res.route)
             nq == IF q.preferring THEN Idle ELSE nxt.req
  <2>1. /\ health' = res.health
        /\ route' = IF q.preferring THEN res.route ELSE nxt.route
        /\ reqs' = [reqs EXCEPT ![r] = nq]
        /\ q.pc = "selecting"
    BY <1>4 DEF LoadFail
  <2>2. /\ res.health \in [Accounts -> HealthRow]
        /\ res.route \in Route
        /\ res.route.id # NoAccount =>
             res.route.id \in stored /\ Available(res.health, res.route.id)
        /\ \A b \in Accounts : Available(health, b) /\ ~Available(res.health, b) =>
             /\ b = q.account /\ route.id = b /\ q.epoch = route.epoch
             /\ res.route.id # b /\ res.route.epoch > route.epoch
    BY <2>1, ReportSound
  <2>3. q.account \in Accounts
    BY <1>0, <2>1 DEF IInv, TenureOwner, HoldsTenure, Request
  <2>4. qx \in Request
    BY <1>0, <2>3 DEF Request
  <2> HIDE DEF res, qx
  <2>5. /\ nxt.route \in Route
        /\ nxt.route.id # NoAccount =>
             nxt.route.id \in stored /\ Available(res.health, nxt.route.id)
        /\ nxt.route = res.route \/ nxt.route.epoch > res.route.epoch
    BY <1>0, <2>2, <2>4, BeginSelectSound
  <2> HIDE DEF nxt, nq
  <2>6. SUFFICES ASSUME Available(health, a), ~Available(res.health, a)
                 PROVE  /\ route.id \in {a, NoAccount}
                        /\ route'.id # a /\ route'.epoch > route.epoch
                        /\ \A s \in Requests : reqs'[s] # reqs[s] =>
                              reqs[s].account = a /\ reqs[s].epoch = route.epoch
    BY <2>1 DEF SleepsRightly, Slept, Available
  <2>7. /\ a = q.account /\ route.id = a /\ q.epoch = route.epoch
        /\ res.route.id # a /\ res.route.epoch > route.epoch
    BY <2>2, <2>6
  <2>8. nxt.route.id # a /\ nxt.route.epoch > route.epoch
    <3>1. nxt.route.id # a
      BY <2>5, <2>6, RoutingConstants
    <3> QED
      BY <1>0, <2>2, <2>5, <2>7, <3>1
  <2>9. route'.id # a /\ route'.epoch > route.epoch
    BY <2>1, <2>7, <2>8
  <2>10. \A s \in Requests : reqs'[s] # reqs[s] => s = r
    BY <1>0, <2>1
  <2> QED
    BY <2>7, <2>9, <2>10
<1>5. CASE ExchangeOk(r)
  <2>1. \A b \in Accounts : health'[b] \in {health[b], Healthy}
    BY <1>0, <1>5 DEF ExchangeOk
  <2> QED
    BY <2>1 DEF SleepsRightly, Slept, Available, Healthy
<1>6. ASSUME NEW kind \in Kinds, ExchangeFail(r, kind) PROVE SleepsRightly(a)
  <2> DEFINE q == reqs[r]
             res == AfterFailure(q.account, kind, q.epoch)
             nq == [q EXCEPT !.pc = "failing"]
  <2>1. /\ health' = res.health /\ route' = res.route
        /\ reqs' = [reqs EXCEPT ![r] = nq]
        /\ q.pc = "selected"
    BY <1>6 DEF ExchangeFail
  <2>2. \A b \in Accounts : Available(health, b) /\ ~Available(res.health, b) =>
             /\ b = q.account /\ route.id = b /\ q.epoch = route.epoch
             /\ res.route.id # b /\ res.route.epoch > route.epoch
    BY <2>1, ReportSound
  <2> HIDE DEF res, nq
  <2>3. \A s \in Requests : reqs'[s] # reqs[s] => s = r
    BY <1>0, <2>1
  <2>4. Slept(a) => Available(health, a) /\ ~Available(res.health, a)
    BY <2>1 DEF Slept, Available
  <2> QED
    BY <2>1, <2>2, <2>3, <2>4 DEF SleepsRightly
<1>7. CASE FailOver(r)
  BY <1>7 DEF FailOver, SleepsRightly, Slept, Available
<1>8. CASE GiveUp(r)
  BY <1>8 DEF GiveUp, SleepsRightly, Slept, Available
<1> QED
  BY <1>1, <1>2, <1>3, <1>4, <1>5, <1>6, <1>7, <1>8 DEF RequestStep

\* No administrative step puts an account to sleep: each leaves a health row
\* alone or makes it healthy.
LEMMA AdminSleeps ==
    ASSUME IInv, AdminStep, NEW a \in Accounts
    PROVE  SleepsRightly(a)
<1>0. health \in [Accounts -> HealthRow]
  BY DEF IInv, TypeOK
<1> SUFFICES health'[a] \in {health[a], Healthy}
  BY DEF SleepsRightly, Slept, Available, Healthy
<1>1. ASSUME NEW b \in Accounts, UpsertAccount(b) PROVE health'[a] \in {health[a], Healthy}
  BY <1>1 DEF UpsertAccount
<1>2. ASSUME NEW b \in Accounts, FinishUpsert(b) PROVE health'[a] \in {health[a], Healthy}
  BY <1>0, <1>2 DEF FinishUpsert
<1>3. ASSUME NEW b \in Accounts, DeleteAccount(b) PROVE health'[a] \in {health[a], Healthy}
  BY <1>0, <1>3 DEF DeleteAccount
<1>4. ASSUME NEW batch \in Batches, NEW k \in 1..Len(batch), ImportMigration(batch, k)
      PROVE  health'[a] \in {health[a], Healthy}
  <2>1. health' = [b \in Accounts |->
                     IF b \in BatchMembers(batch) THEN Healthy ELSE health[b]]
    BY <1>4 DEF ImportMigration
  <2> QED
    BY <2>1
<1> QED
  BY <1>1, <1>2, <1>3, <1>4 DEF AdminStep

\* Of the object's own steps only a rejected refresh in the alarm puts an
\* account to sleep, and it changes no request.
LEMMA TenantSleeps ==
    ASSUME IInv, TenantStep, NEW a \in Accounts
    PROVE  SleepsRightly(a)
<1> USE DEF Route
<1>0. /\ stored \in SUBSET Accounts /\ seq \in [Accounts -> Nat]
      /\ health \in [Accounts -> HealthRow] /\ route \in Route
      /\ alarm \in Accounts \cup {NoAccount}
  BY DEF IInv, TypeOK
<1>1. CASE UNCHANGED health
  BY <1>1 DEF SleepsRightly, Slept, Available
<1>2. ASSUME NEW kind \in IsolatingKinds, AlarmFail(kind) PROVE SleepsRightly(a)
  <2> DEFINE res == AfterFailure(alarm, kind, AnyEpoch)
             last == EnsureRoute(stored, seq, res.health, res.route)
  <2>1. health' = res.health /\ route' = last /\ reqs' = reqs
    BY <1>2 DEF AlarmFail
  <2>2. kind \in Kinds
    BY DEF Kinds
  <2>3. /\ res.health \in [Accounts -> HealthRow]
        /\ res.route \in Route
        /\ \A b \in Accounts : Available(health, b) /\ ~Available(res.health, b) =>
             /\ b = alarm
             /\ route.id = alarm \/ route.id = NoAccount
             /\ res.route.id # alarm /\ res.route.epoch > route.epoch
    BY <1>0, <2>2, AfterFailureSound DEF IInv
  <2> HIDE DEF res
  <2>4. /\ last \in Route
        /\ last.id # NoAccount => last.id \in stored /\ Available(res.health, last.id)
        /\ last.epoch >= res.route.epoch
    BY <1>0, <2>3, EnsureRouteSound
  <2> HIDE DEF last
  <2>5. SUFFICES ASSUME Available(health, a), ~Available(res.health, a)
                 PROVE  /\ route.id \in {a, NoAccount}
                        /\ route'.id # a /\ route'.epoch > route.epoch
    BY <2>1 DEF SleepsRightly, Slept, Available
  <2>6. last.id # a
    BY <2>4, <2>5, RoutingConstants
  <2>7. last.epoch > route.epoch
    BY <1>0, <2>3, <2>4, <2>5
  <2> QED
    BY <2>1, <2>3, <2>5, <2>6, <2>7
<1>3. CASE Tick
  <2>1. health'[a] = [health[a] EXCEPT !.cooldown = Elapse(health[a].cooldown),
                                       !.window = Elapse(health[a].window)]
    BY <1>3 DEF Tick
  <2>2. health[a] \in HealthRow
    BY <1>0
  <2>3. health'[a].state = health[a].state /\ health'[a].cooldown = Elapse(health[a].cooldown)
    BY <2>1, <2>2 DEF HealthRow
  <2>4. Available(health, a) => Available(health', a)
    BY <2>2, <2>3 DEF Available, Elapse, HealthRow
  <2> QED
    BY <2>4 DEF SleepsRightly, Slept
<1> QED
  BY <1>1, <1>2, <1>3 DEF TenantStep, Observe, AlarmRefresh, AlarmDone, Restart

\* Every step puts accounts to sleep rightly.
LEMMA StepSleeps == IInv /\ [Next]_vars => \A a \in Accounts : SleepsRightly(a)
<1> SUFFICES ASSUME IInv, [Next]_vars, NEW a \in Accounts PROVE SleepsRightly(a)
  OBVIOUS
<1>1. CASE UNCHANGED vars
  BY <1>1 DEF vars, SleepsRightly, Slept, Available
<1> QED
  BY <1>1, RequestSleeps, AdminSleeps, TenantSleeps DEF Next, Undisturbed

\* A burst of failures of one tenure costs one account: no account is put to
\* sleep while another owns the route, and the step ends the tenure.
THEOREM BurstCostsOneAccount == Spec => OneAccountPerTenure
<1>1. IInv /\ [Next]_vars =>
        [\A a \in Accounts : Slept(a) =>
            /\ route.id \in {a, NoAccount}
            /\ route'.id # a /\ route'.epoch > route.epoch]_vars
  BY StepSleeps DEF SleepsRightly
<1> QED
  BY <1>1, RoutingInvariant, PTL DEF Spec, OneAccountPerTenure

\* A late failure report cannot skip an account: a request puts an account to
\* sleep only on behalf of the tenure it read the account in.
THEOREM LateFailuresFenced == Spec => LateFailureFenced
<1>1. IInv /\ [Next]_vars =>
        [\A r \in Requests, a \in Accounts : Slept(a) /\ reqs'[r] # reqs[r] =>
            reqs[r].account = a /\ reqs[r].epoch = route.epoch]_vars
  BY StepSleeps DEF SleepsRightly
<1> QED
  BY <1>1, RoutingInvariant, PTL DEF Spec, LateFailureFenced

\* The owner of the route, available and stored, keeps it whoever reads it.
LEMMA OwnerKeeps ==
    ASSUME NEW h, NEW rt, rt.id \in stored, Available(h, rt.id), NEW q
    PROVE  EnsureRoute(stored, seq, h, rt) = rt /\ BeginSelect(q, h, rt).route = rt
BY DEF EnsureRoute, BeginSelect

\* A failure report leaves health and route alone, or puts the owner to sleep.
LEMMA ReportMoves ==
    ASSUME IInv, route.id # NoAccount, NEW a \in Accounts \cup {NoAccount}, NEW kind \in Kinds,
           NEW e \in Nat \cup {AnyEpoch}
    PROVE  LET res == AfterFailure(a, kind, e) IN
           \/ res.health = health /\ res.route = route
           \/ Available(health, route.id) /\ ~Available(res.health, route.id)
<1>0. /\ health \in [Accounts -> HealthRow] /\ stored \in SUBSET Accounts
      /\ route.id \in stored /\ Available(health, route.id)
  BY DEF IInv, TypeOK, ActiveAvailable
<1>1. EnsureRoute(stored, seq, health, route) = route
  BY <1>0, OwnerKeeps
<1>2. CASE a \notin stored \/ ~OwnsRoute(route, a, e)
  BY <1>1, <1>2 DEF AfterFailure
<1>3. CASE a \in stored /\ OwnsRoute(route, a, e)
  <2>1. AfterFailure(a, kind, e).health = [health EXCEPT ![a] = FailureRow(health[a], kind)]
    BY <1>1, <1>3 DEF AfterFailure
  <2>2. a = route.id /\ a \in Accounts
    BY <1>0, <1>3 DEF OwnsRoute
  <2>3. /\ FailureRow(health[a], kind).state = "isolated" \/ FailureRow(health[a], kind).cooldown > 0
        /\ FailureRow(health[a], kind) \in HealthRow
    BY <1>0, <2>2, FailureRowSleeps
  <2>4. ~Available(AfterFailure(a, kind, e).health, a)
    BY <1>0, <2>1, <2>2, <2>3 DEF Available, HealthRow
  <2> QED
    BY <1>0, <2>2, <2>4
<1> QED
  BY <1>2, <1>3

\* No healthy account is skipped or preempted: from any state the system can
\* be in, as long as the pool is left alone, the route leaves an account only
\* in the step that puts the account to sleep.
THEOREM NobodySkipped == IInv /\ [][Undisturbed]_vars => RouteLeavesOnlySleepers
<1>1. IInv /\ [Undisturbed]_vars => IInv'
  BY NextInvariant DEF Next
<1>2. ASSUME IInv, Undisturbed, route.id # NoAccount PROVE route' = route \/ Slept(route.id)
  <2>0. /\ route.id \in stored /\ Available(health, route.id) /\ route.id \in Accounts
        /\ alarm \in Accounts \cup {NoAccount} /\ reqs \in [Requests -> Request]
    BY <1>2 DEF IInv, TypeOK, ActiveAvailable
  <2>1. EnsureRoute(stored, seq, health, route) = route
    BY <2>0, OwnerKeeps
  <2>2. \A q : BeginSelect(q, health, route).route = route
    BY <2>0, OwnerKeeps
  <2>3. ASSUME NEW r \in Requests, RequestStep(r) PROVE route' = route \/ Slept(route.id)
    <3>0. reqs[r].account \in Accounts \cup {NoAccount} /\ reqs[r].epoch \in Nat \cup {AnyEpoch}
      BY <2>0 DEF Request
    <3>1. ASSUME NEW bound \in Accounts \cup {NoAccount}, Select(r, bound) PROVE route' = route
      BY <2>2, <3>1 DEF Select
    <3>2. CASE Reselect(r) \/ FailOver(r)
      BY <2>2, <3>2 DEF Reselect, FailOver
    <3>3. CASE LoadOk(r) \/ GiveUp(r)
      BY <3>3 DEF LoadOk, GiveUp
    <3>4. ASSUME NEW kind \in Kinds, LoadFail(r, kind) PROVE route' = route \/ Slept(route.id)
      <4> DEFINE res == AfterFailure(reqs[r].account, kind, reqs[r].epoch)
                 qx == [reqs[r] EXCEPT !.excluded = @ \cup {reqs[r].account}]
      <4>1. /\ health' = res.health
            /\ route' = IF reqs[r].preferring THEN res.route ELSE BeginSelect(qx, res.health, res.route).route
        BY <3>4 DEF LoadFail
      <4>2. \/ res.health = health /\ res.route = route
            \/ Available(health, route.id) /\ ~Available(res.health, route.id)
        BY <1>2, <3>0, ReportMoves
      <4> HIDE DEF res, qx
      <4> QED
        BY <2>2, <4>1, <4>2 DEF Slept, Available
    <3>5. CASE ExchangeOk(r)
      BY <2>1, <3>5 DEF ExchangeOk
    <3>6. ASSUME NEW kind \in Kinds, ExchangeFail(r, kind) PROVE route' = route \/ Slept(route.id)
      <4> DEFINE res == AfterFailure(reqs[r].account, kind, reqs[r].epoch)
      <4>1. health' = res.health /\ route' = res.route
        BY <3>6 DEF ExchangeFail
      <4>2. \/ res.health = health /\ res.route = route
            \/ Available(health, route.id) /\ ~Available(res.health, route.id)
        BY <1>2, <3>0, ReportMoves
      <4> HIDE DEF res
      <4> QED
        BY <4>1, <4>2 DEF Slept, Available
    <3> QED
      BY <2>3, <3>1, <3>2, <3>3, <3>4, <3>5, <3>6 DEF RequestStep
  <2>4. ASSUME NEW kind \in IsolatingKinds, AlarmFail(kind) PROVE route' = route \/ Slept(route.id)
    <3> DEFINE res == AfterFailure(alarm, kind, AnyEpoch)
    <3>1. health' = res.health /\ route' = EnsureRoute(stored, seq, res.health, res.route)
      BY <2>4 DEF AlarmFail
    <3>2. kind \in Kinds
      BY DEF Kinds
    <3>3. \/ res.health = health /\ res.route = route
          \/ Available(health, route.id) /\ ~Available(res.health, route.id)
      BY <1>2, <2>0, <3>2, ReportMoves
    <3> HIDE DEF res
    <3> QED
      BY <2>1, <3>1, <3>3 DEF Slept, Available
  <2>5. CASE Observe \/ AlarmRefresh \/ AlarmDone \/ Restart \/ Tick
    BY <2>1, <2>5 DEF Observe, AlarmRefresh, AlarmDone, Restart, Tick
  <2> QED
    BY <1>2, <2>3, <2>4, <2>5 DEF Undisturbed, TenantStep
<1>3. IInv /\ [Undisturbed]_vars =>
        [route.id # NoAccount /\ route'.id # route.id => Slept(route.id)]_vars
  BY <1>2
<1> QED
  BY <1>1, <1>3, PTL DEF RouteLeavesOnlySleepers
=============================================================================
