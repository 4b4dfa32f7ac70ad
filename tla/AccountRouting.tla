--------------------------- MODULE AccountRouting ---------------------------
(***************************************************************************)
(* The single-active-account route of the TenantState Durable Object       *)
(* (src/src/tenant-state.ts) and the requests that use it                  *)
(* (src/src/openai.ts).                                                    *)
(*                                                                         *)
(* TenantState keeps a pool of Microsoft 365 accounts in SQLite and one    *)
(* persisted route <<active account, epoch>>.  Each value of the epoch is  *)
(* a TENURE: one account's uninterrupted ownership of the route.  Requests *)
(* read the route, suspend while a credential is loaded, then call         *)
(* Microsoft and report the outcome, which may arrive when the route has   *)
(* long moved on.                                                          *)
(*                                                                         *)
(* Atomicity.  Durable Object storage operations do not let other events   *)
(* in, so an action is everything a handler does between two awaits that   *)
(* leave the object (a KV write, a token refresh, an RPC).                 *)
(*                                                                         *)
(* Time.  The code compares instants only with Date.now().  An instant t   *)
(* is modelled by what is left of it, t - now, never below 0; Tick lets    *)
(* one unit pass.                                                          *)
(***************************************************************************)
EXTENDS Integers, FiniteSets, Sequences

CONSTANTS
    Accounts,        \* account ids that may ever be stored
    NoAccount,       \* the empty id ''
    Requests,        \* concurrent downstream requests
    MaxAccounts,     \* env.MAX_ACCOUNTS
    CoolingKinds,    \* failure kinds with a cooldown: rate_limit, transient
    IsolatingKinds,  \* failure kinds that isolate: auth, permanent
    BaseCooldown,    \* first cooldown of a cooling kind
    MaxCooldown,     \* longest cooldown of a cooling kind
    FailureWindow    \* 24 h: failures further apart are not consecutive

Kinds == CoolingKinds \cup IsolatingKinds
NoKind == "none"

ASSUME RoutingConstants ==
    /\ NoAccount \notin Accounts
    /\ MaxAccounts \in Nat \ {0}
    /\ CoolingKinds \cap IsolatingKinds = {}
    /\ NoKind \notin Kinds
    /\ BaseCooldown \in [CoolingKinds -> Nat \ {0}]
    /\ MaxCooldown \in [CoolingKinds -> Nat \ {0}]
    /\ FailureWindow \in Nat \ {0}

VARIABLES
    stored,    \* ids with a row in table accounts
    seq,       \* sequence_no of a stored account, 0 for the others
    counter,   \* meta account_sequence_counter
    health,    \* table account_health; a missing row reads as Healthy
    route,     \* meta active_account_id and active_account_epoch
    upserts,   \* upsertAccount calls suspended in their KV write
    alarm,     \* account of the alarm that is suspended in a token refresh
    reqs       \* the requests, see Request below

vars == <<stored, seq, counter, health, route, upserts, alarm, reqs>>
pool == <<stored, seq, counter>>

-----------------------------------------------------------------------------
(* Health and availability.                                                *)

Healthy == [state |-> "healthy", kind |-> NoKind, count |-> 0,
            cooldown |-> 0, window |-> 0]

HealthRow == [state : {"healthy", "cooldown", "isolated"},
              kind : Kinds \cup {NoKind}, count : Nat,
              cooldown : Nat, window : Nat]

Available(h, a) == h[a].state # "isolated" /\ h[a].cooldown = 0

AvailableAccounts(st, h) == {a \in st : Available(h, a)}

Lesser(m, n) == IF m < n THEN m ELSE n

\* 2 ** Math.min(6, consecutive - 1), by consecutive
Doubling == <<1, 2, 4, 8, 16, 32, 64>>

Cooldown(kind, n) ==
    Lesser(MaxCooldown[kind], BaseCooldown[kind] * Doubling[Lesser(7, n)])

\* The account_health row a charged failure writes over row.
FailureRow(row, kind) ==
    LET consecutive == IF row.kind = kind /\ row.window > 0
                       THEN row.count + 1 ELSE 1
        isolated == kind \in IsolatingKinds
    IN  [state    |-> IF isolated THEN "isolated" ELSE "cooldown",
         kind     |-> kind,
         count    |-> consecutive,
         cooldown |-> IF isolated THEN 0 ELSE Cooldown(kind, consecutive),
         window   |-> FailureWindow]

-----------------------------------------------------------------------------
(* The route.                                                              *)

\* First of orderedAvailableAccounts(after): S in sequence order, the
\* accounts behind `after' first, then the wrapped ones.
FirstAfter(S, sq, after) ==
    LET later == {a \in S : sq[a] > after}
        line  == IF later # {} THEN later ELSE S
    IN  IF S = {} THEN NoAccount
        ELSE CHOOSE a \in line : \A b \in line : sq[a] <= sq[b]

\* Mutant: the route falls back to the first available account on every read.
EnsureRouteNotSticky(st, sq, h, rt) ==
    LET selected == FirstAfter(AvailableAccounts(st, h), sq, 0)
    IN  [id |-> selected, epoch |-> rt.epoch + (IF selected = rt.id THEN 0 ELSE 1)]

\* ensureActiveAccountRoute.  `undefined === ""' is false in the code, so
\* the epoch moves on every call made while no account is available.
EnsureRoute(st, sq, h, rt) ==
    IF rt.id \in st /\ Available(h, rt.id) THEN rt
    ELSE LET selected == FirstAfter(AvailableAccounts(st, h), sq, 0)
             same == selected # NoAccount /\ selected = rt.id
         IN  [id |-> selected, epoch |-> rt.epoch + (IF same THEN 0 ELSE 1)]

AnyEpoch == -1   \* expectedRouteEpoch omitted

\* Mutant: the failure is matched by account only.
OwnsRouteById(rt, a, epoch) == rt.id = a

OwnsRoute(rt, a, epoch) == rt.id = a /\ epoch \in {AnyEpoch, rt.epoch}

\* Mutant: the route moves but its generation does not.
AdvanceRouteSameEpoch(st, sq, h, rt, a, epoch) ==
    IF ~OwnsRoute(rt, a, epoch) THEN rt
    ELSE [id |-> FirstAfter(AvailableAccounts(st, h) \ {a}, sq, sq[a]),
          epoch |-> rt.epoch]

\* advanceActiveAccount: compare and swap.
AdvanceRoute(st, sq, h, rt, a, epoch) ==
    IF ~OwnsRoute(rt, a, epoch) THEN rt
    ELSE [id |-> FirstAfter(AvailableAccounts(st, h) \ {a}, sq, sq[a]),
          epoch |-> rt.epoch + 1]

\* reportAccountFailure: what it leaves of health and route.  The last
\* EnsureRoute is scheduleNextAlarm's.
AfterFailure(a, kind, epoch) ==
    LET current == EnsureRoute(stored, seq, health, route)
        charged == [health EXCEPT ![a] = FailureRow(health[a], kind)]
    IN  CASE a \notin stored -> [health |-> health, route |-> route]
          [] a \in stored /\ ~OwnsRoute(current, a, epoch) ->
                [health |-> health, route |-> current]
          [] a \in stored /\ OwnsRoute(current, a, epoch) ->
                [health |-> charged,
                 route |-> EnsureRoute(stored, seq, charged,
                             AdvanceRoute(stored, seq, charged, current, a, epoch))]

-----------------------------------------------------------------------------
(* Requests.  accountForLease calls selectAccount with the account of the  *)
(* session lease as preference; exchange calls Microsoft and fails over.   *)

Request == [pc : {"idle", "selecting", "denied", "selected", "failing"},
            bound : Accounts \cup {NoAccount}, \* lease.accountId, '' if none
            preferring : BOOLEAN,        \* this selectAccount has a preference
            excluded : SUBSET Accounts,  \* its excludedAccountIds
            account : Accounts \cup {NoAccount},
            epoch : Nat,                 \* routeEpoch the account was read at
            attempted : SUBSET Accounts] \* attemptedAccounts of exchange

Idle == [pc |-> "idle", bound |-> NoAccount, preferring |-> FALSE,
         excluded |-> {}, account |-> NoAccount, epoch |-> 0,
         attempted |-> {}]

\* selectAccount may return null before it suspends, for these reasons.
Refused(q, rt) ==
    \/ rt.id = NoAccount
    \/ q.preferring /\ q.bound # rt.id
    \/ rt.id \in q.excluded

\* selectAccount up to its await of ensureValidAccount, on a database with
\* health h and route rt, for the call described by q.
BeginSelect(q, h, rt) ==
    LET tooMany == ~q.preferring /\ Cardinality(q.excluded) >= 2
        current == IF tooMany THEN rt ELSE EnsureRoute(stored, seq, h, rt)
        null    == IF q.preferring THEN [q EXCEPT !.pc = "denied"] ELSE Idle
    IN  [route |-> current,
         req |-> IF tooMany \/ Refused(q, current) THEN null
                 ELSE [q EXCEPT !.pc = "selecting",
                                !.account = current.id,
                                !.epoch = current.epoch]]

Init ==
    /\ stored = {}
    /\ seq = [a \in Accounts |-> 0]
    /\ counter = 0
    /\ health = [a \in Accounts |-> Healthy]
    /\ route = [id |-> NoAccount, epoch |-> 0]
    /\ upserts = {}
    /\ alarm = NoAccount
    /\ reqs = [r \in Requests |-> Idle]

\* accountForLease: first selectAccount, preferring the session's account.
Select(r, bound) ==
    /\ reqs[r].pc = "idle"
    /\ LET res == BeginSelect([Idle EXCEPT !.bound = bound,
                                           !.preferring = bound # NoAccount],
                              health, route)
       IN  /\ route' = res.route
           /\ reqs' = [reqs EXCEPT ![r] = res.req]
    /\ UNCHANGED <<pool, health, upserts, alarm>>

\* accountForLease: the session's account is not the active one, and the
\* session is committed, so its client state may move to the active account.
Reselect(r) ==
    /\ reqs[r].pc = "denied"
    /\ LET res == BeginSelect([reqs[r] EXCEPT !.preferring = FALSE], health, route)
       IN  /\ route' = res.route
           /\ reqs' = [reqs EXCEPT ![r] = res.req]
    /\ UNCHANGED <<pool, health, upserts, alarm>>

\* ensureValidAccount returned a token: selectAccount re-checks the tenure.
LoadOk(r) ==
    /\ reqs[r].pc = "selecting"
    /\ LET q == reqs[r]
           fresh == route.id = q.account /\ route.epoch = q.epoch
           mine  == ~q.preferring /\ q.bound = q.account
       IN  reqs' = [reqs EXCEPT ![r] =
              CASE fresh /\ ~mine -> [q EXCEPT !.pc = "selected",
                                               !.bound = NoAccount,
                                               !.preferring = FALSE,
                                               !.excluded = {},
                                               !.attempted = @ \cup {q.account}]
                [] ~fresh /\ q.preferring -> [q EXCEPT !.pc = "denied"]
                [] OTHER -> Idle]
    /\ UNCHANGED <<pool, health, route, upserts, alarm>>

\* ensureValidAccount failed with a classified account failure.
LoadFail(r, kind) ==
    /\ reqs[r].pc = "selecting"
    /\ LET q   == reqs[r]
           res == AfterFailure(q.account, kind, q.epoch)
           nxt == BeginSelect([q EXCEPT !.excluded = @ \cup {q.account}],
                              res.health, res.route)
       IN  /\ health' = res.health
           /\ route' = IF q.preferring THEN res.route ELSE nxt.route
           /\ reqs' = [reqs EXCEPT ![r] = IF q.preferring THEN Idle ELSE nxt.req]
    /\ UNCHANGED <<pool, upserts, alarm>>

\* exchange: the upstream call succeeded; reportAccountSuccess(account).
ExchangeOk(r) ==
    /\ reqs[r].pc = "selected"
    /\ LET a == reqs[r].account
           current == EnsureRoute(stored, seq, health, route)
       IN  /\ route' = current
           /\ health' = IF current.id = a THEN [health EXCEPT ![a] = Healthy]
                        ELSE health
    /\ reqs' = [reqs EXCEPT ![r] = Idle]
    /\ UNCHANGED <<pool, upserts, alarm>>

\* exchange: the upstream call failed in a way classifyAccountFailure knows.
ExchangeFail(r, kind) ==
    /\ reqs[r].pc = "selected"
    /\ LET res == AfterFailure(reqs[r].account, kind, reqs[r].epoch)
       IN  health' = res.health /\ route' = res.route
    /\ reqs' = [reqs EXCEPT ![r].pc = "failing"]
    /\ UNCHANGED <<pool, upserts, alarm>>

\* exchange: mayFailOver, so ask for the successor of the failed account.
FailOver(r) ==
    /\ reqs[r].pc = "failing"
    /\ Cardinality(reqs[r].attempted) < 2
    /\ LET q == reqs[r]
           res == BeginSelect([q EXCEPT !.excluded = q.attempted], health, route)
       IN  /\ route' = res.route
           /\ reqs' = [reqs EXCEPT ![r] = res.req]
    /\ UNCHANGED <<pool, health, upserts, alarm>>

\* The request ends with an error that touches no account state: an
\* unclassified failure, a cancelled client, or no fail-over allowed.
GiveUp(r) ==
    /\ reqs[r].pc # "idle"
    /\ reqs' = [reqs EXCEPT ![r] = Idle]
    /\ UNCHANGED <<pool, health, route, upserts, alarm>>

-----------------------------------------------------------------------------
(* Administration, alarm and restart.                                      *)

\* Mutant: sequence numbers from the number of rows.
NextSequenceByCount == Cardinality(stored) + 1

\* nextAccountSequence.
NextSequence == counter + 1

\* upsertAccount (OAuth callback), its transaction: store the account, keep
\* or allot its sequence number, give the route an owner.
UpsertAccount(a) ==
    /\ a \in stored \/ Cardinality(stored) < MaxAccounts
    /\ stored' = stored \cup {a}
    /\ IF a \in stored THEN UNCHANGED <<seq, counter>>
       ELSE /\ seq' = [seq EXCEPT ![a] = NextSequence]
            /\ counter' = NextSequence
    /\ route' = EnsureRoute(stored', seq', health, route)
    /\ upserts' = upserts \cup {a}
    /\ UNCHANGED <<health, alarm, reqs>>

\* The rest of upsertAccount, after the KV write: scheduleNextAlarm,
\* reportAccountSuccess(id, true), ensureActiveAccountRoute.
FinishUpsert(a) ==
    /\ a \in upserts
    /\ upserts' = upserts \ {a}
    /\ health' = [health EXCEPT ![a] = Healthy]
    /\ route' = EnsureRoute(stored, seq, health',
                            EnsureRoute(stored, seq, health, route))
    /\ UNCHANGED <<pool, alarm, reqs>>

\* Mutant: the deleted account keeps the route.
DeleteAccountKeepsRoute(a) ==
    /\ a \in stored
    /\ stored' = stored \ {a}
    /\ health' = [health EXCEPT ![a] = Healthy]
    /\ seq' = [seq EXCEPT ![a] = 0]
    /\ UNCHANGED <<counter, route, upserts, alarm, reqs>>

\* deleteAccount, its transaction.
DeleteAccount(a) ==
    /\ a \in stored
    /\ stored' = stored \ {a}
    /\ health' = [health EXCEPT ![a] = Healthy]
    /\ route' = IF route.id # a THEN route
                ELSE [id |-> FirstAfter(AvailableAccounts(stored', health'), seq, seq[a]),
                      epoch |-> route.epoch + 1]
    /\ seq' = [seq EXCEPT ![a] = 0]
    /\ UNCHANGED <<counter, upserts, alarm, reqs>>

\* The accounts a signed migration batch names, in order: its positions
\* become the first sequence numbers, the k-th owns the route.
BatchMembers(batch) == {batch[i] : i \in 1..Len(batch)}

\* importAccountMigration, its transaction (not a replayed one).
ImportMigration(batch, k) ==
    LET members == BatchMembers(batch)
        position(a) == CHOOSE i \in 1..Len(batch) : batch[i] = a
    IN  /\ Cardinality(stored \cup members) <= MaxAccounts
        /\ stored' = stored \cup members
        /\ seq' = [a \in Accounts |->
                     CASE a \in members -> position(a)
                       [] a \in stored \ members -> seq[a] + Len(batch)
                       [] OTHER -> 0]
        /\ \E m \in {seq'[a] : a \in stored'} :
             /\ \A a \in stored' : seq'[a] <= m
             /\ counter' = m
        /\ health' = [a \in Accounts |->
                        IF a \in members THEN Healthy ELSE health[a]]
        /\ route' = [id |-> batch[k],
                     epoch |-> route.epoch + (IF route.id = batch[k] THEN 0 ELSE 1)]
        /\ UNCHANGED <<upserts, alarm, reqs>>

\* Every reader of the route recovers it first: listAccounts, getAccountToken,
\* acquireUpstream, and scheduleNextAlarm after a KV write.
Observe ==
    /\ route' = EnsureRoute(stored, seq, health, route)
    /\ UNCHANGED <<pool, health, upserts, alarm, reqs>>

\* alarm: refresh the active account's token ahead of its expiry.
AlarmRefresh ==
    /\ alarm = NoAccount
    /\ route' = EnsureRoute(stored, seq, health, route)
    /\ route'.id # NoAccount
    /\ alarm' = route'.id
    /\ UNCHANGED <<pool, health, upserts, reqs>>

\* The refresh succeeded, or failed in a way that only defers it.
AlarmDone ==
    /\ alarm # NoAccount
    /\ alarm' = NoAccount
    /\ route' = EnsureRoute(stored, seq, health, route)
    /\ UNCHANGED <<pool, health, upserts, reqs>>

\* The refresh was rejected: reportAccountFailure with no epoch, then
\* scheduleNextAlarm.
AlarmFail(kind) ==
    /\ alarm # NoAccount
    /\ kind \in IsolatingKinds
    /\ LET res == AfterFailure(alarm, kind, AnyEpoch)
       IN  /\ health' = res.health
           /\ route' = EnsureRoute(stored, seq, res.health, res.route)
    /\ alarm' = NoAccount
    /\ UNCHANGED <<pool, upserts, reqs>>

\* The object is evicted and starts again (constructor, migrate): calls that
\* were suspended inside it are lost, requests in their exchange live on.
\* migrate raises the counter to the largest sequence number, which
\* SequenceOrder says it already has reached.
Restart ==
    /\ upserts' = {}
    /\ alarm' = NoAccount
    /\ reqs' = [r \in Requests |-> IF reqs[r].pc = "selecting" THEN Idle ELSE reqs[r]]
    /\ route' = EnsureRoute(stored, seq, health,
                            EnsureRoute(stored, seq, health, route))
    /\ UNCHANGED <<pool, health>>

\* What is left of an instant n units ahead when one unit has passed.
Elapse(n) == IF n > 0 THEN n - 1 ELSE 0

Tick ==
    /\ \E a \in Accounts : health[a].window > 0 \/ health[a].cooldown > 0
    /\ health' = [a \in Accounts |->
                    [health[a] EXCEPT !.cooldown = Elapse(health[a].cooldown),
                                      !.window = Elapse(health[a].window)]]
    /\ UNCHANGED <<pool, route, upserts, alarm, reqs>>

Batches == {b \in UNION {[1..n -> Accounts] : n \in 1..MaxAccounts} :
              \A i, j \in 1..Len(b) : b[i] = b[j] => i = j}

RequestStep(r) ==
    \/ \E bound \in Accounts \cup {NoAccount} : Select(r, bound)
    \/ Reselect(r)
    \/ LoadOk(r)
    \/ \E kind \in Kinds : LoadFail(r, kind)
    \/ ExchangeOk(r)
    \/ \E kind \in Kinds : ExchangeFail(r, kind)
    \/ FailOver(r)
    \/ GiveUp(r)

AdminStep ==
    \/ \E a \in Accounts : UpsertAccount(a) \/ FinishUpsert(a) \/ DeleteAccount(a)
    \/ \E batch \in Batches : \E k \in 1..Len(batch) : ImportMigration(batch, k)

TenantStep ==
    \/ Observe
    \/ AlarmRefresh
    \/ AlarmDone
    \/ \E kind \in IsolatingKinds : AlarmFail(kind)
    \/ Restart
    \/ Tick

\* A step that leaves the pool alone.
Undisturbed == (\E r \in Requests : RequestStep(r)) \/ TenantStep

Next == Undisturbed \/ AdminStep

Spec == Init /\ [][Next]_vars

-----------------------------------------------------------------------------
(* Properties.                                                             *)

\* Types of the persisted state and of the suspended calls.
TypeOK ==
    /\ stored \in SUBSET Accounts
    /\ seq \in [Accounts -> Nat]
    /\ counter \in Nat
    /\ health \in [Accounts -> HealthRow]
    /\ route \in [id : Accounts \cup {NoAccount}, epoch : Nat]
    /\ upserts \in SUBSET Accounts
    /\ alarm \in Accounts \cup {NoAccount}
    /\ reqs \in [Requests -> Request]

\* The route never names a deleted, isolated or cooling account, whatever
\* order failures, re-authorisations, deletions and migrations come in: no
\* dormant credential is used (ensureActiveAccountRoute,
\* reportAccountFailure, deleteAccount, importAccountMigration).
ActiveAvailable ==
    route.id # NoAccount => route.id \in stored /\ Available(health, route.id)

\* What request q knows of its account is of the past, or of the present
\* owner of the route.
HoldsTenure(q, rt) ==
    q.pc \in {"selecting", "selected", "failing"} =>
        /\ q.account # NoAccount
        /\ q.epoch <= rt.epoch
        /\ q.epoch = rt.epoch => q.account = rt.id

\* A tenure has one owner: a request that read account a at epoch e has not
\* read ahead of the route, and while the epoch is still e the route is still
\* a's.  This is what makes the epoch a fence for late reports.
TenureOwner == \A r \in Requests : HoldsTenure(reqs[r], route)

\* The rotation order is a strict order and new accounts go to its end:
\* sequence numbers of stored accounts are positive, distinct and not above
\* the counter, through any mix of additions, deletions and migrations
\* (nextAccountSequence, importAccountMigration).
SequenceOrder ==
    /\ \A a \in stored : seq[a] \in 1..counter
    /\ \A a, b \in stored : seq[a] = seq[b] => a = b

\* An account goes to sleep in this step.
Slept(a) == Available(health, a) /\ ~Available(health', a)

\* No account is put to sleep while another one owns the route, and the
\* tenure ends in the same step: a burst of failures of one tenure costs one
\* account (reportAccountFailure, advanceActiveAccount).
OneAccountPerTenure ==
    [][\A a \in Accounts :
         Slept(a) => /\ route.id \in {a, NoAccount}
                     /\ route'.id # a /\ route'.epoch > route.epoch]_vars

\* A late failure cannot skip an account: a request puts an account to sleep
\* only on behalf of the tenure it read the account in.
LateFailureFenced ==
    [][\A r \in Requests, a \in Accounts :
         Slept(a) /\ reqs'[r] # reqs[r] =>
             reqs[r].account = a /\ reqs[r].epoch = route.epoch]_vars

\* While the pool is left alone no healthy account is ever skipped or
\* preempted: the route leaves its account only in the step that puts it to
\* sleep, and an earlier account that recovers does not take the route back
\* (ensureActiveAccountRoute, advanceActiveAccount).
RouteLeavesOnlySleepers ==
    [][route.id # NoAccount /\ route'.id # route.id => Slept(route.id)]_vars
=============================================================================
