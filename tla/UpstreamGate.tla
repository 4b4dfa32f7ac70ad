---------------------------- MODULE UpstreamGate ----------------------------
(***************************************************************************)
(* The per-account gate of the TenantState Durable Object                  *)
(* (acquireUpstream and its neighbours in src/src/tenant-state.ts), the    *)
(* clients that poll it (acquireUpstreamGate and exchange in               *)
(* src/src/openai.ts) and the fence that cancels them                      *)
(* (src/src/upstream-lifecycle.ts).                                        *)
(*                                                                         *)
(* A client is one exchange of one downstream request: it draws a waiter   *)
(* id, polls until it is the head of the account's queue and the gate is   *)
(* free, makes one upstream call in the account's runner object, and       *)
(* releases the gate.  The runner survives the client: a call goes on when *)
(* the Worker that asked for it is gone, until its deadline.               *)
(*                                                                         *)
(* A client stands for the fresh UUIDs it draws (its waiter id and its     *)
(* lease id), so it starts again only when no row and no call is left of   *)
(* its last life.  Instants are modelled by what is left of them; see      *)
(* AccountRouting.                                                         *)
(***************************************************************************)
EXTENDS Integers, Sequences

CONSTANTS
    Accounts,
    NoAccount,
    Clients,
    NoClient,      \* the empty lease id ''
    LeaseTime,     \* UPSTREAM_LEASE_MS, 11 min
    CallLimit,     \* LOGICAL_REQUEST_TIMEOUT_MS, 10 min
    MinInterval,   \* UPSTREAM_MIN_INTERVAL_MS, 1 s
    WaiterTtl      \* 150 s

ASSUME GateConstants ==
    /\ NoAccount \notin Accounts
    /\ NoClient \notin Clients
    /\ LeaseTime \in Nat /\ CallLimit \in Nat /\ MinInterval \in Nat
    /\ WaiterTtl \in Nat \ {0, 1}
    /\ MinInterval > 0
    /\ LeaseTime >= CallLimit + MinInterval

VARIABLES
    stored,    \* ids with a row in table accounts
    active,    \* the account that owns the route, see AccountRouting
    gate,      \* table upstream_gates; a missing row reads as OpenGate
    queue,     \* table upstream_gate_waiters, per account in sequence order
    clients,   \* the clients, see Client below
    rest       \* history: what is left of MinInterval since the last call's end

vars == <<stored, active, gate, queue, clients, rest>>

OpenGate == [lease |-> NoClient, leaseLeft |-> 0, nextLeft |-> 0]

Client == [pc : {"idle", "waiting", "leaving", "granted", "calling", "ending",
                 "gone"},         \* its Worker crashed
           account : Accounts \cup {NoAccount},
           left : 0..CallLimit,   \* to the request's deadline, once granted
           running : BOOLEAN,     \* its call is open in the runner object
           cancel : {"no", "asked", "done"},  \* cancel() of the gate lifecycle
           wiped : BOOLEAN]       \* history: its gate row was deleted under it

Idle == [pc |-> "idle", account |-> NoAccount, left |-> 0, running |-> FALSE,
         cancel |-> "no", wiped |-> FALSE]

Init ==
    /\ stored = Accounts
    /\ active \in Accounts
    /\ gate = [a \in Accounts |-> OpenGate]
    /\ queue = [a \in Accounts |-> <<>>]
    /\ clients = [c \in Clients |-> Idle]
    /\ rest = [a \in Accounts |-> 0]

-----------------------------------------------------------------------------
(* The tables.                                                             *)

WaiterRow == [waiter : Clients, ttl : 0..WaiterTtl]

Waiters(q) == {q[i].waiter : i \in 1..Len(q)}

\* DELETE of what is not in S: the rows of q in S, in their order.
Keep(q, S) ==
    LET kept[i \in 0..Len(q)] ==
            IF i = 0 THEN <<>>
            ELSE IF q[i] \in S THEN Append(kept[i - 1], q[i]) ELSE kept[i - 1]
    IN  kept[Len(q)]

\* Mutant: waiters that stopped polling are never removed.
ExpireNothing(q) == q

\* expireUpstreamWaiters, on one account's rows.
Expire(q) == Keep(q, {row \in WaiterRow : row.ttl > 0})

\* INSERT ... ON CONFLICT DO UPDATE SET expires_at: the place is kept.
Enqueue(q, c) ==
    IF c \in Waiters(q)
    THEN [i \in 1..Len(q) |-> IF q[i].waiter = c THEN [q[i] EXCEPT !.ttl = WaiterTtl]
                              ELSE q[i]]
    ELSE Append(q, [waiter |-> c, ttl |-> WaiterTtl])

Dequeue(q, c) == Keep(q, {row \in WaiterRow : row.waiter # c})

\* Mutant: only the lease is looked at, not the interval behind it.
BlockedByLease(g) == g.leaseLeft > 0

\* Math.max(lease_until, next_allowed_at) > now.
Blocked(g) == g.leaseLeft > 0 \/ g.nextLeft > 0

\* No row and no call is left of an earlier life of c.
Fresh(c) ==
    /\ ~clients[c].running
    /\ \A a \in Accounts : gate[a].lease # c /\ c \notin Waiters(queue[a])

-----------------------------------------------------------------------------
(* Clients.                                                                *)

\* exchange: begin() of the lifecycle, then acquireUpstreamGate draws its id.
Begin(c, a) ==
    /\ clients[c].pc \in {"idle", "gone"} /\ clients[c].cancel # "asked"
    /\ Fresh(c)
    /\ clients' = [clients EXCEPT ![c] = [Idle EXCEPT !.pc = "waiting", !.account = a]]
    /\ UNCHANGED <<stored, active, gate, queue, rest>>

\* acquireUpstream throws ACCOUNT_NOT_ACTIVE; unknown accounts pass.
PollRefused(c) ==
    LET a == clients[c].account
    IN  /\ clients[c].pc = "waiting"
        /\ a \in stored /\ active # a
        /\ clients' = [clients EXCEPT ![c].pc = "leaving"]
        /\ UNCHANGED <<stored, active, gate, queue, rest>>

\* acquireUpstream: expire, enqueue, and grant the gate to the head when it
\* is free.  n is what is left of the request's deadline.
Poll(c, n) ==
    LET a == clients[c].account
        lines == [b \in Accounts |-> Expire(queue[b])]
        line == Enqueue(lines[a], c)
    IN  /\ clients[c].pc = "waiting"
        /\ a \in stored => active = a
        /\ IF Head(line).waiter # c \/ Blocked(gate[a])
           THEN /\ queue' = [lines EXCEPT ![a] = line]
                /\ UNCHANGED <<gate, clients>>
           ELSE /\ queue' = [lines EXCEPT ![a] = Dequeue(line, c)]
                /\ gate' = [gate EXCEPT ![a].lease = c, ![a].leaseLeft = LeaseTime]
                /\ clients' = [clients EXCEPT ![c].pc = "granted", ![c].left = n]
        /\ UNCHANGED <<stored, active, rest>>

\* The loop of acquireUpstreamGate sees its signal aborted.
Abort(c) ==
    /\ clients[c].pc = "waiting" /\ clients[c].cancel = "asked"
    /\ clients' = [clients EXCEPT ![c].pc = "leaving"]
    /\ UNCHANGED <<stored, active, gate, queue, rest>>

\* The loop of acquireUpstreamGate runs out: ACCOUNT_QUEUE_TIMEOUT or
\* CHAT_DEADLINE_EXCEEDED, or an acquireUpstream RPC failed.
QueueTimeout(c) ==
    /\ clients[c].pc = "waiting"
    /\ clients' = [clients EXCEPT ![c].pc = "leaving"]
    /\ UNCHANGED <<stored, active, gate, queue, rest>>

\* Mutant: end() is missing from the finally of exchange.
CancelWaiterNoEnd(c) ==
    /\ clients[c].pc = "leaving"
    /\ queue' = [queue EXCEPT ![clients[c].account] = Dequeue(@, c)]
    /\ UNCHANGED <<stored, active, gate, clients, rest>>

\* The finally of acquireUpstreamGate: cancelUpstreamWaiter; then end().
CancelWaiter(c) ==
    /\ clients[c].pc = "leaving"
    /\ queue' = [queue EXCEPT ![clients[c].account] = Dequeue(@, c)]
    /\ clients' = [clients EXCEPT ![c].pc = "idle"]
    /\ UNCHANGED <<stored, active, gate, rest>>

\* The grant arrives and attach() or durableChatHub refuses it: the stream
\* was cancelled, or the deadline has passed.
Refuse(c) ==
    /\ clients[c].pc = "granted"
    /\ clients[c].cancel = "asked" \/ clients[c].left = 0
    /\ clients' = [clients EXCEPT ![c].pc = "ending"]
    /\ UNCHANGED <<stored, active, gate, queue, rest>>

\* attach() accepts the gate and durableChatHub starts the call.
StartCall(c) ==
    /\ clients[c].pc = "granted"
    /\ clients[c].cancel # "asked" /\ clients[c].left > 0
    /\ clients' = [clients EXCEPT ![c].pc = "calling", ![c].running = TRUE]
    /\ UNCHANGED <<stored, active, gate, queue, rest>>

\* The call ends, with a result or a failure; a crashed client learns nothing.
EndCall(c) ==
    /\ clients[c].running
    /\ clients' = [clients EXCEPT ![c].running = FALSE,
                                  ![c].pc = IF @ = "calling" THEN "ending" ELSE @]
    /\ rest' = IF clients[c].wiped THEN rest
               ELSE [rest EXCEPT ![clients[c].account] = MinInterval]
    /\ UNCHANGED <<stored, active, gate, queue>>

\* Mutant: release without WHERE lease_id = ?.
ReleaseAnyLease(c) ==
    LET a == clients[c].account
    IN  /\ clients[c].pc = "ending"
        /\ gate' = [gate EXCEPT ![a] = [OpenGate EXCEPT !.nextLeft = MinInterval]]
        /\ clients' = [clients EXCEPT ![c].pc = "idle"]
        /\ UNCHANGED <<stored, active, queue, rest>>

\* The finally of exchange: releaseUpstream, then end().
Release(c) ==
    LET a == clients[c].account
    IN  /\ clients[c].pc = "ending"
        /\ gate' = IF gate[a].lease = c
                   THEN [gate EXCEPT ![a] = [OpenGate EXCEPT !.nextLeft = MinInterval]]
                   ELSE gate
        /\ clients' = [clients EXCEPT ![c].pc = "idle"]
        /\ UNCHANGED <<stored, active, queue, rest>>

\* The Worker is gone; its rows and its call stay.
Crash(c) ==
    /\ clients[c].pc \notin {"idle", "gone"}
    /\ clients' = [clients EXCEPT ![c].pc = "gone", ![c].cancel = "no"]
    /\ UNCHANGED <<stored, active, gate, queue, rest>>

\* The downstream client hangs up: abortAndRelease calls cancel().
Cancel(c) ==
    /\ clients[c].pc # "gone" /\ clients[c].cancel = "no"
    /\ clients' = [clients EXCEPT ![c].cancel = "asked"]
    /\ UNCHANGED <<stored, active, gate, queue, rest>>

\* Mutant: cancel() releases what is attached and does not wait for idle().
CancelDoneAtOnce(c) ==
    LET a == clients[c].account
    IN  /\ clients[c].cancel = "asked"
        /\ clients' = [clients EXCEPT ![c].cancel = "done"]
        /\ gate' = IF clients[c].pc = "calling" /\ gate[a].lease = c
                   THEN [gate EXCEPT ![a] = [OpenGate EXCEPT !.nextLeft = MinInterval]]
                   ELSE gate
        /\ UNCHANGED <<stored, active, queue, rest>>

\* cancel() resolves: no operation is open, so release() has cleared `active'.
CancelDone(c) ==
    /\ clients[c].cancel = "asked" /\ clients[c].pc = "idle"
    /\ clients' = [clients EXCEPT ![c].cancel = "done"]
    /\ UNCHANGED <<stored, active, gate, queue, rest>>

-----------------------------------------------------------------------------
(* Route, time and administration.                                         *)

\* The route moves, see AccountRouting.
SwitchRoute ==
    /\ active' \in stored \cup {NoAccount}
    /\ active' # active
    /\ UNCHANGED <<stored, gate, queue, clients, rest>>

Elapse(n) == IF n > 0 THEN n - 1 ELSE 0

\* One unit passes.  The deadline ends a call, and a live waiter polls at
\* least once a second, long before its row expires.
Tick ==
    /\ \A c \in Clients : clients[c].running => clients[c].left > 0
    /\ \A a \in Accounts : \A i \in 1..Len(queue[a]) :
         clients[queue[a][i].waiter].pc = "waiting" => queue[a][i].ttl > 1
    /\ gate' = [a \in Accounts |-> [gate[a] EXCEPT !.leaseLeft = Elapse(@), !.nextLeft = Elapse(@)]]
    /\ queue' = [a \in Accounts |-> [i \in 1..Len(queue[a]) |->
                   [queue[a][i] EXCEPT !.ttl = Elapse(@)]]]
    /\ clients' = [c \in Clients |-> [clients[c] EXCEPT !.left = Elapse(@)]]
    /\ rest' = [a \in Accounts |-> Elapse(rest[a])]
    /\ UNCHANGED <<stored, active>>

\* DELETE FROM upstream_gates and upstream_gate_waiters for the accounts in S.
DropRows(S) ==
    /\ gate' = [a \in Accounts |-> IF a \in S THEN OpenGate ELSE gate[a]]
    /\ queue' = [a \in Accounts |-> IF a \in S THEN <<>> ELSE queue[a]]
    /\ clients' = [c \in Clients |->
                     IF \E a \in S : gate[a].lease = c
                     THEN [clients[c] EXCEPT !.wiped = TRUE] ELSE clients[c]]
    /\ rest' = [a \in Accounts |-> IF a \in S THEN 0 ELSE rest[a]]

\* deleteAccount.
DeleteAccount(a) ==
    /\ a \in stored
    /\ stored' = stored \ {a}
    /\ active' \in IF active = a THEN stored' \cup {NoAccount} ELSE {active}
    /\ DropRows({a})

\* importAccountMigration of the accounts in S; a of them owns the route.
ImportMigration(S, a) ==
    /\ a \in S
    /\ stored' = stored \cup S
    /\ active' = a
    /\ DropRows(S)

ClientStep(c) ==
    \/ \E a \in Accounts : Begin(c, a)
    \/ PollRefused(c)
    \/ \E n \in 0..CallLimit : Poll(c, n)
    \/ Abort(c)
    \/ QueueTimeout(c)
    \/ CancelWaiter(c)
    \/ Refuse(c)
    \/ StartCall(c)
    \/ EndCall(c)
    \/ Release(c)
    \/ Crash(c)
    \/ Cancel(c)
    \/ CancelDone(c)

AdminStep ==
    \/ \E a \in Accounts : DeleteAccount(a)
    \/ \E S \in SUBSET Accounts : \E a \in S : ImportMigration(S, a)

PoolNext == (\E c \in Clients : ClientStep(c)) \/ SwitchRoute \/ Tick

Next == PoolNext \/ AdminStep

Spec == Init /\ [][Next]_vars

\* A client that runs goes on running, and time passes.  Nothing is assumed of
\* queue time-outs, crashes, cancellations and route changes.
Fairness ==
    /\ WF_vars(Tick)
    /\ \A c \in Clients :
         /\ WF_vars(PollRefused(c) \/ \E n \in 0..CallLimit : Poll(c, n))
         /\ WF_vars(Abort(c))
         /\ WF_vars(CancelWaiter(c))
         /\ WF_vars(Refuse(c) \/ StartCall(c))
         /\ WF_vars(EndCall(c))
         /\ WF_vars(Release(c))
         /\ WF_vars(CancelDone(c))

\* The system with a fixed pool: no gate row is deleted by an administrator.
FairPoolSpec == Init /\ [][PoolNext]_vars /\ Fairness

-----------------------------------------------------------------------------
(* Properties.                                                             *)

GateRow == [lease : Clients \cup {NoClient}, leaseLeft : 0..LeaseTime,
            nextLeft : 0..MinInterval]

\* The state has its types; time never runs below zero.
TypeOK ==
    /\ stored \in SUBSET Accounts
    /\ active \in Accounts \cup {NoAccount}
    /\ gate \in [Accounts -> GateRow]
    /\ queue \in [Accounts -> Seq(WaiterRow)]
    /\ clients \in [Clients -> Client]
    /\ rest \in [Accounts -> 0..MinInterval]

\* Upstream calls of one account never overlap, through crashes, cancellations,
\* time-outs and route changes, unless the gate row of one of them was
\* deleted while it ran (acquireUpstream, releaseUpstream).
SerialCalls ==
    \A c, d \in Clients :
        /\ clients[c].running /\ clients[d].running
        /\ clients[c].account = clients[d].account
        /\ ~clients[c].wiped /\ ~clients[d].wiped
        => c = d

\* Two calls of one account are at least MinInterval apart, also when the
\* first one's client crashed and its lease had to expire.
CallSpacing ==
    [][\A c \in Clients :
         ~clients[c].running /\ clients'[c].running /\ ~clients[c].wiped
         => rest[clients[c].account] = 0]_vars

\* When cancel() resolves nothing is left behind: no lease, no place in the
\* queue, no open call, even if the grant was on its way when the client
\* hung up (createUpstreamGateLifecycle).
CancelSettles ==
    \A c \in Clients : clients[c].cancel = "done" => Fresh(c)

\* Every waiter leaves the queue, with the gate or an error, though nobody's
\* queue time-out is assumed to fire and clients ahead of it may crash.
WaiterServed ==
    \A c \in Clients : clients[c].pc = "waiting" ~> clients[c].pc # "waiting"

\* Cancelling a stream always finishes.
CancelCompletes ==
    \A c \in Clients : clients[c].cancel = "asked" ~> clients[c].cancel # "asked"
=============================================================================
