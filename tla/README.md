# Verification of the M365 gateway

TLA+ models of the Cloudflare Worker in `src/`, the TLC runs that check them on
small instances, and TLAPS proofs of what matters most for every instance.
`PROJECT.json` is the index: components, runs, mutants, the line-by-line map from
definitions to code, findings, hazards and theorems.

## 1. The system

The gateway offers OpenAI- and Anthropic-compatible endpoints and forwards each
turn to Microsoft 365 Copilot (ChatHub) with one of a pool of accounts. A Worker
isolate handles a request; what must survive or be shared lives in Durable
Objects, each single-threaded, with SQLite storage and an alarm.

| Component | State | Operations | Hard parts |
|---|---|---|---|
| **TenantState: route and health** (`tenant-state.ts`) | accounts with sequence numbers, health rows, the route `<active id, epoch>` | `selectAccount`, `reportAccountFailure/Success`, `upsertAccount`, `deleteAccount`, `importAccountMigration`, `alarm` | late reports of an old tenure, refresh awaited between read and use, eviction between commit and KV write |
| **Upstream gate** (`tenant-state.ts`, `openai.ts`, `upstream-lifecycle.ts`) | a lease row and a waiter queue per account | `acquireUpstream`, `cancelUpstreamWaiter`, `releaseUpstream`; polling, abort and cancel fence of the client | Worker dies with the lease, grant racing a cancellation, rows deleted under a call |
| **Chat session** (`chat-session.ts`, `openai.ts`) | one row: conversation coordinates, account, lease, pending tool call | `acquire`, `bindAccount`, `rebindAccount`, `switchUncommittedAccount`, `completeFinal`, `release`, `abandon`, `seed`, `evict`, `expireIfIdle` | late `abandon`, half-turns at Microsoft, coordinates shared with aliases, expiry during a turn |
| **Response alias registry** (`chat-session.ts`) | table `alias_registry` of one registry object | register, unregister, expire, bounded eviction by RPC | one eviction of several fails; a crash between insert and registration |
| **Credential store** (`tenant-state.ts`, `oauth.ts`, `crypto.ts`) | ciphertext and revision per account, KV mirror queue and deletions, refreshes in flight | `upsertAccount`, `deleteAccount`, `ensureValidAccount`, mirror and deletion flushes, `alarm` | refresh against re-authorisation and deletion, order of KV writes |
| **Signed migration** (`migration.ts`, `tenant-state.ts`) | nonces, receipts | `importAccountMigration` | replay |
| **Exchange, tool routing, streaming** (`openai.ts`) | per request: the pump's stream, its cancellation | `exchange`, `accountForLease`, `chatStream`, `responsesStream`, the Responses bridge | ties the objects above together; a client that leaves at any moment |
| **Tool ledger and completion evidence** (`tool-ledger.ts`, `completion-evidence.ts`) | none of its own: rebuilt from a request's history or from an alias's snapshot | parse, preflight, guard a proposal, judge claims | executions counted twice or not at all over long chains |
| **ChatHub client** (`chathub.ts`) | a WebSocket, the reader's queue, a deadline | dial, one reconnect, handshake, submit, read | was the turn submitted or not; silence; frames and closings in any order |
| **Metrics and diagnostics** (`tenant-state.ts`, `request-metrics.ts`, `index.ts`) | a tracker per request; totals, per-account statistics, recorded requests, diagnostics ring | finish, record, reset | several reporters of one end; reset and deletion between lookup and count |
| **Anthropic adapter** (`anthropic.ts`) | a stream and its open block | convert, adapt a stream | errors and ends inside a block, abort |
| **Administration** (`index.ts`, `tenant-state.ts`) | sessions, OAuth states, API keys | login, one-shot state, key issue | replay, expiry |
| **Egress relay** (`optional-egress-relay/`, Go) | nonce cache, bridge | verify, relay | duplicates |
| Request bodies, models, multimodal, tool schemas, task anchors | none | parsing and formatting | no shared state |
| Admin UI, scripts, deployment | none | presentation | no shared state |

A request first acquires the lease of its session (ChatSession), asks TenantState
for the active account (`selectAccount`) and binds the session to it, waits for
the account's gate, calls Microsoft from the account's runner object, releases
the gate, reports success or failure to the route, and completes, releases or
abandons the turn. All of these are RPCs: a Worker may die between any two of
them, and a stream that its client cancels starts a second actor that ends the
turn from the side.

What makes the parts correct:

* *route*: a dormant credential is never used; a tenure has one owner; a burst of
  failures costs one account; late results neither skip nor bring back an account;
* *gate*: calls of one account never overlap and keep their distance; everybody
  in the queue is served; a cancelled client leaves nothing behind;
* *session*: turns are kept apart; a turn runs with the coordinates the row holds,
  and these belong to its account; no turn continues from a turn of the same
  object that failed or was abandoned after it had reached Microsoft; the result
  of a pending tool call, sent alone, is consumed once;
* *credentials*: the row is authoritative, and KV ends at the same ciphertext or,
  for a deleted account, at nothing;
* *aliases*: the registry counts every alias that lasts, the bounds hold, and
  an alias with time left is given up only while idle and only for a newer one;
* *ChatHub call*: the prompt is submitted at most once, the verdict says whether it
  was, no prompt Microsoft may still be working on goes to another account, the
  text handed on is the text sent, and the call ends;
* *tools*: every execution is counted once, a model that never stops proposing is
  stopped, a client that only returns results is not refused while its session is
  there, and in the context of tools no completion is claimed that did not happen;
* *delivery*: an answer is durable before it is seen, an unseen turn is discarded,
  the end that is counted is the end the client saw, and the statistics add up.

## 2. Modules

| Module | Models | Runs / proofs |
|---|---|---|
| `AccountRouting` | route, health, pool, the requests that select and report | `MCAccountRouting`, `AccountRoutingProofs` |
| `UpstreamGate` | gate and queue rows, clients, runner calls, cancel fence | `MCUpstreamGate`, `UpstreamGateProofs` |
| `ChatSession` | one session or alias object and its requests | `MCChatSession`, `ChatSessionProofs` |
| `CredentialStore` | one account's row, mirror jobs, KV, chain of KV operations, refresh | `MCCredentialStore`, `CredentialStoreProofs` |
| `AliasRegistry` | the alias objects of a tenant and their registry | `MCAliasRegistry`, `AliasRegistryProofs` |
| `Invocation` | abstract: what the ChatHub client promises about one prompt | refined by `ChatHub` |
| `ChatHub` | one call of `chatHub`: both attempts, reader, reading loop, the runner's reply | `MCChatHub`, `ChatHubProofs` |
| `ToolLedger` | one conversation between a client that runs tools and the gateway | `MCToolLedger`, `ToolLedgerProofs` |
| `Delivery` | one request's streams from the pump to the client, its tracker, the tenant's statistics | `MCDelivery`, `DeliveryProofs` |

Conventions shared by all:

* *Atomicity.* Storage operations of a Durable Object admit no other event. An
  action is what a handler does between two awaits that leave the object (an RPC,
  a KV write, a token refresh, a WebSocket); on awaits of
  WebCrypto see section 5.
* *Time.* The code compares instants only with `Date.now()`. An instant is
  modelled by what is left of it, never below zero, and `Tick` lets one unit
  pass. Deadlines (`RequestLimit`, `CallLimit`) keep `Tick` from passing a
  deadline whose holder has not acted on it, as the abort signal does.
* *Fresh identifiers.* A request or client stands for the UUIDs it draws, and
  starts again only when nothing refers to its last life.
* *Payload.* Prompts, tokens, the portable tail and task anchors travel with a
  row and decide nothing here. The ledger snapshot is payload of `ChatSession` and
  the subject of `ToolLedger`.
* *How the modules meet.* Each cuts the system at an RPC. What one assumes of the
  other side of the cut is any of the outcomes the other module can produce: the
  route is any account in `ChatSession`; `exchange` ends in any way in `Delivery`;
  a turn fails submitted or not in `ToolLedger`. The two verdicts "submitted" and
  "not submitted" on which `ChatSession` decides between release and tombstone are
  those that `ChatHub` shows to be true, and the deadline that `UpstreamGate` and
  `ChatSession` rely on (`CallLimit`, `RequestLimit`) is `CallEnds` of `ChatHub`.

### AccountRouting

`route` is the pair of `active_account_id` and `active_account_epoch` in table
`meta`; `EnsureRoute` is `ensureActiveAccountRoute`, `AdvanceRoute` is
`advanceActiveAccount`, `AfterFailure` the transaction of
`reportAccountFailure`, `FailureRow` the health row it writes (doubling
cooldowns, 24 h window). A request selects (`Select`, `Reselect`), suspends in the
credential load (`LoadOk`, `LoadFail`), calls (`ExchangeOk`, `ExchangeFail`) and
may fail over once (`FailOver`, `GiveUp`). `UpsertAccount` and `FinishUpsert` are
the two halves of `upsertAccount` around its KV write; `Restart` loses what was
suspended. `AlarmRefresh`, `AlarmDone`, `AlarmFail` are the alarm around its
token refresh. `Undisturbed` is every step but an administrator's.

### UpstreamGate

`gate` and `queue` are tables `upstream_gates` and `upstream_gate_waiters`. A
client begins, polls (`Poll` is the whole of `acquireUpstream`: expiry of waiters,
enqueueing, head check, grant), is refused when the route moved, calls
(`StartCall`, `EndCall`) and releases. `Abort`, `QueueTimeout` and `CancelWaiter`
are the ways out of the queue, `Cancel` and `CancelDone` the lifecycle fence.
`Crash` ends a client with its runner call still open. `rest` and `wiped` are
history variables: time since an account's last call, and whether an
administrator deleted a gate row under a call. `Keep` is the DELETE of waiter rows, a
recursive function so that the proofs can speak of it.

### ChatSession

`row` is the singleton row; `Completed`, `Released`, `Abandoned`, `Switched` are
what the methods leave of it. `convs` is Microsoft's side: to whom a conversation
belongs, whether it holds a turn that was never committed, and whether another
object has its coordinates: `seedAlias` gives the alias of a response those of the
object its turn ran in. `Complete` of a Responses turn and `Seed` make a
conversation shared; `SiblingTurn` is a turn that another object submits to it and
does not commit. A request brings no output, the `result` of the pending call
alone, or call and output as a `pair`, which `OutputExpected` also accepts when
nothing is pending. `Acquire` covers
session, alias, expired and busy rows; `BindAccount`, `RebindAccount`,
`NoAccountForLease` are the branches of `accountForLease`; `Submit`, `Answer`,
`FailOver`, `FailUnsubmitted`, `FailSubmitted`, `LoseAnswer`, `Terminal`,
`AbandonUnseen`, `Complete`, `CompleteStale`, `Deliver` the ways a turn goes on
or ends; `CancelStream` and `AbandonArrives` the late RPC of a cancelled stream.
`selectAccount`'s answer is any account.

### CredentialStore

`acct`, `job` and `gone` are the account's rows in `accounts`,
`credential_mirror_queue` and `credential_mirror_deletions`; a ciphertext is the
number of the token in it. `chain` is the promise chain of
`enqueueCredentialMirrorOperation`, whose head is suspended in `call`, a KV put or
delete. `FlushMirror` and `FlushDeletion` run up to the KV call, `PutOk`,
`DeleteOk` and `KvFail` are what comes after it; a failed call may have taken
effect. `Authorize`, `ImportMigration` and `RefreshStore` share the transaction
`Store`; `DeleteAccount` moves the key to `gone`; `AdoptInline`, `ReadLegacy` and
`AdoptLegacy` bring rows of earlier releases up to date (`readAccountToken`).
`BeginRefresh`, `RefreshOk`, `RefreshStore` or `RefreshVoid` are the single-flight
refresh of `ensureValidAccount`: `RefreshOk` ends with the check of the route, and
`RefreshStore` is the transaction after the await of `encryptJSON`, with anything
in between. `Restart` evicts the object in any state.

### AliasRegistry

`live`, `leased`, `group` and `left` are the rows of the alias objects, `reg` is
table `alias_registry` in the order of its sequence numbers. `Seed` to
`SeedFails` is `seed` around its RPC; `Register` begins
`registerResponseAliasLocked`, `VictimStays`, `VictimGone`, `VictimUnreachable`
are one turn of its loop, and of the loop of `expireRegisteredAliases`, which
`Sweep` begins. Both hold the registry (`op`), as `blockConcurrencyWhile` does.
`Expire` deletes a row and sends the notice that `Unregister` takes and
`NoticeLost` drops. `SeedDies` and `RegistryDies` end either object in
the middle.

### ChatHub and Invocation

`Invocation` is the promise: one submission at most, one verdict, "answered" only
after a submission, and a failure that says truthfully whether the prompt had
been submitted. `ChatHub` is the code. An attempt goes through `pc` = "start",
"dial", "handshake", "read"; `Unwind` is the catch and finally blocks of
`runChatHub`, and `Thrown` the catch block of `chatHub`, which throws on or makes
the second attempt (`mayReconnectChatHubFailure`). Between socket and loop stands
`socketReader`: `queued`, `terminal`, and one `waiter` with a timer. The
`Deliver...` actions are the branches of its message event, `SocketCloses`,
`SocketBreaks` and `SignalFires` its other events, and the loop's own steps
(`TakeQueued`, `ReaderFailed`, `Wait`, `Read...`) interleave with all of them. A
frame is a sequence of parts of a kind: noise, delta, snapshot, a mark (final
text, upstream failure, quota, native call), the completion record or a fatal
record; a token of the answer is its number, so that gaps, repetitions and
reordering show. `RunnerReplies` and `ReplyLost` are the way back to the Worker
(`runChatHub` of ChatSession, `durableChatHub`), and `FailsOver` what `exchange` makes of
it (`classifyAccountFailure`, `mayFailOverChatHubFailure`). Microsoft, the network
and the relay are external: any record, at any time, or none.

### ToolLedger

The gateway runs no tool. `items` is the conversation as the client has it; a
call is handed out (`HandOut`), the client runs it (`RunTool`) and says so in its
next request. In the modes "chat" (Chat Completions) and "keyed" (stateless
Responses, `prompt_cache_key` and the like) each request carries the history; in
mode "chain" (`previous_response_id`) the alias `row` keeps the pending call and a
snapshot of counts, outcomes and failures per fingerprint, from which
`ParseToolLedger` rebuilds the ledger. `session` says whether the next Responses
request finds a session it continues (`lease.started`). If it does not (`Whole`),
the whole history is read and not only what follows the user's last message. A
session goes with a turn that failed after submission, by expiry, eviction or a
client that names another (`SessionGoes`); a chain whose response is gone is first
answered 404, and the client then goes on without the id. The operators carry the
code's names. `Request` is a handler up to its preflight; its input is what
an honest client may send (`HonestInputs`), or faulty (`FaultyInputs`): a result
twice, a result of an unknown call, a call of the client's own, a result or the
history left out. `StopLoop`, `EndLocally`, `Answer` and `TurnFails` are the ways a
turn ends otherwise; an answer without any context of tools (`HasToolContext`) is
handed on as prose, unchecked. `ran` and `asked` are history: what really was
executed, and how much of it before the user's last message; `Scope` is the part
the limits are about and `Covered` the part the ledger must know. Fingerprints,
normalised errors and classes of tools are sets; which fingerprint is of which class (`ActionOf`) is a constant, and a prose
answer is the set of completions it claims.

### Delivery

`q` is one request with its pipes: the source stream `src` written by the pump
(`pc` follows it from preflight to its end), the layer `out` (none, the Anthropic
adapter or the Responses bridge), what the client `got`, and the tracker's
`account` and `terminal`. `CompleteFinal`, `SeedAlias`, `Release` take effect in
one step and are answered in the next, with `RpcFails` possible at both; `Catch`
is the pump's catch block, `Finally` its end. A client that has left
(`ClientLeaves`) is noticed through `SignalFires`, `CancelArrives`, both in either
order, or neither; `AbortAndRelease` schedules the one abandon that `Cleanup`
carries out or fails to. `Dispatched` sends the record off in the step in which
the first terminal is set; `RecordFinds` and `Record` are `recordRequest` before
and after its second await, beside `ResetRequestStats`, `StoreAccount` and
`DeleteAccount`. The requests of a run follow one another; their records do not
have to.

## 3. Runs

| Run | Question | Result |
|---|---|---|
| `account_routing` | whole routing specification: availability of the active account, tenure fence, rotation order, fenced failures | holds |
| `fixed_pool` | three accounts and two requests, pool left alone: one account per tenure, no healthy account skipped or preempted | holds |
| `upstream_gate` | serial calls, spacing, settled cancellation, with crashes and deletions | holds |
| `gate_liveness` | every waiter leaves the queue; every cancellation finishes | holds |
| `chat_session` | lease exclusion, agreement of lease and row, ownership of coordinates, no continuation from an own failed turn, result of a pending call once | holds |
| `credential_store` | jobs agree with the row, mirror is true when nothing is pending, every job and deletion is done in the end | holds |
| `alias_registry` | registry covers the lasting aliases, bounds per conversation and in total, aliases with time left go only while idle and for a newer one | holds |
| `registry_liveness` | every expired alias leaves the registry | holds |
| `chathub` | the client implements `Invocation`; no fail-over replays a prompt; faithful stream; every call ends | holds |
| `tool_ledger` | every execution counted once; honest clients refused only by a stateless request that has lost its session; loops bounded; a repeated failure not handed out again; in the context of tools every completion claim backed | holds |
| `delivery` | durable before seen; unseen turns discarded; the recorded end is the true one; well-formed streams; statistics agree; every request settles or waits for its client to read | holds |
| `terminal_turn` | what a comment says of turns that reached Microsoft | violated, see section 6 |

*Bounds.*

* Routing: two accounts and one request in the whole specification (pool
  changes dominate), three accounts and two requests in the fixed pool; cooldowns
  1 and 2 so that doubling meets its cap; `MaxEpoch` 5 lets the route go twice
  round two accounts, or once round three and on; `MaxCounter` 3 leaves
  a hole in the numbering and fills it. The whole pool may sleep in every run.
  Two failure kinds stand for four: `rate_limit` and `transient` differ in
  durations only, `auth` and `permanent` not at all.
* Gate: two accounts, two clients; `LeaseTime` = `CallLimit` + `MinInterval` is
  the tightest ratio the assumption allows, so an expired lease and the end of
  the orphaned call can meet. Two clients suffice for overlap, spacing and a
  head of queue that dies; a client is reused once nothing remembers it.
* Session: two accounts, two requests, three conversations: one for the row, and
  one for each request. A conversation nobody refers to is forgotten, and
  adding a fourth gives the same number of states. `LeaseTime` 2 over
  `RequestLimit` 1 keeps the code's order (15 min over 10 min), and both time to live
  values exceed the lease. One flag per conversation stands for any number of
  other objects that share it.
* Credentials: two keys (KV never holds more than the row's or the deletion's,
  so one stays fresh) and three tokens, enough for an authorisation, a
  deletion and a second life with a write of the first still under way. Liveness
  is checked in the same run, without symmetry; three keys give the same safety
  results under symmetry.
* Aliases: three aliases and three conversations, at most one alias per
  conversation and two in total, so that each bound is exceeded alone and both
  together; one unit to live, so that rows expire at every point. When both are
  exceeded the victim of the conversation may be the newer of the two and go
  although the older, being leased, then ends the registration: the case that
  `OnlyNewerDisplaces` allows. A fourth alias, and with it two per conversation, is
  beyond TLC and left to the proof, which is for any bounds.
* ChatHub: the deadline is two units and both timers one, so that a wait times out
  before, at and after the deadline; a queue of one frame overflows with the
  second; four parts, of which several may share a frame, hold two tokens, a mark
  and an ending, or a handshake with the first parts behind it.
* Ledger: a mutating and an unclassified tool, one error text, four
  rounds, two repetitions in a row and three in all (the code has 32, 2 and 8), ten
  items, two user messages: a conversation can exceed every limit separately, can
  repeat a failure, and a second message can follow a stopped loop or an abandoned
  call, and a task may fail and succeed with each tool, after another task, and be
  called complete. No tool verifies, so a claim of verification never has
  evidence; more classes are left to the proof, which is for any. The snapshot and
  evidence limits keep the code's order to the others.
* Delivery: three requests, of which the first is of any kind, streamed or not, and
  the others are image requests whose records meet the first one's; two accounts,
  two recorded rows so that pruning happens, one reset, one heart-beat.
  `MCDelivery` takes the tenant's steps between requests: they and the request in
  hand read nothing of each other's state, so every order gives the same
  states of either.

Symmetry is used in the safety runs of routing, gate, session and aliases only:
runs with a temporal property under fairness go without. Epoch and counter are bounded in the MC
module and never in the specification. Deadlock is checked in all other runs:
the bounded routing runs switch it off because they stop at `MaxEpoch`, and
`tool_ledger` because a conversation ends at `MaxItems`.

*Fairness.* Gate (`FairPoolSpec`): time passes, and a client that is alive goes on
polling, aborting, calling, ending and releasing, which is what its event loop
does. Nothing is assumed of queue time-outs, crashes, cancellations and route
changes, and administrators leave the pool alone: an import that
drops the queue again and again could keep a waiter out for ever. Credentials
(`FairSpec`): the object runs what it has begun, its alarm goes off (the platform
delivers alarms at least once), and neither KV nor the object fails at the same
point for ever, hence strong fairness of the KV answers. Registry (`FairSpec`):
time passes, expired rows and the registry's alarm are attended to, and calls to
a victim do not fail for ever. Nothing is assumed of administrators, clients,
notices, deaths or the route. ChatHub (`FairSpec`): time passes, timers and the
deadline's signal go off, a fetch whose signal has fired returns, and the loop
runs what it can run; nothing is assumed of Microsoft, the network or the caller.
Delivery: every await of the handler ends (the call by its deadline, an RPC by its
answer or failure), the layer between source and client moves what it holds, and a
record is dealt with; nothing is assumed of the client, the signal or the
cancellation. A stream that ends well is over for the tracker only when the monitor
has been pulled to its end (`request-metrics.ts:205`), which is the client's doing.
`Settles` therefore has two halves: again and again a request is over or has
something the client has not read (`Unread`), and if the client reads on
(`WF_vars(Pull)` as a premise, not as part of the specification) it ends and its record is
dealt with.

Every property of a passing run has a mutant: a plausible bug in a mapped
definition (epoch not compared, epoch not advanced, lease not checked, row not
detached) under which TLC finds the property violated.

## 4. Proofs

Every theorem is proved for all values of the constants that satisfy the
module's named assumption; nothing is taken on trust. The assumptions are what
the code's constants satisfy: `LeaseTime >= CallLimit + MinInterval` for the gate
(11 min against 10 min and 1 s), `RequestLimit < LeaseTime < SessionTtl` for a
session (10 min, 15 min, the time to live), positive limits elsewhere.

`AccountRoutingProofs` proves `Spec => []IInv` with

    IInv == TypeOK /\ ActiveAvailable /\ TenureOwner /\ SequenceOrder

for every pool, set of requests and cooldowns. No conjunct is inductive alone.
`ActiveAvailable` needs the types; `TenureOwner` needs that a route that changes
owner changes its epoch, a lemma about `EnsureRoute`, `AdvanceRoute` and
`AfterFailure`; the choice in `FirstAfter` is of a least sequence number, which
exists because `SequenceOrder` keeps the numbers natural and distinct. Theorems:
`TypeCorrect`, `RouteNeverDormant`, `TenureFence`, `RotationOrder`. The action
properties follow from one fact about a step (`SleepsRightly`: who goes to
sleep, on whose behalf, and what becomes of the tenure): `BurstCostsOneAccount`,
`LateFailuresFenced`. `NobodySkipped` starts from any state with `IInv` and lets
everybody but the administrator act, since a deletion or an import moves the route.

`UpstreamGateProofs` proves `Spec => []GateInv` with

    GateInv == GateTypes /\ LeaseOwners /\ ClientShape /\ RestGuarded

`SerialCalls` is not inductive: what is missing is that whoever may call or is
calling owns the lease for longer than its call can last (`LeaseOwners`), and
that the gate stays closed while its account has to rest (`RestGuarded`).
Theorems: `CallsAreSerial`, `CallsKeepDistance`. `TraceInv` says where a client's id
can be found in gate and queue rows, by the state of the client (`Footprint`);
`CancelLeavesNothing` is what it says of a client whose cancellation is done, and
`GateTypeCorrect` the types, queues included. What `Keep` leaves of a queue is shown by
induction over its rows.

`ChatSessionProofs` proves `Spec => []SessionInv` with

    SessionInv == TypeOK /\ RequestShape /\ LeaseAgrees /\ LeaseOutlives /\ RowOutlives
                  /\ SessionTurns /\ ConvsApart /\ Forgotten /\ OwnersKnown /\ TurnsClean
                  /\ OutputUnspent

Exclusion (`TurnsExclude`, `LeaseStaysTrue`) is a matter of time: a lease outlives
its request (`LeaseOutlives`), and a session's row its lease (`RowOutlives`). An
alias expires at a fixed time, also under a turn; what protects the
conversations then is that no two requests of the object are in one
(`ConvsApart`) and that an unused one has no history (`Forgotten`). From these
follow `CoordinatesStay` (`OwnersKnown`), `ContinuationsClean` (`TurnsClean`: of
this object's turns, other objects may do to a shared conversation what they
like) and `OutputConsumedOnce` (`OutputUnspent`: a row whose call has been answered
waits for none), three action properties.

`CredentialStoreProofs` proves `Spec => []CredentialInv` with

    CredentialInv == TypeOK /\ JobsAgree /\ RowShape /\ KeysKnown /\ RowMirrored

for any set of keys and any number of tokens. `MirrorTrue` speaks of quiet states
only and is far from inductive: `RowMirrored` says what KV holds in every state,
where a key that holds a token is the row's, the deletion's or the running
call's (`KeysKnown`), so that a fresh key is empty and a deletion leaves nothing
behind. A refresh that stores its token for an account deleted meanwhile gives it a
fresh key like any new account. Theorems: `CredentialTypes`, `JobsAlwaysAgree`,
`MirrorIsTrue`.

`AliasRegistryProofs` proves `Spec => []RegistryInv` with

    RegistryInv == Bookkeeping /\ BoundsKept /\ BoundsAhead

The bounds are restored only when a registration ends, one eviction after the
other, so the invariant has to say what will be left then (`BoundsAhead`). That
it holds when a registration begins is arithmetic over the registered aliases:
the victims are as many as the registry is over its bound, and none that lasts is
missing from it (`NoAccountingLie`, part of `Bookkeeping`). Theorems: `RegistryTypes`,
`NothingLost`, `AliasesBounded`, and the action property `OnlyNewerDisplace`, which
rests on `NewestLast`: the alias being registered is the last of the table. The counting takes the
oldest survivor, which exists by `LeastNat`: all others are newer.

`ChatHubProofs` proves `Spec => []HubInv` with

    HubInv == TypeOK /\ SubmissionKnown /\ AttemptShape /\ ReportKnown

for every deadline, timer, queue length and amount of traffic (`HubConstants`).
`SubmissionKnown` ties the position of the call to the number of submissions, to
the flag and to the result: without it neither "one submission over both
attempts" nor "the verdict is true" is inductive, since both depend on what a
later catch block will say. `ReportKnown` says what `exchange` can have been told: the
result, or nothing at all. Theorems: `HubTypes`, `NoReplay`, and
`HubImplementsInvocation`, the refinement of `Invocation`: every step of the client
maps to a step of the abstract invocation or to a stutter. `TextIsFaithful`
(`StreamFaithful`) needs to know what is still under way: `FlowInv` says that the
parts in the loop's hand, the reader's queue and on the wire, in this order, take
the number of tokens shown to the number said, one part after the other
(`InFlight`; a `Chain` is such a path through a sequence).

`DeliveryProofs` proves `Spec => []RequestInv`, where `RequestInv` is `Sound(q)` and

    Sound(s) == Typed(s) /\ Phase(s) /\ Durable(s) /\ Discarded(s) /\ Told(s) /\ Legal(s)

The properties speak of what the client has got; the invariant has to speak of
what it will get, that is of everything in the two pipes behind it: an answer in any
pipe is durable (`Durable`), an error that is on its way has been told to the
tracker, and a stream whose end nobody has been told of has its final event
somewhere (`Told`), what remains in a pipe after a final event is [DONE]
(`Legal`), and a turn that is committed and unseen has an abandon coming or the
final event in a pipe (`Discarded`). A step changes a few of the record's fields;
one lemma per kind of change says that the result is sound, in terms of the fields that
are kept (`Keeps`), and the lemmas about actions show which change each makes. Theorems:
`ShownIsDurable`, `UnseenIsDiscarded`, `CountedAsSeen`, `StreamsLegal`. For the statistics
`StatsInv` adds types and finiteness to `StatsAgree`; the sum over accounts is
the number of pairs <<account, i>> with i up to the account's count, so that
one more record is one more pair. Theorems: `TablesAgree`, `DeliveryTypes`.

`ToolLedgerProofs` proves `Spec => []LedgerProtocol` with

    LedgerProtocol == TypeInv /\ HistoryInv /\ WithinLimits(Course) /\ RowInv /\ LedgerInv
                      /\ (reply.claims # {} => ~OpenCall) /\ HonestNotRefused /\ ClaimsBacked

for any tools, errors, classes, limits and length of the conversation with
`LedgerAssumption`: a snapshot has room for as many actions as there are rounds (32
and 32) and the evidence window for more messages than the calls and results of a
turn (96 against 64). A snapshot merges the executions of an action, so a
restored ledger is not the one that was saved. `Mirrors` says what survives:
counts, runs at the end, the order of last executions, every failed action, and the
failures themselves as long as they fit an entry. Four steps carry the proof.
(1) *Saving and restoring keep it* (`SnapshotCovers`): an induction over the completed
executions for the entries, over the entries for the blocks they are restored
to. (2) *Replaying is exact* (`TurnLedger`): an induction over the items from a user's
message on, along `From`, which says that calls and results alternate there; no
item raises an issue because the limits are kept (`WithinLimits(Course)`, the
executions and the call handed out). A request that is read in full
(`WholeRequest`) starts at the first message, where limits and abandoned calls
of earlier tasks come in: the two exceptions of `HonestNotRefused`. (3) *A request
finds the ledger true or is not let through* (`EmptyRowRequest`,
`AnsweredRowRequest`, `CalledRowRequest`, by the three forms of `RowInv`), for
honest inputs and for each faulty one: what it adds is an
issue, what it leaves out stays pending. (4) *The guard keeps the limits*
(`AllowedBounded`), from what the ledger mirrors. Theorems: `LedgerInvariant`,
`LedgerTrueHolds`, `LoopBoundedHolds`, `HonestNotRefusedHolds`, `ClaimsBackedHolds`, and the
action property `FailureNotRetriedHolds`. `LoopBounded` does not follow from `LedgerTrue`
alone: the run at the end of a restored ledger has to be as long as the real one, and
that is why entries are ordered by their last completion.

Checked by TLC only:

* liveness under fairness, which is beyond the prover: `WaiterServed`,
  `CancelCompletes`, `MirrorSettles`, `RegistryForgets`, `CallEnds`, `Settles`.

## 5. Limits

* A lost RPC reply is seen as a crash of its caller: whatever the object did
  stays done and nobody follows up. A failed `releaseUpstream` is the same.
* `acquireUpstream` without a waiter id, `markAccountLocked`, `complete` and
  `replaceCompletedPortableProtocolTail` are not reached from the handlers
  and are left out.
* Crash or lost reply after submission leaves a turn whose end the Worker never
  learned (taint "lost"). A committed session continues from it; nothing in
  the repository claims otherwise, so no property speaks of it.
* In ChatSession the route is any account at any time, and in UpstreamGate
  `SwitchRoute` moves it at will: both allow more than AccountRouting does.
* A KV write takes effect when it is answered, when it fails or when the object
  is evicted, never later. An await of WebCrypto is taken as part of the step, except where a
  check and the transaction that relies on it stand on its two sides: the
  refresh's `encryptJSON` (`RefreshOk`, `RefreshStore`) and the digest of
  `recordRequest` (`RecordFinds`, `Record`).
* An alias whose object died between its INSERT and its registration is not
  counted until its own alarm; the bounds except it. When both bounds are exceeded
  at once the registry gives up one alias more than it has to: victims are
  chosen before any has gone.
* A refresh that began before a re-authorisation may end after it and store the
  older grant's token; nothing in the repository claims otherwise.
* ChatHub: which record is a snapshot and which a delta, and what a record
  says of failure or quota, is Microsoft's choice; `parseFunctionCall`, the tool
  prompts, attachments and image links are data. The relay is a way of dialling
  with a cause of its own.
* ToolLedger: one pending call at a time, as the handlers hand out; a tool is of one
  class or none, and its outcome is "ok" or one of the error texts (the status
  "unknown" does not arise: the ledger always sets `failed`); a client does not
  send an answered request again, and after a 404 it goes on with its whole history;
  the recognition of claims in prose is taken as given. Claims of an answer
  without tools offered and without any in its ledger are not judged, by the code
  or by `ClaimsBacked`.
* Delivery: what the monitor has pulled counts as received; its one-chunk
  prefetch is not modelled. A `send` that throws is not told apart from a
  cancelled stream. Diagnostics and token counts are left out.
* Encryption, signatures, HTTP framing, prompt building and frame parsing are data.

Not modelled: administration (admin sessions, OAuth states, API keys: rows that
are written, looked up by hash and expire), nonce and receipt of a migration, the
diagnostics ring, the Go relay (its nonce cache is one map under one mutex), and
everything that only parses, formats or presents.

## 6. Findings

| Run | Statement | What happens |
|---|---|---|
| `terminal_turn` | a release "would silently continue from polluted upstream state" (`openai.ts:1191`) | turns answered with a local terminal message are released (`openai.ts:1942`, 1819, 2169, 2365) |

More that the models show and no run states:

* Session and aliases of a conversation share its coordinates (`openai.ts:2008`), and
  `abandonTurn` tombstones the row of one object only. After a turn that failed
  through one object another continues the conversation with the half-turn in it,
  for instance when the client tries again under an older
  `previous_response_id`, against the same comment at `openai.ts:1191`. In
  `ChatSession` this is `SiblingTurn` followed by a turn with `started`;
  `CleanContinuation` is stated of an object's own turns for this reason.
* A refresh compares the route and then awaits `encryptJSON` inside
  `upsertAccount` (`tenant-state.ts:1626`, 1186); its transaction does not compare
  again. A fail-over or a deletion in between is overtaken, and a deleted account
  is stored anew, against the comment at `tenant-state.ts:1623` ("Never persist
  or return credentials for an account that has since gone to sleep"). In
  `CredentialStore`: `RefreshOk`, `DeleteAccount`, `RefreshStore`.
* `reportAccountSuccess` compares the account id and no epoch: when the route has
  come round to the account, a late success erases a failure confirmed after it
  began (`tenant-state.ts:846`).
* The refresh alarm reports its failure without an epoch, so a rejection from an
  old tenure can isolate a re-authorised account in its new one
  (`tenant-state.ts:678`).
* `acquire` checks an alias's fixed expiry before its lease: a turn that runs over
  the seventh day of its alias loses row and lease to the next request
  (`chat-session.ts:510`). `SessionLeaseHeld` excepts aliases for this.
* An account failure of the tool router ends in `abandon`, which leaves the session
  locked to the failed account with nothing to rebind (`openai.ts:1956`, against
  the comment at `chat-session.ts:995`).
* A failed `seed` cannot remove its alias when a client that knows the response id
  from `response.created` has leased it already (`chat-session.ts:1150`, against
  the comment at 407). `Lasting` excepts it as an orphan.
* One request can have three accounts' credentials loaded: `selectAccount`'s own
  fail-over and that of `exchange` are counted separately (`openai.ts:1079`; the
  comment at `tenant-state.ts:757` says "Never expose a third account to the same
  request").
* Deletion or import of an account drops the gate row of a running call, and a
  second call of the account may start beside it (`tenant-state.ts:1484`, 1409;
  `README.md:64` says that calls of one account are globally serialised).
  `SerialCalls` excepts it through the history variable `wiped`.
* The revision restarts when a deleted account is stored again, and the late end
  of a KV write of its first life deletes the second life's job: the mirror stays
  stale (`tenant-state.ts:1213`, 601; `README.md:32` says that KV holds the same ciphertext).
  `MirrorTrue` excepts it through `crossed`.
* The round limit counts the whole chain of `previous_response_id`, not the turn
  (`openai.ts:312`): a long chain ends in a refusal that only a new conversation lifts.
* In a chain without a pending call a finished pair that the client replays is
  counted on top of the snapshot (`tool-ledger.ts:512`, against the comment at
  `openai.ts:2085`); the model's honest clients do so only when nothing was
  restored.
* After an abandoned turn the row is empty: a chain is answered 404
  (`openai.ts:2278`), a keyed client has to replay the call together with its
  output. Such a pair is accepted whenever nothing is pending (`openai.ts:2085`), also
  after a turn that consumed it; `ToolOutputOnce` speaks of results sent alone.
* A stateless Responses request that finds no session has its whole history
  counted (`openai.ts:594`): the limits of a turn then apply to all tasks
  together, and a call the user once abandoned is pending again, so an honest
  client is refused with 409 until it drops history. `HonestNotRefused` names the
  exception.
* In a chain a repeated failure blocks the reply to that report only, and the last
  two distinct failures of an action are remembered (`tool-ledger.ts:669`). A
  snapshot's `failed` never goes back: a task that once failed and then succeeded
  is not called complete in a chain.
* A Responses handler that fails after the bridge took over is recorded as
  complete with status 200: the bridge has no tracker (`openai.ts:2412`; the
  comment at `request-metrics.ts:190` wants the true end). `TerminalTruth` names
  the exception.
* A client that leaves a bridged or adapted stream after the layer has drained the
  source, or before the bridge has a reader, leaves its turn committed: the
  cancellation no longer reaches the pump. `UnseenDiscarded` is therefore stated of
  direct streams.
* A seeded alias outlives the abandon of its turn. Statistics of a deleted
  account can be counted again by a record that had looked it up before
  (`tenant-state.ts:942`), and a record whose RPC fails is not sent again.

## 7. Plan

Done: `AccountRouting`, `UpstreamGate`, `ChatSession`, `CredentialStore`,
`AliasRegistry`, `ChatHub` with `Invocation`, `ToolLedger`, `Delivery` and their
runs; every invariant and action property of theirs proved, and the refinement
of `Invocation`. Left, in this order:

1. An abstract `SerialAccess` specification that UpstreamGate implements.
2. `Exchange`: one request across session, route and gate, where the assumptions the
   modules make of each other become properties.
3. Administration (one-shot OAuth state, sessions, API keys), migration
   (nonce, receipt, replay), the diagnostics ring, the relay's nonce cache.
