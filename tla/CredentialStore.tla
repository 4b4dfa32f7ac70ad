--------------------------- MODULE CredentialStore ---------------------------
(***************************************************************************)
(* The credential of one account in the TenantState Durable Object         *)
(* (src/src/tenant-state.ts): the authoritative ciphertext in its row, the *)
(* encrypted mirror in KV, the durable jobs that bring the mirror up to    *)
(* date, and the token refresh.                                            *)
(*                                                                         *)
(* Accounts share nothing here but the alarm, which works through them one *)
(* after the other, and the route, of which only active is seen (see       *)
(* AccountRouting).  A ciphertext is the number of the token it contains,  *)
(* given when it is stored.                                                *)
(* An action is what the object does between two awaits that leave it; the *)
(* operations of an account wait for each other in a chain of promises,    *)
(* and the head of an idle chain begins before any other event.            *)
(***************************************************************************)
EXTENDS Integers, Sequences

CONSTANTS
    Keys, NoKey,   \* random KV keys; NoKey is ''
    MaxToken       \* bound on the tokens Microsoft issues

ASSUME CredentialConstants ==
    /\ NoKey \notin Keys
    /\ MaxToken \in Nat \ {0}

VARIABLES
    acct,     \* the row in table accounts, see AccountRow
    job,      \* the row in credential_mirror_queue, see MirrorJob
    gone,     \* kv_key of the row in credential_mirror_deletions, or NoKey
    kv,       \* SENSITIVE_KV: the token under a key, or NoToken
    chain,    \* credentialMirrorInFlight: the operations, first to last
    call,     \* the KV call the head of chain waits for, see KvCall
    active,   \* the account owns the route
    refresh,  \* refreshInFlight: waits for Microsoft, encryptJSON, the mirror
    legacy,   \* key of the KV read of a legacy row, or NoKey
    import,   \* an import has committed and waits for its turn to mirror
    alarm,    \* what the running alarm does for the account
    armed,    \* an alarm is set for the account's job or deletion
    issued,   \* tokens issued by Microsoft so far
    crossed   \* history: a job was taken for done by an earlier row's write

vars == <<acct, job, gone, kv, chain, call, active, refresh, legacy, import,
          alarm, armed, issued, crossed>>
rows == <<acct, job, gone>>
tasks == <<refresh, legacy, import, alarm>>

NoToken == 0
Tokens == 1..MaxToken

\* A legacy row is "kv": its ciphertext is a pointer to a KV key.
AccountRow == [form : {"none", "kv", "inline"}, token : Tokens \cup {NoToken},
               rev : Nat, key : Keys \cup {NoKey}]
MirrorJob == [rev : Nat, key : Keys \cup {NoKey}]
Operation == [kind : {"put", "delete"}, by : {"admin", "import", "refresh", "alarm"}]
KvCall == [kind : {"none", "put", "delete"}, key : Keys \cup {NoKey},
           token : Tokens \cup {NoToken}, rev : Nat]

NoRow == [form |-> "none", token |-> NoToken, rev |-> 0, key |-> NoKey]
NoJob == [rev |-> 0, key |-> NoKey]
NoCall == [kind |-> "none", key |-> NoKey, token |-> NoToken, rev |-> 0]

Stored == acct.form # "none"
Pending == job # NoJob \/ gone # NoKey

\* Without an account, or with one that an earlier release stored: as a
\* pointer to KV, or as a ciphertext that was never mirrored.
Init ==
    /\ \/ acct = NoRow /\ issued = 0
       \/ /\ issued = 1
          /\ \E k \in Keys :
               acct \in {[form |-> "kv", token |-> NoToken, rev |-> 0, key |-> k],
                         [form |-> "inline", token |-> 1, rev |-> 0, key |-> NoKey]}
    /\ kv = [k \in Keys |-> IF acct.form = "kv" /\ acct.key = k THEN 1 ELSE NoToken]
    /\ job = NoJob /\ gone = NoKey
    /\ chain = <<>> /\ call = NoCall
    /\ active \in {FALSE, Stored}
    /\ refresh = "none" /\ legacy = NoKey /\ import = FALSE /\ alarm = "idle"
    /\ armed = FALSE
    /\ crossed = FALSE

-----------------------------------------------------------------------------
(* The chain of mirror operations.                                         *)

\* The head of the chain has not begun.
Due == chain # <<>> /\ call = NoCall

\* enqueueCredentialMirrorOperation
Enqueue(kind, by) == chain' = Append(chain, [kind |-> kind, by |-> by])

\* The head is through, but no alarm is scheduled for what is left.
FinishUnscheduled ==
    /\ chain' = Tail(chain)
    /\ call' = NoCall
    /\ refresh' = IF Head(chain).by = "refresh" THEN "none" ELSE refresh
    /\ alarm' = IF Head(chain).by = "alarm" THEN "idle" ELSE alarm
    /\ UNCHANGED <<legacy, import, armed>>

\* The head is through, whether it succeeded or not.  Whoever enqueued it goes
\* on and schedules the next alarm (scheduleNextAlarm).
Finish ==
    /\ chain' = Tail(chain)
    /\ call' = NoCall
    /\ refresh' = IF Head(chain).by = "refresh" THEN "none" ELSE refresh
    /\ alarm' = IF Head(chain).by = "alarm" THEN "idle" ELSE alarm
    /\ armed' = Pending'
    /\ UNCHANGED <<legacy, import>>

\* flushCredentialMirror up to its KV write: a job that is not of the current
\* revision is dropped.
FlushMirror ==
    /\ Due /\ Head(chain).kind = "put"
    /\ IF job # NoJob /\ Stored /\ acct.rev = job.rev
       THEN /\ call' = [kind |-> "put", key |-> job.key, token |-> acct.token, rev |-> job.rev]
            /\ UNCHANGED <<rows, chain, tasks, armed>>
       ELSE /\ job' = NoJob
            /\ UNCHANGED <<acct, gone>>
            /\ Finish
    /\ UNCHANGED <<kv, active, issued, crossed>>

\* flushCredentialDeletion up to its KV call.  The row of an account that was
\* stored again is dropped: its mirror must stay.
FlushDeletion ==
    /\ Due /\ Head(chain).kind = "delete"
    /\ IF gone # NoKey /\ ~Stored
       THEN /\ call' = [NoCall EXCEPT !.kind = "delete", !.key = gone]
            /\ UNCHANGED <<rows, chain, tasks, armed>>
       ELSE /\ gone' = NoKey
            /\ UNCHANGED <<acct, job>>
            /\ Finish
    /\ UNCHANGED <<kv, active, issued, crossed>>

\* The KV call takes effect.
Applied == [kv EXCEPT ![call.key] = call.token]

\* A job is done by any write.
JobDoneAlways(j, c) == NoJob

\* DELETE ... WHERE revision=?
JobDone(j, c) == IF j.rev = c.rev THEN NoJob ELSE j

\* The KV write succeeds and its job, or the deletion, is done.
PutOk ==
    /\ call.kind = "put"
    /\ kv' = Applied
    /\ job' = JobDone(job, call)
    /\ crossed' = (crossed \/ (job.rev = call.rev /\ acct.token # call.token))
    /\ UNCHANGED <<acct, gone, active, issued>>
    /\ Finish

DeleteOk ==
    /\ call.kind = "delete"
    /\ kv' = Applied
    /\ gone' = NoKey
    /\ UNCHANGED <<acct, job, active, issued, crossed>>
    /\ Finish

\* The KV call is reported as failed, though it may have taken effect; the row
\* stays for a later attempt (deferCredentialMirror).
KvFail ==
    /\ call # NoCall
    /\ kv' \in {kv, Applied}
    /\ UNCHANGED rows
    /\ Finish
    /\ UNCHANGED <<active, issued, crossed>>

\* The alarm goes off and reads what is due.
AlarmFires ==
    /\ armed /\ alarm = "idle"
    /\ armed' = FALSE
    /\ alarm' = IF gone # NoKey THEN "delete" ELSE IF job # NoJob THEN "put" ELSE "idle"
    /\ UNCHANGED <<rows, kv, chain, call, active, refresh, legacy, import, issued, crossed>>

\* It is the account's turn.
AlarmFlush ==
    /\ alarm \in {"put", "delete"}
    /\ Enqueue(alarm, "alarm")
    /\ alarm' = "chained"
    /\ UNCHANGED <<rows, kv, call, active, refresh, legacy, import, armed, issued, crossed>>

-----------------------------------------------------------------------------
(* The row.                                                                *)

\* A key nobody knows, as randomToken draws it.
Unknown(k) == kv[k] = NoToken /\ k \notin {acct.key, job.key, gone, call.key, legacy}

\* The key upsertAccount and importAccountMigration give the row: its own, or
\* the one of a deletion that has not run yet, or a new one.
RowKey(k) ==
    CASE acct.key # NoKey -> k = acct.key
      [] acct.key = NoKey /\ gone # NoKey -> k = gone
      [] OTHER -> Unknown(k)

\* The transaction of upsertAccount and importAccountMigration: ciphertext and
\* job commit together, and a pending deletion is dropped.
Store(token, k) ==
    /\ RowKey(k)
    /\ acct' = [form |-> "inline", token |-> token, rev |-> acct.rev + 1, key |-> k]
    /\ job' = [rev |-> acct.rev + 1, key |-> k]
    /\ gone' = NoKey
    /\ armed' = TRUE
    /\ crossed' = FALSE

\* The OAuth callback stores a new grant (upsertAccount); the account may find
\* the route free.
Authorize(k) ==
    /\ issued < MaxToken
    /\ issued' = issued + 1
    /\ Store(issued + 1, k)
    /\ active' \in {active, TRUE}
    /\ Enqueue("put", "admin")
    /\ UNCHANGED <<kv, call, tasks>>

\* importAccountMigration commits the whole batch, then mirrors one account
\* after the other.
ImportMigration(k) ==
    /\ ~import
    /\ issued < MaxToken
    /\ issued' = issued + 1
    /\ Store(issued + 1, k)
    /\ active' \in BOOLEAN
    /\ import' = TRUE
    /\ UNCHANGED <<kv, chain, call, refresh, legacy, alarm>>

ImportFlush ==
    /\ import
    /\ import' = FALSE
    /\ Enqueue("put", "import")
    /\ UNCHANGED <<rows, kv, call, active, refresh, legacy, alarm, armed, issued, crossed>>

\* deleteAccount, keeping the mirror job.
DeleteAccountKeepsJob(k) ==
    /\ Stored
    /\ IF acct.key # NoKey THEN k = acct.key ELSE Unknown(k)
    /\ acct' = NoRow /\ gone' = k
    /\ active' = FALSE /\ armed' = TRUE
    /\ Enqueue("delete", "admin")
    /\ UNCHANGED <<job, kv, call, tasks, issued, crossed>>

\* deleteAccount; a row without a key gets a new one for its deletion.
DeleteAccount(k) ==
    /\ Stored
    /\ IF acct.key # NoKey THEN k = acct.key ELSE Unknown(k)
    /\ acct' = NoRow /\ job' = NoJob /\ gone' = k
    /\ active' = FALSE /\ armed' = TRUE
    /\ Enqueue("delete", "admin")
    /\ crossed' = FALSE
    /\ UNCHANGED <<kv, call, tasks, issued>>

\* readAccountToken of a row that an earlier release stored without a mirror.
AdoptInline(k) ==
    /\ active /\ acct.form = "inline" /\ acct.key = NoKey
    /\ Unknown(k)
    /\ acct' = [acct EXCEPT !.rev = 1, !.key = k]
    /\ job' = [rev |-> 1, key |-> k]
    /\ armed' = TRUE
    /\ Enqueue("put", "admin")
    /\ UNCHANGED <<gone, kv, call, active, tasks, issued, crossed>>

\* readAccountToken of a legacy pointer begins its KV read.
ReadLegacy ==
    /\ active /\ acct.form = "kv" /\ legacy = NoKey
    /\ legacy' = acct.key
    /\ UNCHANGED <<rows, kv, chain, call, active, refresh, import, alarm, armed, issued, crossed>>

\* An empty answer of KV is not told apart.
AdoptLegacyEmpty ==
    /\ legacy # NoKey
    /\ legacy' = NoKey
    /\ \E read \in {kv[legacy], NoToken} :
         IF acct.form = "kv" /\ acct.key = legacy
         THEN /\ acct' = [acct EXCEPT !.form = "inline", !.token = read, !.rev = 1]
              /\ gone' = NoKey
         ELSE UNCHANGED <<acct, gone>>
    /\ UNCHANGED <<job, kv, chain, call, active, refresh, import, alarm, armed, issued, crossed>>

\* The ciphertext replaces the pointer, unless the row has changed meanwhile or
\* KV shows nothing (ACCOUNT_CREDENTIAL_MIRROR_UNAVAILABLE).
AdoptLegacy ==
    /\ legacy # NoKey
    /\ legacy' = NoKey
    /\ \E read \in {kv[legacy], NoToken} :
         IF read # NoToken /\ acct.form = "kv" /\ acct.key = legacy
         THEN /\ acct' = [acct EXCEPT !.form = "inline", !.token = read, !.rev = 1]
              /\ gone' = NoKey
         ELSE UNCHANGED <<acct, gone>>
    /\ UNCHANGED <<job, kv, chain, call, active, refresh, import, alarm, armed, issued, crossed>>

-----------------------------------------------------------------------------
(* The token refresh (ensureValidAccount).                                 *)

BeginRefresh ==
    /\ active /\ refresh = "none"
    /\ acct.form = "inline" /\ acct.key # NoKey
    /\ refresh' = "asking"
    /\ UNCHANGED <<rows, kv, chain, call, active, legacy, import, alarm, armed, issued, crossed>>

\* Microsoft answered while the account owns the route; upsertAccount begins and
\* awaits encryptJSON.
RefreshOk ==
    /\ refresh = "asking" /\ active
    /\ refresh' = "encrypting"
    /\ UNCHANGED <<rows, kv, chain, call, active, legacy, import, alarm, armed, issued, crossed>>

\* The transaction of upsertAccount, which does not look at the route again: an
\* account that was deleted meanwhile is stored anew, and may find the route free
\* (ensureActiveAccountRoute).
RefreshStore(k) ==
    /\ refresh = "encrypting"
    /\ issued < MaxToken
    /\ issued' = issued + 1
    /\ Store(issued + 1, k)
    /\ active' \in {active, TRUE}
    /\ refresh' = "storing"
    /\ Enqueue("put", "refresh")
    /\ UNCHANGED <<kv, call, legacy, import, alarm>>

\* Microsoft refused, the account has lost the route meanwhile, or it was deleted
\* and there is no room for it any more (ACCOUNT_LIMIT_REACHED).
RefreshVoid ==
    /\ refresh = "asking" \/ (refresh = "encrypting" /\ ~Stored)
    /\ refresh' = "none"
    /\ UNCHANGED <<rows, kv, chain, call, active, legacy, import, alarm, armed, issued, crossed>>

-----------------------------------------------------------------------------

\* The route comes to the account or leaves it (AccountRouting).
RouteMoves ==
    /\ Stored
    /\ active' = ~active
    /\ UNCHANGED <<rows, kv, chain, call, tasks, armed, issued, crossed>>

\* The object is evicted and activated again: what it waited for is forgotten,
\* the KV call may have been received, and migrate() arms the alarm.
Restart ==
    /\ kv' \in IF call = NoCall THEN {kv} ELSE {kv, Applied}
    /\ chain' = <<>> /\ call' = NoCall
    /\ refresh' = "none" /\ legacy' = NoKey /\ import' = FALSE /\ alarm' = "idle"
    /\ armed' = Pending
    /\ UNCHANGED <<rows, active, issued, crossed>>

ChainStep == FlushMirror \/ FlushDeletion \/ PutOk \/ DeleteOk \/ KvFail

ObjectStep ==
    \/ AlarmFires
    \/ AlarmFlush
    \/ \E k \in Keys : Authorize(k) \/ ImportMigration(k) \/ DeleteAccount(k) \/ AdoptInline(k)
    \/ ImportFlush
    \/ ReadLegacy
    \/ AdoptLegacy
    \/ BeginRefresh
    \/ RefreshOk
    \/ \E k \in Keys : RefreshStore(k)
    \/ RefreshVoid
    \/ RouteMoves
    \/ Restart

Next == ChainStep \/ (~Due /\ ObjectStep)

Spec == Init /\ [][Next]_vars

\* The object runs what it has begun, its alarm goes off, and KV does not fail
\* for ever.
Fairness ==
    /\ WF_vars(FlushMirror \/ FlushDeletion)
    /\ SF_vars(PutOk \/ DeleteOk)
    /\ WF_vars(KvFail)
    /\ SF_vars(~Due /\ AlarmFlush)
    /\ WF_vars(~Due /\ ImportFlush)
    /\ SF_vars(~Due /\ AlarmFires)

FairSpec == Spec /\ Fairness

-----------------------------------------------------------------------------
(* Properties.                                                             *)

\* Types of rows, mirror and suspended work; a ciphertext in a row or on its
\* way to KV is never empty.
TypeOK ==
    /\ acct \in AccountRow
    /\ acct.form = "inline" <=> acct.token # NoToken
    /\ call.kind = "put" <=> call.token # NoToken
    /\ job \in MirrorJob
    /\ gone \in Keys \cup {NoKey}
    /\ kv \in [Keys -> Tokens \cup {NoToken}]
    /\ chain \in Seq(Operation)
    /\ call \in KvCall
    /\ active \in BOOLEAN
    /\ refresh \in {"none", "asking", "encrypting", "storing"}
    /\ legacy \in Keys \cup {NoKey}
    /\ import \in BOOLEAN
    /\ alarm \in {"idle", "put", "delete", "chained"}
    /\ armed \in BOOLEAN
    /\ issued \in 0..MaxToken
    /\ crossed \in BOOLEAN

\* A job and a deletion never contradict each other or the row: a job is of
\* the row's own revision and key, a deletion is of an account that is not
\* stored (upsertAccount, deleteAccount, readAccountToken).
JobsAgree ==
    /\ job # NoJob => acct.form = "inline" /\ job = [rev |-> acct.rev, key |-> acct.key]
    /\ gone # NoKey => ~Stored
    /\ active => Stored

\* What KV should hold.
Mirrored ==
    [k \in Keys |-> IF Stored /\ acct.key = k
                    THEN IF acct.form = "kv" THEN 1 ELSE acct.token
                    ELSE NoToken]

\* Nothing is left to do.
Quiet == ~Pending /\ call = NoCall

\* When nothing is left to do, KV holds the account's current ciphertext under
\* its key and nothing else, through failed and repeated writes, deletions,
\* re-authorisations and evictions: the mirror is not stale and no credential
\* outlives its account.  A write that was under way when the account was
\* deleted and stored again is excepted: the revision starts at 1 again, and
\* the end of the earlier write takes the new row's job for its own.
MirrorTrue == Quiet /\ ~crossed => kv = Mirrored

\* Every write and every deletion that is due is done in the end, though the
\* object may be evicted again and again (alarm, scheduleNextAlarm, migrate).
MirrorSettles == Pending ~> ~Pending
=============================================================================
