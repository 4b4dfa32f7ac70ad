----------------------------- MODULE ChatSession -----------------------------
(***************************************************************************)
(* One ChatSession Durable Object (src/src/chat-session.ts) and the        *)
(* requests that use it (chatCompletions, responsesCore, their streams and *)
(* exchange in src/src/openai.ts).                                         *)
(*                                                                         *)
(* The object keeps one row: the coordinates of a Microsoft conversation,  *)
(* the account it belongs to, and a lease that keeps concurrent turns of   *)
(* the session apart.  A request acquires the lease, settles its account,  *)
(* submits the turn upstream, and then completes, releases or abandons it. *)
(* A stream's cancellation abandons the turn from the side, by an RPC that *)
(* may arrive at any later time.                                           *)
(*                                                                         *)
(* A request stands for the lease UUID it draws, so it starts again only   *)
(* when no row and no message names it.  A conversation is a pair of       *)
(* coordinates; what Microsoft holds of it is in convs.  A Responses turn  *)
(* seeds an alias with the coordinates of the object it ran in, so a       *)
(* conversation may be shared with other objects; what they do to it is    *)
(* SiblingTurn.  Prompts, task anchors, the portable tail and the ledger   *)
(* are payload and left out.  Instants are modelled by what is left of     *)
(* them, see AccountRouting.                                               *)
(***************************************************************************)
EXTENDS Integers

CONSTANTS
    Accounts, NoAccount,
    Requests, NoRequest,   \* NoRequest is the empty lease id ''
    Convs, NoConv,         \* pairs of conversation and session ids
    LeaseTime,             \* CHAT_LEASE_MS, 15 min
    RequestLimit,          \* LOGICAL_REQUEST_TIMEOUT_MS, 10 min
    SessionTtl,            \* SESSION_TTL_MS, 30 days
    AliasTtl               \* RESPONSE_ALIAS_TTL_MS, 7 days

ASSUME SessionConstants ==
    /\ NoAccount \notin Accounts
    /\ NoRequest \notin Requests
    /\ NoConv \notin Convs
    /\ RequestLimit \in Nat \ {0}
    /\ LeaseTime \in Nat /\ LeaseTime > RequestLimit
    /\ SessionTtl \in Nat /\ SessionTtl > LeaseTime
    /\ AliasTtl \in Nat /\ AliasTtl > LeaseTime

VARIABLES
    row,      \* table state (its singleton row), see Row
    reqs,     \* the requests, see Request
    convs     \* the conversations at Microsoft, see Conversation

vars == <<row, reqs, convs>>

Row == [kind : {"none", "session", "alias"},  \* record_kind; "none": no row
        conv : Convs \cup {NoConv},
        account : Accounts \cup {NoAccount},
        locked : BOOLEAN, committed : BOOLEAN,
        pending : BOOLEAN,                    \* pending_call_id # ''
        lease : Requests \cup {NoRequest},
        completed : Requests \cup {NoRequest},
        leaseLeft : 0..LeaseTime,
        ttl : Nat,                            \* of stateExpiry
        consumed : BOOLEAN]  \* history: a turn with the call's output committed

Request == [pc : {"idle", "leased", "bound", "submitted", "answered", "committed"},
            conv : Convs \cup {NoConv}, account : Accounts \cup {NoAccount},
            started : BOOLEAN, locked : BOOLEAN,
            pending : BOOLEAN,     \* lease.pendingCallId # ''
            output : {"none", "result", "pair"},  \* the tool output it carries:
                                   \* alone, or with its function_call beside it
            failedOver : BOOLEAN,  \* attemptedAccounts has two members
            alias : BOOLEAN,       \* history: acquired on an alias row
            cancel : {"no", "sent", "done"},   \* the stream's abandon() RPC
            left : 0..RequestLimit]

Conversation == [owner : Accounts \cup {NoAccount}, \* whose account committed it
                 taint : {"clean", "open", "fault", "terminal", "lost"},
                 shared : BOOLEAN,    \* another object has these coordinates
                 sibling : BOOLEAN]   \* and left a turn uncommitted in it
    \* taint is about the last turn this object submitted.  clean: committed;
    \* otherwise it is open, ended in an account failure or in a local terminal
    \* message, or the Worker never learned its end.

NoRow == [kind |-> "none", conv |-> NoConv, account |-> NoAccount, locked |-> FALSE,
          committed |-> FALSE, pending |-> FALSE, lease |-> NoRequest,
          completed |-> NoRequest, leaseLeft |-> 0, ttl |-> 0,
          consumed |-> FALSE]

Idle == [pc |-> "idle", conv |-> NoConv, account |-> NoAccount, started |-> FALSE,
         locked |-> FALSE, pending |-> FALSE, output |-> "none", failedOver |-> FALSE,
         alias |-> FALSE, cancel |-> "no", left |-> 0]

Blank == [owner |-> NoAccount, taint |-> "clean", shared |-> FALSE, sibling |-> FALSE]

Init ==
    /\ row = NoRow
    /\ reqs = [r \in Requests |-> Idle]
    /\ convs = [x \in Convs |-> Blank]

-----------------------------------------------------------------------------
(* The row.                                                                *)

\* updated_at = now; an alias keeps the expiry it was seeded with.
Touch(rw) == [rw EXCEPT !.ttl = IF rw.kind = "session" THEN SessionTtl ELSE @]

\* release.
Released(rw, r) ==
    IF rw.lease # r THEN rw
    ELSE [Touch(rw) EXCEPT !.lease = NoRequest, !.leaseLeft = 0]

\* Mutant: abandon releases the lease and keeps the committed coordinates.
AbandonedKeepsCommitted(rw, r, detach) == Released(rw, r)

\* abandonTurn, of the turn that holds the lease or that completed last.
Abandoned(rw, r, detach) ==
    IF ~(rw.lease = r \/ (rw.lease = NoRequest /\ rw.completed = r)) THEN rw
    ELSE [Touch(rw) EXCEPT
            !.lease = NoRequest, !.leaseLeft = 0, !.completed = NoRequest,
            !.committed = FALSE, !.pending = FALSE,
            !.account = IF detach THEN NoAccount ELSE @,
            !.locked = IF detach THEN FALSE ELSE @]

\* Mutant: the pending call survives the turn that answers it.
CompletedKeepsPending(rw, r, conv) ==
    [Touch(rw) EXCEPT !.lease = NoRequest, !.leaseLeft = 0, !.completed = r,
                      !.conv = conv, !.committed = TRUE, !.locked = TRUE]

\* commitCompleted, of the turn that holds the lease.
Completed(rw, r, conv) ==
    [Touch(rw) EXCEPT !.lease = NoRequest, !.leaseLeft = 0, !.completed = r,
                      !.conv = conv, !.committed = TRUE, !.locked = TRUE,
                      !.pending = FALSE]

\* Mutant: the coordinates of the failed account stay.
SwitchedKeepsConv(rw, a, x) == [Touch(rw) EXCEPT !.account = a]

\* switchUncommittedAccount: another account and new coordinates.
Switched(rw, a, x) == [Touch(rw) EXCEPT !.account = a, !.conv = x]

\* Mutant: the busy check is gone.
BusyNever(rw) == FALSE

\* acquire throws CONVERSATION_BUSY.
Busy(rw) == rw.leaseLeft > 0

\* The row acquire goes on with: an expired one is deleted, whoever holds it.
Current(rw) == IF rw.kind # "none" /\ rw.ttl > 0 THEN rw ELSE NoRow

\* crypto.randomUUID: coordinates nobody refers to.
FreshConvs == {x \in Convs : x # row.conv /\ \A r \in Requests : x # reqs[r].conv}

\* Conversations become cs; those nobody refers to any more are forgotten.
Know(cs) ==
    convs' = [x \in Convs |-> IF x = row'.conv \/ \E r \in Requests : x = reqs'[r].conv
                              THEN cs[x] ELSE Blank]

\* No row and no message is left of an earlier life of r.
Unused(r) ==
    reqs[r].pc = "idle" /\ reqs[r].cancel # "sent" /\ row.lease # r /\ row.completed # r

-----------------------------------------------------------------------------
(* Requests.                                                               *)

\* acquire, on behalf of request r; x is the fresh pair of coordinates.
Acquire(r, output, x) ==
    LET old  == Current(row)
        conv == IF old.committed THEN old.conv ELSE x
        account == IF old.committed \/ old.locked THEN old.account ELSE NoAccount
    IN  /\ Unused(r)
        /\ ~Busy(old)
        /\ row' = Touch([old EXCEPT
                     !.kind = IF @ = "alias" THEN "alias" ELSE "session",
                     !.conv = conv, !.account = account,
                     !.lease = r, !.leaseLeft = LeaseTime,
                     !.completed = NoRequest])
        /\ reqs' = [reqs EXCEPT ![r] = [Idle EXCEPT
                     !.pc = "leased", !.conv = conv, !.account = account, !.started = old.committed,
                     !.locked = old.locked, !.pending = old.pending, !.output = output,
                     !.alias = old.kind = "alias", !.left = RequestLimit]]
        /\ Know(convs)

\* What a request is when it is over; a stream's abandon() may be on its way.
Over(q) == [Idle EXCEPT !.cancel = IF q.cancel = "sent" THEN "sent" ELSE "no"]

\* The request is answered with an error before an account is chosen: unknown
\* previous response, unexpected tool output, ledger or prompt refused.
Reject(r) ==
    /\ reqs[r].pc = "leased"
    /\ row' = Released(row, r)
    /\ reqs' = [reqs EXCEPT ![r] = Over(@)]
    /\ Know(convs)

\* responsesContinuationOutputIssue and toolLedgerPreflight, of the pending call
\* that acquire reported: it needs its output; without one, an output is
\* accepted only with the call it belongs to beside it.
OutputExpected(r) ==
    IF reqs[r].pending THEN reqs[r].output # "none" ELSE reqs[r].output # "result"

\* accountForLease: selectAccount answers a, the account that owns the route
\* (see AccountRouting).  It is bound when the lease has no account yet.
BindAccount(r, a) ==
    LET q == reqs[r]
    IN  /\ q.pc = "leased" /\ OutputExpected(r)
        /\ q.account \in {NoAccount, a}
        /\ q.account = NoAccount => row.lease = r
        /\ row' = IF q.account = NoAccount THEN [Touch(row) EXCEPT !.account = a] ELSE row
        /\ reqs' = [reqs EXCEPT ![r].pc = "bound", ![r].account = a]
        /\ Know(convs)

\* Mutant: the session moves and takes its coordinates along.
RebindAccountKeepsConv(r, a, x) ==
    LET q == reqs[r]
    IN  /\ q.pc = "leased" /\ OutputExpected(r)
        /\ q.account # NoAccount /\ q.started /\ q.locked
        /\ a # q.account
        /\ row.lease = r
        /\ row' = [Touch(row) EXCEPT !.account = a]
        /\ reqs' = [reqs EXCEPT ![r].pc = "bound", ![r].account = a]
        /\ Know(convs)

\* accountForLease: rebindCommittedAccount moves a committed session to the
\* account a that owns the route, with fresh coordinates.
RebindAccount(r, a, x) ==
    LET q == reqs[r]
    IN  /\ q.pc = "leased" /\ OutputExpected(r)
        /\ q.account # NoAccount /\ q.started /\ q.locked
        /\ a # q.account
        /\ row.lease = r /\ row.account = q.account /\ row.committed /\ row.locked
        /\ row' = [Touch(row) EXCEPT !.conv = x, !.account = a, !.committed = FALSE,
                                     !.locked = FALSE, !.completed = NoRequest]
        /\ reqs' = [reqs EXCEPT ![r].pc = "bound", ![r].conv = x, ![r].account = a,
                                ![r].started = FALSE, ![r].locked = FALSE]
        /\ Know(convs)

\* accountForLease throws: no account, the session's account sleeps and the
\* session cannot move, or the lease is stale.
NoAccountForLease(r, a) ==
    LET q == reqs[r]
        stale == row.lease # r /\ q.account # a
        stuck == q.account \notin {NoAccount, a} /\ ~(q.started /\ q.locked)
    IN  /\ q.pc = "leased" /\ OutputExpected(r)
        /\ a = NoAccount \/ stale \/ stuck
        /\ row' = Released(row, r)
        /\ reqs' = [reqs EXCEPT ![r] = Over(@)]
        /\ Know(convs)

\* durableChatHub hands the turn to Microsoft, unless the signal is aborted.
Submit(r) ==
    /\ reqs[r].pc = "bound" /\ reqs[r].cancel = "no"
    /\ reqs' = [reqs EXCEPT ![r].pc = "submitted"]
    /\ convs' = [convs EXCEPT ![reqs[r].conv].taint = "open"]
    /\ UNCHANGED row

\* The runner's answer comes back; durableChatHub looks at the signal again.
Answer(r) ==
    /\ reqs[r].pc = "submitted" /\ reqs[r].cancel = "no"
    /\ reqs' = [reqs EXCEPT ![r].pc = "answered"]
    /\ UNCHANGED row /\ Know(convs)

\* exchange: a failure the next account may repair; switchUncommittedAccount.
\* After submission only an empty quota answer is such a failure.
FailOver(r, a, x) ==
    LET q == reqs[r]
    IN  /\ q.pc \in {"bound", "submitted"}
        /\ ~q.started /\ ~q.locked /\ ~q.failedOver
        /\ a # q.account
        /\ row.lease = r /\ row.account = q.account /\ ~row.committed /\ ~row.locked
        /\ row' = Switched(row, a, x)
        /\ reqs' = [reqs EXCEPT ![r].pc = "bound", ![r].conv = x, ![r].account = a,
                                ![r].failedOver = TRUE]
        /\ Know(convs)

\* exchange: failed before submission; release, and the caller's abandon
\* finds nothing.
FailUnsubmitted(r) ==
    /\ reqs[r].pc = "bound"
    /\ row' = Released(row, r)
    /\ reqs' = [reqs EXCEPT ![r] = Over(@)]
    /\ Know(convs)

\* exchange: failed after submission; abandonFailedUpstream.
FailSubmitted(r) ==
    /\ reqs[r].pc = "submitted"
    /\ row' = Abandoned(row, r, TRUE)
    /\ reqs' = [reqs EXCEPT ![r] = Over(@)]
    /\ Know([convs EXCEPT ![reqs[r].conv].taint = "fault"])

\* exchange: an RPC of its own fails after submission.  The error does not
\* say that the turn was submitted, so the lease is released.
LoseAnswer(r) ==
    /\ reqs[r].pc = "submitted"
    /\ row' = Released(row, r)
    /\ reqs' = [reqs EXCEPT ![r] = Over(@)]
    /\ Know([convs EXCEPT ![reqs[r].conv].taint = "lost"])

\* The turn ends in a local terminal message; release.
Terminal(r) ==
    /\ reqs[r].pc = "answered"
    /\ row' = Released(row, r)
    /\ reqs' = [reqs EXCEPT ![r] = Over(@)]
    /\ Know([convs EXCEPT ![reqs[r].conv].taint = "terminal"])

\* Routing or a guard fails, or the client of a plain request has hung up:
\* abandonUnseenTurn.  fault: the tool router met an account failure.
AbandonUnseen(r, fault) ==
    /\ reqs[r].pc \in {"answered", "committed"}
    /\ fault => reqs[r].pc = "answered"
    /\ row' = Abandoned(row, r, FALSE)
    /\ reqs' = [reqs EXCEPT ![r] = Over(@)]
    /\ Know(IF fault THEN [convs EXCEPT ![reqs[r].conv].taint = "fault"] ELSE convs)

\* completeFinalTurn: completeFinal commits the turn and frees the lease.  shares:
\* of a Responses turn, whose seedAlias hands the coordinates to an alias next.
Complete(r, shares) ==
    LET q == reqs[r]
    IN  /\ q.pc = "answered"
        /\ row.lease = r /\ row.account = q.account
        /\ row' = [Completed(row, r, q.conv) EXCEPT
                     !.consumed = @ \/ (q.pending /\ q.output # "none")]
        /\ reqs' = [reqs EXCEPT ![r] = [Over(q) EXCEPT !.pc = "committed", !.left = q.left]]
        /\ Know([convs EXCEPT ![q.conv].owner = q.account, ![q.conv].taint = "clean",
                               ![q.conv].shared = @ \/ shares])

\* completeFinal throws: the lease or the account is another's.
CompleteStale(r) ==
    /\ reqs[r].pc = "answered"
    /\ row.lease # r \/ row.account # reqs[r].account
    /\ row' = Abandoned(row, r, FALSE)
    /\ reqs' = [reqs EXCEPT ![r] = Over(@)]
    /\ Know(convs)

\* The response has been sent.
Deliver(r) ==
    /\ reqs[r].pc = "committed"
    /\ reqs' = [reqs EXCEPT ![r] = Over(@)]
    /\ UNCHANGED row /\ Know(convs)

\* The Worker is gone; nothing ends the turn but the lease's expiry.
Crash(r) ==
    /\ reqs[r].pc # "idle"
    /\ reqs' = [reqs EXCEPT ![r] = Over(@)]
    /\ UNCHANGED row
    /\ Know(IF reqs[r].pc \in {"submitted", "answered"}
            THEN [convs EXCEPT ![reqs[r].conv].taint = "lost"] ELSE convs)

\* The client of a stream hangs up: abortAndRelease calls abandon().
CancelStream(r) ==
    /\ reqs[r].pc \in {"bound", "submitted", "answered", "committed"}
    /\ reqs[r].cancel = "no"
    /\ reqs' = [reqs EXCEPT ![r].cancel = "sent"]
    /\ UNCHANGED row /\ Know(convs)

\* Its abandon() arrives, perhaps when the request is long over.
AbandonArrives(r) ==
    /\ reqs[r].cancel = "sent"
    /\ row' = Abandoned(row, r, FALSE)
    /\ reqs' = [reqs EXCEPT ![r].cancel = IF reqs[r].pc = "idle" THEN "no" ELSE "done"]
    /\ Know(convs)

-----------------------------------------------------------------------------
(* Aliases, expiry and time.                                               *)

\* seed: a turn that another object completed makes this object its alias, with
\* that object's coordinates x.
Seed(x, a, pending) ==
    /\ Current(row).kind = "none"
    /\ row' = [NoRow EXCEPT !.conv = x, !.kind = "alias", !.account = a, !.locked = TRUE,
                               !.committed = TRUE, !.pending = pending, !.ttl = AliasTtl]
    /\ UNCHANGED reqs
    /\ Know([convs EXCEPT ![x].owner = a, ![x].shared = TRUE])

\* Another object with the coordinates x submits a turn and does not commit it.
SiblingTurn(x) ==
    /\ convs[x].shared /\ ~convs[x].sibling
    /\ convs' = [convs EXCEPT ![x].sibling = TRUE]
    /\ UNCHANGED <<row, reqs>>

\* evictResponseAlias, when the registry is full or seed could not register.
Evict ==
    /\ row.kind = "alias" /\ row.leaseLeft = 0
    /\ row' = NoRow
    /\ UNCHANGED reqs /\ Know(convs)

\* alarm: expireIfIdle.
ExpireIfIdle ==
    /\ row.kind # "none" /\ row.leaseLeft = 0 /\ row.ttl = 0
    /\ row' = NoRow
    /\ UNCHANGED reqs /\ Know(convs)

Elapse(n) == IF n > 0 THEN n - 1 ELSE 0

\* One unit passes.  Every request is over RequestLimit after it began.
Tick ==
    /\ \A r \in Requests : reqs[r].pc # "idle" => reqs[r].left > 0
    /\ row' = [row EXCEPT !.leaseLeft = Elapse(@), !.ttl = Elapse(@)]
    /\ reqs' = [r \in Requests |-> [reqs[r] EXCEPT !.left = Elapse(@)]]
    /\ Know(convs)

RequestStep(r) ==
    \/ \E output \in {"none", "result", "pair"}, x \in FreshConvs : Acquire(r, output, x)
    \/ Reject(r)
    \/ \E a \in Accounts : BindAccount(r, a)
    \/ \E a \in Accounts, x \in FreshConvs : RebindAccount(r, a, x)
    \/ \E a \in Accounts \cup {NoAccount} : NoAccountForLease(r, a)
    \/ Submit(r)
    \/ Answer(r)
    \/ \E a \in Accounts, x \in FreshConvs : FailOver(r, a, x)
    \/ FailUnsubmitted(r)
    \/ FailSubmitted(r)
    \/ LoseAnswer(r)
    \/ Terminal(r)
    \/ \E fault \in BOOLEAN : AbandonUnseen(r, fault)
    \/ \E shares \in BOOLEAN : Complete(r, shares)
    \/ CompleteStale(r)
    \/ Deliver(r)
    \/ Crash(r)
    \/ CancelStream(r)
    \/ AbandonArrives(r)

ObjectStep ==
    \/ \E x \in FreshConvs, a \in Accounts, pending \in BOOLEAN : Seed(x, a, pending)
    \/ \E x \in Convs : SiblingTurn(x)
    \/ Evict
    \/ ExpireIfIdle
    \/ Tick

Next == (\E r \in Requests : RequestStep(r)) \/ ObjectStep

Spec == Init /\ [][Next]_vars

-----------------------------------------------------------------------------
(* Properties.                                                             *)

\* The state has its types, and the row is one that the conditional updates of
\* the next turn know: a committed conversation is locked to an account.
TypeOK ==
    /\ row \in Row
    /\ row.kind = "none" => row = NoRow
    /\ row.committed => row.locked /\ row.account # NoAccount /\ row.conv # NoConv
    /\ reqs \in [Requests -> Request]
    /\ convs \in [Convs -> Conversation]

\* r is in its turn and has not been cancelled from the side.
InTurn(r) ==
    /\ reqs[r].pc \in {"leased", "bound", "submitted", "answered"}
    /\ reqs[r].cancel # "done"

\* Turns of a session exclude each other: a request in its turn holds the
\* lease, and no other request, late abandon(), eviction or expiry takes it
\* (acquire, abandonTurn, expireIfIdle).  Alias rows are excepted: acquire looks
\* at their fixed expiry before it looks at the lease.
SessionLeaseHeld ==
    \A r \in Requests : InTurn(r) /\ ~reqs[r].alias => row.lease = r

\* What a request knows of its session stays true while it holds the lease:
\* coordinates, account, and whether they are committed, through binding,
\* rebinding and fail-over.
LeaseAgrees ==
    \A r \in Requests :
        InTurn(r) /\ row.lease = r =>
            /\ row.conv = reqs[r].conv
            /\ row.account = reqs[r].account
            /\ row.committed = reqs[r].started
            /\ row.locked = reqs[r].locked

\* Request r submits its turn to an existing conversation in this step.
Continues(r) ==
    reqs[r].pc = "bound" /\ reqs'[r].pc = "submitted" /\ reqs[r].started

\* A conversation is only continued on the account that it was committed with:
\* Microsoft's coordinates never travel to another account
\* (rebindCommittedAccount, switchUncommittedAccount, commitCompleted).
CoordinatesBelong ==
    [][\A r \in Requests :
         Continues(r) => convs[reqs[r].conv].owner = reqs[r].account]_vars

\* A turn of this object that failed with an account failure, was cancelled or
\* was abandoned after it had reached Microsoft is never continued from through
\* this object: its next turn starts a new conversation, whichever RPC arrives
\* first (abandonTurn, acquire).  Not covered, because the code goes on from
\* them: turns whose end the Worker never learned ("lost": LoseAnswer, Crash),
\* local terminal messages (TerminalTombstoned), and turns of other objects with
\* the same coordinates (SiblingTurn: abandonTurn clears committed in one row only).
CleanContinuation ==
    [][\A r \in Requests :
         Continues(r) => convs[reqs[r].conv].taint \notin {"open", "fault"}]_vars

\* The output of a pending call, sent alone, is committed at most once, and not
\* after a turn that brought call and output together: the row that waits is
\* told apart from the one that has been answered across releases, abandons and
\* retries (responsesContinuationOutputIssue, commitCompleted, abandonTurn).  A
\* pair of call and output is self-contained; the code accepts it again.
ToolOutputOnce ==
    [][\A r \in Requests :
         /\ reqs[r].output = "result"
         /\ reqs[r].pc = "answered" /\ reqs'[r].pc = "committed"
         => ~row.consumed]_vars

(* What the repository says of this code that does not hold of it.         *)

\* "a normal release would silently continue from polluted upstream state next
\* round" (exchange): a turn that ended in a local terminal message after it
\* had reached Microsoft is not continued from either.
TerminalTombstoned ==
    [][\A r \in Requests :
         Continues(r) => convs[reqs[r].conv].taint # "terminal"]_vars
=============================================================================
