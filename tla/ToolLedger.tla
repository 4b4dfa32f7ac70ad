----------------------------- MODULE ToolLedger -----------------------------
(***************************************************************************)
(* Loop protection and completion evidence (tool-ledger.ts,                *)
(* completion-evidence.ts and their callers in openai.ts).                 *)
(*                                                                         *)
(* One conversation.  The gateway never runs a tool: it hands a call to    *)
(* the client, and learns the result from the client's next request.  In   *)
(* the modes "chat" (Chat Completions) and "keyed" (stateless Responses,   *)
(* whose session is found by a key) every request carries the history      *)
(* again.  In mode "chain" (previous_response_id) the alias row keeps the  *)
(* pending call and a snapshot without arguments and results, from which   *)
(* the ledger of the next request is rebuilt.                              *)
(***************************************************************************)
EXTENDS Naturals, Sequences, FiniteSets, SequencesExt

CONSTANTS
    Prints,          \* fingerprints: a tool name with canonical arguments
    Failures,        \* normalised error texts
    Actions,         \* operation classes with evidence of their own
    ActionOf,        \* the class of a fingerprint, or NoAction
    MaxToolRounds, MaxConsecutive, MaxOccurrences,
    SnapshotLimit,   \* entries of a snapshot
    FailureMemory,   \* failures remembered per entry
    EvidenceLimit,   \* messages considered as completion evidence
    MaxUsers,        \* bound: user messages of the modelled conversation
    MaxItems         \* bound: its items

NoPrint == "no print"
NoFailure == "no failure"
NoAction == "no action"
Verify == "verify"
Complete == "complete"

\* The limits of the code are 32, 2 and 8, 32 entries, 2 failures, 96 messages.
ASSUME LedgerAssumption ==
    /\ {MaxToolRounds, MaxConsecutive, MaxOccurrences} \subseteq Nat \ {0}
    /\ {SnapshotLimit, FailureMemory, EvidenceLimit, MaxUsers, MaxItems} \subseteq Nat
    /\ SnapshotLimit >= MaxToolRounds
    /\ EvidenceLimit > 2 * MaxToolRounds
    /\ ActionOf \in [Prints -> Actions \cup {NoAction}]
    /\ Complete \notin Actions
    /\ Failures \cap {"ok", NoFailure} = {}

VARIABLES
    mode,     \* "chat", "keyed" or "chain"
    session,  \* what the next Responses request finds: lease.started
    items,    \* the conversation as the client has it
    row,      \* the alias row: pending call and snapshot ("chain")
    turn,     \* whose move it is: "client" or "gateway"
    ledger,   \* the ledger of the request being answered
    reply,    \* the last thing the gateway sent, and what it asserted
    ran,      \* history: the executions, in order, and the calls they were of
    asked     \* history: how many executions precede the user's last message

vars == <<mode, session, items, row, turn, ledger, reply, ran, asked>>

-----------------------------------------------------------------------------
(* Items of a conversation.                                                *)

User(continues) == [kind |-> "user", continues |-> continues]
Call(id, p) == [kind |-> "call", id |-> id, print |-> p]
Result(id, o) == [kind |-> "result", id |-> id, outcome |-> o]

Outcomes == {"ok"} \cup Failures

IsUser(item) == item.kind = "user"
IsResult(item) == item.kind = "result"

LastOf(s, n) == SubSeq(s, IF Len(s) > n THEN Len(s) - n + 1 ELSE 1, Len(s))
Times(s, p) == Cardinality({i \in DOMAIN s : s[i].print = p})

\* activePromptItems of a session that continues, and activeChatMessages: the
\* turn that is under way.
ActiveItems(s) == SubSeq(s, SelectLastInSeq(s, IsUser) + 1, Len(s))

-----------------------------------------------------------------------------
(* Building a ledger.                                                      *)

EmptyState ==
    [calls |-> <<>>, pending |-> {}, consumed |-> {}, completed |-> <<>>,
     signatures |-> {}, issues |-> {}, last |-> NoPrint, run |-> 0]

AddIssues(s, codes, id, p) ==
    [s EXCEPT !.issues = @ \cup {[code |-> c, id |-> id, print |-> p] : c \in codes}]

PendingPrints(s) ==
    {s.calls[i].print : i \in {j \in DOMAIN s.calls : s.calls[j].id \in s.pending}}

RegisterCall(s, id, p) ==
    LET run == IF s.last = p THEN s.run + 1 ELSE 1
        repeated ==
            IF Times(s.completed, p) >= MaxOccurrences
            THEN {"completed_call_reissued"}
            ELSE IF p \in PendingPrints(s) THEN {"duplicate_pending_call"} ELSE {}
        consecutive == IF run > MaxConsecutive
                       THEN {"consecutive_fingerprint_limit"} ELSE {}
        rounds == IF Len(s.calls) + 1 > MaxToolRounds
                  THEN {"tool_round_limit"} ELSE {}
    IN  IF id \in s.consumed \/ \E i \in DOMAIN s.calls : s.calls[i].id = id
        THEN AddIssues(s, {"duplicate_call_id"}, id, NoPrint)
        ELSE AddIssues([s EXCEPT !.calls = Append(@, [id |-> id, print |-> p]),
                                 !.pending = @ \cup {id},
                                 !.last = p, !.run = run],
                       repeated \cup consecutive \cup rounds, id, p)

ConsumeResult(s, id, o) ==
    IF id \in s.consumed THEN AddIssues(s, {"call_id_already_consumed"}, id, NoPrint)
    ELSE IF id \notin s.pending THEN AddIssues(s, {"unknown_call_id"}, id, NoPrint)
    ELSE LET p == s.calls[CHOOSE i \in DOMAIN s.calls : s.calls[i].id = id].print
             failed == o \in Failures
             again == failed /\ <<p, o>> \in s.signatures
         IN  AddIssues([s EXCEPT
                 !.pending = @ \ {id},
                 !.consumed = @ \cup {id},
                 !.signatures = IF failed THEN @ \cup {<<p, o>>} ELSE @,
                 !.completed = Append(@, [print |-> p, failed |-> failed,
                                 failure |-> IF failed THEN o ELSE NoFailure])],
                 IF again THEN {"repeated_failure"} ELSE {}, id, p)

AddItem(s, item) ==
    CASE item.kind = "call" -> RegisterCall(s, item.id, item.print)
      [] item.kind = "result" -> ConsumeResult(s, item.id, item.outcome)
      [] OTHER -> s

AddItems(s, input) ==
    LET after[i \in 0..Len(input)] ==
            IF i = 0 THEN s ELSE AddItem(after[i - 1], input[i])
    IN  after[Len(input)]

\* The executions an entry stands for.
Restored(e) ==
    [i \in 1..e.count |->
        [print |-> e.print, failed |-> e.failed,
         failure |-> IF i <= Len(e.failures) THEN e.failures[i] ELSE NoFailure]]

\* Bug for a mutant: the reload forgets the failures.
SnapshotWithoutFailures(s, e) ==
    [s EXCEPT !.calls = @ \o [i \in 1..e.count |-> [id |-> 0, print |-> e.print]],
              !.completed = @ \o Restored(e),
              !.consumed = @ \cup {0}]

\* Their calls have a synthetic id, 0; last and run stay as they are.
AddSnapshot(s, e) ==
    [s EXCEPT !.calls = @ \o [i \in 1..e.count |-> [id |-> 0, print |-> e.print]],
              !.completed = @ \o Restored(e),
              !.consumed = @ \cup {0},
              !.signatures = @ \cup {<<e.print, f>> : f \in ToSet(e.failures)}]

\* addCompletedSnapshots, on an empty state.
AddCompletedSnapshots(snapshot) ==
    LET after[i \in 0..Len(snapshot)] ==
            IF i = 0 THEN EmptyState ELSE AddSnapshot(after[i - 1], snapshot[i])
    IN  after[Len(snapshot)]

NoCall == [id |-> 0, print |-> NoPrint]
EmptyRow == [pending |-> NoCall, snapshot |-> <<>>]

\* parseResponsesToolLedger; parseChatToolLedger is the same without a row.
ParseToolLedger(r, active) ==
    LET restored == AddCompletedSnapshots(r.snapshot)
        seeded == IF r.pending = NoCall THEN restored
                  ELSE RegisterCall(restored, r.pending.id, r.pending.print)
    IN  AddItems(seeded, active)

NoEntry == [print |-> NoPrint, failed |-> FALSE, count |-> 0, failures |-> <<>>]

\* The failures of an entry, the earliest first, without repetition.
Remembered(old, item) ==
    LET known == item.failure = NoFailure \/ Contains(old.failures, item.failure)
    IN  LastOf(IF known THEN old.failures ELSE Append(old.failures, item.failure),
               FailureMemory)

\* Bugs for mutants: an entry counts one execution, or one success clears it.
MergedOnce(old, item) ==
    [print |-> item.print, failed |-> old.failed \/ item.failed,
     count |-> 1, failures |-> Remembered(old, item)]

MergedLastOnly(old, item) ==
    [print |-> item.print, failed |-> item.failed /\ (old = NoEntry \/ old.failed),
     count |-> old.count + 1, failures |-> Remembered(old, item)]

Merged(old, item) ==
    [print |-> item.print, failed |-> old.failed \/ item.failed,
     count |-> old.count + 1, failures |-> Remembered(old, item)]

\* One entry per fingerprint, in the order of the last completion.
NoteCompleted(entries, item) ==
    LET old == {i \in DOMAIN entries : entries[i].print = item.print}
        at == CHOOSE i \in old : TRUE
    IN  IF old = {} THEN Append(entries, Merged(NoEntry, item))
        ELSE Append(RemoveAt(entries, at), Merged(entries[at], item))

Noted(completed) ==
    LET after[i \in 0..Len(completed)] ==
            IF i = 0 THEN <<>> ELSE NoteCompleted(after[i - 1], completed[i])
    IN  after[Len(completed)]

\* Bug for a mutant: one entry is kept.
LatestSnapshot(completed) == LastOf(Noted(completed), 1)

CompletedToolSnapshots(completed) == LastOf(Noted(completed), SnapshotLimit)

-----------------------------------------------------------------------------
(* What a request may say, and whether it is let through.                  *)

\* responsesContinuationOutputIssue: the pending result once, and around it
\* only earlier complete pairs; without a pending call complete pairs only.
OutputsFit(r, input) ==
    LET results == {i \in DOMAIN input : IsResult(input[i])}
        Paired(i) == \E j \in 1..(i - 1) :
                        input[j].kind = "call" /\ input[j].id = input[i].id
        matching == {i \in results : input[i].id = r.pending.id}
    IN  IF r.pending = NoCall THEN \A i \in results : Paired(i)
        ELSE \E m \in matching :
                /\ matching = {m}
                /\ \A i \in results \ {m} : Paired(i) /\ i < m

\* A Responses request that finds no session it continues is read in full;
\* parseChatToolLedger cuts at the last user message in any case.
Whole == mode # "chat" /\ session # "started"

\* selectActiveResponsesInput: with a pending call only its result counts, of
\* which OutputsFit admits one.
ActiveInput(r, input) ==
    IF Whole THEN input
    ELSE IF r.pending = NoCall THEN ActiveItems(input)
    ELSE LET matching == {i \in DOMAIN input :
                             IsResult(input[i]) /\ input[i].id = r.pending.id}
         IN  IF matching = {} THEN <<>> ELSE <<input[Min(matching)]>>

\* recoverRepeatedPendingProposal: pending calls of an action that repeated
\* its failure.  Finding one ends the request with a local answer.
Recoverable(l) ==
    {id \in l.pending :
        \E q \in l.issues :
            /\ q.id = id
            /\ q.code \in {"completed_call_reissued", "consecutive_fingerprint_limit"}
            /\ \E f \in l.issues : f.code = "repeated_failure" /\ f.print = q.print}

\* toolLedgerPreflight.
Blocked(l) ==
    \/ \E q \in l.issues : q.code # "repeated_failure"
    \/ l.pending # {}

TrailingRun(calls, p) ==
    Cardinality({i \in DOMAIN calls : \A j \in i..Len(calls) : calls[j].print = p})

\* Bug for a mutant: repetitions in a row are not counted.
GuardIgnoresRuns(l, p) ==
    IF Len(l.calls) + 1 > MaxToolRounds THEN "limit"
    ELSE IF \/ \E q \in l.issues : q.code = "repeated_failure" /\ q.print = p
            \/ Times(l.completed, p) >= MaxOccurrences
         THEN "recoverable" ELSE "allowed"

\* guardProposedToolCalls for one proposal, on a ledger that passed the
\* preflight; "recoverable" is recoverableToolGuardCode.
GuardProposedToolCall(l, p) ==
    IF Len(l.calls) + 1 > MaxToolRounds THEN "limit"
    ELSE IF \/ \E q \in l.issues : q.code = "repeated_failure" /\ q.print = p
            \/ Times(l.completed, p) >= MaxOccurrences
            \/ TrailingRun(l.calls, p) + 1 > MaxConsecutive
         THEN "recoverable" ELSE "allowed"

-----------------------------------------------------------------------------
(* Completion evidence.                                                    *)

\* selectChatCompletionEvidenceMessages: back to the last user message that
\* is more than "continue", at most EvidenceLimit messages.
EvidenceItems(s) ==
    LET tasks == {i \in DOMAIN s : IsUser(s[i]) /\ ~s[i].continues}
        users == {i \in DOMAIN s : IsUser(s[i])}
        start == IF tasks # {} THEN Max(tasks) ELSE IF users # {} THEN Min(users) ELSE 1
    IN  LastOf(SubSeq(s, start, Len(s)), EvidenceLimit)

\* The ledger of the prose guard: for Responses it is the request's own.
CompletionLedger ==
    IF mode # "chat" THEN ledger
    ELSE ParseToolLedger(EmptyRow, EvidenceItems(items))

\* hasToolContext, of a request that offers tools or not.
HasToolContext(l, tools) ==
    tools \/ l.calls # <<>> \/ l.completed # <<>> \/ l.pending # {}

Classified(s, a) == {i \in DOMAIN s : ActionOf[s[i].print] = a}

Latest(s, a, i) == i \in Classified(s, a) /\ \A j \in Classified(s, a) : j <= i

LatestSucceeds(s, a) == \E i \in DOMAIN s : Latest(s, a, i) /\ ~s[i].failed

\* genericCompletionSupported.
GenericSupported(s) ==
    /\ \A i \in Classified(s, NoAction) : ~s[i].failed
    /\ \E a \in Actions \ {Verify} : LatestSucceeds(s, a)
    /\ \A a \in Actions : Classified(s, a) # {} => LatestSucceeds(s, a)

\* evaluateCompletionEvidence: every claim needs support, and none has any
\* while a call is pending.
ClaimsSupported(l, claims) ==
    \A c \in claims :
        /\ l.pending = {}
        /\ IF c = Complete THEN GenericSupported(l.completed)
           ELSE LatestSucceeds(l.completed, c)

-----------------------------------------------------------------------------
(* The client.                                                             *)

Init ==
    /\ mode \in {"chat", "keyed", "chain"}
    /\ session = "new"
    /\ items = <<User(FALSE)>>
    /\ row = EmptyRow
    /\ turn = "client"
    /\ ledger = EmptyState
    /\ reply = [kind |-> "none", claims |-> {}, honest |-> TRUE]
    /\ ran = <<>>
    /\ asked = 0

OpenCall == Last(items).kind = "call"

RunTool(o) ==
    /\ turn = "client" /\ OpenCall
    /\ items' = Append(items, Result(Last(items).id, o))
    /\ ran' = Append(ran, [call |-> Last(items).id, print |-> Last(items).print,
                            outcome |-> o])
    /\ UNCHANGED <<mode, session, row, turn, ledger, reply, asked>>

\* A new message.  In a chain the client first returns a pending result.
NewUser(continues) ==
    /\ turn = "client"
    /\ Len(items) < MaxItems /\ Len(SelectSeq(items, IsUser)) < MaxUsers
    /\ OpenCall => mode # "chain"
    /\ items' = Append(items, User(continues))
    /\ asked' = Len(ran)
    /\ UNCHANGED <<mode, session, row, turn, ledger, reply, ran>>

\* The row is emptied or gone.  A key then finds a new session; an alias that
\* is lost is only asked for once more.
SessionLost ==
    /\ session' = IF mode = "chain" /\ session = "started" THEN "lost" ELSE "new"
    /\ row' = EmptyRow

\* The session expires or is evicted between two requests, or the client has
\* none to name: it sends no key, or another one.
SessionGoes ==
    /\ turn = "client" /\ session = "started"
    /\ SessionLost
    /\ UNCHANGED <<mode, items, turn, ledger, reply, ran, asked>>

\* What the client was given and did, in full or, in a chain, what is new:
\* the pending result if there is one, and what the user said.
HonestInputs ==
    LET Fresh(j) ==
            /\ \A k \in j..Len(items) : items[k].kind # "call"
            /\ (row.pending # NoCall) = \E k \in j..Len(items) : IsResult(items[k])
        suffixes == {SubSeq(items, j, Len(items)) : j \in {k \in DOMAIN items : Fresh(k)}}
    IN  {s \in {items} \cup (IF mode # "chain" \/ Whole THEN {} ELSE suffixes) : ~OpenCall}

\* A result twice, one of an unknown call, a call of the client's own, and a
\* request that leaves out the result or the history.  Without a session and
\* without the history it would be another conversation.
FaultyInputs ==
    {Append(items, item) : item \in {Last(items), Result(MaxItems + 1, "ok")}
                              \cup {Call(MaxItems + 1, p) : p \in Prints}}
    \cup (IF Whole THEN {} ELSE {<<Last(items)>>})
    \cup {s \in {Front(items)} : IsResult(Last(items))}

\* chatCompletions and responsesCore up to the preflight.  A refused request
\* releases the lease and leaves the row as it is.  A previous response that is
\* gone is answered 404, and the client goes on without its id.  It does not
\* send an answered request again.
Request(input, honest) ==
    LET l == ParseToolLedger(row, ActiveInput(row, input))
        fits == \/ mode = "chat"
                \/ \A i \in DOMAIN input : ~IsResult(input[i])
                \/ OutputsFit(row, input)
        verdict == IF session = "lost" THEN "gone"
                   ELSE IF ~fits THEN "refused"
                   ELSE IF Recoverable(l) # {} THEN "stopped"
                   ELSE IF Blocked(l) THEN "refused" ELSE "none"
    IN  /\ turn = "client"
        /\ reply.kind \in {"answer", "prose"} => IsUser(Last(items))
        /\ reply' = [kind |-> verdict, claims |-> {}, honest |-> honest]
        /\ session' = IF session = "lost" THEN "new" ELSE session
        /\ turn' = IF verdict = "none" THEN "gateway" ELSE "client"
        /\ ledger' = IF verdict = "none" THEN l ELSE EmptyState
        /\ UNCHANGED <<mode, items, row, ran, asked>>

-----------------------------------------------------------------------------
(* The gateway answers.                                                    *)

Answered(kind, claims) ==
    /\ turn = "gateway"
    /\ turn' = "client"
    /\ ledger' = EmptyState
    /\ reply' = [kind |-> kind, claims |-> claims, honest |-> TRUE]

\* The turn is committed; seedAlias: the row of the new response, to which only
\* a chain returns.
SeedAlias(call) ==
    /\ session' = IF mode = "chat" THEN session ELSE "started"
    /\ row' = IF mode # "chain" THEN EmptyRow
              ELSE [pending |-> call,
                    snapshot |-> CompletedToolSnapshots(ledger.completed)]

\* The model's proposal, or the router's after a refused one, is handed out.
HandOut(p) ==
    LET id == Len(items) + 1
    IN  /\ Len(items) < MaxItems
        /\ Answered("call", {})
        /\ GuardProposedToolCall(ledger, p) = "allowed"
        /\ items' = Append(items, Call(id, p))
        /\ SeedAlias([id |-> id, print |-> p])
        /\ UNCHANGED <<mode, ran, asked>>

\* The proposal is refused and the router finds no other: a terminal message,
\* the lease is released.
StopLoop(p) ==
    /\ Answered("stopped", {})
    /\ GuardProposedToolCall(ledger, p) # "allowed"
    /\ UNCHANGED <<mode, session, items, row, ran, asked>>

\* Other local endings: the client's tool channel is gone, or a call that was
\* required did not come.
EndLocally ==
    /\ Answered("stopped", {})
    /\ UNCHANGED <<mode, session, items, row, ran, asked>>

\* An answer in prose (guardAssistantCompletion).  In the context of tools the
\* claims it makes without support are replaced by a fixed text; otherwise it
\* is handed on as it is.
Answer(claims, tools) ==
    /\ IF HasToolContext(CompletionLedger, tools)
       THEN Answered("answer", IF ClaimsSupported(CompletionLedger, claims)
                               THEN claims ELSE {})
       ELSE Answered("prose", claims)
    /\ SeedAlias(NoCall)
    /\ UNCHANGED <<mode, items, ran, asked>>

\* The exchange fails: before anything reached Microsoft the row stays as it
\* is, afterwards abandonTurn empties it.
TurnFails(submitted) ==
    /\ Answered("failed", {})
    /\ IF submitted THEN SessionLost ELSE UNCHANGED <<session, row>>
    /\ UNCHANGED <<mode, items, ran, asked>>

Claims == (SUBSET Actions) \cup {{Complete}}

ClientStep ==
    \/ \E o \in Outcomes : RunTool(o)
    \/ \E continues \in BOOLEAN : NewUser(continues)
    \/ SessionGoes
    \/ \E input \in HonestInputs : Request(input, TRUE)
    \/ \E input \in FaultyInputs \ HonestInputs : Request(input, FALSE)

GatewayStep ==
    \/ \E p \in Prints : HandOut(p) \/ StopLoop(p)
    \/ EndLocally
    \/ \E claims \in Claims, tools \in BOOLEAN : Answer(claims, tools)
    \/ \E submitted \in BOOLEAN : TurnFails(submitted)

Next == ClientStep \/ GatewayStep

Spec == Init /\ [][Next]_vars

-----------------------------------------------------------------------------
(* Properties.                                                             *)

\* The executions that count against the limits: since the user's last message
\* or, in a chain, since the conversation began.
mark == IF mode = "chain" THEN 0 ELSE asked
Scope == SubSeq(ran, mark + 1, Len(ran))

\* The executions the ledger has to know.
Covered == IF Whole THEN ran ELSE Scope

\* A ledger that passes the preflight counts every execution exactly once,
\* whether it was rebuilt from a snapshot, replayed by the client or both,
\* whatever a faulty request added or left out, and also when a request that
\* finds no session replays the tasks before this one.
LedgerTrue ==
    turn = "gateway" =>
        /\ ledger.pending = {}
        /\ Len(ledger.calls) = Len(Covered)
        /\ \A p \in Prints : Times(ledger.completed, p) = Times(Covered, p)

\* A sequence of executions within the limits.
WithinLimits(s) ==
    /\ Len(s) <= MaxToolRounds
    /\ \A p \in Prints : Times(s, p) <= MaxOccurrences
    /\ \A i \in DOMAIN s :
          i + MaxConsecutive \in DOMAIN s =>
              \E j \in i..(i + MaxConsecutive) : s[j].print # s[i].print

\* A call after which the user spoke before its result was there.
Abandoned ==
    \E i \in 1..(Len(items) - 1) : items[i].kind = "call" /\ IsUser(items[i + 1])

\* The guard of one turn and the parser of the next agree: a client that only
\* returns the results of the calls it was handed is not refused by the
\* preflight.  The exception is a stateless Responses request that finds no
\* session: its limits then count all tasks of the conversation together, and
\* a call the user once abandoned is pending again.
HonestNotRefused ==
    reply.kind = "refused" /\ reply.honest =>
        /\ mode = "keyed" /\ Whole
        /\ Abandoned \/ ~WithinLimits(ran)

\* A model that never stops proposing is stopped: rounds, executions of one
\* action and uninterrupted repetitions stay bounded although a chain keeps
\* nothing but snapshots of fingerprints and may lose them.
LoopBounded == WithinLimits(Scope)

FailedAt(p, f, i) == Scope[i].print = p /\ Scope[i].outcome = f

\* How the executions of an action failed.
FailuresOf(p) == {f \in Failures : \E i \in DOMAIN Scope : FailedAt(p, f, i)}

\* An action that failed the same way again is not handed out in answer to
\* that report; with the history at hand it is not handed out again at all.  A
\* chain knows it as long as the action has not failed in more ways than an
\* entry remembers.
FailureNotRetried ==
    [][\A p \in Prints, f \in Failures, i \in DOMAIN Scope :
         /\ Len(items') > Len(items) /\ Last(items') = Call(Len(items'), p)
         /\ FailedAt(p, f, i)
         /\ mode = "chain" => /\ row.pending # NoCall /\ i = Len(Scope)
                              /\ Cardinality(FailuresOf(p)) <= FailureMemory
         => \A j \in 1..(i - 1) : ~FailedAt(p, f, j)]_vars

\* A completion the client is told of happened, if its request offered tools or
\* the task has used one: the last execution of that class succeeded, and a
\* task called complete leaves no failure behind, although snapshots merge the
\* outcomes of repeated executions.
ClaimsBacked ==
    LET Succeeded(s, a) == \A i \in DOMAIN s : Latest(s, a, i) => s[i].outcome = "ok"
        task == SubSeq(ran, asked + 1, Len(ran))
    IN  reply.kind = "answer" \/ task # <<>> =>
        /\ \A c \in reply.claims \ {Complete} :
              Classified(ran, c) # {} /\ Succeeded(ran, c)
        /\ Complete \in reply.claims =>
              /\ \A a \in Actions : Succeeded(task, a)
              /\ \A i \in Classified(task, NoAction) : task[i].outcome = "ok"
=============================================================================
