------------------------------ MODULE Delivery ------------------------------
(***************************************************************************)
(* How one API request's answer reaches its client, and how its end is     *)
(* counted.                                                                *)
(*                                                                         *)
(* A streamed answer runs through several pipes, each a task of its own:   *)
(* the source (chatStream, responsesStream) whose pump ends the session's  *)
(* turn and then writes events; between it and the client nothing, the     *)
(* Anthropic adapter (streamingResponse) or the Responses bridge           *)
(* (bridgePendingResponsesStream); and outermost the monitor               *)
(* (trackStreamingResponse) that tells the RequestMetricTracker how the    *)
(* request ended.  The client may leave at any time: the runtime then      *)
(* cancels the outermost stream, and may fire request.signal too.          *)
(* The tracker's one record goes by RPC to the tenant object, where it     *)
(* meets resets of the statistics, deletions of accounts and the records   *)
(* of other requests.                                                      *)
(*                                                                         *)
(* An event is a model of one or more SSE events: "open" (role chunk,      *)
(* response.created, message_start), "beat" (heart-beat, ping), "body"     *)
(* (the answer's text or tool call), "note" (a local terminal text),       *)
(* "final" (finish_reason, response.completed, message_delta and           *)
(* message_stop), "error", "done" ([DONE]), and "start" and "stop" of an   *)
(* Anthropic content block.                                                *)
(***************************************************************************)
EXTENDS Integers, Sequences, FiniteSets

CONSTANTS
    Accounts,
    NoAccount,
    MaxRecorded,   \* MAX_RECORDED_REQUEST_IDS
    MaxBeats,      \* bound: heart-beats of one stream
    MaxRequests,   \* bound: requests, one after the other
    MaxResets      \* bound: resets of the statistics

ASSUME DeliveryAssumption ==
    /\ NoAccount \notin Accounts
    /\ MaxRecorded \in Nat \ {0}
    /\ {MaxBeats, MaxRequests, MaxResets} \subseteq Nat

VARIABLES
    id,        \* number of the request in hand; it stands for crypto.randomUUID()
    q,         \* the request in hand, with its streams and its tracker
    inflight,  \* recordRequest calls under way
    stored,    \* accounts (their ids)
    rows,      \* recorded_request_metrics, oldest first
    totals,    \* request_totals
    stats,     \* account_request_stats; a count of 0 is no row
    resets     \* history: how many resets there were

tenant == <<stored, rows, totals, stats, resets>>
vars == <<id, q, inflight, tenant>>

Kinds == {"chat", "messages", "responses", "images"}
Events == {"open", "beat", "body", "note", "final", "error", "done", "start", "stop"}
Terminals == {"complete", "error", "cancel"}

Zero == [count |-> 0, errors |-> 0]

Fresh ==
    [kind |-> "none", stream |-> FALSE, pc |-> "idle",
     turn |-> "none", seeded |-> FALSE,                     \* the session and the alias
     live |-> FALSE, src |-> <<>>, srcEnd |-> FALSE,        \* the source stream
     closed |-> FALSE, aborted |-> FALSE, cleanup |-> "no", beats |-> 0,
     layer |-> "none", out |-> <<>>, outEnd |-> FALSE,      \* adapter or bridge
     block |-> FALSE, sawTerminal |-> FALSE, cancelled |-> FALSE,
     answer |-> "none", got |-> <<>>, eof |-> FALSE, cut |-> FALSE,  \* monitor and client
     gone |-> FALSE, signal |-> FALSE,
     refused |-> FALSE,                                     \* history: an abandon failed
     account |-> NoAccount, terminal |-> "none"]            \* RequestMetricTracker

Init ==
    /\ id = 0
    /\ q = Fresh
    /\ inflight = {}
    /\ stored = {}
    /\ rows = <<>>
    /\ totals = Zero
    /\ stats = [a \in Accounts |-> Zero]
    /\ resets = 0

----------------------------------------------------------------------------
(* The tracker. *)

\* finish: the first terminal is the request's.
Finish(s, terminal) ==
    IF s.terminal = "none" THEN [s EXCEPT !.terminal = terminal] ELSE s

\* setAccountId: until the first terminal.
SetAccountId(s, a) ==
    IF s.terminal = "none" THEN [s EXCEPT !.account = a] ELSE s

\* The record that the first terminal sends off: finish dispatches it in the
\* same turn of the event loop.
Dispatched(s, next) ==
    IF s.terminal = "none" /\ next.terminal # "none"
    THEN {[id |-> id, failed |-> next.terminal # "complete",
           account |-> next.account, found |-> FALSE]}
    ELSE {}

\* A step of the request in hand.
Becomes(next) ==
    /\ q' = next
    /\ inflight' = inflight \cup Dispatched(q, next)
    /\ UNCHANGED <<id, tenant>>

----------------------------------------------------------------------------
(* The source stream. *)

Emit(s, events) == IF s.closed THEN s ELSE [s EXCEPT !.src = @ \o events]

\* Bug for a mutant: the pump ends and leaves its stream open.
FinallyOpen(s) == [Emit(s, <<"done">>) EXCEPT !.closed = TRUE, !.pc = "ended"]

\* The pump's finally: [DONE] and close, and the abort listener is disposed of.
Finally(s) ==
    [Emit(s, <<"done">>) EXCEPT !.srcEnd = TRUE, !.closed = TRUE, !.pc = "ended"]

\* abortAndRelease: abort, and abandon the turn once.
AbortAndRelease(s) ==
    [s EXCEPT !.aborted = TRUE, !.cleanup = IF @ = "no" THEN "due" ELSE @]

\* Bug for a mutant: a disconnect only closes the stream.
CloseSource(s) ==
    [Finish(s, "cancel") EXCEPT !.closed = TRUE, !.src = <<>>, !.srcEnd = TRUE]

\* cancel of a stream with a pump, as long as not everything has been read
\* from it: nothing is left to read and the turn is to be abandoned.
CancelSource(s) ==
    IF ~s.live \/ (s.srcEnd /\ s.src = <<>>)
    THEN s
    ELSE AbortAndRelease([Finish(s, "cancel") EXCEPT
                            !.closed = TRUE, !.src = <<>>, !.srcEnd = TRUE])

\* A response without a pump: JSON, whole; trackBufferedResponse.
Buffered(s, ok) ==
    Finish([s EXCEPT !.answer = "plain", !.pc = "ended"], IF ok THEN "complete" ELSE "error")

----------------------------------------------------------------------------
(* The handler up to the pump. *)

\* Nothing of the request is under way any more.
Done ==
    \/ q.kind = "none"
    \/ /\ q.pc = "ended" /\ q.terminal # "none" /\ q.cleanup # "due"
       /\ (q.answer = "plain" \/ q.eof \/ q.cut)

Start ==
    /\ Done /\ id < MaxRequests
    /\ id' = id + 1
    /\ \E kind \in Kinds, stream \in BOOLEAN :
          /\ kind = "images" => ~stream
          /\ q' = [Fresh EXCEPT !.kind = kind, !.stream = stream, !.pc = "preflight", !.turn = "held"]
    /\ UNCHANGED <<inflight, tenant>>

\* responses: the handler takes longer than STREAM_PREFLIGHT_GRACE_MS, and
\* the client gets the bridge.
GraceElapses ==
    /\ q.pc = "preflight" /\ q.kind = "responses" /\ q.stream /\ q.layer = "none"
    /\ Becomes([q EXCEPT !.layer = "bridge", !.answer = "stream"])

\* The bridge reports a handler that failed: an error event within the stream.
BridgedFailure(s) ==
    IF s.cancelled THEN s
    ELSE [s EXCEPT !.out = @ \o <<"error", "done">>, !.outEnd = TRUE]

\* The request is refused before its turn; the lease, if there is one, is released.
PreflightFails ==
    /\ q.pc = "preflight"
    /\ LET s == [q EXCEPT !.pc = "ended", !.turn = "released"]
       IN  Becomes(IF q.layer = "bridge" THEN BridgedFailure(s) ELSE Buffered(s, FALSE))

\* The layers that finish and anthropicRequest put around a stream.
Opened(s) ==
    IF s.kind = "messages"
    THEN [s EXCEPT !.layer = "adapter", !.out = IF s.signal THEN <<>> ELSE <<"open">>,
                   !.answer = "stream"]
    ELSE [s EXCEPT !.answer = "stream"]

\* The adapter's onAbort; its listener is there until its loop has ended.
AdapterAborts(s) ==
    IF s.layer = "adapter" /\ ~s.cancelled /\ ~s.outEnd
    THEN [CancelSource(Finish(s, "cancel")) EXCEPT !.cancelled = TRUE, !.outEnd = TRUE]
    ELSE s

\* localChatTerminal, localResponsesTerminal: a whole stream without a pump.
PreflightTerminal ==
    /\ q.pc = "preflight" /\ q.kind # "images"
    /\ LET s == [q EXCEPT !.pc = "ended", !.turn = "released"]
           t == Opened([s EXCEPT !.src = <<"open", "note", "final", "done">>, !.srcEnd = TRUE])
       IN  Becomes(IF ~q.stream THEN Buffered(s, TRUE)
                   ELSE IF q.signal THEN AdapterAborts(t) ELSE t)

\* accountForLease has found an account; chatStream or responsesStream starts
\* its pump, unless the answer is not streamed.
PreflightOk(a) ==
    /\ q.pc = "preflight"
    /\ LET s == [SetAccountId(q, a) EXCEPT !.pc = "turn"]
           t == Opened([s EXCEPT !.live = TRUE, !.src = <<"open">>])
       IN  Becomes(IF ~q.stream THEN s
                   ELSE IF q.signal THEN AdapterAborts(AbortAndRelease(t)) ELSE t)

----------------------------------------------------------------------------
(* The pump, and the same steps of a request that is not streamed. *)

\* exchange fails over to another account.
SwitchAccount(a) ==
    /\ q.pc = "turn" /\ a # q.account
    /\ Becomes(SetAccountId(q, a))

Heartbeat ==
    /\ q.live /\ q.pc # "ended" /\ q.beats < MaxBeats
    /\ Becomes([Emit(q, <<"beat">>) EXCEPT !.beats = @ + 1])

\* resolveAssistantTurn (or exchange, for an image) returns; a request that is
\* not streamed looks at its signal first.
TurnAnswers ==
    /\ q.pc = "turn"
    /\ Becomes([q EXCEPT !.pc = IF ~q.stream /\ q.signal THEN "caught"
                                ELSE IF q.kind = "images" THEN "release" ELSE "commit"])

TurnTerminal ==
    /\ q.pc = "turn" /\ q.kind # "images"
    /\ Becomes([q EXCEPT !.pc = "release"])

TurnFails ==
    /\ q.pc = "turn"
    /\ Becomes([q EXCEPT !.pc = "caught"])

\* completeFinal takes effect if the lease is still the turn's.
CompleteFinal ==
    /\ q.pc = "commit"
    /\ Becomes(IF q.turn = "held"
               THEN [q EXCEPT !.turn = "committed", !.pc = "committed"]
               ELSE [q EXCEPT !.pc = "caught"])

\* Bug for a mutant: the events are written before the alias is seeded.
CommittedEarly ==
    /\ q.pc = "committed"
    /\ Becomes([q EXCEPT !.pc = "deliver"])

\* Its answer arrives; a Responses turn goes on with seedAlias.
Committed ==
    /\ q.pc = "committed"
    /\ Becomes([q EXCEPT !.pc = IF q.kind = "responses" THEN "seed" ELSE "deliver"])

SeedAlias ==
    /\ q.pc = "seed"
    /\ Becomes([q EXCEPT !.seeded = TRUE, !.pc = "seeded"])

\* session.release, which does nothing for a lease that is gone.
Release ==
    /\ q.pc = "release"
    /\ Becomes([q EXCEPT !.turn = IF @ = "held" THEN "released" ELSE @, !.pc = "released"])

\* An RPC of the turn fails, before or after it took effect.
RpcFails ==
    /\ q.pc \in {"commit", "committed", "seed", "seeded", "release", "released"}
    /\ Becomes([q EXCEPT !.pc = "caught"])

\* The answer, or the local text of a turn that ended in one.
Deliver ==
    /\ q.pc \in {"deliver", "seeded", "released"}
    /\ LET text == IF q.pc = "released" THEN "note" ELSE "body"
       IN  Becomes(IF q.stream THEN Finally(Emit(q, <<text, "final">>)) ELSE Buffered(q, TRUE))

\* abandon: a turn that is under way, or was the last to complete, ends as a tombstone.
Abandoned(s) == [s EXCEPT !.turn = IF @ \in {"held", "committed"} THEN "abandoned" ELSE @]

\* Bug for a mutant: an error inside the stream is not told to the tracker.
ReportsQuietly(s) ==
    IF ~s.stream THEN Buffered(s, FALSE) ELSE Finally(Emit(s, <<"error">>))

\* The rest of the catch block after abandonUnseenTurn.
Reports(s) ==
    IF ~s.stream THEN Buffered(s, FALSE)
    ELSE Finally(Emit(Finish(s, IF s.signal \/ s.aborted THEN "cancel" ELSE "error"), <<"error">>))

\* The catch block; abandonUnseenTurn swallows its own failure.
Catch ==
    /\ q.pc = "caught"
    /\ \/ Becomes(Reports(Abandoned(q)))
       \/ Becomes(Reports([q EXCEPT !.refused = TRUE]))

\* The abandon that a cancellation scheduled; it may fail.
Cleanup ==
    /\ q.cleanup = "due"
    /\ \/ Becomes([Abandoned(q) EXCEPT !.cleanup = "done"])
       \/ Becomes([q EXCEPT !.cleanup = "done", !.refused = TRUE])

----------------------------------------------------------------------------
(* Adapter, bridge, monitor and client. *)

\* Bug for a mutant: the open block is not closed.
ConsumeUnclosed(s, e) ==
    CASE e = "beat" -> [s EXCEPT !.out = Append(@, "beat")]
      [] e \in {"body", "note"} ->
            [s EXCEPT !.out = @ \o (IF s.block THEN <<e>> ELSE <<"start", e>>), !.block = TRUE]
      [] e = "final" -> [s EXCEPT !.out = @ \o <<"final">>, !.block = FALSE, !.sawTerminal = TRUE]
      [] e = "error" -> [Finish(s, "error") EXCEPT !.out = Append(@, "error"), !.outEnd = TRUE]
      [] OTHER -> s

\* consume: what the adapter makes of one chunk.
Consume(s, e) ==
    CASE e = "beat" -> [s EXCEPT !.out = Append(@, "beat")]
      [] e \in {"body", "note"} ->
            [s EXCEPT !.out = @ \o (IF s.block THEN <<e>> ELSE <<"start", e>>), !.block = TRUE]
      [] e = "final" ->
            [s EXCEPT !.out = @ \o (IF s.block THEN <<"stop", "final">> ELSE <<"final">>),
                      !.block = FALSE, !.sawTerminal = TRUE]
      [] e = "error" -> [Finish(s, "error") EXCEPT !.out = Append(@, "error"), !.outEnd = TRUE]
      [] OTHER -> s

\* The adapter at the end of its source.
AdapterEnds(s) ==
    IF s.sawTerminal THEN [s EXCEPT !.outEnd = TRUE] ELSE Consume(s, "error")

AdapterReads ==
    /\ q.layer = "adapter" /\ ~q.cancelled /\ ~q.outEnd
    /\ \/ /\ q.src # <<>>
          /\ Becomes(Consume([q EXCEPT !.src = Tail(@)], Head(q.src)))
       \/ /\ q.src = <<>> /\ q.srcEnd
          /\ Becomes(AdapterEnds(q))

\* The bridge passes the source on.
BridgeReads ==
    /\ q.layer = "bridge" /\ ~q.cancelled /\ ~q.outEnd
    /\ \/ /\ q.src # <<>>
          /\ Becomes([q EXCEPT !.src = Tail(@), !.out = Append(@, Head(q.src))])
       \/ /\ q.src = <<>> /\ q.srcEnd
          /\ Becomes([q EXCEPT !.outEnd = TRUE])

\* pull of the monitored stream: the client gets the next event, or the end.
Pull ==
    /\ q.answer = "stream" /\ ~q.cut /\ ~q.eof
    /\ LET direct == q.layer = "none"
           pipe == IF direct THEN q.src ELSE q.out
       IN  \/ /\ pipe # <<>>
              /\ Becomes(IF direct
                         THEN [q EXCEPT !.src = Tail(@), !.got = Append(@, Head(pipe))]
                         ELSE [q EXCEPT !.out = Tail(@), !.got = Append(@, Head(pipe))])
           \/ /\ pipe = <<>> /\ (IF direct THEN q.srcEnd ELSE q.outEnd)
              /\ Becomes([Finish(q, "complete") EXCEPT !.eof = TRUE])

ClientLeaves ==
    /\ q.pc # "idle" /\ ~Done /\ ~q.gone /\ ~q.eof
    /\ Becomes([q EXCEPT !.gone = TRUE])

\* request.signal: chatStream's and the adapter's listeners.
SignalFires ==
    /\ q.gone /\ ~q.signal /\ ~Done
    /\ LET s == AdapterAborts([q EXCEPT !.signal = TRUE])
       IN  Becomes(IF q.live /\ q.pc # "ended" THEN AbortAndRelease(s) ELSE s)

\* What cancelling the monitored stream does behind it.  The bridge has no
\* reader before its handler has answered.
CancelLayer(s) ==
    CASE s.layer = "none" -> CancelSource(s)
      [] s.layer = "adapter" ->
            IF s.outEnd /\ s.out = <<>> THEN s
            ELSE [CancelSource(s) EXCEPT !.cancelled = TRUE, !.outEnd = TRUE]
      [] s.layer = "bridge" ->
            IF s.outEnd /\ s.out = <<>> THEN s
            ELSE [(IF s.pc = "preflight" THEN s ELSE CancelSource(s))
                    EXCEPT !.cancelled = TRUE, !.outEnd = TRUE]

\* The runtime cancels the outermost stream of a client that has left.
CancelArrives ==
    /\ q.gone /\ q.answer = "stream" /\ ~q.cut /\ ~q.eof
    /\ Becomes(CancelLayer([Finish(q, "cancel") EXCEPT !.cut = TRUE]))

----------------------------------------------------------------------------
(* The tenant object. *)

\* recordRequest up to its second await: the account is looked up.
RecordFinds(m) ==
    /\ ~m.found
    /\ inflight' = (inflight \ {m}) \cup
           {[m EXCEPT !.found = TRUE, !.account = IF @ \in stored THEN @ ELSE NoAccount]}
    /\ UNCHANGED <<id, q, tenant>>

Add(sum, failed) == [count |-> sum.count + 1, errors |-> sum.errors + IF failed THEN 1 ELSE 0]

Pruned(table) == IF Len(table) > MaxRecorded THEN Tail(table) ELSE table

\* The transaction of recordRequest.
Record(m) ==
    /\ m.found
    /\ inflight' = inflight \ {m}
    /\ IF \E i \in DOMAIN rows : rows[i].id = m.id
       THEN UNCHANGED <<rows, totals, stats>>
       ELSE /\ rows' = Pruned(Append(rows, [id |-> m.id, failed |-> m.failed]))
            /\ totals' = Add(totals, m.failed)
            /\ stats' = IF m.account = NoAccount THEN stats
                        ELSE [stats EXCEPT ![m.account] = Add(@, m.failed)]
    /\ UNCHANGED <<id, q, stored, resets>>

\* The RPC fails before it took effect; onRecordError only logs it.
RecordLost(m) ==
    /\ inflight' = inflight \ {m}
    /\ UNCHANGED <<id, q, tenant>>

\* Bug for a mutant: the recorded requests survive a reset.
ResetTotalsOnly ==
    /\ resets < MaxResets /\ totals # Zero
    /\ resets' = resets + 1
    /\ totals' = Zero /\ stats' = [a \in Accounts |-> Zero]
    /\ UNCHANGED <<id, q, inflight, stored, rows>>

\* A reset of statistics that are zero already does nothing.
ResetRequestStats ==
    /\ resets < MaxResets /\ totals # Zero
    /\ resets' = resets + 1
    /\ rows' = <<>> /\ totals' = Zero /\ stats' = [a \in Accounts |-> Zero]
    /\ UNCHANGED <<id, q, inflight, stored>>

StoreAccount(a) ==
    /\ a \notin stored
    /\ stored' = stored \cup {a}
    /\ UNCHANGED <<id, q, inflight, rows, totals, stats, resets>>

DeleteAccount(a) ==
    /\ a \in stored
    /\ stored' = stored \ {a}
    /\ stats' = [stats EXCEPT ![a] = Zero]
    /\ UNCHANGED <<id, q, inflight, rows, totals, resets>>

----------------------------------------------------------------------------
Handler ==
    \/ PreflightFails \/ PreflightTerminal \/ \E a \in Accounts : PreflightOk(a)
    \/ TurnAnswers \/ TurnTerminal \/ TurnFails
    \/ CompleteFinal \/ Committed \/ SeedAlias \/ Release \/ RpcFails
    \/ Deliver \/ Catch

Pipes == AdapterReads \/ BridgeReads \/ Pull

Recorder == \E m \in inflight : RecordFinds(m) \/ Record(m) \/ RecordLost(m)

Administrator ==
    \/ ResetRequestStats
    \/ \E a \in Accounts : StoreAccount(a) \/ DeleteAccount(a)

RequestStep ==
    \/ Start \/ GraceElapses \/ Handler \/ Heartbeat \/ Cleanup \/ Pipes
    \/ \E a \in Accounts : SwitchAccount(a)
    \/ ClientLeaves \/ SignalFires \/ CancelArrives

TenantStep == Recorder \/ Administrator

Next == RequestStep \/ TenantStep

Spec == Init /\ [][Next]_vars

\* Every await of the handler ends (ChatHub's call has a deadline, an RPC is
\* answered or fails), adapter and bridge move what they have, and a record is
\* dealt with.  Nothing is assumed of the client, who may stop reading (Pull)
\* without leaving, of the signal or of the cancellation.
RequestFairness ==
    /\ WF_vars(Handler) /\ WF_vars(Cleanup)
    /\ WF_vars(AdapterReads) /\ WF_vars(BridgeReads)

FairSpec == Spec /\ RequestFairness /\ WF_vars(Recorder)

----------------------------------------------------------------------------
(* Properties. *)

Got(e) == \E i \in DOMAIN q.got : q.got[i] = e

\* Types of the request in hand and of the statistics.
TypeOK ==
    /\ id \in 0..MaxRequests
    /\ q.terminal \in Terminals \cup {"none"}
    /\ q.account \in Accounts \cup {NoAccount}
    /\ {q.got, q.src, q.out} \subseteq Seq(Events)
    /\ stored \subseteq Accounts
    /\ Len(rows) <= MaxRecorded
    /\ totals.errors <= totals.count

\* What a client sees of an answer has been made durable first: an answer event
\* is only ever received when completeFinal has committed the turn and, on
\* the Responses API, the alias that previous_response_id will ask for exists
\* (the order of completeFinalTurn, seedAlias and send in the pumps), through
\* every layer and whatever cancellations run beside.
ExposedIsDurable ==
    Got("body") =>
        /\ q.turn \in {"committed", "abandoned"}
        /\ q.kind = "responses" => q.seeded

\* A client of a directly connected stream that did not see the final event,
\* because it left or because the stream ended in an error, leaves no turn
\* behind for its session to continue from, although completeFinal may have
\* taken effect before, after or between (the pump's catch block, cancel and
\* abandonTurn); an abandon whose RPC failed is the one excuse.
UnseenDiscarded ==
    /\ q.live /\ q.layer = "none" /\ q.pc = "ended" /\ (q.eof \/ q.cut)
    /\ ~Got("final") /\ q.cleanup # "due" /\ ~q.refused
    => q.turn # "committed"

\* The end that is counted is the end the client saw: "complete" only after
\* the final event and no error, "error" never with a final event, "cancel"
\* only for a client that left (RequestMetricTracker.finish called by pump,
\* adapter and monitor).  The one exception is a handler that fails behind the
\* bridge: nobody tells the tracker and the clean end counts as complete.
TerminalTruth ==
    q.stream =>
        /\ q.terminal = "complete" =>
              (IF q.layer = "bridge" /\ ~q.live /\ q.src = <<>> /\ Got("error")
               THEN q.turn = "released"
               ELSE Got("final") /\ ~Got("error"))
        /\ q.terminal = "error" => ~Got("final")
        /\ q.terminal = "cancel" => q.gone

\* Every stream is a legal one as far as it has come: a final event or an
\* error ends it but for [DONE], an Anthropic block is opened before and closed
\* after its content, and nothing else follows (send, closeBlock,
\* streamFailure and the pumps' finally).
StreamLegal ==
    \A i, j \in DOMAIN q.got : i < j =>
        /\ q.got[i] \in {"final", "error"} => q.got[j] = "done"
        /\ q.layer = "adapter" /\ q.got[j] \in {"body", "note"} /\ i = j - 1 => q.got[i] = "start"
        /\ q.layer = "adapter" /\ q.got[j] = "final" /\ i = j - 1 => q.got[i] = "stop"

\* What the accounts' rows count: a pair for each request of each account.
Attributed(field) == UNION {{a} \X (1..stats[a][field]) : a \in Accounts}

\* The three tables of the statistics agree through lost records, resets,
\* deletions and pruning: as many rows as the totals count, up to the limit,
\* the same errors, and no more on the accounts than in total (recordRequest,
\* resetRequestStats, deleteAccount).
StatsAgree ==
    /\ Len(rows) = IF totals.count < MaxRecorded THEN totals.count ELSE MaxRecorded
    /\ totals.count <= MaxRecorded =>
          totals.errors = Cardinality({i \in DOMAIN rows : rows[i].failed})
    /\ \A field \in {"count", "errors"} : Cardinality(Attributed(field)) <= totals[field]

\* A stream that is complete and has not been read to its end.
Unread ==
    /\ q.answer = "stream" /\ ~q.eof /\ ~q.cut
    /\ IF q.layer = "none" THEN q.srcEnd ELSE q.outEnd

\* Every request ends for the tracker or has written all of its stream, which
\* the monitor's pull has yet to see, although the client may stop reading or
\* leave at any time and the runtime may or may not tell.  If the response is
\* read on, by the client or the runtime, the request ends and its record is
\* dealt with.
Settles ==
    /\ []<>(id = 0 \/ q.terminal # "none" \/ Unread)
    /\ WF_vars(Pull) =>
          \A n \in 1..MaxRequests :
              id = n ~> /\ id > n \/ q.terminal # "none"
                        /\ \A m \in inflight : m.id # n
=============================================================================
