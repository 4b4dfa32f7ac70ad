------------------------------ MODULE ChatHub ------------------------------
(***************************************************************************)
(* One call of chatHub (chathub.ts) from the account's runner object: at   *)
(* most two attempts to dial Microsoft, a SignalR handshake, the           *)
(* submission of the prompt, and the reading of frames until a completion  *)
(* record, with one deadline over everything.  Between the socket and the  *)
(* reading loop stands socketReader, a bounded queue with one waiter; the  *)
(* loop runs in steps of its own, so that every socket event can fall      *)
(* between any two of them.                                                *)
(*                                                                         *)
(* The model keeps which record arrives when, and abstracts what is in it: *)
(* a frame is a sequence of parts, a part is a kind and the text it        *)
(* carries.  The answer's text is the sequence of tokens 1, 2, 3...        *)
(***************************************************************************)
EXTENDS Integers, Sequences
LOCAL INSTANCE SequencesExt

CONSTANTS
    Deadline,        \* deadlineAt, in units of time from the start
    HandshakeWait,   \* longest wait for the handshake (45 s)
    ReadSlice,       \* readSliceMs (60 s)
    MaxQueued,       \* frames the reader's queue holds (MAX_QUEUED_SOCKET_CHARACTERS)
    MaxParts,        \* bound: how many parts Microsoft sends in one call
    MaxWire          \* bound: how many frames are on their way at a time

ASSUME HubConstants ==
    /\ Deadline \in Nat \ {0}
    /\ HandshakeWait \in Nat \ {0}
    /\ ReadSlice \in Nat \ {0}
    /\ MaxQueued \in Nat
    /\ MaxParts \in Nat /\ MaxWire \in Nat

VARIABLES
    attempt,    \* the loop counter of chatHub, from 1
    pc,         \* where the call is suspended
    hand,       \* parts of the frame in hand, not yet processed
    queued,     \* socketReader: frames that came while nobody waited
    terminal,   \* socketReader: why no frame will come any more
    waiter,     \* socketReader: somebody waits
    slice,      \* what is left of the waiter's timer
    wire,       \* frames on their way from Microsoft
    marks,      \* what the parts said besides text: final, failure, quota, native
    streamed,   \* text put together in this attempt
    submitted,  \* invocationSubmitted of this attempt
    left,       \* what is left until the deadline
    aborted,    \* the signal has fired
    outcome,    \* what chatHub returned or threw
    report,     \* what exchange got to know
    sent,       \* history: how many times the prompt was sent
    said,       \* history: how many tokens Microsoft has sent
    parts,      \* history: how many parts Microsoft has sent
    shown,      \* history: text handed to emit, over all attempts
    ended       \* history: a completion record was read

reader == <<hand, queued, terminal, waiter, slice>>
turn == <<marks, streamed, submitted>>
peer == <<wire, said, parts>>
clock == <<left, aborted>>
history == <<sent, shown, ended>>
vars == <<attempt, pc, reader, turn, peer, clock, outcome, report, history>>

-----------------------------------------------------------------------------
(* Data.                                                                   *)

None == "none"

\* What Microsoft may send before and after the prompt was submitted.
\* Noise is a ping, and whatever the loop skips: invalid JSON, unknown types and
\* targets.  Fatal is a record that ends the turn with an error.
EarlyKinds == {"hello", "noise", "fatal"}
Marking == {"final", "failure", "cleared", "quotaOut", "quotaLeft", "native"}
Ending == {"end", "fatal"}
LateKinds == {"noise", "delta", "snapshot"} \cup Marking \cup Ending

Upto(n) == [i \in 1..n |-> i]

NoMarks == [final |-> FALSE, failure |-> FALSE, quota |-> FALSE, native |-> FALSE]

Causes == {
    "REQUEST_ABORTED", "CHAT_DEADLINE_EXCEEDED",
    "INVALID_CHAT_HUB_ATTACHMENTS", "ACCOUNT_RELAY_EGRESS_UNAVAILABLE",
    "WS_DIAL_ERROR", "WS_DIAL_FAILED:5xx", "WS_DIAL_FAILED:403", "WS_DIAL_FAILED:404", "RELAY_DIAL",
    "WS_HANDSHAKE", "WS_READ_TIMEOUT", "WS_SEND",
    "WS_CLOSED_BEFORE_COMPLETION", "WS_ERROR_BEFORE_COMPLETION",
    "WS_BUFFER_TOO_LARGE", "WS_FRAME_TOO_LARGE",
    "CHAT_OUTPUT_TOO_LARGE", "CHAT_COMPLETION_ERROR", "CHAT_UPSTREAM_ERROR",
    "CHAT_THROTTLED_QUOTA_EXHAUSTED", "CHAT_RETURNED_NO_CONTENT", "CHAT_CLOSED_BEFORE_COMPLETION",
    "RPC_FAILED" }

\* Why the reader fails.
ReaderCauses == {"WS_CLOSED_BEFORE_COMPLETION", "WS_ERROR_BEFORE_COMPLETION",
                 "WS_BUFFER_TOO_LARGE", "WS_FRAME_TOO_LARGE", "REQUEST_ABORTED"}

\* A result: the answer's text, or a failure with the fields of
\* ChatHubAttemptError.  A failure that is no ChatHubAttemptError is bare.
Result == [ok : BOOLEAN, cause : Causes \cup {None}, submitted : BOOLEAN,
           quota : BOOLEAN, bare : BOOLEAN]
NoResult == [ok |-> FALSE, cause |-> None, submitted |-> FALSE, quota |-> FALSE, bare |-> FALSE]

Answered == [NoResult EXCEPT !.ok = TRUE, !.submitted = TRUE]
Bare(cause) == [NoResult EXCEPT !.cause = cause, !.bare = TRUE]
Attempted(cause, wasSubmitted) ==
    [NoResult EXCEPT !.cause = cause, !.submitted = wasSubmitted,
                     !.quota = (cause = "CHAT_THROTTLED_QUOTA_EXHAUSTED")]

Lesser(a, b) == IF a < b THEN a ELSE b

\* Bug for a mutant: a snapshot is taken for a delta.
AppendChatSnapshotAll(current, snapshot) == current \o snapshot

\* appendChatSnapshot: a snapshot counts only if it continues the text.
AppendChatSnapshot(current, snapshot) ==
    IF snapshot # <<>> /\ IsPrefix(current, snapshot) THEN snapshot ELSE current

\* mayReconnectChatHubFailure
Transport == {"WS_DIAL_ERROR", "WS_READ_TIMEOUT", "WS_ERROR_BEFORE_COMPLETION",
              "WS_CLOSED_BEFORE_COMPLETION", "WS_DIAL_FAILED:5xx"}

\* Bug for a mutant: a transport failure is always worth a second attempt.
MayReconnectAlways(cause, wasSubmitted) == cause \in Transport

MayReconnect(cause, wasSubmitted) == ~wasSubmitted /\ cause \in Transport
-----------------------------------------------------------------------------
Init ==
    /\ attempt = 1 /\ pc = "start"
    /\ hand = <<>> /\ queued = <<>> /\ terminal = None /\ waiter = FALSE /\ slice = 0
    /\ marks = NoMarks /\ streamed = <<>> /\ submitted = FALSE
    /\ wire = <<>> /\ said = 0 /\ parts = 0
    /\ left = Deadline /\ aborted = FALSE
    /\ outcome = NoResult /\ report = NoResult
    /\ sent = 0 /\ shown = <<>> /\ ended = FALSE

Connected == pc \in {"handshake", "read"}

-----------------------------------------------------------------------------
(* How an attempt ends.                                                    *)

\* The catch blocks of runChatHub: the deadline comes first, then the abort.
Effective(cause) ==
    CASE left = 0 -> "CHAT_DEADLINE_EXCEEDED"
      [] left > 0 /\ aborted -> "REQUEST_ABORTED"
      [] OTHER -> cause

\* The catch block of chatHub: what the attempt threw is thrown on, or there
\* is a second attempt.
Thrown(r) ==
    IF /\ left > 0 /\ ~aborted /\ streamed = <<>> /\ attempt = 1
       /\ ~r.bare /\ MayReconnect(r.cause, r.submitted)
    THEN pc' = "backoff" /\ UNCHANGED outcome
    ELSE /\ pc' = "done"
         /\ outcome' = IF left = 0 /\ r.bare THEN Attempted("CHAT_DEADLINE_EXCEEDED", FALSE) ELSE r

\* The finally block of runChatHub: reader and socket are closed.
Disconnected ==
    /\ hand' = <<>> /\ queued' = <<>> /\ terminal' = None /\ waiter' = FALSE /\ slice' = 0
    /\ wire' = <<>>
    /\ marks' = NoMarks /\ streamed' = <<>> /\ submitted' = FALSE

Unwind(cause, wasSubmitted) ==
    /\ Thrown(Attempted(Effective(cause), wasSubmitted))
    /\ Disconnected

-----------------------------------------------------------------------------
(* Dialling.                                                               *)

\* Validation that throws before any connection: the signal has fired, or the
\* attachments or the relay's configuration are unusable.
StartRefused ==
    /\ pc = "start"
    /\ \E cause \in Causes :
         /\ \/ cause = "REQUEST_ABORTED" /\ aborted
            \/ cause = "INVALID_CHAT_HUB_ATTACHMENTS" /\ ~aborted /\ attempt = 1
            \/ cause = "ACCOUNT_RELAY_EGRESS_UNAVAILABLE" /\ ~aborted /\ attempt = 1
         /\ Thrown(Bare(cause))
    /\ UNCHANGED <<attempt, reader, turn, peer, clock, report, history>>

StartDial ==
    /\ pc = "start" /\ ~aborted
    /\ pc' = "dial"
    /\ UNCHANGED <<attempt, reader, turn, peer, clock, outcome, report, history>>

\* Bug for a mutant: fetch is not given the signal.
DialErrorNoSignal ==
    /\ pc = "dial" /\ ~aborted
    /\ \E cause \in {"WS_DIAL_ERROR", "RELAY_DIAL", "WS_SEND"} : Thrown(Attempted(Effective(cause), FALSE))
    /\ UNCHANGED <<attempt, reader, turn, peer, clock, report, history>>

\* fetch throws, dialling Microsoft or a relay: no network, or the signal
\* fires; or the protocol record cannot be sent.
DialError ==
    /\ pc = "dial"
    /\ \E cause \in {"WS_DIAL_ERROR", "RELAY_DIAL", "WS_SEND"} : Thrown(Attempted(Effective(cause), FALSE))
    /\ UNCHANGED <<attempt, reader, turn, peer, clock, report, history>>

\* The answer to the upgrade is a plain HTTP response.
DialRefused ==
    /\ pc = "dial" /\ ~aborted
    /\ \E cause \in {"WS_DIAL_FAILED:5xx", "WS_DIAL_FAILED:403", "WS_DIAL_FAILED:404", "RELAY_DIAL"} :
         Thrown(Attempted(cause, FALSE))
    /\ UNCHANGED <<attempt, reader, turn, peer, clock, report, history>>

\* socket.accept(), the protocol record is sent, and reader.next waits for the
\* handshake.
Dialled ==
    /\ pc = "dial" /\ ~aborted
    /\ pc' = "handshake"
    /\ waiter' = TRUE
    /\ slice' = Lesser(HandshakeWait, IF left = 0 THEN 1 ELSE left)
    /\ UNCHANGED <<attempt, hand, queued, terminal, turn, peer, clock, outcome, report, history>>

\* The 250 ms between two attempts are over.
BackoffEnds ==
    /\ pc = "backoff"
    /\ pc' = "start" /\ attempt' = attempt + 1
    /\ UNCHANGED <<reader, turn, peer, clock, outcome, report, history>>

-----------------------------------------------------------------------------
(* socketReader.                                                           *)

\* fail(): who waits is rejected, otherwise the next reader will be.
Fails(reason, discardQueued, wireLeft) ==
    IF waiter
    THEN Unwind(reason, submitted)
    ELSE /\ terminal' = reason
         /\ queued' = IF discardQueued THEN <<>> ELSE queued
         /\ wire' = wireLeft
         /\ UNCHANGED <<pc, outcome, hand, waiter, slice, turn>>

\* A message event, as the reader meets it: somebody waits for it, the queue
\* has room for it or not, it is too large, or the reader has failed already.
Arrival == Connected /\ wire # <<>>

DeliverToWaiter ==
    /\ Arrival /\ waiter
    /\ hand' = Head(wire) /\ waiter' = FALSE /\ slice' = 0
    /\ wire' = Tail(wire)
    /\ UNCHANGED <<attempt, pc, queued, terminal, turn, said, parts, clock, outcome, report, history>>

DeliverToQueue ==
    /\ Arrival /\ terminal = None /\ ~waiter /\ Len(queued) < MaxQueued
    /\ queued' = Append(queued, Head(wire))
    /\ wire' = Tail(wire)
    /\ UNCHANGED <<attempt, pc, hand, terminal, waiter, slice, turn, said, parts, clock, outcome, report, history>>

DeliverOverflow ==
    /\ Arrival /\ terminal = None /\ ~waiter /\ Len(queued) >= MaxQueued
    /\ Fails("WS_BUFFER_TOO_LARGE", TRUE, Tail(wire))
    /\ UNCHANGED <<attempt, said, parts, clock, report, history>>

DeliverTooLarge ==
    /\ Arrival
    /\ Fails("WS_FRAME_TOO_LARGE", TRUE, Tail(wire))
    /\ UNCHANGED <<attempt, said, parts, clock, report, history>>

DeliverDropped ==
    /\ Arrival /\ terminal # None
    /\ wire' = Tail(wire)
    /\ UNCHANGED <<attempt, pc, reader, turn, said, parts, clock, outcome, report, history>>

SocketCloses ==
    /\ Connected /\ wire = <<>> /\ terminal # "WS_CLOSED_BEFORE_COMPLETION"
    /\ Fails("WS_CLOSED_BEFORE_COMPLETION", FALSE, <<>>)
    /\ UNCHANGED <<attempt, said, parts, clock, report, history>>

\* A connection that breaks loses what is on its way.
SocketBreaks ==
    /\ Connected /\ terminal # "WS_ERROR_BEFORE_COMPLETION"
    /\ Fails("WS_ERROR_BEFORE_COMPLETION", FALSE, <<>>)
    /\ UNCHANGED <<attempt, said, parts, clock, report, history>>

\* The signal fires: the caller aborts, or the deadline passes.  The listener
\* closes the reader, if there is one; the catch block turns its WS_CLOSED
\* into REQUEST_ABORTED.
SignalFires ==
    /\ ~aborted /\ pc # "done"
    /\ aborted' = TRUE
    /\ IF Connected THEN Fails("REQUEST_ABORTED", FALSE, wire)
                    ELSE UNCHANGED <<pc, outcome, reader, turn, wire>>
    /\ UNCHANGED <<attempt, said, parts, left, report, history>>

\* The waiter's timer: the handshake gives up, the reading loop waits again
\* until the deadline.
HandshakeTimeout ==
    /\ pc = "handshake" /\ waiter /\ slice = 0
    /\ Unwind("WS_READ_TIMEOUT", FALSE)
    /\ UNCHANGED <<attempt, said, parts, clock, report, history>>

ReadTimeout ==
    /\ pc = "read" /\ waiter /\ slice = 0
    /\ IF left = 0
       THEN Unwind("CHAT_DEADLINE_EXCEEDED", submitted)
       ELSE /\ slice' = Lesser(ReadSlice, left)
            /\ UNCHANGED <<pc, outcome, hand, queued, terminal, waiter, turn, wire>>
    /\ UNCHANGED <<attempt, said, parts, clock, report, history>>

-----------------------------------------------------------------------------
(* The handshake and the reading loop.                                     *)

HandshakeFails ==
    /\ pc = "handshake" /\ hand # <<>>
    /\ Head(hand).kind # "hello"
    /\ Unwind("WS_HANDSHAKE", FALSE)
    /\ UNCHANGED <<attempt, said, parts, clock, report, history>>

\* The prompt is sent and marked as submitted; what came with the handshake
\* stays in hand.  The loop is not entered after the deadline.
Submit ==
    /\ pc = "handshake" /\ hand # <<>>
    /\ Head(hand).kind = "hello"
    /\ sent' = sent + 1 /\ said' = 0
    /\ IF left = 0
       THEN Unwind("CHAT_DEADLINE_EXCEEDED", TRUE)
       ELSE /\ pc' = "read"
            /\ hand' = Tail(hand)
            /\ submitted' = TRUE
            /\ UNCHANGED <<outcome, queued, terminal, waiter, slice, wire, marks, streamed>>
    /\ UNCHANGED <<attempt, parts, clock, report, shown, ended>>

\* socket.send throws, and nothing was sent.
SubmitThrows ==
    /\ pc = "handshake" /\ hand # <<>>
    /\ Head(hand).kind = "hello"
    /\ Unwind("WS_SEND", FALSE)
    /\ UNCHANGED <<attempt, said, parts, clock, report, history>>

\* Between two frames: the deadline, a queued frame, the reader's failure, or
\* a new wait.
BetweenFrames == pc = "read" /\ hand = <<>> /\ ~waiter

LoopDeadline ==
    /\ BetweenFrames /\ left = 0
    /\ Unwind("CHAT_DEADLINE_EXCEEDED", submitted)
    /\ UNCHANGED <<attempt, said, parts, clock, report, history>>

TakeQueued ==
    /\ BetweenFrames /\ left > 0 /\ queued # <<>>
    /\ hand' = Head(queued) /\ queued' = Tail(queued)
    /\ UNCHANGED <<attempt, pc, terminal, waiter, slice, turn, peer, clock, outcome, report, history>>

ReaderFailed ==
    /\ BetweenFrames /\ left > 0 /\ queued = <<>> /\ terminal # None
    /\ Unwind(terminal, submitted)
    /\ UNCHANGED <<attempt, said, parts, clock, report, history>>

Wait ==
    /\ BetweenFrames /\ left > 0 /\ queued = <<>> /\ terminal = None
    /\ waiter' = TRUE /\ slice' = Lesser(ReadSlice, left)
    /\ UNCHANGED <<attempt, pc, hand, queued, terminal, turn, peer, clock, outcome, report, history>>
\* One part of the frame in hand is read.
Reading(kinds) == pc = "read" /\ hand # <<>> /\ Head(hand).kind \in kinds

ReadIgnored ==
    /\ Reading({"hello", "noise"})
    /\ hand' = Tail(hand)
    /\ UNCHANGED <<attempt, pc, queued, terminal, waiter, slice, turn, peer, clock, outcome, report, history>>

\* The answer to a ping may throw.
ReadPingThrows ==
    /\ Reading({"noise"})
    /\ Unwind("WS_SEND", submitted)
    /\ UNCHANGED <<attempt, said, parts, clock, report, history>>

ReadText ==
    /\ Reading({"delta", "snapshot"})
    /\ LET text == IF Head(hand).kind = "delta"
                   THEN streamed \o Head(hand).text
                   ELSE AppendChatSnapshot(streamed, Head(hand).text)
       IN  /\ streamed' = text
           /\ shown' = shown \o SubSeq(text, Len(streamed) + 1, Len(text))
    /\ hand' = Tail(hand)
    /\ UNCHANGED <<attempt, pc, queued, terminal, waiter, slice, marks, submitted, peer, clock,
                   outcome, report, sent, ended>>

ReadMark ==
    /\ Reading(Marking)
    /\ marks' = CASE Head(hand).kind = "final" -> [marks EXCEPT !.final = TRUE]
                  [] Head(hand).kind = "native" -> [marks EXCEPT !.native = TRUE]
                  [] Head(hand).kind \in {"failure", "cleared"} ->
                       [marks EXCEPT !.failure = (Head(hand).kind = "failure")]
                  [] OTHER -> [marks EXCEPT !.quota = (Head(hand).kind = "quotaOut")]
    /\ hand' = Tail(hand)
    /\ UNCHANGED <<attempt, pc, queued, terminal, waiter, slice, streamed, submitted, peer, clock,
                   outcome, report, history>>

\* A completion with an error, a close record, or output beyond its bound.
ReadError ==
    /\ Reading({"fatal"})
    /\ \E cause \in {"CHAT_COMPLETION_ERROR", "CHAT_CLOSED_BEFORE_COMPLETION", "CHAT_OUTPUT_TOO_LARGE"} :
         Unwind(cause, submitted)
    /\ UNCHANGED <<attempt, said, parts, clock, report, history>>

\* The completion record: scrubNarration may leave nothing of the text.
Empty(scrubbed) == ~marks.native /\ (scrubbed \/ (~marks.final /\ streamed = <<>>))

ReadEndInVain ==
    /\ Reading({"end"})
    /\ \E scrubbed \in BOOLEAN :
         /\ marks.failure \/ Empty(scrubbed)
         /\ Unwind(CASE marks.failure -> "CHAT_UPSTREAM_ERROR"
                     [] ~marks.failure /\ marks.quota -> "CHAT_THROTTLED_QUOTA_EXHAUSTED"
                     [] OTHER -> "CHAT_RETURNED_NO_CONTENT", submitted)
    /\ ended' = TRUE
    /\ UNCHANGED <<attempt, said, parts, clock, report, sent, shown>>

ReadEnd ==
    /\ Reading({"end"})
    /\ ~marks.failure /\ ~Empty(FALSE)
    /\ pc' = "done" /\ outcome' = Answered
    /\ Disconnected
    /\ ended' = TRUE
    /\ UNCHANGED <<attempt, said, parts, clock, report, sent, shown>>

-----------------------------------------------------------------------------
(* The runner's reply, and what exchange makes of it.                      *)

\* A client that has gone away gets no answer, but the turn was submitted.
RunnerReplies ==
    /\ pc = "done" /\ report = NoResult
    /\ report' \in IF outcome.ok THEN {outcome, Attempted("REQUEST_ABORTED", TRUE)}
                                 ELSE {[outcome EXCEPT !.bare = FALSE]}
    /\ UNCHANGED <<attempt, pc, reader, turn, peer, clock, outcome, history>>

\* The RPC fails, at any point of the call.
ReplyLost ==
    /\ report = NoResult
    /\ report' = Bare("RPC_FAILED")
    /\ UNCHANGED <<attempt, pc, reader, turn, peer, clock, outcome, history>>

\* Bug for a mutant: only aborts and the deadline keep the prompt at its account.
MayFailOverUnseen(r) == r.cause \notin {"REQUEST_ABORTED", "CHAT_DEADLINE_EXCEEDED"}

\* mayFailOverChatHubFailure
MayFailOver(r) ==
    /\ r.cause \notin {"REQUEST_ABORTED", "CHAT_DEADLINE_EXCEEDED"}
    /\ r.quota \/ r.bare \/ ~r.submitted

\* classifyAccountFailure knows the cause, and mayFailOverExchange agrees.
Unclassified == {None, "REQUEST_ABORTED", "INVALID_CHAT_HUB_ATTACHMENTS", "WS_DIAL_FAILED:404", "WS_HANDSHAKE",
                 "WS_SEND", "WS_BUFFER_TOO_LARGE", "WS_FRAME_TOO_LARGE", "CHAT_OUTPUT_TOO_LARGE", "RPC_FAILED"}

FailsOver(r) == ~r.ok /\ r.cause \in Causes \ Unclassified /\ MayFailOver(r)

-----------------------------------------------------------------------------
(* Microsoft, and time.                                                    *)

\* A part goes out in a frame of its own, or with the frame before it.
Put(part) ==
    \/ Len(wire) < MaxWire /\ wire' = Append(wire, <<part>>)
    \/ wire # <<>> /\ wire' = [wire EXCEPT ![Len(wire)] = Append(@, part)]

MicrosoftSends ==
    /\ Connected /\ terminal = None /\ parts < MaxParts
    /\ \E kind \in IF submitted THEN LateKinds ELSE EarlyKinds :
         \E n \in CASE kind = "delta" -> {said + 1}
                     [] kind = "snapshot" -> 1..(said + 1)
                     [] OTHER -> {0} :
           /\ said' = IF n > said THEN n ELSE said
           /\ Put([kind |-> kind,
                   text |-> CASE kind = "delta" -> <<n>> [] kind = "snapshot" -> Upto(n) [] OTHER -> <<>>])
           /\ parts' = IF kind \in Ending THEN MaxParts ELSE parts + 1
    /\ UNCHANGED <<attempt, pc, reader, turn, clock, outcome, report, history>>

Tick ==
    /\ left > 0 /\ pc # "done"
    /\ left' = left - 1
    /\ slice' = IF slice > 0 THEN slice - 1 ELSE 0
    /\ UNCHANGED <<attempt, pc, hand, queued, terminal, waiter, turn, peer, aborted, outcome, report, history>>

\* The call is over.
Finished == pc = "done" /\ report # NoResult /\ UNCHANGED vars

Dialling == StartRefused \/ StartDial \/ DialError \/ DialRefused \/ Dialled \/ BackoffEnds

ReaderEvent ==
    \/ DeliverToWaiter \/ DeliverToQueue \/ DeliverOverflow \/ DeliverTooLarge \/ DeliverDropped
    \/ SocketCloses \/ SocketBreaks \/ SignalFires \/ HandshakeTimeout \/ ReadTimeout

Loop ==
    \/ HandshakeFails \/ Submit \/ SubmitThrows
    \/ LoopDeadline \/ TakeQueued \/ ReaderFailed \/ Wait
    \/ ReadIgnored \/ ReadPingThrows \/ ReadText \/ ReadMark \/ ReadError \/ ReadEndInVain \/ ReadEnd

Next ==
    \/ Dialling \/ ReaderEvent \/ Loop
    \/ RunnerReplies \/ ReplyLost
    \/ MicrosoftSends \/ Tick \/ Finished

Spec == Init /\ [][Next]_vars

\* Time passes, timers and the deadline's signal go off, a fetch whose signal
\* has fired returns, and the event loop runs what can run.  Nothing is
\* assumed of Microsoft and of the network.
Fairness ==
    /\ WF_vars(Tick)
    /\ WF_vars(left = 0 /\ SignalFires)
    /\ WF_vars(aborted /\ DialError)
    /\ WF_vars(StartRefused \/ StartDial)
    /\ WF_vars(BackoffEnds)
    /\ WF_vars(HandshakeTimeout \/ ReadTimeout)
    /\ WF_vars(Loop)

FairSpec == Spec /\ Fairness

-----------------------------------------------------------------------------
(* Properties.                                                             *)

\* Types of the call's state.
TypeOK ==
    /\ attempt \in 1..2
    /\ pc \in {"start", "dial", "handshake", "read", "backoff", "done"}
    /\ terminal \in ReaderCauses \cup {None} /\ waiter \in BOOLEAN /\ slice \in Nat
    /\ marks \in [final : BOOLEAN, failure : BOOLEAN, quota : BOOLEAN, native : BOOLEAN]
    /\ submitted \in BOOLEAN /\ aborted \in BOOLEAN /\ left \in 0..Deadline
    /\ outcome \in Result /\ report \in Result
    /\ sent \in Nat /\ ended \in BOOLEAN

\* The client implements the abstract invocation: the prompt is submitted at
\* most once over both attempts, there is one verdict, and a failure says
\* truthfully whether the prompt was submitted (runChatHub, chatHub).
Abstract == INSTANCE Invocation WITH
    told <- sent,
    verdict <- IF outcome = NoResult THEN "pending"
               ELSE IF outcome.ok THEN "answered"
               ELSE IF outcome.submitted THEN "failed submitted" ELSE "failed unsubmitted"

InvocationOnce == Abstract!Spec

\* Whatever exchange gets to know, it sends the prompt to a second account only
\* if Microsoft never got it, or has ended the turn (mayFailOverChatHubFailure,
\* classifyAccountFailure, durableChatHub): not after a lost reply, a time-out,
\* an abort or a connection that broke after the submission.
FailOverIsNoReplay == report # NoResult /\ FailsOver(report) => sent = 0 \/ ended

\* The text handed on is what Microsoft said, in order, without gaps and
\* repetitions, whether it came in deltas or in snapshots, through the queue or
\* not, and all of it when the call is answered (socketReader,
\* appendChatSnapshot).
StreamFaithful ==
    /\ shown = Upto(Len(shown))
    /\ outcome.ok => Len(shown) = said

\* The call ends, whatever Microsoft and the network do or fail to do
\* (nextChatHubFrame, chatHub's deadline).
CallEnds == <>(pc = "done")
=============================================================================
