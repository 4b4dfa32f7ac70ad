--------------------------- MODULE ChatHubProofs ---------------------------
(***************************************************************************)
(* ChatHub implements Invocation, for every deadline, timer and bound; the *)
(* types of its state; no fail-over repeats a submitted prompt; and the    *)
(* text handed on is the text Microsoft said.                              *)
(***************************************************************************)
EXTENDS ChatHub, TLAPS
LOCAL INSTANCE SequencesExt

\* Where the call is decides whether the prompt has been submitted: before the
\* reading loop it has not, in the loop it has, once, and a result tells.
SubmissionKnown ==
    /\ pc \in {"start", "dial", "handshake", "backoff"} => sent = 0 /\ ~submitted
    /\ pc = "read" => sent = 1 /\ submitted
    /\ pc # "done" => outcome = NoResult
    /\ pc = "done" => /\ outcome # NoResult /\ sent \in {0, 1}
                      /\ outcome.submitted = (sent = 1)
                      /\ outcome.quota => ended
                      /\ outcome.ok => sent = 1

\* A second attempt follows a first one.
AttemptShape == pc = "backoff" => attempt = 1

\* A report repeats the result, or nothing is known of it.
ReportKnown ==
    \/ report = NoResult
    \/ report = Bare("RPC_FAILED")
    \/ pc = "done" /\ ~report.ok /\ report.submitted = (sent = 1) /\ (report.quota => ended) /\ ~report.bare
    \/ report.ok

HubInv == TypeOK /\ SubmissionKnown /\ AttemptShape /\ ReportKnown

-----------------------------------------------------------------------------
(* How an attempt ends.                                                    *)

\* What is left when an attempt has thrown: a second attempt after an
\* unsubmitted prompt, or a failure that says flag.
Failing(flag, empty) ==
    \/ pc' = "backoff" /\ outcome' = outcome /\ ~flag /\ attempt = 1
    \/ /\ pc' = "done" /\ outcome' \in Result /\ outcome' # NoResult /\ ~outcome'.ok
       /\ outcome'.submitted = flag
       /\ outcome'.quota => empty

\* chatHub throws on what an attempt threw, or tries again if nothing was
\* submitted.
LEMMA ThrownFails ==
    ASSUME NEW r \in Result, r.cause # None, ~r.ok, r.bare => ~r.submitted, left \in Nat, Thrown(r)
    PROVE  Failing(r.submitted, r.quota)
<1>1. CASE pc' = "backoff" /\ UNCHANGED outcome /\ attempt = 1 /\ MayReconnect(r.cause, r.submitted)
  BY <1>1 DEF Failing, MayReconnect
<1>2. CASE pc' = "done" /\ outcome' = r
  BY <1>2 DEF Failing, NoResult
<1>3. CASE pc' = "done" /\ r.bare /\ outcome' = Attempted("CHAT_DEADLINE_EXCEEDED", FALSE)
  <2>1. /\ outcome'.submitted = FALSE /\ outcome'.quota = FALSE /\ outcome'.ok = FALSE
        /\ outcome' # NoResult /\ outcome' \in Result
    BY <1>3 DEF Attempted, NoResult, Result, Causes, None
  <2> QED BY <1>3, <2>1 DEF Failing, Result
<1> QED BY <1>1, <1>2, <1>3 DEF Thrown

\* The catch and finally blocks of runChatHub.
LEMMA UnwindFails ==
    ASSUME TypeOK, NEW cause \in Causes, NEW flag \in BOOLEAN, Unwind(cause, flag)
    PROVE  Failing(flag, cause = "CHAT_THROTTLED_QUOTA_EXHAUSTED") /\ Disconnected
<1> DEFINE e == Effective(cause)
           r == Attempted(e, flag)
<1>1. e \in Causes /\ (e = "CHAT_THROTTLED_QUOTA_EXHAUSTED" => cause = "CHAT_THROTTLED_QUOTA_EXHAUSTED")
  BY HubConstants DEF Effective, Causes, TypeOK
<1>2. e # None
  BY <1>1 DEF Causes, None
<1>3. /\ r \in Result /\ r.cause = e /\ ~r.ok /\ ~r.bare /\ r.submitted = flag
      /\ r.quota = (e = "CHAT_THROTTLED_QUOTA_EXHAUSTED")
  BY <1>1 DEF Attempted, NoResult, Result
<1>4. Thrown(r) /\ Disconnected /\ left \in Nat
  BY HubConstants DEF Unwind, TypeOK
<1>5. Failing(r.submitted, r.quota)
  <2> HIDE DEF r, e
  <2> QED BY <1>2, <1>3, <1>4, ThrownFails
<1> QED BY <1>1, <1>3, <1>4, <1>5 DEF Failing

\* What an action leaves alone, or leaves well typed, when an attempt ends.
Tidy ==
    /\ attempt' = attempt /\ report' = report /\ ~submitted'
    /\ terminal' \in ReaderCauses \cup {None} /\ waiter' \in BOOLEAN /\ slice' \in Nat
    /\ marks' \in [final : BOOLEAN, failure : BOOLEAN, quota : BOOLEAN, native : BOOLEAN]
    /\ submitted' \in BOOLEAN /\ aborted' \in BOOLEAN /\ left' \in 0..Deadline
    /\ ended' \in BOOLEAN

\* An attempt that ends keeps the invariant, if what it says of the submission
\* is true.
LEMMA FailingKeeps ==
    ASSUME HubInv, pc # "done", Tidy,
           NEW flag \in BOOLEAN, NEW empty \in BOOLEAN, Failing(flag, empty),
           sent' \in {0, 1}, flag = (sent' = 1), empty => ended'
    PROVE  HubInv'
<1> USE DEF HubInv
<1>0. report' = report /\ (report = NoResult \/ report = Bare("RPC_FAILED") \/ report.ok)
  BY DEF Tidy, ReportKnown
<1>1. ReportKnown'
  BY <1>0 DEF ReportKnown, NoResult, Bare
<1>2. CASE pc' = "backoff" /\ outcome' = outcome /\ ~flag /\ attempt = 1
  <2>1. TypeOK'
    BY <1>2 DEF TypeOK, Tidy
  <2>2. outcome = NoResult
    BY DEF SubmissionKnown
  <2> QED BY <1>1, <1>2, <2>1, <2>2 DEF SubmissionKnown, AttemptShape, Tidy
<1>3. CASE /\ pc' = "done" /\ outcome' \in Result /\ outcome' # NoResult /\ ~outcome'.ok
           /\ outcome'.submitted = flag
           /\ outcome'.quota => empty
  <2>1. TypeOK'
    BY <1>3 DEF TypeOK, Tidy
  <2>2. SubmissionKnown'
    BY <1>3 DEF SubmissionKnown
  <2> QED BY <1>1, <1>3, <2>1, <2>2 DEF AttemptShape
<1> QED BY <1>2, <1>3 DEF Failing

\* The same for an attempt that is unwound, given what the action does besides.
LEMMA UnwindKeeps ==
    ASSUME HubInv, pc # "done", NEW cause \in Causes, NEW flag \in BOOLEAN, Unwind(cause, flag),
           attempt' = attempt, report' = report, left' = left, aborted' \in BOOLEAN,
           sent' \in {0, 1}, flag = (sent' = 1), ended' \in BOOLEAN,
           cause = "CHAT_THROTTLED_QUOTA_EXHAUSTED" => ended'
    PROVE  HubInv'
<1>1. Failing(flag, cause = "CHAT_THROTTLED_QUOTA_EXHAUSTED") /\ Disconnected
  BY UnwindFails DEF HubInv
<1>2. Tidy
  BY <1>1 DEF Tidy, Disconnected, NoMarks, HubInv, TypeOK
<1> QED BY <1>1, <1>2, FailingKeeps

\* And for an attempt that ends before the prompt was submitted.
LEMMA UnsubmittedKeeps ==
    ASSUME HubInv, pc # "done", Tidy, Failing(FALSE, FALSE), sent = 0, sent' = sent
    PROVE  HubInv'
<1>1. FALSE = (sent' = 1)
  OBVIOUS
<1>2. \E flag, empty \in BOOLEAN : Failing(flag, empty) /\ flag = (sent' = 1) /\ (empty => ended')
  BY <1>1
<1> QED BY <1>2, FailingKeeps

-----------------------------------------------------------------------------
(* The invariant.                                                          *)

LEMMA HubInit == Init => HubInv
<1> SUFFICES ASSUME Init PROVE HubInv
  OBVIOUS
<1>1. NoResult \in Result /\ NoMarks \in [final : BOOLEAN, failure : BOOLEAN, quota : BOOLEAN, native : BOOLEAN]
  BY DEF NoResult, Result, NoMarks, None
<1>2. TypeOK
  <2>1. left \in 0..Deadline /\ slice \in Nat /\ sent \in Nat /\ attempt \in 1..2
    BY HubConstants DEF Init
  <2>2. outcome \in Result /\ report \in Result
        /\ marks \in [final : BOOLEAN, failure : BOOLEAN, quota : BOOLEAN, native : BOOLEAN]
    BY <1>1 DEF Init
  <2> QED BY <2>1, <2>2 DEF Init, TypeOK
<1> QED BY <1>2 DEF Init, HubInv, SubmissionKnown, AttemptShape, ReportKnown

\* The steps of dialling.
LEMMA DiallingKeeps == HubInv /\ Dialling => HubInv'
<1> SUFFICES ASSUME HubInv, Dialling PROVE HubInv'
  OBVIOUS
<1> USE DEF HubInv, reader, turn, peer, clock, history
<1>1. CASE StartRefused
  <2> PICK cause \in Causes : Thrown(Bare(cause))
    BY <1>1 DEF StartRefused
  <2> DEFINE r == Bare(cause)
  <2>1. r \in Result /\ r.cause # None /\ ~r.ok /\ r.bare /\ ~r.submitted /\ ~r.quota
    BY DEF Bare, NoResult, Result, Causes, None
  <2>2. Thrown(r) /\ left \in Nat
    BY DEF TypeOK
  <2>3. Failing(r.submitted, r.quota)
    <3> HIDE DEF r
    <3> QED BY <2>1, <2>2, ThrownFails
  <2>4. Failing(FALSE, FALSE)
    BY <2>1, <2>3 DEF Failing
  <2>5. Tidy /\ sent = 0 /\ sent' = sent /\ pc # "done"
    BY <1>1 DEF StartRefused, Tidy, TypeOK, SubmissionKnown
  <2> QED BY <2>4, <2>5, UnsubmittedKeeps
<1>2. CASE DialError \/ DialRefused
  <2>0. \A c \in {"WS_DIAL_ERROR", "RELAY_DIAL", "WS_SEND"} :
          Effective(c) \in Causes \ {"CHAT_THROTTLED_QUOTA_EXHAUSTED"}
    BY DEF Effective, Causes, TypeOK
  <2> PICK cause \in Causes : Thrown(Attempted(cause, FALSE)) /\ cause # "CHAT_THROTTLED_QUOTA_EXHAUSTED"
    <3>1. CASE DialError
      BY <2>0, <3>1 DEF DialError
    <3>2. CASE DialRefused
      BY <3>2 DEF DialRefused, Causes
    <3> QED BY <1>2, <3>1, <3>2
  <2> DEFINE r == Attempted(cause, FALSE)
  <2>1. r \in Result /\ r.cause # None /\ ~r.ok /\ ~r.bare /\ ~r.submitted /\ ~r.quota
    BY DEF Attempted, NoResult, Result, Causes, None
  <2>2. Thrown(r)
    OBVIOUS
  <2>6. left \in Nat
    BY DEF TypeOK
  <2>3. Failing(r.submitted, r.quota)
    <3> HIDE DEF r
    <3> QED BY <2>1, <2>2, <2>6, ThrownFails
  <2>4. Failing(FALSE, FALSE)
    <3> HIDE DEF r
    <3> QED BY <2>1, <2>3 DEF Failing
  <2>5. Tidy /\ sent = 0 /\ sent' = sent /\ pc # "done"
    <3>1. pc = "dial" /\ UNCHANGED <<attempt, reader, turn, peer, clock, report, history>>
      BY <1>2 DEF DialError, DialRefused
    <3> QED BY <3>1 DEF Tidy, TypeOK, SubmissionKnown
  <2> QED BY <2>4, <2>5, UnsubmittedKeeps
<1>3. CASE StartDial
  BY <1>3 DEF StartDial, TypeOK, SubmissionKnown, AttemptShape, ReportKnown
<1>4. CASE Dialled
  <2>1. slice' \in Nat
    BY <1>4, HubConstants DEF Dialled, Lesser, TypeOK
  <2> QED BY <1>4, <2>1 DEF Dialled, TypeOK, SubmissionKnown, AttemptShape, ReportKnown
<1>5. CASE BackoffEnds
  BY <1>5 DEF BackoffEnds, TypeOK, SubmissionKnown, AttemptShape, ReportKnown
<1> QED BY <1>1, <1>2, <1>3, <1>4, <1>5 DEF Dialling

\* While the call is connected the flag is true to what happened.
LEMMA FlagTrue ==
    ASSUME HubInv, Connected
    PROVE  pc # "done" /\ sent \in {0, 1} /\ submitted = (sent = 1) /\ outcome = NoResult
BY DEF HubInv, Connected, SubmissionKnown, TypeOK

\* fail() of the reader, with somebody waiting or not.
LEMMA FailsKeeps ==
    ASSUME HubInv, Connected, NEW reason \in ReaderCauses,
           NEW discard \in BOOLEAN, NEW wireLeft, Fails(reason, discard, wireLeft),
           attempt' = attempt, report' = report, left' = left, aborted' \in BOOLEAN,
           sent' = sent, ended' = ended
    PROVE  HubInv'
<1>1. CASE waiter
  <2>1. Unwind(reason, submitted)
    BY <1>1 DEF Fails
  <2>2. reason \in Causes \ {"CHAT_THROTTLED_QUOTA_EXHAUSTED"}
    BY DEF ReaderCauses, Causes
  <2> QED BY <2>1, <2>2, FlagTrue, UnwindKeeps DEF HubInv, TypeOK
<1>2. CASE ~waiter
  <2>1. terminal' = reason /\ UNCHANGED <<pc, outcome, hand, waiter, slice, turn>>
    BY <1>2 DEF Fails
  <2> QED BY <2>1 DEF turn, HubInv, TypeOK, SubmissionKnown, AttemptShape, ReportKnown
<1> QED BY <1>1, <1>2

\* The reader's events.
LEMMA ReaderKeeps == HubInv /\ ReaderEvent => HubInv'
<1> SUFFICES ASSUME HubInv, ReaderEvent PROVE HubInv'
  OBVIOUS
<1> USE DEF reader, turn, peer, clock, history
<1>1. CASE DeliverToWaiter \/ DeliverToQueue \/ DeliverDropped
  <2>1. /\ UNCHANGED <<attempt, pc, terminal, turn, clock, outcome, report, history>>
        /\ waiter' \in BOOLEAN /\ slice' \in Nat
    <3>1. CASE DeliverToWaiter
      BY <3>1 DEF DeliverToWaiter, HubInv, TypeOK
    <3>2. CASE DeliverToQueue
      BY <3>2 DEF DeliverToQueue, HubInv, TypeOK
    <3>3. CASE DeliverDropped
      BY <3>3 DEF DeliverDropped, HubInv, TypeOK
    <3> QED BY <1>1, <3>1, <3>2, <3>3
  <2> QED BY <2>1 DEF HubInv, TypeOK, SubmissionKnown, AttemptShape, ReportKnown
<1>2. CASE DeliverOverflow
  BY <1>2, FailsKeeps DEF DeliverOverflow, Arrival, ReaderCauses, HubInv, TypeOK
<1>3. CASE DeliverTooLarge
  BY <1>3, FailsKeeps DEF DeliverTooLarge, Arrival, ReaderCauses, HubInv, TypeOK
<1>4. CASE SocketCloses
  BY <1>4, FailsKeeps DEF SocketCloses, ReaderCauses, HubInv, TypeOK
<1>5. CASE SocketBreaks
  BY <1>5, FailsKeeps DEF SocketBreaks, ReaderCauses, HubInv, TypeOK
<1>6. CASE SignalFires
  <2>1. CASE Connected
    BY <1>6, <2>1, FailsKeeps DEF SignalFires, ReaderCauses
  <2>2. CASE ~Connected
    BY <1>6, <2>2 DEF SignalFires, HubInv, TypeOK, SubmissionKnown, AttemptShape, ReportKnown
  <2> QED BY <2>1, <2>2
<1>7. CASE HandshakeTimeout
  <2>1. sent = 0 /\ FALSE = (sent' = 1) /\ sent' = 0
    BY <1>7 DEF HandshakeTimeout, HubInv, SubmissionKnown
  <2> QED BY <1>7, <2>1, UnwindKeeps DEF HandshakeTimeout, Causes, HubInv, TypeOK
<1>8. CASE ReadTimeout
  <2>1. CASE left = 0
    BY <1>8, <2>1, FlagTrue, UnwindKeeps DEF ReadTimeout, Connected, Causes, HubInv, TypeOK
  <2>2. CASE left # 0
    <3>1. slice' \in Nat
      BY <1>8, <2>2, HubConstants DEF ReadTimeout, Lesser, HubInv, TypeOK
    <3> QED BY <1>8, <2>2, <3>1 DEF ReadTimeout, HubInv, TypeOK, SubmissionKnown, AttemptShape, ReportKnown
  <2> QED BY <2>1, <2>2
<1> QED BY <1>1, <1>2, <1>3, <1>4, <1>5, <1>6, <1>7, <1>8 DEF ReaderEvent

\* The handshake and the reading loop.
LEMMA LoopKeeps == HubInv /\ Loop => HubInv'
<1> SUFFICES ASSUME HubInv, Loop PROVE HubInv'
  OBVIOUS
<1> USE DEF reader, turn, peer, clock, history
<1>1. CASE HandshakeFails
  <2>1. FALSE = (sent' = 1) /\ sent' = 0
    BY <1>1 DEF HandshakeFails, HubInv, SubmissionKnown
  <2> QED BY <1>1, <2>1, UnwindKeeps DEF HandshakeFails, Causes, HubInv, TypeOK
<1>2. CASE SubmitThrows
  <2>1. FALSE = (sent' = 1) /\ sent' = 0
    BY <1>2 DEF SubmitThrows, HubInv, SubmissionKnown
  <2> QED BY <1>2, <2>1, UnwindKeeps DEF SubmitThrows, Causes, HubInv, TypeOK
<1>3. CASE Submit
  <2>1. sent' = 1 /\ TRUE = (sent' = 1)
    BY <1>3 DEF Submit, HubInv, SubmissionKnown
  <2>2. CASE left = 0
    BY <1>3, <2>1, <2>2, UnwindKeeps DEF Submit, Causes, HubInv, TypeOK
  <2>3. CASE left # 0
    BY <1>3, <2>1, <2>3 DEF Submit, HubInv, TypeOK, SubmissionKnown, AttemptShape, ReportKnown
  <2> QED BY <2>2, <2>3
<1>4. CASE LoopDeadline
  BY <1>4, FlagTrue, UnwindKeeps DEF LoopDeadline, BetweenFrames, Connected, Causes, HubInv, TypeOK
<1>5. CASE TakeQueued
  BY <1>5 DEF TakeQueued, HubInv, TypeOK, SubmissionKnown, AttemptShape, ReportKnown
<1>6. CASE ReaderFailed
  <2>1. terminal \in Causes \ {"CHAT_THROTTLED_QUOTA_EXHAUSTED"}
    BY <1>6 DEF ReaderFailed, ReaderCauses, Causes, HubInv, TypeOK
  <2> QED BY <1>6, <2>1, FlagTrue, UnwindKeeps DEF ReaderFailed, BetweenFrames, Connected, HubInv, TypeOK
<1>7. CASE Wait
  <2>1. slice' \in Nat
    BY <1>7, HubConstants DEF Wait, Lesser, HubInv, TypeOK
  <2> QED BY <1>7, <2>1 DEF Wait, HubInv, TypeOK, SubmissionKnown, AttemptShape, ReportKnown
<1>8. CASE ReadIgnored
  BY <1>8 DEF ReadIgnored, HubInv, TypeOK, SubmissionKnown, AttemptShape, ReportKnown
<1>9. CASE ReadPingThrows
  BY <1>9, FlagTrue, UnwindKeeps DEF ReadPingThrows, Reading, Connected, Causes, HubInv, TypeOK
<1>10. CASE ReadText
  <2>1. UNCHANGED <<attempt, pc, terminal, waiter, slice, marks, submitted, clock, outcome, report, sent, ended>>
    BY <1>10 DEF ReadText
  <2> QED BY <2>1 DEF HubInv, TypeOK, SubmissionKnown, AttemptShape, ReportKnown
<1>11. CASE ReadMark
  <2>1. UNCHANGED <<attempt, pc, terminal, waiter, slice, submitted, clock, outcome, report, sent, ended>>
    BY <1>11 DEF ReadMark
  <2>2. marks' \in [final : BOOLEAN, failure : BOOLEAN, quota : BOOLEAN, native : BOOLEAN]
    BY <1>11 DEF ReadMark, HubInv, TypeOK
  <2> QED BY <2>1, <2>2 DEF HubInv, TypeOK, SubmissionKnown, AttemptShape, ReportKnown
<1>12. CASE ReadError
  <2>1. PICK cause \in Causes \ {"CHAT_THROTTLED_QUOTA_EXHAUSTED"} : Unwind(cause, submitted)
    BY <1>12 DEF ReadError, Causes
  <2> QED BY <1>12, <2>1, FlagTrue, UnwindKeeps DEF ReadError, Reading, Connected, HubInv, TypeOK
<1>13. CASE ReadEndInVain
  <2>1. PICK cause \in Causes : Unwind(cause, submitted)
    BY <1>13 DEF ReadEndInVain, Causes
  <2> QED BY <1>13, <2>1, FlagTrue, UnwindKeeps DEF ReadEndInVain, Reading, Connected, HubInv, TypeOK
<1>14. CASE ReadEnd
  <2>1. /\ pc = "read" /\ pc' = "done" /\ outcome' = Answered /\ Disconnected /\ ended' = TRUE
        /\ UNCHANGED <<attempt, clock, report, sent>>
    BY <1>14 DEF ReadEnd, Reading
  <2>2. Answered \in Result /\ Answered # NoResult /\ Answered.submitted /\ ~Answered.quota
    BY DEF Answered, NoResult, Result
  <2>3. TypeOK'
    BY <2>1, <2>2 DEF HubInv, TypeOK, Disconnected, NoMarks
  <2>4. SubmissionKnown'
    BY <2>1, <2>2 DEF HubInv, SubmissionKnown
  <2> QED BY <2>1, <2>3, <2>4 DEF HubInv, AttemptShape, ReportKnown
<1> QED BY <1>1, <1>2, <1>3, <1>4, <1>5, <1>6, <1>7, <1>8, <1>9, <1>10, <1>11, <1>12, <1>13, <1>14 DEF Loop

\* Reports, Microsoft and time.
LEMMA RestKeeps ==
    HubInv /\ (RunnerReplies \/ ReplyLost \/ MicrosoftSends \/ Tick \/ UNCHANGED vars) => HubInv'
<1> SUFFICES ASSUME HubInv, RunnerReplies \/ ReplyLost \/ MicrosoftSends \/ Tick \/ UNCHANGED vars
             PROVE  HubInv'
  OBVIOUS
<1> USE DEF reader, turn, peer, clock, history
<1>1. CASE RunnerReplies
  <2>1. pc = "done" /\ UNCHANGED <<attempt, pc, reader, turn, peer, clock, outcome, history>>
    BY <1>1 DEF RunnerReplies
  <2>2. outcome \in Result /\ outcome.submitted = (sent = 1) /\ (outcome.quota => ended)
    BY <2>1 DEF HubInv, TypeOK, SubmissionKnown
  <2>3. CASE report' = outcome /\ outcome.ok
    BY <2>1, <2>2, <2>3 DEF HubInv, TypeOK, SubmissionKnown, AttemptShape, ReportKnown
  <2>4. CASE report' = Attempted("REQUEST_ABORTED", TRUE) /\ outcome.ok
    <3>1. report' \in Result /\ ~report'.ok /\ report'.submitted /\ ~report'.quota /\ ~report'.bare
      BY <2>4 DEF Attempted, NoResult, Result, Causes
    <3>2. sent = 1
      BY <2>1, <2>4 DEF HubInv, SubmissionKnown
    <3>3. ReportKnown'
      BY <2>1, <3>1, <3>2 DEF ReportKnown
    <3> QED BY <2>1, <3>1, <3>3 DEF HubInv, TypeOK, SubmissionKnown, AttemptShape
  <2>5. CASE report' = [outcome EXCEPT !.bare = FALSE] /\ ~outcome.ok
    <3>1. /\ report' \in Result /\ ~report'.ok /\ report'.submitted = outcome.submitted
          /\ report'.quota = outcome.quota /\ ~report'.bare
      BY <2>2, <2>5 DEF Result
    <3>2. ReportKnown'
      BY <2>1, <2>2, <3>1 DEF ReportKnown
    <3> QED BY <2>1, <3>1, <3>2 DEF HubInv, TypeOK, SubmissionKnown, AttemptShape
  <2> QED BY <1>1, <2>3, <2>4, <2>5 DEF RunnerReplies
<1>2. CASE ReplyLost
  <2>1. Bare("RPC_FAILED") \in Result
    BY DEF Bare, NoResult, Result, Causes
  <2> QED BY <1>2, <2>1 DEF ReplyLost, HubInv, TypeOK, SubmissionKnown, AttemptShape, ReportKnown
<1>3. CASE MicrosoftSends \/ UNCHANGED vars
  <2>1. UNCHANGED <<attempt, pc, reader, turn, clock, outcome, report, history>>
    BY <1>3 DEF MicrosoftSends, vars
  <2> QED BY <2>1 DEF HubInv, TypeOK, SubmissionKnown, AttemptShape, ReportKnown
<1>4. CASE Tick
  <2>1. left' \in 0..Deadline /\ slice' \in Nat
    BY <1>4, HubConstants DEF Tick, HubInv, TypeOK
  <2> QED BY <1>4, <2>1 DEF Tick, HubInv, TypeOK, SubmissionKnown, AttemptShape, ReportKnown
<1> QED BY <1>1, <1>2, <1>3, <1>4

\* The position of the call, the flag, the result and the report agree on the
\* submission, in every state of chatHub and of its runner's reply.
THEOREM HubInvariant == Spec => []HubInv
<1>1. HubInv /\ [Next]_vars => HubInv'
  BY DiallingKeeps, ReaderKeeps, LoopKeeps, RestKeeps DEF Next, Finished
<1> QED BY <1>1, HubInit, PTL DEF Spec

\* The call's state keeps its types, and there are at most two attempts.
THEOREM HubTypes == Spec => []TypeOK
<1>1. HubInv => TypeOK
  BY DEF HubInv
<1> QED BY <1>1, HubInvariant, PTL

\* exchange sends a prompt to a second account only if Microsoft never got it or
\* has ended the turn, whatever happened to call and reply.
THEOREM NoReplay == Spec => []FailOverIsNoReplay
<1>1. HubInv => FailOverIsNoReplay
  <2> SUFFICES ASSUME HubInv, report # NoResult, FailsOver(report), sent # 0 PROVE ended
    BY DEF FailOverIsNoReplay
  <2>1. ~report.ok /\ report.cause \notin Unclassified /\ (report.quota \/ report.bare \/ ~report.submitted)
    BY DEF FailsOver, MayFailOver
  <2>2. report # Bare("RPC_FAILED")
    BY <2>1 DEF Bare, NoResult, Unclassified
  <2> QED BY <2>1, <2>2 DEF HubInv, ReportKnown, SubmissionKnown, TypeOK
<1> QED BY <1>1, HubInvariant, PTL

-----------------------------------------------------------------------------
(* The refinement.                                                         *)

\* A result is final, and only Submit submits.
LEMMA StepKinds ==
    ASSUME [Next]_vars
    PROVE  \/ UNCHANGED <<sent, outcome>>
           \/ pc # "done" /\ sent' = sent
           \/ Submit
<1> USE DEF reader, turn, peer, clock, history
<1>1. CASE Dialling
  BY <1>1 DEF Dialling, StartRefused, StartDial, DialError, DialRefused, Dialled, BackoffEnds
<1>2. CASE ReaderEvent
  <2>1. pc # "done" /\ sent' = sent
    BY <1>2 DEF ReaderEvent, Arrival, Connected, DeliverToWaiter, DeliverToQueue, DeliverOverflow, DeliverTooLarge,
                DeliverDropped, SocketCloses, SocketBreaks, SignalFires, HandshakeTimeout, ReadTimeout
  <2> QED BY <2>1
<1>3. CASE Loop
  <2>1. Submit \/ (pc # "done" /\ sent' = sent)
    BY <1>3 DEF Loop, BetweenFrames, Reading, HandshakeFails, SubmitThrows, LoopDeadline, TakeQueued, ReaderFailed,
                Wait, ReadIgnored, ReadPingThrows, ReadText, ReadMark, ReadError, ReadEndInVain, ReadEnd
  <2> QED BY <2>1
<1>4. CASE RunnerReplies \/ ReplyLost \/ MicrosoftSends \/ Tick \/ UNCHANGED vars
  BY <1>4 DEF RunnerReplies, ReplyLost, MicrosoftSends, Tick, vars
<1> QED BY <1>1, <1>2, <1>3, <1>4 DEF Next, Finished

\* A submission after the deadline fails and says so.
LEMMA SubmitResult ==
    ASSUME HubInv, Submit
    PROVE  sent = 0 /\ sent' = 1 /\ outcome = NoResult /\ (outcome' = NoResult \/ ~outcome'.ok)
<1>1. sent = 0 /\ sent' = 1 /\ outcome = NoResult
  BY DEF Submit, HubInv, SubmissionKnown
<1>2. CASE left = 0
  BY <1>2, <1>1, UnwindFails DEF Submit, Failing, Causes, HubInv
<1>3. CASE left # 0
  BY <1>3, <1>1 DEF Submit
<1> QED BY <1>1, <1>2, <1>3

\* The ChatHub client implements the abstract invocation: one submission at
\* most, one verdict, and a truthful one.
THEOREM HubImplementsInvocation == Spec => InvocationOnce
<1> DEFINE V == IF outcome = NoResult THEN "pending"
                ELSE IF outcome.ok THEN "answered"
                ELSE IF outcome.submitted THEN "failed submitted" ELSE "failed unsubmitted"
<1>1. Init => Abstract!Init
  BY DEF Init, Abstract!Init
<1>2. HubInv /\ HubInv' /\ [Next]_vars => [Abstract!Next]_<<sent, V>>
  <2> SUFFICES ASSUME HubInv, HubInv', [Next]_vars PROVE [Abstract!Next]_<<sent, V>>
    OBVIOUS
  <2>1. CASE UNCHANGED <<sent, outcome>>
    BY <2>1
  <2>2. CASE pc # "done" /\ sent' = sent
    <3>1. outcome = NoResult /\ sent \in {0, 1}
      BY <2>2 DEF HubInv, SubmissionKnown, TypeOK
    <3>2. CASE pc' # "done"
      <4>1. outcome' = NoResult
        BY <3>2 DEF HubInv, SubmissionKnown
      <4> QED BY <2>2, <3>1, <4>1
    <3>3. CASE pc' = "done"
      <4>1. /\ outcome' # NoResult /\ outcome' \in Result
            /\ outcome'.submitted = (sent = 1) /\ (outcome'.ok => sent = 1)
        BY <2>2, <3>3 DEF HubInv, SubmissionKnown, TypeOK
      <4>2. CASE outcome'.ok
        BY <2>2, <3>1, <4>1, <4>2 DEF Abstract!Next, Abstract!Answer
      <4>3. CASE ~outcome'.ok
        BY <2>2, <3>1, <4>1, <4>3 DEF Abstract!Next, Abstract!Fail
      <4> QED BY <4>2, <4>3
    <3> QED BY <3>2, <3>3
  <2>3. CASE Submit
    <3>1. sent = 0 /\ sent' = 1 /\ outcome = NoResult /\ (outcome' = NoResult \/ ~outcome'.ok)
      BY <2>3, SubmitResult
    <3>2. outcome' # NoResult => outcome'.submitted
      BY <3>1 DEF HubInv, SubmissionKnown
    <3> QED BY <3>1, <3>2 DEF Abstract!Next, Abstract!Submit, Abstract!SubmitInVain
  <2> QED BY <2>1, <2>2, <2>3, StepKinds
<1> QED BY <1>1, <1>2, HubInvariant, PTL DEF Spec, InvocationOnce, Abstract!Spec

-----------------------------------------------------------------------------
(* Chains.  A sequence q whose i-th element takes a counter from one value *)
(* to the next, as the set R of triples <<element, before, after>> allows, *)
(* takes it from a to b.                                                   *)

Chain(R, q, a, b) ==
    \E c \in [0..Len(q) -> Nat] :
        /\ c[0] = a /\ c[Len(q)] = b
        /\ \A i \in 1..Len(q) : <<q[i], c[i - 1], c[i]>> \in R

\* The empty sequence leaves the counter where it is.
LEMMA ChainEmpty ==
    ASSUME NEW R, NEW a, NEW b
    PROVE  Chain(R, <<>>, a, b) <=> a \in Nat /\ a = b
<1>1. ASSUME Chain(R, <<>>, a, b) PROVE a \in Nat /\ a = b
  BY <1>1 DEF Chain
<1>2. ASSUME a \in Nat, a = b PROVE Chain(R, <<>>, a, b)
  <2> DEFINE c == [i \in 0..0 |-> a]
  <2>1. c \in [0..Len(<<>>) -> Nat] /\ c[0] = a /\ c[Len(<<>>)] = b
    BY <1>2
  <2>2. \A i \in 1..Len(<<>>) : <<(<<>>)[i], c[i - 1], c[i]>> \in R
    OBVIOUS
  <2> HIDE DEF c
  <2> QED BY <2>1, <2>2 DEF Chain
<1> QED BY <1>1, <1>2

\* The counter is a number at both ends.
LEMMA ChainEnds ==
    ASSUME NEW R, NEW X, NEW q \in Seq(X), NEW a, NEW b, Chain(R, q, a, b)
    PROVE  a \in Nat /\ b \in Nat
BY DEF Chain

\* The first element taken off, the rest goes on from where it led.
LEMMA ChainTail ==
    ASSUME NEW R, NEW X, NEW q \in Seq(X), q # <<>>, NEW a, NEW b, Chain(R, q, a, b)
    PROVE  \E m \in Nat : <<Head(q), a, m>> \in R /\ Chain(R, Tail(q), m, b)
<1>1. PICK c \in [0..Len(q) -> Nat] :
        /\ c[0] = a /\ c[Len(q)] = b
        /\ \A i \in 1..Len(q) : <<q[i], c[i - 1], c[i]>> \in R
  BY DEF Chain
<1> DEFINE d == [i \in 0..(Len(q) - 1) |-> c[i + 1]]
<1>2. Len(q) \in Nat \ {0} /\ Len(Tail(q)) = Len(q) - 1 /\ Head(q) = q[1]
      /\ \A i \in 1..(Len(q) - 1) : Tail(q)[i] = q[i + 1]
  OBVIOUS
<1>3. d \in [0..Len(Tail(q)) -> Nat] /\ d[0] = c[1] /\ d[Len(Tail(q))] = b
  BY <1>1, <1>2
<1>4. ASSUME NEW i \in 1..Len(Tail(q)) PROVE <<Tail(q)[i], d[i - 1], d[i]>> \in R
  <2>1. i + 1 \in 1..Len(q) /\ i \in 1..(Len(q) - 1) /\ i - 1 \in 0..(Len(q) - 1) /\ i \in 0..(Len(q) - 1)
    BY <1>2
  <2>2. d[i - 1] = c[i] /\ d[i] = c[i + 1] /\ Tail(q)[i] = q[i + 1]
    BY <1>2, <2>1
  <2>3. <<q[i + 1], c[(i + 1) - 1], c[i + 1]>> \in R
    BY <1>1, <2>1
  <2> HIDE DEF d
  <2> QED BY <2>2, <2>3
<1> HIDE DEF d
<1>5. Chain(R, Tail(q), c[1], b)
  BY <1>3, <1>4 DEF Chain
<1>6. c[1] \in Nat /\ <<Head(q), a, c[1]>> \in R
  <2>1. 1 \in 1..Len(q)
    BY <1>2
  <2>2. <<q[1], c[1 - 1], c[1]>> \in R
    BY <1>1, <2>1
  <2> QED BY <1>1, <1>2, <2>1, <2>2
<1> QED BY <1>5, <1>6

\* An element at the end takes the counter further.
LEMMA ChainAppend ==
    ASSUME NEW R, NEW X, NEW q \in Seq(X), NEW p, NEW a, NEW b, NEW n \in Nat,
           Chain(R, q, a, b), <<p, b, n>> \in R
    PROVE  Chain(R, Append(q, p), a, n)
<1>1. PICK c \in [0..Len(q) -> Nat] :
        /\ c[0] = a /\ c[Len(q)] = b
        /\ \A i \in 1..Len(q) : <<q[i], c[i - 1], c[i]>> \in R
  BY DEF Chain
<1> DEFINE k == Len(q) + 1
           d == [i \in 0..k |-> IF i = k THEN n ELSE c[i]]
           s == Append(q, p)
<1>2. Len(q) \in Nat /\ Len(s) = k /\ s[k] = p /\ \A i \in 1..Len(q) : s[i] = q[i]
  <2>1. q \in Seq(X \cup {p}) /\ p \in X \cup {p}
    OBVIOUS
  <2> QED BY <2>1
<1>3. d \in [0..Len(s) -> Nat] /\ d[0] = a /\ d[Len(s)] = n
  BY <1>1, <1>2
<1>4. ASSUME NEW i \in 1..Len(s) PROVE <<s[i], d[i - 1], d[i]>> \in R
  <2>1. CASE i = k
    <3>1. d[i] = n /\ d[i - 1] = b /\ s[i] = p
      BY <1>1, <1>2, <2>1
    <3> HIDE DEF d, s
    <3> QED BY <3>1
  <2>2. CASE i # k
    <3>1. i \in 1..Len(q) /\ d[i] = c[i] /\ d[i - 1] = c[i - 1] /\ s[i] = q[i]
      BY <1>2, <2>2
    <3> HIDE DEF d, s
    <3> QED BY <1>1, <3>1
  <2> QED BY <2>1, <2>2
<1> HIDE DEF d
<1> QED BY <1>3, <1>4 DEF Chain

\* So does a last element replaced by one that goes further.
LEMMA ChainLast ==
    ASSUME NEW R, NEW X, NEW q \in Seq(X), q # <<>>, NEW f, NEW a, NEW b, NEW n \in Nat,
           Chain(R, q, a, b),
           \A m \in Nat : <<q[Len(q)], m, b>> \in R => <<f, m, n>> \in R
    PROVE  Chain(R, [q EXCEPT ![Len(q)] = f], a, n)
<1>1. PICK c \in [0..Len(q) -> Nat] :
        /\ c[0] = a /\ c[Len(q)] = b
        /\ \A i \in 1..Len(q) : <<q[i], c[i - 1], c[i]>> \in R
  BY DEF Chain
<1> DEFINE k == Len(q)
           d == [i \in 0..k |-> IF i = k THEN n ELSE c[i]]
           s == [q EXCEPT ![k] = f]
<1>2. k \in Nat \ {0} /\ Len(s) = k /\ s[k] = f /\ \A i \in 1..(k - 1) : s[i] = q[i]
  <2>0. k \in Nat \ {0}
    OBVIOUS
  <2>1. k \in Nat \ {0} /\ q \in [1..k -> X]
    OBVIOUS
  <2>2. s \in [1..k -> X \cup {f}]
    BY <2>1
  <2>3. s \in Seq(X \cup {f}) /\ Len(s) = k
    BY <2>1, <2>2
  <2>4. s[k] = f /\ \A i \in 1..(k - 1) : s[i] = q[i]
    <3>1. k \in 1..k /\ \A i \in 1..(k - 1) : i \in 1..k /\ i # k
      BY ONLY <2>0
    <3> HIDE DEF k
    <3> QED BY <2>1, <3>1
  <2> QED BY <2>1, <2>3, <2>4
<1> HIDE DEF s
<1>3. d \in [0..Len(s) -> Nat] /\ d[0] = a /\ d[Len(s)] = n
  BY <1>1, <1>2
<1>4. ASSUME NEW i \in 1..Len(s) PROVE <<s[i], d[i - 1], d[i]>> \in R
  <2>1. CASE i = k
    <3>1. d[i] = n /\ d[i - 1] = c[i - 1] /\ s[i] = f /\ c[i - 1] \in Nat
      BY <1>1, <1>2, <2>1
    <3>2. <<q[k], c[i - 1], b>> \in R
      BY <1>1, <1>2, <2>1
    <3> HIDE DEF d, s
    <3> QED BY <3>1, <3>2
  <2>2. CASE i # k
    <3>1. i \in 1..(k - 1) /\ i \in 1..Len(q) /\ d[i] = c[i] /\ d[i - 1] = c[i - 1] /\ s[i] = q[i]
      BY <1>2, <2>2
    <3> HIDE DEF d, s
    <3> QED BY <1>1, <3>1
  <2> QED BY <2>1, <2>2
<1> HIDE DEF d
<1>5. Chain(R, s, a, n)
  BY <1>3, <1>4 DEF Chain
<1> QED BY <1>5 DEF s

\* Only the moves of the elements that occur matter.
LEMMA ChainWiden ==
    ASSUME NEW R, NEW R2, NEW X, NEW q \in Seq(X), NEW a, NEW b, Chain(R, q, a, b),
           \A x \in X, m, n \in Nat : <<x, m, n>> \in R => <<x, m, n>> \in R2
    PROVE  Chain(R2, q, a, b)
<1>1. PICK c \in [0..Len(q) -> Nat] :
        /\ c[0] = a /\ c[Len(q)] = b
        /\ \A i \in 1..Len(q) : <<q[i], c[i - 1], c[i]>> \in R
  BY DEF Chain
<1>2. ASSUME NEW i \in 1..Len(q) PROVE <<q[i], c[i - 1], c[i]>> \in R2
  <2>1. q[i] \in X /\ i \in 0..Len(q) /\ i - 1 \in 0..Len(q)
    OBVIOUS
  <2>2. c[i] \in Nat /\ c[i - 1] \in Nat /\ <<q[i], c[i - 1], c[i]>> \in R
    BY <1>1, <2>1
  <2> QED BY ONLY <2>1, <2>2, \A x \in X, m, n \in Nat : <<x, m, n>> \in R => <<x, m, n>> \in R2
<1> QED BY <1>1, <1>2 DEF Chain
-----------------------------------------------------------------------------
(* The text on its way.  Hand, queue and wire, in this order, hold parts   *)
(* that take the number of tokens from what has been put together to what  *)
(* Microsoft has said.                                                     *)

Part == [kind : EarlyKinds \cup LateKinds, text : Seq(Nat)]

Greater(m, n) == IF m < n THEN n ELSE m

\* Part p takes the text from m tokens to n; the completion record comes when
\* all tokens, total of them, are out.
Moves(p, m, n, total) ==
    /\ p.kind = "delta" => n = m + 1 /\ p.text = <<n>>
    /\ p.kind = "snapshot" => \E j \in 1..(m + 1) : p.text = Upto(j) /\ n = Greater(m, j)
    /\ p.kind \notin {"delta", "snapshot"} => n = m
    /\ p.kind = "end" => m = total

PartMoves(total) == {t \in Part \X Nat \X Nat : Moves(t[1], t[2], t[3], total)}

FrameMoves(total) == {t \in Seq(Part) \X Nat \X Nat : Chain(PartMoves(total), t[1], t[2], t[3])}

\* What may be on its way: no completion record while more may follow.
Fluid == {p \in Part : parts < MaxParts => p.kind # "end"}

\* After the reader has failed, what is still on the wire will not be read.
InFlight ==
    \E x, y \in Nat :
        /\ Chain(PartMoves(said), hand, Len(streamed), x)
        /\ Chain(FrameMoves(said), queued, x, y)
        /\ terminal = None => Chain(FrameMoves(said), wire, y, said)

\* Who waits has read everything; without a connection there is nothing.
Pipes ==
    /\ hand \in Seq(Fluid) /\ queued \in Seq(Seq(Fluid))
    /\ terminal = None => wire \in Seq(Seq(Fluid))
    /\ waiter => hand = <<>> /\ queued = <<>> /\ terminal = None
    /\ ~Connected => /\ hand = <<>> /\ queued = <<>> /\ wire = <<>>
                     /\ terminal = None /\ ~waiter /\ streamed = <<>>

\* StreamFaithful needs more to be inductive: the text of this attempt is all
\* that was shown, and the rest of what was said is in flight.
FlowInv ==
    /\ Pipes
    /\ said \in Nat /\ parts \in Nat
    /\ sent = 0 => said = 0
    /\ pc # "done" => shown = streamed
    /\ Connected => InFlight
    /\ shown \in Seq(Nat) /\ StreamFaithful

\* The moves, spelt out.
LEMMA PartMove ==
    ASSUME NEW total, NEW p, NEW m, NEW n
    PROVE  <<p, m, n>> \in PartMoves(total)
              <=> p \in Part /\ m \in Nat /\ n \in Nat /\ Moves(p, m, n, total)
BY DEF PartMoves

LEMMA FrameMove ==
    ASSUME NEW total, NEW f, NEW m, NEW n
    PROVE  <<f, m, n>> \in FrameMoves(total)
              <=> f \in Seq(Part) /\ m \in Nat /\ n \in Nat /\ Chain(PartMoves(total), f, m, n)
BY DEF FrameMoves

\* Counting up to n.
LEMMA UptoShape ==
    ASSUME NEW n \in Nat
    PROVE  Upto(n) \in Seq(Nat) /\ Len(Upto(n)) = n /\ \A i \in 1..n : Upto(n)[i] = i
<1>1. Upto(n) \in [1..n -> Nat]
  BY DEF Upto
<1> QED BY <1>1 DEF Upto

\* A sequence of known elements is known.
LEMMA UptoOnly ==
    ASSUME NEW s \in Seq(Nat), NEW n \in Nat, Len(s) = n, \A i \in 1..n : s[i] = i
    PROVE  s = Upto(n)
<1>1. s \in [1..n -> Nat]
  OBVIOUS
<1> QED BY <1>1 DEF Upto

\* appendChatSnapshot on texts that count up from 1: the longer one.
LEMMA SnapshotText ==
    ASSUME NEW k \in Nat, NEW j \in Nat \ {0}
    PROVE  AppendChatSnapshot(Upto(k), Upto(j)) = Upto(Greater(k, j))
<1>1. Upto(j) # <<>>
  BY UptoShape
<1>2. CASE k <= j
  <2>1. SubSeq(Upto(k), 1, Len(Upto(k))) = SubSeq(Upto(j), 1, Len(Upto(k)))
    <3>1. /\ Upto(k) \in Seq(Nat) /\ Len(Upto(k)) = k /\ \A i \in 1..k : Upto(k)[i] = i
          /\ Upto(j) \in Seq(Nat) /\ Len(Upto(j)) = j /\ \A i \in 1..j : Upto(j)[i] = i
      BY UptoShape
    <3> QED BY <1>2, <3>1
  <2>2. Len(Upto(k)) <= Len(Upto(j))
    BY <1>2, UptoShape
  <2>3. Greater(k, j) = j
    BY <1>2 DEF Greater
  <2> QED BY <1>1, <2>1, <2>2, <2>3 DEF AppendChatSnapshot, IsPrefix
<1>3. CASE k > j
  <2>1. ~(Len(Upto(k)) <= Len(Upto(j)))
    BY <1>3, UptoShape
  <2>2. Greater(k, j) = k
    BY <1>3 DEF Greater
  <2> QED BY <2>1, <2>2 DEF AppendChatSnapshot, IsPrefix
<1> QED BY <1>2, <1>3

\* Nothing in flight.
LEMMA FlowNothing ==
    ASSUME hand = <<>>, queued = <<>>, wire = <<>>, streamed = <<>>, said = 0
    PROVE  InFlight
<1>1. Len(streamed) = 0 /\ 0 \in Nat
  OBVIOUS
<1>2. /\ Chain(PartMoves(said), hand, Len(streamed), 0)
      /\ Chain(FrameMoves(said), queued, 0, 0)
      /\ Chain(FrameMoves(said), wire, 0, said)
  BY <1>1, ChainEmpty
<1> QED BY <1>1, <1>2 DEF InFlight

\* What the invariant says of the pipes' contents.
LEMMA FluidParts == Fluid \subseteq Part /\ Seq(Fluid) \subseteq Seq(Part)
BY DEF Fluid

\* A step that leaves the text and the pipes alone, within a connection or
\* outside of one.
LEMMA FlowStays ==
    ASSUME FlowInv, HubInv, UNCHANGED <<hand, queued, terminal, wire, said, parts, streamed, shown>>,
           waiter' = waiter \/ (~waiter' /\ Connected'),
           Connected' <=> Connected, sent' = sent, pc # "done" \/ pc' = "done",
           outcome' = outcome \/ ~outcome'.ok
    PROVE  FlowInv'
<1>1. Pipes'
  BY DEF FlowInv, Pipes, Fluid, HubInv, TypeOK
<1>2. Connected' => InFlight'
  BY DEF FlowInv, InFlight
<1>3. StreamFaithful'
  BY DEF FlowInv, StreamFaithful
<1> QED BY <1>1, <1>2, <1>3 DEF FlowInv

\* The catch and finally blocks: nothing is left of the attempt, and another
\* one begins only if nothing was shown.
LEMMA UnwindFlow ==
    ASSUME FlowInv, HubInv, HubInv', pc # "done",
           NEW cause \in Causes, NEW flag \in BOOLEAN, Unwind(cause, flag),
           shown' = shown, parts' = parts, said' \in Nat, sent' = 0 => said' = 0
    PROVE  FlowInv'
<1>1. Disconnected /\ Failing(flag, cause = "CHAT_THROTTLED_QUOTA_EXHAUSTED")
  BY UnwindFails DEF HubInv
<1>2. /\ pc' = "done" \/ (pc' = "backoff" /\ streamed = <<>>)
      /\ ~outcome'.ok
  <2>1. pc' = "done" \/ (pc' = "backoff" /\ streamed = <<>>)
    BY DEF Unwind, Thrown
  <2>2. pc' = "backoff" => outcome' = NoResult
    BY DEF HubInv, SubmissionKnown
  <2>3. ~NoResult.ok
    BY DEF NoResult
  <2> QED BY <1>1, <2>1, <2>2, <2>3 DEF Failing
<1>3. /\ hand' = <<>> /\ queued' = <<>> /\ wire' = <<>> /\ terminal' = None /\ waiter' = FALSE
      /\ streamed' = <<>>
  BY <1>1 DEF Disconnected
<1>4. ~Connected'
  BY <1>2 DEF Connected
<1>5. Pipes'
  BY <1>3, <1>4 DEF Pipes
<1>6. StreamFaithful'
  BY <1>2 DEF FlowInv, StreamFaithful
<1>7. pc' # "done" => shown' = streamed'
  BY <1>2, <1>3 DEF FlowInv
<1> QED BY <1>4, <1>5, <1>6, <1>7 DEF FlowInv

\* fail() of the reader: the queue is kept or thrown away, and what is on the
\* wire will not be read.
LEMMA FailsFlow ==
    ASSUME FlowInv, HubInv, HubInv', Connected, NEW reason \in ReaderCauses,
           NEW discard \in BOOLEAN, NEW wireLeft, Fails(reason, discard, wireLeft),
           shown' = shown, said' = said, parts' = parts, sent' = sent
    PROVE  FlowInv'
<1>0. pc # "done" /\ reason # None /\ reason \in Causes /\ submitted \in BOOLEAN
  BY DEF Connected, ReaderCauses, None, Causes, HubInv, TypeOK
<1>1. CASE waiter
  <2>1. Unwind(reason, submitted)
    BY <1>1 DEF Fails
  <2>2. said' \in Nat /\ (sent' = 0 => said' = 0)
    BY DEF FlowInv
  <2> QED BY <1>0, <2>1, <2>2, UnwindFlow
<1>2. CASE ~waiter
  <2>1. /\ terminal' = reason /\ (queued' = <<>> \/ queued' = queued)
        /\ UNCHANGED <<pc, outcome, hand, waiter, streamed>>
    BY <1>2 DEF Fails, turn
  <2>2. Pipes'
    <3>1. Fluid' = Fluid /\ Connected' /\ terminal' # None /\ ~waiter'
      BY <1>0, <1>2, <2>1 DEF Fluid, Connected
    <3>2. hand \in Seq(Fluid) /\ queued \in Seq(Seq(Fluid)) /\ <<>> \in Seq(Seq(Fluid))
      BY DEF FlowInv, Pipes
    <3> QED BY <2>1, <3>1, <3>2 DEF Pipes
  <2>3. PICK x, y \in Nat : /\ Chain(PartMoves(said), hand, Len(streamed), x)
                            /\ Chain(FrameMoves(said), queued, x, y)
    BY DEF FlowInv, InFlight
  <2>4. Chain(FrameMoves(said), <<>>, x, x)
    BY ChainEmpty
  <2>5. \E z \in Nat : /\ Chain(PartMoves(said'), hand', Len(streamed'), x)
                       /\ Chain(FrameMoves(said'), queued', x, z)
    BY <2>1, <2>3, <2>4
  <2>6. InFlight'
    BY <1>0, <2>1, <2>5 DEF InFlight
  <2>7. StreamFaithful'
    BY <2>1 DEF FlowInv, StreamFaithful
  <2> QED BY <2>1, <2>2, <2>6, <2>7 DEF FlowInv, Connected
<1> QED BY <1>1, <1>2

\* A step that takes parts on their way, and text only as it moves.
LEMMA FlowMoves ==
    ASSUME FlowInv, Connected, Connected', Pipes', InFlight',
           said' \in Nat, parts' \in Nat, sent' = 0 => said' = 0,
           shown' = shown, streamed' = streamed, ~outcome'.ok
    PROVE  FlowInv'
BY DEF FlowInv, StreamFaithful, Connected

\* In a connection there is no result yet.
LEMMA NotAnswered ==
    ASSUME HubInv, pc # "done"
    PROVE  outcome = NoResult /\ ~NoResult.ok
BY DEF HubInv, SubmissionKnown, NoResult

\* The steps of dialling, and the others outside of a connection.
LEMMA DiallingFlow == FlowInv /\ HubInv /\ HubInv' /\ Dialling => FlowInv'
<1> SUFFICES ASSUME FlowInv, HubInv, HubInv', Dialling PROVE FlowInv'
  OBVIOUS
<1> USE DEF reader, turn, peer, clock, history
<1>0. outcome = NoResult /\ ~NoResult.ok
  <2>1. pc # "done"
    BY DEF Dialling, StartRefused, StartDial, DialError, DialRefused, Dialled, BackoffEnds
  <2> QED BY <2>1, NotAnswered
<1>1. CASE StartDial \/ BackoffEnds
  <2>1. /\ ~Connected /\ ~Connected' /\ pc # "done"
        /\ UNCHANGED <<hand, queued, terminal, waiter, wire, said, parts, streamed, shown, sent, outcome>>
    BY <1>1 DEF StartDial, BackoffEnds, Connected
  <2> QED BY <2>1, FlowStays
<1>2. CASE StartRefused \/ DialError \/ DialRefused
  <2>1. /\ ~Connected /\ pc # "done"
        /\ UNCHANGED <<hand, queued, terminal, waiter, wire, said, parts, streamed, shown, sent>>
    BY <1>2 DEF StartRefused, DialError, DialRefused, Connected
  <2>2. PICK r : Thrown(r) /\ ~r.ok
    <3>1. \A cause : ~Bare(cause).ok /\ ~Attempted(cause, FALSE).ok
      BY DEF Bare, Attempted, NoResult
    <3> QED BY <1>2, <3>1 DEF StartRefused, DialError, DialRefused
  <2>3. ~Attempted("CHAT_DEADLINE_EXCEEDED", FALSE).ok
    BY DEF Attempted, NoResult
  <2>4. ~Connected' /\ ~outcome'.ok
    BY <1>0, <2>2, <2>3 DEF Thrown, Connected
  <2> QED BY <2>1, <2>4, FlowStays
<1>3. CASE Dialled
  <2>1. /\ pc = "dial" /\ pc' = "handshake" /\ waiter' = TRUE
        /\ UNCHANGED <<hand, queued, terminal, wire, said, parts, streamed, shown, sent, outcome>>
    BY <1>3 DEF Dialled
  <2>2. /\ hand = <<>> /\ queued = <<>> /\ wire = <<>> /\ terminal = None /\ streamed = <<>>
        /\ said = 0
    BY <2>1 DEF FlowInv, Pipes, Connected, HubInv, SubmissionKnown
  <2>3. InFlight /\ Connected'
    BY <2>1, <2>2, FlowNothing DEF Connected
  <2>4. InFlight'
    BY <2>1, <2>3 DEF InFlight
  <2>5. Pipes'
    BY <2>1, <2>2, <2>3 DEF Pipes
  <2>6. StreamFaithful'
    BY <2>1 DEF FlowInv, StreamFaithful
  <2> QED BY <2>1, <2>4, <2>5, <2>6 DEF FlowInv
<1> QED BY <1>1, <1>2, <1>3 DEF Dialling

\* The frame at the head of the wire or of the queue, once it is in hand.
LEMMA FrameInHand ==
    ASSUME NEW total, NEW q \in Seq(Seq(Part)), q # <<>>, NEW a, NEW b,
           Chain(FrameMoves(total), q, a, b)
    PROVE  \E m \in Nat : /\ <<Head(q), a, m>> \in FrameMoves(total)
                          /\ Chain(PartMoves(total), Head(q), a, m)
                          /\ Chain(FrameMoves(total), Tail(q), m, b)
<1>1. PICK m \in Nat : <<Head(q), a, m>> \in FrameMoves(total) /\ Chain(FrameMoves(total), Tail(q), m, b)
  BY ChainTail
<1> QED BY <1>1, FrameMove

\* What is in flight, within a connection whose reader has not failed.
LEMMA WholeFlow ==
    ASSUME FlowInv, Connected
    PROVE  \E x, y \in Nat :
             /\ Chain(PartMoves(said), hand, Len(streamed), x)
             /\ Chain(FrameMoves(said), queued, x, y)
             /\ terminal = None => Chain(FrameMoves(said), wire, y, said)
BY DEF FlowInv, InFlight

\* A message event that the reader takes.
LEMMA DeliverFlow ==
    FlowInv /\ HubInv /\ (DeliverToWaiter \/ DeliverToQueue \/ DeliverDropped) => FlowInv'
<1> SUFFICES ASSUME FlowInv, HubInv, DeliverToWaiter \/ DeliverToQueue \/ DeliverDropped PROVE FlowInv'
  OBVIOUS
<1> USE DEF reader, turn, clock, history
<1>0. /\ Connected /\ Connected' /\ wire # <<>> /\ outcome' = outcome /\ ~outcome'.ok
      /\ UNCHANGED <<said, parts, sent, shown, streamed, terminal>>
  <2>1. /\ Connected /\ wire # <<>> /\ pc' = pc /\ outcome' = outcome
        /\ UNCHANGED <<said, parts, sent, shown, streamed, terminal>>
    BY DEF Arrival, DeliverToWaiter, DeliverToQueue, DeliverDropped
  <2> QED BY <2>1, NotAnswered DEF Connected
<1>1. said' \in Nat /\ parts' \in Nat /\ (sent' = 0 => said' = 0)
  BY <1>0 DEF FlowInv
<1>2. Fluid' = Fluid
  BY <1>0 DEF Fluid
<1>3. PICK x, y \in Nat :
        /\ Chain(PartMoves(said), hand, Len(streamed), x)
        /\ Chain(FrameMoves(said), queued, x, y)
        /\ terminal = None => Chain(FrameMoves(said), wire, y, said)
  BY <1>0, WholeFlow
<1>4. CASE DeliverDropped
  <2>1. terminal # None /\ UNCHANGED <<hand, queued, waiter>>
    BY <1>4 DEF DeliverDropped
  <2>2. Pipes'
    BY <1>0, <1>2, <2>1 DEF FlowInv, Pipes
  <2>3. InFlight'
    BY <1>0, <1>3, <2>1 DEF InFlight
  <2> QED BY <1>0, <1>1, <2>2, <2>3, FlowMoves
<1>5. CASE DeliverToWaiter
  <2>1. waiter /\ hand' = Head(wire) /\ ~waiter' /\ wire' = Tail(wire) /\ queued' = queued
    BY <1>5 DEF DeliverToWaiter
  <2>2. hand = <<>> /\ queued = <<>> /\ terminal = None /\ wire \in Seq(Seq(Fluid))
    BY <2>1 DEF FlowInv, Pipes
  <2>3. wire \in Seq(Seq(Part))
    BY <2>2, FluidParts
  <2>4. x = Len(streamed) /\ y = x
    BY <1>3, <2>2, ChainEmpty
  <2>5. PICK m \in Nat : /\ Chain(PartMoves(said), Head(wire), y, m)
                         /\ Chain(FrameMoves(said), Tail(wire), m, said)
    BY <1>0, <1>3, <2>2, <2>3, FrameInHand
  <2>6. Chain(FrameMoves(said), <<>>, m, m)
    BY ChainEmpty
  <2>7. InFlight'
    BY <1>0, <2>1, <2>2, <2>4, <2>5, <2>6 DEF InFlight
  <2>8. Head(wire) \in Seq(Fluid) /\ Tail(wire) \in Seq(Seq(Fluid))
    BY <1>0, <2>2
  <2>9. Pipes'
    BY <1>0, <1>2, <2>1, <2>2, <2>8 DEF Pipes
  <2> QED BY <1>0, <1>1, <2>7, <2>9, FlowMoves
<1>6. CASE DeliverToQueue
  <2>1. /\ terminal = None /\ ~waiter /\ queued' = Append(queued, Head(wire)) /\ wire' = Tail(wire)
        /\ hand' = hand /\ waiter' = waiter
    BY <1>6 DEF DeliverToQueue
  <2>2. hand \in Seq(Fluid) /\ queued \in Seq(Seq(Fluid)) /\ wire \in Seq(Seq(Fluid))
    BY <2>1 DEF FlowInv, Pipes
  <2>3. wire \in Seq(Seq(Part))
    BY <2>2, FluidParts
  <2>5. PICK m \in Nat : /\ <<Head(wire), y, m>> \in FrameMoves(said)
                         /\ Chain(FrameMoves(said), Tail(wire), m, said)
    BY <1>0, <1>3, <2>1, <2>3, FrameInHand
  <2>6. Chain(FrameMoves(said), Append(queued, Head(wire)), x, m)
    BY <1>3, <2>2, <2>5, ChainAppend
  <2>7. InFlight'
    BY <1>0, <1>3, <2>1, <2>5, <2>6 DEF InFlight
  <2>8. Head(wire) \in Seq(Fluid) /\ Tail(wire) \in Seq(Seq(Fluid)) /\ Append(queued, Head(wire)) \in Seq(Seq(Fluid))
    BY <1>0, <2>2
  <2>9. Pipes'
    BY <1>0, <1>2, <2>1, <2>2, <2>8 DEF Pipes
  <2> QED BY <1>0, <1>1, <2>7, <2>9, FlowMoves
<1> QED BY <1>4, <1>5, <1>6

\* The reader's events.
LEMMA ReaderFlow == FlowInv /\ HubInv /\ HubInv' /\ ReaderEvent => FlowInv'
<1> SUFFICES ASSUME FlowInv, HubInv, HubInv', ReaderEvent PROVE FlowInv'
  OBVIOUS
<1> USE DEF reader, turn, peer, clock, history
<1>1. CASE DeliverToWaiter \/ DeliverToQueue \/ DeliverDropped
  BY <1>1, DeliverFlow
<1>2. CASE DeliverOverflow
  BY <1>2, FailsFlow DEF DeliverOverflow, Arrival, ReaderCauses
<1>3. CASE DeliverTooLarge
  BY <1>3, FailsFlow DEF DeliverTooLarge, Arrival, ReaderCauses
<1>4. CASE SocketCloses
  BY <1>4, FailsFlow DEF SocketCloses, ReaderCauses
<1>5. CASE SocketBreaks
  BY <1>5, FailsFlow DEF SocketBreaks, ReaderCauses
<1>6. CASE SignalFires
  <2>1. CASE Connected
    BY <1>6, <2>1, FailsFlow DEF SignalFires, ReaderCauses
  <2>2. CASE ~Connected
    BY <1>6, <2>2, FlowStays DEF SignalFires, Connected
  <2> QED BY <2>1, <2>2
<1>7. CASE HandshakeTimeout
  <2>1. said' \in Nat /\ (sent' = 0 => said' = 0) /\ shown' = shown /\ parts' = parts /\ pc # "done"
    BY <1>7 DEF HandshakeTimeout, FlowInv
  <2> QED BY <1>7, <2>1, UnwindFlow DEF HandshakeTimeout, Causes
<1>8. CASE ReadTimeout
  <2>1. said' \in Nat /\ (sent' = 0 => said' = 0) /\ shown' = shown /\ parts' = parts /\ pc # "done"
        /\ sent' = sent /\ said' = said /\ submitted \in BOOLEAN
    BY <1>8 DEF ReadTimeout, FlowInv, HubInv, TypeOK
  <2>2. CASE left = 0
    BY <1>8, <2>1, <2>2, UnwindFlow DEF ReadTimeout, Causes
  <2>3. CASE left # 0
    <3>1. /\ UNCHANGED <<pc, outcome, hand, queued, terminal, waiter, wire, streamed, shown, said, parts, sent>>
          /\ pc # "done"
      BY <1>8, <2>1, <2>3 DEF ReadTimeout
    <3> QED BY <3>1, FlowStays DEF Connected
  <2> QED BY <2>2, <2>3
<1> QED BY <1>1, <1>2, <1>3, <1>4, <1>5, <1>6, <1>7, <1>8 DEF ReaderEvent

\* A part taken off the hand.
LEMMA PartTaken ==
    ASSUME FlowInv, pc = "read" \/ pc = "handshake", hand # <<>>
    PROVE  /\ Connected /\ Head(hand) \in Fluid /\ Tail(hand) \in Seq(Fluid)
           /\ \E m, x, y \in Nat :
                /\ Len(streamed) \in Nat /\ Moves(Head(hand), Len(streamed), m, said)
                /\ Chain(PartMoves(said), Tail(hand), m, x)
                /\ Chain(FrameMoves(said), queued, x, y)
                /\ terminal = None => Chain(FrameMoves(said), wire, y, said)
<1>1. Connected /\ hand \in Seq(Fluid)
  BY DEF Connected, FlowInv, Pipes
<1>2. PICK x, y \in Nat :
        /\ Chain(PartMoves(said), hand, Len(streamed), x)
        /\ Chain(FrameMoves(said), queued, x, y)
        /\ terminal = None => Chain(FrameMoves(said), wire, y, said)
  BY <1>1, WholeFlow
<1>3. PICK m \in Nat : /\ <<Head(hand), Len(streamed), m>> \in PartMoves(said)
                       /\ Chain(PartMoves(said), Tail(hand), m, x)
  BY <1>1, <1>2, ChainTail
<1>4. Len(streamed) \in Nat /\ Moves(Head(hand), Len(streamed), m, said)
  BY <1>3, PartMove
<1>5. Head(hand) \in Fluid /\ Tail(hand) \in Seq(Fluid)
  BY <1>1
<1> QED BY <1>1, <1>2, <1>3, <1>4, <1>5

\* A part without text is taken off the hand.
LEMMA TakenFlow ==
    ASSUME FlowInv, HubInv, pc = "read" \/ pc = "handshake", hand # <<>>,
           Head(hand).kind \notin {"delta", "snapshot"},
           hand' = Tail(hand), pc' = "read",
           UNCHANGED <<queued, terminal, waiter, wire, streamed, shown, parts, said, outcome>>,
           sent' = 0 => said = 0
    PROVE  FlowInv'
<1>1. /\ Connected /\ Tail(hand) \in Seq(Fluid)
      /\ \E m, x, y \in Nat :
           /\ Len(streamed) \in Nat /\ Moves(Head(hand), Len(streamed), m, said)
           /\ Chain(PartMoves(said), Tail(hand), m, x)
           /\ Chain(FrameMoves(said), queued, x, y)
           /\ terminal = None => Chain(FrameMoves(said), wire, y, said)
  BY PartTaken
<1>2. PICK m, x, y \in Nat :
           /\ Moves(Head(hand), Len(streamed), m, said)
           /\ Chain(PartMoves(said), Tail(hand), m, x)
           /\ Chain(FrameMoves(said), queued, x, y)
           /\ terminal = None => Chain(FrameMoves(said), wire, y, said)
  BY <1>1
<1>3. m = Len(streamed)
  BY <1>2 DEF Moves
<1>4. InFlight'
  BY <1>2, <1>3 DEF InFlight
<1>5. Fluid' = Fluid /\ Connected'
  BY DEF Fluid, Connected
<1>6. Pipes'
  BY <1>1, <1>5 DEF FlowInv, Pipes
<1>7. ~outcome'.ok
  BY NotAnswered
<1>8. said' \in Nat /\ parts' \in Nat
  BY DEF FlowInv
<1> QED BY <1>1, <1>4, <1>5, <1>6, <1>7, <1>8, FlowMoves

\* Text is put together and shown: the next token, or the tokens that a
\* snapshot has more.
LEMMA TextFlow == FlowInv /\ HubInv /\ ReadText => FlowInv'
<1> SUFFICES ASSUME FlowInv, HubInv, ReadText PROVE FlowInv'
  OBVIOUS
<1> DEFINE k == Len(streamed)
           p == Head(hand)
           text == IF p.kind = "delta" THEN streamed \o p.text
                   ELSE AppendChatSnapshot(streamed, p.text)
<1>1. /\ pc = "read" /\ hand # <<>> /\ p.kind \in {"delta", "snapshot"}
      /\ streamed' = text /\ shown' = shown \o SubSeq(text, Len(streamed) + 1, Len(text))
      /\ hand' = Tail(hand)
      /\ UNCHANGED <<pc, queued, terminal, waiter, wire, parts, said, sent, outcome>>
  BY DEF ReadText, Reading, peer
<1>2. /\ Connected /\ Tail(hand) \in Seq(Fluid)
      /\ \E m, x, y \in Nat :
           /\ Len(streamed) \in Nat /\ Moves(Head(hand), Len(streamed), m, said)
           /\ Chain(PartMoves(said), Tail(hand), m, x)
           /\ Chain(FrameMoves(said), queued, x, y)
           /\ terminal = None => Chain(FrameMoves(said), wire, y, said)
  BY <1>1, PartTaken
<1>3. PICK m, x, y \in Nat :
           /\ Moves(p, k, m, said)
           /\ Chain(PartMoves(said), Tail(hand), m, x)
           /\ Chain(FrameMoves(said), queued, x, y)
           /\ terminal = None => Chain(FrameMoves(said), wire, y, said)
  BY <1>2
<1>4. k \in Nat /\ streamed = Upto(k) /\ shown = streamed /\ streamed \in Seq(Nat)
  BY <1>1, <1>2 DEF FlowInv, StreamFaithful
<1>5. text = Upto(m) /\ m >= k
  <2>1. CASE p.kind = "delta"
    <3>1. p.text = <<m>> /\ m = k + 1
      BY <1>3, <2>1 DEF Moves
    <3>2. text = streamed \o <<m>>
      BY <2>1, <3>1
    <3>3. Len(streamed \o <<m>>) = m /\ streamed \o <<m>> \in Seq(Nat)
      BY <1>4, <3>1
    <3>4. ASSUME NEW i \in 1..m PROVE (streamed \o <<m>>)[i] = i
      <4>1. \A j \in 1..k : streamed[j] = j
        BY <1>4, UptoShape
      <4> QED BY <1>4, <3>1, <4>1
    <3>5. streamed \o <<m>> = Upto(m)
      BY <3>3, <3>4, UptoOnly
    <3>6. m >= k
      BY <1>4, <3>1
    <3> HIDE DEF text, k
    <3> QED BY <3>2, <3>5, <3>6
  <2>2. CASE p.kind = "snapshot"
    <3>1. PICK j \in 1..(k + 1) : p.text = Upto(j) /\ m = Greater(k, j)
      BY <1>3, <2>2 DEF Moves
    <3>2. text = AppendChatSnapshot(Upto(k), Upto(j))
      BY <1>4, <2>2, <3>1
    <3>3. j \in Nat \ {0}
      BY <1>4
    <3>4. m >= k
      BY <1>4, <3>1, <3>3 DEF Greater
    <3> QED BY <1>4, <3>1, <3>2, <3>3, <3>4, SnapshotText
  <2> QED BY <1>1, <2>1, <2>2
<1> HIDE DEF text
<1>6. Len(text) = m /\ text \in Seq(Nat) /\ \A i \in 1..m : text[i] = i
  BY <1>5, UptoShape
<1>7. shown' = text
  <2> DEFINE more == SubSeq(text, k + 1, m)
  <2>1. more \in Seq(Nat) /\ Len(more) = m - k /\ \A i \in 1..(m - k) : more[i] = text[k + i]
    BY <1>4, <1>5, <1>6
  <2> HIDE DEF more
  <2>2. \A i \in 1..k : streamed[i] = i
    BY <1>4, UptoShape
  <2>3. streamed \o more \in Seq(Nat) /\ Len(streamed \o more) = m
    BY <1>4, <1>5, <2>1
  <2>4. ASSUME NEW i \in 1..m PROVE (streamed \o more)[i] = i
    <3>1. CASE i <= k
      BY <1>4, <2>1, <2>2, <3>1
    <3>2. CASE i > k
      <4>1. (streamed \o more)[i] = more[i - k] /\ i - k \in 1..(m - k)
        BY <1>4, <1>5, <2>1, <3>2
      <4>2. more[i - k] = text[k + (i - k)]
        BY <2>1, <4>1
      <4>3. k + (i - k) = i
        BY <1>4
      <4> HIDE DEF k
      <4> QED BY <1>6, <4>1, <4>2, <4>3
    <3>3. i <= k \/ i > k
      BY <1>4
    <3> QED BY <3>1, <3>2, <3>3
  <2>5. streamed \o more = Upto(m)
    BY <2>3, <2>4, UptoOnly
  <2>6. shown' = streamed \o more
    BY <1>1, <1>4, <1>6 DEF more
  <2> QED BY <1>5, <2>5, <2>6
<1>8. Len(streamed') = m
  BY <1>1, <1>6
<1>9. InFlight'
  BY <1>1, <1>3, <1>8 DEF InFlight
<1>10. Fluid' = Fluid /\ Connected'
  BY <1>1 DEF Fluid, Connected
<1>11. Pipes'
  BY <1>1, <1>2, <1>10 DEF FlowInv, Pipes
<1>12. ~outcome'.ok
  BY <1>1, NotAnswered
<1>13. StreamFaithful'
  BY <1>5, <1>6, <1>7, <1>12 DEF StreamFaithful
<1>14. said' \in Nat /\ parts' \in Nat /\ (sent' = 0 => said' = 0)
  BY <1>1 DEF FlowInv
<1> QED BY <1>1, <1>6, <1>7, <1>9, <1>11, <1>13, <1>14 DEF FlowInv

\* The handshake and the reading loop.
LEMMA LoopFlow == FlowInv /\ HubInv /\ HubInv' /\ Loop => FlowInv'
<1> SUFFICES ASSUME FlowInv, HubInv, HubInv', Loop PROVE FlowInv'
  OBVIOUS
<1> USE DEF reader, turn, peer, clock, history
<1>0. submitted \in BOOLEAN /\ FALSE \in BOOLEAN /\ TRUE \in BOOLEAN
  BY DEF HubInv, TypeOK
<1>1. CASE HandshakeFails \/ SubmitThrows \/ LoopDeadline \/ ReaderFailed \/ ReadPingThrows \/ ReadError
           \/ ReadEndInVain
  <2>1. /\ said' = said /\ sent' = sent /\ shown' = shown /\ parts' = parts /\ pc # "done"
        /\ \E cause \in Causes, flag \in BOOLEAN : Unwind(cause, flag)
    <3>1. CASE HandshakeFails
      BY <1>0, <3>1 DEF HandshakeFails, Causes
    <3>2. CASE SubmitThrows
      BY <1>0, <3>2 DEF SubmitThrows, Causes
    <3>3. CASE LoopDeadline
      BY <1>0, <3>3 DEF LoopDeadline, BetweenFrames, Causes
    <3>4. CASE ReaderFailed
      <4>1. terminal \in Causes
        BY <3>4 DEF ReaderFailed, ReaderCauses, Causes, HubInv, TypeOK
      <4> QED BY <1>0, <3>4, <4>1 DEF ReaderFailed, BetweenFrames
    <3>5. CASE ReadPingThrows
      BY <1>0, <3>5 DEF ReadPingThrows, Reading, Causes
    <3>6. CASE ReadError
      BY <1>0, <3>6 DEF ReadError, Reading, Causes
    <3>7. CASE ReadEndInVain
      BY <1>0, <3>7 DEF ReadEndInVain, Reading, Causes
    <3> QED BY <1>1, <3>1, <3>2, <3>3, <3>4, <3>5, <3>6, <3>7
  <2>2. said' \in Nat /\ (sent' = 0 => said' = 0)
    BY <2>1 DEF FlowInv
  <2> QED BY <2>1, <2>2, UnwindFlow
<1>2. CASE Submit
  <2>1. said = 0 /\ said' = 0 /\ said' = said /\ parts' = parts /\ shown' = shown /\ pc = "handshake"
    BY <1>2 DEF Submit, HubInv, SubmissionKnown, FlowInv
  <2>2. CASE left = 0
    <3>1. Unwind("CHAT_DEADLINE_EXCEEDED", TRUE) /\ "CHAT_DEADLINE_EXCEEDED" \in Causes
      BY <1>2, <2>2 DEF Submit, Causes
    <3>2. pc # "done" /\ said' \in Nat /\ (sent' = 0 => said' = 0)
      BY <2>1
    <3> QED BY <1>0, <2>1, <3>1, <3>2, UnwindFlow
  <2>3. CASE left # 0
    <3>1. /\ hand # <<>> /\ Head(hand).kind = "hello" /\ hand' = Tail(hand) /\ pc' = "read"
          /\ UNCHANGED <<queued, terminal, waiter, wire, streamed, outcome>>
      BY <1>2, <2>3 DEF Submit
    <3> QED BY <2>1, <3>1, TakenFlow
  <2> QED BY <2>2, <2>3
<1>3. CASE TakeQueued
  <2>1. /\ pc = "read" /\ hand = <<>> /\ ~waiter /\ queued # <<>>
        /\ hand' = Head(queued) /\ queued' = Tail(queued)
        /\ UNCHANGED <<pc, terminal, waiter, wire, said, parts, streamed, shown, sent, outcome>>
    BY <1>3 DEF TakeQueued, BetweenFrames
  <2>2. Connected /\ Connected' /\ Fluid' = Fluid
    BY <2>1 DEF Connected, Fluid
  <2>3. PICK x, y \in Nat :
          /\ Chain(PartMoves(said), hand, Len(streamed), x)
          /\ Chain(FrameMoves(said), queued, x, y)
          /\ terminal = None => Chain(FrameMoves(said), wire, y, said)
    BY <2>2, WholeFlow
  <2>4. queued \in Seq(Seq(Fluid))
    BY DEF FlowInv, Pipes
  <2>5. queued \in Seq(Seq(Part))
    BY <2>4, FluidParts
  <2>6. PICK m \in Nat : /\ Chain(PartMoves(said), Head(queued), x, m)
                         /\ Chain(FrameMoves(said), Tail(queued), m, y)
    BY <2>1, <2>3, <2>5, FrameInHand
  <2>7. x = Len(streamed)
    BY <2>1, <2>3, ChainEmpty
  <2>8. InFlight'
    BY <2>1, <2>3, <2>6, <2>7 DEF InFlight
  <2>9. Head(queued) \in Seq(Fluid) /\ Tail(queued) \in Seq(Seq(Fluid))
    BY <2>1, <2>4
  <2>10. Pipes'
    BY <2>1, <2>2, <2>9 DEF FlowInv, Pipes
  <2>11. ~outcome'.ok
    BY <2>1, NotAnswered
  <2>12. said' \in Nat /\ parts' \in Nat /\ (sent' = 0 => said' = 0)
    BY <2>1 DEF FlowInv
  <2> QED BY <2>1, <2>2, <2>8, <2>10, <2>11, <2>12, FlowMoves
<1>4. CASE Wait
  <2>1. /\ pc = "read" /\ hand = <<>> /\ queued = <<>> /\ terminal = None
        /\ UNCHANGED <<pc, hand, queued, terminal, wire, said, parts, streamed, shown, sent, outcome>>
    BY <1>4 DEF Wait, BetweenFrames
  <2>2. Connected /\ Connected' /\ Fluid' = Fluid
    BY <2>1 DEF Connected, Fluid
  <2>3. Pipes'
    BY <2>1, <2>2 DEF FlowInv, Pipes
  <2>4. InFlight'
    BY <2>1, <2>2 DEF FlowInv, InFlight
  <2>5. ~outcome'.ok
    BY <2>1, NotAnswered
  <2>6. said' \in Nat /\ parts' \in Nat /\ (sent' = 0 => said' = 0)
    BY <2>1 DEF FlowInv
  <2> QED BY <2>1, <2>2, <2>3, <2>4, <2>5, <2>6, FlowMoves
<1>5. CASE ReadIgnored \/ ReadMark
  <2>1. /\ pc = "read" /\ hand # <<>> /\ Head(hand).kind \notin {"delta", "snapshot"}
        /\ hand' = Tail(hand) /\ pc' = "read" /\ sent' = sent
        /\ UNCHANGED <<queued, terminal, waiter, wire, streamed, shown, parts, said, outcome>>
    BY <1>5 DEF ReadIgnored, ReadMark, Reading, Marking
  <2>2. sent' = 0 => said = 0
    BY <2>1 DEF FlowInv
  <2> QED BY <2>1, <2>2, TakenFlow
<1>6. CASE ReadText
  BY <1>6, TextFlow
<1>7. CASE ReadEnd
  <2>1. /\ pc = "read" /\ hand # <<>> /\ Head(hand).kind = "end" /\ pc' = "done" /\ Disconnected
        /\ UNCHANGED <<said, parts, sent, shown>>
    BY <1>7 DEF ReadEnd, Reading
  <2>2. \E m \in Nat : Moves(Head(hand), Len(streamed), m, said)
    BY <2>1, PartTaken
  <2>3. Len(streamed) = said
    BY <2>1, <2>2 DEF Moves
  <2>4. Len(shown) = said
    BY <2>1, <2>3 DEF FlowInv
  <2>5. StreamFaithful'
    BY <2>1, <2>4 DEF FlowInv, StreamFaithful
  <2>6. ~Connected'
    BY <2>1 DEF Connected
  <2>7. Pipes'
    BY <2>1, <2>6 DEF Disconnected, Pipes
  <2> QED BY <2>1, <2>5, <2>6, <2>7 DEF FlowInv
<1> QED BY <1>1, <1>2, <1>3, <1>4, <1>5, <1>6, <1>7 DEF Loop

\* A part Microsoft sends takes the tokens from what was said to what is said.
LEMMA SentPart ==
    ASSUME FlowInv, MicrosoftSends
    PROVE  \E p \in Part :
             /\ Put(p) /\ said' \in Nat /\ parts' \in Nat /\ said' >= said
             /\ Moves(p, said, said', said') /\ Fluid \subseteq Fluid' /\ p \in Fluid'
             /\ said' # said => submitted
<1> DEFINE Sent(kind, n) ==
             [kind |-> kind,
              text |-> CASE kind = "delta" -> <<n>> [] kind = "snapshot" -> Upto(n) [] OTHER -> <<>>]
<1>1. PICK kind \in (IF submitted THEN LateKinds ELSE EarlyKinds) :
        \E n \in CASE kind = "delta" -> {said + 1} [] kind = "snapshot" -> 1..(said + 1) [] OTHER -> {0} :
           /\ said' = IF n > said THEN n ELSE said
           /\ Put(Sent(kind, n))
           /\ parts' = IF kind \in Ending THEN MaxParts ELSE parts + 1
  BY DEF MicrosoftSends
<1>2. said \in Nat /\ parts \in Nat /\ parts < MaxParts /\ MaxParts \in Nat
  BY HubConstants DEF FlowInv, MicrosoftSends
<1>3. kind \in EarlyKinds \cup LateKinds
  BY <1>1
<1>4. parts' \in Nat /\ Fluid \subseteq Fluid' /\ (kind = "end" => parts' = MaxParts)
  <2>1. parts' \in Nat /\ (kind = "end" => parts' = MaxParts)
    BY <1>1, <1>2 DEF Ending
  <2> QED BY <1>2, <2>1 DEF Fluid
<1>5. CASE kind = "delta"
  <2>1. said' = said + 1 /\ Put(Sent(kind, said + 1))
    BY <1>1, <1>2, <1>5
  <2>2. Sent(kind, said + 1) = [kind |-> "delta", text |-> <<said + 1>>]
    BY <1>5
  <2> DEFINE p == [kind |-> "delta", text |-> <<said + 1>>]
  <2>3. p \in Part /\ p.kind = "delta" /\ p.text = <<said + 1>>
    BY <1>2, <1>3, <1>5 DEF Part
  <2>4. Put(p)
    BY <2>1, <2>2
  <2> HIDE DEF p
  <2>5. Moves(p, said, said', said') /\ p \in Fluid'
    BY <2>1, <2>3 DEF Moves, Fluid
  <2>6. submitted
    BY <1>1, <1>5 DEF EarlyKinds
  <2>7. said' \in Nat /\ said' >= said
    BY <1>2, <2>1
  <2> QED BY <1>4, <2>3, <2>4, <2>5, <2>6, <2>7
<1>6. CASE kind = "snapshot"
  <2>1. PICK n \in 1..(said + 1) : said' = (IF n > said THEN n ELSE said) /\ Put(Sent(kind, n))
    BY <1>1, <1>6
  <2>2. Sent(kind, n) = [kind |-> "snapshot", text |-> Upto(n)]
    BY <1>6
  <2> DEFINE p == [kind |-> "snapshot", text |-> Upto(n)]
  <2>3. p \in Part /\ p.kind = "snapshot" /\ p.text = Upto(n)
    BY <1>2, <1>3, <1>6, UptoShape DEF Part
  <2>4. Put(p)
    BY <2>1, <2>2
  <2> HIDE DEF p
  <2>5. said' = Greater(said, n)
    BY <1>2, <2>1 DEF Greater
  <2>6. Moves(p, said, said', said') /\ p \in Fluid'
    BY <2>3, <2>5 DEF Moves, Fluid
  <2>7. submitted
    BY <1>1, <1>6 DEF EarlyKinds
  <2>8. said' \in Nat /\ said' >= said
    BY <1>2, <2>1
  <2> QED BY <1>4, <2>3, <2>4, <2>6, <2>7, <2>8
<1>7. CASE kind \notin {"delta", "snapshot"}
  <2>1. said' = said /\ Put(Sent(kind, 0))
    BY <1>1, <1>2, <1>7
  <2>2. Sent(kind, 0) = [kind |-> kind, text |-> <<>>]
    BY <1>7
  <2> DEFINE p == [kind |-> kind, text |-> <<>>]
  <2>3. p \in Part /\ p.kind = kind
    BY <1>3 DEF Part
  <2>4. Put(p)
    BY <2>1, <2>2
  <2> HIDE DEF p
  <2>5. Moves(p, said, said', said')
    BY <1>7, <2>1, <2>3 DEF Moves
  <2>6. p \in Fluid'
    BY <1>2, <1>4, <2>3 DEF Fluid
  <2> QED BY <1>2, <1>4, <2>1, <2>3, <2>4, <2>5, <2>6
<1> QED BY <1>5, <1>6, <1>7

\* Before the end is sent, the total says nothing.
LEMMA TotalFree ==
    ASSUME NEW S, S \subseteq {p \in Part : p.kind # "end"}, NEW total, NEW more
    PROVE  /\ \A p \in S, m, n \in Nat : <<p, m, n>> \in PartMoves(total) => <<p, m, n>> \in PartMoves(more)
           /\ \A f \in Seq(S), m, n \in Nat : <<f, m, n>> \in FrameMoves(total) => <<f, m, n>> \in FrameMoves(more)
<1>1. ASSUME NEW p \in S, NEW m \in Nat, NEW n \in Nat, <<p, m, n>> \in PartMoves(total)
      PROVE  <<p, m, n>> \in PartMoves(more)
  <2>1. p \in Part /\ p.kind # "end" /\ Moves(p, m, n, total)
    BY <1>1, PartMove
  <2>2. Moves(p, m, n, more)
    BY <2>1 DEF Moves
  <2> QED BY <2>1, <2>2, PartMove
<1>2. ASSUME NEW f \in Seq(S), NEW m \in Nat, NEW n \in Nat, <<f, m, n>> \in FrameMoves(total)
      PROVE  <<f, m, n>> \in FrameMoves(more)
  <2>1. f \in Seq(Part) /\ Chain(PartMoves(total), f, m, n)
    BY <1>2, FrameMove
  <2>2. Chain(PartMoves(more), f, m, n)
    BY <1>1, <2>1, ChainWiden
  <2> QED BY <2>1, <2>2, FrameMove
<1> QED BY <1>1, <1>2

\* Microsoft sends a part, in a frame of its own or with the frame before it.
LEMMA SendsFlow == FlowInv /\ HubInv /\ MicrosoftSends => FlowInv'
<1> SUFFICES ASSUME FlowInv, HubInv, MicrosoftSends PROVE FlowInv'
  OBVIOUS
<1> USE DEF reader, turn, clock, history
<1>1. /\ Connected /\ Connected' /\ terminal = None /\ parts < MaxParts
      /\ UNCHANGED <<hand, queued, terminal, waiter, streamed, shown, sent, outcome>>
  BY DEF MicrosoftSends, Connected
<1>2. PICK p \in Part :
        /\ Put(p) /\ said' \in Nat /\ parts' \in Nat /\ said' >= said
        /\ Moves(p, said, said', said') /\ Fluid \subseteq Fluid' /\ p \in Fluid'
        /\ said' # said => submitted
  BY SentPart
<1> DEFINE S == Fluid
<1>3. S \subseteq {e \in Part : e.kind # "end"} /\ S \subseteq Part
  BY <1>1 DEF Fluid
<1>4. hand \in Seq(S) /\ queued \in Seq(Seq(S)) /\ wire \in Seq(Seq(S))
  BY <1>1 DEF FlowInv, Pipes
<1> HIDE DEF S
<1>5. PICK x, y \in Nat :
        /\ Chain(PartMoves(said), hand, Len(streamed), x)
        /\ Chain(FrameMoves(said), queued, x, y)
        /\ Chain(FrameMoves(said), wire, y, said)
  BY <1>1, WholeFlow
<1>6. /\ \A e \in S, m, n \in Nat : <<e, m, n>> \in PartMoves(said) => <<e, m, n>> \in PartMoves(said')
      /\ \A f \in Seq(S), m, n \in Nat : <<f, m, n>> \in FrameMoves(said) => <<f, m, n>> \in FrameMoves(said')
  BY <1>3, TotalFree
<1>7. /\ Chain(PartMoves(said'), hand, Len(streamed), x)
      /\ Chain(FrameMoves(said'), queued, x, y)
      /\ Chain(FrameMoves(said'), wire, y, said)
  <2>1. Chain(PartMoves(said'), hand, Len(streamed), x)
    BY <1>4, <1>5, <1>6, ChainWiden
  <2>2. Chain(FrameMoves(said'), queued, x, y)
    BY <1>4, <1>5, <1>6, ChainWiden
  <2>3. Chain(FrameMoves(said'), wire, y, said)
    BY <1>4, <1>5, <1>6, ChainWiden
  <2> QED BY <2>1, <2>2, <2>3
<1>8. said \in Nat /\ <<p, said, said'>> \in PartMoves(said')
  <2>1. said \in Nat
    BY DEF FlowInv
  <2> QED BY <1>2, <2>1, PartMove
<1>9. /\ Chain(FrameMoves(said'), wire', y, said')
      /\ wire' \in Seq(Seq(Fluid'))
  <2>1. wire \in Seq(Seq(Fluid')) /\ Seq(Fluid') \subseteq Seq(Part)
    BY <1>2, <1>4 DEF S, Fluid
  <2>2. CASE wire' = Append(wire, <<p>>)
    <3>1. Chain(PartMoves(said'), <<>>, said, said) /\ <<>> \in Seq(Part) /\ Append(<<>>, p) = <<p>>
      BY <1>8, ChainEmpty
    <3>2. Chain(PartMoves(said'), Append(<<>>, p), said, said')
      BY <1>2, <1>8, <3>1, ChainAppend
    <3>3. <<p>> \in Seq(Part) /\ <<p>> \in Seq(Fluid')
      BY <1>2
    <3>4. <<<<p>>, said, said'>> \in FrameMoves(said')
      BY <1>2, <1>8, <3>1, <3>2, <3>3, FrameMove
    <3>5. Chain(FrameMoves(said'), Append(wire, <<p>>), y, said')
      BY <1>2, <1>4, <1>7, <3>4, ChainAppend
    <3> QED BY <2>1, <2>2, <3>3, <3>5
  <2>3. CASE wire # <<>> /\ wire' = [wire EXCEPT ![Len(wire)] = Append(wire[Len(wire)], p)]
    <3> DEFINE f == wire[Len(wire)]
               g == Append(f, p)
    <3>1. f \in Seq(Part) /\ f \in Seq(Fluid')
      BY <2>1, <2>3
    <3>2. g \in Seq(Part) /\ g \in Seq(Fluid')
      BY <1>2, <3>1
    <3>3. ASSUME NEW m \in Nat, <<f, m, said>> \in FrameMoves(said')
          PROVE  <<g, m, said'>> \in FrameMoves(said')
      <4>1. Chain(PartMoves(said'), f, m, said)
        BY <3>3, FrameMove
      <4> HIDE DEF f
      <4>2. Chain(PartMoves(said'), g, m, said')
        BY <1>2, <1>8, <3>1, <4>1, ChainAppend
      <4> QED BY <1>2, <3>2, <4>2, FrameMove
    <3> HIDE DEF g
    <3>4. Chain(FrameMoves(said'), [wire EXCEPT ![Len(wire)] = g], y, said')
      BY <1>2, <1>4, <1>7, <2>3, <3>3, ChainLast
    <3>5. [wire EXCEPT ![Len(wire)] = g] \in Seq(Seq(Fluid'))
      BY <2>1, <2>3, <3>2
    <3> QED BY <2>3, <3>4, <3>5 DEF g
  <2> QED BY <1>2, <2>2, <2>3 DEF Put
<1>10. InFlight'
  BY <1>1, <1>7, <1>9 DEF InFlight
<1>11. Pipes'
  <2>1. hand' \in Seq(Fluid') /\ queued' \in Seq(Seq(Fluid'))
    BY <1>1, <1>2, <1>4 DEF S
  <2>2. waiter' => hand' = <<>> /\ queued' = <<>> /\ terminal' = None
    BY <1>1 DEF FlowInv, Pipes
  <2> QED BY <1>1, <1>9, <2>1, <2>2 DEF Pipes
<1>12. ~outcome'.ok
  BY <1>1, NotAnswered DEF Connected
<1>13. sent' = 0 => said' = 0
  BY <1>1, <1>2 DEF FlowInv, HubInv, SubmissionKnown, Connected
<1> QED BY <1>1, <1>2, <1>10, <1>11, <1>12, <1>13, FlowMoves

\* What StreamFaithful needs holds throughout the call.
THEOREM FlowInvariant == Spec => []FlowInv
<1>1. Init => FlowInv
  <2> SUFFICES ASSUME Init PROVE FlowInv
    OBVIOUS
  <2>1. /\ hand = <<>> /\ queued = <<>> /\ wire = <<>> /\ terminal = None /\ ~waiter /\ streamed = <<>>
        /\ said = 0 /\ parts = 0 /\ sent = 0 /\ shown = <<>> /\ pc = "start" /\ outcome = NoResult
    BY DEF Init
  <2>2. ~Connected
    BY <2>1 DEF Connected
  <2>3. StreamFaithful
    <3>1. shown = Upto(0) /\ Len(shown) = 0
      BY <2>1 DEF Upto
    <3> QED BY <2>1, <3>1 DEF StreamFaithful, NoResult
  <2> QED BY <2>1, <2>2, <2>3 DEF FlowInv, Pipes
<1>2. HubInv /\ HubInv' /\ FlowInv /\ [Next]_vars => FlowInv'
  <2> SUFFICES ASSUME HubInv, HubInv', FlowInv, [Next]_vars PROVE FlowInv'
    OBVIOUS
  <2>1. CASE RunnerReplies \/ ReplyLost \/ Tick \/ UNCHANGED vars
    <3>1. /\ UNCHANGED <<hand, queued, terminal, waiter, wire, said, parts, streamed, shown, sent, outcome, pc>>
      BY <2>1 DEF RunnerReplies, ReplyLost, Tick, vars, reader, turn, peer, clock, history
    <3> QED BY <3>1, FlowStays DEF Connected
  <2> QED BY <2>1, DiallingFlow, ReaderFlow, LoopFlow, SendsFlow DEF Next, Finished
<1> QED BY <1>1, <1>2, HubInvariant, PTL DEF Spec

\* The text handed on is what Microsoft said, in order, without gaps and
\* repetitions, and all of it when the call is answered.
THEOREM TextIsFaithful == Spec => []StreamFaithful
<1>1. FlowInv => StreamFaithful
  BY DEF FlowInv
<1> QED BY <1>1, FlowInvariant, PTL
=============================================================================
