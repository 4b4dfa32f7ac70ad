----------------------------- MODULE Invocation -----------------------------
(***************************************************************************)
(* What the ChatHub client promises its caller about one logical           *)
(* invocation: the prompt is submitted to Microsoft at most once, the      *)
(* caller gets exactly one verdict, an answer is the answer to a submitted *)
(* prompt, and a failure says truthfully whether the prompt had been       *)
(* submitted.  The caller releases or tombstones a conversation, and fails *)
(* over to another account or not, on the strength of that verdict.        *)
(***************************************************************************)
EXTENDS Naturals

VARIABLES told,      \* how many times Microsoft was told the prompt
          verdict    \* what the caller was told

Verdicts == {"pending", "answered", "failed unsubmitted", "failed submitted"}

Init == told = 0 /\ verdict = "pending"

Submit ==
    /\ verdict = "pending" /\ told = 0
    /\ told' = 1
    /\ UNCHANGED verdict

\* Submitting and failing in one step: the deadline passes while the prompt is sent.
SubmitInVain ==
    /\ verdict = "pending" /\ told = 0
    /\ told' = 1
    /\ verdict' = "failed submitted"

Answer ==
    /\ verdict = "pending" /\ told = 1
    /\ verdict' = "answered"
    /\ UNCHANGED told

Fail ==
    /\ verdict = "pending"
    /\ verdict' = IF told = 1 THEN "failed submitted" ELSE "failed unsubmitted"
    /\ UNCHANGED told

Next == Submit \/ SubmitInVain \/ Answer \/ Fail

Spec == Init /\ [][Next]_<<told, verdict>>
=============================================================================
