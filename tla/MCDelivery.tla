----------------------------- MODULE MCDelivery -----------------------------
(***************************************************************************)
(* The instance of Delivery that TLC checks.  A step of the tenant object  *)
(* and a step of the request in hand do not read each other's state, so    *)
(* that it is enough to take the tenant's steps between requests, with any *)
(* number of records under way.  The first request is of any kind; the     *)
(* others, whose records it meets, are image requests, and the             *)
(* administrator acts when the first of them has ended: the first          *)
(* request's record may still be under way.                                *)
(***************************************************************************)
EXTENDS Delivery

MCNext ==
    \/ RequestStep /\ (id' > 1 => q'.kind = "images")
    \/ Done /\ Recorder
    \/ Done /\ id > 1 /\ Administrator

MCSpec == Init /\ [][MCNext]_vars /\ RequestFairness /\ WF_vars(Done /\ Recorder)
=============================================================================
