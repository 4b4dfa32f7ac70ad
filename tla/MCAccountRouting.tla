-------------------------- MODULE MCAccountRouting --------------------------
(***************************************************************************)
(* Bounded instances of AccountRouting for TLC: MCSpec is the whole        *)
(* specification; FixedPoolSpec starts when the administrator has added    *)
(* every account, and leaves the pool alone, so that more requests and     *)
(* more tenures fit.                                                       *)
(***************************************************************************)
EXTENDS AccountRouting, TLC

CONSTANT MaxEpoch, MaxCounter   \* bounds on the route epoch and the sequence counter

MCBaseCooldown == [kind \in CoolingKinds |-> 1]
MCMaxCooldown == [kind \in CoolingKinds |-> 2]

Symmetry == Permutations(Accounts) \cup Permutations(Requests)

Bounded ==
    /\ route'.epoch <= MaxEpoch
    /\ counter' <= MaxCounter

MCNext == Next /\ Bounded

MCSpec == Init /\ [][MCNext]_vars

\* The state after one upsertAccount for every account.
FixedPoolInit ==
    /\ stored = Accounts
    /\ counter = Cardinality(Accounts)
    /\ seq \in {s \in [Accounts -> 1..counter] : \A a, b \in Accounts : s[a] = s[b] => a = b}
    /\ health = [a \in Accounts |-> Healthy]
    /\ route = [id |-> FirstAfter(Accounts, seq, 0), epoch |-> 1]
    /\ upserts = {}
    /\ alarm = NoAccount
    /\ reqs = [r \in Requests |-> Idle]

FixedPoolNext == Undisturbed /\ Bounded

FixedPoolSpec == FixedPoolInit /\ [][FixedPoolNext]_vars
=============================================================================
