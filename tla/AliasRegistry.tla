---------------------------- MODULE AliasRegistry ----------------------------
(***************************************************************************)
(* The response aliases of a tenant and the registry that bounds them      *)
(* (src/src/chat-session.ts).  Every stored response is an alias: a        *)
(* ChatSession object of its own whose row lets a client continue from the *)
(* response.  All alias objects register at one registry object, which     *)
(* evicts older ones, one RPC after the other, when a new alias            *)
(* exceeds a bound.  The registry admits nobody else while it does so      *)
(* (blockConcurrencyWhile).                                                *)
(*                                                                         *)
(* An alias stands for the response id and the generation its object draws *)
(* and is used again only when nothing is left of it.  seedAlias calls     *)
(* seed once per response, so seed's answer to a repeated call is left     *)
(* out.  Row and registry hold the same expiry, left; instants are         *)
(* modelled by what is left of them, see AccountRouting.                   *)
(***************************************************************************)
EXTENDS Integers, FiniteSets, Sequences

CONSTANTS
    Aliases, NoAlias,
    Groups,       \* hashes of account and conversation (responseAliasGroup)
    MaxGroup,     \* MAX_RESPONSE_ALIASES_PER_UPSTREAM
    MaxTotal,     \* MAX_RESPONSE_ALIASES_TOTAL
    AliasTtl      \* RESPONSE_ALIAS_TTL_MS

ASSUME RegistryConstants ==
    /\ NoAlias \notin Aliases
    /\ MaxGroup \in Nat \ {0} /\ MaxTotal \in Nat \ {0}
    /\ AliasTtl \in Nat \ {0}

VARIABLES
    live,      \* aliases whose object has its row
    leased,    \* aliases whose row is leased to a request
    group,     \* alias_group_id, of the conversation the response belongs to
    left,      \* to alias_expires_at
    seeds,     \* what an alias's seed() waits for
    reg,       \* table alias_registry, by sequence
    op,        \* what the registry is doing, see Operation
    notices,   \* unregisterResponseAlias calls on their way
    orphan     \* history: aliases whose seed() died, or gave up on a leased row

vars == <<live, leased, group, left, seeds, reg, op, notices, orphan>>
objects == <<live, leased, group, left>>

Operation == [kind : {"none", "register", "sweep"},
              alias : Aliases \cup {NoAlias}, victims : SUBSET Aliases]
NoOp == [kind |-> "none", alias |-> NoAlias, victims |-> {}]

Registered == {reg[i] : i \in 1..Len(reg)}

Init ==
    /\ live = {} /\ leased = {}
    /\ group \in [Aliases -> Groups]
    /\ left = [a \in Aliases |-> 0]
    /\ seeds = [a \in Aliases |-> "none"]
    /\ reg = <<>>
    /\ op = NoOp
    /\ notices = {} /\ orphan = {}

-----------------------------------------------------------------------------
(* The alias objects.                                                      *)

\* seed inserts the row and calls the registry.
Seed(a) ==
    /\ a \notin live \cup Registered \cup notices
    /\ seeds[a] = "none" /\ op.alias # a
    /\ live' = live \cup {a}
    /\ left' = [left EXCEPT ![a] = AliasTtl]
    /\ seeds' = [seeds EXCEPT ![a] = "asking"]
    /\ orphan' = orphan \ {a}
    /\ UNCHANGED <<leased, group, reg, op, notices>>

\* evictResponseAlias, which a lease forbids.
Evicted(a) == IF a \in leased THEN live ELSE live \ {a}

\* The failed seed removes its row and throws.
SeedFails(a) ==
    /\ seeds[a] = "failed"
    /\ seeds' = [seeds EXCEPT ![a] = "none"]
    /\ live' = Evicted(a)
    /\ orphan' = orphan \cup (live' \cap {a})
    /\ UNCHANGED <<leased, group, left, reg, op, notices>>

\* The object dies in seed, the row is written.
SeedDies(a) ==
    /\ seeds[a] # "none"
    /\ seeds' = [seeds EXCEPT ![a] = "none"]
    /\ orphan' = orphan \cup {a}
    /\ UNCHANGED <<objects, reg, op, notices>>

\* The registry's answer, or the call itself, is lost.
SeedUnanswered(a) ==
    /\ seeds[a] \in {"asking", "registering"}
    /\ seeds' = [seeds EXCEPT ![a] = "failed"]
    /\ UNCHANGED <<objects, reg, op, notices, orphan>>

\* A request continues from the response, which it may know from the stream's
\* first event, and ends.
Acquire(a) ==
    /\ a \in live \ leased /\ left[a] > 0
    /\ leased' = leased \cup {a}
    /\ UNCHANGED <<live, group, left, seeds, reg, op, notices, orphan>>

EndLease(a) ==
    /\ a \in leased
    /\ leased' = leased \ {a}
    /\ UNCHANGED <<live, group, left, seeds, reg, op, notices, orphan>>

\* The alarm (expireIfIdle) or an acquire finds the row expired and deletes it,
\* the latter also under a lease (deleteCurrentState).
Expire(a) ==
    /\ a \in live /\ left[a] = 0
    /\ live' = live \ {a} /\ leased' = leased \ {a}
    /\ notices' = notices \cup {a}
    /\ UNCHANGED <<group, left, seeds, reg, op, orphan>>

NoticeLost(a) ==
    /\ a \in notices
    /\ notices' = notices \ {a}
    /\ UNCHANGED <<objects, seeds, reg, op, orphan>>

-----------------------------------------------------------------------------
(* The registry.                                                           *)

\* DELETE FROM alias_registry, whose primary key is the alias: at most one row goes.
Without(r, a) ==
    IF \A i \in 1..Len(r) : r[i] # a
    THEN r
    ELSE LET i == CHOOSE i \in 1..Len(r) : r[i] = a
         IN  SubSeq(r, 1, i - 1) \o SubSeq(r, i + 1, Len(r))

\* The positions of r after i that hold a member of S.
Newer(r, i, S) == {j \in (i + 1)..Len(r) : r[j] \in S}

\* The group's bound is not looked at.
VictimsOfTotal(r, g) ==
    {r[i] : i \in {i \in 1..Len(r) :
        left[r[i]] = 0 \/ Cardinality(Newer(r, i, Aliases)) >= MaxTotal}}

\* What has expired, and what exceeds the bound of the new alias's group g or
\* of the tenant, counted from the newest.  The code asks the expired ones first
\* and then the newer before the older; here they are asked in any order.
Victims(r, g) ==
    {r[i] : i \in {i \in 1..Len(r) :
        \/ left[r[i]] = 0
        \/ group[r[i]] = g /\ Cardinality(Newer(r, i, {a \in Aliases : group[a] = g})) >= MaxGroup
        \/ Cardinality(Newer(r, i, Aliases)) >= MaxTotal}}

\* registerResponseAlias begins: it refuses an alias that has expired on its
\* way, or inserts it and finds its victims.
Register(a) ==
    /\ op = NoOp /\ seeds[a] = "asking"
    /\ IF left[a] = 0
       THEN /\ seeds' = [seeds EXCEPT ![a] = "failed"]
            /\ UNCHANGED <<reg, op>>
       ELSE /\ seeds' = [seeds EXCEPT ![a] = "registering"]
            /\ reg' = Append(reg, a)
            /\ op' = [kind |-> "register", alias |-> a, victims |-> Victims(reg', group[a])]
    /\ UNCHANGED <<objects, notices, orphan>>

\* seed gets its answer, unless it has stopped waiting.
Answered(a, answer) ==
    seeds' = [seeds EXCEPT ![a] = IF @ = "registering" THEN answer ELSE @]

\* The registration gives up: it takes the new alias back and throws.
RegisterFails ==
    /\ reg' = Without(reg, op.alias)
    /\ op' = NoOp
    /\ Answered(op.alias, "failed")

\* A victim is leased, or the new alias itself: a registration fails, a sweep
\* goes on to the next.
VictimStays(v) ==
    /\ v \in op.victims
    /\ v = op.alias \/ v \in live \cap leased
    /\ IF op.kind = "register"
       THEN RegisterFails
       ELSE /\ op' = [op EXCEPT !.victims = @ \ {v}]
            /\ UNCHANGED <<seeds, reg>>
    /\ UNCHANGED <<objects, notices, orphan>>

\* A victim is dropped from the registry whatever its object says.
VictimGoneUnasked(v) ==
    /\ v \in op.victims \ {op.alias}
    /\ live' = Evicted(v)
    /\ reg' = Without(reg, v)
    /\ op' = [op EXCEPT !.victims = @ \ {v}]
    /\ UNCHANGED <<leased, group, left, seeds, notices, orphan>>

\* A victim goes with its lease.
VictimGoneLeased(v) ==
    /\ v \in op.victims \ {op.alias}
    /\ live' = live \ {v} /\ leased' = leased \ {v}
    /\ reg' = Without(reg, v)
    /\ op' = [op EXCEPT !.victims = @ \ {v}]
    /\ UNCHANGED <<group, left, seeds, notices, orphan>>

\* Only a row that was there to delete ends its registration.
VictimGoneIfLive(v) ==
    /\ v \in op.victims \ {op.alias} /\ v \notin live \cap leased
    /\ live' = live \ {v}
    /\ reg' = IF v \in live THEN Without(reg, v) ELSE reg
    /\ op' = [op EXCEPT !.victims = @ \ {v}]
    /\ UNCHANGED <<leased, group, left, seeds, notices, orphan>>

\* A victim's row is deleted, or was before, and then its registration.
VictimGone(v) ==
    /\ v \in op.victims \ {op.alias} /\ v \notin live \cap leased
    /\ live' = live \ {v}
    /\ reg' = Without(reg, v)
    /\ op' = [op EXCEPT !.victims = @ \ {v}]
    /\ UNCHANGED <<leased, group, left, seeds, notices, orphan>>

\* The call to a victim fails, though it may have been carried out.
VictimUnreachable(v) ==
    /\ v \in op.victims
    /\ live' \in {live, Evicted(v)}
    /\ IF op.kind = "register"
       THEN RegisterFails
       ELSE /\ op' = [op EXCEPT !.victims = @ \ {v}]
            /\ UNCHANGED <<seeds, reg>>
    /\ UNCHANGED <<leased, group, left, notices, orphan>>

\* No victim is left.
OperationDone ==
    /\ op # NoOp /\ op.victims = {}
    /\ op' = NoOp
    /\ IF op.kind = "register" THEN Answered(op.alias, "none") ELSE UNCHANGED seeds
    /\ UNCHANGED <<objects, reg, notices, orphan>>

\* The alarm (expireRegisteredAliases).
Sweep ==
    /\ op = NoOp
    /\ \E a \in Registered : left[a] = 0
    /\ op' = [kind |-> "sweep", alias |-> NoAlias, victims |-> {a \in Registered : left[a] = 0}]
    /\ UNCHANGED <<objects, seeds, reg, notices, orphan>>

\* unregisterResponseAlias
Unregister(a) ==
    /\ op = NoOp /\ a \in notices
    /\ reg' = Without(reg, a)
    /\ notices' = notices \ {a}
    /\ UNCHANGED <<objects, seeds, op, orphan>>

\* The registry object dies in the middle; the caller gets an error.
RegistryDies ==
    /\ op # NoOp
    /\ op' = NoOp
    /\ IF op.kind = "register" THEN Answered(op.alias, "failed") ELSE UNCHANGED seeds
    /\ UNCHANGED <<objects, reg, notices, orphan>>

Tick ==
    /\ \E a \in Aliases : left[a] > 0
    /\ left' = [a \in Aliases |-> IF left[a] > 0 THEN left[a] - 1 ELSE 0]
    /\ UNCHANGED <<live, leased, group, seeds, reg, op, notices, orphan>>

AliasStep(a) ==
    \/ Seed(a)
    \/ SeedFails(a)
    \/ SeedDies(a)
    \/ SeedUnanswered(a)
    \/ Acquire(a)
    \/ EndLease(a)
    \/ Expire(a)
    \/ NoticeLost(a)

RegistryStep ==
    \/ \E a \in Aliases : Register(a) \/ Unregister(a)
    \/ \E v \in Aliases : VictimStays(v) \/ VictimGone(v) \/ VictimUnreachable(v)
    \/ OperationDone
    \/ Sweep
    \/ RegistryDies

Next == (\E a \in Aliases : AliasStep(a)) \/ RegistryStep \/ Tick

Spec == Init /\ [][Next]_vars

\* Time passes, turns end, the registry's alarm goes off and its work goes on;
\* calls to a victim do not fail, and the registry does not die, for ever.
Fairness ==
    /\ WF_vars(Tick)
    /\ WF_vars(OperationDone)
    /\ SF_vars(Sweep)
    /\ \A a \in Aliases :
         /\ WF_vars(Expire(a))
         /\ SF_vars(VictimGone(a))

FairSpec == Spec /\ Fairness

-----------------------------------------------------------------------------
(* Properties.                                                             *)

\* Types; the registry holds an alias once.
TypeOK ==
    /\ live \subseteq Aliases /\ leased \subseteq live
    /\ group \in [Aliases -> Groups]
    /\ left \in [Aliases -> 0..AliasTtl]
    /\ seeds \in [Aliases -> {"none", "asking", "registering", "failed"}]
    /\ reg \in Seq(Aliases)
    /\ \A i, j \in 1..Len(reg) : reg[i] = reg[j] => i = j
    /\ op \in Operation
    /\ notices \subseteq Aliases /\ orphan \subseteq Aliases

\* An alias that lasts: its seed has ended, and not halfway.
Lasting == {a \in live : seeds[a] = "none" /\ a \notin orphan}

\* The registry does not lose sight of an alias: what its bounds are counted
\* over contains every alias that lasts, though calls fail, objects die and
\* rows expire at any moment (registerResponseAliasLocked,
\* expireRegisteredAliases, deleteCurrentState).
NoAccountingLie == Lasting \subseteq Registered

\* The bounds hold for the aliases that last whenever the registry is at rest,
\* also after a registration that failed or died halfway.
AliasBounds ==
    op = NoOp =>
        /\ Cardinality(Lasting) <= MaxTotal
        /\ \A g \in Groups : Cardinality({a \in Lasting : group[a] = g}) <= MaxGroup

\* An alias that lasts and has time left goes only while nobody uses it and only
\* for a newer one that is being registered: no sweep, failed seed, lost call or
\* late notice costs a client the response it may continue from, and no lease is
\* cut (registerResponseAliasLocked, evictResponseAlias, expireRegisteredAliases).
\* It does not say that the older ones go before it: a busy victim ends the
\* registration after newer ones have gone.
OnlyNewerDisplaces ==
    [][\A i \in 1..Len(reg) :
         reg[i] \in Lasting \ live' /\ left[reg[i]] > 0 =>
             /\ reg[i] \notin leased
             /\ op.kind = "register"
             /\ \E j \in (i + 1)..Len(reg) : reg[j] = op.alias]_vars

\* The registry forgets every expired alias, though notices are lost and objects
\* die (expireRegisteredAliases).
RegistryForgets ==
    \A a \in Aliases : a \in Registered /\ left[a] = 0 ~> a \notin Registered
=============================================================================
