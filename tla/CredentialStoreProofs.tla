------------------------ MODULE CredentialStoreProofs ------------------------
(***************************************************************************)
(* Proofs about CredentialStore: the jobs agree with the row, and the      *)
(* mirror is true when nothing is left to do.                              *)
(***************************************************************************)
EXTENDS CredentialStore, TLAPS

\* A row that is not there has no fields, and a legacy pointer is not dangling.
RowShape ==
    /\ ~Stored => acct = NoRow
    /\ acct.form = "kv" => acct.key \in Keys /\ kv[acct.key] = 1
    /\ call.kind = "none" <=> call = NoCall
    /\ call # NoCall => chain # <<>>
    /\ job # NoJob => job.key \in Keys

\* KV holds nothing, and no call is about anything, but the key of the row or
\* of the pending deletion; while a call is under way the row has its job.
KeysKnown ==
    /\ \A k \in Keys : kv[k] # NoToken => k \in {acct.key, gone}
    /\ call # NoCall => call.key \in Keys /\ call.key \in {acct.key, gone}
    /\ call # NoCall /\ Stored => job # NoJob

\* A row without a job is mirrored.
RowMirrored ==
    acct.form = "inline" /\ acct.key # NoKey /\ job = NoJob /\ ~crossed
        => kv[acct.key] = acct.token

\* TypeOK without its Boolean variables, and these.
Data ==
    /\ acct \in AccountRow
    /\ acct.form = "inline" <=> acct.token # NoToken
    /\ call.kind = "put" <=> call.token # NoToken
    /\ job \in MirrorJob
    /\ gone \in Keys \cup {NoKey}
    /\ kv \in [Keys -> Tokens \cup {NoToken}]
    /\ chain \in Seq(Operation)
    /\ call \in KvCall
    /\ refresh \in {"none", "asking", "encrypting", "storing"}
    /\ legacy \in Keys \cup {NoKey}
    /\ alarm \in {"idle", "put", "delete", "chained"}
    /\ issued \in 0..MaxToken

Flags == active \in BOOLEAN /\ import \in BOOLEAN /\ armed \in BOOLEAN /\ crossed \in BOOLEAN

CredentialInv == TypeOK /\ JobsAgree /\ RowShape /\ KeysKnown /\ RowMirrored

-----------------------------------------------------------------------------

LEMMA TypeSplit == TypeOK <=> Data /\ Flags
BY DEF TypeOK, Data, Flags

\* Initially the row, if any, is of an earlier release.
LEMMA InitInv == Init => CredentialInv
<1> SUFFICES ASSUME Init PROVE CredentialInv
  OBVIOUS
<1>0. 1 \in Tokens /\ issued \in 0..MaxToken
  BY CredentialConstants DEF Init, Tokens
<1>1. Data
  BY <1>0, CredentialConstants DEF Init, Data, AccountRow, MirrorJob, KvCall, Operation, Tokens, Stored, NoRow, NoJob, NoCall, NoToken
<1>2. Flags
  BY Zenon DEF Init, Flags, Stored
<1>3. JobsAgree
  BY <1>0, CredentialConstants DEF Init, JobsAgree, Stored, NoRow, NoJob
<1>4. RowShape /\ KeysKnown /\ RowMirrored
  BY <1>0, <1>1, CredentialConstants DEF Init, JobsAgree, RowShape, KeysKnown, RowMirrored, Data, AccountRow, MirrorJob, KvCall, Operation, Tokens, Stored, NoRow, NoJob, NoCall, NoToken
<1> QED  BY <1>1, <1>2, <1>3, <1>4, TypeSplit DEF CredentialInv

\* Every step assigns its Boolean variables truth values.
LEMMA StepFlags == Flags /\ [Next]_vars => Flags'
<1> SUFFICES ASSUME Flags, [Next]_vars PROVE Flags'
  OBVIOUS
<1>1. ASSUME NEW k \in Keys, Store(issued + 1, k) PROVE armed' \in BOOLEAN /\ crossed' \in BOOLEAN
  BY <1>1, Zenon DEF Store
<1>2. ASSUME Finish PROVE armed' \in BOOLEAN /\ import' \in BOOLEAN
  BY <1>2, Zenon DEF Finish, Pending, Flags
<1>3. ASSUME FlushMirror PROVE Flags'
  BY <1>3, <1>2, Zenon DEF FlushMirror, Flags, rows, tasks
<1>4. ASSUME FlushDeletion PROVE Flags'
  BY <1>4, <1>2, Zenon DEF FlushDeletion, Flags, rows, tasks
<1>5. ASSUME PutOk PROVE Flags'
  BY <1>5, <1>2, Zenon DEF PutOk, Flags, rows, tasks
<1>6. ASSUME DeleteOk PROVE Flags'
  BY <1>6, <1>2, Zenon DEF DeleteOk, Flags, rows, tasks
<1>7. ASSUME KvFail PROVE Flags'
  BY <1>7, <1>2, Zenon DEF KvFail, Flags, rows, tasks
<1>8. ASSUME AlarmFires PROVE Flags'
  BY <1>8, Zenon DEF AlarmFires, Flags, rows, tasks, Pending
<1>9. ASSUME AlarmFlush PROVE Flags'
  BY <1>9, Zenon DEF AlarmFlush, Flags, rows, tasks, Pending
<1>10. ASSUME ImportFlush PROVE Flags'
  BY <1>10, Zenon DEF ImportFlush, Flags, rows, tasks, Pending
<1>11. ASSUME ReadLegacy PROVE Flags'
  BY <1>11, Zenon DEF ReadLegacy, Flags, rows, tasks, Pending
<1>12. ASSUME AdoptLegacy PROVE Flags'
  BY <1>12, Zenon DEF AdoptLegacy, Flags, rows, tasks, Pending
<1>13. ASSUME BeginRefresh PROVE Flags'
  BY <1>13, Zenon DEF BeginRefresh, Flags, rows, tasks, Pending
<1>14. ASSUME RefreshVoid PROVE Flags'
  BY <1>14, Zenon DEF RefreshVoid, Flags, rows, tasks, Pending
<1>15. ASSUME RouteMoves PROVE Flags'
  BY <1>15, Zenon DEF RouteMoves, Flags, rows, tasks, Pending
<1>16. ASSUME Restart PROVE Flags'
  BY <1>16, Zenon DEF Restart, Flags, rows, tasks, Pending
<1>17. ASSUME NEW k \in Keys, Authorize(k) PROVE Flags'
  BY <1>17, <1>1, Zenon DEF Authorize, Flags, rows, tasks
<1>18. ASSUME NEW k \in Keys, ImportMigration(k) PROVE Flags'
  BY <1>18, <1>1, Zenon DEF ImportMigration, Flags, rows, tasks
<1>19. ASSUME NEW k \in Keys, RefreshStore(k) PROVE Flags'
  BY <1>19, <1>1, Zenon DEF RefreshStore, Flags, rows, tasks
<1>20. ASSUME NEW k \in Keys, DeleteAccount(k) PROVE Flags'
  BY <1>20, Zenon DEF DeleteAccount, Flags, rows, tasks
<1>21. ASSUME NEW k \in Keys, AdoptInline(k) PROVE Flags'
  BY <1>21, Zenon DEF AdoptInline, Flags, rows, tasks
<1>22. CASE UNCHANGED vars
  BY <1>22 DEF vars, Flags
<1>23. ASSUME RefreshOk PROVE Flags'
  BY <1>23, Zenon DEF RefreshOk, Flags, rows, tasks, Pending
<1> QED
  BY <1>23, <1>3, <1>4, <1>5, <1>6, <1>7, <1>8, <1>9, <1>10, <1>11, <1>12, <1>13, <1>14, <1>15, <1>16, <1>17, <1>18, <1>19, <1>20, <1>21, <1>22 DEF Next, ChainStep, ObjectStep

\* Every step keeps the invariant.
LEMMA StepInv == CredentialInv /\ [Next]_vars => CredentialInv'
<1> SUFFICES ASSUME CredentialInv, [Next]_vars PROVE CredentialInv'
  OBVIOUS
<1>0. Flags' /\ Data
  BY StepFlags, TypeSplit DEF CredentialInv
<1> DEFINE Rest == JobsAgree /\ RowShape /\ KeysKnown /\ RowMirrored
<1>1. Rest
  BY DEF CredentialInv
<1> SUFFICES Data' /\ Rest'
  BY <1>0 DEF CredentialInv, TypeOK, Data, Flags
<1> USE CredentialConstants
    DEF Data, AccountRow, MirrorJob, KvCall, Operation,
        Tokens, Stored, NoRow, NoJob, NoCall, NoToken, rows, tasks,
        JobsAgree, RowShape, KeysKnown, RowMirrored
<1>2. ASSUME FlushMirror PROVE Data' /\ Rest'
  <2>1. CASE job # NoJob /\ Stored /\ acct.rev = job.rev
    <3>1. /\ call' = [kind |-> "put", key |-> job.key, token |-> acct.token, rev |-> job.rev]
          /\ UNCHANGED <<acct, job, gone, kv, chain, refresh, legacy, alarm, issued, active, crossed>>
      BY <1>2, <2>1 DEF FlushMirror
    <3>2. acct.form = "inline" /\ job.key = acct.key /\ job.key \in Keys /\ chain # <<>>
      BY <1>1, <1>2, <2>1 DEF FlushMirror, Due
    <3> QED  BY <1>0, <1>1, <3>1, <3>2
  <2>2. CASE ~(job # NoJob /\ Stored /\ acct.rev = job.rev)
    <3>1. job = NoJob
      BY <1>1, <2>2
    <3>2. /\ chain' = Tail(chain) /\ chain # <<>> /\ call' = NoCall
          /\ refresh' \in {"none", refresh} /\ alarm' \in {"idle", alarm}
          /\ UNCHANGED <<acct, job, gone, kv, legacy, issued, active, crossed>>
      BY <1>2, <2>2, <3>1 DEF FlushMirror, Finish, Due
    <3> QED  BY <1>0, <1>1, <3>1, <3>2
  <2> QED  BY <2>1, <2>2
<1>3. ASSUME FlushDeletion PROVE Data' /\ Rest'
  <2>1. CASE gone # NoKey /\ ~Stored
    <3>1. /\ call' = [kind |-> "delete", key |-> gone, token |-> NoToken, rev |-> 0]
          /\ chain # <<>>
          /\ UNCHANGED <<acct, job, gone, kv, chain, refresh, legacy, alarm, issued, active, crossed>>
      BY <1>3, <2>1 DEF FlushDeletion, Due
    <3> QED  BY <1>0, <1>1, <2>1, <3>1
  <2>2. CASE ~(gone # NoKey /\ ~Stored)
    <3>1. gone = NoKey
      BY <1>1, <2>2
    <3>2. /\ chain' = Tail(chain) /\ chain # <<>> /\ call' = NoCall
          /\ refresh' \in {"none", refresh} /\ alarm' \in {"idle", alarm}
          /\ UNCHANGED <<acct, job, gone, kv, legacy, issued, active, crossed>>
      BY <1>3, <2>2, <3>1 DEF FlushDeletion, Finish, Due
    <3> QED  BY <1>0, <1>1, <3>1, <3>2
  <2> QED  BY <2>1, <2>2
<1>4. ASSUME PutOk PROVE Data' /\ Rest'
  <2>1. Data'
    BY <1>0, <1>1, <1>4 DEF PutOk, Finish, Applied, JobDone
  <2>2. JobsAgree' /\ RowShape'
    BY <1>0, <1>1, <1>4 DEF PutOk, Finish, Applied, JobDone
  <2>3. KeysKnown' /\ RowMirrored'
    BY <1>0, <1>1, <1>4 DEF PutOk, Finish, Applied, JobDone
  <2> QED  BY <2>1, <2>2, <2>3
<1>5. ASSUME DeleteOk PROVE Data' /\ Rest'
  <2>1. Data'
    BY <1>0, <1>1, <1>5 DEF DeleteOk, Finish, Applied
  <2>2. JobsAgree' /\ RowShape'
    BY <1>0, <1>1, <1>5 DEF DeleteOk, Finish, Applied
  <2>3. KeysKnown' /\ RowMirrored'
    BY <1>0, <1>1, <1>5 DEF DeleteOk, Finish, Applied
  <2> QED  BY <2>1, <2>2, <2>3
<1>6. ASSUME KvFail PROVE Data' /\ Rest'
  <2>1. Data'
    BY <1>0, <1>1, <1>6, SMTT(30) DEF KvFail, Finish, Applied
  <2>2. JobsAgree' /\ RowShape'
    BY <1>0, <1>1, <1>6 DEF KvFail, Finish, Applied
  <2>3. KeysKnown' /\ RowMirrored'
    BY <1>0, <1>1, <1>6 DEF KvFail, Finish, Applied
  <2> QED  BY <2>1, <2>2, <2>3
<1>7. ASSUME AlarmFires PROVE Data' /\ Rest'
  <2>1. Data'
    BY <1>0, <1>1, <1>7 DEF AlarmFires
  <2>2. JobsAgree' /\ RowShape'
    BY <1>0, <1>1, <1>7 DEF AlarmFires
  <2>3. KeysKnown' /\ RowMirrored'
    BY <1>0, <1>1, <1>7 DEF AlarmFires
  <2> QED  BY <2>1, <2>2, <2>3
<1>8. ASSUME AlarmFlush PROVE Data' /\ Rest'
  <2>1. Data'
    BY <1>0, <1>1, <1>8 DEF AlarmFlush, Enqueue
  <2>2. JobsAgree' /\ RowShape'
    BY <1>0, <1>1, <1>8 DEF AlarmFlush, Enqueue
  <2>3. KeysKnown' /\ RowMirrored'
    BY <1>0, <1>1, <1>8 DEF AlarmFlush, Enqueue
  <2> QED  BY <2>1, <2>2, <2>3
<1>9. ASSUME ImportFlush PROVE Data' /\ Rest'
  <2>1. Data'
    BY <1>0, <1>1, <1>9 DEF ImportFlush, Enqueue
  <2>2. JobsAgree' /\ RowShape'
    BY <1>0, <1>1, <1>9 DEF ImportFlush, Enqueue
  <2>3. KeysKnown' /\ RowMirrored'
    BY <1>0, <1>1, <1>9 DEF ImportFlush, Enqueue
  <2> QED  BY <2>1, <2>2, <2>3
<1>10. ASSUME ReadLegacy PROVE Data' /\ Rest'
  <2>1. Data'
    BY <1>0, <1>1, <1>10 DEF ReadLegacy
  <2>2. JobsAgree' /\ RowShape'
    BY <1>0, <1>1, <1>10 DEF ReadLegacy
  <2>3. KeysKnown' /\ RowMirrored'
    BY <1>0, <1>1, <1>10 DEF ReadLegacy
  <2> QED  BY <2>1, <2>2, <2>3
<1>11. ASSUME AdoptLegacy PROVE Data' /\ Rest'
  <2>0. /\ legacy \in Keys /\ legacy' = NoKey
        /\ UNCHANGED <<job, kv, chain, call, active, refresh, alarm, issued, crossed>>
    BY <1>0, <1>11 DEF AdoptLegacy
  <2>1. CASE UNCHANGED <<acct, gone>>
    BY <1>0, <1>1, <2>0, <2>1
  <2>2. CASE ~UNCHANGED <<acct, gone>>
    <3>1. /\ acct.form = "kv" /\ acct.key = legacy /\ kv[legacy] # NoToken
          /\ acct' = [acct EXCEPT !.form = "inline", !.token = kv[legacy], !.rev = 1]
          /\ gone' = NoKey
      BY <1>11, <2>2 DEF AdoptLegacy
    <3>2. acct' = [form |-> "inline", token |-> kv[legacy], rev |-> 1, key |-> legacy]
      BY <1>0, <3>1
    <3>3. gone = NoKey /\ job = NoJob /\ call = NoCall
      BY <1>1, <3>1
    <3> QED  BY <1>0, <1>1, <2>0, <3>1, <3>2, <3>3
  <2> QED  BY <2>1, <2>2
<1>12. ASSUME BeginRefresh PROVE Data' /\ Rest'
  <2>1. Data'
    BY <1>0, <1>1, <1>12 DEF BeginRefresh
  <2>2. JobsAgree' /\ RowShape'
    BY <1>0, <1>1, <1>12 DEF BeginRefresh
  <2>3. KeysKnown' /\ RowMirrored'
    BY <1>0, <1>1, <1>12 DEF BeginRefresh
  <2> QED  BY <2>1, <2>2, <2>3
<1>13. ASSUME RefreshVoid PROVE Data' /\ Rest'
  <2>1. Data'
    BY <1>0, <1>1, <1>13 DEF RefreshVoid
  <2>2. JobsAgree' /\ RowShape'
    BY <1>0, <1>1, <1>13 DEF RefreshVoid
  <2>3. KeysKnown' /\ RowMirrored'
    BY <1>0, <1>1, <1>13 DEF RefreshVoid
  <2> QED  BY <2>1, <2>2, <2>3
<1>14. ASSUME RouteMoves PROVE Data' /\ Rest'
  <2>1. Data'
    BY <1>0, <1>1, <1>14 DEF RouteMoves
  <2>2. JobsAgree' /\ RowShape'
    BY <1>0, <1>1, <1>14 DEF RouteMoves
  <2>3. KeysKnown' /\ RowMirrored'
    BY <1>0, <1>1, <1>14 DEF RouteMoves
  <2> QED  BY <2>1, <2>2, <2>3
<1>15. ASSUME Restart PROVE Data' /\ Rest'
  <2>1. Data'
    BY <1>0, <1>1, <1>15 DEF Restart, Applied
  <2>2. JobsAgree' /\ RowShape'
    BY <1>0, <1>1, <1>15 DEF Restart, Applied
  <2>3. KeysKnown' /\ RowMirrored'
    BY <1>0, <1>1, <1>15 DEF Restart, Applied
  <2> QED  BY <2>1, <2>2, <2>3
<1>16. ASSUME NEW k \in Keys, Authorize(k) PROVE Data' /\ Rest'
  <2>1. Data'
    BY <1>0, <1>1, <1>16, SMTT(30) DEF Authorize, Store, RowKey, Unknown, Enqueue
  <2>2. JobsAgree' /\ RowShape'
    BY <1>0, <1>1, <1>16, SMTT(30) DEF Authorize, Store, RowKey, Unknown, Enqueue
  <2>3. KeysKnown' /\ RowMirrored'
    BY <1>0, <1>1, <1>16 DEF Authorize, Store, RowKey, Unknown, Enqueue
  <2> QED  BY <2>1, <2>2, <2>3
<1>17. ASSUME NEW k \in Keys, ImportMigration(k) PROVE Data' /\ Rest'
  <2>1. Data'
    BY <1>0, <1>1, <1>17, SMTT(30) DEF ImportMigration, Store, RowKey, Unknown, Enqueue
  <2>2. JobsAgree' /\ RowShape'
    BY <1>0, <1>1, <1>17 DEF ImportMigration, Store, RowKey, Unknown, Enqueue
  <2>3. KeysKnown' /\ RowMirrored'
    BY <1>0, <1>1, <1>17 DEF ImportMigration, Store, RowKey, Unknown, Enqueue
  <2> QED  BY <2>1, <2>2, <2>3
<1>18. ASSUME NEW k \in Keys, RefreshStore(k) PROVE Data' /\ Rest'
  <2>1. Data'
    BY <1>0, <1>1, <1>18 DEF RefreshStore, Store, RowKey, Unknown, Enqueue
  <2>2. JobsAgree' /\ RowShape'
    <3>1. JobsAgree'
      BY <1>0, <1>1, <1>18, SMTT(30) DEF RefreshStore, Store, RowKey, Unknown, Enqueue
    <3>2. /\ acct'.form = "inline" /\ call' = call
          /\ job'.key = k /\ chain' # <<>>
      BY <1>0, <1>18, SMTT(30) DEF RefreshStore, Store, Enqueue
    <3>3. RowShape'
      BY <1>1, <3>2, SMTT(30)
    <3> QED  BY <3>1, <3>3
  <2>3. KeysKnown' /\ RowMirrored'
    BY <1>0, <1>1, <1>18 DEF RefreshStore, Store, RowKey, Unknown, Enqueue
  <2> QED  BY <2>1, <2>2, <2>3
<1>19. ASSUME NEW k \in Keys, DeleteAccount(k) PROVE Data' /\ Rest'
  <2>1. Data'
    BY <1>0, <1>1, <1>19 DEF DeleteAccount, Unknown, Enqueue
  <2>2. JobsAgree' /\ RowShape'
    BY <1>0, <1>1, <1>19 DEF DeleteAccount, Unknown, Enqueue
  <2>3. KeysKnown' /\ RowMirrored'
    BY <1>0, <1>1, <1>19 DEF DeleteAccount, Unknown, Enqueue
  <2> QED  BY <2>1, <2>2, <2>3
<1>20. ASSUME NEW k \in Keys, AdoptInline(k) PROVE Data' /\ Rest'
  <2>1. acct' = [form |-> "inline", token |-> acct.token, rev |-> 1, key |-> k]
    BY <1>0, <1>20 DEF AdoptInline
  <2>2. gone = NoKey /\ call = NoCall
    BY <1>0, <1>1, <1>20 DEF AdoptInline
  <2>3. Data'
    BY <1>0, <1>20, <2>1 DEF AdoptInline, Enqueue
  <2>4. Rest'
    BY <1>0, <1>1, <1>20, <2>1, <2>2 DEF AdoptInline, Unknown, Enqueue
  <2> QED  BY <2>3, <2>4
<1>21. CASE UNCHANGED vars
  BY <1>0, <1>1, <1>21 DEF vars
<1>22. ASSUME RefreshOk PROVE Data' /\ Rest'
  <2>1. Data'
    BY <1>0, <1>1, <1>22 DEF RefreshOk
  <2>2. JobsAgree' /\ RowShape'
    BY <1>0, <1>1, <1>22 DEF RefreshOk
  <2>3. KeysKnown' /\ RowMirrored'
    BY <1>0, <1>1, <1>22 DEF RefreshOk
  <2> QED  BY <2>1, <2>2, <2>3
<1> HIDE DEF Rest
<1> QED
  BY <1>2, <1>3, <1>4, <1>5, <1>6, <1>7, <1>8, <1>9, <1>10, <1>11, <1>12, <1>13, <1>14, <1>15, <1>16, <1>17, <1>18, <1>19, <1>20, <1>21, <1>22 DEF Next, ChainStep, ObjectStep

\* Rows, jobs, mirror and calls agree in every reachable state.
THEOREM CredentialInvariant == Spec => []CredentialInv
BY InitInv, StepInv, PTL DEF Spec

\* Types, with a ciphertext that is never empty (readAccountToken,
\* flushCredentialMirror).
THEOREM CredentialTypes == Spec => []TypeOK
BY CredentialInvariant, PTL DEF CredentialInv

\* A mirror job and a deletion never contradict each other or the row
\* (upsertAccount, importAccountMigration, deleteAccount).
THEOREM JobsAlwaysAgree == Spec => []JobsAgree
BY CredentialInvariant, PTL DEF CredentialInv

\* When nothing is left to do the mirror is what it should be
\* (flushCredentialMirror, flushCredentialDeletion, alarm, migrate).
THEOREM MirrorIsTrue == Spec => []MirrorTrue
<1>1. CredentialInv => MirrorTrue
  <2> SUFFICES ASSUME CredentialInv, Quiet, ~crossed PROVE kv = Mirrored
    BY DEF MirrorTrue
  <2>1. ASSUME NEW k \in Keys PROVE kv[k] = Mirrored[k]
    BY <2>1, TypeSplit, CredentialConstants
    DEF CredentialInv, Mirrored, Quiet, Pending, JobsAgree, RowShape, KeysKnown, RowMirrored, Data, AccountRow, MirrorJob, KvCall, Operation, Tokens, Stored, NoRow, NoJob, NoCall, NoToken
  <2>2. kv = [k \in Keys |-> kv[k]] /\ Mirrored = [k \in Keys |-> Mirrored[k]]
    BY TypeSplit DEF CredentialInv, Data, Mirrored
  <2> QED  BY <2>1, <2>2
<1> QED  BY <1>1, CredentialInvariant, PTL
=============================================================================
