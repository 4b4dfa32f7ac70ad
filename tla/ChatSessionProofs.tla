------------------------- MODULE ChatSessionProofs -------------------------
(***************************************************************************)
(* Proofs about a chat session, for any accounts, requests, conversations  *)
(* and times with RequestLimit < LeaseTime < SessionTtl: turns exclude     *)
(* each other, a request's view of the row stays true, and a conversation  *)
(* is continued only by its own account and never from a turn that failed  *)
(* or was abandoned through this object; an output sent alone counts once. *)
(* Other objects may share the conversation and do to it what they like.   *)
(*                                                                         *)
(* The argument: the lease of a request in its turn outlives the request,  *)
(* and the row outlives the lease, so that nobody else gets at the row of  *)
(* a session.  The row of an alias may expire under a lease; what saves    *)
(* its late request is that coordinates are drawn afresh: no two requests, *)
(* nor a request and a committed row it does not lease, share a            *)
(* conversation within the object.                                         *)
(***************************************************************************)
EXTENDS ChatSession, TLAPS

\* A request between acquire and the end of its turn.
InFlight(q) == q.pc \in {"leased", "bound", "submitted", "answered"}

\* A request knows a conversation as long as it is in its turn, and its
\* account once that is settled; a cancelled one has no lease any more.
RequestShape ==
    \A r \in Requests :
        /\ reqs[r].conv \in Convs <=> InFlight(reqs[r])
        /\ reqs[r].pc \in {"bound", "submitted", "answered"} => reqs[r].account \in Accounts
        /\ reqs[r].cancel = "done" => row.lease # r

\* A lease outlives the request that holds it, in its turn.
LeaseOutlives ==
    \A r \in Requests :
        InTurn(r) /\ row.lease = r =>
            row.leaseLeft >= reqs[r].left + (LeaseTime - RequestLimit)

\* The row of a session outlives its lease.
RowOutlives == row.kind = "session" /\ row.leaseLeft > 0 => row.ttl > row.leaseLeft

\* A request that did not meet an alias has its lease on a session's row.
SessionTurns ==
    \A r \in Requests :
        InTurn(r) /\ ~reqs[r].alias => row.lease = r /\ row.kind = "session"

\* No two of the object's requests share a conversation, nor a request and a
\* committed row that it does not hold.
ConvsApart ==
    /\ \A r, s \in Requests : reqs[r].conv = reqs[s].conv /\ r # s => reqs[r].conv = NoConv
    /\ \A r \in Requests : reqs[r].conv = row.conv /\ row.committed => row.lease = r

\* A conversation nobody refers to has no history.
Forgotten == \A x \in FreshConvs : convs[x] = Blank

\* Committed coordinates belong to the account they are stored with.
OwnersKnown ==
    /\ row.committed => convs[row.conv].owner = row.account
    /\ \A r \in Requests :
          InFlight(reqs[r]) /\ reqs[r].started =>
              reqs[r].account # NoAccount /\ convs[reqs[r].conv].owner = reqs[r].account

Dirty == {"open", "fault"}

\* A committed conversation holds no open or failed turn but that of the request
\* whose turn it is.
TurnsClean ==
    /\ row.committed =>
          \/ convs[row.conv].taint \notin Dirty
          \/ \E r \in Requests : row.lease = r /\ reqs[r].pc \in {"submitted", "answered"}
    /\ \A r \in Requests :
          reqs[r].pc \in {"leased", "bound"} /\ reqs[r].started =>
              convs[reqs[r].conv].taint \notin Dirty

\* A consumed call is not pending; the row still waits for the call that the
\* lease reported; and an output that came alone answers a pending call.
OutputUnspent ==
    /\ row.consumed => ~row.pending
    /\ \A r \in Requests :
          InFlight(reqs[r]) /\ row.lease = r /\ reqs[r].pending => row.pending
    /\ \A r \in Requests :
          reqs[r].pc \in {"bound", "submitted", "answered"} /\ reqs[r].output = "result" =>
              reqs[r].pending

SessionInv ==
    /\ TypeOK /\ RequestShape /\ LeaseAgrees /\ LeaseOutlives /\ RowOutlives
    /\ SessionTurns /\ ConvsApart /\ Forgotten /\ OwnersKnown /\ TurnsClean /\ OutputUnspent

-----------------------------------------------------------------------------
(* The row and what is known of conversations.                             *)

\* The row n is what the end of request r's turn may leave of the row rw: rw
\* itself, or rw without its lease and perhaps without what it had committed.
RowEnded(n, rw, r) ==
    /\ n \in Row
    /\ n.kind = rw.kind /\ n.conv = rw.conv /\ n.consumed = rw.consumed
    /\ n.committed => rw.committed /\ n.account = rw.account /\ n.locked = rw.locked
    /\ n.pending => rw.pending
    /\ rw.lease = r \/ rw.completed = r \/ n = rw
    /\ n = rw \/ (n.lease = NoRequest /\ n.leaseLeft = 0 /\ rw.lease \in {r, NoRequest})

\* Touch changes nothing but the expiry.
LEMMA TouchFacts ==
    ASSUME NEW rw \in Row
    PROVE  /\ Touch(rw) \in Row
           /\ Touch(rw).kind = rw.kind /\ Touch(rw).conv = rw.conv /\ Touch(rw).account = rw.account
           /\ Touch(rw).locked = rw.locked /\ Touch(rw).committed = rw.committed
           /\ Touch(rw).pending = rw.pending /\ Touch(rw).lease = rw.lease
           /\ Touch(rw).completed = rw.completed /\ Touch(rw).leaseLeft = rw.leaseLeft
           /\ Touch(rw).consumed = rw.consumed
           /\ Touch(rw).ttl = IF rw.kind = "session" THEN SessionTtl ELSE rw.ttl
BY SessionConstants DEF Touch, Row

\* release ends a turn.
LEMMA ReleasedEnds ==
    ASSUME NEW rw \in Row, NEW r \in Requests
    PROVE  /\ RowEnded(Released(rw, r), rw, r)
           /\ Released(rw, r).lease # r
<1> USE SessionConstants
<1>1. CASE rw.lease # r
  BY <1>1 DEF Released, RowEnded
<1>2. CASE rw.lease = r
  <2> DEFINE t == Touch(rw)
             n == [t EXCEPT !.lease = NoRequest, !.leaseLeft = 0]
  <2>1. /\ t \in Row /\ t.kind = rw.kind /\ t.conv = rw.conv /\ t.account = rw.account
        /\ t.locked = rw.locked /\ t.committed = rw.committed /\ t.pending = rw.pending
        /\ t.consumed = rw.consumed
    BY TouchFacts
  <2>2. Released(rw, r) = n
    BY <1>2 DEF Released
  <2> HIDE DEF t
  <2>4. 0 \in 0..LeaseTime /\ NoRequest \in Requests \cup {NoRequest}
    OBVIOUS
  <2>5. n \in Row
    BY <2>1, <2>4, Zenon DEF Row
  <2>3. /\ n \in Row /\ n.kind = rw.kind /\ n.conv = rw.conv /\ n.account = rw.account
        /\ n.locked = rw.locked /\ n.committed = rw.committed /\ n.pending = rw.pending
        /\ n.consumed = rw.consumed /\ n.lease = NoRequest /\ n.leaseLeft = 0
    BY <2>1, <2>5 DEF Row
  <2> HIDE DEF n
  <2> QED BY <1>2, <2>2, <2>3 DEF RowEnded
<1> QED BY <1>1, <1>2

\* What abandonTurn makes of a row.
Tombstone(t, detach) ==
    [t EXCEPT !.lease = NoRequest, !.leaseLeft = 0, !.completed = NoRequest,
              !.committed = FALSE, !.pending = FALSE,
              !.account = IF detach THEN NoAccount ELSE @,
              !.locked = IF detach THEN FALSE ELSE @]

\* A tombstone is a row with the same coordinates and nothing committed.
LEMMA TombstoneFacts ==
    ASSUME NEW t \in Row, NEW detach \in BOOLEAN
    PROVE  /\ Tombstone(t, detach) \in Row /\ Tombstone(t, detach).kind = t.kind
           /\ Tombstone(t, detach).conv = t.conv /\ Tombstone(t, detach).consumed = t.consumed
           /\ ~Tombstone(t, detach).committed /\ ~Tombstone(t, detach).pending
           /\ Tombstone(t, detach).lease = NoRequest /\ Tombstone(t, detach).leaseLeft = 0
<1>1. 0 \in 0..LeaseTime /\ NoRequest \in Requests \cup {NoRequest}
  BY SessionConstants
<1>2. (IF detach THEN NoAccount ELSE t.account) \in Accounts \cup {NoAccount}
  BY DEF Row
<1>3. (IF detach THEN FALSE ELSE t.locked) \in BOOLEAN /\ FALSE \in BOOLEAN
  BY Zenon DEF Row
<1>4. Tombstone(t, detach) \in Row
  BY <1>1, <1>2, <1>3, Zenon DEF Row, Tombstone
<1> QED BY <1>4 DEF Row, Tombstone

\* abandonTurn ends a turn and leaves nothing committed of it.
LEMMA AbandonedEnds ==
    ASSUME NEW rw \in Row, NEW r \in Requests, NEW detach \in BOOLEAN
    PROVE  /\ RowEnded(Abandoned(rw, r, detach), rw, r)
           /\ Abandoned(rw, r, detach).lease # r
           /\ rw.lease = r => ~Abandoned(rw, r, detach).committed
<1> USE SessionConstants
<1> DEFINE owns == rw.lease = r \/ (rw.lease = NoRequest /\ rw.completed = r)
           n == Tombstone(Touch(rw), detach)
<1>1. CASE ~owns
  BY <1>1 DEF Abandoned, RowEnded
<1>2. CASE owns
  <2>1. Abandoned(rw, r, detach) = n
    BY <1>2 DEF Abandoned, Tombstone
  <2>2. /\ n \in Row /\ n.kind = rw.kind /\ n.conv = rw.conv /\ n.consumed = rw.consumed
        /\ ~n.committed /\ ~n.pending /\ n.lease = NoRequest /\ n.leaseLeft = 0
    BY TouchFacts, TombstoneFacts
  <2> HIDE DEF n
  <2> QED BY <1>2, <2>1, <2>2 DEF RowEnded
<1> QED BY <1>1, <1>2

\* Know keeps what somebody refers to and forgets the rest.
LEMMA KnowFacts ==
    ASSUME NEW cs \in [Convs -> Conversation], Know(cs)
    PROVE  /\ convs' \in [Convs -> Conversation]
           /\ Forgotten'
           /\ \A x \in Convs : x = row'.conv => convs'[x] = cs[x]
           /\ \A s \in Requests : reqs'[s].conv \in Convs => convs'[reqs'[s].conv] = cs[reqs'[s].conv]
<1>1. Blank \in Conversation
  BY DEF Blank, Conversation
<1> QED BY <1>1 DEF Know, Forgotten, FreshConvs

-----------------------------------------------------------------------------
(* The steps of a request.                                                 *)

\* A new object has no row and nobody uses it (the constructor and acquire).
LEMMA SessionInit == Init => SessionInv
<1> SUFFICES ASSUME Init PROVE SessionInv
  OBVIOUS
<1> USE SessionConstants DEF Init
<1>1. NoRow \in Row /\ Idle \in Request /\ Blank \in Conversation
  BY DEF NoRow, Row, Idle, Request, Blank, Conversation
<1>2. /\ NoRow.lease = NoRequest /\ ~NoRow.committed /\ ~NoRow.consumed /\ NoRow.kind = "none"
      /\ Idle.pc = "idle" /\ Idle.conv = NoConv /\ Idle.cancel = "no"
  BY DEF NoRow, Idle
<1>3. TypeOK
  BY <1>1, <1>2 DEF TypeOK
<1> QED BY <1>2, <1>3 DEF SessionInv, RequestShape, InFlight, LeaseAgrees, LeaseOutlives, RowOutlives,
     SessionTurns, InTurn, ConvsApart, Forgotten, OwnersKnown, TurnsClean, OutputUnspent,
     FreshConvs

\* What is left of a request that is over.
LEMMA OverFacts ==
    ASSUME NEW q \in Request
    PROVE  /\ Over(q) \in Request
           /\ Over(q).pc = "idle" /\ Over(q).conv = NoConv /\ Over(q).cancel # "done"
           /\ Over(q).output = "none"
<1>1. Idle \in Request /\ Idle.pc = "idle" /\ Idle.conv = NoConv /\ Idle.output = "none"
  BY SessionConstants DEF Idle, Request
<1> QED BY <1>1 DEF Over, Request

\* The end of a turn keeps the invariant, if a conversation that stays
\* committed is left clean.
LEMMA EndKeeps ==
    ASSUME SessionInv, NEW r \in Requests, RowEnded(row', row, r),
           reqs' = [reqs EXCEPT ![r] = Over(reqs[r])],
           NEW cs \in [Convs -> Conversation], Know(cs),
           \A x \in Convs : cs[x].owner = convs[x].owner /\ (x # reqs[r].conv => cs[x] = convs[x]),
           \/ ~row'.committed \/ row.lease # r
           \/ reqs[r].pc \notin {"submitted", "answered"} /\ cs = convs
           \/ cs[row.conv].taint \notin Dirty
    PROVE  SessionInv'
<1> USE SessionConstants DEF SessionInv
<1>1. reqs[r] \in Request /\ row \in Row /\ row' \in Row
  BY DEF TypeOK, RowEnded
<1>2. /\ Over(reqs[r]) \in Request /\ reqs'[r].pc = "idle" /\ reqs'[r].conv = NoConv
      /\ reqs'[r].cancel # "done" /\ reqs' \in [Requests -> Request]
      /\ \A s \in Requests : s # r => reqs'[s] = reqs[s]
  BY <1>1, OverFacts DEF TypeOK
<1>3. /\ convs' \in [Convs -> Conversation] /\ Forgotten'
      /\ \A x \in Convs : x = row'.conv => convs'[x] = cs[x]
      /\ \A s \in Requests : reqs'[s].conv \in Convs => convs'[reqs'[s].conv] = cs[reqs'[s].conv]
  BY KnowFacts
<1>4. row'.kind = "none" => row' = NoRow
  BY DEF TypeOK, RowEnded, NoRow
<1>5. TypeOK'
  BY <1>1, <1>2, <1>3, <1>4 DEF TypeOK, RowEnded
<1>6. RequestShape'
  BY <1>2 DEF RequestShape, InFlight, RowEnded
<1>7. \A s \in Requests : InTurn(s)' => s # r /\ InTurn(s)
  BY <1>2 DEF InTurn
<1>8. \A s \in Requests : s # r /\ row.lease = s => row' = row
  BY DEF RowEnded
<1>9. LeaseAgrees' /\ LeaseOutlives' /\ RowOutlives' /\ SessionTurns'
  BY <1>1, <1>2, <1>7, <1>8 DEF LeaseAgrees, LeaseOutlives, RowOutlives, SessionTurns, RowEnded, Row
<1>10. ConvsApart'
  BY <1>1, <1>2, <1>8 DEF ConvsApart, RowEnded, TypeOK
<1>11. OwnersKnown'
  <2>1. row'.committed => convs'[row'.conv].owner = row'.account
    BY <1>1, <1>3 DEF OwnersKnown, RowEnded, TypeOK, Row
  <2>2. ASSUME NEW s \in Requests, InFlight(reqs'[s]), reqs'[s].started
        PROVE  reqs'[s].account # NoAccount /\ convs'[reqs'[s].conv].owner = reqs'[s].account
    BY <1>2, <1>3, <2>2 DEF OwnersKnown, RequestShape, InFlight
  <2> QED BY <2>1, <2>2 DEF OwnersKnown
<1>12. TurnsClean'
  <2>1. ASSUME row'.committed
        PROVE  \/ convs'[row'.conv].taint \notin Dirty
               \/ \E s \in Requests : row'.lease = s /\ reqs'[s].pc \in {"submitted", "answered"}
    <3>1. row.committed /\ row.conv \in Convs /\ row'.conv = row.conv /\ convs'[row'.conv] = cs[row.conv]
      BY <1>1, <1>3, <2>1 DEF RowEnded, TypeOK, Row
    <3>2. CASE row.lease = r
      BY <1>2, <2>1, <3>1, <3>2 DEF TurnsClean
    <3>3. CASE row.lease # r
      <4>1. cs[row.conv] = convs[row.conv]
        BY <3>1, <3>3 DEF ConvsApart
      <4>2. ASSUME NEW s \in Requests, row.lease = s PROVE row' = row /\ s # r
        BY <3>3, <4>2, <1>8
      <4> QED BY <1>2, <3>1, <4>1, <4>2 DEF TurnsClean
    <3> QED BY <3>2, <3>3
  <2>2. ASSUME NEW s \in Requests, reqs'[s].pc \in {"leased", "bound"}, reqs'[s].started
        PROVE  convs'[reqs'[s].conv].taint \notin Dirty
    BY <1>2, <1>3, <2>2 DEF TurnsClean, ConvsApart, RequestShape, InFlight
  <2> QED BY <2>1, <2>2 DEF TurnsClean
<1>13. OutputUnspent'
  BY <1>1, <1>2, <1>8 DEF OutputUnspent, RowEnded, InFlight
<1> QED BY <1>3, <1>5, <1>6, <1>9, <1>10, <1>11, <1>12, <1>13

\* The lease of a request in its turn is not over.
LEMMA HolderBusy ==
    ASSUME SessionInv, NEW r \in Requests, InFlight(reqs[r]), row.lease = r
    PROVE  InTurn(r) /\ row.leaseLeft > 0
<1>1. InTurn(r) /\ reqs[r] \in Request /\ row \in Row
  BY DEF SessionInv, RequestShape, TypeOK, InFlight, InTurn
<1> QED BY <1>1, SessionConstants DEF SessionInv, LeaseOutlives, Request, Row

\* A request may be answered, submitted or cancelled from the side: only its
\* place in the protocol, its signal and the state of its conversation change.
LEMMA MoveKeeps ==
    ASSUME SessionInv, NEW r \in Requests, NEW new \in Request, row' = row,
           reqs' = [reqs EXCEPT ![r] = new],
           new.conv = reqs[r].conv, new.account = reqs[r].account, new.started = reqs[r].started,
           new.locked = reqs[r].locked, new.pending = reqs[r].pending, new.output = reqs[r].output, new.alias = reqs[r].alias,
           new.left = reqs[r].left, new.cancel = "done" <=> reqs[r].cancel = "done",
           \/ new.pc = reqs[r].pc
           \/ new.pc \in {"submitted", "answered"} /\ reqs[r].pc \in {"bound", "submitted"}
           \/ /\ new.pc = "bound" /\ reqs[r].pc = "leased" /\ new.account \in Accounts
              /\ new.output = "result" => new.pending,
           convs' \in [Convs -> Conversation],
           \A x \in Convs : \/ x = row.conv
                            \/ \E s \in Requests : x = reqs[s].conv
                            \/ convs'[x] = Blank,
           \A x \in Convs : (x = row.conv \/ \E s \in Requests : x = reqs[s].conv) =>
                /\ convs'[x].owner = convs[x].owner
                /\ convs'[x] = convs[x] \/ (x = reqs[r].conv /\ new.pc \in {"submitted", "answered"})
    PROVE  SessionInv'
<1> USE SessionConstants DEF SessionInv
<1>1. /\ reqs' \in [Requests -> Request] /\ reqs'[r] = new /\ reqs[r] \in Request /\ row \in Row
      /\ \A s \in Requests : s # r => reqs'[s] = reqs[s]
  BY DEF TypeOK
<1>2. \A s \in Requests :
        /\ reqs'[s].conv = reqs[s].conv /\ reqs'[s].account = reqs[s].account
        /\ reqs'[s].started = reqs[s].started /\ reqs'[s].locked = reqs[s].locked
        /\ reqs'[s].pending = reqs[s].pending /\ reqs'[s].output = reqs[s].output /\ reqs'[s].alias = reqs[s].alias
        /\ reqs'[s].left = reqs[s].left /\ (InTurn(s)' <=> InTurn(s))
        /\ InFlight(reqs'[s]) <=> InFlight(reqs[s])
        /\ reqs'[s].cancel = "done" <=> reqs[s].cancel = "done"
  BY <1>1 DEF InTurn, InFlight
<1>3. TypeOK'
  BY <1>1 DEF TypeOK
<1>4. RequestShape'
  BY <1>1, <1>2 DEF RequestShape
<1>5. LeaseAgrees' /\ LeaseOutlives' /\ RowOutlives' /\ SessionTurns' /\ ConvsApart'
  BY <1>2 DEF LeaseAgrees, LeaseOutlives, RowOutlives, SessionTurns, ConvsApart
<1>6. Forgotten'
  BY <1>2 DEF Forgotten, FreshConvs
<1>7. OwnersKnown'
  BY <1>1, <1>2 DEF OwnersKnown, RequestShape, TypeOK, Row
<1>8. TurnsClean'
  <2>1. ASSUME row'.committed
        PROVE  \/ convs'[row'.conv].taint \notin Dirty
               \/ \E s \in Requests : row'.lease = s /\ reqs'[s].pc \in {"submitted", "answered"}
    <3>1. row.conv \in Convs
      BY <1>1, <2>1 DEF TypeOK, Row
    <3>2. CASE convs'[row.conv] = convs[row.conv]
      BY <1>1, <2>1, <3>2 DEF TurnsClean
    <3>3. CASE row.conv = reqs[r].conv /\ new.pc \in {"submitted", "answered"}
      BY <1>1, <2>1, <3>3 DEF ConvsApart
    <3> QED BY <3>1, <3>2, <3>3
  <2>2. ASSUME NEW s \in Requests, reqs'[s].pc \in {"leased", "bound"}, reqs'[s].started
        PROVE  convs'[reqs'[s].conv].taint \notin Dirty
    <3>1. reqs[s].pc \in {"leased", "bound"} /\ reqs[s].started /\ reqs[s].conv \in Convs
      BY <1>1, <1>2, <2>2 DEF RequestShape, InFlight
    <3>2. convs'[reqs[s].conv] = convs[reqs[s].conv]
      BY <1>1, <2>2, <3>1 DEF ConvsApart
    <3> QED BY <1>2, <3>1, <3>2 DEF TurnsClean
  <2> QED BY <2>1, <2>2 DEF TurnsClean
<1>9. OutputUnspent'
  BY <1>1, <1>2 DEF OutputUnspent
<1> QED BY <1>3, <1>4, <1>5, <1>6, <1>7, <1>8, <1>9

\* The row that acquire writes.
Leased(old, r, conv, account) ==
    Touch([old EXCEPT !.kind = IF @ = "alias" THEN "alias" ELSE "session",
                      !.conv = conv, !.account = account,
                      !.lease = r, !.leaseLeft = LeaseTime,
                      !.completed = NoRequest])

\* acquire leaves everything else of the row alone and gives a session its time.
LEMMA LeasedFacts ==
    ASSUME NEW old \in Row, NEW r \in Requests, NEW conv \in Convs,
           NEW account \in Accounts \cup {NoAccount}
    PROVE  LET n == Leased(old, r, conv, account) IN
           /\ n \in Row /\ n.kind = IF old.kind = "alias" THEN "alias" ELSE "session"
           /\ n.conv = conv /\ n.account = account /\ n.lease = r /\ n.leaseLeft = LeaseTime
           /\ n.locked = old.locked /\ n.committed = old.committed
           /\ n.pending = old.pending /\ n.consumed = old.consumed
           /\ n.kind = "session" => n.ttl = SessionTtl
<1> DEFINE m == [old EXCEPT !.kind = IF @ = "alias" THEN "alias" ELSE "session",
                      !.conv = conv, !.account = account,
                      !.lease = r, !.leaseLeft = LeaseTime,
                      !.completed = NoRequest]
<1>1. /\ LeaseTime \in 0..LeaseTime /\ NoRequest \in Requests \cup {NoRequest}
      /\ r \in Requests \cup {NoRequest} /\ conv \in Convs \cup {NoConv}
      /\ (IF old.kind = "alias" THEN "alias" ELSE "session") \in {"none", "session", "alias"}
  BY SessionConstants
<1>2. m \in Row
  BY <1>1, ZenonT(60) DEF Row
<1>3. /\ m.kind = IF old.kind = "alias" THEN "alias" ELSE "session"
      /\ m.conv = conv /\ m.account = account /\ m.lease = r /\ m.leaseLeft = LeaseTime
      /\ m.locked = old.locked /\ m.committed = old.committed
      /\ m.pending = old.pending /\ m.consumed = old.consumed
  BY DEF Row
<1>4. Leased(old, r, conv, account) = Touch(m)
  BY DEF Leased
<1> HIDE DEF m
<1> QED BY <1>2, <1>3, <1>4, TouchFacts

\* acquire: nobody else is in a turn on this row.
LEMMA AcquireKeeps ==
    ASSUME SessionInv, NEW r \in Requests, NEW output \in {"none", "result", "pair"}, NEW x \in FreshConvs,
           Acquire(r, output, x)
    PROVE  SessionInv'
<1> USE SessionConstants DEF SessionInv
<1> DEFINE old == Current(row)
           conv == IF old.committed THEN old.conv ELSE x
           account == IF old.committed \/ old.locked THEN old.account ELSE NoAccount
           new == [Idle EXCEPT
                     !.pc = "leased", !.conv = conv, !.account = account, !.started = old.committed,
                     !.locked = old.locked, !.pending = old.pending, !.output = output,
                     !.alias = old.kind = "alias", !.left = RequestLimit]
<1>1. row \in Row /\ NoRow \in Row /\ ~NoRow.committed /\ NoRow.kind = "none" /\ ~NoRow.consumed
  BY DEF TypeOK, NoRow, Row
<1>2. /\ old \in Row /\ (old = row \/ old = NoRow)
      /\ old.committed => old = row
      /\ old = NoRow => (row.kind = "none" \/ row.ttl = 0)
      /\ old.leaseLeft = 0 /\ row.lease # r /\ Unused(r)
  BY <1>1 DEF Current, Acquire, Busy, Unused, Row
<1>3. /\ x \in Convs /\ x # row.conv /\ \A s \in Requests : x # reqs[s].conv
  BY DEF FreshConvs
<1>4. conv \in Convs /\ account \in Accounts \cup {NoAccount}
  BY <1>1, <1>2, <1>3 DEF TypeOK, Row
<1>5. row' = Leased(old, r, conv, account) /\ reqs' = [reqs EXCEPT ![r] = new] /\ Know(convs)
  BY DEF Acquire, Leased
<1>6. new \in Request
  <2>1. Idle \in Request /\ RequestLimit \in 0..RequestLimit /\ conv \in Convs \cup {NoConv}
    BY <1>4 DEF Idle, Request
  <2> HIDE DEF conv, account, old
  <2>2. old.committed \in BOOLEAN /\ old.locked \in BOOLEAN /\ old.pending \in BOOLEAN
        /\ (old.kind = "alias") \in BOOLEAN
    BY <1>2 DEF Row
  <2> QED BY <1>4, <2>1, <2>2, ZenonT(60) DEF Request
<1>7. /\ new.pc = "leased" /\ new.conv = conv /\ new.account = account
      /\ new.started = old.committed /\ new.locked = old.locked /\ new.cancel = "no"
      /\ new.pending = old.pending
      /\ new.alias = (old.kind = "alias") /\ new.left = RequestLimit
  <2> HIDE DEF conv, account, old
  <2> QED BY DEF Idle
<1>8. /\ row' \in Row /\ row'.kind = IF old.kind = "alias" THEN "alias" ELSE "session"
      /\ row'.conv = conv /\ row'.account = account /\ row'.lease = r /\ row'.leaseLeft = LeaseTime
      /\ row'.locked = old.locked /\ row'.committed = old.committed
      /\ row'.pending = old.pending /\ row'.consumed = old.consumed
      /\ row'.kind = "session" => row'.ttl = SessionTtl
  <2> HIDE DEF conv, account, old
  <2> QED BY <1>2, <1>4, <1>5, LeasedFacts
<1> HIDE DEF new
<1>9. /\ reqs' \in [Requests -> Request] /\ reqs'[r] = new
      /\ \A s \in Requests : s # r => reqs'[s] = reqs[s]
  BY <1>5, <1>6 DEF TypeOK
<1>10. /\ convs' \in [Convs -> Conversation] /\ Forgotten'
       /\ convs'[conv] = convs[conv]
       /\ \A s \in Requests : reqs'[s].conv \in Convs => convs'[reqs'[s].conv] = convs[reqs'[s].conv]
  <2>1. convs \in [Convs -> Conversation]
    BY DEF TypeOK
  <2> HIDE DEF conv, account, old
  <2> QED BY <1>4, <1>5, <1>8, <2>1, KnowFacts
<1>11. ASSUME NEW s \in Requests, InFlight(reqs[s]), row.lease = s PROVE old = NoRow /\ reqs[s].alias
  <2>1. InTurn(s) /\ row.leaseLeft > 0
    BY <1>11, HolderBusy
  <2>2. old = NoRow
    BY <1>2, <2>1
  <2>3. row.kind # "session"
    BY <1>1, <1>2, <2>1, <2>2 DEF RowOutlives, Row
  <2> QED BY <2>1, <2>2, <2>3 DEF SessionTurns
<1>12. \A s \in Requests : InTurn(s) => reqs[s].alias
  BY <1>11 DEF SessionTurns, InTurn, InFlight
<1>13. \A s \in Requests : s # r => reqs[s].conv # conv
  <2> SUFFICES ASSUME NEW s \in Requests, s # r, reqs[s].conv = conv PROVE FALSE
    OBVIOUS
  <2>1. old.committed /\ old = row /\ conv = row.conv
    BY <1>2, <1>3
  <2>2. InFlight(reqs[s]) /\ row.lease = s
    BY <1>4, <2>1 DEF ConvsApart, RequestShape
  <2> QED BY <1>1, <1>11, <2>1, <2>2
<1>14. old.committed => /\ old = row /\ conv = row.conv /\ account = row.account
                        /\ convs[conv].owner = account /\ account # NoAccount
                        /\ convs[conv].taint \notin Dirty
  <2> SUFFICES ASSUME old.committed
               PROVE  convs[row.conv].owner = row.account /\ row.account # NoAccount
                      /\ convs[row.conv].taint \notin Dirty
    BY <1>2
  <2>1. old = row
    BY <1>2
  <2>2. ASSUME NEW s \in Requests, row.lease = s, reqs[s].pc \in {"submitted", "answered"}
        PROVE  FALSE
    BY <1>1, <1>11, <2>1, <2>2 DEF InFlight
  <2> QED BY <2>1, <2>2 DEF OwnersKnown, TypeOK, TurnsClean
<1>15. TypeOK'
  BY <1>2, <1>8, <1>9, <1>10, <1>14 DEF TypeOK
<1> HIDE DEF conv, account
<1>16. RequestShape'
  BY <1>4, <1>7, <1>8, <1>9 DEF RequestShape, InFlight
<1>17. \A s \in Requests : InTurn(s)' => s = r \/ (InTurn(s) /\ reqs[s].alias)
  BY <1>9, <1>12 DEF InTurn
<1>18. LeaseAgrees' /\ LeaseOutlives' /\ RowOutlives' /\ SessionTurns'
  <2>1. LeaseAgrees'
    BY <1>7, <1>8, <1>9 DEF LeaseAgrees
  <2>2. LeaseOutlives'
    BY <1>7, <1>8, <1>9 DEF LeaseOutlives
  <2>3. RowOutlives' /\ SessionTurns'
    BY <1>7, <1>8, <1>9, <1>17 DEF RowOutlives, SessionTurns
  <2> QED BY <2>1, <2>2, <2>3
<1>19. ConvsApart'
  BY <1>7, <1>8, <1>9, <1>13 DEF ConvsApart
<1>20. OwnersKnown'
  BY <1>7, <1>8, <1>9, <1>10, <1>14 DEF OwnersKnown, RequestShape, InFlight
<1>21. TurnsClean'
  BY <1>4, <1>7, <1>8, <1>9, <1>10, <1>14 DEF TurnsClean, RequestShape, InFlight
<1>22. OutputUnspent'
  BY <1>1, <1>2, <1>7, <1>8, <1>9 DEF OutputUnspent
<1> QED BY <1>10, <1>15, <1>16, <1>18, <1>19, <1>20, <1>21, <1>22

\* A request that has the lease settles its account, with the coordinates it has
\* or with fresh ones.
LEMMA SettleKeeps ==
    ASSUME SessionInv, NEW r \in Requests, row.lease = r, InFlight(reqs[r]),
           row' \in Row, row'.kind = row.kind, row'.lease = r, row'.leaseLeft = row.leaseLeft,
           row'.consumed = row.consumed, row'.pending = row.pending,
           row'.ttl = IF row.kind = "session" THEN SessionTtl ELSE row.ttl,
           NEW new \in Request, reqs' = [reqs EXCEPT ![r] = new], Know(convs),
           new.pc = "bound", new.account \in Accounts,
           row'.conv = new.conv, row'.account = new.account, row'.committed = new.started,
           row'.locked = new.locked, new.started => new.locked,
           new.pending = reqs[r].pending, new.output = reqs[r].output, new.alias = reqs[r].alias, new.left = reqs[r].left,
           new.cancel = reqs[r].cancel, new.output = "result" => new.pending,
           \/ /\ new.conv = reqs[r].conv /\ new.started = reqs[r].started
              /\ new.started => new.account = reqs[r].account /\ reqs[r].pc \in {"leased", "bound"}
           \/ new.conv \in FreshConvs /\ ~new.started
    PROVE  SessionInv'
<1> USE SessionConstants DEF SessionInv
<1>1. /\ reqs' \in [Requests -> Request] /\ reqs'[r] = new /\ reqs[r] \in Request /\ row \in Row
      /\ \A s \in Requests : s # r => reqs'[s] = reqs[s]
  BY DEF TypeOK
<1>2. /\ convs' \in [Convs -> Conversation] /\ Forgotten'
      /\ \A y \in Convs : y = row'.conv => convs'[y] = convs[y]
      /\ \A s \in Requests : reqs'[s].conv \in Convs => convs'[reqs'[s].conv] = convs[reqs'[s].conv]
  <2>1. convs \in [Convs -> Conversation]
    BY DEF TypeOK
  <2> QED BY <2>1, KnowFacts
<1>3. new.conv \in Convs /\ \A s \in Requests : s # r => reqs[s].conv # new.conv
  BY DEF ConvsApart, RequestShape, FreshConvs
<1>4. InTurn(r) /\ row.leaseLeft > 0 /\ row.kind # "none"
  BY HolderBusy DEF TypeOK, NoRow
<1>5. TypeOK'
  BY <1>1, <1>2, <1>3, <1>4 DEF TypeOK
<1>6. RequestShape'
  BY <1>1, <1>3 DEF RequestShape, InFlight
<1>7. \A s \in Requests : InTurn(s)' <=> InTurn(s)
  BY <1>1, <1>4 DEF InTurn
<1>8. LeaseAgrees' /\ LeaseOutlives' /\ SessionTurns'
  BY <1>1, <1>7 DEF LeaseAgrees, LeaseOutlives, SessionTurns
<1>9. RowOutlives'
  BY <1>1 DEF RowOutlives, Row
<1>10. ConvsApart'
  BY <1>1, <1>3 DEF ConvsApart
<1>11. OwnersKnown'
  <2>1. new.started => convs[new.conv].owner = new.account
    BY DEF OwnersKnown
  <2> QED BY <1>1, <1>2, <1>3, <2>1 DEF OwnersKnown, RequestShape, InFlight
<1>12. TurnsClean'
  <2>1. new.started => convs[new.conv].taint \notin Dirty
    BY DEF TurnsClean
  <2> QED BY <1>1, <1>2, <1>3, <2>1 DEF TurnsClean, RequestShape, InFlight
<1>13. OutputUnspent'
  BY <1>1 DEF OutputUnspent
<1> QED BY <1>2, <1>5, <1>6, <1>8, <1>9, <1>10, <1>11, <1>12, <1>13

\* accountForLease and exchange's fail-over.
LEMMA AccountKeeps ==
    ASSUME SessionInv, NEW r \in Requests, NEW a \in Accounts,
           \/ BindAccount(r, a)
           \/ \E x \in FreshConvs : RebindAccount(r, a, x) \/ FailOver(r, a, x)
    PROVE  SessionInv'
<1> USE SessionConstants DEF SessionInv
<1> DEFINE q == reqs[r]
           t == Touch(row)
<1>1. q \in Request /\ row \in Row /\ convs \in [Convs -> Conversation]
  BY DEF TypeOK
<1>2. /\ t \in Row /\ t.kind = row.kind /\ t.conv = row.conv /\ t.account = row.account
      /\ t.locked = row.locked /\ t.committed = row.committed
      /\ t.pending = row.pending /\ t.lease = row.lease
      /\ t.completed = row.completed /\ t.leaseLeft = row.leaseLeft
      /\ t.consumed = row.consumed
      /\ t.ttl = IF row.kind = "session" THEN SessionTtl ELSE row.ttl
  BY <1>1, TouchFacts
<1> HIDE DEF t
<1>3. CASE BindAccount(r, a)
  <2> DEFINE new == [q EXCEPT !.pc = "bound", !.account = a]
  <2>1. /\ q.pc = "leased" /\ OutputExpected(r) /\ q.account \in {NoAccount, a}
        /\ q.account = NoAccount => row.lease = r
        /\ row' = IF q.account = NoAccount THEN [t EXCEPT !.account = a] ELSE row
        /\ reqs' = [reqs EXCEPT ![r] = new] /\ Know(convs)
    BY <1>1, <1>3 DEF BindAccount, TypeOK, t
  <2>2. new \in Request
    BY <1>1, Zenon DEF Request
  <2>3. /\ new.pc = "bound" /\ new.conv = q.conv /\ new.account = a /\ new.started = q.started
        /\ new.locked = q.locked /\ new.pending = q.pending /\ new.output = q.output /\ new.alias = q.alias
        /\ new.left = q.left /\ new.cancel = q.cancel
    BY <1>1 DEF Request
  <2>4. new.output = "result" => new.pending
    BY <2>1, <2>3 DEF OutputExpected
  <2> HIDE DEF new
  <2>5. CASE q.account = NoAccount
    <3> DEFINE n == [t EXCEPT !.account = a]
    <3>1. n \in Row /\ row' = n
      BY <1>2, <2>1, <2>5 DEF Row
    <3>2. /\ n.kind = t.kind /\ n.conv = t.conv /\ n.account = a
          /\ n.locked = t.locked /\ n.committed = t.committed
          /\ n.pending = t.pending /\ n.lease = t.lease /\ n.leaseLeft = t.leaseLeft
          /\ n.consumed = t.consumed /\ n.ttl = t.ttl
      BY <1>2 DEF Row
    <3> HIDE DEF n
    <3>3. InFlight(q) /\ row.lease = r /\ InTurn(r)
      BY <2>1, <2>5, HolderBusy DEF InFlight
    <3>4. row.conv = q.conv /\ row.committed = q.started /\ row.locked = q.locked /\ ~q.started
      BY <2>5, <3>3 DEF LeaseAgrees, OwnersKnown
    <3>5. row' \in Row
      BY <3>1
    <3>6. /\ row'.kind = row.kind /\ row'.lease = r /\ row'.leaseLeft = row.leaseLeft
          /\ row'.consumed = row.consumed /\ row'.pending = row.pending
          /\ row'.ttl = IF row.kind = "session" THEN SessionTtl ELSE row.ttl
          /\ row'.conv = new.conv /\ row'.account = new.account /\ new.account \in Accounts
      BY <1>2, <2>3, <3>1, <3>2, <3>3, <3>4
    <3>7. row'.committed = new.started /\ row'.locked = new.locked /\ ~new.started
      BY <1>2, <2>3, <3>1, <3>2, <3>4
    <3> QED BY <2>1, <2>2, <2>3, <2>4, <3>3, <3>5, <3>6, <3>7, SettleKeeps
  <2>6. CASE q.account = a
    <3>1. row' = row
      BY <2>1, <2>6
    <3>2. /\ convs' \in [Convs -> Conversation]
          /\ \A x \in Convs : \/ x = row.conv
                              \/ \E s \in Requests : x = reqs[s].conv
                              \/ convs'[x] = Blank
          /\ \A x \in Convs : (x = row.conv \/ \E s \in Requests : x = reqs[s].conv) => convs'[x] = convs[x]
      <4>1. \A s \in Requests : reqs'[s].conv = reqs[s].conv
        BY <2>1, <2>3 DEF TypeOK
      <4>2. Blank \in Conversation
        BY DEF Blank, Conversation
      <4> QED BY <1>1, <2>1, <3>1, <4>1, <4>2 DEF Know
    <3> QED BY <2>1, <2>2, <2>3, <2>4, <2>6, <3>1, <3>2, MoveKeeps
  <2> QED BY <2>1, <2>5, <2>6
<1>4. ASSUME NEW x \in FreshConvs, RebindAccount(r, a, x) PROVE SessionInv'
  <2> DEFINE new == [q EXCEPT !.pc = "bound", !.conv = x, !.account = a,
                              !.started = FALSE, !.locked = FALSE]
             n == [t EXCEPT !.conv = x, !.account = a, !.committed = FALSE,
                            !.locked = FALSE, !.completed = NoRequest]
  <2>1. /\ q.pc = "leased" /\ OutputExpected(r) /\ row.lease = r /\ row' = n
        /\ reqs' = [reqs EXCEPT ![r] = new] /\ Know(convs)
    BY <1>1, <1>4 DEF RebindAccount, TypeOK, t
  <2>2. x \in Convs /\ x \in Convs \cup {NoConv} /\ NoRequest \in Requests \cup {NoRequest}
    BY DEF FreshConvs
  <2>3. new \in Request
    BY <1>1, <2>2, Zenon DEF Request
  <2>4. /\ new.pc = "bound" /\ new.conv = x /\ new.account = a /\ ~new.started
        /\ ~new.locked /\ new.pending = q.pending /\ new.output = q.output /\ new.alias = q.alias
        /\ new.left = q.left /\ new.cancel = q.cancel
    BY <1>1 DEF Request
  <2>5. n \in Row
    BY <1>2, <2>2, Zenon DEF Row
  <2>6. /\ n.kind = t.kind /\ n.conv = x /\ n.account = a
        /\ ~n.locked /\ ~n.committed
        /\ n.pending = t.pending /\ n.lease = t.lease /\ n.leaseLeft = t.leaseLeft
        /\ n.consumed = t.consumed /\ n.ttl = t.ttl
    BY <1>2 DEF Row
  <2> HIDE DEF n, new
  <2>7. new.output = "result" => new.pending
    BY <2>1, <2>4 DEF OutputExpected
  <2>8. InFlight(q) /\ row' \in Row
    BY <2>1, <2>5 DEF InFlight
  <2>9. /\ row'.kind = row.kind /\ row'.lease = r /\ row'.leaseLeft = row.leaseLeft
        /\ row'.consumed = row.consumed /\ row'.pending = row.pending
        /\ row'.ttl = IF row.kind = "session" THEN SessionTtl ELSE row.ttl
        /\ row'.conv = new.conv /\ row'.account = new.account /\ new.account \in Accounts
    BY <1>2, <2>1, <2>4, <2>6
  <2>10. row'.committed = new.started /\ row'.locked = new.locked /\ ~new.started
    BY <2>1, <2>3, <2>4, <2>6, <2>8 DEF Row, Request
  <2> QED BY <2>1, <2>3, <2>4, <2>7, <2>8, <2>9, <2>10, SettleKeeps
<1>5. ASSUME NEW x \in FreshConvs, FailOver(r, a, x) PROVE SessionInv'
  <2> DEFINE new == [q EXCEPT !.pc = "bound", !.conv = x, !.account = a, !.failedOver = TRUE]
             n == [t EXCEPT !.account = a, !.conv = x]
  <2>1. /\ q.pc \in {"bound", "submitted"} /\ ~q.started /\ ~q.locked /\ row.lease = r
        /\ ~row.committed /\ ~row.locked /\ row' = n
        /\ reqs' = [reqs EXCEPT ![r] = new] /\ Know(convs)
    BY <1>1, <1>5 DEF FailOver, Switched, TypeOK, t
  <2>2. x \in Convs /\ x \in Convs \cup {NoConv}
    BY DEF FreshConvs
  <2>3. new \in Request
    BY <1>1, <2>2, Zenon DEF Request
  <2>4. /\ new.pc = "bound" /\ new.conv = x /\ new.account = a /\ new.started = q.started
        /\ new.locked = q.locked /\ new.pending = q.pending /\ new.output = q.output /\ new.alias = q.alias
        /\ new.left = q.left /\ new.cancel = q.cancel
    BY <1>1 DEF Request
  <2>5. n \in Row
    BY <1>2, <2>2, Zenon DEF Row
  <2>6. /\ n.kind = t.kind /\ n.conv = x /\ n.account = a
        /\ n.locked = t.locked /\ n.committed = t.committed
        /\ n.pending = t.pending /\ n.lease = t.lease /\ n.leaseLeft = t.leaseLeft
        /\ n.consumed = t.consumed /\ n.ttl = t.ttl
    BY <1>2 DEF Row
  <2> HIDE DEF n, new
  <2>7. new.output = "result" => new.pending
    BY <2>1, <2>4 DEF OutputUnspent
  <2>8. InFlight(q) /\ row' \in Row
    BY <2>1, <2>5 DEF InFlight
  <2>9. /\ row'.kind = row.kind /\ row'.lease = r /\ row'.leaseLeft = row.leaseLeft
        /\ row'.consumed = row.consumed /\ row'.pending = row.pending
        /\ row'.ttl = IF row.kind = "session" THEN SessionTtl ELSE row.ttl
        /\ row'.conv = new.conv /\ row'.account = new.account /\ new.account \in Accounts
    BY <1>2, <2>1, <2>4, <2>6
  <2>10. row'.committed = new.started /\ row'.locked = new.locked /\ ~new.started
    BY <1>2, <2>1, <2>3, <2>4, <2>6, <2>8 DEF Row, Request
  <2> QED BY <2>1, <2>3, <2>4, <2>7, <2>8, <2>9, <2>10, SettleKeeps
<1> QED BY <1>3, <1>4, <1>5

\* completeFinal commits the turn's conversation, clean and with its owner.
LEMMA CompleteKeeps ==
    ASSUME SessionInv, NEW r \in Requests, NEW shares \in BOOLEAN, Complete(r, shares)
    PROVE  SessionInv'
<1> USE SessionConstants DEF SessionInv
<1> DEFINE q == reqs[r]
           t == Touch(row)
           c == [t EXCEPT !.lease = NoRequest, !.leaseLeft = 0, !.completed = r,
                          !.conv = q.conv, !.committed = TRUE, !.locked = TRUE, !.pending = FALSE]
           n == [c EXCEPT !.consumed = @ \/ (q.pending /\ q.output # "none")]
           new == [Over(q) EXCEPT !.pc = "committed", !.left = q.left]
           cs == [convs EXCEPT ![q.conv].owner = q.account, ![q.conv].taint = "clean",
                               ![q.conv].shared = @ \/ shares]
<1>1. /\ q \in Request /\ row \in Row /\ convs \in [Convs -> Conversation]
      /\ q.pc = "answered" /\ row.lease = r /\ row.account = q.account
      /\ q.conv \in Convs /\ q.account \in Accounts
  BY DEF TypeOK, Complete, RequestShape, InFlight
<1>2. row' = n /\ reqs' = [reqs EXCEPT ![r] = new] /\ Know(cs)
  BY DEF Complete, Completed
<1>3. /\ t \in Row /\ t.kind = row.kind /\ t.account = row.account /\ t.consumed = row.consumed
  BY <1>1, TouchFacts
<1> HIDE DEF t
<1>4. c \in Row
  <2>1. /\ NoRequest \in Requests \cup {NoRequest} /\ 0 \in 0..LeaseTime
        /\ r \in Requests \cup {NoRequest} /\ q.conv \in Convs \cup {NoConv}
    BY <1>1
  <2> HIDE DEF q
  <2> QED BY <1>3, <2>1, Zenon DEF Row
<1>5. /\ c.kind = row.kind /\ c.account = row.account /\ c.conv = q.conv /\ c.lease = NoRequest
      /\ c.leaseLeft = 0 /\ c.committed /\ c.locked /\ ~c.pending
  BY <1>3 DEF Row
<1> HIDE DEF c
<1>6. row' \in Row
  <2>1. (c.consumed \/ (q.pending /\ q.output # "none")) \in BOOLEAN
    OBVIOUS
  <2> HIDE DEF q
  <2> QED BY <1>2, <1>4, <2>1, Zenon DEF Row
<1>7. /\ row'.kind = row.kind /\ row'.account = q.account /\ row'.conv = q.conv
      /\ row'.lease = NoRequest /\ row'.leaseLeft = 0 /\ row'.committed /\ row'.locked /\ ~row'.pending
  BY <1>1, <1>2, <1>4, <1>5 DEF Row
<1>8. /\ new \in Request /\ new.pc = "committed" /\ new.conv = NoConv /\ new.cancel # "done"
  <2>1. Over(q) \in Request /\ Over(q).conv = NoConv /\ Over(q).cancel # "done"
    BY <1>1, OverFacts
  <2>2. q.left \in 0..RequestLimit
    BY <1>1 DEF Request
  <2> DEFINE o == Over(q)
  <2> HIDE DEF o
  <2>3. new = [o EXCEPT !.pc = "committed", !.left = q.left] /\ o \in Request
        /\ o.conv = NoConv /\ o.cancel # "done"
    BY <2>1 DEF o
  <2> HIDE DEF q, new
  <2>4. new \in Request
    BY <2>2, <2>3, Zenon DEF Request
  <2> QED BY <2>3, <2>4 DEF Request
<1>9. /\ cs \in [Convs -> Conversation] /\ cs[q.conv].owner = q.account /\ cs[q.conv].taint = "clean"
      /\ \A y \in Convs : y # q.conv => cs[y] = convs[y]
  <2> DEFINE k == [convs[q.conv] EXCEPT !.owner = q.account, !.taint = "clean", !.shared = @ \/ shares]
  <2>1. convs[q.conv] \in Conversation /\ (convs[q.conv].shared \/ shares) \in BOOLEAN
        /\ q.account \in Accounts \cup {NoAccount}
    BY <1>1
  <2>2. k \in Conversation
    BY <2>1, Zenon DEF Conversation
  <2>3. k.owner = q.account /\ k.taint = "clean"
    BY <2>1 DEF Conversation
  <2>4. cs = [convs EXCEPT ![q.conv] = k]
    BY <1>1
  <2> HIDE DEF k, cs
  <2> QED BY <1>1, <2>2, <2>3, <2>4
<1> HIDE DEF new, n, cs
<1>10. /\ reqs' \in [Requests -> Request] /\ reqs'[r] = new
       /\ \A s \in Requests : s # r => reqs'[s] = reqs[s]
  BY <1>2, <1>8 DEF TypeOK
<1>11. /\ convs' \in [Convs -> Conversation] /\ Forgotten'
       /\ \A y \in Convs : y = row'.conv => convs'[y] = cs[y]
       /\ \A s \in Requests : reqs'[s].conv \in Convs => convs'[reqs'[s].conv] = cs[reqs'[s].conv]
  BY <1>2, <1>9, KnowFacts
<1>12. row.kind # "none"
  BY <1>1 DEF TypeOK, NoRow
<1>13. \A s \in Requests : s # r => reqs'[s].conv # q.conv
  BY <1>1, <1>10 DEF ConvsApart
<1>14. \A s \in Requests : InTurn(s)' => InTurn(s) /\ s # r
  BY <1>8, <1>10 DEF InTurn
<1>15. TypeOK'
  BY <1>1, <1>6, <1>7, <1>10, <1>11, <1>12 DEF TypeOK
<1>16. RequestShape'
  BY <1>7, <1>8, <1>10 DEF RequestShape, InFlight
<1>17. LeaseAgrees' /\ LeaseOutlives' /\ RowOutlives'
  <2>1. \A s \in Requests : row'.lease # s
    BY <1>7
  <2>2. LeaseAgrees' /\ LeaseOutlives'
    BY <2>1 DEF LeaseAgrees, LeaseOutlives
  <2>3. RowOutlives'
    BY <1>7 DEF RowOutlives
  <2> QED BY <2>2, <2>3
<1>18. SessionTurns'
  BY <1>1, <1>10, <1>14 DEF SessionTurns
<1>19. ConvsApart'
  BY <1>1, <1>7, <1>8, <1>10, <1>13 DEF ConvsApart
<1>20. OwnersKnown'
  BY <1>1, <1>7, <1>8, <1>9, <1>10, <1>11, <1>13 DEF OwnersKnown, RequestShape, InFlight
<1>21. TurnsClean'
  BY <1>1, <1>7, <1>8, <1>9, <1>10, <1>11, <1>13 DEF TurnsClean, RequestShape, InFlight, Dirty
<1>22. OutputUnspent'
  BY <1>7, <1>8, <1>10 DEF OutputUnspent
<1> QED BY <1>11, <1>15, <1>16, <1>17, <1>18, <1>19, <1>20, <1>21, <1>22

\* A stream's late abandon() ends the turn it belongs to, or nothing.
LEMMA AbandonArrivesKeeps ==
    ASSUME SessionInv, NEW r \in Requests, AbandonArrives(r)
    PROVE  SessionInv'
<1> USE SessionConstants DEF SessionInv
<1> DEFINE q == reqs[r]
           new == [q EXCEPT !.cancel = IF q.pc = "idle" THEN "no" ELSE "done"]
<1>1. /\ q \in Request /\ row \in Row /\ convs \in [Convs -> Conversation]
      /\ q.cancel = "sent" /\ row' = Abandoned(row, r, FALSE)
      /\ reqs' = [reqs EXCEPT ![r] = new] /\ Know(convs)
  BY DEF TypeOK, AbandonArrives
<1>2. RowEnded(row', row, r) /\ row'.lease # r /\ (row.lease = r => ~row'.committed)
  <2>1. FALSE \in BOOLEAN
    OBVIOUS
  <2> QED BY <1>1, <2>1, AbandonedEnds
<1>3. new \in Request
  <2>1. (IF q.pc = "idle" THEN "no" ELSE "done") \in {"no", "sent", "done"}
    OBVIOUS
  <2> HIDE DEF q
  <2> QED BY <1>1, <2>1, Zenon DEF Request
<1>4. /\ new.pc = q.pc /\ new.conv = q.conv /\ new.account = q.account /\ new.started = q.started
      /\ new.locked = q.locked /\ new.pending = q.pending /\ new.output = q.output /\ new.alias = q.alias
      /\ new.left = q.left /\ (new.cancel = "done" <=> q.pc # "idle")
  BY <1>1 DEF Request
<1> HIDE DEF new
<1>5. /\ reqs' \in [Requests -> Request] /\ reqs'[r] = new
      /\ \A s \in Requests : s # r => reqs'[s] = reqs[s]
  BY <1>1, <1>3 DEF TypeOK
<1>6. /\ convs' \in [Convs -> Conversation] /\ Forgotten'
      /\ \A y \in Convs : y = row'.conv => convs'[y] = convs[y]
      /\ \A s \in Requests : reqs'[s].conv \in Convs => convs'[reqs'[s].conv] = convs[reqs'[s].conv]
  BY <1>1, KnowFacts
<1>7. row'.kind = "none" => row' = NoRow
  BY <1>2 DEF TypeOK, RowEnded, NoRow
<1>8. TypeOK'
  BY <1>2, <1>5, <1>6, <1>7 DEF TypeOK, RowEnded
<1>9. RequestShape'
  BY <1>2, <1>4, <1>5 DEF RequestShape, InFlight, RowEnded
<1>10. \A s \in Requests : InTurn(s)' => s # r /\ InTurn(s)
  BY <1>4, <1>5 DEF InTurn
<1>11. \A s \in Requests : s # r /\ row.lease = s => row' = row
  BY <1>2 DEF RowEnded
<1>12. LeaseAgrees' /\ LeaseOutlives' /\ SessionTurns'
  BY <1>2, <1>5, <1>10, <1>11 DEF LeaseAgrees, LeaseOutlives, SessionTurns, RowEnded
<1>13. RowOutlives'
  BY <1>2 DEF RowOutlives, RowEnded
<1>14. ConvsApart'
  BY <1>2, <1>4, <1>5, <1>11 DEF ConvsApart, RowEnded
<1>15. OwnersKnown'
  <2>1. row'.committed => convs'[row'.conv].owner = row'.account
    BY <1>2, <1>6 DEF OwnersKnown, RowEnded, TypeOK, Row
  <2> QED BY <1>4, <1>5, <1>6, <2>1 DEF OwnersKnown, RequestShape, InFlight
<1>16. TurnsClean'
  <2>1. ASSUME row'.committed
        PROVE  \/ convs'[row'.conv].taint \notin Dirty
               \/ \E s \in Requests : row'.lease = s /\ reqs'[s].pc \in {"submitted", "answered"}
    <3>1. row.committed /\ row.lease # r /\ row'.conv = row.conv
      BY <1>2, <2>1 DEF RowEnded
    <3>2. row.conv \in Convs
      BY <1>1, <3>1 DEF TypeOK, Row
    <3>3. convs'[row'.conv] = convs[row.conv]
      BY <1>6, <3>1, <3>2
    <3> QED BY <1>5, <1>11, <3>1, <3>3 DEF TurnsClean
  <2>2. ASSUME NEW s \in Requests, reqs'[s].pc \in {"leased", "bound"}, reqs'[s].started
        PROVE  convs'[reqs'[s].conv].taint \notin Dirty
    BY <1>4, <1>5, <1>6, <2>2 DEF TurnsClean, RequestShape, InFlight
  <2> QED BY <2>1, <2>2 DEF TurnsClean
<1>17. OutputUnspent'
  BY <1>2, <1>4, <1>5, <1>11 DEF OutputUnspent, RowEnded
<1> QED BY <1>6, <1>8, <1>9, <1>12, <1>13, <1>14, <1>15, <1>16, <1>17

\* The ways a turn ends: release, abandon or nothing at all.
LEMMA TurnEndKeeps ==
    ASSUME SessionInv, NEW r \in Requests,
           \/ Reject(r) \/ (\E a \in Accounts \cup {NoAccount} : NoAccountForLease(r, a))
           \/ FailUnsubmitted(r) \/ FailSubmitted(r) \/ LoseAnswer(r) \/ Terminal(r)
           \/ (\E fault \in BOOLEAN : AbandonUnseen(r, fault)) \/ CompleteStale(r)
           \/ Deliver(r) \/ Crash(r)
    PROVE  SessionInv'
<1> USE DEF SessionInv
<1> DEFINE q == reqs[r]
           Marked(taint) == [convs EXCEPT ![q.conv].taint = taint]
<1>1. q \in Request /\ row \in Row /\ convs \in [Convs -> Conversation]
  BY DEF TypeOK
<1>2. ASSUME NEW taint \in {"clean", "open", "fault", "terminal", "lost"}, InFlight(q)
      PROVE  /\ Marked(taint) \in [Convs -> Conversation]
             /\ Marked(taint)[q.conv].taint = taint
             /\ \A x \in Convs : /\ Marked(taint)[x].owner = convs[x].owner
                                 /\ x # q.conv => Marked(taint)[x] = convs[x]
  <2>1. q.conv \in Convs
    BY <1>2 DEF RequestShape
  <2> QED BY <1>1, <2>1 DEF Conversation
<1> HIDE DEF Marked
<1>3. /\ RowEnded(Released(row, r), row, r)
      /\ \A d \in BOOLEAN : /\ RowEnded(Abandoned(row, r, d), row, r)
                            /\ row.lease = r => ~Abandoned(row, r, d).committed
      /\ RowEnded(row, row, r)
  BY <1>1, ReleasedEnds, AbandonedEnds DEF RowEnded
<1>4. ASSUME RowEnded(row', row, r), reqs' = [reqs EXCEPT ![r] = Over(reqs[r])], Know(convs),
             q.pc \notin {"submitted", "answered"} \/ ~row'.committed \/ row.lease # r
      PROVE  SessionInv'
  BY <1>1, <1>4, EndKeeps
<1>5. ASSUME NEW taint \in {"clean", "open", "fault", "terminal", "lost"}, InFlight(q),
             RowEnded(row', row, r), reqs' = [reqs EXCEPT ![r] = Over(reqs[r])], Know(Marked(taint)),
             taint \notin Dirty \/ ~row'.committed \/ row.lease # r
      PROVE  SessionInv'
  <2>1. row.lease = r => row.conv = q.conv
    BY <1>5, HolderBusy DEF LeaseAgrees
  <2>2. \/ ~row'.committed \/ row.lease # r
        \/ Marked(taint)[row.conv].taint \notin Dirty
    BY <1>2, <1>5, <2>1
  <2> QED BY <1>2, <1>5, <2>2, EndKeeps
<1>6. CASE Reject(r) \/ (\E a \in Accounts \cup {NoAccount} : NoAccountForLease(r, a)) \/ FailUnsubmitted(r)
  BY <1>3, <1>4, <1>6 DEF Reject, NoAccountForLease, FailUnsubmitted
<1>7. CASE FailSubmitted(r)
  BY <1>3, <1>5, <1>7 DEF FailSubmitted, InFlight, Marked
<1>8. CASE LoseAnswer(r) \/ Terminal(r)
  BY <1>3, <1>5, <1>8 DEF LoseAnswer, Terminal, InFlight, Marked, Dirty
<1>9. ASSUME NEW fault \in BOOLEAN, AbandonUnseen(r, fault) PROVE SessionInv'
  <2>1. CASE fault
    BY <1>3, <1>5, <1>9, <2>1 DEF AbandonUnseen, InFlight, Marked
  <2>2. CASE ~fault
    BY <1>3, <1>4, <1>9, <2>2 DEF AbandonUnseen
  <2> QED BY <2>1, <2>2
<1>10. CASE CompleteStale(r)
  BY <1>3, <1>4, <1>10 DEF CompleteStale
<1>11. CASE Deliver(r)
  BY <1>3, <1>4, <1>11 DEF Deliver
<1>12. CASE Crash(r)
  <2>1. CASE q.pc \in {"submitted", "answered"}
    BY <1>3, <1>5, <1>12, <2>1 DEF Crash, InFlight, Marked, Dirty
  <2>2. CASE q.pc \notin {"submitted", "answered"}
    BY <1>3, <1>4, <1>12, <2>2 DEF Crash
  <2> QED BY <2>1, <2>2
<1> QED BY <1>6, <1>7, <1>8, <1>9, <1>10, <1>11, <1>12

\* Submission, answer and cancellation.
LEMMA TurnMovesKeep ==
    ASSUME SessionInv, NEW r \in Requests, Submit(r) \/ Answer(r) \/ CancelStream(r)
    PROVE  SessionInv'
<1> USE DEF SessionInv
<1> DEFINE q == reqs[r]
<1>1. q \in Request /\ row \in Row /\ convs \in [Convs -> Conversation]
  BY DEF TypeOK
<1>2. ASSUME Know(convs), row' = row, \A s \in Requests : reqs'[s].conv = reqs[s].conv
      PROVE  /\ convs' \in [Convs -> Conversation]
             /\ \A x \in Convs : \/ x = row.conv
                                 \/ \E s \in Requests : x = reqs[s].conv
                                 \/ convs'[x] = Blank
             /\ \A x \in Convs : (x = row.conv \/ \E s \in Requests : x = reqs[s].conv) => convs'[x] = convs[x]
  <2>1. Blank \in Conversation
    BY DEF Blank, Conversation
  <2> QED BY <1>1, <1>2, <2>1 DEF Know
<1>3. ASSUME NEW pc \in {"submitted", "answered"},
             NEW new, new = [q EXCEPT !.pc = pc]
      PROVE  /\ new \in Request /\ new.pc = pc
             /\ new.conv = q.conv /\ new.account = q.account /\ new.started = q.started
             /\ new.locked = q.locked /\ new.pending = q.pending /\ new.output = q.output /\ new.alias = q.alias
             /\ new.left = q.left /\ new.cancel = q.cancel
  BY <1>1, <1>3 DEF Request
<1>4. CASE Submit(r)
  <2> DEFINE new == [q EXCEPT !.pc = "submitted"]
  <2>1. /\ q.pc = "bound" /\ row' = row /\ reqs' = [reqs EXCEPT ![r] = new]
        /\ convs' = [convs EXCEPT ![q.conv].taint = "open"]
    BY <1>1, <1>4 DEF Submit
  <2>2. q.conv \in Convs
    BY <2>1 DEF RequestShape, InFlight
  <2>3. /\ convs' \in [Convs -> Conversation]
        /\ \A x \in Convs : convs'[x].owner = convs[x].owner /\ (x # q.conv => convs'[x] = convs[x])
    BY <1>1, <2>1, <2>2 DEF Conversation
  <2>4. \A x \in Convs : \/ x = row.conv
                         \/ \E s \in Requests : x = reqs[s].conv
                         \/ convs'[x] = Blank
    BY <2>3 DEF Forgotten, FreshConvs
  <2>5. /\ new \in Request /\ new.pc = "submitted"
        /\ new.conv = q.conv /\ new.account = q.account /\ new.started = q.started
        /\ new.locked = q.locked /\ new.pending = q.pending /\ new.output = q.output /\ new.alias = q.alias
        /\ new.left = q.left /\ new.cancel = q.cancel
    BY <1>3
  <2> HIDE DEF new
  <2>6. \A x \in Convs : (x = row.conv \/ \E s \in Requests : x = reqs[s].conv) =>
           /\ convs'[x].owner = convs[x].owner
           /\ convs'[x] = convs[x] \/ (x = reqs[r].conv /\ new.pc \in {"submitted", "answered"})
    BY <2>3, <2>5
  <2>7. row' = row /\ reqs' = [reqs EXCEPT ![r] = new] /\ convs' \in [Convs -> Conversation]
    BY <2>1, <2>3
  <2>8. new.pc \in {"submitted", "answered"} /\ reqs[r].pc \in {"bound", "submitted"}
    BY <2>1, <2>5
  <2> HIDE DEF q
  <2>9. /\ new.conv = reqs[r].conv /\ new.account = reqs[r].account /\ new.started = reqs[r].started
        /\ new.locked = reqs[r].locked /\ new.pending = reqs[r].pending /\ new.output = reqs[r].output /\ new.alias = reqs[r].alias
        /\ new.left = reqs[r].left /\ (new.cancel = "done" <=> reqs[r].cancel = "done")
        /\ new \in Request
    BY <2>5 DEF q
  <2> QED BY <2>4, <2>6, <2>7, <2>8, <2>9, MoveKeeps
<1>5. CASE Answer(r)
  <2> DEFINE new == [q EXCEPT !.pc = "answered"]
  <2>1. /\ q.pc = "submitted" /\ row' = row /\ reqs' = [reqs EXCEPT ![r] = new] /\ Know(convs)
    BY <1>1, <1>5 DEF Answer
  <2>2. /\ new \in Request /\ new.pc = "answered"
        /\ new.conv = q.conv /\ new.account = q.account /\ new.started = q.started
        /\ new.locked = q.locked /\ new.pending = q.pending /\ new.output = q.output /\ new.alias = q.alias
        /\ new.left = q.left /\ new.cancel = q.cancel
    BY <1>3
  <2> HIDE DEF new
  <2>3. \A s \in Requests : reqs'[s].conv = reqs[s].conv
    BY <2>1, <2>2 DEF TypeOK
  <2> QED BY <1>2, <2>1, <2>2, <2>3, MoveKeeps
<1>6. CASE CancelStream(r)
  <2> DEFINE new == [q EXCEPT !.cancel = "sent"]
  <2>1. /\ q.cancel = "no" /\ row' = row /\ reqs' = [reqs EXCEPT ![r] = new] /\ Know(convs)
    BY <1>1, <1>6 DEF CancelStream
  <2>2. /\ new \in Request /\ new.pc = q.pc
        /\ new.conv = q.conv /\ new.account = q.account /\ new.started = q.started
        /\ new.locked = q.locked /\ new.pending = q.pending /\ new.output = q.output /\ new.alias = q.alias
        /\ new.left = q.left /\ new.cancel = "sent"
    BY <1>1 DEF Request
  <2> HIDE DEF new
  <2>3. \A s \in Requests : reqs'[s].conv = reqs[s].conv
    BY <2>1, <2>2 DEF TypeOK
  <2> QED BY <1>2, <2>1, <2>2, <2>3, MoveKeeps
<1> QED BY <1>4, <1>5, <1>6

-----------------------------------------------------------------------------
(* The steps of the object.                                                *)

\* A row without a lease takes the place of one that nobody holds, or of an
\* expired alias.
LEMMA ReplaceKeeps ==
    ASSUME SessionInv, row' \in Row, row'.lease = NoRequest, row'.leaseLeft = 0, ~row'.consumed,
           row'.kind = "none" => row' = NoRow,
           row.leaseLeft = 0 \/ row.kind # "session", reqs' = reqs,
           NEW cs \in [Convs -> Conversation], Know(cs),
           \A x \in Convs : cs[x] = convs[x] \/ (x = row'.conv /\ x \in FreshConvs),
           row'.committed => /\ row'.conv \in FreshConvs /\ row'.locked
                             /\ row'.account # NoAccount /\ cs[row'.conv].owner = row'.account
                             /\ cs[row'.conv].taint \notin Dirty
    PROVE  SessionInv'
<1> USE SessionConstants DEF SessionInv
<1>1. /\ convs' \in [Convs -> Conversation] /\ Forgotten'
      /\ \A y \in Convs : y = row'.conv => convs'[y] = cs[y]
      /\ \A s \in Requests : reqs[s].conv \in Convs => convs'[reqs[s].conv] = cs[reqs[s].conv]
  BY KnowFacts
<1>2. \A s \in Requests : row'.lease # s
  OBVIOUS
<1>3. \A s \in Requests : InTurn(s)' = InTurn(s)
  BY DEF InTurn
<1>4. \A s \in Requests : InTurn(s) => reqs[s].alias
  <2> SUFFICES ASSUME NEW s \in Requests, InTurn(s), ~reqs[s].alias PROVE FALSE
    BY DEF TypeOK, Request
  <2>1. row.lease = s /\ row.kind = "session"
    BY DEF SessionTurns
  <2>2. row.leaseLeft > 0
    BY <2>1, HolderBusy DEF InTurn, InFlight
  <2> QED BY <2>1, <2>2
<1>5. \A s \in Requests : reqs[s].conv \notin FreshConvs
  BY DEF FreshConvs
<1>6. \A s \in Requests : reqs[s].conv \in Convs => convs'[reqs[s].conv] = convs[reqs[s].conv]
  BY <1>1, <1>5
<1>7. TypeOK'
  BY <1>1 DEF TypeOK, FreshConvs
<1>8. RequestShape'
  BY <1>2 DEF RequestShape
<1>9. LeaseAgrees' /\ LeaseOutlives'
  BY <1>2 DEF LeaseAgrees, LeaseOutlives
<1>10. RowOutlives'
  BY DEF RowOutlives
<1>11. SessionTurns'
  BY <1>3, <1>4 DEF SessionTurns
<1>12. ConvsApart'
  BY <1>5 DEF ConvsApart
<1>13. OwnersKnown'
  BY <1>1, <1>6 DEF OwnersKnown, RequestShape, FreshConvs
<1>14. TurnsClean'
  BY <1>1, <1>6 DEF TurnsClean, RequestShape, InFlight, FreshConvs
<1>15. OutputUnspent'
  BY <1>2 DEF OutputUnspent
<1> QED BY <1>1, <1>7, <1>8, <1>9, <1>10, <1>11, <1>12, <1>13, <1>14, <1>15

\* seed, eviction and expiry.
LEMMA ObjectKeeps ==
    ASSUME SessionInv,
           \/ \E x \in FreshConvs, a \in Accounts, pending \in BOOLEAN : Seed(x, a, pending)
           \/ Evict \/ ExpireIfIdle
    PROVE  SessionInv'
<1> USE SessionConstants DEF SessionInv
<1>1. /\ row \in Row /\ convs \in [Convs -> Conversation] /\ NoRow \in Row
      /\ NoRow.lease = NoRequest /\ NoRow.leaseLeft = 0 /\ ~NoRow.consumed /\ ~NoRow.committed
      /\ NoRow.kind = "none" /\ NoRow.conv = NoConv
  BY DEF TypeOK, NoRow, Row
<1>2. CASE Evict \/ ExpireIfIdle
  <2>1. row' = NoRow /\ row.leaseLeft = 0 /\ reqs' = reqs /\ Know(convs)
    BY <1>2 DEF Evict, ExpireIfIdle
  <2> QED BY <1>1, <2>1, ReplaceKeeps
<1>3. ASSUME NEW x \in FreshConvs, NEW a \in Accounts, NEW pending \in BOOLEAN, Seed(x, a, pending)
      PROVE  SessionInv'
  <2> DEFINE n == [NoRow EXCEPT !.conv = x, !.kind = "alias", !.account = a, !.locked = TRUE,
                                !.committed = TRUE, !.pending = pending, !.ttl = AliasTtl]
             cs == [convs EXCEPT ![x].owner = a, ![x].shared = TRUE]
  <2>1. row' = n /\ reqs' = reqs /\ Know(cs) /\ Current(row).kind = "none"
    BY <1>3 DEF Seed
  <2>2. /\ n \in Row /\ n.lease = NoRequest /\ n.leaseLeft = 0 /\ ~n.consumed /\ n.kind = "alias"
        /\ n.conv = x /\ n.locked /\ n.committed /\ n.account = a
    <3>1. x \in Convs \cup {NoConv} /\ a \in Accounts \cup {NoAccount} /\ AliasTtl \in Nat
      BY DEF FreshConvs
    <3> DEFINE m == [NoRow EXCEPT !.conv = x, !.kind = "alias", !.account = a, !.locked = TRUE]
    <3>2. m \in Row
      BY <1>1, <3>1, Zenon DEF Row
    <3>3. n \in Row
      <4>1. n = [m EXCEPT !.committed = TRUE, !.pending = pending, !.ttl = AliasTtl]
        OBVIOUS
      <4> HIDE DEF m
      <4>2. [m EXCEPT !.committed = TRUE, !.pending = pending, !.ttl = AliasTtl] \in Row
        BY <3>1, <3>2, Zenon DEF Row
      <4> QED BY <4>1, <4>2
    <3> QED BY <1>1, <3>3 DEF Row
  <2>3. /\ cs \in [Convs -> Conversation] /\ cs[x].owner = a /\ cs[x].taint = convs[x].taint
        /\ \A y \in Convs : y # x => cs[y] = convs[y]
    <3>1. x \in Convs /\ convs[x] \in Conversation
      BY <1>1 DEF FreshConvs
    <3>2. [convs[x] EXCEPT !.owner = a, !.shared = TRUE] \in Conversation
      BY <3>1 DEF Conversation
    <3>3. /\ cs = [convs EXCEPT ![x] = [convs[x] EXCEPT !.owner = a, !.shared = TRUE]]
          /\ convs[x].taint = [convs[x] EXCEPT !.owner = a, !.shared = TRUE].taint
          /\ a = [convs[x] EXCEPT !.owner = a, !.shared = TRUE].owner
      BY <1>1, <3>1 DEF Conversation
    <3> QED BY <1>1, <3>1, <3>2, <3>3
  <2>4. convs[x].taint = "clean"
    BY DEF Forgotten, Blank
  <2>5. row.leaseLeft = 0 \/ row.kind # "session"
    BY <1>1, <2>1 DEF Current, RowOutlives, Row
  <2> HIDE DEF n, cs
  <2>6. cs[x].taint \notin Dirty
    BY <2>3, <2>4 DEF Dirty
  <2> QED BY <2>1, <2>2, <2>3, <2>5, <2>6, ReplaceKeeps
<1> QED BY <1>2, <1>3

\* What another object does to a shared conversation leaves its owner and this
\* object's turns as they are.
LEMMA SiblingKeeps ==
    ASSUME SessionInv, NEW x \in Convs, SiblingTurn(x)
    PROVE  SessionInv'
<1> USE DEF SessionInv
<1>1. convs \in [Convs -> Conversation] /\ row' = row /\ reqs' = reqs
      /\ convs' = [convs EXCEPT ![x].sibling = TRUE]
  BY DEF TypeOK, SiblingTurn
<1>2. /\ convs' \in [Convs -> Conversation]
      /\ \A y \in Convs : convs'[y].owner = convs[y].owner /\ convs'[y].taint = convs[y].taint
      /\ \A y \in Convs : y # x => convs'[y] = convs[y]
  BY <1>1 DEF Conversation
<1>3. TypeOK' /\ RequestShape' /\ LeaseAgrees' /\ LeaseOutlives' /\ RowOutlives'
  BY <1>1, <1>2 DEF TypeOK, RequestShape, LeaseAgrees, LeaseOutlives, RowOutlives, InTurn
<1>4. SessionTurns' /\ ConvsApart' /\ OutputUnspent'
  BY <1>1 DEF SessionTurns, ConvsApart, OutputUnspent, InTurn
<1>5. Forgotten'
  <2>1. x \notin FreshConvs
    BY DEF Forgotten, Blank, SiblingTurn
  <2> QED BY <1>1, <1>2, <2>1 DEF Forgotten, FreshConvs
<1>6. OwnersKnown' /\ TurnsClean'
  <2>1. \A r \in Requests : InFlight(reqs[r]) => reqs[r].conv \in Convs
    BY DEF RequestShape
  <2>2. row.committed => row.conv \in Convs
    BY DEF TypeOK, Row
  <2> QED BY <1>1, <1>2, <2>1, <2>2 DEF OwnersKnown, TurnsClean, InFlight
<1> QED BY <1>3, <1>4, <1>5, <1>6

\* Time takes as much from a lease as from the request that holds it.
LEMMA TickKeeps == ASSUME SessionInv, Tick PROVE SessionInv'
<1> USE SessionConstants DEF SessionInv
<1>1. /\ row \in Row /\ reqs \in [Requests -> Request] /\ convs \in [Convs -> Conversation]
      /\ Know(convs)
  BY DEF TypeOK, Tick
<1>2. /\ row' \in Row /\ row'.kind = row.kind /\ row'.conv = row.conv /\ row'.account = row.account
      /\ row'.locked = row.locked /\ row'.committed = row.committed /\ row'.pending = row.pending
      /\ row'.lease = row.lease /\ row'.completed = row.completed /\ row'.consumed = row.consumed
      /\ row'.leaseLeft = Elapse(row.leaseLeft) /\ row'.ttl = Elapse(row.ttl)
  <2>1. /\ Elapse(row.leaseLeft) \in 0..LeaseTime /\ Elapse(row.ttl) \in Nat
    BY <1>1 DEF Row, Elapse
  <2>2. row' = [row EXCEPT !.leaseLeft = Elapse(row.leaseLeft), !.ttl = Elapse(row.ttl)]
    BY <1>1 DEF Tick, Row
  <2>3. row' \in Row
    BY <1>1, <2>1, <2>2, Zenon DEF Row
  <2> QED BY <1>1, <2>1, <2>2, <2>3 DEF Row
<1>3. ASSUME NEW s \in Requests
      PROVE  /\ reqs'[s] \in Request /\ reqs'[s].pc = reqs[s].pc
             /\ reqs'[s].conv = reqs[s].conv /\ reqs'[s].account = reqs[s].account
             /\ reqs'[s].started = reqs[s].started /\ reqs'[s].locked = reqs[s].locked
             /\ reqs'[s].pending = reqs[s].pending /\ reqs'[s].output = reqs[s].output /\ reqs'[s].alias = reqs[s].alias
             /\ reqs'[s].cancel = reqs[s].cancel /\ reqs'[s].left = Elapse(reqs[s].left)
  <2> DEFINE q == reqs[s]
  <2>1. reqs'[s] = [q EXCEPT !.left = Elapse(q.left)] /\ q \in Request
    BY <1>1 DEF Tick
  <2>2. Elapse(q.left) \in 0..RequestLimit
    BY <2>1 DEF Request, Elapse
  <2> HIDE DEF q
  <2>3. [q EXCEPT !.left = Elapse(q.left)] \in Request
    BY <2>1, <2>2, Zenon DEF Request
  <2> QED BY <2>1, <2>3 DEF Request, q
<1>4. reqs' \in [Requests -> Request]
  BY <1>3 DEF Tick
<1>5. /\ convs' \in [Convs -> Conversation] /\ Forgotten'
      /\ \A y \in Convs : y = row'.conv => convs'[y] = convs[y]
      /\ \A s \in Requests : reqs'[s].conv \in Convs => convs'[reqs'[s].conv] = convs[reqs'[s].conv]
  BY <1>1, KnowFacts
<1>6. \A s \in Requests : InTurn(s)' <=> InTurn(s)
  BY <1>3 DEF InTurn
<1>7. TypeOK'
  <2>1. row'.kind = "none" => row' = NoRow
    <3> SUFFICES ASSUME row = NoRow PROVE row' = NoRow
      BY <1>2 DEF TypeOK
    <3>1. row' = [NoRow EXCEPT !.leaseLeft = Elapse(NoRow.leaseLeft), !.ttl = Elapse(NoRow.ttl)]
      BY DEF Tick
    <3>2. NoRow.leaseLeft = 0 /\ NoRow.ttl = 0 /\ NoRow \in Row
      BY DEF NoRow, Row
    <3>3. Elapse(NoRow.leaseLeft) = NoRow.leaseLeft /\ Elapse(NoRow.ttl) = NoRow.ttl
      BY <3>2 DEF Elapse
    <3>4. row' = [NoRow EXCEPT !.leaseLeft = NoRow.leaseLeft, !.ttl = NoRow.ttl]
      BY <3>1, <3>3
    <3> HIDE DEF NoRow
    <3> QED BY <3>2, <3>4 DEF Row
  <2> QED BY <1>2, <1>4, <1>5, <2>1 DEF TypeOK
<1>8. RequestShape'
  BY <1>2, <1>3 DEF RequestShape, InFlight
<1>9. LeaseAgrees' /\ SessionTurns' /\ ConvsApart' /\ OutputUnspent'
  BY <1>2, <1>3, <1>6 DEF LeaseAgrees, SessionTurns, ConvsApart, OutputUnspent, InFlight
<1>10. LeaseOutlives'
  <2> SUFFICES ASSUME NEW s \in Requests, InTurn(s), row.lease = s
               PROVE  Elapse(row.leaseLeft) >= Elapse(reqs[s].left) + (LeaseTime - RequestLimit)
    BY <1>2, <1>3, <1>6 DEF LeaseOutlives
  <2>1. row.leaseLeft >= reqs[s].left + (LeaseTime - RequestLimit) /\ reqs[s].left > 0
    BY DEF LeaseOutlives, Tick, InTurn
  <2>2. row.leaseLeft \in Nat /\ reqs[s].left \in Nat
    BY <1>1 DEF Row, Request
  <2> QED BY <2>1, <2>2 DEF Elapse
<1>11. RowOutlives'
  BY <1>1, <1>2 DEF RowOutlives, Row, Elapse
<1>12. OwnersKnown'
  <2>1. row.committed => row.conv \in Convs
    BY <1>1 DEF TypeOK, Row
  <2> QED BY <1>2, <1>3, <1>5, <2>1 DEF OwnersKnown, RequestShape, InFlight
<1>13. TurnsClean'
  <2>1. row.committed => row.conv \in Convs
    BY <1>1 DEF TypeOK, Row
  <2> QED BY <1>2, <1>3, <1>5, <2>1 DEF TurnsClean, RequestShape, InFlight
<1> QED BY <1>5, <1>7, <1>8, <1>9, <1>10, <1>11, <1>12, <1>13

-----------------------------------------------------------------------------
(* The theorems.                                                           *)

\* Every step of every request and of the object keeps the invariant.
LEMMA SessionStep == SessionInv /\ [Next]_vars => SessionInv'
<1> SUFFICES ASSUME SessionInv, [Next]_vars PROVE SessionInv'
  OBVIOUS
<1>1. CASE UNCHANGED vars
  BY <1>1 DEF vars, SessionInv, TypeOK, RequestShape, LeaseAgrees, LeaseOutlives, RowOutlives,
     SessionTurns, InTurn, ConvsApart, Forgotten, FreshConvs, OwnersKnown, TurnsClean, OutputUnspent
<1>2. ASSUME NEW r \in Requests, RequestStep(r) PROVE SessionInv'
  BY <1>2, AcquireKeeps, AccountKeeps, TurnEndKeeps, TurnMovesKeep, CompleteKeeps, AbandonArrivesKeeps
     DEF RequestStep
<1>3. CASE ObjectStep
  BY <1>3, ObjectKeeps, SiblingKeeps, TickKeeps DEF ObjectStep
<1> QED BY <1>1, <1>2, <1>3 DEF Next

\* The invariant of a session and its requests holds always.
THEOREM SessionInvariant == Spec => []SessionInv
<1>1. Init => SessionInv
  BY SessionInit
<1>2. SessionInv /\ [Next]_vars => SessionInv'
  BY SessionStep
<1> QED BY <1>1, <1>2, PTL DEF Spec

\* A session's row, its requests and what is known of conversations keep their
\* types, and a committed row is locked to an account (chat-session.ts).
THEOREM SessionTypes == Spec => []TypeOK
<1>1. SessionInv => TypeOK
  BY DEF SessionInv
<1> QED BY <1>1, SessionInvariant, PTL

\* Turns of a session exclude each other: acquire, a late abandon(), eviction and
\* expiry never take the lease of a request in its turn.
THEOREM TurnsExclude == Spec => []SessionLeaseHeld
<1>1. SessionInv => SessionLeaseHeld
  BY DEF SessionInv, SessionTurns, SessionLeaseHeld
<1> QED BY <1>1, SessionInvariant, PTL

\* What a request knows of its session stays true while it holds the lease.
THEOREM LeaseStaysTrue == Spec => []LeaseAgrees
<1>1. SessionInv => LeaseAgrees
  BY DEF SessionInv
<1> QED BY <1>1, SessionInvariant, PTL

\* A turn that goes on with a conversation has settled its account and is not
\* over; only durableChatHub's submission is such a step.
LEMMA ContinuesBound ==
    ASSUME SessionInv, [Next]_vars, NEW r \in Requests, Continues(r)
    PROVE  reqs[r].pc = "bound" /\ reqs[r].started /\ InFlight(reqs[r])
BY DEF Continues, InFlight

\* Microsoft's coordinates never travel to another account.
THEOREM CoordinatesStay == Spec => CoordinatesBelong
<1>1. SessionInv /\ [Next]_vars =>
        [\A r \in Requests : Continues(r) => convs[reqs[r].conv].owner = reqs[r].account]_vars
  BY ContinuesBound DEF SessionInv, OwnersKnown
<1> QED BY <1>1, SessionInvariant, PTL DEF Spec, CoordinatesBelong

\* A turn of this object that ended in an account failure, was cancelled or was
\* abandoned after it had reached Microsoft is never continued from through it.
THEOREM ContinuationsClean == Spec => CleanContinuation
<1>1. SessionInv /\ [Next]_vars =>
        [\A r \in Requests : Continues(r) => convs[reqs[r].conv].taint \notin {"open", "fault"}]_vars
  BY ContinuesBound DEF SessionInv, TurnsClean, Dirty
<1> QED BY <1>1, SessionInvariant, PTL DEF Spec, CleanContinuation

\* Only completeFinal, of a request that holds the lease, commits a turn.
LEMMA OnlyCompleteCommits ==
    ASSUME SessionInv, Next, NEW r \in Requests,
           reqs[r].pc = "answered", reqs'[r].pc = "committed"
    PROVE  row.lease = r
<1>1. reqs \in [Requests -> Request]
  BY DEF SessionInv, TypeOK
<1>2. ASSUME ObjectStep PROVE FALSE
  <2>1. CASE UNCHANGED reqs
    BY <2>1
  <2>2. CASE Tick
    BY <1>1, <2>2 DEF Tick, Request
  <2> QED BY <1>2, <2>1, <2>2 DEF ObjectStep, Seed, SiblingTurn, Evict, ExpireIfIdle
<1>3. ASSUME NEW s \in Requests, NEW new, reqs' = [reqs EXCEPT ![s] = new], new.pc # "committed" \/ reqs[s].pc # "answered"
      PROVE  FALSE
  BY <1>1, <1>3
<1>4. ASSUME NEW s \in Requests, reqs' = [reqs EXCEPT ![s] = Over(reqs[s])] PROVE FALSE
  <2>1. Over(reqs[s]).pc = "idle"
    BY <1>1, OverFacts
  <2> QED BY <1>3, <1>4, <2>1
<1>5. ASSUME NEW s \in Requests, RequestStep(s), ~\E shares \in BOOLEAN : Complete(s, shares)
      PROVE  FALSE
  <2>1. CASE \E output \in {"none", "result", "pair"}, x \in FreshConvs : Acquire(s, output, x)
    BY <1>1, <2>1 DEF Acquire, Unused
  <2>2. CASE \/ Reject(s) \/ (\E a \in Accounts \cup {NoAccount} : NoAccountForLease(s, a))
             \/ FailUnsubmitted(s) \/ FailSubmitted(s) \/ LoseAnswer(s) \/ Terminal(s)
             \/ (\E fault \in BOOLEAN : AbandonUnseen(s, fault)) \/ CompleteStale(s)
             \/ Deliver(s) \/ Crash(s)
    BY <1>4, <2>2 DEF Reject, NoAccountForLease, FailUnsubmitted, FailSubmitted, LoseAnswer, Terminal,
       AbandonUnseen, CompleteStale, Deliver, Crash
  <2>3. CASE \/ \E a \in Accounts : BindAccount(s, a)
             \/ \E a \in Accounts, x \in FreshConvs : RebindAccount(s, a, x)
             \/ Submit(s) \/ Answer(s)
             \/ \E a \in Accounts, x \in FreshConvs : FailOver(s, a, x)
    <3>1. reqs[s].pc # "answered" /\ (s # r => reqs'[r] = reqs[r])
      BY <1>1, <2>3, ZenonT(60) DEF BindAccount, RebindAccount, Submit, Answer, FailOver
    <3> QED BY <3>1
  <2>4. CASE CancelStream(s) \/ AbandonArrives(s)
    BY <1>1, <2>4, ZenonT(60) DEF CancelStream, AbandonArrives, Request
  <2> QED BY <1>5, <2>1, <2>2, <2>3, <2>4 DEF RequestStep
<1>6. ASSUME NEW s \in Requests, NEW shares \in BOOLEAN, Complete(s, shares) PROVE row.lease = r
  BY <1>1, <1>6 DEF Complete
<1> QED BY <1>2, <1>5, <1>6 DEF Next

\* The output of a pending call, sent alone, is committed at most once, whatever
\* releases, abandons and retries come between (responsesContinuationOutputIssue).
THEOREM OutputConsumedOnce == Spec => ToolOutputOnce
<1>1. SessionInv /\ [Next]_vars =>
        [\A r \in Requests :
           /\ reqs[r].output = "result"
           /\ reqs[r].pc = "answered" /\ reqs'[r].pc = "committed"
           => ~row.consumed]_vars
  BY OnlyCompleteCommits DEF SessionInv, OutputUnspent, InFlight
<1> QED BY <1>1, SessionInvariant, PTL DEF Spec, ToolOutputOnce
=============================================================================
