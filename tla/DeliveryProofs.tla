--------------------------- MODULE DeliveryProofs ---------------------------
(***************************************************************************)
(* Proofs about Delivery: what the client of one request has been shown,   *)
(* and how the request is counted, for any accounts, any number of         *)
(* requests, heart-beats and resets, and any limit on the recorded rows.   *)
(*                                                                         *)
(* The inductive invariant Sound is about the request s in hand, with all  *)
(* that is still in its pipes.  It has one part per question: Typed,       *)
(* Phase (which pipes exist when), Durable, Discarded, Told (what the      *)
(* tracker knows) and Legal (the order of the events).  A step of the      *)
(* model changes a few fields of the record: a lemma says for each such    *)
(* change that the new record is sound, in terms of Keeps (which fields    *)
(* may differ) and the new values; the lemmas on the actions then show     *)
(* that each action makes one of these changes.                            *)
(*                                                                         *)
(* The statistics have an invariant of their own, StatsInv.                *)
(***************************************************************************)
EXTENDS Delivery, FiniteSetTheorems, TLAPS

-----------------------------------------------------------------------------
(* Sequences of events.                                                    *)

Has(w, e) == \E i \in DOMAIN w : w[i] = e

\* A final event or an error.
Ended(w) == Has(w, "final") \/ Has(w, "error")

AllDone(w) == \A i \in DOMAIN w : w[i] = "done"

\* Nothing but [DONE] after a final event or an error.
EndsOnce(w) ==
    \A i, j \in DOMAIN w : i < j /\ w[i] \in {"final", "error"} => w[j] = "done"

Text == {"body", "note"}

\* What stands directly before an event of the adapter's.
Follows(before, e) ==
    /\ e \in Text => before = "start"
    /\ e = "final" => before = "stop"

\* The adapter's events, pairwise, and over the border of two pipes.
Nested(w) == \A j \in DOMAIN w : j - 1 \in DOMAIN w => Follows(w[j - 1], w[j])
Joint(v, w) == v # <<>> /\ w # <<>> => Follows(v[Len(v)], w[1])

\* The source's text and final event come as a pair.
Paired(w) ==
    \A i \in DOMAIN w :
        /\ w[i] \in Text => i + 1 \in DOMAIN w /\ w[i + 1] = "final"
        /\ w[i] = "final" /\ i - 1 \in DOMAIN w => w[i - 1] \in Text

\* The events S have been added to w.
Adds(w, S, u) == \A e : Has(u, e) <=> Has(w, e) \/ e \in S

NextIs(w, e) == w # <<>> /\ Head(w) = e

-----------------------------------------------------------------------------
(* The inductive invariant, in parts, of a request s.                      *)

Flags ==
    {"stream", "seeded", "live", "srcEnd", "closed", "aborted", "outEnd", "block", "sawTerminal",
     "cancelled", "eof", "cut", "gone", "signal", "refused"}

Typed(s) ==
    /\ DOMAIN s = DOMAIN Fresh
    /\ \A f \in Flags : s[f] \in BOOLEAN
    /\ s.src \in Seq(Events) /\ s.out \in Seq(Events) /\ s.got \in Seq(Events)
    /\ s.layer \in {"none", "adapter", "bridge"}
    /\ s.cleanup \in {"no", "due", "done"}
    /\ s.terminal \in Terminals \cup {"none"}
    /\ s.account \in Accounts \cup {NoAccount}

\* Which pipes there are, by where the handler is.
Phase(s) ==
    /\ s.pc \in {"idle", "preflight"} =>
          /\ s.src = <<>> /\ s.out = <<>> /\ s.got = <<>>
          /\ ~s.srcEnd /\ ~s.live /\ ~s.closed /\ ~s.eof /\ ~s.block /\ ~s.sawTerminal
          /\ s.layer # "adapter" /\ s.cleanup = "no" /\ (s.answer = "stream" \/ s.cut => s.layer = "bridge")
          /\ s.terminal \in {"none", "cancel"} /\ (s.outEnd => s.cancelled)
          /\ s.turn = (IF s.pc = "idle" THEN "none" ELSE "held")
    /\ ~s.stream => /\ s.src = <<>> /\ s.out = <<>> /\ s.got = <<>>
                    /\ s.layer = "none" /\ ~s.live /\ ~s.srcEnd /\ s.answer # "stream"
    /\ s.stream /\ s.pc \notin {"idle", "preflight", "ended"} => s.live
    /\ s.live => s.stream /\ (s.srcEnd <=> s.closed) /\ (s.pc = "ended" => s.closed)
    /\ s.layer = "none" => s.out = <<>>
    /\ s.layer = "bridge" => s.kind = "responses"

\* What is on its way to the client is durable.
Durable(s) ==
    /\ Has(s.src, "body") \/ Has(s.out, "body") \/ Has(s.got, "body") =>
          s.turn \in {"committed", "abandoned"} /\ (s.kind = "responses" => s.seeded)
    /\ s.pc \in {"committed", "seed", "seeded", "deliver"} => s.turn \in {"committed", "abandoned"}
    /\ s.pc = "seeded" => s.seeded
    /\ s.pc = "deliver" => s.kind # "responses"

\* What was not seen is discarded, or will be.
Discarded(s) ==
    /\ s.cleanup = "done" /\ ~s.refused => s.turn \notin {"held", "committed"}
    /\ s.closed /\ s.live /\ s.pc # "ended" => s.cleanup # "no"
    /\ s.live /\ s.pc = "ended" /\ ~s.refused /\ s.cleanup = "no" /\ s.layer = "none" =>
          \/ s.turn \notin {"held", "committed"}
          \/ Has(s.src, "final") \/ Has(s.got, "final")
    /\ s.layer = "none" /\ s.live /\ (s.eof \/ s.cut) => s.src = <<>> /\ s.srcEnd

\* A handler failed behind the bridge.
FailedBehind(s) ==
    /\ s.layer = "bridge" /\ ~s.live /\ s.pc = "ended" /\ s.turn = "released"
    /\ s.src = <<>> /\ ~s.srcEnd

\* What the tracker has been told, or will be told.
Told(s) ==
    /\ s.signal \/ s.aborted \/ s.cut \/ s.cancelled => s.gone
    /\ s.cancelled /\ s.layer # "adapter" => s.cut
    /\ s.stream /\ s.terminal = "cancel" => s.gone
    /\ s.live /\ s.pc # "ended" => ~Ended(s.src) /\ ~Ended(s.out) /\ ~Ended(s.got)
    /\ s.live /\ s.pc # "ended" /\ s.closed => /\ s.terminal # "none"
                                               /\ s.layer # "none" => s.cancelled
    /\ s.cancelled => s.terminal # "none" /\ s.outEnd
    /\ s.stream /\ s.srcEnd /\ s.terminal = "none" =>
          Has(s.src, "final") \/ Has(s.out, "final") \/ Has(s.got, "final")
    /\ s.outEnd /\ s.terminal = "none" =>
          \/ FailedBehind(s) /\ (Has(s.out, "error") \/ Has(s.got, "error"))
          \/ s.layer = "bridge" /\ s.srcEnd /\ s.src = <<>>
          \/ s.layer = "adapter" /\ s.sawTerminal
    /\ s.terminal = "none" => /\ ~Has(s.src, "error")
                              /\ Has(s.out, "error") \/ Has(s.got, "error") => FailedBehind(s)
    /\ s.layer = "adapter" => (s.sawTerminal <=> Has(s.out, "final") \/ Has(s.got, "final"))
    /\ s.stream /\ s.terminal = "complete" =>
          /\ s.eof
          /\ \/ FailedBehind(s) /\ Has(s.got, "error")
             \/ Has(s.got, "final") /\ ~Has(s.got, "error")
    /\ s.stream /\ s.terminal = "error" =>
          /\ s.pc = "ended"
          /\ ~Has(s.src, "final") /\ ~Has(s.out, "final") /\ ~Has(s.got, "final")

\* Every pipe holds a legal stream, and they fit together.
Legal(s) ==
    /\ EndsOnce(s.got) /\ EndsOnce(s.out) /\ EndsOnce(s.src) /\ Paired(s.src)
    /\ Ended(s.got) => AllDone(s.out)
    /\ Ended(s.got) \/ Ended(s.out) =>
          AllDone(s.src) \/ (s.layer = "adapter" /\ s.outEnd)
    /\ s.layer = "adapter" =>
          /\ Nested(s.got) /\ Nested(s.out) /\ Joint(s.got, s.out)
          /\ NextIs(s.src, "final") => s.block
          /\ s.block /\ ~s.cancelled => NextIs(s.src, "final")
          /\ Has(s.out, "error") \/ Has(s.got, "error") => s.outEnd

Sound(s) == Typed(s) /\ Phase(s) /\ Durable(s) /\ Discarded(s) /\ Told(s) /\ Legal(s)

-----------------------------------------------------------------------------
(* How the predicates on sequences meet the operations on them.            *)

\* The empty pipe.
LEMMA EmptyPipe ==
    /\ <<>> \in Seq(Events) /\ \A e : ~Has(<<>>, e) /\ ~NextIs(<<>>, e)
    /\ ~Ended(<<>>) /\ AllDone(<<>>) /\ EndsOnce(<<>>) /\ Nested(<<>>) /\ Paired(<<>>)
    /\ \A w : Joint(w, <<>>) /\ Joint(<<>>, w)
BY DEF Has, NextIs, Ended, AllDone, EndsOnce, Nested, Paired, Joint

\* One event at the end.
LEMMA Appended ==
    ASSUME NEW w \in Seq(Events), NEW x \in Events
    PROVE  /\ Append(w, x) \in Seq(Events) /\ Append(w, x) # <<>> /\ w \o <<x>> = Append(w, x)
           /\ \A e : Has(Append(w, x), e) <=> Has(w, e) \/ e = x
           /\ Ended(Append(w, x)) <=> Ended(w) \/ x \in {"final", "error"}
           /\ AllDone(Append(w, x)) <=> AllDone(w) /\ x = "done"
           /\ EndsOnce(w) /\ (Ended(w) => x = "done") => EndsOnce(Append(w, x))
<1> DEFINE a == Append(w, x)
           n == Len(w)
<1>1. /\ a \in Seq(Events) /\ n \in Nat /\ Len(a) = n + 1 /\ a[n + 1] = x
      /\ \A i \in 1..n : a[i] = w[i]
      /\ DOMAIN a = 1..(n + 1) /\ DOMAIN w = 1..n /\ a # <<>>
  OBVIOUS
<1>2. w \o <<x>> = Append(w, x)
  OBVIOUS
<1> HIDE DEF a, n
<1>3. ASSUME NEW e PROVE Has(a, e) <=> Has(w, e) \/ e = x
  <2>1. ASSUME Has(a, e) PROVE Has(w, e) \/ e = x
    <3>1. PICK i \in 1..(n + 1) : a[i] = e
      BY <1>1, <2>1 DEF Has
    <3>2. i = n + 1 \/ i \in 1..n
      BY <1>1
    <3> QED BY <1>1, <3>1, <3>2 DEF Has
  <2>2. Has(w, e) => Has(a, e)
    <3>1. \A i \in 1..n : i \in 1..(n + 1)
      BY <1>1
    <3> QED BY <1>1, <3>1 DEF Has
  <2>3. e = x => Has(a, e)
    <3>1. n + 1 \in 1..(n + 1)
      BY <1>1
    <3> QED BY <1>1, <3>1 DEF Has
  <2> QED BY <2>1, <2>2, <2>3
<1>4. Ended(a) <=> Ended(w) \/ x \in {"final", "error"}
  BY <1>3 DEF Ended
<1>5. AllDone(a) <=> AllDone(w) /\ x = "done"
  <2>1. n + 1 \in 1..(n + 1) /\ \A i \in 1..n : i \in 1..(n + 1)
    BY <1>1
  <2>2. \A i \in 1..(n + 1) : i = n + 1 \/ i \in 1..n
    BY <1>1
  <2> QED BY <1>1, <2>1, <2>2 DEF AllDone
<1>6. ASSUME EndsOnce(w), Ended(w) => x = "done" PROVE EndsOnce(a)
  <2> SUFFICES ASSUME NEW i \in 1..(n + 1), NEW j \in 1..(n + 1), i < j, a[i] \in {"final", "error"}
               PROVE  a[j] = "done"
    BY <1>1 DEF EndsOnce
  <2>1. i \in 1..n /\ (j = n + 1 \/ j \in 1..n)
    BY <1>1
  <2>2. w[i] \in {"final", "error"}
    BY <1>1, <2>1
  <2>3. CASE j = n + 1
    <3>1. Ended(w)
      BY <1>1, <2>1, <2>2 DEF Ended, Has
    <3> QED BY <1>1, <1>6, <2>3, <3>1
  <2>4. CASE j \in 1..n
    BY <1>1, <1>6, <2>1, <2>2, <2>4 DEF EndsOnce
  <2> QED BY <2>1, <2>3, <2>4
<1> QED BY <1>1, <1>2, <1>3, <1>4, <1>5, <1>6 DEF a

\* The same for the order of the adapter's events, and of the source's.
LEMMA AppendedOrder ==
    ASSUME NEW w \in Seq(Events), NEW x \in Events
    PROVE  /\ Nested(w) /\ (w # <<>> => Follows(w[Len(w)], x)) => Nested(Append(w, x))
           /\ Append(w, x)[Len(Append(w, x))] = x
           /\ Paired(w) /\ x \notin Text \cup {"final"} => Paired(Append(w, x))
           /\ \A v \in Seq(Events) :
                Joint(v, w) /\ (w = <<>> /\ v # <<>> => Follows(v[Len(v)], x)) => Joint(v, Append(w, x))
           /\ \A e : NextIs(Append(w, x), e) <=> (IF w = <<>> THEN e = x ELSE NextIs(w, e))
<1> DEFINE a == Append(w, x)
           n == Len(w)
<1>1. /\ a \in Seq(Events) /\ n \in Nat /\ Len(a) = n + 1 /\ a[n + 1] = x
      /\ \A i \in 1..n : a[i] = w[i]
      /\ DOMAIN a = 1..(n + 1) /\ DOMAIN w = 1..n /\ a # <<>>
      /\ w = <<>> <=> n = 0
  OBVIOUS
<1> HIDE DEF a, n
<1>2. ASSUME Nested(w), w # <<>> => Follows(w[n], x) PROVE Nested(a)
  <2> SUFFICES ASSUME NEW j \in 1..(n + 1), j - 1 \in 1..(n + 1) PROVE Follows(a[j - 1], a[j])
    BY <1>1 DEF Nested
  <2>1. j - 1 \in 1..n /\ (j = n + 1 \/ j \in 1..n)
    BY <1>1
  <2>2. CASE j = n + 1
    <3>1. w # <<>> /\ j - 1 = n /\ a[n] = w[n]
      BY <1>1, <2>1, <2>2
    <3> QED BY <1>1, <1>2, <2>2, <3>1
  <2>3. CASE j \in 1..n
    BY <1>1, <1>2, <2>1, <2>3 DEF Nested
  <2> QED BY <2>1, <2>2, <2>3
<1>3. ASSUME Paired(w), x \notin Text \cup {"final"} PROVE Paired(a)
  <2> SUFFICES ASSUME NEW i \in 1..(n + 1)
               PROVE  /\ a[i] \in Text => i + 1 \in 1..(n + 1) /\ a[i + 1] = "final"
                      /\ a[i] = "final" /\ i - 1 \in 1..(n + 1) => a[i - 1] \in Text
    BY <1>1 DEF Paired
  <2>1. CASE i = n + 1
    BY <1>1, <1>3, <2>1
  <2>2. CASE i \in 1..n
    <3>1. w[i] = a[i]
      BY <1>1, <2>2
    <3>2. /\ w[i] \in Text => i + 1 \in 1..n /\ w[i + 1] = "final"
          /\ w[i] = "final" /\ i - 1 \in 1..n => w[i - 1] \in Text
      BY <1>1, <1>3, <2>2 DEF Paired
    <3>3. (i + 1 \in 1..n => i + 1 \in 1..(n + 1)) /\ (i - 1 \in 1..(n + 1) => i - 1 \in 1..n)
      BY <1>1, <2>2
    <3> QED BY <1>1, <3>1, <3>2, <3>3
  <2>3. i = n + 1 \/ i \in 1..n
    BY <1>1
  <2> QED BY <2>1, <2>2, <2>3
<1>4. ASSUME NEW v \in Seq(Events), Joint(v, w), w = <<>> /\ v # <<>> => Follows(v[Len(v)], x)
      PROVE  Joint(v, a)
  <2>1. CASE w = <<>>
    <3>1. a[1] = x
      BY <1>1, <2>1
    <3> QED BY <1>4, <2>1, <3>1 DEF Joint
  <2>2. CASE w # <<>>
    <3>1. a[1] = w[1]
      <4>1. 1 \in 1..n
        BY <1>1, <2>2
      <4> QED BY <1>1, <4>1
    <3> QED BY <1>4, <2>2, <3>1 DEF Joint
  <2> QED BY <2>1, <2>2
<1>5. ASSUME NEW e PROVE NextIs(a, e) <=> (IF w = <<>> THEN e = x ELSE NextIs(w, e))
  <2>1. Head(a) = a[1] /\ Head(w) = w[1]
    BY <1>1
  <2>2. CASE w = <<>>
    BY <1>1, <2>1, <2>2 DEF NextIs
  <2>3. CASE w # <<>>
    <3>1. 1 \in 1..n
      BY <1>1, <2>3
    <3>2. a[1] = w[1]
      BY <1>1, <3>1
    <3> QED BY <1>1, <2>1, <2>3, <3>2 DEF NextIs
  <2> QED BY <2>2, <2>3
<1> QED BY <1>1, <1>2, <1>3, <1>4, <1>5 DEF a, n

\* The first event is taken.
LEMMA Taken ==
    ASSUME NEW w \in Seq(Events), w # <<>>
    PROVE  /\ Tail(w) \in Seq(Events) /\ Head(w) \in Events
           /\ \A e : Has(w, e) <=> Has(Tail(w), e) \/ e = Head(w)
           /\ Ended(w) <=> Ended(Tail(w)) \/ Head(w) \in {"final", "error"}
           /\ AllDone(w) <=> AllDone(Tail(w)) /\ Head(w) = "done"
           /\ EndsOnce(w) => /\ EndsOnce(Tail(w))
                             /\ Head(w) \in {"final", "error"} => AllDone(Tail(w))
           /\ Nested(w) => Nested(Tail(w)) /\ (Tail(w) # <<>> => Follows(Head(w), Tail(w)[1]))
           /\ Paired(w) => /\ Paired(Tail(w))
                           /\ Head(w) \in Text <=> NextIs(Tail(w), "final")
<1> DEFINE t == Tail(w)
           h == Head(w)
           n == Len(w)
<1>1. /\ t \in Seq(Events) /\ h \in Events /\ n \in Nat \ {0} /\ Len(t) = n - 1 /\ w[1] = h
      /\ \A i \in 1..(n - 1) : t[i] = w[i + 1]
      /\ DOMAIN t = 1..(n - 1) /\ DOMAIN w = 1..n
  OBVIOUS
<1>0. (t = <<>> <=> n = 1) /\ (t # <<>> => Head(t) = t[1])
  BY <1>1
<1> HIDE DEF t, h, n
<1>2. ASSUME NEW i \in 1..n PROVE i = 1 \/ (i - 1 \in 1..(n - 1) /\ t[i - 1] = w[i])
  <2>1. i = 1 \/ (i - 1 \in 1..(n - 1) /\ (i - 1) + 1 = i)
    BY <1>1
  <2> QED BY <1>1, <2>1
<1>3. ASSUME NEW i \in 1..(n - 1) PROVE i + 1 \in 1..n /\ w[i + 1] = t[i]
  BY <1>1
<1>4. 1 \in 1..n
  BY <1>1
<1>5. \A e : Has(w, e) <=> Has(t, e) \/ e = h
  BY <1>1, <1>2, <1>3, <1>4 DEF Has
<1>6. Ended(w) <=> Ended(t) \/ h \in {"final", "error"}
  BY <1>5 DEF Ended
<1>7. AllDone(w) <=> AllDone(t) /\ h = "done"
  BY <1>1, <1>2, <1>3, <1>4 DEF AllDone
<1>8. ASSUME EndsOnce(w) PROVE EndsOnce(t) /\ (h \in {"final", "error"} => AllDone(t))
  <2>1. EndsOnce(t)
    <3> SUFFICES ASSUME NEW i \in 1..(n - 1), NEW j \in 1..(n - 1), i < j, t[i] \in {"final", "error"}
                 PROVE  t[j] = "done"
      BY <1>1 DEF EndsOnce
    <3>1. i + 1 < j + 1 /\ i + 1 \in 1..n /\ j + 1 \in 1..n /\ w[i + 1] = t[i] /\ w[j + 1] = t[j]
      BY <1>1, <1>3
    <3> QED BY <1>1, <1>8, <3>1 DEF EndsOnce
  <2>2. ASSUME h \in {"final", "error"}, NEW j \in 1..(n - 1) PROVE t[j] = "done"
    <3>1. 1 < j + 1 /\ j + 1 \in 1..n /\ w[j + 1] = t[j]
      BY <1>1, <1>3
    <3> QED BY <1>1, <1>4, <1>8, <2>2, <3>1 DEF EndsOnce
  <2> QED BY <1>1, <2>1, <2>2 DEF AllDone
<1>9. ASSUME Nested(w) PROVE Nested(t) /\ (t # <<>> => Follows(h, t[1]))
  <2>1. Nested(t)
    <3> SUFFICES ASSUME NEW j \in 1..(n - 1), j - 1 \in 1..(n - 1) PROVE Follows(t[j - 1], t[j])
      BY <1>1 DEF Nested
    <3>1. j + 1 \in 1..n /\ w[j + 1] = t[j] /\ (j - 1) + 1 = (j + 1) - 1 /\ j \in 1..n
      BY <1>1, <1>3
    <3>2. w[(j - 1) + 1] = t[j - 1] /\ (j + 1) - 1 \in 1..n
      BY <1>3, <3>1
    <3>3. Follows(w[(j + 1) - 1], w[j + 1])
      BY <1>1, <1>9, <3>1, <3>2 DEF Nested
    <3> QED BY <3>1, <3>2, <3>3
  <2>2. ASSUME t # <<>> PROVE Follows(h, t[1])
    <3>1. 1 \in 1..(n - 1) /\ 2 \in 1..n /\ 2 - 1 = 1 /\ 1 + 1 = 2
      BY <1>0, <1>1, <2>2
    <3>2. t[1] = w[2]
      BY <1>1, <3>1
    <3>3. Follows(w[2 - 1], w[2])
      BY <1>1, <1>4, <1>9, <3>1 DEF Nested
    <3> QED BY <1>1, <3>1, <3>2, <3>3
  <2> QED BY <2>1, <2>2
<1>10. ASSUME Paired(w) PROVE Paired(t) /\ (h \in Text <=> NextIs(t, "final"))
  <2>1. Paired(t)
    <3> SUFFICES ASSUME NEW i \in 1..(n - 1)
                 PROVE  /\ t[i] \in Text => i + 1 \in 1..(n - 1) /\ t[i + 1] = "final"
                        /\ t[i] = "final" /\ i - 1 \in 1..(n - 1) => t[i - 1] \in Text
      BY <1>1 DEF Paired
    <3>1. i + 1 \in 1..n /\ w[i + 1] = t[i] /\ i \in Int
      BY <1>1, <1>3
    <3>2. /\ w[i + 1] \in Text => (i + 1) + 1 \in 1..n /\ w[(i + 1) + 1] = "final"
          /\ w[i + 1] = "final" /\ (i + 1) - 1 \in 1..n => w[(i + 1) - 1] \in Text
      BY <1>1, <1>10, <3>1 DEF Paired
    <3>3. ASSUME t[i] \in Text PROVE i + 1 \in 1..(n - 1) /\ t[i + 1] = "final"
      <4>1. (i + 1) + 1 \in 1..n /\ w[(i + 1) + 1] = "final"
        BY <3>1, <3>2, <3>3
      <4>2. i + 1 \in 1..(n - 1)
        BY <1>1, <3>1, <4>1
      <4> QED BY <1>3, <4>1, <4>2
    <3>4. ASSUME t[i] = "final", i - 1 \in 1..(n - 1) PROVE t[i - 1] \in Text
      <4>1. (i + 1) - 1 = i /\ i \in 1..n /\ (i - 1) + 1 = i
        BY <1>1, <3>1
      <4>2. w[i] \in Text
        BY <3>1, <3>2, <3>4, <4>1
      <4>3. w[(i - 1) + 1] = t[i - 1]
        BY <1>3, <3>4
      <4> QED BY <4>1, <4>2, <4>3
    <3> QED BY <3>3, <3>4
  <2>2. ASSUME h \in Text PROVE NextIs(t, "final")
    <3>1. 1 + 1 \in 1..n /\ w[1 + 1] = "final"
      BY <1>1, <1>4, <1>10, <2>2 DEF Paired
    <3>2. 1 \in 1..(n - 1) /\ n # 1
      BY <1>1, <3>1
    <3>3. t[1] = w[1 + 1]
      BY <1>1, <3>2
    <3> QED BY <1>0, <3>1, <3>2, <3>3 DEF NextIs
  <2>3. ASSUME NextIs(t, "final") PROVE h \in Text
    <3>1. t # <<>> /\ t[1] = "final" /\ n # 1
      BY <1>0, <2>3 DEF NextIs
    <3>2. 1 \in 1..(n - 1) /\ 2 \in 1..n /\ 2 - 1 = 1 /\ 1 + 1 = 2
      BY <1>1, <3>1
    <3>3. w[2] = "final"
      BY <1>3, <3>1, <3>2
    <3>4. w[2 - 1] \in Text
      BY <1>1, <1>4, <1>10, <3>2, <3>3 DEF Paired
    <3> QED BY <1>1, <3>2, <3>4
  <2> QED BY <2>1, <2>2, <2>3
<1> QED BY <1>1, <1>5, <1>6, <1>7, <1>8, <1>9, <1>10 DEF t, h

\* A text and its final event at the end of the source.
LEMMA PairAppended ==
    ASSUME NEW w \in Seq(Events), NEW x \in Text, Paired(w)
    PROVE  Paired(Append(Append(w, x), "final"))
<1> DEFINE n == Len(w)
           b == Append(Append(w, x), "final")
<1>0. x \in Events /\ "final" \in Events /\ x # "final" /\ "final" \notin Text
  BY DEF Events, Text
<1>1. /\ n \in Nat /\ b \in Seq(Events) /\ Len(b) = n + 2 /\ b[n + 1] = x /\ b[n + 2] = "final"
      /\ \A i \in 1..n : b[i] = w[i]
      /\ DOMAIN b = 1..(n + 2) /\ DOMAIN w = 1..n
  BY <1>0
<1> HIDE DEF n, b
<1> SUFFICES ASSUME NEW i \in 1..(n + 2)
             PROVE  /\ b[i] \in Text => i + 1 \in 1..(n + 2) /\ b[i + 1] = "final"
                    /\ b[i] = "final" /\ i - 1 \in 1..(n + 2) => b[i - 1] \in Text
  BY <1>1 DEF Paired, b
<1>2. CASE i \in 1..n
  <2>1. b[i] = w[i]
    BY <1>1, <1>2
  <2>2. /\ w[i] \in Text => i + 1 \in 1..n /\ w[i + 1] = "final"
        /\ w[i] = "final" /\ i - 1 \in 1..n => w[i - 1] \in Text
    BY <1>1, <1>2 DEF Paired
  <2>3. (i + 1 \in 1..n => i + 1 \in 1..(n + 2)) /\ (i - 1 \in 1..(n + 2) => i - 1 \in 1..n)
    BY <1>1, <1>2
  <2> QED BY <1>1, <2>1, <2>2, <2>3
<1>3. CASE i = n + 1
  <2>1. i + 1 = n + 2 /\ i + 1 \in 1..(n + 2) /\ b[i] = x
    BY <1>1, <1>3
  <2> QED BY <1>0, <1>1, <2>1
<1>4. CASE i = n + 2
  <2>1. i - 1 = n + 1 /\ b[i] = "final"
    BY <1>1, <1>4
  <2> QED BY <1>0, <1>1, <2>1
<1> QED BY <1>1, <1>2, <1>3, <1>4

-----------------------------------------------------------------------------
(* How the steps change a request.                                         *)

\* t has the fields of s, but for those in F.
Keeps(s, t, F) ==
    /\ DOMAIN t = DOMAIN Fresh
    /\ \A f \in DOMAIN Fresh \ F : t[f] = s[f]

\* Field by field.
LEMMA KeptFields ==
    ASSUME NEW s, NEW t, NEW F, Keeps(s, t, F)
    PROVE  /\ DOMAIN t = DOMAIN Fresh
           /\ "kind" \notin F => t.kind = s.kind
           /\ "stream" \notin F => t.stream = s.stream
           /\ "pc" \notin F => t.pc = s.pc
           /\ "turn" \notin F => t.turn = s.turn
           /\ "seeded" \notin F => t.seeded = s.seeded
           /\ "live" \notin F => t.live = s.live
           /\ "src" \notin F => t.src = s.src
           /\ "srcEnd" \notin F => t.srcEnd = s.srcEnd
           /\ "closed" \notin F => t.closed = s.closed
           /\ "aborted" \notin F => t.aborted = s.aborted
           /\ "cleanup" \notin F => t.cleanup = s.cleanup
           /\ "beats" \notin F => t.beats = s.beats
           /\ "layer" \notin F => t.layer = s.layer
           /\ "out" \notin F => t.out = s.out
           /\ "outEnd" \notin F => t.outEnd = s.outEnd
           /\ "block" \notin F => t.block = s.block
           /\ "sawTerminal" \notin F => t.sawTerminal = s.sawTerminal
           /\ "cancelled" \notin F => t.cancelled = s.cancelled
           /\ "answer" \notin F => t.answer = s.answer
           /\ "got" \notin F => t.got = s.got
           /\ "eof" \notin F => t.eof = s.eof
           /\ "cut" \notin F => t.cut = s.cut
           /\ "gone" \notin F => t.gone = s.gone
           /\ "signal" \notin F => t.signal = s.signal
           /\ "refused" \notin F => t.refused = s.refused
           /\ "account" \notin F => t.account = s.account
           /\ "terminal" \notin F => t.terminal = s.terminal
BY DEF Keeps, Fresh

\* The types of the fields that change are all that is left to show.
LEMMA KeptTypes ==
    ASSUME NEW s, NEW t, NEW F, Typed(s), Keeps(s, t, F),
           \A f \in F : f \in Flags => t[f] \in BOOLEAN,
           "src" \in F => t.src \in Seq(Events),
           "out" \in F => t.out \in Seq(Events),
           "got" \in F => t.got \in Seq(Events),
           "layer" \in F => t.layer \in {"none", "adapter", "bridge"},
           "cleanup" \in F => t.cleanup \in {"no", "due", "done"},
           "terminal" \in F => t.terminal \in Terminals \cup {"none"},
           "account" \in F => t.account \in Accounts \cup {NoAccount}
    PROVE  Typed(t)
<1>1. DOMAIN t = DOMAIN Fresh /\ Flags \subseteq DOMAIN Fresh
  BY DEF Keeps, Flags, Fresh
<1>2. \A f \in Flags : t[f] \in BOOLEAN
  BY <1>1 DEF Keeps, Typed
<1>3. /\ t.src \in Seq(Events) /\ t.out \in Seq(Events) /\ t.got \in Seq(Events)
      /\ t.layer \in {"none", "adapter", "bridge"}
      /\ t.cleanup \in {"no", "due", "done"}
  BY KeptFields DEF Typed
<1>4. t.terminal \in Terminals \cup {"none"} /\ t.account \in Accounts \cup {NoAccount}
  BY KeptFields DEF Typed
<1> QED BY <1>1, <1>2, <1>3, <1>4 DEF Typed
\* The handler goes to its catch block.
LEMMA CaughtSound ==
    ASSUME NEW s, NEW t, Sound(s), Keeps(s, t, {"pc"}),
           t.pc = "caught",
           s.pc \notin {"idle", "preflight", "ended"}
    PROVE  Sound(t)
<1>1. Typed(s) /\ Phase(s) /\ Durable(s) /\ Discarded(s) /\ Told(s) /\ Legal(s)
  BY DEF Sound
<1>2. Typed(t)
  <2>1. \A f \in {"pc"} : f \in Flags => t[f] \in BOOLEAN
    BY <1>1 DEF Typed, Flags
  <2> QED BY <1>1, <2>1, KeptTypes
<1>3. Phase(t)
  BY <1>1, KeptFields DEF Phase
<1>4. Durable(t)
  BY <1>1, KeptFields DEF Durable
<1>5. Discarded(t)
  BY <1>1, KeptFields DEF Discarded
<1>6. Told(t)
  BY <1>1, KeptFields DEF Told, FailedBehind
<1>7. Legal(t)
  BY <1>1, KeptFields DEF Legal
<1> QED BY <1>2, <1>3, <1>4, <1>5, <1>6, <1>7 DEF Sound

\* The turn has an answer, or ends in a local text.
LEMMA TurnSound ==
    ASSUME NEW s, NEW t, Sound(s), s.pc = "turn",
           Keeps(s, t, {"pc"}),
           t.pc \in {"release", "commit"}
    PROVE  Sound(t)
<1>1. Typed(s) /\ Phase(s) /\ Durable(s) /\ Discarded(s) /\ Told(s) /\ Legal(s)
  BY DEF Sound
<1>2. Typed(t)
  <2>1. \A f \in {"pc"} : f \in Flags => t[f] \in BOOLEAN
    BY <1>1 DEF Typed, Flags
  <2> QED BY <1>1, <2>1, KeptTypes
<1>3. Phase(t)
  BY <1>1, KeptFields DEF Phase
<1>4. Durable(t)
  BY <1>1, KeptFields DEF Durable
<1>5. Discarded(t)
  BY <1>1, KeptFields DEF Discarded
<1>6. Told(t)
  BY <1>1, KeptFields DEF Told, FailedBehind
<1>7. Legal(t)
  BY <1>1, KeptFields DEF Legal
<1> QED BY <1>2, <1>3, <1>4, <1>5, <1>6, <1>7 DEF Sound

\* completeFinal has taken effect.
LEMMA CommitSound ==
    ASSUME NEW s, NEW t, Sound(s), s.pc = "commit",
           s.turn = "held",
           Keeps(s, t, {"pc", "turn"}),
           t.pc = "committed",
           t.turn = "committed"
    PROVE  Sound(t)
<1>1. Typed(s) /\ Phase(s) /\ Durable(s) /\ Discarded(s) /\ Told(s) /\ Legal(s)
  BY DEF Sound
<1>2. Typed(t)
  <2>1. \A f \in {"pc", "turn"} : f \in Flags => t[f] \in BOOLEAN
    BY <1>1 DEF Typed, Flags
  <2> QED BY <1>1, <2>1, KeptTypes
<1>3. Phase(t)
  BY <1>1, KeptFields DEF Phase
<1>4. Durable(t)
  BY <1>1, KeptFields DEF Durable
<1>5. Discarded(t)
  BY <1>1, KeptFields DEF Discarded
<1>6. Told(t)
  BY <1>1, KeptFields DEF Told, FailedBehind
<1>7. Legal(t)
  BY <1>1, KeptFields DEF Legal
<1> QED BY <1>2, <1>3, <1>4, <1>5, <1>6, <1>7 DEF Sound

\* Its answer has arrived.
LEMMA CommittedSound ==
    ASSUME NEW s, NEW t, Sound(s), s.pc = "committed",
           Keeps(s, t, {"pc"}),
           t.pc = IF s.kind = "responses" THEN "seed" ELSE "deliver"
    PROVE  Sound(t)
<1>1. Typed(s) /\ Phase(s) /\ Durable(s) /\ Discarded(s) /\ Told(s) /\ Legal(s)
  BY DEF Sound
<1>2. Typed(t)
  <2>1. \A f \in {"pc"} : f \in Flags => t[f] \in BOOLEAN
    BY <1>1 DEF Typed, Flags
  <2> QED BY <1>1, <2>1, KeptTypes
<1>3. Phase(t)
  BY <1>1, KeptFields DEF Phase
<1>4. Durable(t)
  BY <1>1, KeptFields DEF Durable
<1>5. Discarded(t)
  BY <1>1, KeptFields DEF Discarded
<1>6. Told(t)
  BY <1>1, KeptFields DEF Told, FailedBehind
<1>7. Legal(t)
  BY <1>1, KeptFields DEF Legal
<1> QED BY <1>2, <1>3, <1>4, <1>5, <1>6, <1>7 DEF Sound

\* The alias has been seeded.
LEMMA SeedSound ==
    ASSUME NEW s, NEW t, Sound(s), s.pc = "seed",
           Keeps(s, t, {"pc", "seeded"}),
           t.pc = "seeded",
           t.seeded = TRUE
    PROVE  Sound(t)
<1>1. Typed(s) /\ Phase(s) /\ Durable(s) /\ Discarded(s) /\ Told(s) /\ Legal(s)
  BY DEF Sound
<1>2. Typed(t)
  <2>1. \A f \in {"pc", "seeded"} : f \in Flags => t[f] \in BOOLEAN
    BY <1>1 DEF Typed, Flags
  <2> QED BY <1>1, <2>1, KeptTypes
<1>3. Phase(t)
  BY <1>1, KeptFields DEF Phase
<1>4. Durable(t)
  BY <1>1, KeptFields DEF Durable
<1>5. Discarded(t)
  BY <1>1, KeptFields DEF Discarded
<1>6. Told(t)
  BY <1>1, KeptFields DEF Told, FailedBehind
<1>7. Legal(t)
  BY <1>1, KeptFields DEF Legal
<1> QED BY <1>2, <1>3, <1>4, <1>5, <1>6, <1>7 DEF Sound

\* The lease has been released.
LEMMA ReleaseSound ==
    ASSUME NEW s, NEW t, Sound(s), s.pc = "release",
           Keeps(s, t, {"pc", "turn"}),
           t.pc = "released",
           t.turn = IF s.turn = "held" THEN "released" ELSE s.turn
    PROVE  Sound(t)
<1>1. Typed(s) /\ Phase(s) /\ Durable(s) /\ Discarded(s) /\ Told(s) /\ Legal(s)
  BY DEF Sound
<1>2. Typed(t)
  <2>1. \A f \in {"pc", "turn"} : f \in Flags => t[f] \in BOOLEAN
    BY <1>1 DEF Typed, Flags
  <2> QED BY <1>1, <2>1, KeptTypes
<1>3. Phase(t)
  BY <1>1, KeptFields DEF Phase
<1>4. Durable(t)
  BY <1>1, KeptFields DEF Durable
<1>5. Discarded(t)
  BY <1>1, KeptFields DEF Discarded
<1>6. Told(t)
  BY <1>1, KeptFields DEF Told, FailedBehind
<1>7. Legal(t)
  BY <1>1, KeptFields DEF Legal
<1> QED BY <1>2, <1>3, <1>4, <1>5, <1>6, <1>7 DEF Sound

\* The account is another.
LEMMA AccountSound ==
    ASSUME NEW s, NEW t, Sound(s), Keeps(s, t, {"account"}),
           t.account \in Accounts \cup {NoAccount}
    PROVE  Sound(t)
<1>1. Typed(s) /\ Phase(s) /\ Durable(s) /\ Discarded(s) /\ Told(s) /\ Legal(s)
  BY DEF Sound
<1>2. Typed(t)
  <2>1. \A f \in {"account"} : f \in Flags => t[f] \in BOOLEAN
    BY <1>1 DEF Typed, Flags
  <2> QED BY <1>1, <2>1, KeptTypes
<1>3. Phase(t)
  BY <1>1, KeptFields DEF Phase
<1>4. Durable(t)
  BY <1>1, KeptFields DEF Durable
<1>5. Discarded(t)
  BY <1>1, KeptFields DEF Discarded
<1>6. Told(t)
  BY <1>1, KeptFields DEF Told, FailedBehind
<1>7. Legal(t)
  BY <1>1, KeptFields DEF Legal
<1> QED BY <1>2, <1>3, <1>4, <1>5, <1>6, <1>7 DEF Sound

\* A heart-beat of a closed source is only counted.
LEMMA BeatsSound ==
    ASSUME NEW s, NEW t, Sound(s), Keeps(s, t, {"beats"})
    PROVE  Sound(t)
<1>1. Typed(s) /\ Phase(s) /\ Durable(s) /\ Discarded(s) /\ Told(s) /\ Legal(s)
  BY DEF Sound
<1>2. Typed(t)
  <2>1. \A f \in {"beats"} : f \in Flags => t[f] \in BOOLEAN
    BY <1>1 DEF Typed, Flags
  <2> QED BY <1>1, <2>1, KeptTypes
<1>3. Phase(t)
  BY <1>1, KeptFields DEF Phase
<1>4. Durable(t)
  BY <1>1, KeptFields DEF Durable
<1>5. Discarded(t)
  BY <1>1, KeptFields DEF Discarded
<1>6. Told(t)
  BY <1>1, KeptFields DEF Told, FailedBehind
<1>7. Legal(t)
  BY <1>1, KeptFields DEF Legal
<1> QED BY <1>2, <1>3, <1>4, <1>5, <1>6, <1>7 DEF Sound

\* The abandon of a cancellation, carried out or failed.
LEMMA CleanupSound ==
    ASSUME NEW s, NEW t, Sound(s), s.cleanup = "due",
           Keeps(s, t, {"turn", "cleanup", "refused"}),
           t.cleanup = "done",
           \/ t.refused = TRUE /\ t.turn = s.turn
           \/ t.refused = s.refused /\ t.turn = IF s.turn \in {"held", "committed"} THEN "abandoned" ELSE s.turn
    PROVE  Sound(t)
<1>1. Typed(s) /\ Phase(s) /\ Durable(s) /\ Discarded(s) /\ Told(s) /\ Legal(s)
  BY DEF Sound
<1>2. Typed(t)
  <2>1. \A f \in {"turn", "cleanup", "refused"} : f \in Flags => t[f] \in BOOLEAN
    BY <1>1 DEF Typed, Flags
  <2> QED BY <1>1, <2>1, KeptTypes
<1>3. Phase(t)
  BY <1>1, KeptFields DEF Phase
<1>4. Durable(t)
  BY <1>1, KeptFields DEF Durable
<1>5. Discarded(t)
  BY <1>1, KeptFields DEF Discarded
<1>6. Told(t)
  BY <1>1, KeptFields DEF Told, FailedBehind
<1>7. Legal(t)
  BY <1>1, KeptFields DEF Legal
<1> QED BY <1>2, <1>3, <1>4, <1>5, <1>6, <1>7 DEF Sound

\* The client gets the bridge.
LEMMA GraceSound ==
    ASSUME NEW s, NEW t, Sound(s), s.pc = "preflight",
           s.stream,
           s.kind = "responses",
           s.layer = "none",
           Keeps(s, t, {"layer", "answer"}),
           t.layer = "bridge"
    PROVE  Sound(t)
<1>1. Typed(s) /\ Phase(s) /\ Durable(s) /\ Discarded(s) /\ Told(s) /\ Legal(s)
  BY DEF Sound
<1>2. Typed(t)
  <2>1. \A f \in {"layer", "answer"} : f \in Flags => t[f] \in BOOLEAN
    BY <1>1 DEF Typed, Flags
  <2> QED BY <1>1, <2>1, KeptTypes
<1>3. Phase(t)
  BY <1>1, KeptFields, EmptyPipe DEF Phase
<1>4. Durable(t)
  BY <1>1, KeptFields, EmptyPipe DEF Durable
<1>5. Discarded(t)
  BY <1>1, KeptFields, EmptyPipe DEF Discarded
<1>6. Told(t)
  BY <1>1, KeptFields, EmptyPipe DEF Told, FailedBehind, Phase
<1>7. Legal(t)
  BY <1>1, KeptFields, EmptyPipe DEF Legal
<1> QED BY <1>2, <1>3, <1>4, <1>5, <1>6, <1>7 DEF Sound

\* The client leaves.
LEMMA GoneSound ==
    ASSUME NEW s, NEW t, Sound(s), Keeps(s, t, {"gone"}),
           t.gone = TRUE
    PROVE  Sound(t)
<1>1. Typed(s) /\ Phase(s) /\ Durable(s) /\ Discarded(s) /\ Told(s) /\ Legal(s)
  BY DEF Sound
<1>2. Typed(t)
  <2>1. \A f \in {"gone"} : f \in Flags => t[f] \in BOOLEAN
    BY <1>1 DEF Typed, Flags
  <2> QED BY <1>1, <2>1, KeptTypes
<1>3. Phase(t)
  BY <1>1, KeptFields DEF Phase
<1>4. Durable(t)
  BY <1>1, KeptFields DEF Durable
<1>5. Discarded(t)
  BY <1>1, KeptFields DEF Discarded
<1>6. Told(t)
  BY <1>1, KeptFields DEF Told, FailedBehind
<1>7. Legal(t)
  BY <1>1, KeptFields DEF Legal
<1> QED BY <1>2, <1>3, <1>4, <1>5, <1>6, <1>7 DEF Sound

\* request.signal has fired.
LEMMA SignalSound ==
    ASSUME NEW s, NEW t, Sound(s), s.gone,
           Keeps(s, t, {"signal"}),
           t.signal = TRUE
    PROVE  Sound(t)
<1>1. Typed(s) /\ Phase(s) /\ Durable(s) /\ Discarded(s) /\ Told(s) /\ Legal(s)
  BY DEF Sound
<1>2. Typed(t)
  <2>1. \A f \in {"signal"} : f \in Flags => t[f] \in BOOLEAN
    BY <1>1 DEF Typed, Flags
  <2> QED BY <1>1, <2>1, KeptTypes
<1>3. Phase(t)
  BY <1>1, KeptFields DEF Phase
<1>4. Durable(t)
  BY <1>1, KeptFields DEF Durable
<1>5. Discarded(t)
  BY <1>1, KeptFields DEF Discarded
<1>6. Told(t)
  BY <1>1, KeptFields DEF Told, FailedBehind
<1>7. Legal(t)
  BY <1>1, KeptFields DEF Legal
<1> QED BY <1>2, <1>3, <1>4, <1>5, <1>6, <1>7 DEF Sound

\* abortAndRelease, of a client that left.
LEMMA AbortSound ==
    ASSUME NEW s, NEW t, Sound(s), s.gone,
           s.live,
           Keeps(s, t, {"aborted", "cleanup"}),
           t.aborted = TRUE,
           t.cleanup = IF s.cleanup = "no" THEN "due" ELSE s.cleanup
    PROVE  Sound(t)
<1>1. Typed(s) /\ Phase(s) /\ Durable(s) /\ Discarded(s) /\ Told(s) /\ Legal(s)
  BY DEF Sound
<1>2. Typed(t)
  <2>1. \A f \in {"aborted", "cleanup"} : f \in Flags => t[f] \in BOOLEAN
    BY <1>1 DEF Typed, Flags
  <2>2. t.cleanup \in {"no", "due", "done"}
    BY <1>1 DEF Typed
  <2>3. Keeps(s, t, {"aborted", "cleanup"}) /\ Typed(s)
    BY <1>1
  <2> QED BY ONLY <2>1, <2>2, <2>3, KeptTypes
<1>3. Phase(t)
  BY <1>1, KeptFields DEF Phase
<1>4. Durable(t)
  BY <1>1, KeptFields DEF Durable
<1>5. Discarded(t)
  BY <1>1, KeptFields DEF Discarded
<1>6. Told(t)
  BY <1>1, KeptFields DEF Told, FailedBehind
<1>7. Legal(t)
  BY <1>1, KeptFields DEF Legal
<1> QED BY <1>2, <1>3, <1>4, <1>5, <1>6, <1>7 DEF Sound

\* The tracker is told that the client left.
LEMMA FinishCancelSound ==
    ASSUME NEW s, NEW t, Sound(s), s.gone,
           Keeps(s, t, {"terminal"}),
           t.terminal = IF s.terminal = "none" THEN "cancel" ELSE s.terminal
    PROVE  Sound(t)
<1>1. Typed(s) /\ Phase(s) /\ Durable(s) /\ Discarded(s) /\ Told(s) /\ Legal(s)
  BY DEF Sound
<1>2. Typed(t)
  <2>1. \A f \in {"terminal"} : f \in Flags => t[f] \in BOOLEAN
    BY <1>1 DEF Typed, Flags
  <2> QED BY <1>1, <2>1, KeptTypes DEF Typed, Terminals
<1>3. Phase(t)
  BY <1>1, KeptFields DEF Phase
<1>4. Durable(t)
  BY <1>1, KeptFields DEF Durable
<1>5. Discarded(t)
  BY <1>1, KeptFields DEF Discarded
<1>6. Told(t)
  BY <1>1, KeptFields DEF Told, FailedBehind
<1>7. Legal(t)
  BY <1>1, KeptFields DEF Legal
<1> QED BY <1>2, <1>3, <1>4, <1>5, <1>6, <1>7 DEF Sound

\* The adapter or the bridge is cancelled.
LEMMA LayerCancelSound ==
    ASSUME NEW s, NEW t, Sound(s), s.gone,
           s.terminal # "none",
           s.layer # "none",
           s.layer = "bridge" => s.cut,
           Keeps(s, t, {"cancelled", "outEnd"}),
           t.cancelled = TRUE,
           t.outEnd = TRUE
    PROVE  Sound(t)
<1>1. Typed(s) /\ Phase(s) /\ Durable(s) /\ Discarded(s) /\ Told(s) /\ Legal(s)
  BY DEF Sound
<1>2. Typed(t)
  <2>1. \A f \in {"cancelled", "outEnd"} : f \in Flags => t[f] \in BOOLEAN
    BY <1>1 DEF Typed, Flags
  <2> QED BY <1>1, <2>1, KeptTypes
<1>3. Phase(t)
  BY <1>1, KeptFields DEF Phase
<1>4. Durable(t)
  BY <1>1, KeptFields DEF Durable
<1>5. Discarded(t)
  BY <1>1, KeptFields DEF Discarded
<1>6. Told(t)
  BY <1>1, KeptFields, SMTT(30) DEF Told, FailedBehind, Typed
<1>7. Legal(t)
  BY <1>1, KeptFields DEF Legal
<1> QED BY <1>2, <1>3, <1>4, <1>5, <1>6, <1>7 DEF Sound

\* The source is cancelled, behind a layer that has been.
LEMMA CancelSourceSound ==
    ASSUME NEW s, NEW t, Sound(s), s.gone,
           s.terminal # "none",
           s.live,
           s.layer # "none" => s.cancelled,
           Keeps(s, t, {"closed", "src", "srcEnd", "aborted", "cleanup"}),
           t.closed = TRUE,
           t.src = <<>>,
           t.srcEnd = TRUE,
           t.aborted = TRUE,
           t.cleanup = IF s.cleanup = "no" THEN "due" ELSE s.cleanup
    PROVE  Sound(t)
<1>1. Typed(s) /\ Phase(s) /\ Durable(s) /\ Discarded(s) /\ Told(s) /\ Legal(s)
  BY DEF Sound
<1>2. Typed(t)
  <2>1. \A f \in {"closed", "src", "srcEnd", "aborted", "cleanup"} : f \in Flags => t[f] \in BOOLEAN
    BY <1>1 DEF Typed, Flags
  <2>2. t.cleanup \in {"no", "due", "done"} /\ t.src \in Seq(Events)
    BY <1>1, EmptyPipe DEF Typed
  <2>3. Keeps(s, t, {"closed", "src", "srcEnd", "aborted", "cleanup"}) /\ Typed(s)
    BY <1>1
  <2> QED BY ONLY <2>1, <2>2, <2>3, KeptTypes
<1>3. Phase(t)
  BY <1>1, KeptFields, EmptyPipe DEF Phase
<1>4. Durable(t)
  BY <1>1, KeptFields, EmptyPipe DEF Durable
<1>5. Discarded(t)
  BY <1>1, KeptFields, EmptyPipe DEF Discarded
<1>6. Told(t)
  BY <1>1, KeptFields, EmptyPipe DEF Told, FailedBehind
<1>7. Legal(t)
  BY <1>1, KeptFields, EmptyPipe DEF Legal
<1> QED BY <1>2, <1>3, <1>4, <1>5, <1>6, <1>7 DEF Sound

\* The monitored stream is cancelled.
LEMMA CutSound ==
    ASSUME NEW s, NEW t, Sound(s), s.gone,
           s.answer = "stream",
           s.layer = "none" /\ s.live => s.src = <<>> /\ s.srcEnd,
           Keeps(s, t, {"cut"}),
           t.cut = TRUE
    PROVE  Sound(t)
<1>1. Typed(s) /\ Phase(s) /\ Durable(s) /\ Discarded(s) /\ Told(s) /\ Legal(s)
  BY DEF Sound
<1>2. Typed(t)
  <2>1. \A f \in {"cut"} : f \in Flags => t[f] \in BOOLEAN
    BY <1>1 DEF Typed, Flags
  <2> QED BY <1>1, <2>1, KeptTypes
<1>3. Phase(t)
  BY <1>1, KeptFields DEF Phase
<1>4. Durable(t)
  BY <1>1, KeptFields DEF Durable
<1>5. Discarded(t)
  BY <1>1, KeptFields DEF Discarded
<1>6. Told(t)
  BY <1>1, KeptFields DEF Told, FailedBehind
<1>7. Legal(t)
  BY <1>1, KeptFields DEF Legal
<1> QED BY <1>2, <1>3, <1>4, <1>5, <1>6, <1>7 DEF Sound
\* A head is an element.
LEMMA HeadHas ==
    ASSUME NEW w \in Seq(Events), NEW e, NextIs(w, e)
    PROVE  Has(w, e)
<1>1. w # <<>> /\ Head(w) = e
  BY DEF NextIs
<1> QED BY <1>1, Taken


\* The last events of a source that has not ended: an answer,
LEMMA AnswerWritten ==
    ASSUME NEW w \in Seq(Events), NEW x \in Text, ~Ended(w), EndsOnce(w), Paired(w),
           NEW u, u = Append(Append(Append(w, x), "final"), "done")
    PROVE  /\ u \in Seq(Events)
           /\ Adds(w, {x, "final", "done"}, u)
           /\ EndsOnce(u) /\ Paired(u) /\ ~NextIs(u, "final")
<1> DEFINE a == Append(w, x)
           b == Append(a, "final")
           c == Append(b, "done")
<1>1. /\ x \in Events /\ "final" \in Events /\ "done" \in Events /\ "done" \notin Text \cup {"final"}
      /\ x \notin {"final", "error"} /\ x # "final"
  BY DEF Events, Text
<1>2. /\ a \in Seq(Events) /\ a # <<>> /\ w \o <<x>> = a /\ \A e : Has(a, e) <=> Has(w, e) \/ e = x
      /\ ~Ended(a) /\ EndsOnce(a)
  BY <1>1, Appended
<1>3. ~NextIs(a, "final")
  <2>1. ~Has(a, "final")
    BY <1>2 DEF Ended
  <2> QED BY <1>2, <2>1, HeadHas
<1>4. Paired(b)
  BY PairAppended
<1>5. w \o <<x, "final">> = b /\ u = c
  BY <1>1
<1> HIDE DEF a
<1>6. /\ b \in Seq(Events) /\ b # <<>> /\ \A e : Has(b, e) <=> Has(a, e) \/ e = "final"
      /\ EndsOnce(b)
  BY <1>1, <1>2, Appended
<1>7. ~NextIs(b, "final")
  BY <1>1, <1>2, <1>3, AppendedOrder
<1> HIDE DEF b
<1>8. /\ c \in Seq(Events) /\ b \o <<"done">> = c /\ \A e : Has(c, e) <=> Has(b, e) \/ e = "done"
      /\ EndsOnce(c)
  BY <1>1, <1>6, Appended
<1>9. Paired(c) /\ ~NextIs(c, "final")
  BY <1>1, <1>4, <1>6, <1>7, AppendedOrder
<1> HIDE DEF c
<1>10. Adds(w, {x, "final", "done"}, c)
  BY <1>2, <1>6, <1>8 DEF Adds
<1> QED BY <1>5, <1>8, <1>9, <1>10

\* or an error.
LEMMA ErrorWritten ==
    ASSUME NEW w \in Seq(Events), ~Ended(w), EndsOnce(w), Paired(w),
           NEW u, u = Append(Append(w, "error"), "done")
    PROVE  /\ u \in Seq(Events)
           /\ Adds(w, {"error", "done"}, u)
           /\ EndsOnce(u) /\ Paired(u) /\ ~NextIs(u, "final")
<1> DEFINE a == Append(w, "error")
           c == Append(a, "done")
<1>1. /\ "error" \in Events /\ "done" \in Events /\ "done" \notin Text \cup {"final"}
      /\ "error" \notin Text \cup {"final"}
  BY DEF Events, Text
<1>2. /\ a \in Seq(Events) /\ a # <<>> /\ w \o <<"error">> = a
      /\ \A e : Has(a, e) <=> Has(w, e) \/ e = "error"
      /\ EndsOnce(a)
  BY <1>1, Appended
<1>3. ~NextIs(a, "final") /\ Paired(a)
  <2>1. ~Has(a, "final") /\ Paired(a)
    BY <1>1, <1>2, AppendedOrder DEF Ended
  <2> QED BY <1>2, <2>1, HeadHas
<1>0. u = c
  OBVIOUS
<1> HIDE DEF a
<1>4. /\ c \in Seq(Events) /\ a \o <<"done">> = c /\ \A e : Has(c, e) <=> Has(a, e) \/ e = "done"
      /\ EndsOnce(c)
  BY <1>1, <1>2, Appended
<1>5. Paired(c) /\ ~NextIs(c, "final")
  BY <1>1, <1>2, <1>3, AppendedOrder
<1> HIDE DEF c
<1>6. Adds(w, {"error", "done"}, c)
  BY <1>2, <1>4 DEF Adds
<1> QED BY <1>0, <1>2, <1>4, <1>5, <1>6


\* A heart-beat of an open source.
LEMMA BeatSound ==
    ASSUME NEW s, NEW t, Sound(s), s.live,
           s.pc # "ended",
           ~s.closed,
           Keeps(s, t, {"src", "beats"}),
           t.src = Append(s.src, "beat")
    PROVE  Sound(t)
<1>1. Typed(s) /\ Phase(s) /\ Durable(s) /\ Discarded(s) /\ Told(s) /\ Legal(s)
  BY DEF Sound
<1>2. /\ s.src \in Seq(Events) /\ "beat" \in Events /\ "beat" \notin Text \cup {"final"}
      /\ s.pc \notin {"idle", "preflight"}
  BY <1>1 DEF Typed, Phase, Events, Text
<1>3. ~s.srcEnd /\ ~Ended(s.got) /\ ~Ended(s.out)
  BY <1>1 DEF Phase, Told
<1>4. /\ t.src \in Seq(Events) /\ \A e : Has(t.src, e) <=> Has(s.src, e) \/ e = "beat"
      /\ ~Ended(s.src) /\ ~Ended(t.src) /\ EndsOnce(t.src) /\ Paired(t.src)
  BY <1>1, <1>2, Appended, AppendedOrder DEF Told, Legal
<1>5. \A e : NextIs(t.src, e) <=> (IF s.src = <<>> THEN e = "beat" ELSE NextIs(s.src, e))
  BY <1>2, AppendedOrder
<1>6. \A e : ~NextIs(<<>>, e)
  BY EmptyPipe
<1>7. Typed(t)
  <2>1. \A f \in {"src", "beats"} : f \in Flags => t[f] \in BOOLEAN
    BY <1>1 DEF Typed, Flags
  <2>2. t.src \in Seq(Events)
    BY <1>1, <1>2, <1>3, <1>4, <1>5, <1>6, <1>2 DEF Typed
  <2>3. Keeps(s, t, {"src", "beats"}) /\ Typed(s)
    BY <1>1
  <2> QED BY ONLY <2>1, <2>2, <2>3, KeptTypes
<1>8. Phase(t)
  BY <1>1, <1>2, <1>3, <1>4, <1>5, <1>6, KeptFields DEF Phase
<1>9. Durable(t)
  BY <1>1, <1>2, <1>3, <1>4, <1>5, <1>6, KeptFields DEF Durable
<1>10. Discarded(t)
  BY <1>1, <1>2, <1>3, <1>4, <1>5, <1>6, KeptFields DEF Discarded
<1>11. Told(t)
  BY <1>1, <1>2, <1>3, <1>4, <1>5, <1>6, KeptFields DEF Told, FailedBehind
<1>12. Legal(t)
  BY <1>1, <1>2, <1>3, <1>4, <1>5, <1>6, KeptFields DEF Legal
<1> QED BY <1>7, <1>8, <1>9, <1>10, <1>11, <1>12 DEF Sound
\* A response without a pump ends the request.
LEMMA BufferedSound ==
    ASSUME NEW s, NEW t, Sound(s), ~s.stream,
           Keeps(s, t, {"answer", "pc", "terminal", "turn", "refused"}),
           t.pc = "ended",
           t.answer = "plain",
           t.terminal \in Terminals,
           t.turn \in {s.turn, "released", "abandoned"},
           t.refused \in BOOLEAN,
           s.refused => t.refused
    PROVE  Sound(t)
<1>1. Typed(s) /\ Phase(s) /\ Durable(s) /\ Discarded(s) /\ Told(s) /\ Legal(s)
  BY DEF Sound
<1>2. Typed(t)
  <2>1. \A f \in {"answer", "pc", "terminal", "turn", "refused"} : f \in Flags => t[f] \in BOOLEAN
    BY <1>1 DEF Typed, Flags
  <2>2. t.terminal \in Terminals \cup {"none"}
    BY <1>1 DEF Typed
  <2>3. Keeps(s, t, {"answer", "pc", "terminal", "turn", "refused"}) /\ Typed(s)
    BY <1>1
  <2> QED BY ONLY <2>1, <2>2, <2>3, KeptTypes
<1>3. Phase(t)
  BY <1>1, KeptFields, EmptyPipe DEF Phase
<1>4. Durable(t)
  BY <1>1, KeptFields, EmptyPipe DEF Durable, Phase
<1>5. Discarded(t)
  BY <1>1, KeptFields, EmptyPipe DEF Discarded, Phase
<1>6. Told(t)
  BY <1>1, KeptFields, EmptyPipe DEF Told, FailedBehind, Phase, Terminals
<1>7. Legal(t)
  BY <1>1, KeptFields, EmptyPipe DEF Legal, Phase
<1> QED BY <1>2, <1>3, <1>4, <1>5, <1>6, <1>7 DEF Sound

\* A request is refused before its turn.
LEMMA RefusedSound ==
    ASSUME NEW s, NEW t, Sound(s), s.pc = "preflight",
           s.layer = "none",
           Keeps(s, t, {"answer", "pc", "terminal", "turn"}),
           t.pc = "ended",
           t.answer = "plain",
           t.turn = "released",
           t.terminal = IF s.terminal = "none" THEN "error" ELSE s.terminal
    PROVE  Sound(t)
<1>1. Typed(s) /\ Phase(s) /\ Durable(s) /\ Discarded(s) /\ Told(s) /\ Legal(s)
  BY DEF Sound
<1>2. Typed(t)
  <2>1. \A f \in {"answer", "pc", "terminal", "turn"} : f \in Flags => t[f] \in BOOLEAN
    BY <1>1 DEF Typed, Flags
  <2>2. t.terminal \in Terminals \cup {"none"}
    BY <1>1 DEF Typed, Terminals
  <2>3. Keeps(s, t, {"answer", "pc", "terminal", "turn"}) /\ Typed(s)
    BY <1>1
  <2> QED BY ONLY <2>1, <2>2, <2>3, KeptTypes
<1>3. Phase(t)
  BY <1>1, KeptFields, EmptyPipe DEF Phase
<1>4. Durable(t)
  BY <1>1, KeptFields, EmptyPipe DEF Durable, Phase
<1>5. Discarded(t)
  BY <1>1, KeptFields, EmptyPipe DEF Discarded, Phase
<1>6. Told(t)
  BY <1>1, KeptFields, EmptyPipe DEF Told, FailedBehind, Phase, Terminals
<1>7. Legal(t)
  BY <1>1, KeptFields, EmptyPipe DEF Legal, Phase
<1> QED BY <1>2, <1>3, <1>4, <1>5, <1>6, <1>7 DEF Sound

\* A turn that is under way, or was the last, is abandoned.
LEMMA AbandonedSound ==
    ASSUME NEW s, NEW t, Sound(s), s.pc = "caught",
           Keeps(s, t, {"turn"}),
           t.turn = IF s.turn \in {"held", "committed"} THEN "abandoned" ELSE s.turn
    PROVE  Sound(t)
<1>1. Typed(s) /\ Phase(s) /\ Durable(s) /\ Discarded(s) /\ Told(s) /\ Legal(s)
  BY DEF Sound
<1>2. Typed(t)
  <2>1. \A f \in {"turn"} : f \in Flags => t[f] \in BOOLEAN
    BY <1>1 DEF Typed, Flags
  <2> QED BY <1>1, <2>1, KeptTypes
<1>3. Phase(t)
  BY <1>1, KeptFields DEF Phase
<1>4. Durable(t)
  BY <1>1, KeptFields DEF Durable
<1>5. Discarded(t)
  BY <1>1, KeptFields DEF Discarded
<1>6. Told(t)
  BY <1>1, KeptFields DEF Told, FailedBehind
<1>7. Legal(t)
  BY <1>1, KeptFields DEF Legal
<1> QED BY <1>2, <1>3, <1>4, <1>5, <1>6, <1>7 DEF Sound

\* Or the abandon fails.
LEMMA UnabandonedSound ==
    ASSUME NEW s, NEW t, Sound(s), Keeps(s, t, {"refused"}),
           t.refused = TRUE
    PROVE  Sound(t)
<1>1. Typed(s) /\ Phase(s) /\ Durable(s) /\ Discarded(s) /\ Told(s) /\ Legal(s)
  BY DEF Sound
<1>2. Typed(t)
  <2>1. \A f \in {"refused"} : f \in Flags => t[f] \in BOOLEAN
    BY <1>1 DEF Typed, Flags
  <2> QED BY <1>1, <2>1, KeptTypes
<1>3. Phase(t)
  BY <1>1, KeptFields DEF Phase
<1>4. Durable(t)
  BY <1>1, KeptFields DEF Durable
<1>5. Discarded(t)
  BY <1>1, KeptFields DEF Discarded
<1>6. Told(t)
  BY <1>1, KeptFields DEF Told, FailedBehind
<1>7. Legal(t)
  BY <1>1, KeptFields DEF Legal
<1> QED BY <1>2, <1>3, <1>4, <1>5, <1>6, <1>7 DEF Sound

\* The pump of a cancelled source ends.
LEMMA ClosedSound ==
    ASSUME NEW s, NEW t, Sound(s), s.live,
           s.closed,
           s.pc # "ended",
           Keeps(s, t, {"pc"}),
           t.pc = "ended"
    PROVE  Sound(t)
<1>1. Typed(s) /\ Phase(s) /\ Durable(s) /\ Discarded(s) /\ Told(s) /\ Legal(s)
  BY DEF Sound
<1>2. s.pc \notin {"idle", "preflight"} /\ s.terminal # "none" /\ s.cleanup # "no" /\ s.srcEnd
  BY <1>1 DEF Phase, Told, Discarded
<1>3. Typed(t)
  <2>1. \A f \in {"pc"} : f \in Flags => t[f] \in BOOLEAN
    BY <1>1 DEF Typed, Flags
  <2> QED BY <1>1, <1>2, <2>1, KeptTypes
<1>4. Phase(t)
  BY <1>1, <1>2, KeptFields DEF Phase
<1>5. Durable(t)
  BY <1>1, <1>2, KeptFields DEF Durable
<1>6. Discarded(t)
  BY <1>1, <1>2, KeptFields DEF Discarded
<1>7. Told(t)
  BY <1>1, <1>2, KeptFields DEF Told, FailedBehind
<1>8. Legal(t)
  BY <1>1, <1>2, KeptFields DEF Legal
<1> QED BY <1>3, <1>4, <1>5, <1>6, <1>7, <1>8 DEF Sound

\* The pump writes the answer and closes its stream.
LEMMA DeliverSound ==
    ASSUME NEW s, NEW t, Sound(s), s.live,
           ~s.closed,
           s.pc # "ended",
           NEW x \in Text,
           Keeps(s, t, {"src", "srcEnd", "closed", "pc"}),
           t.pc = "ended",
           t.srcEnd = TRUE,
           t.closed = TRUE,
           t.src = Append(Append(Append(s.src, x), "final"), "done"),
           x = "body" => s.turn \in {"committed", "abandoned"} /\ (s.kind = "responses" => s.seeded)
    PROVE  Sound(t)
<1>1. Typed(s) /\ Phase(s) /\ Durable(s) /\ Discarded(s) /\ Told(s) /\ Legal(s)
  BY DEF Sound
<1>2. s.pc \notin {"idle", "preflight"} /\ s.stream
  BY <1>1 DEF Phase
<1>3. s.src \in Seq(Events) /\ ~s.srcEnd /\ ~Ended(s.src) /\ ~Ended(s.got) /\ ~Ended(s.out)
  BY <1>1 DEF Typed, Phase, Told
<1>4. /\ t.stream /\ t.live /\ t.srcEnd /\ t.closed /\ t.layer = s.layer /\ t.out = s.out
      /\ t.cleanup = s.cleanup /\ t.eof = s.eof /\ t.cut = s.cut /\ t.got = s.got
      /\ t.turn = s.turn /\ t.refused = s.refused /\ t.kind = s.kind
  BY <1>2, KeptFields
<1>5. /\ t.src \in Seq(Events) /\ EndsOnce(t.src) /\ Paired(t.src) /\ ~NextIs(t.src, "final")
      /\ Adds(s.src, {x, "final", "done"}, t.src)
  BY <1>1, <1>3, AnswerWritten DEF Legal
<1>6. x \notin {"final", "error"}
  BY DEF Text
<1>7. ~NextIs(s.src, "final")
  BY <1>3, HeadHas DEF Ended
<1>8. Typed(t)
  <2>1. \A f \in {"src", "srcEnd", "closed", "pc"} : f \in Flags => t[f] \in BOOLEAN
    BY <1>1 DEF Typed, Flags
  <2>2. t.src \in Seq(Events)
    BY <1>1, <1>2, <1>3, <1>4, <1>5, <1>6, <1>7 DEF Typed
  <2>3. Keeps(s, t, {"src", "srcEnd", "closed", "pc"}) /\ Typed(s)
    BY <1>1
  <2> QED BY ONLY <2>1, <2>2, <2>3, KeptTypes
<1>9. Phase(t)
  BY <1>1, <1>2, <1>3, <1>4 DEF Phase
<1>10. Durable(t)
  BY <1>1, <1>2, <1>3, <1>5, <1>6, KeptFields, SMTT(30) DEF Durable, Adds
<1>11. Discarded(t)
  BY <1>1, <1>3, <1>4, <1>5 DEF Discarded, Adds
<1>12. Told(t)
  BY <1>1, <1>2, <1>3, <1>5, <1>6, <1>7, KeptFields, SMTT(30) DEF Told, FailedBehind, Ended, Adds
<1>13. Legal(t)
  BY <1>1, <1>3, <1>5, <1>6, <1>7, KeptFields DEF Legal
<1> QED BY <1>8, <1>9, <1>10, <1>11, <1>12, <1>13 DEF Sound

\* The catch block reports an error within the stream and closes it.
LEMMA CatchSound ==
    ASSUME NEW s, NEW t, Sound(s), s.live,
           ~s.closed,
           s.pc # "ended",
           Keeps(s, t, {"src", "srcEnd", "closed", "pc", "terminal"}),
           t.pc = "ended",
           t.srcEnd = TRUE,
           t.closed = TRUE,
           t.src = Append(Append(s.src, "error"), "done"),
           t.terminal = IF s.terminal # "none" THEN s.terminal
                        ELSE IF s.signal \/ s.aborted THEN "cancel" ELSE "error",
           s.turn \notin {"held", "committed"} \/ s.refused
    PROVE  Sound(t)
<1>1. Typed(s) /\ Phase(s) /\ Durable(s) /\ Discarded(s) /\ Told(s) /\ Legal(s)
  BY DEF Sound
<1>2. s.pc \notin {"idle", "preflight"} /\ s.stream
  BY <1>1 DEF Phase
<1>3. s.src \in Seq(Events) /\ ~s.srcEnd /\ ~Ended(s.src) /\ ~Ended(s.got) /\ ~Ended(s.out)
  BY <1>1 DEF Typed, Phase, Told
<1>4. /\ t.stream /\ t.live /\ t.srcEnd /\ t.closed /\ t.layer = s.layer /\ t.out = s.out
      /\ t.cleanup = s.cleanup /\ t.eof = s.eof /\ t.cut = s.cut /\ t.got = s.got
      /\ t.turn = s.turn /\ t.refused = s.refused /\ t.kind = s.kind
  BY <1>2, KeptFields
<1>5. /\ t.src \in Seq(Events) /\ EndsOnce(t.src) /\ Paired(t.src) /\ ~NextIs(t.src, "final")
      /\ Adds(s.src, {"error", "done"}, t.src)
  BY <1>1, <1>3, ErrorWritten DEF Legal
<1>6. ~NextIs(s.src, "final")
  BY <1>3, HeadHas DEF Ended
<1>7. Typed(t)
  <2>1. \A f \in {"src", "srcEnd", "closed", "pc", "terminal"} : f \in Flags => t[f] \in BOOLEAN
    BY <1>1 DEF Typed, Flags
  <2>2. t.src \in Seq(Events) /\ t.terminal \in Terminals \cup {"none"}
    BY <1>1, <1>2, <1>3, <1>4, <1>5, <1>6 DEF Typed, Terminals
  <2>3. Keeps(s, t, {"src", "srcEnd", "closed", "pc", "terminal"}) /\ Typed(s)
    BY <1>1
  <2> QED BY ONLY <2>1, <2>2, <2>3, KeptTypes
<1>8. Phase(t)
  BY <1>1, <1>2, <1>3, <1>4 DEF Phase
<1>9. Durable(t)
  BY <1>1, <1>2, <1>3, <1>5, <1>6, KeptFields, SMTT(30) DEF Durable, Adds
<1>10. Discarded(t)
  BY <1>1, <1>3, <1>4, <1>5 DEF Discarded, Adds
<1>11. Told(t)
  BY <1>1, <1>2, <1>3, <1>5, <1>6, KeptFields, SMTT(30) DEF Told, FailedBehind, Ended, Adds
<1>12. Legal(t)
  BY <1>1, <1>3, <1>5, <1>6, KeptFields DEF Legal
<1> QED BY <1>7, <1>8, <1>9, <1>10, <1>11, <1>12 DEF Sound


\* The adapter's two events at the border of a content block.
LEMMA TwoWritten ==
    ASSUME NEW w \in Seq(Events), NEW v \in Seq(Events), NEW b \in Events, NEW c \in Events,
           b \notin {"final", "error", "body", "note"}, Follows(b, c), ~Ended(w), EndsOnce(w), Nested(w), Joint(v, w),
           NEW u, u = Append(Append(w, b), c)
    PROVE  /\ u \in Seq(Events)
           /\ Adds(w, {b, c}, u)
           /\ EndsOnce(u) /\ Nested(u) /\ Joint(v, u)
<1> DEFINE a == Append(w, b)
           d == Append(a, c)
<1>1. b \in Events /\ b \notin {"final", "error"} /\ \A y : Follows(y, b)
  BY DEF Events, Follows, Text
<1>2. /\ a \in Seq(Events) /\ a # <<>> /\ ~Ended(a) /\ EndsOnce(a)
      /\ \A e : Has(a, e) <=> Has(w, e) \/ e = b
  BY <1>1, Appended
<1>3. Nested(a) /\ Joint(v, a) /\ a[Len(a)] = b
  BY <1>1, AppendedOrder
<1>4. u = d
  OBVIOUS
<1> HIDE DEF a
<1>5. d \in Seq(Events) /\ EndsOnce(d) /\ \A e : Has(d, e) <=> Has(a, e) \/ e = c
  BY <1>2, Appended
<1>6. Nested(d) /\ Joint(v, d)
  BY <1>2, <1>3, AppendedOrder
<1> HIDE DEF d
<1>7. Adds(w, {b, c}, d)
  BY <1>2, <1>5 DEF Adds
<1> QED BY <1>4, <1>5, <1>6, <1>7

\* The adapter has no event for some of the source's.
LEMMA AdapterSkipsSound ==
    ASSUME NEW s, NEW t, Sound(s), s.layer = "adapter",
           ~s.cancelled,
           ~s.outEnd,
           s.src # <<>>,
           t.src = Tail(s.src),
           Head(s.src) \notin Text \cup {"beat", "final", "error"},
           Keeps(s, t, {"src"})
    PROVE  Sound(t)
<1>1. Typed(s) /\ Phase(s) /\ Durable(s) /\ Discarded(s) /\ Told(s) /\ Legal(s)
  BY DEF Sound
<1>2. /\ s.src \in Seq(Events) /\ s.out \in Seq(Events) /\ s.got \in Seq(Events)
      /\ EndsOnce(s.src) /\ Paired(s.src) /\ EndsOnce(s.out)
  BY <1>1 DEF Typed, Legal
<1>3. /\ t.src \in Seq(Events) /\ Head(s.src) \in Events /\ EndsOnce(t.src) /\ Paired(t.src)
      /\ \A e : Has(s.src, e) <=> Has(t.src, e) \/ e = Head(s.src)
      /\ Ended(s.src) <=> Ended(t.src) \/ Head(s.src) \in {"final", "error"}
      /\ AllDone(s.src) <=> AllDone(t.src) /\ Head(s.src) = "done"
      /\ Head(s.src) \in {"final", "error"} => AllDone(t.src)
      /\ Head(s.src) \in Text <=> NextIs(t.src, "final")
  BY <1>2, Taken
<1>4. /\ Head(s.src) # "done" => ~Ended(s.out) /\ ~Ended(s.got)
      /\ s.block <=> Head(s.src) = "final"
      /\ Nested(s.out) /\ Nested(s.got) /\ Joint(s.got, s.out)
      /\ ~Has(s.out, "error") /\ ~Has(s.got, "error") /\ s.stream
  BY <1>1, <1>3 DEF Legal, NextIs, Phase
<1>5. Typed(t)
  <2>1. \A f \in {"src"} : f \in Flags => t[f] \in BOOLEAN
    BY <1>1 DEF Typed, Flags
  <2>2. t.src \in Seq(Events)
    BY <1>1, <1>2, <1>3, <1>4 DEF Typed
  <2>3. Keeps(s, t, {"src"}) /\ Typed(s)
    BY <1>1
  <2> QED BY ONLY <2>1, <2>2, <2>3, KeptTypes
<1>6. Phase(t)
  BY <1>1, <1>2, <1>3, <1>4, KeptFields DEF Phase
<1>7. Durable(t)
  BY <1>1, <1>2, <1>3, <1>4, KeptFields DEF Durable, Text
<1>8. Discarded(t)
  BY <1>1, <1>2, <1>3, <1>4, KeptFields DEF Discarded
<1>9. Told(t)
  BY <1>1, <1>2, <1>3, <1>4, KeptFields DEF Told, FailedBehind, Text
<1>10. Legal(t)
  BY <1>1, <1>2, <1>3, <1>4, KeptFields DEF Legal, Ended, Text
<1> QED BY <1>5, <1>6, <1>7, <1>8, <1>9, <1>10 DEF Sound

\* A heart-beat is passed on as a ping.
LEMMA AdapterBeatsSound ==
    ASSUME NEW s, NEW t, Sound(s), s.layer = "adapter",
           ~s.cancelled,
           ~s.outEnd,
           s.src # <<>>,
           t.src = Tail(s.src),
           Head(s.src) = "beat",
           Keeps(s, t, {"src", "out"}),
           t.out = Append(s.out, "beat")
    PROVE  Sound(t)
<1>1. Typed(s) /\ Phase(s) /\ Durable(s) /\ Discarded(s) /\ Told(s) /\ Legal(s)
  BY DEF Sound
<1>2. /\ s.src \in Seq(Events) /\ s.out \in Seq(Events) /\ s.got \in Seq(Events)
      /\ EndsOnce(s.src) /\ Paired(s.src) /\ EndsOnce(s.out)
  BY <1>1 DEF Typed, Legal
<1>3. /\ t.src \in Seq(Events) /\ Head(s.src) \in Events /\ EndsOnce(t.src) /\ Paired(t.src)
      /\ \A e : Has(s.src, e) <=> Has(t.src, e) \/ e = Head(s.src)
      /\ Ended(s.src) <=> Ended(t.src) \/ Head(s.src) \in {"final", "error"}
      /\ AllDone(s.src) <=> AllDone(t.src) /\ Head(s.src) = "done"
      /\ Head(s.src) \in {"final", "error"} => AllDone(t.src)
      /\ Head(s.src) \in Text <=> NextIs(t.src, "final")
  BY <1>2, Taken
<1>4. /\ Head(s.src) # "done" => ~Ended(s.out) /\ ~Ended(s.got)
      /\ s.block <=> Head(s.src) = "final"
      /\ Nested(s.out) /\ Nested(s.got) /\ Joint(s.got, s.out)
      /\ ~Has(s.out, "error") /\ ~Has(s.got, "error") /\ s.stream
  BY <1>1, <1>3 DEF Legal, NextIs, Phase
<1>5. "beat" \in Events /\ "beat" \notin Text /\ t.got = s.got /\ \A v : Follows(v, "beat")
  BY KeptFields DEF Events, Text, Follows
<1>6. /\ t.out \in Seq(Events) /\ EndsOnce(t.out) /\ ~Ended(t.out)
      /\ \A e : Has(t.out, e) <=> Has(s.out, e) \/ e = "beat"
  BY <1>2, <1>4, <1>5, Appended
<1>7. Nested(t.out) /\ Joint(s.got, t.out)
  BY <1>2, <1>4, <1>5, AppendedOrder
<1>8. /\ \A e \in {"final", "error"} : Has(t.src, e) <=> Has(s.src, e)
      /\ \A e \in {"final", "error"} : Has(t.out, e) <=> Has(s.out, e)
  BY <1>3, <1>6
<1>9. Typed(t)
  <2>1. \A f \in {"src", "out"} : f \in Flags => t[f] \in BOOLEAN
    BY <1>1 DEF Typed, Flags
  <2>2. t.src \in Seq(Events) /\ t.out \in Seq(Events)
    BY <1>1, <1>2, <1>3, <1>4, <1>5, <1>6, <1>7, <1>8 DEF Typed
  <2>3. Keeps(s, t, {"src", "out"}) /\ Typed(s)
    BY <1>1
  <2> QED BY ONLY <2>1, <2>2, <2>3, KeptTypes
<1>10. Phase(t)
  BY <1>1, KeptFields DEF Phase
<1>11. Durable(t)
  BY <1>1, <1>3, <1>6, KeptFields, SMTT(30) DEF Durable
<1>12. Discarded(t)
  BY <1>1, KeptFields DEF Discarded
<1>13. Told(t)
  BY <1>1, <1>8, KeptFields DEF Told, FailedBehind, Ended
<1>14. Legal(t)
  BY <1>1, <1>2, <1>3, <1>4, <1>5, <1>6, <1>7, <1>8, KeptFields, SMTT(30) DEF Legal
<1> QED BY <1>9, <1>10, <1>11, <1>12, <1>13, <1>14 DEF Sound

\* A text opens a content block.
LEMMA AdapterTextSound ==
    ASSUME NEW s, NEW t, Sound(s), s.layer = "adapter",
           ~s.cancelled,
           ~s.outEnd,
           s.src # <<>>,
           t.src = Tail(s.src),
           Head(s.src) \in Text,
           Keeps(s, t, {"src", "out", "block"}),
           t.out = Append(Append(s.out, "start"), Head(s.src)),
           t.block = TRUE
    PROVE  Sound(t)
<1>1. Typed(s) /\ Phase(s) /\ Durable(s) /\ Discarded(s) /\ Told(s) /\ Legal(s)
  BY DEF Sound
<1>2. /\ s.src \in Seq(Events) /\ s.out \in Seq(Events) /\ s.got \in Seq(Events)
      /\ EndsOnce(s.src) /\ Paired(s.src) /\ EndsOnce(s.out)
  BY <1>1 DEF Typed, Legal
<1>3. /\ t.src \in Seq(Events) /\ Head(s.src) \in Events /\ EndsOnce(t.src) /\ Paired(t.src)
      /\ \A e : Has(s.src, e) <=> Has(t.src, e) \/ e = Head(s.src)
      /\ Ended(s.src) <=> Ended(t.src) \/ Head(s.src) \in {"final", "error"}
      /\ AllDone(s.src) <=> AllDone(t.src) /\ Head(s.src) = "done"
      /\ Head(s.src) \in {"final", "error"} => AllDone(t.src)
      /\ Head(s.src) \in Text <=> NextIs(t.src, "final")
  BY <1>2, Taken
<1>4. /\ Head(s.src) # "done" => ~Ended(s.out) /\ ~Ended(s.got)
      /\ s.block <=> Head(s.src) = "final"
      /\ Nested(s.out) /\ Nested(s.got) /\ Joint(s.got, s.out)
      /\ ~Has(s.out, "error") /\ ~Has(s.got, "error") /\ s.stream
  BY <1>1, <1>3 DEF Legal, NextIs, Phase
<1>5. Head(s.src) \notin {"done", "final", "error"} /\ t.got = s.got /\ Follows("start", Head(s.src))
      /\ "start" \in Events /\ ~Ended(s.out) /\ ~Ended(s.got)
  BY <1>4, KeptFields DEF Events, Text, Follows
<1>6. /\ t.out \in Seq(Events) /\ EndsOnce(t.out) /\ Nested(t.out) /\ Joint(s.got, t.out)
      /\ Adds(s.out, {"start", Head(s.src)}, t.out)
  BY <1>2, <1>3, <1>4, <1>5, TwoWritten
<1>7. /\ \A e \in {"final", "error"} : Has(t.src, e) <=> Has(s.src, e)
      /\ \A e \in {"final", "error"} : Has(t.out, e) <=> Has(s.out, e)
      /\ ~Ended(t.out)
  BY <1>3, <1>5, <1>6 DEF Ended, Adds
<1>8. Has(t.src, "body") \/ Has(t.out, "body") => Has(s.src, "body") \/ Has(s.out, "body")
  BY <1>3, <1>6 DEF Adds
<1>9. Typed(t)
  <2>1. \A f \in {"src", "out", "block"} : f \in Flags => t[f] \in BOOLEAN
    BY <1>1 DEF Typed, Flags
  <2>2. t.src \in Seq(Events) /\ t.out \in Seq(Events)
    BY <1>1, <1>2, <1>3, <1>4, <1>5, <1>6, <1>7, <1>8 DEF Typed
  <2>3. Keeps(s, t, {"src", "out", "block"}) /\ Typed(s)
    BY <1>1
  <2> QED BY ONLY <2>1, <2>2, <2>3, KeptTypes
<1>10. Phase(t)
  BY <1>1, KeptFields DEF Phase
<1>11. Durable(t)
  BY <1>1, <1>8, KeptFields DEF Durable
<1>12. Discarded(t)
  BY <1>1, KeptFields DEF Discarded
<1>13. Told(t)
  BY <1>1, <1>7, KeptFields DEF Told, FailedBehind, Ended
<1>14. Legal(t)
  BY <1>1, <1>2, <1>3, <1>4, <1>5, <1>6, <1>7, KeptFields DEF Legal
<1> QED BY <1>9, <1>10, <1>11, <1>12, <1>13, <1>14 DEF Sound

\* The final event closes the block.
LEMMA AdapterFinalSound ==
    ASSUME NEW s, NEW t, Sound(s), s.layer = "adapter",
           ~s.cancelled,
           ~s.outEnd,
           s.src # <<>>,
           t.src = Tail(s.src),
           Head(s.src) = "final",
           Keeps(s, t, {"src", "out", "block", "sawTerminal"}),
           t.out = Append(Append(s.out, "stop"), "final"),
           t.block = FALSE,
           t.sawTerminal = TRUE
    PROVE  Sound(t)
<1>1. Typed(s) /\ Phase(s) /\ Durable(s) /\ Discarded(s) /\ Told(s) /\ Legal(s)
  BY DEF Sound
<1>2. /\ s.src \in Seq(Events) /\ s.out \in Seq(Events) /\ s.got \in Seq(Events)
      /\ EndsOnce(s.src) /\ Paired(s.src) /\ EndsOnce(s.out)
  BY <1>1 DEF Typed, Legal
<1>3. /\ t.src \in Seq(Events) /\ Head(s.src) \in Events /\ EndsOnce(t.src) /\ Paired(t.src)
      /\ \A e : Has(s.src, e) <=> Has(t.src, e) \/ e = Head(s.src)
      /\ Ended(s.src) <=> Ended(t.src) \/ Head(s.src) \in {"final", "error"}
      /\ AllDone(s.src) <=> AllDone(t.src) /\ Head(s.src) = "done"
      /\ Head(s.src) \in {"final", "error"} => AllDone(t.src)
      /\ Head(s.src) \in Text <=> NextIs(t.src, "final")
  BY <1>2, Taken
<1>4. /\ Head(s.src) # "done" => ~Ended(s.out) /\ ~Ended(s.got)
      /\ s.block <=> Head(s.src) = "final"
      /\ Nested(s.out) /\ Nested(s.got) /\ Joint(s.got, s.out)
      /\ ~Has(s.out, "error") /\ ~Has(s.got, "error") /\ s.stream
  BY <1>1, <1>3 DEF Legal, NextIs, Phase
<1>5. "final" \in Events /\ "final" \notin Text /\ t.got = s.got /\ Follows("stop", "final")
      /\ "stop" \in Events /\ ~Ended(s.out)
  BY <1>4, KeptFields DEF Events, Text, Follows
<1>6. /\ t.out \in Seq(Events) /\ EndsOnce(t.out) /\ Nested(t.out) /\ Joint(s.got, t.out)
      /\ Adds(s.out, {"stop", "final"}, t.out)
  BY <1>2, <1>3, <1>4, <1>5, TwoWritten
<1>7. /\ Has(s.src, "final") /\ Has(t.out, "final") /\ AllDone(t.src)
      /\ Has(t.src, "error") => Has(s.src, "error")
      /\ Has(t.out, "error") => Has(s.out, "error")
  BY <1>3, <1>6 DEF Adds
<1>8. Has(t.src, "body") \/ Has(t.out, "body") => Has(s.src, "body") \/ Has(s.out, "body")
  BY <1>3, <1>6 DEF Adds
<1>9. Typed(t)
  <2>1. \A f \in {"src", "out", "block", "sawTerminal"} : f \in Flags => t[f] \in BOOLEAN
    BY <1>1 DEF Typed, Flags
  <2>2. t.src \in Seq(Events) /\ t.out \in Seq(Events)
    BY <1>1, <1>2, <1>3, <1>4, <1>5, <1>6, <1>7, <1>8 DEF Typed
  <2>3. Keeps(s, t, {"src", "out", "block", "sawTerminal"}) /\ Typed(s)
    BY <1>1
  <2> QED BY ONLY <2>1, <2>2, <2>3, KeptTypes
<1>10. Phase(t)
  BY <1>1, KeptFields DEF Phase
<1>11. Durable(t)
  BY <1>1, <1>8, KeptFields DEF Durable
<1>12. Discarded(t)
  BY <1>1, KeptFields DEF Discarded
<1>13. Told(t)
  BY <1>1, <1>7, KeptFields DEF Told, FailedBehind, Ended
<1>14. Legal(t)
  BY <1>1, <1>2, <1>3, <1>4, <1>5, <1>6, <1>7, KeptFields DEF Legal
<1> QED BY <1>9, <1>10, <1>11, <1>12, <1>13, <1>14 DEF Sound

\* An error of the source ends the adapter's stream.
LEMMA AdapterErrorSound ==
    ASSUME NEW s, NEW t, Sound(s), s.layer = "adapter",
           ~s.cancelled,
           ~s.outEnd,
           s.src # <<>>,
           t.src = Tail(s.src),
           Head(s.src) = "error",
           s.terminal # "none",
           Keeps(s, t, {"src", "out", "outEnd"}),
           t.out = Append(s.out, "error"),
           t.outEnd = TRUE
    PROVE  Sound(t)
<1>1. Typed(s) /\ Phase(s) /\ Durable(s) /\ Discarded(s) /\ Told(s) /\ Legal(s)
  BY DEF Sound
<1>2. /\ s.src \in Seq(Events) /\ s.out \in Seq(Events) /\ s.got \in Seq(Events)
      /\ EndsOnce(s.src) /\ Paired(s.src) /\ EndsOnce(s.out)
  BY <1>1 DEF Typed, Legal
<1>3. /\ t.src \in Seq(Events) /\ Head(s.src) \in Events /\ EndsOnce(t.src) /\ Paired(t.src)
      /\ \A e : Has(s.src, e) <=> Has(t.src, e) \/ e = Head(s.src)
      /\ Ended(s.src) <=> Ended(t.src) \/ Head(s.src) \in {"final", "error"}
      /\ AllDone(s.src) <=> AllDone(t.src) /\ Head(s.src) = "done"
      /\ Head(s.src) \in {"final", "error"} => AllDone(t.src)
      /\ Head(s.src) \in Text <=> NextIs(t.src, "final")
  BY <1>2, Taken
<1>4. /\ Head(s.src) # "done" => ~Ended(s.out) /\ ~Ended(s.got)
      /\ s.block <=> Head(s.src) = "final"
      /\ Nested(s.out) /\ Nested(s.got) /\ Joint(s.got, s.out)
      /\ ~Has(s.out, "error") /\ ~Has(s.got, "error") /\ s.stream
  BY <1>1, <1>3 DEF Legal, NextIs, Phase
<1>5. "error" \in Events /\ "error" \notin Text /\ t.got = s.got /\ \A v : Follows(v, "error")
  BY KeptFields DEF Events, Text, Follows
<1>6. /\ t.out \in Seq(Events) /\ EndsOnce(t.out)
      /\ \A e : Has(t.out, e) <=> Has(s.out, e) \/ e = "error"
  BY <1>2, <1>4, <1>5, Appended
<1>7. /\ Has(s.src, "error") /\ (Has(t.src, "final") => Has(s.src, "final"))
      /\ Has(t.out, "final") <=> Has(s.out, "final")
  BY <1>3, <1>6
<1>8. Has(t.src, "body") \/ Has(t.out, "body") => Has(s.src, "body") \/ Has(s.out, "body")
  BY <1>3, <1>6
<1>9. Nested(t.out) /\ Joint(s.got, t.out)
  BY <1>2, <1>4, <1>5, AppendedOrder
<1>10. t.layer = s.layer /\ t.block = s.block /\ t.cancelled = s.cancelled
  BY KeptFields
<1>11. Typed(t)
  <2>1. \A f \in {"src", "out", "outEnd"} : f \in Flags => t[f] \in BOOLEAN
    BY <1>1 DEF Typed, Flags
  <2>2. t.src \in Seq(Events) /\ t.out \in Seq(Events)
    BY <1>1, <1>2, <1>3, <1>4, <1>5, <1>6, <1>7, <1>8, <1>9, <1>10 DEF Typed
  <2>3. Keeps(s, t, {"src", "out", "outEnd"}) /\ Typed(s)
    BY <1>1
  <2> QED BY ONLY <2>1, <2>2, <2>3, KeptTypes
<1>12. Phase(t)
  BY <1>1, KeptFields DEF Phase
<1>13. Durable(t)
  BY <1>1, <1>8, KeptFields DEF Durable
<1>14. Discarded(t)
  BY <1>1, KeptFields DEF Discarded
<1>15. Told(t)
  BY <1>1, <1>7, KeptFields DEF Told, FailedBehind, Ended
<1>16. Legal(t)
  BY <1>1, <1>3, <1>4, <1>5, <1>6, <1>9, <1>10 DEF Legal
<1> QED BY <1>11, <1>12, <1>13, <1>14, <1>15, <1>16 DEF Sound

\* The adapter has read a whole stream.
LEMMA AdapterEndsSound ==
    ASSUME NEW s, NEW t, Sound(s), s.layer = "adapter",
           s.sawTerminal,
           Keeps(s, t, {"outEnd"}),
           t.outEnd = TRUE
    PROVE  Sound(t)
<1>1. Typed(s) /\ Phase(s) /\ Durable(s) /\ Discarded(s) /\ Told(s) /\ Legal(s)
  BY DEF Sound
<1>2. Typed(t)
  <2>1. \A f \in {"outEnd"} : f \in Flags => t[f] \in BOOLEAN
    BY <1>1 DEF Typed, Flags
  <2> QED BY <1>1, <2>1, KeptTypes
<1>3. Phase(t)
  BY <1>1, KeptFields DEF Phase
<1>4. Durable(t)
  BY <1>1, KeptFields DEF Durable
<1>5. Discarded(t)
  BY <1>1, KeptFields DEF Discarded
<1>6. Told(t)
  BY <1>1, KeptFields DEF Told, FailedBehind
<1>7. Legal(t)
  BY <1>1, KeptFields DEF Legal
<1> QED BY <1>2, <1>3, <1>4, <1>5, <1>6, <1>7 DEF Sound

\* The source ended without a final event.
LEMMA AdapterFailsSound ==
    ASSUME NEW s, NEW t, Sound(s), s.layer = "adapter",
           ~s.cancelled,
           ~s.outEnd,
           s.src = <<>>,
           s.srcEnd,
           ~s.sawTerminal,
           s.terminal # "none",
           Keeps(s, t, {"out", "outEnd"}),
           t.out = Append(s.out, "error"),
           t.outEnd = TRUE
    PROVE  Sound(t)
<1>1. Typed(s) /\ Phase(s) /\ Durable(s) /\ Discarded(s) /\ Told(s) /\ Legal(s)
  BY DEF Sound
<1>2. /\ s.out \in Seq(Events) /\ s.got \in Seq(Events) /\ EndsOnce(s.out)
      /\ Nested(s.out) /\ Joint(s.got, s.out) /\ ~Ended(s.out) /\ ~Ended(s.got)
      /\ s.pc \notin {"idle", "preflight"} /\ (s.live => s.pc = "ended")
  BY <1>1 DEF Typed, Phase, Legal, Told, Ended
<1>3. "error" \in Events /\ t.got = s.got /\ t.src = s.src /\ \A v : Follows(v, "error")
  BY KeptFields DEF Events, Text, Follows
<1>4. /\ t.out \in Seq(Events) /\ EndsOnce(t.out)
      /\ \A e : Has(t.out, e) <=> Has(s.out, e) \/ e = "error"
  BY <1>2, <1>3, Appended
<1>5. Nested(t.out) /\ Joint(s.got, t.out)
  BY <1>2, <1>3, AppendedOrder
<1>6. Has(t.out, "final") <=> Has(s.out, "final")
  BY <1>4
<1>7. Has(t.out, "body") => Has(s.out, "body")
  BY <1>4
<1>8. Typed(t)
  <2>1. \A f \in {"out", "outEnd"} : f \in Flags => t[f] \in BOOLEAN
    BY <1>1 DEF Typed, Flags
  <2>2. t.out \in Seq(Events)
    BY <1>1, <1>2, <1>3, <1>4, <1>5, <1>6, <1>7 DEF Typed
  <2>3. Keeps(s, t, {"out", "outEnd"}) /\ Typed(s)
    BY <1>1
  <2> QED BY ONLY <2>1, <2>2, <2>3, KeptTypes
<1>9. Phase(t)
  BY <1>1, KeptFields DEF Phase
<1>10. Durable(t)
  BY <1>1, <1>7, KeptFields DEF Durable
<1>11. Discarded(t)
  BY <1>1, KeptFields DEF Discarded
<1>12. Told(t)
  BY <1>1, <1>2, <1>6, KeptFields, SMTT(30) DEF Told, FailedBehind
<1>13. Legal(t)
  BY <1>1, <1>2, <1>3, <1>4, <1>5, <1>6, <1>7, KeptFields DEF Legal
<1> QED BY <1>8, <1>9, <1>10, <1>11, <1>12, <1>13 DEF Sound

\* The bridge passes an event on.
LEMMA BridgePassesSound ==
    ASSUME NEW s, NEW t, Sound(s), s.layer = "bridge",
           s.src # <<>>,
           t.src = Tail(s.src),
           Keeps(s, t, {"src", "out"}),
           t.out = Append(s.out, Head(s.src))
    PROVE  Sound(t)
<1>1. Typed(s) /\ Phase(s) /\ Durable(s) /\ Discarded(s) /\ Told(s) /\ Legal(s)
  BY DEF Sound
<1>2. /\ s.src \in Seq(Events) /\ s.out \in Seq(Events) /\ s.got \in Seq(Events)
      /\ EndsOnce(s.src) /\ Paired(s.src) /\ EndsOnce(s.out)
  BY <1>1 DEF Typed, Legal
<1>3. /\ t.src \in Seq(Events) /\ Head(s.src) \in Events /\ EndsOnce(t.src) /\ Paired(t.src)
      /\ \A e : Has(s.src, e) <=> Has(t.src, e) \/ e = Head(s.src)
      /\ Ended(s.src) <=> Ended(t.src) \/ Head(s.src) \in {"final", "error"}
      /\ AllDone(s.src) <=> AllDone(t.src) /\ Head(s.src) = "done"
      /\ Head(s.src) \in {"final", "error"} => AllDone(t.src)
      /\ Head(s.src) \in Text <=> NextIs(t.src, "final")
  BY <1>2, Taken
<1>4. Ended(s.out) \/ Ended(s.got) => AllDone(s.src)
  BY <1>1 DEF Legal
<1>5. /\ t.out \in Seq(Events) /\ EndsOnce(t.out)
      /\ \A e : Has(t.out, e) <=> Has(s.out, e) \/ e = Head(s.src)
      /\ Ended(t.out) <=> Ended(s.out) \/ Head(s.src) \in {"final", "error"}
      /\ AllDone(t.out) <=> AllDone(s.out) /\ Head(s.src) = "done"
  BY <1>2, <1>3, <1>4, Appended
<1>6. \A e \in {"final", "error", "body"} :
          /\ Has(t.src, e) => Has(s.src, e)
          /\ Has(s.src, e) \/ Has(s.out, e) <=> Has(t.src, e) \/ Has(t.out, e)
  BY <1>3, <1>5
<1>7. /\ t.got = s.got /\ t.layer = "bridge" /\ s.src # <<>>
      /\ Has(t.out, "error") => Has(s.out, "error") \/ Has(s.src, "error")
  BY <1>3, <1>5, KeptFields, SMTT(30)
<1>8. Typed(t)
  <2>1. \A f \in {"src", "out"} : f \in Flags => t[f] \in BOOLEAN
    BY <1>1 DEF Typed, Flags
  <2>2. t.src \in Seq(Events) /\ t.out \in Seq(Events)
    BY <1>1, <1>2, <1>3, <1>4, <1>5, <1>6, <1>7 DEF Typed
  <2>3. Keeps(s, t, {"src", "out"}) /\ Typed(s)
    BY <1>1
  <2> QED BY ONLY <2>1, <2>2, <2>3, KeptTypes
<1>9. Phase(t)
  BY <1>1, KeptFields DEF Phase
<1>10. Durable(t)
  BY <1>1, <1>6, KeptFields DEF Durable
<1>11. Discarded(t)
  BY <1>1, KeptFields DEF Discarded
<1>12. Told(t)
  BY <1>1, <1>6, <1>7, KeptFields DEF Told, FailedBehind, Ended
<1>13. Legal(t)
  BY <1>1, <1>3, <1>4, <1>5, <1>7, KeptFields DEF Legal
<1> QED BY <1>8, <1>9, <1>10, <1>11, <1>12, <1>13 DEF Sound

\* The bridge has passed a whole stream on.
LEMMA BridgeEndsSound ==
    ASSUME NEW s, NEW t, Sound(s), s.layer = "bridge",
           s.src = <<>>,
           s.srcEnd,
           Keeps(s, t, {"outEnd"}),
           t.outEnd = TRUE
    PROVE  Sound(t)
<1>1. Typed(s) /\ Phase(s) /\ Durable(s) /\ Discarded(s) /\ Told(s) /\ Legal(s)
  BY DEF Sound
<1>2. Typed(t)
  <2>1. \A f \in {"outEnd"} : f \in Flags => t[f] \in BOOLEAN
    BY <1>1 DEF Typed, Flags
  <2> QED BY <1>1, <2>1, KeptTypes
<1>3. Phase(t)
  BY <1>1, KeptFields DEF Phase
<1>4. Durable(t)
  BY <1>1, KeptFields DEF Durable
<1>5. Discarded(t)
  BY <1>1, KeptFields DEF Discarded
<1>6. Told(t)
  BY <1>1, KeptFields DEF Told, FailedBehind
<1>7. Legal(t)
  BY <1>1, KeptFields DEF Legal
<1> QED BY <1>2, <1>3, <1>4, <1>5, <1>6, <1>7 DEF Sound

\* The client reads from the source.
LEMMA PullSourceSound ==
    ASSUME NEW s, NEW t, Sound(s), s.layer = "none",
           ~s.cut,
           ~s.eof,
           s.answer = "stream",
           s.src # <<>>,
           t.src = Tail(s.src),
           Keeps(s, t, {"src", "got"}),
           t.got = Append(s.got, Head(s.src))
    PROVE  Sound(t)
<1>1. Typed(s) /\ Phase(s) /\ Durable(s) /\ Discarded(s) /\ Told(s) /\ Legal(s)
  BY DEF Sound
<1>2. /\ s.src \in Seq(Events) /\ s.out \in Seq(Events) /\ s.got \in Seq(Events)
      /\ EndsOnce(s.src) /\ Paired(s.src) /\ EndsOnce(s.out)
  BY <1>1 DEF Typed, Legal
<1>3. /\ t.src \in Seq(Events) /\ Head(s.src) \in Events /\ EndsOnce(t.src) /\ Paired(t.src)
      /\ \A e : Has(s.src, e) <=> Has(t.src, e) \/ e = Head(s.src)
      /\ Ended(s.src) <=> Ended(t.src) \/ Head(s.src) \in {"final", "error"}
      /\ AllDone(s.src) <=> AllDone(t.src) /\ Head(s.src) = "done"
      /\ Head(s.src) \in {"final", "error"} => AllDone(t.src)
      /\ Head(s.src) \in Text <=> NextIs(t.src, "final")
  BY <1>2, Taken
<1>4. Ended(s.got) => AllDone(s.src)
  BY <1>1 DEF Legal
<1>5. /\ t.got \in Seq(Events) /\ (EndsOnce(s.got) => EndsOnce(t.got))
      /\ \A e : Has(t.got, e) <=> Has(s.got, e) \/ e = Head(s.src)
      /\ Ended(t.got) <=> Ended(s.got) \/ Head(s.src) \in {"final", "error"}
  BY <1>2, <1>3, <1>4, Appended
<1>6. \A e \in {"final", "error", "body"} :
          /\ Has(t.src, e) => Has(s.src, e)
          /\ Has(s.src, e) \/ Has(s.got, e) <=> Has(t.src, e) \/ Has(t.got, e)
  BY <1>3, <1>5
<1>7. /\ t.out = <<>> /\ t.layer = "none" /\ s.src # <<>> /\ AllDone(<<>>) /\ ~Ended(<<>>)
      /\ EndsOnce(<<>>) /\ s.out = <<>> /\ s.pc \notin {"idle", "preflight"}
      /\ s.terminal # "complete" \/ ~s.stream
  BY <1>1, <1>3, <1>5, KeptFields, EmptyPipe, SMTT(30) DEF Phase, Told
<1>8. Typed(t)
  <2>1. \A f \in {"src", "got"} : f \in Flags => t[f] \in BOOLEAN
    BY <1>1 DEF Typed, Flags
  <2>2. t.src \in Seq(Events) /\ t.got \in Seq(Events)
    BY <1>1, <1>2, <1>3, <1>4, <1>5, <1>6, <1>7 DEF Typed
  <2>3. Keeps(s, t, {"src", "got"}) /\ Typed(s)
    BY <1>1
  <2> QED BY ONLY <2>1, <2>2, <2>3, KeptTypes
<1>9. Phase(t)
  BY <1>1, <1>7, KeptFields DEF Phase
<1>10. Durable(t)
  BY <1>1, <1>6, <1>7, KeptFields DEF Durable
<1>11. Discarded(t)
  BY <1>1, <1>6, KeptFields DEF Discarded
<1>12. Told(t)
  BY <1>1, <1>6, <1>7, KeptFields DEF Told, FailedBehind, Ended
<1>13. Legal(t)
  BY <1>1, <1>3, <1>4, <1>5, <1>7, KeptFields DEF Legal
<1> QED BY <1>8, <1>9, <1>10, <1>11, <1>12, <1>13 DEF Sound

\* The client reads from the adapter or the bridge.
LEMMA PullLayerSound ==
    ASSUME NEW s, NEW t, Sound(s), s.layer # "none",
           ~s.cut,
           ~s.eof,
           s.answer = "stream",
           s.out # <<>>,
           t.out = Tail(s.out),
           Keeps(s, t, {"out", "got"}),
           t.got = Append(s.got, Head(s.out))
    PROVE  Sound(t)
<1>1. Typed(s) /\ Phase(s) /\ Durable(s) /\ Discarded(s) /\ Told(s) /\ Legal(s)
  BY DEF Sound
<1>2. /\ s.out \in Seq(Events) /\ s.got \in Seq(Events) /\ EndsOnce(s.out) /\ EndsOnce(s.got)
      /\ Ended(s.got) => AllDone(s.out)
  BY <1>1 DEF Typed, Legal
<1>3. /\ t.out \in Seq(Events) /\ Head(s.out) \in Events /\ EndsOnce(t.out)
      /\ \A e : Has(s.out, e) <=> Has(t.out, e) \/ e = Head(s.out)
      /\ Ended(s.out) <=> Ended(t.out) \/ Head(s.out) \in {"final", "error"}
      /\ AllDone(s.out) <=> AllDone(t.out) /\ Head(s.out) = "done"
      /\ Head(s.out) \in {"final", "error"} => AllDone(t.out)
  BY <1>2, Taken
<1>4. Nested(s.out) => Nested(t.out) /\ (t.out # <<>> => Follows(Head(s.out), t.out[1]))
  BY <1>2, Taken
<1>5. /\ t.got \in Seq(Events) /\ EndsOnce(t.got)
      /\ \A e : Has(t.got, e) <=> Has(s.got, e) \/ e = Head(s.out)
      /\ Ended(t.got) <=> Ended(s.got) \/ Head(s.out) \in {"final", "error"}
  BY <1>2, <1>3, Appended
<1>6. \A e \in {"final", "error", "body"} :
          Has(s.out, e) \/ Has(s.got, e) <=> Has(t.out, e) \/ Has(t.got, e)
  BY <1>3, <1>5
<1>7. /\ s.out # <<>> /\ s.pc \notin {"idle", "preflight"} /\ (s.terminal # "complete" \/ ~s.stream)
      /\ Has(t.out, "final") => Has(s.out, "final")
  BY <1>1, <1>3 DEF Phase, Told
<1>8. s.layer = "adapter" => Nested(t.got) /\ Nested(t.out) /\ Joint(t.got, t.out)
  <2> SUFFICES ASSUME s.layer = "adapter" PROVE Nested(t.got) /\ Nested(t.out) /\ Joint(t.got, t.out)
    OBVIOUS
  <2>1. Nested(s.got) /\ Nested(s.out) /\ Joint(s.got, s.out)
    BY <1>1 DEF Legal
  <2>2. s.got # <<>> => Follows(s.got[Len(s.got)], Head(s.out))
    <3>1. Head(s.out) = s.out[1]
      BY <1>2
    <3> QED BY <2>1, <3>1 DEF Joint
  <2>3. Nested(t.got) /\ t.got[Len(t.got)] = Head(s.out)
    BY <1>2, <1>3, <2>1, <2>2, AppendedOrder
  <2>4. Nested(t.out) /\ Joint(t.got, t.out)
    BY <1>4, <2>1, <2>3 DEF Joint
  <2> QED BY <2>3, <2>4
<1>9. Typed(t)
  <2>1. \A f \in {"out", "got"} : f \in Flags => t[f] \in BOOLEAN
    BY <1>1 DEF Typed, Flags
  <2>2. t.out \in Seq(Events) /\ t.got \in Seq(Events)
    BY <1>1, <1>2, <1>3, <1>4, <1>5, <1>6, <1>7, <1>8 DEF Typed
  <2>3. Keeps(s, t, {"out", "got"}) /\ Typed(s)
    BY <1>1
  <2> QED BY ONLY <2>1, <2>2, <2>3, KeptTypes
<1>10. Phase(t)
  BY <1>1, <1>7, KeptFields DEF Phase
<1>11. Durable(t)
  BY <1>1, <1>6, <1>7, KeptFields DEF Durable
<1>12. Discarded(t)
  BY <1>1, KeptFields, SMTT(30) DEF Discarded
<1>13. Told(t)
  BY <1>1, <1>6, <1>7, KeptFields DEF Told, FailedBehind, Ended
<1>14. Legal(t)
  BY <1>1, <1>2, <1>3, <1>5, <1>6, <1>8, KeptFields DEF Legal
<1> QED BY <1>9, <1>10, <1>11, <1>12, <1>13, <1>14 DEF Sound

\* The client reads the end.
LEMMA PullEndSound ==
    ASSUME NEW s, NEW t, Sound(s), s.answer = "stream",
           ~s.cut,
           ~s.eof,
           IF s.layer = "none" THEN s.src = <<>> /\ s.srcEnd ELSE s.out = <<>> /\ s.outEnd,
           Keeps(s, t, {"terminal", "eof"}),
           t.eof = TRUE,
           t.terminal = IF s.terminal = "none" THEN "complete" ELSE s.terminal
    PROVE  Sound(t)
<1>1. Typed(s) /\ Phase(s) /\ Durable(s) /\ Discarded(s) /\ Told(s) /\ Legal(s)
  BY DEF Sound
<1>2. /\ s.stream /\ s.pc \notin {"idle", "preflight"}
      /\ \A e : ~Has(<<>>, e)
  BY <1>1, EmptyPipe DEF Phase, Told, Typed
<1>3. s.terminal = "none" =>
          \/ FailedBehind(s) /\ Has(s.got, "error")
          \/ Has(s.got, "final") /\ ~Has(s.got, "error")
  BY <1>1, <1>2, EmptyPipe DEF Told, Phase, FailedBehind
<1>4. Typed(t)
  <2>1. \A f \in {"terminal", "eof"} : f \in Flags => t[f] \in BOOLEAN
    BY <1>1 DEF Typed, Flags
  <2>2. t.terminal \in Terminals \cup {"none"}
    BY <1>1, <1>2, <1>3 DEF Typed, Terminals
  <2>3. Keeps(s, t, {"terminal", "eof"}) /\ Typed(s)
    BY <1>1
  <2> QED BY ONLY <2>1, <2>2, <2>3, KeptTypes
<1>5. Phase(t)
  BY <1>1, <1>2, KeptFields DEF Phase
<1>6. Durable(t)
  BY <1>1, <1>2, <1>3, KeptFields DEF Durable
<1>7. Discarded(t)
  BY <1>1, <1>2, <1>3, KeptFields DEF Discarded
<1>8. Told(t)
  BY <1>1, <1>2, <1>3, KeptFields DEF Told, FailedBehind
<1>9. Legal(t)
  BY <1>1, <1>2, <1>3, KeptFields DEF Legal
<1> QED BY <1>4, <1>5, <1>6, <1>7, <1>8, <1>9 DEF Sound


\* The streams that handler and adapter begin with.
LEMMA FirstPipes ==
    /\ LET u == <<"open">>
       IN  /\ u \in Seq(Events) /\ \A e : Has(u, e) <=> e = "open"
           /\ ~Ended(u) /\ EndsOnce(u) /\ Paired(u) /\ Nested(u) /\ ~NextIs(u, "final")
    /\ LET u == <<"open", "note", "final", "done">>
       IN  /\ u \in Seq(Events) /\ \A e : Has(u, e) <=> e \in {"open", "note", "final", "done"}
           /\ EndsOnce(u) /\ Paired(u) /\ ~NextIs(u, "final")
    /\ LET u == <<"error", "done">>
       IN  /\ u \in Seq(Events) /\ \A e : Has(u, e) <=> e \in {"error", "done"}
           /\ EndsOnce(u)
<1> DEFINE a == <<"open">>
           b == <<"open", "note", "final", "done">>
           c == <<"error", "done">>
<1>1. "open" \in Events /\ "open" \notin Text \cup {"final", "error"} /\ "note" \in Text
  BY DEF Events, Text
<1>2. a = Append(<<>>, "open") /\ <<>> \in Seq(Events)
  BY EmptyPipe
<1>3. a \in Seq(Events) /\ EndsOnce(a) /\ ~Ended(a) /\ \A e : Has(a, e) <=> e = "open"
  <2>1. \A e : Has(Append(<<>>, "open"), e) <=> Has(<<>>, e) \/ e = "open"
    BY <1>1, <1>2, Appended
  <2>2. /\ Append(<<>>, "open") \in Seq(Events) /\ EndsOnce(Append(<<>>, "open"))
        /\ ~Ended(Append(<<>>, "open"))
    BY <1>1, <1>2, Appended, EmptyPipe
  <2> QED BY <1>2, <2>1, <2>2, EmptyPipe
<1>4. Nested(a) /\ Paired(a) /\ ~NextIs(a, "final")
  <2>1. Nested(Append(<<>>, "open")) /\ Paired(Append(<<>>, "open"))
    BY <1>1, <1>2, AppendedOrder, EmptyPipe
  <2>2. NextIs(a, "final") => Has(a, "final")
    BY <1>3, HeadHas
  <2> QED BY <1>2, <1>3, <2>1, <2>2
<1>5. /\ b \in Seq(Events) /\ \A e : Has(b, e) <=> e \in {"open", "note", "final", "done"}
      /\ EndsOnce(b) /\ Paired(b) /\ ~NextIs(b, "final")
  <2> DEFINE x == "note"
  <2>1. b = Append(Append(Append(a, x), "final"), "done") /\ x \in Text
    BY <1>1
  <2> HIDE DEF a, b, x
  <2>2. b \in Seq(Events) /\ EndsOnce(b) /\ Paired(b) /\ ~NextIs(b, "final")
    BY <1>3, <1>4, <2>1, AnswerWritten
  <2>3. Adds(a, {x, "final", "done"}, b)
    BY <1>3, <1>4, <2>1, AnswerWritten
  <2> QED BY <1>3, <2>2, <2>3 DEF x, Adds
<1>6. c \in Seq(Events) /\ EndsOnce(c) /\ \A e : Has(c, e) <=> e \in {"error", "done"}
  <2>1. c = Append(Append(<<>>, "error"), "done")
    OBVIOUS
  <2> HIDE DEF c
  <2>2. c \in Seq(Events) /\ EndsOnce(c) /\ Adds(<<>>, {"error", "done"}, c)
    BY <2>1, EmptyPipe, ErrorWritten
  <2> QED BY <2>2, EmptyPipe DEF Adds
<1> QED BY <1>3, <1>4, <1>5, <1>6

\* A request is refused behind a bridge that has been cancelled,
LEMMA BridgeRefusedSound ==
    ASSUME NEW s, NEW t, Sound(s), s.pc = "preflight",
           s.layer = "bridge",
           s.cancelled,
           Keeps(s, t, {"pc", "turn"}),
           t.pc = "ended",
           t.turn = "released"
    PROVE  Sound(t)
<1>1. Typed(s) /\ Phase(s) /\ Durable(s) /\ Discarded(s) /\ Told(s) /\ Legal(s)
  BY DEF Sound
<1>2. /\ s.src = <<>> /\ s.out = <<>> /\ s.got = <<>> /\ ~s.srcEnd /\ ~s.live /\ ~s.closed /\ ~s.eof
      /\ ~s.block /\ ~s.sawTerminal /\ s.layer # "adapter" /\ s.cleanup = "no" /\ (s.outEnd => s.cancelled)
      /\ s.terminal \in {"none", "cancel"} /\ s.turn = "held"
      /\ (s.cancelled => s.terminal # "none" /\ s.outEnd) /\ (s.cut => s.layer = "bridge")
  BY <1>1 DEF Phase, Told
<1>3. Typed(t)
  <2>1. \A f \in {"pc", "turn"} : f \in Flags => t[f] \in BOOLEAN
    BY <1>1 DEF Typed, Flags
  <2> QED BY <1>1, <1>2, <2>1, KeptTypes
<1>4. Phase(t)
  BY <1>1, <1>2, KeptFields, EmptyPipe DEF Phase
<1>5. Durable(t)
  BY <1>1, <1>2, KeptFields, EmptyPipe DEF Durable
<1>6. Discarded(t)
  BY <1>1, <1>2, KeptFields, EmptyPipe DEF Discarded
<1>7. Told(t)
  BY <1>1, <1>2, KeptFields, EmptyPipe DEF Told, FailedBehind
<1>8. Legal(t)
  BY <1>1, <1>2, KeptFields, EmptyPipe DEF Legal
<1> QED BY <1>3, <1>4, <1>5, <1>6, <1>7, <1>8 DEF Sound

\* or reports it.
LEMMA BridgeReportsSound ==
    ASSUME NEW s, NEW t, Sound(s), s.pc = "preflight",
           s.layer = "bridge",
           ~s.cancelled,
           s.stream,
           Keeps(s, t, {"pc", "turn", "out", "outEnd"}),
           t.pc = "ended",
           t.turn = "released",
           t.out = <<"error", "done">>,
           t.outEnd = TRUE
    PROVE  Sound(t)
<1>1. Typed(s) /\ Phase(s) /\ Durable(s) /\ Discarded(s) /\ Told(s) /\ Legal(s)
  BY DEF Sound
<1>2. /\ s.src = <<>> /\ s.out = <<>> /\ s.got = <<>> /\ ~s.srcEnd /\ ~s.live /\ ~s.closed /\ ~s.eof
      /\ ~s.block /\ ~s.sawTerminal /\ s.layer # "adapter" /\ s.cleanup = "no" /\ (s.outEnd => s.cancelled)
      /\ s.terminal \in {"none", "cancel"} /\ s.turn = "held"
      /\ (s.cancelled => s.terminal # "none" /\ s.outEnd) /\ (s.cut => s.layer = "bridge")
  BY <1>1 DEF Phase, Told
<1>3. /\ t.out \in Seq(Events) /\ EndsOnce(t.out) /\ Has(t.out, "error") /\ ~Has(t.out, "final") /\ ~Has(t.out, "body")
  BY FirstPipes
<1>4. /\ \A e : ~Has(<<>>, e) /\ ~NextIs(<<>>, e)
      /\ ~Ended(<<>>) /\ AllDone(<<>>) /\ EndsOnce(<<>>) /\ Paired(<<>>)
  BY EmptyPipe
<1>5. Typed(t)
  <2>1. \A f \in {"pc", "turn", "out", "outEnd"} : f \in Flags => t[f] \in BOOLEAN
    BY <1>1 DEF Typed, Flags
  <2>2. t.out \in Seq(Events)
    BY <1>1, <1>2, <1>3, <1>4 DEF Typed
  <2>3. Keeps(s, t, {"pc", "turn", "out", "outEnd"}) /\ Typed(s)
    BY <1>1
  <2> QED BY ONLY <2>1, <2>2, <2>3, KeptTypes
<1>6. Phase(t)
  BY <1>1, <1>2, <1>3, <1>4, KeptFields DEF Phase
<1>7. Durable(t)
  BY <1>1, <1>2, <1>3, <1>4, KeptFields DEF Durable
<1>8. Discarded(t)
  BY <1>1, <1>2, <1>3, <1>4, KeptFields DEF Discarded
<1>9. Told(t)
  BY <1>1, <1>2, <1>3, <1>4, KeptFields DEF Told, FailedBehind
<1>10. Legal(t)
  BY <1>1, <1>2, <1>3, <1>4, KeptFields DEF Legal
<1> QED BY <1>5, <1>6, <1>7, <1>8, <1>9, <1>10 DEF Sound

\* A stream without a pump: a local text, whole.
LEMMA LocalSound ==
    ASSUME NEW s, NEW t, Sound(s), s.pc = "preflight",
           s.stream,
           Keeps(s, t, {"src", "srcEnd", "pc", "turn", "layer", "out", "answer"}),
           t.src = <<"open", "note", "final", "done">>,
           t.srcEnd = TRUE,
           t.pc = "ended",
           t.turn = "released",
           \/ t.layer = s.layer /\ t.out = s.out
           \/ s.layer = "none" /\ t.layer = "adapter" /\ t.out \in {<<>>, <<"open">>},
           t.answer = "stream"
    PROVE  Sound(t)
<1>1. Typed(s) /\ Phase(s) /\ Durable(s) /\ Discarded(s) /\ Told(s) /\ Legal(s)
  BY DEF Sound
<1>2. /\ s.src = <<>> /\ s.out = <<>> /\ s.got = <<>> /\ ~s.srcEnd /\ ~s.live /\ ~s.closed /\ ~s.eof
      /\ ~s.block /\ ~s.sawTerminal /\ s.layer # "adapter" /\ s.cleanup = "no" /\ (s.outEnd => s.cancelled)
      /\ s.terminal \in {"none", "cancel"} /\ s.turn = "held"
      /\ (s.cancelled => s.terminal # "none" /\ s.outEnd) /\ (s.cut => s.layer = "bridge")
  BY <1>1 DEF Phase, Told
<1>3. /\ t.out \in Seq(Events) /\ \A e \in {"final", "error", "body"} : ~Has(t.out, e)
      /\ ~Ended(t.out) /\ EndsOnce(t.out) /\ Nested(t.out) /\ Nested(<<>>) /\ Joint(<<>>, t.out)
  BY <1>2, FirstPipes, EmptyPipe, ZenonT(60)
<1>4. /\ \A e : ~Has(<<>>, e)
      /\ ~Ended(<<>>) /\ EndsOnce(<<>>)
  BY EmptyPipe
<1>5. /\ t.src \in Seq(Events) /\ EndsOnce(t.src) /\ Paired(t.src) /\ ~NextIs(t.src, "final")
      /\ Has(t.src, "final") /\ ~Has(t.src, "error") /\ ~Has(t.src, "body")
  BY FirstPipes
<1>6. Typed(t)
  <2>1. \A f \in {"src", "srcEnd", "pc", "turn", "layer", "out", "answer"} : f \in Flags => t[f] \in BOOLEAN
    BY <1>1 DEF Typed, Flags
  <2>2. /\ t.src \in Seq(Events) /\ t.out \in Seq(Events)
        /\ t.layer \in {"none", "adapter", "bridge"}
    BY <1>1, <1>2, <1>3, <1>4, <1>5 DEF Typed
  <2>3. Keeps(s, t, {"src", "srcEnd", "pc", "turn", "layer", "out", "answer"}) /\ Typed(s)
    BY <1>1
  <2> QED BY ONLY <2>1, <2>2, <2>3, KeptTypes
<1>7. Phase(t)
  BY <1>1, <1>2, <1>3, <1>4, <1>5, KeptFields DEF Phase
<1>8. Durable(t)
  BY <1>1, <1>2, <1>3, <1>4, <1>5, KeptFields DEF Durable
<1>9. Discarded(t)
  BY <1>1, <1>2, <1>3, <1>4, <1>5, KeptFields DEF Discarded
<1>10. Told(t)
  BY <1>1, <1>2, <1>3, <1>4, <1>5, KeptFields DEF Told, FailedBehind
<1>11. Legal(t)
  BY <1>1, <1>2, <1>3, <1>4, <1>5, KeptFields, SMTT(30) DEF Legal
<1> QED BY <1>6, <1>7, <1>8, <1>9, <1>10, <1>11 DEF Sound

\* The pump of a stream starts.
LEMMA PumpSound ==
    ASSUME NEW s, NEW t, Sound(s), s.pc = "preflight",
           s.stream,
           Keeps(s, t, {"src", "live", "pc", "layer", "out", "answer"}),
           t.src = <<"open">>,
           t.live = TRUE,
           t.pc = "turn",
           \/ t.layer = s.layer /\ t.out = s.out
           \/ s.layer = "none" /\ t.layer = "adapter" /\ t.out \in {<<>>, <<"open">>},
           t.answer = "stream"
    PROVE  Sound(t)
<1>1. Typed(s) /\ Phase(s) /\ Durable(s) /\ Discarded(s) /\ Told(s) /\ Legal(s)
  BY DEF Sound
<1>2. /\ s.src = <<>> /\ s.out = <<>> /\ s.got = <<>> /\ ~s.srcEnd /\ ~s.live /\ ~s.closed /\ ~s.eof
      /\ ~s.block /\ ~s.sawTerminal /\ s.layer # "adapter" /\ s.cleanup = "no" /\ (s.outEnd => s.cancelled)
      /\ s.terminal \in {"none", "cancel"} /\ s.turn = "held"
      /\ (s.cancelled => s.terminal # "none" /\ s.outEnd) /\ (s.cut => s.layer = "bridge")
  BY <1>1 DEF Phase, Told
<1>3. /\ t.out \in Seq(Events) /\ \A e \in {"final", "error", "body"} : ~Has(t.out, e)
      /\ ~Ended(t.out) /\ EndsOnce(t.out) /\ Nested(t.out) /\ Nested(<<>>) /\ Joint(<<>>, t.out)
  BY <1>2, FirstPipes, EmptyPipe, ZenonT(60)
<1>4. /\ \A e : ~Has(<<>>, e)
      /\ ~Ended(<<>>) /\ EndsOnce(<<>>)
  BY EmptyPipe
<1>5. /\ t.src \in Seq(Events) /\ EndsOnce(t.src) /\ Paired(t.src) /\ ~NextIs(t.src, "final")
      /\ ~Ended(t.src) /\ ~Has(t.src, "error") /\ ~Has(t.src, "body")
  BY FirstPipes
<1>6. Typed(t)
  <2>1. \A f \in {"src", "live", "pc", "layer", "out", "answer"} : f \in Flags => t[f] \in BOOLEAN
    BY <1>1 DEF Typed, Flags
  <2>2. /\ t.src \in Seq(Events) /\ t.out \in Seq(Events)
        /\ t.layer \in {"none", "adapter", "bridge"}
    BY <1>1, <1>2, <1>3, <1>4, <1>5 DEF Typed
  <2>3. Keeps(s, t, {"src", "live", "pc", "layer", "out", "answer"}) /\ Typed(s)
    BY <1>1
  <2> QED BY ONLY <2>1, <2>2, <2>3, KeptTypes
<1>7. Phase(t)
  BY <1>1, <1>2, <1>3, <1>4, <1>5, KeptFields DEF Phase
<1>8. Durable(t)
  BY <1>1, <1>2, <1>3, <1>4, <1>5, KeptFields DEF Durable
<1>9. Discarded(t)
  BY <1>1, <1>2, <1>3, <1>4, <1>5, KeptFields DEF Discarded
<1>10. Told(t)
  BY <1>1, <1>2, <1>3, <1>4, <1>5, KeptFields DEF Told, FailedBehind
<1>11. Legal(t)
  BY <1>1, <1>2, <1>3, <1>4, <1>5, KeptFields DEF Legal
<1> QED BY <1>6, <1>7, <1>8, <1>9, <1>10, <1>11 DEF Sound

\* The turn of a request that is not streamed starts.
LEMMA TurnStartsSound ==
    ASSUME NEW s, NEW t, Sound(s), s.pc = "preflight",
           ~s.stream,
           Keeps(s, t, {"pc"}),
           t.pc = "turn"
    PROVE  Sound(t)
<1>1. Typed(s) /\ Phase(s) /\ Durable(s) /\ Discarded(s) /\ Told(s) /\ Legal(s)
  BY DEF Sound
<1>2. Typed(t)
  <2>1. \A f \in {"pc"} : f \in Flags => t[f] \in BOOLEAN
    BY <1>1 DEF Typed, Flags
  <2> QED BY <1>1, <2>1, KeptTypes
<1>3. Phase(t)
  BY <1>1, KeptFields DEF Phase
<1>4. Durable(t)
  BY <1>1, KeptFields DEF Durable
<1>5. Discarded(t)
  BY <1>1, KeptFields DEF Discarded
<1>6. Told(t)
  BY <1>1, KeptFields DEF Told, FailedBehind
<1>7. Legal(t)
  BY <1>1, KeptFields DEF Legal
<1> QED BY <1>2, <1>3, <1>4, <1>5, <1>6, <1>7 DEF Sound


-----------------------------------------------------------------------------
(* The steps of the specification.                                         *)

\* The start of a request.
LEMMA FreshSound ==
    ASSUME NEW t, Keeps(Fresh, t, {"kind", "stream", "pc", "turn"}), t.stream \in BOOLEAN,
           \/ t.pc = "preflight" /\ t.turn = "held"
           \/ t.pc = "idle" /\ t.turn = "none"
    PROVE  Sound(t)
<1>1. /\ t.live = FALSE /\ t.src = <<>> /\ t.srcEnd = FALSE /\ t.closed = FALSE /\ t.aborted = FALSE
      /\ t.cleanup = "no" /\ t.layer = "none" /\ t.out = <<>> /\ t.outEnd = FALSE /\ t.block = FALSE
      /\ t.sawTerminal = FALSE /\ t.cancelled = FALSE /\ t.answer = "none" /\ t.got = <<>>
      /\ t.eof = FALSE /\ t.cut = FALSE /\ t.gone = FALSE /\ t.signal = FALSE /\ t.refused = FALSE
      /\ t.account = NoAccount /\ t.terminal = "none" /\ t.seeded = FALSE /\ DOMAIN t = DOMAIN Fresh
  BY KeptFields DEF Fresh
<1>2. \A f \in Flags : t[f] \in BOOLEAN
  BY <1>1 DEF Flags
<1>3. Typed(t)
  BY <1>1, <1>2, EmptyPipe DEF Typed
<1>4. Phase(t) /\ Durable(t) /\ Discarded(t)
  BY <1>1, EmptyPipe DEF Phase, Durable, Discarded
<1>5. Told(t)
  BY <1>1, EmptyPipe DEF Told
<1>6. Legal(t)
  BY <1>1, EmptyPipe DEF Legal
<1> QED BY <1>3, <1>4, <1>5, <1>6 DEF Sound

\* What an EXCEPT of the model leaves of the request.
LEMMA TurnSteps ==
    ASSUME Sound(q), TurnAnswers \/ TurnTerminal \/ TurnFails \/ CompleteFinal \/ Committed
                     \/ SeedAlias \/ Release \/ RpcFails
    PROVE  Sound(q')
<1>1. DOMAIN q = DOMAIN Fresh
  BY DEF Sound, Typed
<1> DEFINE to(p) == Keeps(q, q', {"pc"}) /\ q'.pc = p
<1>2. ASSUME TurnAnswers PROVE to("caught") \/ to("release") \/ to("commit")
  BY <1>1, <1>2 DEF TurnAnswers, Becomes, Keeps, Fresh
<1>3. ASSUME TurnTerminal PROVE to("release")
  BY <1>1, <1>3 DEF TurnTerminal, Becomes, Keeps, Fresh
<1>4. ASSUME TurnFails \/ RpcFails PROVE to("caught")
  BY <1>1, <1>4 DEF TurnFails, RpcFails, Becomes, Keeps, Fresh
<1>5. ASSUME TurnAnswers \/ TurnTerminal \/ TurnFails \/ RpcFails PROVE Sound(q')
  <2>1. /\ q.pc \notin {"idle", "preflight", "ended"}
        /\ TurnAnswers \/ TurnTerminal => q.pc = "turn"
    BY <1>5 DEF TurnAnswers, TurnTerminal, TurnFails, RpcFails
  <2>2. CASE to("caught")
    BY <2>1, <2>2, CaughtSound
  <2>3. CASE (TurnAnswers \/ TurnTerminal) /\ (to("release") \/ to("commit"))
    BY <2>1, <2>3, TurnSound
  <2> QED BY <1>2, <1>3, <1>4, <1>5, <2>2, <2>3
<1>6. CASE CompleteFinal
  <2>1. CASE q.turn = "held"
    <3>1. Keeps(q, q', {"pc", "turn"}) /\ q'.pc = "committed" /\ q'.turn = "committed"
      BY <1>1, <1>6, <2>1 DEF CompleteFinal, Becomes, Keeps, Fresh
    <3> QED BY <1>6, <2>1, <3>1, CommitSound DEF CompleteFinal
  <2>2. CASE q.turn # "held"
    <3>1. to("caught")
      BY <1>1, <1>6, <2>2 DEF CompleteFinal, Becomes, Keeps, Fresh
    <3> QED BY <1>6, <3>1, CaughtSound DEF CompleteFinal
  <2> QED BY <2>1, <2>2
<1>7. CASE Committed
  <2>1. to(IF q.kind = "responses" THEN "seed" ELSE "deliver")
    BY <1>1, <1>7 DEF Committed, Becomes, Keeps, Fresh
  <2> QED BY <1>7, <2>1, CommittedSound DEF Committed
<1>8. CASE SeedAlias
  <2>1. Keeps(q, q', {"pc", "seeded"}) /\ q'.pc = "seeded" /\ q'.seeded = TRUE
    BY <1>1, <1>8 DEF SeedAlias, Becomes, Keeps, Fresh
  <2> QED BY <1>8, <2>1, SeedSound DEF SeedAlias
<1>9. CASE Release
  <2>1. /\ Keeps(q, q', {"pc", "turn"}) /\ q'.pc = "released"
        /\ q'.turn = IF q.turn = "held" THEN "released" ELSE q.turn
    BY <1>1, <1>9 DEF Release, Becomes, Keeps, Fresh
  <2> QED BY <1>9, <2>1, ReleaseSound DEF Release
<1> QED BY <1>5, <1>6, <1>7, <1>8, <1>9

\* The steps beside the turn that leave the pipes alone, and the heart-beat.
LEMMA BesideSteps ==
    ASSUME Sound(q), GraceElapses \/ Cleanup \/ ClientLeaves \/ Heartbeat
                     \/ (\E a \in Accounts : SwitchAccount(a))
    PROVE  Sound(q')
<1>1. DOMAIN q = DOMAIN Fresh
  BY DEF Sound, Typed
<1>2. CASE GraceElapses
  <2>1. Keeps(q, q', {"layer", "answer"}) /\ q'.layer = "bridge"
    BY <1>1, <1>2 DEF GraceElapses, Becomes, Keeps, Fresh
  <2> QED BY <1>2, <2>1, GraceSound DEF GraceElapses
<1>3. CASE Cleanup
  <2>1. CASE q' = [Abandoned(q) EXCEPT !.cleanup = "done"]
    <3>1. /\ Keeps(q, q', {"turn", "cleanup", "refused"}) /\ q'.cleanup = "done" /\ q'.refused = q.refused
          /\ q'.turn = IF q.turn \in {"held", "committed"} THEN "abandoned" ELSE q.turn
      BY <1>1, <2>1 DEF Abandoned, Keeps, Fresh
    <3> QED BY <1>3, <3>1, CleanupSound DEF Cleanup
  <2>2. CASE q' = [q EXCEPT !.cleanup = "done", !.refused = TRUE]
    <3>1. /\ Keeps(q, q', {"turn", "cleanup", "refused"}) /\ q'.cleanup = "done" /\ q'.refused = TRUE
          /\ q'.turn = q.turn
      BY <1>1, <2>2 DEF Keeps, Fresh
    <3> QED BY <1>3, <3>1, CleanupSound DEF Cleanup
  <2> QED BY <1>3, <2>1, <2>2 DEF Cleanup, Becomes
<1>4. CASE ClientLeaves
  <2>1. Keeps(q, q', {"gone"}) /\ q'.gone = TRUE
    BY <1>1, <1>4 DEF ClientLeaves, Becomes, Keeps, Fresh
  <2> QED BY <2>1, GoneSound
<1>5. CASE Heartbeat
  <2>1. CASE q.closed
    <3>1. Keeps(q, q', {"beats"})
      BY <1>1, <1>5, <2>1 DEF Heartbeat, Becomes, Emit, Keeps, Fresh
    <3> QED BY <3>1, BeatsSound
  <2>2. CASE ~q.closed
    <3>1. q.src \in Seq(Events) /\ "beat" \in Events
      BY DEF Sound, Typed, Events
    <3>2. q.src \o <<"beat">> = Append(q.src, "beat")
      BY <3>1, Appended
    <3>3. Keeps(q, q', {"src", "beats"}) /\ q'.src = q.src \o <<"beat">>
      BY <1>1, <1>5, <2>2 DEF Heartbeat, Becomes, Emit, Keeps, Fresh
    <3> QED BY <1>5, <2>2, <3>2, <3>3, BeatSound DEF Heartbeat
  <2> QED BY <2>1, <2>2
<1>6. ASSUME NEW a \in Accounts, SwitchAccount(a) PROVE Sound(q')
  <2>1. Keeps(q, q', {"account"}) /\ q'.account \in Accounts \cup {NoAccount}
    BY <1>1, <1>6 DEF SwitchAccount, SetAccountId, Becomes, Keeps, Fresh, Sound, Typed
  <2> QED BY <2>1, AccountSound
<1> QED BY <1>2, <1>3, <1>4, <1>5, <1>6

\* The concatenations of the model, event by event.
LEMMA Concatenated ==
    ASSUME NEW w \in Seq(Events), NEW x \in Events, NEW y \in Events, NEW z \in Events
    PROVE  /\ w \o <<x>> = Append(w, x)
           /\ w \o <<x, y>> = Append(Append(w, x), y)
           /\ (w \o <<x>>) \o <<z>> = Append(Append(w, x), z)
           /\ (w \o <<x, y>>) \o <<z>> = Append(Append(Append(w, x), y), z)
<1>1. w \o <<x>> = Append(w, x) /\ w \o <<x, y>> = Append(Append(w, x), y)
  OBVIOUS
<1>2. Append(w, x) \in Seq(Events) /\ Append(Append(w, x), y) \in Seq(Events)
  OBVIOUS
<1>3. \A v \in Seq(Events) : v \o <<z>> = Append(v, z)
  OBVIOUS
<1> QED BY <1>1, <1>2, <1>3

\* The handler writes the answer.
LEMMA DeliverStep ==
    ASSUME Sound(q), Deliver
    PROVE  Sound(q')
<1> DEFINE x == IF q.pc = "released" THEN "note" ELSE "body"
<1>1. /\ DOMAIN q = DOMAIN Fresh /\ q.src \in Seq(Events) /\ x \in Text /\ x \in Events
      /\ "final" \in Events /\ "done" \in Events
  BY DEF Sound, Typed, Text, Events
<1>2. /\ q.pc \in {"deliver", "seeded", "released"} /\ (q.stream => q.live)
      /\ x = "body" => q.turn \in {"committed", "abandoned"} /\ (q.kind = "responses" => q.seeded)
  BY DEF Deliver, Sound, Phase, Durable
<1>3. q' = IF q.stream THEN Finally(Emit(q, <<x, "final">>)) ELSE Buffered(q, TRUE)
  BY DEF Deliver, Becomes
<1> HIDE DEF x
<1>4. CASE ~q.stream
  <2>1. /\ Keeps(q, q', {"answer", "pc", "terminal", "turn", "refused"})
        /\ q'.pc = "ended" /\ q'.answer = "plain" /\ q'.turn = q.turn /\ q'.refused = q.refused
        /\ q'.terminal = IF q.terminal = "none" THEN "complete" ELSE q.terminal
    BY <1>1, <1>3, <1>4 DEF Buffered, Finish, Keeps, Fresh
  <2>2. q'.terminal \in Terminals /\ q'.refused \in BOOLEAN
    BY <2>1 DEF Sound, Typed, Terminals, Flags
  <2> QED BY <1>4, <2>1, <2>2, BufferedSound
<1>5. CASE q.stream /\ q.closed
  <2>1. q.srcEnd = TRUE /\ q.closed = TRUE
    BY <1>2, <1>5 DEF Sound, Phase, Typed, Flags
  <2>2. Keeps(q, q', {"pc"}) /\ q'.pc = "ended"
    BY <1>1, <1>3, <1>5, <2>1, ZenonT(60) DEF Finally, Emit, Keeps, Fresh
  <2> QED BY <1>2, <1>5, <2>2, ClosedSound
<1>6. CASE q.stream /\ ~q.closed
  <2>1. /\ Keeps(q, q', {"src", "srcEnd", "closed", "pc"}) /\ q'.pc = "ended"
        /\ q'.srcEnd = TRUE /\ q'.closed = TRUE /\ q'.src = (q.src \o <<x, "final">>) \o <<"done">>
    BY <1>1, <1>3, <1>6 DEF Finally, Emit, Keeps, Fresh
  <2>2. q'.src = Append(Append(Append(q.src, x), "final"), "done")
    BY <1>1, <2>1, Concatenated
  <2> QED BY <1>1, <1>2, <1>6, <2>1, <2>2, DeliverSound
<1> QED BY <1>4, <1>5, <1>6

\* The rest of the catch block, once the turn has been abandoned or the
\* abandon has failed.
LEMMA ReportsSound ==
    ASSUME NEW s, Sound(s), s.pc = "caught", s.turn \notin {"held", "committed"} \/ s.refused
    PROVE  Sound(Reports(s))
<1> DEFINE t == Reports(s)
           e == Finish(s, IF s.signal \/ s.aborted THEN "cancel" ELSE "error")
<1>1. /\ DOMAIN s = DOMAIN Fresh /\ s.src \in Seq(Events) /\ "error" \in Events /\ "done" \in Events
      /\ s.stream => s.live
  BY DEF Sound, Typed, Events, Phase
<1>2. CASE ~s.stream
  <2>1. /\ Keeps(s, t, {"answer", "pc", "terminal", "turn", "refused"})
        /\ t.pc = "ended" /\ t.answer = "plain" /\ t.turn = s.turn /\ t.refused = s.refused
        /\ t.terminal = IF s.terminal = "none" THEN "error" ELSE s.terminal
    BY <1>1, <1>2 DEF Reports, Buffered, Finish, Keeps, Fresh
  <2>2. t.terminal \in Terminals /\ t.refused \in BOOLEAN
    BY <2>1 DEF Sound, Typed, Terminals, Flags
  <2> HIDE DEF t
  <2>3. Sound(t)
    BY <1>2, <2>1, <2>2, BufferedSound
  <2> QED BY <2>3 DEF t
<1>3. CASE s.stream /\ s.closed
  <2>1. s.srcEnd = TRUE /\ s.closed = TRUE /\ s.terminal # "none"
    BY <1>1, <1>3 DEF Sound, Phase, Typed, Flags, Told
  <2>2. t = [s EXCEPT !.srcEnd = TRUE, !.closed = TRUE, !.pc = "ended"]
    BY <1>3, <2>1 DEF Reports, Finish, Finally, Emit
  <2>3. Keeps(s, t, {"pc"}) /\ t.pc = "ended"
    BY <1>1, <2>1, <2>2 DEF Keeps, Fresh
  <2> HIDE DEF t
  <2>4. Sound(t)
    BY <1>1, <1>3, <2>3, ClosedSound
  <2> QED BY <2>4 DEF t
<1>4. CASE s.stream /\ ~s.closed
  <2>1. /\ Keeps(s, e, {"terminal"}) /\ ~e.closed
        /\ e.terminal = IF s.terminal # "none" THEN s.terminal
                        ELSE IF s.signal \/ s.aborted THEN "cancel" ELSE "error"
    BY <1>1, <1>4 DEF Finish, Keeps, Fresh
  <2>2. t = Finally(Emit(e, <<"error">>))
    BY <1>4 DEF Reports
  <2> HIDE DEF e, t
  <2>3. /\ Keeps(e, t, {"src", "srcEnd", "closed", "pc"}) /\ t.pc = "ended"
        /\ t.srcEnd = TRUE /\ t.closed = TRUE /\ t.src = (e.src \o <<"error">>) \o <<"done">>
    BY <2>1, <2>2 DEF Finally, Emit, Keeps, Fresh
  <2>4. e.src = s.src /\ t.terminal = e.terminal
    BY <2>1, <2>3, KeptFields
  <2>5. t.src = Append(Append(s.src, "error"), "done")
    BY <1>1, <2>3, <2>4, Concatenated
  <2>6. Keeps(s, t, {"src", "srcEnd", "closed", "pc", "terminal"})
    BY <2>1, <2>3 DEF Keeps
  <2>7. Sound(t)
    BY <1>1, <1>4, <2>1, <2>3, <2>4, <2>5, <2>6, CatchSound
  <2> QED BY <2>7 DEF t
<1> QED BY <1>2, <1>3, <1>4

\* The catch block.
LEMMA CatchStep ==
    ASSUME Sound(q), Catch
    PROVE  Sound(q')
<1>1. DOMAIN q = DOMAIN Fresh /\ q.pc = "caught"
  BY DEF Sound, Typed, Catch
<1>2. CASE q' = Reports(Abandoned(q))
  <2> DEFINE t == Abandoned(q)
  <2>1. /\ Keeps(q, t, {"turn"})
        /\ t.turn = IF q.turn \in {"held", "committed"} THEN "abandoned" ELSE q.turn
    BY <1>1 DEF Abandoned, Keeps, Fresh
  <2>2. q' = Reports(t)
    BY <1>2
  <2> HIDE DEF t
  <2>3. Sound(t) /\ t.pc = "caught" /\ t.turn \notin {"held", "committed"}
    BY <1>1, <2>1, AbandonedSound, KeptFields
  <2> QED BY <2>2, <2>3, ReportsSound
<1>3. CASE q' = Reports([q EXCEPT !.refused = TRUE])
  <2> DEFINE t == [q EXCEPT !.refused = TRUE]
  <2>1. Keeps(q, t, {"refused"}) /\ t.refused = TRUE
    BY <1>1 DEF Keeps, Fresh
  <2>2. q' = Reports(t)
    BY <1>3
  <2> HIDE DEF t
  <2>3. Sound(t)
    BY <2>1, UnabandonedSound
  <2>4. t.pc = "caught"
    BY <1>1, <2>1, KeptFields
  <2> QED BY <2>1, <2>2, <2>3, <2>4, ReportsSound
<1> QED BY <1>2, <1>3 DEF Catch, Becomes

\* The adapter takes an event of its source.
LEMMA ConsumeSound ==
    ASSUME NEW s, Sound(s), s.layer = "adapter", ~s.cancelled, ~s.outEnd, s.src # <<>>
    PROVE  Sound(Consume([s EXCEPT !.src = Tail(@)], Head(s.src)))
<1> DEFINE r == [s EXCEPT !.src = Tail(@)]
           h == Head(s.src)
           t == Consume(r, h)
<1>1. /\ DOMAIN s = DOMAIN Fresh /\ s.src \in Seq(Events) /\ s.out \in Seq(Events)
      /\ {"start", "stop", "final", "beat", "error", "body", "note"} \subseteq Events
  BY DEF Sound, Typed, Events
<1>2. Keeps(s, r, {"src"}) /\ r.src = Tail(s.src) /\ h \in Events
  BY <1>1 DEF Keeps, Fresh
<1>3. r.out = s.out /\ r.block = s.block /\ r.terminal = s.terminal /\ DOMAIN r = DOMAIN Fresh
  BY <1>2, KeptFields
<1>4. (h = "final" <=> s.block) /\ (h = "error" => s.terminal # "none")
  <2>1. (h = "final" => NextIs(s.src, "final")) /\ (NextIs(s.src, "final") => h = "final")
    BY DEF NextIs
  <2>2. h = "error" => Has(s.src, "error")
    BY <1>1, Taken
  <2> QED BY <2>1, <2>2 DEF Sound, Legal, Told
<1>5. h \notin Text \cup {"beat", "final", "error"} => t = r
  BY DEF Consume, Text
<1>6. h = "beat" => t = [r EXCEPT !.out = Append(@, "beat")]
  BY DEF Consume
<1>7. h \in Text => t = [r EXCEPT !.out = @ \o <<"start", h>>, !.block = TRUE]
  <2>1. ASSUME h \in Text PROVE ~s.block /\ h # "beat" /\ h \in {"body", "note"}
    BY <1>4, <2>1 DEF Text
  <2> HIDE DEF r, h
  <2> QED BY <1>3, <2>1 DEF Consume
<1>8. h = "final" => t = [r EXCEPT !.out = @ \o <<"stop", "final">>, !.block = FALSE, !.sawTerminal = TRUE]
  <2>1. ASSUME h = "final" PROVE s.block
    BY <1>4, <2>1
  <2> HIDE DEF r, h
  <2> QED BY <1>3, <2>1 DEF Consume
<1>9. h = "error" => t = [r EXCEPT !.out = Append(@, "error"), !.outEnd = TRUE]
  <2> HIDE DEF r, h
  <2> QED BY <1>3, <1>4 DEF Consume, Finish
<1> HIDE DEF r, t
<1>10. CASE h \notin Text \cup {"beat", "final", "error"}
  <2>1. Keeps(s, t, {"src"}) /\ t.src = Tail(s.src)
    BY <1>2, <1>5, <1>10
  <2>2. Sound(t)
    BY <1>10, <2>1, AdapterSkipsSound
  <2> QED BY <2>2 DEF t, r
<1>11. CASE h = "beat"
  <2>1. Keeps(s, t, {"src", "out"}) /\ t.src = Tail(s.src) /\ t.out = Append(s.out, "beat")
    BY <1>2, <1>3, <1>6, <1>11, ZenonT(60) DEF Keeps, Fresh
  <2>2. Sound(t)
    BY <1>11, <2>1, AdapterBeatsSound
  <2> QED BY <2>2 DEF t, r
<1>12. CASE h \in Text
  <2> DEFINE u == Append(Append(s.out, "start"), h)
  <2>0. s.out \o <<"start", h>> = u
    BY <1>1, <1>2
  <2>1. t = [r EXCEPT !.out = u, !.block = TRUE]
    BY <1>3, <1>7, <1>12, <2>0
  <2> HIDE DEF u
  <2>2. Keeps(s, t, {"src", "out", "block"}) /\ t.src = Tail(s.src) /\ t.block = TRUE /\ t.out = u
    BY <1>2, <1>3, <2>1 DEF Keeps, Fresh
  <2>3. Sound(t)
    BY <1>12, <2>2, AdapterTextSound DEF u
  <2> QED BY <2>3 DEF t, r
<1>13. CASE h = "final"
  <2> DEFINE u == Append(Append(s.out, "stop"), "final")
  <2>0. s.out \o <<"stop", "final">> = u
    BY <1>1
  <2>1. t = [r EXCEPT !.out = u, !.block = FALSE, !.sawTerminal = TRUE]
    BY <1>3, <1>8, <1>13, <2>0
  <2> HIDE DEF u
  <2>2. /\ Keeps(s, t, {"src", "out", "block", "sawTerminal"}) /\ t.src = Tail(s.src)
        /\ t.block = FALSE /\ t.sawTerminal = TRUE /\ t.out = u
    BY <1>2, <1>3, <2>1 DEF Keeps, Fresh
  <2>3. Sound(t)
    BY <1>13, <2>2, AdapterFinalSound DEF u
  <2> QED BY <2>3 DEF t, r
<1>14. CASE h = "error"
  <2> DEFINE u == Append(s.out, "error")
  <2>1. t = [r EXCEPT !.out = u, !.outEnd = TRUE]
    BY <1>3, <1>9, <1>14
  <2> HIDE DEF u
  <2>2. /\ Keeps(s, t, {"src", "out", "outEnd"}) /\ t.src = Tail(s.src)
        /\ t.out = u /\ t.outEnd = TRUE
    BY <1>2, <1>3, <2>1 DEF Keeps, Fresh
  <2>3. Sound(t)
    BY <1>4, <1>14, <2>2, AdapterErrorSound DEF u
  <2> QED BY <2>3 DEF t, r
<1> QED BY <1>10, <1>11, <1>12, <1>13, <1>14

\* Adapter, bridge and client read.
LEMMA PipeSteps ==
    ASSUME Sound(q), Pipes
    PROVE  Sound(q')
<1>1. DOMAIN q = DOMAIN Fresh /\ q.layer \in {"none", "adapter", "bridge"}
  BY DEF Sound, Typed
<1>2. CASE AdapterReads
  <2>0. q.layer = "adapter" /\ ~q.cancelled /\ ~q.outEnd
    BY <1>2 DEF AdapterReads
  <2>1. CASE q.src # <<>>
    <3>1. q' = Consume([q EXCEPT !.src = Tail(@)], Head(q.src))
      BY <1>2, <2>1 DEF AdapterReads, Becomes
    <3> QED BY <2>0, <2>1, <3>1, ConsumeSound
  <2>2. CASE q.src = <<>>
    <3>1. q.srcEnd /\ q' = AdapterEnds(q)
      BY <1>2, <2>2 DEF AdapterReads, Becomes
    <3>2. CASE q.sawTerminal
      <4>1. Keeps(q, q', {"outEnd"}) /\ q'.outEnd = TRUE
        BY <1>1, <3>1, <3>2 DEF AdapterEnds, Keeps, Fresh
      <4> QED BY <2>0, <3>2, <4>1, AdapterEndsSound
    <3>3. CASE ~q.sawTerminal
      <4>1. q.terminal # "none"
        BY <2>0, <2>2, <3>1, <3>3, EmptyPipe DEF Sound, Told, Phase
      <4>2. q' = [q EXCEPT !.out = Append(@, "error"), !.outEnd = TRUE]
        BY <3>1, <3>3, <4>1 DEF AdapterEnds, Consume, Finish
      <4>3. Keeps(q, q', {"out", "outEnd"}) /\ q'.out = Append(q.out, "error") /\ q'.outEnd = TRUE
        BY <1>1, <4>2 DEF Keeps, Fresh
      <4> QED BY <2>0, <2>2, <3>1, <3>3, <4>1, <4>3, AdapterFailsSound
    <3> QED BY <3>2, <3>3
  <2> QED BY <2>1, <2>2
<1>3. CASE BridgeReads
  <2>1. CASE q.src # <<>>
    <3>1. /\ Keeps(q, q', {"src", "out"}) /\ q'.src = Tail(q.src) /\ q'.out = Append(q.out, Head(q.src))
      BY <1>1, <1>3, <2>1 DEF BridgeReads, Becomes, Keeps, Fresh
    <3> QED BY <1>3, <2>1, <3>1, BridgePassesSound DEF BridgeReads
  <2>2. CASE q.src = <<>>
    <3>1. q.srcEnd /\ Keeps(q, q', {"outEnd"}) /\ q'.outEnd = TRUE
      BY <1>1, <1>3, <2>2 DEF BridgeReads, Becomes, Keeps, Fresh
    <3> QED BY <1>3, <2>2, <3>1, BridgeEndsSound DEF BridgeReads
  <2> QED BY <2>1, <2>2
<1>4. CASE Pull
  <2>0. q.answer = "stream" /\ ~q.cut /\ ~q.eof
    BY <1>4 DEF Pull
  <2>1. CASE q.layer = "none" /\ q.src # <<>>
    <3>1. Keeps(q, q', {"src", "got"}) /\ q'.src = Tail(q.src) /\ q'.got = Append(q.got, Head(q.src))
      BY <1>1, <1>4, <2>1 DEF Pull, Becomes, Keeps, Fresh
    <3> QED BY <2>0, <2>1, <3>1, PullSourceSound
  <2>2. CASE q.layer # "none" /\ q.out # <<>>
    <3>1. Keeps(q, q', {"out", "got"}) /\ q'.out = Tail(q.out) /\ q'.got = Append(q.got, Head(q.out))
      BY <1>1, <1>4, <2>2 DEF Pull, Becomes, Keeps, Fresh
    <3> QED BY <2>0, <2>2, <3>1, PullLayerSound
  <2>3. CASE IF q.layer = "none" THEN q.src = <<>> ELSE q.out = <<>>
    <3>1. /\ IF q.layer = "none" THEN q.src = <<>> /\ q.srcEnd ELSE q.out = <<>> /\ q.outEnd
          /\ q' = [Finish(q, "complete") EXCEPT !.eof = TRUE]
      BY <1>4, <2>3 DEF Pull, Becomes
    <3>2. /\ Keeps(q, q', {"terminal", "eof"}) /\ q'.eof = TRUE
          /\ q'.terminal = IF q.terminal = "none" THEN "complete" ELSE q.terminal
      BY <1>1, <3>1 DEF Finish, Keeps, Fresh
    <3> QED BY <2>0, <3>1, <3>2, PullEndSound
  <2> QED BY <2>1, <2>2, <2>3
<1> QED BY <1>2, <1>3, <1>4 DEF Pipes

\* The tracker learns of the cancellation.
LEMMA FinishCancelled ==
    ASSUME NEW s, Sound(s), s.gone
    PROVE  /\ Sound(Finish(s, "cancel")) /\ Keeps(s, Finish(s, "cancel"), {"terminal"})
           /\ Finish(s, "cancel").terminal # "none"
<1> DEFINE t == Finish(s, "cancel")
<1>1. /\ Keeps(s, t, {"terminal"})
      /\ t.terminal = IF s.terminal = "none" THEN "cancel" ELSE s.terminal
  BY DEF Sound, Typed, Finish, Keeps, Fresh
<1> HIDE DEF t
<1>2. Sound(t)
  BY <1>1, FinishCancelSound
<1> QED BY <1>1, <1>2 DEF t

\* The cancellation of a source whose layer, if there is one, has been cancelled.
LEMMA SourceCancelled ==
    ASSUME NEW s, Sound(s), s.gone, s.terminal # "none", s.layer # "none" => s.cancelled
    PROVE  /\ Sound(CancelSource(s))
           /\ Keeps(s, CancelSource(s), {"closed", "src", "srcEnd", "aborted", "cleanup"})
           /\ s.live => CancelSource(s).src = <<>> /\ CancelSource(s).srcEnd
<1>0. DOMAIN s = DOMAIN Fresh
  BY DEF Sound, Typed
<1> DEFINE t == CancelSource(s)
<1>1. CASE ~s.live \/ (s.srcEnd /\ s.src = <<>>)
  <2>1. t = s
    BY <1>1 DEF CancelSource
  <2> QED BY <1>0, <1>1, <2>1 DEF Keeps
<1>2. CASE ~(~s.live \/ (s.srcEnd /\ s.src = <<>>))
  <2>1. t = AbortAndRelease([s EXCEPT !.closed = TRUE, !.src = <<>>, !.srcEnd = TRUE])
    BY <1>2 DEF CancelSource, Finish
  <2>2. /\ Keeps(s, t, {"closed", "src", "srcEnd", "aborted", "cleanup"})
        /\ t.closed = TRUE /\ t.src = <<>> /\ t.srcEnd = TRUE /\ t.aborted = TRUE
        /\ t.cleanup = IF s.cleanup = "no" THEN "due" ELSE s.cleanup
    BY <1>0, <2>1, ZenonT(60) DEF AbortAndRelease, Keeps, Fresh
  <2> HIDE DEF t
  <2>3. Sound(t)
    BY <1>2, <2>2, CancelSourceSound
  <2> QED BY <2>2, <2>3 DEF t
<1> QED BY <1>1, <1>2

\* A layer and its source.
LEMMA LayerCancelled ==
    ASSUME NEW s, Sound(s), s.gone, s.terminal # "none", s.layer # "none",
           s.layer = "bridge" => s.cut
    PROVE  LET t == [CancelSource(s) EXCEPT !.cancelled = TRUE, !.outEnd = TRUE]
           IN  /\ Sound(t)
               /\ Keeps(s, t, {"cancelled", "outEnd", "closed", "src", "srcEnd", "aborted", "cleanup"})
<1> DEFINE u == [s EXCEPT !.cancelled = TRUE, !.outEnd = TRUE]
           t == [CancelSource(s) EXCEPT !.cancelled = TRUE, !.outEnd = TRUE]
<1>0. DOMAIN s = DOMAIN Fresh
  BY DEF Sound, Typed
<1>1. Keeps(s, u, {"cancelled", "outEnd"}) /\ u.cancelled = TRUE /\ u.outEnd = TRUE
  BY <1>0 DEF Keeps, Fresh
<1>2. DOMAIN u = DOMAIN Fresh /\ u.gone /\ u.terminal # "none" /\ u.live = s.live
  <2> HIDE DEF u
  <2> QED BY <1>1, KeptFields
<1>3. Sound(u)
  <2> HIDE DEF u
  <2> QED BY <1>1, LayerCancelSound
<1>4. CASE ~s.live \/ (s.srcEnd /\ s.src = <<>>)
  <2>1. t = u
    BY <1>4 DEF CancelSource
  <2>2. Keeps(s, u, {"cancelled", "outEnd", "closed", "src", "srcEnd", "aborted", "cleanup"})
    BY <1>1 DEF Keeps
  <2> QED BY <1>3, <2>1, <2>2
<1>5. CASE ~(~s.live \/ (s.srcEnd /\ s.src = <<>>))
  <2> DEFINE v == CancelSource(s)
  <2>1. v = AbortAndRelease([s EXCEPT !.closed = TRUE, !.src = <<>>, !.srcEnd = TRUE])
    BY <1>5 DEF CancelSource, Finish
  <2>2. /\ Keeps(s, v, {"closed", "src", "srcEnd", "aborted", "cleanup"})
        /\ v.closed = TRUE /\ v.src = <<>> /\ v.srcEnd = TRUE /\ v.aborted = TRUE
        /\ v.cleanup = IF s.cleanup = "no" THEN "due" ELSE s.cleanup
    BY <1>0, <2>1, ZenonT(60) DEF AbortAndRelease, Keeps, Fresh
  <2> HIDE DEF v
  <2>3. t = [v EXCEPT !.cancelled = TRUE, !.outEnd = TRUE] /\ DOMAIN v = DOMAIN Fresh
    BY <2>2, KeptFields DEF v
  <2>4. Keeps(v, t, {"cancelled", "outEnd"}) /\ t.cancelled = TRUE /\ t.outEnd = TRUE
    BY <2>3 DEF Keeps, Fresh
  <2> HIDE DEF u, t
  <2>5. t.closed = TRUE /\ t.src = <<>> /\ t.srcEnd = TRUE /\ t.aborted = TRUE
    BY <2>2, <2>4, KeptFields
  <2>6. t.cleanup = IF u.cleanup = "no" THEN "due" ELSE u.cleanup
    <3>1. t.cleanup = v.cleanup /\ u.cleanup = s.cleanup
      BY <1>1, <2>4, KeptFields
    <3> QED BY <2>2, <3>1
  <2>7. Keeps(u, t, {"closed", "src", "srcEnd", "aborted", "cleanup"})
    BY <1>1, <2>2, <2>4 DEF Keeps
  <2>8. Sound(t)
    BY <1>1, <1>2, <1>3, <1>5, <2>5, <2>6, <2>7, CancelSourceSound
  <2>9. Keeps(s, t, {"cancelled", "outEnd", "closed", "src", "srcEnd", "aborted", "cleanup"})
    BY <1>1, <2>7 DEF Keeps
  <2> QED BY <2>8, <2>9 DEF t
<1> QED BY <1>4, <1>5

\* The adapter's listener.
LEMMA AdapterAborted ==
    ASSUME NEW s, Sound(s), s.gone
    PROVE  /\ Sound(AdapterAborts(s))
           /\ Keeps(s, AdapterAborts(s), {"terminal", "cancelled", "outEnd", "closed", "src", "srcEnd",
                                          "aborted", "cleanup"})
<1>1. CASE ~(s.layer = "adapter" /\ ~s.cancelled /\ ~s.outEnd)
  <2>1. AdapterAborts(s) = s /\ DOMAIN s = DOMAIN Fresh
    BY <1>1 DEF AdapterAborts, Sound, Typed
  <2> QED BY <2>1 DEF Keeps
<1>2. CASE s.layer = "adapter" /\ ~s.cancelled /\ ~s.outEnd
  <2> DEFINE f == Finish(s, "cancel")
             t == [CancelSource(f) EXCEPT !.cancelled = TRUE, !.outEnd = TRUE]
  <2>1. Sound(f) /\ Keeps(s, f, {"terminal"}) /\ f.terminal # "none"
    BY FinishCancelled
  <2>2. AdapterAborts(s) = t
    BY <1>2 DEF AdapterAborts
  <2> HIDE DEF f
  <2>3. f.gone /\ f.layer = "adapter"
    BY <1>2, <2>1, KeptFields
  <2>4. Sound(t) /\ Keeps(f, t, {"cancelled", "outEnd", "closed", "src", "srcEnd", "aborted", "cleanup"})
    BY <2>1, <2>3, LayerCancelled
  <2> HIDE DEF t
  <2>5. Keeps(s, t, {"terminal", "cancelled", "outEnd", "closed", "src", "srcEnd", "aborted", "cleanup"})
    BY <2>1, <2>4 DEF Keeps
  <2> QED BY <2>2, <2>4, <2>5
<1> QED BY <1>1, <1>2

\* abortAndRelease.
LEMMA Released ==
    ASSUME NEW s, Sound(s), s.gone, s.live
    PROVE  Sound(AbortAndRelease(s)) /\ AbortAndRelease(s).gone
<1> DEFINE t == AbortAndRelease(s)
<1>1. /\ Keeps(s, t, {"aborted", "cleanup"}) /\ t.aborted = TRUE
      /\ t.cleanup = IF s.cleanup = "no" THEN "due" ELSE s.cleanup
  BY DEF Sound, Typed, AbortAndRelease, Keeps, Fresh
<1> HIDE DEF t
<1>2. Sound(t)
  BY <1>1, AbortSound
<1>3. t.gone
  BY <1>1, KeptFields
<1> QED BY <1>2, <1>3 DEF t

\* request.signal fires.
LEMMA SignalStep ==
    ASSUME Sound(q), SignalFires
    PROVE  Sound(q')
<1> DEFINE s == [q EXCEPT !.signal = TRUE]
           t == AdapterAborts(s)
<1>1. q.gone /\ q' = IF q.live /\ q.pc # "ended" THEN AbortAndRelease(t) ELSE t
  BY DEF SignalFires, Becomes
<1>2. Keeps(q, s, {"signal"}) /\ s.signal = TRUE
  BY DEF Sound, Typed, Keeps, Fresh
<1> HIDE DEF s
<1>3. Sound(s)
  BY <1>1, <1>2, SignalSound
<1>4. s.gone /\ s.live = q.live
  BY <1>1, <1>2, KeptFields
<1>5. Sound(t) /\ Keeps(s, t, {"terminal", "cancelled", "outEnd", "closed", "src", "srcEnd", "aborted", "cleanup"})
  BY <1>3, <1>4, AdapterAborted
<1> HIDE DEF t
<1>6. t.gone /\ t.live = q.live
  BY <1>4, <1>5, KeptFields
<1> QED BY <1>1, <1>5, <1>6, Released

\* The client's stream is cancelled.
LEMMA CancelStep ==
    ASSUME Sound(q), CancelArrives
    PROVE  Sound(q')
<1> DEFINE f == Finish(q, "cancel")
           c == [f EXCEPT !.cut = TRUE]
<1>1. q.gone /\ q.answer = "stream" /\ q' = CancelLayer(c)
  BY DEF CancelArrives, Becomes
<1>2. Sound(f) /\ Keeps(q, f, {"terminal"}) /\ f.terminal # "none"
  BY <1>1, FinishCancelled
<1>3. DOMAIN f = DOMAIN Fresh /\ f.layer \in {"none", "adapter", "bridge"}
  BY <1>2 DEF Sound, Typed
<1> HIDE DEF f
<1>4. Keeps(f, c, {"cut"}) /\ c.cut = TRUE
  BY <1>3 DEF Keeps, Fresh
<1>5. f.gone /\ f.answer = "stream"
  BY <1>1, <1>2, KeptFields
<1>6. /\ c.gone /\ c.layer = f.layer /\ c.terminal # "none" /\ c.live = f.live /\ c.src = f.src
      /\ c.srcEnd = f.srcEnd /\ c.terminal = f.terminal
  BY <1>2, <1>4, <1>5, KeptFields
<1>7. CASE f.layer = "none"
  <2> DEFINE t == CancelSource(f)
  <2>1. /\ Sound(t) /\ Keeps(f, t, {"closed", "src", "srcEnd", "aborted", "cleanup"})
        /\ f.live => t.src = <<>> /\ t.srcEnd
    BY <1>2, <1>5, <1>7, SourceCancelled
  <2>2. q' = [t EXCEPT !.cut = TRUE]
    <3>1. q' = CancelSource(c)
      BY <1>1, <1>6, <1>7 DEF CancelLayer
    <3>2. CASE ~f.live \/ (f.srcEnd /\ f.src = <<>>)
      BY <1>6, <3>1, <3>2 DEF CancelSource
    <3>3. CASE ~(~f.live \/ (f.srcEnd /\ f.src = <<>>))
      <4>1. /\ t = AbortAndRelease([f EXCEPT !.closed = TRUE, !.src = <<>>, !.srcEnd = TRUE])
            /\ q' = AbortAndRelease([c EXCEPT !.closed = TRUE, !.src = <<>>, !.srcEnd = TRUE])
        BY <1>2, <1>6, <3>1, <3>3 DEF CancelSource, Finish
      <4> QED BY <1>3, <4>1 DEF AbortAndRelease, Fresh
    <3> QED BY <3>2, <3>3
  <2> HIDE DEF t
  <2>3. DOMAIN t = DOMAIN Fresh /\ t.gone /\ t.answer = "stream" /\ t.live = f.live
    BY <1>5, <2>1, KeptFields
  <2>4. Keeps(t, q', {"cut"}) /\ q'.cut = TRUE
    BY <2>2, <2>3 DEF Keeps, Fresh
  <2> QED BY <2>1, <2>3, <2>4, CutSound
<1>8. CASE f.layer # "none"
  <2> HIDE DEF c
  <2>1. Sound(c)
    BY <1>2, <1>4, <1>5, <1>8, CutSound
  <2>2. q' = c \/ q' = [CancelSource(c) EXCEPT !.cancelled = TRUE, !.outEnd = TRUE]
    <3>1. c.pc = "preflight" => CancelSource(c) = c
      BY <2>1 DEF CancelSource, Sound, Phase
    <3> QED BY <1>1, <1>3, <1>6, <1>8, <3>1 DEF CancelLayer
  <2>3. CASE q' = c
    BY <2>1, <2>3
  <2>4. CASE q' = [CancelSource(c) EXCEPT !.cancelled = TRUE, !.outEnd = TRUE]
    BY <1>4, <1>6, <1>8, <2>1, <2>4, LayerCancelled
  <2> QED BY <2>2, <2>3, <2>4
<1> QED BY <1>7, <1>8

\* The layers around a new stream.
LEMMA OpenedLayers ==
    ASSUME NEW s, DOMAIN s = DOMAIN Fresh, s.kind = "messages" => s.layer = "none"
    PROVE  /\ Keeps(s, Opened(s), {"layer", "out", "answer"}) /\ Opened(s).answer = "stream"
           /\ \/ Opened(s).layer = s.layer /\ Opened(s).out = s.out
              \/ s.layer = "none" /\ Opened(s).layer = "adapter" /\ Opened(s).out \in {<<>>, <<"open">>}
<1> DEFINE o == IF s.signal THEN <<>> ELSE <<"open">>
<1>1. o \in {<<>>, <<"open">>}
  OBVIOUS
<1>2. CASE s.kind = "messages"
  <2>1. Opened(s) = [s EXCEPT !.layer = "adapter", !.out = o, !.answer = "stream"]
    BY <1>2 DEF Opened
  <2> HIDE DEF o
  <2>2. /\ Keeps(s, Opened(s), {"layer", "out", "answer"}) /\ Opened(s).answer = "stream"
        /\ Opened(s).layer = "adapter" /\ Opened(s).out = o
    BY <2>1 DEF Keeps, Fresh
  <2> QED BY <1>1, <1>2, <2>2
<1>3. CASE s.kind # "messages"
  <2>1. Opened(s) = [s EXCEPT !.answer = "stream"]
    BY <1>3 DEF Opened
  <2>2. /\ Keeps(s, Opened(s), {"layer", "out", "answer"}) /\ Opened(s).answer = "stream"
        /\ Opened(s).layer = s.layer /\ Opened(s).out = s.out
    BY <2>1 DEF Keeps, Fresh
  <2> QED BY <2>2
<1> QED BY <1>2, <1>3

\* The request is refused.
LEMMA PreflightFailsStep ==
    ASSUME Sound(q), PreflightFails
    PROVE  Sound(q')
<1> DEFINE s == [q EXCEPT !.pc = "ended", !.turn = "released"]
<1>1. /\ DOMAIN q = DOMAIN Fresh /\ q.pc = "preflight" /\ q.layer \in {"none", "bridge"}
      /\ q.out = <<>> /\ (q.layer = "bridge" => q.stream)
  BY DEF Sound, Typed, Phase, PreflightFails
<1>2. q' = IF q.layer = "bridge" THEN BridgedFailure(s) ELSE Buffered(s, FALSE)
  BY DEF PreflightFails, Becomes
<1>3. Keeps(q, s, {"pc", "turn"}) /\ s.pc = "ended" /\ s.turn = "released"
  BY <1>1 DEF Keeps, Fresh
<1> HIDE DEF s
<1>4. s.cancelled = q.cancelled /\ s.out = <<>> /\ s.terminal = q.terminal /\ DOMAIN s = DOMAIN Fresh
  BY <1>1, <1>3, KeptFields
<1>5. CASE q.layer = "bridge" /\ q.cancelled
  <2>1. q' = s
    BY <1>2, <1>4, <1>5 DEF BridgedFailure
  <2> QED BY <1>1, <1>3, <1>5, <2>1, BridgeRefusedSound
<1>6. CASE q.layer = "bridge" /\ ~q.cancelled
  <2> DEFINE u == <<"error", "done">>
  <2>1. q' = [s EXCEPT !.out = u, !.outEnd = TRUE]
    <3>1. <<>> \o u = u
      OBVIOUS
    <3>2. q' = [s EXCEPT !.out = s.out \o u, !.outEnd = TRUE]
      BY <1>2, <1>4, <1>6 DEF BridgedFailure
    <3> QED BY <1>4, <3>1, <3>2
  <2> HIDE DEF u
  <2>2. Keeps(s, q', {"out", "outEnd"}) /\ q'.out = u /\ q'.outEnd = TRUE
    BY <1>4, <2>1 DEF Keeps, Fresh
  <2>3. Keeps(q, q', {"pc", "turn", "out", "outEnd"}) /\ q'.pc = "ended" /\ q'.turn = "released"
    BY <1>3, <2>2, KeptFields DEF Keeps
  <2> QED BY <1>1, <1>6, <2>2, <2>3, BridgeReportsSound DEF u
<1>7. CASE q.layer # "bridge"
  <2>1. /\ Keeps(s, q', {"answer", "pc", "terminal"}) /\ q'.pc = "ended" /\ q'.answer = "plain"
        /\ q'.terminal = IF s.terminal = "none" THEN "error" ELSE s.terminal
    BY <1>2, <1>4, <1>7 DEF Buffered, Finish, Keeps, Fresh
  <2>2. Keeps(q, q', {"answer", "pc", "terminal", "turn"}) /\ q'.turn = "released"
    BY <1>3, <2>1, KeptFields DEF Keeps
  <2> QED BY <1>1, <1>4, <1>7, <2>1, <2>2, RefusedSound
<1> QED BY <1>5, <1>6, <1>7

\* A local text.
LEMMA PreflightTerminalStep ==
    ASSUME Sound(q), PreflightTerminal
    PROVE  Sound(q')
<1> DEFINE s == [q EXCEPT !.pc = "ended", !.turn = "released"]
           w == <<"open", "note", "final", "done">>
           r == [s EXCEPT !.src = w, !.srcEnd = TRUE]
           t == Opened(r)
<1>1. /\ DOMAIN q = DOMAIN Fresh /\ q.pc = "preflight" /\ (q.signal => q.gone)
      /\ q.kind = "messages" => q.layer = "none"
  BY DEF Sound, Typed, Phase, Told, PreflightTerminal
<1>2. q' = IF ~q.stream THEN Buffered(s, TRUE) ELSE IF q.signal THEN AdapterAborts(t) ELSE t
  BY DEF PreflightTerminal, Becomes
<1> HIDE DEF w
<1>3. Keeps(q, s, {"pc", "turn"}) /\ s.pc = "ended" /\ s.turn = "released"
  BY <1>1 DEF Keeps, Fresh
<1> HIDE DEF s
<1>4. DOMAIN s = DOMAIN Fresh /\ s.terminal = q.terminal /\ s.kind = q.kind /\ s.layer = q.layer
  BY <1>3, KeptFields
<1>5. CASE ~q.stream
  <2>1. /\ Keeps(s, q', {"answer", "pc", "terminal"}) /\ q'.pc = "ended" /\ q'.answer = "plain"
        /\ q'.terminal = IF s.terminal = "none" THEN "complete" ELSE s.terminal
    BY <1>2, <1>4, <1>5 DEF Buffered, Finish, Keeps, Fresh
  <2>2. /\ Keeps(q, q', {"answer", "pc", "terminal", "turn", "refused"}) /\ q'.turn = "released"
        /\ q'.refused = q.refused
    BY <1>3, <2>1, KeptFields DEF Keeps
  <2>3. q'.terminal \in Terminals /\ q'.refused \in BOOLEAN
    BY <1>4, <2>1, <2>2 DEF Sound, Typed, Terminals, Flags
  <2> QED BY <1>5, <2>1, <2>2, <2>3, BufferedSound
<1>6. CASE q.stream
  <2>1. Keeps(s, r, {"src", "srcEnd"}) /\ r.src = w /\ r.srcEnd = TRUE
    BY <1>4 DEF Keeps, Fresh
  <2> HIDE DEF r
  <2>2. DOMAIN r = DOMAIN Fresh /\ r.kind = q.kind /\ r.layer = q.layer
    BY <1>4, <2>1, KeptFields
  <2>3. /\ Keeps(r, t, {"layer", "out", "answer"}) /\ t.answer = "stream"
        /\ \/ t.layer = r.layer /\ t.out = r.out
           \/ r.layer = "none" /\ t.layer = "adapter" /\ t.out \in {<<>>, <<"open">>}
    BY <1>1, <2>2, OpenedLayers
  <2> HIDE DEF t
  <2>4. Keeps(q, t, {"src", "srcEnd", "pc", "turn", "layer", "out", "answer"})
    BY <1>3, <2>1, <2>3 DEF Keeps
  <2>5. /\ t.src = w /\ t.srcEnd = TRUE /\ t.pc = "ended" /\ t.turn = "released" /\ r.out = q.out
        /\ t.gone = q.gone
    BY <1>3, <2>1, <2>3, KeptFields
  <2>6. Sound(t)
    BY <1>1, <1>6, <2>2, <2>3, <2>4, <2>5, LocalSound DEF w
  <2> QED BY <1>1, <1>2, <1>6, <2>5, <2>6, AdapterAborted
<1> QED BY <1>5, <1>6

\* The turn starts.
LEMMA PreflightOkStep ==
    ASSUME Sound(q), NEW a \in Accounts, PreflightOk(a)
    PROVE  Sound(q')
<1> DEFINE c == SetAccountId(q, a)
           s == [c EXCEPT !.pc = "turn"]
           w == <<"open">>
           r == [s EXCEPT !.live = TRUE, !.src = w]
           t == Opened(r)
<1>1. /\ DOMAIN q = DOMAIN Fresh /\ q.pc = "preflight" /\ (q.signal => q.gone)
      /\ q.kind = "messages" => q.layer = "none"
  BY DEF Sound, Typed, Phase, Told, PreflightOk
<1>2. q' = IF ~q.stream THEN s ELSE IF q.signal THEN AdapterAborts(AbortAndRelease(t)) ELSE t
  BY DEF PreflightOk, Becomes
<1> HIDE DEF w
<1>3. Keeps(q, c, {"account"}) /\ c.account \in Accounts \cup {NoAccount}
  BY <1>1 DEF SetAccountId, Keeps, Fresh, Sound, Typed
<1> HIDE DEF c
<1>4. Sound(c)
  BY <1>3, AccountSound
<1>5. /\ DOMAIN c = DOMAIN Fresh /\ c.kind = q.kind /\ c.layer = q.layer /\ c.pc = "preflight"
      /\ c.stream = q.stream /\ c.gone = q.gone
  BY <1>1, <1>3, KeptFields
<1>6. Keeps(c, s, {"pc"}) /\ s.pc = "turn"
  BY <1>5 DEF Keeps, Fresh
<1> HIDE DEF s
<1>7. CASE ~q.stream
  BY <1>2, <1>4, <1>5, <1>6, <1>7, TurnStartsSound
<1>8. CASE q.stream
  <2>0. DOMAIN s = DOMAIN Fresh
    BY <1>6, KeptFields
  <2>1. Keeps(s, r, {"src", "live"}) /\ r.src = w /\ r.live = TRUE
    BY <2>0 DEF Keeps, Fresh
  <2> HIDE DEF r
  <2>2. DOMAIN r = DOMAIN Fresh /\ r.kind = q.kind /\ r.layer = q.layer /\ r.out = c.out
    BY <1>5, <1>6, <2>1, KeptFields
  <2>3. /\ Keeps(r, t, {"layer", "out", "answer"}) /\ t.answer = "stream"
        /\ \/ t.layer = r.layer /\ t.out = r.out
           \/ r.layer = "none" /\ t.layer = "adapter" /\ t.out \in {<<>>, <<"open">>}
    BY <1>1, <2>2, OpenedLayers
  <2> HIDE DEF t
  <2>4. Keeps(c, t, {"src", "live", "pc", "layer", "out", "answer"})
    BY <1>6, <2>1, <2>3 DEF Keeps
  <2>5. t.src = w /\ t.live = TRUE /\ t.pc = "turn" /\ t.gone = q.gone
    BY <1>5, <1>6, <2>1, <2>3, <2>4, KeptFields
  <2>6. Sound(t)
    BY <1>4, <1>5, <1>8, <2>2, <2>3, <2>4, <2>5, PumpSound DEF w
  <2> QED BY <1>1, <1>2, <1>8, <2>5, <2>6, AdapterAborted, Released
<1> QED BY <1>7, <1>8

-----------------------------------------------------------------------------
(* The theorems about the request.                                         *)

RequestInv == Sound(q)

\* The invariant holds of the first state,
LEMMA RequestInit == Init => RequestInv
<1> SUFFICES ASSUME Init PROVE Sound(q)
  BY DEF RequestInv
<1>1. q = Fresh
  BY DEF Init
<1>2. /\ Keeps(Fresh, q, {"kind", "stream", "pc", "turn"}) /\ q.stream \in BOOLEAN
      /\ q.pc = "idle" /\ q.turn = "none"
  BY <1>1 DEF Keeps, Fresh
<1> QED BY <1>2, FreshSound

\* and every step keeps it.
LEMMA RequestNext == RequestInv /\ [Next]_vars => RequestInv'
<1> SUFFICES ASSUME Sound(q), [Next]_vars PROVE Sound(q')
  BY DEF RequestInv
<1>1. CASE UNCHANGED vars \/ TenantStep
  <2>1. q' = q
    BY <1>1 DEF vars, TenantStep, Recorder, Administrator, RecordFinds, Record, RecordLost,
                ResetRequestStats, StoreAccount, DeleteAccount
  <2> QED BY <2>1
<1>2. CASE Start
  <2>1. PICK kind \in Kinds, stream \in BOOLEAN :
          q' = [Fresh EXCEPT !.kind = kind, !.stream = stream, !.pc = "preflight", !.turn = "held"]
    BY <1>2 DEF Start
  <2>2. /\ Keeps(Fresh, q', {"kind", "stream", "pc", "turn"}) /\ q'.stream \in BOOLEAN
        /\ q'.pc = "preflight" /\ q'.turn = "held"
    BY <2>1 DEF Keeps, Fresh
  <2> QED BY <2>2, FreshSound
<1>3. CASE Handler
  BY <1>3, PreflightFailsStep, PreflightTerminalStep, PreflightOkStep, TurnSteps, DeliverStep,
     CatchStep DEF Handler
<1>4. CASE GraceElapses \/ Heartbeat \/ Cleanup \/ ClientLeaves \/ \E a \in Accounts : SwitchAccount(a)
  BY <1>4, BesideSteps
<1>5. CASE Pipes
  BY <1>5, PipeSteps
<1>6. CASE SignalFires
  BY <1>6, SignalStep
<1>7. CASE CancelArrives
  BY <1>7, CancelStep
<1> QED BY <1>1, <1>2, <1>3, <1>4, <1>5, <1>6, <1>7 DEF Next, RequestStep

\* The request in hand is sound, in every state of every behaviour: the pipes
\* fit together, what is on its way is durable, what was not seen is or will
\* be discarded, and the tracker knows the end or will be told it.
THEOREM RequestInvariant == Spec => []RequestInv
BY RequestInit, RequestNext, PTL DEF Spec

\* What a client sees of an answer was committed before, and on the Responses
\* API its alias was seeded (completeFinalTurn, seedAlias and send).
THEOREM ShownIsDurable == Spec => []ExposedIsDurable
<1>1. RequestInv => ExposedIsDurable
  BY DEF RequestInv, Sound, Durable, ExposedIsDurable, Got, Has
<1> QED BY <1>1, RequestInvariant, PTL

\* A directly connected client that did not see the final event leaves no turn
\* behind, but for an abandon that failed (the catch block, cancel, abandonTurn).
THEOREM UnseenIsDiscarded == Spec => []UnseenDiscarded
<1>1. RequestInv => UnseenDiscarded
  <2> SUFFICES ASSUME RequestInv, q.live, q.layer = "none", q.pc = "ended", q.eof \/ q.cut,
                      ~Got("final"), q.cleanup # "due", ~q.refused
               PROVE  q.turn # "committed"
    BY DEF UnseenDiscarded
  <2>1. Discarded(q) /\ q.cleanup \in {"no", "due", "done"}
    BY DEF RequestInv, Sound, Typed
  <2>2. q.src = <<>> /\ ~Has(<<>>, "final") /\ ~Has(q.got, "final")
    BY <2>1, EmptyPipe DEF Discarded, Got, Has
  <2> QED BY <2>1, <2>2 DEF Discarded
<1> QED BY <1>1, RequestInvariant, PTL

\* The end that is counted is the end the client saw (RequestMetricTracker.finish
\* called by pump, adapter and monitor).
THEOREM CountedAsSeen == Spec => []TerminalTruth
<1>1. RequestInv => TerminalTruth
  <2> SUFFICES ASSUME RequestInv, q.stream
               PROVE  /\ q.terminal = "complete" =>
                            (IF q.layer = "bridge" /\ ~q.live /\ q.src = <<>> /\ Got("error")
                             THEN q.turn = "released"
                             ELSE Got("final") /\ ~Got("error"))
                      /\ q.terminal = "error" => ~Got("final")
                      /\ q.terminal = "cancel" => q.gone
    BY DEF TerminalTruth
  <2>1. Told(q) /\ \A e : Got(e) <=> Has(q.got, e)
    BY DEF RequestInv, Sound, Got, Has
  <2> QED BY <2>1 DEF Told, FailedBehind
<1> QED BY <1>1, RequestInvariant, PTL

\* Every client's stream is a legal one as far as it has come (send, closeBlock,
\* streamFailure and the pumps' finally).
THEOREM StreamsLegal == Spec => []StreamLegal
<1>1. RequestInv => StreamLegal
  <2> SUFFICES ASSUME RequestInv, NEW i \in DOMAIN q.got, NEW j \in DOMAIN q.got, i < j
               PROVE  /\ q.got[i] \in {"final", "error"} => q.got[j] = "done"
                      /\ q.layer = "adapter" /\ q.got[j] \in {"body", "note"} /\ i = j - 1
                            => q.got[i] = "start"
                      /\ q.layer = "adapter" /\ q.got[j] = "final" /\ i = j - 1
                            => q.got[i] = "stop"
    BY DEF StreamLegal
  <2>1. EndsOnce(q.got) /\ (q.layer = "adapter" => Nested(q.got))
    BY DEF RequestInv, Sound, Legal
  <2>2. q.got[i] \in {"final", "error"} => q.got[j] = "done"
    BY <2>1 DEF EndsOnce
  <2>3. q.layer = "adapter" /\ i = j - 1 => Follows(q.got[i], q.got[j])
    BY <2>1 DEF Nested
  <2> QED BY <2>2, <2>3 DEF Follows, Text
<1> QED BY <1>1, RequestInvariant, PTL
-----------------------------------------------------------------------------
(* The statistics.                                                         *)

Tally == [count : Nat, errors : Nat]
Row == [id : Nat, failed : BOOLEAN]
Records == [id : Nat, failed : BOOLEAN, account : Accounts \cup {NoAccount}, found : BOOLEAN]
Fields == {"count", "errors"}

\* Attributed, of any statistics st.
Pairs(st, f) == UNION {{a} \X (1..st[a][f]) : a \in Accounts}

TallyTypes ==
    /\ id \in 0..MaxRequests /\ inflight \subseteq Records /\ stored \subseteq Accounts
    /\ rows \in Seq(Row) /\ totals \in Tally /\ stats \in [Accounts -> Tally]

\* The tables agree, and the pairs can be counted.
StatsInv ==
    /\ TallyTypes
    /\ totals.errors <= totals.count
    /\ Len(rows) = IF totals.count < MaxRecorded THEN totals.count ELSE MaxRecorded
    /\ totals.count <= MaxRecorded =>
          totals.errors = Cardinality({i \in DOMAIN rows : rows[i].failed})
    /\ \A f \in Fields : IsFiniteSet(Pairs(stats, f)) /\ Cardinality(Pairs(stats, f)) <= totals[f]

\* What a pair is.
LEMMA PairsMembers ==
    ASSUME NEW st, NEW f, NEW p
    PROVE  p \in Pairs(st, f) <=> \E a \in Accounts : \E i \in 1..st[a][f] : p = <<a, i>>
BY DEF Pairs

\* One more on an account is one more pair.
LEMMA PairsGrow ==
    ASSUME NEW st \in [Accounts -> Tally], NEW ts \in [Accounts -> Tally], NEW f \in Fields,
           NEW a \in Accounts, \A b \in Accounts \ {a} : ts[b] = st[b], ts[a][f] = st[a][f] + 1,
           IsFiniteSet(Pairs(st, f))
    PROVE  IsFiniteSet(Pairs(ts, f)) /\ Cardinality(Pairs(ts, f)) = Cardinality(Pairs(st, f)) + 1
<1> DEFINE n == st[a][f]
           x == <<a, n + 1>>
<1>1. n \in Nat
  BY DEF Tally, Fields
<1>2. x \notin Pairs(st, f)
  <2> SUFFICES ASSUME x \in Pairs(st, f) PROVE FALSE
    OBVIOUS
  <2>0. PICK b \in Accounts : \E i \in 1..st[b][f] : x = <<b, i>>
    BY PairsMembers
  <2>1. PICK i \in 1..st[b][f] : x = <<b, i>>
    BY <2>0
  <2>2. b = a /\ i = n + 1
    BY <2>1
  <2> QED BY <1>1, <2>1, <2>2
<1>3. ASSUME NEW p PROVE p \in Pairs(ts, f) <=> p \in Pairs(st, f) \cup {x}
  <2>1. ASSUME p \in Pairs(ts, f) PROVE p \in Pairs(st, f) \cup {x}
    <3>0. PICK b \in Accounts : \E i \in 1..ts[b][f] : p = <<b, i>>
      BY <2>1, PairsMembers
    <3>1. PICK i \in 1..ts[b][f] : p = <<b, i>>
      BY <3>0
    <3>2. CASE b = a
      <4>1. i \in 1..n \/ i = n + 1
        BY <1>1, <3>1, <3>2
      <4> QED BY <3>1, <3>2, <4>1, PairsMembers
    <3>3. CASE b # a
      <4>1. i \in 1..st[b][f]
        BY <3>1, <3>3
      <4> QED BY <3>1, <4>1, PairsMembers
    <3> QED BY <3>2, <3>3
  <2>2. ASSUME p \in Pairs(st, f) PROVE p \in Pairs(ts, f)
    <3>0. PICK b \in Accounts : \E i \in 1..st[b][f] : p = <<b, i>>
      BY <2>2, PairsMembers
    <3>1. PICK i \in 1..st[b][f] : p = <<b, i>>
      BY <3>0
    <3>2. i \in 1..ts[b][f]
      <4>1. CASE b = a
        BY <1>1, <3>1, <4>1
      <4>2. CASE b # a
        BY <3>1, <4>2
      <4> QED BY <4>1, <4>2
    <3> QED BY <3>1, <3>2, PairsMembers
  <2>3. x \in Pairs(ts, f)
    <3>1. n + 1 \in 1..ts[a][f]
      BY <1>1
    <3> QED BY <3>1, PairsMembers
  <2> QED BY <2>1, <2>2, <2>3
<1>4. Pairs(ts, f) = Pairs(st, f) \cup {x}
  BY <1>3
<1> HIDE DEF x
<1> QED BY <1>2, <1>4, FS_AddElement

\* The same on this field is the same pairs; less is fewer.
LEMMA PairsShrink ==
    ASSUME NEW st \in [Accounts -> Tally], NEW ts \in [Accounts -> Tally], NEW f \in Fields,
           \A b \in Accounts : ts[b][f] <= st[b][f], IsFiniteSet(Pairs(st, f))
    PROVE  IsFiniteSet(Pairs(ts, f)) /\ Cardinality(Pairs(ts, f)) <= Cardinality(Pairs(st, f))
<1>1. ASSUME NEW p \in Pairs(ts, f) PROVE p \in Pairs(st, f)
  <2>0. PICK b \in Accounts : \E i \in 1..ts[b][f] : p = <<b, i>>
    BY PairsMembers
  <2>1. PICK i \in 1..ts[b][f] : p = <<b, i>>
    BY <2>0
  <2>2. ts[b][f] \in Nat /\ st[b][f] \in Nat
    BY DEF Tally, Fields
  <2>3. i \in 1..st[b][f]
    BY <2>1, <2>2
  <2> QED BY <2>1, <2>3, PairsMembers
<1>2. Pairs(ts, f) \in SUBSET Pairs(st, f)
  BY <1>1
<1> QED BY <1>2, FS_Subset

\* No statistics, no pairs.
LEMMA PairsNone ==
    ASSUME NEW f \in Fields
    PROVE  Pairs([a \in Accounts |-> Zero], f) = {}
<1>1. \A a \in Accounts : [b \in Accounts |-> Zero][a][f] = 0
  BY DEF Zero, Fields
<1>2. ASSUME NEW p \in Pairs([a \in Accounts |-> Zero], f) PROVE FALSE
  <2>0. PICK b \in Accounts : \E i \in 1..[a \in Accounts |-> Zero][b][f] : p = <<b, i>>
    BY PairsMembers
  <2>1. PICK i \in 1..[a \in Accounts |-> Zero][b][f] : p = <<b, i>>
    BY <2>0
  <2> QED BY <1>1, <2>1
<1> QED BY <1>2

\* The statistics of the first state,
LEMMA StatsInit == Init => StatsInv
<1> SUFFICES ASSUME Init PROVE StatsInv
  OBVIOUS
<1>1. TallyTypes
  BY DeliveryAssumption DEF Init, TallyTypes, Tally, Zero, DeliveryAssumption
<1>2. DOMAIN rows = {} /\ Len(rows) = 0 /\ totals = Zero /\ totals.count = 0 /\ totals.errors = 0
  BY DEF Init, Zero
<1>3. {i \in DOMAIN rows : rows[i].failed} = {}
  BY <1>2
<1>4. ASSUME NEW f \in Fields PROVE IsFiniteSet(Pairs(stats, f)) /\ Cardinality(Pairs(stats, f)) <= totals[f]
  <2>1. Pairs(stats, f) = {}
    BY PairsNone DEF Init
  <2>2. totals[f] = 0
    BY <1>2 DEF Fields
  <2> QED BY <2>1, <2>2, FS_EmptySet
<1>5. MaxRecorded \in Nat \ {0}
  BY DeliveryAssumption DEF DeliveryAssumption
<1> QED BY <1>1, <1>2, <1>3, <1>4, <1>5, FS_EmptySet DEF StatsInv

\* A step of the request leaves the tables alone, and may send off a record.
Quiet == inflight' = inflight \cup Dispatched(q, q') /\ UNCHANGED <<id, tenant>>

\* That is so of every step but the first of a request.
LEMMA RequestQuiet == RequestStep => Quiet \/ Start
<1>1. \A n : Becomes(n) => Quiet
  BY DEF Becomes, Quiet
<1>2. Handler => Quiet
  <2>1. PreflightFails \/ PreflightTerminal \/ (\E a \in Accounts : PreflightOk(a)) => Quiet
    BY ONLY <1>1, Zenon DEF PreflightFails, PreflightTerminal, PreflightOk
  <2>2. TurnAnswers \/ TurnTerminal \/ TurnFails \/ CompleteFinal \/ Committed => Quiet
    BY ONLY <1>1, Zenon DEF TurnAnswers, TurnTerminal, TurnFails, CompleteFinal, Committed
  <2>3. SeedAlias \/ Release \/ RpcFails \/ Deliver \/ Catch => Quiet
    BY ONLY <1>1, Zenon DEF SeedAlias, Release, RpcFails, Deliver, Catch
  <2> QED BY ONLY <2>1, <2>2, <2>3 DEF Handler
<1>3. Pipes => Quiet
  BY ONLY <1>1, Zenon DEF Pipes, AdapterReads, BridgeReads, Pull
<1>4. GraceElapses \/ Heartbeat \/ Cleanup \/ (\E a \in Accounts : SwitchAccount(a)) => Quiet
  BY ONLY <1>1, Zenon DEF GraceElapses, Heartbeat, Cleanup, SwitchAccount
<1>5. ClientLeaves \/ SignalFires \/ CancelArrives => Quiet
  BY ONLY <1>1, Zenon DEF ClientLeaves, SignalFires, CancelArrives
<1> QED BY ONLY <1>2, <1>3, <1>4, <1>5 DEF RequestStep

\* When the three tables stay, they go on agreeing.
LEMMA TablesStay ==
    ASSUME StatsInv, UNCHANGED <<rows, totals, stats>>,
           id' \in 0..MaxRequests, inflight' \subseteq Records, stored' \subseteq Accounts
    PROVE  StatsInv'
<1>1. rows' = rows /\ totals' = totals /\ stats' = stats
  OBVIOUS
<1>2. TallyTypes'
  BY <1>1 DEF StatsInv, TallyTypes
<1>3. \A f \in Fields : Pairs(stats', f) = Pairs(stats, f)
  BY <1>1
<1> QED BY <1>1, <1>2, <1>3 DEF StatsInv

\* and after every step of the request,
LEMMA RequestStats ==
    ASSUME StatsInv, RequestInv', RequestStep
    PROVE  StatsInv'
<1>1. id \in 0..MaxRequests /\ inflight \subseteq Records /\ stored \subseteq Accounts /\ MaxRequests \in Nat
  BY DeliveryAssumption DEF StatsInv, TallyTypes, DeliveryAssumption
<1>2. CASE Quiet
  <2>1. Dispatched(q, q') \subseteq Records
    <3>1. q'.account \in Accounts \cup {NoAccount}
      BY DEF RequestInv, Sound, Typed
    <3>2. id \in Nat
      BY <1>1
    <3> DEFINE b == q'.terminal # "complete"
               r == [id |-> id, failed |-> b, account |-> q'.account, found |-> FALSE]
    <3>3. Dispatched(q, q') \subseteq {r}
      BY DEF Dispatched
    <3>4. b \in BOOLEAN
      OBVIOUS
    <3> HIDE DEF b
    <3>5. r \in Records
      BY <3>1, <3>2, <3>4 DEF Records
    <3> QED BY <3>3, <3>5
  <2>2. inflight' \subseteq Records /\ id' = id /\ stored' = stored /\ UNCHANGED <<rows, totals, stats>>
    BY <1>1, <1>2, <2>1 DEF Quiet, tenant
  <2> QED BY <1>1, <2>2, TablesStay
<1>3. CASE Start
  <2>1. id' \in 0..MaxRequests
    BY <1>1, <1>3 DEF Start
  <2>2. inflight' = inflight /\ stored' = stored /\ UNCHANGED <<rows, totals, stats>>
    BY <1>3 DEF Start, tenant
  <2> QED BY <1>1, <2>1, <2>2, TablesStay
<1> QED BY <1>2, <1>3, RequestQuiet

\* One more record counts once in the totals, once in the rows, and at most
\* once on an account.
LEMMA RecordStats ==
    ASSUME StatsInv, NEW m \in inflight, Record(m)
    PROVE  StatsInv'
<1>1. /\ id \in 0..MaxRequests /\ inflight \subseteq Records /\ stored \subseteq Accounts
      /\ rows \in Seq(Row) /\ totals \in Tally /\ stats \in [Accounts -> Tally]
      /\ MaxRecorded \in Nat \ {0}
  BY DeliveryAssumption DEF StatsInv, TallyTypes, DeliveryAssumption
<1>2. id' = id /\ inflight' \subseteq Records /\ stored' = stored
  BY <1>1 DEF Record
<1>3. CASE \E i \in DOMAIN rows : rows[i].id = m.id
  <2>1. UNCHANGED <<rows, totals, stats>>
    BY <1>3 DEF Record
  <2> QED BY <1>1, <1>2, <2>1, TablesStay
<1>4. CASE ~\E i \in DOMAIN rows : rows[i].id = m.id
  <2> DEFINE r == [id |-> m.id, failed |-> m.failed]
             k == totals.count
             e == totals.errors
             d == IF m.failed THEN 1 ELSE 0
             table == Append(rows, r)
  <2>1. /\ rows' = Pruned(table) /\ totals' = Add(totals, m.failed)
        /\ stats' = IF m.account = NoAccount THEN stats
                    ELSE [stats EXCEPT ![m.account] = Add(@, m.failed)]
    BY <1>4 DEF Record
  <2>2. m \in Records /\ m.failed \in BOOLEAN /\ m.id \in Nat /\ m.account \in Accounts \cup {NoAccount}
    BY <1>1 DEF Records
  <2>3. r \in Row /\ r.failed = m.failed
    BY <2>2 DEF Row
  <2>4. k \in Nat /\ e \in Nat /\ d \in {0, 1} /\ (m.failed => d = 1) /\ (~m.failed => d = 0)
    BY <1>1, <2>2 DEF Tally
  <2>5. totals' = [count |-> k + 1, errors |-> e + d]
    BY <2>1 DEF Add
  <2> HIDE DEF r, k, e, d
  <2>6. totals' \in Tally /\ totals'.count = k + 1 /\ totals'.errors = e + d
    BY <2>4, <2>5 DEF Tally
  <2>7. e <= k /\ Len(rows) = IF k < MaxRecorded THEN k ELSE MaxRecorded
    BY DEF StatsInv, k, e
  <2>8. /\ table \in Seq(Row) /\ Len(table) = Len(rows) + 1 /\ Len(rows) \in Nat
        /\ DOMAIN table = 1..(Len(rows) + 1) /\ DOMAIN rows = 1..Len(rows)
        /\ table[Len(rows) + 1] = r /\ \A i \in 1..Len(rows) : table[i] = rows[i]
    BY <1>1, <2>3
  <2> HIDE DEF table
  <2>9. rows' \in Seq(Row) /\ Len(rows') = IF k + 1 < MaxRecorded THEN k + 1 ELSE MaxRecorded
    <3>1. CASE k < MaxRecorded
      <4>1. rows' = table
        BY <1>1, <2>1, <2>4, <2>7, <2>8, <3>1 DEF Pruned
      <4> QED BY <1>1, <2>4, <2>7, <2>8, <3>1, <4>1
    <3>2. CASE ~(k < MaxRecorded)
      <4>1. rows' = Tail(table) /\ table # <<>>
        BY <1>1, <2>1, <2>4, <2>7, <2>8, <3>2 DEF Pruned
      <4>2. rows' \in Seq(Row) /\ Len(rows') = Len(table) - 1
        BY <2>8, <4>1
      <4> QED BY <1>1, <2>4, <2>7, <2>8, <3>2, <4>2
    <3> QED BY <3>1, <3>2
  <2>10. ASSUME k + 1 <= MaxRecorded
         PROVE  e + d = Cardinality({i \in DOMAIN rows' : rows'[i].failed})
    <3> DEFINE F == {i \in 1..Len(rows) : rows[i].failed}
               G == {i \in DOMAIN rows' : rows'[i].failed}
    <3>1. rows' = table
      BY <1>1, <2>1, <2>4, <2>7, <2>8, <2>10 DEF Pruned
    <3>2. e = Cardinality(F)
      <4>1. k <= MaxRecorded
        BY <1>1, <2>4, <2>10
      <4> QED BY <2>8, <4>1 DEF StatsInv, k, e
    <3>3. IsFiniteSet(F)
      <4>1. IsFiniteSet(1..Len(rows))
        BY <2>8, FS_Interval
      <4>2. F \in SUBSET (1..Len(rows))
        OBVIOUS
      <4> QED BY <4>1, <4>2, FS_Subset
    <3>4. Len(rows) + 1 \notin F
      BY <2>8
    <3>5. G = IF m.failed THEN F \cup {Len(rows) + 1} ELSE F
      <4>1. G = {i \in 1..(Len(rows) + 1) : table[i].failed}
        BY <2>8, <3>1
      <4>2. 1..(Len(rows) + 1) = (1..Len(rows)) \cup {Len(rows) + 1}
        BY <2>8
      <4>3. \A i \in 1..Len(rows) : table[i].failed = rows[i].failed
        BY <2>8
      <4>4. table[Len(rows) + 1].failed = m.failed
        BY <2>3, <2>8
      <4> QED BY <2>2, <4>1, <4>2, <4>3, <4>4
    <3> HIDE DEF F, G
    <3>6. CASE m.failed
      <4>1. Cardinality(G) = Cardinality(F) + 1
        BY <3>3, <3>4, <3>5, <3>6, FS_AddElement
      <4> QED BY <2>4, <3>2, <3>6, <4>1 DEF G
    <3>7. CASE ~m.failed
      <4>1. d = 0 /\ G = F
        BY <2>4, <3>5, <3>7
      <4>2. e + d = e
        BY <2>4, <4>1
      <4>3. e + d = Cardinality(G)
        BY ONLY <3>2, <4>1, <4>2
      <4> QED BY <4>3 DEF G
    <3> QED BY <2>2, <3>6, <3>7
  <2>11. /\ stats' \in [Accounts -> Tally]
         /\ \A f \in Fields : IsFiniteSet(Pairs(stats', f)) /\ Cardinality(Pairs(stats', f)) <= totals'[f]
    <3>0. ASSUME NEW f \in Fields
          PROVE  /\ IsFiniteSet(Pairs(stats, f)) /\ Cardinality(Pairs(stats, f)) \in Nat
                 /\ Cardinality(Pairs(stats, f)) <= totals[f] /\ totals[f] \in Nat
                 /\ totals'[f] = totals[f] + (IF f = "count" THEN 1 ELSE d)
      <4>1. IsFiniteSet(Pairs(stats, f)) /\ Cardinality(Pairs(stats, f)) <= totals[f]
        BY DEF StatsInv
      <4>2. totals[f] \in Nat /\ totals'[f] = totals[f] + (IF f = "count" THEN 1 ELSE d)
        BY <2>4, <2>6 DEF Fields, k, e
      <4> QED BY <4>1, <4>2, FS_CardinalityType
    <3>1. CASE m.account = NoAccount
      <4>1. stats' = stats
        BY <2>1, <3>1
      <4>2. ASSUME NEW f \in Fields
            PROVE  IsFiniteSet(Pairs(stats', f)) /\ Cardinality(Pairs(stats', f)) <= totals'[f]
        BY <2>4, <3>0, <4>1
      <4> QED BY <1>1, <4>1, <4>2
    <3>2. CASE m.account # NoAccount
      <4> DEFINE a == m.account
      <4>0. a \in Accounts
        BY <2>2, <3>2
      <4>1. stats' = [stats EXCEPT ![a] = Add(stats[a], m.failed)]
        BY <2>1, <3>2
      <4>2. stats[a] \in Tally /\ stats[a].count \in Nat /\ stats[a].errors \in Nat
        BY <1>1, <4>0 DEF Tally
      <4>3. Add(stats[a], m.failed) = [count |-> stats[a].count + 1, errors |-> stats[a].errors + d]
        BY DEF Add, d
      <4>4. Add(stats[a], m.failed) \in Tally
        BY <2>4, <4>2, <4>3 DEF Tally
      <4>5. stats' \in [Accounts -> Tally]
        BY <1>1, <4>1, <4>4
      <4>6. /\ \A b \in Accounts \ {a} : stats'[b] = stats[b]
            /\ stats'[a].count = stats[a].count + 1 /\ stats'[a].errors = stats[a].errors + d
        BY <1>1, <4>0, <4>1, <4>3
      <4> HIDE DEF a
      <4>7. ASSUME NEW f \in Fields
            PROVE  IsFiniteSet(Pairs(stats', f)) /\ Cardinality(Pairs(stats', f)) <= totals'[f]
        <5>1. CASE f = "count" \/ d = 1
          <6>1. stats'[a][f] = stats[a][f] + 1 /\ totals'[f] = totals[f] + 1
            BY <3>0, <4>6, <5>1 DEF Fields
          <6>2. /\ IsFiniteSet(Pairs(stats', f))
                /\ Cardinality(Pairs(stats', f)) = Cardinality(Pairs(stats, f)) + 1
            BY <1>1, <3>0, <4>0, <4>5, <4>6, <6>1, PairsGrow
          <6> QED BY <3>0, <6>1, <6>2
        <5>2. CASE f = "errors" /\ d = 0
          <6>1. \A b \in Accounts : stats'[b][f] <= stats[b][f]
            <7>1. \A b \in Accounts : stats[b].errors \in Nat
              BY <1>1 DEF Tally
            <7>2. \A b \in Accounts : stats'[b].errors = stats[b].errors
              BY <4>0, <4>2, <4>6, <5>2
            <7> QED BY <5>2, <7>1, <7>2
          <6>2. /\ IsFiniteSet(Pairs(stats', f))
                /\ Cardinality(Pairs(stats', f)) <= Cardinality(Pairs(stats, f))
            BY <1>1, <3>0, <4>5, <6>1, PairsShrink
          <6>3. Cardinality(Pairs(stats', f)) \in Nat /\ totals'[f] = totals[f]
            BY <3>0, <5>2, <6>2, FS_CardinalityType
          <6> QED BY <3>0, <6>2, <6>3
        <5> QED BY <2>4, <5>1, <5>2 DEF Fields
      <4> QED BY <4>5, <4>7
    <3> QED BY <3>1, <3>2
  <2>12. TallyTypes'
    BY <1>1, <1>2, <2>6, <2>9, <2>11 DEF TallyTypes
  <2>13. totals'.errors <= totals'.count
    BY <2>4, <2>6, <2>7
  <2> QED BY <2>6, <2>9, <2>10, <2>11, <2>12, <2>13 DEF StatsInv
<1> QED BY <1>3, <1>4

\* The other calls of recordRequest touch none of the tables,
LEMMA RecorderStats ==
    ASSUME StatsInv, Recorder
    PROVE  StatsInv'
<1>1. /\ id \in 0..MaxRequests /\ inflight \subseteq Records /\ stored \subseteq Accounts
  BY DEF StatsInv, TallyTypes
<1>2. PICK m \in inflight : RecordFinds(m) \/ Record(m) \/ RecordLost(m)
  BY DEF Recorder
<1>3. CASE RecordFinds(m)
  <2> DEFINE a == IF m.account \in stored THEN m.account ELSE NoAccount
             n == [m EXCEPT !.found = TRUE, !.account = a]
  <2>1. a \in Accounts \cup {NoAccount}
    BY <1>1
  <2>2. inflight' = (inflight \ {m}) \cup {n} /\ UNCHANGED <<id, q, tenant>>
    BY <1>3 DEF RecordFinds
  <2> HIDE DEF a
  <2>3. n \in Records
    BY <1>1, <2>1 DEF Records
  <2> HIDE DEF n
  <2>4. inflight' \subseteq Records /\ id' = id /\ stored' = stored /\ UNCHANGED <<rows, totals, stats>>
    BY <1>1, <2>2, <2>3 DEF tenant
  <2> QED BY <1>1, <2>4, TablesStay
<1>4. CASE RecordLost(m)
  <2>1. inflight' \subseteq Records /\ id' = id /\ stored' = stored /\ UNCHANGED <<rows, totals, stats>>
    BY <1>1, <1>4 DEF RecordLost, tenant
  <2> QED BY <1>1, <2>1, TablesStay
<1> QED BY <1>2, <1>3, <1>4, RecordStats

\* and a reset empties all three, a deletion one account's row.
LEMMA AdministratorStats ==
    ASSUME StatsInv, Administrator
    PROVE  StatsInv'
<1>1. /\ id \in 0..MaxRequests /\ inflight \subseteq Records /\ stored \subseteq Accounts
      /\ rows \in Seq(Row) /\ totals \in Tally /\ stats \in [Accounts -> Tally]
      /\ MaxRecorded \in Nat \ {0}
  BY DeliveryAssumption DEF StatsInv, TallyTypes, DeliveryAssumption
<1>2. CASE ResetRequestStats
  <2>1. /\ id' = id /\ inflight' = inflight /\ stored' = stored /\ rows' = <<>>
        /\ totals' = Zero /\ stats' = [a \in Accounts |-> Zero]
    BY <1>2 DEF ResetRequestStats
  <2>2. totals'.count = 0 /\ totals'.errors = 0 /\ totals' \in Tally /\ stats' \in [Accounts -> Tally]
    BY <2>1 DEF Zero, Tally
  <2>3. TallyTypes'
    BY <1>1, <2>1, <2>2 DEF TallyTypes
  <2>4. {i \in DOMAIN rows' : rows'[i].failed} = {} /\ Len(rows') = 0
    BY <2>1
  <2>5. ASSUME NEW f \in Fields
        PROVE  IsFiniteSet(Pairs(stats', f)) /\ Cardinality(Pairs(stats', f)) <= totals'[f]
    <3>1. Pairs(stats', f) = {} /\ totals'[f] = 0
      BY <2>1, <2>2, PairsNone DEF Fields
    <3> QED BY <3>1, FS_EmptySet
  <2> QED BY <1>1, <2>2, <2>3, <2>4, <2>5, FS_EmptySet DEF StatsInv
<1>3. ASSUME NEW a \in Accounts, StoreAccount(a) PROVE StatsInv'
  <2>1. inflight' = inflight /\ id' = id /\ stored' \subseteq Accounts /\ UNCHANGED <<rows, totals, stats>>
    BY <1>1, <1>3 DEF StoreAccount
  <2> QED BY <1>1, <2>1, TablesStay
<1>4. ASSUME NEW a \in Accounts, DeleteAccount(a) PROVE StatsInv'
  <2>1. /\ id' = id /\ inflight' = inflight /\ stored' \subseteq Accounts /\ rows' = rows
        /\ totals' = totals /\ stats' = [stats EXCEPT ![a] = Zero]
    BY <1>1, <1>4 DEF DeleteAccount
  <2>2. stats' \in [Accounts -> Tally]
    <3>1. Zero \in Tally
      BY DEF Zero, Tally
    <3> QED BY <1>1, <2>1, <3>1
  <2>3. TallyTypes'
    BY <1>1, <2>1, <2>2 DEF TallyTypes
  <2>4. ASSUME NEW f \in Fields
        PROVE  IsFiniteSet(Pairs(stats', f)) /\ Cardinality(Pairs(stats', f)) <= totals'[f]
    <3>1. \A b \in Accounts : stats'[b][f] <= stats[b][f]
      <4>1. \A b \in Accounts : stats[b][f] \in Nat
        BY <1>1 DEF Tally, Fields
      <4>2. \A b \in Accounts : stats'[b][f] = stats[b][f] \/ stats'[b][f] = 0
        BY <1>1, <2>1 DEF Zero, Fields
      <4> QED BY <4>1, <4>2
    <3>2. IsFiniteSet(Pairs(stats, f)) /\ Cardinality(Pairs(stats, f)) <= totals[f] /\ totals[f] \in Nat
      BY <1>1 DEF StatsInv, Tally, Fields
    <3>3. /\ IsFiniteSet(Pairs(stats', f))
          /\ Cardinality(Pairs(stats', f)) <= Cardinality(Pairs(stats, f))
      BY <1>1, <2>2, <3>1, <3>2, PairsShrink
    <3>4. Cardinality(Pairs(stats', f)) \in Nat /\ Cardinality(Pairs(stats, f)) \in Nat
      BY <3>2, <3>3, FS_CardinalityType
    <3> QED BY <2>1, <3>2, <3>3, <3>4
  <2> QED BY <2>1, <2>3, <2>4 DEF StatsInv
<1> QED BY <1>2, <1>3, <1>4 DEF Administrator

\* The tables' invariant holds through every request, record, reset and deletion.
THEOREM StatisticsInvariant == Spec => []StatsInv
<1>1. ASSUME StatsInv, RequestInv', [Next]_vars PROVE StatsInv'
  <2>1. CASE RequestStep
    BY <1>1, <2>1, RequestStats
  <2>2. CASE TenantStep
    BY <1>1, <2>2, RecorderStats, AdministratorStats DEF TenantStep
  <2>3. CASE UNCHANGED vars
    <3>1. id' = id /\ inflight' = inflight /\ stored' = stored /\ UNCHANGED <<rows, totals, stats>>
      BY <2>3 DEF vars, tenant
    <3>2. id' \in 0..MaxRequests /\ inflight' \subseteq Records /\ stored' \subseteq Accounts
      BY <1>1, <3>1 DEF StatsInv, TallyTypes
    <3> QED BY <1>1, <3>1, <3>2, TablesStay
  <2> QED BY <1>1, <2>1, <2>2, <2>3 DEF Next
<1> QED BY <1>1, StatsInit, RequestInvariant, PTL DEF Spec

\* The three tables of the statistics agree whatever records are lost, and
\* whatever resets, deletions and pruning come between (recordRequest,
\* resetRequestStats, deleteAccount).
THEOREM TablesAgree == Spec => []StatsAgree
<1>1. StatsInv => StatsAgree
  <2> SUFFICES ASSUME StatsInv PROVE StatsAgree
    OBVIOUS
  <2>1. \A f \in Fields : Attributed(f) = Pairs(stats, f)
    BY DEF Attributed, Pairs
  <2> QED BY <2>1 DEF StatsInv, StatsAgree, Fields
<1> QED BY <1>1, StatisticsInvariant, PTL

\* The types of the request in hand and of the statistics (trackStreamingResponse,
\* recordRequest).
THEOREM DeliveryTypes == Spec => []TypeOK
<1>1. RequestInv /\ StatsInv => TypeOK
  <2> SUFFICES ASSUME RequestInv, StatsInv PROVE TypeOK
    OBVIOUS
  <2>1. /\ q.terminal \in Terminals \cup {"none"} /\ q.account \in Accounts \cup {NoAccount}
        /\ q.src \in Seq(Events) /\ q.out \in Seq(Events) /\ q.got \in Seq(Events)
    BY DEF RequestInv, Sound, Typed
  <2>2. id \in 0..MaxRequests /\ stored \subseteq Accounts /\ totals.errors <= totals.count
    BY DEF StatsInv, TallyTypes
  <2>3. Len(rows) <= MaxRecorded
    BY DeliveryAssumption DEF StatsInv, TallyTypes, Tally, DeliveryAssumption
  <2> QED BY <2>1, <2>2, <2>3 DEF TypeOK
<1> QED BY <1>1, RequestInvariant, StatisticsInvariant, PTL
=============================================================================
