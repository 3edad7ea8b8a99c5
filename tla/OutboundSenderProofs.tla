------------------------- MODULE OutboundSenderProofs -------------------------
(***************************************************************************)
(* QueuedSender implements ClientChannel, for every number of messages and  *)
(* every set of flushes.  The induction needs to know where everything that *)
(* was accepted is: written, being written, or queued in the order of its  *)
(* number (InOrder), and that a flush which waits has an entry (Queued).   *)
(* Its counters are exact: the places of the queue are counted.            *)
(***************************************************************************)
EXTENDS OutboundSender, SequenceTheorems, FiniteSetTheorems, TLAPS

Broken == failure # "none" \/ writer = "cut"

\* What the invariant needs of the types; the counters play no part in the order.
Types ==
  /\ queue \in Seq(Entry) /\ closing \in BOOLEAN
  /\ failure \in {"none", "gone", "slow"}
  /\ writer \in {"get", "writing", "on_slow", "done", "cut"}
  /\ current \in Nat /\ aclose \in {"idle", "draining", "done"}
  /\ sent \in Nat /\ got \in Seq(Nat)
  /\ flush \in [Flushes -> [st : FlushState, upto : Nat]]

Msg(e) == IF e.kind \in Payload THEN 1 ELSE 0

\* The messages that have left the queue.
Taken == Len(got) + (IF writer = "writing" THEN 1 ELSE 0)

InOrder ==
  /\ Taken <= sent
  /\ writer = "writing" => current = Taken
  /\ queue = <<>> => Taken = sent
  /\ queue # <<>> => queue[1].n = Taken + Msg(queue[1]) /\ queue[Len(queue)].n = sent
  /\ \A i \in 1..Len(queue) : i > 1 => queue[i].n = queue[i - 1].n + Msg(queue[i])
  /\ \A i \in 1..Len(queue) : queue[i].n <= sent

\* A flush that waits will be settled by an entry of its own, which carries what it waits for.
Queued ==
  /\ \A f \in Flushes : flush[f].st = "waiting" =>
       \E i \in 1..Len(queue) : queue[i].kind = "flush" /\ f \in queue[i].f
  /\ \A i \in 1..Len(queue), f \in Flushes :
       f \in queue[i].f => queue[i].kind = "flush" /\ queue[i].f = {f} /\ flush[f].upto = queue[i].n
                           /\ flush[f].st # "idle"

\* The stop is the last entry, and a writer that stopped well has emptied the queue.
Stopping ==
  /\ \A i \in 1..Len(queue) : queue[i].kind = "stop" => i = Len(queue) /\ closing
  /\ aclose = "idle" <=> ~closing
  /\ writer \in {"done", "cut"} /\ failure = "none" => closing
  /\ writer = "done" /\ failure = "none" => queue = <<>>
  /\ writer = "cut" \/ failure = "none" \/ writer \in {"on_slow", "done"}
  /\ writer = "on_slow" => failure # "none"

Inv == Types /\ (~Broken => InOrder) /\ Queued /\ Stopping
-----------------------------------------------------------------------------
(* Sequences.                                                              *)

LEMMA TailFacts ==
  ASSUME NEW q \in Seq(Entry), q # <<>>
  PROVE  /\ Tail(q) \in Seq(Entry) /\ Len(q) \in Nat \ {0} /\ Len(Tail(q)) = Len(q) - 1
         /\ Head(q) = q[1] /\ q[1] \in Entry
         /\ \A i \in 1..Len(Tail(q)) : Tail(q)[i] = q[i + 1]
         /\ Tail(q) = <<>> <=> Len(q) = 1
<1>1. /\ Tail(q) \in Seq(Entry) /\ Len(Tail(q)) = Len(q) - 1
      /\ \A i \in 1..Len(Tail(q)) : Tail(q)[i] = q[i + 1]
  BY HeadTailProperties
<1>2. Len(q) \in Nat \ {0} /\ Head(q) = q[1] /\ q[1] \in Entry
  OBVIOUS
<1>3. Tail(q) = <<>> <=> Len(Tail(q)) = 0
  BY <1>1, EmptySeq
<1> QED BY <1>1, <1>2, <1>3

LEMMA AppendFacts ==
  ASSUME NEW q \in Seq(Entry), NEW e \in Entry
  PROVE  /\ Append(q, e) \in Seq(Entry) /\ Len(Append(q, e)) = Len(q) + 1 /\ Len(q) \in Nat
         /\ Append(q, e) # <<>> /\ Append(q, e)[Len(q) + 1] = e
         /\ \A i \in 1..Len(q) : Append(q, e)[i] = q[i]
BY AppendProperties
-----------------------------------------------------------------------------
(* Every step keeps the invariant.                                         *)

\* What _discard_pending does to the flushes: every one that waits has an entry, so all fail.
LEMMA DiscardedFailsAll ==
  ASSUME Inv, Discarded
  PROVE  /\ queue' = <<>>
         /\ flush' = [f \in Flushes |-> IF flush[f].st = "waiting"
                                        THEN [flush[f] EXCEPT !.st = "failed"] ELSE flush[f]]
         /\ flush' \in [Flushes -> [st : FlushState, upto : Nat]]
<1>1. queue' = <<>> /\ Settle(UNION {queue[i].f : i \in DOMAIN queue}, "failed")
  BY DEF Discarded
<1>2. DOMAIN queue = 1..Len(queue)
  BY DEF Inv, Types
<1>3. \A f \in Flushes : flush[f].st = "waiting" => f \in UNION {queue[i].f : i \in DOMAIN queue}
  BY <1>2 DEF Inv, Queued
<1>4. flush' = [f \in Flushes |-> IF flush[f].st = "waiting"
                                 THEN [flush[f] EXCEPT !.st = "failed"] ELSE flush[f]]
  BY <1>1, <1>3, Zenon DEF Settle
<1>5. flush' \in [Flushes -> [st : FlushState, upto : Nat]]
  BY <1>4 DEF Inv, Types, FlushState
<1> QED BY <1>1, <1>4, <1>5

LEMMA DiscardedQueued ==
  ASSUME Inv, Discarded
  PROVE  Queued'
<1>1. /\ queue' = <<>> /\ Len(queue') = 0
      /\ flush' = [f \in Flushes |-> IF flush[f].st = "waiting"
                                     THEN [flush[f] EXCEPT !.st = "failed"] ELSE flush[f]]
  BY DiscardedFailsAll
<1>2. \A f \in Flushes : flush'[f].st # "waiting"
  BY <1>1 DEF Inv, Types
<1> QED BY <1>1, <1>2 DEF Queued

\* A new entry: a message takes the next number, a flush or the stop the number of the last.
LEMMA PutInv ==
  ASSUME Inv, ~Broken, ~WriterDone, ~closing,
         NEW kind \in Payload \cup {"flush", "stop"}, NEW fs \in SUBSET Flushes,
         NEW e, e = [kind |-> kind, n |-> sent', f |-> fs],
         sent' = sent + Msg(e), Put(kind, sent', fs),
         UNCHANGED <<failure, writer, current, got>>
  PROVE  queue' \in Seq(Entry) /\ InOrder'
<1>1. e \in Entry /\ sent' \in Nat /\ Msg(e) \in {0, 1} /\ e.n = sent' /\ sent \in Nat
  BY DEF Entry, Msg, Inv, Types
<1>2. queue' = Append(queue, e) /\ queue \in Seq(Entry)
  BY DEF Put, Inv, Types
<1>3. /\ queue' \in Seq(Entry) /\ Len(queue') = Len(queue) + 1 /\ Len(queue) \in Nat
      /\ queue' # <<>> /\ queue'[Len(queue) + 1] = e
      /\ \A i \in 1..Len(queue) : queue'[i] = queue[i]
  BY <1>1, <1>2, AppendFacts
<1>4. InOrder
  BY DEF Inv
<1>5. Taken' = Taken /\ Taken \in Nat
  BY DEF Taken, Inv, Types
<1>6. Taken' <= sent' /\ (writer' = "writing" => current' = Taken')
  BY <1>1, <1>4, <1>5 DEF InOrder
<1>7. \A i \in 1..Len(queue') : queue'[i].n <= sent'
  <2> SUFFICES ASSUME NEW i \in 1..Len(queue') PROVE queue'[i].n <= sent'
    OBVIOUS
  <2>1. CASE i = Len(queue) + 1
    BY <1>1, <1>3, <2>1
  <2>2. CASE i # Len(queue) + 1
    <3>1. i \in 1..Len(queue) /\ queue'[i] = queue[i]
      BY <1>3, <2>2
    <3>2. queue[i] \in Entry
      BY <1>2, <3>1, ElementOfSeq
    <3>3. queue[i].n \in Nat /\ queue[i].n <= sent
      BY <1>4, <3>1, <3>2 DEF Entry, InOrder
    <3> QED BY <1>1, <3>1, <3>3
  <2> QED BY <2>1, <2>2
<1>8. queue = <<>> <=> Len(queue) = 0
  BY <1>2, EmptySeq
<1>9. queue'[1].n = Taken' + Msg(queue'[1]) /\ queue'[Len(queue')].n = sent'
  <2>1. CASE Len(queue) = 0
    <3>1. queue'[1] = e /\ Len(queue') = 1
      BY <1>3, <2>1
    <3>2. Taken = sent
      BY <1>4, <1>8, <2>1 DEF InOrder
    <3>3. e.n = Taken' + Msg(e)
      BY <1>1, <1>5, <3>2
    <3> QED BY <1>1, <3>1, <3>3
  <2>2. CASE Len(queue) # 0
    <3>1. queue'[1] = queue[1]
      BY <1>3, <2>2
    <3>2. queue[1].n = Taken + Msg(queue[1])
      BY <1>4, <1>8, <2>2 DEF InOrder
    <3>3. Msg(queue'[1]) = Msg(queue[1])
      BY <3>1 DEF Msg
    <3> QED BY <1>1, <1>3, <1>5, <3>1, <3>2, <3>3
  <2> QED BY <2>1, <2>2
<1>10. \A i \in 1..Len(queue') : i > 1 => queue'[i].n = queue'[i - 1].n + Msg(queue'[i])
  <2> SUFFICES ASSUME NEW i \in 1..Len(queue'), i > 1
               PROVE  queue'[i].n = queue'[i - 1].n + Msg(queue'[i])
    OBVIOUS
  <2>1. CASE i = Len(queue) + 1
    <3>1. queue'[i] = e /\ queue'[i - 1] = queue[Len(queue)] /\ Len(queue) # 0
      BY <1>3, <2>1
    <3>2. queue[Len(queue)].n = sent
      BY <1>4, <1>8, <3>1 DEF InOrder
    <3> QED BY <1>1, <3>1, <3>2
  <2>2. CASE i # Len(queue) + 1
    <3>1. i \in 1..Len(queue) /\ queue'[i] = queue[i] /\ queue'[i - 1] = queue[i - 1]
      BY <1>3, <2>2
    <3>2. queue[i].n = queue[i - 1].n + Msg(queue[i])
      BY <1>4, <3>1 DEF InOrder
    <3> QED BY <3>1, <3>2
  <2> QED BY <2>1, <2>2
<1> QED BY <1>3, <1>6, <1>7, <1>9, <1>10 DEF InOrder

LEMMA PutQueued ==
  ASSUME Inv, ~WriterDone, ~closing,
         NEW kind \in Payload \cup {"flush", "stop"}, NEW fs \in SUBSET Flushes,
         sent' \in Nat, Put(kind, sent', fs),
         \A g \in Flushes \ fs : flush'[g] = flush[g],
         \A g \in fs : /\ kind = "flush" /\ fs = {g} /\ flush[g].st = "idle"
                       /\ flush'[g].st = "waiting" /\ flush'[g].upto = sent'
  PROVE  /\ Queued'
         /\ \A i \in 1..Len(queue') : queue'[i].kind = "stop" => i = Len(queue') /\ kind = "stop"
<1> DEFINE e == [kind |-> kind, n |-> sent', f |-> fs]
<1>1. e \in Entry /\ queue' = Append(queue, e) /\ queue \in Seq(Entry)
  BY DEF Put, Entry, Inv, Types
<1> HIDE DEF e
<1>2. /\ Len(queue') = Len(queue) + 1 /\ Len(queue) \in Nat /\ queue'[Len(queue) + 1] = e
      /\ \A i \in 1..Len(queue) : queue'[i] = queue[i]
  BY <1>1, AppendFacts
<1>3. e.kind = kind /\ e.n = sent' /\ e.f = fs
  BY DEF e
<1>4. \A f \in Flushes : flush'[f].st = "waiting" =>
        \E i \in 1..Len(queue') : queue'[i].kind = "flush" /\ f \in queue'[i].f
  <2> SUFFICES ASSUME NEW f \in Flushes, flush'[f].st = "waiting"
               PROVE  \E i \in 1..Len(queue') : queue'[i].kind = "flush" /\ f \in queue'[i].f
    OBVIOUS
  <2>1. CASE f \in fs
    BY <1>2, <1>3, <2>1
  <2>2. CASE f \notin fs
    <3>1. PICK i \in 1..Len(queue) : queue[i].kind = "flush" /\ f \in queue[i].f
      BY <2>2 DEF Inv, Queued
    <3> QED BY <1>2, <3>1
  <2> QED BY <2>1, <2>2
<1>5. \A i \in 1..Len(queue'), f \in Flushes :
        f \in queue'[i].f => /\ queue'[i].kind = "flush" /\ queue'[i].f = {f}
                             /\ flush'[f].upto = queue'[i].n /\ flush'[f].st # "idle"
  <2> SUFFICES ASSUME NEW i \in 1..Len(queue'), NEW f \in Flushes, f \in queue'[i].f
               PROVE  /\ queue'[i].kind = "flush" /\ queue'[i].f = {f}
                      /\ flush'[f].upto = queue'[i].n /\ flush'[f].st # "idle"
    OBVIOUS
  <2>1. CASE i = Len(queue) + 1
    BY <1>2, <1>3, <2>1
  <2>2. CASE i # Len(queue) + 1
    <3>1. i \in 1..Len(queue) /\ queue'[i] = queue[i]
      BY <1>2, <2>2
    <3>2. /\ queue[i].kind = "flush" /\ queue[i].f = {f}
          /\ flush[f].upto = queue[i].n /\ flush[f].st # "idle"
      BY <3>1 DEF Inv, Queued
    <3>3. flush'[f] = flush[f]
      BY <3>2
    <3> QED BY <3>1, <3>2, <3>3
  <2> QED BY <2>1, <2>2
<1>6. ASSUME NEW i \in 1..Len(queue'), queue'[i].kind = "stop"
      PROVE  i = Len(queue') /\ kind = "stop"
  <2>1. CASE i = Len(queue) + 1
    BY <1>2, <1>3, <1>6, <2>1
  <2>2. CASE i # Len(queue) + 1
    <3>1. i \in 1..Len(queue) /\ queue'[i] = queue[i]
      BY <1>2, <2>2
    <3> QED BY <1>6, <3>1 DEF Inv, Stopping
  <2> QED BY <2>1, <2>2
<1> QED BY <1>4, <1>5, <1>6 DEF Queued

\* The writer takes the first entry: its number is the next one.
LEMMA TakeInv ==
  ASSUME Inv, WriterTakes
  PROVE  Inv'
<1> DEFINE e == Head(queue)
<1>1. /\ Tail(queue) \in Seq(Entry) /\ Len(queue) \in Nat \ {0}
      /\ Len(Tail(queue)) = Len(queue) - 1 /\ e = queue[1] /\ queue[1] \in Entry
      /\ \A i \in 1..Len(Tail(queue)) : Tail(queue)[i] = queue[i + 1]
      /\ Tail(queue) = <<>> <=> Len(queue) = 1
  BY TailFacts DEF WriterTakes, Inv, Types
<1>2. /\ queue' = Tail(queue) /\ UNCHANGED <<closing, failure, aclose, sent, got>>
      /\ writer = "get" /\ queue # <<>>
  BY DEF WriterTakes
<1>3. failure = "none" /\ ~Broken /\ InOrder
  BY <1>2 DEF Inv, Stopping, Broken
<1>4. e.kind \in Payload \cup {"flush", "stop"} /\ e.n \in Nat /\ e.f \subseteq Flushes
  BY <1>1 DEF Entry
<1>5. \/ e.kind \in Payload /\ writer' = "writing" /\ current' = e.n /\ UNCHANGED flush
      \/ e.kind = "flush" /\ Settle(e.f, "done") /\ UNCHANGED <<current, writer>>
      \/ e.kind = "stop" /\ writer' = "done" /\ UNCHANGED <<current, flush>>
  BY DEF WriterTakes
<1>6. Taken' = Taken + Msg(e) /\ Taken = Len(got) /\ Taken \in Nat /\ Msg(e) \in {0, 1}
  BY <1>2, <1>4, <1>5 DEF Taken, Msg, Payload, Inv, Types
<1>7. Taken' = e.n /\ e.n <= sent /\ sent \in Nat
  BY <1>1, <1>2, <1>3, <1>6 DEF InOrder, Inv, Types
<1>8. flush' \in [Flushes -> [st : FlushState, upto : Nat]]
  BY <1>5 DEF Settle, Inv, Types, FlushState
<1>9. Types'
  BY <1>1, <1>2, <1>4, <1>5, <1>8 DEF Inv, Types
<1>10. InOrder'
  <2>1. Taken' <= sent' /\ (writer' = "writing" => current' = Taken')
    BY <1>2, <1>5, <1>7 DEF Payload
  <2>2. queue' = <<>> => Taken' = sent'
    BY <1>1, <1>2, <1>3, <1>7 DEF InOrder
  <2>3. ASSUME queue' # <<>>
        PROVE  queue'[1].n = Taken' + Msg(queue'[1]) /\ queue'[Len(queue')].n = sent'
    <3>1. Len(queue) > 1 /\ queue'[1] = queue[2] /\ queue'[Len(queue')] = queue[Len(queue)]
      BY <1>1, <1>2, <2>3
    <3>2. queue[2].n = queue[1].n + Msg(queue[2]) /\ queue[Len(queue)].n = sent
      BY <1>1, <1>2, <1>3, <3>1 DEF InOrder
    <3> QED BY <1>1, <1>2, <1>7, <3>1, <3>2
  <2>4. ASSUME NEW i \in 1..Len(queue'), i > 1
        PROVE  queue'[i].n = queue'[i - 1].n + Msg(queue'[i])
    <3>1. queue'[i] = queue[i + 1] /\ queue'[i - 1] = queue[i] /\ i + 1 \in 1..Len(queue)
      BY <1>1, <1>2, <2>4
    <3>2. queue[i + 1].n = queue[i].n + Msg(queue[i + 1])
      BY <1>3, <2>4, <3>1 DEF InOrder
    <3> QED BY <3>1, <3>2
  <2>5. ASSUME NEW i \in 1..Len(queue') PROVE queue'[i].n <= sent'
    <3>1. queue'[i] = queue[i + 1] /\ i + 1 \in 1..Len(queue)
      BY <1>1, <1>2
    <3> QED BY <1>2, <1>3, <3>1 DEF InOrder
  <2> QED BY <2>1, <2>2, <2>3, <2>4, <2>5 DEF InOrder
<1>11. Queued'
  <2>1. \A f \in Flushes : /\ flush'[f].upto = flush[f].upto
                           /\ flush'[f].st = "waiting" => flush[f].st = "waiting" /\ f \notin e.f
                           /\ flush[f].st # "idle" => flush'[f].st # "idle"
    <3>1. CASE e.kind = "flush"
      BY <1>5, <3>1 DEF Settle, Payload, Inv, Types
    <3>2. CASE e.kind # "flush"
      BY <1>1, <1>5, <3>2 DEF Inv, Queued
    <3> QED BY <3>1, <3>2
  <2>2. ASSUME NEW f \in Flushes, flush'[f].st = "waiting"
        PROVE  \E i \in 1..Len(queue') : queue'[i].kind = "flush" /\ f \in queue'[i].f
    <3>1. PICK i \in 1..Len(queue) : queue[i].kind = "flush" /\ f \in queue[i].f
      BY <2>1, <2>2 DEF Inv, Queued
    <3>2. i # 1
      BY <1>1, <2>1, <2>2, <3>1
    <3>3. i - 1 \in 1..Len(queue') /\ queue'[i - 1] = queue[i]
      BY <1>1, <1>2, <3>2
    <3> QED BY <3>1, <3>3
  <2>3. ASSUME NEW i \in 1..Len(queue'), NEW f \in Flushes, f \in queue'[i].f
        PROVE  /\ queue'[i].kind = "flush" /\ queue'[i].f = {f}
               /\ flush'[f].upto = queue'[i].n /\ flush'[f].st # "idle"
    <3>1. queue'[i] = queue[i + 1] /\ i + 1 \in 1..Len(queue)
      BY <1>1, <1>2
    <3> QED BY <2>1, <2>3, <3>1 DEF Inv, Queued
  <2> QED BY <2>2, <2>3 DEF Queued
<1>12. Stopping'
  <2> HIDE DEF e
  <2>1. Len(queue') = Len(queue) - 1 /\ Len(queue) \in Nat \ {0} /\ closing' = closing
    BY <1>1, <1>2
  <2>2. \A i \in 1..Len(queue) : queue[i].kind = "stop" => i = Len(queue) /\ closing
    BY DEF Inv, Stopping
  <2>3. ASSUME NEW i \in 1..Len(queue'), queue'[i].kind = "stop"
        PROVE  i = Len(queue') /\ closing'
    <3>1. queue'[i] = queue[i + 1] /\ i + 1 \in 1..Len(queue)
      BY <1>1, <1>2
    <3>2. i + 1 = Len(queue) /\ closing
      BY <2>3, <2>2, <3>1
    <3> QED BY <2>1, <3>2
  <2>4. writer' = "done" => closing /\ Len(queue) = 1
    <3>1. queue[1].kind = "stop" => 1 = Len(queue) /\ closing
      BY <2>1, <2>2
    <3>2. CASE queue[1].kind = "stop"
      BY <3>1, <3>2
    <3>3. CASE queue[1].kind # "stop"
      BY <1>1, <1>2, <1>5, <3>3
    <3> QED BY <3>2, <3>3
  <2>5. writer' \in {"get", "writing", "done"}
    BY <1>2, <1>5
  <2> QED BY <1>1, <1>2, <1>3, <2>3, <2>4, <2>5 DEF Inv, Stopping
<1> QED BY <1>9, <1>10, <1>11, <1>12 DEF Inv

\* The steps that empty the queue: a failed or slow write, and the end of aclose.
LEMMA DropInv ==
  ASSUME Inv, WriteFails \/ WriteSlow \/ AcloseReturns \/ (AcloseBegin /\ WriterDone)
  PROVE  Inv'
<1>1. Discarded /\ UNCHANGED <<current, sent, got>>
  BY DEF WriteFails, WriteSlow, AcloseReturns, AcloseBegin, Put, WriterDone
<1>2. /\ queue' = <<>> /\ flush' \in [Flushes -> [st : FlushState, upto : Nat]]
      /\ queue' \in Seq(Entry) /\ Len(queue') = 0
  BY <1>1, DiscardedFailsAll, EmptySeq
<1>3. /\ closing' \in BOOLEAN /\ failure' \in {"none", "gone", "slow"}
      /\ writer' \in {"get", "writing", "on_slow", "done", "cut"}
      /\ aclose' \in {"idle", "draining", "done"}
  BY DEF WriteFails, WriteSlow, AcloseReturns, AcloseBegin, Inv, Types
<1>4. Types'
  BY <1>1, <1>2, <1>3 DEF Inv, Types
<1>5. Queued'
  BY <1>1, DiscardedQueued
<1>6. CASE WriteFails \/ WriteSlow
  <2>1. Broken'
    BY <1>6 DEF WriteFails, WriteSlow, Broken
  <2>2. Stopping'
    BY <1>2, <1>6 DEF WriteFails, WriteSlow, Inv, Stopping
  <2> QED BY <1>4, <1>5, <2>1, <2>2 DEF Inv
<1>7. CASE AcloseReturns \/ (AcloseBegin /\ WriterDone)
  <2>1. UNCHANGED <<writer, failure>> /\ writer \in {"done", "cut"} /\ closing' = TRUE
        /\ aclose' = "done"
    BY <1>7 DEF AcloseReturns, AcloseBegin, WriterDone, Inv, Types, Stopping
  <2>2. Stopping'
    BY <1>2, <2>1 DEF Inv, Stopping
  <2>3. ~Broken' => InOrder'
    <3> SUFFICES ASSUME ~Broken' PROVE InOrder'
      OBVIOUS
    <3>1. ~Broken /\ writer = "done" /\ failure = "none" /\ queue = <<>>
      BY <2>1 DEF Broken, Inv, Stopping
    <3>2. InOrder /\ UNCHANGED <<queue, Taken>>
      BY <1>1, <1>2, <2>1, <3>1 DEF Inv, Taken
    <3> QED BY <1>1, <1>2, <2>1, <3>2 DEF InOrder
  <2> QED BY <1>4, <1>5, <2>2, <2>3 DEF Inv
<1> QED BY <1>6, <1>7

LEMMA SendInv ==
  ASSUME Inv, NEW kind \in Payload, Send(kind)
  PROVE  Inv'
<1> DEFINE e == [kind |-> kind, n |-> sent', f |-> {}]
<1>1. /\ failure = "none" /\ ~closing /\ ~WriterDone /\ ~Broken
      /\ sent' = sent + 1 /\ Put(kind, sent', {}) /\ sent' \in Nat
      /\ UNCHANGED <<closing, failure, writer, current, aclose, got, flush>>
  BY DEF Send, Open, Broken, WriterDone, Inv, Types
<1>2. Msg(e) = 1
  BY DEF Msg
<1>3. queue' \in Seq(Entry) /\ InOrder'
  BY <1>1, <1>2, PutInv
<1>4. Queued' /\ \A i \in 1..Len(queue') : queue'[i].kind # "stop"
  BY <1>1, PutQueued DEF Payload
<1>5. Types' /\ Stopping'
  BY <1>1, <1>3, <1>4 DEF Inv, Types, Stopping, WriterDone
<1> QED BY <1>3, <1>4, <1>5 DEF Inv

LEMMA FlushBeginInv ==
  ASSUME Inv, NEW f \in Flushes, FlushBegin(f)
  PROVE  Inv'
<1> DEFINE e == [kind |-> "flush", n |-> sent', f |-> {f}]
<1>1. /\ failure = "none" /\ ~closing /\ ~WriterDone /\ ~Broken /\ flush[f].st = "idle"
      /\ sent' = sent /\ Put("flush", sent', {f}) /\ sent' \in Nat
      /\ UNCHANGED <<closing, failure, writer, current, aclose, got>>
      /\ flush' = [flush EXCEPT ![f] = [st |-> "waiting", upto |-> sent']]
  BY DEF FlushBegin, Open, Broken, WriterDone, Inv, Types
<1>2. Msg(e) = 0
  BY DEF Msg, Payload
<1>3. queue' \in Seq(Entry) /\ InOrder'
  <2>1. sent' = sent + Msg(e)
    BY <1>1, <1>2
  <2> QED BY <1>1, <2>1, PutInv
<1>4. /\ flush'[f].st = "waiting" /\ flush'[f].upto = sent'
      /\ \A g \in Flushes \ {f} : flush'[g] = flush[g]
      /\ flush' \in [Flushes -> [st : FlushState, upto : Nat]]
  BY <1>1 DEF Inv, Types, FlushState
<1>5. Queued' /\ \A i \in 1..Len(queue') : queue'[i].kind # "stop"
  <2> HIDE DEF e
  <2>1. PICK kind \in Payload \cup {"flush", "stop"} : kind = "flush"
    OBVIOUS
  <2>2. PICK fs \in SUBSET Flushes : fs = {f}
    OBVIOUS
  <2>3. \A g \in fs : /\ kind = "flush" /\ fs = {g} /\ flush[g].st = "idle"
                      /\ flush'[g].st = "waiting" /\ flush'[g].upto = sent'
    BY <1>1, <1>4, <2>1, <2>2
  <2>4. Put(kind, sent', fs) /\ \A g \in Flushes \ fs : flush'[g] = flush[g]
    BY <1>1, <1>4, <2>1, <2>2
  <2>5. ~WriterDone /\ ~closing /\ sent' \in Nat
    BY <1>1
  <2> QED BY <2>1, <2>3, <2>4, <2>5, PutQueued
<1>6. Types' /\ Stopping'
  BY <1>1, <1>3, <1>4, <1>5 DEF Inv, Types, Stopping, WriterDone
<1> QED BY <1>3, <1>5, <1>6 DEF Inv

\* aclose before the writer is done: the stop goes last.
LEMMA AcloseBeginInv ==
  ASSUME Inv, AcloseBegin, ~WriterDone
  PROVE  Inv'
<1> DEFINE e == [kind |-> "stop", n |-> sent', f |-> {}]
<1>1. /\ ~closing /\ closing' = TRUE /\ aclose' = "draining" /\ sent' = sent
      /\ Put("stop", sent', {}) /\ sent' \in Nat
      /\ UNCHANGED <<failure, writer, current, got, flush>>
  BY DEF AcloseBegin, Inv, Types, Stopping
<1>2. sent' = sent + Msg(e)
  BY <1>1 DEF Msg, Payload, Inv, Types
<1>3. Queued' /\ \A i \in 1..Len(queue') : queue'[i].kind = "stop" => i = Len(queue')
  <2>1. /\ \A g \in Flushes \ {} : flush'[g] = flush[g]
        /\ \A g \in {} : /\ "stop" = "flush" /\ {} = {g} /\ flush[g].st = "idle"
                         /\ flush'[g].st = "waiting" /\ flush'[g].upto = sent'
    BY <1>1
  <2>2. "stop" \in Payload \cup {"flush", "stop"} /\ {} \in SUBSET Flushes
    OBVIOUS
  <2> HIDE DEF e
  <2> QED BY <1>1, <2>1, <2>2, PutQueued
<1>4. queue' \in Seq(Entry)
  BY <1>1, AppendFacts DEF Put, Entry, Inv, Types
<1>5. ~Broken' => InOrder'
  BY <1>1, <1>2, PutInv DEF Broken
<1>6. Types' /\ Stopping'
  BY <1>1, <1>3, <1>4 DEF Inv, Types, Stopping, WriterDone
<1> QED BY <1>3, <1>5, <1>6 DEF Inv

\* The steps that leave the queue alone.
LEMMA OtherInv ==
  ASSUME Inv, WriteOk \/ SlowDropped \/ AcloseTimeout \/ (\E f \in Flushes : FlushCancelled(f))
                \/ UNCHANGED vars
  PROVE  Inv'
<1>1. CASE WriteOk
  <2>1. /\ writer = "writing" /\ writer' = "get" /\ got' = Append(got, current)
        /\ UNCHANGED <<queue, closing, failure, current, aclose, sent, flush>>
    BY <1>1 DEF WriteOk
  <2>2. ~Broken /\ InOrder
    BY <2>1 DEF Inv, Stopping, Broken
  <2>3. got' \in Seq(Nat) /\ Len(got') = Len(got) + 1 /\ Len(got) \in Nat
    BY <2>1 DEF Inv, Types
  <2>4. Taken' = Taken
    BY <2>1, <2>3 DEF Taken
  <2>5. InOrder'
    BY <2>1, <2>2, <2>4 DEF InOrder, Msg
  <2>6. Types' /\ Queued' /\ Stopping'
    BY <2>1, <2>3 DEF Inv, Types, Queued, Stopping
  <2> QED BY <2>5, <2>6 DEF Inv
<1>2. CASE SlowDropped
  <2>1. /\ writer = "on_slow" /\ writer' = "done" /\ failure # "none" /\ Broken'
        /\ UNCHANGED <<queue, closing, failure, current, aclose, sent, got, flush>>
    BY <1>2 DEF SlowDropped, Inv, Stopping, Broken
  <2> QED BY <2>1 DEF Inv, Types, Queued, Stopping
<1>3. CASE AcloseTimeout
  <2>1. /\ writer' = "cut" /\ Broken' /\ aclose = "draining"
        /\ UNCHANGED <<queue, closing, failure, current, aclose, sent, got, flush>>
    BY <1>3 DEF AcloseTimeout, Broken
  <2> QED BY <2>1 DEF Inv, Types, Queued, Stopping
<1>4. ASSUME NEW f \in Flushes, FlushCancelled(f) PROVE Inv'
  <2>1. /\ UNCHANGED <<queue, closing, failure, writer, current, aclose, sent, got>>
        /\ flush' = [flush EXCEPT ![f].st = "cancelled"]
    BY <1>4 DEF FlushCancelled
  <2>2. /\ flush' \in [Flushes -> [st : FlushState, upto : Nat]]
        /\ \A g \in Flushes : /\ flush'[g].upto = flush[g].upto
                              /\ flush'[g].st \in {flush[g].st, "cancelled"}
    BY <2>1 DEF Inv, Types, FlushState
  <2>3. Queued'
    BY <2>1, <2>2 DEF Inv, Queued
  <2>4. Types' /\ Stopping' /\ (~Broken' => InOrder')
    BY <2>1, <2>2 DEF Inv, Types, Stopping, Broken, InOrder, Taken, Msg
  <2> QED BY <2>3, <2>4 DEF Inv
<1>5. CASE UNCHANGED vars
  BY <1>5 DEF vars, Inv, Types, InOrder, Taken, Msg, Queued, Stopping, Broken
<1> QED BY <1>1, <1>2, <1>3, <1>4, <1>5

LEMMA InvInit == Init => Inv
<1> SUFFICES ASSUME Init PROVE Inv
  OBVIOUS
<1>1. /\ queue = <<>> /\ Len(queue) = 0 /\ queue \in Seq(Entry)
      /\ got = <<>> /\ Len(got) = 0 /\ got \in Seq(Nat)
  BY EmptySeq DEF Init
<1>2. Types
  BY <1>1 DEF Init, Types, FlushState
<1>3. InOrder
  BY <1>1 DEF Init, InOrder, Taken
<1>4. Queued
  BY <1>1 DEF Init, Queued
<1>5. Stopping
  BY <1>1 DEF Init, Stopping
<1> QED BY <1>2, <1>3, <1>4, <1>5 DEF Inv

LEMMA InvStep == Inv /\ [Next]_vars => Inv'
BY TakeInv, DropInv, SendInv, FlushBeginInv, AcloseBeginInv, OtherInv DEF Next, Writer
-----------------------------------------------------------------------------
(* The refinement.                                                         *)

LEMMA TakeImplements ==
  ASSUME Inv, WriterTakes
  PROVE  Channel!Next \/ UNCHANGED Channel!vars
<1> DEFINE e == Head(queue)
<1>1. /\ e = queue[1] /\ queue[1] \in Entry /\ Len(queue) \in Nat \ {0}
      /\ writer = "get" /\ UNCHANGED <<closing, failure, sent, got>>
  BY TailFacts DEF WriterTakes, Inv, Types
<1>2. failure = "none" /\ InOrder /\ Taken = Len(got)
  BY <1>1 DEF Inv, Stopping, Broken, Taken, Types
<1>3. CASE e.kind \in Payload
  <2>1. writer' = "writing" /\ UNCHANGED flush
    BY <1>3 DEF WriterTakes, Payload
  <2> QED BY <1>1, <2>1 DEF Channel!vars, Open, WriterDone
<1>4. CASE e.kind = "stop"
  <2>1. writer' = "done" /\ UNCHANGED flush
    BY <1>4 DEF WriterTakes, Payload
  <2>2. closing
    BY <1>1, <1>4 DEF Inv, Stopping
  <2> QED BY <1>1, <2>1, <2>2 DEF Channel!vars, Open, WriterDone
<1>5. CASE e.kind = "flush"
  <2>1. UNCHANGED writer /\ Settle(e.f, "done")
    BY <1>5 DEF WriterTakes, Payload
  <2>2. Open' = Open /\ (failure # "none" \/ writer = "cut")' = (failure # "none" \/ writer = "cut")
    BY <1>1, <2>1 DEF Open, WriterDone
  <2>3. CASE \E g \in Flushes : g \in e.f /\ flush[g].st = "waiting"
    <3>1. PICK g \in Flushes : g \in e.f /\ flush[g].st = "waiting"
      BY <2>3
    <3>2. e.f = {g} /\ flush[g].upto = e.n
      BY <1>1, <3>1 DEF Inv, Queued
    <3>3. e.n = Len(got)
      <4>1. queue[1].n = Taken + Msg(queue[1]) /\ Len(got) \in Nat
        BY <1>1, <1>2, EmptySeq DEF InOrder, WriterTakes, Inv, Types
      <4>2. Msg(queue[1]) = 0
        BY <1>1, <1>5 DEF Msg, Payload
      <4> QED BY <1>1, <1>2, <4>1, <4>2
    <3>4. flush' = [flush EXCEPT ![g].st = "done"]
      BY <2>1, <3>1, <3>2 DEF Settle, Inv, Types
    <3>5. Channel!FlushReturns(g)
      BY <1>1, <2>2, <3>1, <3>2, <3>3, <3>4 DEF Channel!FlushReturns, Inv, Types
    <3> QED BY <3>5 DEF Channel!Next
  <2>4. CASE ~ \E g \in Flushes : g \in e.f /\ flush[g].st = "waiting"
    <3>1. flush' = flush
      BY <2>1, <2>4 DEF Settle, Inv, Types
    <3> QED BY <1>1, <2>2, <3>1 DEF Channel!vars
  <2> QED BY <2>3, <2>4
<1> QED BY <1>1, <1>3, <1>4, <1>5 DEF Entry

LEMMA StepImplements ==
  ASSUME Inv, [Next]_vars
  PROVE  Channel!Next \/ UNCHANGED Channel!vars
<1>1. ASSUME NEW kind \in Payload, Send(kind) PROVE Channel!Send
  BY <1>1 DEF Send, Channel!Send, Open, WriterDone
<1>2. ASSUME NEW f \in Flushes, FlushBegin(f) PROVE Channel!FlushBegin(f)
  BY <1>2 DEF FlushBegin, Channel!FlushBegin, Open, WriterDone
<1>3. ASSUME NEW f \in Flushes, FlushCancelled(f) PROVE Channel!FlushCancelled(f)
  BY <1>3 DEF FlushCancelled, Channel!FlushCancelled, Open, WriterDone
<1>4. CASE WriteOk
  <2>1. failure = "none" /\ ~Broken
    BY <1>4 DEF WriteOk, Inv, Stopping, Broken
  <2>2. current = Len(got) + 1 /\ Len(got) < sent
    BY <1>4, <2>1 DEF WriteOk, Inv, InOrder, Taken, Types
  <2>3. Channel!Write
    BY <1>4, <2>1, <2>2 DEF WriteOk, Channel!Write, Open, WriterDone
  <2> QED BY <2>3 DEF Channel!Next
<1>5. CASE WriteFails \/ WriteSlow
  <2>1. Channel!AllFailed
    BY <1>5, DiscardedFailsAll DEF WriteFails, WriteSlow, Channel!AllFailed
  <2>2. failure' # "none" /\ ~Open' /\ UNCHANGED <<sent, got>>
    BY <1>5 DEF WriteFails, WriteSlow, Open
  <2>3. Channel!Break
    BY <2>1, <2>2 DEF Channel!Break
  <2> QED BY <2>3 DEF Channel!Next
<1>6. CASE SlowDropped
  BY <1>6 DEF SlowDropped, Channel!vars, Open, WriterDone, Inv, Stopping
<1>7. CASE AcloseBegin \/ AcloseReturns
  <2>1. CASE ~WriterDone
    <3>1. Channel!Close
      BY <1>7, <2>1 DEF AcloseBegin, AcloseReturns, Channel!Close, Open
    <3> QED BY <3>1 DEF Channel!Next
  <2>2. CASE WriterDone /\ Broken
    <3>1. Channel!AllFailed
      BY <1>7, <2>2, DiscardedFailsAll
         DEF AcloseBegin, AcloseReturns, Channel!AllFailed
    <3>2. ~Open /\ ~Open' /\ UNCHANGED <<writer, failure, sent, got>>
      BY <1>7, <2>2 DEF AcloseBegin, AcloseReturns, Open, WriterDone
    <3>3. Open' = Open /\ (failure # "none" \/ writer = "cut")' = (failure # "none" \/ writer = "cut")
      BY <3>2 DEF Open
    <3>4. Channel!FailWaiting
      BY <2>2, <3>1, <3>2, <3>3 DEF Channel!FailWaiting, Broken
    <3> QED BY <3>4 DEF Channel!Next
  <2>3. CASE WriterDone /\ ~Broken
    <3>1. closing /\ queue = <<>> /\ AcloseReturns
      BY <1>7, <2>3 DEF AcloseBegin, WriterDone, Broken, Inv, Types, Stopping
    <3>2. \A f \in Flushes : flush[f].st # "waiting"
      BY <3>1, EmptySeq DEF Inv, Queued
    <3>3. flush' = flush
      BY <3>1, <3>2, DiscardedFailsAll DEF AcloseReturns, Inv, Types
    <3> QED BY <2>3, <3>1, <3>3 DEF AcloseReturns, Channel!vars, Open, WriterDone
  <2> QED BY <2>1, <2>2, <2>3
<1>8. CASE AcloseTimeout
  <2>1. Channel!Break
    BY <1>8 DEF AcloseTimeout, Channel!Break, Open, WriterDone
  <2> QED BY <2>1 DEF Channel!Next
<1>9. CASE UNCHANGED vars
  BY <1>9 DEF vars, Channel!vars, Open, WriterDone
<1> QED BY <1>1, <1>2, <1>3, <1>4, <1>5, <1>6, <1>7, <1>8, <1>9, TakeImplements
        DEF Next, Writer, Channel!Next

\* Whatever the client, the producers and aclose do, what reaches the socket is the accepted
\* messages in their order without a gap, a flush that succeeds tells the truth, and after a
\* failure nothing more is written.
THEOREM SenderImplementsChannel == Spec => IsAClientChannel
<1>1. Init => Channel!Init
  BY DEF Init, Channel!Init, Open, WriterDone
<1>2. Inv /\ [Next]_vars => [Channel!Next]_(Channel!vars)
  BY StepImplements
<1> QED BY <1>1, <1>2, InvInit, InvStep, PTL DEF Spec, IsAClientChannel, Channel!Spec

\* aclose leaves neither a message nor a flush behind, whichever way the writer ended.
THEOREM NothingIsLeftBehind == Spec => []NothingLeftBehind
<1> DEFINE Over == Inv /\ NothingLeftBehind
<1>1. Init => Over
  BY InvInit DEF Init, NothingLeftBehind
<1>2. Over /\ [Next]_vars => Over'
  <2> SUFFICES ASSUME Over, [Next]_vars PROVE NothingLeftBehind'
    BY InvStep
  <2>1. CASE aclose = "done"
    <3>1. WriterDone /\ queue = <<>> /\ (\A f \in Flushes : flush[f].st # "waiting") /\ closing
      BY <2>1 DEF NothingLeftBehind, Inv, Stopping
    <3>2. UNCHANGED <<queue, writer, flush, aclose>>
      BY <2>1, <3>1 DEF Next, Writer, Send, FlushBegin, FlushCancelled, WriterTakes, WriteOk,
         WriteFails, WriteSlow, SlowDropped, AcloseBegin, AcloseTimeout, AcloseReturns, Open,
         WriterDone, vars
    <3> QED BY <3>1, <3>2 DEF NothingLeftBehind, WriterDone
  <2>2. CASE aclose # "done" /\ aclose' = "done"
    <3>1. Discarded /\ WriterDone /\ UNCHANGED writer
      BY <2>2 DEF Next, Writer, Send, FlushBegin, FlushCancelled, WriterTakes, WriteOk,
         WriteFails, WriteSlow, SlowDropped, AcloseBegin, AcloseTimeout, AcloseReturns, vars
    <3>2. /\ queue' = <<>>
          /\ flush' = [f \in Flushes |-> IF flush[f].st = "waiting"
                                         THEN [flush[f] EXCEPT !.st = "failed"] ELSE flush[f]]
      BY <3>1, DiscardedFailsAll
    <3>3. \A f \in Flushes : flush'[f].st # "waiting"
      BY <3>2 DEF Inv, Types
    <3> QED BY <3>1, <3>2, <3>3 DEF NothingLeftBehind, WriterDone
  <2> QED BY <2>1, <2>2 DEF NothingLeftBehind
<1>3. Over => NothingLeftBehind
  OBVIOUS
<1> QED BY <1>1, <1>2, <1>3, PTL DEF Spec
-----------------------------------------------------------------------------
(* What is pending is what the queue holds.                                *)

\* The places of a queue that hold an entry of these kinds.
Places(q, kinds) == {i \in DOMAIN q : q[i].kind \in kinds}

Counts == pending \in [msgs : Nat, bytes : Nat] /\ CountsAreExact

LEMMA PlacesFinite ==
  ASSUME NEW q \in Seq(Entry), NEW kinds
  PROVE  /\ DOMAIN q = 1..Len(q) /\ Len(q) \in Nat
         /\ IsFiniteSet(Places(q, kinds)) /\ Cardinality(Places(q, kinds)) \in Nat
<1>1. DOMAIN q = 1..Len(q) /\ Len(q) \in Nat
  OBVIOUS
<1>2. IsFiniteSet(DOMAIN q)
  BY <1>1, FS_Interval
<1>3. IsFiniteSet(Places(q, kinds))
  BY <1>2, FS_Subset DEF Places
<1> QED BY <1>1, <1>3, FS_CardinalityType

LEMMA PlacesAppend ==
  ASSUME NEW q \in Seq(Entry), NEW e \in Entry, NEW kinds
  PROVE  Cardinality(Places(Append(q, e), kinds)) =
           Cardinality(Places(q, kinds)) + (IF e.kind \in kinds THEN 1 ELSE 0)
<1> DEFINE r == Append(q, e)
           n == Len(q) + 1
<1>1. /\ r \in Seq(Entry) /\ Len(r) = n /\ Len(q) \in Nat /\ r[n] = e
      /\ \A i \in 1..Len(q) : r[i] = q[i]
  BY AppendFacts
<1>2. DOMAIN r = 1..n /\ DOMAIN q = 1..Len(q)
  BY <1>1
<1> HIDE DEF r
<1>3. CASE e.kind \in kinds
  <2>1. Places(r, kinds) = Places(q, kinds) \cup {n} /\ n \notin Places(q, kinds)
    BY <1>1, <1>2, <1>3 DEF Places
  <2> QED BY <1>3, <2>1, PlacesFinite, FS_AddElement DEF r
<1>4. CASE e.kind \notin kinds
  <2>1. Places(r, kinds) = Places(q, kinds)
    BY <1>1, <1>2, <1>4 DEF Places
  <2> QED BY <1>4, <2>1, PlacesFinite DEF r
<1> QED BY <1>3, <1>4

LEMMA PlacesTail ==
  ASSUME NEW q \in Seq(Entry), q # <<>>, NEW kinds
  PROVE  Cardinality(Places(Tail(q), kinds)) =
           Cardinality(Places(q, kinds)) - (IF q[1].kind \in kinds THEN 1 ELSE 0)
<1> DEFINE r     == Tail(q)
           later == Places(q, kinds) \ {1}
           back  == [i \in later |-> i - 1]
<1>1. /\ r \in Seq(Entry) /\ Len(q) \in Nat \ {0} /\ Len(r) = Len(q) - 1
      /\ \A i \in 1..Len(r) : r[i] = q[i + 1]
  BY TailFacts
<1>2. DOMAIN r = 1..Len(r) /\ DOMAIN q = 1..Len(q)
  BY <1>1
<1> HIDE DEF r
<1>3. back \in Bijection(later, Places(r, kinds))
  <2>1. \A i \in later : i - 1 \in Places(r, kinds)
    BY <1>1, <1>2 DEF Places
  <2>2. \A i, j \in later : back[i] = back[j] => i = j
    BY <1>2 DEF Places
  <2>3. \A j \in Places(r, kinds) : j + 1 \in later /\ back[j + 1] = j
    BY <1>1, <1>2 DEF Places
  <2>4. back \in [later -> Places(r, kinds)]
    BY <2>1
  <2>5. \A j \in Places(r, kinds) : \E i \in later : back[i] = j
    BY <2>3
  <2> HIDE DEF back, later
  <2>6. back \in Injection(later, Places(r, kinds))
    BY <2>2, <2>4 DEF Injection, IsInjective
  <2>7. back \in Surjection(later, Places(r, kinds))
    BY <2>4, <2>5 DEF Surjection
  <2> QED BY <2>6, <2>7 DEF Bijection
<1>4. IsFiniteSet(later) /\ IsFiniteSet(Places(q, kinds)) /\ Cardinality(Places(q, kinds)) \in Nat
  BY PlacesFinite, FS_RemoveElement, FS_Subset
<1>5. Cardinality(Places(r, kinds)) = Cardinality(later)
  <2> HIDE DEF back, later
  <2>1. ExistsBijection(later, Places(r, kinds))
    BY <1>3 DEF ExistsBijection
  <2> QED BY <1>4, <2>1, FS_Bijection
<1>6. CASE q[1].kind \in kinds
  <2>1. 1 \in Places(q, kinds)
    BY <1>1, <1>2, <1>6 DEF Places
  <2> QED BY <1>4, <1>5, <1>6, <2>1, FS_RemoveElement DEF r
<1>7. CASE q[1].kind \notin kinds
  <2>1. later = Places(q, kinds)
    BY <1>7 DEF Places
  <2> HIDE DEF later
  <2>2. Cardinality(Places(r, kinds)) = Cardinality(Places(q, kinds)) - 0
    BY <1>4, <1>5, <2>1
  <2> QED BY <1>7, <2>2 DEF r
<1> QED BY <1>6, <1>7

\* CountsAreExact in these terms.
LEMMA ExactPlaces ==
  CountsAreExact <=> /\ pending.msgs = Cardinality(Places(queue, Payload))
                     /\ pending.bytes = Cardinality(Places(queue, {"bytes"}))
<1>1. {i \in DOMAIN queue : queue[i].kind = "bytes"} = Places(queue, {"bytes"})
  BY DEF Places
<1> QED BY <1>1 DEF CountsAreExact, Places

\* A new entry that is counted in.
LEMMA PutCounts ==
  ASSUME Inv, Counts, NEW kind \in Payload \cup {"flush", "stop"}, NEW n \in Nat,
         NEW fs \in SUBSET Flushes, Put(kind, n, fs),
         pending' = [msgs  |-> pending.msgs + (IF kind \in Payload THEN 1 ELSE 0),
                     bytes |-> pending.bytes + Bytes(kind)]
  PROVE  Counts'
<1> DEFINE e == [kind |-> kind, n |-> n, f |-> fs]
<1>1. e \in Entry /\ e.kind = kind /\ queue' = Append(queue, e) /\ queue \in Seq(Entry)
  BY DEF Put, Entry, Inv, Types
<1> HIDE DEF e
<1>2. /\ Cardinality(Places(queue', Payload))
           = Cardinality(Places(queue, Payload)) + (IF kind \in Payload THEN 1 ELSE 0)
      /\ Cardinality(Places(queue', {"bytes"})) = Cardinality(Places(queue, {"bytes"})) + Bytes(kind)
  BY <1>1, PlacesAppend DEF Bytes
<1>3. /\ pending.msgs = Cardinality(Places(queue, Payload))
      /\ pending.bytes = Cardinality(Places(queue, {"bytes"}))
  BY ExactPlaces DEF Counts
<1>4. /\ pending'.msgs = Cardinality(Places(queue', Payload))
      /\ pending'.bytes = Cardinality(Places(queue', {"bytes"}))
  BY <1>2, <1>3
<1>5. pending' \in [msgs : Nat, bytes : Nat]
  BY DEF Counts, Bytes
<1> QED BY <1>4, <1>5 DEF Counts, CountsAreExact, Places

LEMMA TakeCounts ==
  ASSUME Inv, Counts, WriterTakes
  PROVE  Counts'
<1> DEFINE e == Head(queue)
<1>1. /\ queue \in Seq(Entry) /\ queue # <<>> /\ queue' = Tail(queue)
      /\ e = queue[1] /\ queue[1] \in Entry
  BY TailFacts DEF WriterTakes, Inv, Types
<1>2. \/ e.kind \in {"stop", "flush"} /\ pending' = pending
      \/ e.kind \in Payload /\ CountOut(e)
  BY DEF WriterTakes
<1>3. pending' = [msgs  |-> pending.msgs - (IF e.kind \in Payload THEN 1 ELSE 0),
                  bytes |-> pending.bytes - Bytes(e.kind)]
  BY <1>2 DEF CountOut, Payload, Bytes, Counts
<1> HIDE DEF e
<1>4. /\ Cardinality(Places(queue', Payload))
           = Cardinality(Places(queue, Payload)) - (IF e.kind \in Payload THEN 1 ELSE 0)
      /\ Cardinality(Places(queue', {"bytes"})) = Cardinality(Places(queue, {"bytes"})) - Bytes(e.kind)
  BY <1>1, PlacesTail DEF Bytes
<1>5. /\ pending.msgs = Cardinality(Places(queue, Payload))
      /\ pending.bytes = Cardinality(Places(queue, {"bytes"}))
  BY ExactPlaces DEF Counts
<1>6. /\ pending'.msgs = Cardinality(Places(queue', Payload))
      /\ pending'.bytes = Cardinality(Places(queue', {"bytes"}))
  BY <1>3, <1>4, <1>5
<1>7. Cardinality(Places(queue', Payload)) \in Nat /\ Cardinality(Places(queue', {"bytes"})) \in Nat
  BY InvStep, PlacesFinite DEF Next, Writer, Inv, Types
<1>8. pending' \in [msgs : Nat, bytes : Nat]
  BY <1>3, <1>6, <1>7
<1> QED BY <1>6, <1>8 DEF Counts, CountsAreExact, Places

LEMMA DropCounts ==
  ASSUME Inv, Counts, Discarded
  PROVE  Counts'
<1>1. /\ queue' = <<>>
      /\ pending' = [msgs  |-> pending.msgs - Cardinality(Places(queue, Payload)),
                     bytes |-> pending.bytes - Cardinality(Places(queue, {"bytes"}))]
  BY DEF Discarded, Places
<1>2. /\ pending.msgs = Cardinality(Places(queue, Payload)) /\ pending.msgs \in Nat
      /\ pending.bytes = Cardinality(Places(queue, {"bytes"})) /\ pending.bytes \in Nat
  BY ExactPlaces DEF Counts
<1>3. pending' = [msgs |-> 0, bytes |-> 0]
  BY <1>1, <1>2
<1>4. \A kinds : Places(queue', kinds) = {}
  BY <1>1 DEF Places
<1>5. Cardinality({}) = 0
  BY FS_EmptySet
<1> QED BY <1>3, <1>4, <1>5 DEF Counts, CountsAreExact, Places

LEMMA CountsStep == Inv /\ Counts /\ [Next]_vars => Counts'
<1> SUFFICES ASSUME Inv, Counts, [Next]_vars PROVE Counts'
  OBVIOUS
<1>1. pending \in [msgs : Nat, bytes : Nat] /\ sent \in Nat
  BY DEF Counts, Inv, Types
<1>2. ASSUME NEW kind \in Payload, Send(kind) PROVE Counts'
  BY <1>1, <1>2, PutCounts DEF Send
<1>3. ASSUME NEW kind \in {"flush", "stop"}, NEW fs \in SUBSET Flushes, Put(kind, sent, fs), UNCHANGED pending
      PROVE  Counts'
  <2>1. pending' = [msgs  |-> pending.msgs + (IF kind \in Payload THEN 1 ELSE 0),
                    bytes |-> pending.bytes + Bytes(kind)]
    BY <1>1, <1>3 DEF Payload, Bytes
  <2> QED BY <1>1, <1>3, <2>1, PutCounts
<1>4. ASSUME NEW f \in Flushes, FlushBegin(f) PROVE Counts'
  BY <1>3, <1>4 DEF FlushBegin
<1>5. CASE WriteFails \/ WriteSlow \/ AcloseReturns
  BY <1>5, DropCounts DEF WriteFails, WriteSlow, AcloseReturns
<1>6. CASE AcloseBegin
  BY <1>3, <1>6, DropCounts DEF AcloseBegin
<1>7. CASE UNCHANGED <<queue, pending>>
  BY <1>7 DEF Counts, CountsAreExact
<1>8. CASE WriteOk \/ SlowDropped \/ AcloseTimeout \/ UNCHANGED vars \/ \E f \in Flushes : FlushCancelled(f)
  BY <1>7, <1>8 DEF WriteOk, SlowDropped, AcloseTimeout, FlushCancelled, vars
<1> QED BY <1>2, <1>4, <1>5, <1>6, <1>8, TakeCounts DEF Next, Writer

\* What the sender says is pending is what its queue holds, in messages and in bytes, after any
\* number of messages and whichever way the writer ended; and the types.
THEOREM CountsStayExact == Spec => [](TypeOK /\ CountsAreExact)
<1>1. Init => Counts
  <2>1. Cardinality({}) = 0
    BY FS_EmptySet
  <2>2. Init => \A kinds : Places(queue, kinds) = {}
    BY DEF Init, Places
  <2> QED BY <2>1, <2>2 DEF Init, Counts, CountsAreExact, Places
<1>2. Inv /\ Counts => TypeOK /\ CountsAreExact
  BY DEF Inv, Types, Counts, TypeOK
<1> QED BY <1>1, <1>2, InvInit, InvStep, CountsStep, PTL DEF Spec
=============================================================================
