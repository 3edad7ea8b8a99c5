---------------------------- MODULE OutboundSender ----------------------------
(***************************************************************************)
(* QueuedSender, src/jota_gateway/services/outbound.py: the one way out to  *)
(* a client.  Producers put messages on an unbounded queue, one writer task *)
(* writes them; a write that stays blocked, or a socket that fails, drops   *)
(* what is pending; aclose drains within a time limit and stops the writer. *)
(* A step is what one task does between two awaits that suspend it.         *)
(***************************************************************************)
EXTENDS Naturals, Sequences, FiniteSets

CONSTANTS
  Flushes,     \* calls of flush()
  MaxMsgs      \* bound: messages the producers send

ASSUME OutboundAssumption == MaxMsgs \in Nat

VARIABLES
  queue,       \* _queue
  closing,     \* _closing
  failure,     \* _failure
  writer,      \* the writer task
  current,     \* the number of the message it writes
  pending,     \* [msgs, bytes]: _pending_msgs and _pending_bytes, a payload counting as one
  aclose,      \* the call of aclose()
  sent,        \* history: messages accepted, which numbers them
  got,         \* history: messages whose write ended well
  flush        \* each flush() and its future: [st, upto]

vars == <<queue, closing, failure, writer, current, pending, aclose, sent, got, flush>>

Payload == {"json", "bytes"}
\* n is the number of messages accepted up to the entry, itself included.
Entry == [kind : Payload \cup {"flush", "stop"}, n : Nat, f : SUBSET Flushes]

FlushState == {"idle", "waiting", "done", "failed", "cancelled"}

TypeOK ==
  /\ queue \in Seq(Entry) /\ closing \in BOOLEAN
  /\ failure \in {"none", "gone", "slow"}
  /\ writer \in {"get", "writing", "on_slow", "done", "cut"}
  /\ current \in Nat /\ pending \in [msgs : Nat, bytes : Nat]
  /\ aclose \in {"idle", "draining", "done"}
  /\ sent \in Nat /\ got \in Seq(Nat)
  /\ flush \in [Flushes -> [st : FlushState, upto : Nat]]

Init ==
  /\ queue = <<>> /\ closing = FALSE /\ failure = "none" /\ writer = "get"
  /\ current = 0 /\ pending = [msgs |-> 0, bytes |-> 0] /\ aclose = "idle"
  /\ sent = 0 /\ got = <<>>
  /\ flush = [f \in Flushes |-> [st |-> "idle", upto |-> 0]]
-----------------------------------------------------------------------------
WriterDone == writer \in {"done", "cut"}

Open == failure = "none" /\ ~closing /\ ~WriterDone

PutFirst(kind, n, fs) ==     \* mutant of Put: the newest entry goes first
  queue' = <<[kind |-> kind, n |-> n, f |-> fs]>> \o queue
Put(kind, n, fs) == queue' = Append(queue, [kind |-> kind, n |-> n, f |-> fs])

Bytes(kind) == IF kind = "bytes" THEN 1 ELSE 0

\* send_json, send_bytes
Send(kind) ==
  /\ sent < MaxMsgs /\ Open
  /\ sent' = sent + 1 /\ Put(kind, sent + 1, {})
  /\ pending' = [msgs |-> pending.msgs + 1, bytes |-> pending.bytes + Bytes(kind)]
  /\ UNCHANGED <<closing, failure, writer, current, aclose, got, flush>>

FlushBegin(f) ==
  /\ flush[f].st = "idle" /\ Open
  /\ flush' = [flush EXCEPT ![f] = [st |-> "waiting", upto |-> sent]]
  /\ Put("flush", sent, {f})
  /\ UNCHANGED <<closing, failure, writer, current, pending, aclose, sent, got>>

\* Its caller is cancelled: the future is done, its entry stays.
FlushCancelled(f) ==
  /\ flush[f].st = "waiting"
  /\ flush' = [flush EXCEPT ![f].st = "cancelled"]
  /\ UNCHANGED <<queue, closing, failure, writer, current, pending, aclose, sent, got>>

Settle(fs, st) ==
  flush' = [f \in Flushes |-> IF f \in fs /\ flush[f].st = "waiting"
                              THEN [flush[f] EXCEPT !.st = st] ELSE flush[f]]

DroppedOnly ==     \* mutant of Discarded: the flushes that wait are forgotten
  /\ queue' = <<>> /\ pending' = [msgs |-> 0, bytes |-> 0]
  /\ UNCHANGED flush

\* _discard_pending
Discarded ==
  LET kinds(k) == {i \in DOMAIN queue : queue[i].kind \in k}
  IN /\ queue' = <<>>
     /\ pending' = [msgs |-> pending.msgs - Cardinality(kinds(Payload)),
                    bytes |-> pending.bytes - Cardinality(kinds({"bytes"}))]
     /\ Settle(UNION {queue[i].f : i \in DOMAIN queue}, "failed")
-----------------------------------------------------------------------------
(* The writer.                                                             *)

NotCountedOut(e) == UNCHANGED pending     \* mutant of CountOut
CountOut(e) == pending' = [msgs |-> pending.msgs - 1, bytes |-> pending.bytes - Bytes(e.kind)]

WriterTakes ==
  /\ writer = "get" /\ queue # <<>>
  /\ LET e == Head(queue)
     IN \/ /\ e.kind = "stop" /\ writer' = "done"
           /\ UNCHANGED <<current, pending, flush>>
        \/ /\ e.kind = "flush" /\ Settle(e.f, "done")
           /\ UNCHANGED <<current, pending, writer>>
        \/ /\ e.kind \in Payload /\ CountOut(e) /\ writer' = "writing" /\ current' = e.n
           /\ UNCHANGED flush
  /\ queue' = Tail(queue)
  /\ UNCHANGED <<closing, failure, aclose, sent, got>>

WriteOk ==
  /\ writer = "writing" /\ writer' = "get"
  /\ got' = Append(got, current)
  /\ UNCHANGED <<queue, closing, failure, current, pending, aclose, sent, flush>>

WriteFails ==
  /\ writer = "writing" /\ writer' = "done"
  /\ failure' = "gone" /\ Discarded
  /\ UNCHANGED <<closing, current, aclose, sent, got>>

\* Blocked for CLIENT_SEND_TIMEOUT_S: _fail_slow up to the await of on_slow.
WriteSlow ==
  /\ writer = "writing" /\ writer' = "on_slow"
  /\ failure' = "slow" /\ Discarded
  /\ UNCHANGED <<closing, current, aclose, sent, got>>

SlowDropped ==
  /\ writer = "on_slow" /\ writer' = "done"
  /\ UNCHANGED <<queue, closing, failure, current, pending, aclose, sent, got, flush>>
-----------------------------------------------------------------------------
(* aclose.                                                                 *)

AcloseBegin ==
  /\ aclose = "idle" /\ closing' = TRUE
  /\ \/ WriterDone /\ aclose' = "done" /\ Discarded
     \/ /\ ~WriterDone /\ aclose' = "draining" /\ Put("stop", sent, {})
        /\ UNCHANGED <<pending, flush>>
  /\ UNCHANGED <<failure, writer, current, sent, got>>

\* The time limit, or a cancellation: wait_for cancels the writer and waits for it.
AcloseTimeout ==
  /\ aclose = "draining" /\ ~WriterDone /\ writer' = "cut"
  /\ UNCHANGED <<queue, closing, failure, current, pending, aclose, sent, got, flush>>

AcloseReturns ==
  /\ aclose = "draining" /\ WriterDone /\ aclose' = "done"
  /\ Discarded
  /\ UNCHANGED <<closing, failure, writer, current, sent, got>>
-----------------------------------------------------------------------------
Writer == WriterTakes \/ WriteOk \/ WriteFails \/ WriteSlow \/ SlowDropped

Next == \/ \E kind \in Payload : Send(kind)
        \/ \E f \in Flushes : FlushBegin(f) \/ FlushCancelled(f)
        \/ Writer \/ AcloseBegin \/ AcloseTimeout \/ AcloseReturns

Spec == Init /\ [][Next]_vars

\* A write ends: CLIENT_SEND_TIMEOUT_S.  Nobody owes the session its end.
FairSpec == Spec /\ WF_vars(Writer) /\ WF_vars(AcloseReturns)
-----------------------------------------------------------------------------
(* Properties.                                                             *)

\* queue_stats tells the truth: what is pending is what the queue holds, after every failure too.
CountsAreExact ==
  /\ pending.msgs = Cardinality({i \in DOMAIN queue : queue[i].kind \in Payload})
  /\ pending.bytes = Cardinality({i \in DOMAIN queue : queue[i].kind = "bytes"})

\* aclose leaves nothing behind: no writer, no entry, no flush that would wait for ever.
NothingLeftBehind ==
  aclose = "done" => /\ WriterDone /\ queue = <<>>
                     /\ \A f \in Flushes : flush[f].st # "waiting"

\* Every flush ends, well or badly, unless the client neither reads nor leaves; the write timeout
\* excludes that.
EveryFlushEnds == \A f \in Flushes : flush[f].st = "waiting" ~> flush[f].st # "waiting"

Channel == INSTANCE ClientChannel WITH
  open   <- Open,
  broken <- failure # "none" \/ writer = "cut"

\* The sender keeps the promises of ClientChannel: order, completeness and honest flushes.
IsAClientChannel == Channel!Spec
=============================================================================
