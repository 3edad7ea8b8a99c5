------------------------- MODULE OpenClawTurnsProofs -------------------------
(***************************************************************************)
(* What OpenClawTurns promises for every set of keys and requests and every *)
(* queue size.  The registry invariants are proved together (Registry), the *)
(* queue invariants on top of them.                                        *)
(***************************************************************************)
EXTENDS OpenClawTurns, SequenceTheorems, TLAPS

Waiting == {"sending", "reading", "ended", "failed", "ab_send", "ab_res", "ab_term"}

\* A request that runs knows its key; one that does not has no key to give back.
KeyKnown == \A r \in Reqs : req[r].pc \in Waiting => req[r].key \in Keys

Registry == TypeOK /\ KeyKnown /\ MapsAgree /\ NoLeakedKey
-----------------------------------------------------------------------------
(* Type correctness.                                                       *)

\* Whatever message a task or a frame a run adds, both directions of the socket keep their type.
LEMMA TellType ==
  ASSUME TypeOK, NEW ms \in Seq(Message), Tell(ms)
  PROVE  toServer' \in Seq(Message)
BY ConcatProperties DEF TypeOK, Tell

LEMMA EmitType ==
  ASSUME TypeOK, NEW fs \in Seq(Frame), Emit(fs)
  PROVE  wire' \in Seq(Frame)
BY ConcatProperties DEF TypeOK, Emit

LEMMA FrameType ==
  /\ \A kind \in Chats \cup {"start"}, k \in Keys, x \in Runs : F(kind, k, x, None) \in Frame
  /\ \A kind \in {"rejected", "abort_yes", "abort_no"}, k \in Keys, r \in Reqs \cup {None} :
       F(kind, k, None, r) \in Frame
BY DEF F, Frame, Event, Res

\* A queue keeps its type, whether an item fits, makes room or floods it.
LEMMA ForcePutType ==
  ASSUME NEW q \in Seq(Item), NEW item \in Item
  PROVE  /\ ForcePut(q, item) \in Seq(Item)
         /\ Len(q) <= QMax => Len(ForcePut(q, item)) <= QMax
         /\ ForcePut(q, item) # <<>>
         /\ ForcePut(q, item)[Len(ForcePut(q, item))] = item
<1>1. CASE Len(q) < QMax
  BY <1>1, OpenClawAssumption DEF ForcePut
<1>2. CASE ~(Len(q) < QMax)
  <2>1. Len(q) \in Nat /\ QMax \in Nat \ {0}
    BY OpenClawAssumption
  <2>2. q # <<>> /\ ForcePut(q, item) = Append(Tail(q), item)
    BY <1>2, <2>1 DEF ForcePut
  <2>3. Tail(q) \in Seq(Item) /\ Len(Tail(q)) = Len(q) - 1
    BY <2>2, HeadTailProperties
  <2> QED BY <2>1, <2>2, <2>3
<1> QED BY <1>1, <1>2

LEMMA DeliverType ==
  ASSUME TypeOK, NEW k \in Keys, session[k] # None, NEW item \in Item, Deliver(k, item)
  PROVE  /\ queue' \in [Reqs -> Seq(Item)]
         /\ overflowed' \subseteq Keys /\ tombstones' \subseteq Keys
<1>1. session[k] \in Reqs /\ queue[session[k]] \in Seq(Item)
  BY DEF TypeOK
<1>2. Overflow \in Item /\ <<Overflow>> \in Seq(Item)
  BY DEF Overflow, Item
<1>3. CASE Flagged(k)
  BY <1>3 DEF Deliver, TypeOK
<1>4. CASE ~Flagged(k) /\ Fits(queue[session[k]])
  <2>1. Append(queue[session[k]], item) \in Seq(Item)
    BY <1>1
  <2>2. /\ queue' = [queue EXCEPT ![session[k]] = Append(queue[session[k]], item)]
        /\ UNCHANGED <<overflowed, tombstones>>
    BY <1>4 DEF Deliver
  <2> QED BY <1>1, <2>1, <2>2 DEF TypeOK
<1>5. CASE ~Flagged(k) /\ ~Fits(queue[session[k]])
  <2>1. /\ queue' = [queue EXCEPT ![session[k]] = <<Overflow>>]
        /\ overflowed' = overflowed \cup {k} /\ tombstones' = tombstones \cup {k}
    BY <1>5 DEF Deliver
  <2> QED BY <1>1, <1>2, <2>1 DEF TypeOK
<1> QED BY <1>3, <1>4, <1>5

\* The parts of the type invariant that the registration of a request touches.
LEMMA RegisterType ==
  ASSUME TypeOK, NEW r \in Reqs, NEW k \in Keys, Register(r, k)
  PROVE  /\ session' \in [Keys -> Reqs \cup {None}] /\ owner' \in [Keys -> Reqs \cup {None}]
         /\ reqSession' \in [Reqs -> Keys \cup {None}]
         /\ overflowed' \subseteq Keys /\ tombstones' \subseteq Keys
BY DEF TypeOK, Register

LEMMA LeaveType ==
  ASSUME TypeOK, NEW r \in Reqs, NEW aborts \in BOOLEAN, req[r].key \in Keys, Leave(r, aborts)
  PROVE  TypeOK'
<1>1. /\ session' \in [Keys -> Reqs \cup {None}] /\ owner' \in [Keys -> Reqs \cup {None}]
      /\ reqSession' \in [Reqs -> Keys \cup {None}]
      /\ overflowed' \subseteq Keys /\ tombstones' \subseteq Keys
  BY DEF TypeOK, Leave, Unregister, Freed, Owns
<1>2. PICK ms : Tell(ms) /\ ms \in {<<[kind |-> "abort", key |-> req[r].key, req |-> None]>>, <<>>}
  BY DEF Leave
<1>3. ms \in Seq(Message) /\ toServer' \in Seq(Message)
  <2>1. [kind |-> "abort", key |-> req[r].key, req |-> None] \in Message
    BY DEF Message
  <2>2. <<[kind |-> "abort", key |-> req[r].key, req |-> None]>> \in Seq(Message)
    BY <2>1
  <2>3. ms \in Seq(Message)
    BY <1>2, <2>2, EmptySeq
  <2> QED BY <1>2, <2>3, TellType
<1>4. queue' \in [Reqs -> Seq(Item)]
  BY DEF TypeOK, Leave
<1>5. UNCHANGED <<conn, wire, active, pushStarted, flooded>>
  BY DEF Leave, history
<1>6. req' \in [Reqs -> [pc : Waiting \cup {"unused", "done"}, key : Keys \cup {None}]]
  BY DEF TypeOK, Leave, Waiting
<1> QED BY <1>1, <1>3, <1>4, <1>5, <1>6 DEF TypeOK, Waiting

LEMMA GotoType ==
  ASSUME TypeOK, NEW r \in Reqs, NEW pc \in Waiting \cup {"done"}, Goto(r, pc)
  PROVE  req' \in [Reqs -> [pc : Waiting \cup {"unused", "done"}, key : Keys \cup {None}]]
BY DEF TypeOK, Goto, Waiting

\* The steps of a request.
LEMMA RequestType ==
  ASSUME TypeOK, KeyKnown, NEW r \in Reqs,
         ReqStep(r) \/ TurnClosed(r) \/ Refused(r)
           \/ \E k \in Keys : TurnBegin(r, k) \/ AbortBegin(r, k)
  PROVE  TypeOK'
<1>1. ASSUME NEW k \in Keys, TurnBegin(r, k) \/ AbortBegin(r, k) PROVE TypeOK'
  <2>1. PICK m \in Message : Tell(<<m>>)
    BY <1>1 DEF TurnBegin, AbortBegin, Message
  <2>2. <<m>> \in Seq(Message) /\ toServer' \in Seq(Message)
    <3>1. <<m>> \in Seq(Message)
      OBVIOUS
    <3> QED BY <2>1, <3>1, TellType
  <2>3. UNCHANGED <<queue, conn, wire, active, pushStarted, flooded>>
    BY <1>1 DEF TurnBegin, AbortBegin, history
  <2>4. /\ Register(r, k)
        /\ req' \in [Reqs -> [pc : Waiting \cup {"unused", "done"}, key : Keys \cup {None}]]
    <3>1. PICK pc \in Waiting : req' = [req EXCEPT ![r] = [pc |-> pc, key |-> k]]
      BY <1>1 DEF TurnBegin, AbortBegin, Waiting
    <3>2. req \in [Reqs -> [pc : Waiting \cup {"unused", "done"}, key : Keys \cup {None}]]
      BY DEF TypeOK, Waiting
    <3> QED BY <1>1, <3>1, <3>2 DEF TurnBegin, AbortBegin
  <2> QED BY <2>2, <2>3, <2>4, RegisterType DEF TypeOK, Waiting
<1>2. CASE Refused(r) \/ SendDone(r) \/ AbortSent(r) \/ Timeout(r)
  <2>1. PICK pc \in Waiting \cup {"done"} : Goto(r, pc)
    BY <1>2 DEF Refused, SendDone, AbortSent, Timeout, Waiting
  <2>2. UNCHANGED <<registry, queue, conn, toServer, wire, active, history>>
    BY <1>2 DEF Refused, SendDone, AbortSent, Timeout
  <2> QED BY <2>1, <2>2, GotoType DEF TypeOK, Waiting, registry, history
<1>3. CASE Consume(r)
  <2>1. queue' = [queue EXCEPT ![r] = Tail(queue[r])] /\ Tail(queue[r]) \in Seq(Item)
    BY <1>3, HeadTailProperties DEF Consume, TypeOK
  <2>2. PICK pc \in Waiting \cup {"done"} : Goto(r, pc)
    BY <1>3 DEF Consume, Waiting
  <2>3. /\ req' \in [Reqs -> [pc : Waiting \cup {"unused", "done"}, key : Keys \cup {None}]]
        /\ flooded' \subseteq Reqs
    BY <1>3, <2>2, GotoType DEF Consume, TypeOK
  <2> QED BY <1>3, <2>1, <2>3 DEF Consume, TypeOK, Waiting, registry
<1>4. CASE AbortTakes(r)
  <2>1. queue' = [queue EXCEPT ![r] = Tail(queue[r])] /\ Tail(queue[r]) \in Seq(Item)
    BY <1>4, HeadTailProperties DEF AbortTakes, TypeOK
  <2>2. req' \in [Reqs -> [pc : Waiting \cup {"unused", "done"}, key : Keys \cup {None}]]
    <3>1. PICK pc \in Waiting : Goto(r, pc)
      BY <1>4 DEF AbortTakes, Waiting
    <3> QED BY <3>1, GotoType
  <2> QED BY <1>4, <2>1, <2>2 DEF AbortTakes, TypeOK, Waiting, registry, history
<1>5. CASE TurnOver(r) \/ TurnClosed(r) \/ AbortTimeout(r)
  <2>1. \E aborts \in BOOLEAN : Leave(r, aborts)
    BY <1>5 DEF TurnOver, TurnClosed, AbortTimeout
  <2>2. req[r].key \in Keys
    BY <1>5 DEF TurnOver, TurnClosed, AbortTimeout, KeyKnown, Waiting
  <2> QED BY <2>1, <2>2, LeaveType
<1> QED BY <1>1, <1>2, <1>3, <1>4, <1>5 DEF ReqStep, Reads

\* The frames _listen routes, and the end of the listener.
LEMMA ListenType ==
  ASSUME TypeOK, Listen
  PROVE  TypeOK'
<1> DEFINE f == Head(wire)
<1>1. f \in Frame /\ wire' \in Seq(Frame)
  BY HeadTailProperties DEF Listen, TypeOK
<1>2. UNCHANGED <<conn, toServer, active>>
  BY DEF Listen
<1>3. CASE HandleChatOrTool(f)
  <2>1. CASE ~Free(f.key)
    <3>1. Deliver(f.key, [kind |-> f.kind, run |-> f.run]) /\ UNCHANGED req
      BY <1>3, <2>1 DEF HandleChatOrTool
    <3>2. f.key \in Keys /\ [kind |-> f.kind, run |-> f.run] \in Item /\ session[f.key] # None
      BY <1>1, <1>3, <2>1 DEF HandleChatOrTool, Frame, Event, Res, Item, Free
    <3>3. /\ queue' \in [Reqs -> Seq(Item)]
          /\ overflowed' \subseteq Keys /\ tombstones' \subseteq Keys
      BY <3>1, <3>2, DeliverType
    <3>4. UNCHANGED <<session, owner, reqSession, pushStarted, flooded>>
      BY <3>1 DEF Deliver, history
    <3> QED BY <1>1, <1>2, <3>1, <3>3, <3>4 DEF TypeOK
  <2>2. CASE Free(f.key)
    BY <1>1, <1>2, <1>3, <2>2 DEF HandleChatOrTool, Dropped, ToBridge, TypeOK, registry, history
  <2> QED BY <2>1, <2>2
<1>4. CASE HandleStart(f)
  <2>1. UNCHANGED <<session, owner, reqSession, overflowed, tombstones, queue, req, flooded>>
    BY <1>4 DEF HandleStart, Dropped, registry, history
  <2>2. pushStarted' \subseteq Runs
    <3>1. CASE Free(f.key) /\ f.key \notin tombstones
      <4>1. f.run \in Runs
        BY <1>1, <1>4 DEF HandleStart, Frame, Event, Res
      <4> QED BY <1>4, <3>1, <4>1 DEF HandleStart, TypeOK
    <3>2. CASE ~(Free(f.key) /\ f.key \notin tombstones)
      BY <1>4, <3>2 DEF HandleStart, Dropped, TypeOK, history
    <3> QED BY <3>1, <3>2
  <2> QED BY <1>1, <1>2, <2>1, <2>2 DEF TypeOK
<1>5. CASE HandleRejected(f)
  <2>1. CASE f.req # None /\ reqSession[f.req] # None /\ ~Free(reqSession[f.req])
    <3> DEFINE k == reqSession[f.req]
    <3>1. Deliver(k, [kind |-> "rejected", run |-> None]) /\ UNCHANGED req
      BY <1>5, <2>1 DEF HandleRejected
    <3>2. k \in Keys /\ [kind |-> "rejected", run |-> None] \in Item /\ session[k] # None
      BY <1>1, <2>1 DEF Frame, Event, Res, Item, Free, TypeOK
    <3>3. /\ queue' \in [Reqs -> Seq(Item)]
          /\ overflowed' \subseteq Keys /\ tombstones' \subseteq Keys
      BY <3>1, <3>2, DeliverType
    <3>4. UNCHANGED <<session, owner, reqSession, pushStarted, flooded>>
      BY <3>1 DEF Deliver, history
    <3> QED BY <1>1, <1>2, <3>1, <3>3, <3>4 DEF TypeOK
  <2>2. CASE ~(f.req # None /\ reqSession[f.req] # None /\ ~Free(reqSession[f.req]))
    BY <1>1, <1>2, <1>5, <2>2 DEF HandleRejected, Dropped, TypeOK, registry, history
  <2> QED BY <2>1, <2>2
<1>6. CASE HandleAbortRes(f)
  <2>1. UNCHANGED <<session, owner, reqSession, overflowed, tombstones, queue, pushStarted, flooded>>
    BY <1>6 DEF HandleAbortRes, registry, history
  <2>2. req' \in [Reqs -> [pc : Waiting \cup {"unused", "done"}, key : Keys \cup {None}]]
    <3>1. CASE f.req # None /\ req[f.req].pc \in {"ab_send", "ab_res"}
      <4>1. f.req \in Reqs
        BY <1>1, <3>1 DEF Frame, Event, Res
      <4>2. PICK pc \in Waiting : Goto(f.req, pc)
        BY <1>6, <3>1 DEF HandleAbortRes, Waiting
      <4> QED BY <4>1, <4>2, GotoType
    <3>2. CASE ~(f.req # None /\ req[f.req].pc \in {"ab_send", "ab_res"})
      BY <1>6, <3>2 DEF HandleAbortRes, TypeOK, Waiting
    <3> QED BY <3>1, <3>2
  <2> QED BY <1>1, <1>2, <2>1, <2>2 DEF TypeOK, Waiting
<1> QED BY <1>3, <1>4, <1>5, <1>6 DEF Listen

LEMMA ListenEndsType ==
  ASSUME TypeOK, ListenEnds
  PROVE  TypeOK'
<1>1. queue' \in [Reqs -> Seq(Item)]
  <2>1. Lost \in Item
    BY DEF Lost, Item
  <2>2. \A r \in Reqs : ForcePut(queue[r], Lost) \in Seq(Item)
    BY <2>1, ForcePutType DEF TypeOK
  <2> QED BY <2>2 DEF ListenEnds, ErrorAll, TypeOK
<1>2. /\ session' \in [Keys -> Reqs \cup {None}] /\ owner' \in [Keys -> Reqs \cup {None}]
      /\ reqSession' \in [Reqs -> Keys \cup {None}]
      /\ overflowed' \subseteq Keys /\ tombstones' \subseteq Keys
  BY DEF ListenEnds, ErrorAll, TypeOK
<1>3. wire' \in Seq(Frame) /\ toServer' \in Seq(Message) /\ conn' = "down"
  BY EmptySeq DEF ListenEnds
<1>4. UNCHANGED <<req, active, pushStarted, flooded>>
  BY DEF ListenEnds, history
<1> QED BY <1>1, <1>2, <1>3, <1>4 DEF TypeOK

\* OpenClaw's steps, as far as the client can see them.
LEMMA ServerType ==
  ASSUME TypeOK, Server
  PROVE  TypeOK'
<1>1. /\ UNCHANGED <<registry, queue, req, conn, history>> /\ wire' \in Seq(Frame)
      /\ active' \subseteq [run : Runs, key : Keys]
      /\ toServer' \in Seq(Message)
  <2>1. CASE ServerSend
    <3> DEFINE m == Head(toServer)
    <3>1. m \in Message /\ Tail(toServer) \in Seq(Message)
      BY <2>1, HeadTailProperties DEF ServerSend, TypeOK
    <3>2. m.key \in Keys /\ m.req \in Reqs /\ m.req \in Runs
      BY <2>1, <3>1 DEF ServerSend, Message, Runs
    <3>3. PICK g \in Frame : Emit(<<g>>)
      BY <2>1, <3>2, FrameType DEF ServerSend
    <3>4. <<g>> \in Seq(Frame)
      BY <3>3
    <3>5. wire' \in Seq(Frame)
      BY <3>3, <3>4, EmitType
    <3>6. active' \subseteq [run : Runs, key : Keys]
      BY <2>1, <3>2 DEF ServerSend, TypeOK
    <3> QED BY <2>1, <3>1, <3>3, <3>5, <3>6 DEF ServerSend, Emit, TypeOK
  <2>2. CASE ServerAbort
    <3> DEFINE m == Head(toServer)
    <3>1. m \in Message /\ Tail(toServer) \in Seq(Message)
      BY <2>2, HeadTailProperties DEF ServerAbort, TypeOK
    <3>2. m.key \in Keys /\ m.req \in Reqs \cup {None}
      BY <2>2, <3>1 DEF ServerAbort, Message
    <3>3. PICK fs \in Seq(Frame) : Emit(fs)
      <4>1. CASE \E a \in active : Emit(<<F("aborted", m.key, a.run, None),
                                         F("abort_yes", m.key, None, m.req)>>)
        <5>1. PICK a \in active : Emit(<<F("aborted", m.key, a.run, None),
                                        F("abort_yes", m.key, None, m.req)>>)
          BY <4>1
        <5>2. /\ F("aborted", m.key, a.run, None) \in Frame
              /\ F("abort_yes", m.key, None, m.req) \in Frame
          BY <3>2, <5>1, FrameType DEF Chats, TypeOK
        <5>3. <<F("aborted", m.key, a.run, None), F("abort_yes", m.key, None, m.req)>>
                \in Seq(Frame)
          BY <5>2
        <5> QED BY <5>1, <5>3
      <4>2. CASE Emit(<<F("abort_no", m.key, None, m.req)>>)
        <5>1. F("abort_no", m.key, None, m.req) \in Frame
          BY <3>2, FrameType
        <5>2. <<F("abort_no", m.key, None, m.req)>> \in Seq(Frame)
          BY <5>1
        <5> QED BY <4>2, <5>2
      <4> QED BY <2>2, <4>1, <4>2 DEF ServerAbort
    <3>4. wire' \in Seq(Frame)
      BY <3>3, EmitType
    <3>5. active' \subseteq active
      BY <2>2 DEF ServerAbort
    <3> QED BY <2>2, <3>1, <3>3, <3>4, <3>5 DEF ServerAbort, Emit, TypeOK
  <2>3. CASE ~(ServerSend \/ ServerAbort)
    <3>1. /\ \E g \in Frame : EmitOne(g)
          /\ active' \subseteq [run : Runs, key : Keys]
      <4>1. ASSUME NEW x \in Pushes, NEW k \in Keys, ServerPush(x, k)
            PROVE  <3>1!1 /\ <3>1!2
        <5>1. F("start", k, x, None) \in Frame /\ x \in Runs
          BY FrameType DEF Runs
        <5> QED BY <4>1, <5>1 DEF ServerPush, TypeOK
      <4>2. ASSUME NEW a \in active,
                   ServerEnds(a) \/ \E kind \in {"delta", "start"} : ServerEmits(a, kind)
            PROVE  <3>1!1 /\ <3>1!2
        <5>1. a.key \in Keys /\ a.run \in Runs
          BY DEF TypeOK
        <5>2. \A kind \in {"delta", "start", "final"} : F(kind, a.key, a.run, None) \in Frame
          BY <5>1, FrameType DEF Chats
        <5> QED BY <4>2, <5>2 DEF ServerEnds, ServerEmits, TypeOK
      <4> QED BY <2>3, <4>1, <4>2 DEF Server
    <3>2. PICK g \in Frame : EmitOne(g)
      BY <3>1
    <3>3. <<g>> \in Seq(Frame)
      BY <3>2
    <3>4. Emit(<<g>>) /\ wire' \in Seq(Frame)
      BY <3>2, <3>3, EmitType DEF EmitOne
    <3> QED BY <3>1, <3>2, <3>4 DEF EmitOne, Emit, TypeOK
  <2> QED BY <2>1, <2>2, <2>3
<1> QED BY <1>1 DEF TypeOK, registry, history

\* What is left: the socket's fate and the deadline of a tombstone.
LEMMA ConnectionType ==
  ASSUME TypeOK,
         ConnLost \/ TriggerReconnect \/ Reconnect \/ \E k \in Keys : TombstoneExpires(k)
  PROVE  TypeOK'
BY DEF TypeOK, ConnLost, TriggerReconnect, Reconnect, TombstoneExpires, registry, history
-----------------------------------------------------------------------------
(* The registry.                                                           *)

Same(r)  == req'[r] = req[r]
Moves(r) == /\ req'[r].key = req[r].key
            /\ \/ req[r].pc \in Waiting /\ req'[r].pc \in Waiting
               \/ req[r].pc = "unused" /\ req'[r].pc = "done"

\* A step that leaves the maps alone, and lets no registered request finish, keeps them right.
LEMMA MapsUntouched ==
  ASSUME Registry, UNCHANGED <<session, owner, reqSession>>, \A r \in Reqs : Same(r) \/ Moves(r)
  PROVE  KeyKnown' /\ MapsAgree' /\ NoLeakedKey'
<1>1. KeyKnown'
  BY DEF Registry, KeyKnown, Same, Moves, Waiting
<1>2. MapsAgree'
  BY DEF Registry, MapsAgree
<1>3. NoLeakedKey'
  <2>1. ASSUME NEW k \in Keys, session'[k] # None
        PROVE  req'[session'[k]].pc \notin {"unused", "done"} /\ req'[session'[k]].key = k
    <3>1. session'[k] = session[k] /\ session[k] \in Reqs
      BY <2>1 DEF Registry, TypeOK
    <3>2. req[session[k]].pc \notin {"unused", "done"} /\ req[session[k]].key = k
      BY <2>1, <3>1 DEF Registry, NoLeakedKey
    <3> QED BY <3>1, <3>2 DEF Same, Moves, Waiting
  <2> QED BY <2>1 DEF NoLeakedKey
<1> QED BY <1>1, <1>2, <1>3

\* Goto is such a step, from a request that runs or from one that never ran.
LEMMA GotoMoves ==
  ASSUME TypeOK, NEW r \in Reqs, NEW pc, Goto(r, pc),
         \/ req[r].pc \in Waiting /\ pc \in Waiting
         \/ req[r].pc = "unused" /\ pc = "done"
  PROVE  \A x \in Reqs : Same(x) \/ Moves(x)
BY DEF TypeOK, Goto, Same, Moves

\* A free key taken by a request that held none.
LEMMA RegisterMaps ==
  ASSUME Registry, NEW r \in Reqs, NEW k \in Keys, NEW pc \in Waiting,
         req[r].pc = "unused", Free(k), Register(r, k),
         req' = [req EXCEPT ![r] = [pc |-> pc, key |-> k]]
  PROVE  KeyKnown' /\ MapsAgree' /\ NoLeakedKey'
<1>1. \A j \in Keys : session[j] # r /\ owner[j] # r /\ reqSession[r] # j
  BY OpenClawAssumption DEF Registry, TypeOK, MapsAgree, NoLeakedKey
<1>2. /\ session' = [session EXCEPT ![k] = r] /\ owner' = [owner EXCEPT ![k] = r]
      /\ reqSession' = [reqSession EXCEPT ![r] = k]
  BY DEF Register
<1>3. KeyKnown'
  BY DEF Registry, TypeOK, KeyKnown
<1>4. MapsAgree'
  <2>1. \A j \in Keys : session'[j] = owner'[j]
    BY <1>2 DEF Registry, TypeOK, MapsAgree
  <2>2. ASSUME NEW x \in Reqs, NEW j \in Keys
        PROVE  reqSession'[x] = j <=> owner'[j] = x
    <3>1. reqSession[x] = j <=> owner[j] = x
      BY DEF Registry, MapsAgree
    <3>2. owner[k] = None
      BY DEF Registry, MapsAgree, Free
    <3>3. CASE x = r
      BY <1>1, <1>2, <3>3 DEF Registry, TypeOK
    <3>4. CASE x # r
      BY <1>2, <3>1, <3>2, <3>4, OpenClawAssumption DEF Registry, TypeOK
    <3> QED BY <3>3, <3>4
  <2> QED BY <2>1, <2>2 DEF MapsAgree
<1>5. NoLeakedKey'
  BY <1>1, <1>2 DEF Registry, TypeOK, NoLeakedKey, Waiting
<1> QED BY <1>3, <1>4, <1>5

\* The finally of a request: the key is freed exactly when it is still its own.
LEMMA LeaveMaps ==
  ASSUME Registry, NEW r \in Reqs, NEW aborts \in BOOLEAN, req[r].pc \in Waiting,
         Leave(r, aborts)
  PROVE  KeyKnown' /\ MapsAgree' /\ NoLeakedKey'
<1> DEFINE k == req[r].key
<1>1. k \in Keys /\ \A j \in Keys : owner[j] = r => j = k
  BY OpenClawAssumption DEF Registry, KeyKnown, MapsAgree, NoLeakedKey
<1>2. /\ session' = [session EXCEPT ![k] = IF owner[k] = r THEN None ELSE session[k]]
      /\ owner' = [owner EXCEPT ![k] = IF owner[k] = r THEN None ELSE owner[k]]
      /\ reqSession' = [reqSession EXCEPT ![r] = None]
      /\ req' = [req EXCEPT ![r] = [pc |-> "done", key |-> None]]
  BY DEF Leave, Unregister, Freed, Owns
<1>3. KeyKnown'
  BY <1>2 DEF Registry, TypeOK, KeyKnown, Waiting
<1>4. \A j \in Keys : owner'[j] = IF owner[j] = r THEN None ELSE owner[j]
  BY <1>1, <1>2 DEF Registry, TypeOK
<1>5. \A j \in Keys : session'[j] = owner'[j]
  BY <1>1, <1>2 DEF Registry, TypeOK, MapsAgree
<1>6. MapsAgree'
  <2>1. ASSUME NEW x \in Reqs, NEW j \in Keys
        PROVE  reqSession'[x] = j <=> owner'[j] = x
    <3>1. CASE x = r
      BY <1>2, <1>4, <3>1, OpenClawAssumption DEF Registry, TypeOK
    <3>2. CASE x # r
      BY <1>2, <1>4, <3>2, OpenClawAssumption DEF Registry, TypeOK, MapsAgree
    <3> QED BY <3>1, <3>2
  <2> QED BY <1>5, <2>1 DEF MapsAgree
<1>7. NoLeakedKey'
  <2>1. ASSUME NEW j \in Keys, session'[j] # None
        PROVE  req'[session'[j]].pc \notin {"unused", "done"} /\ req'[session'[j]].key = j
    <3>1. session'[j] = session[j] /\ session[j] # r /\ session[j] \in Reqs
      BY <1>4, <1>5, <2>1 DEF Registry, TypeOK, MapsAgree
    <3> QED BY <1>2, <2>1, <3>1 DEF Registry, TypeOK, NoLeakedKey
  <2> QED BY <2>1 DEF NoLeakedKey
<1> QED BY <1>3, <1>6, <1>7

LEMMA RegistryInit == Init => Registry
<1> SUFFICES ASSUME Init PROVE Registry
  OBVIOUS
<1>1. <<>> \in Seq(Item) /\ <<>> \in Seq(Message) /\ <<>> \in Seq(Frame)
  BY EmptySeq
<1>2. TypeOK
  BY <1>1, OpenClawAssumption DEF Init, TypeOK
<1> QED
  BY <1>2, OpenClawAssumption DEF Init, Registry, KeyKnown, Waiting, MapsAgree, NoLeakedKey

LEMMA RegistryStep == Registry /\ [Next]_vars => Registry'
<1> SUFFICES ASSUME Registry, [Next]_vars PROVE Registry'
  OBVIOUS
<1> DEFINE Right == KeyKnown' /\ MapsAgree' /\ NoLeakedKey'
<1>1. ASSUME NEW r \in Reqs, ReqStep(r) \/ TurnClosed(r) \/ Refused(r) PROVE TypeOK' /\ Right
  <2>1. TypeOK'
    BY <1>1, RequestType DEF Registry
  <2>2. CASE SendDone(r) \/ AbortSent(r) \/ Consume(r) \/ Timeout(r) \/ AbortTakes(r) \/ Refused(r)
    <3>1. UNCHANGED <<session, owner, reqSession>>
      BY <2>2 DEF SendDone, AbortSent, Consume, Timeout, AbortTakes, Refused, registry
    <3>2. PICK pc : /\ Goto(r, pc)
                    /\ \/ req[r].pc \in Waiting /\ pc \in Waiting
                       \/ req[r].pc = "unused" /\ pc = "done"
      BY <2>2 DEF SendDone, AbortSent, Consume, Timeout, AbortTakes, Refused, Waiting
    <3> QED BY <2>1, <3>1, <3>2, GotoMoves, MapsUntouched DEF Registry
  <2>3. CASE TurnOver(r) \/ TurnClosed(r) \/ AbortTimeout(r)
    <3>1. req[r].pc \in Waiting /\ \E aborts \in BOOLEAN : Leave(r, aborts)
      BY <2>3 DEF TurnOver, TurnClosed, AbortTimeout, Waiting
    <3> QED BY <2>1, <3>1, LeaveMaps
  <2> QED BY <1>1, <2>1, <2>2, <2>3 DEF ReqStep, Reads
<1>2. ASSUME NEW r \in Reqs, NEW k \in Keys, TurnBegin(r, k) \/ AbortBegin(r, k)
      PROVE  TypeOK' /\ Right
  <2>1. TypeOK'
    BY <1>2, RequestType DEF Registry
  <2>2. /\ req[r].pc = "unused" /\ Free(k) /\ Register(r, k)
        /\ \E pc \in Waiting : req' = [req EXCEPT ![r] = [pc |-> pc, key |-> k]]
    BY <1>2 DEF TurnBegin, AbortBegin, Waiting
  <2> QED BY <2>1, <2>2, RegisterMaps
<1>3. CASE Listen
  <2> DEFINE f == Head(wire)
  <2>1. TypeOK'
    BY <1>3, ListenType DEF Registry
  <2>2. UNCHANGED <<session, owner, reqSession>>
    BY <1>3 DEF Listen, HandleChatOrTool, HandleStart, HandleRejected, HandleAbortRes, Deliver,
                Dropped, ToBridge, registry
  <2>3. \A r \in Reqs : Same(r) \/ Moves(r)
    <3>1. CASE HandleAbortRes(f) /\ f.req # None /\ req[f.req].pc \in {"ab_send", "ab_res"}
      <4>1. f \in Frame
        BY <1>3, HeadTailProperties DEF Listen, Registry, TypeOK
      <4>2. f.req \in Reqs
        BY <3>1, <4>1 DEF Frame, Event, Res
      <4>3. PICK pc \in Waiting : Goto(f.req, pc)
        BY <3>1 DEF HandleAbortRes, Waiting
      <4> QED BY <3>1, <4>2, <4>3, GotoMoves DEF Registry, Waiting
    <3>2. CASE UNCHANGED req
      BY <3>2 DEF Same
    <3> QED BY <1>3, <3>1, <3>2 DEF Listen, HandleChatOrTool, HandleStart, HandleRejected,
                                    HandleAbortRes
  <2> QED BY <2>1, <2>2, <2>3, MapsUntouched DEF Registry
<1>4. CASE ListenEnds
  <2>1. TypeOK'
    BY <1>4, ListenEndsType DEF Registry
  <2>2. /\ UNCHANGED req /\ reqSession' = [r \in Reqs |-> None]
        /\ session' = [k \in Keys |-> None] /\ owner' = [k \in Keys |-> None]
    BY <1>4 DEF ListenEnds, ErrorAll
  <2> QED BY <2>1, <2>2, OpenClawAssumption DEF Registry, KeyKnown, MapsAgree, NoLeakedKey
<1>5. CASE Server
  <2>1. TypeOK'
    BY <1>5, ServerType DEF Registry
  <2>2. UNCHANGED <<session, owner, reqSession, req>>
    BY <1>5 DEF Server, ServerSend, ServerAbort, ServerPush, ServerEmits, ServerEnds, EmitOne, Emit,
                registry
  <2> QED BY <2>1, <2>2, MapsUntouched DEF Same, Registry
<1>6. CASE \/ ConnLost \/ TriggerReconnect \/ Reconnect \/ \E k \in Keys : TombstoneExpires(k)
           \/ UNCHANGED vars
  <2>1. TypeOK'
    BY <1>6, ConnectionType DEF Registry, TypeOK, vars, registry, history
  <2>2. UNCHANGED <<session, owner, reqSession, req>>
    BY <1>6 DEF ConnLost, TriggerReconnect, Reconnect, TombstoneExpires, vars, registry
  <2> QED BY <2>1, <2>2, MapsUntouched DEF Same, Registry
<1> QED BY <1>1, <1>2, <1>3, <1>4, <1>5, <1>6 DEF Next, Registry

\* The gateway's records of its turns are well formed whatever OpenClaw, the network and the
\* callers do: the state of OpenClawClient, TurnRegistry and FrameDispatcher stays in its types.
THEOREM TypeCorrect == Spec => []TypeOK
<1>1. Registry => TypeOK
  BY DEF Registry
<1> QED BY <1>1, RegistryInit, RegistryStep, PTL DEF Spec

\* The three maps of TurnRegistry always tell one story, for any number of sessions and turns:
\* register, the owner check of unregister and error_all keep them in step.
THEOREM MapsAlwaysAgree == Spec => []MapsAgree
<1>1. Registry => MapsAgree
  BY DEF Registry
<1> QED BY <1>1, RegistryInit, RegistryStep, PTL DEF Spec

\* No session is ever locked out by the registration of a turn that is over: the finally of
\* stream_response and abort always gives the key back while it is still theirs.
THEOREM NoKeyIsLeaked == Spec => []NoLeakedKey
<1>1. Registry => NoLeakedKey
  BY DEF Registry
<1> QED BY <1>1, RegistryInit, RegistryStep, PTL DEF Spec

\* The three together, as the runs check them: every registered key is accounted for, whatever
\* drops, overflows, rejections and timeouts its turn goes through.
THEOREM EveryKeyIsAccountedFor == Spec => []KeysAccounted
<1>1. Registry => KeysAccounted
  BY DEF Registry, KeysAccounted
<1> QED BY <1>1, RegistryInit, RegistryStep, PTL DEF Spec

\* A turn cannot take the key of another: only the finally of the owner, or the end of the
\* connection, changes who owns a key, and both leave it free (#99).
THEOREM KeysAreHandedOver == Spec => HandedOver
<1> DEFINE Handed == \A k \in Keys : owner[k] # None /\ owner'[k] # owner[k] =>
                       /\ owner'[k] = None
                       /\ req'[owner[k]].pc = "done" \/ conn' = "down"
<1>1. Registry /\ [Next]_vars => Handed
  <2> SUFFICES ASSUME Registry, [Next]_vars PROVE Handed
    OBVIOUS
  <2>1. CASE UNCHANGED owner
    BY <2>1
  <2>2. CASE ListenEnds
    BY <2>2 DEF ListenEnds, ErrorAll
  <2>3. ASSUME NEW r \in Reqs, NEW k \in Keys, TurnBegin(r, k) \/ AbortBegin(r, k)
        PROVE  Handed
    <3>1. owner' = [owner EXCEPT ![k] = r] /\ owner[k] = None
      BY <2>3 DEF TurnBegin, AbortBegin, Register, Free, Registry, MapsAgree
    <3> QED BY <3>1 DEF Registry, TypeOK
  <2>4. ASSUME NEW r \in Reqs, TurnOver(r) \/ TurnClosed(r) \/ AbortTimeout(r)
        PROVE  Handed
    <3>1. /\ owner' = [owner EXCEPT ![req[r].key] = IF owner[req[r].key] = r THEN None ELSE @]
          /\ req' = [req EXCEPT ![r] = [pc |-> "done", key |-> None]]
      BY <2>4 DEF TurnOver, TurnClosed, AbortTimeout, Leave, Unregister, Freed, Owns
    <3> QED BY <3>1 DEF Registry, TypeOK
  <2>5. CASE Listen \/ ConnLost \/ TriggerReconnect \/ Reconnect \/ Server
    BY <2>1, <2>5 DEF Listen, HandleChatOrTool, HandleStart, HandleRejected, HandleAbortRes,
       Deliver, Dropped, ToBridge, ConnLost, TriggerReconnect, Reconnect, Server, ServerSend,
       ServerAbort, ServerPush, ServerEmits, ServerEnds, EmitOne, Emit, registry
  <2>6. ASSUME NEW r \in Reqs,
               \/ Refused(r) \/ SendDone(r) \/ AbortSent(r)
               \/ Consume(r) \/ Timeout(r) \/ AbortTakes(r)
        PROVE  Handed
    BY <2>1, <2>6 DEF Refused, SendDone, AbortSent, Consume, Timeout, AbortTakes, registry
  <2>7. CASE (\E k \in Keys : TombstoneExpires(k)) \/ UNCHANGED vars
    BY <2>1, <2>7 DEF TombstoneExpires, vars, registry
  <2> QED BY <2>2, <2>3, <2>4, <2>5, <2>6, <2>7 DEF Next, ReqStep, Reads
<1> QED BY <1>1, RegistryInit, RegistryStep, PTL DEF Spec, HandedOver
-----------------------------------------------------------------------------
(* The queues.                                                             *)

Queues == QueuesBounded /\ OverflowIsAlone /\ NobodyWaitsInVain

\* A request owns at most one key, the one its reqSession names.
LEMMA OneKey ==
  ASSUME Registry, NEW j \in Keys, NEW k \in Keys, session[j] = session[k], session[k] # None
  PROVE  session[k] \in Reqs /\ j = k /\ reqSession[session[k]] = k
BY DEF Registry, TypeOK, MapsAgree

\* A step that touches no queue and starts no turn.
LEMMA QueuesUntouched ==
  ASSUME Registry, Queues, UNCHANGED <<session, reqSession, overflowed, queue>>,
         \A r \in Reqs : req'[r].pc \in {"sending", "reading"}
                          => req[r].pc \in {"sending", "reading"}
  PROVE  Queues'
BY DEF Queues, QueuesBounded, OverflowIsAlone, NobodyWaitsInVain

\* One item leaves a queue.  The last of a turn that lost its registration is only read by a
\* turn that ends with it.
LEMMA TakeQueues ==
  ASSUME Registry, Queues, NEW r \in Reqs, Consume(r) \/ AbortTakes(r)
  PROVE  Queues'
<1>1. /\ queue[r] # <<>> /\ queue[r] \in Seq(Item) /\ queue' = [queue EXCEPT ![r] = Tail(queue[r])]
      /\ UNCHANGED <<session, owner, reqSession, overflowed>>
  BY DEF Consume, AbortTakes, Registry, TypeOK, registry
<1>2. /\ Tail(queue[r]) \in Seq(Item) /\ Len(Tail(queue[r])) = Len(queue[r]) - 1
      /\ Len(queue[r]) \in Nat
      /\ \A i \in 1..Len(Tail(queue[r])) : Tail(queue[r])[i] = queue[r][i + 1]
  BY <1>1, HeadTailProperties
<1>3. QueuesBounded'
  BY <1>1, <1>2, OpenClawAssumption DEF Queues, QueuesBounded, Registry, TypeOK
<1>4. OverflowIsAlone'
  <2>1. ASSUME NEW k \in overflowed
        PROVE  session[k] # None /\ queue'[session[k]] \in {<<>>, <<Overflow>>}
    <3>1. session[k] \in Reqs /\ session[k] # None /\ queue[session[k]] \in {<<>>, <<Overflow>>}
      BY DEF Queues, OverflowIsAlone, Registry, TypeOK
    <3>2. Tail(<<Overflow>>) = <<>>
      OBVIOUS
    <3>3. CASE session[k] = r
      BY <1>1, <3>1, <3>2, <3>3 DEF Registry, TypeOK
    <3>4. CASE session[k] # r
      BY <1>1, <3>1, <3>4 DEF Registry, TypeOK
    <3> QED BY <3>1, <3>3, <3>4
  <2> QED BY <1>1, <2>1 DEF OverflowIsAlone
<1>5. NobodyWaitsInVain'
  <2> SUFFICES ASSUME NEW x \in Reqs, req'[x].pc \in {"sending", "reading"}, reqSession[x] = None
               PROVE  queue'[x] # <<>> /\ queue'[x][Len(queue'[x])] = Lost
    BY <1>1 DEF NobodyWaitsInVain
  <2>1. CASE x # r
    <3>1. req'[x] = req[x] /\ queue'[x] = queue[x]
      BY <1>1, <2>1 DEF Consume, AbortTakes, Goto, Registry, TypeOK
    <3> QED BY <3>1 DEF Queues, NobodyWaitsInVain
  <2>2. CASE x = r
    <3>1. Consume(r) /\ Head(queue[r]).kind \notin {"final", "rejected", "lost"}
      BY <2>2 DEF Consume, AbortTakes, Goto, Registry, TypeOK
    <3>2. queue[r][Len(queue[r])] = Lost
      BY <2>2, <3>1 DEF Consume, Queues, NobodyWaitsInVain
    <3>3. Head(queue[r]) = queue[r][1] /\ Head(queue[r]) # Lost
      BY <1>1, <3>1 DEF Lost
    <3>4. Len(queue[r]) > 1
      BY <1>1, <1>2, <3>2, <3>3
    <3>5. Len(Tail(queue[r])) \in 1..Len(Tail(queue[r])) /\ Len(Tail(queue[r])) + 1 = Len(queue[r])
      BY <1>2, <3>4
    <3>6. Tail(queue[r])[Len(Tail(queue[r]))] = Lost
      BY <1>2, <3>2, <3>5
    <3>7. Tail(queue[r]) # <<>>
      <4>1. \A q \in Seq(Item) : Len(q) \in 1..Len(q) => q # <<>>
        OBVIOUS
      <4> QED BY <1>2, <3>5, <4>1
    <3> QED BY <1>1, <2>2, <3>6, <3>7 DEF Registry, TypeOK
  <2> QED BY <2>1, <2>2
<1> QED BY <1>3, <1>4, <1>5 DEF Queues

\* A registered queue gets an item, or is flooded and only says so.
LEMMA DeliverQueues ==
  ASSUME Registry, Queues, NEW k \in Keys, session[k] # None, NEW item \in Item,
         Deliver(k, item), UNCHANGED req
  PROVE  Queues'
<1> DEFINE s == session[k]
<1>1. s \in Reqs /\ reqSession[s] = k /\ queue[s] \in Seq(Item)
  BY OneKey DEF Registry, TypeOK
<1>2. UNCHANGED <<session, reqSession, req>>
  BY DEF Deliver
<1>3. CASE Flagged(k)
  BY <1>2, <1>3, QueuesUntouched DEF Deliver
<1>4. ASSUME NEW q, queue' = [queue EXCEPT ![s] = q], Len(q) <= QMax, ~Flagged(k),
             \/ UNCHANGED overflowed
             \/ overflowed' = overflowed \cup {k} /\ q = <<Overflow>>
      PROVE  Queues'
  <2>1. \A r \in Reqs : queue'[r] = IF r = s THEN q ELSE queue[r]
    BY <1>4 DEF Registry, TypeOK
  <2>2. QueuesBounded'
    BY <1>4, <2>1 DEF Queues, QueuesBounded
  <2>3. OverflowIsAlone'
    <3> SUFFICES ASSUME NEW j \in overflowed'
                 PROVE  session[j] # None /\ queue'[session[j]] \in {<<>>, <<Overflow>>}
      BY <1>2 DEF OverflowIsAlone
    <3>1. CASE j = k
      BY <1>1, <1>4, <2>1, <3>1 DEF Flagged
    <3>2. CASE j # k
      <4>1. j \in overflowed /\ j \in Keys
        BY <1>4, <3>2 DEF Registry, TypeOK
      <4>2. /\ session[j] # None /\ queue[session[j]] \in {<<>>, <<Overflow>>}
            /\ session[j] \in Reqs
        BY <4>1 DEF Queues, OverflowIsAlone, Registry, TypeOK
      <4>3. session[j] # s
        BY <3>2, <4>1, OneKey
      <4> QED BY <2>1, <4>2, <4>3
    <3> QED BY <3>1, <3>2
  <2>4. NobodyWaitsInVain'
    <3>1. \A r \in Reqs : reqSession[r] = None => r # s
      BY <1>1, OpenClawAssumption
    <3> QED BY <1>2, <2>1, <3>1 DEF Queues, NobodyWaitsInVain
  <2> QED BY <2>2, <2>3, <2>4 DEF Queues
<1>5. CASE ~Flagged(k) /\ Fits(queue[s])
  <2>1. /\ queue' = [queue EXCEPT ![s] = Append(queue[s], item)] /\ UNCHANGED overflowed
    BY <1>5 DEF Deliver
  <2>2. Len(Append(queue[s], item)) <= QMax
    BY <1>1, <1>5, OpenClawAssumption DEF Fits
  <2> QED BY <1>4, <1>5, <2>1, <2>2
<1>6. CASE ~Flagged(k) /\ ~Fits(queue[s])
  <2>1. queue' = [queue EXCEPT ![s] = <<Overflow>>] /\ overflowed' = overflowed \cup {k}
    BY <1>6 DEF Deliver
  <2>2. Len(<<Overflow>>) <= QMax
    BY OpenClawAssumption
  <2> QED BY <1>4, <1>6, <2>1, <2>2
<1> QED BY <1>3, <1>5, <1>6

\* The connection ends: every turn that was registered has the news last.
LEMMA ErrorAllQueues ==
  ASSUME Registry, Queues, ErrorAll, UNCHANGED req
  PROVE  Queues'
<1>1. Lost \in Item
  BY DEF Lost, Item
<1>2. ASSUME NEW r \in Reqs
      PROVE  /\ queue'[r] \in {queue[r], ForcePut(queue[r], Lost)}
             /\ (\E k \in Keys : session[k] = r) => queue'[r] = ForcePut(queue[r], Lost)
             /\ queue[r] \in Seq(Item)
  BY DEF ErrorAll, Registry, TypeOK
<1>3. QueuesBounded'
  BY <1>1, <1>2, ForcePutType DEF Queues, QueuesBounded
<1>4. OverflowIsAlone'
  BY DEF ErrorAll, OverflowIsAlone
<1>5. NobodyWaitsInVain'
  <2> SUFFICES ASSUME NEW r \in Reqs, req[r].pc \in {"sending", "reading"}
               PROVE  queue'[r] # <<>> /\ queue'[r][Len(queue'[r])] = Lost
    BY DEF NobodyWaitsInVain
  <2>1. CASE reqSession[r] = None
    <3>1. \A k \in Keys : session[k] # r
      BY <2>1, OpenClawAssumption DEF Registry, MapsAgree
    <3>2. queue'[r] = queue[r]
      BY <3>1 DEF ErrorAll, Registry, TypeOK
    <3> QED BY <2>1, <3>2 DEF Queues, NobodyWaitsInVain
  <2>2. CASE reqSession[r] # None
    <3>1. reqSession[r] \in Keys /\ session[reqSession[r]] = r
      BY <2>2 DEF Registry, TypeOK, MapsAgree
    <3>2. queue'[r] = ForcePut(queue[r], Lost) /\ queue[r] \in Seq(Item)
      BY <1>2, <3>1
    <3> QED BY <1>1, <3>2, ForcePutType
  <2> QED BY <2>1, <2>2
<1> QED BY <1>3, <1>4, <1>5 DEF Queues

\* The finally: the flag of a flooded key goes with its registration.
LEMMA LeaveQueues ==
  ASSUME Registry, Queues, NEW r \in Reqs, NEW aborts \in BOOLEAN, req[r].pc \in Waiting,
         Leave(r, aborts)
  PROVE  Queues'
<1> DEFINE k == req[r].key
<1>1. /\ k \in Keys
      /\ session' = [session EXCEPT ![k] = IF owner[k] = r THEN None ELSE session[k]]
      /\ overflowed' = IF owner[k] = r THEN overflowed \ {k} ELSE overflowed
      /\ reqSession' = [reqSession EXCEPT ![r] = None]
      /\ queue' = [queue EXCEPT ![r] = <<>>]
      /\ req' = [req EXCEPT ![r] = [pc |-> "done", key |-> None]]
  BY DEF Leave, Unregister, Freed, Owns, Registry, KeyKnown
<1>2. QueuesBounded'
  BY <1>1, OpenClawAssumption DEF Queues, QueuesBounded, Registry, TypeOK
<1>3. OverflowIsAlone'
  <2> SUFFICES ASSUME NEW j \in overflowed'
               PROVE  session'[j] # None /\ queue'[session'[j]] \in {<<>>, <<Overflow>>}
    BY DEF OverflowIsAlone
  <2>1. /\ j \in overflowed /\ j \in Keys /\ session[j] \in Reqs
        /\ session[j] # None /\ queue[session[j]] \in {<<>>, <<Overflow>>}
    BY <1>1 DEF Queues, OverflowIsAlone, Registry, TypeOK
  <2>2. session'[j] = session[j]
    BY <1>1, <2>1 DEF Registry, TypeOK
  <2> QED BY <1>1, <2>1, <2>2 DEF Registry, TypeOK
<1>4. NobodyWaitsInVain'
  BY <1>1 DEF Queues, NobodyWaitsInVain, Registry, TypeOK
<1> QED BY <1>2, <1>3, <1>4 DEF Queues

\* A new registration: its key was free, so no flag of an earlier turn is left on it.
LEMMA RegisterQueues ==
  ASSUME Registry, Queues, NEW r \in Reqs, NEW k \in Keys, TurnBegin(r, k) \/ AbortBegin(r, k)
  PROVE  Queues'
<1>1. /\ session[k] = None /\ session' = [session EXCEPT ![k] = r]
      /\ reqSession' = [reqSession EXCEPT ![r] = k] /\ UNCHANGED <<overflowed, queue>>
      /\ \A x \in Reqs : x # r => req'[x] = req[x]
  BY DEF TurnBegin, AbortBegin, Register, Free, Registry, TypeOK
<1>2. QueuesBounded'
  BY <1>1 DEF Queues, QueuesBounded
<1>3. OverflowIsAlone'
  BY <1>1 DEF Queues, OverflowIsAlone, Registry, TypeOK
<1>4. NobodyWaitsInVain'
  BY <1>1, OpenClawAssumption DEF Queues, NobodyWaitsInVain, Registry, TypeOK
<1> QED BY <1>2, <1>3, <1>4 DEF Queues

LEMMA QueuesStep == Registry /\ Queues /\ [Next]_vars => Queues'
<1> SUFFICES ASSUME Registry, Queues, [Next]_vars PROVE Queues'
  OBVIOUS
<1>1. ASSUME NEW r \in Reqs, Consume(r) \/ AbortTakes(r) PROVE Queues'
  BY <1>1, TakeQueues
<1>2. ASSUME NEW r \in Reqs, TurnOver(r) \/ TurnClosed(r) \/ AbortTimeout(r) PROVE Queues'
  <2>1. req[r].pc \in Waiting /\ \E aborts \in BOOLEAN : Leave(r, aborts)
    BY <1>2 DEF TurnOver, TurnClosed, AbortTimeout, Waiting
  <2> QED BY <2>1, LeaveQueues
<1>3. ASSUME NEW r \in Reqs, NEW k \in Keys, TurnBegin(r, k) \/ AbortBegin(r, k) PROVE Queues'
  BY <1>3, RegisterQueues
<1>4. ASSUME NEW r \in Reqs, Refused(r) \/ SendDone(r) \/ AbortSent(r) \/ Timeout(r) PROVE Queues'
  <2>1. UNCHANGED <<session, reqSession, overflowed, queue>>
    BY <1>4 DEF Refused, SendDone, AbortSent, Timeout, registry
  <2>2. /\ \A x \in Reqs \ {r} : req'[x] = req[x]
        /\ req'[r].pc \in {"sending", "reading"} => req[r].pc \in {"sending", "reading"}
    BY <1>4 DEF Refused, SendDone, AbortSent, Timeout, Goto, Registry, TypeOK
  <2>3. \A x \in Reqs : req'[x].pc \in {"sending", "reading"}
                        => req[x].pc \in {"sending", "reading"}
    BY <2>2
  <2> QED BY <2>1, <2>3, QueuesUntouched
<1>5. CASE Listen
  <2> DEFINE f == Head(wire)
  <2>1. f \in Frame
    BY <1>5, HeadTailProperties DEF Listen, Registry, TypeOK
  <2>2. CASE HandleChatOrTool(f) /\ ~Free(f.key)
    <3> DEFINE item == [kind |-> f.kind, run |-> f.run]
    <3>1. f.key \in Keys /\ session[f.key] # None /\ item \in Item
      BY <2>1, <2>2 DEF HandleChatOrTool, Frame, Event, Res, Item, Free
    <3> QED BY <2>2, <3>1, DeliverQueues DEF HandleChatOrTool
  <2>3. CASE HandleRejected(f) /\ f.req # None /\ reqSession[f.req] # None
             /\ ~Free(reqSession[f.req])
    <3>1. /\ reqSession[f.req] \in Keys /\ session[reqSession[f.req]] # None
          /\ [kind |-> "rejected", run |-> None] \in Item
      BY <2>1, <2>3 DEF Frame, Event, Res, Item, Free, Registry, TypeOK
    <3> QED BY <2>3, <3>1, DeliverQueues DEF HandleRejected
  <2>4. CASE HandleAbortRes(f)
    <3>1. UNCHANGED <<session, reqSession, overflowed, queue>>
      BY <2>4 DEF HandleAbortRes, registry
    <3>2. \A r \in Reqs : req'[r].pc \in {"sending", "reading"} => req'[r] = req[r]
      BY <2>4 DEF HandleAbortRes, Goto, Registry, TypeOK
    <3> QED BY <3>1, <3>2, QueuesUntouched
  <2>5. CASE UNCHANGED <<registry, queue, req>>
    BY <2>5, QueuesUntouched DEF registry
  <2> QED BY <1>5, <2>2, <2>3, <2>4, <2>5 DEF Listen, HandleChatOrTool, HandleStart,
                                              HandleRejected, Dropped, ToBridge
<1>6. CASE ListenEnds
  BY <1>6, ErrorAllQueues DEF ListenEnds
<1>7. CASE \/ Server \/ ConnLost \/ TriggerReconnect \/ Reconnect
           \/ (\E k \in Keys : TombstoneExpires(k)) \/ UNCHANGED vars
  <2>1. UNCHANGED <<session, reqSession, overflowed, queue, req>>
    BY <1>7 DEF Server, ServerSend, ServerAbort, ServerPush, ServerEmits, ServerEnds, EmitOne, Emit,
                ConnLost, TriggerReconnect, Reconnect, TombstoneExpires, vars, registry
  <2> QED BY <2>1, QueuesUntouched
<1> QED BY <1>1, <1>2, <1>3, <1>4, <1>5, <1>6, <1>7 DEF Next, ReqStep, Reads

\* The queue invariants rest on the registry's: a queue has one key, and the key one queue.
LEMMA QueuesAlways == Spec => [](Registry /\ Queues)
<1>1. Init => Queues
  BY OpenClawAssumption
     DEF Init, Queues, QueuesBounded, OverflowIsAlone, NobodyWaitsInVain
<1> QED BY <1>1, RegistryInit, RegistryStep, QueuesStep, PTL DEF Spec

\* A turn that nobody reads never holds more than TURN_QUEUE_MAX frames, and a flooded turn reads
\* its overflow and nothing after it: no gap in what the client hears.
THEOREM QueuesAlwaysHold == Spec => []QueuesHold
<1>1. Registry /\ Queues => QueuesHold
  BY DEF Queues, QueuesHold
<1> QED BY <1>1, QueuesAlways, PTL

\* error_all reaches every turn that waits: none is left to sit out TURN_TIMEOUT_S because the
\* connection died under it (G-04).
THEOREM EveryWaiterIsTold == Spec => []NobodyWaitsInVain
<1>1. Registry /\ Queues => NobodyWaitsInVain
  BY DEF Queues
<1> QED BY <1>1, QueuesAlways, PTL
=============================================================================
