---------------------------- MODULE OpenClawTurns ----------------------------
(***************************************************************************)
(* The OpenClaw side of the gateway: OpenClawClient (stream_response, abort *)
(* and _listen), TurnRegistry and FrameDispatcher, under                    *)
(* src/jota_gateway/services/openclaw/, behind the state check of           *)
(* ReconnectingOrchestrator.                                               *)
(*                                                                         *)
(* All sessions share one WebSocket.  A request registers its session key  *)
(* and reads a bounded queue of its own; _listen routes every frame by     *)
(* session key, never by run, and never blocks.  A step is what one task   *)
(* does between two awaits that suspend it.  A queue is named by the       *)
(* request that created it.                                                *)
(***************************************************************************)
EXTENDS Naturals, Sequences, FiniteSets

CONSTANTS
  Keys,        \* session keys
  Reqs,        \* requests: turns (chat.send) and the chat.abort of a cut push
  Pushes,      \* runs OpenClaw starts on its own
  None,
  QMax,        \* TURN_QUEUE_MAX
  MaxWire      \* bound: frames OpenClaw has sent and _listen has not read

ASSUME OpenClawAssumption ==
  /\ None \notin Keys \cup Reqs \cup Pushes /\ Reqs \cap Pushes = {}
  /\ QMax \in Nat \ {0} /\ MaxWire \in Nat

VARIABLES
  session,     \* _sessions: the queue that owns each key
  owner,       \* _session_owner
  reqSession,  \* _req_to_session
  overflowed,  \* _overflowed
  tombstones,  \* _tombstones that have not expired
  queue,       \* the queue of each request
  req,         \* each request's task: [pc, key]
  conn,        \* the connection: state and _ws
  toServer,    \* messages on their way to OpenClaw
  wire,        \* frames on their way to _listen
  active,      \* OpenClaw's runs in progress: {[run, key]}
  pushStarted, \* runs for which the dispatcher queued a push turn_start on the bridge
  flooded      \* history: turns that read their overflow

registry == <<session, owner, reqSession, overflowed, tombstones>>
history  == <<pushStarted, flooded>>
vars == <<registry, queue, req, conn, toServer, wire, active, history>>

Runs  == Reqs \cup Pushes
\* "delta" stands for a token or a tool event, "final" for the chat states final and error.
Chats == {"delta", "final", "aborted"}
Item  == [kind : Chats \cup {"rejected", "overflow", "lost"}, run : Runs \cup {None}]
Event == [kind : Chats \cup {"start"}, key : Keys, run : Runs, req : {None}]
Res   == [kind : {"rejected", "abort_yes", "abort_no"}, key : Keys, run : {None},
          req : Reqs \cup {None}]
Frame == Event \cup Res
Message == [kind : {"send"}, key : Keys, req : Reqs]
           \cup [kind : {"abort"}, key : Keys, req : Reqs \cup {None}]

TypeOK ==
  /\ session \in [Keys -> Reqs \cup {None}] /\ owner \in [Keys -> Reqs \cup {None}]
  /\ reqSession \in [Reqs -> Keys \cup {None}]
  /\ overflowed \subseteq Keys /\ tombstones \subseteq Keys
  /\ queue \in [Reqs -> Seq(Item)]
  /\ req \in [Reqs -> [pc : {"unused", "sending", "reading", "ended", "failed", "ab_send",
                             "ab_res", "ab_term", "done"},
                       key : Keys \cup {None}]]
  /\ conn \in {"up", "broken", "replacing", "down"}
  /\ toServer \in Seq(Message) /\ wire \in Seq(Frame)
  /\ active \subseteq [run : Runs, key : Keys]
  /\ pushStarted \subseteq Runs /\ flooded \subseteq Reqs

Init ==
  /\ session = [k \in Keys |-> None] /\ owner = [k \in Keys |-> None]
  /\ reqSession = [r \in Reqs |-> None]
  /\ overflowed = {} /\ tombstones = {}
  /\ queue = [r \in Reqs |-> <<>>]
  /\ req = [r \in Reqs |-> [pc |-> "unused", key |-> None]]
  /\ conn = "up" /\ toServer = <<>> /\ wire = <<>>
  /\ active = {}
  /\ pushStarted = {} /\ flooded = {}
-----------------------------------------------------------------------------
(* TurnRegistry.                                                           *)

FreeAnyway(k) == TRUE     \* mutant of Free: register() replaces the owner
Free(k)       == session[k] = None

Register(r, k) ==
  /\ session' = [session EXCEPT ![k] = r]
  /\ owner' = [owner EXCEPT ![k] = r]
  /\ reqSession' = [reqSession EXCEPT ![r] = k]
  /\ UNCHANGED <<overflowed, tombstones>>

\* Only the current owner frees the key: a late unregister of a turn that error_all already
\* forgot must not evict the turn that has it now (#99).
Owns(r, k)       == owner[k] = r

NotFreed(k, r) == UNCHANGED <<session, owner, overflowed>>     \* mutant of Freed
Freed(k, r) ==
  /\ session' = [session EXCEPT ![k] = IF Owns(r, k) THEN None ELSE @]
  /\ owner' = [owner EXCEPT ![k] = IF Owns(r, k) THEN None ELSE @]
  /\ overflowed' = IF Owns(r, k) THEN overflowed \ {k} ELSE overflowed

Unregister(r) ==
  /\ Freed(req[r].key, r)
  /\ reqSession' = [reqSession EXCEPT ![r] = None]
  /\ UNCHANGED tombstones

Fits(q)        == Len(q) < QMax

\* _deliver: a full queue is emptied and only says overflow; then the key takes nothing more.
Overflow == [kind |-> "overflow", run |-> None]

NeverFlagged(k) == FALSE     \* mutant of Flagged: a flooded queue is fed again once it has room
Flagged(k)      == k \in overflowed

Deliver(k, item) ==
  LET r == session[k]
  IN /\ UNCHANGED <<session, owner, reqSession, history>>
     /\ IF Flagged(k)
        THEN UNCHANGED <<queue, overflowed, tombstones>>
        ELSE IF Fits(queue[r])
        THEN /\ queue' = [queue EXCEPT ![r] = Append(@, item)]
             /\ UNCHANGED <<overflowed, tombstones>>
        ELSE /\ queue' = [queue EXCEPT ![r] = <<Overflow>>]
             /\ overflowed' = overflowed \cup {k} /\ tombstones' = tombstones \cup {k}

\* _force_put: the oldest entry makes room.
OfferOnly(q, item) == IF Len(q) < QMax THEN Append(q, item) ELSE q     \* mutant of ForcePut
ForcePut(q, item)  == IF Len(q) < QMax THEN Append(q, item) ELSE Append(Tail(q), item)

Lost == [kind |-> "lost", run |-> None]

ErrorAll ==
  /\ queue' = [r \in Reqs |-> IF \E k \in Keys : session[k] = r THEN ForcePut(queue[r], Lost)
                                                                 ELSE queue[r]]
  /\ session' = [k \in Keys |-> None] /\ owner' = [k \in Keys |-> None]
  /\ reqSession' = [r \in Reqs |-> None]
  /\ overflowed' = {}
  /\ UNCHANGED tombstones

\* TURN_ABORT_TOMBSTONE_S after the overflow.  It outlasts the frames in flight once the turn
\* has left, but not a consumer that is still to find out.
TombstoneExpires(k) ==
  /\ k \in tombstones
  /\ \/ k \in overflowed
     \/ /\ \A i \in 1..Len(wire) : wire[i].key # k
        /\ \A a \in active : a.key # k
  /\ tombstones' = tombstones \ {k}
  /\ UNCHANGED <<session, owner, reqSession, overflowed, queue, req, conn, toServer, wire,
                 active, history>>
-----------------------------------------------------------------------------
(* Requests.                                                               *)

Up == conn \in {"up", "replacing"}     \* what is sent reaches OpenClaw
Accepting == conn \in {"up", "broken"} \* state CONNECTED, whatever the socket knows

Goto(r, pc) == req' = [req EXCEPT ![r].pc = pc]
Tell(ms) == toServer' = IF Up THEN toServer \o ms ELSE toServer

\* stream_response: from the state check to the first suspension of ws.send.
TurnBegin(r, k) ==
  /\ req[r].pc = "unused" /\ Accepting /\ Free(k)
  /\ Register(r, k)
  /\ req' = [req EXCEPT ![r] = [pc |-> "sending", key |-> k]]
  /\ Tell(<<[kind |-> "send", key |-> k, req |-> r]>>)
  /\ UNCHANGED <<queue, conn, wire, active, history>>

\* abort: the key is held while the aborted run ends; its res may come before the send returns.
AbortBegin(r, k) ==
  /\ req[r].pc = "unused" /\ Accepting /\ Free(k)
  /\ Register(r, k)
  /\ req' = [req EXCEPT ![r] = [pc |-> "ab_send", key |-> k]]
  /\ Tell(<<[kind |-> "abort", key |-> k, req |-> r]>>)
  /\ UNCHANGED <<queue, conn, wire, active, history>>

\* orchestrator_unavailable, turn_in_progress, or an abort with nothing to do.
Refused(r) ==
  /\ req[r].pc = "unused"
  /\ ~Accepting \/ \E k \in Keys : ~Free(k)
  /\ Goto(r, "done")
  /\ UNCHANGED <<registry, queue, conn, toServer, wire, active, history>>

SendDone(r) ==
  /\ req[r].pc = "sending"
  /\ \/ Goto(r, "reading")
     \/ ~Up /\ Goto(r, "ended")     \* orchestrator_send_failed
  /\ UNCHANGED <<registry, queue, conn, toServer, wire, active, history>>

\* The loop of stream_response: "aborted" and the unknown states are not terminal for it.
Consume(r) ==
  /\ req[r].pc = "reading" /\ queue[r] # <<>>
  /\ Goto(r, CASE Head(queue[r]).kind \in {"final", "rejected", "lost"} -> "ended"
               [] Head(queue[r]).kind = "overflow" -> "failed"
               [] OTHER -> "reading")
  /\ flooded' = IF Head(queue[r]).kind = "overflow" THEN flooded \cup {r} ELSE flooded
  /\ queue' = [queue EXCEPT ![r] = Tail(@)]
  /\ UNCHANGED <<registry, conn, toServer, wire, active, pushStarted>>

\* Nothing came for TURN_TIMEOUT_S.
Timeout(r) ==
  /\ req[r].pc = "reading" /\ queue[r] = <<>>
  /\ Goto(r, "failed")
  /\ UNCHANGED <<registry, queue, conn, toServer, wire, active, history>>

\* The finally: unregister, and chat.abort unless the turn was over or never sent.
Leave(r, aborts) ==
  /\ req' = [req EXCEPT ![r] = [pc |-> "done", key |-> None]]
  /\ queue' = [queue EXCEPT ![r] = <<>>]     \* nobody holds it any more
  /\ Unregister(r)
  /\ Tell(IF aborts THEN <<[kind |-> "abort", key |-> req[r].key, req |-> None]>> ELSE <<>>)
  /\ UNCHANGED <<conn, wire, active, history>>

TurnOver(r)   == req[r].pc \in {"ended", "failed"} /\ Leave(r, req[r].pc = "failed")
\* Closed from outside: a barge-in, a send, the end of the session, a client that left.
TurnClosed(r) == req[r].pc \in {"sending", "reading"} /\ Leave(r, req[r].pc = "reading")

\* abort with its res: it waits for the terminal chat event of the run it aborted.
AbortTakes(r) ==
  /\ req[r].pc = "ab_term" /\ queue[r] # <<>>
  /\ queue' = [queue EXCEPT ![r] = Tail(@)]
  /\ Goto(r, IF Head(queue[r]).kind = "delta" THEN "ab_term" ELSE "ended")
  /\ UNCHANGED <<registry, conn, toServer, wire, active, history>>

AbortSent(r) ==
  /\ req[r].pc = "ab_send" /\ Goto(r, "ab_res")
  /\ UNCHANGED <<registry, queue, conn, toServer, wire, active, history>>

\* Its caller is cancelled, the send fails or, once it is out, its one second is over.
AbortTimeout(r) == req[r].pc \in {"ab_send", "ab_res", "ab_term"} /\ Leave(r, FALSE)
-----------------------------------------------------------------------------
(* _listen and FrameDispatcher.  An agent `end` is always passed on to the *)
(* bridge and touches nothing here, so runs end without that frame.        *)

ToBridge == UNCHANGED <<registry, queue, history>>     \* a push event that starts nothing
Dropped  == UNCHANGED <<registry, queue, history>>

HandleChatOrTool(f) ==
  /\ f.kind \in Chats
  /\ IF ~Free(f.key) THEN Deliver(f.key, [kind |-> f.kind, run |-> f.run])
     ELSE IF f.key \in tombstones THEN Dropped ELSE ToBridge
  /\ UNCHANGED req

HandleStart(f) ==
  /\ f.kind = "start"
  /\ IF Free(f.key) /\ f.key \notin tombstones
     THEN pushStarted' = pushStarted \cup {f.run} /\ UNCHANGED <<registry, queue, flooded>>
     ELSE Dropped
  /\ UNCHANGED req

HandleRejected(f) ==
  /\ f.kind = "rejected"
  /\ IF f.req # None /\ reqSession[f.req] # None /\ ~Free(reqSession[f.req])
     THEN Deliver(reqSession[f.req], [kind |-> "rejected", run |-> None])
     ELSE Dropped
  /\ UNCHANGED req

\* The res of chat.abort reaches the future of its caller, if it is still waiting.
HandleAbortRes(f) ==
  /\ f.kind \in {"abort_yes", "abort_no"}
  /\ IF f.req # None /\ req[f.req].pc \in {"ab_send", "ab_res"}
     THEN Goto(f.req, IF f.kind = "abort_yes" THEN "ab_term" ELSE "ended")
     ELSE UNCHANGED req
  /\ UNCHANGED <<registry, queue, history>>

Listen ==
  /\ wire # <<>>
  /\ LET f == Head(wire)
     IN \/ HandleChatOrTool(f) \/ HandleStart(f) \/ HandleRejected(f) \/ HandleAbortRes(f)
  /\ wire' = Tail(wire)
  /\ UNCHANGED <<conn, toServer, active>>

\* The listener ends, whatever ended it: error_all and, in the same step, on_disconnect.
ListenEnds ==
  /\ conn \in {"broken", "replacing"}
  /\ ErrorAll
  /\ conn' = "down" /\ wire' = <<>> /\ toServer' = <<>>
  /\ UNCHANGED <<req, active, history>>

\* The socket dies; until _listen notices, the state is still CONNECTED.
ConnLost ==
  /\ conn = "up" /\ conn' = "broken"
  /\ UNCHANGED <<registry, queue, req, toServer, wire, active, history>>

\* trigger_reconnect: RECONNECTING at once, the listener is cancelled when connect() begins.
TriggerReconnect ==
  /\ conn = "up" /\ conn' = "replacing"
  /\ UNCHANGED <<registry, queue, req, toServer, wire, active, history>>

Reconnect ==
  /\ conn = "down" /\ conn' = "up"
  /\ UNCHANGED <<registry, queue, req, toServer, wire, active, history>>
-----------------------------------------------------------------------------
(* OpenClaw, as the client uses it.                                        *)

F(kind, k, x, r) == [kind |-> kind, key |-> k, run |-> x, req |-> r]

\* Frames sent while there is no connection are lost.
Emit(fs) ==
  /\ Len(wire) + Len(fs) <= MaxWire
  /\ wire' = IF Up THEN wire \o fs ELSE wire
  /\ UNCHANGED <<registry, queue, req, conn, history>>

ServerSend ==
  /\ toServer # <<>> /\ Head(toServer).kind = "send"
  /\ LET m == Head(toServer)
     IN \/ /\ active' = active \cup {[run |-> m.req, key |-> m.key]}
           /\ Emit(<<F("start", m.key, m.req, None)>>)
        \/ Emit(<<F("rejected", m.key, None, m.req)>>) /\ UNCHANGED active
  /\ toServer' = Tail(toServer)

ServerAbort ==
  /\ toServer # <<>> /\ Head(toServer).kind = "abort"
  /\ LET m == Head(toServer)
         mine == {a \in active : a.key = m.key}
     IN \/ \E a \in mine :
             /\ active' = active \ {a}
             /\ Emit(<<F("aborted", m.key, a.run, None), F("abort_yes", m.key, None, m.req)>>)
        \/ mine = {} /\ Emit(<<F("abort_no", m.key, None, m.req)>>) /\ UNCHANGED active
  /\ toServer' = Tail(toServer)

EmitOne(f) == Emit(<<f>>) /\ UNCHANGED toServer

ServerPush(x, k) ==
  /\ active' = active \cup {[run |-> x, key |-> k]}
  /\ EmitOne(F("start", k, x, None))

\* A token, a tool event, or the start of a nested step.
ServerEmits(a, kind) == EmitOne(F(kind, a.key, a.run, None)) /\ UNCHANGED active

ServerEnds(a) == EmitOne(F("final", a.key, a.run, None)) /\ active' = active \ {a}
-----------------------------------------------------------------------------
\* The waits of a turn: its loop and its finally.
Reads(r) == Consume(r) \/ Timeout(r) \/ TurnOver(r)

ReqStep(r) == SendDone(r) \/ Reads(r) \/ AbortSent(r) \/ AbortTakes(r) \/ AbortTimeout(r)

Server == \/ ServerSend \/ ServerAbort
          \/ \E x \in Pushes, k \in Keys : ServerPush(x, k)
          \/ \E a \in active :
               ServerEnds(a) \/ \E kind \in {"delta", "start"} : ServerEmits(a, kind)

Next == \/ \E r \in Reqs : ReqStep(r) \/ TurnClosed(r) \/ Refused(r)
        \/ \E r \in Reqs, k \in Keys : TurnBegin(r, k) \/ AbortBegin(r, k)
        \/ \E k \in Keys : TombstoneExpires(k)
        \/ Listen \/ ListenEnds \/ ConnLost \/ TriggerReconnect \/ Reconnect
        \/ Server

Spec == Init /\ [][Next]_vars

\* The event loop runs every ready task.  TURN_TIMEOUT_S limits each wait for a frame, not the
\* turn, and the one second of an abort begins after its send; the sends have no timeout, and
\* OpenClaw, the network and the callers owe nothing.
AbortExpires(r) == req[r].pc \in {"ab_res", "ab_term"} /\ AbortTimeout(r)

Fairness ==
  /\ WF_vars(Listen \/ ListenEnds)
  /\ \A r \in Reqs : WF_vars(Reads(r) \/ AbortExpires(r))

FairSpec == Spec /\ Fairness
-----------------------------------------------------------------------------
(* Properties.                                                             *)

\* The three maps tell one story: a key has a queue exactly when it has an owner, the same
\* request, and that is the request whose rejection would find the key (register, unregister,
\* error_all).
MapsAgree ==
  /\ \A k \in Keys : session[k] = owner[k]
  /\ \A r \in Reqs, k \in Keys : reqSession[r] = k <=> owner[k] = r

\* No queue outgrows TURN_QUEUE_MAX, not even with the overflow or the lost-connection item.
QueuesBounded == \A r \in Reqs : Len(queue[r]) <= QMax

\* A key is only ever held by a request that is still to run its finally: none is leaked, which
\* would refuse every later turn of that session with turn_in_progress.
NoLeakedKey ==
  \A k \in Keys : session[k] # None =>
    /\ req[session[k]].pc \notin {"unused", "done"}
    /\ req[session[k]].key = k

\* Every key is accounted for: what the maps say of it agrees, and names a turn that will free it.
KeysAccounted == TypeOK /\ MapsAgree /\ NoLeakedKey

\* A turn that waits without a registration has the news in its queue, behind whatever came
\* before: it never sits out TURN_TIMEOUT_S after the connection died (G-04).
NobodyWaitsInVain ==
  \A r \in Reqs : req[r].pc \in {"sending", "reading"} /\ reqSession[r] = None =>
    queue[r] # <<>> /\ queue[r][Len(queue[r])] = Lost

\* A flooded turn hears of nothing but its overflow, however many frames follow.
OverflowIsAlone ==
  \A k \in overflowed : /\ session[k] # None
                        /\ queue[session[k]] \in {<<>>, <<Overflow>>}

\* What a slow consumer finds in its queue (_put): never more than it may hold, and the overflow
\* instead of the rest of an answer it did not get.
QueuesHold == QueuesBounded /\ OverflowIsAlone

\* A key changes hands only through nobody: its owner leaves it, or the connection is gone (#99).
HandedOver ==
  [][\A k \in Keys : owner[k] # None /\ owner'[k] # owner[k] =>
       /\ owner'[k] = None
       /\ req'[owner[k]].pc = "done" \/ conn' = "down"]_vars

\* A key is not held for ever by a request that has got its message out once OpenClaw sends
\* nothing for it, whatever it left unsaid: no final, no res, a dead connection.
Silent(k)  == \A i \in 1..Len(wire) : wire[i].key # k
HeldOn(k)  == session[k] # None /\ req[session[k]].pc \notin {"sending", "ab_send"}
KeysComeBack == \A k \in Keys : []<>~(Silent(k) /\ HeldOn(k))

\* What the idle watchdog is told (services/bridge.py): a turn is capped by TURN_TIMEOUT_S.
TurnIsCapped == \A r \in Reqs : req[r].pc = "reading" ~> req[r].pc # "reading"

\* A turn is fed the frames of its own run only (G-14).
OwnRunOnly == \A r \in Reqs :
  req[r].pc = "reading" => \A i \in 1..Len(queue[r]) : queue[r][i].run \in {None, r}

\* A turn aborted for overflow never comes back to the client as a push.
FloodedStaysDropped == flooded \cap pushStarted = {}
=============================================================================
