-------------------------- MODULE OpenClawConnection --------------------------
(***************************************************************************)
(* The life of the one connection to OpenClaw: ReconnectingOpenClawClient   *)
(* (src/jota_gateway/services/openclaw/reconnecting.py), the backoff of     *)
(* services/reconnection.py, and connect, close and _listen of             *)
(* OpenClawClient.                                                         *)
(*                                                                         *)
(* connect() may be running in the start-up, in the reconnect loop and in   *)
(* the slow retry, one of them cancelled and still cleaning up; they pass   *)
(* through _connect_lock.  A step is what a task does between two awaits    *)
(* that suspend it; task.cancel() takes effect at the task's next step.     *)
(***************************************************************************)
EXTENDS Naturals, FiniteSets, SequencesExt

CONSTANTS
  Tasks,       \* names for the tasks that are alive at once
  Socks,       \* names for the sockets that are open at once
  None,
  MaxFlaps,    \* bound: times OpenClaw goes, comes back or drops the connection
  MaxTriggers  \* bound: calls of trigger_reconnect (the admin API)

ASSUME ConnectionAssumption ==
  /\ None \notin Tasks \cup Socks /\ Tasks # {} /\ Socks # {}
  /\ MaxFlaps \in Nat /\ MaxTriggers \in Nat

VARIABLES
  state,      \* _health.state
  exhausted,  \* _reconnect_exhausted
  closed,     \* _closed
  task,       \* the tasks that may run connect(): [kind, pc, cancel, sock]
  loopRef,    \* _reconnect_task, None when it is done
  slowRef,    \* _slow_retry_task, None when it is done
  lockQ,      \* _connect_lock: the holder, then the waiters
  ws,         \* _ws
  sockets,    \* the sockets that are open
  dead,       \* those among them whose other end is gone
  listener,   \* _listener_task
  closer,     \* the call of close(): [pc, target]
  reach,      \* OpenClaw answers
  flaps, triggers

health  == <<state, exhausted, closed>>
refs    == <<loopRef, slowRef>>
net     == <<ws, sockets, dead>>
counts  == <<reach, flaps, triggers>>
vars == <<health, task, refs, lockQ, net, listener, closer, counts>>

States == {"CONNECTED", "RECONNECTING", "DEGRADED"}

TypeOK ==
  /\ state \in States /\ {exhausted, closed, reach} \subseteq BOOLEAN
  /\ task \in [Tasks -> [kind : {"none", "boot", "loop", "slow"},
                         pc : {"sleep", "lock", "stop", "opening", "handshake", "cleanup", "abandon"},
                         cancel : BOOLEAN, sock : Socks \cup {None}]]
  /\ loopRef \in {t \in Tasks : task[t].kind = "loop"} \cup {None}
  /\ slowRef \in {t \in Tasks : task[t].kind = "slow"} \cup {None}
  /\ lockQ \in Seq(Tasks)
  /\ ws \in Socks \cup {None} /\ sockets \subseteq Socks /\ dead \subseteq sockets
  /\ listener \in {"none", "alive", "cancelled"}
  /\ closer \in [pc : {"none", "slow", "loop", "client", "done"}, target : Tasks \cup {None}]
  /\ flaps \in 0..MaxFlaps /\ triggers \in 0..MaxTriggers

Task(kind, pc) == [kind |-> kind, pc |-> pc, cancel |-> FALSE, sock |-> None]
NoTask == Task("none", "sleep")

\* The start-up is in connect().
Init ==
  /\ state = "DEGRADED" /\ exhausted = FALSE /\ closed = FALSE
  /\ \E t \in Tasks : /\ task = [x \in Tasks |-> IF x = t THEN Task("boot", "lock") ELSE NoTask]
                      /\ lockQ = <<t>>
  /\ loopRef = None /\ slowRef = None
  /\ ws = None /\ sockets = {} /\ dead = {} /\ listener = "none"
  /\ closer = [pc |-> "none", target |-> None]
  /\ reach \in BOOLEAN /\ flaps = 0 /\ triggers = 0
-----------------------------------------------------------------------------
(* Tasks.                                                                  *)

Alive(t)     == t # None /\ task[t].kind # "none"
At(t, pc)    == Alive(t) /\ task[t].pc = pc
Live(t, pc)  == At(t, pc) /\ ~task[t].cancel
Asked(t, pc) == At(t, pc) /\ task[t].cancel
Booting      == \E t \in Tasks : task[t].kind = "boot"

CancelTask(t) == IF Alive(t) THEN [task EXCEPT ![t].cancel = TRUE] ELSE task
Moves(t, pc)  == task' = [task EXCEPT ![t].pc = pc]


\* The task ends: whoever asks its reference finds it done.
Ends(t) ==
  /\ task' = [task EXCEPT ![t] = NoTask]
  /\ loopRef' = IF loopRef = t THEN None ELSE loopRef
  /\ slowRef' = IF slowRef = t THEN None ELSE slowRef

AnyTurn(t)  == TRUE     \* mutant of HasLock: connect() without _connect_lock
HasLock(t)  == lockQ[1] = t
Queued(t)   == \E i \in DOMAIN lockQ : lockQ[i] = t
Without(t)  == IF Queued(t) THEN RemoveAt(lockQ, CHOOSE i \in DOMAIN lockQ : lockQ[i] = t) ELSE lockQ

IgnoresBreaker(ex) == closed     \* mutant of Refuses: the circuit breaker is not read
Refuses(ex)        == ex \/ closed

\* _ensure_reconnecting with _reconnect_exhausted = ex, after the step's own change T of the tasks.
Ensure(T, ex) ==
  IF Refuses(ex) \/ loopRef # None
  THEN task' = T /\ UNCHANGED <<state, loopRef>>
  ELSE \E n \in Tasks : /\ T[n].kind = "none"
                        /\ task' = [T EXCEPT ![n] = Task("loop", "sleep")]
                        /\ loopRef' = n /\ state' = "RECONNECTING"

\* An attempt failed: the start-up begins the loop; the loop sleeps, or its time is up and the
\* slow retry takes over; the slow retry sleeps.
NeverSlow   == FALSE     \* mutant of StartsSlow: DEGRADED is terminal (G-55)
StartsSlow  == ~closed /\ slowRef = None

AttemptFailed(t) ==
  \/ /\ task[t].kind = "boot"
     /\ task' = [task EXCEPT ![t] = Task("loop", "sleep")]
     /\ loopRef' = t /\ state' = "RECONNECTING"
     /\ UNCHANGED <<exhausted, closed, slowRef>>
  \/ /\ task[t].kind \in {"loop", "slow"}
     /\ task' = [task EXCEPT ![t].pc = "sleep"]
     /\ UNCHANGED <<health, refs>>
  \/ /\ task[t].kind = "loop"
     /\ state' = "DEGRADED" /\ exhausted' = TRUE /\ loopRef' = None
     /\ IF StartsSlow
        THEN task' = [task EXCEPT ![t] = Task("slow", "sleep")] /\ slowRef' = t
        ELSE task' = [task EXCEPT ![t] = NoTask] /\ UNCHANGED slowRef
     /\ UNCHANGED closed

AttemptDone(t) ==
  /\ state' = "CONNECTED"
  /\ exhausted' = IF task[t].kind = "loop" THEN exhausted ELSE FALSE
  /\ Ends(t)
  /\ UNCHANGED closed
-----------------------------------------------------------------------------
(* connect(), in whichever task runs it.                                   *)

\* The sleep is over (the loop's first attempt has none); the slow retry asks whether it is needed.
Attempt(t) ==
  /\ Live(t, "sleep")
  /\ IF task[t].kind = "slow" /\ ~exhausted
     THEN Ends(t) /\ UNCHANGED lockQ
     ELSE Moves(t, "lock") /\ lockQ' = Append(lockQ, t) /\ UNCHANGED refs
  /\ UNCHANGED <<health, net, listener, closer, counts>>

\* With the lock: _cancel_and_close cancels the listener of the old connection first (#103).
Acquire(t) ==
  /\ Live(t, "lock") /\ HasLock(t)
  /\ Moves(t, "stop")
  /\ listener' = IF listener = "alive" THEN "cancelled" ELSE listener
  /\ UNCHANGED <<health, refs, lockQ, net, closer, counts>>

\* Teardown finishes even if its caller is cancelled, and only then lets the cancellation out.
Reraises(t) == task[t].cancel

CloseOld(t) ==
  /\ At(t, "stop") /\ listener = "none"
  /\ sockets' = sockets \ {ws} /\ dead' = dead \ {ws} /\ ws' = None
  /\ IF Reraises(t)
     THEN Ends(t) /\ lockQ' = Without(t)
     ELSE /\ task' = [task EXCEPT ![t].pc = "opening", ![t].cancel = FALSE]
          /\ UNCHANGED <<refs, lockQ>>
  /\ UNCHANGED <<health, listener, closer, counts>>

OpenOk(t) ==
  /\ Live(t, "opening") /\ reach
  /\ \E s \in Socks \ sockets : ws' = s /\ sockets' = sockets \cup {s}
  /\ Moves(t, "handshake")
  /\ UNCHANGED <<health, refs, lockQ, dead, listener, closer, counts>>

OpenFails(t) ==
  /\ Live(t, "opening") /\ ~reach
  /\ AttemptFailed(t) /\ lockQ' = Without(t)
  /\ UNCHANGED <<net, listener, closer, counts>>

Connected(t) ==
  /\ Live(t, "handshake") /\ reach /\ ws \notin dead
  /\ AttemptDone(t) /\ lockQ' = Without(t)
  /\ listener' = "alive"
  /\ UNCHANGED <<net, closer, counts>>

\* The finally of _do_connect closes the socket of a handshake that failed or was cancelled.
HandshakeFails(t) ==
  /\ \/ Live(t, "handshake") /\ (~reach \/ ws \in dead)
        /\ task' = [task EXCEPT ![t].pc = "cleanup", ![t].sock = ws]
     \/ Asked(t, "handshake")
        /\ task' = [task EXCEPT ![t].pc = "abandon", ![t].sock = ws]
  /\ UNCHANGED <<health, refs, lockQ, net, listener, closer, counts>>

CleanedUp(t) ==
  /\ Live(t, "cleanup") \/ At(t, "abandon")
  /\ sockets' = sockets \ {task[t].sock} /\ dead' = dead \ {task[t].sock} /\ ws' = None
  /\ lockQ' = Without(t)
  /\ IF task[t].pc = "cleanup" THEN AttemptFailed(t) ELSE Ends(t) /\ UNCHANGED health
  /\ UNCHANGED <<listener, closer, counts>>

\* A cancellation anywhere else.  In the middle of the finally it leaves _ws as it is.
Cancelled(t) ==
  /\ \E pc \in {"sleep", "lock", "opening", "cleanup"} : Asked(t, pc)
  /\ Ends(t) /\ lockQ' = Without(t)
  /\ UNCHANGED <<health, net, listener, closer, counts>>
-----------------------------------------------------------------------------
(* The listener.                                                           *)

\* A cancelled listener says nothing; one that ends by itself reports the disconnection.
ListenerCancelled ==
  /\ listener = "cancelled" /\ listener' = "none"
  /\ UNCHANGED <<health, task, refs, lockQ, net, closer, counts>>

NobodyTold    == task' = task /\ UNCHANGED <<state, loopRef>>     \* mutant of OnDisconnect
OnDisconnect  == Ensure(task, exhausted)

ListenerEnds ==
  /\ listener = "alive" /\ ws \in dead
  /\ listener' = "none"
  /\ OnDisconnect
  /\ UNCHANGED <<exhausted, closed, slowRef, lockQ, net, closer, counts>>
-----------------------------------------------------------------------------
(* Calls.                                                                  *)

CancelSlow  == CancelTask(slowRef)

TriggerReconnect ==
  /\ ~Booting /\ triggers < MaxTriggers /\ triggers' = triggers + 1
  /\ exhausted' = FALSE /\ slowRef' = None
  /\ Ensure(CancelSlow, FALSE)
  /\ UNCHANGED <<closed, lockQ, net, listener, closer, reach, flaps>>

\* ping() and stream_response() while DEGRADED.
Ask ==
  /\ ~Booting /\ state = "DEGRADED"
  /\ Ensure(task, exhausted)
  /\ UNCHANGED <<exhausted, closed, slowRef, lockQ, net, listener, closer, counts>>

MarkClosed == closed' = TRUE

CloseBegin ==
  /\ ~Booting /\ closer.pc = "none"
  /\ MarkClosed /\ slowRef' = None
  /\ task' = CancelTask(slowRef)
  /\ closer' = [pc |-> "slow", target |-> slowRef]
  /\ UNCHANGED <<state, exhausted, loopRef, lockQ, net, listener, counts>>

\* The task close() waits for is over, or its 12 s are: only a socket that takes its time to
\* close, behind a listener that does too, takes that long.
Waited == ~Alive(closer.target) \/ At(closer.target, "stop")

CloseLoop ==
  /\ closer.pc = "slow" /\ Waited
  /\ task' = CancelTask(loopRef)
  /\ closer' = [pc |-> "loop", target |-> loopRef]
  /\ UNCHANGED <<health, refs, lockQ, net, listener, counts>>

\* OpenClawClient.close: _cancel_and_close, without the lock.
CloseClient ==
  /\ closer.pc = "loop" /\ Waited
  /\ listener' = IF listener = "alive" THEN "cancelled" ELSE listener
  /\ closer' = [pc |-> "client", target |-> None]
  /\ UNCHANGED <<health, task, refs, lockQ, net, counts>>

CloseEnd ==
  /\ closer.pc = "client" /\ listener = "none"
  /\ sockets' = sockets \ {ws} /\ dead' = dead \ {ws} /\ ws' = None
  /\ closer' = [pc |-> "done", target |-> None]
  /\ UNCHANGED <<health, task, refs, lockQ, listener, counts>>
-----------------------------------------------------------------------------
(* OpenClaw and the network.                                               *)

Flap == flaps < MaxFlaps /\ flaps' = flaps + 1

Flip ==
  /\ Flap /\ reach' = ~reach
  /\ UNCHANGED <<health, task, refs, lockQ, net, listener, closer, triggers>>

SocketDies ==
  /\ Flap /\ \E s \in sockets \ dead : dead' = dead \cup {s}
  /\ UNCHANGED <<health, task, refs, lockQ, ws, sockets, listener, closer, reach, triggers>>
-----------------------------------------------------------------------------
TaskStep(t) == \/ Attempt(t) \/ Acquire(t) \/ CloseOld(t) \/ OpenOk(t) \/ OpenFails(t)
               \/ Connected(t) \/ HandshakeFails(t) \/ CleanedUp(t) \/ Cancelled(t)
Listening   == ListenerCancelled \/ ListenerEnds
Closing     == CloseLoop \/ CloseClient \/ CloseEnd

Next == \/ \E t \in Tasks : TaskStep(t)
        \/ Listening \/ Closing
        \/ TriggerReconnect \/ Ask \/ CloseBegin
        \/ Flip \/ SocketDies

Spec == Init /\ [][Next]_vars

\* The event loop runs every ready task and every wait of connect() and close() has a timeout.
FairSpec == /\ Spec /\ WF_vars(Listening) /\ WF_vars(Closing)
            /\ \A t \in Tasks : WF_vars(TaskStep(t))
-----------------------------------------------------------------------------
(* Properties.                                                             *)

\* No socket is ever without its owner: what is open is _ws, although attempts overlap.
NoSocketLost == TypeOK /\ sockets \subseteq {ws}

\* CONNECTED is never a corpse: somebody listens, and will say when the connection goes.
ConnectedIsHeard == state = "CONNECTED" /\ ~closed => listener = "alive" \/ listener = "cancelled"

\* While there is no service somebody is trying, and will try again (G-55).
SomebodyTries ==
  state # "CONNECTED" /\ ~closed =>
    \/ Booting
    \/ \E t \in {loopRef, slowRef} : Alive(t) /\ ~task[t].cancel

\* The circuit breaker (#102): once the window is exhausted, one slow attempt at a time; no call
\* and no late event starts the loop again.
BreakerHolds == exhausted => /\ loopRef = None
                             /\ Cardinality({t \in Tasks : Alive(t) /\ ~task[t].cancel}) <= 1

\* After close() there is no socket, no listener, and nobody left who would open one (G-52).
ClosedForGood ==
  closer.pc = "done" => /\ sockets = {} /\ listener = "none"
                        /\ \A t \in Tasks : Alive(t) => task[t].cancel

\* Neither the breaker nor the close is undone by an attempt that was under way or a late event.
NobodyStartsAgain == BreakerHolds /\ ClosedForGood

\* Whatever happened before, if OpenClaw stays reachable the service comes back.
Recovers == []<>(~reach \/ closed \/ state = "CONNECTED")
=============================================================================
