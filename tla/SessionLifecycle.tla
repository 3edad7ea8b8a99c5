-------------------------- MODULE SessionLifecycle --------------------------
(***************************************************************************)
(* The life of the sessions of one client: the route that serves a         *)
(* WebSocket (src/jota_gateway/api/routes.py), the session tasks and       *)
(* close_all of JotaBridge (services/bridge.py), and what outlives a       *)
(* session: ClientRegistry, SessionRegistry and the gateway's counters.    *)
(*                                                                         *)
(* What ends a session is noted by whoever sees it first and close_all is  *)
(* called by all of them: the route twice, the watchdogs, the revalidation *)
(* and the task that replaces a crashed idle watchdog.  Inside close_all   *)
(* the turn and the push (module BridgeTurns) are one await here.          *)
(***************************************************************************)
EXTENDS Naturals, FiniteSets

CONSTANTS
  Sessions,   \* sessions of the same client, in any order or at the same time
  None,       \* no session
  MaxCauses   \* bound: things that can end a session, over all sessions

ASSUME SessionAssumption == None \notin Sessions /\ MaxCauses \in Nat

VARIABLES
  route,       \* gateway_websocket
  sock,        \* the client's socket: "restart" is a disconnect with code 1012
  kicked,      \* on_slow, in the writer task of the session's sender
  cancelled,   \* bridge.run() was cancelled from outside while it waited
  task,        \* the input loop and the watchdogs, supervised in bridge.tasks
  caller,      \* who is in close_all, and where
  ahead,       \* _close_lock: for each caller that waits for it, the callers it comes after
  reason,      \* _close_reason
  status,      \* the status close_all decided on
  closed,      \* _closed
  ended,       \* the reason session_end carried
  record,      \* the session's entry in SessionRegistry
  registered,  \* ClientRegistry: the bridge that gets the client's pushes
  newest,      \* history: the last session that registered
  counts,      \* gateway_stats: sessions opened and closed
  causes       \* history (bound)

perSession == <<route, sock, kicked, cancelled, task, caller, ahead, reason, status, closed,
                ended, record>>
shared     == <<registered, newest, counts>>
vars       == <<perSession, shared, causes>>

Watchers == {"idle", "silence", "reval"}
Tasks    == {"input"} \cup Watchers
Callers  == {"run", "final", "bg"} \cup Watchers
Reasons  == {"client_disconnect", "shutdown", "idle_timeout", "silence_timeout", "slow_client",
             "revoked", "error"}
Setup    == {"connect", "health", "ready"}

TypeOK ==
  /\ route \in [Sessions -> Setup \cup {"none", "run", "closing", "final", "drain", "done"}]
  /\ sock \in [Sessions -> {"open", "left", "restart", "shut"}]
  /\ kicked \in [Sessions -> {"no", "closing", "done"}]
  /\ cancelled \in [Sessions -> BOOLEAN] /\ closed \in [Sessions -> BOOLEAN]
  /\ task \in [Sessions -> [Tasks -> {"none", "live", "hanging_up", "closing", "cancelled",
                                      "returned", "done"}]]
  /\ caller \in [Sessions -> [Callers -> {"no", "lock", "turn", "tasks", "done"}]]
  /\ ahead \in [Sessions -> [Callers -> SUBSET Callers]]
  /\ reason \in [Sessions -> Reasons \cup {"none"}]
  /\ ended \in [Sessions -> Reasons \cup {"none", "unknown"}]
  /\ {status[s] : s \in Sessions} \cup {record[s] : s \in Sessions}
       \subseteq {"none", "active", "completed", "error", "revoked"}
  /\ {registered, newest} \subseteq Sessions \cup {None}
  /\ counts \in [opened : Nat, closed : Nat]
  /\ causes \in 0..MaxCauses

Init ==
  /\ route = [s \in Sessions |-> "none"] /\ sock = [s \in Sessions |-> "open"]
  /\ kicked = [s \in Sessions |-> "no"] /\ cancelled = [s \in Sessions |-> FALSE]
  /\ task = [s \in Sessions |-> [t \in Tasks |-> "none"]]
  /\ caller = [s \in Sessions |-> [x \in Callers |-> "no"]]
  /\ ahead = [s \in Sessions |-> [x \in Callers |-> {}]]
  /\ reason = [s \in Sessions |-> "none"] /\ ended = [s \in Sessions |-> "none"]
  /\ status = [s \in Sessions |-> "none"] /\ record = [s \in Sessions |-> "none"]
  /\ closed = [s \in Sessions |-> FALSE]
  /\ registered = None /\ newest = None
  /\ counts = [opened |-> 0, closed |-> 0] /\ causes = 0
-----------------------------------------------------------------------------
(* Helpers.                                                                *)

\* One more of the things that can end a session happens.
Cause == causes < MaxCauses /\ causes' = causes + 1

\* note_close_reason: the first note wins.
Note(s, r) == reason' = [reason EXCEPT ![s] = IF @ = "none" THEN r ELSE @]

\* ClientRegistry.register: the newest session of the client takes over (#113).
Registers(s) == registered' = s /\ newest' = s

\* SessionRegistry: the entry of a session, from its registration to the status it ended with.
Recorded(s)         == record' = [record EXCEPT ![s] = "active"]
RecordCloses(s, st) == record' = [record EXCEPT ![s] = st]

\* GatewayStats.
CountsOpened == counts' = [counts EXCEPT !.opened = @ + 1]
CountsClosed == counts' = [counts EXCEPT !.closed = @ + 1]

\* Who holds _close_lock or waits for it.  Callers leave when they are done, or when they are
\* cancelled while they wait.
Queue(s)         == {x \in Callers : caller[s][x] \in {"lock", "turn", "tasks"}}
Without(s, gone) == [x \in Callers |-> IF x \in gone THEN {} ELSE ahead[s][x] \ gone]
Leave(s, gone)   == ahead' = [ahead EXCEPT ![s] = Without(s, gone)]

\* close_all up to its lock.
Calls(s, x) == /\ caller' = [caller EXCEPT ![s][x] = "lock"]
               /\ ahead' = [ahead EXCEPT ![s][x] = Queue(s)]

Goto(s, pc) == route' = [route EXCEPT ![s] = pc]

\* The finally of gateway_websocket.
Finally(s) == Goto(s, "final") /\ Calls(s, "final")
-----------------------------------------------------------------------------
(* gateway_websocket.                                                      *)

\* Every rejection of the handshake comes before the session exists.
Rejected(s) ==
  /\ route[s] = "none" /\ Goto(s, "done") /\ sock' = [sock EXCEPT ![s] = "shut"]
  /\ UNCHANGED <<kicked, cancelled, task, caller, ahead, reason, status, closed, ended, record,
                 shared, causes>>

\* Sender, tracker, record and bridge; no await between them.
Built(s) ==
  /\ route[s] = "none" /\ Goto(s, "connect")
  /\ Recorded(s) /\ CountsOpened
  /\ UNCHANGED <<sock, kicked, cancelled, task, caller, ahead, reason, status, closed, ended,
                 registered, newest, causes>>

\* The rest could not be built: the record, if there is one, is closed and the sender drained
\* (G-24).  The constructor of the bridge counts the session first of all.
HalfBuilt(s) ==
  /\ route[s] = "none" /\ Goto(s, "drain")
  /\ \/ UNCHANGED <<record, counts>>
     \/ RecordCloses(s, "error") /\ (CountsOpened \/ UNCHANGED counts)
  /\ UNCHANGED <<sock, kicked, cancelled, task, caller, ahead, reason, status, closed, ended,
                 registered, newest, causes>>

\* connect_internal_services: the bridge registers once its transcriber has started.
Connected(s) ==
  /\ route[s] = "connect" /\ Goto(s, "health")
  /\ Registers(s)
  /\ UNCHANGED <<sock, kicked, cancelled, task, caller, ahead, reason, status, closed, ended,
                 record, counts, causes>>

Healthy(s) ==
  /\ route[s] = "health" /\ Goto(s, "ready")
  /\ UNCHANGED <<sock, kicked, cancelled, task, caller, ahead, reason, status, closed, ended,
                 record, shared, causes>>

\* `ready` is out: bridge.run spawns the session tasks and waits for the input loop.
Running(s) ==
  /\ route[s] = "ready" /\ Goto(s, "run")
  /\ task' = [task EXCEPT ![s] = [t \in Tasks |-> "live"]]
  /\ UNCHANGED <<sock, kicked, cancelled, caller, ahead, reason, status, closed, ended, record,
                 shared, causes>>

\* A failed start leaves through the finally (#101): with no note when the services could not
\* be connected, as a disconnection when the client left meanwhile (#205), else as an error.
SetupFails(s) ==
  /\ route[s] \in Setup /\ Finally(s)
  /\ \/ route[s] = "connect" /\ UNCHANGED reason
     \/ route[s] # "connect" /\ sock[s] # "open" /\ Note(s, "client_disconnect")
     \/ route[s] # "connect" /\ Note(s, "error")
  /\ UNCHANGED <<sock, kicked, cancelled, task, status, closed, ended, record, shared, causes>>

\* The input loop is over: by itself, because the route was cancelled (G-26), or because a
\* close_all cancelled it, whose caller has noted why.
RunEnds(s) ==
  /\ route[s] = "run" /\ task[s]["input"] \in {"returned", "done"}
  /\ IF cancelled[s] THEN Note(s, "error")
     ELSE IF task[s]["input"] = "returned" THEN Note(s, "client_disconnect")
     ELSE UNCHANGED reason
  /\ Goto(s, "closing") /\ Calls(s, "run")
  /\ UNCHANGED <<sock, kicked, cancelled, task, status, closed, ended, record, shared, causes>>

RunClosed(s) ==
  /\ route[s] = "closing" /\ caller[s]["run"] = "done" /\ Finally(s)
  /\ UNCHANGED <<sock, kicked, cancelled, task, reason, status, closed, ended, record, shared,
                 causes>>

FinalClosed(s) ==
  /\ route[s] = "final" /\ caller[s]["final"] = "done" /\ Goto(s, "drain")
  /\ UNCHANGED <<sock, kicked, cancelled, task, caller, ahead, reason, status, closed, ended,
                 record, shared, causes>>

\* sender.aclose, which ends on_slow too, then websocket.close.
HungUp(s) ==
  /\ route[s] = "drain" /\ Goto(s, "done")
  /\ sock' = [sock EXCEPT ![s] = IF @ = "open" THEN "shut" ELSE @]
  /\ kicked' = [kicked EXCEPT ![s] = IF @ = "closing" THEN "done" ELSE @]
  /\ UNCHANGED <<cancelled, task, caller, ahead, reason, status, closed, ended, record, shared,
                 causes>>

\* The route is cancelled (shutdown).  Teardown absorbs it inside close_all and in the finally;
\* in run() it cancels the input loop with it; waiting for _close_lock it leaves close_all.
RouteCancelled(s) ==
  /\ Cause
  /\ \/ /\ route[s] \in Setup /\ Finally(s)
        /\ UNCHANGED <<cancelled, task>>
     \/ /\ route[s] = "run" /\ ~cancelled[s]
        /\ cancelled' = [cancelled EXCEPT ![s] = TRUE]
        /\ task' = [task EXCEPT ![s]["input"] = IF @ = "live" THEN "cancelled" ELSE @]
        /\ UNCHANGED <<route, caller, ahead>>
     \/ /\ route[s] = "closing" /\ caller[s]["run"] = "lock"
        /\ Goto(s, "final")
        /\ caller' = [caller EXCEPT ![s]["run"] = "done", ![s]["final"] = "lock"]
        /\ ahead' = [ahead EXCEPT ![s] = [Without(s, {"run"}) EXCEPT !["final"] = Queue(s) \ {"run"}]]
        /\ UNCHANGED <<cancelled, task>>
  /\ UNCHANGED <<sock, kicked, reason, status, closed, ended, record, shared>>
-----------------------------------------------------------------------------
(* The session tasks.                                                      *)

\* _client_input_loop sees the disconnect (1012 is the server's own shutdown), or breaks.
InputLeaves(s) ==
  /\ task[s]["input"] = "live" /\ sock[s] # "open"
  /\ task' = [task EXCEPT ![s]["input"] = "returned"]
  /\ IF sock[s] = "restart" THEN Note(s, "shutdown") ELSE UNCHANGED reason
  /\ UNCHANGED <<route, sock, kicked, cancelled, caller, ahead, status, closed, ended, record,
                 shared, causes>>

InputCrashes(s) ==
  /\ Cause /\ task[s]["input"] = "live"
  /\ task' = [task EXCEPT ![s]["input"] = "returned"]
  /\ Note(s, "error")
  /\ UNCHANGED <<route, sock, kicked, cancelled, caller, ahead, status, closed, ended, record,
                 shared>>

\* Cancelled inside a handler it may take its time (a cancelled turn to wait for).
InputCut(s) ==
  /\ task[s]["input"] = "cancelled"
  /\ task' = [task EXCEPT ![s]["input"] = "done"]
  /\ UNCHANGED <<route, sock, kicked, cancelled, caller, ahead, reason, status, closed, ended,
                 record, shared, causes>>

\* _idle_watchdog and _transcription_watchdog decide to close.
TimesOut(s, w) ==
  /\ Cause /\ w \in {"idle", "silence"} /\ task[s][w] = "live"
  /\ task' = [task EXCEPT ![s][w] = "closing"]
  /\ Note(s, IF w = "idle" THEN "idle_timeout" ELSE "silence_timeout") /\ Calls(s, w)
  /\ UNCHANGED <<route, sock, kicked, cancelled, status, closed, ended, record, shared>>

\* _supervise: a crashed idle watchdog closes the session from a background task.
IdleCrashes(s) ==
  /\ Cause /\ task[s]["idle"] = "live"
  /\ task' = [task EXCEPT ![s]["idle"] = "done"]
  /\ Note(s, "error") /\ Calls(s, "bg")
  /\ UNCHANGED <<route, sock, kicked, cancelled, status, closed, ended, record, shared>>

\* _revoke_session: the reason, then the 1008 close (bounded), then close_all.  The input loop
\* may see the closed socket before the close returns to the revalidation.
Revoked(s) ==
  /\ Cause /\ task[s]["reval"] = "live"
  /\ task' = [task EXCEPT ![s]["reval"] = "hanging_up"] /\ Note(s, "revoked")
  /\ UNCHANGED <<route, sock, kicked, cancelled, caller, ahead, status, closed, ended, record,
                 shared>>

RevokeHeard(s) ==
  /\ task[s]["reval"] = "hanging_up" /\ sock[s] = "open"
  /\ sock' = [sock EXCEPT ![s] = "left"]
  /\ UNCHANGED <<route, kicked, cancelled, task, caller, ahead, reason, status, closed, ended,
                 record, shared, causes>>

RevokeCloses(s) ==
  /\ task[s]["reval"] = "hanging_up"
  /\ task' = [task EXCEPT ![s]["reval"] = "closing"] /\ Calls(s, "reval")
  /\ UNCHANGED <<route, sock, kicked, cancelled, reason, status, closed, ended, record, shared,
                 causes>>

\* A client that stopped reading is dropped: a courtesy 1013, then the transport is aborted.
TooSlow(s) ==
  /\ Cause /\ route[s] \notin {"none", "done"} /\ (route[s] = "drain" => closed[s])
  /\ sock[s] = "open" /\ kicked[s] = "no"
  /\ kicked' = [kicked EXCEPT ![s] = "closing"] /\ Note(s, "slow_client")
  /\ UNCHANGED <<route, sock, cancelled, task, caller, ahead, status, closed, ended, record,
                 shared>>

Dropped(s) ==
  /\ kicked[s] = "closing"
  /\ kicked' = [kicked EXCEPT ![s] = "done"]
  /\ sock' = [sock EXCEPT ![s] = IF @ = "open" THEN "left" ELSE @]
  /\ UNCHANGED <<route, cancelled, task, caller, ahead, reason, status, closed, ended, record,
                 shared, causes>>

ClientLeaves(s, how) ==
  /\ Cause /\ route[s] \notin {"none", "done"} /\ sock[s] = "open"
  /\ sock' = [sock EXCEPT ![s] = how]
  /\ UNCHANGED <<route, kicked, cancelled, task, caller, ahead, reason, status, closed, ended,
                 record, shared>>
-----------------------------------------------------------------------------
(* close_all.                                                              *)

\* What the caller asked for, or what the reason says (G-26).
AlwaysCompleted(s, x) == "completed"     \* mutant of StatusFor
StatusFor(s, x) ==
  IF x = "final" \/ (x = "run" /\ cancelled[s]) THEN "error"
  ELSE IF x = "reval" THEN "revoked"
  ELSE IF reason[s] = "error" THEN "error" ELSE "completed"

EvenIfReplaced(s) == TRUE     \* mutant of Owner: unregister without looking
Owner(s)          == registered = s

\* A watchdog that closed the session itself returns.
Over(s, x) == task' = IF x \in Watchers THEN [task EXCEPT ![s][x] = "done"] ELSE task

\* With the lock: nothing to do when another caller finished; else the bridge unregisters.
CloseEnters(s, x) ==
  /\ caller[s][x] = "lock" /\ ahead[s][x] = {}
  /\ IF closed[s]
     THEN /\ caller' = [caller EXCEPT ![s][x] = "done"]
          /\ Leave(s, {x}) /\ Over(s, x) /\ UNCHANGED <<status, registered>>
     ELSE /\ caller' = [caller EXCEPT ![s][x] = "turn"]
          /\ status' = [status EXCEPT ![s] = StatusFor(s, x)]
          /\ registered' = IF Owner(s) THEN None ELSE registered
          /\ UNCHANGED <<ahead, task>>
  /\ UNCHANGED <<route, sock, kicked, cancelled, reason, closed, ended, record, newest, counts,
                 causes>>

\* Every session task but the caller's own is cancelled: the input loop, watchdogs that sleep,
\* hang up or wait for this lock.
AfterCancel(t, pc) == CASE pc = "live" /\ t = "input"                -> "cancelled"
                        [] pc \in {"live", "hanging_up", "closing"}  -> "done"
                        [] OTHER                                     -> pc

SpareInput(t, x) == t \in {x, "input"}     \* mutant of Spare: the input loop is forgotten
SpareOthers(t, x) == t # "input"           \* mutant of Spare: the watchdogs are forgotten
Spare(t, x)      == t = x

CloseCancels(s, x) ==
  /\ caller[s][x] = "turn"
  /\ task' = [task EXCEPT ![s] = [t \in Tasks |-> IF Spare(t, x) THEN @[t] ELSE AfterCancel(t, @[t])]]
  /\ caller' = [caller EXCEPT ![s] = [y \in Callers |->
                  IF y = x THEN "tasks"
                  ELSE IF y \in Watchers /\ @[y] = "lock" THEN "done" ELSE @[y]]]
  /\ Leave(s, {y \in Watchers \ {x} : caller[s][y] = "lock"})
  /\ UNCHANGED <<route, sock, kicked, cancelled, reason, status, closed, ended, record, shared,
                 causes>>

\* session_end carries what was noted, else what the status says.
EndReason(s) == IF reason[s] # "none" THEN reason[s]
                ELSE IF status[s] \in {"error", "revoked"} THEN status[s]
                ELSE "unknown"

\* The wait for them is bounded, so is every step after it.  session_end takes the reason noted
\* by now; the tracker closes the record with the status decided before.
CloseFinishes(s, x) ==
  /\ caller[s][x] = "tasks"
  /\ ended' = [ended EXCEPT ![s] = EndReason(s)]
  /\ CountsClosed /\ RecordCloses(s, status[s])
  /\ closed' = [closed EXCEPT ![s] = TRUE]
  /\ caller' = [caller EXCEPT ![s][x] = "done"]
  /\ Leave(s, {x}) /\ Over(s, x)
  /\ UNCHANGED <<route, sock, kicked, cancelled, reason, status, registered, newest, causes>>
-----------------------------------------------------------------------------
RouteStep(s) == \/ Connected(s) \/ Healthy(s) \/ Running(s) \/ SetupFails(s)
                \/ RunEnds(s) \/ RunClosed(s) \/ FinalClosed(s) \/ HungUp(s)
CloseStep(s) == \E x \in Callers : CloseEnters(s, x) \/ CloseCancels(s, x) \/ CloseFinishes(s, x)
InputStep(s) == InputLeaves(s) \/ InputCut(s)

Environment(s) ==
  \/ Rejected(s) \/ Built(s) \/ HalfBuilt(s)
  \/ RouteCancelled(s) \/ InputCrashes(s) \/ IdleCrashes(s) \/ Revoked(s) \/ RevokeHeard(s)
  \/ \E w \in Watchers : TimesOut(s, w)
  \/ TooSlow(s)
  \/ \E how \in {"left", "restart"} : ClientLeaves(s, how)

Next == \E s \in Sessions : \/ RouteStep(s) \/ CloseStep(s) \/ InputStep(s)
                            \/ RevokeCloses(s) \/ Dropped(s) \/ Environment(s)

Spec == Init /\ [][Next]_vars

\* Every await of the route, of close_all and of the revocation has a limit, and the event loop
\* runs every ready task.  Nobody owes a session its end.
FairSpec == Spec /\ \A s \in Sessions : /\ WF_vars(RouteStep(s)) /\ WF_vars(CloseStep(s))
                                        /\ WF_vars(InputStep(s)) /\ WF_vars(RevokeCloses(s))
                                        /\ WF_vars(Dropped(s))
-----------------------------------------------------------------------------
(* Properties.                                                             *)

\* Pushes reach the newest session of the client for as long as it is not being closed, however
\* late an older one unregisters (#113), and never a session that is closed.
NewestIsReachable ==
  /\ registered # None => ~closed[registered]
  /\ newest # None => \/ registered = newest
                      \/ \E x \in Callers : caller[newest][x] \in {"turn", "tasks", "done"}

\* Whatever raced to close it, a session whose route returned is settled: one session_end with a
\* known cause, its record closed, no task or close_all left behind (#101, #221), and the
\* gateway counts each closed session once, after it counted it opened.
SessionsSettle ==
  /\ TypeOK
  /\ \A s \in Sessions : route[s] = "done" /\ status[s] # "none" =>
       /\ closed[s] /\ ended[s] \notin {"none", "unknown"} /\ record[s] = status[s]
       /\ \A t \in Tasks : task[s][t] \in {"none", "returned", "cancelled", "done"}
       /\ \A x \in Callers : caller[s][x] \notin {"turn", "tasks"}
  /\ \A s \in Sessions : route[s] = "done" => record[s] # "active"
  /\ counts.closed = Cardinality({s \in Sessions : closed[s]})
  /\ counts.opened >= counts.closed + Cardinality({s \in Sessions : record[s] = "active"})

\* A session that died of an error never passes for a completed one (G-26), whoever closes it
\* and whatever is noted after the status was decided.
ErrorsAreNotHidden ==
  \A s \in Sessions : closed[s] /\ ended[s] = "error" => record[s] \in {"error", "revoked"}

\* A session nobody can use any more ends: the client is gone or somebody began to close it.
SessionsEnd ==
  \A s \in Sessions :
    (sock[s] # "open" \/ \E x \in Callers : caller[s][x] # "no") ~> route[s] = "done"

\* A session that was revoked is recorded as revoked.
RevokedIsRecorded ==
  \A s \in Sessions : closed[s] /\ ended[s] = "revoked" => record[s] = "revoked"
=============================================================================
