-------------------------- MODULE SessionLifecycleProofs --------------------------
(***************************************************************************)
(* What holds of the sessions of one client whatever their number and      *)
(* whatever ends them: where its pushes go, that no error is recorded as a *)
(* session that completed, and that every session settles and is counted.  *)
(* The last needs the queue of _close_lock to be an order (Ordered), the   *)
(* stations of a session (Settling) and the sets that are counted.         *)
(***************************************************************************)
EXTENDS SessionLifecycle, FiniteSetTheorems, TLAPS

Entered == {"turn", "tasks"}

TaskAt   == {"none", "live", "hanging_up", "closing", "cancelled", "returned", "done"}
CallerAt == {"no", "lock", "turn", "tasks", "done"}

\* The part of TypeOK these results rest on.
Typed ==
  /\ route \in [Sessions -> Setup \cup {"none", "run", "closing", "final", "drain", "done"}]
  /\ task \in [Sessions -> [Tasks -> TaskAt]]
  /\ caller \in [Sessions -> [Callers -> CallerAt]]
  /\ closed \in [Sessions -> BOOLEAN] /\ cancelled \in [Sessions -> BOOLEAN]
  /\ reason \in [Sessions -> Reasons \cup {"none"}]
  /\ ended \in [Sessions -> Reasons \cup {"none", "unknown"}]
  /\ status \in [Sessions -> {"none", "active", "completed", "error", "revoked"}]
  /\ record \in [Sessions -> {"none", "active", "completed", "error", "revoked"}]
  /\ registered \in Sessions \cup {None} /\ newest \in Sessions \cup {None}

\* Nobody calls close_all twice: who may still call it has not.
CalledOnce ==
  \A s \in Sessions :
    /\ route[s] \in Setup \cup {"none"} =>
         /\ \A x \in Callers : caller[s][x] = "no"
         /\ \A t \in Tasks : task[s][t] = "none"
         /\ ~closed[s]
    /\ route[s] = "run" => caller[s]["run"] = "no"
    /\ route[s] \in {"run", "closing"} => caller[s]["final"] = "no"
    /\ \A w \in Watchers : task[s][w] \in {"live", "hanging_up"} => caller[s][w] = "no"
    /\ task[s]["idle"] = "live" => caller[s]["bg"] = "no"

\* A session that is closing gets no push.
Unregistered ==
  \A s \in Sessions :
    closed[s] \/ (\E x \in Callers : caller[s][x] \in Entered) => registered # s

\* Whoever closes a session has noted why, but for the finally of the route, whose status is an
\* error; so the status that was decided fits every note to come.
Noted ==
  \A s \in Sessions :
    /\ \A x \in Callers \ {"final"} : caller[s][x] \in Entered \cup {"lock"} => reason[s] # "none"
    /\ task[s]["reval"] = "hanging_up" => reason[s] # "none"
    /\ route[s] = "run" /\ task[s]["input"] \in {"cancelled", "done"} =>
         cancelled[s] \/ reason[s] # "none"
    /\ (\E x \in Callers : caller[s][x] \in Entered) =>
         /\ reason[s] = "error" => status[s] \in {"error", "revoked"}
         /\ reason[s] = "none" => status[s] = "error"

Inv == Typed /\ CalledOnce /\ Unregistered /\ NewestIsReachable /\ Noted /\ ErrorsAreNotHidden

-----------------------------------------------------------------------------
LEMMA InvInit == Init => Inv
BY SessionAssumption DEF Init, Inv, Typed, CalledOnce, Unregistered, NewestIsReachable, Noted,
   ErrorsAreNotHidden, Callers, Watchers, Tasks, Setup, Entered, Reasons, TaskAt, CallerAt

\* A note is taken once.
LEMMA FirstNoteWins ==
  ASSUME NEW s \in Sessions, NEW r \in Reasons, Typed, Note(s, r)
  PROVE  /\ reason' \in [Sessions -> Reasons \cup {"none"}]
         /\ reason'[s] # "none" /\ (reason[s] # "none" => reason'[s] = reason[s])
         /\ \A o \in Sessions \ {s} : reason'[o] = reason[o]
BY DEF Typed, Note, Reasons

\* One caller of close_all goes on, the others stay where they are.
LEMMA CallerMoves ==
  ASSUME NEW s \in Sessions, NEW x \in Callers, NEW pc \in CallerAt, Typed,
         caller' = [caller EXCEPT ![s][x] = pc]
  PROVE  /\ caller' \in [Sessions -> [Callers -> CallerAt]]
         /\ \A o \in Sessions, y \in Callers :
              caller'[o][y] = IF o = s /\ y = x THEN pc ELSE caller[o][y]
BY DEF Typed

\* A watchdog that closed the session is done, and no other task changes.
LEMMA OverFinishes ==
  ASSUME NEW s \in Sessions, NEW x \in Callers, Typed, Over(s, x)
  PROVE  /\ task' \in [Sessions -> [Tasks -> TaskAt]]
         /\ \A o \in Sessions, t \in Tasks :
              task'[o][t] = IF o = s /\ t = x /\ x \in Watchers THEN "done" ELSE task[o][t]
<1>1. CASE x \in Watchers
  BY <1>1 DEF Typed, Over, Tasks, TaskAt
<1>2. CASE x \notin Watchers
  BY <1>2 DEF Typed, Over
<1> QED BY <1>1, <1>2

\* The steps of the route.
LEMMA RouteKeeps ==
  ASSUME Inv, NEW s \in Sessions,
         RouteStep(s) \/ Rejected(s) \/ Built(s) \/ HalfBuilt(s)
  PROVE  Inv'
<1> USE SessionAssumption DEF Inv, Typed, CalledOnce, Unregistered, NewestIsReachable, Noted,
        ErrorsAreNotHidden, Callers, Watchers, Tasks, Setup, Entered, Reasons, TaskAt, CallerAt,
        shared, Goto
<1>1. CASE Connected(s)
  BY <1>1 DEF Connected, Registers
<1>2. CASE Healthy(s)
  BY <1>2 DEF Healthy
<1>3. CASE Running(s)
  BY <1>3 DEF Running
<1>4. CASE SetupFails(s)
  <2>1. /\ reason' \in [Sessions -> Reasons \cup {"none"}]
        /\ reason[s] # "none" => reason'[s] = reason[s]
        /\ \A o \in Sessions \ {s} : reason'[o] = reason[o]
    <3>1. CASE UNCHANGED reason
      BY <3>1
    <3>2. CASE Note(s, "client_disconnect") \/ Note(s, "error")
      BY <3>2, FirstNoteWins
    <3> QED BY <1>4, <3>1, <3>2 DEF SetupFails
  <2>2. Typed'
    BY <1>4, <2>1 DEF SetupFails, Finally, Calls
  <2>3. CalledOnce'
    BY <1>4, <2>1 DEF SetupFails, Finally, Calls
  <2>4. Unregistered'
    BY <1>4, <2>1 DEF SetupFails, Finally, Calls
  <2>5. NewestIsReachable'
    BY <1>4, <2>1 DEF SetupFails, Finally, Calls
  <2>6. Noted'
    BY <1>4, <2>1 DEF SetupFails, Finally, Calls
  <2>7. ErrorsAreNotHidden'
    BY <1>4, <2>1 DEF SetupFails, Finally, Calls
  <2> QED BY <2>2, <2>3, <2>4, <2>5, <2>6, <2>7
<1>5. CASE RunEnds(s)
  <2>1. /\ reason' \in [Sessions -> Reasons \cup {"none"}]
        /\ reason'[s] # "none" /\ (reason[s] # "none" => reason'[s] = reason[s])
        /\ \A o \in Sessions \ {s} : reason'[o] = reason[o]
    <3>1. CASE cancelled[s]
      BY <1>5, <3>1, FirstNoteWins DEF RunEnds
    <3>2. CASE ~cancelled[s] /\ task[s]["input"] = "returned"
      BY <1>5, <3>2, FirstNoteWins DEF RunEnds
    <3>3. CASE ~cancelled[s] /\ task[s]["input"] = "done"
      BY <1>5, <3>3 DEF RunEnds
    <3> QED BY <1>5, <3>1, <3>2, <3>3 DEF RunEnds
  <2>2. Typed'
    BY <1>5, <2>1 DEF RunEnds, Calls
  <2>3. CalledOnce'
    BY <1>5, <2>1 DEF RunEnds, Calls
  <2>4. Unregistered'
    BY <1>5, <2>1 DEF RunEnds, Calls
  <2>5. NewestIsReachable'
    BY <1>5, <2>1 DEF RunEnds, Calls
  <2>6. Noted'
    BY <1>5, <2>1 DEF RunEnds, Calls
  <2>7. ErrorsAreNotHidden'
    BY <1>5, <2>1 DEF RunEnds, Calls
  <2> QED BY <2>2, <2>3, <2>4, <2>5, <2>6, <2>7
<1>6. CASE RunClosed(s)
  BY <1>6 DEF RunClosed, Finally, Calls
<1>7. CASE FinalClosed(s)
  BY <1>7 DEF FinalClosed
<1>8. CASE HungUp(s)
  BY <1>8 DEF HungUp
<1>9. CASE Rejected(s)
  BY <1>9 DEF Rejected
<1>10. CASE Built(s)
  BY <1>10 DEF Built, Recorded
<1>11. CASE HalfBuilt(s)
  <2>1. /\ record' \in [Sessions -> {"none", "active", "completed", "error", "revoked"}]
        /\ \A o \in Sessions \ {s} : record'[o] = record[o]
    BY <1>11 DEF HalfBuilt, RecordCloses
  <2>2. Typed'
    BY <1>11, <2>1 DEF HalfBuilt
  <2>3. CalledOnce'
    BY <1>11, <2>1 DEF HalfBuilt
  <2>4. Unregistered'
    BY <1>11, <2>1 DEF HalfBuilt
  <2>5. NewestIsReachable'
    BY <1>11, <2>1 DEF HalfBuilt
  <2>6. Noted'
    BY <1>11, <2>1 DEF HalfBuilt
  <2>7. ErrorsAreNotHidden'
    BY <1>11, <2>1 DEF HalfBuilt
  <2> QED BY <2>2, <2>3, <2>4, <2>5, <2>6, <2>7
<1> QED BY <1>1, <1>2, <1>3, <1>4, <1>5, <1>6, <1>7, <1>8, <1>9, <1>10, <1>11 DEF RouteStep

\* What a cancellation of the route finds.
LEMMA CancelFinds ==
  ASSUME Typed, NEW s \in Sessions, RouteCancelled(s)
  PROVE  /\ UNCHANGED <<closed, reason, status, ended, record, registered, newest>>
         /\ route[s] \in Setup =>
              /\ caller' \in [Sessions -> [Callers -> CallerAt]]
              /\ \A o \in Sessions, y \in Callers :
                   caller'[o][y] = IF o = s /\ y = "final" THEN "lock" ELSE caller[o][y]
              /\ route' = [route EXCEPT ![s] = "final"]
              /\ UNCHANGED <<cancelled, task>>
         /\ route[s] = "run" =>
              /\ task' \in [Sessions -> [Tasks -> TaskAt]]
              /\ \A o \in Sessions, t \in Tasks :
                   \/ task'[o][t] = task[o][t]
                   \/ o = s /\ t = "input" /\ task'[o][t] = "cancelled"
              /\ cancelled' \in [Sessions -> BOOLEAN] /\ cancelled'[s]
              /\ \A o \in Sessions \ {s} : cancelled'[o] = cancelled[o]
              /\ UNCHANGED <<route, caller>>
<1>1. UNCHANGED <<closed, reason, status, ended, record, registered, newest>>
  BY DEF RouteCancelled, shared
<1>2. CASE route[s] \in Setup
  <2>1. Finally(s) /\ UNCHANGED <<cancelled, task>>
    BY <1>2 DEF RouteCancelled, Setup
  <2>2. caller' = [caller EXCEPT ![s]["final"] = "lock"] /\ route' = [route EXCEPT ![s] = "final"]
    BY <2>1 DEF Finally, Calls, Goto
  <2>3. "final" \in Callers /\ "lock" \in CallerAt
    BY DEF Callers, CallerAt
  <2>4. route[s] # "run"
    BY <1>2 DEF Setup
  <2> QED BY <1>1, <1>2, <2>1, <2>2, <2>3, <2>4, CallerMoves
<1>3. CASE route[s] = "run"
  <2>1. /\ cancelled' = [cancelled EXCEPT ![s] = TRUE]
        /\ task' = [task EXCEPT ![s]["input"] = IF @ = "live" THEN "cancelled" ELSE @]
        /\ UNCHANGED <<route, caller>>
    BY <1>3, Zenon DEF RouteCancelled, Setup
  <2>2. /\ cancelled' \in [Sessions -> BOOLEAN] /\ cancelled'[s]
        /\ \A o \in Sessions \ {s} : cancelled'[o] = cancelled[o]
    BY <2>1, Zenon DEF Typed
  <2>3. /\ task' \in [Sessions -> [Tasks -> TaskAt]]
        /\ \A o \in Sessions, t \in Tasks :
             \/ task'[o][t] = task[o][t]
             \/ o = s /\ t = "input" /\ task'[o][t] = "cancelled"
    <3>1. PICK pc \in TaskAt : /\ task' = [task EXCEPT ![s]["input"] = pc]
                               /\ pc \in {task[s]["input"], "cancelled"}
      <4>1. "input" \in Tasks /\ task[s]["input"] \in TaskAt /\ "cancelled" \in TaskAt
        BY DEF Typed, Tasks, TaskAt
      <4>2. CASE task[s]["input"] = "live"
        BY <2>1, <4>1, <4>2
      <4>3. CASE task[s]["input"] # "live"
        BY <2>1, <4>1, <4>3
      <4> QED BY <4>2, <4>3
    <3> QED BY <3>1 DEF Typed
  <2> QED BY <1>1, <1>3, <2>1, <2>2, <2>3 DEF Setup
<1> QED BY <1>1, <1>2, <1>3

\* What a caller of close_all does with the lock.
LEMMA EnterFinds ==
  ASSUME Typed, NEW s \in Sessions, NEW x \in Callers, CloseEnters(s, x)
  PROVE  /\ caller[s][x] = "lock"
         /\ UNCHANGED <<route, closed, cancelled, reason, ended, record, newest>>
         /\ closed[s] =>
              /\ caller' \in [Sessions -> [Callers -> CallerAt]]
              /\ \A o \in Sessions, y \in Callers :
                   caller'[o][y] = IF o = s /\ y = x THEN "done" ELSE caller[o][y]
              /\ task' \in [Sessions -> [Tasks -> TaskAt]]
              /\ \A o \in Sessions, t \in Tasks :
                   task'[o][t] = IF o = s /\ t = x /\ x \in Watchers THEN "done" ELSE task[o][t]
              /\ UNCHANGED <<status, registered>>
         /\ ~closed[s] =>
              /\ caller' \in [Sessions -> [Callers -> CallerAt]]
              /\ \A o \in Sessions, y \in Callers :
                   caller'[o][y] = IF o = s /\ y = x THEN "turn" ELSE caller[o][y]
              /\ status' \in [Sessions -> {"none", "active", "completed", "error", "revoked"}]
              /\ status'[s] = StatusFor(s, x)
              /\ \A o \in Sessions \ {s} : status'[o] = status[o]
              /\ registered' = IF registered = s THEN None ELSE registered
              /\ UNCHANGED task
<1>1. caller[s][x] = "lock" /\ UNCHANGED <<route, closed, cancelled, reason, ended, record, newest>>
  BY DEF CloseEnters
<1>2. {"done", "turn"} \subseteq CallerAt
  BY DEF CallerAt
<1>3. CASE closed[s]
  <2>1. caller' = [caller EXCEPT ![s][x] = "done"] /\ Over(s, x) /\ UNCHANGED <<status, registered>>
    BY <1>3 DEF CloseEnters
  <2>2. /\ caller' \in [Sessions -> [Callers -> CallerAt]]
        /\ \A o \in Sessions, y \in Callers :
             caller'[o][y] = IF o = s /\ y = x THEN "done" ELSE caller[o][y]
    BY <1>2, <2>1, CallerMoves
  <2>3. /\ task' \in [Sessions -> [Tasks -> TaskAt]]
        /\ \A o \in Sessions, t \in Tasks :
             task'[o][t] = IF o = s /\ t = x /\ x \in Watchers THEN "done" ELSE task[o][t]
    BY <2>1, OverFinishes
  <2> QED BY <1>1, <1>3, <2>1, <2>2, <2>3
<1>4. CASE ~closed[s]
  <2>1. /\ caller' = [caller EXCEPT ![s][x] = "turn"]
        /\ status' = [status EXCEPT ![s] = StatusFor(s, x)] /\ UNCHANGED task
        /\ registered' = IF registered = s THEN None ELSE registered
    BY <1>4 DEF CloseEnters, Owner
  <2>2. StatusFor(s, x) \in {"completed", "error", "revoked"}
    BY DEF StatusFor
  <2>3. /\ status' \in [Sessions -> {"none", "active", "completed", "error", "revoked"}]
        /\ status'[s] = StatusFor(s, x)
        /\ \A o \in Sessions \ {s} : status'[o] = status[o]
    BY <2>1, <2>2 DEF Typed
  <2>4. /\ caller' \in [Sessions -> [Callers -> CallerAt]]
        /\ \A o \in Sessions, y \in Callers :
             caller'[o][y] = IF o = s /\ y = x THEN "turn" ELSE caller[o][y]
    BY <1>2, <2>1, CallerMoves
  <2> QED BY <1>1, <1>4, <2>1, <2>3, <2>4
<1> QED BY <1>1, <1>3, <1>4

\* The cancellation of the route, and what the session tasks do.
LEMMA TasksKeep ==
  ASSUME Inv, NEW s \in Sessions,
         RouteCancelled(s) \/ InputStep(s) \/ InputCrashes(s) \/ IdleCrashes(s) \/ Revoked(s)
           \/ RevokeHeard(s) \/ RevokeCloses(s) \/ TooSlow(s) \/ Dropped(s)
           \/ (\E w \in Watchers : TimesOut(s, w))
           \/ (\E how \in {"left", "restart"} : ClientLeaves(s, how))
  PROVE  Inv'
<1> USE SessionAssumption DEF Inv, Typed, CalledOnce, Unregistered, NewestIsReachable, Noted,
        ErrorsAreNotHidden, Callers, Watchers, Tasks, Setup, Entered, Reasons, TaskAt, CallerAt,
        shared, Goto
<1>1. CASE RouteCancelled(s)
  <2>1. CASE route[s] \in Setup
    <3>1. /\ caller' \in [Sessions -> [Callers -> CallerAt]]
          /\ \A o \in Sessions, y \in Callers :
               caller'[o][y] = IF o = s /\ y = "final" THEN "lock" ELSE caller[o][y]
          /\ route' = [route EXCEPT ![s] = "final"]
          /\ UNCHANGED <<cancelled, task, closed, reason, status, ended, record>>
          /\ UNCHANGED <<registered, newest>>
      BY <1>1, <2>1, CancelFinds
    <3>2. Typed'
      BY <2>1, <3>1
    <3>3. CalledOnce'
      BY <2>1, <3>1
    <3>4. Unregistered'
      BY <2>1, <3>1
    <3>5. NewestIsReachable'
      <4>1. \A o \in Sessions, y \in Callers :
               caller[o][y] \in {"turn", "tasks", "done"} => caller'[o][y] = caller[o][y]
        BY <2>1, <3>1
      <4> QED BY <3>1, <4>1
    <3>6. Noted'
      BY <2>1, <3>1
    <3>7. ErrorsAreNotHidden'
      BY <2>1, <3>1
    <3> QED BY <3>2, <3>3, <3>4, <3>5, <3>6, <3>7
  <2>2. CASE route[s] = "run"
    <3>1. /\ task' \in [Sessions -> [Tasks -> TaskAt]]
          /\ \A o \in Sessions, t \in Tasks :
               \/ task'[o][t] = task[o][t]
               \/ o = s /\ t = "input" /\ task'[o][t] = "cancelled"
          /\ cancelled' \in [Sessions -> BOOLEAN] /\ cancelled'[s]
          /\ \A o \in Sessions \ {s} : cancelled'[o] = cancelled[o]
          /\ UNCHANGED <<route, caller, closed, reason, status, ended, record, registered, newest>>
      BY <1>1, <2>2, CancelFinds
    <3>2. Typed'
      BY <2>2, <3>1
    <3>3. CalledOnce'
      BY <2>2, <3>1
    <3>4. Unregistered'
      BY <2>2, <3>1
    <3>5. NewestIsReachable'
      BY <2>2, <3>1
    <3>6. Noted'
      BY <2>2, <3>1
    <3>7. ErrorsAreNotHidden'
      BY <2>2, <3>1
    <3> QED BY <3>2, <3>3, <3>4, <3>5, <3>6, <3>7
  <2>3. CASE route[s] = "closing"
    BY <1>1, <2>3 DEF RouteCancelled
  <2> QED BY <1>1, <2>1, <2>2, <2>3 DEF RouteCancelled
<1>2. CASE InputLeaves(s)
  <2>1. /\ reason' \in [Sessions -> Reasons \cup {"none"}]
        /\ reason[s] # "none" => reason'[s] = reason[s]
        /\ \A o \in Sessions \ {s} : reason'[o] = reason[o]
    <3>1. CASE UNCHANGED reason
      BY <3>1
    <3>2. CASE Note(s, "shutdown")
      BY <3>2, FirstNoteWins
    <3> QED BY <1>2, <3>1, <3>2 DEF InputLeaves
  <2>2. Typed'
    BY <1>2, <2>1 DEF InputLeaves
  <2>3. CalledOnce'
    BY <1>2, <2>1 DEF InputLeaves
  <2>4. Unregistered'
    BY <1>2, <2>1 DEF InputLeaves
  <2>5. NewestIsReachable'
    BY <1>2, <2>1 DEF InputLeaves
  <2>6. Noted'
    BY <1>2, <2>1 DEF InputLeaves
  <2>7. ErrorsAreNotHidden'
    BY <1>2, <2>1 DEF InputLeaves
  <2> QED BY <2>2, <2>3, <2>4, <2>5, <2>6, <2>7
<1>3. CASE InputCut(s)
  BY <1>3 DEF InputCut
<1>4. CASE InputCrashes(s)
  <2>1. /\ reason' \in [Sessions -> Reasons \cup {"none"}]
        /\ reason'[s] # "none" /\ (reason[s] # "none" => reason'[s] = reason[s])
        /\ \A o \in Sessions \ {s} : reason'[o] = reason[o]
    BY <1>4, FirstNoteWins DEF InputCrashes
  <2>2. Typed'
    BY <1>4, <2>1 DEF InputCrashes
  <2>3. CalledOnce'
    BY <1>4, <2>1 DEF InputCrashes
  <2>4. Unregistered'
    BY <1>4, <2>1 DEF InputCrashes
  <2>5. NewestIsReachable'
    BY <1>4, <2>1 DEF InputCrashes
  <2>6. Noted'
    BY <1>4, <2>1 DEF InputCrashes
  <2>7. ErrorsAreNotHidden'
    BY <1>4, <2>1 DEF InputCrashes
  <2> QED BY <2>2, <2>3, <2>4, <2>5, <2>6, <2>7
<1>5. CASE IdleCrashes(s)
  <2>1. /\ reason' \in [Sessions -> Reasons \cup {"none"}]
        /\ reason'[s] # "none" /\ (reason[s] # "none" => reason'[s] = reason[s])
        /\ \A o \in Sessions \ {s} : reason'[o] = reason[o]
    BY <1>5, FirstNoteWins DEF IdleCrashes
  <2>2. Typed'
    BY <1>5, <2>1 DEF IdleCrashes, Calls
  <2>3. CalledOnce'
    BY <1>5, <2>1 DEF IdleCrashes, Calls
  <2>4. Unregistered'
    BY <1>5, <2>1 DEF IdleCrashes, Calls
  <2>5. NewestIsReachable'
    BY <1>5, <2>1 DEF IdleCrashes, Calls
  <2>6. Noted'
    BY <1>5, <2>1 DEF IdleCrashes, Calls
  <2>7. ErrorsAreNotHidden'
    BY <1>5, <2>1 DEF IdleCrashes, Calls
  <2> QED BY <2>2, <2>3, <2>4, <2>5, <2>6, <2>7
<1>6. CASE Revoked(s)
  BY <1>6, FirstNoteWins DEF Revoked
<1>7. CASE RevokeHeard(s)
  BY <1>7 DEF RevokeHeard
<1>8. CASE RevokeCloses(s)
  BY <1>8 DEF RevokeCloses, Calls
<1>9. CASE TooSlow(s)
  <2>1. /\ reason' \in [Sessions -> Reasons \cup {"none"}]
        /\ reason'[s] # "none" /\ (reason[s] # "none" => reason'[s] = reason[s])
        /\ \A o \in Sessions \ {s} : reason'[o] = reason[o]
    BY <1>9, FirstNoteWins DEF TooSlow
  <2>2. Typed'
    BY <1>9, <2>1 DEF TooSlow
  <2>3. CalledOnce'
    BY <1>9, <2>1 DEF TooSlow
  <2>4. Unregistered'
    BY <1>9, <2>1 DEF TooSlow
  <2>5. NewestIsReachable'
    BY <1>9, <2>1 DEF TooSlow
  <2>6. Noted'
    BY <1>9, <2>1 DEF TooSlow
  <2>7. ErrorsAreNotHidden'
    BY <1>9, <2>1 DEF TooSlow
  <2> QED BY <2>2, <2>3, <2>4, <2>5, <2>6, <2>7
<1>10. CASE Dropped(s)
  BY <1>10 DEF Dropped
<1>11. CASE \E w \in Watchers : TimesOut(s, w)
  <2> PICK w \in Watchers : TimesOut(s, w)
    BY <1>11
  <2>1. /\ reason' \in [Sessions -> Reasons \cup {"none"}]
        /\ reason'[s] # "none" /\ (reason[s] # "none" => reason'[s] = reason[s])
        /\ \A o \in Sessions \ {s} : reason'[o] = reason[o]
    BY FirstNoteWins DEF TimesOut
  <2>2. Typed'
    BY <2>1 DEF TimesOut, Calls
  <2>3. CalledOnce'
    BY <2>1 DEF TimesOut, Calls
  <2>4. Unregistered'
    BY <2>1 DEF TimesOut, Calls
  <2>5. NewestIsReachable'
    BY <2>1 DEF TimesOut, Calls
  <2>6. Noted'
    BY <2>1 DEF TimesOut, Calls
  <2>7. ErrorsAreNotHidden'
    BY <2>1 DEF TimesOut, Calls
  <2> QED BY <2>2, <2>3, <2>4, <2>5, <2>6, <2>7
<1>12. CASE \E how \in {"left", "restart"} : ClientLeaves(s, how)
  BY <1>12 DEF ClientLeaves
<1> QED BY <1>1, <1>2, <1>3, <1>4, <1>5, <1>6, <1>7, <1>8, <1>9, <1>10, <1>11, <1>12
        DEF InputStep

\* close_all.
LEMMA CloseKeeps ==
  ASSUME Inv, NEW s \in Sessions, CloseStep(s)
  PROVE  Inv'
<1> USE SessionAssumption DEF Inv, Typed, CalledOnce, Unregistered, NewestIsReachable, Noted,
        ErrorsAreNotHidden, Callers, Watchers, Tasks, Setup, Entered, Reasons, TaskAt, CallerAt,
        shared
<1> PICK x \in Callers : CloseEnters(s, x) \/ CloseCancels(s, x) \/ CloseFinishes(s, x)
  BY DEF CloseStep
<1>1. CASE CloseEnters(s, x) /\ closed[s]
  <2>1. /\ caller' \in [Sessions -> [Callers -> CallerAt]]
        /\ \A o \in Sessions, y \in Callers :
             caller'[o][y] = IF o = s /\ y = x THEN "done" ELSE caller[o][y]
        /\ task' \in [Sessions -> [Tasks -> TaskAt]]
        /\ \A o \in Sessions, t \in Tasks :
             task'[o][t] = IF o = s /\ t = x /\ x \in Watchers THEN "done" ELSE task[o][t]
        /\ caller[s][x] = "lock"
        /\ UNCHANGED <<route, closed, cancelled, reason, status, ended, record, registered, newest>>
    BY <1>1, EnterFinds
  <2>2. Typed'
    BY <1>1, <2>1
  <2>3. CalledOnce'
    BY <1>1, <2>1
  <2>4. Unregistered'
    BY <1>1, <2>1
  <2>5. NewestIsReachable'
    BY <1>1, <2>1
  <2>6. Noted'
    BY <1>1, <2>1
  <2>7. ErrorsAreNotHidden'
    BY <1>1, <2>1
  <2> QED BY <2>2, <2>3, <2>4, <2>5, <2>6, <2>7
<1>2. CASE CloseEnters(s, x) /\ ~closed[s]
  <2>1. /\ caller[s][x] = "lock"
        /\ caller' \in [Sessions -> [Callers -> CallerAt]]
        /\ \A o \in Sessions, y \in Callers :
             caller'[o][y] = IF o = s /\ y = x THEN "turn" ELSE caller[o][y]
    BY <1>2, EnterFinds
  <2>2. /\ status' \in [Sessions -> {"none", "active", "completed", "error", "revoked"}]
        /\ status'[s] = StatusFor(s, x)
        /\ \A o \in Sessions \ {s} : status'[o] = status[o]
    BY <1>2, EnterFinds
  <2>3. registered' = IF registered = s THEN None ELSE registered
    BY <1>2, EnterFinds
  <2>4. UNCHANGED <<route, task, closed, cancelled, reason, ended, record, newest>>
    BY <1>2, EnterFinds
  <2>5. Typed'
    BY <2>1, <2>2, <2>3, <2>4
  <2>6. CalledOnce'
    BY <2>1, <2>4
  <2>7. Unregistered'
    BY <2>1, <2>3, <2>4
  <2>8. NewestIsReachable'
    BY <1>2, <2>1, <2>3, <2>4
  <2>9. Noted'
    BY <2>1, <2>2, <2>4 DEF StatusFor
  <2>10. ErrorsAreNotHidden'
    BY <2>4
  <2> QED BY <2>5, <2>6, <2>7, <2>8, <2>9, <2>10
<1>3. CASE CloseCancels(s, x)
  BY <1>3 DEF CloseCancels, AfterCancel, Spare
<1>4. CASE CloseFinishes(s, x)
  BY <1>4 DEF CloseFinishes, EndReason, RecordCloses, Over
<1> QED BY <1>1, <1>2, <1>3, <1>4

-----------------------------------------------------------------------------
LEMMA InvNext == Inv /\ [Next]_vars => Inv'
<1>1. CASE UNCHANGED vars
  BY <1>1 DEF vars, perSession, shared, Inv, Typed, CalledOnce, Unregistered, NewestIsReachable,
              Noted, ErrorsAreNotHidden
<1> QED BY <1>1, RouteKeeps, TasksKeep, CloseKeeps DEF Next, Environment

\* Pushes reach the newest session of the client for as long as nobody closes it, and never one
\* that is closed, for any number of sessions.
THEOREM NewestStaysReachable == Spec => []NewestIsReachable
<1>1. Inv => NewestIsReachable
  BY DEF Inv
<1> QED BY <1>1, InvInit, InvNext, PTL DEF Spec

\* A session that ended for an error is never recorded as completed, whoever closes it and
\* whatever is noted while it closes, for any number of causes.
THEOREM ErrorsStayVisible == Spec => []ErrorsAreNotHidden
<1>1. Inv => ErrorsAreNotHidden
  BY DEF Inv
<1> QED BY <1>1, InvInit, InvNext, PTL DEF Spec
-----------------------------------------------------------------------------
(* How a session settles.                                                  *)

TaskOver == {"none", "returned", "cancelled", "done"}
Final    == {"completed", "error", "revoked"}

\* The rest of TypeOK.
Rest ==
  /\ sock \in [Sessions -> {"open", "left", "restart", "shut"}]
  /\ kicked \in [Sessions -> {"no", "closing", "done"}]
  /\ ahead \in [Sessions -> [Callers -> SUBSET Callers]]
  /\ counts \in [opened : Nat, closed : Nat]
  /\ causes \in 0..MaxCauses

\* Of two callers in the queue of the lock one comes first, and who entered has nobody ahead: so
\* at most one is inside.
Ordered(s) ==
  /\ \A x, y \in Queue(s) : x # y => x \in ahead[s][y] \/ y \in ahead[s][x]
  /\ \A x \in Callers : caller[s][x] \in Entered => ahead[s][x] = {}

\* The stations of a session on its way to the end.
Settling(s) ==
  /\ (\A x \in Callers : caller[s][x] = "no") => status[s] = "none"
  /\ route[s] = "none" => record[s] = "none"
  /\ route[s] \in {"drain", "done"} /\ ~closed[s] =>
       /\ \A x \in Callers : caller[s][x] = "no"
       /\ \A t \in Tasks : task[s][t] = "none"
       /\ record[s] \in {"none", "error"}
  /\ route[s] \notin {"none", "drain", "done"} => closed[s] \/ record[s] = "active"
  /\ caller[s]["final"] = "done" => closed[s]
  /\ \A x \in Callers : caller[s][x] \in Entered =>
       ~closed[s] /\ record[s] = "active" /\ status[s] \in Final
  /\ \A x \in Callers, t \in Tasks :
       caller[s][x] = "tasks" /\ t # x => task[s][t] \in TaskOver
  /\ closed[s] => /\ ended[s] \in Reasons /\ record[s] = status[s] /\ status[s] \in Final
                  /\ \A t \in Tasks : task[s][t] \in TaskOver

\* The gateway's counters.  Only finitely many sessions have begun.
Counted ==
  /\ IsFiniteSet({s \in Sessions : route[s] # "none"})
  /\ counts.closed = Cardinality({s \in Sessions : closed[s]})
  /\ counts.opened >= counts.closed + Cardinality({s \in Sessions : record[s] = "active"})

Settles == Rest /\ Counted /\ \A s \in Sessions : Ordered(s) /\ Settling(s)

Acts(s) == \/ RouteStep(s) \/ CloseStep(s) \/ InputStep(s)
           \/ RevokeCloses(s) \/ Dropped(s) \/ Environment(s)

\* A step of one session leaves the others alone.
LEMMA Elsewhere ==
  ASSUME Inv, Rest, NEW s \in Sessions, Acts(s)
  PROVE  \A o \in Sessions \ {s} :
           /\ UNCHANGED <<route[o], sock[o], kicked[o], task[o], caller[o], ahead[o]>>
           /\ UNCHANGED <<status[o], closed[o], ended[o], record[o]>>
<1> USE DEF Inv, Typed, Rest, shared, Goto
<1>1. CASE RouteStep(s)
  BY <1>1 DEF RouteStep, Connected, Healthy, Running, SetupFails, RunEnds, RunClosed, FinalClosed,
     HungUp, Finally, Calls
<1>2. CASE CloseStep(s)
  BY <1>2 DEF CloseStep, CloseEnters, CloseCancels, CloseFinishes, Leave, Over, RecordCloses
<1>3. CASE InputStep(s) \/ RevokeCloses(s) \/ Dropped(s)
  BY <1>3 DEF InputStep, InputLeaves, InputCut, RevokeCloses, Dropped, Calls
<1>4. CASE Rejected(s) \/ Built(s) \/ HalfBuilt(s)
  BY <1>4 DEF Rejected, Built, HalfBuilt, Recorded, RecordCloses
<1>5. CASE RouteCancelled(s)
  BY <1>5 DEF RouteCancelled, Finally, Calls
<1>6. CASE InputCrashes(s) \/ IdleCrashes(s) \/ Revoked(s) \/ RevokeHeard(s) \/ TooSlow(s)
  BY <1>6 DEF InputCrashes, IdleCrashes, Revoked, RevokeHeard, TooSlow, Calls
<1>7. CASE \/ \E w \in Watchers : TimesOut(s, w)
           \/ \E how \in {"left", "restart"} : ClientLeaves(s, how)
  BY <1>7 DEF TimesOut, ClientLeaves, Calls
<1> QED BY <1>1, <1>2, <1>3, <1>4, <1>5, <1>6, <1>7 DEF Acts, Environment

\* Of those in the queue only one has nobody ahead.
LEMMA FirstIsAlone ==
  ASSUME NEW s \in Sessions, Ordered(s), NEW x \in Queue(s), NEW y \in Queue(s),
         ahead[s][x] = {}, ahead[s][y] = {}
  PROVE  x = y
BY DEF Ordered

LEMMA OneIsInside ==
  ASSUME NEW s \in Sessions, Ordered(s), NEW x \in Callers, caller[s][x] \in Entered
  PROVE  \A y \in Callers \ {x} : caller[s][y] \notin Entered
<1>1. \A y \in Callers : caller[s][y] \in Entered => y \in Queue(s) /\ ahead[s][y] = {}
  BY DEF Ordered, Entered, Queue
<1> QED BY <1>1, FirstIsAlone

\* A call goes last.
LEMMA CallsKeepOrder ==
  ASSUME Typed, Rest, NEW s \in Sessions, Ordered(s), NEW x \in Callers, caller[s][x] = "no",
         Calls(s, x)
  PROVE  Ordered(s)'
<1>1. /\ \A y \in Callers : caller'[s][y] = IF y = x THEN "lock" ELSE caller[s][y]
      /\ \A y \in Callers : ahead'[s][y] = IF y = x THEN Queue(s) ELSE ahead[s][y]
  BY DEF Typed, Rest, Calls
<1>2. Queue(s)' = Queue(s) \cup {x} /\ x \notin Queue(s) /\ Queue(s) \subseteq Callers
  BY <1>1 DEF Queue
<1> QED BY <1>1, <1>2 DEF Ordered, Entered

\* Who leaves lets the others keep their order.
LEMMA LeaveKeepsOrder ==
  ASSUME Typed, Rest, NEW s \in Sessions, Ordered(s), NEW gone \in SUBSET Callers, Leave(s, gone),
         \A y \in Callers : /\ caller'[s][y] = caller[s][y] \/ y \in gone
                            /\ y \in gone => caller'[s][y] \notin {"lock", "turn", "tasks"}
  PROVE  Ordered(s)'
<1>1. \A y \in Callers : ahead'[s][y] = IF y \in gone THEN {} ELSE ahead[s][y] \ gone
  BY DEF Typed, Rest, Leave, Without
<1>2. Queue(s)' = Queue(s) \ gone
  BY DEF Queue
<1>3. Queue(s) \subseteq Callers
  BY DEF Queue
<1>4. \A x, y \in Queue(s)' : x # y => x \in ahead'[s][y] \/ y \in ahead'[s][x]
  BY <1>1, <1>2, <1>3 DEF Ordered
<1>5. \A x \in Callers : caller'[s][x] \in Entered => ahead'[s][x] = {}
  BY <1>1 DEF Ordered, Entered
<1> QED BY <1>4, <1>5 DEF Ordered

\* The queue of the lock.
LEMMA OrderedStep ==
  ASSUME Inv, Rest, NEW s \in Sessions, Ordered(s), Acts(s)
  PROVE  Ordered(s)'
<1>1. CASE UNCHANGED <<caller[s], ahead[s]>>
  BY <1>1 DEF Ordered, Queue
<1>2. CASE \E x \in Callers : caller[s][x] = "no" /\ Calls(s, x)
  BY <1>2, CallsKeepOrder DEF Inv
<1>3. ASSUME route[s] = "closing", caller[s]["run"] = "lock", RouteCancelled(s)
      PROVE  Ordered(s)'
  <2>1. /\ caller' = [caller EXCEPT ![s]["run"] = "done", ![s]["final"] = "lock"]
        /\ ahead' = [ahead EXCEPT ![s] = [Without(s, {"run"}) EXCEPT !["final"] = Queue(s) \ {"run"}]]
    BY <1>3 DEF RouteCancelled, Setup
  <2>2. caller[s]["final"] = "no"
    BY <1>3 DEF Inv, CalledOnce
  <2>3. /\ {"run", "final"} \subseteq Callers /\ Queue(s) \subseteq Callers
        /\ \A y \in Callers : caller'[s][y] = IF y = "run" THEN "done" ELSE IF y = "final" THEN "lock"
                                              ELSE caller[s][y]
    BY <2>1 DEF Callers, Queue, Inv, Typed
  <2>4. \A y \in Callers : ahead'[s][y] = IF y = "final" THEN Queue(s) \ {"run"}
                                          ELSE IF y = "run" THEN {} ELSE ahead[s][y] \ {"run"}
    BY <2>1 DEF Without, Rest
  <2>5. Queue(s)' = (Queue(s) \ {"run"}) \cup {"final"} /\ "final" \notin Queue(s)
    BY <2>2, <2>3 DEF Queue
  <2>6. \A x, y \in Queue(s)' : x # y => x \in ahead'[s][y] \/ y \in ahead'[s][x]
    <3> SUFFICES ASSUME NEW x \in Queue(s)', NEW y \in Queue(s)', x # y
                 PROVE  x \in ahead'[s][y] \/ y \in ahead'[s][x]
      OBVIOUS
    <3>1. x \in Callers /\ y \in Callers
      BY <2>3, <2>5
    <3>2. CASE x # "final" /\ y # "final"
      <4>1. x \in Queue(s) /\ y \in Queue(s) /\ x # "run" /\ y # "run"
        BY <2>5, <3>2
      <4>2. x \in ahead[s][y] \/ y \in ahead[s][x]
        BY <4>1 DEF Ordered
      <4> QED BY <2>4, <3>1, <3>2, <4>1, <4>2
    <3>3. CASE x = "final" \/ y = "final"
      BY <2>4, <2>5, <3>1, <3>3
    <3> QED BY <3>2, <3>3
  <2>7. \A x \in Callers : caller'[s][x] \in Entered => ahead'[s][x] = {}
    BY <2>3, <2>4 DEF Ordered, Entered
  <2> QED BY <2>6, <2>7 DEF Ordered
<1>4. CASE CloseStep(s)
  <2> PICK x \in Callers : CloseEnters(s, x) \/ CloseCancels(s, x) \/ CloseFinishes(s, x)
    BY <1>4 DEF CloseStep
  <2>1. CASE CloseEnters(s, x) /\ ~closed[s]
    <3>1. /\ UNCHANGED ahead /\ ahead[s][x] = {} /\ caller[s][x] = "lock"
          /\ \A y \in Callers : caller'[s][y] = IF y = x THEN "turn" ELSE caller[s][y]
      BY <2>1 DEF CloseEnters, Inv, Typed
    <3> QED BY <3>1 DEF Ordered, Queue, Entered
  <2>2. CASE (CloseEnters(s, x) /\ closed[s]) \/ CloseFinishes(s, x)
    <3>1. /\ Leave(s, {x})
          /\ \A y \in Callers : caller'[s][y] = IF y = x THEN "done" ELSE caller[s][y]
      BY <2>2 DEF CloseEnters, CloseFinishes, Inv, Typed
    <3> QED BY <3>1, LeaveKeepsOrder DEF Inv
  <2>3. CASE CloseCancels(s, x)
    <3> DEFINE gone == {y \in Watchers \ {x} : caller[s][y] = "lock"}
    <3>1. /\ Leave(s, gone) /\ gone \subseteq Callers /\ caller[s][x] = "turn"
          /\ \A y \in Callers : caller'[s][y] = IF y = x THEN "tasks" ELSE IF y \in gone THEN "done"
                                                ELSE caller[s][y]
      BY <2>3 DEF CloseCancels, Inv, Typed, Callers
    <3>2. /\ \A y \in Callers : ahead'[s][y] = IF y \in gone THEN {} ELSE ahead[s][y] \ gone
          /\ Queue(s)' = Queue(s) \ gone /\ Queue(s) \subseteq Callers /\ x \in Queue(s)
      <4>1. \A y \in Callers : ahead'[s][y] = IF y \in gone THEN {} ELSE ahead[s][y] \ gone
        BY <3>1 DEF Leave, Without, Rest
      <4>2. \A y \in gone : y \in Callers /\ y # x /\ caller[s][y] = "lock"
        BY <3>1
      <4> HIDE DEF gone
      <4>3. Queue(s)' = Queue(s) \ gone /\ Queue(s) \subseteq Callers /\ x \in Queue(s)
        BY <3>1, <4>2 DEF Queue
      <4> QED BY <4>1, <4>3
    <3> HIDE DEF gone
    <3> QED BY <3>1, <3>2 DEF Ordered, Entered
  <2> QED BY <2>1, <2>2, <2>3
<1> DEFINE Quiet == UNCHANGED <<caller[s], ahead[s]>> \/ \E x \in Callers : caller[s][x] = "no" /\ Calls(s, x)
<1>5. ASSUME RouteStep(s) \/ Rejected(s) \/ Built(s) \/ HalfBuilt(s)
      PROVE  Quiet
  <2>1. CASE SetupFails(s)
    BY <2>1 DEF SetupFails, Finally, Inv, CalledOnce, Callers
  <2>2. CASE RunEnds(s)
    BY <2>2 DEF RunEnds, Inv, CalledOnce, Callers
  <2>3. CASE RunClosed(s)
    BY <2>3 DEF RunClosed, Finally, Inv, CalledOnce, Callers
  <2> QED BY <1>5, <2>1, <2>2, <2>3 DEF RouteStep, Connected, Healthy, Running, FinalClosed, HungUp,
             Rejected, Built, HalfBuilt
<1>6. ASSUME RouteCancelled(s), route[s] # "closing"
      PROVE  Quiet
  BY <1>6 DEF RouteCancelled, Finally, Inv, CalledOnce, Callers
<1>7. ASSUME InputStep(s) \/ Dropped(s) \/ InputCrashes(s) \/ Revoked(s) \/ RevokeHeard(s) \/ TooSlow(s)
                \/ \E how \in {"left", "restart"} : ClientLeaves(s, how)
      PROVE  Quiet
  BY <1>7 DEF InputStep, InputLeaves, InputCut, Dropped, InputCrashes, Revoked, RevokeHeard, TooSlow,
     ClientLeaves
<1>8. ASSUME RevokeCloses(s) \/ IdleCrashes(s) \/ \E w \in Watchers : TimesOut(s, w)
      PROVE  Quiet
  BY <1>8 DEF RevokeCloses, IdleCrashes, TimesOut, Inv, CalledOnce, Callers, Watchers
<1>9. RouteCancelled(s) /\ route[s] = "closing" => caller[s]["run"] = "lock"
  BY DEF RouteCancelled, Setup
<1> QED BY <1>1, <1>2, <1>3, <1>4, <1>5, <1>6, <1>7, <1>8, <1>9 DEF Acts, Environment

\* The steps of the route.
LEMMA RouteSettles ==
  ASSUME Inv, Rest, NEW s \in Sessions, Ordered(s), Settling(s),
         RouteStep(s) \/ Rejected(s) \/ Built(s) \/ HalfBuilt(s) \/ RouteCancelled(s)
  PROVE  Settling(s)'
<1> USE DEF Inv, Typed, CalledOnce, Rest, Settling, Goto, Setup
<1>1. CASE Connected(s) \/ Healthy(s)
  BY <1>1 DEF Connected, Healthy
<1>2. CASE Running(s)
  BY <1>2 DEF Running, Entered
<1>3. CASE SetupFails(s) \/ (RouteCancelled(s) /\ route[s] \in Setup)
  <2>1. /\ route[s] \in Setup /\ route'[s] = "final" /\ "final" \in Callers
        /\ \A y \in Callers : caller[s][y] = "no"
        /\ \A y \in Callers : caller'[s][y] = IF y = "final" THEN "lock" ELSE caller[s][y]
        /\ UNCHANGED <<task, status, closed, ended, record>>
    BY <1>3 DEF SetupFails, RouteCancelled, Finally, Calls, Callers
  <2> HIDE DEF Inv, Typed, CalledOnce, Rest
  <2> QED BY <2>1 DEF Entered
<1>4. CASE RunEnds(s)
  <2>1. /\ route[s] = "run" /\ route'[s] = "closing" /\ {"run", "final"} \subseteq Callers
        /\ \A y \in Callers : caller'[s][y] = IF y = "run" THEN "lock" ELSE caller[s][y]
        /\ UNCHANGED <<task, status, closed, ended, record>>
    BY <1>4 DEF RunEnds, Calls, Callers
  <2> HIDE DEF Inv, Typed, CalledOnce, Rest
  <2> QED BY <2>1 DEF Entered
<1>5. CASE RunClosed(s)
  <2>1. /\ route[s] = "closing" /\ route'[s] = "final" /\ "final" \in Callers
        /\ \A y \in Callers : caller'[s][y] = IF y = "final" THEN "lock" ELSE caller[s][y]
        /\ UNCHANGED <<task, status, closed, ended, record>>
    BY <1>5 DEF RunClosed, Finally, Calls, Callers
  <2> HIDE DEF Inv, Typed, CalledOnce, Rest
  <2> QED BY <2>1 DEF Entered
<1>6. CASE FinalClosed(s)
  BY <1>6 DEF FinalClosed
<1>7. CASE HungUp(s)
  BY <1>7 DEF HungUp
<1>8. CASE Rejected(s) \/ Built(s) \/ HalfBuilt(s)
  <2>1. /\ route[s] = "none" /\ route'[s] \in {"done", "connect", "drain"}
        /\ route'[s] = "connect" => record'[s] = "active"
        /\ route'[s] # "connect" => record'[s] \in {"none", "error"}
        /\ UNCHANGED <<task, caller, status, closed, ended>>
    BY <1>8 DEF Rejected, Built, HalfBuilt, Recorded, RecordCloses
  <2> QED BY <2>1 DEF Entered, Callers
<1>9. CASE RouteCancelled(s) /\ route[s] = "run"
  <2>1. /\ \A t \in Tasks : task'[s][t] = task[s][t] \/ task'[s][t] = "cancelled"
        /\ UNCHANGED <<route, caller, status, closed, ended, record>>
    BY <1>9, CancelFinds
  <2> HIDE DEF Inv, Typed, CalledOnce, Rest
  <2> QED BY <1>9, <2>1 DEF TaskOver
<1>10. CASE RouteCancelled(s) /\ route[s] = "closing"
  <2> HIDE DEF Inv, Typed, CalledOnce, Rest, Settling
  <2>1. /\ route' = [route EXCEPT ![s] = "final"] /\ {"run", "final"} \subseteq Callers
        /\ caller' = [caller EXCEPT ![s]["run"] = "done", ![s]["final"] = "lock"]
        /\ UNCHANGED <<task, status, closed, ended, record>>
    BY <1>10 DEF RouteCancelled, Callers
  <2>2. \A y \in Callers : caller'[s][y] = IF y = "run" THEN "done" ELSE IF y = "final" THEN "lock"
                                           ELSE caller[s][y]
    BY <2>1 DEF Inv, Typed
  <2>3. route'[s] = "final"
    BY <2>1 DEF Inv, Typed
  <2>4. /\ \E y \in Callers : caller'[s][y] # "no"
        /\ caller'[s]["final"] # "done"
        /\ \A y \in Callers : /\ caller'[s][y] \in Entered => caller[s][y] \in Entered
                              /\ caller'[s][y] = "tasks" => caller[s][y] = "tasks"
    <3>1. "run" \in Callers /\ "final" \in Callers
      BY <2>1
    <3> QED BY <2>2, <3>1 DEF Entered
  <2>5. route[s] = "closing" /\ UNCHANGED <<task, status, closed, ended, record>>
    BY <1>10, <2>1
  <2> QED BY <2>3, <2>4, <2>5 DEF Settling
<1> QED BY <1>1, <1>2, <1>3, <1>4, <1>5, <1>6, <1>7, <1>8, <1>9, <1>10 DEF RouteStep, RouteCancelled

\* What the session tasks do, and the client.
LEMMA TasksSettle ==
  ASSUME Inv, Rest, NEW s \in Sessions, Settling(s),
         \/ InputStep(s) \/ RevokeCloses(s) \/ Dropped(s)
         \/ InputCrashes(s) \/ IdleCrashes(s) \/ Revoked(s) \/ RevokeHeard(s) \/ TooSlow(s)
         \/ \E w \in Watchers : TimesOut(s, w)
         \/ \E how \in {"left", "restart"} : ClientLeaves(s, how)
  PROVE  Settling(s)'
<1> USE DEF Inv, Typed, CalledOnce, Rest, Settling
<1>1. CASE Dropped(s) \/ RevokeHeard(s) \/ TooSlow(s)
           \/ \E how \in {"left", "restart"} : ClientLeaves(s, how)
  BY <1>1 DEF Dropped, RevokeHeard, TooSlow, ClientLeaves
<1>2. CASE InputStep(s) \/ InputCrashes(s)
  <2>1. /\ \A t \in Tasks : task'[s][t] = task[s][t] \/ task'[s][t] \in {"returned", "done"}
        /\ task[s]["input"] # "none" /\ "input" \in Tasks
        /\ UNCHANGED <<route, caller, status, closed, ended, record>>
    BY <1>2 DEF InputStep, InputLeaves, InputCut, InputCrashes, Tasks
  <2> HIDE DEF Inv, Typed, CalledOnce, Rest
  <2> QED BY <2>1 DEF TaskOver
<1>3. CASE Revoked(s)
  <2>1. /\ \A t \in Tasks : task'[s][t] = IF t = "reval" THEN "hanging_up" ELSE task[s][t]
        /\ task[s]["reval"] = "live" /\ "reval" \in Tasks /\ caller[s]["reval"] = "no"
        /\ UNCHANGED <<route, caller, status, closed, ended, record>>
    BY <1>3 DEF Revoked, Tasks, Watchers
  <2> HIDE DEF Inv, Typed, CalledOnce, Rest
  <2> QED BY <2>1 DEF TaskOver
<1>4. CASE IdleCrashes(s)
  <2>1. /\ \A t \in Tasks : task'[s][t] = IF t = "idle" THEN "done" ELSE task[s][t]
        /\ task[s]["idle"] = "live" /\ "idle" \in Tasks /\ caller[s]["bg"] = "no"
        /\ "bg" \in Callers /\ "final" \in Callers
        /\ \A y \in Callers : caller'[s][y] = IF y = "bg" THEN "lock" ELSE caller[s][y]
        /\ UNCHANGED <<route, status, closed, ended, record>>
    BY <1>4 DEF IdleCrashes, Tasks, Watchers, Callers, Calls
  <2> HIDE DEF Inv, Typed, CalledOnce, Rest
  <2> QED BY <2>1 DEF TaskOver, Entered
<1>5. ASSUME NEW w \in Watchers, task[s][w] \in {"live", "hanging_up"},
             task' = [task EXCEPT ![s][w] = "closing"], Calls(s, w),
             UNCHANGED <<route, status, closed, ended, record>>
      PROVE  Settling(s)'
  <2>1. /\ \A t \in Tasks : task'[s][t] = IF t = w THEN "closing" ELSE task[s][t]
        /\ w \in Tasks /\ caller[s][w] = "no" /\ w \in Callers /\ w # "final" /\ "final" \in Callers
        /\ \A y \in Callers : caller'[s][y] = IF y = w THEN "lock" ELSE caller[s][y]
    BY <1>5 DEF Tasks, Watchers, Callers, Calls
  <2> HIDE DEF Inv, Typed, CalledOnce, Rest
  <2>2. ~closed[s] /\ route[s] \notin {"none", "drain", "done"}
        /\ \A y \in Callers : caller[s][y] # "tasks"
    BY <1>5, <2>1 DEF TaskOver, CalledOnce, Inv, Setup
  <2> QED BY <1>5, <2>1, <2>2 DEF Entered
<1>6. CASE RevokeCloses(s) \/ \E w \in Watchers : TimesOut(s, w)
  BY <1>5, <1>6 DEF RevokeCloses, TimesOut, Watchers
<1> QED BY <1>1, <1>2, <1>3, <1>4, <1>6

\* close_all.
LEMMA CloseSettles ==
  ASSUME Inv, Rest, NEW s \in Sessions, Ordered(s), Settling(s), CloseStep(s)
  PROVE  Settling(s)'
<1> USE DEF Inv, Typed, CalledOnce, Rest, Settling
<1> PICK x \in Callers : CloseEnters(s, x) \/ CloseCancels(s, x) \/ CloseFinishes(s, x)
  BY DEF CloseStep
<1>1. CASE CloseEnters(s, x) /\ closed[s]
  <2>1. /\ \A y \in Callers : caller'[s][y] = IF y = x THEN "done" ELSE caller[s][y]
        /\ \A t \in Tasks : task'[s][t] = task[s][t] \/ task'[s][t] = "done"
        /\ caller[s][x] = "lock"
        /\ UNCHANGED <<route, closed, status, ended, record>>
    BY <1>1, EnterFinds
  <2> HIDE DEF Inv, Typed, CalledOnce, Rest
  <2> QED BY <1>1, <2>1 DEF TaskOver, Entered
<1>2. CASE CloseEnters(s, x) /\ ~closed[s]
  <2>1. /\ \A y \in Callers : caller'[s][y] = IF y = x THEN "turn" ELSE caller[s][y]
        /\ status'[s] = StatusFor(s, x) /\ caller[s][x] = "lock"
        /\ UNCHANGED <<route, task, closed, ended, record>>
    BY <1>2, EnterFinds
  <2>2. status'[s] \in Final
    BY <2>1 DEF StatusFor, Final
  <2>3. ahead[s][x] = {}
    BY <1>2 DEF CloseEnters
  <2>4. \A y \in Callers : caller[s][y] \notin Entered
    <3>1. \A y \in Callers : caller[s][y] \in Entered => y \in Queue(s) /\ ahead[s][y] = {}
      BY DEF Ordered, Entered, Queue
    <3>2. x \in Queue(s) /\ caller[s][x] \notin Entered
      BY <2>1 DEF Queue, Entered
    <3> HIDE DEF Inv, Typed, CalledOnce, Rest, Settling
    <3> QED BY <2>3, <3>1, <3>2, FirstIsAlone
  <2>5. record[s] = "active" /\ route[s] \notin {"none", "drain", "done"} /\ "final" \in Callers
    BY <1>2, <2>1 DEF Setup, Callers
  <2> HIDE DEF Inv, Typed, CalledOnce, Rest
  <2> QED BY <1>2, <2>1, <2>2, <2>4, <2>5 DEF Entered
<1>3. CASE CloseCancels(s, x)
  <2>1. /\ caller[s][x] = "turn" /\ caller'[s][x] = "tasks"
        /\ \A y \in Callers \ {x} : \/ caller'[s][y] = caller[s][y]
                                    \/ y \in Watchers /\ caller[s][y] = "lock" /\ caller'[s][y] = "done"
        /\ UNCHANGED <<route, closed, status, ended, record>>
    BY <1>3 DEF CloseCancels
  <2>2. \A t \in Tasks : task'[s][t] = IF t = x THEN task[s][t] ELSE AfterCancel(t, task[s][t])
    BY <1>3 DEF CloseCancels, Spare
  <2>3. \A t \in Tasks : t # x => task'[s][t] \in TaskOver
    BY <2>2 DEF AfterCancel, TaskOver, TaskAt
  <2>4. \A y \in Callers \ {x} : caller[s][y] \notin Entered
    BY <2>1, OneIsInside DEF Entered
  <2>5. route[s] \notin {"none", "drain", "done"} /\ "final" \in Callers \ Watchers
    BY <2>1 DEF Setup, Watchers, Callers, Entered
  <2> HIDE DEF Inv, Typed, CalledOnce, Rest
  <2> QED BY <2>1, <2>3, <2>4, <2>5 DEF Entered
<1>4. CASE CloseFinishes(s, x)
  <2>1. /\ caller[s][x] = "tasks" /\ caller[s][x] \in Entered
        /\ \A y \in Callers : caller'[s][y] = IF y = x THEN "done" ELSE caller[s][y]
        /\ ended'[s] = EndReason(s) /\ record'[s] = status[s] /\ closed'[s]
        /\ UNCHANGED <<route, status>>
    BY <1>4 DEF CloseFinishes, RecordCloses, Entered
  <2>2. \A t \in Tasks : task'[s][t] = IF t = x /\ x \in Watchers THEN "done" ELSE task[s][t]
    <3>1. Over(s, x) /\ Typed
      BY <1>4 DEF CloseFinishes
    <3> HIDE DEF Typed
    <3> QED BY <3>1, OverFinishes
  <2>3. x \in Tasks => x \in Watchers
    BY DEF Tasks, Callers, Watchers
  <2>4. \A t \in Tasks : task'[s][t] \in TaskOver
    BY <2>1, <2>2, <2>3 DEF TaskOver
  <2>5. EndReason(s) \in Reasons
    BY <2>1 DEF EndReason, Noted, Reasons
  <2>6. \A y \in Callers \ {x} : caller[s][y] \notin Entered
    BY <2>1, OneIsInside
  <2>7. route[s] # "none" /\ status[s] \in Final
    BY <2>1 DEF Entered
  <2> HIDE DEF Inv, Typed, CalledOnce, Rest
  <2> QED BY <2>1, <2>4, <2>5, <2>6, <2>7 DEF Entered
<1> QED BY <1>1, <1>2, <1>3, <1>4

\* The rest of the types.
LEMMA RestStep ==
  ASSUME Inv, Rest, NEW s \in Sessions, Acts(s)
  PROVE  Rest'
<1> USE SessionAssumption DEF Rest
<1>0. \A x \in Callers : Calls(s, x) => ahead' \in [Sessions -> [Callers -> SUBSET Callers]]
  BY DEF Calls, Queue
<1>1. CASE RouteStep(s)
  BY <1>0, <1>1 DEF RouteStep, Connected, Healthy, Running, SetupFails, RunEnds, RunClosed, FinalClosed,
     HungUp, Finally, shared, Callers
<1>2. \A gone \in SUBSET Callers : Leave(s, gone) => ahead' \in [Sessions -> [Callers -> SUBSET Callers]]
  BY DEF Leave, Without
<1>3. CASE CloseStep(s)
  <2> PICK x \in Callers : CloseEnters(s, x) \/ CloseCancels(s, x) \/ CloseFinishes(s, x)
    BY <1>3 DEF CloseStep
  <2>1. ahead' \in [Sessions -> [Callers -> SUBSET Callers]]
    <3>1. {x} \in SUBSET Callers /\ {y \in Watchers \ {x} : caller[s][y] = "lock"} \in SUBSET Callers
      BY DEF Callers
    <3> QED BY <1>2, <3>1 DEF CloseEnters, CloseCancels, CloseFinishes
  <2> QED BY <2>1 DEF CloseEnters, CloseCancels, CloseFinishes, CountsClosed, shared
<1>4. CASE InputStep(s) \/ RevokeCloses(s) \/ Dropped(s)
  BY <1>0, <1>4 DEF InputStep, InputLeaves, InputCut, RevokeCloses, Dropped, shared, Callers, Watchers
<1>5. CASE Rejected(s) \/ Built(s) \/ HalfBuilt(s)
  <2>1. CASE Rejected(s)
    BY <2>1 DEF Rejected, shared
  <2>2. CASE Built(s)
    BY <2>2 DEF Built, CountsOpened
  <2>3. CASE HalfBuilt(s)
    <3>1. counts' \in [opened : Nat, closed : Nat]
      BY <2>3 DEF HalfBuilt, CountsOpened
    <3> QED BY <2>3, <3>1 DEF HalfBuilt
  <2> QED BY <1>5, <2>1, <2>2, <2>3
<1>6. CASE RouteCancelled(s)
  <2>1. ahead' \in [Sessions -> [Callers -> SUBSET Callers]]
    <3>1. CASE route[s] \in Setup
      BY <1>0, <1>6, <3>1 DEF RouteCancelled, Finally, Callers, Setup
    <3>2. CASE route[s] = "run"
      BY <1>6, <3>2 DEF RouteCancelled, Setup
    <3>3. CASE route[s] = "closing"
      <4>1. ahead' = [ahead EXCEPT ![s] = [Without(s, {"run"}) EXCEPT !["final"] = Queue(s) \ {"run"}]]
        BY <1>6, <3>3 DEF RouteCancelled, Setup
      <4>2. Without(s, {"run"}) \in [Callers -> SUBSET Callers] /\ Queue(s) \subseteq Callers
        BY DEF Without, Queue
      <4> QED BY <4>1, <4>2
    <3> QED BY <1>6, <3>1, <3>2, <3>3 DEF RouteCancelled
  <2> QED BY <1>6, <2>1 DEF RouteCancelled, Cause, shared
<1>7. CASE InputCrashes(s) \/ IdleCrashes(s) \/ Revoked(s) \/ RevokeHeard(s) \/ TooSlow(s)
  <2>1. CASE InputCrashes(s) \/ Revoked(s)
    BY <2>1 DEF InputCrashes, Revoked, Cause, shared
  <2>2. CASE IdleCrashes(s)
    <3>1. Calls(s, "bg") /\ "bg" \in Callers
      BY <2>2 DEF IdleCrashes, Callers
    <3>2. UNCHANGED <<sock, kicked, counts>> /\ causes' \in 0..MaxCauses
      BY <2>2 DEF IdleCrashes, Cause, shared
    <3> QED BY <1>0, <3>1, <3>2
  <2>3. CASE RevokeHeard(s)
    BY <2>3 DEF RevokeHeard, shared
  <2>4. CASE TooSlow(s)
    BY <2>4 DEF TooSlow, Cause, shared
  <2> QED BY <1>7, <2>1, <2>2, <2>3, <2>4
<1>8. CASE \/ \E w \in Watchers : TimesOut(s, w)
           \/ \E how \in {"left", "restart"} : ClientLeaves(s, how)
  BY <1>0, <1>8 DEF TimesOut, ClientLeaves, Cause, shared, Callers, Watchers
<1> QED BY <1>1, <1>3, <1>4, <1>5, <1>6, <1>7, <1>8 DEF Acts, Environment

\* What a step does to the counters: a session is opened once and closed once.
LEMMA CountsMove ==
  ASSUME Inv, Rest, NEW s \in Sessions, Ordered(s), Settling(s), Acts(s)
  PROVE  \/ /\ closed'[s] = closed[s] /\ record'[s] = record[s]
            /\ UNCHANGED counts
         \/ /\ closed'[s] = closed[s] /\ record[s] # "active" /\ record'[s] # "active"
            /\ counts'.closed = counts.closed /\ counts'.opened >= counts.opened
         \/ /\ closed'[s] = closed[s] /\ record[s] # "active" /\ record'[s] = "active"
            /\ counts'.closed = counts.closed /\ counts'.opened = counts.opened + 1
         \/ /\ ~closed[s] /\ closed'[s] /\ record[s] = "active" /\ record'[s] # "active"
            /\ counts'.closed = counts.closed + 1 /\ counts'.opened = counts.opened
<1>1. CASE Built(s)
  BY <1>1 DEF Built, Settling, Recorded, CountsOpened, Inv, Typed, Rest
<1>2. CASE HalfBuilt(s)
  BY <1>2 DEF HalfBuilt, Settling, RecordCloses, CountsOpened, Inv, Typed, Rest
<1>3. CASE \E x \in Callers : CloseFinishes(s, x)
  <2> PICK x \in Callers : CloseFinishes(s, x)
    BY <1>3
  <2>1. ~closed[s] /\ record[s] = "active" /\ status[s] # "active"
    BY DEF CloseFinishes, Settling, Entered, Final
  <2>2. closed'[s] /\ record'[s] = status[s] /\ CountsClosed
    BY DEF CloseFinishes, RecordCloses, Inv, Typed
  <2>3. counts'.closed = counts.closed + 1 /\ counts'.opened = counts.opened
    BY <2>2 DEF CountsClosed, Rest
  <2> QED BY <2>1, <2>2, <2>3
<1>4. CASE ~Built(s) /\ ~HalfBuilt(s) /\ ~ \E x \in Callers : CloseFinishes(s, x)
  <2>1. UNCHANGED <<closed, record, counts>>
    <3>1. CASE RouteStep(s)
      BY <3>1 DEF RouteStep, Connected, Healthy, Running, SetupFails, RunEnds, RunClosed,
         FinalClosed, HungUp, shared
    <3>2. CASE CloseStep(s)
      BY <1>4, <3>2 DEF CloseStep, CloseEnters, CloseCancels, shared
    <3>3. CASE InputStep(s) \/ RevokeCloses(s) \/ Dropped(s) \/ Rejected(s) \/ RouteCancelled(s)
      BY <3>3 DEF InputStep, InputLeaves, InputCut, RevokeCloses, Dropped, Rejected, RouteCancelled,
         shared
    <3>4. CASE \/ InputCrashes(s) \/ IdleCrashes(s) \/ Revoked(s) \/ RevokeHeard(s) \/ TooSlow(s)
               \/ \E w \in Watchers : TimesOut(s, w)
               \/ \E how \in {"left", "restart"} : ClientLeaves(s, how)
      BY <3>4 DEF InputCrashes, IdleCrashes, Revoked, RevokeHeard, TooSlow, TimesOut, ClientLeaves,
         shared
    <3> QED BY <1>4, <3>1, <3>2, <3>3, <3>4 DEF Acts, Environment
  <2> QED BY <2>1
<1> QED BY <1>1, <1>2, <1>3, <1>4

LEMMA CountedStep ==
  ASSUME Inv, Settles, NEW s \in Sessions, Acts(s)
  PROVE  Counted'
<1> DEFINE Begun  == {o \in Sessions : route[o] # "none"}
           Shut   == {o \in Sessions : closed[o]}
           Active == {o \in Sessions : record[o] = "active"}
<1>1. /\ \A o \in Sessions \ {s} : /\ route'[o] = route[o] /\ closed'[o] = closed[o]
                                   /\ record'[o] = record[o]
      /\ Ordered(s) /\ Settling(s) /\ Rest /\ Counted
  BY Elsewhere DEF Settles
<1>2. IsFiniteSet(Begun) /\ IsFiniteSet(Begun')
  <2>1. IsFiniteSet(Begun \cup {s})
    BY <1>1, FS_AddElement DEF Counted
  <2>2. Begun' \subseteq Begun \cup {s} /\ Begun \subseteq Begun \cup {s}
    BY <1>1
  <2> QED BY <2>1, <2>2, FS_Subset
<1>3. IsFiniteSet(Shut) /\ IsFiniteSet(Active)
  <2>1. Shut \subseteq Begun /\ Active \subseteq Begun
    BY DEF Settles, Settling, Inv, CalledOnce
  <2> QED BY <1>2, <2>1, FS_Subset
<1>4. /\ Cardinality(Shut) \in Nat /\ Cardinality(Active) \in Nat
      /\ s \notin Shut => Cardinality(Shut \cup {s}) = Cardinality(Shut) + 1
      /\ s \notin Active => Cardinality(Active \cup {s}) = Cardinality(Active) + 1
      /\ s \in Active => Cardinality(Active \ {s}) = Cardinality(Active) - 1
  BY <1>3, FS_CardinalityType, FS_AddElement, FS_RemoveElement
<1>5. /\ counts.closed = Cardinality(Shut) /\ counts.closed \in Nat /\ counts.opened \in Nat
      /\ counts'.closed \in Nat /\ counts'.opened \in Nat
      /\ counts.opened >= counts.closed + Cardinality(Active)
  BY <1>1, RestStep DEF Counted, Rest
<1>6. SUFFICES /\ counts'.closed = Cardinality(Shut')
               /\ counts'.opened >= counts'.closed + Cardinality(Active')
  BY <1>2 DEF Counted
<1>7. CASE closed'[s] = closed[s] /\ (record'[s] = "active" <=> record[s] = "active")
           /\ counts'.closed = counts.closed /\ counts'.opened >= counts.opened
  <2>1. Shut' = Shut /\ Active' = Active
    BY <1>1, <1>7
  <2> HIDE DEF Shut, Active
  <2> QED BY <1>4, <1>5, <1>7, <2>1
<1>8. CASE closed'[s] = closed[s] /\ record[s] # "active" /\ record'[s] = "active"
           /\ counts'.closed = counts.closed /\ counts'.opened = counts.opened + 1
  <2>1. Shut' = Shut /\ Active' = Active \cup {s} /\ s \notin Active
    BY <1>1, <1>8
  <2> HIDE DEF Shut, Active
  <2> QED BY <1>4, <1>5, <1>8, <2>1
<1>9. CASE ~closed[s] /\ closed'[s] /\ record[s] = "active" /\ record'[s] # "active"
           /\ counts'.closed = counts.closed + 1 /\ counts'.opened = counts.opened
  <2>1. Shut' = Shut \cup {s} /\ Active' = Active \ {s} /\ s \notin Shut /\ s \in Active
    BY <1>1, <1>9
  <2> HIDE DEF Shut, Active
  <2> QED BY <1>4, <1>5, <1>9, <2>1
<1>10. \/ /\ closed'[s] = closed[s] /\ record'[s] = record[s]
          /\ UNCHANGED counts
       \/ /\ closed'[s] = closed[s] /\ record[s] # "active" /\ record'[s] # "active"
          /\ counts'.closed = counts.closed /\ counts'.opened >= counts.opened
       \/ /\ closed'[s] = closed[s] /\ record[s] # "active" /\ record'[s] = "active"
          /\ counts'.closed = counts.closed /\ counts'.opened = counts.opened + 1
       \/ /\ ~closed[s] /\ closed'[s] /\ record[s] = "active" /\ record'[s] # "active"
          /\ counts'.closed = counts.closed + 1 /\ counts'.opened = counts.opened
  BY <1>1, CountsMove
<1> HIDE DEF Begun, Shut, Active
<1> QED BY <1>5, <1>7, <1>8, <1>9, <1>10

LEMMA SettlesInit == Init => Settles
<1> SUFFICES ASSUME Init PROVE Settles
  OBVIOUS
<1>1. Rest /\ \A s \in Sessions : Ordered(s) /\ Settling(s)
  <2>1. Rest
    BY SessionAssumption DEF Init, Rest
  <2>2. ASSUME NEW s \in Sessions PROVE Ordered(s) /\ Settling(s)
    <3>1. /\ \A x \in Callers : caller[s][x] = "no" /\ ahead[s][x] = {}
          /\ \A t \in Tasks : task[s][t] = "none"
          /\ route[s] = "none" /\ status[s] = "none" /\ record[s] = "none" /\ ~closed[s]
          /\ "final" \in Callers
      BY DEF Init, Callers
    <3> QED BY <3>1 DEF Ordered, Settling, Queue, Entered
  <2> QED BY <2>1, <2>2
<1>2. /\ {s \in Sessions : route[s] # "none"} = {} /\ {s \in Sessions : closed[s]} = {}
      /\ {s \in Sessions : record[s] = "active"} = {}
  BY DEF Init
<1>3. Counted
  <2>1. IsFiniteSet({}) /\ Cardinality({}) = 0
    BY FS_EmptySet
  <2>2. counts.opened = 0 /\ counts.closed = 0
    BY DEF Init
  <2> QED BY <1>2, <2>1, <2>2 DEF Counted
<1> QED BY <1>1, <1>3 DEF Settles

LEMMA SettlesNext == Inv /\ Settles /\ [Next]_vars => Settles'
<1> SUFFICES ASSUME Inv, Settles, [Next]_vars PROVE Settles'
  OBVIOUS
<1>1. CASE UNCHANGED vars
  BY <1>1 DEF vars, perSession, shared, Settles, Rest, Counted, Ordered, Settling, Queue
<1>2. ASSUME NEW s \in Sessions, Acts(s) PROVE Settles'
  <2>1. Ordered(s)' /\ Settling(s)' /\ Rest' /\ Counted'
    <3>1. Rest /\ Ordered(s) /\ Settling(s)
      BY DEF Settles
    <3>2. Settling(s)'
      BY <1>2, <3>1, RouteSettles, TasksSettle, CloseSettles DEF Acts, Environment
    <3> QED BY <1>2, <3>1, <3>2, OrderedStep, RestStep, CountedStep
  <2>2. ASSUME NEW o \in Sessions \ {s} PROVE Ordered(o)' /\ Settling(o)'
    <3>1. /\ UNCHANGED <<route[o], task[o], caller[o], ahead[o]>>
          /\ UNCHANGED <<status[o], closed[o], ended[o], record[o]>>
          /\ Ordered(o) /\ Settling(o)
      BY <1>2, Elsewhere DEF Settles
    <3> QED BY <3>1 DEF Ordered, Settling, Queue
  <2> QED BY <2>1, <2>2 DEF Settles
<1> QED BY <1>1, <1>2 DEF Next, Acts

\* Whoever raced to close a session, once its route returned it is settled, and the counters of
\* the gateway are right at every moment, for any number of sessions and of causes.
THEOREM EverySessionSettles == Spec => []SessionsSettle
<1>1. Inv /\ Settles => SessionsSettle
  <2> SUFFICES ASSUME Inv, Settles PROVE SessionsSettle
    OBVIOUS
  <2>1. TypeOK
    BY DEF Inv, Typed, Settles, Rest, TypeOK, TaskAt, CallerAt
  <2>2. ASSUME NEW s \in Sessions, route[s] = "done"
        PROVE  /\ record[s] # "active"
               /\ status[s] # "none" =>
                    /\ closed[s] /\ ended[s] \notin {"none", "unknown"} /\ record[s] = status[s]
                    /\ \A t \in Tasks : task[s][t] \in {"none", "returned", "cancelled", "done"}
                    /\ \A x \in Callers : caller[s][x] \notin {"turn", "tasks"}
    BY <2>2 DEF Settles, Settling, Entered, Reasons, TaskOver, Final
  <2> QED BY <2>1, <2>2 DEF SessionsSettle, Settles, Counted
<1> QED BY <1>1, InvInit, InvNext, SettlesInit, SettlesNext, PTL DEF Spec
=============================================================================
