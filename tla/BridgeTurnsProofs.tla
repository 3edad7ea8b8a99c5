-------------------------- MODULE BridgeTurnsProofs --------------------------
(***************************************************************************)
(* What holds of the turns of a session when it closes, of the audio of    *)
(* its pushes, and of all that the client is told of its turns, for any    *)
(* number of turns, pushes, user events and callers of close_all.          *)
(***************************************************************************)
EXTENDS BridgeTurns, SequenceTheorems, TLAPS

TurnRec   == [pc : {"none", "created", "running", "cleanup", "done"}, id : Nat, cancel : BOOLEAN]
PushRec   == [open : BOOLEAN, id : Nat, tts : Nat, audio : Nat]
UserRec   == [pc : {"idle", "send_lock", "send_wait", "cancel_lock", "cancel_wait", "cut_lock",
                    "drop_audio", "drop_close", "cut_abort", "dead"},
              op : {"none", "send", "cancel", "partial", "final"},
              turn : 0..MaxTurns, id : Nat, push : Nat, tts : Nat]
WorkerRec == [pc : {"get", "wait_turn", "lock", "connect", "send", "drop_audio", "drop_close",
                    "end", "drain", "close_tts", "dead"},
              id : Nat, tts : Nat, ending : BOOLEAN]
CloserRec == [pc : {"none", "lock", "turn", "worker", "push_tts", "tasks", "done"},
              turn : 0..MaxTurns]

\* The part of TypeOK that these results rest on.
Typed ==
  /\ turn \in [Tasks -> TurnRec] /\ activeTurn \in 0..MaxTurns
  /\ seq \in Nat /\ activeId \in Nat
  /\ push \in PushRec /\ worker \in WorkerRec
  /\ user \in [UserTasks -> UserRec]
  /\ closer \in [Closers -> CloserRec]
  /\ closing \in BOOLEAN /\ closed \in BOOLEAN

\* A turn that runs is the one _active_turn names.
OneTurn == \A t \in Tasks : Running(t) => activeTurn = t

\* Only the input loop starts turns, and from its wait for the old turn on nothing else runs.
Sender(p, u) ==
  /\ u.pc \in {"send_lock", "send_wait"} => u.op = "send"
  /\ u.op = "send" =>
       /\ p = "input"
       /\ u.pc \in {"send_lock", "send_wait", "drop_audio", "drop_close", "cut_abort"}
       /\ u.pc = "send_lock" => u.turn = 0
       /\ u.pc = "send_wait" => (Running(activeTurn) => activeTurn = u.turn)
       /\ u.pc \in {"drop_audio", "drop_close", "cut_abort"} => ~Running(activeTurn)
OneSender == \A p \in UserTasks : Sender(p, user[p])

\* Every turn has ended, but perhaps for the cleanup of one that was told to.
Wound ==
  \A t \in Tasks : turn[t].pc \in {"none", "done"} \/ (turn[t].pc = "cleanup" /\ turn[t].cancel)

\* What a caller of close_all has achieved by the time it is past the turn.
Winding ==
  /\ closed => closing /\ Wound
  /\ \A c \in Closers :
       /\ closer[c].pc # "none" => closing
       /\ closer[c].pc = "turn" =>
            \A t \in Tasks : Running(t) => t = closer[c].turn /\ turn[t].cancel
       /\ closer[c].pc \in {"worker", "push_tts", "tasks"} => Wound

Inv == Typed /\ OneTurn /\ OneSender /\ Winding

-----------------------------------------------------------------------------
LEMMA InvInit == Init => Inv
<1> SUFFICES ASSUME Init PROVE Inv
  OBVIOUS
<1>1. Typed
  <2>1. /\ turn \in [Tasks -> TurnRec] /\ activeTurn \in 0..MaxTurns
        /\ seq \in Nat /\ activeId \in Nat /\ closing \in BOOLEAN /\ closed \in BOOLEAN
    <3>1. turn \in [Tasks -> TurnRec] /\ activeTurn \in 0..MaxTurns
      BY BridgeAssumption DEF Init, TurnRec
    <3>2. closing \in BOOLEAN /\ closed \in BOOLEAN
      BY Zenon DEF Init
    <3> QED BY <3>1, <3>2 DEF Init
  <2>2. push \in PushRec /\ worker \in WorkerRec
    BY DEF Init, PushRec, WorkerRec, Getting
  <2>3. user \in [UserTasks -> UserRec] /\ closer \in [Closers -> CloserRec]
    BY BridgeAssumption DEF Init, UserRec, NoOp, CloserRec
  <2> QED BY <2>1, <2>2, <2>3 DEF Typed
<1>2. OneTurn /\ OneSender /\ Winding
  BY DEF Init, OneTurn, OneSender, Sender, Winding, Running, NoOp, Wound
<1> QED BY <1>1, <1>2 DEF Inv

\* The push worker neither starts nor ends normal turns.
LEMMA WorkerTyped ==
  ASSUME Typed, WorkerStep
  PROVE  Typed' /\ UNCHANGED <<turn, activeTurn, activeId, user, closer, closing, closed>>
<1> USE DEF turnVars, pushVars, closeVars
<1>1. UNCHANGED <<turn, activeTurn, activeId, user, closer, closing, closed>>
  BY DEF WorkerStep, WorkerStart, WorkerWaited, WorkerLocked, WorkerConnected, WorkerChat,
         WorkerSent, WorkerSendFailed, WorkerEndEvent, WorkerEnded, WorkerEndFailed,
         WorkerDrained, WorkerClosedTts, WorkerDropAudio, WorkerDropClose
<1>2. push \in PushRec /\ worker \in WorkerRec /\ seq \in Nat
  BY DEF Typed
<1>3. DropPc \in {"drop_audio", "drop_close"}
  BY DEF DropPc
<1>4. \A id \in Nat : PushClosed(id) \in PushRec
  BY <1>2 DEF PushClosed, PushIs, PushRec
<1>5. /\ Dropped \in PushRec /\ Loop \in WorkerRec
      /\ \A p \in PushRec : /\ [p EXCEPT !.audio = 0] \in PushRec
                            /\ [p EXCEPT !.tts = 0, !.audio = 0] \in PushRec
  BY <1>2 DEF Dropped, PushRec, Loop, Getting, WorkerRec
<1>6. /\ [Getting EXCEPT !.pc = "wait_turn"] \in WorkerRec
      /\ [Getting EXCEPT !.pc = "lock"] \in WorkerRec
      /\ [Getting EXCEPT !.pc = "send"] \in WorkerRec
      /\ \A id \in Nat : /\ [Getting EXCEPT !.pc = "connect", !.id = id] \in WorkerRec
                         /\ [Getting EXCEPT !.pc = "end", !.id = id] \in WorkerRec
  BY DEF Getting, WorkerRec
<1>7. \A pc \in {"wait_turn", "lock", "close_tts", "drop_close"} :
        [worker EXCEPT !.pc = pc] \in WorkerRec
  BY <1>2 DEF WorkerRec
<1>8. ASSUME NEW ending \in BOOLEAN, DropByWorker(ending)
      PROVE  worker' \in WorkerRec /\ push' \in PushRec
  <2>1. push.tts \in Nat
    BY <1>2 DEF PushRec
  <2> QED BY <1>2, <1>3, <1>5, <1>8, <2>1 DEF DropByWorker, WorkerRec
<1>9. ASSUME NEW id \in Nat, CloseByWorker(id) \/ EndTail(id)
      PROVE  worker' \in WorkerRec /\ push' \in PushRec
  <2>1. CASE CloseByWorker(id)
    BY <1>4, <1>5, <2>1 DEF CloseByWorker
  <2>2. CASE EndTail(id) /\ push.tts # 0
    <3>1. PICK pc \in {"drain", "close_tts"} :
            worker' = [worker EXCEPT !.pc = pc, !.id = id, !.tts = push.tts]
      BY <2>2 DEF EndTail
    <3>2. worker' \in WorkerRec
      BY <1>2, <3>1 DEF WorkerRec, PushRec
    <3>3. push' \in PushRec
      BY <1>2, <1>5, <2>2 DEF EndTail
    <3> QED BY <3>2, <3>3
  <2> QED BY <1>9, <2>1, <2>2 DEF EndTail
<1>10. worker.id \in Nat /\ push.id \in Nat
  BY <1>2 DEF WorkerRec, PushRec
<1>11. /\ worker' \in WorkerRec /\ push' \in PushRec /\ seq' \in Nat
  <2>1. CASE WorkerStart \/ WorkerWaited \/ WorkerSent \/ WorkerDropAudio
    BY <1>2, <1>5, <1>6, <1>7, <2>1 DEF WorkerStart, WorkerWaited, WorkerSent, WorkerDropAudio
  <2>2. CASE WorkerLocked
    <3>1. CASE OpenPush
      <4>1. [push EXCEPT !.open = TRUE, !.id = seq + 1] \in PushRec /\ seq + 1 \in Nat
        <5>1. seq + 1 \in Nat
          BY <1>2
        <5>2. \A n \in Nat : [push EXCEPT !.open = TRUE, !.id = n] \in PushRec
          BY <1>2 DEF PushRec
        <5> QED BY <5>1, <5>2
      <4> QED BY <1>2, <1>5, <1>6, <3>1, <4>1 DEF OpenPush
    <3>2. CASE worker' = [worker EXCEPT !.pc = "wait_turn"] /\ UNCHANGED <<seq, push, log>>
      BY <1>2, <1>7, <3>2
    <3> QED BY <2>2, <3>1, <3>2 DEF WorkerLocked
  <2>3. ASSUME NEW ok \in BOOLEAN, WorkerConnected(ok)
        PROVE  worker' \in WorkerRec /\ push' \in PushRec /\ seq' \in Nat
    <3>1. [push EXCEPT !.tts = worker.id, !.audio = worker.id] \in PushRec
      BY <1>2, <1>10 DEF PushRec
    <3> QED BY <1>2, <1>5, <2>3, <3>1 DEF WorkerConnected
  <2>4. CASE WorkerChat
    BY <1>2, <1>6, <2>4 DEF WorkerChat
  <2>5. CASE WorkerSendFailed
    BY <1>2, <1>5, <1>8, <2>5 DEF WorkerSendFailed
  <2>6. CASE WorkerEndEvent
    BY <1>2, <1>6, <1>9, <1>10, <2>6 DEF WorkerEndEvent
  <2>7. CASE WorkerEnded
    BY <1>2, <1>9, <1>10, <2>7 DEF WorkerEnded
  <2>8. CASE WorkerEndFailed
    BY <1>2, <1>8, <2>8 DEF WorkerEndFailed
  <2>9. CASE WorkerDrained
    BY <1>2, <1>5, <1>7, <1>9, <1>10, <2>9 DEF WorkerDrained
  <2>10. CASE WorkerClosedTts
    BY <1>2, <1>4, <1>5, <1>10, <2>10 DEF WorkerClosedTts
  <2>11. CASE WorkerDropClose
    BY <1>2, <1>5, <1>9, <1>10, <2>11 DEF WorkerDropClose
  <2> QED BY <2>1, <2>2, <2>3, <2>4, <2>5, <2>6, <2>7, <2>8, <2>9, <2>10, <2>11 DEF WorkerStep
<1> QED BY <1>1, <1>11 DEF Typed

-----------------------------------------------------------------------------
\* A step of a user task that leaves the turns alone.
LEMMA UserCalm ==
  ASSUME Inv, NEW p \in UserTasks, NEW u \in UserRec, user' = [user EXCEPT ![p] = u], Sender(p, u),
         UNCHANGED <<turn, activeTurn, seq, activeId, worker, closer, closing, closed>>,
         push' \in PushRec
  PROVE  Inv'
<1>1. Typed'
  BY DEF Inv, Typed
<1>2. OneTurn' /\ Winding'
  BY DEF Inv, OneTurn, Winding, Wound, Running
<1>3. OneSender'
  BY DEF Inv, Typed, OneSender, Sender, Running
<1> QED BY <1>1, <1>2, <1>3 DEF Inv

\* A step that none of the turns, the user's tasks and the callers of close_all takes part in.
LEMMA Calm ==
  ASSUME Inv, Typed', UNCHANGED <<turn, activeTurn, user, closer, closing, closed>>
  PROVE  Inv'
BY DEF Inv, OneTurn, OneSender, Sender, Winding, Wound, Running

LEMMA UserKeeps ==
  ASSUME Inv, NEW p \in UserTasks,
         \/ p = "input" /\ SendCmd
         \/ SendAbandon(p)
         \/ UserDropAudio(p)
         \/ \E op \in {"cancel", "partial", "final"} : UserOp(p, op)
  PROVE  Inv'
<1> USE DEF turnVars, pushVars, closeVars
<1>1. /\ user[p] \in UserRec /\ push \in PushRec /\ NoOp \in UserRec /\ Sender(p, user[p])
      /\ activeTurn \in 0..MaxTurns /\ activeId \in Nat
  BY BridgeAssumption DEF Inv, Typed, NoOp, UserRec, OneSender
<1>2. CASE p = "input" /\ SendCmd
  <2> DEFINE u == [NoOp EXCEPT !.pc = "send_lock", !.op = "send"]
  <2>1. u \in UserRec /\ Sender(p, u)
    BY <1>1, <1>2 DEF NoOp, UserRec, Sender
  <2>2. user' = [user EXCEPT ![p] = u]
    BY <1>2 DEF SendCmd, Queued
  <2> QED BY <1>1, <1>2, <2>1, <2>2, UserCalm DEF SendCmd
<1>3. CASE SendAbandon(p)
  <2>1. Sender(p, NoOp)
    BY DEF Sender, NoOp
  <2> QED BY <1>1, <1>3, <2>1, UserCalm DEF SendAbandon
<1>4. CASE UserDropAudio(p)
  <2> DEFINE u == [user[p] EXCEPT !.pc = "drop_close"]
  <2>1. u \in UserRec /\ Sender(p, u) /\ user' = [user EXCEPT ![p] = u]
    BY <1>1, <1>4 DEF UserDropAudio, UserRec, Sender
  <2> QED BY <1>1, <1>4, <2>1, UserCalm DEF UserDropAudio
<1>5. ASSUME NEW op \in {"cancel", "partial", "final"}, UserOp(p, op) PROVE Inv'
  <2> DEFINE t   == IF Running(activeTurn) THEN activeTurn ELSE 0
             pid == IF push.open /\ op # "final" THEN push.id ELSE 0
             u == [NoOp EXCEPT !.pc = IF t # 0 THEN "cancel_lock" ELSE "cut_lock", !.op = op,
                               !.turn = t, !.id = IF t # 0 THEN activeId ELSE 0, !.push = pid]
  <2>1. t \in 0..MaxTurns /\ pid \in Nat
    BY <1>1, BridgeAssumption DEF PushRec
  <2>2. u \in UserRec /\ Sender(p, u)
    BY <1>1, <2>1 DEF UserRec, NoOp, Sender
  <2>3. user' = [user EXCEPT ![p] = u]
    BY <1>5 DEF UserOp, Queued
  <2> QED BY <1>1, <1>5, <2>2, <2>3, UserCalm DEF UserOp
<1> QED BY <1>2, <1>3, <1>4, <1>5

\* The task of a turn: it ends, and a cancellation it heard is not forgotten.
LEMMA TurnKeeps ==
  ASSUME Inv, NEW t \in Tasks, TurnStep(t)
  PROVE  Inv'
<1> USE DEF turnVars, pushVars, closeVars
<1>1. /\ UNCHANGED <<activeTurn, push, user, worker, closer, closing, closed>>
      /\ seq' \in Nat /\ activeId' \in Nat
  BY DEF TurnStep, TurnBegin, TurnNeverRan, TurnUnwind, TurnEnd, Inv, Typed
<1>2. /\ turn' \in [Tasks -> TurnRec] /\ \A o \in Tasks \ {t} : turn'[o] = turn[o]
      /\ turn'[t].pc \in {"running", "cleanup", "done"}
      /\ Running(t) /\ (turn'[t].pc = "running" => turn[t].pc = "created" /\ ~turn[t].cancel)
      /\ turn'[t].pc # "done" => turn'[t].cancel = turn[t].cancel
  <2>1. turn[t] \in TurnRec /\ turn \in [Tasks -> TurnRec] /\ seq + 1 \in Nat /\ t # 0
    BY DEF Inv, Typed, Tasks
  <2>2. PICK r \in TurnRec : /\ turn' = [turn EXCEPT ![t] = r]
                             /\ r.pc \in {"running", "cleanup", "done"}
                             /\ r.pc = "running" => turn[t].pc = "created" /\ ~turn[t].cancel
                             /\ r.pc # "done" => r.cancel = turn[t].cancel
    <3>1. CASE TurnBegin(t) /\ ~gone
      <4> DEFINE r == [turn[t] EXCEPT !.pc = "running", !.id = seq + 1]
      <4>1. \A n \in Nat : [turn[t] EXCEPT !.pc = "running", !.id = n] \in TurnRec
        BY <2>1 DEF TurnRec
      <4>2. r \in TurnRec /\ r.pc = "running" /\ r.cancel = turn[t].cancel
        BY <2>1, <4>1 DEF TurnRec
      <4>3. turn' = [turn EXCEPT ![t] = r] /\ turn[t].pc = "created" /\ ~turn[t].cancel
        BY <2>1, <3>1 DEF TurnBegin
      <4> QED BY <4>2, <4>3
    <3>2. CASE TurnUnwind(t)
      <4> DEFINE r == [turn[t] EXCEPT !.pc = "cleanup"]
      <4>1. r \in TurnRec /\ r.pc = "cleanup" /\ r.cancel = turn[t].cancel
        BY <2>1 DEF TurnRec
      <4>2. turn' = [turn EXCEPT ![t] = r]
        BY <2>1, <3>2 DEF TurnUnwind
      <4> QED BY <4>1, <4>2
    <3>3. CASE turn' = [turn EXCEPT ![t] = Done]
      <4>1. Done \in TurnRec /\ Done.pc = "done"
        BY DEF Done, TurnRec
      <4> QED BY <3>3, <4>1
    <3> QED BY <3>1, <3>2, <3>3 DEF TurnStep, TurnBegin, TurnNeverRan, TurnEnd
  <2>3. Running(t)
    BY <2>1 DEF Running, TurnStep, TurnBegin, TurnNeverRan, TurnUnwind, TurnEnd
  <2> QED BY <2>1, <2>2, <2>3
<1>3. \A o \in Tasks : Running(o)' => Running(o)
  BY <1>2 DEF Running, Tasks
<1>4. Typed'
  BY <1>1, <1>2 DEF Inv, Typed
<1>5. OneTurn'
  BY <1>1, <1>3 DEF Inv, OneTurn
<1>6. OneSender'
  <2>1. Running(activeTurn)' => Running(activeTurn)
    BY <1>1, <1>3 DEF Running, Inv, Typed, Tasks
  <2> QED BY <1>1, <2>1 DEF Inv, OneSender, Sender
<1>7. Winding'
  <2>1. Wound => Wound'
    BY <1>2 DEF Wound, Running, Tasks
  <2>2. \A o \in Tasks : Running(o)' /\ turn[o].cancel => turn'[o].cancel
    BY <1>2 DEF Running
  <2> QED BY <1>1, <1>3, <2>1, <2>2 DEF Inv, Winding
<1> QED BY <1>4, <1>5, <1>6, <1>7 DEF Inv

\* The end of a cut: where `send` creates its turn, unless the session began to close.
LEMMA EndCutKeeps ==
  ASSUME Inv, NEW p \in UserTasks, NEW id \in Nat, EndCut(p, id),
         user[p].op = "send" => ~Running(activeTurn),
         UNCHANGED <<activeId, seq, worker, closer, closing, closed>>
  PROVE  Inv'
<1>1. /\ NoOp \in UserRec /\ user' = [user EXCEPT ![p] = NoOp] /\ push' \in PushRec
      /\ user' \in [UserTasks -> UserRec] /\ user'[p] = NoOp
      /\ \A q \in UserTasks \ {p} : user'[q] = user[q]
  <2>1. NoOp \in UserRec
    BY BridgeAssumption DEF NoOp, UserRec
  <2>2. push' \in PushRec
    BY DEF EndCut, PushClosed, Inv, Typed, PushRec
  <2> QED BY <2>1, <2>2 DEF EndCut, Inv, Typed
<1>2. \A q \in UserTasks : Sender(q, user[q])
  BY DEF Inv, OneSender
<1>3. CASE MayStart(p)
  <2>1. ~closing /\ user[p].op = "send" /\ p = "input" /\ ~Running(activeTurn)
    BY <1>2, <1>3 DEF MayStart, Sender
  <2>2. PICK t \in Tasks : /\ IsNext(t) /\ turn' = [turn EXCEPT ![t].pc = "created"]
                           /\ activeTurn' = t
    BY <1>3 DEF EndCut
  <2>3. turn' \in [Tasks -> TurnRec] /\ \A o \in Tasks \ {t} : turn'[o] = turn[o]
    BY <2>2 DEF Inv, Typed, TurnRec
  <2>4. Typed'
    BY <1>1, <2>2, <2>3 DEF Inv, Typed, Tasks
  <2>5. OneTurn'
    BY <2>1, <2>2, <2>3 DEF Inv, OneTurn, Running
  <2>6. OneSender'
    <3> SUFFICES ASSUME NEW q \in UserTasks PROVE Sender(q, user[q])'
      BY DEF OneSender
    <3>1. user'[q].op # "send" /\ user'[q].pc \notin {"send_lock", "send_wait"}
      BY <1>1, <1>2, <2>1 DEF Sender, NoOp
    <3> QED BY <3>1 DEF Sender
  <2>7. Winding'
    BY <2>1 DEF Inv, Typed, Winding
  <2> QED BY <2>4, <2>5, <2>6, <2>7 DEF Inv
<1>4. CASE ~MayStart(p)
  <2>1. /\ UNCHANGED turn /\ activeTurn' \in {0, activeTurn}
        /\ activeTurn' # activeTurn => ~Running(activeTurn)
    BY <1>4, BridgeAssumption DEF EndCut, Cleared
  <2>2. Typed'
    BY <1>1, <2>1, BridgeAssumption DEF Inv, Typed
  <2>3. OneTurn' /\ Winding'
    BY <2>1 DEF Inv, OneTurn, Running, Winding, Wound
  <2>4. OneSender'
    <3> SUFFICES ASSUME NEW q \in UserTasks PROVE Sender(q, user[q])'
      BY DEF OneSender
    <3>1. Running(activeTurn)' => Running(activeTurn) /\ activeTurn' = activeTurn
      BY <2>1 DEF Running
    <3>2. CASE q = p
      BY <1>1, <3>2 DEF Sender, NoOp
    <3>3. CASE q # p
      BY <1>1, <1>2, <3>1, <3>3 DEF Sender
    <3> QED BY <3>2, <3>3
  <2> QED BY <2>2, <2>3, <2>4 DEF Inv
<1> QED BY <1>3, <1>4

\* A turn is cancelled: it is told so, nothing else changes.
LEMMA CancelsTurn ==
  ASSUME Inv, NEW t \in 0..MaxTurns, turn' = Cancelled(t)
  PROVE  /\ turn' \in [Tasks -> TurnRec]
         /\ \A o \in Tasks : /\ turn'[o].pc = turn[o].pc /\ (Running(o)' <=> Running(o))
                             /\ turn[o].cancel => turn'[o].cancel
                             /\ o = t /\ Running(o) => turn'[o].cancel
         /\ Wound => Wound'
<1>1. turn \in [Tasks -> TurnRec]
  BY DEF Inv, Typed
<1>2. CASE Running(t)
  <2>1. t \in Tasks /\ turn' = [turn EXCEPT ![t].cancel = TRUE]
    BY <1>2, BridgeAssumption DEF Running, Cancelled, Tasks
  <2>2. /\ [turn[t] EXCEPT !.cancel = TRUE] \in TurnRec
        /\ [turn[t] EXCEPT !.cancel = TRUE].pc = turn[t].pc
        /\ [turn[t] EXCEPT !.cancel = TRUE].cancel
    BY <1>1, <2>1 DEF TurnRec
  <2>3. /\ turn' \in [Tasks -> TurnRec]
        /\ \A o \in Tasks : /\ turn'[o].pc = turn[o].pc
                            /\ turn[o].cancel => turn'[o].cancel
                            /\ o = t => turn'[o].cancel
    BY <1>1, <2>1, <2>2
  <2> QED BY <2>3 DEF Wound, Running
<1>3. CASE ~Running(t)
  BY <1>1, <1>3 DEF Cancelled, Wound, Running
<1> QED BY <1>2, <1>3

LEMMA CancelKeeps ==
  ASSUME Inv, NEW p \in UserTasks, SendReplace(p) \/ CancelHeld(p) \/ CancelDone(p)
  PROVE  Inv'
<1> USE DEF turnVars, pushVars, closeVars
<1>1. /\ user[p] \in UserRec /\ push \in PushRec /\ NoOp \in UserRec /\ Sender(p, user[p])
      /\ activeTurn \in 0..MaxTurns /\ user \in [UserTasks -> UserRec]
      /\ user[p].turn \in 0..MaxTurns /\ Sender(p, NoOp)
      /\ \A q \in UserTasks : Sender(q, user[q])
  BY BridgeAssumption DEF Inv, Typed, NoOp, UserRec, OneSender, Sender
<1>2. UNCHANGED <<activeId, seq, push, worker, closer, closing, closed>>
  BY DEF SendReplace, CancelHeld, CancelDone
<1>3. ASSUME AfterCancel(p), user[p].op # "send"
      PROVE  \E u \in UserRec : user' = [user EXCEPT ![p] = u] /\ u.op # "send"
                                 /\ u.pc \notin {"send_lock", "send_wait"}
  <2> DEFINE u == [user[p] EXCEPT !.pc = "cut_lock"]
  <2>1. u \in UserRec /\ u.op # "send" /\ u.pc = "cut_lock"
    BY <1>1, <1>3 DEF UserRec
  <2>2. user' = [user EXCEPT ![p] = u] \/ user' = [user EXCEPT ![p] = NoOp]
    BY <1>1, <1>3 DEF AfterCancel
  <2>3. NoOp \in UserRec /\ NoOp.op # "send" /\ NoOp.pc \notin {"send_lock", "send_wait"}
    BY <1>1 DEF NoOp
  <2> QED BY <2>1, <2>2, <2>3
<1>4. ASSUME NEW t \in 0..MaxTurns, turn' = Cancelled(t), UNCHANGED activeTurn,
             NEW u \in UserRec, user' = [user EXCEPT ![p] = u], Sender(p, u)
      PROVE  Inv'
  <2>1. /\ turn' \in [Tasks -> TurnRec]
        /\ \A o \in Tasks : /\ turn'[o].pc = turn[o].pc /\ (Running(o)' <=> Running(o))
                            /\ turn[o].cancel => turn'[o].cancel
        /\ Wound => Wound'
    BY <1>4, CancelsTurn
  <2>2. Typed'
    BY <1>1, <1>2, <1>4, <2>1 DEF Inv, Typed
  <2>3. Running(activeTurn)' <=> Running(activeTurn)
    BY <1>1, <1>4, <2>1 DEF Running, Tasks
  <2>4. OneTurn' /\ Winding'
    BY <1>2, <1>4, <2>1 DEF Inv, OneTurn, Winding
  <2>5. OneSender'
    <3> SUFFICES ASSUME NEW q \in UserTasks PROVE Sender(q, user[q])'
      BY DEF OneSender
    <3>1. user'[q] = IF q = p THEN u ELSE user[q]
      BY <1>1, <1>4
    <3> QED BY <1>1, <1>4, <2>3, <3>1 DEF Sender
  <2> QED BY <2>2, <2>4, <2>5 DEF Inv
<1>5. CASE SendReplace(p)
  <2> DEFINE u == [user[p] EXCEPT !.pc = "send_wait", !.turn = activeTurn]
  <2>1. u \in UserRec /\ Sender(p, u)
    BY <1>1, <1>5 DEF SendReplace, UserRec, Sender
  <2>2. user' = [user EXCEPT ![p] = u]
    BY <1>1, <1>5 DEF SendReplace
  <2> QED BY <1>1, <1>4, <1>5, <2>1, <2>2 DEF SendReplace
<1>6. CASE CancelHeld(p) /\ Running(user[p].turn)
  <2> DEFINE u == [user[p] EXCEPT !.pc = "cancel_wait"]
  <2>1. u \in UserRec /\ Sender(p, u)
    BY <1>1, <1>6 DEF CancelHeld, UserRec, Sender
  <2>2. user' = [user EXCEPT ![p] = u]
    BY <1>1, <1>6 DEF CancelHeld
  <2> QED BY <1>1, <1>4, <1>6, <2>1, <2>2 DEF CancelHeld
<1>7. CASE CancelHeld(p) /\ ~Running(user[p].turn)
  <2>1. user[p].op # "send" /\ AfterCancel(p) /\ UNCHANGED <<turn, activeTurn>>
    BY <1>1, <1>7 DEF CancelHeld, Sender
  <2>2. PICK u \in UserRec : user' = [user EXCEPT ![p] = u] /\ u.op # "send"
                             /\ u.pc \notin {"send_lock", "send_wait"}
    BY <1>3, <2>1
  <2>3. Sender(p, u)
    BY <2>2 DEF Sender
  <2> QED BY <1>1, <1>2, <2>1, <2>2, <2>3, UserCalm
<1>8. CASE CancelDone(p)
  <2>1. user[p].op # "send" /\ ~Running(user[p].turn) /\ UNCHANGED turn
        /\ activeTurn' = Cleared(user[p].turn)
    BY <1>1, <1>8 DEF CancelDone, TurnOver, Sender
  <2>2. PICK u \in UserRec : user' = [user EXCEPT ![p] = u] /\ u.op # "send"
                             /\ u.pc \notin {"send_lock", "send_wait"}
    <3>1. CASE AfterCancel(p)
      BY <1>3, <2>1, <3>1
    <3>2. CASE user' = [user EXCEPT ![p] = NoOp]
      <4>1. NoOp.op # "send" /\ NoOp.pc \notin {"send_lock", "send_wait"}
        BY DEF NoOp
      <4> QED BY <1>1, <3>2, <4>1
    <3> QED BY <1>8, <3>1, <3>2 DEF CancelDone
  <2>3. /\ activeTurn' \in {0, activeTurn}
        /\ activeTurn' # activeTurn => ~Running(activeTurn)
    BY <2>1 DEF Cleared
  <2>4. Typed'
    BY <1>1, <1>2, <2>1, <2>2, <2>3, BridgeAssumption DEF Inv, Typed
  <2>5. OneTurn' /\ Winding'
    BY <1>2, <2>1, <2>3 DEF Inv, OneTurn, Running, Winding, Wound
  <2>6. OneSender'
    <3> SUFFICES ASSUME NEW q \in UserTasks PROVE Sender(q, user[q])'
      BY DEF OneSender
    <3>1. Running(activeTurn)' => Running(activeTurn) /\ activeTurn' = activeTurn
      BY <2>1, <2>3 DEF Running
    <3>2. user'[q] = IF q = p THEN u ELSE user[q]
      BY <1>1, <2>2
    <3> QED BY <1>1, <2>2, <3>1, <3>2 DEF Sender
  <2> QED BY <2>4, <2>5, <2>6 DEF Inv
<1> QED BY <1>5, <1>6, <1>7, <1>8

LEMMA CutKeeps ==
  ASSUME Inv, NEW p \in UserTasks, StartCut(p) \/ UserDropClose(p) \/ CutAbortDone(p)
  PROVE  Inv'
<1> USE DEF turnVars, pushVars, closeVars
<1>1. /\ user[p] \in UserRec /\ push \in PushRec /\ Sender(p, user[p])
      /\ activeTurn \in 0..MaxTurns /\ user \in [UserTasks -> UserRec]
      /\ user[p].turn \in 0..MaxTurns /\ user[p].push \in Nat /\ push.id \in Nat /\ push.tts \in Nat
      /\ \A q \in UserTasks : Sender(q, user[q])
  BY DEF Inv, Typed, UserRec, PushRec, OneSender
<1>2. UNCHANGED <<activeId, seq, worker, closer, closing, closed>>
  BY DEF StartCut, UserDropClose, CutAbortDone
<1>3. CASE StartCut(p)
  <2>1. user[p].op = "send" => ~Running(activeTurn)
    BY <1>1, <1>3 DEF StartCut, ReadyToCut, TurnOver, Sender, Running
  <2>2. CASE EndCut(p, 0) \/ EndCut(p, push.id)
    BY <1>1, <1>2, <2>1, <2>2, EndCutKeeps
  <2>3. CASE /\ user' = [user EXCEPT ![p].pc = IF push.tts # 0 THEN DropPc ELSE "cut_abort",
                                     ![p].push = push.id, ![p].tts = push.tts]
             /\ push' = IF push.tts # 0 THEN Dropped ELSE push
             /\ activeTurn' = IF user[p].op = "send" THEN Cleared(user[p].turn) ELSE activeTurn
             /\ UNCHANGED turn
    <3> DEFINE pc == IF push.tts # 0 THEN DropPc ELSE "cut_abort"
               u  == [user[p] EXCEPT !.pc = pc, !.push = push.id, !.tts = push.tts]
    <3>1. pc \in {"drop_audio", "drop_close", "cut_abort"}
      BY DEF DropPc
    <3>2. u \in UserRec /\ u.op = user[p].op /\ u.pc = pc
      BY <1>1, <3>1 DEF UserRec
    <3>3. user' = [user EXCEPT ![p] = u]
      BY <1>1, <2>3
    <3>4. push' \in PushRec
      BY <1>1, <2>3 DEF Dropped, PushRec
    <3>5. /\ activeTurn' \in {0, activeTurn}
          /\ activeTurn' # activeTurn => ~Running(activeTurn)
      BY <2>1, <2>3 DEF Cleared
    <3>6. Typed'
      BY <1>1, <1>2, <2>3, <3>2, <3>3, <3>4, <3>5, BridgeAssumption DEF Inv, Typed
    <3>7. OneTurn' /\ Winding'
      BY <1>2, <2>3, <3>5 DEF Inv, OneTurn, Running, Winding, Wound
    <3>8. OneSender'
      <4> SUFFICES ASSUME NEW q \in UserTasks PROVE Sender(q, user[q])'
        BY DEF OneSender
      <4>1. Running(activeTurn)' => Running(activeTurn) /\ activeTurn' = activeTurn
        BY <2>3, <3>5 DEF Running
      <4>2. CASE q = p
        <5>1. user'[q] = u
          BY <1>1, <3>3, <4>2
        <5> QED BY <1>1, <2>1, <3>1, <3>2, <4>1, <4>2, <5>1 DEF Sender
      <4>3. CASE q # p
        <5>1. user'[q] = user[q]
          BY <1>1, <3>3, <4>3
        <5> QED BY <1>1, <4>1, <5>1 DEF Sender
      <4> QED BY <4>2, <4>3
    <3> QED BY <3>6, <3>7, <3>8 DEF Inv
  <2> QED BY <1>3, <2>2, <2>3 DEF StartCut
<1>4. CASE UserDropClose(p) /\ own
  <2> DEFINE u == [user[p] EXCEPT !.pc = "cut_abort"]
  <2>1. u \in UserRec /\ Sender(p, u)
    BY <1>1, <1>4 DEF UserDropClose, UserRec, Sender
  <2>2. user' = [user EXCEPT ![p] = u] /\ UNCHANGED <<turn, activeTurn, push>>
    BY <1>1, <1>4 DEF UserDropClose
  <2> QED BY <1>1, <1>2, <2>1, <2>2, UserCalm
<1>5. CASE (UserDropClose(p) /\ ~own) \/ CutAbortDone(p)
  <2>1. EndCut(p, user[p].push) /\ (user[p].op = "send" => ~Running(activeTurn))
    BY <1>1, <1>5 DEF UserDropClose, CutAbortDone, Sender
  <2> QED BY <1>1, <1>2, <2>1, EndCutKeeps
<1> QED BY <1>3, <1>4, <1>5

-----------------------------------------------------------------------------
(* close_all.                                                              *)

\* A caller of close_all goes on.
LEMMA CloserMoves ==
  ASSUME Inv, NEW c \in Closers, NEW pc \in {"lock", "turn", "worker", "push_tts", "tasks", "done"},
         NEW t \in 0..MaxTurns, closer' = [closer EXCEPT ![c] = [pc |-> pc, turn |-> t]]
  PROVE  /\ closer' \in [Closers -> CloserRec] /\ closer'[c].pc = pc /\ closer'[c].turn = t
         /\ \A d \in Closers \ {c} : closer'[d] = closer[d]
BY DEF Inv, Typed, CloserRec

LEMMA CloseKeeps ==
  ASSUME Inv, NEW c \in Closers, CloseCall(c) \/ CloseStep(c)
  PROVE  Inv'
<1> USE DEF turnVars, pushVars, closeVars
<1>1. /\ closer[c] \in CloserRec /\ closer[c].turn \in 0..MaxTurns
      /\ closer \in [Closers -> CloserRec]
      /\ push \in PushRec /\ activeTurn \in 0..MaxTurns /\ turn \in [Tasks -> TurnRec]
      /\ user \in [UserTasks -> UserRec]
  BY DEF Inv, Typed, CloserRec
<1>2. UNCHANGED <<activeTurn, activeId, seq>>
  BY DEF CloseCall, CloseStep, CloseStart, CloseTurn, CloseWorker, ClosePushTts, CloseFinish
<1>3. ASSUME NEW pc \in {"lock", "turn", "worker", "push_tts", "tasks", "done"}, Closer(c, pc)
      PROVE  closer' = [closer EXCEPT ![c] = [pc |-> pc, turn |-> closer[c].turn]]
  <2>1. [closer[c] EXCEPT !.pc = pc] = [pc |-> pc, turn |-> closer[c].turn]
    BY <1>1 DEF CloserRec
  <2> QED BY <1>1, <1>3, <2>1 DEF Closer
\* A step of close_all that leaves the turns and the user's tasks alone.
<1>4. ASSUME NEW pc \in {"lock", "worker", "push_tts", "tasks", "done"}, Closer(c, pc),
             UNCHANGED <<turn, user>>, push' \in PushRec, worker' \in WorkerRec,
             closing' \in BOOLEAN, closed' \in BOOLEAN, closing => closing', closing',
             closed' => closed \/ Wound,
             pc \in {"worker", "push_tts", "tasks"} => Wound
      PROVE  Inv'
  <2>1. /\ closer' \in [Closers -> CloserRec] /\ closer'[c].pc = pc
        /\ \A d \in Closers \ {c} : closer'[d] = closer[d]
    BY <1>1, <1>3, <1>4, CloserMoves
  <2>2. Typed'
    BY <1>2, <1>4, <2>1 DEF Inv, Typed
  <2>3. OneTurn' /\ OneSender'
    BY <1>2, <1>4 DEF Inv, OneTurn, OneSender, Sender, Running
  <2>4. (Wound <=> Wound') /\ \A t \in Tasks : Running(t)' <=> Running(t)
    BY <1>4 DEF Wound, Running
  <2>5. Winding'
    BY <1>4, <2>1, <2>4 DEF Inv, Winding
  <2> QED BY <2>2, <2>3, <2>5 DEF Inv
<1>5. CASE CloseCall(c)
  <2>1. closing' = TRUE /\ closing' \in BOOLEAN /\ closed' \in BOOLEAN
    BY <1>5, Zenon DEF CloseCall, Inv, Typed
  <2> QED BY <1>4, <1>5, <2>1 DEF CloseCall, Inv, Typed
<1>6. CASE CloseStart(c) /\ closed
  <2>1. closing
    BY <1>6 DEF Inv, Winding
  <2> QED BY <1>4, <1>6, <2>1 DEF CloseStart, Inv, Typed
<1>7. CASE CloseStart(c) /\ ~closed
  <2>1. /\ closer' = [closer EXCEPT ![c] = [pc |-> "turn", turn |-> activeTurn]]
        /\ turn' = Cancelled(activeTurn) /\ closer[c].pc = "lock"
        /\ UNCHANGED <<user, push, worker, closing, closed>>
    BY <1>7 DEF CloseStart, Captured
  <2>2. /\ closer' \in [Closers -> CloserRec]
        /\ closer'[c].pc = "turn" /\ closer'[c].turn = activeTurn
        /\ \A d \in Closers \ {c} : closer'[d] = closer[d]
    BY <1>1, <2>1, CloserMoves
  <2>3. /\ turn' \in [Tasks -> TurnRec]
        /\ \A o \in Tasks : /\ turn'[o].pc = turn[o].pc /\ (Running(o)' <=> Running(o))
                            /\ turn[o].cancel => turn'[o].cancel
                            /\ o = activeTurn /\ Running(o) => turn'[o].cancel
        /\ Wound => Wound'
    BY <1>1, <2>1, CancelsTurn
  <2>4. Typed'
    BY <1>2, <2>1, <2>2, <2>3 DEF Inv, Typed
  <2>5. OneTurn'
    BY <1>2, <2>3 DEF Inv, OneTurn
  <2>6. OneSender'
    <3>1. Running(activeTurn)' <=> Running(activeTurn)
      BY <1>1, <1>2, <2>3 DEF Running, Tasks
    <3> QED BY <1>2, <2>1, <3>1 DEF Inv, OneSender, Sender
  <2>7. Winding'
    <3>1. closing /\ \A t \in Tasks : Running(t) => t = activeTurn
      BY <2>1 DEF Inv, Winding, OneTurn
    <3>2. ~closed'
      BY <1>7, <2>1
    <3> QED BY <2>1, <2>2, <2>3, <3>1, <3>2 DEF Inv, Winding
  <2> QED BY <2>4, <2>5, <2>6, <2>7 DEF Inv
<1>8. CASE CloseTurn(c)
  <2>1. closing /\ \A t \in Tasks : Running(t) => t = closer[c].turn /\ turn[t].cancel
    BY <1>8 DEF CloseTurn, Inv, Winding
  <2>2. ~Running(closer[c].turn) \/ (closer[c].turn # 0 /\ turn[closer[c].turn].pc = "cleanup")
    BY <1>8 DEF CloseTurn
  <2>3. Wound
    <3> SUFFICES ASSUME NEW t \in Tasks
                 PROVE  \/ turn[t].pc \in {"none", "done"}
                        \/ turn[t].pc = "cleanup" /\ turn[t].cancel
      BY DEF Wound
    <3>1. CASE Running(t)
      BY <2>1, <2>2, <3>1
    <3>2. CASE ~Running(t)
      BY <1>1, <3>2 DEF Running, Tasks, TurnRec
    <3> QED BY <3>1, <3>2
  <2>4. [Getting EXCEPT !.pc = "dead"] \in WorkerRec
    BY DEF Getting, WorkerRec
  <2> QED BY <1>4, <1>8, <2>1, <2>3, <2>4 DEF CloseTurn, Inv, Typed
<1>9. CASE CloseWorker(c)
  <2>1. closing /\ Wound
    BY <1>9 DEF CloseWorker, Inv, Winding
  <2> QED BY <1>4, <1>9, <2>1 DEF CloseWorker, Inv, Typed
<1>10. CASE CloseFinish(c)
  <2>1. closing /\ Wound /\ closed' \in BOOLEAN
    BY <1>10, Zenon DEF CloseFinish, Inv, Winding
  <2> QED BY <1>4, <1>10, <2>1 DEF CloseFinish, Inv, Typed
<1>11. CASE ClosePushTts(c)
  <2> DEFINE dead == [NoOp EXCEPT !.pc = "dead"]
  <2>1. closing /\ Wound /\ closer[c].pc = "push_tts"
    BY <1>11 DEF ClosePushTts, Inv, Winding
  <2>2. dead \in UserRec /\ dead.op # "send" /\ dead.pc = "dead"
    BY BridgeAssumption DEF NoOp, UserRec
  <2>3. push' \in PushRec
    BY <1>1, <1>11 DEF ClosePushTts, PushClosed, PushRec
  <2>4. user' = [p \in UserTasks |-> dead] /\ UNCHANGED <<turn, worker, closing, closed>>
    BY <1>11 DEF ClosePushTts
  <2>5. /\ closer' \in [Closers -> CloserRec] /\ closer'[c].pc = "tasks"
        /\ \A d \in Closers \ {c} : closer'[d] = closer[d]
    BY <1>1, <1>3, <1>11, CloserMoves DEF ClosePushTts
  <2>6. Typed'
    BY <1>2, <2>2, <2>3, <2>4, <2>5 DEF Inv, Typed
  <2>7. OneTurn' /\ OneSender'
    <3>1. OneTurn'
      BY <1>2, <2>4 DEF Inv, OneTurn, Running
    <3>2. OneSender'
      BY <2>2, <2>4 DEF OneSender, Sender
    <3> QED BY <3>1, <3>2
  <2>8. (Wound <=> Wound') /\ \A t \in Tasks : Running(t)' <=> Running(t)
    BY <2>4 DEF Wound, Running
  <2>9. Winding'
    BY <2>1, <2>4, <2>5, <2>8 DEF Inv, Winding
  <2> QED BY <2>6, <2>7, <2>9 DEF Inv
<1> QED BY <1>5, <1>6, <1>7, <1>8, <1>9, <1>10, <1>11 DEF CloseStep

-----------------------------------------------------------------------------
LEMMA InvNext == Inv /\ [Next]_vars => Inv'
<1> SUFFICES ASSUME Inv, [Next]_vars PROVE Inv'
  OBVIOUS
<1> USE DEF turnVars, pushVars, closeVars
<1>1. CASE UNCHANGED vars
  BY <1>1, Calm DEF vars, Inv, Typed
<1>2. ASSUME NEW t \in Tasks, TurnStep(t) PROVE Inv'
  BY <1>2, TurnKeeps
<1>3. ASSUME NEW p \in UserTasks, UserStep(p) PROVE Inv'
  BY <1>3, UserKeeps, CancelKeeps, CutKeeps DEF UserStep
<1>4. CASE WorkerStep
  BY <1>4, WorkerTyped, Calm DEF Inv
<1>5. ASSUME NEW c \in Closers, CloseCall(c) \/ CloseStep(c) PROVE Inv'
  BY <1>5, CloseKeeps
<1>6. CASE \/ SendCmd \/ UserOp("input", "cancel") \/ UserOp("stt", "partial")
           \/ UserOp("stt", "final")
  BY <1>6, UserKeeps DEF UserTasks
<1>7. CASE \/ \E kind \in {"turn_start", "chat", "turn_end"} : PushEvent(kind)
           \/ \E id \in Ids : AudioFrame(id) \/ AudioEnd(id)
           \/ ClientLeaves
  <2>1. UNCHANGED <<turn, activeTurn, activeId, seq, push, user, worker, closer, closing, closed>>
    BY <1>7 DEF PushEvent, AudioFrame, AudioEnd, ClientLeaves
  <2> QED BY <2>1, Calm DEF Inv, Typed
<1> QED BY <1>1, <1>2, <1>3, <1>4, <1>5, <1>6, <1>7 DEF Next, Environment

-----------------------------------------------------------------------------
(* The audio of pushes that are not of the own session_key.                *)

Silent == \A i \in Ids : audio[i] # "live"
Cutting == {"drop_audio", "drop_close"}

\* Audio plays for the open push alone, whose stream and task the bridge holds.
Playing ==
  /\ late = {}
  /\ \A i \in Ids : audio[i] = "live" => push.open /\ push.id = i /\ push.tts = i /\ push.audio = i
  /\ push.tts # 0 => push.open /\ push.id = push.tts
  /\ push.id <= seq

\* The worker connects for that push, and ends or drops a stream that is silent.
AtWorker ==
  /\ worker.pc = "connect" => worker.id = push.id /\ push.tts = 0
  /\ worker.pc = "drain" => push.tts \in {0, worker.tts}
  /\ worker.pc = "close_tts" => Silent
  /\ worker.pc \in Cutting => push.tts = 0

\* A user's task that drops a stream has left its push none, and nobody opens another for it.
Cuts(u) ==
  /\ u.pc # "cut_abort"
  /\ u.pc \in Cutting =>
       u.push <= seq /\ (push.id = u.push => push.tts = 0 /\ worker.pc # "connect")
AtUser == \A p \in UserTasks : Cuts(user[p])

AtClose ==
  \A c \in Closers :
    /\ closer[c].pc \in {"worker", "push_tts", "tasks"} => worker.pc = "dead"
    /\ closer[c].pc \in {"push_tts", "tasks"} => Silent

Foreign ==
  /\ audio \in [Ids -> {"none", "live", "done"}]
  /\ ~own => Playing /\ AtWorker /\ AtUser /\ AtClose

LEMMA ForeignInit == Init => Foreign
<1> SUFFICES ASSUME Init PROVE Foreign
  OBVIOUS
<1>1. audio \in [Ids -> {"none", "live", "done"}]
  BY DEF Init
<1> QED BY <1>1 DEF Init, Foreign, Playing, AtWorker, AtUser, Cuts, AtClose, Getting, NoOp, Silent,
                    Cutting

\* A step that touches no push.
LEMMA ForeignCalm ==
  ASSUME Inv, Foreign, UNCHANGED <<push, audio, worker, late, own>>, seq' \in Nat, seq' >= seq,
         \A p \in UserTasks :
           /\ user'[p].pc = "cut_abort" => user[p].pc = "cut_abort"
           /\ user'[p].pc \in Cutting => user[p].pc \in Cutting /\ user'[p].push = user[p].push,
         \A c \in Closers :
           closer'[c].pc \in {"worker", "push_tts", "tasks"} => closer'[c].pc = closer[c].pc
  PROVE  Foreign'
<1>1. /\ seq \in Nat /\ push.id \in Nat /\ \A p \in UserTasks : user[p].push \in Nat
  BY DEF Inv, Typed, PushRec, UserRec
<1>2. Silent' <=> Silent
  BY DEF Silent
<1> SUFFICES ASSUME ~own PROVE Playing' /\ AtWorker' /\ AtUser' /\ AtClose'
  BY DEF Foreign
<1>3. Playing' /\ AtWorker'
  BY <1>1, <1>2 DEF Foreign, Playing, AtWorker
<1>4. AtUser'
  BY <1>1 DEF Foreign, AtUser, Cuts, Cutting
<1>5. AtClose'
  BY <1>2 DEF Foreign, AtClose
<1> QED BY <1>3, <1>4, <1>5

\* The audio of a push ends.
LEMMA ForeignAudio ==
  ASSUME Inv, Foreign, NEW id \in Ids, AudioFrame(id) \/ AudioEnd(id)
  PROVE  Foreign'
<1> USE DEF turnVars, pushVars, closeVars, envVars
<1>1. UNCHANGED <<push, tts, worker, user, closer, seq, own>>
  BY DEF AudioFrame, AudioEnd
<1>2. /\ audio' \in [Ids -> {"none", "live", "done"}]
      /\ \A i \in Ids : audio'[i] = "live" => audio[i] = "live"
  BY DEF AudioFrame, AudioEnd, Foreign
<1> SUFFICES ASSUME ~own PROVE Playing' /\ AtWorker' /\ AtUser' /\ AtClose'
  BY <1>1, <1>2 DEF Foreign
<1>3. Silent => Silent'
  BY <1>2 DEF Silent
<1>4. late' = {}
  BY DEF AudioFrame, AudioEnd, Foreign, Playing, PushIs
<1>5. Playing' /\ AtWorker'
  BY <1>1, <1>2, <1>3, <1>4 DEF Foreign, Playing, AtWorker
<1>6. AtUser' /\ AtClose'
  BY <1>1, <1>3 DEF Foreign, AtUser, Cuts, AtClose
<1> QED BY <1>5, <1>6

\* A stream is dropped: nothing plays any more.
LEMMA DropIsSilent ==
  ASSUME Inv, Foreign, ~own, push' = Dropped, audio' = DropAudio
  PROVE  /\ Silent' /\ audio' \in [Ids -> {"none", "live", "done"}]
         /\ push'.tts = 0 /\ push'.id = push.id
<1>1. audio' \in [Ids -> {"none", "live", "done"}]
  BY DEF DropAudio, Foreign
<1>2. Silent'
  <2> SUFFICES ASSUME NEW i \in Ids, audio'[i] = "live" PROVE FALSE
    BY DEF Silent
  <2>1. audio[i] = "live"
    BY DEF DropAudio, Foreign
  <2>2. push.audio = i /\ i # 0
    BY <2>1 DEF Foreign, Playing, Ids
  <2> QED BY <2>2 DEF DropAudio, Foreign
<1>3. push'.tts = 0 /\ push'.id = push.id
  BY DEF Dropped, Inv, Typed, PushRec
<1> QED BY <1>1, <1>2, <1>3

\* The end of a cut whose push has no stream.
LEMMA ForeignEndCut ==
  ASSUME Inv, Foreign, NEW p \in UserTasks, NEW id \in Nat, EndCut(p, id),
         ~own /\ push.id = id => push.tts = 0,
         UNCHANGED <<seq, audio, worker, closer, late, own>>
  PROVE  Foreign'
<1>1. /\ push \in PushRec /\ push' = PushClosed(id) /\ push'.id = push.id /\ push'.tts = push.tts
      /\ push'.audio = push.audio /\ push'.open \in {push.open, FALSE}
      /\ push'.open # push.open => push.id = id
  BY DEF EndCut, PushClosed, PushIs, Inv, Typed, PushRec
<1>2. user'[p] = NoOp /\ \A q \in UserTasks \ {p} : user'[q] = user[q]
  BY DEF EndCut, Inv, Typed
<1> SUFFICES ASSUME ~own PROVE Playing' /\ AtWorker' /\ AtUser' /\ AtClose'
  BY DEF Foreign
<1>3. Playing'
  BY <1>1 DEF Foreign, Playing, Ids
<1>4. AtWorker' /\ AtClose'
  BY <1>1 DEF Foreign, AtWorker, AtClose, Silent
<1>5. AtUser'
  <2> SUFFICES ASSUME NEW q \in UserTasks PROVE Cuts(user[q])'
    BY DEF AtUser
  <2>1. CASE q = p
    BY <1>2, <2>1 DEF Cuts, NoOp, Cutting
  <2>2. CASE q # p
    BY <1>1, <1>2, <2>2 DEF Foreign, AtUser, Cuts
  <2> QED BY <2>1, <2>2
<1> QED BY <1>3, <1>4, <1>5

LEMMA ForeignUser ==
  ASSUME Inv, Foreign, NEW p \in UserTasks, UserStep(p)
  PROVE  Foreign'
<1> USE DEF turnVars, pushVars, closeVars, envVars
<1>1. /\ user \in [UserTasks -> UserRec] /\ user[p] \in UserRec /\ push \in PushRec /\ seq \in Nat
      /\ user[p].push \in Nat /\ push.id \in Nat /\ push.tts \in Nat
  BY DEF Inv, Typed, UserRec, PushRec
<1>2. UNCHANGED <<seq, worker, closer, late, own>>
  BY DEF UserStep, SendAbandon, SendReplace, CancelHeld, CancelDone, StartCut, UserDropAudio,
         UserDropClose, CutAbortDone
<1>3. CASE SendAbandon(p) \/ SendReplace(p) \/ CancelHeld(p) \/ CancelDone(p) \/ UserDropAudio(p)
  <2>1. UNCHANGED <<push, audio>>
    BY <1>3 DEF SendAbandon, SendReplace, CancelHeld, CancelDone, UserDropAudio
  <2>2. \A q \in UserTasks \ {p} : user'[q] = user[q]
    BY <1>1, <1>3 DEF SendAbandon, SendReplace, CancelHeld, CancelDone, UserDropAudio, AfterCancel
  <2>3. \/ user'[p].pc \notin Cutting \cup {"cut_abort"}
        \/ /\ user[p].pc = "drop_audio" /\ user'[p].pc = "drop_close"
           /\ user'[p].push = user[p].push
    BY <1>1, <1>3 DEF SendAbandon, SendReplace, CancelHeld, CancelDone, UserDropAudio, AfterCancel,
                      NoOp, UserRec, Cutting
  <2> QED BY <1>1, <1>2, <2>1, <2>2, <2>3, ForeignCalm DEF Cutting
<1>4. CASE StartCut(p)
  <2>1. CASE (EndCut(p, 0) \/ (push.tts = 0 /\ EndCut(p, push.id))) /\ UNCHANGED audio
    <3>1. ~own /\ push.id = 0 => push.tts = 0
      BY DEF Foreign, Playing
    <3> QED BY <1>1, <1>2, <2>1, <3>1, ForeignEndCut
  <2>2. CASE own /\ UNCHANGED <<push, audio>>
    BY <1>2, <2>2 DEF Foreign
  <2>3. CASE own /\ audio' = DropAudio
    BY <1>2, <2>3 DEF Foreign, DropAudio
  <2>4. CASE /\ ~own /\ push.tts # 0 /\ push' = Dropped /\ audio' = DropAudio
             /\ user' = [user EXCEPT ![p].pc = DropPc, ![p].push = push.id, ![p].tts = push.tts]
    <3>1. /\ Silent' /\ audio' \in [Ids -> {"none", "live", "done"}]
          /\ push'.tts = 0 /\ push'.id = push.id
      BY <2>4, DropIsSilent
    <3>2. /\ user'[p].pc \in Cutting /\ user'[p].push = push.id
          /\ \A q \in UserTasks \ {p} : user'[q] = user[q]
      BY <1>1, <2>4 DEF DropPc, Cutting, UserRec
    <3>3. worker.pc # "connect"
      BY <2>4 DEF Foreign, AtWorker
    <3>4. Playing' /\ AtWorker' /\ AtClose'
      BY <1>2, <2>4, <3>1, <3>3 DEF Foreign, Playing, AtWorker, AtClose, Silent
    <3>5. AtUser'
      <4> SUFFICES ASSUME NEW q \in UserTasks PROVE Cuts(user[q])'
        BY DEF AtUser
      <4> QED BY <1>1, <1>2, <2>4, <3>1, <3>2, <3>3 DEF Foreign, Playing, AtUser, Cuts, Cutting
    <3> QED BY <3>1, <3>4, <3>5 DEF Foreign
  <2> QED BY <1>4, <2>1, <2>2, <2>3, <2>4 DEF StartCut
<1>5. CASE UserDropClose(p) /\ own
  BY <1>2, <1>5 DEF UserDropClose, Foreign
<1>6. CASE UserDropClose(p) /\ ~own
  <2>1. EndCut(p, user[p].push) /\ UNCHANGED audio /\ user[p].pc \in Cutting
    BY <1>6 DEF UserDropClose, Cutting
  <2>2. push.id = user[p].push => push.tts = 0
    BY <1>6, <2>1 DEF Foreign, AtUser, Cuts
  <2> QED BY <1>1, <1>2, <2>1, <2>2, ForeignEndCut
<1>7. CASE CutAbortDone(p)
  <2>1. own
    BY <1>7 DEF CutAbortDone, Foreign, AtUser, Cuts
  <2> QED BY <1>2, <1>7, <2>1 DEF CutAbortDone, Foreign
<1> QED BY <1>3, <1>4, <1>5, <1>6, <1>7 DEF UserStep

\* A step of the worker that plays nothing new and leaves the open push as it is, or closes it in
\* silence.
LEMMA WorkerCalm ==
  ASSUME Inv, Inv', Foreign, ~own, UNCHANGED <<user, closer, late, own, seq>>,
         worker.pc # "dead", worker'.pc # "connect",
         audio' \in [Ids -> {"none", "live", "done"}],
         \A i \in Ids : audio'[i] = "live" => audio[i] = "live",
         push'.id = push.id, push'.tts \in {0, push.tts},
         push'.tts # 0 => push'.open = push.open,
         Silent' \/ UNCHANGED push,
         worker'.pc = "drain" => push'.tts \in {0, worker'.tts},
         worker'.pc = "close_tts" => Silent',
         worker'.pc \in Cutting => push'.tts = 0
  PROVE  Foreign'
<1>1. Playing'
  BY DEF Foreign, Playing, Silent
<1>2. AtWorker'
  BY DEF AtWorker
<1>3. AtUser'
  BY DEF Foreign, AtUser, Cuts
<1>4. AtClose'
  BY DEF Foreign, AtClose, Silent
<1> QED BY <1>1, <1>2, <1>3, <1>4 DEF Foreign

LEMMA ForeignWorker ==
  ASSUME Inv, Inv', Foreign, WorkerStep
  PROVE  Foreign'
<1> USE DEF turnVars, pushVars, closeVars, envVars
<1>1. UNCHANGED <<user, closer, late, own>>
  BY DEF WorkerStep, WorkerStart, WorkerWaited, WorkerLocked, WorkerConnected, WorkerChat,
         WorkerSent, WorkerSendFailed, WorkerEndEvent, WorkerEnded, WorkerEndFailed,
         WorkerDrained, WorkerClosedTts, WorkerDropAudio, WorkerDropClose
<1>2. /\ worker \in WorkerRec /\ worker' \in WorkerRec /\ push \in PushRec /\ seq \in Nat
      /\ push.id \in Nat /\ worker.id \in Nat /\ audio \in [Ids -> {"none", "live", "done"}]
      /\ push.tts \in Nat
  BY DEF Inv, Typed, Foreign, WorkerRec, PushRec
<1>3. audio' \in [Ids -> {"none", "live", "done"}]
  BY <1>2 DEF WorkerStep, WorkerStart, WorkerWaited, WorkerLocked, WorkerConnected, WorkerChat,
         WorkerSent, WorkerSendFailed, DropByWorker, DropAudio, WorkerEndEvent, WorkerEnded,
         WorkerEndFailed, WorkerDrained, WorkerClosedTts, WorkerDropAudio, WorkerDropClose
<1> SUFFICES ASSUME ~own PROVE Foreign'
  BY <1>1, <1>3 DEF Foreign
<1>4. worker.pc # "dead"
  BY DEF WorkerStep, WorkerStart, WorkerWaited, WorkerLocked, WorkerConnected, WorkerChat,
         WorkerSent, WorkerSendFailed, WorkerEndEvent, WorkerEnded, WorkerEndFailed,
         WorkerDrained, WorkerClosedTts, WorkerDropAudio, WorkerDropClose, NextEvent, WorkerAt
<1>5. Loop.pc \in {"get", "dead"}
  BY DEF Loop, Getting
\* A push without a stream is silent.
<1>6. push.tts = 0 => Silent
  BY DEF Foreign, Playing, Silent, Ids
<1>7. /\ \A id \in Nat : /\ PushClosed(id).id = push.id /\ PushClosed(id).tts = push.tts
                         /\ [PushClosed(id) EXCEPT !.audio = 0].id = push.id
                         /\ [PushClosed(id) EXCEPT !.audio = 0].tts = push.tts
                         /\ [PushClosed(id) EXCEPT !.tts = 0, !.audio = 0].id = push.id
                         /\ [PushClosed(id) EXCEPT !.tts = 0, !.audio = 0].tts = 0
      /\ [push EXCEPT !.audio = 0].id = push.id /\ [push EXCEPT !.audio = 0].tts = push.tts
      /\ [push EXCEPT !.audio = 0].open = push.open
  BY <1>2 DEF PushClosed, PushRec
<1>8. ASSUME NEW id \in Nat, CloseByWorker(id), push.tts = 0, UNCHANGED <<audio, seq>>
      PROVE  Foreign'
  <2>1. Silent' /\ push'.id = push.id /\ push'.tts = 0 /\ worker'.pc \in {"get", "dead"}
    BY <1>5, <1>6, <1>7, <1>8 DEF CloseByWorker, Silent
  <2> QED BY <1>1, <1>3, <1>4, <1>8, <2>1, WorkerCalm DEF Cutting
<1>9. ASSUME NEW ending \in BOOLEAN, DropByWorker(ending), UNCHANGED seq PROVE Foreign'
  <2>1. Silent' /\ push'.tts = 0 /\ push'.id = push.id
    BY <1>9, DropIsSilent DEF DropByWorker
  <2>2. worker'.pc \in Cutting
    BY <1>2, <1>9 DEF DropByWorker, DropPc, WorkerRec, Cutting
  <2> QED BY <1>1, <1>3, <1>4, <1>9, <2>1, <2>2, WorkerCalm DEF Silent, Cutting
\* Steps that leave the push alone.
<1>10. CASE WorkerStart \/ WorkerWaited \/ WorkerChat \/ WorkerSent \/ WorkerDropAudio
  <2>1. UNCHANGED <<push, audio, seq>>
    BY <1>10 DEF WorkerStart, WorkerWaited, WorkerChat, WorkerSent, WorkerDropAudio
  <2>2. \/ worker'.pc \in {"get", "dead", "wait_turn", "lock", "send"}
        \/ worker'.pc = worker.pc /\ worker.pc = "get"
        \/ worker.pc = "drop_audio" /\ worker'.pc = "drop_close"
    BY <1>2, <1>5, <1>10 DEF WorkerStart, WorkerWaited, WorkerChat, WorkerSent, WorkerDropAudio,
                             NextEvent, WorkerAt, Getting, WorkerRec
  <2>3. worker'.pc \in Cutting => push'.tts = 0
    BY <2>1, <2>2 DEF Foreign, AtWorker, Cutting
  <2> QED BY <1>1, <1>3, <1>4, <2>1, <2>2, <2>3, WorkerCalm
<1>11. CASE WorkerLocked
  <2>1. UNCHANGED audio /\ worker.pc = "lock"
    BY <1>11 DEF WorkerLocked, WorkerAt
  <2>2. CASE worker'.pc \in {"get", "dead", "wait_turn"} /\ UNCHANGED <<push, seq>>
    BY <1>1, <1>3, <1>4, <2>1, <2>2, WorkerCalm DEF Cutting
  <2>3. CASE /\ ~push.open /\ seq' = seq + 1
             /\ push' = [push EXCEPT !.open = TRUE, !.id = seq + 1]
             /\ worker'.pc = "connect" => worker'.id = seq + 1
             /\ worker'.pc \in {"connect", "get", "dead"}
    <3>1. push'.id = seq + 1 /\ push'.tts = 0 /\ Silent /\ Silent'
      BY <1>2, <1>6, <2>1, <2>3 DEF Foreign, Playing, PushRec, Silent
    <3>2. Playing' /\ AtWorker'
      BY <1>1, <1>2, <2>3, <3>1 DEF Foreign, Playing, AtWorker, Silent, Cutting
    <3>3. AtUser'
      <4> SUFFICES ASSUME NEW q \in UserTasks PROVE Cuts(user[q])'
        BY DEF AtUser
      <4>1. user[q].push \in Nat /\ Cuts(user[q])
        BY DEF Foreign, AtUser, Inv, Typed, UserRec
      <4> QED BY <1>1, <1>2, <2>3, <3>1, <4>1 DEF Cuts
    <3>4. AtClose'
      BY <1>1, <1>4, <3>1 DEF Foreign, AtClose
    <3> QED BY <1>3, <3>2, <3>3, <3>4 DEF Foreign
  <2> QED BY <1>2, <1>5, <1>11, <2>2, <2>3 DEF WorkerLocked, OpenPush, Getting, WorkerRec
<1>12. ASSUME NEW ok \in BOOLEAN, WorkerConnected(ok) PROVE Foreign'
  <2>1. /\ worker.pc = "connect" /\ worker.id = push.id /\ push.tts = 0 /\ Silent /\ UNCHANGED seq
        /\ worker'.pc \in {"get", "dead"}
    BY <1>5, <1>6, <1>12 DEF WorkerConnected, WorkerAt, Foreign, AtWorker
  <2>2. CASE UNCHANGED <<push, audio>>
    BY <1>1, <1>3, <1>4, <2>1, <2>2, WorkerCalm DEF Cutting
  <2>3. CASE /\ PushIs(worker.id)
             /\ push' = [push EXCEPT !.tts = worker.id, !.audio = worker.id]
             /\ audio' = [audio EXCEPT ![worker.id] = "live"]
    <3>1. /\ push'.open /\ push'.id = push.id /\ push'.tts = push.id /\ push'.audio = push.id
          /\ \A i \in Ids : audio'[i] = "live" => i = push.id
      BY <1>2, <2>1, <2>3 DEF PushIs, PushRec, Silent
    <3>2. Playing' /\ AtWorker'
      BY <1>1, <2>1, <3>1 DEF Foreign, Playing, AtWorker, Cutting
    <3>3. AtUser'
      BY <1>1, <2>1, <3>1 DEF Foreign, AtUser, Cuts
    <3>4. AtClose'
      BY <1>1, <2>1 DEF Foreign, AtClose
    <3> QED BY <1>3, <3>2, <3>3, <3>4 DEF Foreign
  <2> QED BY <1>12, <2>2, <2>3 DEF WorkerConnected
<1>13. CASE WorkerSendFailed
  <2>1. CASE DropByWorker(FALSE)
    BY <1>9, <1>13, <2>1 DEF WorkerSendFailed
  <2>2. CASE worker' = Loop /\ UNCHANGED <<push, audio>>
    BY <1>1, <1>3, <1>4, <1>5, <1>13, <2>2, WorkerCalm DEF WorkerSendFailed, Cutting
  <2> QED BY <1>13, <2>1, <2>2 DEF WorkerSendFailed
<1>14. CASE WorkerEndEvent
  <2>1. CASE push.tts = 0 /\ CloseByWorker(push.id)
    BY <1>2, <1>8, <1>14, <2>1 DEF WorkerEndEvent
  <2>2. CASE /\ UNCHANGED push
             /\ worker' = worker \/ worker' = [Getting EXCEPT !.pc = "end", !.id = push.id]
    <3>1. worker'.pc \in {"get", "end"}
      BY <1>14, <2>2 DEF WorkerEndEvent, NextEvent, WorkerAt, Getting
    <3> QED BY <1>1, <1>3, <1>4, <1>14, <2>2, <3>1, WorkerCalm DEF WorkerEndEvent, Cutting
  <2> QED BY <1>14, <2>1, <2>2 DEF WorkerEndEvent
<1>15. CASE WorkerEnded
  <2>1. CASE push.tts = 0 /\ CloseByWorker(worker.id)
    BY <1>2, <1>8, <1>15, <2>1 DEF WorkerEnded
  <2>2. CASE push.tts # 0 /\ EndTail(worker.id)
    <3>1. \/ worker'.pc = "drain" /\ worker'.tts = push.tts /\ UNCHANGED push
          \/ /\ worker'.pc = "close_tts" /\ push' = [push EXCEPT !.audio = 0]
             /\ ~(push.audio # 0 /\ audio[push.audio] = "live")
      BY <1>2, <2>2 DEF EndTail, WorkerRec
    <3>2. UNCHANGED <<audio, seq>>
      BY <1>15 DEF WorkerEnded
    <3>3. worker'.pc = "close_tts" => Silent'
      BY <3>1, <3>2 DEF Foreign, Playing, Silent, Ids
    <3>4. CASE worker'.pc = "drain"
      BY <1>1, <1>3, <1>4, <3>1, <3>2, <3>4, WorkerCalm DEF Cutting
    <3>5. CASE worker'.pc = "close_tts"
      BY <1>1, <1>3, <1>4, <1>7, <3>1, <3>2, <3>3, <3>5, WorkerCalm DEF Cutting
    <3> QED BY <3>1, <3>4, <3>5
  <2> QED BY <1>15, <2>1, <2>2 DEF WorkerEnded, EndTail
<1>16. CASE WorkerEndFailed
  BY <1>9, <1>16 DEF WorkerEndFailed
<1>17. CASE WorkerDrained
  <2>1. /\ worker.pc = "drain" /\ push.tts \in {0, worker.tts} /\ UNCHANGED seq
        /\ audio' = [audio EXCEPT ![worker.tts] = "done"]
    BY <1>17 DEF WorkerDrained, WorkerAt, Foreign, AtWorker
  <2>2. Silent'
    BY <1>2, <2>1 DEF Foreign, Playing, Silent, Ids
  <2>3. push'.id = push.id /\ push'.tts = push.tts /\ (push'.tts # 0 => push'.open = push.open)
    BY <1>2, <1>7, <1>17 DEF WorkerDrained, CloseByWorker
  <2>4. worker'.pc \in {"close_tts", "get", "dead"}
    BY <1>2, <1>5, <1>17 DEF WorkerDrained, CloseByWorker, WorkerRec
  <2> QED BY <1>1, <1>3, <1>4, <2>1, <2>2, <2>3, <2>4, WorkerCalm DEF Silent, Cutting
<1>18. CASE WorkerClosedTts
  <2>1. Silent /\ UNCHANGED <<audio, seq>> /\ worker'.pc \in {"get", "dead"}
    BY <1>5, <1>18 DEF WorkerClosedTts, WorkerAt, Foreign, AtWorker
  <2>2. push'.id = push.id /\ push'.tts = 0 /\ Silent'
    BY <1>2, <1>7, <1>18, <2>1 DEF WorkerClosedTts, Silent
  <2> QED BY <1>1, <1>3, <1>4, <2>1, <2>2, WorkerCalm DEF Cutting
<1>19. CASE WorkerDropClose
  <2>1. push.tts = 0 /\ UNCHANGED <<audio, seq>>
    BY <1>19 DEF WorkerDropClose, WorkerAt, Foreign, AtWorker, Cutting
  <2>2. CASE CloseByWorker(worker.id)
    BY <1>2, <1>8, <2>1, <2>2
  <2>3. CASE worker' = Loop /\ UNCHANGED push
    BY <1>1, <1>3, <1>4, <1>5, <2>1, <2>3, WorkerCalm DEF Cutting
  <2> QED BY <1>19, <2>2, <2>3 DEF WorkerDropClose
<1> QED BY <1>10, <1>11, <1>12, <1>13, <1>14, <1>15, <1>16, <1>17, <1>18, <1>19 DEF WorkerStep

LEMMA ForeignClose ==
  ASSUME Inv, Inv', Foreign, NEW c \in Closers, CloseCall(c) \/ CloseStep(c)
  PROVE  Foreign'
<1> USE DEF turnVars, pushVars, closeVars, envVars
<1>1. UNCHANGED <<seq, late, own>>
  BY DEF CloseCall, CloseStep, CloseStart, CloseTurn, CloseWorker, ClosePushTts, CloseFinish
<1>2. /\ closer \in [Closers -> CloserRec] /\ push \in PushRec /\ seq \in Nat /\ push.id \in Nat
      /\ audio \in [Ids -> {"none", "live", "done"}]
  BY DEF Inv, Typed, PushRec, Foreign
<1>3. /\ \A d \in Closers \ {c} : closer'[d] = closer[d]
      /\ CloseTurn(c) => closer'[c].pc = "worker"
      /\ CloseWorker(c) => closer'[c].pc = "push_tts"
      /\ CloseCall(c) \/ CloseStart(c) \/ CloseFinish(c) =>
           closer'[c].pc \in {"lock", "turn", "done"}
  BY <1>2 DEF CloseCall, CloseStep, CloseStart, CloseTurn, CloseWorker, ClosePushTts, CloseFinish,
              Closer, CloserRec
<1>4. CASE CloseCall(c) \/ CloseStart(c) \/ CloseFinish(c)
  <2>1. UNCHANGED <<push, audio, worker, user>>
    BY <1>4 DEF CloseCall, CloseStart, CloseFinish
  <2> QED BY <1>1, <1>2, <1>3, <1>4, <2>1, ForeignCalm
<1>5. CASE CloseTurn(c)
  <2>1. UNCHANGED <<push, audio, user>> /\ worker'.pc = "dead"
    BY <1>5 DEF CloseTurn, Getting
  <2> SUFFICES ASSUME ~own PROVE Playing' /\ AtWorker' /\ AtUser' /\ AtClose'
    BY <1>1, <2>1 DEF Foreign
  <2>2. Playing' /\ AtWorker'
    BY <1>1, <2>1 DEF Foreign, Playing, AtWorker, Cutting
  <2>3. AtUser' /\ AtClose'
    BY <1>1, <1>3, <1>5, <2>1 DEF Foreign, AtUser, Cuts, AtClose, Silent
  <2> QED BY <2>2, <2>3
<1>6. CASE CloseWorker(c)
  <2>1. UNCHANGED <<push, worker, user>> /\ audio' = DropAudio /\ closer[c].pc = "worker"
    BY <1>6 DEF CloseWorker
  <2>2. audio' \in [Ids -> {"none", "live", "done"}]
    BY <1>2, <2>1 DEF DropAudio
  <2> SUFFICES ASSUME ~own PROVE Playing' /\ AtWorker' /\ AtUser' /\ AtClose'
    BY <1>1, <2>2 DEF Foreign
  <2>3. Silent'
    BY <1>2, <2>1 DEF Foreign, Playing, Silent, DropAudio, Ids
  <2>4. Playing' /\ AtWorker'
    BY <1>1, <2>1, <2>3 DEF Foreign, Playing, AtWorker, Silent
  <2>5. AtUser' /\ AtClose'
    BY <1>1, <1>3, <2>1, <2>3 DEF Foreign, AtUser, Cuts, AtClose
  <2> QED BY <2>4, <2>5
<1>7. CASE ClosePushTts(c)
  <2>1. UNCHANGED <<worker, audio>> /\ closer[c].pc = "push_tts"
    BY <1>7 DEF ClosePushTts
  <2>2. push'.id = push.id /\ push'.tts = 0
    BY <1>2, <1>7 DEF ClosePushTts, PushClosed, PushRec
  <2>3. \A p \in UserTasks : user'[p].pc = "dead"
    BY <1>7 DEF ClosePushTts, NoOp
  <2> SUFFICES ASSUME ~own PROVE Playing' /\ AtWorker' /\ AtUser' /\ AtClose'
    BY <1>1, <1>2, <2>1 DEF Foreign
  <2>4. Silent /\ Silent' /\ worker.pc = "dead"
    BY <2>1 DEF Foreign, AtClose, Silent
  <2>5. Playing' /\ AtWorker'
    BY <1>1, <2>1, <2>2, <2>4 DEF Foreign, Playing, AtWorker, Silent, Cutting
  <2>6. AtUser' /\ AtClose'
    BY <1>3, <2>1, <2>3, <2>4 DEF Foreign, AtUser, Cuts, AtClose, Cutting
  <2> QED BY <2>5, <2>6
<1> QED BY <1>4, <1>5, <1>6, <1>7 DEF CloseStep

LEMMA ForeignNext == Inv /\ Foreign /\ [Next]_vars => Foreign'
<1> SUFFICES ASSUME Inv, Foreign, [Next]_vars PROVE Foreign'
  OBVIOUS
<1> USE DEF turnVars, pushVars, closeVars, envVars
<1>1. Inv'
  BY InvNext
<1>2. seq \in Nat
  BY DEF Inv, Typed
<1>3. CASE UNCHANGED vars
  BY <1>2, <1>3, ForeignCalm DEF vars
<1>4. ASSUME NEW t \in Tasks, TurnStep(t) PROVE Foreign'
  <2>1. UNCHANGED <<push, audio, worker, user, closer, late, own>> /\ seq' \in {seq, seq + 1}
    BY <1>4 DEF TurnStep, TurnBegin, TurnNeverRan, TurnUnwind, TurnEnd
  <2> QED BY <1>2, <2>1, ForeignCalm
<1>5. ASSUME NEW p \in UserTasks, UserStep(p) PROVE Foreign'
  BY <1>5, ForeignUser
<1>6. CASE WorkerStep
  BY <1>1, <1>6, ForeignWorker
<1>7. ASSUME NEW c \in Closers, CloseCall(c) \/ CloseStep(c) PROVE Foreign'
  BY <1>1, <1>7, ForeignClose
<1>8. ASSUME NEW id \in Ids, AudioFrame(id) \/ AudioEnd(id) PROVE Foreign'
  BY <1>8, ForeignAudio
<1>9. CASE (\E kind \in {"turn_start", "chat", "turn_end"} : PushEvent(kind)) \/ ClientLeaves
  <2>1. UNCHANGED <<push, audio, worker, user, closer, late, own, seq>>
    BY <1>9 DEF PushEvent, ClientLeaves
  <2> QED BY <1>2, <2>1, ForeignCalm
<1>10. CASE SendCmd
  <2>1. /\ user'["input"].pc = "send_lock"
        /\ \A q \in UserTasks \ {"input"} : user'[q] = user[q]
        /\ UNCHANGED <<push, audio, worker, closer, late, own, seq>>
    BY <1>10 DEF SendCmd, Queued, NoOp, Inv, Typed, UserTasks
  <2> QED BY <1>2, <2>1, ForeignCalm DEF Cutting
<1>11. ASSUME NEW p \in UserTasks, NEW op, UserOp(p, op) PROVE Foreign'
  <2>1. /\ user'[p].pc \in {"cancel_lock", "cut_lock"}
        /\ \A q \in UserTasks \ {p} : user'[q] = user[q]
        /\ UNCHANGED <<push, audio, worker, closer, late, own, seq>>
    BY <1>11 DEF UserOp, Queued, NoOp, Inv, Typed
  <2> QED BY <1>2, <2>1, ForeignCalm DEF Cutting
<1> QED BY <1>3, <1>4, <1>5, <1>6, <1>7, <1>8, <1>9, <1>10, <1>11 DEF Next, Environment, UserTasks

-----------------------------------------------------------------------------
\* _start_turn and close_all (G-09): however a `send`, a cut and any number of callers of close_all
\* race, no turn runs in a closed session but the cleanup of the one that was abandoned.
THEOREM NoTurnIsLeft == Spec => []NoTurnOutlivesClose
<1>1. Inv => NoTurnOutlivesClose
  BY DEF Inv, Winding, Wound, NoTurnOutlivesClose
<1> QED BY <1>1, InvInit, InvNext, PTL DEF Spec

\* _cut_push, on_push_turn_end and _pipe_push_audio: a push of another session_key, whose cut awaits
\* no chat.abort, is never heard after its turn_end or in another turn, whatever its cut, its
\* worker, its failing TTS and close_all do.
THEOREM ForeignPushesFallSilent == Spec => []NoForeignAudioAfterEnd
<1>1. Foreign => NoForeignAudioAfterEnd
  BY DEF Foreign, Playing, NoForeignAudioAfterEnd
<1> QED BY <1>1, InvInit, InvNext, ForeignInit, ForeignNext, PTL DEF Spec
-----------------------------------------------------------------------------
(* The wire: what the client is told of the turns.                         *)

\* A turn whose turn_start is out and whose task goes on.
Told(t) == turn[t].pc \in {"running", "cleanup"}

\* The places of a cut, and all where a handler holds _turn_lock across an await.
CutPcs  == {"drop_audio", "drop_close", "cut_abort"}
HoldPcs == {"send_wait", "cancel_wait"} \cup CutPcs

\* Where a caller of close_all is past the turn and the worker, and where it has _close_lock.
PastPcs   == {"worker", "push_tts", "tasks"}
InsidePcs == {"turn"} \cup PastPcs

\* One holder each of _turn_lock and _close_lock.
Locks ==
  /\ lockQ \in Seq(Lockers) /\ closeQ \in Seq(Closers)
  /\ \A p \in UserTasks : user[p].pc \in HoldPcs => Holds(p)
  /\ \A c \in Closers : closer[c].pc \in InsidePcs => HoldsClose(c) /\ ~closed

\* _active_turn_id is the id of the turn that was told, and no push is open beside a turn.
Apart ==
  /\ \A t \in Tasks : Told(t) => activeId = turn[t].id /\ turn[t].id # 0
  /\ activeId # 0 => \E t \in Tasks : Told(t)
  /\ push.open => push.id # 0 /\ \A t \in Tasks : ~Running(t)

\* What a handler found when it took the lock is so until it gives it up.
Holding(u) ==
  /\ u.pc \in CutPcs => /\ u.push # 0 /\ \A t \in Tasks : ~Running(t)
                        /\ push.open => push.id = u.push
  /\ u.pc = "cancel_wait" => ~push.open /\ \A t \in Tasks : Running(t) => t = u.turn
  /\ u.pc \in {"cancel_lock", "cancel_wait"} =>
       /\ u.turn # 0 /\ turn[u.turn].pc # "none"
       /\ u.id # 0 /\ Running(u.turn) => Told(u.turn) /\ turn[u.turn].id = u.id
Held == \A p \in UserTasks : Holding(user[p])

\* What is left once a caller of close_all is past the turn, and once it is past the tasks.
PastTurn == closed \/ \E c \in Closers : closer[c].pc \in PastPcs
PastAll  == closed \/ \E c \in Closers : closer[c].pc = "tasks"
Leaving ==
  /\ PastTurn => /\ worker.pc = "dead"
                 /\ \A t \in Tasks : Running(t) => turn[t].pc = "cleanup" /\ turn[t].id = endAtClose
  /\ PastAll => ~push.open /\ \A p \in UserTasks : user[p].pc = "dead"
  /\ endAtClose # 0 => PastTurn

Order == Locks /\ Apart /\ Held /\ Leaving

-----------------------------------------------------------------------------
\* The head of a queue stays when another one joins.
LEMMA HeadStays ==
  ASSUME NEW S, NEW q \in Seq(S), NEW e \in S
  PROVE  /\ Append(q, e) \in Seq(S) /\ Append(q, e) # <<>>
         /\ q # <<>> => Append(q, e)[1] = q[1] /\ Tail(q) \in Seq(S)
<1>1. q # <<>> => 1 \in 1..Len(q)
  BY EmptySeq, LenProperties
<1> QED BY <1>1, AppendProperties, HeadTailProperties

\* Who gives up its place in the queue of _turn_lock leaves the head to the other who has it.
LEMMA WithoutIt ==
  ASSUME lockQ \in Seq(Lockers), NEW p \in Lockers
  PROVE  /\ WithoutLock(p) \in Seq(Lockers)
         /\ \A q \in Lockers \ {p} :
              Holds(q) => WithoutLock(p) # <<>> /\ WithoutLock(p)[1] = q
<1>1. CASE ~AtLock(p)
  BY <1>1 DEF WithoutLock, Holds
<1>2. CASE AtLock(p)
  <2> DEFINE i == CHOOSE i \in DOMAIN lockQ : lockQ[i] = p
             a == SubSeq(lockQ, 1, i - 1)
             b == SubSeq(lockQ, i + 1, Len(lockQ))
  <2>1. i \in 1..Len(lockQ) /\ lockQ[i] = p /\ WithoutLock(p) = a \o b /\ Len(lockQ) \in Nat
    BY <1>2, LenProperties DEF AtLock, WithoutLock, RemoveAt
  <2> HIDE DEF i
  <2>2. a \in Seq(Lockers) /\ Len(a) = i - 1 /\ \A j \in 1..(i - 1) : a[j] = lockQ[j]
    BY <2>1, SubSeqProperties, ElementOfSeq
  <2>3. b \in Seq(Lockers)
    BY <2>1, SubSeqProperties, ElementOfSeq
  <2> HIDE DEF a, b
  <2>4. /\ a \o b \in Seq(Lockers) /\ Len(a \o b) = Len(a) + Len(b)
        /\ \A j \in 1..(Len(a) + Len(b)) : (a \o b)[j] = IF j <= Len(a) THEN a[j] ELSE b[j - Len(a)]
    BY <2>2, <2>3, ConcatProperties
  <2>5. ASSUME NEW q \in Lockers \ {p}, Holds(q)
        PROVE  a \o b # <<>> /\ (a \o b)[1] = q
    <3>1. i # 1
      BY <2>1, <2>5 DEF Holds
    <3>2. 1 \in 1..(i - 1) /\ Len(b) \in Nat
      BY <2>1, <2>3, <3>1, LenProperties
    <3>3. 1 \in 1..(Len(a) + Len(b)) /\ Len(a \o b) # 0
      BY <2>2, <2>4, <3>2
    <3>4. (a \o b)[1] = lockQ[1]
      BY <2>2, <2>4, <3>2, <3>3
    <3> QED BY <2>4, <2>5, <3>3, <3>4, EmptySeq DEF Holds
  <2> QED BY <2>1, <2>4, <2>5
<1> QED BY <1>1, <1>2

\* A step that is nothing to the locks, the turns and the close.
LEMMA OrderSame ==
  ASSUME Order, UNCHANGED <<turn, activeId, user, closer, lockQ, closeQ, closed, endAtClose>>,
         push'.open \in {push.open, FALSE}, push'.id = push.id, worker' = worker
  PROVE  Order'
<1>1. Locks'
  BY DEF Order, Locks, Holds, HoldsClose
<1>2. Apart'
  BY DEF Order, Apart, Told, Running
<1>3. Held'
  BY DEF Order, Held, Holding, Told, Running
<1>4. Leaving'
  BY DEF Order, Leaving, PastTurn, PastAll, Running
<1> QED BY <1>1, <1>2, <1>3, <1>4 DEF Order

LEMMA OrderInit == Init => Order
<1> SUFFICES ASSUME Init PROVE Order
  OBVIOUS
<1>1. Locks /\ Held
  BY DEF Init, Locks, Held, Holding, NoOp, HoldPcs, CutPcs, InsidePcs, PastPcs
<1>2. Apart /\ Leaving
  BY DEF Init, Apart, Leaving, Told, Running, PastTurn, PastAll, PastPcs
<1> QED BY <1>1, <1>2 DEF Order
-----------------------------------------------------------------------------
\* What the task of a turn does to the turns.
LEMMA TurnEffect ==
  ASSUME Inv, NEW t \in Tasks, TurnStep(t)
  PROVE  /\ UNCHANGED <<activeTurn, push, user, worker, closer, closing, closed, lockQ, closeQ,
                        endAtClose, gone>>
         /\ Running(t) /\ turn' \in [Tasks -> TurnRec]
         /\ \A o \in Tasks \ {t} : turn'[o] = turn[o]
         /\ \/ /\ turn[t].pc = "created" /\ turn'[t].pc = "running" /\ turn'[t].id = seq + 1
               /\ ~gone /\ seq' = seq + 1 /\ activeId' = seq + 1
               /\ log' = Sent(<<Msg("turn_start", seq + 1)>>)
            \/ /\ turn[t].pc = "created" /\ turn'[t].pc = "done" /\ turn'[t].id = 0
               /\ UNCHANGED activeId
               /\ \/ gone /\ seq' = seq + 1 /\ UNCHANGED log
                  \/ UNCHANGED <<seq, log>>
            \/ /\ turn[t].pc = "running" /\ turn'[t].pc = "cleanup" /\ turn'[t].id = turn[t].id
               /\ UNCHANGED <<seq, activeId, log>>
            \/ /\ turn[t].pc = "cleanup" /\ turn'[t].pc = "done" /\ turn'[t].id = 0 /\ UNCHANGED seq
               /\ activeId' = IF activeId = turn[t].id THEN 0 ELSE activeId
               /\ log' = IF endAtClose = turn[t].id THEN log
                         ELSE Sent(<<Msg("turn_end", turn[t].id)>>)
<1> USE DEF turnVars, pushVars, closeVars, envVars
<1>1. turn[t] \in TurnRec /\ turn \in [Tasks -> TurnRec] /\ seq \in Nat /\ seq + 1 \in Nat /\ t # 0
  BY DEF Inv, Typed, Tasks
<1>2. Done \in TurnRec /\ Done.pc = "done" /\ Done.id = 0
  BY DEF Done, TurnRec
<1>3. /\ \A n \in Nat : [turn[t] EXCEPT !.pc = "running", !.id = n] \in TurnRec
      /\ [turn[t] EXCEPT !.pc = "cleanup"] \in TurnRec
  BY <1>1 DEF TurnRec
<1>4. CASE TurnBegin(t) /\ ~gone
  <2> DEFINE r == [turn[t] EXCEPT !.pc = "running", !.id = seq + 1]
  <2>1. turn' = [turn EXCEPT ![t] = r]
    BY <1>1, <1>4 DEF TurnBegin
  <2>2. r \in TurnRec /\ r.pc = "running" /\ r.id = seq + 1
    BY <1>1, <1>3 DEF TurnRec
  <2>3. turn' \in [Tasks -> TurnRec] /\ turn'[t] = r /\ \A o \in Tasks \ {t} : turn'[o] = turn[o]
    BY <1>1, <2>1, <2>2
  <2> QED BY <1>1, <1>4, <2>2, <2>3 DEF TurnBegin, Running
<1>5. CASE (TurnBegin(t) /\ gone) \/ TurnNeverRan(t)
  <2>1. turn' = [turn EXCEPT ![t] = Done]
    BY <1>5 DEF TurnBegin, TurnNeverRan
  <2>2. turn' \in [Tasks -> TurnRec] /\ turn'[t] = Done /\ \A o \in Tasks \ {t} : turn'[o] = turn[o]
    BY <1>1, <1>2, <2>1
  <2> QED BY <1>1, <1>2, <1>5, <2>2 DEF TurnBegin, TurnNeverRan, Running, Sent
<1>6. CASE TurnUnwind(t)
  <2> DEFINE r == [turn[t] EXCEPT !.pc = "cleanup"]
  <2>1. turn' = [turn EXCEPT ![t] = r]
    BY <1>1, <1>6 DEF TurnUnwind
  <2>2. r \in TurnRec /\ r.pc = "cleanup" /\ r.id = turn[t].id
    BY <1>1 DEF TurnRec
  <2>3. turn' \in [Tasks -> TurnRec] /\ turn'[t] = r /\ \A o \in Tasks \ {t} : turn'[o] = turn[o]
    BY <1>1, <2>1, <2>2
  <2> QED BY <1>1, <1>6, <2>2, <2>3 DEF TurnUnwind, Running
<1>7. CASE TurnEnd(t)
  <2>1. turn' = [turn EXCEPT ![t] = Done]
    BY <1>7 DEF TurnEnd
  <2>2. turn' \in [Tasks -> TurnRec] /\ turn'[t] = Done /\ \A o \in Tasks \ {t} : turn'[o] = turn[o]
    BY <1>1, <1>2, <2>1
  <2> QED BY <1>1, <1>2, <1>7, <2>2 DEF TurnEnd, Running, SentAtClose
<1> QED BY <1>4, <1>5, <1>6, <1>7 DEF TurnStep

LEMMA OrderTurn ==
  ASSUME Inv, Order, NEW t \in Tasks, TurnStep(t)
  PROVE  Order'
<1>1. /\ UNCHANGED <<push, user, worker, closer, closed, lockQ, closeQ, endAtClose>>
      /\ Running(t) /\ \A o \in Tasks \ {t} : turn'[o] = turn[o]
  BY TurnEffect
<1>2. \A o \in Tasks : Running(o) => o = t
  BY <1>1 DEF Inv, OneTurn
<1>3. ~push.open /\ 0 \notin Tasks /\ seq \in Nat
  BY <1>1 DEF Order, Apart, Inv, Typed, Tasks
<1>4. \A o \in Tasks : Running(o)' => Running(o)
  BY <1>1 DEF Running
<1>5. Locks'
  BY <1>1 DEF Order, Locks, Holds, HoldsClose
<1>6. CASE /\ turn[t].pc = "created" /\ turn'[t].pc = "running" /\ turn'[t].id = seq + 1
           /\ activeId' = seq + 1
  <2>1. Apart'
    BY <1>1, <1>2, <1>3, <1>6 DEF Order, Apart, Told, Running
  <2>2. ASSUME NEW p \in UserTasks PROVE Holding(user[p])'
    <3>1. user[p].pc \notin CutPcs
      BY <1>1 DEF Order, Held, Holding
    <3>2. user[p].pc \in {"cancel_lock", "cancel_wait"} /\ user[p].id # 0 => user[p].turn # t
      BY <1>1, <1>6 DEF Order, Held, Holding, Told
    <3>3. user[p].pc \in {"cancel_lock", "cancel_wait"} =>
            user[p].turn # 0 /\ (user[p].turn = t \/ turn'[user[p].turn] = turn[user[p].turn])
      BY <1>1 DEF Order, Held, Holding, Inv, Typed, UserRec, Tasks
    <3>4. user[p].pc = "cancel_wait" => \A o \in Tasks : Running(o) => o = user[p].turn
      BY DEF Order, Held, Holding
    <3> QED BY <1>1, <1>3, <1>4, <1>6, <3>1, <3>2, <3>3, <3>4 DEF Order, Held, Holding, Told, Running
  <2>3. Leaving'
    BY <1>1, <1>6 DEF Order, Leaving, PastTurn, PastAll
  <2> QED BY <1>5, <2>1, <2>2, <2>3 DEF Order, Held
<1>7. CASE turn[t].pc = "running" /\ turn'[t].pc = "cleanup" /\ turn'[t].id = turn[t].id
           /\ UNCHANGED activeId
  <2>1. \A o \in Tasks : (Told(o)' <=> Told(o)) /\ turn'[o].id = turn[o].id
    BY <1>1, <1>7 DEF Told
  <2>2. Apart'
    BY <1>1, <1>3, <1>7, <2>1 DEF Order, Apart
  <2>3. ASSUME NEW p \in UserTasks PROVE Holding(user[p])'
    <3>1. user[p].turn \in 0..MaxTurns
      BY DEF Inv, Typed, UserRec
    <3>2. user[p].turn # 0 => user[p].turn \in Tasks
      BY <3>1, BridgeAssumption DEF Tasks
    <3>3. user[p].turn # 0 => (turn'[user[p].turn].pc = "none" => turn[user[p].turn].pc = "none")
      BY <1>1, <1>7, <3>2
    <3> QED BY <1>1, <1>3, <1>4, <2>1, <3>2, <3>3 DEF Order, Held, Holding, Running
  <2>4. Leaving'
    BY <1>1, <1>7 DEF Order, Leaving, PastTurn, PastAll
  <2> QED BY <1>5, <2>2, <2>3, <2>4 DEF Order, Held
<1>8. CASE /\ turn'[t].pc = "done" /\ turn[t].pc \in {"created", "cleanup"}
           /\ turn[t].pc = "created" => UNCHANGED activeId
           /\ turn[t].pc = "cleanup" => activeId' = IF activeId = turn[t].id THEN 0 ELSE activeId
  <2>1. \A o \in Tasks : ~Running(o)'
    BY <1>1, <1>2, <1>4, <1>8 DEF Running
  <2>2. \A o \in Tasks : ~Told(o)'
    BY <1>3, <2>1 DEF Told, Running
  <2>3. activeId' = 0
    <3>1. CASE turn[t].pc = "created"
      BY <1>2, <1>3, <1>8, <3>1 DEF Order, Apart, Told, Running
    <3>2. CASE turn[t].pc = "cleanup"
      BY <1>8, <3>2 DEF Order, Apart, Told
    <3> QED BY <1>8, <3>1, <3>2
  <2>4. Apart'
    BY <1>1, <1>3, <2>2, <2>3 DEF Order, Apart
  <2>5. ASSUME NEW p \in UserTasks PROVE Holding(user[p])'
    <3>1. user[p].turn \in 0..MaxTurns
      BY DEF Inv, Typed, UserRec
    <3>2. user[p].turn # 0 => user[p].turn \in Tasks
      BY <3>1, BridgeAssumption DEF Tasks
    <3>3. user[p].turn # 0 => (turn'[user[p].turn].pc = "none" => turn[user[p].turn].pc = "none")
      BY <1>1, <1>8, <3>2
    <3> QED BY <1>1, <1>3, <1>4, <2>1, <3>2, <3>3 DEF Order, Held, Holding
  <2>6. Leaving'
    BY <1>1, <2>1 DEF Order, Leaving, PastTurn, PastAll
  <2> QED BY <1>5, <2>4, <2>5, <2>6 DEF Order, Held
<1> QED BY TurnEffect, <1>6, <1>7, <1>8

-----------------------------------------------------------------------------
\* What a handler may do to the queue of _turn_lock.
LEMMA LocksUser ==
  ASSUME Locks, NEW p \in UserTasks, \A q \in UserTasks \ {p} : user'[q] = user[q],
         UNCHANGED <<closer, closeQ, closed>>,
         \/ lockQ' = lockQ /\ (user'[p].pc \in HoldPcs => Holds(p))
         \/ /\ user'[p].pc \notin HoldPcs
            /\ \/ lockQ' = Append(lockQ, p)
               \/ Holds(p) /\ lockQ' = Tail(lockQ)
               \/ Holds(p) /\ lockQ' = Append(Tail(lockQ), p)
  PROVE  Locks'
<1>1. lockQ \in Seq(Lockers) /\ p \in Lockers
  BY DEF Locks, Lockers
<1>2. lockQ' \in Seq(Lockers) /\ \A q \in UserTasks \ {p} : Holds(q) => Holds(q)'
  <2>1. CASE lockQ' = lockQ
    BY <1>1, <2>1 DEF Holds
  <2>2. CASE lockQ' = Append(lockQ, p)
    BY <1>1, <2>2, HeadStays DEF Holds
  <2>3. CASE Holds(p) /\ lockQ' = Tail(lockQ)
    BY <1>1, <2>3, HeadStays DEF Holds
  <2>4. CASE Holds(p) /\ lockQ' = Append(Tail(lockQ), p)
    <3>1. Tail(lockQ) \in Seq(Lockers)
      BY <1>1, <2>4, HeadStays DEF Holds
    <3> QED BY <1>1, <2>4, <3>1, HeadStays DEF Holds
  <2> QED BY <2>1, <2>2, <2>3, <2>4
<1>3. user'[p].pc \in HoldPcs => Holds(p)'
  BY DEF Holds
<1> QED BY <1>2, <1>3 DEF Locks, HoldsClose

\* A handler that leaves the turns alone, but for telling one to stop, and keeps the push open.
LEMMA OrderUserCalm ==
  ASSUME Inv', Order, NEW p \in UserTasks, Locks', \A q \in UserTasks \ {p} : user'[q] = user[q],
         \A t \in Tasks : turn'[t].pc = turn[t].pc /\ turn'[t].id = turn[t].id,
         UNCHANGED <<activeId, closer, closed, endAtClose, worker>>,
         push'.open = push.open, push'.id = push.id, user[p].pc # "dead", Holding(user'[p])
  PROVE  Order'
<1>1. \A t \in Tasks : (Running(t)' <=> Running(t)) /\ (Told(t)' <=> Told(t))
  BY DEF Running, Told
<1>2. Apart'
  BY <1>1 DEF Order, Apart
<1>3. ASSUME NEW q \in UserTasks PROVE Holding(user[q])'
  <2>0. PICK u : u = user'[q]
    OBVIOUS
  <2>1. Holding(u)
    BY <2>0 DEF Order, Held
  <2>2. u.turn # 0 => u.turn \in Tasks
    BY <2>0, BridgeAssumption DEF Inv, Typed, UserRec, Tasks
  <2>3. /\ u.pc \in CutPcs => /\ u.push # 0 /\ \A t \in Tasks : ~Running(t)'
                              /\ push'.open => push'.id = u.push
        /\ u.pc = "cancel_wait" => ~push'.open /\ \A t \in Tasks : Running(t)' => t = u.turn
        /\ u.pc \in {"cancel_lock", "cancel_wait"} =>
             /\ u.turn # 0 /\ turn'[u.turn].pc # "none"
             /\ u.id # 0 /\ Running(u.turn)' => Told(u.turn)' /\ turn'[u.turn].id = u.id
    BY <1>1, <2>1, <2>2 DEF Holding
  <2> QED BY <2>0, <2>3 DEF Holding
<1>4. Held'
  BY <1>3 DEF Held
<1>5. Leaving'
  BY <1>1 DEF Order, Leaving, PastTurn, PastAll
<1> QED BY <1>2, <1>4, <1>5 DEF Order
-----------------------------------------------------------------------------
\* The end of a cut: for the lock the handler gives up, the push it closed and the turn it creates.
LEMMA OrderEndCut ==
  ASSUME Inv, Inv', Order, NEW p \in UserTasks, NEW id \in Nat, EndCut(p, id), Holds(p),
         user[p].pc # "dead",
         user[p].op = "send" => ~Running(activeTurn) /\ (push.open => push.id = id),
         UNCHANGED <<activeId, closer, closeQ, closed, endAtClose, worker>>
  PROVE  Order'
<1>1. /\ user \in [UserTasks -> UserRec] /\ push \in PushRec /\ turn \in [Tasks -> TurnRec]
      /\ user'[p] = NoOp /\ \A q \in UserTasks \ {p} : user'[q] = user[q]
  BY DEF EndCut, Inv, Typed
<1>2. /\ push'.id = push.id /\ push'.open \in {push.open, FALSE}
      /\ push.open /\ push.id = id => ~push'.open
  BY <1>1 DEF EndCut, PushClosed, PushIs, PushRec
<1>3. Locks'
  <2>1. NoOp.pc \notin HoldPcs
    BY DEF NoOp, HoldPcs, CutPcs
  <2>2. lockQ' = Tail(lockQ)
    BY DEF EndCut
  <2> QED BY <1>1, <2>1, <2>2, LocksUser DEF Order
<1>4. \A q \in UserTasks \ {p} : user[q].pc \notin HoldPcs
  BY DEF Order, Locks, Holds
<1>5. Holding(NoOp)' /\ ~PastAll
  BY DEF Holding, NoOp, CutPcs, Order, Leaving
<1>6. CASE MayStart(p)
  <2>1. PICK t \in Tasks : turn[t].pc = "none" /\ turn' = [turn EXCEPT ![t].pc = "created"]
    BY <1>6 DEF EndCut, IsNext
  <2>2. /\ \A o \in Tasks \ {t} : turn'[o] = turn[o]
        /\ turn'[t].pc = "created" /\ turn'[t].id = turn[t].id
    BY <1>1, <2>1 DEF TurnRec
  <2>3. ~push'.open
    BY <1>2, <1>6 DEF MayStart
  <2>4. ~PastTurn
    BY <1>6 DEF MayStart, PastTurn, PastPcs, Inv, Winding
  <2>5. Apart'
    BY <2>1, <2>2, <2>3 DEF Order, Apart, Told
  <2>6. ASSUME NEW q \in UserTasks \ {p} PROVE Holding(user[q])'
    <3>1. user[q].turn # 0 => user[q].turn \in Tasks
      BY <1>1, BridgeAssumption DEF UserRec, Tasks
    <3>2. Holding(user[q]) /\ user'[q] = user[q] /\ user'[q].pc \notin HoldPcs
      BY <1>1, <1>4 DEF Order, Held
    <3> QED BY <2>1, <2>2, <3>1, <3>2 DEF Holding, HoldPcs, Told, Running
  <2>7. Leaving'
    BY <1>5, <2>4 DEF Order, Leaving, PastTurn, PastAll
  <2> QED BY <1>1, <1>3, <1>5, <2>5, <2>6, <2>7 DEF Order, Held
<1>7. CASE ~MayStart(p)
  <2>1. UNCHANGED turn
    BY <1>7 DEF EndCut
  <2>2. Apart'
    BY <1>2, <2>1 DEF Order, Apart, Told, Running
  <2>3. ASSUME NEW q \in UserTasks \ {p} PROVE Holding(user[q])'
    BY <1>1, <1>2, <1>4, <2>1 DEF Order, Held, Holding, HoldPcs, Told, Running
  <2>4. Leaving'
    BY <1>2, <1>5, <2>1 DEF Order, Leaving, PastTurn, PastAll, Running
  <2> QED BY <1>1, <1>3, <1>5, <2>2, <2>3, <2>4 DEF Order, Held
<1> QED BY <1>6, <1>7

\* Where a handler holds the lock before it gives up, cancels or cuts.
LEMMA CutHolds ==
  ASSUME Inv, Order, NEW p \in UserTasks
  PROVE  /\ StartCut(p) => /\ Holds(p) /\ (user[p].op = "send" => ~Running(activeTurn))
                           /\ ~MustCut(p) /\ user[p].op = "send" => ~push.open
         /\ (UserDropClose(p) \/ CutAbortDone(p)) =>
              /\ Holds(p) /\ user[p].push # 0 /\ ~Running(activeTurn)
              /\ push.open => push.id = user[p].push
<1>1. /\ user[p] \in UserRec /\ activeTurn \in 0..MaxTurns /\ Sender(p, user[p])
      /\ user[p].turn \in 0..MaxTurns
  BY DEF Inv, Typed, UserRec, OneSender
<1>2. Running(activeTurn) => activeTurn \in Tasks
  BY <1>1, BridgeAssumption DEF Running, Tasks
<1>3. ASSUME StartCut(p)
      PROVE  /\ Holds(p) /\ (user[p].op = "send" => ~Running(activeTurn))
             /\ ~MustCut(p) /\ user[p].op = "send" => ~push.open
  <2>1. Holds(p)
    BY <1>3 DEF StartCut, ReadyToCut, Order, Locks, HoldPcs
  <2>2. user[p].op = "send" => ~Running(activeTurn)
    BY <1>1, <1>3 DEF StartCut, ReadyToCut, TurnOver, Sender, Running
  <2>3. ~MustCut(p) /\ user[p].op = "send" => ~push.open
    BY DEF MustCut
  <2> QED BY <2>1, <2>2, <2>3
<1>4. ASSUME UserDropClose(p) \/ CutAbortDone(p)
      PROVE  /\ Holds(p) /\ user[p].push # 0 /\ ~Running(activeTurn)
             /\ push.open => push.id = user[p].push
  <2>1. user[p].pc \in CutPcs
    BY <1>4 DEF UserDropClose, CutAbortDone, CutPcs
  <2> QED BY <1>2, <2>1 DEF Order, Locks, HoldPcs, Held, Holding
<1> QED BY <1>3, <1>4

LEMMA OrderCut ==
  ASSUME Inv, Inv', Order, NEW p \in UserTasks, StartCut(p) \/ UserDropClose(p) \/ CutAbortDone(p)
  PROVE  Order'
<1> USE DEF turnVars, pushVars, closeVars, envVars
<1>1. /\ UNCHANGED <<activeId, closer, closeQ, closed, endAtClose, worker>>
      /\ user \in [UserTasks -> UserRec] /\ push \in PushRec /\ push.id \in Nat /\ push.tts \in Nat
      /\ user[p].push \in Nat /\ user[p].pc # "dead"
  BY DEF StartCut, ReadyToCut, UserDropClose, CutAbortDone, Inv, Typed, PushRec, UserRec
<1>2. CASE /\ StartCut(p)
           /\ \/ ~MustCut(p) /\ EndCut(p, 0)
              \/ MustCut(p) /\ EndCut(p, push.id)
  BY <1>1, <1>2, CutHolds, OrderEndCut
<1>3. CASE /\ StartCut(p) /\ MustCut(p)
           /\ user' = [user EXCEPT ![p].pc = IF push.tts # 0 THEN DropPc ELSE "cut_abort",
                                   ![p].push = push.id, ![p].tts = push.tts]
           /\ push' = IF push.tts # 0 THEN Dropped ELSE push
           /\ UNCHANGED <<turn, lockQ, log>>
  <2>1. /\ user'[p].pc \in CutPcs /\ user'[p].push = push.id
        /\ \A q \in UserTasks \ {p} : user'[q] = user[q]
    BY <1>1, <1>3 DEF DropPc, CutPcs, UserRec
  <2>2. push'.open = push.open /\ push'.id = push.id
    BY <1>1, <1>3 DEF Dropped, PushRec
  <2>3. push.open /\ Holds(p)
    BY <1>3, CutHolds DEF MustCut
  <2>4. Holding(user'[p])
    BY <2>1, <2>3 DEF Holding, Order, Apart, CutPcs
  <2>5. Locks'
    BY <1>1, <1>3, <2>1, <2>3, LocksUser DEF Order
  <2> QED BY <1>1, <1>3, <2>1, <2>2, <2>4, <2>5, OrderUserCalm
<1>4. CASE UserDropClose(p) /\ own
  <2>1. /\ user'[p] = [user[p] EXCEPT !.pc = "cut_abort"] /\ UNCHANGED <<turn, push, lockQ>>
        /\ \A q \in UserTasks \ {p} : user'[q] = user[q]
    BY <1>1, <1>4 DEF UserDropClose
  <2>2. user'[p].pc = "cut_abort" /\ user'[p].push = user[p].push /\ user[p].pc = "drop_close"
    BY <1>1, <1>4, <2>1 DEF UserRec, UserDropClose
  <2>3. Holding(user'[p]) /\ Holds(p)
    BY <1>4, <2>2, CutHolds DEF Holding, Order, Held, CutPcs
  <2>4. Locks'
    BY <1>1, <2>1, <2>3, LocksUser DEF Order
  <2> QED BY <1>1, <2>1, <2>3, <2>4, OrderUserCalm
<1>5. CASE (UserDropClose(p) /\ ~own) \/ CutAbortDone(p)
  <2>1. EndCut(p, user[p].push)
    BY <1>5 DEF UserDropClose, CutAbortDone
  <2> QED BY <1>1, <1>5, <2>1, CutHolds, OrderEndCut
<1>6. CASE StartCut(p)
  <2>1. CASE ~MustCut(p) /\ EndCut(p, 0)
    BY <1>2, <1>6, <2>1
  <2>2. CASE MustCut(p) /\ EndCut(p, push.id)
    BY <1>2, <1>6, <2>2
  <2>3. CASE /\ MustCut(p)
             /\ user' = [user EXCEPT ![p].pc = IF push.tts # 0 THEN DropPc ELSE "cut_abort",
                                     ![p].push = push.id, ![p].tts = push.tts]
             /\ push' = IF push.tts # 0 THEN Dropped ELSE push
             /\ UNCHANGED <<turn, lockQ, log>>
    BY <1>3, <1>6, <2>3
  <2> QED BY <1>6, <2>1, <2>2, <2>3 DEF StartCut
<1> QED BY <1>4, <1>5, <1>6
-----------------------------------------------------------------------------
LEMMA OrderAsk ==
  ASSUME Inv, Inv', Order, NEW p \in UserTasks,
         \/ p = "input" /\ SendCmd
         \/ SendAbandon(p)
         \/ UserDropAudio(p)
         \/ \E op \in {"cancel", "partial", "final"} : UserOp(p, op)
  PROVE  Order'
<1> USE DEF turnVars, pushVars, closeVars
<1>1. /\ UNCHANGED <<turn, activeId, closer, closeQ, closed, endAtClose, worker, push>>
      /\ user \in [UserTasks -> UserRec] /\ user[p] \in UserRec
  BY DEF SendCmd, SendAbandon, UserDropAudio, UserOp, Inv, Typed
<1>2. CASE p = "input" /\ SendCmd
  <2>1. /\ user'[p].pc = "send_lock" /\ \A q \in UserTasks \ {p} : user'[q] = user[q]
        /\ lockQ' = Append(lockQ, p) /\ user[p].pc = "idle"
    BY <1>1, <1>2 DEF SendCmd, Queued, NoOp
  <2>2. Locks' /\ Holding(user'[p])
    BY <1>1, <2>1, LocksUser DEF Order, HoldPcs, CutPcs, Holding
  <2> QED BY <1>1, <2>1, <2>2, OrderUserCalm
<1>3. CASE SendAbandon(p)
  <2>1. /\ user'[p].pc = "idle" /\ \A q \in UserTasks \ {p} : user'[q] = user[q]
        /\ lockQ' = Tail(lockQ) /\ Holds(p) /\ user[p].pc = "send_lock"
    BY <1>1, <1>3 DEF SendAbandon, NoOp
  <2>2. Locks' /\ Holding(user'[p])
    BY <1>1, <2>1, LocksUser DEF Order, HoldPcs, CutPcs, Holding
  <2> QED BY <1>1, <2>1, <2>2, OrderUserCalm
<1>4. CASE UserDropAudio(p)
  <2>1. /\ user'[p].pc = "drop_close" /\ user'[p].push = user[p].push
        /\ \A q \in UserTasks \ {p} : user'[q] = user[q]
        /\ lockQ' = lockQ /\ user[p].pc = "drop_audio"
    BY <1>1, <1>4 DEF UserDropAudio, UserRec
  <2>2. Holding(user'[p]) /\ Holds(p)
    BY <2>1 DEF Order, Held, Holding, CutPcs, Locks, HoldPcs
  <2>3. Locks'
    BY <1>1, <2>1, <2>2, LocksUser DEF Order
  <2> QED BY <1>1, <2>1, <2>2, <2>3, OrderUserCalm
<1>5. ASSUME NEW op \in {"cancel", "partial", "final"}, UserOp(p, op) PROVE Order'
  <2> DEFINE t   == IF Running(activeTurn) THEN activeTurn ELSE 0
  <2>1. /\ user'[p].pc = IF t # 0 THEN "cancel_lock" ELSE "cut_lock"
        /\ user'[p].turn = t /\ user'[p].id = IF t # 0 THEN activeId ELSE 0
        /\ \A q \in UserTasks \ {p} : user'[q] = user[q]
        /\ lockQ' = Append(lockQ, p) /\ user[p].pc = "idle"
    BY <1>1, <1>5 DEF UserOp, Queued, NoOp
  <2>2. Locks'
    BY <1>1, <2>1, LocksUser DEF Order, HoldPcs, CutPcs
  <2>3. Holding(user'[p])
    <3>1. CASE t = 0
      BY <2>1, <3>1 DEF Holding, CutPcs
    <3>2. CASE t # 0
      <4>1. turn[t].pc # "none" /\ t = activeTurn
        BY <3>2 DEF Running
      <4>2. activeId # 0 => Told(t) /\ turn[t].id = activeId
        <5> SUFFICES ASSUME activeId # 0 PROVE Told(t) /\ turn[t].id = activeId
          OBVIOUS
        <5>1. PICK o \in Tasks : Told(o)
          BY DEF Order, Apart
        <5>2. o = t
          BY <4>1, <5>1 DEF Told, Running, Inv, OneTurn, Tasks
        <5> QED BY <5>1, <5>2 DEF Order, Apart
      <4> QED BY <2>1, <3>2, <4>1, <4>2 DEF Holding, CutPcs
    <3> QED BY <3>1, <3>2
  <2> QED BY <1>1, <2>1, <2>2, <2>3, OrderUserCalm
<1> QED BY <1>2, <1>3, <1>4, <1>5

LEMMA OrderCancel ==
  ASSUME Inv, Inv', Order, NEW p \in UserTasks, SendReplace(p) \/ CancelHeld(p) \/ CancelDone(p)
  PROVE  Order'
<1> USE DEF turnVars, pushVars, closeVars
<1>1. /\ UNCHANGED <<activeId, closer, closeQ, closed, endAtClose, worker, push>>
      /\ user \in [UserTasks -> UserRec] /\ user[p] \in UserRec /\ activeTurn \in 0..MaxTurns
      /\ user[p].turn \in 0..MaxTurns /\ user[p].pc # "dead"
  BY DEF SendReplace, CancelHeld, CancelDone, Inv, Typed, UserRec
<1>2. ASSUME NEW t \in 0..MaxTurns, turn' = Cancelled(t)
      PROVE  \A o \in Tasks : turn'[o].pc = turn[o].pc /\ turn'[o].id = turn[o].id
  <2>1. turn \in [Tasks -> TurnRec]
    BY DEF Inv, Typed
  <2>2. CASE Running(t)
    <3>1. t \in Tasks /\ turn' = [turn EXCEPT ![t].cancel = TRUE]
      BY <1>2, <2>2, BridgeAssumption DEF Running, Cancelled, Tasks
    <3> QED BY <2>1, <3>1 DEF TurnRec
  <2>3. CASE ~Running(t)
    BY <1>2, <2>3 DEF Cancelled
  <2> QED BY <2>2, <2>3
<1>3. ASSUME AfterCancel(p), Holds(p), \A t \in Tasks : turn'[t].pc = turn[t].pc /\ turn'[t].id = turn[t].id
      PROVE  Order'
  <2>1. /\ user'[p].pc \in {"cut_lock", "idle"} /\ \A q \in UserTasks \ {p} : user'[q] = user[q]
        /\ lockQ' = Append(Tail(lockQ), p) \/ lockQ' = Tail(lockQ)
    BY <1>1, <1>3 DEF AfterCancel, NoOp, UserRec
  <2>2. Locks'
    BY <1>1, <1>3, <2>1, LocksUser DEF Order, HoldPcs, CutPcs
  <2>3. Holding(user'[p])
    BY <2>1 DEF Holding, CutPcs
  <2> QED BY <1>1, <1>3, <2>1, <2>2, <2>3, OrderUserCalm
<1>4. CASE SendReplace(p)
  <2>1. /\ user'[p].pc = "send_wait" /\ \A q \in UserTasks \ {p} : user'[q] = user[q]
        /\ lockQ' = lockQ /\ Holds(p) /\ turn' = Cancelled(activeTurn)
    BY <1>1, <1>4 DEF SendReplace, UserRec
  <2>2. Locks' /\ Holding(user'[p])
    BY <1>1, <2>1, LocksUser DEF Order, Holding, CutPcs
  <2> QED BY <1>1, <1>2, <2>1, <2>2, OrderUserCalm
<1>5. CASE CancelHeld(p) /\ Running(user[p].turn)
  <2>1. /\ user'[p].pc = "cancel_wait" /\ \A q \in UserTasks \ {p} : user'[q] = user[q]
        /\ user'[p].turn = user[p].turn /\ user'[p].id = user[p].id /\ user[p].pc = "cancel_lock"
        /\ lockQ' = lockQ /\ Holds(p) /\ turn' = Cancelled(user[p].turn)
    BY <1>1, <1>5 DEF CancelHeld, UserRec
  <2>2. Locks'
    BY <1>1, <2>1, LocksUser DEF Order
  <2>3. user[p].turn \in Tasks /\ ~push.open /\ \A t \in Tasks : Running(t) => t = user[p].turn
    BY <1>1, <1>5, BridgeAssumption DEF Running, Tasks, Inv, OneTurn, Order, Apart
  <2>4. Holding(user'[p])
    BY <2>1, <2>3 DEF Holding, CutPcs, Order, Held
  <2> QED BY <1>1, <1>2, <2>1, <2>2, <2>4, OrderUserCalm
<1>6. CASE CancelHeld(p) /\ ~Running(user[p].turn)
  BY <1>3, <1>6 DEF CancelHeld
<1>7. CASE CancelDone(p)
  <2>1. Holds(p) /\ UNCHANGED turn
    BY <1>7 DEF CancelDone, Order, Locks, HoldPcs
  <2>2. CASE user[p].op = "partial"
    <3>1. /\ user'[p].pc = "idle" /\ \A q \in UserTasks \ {p} : user'[q] = user[q]
          /\ lockQ' = Tail(lockQ)
      BY <1>1, <1>7, <2>2 DEF CancelDone, NoOp
    <3>2. Locks' /\ Holding(user'[p])
      BY <1>1, <2>1, <3>1, LocksUser DEF Order, HoldPcs, CutPcs, Holding
    <3> QED BY <1>1, <2>1, <3>1, <3>2, OrderUserCalm
  <2>3. CASE user[p].op # "partial"
    BY <1>3, <1>7, <2>1, <2>3 DEF CancelDone
  <2> QED BY <2>2, <2>3
<1> QED BY <1>4, <1>5, <1>6, <1>7

-----------------------------------------------------------------------------
\* What a step of the push worker does to the lock, the open push and the log.
WorkerOpens ==
  /\ Holds("worker") /\ lockQ' = Tail(lockQ) /\ ~Running(activeTurn)
  /\ ~push.open /\ push'.open /\ push'.id = seq + 1 /\ seq' = seq + 1
  /\ log' = Sent(<<Msg("turn_start", seq + 1)>>)

WorkerEnds ==
  /\ push.open /\ ~push'.open /\ push'.id = push.id
  /\ log' = Sent(<<Msg("turn_end", push.id)>>) /\ UNCHANGED <<lockQ, seq>>

WorkerRests ==
  /\ push'.open = push.open /\ push'.id = push.id /\ UNCHANGED <<log, seq>>
  /\ \/ lockQ' = lockQ
     \/ lockQ' = Append(lockQ, "worker")
     \/ Holds("worker") /\ lockQ' = Tail(lockQ)
-----------------------------------------------------------------------------
LEMMA SentNothing ==
  ASSUME NEW S, log \in Seq(S)
  PROVE  Sent(<<>>) = log
BY ConcatEmptySeq DEF Sent

LEMMA WorkerEffect ==
  ASSUME Inv, WorkerStep, NEW S, log \in Seq(S)
  PROVE  /\ worker.pc # "dead"
         /\ UNCHANGED <<turn, activeTurn, activeId, user, closer, closing, closed, closeQ, endAtClose,
                        gone, own>>
         /\ WorkerOpens \/ WorkerEnds \/ WorkerRests
<1> USE DEF turnVars, pushVars, closeVars, envVars
<1>1. /\ worker.pc # "dead"
      /\ UNCHANGED <<turn, activeTurn, activeId, user, closer, closing, closed, closeQ, endAtClose,
                     gone, own>>
  BY DEF WorkerStep, WorkerStart, WorkerWaited, WorkerLocked, WorkerConnected, WorkerChat,
         WorkerSent, WorkerSendFailed, WorkerEndEvent, WorkerEnded, WorkerEndFailed, WorkerDrained,
         WorkerClosedTts, WorkerDropAudio, WorkerDropClose, NextEvent, WorkerAt
<1> SUFFICES WorkerOpens \/ WorkerEnds \/ WorkerRests
  BY <1>1
<1>2. push \in PushRec /\ push.id \in Nat /\ push.open \in BOOLEAN
  BY DEF Inv, Typed, PushRec
<1>3. ASSUME NEW q \in {push, Dropped, [push EXCEPT !.audio = 0]}
      PROVE  q.open = push.open /\ q.id = push.id
  BY <1>2, <1>3 DEF Dropped, PushRec
\* The end of a push, in whatever else the bridge forgets with it.
<1>4. ASSUME NEW id, UNCHANGED <<lockQ, seq>>, log' = Sent(PushEndMsg(id)),
             push'.open = PushClosed(id).open, push'.id = PushClosed(id).id
      PROVE  WorkerEnds \/ WorkerRests
  <2>1. CASE PushIs(id)
    BY <1>2, <1>4, <2>1 DEF PushClosed, PushEndMsg, PushIs, PushRec, WorkerEnds
  <2>2. CASE ~PushIs(id)
    <3>1. log' = log
      BY <1>4, <2>2, SentNothing DEF PushEndMsg
    <3> QED BY <1>4, <2>2, <3>1 DEF PushClosed, WorkerRests
  <2> QED BY <2>1, <2>2
<1>5. ASSUME NEW id
      PROVE  /\ [PushClosed(id) EXCEPT !.audio = 0].open = PushClosed(id).open
             /\ [PushClosed(id) EXCEPT !.audio = 0].id = PushClosed(id).id
             /\ [PushClosed(id) EXCEPT !.tts = 0, !.audio = 0].open = PushClosed(id).open
             /\ [PushClosed(id) EXCEPT !.tts = 0, !.audio = 0].id = PushClosed(id).id
  BY <1>2 DEF PushClosed, PushRec
<1>6. ASSUME NEW id, CloseByWorker(id), UNCHANGED <<lockQ, seq>>
      PROVE  WorkerEnds \/ WorkerRests
  BY <1>4, <1>5, <1>6 DEF CloseByWorker
<1>7. ASSUME UNCHANGED <<lockQ, seq, log>>, push'.open = push.open, push'.id = push.id
      PROVE  WorkerRests
  BY <1>7 DEF WorkerRests
<1>8. CASE WorkerStart \/ WorkerWaited
  BY <1>8 DEF WorkerStart, WorkerWaited, WorkerRests
<1>9. CASE WorkerLocked
  <2>1. CASE ~Running(activeTurn) /\ ~push.open /\ OpenPush
    <3>1. \A n : [push EXCEPT !.open = TRUE, !.id = n].open /\ [push EXCEPT !.open = TRUE, !.id = n].id = n
      BY <1>2 DEF PushRec
    <3> QED BY <1>9, <2>1, <3>1 DEF WorkerLocked, OpenPush, WorkerOpens
  <2>2. CASE UNCHANGED <<seq, push, log>>
    BY <1>9, <2>2 DEF WorkerLocked, WorkerRests
  <2> QED BY <1>9, <2>1, <2>2 DEF WorkerLocked, OpenPush
<1>10. ASSUME NEW ok \in BOOLEAN, WorkerConnected(ok) PROVE WorkerRests
  <2>1. \A n : /\ [push EXCEPT !.tts = n, !.audio = n].open = push.open
               /\ [push EXCEPT !.tts = n, !.audio = n].id = push.id
    BY <1>2 DEF PushRec
  <2> QED BY <1>7, <1>10, <2>1 DEF WorkerConnected
<1>11. CASE WorkerChat \/ WorkerSent \/ WorkerDropAudio
  BY <1>7, <1>11 DEF WorkerChat, WorkerSent, WorkerDropAudio
<1>12. CASE WorkerSendFailed \/ WorkerEndFailed
  BY <1>3, <1>7, <1>12 DEF WorkerSendFailed, WorkerEndFailed, DropByWorker
<1>13. CASE WorkerEndEvent
  <2>1. CASE CloseByWorker(push.id)
    BY <1>6, <1>13, <2>1 DEF WorkerEndEvent
  <2>2. CASE UNCHANGED <<push, log>>
    BY <1>7, <1>13, <2>2 DEF WorkerEndEvent
  <2> QED BY <1>13, <2>1, <2>2 DEF WorkerEndEvent
<1>14. CASE WorkerEnded
  <2>1. CASE CloseByWorker(worker.id)
    BY <1>6, <1>14, <2>1 DEF WorkerEnded
  <2>2. CASE push' \in {push, [push EXCEPT !.audio = 0]} /\ UNCHANGED log
    BY <1>3, <1>7, <1>14, <2>2 DEF WorkerEnded
  <2> QED BY <1>14, <2>1, <2>2 DEF WorkerEnded, EndTail
<1>15. CASE WorkerDrained
  <2>1. CASE CloseByWorker(worker.id)
    BY <1>6, <1>15, <2>1 DEF WorkerDrained
  <2>2. CASE push' = [push EXCEPT !.audio = 0] /\ UNCHANGED log
    BY <1>3, <1>7, <1>15, <2>2 DEF WorkerDrained
  <2> QED BY <1>15, <2>1, <2>2 DEF WorkerDrained
<1>16. CASE WorkerClosedTts
  BY <1>4, <1>5, <1>16 DEF WorkerClosedTts
<1>17. CASE WorkerDropClose
  <2>1. CASE CloseByWorker(worker.id)
    BY <1>6, <1>17, <2>1 DEF WorkerDropClose
  <2>2. CASE UNCHANGED <<push, log>>
    BY <1>7, <1>17, <2>2 DEF WorkerDropClose
  <2> QED BY <1>17, <2>1, <2>2 DEF WorkerDropClose
<1> QED BY <1>1, <1>8, <1>9, <1>10, <1>11, <1>12, <1>13, <1>14, <1>15, <1>16, <1>17 DEF WorkerStep

LEMMA OrderWorker ==
  ASSUME Inv, Order, WorkerStep, NEW S, log \in Seq(S)
  PROVE  Order'
<1>1. /\ worker.pc # "dead"
      /\ UNCHANGED <<turn, activeTurn, activeId, user, closer, closed, closeQ, endAtClose>>
      /\ WorkerOpens \/ WorkerEnds \/ WorkerRests
  BY WorkerEffect
<1>2. ~PastTurn /\ ~PastAll
  BY <1>1 DEF Order, Leaving, PastTurn, PastAll, PastPcs
<1>3. lockQ \in Seq(Lockers) /\ "worker" \in Lockers
  BY DEF Order, Locks, Lockers
<1>4. /\ lockQ' \in Seq(Lockers)
      /\ \A p \in UserTasks : Holds(p) => Holds(p)'
  <2>1. CASE lockQ' = lockQ
    BY <1>3, <2>1 DEF Holds
  <2>2. CASE lockQ' = Append(lockQ, "worker")
    BY <1>3, <2>2, HeadStays DEF Holds
  <2>3. CASE Holds("worker") /\ lockQ' = Tail(lockQ)
    BY <1>3, <2>3, HeadStays DEF Holds, UserTasks
  <2> QED BY <1>1, <2>1, <2>2, <2>3 DEF WorkerOpens, WorkerEnds, WorkerRests
<1>5. Locks'
  BY <1>1, <1>4 DEF Order, Locks, HoldsClose
<1>6. Leaving'
  BY <1>1, <1>2 DEF Order, Leaving, PastTurn, PastAll
<1>7. CASE WorkerOpens
  <2>1. \A t \in Tasks : ~Running(t)
    BY <1>7 DEF WorkerOpens, Inv, OneTurn
  <2>2. \A p \in UserTasks : user[p].pc \notin HoldPcs
    BY <1>7 DEF WorkerOpens, Order, Locks, Holds, UserTasks
  <2>3. Apart'
    BY <1>1, <1>7, <2>1 DEF WorkerOpens, Order, Apart, Told, Running, Inv, Typed
  <2>4. Held'
    BY <1>1, <2>2 DEF Order, Held, Holding, HoldPcs, Told, Running
  <2> QED BY <1>5, <1>6, <2>3, <2>4 DEF Order
<1>8. CASE WorkerEnds \/ WorkerRests
  <2>1. push'.id = push.id /\ (push'.open => push.open)
    BY <1>8 DEF WorkerEnds, WorkerRests
  <2>2. Apart'
    BY <1>1, <2>1 DEF Order, Apart, Told, Running
  <2>3. Held'
    BY <1>1, <2>1 DEF Order, Held, Holding, Told, Running
  <2> QED BY <1>5, <1>6, <2>2, <2>3 DEF Order
<1> QED BY <1>1, <1>7, <1>8
-----------------------------------------------------------------------------
\* A caller of close_all moves on in its turn.
LEMMA CloserGoes ==
  ASSUME Inv, NEW c \in Closers, NEW pc, Closer(c, pc)
  PROVE  closer'[c].pc = pc /\ \A d \in Closers \ {c} : closer'[d] = closer[d]
BY DEF Inv, Typed, CloserRec, Closer

LEMMA OrderClose ==
  ASSUME Inv, Order, NEW c \in Closers, CloseCall(c) \/ CloseStep(c)
  PROVE  Order'
<1> USE DEF turnVars, pushVars, closeVars, envVars
<1>1. /\ closeQ \in Seq(Closers) /\ lockQ \in Seq(Lockers) /\ push \in PushRec /\ c \in Closers
      /\ turn \in [Tasks -> TurnRec] /\ user \in [UserTasks -> UserRec] /\ UNCHANGED activeId
      /\ closer \in [Closers -> CloserRec]
  BY DEF Order, Locks, Inv, Typed, CloseCall, CloseStep, CloseStart, CloseTurn, CloseWorker,
         ClosePushTts, CloseFinish
\* The steps that leave the turns, the user's tasks and the lock of the turns alone.
<1>2. ASSUME UNCHANGED <<turn, user, lockQ>>, push'.open = push.open, push'.id = push.id
      PROVE  /\ Apart' /\ Held'
             /\ \A p \in UserTasks : user'[p].pc \in HoldPcs => Holds(p)'
             /\ \A t \in Tasks : Running(t)' <=> Running(t)
  <2>1. Apart'
    BY <1>1, <1>2 DEF Order, Apart, Told, Running
  <2>2. Held'
    BY <1>1, <1>2 DEF Order, Held, Holding, Told, Running
  <2>3. \A p \in UserTasks : user'[p].pc \in HoldPcs => Holds(p)'
    BY <1>2 DEF Order, Locks, Holds
  <2> QED BY <1>2, <2>1, <2>2, <2>3 DEF Running
\* While one caller has the lock of the close, no other is inside.
<1>3. ASSUME HoldsClose(c)
      PROVE  \A d \in Closers \ {c} : closer[d].pc \notin InsidePcs
  BY <1>3 DEF Order, Locks, HoldsClose
<1>4. CASE CloseCall(c)
  <2>1. closer'[c].pc = "lock" /\ \A d \in Closers \ {c} : closer'[d] = closer[d]
    BY <1>4, CloserGoes DEF CloseCall
  <2>2. /\ UNCHANGED <<turn, user, lockQ, push, closed, endAtClose, worker>>
        /\ closeQ' = Append(closeQ, c) /\ closer[c].pc = "none"
    BY <1>4 DEF CloseCall
  <2>3. closeQ' \in Seq(Closers) /\ \A d \in Closers : HoldsClose(d) => HoldsClose(d)'
    BY <1>1, <2>2, HeadStays DEF HoldsClose
  <2>4. Locks'
    BY <1>1, <1>2, <2>1, <2>2, <2>3 DEF Order, Locks, InsidePcs, PastPcs
  <2>5. (PastTurn' <=> PastTurn) /\ (PastAll' <=> PastAll)
    BY <2>1, <2>2 DEF PastTurn, PastAll, PastPcs
  <2>6. Leaving'
    BY <1>2, <2>2, <2>5 DEF Order, Leaving
  <2> QED BY <1>2, <2>2, <2>4, <2>6 DEF Order
<1>5. CASE CloseStart(c) /\ closed
  <2>1. closer'[c].pc = "done" /\ \A d \in Closers \ {c} : closer'[d] = closer[d]
    BY <1>5, CloserGoes DEF CloseStart
  <2>2. /\ UNCHANGED <<turn, user, lockQ, push, closed, endAtClose, worker>>
        /\ closeQ' = Tail(closeQ) /\ closeQ # <<>> /\ HoldsClose(c)
    BY <1>5 DEF CloseStart, HoldsClose, ReleaseCloseLock
  <2>3. closeQ' \in Seq(Closers)
    BY <1>1, <2>2, HeadTailProperties
  <2>4. Locks'
    BY <1>1, <1>2, <1>3, <2>1, <2>2, <2>3 DEF Order, Locks, InsidePcs, PastPcs
  <2>5. (PastTurn' <=> PastTurn) /\ (PastAll' <=> PastAll)
    BY <1>5, <2>2 DEF PastTurn, PastAll
  <2>6. Leaving'
    BY <1>2, <2>2, <2>5 DEF Order, Leaving
  <2> QED BY <1>2, <2>2, <2>4, <2>6 DEF Order
<1>6. CASE CloseStart(c) /\ ~closed
  <2>1. /\ closer'[c].pc = "turn" /\ \A d \in Closers \ {c} : closer'[d] = closer[d]
    BY <1>1, <1>6 DEF CloseStart
  <2>2. /\ UNCHANGED <<user, lockQ, push, closed, endAtClose, worker, closeQ>>
        /\ turn' = Cancelled(activeTurn) /\ HoldsClose(c)
    BY <1>6 DEF CloseStart
  <2>3. \A o \in Tasks : turn'[o].pc = turn[o].pc /\ turn'[o].id = turn[o].id
    <3>1. CASE Running(activeTurn)
      <4>1. activeTurn \in Tasks /\ turn' = [turn EXCEPT ![activeTurn].cancel = TRUE]
        BY <2>2, <3>1, BridgeAssumption DEF Running, Cancelled, Tasks, Inv, Typed
      <4> QED BY <1>1, <4>1 DEF TurnRec
    <3>2. CASE ~Running(activeTurn)
      BY <2>2, <3>2 DEF Cancelled
    <3> QED BY <3>1, <3>2
  <2>4. \A o \in Tasks : (Running(o)' <=> Running(o)) /\ (Told(o)' <=> Told(o))
    BY <2>3 DEF Running, Told
  <2>5. Locks'
    BY <1>1, <1>6, <2>1, <2>2 DEF Order, Locks, HoldsClose, Holds
  <2>6. Apart'
    BY <1>1, <2>2, <2>3, <2>4 DEF Order, Apart
  <2>7. ASSUME NEW p \in UserTasks PROVE Holding(user[p])'
    <3>1. user[p].turn # 0 => user[p].turn \in Tasks
      BY <1>1, BridgeAssumption DEF UserRec, Tasks
    <3> QED BY <2>2, <2>3, <2>4, <3>1 DEF Order, Held, Holding
  <2>8. (PastTurn' <=> PastTurn) /\ (PastAll' <=> PastAll)
    BY <1>3, <1>6, <2>1, <2>2 DEF PastTurn, PastAll, InsidePcs, PastPcs, CloseStart
  <2>9. Leaving'
    BY <2>2, <2>3, <2>4, <2>8 DEF Order, Leaving
  <2> QED BY <2>5, <2>6, <2>7, <2>9 DEF Order, Held
<1>7. CASE CloseTurn(c)
  <2> DEFINE t == closer[c].turn
  <2>1. closer'[c].pc = "worker" /\ \A d \in Closers \ {c} : closer'[d] = closer[d]
    BY <1>7, CloserGoes DEF CloseTurn
  <2>2. /\ UNCHANGED <<turn, user, push, closed, closeQ>> /\ worker'.pc = "dead"
        /\ lockQ' = WithoutLock("worker") /\ closer[c].pc = "turn"
    BY <1>7 DEF CloseTurn, Getting
  <2>3. lockQ' \in Seq(Lockers) /\ \A p \in UserTasks : Holds(p) => Holds(p)'
    BY <1>1, <2>2, WithoutIt DEF Holds, Lockers, UserTasks
  <2>4. ~closed /\ HoldsClose(c)
    BY <2>2 DEF Order, Locks, InsidePcs
  <2>5. Locks'
    BY <1>1, <2>1, <2>2, <2>3, <2>4 DEF Order, Locks, HoldsClose, InsidePcs, PastPcs
  <2>6. Apart'
    BY <1>1, <2>2 DEF Order, Apart, Told, Running
  <2>7. Held'
    BY <1>1, <2>2 DEF Order, Held, Holding, Told, Running
  <2>8. \A o \in Tasks : Running(o) => turn[o].pc = "cleanup" /\ turn[o].id = endAtClose'
    <3>1. \A o \in Tasks : Running(o) => o = t
      BY <2>2 DEF Inv, Winding
    <3>2. CASE ~Running(t)
      BY <3>1, <3>2
    <3>3. CASE t # 0 /\ turn[t].pc = "cleanup" /\ EndAbandoned
      BY <3>1, <3>3 DEF EndAbandoned, Order, Apart, Told
    <3> QED BY <1>7, <3>2, <3>3 DEF CloseTurn
  <2>9. PastTurn' /\ (PastAll' <=> PastAll)
    BY <2>1, <2>2 DEF PastTurn, PastAll, PastPcs
  <2>10. Leaving'
    BY <2>2, <2>8, <2>9 DEF Order, Leaving, Running
  <2> QED BY <2>5, <2>6, <2>7, <2>10 DEF Order
<1>8. CASE CloseWorker(c)
  <2>1. closer'[c].pc = "push_tts" /\ \A d \in Closers \ {c} : closer'[d] = closer[d]
    BY <1>8, CloserGoes DEF CloseWorker
  <2>2. /\ UNCHANGED <<turn, user, lockQ, push, closed, closeQ, endAtClose, worker>>
        /\ closer[c].pc = "worker"
    BY <1>8 DEF CloseWorker
  <2>3. Locks'
    BY <1>1, <1>2, <2>1, <2>2 DEF Order, Locks, HoldsClose, InsidePcs, PastPcs
  <2>4. (PastTurn' <=> PastTurn) /\ (PastAll' <=> PastAll)
    BY <2>1, <2>2 DEF PastTurn, PastAll, PastPcs
  <2>5. Leaving'
    BY <1>2, <2>2, <2>4 DEF Order, Leaving
  <2> QED BY <1>2, <2>2, <2>3, <2>5 DEF Order
<1>9. CASE ClosePushTts(c)
  <2>1. closer'[c].pc = "tasks" /\ \A d \in Closers \ {c} : closer'[d] = closer[d]
    BY <1>9, CloserGoes DEF ClosePushTts
  <2>2. /\ UNCHANGED <<turn, closed, closeQ, endAtClose, worker>> /\ lockQ' = <<>>
        /\ user' = [p \in UserTasks |-> [NoOp EXCEPT !.pc = "dead"]]
        /\ push' = [PushClosed(push.id) EXCEPT !.tts = 0] /\ closer[c].pc = "push_tts"
    BY <1>9 DEF ClosePushTts
  <2>3. \A p \in UserTasks : user'[p].pc = "dead"
    BY <2>2 DEF NoOp
  <2>4. ~push'.open /\ push'.id = push.id
    BY <1>1, <2>2 DEF PushClosed, PushIs, PushRec
  <2>5. Locks'
    BY <1>1, <2>1, <2>2, <2>3 DEF Order, Locks, HoldsClose, InsidePcs, PastPcs, HoldPcs, CutPcs
  <2>6. Apart'
    BY <1>1, <2>2, <2>4 DEF Order, Apart, Told
  <2>7. Held'
    BY <2>3 DEF Held, Holding, CutPcs
  <2>8. PastTurn' <=> PastTurn
    BY <2>1, <2>2 DEF PastTurn, PastPcs
  <2>9. Leaving'
    BY <2>2, <2>3, <2>4, <2>8 DEF Order, Leaving, Running
  <2> QED BY <2>5, <2>6, <2>7, <2>9 DEF Order
<1>10. CASE CloseFinish(c)
  <2>1. closer'[c].pc = "done" /\ \A d \in Closers \ {c} : closer'[d] = closer[d]
    BY <1>10, CloserGoes DEF CloseFinish
  <2>2. /\ UNCHANGED <<turn, user, lockQ, push, endAtClose, worker>> /\ closed' = TRUE
        /\ closer[c].pc = "tasks" /\ closeQ' = Tail(closeQ)
    BY <1>10 DEF CloseFinish, ReleaseCloseLock
  <2>3. HoldsClose(c) /\ closeQ # <<>>
    BY <2>2 DEF Order, Locks, HoldsClose, InsidePcs, PastPcs
  <2>4. closeQ' \in Seq(Closers)
    BY <1>1, <2>2, <2>3, HeadTailProperties
  <2>5. Locks'
    BY <1>1, <1>2, <1>3, <2>1, <2>2, <2>3, <2>4 DEF Order, Locks, InsidePcs, PastPcs
  <2>6. PastTurn /\ PastAll /\ PastTurn' /\ PastAll'
    BY <2>2 DEF PastTurn, PastAll, PastPcs
  <2>7. Leaving'
    BY <1>2, <2>2, <2>6 DEF Order, Leaving
  <2> QED BY <1>2, <2>2, <2>5, <2>7 DEF Order
<1> QED BY <1>4, <1>5, <1>6, <1>7, <1>8, <1>9, <1>10 DEF CloseStep

-----------------------------------------------------------------------------
LEMMA OrderNext ==
  ASSUME Inv, Inv', Order, [Next]_vars, NEW S, log \in Seq(S)
  PROVE  Order'
<1> USE DEF turnVars, pushVars, closeVars, envVars
<1>1. CASE UNCHANGED vars
  BY <1>1, OrderSame DEF vars
<1>2. ASSUME NEW t \in Tasks, TurnStep(t) PROVE Order'
  BY <1>2, OrderTurn
<1>3. ASSUME NEW p \in UserTasks, UserStep(p) PROVE Order'
  BY <1>3, OrderAsk, OrderCancel, OrderCut DEF UserStep
<1>4. CASE WorkerStep
  BY <1>4, OrderWorker
<1>5. ASSUME NEW c \in Closers, CloseCall(c) \/ CloseStep(c) PROVE Order'
  BY <1>5, OrderClose
<1>6. CASE \/ SendCmd \/ UserOp("input", "cancel") \/ UserOp("stt", "partial")
           \/ UserOp("stt", "final")
  BY <1>6, OrderAsk DEF UserTasks
<1>7. CASE \/ \E kind \in {"turn_start", "chat", "turn_end"} : PushEvent(kind)
           \/ \E id \in Ids : AudioFrame(id) \/ AudioEnd(id)
           \/ ClientLeaves
  <2>1. UNCHANGED <<turn, activeId, user, closer, lockQ, closeQ, closed, endAtClose, push, worker>>
    BY <1>7 DEF PushEvent, AudioFrame, AudioEnd, ClientLeaves
  <2> QED BY <2>1, OrderSame
<1> QED BY <1>1, <1>2, <1>3, <1>4, <1>5, <1>6, <1>7 DEF Next, Environment
-----------------------------------------------------------------------------
(* The log.                                                                *)

LogRec == [type : {"turn_start", "turn_end", "interrupted", "session_end"}, id : Nat]

\* The last bracket of the log, and whether all it opened is closed.
LastIs(m) == LastBracket(Len(log), m)
Quiet     == NothingOpen(Len(log))

\* Where a message may stand at the end of the log.
Fits(m) ==
  /\ m.type = "turn_end" => LastIs(Msg("turn_start", m.id))
  /\ m.type = "turn_start" => Quiet /\ \A k \in 1..Len(log) : log[k].id < m.id
  /\ m.type = "interrupted" => Quiet /\ (m.id # 0 => LastIs(Msg("turn_end", m.id)))
  /\ m.type = "session_end" => Quiet
  /\ \A k \in 1..Len(log) : log[k].type # "session_end"

Heard == log \in Seq(LogRec) /\ TurnsWellBracketed /\ InterruptedInPlace /\ SessionEndsComplete

LEMMA MsgRec ==
  ASSUME NEW type \in {"turn_start", "turn_end", "interrupted", "session_end"}, NEW id \in Nat
  PROVE  Msg(type, id) \in LogRec /\ Msg(type, id).type = type /\ Msg(type, id).id = id
BY DEF Msg, LogRec

\* What a message at the end of the log changes.
LEMMA Appended ==
  ASSUME log \in Seq(LogRec), NEW m \in LogRec, log' = Append(log, m)
  PROVE  /\ log' \in Seq(LogRec) /\ Len(log') = Len(log) + 1 /\ log'[Len(log) + 1] = m
         /\ \A i \in 1..Len(log) : log'[i] = log[i]
         /\ \A i \in 0..Len(log) : /\ NothingOpen(i) => NothingOpen(i)'
                                   /\ \A x : LastBracket(i, x) => LastBracket(i, x)'
         /\ Bracket(m) => LastIs(m)'
         /\ ~Bracket(m) => \A x : LastIs(x) => LastIs(x)'
         /\ m.type = "turn_end" => Quiet'
         /\ m.type # "turn_start" /\ Quiet => Quiet'
<1> DEFINE n == Len(log)
<1>1. n \in Nat
  BY LenProperties
<1>2. /\ log' \in Seq(LogRec) /\ Len(log') = n + 1 /\ log'[n + 1] = m
      /\ \A i \in 1..n : log'[i] = log[i]
  BY AppendProperties
<1> HIDE DEF n
<1>3. ASSUME NEW i \in 0..n
      PROVE  /\ NothingOpen(i) => NothingOpen(i)'
             /\ \A x : LastBracket(i, x) => LastBracket(i, x)'
  <2>1. \A k \in 1..i : log'[k] = log[k]
    BY <1>1, <1>2
  <2>2. ASSUME NEW k \in 1..i, NEW j \in (k + 1)..i PROVE log'[j] = log[j]
    <3>1. j \in 1..i
      BY <1>1
    <3> QED BY <2>1, <3>1
  <2> QED BY <2>1, <2>2 DEF NothingOpen, LastBracket, Bracket
<1>4. Bracket(m) => LastIs(m)'
  <2>1. n + 1 \in 1..(n + 1) /\ \A j \in ((n + 1) + 1)..(n + 1) : FALSE
    BY <1>1
  <2> QED BY <1>2, <2>1 DEF LastIs, LastBracket
<1>5. ASSUME ~Bracket(m), NEW x, LastIs(x) PROVE LastIs(x)'
  <2>1. PICK k \in 1..n : log[k] = x /\ \A j \in (k + 1)..n : ~Bracket(log[j])
    BY <1>5 DEF LastIs, LastBracket, n
  <2>2. k \in 1..(n + 1) /\ log'[k] = x
    BY <1>1, <1>2, <2>1
  <2>3. ASSUME NEW j \in (k + 1)..(n + 1) PROVE ~Bracket(log'[j])
    <3>1. CASE j = n + 1
      BY <1>2, <1>5, <3>1
    <3>2. CASE j # n + 1
      <4>1. j \in (k + 1)..n /\ j \in 1..n
        BY <1>1, <2>1, <2>3, <3>2
      <4> QED BY <1>2, <2>1, <4>1
    <3> QED BY <3>1, <3>2
  <2> QED BY <1>2, <2>2, <2>3 DEF LastIs, LastBracket, Bracket
<1>6. ASSUME m.type # "turn_start", m.type = "turn_end" \/ Quiet PROVE Quiet'
  <2> SUFFICES ASSUME NEW k \in 1..(n + 1), log'[k].type = "turn_start"
               PROVE  \E j \in (k + 1)..(n + 1) : log'[j].type = "turn_end"
    BY <1>2 DEF Quiet, NothingOpen
  <2>1. k \in 1..n /\ log[k].type = "turn_start"
    BY <1>1, <1>2, <1>6
  <2>2. CASE m.type = "turn_end"
    <3>1. n + 1 \in (k + 1)..(n + 1)
      BY <1>1, <2>1
    <3> QED BY <1>2, <2>2, <3>1
  <2>3. CASE Quiet
    <3>1. PICK j \in (k + 1)..n : log[j].type = "turn_end"
      BY <2>1, <2>3 DEF Quiet, NothingOpen, n
    <3>2. j \in (k + 1)..(n + 1) /\ j \in 1..n
      BY <1>1, <2>1
    <3> QED BY <1>2, <3>1, <3>2
  <2> QED BY <1>6, <2>2, <2>3
<1>7. m.type = "turn_end" => m.type # "turn_start"
  OBVIOUS
<1> QED BY <1>2, <1>3, <1>4, <1>5, <1>6, <1>7 DEF n

\* Nothing is open after a turn_end that is the last bracket.
LEMMA EndedIsQuiet ==
  ASSUME log \in Seq(LogRec), NEW id \in Nat, LastIs(Msg("turn_end", id))
  PROVE  Quiet
<1> DEFINE n == Len(log)
<1>1. n \in Nat
  BY LenProperties
<1> HIDE DEF n
<1>2. PICK k \in 1..n : log[k] = Msg("turn_end", id) /\ \A j \in (k + 1)..n : ~Bracket(log[j])
  BY DEF LastIs, LastBracket, n
<1>3. log[k].type = "turn_end"
  BY <1>2, MsgRec
<1> SUFFICES ASSUME NEW i \in 1..n, log[i].type = "turn_start"
             PROVE  \E j \in (i + 1)..n : log[j].type = "turn_end"
  BY DEF Quiet, NothingOpen, n
<1>4. CASE i < k
  <2>1. k \in (i + 1)..n
    BY <1>1, <1>4
  <2> QED BY <1>3, <2>1
<1>5. CASE i > k
  <2>1. i \in (k + 1)..n
    BY <1>1, <1>5
  <2> QED BY <1>2, <2>1 DEF Bracket
<1> QED BY <1>1, <1>3, <1>4, <1>5

LEMMA HeardGrows ==
  ASSUME Heard, NEW m \in LogRec, Fits(m), log' = Append(log, m)
  PROVE  Heard'
<1> DEFINE n == Len(log)
<1>1. n \in Nat /\ log \in Seq(LogRec)
  BY LenProperties DEF Heard
<1>2. /\ log' \in Seq(LogRec) /\ Len(log') = n + 1 /\ log'[n + 1] = m
      /\ \A i \in 1..n : log'[i] = log[i]
      /\ \A i \in 0..n : /\ NothingOpen(i) => NothingOpen(i)'
                         /\ \A x : LastBracket(i, x) => LastBracket(i, x)'
      /\ ~Bracket(m) => \A x : LastIs(x) => LastIs(x)'
      /\ m.type # "turn_start" /\ Quiet => Quiet'
  BY <1>1, Appended
<1> HIDE DEF n
<1>3. \A i \in 1..(n + 1) : i \in 1..n \/ i = n + 1
  BY <1>1
<1>4. TurnsWellBracketed'
  <2> SUFFICES ASSUME NEW i \in 1..(n + 1)
               PROVE  /\ log'[i].type = "turn_end" =>
                           LastBracket(i - 1, Msg("turn_start", log[i].id))'
                      /\ log'[i].type = "turn_start" =>
                           /\ NothingOpen(i - 1)'
                           /\ \A k \in 1..(i - 1) : Bracket(log'[k]) => log'[k].id < log'[i].id
    BY <1>2 DEF TurnsWellBracketed
  <2>1. i - 1 \in 0..n /\ \A k \in 1..(i - 1) : k \in 1..n /\ log'[k] = log[k]
    BY <1>1, <1>2
  <2>2. CASE i \in 1..n
    BY <1>2, <2>1, <2>2 DEF Heard, TurnsWellBracketed, n
  <2>3. CASE i = n + 1
    <3>1. i - 1 = Len(log)
      BY <1>1, <2>3 DEF n
    <3> QED BY <1>2, <2>1, <2>3, <3>1 DEF Fits, LastIs, Quiet, n
  <2> QED BY <1>3, <2>2, <2>3
<1>5. InterruptedInPlace'
  <2> SUFFICES ASSUME NEW i \in 1..(n + 1), log'[i].type = "interrupted"
               PROVE  /\ NothingOpen(i)'
                      /\ log'[i].id # 0 => LastBracket(i, Msg("turn_end", log[i].id))'
    BY <1>2 DEF InterruptedInPlace
  <2>1. CASE i \in 1..n
    <3>1. i \in 0..n
      BY <1>1, <2>1
    <3> QED BY <1>2, <2>1, <3>1 DEF Heard, InterruptedInPlace, n
  <2>2. CASE i = n + 1
    <3>1. i = Len(log') /\ m.type = "interrupted" /\ ~Bracket(m) /\ log'[i] = m
      BY <1>2, <2>2 DEF Bracket
    <3> QED BY <1>2, <3>1 DEF Fits, LastIs, Quiet
  <2> QED BY <1>3, <2>1, <2>2
<1>6. SessionEndsComplete'
  <2> SUFFICES ASSUME NEW i \in 1..(n + 1), log'[i].type = "session_end"
               PROVE  i = n + 1 /\ NothingOpen(i)'
    BY <1>2 DEF SessionEndsComplete
  <2>1. i = n + 1
    BY <1>2, <1>3 DEF Fits, n
  <2> QED BY <1>2, <2>1 DEF Fits, Quiet
<1> QED BY <1>2, <1>4, <1>5, <1>6 DEF Heard
-----------------------------------------------------------------------------
(* The ids: none is ahead of _turn_seq.                                    *)

PushUpTo(q, n)   == q.id <= n /\ q.tts <= n /\ q.audio <= n
WorkerUpTo(w, n) == w.id <= n /\ w.tts <= n
UserUpTo(u, n)   == u.id <= n /\ u.push <= n /\ u.tts <= n
LogUpTo(n)       == log \in Seq(LogRec) /\ \A k \in 1..Len(log) : log[k].id <= n

UpToSeq ==
  /\ activeId <= seq /\ endAtClose \in 0..seq /\ \A t \in Tasks : turn[t].id <= seq
  /\ PushUpTo(push, seq) /\ WorkerUpTo(worker, seq) /\ \A p \in UserTasks : UserUpTo(user[p], seq)
  /\ LogUpTo(seq)

\* Messages about ids that exist leave only such in the log.
LEMMA SentUpTo ==
  ASSUME NEW n \in Nat, LogUpTo(n), NEW ms \in Seq(LogRec), \A k \in 1..Len(ms) : ms[k].id <= n,
         log' = Sent(ms)
  PROVE  log' \in Seq(LogRec) /\ \A k \in 1..Len(log') : log'[k].id <= n
<1>1. log \in Seq(LogRec) /\ Len(log) \in Nat /\ Len(ms) \in Nat
  BY LenProperties DEF LogUpTo
<1>2. CASE gone
  BY <1>2 DEF Sent, LogUpTo
<1>3. CASE ~gone
  <2>1. log' = log \o ms
    BY <1>3 DEF Sent
  <2>2. /\ log' \in Seq(LogRec) /\ Len(log') = Len(log) + Len(ms)
        /\ \A i \in 1..(Len(log) + Len(ms)) :
             log'[i] = IF i <= Len(log) THEN log[i] ELSE ms[i - Len(log)]
    BY <1>1, <2>1, ConcatProperties
  <2>3. ASSUME NEW k \in 1..(Len(log) + Len(ms)) PROVE log'[k].id <= n
    <3>1. CASE k <= Len(log)
      BY <1>1, <2>2, <2>3, <3>1 DEF LogUpTo
    <3>2. CASE ~(k <= Len(log))
      <4>1. k - Len(log) \in 1..Len(ms)
        BY <1>1, <3>2
      <4> QED BY <2>2, <2>3, <3>2, <4>1
    <3> QED BY <3>1, <3>2
  <2> QED BY <2>2, <2>3
<1> QED BY <1>2, <1>3

LEMMA UpToMore ==
  ASSUME NEW n \in Nat, NEW o \in Nat, n <= o, LogUpTo(n)
  PROVE  LogUpTo(o)
<1>1. ASSUME NEW k \in 1..Len(log) PROVE log[k].id <= o
  <2>1. log[k] \in LogRec
    BY <1>1, ElementOfSeq DEF LogUpTo
  <2>2. log[k].id \in Nat /\ log[k].id <= n
    BY <1>1, <2>1 DEF LogUpTo, LogRec
  <2> QED BY <2>2
<1> QED BY <1>1 DEF LogUpTo

\* The messages that are sent: one, that of the end of a push, or this and a barge-in.
LEMMA SmallMessages ==
  ASSUME NEW n \in Nat
  PROVE  /\ \A m \in LogRec : m.id <= n =>
              <<m>> \in Seq(LogRec) /\ \A k \in 1..Len(<<m>>) : <<m>>[k].id <= n
         /\ \A id \in 0..n : /\ PushEndMsg(id) \in Seq(LogRec)
                             /\ \A k \in 1..Len(PushEndMsg(id)) : PushEndMsg(id)[k].id <= n
         /\ \A id \in 0..n, b \in BOOLEAN :
              LET ms == PushEndMsg(id) \o IF b THEN <<Msg("interrupted", id)>> ELSE <<>>
              IN ms \in Seq(LogRec) /\ \A k \in 1..Len(ms) : ms[k].id <= n
<1>1. ASSUME NEW m \in LogRec, m.id <= n
      PROVE  <<m>> \in Seq(LogRec) /\ \A k \in 1..Len(<<m>>) : <<m>>[k].id <= n
  BY <1>1
<1>2. ASSUME NEW id \in 0..n, NEW type \in {"turn_end", "interrupted"}
      PROVE  Msg(type, id) \in LogRec /\ Msg(type, id).id = id
  BY MsgRec
<1>3. <<>> \in Seq(LogRec) /\ Len(<<>>) = 0
  OBVIOUS
<1>4. ASSUME NEW id \in 0..n
      PROVE  /\ PushEndMsg(id) \in Seq(LogRec)
             /\ \A k \in 1..Len(PushEndMsg(id)) : PushEndMsg(id)[k].id <= n
  <2>1. CASE PushIs(id)
    BY <1>1, <1>2, <2>1 DEF PushEndMsg
  <2>2. CASE ~PushIs(id)
    BY <1>3, <2>2 DEF PushEndMsg
  <2> QED BY <2>1, <2>2
<1>5. ASSUME NEW id \in 0..n, NEW b \in BOOLEAN
      PROVE  LET ms == PushEndMsg(id) \o IF b THEN <<Msg("interrupted", id)>> ELSE <<>>
             IN ms \in Seq(LogRec) /\ \A k \in 1..Len(ms) : ms[k].id <= n
  <2> DEFINE a == PushEndMsg(id)
             c == IF b THEN <<Msg("interrupted", id)>> ELSE <<>>
  <2>1. c \in Seq(LogRec) /\ \A k \in 1..Len(c) : c[k].id <= n
    <3>1. Msg("interrupted", id) \in LogRec /\ Msg("interrupted", id).id <= n
      BY <1>2
    <3>2. CASE b
      BY <1>1, <3>1, <3>2
    <3>3. CASE ~b
      BY <1>3, <3>3
    <3> QED BY <3>2, <3>3
  <2>2. a \in Seq(LogRec) /\ \A k \in 1..Len(a) : a[k].id <= n
    BY <1>4
  <2> HIDE DEF a, c
  <2>3. Len(a) \in Nat /\ Len(c) \in Nat
    BY <2>1, <2>2, LenProperties
  <2>4. /\ a \o c \in Seq(LogRec) /\ Len(a \o c) = Len(a) + Len(c)
        /\ \A i \in 1..(Len(a) + Len(c)) : (a \o c)[i] = IF i <= Len(a) THEN a[i] ELSE c[i - Len(a)]
    BY <2>1, <2>2, ConcatProperties
  <2>5. ASSUME NEW k \in 1..(Len(a) + Len(c)) PROVE (a \o c)[k].id <= n
    <3>1. CASE k <= Len(a)
      BY <2>2, <2>3, <2>4, <2>5, <3>1
    <3>2. CASE ~(k <= Len(a))
      <4>1. k - Len(a) \in 1..Len(c)
        BY <2>3, <3>2
      <4> QED BY <2>1, <2>4, <2>5, <3>2, <4>1
    <3> QED BY <3>1, <3>2
  <2> QED BY <2>4, <2>5 DEF a, c
<1> QED BY <1>1, <1>4, <1>5

LEMMA UpToTurn ==
  ASSUME Inv, UpToSeq, NEW t \in Tasks, TurnStep(t)
  PROVE  UpToSeq'
<1>1. /\ UNCHANGED <<push, user, worker, endAtClose>> /\ seq \in Nat /\ seq' \in {seq, seq + 1}
      /\ \A o \in Tasks \ {t} : turn'[o] = turn[o]
      /\ turn'[t].id \in {0, seq', turn[t].id} /\ activeId' \in {0, seq', activeId}
      /\ \/ log' = log
         \/ seq' = seq + 1 /\ log' = Sent(<<Msg("turn_start", seq + 1)>>)
         \/ log' = Sent(<<Msg("turn_end", turn[t].id)>>)
      /\ turn[t].id \in Nat /\ push \in PushRec /\ worker \in WorkerRec
      /\ user \in [UserTasks -> UserRec] /\ activeId \in Nat /\ turn \in [Tasks -> TurnRec]
  BY TurnEffect DEF Inv, Typed, TurnRec
<1>2. LogUpTo(seq) /\ LogUpTo(seq')
  <2>1. LogUpTo(seq) /\ seq' \in Nat /\ seq <= seq'
    BY <1>1 DEF UpToSeq
  <2> QED BY <1>1, <2>1, UpToMore
<1>3. LogUpTo(seq)'
  <2>1. CASE log' = log
    BY <1>2, <2>1 DEF LogUpTo
  <2>2. CASE seq' = seq + 1 /\ log' = Sent(<<Msg("turn_start", seq + 1)>>)
    <3>1. seq' \in Nat /\ Msg("turn_start", seq + 1) \in LogRec /\ Msg("turn_start", seq + 1).id <= seq'
      BY <1>1, <2>2, MsgRec
    <3> QED BY <1>2, <2>2, <3>1, SmallMessages, SentUpTo DEF LogUpTo
  <2>3. CASE log' = Sent(<<Msg("turn_end", turn[t].id)>>)
    <3>1. /\ seq' \in Nat /\ Msg("turn_end", turn[t].id) \in LogRec
          /\ Msg("turn_end", turn[t].id).id <= seq'
      BY <1>1, MsgRec DEF UpToSeq
    <3> QED BY <1>2, <2>3, <3>1, SmallMessages, SentUpTo DEF LogUpTo
  <2> QED BY <1>1, <2>1, <2>2, <2>3
<1>4. seq <= seq' /\ seq' \in Nat
  BY <1>1
<1> QED BY <1>1, <1>3, <1>4 DEF UpToSeq, PushUpTo, WorkerUpTo, UserUpTo, PushRec, WorkerRec, UserRec,
                               TurnRec
-----------------------------------------------------------------------------
LEMMA UpToUser ==
  ASSUME Inv, UpToSeq, NEW p \in UserTasks,
         \/ UserStep(p)
         \/ p = "input" /\ SendCmd
         \/ \E op \in {"cancel", "partial", "final"} : UserOp(p, op)
  PROVE  UpToSeq'
<1> USE DEF turnVars, pushVars, closeVars, envVars
<1>1. /\ UNCHANGED <<seq, activeId, endAtClose, worker>>
      /\ user \in [UserTasks -> UserRec] /\ user[p] \in UserRec /\ push \in PushRec /\ seq \in Nat
      /\ turn \in [Tasks -> TurnRec] /\ UserUpTo(user[p], seq) /\ PushUpTo(push, seq)
      /\ activeId \in 0..seq /\ push.id \in 0..seq /\ push.tts \in 0..seq /\ user[p].id \in 0..seq
      /\ user[p].push \in 0..seq /\ LogUpTo(seq) /\ activeTurn \in 0..MaxTurns
      /\ user[p].turn \in 0..MaxTurns
  BY DEF UserStep, SendAbandon, SendReplace, CancelHeld, CancelDone, StartCut, UserDropAudio,
         UserDropClose, CutAbortDone, SendCmd, UserOp, Inv, Typed, UpToSeq, UserUpTo, PushUpTo,
         UserRec, PushRec
<1>2. NoOp \in UserRec /\ UserUpTo(NoOp, seq)
  BY <1>1, BridgeAssumption DEF NoOp, UserRec, UserUpTo
<1>3. ASSUME \A q \in UserTasks \ {p} : user'[q] = user[q], UserUpTo(user'[p], seq),
             PushUpTo(push', seq), \A t \in Tasks : turn'[t].id = turn[t].id,
             log' \in Seq(LogRec) /\ \A k \in 1..Len(log') : log'[k].id <= seq
      PROVE  UpToSeq'
  <2>1. \A q \in UserTasks : UserUpTo(user'[q], seq)
    BY <1>3 DEF UpToSeq
  <2> QED BY <1>1, <1>3, <2>1 DEF UpToSeq, LogUpTo, UserUpTo, PushUpTo, WorkerUpTo
<1>4. log \in Seq(LogRec) /\ \A k \in 1..Len(log) : log[k].id <= seq
  BY <1>1 DEF LogUpTo
<1>5. ASSUME NEW t \in 0..MaxTurns, turn' = Cancelled(t)
      PROVE  \A o \in Tasks : turn'[o].id = turn[o].id
  <2>1. CASE Running(t)
    <3>1. t \in Tasks /\ turn' = [turn EXCEPT ![t].cancel = TRUE]
      BY <1>5, <2>1, BridgeAssumption DEF Running, Cancelled, Tasks
    <3> QED BY <1>1, <3>1 DEF TurnRec
  <2>2. CASE ~Running(t)
    BY <1>5, <2>2 DEF Cancelled
  <2> QED BY <2>1, <2>2
<1>6. ASSUME NEW id \in 0..seq, EndCut(p, id) PROVE UpToSeq'
  <2>1. user'[p] = NoOp /\ \A q \in UserTasks \ {p} : user'[q] = user[q]
    BY <1>1, <1>2, <1>6 DEF EndCut
  <2>2. PushUpTo(push', seq)
    BY <1>1, <1>6 DEF EndCut, PushClosed, PushUpTo, PushRec
  <2>3. \A t \in Tasks : turn'[t].id = turn[t].id
    BY <1>1, <1>6 DEF EndCut, TurnRec
  <2>4. log' \in Seq(LogRec) /\ \A k \in 1..Len(log') : log'[k].id <= seq
    <3> DEFINE b == user[p].op = "partial" /\ id # 0
               ms == PushEndMsg(id) \o IF b THEN <<Msg("interrupted", id)>> ELSE <<>>
    <3>1. ms \in Seq(LogRec) /\ \A k \in 1..Len(ms) : ms[k].id <= seq
      <4>1. b \in BOOLEAN
        OBVIOUS
      <4> HIDE DEF b
      <4> QED BY <1>1, <4>1, SmallMessages
    <3>2. log' = Sent(ms)
      BY <1>6 DEF EndCut
    <3> HIDE DEF ms
    <3> QED BY <1>1, <3>1, <3>2, SentUpTo
  <2> QED BY <1>2, <1>3, <2>1, <2>2, <2>3, <2>4
<1>7. CASE p = "input" /\ SendCmd
  <2>1. /\ user'[p] = [NoOp EXCEPT !.pc = "send_lock", !.op = "send"]
        /\ \A q \in UserTasks \ {p} : user'[q] = user[q]
        /\ UNCHANGED <<turn, push, log>>
    BY <1>1, <1>7 DEF SendCmd, Queued
  <2>2. UserUpTo(user'[p], seq)
    BY <1>1, <2>1 DEF UserUpTo, NoOp
  <2> QED BY <1>1, <1>3, <1>4, <2>1, <2>2
<1>8. ASSUME NEW op \in {"cancel", "partial", "final"}, UserOp(p, op) PROVE UpToSeq'
  <2> DEFINE t   == IF Running(activeTurn) THEN activeTurn ELSE 0
             pid == IF push.open /\ op # "final" THEN push.id ELSE 0
  <2>1. /\ user'[p] = [NoOp EXCEPT !.pc = IF t # 0 THEN "cancel_lock" ELSE "cut_lock", !.op = op,
                                   !.turn = t, !.id = IF t # 0 THEN activeId ELSE 0, !.push = pid]
        /\ \A q \in UserTasks \ {p} : user'[q] = user[q]
        /\ UNCHANGED <<turn, push, log>>
    BY <1>1, <1>8 DEF UserOp, Queued
  <2>2. UserUpTo(user'[p], seq)
    BY <1>1, <2>1 DEF UserUpTo, NoOp
  <2> QED BY <1>1, <1>3, <1>4, <2>1, <2>2
<1>9. CASE SendAbandon(p)
  <2>1. user'[p] = NoOp /\ \A q \in UserTasks \ {p} : user'[q] = user[q]
    BY <1>1, <1>2, <1>9 DEF SendAbandon
  <2> QED BY <1>1, <1>2, <1>3, <1>4, <1>9, <2>1 DEF SendAbandon
<1>10. CASE UserDropAudio(p)
  <2>1. UserUpTo(user'[p], seq) /\ \A q \in UserTasks \ {p} : user'[q] = user[q]
    BY <1>1, <1>10 DEF UserDropAudio, UserUpTo, UserRec
  <2> QED BY <1>1, <1>3, <1>4, <1>10, <2>1 DEF UserDropAudio
<1>11. CASE SendReplace(p)
  <2>1. UserUpTo(user'[p], seq) /\ \A q \in UserTasks \ {p} : user'[q] = user[q]
    BY <1>1, <1>11 DEF SendReplace, UserUpTo, UserRec
  <2> QED BY <1>1, <1>3, <1>4, <1>5, <1>11, <2>1 DEF SendReplace
<1>12. ASSUME AfterCancel(p)
       PROVE  UserUpTo(user'[p], seq) /\ \A q \in UserTasks \ {p} : user'[q] = user[q]
  <2>1. CASE user' = [user EXCEPT ![p].pc = "cut_lock"]
    BY <1>1, <2>1 DEF UserUpTo, UserRec
  <2>2. CASE user' = [user EXCEPT ![p] = NoOp]
    <3>1. user'[p] = NoOp /\ \A q \in UserTasks \ {p} : user'[q] = user[q]
      BY <1>1, <1>2, <2>2
    <3> QED BY <1>2, <3>1
  <2> QED BY <1>12, <2>1, <2>2 DEF AfterCancel
<1>13. CASE CancelHeld(p)
  <2>1. CASE Running(user[p].turn)
    <3>1. UserUpTo(user'[p], seq) /\ \A q \in UserTasks \ {p} : user'[q] = user[q]
      BY <1>1, <1>13, <2>1 DEF CancelHeld, UserUpTo, UserRec
    <3> QED BY <1>1, <1>3, <1>4, <1>5, <1>13, <2>1, <3>1 DEF CancelHeld
  <2>2. CASE ~Running(user[p].turn)
    BY <1>1, <1>3, <1>4, <1>12, <1>13, <2>2 DEF CancelHeld
  <2> QED BY <2>1, <2>2
<1>14. CASE CancelDone(p)
  <2>1. CASE user[p].op = "partial"
    <3>1. user'[p] = NoOp /\ \A q \in UserTasks \ {p} : user'[q] = user[q]
      BY <1>1, <1>2, <1>14, <2>1 DEF CancelDone
    <3>2. Msg("interrupted", user[p].id) \in LogRec /\ Msg("interrupted", user[p].id).id <= seq
      BY <1>1, MsgRec
    <3>3. log' = Sent(<<Msg("interrupted", user[p].id)>>)
      BY <1>14, <2>1 DEF CancelDone
    <3>4. log' \in Seq(LogRec) /\ \A k \in 1..Len(log') : log'[k].id <= seq
      BY <1>1, <3>2, <3>3, SmallMessages, SentUpTo
    <3> QED BY <1>1, <1>2, <1>3, <1>14, <3>1, <3>4 DEF CancelDone
  <2>2. CASE user[p].op # "partial"
    BY <1>1, <1>3, <1>4, <1>12, <1>14, <2>2 DEF CancelDone
  <2> QED BY <2>1, <2>2
<1>15. CASE StartCut(p)
  <2>1. CASE EndCut(p, 0) \/ EndCut(p, push.id)
    BY <1>1, <1>6, <2>1
  <2>2. CASE /\ user' = [user EXCEPT ![p].pc = IF push.tts # 0 THEN DropPc ELSE "cut_abort",
                                     ![p].push = push.id, ![p].tts = push.tts]
             /\ push' = IF push.tts # 0 THEN Dropped ELSE push
             /\ UNCHANGED <<turn, lockQ, log>>
    <3>1. UserUpTo(user'[p], seq) /\ \A q \in UserTasks \ {p} : user'[q] = user[q]
      BY <1>1, <2>2 DEF UserUpTo, UserRec
    <3>2. PushUpTo(push', seq)
      BY <1>1, <2>2 DEF PushUpTo, Dropped, PushRec
    <3> QED BY <1>3, <1>4, <2>2, <3>1, <3>2
  <2> QED BY <1>15, <2>1, <2>2 DEF StartCut
<1>16. CASE UserDropClose(p) /\ own
  <2>1. UserUpTo(user'[p], seq) /\ \A q \in UserTasks \ {p} : user'[q] = user[q]
    BY <1>1, <1>16 DEF UserDropClose, UserUpTo, UserRec
  <2> QED BY <1>1, <1>3, <1>4, <1>16, <2>1 DEF UserDropClose
<1>17. CASE (UserDropClose(p) /\ ~own) \/ CutAbortDone(p)
  <2>1. EndCut(p, user[p].push)
    BY <1>17 DEF UserDropClose, CutAbortDone
  <2> QED BY <1>1, <1>6, <2>1
<1> QED BY <1>7, <1>8, <1>9, <1>10, <1>11, <1>13, <1>14, <1>15, <1>16, <1>17 DEF UserStep
-----------------------------------------------------------------------------
\* The streams and audio tasks that the worker and the bridge name.
LEMMA WorkerIds ==
  ASSUME Inv, UpToSeq, WorkerStep
  PROVE  PushUpTo(push', seq') /\ WorkerUpTo(worker', seq')
<1> USE DEF turnVars, pushVars, closeVars, envVars
<1>1. /\ push \in PushRec /\ worker \in WorkerRec /\ seq \in Nat
      /\ push.id \in 0..seq /\ push.tts \in 0..seq /\ push.audio \in 0..seq
      /\ worker.id \in 0..seq /\ worker.tts \in 0..seq
  BY DEF Inv, Typed, UpToSeq, PushUpTo, WorkerUpTo, PushRec, WorkerRec
<1>2. PushUpTo(push, seq) /\ WorkerUpTo(worker, seq)
  BY DEF UpToSeq
<1>3. WorkerUpTo(Loop, seq) /\ WorkerUpTo(Getting, seq)
  BY <1>1 DEF WorkerUpTo, Loop, Getting
<1>4. /\ PushUpTo(Dropped, seq) /\ PushUpTo([push EXCEPT !.audio = 0], seq)
      /\ \A id \in Nat : /\ PushUpTo(PushClosed(id), seq)
                         /\ PushUpTo([PushClosed(id) EXCEPT !.audio = 0], seq)
                         /\ PushUpTo([PushClosed(id) EXCEPT !.tts = 0, !.audio = 0], seq)
  BY <1>1 DEF PushUpTo, Dropped, PushClosed, PushRec
<1>5. ASSUME NEW id \in 0..seq, CloseByWorker(id), UNCHANGED seq
      PROVE  PushUpTo(push', seq') /\ WorkerUpTo(worker', seq')
  <2>1. id \in Nat /\ push' = [PushClosed(id) EXCEPT !.audio = 0] /\ worker' = Loop /\ seq' = seq
    BY <1>1, <1>5 DEF CloseByWorker
  <2>2. PushUpTo([PushClosed(id) EXCEPT !.audio = 0], seq)
    BY <1>4, <2>1
  <2> QED BY <1>3, <2>1, <2>2
<1>6. ASSUME NEW ending \in BOOLEAN, DropByWorker(ending), UNCHANGED seq
      PROVE  PushUpTo(push', seq') /\ WorkerUpTo(worker', seq')
  <2>1. /\ push' = Dropped /\ seq' = seq
        /\ worker' = [worker EXCEPT !.pc = DropPc, !.tts = push.tts, !.ending = ending]
    BY <1>6 DEF DropByWorker
  <2>2. WorkerUpTo(worker', seq)
    BY <1>1, <2>1 DEF WorkerUpTo, WorkerRec
  <2> QED BY <1>4, <2>1, <2>2
<1>7. CASE WorkerStart \/ WorkerWaited \/ WorkerSent \/ WorkerDropAudio
  <2>1. CASE WorkerStart
    BY <1>1, <1>2, <2>1 DEF WorkerStart, WorkerUpTo, Getting
  <2>2. CASE WorkerWaited
    BY <1>1, <1>2, <2>2 DEF WorkerWaited, WorkerUpTo, WorkerRec
  <2>3. CASE WorkerSent
    BY <1>2, <1>3, <2>3 DEF WorkerSent
  <2>4. CASE WorkerDropAudio
    BY <1>1, <1>2, <2>4 DEF WorkerDropAudio, WorkerUpTo, WorkerRec
  <2> QED BY <1>7, <2>1, <2>2, <2>3, <2>4
<1>8. CASE WorkerLocked
  <2>1. CASE Running(activeTurn) \/ push.open
    <3>1. UNCHANGED <<seq, push>> /\ (worker' = Loop \/ worker' = [worker EXCEPT !.pc = "wait_turn"])
      BY <1>8, <2>1 DEF WorkerLocked, OpenPush
    <3>2. WorkerUpTo(worker', seq)
      BY <1>1, <1>3, <3>1 DEF WorkerUpTo, WorkerRec
    <3> QED BY <1>2, <3>1, <3>2
  <2>2. CASE ~Running(activeTurn) /\ ~push.open
    <3>1. /\ seq' = seq + 1 /\ push' = [push EXCEPT !.open = TRUE, !.id = seq + 1]
          /\ worker' = IF WithAudio THEN [Getting EXCEPT !.pc = "connect", !.id = seq + 1] ELSE Loop
      BY <1>8, <2>2 DEF WorkerLocked, OpenPush
    <3>2. PushUpTo(push', seq')
      BY <1>1, <3>1 DEF PushUpTo, PushRec
    <3>3. WorkerUpTo(worker', seq')
      BY <1>1, <3>1 DEF WorkerUpTo, Getting, Loop
    <3> QED BY <3>2, <3>3
  <2> QED BY <2>1, <2>2
<1>9. ASSUME NEW ok \in BOOLEAN, WorkerConnected(ok)
      PROVE  PushUpTo(push', seq') /\ WorkerUpTo(worker', seq')
  <2>1. PushUpTo([push EXCEPT !.tts = worker.id, !.audio = worker.id], seq)
    BY <1>1 DEF PushUpTo, PushRec
  <2> QED BY <1>2, <1>3, <1>9, <2>1 DEF WorkerConnected
<1>10. CASE WorkerChat
  <2>1. UNCHANGED <<seq, push>> /\ (worker' = worker \/ worker' = [Getting EXCEPT !.pc = "send"])
    BY <1>10 DEF WorkerChat
  <2>2. WorkerUpTo(worker', seq)
    BY <1>1, <1>2, <2>1 DEF WorkerUpTo, Getting
  <2> QED BY <1>2, <2>1, <2>2
<1>11. CASE WorkerSendFailed \/ WorkerEndFailed
  BY <1>2, <1>3, <1>6, <1>11 DEF WorkerSendFailed, WorkerEndFailed
<1>12. CASE WorkerEndEvent
  <2>1. WorkerUpTo([Getting EXCEPT !.pc = "end", !.id = push.id], seq)
    BY <1>1 DEF WorkerUpTo, Getting
  <2>2. CASE UNCHANGED <<push, log>>
    <3>1. seq' = seq /\ (worker' = worker \/ worker' = [Getting EXCEPT !.pc = "end", !.id = push.id]
                         \/ CloseByWorker(push.id))
      BY <1>12 DEF WorkerEndEvent
    <3> QED BY <1>1, <1>2, <1>5, <2>1, <2>2, <3>1
  <2>3. CASE CloseByWorker(push.id)
    BY <1>1, <1>5, <1>12, <2>3 DEF WorkerEndEvent
  <2> QED BY <1>12, <2>2, <2>3 DEF WorkerEndEvent
<1>13. CASE WorkerEnded
  <2>1. CASE CloseByWorker(worker.id)
    BY <1>1, <1>5, <1>13, <2>1 DEF WorkerEnded
  <2>2. CASE push.tts # 0
    <3>1. PICK pc \in {"drain", "close_tts"} :
            worker' = [worker EXCEPT !.pc = pc, !.id = worker.id, !.tts = push.tts]
      BY <1>13, <2>2 DEF WorkerEnded, EndTail
    <3>2. WorkerUpTo(worker', seq)
      BY <1>1, <3>1 DEF WorkerUpTo, WorkerRec
    <3>3. PushUpTo(push', seq) /\ UNCHANGED seq
      BY <1>2, <1>4, <1>13, <2>2 DEF WorkerEnded, EndTail
    <3> QED BY <3>2, <3>3
  <2> QED BY <1>13, <2>1, <2>2 DEF WorkerEnded, EndTail
<1>14. CASE WorkerDrained
  <2>1. CASE CloseByWorker(worker.id)
    BY <1>1, <1>5, <1>14, <2>1 DEF WorkerDrained
  <2>2. CASE push.tts # 0
    <3>1. /\ seq' = seq /\ push' = [push EXCEPT !.audio = 0]
          /\ worker' = [worker EXCEPT !.pc = "close_tts"]
      BY <1>14, <2>2 DEF WorkerDrained
    <3>2. WorkerUpTo(worker', seq)
      BY <1>1, <3>1 DEF WorkerUpTo, WorkerRec
    <3> QED BY <1>4, <3>1, <3>2
  <2> QED BY <1>14, <2>1, <2>2 DEF WorkerDrained
<1>15. CASE WorkerClosedTts
  <2>1. /\ worker.id \in Nat /\ worker' = Loop /\ seq' = seq
        /\ push' = [PushClosed(worker.id) EXCEPT !.tts = 0, !.audio = 0]
    BY <1>1, <1>15 DEF WorkerClosedTts
  <2>2. PushUpTo([PushClosed(worker.id) EXCEPT !.tts = 0, !.audio = 0], seq)
    BY <1>4, <2>1
  <2> QED BY <1>3, <2>1, <2>2
<1>16. CASE WorkerDropClose
  <2>1. CASE CloseByWorker(worker.id)
    BY <1>1, <1>5, <1>16, <2>1 DEF WorkerDropClose
  <2>2. CASE UNCHANGED <<push, log>> /\ worker' = Loop
    BY <1>2, <1>3, <1>16, <2>2 DEF WorkerDropClose
  <2> QED BY <1>16, <2>1, <2>2 DEF WorkerDropClose
<1> QED BY <1>7, <1>8, <1>9, <1>10, <1>11, <1>12, <1>13, <1>14, <1>15, <1>16 DEF WorkerStep

LEMMA UpToWorker ==
  ASSUME Inv, UpToSeq, WorkerStep
  PROVE  UpToSeq'
<1>1. /\ UNCHANGED <<turn, activeId, user, endAtClose>> /\ seq \in Nat
      /\ WorkerOpens \/ WorkerEnds \/ WorkerRests
      /\ turn \in [Tasks -> TurnRec] /\ user \in [UserTasks -> UserRec] /\ activeId \in Nat
      /\ push.id \in 0..seq /\ LogUpTo(seq)
  BY WorkerEffect DEF Inv, Typed, UpToSeq, LogUpTo, PushUpTo, PushRec
<1>2. seq' \in Nat /\ seq <= seq'
  BY <1>1 DEF WorkerOpens, WorkerEnds, WorkerRests
<1>3. LogUpTo(seq')
  BY <1>1, <1>2, UpToMore
<1>4. LogUpTo(seq)'
  <2>1. CASE WorkerOpens
    <3>1. /\ Msg("turn_start", seq + 1) \in LogRec /\ Msg("turn_start", seq + 1).id <= seq'
          /\ log' = Sent(<<Msg("turn_start", seq + 1)>>)
      BY <1>1, <2>1, MsgRec DEF WorkerOpens
    <3> QED BY <1>2, <1>3, <3>1, SmallMessages, SentUpTo DEF LogUpTo
  <2>2. CASE WorkerEnds
    <3>1. /\ Msg("turn_end", push.id) \in LogRec /\ Msg("turn_end", push.id).id <= seq'
          /\ log' = Sent(<<Msg("turn_end", push.id)>>)
      BY <1>1, <1>2, <2>2, MsgRec DEF WorkerEnds
    <3> QED BY <1>2, <1>3, <3>1, SmallMessages, SentUpTo DEF LogUpTo
  <2>3. CASE WorkerRests
    BY <1>3, <2>3 DEF WorkerRests, LogUpTo
  <2> QED BY <1>1, <2>1, <2>2, <2>3
<1>5. PushUpTo(push, seq)' /\ WorkerUpTo(worker, seq)'
  BY WorkerIds DEF PushUpTo, WorkerUpTo
<1>6. \A p \in UserTasks : UserUpTo(user[p], seq)'
  BY <1>1, <1>2 DEF UpToSeq, UserUpTo, UserRec
<1> QED BY <1>1, <1>2, <1>4, <1>5, <1>6 DEF UpToSeq, TurnRec

LEMMA UpToClose ==
  ASSUME Inv, UpToSeq, NEW c \in Closers, CloseCall(c) \/ CloseStep(c)
  PROVE  UpToSeq'
<1> USE DEF turnVars, pushVars, closeVars, envVars
<1>1. /\ UNCHANGED <<seq, activeId>> /\ push \in PushRec /\ worker \in WorkerRec /\ seq \in Nat
      /\ turn \in [Tasks -> TurnRec] /\ user \in [UserTasks -> UserRec] /\ LogUpTo(seq)
      /\ activeId \in 0..seq /\ push.id \in 0..seq
      /\ log \in Seq(LogRec) /\ \A k \in 1..Len(log) : log[k].id <= seq
  BY DEF CloseCall, CloseStep, CloseStart, CloseTurn, CloseWorker, ClosePushTts, CloseFinish,
         Inv, Typed, UpToSeq, PushUpTo, PushRec, LogUpTo
<1>2. ASSUME \A t \in Tasks : turn'[t].id = turn[t].id, PushUpTo(push', seq),
             WorkerUpTo(worker', seq), \A p \in UserTasks : UserUpTo(user'[p], seq),
             endAtClose' \in 0..seq,
             log' \in Seq(LogRec) /\ \A k \in 1..Len(log') : log'[k].id <= seq
      PROVE  UpToSeq'
  BY <1>1, <1>2 DEF UpToSeq, PushUpTo, WorkerUpTo, UserUpTo, LogUpTo
<1>3. /\ PushUpTo(push, seq) /\ WorkerUpTo(worker, seq) /\ endAtClose \in 0..seq
      /\ \A p \in UserTasks : UserUpTo(user[p], seq)
  BY DEF UpToSeq
<1>4. CASE CloseCall(c) \/ CloseWorker(c) \/ (CloseStart(c) /\ closed)
  BY <1>1, <1>2, <1>3, <1>4 DEF CloseCall, CloseWorker, CloseStart
<1>5. CASE CloseStart(c) /\ ~closed
  <2>1. turn' = Cancelled(activeTurn) /\ UNCHANGED <<push, worker, user, endAtClose, log>>
    BY <1>5 DEF CloseStart
  <2>2. \A o \in Tasks : turn'[o].id = turn[o].id
    <3>1. CASE Running(activeTurn)
      <4>1. activeTurn \in Tasks /\ turn' = [turn EXCEPT ![activeTurn].cancel = TRUE]
        BY <2>1, <3>1, BridgeAssumption DEF Running, Cancelled, Tasks, Inv, Typed
      <4> QED BY <1>1, <4>1 DEF TurnRec
    <3>2. CASE ~Running(activeTurn)
      BY <2>1, <3>2 DEF Cancelled
    <3> QED BY <3>1, <3>2
  <2> QED BY <1>1, <1>2, <1>3, <2>1, <2>2
<1>6. CASE CloseTurn(c)
  <2>1. UNCHANGED <<turn, push, user>> /\ WorkerUpTo(worker', seq)
    BY <1>1, <1>6 DEF CloseTurn, WorkerUpTo, Getting
  <2>2. CASE UNCHANGED <<endAtClose, log>>
    BY <1>1, <1>2, <1>3, <2>1, <2>2
  <2>3. CASE EndAbandoned
    <3>1. /\ Msg("turn_end", activeId) \in LogRec /\ Msg("turn_end", activeId).id <= seq
          /\ log' = Sent(<<Msg("turn_end", activeId)>>) /\ endAtClose' = activeId
      BY <1>1, <2>3, MsgRec DEF EndAbandoned
    <3>2. log' \in Seq(LogRec) /\ \A k \in 1..Len(log') : log'[k].id <= seq
      BY <1>1, <3>1, SmallMessages, SentUpTo
    <3> QED BY <1>1, <1>2, <1>3, <2>1, <3>1, <3>2
  <2> QED BY <1>6, <2>2, <2>3 DEF CloseTurn
<1>7. CASE ClosePushTts(c)
  <2>1. UNCHANGED <<turn, worker, endAtClose>> /\ \A p \in UserTasks : UserUpTo(user'[p], seq)
    BY <1>1, <1>7 DEF ClosePushTts, UserUpTo, NoOp
  <2>2. PushUpTo(push', seq)
    BY <1>1, <1>3, <1>7 DEF ClosePushTts, PushUpTo, PushClosed, PushRec
  <2>3. log' \in Seq(LogRec) /\ \A k \in 1..Len(log') : log'[k].id <= seq
    <3>1. log' = Sent(PushEndMsg(push.id))
      BY <1>7 DEF ClosePushTts
    <3>2. /\ PushEndMsg(push.id) \in Seq(LogRec)
          /\ \A k \in 1..Len(PushEndMsg(push.id)) : PushEndMsg(push.id)[k].id <= seq
      BY <1>1, SmallMessages
    <3> QED BY <1>1, <3>1, <3>2, SentUpTo
  <2> QED BY <1>2, <1>3, <2>1, <2>2, <2>3
<1>8. CASE CloseFinish(c)
  <2>1. UNCHANGED <<turn, push, worker, user, endAtClose>>
    BY <1>8 DEF CloseFinish
  <2>2. /\ Msg("session_end", 0) \in LogRec /\ Msg("session_end", 0).id <= seq
        /\ log' = Sent(<<Msg("session_end", 0)>>)
    BY <1>1, <1>8, MsgRec DEF CloseFinish
  <2>3. log' \in Seq(LogRec) /\ \A k \in 1..Len(log') : log'[k].id <= seq
    BY <1>1, <2>2, SmallMessages, SentUpTo
  <2> QED BY <1>1, <1>2, <1>3, <2>1, <2>3
<1> QED BY <1>4, <1>5, <1>6, <1>7, <1>8 DEF CloseStep

LEMMA UpToInit == Init => UpToSeq
<1> SUFFICES ASSUME Init PROVE UpToSeq
  OBVIOUS
<1>1. log \in Seq(LogRec) /\ Len(log) = 0
  BY DEF Init
<1> QED BY <1>1 DEF Init, UpToSeq, PushUpTo, WorkerUpTo, UserUpTo, LogUpTo, NoOp, Getting

LEMMA UpToNext == Inv /\ UpToSeq /\ [Next]_vars => UpToSeq'
<1> SUFFICES ASSUME Inv, UpToSeq, [Next]_vars PROVE UpToSeq'
  OBVIOUS
<1> USE DEF turnVars, pushVars, closeVars, envVars
<1>1. ASSUME NEW t \in Tasks, TurnStep(t) PROVE UpToSeq'
  BY <1>1, UpToTurn
<1>2. ASSUME NEW p \in UserTasks, UserStep(p) PROVE UpToSeq'
  BY <1>2, UpToUser
<1>3. CASE WorkerStep
  BY <1>3, UpToWorker
<1>4. ASSUME NEW c \in Closers, CloseCall(c) \/ CloseStep(c) PROVE UpToSeq'
  BY <1>4, UpToClose
<1>5. CASE \/ SendCmd \/ UserOp("input", "cancel") \/ UserOp("stt", "partial")
           \/ UserOp("stt", "final")
  BY <1>5, UpToUser DEF UserTasks
<1>6. CASE \/ \E kind \in {"turn_start", "chat", "turn_end"} : PushEvent(kind)
           \/ \E id \in Ids : AudioFrame(id) \/ AudioEnd(id)
           \/ ClientLeaves \/ UNCHANGED vars
  <2>1. UNCHANGED <<turn, activeId, seq, user, endAtClose, push, worker, log>>
    BY <1>6 DEF PushEvent, AudioFrame, AudioEnd, ClientLeaves, vars
  <2> QED BY <2>1 DEF UpToSeq, PushUpTo, WorkerUpTo, UserUpTo, LogUpTo
<1> QED BY <1>1, <1>2, <1>3, <1>4, <1>5, <1>6 DEF Next, Environment
-----------------------------------------------------------------------------
(* What the client was told is what goes on.                               *)

\* What a handler cut has had its turn_end.
EndedFor(u) ==
  /\ u.pc \in CutPcs /\ ~push.open => LastIs(Msg("turn_end", u.push))
  /\ u.pc = "cancel_wait" /\ u.id # 0 /\ ~Running(u.turn) => LastIs(Msg("turn_end", u.id))

\* The last bracket of the log is that of the turn or the push that goes on, if there is one.
UpToDate ==
  /\ \A t \in Tasks : Told(t) =>
       LastIs(Msg(IF turn[t].id = endAtClose THEN "turn_end" ELSE "turn_start", turn[t].id))
  /\ push.open => LastIs(Msg("turn_start", push.id))
  /\ ~push.open /\ (\A t \in Tasks : Told(t) => turn[t].id = endAtClose) => Quiet
  /\ \A p \in UserTasks : EndedFor(user[p])

\* A session_end is out only when the session is closed.
Over == (\E k \in 1..Len(log) : log[k].type = "session_end") => closed

Wire == Heard /\ Over /\ (~gone => UpToDate)

LEMMA LogSame ==
  ASSUME log' = log
  PROVE  (\A x : LastIs(x) => LastIs(x)') /\ (Quiet => Quiet')
BY DEF LastIs, LastBracket, Quiet, NothingOpen

\* A step that sends nothing.
LEMMA WireSame ==
  ASSUME Wire, log' = log, closed => closed', gone' = gone \/ gone', ~gone => UpToDate'
  PROVE  Wire'
<1>1. Heard'
  <2>1. /\ \A i, x : LastBracket(i, x) => LastBracket(i, x)'
        /\ \A i : NothingOpen(i) => NothingOpen(i)'
    BY DEF LastBracket, NothingOpen
  <2>2. TurnsWellBracketed'
    BY <2>1 DEF Wire, Heard, TurnsWellBracketed
  <2>3. InterruptedInPlace'
    BY <2>1 DEF Wire, Heard, InterruptedInPlace
  <2>4. SessionEndsComplete'
    BY <2>1 DEF Wire, Heard, SessionEndsComplete
  <2> QED BY <2>2, <2>3, <2>4 DEF Wire, Heard
<1>2. Over'
  BY DEF Wire, Over
<1> QED BY <1>1, <1>2 DEF Wire

\* A step that sends one message.
LEMMA WireSends ==
  ASSUME Wire, NEW m \in LogRec, log' = Sent(<<m>>), gone' = gone, closed => closed',
         m.type = "session_end" => closed', ~gone => Fits(m) /\ UpToDate'
  PROVE  Wire'
<1>1. log \in Seq(LogRec)
  BY DEF Wire, Heard
<1>2. CASE gone
  <2>1. log' = log
    BY <1>2 DEF Sent
  <2> QED BY <1>2, <2>1, WireSame
<1>3. CASE ~gone
  <2>1. log' = Append(log, m)
    BY <1>1, <1>3 DEF Sent
  <2>2. Heard'
    BY <1>3, <2>1, HeardGrows DEF Wire
  <2>3. /\ Len(log') = Len(log) + 1 /\ log'[Len(log) + 1] = m /\ Len(log) \in Nat
        /\ \A i \in 1..Len(log) : log'[i] = log[i]
    BY <1>1, <2>1, Appended, LenProperties
  <2>4. Over'
    <3>1. ASSUME NEW k \in 1..(Len(log) + 1) PROVE k = Len(log) + 1 \/ k \in 1..Len(log)
      BY <2>3
    <3> QED BY <2>3, <3>1 DEF Wire, Over
  <2> QED BY <1>3, <2>2, <2>4 DEF Wire
<1> QED BY <1>2, <1>3

\* A turn_end and the barge-in that caused it.
LEMMA HeardGrowsTwice ==
  ASSUME Heard, NEW id \in Nat, Fits(Msg("turn_end", id)),
         log' = log \o <<Msg("turn_end", id), Msg("interrupted", id)>>
  PROVE  /\ Heard' /\ Quiet' /\ LastIs(Msg("turn_end", id))'
         /\ \A k \in 1..Len(log') : log'[k].type # "session_end"
<1> DEFINE e == Msg("turn_end", id)
           b == Msg("interrupted", id)
<1>0. log \in Seq(LogRec)
  BY DEF Heard
<1>1. PICK n \in Nat : n = Len(log)
  BY <1>0, LenProperties
<1>2. /\ e \in LogRec /\ e.type = "turn_end" /\ e.id = id
      /\ b \in LogRec /\ b.type = "interrupted" /\ b.id = id
  BY MsgRec
<1> HIDE DEF e, b
<1>3. /\ log' \in Seq(LogRec) /\ Len(log') = n + 2 /\ log'[n + 1] = e /\ log'[n + 2] = b
      /\ \A i \in 1..n : log'[i] = log[i]
  <2> DEFINE s == <<e, b>>
  <2>1. s \in Seq(LogRec) /\ Len(s) = 2 /\ s[1] = e /\ s[2] = b
    BY <1>2
  <2> HIDE DEF s
  <2>2. /\ log \o s \in Seq(LogRec) /\ Len(log \o s) = Len(log) + Len(s)
        /\ \A i \in 1..(Len(log) + Len(s)) :
             (log \o s)[i] = IF i <= Len(log) THEN log[i] ELSE s[i - Len(log)]
    BY <1>0, <2>1, ConcatProperties
  <2>3. log' = log \o s
    BY DEF s, e, b
  <2>4. n + 1 \in 1..(n + 2) /\ n + 2 \in 1..(n + 2) /\ \A i \in 1..n : i \in 1..(n + 2) /\ i <= n
    BY <1>1
  <2>5. ~(n + 1 <= n) /\ ~(n + 2 <= n) /\ (n + 1) - n = 1 /\ (n + 2) - n = 2
    BY <1>1
  <2> QED BY <1>1, <2>1, <2>2, <2>3, <2>4, <2>5
<1>4. /\ LastBracket(n, Msg("turn_start", id)) /\ \A k \in 1..n : log[k].type # "session_end"
  BY <1>1, <1>2 DEF Fits, LastIs, e
<1>5. \A i \in 1..(n + 2) : i \in 1..n \/ i = n + 1 \/ i = n + 2
  BY <1>1
<1>6. ASSUME NEW i \in 0..n
      PROVE  /\ NothingOpen(i) => NothingOpen(i)'
             /\ \A x : LastBracket(i, x) => LastBracket(i, x)'
  <2>1. \A k \in 1..i : log'[k] = log[k]
    BY <1>1, <1>3
  <2>2. ASSUME NEW k \in 1..i, NEW j \in (k + 1)..i PROVE log'[j] = log[j]
    <3>1. j \in 1..i
      BY <1>1
    <3> QED BY <2>1, <3>1
  <2> QED BY <2>1, <2>2 DEF NothingOpen, LastBracket, Bracket
<1>7. ~Bracket(b) /\ LastBracket(n + 2, e)'
  <2>1. n + 1 \in 1..(n + 2) /\ \A j \in ((n + 1) + 1)..(n + 2) : j = n + 2
    BY <1>1
  <2>2. ~Bracket(b)
    BY <1>2 DEF Bracket
  <2> QED BY <1>3, <2>1, <2>2 DEF LastBracket, Bracket
<1>8. NothingOpen(n + 2)'
  <2> SUFFICES ASSUME NEW k \in 1..(n + 2), log'[k].type = "turn_start"
               PROVE  \E j \in (k + 1)..(n + 2) : log'[j].type = "turn_end"
    BY DEF NothingOpen
  <2>1. k \in 1..n
    BY <1>2, <1>3, <1>5
  <2>2. n + 1 \in (k + 1)..(n + 2)
    BY <1>1, <2>1
  <2> QED BY <1>2, <1>3, <2>2
<1>9. TurnsWellBracketed'
  <2> SUFFICES ASSUME NEW i \in 1..(n + 2)
               PROVE  /\ log'[i].type = "turn_end" =>
                           LastBracket(i - 1, Msg("turn_start", log[i].id))'
                      /\ log'[i].type = "turn_start" =>
                           /\ NothingOpen(i - 1)'
                           /\ \A k \in 1..(i - 1) : Bracket(log'[k]) => log'[k].id < log'[i].id
    BY <1>3 DEF TurnsWellBracketed
  <2>1. CASE i \in 1..n
    <3>1. i - 1 \in 0..n /\ \A k \in 1..(i - 1) : k \in 1..n /\ log'[k] = log[k]
      BY <1>1, <1>3, <2>1
    <3> QED BY <1>1, <1>3, <1>6, <2>1, <3>1 DEF Heard, TurnsWellBracketed
  <2>2. CASE i = n + 1
    <3>1. i - 1 = n /\ n \in 0..n
      BY <1>1, <2>2
    <3> QED BY <1>2, <1>3, <1>4, <1>6, <2>2, <3>1
  <2>3. CASE i = n + 2
    BY <1>2, <1>3, <2>3
  <2> QED BY <1>5, <2>1, <2>2, <2>3
<1>10. InterruptedInPlace'
  <2> SUFFICES ASSUME NEW i \in 1..(n + 2), log'[i].type = "interrupted"
               PROVE  /\ NothingOpen(i)'
                      /\ log'[i].id # 0 => LastBracket(i, Msg("turn_end", log[i].id))'
    BY <1>3 DEF InterruptedInPlace
  <2>1. CASE i \in 1..n
    <3>1. i \in 0..n
      BY <1>1, <2>1
    <3> QED BY <1>1, <1>3, <1>6, <2>1, <3>1 DEF Heard, InterruptedInPlace
  <2>2. CASE i = n + 1
    BY <1>2, <1>3, <2>2
  <2>3. CASE i = n + 2
    BY <1>2, <1>3, <1>7, <1>8, <2>3 DEF e
  <2> QED BY <1>5, <2>1, <2>2, <2>3
<1>11. \A k \in 1..(n + 2) : log'[k].type # "session_end"
  BY <1>2, <1>3, <1>4, <1>5
<1>12. SessionEndsComplete'
  BY <1>3, <1>11 DEF SessionEndsComplete
<1> QED BY <1>1, <1>3, <1>7, <1>8, <1>9, <1>10, <1>11, <1>12 DEF Heard, Quiet, LastIs, e
-----------------------------------------------------------------------------
\* No session_end is out as long as somebody may still send.
LEMMA NotOver ==
  ASSUME Wire, ~closed
  PROVE  \A k \in 1..Len(log) : log[k].type # "session_end"
BY DEF Wire, Over

LEMMA WireTurn ==
  ASSUME Inv, Order, UpToSeq, Wire, NEW t \in Tasks, TurnStep(t)
  PROVE  Wire'
<1>1. /\ UNCHANGED <<push, user, closed, endAtClose, gone>>
      /\ Running(t) /\ \A o \in Tasks \ {t} : turn'[o] = turn[o]
      /\ seq \in Nat /\ endAtClose \in 0..seq /\ turn[t].id \in Nat /\ 0 \notin Tasks
  <2>1. seq \in Nat /\ turn[t].id \in Nat /\ endAtClose \in 0..seq /\ 0 \notin Tasks
    BY DEF UpToSeq, Inv, Typed, TurnRec, Tasks
  <2> QED BY <2>1, TurnEffect
<1>2. \A o \in Tasks : (Running(o) => o = t) /\ (Told(o) => o = t)
  BY <1>1 DEF Inv, OneTurn, Told, Running
<1>3. ~push.open /\ \A p \in UserTasks : user[p].pc \notin CutPcs
  BY <1>1 DEF Order, Apart, Held, Holding
<1>4. ASSUME NEW p \in UserTasks, user[p].pc = "cancel_wait"
      PROVE  user[p].turn = t /\ (user[p].id # 0 => Told(t) /\ turn[t].id = user[p].id)
  <2>1. Holding(user[p])
    BY DEF Order, Held
  <2>2. user[p].turn = t
    BY <1>1, <1>4, <2>1 DEF Holding
  <2> QED BY <1>1, <1>4, <2>1, <2>2 DEF Holding
<1>5. \A k \in 1..Len(log) : log[k].id <= seq
  BY DEF UpToSeq, LogUpTo
<1>6. turn[t].pc = "created" \/ turn[t].id # endAtClose => ~closed
  BY <1>1 DEF Order, Leaving, PastTurn
<1>7. log \in Seq(LogRec)
  BY DEF Wire, Heard
<1>13. ASSUME NEW p \in UserTasks, NEW u, u = user[p],
              u.pc = "cancel_wait" /\ u.id # 0 => Running(t)' \/ LastIs(Msg("turn_end", u.id))'
       PROVE  EndedFor(user[p])'
  <2>1. u = user'[p] /\ u.pc \notin CutPcs /\ (u.pc = "cancel_wait" => u.turn = t)
    <3>1. u = user'[p] /\ u.pc \notin CutPcs
      BY <1>1, <1>3, <1>13
    <3> QED BY <1>4, <1>13, <3>1
  <2>2. EndedFor(u)'
    BY <1>13, <2>1 DEF EndedFor
  <2> QED BY <2>1, <2>2
<1>14. PICK n \in Nat : n = seq + 1
  BY <1>1
<1>8. CASE /\ turn[t].pc = "created" /\ turn'[t].pc = "running" /\ turn'[t].id = seq + 1
           /\ log' = Sent(<<Msg("turn_start", seq + 1)>>)
  <2> DEFINE m == Msg("turn_start", n)
  <2>1. m \in LogRec /\ m.type = "turn_start" /\ m.id = n
    BY <1>14, MsgRec
  <2>2. ASSUME ~gone PROVE Fits(m) /\ UpToDate'
    <3>1. Quiet
      BY <1>2, <1>3, <1>8, <2>2 DEF Wire, UpToDate, Told
    <3>2. Fits(m)
      <4>1. \A k \in 1..Len(log) : log[k].id < seq + 1
        <5> SUFFICES ASSUME NEW k \in 1..Len(log) PROVE log[k].id < seq + 1
          OBVIOUS
        <5>1. log[k] \in LogRec
          BY <1>7, ElementOfSeq
        <5>2. log[k].id \in Nat
          BY <5>1 DEF LogRec
        <5> QED BY <1>1, <1>5, <5>2
      <4> HIDE DEF m
      <4> QED BY <1>6, <1>8, <1>14, <2>1, <3>1, <4>1, NotOver DEF Fits
    <3>3. LastIs(m)'
      <4>1. log' = Append(log, m)
        BY <1>7, <1>8, <1>14, <2>2 DEF Sent
      <4> HIDE DEF m
      <4> QED BY <1>7, <2>1, <4>1, Appended DEF Bracket
    <3>4. turn'[t].id # endAtClose
      BY <1>1, <1>8
    <3>5. \A o \in Tasks : Told(o)' => o = t
      BY <1>1, <1>2 DEF Told
    <3>6. \A p \in UserTasks : EndedFor(user[p])'
      <4>1. Running(t)'
        BY <1>1, <1>8 DEF Running
      <4> QED BY <1>13, <4>1
    <3>7. Told(t)'
      BY <1>8 DEF Told
    <3>8. /\ ~push'.open
          /\ \A o \in Tasks : Told(o)' => turn'[o].id = n /\ turn'[o].id # endAtClose'
      BY <1>1, <1>3, <1>8, <1>14, <3>4, <3>5
    <3> QED BY <3>2, <3>3, <3>6, <3>7, <3>8 DEF UpToDate
  <2> HIDE DEF m
  <2> QED BY <1>1, <1>8, <1>14, <2>1, <2>2, WireSends DEF m
<1>9. CASE turn[t].pc = "created" /\ turn'[t].pc = "done" /\ UNCHANGED log
  <2>1. ASSUME ~gone PROVE UpToDate'
    <3>1. \A o \in Tasks : ~Told(o) /\ ~Told(o)'
      BY <1>1, <1>2, <1>9 DEF Told
    <3>2. \A p \in UserTasks : EndedFor(user[p])'
      BY <1>4, <1>13, <3>1
    <3>3. Quiet'
      BY <1>3, <1>9, <2>1, <3>1, LogSame DEF Wire, UpToDate
    <3> QED BY <1>1, <1>3, <3>1, <3>2, <3>3 DEF UpToDate
  <2> QED BY <1>1, <1>9, <2>1, WireSame
<1>10. CASE turn[t].pc = "running" /\ turn'[t].pc = "cleanup" /\ turn'[t].id = turn[t].id /\ UNCHANGED log
  <2>1. ASSUME ~gone PROVE UpToDate'
    <3>1. \A o \in Tasks : (Told(o)' <=> Told(o)) /\ turn'[o].id = turn[o].id
      BY <1>1, <1>10 DEF Told
    <3>2. \A p \in UserTasks : EndedFor(user[p])'
      <4>1. Running(t)'
        BY <1>1, <1>10 DEF Running
      <4> QED BY <1>13, <4>1
    <3> QED BY <1>1, <1>3, <1>10, <2>1, <3>1, <3>2, LogSame DEF Wire, UpToDate
  <2> QED BY <1>1, <1>10, <2>1, WireSame
<1>11. CASE turn[t].pc = "cleanup" /\ turn'[t].pc = "done" /\ endAtClose = turn[t].id /\ UNCHANGED log
  <2>1. ASSUME ~gone PROVE UpToDate'
    <3>1. \A o \in Tasks : ~Told(o)'
      BY <1>1, <1>2, <1>11 DEF Told
    <3>2. LastIs(Msg("turn_end", turn[t].id)) /\ Quiet
      BY <1>2, <1>3, <1>11, <2>1 DEF Wire, UpToDate, Told
    <3>3. \A p \in UserTasks : EndedFor(user[p])'
      <4>1. ASSUME NEW p \in UserTasks, NEW u, u = user[p], u.pc = "cancel_wait", u.id # 0
            PROVE  LastIs(Msg("turn_end", u.id))'
        BY <1>4, <1>11, <3>2, <4>1, LogSame
      <4> QED BY <1>13, <4>1
    <3> QED BY <1>1, <1>3, <1>11, <3>1, <3>2, <3>3, LogSame DEF UpToDate
  <2> QED BY <1>1, <1>11, <2>1, WireSame
<1>12. CASE /\ turn[t].pc = "cleanup" /\ turn'[t].pc = "done" /\ endAtClose # turn[t].id
            /\ log' = Sent(<<Msg("turn_end", turn[t].id)>>)
  <2> DEFINE m == Msg("turn_end", turn[t].id)
  <2>1. m \in LogRec /\ m.type = "turn_end" /\ m.id = turn[t].id
    BY <1>1, MsgRec
  <2>2. ASSUME ~gone PROVE Fits(m) /\ UpToDate'
    <3>1. LastIs(Msg("turn_start", turn[t].id))
      BY <1>12, <2>2 DEF Wire, UpToDate, Told
    <3>2. Fits(m)
      <4> HIDE DEF m
      <4> QED BY <1>6, <1>12, <2>1, <3>1, NotOver DEF Fits
    <3>3. \A o \in Tasks : ~Told(o)'
      BY <1>1, <1>2, <1>12 DEF Told
    <3>4. PICK i : i = turn[t].id
      OBVIOUS
    <3>5. LastIs(Msg("turn_end", i))' /\ Quiet'
      <4>1. /\ Msg("turn_end", i) \in LogRec /\ Msg("turn_end", i).type = "turn_end"
            /\ log' = Append(log, Msg("turn_end", i))
        BY <1>7, <1>12, <2>1, <2>2, <3>4 DEF Sent
      <4> QED BY <1>7, <4>1, Appended DEF Bracket
    <3>6. \A p \in UserTasks : EndedFor(user[p])'
      <4>1. ASSUME NEW p \in UserTasks, NEW u, u = user[p], u.pc = "cancel_wait", u.id # 0
            PROVE  u.id = i
        BY <1>4, <3>4, <4>1
      <4> QED BY <1>13, <3>5, <4>1
    <3> QED BY <1>1, <1>3, <3>2, <3>3, <3>5, <3>6 DEF UpToDate
  <2> HIDE DEF m
  <2> QED BY <1>1, <1>12, <2>1, <2>2, WireSends DEF m
<1> QED BY TurnEffect, <1>8, <1>9, <1>10, <1>11, <1>12
-----------------------------------------------------------------------------
\* A handler that sends nothing, and neither starts nor ends a turn or a push.
LEMMA WireCalm ==
  ASSUME Inv, Wire, NEW p \in UserTasks, \A q \in UserTasks \ {p} : user'[q] = user[q],
         \A t \in Tasks : turn'[t].pc = turn[t].pc /\ turn'[t].id = turn[t].id,
         UNCHANGED <<closed, endAtClose, gone, log>>, push'.open = push.open, push'.id = push.id,
         user'[p].pc \in CutPcs /\ ~push.open =>
           user[p].pc \in CutPcs /\ user'[p].push = user[p].push,
         user'[p].pc # "cancel_wait"
           \/ (user'[p].turn \in Tasks /\ Running(user'[p].turn))
  PROVE  Wire'
<1>1. \A t \in Tasks : (Running(t)' <=> Running(t)) /\ (Told(t)' <=> Told(t))
  BY DEF Running, Told
<1>2. \A x : LastIs(x) => LastIs(x)'
  BY LogSame
<1>3. ASSUME UpToDate PROVE UpToDate'
  <2>1. ASSUME NEW q \in UserTasks PROVE EndedFor(user[q])'
    <3>1. PICK u : u = user'[q]
      OBVIOUS
    <3>2. CASE q = p
      <4>1. u.pc \in CutPcs /\ ~push.open => LastIs(Msg("turn_end", u.push))
        BY <1>3, <3>1, <3>2 DEF UpToDate, EndedFor
      <4>2. u.pc = "cancel_wait" => Running(u.turn)'
        BY <1>1, <3>1, <3>2
      <4>3. EndedFor(u)'
        BY <1>2, <4>1, <4>2 DEF EndedFor
      <4> QED BY <3>1, <4>3
    <3>3. CASE q # p
      <4>1. u = user[q] /\ EndedFor(u)
        BY <1>3, <3>1, <3>3 DEF UpToDate
      <4>2. u.turn = 0 \/ u.turn \in Tasks
        BY <4>1, BridgeAssumption DEF Inv, Typed, UserRec, Tasks
      <4>3. Running(u.turn)' => Running(u.turn)
        BY <1>1, <4>2 DEF Running
      <4>4. Running(u.turn) => Running(u.turn)'
        BY <1>1, <4>2 DEF Running
      <4>5. EndedFor(u)'
        BY <1>2, <4>1, <4>3, <4>4 DEF EndedFor
      <4> QED BY <3>1, <4>5
    <3> QED BY <3>2, <3>3
  <2> QED BY <1>1, <1>3, <2>1, LogSame DEF UpToDate
<1> QED BY <1>3, WireSame DEF Wire

LEMMA WireAsk ==
  ASSUME Inv, Order, Wire, NEW p \in UserTasks,
         \/ p = "input" /\ SendCmd
         \/ SendAbandon(p)
         \/ UserDropAudio(p)
         \/ \E op \in {"cancel", "partial", "final"} : UserOp(p, op)
  PROVE  Wire'
<1> USE DEF turnVars, pushVars, closeVars, envVars
<1>1. /\ UNCHANGED <<turn, closed, endAtClose, gone, log, push>>
      /\ user \in [UserTasks -> UserRec] /\ user[p] \in UserRec
  BY DEF SendCmd, SendAbandon, UserDropAudio, UserOp, Inv, Typed
<1>2. CASE UserDropAudio(p)
  <2>1. /\ user'[p].pc = "drop_close" /\ user'[p].push = user[p].push
        /\ \A q \in UserTasks \ {p} : user'[q] = user[q]
        /\ user[p].pc = "drop_audio"
    BY <1>1, <1>2 DEF UserDropAudio, UserRec
  <2> QED BY <1>1, <2>1, WireCalm DEF CutPcs
<1>3. CASE SendAbandon(p)
  <2>1. user'[p].pc = "idle" /\ \A q \in UserTasks \ {p} : user'[q] = user[q]
    BY <1>1, <1>3 DEF SendAbandon, NoOp
  <2> QED BY <1>1, <2>1, WireCalm DEF CutPcs
<1>5. CASE p = "input" /\ SendCmd
  <2>1. user'[p].pc = "send_lock" /\ \A q \in UserTasks \ {p} : user'[q] = user[q]
    BY <1>1, <1>5 DEF SendCmd, Queued, NoOp
  <2> QED BY <1>1, <2>1, WireCalm DEF CutPcs
<1>4. ASSUME NEW op \in {"cancel", "partial", "final"}, UserOp(p, op) PROVE Wire'
  <2>1. /\ user'[p].pc \in {"cancel_lock", "cut_lock"}
        /\ \A q \in UserTasks \ {p} : user'[q] = user[q]
    BY <1>1, <1>4 DEF UserOp, Queued, NoOp
  <2> QED BY <1>1, <2>1, WireCalm DEF CutPcs
<1> QED BY <1>2, <1>3, <1>4, <1>5

LEMMA WireCancel ==
  ASSUME Inv, Order, Wire, NEW p \in UserTasks, SendReplace(p) \/ CancelHeld(p) \/ CancelDone(p)
  PROVE  Wire'
<1> USE DEF turnVars, pushVars, closeVars, envVars
<1>1. /\ UNCHANGED <<closed, endAtClose, gone, push>>
      /\ user \in [UserTasks -> UserRec] /\ user[p] \in UserRec /\ activeTurn \in 0..MaxTurns
      /\ user[p].turn \in 0..MaxTurns /\ user[p].pc # "dead"
  BY DEF SendReplace, CancelHeld, CancelDone, Inv, Typed, UserRec
<1>2. ASSUME NEW t \in 0..MaxTurns, turn' = Cancelled(t)
      PROVE  \A o \in Tasks : turn'[o].pc = turn[o].pc /\ turn'[o].id = turn[o].id
  <2>1. turn \in [Tasks -> TurnRec]
    BY DEF Inv, Typed
  <2>2. CASE Running(t)
    <3>1. t \in Tasks /\ turn' = [turn EXCEPT ![t].cancel = TRUE]
      BY <1>2, <2>2, BridgeAssumption DEF Running, Cancelled, Tasks
    <3> QED BY <2>1, <3>1 DEF TurnRec
  <2>3. CASE ~Running(t)
    BY <1>2, <2>3 DEF Cancelled
  <2> QED BY <2>2, <2>3
<1>3. ASSUME AfterCancel(p), UNCHANGED <<turn, log>> PROVE Wire'
  <2>1. user'[p].pc \in {"cut_lock", "idle"} /\ \A q \in UserTasks \ {p} : user'[q] = user[q]
    BY <1>1, <1>3 DEF AfterCancel, NoOp, UserRec
  <2> QED BY <1>1, <1>3, <2>1, WireCalm DEF CutPcs
<1>4. CASE SendReplace(p)
  <2>1. /\ user'[p].pc = "send_wait" /\ \A q \in UserTasks \ {p} : user'[q] = user[q]
        /\ turn' = Cancelled(activeTurn) /\ UNCHANGED log
    BY <1>1, <1>4 DEF SendReplace, UserRec
  <2> QED BY <1>1, <1>2, <2>1, WireCalm DEF CutPcs
<1>5. CASE CancelHeld(p) /\ Running(user[p].turn)
  <2>1. /\ user'[p].pc = "cancel_wait" /\ \A q \in UserTasks \ {p} : user'[q] = user[q]
        /\ user'[p].turn = user[p].turn /\ turn' = Cancelled(user[p].turn) /\ UNCHANGED log
    BY <1>1, <1>5 DEF CancelHeld, UserRec
  <2>2. user[p].turn \in Tasks
    BY <1>1, <1>5, BridgeAssumption DEF Running, Tasks
  <2> QED BY <1>1, <1>2, <1>5, <2>1, <2>2, WireCalm DEF CutPcs
<1>6. CASE CancelHeld(p) /\ ~Running(user[p].turn)
  BY <1>3, <1>6 DEF CancelHeld
<1>7. CASE CancelDone(p) /\ user[p].op # "partial"
  BY <1>3, <1>7 DEF CancelDone
<1>8. CASE CancelDone(p) /\ user[p].op = "partial"
  <2>1. /\ UNCHANGED turn /\ user'[p].pc = "idle"
        /\ \A q \in UserTasks \ {p} : user'[q] = user[q]
        /\ user[p].pc = "cancel_wait" /\ ~Running(user[p].turn)
        /\ log' = Sent(<<Msg("interrupted", user[p].id)>>)
    BY <1>1, <1>8 DEF CancelDone, TurnOver, NoOp
  <2>2. Holds(p) /\ ~closed
    BY <1>1, <2>1 DEF Order, Locks, HoldPcs, Leaving, PastAll
  <2>3. ~push.open /\ \A t \in Tasks : ~Running(t) /\ ~Told(t)
    <3>1. Holding(user[p])
      BY DEF Order, Held
    <3>2. ~push.open /\ \A t \in Tasks : ~Running(t)
      BY <2>1, <3>1 DEF Holding
    <3> QED BY <3>2 DEF Told, Running, Tasks
  <2>4. PICK m \in LogRec : m = Msg("interrupted", user[p].id) /\ m.type = "interrupted"
                            /\ m.id = user[p].id
    BY <1>1, MsgRec DEF UserRec
  <2>5. ASSUME ~gone PROVE Fits(m) /\ UpToDate'
    <3>1. Quiet /\ EndedFor(user[p])
      BY <2>3, <2>5 DEF Wire, UpToDate
    <3>2. m.id # 0 => LastIs(Msg("turn_end", m.id))
      BY <2>1, <2>4, <3>1 DEF EndedFor
    <3>3. Fits(m)
      BY <2>2, <2>4, <3>1, <3>2, NotOver DEF Fits
    <3>4. log \in Seq(LogRec) /\ log' = Append(log, m)
      BY <2>1, <2>4, <2>5 DEF Sent, Wire, Heard
    <3>5. Quiet'
      BY <2>4, <3>1, <3>4, Appended
    <3>6. ASSUME NEW q \in UserTasks PROVE EndedFor(user[q])'
      <4>1. user'[q].pc \notin CutPcs \cup {"cancel_wait"}
        <5>1. q # p => user[q].pc \notin HoldPcs
          BY <2>2 DEF Order, Locks, Holds
        <5> QED BY <2>1, <5>1 DEF HoldPcs, CutPcs
      <4> QED BY <4>1 DEF EndedFor
    <3>7. ~push'.open /\ \A t \in Tasks : ~Told(t)'
      BY <1>1, <2>1, <2>3 DEF Told
    <3> QED BY <3>3, <3>5, <3>6, <3>7 DEF UpToDate
  <2> QED BY <1>1, <2>1, <2>4, <2>5, WireSends
<1> QED BY <1>4, <1>5, <1>6, <1>7, <1>8

LEMMA OneAndOne ==
  ASSUME NEW S, NEW a \in S, NEW b \in S
  PROVE  <<a>> \o <<b>> = <<a, b>>
<1> DEFINE s == <<a>>
           t == <<b>>
           u == <<a, b>>
<1>1. s \in Seq(S) /\ t \in Seq(S) /\ u \in Seq(S)
  OBVIOUS
<1>2. Len(s) = 1 /\ Len(t) = 1 /\ Len(u) = 2 /\ s[1] = a /\ t[1] = b /\ u[1] = a /\ u[2] = b
  OBVIOUS
<1> HIDE DEF s, t, u
<1>3. /\ s \o t \in Seq(S) /\ Len(s \o t) = Len(s) + Len(t)
      /\ \A i \in 1..(Len(s) + Len(t)) : (s \o t)[i] = IF i <= Len(s) THEN s[i] ELSE t[i - Len(s)]
  BY <1>1, ConcatProperties
<1>4. (s \o t)[1] = a /\ (s \o t)[2] = b
  BY <1>2, <1>3
<1>5. Len(s \o t) = 2 /\ \A i \in 1..2 : i = 1 \/ i = 2
  BY <1>2, <1>3
<1>6. s \o t = u
  BY <1>1, <1>2, <1>3, <1>4, <1>5, SeqEqual
<1> QED BY <1>6 DEF s, t, u

\* The end of a cut: at most a turn_end, at most a barge-in after it.
LEMMA WireEndCut ==
  ASSUME Inv, Order, Wire, NEW p \in UserTasks, NEW id \in Nat, EndCut(p, id), Holds(p),
         user[p].pc # "dead", UNCHANGED <<closed, endAtClose, gone>>,
         id # 0 /\ ~PushIs(id) => ~push.open /\ (~gone => LastIs(Msg("turn_end", id)))
  PROVE  Wire'
<1>1. /\ user \in [UserTasks -> UserRec] /\ push \in PushRec /\ turn \in [Tasks -> TurnRec]
      /\ user'[p] = NoOp /\ \A q \in UserTasks \ {p} : user'[q] = user[q]
  BY DEF EndCut, Inv, Typed
<1>2. \A q \in UserTasks : EndedFor(user[q])'
  <2> SUFFICES ASSUME NEW q \in UserTasks PROVE EndedFor(user[q])'
    OBVIOUS
  <2>1. q # p => user[q].pc \notin HoldPcs
    BY DEF Order, Locks, Holds
  <2>2. user'[q].pc \notin CutPcs \cup {"cancel_wait"}
    BY <1>1, <2>1 DEF HoldPcs, CutPcs, NoOp
  <2> QED BY <2>2 DEF EndedFor
<1>3. \A t \in Tasks : (Told(t)' <=> Told(t)) /\ turn'[t].id = turn[t].id
  <2>1. CASE MayStart(p)
    <3>1. PICK t \in Tasks : turn[t].pc = "none" /\ turn' = [turn EXCEPT ![t].pc = "created"]
      BY <2>1 DEF EndCut, IsNext
    <3>2. /\ \A o \in Tasks \ {t} : turn'[o] = turn[o]
          /\ turn'[t].pc = "created" /\ turn'[t].id = turn[t].id
      BY <1>1, <3>1 DEF TurnRec
    <3> QED BY <3>1, <3>2 DEF Told
  <2>2. CASE ~MayStart(p)
    BY <2>2 DEF EndCut, Told
  <2> QED BY <2>1, <2>2
<1>4. ~closed
  BY DEF Order, Leaving, PastAll
<1>5. log \in Seq(LogRec) /\ \A k \in 1..Len(log) : log[k].type # "session_end"
  BY <1>4, NotOver DEF Wire, Heard
<1>6. /\ Msg("turn_end", id) \in LogRec /\ Msg("turn_end", id).type = "turn_end"
      /\ Msg("turn_end", id).id = id
      /\ Msg("interrupted", id) \in LogRec /\ Msg("interrupted", id).type = "interrupted"
      /\ Msg("interrupted", id).id = id
  BY MsgRec
<1>7. CASE PushIs(id)
  <2>1. /\ push.open /\ push.id = id /\ ~push'.open
    BY <1>1, <1>7 DEF EndCut, PushClosed, PushIs, PushRec
  <2>2. \A t \in Tasks : ~Told(t)'
    BY <1>3, <2>1 DEF Order, Apart, Told, Running, Tasks
  <2>3. ASSUME ~gone PROVE Fits(Msg("turn_end", id))
    <3>1. LastIs(Msg("turn_start", id))
      BY <2>1, <2>3 DEF Wire, UpToDate
    <3> QED BY <1>5, <1>6, <3>1 DEF Fits
  <2>4. ASSUME Quiet' PROVE UpToDate'
    BY <1>2, <2>1, <2>2, <2>4 DEF UpToDate
  <2>5. CASE user[p].op = "partial" /\ id # 0
    <3>1. log' = Sent(<<Msg("turn_end", id), Msg("interrupted", id)>>)
      <4>1. log' = Sent(<<Msg("turn_end", id)>> \o <<Msg("interrupted", id)>>)
        BY <1>7, <2>5 DEF EndCut, PushEndMsg
      <4> QED BY <1>6, <4>1, OneAndOne
    <3>2. CASE gone
      BY <3>1, <3>2, WireSame DEF Sent
    <3>3. CASE ~gone
      <4>1. /\ Heard' /\ Quiet' /\ \A k \in 1..Len(log') : log'[k].type # "session_end"
        <5>1. log' = log \o <<Msg("turn_end", id), Msg("interrupted", id)>>
          BY <3>1, <3>3 DEF Sent
        <5> QED BY <2>3, <3>3, <5>1, HeardGrowsTwice DEF Wire
      <4> QED BY <2>4, <4>1 DEF Wire, Over
    <3> QED BY <3>2, <3>3
  <2>6. CASE ~(user[p].op = "partial" /\ id # 0)
    <3>1. log' = Sent(<<Msg("turn_end", id)>>)
      <4>1. log' = Sent(<<Msg("turn_end", id)>> \o <<>>)
        BY <1>7, <2>6 DEF EndCut, PushEndMsg
      <4>2. ASSUME NEW a PROVE <<a>> \o <<>> = <<a>>
        OBVIOUS
      <4> QED BY <4>1, <4>2
    <3>2. ASSUME ~gone PROVE UpToDate'
      <4>1. log' = Append(log, Msg("turn_end", id))
        BY <1>5, <3>1, <3>2 DEF Sent
      <4>2. Quiet'
        BY <1>5, <1>6, <4>1, Appended
      <4> QED BY <2>4, <4>2
    <3> QED BY <1>6, <2>3, <3>1, <3>2, WireSends
  <2> QED BY <2>5, <2>6
<1>8. CASE ~PushIs(id)
  <2>1. push' = push
    BY <1>8 DEF EndCut, PushClosed
  <2>2. CASE user[p].op = "partial" /\ id # 0
    <3>1. log' = Sent(<<Msg("interrupted", id)>>) /\ ~push.open
      BY <1>8, <2>2 DEF EndCut, PushEndMsg
    <3>2. ASSUME ~gone PROVE Fits(Msg("interrupted", id)) /\ UpToDate'
      <4>1. LastIs(Msg("turn_end", id)) /\ Quiet
        BY <1>5, <1>8, <2>2, <3>2, EndedIsQuiet
      <4>2. Fits(Msg("interrupted", id))
        BY <1>5, <1>6, <4>1 DEF Fits
      <4>3. log' = Append(log, Msg("interrupted", id))
        BY <1>5, <3>1, <3>2 DEF Sent
      <4>4. Quiet' /\ \A x : LastIs(x) => LastIs(x)'
        BY <1>5, <1>6, <4>1, <4>3, Appended DEF Bracket
      <4>5. UpToDate
        BY <3>2 DEF Wire
      <4>6. \A t \in Tasks : Told(t)' =>
              LastIs(Msg(IF turn[t].id = endAtClose THEN "turn_end" ELSE "turn_start", turn[t].id))'
        BY <1>3, <4>4, <4>5 DEF UpToDate
      <4> QED BY <1>2, <2>1, <3>1, <4>2, <4>4, <4>6 DEF UpToDate
    <3> QED BY <1>6, <3>1, <3>2, WireSends
  <2>3. CASE ~(user[p].op = "partial" /\ id # 0)
    <3>1. log' = Sent(<<>>)
      BY <1>8, <2>3 DEF EndCut, PushEndMsg
    <3>2. log' = log
      BY <1>5, <3>1, SentNothing
    <3>3. ASSUME ~gone PROVE UpToDate'
      BY <1>2, <1>3, <2>1, <3>2, <3>3, LogSame DEF Wire, UpToDate
    <3> QED BY <3>2, <3>3, WireSame
  <2> QED BY <2>2, <2>3
<1> QED BY <1>7, <1>8
-----------------------------------------------------------------------------
LEMMA WireCut ==
  ASSUME Inv, Order, Wire, NEW p \in UserTasks, StartCut(p) \/ UserDropClose(p) \/ CutAbortDone(p)
  PROVE  Wire'
<1> USE DEF turnVars, pushVars, closeVars, envVars
<1>1. /\ UNCHANGED <<closed, endAtClose, gone>>
      /\ user \in [UserTasks -> UserRec] /\ push \in PushRec /\ push.id \in Nat /\ push.tts \in Nat
      /\ user[p].push \in Nat /\ user[p].pc # "dead"
  BY DEF StartCut, ReadyToCut, UserDropClose, CutAbortDone, Inv, Typed, PushRec, UserRec
<1>2. CASE StartCut(p) /\ ~MustCut(p) /\ EndCut(p, 0)
  BY <1>1, <1>2, CutHolds, WireEndCut
<1>3. CASE StartCut(p) /\ MustCut(p) /\ EndCut(p, push.id)
  <2>1. PushIs(push.id)
    BY <1>3 DEF MustCut, PushIs
  <2> QED BY <1>1, <1>3, <2>1, CutHolds, WireEndCut
<1>4. CASE /\ StartCut(p) /\ MustCut(p)
           /\ user' = [user EXCEPT ![p].pc = IF push.tts # 0 THEN DropPc ELSE "cut_abort",
                                   ![p].push = push.id, ![p].tts = push.tts]
           /\ push' = IF push.tts # 0 THEN Dropped ELSE push
           /\ UNCHANGED <<turn, lockQ, log>>
  <2>1. user'[p].pc \in CutPcs /\ \A q \in UserTasks \ {p} : user'[q] = user[q]
    BY <1>1, <1>4 DEF DropPc, CutPcs, UserRec
  <2>2. push'.open = push.open /\ push'.id = push.id /\ push.open
    BY <1>1, <1>4 DEF Dropped, PushRec, MustCut
  <2> QED BY <1>1, <1>4, <2>1, <2>2, WireCalm DEF CutPcs
<1>5. CASE UserDropClose(p) /\ own
  <2>1. /\ user'[p] = [user[p] EXCEPT !.pc = "cut_abort"] /\ UNCHANGED <<turn, push, lockQ, log>>
        /\ \A q \in UserTasks \ {p} : user'[q] = user[q]
    BY <1>1, <1>5 DEF UserDropClose
  <2>2. user'[p].pc = "cut_abort" /\ user'[p].push = user[p].push /\ user[p].pc = "drop_close"
    BY <1>1, <1>5, <2>1 DEF UserRec, UserDropClose
  <2> QED BY <1>1, <2>1, <2>2, WireCalm DEF CutPcs
<1>6. CASE (UserDropClose(p) /\ ~own) \/ CutAbortDone(p)
  <2>1. EndCut(p, user[p].push) /\ user[p].pc \in CutPcs
    BY <1>6 DEF UserDropClose, CutAbortDone, CutPcs
  <2>2. ASSUME ~PushIs(user[p].push)
        PROVE  ~push.open /\ (~gone => LastIs(Msg("turn_end", user[p].push)))
    <3>1. ~push.open
      BY <1>6, <2>2, CutHolds DEF PushIs
    <3> QED BY <2>1, <3>1 DEF Wire, UpToDate, EndedFor
  <2> QED BY <1>1, <1>6, <2>1, <2>2, CutHolds, WireEndCut
<1>7. CASE StartCut(p)
  <2>1. CASE ~MustCut(p) /\ EndCut(p, 0)
    BY <1>2, <1>7, <2>1
  <2>2. CASE MustCut(p) /\ EndCut(p, push.id)
    BY <1>3, <1>7, <2>2
  <2>3. CASE /\ MustCut(p)
             /\ user' = [user EXCEPT ![p].pc = IF push.tts # 0 THEN DropPc ELSE "cut_abort",
                                     ![p].push = push.id, ![p].tts = push.tts]
             /\ push' = IF push.tts # 0 THEN Dropped ELSE push
             /\ UNCHANGED <<turn, lockQ, log>>
    BY <1>4, <1>7, <2>3
  <2> QED BY <1>7, <2>1, <2>2, <2>3 DEF StartCut
<1> QED BY <1>5, <1>6, <1>7

LEMMA WireWorker ==
  ASSUME Inv, Order, UpToSeq, Wire, WorkerStep
  PROVE  Wire'
<1>1. log \in Seq(LogRec)
  BY DEF Wire, Heard
<1>2. /\ worker.pc # "dead" /\ UNCHANGED <<turn, user, closed, endAtClose, gone>>
      /\ WorkerOpens \/ WorkerEnds \/ WorkerRests
  BY <1>1, WorkerEffect
<1>3. ~closed /\ seq \in Nat /\ push \in PushRec /\ push.id \in Nat
  BY <1>2 DEF Order, Leaving, PastTurn, Inv, Typed, PushRec
<1>4. \A t \in Tasks : Told(t)' <=> Told(t)
  BY <1>2 DEF Told
<1>5. \A k \in 1..Len(log) : log[k].type # "session_end"
  BY <1>3, NotOver
<1>6. CASE WorkerOpens
  <2>1. PICK n \in Nat : n = seq + 1
    BY <1>3
  <2>2. PICK m \in LogRec : m = Msg("turn_start", n) /\ m.type = "turn_start" /\ m.id = n
    BY MsgRec
  <2>3. /\ Holds("worker") /\ ~Running(activeTurn) /\ ~push.open /\ push'.open /\ push'.id = n
        /\ log' = Sent(<<m>>)
    BY <1>6, <2>1, <2>2 DEF WorkerOpens
  <2>4. \A t \in Tasks : ~Told(t)
    BY <2>3 DEF Inv, OneTurn, Told, Running, Tasks
  <2>5. ASSUME ~gone PROVE Fits(m) /\ UpToDate'
    <3>1. Quiet
      BY <2>3, <2>4, <2>5 DEF Wire, UpToDate
    <3>2. ASSUME NEW k \in 1..Len(log) PROVE log[k].id < m.id
      <4>1. log[k] \in LogRec /\ log[k].id <= seq
        BY <1>1, <3>2, ElementOfSeq DEF UpToSeq, LogUpTo
      <4>2. log[k].id \in Nat
        BY <4>1 DEF LogRec
      <4> QED BY <1>3, <2>1, <2>2, <4>1, <4>2
    <3>3. Fits(m)
      BY <1>5, <2>2, <3>1, <3>2 DEF Fits
    <3>4. LastIs(m)'
      <4>1. log' = Append(log, m)
        BY <1>1, <2>3, <2>5 DEF Sent
      <4> QED BY <1>1, <2>2, <4>1, Appended DEF Bracket
    <3>5. ASSUME NEW p \in UserTasks PROVE EndedFor(user[p])'
      <4>1. user[p].pc \notin HoldPcs
        BY <2>3 DEF Order, Locks, Holds, UserTasks
      <4> QED BY <1>2, <4>1 DEF EndedFor, HoldPcs
    <3> QED BY <1>4, <2>2, <2>3, <2>4, <3>3, <3>4, <3>5 DEF UpToDate
  <2> QED BY <1>2, <2>2, <2>3, <2>5, WireSends
<1>7. CASE WorkerEnds
  <2>1. PICK m \in LogRec : m = Msg("turn_end", push.id) /\ m.type = "turn_end" /\ m.id = push.id
    BY <1>3, MsgRec
  <2>2. push.open /\ ~push'.open /\ log' = Sent(<<m>>)
    BY <1>7, <2>1 DEF WorkerEnds
  <2>3. \A t \in Tasks : ~Told(t)
    BY <2>2 DEF Order, Apart, Told, Running, Tasks
  <2>4. ASSUME ~gone PROVE Fits(m) /\ UpToDate'
    <3>1. Fits(m)
      BY <1>5, <2>1, <2>2, <2>4 DEF Fits, Wire, UpToDate
    <3>2. LastIs(m)' /\ Quiet'
      <4>1. log' = Append(log, m)
        BY <1>1, <2>2, <2>4 DEF Sent
      <4> QED BY <1>1, <2>1, <4>1, Appended DEF Bracket
    <3>3. ASSUME NEW p \in UserTasks PROVE EndedFor(user[p])'
      <4>1. PICK u : u = user[p] /\ u = user'[p]
        BY <1>2
      <4>2. u.pc # "cancel_wait" /\ (u.pc \in CutPcs => u.push = push.id)
        BY <2>2, <4>1 DEF Order, Held, Holding
      <4>3. EndedFor(u)'
        BY <2>1, <3>2, <4>2 DEF EndedFor
      <4> QED BY <4>1, <4>3
    <3> QED BY <1>4, <2>2, <2>3, <3>1, <3>2, <3>3 DEF UpToDate
  <2> QED BY <1>2, <2>1, <2>2, <2>4, WireSends
<1>8. CASE WorkerRests
  <2>1. UNCHANGED log /\ push'.open = push.open /\ push'.id = push.id
    BY <1>8 DEF WorkerRests
  <2>2. ASSUME ~gone PROVE UpToDate'
    <3>1. \A p \in UserTasks : EndedFor(user[p])'
      BY <1>2, <2>1, <2>2, LogSame DEF Wire, UpToDate, EndedFor, Running
    <3> QED BY <1>2, <1>4, <2>1, <2>2, <3>1, LogSame DEF Wire, UpToDate
  <2> QED BY <1>2, <2>1, <2>2, WireSame
<1> QED BY <1>2, <1>6, <1>7, <1>8

LEMMA WireClose ==
  ASSUME Inv, Order, Wire, NEW c \in Closers, CloseCall(c) \/ CloseStep(c)
  PROVE  Wire'
<1> USE DEF turnVars, pushVars, closeVars, envVars
<1>1. /\ turn \in [Tasks -> TurnRec] /\ push \in PushRec /\ log \in Seq(LogRec) /\ gone' = gone
      /\ activeId \in Nat /\ push.id \in Nat /\ closer \in [Closers -> CloserRec]
  BY DEF Wire, Heard, Inv, Typed, PushRec, CloseCall, CloseStep, CloseStart, CloseTurn, CloseWorker,
         ClosePushTts, CloseFinish
\* What sends nothing, ends nothing and starts nothing.
<1>2. ASSUME UNCHANGED <<user, push, endAtClose, log, closed>>,
             \A o \in Tasks : turn'[o].pc = turn[o].pc /\ turn'[o].id = turn[o].id
      PROVE  Wire'
  <2>1. \A o \in Tasks : (Running(o)' <=> Running(o)) /\ (Told(o)' <=> Told(o))
    BY <1>2 DEF Running, Told
  <2>2. ASSUME ~gone PROVE UpToDate'
    <3>1. ASSUME NEW p \in UserTasks PROVE EndedFor(user[p])'
      <4>1. PICK u : u = user[p] /\ u = user'[p]
        BY <1>2
      <4>2. u.turn = 0 \/ u.turn \in Tasks
        <5>1. u.turn \in 0..MaxTurns
          BY <4>1 DEF Inv, Typed, UserRec
        <5> QED BY <5>1, BridgeAssumption DEF Tasks
      <4>3. Running(u.turn) => Running(u.turn)'
        BY <2>1, <4>2 DEF Running
      <4>4. EndedFor(u)
        BY <2>2, <4>1 DEF Wire, UpToDate
      <4>5. EndedFor(u)'
        BY <1>2, <4>3, <4>4, LogSame DEF EndedFor
      <4> QED BY <4>1, <4>5
    <3> QED BY <1>2, <2>1, <2>2, <3>1, LogSame DEF Wire, UpToDate
  <2> QED BY <1>1, <1>2, <2>2, WireSame
<1>3. CASE CloseCall(c) \/ CloseWorker(c) \/ (CloseStart(c) /\ closed)
  BY <1>2, <1>3 DEF CloseCall, CloseWorker, CloseStart
<1>4. CASE CloseStart(c) /\ ~closed
  <2>1. turn' = Cancelled(activeTurn) /\ UNCHANGED <<push, user, endAtClose, log, closed>>
    BY <1>4 DEF CloseStart
  <2>2. \A o \in Tasks : turn'[o].pc = turn[o].pc /\ turn'[o].id = turn[o].id
    <3>1. CASE Running(activeTurn)
      <4>1. activeTurn \in Tasks /\ turn' = [turn EXCEPT ![activeTurn].cancel = TRUE]
        BY <2>1, <3>1, BridgeAssumption DEF Running, Cancelled, Tasks, Inv, Typed
      <4> QED BY <1>1, <4>1 DEF TurnRec
    <3>2. CASE ~Running(activeTurn)
      BY <2>1, <3>2 DEF Cancelled
    <3> QED BY <3>1, <3>2
  <2> QED BY <1>2, <2>1, <2>2
<1>5. ASSUME closer[c].pc \in InsidePcs
      PROVE  ~closed /\ \A k \in 1..Len(log) : log[k].type # "session_end"
  BY <1>5, NotOver DEF Order, Locks
<1>6. CASE CloseTurn(c)
  <2>1. UNCHANGED <<turn, push, user, closed>> /\ closer[c].pc = "turn"
    BY <1>6 DEF CloseTurn
  <2>2. CASE UNCHANGED <<endAtClose, log>>
    BY <1>2, <2>1, <2>2
  <2>3. CASE activeId # 0 /\ EndAbandoned
    <3>1. ~closed /\ \A k \in 1..Len(log) : log[k].type # "session_end"
      BY <1>5, <2>1 DEF InsidePcs
    <3>2. endAtClose = 0
      <4>1. \A d \in Closers \ {c} : closer[d].pc \notin InsidePcs
        BY <2>1 DEF Order, Locks, HoldsClose, InsidePcs
      <4>2. ~PastTurn
        BY <2>1, <3>1, <4>1 DEF PastTurn, InsidePcs, PastPcs
      <4> QED BY <4>2 DEF Order, Leaving
    <3>3. PICK t \in Tasks : Told(t) /\ turn[t].id = activeId
      BY <2>3 DEF Order, Apart
    <3>4. Running(t) /\ ~push.open /\ \A o \in Tasks : Running(o) => o = t
      BY <3>3 DEF Order, Apart, Told, Running, Inv, OneTurn, Tasks
    <3>5. PICK i \in Nat : i = activeId
      BY <1>1
    <3>6. PICK m \in LogRec : m = Msg("turn_end", i) /\ m.type = "turn_end" /\ m.id = i
      BY MsgRec
    <3>7. log' = Sent(<<m>>) /\ endAtClose' = i
      BY <2>3, <3>5, <3>6 DEF EndAbandoned
    <3>8. ASSUME ~gone PROVE Fits(m) /\ UpToDate'
      <4>1. LastIs(Msg("turn_start", i))
        BY <2>3, <3>2, <3>3, <3>5, <3>8 DEF Wire, UpToDate
      <4>2. Fits(m)
        BY <3>1, <3>6, <4>1 DEF Fits
      <4>3. LastIs(m)' /\ Quiet'
        <5>1. log' = Append(log, m)
          BY <1>1, <3>7, <3>8 DEF Sent
        <5> QED BY <1>1, <3>6, <5>1, Appended DEF Bracket
      <4>4. ASSUME NEW p \in UserTasks PROVE EndedFor(user[p])'
        <5>1. user[p].pc \notin CutPcs /\ (user[p].pc = "cancel_wait" => user[p].turn = t)
          BY <3>4 DEF Order, Held, Holding
        <5>2. user[p].pc = "cancel_wait" => Running(user[p].turn)'
          BY <2>1, <3>4, <5>1 DEF Running
        <5> QED BY <2>1, <5>1, <5>2 DEF EndedFor
      <4>5. \A o \in Tasks : Told(o)' => turn'[o].id = endAtClose' /\ turn'[o].id = i
        BY <2>1, <3>5, <3>7 DEF Told, Order, Apart
      <4> QED BY <2>1, <3>4, <3>6, <4>2, <4>3, <4>4, <4>5 DEF UpToDate
    <3> QED BY <1>1, <2>1, <3>6, <3>7, <3>8, WireSends
  <2> QED BY <1>6, <2>2, <2>3 DEF CloseTurn
<1>7. CASE ClosePushTts(c)
  <2>1. /\ UNCHANGED <<turn, closed, endAtClose>> /\ closer[c].pc = "push_tts"
        /\ log' = Sent(PushEndMsg(push.id)) /\ push' = [PushClosed(push.id) EXCEPT !.tts = 0]
        /\ user' = [p \in UserTasks |-> [NoOp EXCEPT !.pc = "dead"]]
    BY <1>7 DEF ClosePushTts
  <2>2. ~push'.open
    BY <1>1, <2>1 DEF PushClosed, PushIs, PushRec
  <2>3. \A p \in UserTasks : EndedFor(user[p])'
    <3>1. \A p \in UserTasks : user'[p].pc = "dead"
      BY <2>1 DEF NoOp
    <3> QED BY <3>1 DEF EndedFor, CutPcs
  <2>4. \A t \in Tasks : Told(t)' <=> Told(t)
    BY <2>1 DEF Told
  <2>5. CASE push.open
    <3>1. PICK m \in LogRec : m = Msg("turn_end", push.id) /\ m.type = "turn_end" /\ m.id = push.id
      BY <1>1, MsgRec
    <3>2. log' = Sent(<<m>>)
      BY <2>1, <2>5, <3>1 DEF PushEndMsg, PushIs
    <3>3. \A t \in Tasks : ~Told(t)
      BY <2>5 DEF Order, Apart, Told, Running, Tasks
    <3>4. ASSUME ~gone PROVE Fits(m) /\ UpToDate'
      <4>1. Fits(m)
        BY <1>5, <2>1, <2>5, <3>1, <3>4 DEF Fits, Wire, UpToDate, InsidePcs, PastPcs
      <4>2. Quiet'
        <5>1. log' = Append(log, m)
          BY <1>1, <3>2, <3>4 DEF Sent
        <5> QED BY <1>1, <3>1, <5>1, Appended
      <4> QED BY <2>2, <2>3, <2>4, <3>3, <4>1, <4>2 DEF UpToDate
    <3> QED BY <1>1, <2>1, <3>1, <3>2, <3>4, WireSends
  <2>6. CASE ~push.open
    <3>1. log' = log
      BY <1>1, <2>1, <2>6, SentNothing DEF PushEndMsg, PushIs
    <3>2. ASSUME ~gone PROVE UpToDate'
      BY <2>1, <2>2, <2>3, <2>4, <2>6, <3>1, <3>2, LogSame DEF Wire, UpToDate
    <3> QED BY <1>1, <2>1, <3>1, <3>2, WireSame
  <2> QED BY <2>5, <2>6
<1>8. CASE CloseFinish(c)
  <2>1. PICK m \in LogRec : m = Msg("session_end", 0) /\ m.type = "session_end"
    BY MsgRec
  <2>2. /\ UNCHANGED <<turn, push, user, endAtClose>> /\ closed' /\ closer[c].pc = "tasks"
        /\ log' = Sent(<<m>>)
    BY <1>8, <2>1 DEF CloseFinish
  <2>3. ~push.open /\ \A t \in Tasks : Told(t) => turn[t].id = endAtClose
    BY <2>2 DEF Order, Leaving, PastTurn, PastAll, PastPcs, Told, Running, Tasks
  <2>4. ASSUME ~gone PROVE Fits(m) /\ UpToDate'
    <3>1. Quiet /\ UpToDate
      BY <2>3, <2>4 DEF Wire, UpToDate
    <3>2. Fits(m)
      BY <1>5, <2>1, <2>2, <3>1 DEF Fits, InsidePcs, PastPcs
    <3>3. log' = Append(log, m)
      BY <1>1, <2>2, <2>4 DEF Sent
    <3>4. Quiet' /\ \A x : LastIs(x) => LastIs(x)'
      BY <1>1, <2>1, <3>1, <3>3, Appended DEF Bracket
    <3>5. \A p \in UserTasks : EndedFor(user[p])'
      BY <2>2, <3>1, <3>4 DEF UpToDate, EndedFor, Running
    <3> QED BY <2>2, <3>1, <3>2, <3>4, <3>5 DEF UpToDate, Told
  <2> QED BY <1>1, <2>1, <2>2, <2>4, WireSends
<1> QED BY <1>3, <1>4, <1>6, <1>7, <1>8 DEF CloseStep

LEMMA WireInit == Init => Wire
<1> SUFFICES ASSUME Init PROVE Wire
  OBVIOUS
<1>1. log \in Seq(LogRec) /\ Len(log) = 0
  BY DEF Init
<1>2. Heard /\ Over /\ Quiet
  BY <1>1 DEF Heard, Over, Quiet, NothingOpen, TurnsWellBracketed, InterruptedInPlace,
              SessionEndsComplete
<1>3. UpToDate
  BY <1>2 DEF UpToDate, EndedFor, Init, Told, NoOp, CutPcs
<1> QED BY <1>2, <1>3 DEF Wire

LEMMA WireNext == Inv /\ Order /\ UpToSeq /\ Wire /\ [Next]_vars => Wire'
<1> SUFFICES ASSUME Inv, Order, UpToSeq, Wire, [Next]_vars PROVE Wire'
  OBVIOUS
<1> USE DEF turnVars, pushVars, closeVars, envVars
<1>1. ASSUME NEW t \in Tasks, TurnStep(t) PROVE Wire'
  BY <1>1, WireTurn
<1>2. ASSUME NEW p \in UserTasks, UserStep(p) PROVE Wire'
  BY <1>2, WireAsk, WireCancel, WireCut DEF UserStep
<1>3. CASE WorkerStep
  BY <1>3, WireWorker
<1>4. ASSUME NEW c \in Closers, CloseCall(c) \/ CloseStep(c) PROVE Wire'
  BY <1>4, WireClose
<1>5. CASE \/ SendCmd \/ UserOp("input", "cancel") \/ UserOp("stt", "partial")
           \/ UserOp("stt", "final")
  BY <1>5, WireAsk DEF UserTasks
<1>6. CASE \/ \E kind \in {"turn_start", "chat", "turn_end"} : PushEvent(kind)
           \/ \E id \in Ids : AudioFrame(id) \/ AudioEnd(id)
           \/ ClientLeaves \/ UNCHANGED vars
  <2>1. /\ UNCHANGED <<turn, push, user, endAtClose, closed, log>> /\ (gone' = gone \/ gone')
    BY <1>6 DEF PushEvent, AudioFrame, AudioEnd, ClientLeaves, vars
  <2>2. ASSUME UpToDate PROVE UpToDate'
    <3>1. \A p \in UserTasks : EndedFor(user[p])'
      BY <2>1, <2>2, LogSame DEF UpToDate, EndedFor, Running
    <3> QED BY <2>1, <2>2, <3>1, LogSame DEF UpToDate, Told
  <2> QED BY <2>1, <2>2, WireSame DEF Wire
<1> QED BY <1>1, <1>2, <1>3, <1>4, <1>5, <1>6 DEF Next, Environment
-----------------------------------------------------------------------------
(* The bounds: there are as many ids as turns and push events.             *)

Rest ==
  /\ tts \in [Ids -> {"none", "live", "fed", "closed"}]
  /\ pushQ \in Seq({"turn_start", "chat", "turn_end"})
  /\ own \in BOOLEAN /\ gone \in BOOLEAN /\ late \subseteq Ids
  /\ pushes \in 0..MaxPush /\ ops \in 0..MaxOps

\* Turns are created in order, and each id has been paid by one or by a push event.
One(b)   == IF b THEN 1 ELSE 0
Begun(n) == \A t \in Tasks : turn[t].pc # "none" <=> t <= n
Created  == \E t \in Tasks : turn[t].pc = "created"
Opening  == worker.pc \in {"wait_turn", "lock"}
Budget   ==
  \E n \in 0..MaxTurns : Begun(n) /\ seq + One(Created) + One(Opening) + Len(pushQ) <= n + pushes

LEMMA RestInit == Init => Rest /\ Budget
<1> SUFFICES ASSUME Init PROVE Rest /\ Budget
  OBVIOUS
<1>1. Rest
  <2>1. pushQ \in Seq({"turn_start", "chat", "turn_end"}) /\ late \subseteq Ids
    BY DEF Init
  <2>2. tts \in [Ids -> {"none", "live", "fed", "closed"}] /\ own \in BOOLEAN /\ gone \in BOOLEAN
    BY DEF Init
  <2>3. pushes \in 0..MaxPush /\ ops \in 0..MaxOps
    BY BridgeAssumption DEF Init
  <2> QED BY <2>1, <2>2, <2>3 DEF Rest
<1>2. 0 \in 0..MaxTurns /\ Begun(0) /\ ~Created /\ ~Opening /\ seq = 0 /\ pushes = 0 /\ pushQ = <<>>
  BY BridgeAssumption DEF Init, Begun, Created, Opening, Getting, Tasks
<1>3. Len(pushQ) = 0
  BY <1>2
<1>4. Budget
  BY <1>2, <1>3 DEF Budget, One
<1> QED BY <1>1, <1>4

LEMMA RestNext == Rest /\ [Next]_vars => Rest'
<1> SUFFICES ASSUME Rest, [Next]_vars PROVE Rest'
  OBVIOUS
<1> USE DEF turnVars, pushVars, closeVars, envVars
<1> DEFINE Kinds   == {"turn_start", "chat", "turn_end"}
           Streams == [Ids -> {"none", "live", "fed", "closed"}]
<1>1. pushQ # <<>> => Tail(pushQ) \in Seq(Kinds)
  BY HeadTailProperties DEF Rest
<1>2. /\ \A i, s : s \in {"live", "fed", "closed"} => [tts EXCEPT ![i] = s] \in Streams
      /\ \A is : EndedStreams(is) \in Streams
  BY DEF Rest, EndedStreams
<1>3. ASSUME tts' \in Streams, pushQ' \in Seq(Kinds), UNCHANGED <<own, gone, late, pushes, ops>>
      PROVE  Rest'
  BY <1>3 DEF Rest
<1>4. UNCHANGED <<tts, pushQ, own, gone, late, pushes, ops>> => Rest'
  BY DEF Rest
<1> HIDE DEF Kinds, Streams
<1>5. tts \in Streams /\ pushQ \in Seq(Kinds)
  BY DEF Rest, Streams, Kinds
<1>6. ASSUME NEW t \in Tasks, TurnStep(t) PROVE Rest'
  BY <1>4, <1>6 DEF TurnStep, TurnBegin, TurnNeverRan, TurnUnwind, TurnEnd
<1>7. ASSUME NEW p \in UserTasks, UserStep(p) PROVE Rest'
  <2>1. CASE UserDropClose(p)
    BY <1>2, <1>3, <1>5, <2>1 DEF UserDropClose
  <2>2. CASE ~UserDropClose(p)
    BY <1>4, <1>7, <2>2 DEF UserStep, SendAbandon, SendReplace, CancelHeld, CancelDone, StartCut,
                            UserDropAudio, CutAbortDone
  <2> QED BY <2>1, <2>2
<1>8. CASE WorkerStep
  <2>1. UNCHANGED <<own, gone, late, pushes, ops>>
    BY <1>8 DEF WorkerStep, WorkerStart, WorkerWaited, WorkerLocked, WorkerConnected, WorkerChat,
                WorkerSent, WorkerSendFailed, WorkerEndEvent, WorkerEnded, WorkerEndFailed,
                WorkerDrained, WorkerClosedTts, WorkerDropAudio, WorkerDropClose
  <2>2. tts' \in Streams
    <3>1. ASSUME NEW ok \in BOOLEAN, WorkerConnected(ok) PROVE tts' \in Streams
      BY <1>2, <1>5, <3>1 DEF WorkerConnected
    <3> QED BY <1>2, <1>5, <1>8, <3>1
            DEF WorkerStep, WorkerStart, WorkerWaited, WorkerLocked, WorkerChat,
                WorkerSent, WorkerSendFailed, WorkerEndEvent, WorkerEnded, WorkerEndFailed,
                WorkerDrained, WorkerClosedTts, WorkerDropAudio, WorkerDropClose
  <2>3. pushQ' \in Seq(Kinds)
    <3>1. pushQ' = pushQ \/ (pushQ # <<>> /\ pushQ' = Tail(pushQ))
      BY <1>8 DEF WorkerStep, WorkerStart, WorkerWaited, WorkerLocked, WorkerConnected, WorkerChat,
                  WorkerSent, WorkerSendFailed, WorkerEndEvent, WorkerEnded, WorkerEndFailed,
                  WorkerDrained, WorkerClosedTts, WorkerDropAudio, WorkerDropClose, NextEvent
    <3> QED BY <1>1, <1>5, <3>1
  <2> QED BY <1>3, <2>1, <2>2, <2>3
<1>9. ASSUME NEW c \in Closers, CloseCall(c) \/ CloseStep(c) PROVE Rest'
  <2>1. CASE CloseCall(c) \/ CloseStart(c) \/ CloseFinish(c)
    BY <1>4, <2>1 DEF CloseCall, CloseStart, CloseFinish
  <2>2. CASE CloseTurn(c) \/ ClosePushTts(c)
    BY <1>2, <1>3, <1>5, <2>2 DEF CloseTurn, ClosePushTts
  <2>3. CASE CloseWorker(c)
    <3>1. <<>> \in Seq(Kinds)
      OBVIOUS
    <3> QED BY <1>3, <1>5, <2>3, <3>1 DEF CloseWorker
  <2> QED BY <1>9, <2>1, <2>2, <2>3 DEF CloseStep
<1>10. ASSUME NEW kind \in {"turn_start", "chat", "turn_end"}, PushEvent(kind) PROVE Rest'
  <2>1. pushQ' \in Seq(Kinds)
    BY <1>5, <1>10, AppendProperties DEF PushEvent, Kinds
  <2>2. pushes' \in 0..MaxPush /\ UNCHANGED <<tts, own, gone, late, ops>>
    BY <1>10, BridgeAssumption DEF PushEvent, Rest
  <2> QED BY <2>1, <2>2 DEF Rest, Kinds
<1>11. ASSUME NEW p \in UserTasks, NEW op, UserOp(p, op) PROVE Rest'
  BY <1>11, BridgeAssumption DEF UserOp, Rest
<1>12. ASSUME NEW id \in Ids, AudioFrame(id) \/ AudioEnd(id) PROVE Rest'
  BY <1>12 DEF AudioFrame, AudioEnd, Rest
<1>13. CASE ClientLeaves
  BY <1>13 DEF ClientLeaves, Rest
<1>14. CASE SendCmd \/ UNCHANGED vars
  BY <1>4, <1>14 DEF SendCmd, vars
<1> QED BY <1>6, <1>7, <1>8, <1>9, <1>10, <1>11, <1>12, <1>13, <1>14 DEF Next, Environment, UserTasks
-----------------------------------------------------------------------------
\* A step that takes no more than it pays.
LEMMA BudgetSame ==
  ASSUME Inv, Inv', Rest, Rest', Budget, pushes' = pushes,
         \A t \in Tasks : turn'[t].pc # "none" <=> turn[t].pc # "none",
         seq' + One(Created)' + One(Opening)' + Len(pushQ')
           <= seq + One(Created) + One(Opening) + Len(pushQ)
  PROVE  Budget'
<1>1. PICK n \in 0..MaxTurns : /\ Begun(n)
                               /\ seq + One(Created) + One(Opening) + Len(pushQ) <= n + pushes
  BY DEF Budget
<1>2. Begun(n)'
  BY <1>1 DEF Begun
<1>3. /\ seq \in Nat /\ seq' \in Nat /\ Len(pushQ) \in Nat /\ Len(pushQ') \in Nat /\ pushes \in Nat
      /\ n \in Nat /\ One(Created) \in Nat /\ One(Opening) \in Nat
      /\ One(Created)' \in Nat /\ One(Opening)' \in Nat
  BY LenProperties, BridgeAssumption DEF Inv, Typed, Rest, One
<1>4. (seq + One(Created) + One(Opening) + Len(pushQ) <= n + pushes)'
  BY <1>1, <1>3
<1> QED BY <1>2, <1>4 DEF Budget

LEMMA BudgetTurn ==
  ASSUME Inv, Inv', Rest, Rest', Budget, NEW t \in Tasks, TurnStep(t)
  PROVE  Budget'
<1> USE DEF turnVars, pushVars, closeVars, envVars
<1>1. /\ UNCHANGED <<worker, pushQ, pushes>> /\ Running(t) /\ \A o \in Tasks \ {t} : turn'[o] = turn[o]
      /\ seq \in Nat /\ Len(pushQ) \in Nat
  <2>1. UNCHANGED <<pushQ, pushes>>
    BY DEF TurnStep, TurnBegin, TurnNeverRan, TurnUnwind, TurnEnd
  <2>2. seq \in Nat /\ Len(pushQ) \in Nat
    BY LenProperties DEF Inv, Typed, Rest
  <2> QED BY <2>1, <2>2, TurnEffect
<1>2. \A o \in Tasks : turn[o].pc = "created" => o = t
  BY <1>1 DEF Inv, OneTurn, Running, Tasks
<1>3. /\ turn[t].pc # "none" /\ turn'[t].pc \notin {"none", "created"}
      /\ seq' \in {seq, seq + 1} /\ (seq' # seq => turn[t].pc = "created")
  BY <1>1, TurnEffect DEF Running
<1>4. ~Created' /\ (seq' # seq => Created)
  BY <1>1, <1>2, <1>3 DEF Created
<1>5. Opening' <=> Opening
  BY <1>1 DEF Opening
<1>6. \A o \in Tasks : turn'[o].pc # "none" <=> turn[o].pc # "none"
  BY <1>1, <1>3
<1>7. seq' + One(Created)' + One(Opening)' + Len(pushQ')
        <= seq + One(Created) + One(Opening) + Len(pushQ)
  BY <1>1, <1>3, <1>4, <1>5 DEF One
<1> QED BY <1>1, <1>6, <1>7, BudgetSame

\* A `send` that creates its turn pays for it.
LEMMA BudgetUser ==
  ASSUME Inv, Inv', Rest, Rest', Order, Budget, NEW p \in UserTasks, UserStep(p)
  PROVE  Budget'
<1> USE DEF turnVars, pushVars, closeVars, envVars
<1>1. /\ UNCHANGED <<worker, pushQ, pushes, seq>> /\ seq \in Nat /\ Len(pushQ) \in Nat
      /\ turn \in [Tasks -> TurnRec] /\ activeTurn \in 0..MaxTurns /\ user[p].turn \in 0..MaxTurns
  <2>1. UNCHANGED <<worker, pushQ, pushes, seq>>
    BY DEF UserStep, SendAbandon, SendReplace, CancelHeld, CancelDone, StartCut, UserDropAudio,
           UserDropClose, CutAbortDone
  <2>2. seq \in Nat /\ Len(pushQ) \in Nat
    BY LenProperties DEF Inv, Typed, Rest
  <2> QED BY <2>1, <2>2 DEF Inv, Typed, UserRec
<1>2. ASSUME \A o \in Tasks : turn'[o].pc = turn[o].pc PROVE Budget'
  <2>1. (Created' <=> Created) /\ (Opening' <=> Opening)
    BY <1>1, <1>2 DEF Created, Opening
  <2>2. seq' + One(Created)' + One(Opening)' + Len(pushQ')
          <= seq + One(Created) + One(Opening) + Len(pushQ)
    BY <1>1, <2>1 DEF One
  <2> QED BY <1>1, <1>2, <2>2, BudgetSame
<1>3. ASSUME NEW t \in 0..MaxTurns, turn' = Cancelled(t) PROVE Budget'
  <2>1. \A o \in Tasks : turn'[o].pc = turn[o].pc
    <3>1. CASE Running(t)
      <4>1. t \in Tasks /\ turn' = [turn EXCEPT ![t].cancel = TRUE]
        BY <1>3, <3>1, BridgeAssumption DEF Running, Cancelled, Tasks
      <4> QED BY <1>1, <4>1 DEF TurnRec
    <3>2. CASE ~Running(t)
      BY <1>3, <3>2 DEF Cancelled
    <3> QED BY <3>1, <3>2
  <2> QED BY <1>2, <2>1
<1>4. ASSUME NEW id \in Nat, EndCut(p, id), user[p].op = "send" => ~Running(activeTurn)
      PROVE  Budget'
  <2>1. CASE ~MayStart(p)
    BY <1>2, <1>4, <2>1 DEF EndCut
  <2>2. CASE MayStart(p)
    <3>1. PICK t \in Tasks : IsNext(t) /\ turn' = [turn EXCEPT ![t].pc = "created"]
      BY <1>4, <2>2 DEF EndCut
    <3>2. PICK n \in 0..MaxTurns :
            Begun(n) /\ seq + One(Created) + One(Opening) + Len(pushQ) <= n + pushes
      BY DEF Budget
    <3>3. n + 1 = t
      <4>1. ~(t <= n) /\ \A u \in 1..(t - 1) : u \in Tasks => u <= n
        BY <3>1, <3>2 DEF IsNext, Begun, Tasks
      <4>2. n + 1 # t => n + 1 \in 1..(t - 1) /\ n + 1 \in Tasks /\ ~(n + 1 <= n)
        BY <4>1, BridgeAssumption DEF Tasks
      <4> QED BY <4>1, <4>2
    <3>4. Begun(t)'
      <4>1. turn'[t].pc # "none" /\ \A o \in Tasks \ {t} : turn'[o] = turn[o]
        BY <1>1, <3>1 DEF TurnRec
      <4> SUFFICES ASSUME NEW o \in Tasks PROVE turn'[o].pc # "none" <=> o <= t
        BY DEF Begun
      <4>2. CASE o = t
        BY <4>1, <4>2 DEF Tasks
      <4>3. CASE o # t
        <5>1. o <= t <=> o <= n
          BY <3>3, <4>3, BridgeAssumption DEF Tasks
        <5> QED BY <3>2, <4>1, <4>3, <5>1 DEF Begun
      <4> QED BY <4>2, <4>3
    <3>5. ~Created
      <4>1. ~Running(activeTurn)
        BY <1>4, <2>2 DEF MayStart
      <4> QED BY <4>1 DEF Created, Inv, OneTurn, Running, Tasks
    <3>6. Opening' <=> Opening
      BY <1>1 DEF Opening
    <3>7. seq' + One(Created)' + One(Opening)' + Len(pushQ') <= t + pushes'
      <4>1. /\ One(Created) = 0 /\ One(Created)' \in {0, 1} /\ One(Opening)' = One(Opening)
            /\ One(Opening) \in {0, 1}
        BY <3>5, <3>6 DEF One
      <4>2. pushes \in Nat
        BY BridgeAssumption DEF Rest
      <4> QED BY <1>1, <3>2, <3>3, <4>1, <4>2
    <3>8. t \in 0..MaxTurns
      BY BridgeAssumption DEF Tasks
    <3> QED BY <3>4, <3>7, <3>8 DEF Budget
  <2> QED BY <2>1, <2>2
<1>5. CASE SendAbandon(p) \/ CancelDone(p) \/ UserDropAudio(p)
  BY <1>2, <1>5 DEF SendAbandon, CancelDone, UserDropAudio
<1>6. CASE SendReplace(p)
  BY <1>1, <1>3, <1>6 DEF SendReplace
<1>7. CASE CancelHeld(p)
  BY <1>1, <1>2, <1>3, <1>7 DEF CancelHeld
<1>8. CASE StartCut(p)
  <2>1. CASE EndCut(p, 0)
    BY <1>4, <1>8, <2>1, CutHolds
  <2>2. CASE EndCut(p, push.id)
    <3>1. push.id \in Nat
      BY DEF Inv, Typed, PushRec
    <3> QED BY <1>4, <1>8, <2>2, <3>1, CutHolds
  <2>3. CASE UNCHANGED turn
    BY <1>2, <2>3
  <2> QED BY <1>8, <2>1, <2>2, <2>3 DEF StartCut
<1>9. CASE UserDropClose(p) \/ CutAbortDone(p)
  <2>1. user[p].push \in Nat
    BY DEF Inv, Typed, UserRec
  <2> QED BY <1>2, <1>4, <1>9, <2>1, CutHolds DEF UserDropClose, CutAbortDone
<1> QED BY <1>5, <1>6, <1>7, <1>8, <1>9 DEF UserStep
-----------------------------------------------------------------------------
\* The worker opens a push for an event it has taken from the queue.
LEMMA BudgetWorker ==
  ASSUME Inv, Inv', Rest, Rest', Budget, WorkerStep
  PROVE  Budget'
<1> USE DEF turnVars, pushVars, closeVars, envVars
<1>1. /\ UNCHANGED <<turn, pushes>> /\ seq \in Nat /\ Len(pushQ) \in Nat /\ worker \in WorkerRec
  <2>1. UNCHANGED <<turn, pushes>>
    BY DEF WorkerStep, WorkerStart, WorkerWaited, WorkerLocked, WorkerConnected, WorkerChat,
           WorkerSent, WorkerSendFailed, WorkerEndEvent, WorkerEnded, WorkerEndFailed,
           WorkerDrained, WorkerClosedTts, WorkerDropAudio, WorkerDropClose
  <2>2. seq \in Nat /\ Len(pushQ) \in Nat /\ worker \in WorkerRec
    BY LenProperties DEF Inv, Typed, Rest
  <2> QED BY <2>1, <2>2
<1>2. Created' <=> Created
  BY <1>1 DEF Created
<1>3. pushQ # <<>> => Len(Tail(pushQ)) \in Nat /\ Len(Tail(pushQ)) + 1 = Len(pushQ)
  <2>1. ASSUME pushQ # <<>> PROVE Len(Tail(pushQ)) = Len(pushQ) - 1 /\ Len(pushQ) # 0
    BY <2>1, HeadTailProperties, EmptySeq DEF Rest
  <2> QED BY <1>1, <2>1
<1>4. Loop.pc \in {"get", "dead"}
  BY DEF Loop, Getting
<1>5. ASSUME seq' = seq,
             \/ Opening' => Opening
             \/ pushQ # <<>> /\ pushQ' = Tail(pushQ),
             pushQ' = pushQ \/ (pushQ # <<>> /\ pushQ' = Tail(pushQ))
      PROVE  Budget'
  <2>1. seq' + One(Created)' + One(Opening)' + Len(pushQ')
          <= seq + One(Created) + One(Opening) + Len(pushQ)
    <3>1. CASE Opening' => Opening
      <4>1. Len(pushQ') \in Nat /\ Len(pushQ') <= Len(pushQ)
        BY <1>1, <1>3, <1>5
      <4> QED BY <1>1, <1>2, <1>5, <3>1, <4>1 DEF One
    <3>2. CASE pushQ # <<>> /\ pushQ' = Tail(pushQ)
      BY <1>1, <1>2, <1>3, <1>5, <3>2 DEF One
    <3> QED BY <1>5, <3>1, <3>2
  <2> QED BY <1>1, <2>1, BudgetSame
<1>6. CASE WorkerLocked /\ ~Running(activeTurn) /\ ~push.open
  <2>1. Opening /\ seq' = seq + 1 /\ pushQ' = pushQ
    BY <1>6 DEF WorkerLocked, OpenPush, Opening, WorkerAt
  <2>2. ~Opening'
    BY <1>4, <1>6 DEF WorkerLocked, OpenPush, Opening, Getting
  <2>3. seq' + One(Created)' + One(Opening)' + Len(pushQ')
          <= seq + One(Created) + One(Opening) + Len(pushQ)
    BY <1>1, <1>2, <2>1, <2>2 DEF One
  <2> QED BY <1>1, <2>3, BudgetSame
<1>7. CASE WorkerLocked /\ (Running(activeTurn) \/ push.open)
  BY <1>5, <1>7 DEF WorkerLocked, OpenPush, Opening, WorkerAt
<1>8. CASE WorkerStart
  BY <1>5, <1>8 DEF WorkerStart, NextEvent
<1>9. CASE WorkerWaited
  BY <1>5, <1>9 DEF WorkerWaited, Opening, WorkerAt
<1>10. CASE WorkerChat
  <2>1. worker' = worker \/ worker' = [Getting EXCEPT !.pc = "send"]
    BY <1>10 DEF WorkerChat
  <2>2. Opening' => Opening
    BY <2>1 DEF Opening, Getting
  <2> QED BY <1>5, <1>10, <2>2 DEF WorkerChat, NextEvent
<1>11. ASSUME NEW ending \in BOOLEAN, DropByWorker(ending) PROVE ~Opening'
  <2>1. PICK pc \in {"drop_audio", "drop_close"} :
          worker' = [worker EXCEPT !.pc = pc, !.tts = push.tts, !.ending = ending]
    BY <1>11 DEF DropByWorker, DropPc
  <2>2. worker'.pc = pc
    BY <1>1, <2>1 DEF WorkerRec
  <2> QED BY <2>1, <2>2 DEF Opening
<1>12. ASSUME NEW id, CloseByWorker(id) PROVE ~Opening'
  BY <1>4, <1>12 DEF CloseByWorker, Opening
<1>13. CASE WorkerEndEvent
  <2>1. seq' = seq /\ pushQ # <<>> /\ pushQ' = Tail(pushQ)
    BY <1>13 DEF WorkerEndEvent, NextEvent
  <2> QED BY <1>5, <2>1
<1>14. CASE \E ok \in BOOLEAN : WorkerConnected(ok)
  <2>1. worker' = Loop /\ UNCHANGED <<seq, pushQ>>
    BY <1>14 DEF WorkerConnected
  <2>2. ~Opening'
    BY <1>4, <2>1 DEF Opening
  <2> QED BY <1>5, <2>1, <2>2
<1>15. CASE WorkerSent \/ WorkerClosedTts
  <2>1. worker' = Loop /\ UNCHANGED <<seq, pushQ>>
    BY <1>15 DEF WorkerSent, WorkerClosedTts
  <2>2. ~Opening'
    BY <1>4, <2>1 DEF Opening
  <2> QED BY <1>5, <2>1, <2>2
<1>16. CASE WorkerSendFailed \/ WorkerEndFailed
  <2>1. UNCHANGED <<seq, pushQ>> /\ (worker' = Loop \/ \E ending \in BOOLEAN : DropByWorker(ending))
    BY <1>16 DEF WorkerSendFailed, WorkerEndFailed
  <2>2. ~Opening'
    BY <1>4, <1>11, <2>1 DEF Opening
  <2> QED BY <1>5, <2>1, <2>2
<1>17. CASE WorkerEnded
  <2>1. UNCHANGED <<seq, pushQ>> /\ EndTail(worker.id)
    BY <1>17 DEF WorkerEnded
  <2>2. CASE push.tts # 0
    <3>1. PICK pc \in {"drain", "close_tts"} :
            worker' = [worker EXCEPT !.pc = pc, !.id = worker.id, !.tts = push.tts]
      BY <2>1, <2>2 DEF EndTail
    <3>2. worker'.pc = pc
      BY <1>1, <3>1 DEF WorkerRec
    <3> QED BY <1>5, <2>1, <3>1, <3>2 DEF Opening
  <2>3. CASE push.tts = 0
    BY <1>5, <1>12, <2>1, <2>3 DEF EndTail
  <2> QED BY <2>2, <2>3
<1>18. CASE WorkerDrained
  <2>1. UNCHANGED <<seq, pushQ>>
        /\ (worker' = [worker EXCEPT !.pc = "close_tts"] \/ CloseByWorker(worker.id))
    BY <1>18 DEF WorkerDrained
  <2>2. ~Opening'
    BY <1>1, <1>12, <2>1 DEF Opening, WorkerRec
  <2> QED BY <1>5, <2>1, <2>2
<1>19. CASE WorkerDropAudio
  <2>1. UNCHANGED <<seq, pushQ>> /\ worker' = [worker EXCEPT !.pc = "drop_close"]
    BY <1>19 DEF WorkerDropAudio
  <2>2. ~Opening'
    BY <1>1, <2>1 DEF Opening, WorkerRec
  <2> QED BY <1>5, <2>1, <2>2
<1>20. CASE WorkerDropClose
  <2>1. UNCHANGED <<seq, pushQ>> /\ (worker' = Loop \/ CloseByWorker(worker.id))
    BY <1>20 DEF WorkerDropClose
  <2>2. ~Opening'
    BY <1>4, <1>12, <2>1 DEF Opening
  <2> QED BY <1>5, <2>1, <2>2
<1>21. CASE WorkerLocked
  BY <1>6, <1>7, <1>21
<1> QED BY <1>8, <1>9, <1>10, <1>13, <1>14, <1>15, <1>16, <1>17, <1>18, <1>19, <1>20, <1>21
        DEF WorkerStep

LEMMA BudgetClose ==
  ASSUME Inv, Inv', Rest, Rest', Budget, NEW c \in Closers, CloseCall(c) \/ CloseStep(c)
  PROVE  Budget'
<1> USE DEF turnVars, pushVars, closeVars, envVars
<1>1. /\ seq \in Nat /\ Len(pushQ) \in Nat /\ turn \in [Tasks -> TurnRec] /\ UNCHANGED <<seq, pushes>>
      /\ activeTurn \in 0..MaxTurns
  <2>1. UNCHANGED <<seq, pushes>>
    BY DEF CloseCall, CloseStep, CloseStart, CloseTurn, CloseWorker, ClosePushTts, CloseFinish
  <2>2. seq \in Nat /\ Len(pushQ) \in Nat
    BY LenProperties DEF Inv, Typed, Rest
  <2> QED BY <2>1, <2>2 DEF Inv, Typed
<1>2. ASSUME \A o \in Tasks : turn'[o].pc = turn[o].pc, Opening' => Opening,
             pushQ' = pushQ \/ pushQ' = <<>>
      PROVE  Budget'
  <2>1. Created' <=> Created
    BY <1>2 DEF Created
  <2>2. Len(pushQ') \in Nat /\ Len(pushQ') <= Len(pushQ)
    BY <1>1, <1>2
  <2>3. seq' + One(Created)' + One(Opening)' + Len(pushQ')
          <= seq + One(Created) + One(Opening) + Len(pushQ)
    BY <1>1, <1>2, <2>1, <2>2 DEF One
  <2> QED BY <1>1, <1>2, <2>3, BudgetSame
<1>3. CASE CloseStart(c)
  <2>1. \A o \in Tasks : turn'[o].pc = turn[o].pc
    <3>1. CASE turn' = Cancelled(activeTurn) /\ Running(activeTurn)
      <4>1. activeTurn \in Tasks /\ turn' = [turn EXCEPT ![activeTurn].cancel = TRUE]
        BY <1>1, <3>1, BridgeAssumption DEF Running, Cancelled, Tasks
      <4> QED BY <1>1, <4>1 DEF TurnRec
    <3>2. CASE UNCHANGED turn
      BY <3>2
    <3> QED BY <1>3, <3>1, <3>2 DEF CloseStart, Cancelled
  <2>2. Opening' => Opening
    BY <1>3 DEF CloseStart, Opening
  <2> QED BY <1>2, <1>3, <2>1, <2>2 DEF CloseStart
<1>4. CASE CloseTurn(c)
  <2>1. ~Opening'
    BY <1>4 DEF CloseTurn, Opening, Getting
  <2> QED BY <1>2, <1>4, <2>1 DEF CloseTurn
<1>5. CASE CloseCall(c) \/ CloseWorker(c) \/ ClosePushTts(c) \/ CloseFinish(c)
  BY <1>2, <1>5 DEF CloseCall, CloseWorker, ClosePushTts, CloseFinish, Opening
<1> QED BY <1>3, <1>4, <1>5 DEF CloseStep

LEMMA BudgetNext == Inv /\ Inv' /\ Rest /\ Rest' /\ Order /\ Budget /\ [Next]_vars => Budget'
<1> SUFFICES ASSUME Inv, Inv', Rest, Rest', Order, Budget, [Next]_vars PROVE Budget'
  OBVIOUS
<1> USE DEF turnVars, pushVars, closeVars, envVars
<1>1. ASSUME NEW t \in Tasks, TurnStep(t) PROVE Budget'
  BY <1>1, BudgetTurn
<1>2. ASSUME NEW p \in UserTasks, UserStep(p) PROVE Budget'
  BY <1>2, BudgetUser
<1>3. CASE WorkerStep
  BY <1>3, BudgetWorker
<1>4. ASSUME NEW c \in Closers, CloseCall(c) \/ CloseStep(c) PROVE Budget'
  BY <1>4, BudgetClose
<1>5. ASSUME NEW kind \in {"turn_start", "chat", "turn_end"}, PushEvent(kind) PROVE Budget'
  <2>1. PICK n \in 0..MaxTurns : /\ Begun(n)
                                 /\ seq + One(Created) + One(Opening) + Len(pushQ) <= n + pushes
    BY DEF Budget
  <2>2. UNCHANGED <<turn, worker, seq>> /\ pushQ' = Append(pushQ, kind) /\ pushes' = pushes + 1
    BY <1>5 DEF PushEvent
  <2>3. Len(pushQ) \in Nat /\ Len(pushQ') = Len(pushQ) + 1 /\ seq \in Nat /\ pushes \in Nat
    BY <2>2, AppendProperties, LenProperties, BridgeAssumption DEF Rest, Inv, Typed
  <2>4. Begun(n)' /\ (Created' <=> Created) /\ (Opening' <=> Opening)
    BY <2>1, <2>2 DEF Begun, Created, Opening
  <2>5. seq' + One(Created)' + One(Opening)' + Len(pushQ') <= n + pushes'
    BY <2>1, <2>2, <2>3, <2>4 DEF One
  <2> QED BY <2>4, <2>5 DEF Budget
<1>6. CASE \/ SendCmd \/ (\E p \in UserTasks, op \in {"cancel", "partial", "final"} : UserOp(p, op))
           \/ (\E id \in Ids : AudioFrame(id) \/ AudioEnd(id))
           \/ ClientLeaves \/ UNCHANGED vars
  <2>1. UNCHANGED <<turn, worker, seq, pushQ, pushes>>
    BY <1>6 DEF SendCmd, UserOp, AudioFrame, AudioEnd, ClientLeaves, vars
  <2> QED BY <2>1 DEF Budget, Begun, Created, Opening
<1> QED BY <1>1, <1>2, <1>3, <1>4, <1>5, <1>6 DEF Next, Environment, UserTasks

\* There are enough ids.
LEMMA EnoughIds == Inv /\ Rest /\ Budget => seq \in 0..MaxId
<1> SUFFICES ASSUME Inv, Rest, Budget PROVE seq \in 0..MaxId
  OBVIOUS
<1>1. PICK n \in 0..MaxTurns : seq + One(Created) + One(Opening) + Len(pushQ) <= n + pushes
  BY DEF Budget
<1>2. One(Created) \in Nat /\ One(Opening) \in Nat /\ Len(pushQ) \in Nat
  BY LenProperties DEF One, Rest
<1> QED BY <1>1, <1>2, BridgeAssumption DEF Inv, Typed, Rest

LEMMA AllTyped == Inv /\ Foreign /\ Order /\ UpToSeq /\ Rest /\ Budget => TypeOK
<1> SUFFICES ASSUME Inv, Foreign, Order, UpToSeq, Rest, Budget PROVE TypeOK
  OBVIOUS
<1>1. seq \in 0..MaxId /\ MaxId \in Nat /\ MaxTurns \in Nat
  BY EnoughIds, BridgeAssumption
<1>2. turn \in [Tasks -> [pc : {"none", "created", "running", "cleanup", "done"},
                          id : 0..MaxId, cancel : BOOLEAN]]
  <2>1. ASSUME NEW t \in Tasks
        PROVE  turn[t] \in [pc : {"none", "created", "running", "cleanup", "done"},
                            id : 0..MaxId, cancel : BOOLEAN]
    <3>1. turn[t] \in TurnRec /\ turn[t].id <= seq
      BY DEF Inv, Typed, UpToSeq
    <3> QED BY <1>1, <3>1 DEF TurnRec
  <2> QED BY <2>1 DEF Inv, Typed
<1>3. push \in [open : BOOLEAN, id : 0..MaxId, tts : 0..MaxId, audio : 0..MaxId]
  <2>1. push \in PushRec /\ PushUpTo(push, seq)
    BY DEF Inv, Typed, UpToSeq
  <2> QED BY <1>1, <2>1 DEF PushRec, PushUpTo
<1>4. user \in [UserTasks ->
       [pc : {"idle", "send_lock", "send_wait", "cancel_lock", "cancel_wait", "cut_lock",
              "drop_audio", "drop_close", "cut_abort", "dead"},
        op : {"none", "send", "cancel", "partial", "final"},
        turn : 0..MaxTurns, id : 0..MaxId, push : 0..MaxId, tts : 0..MaxId]]
  <2>1. ASSUME NEW p \in UserTasks
        PROVE  user[p] \in
       [pc : {"idle", "send_lock", "send_wait", "cancel_lock", "cancel_wait", "cut_lock",
              "drop_audio", "drop_close", "cut_abort", "dead"},
        op : {"none", "send", "cancel", "partial", "final"},
        turn : 0..MaxTurns, id : 0..MaxId, push : 0..MaxId, tts : 0..MaxId]
    <3>1. user[p] \in UserRec /\ UserUpTo(user[p], seq)
      BY DEF Inv, Typed, UpToSeq
    <3> QED BY <1>1, <3>1 DEF UserRec, UserUpTo
  <2> QED BY <2>1 DEF Inv, Typed
<1>5. worker \in [pc : {"get", "wait_turn", "lock", "connect", "send", "drop_audio", "drop_close",
                       "end", "drain", "close_tts", "dead"},
                 id : 0..MaxId, tts : 0..MaxId, ending : BOOLEAN]
  <2>1. worker \in WorkerRec /\ WorkerUpTo(worker, seq)
    BY DEF Inv, Typed, UpToSeq
  <2> QED BY <1>1, <2>1 DEF WorkerRec, WorkerUpTo
<1>6. log \in Seq(Message)
  <2>1. log \in Seq(LogRec) /\ \A k \in 1..Len(log) : log[k].id <= seq
    BY DEF UpToSeq, LogUpTo
  <2>2. ASSUME NEW k \in 1..Len(log) PROVE log[k] \in Message
    <3>1. log[k] \in LogRec /\ log[k].id <= seq
      BY <2>1, <2>2, ElementOfSeq
    <3> QED BY <1>1, <3>1 DEF LogRec, Message
  <2>3. log \in [1..Len(log) -> Message] /\ Len(log) \in Nat
    BY <2>1, <2>2, LenProperties
  <2> QED BY <2>3, SeqDef
<1>7. activeId \in 0..MaxId /\ endAtClose \in 0..MaxId /\ activeTurn \in 0..MaxTurns
  BY <1>1 DEF Inv, Typed, UpToSeq
<1>8. closer \in [Closers -> [pc : {"none", "lock", "turn", "worker", "push_tts", "tasks", "done"},
                             turn : 0..MaxTurns]]
  BY DEF Inv, Typed, CloserRec
<1>9. /\ lockQ \in Seq(Lockers) /\ closeQ \in Seq(Closers)
      /\ audio \in [Ids -> {"none", "live", "done"}]
      /\ {closing, closed, own, gone} \subseteq BOOLEAN
  BY DEF Order, Locks, Foreign, Rest, Inv, Typed
<1> QED BY <1>1, <1>2, <1>3, <1>4, <1>5, <1>6, <1>7, <1>8, <1>9 DEF TypeOK, Rest

-----------------------------------------------------------------------------
\* The inductive invariant of the wire.
IInv == Inv /\ Foreign /\ Order /\ UpToSeq /\ Wire /\ Rest /\ Budget

LEMMA AllInit == Init => IInv
BY InvInit, ForeignInit, OrderInit, UpToInit, WireInit, RestInit DEF IInv

LEMMA AllNext == IInv /\ [Next]_vars => IInv'
<1> SUFFICES ASSUME IInv, [Next]_vars PROVE IInv'
  OBVIOUS
<1>1. Inv /\ Foreign /\ Order /\ UpToSeq /\ Wire /\ Rest /\ Budget
  BY DEF IInv
<1>2. Inv' /\ Foreign' /\ UpToSeq' /\ Wire' /\ Rest'
  BY <1>1, InvNext, ForeignNext, UpToNext, WireNext, RestNext
<1>3. Order'
  <2>1. log \in Seq(LogRec)
    BY <1>1 DEF Wire, Heard
  <2> QED BY <1>1, <1>2, <2>1, OrderNext
<1>4. Budget'
  BY <1>1, <1>2, BudgetNext
<1> QED BY <1>2, <1>3, <1>4 DEF IInv

\* _call_orchestrator, on_push_turn_start and _close_push_turn (G-10, #84, #202): the turns and
\* pushes a client is told of never overlap, each ends once whoever ends it, an `interrupted` comes
\* after the turn_end of what it cut, and no variable leaves its type.
THEOREM WireStaysInOrder == Spec => []WireIsInOrder
<1>1. IInv => WireIsInOrder
  BY AllTyped DEF IInv, Wire, Heard, WireIsInOrder
<1> QED BY <1>1, AllInit, AllNext, PTL DEF Spec

\* close_all (_turn_end_sent_at_close): session_end is sent once, last, and with no turn left open,
\* though any number of callers race and the turn they wait for is given up.
THEOREM SessionEndsAreComplete == Spec => []SessionEndsComplete
<1>1. IInv => SessionEndsComplete
  BY DEF IInv, Wire, Heard
<1> QED BY <1>1, AllInit, AllNext, PTL DEF Spec
=============================================================================
