----------------------------- MODULE BridgeTurns -----------------------------
(***************************************************************************)
(* The turn engine of one client session: JotaBridge in                    *)
(* src/jota_gateway/services/bridge.py.                                    *)
(*                                                                         *)
(* The gateway is one asyncio process, so a step of this specification is  *)
(* what a task does between two awaits that really suspend it.  The tasks: *)
(*   - the input loop ("input": send, cancel) and the transcriber callback *)
(*     ("stt": partial, final), which start, cancel and cut turns under    *)
(*     _turn_lock;                                                         *)
(*   - one task per normal turn (_call_orchestrator);                      *)
(*   - the push worker and the audio task of a push turn;                  *)
(*   - the callers of close_all (a watchdog, the route's finally).         *)
(* OutboundSender.send_json only enqueues, so what the client is sent is   *)
(* the order in which the tasks append to log.                             *)
(***************************************************************************)
EXTENDS Naturals, FiniteSets, SequencesExt

CONSTANTS
  MaxTurns,     \* bound: normal turns the user may start
  MaxId,        \* bound: turn ids (normal and push turns share _turn_seq)
  MaxQueue,     \* bound: push events waiting for the worker
  MaxPush,      \* bound: push events OpenClaw sends (MaxId covers every turn they can open)
  MaxOps,       \* bound: cancel, partial and final events
  Closers,      \* the tasks that call close_all
  WithAudio     \* "audio" in handshake.output_mode

ASSUME BridgeAssumption ==
  /\ MaxTurns \in Nat /\ MaxId \in Nat /\ MaxQueue \in Nat
  /\ MaxPush \in Nat /\ MaxOps \in Nat
  /\ MaxTurns + MaxPush <= MaxId
  /\ WithAudio \in BOOLEAN

VARIABLES
  turn,        \* the normal turn tasks: [pc, id, cancel]
  activeTurn,  \* _active_turn, 0 for None
  activeId,    \* _active_turn_id, 0 for None
  seq,         \* _turn_seq
  push,        \* _push_turn_open, _push_turn_id, _push_tts, _push_audio_task
  tts,         \* the TTS stream each push opened; "fed" once it has been given text
  audio,       \* the push_audio task of each push
  lockQ,       \* _turn_lock: the holder, then the waiters in FIFO order
  user,        \* the input loop and the transcriber callback
  pushQ,       \* _push_queue
  worker,      \* the push worker: [pc, id]
  closer,      \* the callers of close_all: [pc, turn]
  closeQ,      \* _close_lock: the holder, then the waiters
  closing,     \* _closing
  closed,      \* _closed
  endAtClose,  \* _turn_end_sent_at_close, 0 for None
  own,         \* pushes run on the bridge's own session_key: a cut aborts them
  gone,        \* the client socket is gone: every send raises ClientGone
  log,         \* what the client was sent, in order (tokens and audio left out)
  late,        \* history: turns whose tokens or audio were sent outside them
  pushes, ops  \* history: push events and user events so far (bounds)

turnVars  == <<turn, activeTurn, activeId, seq>>
pushVars  == <<push, tts, audio>>
closeVars == <<closer, closeQ, closing, closed, endAtClose>>
envVars   == <<own, gone, pushes, ops>>
vars == <<turnVars, pushVars, lockQ, user, pushQ, worker, closeVars, envVars, log, late>>

Tasks     == 1..MaxTurns
Ids       == 1..MaxId
UserTasks == {"input", "stt"}
Lockers   == UserTasks \cup {"worker"}

Message == [type : {"turn_start", "turn_end", "interrupted", "session_end"}, id : 0..MaxId]

TypeOK ==
  /\ turn \in [Tasks -> [pc : {"none", "created", "running", "cleanup", "done"},
                         id : 0..MaxId, cancel : BOOLEAN]]
  /\ activeTurn \in 0..MaxTurns /\ activeId \in 0..MaxId /\ seq \in 0..MaxId
  /\ push \in [open : BOOLEAN, id : 0..MaxId, tts : 0..MaxId, audio : 0..MaxId]
  /\ tts \in [Ids -> {"none", "live", "fed", "closed"}]
  /\ audio \in [Ids -> {"none", "live", "done"}]
  /\ lockQ \in Seq(Lockers)
  /\ user \in [UserTasks ->
       [pc : {"idle", "send_lock", "send_wait", "cancel_lock", "cancel_wait", "cut_lock",
              "drop_audio", "drop_close", "cut_abort", "dead"},
        op : {"none", "send", "cancel", "partial", "final"},
        turn : 0..MaxTurns, id : 0..MaxId, push : 0..MaxId, tts : 0..MaxId]]
  /\ pushQ \in Seq({"turn_start", "chat", "turn_end"})
  /\ worker \in [pc : {"get", "wait_turn", "lock", "connect", "send", "drop_audio", "drop_close",
                       "end", "drain", "close_tts", "dead"},
                 id : 0..MaxId, tts : 0..MaxId, ending : BOOLEAN]
  /\ closer \in [Closers -> [pc : {"none", "lock", "turn", "worker", "push_tts", "tasks", "done"},
                             turn : 0..MaxTurns]]
  /\ closeQ \in Seq(Closers)
  /\ {closing, closed, own, gone} \subseteq BOOLEAN
  /\ endAtClose \in 0..MaxId
  /\ log \in Seq(Message)
  /\ late \subseteq Ids
  /\ pushes \in 0..MaxPush /\ ops \in 0..MaxOps

Done     == [pc |-> "done", id |-> 0, cancel |-> FALSE]
NoOp     == [pc |-> "idle", op |-> "none", turn |-> 0, id |-> 0, push |-> 0, tts |-> 0]
Getting  == [pc |-> "get", id |-> 0, tts |-> 0, ending |-> FALSE]

Init ==
  /\ turn = [t \in Tasks |-> [pc |-> "none", id |-> 0, cancel |-> FALSE]]
  /\ activeTurn = 0 /\ activeId = 0 /\ seq = 0
  /\ push = [open |-> FALSE, id |-> 0, tts |-> 0, audio |-> 0]
  /\ tts = [i \in Ids |-> "none"] /\ audio = [i \in Ids |-> "none"]
  /\ lockQ = <<>> /\ closeQ = <<>>
  /\ user = [p \in UserTasks |-> NoOp]
  /\ pushQ = <<>> /\ worker = Getting
  /\ closer = [c \in Closers |-> [pc |-> "none", turn |-> 0]]
  /\ closing = FALSE /\ closed = FALSE /\ endAtClose = 0
  /\ own \in BOOLEAN /\ gone = FALSE /\ log = <<>> /\ late = {} /\ pushes = 0 /\ ops = 0
-----------------------------------------------------------------------------
(* Helpers.                                                                *)

Msg(type, id) == [type |-> type, id |-> id]

\* Every send is guarded: a client that is gone gets nothing and nothing fails.
Sent(ms) == IF gone THEN log ELSE log \o ms

IsNext(t) == turn[t].pc = "none" /\ \A u \in 1..(t - 1) : turn[u].pc # "none"

Holds(p) == lockQ # <<>> /\ lockQ[1] = p
Running(t) == t # 0 /\ turn[t].pc \in {"created", "running", "cleanup"}  \* not task.done()

\* task.cancel(): delivered at the task's next step.
Cancelled(t) == IF Running(t) THEN [turn EXCEPT ![t].cancel = TRUE] ELSE turn

\* `if self._active_turn is turn: self._active_turn = None`
Cleared(t) == IF activeTurn = t THEN 0 ELSE activeTurn

\* _close_push_turn(id): the flags drop before any await, and only one caller sends turn_end.
PushIs(id)      == push.open /\ push.id = id
PushClosed(id)  == IF PushIs(id) THEN [push EXCEPT !.open = FALSE] ELSE push
PushEndMsg(id)  == IF PushIs(id) THEN <<Msg("turn_end", id)>> ELSE <<>>

\* _drop_push_tts up to its first await: the references are cleared and the audio is cancelled.
Dropped     == [push EXCEPT !.tts = 0, !.audio = 0]
KeepAudio   == audio     \* mutant of DropAudio: the audio task is not cancelled
DropAudio   == IF push.audio # 0 THEN [audio EXCEPT ![push.audio] = "done"] ELSE audio
DropPc      == IF push.audio # 0 /\ audio[push.audio] = "live" THEN "drop_audio" ELSE "drop_close"
-----------------------------------------------------------------------------
(* Normal turns: _call_orchestrator.                                       *)

\* The task's first step: turn_start is sent and _active_turn_id set.  A client that is
\* gone makes it return before that.
TurnBegin(t) ==
  /\ turn[t].pc = "created" /\ ~turn[t].cancel
  /\ seq' = seq + 1
  /\ IF gone
     THEN /\ turn' = [turn EXCEPT ![t] = Done]
          /\ UNCHANGED activeId
     ELSE /\ turn' = [turn EXCEPT ![t].pc = "running", ![t].id = seq + 1]
          /\ activeId' = seq + 1
  /\ log' = Sent(<<Msg("turn_start", seq + 1)>>)
  /\ UNCHANGED <<activeTurn, pushVars, lockQ, user, pushQ, worker, closeVars, envVars, late>>

\* A task cancelled before its first step never runs: no turn_start, no turn_end.
TurnNeverRan(t) ==
  /\ turn[t].pc = "created" /\ turn[t].cancel
  /\ turn' = [turn EXCEPT ![t] = Done]
  /\ UNCHANGED <<activeTurn, activeId, seq, pushVars, lockQ, user, pushQ, worker, closeVars,
                 envVars, log, late>>

\* The reply ends, fails, times out or is cancelled: what remains is the cleanup of
\* _run_turn (closing the stream sends chat.abort, closing the TTS), which awaits.
TurnUnwind(t) ==
  /\ turn[t].pc = "running"
  /\ turn' = [turn EXCEPT ![t].pc = "cleanup"]
  /\ UNCHANGED <<activeTurn, activeId, seq, pushVars, lockQ, user, pushQ, worker, closeVars,
                 envVars, log, late>>

NeverSentAtClose(id) == FALSE     \* mutant of SentAtClose: the finally does not look
SentAtClose(id)      == endAtClose = id

\* The finally of _call_orchestrator: its turn_end, unless close_all already sent it.
TurnEnd(t) ==
  /\ turn[t].pc = "cleanup"
  /\ turn' = [turn EXCEPT ![t] = Done]
  /\ activeId' = IF activeId = turn[t].id THEN 0 ELSE activeId
  /\ log' = IF SentAtClose(turn[t].id) THEN log ELSE Sent(<<Msg("turn_end", turn[t].id)>>)
  /\ UNCHANGED <<activeTurn, seq, pushVars, lockQ, user, pushQ, worker, closeVars, envVars, late>>
-----------------------------------------------------------------------------
(* The user's side: _start_turn, _cancel_turn and _cut_push, under          *)
(* _turn_lock.  user[p] holds the locals of the handler task p is in.       *)

Queued(p, u) == /\ lockQ' = Append(lockQ, p)
                /\ user' = [user EXCEPT ![p] = u]

\* `send`: refused once the session is closing (G-09).
SendCmd ==
  /\ user["input"].pc = "idle" /\ ~closing
  /\ \E t \in Tasks : turn[t].pc = "none"
  /\ Queued("input", [NoOp EXCEPT !.pc = "send_lock", !.op = "send"])
  /\ UNCHANGED <<turnVars, pushVars, pushQ, worker, closeVars, envVars, log, late>>

\* `cancel` from the client; a substantial partial (barge-in) or a final transcription
\* from the transcriber.  The turn and the push they act on are captured on entry; a final
\* transcription leaves a push alone.
UserOp(p, op) ==
  LET t   == IF Running(activeTurn) THEN activeTurn ELSE 0
      pid == IF push.open /\ op # "final" THEN push.id ELSE 0
  IN /\ user[p].pc = "idle" /\ ops < MaxOps /\ ops' = ops + 1
     /\ t # 0 \/ pid # 0
     /\ Queued(p, [NoOp EXCEPT !.pc = IF t # 0 THEN "cancel_lock" ELSE "cut_lock", !.op = op,
                               !.turn = t, !.id = IF t # 0 THEN activeId ELSE 0, !.push = pid])
     /\ UNCHANGED <<turnVars, pushVars, pushQ, worker, closeVars, own, gone, pushes, log, late>>

\* _start_turn with the lock: give up if the session began to close, cancel the current turn.
SendAbandon(p) ==
  /\ user[p].pc = "send_lock" /\ Holds(p) /\ closing
  /\ lockQ' = Tail(lockQ) /\ user' = [user EXCEPT ![p] = NoOp]
  /\ UNCHANGED <<turnVars, pushVars, pushQ, worker, closeVars, envVars, log, late>>

SendReplace(p) ==
  /\ user[p].pc = "send_lock" /\ Holds(p) /\ ~closing /\ Running(activeTurn)
  /\ turn' = Cancelled(activeTurn)
  /\ user' = [user EXCEPT ![p].pc = "send_wait", ![p].turn = activeTurn]
  /\ UNCHANGED <<activeTurn, activeId, seq, pushVars, lockQ, pushQ, worker, closeVars, envVars,
                 log, late>>

\* _cancel_turn with the lock: another caller may have cancelled the captured turn meanwhile.
\* When nothing was cancelled, `cancel` and the partial go on to the captured push.
\* Mutant of AfterCancel: an early return that keeps the lock.
AfterCancelLocked(p) ==
  IF user[p].push # 0
  THEN lockQ' = Append(Tail(lockQ), p) /\ user' = [user EXCEPT ![p].pc = "cut_lock"]
  ELSE UNCHANGED lockQ /\ user' = [user EXCEPT ![p] = NoOp]

AfterCancel(p) ==
  IF user[p].push # 0
  THEN /\ lockQ' = Append(Tail(lockQ), p)
       /\ user' = [user EXCEPT ![p].pc = "cut_lock"]
  ELSE /\ lockQ' = Tail(lockQ)
       /\ user' = [user EXCEPT ![p] = NoOp]

CancelHeld(p) ==
  /\ user[p].pc = "cancel_lock" /\ Holds(p)
  /\ IF Running(user[p].turn)
     THEN /\ turn' = Cancelled(user[p].turn)
          /\ user' = [user EXCEPT ![p].pc = "cancel_wait"]
          /\ UNCHANGED lockQ
     ELSE AfterCancel(p) /\ UNCHANGED turn
  /\ UNCHANGED <<activeTurn, activeId, seq, pushVars, pushQ, worker, closeVars, envVars, log, late>>

TurnOver(p)       == ~Running(user[p].turn)

\* The cancelled turn is done.  From here to `interrupted` nothing suspends the task, so
\* giving up the lock and sending it is one step.
CancelDone(p) ==
  /\ user[p].pc = "cancel_wait" /\ TurnOver(p)
  /\ activeTurn' = Cleared(user[p].turn)
  /\ IF user[p].op = "partial"
     THEN /\ lockQ' = Tail(lockQ) /\ user' = [user EXCEPT ![p] = NoOp]
          /\ log' = Sent(<<Msg("interrupted", user[p].id)>>)
     ELSE AfterCancel(p) /\ UNCHANGED log
  /\ UNCHANGED <<turn, activeId, seq, pushVars, pushQ, worker, closeVars, envVars, late>>

MayStartUnchecked(p) == user[p].op = "send"     \* mutant of MayStart: _closing is not read again
MayStart(p)          == user[p].op = "send" /\ ~closing

\* The end of a cut (id is 0 when there was nothing to cut) and of the handler it belongs to:
\* the push is closed, `send` creates its turn, a barge-in says so.
EndCut(p, id) ==
  /\ push' = PushClosed(id)
  /\ log' = Sent(PushEndMsg(id) \o IF user[p].op = "partial" /\ id # 0
                                   THEN <<Msg("interrupted", id)>> ELSE <<>>)
  /\ lockQ' = Tail(lockQ)
  /\ user' = [user EXCEPT ![p] = NoOp]
  /\ IF MayStart(p)
     THEN \E t \in Tasks : /\ IsNext(t)
                           /\ turn' = [turn EXCEPT ![t].pc = "created"]
                           /\ activeTurn' = t
     ELSE /\ activeTurn' = IF user[p].op = "send" THEN Cleared(user[p].turn) ELSE activeTurn
          /\ UNCHANGED turn

\* _cut_push up to its first await.  For `cancel` and the partial only the captured push is
\* cut; one opened meanwhile is left alone.
ReadyToCut(p) ==
  \/ user[p].pc = "send_lock" /\ Holds(p) /\ ~closing /\ ~Running(activeTurn)
  \/ user[p].pc = "send_wait" /\ TurnOver(p)
  \/ user[p].pc = "cut_lock" /\ Holds(p)

MustCut(p) == push.open /\ (user[p].op = "send" \/ push.id = user[p].push)

StartCut(p) ==
  /\ ReadyToCut(p)
  /\ \/ /\ ~MustCut(p) /\ EndCut(p, 0) /\ UNCHANGED audio
     \/ /\ MustCut(p) /\ push.tts = 0 /\ ~own /\ EndCut(p, push.id) /\ UNCHANGED audio
     \/ /\ MustCut(p) /\ (push.tts # 0 \/ own)
        /\ user' = [user EXCEPT ![p].pc = IF push.tts # 0 THEN DropPc ELSE "cut_abort",
                                ![p].push = push.id, ![p].tts = push.tts]
        /\ push' = IF push.tts # 0 THEN Dropped ELSE push
        /\ audio' = IF push.tts # 0 THEN DropAudio ELSE audio
        /\ activeTurn' = IF user[p].op = "send" THEN Cleared(user[p].turn) ELSE activeTurn
        /\ UNCHANGED <<turn, lockQ, log>>
  /\ UNCHANGED <<activeId, seq, tts, pushQ, worker, closeVars, envVars, late>>

\* _drop_push_tts waits for the cancelled audio task, then closes the stream.
UserDropAudio(p) ==
  /\ user[p].pc = "drop_audio"
  /\ user' = [user EXCEPT ![p].pc = "drop_close"]
  /\ UNCHANGED <<turnVars, pushVars, lockQ, pushQ, worker, closeVars, envVars, log, late>>

UserDropClose(p) ==
  /\ user[p].pc = "drop_close"
  /\ tts' = [tts EXCEPT ![user[p].tts] = "closed"]
  /\ IF own
     THEN /\ user' = [user EXCEPT ![p].pc = "cut_abort"]
          /\ UNCHANGED <<turn, activeTurn, push, lockQ, log>>
     ELSE EndCut(p, user[p].push)
  /\ UNCHANGED <<activeId, seq, audio, pushQ, worker, closeVars, envVars, late>>

\* orchestrator.abort has answered, failed or run into its timeout.
CutAbortDone(p) ==
  /\ user[p].pc = "cut_abort"
  /\ EndCut(p, user[p].push)
  /\ UNCHANGED <<activeId, seq, tts, audio, pushQ, worker, closeVars, envVars, late>>
-----------------------------------------------------------------------------
(* Push turns: enqueue_push and the worker.                                *)

\* OpenClaw's events for this client, as the dispatcher hands them over: refused once the
\* bridge is closing.
PushEvent(kind) ==
  /\ ~closing /\ pushes < MaxPush /\ Len(pushQ) < MaxQueue
  /\ pushes' = pushes + 1
  /\ pushQ' = Append(pushQ, kind)
  /\ UNCHANGED <<turnVars, pushVars, lockQ, user, worker, closeVars, own, gone, ops, log, late>>

\* The loop condition is read between events only: a worker already waiting in get() takes
\* one more event after the session began to close.
WorkerAt(pc) == worker.pc = pc
Loop == IF closing THEN [Getting EXCEPT !.pc = "dead"] ELSE Getting
NextEvent(kind) == WorkerAt("get") /\ pushQ # <<>> /\ Head(pushQ) = kind

\* turn_start waits for the normal turn to end, then passes through the lock.
WorkerStart ==
  /\ NextEvent("turn_start")
  /\ pushQ' = Tail(pushQ)
  /\ IF Running(activeTurn)
     THEN worker' = [Getting EXCEPT !.pc = "wait_turn"] /\ UNCHANGED lockQ
     ELSE worker' = [Getting EXCEPT !.pc = "lock"] /\ lockQ' = Append(lockQ, "worker")
  /\ UNCHANGED <<turnVars, pushVars, user, closeVars, envVars, log, late>>

WorkerWaited ==
  /\ WorkerAt("wait_turn") /\ ~Running(activeTurn)
  /\ worker' = [worker EXCEPT !.pc = "lock"] /\ lockQ' = Append(lockQ, "worker")
  /\ UNCHANGED <<turnVars, pushVars, user, pushQ, closeVars, envVars, log, late>>

\* on_push_turn_start up to tts.connect; a nested agent start opens nothing (#84).
OpenPush ==
  IF push.open
  THEN worker' = Loop /\ UNCHANGED <<seq, push, log>>
  ELSE /\ seq' = seq + 1
       /\ push' = [push EXCEPT !.open = TRUE, !.id = seq + 1]
       /\ log' = Sent(<<Msg("turn_start", seq + 1)>>)
       /\ worker' = IF WithAudio THEN [Getting EXCEPT !.pc = "connect", !.id = seq + 1]
                                 ELSE Loop

WorkerLocked ==
  /\ WorkerAt("lock") /\ Holds("worker")
  /\ lockQ' = Tail(lockQ)
  /\ IF Running(activeTurn)
     THEN worker' = [worker EXCEPT !.pc = "wait_turn"] /\ UNCHANGED <<seq, push, log>>
     ELSE OpenPush
  /\ UNCHANGED <<turn, activeTurn, activeId, tts, audio, user, pushQ, closeVars, envVars, late>>

\* tts.connect fails, or returns a stream: kept with its audio task if the push is still the
\* open one, closed if it was cut meanwhile.
WorkerConnected(ok) ==
  /\ WorkerAt("connect")
  /\ worker' = Loop
  /\ LET id == worker.id
     IN IF ok /\ PushIs(id)
        THEN /\ push' = [push EXCEPT !.tts = id, !.audio = id]
             /\ tts' = [tts EXCEPT ![id] = "live"] /\ audio' = [audio EXCEPT ![id] = "live"]
        ELSE /\ tts' = IF ok THEN [tts EXCEPT ![id] = "closed"] ELSE tts
             /\ UNCHANGED <<push, audio>>
  /\ UNCHANGED <<turnVars, lockQ, user, pushQ, closeVars, envVars, log, late>>

\* deliver_push: dropped unless a push is open; its text also feeds the push's TTS.
WorkerChat ==
  /\ NextEvent("chat")
  /\ pushQ' = Tail(pushQ)
  /\ IF push.open /\ push.tts # 0
     THEN /\ worker' = [Getting EXCEPT !.pc = "send"]
          /\ tts' = [tts EXCEPT ![push.tts] = "fed"]
     ELSE UNCHANGED <<worker, tts>>
  /\ UNCHANGED <<turnVars, push, audio, lockQ, user, closeVars, envVars, log, late>>

WorkerSent ==
  /\ WorkerAt("send") /\ worker' = Loop
  /\ UNCHANGED <<turnVars, pushVars, lockQ, user, pushQ, closeVars, envVars, log, late>>

\* A failed or hung TTS call: the worker drops the TTS the bridge holds now, if any.
DropByWorker(ending) ==
  /\ push.tts # 0
  /\ worker' = [worker EXCEPT !.pc = DropPc, !.tts = push.tts, !.ending = ending]
  /\ push' = Dropped /\ audio' = DropAudio

WorkerSendFailed ==
  /\ WorkerAt("send")
  /\ \/ DropByWorker(FALSE)
     \/ push.tts = 0 /\ worker' = Loop /\ UNCHANGED <<push, audio>>
  /\ UNCHANGED <<turnVars, tts, lockQ, user, pushQ, closeVars, envVars, log, late>>

\* on_push_turn_end: an orphan end is ignored.  From the point where tts.end is over, the
\* audio still playing is drained, the TTS closed and the turn that was open on entry ended.
CloseByWorker(id) ==
  /\ worker' = Loop
  /\ push' = [PushClosed(id) EXCEPT !.audio = 0]
  /\ log' = Sent(PushEndMsg(id))

EndTail(id) ==
  IF push.tts # 0
  THEN /\ worker' = [worker EXCEPT !.pc = IF push.audio # 0 /\ audio[push.audio] = "live"
                                          THEN "drain" ELSE "close_tts",
                                   !.id = id, !.tts = push.tts]
       /\ push' = IF worker'.pc = "drain" THEN push ELSE [push EXCEPT !.audio = 0]
       /\ UNCHANGED log
  ELSE CloseByWorker(id)

WorkerEndEvent ==
  /\ NextEvent("turn_end")
  /\ pushQ' = Tail(pushQ)
  /\ IF ~push.open THEN UNCHANGED <<worker, push, log>>
     ELSE IF push.tts # 0
          THEN worker' = [Getting EXCEPT !.pc = "end", !.id = push.id] /\ UNCHANGED <<push, log>>
          ELSE CloseByWorker(push.id)
  /\ UNCHANGED <<turnVars, tts, audio, lockQ, user, closeVars, envVars, late>>

WorkerEnded ==
  /\ WorkerAt("end") /\ EndTail(worker.id)
  /\ UNCHANGED <<turnVars, tts, audio, lockQ, user, pushQ, closeVars, envVars, late>>

WorkerEndFailed ==
  /\ WorkerAt("end") /\ DropByWorker(TRUE)
  /\ UNCHANGED <<turnVars, tts, lockQ, user, pushQ, closeVars, envVars, log, late>>

\* The audio finished, or made no progress for the drain limit and is cancelled.
WorkerDrained ==
  /\ WorkerAt("drain")
  /\ audio' = [audio EXCEPT ![worker.tts] = "done"]
  /\ IF push.tts # 0
     THEN /\ worker' = [worker EXCEPT !.pc = "close_tts"]
          /\ push' = [push EXCEPT !.audio = 0] /\ UNCHANGED log
     ELSE CloseByWorker(worker.id)
  /\ UNCHANGED <<turnVars, tts, lockQ, user, pushQ, closeVars, envVars, late>>

WorkerClosedTts ==
  /\ WorkerAt("close_tts")
  /\ tts' = [tts EXCEPT ![worker.tts] = "closed"]
  /\ worker' = Loop
  /\ push' = [PushClosed(worker.id) EXCEPT !.tts = 0, !.audio = 0]
  /\ log' = Sent(PushEndMsg(worker.id))
  /\ UNCHANGED <<turnVars, audio, lockQ, user, pushQ, closeVars, envVars, late>>

WorkerDropAudio ==
  /\ WorkerAt("drop_audio") /\ worker' = [worker EXCEPT !.pc = "drop_close"]
  /\ UNCHANGED <<turnVars, pushVars, lockQ, user, pushQ, closeVars, envVars, log, late>>

WorkerDropClose ==
  /\ WorkerAt("drop_close")
  /\ tts' = [tts EXCEPT ![worker.tts] = "closed"]
  /\ IF worker.ending THEN CloseByWorker(worker.id)
                      ELSE worker' = Loop /\ UNCHANGED <<push, log>>
  /\ UNCHANGED <<turnVars, audio, lockQ, user, pushQ, closeVars, envVars, late>>

\* _pipe_push_audio: one paced frame of a stream that was given text, or its end.
AudioFrame(id) ==
  /\ audio[id] = "live" /\ tts[id] = "fed" /\ ~gone
  /\ late' = IF PushIs(id) THEN late ELSE late \cup {id}
  /\ UNCHANGED <<turnVars, pushVars, lockQ, user, pushQ, worker, closeVars, envVars, log>>

AudioEnd(id) ==
  /\ audio[id] = "live"
  /\ audio' = [audio EXCEPT ![id] = "done"]
  /\ UNCHANGED <<turnVars, push, tts, lockQ, user, pushQ, worker, closeVars, envVars, log, late>>
-----------------------------------------------------------------------------
(* close_all.                                                              *)

Closer(c, pc) == closer' = [closer EXCEPT ![c].pc = pc]

\* _turn_lock once the wait of a task is cancelled.
AtLock(p)      == \E i \in DOMAIN lockQ : lockQ[i] = p
WithoutLock(p) == IF AtLock(p) THEN RemoveAt(lockQ, CHOOSE i \in DOMAIN lockQ : lockQ[i] = p)
                               ELSE lockQ

\* The streams whose close() has been called; one that is cancelled inside it counts as closed.
EndedStreams(is) == [i \in Ids |-> IF i \in is THEN "closed" ELSE tts[i]]

HoldsClose(c)    == closeQ # <<>> /\ closeQ[1] = c
KeepCloseLock    == UNCHANGED closeQ     \* mutant of ReleaseCloseLock
ReleaseCloseLock == closeQ' = Tail(closeQ)

\* Before the lock: `send` and new push events are refused from here on.
CloseCall(c) ==
  /\ closer[c].pc = "none"
  /\ Closer(c, "lock")
  /\ closing' = TRUE
  /\ closeQ' = Append(closeQ, c)
  /\ UNCHANGED <<turnVars, pushVars, lockQ, user, pushQ, worker, closed, endAtClose, envVars,
                 log, late>>

Captured   == activeTurn

\* With the lock: nothing to do if another caller finished, else the turn running now is cancelled.
CloseStart(c) ==
  /\ closer[c].pc = "lock" /\ HoldsClose(c)
  /\ IF closed
     THEN /\ Closer(c, "done") /\ ReleaseCloseLock /\ UNCHANGED turn
     ELSE /\ closer' = [closer EXCEPT ![c] = [pc |-> "turn", turn |-> Captured]]
          /\ turn' = Cancelled(activeTurn)
          /\ UNCHANGED closeQ
  /\ UNCHANGED <<activeTurn, activeId, seq, pushVars, lockQ, user, pushQ, worker, closing, closed,
                 endAtClose, envVars, log, late>>

ForgetAbandoned == UNCHANGED <<endAtClose, log>>     \* mutant of EndAbandoned
EndAbandoned    == endAtClose' = activeId /\ log' = Sent(<<Msg("turn_end", activeId)>>)

\* The turn is done, or its cleanup outlasts SESSION_TEARDOWN_S: it is abandoned and its
\* turn_end sent for it.  The push worker is cancelled next.
CloseTurn(c) ==
  LET t == closer[c].turn
  IN /\ closer[c].pc = "turn"
     /\ \/ ~Running(t) /\ UNCHANGED <<endAtClose, log>>
        \/ /\ t # 0 /\ turn[t].pc = "cleanup" /\ activeId # 0
           /\ EndAbandoned
     /\ Closer(c, "worker")
     /\ tts' = EndedStreams(IF WorkerAt("drop_close") THEN {worker.tts} ELSE {})
     /\ worker' = [Getting EXCEPT !.pc = "dead"]
     /\ lockQ' = WithoutLock("worker")
     /\ UNCHANGED <<turnVars, push, audio, user, pushQ, closeQ, closing, closed, envVars, late>>

\* The worker is gone: its queue is emptied and the audio of the push cancelled.
CloseWorker(c) ==
  /\ closer[c].pc = "worker"
  /\ Closer(c, "push_tts")
  /\ pushQ' = <<>>
  /\ audio' = DropAudio
  /\ UNCHANGED <<turnVars, push, tts, lockQ, user, worker, closeQ, closing, closed, endAtClose,
                 envVars, log, late>>

\* The TTS the bridge still holds is closed, an open push gets its turn_end, and the input
\* loop and the transcriber are cancelled wherever they are.  With the worker gone before them,
\* they leave nobody at _turn_lock.
ClosePushTts(c) ==
  /\ closer[c].pc = "push_tts"
  /\ Closer(c, "tasks")
  /\ tts' = EndedStreams({push.tts} \cup {user[p].tts : p \in {q \in UserTasks : user[q].pc = "drop_close"}})
  /\ push' = [PushClosed(push.id) EXCEPT !.tts = 0]
  /\ log' = Sent(PushEndMsg(push.id))
  /\ user' = [p \in UserTasks |-> [NoOp EXCEPT !.pc = "dead"]]
  /\ lockQ' = <<>>
  /\ UNCHANGED <<turnVars, audio, pushQ, worker, closeQ, closing, closed, endAtClose, envVars, late>>

\* The tracker records session_end and the session is closed.
CloseFinish(c) ==
  /\ closer[c].pc = "tasks"
  /\ Closer(c, "done")
  /\ closed' = TRUE
  /\ log' = Sent(<<Msg("session_end", 0)>>)
  /\ ReleaseCloseLock
  /\ UNCHANGED <<turnVars, pushVars, lockQ, user, pushQ, worker, closing, endAtClose, envVars, late>>

\* The client's socket dies.
ClientLeaves ==
  /\ ~gone /\ gone' = TRUE
  /\ UNCHANGED <<turnVars, pushVars, lockQ, user, pushQ, worker, closeVars, own, pushes, ops, log, late>>
-----------------------------------------------------------------------------
TurnStep(t)  == TurnBegin(t) \/ TurnNeverRan(t) \/ TurnUnwind(t) \/ TurnEnd(t)
UserStep(p)  == \/ SendAbandon(p) \/ SendReplace(p) \/ CancelHeld(p) \/ CancelDone(p)
                \/ StartCut(p) \/ UserDropAudio(p) \/ UserDropClose(p) \/ CutAbortDone(p)
WorkerStep   == \/ WorkerStart \/ WorkerWaited \/ WorkerLocked
                \/ \E ok \in BOOLEAN : WorkerConnected(ok)
                \/ WorkerChat \/ WorkerSent \/ WorkerSendFailed
                \/ WorkerEndEvent \/ WorkerEnded \/ WorkerEndFailed \/ WorkerDrained
                \/ WorkerClosedTts \/ WorkerDropAudio \/ WorkerDropClose
CloseStep(c) == CloseStart(c) \/ CloseTurn(c) \/ CloseWorker(c) \/ ClosePushTts(c) \/ CloseFinish(c)

\* What the client, the transcriber, OpenClaw and the watchdogs do.
Environment ==
  \/ SendCmd
  \/ UserOp("input", "cancel") \/ UserOp("stt", "partial") \/ UserOp("stt", "final")
  \/ \E kind \in {"turn_start", "chat", "turn_end"} : PushEvent(kind)
  \/ \E id \in Ids : AudioFrame(id) \/ AudioEnd(id)
  \/ \E c \in Closers : CloseCall(c)
  \/ ClientLeaves

Next == \/ \E t \in Tasks : TurnStep(t)
        \/ \E p \in UserTasks : UserStep(p)
        \/ WorkerStep
        \/ \E c \in Closers : CloseStep(c)
        \/ Environment

Spec == Init /\ [][Next]_vars

\* Every await of a task ends (each is bounded by a timeout or ends with its turn) and the
\* event loop runs every ready task; nobody else owes the gateway anything.
Fairness ==
  /\ \A t \in Tasks : WF_vars(TurnStep(t))
  /\ \A p \in UserTasks : WF_vars(UserStep(p))
  /\ WF_vars(WorkerStep)
  /\ \A c \in Closers : WF_vars(CloseStep(c))

FairSpec == Spec /\ Fairness
-----------------------------------------------------------------------------
(* Properties.                                                             *)

Bracket(m) == m.type \in {"turn_start", "turn_end"}

\* Of the first i messages, m is the last that begins or ends a turn.
LastBracket(i, m) == \E k \in 1..i : log[k] = m /\ \A j \in (k + 1)..i : ~Bracket(log[j])

\* Every turn that the first i messages began has ended in them.
NothingOpen(i) ==
  \A k \in 1..i : log[k].type = "turn_start" => \E j \in (k + 1)..i : log[j].type = "turn_end"

\* Every turn_start is followed by its one turn_end before any other turn starts, whoever ends
\* the turn: itself, a cut, a nested agent end or close_all (G-10, #84, #202).
TurnsWellBracketed ==
  \A i \in 1..Len(log) :
    /\ log[i].type = "turn_end" => LastBracket(i - 1, Msg("turn_start", log[i].id))
    /\ log[i].type = "turn_start" =>
         /\ NothingOpen(i - 1)
         /\ \A k \in 1..(i - 1) : Bracket(log[k]) => log[k].id < log[i].id

\* A barge-in is announced after the turn_end of what it cut and before the next turn_start,
\* although the cut is decided long before it is over (_on_transcription).
InterruptedInPlace ==
  \A i \in 1..Len(log) : log[i].type = "interrupted" =>
    /\ NothingOpen(i)
    /\ log[i].id # 0 => LastBracket(i, Msg("turn_end", log[i].id))

\* What a client can rely on: turns in brackets, barge-ins where they belong.
WireIsInOrder == TypeOK /\ TurnsWellBracketed /\ InterruptedInPlace

\* session_end is the last thing a client hears, once, with no turn left open, even when
\* close_all abandoned the turn whose cleanup is slow (_turn_end_sent_at_close).
SessionEndsComplete ==
  \A i \in 1..Len(log) : log[i].type = "session_end" => i = Len(log) /\ NothingOpen(i)

\* A `send` racing the close leaves no turn running after it (G-09): what may remain is only the
\* cleanup of the turn that was abandoned.
NoTurnOutlivesClose ==
  closed => \A t \in Tasks :
    turn[t].pc \in {"none", "done"} \/ (turn[t].pc = "cleanup" /\ turn[t].cancel)

\* Nothing of a push is heard after its turn_end or during another turn (_cut_push,
\* on_push_turn_end).
NoAudioAfterEnd == late = {}

\* It is so at least for the pushes of another session_key, whose cut awaits no chat.abort.
NoForeignAudioAfterEnd == ~own => late = {}

\* close_all tears down every TTS stream a push opened.
NoStreamOutlivesClose == closed => \A i \in Ids : tts[i] \in {"none", "closed"}

\* Every close_all returns, whatever the turn, the worker and the other callers are doing.
ClosersReturn == \A c \in Closers : (closer[c].pc # "none") ~> (closer[c].pc = "done")

\* The input loop and the transcriber callback never wait for ever on _turn_lock, on a
\* cancelled turn or on a cut.
UserIsServed == \A p \in UserTasks : (user[p].pc # "idle") ~> (user[p].pc \in {"idle", "dead"})
=============================================================================
