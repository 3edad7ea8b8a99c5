---------------------------- MODULE SttUpstream ----------------------------
(***************************************************************************)
(* The ElevenLabs adapter of speech to text, services/speech/elevenlabs/   *)
(* stt.py: sessions of the gateway that open an upstream connection when   *)
(* there is audio, close it when there is none, share the permits of the   *)
(* provider and fall together when it rejects the credentials.             *)
(*                                                                         *)
(* A session has one `life` task per upstream (connect, read, reconnect,   *)
(* finally), a drain of the idle loop, and the drain of close().  Audio is *)
(* a Boolean: something is in the buffer, something was not confirmed.  A  *)
(* send to the provider does not suspend here.  Time is free: a wait with  *)
(* a limit may end at any moment.                                          *)
(***************************************************************************)
EXTENDS Naturals, FiniteSets

CONSTANTS
  Sessions,   \* audio sessions of the gateway
  Permits,    \* MAX_SESSIONS: upstream connections open at once
  MaxFrames,  \* bound: frames of audio, over all sessions
  MaxFaults   \* bound: connections that the provider, or a callback, breaks

ASSUME SttAssumption ==
  IsFiniteSet(Sessions) /\ Permits \in Nat /\ MaxFrames \in Nat /\ MaxFaults \in Nat

VARIABLES
  \* per session
  conn,       \* _conn is set
  up,         \* the _Upstream that _conn names
  sock,       \* its socket
  reader,     \* its reader task lives
  life,       \* where its life task is
  again,      \* life is past its first connection: in reconnect_with_backoff
  cancelled,  \* life has a cancellation to hear
  pending,    \* the task that opens the next upstream for the audio that waits
  idle,       \* the drain of the idle loop
  closer,     \* close()
  buf,        \* audio waits to be sent
  uncommitted,\* audio that no commit covers
  want,       \* a commit was asked for
  cool,       \* within the cool-down after a failure
  health,     \* ServiceHealth of the session
  \* of the provider
  sem,        \* free permits
  terminal,   \* credentials or quota rejected
  bounds      \* history: frames and faults so far

audioVars == <<buf, uncommitted, want>>
connVars  == <<conn, up, sock, reader>>
lifeVars  == <<life, again, cancelled>>
tasks     == <<pending, idle, closer>>
rest      == <<cool, health, sem, terminal, bounds>>
vars      == <<connVars, lifeVars, tasks, audioVars, rest>>

NoUp  == [permit |-> FALSE, ready |-> FALSE, closing |-> FALSE, draining |-> FALSE,
          outcome |-> "other"]
Over  == {"none", "done"}
Bools == [Sessions -> BOOLEAN]
Drain == {"none", "spawned", "ready", "wait"}

TypeOK ==
  /\ conn \in Bools /\ reader \in Bools /\ again \in Bools /\ cancelled \in Bools
  /\ pending \in Bools /\ buf \in Bools /\ uncommitted \in Bools /\ want \in Bools /\ cool \in Bools
  /\ up \in [Sessions -> [permit : BOOLEAN, ready : BOOLEAN, closing : BOOLEAN,
                          draining : BOOLEAN, outcome : {"other", "error", "capacity", "terminal"}]]
  /\ sock \in [Sessions -> {"none", "open", "dropped", "shut"}]
  /\ life \in [Sessions -> Over \cup {"start", "connect", "handshake", "read", "hangup", "backoff",
                                      "final", "reopen"}]
  /\ idle \in [Sessions -> Drain]
  /\ closer \in [Sessions -> Drain \cup {"unborn", "life", "cancel", "done"}]
  /\ health \in [Sessions -> {"connected", "reconnecting", "degraded"}]
  /\ sem \in 0..Permits /\ terminal \in BOOLEAN
  /\ bounds \in [frames : 0..MaxFrames, faults : 0..MaxFaults]

Init ==
  /\ conn = [s \in Sessions |-> FALSE] /\ up = [s \in Sessions |-> NoUp]
  /\ sock = [s \in Sessions |-> "none"] /\ reader = [s \in Sessions |-> FALSE]
  /\ life = [s \in Sessions |-> "none"] /\ again = [s \in Sessions |-> FALSE]
  /\ cancelled = [s \in Sessions |-> FALSE]
  /\ pending = [s \in Sessions |-> FALSE]
  /\ idle = [s \in Sessions |-> "none"] /\ closer = [s \in Sessions |-> "unborn"]
  /\ buf = [s \in Sessions |-> FALSE] /\ uncommitted = [s \in Sessions |-> FALSE]
  /\ want = [s \in Sessions |-> FALSE] /\ cool = [s \in Sessions |-> FALSE]
  /\ health = [s \in Sessions |-> "connected"]
  /\ sem = Permits /\ terminal = FALSE /\ bounds = [frames |-> 0, faults |-> 0]
-----------------------------------------------------------------------------
(* Helpers.                                                                *)

Frame == bounds.frames < MaxFrames /\ bounds' = [bounds EXCEPT !.frames = @ + 1]
Fault == bounds.faults < MaxFaults /\ bounds' = [bounds EXCEPT !.faults = @ + 1]

Closed(s) == closer[s] # "none"    \* also before the session exists
Alive(s)  == life[s] \notin Over

\* _release_permit, which the finally of life and the done-callback of its task both call.
Freed(permit)       == IF permit THEN 1 ELSE 0

\* The sessions the provider tells that it is degraded.
Speaking == {s \in Sessions : Alive(s)}     \* mutant of Known: those with an upstream
Known    == {s \in Sessions : closer[s] \notin {"unborn", "done"}}

\* _mark_terminal and _on_provider_degraded of every session.  A life task that is over when the
\* step ends is not cancelled.
MarkTerminal ==
  /\ terminal' = TRUE
  /\ buf' = [s \in Sessions |-> buf[s] /\ s \notin Known]
  /\ uncommitted' = [s \in Sessions |-> uncommitted[s] /\ s \notin Known]
  /\ want' = [s \in Sessions |-> want[s] /\ s \notin Known]
  /\ health' = [s \in Sessions |-> IF s \in Known THEN "degraded" ELSE health[s]]
  /\ cancelled' = [s \in Sessions |-> life'[s] \notin Over /\ (cancelled[s] \/ s \in Known)]

\* The audio that waits is thrown away; want stays as it was.
Discard(s) == /\ buf' = [buf EXCEPT ![s] = FALSE]
              /\ uncommitted' = [uncommitted EXCEPT ![s] = FALSE]
              /\ UNCHANGED want

\* A commit takes all there is.
Commits(s) == /\ buf' = [buf EXCEPT ![s] = FALSE] /\ want' = [want EXCEPT ![s] = FALSE]
              /\ uncommitted' = [uncommitted EXCEPT ![s] = FALSE]

\* _pump when it may send: all of the buffer but perhaps a rest, with a commit when one is wanted
\* and the last is not too recent.  has and unc are the audio before it.
Pumps(s, has, unc) ==
  \/ want[s] /\ Commits(s)
  \/ /\ \E left \in {FALSE, has} : buf' = [buf EXCEPT ![s] = left]
     /\ uncommitted' = [uncommitted EXCEPT ![s] = unc] /\ UNCHANGED want

MayPump(s) == conn[s] /\ up[s].ready /\ ~up[s].closing /\ ~up[s].draining

\* _ensure_upstream past its first test: a permit and a life task; within the cool-down the audio
\* is dropped but not its mark; without a permit both are.
MayOpen(s) == ~conn[s] /\ ~Closed(s) /\ ~terminal
Ensure(s, has, unc) ==
  /\ \/ /\ sem > 0 /\ sem' = sem - 1
        /\ conn' = [conn EXCEPT ![s] = TRUE]
        /\ up' = [up EXCEPT ![s] = [NoUp EXCEPT !.permit = TRUE]]
        /\ life' = [life EXCEPT ![s] = "start"] /\ cool' = [cool EXCEPT ![s] = FALSE]
        /\ buf' = [buf EXCEPT ![s] = has] /\ uncommitted' = [uncommitted EXCEPT ![s] = unc]
     \/ /\ cool[s]
        /\ buf' = [buf EXCEPT ![s] = FALSE] /\ uncommitted' = [uncommitted EXCEPT ![s] = unc]
        /\ UNCHANGED <<conn, up, life, cool, sem>>
     \/ /\ sem = 0 /\ cool' = [cool EXCEPT ![s] = FALSE]
        /\ Discard(s) /\ UNCHANGED <<conn, up, life, sem>>
  /\ UNCHANGED want

\* The finally of life from its last await on, then the done-callback of the task.
Unclaim(s)   == conn' = [conn EXCEPT ![s] = FALSE] /\ idle' = [idle EXCEPT ![s] = "none"]
\* The second call finds no permit.
Returned(s)  == sem' = sem + Freed(up[s].permit) + Freed(FALSE)
LifeGone(s) ==
  /\ life' = [life EXCEPT ![s] = "done"]
  /\ Unclaim(s) /\ Returned(s)
  /\ up' = [up EXCEPT ![s] = NoUp]
  /\ sock' = [sock EXCEPT ![s] = IF @ = "open" THEN @ ELSE "none"]
  /\ reader' = [reader EXCEPT ![s] = FALSE] /\ again' = [again EXCEPT ![s] = FALSE]

\* Into the finally: close_ws begins.
ToFinalOpen(s) == life' = [life EXCEPT ![s] = "final"] /\ UNCHANGED sock     \* mutant of ToFinal
ToFinal(s) == /\ life' = [life EXCEPT ![s] = "final"]
              /\ sock' = [sock EXCEPT ![s] = "shut"]
-----------------------------------------------------------------------------
(* The session, as the bridge uses it.                                     *)

\* open_session: a session of a provider that is already degraded starts degraded.
Open(s) ==
  /\ closer[s] = "unborn"
  /\ closer' = [closer EXCEPT ![s] = "none"]
  /\ health' = [health EXCEPT ![s] = IF terminal THEN "degraded" ELSE @]
  /\ UNCHANGED <<connVars, lifeVars, pending, idle, audioVars, cool, sem, terminal, bounds>>

\* send_audio with audio the gate lets through.
SendAudio(s) ==
  /\ Frame /\ ~Closed(s) /\ ~terminal
  /\ \/ MayOpen(s) /\ Ensure(s, TRUE, TRUE)
     \/ /\ conn[s]
        /\ IF MayPump(s) THEN Pumps(s, TRUE, TRUE)
           ELSE /\ buf' = [buf EXCEPT ![s] = TRUE]
                /\ uncommitted' = [uncommitted EXCEPT ![s] = TRUE] /\ UNCHANGED want
        /\ UNCHANGED <<conn, up, life, cool, sem>>
  /\ UNCHANGED <<sock, reader, again, cancelled, tasks, health, terminal>>

\* send_end, and the commit timer when a commit had to wait.
SendEnd(s) ==
  /\ ~Closed(s) /\ ~terminal /\ uncommitted[s]
  /\ IF MayPump(s)
     THEN \/ Commits(s)
          \/ /\ want' = [want EXCEPT ![s] = TRUE]
             /\ buf' \in {buf, [buf EXCEPT ![s] = FALSE]} /\ UNCHANGED uncommitted
     ELSE want' = [want EXCEPT ![s] = TRUE] /\ UNCHANGED <<buf, uncommitted>>
  /\ UNCHANGED <<connVars, lifeVars, tasks, rest>>

CommitTimer(s) ==
  /\ want[s] /\ MayPump(s) /\ Pumps(s, buf[s], uncommitted[s])
  /\ UNCHANGED <<connVars, lifeVars, tasks, rest>>
-----------------------------------------------------------------------------
(* _life_main.                                                             *)

LifeStarts(s) ==
  /\ life[s] = "start" /\ ~cancelled[s]
  /\ life' = [life EXCEPT ![s] = "connect"] /\ again' = [again EXCEPT ![s] = FALSE]
  /\ UNCHANGED <<connVars, cancelled, tasks, audioVars, rest>>

\* The events of the old socket are replaced: a drain that waits for them waits in vain.
Stale(pc) == IF pc = "ready" THEN "wait" ELSE pc

\* _connect_once has a socket: closing is reset, draining is not.
Reset(u) == [u EXCEPT !.ready = FALSE, !.closing = FALSE]
Connected(s) ==
  /\ life[s] = "connect" /\ ~cancelled[s]
  /\ life' = [life EXCEPT ![s] = "handshake"]
  /\ sock' = [sock EXCEPT ![s] = "open"] /\ reader' = [reader EXCEPT ![s] = TRUE]
  /\ up' = [up EXCEPT ![s] = Reset(@)]
  /\ idle' = [idle EXCEPT ![s] = Stale(@)] /\ closer' = [closer EXCEPT ![s] = Stale(@)]
  /\ UNCHANGED <<conn, again, cancelled, pending, audioVars, rest>>

\* No socket, or no session_started in time: the first time the audio is dropped and life ends;
\* afterwards there is another attempt, or the session degrades.
Fails(s) ==
  /\ reader' = [reader EXCEPT ![s] = FALSE]
  /\ IF again[s]
     THEN /\ \/ /\ life' = [life EXCEPT ![s] = "backoff"] /\ UNCHANGED health
                /\ sock' = [sock EXCEPT ![s] = "shut"]
             \/ /\ ToFinal(s) /\ health' = [health EXCEPT ![s] = "degraded"]
          /\ UNCHANGED <<conn, up, idle, sem, audioVars, cool>>
     ELSE /\ cool' = [cool EXCEPT ![s] = TRUE] /\ Discard(s) /\ UNCHANGED health
          /\ IF sock[s] = "none" THEN LifeGone(s)
             ELSE ToFinal(s) /\ UNCHANGED <<conn, up, idle, sem>>
  /\ UNCHANGED <<again, cancelled, pending, closer, terminal, bounds>>

ConnectFails(s)   == life[s] = "connect" /\ ~cancelled[s] /\ Fails(s)
HandshakeFails(s) == life[s] = "handshake" /\ ~cancelled[s] /\ ~up[s].ready /\ Fails(s)

\* The provider rejects the credentials: the life that called _mark_terminal is told too.  It
\* hears it in its back-off, or in its finally when that was the last attempt.
ConnectRejected(s) ==
  /\ Fault /\ life[s] = "connect" /\ ~cancelled[s]
  /\ IF again[s]
     THEN /\ \/ life' = [life EXCEPT ![s] = "backoff"] /\ UNCHANGED sock
             \/ ToFinal(s)
          /\ UNCHANGED <<conn, up, reader, idle, sem>>
     ELSE LifeGone(s)
  /\ MarkTerminal
  /\ UNCHANGED <<again, pending, closer, cool>>

\* session_started came.  _pump does nothing when the upstream is draining.
Ready(s) ==
  /\ life[s] = "handshake" /\ ~cancelled[s] /\ up[s].ready
  /\ life' = [life EXCEPT ![s] = "read"] /\ again' = [again EXCEPT ![s] = TRUE]
  /\ health' = [health EXCEPT ![s] = IF terminal THEN @ ELSE "connected"]
  /\ IF MayPump(s) THEN Pumps(s, buf[s], uncommitted[s]) ELSE UNCHANGED audioVars
  /\ UNCHANGED <<connVars, cancelled, tasks, cool, sem, terminal, bounds>>

\* The reader is over: not ready any more, and close_ws begins.
ReaderOver(s) ==
  /\ life[s] = "read" /\ ~cancelled[s] /\ ~reader[s]
  /\ life' = [life EXCEPT ![s] = "hangup"]
  /\ up' = [up EXCEPT ![s].ready = FALSE] /\ sock' = [sock EXCEPT ![s] = "shut"]
  /\ UNCHANGED <<conn, reader, again, cancelled, tasks, audioVars, rest>>

\* What comes after: the end, or another connection because audio waits for it.
Reconnects(s) == /\ ~Closed(s) /\ ~terminal /\ ~up[s].closing /\ up[s].outcome = "other"
                 /\ (uncommitted[s] \/ buf[s])
Respawning(s) == ~Closed(s) /\ ~terminal /\ up[s].closing /\ up[s].outcome = "other"
Decides(s) ==
  /\ life[s] = "hangup" /\ ~cancelled[s]
  /\ life' = [life EXCEPT ![s] = IF Reconnects(s) THEN "connect"
                                ELSE IF Respawning(s) THEN "reopen" ELSE "final"]
  /\ health' = [health EXCEPT ![s] = IF Reconnects(s) THEN "reconnecting" ELSE @]
  /\ UNCHANGED <<connVars, again, cancelled, tasks, audioVars, cool, sem, terminal, bounds>>

Retries(s) ==
  /\ life[s] = "backoff" /\ ~cancelled[s]
  /\ life' = [life EXCEPT ![s] = "connect"]
  /\ UNCHANGED <<connVars, again, cancelled, tasks, audioVars, rest>>

\* The rest of the finally, and the task that opens the next upstream for the audio that came
\* while this one was draining.
LifeEnds(s) ==
  /\ life[s] \in {"final", "reopen"} /\ ~cancelled[s]
  /\ LifeGone(s)
  /\ pending' = [pending EXCEPT ![s] =
                    @ \/ (life[s] = "reopen" /\ buf[s] /\ ~Closed(s) /\ ~terminal)]
  /\ UNCHANGED <<cancelled, closer, audioVars, cool, health, terminal, bounds>>

\* A cancelled life goes through its finally; cancelled there, or before its first step, only
\* the done-callback remains and the session keeps _conn.
LifeCut(s) ==
  /\ cancelled[s] /\ Alive(s)
  /\ cancelled' = [cancelled EXCEPT ![s] = FALSE]
  /\ IF life[s] \in {"start", "final", "reopen"}
     THEN /\ life' = [life EXCEPT ![s] = "done"] /\ again' = [again EXCEPT ![s] = FALSE]
          /\ sem' = sem + Freed(up[s].permit) /\ up' = [up EXCEPT ![s] = NoUp]
          /\ sock' = [sock EXCEPT ![s] = "none"] /\ reader' = [reader EXCEPT ![s] = FALSE]
          /\ UNCHANGED <<conn, idle>>
     ELSE IF sock[s] = "none" THEN LifeGone(s)
     ELSE /\ ToFinal(s) /\ UNCHANGED <<conn, up, idle, sem, again>>
          /\ reader' = [reader EXCEPT ![s] = life[s] # "read" /\ @]
  /\ UNCHANGED <<pending, closer, audioVars, cool, health, terminal, bounds>>

\* The task of the respawn.
Respawns(s) ==
  /\ pending[s] /\ pending' = [pending EXCEPT ![s] = FALSE]
  /\ IF MayOpen(s) THEN Ensure(s, buf[s], uncommitted[s])
     ELSE UNCHANGED <<conn, up, life, cool, sem, audioVars>>
  /\ UNCHANGED <<sock, reader, again, cancelled, idle, closer, health, terminal, bounds>>
-----------------------------------------------------------------------------
(* The reader, and the provider at the other end.                          *)

SessionStarted(s) ==
  /\ life[s] = "handshake" /\ reader[s] /\ sock[s] = "open"
  /\ up' = [up EXCEPT ![s].ready = TRUE]
  /\ UNCHANGED <<conn, sock, reader, lifeVars, tasks, audioVars, rest>>

\* committed_transcript: all the audio is confirmed, or some came after the commit.
Committed(s) ==
  /\ reader[s] /\ sock[s] = "open" /\ up[s].ready
  /\ uncommitted' = [uncommitted EXCEPT ![s] = FALSE]
  /\ UNCHANGED <<connVars, lifeVars, tasks, buf, want, rest>>

\* The connection ends for a reason of the provider, which may be that of its last message.
Outcome(s, kind) ==
  /\ UNCHANGED life
  /\ cool' = [cool EXCEPT ![s] = @ \/ kind = "capacity"]
  /\ IF kind = "terminal" THEN MarkTerminal
     ELSE UNCHANGED <<audioVars, cancelled, health, terminal>>

ErrorMessage(s, kind) ==
  /\ Fault /\ reader[s] /\ sock[s] = "open"
  /\ reader' = [reader EXCEPT ![s] = FALSE]
  /\ up' = [up EXCEPT ![s].outcome = kind, ![s].closing = TRUE]
  /\ Outcome(s, kind)
  /\ UNCHANGED <<conn, sock, again, tasks, sem>>

ServerDrops(s) ==
  /\ Fault /\ sock[s] = "open"
  /\ sock' = [sock EXCEPT ![s] = "dropped"]
  /\ UNCHANGED <<conn, up, reader, lifeVars, tasks, audioVars, cool, health, sem, terminal>>

\* The reader sees the close.  Who closed is asked now.
ReaderSees(s, kind) ==
  /\ reader[s]
  /\ sock[s] = "dropped" \/ (sock[s] = "shut" /\ kind = "other")
  /\ reader' = [reader EXCEPT ![s] = FALSE]
  /\ IF up[s].closing
     THEN /\ kind = "other"
          /\ UNCHANGED <<up, life, cool, audioVars, cancelled, health, terminal>>
     ELSE up' = [up EXCEPT ![s].outcome = kind] /\ Outcome(s, kind)
  /\ UNCHANGED <<conn, sock, again, tasks, sem, bounds>>

\* A callback of the session, or the frame, breaks the reader.
ReaderFails(s) ==
  /\ Fault /\ reader[s] /\ sock[s] = "open"
  /\ reader' = [reader EXCEPT ![s] = FALSE] /\ up' = [up EXCEPT ![s].outcome = "other"]
  /\ UNCHANGED <<conn, sock, lifeVars, tasks, audioVars, cool, health, sem, terminal>>

\* The health probe learns that the credentials are rejected.
ProbeRejected ==
  /\ Fault /\ ~terminal /\ UNCHANGED life /\ MarkTerminal
  /\ UNCHANGED <<connVars, again, tasks, cool, sem>>
-----------------------------------------------------------------------------
(* The idle loop, the drain and close().                                   *)

IdleCloses(s) ==
  /\ ~Closed(s) /\ MayPump(s)
  /\ up' = [up EXCEPT ![s].draining = TRUE] /\ idle' = [idle EXCEPT ![s] = "spawned"]
  /\ UNCHANGED <<conn, sock, reader, lifeVars, pending, closer, audioVars, rest>>

\* _drain_and_close hangs up the upstream it was called for, if it is still there.
HangsUp(s) ==
  IF conn[s] THEN /\ up' = [up EXCEPT ![s].closing = TRUE]
                  /\ sock' = [sock EXCEPT ![s] = IF @ = "none" THEN @ ELSE "shut"]
  ELSE UNCHANGED <<up, sock>>

\* _drain_and_close at `from`: a commit of what is left once the upstream is ready, the wait for
\* its transcript, then the end.  A failed send or the limit lead to the end as well.
ToConfirm(s) == conn[s] /\ (uncommitted[s] \/ buf[s]) /\ ~up[s].closing
DrainStep(s, from, to, end) ==
  \/ /\ from = "spawned" /\ ToConfirm(s) /\ ~up[s].ready /\ to = "ready"
     /\ UNCHANGED <<up, sock, audioVars>>
  \/ /\ from \in {"spawned", "ready"} /\ ToConfirm(s) /\ up[s].ready
     /\ Commits(s)
     /\ to = "wait" /\ UNCHANGED <<up, sock>>
  \/ /\ (from = "spawned" /\ ToConfirm(s)) => (up[s].ready /\ sock[s] # "open")
     /\ to = end /\ HangsUp(s) /\ UNCHANGED audioVars

IdleDrains(s) ==
  /\ idle[s] # "none"
  /\ \E to \in Drain : DrainStep(s, idle[s], to, "none") /\ idle' = [idle EXCEPT ![s] = to]
  /\ UNCHANGED <<conn, reader, lifeVars, pending, closer, rest>>

\* The finally of close(): what is left of the session is cancelled, and its audio forgotten.
NoCancel(s) == UNCHANGED cancelled     \* mutant of Cancels
Cancels(s)  == cancelled' = [cancelled EXCEPT ![s] = Alive(s)]
CloseEnds(s) ==
  /\ closer' = [closer EXCEPT ![s] = "done"]
  /\ idle' = [idle EXCEPT ![s] = "none"] /\ pending' = [pending EXCEPT ![s] = FALSE]
  /\ Commits(s) /\ cool' = [cool EXCEPT ![s] = FALSE]
  /\ Cancels(s) /\ UNCHANGED <<up, sock>>

Close(s) ==
  /\ closer[s] = "none"
  /\ IF conn[s] /\ Alive(s)
     THEN /\ closer' = [closer EXCEPT ![s] = "spawned"]
          /\ up' = [up EXCEPT ![s].draining = TRUE]
          /\ UNCHANGED <<sock, audioVars, idle, pending, cancelled, cool>>
     ELSE CloseEnds(s)
  /\ UNCHANGED <<conn, reader, life, again, health, sem, terminal, bounds>>

\* The drain, the wait for life, its cancellation, each within a limit.
CloseStep(s) ==
  /\ \/ /\ closer[s] \in {"spawned", "ready", "wait"}
        /\ \E to \in Drain \cup {"life"} : /\ DrainStep(s, closer[s], to, "life")
                                         /\ closer' = [closer EXCEPT ![s] = to]
        /\ UNCHANGED <<idle, pending, cancelled, cool>>
     \/ /\ closer[s] = "life" /\ Alive(s)
        /\ closer' = [closer EXCEPT ![s] = "cancel"] /\ Cancels(s)
        /\ UNCHANGED <<idle, pending, up, sock, audioVars, cool>>
     \/ closer[s] = "life" /\ ~Alive(s) /\ CloseEnds(s)
     \/ closer[s] = "cancel" /\ CloseEnds(s)
  /\ UNCHANGED <<conn, reader, life, again, health, sem, terminal, bounds>>

\* close() is cancelled while it drains: the bridge gives it a limit.
CloseCut(s) ==
  /\ closer[s] \in {"spawned", "ready", "wait"} /\ CloseEnds(s)
  /\ UNCHANGED <<conn, reader, life, again, health, sem, terminal, bounds>>
-----------------------------------------------------------------------------
LifeStep(s) == \/ LifeStarts(s) \/ Connected(s) \/ ConnectFails(s) \/ ConnectRejected(s) \/ Ready(s)
               \/ HandshakeFails(s) \/ ReaderOver(s) \/ Decides(s) \/ Retries(s) \/ LifeEnds(s)
               \/ LifeCut(s)

Provider(s) == \/ SessionStarted(s) \/ Committed(s) \/ ServerDrops(s) \/ ReaderFails(s)
               \/ \E kind \in {"error", "capacity", "terminal"} : ErrorMessage(s, kind)

Next == \/ \E s \in Sessions :
             \/ Open(s) \/ SendAudio(s) \/ SendEnd(s) \/ CommitTimer(s) \/ Close(s) \/ CloseCut(s)
             \/ LifeStep(s) \/ Respawns(s) \/ IdleCloses(s) \/ IdleDrains(s) \/ CloseStep(s)
             \/ Provider(s) \/ \E kind \in {"other", "capacity", "terminal"} : ReaderSees(s, kind)
        \/ ProbeRejected

Spec == Init /\ [][Next]_vars
-----------------------------------------------------------------------------
(* Properties.                                                             *)

\* A permit is given back exactly once, although the finally of life and the done-callback of its
\* task both give it back and a cancelled life may never reach the one: none is lost or invented.
PermitsExact == sem + Cardinality({s \in Sessions : up[s].permit}) = Permits

\* The permits do limit the connections: an open socket belongs to an upstream that still has its
\* permit, through every failure, reconnection and cancellation.
SocketsHavePermits == \A s \in Sessions : sock[s] = "open" => conn[s] /\ up[s].permit

\* A session that takes audio and is marked as connected to an upstream has a task behind it; else
\* no audio would ever open the next one.
ClaimIsAlive == \A s \in Sessions : conn[s] /\ ~Closed(s) /\ ~terminal => Alive(s)

\* The permits do what they are for: each in one hand, no connection without one, and none kept by
\* a session that will never use it.
PermitsHold == TypeOK /\ PermitsExact /\ SocketsHavePermits /\ ClaimIsAlive

\* What a session says of itself: degraded once the provider is, whenever it was opened; connected
\* when its upstream is ready.
HealthIsHonest ==
  \A s \in Sessions : closer[s] \notin {"unborn", "done"} =>
    /\ terminal => health[s] = "degraded"
    /\ life[s] = "read" /\ up[s].ready /\ ~terminal => health[s] = "connected"

\* When close() has returned, and in every session of a rejected provider, an upstream that still
\* lives is on its way out: it was cancelled or is in its finally, whatever it was waiting for and
\* whoever opened it meanwhile (#221).
EndIsComing ==
  \A s \in Sessions : Alive(s) /\ (closer[s] = "done" \/ terminal)
    => cancelled[s] \/ life[s] \in {"final", "reopen"}

\* An upstream that is being drained is on its way to be closed: audio that waits for that does not
\* wait for ever.
DrainIsGoingOn ==
  \A s \in Sessions : conn[s] /\ ~Closed(s) /\ up[s].draining /\ up[s].ready
    => up[s].closing \/ idle[s] # "none"
=============================================================================
