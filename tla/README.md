# A TLA+ development of jota-gateway

jota-gateway is one asyncio process between voice clients (a WebSocket each), an OpenClaw
server (one shared WebSocket), speech-to-text and text-to-speech providers. Almost everything
that can go wrong in it is a matter of order: of tasks that interleave at their `await`s, of
frames that arrive late, of teardown that overlaps with work. This directory holds the
specifications of those parts, the TLC instances that check them, and proofs of the results
that matter most for every instance. Paths below are relative to `src/jota_gateway/`.

## How the code is read

The gateway runs on one event loop, so **a step is what one task does between two awaits that
really suspend it**. Awaits that cannot suspend (putting on an unbounded queue, acquiring a free
semaphore) do not end a step; an uncontended lock is treated as if it could, which only adds
behaviours. `task.cancel()` is a flag that the task hears at its next step. Timeouts and
sleeps may end at any moment: time is free, and no property depends on how long anything takes,
except in VoiceSession, where the silence watchdog counts seconds.
A lock of asyncio is a sequence, its holder first, then its waiters in FIFO order; a task whose wait
is cancelled is taken out of it. SessionLifecycle says the same without a sequence: whom each waiter
comes after. Payloads, texts and
audio are reduced to what the properties tell apart.

## Inventory

| Part | State | Operations | What makes it hard | What makes it correct |
|---|---|---|---|---|
| `services/bridge.py`, turns and pushes | `_active_turn`, `_active_turn_id`, `_turn_seq`, `_turn_lock`, `_push_*`, `_closing`, `_closed` | send, cancel, partial/final transcript, push events, turn task, push worker, close_all | six kinds of task share one session; a cancelled turn goes on cleaning up; the close abandons what is too slow | one turn at a time on the wire, each ended once; `interrupted` in its place; nothing survives the close |
| `services/bridge.py`, `api/routes.py`: session lifecycle | `_close_reason`, `_close_lock`, `tasks`, registries, counters | route, run/_supervise, watchdogs, revalidation, on_slow, close_all | every cause of an end calls the same close, some from a task the close cancels | one close with one reason and status, errors not hidden, pushes find the newest session |
| `services/openclaw/registry.py`, `dispatcher.py`, `client.py` | `_sessions`, `_session_owner`, `_req_to_session`, `_overflowed`, `_tombstones`, queues | register, push, error_all, unregister, stream_response, abort, `_listen` | frames routed by session key and not by run; late ends; bounded queues; a dropped connection | maps agree, no key leaked or freed by a stranger, every waiter told |
| `services/openclaw/reconnecting.py`, `client.py`, `services/reconnection.py`, `services/teardown.py` | health, `_reconnect_task`, `_slow_retry_task`, `_connect_lock`, `_ws`, `_listener_task` | connect, disconnect, back-off, slow retry, trigger, close | overlapping attempts, cancelled while they clean up | no socket lost, CONNECTED is heard, somebody retries, close is final |
| `services/outbound.py` | `_queue`, `_pending_*`, `_failure`, `_closing`, writer | send, flush, writer, on_slow, aclose | failure with entries queued; flush against failure and stop | order, exact counters, flushes that end |
| `services/speech/elevenlabs/stt.py` | `_conn`, `_life`, `_Upstream`, buffer flags; `_sem`, `_terminal` of the provider | send_audio, send_end, life task, reader, idle drain, close, probe | a permit freed from two places; drain, reconnect and close over one upstream | permits exact, no dead claim, everything ends after close or rejection |
| `services/transcriber_client.py`, `transcriber_reconnecting.py` (jota) | socket, `_is_ready`, health, `_closed` | start, connect, run, listen, reconnect, send, close | a reconnect while a session closes, a task cancelled twice inside `connect()`, a send that meets the drop first | no socket without an owner, a drop is known, a reconnection ends |
| `services/bridge.py`: audio path and silence watchdog | `_last_audio_at`, `_audio_burst_start`, `_transcriber_busy`; strikes, baseline and last transcription of the watchdog | audio frame, end, status, poll, notice, close | polls of ages that five other tasks move; outages, busy periods, turns and idle gaps fall between two polls | no strike for time that was not silence of the client; a client never heard is disconnected |
| `services/tts_client.py`, `tts_reconnecting.py`, `speech/elevenlabs/tts.py`, `LazyBackoffGate` | stream, input queue, reader, slots; back-off window and health of the provider | connect, send_text_chunk, end, close, reader, reopen, probe | overlapping attempts that report out of order; a task cancelled before its first step; a write that fails and is tried again | text in order and once, slots given back once, audio that ends, one outage counts once |
| `services/openclaw/chat_text.py` | emitted, current and all text | feed a delta, snapshot, replacement or final | they overlap, are cut back, rewritten, padded with blanks; nothing sent can be taken back | the final text arrives whole, nothing twice |
| `services/pacing.py`, `speech/audio.py` | clock, energy window | pace, gate | float thresholds | not modelled |
| `api/openai_routes.py` | one request: task, queue, sentinel, error, record | chat completion plain or over SSE, list of models | a generator left half-way while the turn runs or fails | record, finish reason and text agree; every body and turn ends |
| `core/agent_policy.py` | none | resolve an agent, list the agents | one policy applied in two places | what is listed can be chosen |
| `api/admin_routes.py`, `health_routes.py`, `db/`, `cli/`, `main.py`, migrations | database, files | CRUD, startup | sequential, pure I/O | not modelled |

How they interact. The route builds a `QueuedSender`, a `JotaBridge` and a transcriber session
for each client, registers the bridge in `ClientRegistry`, and runs it. The bridge calls
`stream_response` of the orchestrator for a turn; `FrameDispatcher` gives the frames of that
session key to the queue of the turn and everything else to the registered bridge as push
events. Transcriptions call back into the bridge. Everything the client hears goes through the
one sender. When anything ends the session, `close_all` cancels turn, worker, TTS, transcriber
and tasks, in that order. The OpenAI-compatible API reaches the same orchestrator without a bridge.

## Modules

- **BridgeTurns** models `JotaBridge` from the first transcription to the end of `close_all`: the
  input loop and the transcriber callback (`user`), one task per normal turn (`turn`), the push
  worker (`worker`) with its TTS stream (`tts`) and audio task (`audio`), and concurrent callers
  of `close_all` (`closer`). `log` is what the client was sent. `_turn_lock` and `_close_lock` are
  `lockQ` and `closeQ`. close_all takes the worker out of `_turn_lock` when it cancels it, and when it
  has cancelled the input loop and the callback too, nobody is left in it. Since `send_json` only enqueues, the release of the lock and the
  `interrupted` that follows are one step. A push belongs to the session key of the bridge or not
  (`own`): only then does a cut await `chat.abort`. The TTS of a normal turn is part of its
  cleanup. Push events come in any order, which allows more than the registry lets through. A
  cancelled audio task emits nothing more.
- **SessionLifecycle** composes the route, the supervised tasks of the bridge, `close_all`,
  `ClientRegistry`, `SessionRegistry` and the counters, for sessions of one client that overlap.
  The waiters of a session's `_close_lock` are `ahead`: for each, the callers that come before it.
  Turn and push are one await in it (`"turn"`), their detail is BridgeTurns. When a watchdog
  fires is free. A session whose setup fails may have been counted as opened without being
  counted as closed, because the constructor of the bridge counts first: the property says so.
- **OpenClawTurns** models `TurnRegistry`, `FrameDispatcher` and the turn side of
  `OpenClawClient`, with the server as an environment that accepts, runs and aborts, and may go on
  sending frames of a run for ever. A queue has
  the name of the request that created it. `delta` stands for a token or a tool event, `final`
  for the chat states final and error.
- **OpenClawConnection** models `ReconnectingOpenClawClient`: the tasks that may run `connect()`
  (start-up, reconnect loop, slow retry), `_connect_lock`, sockets, the listener and `close()`.
  Names of finished tasks are used again. A cancel wins over an await that completed meanwhile.
- **OutboundSender** models `QueuedSender`; **ClientChannel** is the abstract promise: accepted
  messages are delivered as a prefix in order, and a flush that succeeds means that all accepted
  before it was delivered. OutboundSender implements it (`IsAClientChannel`).
- **SttUpstream** models the ElevenLabs speech-to-text sessions: per session the upstream that
  `_conn` names, its life task, reader, idle drain, respawn and `close()`, and of the provider the
  permits and the terminal rejection. Audio is a Boolean (something waits, something is
  unconfirmed); a send does not suspend; what a closed session leaves behind in its buffer is
  forgotten.
- **TtsStreams** models both text-to-speech adapters, one of which the process uses: the task of an
  ElevenLabs stream (connect, writes, one reopening, end), the connect of a jota stream inside
  the turn that asks for it, the reader of either, the health probe, and what all of them share:
  the slots, the back-off gate with its tokens, the health and the terminal rejection. Messages
  of a stream are numbered as they are accepted; audio is counted in chunks. The window of the
  gate may be over whenever somebody asks. A stream that is done is forgotten.
- **ChatText** is `ChatTextTracker` as operators over sequences of characters, **AgentPolicy** the
  choice and the list of agents as operators over configurations. Neither has state.
- **HttpReply** composes the two: one request of the OpenAI-compatible API, from any caller, whose
  turn feeds chat events to a tracker. OpenClaw is the environment: its reply grows, is cut back,
  is replaced, and ends with the whole text, without it, or in a failure, whose event may bring
  one more delta (`ErrorEvent`). A turn that is cut leaves `failed` unset, as the code leaves
  `orchestrator_error`; its record says error nevertheless. `run` is the task that
  runs the turn (or the handler, in the plain mode), `gen` the generator of the body, which the
  client may leave at any moment. No token is empty, so `<<>>` is the sentinel `None` of the queue.
- **JotaStt** is one session of `ReconnectingTranscriberClient` over `TranscriberClient`: a task that
  is in `start()` and then in `run()`, the cancellation of `close_all` and its later `close()`. A
  socket that is being closed by a `finally` is `"closing"`; a second cancellation may strike there.
- **VoiceSession** composes JotaStt with the audio path of the bridge and its silence watchdog, in
  discrete time. A time stamp of the code is an age here, saturated at `Never`: beyond it no
  comparison of the watchdog changes. `flow` and `calm` are histories, for how long audio has come
  without a gap and since when no poll met a turn, an outage or the end of one; the code does not
  keep them, the properties need them. `Overlooked` is the poll that misses the end of an outage
  (the finding of `voice_blame`); from then on `calm` no longer binds the watchdog.
- **MCSttUpstream** and **MCTtsStreams** add the symmetry of sessions and of streams for TLC; the two
  runs check safety alone, so it is sound. **MCOpenClawTurns** tells TLC to leave the two history
  variables out of its states: no action reads them, nor does a property of the run.
- **BridgeTurnsProofs**, **OpenClawTurnsProofs**, **OutboundSenderProofs**,
  **OpenClawConnectionProofs**, **SessionLifecycleProofs**, **SttUpstreamProofs**,
  **SpeechProofs** (VoiceSession with JotaStt, and TtsStreams) and **HttpReplyProofs** hold the proofs.

Where a constant or variable has the name of a bound (`MaxTurns`, `MaxOps`, `MaxPush`, `MaxId`,
`MaxQueue`, `MaxFrames`, `MaxWire`, `MaxFlaps`, `MaxTriggers`, `MaxMsgs`, `MaxCauses`,
`MaxFaults`, `MaxStarts`, `MaxText`, `MaxAudio`, `MaxGrow`), it only limits what the environment does;
`MaxTries` stands for the limit in seconds that a reconnection of the transcriber has. `Poll`,
`Timeout` and `MaxStrikes` of VoiceSession are settings of the code. `PROJECT.json` gives the lines
each definition stands for.

## Runs

| Run | Instance | Checks |
|---|---|---|
| `bridge_turns` | 2 turns, 2 push events, 1 cancel/partial/final, 1 closer, audio; 1.3 M states | turns well bracketed and `interrupted` in place (`WireIsInOrder`), session_end complete, no turn outlives the close, no audio of a foreign push after its end |
| `bridge_live` | 1 turn, 1 push, 2 ops, 2 closers, text; fair | every close_all returns, the user is served |
| `bridge_push_cut` | as `bridge_turns` with 1 turn | **violated**: `NoAudioAfterEnd` |
| `openclaw_turns` | 1 key, 2 requests, 1 push, queue of 1; 1.0 M states without their history; fair | maps agree and nothing leaks (`KeysAccounted`), bounds and overflow, waiters told, hand-over, and that a key comes back once OpenClaw is silent about it |
| `outbound_sender` | 4 messages, 2 flushes; fair | counters, nothing left behind, flushes end, refinement of ClientChannel |
| `openclaw_connection` | 3 tasks, 2 sockets, 3 flaps, 2 triggers; fair | sockets, listener, retry, breaker and close (`NobodyStartsAgain`), recovery |
| `session_lifecycle` | 2 sessions, 2 causes; fair | reachability, settlement, errors not hidden, sessions end |
| `stt_upstream` | 2 sessions, 1 permit, 3 frames, 1 fault; 0.9 M states up to symmetry | permits, sockets and claims (`PermitsHold`), health, ends |
| `tts_streams` | 2 streams, the probe, 1 slot, 3 attempts, 1 text and its end, 2 audio chunks; both adapters; 2.0 M states up to symmetry | text in order, slots and ends of audio, back-off once per outage |
| `http_reply` | 2 agents and every configuration and roster of them; a letter and a blank, replies of 3 characters, 3 events and a final; both modes; 0.3 M states; fair | the final text arrives whole, nothing goes out twice, record and finish reason agree, listed agents can be chosen, bodies end |
| `voice_session` | 1 fault, 1 retry, a poll of 2 s, a timeout of 2 s, 2 strikes; 0.4 M states; fair | no socket left, drops known, strikes earned, reconnections end, a deaf client is disconnected |
| `voice_blame` | the same, with a timeout of 1 s | **violated**: `OutageIsForgiven` |

The type invariant of a module is a conjunct of one of its invariants.

Deadlock checking is off throughout: a finite instance stops when its bounds are used up and
its sessions are closed, as the program does.

**Why the bounds are enough.** Each is the smallest at which the interesting overlap happens, and
then one more where the time allows. Two turns are one that is cut and the one that cuts it;
larger instances of BridgeTurns (1 turn with 3 push events; 2 turns with 3) passed as well when
run by hand. A queue of one frame overflows at once, and two requests of one key are the late end
and its successor. Three tasks for the connection are one cleaning up, one waiting for the lock,
one to come; names are reused, so there is no limit to how many follow each other. Two causes in
SessionLifecycle make any two of them race, in one session or in both. Two STT sessions on one
permit make every release visible to the other. Three attempts are two that overlap and one that
begins after the outcome of the first; one text and the end are two messages, enough for one to
be put back while another waits behind it. In HttpReply three characters, with one that is a blank,
are enough for a text to be cut back to a strict beginning of itself and to grow again, and three
events for a rewrite between two of them; the smallest violation of each mutant needs fewer. In
VoiceSession one fault during one retry meets each await of `connect()`; two strikes are the
first, and one that must count other seconds than the first; the timeout is not shorter than the
poll, so that a poll that met an outage or a turn may lie within the timeout of the next and must
hold a strike back (with a shorter one no poll ever does). What a second bound
would add is covered, for safety, by the proofs: every safety property that a passing run checks is
a theorem.

**Fairness.** Weak fairness of the steps of the gateway's own tasks only: the event loop runs
every ready task, locks are FIFO, and each await that a fair step ends has a timeout of the code
(`SESSION_TEARDOWN_S`, `CLIENT_SEND_TIMEOUT_S`, `TURN_TIMEOUT_S` for each wait for a frame, the
connect and handshake limits) or waits for a task that is itself fair. Clients, the server, the
network and the watchdogs owe nothing: no fairness on them.
In OpenClawTurns fair are the reading of a turn, its finally, the second that an abort waits for
its answer, and the listener. The two `ws.send` (`services/openclaw/client.py:311` and `:349`) have
no timeout, so they are not: a key is promised back only to a request that got its message out.
Nor is it promised while OpenClaw goes on sending for that key, since every frame starts
`TURN_TIMEOUT_S` again: `KeysComeBack` assumes that it stops (`Silent`); what happens if it does not
is `TurnIsCapped`, below.
In HttpReply the failure of a turn is fair, since `TURN_TIMEOUT_S` is one of the failures (a final
that comes first disables it); that OpenClaw does not go on sending for ever, `MaxFrames` there, is
an assumption of `EveryReplyEnds`. The body is fair because a client that stays reads, and one that does not leaves. In
VoiceSession the steps of the adapter, of the watchdog and of the clock are fair. `Recovers`
asks for a connected client only when the network stays up and the client is not closed.

## What the checks found

1. **A cut push keeps speaking** (`NoAudioAfterEnd`). `_cut_push` awaits `chat.abort` with the
   push still open; a TTS connect that returns meanwhile passes its recheck and its audio goes out
   after `turn_end`. It does not happen to pushes of another session key
   (`NoForeignAudioAfterEnd`, checked).
2. **An outage is blamed on the client** (`OutageIsForgiven`). The watchdog does not look at the last
   transcription while the transcriber is away or busy. One that arrived after the last poll
   before the outage is news to the first poll after it, which then skips the branch that restarts
   the silence clock, and measures the silence from before the outage. `StrikesAreEarned`, which
   is checked and proved, names this exception (`Overlooked`) and no other: every other strike comes
   after more than the timeout without a poll that met a turn, an outage or a busy transcriber. The
   client was speaking, and nothing was heard, for all of the time any strike counts.

The findings in `PROJECT.json` quote the lines. More properties are stated in the modules, are false
of the code, and are not kept as runs; each is the note of a hazard:

- `OwnRunOnly` (OpenClawTurns): a turn gets the frames of another run of its session key. Known
  in the repository as G-14, an xfail test.
- `TurnIsCapped` (OpenClawTurns): the docstring of the idle watchdog (`services/bridge.py:595-597`) trusts
  `_active_turn` because `TURN_TIMEOUT_S` caps the turn. It limits each wait for a frame instead, as a test
  wants; a run that sends something within every such wait, and never a terminal frame, keeps its
  turn, its session key and the idle session.
- `FloodedStaysDropped` (OpenClawTurns): the tombstone of a flooded key counts its five seconds
  from the overflow, and chat.abort waits for a consumer that may be blocked for longer; the rest
  of the answer can come back as a push.
- `NoStreamOutlivesClose` (BridgeTurns): a push TTS stream is never closed when `close_all`
  cancels the task that is dropping it, between forgetting and closing it.
- `RevokedIsRecorded` (SessionLifecycle): a revoked session is recorded as completed when the input
  loop sees the 1008 close first.
- `DrainIsGoingOn` (SttUpstream): an upstream that drops while it is drained reconnects still
  marked as draining, and takes no audio until the provider closes it.
- `TerminalIsDegraded` (TtsStreams): an attempt that was under way when the credentials were
  rejected, and fails for another reason, overwrites DEGRADED, although nobody connects again.
- `DropsAreReconnected` (VoiceSession): a send that meets the closed connection before the listen
  loop clears `_is_ready` (`services/transcriber_client.py:97`); the loop then takes the drop for a
  clean close, and nobody reconnects. `DropIsKnown` names this case and holds otherwise.

Seen while modelling, and not a property: leading blanks and a cut together can make
`chat_text` repeat a fragment, which its comments prefer to losing one; `list_models` and the choice of an
agent see an empty roster while `agents.list` is awaited (`services/openclaw/client.py:143-185`);
`SessionRegistry` evicts at most one old record for each new one, and never an active one.

## Proofs

All theorems are for every value of the constants, from the named assumptions only
(`BridgeAssumption`: the bounds are numbers, and there are as many ids as turns and pushes; `OpenClawAssumption`: names are distinct and the queue bound is at least one;
`ConnectionAssumption`: `None` is no task and no socket, and there is one of each;
`OutboundAssumption`: the bound is a number; `SessionAssumption`: `None` is no session;
`SttAssumption`: finitely many sessions, the permits a number; `TtsAssumption`: finitely many streams,
the probe none of them, slots, buffer and bounds numbers; `JotaAssumption` and `VoiceAssumption`: the bounds are
numbers, poll, timeout and strikes at least one; `ReplyAssumption`: the blank is a character, the absent text is
no text, the bounds are numbers; `AgentAssumption`: the names that are no agents are not in `Agents`).

**BridgeTurnsProofs.** Four results on the turn engine. `NoTurnIsLeft` has
`Inv == Typed /\ OneTurn /\ OneSender /\ Winding`: a turn that runs is the one `_active_turn` names,
because only the input loop starts turns and from its wait for the old one on nothing else runs
(`OneSender`, which does not need the lock); so what close_all captures and cancels is all there
is, and what a caller of close_all is past stays true (`Winding`), since `_closing` is read again
before a turn is created. `ForeignPushesFallSilent` adds `Foreign`: for a push of another
session_key audio plays only while the bridge holds its stream and its task (`Playing`), a task that drops
a stream has left its push none, and the worker cannot be connecting for that same push (`Cuts`).
With the own session_key the last of these is false, since the cut awaits chat.abort with the push still
open and the connect may finish meanwhile; that is the finding of `bridge_push_cut`.

`WireStaysInOrder` and `SessionEndsAreComplete` say what the client hears, and need to know everything
else: `IInv == Inv /\ Foreign /\ Order /\ UpToSeq /\ Wire /\ Rest /\ Budget`. `Wire` is the heart: the
last bracket of the log (`LastIs`) is the turn_start of the turn or push that goes on, or nothing is open (`Quiet`).
A message may then be sent where it `Fits`, and an extended log is in order if the old one was
(`HeardGrows`), which is shown once, for all senders. That a step's message fits needs `Order`: a turn and a
push are never open together (`Apart`), because whoever opens one has found the other over under
`_turn_lock` (`Locks`); what a handler found when it took the lock is so until it gives it up (`Held`),
though it awaits a cut in between; and what close_all is past stays empty (`Leaving`), the abandoned
turn excepted, whose turn_end close_all has sent and which sends no second one. `UpToSeq` (no id is
ahead of `_turn_seq`) makes every id new. A client that is gone is told nothing, so `UpToDate` is
asked for only while it is there; what it heard stays in order. `Budget` is about the model alone: each
id has been paid for by a turn or a push event, so `MaxId` never runs out.

**OpenClawTurnsProofs.** The inductive invariant is
`Registry == TypeOK /\ KeyKnown /\ MapsAgree /\ NoLeakedKey`. None of its parts is inductive
alone: that a released key is the right one needs the agreement of the maps; that a running
request has a key to give back (`KeyKnown`) is what the finally of `stream_response` relies on;
and a key cannot be left with a dead request unless the maps disagree. From it follow
`TypeCorrect`, `MapsAlwaysAgree`, `NoKeyIsLeaked`, together `EveryKeyIsAccountedFor`, and the action
property `KeysAreHandedOver`.
The queue invariants (`QueuesAlwaysHold` and `EveryWaiterIsTold`) are proved
together on top of it, one lemma for each operation that writes a queue (`Deliver`, `ErrorAll`,
`Leave`, `Register`, the reads): a flagged key owns a queue that is empty or holds the marker
alone, so later frames are dropped; the loss of the connection force-puts its item at the end.

**OutboundSenderProofs.** `Inv == Types /\ (~Broken => InOrder) /\ Queued /\ Stopping`. Every
accepted message has a number; `InOrder` says where each of them is: written, being written, or
queued in the order of its number, and the number of an entry counts the messages up to it.
`Queued` ties a waiting flush to an entry of its own and to what it waits for, and `Stopping`
puts the stop last. A flush entry that is taken therefore finds exactly what it promised
delivered, which is the step of ClientChannel. Results: `SenderImplementsChannel`,
`NothingIsLeftBehind`, and `CountsStayExact`, which counts the places of the queue that hold messages
(`PlacesAppend`, `PlacesTail` say by how much a put and a get change them).

**OpenClawConnectionProofs.** `Inv == Typed /\ LockOrder /\ Refs /\ OneTries /\ Ending /\ Owned`. The lock
is first come, first served and nobody is in it twice (`LockOrder`), so one task at most is inside
`connect()`, its cleanup included. `Refs` says what the two task references mean: the loop is the task
`_reconnect_task` names, and a slow retry that is not the one named has been cancelled. `OneTries` is
the four-way split the class never writes down: connected and heard, a loop, a slow retry, or
start-up. `Owned`: every open socket is `_ws`, and who cleans up knows which. From the same invariant
follow `EverySocketHasItsOwner`, `ConnectedIsAlwaysHeard`, `SomebodyAlwaysTries` and `NothingStartsAgain`.

**SessionLifecycleProofs.** `Inv` adds to the two results `CalledOnce` (no caller reaches close_all
twice, so a caller that is past its turn stays there), `Unregistered` (a session that is closing is
not the registered one) and `Noted`. `Noted` is why an error is not hidden: whoever closes a
session has noted a reason before, and only the finally of the route comes without one, with a
status that is an error already; so the status that was decided fits whatever is noted later.
`NewestStaysReachable` and `ErrorsStayVisible` need nothing about who holds the close lock.
`EverySessionSettles` does: `Settles == Rest /\ Counted /\ \A s : Ordered(s) /\ Settling(s)`. Of two
callers in the queue one comes first and who entered has nobody ahead (`Ordered`), so one caller at
most closes a session; `Settling` names the stations a session passes on its way; `Counted` keeps the
two counters equal to cardinalities of sets of sessions, of which finitely many have begun.

**SttUpstreamProofs.** `Inv == TypeOK /\ PermitsExact /\ Lease`. `Lease` is the reason a permit comes
back exactly once: an upstream has one if and only if its life task is not over, and the session
is then claimed (`conn`), so no second upstream is opened over it. Counting the holders is done by
`PermitTaken` and `PermitReturned` alone; every other step is `Quiet`. `PermitsAlwaysHold` follows, and on
top of `Inv`, `EveryEndIsComing`: the life task goes on only when it is not cancelled, and a step that
closes or rejects cancels all that lives, so what lives on after it is in its finally.
`HealthStaysHonest` needs one thing more, `Honest`: a rejection writes the health of every session that
is open, and one that is opened after it starts degraded.

**SpeechProofs.** Of VoiceSession the inductive invariant is `Inv == Adapted /\ Clock`. `Adapted` ties the place
of the adapter's task to its socket: which places may hold an open one, who is to close it, and
what the state says when the task is over; a cancellation moves the task to places of its own, so
it needs no case there. `NoSocketIsLeft` and `DropsAreKnown` follow. `Clock` ties what the watchdog
counts to the histories: the burst is as old as the flow of audio, the baseline or the last
transcription is not older than `calm` if the last poll met a transcriber that was up, and after `s` strikes, with nothing new heard, the last transcription is at least
`Timeout + (s - 1) * Poll + 1` old while the watchdog sleeps with what is left of the poll. That sum
is why a strike counts seconds of its own. `EveryStrikeIsEarned` is the step that uses both: a strike
at a poll that does not overlook an outage is measured from the baseline, which `calm` outlives.

Of TtsStreams it is `TtsInv == Provided /\ Streaming /\ Placed /\ Slots /\ InLine`. `Provided` is about the
gate: no token is later than the last start, and a token behind the marker is one of an attempt that
began after the last outcome that counted; the gate keeps that whatever is reported, in whatever
order (`OutcomeKeeps`), and of all outcomes only such an attempt's failure raises the level
(`LevelGrows`): that is `OutagesCountOnce`. `Placed` says where a stream of either provider may be, that
it ends its audio when its task is done and not before, and that its reader does not outlive the
writing. `Slots` counts the streams that hold a slot (`SlotTaken`, `SlotReturned`); both give
`EveryStreamFinishesOnce`. `InLine` is the reason for `TextStaysInOrder`: what was written, the one
message in hand and the queue follow each other (`Line`), each operation of the queue keeps that, the
return of a message whose write failed included (`LineGoesBack`); nothing is missing until the stream
is closed, when what is pending is dropped; and a message is in hand only while it is written or
the task is past writing.

**HttpReplyProofs.** The inductive invariant of the record is `Accounted == ReplyTyped /\ Together`.
`Together` says where the one sentinel is: nowhere before the end of the turn, then last in the
queue, or read by a generator that is finishing. That a client told "stop" has read everything is
this and that no token is empty. `EveryReplyIsAccountedFor` follows. `ListedCanBeChosen` is about
every configuration and roster, by cases of the policy; only that the caller stays one of `Callers`
comes from the specification.

`NothingGoesOutTwice` and `FinalTextAlwaysArrives` add `Relayed`, for texts of any length in any
pieces. While the turn goes on (`Tracked`) what the client was sent and what waits in the queue are
together the `allOut` of the tracker, and two facts tie that to the reply. `allOut` ends in the last
aligned text but for its leading blanks; so whichever of the fits of `_tail` an event meets,
`allOut` has the new text within afterwards (`EmitHas`). And while the reply only grew or was cut back,
the aligned text, `allOut` and the longest text of the reply are one but for leading blanks, and the aligned
text *is* the longest unless both are blank (`Aligned`); that last part is what makes a text that was cut
back a strict prefix of it, so that nothing goes out for it (`EmitAligned`). Both come down to what
trimming does to a text put together of two (`StripGlued`), and the queue to what `FlattenSeq` makes of a
sequence that gains a text at either end (`FlattenAppend`, `FlattenFirst`). Those are inductions over
data; the library's induction theorems take an operator, so they are done by the least counterexample
(`LeastNumber`, from the well-foundedness of strict inclusion on finite sets), which needs none.

**Model-checked only.** Every liveness property (`ClosersReturn`, `UserIsServed`, `KeysComeBack`,
`EveryFlushEnds`, `Recovers`, `SessionsEnd`, `EveryReplyEnds`, `SttSettles`, `DeafClientIsClosed`): fairness and ENABLED are out of the prover's reach.
(The types of OutboundSender are the part
`Types` of its proved invariant; no run repeats them.) `EndIsComing` of SttUpstream is the safety form of
"every upstream ends": the state space of two sessions is too large for the temporal one.

## Not modelled, and why

- The contents of the handshake frames, `_call`, `ping_latency` and keepalive of the OpenClaw client: they change
  the connection only through the drop they provoke, which the environment does.
- The window of the idle watchdog, the eviction of old session records, session ids that collide
  within one millisecond (`api/routes.py:120`), the parking of `transcriber.run`, a warm-up other than 0
  of the silence watchdog.
- In JotaStt: the contents of frames, the health ping, the warnings. In VoiceSession a notice takes
  any time, and a transcription heard during it does not stop the close that follows
  (`services/bridge.py:569`): no document says which should win, so no property takes sides.
- In HttpReply: authentication, the parsing of messages, the wording of chunks, the HTTP status of
  an error. One request alone: two requests of one session key are OpenClawTurns.
- The pacing of audio and the energy gate: arithmetic on a float clock and on samples.
- In SttUpstream: sample conversion, partial transcripts, busy/ok notices, and the
  amounts of audio (`CONNECT_BUFFER_S`, chunk sizes).
- In TtsStreams: voices, speed and sentence flushing, keep-alive frames, the text of a jota stream
  (the turn writes it directly), the cache of the probe and `aclose` of the provider. A jota
  reader that is cancelled before its first step never puts the `None` that ends its iterator;
  the model has it, nobody waits for it.
- Admin and health routes, database, migrations, command line, start-up: sequential requests and
  pure I/O.

## Plan

Built first: the turn engine (BridgeTurns), the routing it stands on (OpenClawTurns), the way out
(OutboundSender), the connection, the session around them, and both sides of speech
(SttUpstream, TtsStreams). Built next: the text of a reply and the HTTP way to it (ChatText,
AgentPolicy, HttpReply), the other transcriber and the watchdog over it (JotaStt, VoiceSession).
What is left, in this order:

1. The dispatcher composed with the push side of BridgeTurns, so that pushes come only in the order
   the registry lets through.
2. An abstract back-off gate (one failure per outage) that the gate of TtsStreams implements, in a
   module of its own.
3. The eviction of SessionRegistry and the ids of sessions, over many sessions of many clients.
4. The energy gate in discrete time.

Theorem worth proving next: that the gate of TtsStreams implements the abstract one.
