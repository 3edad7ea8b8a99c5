----------------------------- MODULE VoiceSession -----------------------------
(***************************************************************************)
(* An audio session over the jota adapter, as its silence watchdog sees it *)
(* (services/bridge.py: _transcription_watchdog, the audio path of         *)
(* _input_loop, _on_transcriber_status).  The watchdog wakes up every Poll *)
(* seconds and blames the client, with strikes and in the end a close, for *)
(* audio that brings no transcription; what an outage, a busy transcriber, *)
(* a turn or an idle client bring about must not be blamed on it.          *)
(*                                                                         *)
(* Time is discrete, one Tick a second, and kept as ages: how long ago.    *)
(* The watchdog never oversleeps.  warmup_s is 0, as for jota.             *)
(***************************************************************************)
EXTENDS JotaStt, Integers

CONSTANTS
  Poll,        \* _WATCHDOG_POLL_S
  Timeout,     \* silence_timeout_s
  MaxStrikes   \* max_silence_turns

ASSUME VoiceAssumption ==
  Poll \in Nat \ {0} /\ Timeout \in Nat \ {0} /\ MaxStrikes \in Nat \ {0}

VARIABLES
  wd,       \* the watchdog
  nap,      \* what is left of its sleep
  quiet,    \* age of _last_audio_at
  burst,    \* age of _audio_burst_start
  heard,    \* age of last_transcript_at
  base,     \* age of recovery_baseline
  news,     \* last_transcript_at is not last_seen_transcription_at
  wasUp,    \* was_connected
  strikes,  \* silence_count
  turn,     \* _turn_in_flight()
  busy,     \* _transcriber_busy
  flow,     \* history: for how long audio has been coming without a gap
  calm      \* history: age of the last poll that met a turn or an outage, or was the first after
            \* one; Never once the watchdog has overlooked it

audio  == <<quiet, burst, flow>>
speech == <<heard, news>>
watch  == <<wd, nap, base, wasUp, strikes, calm>>
vars   == <<stt, audio, speech, watch, turn, busy>>

\* _audio_gap_s
Gap == IF Timeout > Poll THEN Timeout ELSE Poll

\* Ages are told apart up to Never, which is also what never was: older than all that counts.
Never == 1 + IF MaxStrikes = 1 THEN Gap ELSE Timeout + (MaxStrikes - 1) * Poll
Older(age) == IF age < Never THEN age + 1 ELSE age

TypeOK ==
  /\ SttTypeOK
  /\ wd \in {"none", "waiting", "watching", "notifying", "over"} /\ nap \in 0..Poll
  /\ {quiet, burst, flow, heard, base, calm} \subseteq 0..Never
  /\ strikes \in 0..MaxStrikes /\ {news, wasUp, turn, busy} \subseteq BOOLEAN

Init ==
  /\ SttInit
  /\ wd = "none" /\ nap = 0 /\ wasUp = TRUE /\ strikes = 0
  /\ quiet = Never /\ burst = Never /\ flow = Never
  /\ heard = Never /\ news = FALSE
  /\ base = Never /\ calm = Never /\ turn = FALSE /\ busy = FALSE

\* The tasks of the session run.
Live == wd \notin {"none", "over"} /\ closer = "no"

-----------------------------------------------------------------------------
(* What the client and the transcriber do.                                 *)

\* A frame of audio; after an idle gap it opens a new burst.
OpensBurst == quiet = Never \/ quiet > Gap
AudioFrame ==
  /\ Live /\ Send
  /\ quiet' = 0 /\ burst' = IF OpensBurst THEN 0 ELSE burst
  /\ flow' = IF quiet > Gap THEN 0 ELSE flow
  /\ UNCHANGED <<speech, watch, turn, busy>>

\* `end`: the client has finished speaking.
EndOfSpeech ==
  /\ Live /\ Send /\ UNCHANGED <<audio, speech, watch, turn, busy>>

Heard ==
  /\ Live /\ At("listening") /\ sock = "open"
  /\ heard' = 0 /\ news' = TRUE
  /\ UNCHANGED <<stt, audio, watch, turn, busy>>

\* `status` frames: busy and ok.
Status ==
  /\ Live /\ At("listening") /\ sock = "open" /\ busy' = ~busy
  /\ UNCHANGED <<stt, audio, speech, watch, turn>>

\* A turn, or a push, begins or ends.
Turn ==
  /\ Live /\ turn' = ~turn
  /\ UNCHANGED <<stt, audio, speech, watch, busy>>

Tick ==
  /\ Live
  /\ \/ wd = "waiting" /\ quiet = Never
     \/ wd = "watching" /\ nap > 0
     \/ wd = "notifying"
  /\ nap' = (IF nap > 0 THEN nap - 1 ELSE 0)
  /\ quiet' = Older(quiet) /\ burst' = Older(burst) /\ flow' = Older(flow)
  /\ heard' = Older(heard) /\ base' = Older(base) /\ calm' = Older(calm)
  /\ UNCHANGED <<stt, news, wd, wasUp, strikes, turn, busy>>

-----------------------------------------------------------------------------
(* The watchdog.                                                           *)

\* The watchdog is over, or is cancelled with the session: nothing reads again what it knew.
Forget ==
  /\ wd' = "over" /\ nap' = 0 /\ wasUp' = TRUE /\ strikes' = 0 /\ base' = Never /\ calm' = Never
  /\ quiet' = Never /\ burst' = Never /\ flow' = Never /\ heard' = Never /\ news' = FALSE
  /\ turn' = FALSE /\ busy' = FALSE
Ends == CloseBegins /\ Forget

Blind == state # "CONNECTED" \/ busy

WatchBegins ==
  /\ Live /\ wd = "waiting" /\ quiet # Never
  /\ wd' = "watching" /\ nap' = Poll /\ news' = FALSE
  /\ UNCHANGED <<stt, audio, heard, base, wasUp, strikes, calm, turn, busy>>

\* Either loop returns when the transcriber is gone for good.
WatchGivesUp ==
  /\ Live /\ wd \in {"waiting", "watching"} /\ nap = 0
  /\ state = "DEGRADED" /\ Forget /\ UNCHANGED stt

Polls == Live /\ wd = "watching" /\ nap = 0 /\ state # "DEGRADED"

\* An outage or a busy transcriber: no counting, and the clock restarts when it is over.
PollBlind ==
  /\ Polls /\ Blind /\ wasUp' = FALSE /\ nap' = Poll /\ calm' = 0
  /\ UNCHANGED <<stt, audio, speech, wd, base, strikes, turn, busy>>

\* History: at the first poll after an outage, a transcription from before the last blind poll
\* passes for news, and the recovery is not taken notice of.
Overlooked == ~wasUp /\ news /\ heard >= calm

StaysDown == FALSE         \* mutant of Back: a recovery is never acknowledged
Back == TRUE

\* The silence is that since the newest of the last recovery, the last transcription and the
\* start of the burst, if audio came after it.
BlamesOutage == IF news THEN Never ELSE base     \* mutant of Since: the recovery restarts nothing
Since  == IF news THEN Never ELSE IF ~wasUp THEN 0 ELSE base
SoFar  == IF news \/ ~wasUp THEN 0 ELSE strikes
Idle   == quiet > Gap \/ \E age \in {Since, heard, burst} : quiet >= age
Strike == ~turn /\ ~Idle /\ \A age \in {Since, heard, burst} : age > Timeout
PollUp ==
  /\ Polls /\ ~Blind
  /\ wasUp' = Back /\ news' = FALSE
  /\ base' = IF turn THEN 0 ELSE Since
  /\ calm' = IF turn \/ (~wasUp /\ ~news) THEN 0 ELSE IF Overlooked THEN Never ELSE calm
  /\ IF Strike
     THEN strikes' = SoFar + 1 /\ wd' = "notifying" /\ nap' = nap
     ELSE strikes' = (IF turn \/ Idle THEN 0 ELSE SoFar) /\ wd' = wd /\ nap' = Poll
  /\ UNCHANGED <<stt, audio, heard, turn, busy>>

\* The client was told; with enough strikes the watchdog closes the session.
Notified ==
  /\ Live /\ wd = "notifying"
  /\ IF strikes >= MaxStrikes
     THEN Ends
     ELSE /\ wd' = "watching" /\ nap' = Poll
          /\ UNCHANGED <<stt, audio, speech, base, wasUp, strikes, calm, turn, busy>>

-----------------------------------------------------------------------------
\* The watchdog and the input loop start with run().
Session ==
  \/ RunStarts /\ wd' = "waiting"
  \/ (SttSteps \/ SttFaults) /\ wd' = wd
Adapter ==
  /\ Session /\ UNCHANGED <<audio, speech, nap, base, wasUp, strikes, calm, turn, busy>>

\* The client leaves, a timeout, an administrator, a failed setup: anything ends the session.
Leave == Ends

Watchdog == WatchBegins \/ WatchGivesUp \/ PollBlind \/ PollUp \/ Notified
Next == Adapter \/ AudioFrame \/ EndOfSpeech \/ Heard \/ Status \/ Turn \/ Tick \/ Watchdog \/ Leave

Progress == /\ \/ RunStarts /\ wd' = "waiting"
               \/ SttSteps /\ wd' = wd
            /\ UNCHANGED <<audio, speech, nap, base, wasUp, strikes, calm, turn, busy>>
Fairness == WF_vars(Progress) /\ WF_vars(Watchdog) /\ WF_vars(Tick)
Spec == Init /\ [][Next]_vars /\ Fairness

-----------------------------------------------------------------------------
(* Properties.                                                             *)

\* Whatever connect(), the reconnection and the two cancellations of the close were doing: no
\* attempt starts over an open socket, and a session that is over leaves none behind (G-01,
\* #221: "the socket that was opened is not left without an owner").
NoSocketLeft ==
  /\ TypeOK
  /\ pc = "opening" => sock # "open"
  /\ pc = "over" /\ closer = "done" => sock \notin {"open", "closing"}

\* A session whose adapter has stopped listening knows it, and so does its client: the state
\* says DEGRADED unless the transcriber itself ended the connection with a clean close, or a
\* send met the closed connection first.
DropIsKnown ==
  pc = "over" /\ closer = "no" /\ ~hidden /\ sock # "ended" => state = "DEGRADED"

\* run(): "on an unexpected drop, reconnects with backoff and resumes listening -- until
\* close() is called or reconnection is exhausted (DEGRADED ...)".
DropsAreReconnected ==
  pc = "over" /\ closer = "no" /\ sock = "lost" => state = "DEGRADED"

\* A strike is never for time in which the client was not speaking, was being transcribed, was
\* listening to a reply or had no transcriber: audio has been coming without a gap, and nothing
\* was heard, for more than the timeout, nor has any poll within it met a turn or an outage.
\* The one exception is named: an outage that a transcription from before its last blind poll
\* hid from the watchdog, at the first poll after it (OutageIsForgiven) and from then on.
\* Strikes only add up over seconds without a transcription (issues #149, #215 and #227).
StrikesAreEarned ==
  [][strikes' > strikes =>
       /\ strikes' = strikes + 1 \/ strikes' = 1
       /\ state = "CONNECTED" /\ ~busy /\ ~turn
       /\ quiet <= Gap /\ flow > Timeout /\ (calm > Timeout \/ Overlooked)
       /\ heard > Timeout + (strikes' - 1) * Poll]_vars

\* "restart the silence clock from the recovery moment instead of blaming the client for however
\* long the reconnect took" (issue #149, and #143 for a busy transcriber): the first poll after
\* an outage gives no strike.
OutageIsForgiven == [][strikes' > strikes => wasUp]_vars

\* A reconnection comes to an end: connected again, given up, or overtaken by the close.
SttSettles == state = "RECONNECTING" ~> (state # "RECONNECTING" \/ closer # "no")

\* A client that goes on speaking to a transcriber that is up, with no turn in between, and is
\* never heard again is disconnected in the end.
DeafClientIsClosed ==
  <>[](heard = Never /\ quiet < Gap /\ ~Blind /\ ~turn) => <>(closer # "no")
=============================================================================
