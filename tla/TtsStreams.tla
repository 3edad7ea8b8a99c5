----------------------------- MODULE TtsStreams -----------------------------
(***************************************************************************)
(* Text to speech: the streams of a provider and the back-off gate that all *)
(* turns share.  Two adapters, one of which the process uses: ElevenLabs    *)
(* (services/speech/elevenlabs/tts.py, with the probe of common.py) and     *)
(* jota (services/tts_reconnecting.py and tts_client.py); LazyBackoffGate   *)
(* is in services/reconnection.py.                                         *)
(*                                                                         *)
(* A stream of ElevenLabs has a task that connects, writes the text and     *)
(* reopens once; a stream of jota connects within the turn that asked for   *)
(* it.  Both have a reader that runs ahead of the consumer.  The messages   *)
(* of a stream are numbered as they are accepted; audio is counted in       *)
(* chunks; what a stream that is done leaves behind is forgotten.  Time is *)
(* free: the window of the gate may be over whenever somebody asks, and a  *)
(* wait with a limit may end at any moment.                                *)
(***************************************************************************)
EXTENDS Naturals, Sequences, FiniteSets

CONSTANTS
  Streams,     \* streams, each used for one synthesis
  Probe,       \* the health probe, the other thing that passes the gate
  MaxStreams,  \* MAX_STREAMS: streams of ElevenLabs at once
  MaxBuffer,   \* MAX_BUFFER_BYTES, in chunks
  MaxLevel,    \* how often the back-off doubles before it is max_backoff
  MaxStarts,   \* bound: attempts that pass the gate
  MaxText,     \* bound: text chunks of a stream
  MaxAudio     \* bound: chunks of audio, over all streams

ASSUME TtsAssumption ==
  /\ IsFiniteSet(Streams) /\ Probe \notin Streams
  /\ {MaxStreams, MaxBuffer, MaxLevel, MaxStarts, MaxText, MaxAudio} \subseteq Nat

VARIABLES
  adapter,   \* the provider the process was started with
  gate,      \* LazyBackoffGate: _started, _marker and the doublings of backoff
  token,     \* the token of each attempt
  fresh,     \* history: the attempts begun after the last outcome that counted
  sem,       \* free slots
  terminal,  \* _terminal: credentials or quota rejected
  health,    \* ServiceHealth of the provider
  task,      \* where each attempt is: the task of a stream, connect() of jota, the probe
  cancelled, \* the task has a cancellation to hear
  ws,        \* the socket of a stream
  reader,    \* its reader: it lives, or how it ended
  text,      \* its input: [pending, held, accepted, endAt, sent]
  flags,     \* [closed, reopened, heard]: _closed, _reopened, _got_audio
  buffered,  \* audio chunks the consumer has not read
  over,      \* the None that ends the iterator is in the queue
  played     \* history (bound): audio chunks so far

provider == <<gate, token, fresh, sem, terminal, health>>
streams  == <<task, cancelled, ws, reader, text, flags, buffered, over, played>>
ttsVars  == <<adapter, provider, streams>>

Attempts == Streams \cup {Probe}
Ended    == {"final", "overflow", "error", "auth", "capacity", "other"}
NoText   == [pending |-> <<>>, held |-> 0, accepted |-> 0, endAt |-> 0, sent |-> <<>>]
Shut     == [closed |-> TRUE, reopened |-> FALSE, heard |-> FALSE]
MaxMsgs  == MaxText + 1    \* the two messages of the end count as one

\* The classes of a close or of a failed handshake; an exhausted quota counts as "auth".
Kinds == {"auth", "capacity", "other"}

TtsTypeOK ==
  /\ adapter \in {"elevenlabs", "jota"}
  /\ gate \in [started : 0..MaxStarts, marker : 0..MaxStarts, level : 0..MaxLevel]
  /\ token \in [Attempts -> 0..MaxStarts] /\ fresh \subseteq Attempts
  /\ sem \in 0..MaxStreams /\ terminal \in BOOLEAN
  /\ health \in {"CONNECTED", "RECONNECTING", "DEGRADED"}
  /\ task \in [Attempts -> {"none", "created", "connecting", "auth", "failing", "open", "sending",
                            "serving", "reader", "reopening", "closing", "done"}]
  /\ cancelled \in [Streams -> BOOLEAN]
  /\ ws \in [Streams -> {"none", "open", "dropped"}]
  /\ reader \in [Streams -> Ended \cup {"none", "spawned", "live", "cancelled"}]
  /\ \A s \in Streams : /\ text[s].pending \in Seq(1..MaxMsgs) /\ text[s].sent \in Seq(1..MaxMsgs)
                        /\ {text[s].held, text[s].accepted, text[s].endAt} \subseteq 0..MaxMsgs
  /\ flags \in [Streams -> [closed : BOOLEAN, reopened : BOOLEAN, heard : BOOLEAN]]
  /\ buffered \in [Streams -> 0..MaxBuffer] /\ over \in [Streams -> BOOLEAN]
  /\ played \in 0..MaxAudio

TtsInit ==
  /\ adapter \in {"elevenlabs", "jota"}
  /\ gate = [started |-> 0, marker |-> 0, level |-> 0]
  /\ token = [a \in Attempts |-> 0] /\ fresh = {} /\ sem = MaxStreams
  /\ terminal = FALSE /\ health = "CONNECTED"
  /\ task = [a \in Attempts |-> "none"] /\ cancelled = [s \in Streams |-> FALSE]
  /\ ws = [s \in Streams |-> "none"] /\ reader = [s \in Streams |-> "none"]
  /\ text = [s \in Streams |-> NoText]
  /\ flags = [s \in Streams |-> [closed |-> FALSE, reopened |-> FALSE, heard |-> FALSE]]
  /\ buffered = [s \in Streams |-> 0] /\ over = [s \in Streams |-> FALSE] /\ played = 0
-----------------------------------------------------------------------------
(* The gate, and what the provider records.                                *)

Eleven == adapter = "elevenlabs"
Jota   == adapter = "jota"

To(a, pc)   == task' = [task EXCEPT ![a] = pc]
Begins(a)   == /\ gate.started < MaxStarts
               /\ gate' = [gate EXCEPT !.started = @ + 1]
               /\ token' = [token EXCEPT ![a] = gate.started + 1]
               /\ fresh' = fresh \cup {a}

\* A failure counts only if its attempt began after the last outcome that counted.
AppliesAgain(a) == token[a] >= gate.marker     \* mutant of Applies
Applies(a)      == token[a] > gate.marker
GateFails(a) ==
  IF Applies(a)
  THEN /\ gate' = [gate EXCEPT !.marker = gate.started,
                               !.level = IF @ < MaxLevel THEN @ + 1 ELSE @]
       /\ fresh' = {}
  ELSE UNCHANGED <<gate, fresh>>

RecordFailure(a) ==
  /\ GateFails(a) /\ health' = IF Applies(a) THEN "RECONNECTING" ELSE health
  /\ UNCHANGED terminal
CapacityClose(a) == GateFails(a) /\ UNCHANGED <<health, terminal>>
MarkAuthFailed   == terminal' = TRUE /\ health' = "DEGRADED" /\ UNCHANGED <<gate, fresh>>
RecordSuccess    ==
  /\ IF terminal THEN UNCHANGED <<gate, health, fresh>>
     ELSE /\ gate' = [gate EXCEPT !.marker = gate.started, !.level = 0]
          /\ health' = "CONNECTED" /\ fresh' = {}
  /\ UNCHANGED terminal
NothingRecorded  == UNCHANGED <<gate, health, fresh, terminal>>

ConnectFailed(a, kind) == IF kind = "auth" THEN MarkAuthFailed ELSE RecordFailure(a)

\* A stream that is done takes no more text and has no more failures to report.
Forgotten(s) ==
  /\ text' = [text EXCEPT ![s] = NoText] /\ flags' = [flags EXCEPT ![s] = Shut]
  /\ token' = [token EXCEPT ![s] = 0] /\ buffered' = [buffered EXCEPT ![s] = 0]

\* _finished, the callback of the task: whatever it died of, the slot is free and the audio ends.
ReleasedInFinally(s) == sem + IF task[s] = "created" THEN 0 ELSE 1     \* mutant of Released
Released(s)          == sem + 1
Finished(s) == /\ To(s, "done") /\ sem' = Released(s) /\ Forgotten(s)
               /\ over' = [over EXCEPT ![s] = TRUE]
               /\ cancelled' = [cancelled EXCEPT ![s] = FALSE]
               /\ ws' = [ws EXCEPT ![s] = "none"]

\* The reader does not outlive _serve.
StopsReader(s) == reader' = [reader EXCEPT ![s] = IF @ = "live" THEN "cancelled" ELSE @]
-----------------------------------------------------------------------------
(* A stream of ElevenLabs.                                                 *)

Connect(s) ==
  /\ Eleven /\ task[s] = "none" /\ ~terminal /\ sem > 0
  /\ Begins(s) /\ sem' = sem - 1 /\ To(s, "created")
  /\ UNCHANGED <<adapter, terminal, health, cancelled, ws, reader, text, flags, buffered, over, played>>

\* No slot: the attempt has its token all the same.
Refused ==
  /\ Eleven /\ ~terminal /\ sem = 0 /\ gate.started < MaxStarts
  /\ gate' = [gate EXCEPT !.started = @ + 1]
  /\ UNCHANGED <<adapter, token, fresh, sem, terminal, health, streams>>

TaskStarts(s) ==
  /\ task[s] = "created" /\ ~cancelled[s] /\ To(s, "connecting")
  /\ UNCHANGED <<adapter, provider, cancelled, ws, reader, text, flags, buffered, over, played>>

\* The socket is open: the reader starts and the first message, which has no number, is written.
Opens(s) ==
  /\ Eleven /\ task[s] = "connecting" /\ ~cancelled[s]
  /\ To(s, "sending")
  /\ ws' = [ws EXCEPT ![s] = "open"] /\ reader' = [reader EXCEPT ![s] = "live"]
  /\ UNCHANGED <<adapter, provider, cancelled, text, flags, buffered, over, played>>

AttemptFails(s, kind) ==
  /\ Eleven /\ task[s] = "connecting" /\ ~cancelled[s]
  /\ ConnectFailed(s, kind) /\ Finished(s)
  /\ UNCHANGED <<adapter, reader, played>>

EndSent(s) == text[s].endAt # 0 /\ \E i \in DOMAIN text[s].sent : text[s].sent[i] = text[s].endAt

Serving(s) == task[s] = "serving" /\ ~cancelled[s]
TakesText(s) ==
  /\ Serving(s) /\ ~EndSent(s) /\ reader[s] = "live" /\ text[s].pending # <<>>
  /\ text' = [text EXCEPT ![s].held = Head(text[s].pending), ![s].pending = Tail(@)]
  /\ To(s, "sending")
  /\ UNCHANGED <<adapter, provider, cancelled, ws, reader, flags, buffered, over, played>>

Sent(s) ==
  /\ task[s] = "sending" /\ ~cancelled[s] /\ ws[s] = "open"
  /\ text' = [text EXCEPT ![s].held = 0,
                          ![s].sent = IF text[s].held = 0 THEN @ ELSE Append(@, text[s].held)]
  /\ To(s, "serving")
  /\ UNCHANGED <<adapter, provider, cancelled, ws, reader, flags, buffered, over, played>>

\* The message goes back to where it was, for the connection that may come next.
RequeuedLast(q, m) == Append(q, m)     \* mutant of Requeued
Requeued(q, m)     == <<m>> \o q
SendFails(s) ==
  /\ task[s] = "sending" /\ ~cancelled[s] /\ ws[s] = "dropped"
  /\ text' = [text EXCEPT ![s].held = 0,
                          ![s].pending = IF text[s].held = 0 THEN @ ELSE Requeued(@, text[s].held)]
  /\ To(s, "reader")
  /\ UNCHANGED <<adapter, provider, cancelled, ws, reader, flags, buffered, over, played>>

\* All is written, the reader is over, or the keep-alive finds the socket closed.
LoopEnds(s) ==
  /\ Serving(s)
  /\ EndSent(s) \/ reader[s] # "live" \/ (ws[s] = "dropped" /\ text[s].pending = <<>>)
  /\ To(s, "reader")
  /\ UNCHANGED <<adapter, provider, cancelled, ws, reader, text, flags, buffered, over, played>>

\* Neither text nor end() for TURN_TIMEOUT_S.  Text that arrives with the timeout is dropped.
NobodyWrites(s) ==
  /\ Serving(s) /\ reader[s] = "live" /\ text[s].endAt = 0
  /\ flags' = [flags EXCEPT ![s].closed = TRUE] /\ text' = [text EXCEPT ![s].pending = <<>>]
  /\ StopsReader(s) /\ To(s, "closing")
  /\ UNCHANGED <<adapter, provider, cancelled, ws, buffered, over, played>>

\* What follows the end of the reader; one reopening, if the end was not written.
Reopens(s) == /\ reader[s] = "other" /\ ~flags[s].closed
              /\ ~EndSent(s) /\ ~flags[s].reopened
ReaderEnded(s) ==
  /\ task[s] = "reader" /\ ~cancelled[s] /\ reader[s] \in Ended
  /\ To(s, IF Reopens(s) THEN "reopening" ELSE "closing")
  /\ flags' = [flags EXCEPT ![s].reopened = @ \/ Reopens(s)]
  /\ IF flags[s].closed THEN NothingRecorded
     ELSE CASE reader[s] = "auth"     -> MarkAuthFailed
            [] reader[s] = "capacity" -> CapacityClose(s)
            [] OTHER                  -> NothingRecorded
  /\ UNCHANGED <<adapter, token, sem, cancelled, ws, reader, text, buffered, over, played>>

Reopened(s) ==
  /\ task[s] = "reopening" /\ ~cancelled[s] /\ To(s, "connecting")
  /\ ws' = [ws EXCEPT ![s] = "none"]
  /\ UNCHANGED <<adapter, provider, cancelled, reader, text, flags, buffered, over, played>>

TaskEnds(s) ==
  /\ task[s] = "closing" /\ ~cancelled[s] /\ Finished(s)
  /\ UNCHANGED <<adapter, gate, fresh, terminal, health, reader, played>>

\* Cancelled in its first step, while it has no socket or while it closes it, the task ends at
\* once; else its finally closes the socket first.
TaskCut(s) ==
  /\ cancelled[s]
  /\ IF task[s] \in {"created", "connecting", "reopening", "closing"}
     THEN Finished(s) /\ UNCHANGED reader
     ELSE /\ To(s, "closing") /\ cancelled' = [cancelled EXCEPT ![s] = FALSE]
          /\ StopsReader(s) /\ UNCHANGED <<sem, over, ws, text, flags, token, buffered>>
  /\ UNCHANGED <<adapter, gate, fresh, terminal, health, played>>

\* send_text_chunk, end() and close().
Accepting(s) == Eleven /\ task[s] # "none" /\ ~flags[s].closed /\ text[s].endAt = 0
SendText(s) ==
  /\ Accepting(s) /\ text[s].accepted < MaxText
  /\ text' = [text EXCEPT ![s].accepted = @ + 1, ![s].pending = Append(@, text[s].accepted + 1)]
  /\ UNCHANGED <<adapter, provider, task, cancelled, ws, reader, flags, buffered, over, played>>

End(s) ==
  /\ Accepting(s)
  /\ LET n == text[s].accepted + 1
     IN text' = [text EXCEPT ![s].accepted = n, ![s].endAt = n, ![s].pending = Append(@, n)]
  /\ UNCHANGED <<adapter, provider, task, cancelled, ws, reader, flags, buffered, over, played>>

Close(s) ==
  /\ Eleven /\ task[s] # "none" /\ ~flags[s].closed
  /\ flags' = [flags EXCEPT ![s].closed = TRUE] /\ text' = [text EXCEPT ![s].pending = <<>>]
  /\ cancelled' = [cancelled EXCEPT ![s] = task[s] # "done"]
  /\ UNCHANGED <<adapter, provider, task, ws, reader, buffered, over, played>>
-----------------------------------------------------------------------------
(* A stream of jota.  Its text is written by whoever sends it.             *)

JotaConnect(s) ==
  /\ Jota /\ task[s] = "none" /\ Begins(s) /\ To(s, "connecting")
  /\ UNCHANGED <<adapter, sem, terminal, health, cancelled, ws, reader, text, flags, buffered, over, played>>

JotaOpens(s) ==
  /\ Jota /\ task[s] = "connecting" /\ To(s, "auth")
  /\ ws' = [ws EXCEPT ![s] = "open"]
  /\ UNCHANGED <<adapter, provider, cancelled, reader, text, flags, buffered, over, played>>

\* auth_ok, or anything else in its place: the socket is closed before the failure is recorded.
JotaAuth(s) ==
  /\ task[s] = "auth"
  /\ \/ To(s, "open") /\ RecordSuccess
     \/ To(s, "failing") /\ NothingRecorded
  /\ UNCHANGED <<adapter, token, sem, cancelled, ws, reader, text, flags, buffered, over, played>>

JotaFails(s) ==
  /\ Jota /\ task[s] \in {"connecting", "failing"}
  /\ RecordFailure(s) /\ To(s, "done") /\ Forgotten(s)
  /\ ws' = [ws EXCEPT ![s] = "none"]
  /\ UNCHANGED <<adapter, sem, cancelled, reader, over, played>>

\* The turn that connects is cancelled: nothing is recorded.
JotaCut(s) ==
  /\ Jota /\ task[s] \in {"connecting", "auth", "failing"}
  /\ To(s, "done") /\ Forgotten(s) /\ ws' = [ws EXCEPT ![s] = "none"]
  /\ UNCHANGED <<adapter, gate, fresh, sem, terminal, health, cancelled, reader, over, played>>

\* get_audio_stream creates the reader, which runs a little later.
Listens(s) ==
  /\ task[s] = "open" /\ reader[s] \in {"none", "spawned"}
  /\ reader' = [reader EXCEPT ![s] = IF @ = "none" THEN "spawned" ELSE "live"]
  /\ UNCHANGED <<adapter, provider, task, cancelled, ws, text, flags, buffered, over, played>>

\* close().  The finally of a reader that was cancelled before its first step does not run.
JotaClose(s) ==
  /\ task[s] = "open" /\ To(s, "done") /\ Forgotten(s)
  /\ ws' = [ws EXCEPT ![s] = "none"]
  /\ over' = [over EXCEPT ![s] = @ \/ reader[s] = "live"]
  /\ reader' = [reader EXCEPT ![s] = IF @ \in {"live", "spawned"} THEN "cancelled" ELSE @]
  /\ UNCHANGED <<adapter, gate, fresh, sem, terminal, health, cancelled, played>>
-----------------------------------------------------------------------------
(* The reader, the consumer and the probe.                                 *)

\* Of jota, the end of the reader is the end of the audio.
ReaderEnds(s, outcome) ==
  /\ reader' = [reader EXCEPT ![s] = outcome]
  /\ over' = [over EXCEPT ![s] = @ \/ Jota]

Fits(s)        == buffered[s] < MaxBuffer
Audio(s) ==
  /\ reader[s] = "live" /\ ws[s] = "open" /\ played < MaxAudio /\ played' = played + 1
  /\ IF Fits(s)
     THEN /\ buffered' = [buffered EXCEPT ![s] = @ + 1]
          /\ flags' = [flags EXCEPT ![s].heard = Eleven]
          /\ IF Eleven /\ ~flags[s].heard THEN RecordSuccess ELSE NothingRecorded
          /\ UNCHANGED <<reader, over>>
     ELSE ReaderEnds(s, "overflow") /\ NothingRecorded /\ UNCHANGED <<buffered, flags>>
  /\ UNCHANGED <<adapter, token, sem, task, cancelled, ws, text>>

\* isFinal or done; a frame, or a message of jota, that ends the reading with an error.
AudioEnds(s, outcome) ==
  /\ reader[s] = "live" /\ ws[s] = "open" /\ ReaderEnds(s, outcome)
  /\ UNCHANGED <<adapter, provider, task, cancelled, ws, text, flags, buffered, played>>

ServerCloses(s) ==
  /\ ws[s] = "open" /\ ws' = [ws EXCEPT ![s] = "dropped"]
  /\ UNCHANGED <<adapter, provider, task, cancelled, reader, text, flags, buffered, over, played>>

\* The reader has seen the close and gives its class.
ReaderSees(s, kind) ==
  /\ reader[s] = "live" /\ ws[s] = "dropped" /\ ReaderEnds(s, kind)
  /\ UNCHANGED <<adapter, provider, task, cancelled, ws, text, flags, buffered, played>>

Reads(s) ==
  /\ buffered[s] > 0 /\ buffered' = [buffered EXCEPT ![s] = @ - 1]
  /\ UNCHANGED <<adapter, provider, task, cancelled, ws, reader, text, flags, over, played>>

ProbeStarts ==
  /\ Eleven /\ ~terminal /\ task[Probe] = "none" /\ Begins(Probe) /\ To(Probe, "connecting")
  /\ UNCHANGED <<adapter, sem, terminal, health, cancelled, ws, reader, text, flags, buffered, over, played>>

ProbeEnds ==
  /\ task[Probe] = "connecting" /\ To(Probe, "none")
  /\ RecordSuccess \/ \E kind \in Kinds : ConnectFailed(Probe, kind)
  /\ UNCHANGED <<adapter, token, sem, cancelled, ws, reader, text, flags, buffered, over, played>>
-----------------------------------------------------------------------------
TaskStep(s) == \/ TaskStarts(s) \/ Opens(s) \/ TakesText(s) \/ Sent(s) \/ SendFails(s) \/ LoopEnds(s)
               \/ NobodyWrites(s) \/ ReaderEnded(s) \/ Reopened(s) \/ TaskEnds(s) \/ TaskCut(s)
               \/ \E kind \in Kinds : AttemptFails(s, kind)

JotaStep(s) == \/ JotaConnect(s) \/ JotaOpens(s) \/ JotaAuth(s) \/ JotaFails(s) \/ JotaCut(s)
               \/ Listens(s) \/ JotaClose(s)

TtsNext ==
  \/ \E s \in Streams :
       \/ Connect(s) \/ SendText(s) \/ End(s) \/ Close(s) \/ TaskStep(s) \/ JotaStep(s)
       \/ Audio(s) \/ ServerCloses(s) \/ Reads(s)
       \/ \E outcome \in {"final", "error"} : AudioEnds(s, outcome)
       \/ \E kind \in Kinds : ReaderSees(s, kind)
  \/ Refused \/ ProbeStarts \/ ProbeEnds

TtsSpec == TtsInit /\ [][TtsNext]_ttsVars
-----------------------------------------------------------------------------
(* Properties.                                                             *)

\* The provider gets the text of a stream in order, nothing twice and nothing left out, although a
\* message whose write failed goes back and the connection may be a new one.
TextInOrder == \A s \in Streams : text[s].sent = [i \in 1..Len(text[s].sent) |-> i]

\* Whatever a stream of ElevenLabs dies of, once and always: its slot is free, its iterator ends,
\* and no reader is left that could put audio behind that end.
FinishedOnce ==
  /\ TtsTypeOK
  /\ Eleven => sem + Cardinality({s \in Streams : task[s] \notin {"none", "done"}}) = MaxStreams
  /\ \A s \in Streams : Eleven => (over[s] <=> task[s] = "done")
  /\ \A s \in Streams : over[s] => reader[s] \notin {"spawned", "live"}

\* One outage counts once: the back-off of all turns grows only for an attempt that began after the
\* last outcome that counted, in whatever order overlapping attempts end (#152).
OutageCountsOnce ==
  [][gate'.level > gate.level => \E a \in fresh : task'[a] # task[a]]_ttsVars

\* A provider whose credentials were rejected is degraded until the restart.
TerminalIsDegraded == terminal => health = "DEGRADED"
=============================================================================
