----------------------------- MODULE SpeechProofs -----------------------------
(***************************************************************************)
(* Both ways of speech.  What holds of an audio session over the jota      *)
(* adapter for every poll interval, timeout, number of strikes and number  *)
(* of faults: its sockets, what it knows of a drop, and what it takes to   *)
(* give the client a strike.  And what holds of text to speech for every   *)
(* number of streams, slots and messages: its text is in order, its slots  *)
(* come back, and its back-off grows once for each outage.                 *)
(***************************************************************************)
EXTENDS VoiceSession, TtsStreams, TLAPS, FiniteSetTheorems

\* The adapter: where a socket may be open, who still has a cancellation to hear, and when the
\* client is ready.
Link ==
  /\ sock \in {"open", "closing"} => held
  /\ sock = "closing" => pc = "over"
  /\ pc \in {"new", "opening", "backoff"} => sock # "open"
  /\ pc = "started" /\ state # "CONNECTED" => sock # "open"
  /\ closer # "no" => cut \/ pc \in {"unwinding", "over"}
  /\ cut \/ pc = "unwinding" => closer # "no"
  /\ closed <=> closer \in {"closing", "done"}
  /\ closer = "done" => sock \notin {"open", "closing"}
  /\ closer = "no" /\ ~hidden /\ (pc = "listening" \/ (pc = "started" /\ state = "CONNECTED"))
       => ready
  /\ closer = "no" /\ pc = "over" /\ ~hidden /\ sock # "ended" => state = "DEGRADED"

Adapted == SttTypeOK /\ Link

-----------------------------------------------------------------------------
(* The adapter.                                                            *)

\* It begins well.
LEMMA AdaptedInit == SttInit => Adapted
<1>1. SttInit => /\ held \in BOOLEAN /\ ready \in BOOLEAN /\ closed \in BOOLEAN
                 /\ cut \in BOOLEAN /\ hidden \in BOOLEAN
  BY Zenon DEF SttInit
<1> QED BY <1>1, JotaAssumption DEF SttInit, Adapted, SttTypeOK, Link, Connects, Dead

\* No step of connect(), of run() or of the close breaks it.
LEMMA AdaptedSteps == Adapted /\ SttSteps => Adapted'
<1> SUFFICES ASSUME Adapted, SttSteps PROVE Adapted'
  OBVIOUS
<1> USE JotaAssumption DEF Adapted, SttTypeOK, Link, Connects, Dead, At, link
<1>1. CASE StartCalled
  BY <1>1 DEF StartCalled
<1>2. CASE Opened
  BY <1>2 DEF Opened
<1>3. CASE ConnectFails
  BY <1>3 DEF ConnectFails
<1>4. CASE Readied
  BY <1>4 DEF Readied
<1>5. CASE CleanedUp
  <2>1. held' \in BOOLEAN
    BY <1>5, Zenon DEF CleanedUp, LetGo
  <2> QED BY <1>5, <2>1 DEF CleanedUp, LetGo, GivesUp
<1>6. CASE BackedOff
  BY <1>6 DEF BackedOff
<1>7. CASE ListenEnds
  BY <1>7 DEF ListenEnds, Dropped
<1>8. CASE Cut
  <2>1. cut' \in BOOLEAN
    BY <1>8, Zenon DEF Cut
  <2> QED BY <1>8, <2>1 DEF Cut
<1>9. CASE Unwound
  <2>1. held' \in BOOLEAN
    BY <1>9, Zenon DEF Unwound, LetGo
  <2> QED BY <1>9, <2>1 DEF Unwound, LetGo
<1>10. CASE CloseStt
  BY <1>10 DEF CloseStt
<1>11. CASE CloseClient
  BY <1>11 DEF CloseClient, MustClose, NamedSocket
<1> QED BY <1>1, <1>2, <1>3, <1>4, <1>5, <1>6, <1>7, <1>8, <1>9, <1>10, <1>11 DEF SttSteps

\* Nor does run() when it starts, a fault, a send, or the close that begins.
LEMMA AdaptedOthers ==
  Adapted /\ (RunStarts \/ SttFaults \/ Send \/ CloseBegins \/ UNCHANGED stt) => Adapted'
<1> SUFFICES ASSUME Adapted, RunStarts \/ SttFaults \/ Send \/ CloseBegins \/ UNCHANGED stt
             PROVE  Adapted'
  OBVIOUS
<1> USE JotaAssumption DEF Adapted, SttTypeOK, Link, Connects, Dead, At, link
<1>1. CASE RunStarts
  BY <1>1 DEF RunStarts
<1>2. CASE Drops
  BY <1>2 DEF Drops
<1>3. CASE CallbackCrashes
  BY <1>3 DEF CallbackCrashes
<1>4. CASE Send
  BY <1>4 DEF Send
<1>5. CASE CloseBegins
  <2>1. cut' \in BOOLEAN
    BY <1>5, Zenon DEF CloseBegins
  <2>2. pc = "over" \/ cut'
    BY <1>5 DEF CloseBegins
  <2> QED BY <1>5, <2>1, <2>2 DEF CloseBegins
<1>6. CASE UNCHANGED stt
  BY <1>6 DEF stt
<1> QED BY <1>1, <1>2, <1>3, <1>4, <1>5, <1>6 DEF SttFaults

\* Every step of the session is one of these to the adapter.
LEMMA AdaptedNext == Adapted /\ [Next]_vars => Adapted'
<1> SUFFICES ASSUME Adapted, [Next]_vars PROVE Adapted'
  OBVIOUS
<1>1. CASE Adapter
  BY <1>1, AdaptedSteps, AdaptedOthers DEF Adapter, Session
<1>2. CASE AudioFrame \/ EndOfSpeech
  BY <1>2, AdaptedOthers DEF AudioFrame, EndOfSpeech
<1>3. CASE Heard \/ Status \/ Turn \/ Tick
  BY <1>3, AdaptedOthers DEF Heard, Status, Turn, Tick
<1>4. CASE WatchBegins \/ WatchGivesUp \/ PollBlind \/ PollUp
  BY <1>4, AdaptedOthers DEF WatchBegins, WatchGivesUp, PollBlind, PollUp
<1>5. CASE Notified \/ Leave
  BY <1>5, AdaptedOthers DEF Notified, Leave, Ends
<1>6. CASE UNCHANGED vars
  BY <1>6, AdaptedOthers DEF vars
<1> QED BY <1>1, <1>2, <1>3, <1>4, <1>5, <1>6 DEF Next, Watchdog

-----------------------------------------------------------------------------
(* The clock.                                                              *)

\* For how long nothing was heard, at least, when the s-th strike in a row is given.
Floor(s) == Timeout + (s - 1) * Poll + 1

ClockTypeOK ==
  /\ wd \in {"none", "waiting", "watching", "notifying", "over"} /\ nap \in 0..Poll
  /\ quiet \in 0..Never /\ burst \in 0..Never /\ flow \in 0..Never
  /\ heard \in 0..Never /\ base \in 0..Never /\ calm \in 0..Never
  /\ strikes \in 0..MaxStrikes
  /\ news \in BOOLEAN /\ wasUp \in BOOLEAN /\ turn \in BOOLEAN /\ busy \in BOOLEAN

\* The adapter's task starts the watchdog once, and nothing counts before.
Started ==
  /\ pc = "started" => first
  /\ first /\ closer = "no" => wd = "none"
  /\ wd \in {"none", "waiting"} => strikes = 0

\* What the watchdog reads is never older than what its strikes may count.
Counted ==
  /\ flow = burst
  /\ wasUp /\ news => heard <= calm
  /\ wasUp => base <= calm \/ heard <= calm
  /\ wd = "watching" => strikes < MaxStrikes
  /\ strikes > 0 /\ ~news =>
       heard >= Floor(strikes) + (IF wd = "watching" THEN Poll - nap ELSE 0)

Clock == ClockTypeOK /\ Started /\ Counted

\* Never is an age that no limit of the watchdog reaches.
LEMMA NeverIsOldest ==
  /\ Never \in Nat /\ Gap \in Nat /\ Never > Gap /\ Never > Timeout
  /\ \A s \in 1..MaxStrikes : Floor(s) \in Nat /\ Floor(s) <= Never
  /\ \A s \in Nat : Floor(s + 1) = Floor(s) + Poll
  /\ Floor(1) = Timeout + 1
<1> DEFINE span(n) == (n - 1) * Poll
<1>1. \A s \in 1..MaxStrikes : span(s) \in Nat /\ span(s) <= span(MaxStrikes)
  <2> SUFFICES ASSUME NEW s \in 1..MaxStrikes
               PROVE  span(s) \in Nat /\ span(s) <= span(MaxStrikes)
    OBVIOUS
  <2>1. span(MaxStrikes) - span(s) = (MaxStrikes - s) * Poll
    BY VoiceAssumption
  <2>2. span(s) \in Nat /\ (MaxStrikes - s) * Poll \in Nat /\ span(MaxStrikes) \in Nat
    BY VoiceAssumption
  <2> HIDE DEF span
  <2> QED BY <2>1, <2>2, VoiceAssumption
<1>2. \A s \in Nat : span(s + 1) = span(s) + Poll
  BY VoiceAssumption
<1>3. span(1) = 0 /\ span(2) = Poll
  BY VoiceAssumption
<1>4. Never = 1 + (IF MaxStrikes = 1 THEN Gap ELSE Timeout + span(MaxStrikes))
  BY DEF Never
<1>5. \A s : Floor(s) = Timeout + span(s) + 1
  BY DEF Floor
<1>6. \A s \in Nat : span(s) \in Int
  BY VoiceAssumption
<1> HIDE DEF span
<1>7. MaxStrikes # 1 => span(MaxStrikes) >= Poll
  BY <1>1, <1>3, VoiceAssumption
<1>8. Gap \in Nat /\ Gap >= Timeout /\ Gap >= Poll /\ Gap <= Timeout + Poll
  BY VoiceAssumption DEF Gap
<1>9. span(MaxStrikes) \in Nat
  BY <1>1, VoiceAssumption
<1>10. Never \in Nat /\ Never > Gap /\ Never > Timeout
  <2>1. CASE MaxStrikes = 1
    BY <2>1, <1>4, <1>8, VoiceAssumption
  <2>2. CASE MaxStrikes # 1
    BY <2>2, <1>4, <1>7, <1>8, <1>9, VoiceAssumption DEF Gap
  <2> QED BY <2>1, <2>2
<1>11. ASSUME NEW s \in 1..MaxStrikes PROVE Floor(s) \in Nat /\ Floor(s) <= Never
  <2>1. span(s) \in Nat /\ span(s) <= span(MaxStrikes) /\ Floor(s) = Timeout + span(s) + 1
    BY <1>1, <1>5
  <2>2. CASE MaxStrikes = 1
    BY <2>1, <2>2, <1>3, <1>10, VoiceAssumption
  <2>3. CASE MaxStrikes # 1
    BY <2>1, <2>3, <1>4, <1>9, VoiceAssumption
  <2> QED BY <2>2, <2>3
<1>12. ASSUME NEW s \in Nat PROVE Floor(s + 1) = Floor(s) + Poll
  BY <1>2, <1>5, <1>6, VoiceAssumption
<1>13. Floor(1) = Timeout + 1
  BY <1>3, <1>5, VoiceAssumption
<1> QED BY <1>8, <1>10, <1>11, <1>12, <1>13

\* A second makes everything older, up to Never, and keeps the order of ages.
LEMMA OlderIsMonotone ==
  ASSUME NEW a \in 0..Never, NEW b \in 0..Never
  PROVE  /\ Older(a) \in 0..Never /\ Older(a) >= a
         /\ a < Never => Older(a) = a + 1
         /\ a = Never => Older(a) = Never
         /\ a <= b => Older(a) <= Older(b)
BY NeverIsOldest DEF Older

\* The clock begins well.
LEMMA ClockInit == Init => Clock
<1> SUFFICES ASSUME Init PROVE Clock
  OBVIOUS
<1>1. news \in BOOLEAN /\ wasUp \in BOOLEAN /\ turn \in BOOLEAN /\ busy \in BOOLEAN /\ ~news
  BY Zenon DEF Init
<1>2. ClockTypeOK
  BY <1>1, VoiceAssumption, NeverIsOldest DEF Init, ClockTypeOK
<1>3. Started
  BY DEF Init, SttInit, Started
<1>4. Counted
  BY <1>1, NeverIsOldest DEF Init, Counted
<1> QED BY <1>2, <1>3, <1>4 DEF Clock

\* Nothing the adapter does moves the clock; it only starts the watchdog.
LEMMA ClockAdapter == Adapted /\ Clock /\ Adapter => Clock'
<1> SUFFICES ASSUME Adapted, Clock, Adapter PROVE Clock'
  OBVIOUS
<1>1. UNCHANGED <<audio, speech, nap, base, wasUp, strikes, calm, turn, busy>>
  BY DEF Adapter
<1>2. CASE RunStarts /\ wd' = "waiting"
  <2>1. strikes = 0 /\ first' = FALSE /\ pc' # "started"
    BY <1>2 DEF RunStarts, At, Adapted, Link, Clock, Started
  <2> QED BY <1>1, <1>2, <2>1 DEF Clock, ClockTypeOK, Started, Counted, audio, speech
<1>3. CASE (SttSteps \/ SttFaults) /\ wd' = wd
  <2>1. closer' = "no" => closer = "no"
    BY <1>3 DEF SttSteps, SttFaults, StartCalled, Opened, ConnectFails, Readied, CleanedUp,
                BackedOff, ListenEnds, Cut, Unwound, CloseStt, CloseClient, Drops,
                CallbackCrashes, At, link
  <2>2. /\ first' = first
        /\ pc' = "started" => pc = "started" \/ first
    BY <1>3 DEF SttSteps, SttFaults, StartCalled, Opened, ConnectFails, Readied, CleanedUp,
                BackedOff, ListenEnds, Cut, Unwound, CloseStt, CloseClient, Drops,
                CallbackCrashes, At, link
  <2>3. Started'
    BY <1>1, <1>3, <2>1, <2>2 DEF Clock, Started
  <2> QED BY <1>1, <1>3, <2>3 DEF Clock, ClockTypeOK, Counted, audio, speech
<1> QED BY <1>2, <1>3 DEF Adapter, Session

\* The client, the transcriber and the turns.
LEMMA ClockClient == Clock /\ (AudioFrame \/ EndOfSpeech \/ Heard \/ Status \/ Turn) => Clock'
<1> SUFFICES ASSUME Clock, AudioFrame \/ EndOfSpeech \/ Heard \/ Status \/ Turn PROVE Clock'
  OBVIOUS
<1> USE DEF Clock, ClockTypeOK, Started, Counted, audio, speech, watch
<1>1. CASE AudioFrame
  BY <1>1, NeverIsOldest DEF AudioFrame, OpensBurst, Send
<1>2. CASE EndOfSpeech
  BY <1>2 DEF EndOfSpeech, Send
<1>3. CASE Heard
  <2>1. news' \in BOOLEAN /\ news'
    BY <1>3 DEF Heard
  <2> QED BY <1>3, <2>1, NeverIsOldest DEF Heard, stt, link
<1>4. CASE Status
  <2>1. busy' \in BOOLEAN
    BY <1>4 DEF Status
  <2> QED BY <1>4, <2>1 DEF Status, stt, link
<1>5. CASE Turn
  <2>1. turn' \in BOOLEAN
    BY <1>5 DEF Turn
  <2> QED BY <1>5, <2>1 DEF Turn, stt, link
<1> QED BY <1>1, <1>2, <1>3, <1>4, <1>5

\* A second goes by: what the strikes may count grows with the sleep that gets shorter.
LEMMA ClockTick == Clock /\ Tick => Clock'
<1> SUFFICES ASSUME Clock, Tick PROVE Clock'
  OBVIOUS
<1>1. /\ quiet' = Older(quiet) /\ burst' = Older(burst) /\ flow' = Older(flow)
      /\ heard' = Older(heard) /\ base' = Older(base) /\ calm' = Older(calm)
      /\ nap' = (IF nap > 0 THEN nap - 1 ELSE 0)
      /\ UNCHANGED <<pc, first, closer, news, wd, wasUp, strikes, turn, busy>>
      /\ wd = "watching" => nap > 0
  BY DEF Tick, stt
<1>2. ClockTypeOK'
  <2>1. /\ quiet' \in 0..Never /\ burst' \in 0..Never /\ flow' \in 0..Never
        /\ heard' \in 0..Never /\ base' \in 0..Never /\ calm' \in 0..Never
    BY <1>1, OlderIsMonotone DEF Clock, ClockTypeOK
  <2>2. nap' \in 0..Poll
    BY <1>1, VoiceAssumption DEF Clock, ClockTypeOK
  <2> QED BY <1>1, <2>1, <2>2 DEF Clock, ClockTypeOK
<1>3. Started'
  BY <1>1 DEF Clock, Started
<1>4. Counted'
  <2>1. /\ flow' = burst'
        /\ wasUp' /\ news' => heard' <= calm'
        /\ wasUp' => base' <= calm' \/ heard' <= calm'
        /\ wd' = "watching" => strikes' < MaxStrikes
    BY <1>1, OlderIsMonotone DEF Clock, ClockTypeOK, Counted
  <2>2. ASSUME strikes > 0, ~news
        PROVE  heard' >= Floor(strikes) + (IF wd = "watching" THEN Poll - nap' ELSE 0)
    <3>1. /\ heard >= Floor(strikes) + (IF wd = "watching" THEN Poll - nap ELSE 0)
          /\ strikes \in 1..MaxStrikes /\ Floor(strikes) \in Nat /\ Floor(strikes) <= Never
          /\ heard \in 0..Never /\ nap \in 0..Poll
      BY <2>2, NeverIsOldest, VoiceAssumption DEF Clock, ClockTypeOK, Counted
    <3>2. heard' >= heard /\ heard' \in 0..Never
          /\ (heard < Never => heard' = heard + 1) /\ (heard = Never => heard' = Never)
      BY <1>1, <3>1, OlderIsMonotone
    <3>3. CASE wd # "watching"
      BY <3>1, <3>2, <3>3, NeverIsOldest
    <3>4. CASE wd = "watching"
      <4>1. nap > 0 /\ nap' = nap - 1
        BY <1>1, <3>1, <3>4
      <4>2. Floor(strikes) + Poll <= Never
        <5>1. strikes + 1 \in 1..MaxStrikes /\ strikes \in Nat
          BY <3>1, <3>4, VoiceAssumption DEF Clock, Counted
        <5>2. Floor(strikes + 1) = Floor(strikes) + Poll /\ Floor(strikes + 1) <= Never
          BY <5>1, NeverIsOldest
        <5> QED BY <5>2
      <4> QED BY <3>1, <3>2, <3>4, <4>1, <4>2, NeverIsOldest, VoiceAssumption
    <3> QED BY <3>3, <3>4
  <2> QED BY <1>1, <2>1, <2>2 DEF Counted
<1> QED BY <1>2, <1>3, <1>4 DEF Clock

\* A poll that is not blind.  One that gives a strike has found everything it compares old
\* enough: the burst, what was heard last, and the last poll that met a turn or an outage, unless
\* a transcription from before that poll hides it.
LEMMA StrikeReads ==
  ASSUME Clock, PollUp, Strike
  PROVE  /\ state = "CONNECTED" /\ ~busy /\ ~turn
         /\ quiet <= Gap /\ flow > Timeout /\ (calm > Timeout \/ Overlooked)
         /\ SoFar \in Nat /\ SoFar < MaxStrikes /\ SoFar \in {0, strikes}
         /\ heard >= Floor(SoFar + 1)
<1>1. /\ ~turn /\ ~Idle /\ Since > Timeout /\ heard > Timeout /\ burst > Timeout
      /\ nap = 0 /\ wd = "watching" /\ ~Blind
  BY DEF PollUp, Polls, Strike
<1>2. quiet <= Gap
  BY <1>1, NeverIsOldest DEF Idle, Clock, ClockTypeOK
<1>3. news \/ (wasUp /\ base > Timeout)
  BY <1>1, VoiceAssumption DEF Since
<1>4. calm > Timeout \/ Overlooked
  <2>1. heard \in Nat /\ base \in Nat /\ calm \in Nat /\ Timeout \in Nat
    BY VoiceAssumption, NeverIsOldest DEF Clock, ClockTypeOK
  <2>2. CASE wasUp
    BY <1>1, <1>3, <2>1, <2>2 DEF Clock, Counted
  <2>3. CASE ~wasUp
    BY <1>1, <1>3, <2>1, <2>3 DEF Overlooked
  <2> QED BY <2>2, <2>3
<1>5. SoFar \in Nat /\ SoFar < MaxStrikes /\ SoFar \in {0, strikes}
  BY <1>1, VoiceAssumption DEF SoFar, Clock, ClockTypeOK, Counted
<1>6. heard >= Floor(SoFar + 1)
  <2>1. CASE SoFar = 0
    BY <1>1, <2>1, NeverIsOldest, VoiceAssumption DEF Clock, ClockTypeOK
  <2>2. CASE SoFar # 0
    <3>1. SoFar = strikes /\ strikes > 0 /\ ~news /\ strikes \in Nat
      BY <1>5, <2>2 DEF SoFar
    <3>2. heard >= Floor(strikes) + Poll
      BY <1>1, <3>1, VoiceAssumption DEF Clock, Counted
    <3> QED BY <3>1, <3>2, NeverIsOldest
  <2> QED BY <2>1, <2>2
<1> QED BY <1>1, <1>2, <1>4, <1>5, <1>6 DEF Blind, Clock, Counted

LEMMA ClockPoll == Clock /\ PollUp => Clock'
<1> SUFFICES ASSUME Clock, PollUp PROVE Clock'
  OBVIOUS
<1>1. /\ UNCHANGED <<pc, first, closer, quiet, burst, flow, heard, turn, busy>>
      /\ base' = (IF turn THEN 0 ELSE Since)
      /\ calm' = (IF turn \/ (~wasUp /\ ~news) THEN 0 ELSE IF Overlooked THEN Never ELSE calm)
      /\ nap = 0 /\ wd = "watching"
  BY DEF PollUp, Polls, stt, audio
<1>2. news' \in BOOLEAN /\ ~news' /\ wasUp' \in BOOLEAN
  BY Zenon DEF PollUp, Back
<1>3. base' \in 0..Never /\ calm' \in 0..Never /\ (base' <= calm' \/ heard <= calm')
  <2>1. heard \in 0..Never /\ base \in 0..Never /\ calm \in 0..Never /\ Never \in Nat
    BY NeverIsOldest DEF Clock, ClockTypeOK
  <2>2. CASE turn \/ (~wasUp /\ ~news)
    BY <1>1, <2>1, <2>2 DEF Since
  <2>3. CASE ~turn /\ Overlooked
    BY <1>1, <2>1, <2>3 DEF Since, Overlooked
  <2>4. CASE ~turn /\ ~Overlooked /\ ~wasUp /\ news
    BY <1>1, <2>1, <2>4 DEF Since, Overlooked
  <2>5. CASE ~turn /\ wasUp
    <3>1. calm' = calm /\ base' = IF news THEN Never ELSE base
      BY <1>1, <2>5 DEF Since, Overlooked
    <3>2. /\ base <= calm \/ heard <= calm
          /\ news => heard <= calm
      BY <2>5 DEF Clock, Counted
    <3> QED BY <2>1, <3>1, <3>2
  <2> QED BY <2>2, <2>3, <2>4, <2>5
<1>4. CASE Strike
  <2>1. strikes' = SoFar + 1 /\ wd' = "notifying" /\ nap' = nap
    BY <1>4 DEF PollUp
  <2>2. strikes' \in 0..MaxStrikes /\ heard >= Floor(strikes')
    BY <1>4, <2>1, StrikeReads, VoiceAssumption
  <2>3. Floor(strikes') \in Nat
    BY <1>4, <2>1, <2>2, StrikeReads, NeverIsOldest, VoiceAssumption
  <2>4. ClockTypeOK' /\ Started'
    BY <1>1, <1>2, <1>3, <2>1, <2>2 DEF Clock, ClockTypeOK, Started
  <2>5. Counted'
    <3>1. heard' = heard /\ flow' = burst' /\ (base' <= calm' \/ heard' <= calm')
      BY <1>1, <1>3 DEF Clock, Counted
    <3>2. heard' >= Floor(strikes') + 0
      BY <2>2, <2>3, <3>1 DEF Clock, ClockTypeOK
    <3> QED BY <1>2, <2>1, <3>1, <3>2 DEF Counted
  <2> QED BY <2>4, <2>5 DEF Clock
<1>5. CASE ~Strike
  <2>1. strikes' = (IF turn \/ Idle THEN 0 ELSE SoFar) /\ wd' = wd /\ nap' = Poll
    BY <1>5 DEF PollUp
  <2>2. strikes' \in 0..MaxStrikes /\ strikes' < MaxStrikes /\ (strikes' = 0 \/ strikes' = strikes)
    BY <1>1, <2>1, VoiceAssumption DEF SoFar, Clock, ClockTypeOK, Counted
  <2>3. strikes' > 0 => heard >= Floor(strikes')
    <3> SUFFICES ASSUME strikes' > 0 PROVE heard >= Floor(strikes')
      OBVIOUS
    <3>1. strikes' = strikes /\ ~news /\ strikes \in 1..MaxStrikes
      BY <2>1, <2>2, VoiceAssumption DEF SoFar
    <3>2. heard >= Floor(strikes) + Poll /\ Floor(strikes) \in Nat
      BY <1>1, <3>1, NeverIsOldest, VoiceAssumption DEF Clock, Counted
    <3> QED BY <3>1, <3>2, VoiceAssumption DEF Clock, ClockTypeOK
  <2>4. Poll \in 0..Poll /\ Poll - Poll = 0
    BY VoiceAssumption
  <2>5. strikes' > 0 => Floor(strikes') \in Nat
    BY <2>2, NeverIsOldest, VoiceAssumption
  <2>6. ClockTypeOK'
    BY <1>1, <1>2, <1>3, <2>1, <2>2, <2>4 DEF Clock, ClockTypeOK
  <2>7. Started'
    BY <1>1, <2>1, <2>2 DEF Clock, Started
  <2>8. Counted'
    <3>1. heard' = heard /\ flow' = burst' /\ (base' <= calm' \/ heard' <= calm')
      BY <1>1, <1>3 DEF Clock, Counted
    <3>2. strikes' > 0 => heard' >= Floor(strikes') + (Poll - nap')
      BY <2>1, <2>3, <2>4, <2>5, <3>1, NeverIsOldest DEF Clock, ClockTypeOK
    <3> QED BY <1>1, <1>2, <2>1, <2>2, <3>1, <3>2 DEF Counted
  <2> QED BY <2>6, <2>7, <2>8 DEF Clock
<1> QED BY <1>4, <1>5

\* A watchdog that ends takes what it knew with it.
LEMMA ClockForgotten ==
  ASSUME Clock, Forget, UNCHANGED <<pc, first>>, closer' = "no" => closer = "no" /\ wd # "none"
  PROVE  Clock'
<1>1. /\ news' \in BOOLEAN /\ ~news' /\ wasUp' \in BOOLEAN /\ turn' \in BOOLEAN
      /\ busy' \in BOOLEAN
  BY Zenon DEF Forget
<1> QED BY <1>1, NeverIsOldest, VoiceAssumption
        DEF Forget, Clock, ClockTypeOK, Started, Counted

\* The other steps of the watchdog, and the end of the session.
LEMMA ClockWatchdog == Clock /\ (Watchdog \/ Leave) => Clock'
<1> SUFFICES ASSUME Clock, Watchdog \/ Leave PROVE Clock'
  OBVIOUS
<1>1. CASE WatchBegins
  <2>1. news' \in BOOLEAN /\ ~news'
    BY <1>1, Zenon DEF WatchBegins
  <2> QED BY <1>1, <2>1, VoiceAssumption
          DEF WatchBegins, stt, audio, Clock, ClockTypeOK, Started, Counted
<1>2. CASE WatchGivesUp
  BY <1>2, ClockForgotten DEF WatchGivesUp, stt
<1>3. CASE PollBlind
  <2>1. wasUp' \in BOOLEAN /\ ~wasUp'
    BY <1>3, Zenon DEF PollBlind
  <2>2. strikes > 0 => Floor(strikes) \in Nat
    BY NeverIsOldest, VoiceAssumption DEF Clock, ClockTypeOK
  <2>3. /\ wd = "watching" /\ nap = 0 /\ nap' = Poll /\ calm' = 0
        /\ UNCHANGED <<pc, first, closer, wd, quiet, burst, flow, heard, news, base, strikes>>
        /\ UNCHANGED <<turn, busy>>
    BY <1>3 DEF PollBlind, Polls, stt, audio, speech
  <2>4. ClockTypeOK' /\ Started'
    BY <2>1, <2>3, NeverIsOldest, VoiceAssumption DEF Clock, ClockTypeOK, Started
  <2>5. Counted'
    <3>1. strikes > 0 /\ ~news => heard >= Floor(strikes) + Poll
      BY <2>3, VoiceAssumption DEF Clock, Counted
    <3>2. strikes > 0 /\ ~news => heard >= Floor(strikes) + 0
      BY <2>2, <3>1, NeverIsOldest, VoiceAssumption DEF Clock, ClockTypeOK
    <3>3. Poll - nap' = 0
      BY <2>3, VoiceAssumption
    <3> QED BY <2>1, <2>3, <3>2, <3>3 DEF Clock, Counted
  <2> QED BY <2>4, <2>5 DEF Clock
<1>4. CASE PollUp
  BY <1>4, ClockPoll
<1>5. CASE CloseBegins /\ Forget
  BY <1>5, ClockForgotten DEF CloseBegins
<1>6. CASE Notified /\ strikes < MaxStrikes
  <2>1. strikes > 0 => Floor(strikes) \in Nat
    BY NeverIsOldest, VoiceAssumption DEF Clock, ClockTypeOK
  <2>2. /\ UNCHANGED <<stt, audio, speech, base, wasUp, strikes, calm, turn, busy>>
        /\ wd = "notifying" /\ wd' = "watching" /\ nap' = Poll
    BY <1>6, VoiceAssumption DEF Notified, Clock, ClockTypeOK
  <2> QED BY <1>6, <2>1, <2>2, VoiceAssumption
          DEF stt, audio, speech, Clock, ClockTypeOK, Started, Counted
<1> QED BY <1>1, <1>2, <1>3, <1>4, <1>5, <1>6, VoiceAssumption
        DEF Watchdog, Leave, Ends, Notified, Clock, ClockTypeOK

-----------------------------------------------------------------------------
(* The theorems.                                                           *)

Inv == Adapted /\ Clock

LEMMA Inductive == Inv /\ [Next]_vars => Inv'
<1> SUFFICES ASSUME Inv, [Next]_vars PROVE Inv'
  OBVIOUS
<1>1. Adapted'
  BY AdaptedNext DEF Inv
<1>2. CASE Next
  BY <1>1, <1>2, ClockAdapter, ClockClient, ClockTick, ClockWatchdog DEF Inv, Next
<1>3. CASE UNCHANGED vars
  BY <1>1, <1>3 DEF Inv, vars, stt, audio, speech, watch, Clock, ClockTypeOK, Started, Counted
<1> QED BY <1>2, <1>3

LEMMA InvHolds == Spec => []Inv
<1>1. Init => Inv
  BY AdaptedInit, ClockInit DEF Init, Inv
<1> QED BY <1>1, Inductive, PTL DEF Spec

\* No attempt to connect starts over an open socket, and a session that is over leaves none
\* behind, whatever connect(), the reconnection and the two cancellations were doing.
THEOREM NoSocketIsLeft == Spec => []NoSocketLeft
<1>1. Inv => NoSocketLeft
  BY DEF Inv, Adapted, Link, Clock, ClockTypeOK, NoSocketLeft, TypeOK
<1> QED BY <1>1, InvHolds, PTL

\* A session whose adapter stopped listening says DEGRADED, unless the transcriber ended the
\* connection cleanly or a send met the closed connection first.
THEOREM DropsAreKnown == Spec => []DropIsKnown
<1>1. Inv => DropIsKnown
  BY DEF Inv, Adapted, Link, DropIsKnown
<1> QED BY <1>1, InvHolds, PTL

\* For every poll interval, timeout and number of strikes, the watchdog's strikes count seconds
\* in which the client spoke and was not transcribed, and no poll within the timeout met a turn,
\* an outage or a busy transcriber, but for an outage hidden by a transcription from before it.
THEOREM EveryStrikeIsEarned == Spec => StrikesAreEarned
<1> DEFINE Earned ==
      strikes' > strikes =>
        /\ strikes' = strikes + 1 \/ strikes' = 1
        /\ state = "CONNECTED" /\ ~busy /\ ~turn
        /\ quiet <= Gap /\ flow > Timeout /\ (calm > Timeout \/ Overlooked)
        /\ heard > Timeout + (strikes' - 1) * Poll
<1>1. ASSUME Inv, [Next]_vars PROVE [Earned]_vars
  <2> SUFFICES ASSUME strikes' > strikes PROVE Earned
    OBVIOUS
  <2>1. strikes \in Nat /\ ~(strikes > strikes) /\ ~(0 > strikes)
    BY <1>1, VoiceAssumption DEF Inv, Clock, ClockTypeOK
  <2>2. PollUp
    BY <1>1, <2>1 DEF Next, vars, Adapter, AudioFrame, EndOfSpeech, Heard, Status, Turn, Tick,
       Watchdog, WatchBegins, WatchGivesUp, PollBlind, Notified, Leave, Ends, Forget, watch
  <2>3. Strike
    BY <2>1, <2>2 DEF PollUp, SoFar
  <2>4. strikes' = SoFar + 1
    BY <2>2, <2>3 DEF PollUp
  <2>5. heard > Timeout + (strikes' - 1) * Poll
    <3>1. heard >= Floor(strikes') /\ strikes' \in 1..MaxStrikes /\ Floor(strikes') \in Nat
      BY <1>1, <2>2, <2>3, <2>4, StrikeReads, NeverIsOldest, VoiceAssumption DEF Inv
    <3> DEFINE span == (strikes' - 1) * Poll
    <3>2. Floor(strikes') = Timeout + span + 1 /\ span \in Int
      BY <3>1, VoiceAssumption DEF Floor
    <3>3. heard \in Nat
      BY <1>1, NeverIsOldest DEF Inv, Clock, ClockTypeOK
    <3> HIDE DEF span
    <3>4. heard > Timeout + span
      BY <3>1, <3>2, <3>3, VoiceAssumption
    <3> QED BY <3>4 DEF span
  <2> QED BY <1>1, <2>1, <2>2, <2>3, <2>4, <2>5, StrikeReads DEF Inv
<1> QED BY <1>1, InvHolds, PTL DEF Spec, StrikesAreEarned

-----------------------------------------------------------------------------
(* Text to speech.                                                         *)

\* What the constants are.
LEMMA Numbers ==
  /\ Probe \notin Streams /\ IsFiniteSet(Streams)
  /\ MaxStreams \in Nat /\ MaxBuffer \in Nat /\ MaxLevel \in Nat /\ MaxStarts \in Nat
  /\ MaxText \in Nat /\ MaxAudio \in Nat /\ MaxMsgs \in Nat
BY TtsAssumption DEF MaxMsgs

-----------------------------------------------------------------------------
(* The gate and what it records.                                           *)

\* The gate is of its type; no token is after the last start, and one after the marker is fresh.
Tokens ==
  /\ gate \in [started : 0..MaxStarts, marker : 0..MaxStarts, level : 0..MaxLevel]
  /\ token \in [Attempts -> 0..MaxStarts]
  /\ gate.marker <= gate.started
  /\ \A a \in Attempts : token[a] <= gate.started /\ (token[a] > gate.marker => a \in fresh)

\* What the gate and the provider record is of its type, and the tokens are in order.
Provided ==
  /\ Tokens /\ fresh \subseteq Attempts /\ terminal \in BOOLEAN
  /\ health \in {"CONNECTED", "RECONNECTING", "DEGRADED"}

\* What an attempt may report, all its outcomes together.
Outcome(a) == \/ RecordFailure(a) \/ CapacityClose(a) \/ MarkAuthFailed
              \/ RecordSuccess \/ NothingRecorded

\* Whatever is reported, the gate keeps its types and its tokens: an attempt whose token is after
\* the marker is one that began after the last outcome that counted.
LEMMA OutcomeKeeps ==
  ASSUME Provided, NEW a \in Attempts, Outcome(a),
         token' = token \/ \E s \in Streams : token' = [token EXCEPT ![s] = 0]
  PROVE  Provided'
<1>1. /\ token' \in [Attempts -> 0..MaxStarts]
      /\ \A b \in Attempts : token'[b] = token[b] \/ token'[b] = 0
  BY Numbers DEF Provided, Tokens, Attempts
<1>2. CASE UNCHANGED <<gate, fresh>>
  <2>1. Tokens'
    BY <1>1, <1>2, Numbers DEF Provided, Tokens
  <2> QED BY <2>1, <1>2 DEF Outcome, RecordFailure, CapacityClose, MarkAuthFailed, RecordSuccess,
                            NothingRecorded, Provided
<1>3. ASSUME gate'.marker = gate.started, gate'.started = gate.started, fresh' = {},
             gate' \in [started : 0..MaxStarts, marker : 0..MaxStarts, level : 0..MaxLevel]
      PROVE  Tokens'
  BY <1>1, <1>3, Numbers DEF Provided, Tokens
<1>4. ASSUME GateFails(a), Applies(a) PROVE Tokens' /\ fresh' \subseteq Attempts
  <2>1. gate' = [gate EXCEPT !.marker = gate.started,
                             !.level = IF @ < MaxLevel THEN @ + 1 ELSE @]
    BY <1>4 DEF GateFails
  <2> DEFINE level == IF gate.level < MaxLevel THEN gate.level + 1 ELSE gate.level
  <2>3. level \in 0..MaxLevel /\ gate.started \in 0..MaxStarts
    BY Numbers DEF Provided, Tokens
  <2>4. gate' = [started |-> gate.started, marker |-> gate.started, level |-> level]
    BY <2>1 DEF Provided, Tokens
  <2>2. gate' \in [started : 0..MaxStarts, marker : 0..MaxStarts, level : 0..MaxLevel]
    BY <2>3, <2>4
  <2> QED BY <2>1, <2>2, <1>3, <1>4 DEF GateFails, Provided, Tokens
<1>5. ASSUME RecordSuccess, ~terminal PROVE Tokens' /\ fresh' \subseteq Attempts
  <2>1. gate' = [gate EXCEPT !.marker = gate.started, !.level = 0]
    BY <1>5 DEF RecordSuccess
  <2>3. 0 \in 0..MaxLevel /\ gate.started \in 0..MaxStarts
    BY Numbers DEF Provided, Tokens
  <2>4. gate' = [started |-> gate.started, marker |-> gate.started, level |-> 0]
    BY <2>1 DEF Provided, Tokens
  <2>2. gate' \in [started : 0..MaxStarts, marker : 0..MaxStarts, level : 0..MaxLevel]
    BY <2>3, <2>4
  <2> QED BY <2>1, <2>2, <1>3, <1>5 DEF RecordSuccess, Provided, Tokens
<1>6. CASE RecordFailure(a)
  BY <1>2, <1>4, <1>6 DEF RecordFailure, GateFails, Provided
<1>7. CASE CapacityClose(a)
  BY <1>2, <1>4, <1>7 DEF CapacityClose, GateFails, Provided
<1>8. CASE MarkAuthFailed
  BY <1>2, <1>8 DEF MarkAuthFailed, Provided
<1>9. CASE RecordSuccess
  BY <1>2, <1>5, <1>9 DEF RecordSuccess, Provided
<1>10. CASE NothingRecorded
  BY <1>2, <1>10 DEF NothingRecorded, Provided
<1> QED BY <1>6, <1>7, <1>8, <1>9, <1>10 DEF Outcome

\* A new attempt has the next token and is fresh.
LEMMA BeginsKeeps ==
  ASSUME Provided, NEW a \in Attempts, Begins(a)
  PROVE  fresh' \subseteq Attempts /\ Tokens'
<1>1. /\ gate' = [gate EXCEPT !.started = @ + 1] /\ gate.started < MaxStarts
      /\ token' = [token EXCEPT ![a] = gate.started + 1] /\ fresh' = fresh \cup {a}
  BY DEF Begins
<1>2. gate' \in [started : 0..MaxStarts, marker : 0..MaxStarts, level : 0..MaxLevel]
      /\ gate'.started = gate.started + 1 /\ gate'.marker = gate.marker
  BY <1>1, Numbers DEF Provided, Tokens
<1>3. /\ token' \in [Attempts -> 0..MaxStarts] /\ token'[a] = gate.started + 1
      /\ \A b \in Attempts \ {a} : token'[b] = token[b]
  BY <1>1, Numbers DEF Provided, Tokens
<1> QED BY <1>1, <1>2, <1>3, Numbers DEF Provided, Tokens

\* Every step of a stream but its start reports something or nothing, and at most drops its token.
Reports(s) == Outcome(s) /\ (token' = token \/ token' = [token EXCEPT ![s] = 0])

\* The steps of a stream's task, or of a connect() of jota.
LEMMA TaskReports ==
  ASSUME NEW s \in Streams, TaskStep(s) \/ JotaStep(s), ~JotaConnect(s)
  PROVE  Reports(s)
<1>1. ASSUME TaskStarts(s) \/ Opens(s) \/ TakesText(s) \/ Sent(s) \/ SendFails(s) \/ LoopEnds(s)
             \/ NobodyWrites(s) \/ Reopened(s) \/ JotaOpens(s) \/ Listens(s)
      PROVE  Reports(s)
  BY <1>1 DEF Reports, Outcome, NothingRecorded, provider, TaskStarts, Opens, TakesText, Sent,
              SendFails, LoopEnds, NobodyWrites, Reopened, JotaOpens, Listens
<1>2. ASSUME TaskEnds(s) \/ JotaCut(s) \/ JotaClose(s)
      PROVE  Reports(s)
  BY <1>2 DEF Reports, Outcome, NothingRecorded, TaskEnds, Finished, Forgotten, JotaCut, JotaClose
<1>3. CASE TaskCut(s)
  <2>1. CASE task[s] \in {"created", "connecting", "reopening", "closing"}
    BY <1>3, <2>1 DEF Reports, Outcome, NothingRecorded, TaskCut, Finished, Forgotten
  <2>2. CASE task[s] \notin {"created", "connecting", "reopening", "closing"}
    BY <1>3, <2>2 DEF Reports, Outcome, NothingRecorded, TaskCut
  <2> QED BY <2>1, <2>2
<1>4. ASSUME NEW kind \in Kinds, AttemptFails(s, kind)
      PROVE  Reports(s)
  <2>1. Outcome(s)
    BY <1>4 DEF Outcome, AttemptFails, ConnectFailed
  <2> QED BY <2>1, <1>4 DEF Reports, AttemptFails, Finished, Forgotten
<1>5. CASE ReaderEnded(s)
  <2>1. CASE flags[s].closed
    BY <1>5, <2>1 DEF Reports, Outcome, ReaderEnded
  <2>2. CASE ~flags[s].closed
    <3>1. CASE reader[s] = "auth"
      BY <1>5, <2>2, <3>1 DEF Reports, Outcome, ReaderEnded
    <3>2. CASE reader[s] = "capacity"
      BY <1>5, <2>2, <3>2 DEF Reports, Outcome, ReaderEnded
    <3>3. CASE reader[s] \notin {"auth", "capacity"}
      BY <1>5, <2>2, <3>3 DEF Reports, Outcome, ReaderEnded
    <3> QED BY <3>1, <3>2, <3>3
  <2> QED BY <2>1, <2>2
<1>6. CASE JotaAuth(s)
  BY <1>6 DEF Reports, Outcome, JotaAuth
<1>7. CASE JotaFails(s)
  BY <1>7 DEF Reports, Outcome, JotaFails, Forgotten
<1> QED BY <1>1, <1>2, <1>3, <1>4, <1>5, <1>6, <1>7 DEF TaskStep, JotaStep

\* The steps of its client, its reader and its server.
LEMMA ClientReports ==
  ASSUME NEW s \in Streams,
         \/ SendText(s) \/ End(s) \/ Close(s) \/ Audio(s) \/ ServerCloses(s) \/ Reads(s)
         \/ \E outcome \in {"final", "error"} : AudioEnds(s, outcome)
         \/ \E kind \in Kinds : ReaderSees(s, kind)
  PROVE  Reports(s)
<1>1. CASE Audio(s)
  <2>1. CASE Fits(s)
    BY <1>1, <2>1 DEF Reports, Outcome, Audio
  <2>2. CASE ~Fits(s)
    BY <1>1, <2>2 DEF Reports, Outcome, Audio
  <2> QED BY <2>1, <2>2
<1>2. ASSUME SendText(s) \/ End(s) \/ Close(s) \/ ServerCloses(s) \/ Reads(s)
      PROVE  Reports(s)
  BY <1>2 DEF Reports, Outcome, NothingRecorded, provider, SendText, End, Close, ServerCloses,
              Reads
<1>3. ASSUME NEW outcome \in {"final", "error"}, AudioEnds(s, outcome)
      PROVE  Reports(s)
  BY <1>3 DEF Reports, Outcome, NothingRecorded, provider, AudioEnds
<1>4. ASSUME NEW kind \in Kinds, ReaderSees(s, kind)
      PROVE  Reports(s)
  BY <1>4 DEF Reports, Outcome, NothingRecorded, provider, ReaderSees
<1> QED BY <1>1, <1>2, <1>3, <1>4

\* No step breaks the gate.
LEMMA ProvidedNext == Provided /\ [TtsNext]_ttsVars => Provided'
<1> SUFFICES ASSUME Provided, [TtsNext]_ttsVars PROVE Provided'
  OBVIOUS
<1>1. ASSUME NEW s \in Streams, Reports(s) PROVE Provided'
  BY <1>1, OutcomeKeeps DEF Reports, Attempts
<1>2. ASSUME NEW s \in Streams, Connect(s) \/ JotaConnect(s) PROVE Provided'
  BY <1>2, BeginsKeeps DEF Connect, JotaConnect, Attempts, Provided
<1>3. CASE ProbeStarts
  BY <1>3, BeginsKeeps DEF ProbeStarts, Attempts, Provided
<1>4. CASE ProbeEnds
  <2>1. Outcome(Probe) /\ token' = token
    BY <1>4 DEF ProbeEnds, Outcome, ConnectFailed
  <2> QED BY <2>1, OutcomeKeeps DEF Attempts
<1>5. CASE Refused
  <2>1. /\ gate' = [gate EXCEPT !.started = @ + 1] /\ gate.started < MaxStarts
        /\ UNCHANGED <<token, fresh, terminal, health>>
    BY <1>5 DEF Refused
  <2>2. gate' \in [started : 0..MaxStarts, marker : 0..MaxStarts, level : 0..MaxLevel]
        /\ gate'.started = gate.started + 1 /\ gate'.marker = gate.marker
    BY <2>1, Numbers DEF Provided, Tokens
  <2> QED BY <2>1, <2>2, Numbers DEF Provided, Tokens
<1>6. CASE UNCHANGED ttsVars
  BY <1>6 DEF ttsVars, provider, Provided, Tokens
<1> QED BY <1>1, <1>2, <1>3, <1>4, <1>5, <1>6, TaskReports, ClientReports DEF TtsNext, JotaStep
-----------------------------------------------------------------------------
(* Where the attempts are.                                                 *)

\* The types of the streams.
Streaming ==
  /\ adapter \in {"elevenlabs", "jota"}
  /\ task \in [Attempts -> {"none", "created", "connecting", "auth", "failing", "open", "sending",
                            "serving", "reader", "reopening", "closing", "done"}]
  /\ cancelled \in [Streams -> BOOLEAN]
  /\ ws \in [Streams -> {"none", "open", "dropped"}]
  /\ reader \in [Streams -> Ended \cup {"none", "spawned", "live", "cancelled"}]
  /\ flags \in [Streams -> [closed : BOOLEAN, reopened : BOOLEAN, heard : BOOLEAN]]
  /\ buffered \in [Streams -> 0..MaxBuffer] /\ over \in [Streams -> BOOLEAN]
  /\ played \in 0..MaxAudio

\* Where a stream of either provider may be.
ElevenPcs == {"none", "created", "connecting", "sending", "serving", "reader", "reopening",
              "closing", "done"}
JotaPcs   == {"none", "connecting", "auth", "failing", "open", "done"}

\* A stream that is done is closed; a stream of ElevenLabs ends its audio when its task is done,
\* not before, and no reader outlives _serve; of jota the reader ends the audio.
PlaceOf(s) ==
  /\ task[s] \in IF Eleven THEN ElevenPcs ELSE JotaPcs
  /\ cancelled[s] => Eleven /\ task[s] \notin {"none", "done"}
  /\ task[s] = "done" => flags[s].closed
  /\ Eleven => /\ over[s] <=> task[s] = "done"
               /\ reader[s] # "spawned"
               /\ reader[s] = "live" => task[s] \in {"sending", "serving", "reader"}
  /\ Jota /\ over[s] => reader[s] \in Ended \cup {"cancelled"}
Placed == task[Probe] \in {"none", "connecting"} /\ \A s \in Streams : PlaceOf(s)

\* The streams that have a slot, and how many slots are left.
Holding == {s \in Streams : task[s] \notin {"none", "done"}}
Slots ==
  /\ sem \in 0..MaxStreams
  /\ IF Eleven THEN sem + Cardinality(Holding) = MaxStreams ELSE sem = MaxStreams

\* Every step keeps them.
LEMMA StreamingNext == Streaming /\ [TtsNext]_ttsVars => Streaming'
<1> SUFFICES ASSUME Streaming, [TtsNext]_ttsVars PROVE Streaming'
  OBVIOUS
<1> USE Numbers DEF To, provider, streams, Streaming, Attempts, Ended
<1>0. CASE UNCHANGED ttsVars
  BY <1>0 DEF ttsVars
<1>1. ASSUME NEW s \in Streams, Connect(s) PROVE Streaming'
  BY <1>1 DEF Connect
<1>2. ASSUME NEW s \in Streams, SendText(s) PROVE Streaming'
  BY <1>2 DEF SendText, Accepting
<1>3. ASSUME NEW s \in Streams, End(s) PROVE Streaming'
  BY <1>3 DEF End, Accepting
<1>4. ASSUME NEW s \in Streams, Close(s) PROVE Streaming'
  BY <1>4 DEF Close
<1>5. ASSUME NEW s \in Streams, TaskStarts(s) PROVE Streaming'
  BY <1>5 DEF TaskStarts
<1>6. ASSUME NEW s \in Streams, Opens(s) PROVE Streaming'
  BY <1>6 DEF Opens
<1>7. ASSUME NEW s \in Streams, NEW kind \in Kinds, AttemptFails(s, kind) PROVE Streaming'
  BY <1>7 DEF AttemptFails, Finished, Forgotten, Shut
<1>8. ASSUME NEW s \in Streams, TakesText(s) PROVE Streaming'
  BY <1>8 DEF TakesText, Serving
<1>9. ASSUME NEW s \in Streams, Sent(s) PROVE Streaming'
  BY <1>9 DEF Sent
<1>10. ASSUME NEW s \in Streams, SendFails(s) PROVE Streaming'
  BY <1>10 DEF SendFails, Requeued
<1>11. ASSUME NEW s \in Streams, LoopEnds(s) PROVE Streaming'
  BY <1>11 DEF LoopEnds, Serving
<1>12. ASSUME NEW s \in Streams, NobodyWrites(s) PROVE Streaming'
  BY <1>12 DEF NobodyWrites, Serving, StopsReader
<1>13. ASSUME NEW s \in Streams, ReaderEnded(s) PROVE Streaming'
  BY <1>13 DEF ReaderEnded
<1>14. ASSUME NEW s \in Streams, Reopened(s) PROVE Streaming'
  BY <1>14 DEF Reopened
<1>15. ASSUME NEW s \in Streams, TaskEnds(s) PROVE Streaming'
  BY <1>15 DEF TaskEnds, Finished, Forgotten, Shut
<1>16. ASSUME NEW s \in Streams, TaskCut(s) PROVE Streaming'
  <2>1. CASE task[s] \in {"created", "connecting", "reopening", "closing"}
    <3>1. Finished(s) /\ UNCHANGED <<adapter, reader, played>>
      BY <1>16, <2>1 DEF TaskCut
    <3> QED BY <3>1 DEF Finished, Forgotten, Shut
  <2>2. CASE task[s] \notin {"created", "connecting", "reopening", "closing"}
    BY <1>16, <2>2 DEF TaskCut, StopsReader
  <2> QED BY <2>1, <2>2
<1>17. ASSUME NEW s \in Streams, JotaConnect(s) PROVE Streaming'
  BY <1>17 DEF JotaConnect
<1>18. ASSUME NEW s \in Streams, JotaOpens(s) PROVE Streaming'
  BY <1>18 DEF JotaOpens
<1>19. ASSUME NEW s \in Streams, JotaAuth(s) PROVE Streaming'
  BY <1>19 DEF JotaAuth
<1>20. ASSUME NEW s \in Streams, JotaFails(s) PROVE Streaming'
  BY <1>20 DEF JotaFails, Forgotten, Shut
<1>21. ASSUME NEW s \in Streams, JotaCut(s) PROVE Streaming'
  BY <1>21 DEF JotaCut, Forgotten, Shut
<1>22. ASSUME NEW s \in Streams, Listens(s) PROVE Streaming'
  BY <1>22 DEF Listens
<1>23. ASSUME NEW s \in Streams, JotaClose(s) PROVE Streaming'
  BY <1>23 DEF JotaClose, Forgotten, Shut
<1>24. ASSUME NEW s \in Streams, Audio(s) PROVE Streaming'
  <2>1. /\ UNCHANGED <<adapter, task, cancelled, ws>> /\ played' \in 0..MaxAudio
    BY <1>24 DEF Audio
  <2>2. CASE Fits(s)
    <3>1. buffered' \in [Streams -> 0..MaxBuffer] /\ UNCHANGED <<reader, over>>
      BY <1>24, <2>2 DEF Audio, Fits
    <3>2. flags' = [flags EXCEPT ![s].heard = Eleven]
      BY <1>24, <2>2 DEF Audio
    <3>3. flags' \in [Streams -> [closed : BOOLEAN, reopened : BOOLEAN, heard : BOOLEAN]]
      BY <3>2 DEF Eleven
    <3> QED BY <2>1, <3>1, <3>3
  <2>3. CASE ~Fits(s)
    <3>1. UNCHANGED <<buffered, flags>>
      BY <1>24, <2>3 DEF Audio
    <3>2. /\ reader' \in [Streams -> Ended \cup {"none", "spawned", "live", "cancelled"}]
          /\ over' \in [Streams -> BOOLEAN]
      BY <1>24, <2>3 DEF Audio, ReaderEnds, Jota
    <3> QED BY <2>1, <3>1, <3>2
  <2> QED BY <2>2, <2>3
<1>25. ASSUME NEW s \in Streams, ServerCloses(s) PROVE Streaming'
  BY <1>25 DEF ServerCloses
<1>26. ASSUME NEW s \in Streams, Reads(s) PROVE Streaming'
  BY <1>26 DEF Reads
<1>27. ASSUME NEW s \in Streams, NEW outcome \in {"final", "error"}, AudioEnds(s, outcome)
       PROVE  Streaming'
  BY <1>27 DEF AudioEnds, ReaderEnds
<1>28. ASSUME NEW s \in Streams, NEW kind \in Kinds, ReaderSees(s, kind) PROVE Streaming'
  BY <1>28 DEF ReaderSees, ReaderEnds, Kinds
<1>29. CASE Refused
  BY <1>29 DEF Refused
<1>30. CASE ProbeStarts
  BY <1>30 DEF ProbeStarts
<1>31. CASE ProbeEnds
  BY <1>31 DEF ProbeEnds
<1> QED BY <1>0, <1>1, <1>2, <1>3, <1>4, <1>5, <1>6, <1>7, <1>8, <1>9, <1>10, <1>11, <1>12, <1>13,
       <1>14, <1>15, <1>16, <1>17, <1>18, <1>19, <1>20, <1>21, <1>22, <1>23, <1>24, <1>25, <1>26,
       <1>27, <1>28, <1>29, <1>30, <1>31 DEF TtsNext, TaskStep, JotaStep

\* Every step keeps to the places.
LEMMA PlacedNext == Streaming /\ Placed /\ [TtsNext]_ttsVars => Placed'
<1> SUFFICES ASSUME Streaming /\ Placed, [TtsNext]_ttsVars PROVE Placed'
  OBVIOUS
<1> USE Numbers DEF To, provider, streams, Streaming, Placed, PlaceOf, Eleven, Jota,
                ElevenPcs, JotaPcs, Attempts, Ended
<1>0. CASE UNCHANGED ttsVars
  BY <1>0 DEF ttsVars
<1>1. ASSUME NEW s \in Streams, Connect(s) PROVE Placed'
  BY <1>1 DEF Connect
<1>2. ASSUME NEW s \in Streams, SendText(s) PROVE Placed'
  BY <1>2 DEF SendText, Accepting
<1>3. ASSUME NEW s \in Streams, End(s) PROVE Placed'
  BY <1>3 DEF End, Accepting
<1>4. ASSUME NEW s \in Streams, Close(s) PROVE Placed'
  BY <1>4 DEF Close
<1>5. ASSUME NEW s \in Streams, TaskStarts(s) PROVE Placed'
  BY <1>5 DEF TaskStarts
<1>6. ASSUME NEW s \in Streams, Opens(s) PROVE Placed'
  BY <1>6 DEF Opens
<1>7. ASSUME NEW s \in Streams, NEW kind \in Kinds, AttemptFails(s, kind) PROVE Placed'
  BY <1>7 DEF AttemptFails, Finished, Forgotten, Shut
<1>8. ASSUME NEW s \in Streams, TakesText(s) PROVE Placed'
  BY <1>8 DEF TakesText, Serving
<1>9. ASSUME NEW s \in Streams, Sent(s) PROVE Placed'
  BY <1>9 DEF Sent
<1>10. ASSUME NEW s \in Streams, SendFails(s) PROVE Placed'
  BY <1>10 DEF SendFails, Requeued
<1>11. ASSUME NEW s \in Streams, LoopEnds(s) PROVE Placed'
  BY <1>11 DEF LoopEnds, Serving
<1>12. ASSUME NEW s \in Streams, NobodyWrites(s) PROVE Placed'
  BY <1>12 DEF NobodyWrites, Serving, StopsReader
<1>13. ASSUME NEW s \in Streams, ReaderEnded(s) PROVE Placed'
  BY <1>13 DEF ReaderEnded
<1>14. ASSUME NEW s \in Streams, Reopened(s) PROVE Placed'
  BY <1>14 DEF Reopened
<1>15. ASSUME NEW s \in Streams, TaskEnds(s) PROVE Placed'
  BY <1>15 DEF TaskEnds, Finished, Forgotten, Shut
<1>16. ASSUME NEW s \in Streams, TaskCut(s) PROVE Placed'
  BY <1>16 DEF TaskCut, Finished, Forgotten, StopsReader, Shut
<1>17. ASSUME NEW s \in Streams, JotaConnect(s) PROVE Placed'
  BY <1>17 DEF JotaConnect
<1>18. ASSUME NEW s \in Streams, JotaOpens(s) PROVE Placed'
  BY <1>18 DEF JotaOpens
<1>19. ASSUME NEW s \in Streams, JotaAuth(s) PROVE Placed'
  BY <1>19 DEF JotaAuth
<1>20. ASSUME NEW s \in Streams, JotaFails(s) PROVE Placed'
  BY <1>20 DEF JotaFails, Forgotten, Shut
<1>21. ASSUME NEW s \in Streams, JotaCut(s) PROVE Placed'
  BY <1>21 DEF JotaCut, Forgotten, Shut
<1>22. ASSUME NEW s \in Streams, Listens(s) PROVE Placed'
  BY <1>22 DEF Listens
<1>23. ASSUME NEW s \in Streams, JotaClose(s) PROVE Placed'
  BY <1>23 DEF JotaClose, Forgotten, Shut
<1>24. ASSUME NEW s \in Streams, Audio(s) PROVE Placed'
  BY <1>24 DEF Audio, Fits, ReaderEnds
<1>25. ASSUME NEW s \in Streams, ServerCloses(s) PROVE Placed'
  BY <1>25 DEF ServerCloses
<1>26. ASSUME NEW s \in Streams, Reads(s) PROVE Placed'
  BY <1>26 DEF Reads
<1>27. ASSUME NEW s \in Streams, NEW outcome \in {"final", "error"}, AudioEnds(s, outcome)
       PROVE  Placed'
  BY <1>27 DEF AudioEnds, ReaderEnds
<1>28. ASSUME NEW s \in Streams, NEW kind \in Kinds, ReaderSees(s, kind) PROVE Placed'
  BY <1>28 DEF ReaderSees, ReaderEnds, Kinds
<1>29. CASE Refused
  BY <1>29 DEF Refused
<1>30. CASE ProbeStarts
  BY <1>30 DEF ProbeStarts
<1>31. CASE ProbeEnds
  BY <1>31 DEF ProbeEnds
<1> QED BY <1>0, <1>1, <1>2, <1>3, <1>4, <1>5, <1>6, <1>7, <1>8, <1>9, <1>10, <1>11, <1>12, <1>13,
       <1>14, <1>15, <1>16, <1>17, <1>18, <1>19, <1>20, <1>21, <1>22, <1>23, <1>24, <1>25, <1>26,
       <1>27, <1>28, <1>29, <1>30, <1>31 DEF TtsNext, TaskStep, JotaStep

-----------------------------------------------------------------------------
(* Slots.                                                                  *)

\* They are finitely many.
LEMMA HoldingFinite == IsFiniteSet(Holding) /\ Cardinality(Holding) \in Nat
BY Numbers, FS_Subset, FS_CardinalityType DEF Holding

\* Nobody takes or leaves a slot.
LEMMA SlotsStay ==
  ASSUME Slots, sem' = sem, adapter' = adapter,
         \A o \in Streams : task'[o] \in {"none", "done"} <=> task[o] \in {"none", "done"}
  PROVE  Slots'
<1>1. Holding' = Holding
  BY DEF Holding
<1> QED BY <1>1 DEF Slots, Eleven

\* Of a stream of jota nobody counts.
LEMMA SlotsOfJota == Slots /\ Jota /\ UNCHANGED <<adapter, sem>> => Slots'
BY DEF Slots, Jota, Eleven

\* A stream that connects takes one.
LEMMA SlotTaken ==
  ASSUME Slots, Streaming, NEW s \in Streams, Connect(s)
  PROVE  Slots'
<1>1. /\ Eleven /\ adapter' = adapter /\ sem > 0 /\ sem' = sem - 1 /\ task[s] = "none"
      /\ task' = [task EXCEPT ![s] = "created"]
  BY DEF Connect, To
<1>2. Holding' = Holding \cup {s} /\ s \notin Holding
  BY <1>1 DEF Holding, Streaming, Attempts
<1>3. Cardinality(Holding') = Cardinality(Holding) + 1
  BY <1>2, HoldingFinite, FS_AddElement
<1> QED BY <1>1, <1>3, HoldingFinite, Numbers DEF Slots, Eleven

\* Whatever a stream dies of, its slot comes back.
LEMMA SlotReturned ==
  ASSUME Slots, Streaming, NEW s \in Streams, Finished(s), adapter' = adapter, Eleven,
         task[s] \notin {"none", "done"}
  PROVE  Slots'
<1>1. sem' = sem + 1 /\ task' = [task EXCEPT ![s] = "done"]
  BY DEF Finished, Released, To
<1>2. Holding' = Holding \ {s} /\ s \in Holding
  BY <1>1 DEF Holding, Streaming, Attempts
<1>3. Cardinality(Holding') = Cardinality(Holding) - 1
  BY <1>2, HoldingFinite, FS_RemoveElement
<1>4. IsFiniteSet(Holding') /\ Cardinality(Holding') \in Nat
  BY <1>2, HoldingFinite, FS_RemoveElement, FS_CardinalityType
<1> QED BY <1>1, <1>3, <1>4, HoldingFinite, Numbers DEF Slots, Eleven

\* No step loses a slot or gives one back twice.
LEMMA SlotsNext == Streaming /\ Placed /\ Slots /\ [TtsNext]_ttsVars => Slots'
<1> SUFFICES ASSUME Streaming, Placed, Slots, [TtsNext]_ttsVars PROVE Slots'
  OBVIOUS
<1>1. CASE UNCHANGED ttsVars
  BY <1>1, SlotsStay DEF ttsVars, provider, streams
<1>2. ASSUME NEW s \in Streams, JotaConnect(s) \/ JotaOpens(s) \/ JotaFails(s) \/ JotaCut(s)
      PROVE  Slots'
  BY <1>2, SlotsOfJota DEF JotaConnect, JotaOpens, JotaFails, JotaCut, provider
<1>3. ASSUME NEW s \in Streams, JotaAuth(s) \/ Listens(s) \/ JotaClose(s)
      PROVE  Slots'
  <2>1. Jota /\ UNCHANGED <<adapter, sem>>
    BY <1>3 DEF JotaAuth, Listens, JotaClose, provider, Placed, PlaceOf, Streaming, Eleven, Jota,
                ElevenPcs
  <2> QED BY <2>1, SlotsOfJota
<1>4. ASSUME NEW s \in Streams, UNCHANGED <<adapter, provider, task>> PROVE Slots'
  BY <1>4, SlotsStay DEF provider
<1>5. ASSUME NEW s \in Streams,
             \/ SendText(s) \/ End(s) \/ Close(s) \/ ServerCloses(s) \/ Reads(s)
             \/ \E outcome \in {"final", "error"} : AudioEnds(s, outcome)
             \/ \E kind \in Kinds : ReaderSees(s, kind)
      PROVE  Slots'
  BY <1>4, <1>5 DEF SendText, End, Close, ServerCloses, Reads, AudioEnds, ReaderSees
<1>6. ASSUME NEW s \in Streams, Audio(s) PROVE Slots'
  BY <1>6, SlotsStay DEF Audio
<1>7. ASSUME NEW s \in Streams, Connect(s) PROVE Slots'
  BY <1>7, SlotTaken
<1>8. ASSUME NEW s \in Streams,
             \/ TaskStarts(s) \/ Opens(s) \/ TakesText(s) \/ Sent(s) \/ SendFails(s)
             \/ LoopEnds(s) \/ NobodyWrites(s) \/ ReaderEnded(s) \/ Reopened(s)
      PROVE  Slots'
  <2>1. UNCHANGED <<adapter, sem>> /\ task[s] \notin {"none", "done"}
    BY <1>8 DEF TaskStarts, Opens, TakesText, Sent, SendFails, LoopEnds, NobodyWrites,
                ReaderEnded, Reopened, Serving, provider
  <2>2. \E place : place \notin {"none", "done"} /\ task' = [task EXCEPT ![s] = place]
    BY <1>8 DEF TaskStarts, Opens, TakesText, Sent, SendFails, LoopEnds, NobodyWrites,
                ReaderEnded, Reopened, To
  <2>3. \A o \in Streams : task'[o] \in {"none", "done"} <=> task[o] \in {"none", "done"}
    BY <2>1, <2>2 DEF Streaming, Attempts
  <2> QED BY <2>1, <2>3, SlotsStay
<1>9. ASSUME NEW s \in Streams, (\E kind \in Kinds : AttemptFails(s, kind)) \/ TaskEnds(s)
      PROVE  Slots'
  <2>1. Finished(s) /\ adapter' = adapter /\ Eleven /\ task[s] \notin {"none", "done"}
    BY <1>9 DEF AttemptFails, TaskEnds, Placed, PlaceOf, JotaPcs, Eleven
  <2> QED BY <2>1, SlotReturned
<1>10. ASSUME NEW s \in Streams, TaskCut(s) PROVE Slots'
  <2>1. adapter' = adapter /\ Eleven /\ task[s] \notin {"none", "done"}
    BY <1>10 DEF TaskCut, Placed, PlaceOf, Eleven
  <2>2. CASE task[s] \in {"created", "connecting", "reopening", "closing"}
    BY <1>10, <2>1, <2>2, SlotReturned DEF TaskCut
  <2>3. CASE task[s] \notin {"created", "connecting", "reopening", "closing"}
    <3>1. sem' = sem /\ task' = [task EXCEPT ![s] = "closing"]
      BY <1>10, <2>3 DEF TaskCut, To
    <3> QED BY <2>1, <3>1, SlotsStay DEF Streaming, Attempts
  <2> QED BY <2>2, <2>3
<1>11. CASE Refused \/ ProbeStarts \/ ProbeEnds
  <2>1. UNCHANGED <<adapter, sem>>
    BY <1>11 DEF Refused, ProbeStarts, ProbeEnds
  <2>2. \A o \in Streams : task'[o] = task[o]
    BY <1>11, Numbers DEF Refused, ProbeStarts, ProbeEnds, To, streams, Streaming, Attempts
  <2> QED BY <2>1, <2>2, SlotsStay
<1> QED BY <1>1, <1>2, <1>3, <1>5, <1>6, <1>7, <1>8, <1>9, <1>10, <1>11
        DEF TtsNext, TaskStep, JotaStep

-----------------------------------------------------------------------------
(* Text.                                                                   *)

\* How many messages have left the queue: the w written and the one in hand, if there is one.
Gone(w, h) == IF h = 0 THEN Len(w) ELSE Len(w) + 1

\* The messages written, the one in hand and the queue q follow each other.
Line(w, h, q) ==
  /\ \A i \in 1..Len(w) : w[i] = i
  /\ h # 0 => h = Len(w) + 1
  /\ \A i \in 1..Len(q) : q[i] = Gone(w, h) + i

\* Sequences of messages.
Words == Seq(1..MaxMsgs)

\* What is taken from a queue and what it leaves.
LEMMA HeadAndTail ==
  ASSUME NEW S, NEW q \in Seq(S), q # <<>>
  PROVE  Head(q) \in S /\ Tail(q) \in Seq(S)
OBVIOUS

\* It is a number.
LEMMA GoneIsNat ==
  ASSUME NEW w \in Words, NEW h
  PROVE  Gone(w, h) \in Nat /\ Len(w) \in Nat
<1>1. Len(w) \in Nat
  BY DEF Words
<1> QED BY <1>1 DEF Gone

\* One more is accepted.
LEMMA LineAccepts ==
  ASSUME NEW w \in Words, NEW h, NEW q \in Words, NEW m \in 1..MaxMsgs, Line(w, h, q),
         m = Gone(w, h) + Len(q) + 1
  PROVE  Line(w, h, Append(q, m)) /\ Len(Append(q, m)) = Len(q) + 1
<1> DEFINE p == Append(q, m)
           g == Gone(w, h)
<1>1. /\ Len(p) = Len(q) + 1 /\ Len(q) \in Nat /\ p[Len(q) + 1] = m
      /\ \A i \in 1..Len(q) : p[i] = q[i]
  BY GoneIsNat DEF Words
<1>2. g \in Nat
  BY GoneIsNat
<1> HIDE DEF p, g
<1>3. \A i \in 1..Len(p) : p[i] = g + i
  <2> SUFFICES ASSUME NEW i \in 1..Len(p) PROVE p[i] = g + i
    OBVIOUS
  <2>1. CASE i \in 1..Len(q)
    <3>1. q[i] = g + i
      BY <2>1 DEF Line, g
    <3> QED BY <1>1, <2>1, <3>1
  <2>2. CASE i \notin 1..Len(q)
    <3>1. i = Len(q) + 1
      BY <1>1, <2>2
    <3> QED BY <1>1, <1>2, <3>1 DEF g
  <2> QED BY <2>1, <2>2
<1> QED BY <1>1, <1>3 DEF Line, p, g

\* The next message is taken in hand.
LEMMA LineTakes ==
  ASSUME NEW w \in Words, NEW q \in Words, Line(w, 0, q), q # <<>>
  PROVE  /\ Line(w, Head(q), Tail(q)) /\ Head(q) = Len(w) + 1
         /\ Gone(w, Head(q)) + Len(Tail(q)) = Gone(w, 0) + Len(q)
<1> DEFINE p == Tail(q)
           h == Head(q)
<1>1. /\ Len(q) \in Nat /\ Len(q) >= 1 /\ Len(p) = Len(q) - 1 /\ h = q[1]
      /\ \A i \in 1..Len(p) : p[i] = q[i + 1]
  BY DEF Words
<1>2. Len(w) \in Nat /\ Gone(w, 0) = Len(w)
  BY GoneIsNat DEF Gone
<1> HIDE DEF p, h
<1>3. h = Len(w) + 1
  BY <1>1, <1>2 DEF Line
<1>4. Gone(w, h) = Len(w) + 1
  BY <1>2, <1>3 DEF Gone
<1>5. \A i \in 1..Len(p) : p[i] = Gone(w, h) + i
  <2> SUFFICES ASSUME NEW i \in 1..Len(p) PROVE p[i] = Gone(w, h) + i
    OBVIOUS
  <2>1. i + 1 \in 1..Len(q)
    BY <1>1
  <2>2. q[i + 1] = Len(w) + (i + 1)
    BY <1>2, <2>1 DEF Line
  <2> QED BY <1>1, <1>2, <1>4, <2>2
<1>6. Line(w, h, p)
  BY <1>3, <1>5 DEF Line
<1> QED BY <1>1, <1>2, <1>3, <1>4, <1>6 DEF p, h

\* The message in hand is written.
LEMMA LineWrites ==
  ASSUME NEW w \in Words, NEW h \in 1..MaxMsgs, NEW q \in Words, Line(w, h, q)
  PROVE  Line(Append(w, h), 0, q) /\ Gone(Append(w, h), 0) = Gone(w, h)
<1> DEFINE v == Append(w, h)
<1>1. /\ Len(v) = Len(w) + 1 /\ Len(w) \in Nat /\ v[Len(w) + 1] = h
      /\ \A i \in 1..Len(w) : v[i] = w[i]
  BY DEF Words
<1> HIDE DEF v
<1>2. h = Len(w) + 1
  BY Numbers DEF Line
<1>3. Gone(v, 0) = Gone(w, h)
  BY <1>1, <1>2 DEF Gone
<1>4. \A i \in 1..Len(v) : v[i] = i
  <2> SUFFICES ASSUME NEW i \in 1..Len(v) PROVE v[i] = i
    OBVIOUS
  <2>1. CASE i \in 1..Len(w)
    BY <1>1, <2>1 DEF Line
  <2>2. CASE i \notin 1..Len(w)
    BY <1>1, <1>2, <2>2
  <2> QED BY <2>1, <2>2
<1> QED BY <1>3, <1>4 DEF Line, v

\* A message whose write failed goes back to the head of the queue.
LEMMA LineGoesBack ==
  ASSUME NEW w \in Words, NEW h \in 1..MaxMsgs, NEW q \in Words, Line(w, h, q)
  PROVE  /\ Line(w, 0, Requeued(q, h))
         /\ Gone(w, 0) + Len(Requeued(q, h)) = Gone(w, h) + Len(q)
<1> DEFINE p == Requeued(q, h)
<1>1. /\ Len(p) = Len(q) + 1 /\ Len(q) \in Nat /\ p[1] = h
      /\ \A i \in 2..Len(p) : p[i] = q[i - 1]
  BY DEF Words, Requeued
<1> HIDE DEF p
<1>2. h = Len(w) + 1 /\ Len(w) \in Nat /\ h # 0
  BY GoneIsNat, Numbers DEF Line
<1>3. Gone(w, 0) = Len(w) /\ Gone(w, h) = Len(w) + 1
  BY <1>2 DEF Gone
<1>4. \A i \in 1..Len(p) : p[i] = Len(w) + i
  <2> SUFFICES ASSUME NEW i \in 1..Len(p) PROVE p[i] = Len(w) + i
    OBVIOUS
  <2>1. CASE i = 1
    BY <1>1, <1>2, <2>1
  <2>2. CASE i # 1
    <3>1. i - 1 \in 1..Len(q) /\ i \in 2..Len(p)
      BY <1>1, <2>2
    <3>2. q[i - 1] = Len(w) + 1 + (i - 1)
      BY <1>3, <3>1 DEF Line
    <3> QED BY <1>1, <1>2, <3>1, <3>2
  <2> QED BY <2>1, <2>2
<1>5. Line(w, 0, p)
  BY <1>3, <1>4 DEF Line
<1>6. Gone(w, 0) + Len(p) = Gone(w, h) + Len(q)
  <2>1. Len(p) = Len(q) + 1 /\ Len(q) \in Nat /\ Len(w) \in Nat
    BY <1>1, <1>2
  <2> QED BY <1>3, <2>1
<1> QED BY <1>5, <1>6 DEF p

-----------------------------------------------------------------------------
(* The text of a stream.                                                   *)

\* The record of a text, by its parts.
Texts == [pending : Seq(1..MaxMsgs), held : 0..MaxMsgs, accepted : 0..MaxMsgs,
          endAt : 0..MaxMsgs, sent : Seq(1..MaxMsgs)]

\* A text is in line, and until the stream is closed it is all there.
LineOf(s) ==
  /\ Line(text[s].sent, text[s].held, text[s].pending)
  /\ text[s].held # 0 => task[s] \in {"sending", "closing"}
  /\ ~flags[s].closed =>
       Gone(text[s].sent, text[s].held) + Len(text[s].pending) = text[s].accepted
  /\ text[s].endAt = 0 => text[s].accepted <= MaxText

\* All texts are in line.
InLine == text \in [Streams -> Texts] /\ \A s \in Streams : LineOf(s)

\* The types of the parts.
LEMMA TextParts ==
  ASSUME NEW t \in Texts
  PROVE  /\ t.pending \in Words /\ t.sent \in Words
         /\ t.held \in Nat /\ t.accepted \in Nat /\ t.endAt \in Nat
         /\ t.held \in 0..MaxMsgs /\ t.accepted \in 0..MaxMsgs /\ t.endAt \in 0..MaxMsgs
BY Numbers DEF Texts, Words

\* No text at all.
LEMMA NoTextInLine == NoText \in Texts /\ Line(NoText.sent, NoText.held, NoText.pending)
BY Numbers DEF NoText, Texts, Line, Gone

\* The streams whose text does not change.
LEMMA LineStays ==
  ASSUME NEW s \in Streams, LineOf(s), text'[s] = text[s], flags[s].closed => flags'[s].closed,
         task'[s] = task[s] \/ task[s] \notin {"sending", "closing"} \/ task'[s] = "closing"
  PROVE  LineOf(s)'
BY DEF LineOf

\* One stream gets the text t.
LEMMA LineChanges ==
  ASSUME InLine, NEW s \in Streams, NEW t \in Texts, text' = [text EXCEPT ![s] = t],
         \A o \in Streams \ {s} : task'[o] = task[o] /\ flags'[o] = flags[o],
         Line(t.sent, t.held, t.pending), t.held # 0 => task'[s] \in {"sending", "closing"},
         ~flags'[s].closed => Gone(t.sent, t.held) + Len(t.pending) = t.accepted,
         t.endAt = 0 => t.accepted <= MaxText
  PROVE  InLine'
<1>1. text' \in [Streams -> Texts] /\ text'[s] = t /\ \A o \in Streams \ {s} : text'[o] = text[o]
  BY DEF InLine
<1>2. LineOf(s)'
  BY <1>1 DEF LineOf
<1>3. ASSUME NEW o \in Streams \ {s} PROVE LineOf(o)'
  BY <1>1, <1>3, LineStays DEF InLine
<1> QED BY <1>1, <1>2, <1>3 DEF InLine

\* A stream is forgotten.
LEMMA LineForgotten ==
  ASSUME InLine, NEW s \in Streams, text' = [text EXCEPT ![s] = NoText], flags'[s].closed,
         \A o \in Streams \ {s} : task'[o] = task[o] /\ flags'[o] = flags[o]
  PROVE  InLine'
<1>1. NoText.held = 0 /\ NoText.endAt = 0 /\ NoText.accepted = 0 /\ 0 <= MaxText
  BY Numbers DEF NoText
<1> QED BY <1>1, NoTextInLine, LineChanges

\* What is pending is dropped, with the stream closed.
LEMMA LineDropped ==
  ASSUME InLine, NEW s \in Streams, text' = [text EXCEPT ![s].pending = <<>>], flags'[s].closed,
         \A o \in Streams \ {s} : task'[o] = task[o] /\ flags'[o] = flags[o],
         task'[s] = task[s] \/ task'[s] = "closing"
  PROVE  InLine'
<1> PICK t : t = [text[s] EXCEPT !.pending = <<>>]
  OBVIOUS
<1>1. text[s] \in Texts /\ LineOf(s)
  BY DEF InLine
<1>2. <<>> \in Words
  BY DEF Words
<1>5. t \in Texts
  BY <1>1, <1>2 DEF Texts, Words
<1>6. text' = [text EXCEPT ![s] = t]
  BY <1>1 DEF InLine, Texts
<1>3. /\ t.sent = text[s].sent /\ t.held = text[s].held /\ t.pending = <<>>
      /\ t.accepted = text[s].accepted /\ t.endAt = text[s].endAt
  BY <1>1 DEF Texts, Words
<1>4. Line(t.sent, t.held, t.pending)
  BY <1>1, <1>3 DEF LineOf, Line
<1>7. t.held # 0 => task'[s] \in {"sending", "closing"}
  BY <1>1, <1>3 DEF LineOf
<1>8. t.endAt = 0 => t.accepted <= MaxText
  BY <1>1, <1>3 DEF LineOf
<1> QED BY <1>4, <1>5, <1>6, <1>7, <1>8, LineChanges

\* send_text_chunk and end(): the message joins the end of the queue.
LEMMA LineAccepted ==
  ASSUME InLine, NEW s \in Streams, SendText(s) \/ End(s)
  PROVE  InLine'
<1> PICK m : m = text[s].accepted + 1
  OBVIOUS
<1> PICK e : e = IF SendText(s) THEN text[s].endAt ELSE m
  OBVIOUS
<1> PICK p : p = Append(text[s].pending, m)
  OBVIOUS
<1> PICK t : t = [text[s] EXCEPT !.accepted = m, !.endAt = e, !.pending = p]
  OBVIOUS
<1>1. /\ text[s] \in Texts /\ LineOf(s) /\ text[s].endAt = 0 /\ ~flags[s].closed
      /\ UNCHANGED <<task, flags>>
  BY DEF InLine, SendText, End, Accepting
<1>2. m \in 1..MaxMsgs /\ m \in 0..MaxMsgs /\ e \in 0..MaxMsgs /\ (e = 0 => m <= MaxText)
  <2>1. text[s].accepted \in 0..MaxText
    BY <1>1, TextParts, Numbers DEF LineOf
  <2>2. SendText(s) => text[s].accepted < MaxText
    BY DEF SendText
  <2> QED BY <1>1, <2>1, <2>2, Numbers DEF MaxMsgs
<1>3. /\ t.sent = text[s].sent /\ t.held = text[s].held /\ t.pending = p
      /\ t.accepted = m /\ t.endAt = e
  BY <1>1 DEF Texts, Words
<1>4. p \in Words
  BY <1>1, <1>2, TextParts DEF Words
<1>5. t \in Texts
  BY <1>1, <1>2, <1>3, <1>4 DEF Texts, Words
<1>6. text' = [text EXCEPT ![s] = t]
  BY <1>1 DEF InLine, Texts, SendText, End
<1>7. /\ m = Gone(text[s].sent, text[s].held) + Len(text[s].pending) + 1
      /\ Line(text[s].sent, text[s].held, text[s].pending)
  BY <1>1 DEF LineOf
<1>8. /\ Line(t.sent, t.held, t.pending) /\ Len(t.pending) = Len(text[s].pending) + 1
  BY <1>1, <1>2, <1>3, <1>7, TextParts, LineAccepts
<1>9. Gone(t.sent, t.held) + Len(t.pending) = t.accepted
  <2>1. Gone(text[s].sent, text[s].held) \in Nat /\ Len(text[s].pending) \in Nat
    BY <1>1, TextParts, GoneIsNat
  <2> QED BY <2>1, <1>3, <1>7, <1>8
<1>10. t.held # 0 => task'[s] \in {"sending", "closing"}
  BY <1>1, <1>3 DEF LineOf
<1> QED BY <1>1, <1>2, <1>3, <1>5, <1>6, <1>8, <1>9, <1>10, LineChanges

\* The task takes the next message in hand.
LEMMA LineTaken ==
  ASSUME InLine, Streaming, NEW s \in Streams, TakesText(s)
  PROVE  InLine'
<1> PICK q : q = text[s].pending
  OBVIOUS
<1> PICK t : t = [text[s] EXCEPT !.held = Head(q), !.pending = Tail(q)]
  OBVIOUS
<1>1. /\ text[s] \in Texts /\ LineOf(s) /\ q # <<>> /\ text[s].held = 0 /\ UNCHANGED flags
      /\ q \in Words
  BY TextParts DEF InLine, LineOf, TakesText, Serving
<1>2. /\ task'[s] = "sending" /\ \A o \in Streams \ {s} : task'[o] = task[o]
  BY DEF TakesText, To, Streaming, Attempts
<1>3. /\ t.sent = text[s].sent /\ t.held = Head(q) /\ t.pending = Tail(q)
      /\ t.accepted = text[s].accepted /\ t.endAt = text[s].endAt
  BY <1>1 DEF Texts, Words
<1>4. Head(q) \in 0..MaxMsgs /\ Tail(q) \in Words
  <2>1. Head(q) \in 1..MaxMsgs /\ Tail(q) \in Words
    BY <1>1, HeadAndTail DEF Words
  <2> QED BY <2>1, Numbers
<1>5. t \in Texts
  BY <1>1, <1>4 DEF Texts, Words
<1>6. text' = [text EXCEPT ![s] = t]
  BY <1>1 DEF InLine, Texts, TakesText
<1>7. Line(text[s].sent, 0, q)
  BY <1>1 DEF LineOf
<1>8. /\ Line(t.sent, t.held, t.pending)
      /\ Gone(t.sent, t.held) + Len(t.pending) = Gone(text[s].sent, 0) + Len(q)
  BY <1>1, <1>3, <1>7, TextParts, LineTakes
<1>9. ~flags[s].closed => Gone(text[s].sent, 0) + Len(q) = text[s].accepted
  BY <1>1 DEF LineOf
<1>10. t.endAt = 0 => t.accepted <= MaxText
  BY <1>1, <1>3 DEF LineOf
<1> QED BY <1>1, <1>2, <1>3, <1>5, <1>6, <1>8, <1>9, <1>10, LineChanges

\* It is written.
LEMMA LineSent ==
  ASSUME InLine, Streaming, NEW s \in Streams, Sent(s)
  PROVE  InLine'
<1> PICK h : h = text[s].held
  OBVIOUS
<1> PICK w : w = IF h = 0 THEN text[s].sent ELSE Append(text[s].sent, h)
  OBVIOUS
<1> PICK t : t = [text[s] EXCEPT !.held = 0, !.sent = w]
  OBVIOUS
<1>1. /\ text[s] \in Texts /\ LineOf(s) /\ UNCHANGED flags /\ h \in 0..MaxMsgs /\ h \in Nat
      /\ text[s].sent \in Words /\ text[s].pending \in Words
  BY TextParts DEF InLine, Sent
<1>2. \A o \in Streams \ {s} : task'[o] = task[o]
  BY DEF Sent, To, Streaming, Attempts
<1>3. /\ t.sent = w /\ t.held = 0 /\ t.pending = text[s].pending
      /\ t.accepted = text[s].accepted /\ t.endAt = text[s].endAt
  BY <1>1 DEF Texts, Words
<1>4. w \in Words /\ 0 \in 0..MaxMsgs
  <2>1. CASE h = 0
    BY <1>1, <2>1, Numbers
  <2>2. CASE h # 0
    <3>1. h \in 1..MaxMsgs
      BY <1>1, <2>2, Numbers
    <3> QED BY <1>1, <2>2, <3>1, Numbers DEF Words
  <2> QED BY <2>1, <2>2
<1>5. t \in Texts
  BY <1>1, <1>4 DEF Texts, Words
<1>6. text' = [text EXCEPT ![s] = t]
  BY <1>1 DEF InLine, Texts, Sent
<1>7. Line(text[s].sent, h, text[s].pending)
  BY <1>1 DEF LineOf
<1>8. /\ Line(t.sent, t.held, t.pending)
      /\ Gone(t.sent, t.held) = Gone(text[s].sent, h)
  BY <1>1, <1>3, <1>7, LineWrites
<1>9. ~flags[s].closed => Gone(text[s].sent, h) + Len(text[s].pending) = text[s].accepted
  BY <1>1 DEF LineOf
<1>10. t.endAt = 0 => t.accepted <= MaxText
  BY <1>1, <1>3 DEF LineOf
<1> QED BY <1>1, <1>2, <1>3, <1>5, <1>6, <1>8, <1>9, <1>10, LineChanges

\* The write fails: the message goes back to the head of the queue.
LEMMA LineFails ==
  ASSUME InLine, Streaming, NEW s \in Streams, SendFails(s)
  PROVE  InLine'
<1> PICK h : h = text[s].held
  OBVIOUS
<1> PICK q : q = IF h = 0 THEN text[s].pending ELSE Requeued(text[s].pending, h)
  OBVIOUS
<1> PICK t : t = [text[s] EXCEPT !.held = 0, !.pending = q]
  OBVIOUS
<1>1. /\ text[s] \in Texts /\ LineOf(s) /\ UNCHANGED flags /\ h \in 0..MaxMsgs /\ h \in Nat
      /\ text[s].sent \in Words /\ text[s].pending \in Words
  BY TextParts DEF InLine, SendFails
<1>2. \A o \in Streams \ {s} : task'[o] = task[o]
  BY DEF SendFails, To, Streaming, Attempts
<1>3. /\ t.sent = text[s].sent /\ t.held = 0 /\ t.pending = q
      /\ t.accepted = text[s].accepted /\ t.endAt = text[s].endAt
  BY <1>1 DEF Texts, Words
<1>4. q \in Words /\ 0 \in 0..MaxMsgs
  <2>1. CASE h = 0
    BY <1>1, <2>1, Numbers
  <2>2. CASE h # 0
    <3>1. h \in 1..MaxMsgs /\ <<h>> \in Words
      BY <1>1, <2>2, Numbers DEF Words
    <3> QED BY <1>1, <2>2, <3>1, Numbers DEF Words, Requeued
  <2> QED BY <2>1, <2>2
<1>5. t \in Texts
  BY <1>1, <1>4 DEF Texts, Words
<1>6. text' = [text EXCEPT ![s] = t]
  BY <1>1 DEF InLine, Texts, SendFails
<1>7. Line(text[s].sent, h, text[s].pending)
  BY <1>1 DEF LineOf
<1>8. /\ Line(t.sent, t.held, t.pending)
      /\ Gone(t.sent, t.held) + Len(t.pending) = Gone(text[s].sent, h) + Len(text[s].pending)
  BY <1>1, <1>3, <1>7, LineGoesBack
<1>9. ~flags[s].closed => Gone(text[s].sent, h) + Len(text[s].pending) = text[s].accepted
  BY <1>1 DEF LineOf
<1>10. t.endAt = 0 => t.accepted <= MaxText
  BY <1>1, <1>3 DEF LineOf
<1> QED BY <1>1, <1>2, <1>3, <1>5, <1>6, <1>8, <1>9, <1>10, LineChanges

\* No step puts a text out of line.
LEMMA InLineNext == Streaming /\ Placed /\ InLine /\ [TtsNext]_ttsVars => InLine'
<1> SUFFICES ASSUME Streaming, Placed, InLine, [TtsNext]_ttsVars PROVE InLine'
  OBVIOUS
<1>1. ASSUME text' = text,
             \A o \in Streams :
               /\ flags[o].closed => flags'[o].closed
               /\ \/ task'[o] = task[o] \/ task'[o] = "closing"
                  \/ task[o] \notin {"sending", "closing"}
      PROVE  InLine'
  BY <1>1, LineStays DEF InLine
<1>2. ASSUME UNCHANGED <<text, task, flags>> PROVE InLine'
  BY <1>1, <1>2
<1>3. ASSUME NEW s \in Streams,
             \/ ServerCloses(s) \/ Reads(s) \/ Listens(s)
             \/ \E outcome \in {"final", "error"} : AudioEnds(s, outcome)
             \/ \E kind \in Kinds : ReaderSees(s, kind)
      PROVE  InLine'
  BY <1>2, <1>3 DEF ServerCloses, Reads, Listens, AudioEnds, ReaderSees
<1>4. ASSUME NEW s \in Streams,
             \/ Connect(s) \/ TaskStarts(s) \/ Opens(s) \/ LoopEnds(s) \/ Reopened(s)
             \/ JotaConnect(s) \/ JotaOpens(s) \/ JotaAuth(s)
      PROVE  InLine'
  <2>1. UNCHANGED <<text, flags>> /\ task[s] \notin {"sending", "closing"}
    BY <1>4 DEF Connect, TaskStarts, Opens, LoopEnds, Reopened, JotaConnect, JotaOpens, JotaAuth,
                Serving
  <2>2. \E place : task' = [task EXCEPT ![s] = place]
    BY <1>4 DEF Connect, TaskStarts, Opens, LoopEnds, Reopened, JotaConnect, JotaOpens, JotaAuth,
                To
  <2> QED BY <1>1, <2>1, <2>2 DEF Streaming, Attempts
<1>5. ASSUME NEW s \in Streams, ReaderEnded(s) PROVE InLine'
  <2>1. text' = text /\ task[s] = "reader" /\ \E place : task' = [task EXCEPT ![s] = place]
    BY <1>5 DEF ReaderEnded, To
  <2>2. \A o \in Streams : flags'[o].closed = flags[o].closed
    BY <1>5 DEF ReaderEnded, Streaming
  <2> QED BY <1>1, <2>1, <2>2 DEF Streaming, Attempts
<1>6. ASSUME NEW s \in Streams, Audio(s) PROVE InLine'
  <2>1. UNCHANGED <<text, task>>
    BY <1>6 DEF Audio
  <2>2. \A o \in Streams : flags'[o].closed = flags[o].closed
    <3>1. CASE Fits(s)
      BY <1>6, <3>1 DEF Audio, Streaming
    <3>2. CASE ~Fits(s)
      BY <1>6, <3>2 DEF Audio
    <3> QED BY <3>1, <3>2
  <2> QED BY <1>1, <2>1, <2>2
<1>7. ASSUME NEW s \in Streams, SendText(s) \/ End(s) PROVE InLine'
  BY <1>7, LineAccepted
<1>8. ASSUME NEW s \in Streams, TakesText(s) \/ Sent(s) \/ SendFails(s) PROVE InLine'
  BY <1>8, LineTaken, LineSent, LineFails
<1>9. ASSUME NEW s \in Streams, Close(s) \/ NobodyWrites(s) PROVE InLine'
  <2>1. /\ text' = [text EXCEPT ![s].pending = <<>>] /\ flags' = [flags EXCEPT ![s].closed = TRUE]
        /\ task' = task \/ task' = [task EXCEPT ![s] = "closing"]
    BY <1>9 DEF Close, NobodyWrites, To
  <2>2. flags'[s].closed /\ \A o \in Streams \ {s} : flags'[o] = flags[o] /\ task'[o] = task[o]
    BY <2>1 DEF Streaming, Attempts
  <2>3. task'[s] = task[s] \/ task'[s] = "closing"
    BY <2>1 DEF Streaming, Attempts
  <2> QED BY <2>1, <2>2, <2>3, LineDropped
<1>10. ASSUME NEW s \in Streams, Forgotten(s), To(s, "done") PROVE InLine'
  <2>1. text' = [text EXCEPT ![s] = NoText] /\ flags' = [flags EXCEPT ![s] = Shut]
        /\ task' = [task EXCEPT ![s] = "done"]
    BY <1>10 DEF Forgotten, To
  <2>2. flags'[s].closed /\ \A o \in Streams \ {s} : flags'[o] = flags[o] /\ task'[o] = task[o]
    BY <2>1 DEF Streaming, Attempts, Shut
  <2> QED BY <2>1, <2>2, LineForgotten
<1>11. ASSUME NEW s \in Streams,
              \/ \E kind \in Kinds : AttemptFails(s, kind)
              \/ TaskEnds(s) \/ JotaFails(s) \/ JotaCut(s) \/ JotaClose(s)
       PROVE  InLine'
  BY <1>10, <1>11 DEF AttemptFails, TaskEnds, JotaFails, JotaCut, JotaClose, Finished
<1>12. ASSUME NEW s \in Streams, TaskCut(s) PROVE InLine'
  <2>1. CASE task[s] \in {"created", "connecting", "reopening", "closing"}
    BY <1>10, <1>12, <2>1 DEF TaskCut, Finished
  <2>2. CASE task[s] \notin {"created", "connecting", "reopening", "closing"}
    <3>1. UNCHANGED <<text, flags>> /\ task' = [task EXCEPT ![s] = "closing"]
      BY <1>12, <2>2 DEF TaskCut, To
    <3> QED BY <1>1, <3>1 DEF Streaming, Attempts
  <2> QED BY <2>1, <2>2
<1>13. CASE Refused \/ ProbeStarts \/ ProbeEnds
  <2>1. UNCHANGED <<text, flags>>
    BY <1>13 DEF Refused, ProbeStarts, ProbeEnds, streams
  <2>2. \A o \in Streams : task'[o] = task[o]
    BY <1>13, Numbers DEF Refused, ProbeStarts, ProbeEnds, To, streams, Streaming, Attempts
  <2> QED BY <1>1, <2>1, <2>2
<1>14. CASE UNCHANGED ttsVars
  BY <1>2, <1>14 DEF ttsVars, streams
<1> QED BY <1>3, <1>4, <1>5, <1>6, <1>7, <1>8, <1>9, <1>11, <1>12, <1>13, <1>14
        DEF TtsNext, TaskStep, JotaStep
-----------------------------------------------------------------------------
(* Text to speech: what holds of it.                                       *)

\* The inductive invariant of the streams of text to speech.
TtsInv == Provided /\ Streaming /\ Placed /\ Slots /\ InLine

\* It holds at the start.
LEMMA TtsInvInit == TtsInit => TtsInv
<1> SUFFICES ASSUME TtsInit PROVE TtsInv
  OBVIOUS
<1>1. Provided
  <2>1. gate = [started |-> 0, marker |-> 0, level |-> 0] /\ token = [a \in Attempts |-> 0]
        /\ fresh = {} /\ terminal = FALSE /\ health = "CONNECTED"
    BY DEF TtsInit
  <2>2. gate \in [started : 0..MaxStarts, marker : 0..MaxStarts, level : 0..MaxLevel]
    BY <2>1, Numbers
  <2>3. gate.marker = 0 /\ gate.started = 0
    BY <2>1
  <2>4. token \in [Attempts -> 0..MaxStarts] /\ \A a \in Attempts : token[a] = 0
    BY <2>1, Numbers
  <2>5. Tokens
    BY <2>2, <2>3, <2>4 DEF Tokens
  <2> QED BY <2>1, <2>5 DEF Provided
<1>2. Streaming
  BY Numbers DEF TtsInit, Streaming
<1>3. Placed
  BY DEF TtsInit, Placed, PlaceOf, Eleven, Jota, ElevenPcs, JotaPcs, Attempts
<1>4. Slots
  <2>1. Holding = {} /\ sem = MaxStreams
    BY DEF TtsInit, Holding, Attempts
  <2> QED BY <2>1, Numbers, FS_EmptySet DEF Slots
<1>5. InLine
  <2>1. \A s \in Streams : text[s] = NoText
    BY DEF TtsInit
  <2>2. /\ NoText.held = 0 /\ NoText.accepted = 0 /\ NoText.endAt = 0
        /\ NoText.pending = <<>> /\ NoText.sent = <<>>
    BY DEF NoText
  <2>3. Gone(NoText.sent, NoText.held) + Len(NoText.pending) = NoText.accepted
    BY <2>2 DEF Gone
  <2>4. \A s \in Streams : LineOf(s)
    BY <2>1, <2>2, <2>3, NoTextInLine, Numbers DEF LineOf
  <2> QED BY <2>4, NoTextInLine DEF InLine, TtsInit
<1> QED BY <1>1, <1>2, <1>3, <1>4, <1>5 DEF TtsInv

\* It holds always.
LEMMA TtsInvHolds == TtsSpec => []TtsInv
<1>1. TtsInv /\ [TtsNext]_ttsVars => TtsInv'
  BY ProvidedNext, StreamingNext, PlacedNext, SlotsNext, InLineNext DEF TtsInv
<1> QED BY <1>1, TtsInvInit, PTL DEF TtsSpec

\* With it come the types.
LEMMA TtsInvIsTyped == TtsInv => TtsTypeOK
<1> SUFFICES ASSUME TtsInv PROVE TtsTypeOK
  OBVIOUS
<1>1. \A s \in Streams : /\ text[s].pending \in Words /\ text[s].sent \in Words
                         /\ {text[s].held, text[s].accepted, text[s].endAt} \subseteq 0..MaxMsgs
  BY TextParts DEF TtsInv, InLine
<1> QED BY <1>1 DEF TtsInv, TtsTypeOK, Provided, Tokens, Streaming, Slots, Words

\* The provider gets the text of a stream in order, nothing twice and nothing left out, through
\* failed writes and over the connection that comes after a drop (speech/elevenlabs/tts.py).
THEOREM TextStaysInOrder == TtsSpec => []TextInOrder
<1>1. ASSUME TtsInv, NEW s \in Streams
      PROVE  text[s].sent = [i \in 1..Len(text[s].sent) |-> i]
  <2>1. \A i \in 1..Len(text[s].sent) : text[s].sent[i] = i
    BY <1>1 DEF TtsInv, InLine, LineOf, Line
  <2>2. text[s].sent \in Seq(1..MaxMsgs)
    BY <1>1, TextParts DEF TtsInv, InLine, Words
  <2> QED BY <2>1, <2>2
<1>2. TtsInv => TextInOrder
  BY <1>1 DEF TextInOrder
<1> QED BY <1>2, TtsInvHolds, PTL

\* Whatever a stream of ElevenLabs dies of, its slot comes back once, its iterator ends and nobody
\* puts audio behind that end.  With it, the types.
THEOREM EveryStreamFinishesOnce == TtsSpec => []FinishedOnce
<1>1. TtsInv => FinishedOnce
  BY TtsInvIsTyped DEF TtsInv, FinishedOnce, Placed, PlaceOf, Streaming, Slots, Holding, Eleven,
                       Jota, Ended
<1> QED BY <1>1, TtsInvHolds, PTL

\* The level grows only by a failure that counts.
LEMMA LevelGrows ==
  ASSUME Provided, NEW a \in Attempts, Outcome(a), gate'.level > gate.level
  PROVE  a \in fresh
<1>1. gate.level \in Nat /\ gate # gate'
  BY Numbers DEF Provided, Tokens
<1>2. CASE RecordFailure(a) \/ CapacityClose(a)
  BY <1>1, <1>2 DEF RecordFailure, CapacityClose, GateFails, Applies, Provided, Tokens
<1>3. CASE RecordSuccess
  <2>1. gate' = [gate EXCEPT !.marker = gate.started, !.level = 0]
    BY <1>1, <1>3 DEF RecordSuccess
  <2>2. gate'.level = 0
    BY <2>1 DEF Provided, Tokens
  <2> QED BY <1>1, <2>2
<1> QED BY <1>1, <1>2, <1>3 DEF Outcome, MarkAuthFailed, NothingRecorded

\* One outage counts once, in whatever order overlapping attempts end: the back-off of the shared
\* LazyBackoffGate grows only by an attempt begun after the last outcome that counted (#152).
THEOREM OutagesCountOnce == TtsSpec => OutageCountsOnce
<1>1. ASSUME TtsInv, TtsNext, gate'.level > gate.level
      PROVE  \E a \in fresh : task'[a] # task[a]
  <2>1. Provided /\ Streaming /\ Placed /\ Probe \in Attempts /\ Streams \subseteq Attempts
    BY <1>1 DEF TtsInv, Attempts
  <2>2. gate' # gate
    BY <1>1, <2>1, Numbers DEF Provided, Tokens
  <2>3. ASSUME NEW a \in Attempts, Outcome(a), task'[a] # task[a]
        PROVE  \E b \in fresh : task'[b] # task[b]
    BY <1>1, <2>1, <2>3, LevelGrows
  <2>4. ASSUME NEW u, u = gate.started + 1, gate' = [gate EXCEPT !.started = u] PROVE FALSE
    <3>1. gate'.level = gate.level
      BY <2>1, <2>4 DEF Provided, Tokens
    <3> QED BY <1>1, <2>1, <3>1, Numbers DEF Provided, Tokens
  <2>5. ASSUME RecordSuccess PROVE FALSE
    <3>1. gate' = [gate EXCEPT !.marker = gate.started, !.level = 0]
      BY <2>2, <2>5 DEF RecordSuccess
    <3>2. gate'.level = 0
      BY <2>1, <3>1 DEF Provided, Tokens
    <3> QED BY <1>1, <2>1, <3>2, Numbers DEF Provided, Tokens
  <2>6. ASSUME NEW s \in Streams, NEW kind \in Kinds, AttemptFails(s, kind)
        PROVE  \E b \in fresh : task'[b] # task[b]
    <3>1. Outcome(s) /\ task' = [task EXCEPT ![s] = "done"] /\ task[s] = "connecting"
      BY <2>6 DEF AttemptFails, ConnectFailed, Outcome, Finished, To
    <3> QED BY <2>1, <2>3, <3>1 DEF Streaming
  <2>7. ASSUME NEW s \in Streams, ReaderEnded(s)
        PROVE  \E b \in fresh : task'[b] # task[b]
    <3>1. Outcome(s)
      BY <2>7, TaskReports DEF Reports, TaskStep, ReaderEnded, JotaConnect
    <3>2. task' = [task EXCEPT ![s] = IF Reopens(s) THEN "reopening" ELSE "closing"]
          /\ task[s] = "reader"
      BY <2>7 DEF ReaderEnded, To
    <3> QED BY <2>1, <2>3, <3>1, <3>2 DEF Streaming
  <2>8. ASSUME NEW s \in Streams, JotaFails(s)
        PROVE  \E b \in fresh : task'[b] # task[b]
    <3>1. Outcome(s) /\ task' = [task EXCEPT ![s] = "done"] /\ task[s] # "done"
      BY <2>8 DEF JotaFails, Outcome, To
    <3> QED BY <2>1, <2>3, <3>1 DEF Streaming
  <2>9. ASSUME ProbeEnds
        PROVE  \E b \in fresh : task'[b] # task[b]
    <3>1. Outcome(Probe) /\ task' = [task EXCEPT ![Probe] = "none"] /\ task[Probe] = "connecting"
      BY <2>9 DEF ProbeEnds, ConnectFailed, Outcome, To
    <3> QED BY <2>1, <2>3, <3>1 DEF Streaming
  <2>10. ASSUME NEW s \in Streams, Audio(s) PROVE FALSE
    <3>1. CASE Fits(s)
      BY <2>2, <2>5, <2>10, <3>1 DEF Audio, NothingRecorded
    <3>2. CASE ~Fits(s)
      BY <2>2, <2>10, <3>2 DEF Audio, NothingRecorded
    <3> QED BY <3>1, <3>2
  <2>11. ASSUME NEW s \in Streams, JotaAuth(s) PROVE FALSE
    BY <2>2, <2>5, <2>11 DEF JotaAuth, NothingRecorded
  <2>12. ASSUME NEW s \in Streams, Connect(s) \/ JotaConnect(s) PROVE FALSE
    BY <2>4, <2>12 DEF Connect, JotaConnect, Begins
  <2>13. ASSUME ProbeStarts \/ Refused PROVE FALSE
    BY <2>4, <2>13 DEF ProbeStarts, Refused, Begins
  <2>14. ASSUME NEW s \in Streams,
                \/ TaskStarts(s) \/ Opens(s) \/ TakesText(s) \/ Sent(s) \/ SendFails(s)
                \/ LoopEnds(s) \/ NobodyWrites(s) \/ Reopened(s) \/ TaskEnds(s) \/ TaskCut(s)
                \/ JotaOpens(s) \/ JotaCut(s) \/ Listens(s) \/ JotaClose(s)
         PROVE  FALSE
    BY <2>2, <2>14 DEF provider, TaskStarts, Opens, TakesText, Sent, SendFails, LoopEnds,
       NobodyWrites, Reopened, TaskEnds, TaskCut, JotaOpens, JotaCut, Listens, JotaClose
  <2>15. ASSUME NEW s \in Streams,
                \/ SendText(s) \/ End(s) \/ Close(s) \/ ServerCloses(s) \/ Reads(s)
                \/ \E outcome \in {"final", "error"} : AudioEnds(s, outcome)
                \/ \E kind \in Kinds : ReaderSees(s, kind)
         PROVE  FALSE
    BY <2>2, <2>15 DEF provider, SendText, End, Close, ServerCloses, Reads, AudioEnds, ReaderSees
  <2> QED BY <1>1, <2>6, <2>7, <2>8, <2>9, <2>10, <2>11, <2>12, <2>13, <2>14, <2>15
          DEF TtsNext, TaskStep, JotaStep
<1>2. TtsInv /\ [TtsNext]_ttsVars
      => [gate'.level > gate.level => \E a \in fresh : task'[a] # task[a]]_ttsVars
  BY <1>1
<1> QED BY <1>2, TtsInvHolds, PTL DEF TtsSpec, OutageCountsOnce
=============================================================================
