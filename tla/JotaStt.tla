-------------------------------- MODULE JotaStt --------------------------------
(***************************************************************************)
(* The jota adapter of speech to text: one session of                      *)
(* ReconnectingTranscriberClient (services/transcriber_reconnecting.py)    *)
(* over its TranscriberClient (services/transcriber_client.py): start,     *)
(* run with its listen loop and its reconnection, sends, and the close of  *)
(* close_all (services/bridge.py).                                         *)
(*                                                                         *)
(* `pc` is where the task is that runs start() and then run(); connect()   *)
(* is its "opening", "handshake" and, for the finally, "cleanup" (after a  *)
(* failure) or "unwinding" (after a cancellation).  A wait with a limit    *)
(* may end at any moment.  The transcriber is external: it accepts,        *)
(* refuses, drops a connection or ends it with a clean close.              *)
(***************************************************************************)
EXTENDS Naturals

CONSTANTS
  MaxTries,   \* bound: attempts of one reconnection (max_duration over the back-off)
  MaxFaults   \* bound: connections that are lost, ended, or crash a callback

ASSUME JotaAssumption == MaxTries \in Nat /\ MaxFaults \in Nat

VARIABLES
  pc,       \* where start() or run() is
  first,    \* it is start()
  sock,     \* the socket that was opened last
  held,     \* ws names it
  ready,    \* _is_ready
  state,    \* ServiceHealth
  tries,    \* attempts of this reconnection
  closed,   \* _closed
  closer,   \* close_all, from the cancellation of the tasks on
  cut,      \* the task has a cancellation to hear
  faults,   \* history: faults so far
  hidden    \* history: a send met the closed connection before the listen loop did

link == <<sock, held, ready>>
stt  == <<pc, first, link, state, tries, closed, closer, cut, faults, hidden>>

Connects == {"opening", "handshake", "cleanup"}
Dead     == {"lost", "ended", "closed"}

SttTypeOK ==
  /\ pc \in {"new", "started", "listening", "backoff", "unwinding", "over"} \cup Connects
  /\ sock \in {"none", "open", "closing"} \cup Dead
  /\ state \in {"CONNECTED", "RECONNECTING", "DEGRADED"}
  /\ closer \in {"no", "cutting", "closing", "done"}
  /\ first \in BOOLEAN /\ held \in BOOLEAN /\ ready \in BOOLEAN
  /\ closed \in BOOLEAN /\ cut \in BOOLEAN /\ hidden \in BOOLEAN
  /\ tries \in 0..MaxTries /\ faults \in 0..MaxFaults

SttInit ==
  /\ pc = "new" /\ first = TRUE /\ sock = "none" /\ held = FALSE /\ ready = FALSE
  /\ state = "DEGRADED" /\ tries = 0 /\ closed = FALSE /\ closer = "no" /\ cut = FALSE
  /\ faults = 0 /\ hidden = FALSE

\* A step of the task that no cancellation forestalls.
At(where) == pc = where /\ ~cut

-----------------------------------------------------------------------------
(* connect().                                                              *)

StartCalled ==
  /\ At("new") /\ closer = "no" /\ pc' = "opening"
  /\ UNCHANGED <<first, link, state, tries, closed, closer, cut, faults, hidden>>

Opened ==
  /\ At("opening") /\ pc' = "handshake" /\ sock' = "open" /\ held' = TRUE
  /\ UNCHANGED <<first, ready, state, tries, closed, closer, cut, faults, hidden>>

\* The socket was not opened, or no `ready` came over it: the finally of connect.
ConnectFails ==
  /\ At("opening") \/ At("handshake")
  /\ pc' = "cleanup"
  /\ UNCHANGED <<first, link, state, tries, closed, closer, cut, faults, hidden>>

\* `ready`: start() returns and run() is next, or run() listens again.
Readied ==
  /\ At("handshake") /\ sock = "open"
  /\ ready' = TRUE /\ state' = "CONNECTED" /\ tries' = 0
  /\ pc' = IF first THEN "started" ELSE "listening"
  /\ UNCHANGED <<first, sock, held, closed, closer, cut, faults, hidden>>

\* ws.close() and ws = None, when ws names a socket.
LetGo == held' = FALSE /\ sock' = IF held /\ sock = "open" THEN "closed" ELSE sock

\* The end of reconnect_with_backoff, when it gives up.
LeavesItReconnecting == UNCHANGED state    \* mutant of GivesUp: nobody says so
GivesUp == state' = "DEGRADED"

\* A failed connect: start() leaves the rest to run(), run() waits and tries again or, after
\* max_duration, gives up.
CleanedUp ==
  /\ At("cleanup") /\ LetGo
  /\ \/ /\ first /\ pc' = "started" /\ state' = "RECONNECTING" /\ tries' = tries
     \/ /\ ~first /\ tries < MaxTries /\ pc' = "backoff" /\ tries' = tries + 1
        /\ UNCHANGED state
     \/ /\ ~first /\ pc' = "over" /\ GivesUp /\ tries' = tries
  /\ UNCHANGED <<first, ready, closed, closer, cut, faults, hidden>>

BackedOff ==
  /\ At("backoff") /\ pc' = "opening"
  /\ UNCHANGED <<first, link, state, tries, closed, closer, cut, faults, hidden>>

-----------------------------------------------------------------------------
(* run().                                                                  *)

RunStarts ==
  /\ At("started") /\ first' = FALSE
  /\ pc' = IF state = "CONNECTED" THEN "listening" ELSE "opening"
  /\ UNCHANGED <<link, state, tries, closed, closer, cut, faults, hidden>>

\* Is the end of the listen loop an unexpected drop?  A clean close ends the iteration and
\* changes nothing; a lost connection counts only if nobody took `ready` away before.
CleanUnlessEnded == FALSE    \* mutant of Dropped: a lost connection is taken for a clean close
Dropped == sock = "lost" /\ ready

ListenEnds ==
  /\ At("listening") /\ sock \in {"lost", "ended"}
  /\ ready' = (ready /\ sock = "ended")
  /\ IF Dropped /\ ~closed
     THEN pc' = "opening" /\ state' = "RECONNECTING"
     ELSE pc' = "over" /\ state' = state
  /\ UNCHANGED <<first, sock, held, tries, closed, closer, cut, faults, hidden>>

\* A callback raised: the socket stays open until the session closes.
CallbackCrashes ==
  /\ At("listening") /\ sock = "open" /\ faults < MaxFaults /\ faults' = faults + 1
  /\ pc' = "over" /\ state' = "DEGRADED"
  /\ UNCHANGED <<first, link, tries, closed, closer, cut, hidden>>

-----------------------------------------------------------------------------
(* The connection, and the sends of the session.                           *)

Drops ==
  /\ sock = "open" /\ faults < MaxFaults /\ faults' = faults + 1
  /\ sock' \in {"lost", "ended"}
  /\ UNCHANGED <<pc, first, held, ready, state, tries, closed, closer, cut, hidden>>

\* send_audio, send_end: a closed connection only takes `ready` away.
Send ==
  LET refused == ready /\ held /\ sock \in Dead IN
  /\ ready' = (ready /\ ~refused) /\ hidden' = (hidden \/ refused)
  /\ UNCHANGED <<pc, first, sock, held, state, tries, closed, closer, cut, faults>>

-----------------------------------------------------------------------------
(* The end of the session.                                                 *)

\* close_all cancels the tasks of the session; a session whose start() is cancelled ends there.
CloseBegins ==
  /\ closer = "no" /\ closer' = "cutting" /\ cut' = (pc # "over")
  /\ UNCHANGED <<pc, first, link, state, tries, closed, faults, hidden>>

\* The task hears the cancellation: connect() closes what it opened, and a second one cuts
\* that close short, with the socket still in ws.
Cut ==
  /\ cut /\ cut' = FALSE
  /\ \/ /\ pc \in {"opening", "handshake"} /\ held
        /\ pc' = "unwinding" /\ sock' = sock
     \/ /\ pc \in {"cleanup", "unwinding"}
        /\ pc' = "over" /\ sock' = IF sock = "open" THEN "closing" ELSE sock
     \/ /\ pc \in {"new", "started", "backoff", "listening"} \cup (IF held THEN {} ELSE {"opening"})
        /\ pc' = "over" /\ sock' = sock
  /\ UNCHANGED <<first, held, ready, state, tries, closed, closer, faults, hidden>>

Unwound ==
  /\ At("unwinding") /\ pc' = "over" /\ LetGo
  /\ UNCHANGED <<first, ready, state, tries, closed, closer, cut, faults, hidden>>

\* transcriber.close(): run() is cancelled again, if it is still there when the wait for the
\* tasks is over.  The task of start() is the one that closes.
CloseStt ==
  /\ closer = "cutting" /\ (first => pc = "over")
  /\ closer' = "closing" /\ closed' = TRUE /\ cut' = (pc # "over")
  /\ UNCHANGED <<pc, first, link, state, tries, faults, hidden>>

\* ... and then the client, in its own time.
NamedSocket == held
ReadySocket == held /\ ready    \* mutant of MustClose: a client that is not ready is skipped
MustClose   == NamedSocket
CloseClient ==
  /\ closer = "closing" /\ closer' = "done" /\ ready' = FALSE
  /\ sock' = IF MustClose /\ sock \in {"open", "closing"} THEN "closed" ELSE sock
  /\ UNCHANGED <<pc, first, held, state, tries, closed, cut, faults, hidden>>

-----------------------------------------------------------------------------
\* What the loop and the transcriber's answers make progress by.
SttSteps ==
  \/ StartCalled \/ Opened \/ ConnectFails \/ Readied \/ CleanedUp \/ BackedOff
  \/ ListenEnds \/ Cut \/ Unwound \/ CloseStt \/ CloseClient
SttFaults == Drops \/ CallbackCrashes
=============================================================================
