------------------------------- MODULE HttpReply -------------------------------
(***************************************************************************)
(* One request of the OpenAI-compatible API (api/openai_routes.py): the    *)
(* agent that answers it, the turn that brings its text (call_orchestrator *)
(* over stream_response, whose chat events go through the tracker of       *)
(* ChatText), the queue from the turn to the body of the response, and the *)
(* record of the request in the SessionRegistry.                           *)
(*                                                                         *)
(* With mode "stream" the body is a generator: it starts the turn as a     *)
(* task, reads tokens from an unbounded queue until the sentinel End, and  *)
(* may be left at any moment by a client that goes away.  With mode        *)
(* "plain" the handler is the turn.  OpenClaw is external: it lets the     *)
(* reply grow, cuts it back, replaces it, and ends it with or without the  *)
(* whole text.  Nothing of the tracker of an HTTP request suspends, so the *)
(* sentinel and the closed record are one step.                            *)
(***************************************************************************)
EXTENDS ChatText, AgentPolicy

CONSTANTS
  Chars,      \* the characters of a reply, Blank among them
  MaxText,    \* bound: characters of a reply
  MaxGrow,    \* bound: characters that one event adds
  MaxFrames   \* bound: chat events of the reply before its final

ASSUME ReplyAssumption == /\ Blank \in Chars /\ None \notin Seq(Chars)
                          /\ {MaxText, MaxGrow, MaxFrames} \subseteq Nat

VARIABLES
  caller,   \* the request and what is known of its caller, until it is resolved
  mode,     \* body.stream
  answer,   \* OpenClaw's reply as it stands
  longest,  \* history: the longest the reply has been, None once it was rewritten
  frames,   \* chat events so far
  chat,     \* the ChatTextTracker of the turn
  run,      \* the task _run, or the handler itself when plain
  failed,   \* orchestrator_error is set
  queue,    \* tokens, then End
  sent,     \* the text the client was sent
  gen,      \* the generator of the body, or the response when plain
  finish,   \* finish_reason
  record    \* status of the request in the SessionRegistry

claw == <<answer, longest, frames, chat>>
body == <<sent, gen, finish>>
vars == <<caller, mode, claw, run, failed, queue, body, record>>

\* The sentinel: no token is empty.
End   == <<>>
Texts == BoundedSeq(Chars, MaxText)

\* Every token of the turn: what the client was sent and what waits for it.
Emitted == FlattenSeq(IF mode = "stream" THEN <<sent>> \o queue ELSE queue)

Callers == [model  : Agents \cup {Alias, NoAgent},
            config : [default : Agents \cup {NoAgent}, allowed : SUBSET Agents \cup {NoLimit}]
                     \cup {Absent},
            info   : [default : Agents \cup {NoAgent}, agents : SUBSET Agents] \cup {Absent}]

TypeOK ==
  /\ mode \in {"stream", "plain"} /\ failed \in BOOLEAN /\ frames \in 0..MaxFrames
  /\ {answer} \cup ({longest} \ {None}) \subseteq Texts
  /\ run \in {"none", "ready", "turn", "cancelled", "ended"}
  /\ gen \in {"none", "unstarted", "reading", "writing", "leaving", "finishing", "over"}
  /\ finish \in {"none", "stop", "error"}
  /\ record \in {"none", "active", "completed", "error"}

Init ==
  /\ caller \in Callers /\ mode \in {"stream", "plain"}
  /\ answer = <<>> /\ longest = <<>> /\ frames = 0 /\ chat = NewTracker
  /\ run = "none" /\ failed = FALSE /\ queue = <<>>
  /\ sent = <<>> /\ gen = "none" /\ finish = "none" /\ record = "none"

-----------------------------------------------------------------------------
(* The handler: chat_completions up to the response.                       *)

Resolved == ChatAgent(caller.model, caller.config, caller.info)

\* 403: nothing was registered.
Refuse ==
  /\ caller # Absent /\ Resolved.error # "none"
  /\ caller' = Absent /\ gen' = "over"
  /\ UNCHANGED <<mode, claw, run, failed, queue, sent, finish, record>>

\* The record is registered before the body exists; a plain handler goes on to the turn.
Accept ==
  /\ caller # Absent /\ Resolved.error = "none"
  /\ caller' = Absent /\ record' = "active"
  /\ IF mode = "stream" THEN gen' = "unstarted" /\ run' = run
                        ELSE run' = "ready" /\ gen' = gen
  /\ UNCHANGED <<mode, claw, failed, queue, sent, finish>>

\* The client was gone before the generator's first step: generate() never runs.
BodyNever ==
  /\ gen = "unstarted" /\ gen' = "over"
  /\ UNCHANGED <<caller, mode, claw, run, failed, queue, sent, finish, record>>

BodyStarts ==
  /\ gen = "unstarted" /\ gen' = "reading" /\ run' = "ready"
  /\ UNCHANGED <<caller, mode, claw, failed, queue, sent, finish, record>>

-----------------------------------------------------------------------------
(* The turn: call_orchestrator over stream_response.                       *)

RunStarts ==
  /\ run = "ready" /\ run' = "turn"
  /\ UNCHANGED <<caller, mode, claw, failed, queue, body, record>>

\* What _on_token does with the text of an event.
Token(text) == IF text = <<>> THEN queue ELSE Append(queue, text)

\* The finally of _run: the sentinel always, then tracker.close.
EndlessOnFailure(tokens, status) ==      \* mutant of CloseRun: a failed turn leaves no sentinel
  /\ run' = "ended" /\ record' = status
  /\ queue' = IF status = "completed" THEN Append(tokens, End) ELSE tokens
CloseRun(tokens, status) == run' = "ended" /\ record' = status /\ queue' = Append(tokens, End)

\* The turn returned or raised; the plain handler answers.
CompletedAnyway(tokens, ok) ==           \* mutant of RunEnds: the status of the record is not decided
  CloseRun(tokens, "completed") /\ failed' = ~ok /\ UNCHANGED body
RunEnds(tokens, ok) ==
  /\ CloseRun(tokens, IF ok THEN "completed" ELSE "error") /\ failed' = ~ok
  /\ IF mode = "plain"
     THEN /\ gen' = "over" /\ finish' = IF ok THEN "stop" ELSE "error"
          /\ sent' = IF ok THEN FlattenSeq(tokens) ELSE <<>>
     ELSE UNCHANGED body

\* OpenClaw's reply becomes `text`; the history follows while it only grows, or is cut back to
\* a beginning of what it was.
Becomes(text) ==
  /\ answer' = text
  /\ longest' = IF longest = None THEN None
                ELSE IF IsPrefix(LStrip(longest), LStrip(text)) THEN text
                ELSE IF IsPrefix(text, longest) THEN longest
                ELSE None

\* A chat event that does not end the turn.
Event(ev) ==
  LET fed == Feed(chat, ev) IN
  /\ run = "turn" /\ frames < MaxFrames /\ frames' = frames + 1
  /\ chat' = fed.tracker /\ queue' = Token(fed.token)
  /\ UNCHANGED <<caller, mode, run, failed, body, record>>

\* Text was added; the event may carry the whole.
Grow ==
  \E added \in BoundedSeq(Chars, MaxGrow), whole \in BOOLEAN :
    LET text == answer \o added IN
    /\ added # <<>> /\ Len(text) <= MaxText
    /\ Event([state |-> "delta", delta |-> added, replace |-> FALSE,
              message |-> IF whole THEN text ELSE None])
    /\ Becomes(text)

\* The text was replaced; the event should carry the whole again.
Replace ==
  \E text \in Texts, whole \in BOOLEAN :
    /\ Event([state |-> "delta", delta |-> text, replace |-> TRUE,
              message |-> IF whole THEN text ELSE None])
    /\ Becomes(text)

\* `aborted` and `status`: their message is no part of what is spoken.
Aside ==
  \E message \in {answer, None} :
    /\ Event([state |-> "aborted", delta |-> None, replace |-> FALSE, message |-> message])
    /\ UNCHANGED <<answer, longest>>

\* An event that ends the turn; it was completed only by a final.
EndTurn(ev, ok) ==
  LET fed == Feed(chat, ev) IN
  /\ run = "turn" /\ chat' = fed.tracker /\ RunEnds(Token(fed.token), ok)
  /\ UNCHANGED <<caller, mode, frames>>

\* The final event: with the whole reply, with its message unusable, or with a last delta.
FinalEvent(delta, message) ==
  [state |-> "final", delta |-> delta, replace |-> FALSE, message |-> message]
FinalWhole ==
  \E text \in Texts :
    /\ EndTurn(FinalEvent(None, text), TRUE) /\ Becomes(text)
FinalBare ==
  /\ EndTurn(FinalEvent(None, None), TRUE)
  /\ UNCHANGED <<answer, longest>>
FinalDelta ==
  \E added \in BoundedSeq(Chars, MaxGrow), message \in {None, <<>>} :
    LET text == answer \o added IN
    /\ Len(text) <= MaxText
    /\ EndTurn(FinalEvent(added, message), TRUE) /\ Becomes(text)

\* The agent failed after accepting the turn (#300): the delta of the event still goes out.
ErrorEvent ==
  \E added \in BoundedSeq(Chars, MaxGrow) :
    LET text == answer \o added IN
    /\ added # <<>> /\ Len(text) <= MaxText
    /\ EndTurn([state |-> "error", delta |-> added, replace |-> FALSE, message |-> None], FALSE)
    /\ Becomes(text)

\* An event of error without a delta, a refusal, the overflow of the turn, its timeout, a lost
\* connection.
TurnFails ==
  /\ run = "turn" /\ RunEnds(queue, FALSE)
  /\ UNCHANGED <<caller, mode, claw>>

\* The cancelled task closes the stream of events: its record says error, orchestrator_error
\* stays unset.  A cancelled plain handler answers nobody.
RunCut ==
  /\ run = "cancelled" /\ CloseRun(queue, "error")
  /\ gen' = IF mode = "plain" THEN "over" ELSE gen
  /\ UNCHANGED <<caller, mode, claw, failed, sent, finish>>

HandlerCut ==
  /\ mode = "plain" /\ run = "turn" /\ run' = "cancelled"
  /\ UNCHANGED <<caller, mode, claw, failed, queue, body, record>>

-----------------------------------------------------------------------------
(* The generator of the body.                                              *)

GenReads ==
  /\ gen = "reading" /\ queue # <<>>
  /\ queue' = Tail(queue)
  /\ IF Head(queue) = End
     THEN gen' = "finishing" /\ sent' = sent
     ELSE gen' = "writing" /\ sent' = sent \o Head(queue)
  /\ UNCHANGED <<caller, mode, claw, run, failed, finish, record>>

GenWrote ==
  /\ gen = "writing" /\ gen' = "reading"
  /\ UNCHANGED <<caller, mode, claw, run, failed, queue, sent, finish, record>>

\* The client is gone: the finally cancels a turn that still runs and waits for it.  The task
\* has had its first step by then: it was scheduled before the generator ever waited.
GenLeaves ==
  /\ gen \in {"reading", "writing"} /\ run # "ready"
  /\ IF run = "turn" THEN gen' = "leaving" /\ run' = "cancelled"
                     ELSE gen' = "over" /\ run' = run
  /\ UNCHANGED <<caller, mode, claw, failed, queue, sent, finish, record>>

\* The task ended, or whoever closes the stream is cancelled in turn.
GenLeft ==
  /\ gen = "leaving" /\ gen' = "over"
  /\ UNCHANGED <<caller, mode, claw, run, failed, queue, sent, finish, record>>

\* The last chunk and [DONE]; the client may still go away before it.
GenFinishes ==
  /\ gen = "finishing" /\ gen' = "over"
  /\ finish' \in {IF failed THEN "error" ELSE "stop", "none"}
  /\ UNCHANGED <<caller, mode, claw, run, failed, queue, sent, record>>

-----------------------------------------------------------------------------
Finals == FinalWhole \/ FinalBare \/ FinalDelta
Body   == GenReads \/ GenWrote \/ GenLeft \/ GenFinishes
Next ==
  \/ Refuse \/ Accept \/ BodyNever \/ BodyStarts
  \/ RunStarts \/ Grow \/ Replace \/ Aside
  \/ Finals \/ ErrorEvent \/ TurnFails \/ RunCut \/ HandlerCut
  \/ Body \/ GenLeaves

\* TurnFails stands for TURN_TIMEOUT_S too, which limits every wait for an event: a turn without a
\* final fails in the end if OpenClaw does not go on sending for ever, which is an assumption.
\* The tasks of the loop run, and a client that stays reads.
Fairness == WF_vars(RunStarts) /\ WF_vars(TurnFails) /\ WF_vars(RunCut) /\ WF_vars(Body)
Spec == Init /\ [][Next]_vars /\ Fairness

-----------------------------------------------------------------------------
(* Properties.                                                             *)

\* A client that is told the reply is complete was sent the final text of the reply, whole and
\* in one piece, whatever was added, cut back or replaced before it, but for leading blanks
\* (issues #241 and #243: "losing the reply is worse than repeating a fragment").
FinalTextArrives ==
  finish = "stop" => \E i \in 0..Len(sent) : IsPrefix(LStrip(answer), Drop(sent, i))

\* A reply that only grew, or was cut back to a beginning of itself and grew again, goes out
\* once: what was emitted is the longest the reply has been, no character missing and none
\* twice, whichever of delta, snapshot, replacement and final carried it.
NothingTwice ==
  longest # None => LStrip(Emitted) = LStrip(longest)

\* The record of a request says what became of it: decided when and only when the turn is over,
\* never completed for a turn that failed or that its client had cut, and active when the
\* response is over only if the body never began or its client left while the turn is being cut.
\* The client is told "stop" only for a completed one, after all of its text.
ReplyAccounted ==
  /\ TypeOK
  /\ run = "ended" <=> record \in {"completed", "error"}
  /\ failed \/ gen = "leaving" => record # "completed"
  /\ gen = "over" /\ record = "active" => run \in {"none", "cancelled"}
  /\ finish = "stop" => record = "completed" /\ (mode = "stream" => queue = <<>>)
  /\ finish = "error" => record = "error"

\* Every agent that GET /v1/models shows a caller is one a chat of that caller is answered by:
\* the policy of the list and the policy of the chat agree, by name.  The alias it shows names
\* no agent, so no roster can refuse it.
ListedIsSelectable ==
  caller # Absent =>
    \A model \in ListedModels(caller.config, caller.info) :
      LET answered == ChatAgent(model, caller.config, caller.info) IN
      IF model = Alias THEN answered.error # "not_available"
                       ELSE answered = [agent |-> model, error |-> "none"]

\* A turn that was started is accounted for whatever the client does, and a body that began
\* comes to its end, however the turn ends (G-26, G-37: the sentinel is put first, on every way
\* out).
EveryReplyEnds == /\ run = "ready" ~> record \in {"completed", "error"}
                  /\ gen = "reading" ~> gen = "over"
=============================================================================
