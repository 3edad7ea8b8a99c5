---------------------------- MODULE HttpReplyProofs ----------------------------
(***************************************************************************)
(* What holds of a request to the OpenAI-compatible API for all agents,    *)
(* lists and rosters, and for replies of any length: the agents a caller   *)
(* is shown, the record that says what became of the request, and the text *)
(* that reaches the client.  What is said of texts of any length is proved *)
(* by least counterexamples (LeastNumber), for the induction theorems of   *)
(* the library take an operator no prover here can be given.               *)
(***************************************************************************)
EXTENDS HttpReply, SequenceTheorems, FiniteSetTheorems, TLAPS

-----------------------------------------------------------------------------
(* Agents.                                                                 *)

\* The list of models and the chat apply the same policy, whatever was configured and announced.
LEMMA ListAgreesWithChat ==
  ASSUME NEW config, NEW info, info # Absent => info.agents \subseteq Agents,
         NEW model \in ListedModels(config, info)
  PROVE  LET answered == ChatAgent(model, config, info) IN
         IF model = Alias THEN answered.error # "not_available"
                          ELSE answered = [agent |-> model, error |-> "none"]
<1>1. CASE model = Alias
  BY <1>1 DEF ChatAgent, ResolveAgent, AgentFromModel
<1>2. CASE model # Alias
  <2>1. /\ config # Absent /\ info # Absent /\ model \in info.agents
        /\ config.allowed = NoLimit \/ model \in config.allowed
    BY <1>2 DEF ListedModels
  <2>2. model # NoAgent
    BY <2>1, AgentAssumption
  <2> QED BY <1>2, <2>1, <2>2 DEF ChatAgent, ResolveAgent, AgentFromModel, Effective
<1> QED BY <1>1, <1>2

CallerOK == caller \in Callers \cup {Absent}

LEMMA CallerTyped == Spec => []CallerOK
<1>1. Init => CallerOK
  BY DEF Init, CallerOK
<1>2. CallerOK /\ [Next]_vars => CallerOK'
  BY DEF CallerOK, Next, vars, Refuse, Accept, BodyNever, BodyStarts, RunStarts, Grow, Replace, Aside,
         Event, Finals, FinalWhole, FinalBare, FinalDelta, ErrorEvent, EndTurn, TurnFails, RunCut, HandlerCut,
         Body, GenReads, GenWrote, GenLeft, GenFinishes, GenLeaves
<1> QED BY <1>1, <1>2, PTL DEF Spec

\* Every agent that GET /v1/models shows a caller is one that a chat of that caller is answered
\* by, and the alias is refused for no roster.
THEOREM ListedCanBeChosen == Spec => []ListedIsSelectable
<1>1. CallerOK => ListedIsSelectable
  <2> SUFFICES ASSUME caller \in Callers, caller # Absent PROVE ListedIsSelectable
    BY DEF ListedIsSelectable, CallerOK
  <2>1. caller.info # Absent => caller.info.agents \subseteq Agents
    <3>1. caller.info \in [default : Agents \cup {NoAgent}, agents : SUBSET Agents] \cup {Absent}
      BY DEF Callers
    <3> QED BY <3>1
  <2> QED BY <2>1, ListAgreesWithChat DEF ListedIsSelectable
<1> QED BY <1>1, CallerTyped, PTL

-----------------------------------------------------------------------------
(* Texts.                                                                  *)

\* What is left of a text is a text.
LEMMA DropTyped ==
  ASSUME NEW s \in Seq(Chars), NEW n \in Nat
  PROVE  Drop(s, n) \in Seq(Chars)
BY SubSeqProperties DEF Drop

LEMMA LStripTyped ==
  ASSUME NEW s \in Seq(Chars)
  PROVE  LStrip(s) \in Seq(Chars)
<1> DEFINE B == {i \in DOMAIN s : \A j \in 1..i : s[j] = Blank}
<1>1. DOMAIN s = 1..Len(s) /\ Len(s) \in Nat
  OBVIOUS
<1>2. IsFiniteSet(B)
  <2>1. IsFiniteSet(1..Len(s))
    BY <1>1, FS_Interval
  <2> QED BY <1>1, <2>1, FS_Subset
<1>3. Cardinality(B) \in Nat
  BY <1>2, FS_CardinalityType
<1> QED BY <1>3, DropTyped DEF LStrip

LEMMA TailTyped ==
  ASSUME NEW e \in Seq(Chars), NEW t \in Seq(Chars)
  PROVE  TextTail(e, t).out \in Seq(Chars)
<1>1. LStrip(e) \in Seq(Chars) /\ LStrip(t) \in Seq(Chars)
  BY LStripTyped
<1>2. Drop(t, Len(e)) \in Seq(Chars) /\ Drop(LStrip(t), Len(LStrip(e))) \in Seq(Chars)
  BY <1>1, DropTyped
<1>3. <<>> \in Seq(Chars)
  OBVIOUS
<1> QED BY <1>2, <1>3 DEF TextTail

\* A tracker of texts, fed an event of texts, is one and gives out a text.
Tracker == [emitted : Seq(Chars), current : Seq(Chars), allOut : Seq(Chars)]
Fed     == [tracker : Tracker, token : Seq(Chars)]

LEMMA EmitMissingTyped ==
  ASSUME NEW t \in Tracker
  PROVE  EmitMissing(t) \in Fed
<1> DEFINE first == TextTail(t.emitted, t.current)
           hit   == IF first.fits # "no" THEN first ELSE TextTail(t.allOut, t.current)
<1>1. hit.out \in Seq(Chars) /\ t.allOut \o hit.out \in Seq(Chars) /\ t.current \in Seq(Chars)
  BY TailTyped DEF Tracker
<1>2. [t EXCEPT !.emitted = t.current, !.allOut = @ \o hit.out] \in Tracker
  BY <1>1 DEF Tracker
<1> HIDE DEF hit
<1> QED BY <1>1, <1>2 DEF EmitMissing, Fed, hit, first

LEMMA FeedTyped ==
  ASSUME NEW t \in Tracker, NEW ev,
         ev.delta \in Seq(Chars) \cup {None}, ev.message \in Seq(Chars) \cup {None}
  PROVE  Feed(t, ev) \in Fed
<1>1. NewTracker \in Tracker
  BY DEF NewTracker, Tracker
<1>2. ASSUME NEW text \in Seq(Chars) PROVE Added(t, text) \in Fed /\ Whole(t, text) \in Fed
  <2>1. t.current \o text \in Seq(Chars)
    BY DEF Tracker
  <2>2. [t EXCEPT !.current = t.current \o text] \in Tracker
    BY <2>1 DEF Tracker
  <2>3. [t EXCEPT !.current = text] \in Tracker
    BY DEF Tracker
  <2> QED BY <2>2, <2>3, EmitMissingTyped DEF Added, Whole
<1>3. Silent(t) \in Fed /\ EmitMissing(t) \in Fed
  BY EmitMissingTyped DEF Silent, Fed
<1>4. FeedFinal(t, ev) \in Fed
  <2> DEFINE whole == ev.message # None /\ (ev.message # <<>> \/ ev.delta = None)
             done  == IF whole THEN Whole(t, ev.message)
                      ELSE IF ev.delta # None THEN Added(t, ev.delta)
                      ELSE EmitMissing(t)
  <2>1. done \in Fed
    BY <1>2, <1>3
  <2> HIDE DEF done
  <2>2. [done EXCEPT !.tracker = NewTracker] \in Fed
    BY <1>1, <2>1 DEF Fed
  <2> QED BY <2>2 DEF FeedFinal, done
<1> QED BY <1>2, <1>3, <1>4 DEF Feed

-----------------------------------------------------------------------------
(* The record of a request.                                                *)

\* The texts of the model, and their pieces.
LEMMA TextsAreSeqs ==
  /\ Texts \subseteq Seq(Chars) /\ BoundedSeq(Chars, MaxGrow) \subseteq Seq(Chars)
  /\ \A s \in Seq(Chars) : Len(s) <= MaxText => s \in Texts
  /\ <<>> \in Texts
<1>1. \A n \in Nat : BoundedSeq(Chars, n) \subseteq Seq(Chars)
  BY DEF BoundedSeq, SeqOf
<1>2. ASSUME NEW s \in Seq(Chars), Len(s) <= MaxText PROVE s \in Texts
  <2>1. Len(s) \in 0..MaxText /\ s \in [1..Len(s) -> Chars]
    BY <1>2, ReplyAssumption
  <2> QED BY <2>1 DEF Texts, BoundedSeq, SeqOf
<1>3. <<>> \in Seq(Chars) /\ Len(<<>>) = 0
  OBVIOUS
<1>4. MaxText \in Nat /\ MaxGrow \in Nat
  BY ReplyAssumption
<1>5. Texts \subseteq Seq(Chars) /\ BoundedSeq(Chars, MaxGrow) \subseteq Seq(Chars)
  BY <1>1, <1>4 DEF Texts
<1>6. <<>> \in Texts
  <2>1. \A s \in Seq(Chars) : s = <<>> => Len(s) <= MaxText
    BY <1>4
  <2> QED BY <1>2, <1>3, <2>1
<1> QED BY <1>2, <1>5, <1>6

\* What is typed, and how the queue looks: no sentinel while the turn goes on, and afterwards
\* one at its end at most.
ReplyTyped ==
  /\ TypeOK
  /\ answer \in Texts /\ longest \in Texts \cup {None} /\ chat \in Tracker
  /\ queue \in Seq(Seq(Chars))
  /\ \A i \in 1..Len(queue) : queue[i] = End => run = "ended" /\ i = Len(queue)

\* Where the turn, the body and the record are, together.
Together ==
  /\ run = "ended" <=> record \in {"completed", "error"}
  /\ failed \/ gen = "leaving" => record # "completed"
  /\ failed => record = "error"
  /\ gen \in {"reading", "writing", "finishing"} /\ run = "ended" /\ ~failed
       => record = "completed"
  /\ run \in {"ready", "turn", "cancelled"} => record = "active"
  /\ caller # Absent => run = "none" /\ record = "none" /\ gen = "none"
  /\ record = "none" => gen \in {"none", "over"}
  /\ gen \in {"unstarted", "reading", "writing", "leaving", "finishing"} => mode = "stream"
  /\ gen = "unstarted" => run = "none"
  /\ gen = "leaving" => run \in {"cancelled", "ended"}
  /\ run = "cancelled" => gen \in {"none", "leaving", "over"}
  /\ gen = "finishing" => run = "ended" /\ queue = <<>>
  /\ gen = "over" /\ record = "active" => run \in {"none", "cancelled"}
  /\ finish # "none" => gen = "over" /\ run = "ended"
  /\ finish = "stop" => record = "completed" /\ (mode = "stream" => queue = <<>>)
  /\ finish = "error" => failed

Accounted == ReplyTyped /\ Together

LEMMA AccountedInit == Init => Accounted
<1> SUFFICES ASSUME Init PROVE Accounted
  OBVIOUS
<1>1. failed \in BOOLEAN /\ ~failed
  BY Zenon DEF Init
<1>2. chat \in Tracker /\ queue = <<>> /\ queue \in Seq(Seq(Chars))
  BY DEF Init, NewTracker, Tracker
<1>3. TypeOK
  BY <1>1, TextsAreSeqs, ReplyAssumption DEF Init, TypeOK
<1>4. ReplyTyped
  BY <1>2, <1>3, TextsAreSeqs DEF Init, ReplyTyped
<1>5. Together
  BY <1>1 DEF Init, Together
<1> QED BY <1>4, <1>5 DEF Accounted

\* A token joins the queue, or an empty one does not.
LEMMA TokenTyped ==
  ASSUME Accounted, run = "turn", NEW text \in Seq(Chars)
  PROVE  /\ Token(text) \in Seq(Seq(Chars))
         /\ \A i \in 1..Len(Token(text)) : Token(text)[i] # End
<1>1. queue \in Seq(Seq(Chars)) /\ \A i \in 1..Len(queue) : queue[i] # End
  BY DEF Accounted, ReplyTyped
<1>2. CASE text = <<>>
  BY <1>1, <1>2 DEF Token
<1>3. CASE text # <<>>
  BY <1>1, <1>3, AppendProperties DEF Token, End
<1> QED BY <1>2, <1>3

\* The end of the turn puts the sentinel last and closes the record.
LEMMA CloseRunTyped ==
  ASSUME Accounted, NEW tokens \in Seq(Seq(Chars)), \A i \in 1..Len(tokens) : tokens[i] # End,
         NEW status, CloseRun(tokens, status)
  PROVE  /\ queue' \in Seq(Seq(Chars))
         /\ \A i \in 1..Len(queue') : queue'[i] = End => i = Len(queue')
         /\ run' = "ended" /\ record' = status
<1>1. End \in Seq(Chars) /\ queue' = Append(tokens, End)
  BY DEF CloseRun, End
<1>2. /\ Append(tokens, End) \in Seq(Seq(Chars))
      /\ \A i \in 1..Len(Append(tokens, End)) : Append(tokens, End)[i] = End
            => i = Len(Append(tokens, End))
  BY <1>1, AppendProperties
<1> QED BY <1>1, <1>2 DEF CloseRun

\* The handler, and the first steps of the body and of the turn.
LEMMA HandlerAccounted ==
  Accounted /\ (Refuse \/ Accept \/ BodyNever \/ BodyStarts \/ RunStarts \/ HandlerCut)
    => Accounted'
<1> SUFFICES ASSUME Accounted, Refuse \/ Accept \/ BodyNever \/ BodyStarts \/ RunStarts \/ HandlerCut
             PROVE  Accounted'
  OBVIOUS
<1> USE DEF Accounted, ReplyTyped, TypeOK, Together, claw, body
<1>1. CASE Refuse
  BY <1>1 DEF Refuse
<1>2. CASE Accept
  BY <1>2 DEF Accept
<1>3. CASE BodyNever
  BY <1>3 DEF BodyNever
<1>4. CASE BodyStarts
  BY <1>4 DEF BodyStarts
<1>5. CASE RunStarts
  BY <1>5 DEF RunStarts
<1>6. CASE HandlerCut
  BY <1>6 DEF HandlerCut
<1> QED BY <1>1, <1>2, <1>3, <1>4, <1>5, <1>6

\* An event of the reply: it brings texts, and the tracker makes texts of them.
LEMMA EventAccounted ==
  ASSUME Accounted, NEW ev, Event(ev),
         ev.delta \in Seq(Chars) \cup {None}, ev.message \in Seq(Chars) \cup {None},
         answer' \in Texts, longest' \in Texts \cup {None}
  PROVE  Accounted'
<1>1. /\ run = "turn" /\ frames < MaxFrames /\ frames' = frames + 1
      /\ chat' = Feed(chat, ev).tracker /\ queue' = Token(Feed(chat, ev).token)
      /\ UNCHANGED <<caller, mode, run, failed, sent, gen, finish, record>>
  BY DEF Event, body
<1>2. Feed(chat, ev) \in Fed
  BY FeedTyped DEF Accounted, ReplyTyped
<1>3. /\ chat' \in Tracker /\ queue' \in Seq(Seq(Chars))
      /\ \A i \in 1..Len(queue') : queue'[i] # End
  BY <1>1, <1>2, TokenTyped DEF Fed
<1>4. TypeOK'
  BY <1>1, ReplyAssumption DEF Accounted, ReplyTyped, TypeOK
<1>5. ReplyTyped'
  BY <1>3, <1>4 DEF ReplyTyped
<1>6. Together'
  BY <1>1 DEF Accounted, Together
<1> QED BY <1>5, <1>6 DEF Accounted

\* What becomes of the reply is a text.
LEMMA BecomesTyped ==
  ASSUME Accounted, NEW text \in Texts, Becomes(text)
  PROVE  answer' \in Texts /\ longest' \in Texts \cup {None}
BY DEF Becomes, Accounted, ReplyTyped

LEMMA AnswerGrows ==
  ASSUME Accounted, NEW added \in BoundedSeq(Chars, MaxGrow), Len(answer \o added) <= MaxText
  PROVE  answer \o added \in Texts /\ added \in Seq(Chars) /\ answer \in Seq(Chars)
<1>1. answer \in Seq(Chars) /\ added \in Seq(Chars)
  BY TextsAreSeqs DEF Accounted, ReplyTyped
<1>2. answer \o added \in Seq(Chars)
  BY <1>1
<1> QED BY <1>1, <1>2, TextsAreSeqs

LEMMA EventsAccounted == Accounted /\ (Grow \/ Replace \/ Aside) => Accounted'
<1> SUFFICES ASSUME Accounted, Grow \/ Replace \/ Aside PROVE Accounted'
  OBVIOUS
<1>1. CASE Grow
  <2>1. PICK added \in BoundedSeq(Chars, MaxGrow), whole \in BOOLEAN :
          /\ Len(answer \o added) <= MaxText
          /\ Event([state |-> "delta", delta |-> added, replace |-> FALSE,
                    message |-> IF whole THEN answer \o added ELSE None])
          /\ Becomes(answer \o added)
    BY <1>1 DEF Grow
  <2>2. answer \o added \in Texts /\ answer \o added \in Seq(Chars) /\ added \in Seq(Chars)
    BY <2>1, AnswerGrows, TextsAreSeqs
  <2> QED BY <2>1, <2>2, BecomesTyped, EventAccounted
<1>2. CASE Replace
  <2>1. PICK text \in Texts, whole \in BOOLEAN :
          /\ Event([state |-> "delta", delta |-> text, replace |-> TRUE,
                    message |-> IF whole THEN text ELSE None])
          /\ Becomes(text)
    BY <1>2 DEF Replace
  <2> QED BY <2>1, BecomesTyped, EventAccounted, TextsAreSeqs
<1>3. CASE Aside
  <2>1. PICK message \in {answer, None} :
          /\ Event([state |-> "aborted", delta |-> None, replace |-> FALSE,
                    message |-> message])
          /\ UNCHANGED <<answer, longest>>
    BY <1>3 DEF Aside
  <2>2. answer \in Texts /\ longest \in Texts \cup {None} /\ answer \in Seq(Chars)
    BY TextsAreSeqs DEF Accounted, ReplyTyped
  <2> QED BY <2>1, <2>2, EventAccounted
<1> QED BY <1>1, <1>2, <1>3

\* The end of a turn, with or without success.
LEMMA EndAccounted ==
  ASSUME Accounted, NEW tokens \in Seq(Seq(Chars)), \A i \in 1..Len(tokens) : tokens[i] # End,
         NEW ok \in BOOLEAN, run = "turn", RunEnds(tokens, ok),
         UNCHANGED <<caller, mode, frames>>, chat' \in Tracker,
         answer' \in Texts, longest' \in Texts \cup {None}
  PROVE  Accounted'
<1>1. /\ queue' \in Seq(Seq(Chars))
      /\ \A i \in 1..Len(queue') : queue'[i] = End => i = Len(queue')
      /\ run' = "ended" /\ failed' \in BOOLEAN /\ record' \in {"completed", "error"}
      /\ (failed' <=> ~ok) /\ (record' = "completed" <=> ok)
  <2>1. CloseRun(tokens, IF ok THEN "completed" ELSE "error")
    BY DEF RunEnds
  <2>2. failed' \in BOOLEAN /\ (failed' <=> ~ok)
    BY Zenon DEF RunEnds
  <2>3. /\ queue' \in Seq(Seq(Chars))
        /\ \A i \in 1..Len(queue') : queue'[i] = End => i = Len(queue')
        /\ run' = "ended" /\ record' = IF ok THEN "completed" ELSE "error"
    BY <2>1, CloseRunTyped
  <2> QED BY <2>2, <2>3
<1>2. record = "active" /\ finish = "none" /\ gen # "over"
  BY DEF Accounted, Together, ReplyTyped, TypeOK
<1>3. CASE mode = "plain"
  <2>1. gen' = "over" /\ finish' = (IF ok THEN "stop" ELSE "error")
    BY <1>3 DEF RunEnds
  <2>2. TypeOK'
    BY <1>1, <2>1 DEF Accounted, ReplyTyped, TypeOK
  <2>3. Together'
    BY <1>1, <1>2, <1>3, <2>1 DEF Accounted, Together
  <2> QED BY <1>1, <2>2, <2>3 DEF Accounted, ReplyTyped
<1>4. CASE mode # "plain"
  <2>1. UNCHANGED <<gen, finish>>
    BY <1>4 DEF RunEnds, body
  <2>2. TypeOK'
    BY <1>1, <2>1 DEF Accounted, ReplyTyped, TypeOK
  <2>3. Together'
    BY <1>1, <1>2, <1>4, <2>1 DEF Accounted, Together
  <2> QED BY <1>1, <2>2, <2>3 DEF Accounted, ReplyTyped
<1> QED BY <1>3, <1>4

LEMMA FinalsAccounted ==
  Accounted /\ (Finals \/ ErrorEvent \/ TurnFails \/ RunCut) => Accounted'
<1> SUFFICES ASSUME Accounted, Finals \/ ErrorEvent \/ TurnFails \/ RunCut PROVE Accounted'
  OBVIOUS
<1>0. TRUE \in BOOLEAN /\ FALSE \in BOOLEAN
  OBVIOUS
<1>1. ASSUME NEW ev, NEW ok \in BOOLEAN, EndTurn(ev, ok),
             ev.delta \in Seq(Chars) \cup {None}, ev.message \in Seq(Chars) \cup {None},
             answer' \in Texts, longest' \in Texts \cup {None}
      PROVE  Accounted'
  <2>1. /\ run = "turn" /\ chat' = Feed(chat, ev).tracker
        /\ RunEnds(Token(Feed(chat, ev).token), ok)
        /\ UNCHANGED <<caller, mode, frames>>
    BY <1>1 DEF EndTurn
  <2>2. Feed(chat, ev) \in Fed
    BY <1>1, FeedTyped DEF Accounted, ReplyTyped
  <2>3. chat' \in Tracker /\ Feed(chat, ev).token \in Seq(Chars)
    BY <2>1, <2>2 DEF Fed
  <2>4. /\ Token(Feed(chat, ev).token) \in Seq(Seq(Chars))
        /\ \A i \in 1..Len(Token(Feed(chat, ev).token)) : Token(Feed(chat, ev).token)[i] # End
    BY <2>1, <2>3, TokenTyped
  <2> QED BY <1>1, <2>1, <2>3, <2>4, EndAccounted
<1>2. CASE FinalWhole
  <2>1. PICK text \in Texts : EndTurn(FinalEvent(None, text), TRUE) /\ Becomes(text)
    BY <1>2 DEF FinalWhole
  <2> QED BY <1>0, <1>1, <2>1, BecomesTyped, TextsAreSeqs DEF FinalEvent
<1>3. CASE FinalBare
  BY <1>0, <1>1, <1>3 DEF FinalBare, FinalEvent, Accounted, ReplyTyped
<1>4. CASE FinalDelta
  <2>1. PICK added \in BoundedSeq(Chars, MaxGrow), message \in {None, <<>>} :
          /\ Len(answer \o added) <= MaxText
          /\ EndTurn(FinalEvent(added, message), TRUE) /\ Becomes(answer \o added)
    BY <1>4 DEF FinalDelta
  <2>2. answer \o added \in Texts /\ added \in Seq(Chars) /\ <<>> \in Seq(Chars)
    BY <2>1, AnswerGrows
  <2> QED BY <1>0, <1>1, <2>1, <2>2, BecomesTyped DEF FinalEvent
<1>5. CASE ErrorEvent
  <2>1. PICK added \in BoundedSeq(Chars, MaxGrow) :
          /\ Len(answer \o added) <= MaxText
          /\ EndTurn([state |-> "error", delta |-> added, replace |-> FALSE, message |-> None],
                     FALSE)
          /\ Becomes(answer \o added)
    BY <1>5 DEF ErrorEvent
  <2>2. answer \o added \in Texts /\ added \in Seq(Chars)
    BY <2>1, AnswerGrows
  <2> QED BY <1>0, <1>1, <2>1, <2>2, BecomesTyped
<1>6. CASE TurnFails
  <2>1. run = "turn" /\ RunEnds(queue, FALSE) /\ UNCHANGED <<caller, mode, claw>>
    BY <1>6 DEF TurnFails
  <2>2. queue \in Seq(Seq(Chars)) /\ \A i \in 1..Len(queue) : queue[i] # End
    BY <2>1 DEF Accounted, ReplyTyped
  <2>3. /\ FALSE \in BOOLEAN /\ chat' \in Tracker
        /\ answer' \in Texts /\ longest' \in Texts \cup {None} /\ UNCHANGED <<caller, mode, frames>>
    BY <2>1 DEF claw, Accounted, ReplyTyped
  <2> QED BY <2>1, <2>2, <2>3, EndAccounted
<1>7. CASE RunCut
  <2>1. /\ run = "cancelled" /\ CloseRun(queue, "error")
        /\ gen' = (IF mode = "plain" THEN "over" ELSE gen)
        /\ UNCHANGED <<caller, mode, claw, failed, sent, finish>>
    BY <1>7 DEF RunCut
  <2>2. queue \in Seq(Seq(Chars)) /\ \A i \in 1..Len(queue) : queue[i] # End
    BY <2>1 DEF Accounted, ReplyTyped
  <2>3. /\ queue' \in Seq(Seq(Chars))
        /\ \A i \in 1..Len(queue') : queue'[i] = End => i = Len(queue')
        /\ run' = "ended" /\ record' = "error"
    BY <2>1, <2>2, CloseRunTyped
  <2>4. finish = "none" /\ record = "active" /\ gen \in {"none", "leaving", "over"}
    BY <2>1 DEF Accounted, Together, ReplyTyped, TypeOK
  <2>5. TypeOK'
    BY <2>1, <2>3 DEF claw, Accounted, ReplyTyped, TypeOK
  <2>6. Together'
    BY <2>1, <2>3, <2>4 DEF Accounted, Together
  <2> QED BY <2>1, <2>3, <2>5, <2>6 DEF claw, Accounted, ReplyTyped
<1> QED BY <1>2, <1>3, <1>4, <1>5, <1>6, <1>7 DEF Finals

\* The body takes the tokens in order, and the sentinel is the last it takes.
LEMMA BodyAccounted == Accounted /\ (Body \/ GenLeaves) => Accounted'
<1> SUFFICES ASSUME Accounted, Body \/ GenLeaves PROVE Accounted'
  OBVIOUS
<1>1. CASE GenReads
  <2>1. /\ gen = "reading" /\ queue # <<>> /\ queue' = Tail(queue)
        /\ UNCHANGED <<caller, mode, claw, run, failed, finish, record>>
        /\ IF Head(queue) = End THEN gen' = "finishing" ELSE gen' = "writing"
    BY <1>1 DEF GenReads
  <2>2. /\ queue \in Seq(Seq(Chars)) /\ Len(queue) \in Nat \ {0}
        /\ \A i \in 1..Len(queue) : queue[i] = End => run = "ended" /\ i = Len(queue)
    BY <2>1, EmptySeq, LenProperties DEF Accounted, ReplyTyped
  <2>3. /\ queue' \in Seq(Seq(Chars)) /\ Len(queue') = Len(queue) - 1
        /\ \A i \in 1..Len(queue') : queue'[i] = queue[i + 1]
    BY <2>1, <2>2, HeadTailProperties
  <2>4. \A i \in 1..Len(queue') : queue'[i] = End => run = "ended" /\ i = Len(queue')
    BY <2>2, <2>3
  <2>5. Head(queue) = End => run = "ended" /\ queue' = <<>>
    <3> SUFFICES ASSUME Head(queue) = End PROVE run = "ended" /\ queue' = <<>>
      OBVIOUS
    <3>1. run = "ended" /\ Len(queue) = 1
      <4>1. queue[1] = End /\ 1 \in 1..Len(queue)
        BY <2>2
      <4> QED BY <2>2, <4>1
    <3> QED BY <2>3, <3>1, EmptySeq
  <2>6. ReplyTyped'
    BY <2>1, <2>3, <2>4 DEF claw, Accounted, ReplyTyped, TypeOK
  <2>7. Together'
    BY <2>1, <2>5 DEF Accounted, Together
  <2> QED BY <2>6, <2>7 DEF Accounted
<1>2. CASE GenWrote
  BY <1>2 DEF GenWrote, claw, Accounted, ReplyTyped, TypeOK, Together
<1>3. CASE GenLeaves
  <2>1. finish = "none"
    BY <1>3 DEF GenLeaves, Accounted, Together, ReplyTyped, TypeOK
  <2> QED BY <1>3, <2>1 DEF GenLeaves, claw, Accounted, ReplyTyped, TypeOK, Together
<1>4. CASE GenLeft
  BY <1>4 DEF GenLeft, claw, Accounted, ReplyTyped, TypeOK, Together
<1>5. CASE GenFinishes
  BY <1>5 DEF GenFinishes, claw, Accounted, ReplyTyped, TypeOK, Together
<1> QED BY <1>1, <1>2, <1>3, <1>4, <1>5 DEF Body

\* No step takes a request out of its account.
LEMMA AccountedStep == Accounted /\ [Next]_vars => Accounted'
<1>1. CASE UNCHANGED vars
  BY <1>1 DEF vars, claw, body, Accounted, ReplyTyped, TypeOK, Together
<1> QED BY <1>1, HandlerAccounted, EventsAccounted, FinalsAccounted, BodyAccounted DEF Next

\* The record of a request says what became of it, for replies and agents of any number.
THEOREM EveryReplyIsAccountedFor == Spec => []ReplyAccounted
<1>1. Accounted => ReplyAccounted
  BY DEF Accounted, ReplyTyped, Together, ReplyAccounted, TypeOK
<1> QED BY <1>1, AccountedStep, AccountedInit, PTL DEF Spec

-----------------------------------------------------------------------------
(* Numbers.                                                                *)

\* Every set of numbers that is not empty has a least one: the sets of the numbers below each are
\* well founded by inclusion.
LEMMA LeastNumber ==
  ASSUME NEW A \in SUBSET Nat, A # {}
  PROVE  \E n \in A : \A m \in A : n <= m
<1> DEFINE Below(n) == {k \in Nat : k < n}
           T        == {Below(n) : n \in A}
           R        == StrictSubsetOrdering(Nat)
           F        == FiniteSubsetsOf(Nat)
<1>1. IsWellFoundedOn(R, F)
  BY FS_StrictSubsetOrderingWellFounded
<1>2. T \subseteq F
  <2> SUFFICES ASSUME NEW n \in A PROVE Below(n) \in F
    OBVIOUS
  <2>1. Below(n) \in SUBSET Nat /\ n \in Nat /\ \A k \in Below(n) : k <= n
    OBVIOUS
  <2>2. IsFiniteSet(Below(n))
    BY <2>1, FS_BoundedSetOfNaturals
  <2> QED BY <2>1, <2>2 DEF FiniteSubsetsOf
<1>3. T # {}
  OBVIOUS
<1>4. PICK x \in T : \A y \in T : ~ (<<y, x>> \in R)
  <2> HIDE DEF T, R, F
  <2> QED BY <1>1, <1>2, <1>3, WFMin
<1>5. PICK n \in A : x = Below(n)
  OBVIOUS
<1>6. ASSUME NEW m \in A, m < n PROVE FALSE
  <2>1. Below(m) \subseteq Below(n) /\ m \in Below(n) /\ m \notin Below(m)
    BY <1>6
  <2>2. Below(m) \in SUBSET Nat /\ Below(n) \in SUBSET Nat /\ Below(m) # Below(n)
    BY <2>1
  <2>3. <<Below(m), Below(n)>> \in R
    BY <2>1, <2>2 DEF StrictSubsetOrdering
  <2> QED BY <1>4, <1>5, <2>3
<1> QED BY <1>6

-----------------------------------------------------------------------------
(* Texts put together.                                                     *)

\* The texts that a reply is made of.
Strings == Seq(Chars)

\* What is known of texts put together.
LEMMA Glued ==
  /\ <<>> \in Strings
  /\ \A x, y \in Strings : x \o y \in Strings
  /\ \A x \in Strings : <<>> \o x = x /\ x \o <<>> = x
  /\ \A x, y, z \in Strings : (x \o y) \o z = x \o (y \o z)
<1>1. <<>> \in Seq(Chars) /\ \A x \in Seq(Chars) : <<>> \o x = x /\ x \o <<>> = x
  OBVIOUS
<1>2. \A x, y \in Seq(Chars) : x \o y \in Seq(Chars)
  BY ConcatProperties
<1>3. \A x, y, z \in Seq(Chars) : (x \o y) \o z = x \o (y \o z)
  BY ConcatAssociative
<1> QED BY <1>1, <1>2, <1>3 DEF Strings

\* g[i] is the first i texts of q in one.
Joins(g, q) == \A i \in 1..Len(q) : g[i] = IF i = 1 THEN q[i] ELSE g[i - 1] \o q[i]

\* There is such a g.
LEMMA JoinExists ==
  ASSUME NEW q \in Seq(Strings)
  PROVE  \E g \in [1..Len(q) -> Strings] : Joins(g, q)
<1> DEFINE Good(n) == \E g \in [1..n -> Strings] :
                        \A i \in 1..n : g[i] = IF i = 1 THEN q[i] ELSE g[i - 1] \o q[i]
           Bad     == {n \in 0..Len(q) : ~ Good(n)}
<1>1. Len(q) \in Nat /\ \A i \in 1..Len(q) : q[i] \in Strings
  OBVIOUS
<1>2. ASSUME Bad # {} PROVE FALSE
  <2>1. PICK n \in Bad : \A m \in Bad : n <= m
    <3>1. Bad \in SUBSET Nat
      BY <1>1
    <3> QED BY <1>2, <3>1, LeastNumber
  <2>2. n # 0
    <3>1. Good(0)
      <4>1. [i \in 1..0 |-> <<>>] \in [1..0 -> Strings] /\ 1..0 = {}
        OBVIOUS
      <4> QED BY <4>1
    <3> QED BY <2>1, <3>1
  <2>3. n - 1 \in 0..Len(q) /\ n \in 1..Len(q)
    BY <1>1, <2>1, <2>2
  <2>4. PICK g \in [1..(n - 1) -> Strings] :
          \A i \in 1..(n - 1) : g[i] = IF i = 1 THEN q[i] ELSE g[i - 1] \o q[i]
    <3>1. Good(n - 1)
      <4>1. n - 1 \notin Bad
        <5> HIDE DEF Bad
        <5> QED BY <2>1, <2>3
      <4> QED BY <2>3, <4>1
    <3> QED BY <3>1
  <2> DEFINE last == IF n = 1 THEN q[n] ELSE g[n - 1] \o q[n]
             h    == [i \in 1..n |-> IF i = n THEN last ELSE g[i]]
  <2>5. last \in Strings
    <3>1. CASE n = 1
      BY <1>1, <2>3, <3>1
    <3>2. CASE n # 1
      <4>1. g[n - 1] \in Strings /\ q[n] \in Strings
        BY <1>1, <2>3, <2>4, <3>2
      <4>2. g[n - 1] \o q[n] \in Strings
        BY <4>1 DEF Strings
      <4> QED BY <3>2, <4>2
    <3> QED BY <3>1, <3>2
  <2> HIDE DEF last
  <2>6. h \in [1..n -> Strings]
    BY <2>3, <2>4, <2>5
  <2>7. \A i \in 1..n : h[i] = IF i = 1 THEN q[i] ELSE h[i - 1] \o q[i]
    <3> SUFFICES ASSUME NEW i \in 1..n PROVE h[i] = IF i = 1 THEN q[i] ELSE h[i - 1] \o q[i]
      OBVIOUS
    <3>1. CASE i = n
      <4>1. h[i] = last /\ (n # 1 => h[n - 1] = g[n - 1])
        BY <2>3, <3>1
      <4> QED BY <3>1, <4>1 DEF last
    <3>2. CASE i # n
      <4>1. i \in 1..(n - 1) /\ h[i] = g[i] /\ (i # 1 => h[i - 1] = g[i - 1])
        BY <2>3, <3>2
      <4> QED BY <2>4, <4>1
    <3> QED BY <3>1, <3>2
  <2>8. Good(n)
    BY <2>6, <2>7
  <2> QED BY <2>1, <2>8
<1>3. Good(Len(q))
  BY <1>1, <1>2
<1> QED BY <1>3 DEF Joins

\* FlattenSeq of the community modules is the last text of any such g.
LEMMA FlattenIsJoin ==
  ASSUME NEW q \in Seq(Strings), q # <<>>, NEW g \in [1..Len(q) -> Strings], Joins(g, q)
  PROVE  FlattenSeq(q) = g[Len(q)]
<1> DEFINE F(f) == f = [i \in 1..Len(q) |-> IF i = 1 THEN q[i] ELSE f[i - 1] \o q[i]]
           c    == CHOOSE f : F(f)
<1>1. Len(q) \in Nat /\ Len(q) # 0
  BY EmptySeq
<1>2. F(g)
  BY DEF Joins
<1>3. F(c)
  BY <1>2
<1>4. FlattenSeq(q) = c[Len(q)]
  BY <1>1 DEF FlattenSeq
<1>5. \A i \in 1..Len(q) : c[i] = IF i = 1 THEN q[i] ELSE c[i - 1] \o q[i]
  BY <1>3
<1> DEFINE Bad == {i \in 1..Len(q) : c[i] # g[i]}
<1> HIDE DEF c, F
<1>6. ASSUME Bad # {} PROVE FALSE
  <2>1. PICK n \in Bad : \A m \in Bad : n <= m
    <3>1. Bad \in SUBSET Nat
      BY <1>1
    <3> QED BY <1>6, <3>1, LeastNumber
  <2>2. CASE n = 1
    BY <1>5, <2>1, <2>2 DEF Joins
  <2>3. CASE n # 1
    <3>1. n - 1 \in 1..Len(q) /\ n - 1 \notin Bad
      BY <1>1, <2>1, <2>3
    <3> QED BY <1>5, <2>1, <2>3, <3>1 DEF Joins
  <2> QED BY <2>2, <2>3
<1> QED BY <1>1, <1>4, <1>6

\* FlattenSeq of texts is a text, and a text put behind them is behind it.
LEMMA FlattenAppend ==
  ASSUME NEW q \in Seq(Strings), NEW x \in Strings
  PROVE  /\ FlattenSeq(q) \in Strings
         /\ FlattenSeq(Append(q, x)) = FlattenSeq(q) \o x
<1> DEFINE p == Append(q, x)
           n == Len(q)
<1>1. /\ p \in Seq(Strings) /\ p # <<>> /\ Len(p) = n + 1 /\ n \in Nat /\ p[n + 1] = x
      /\ \A i \in 1..n : p[i] = q[i]
  OBVIOUS
<1>2. PICK g \in [1..Len(p) -> Strings] : Joins(g, p)
  BY <1>1, JoinExists
<1>3. FlattenSeq(p) = g[n + 1]
  BY <1>1, <1>2, FlattenIsJoin
<1> HIDE DEF p, n
<1>4. CASE q = <<>>
  <2>1. n = 0 /\ FlattenSeq(q) = <<>>
    BY <1>4 DEF n, FlattenSeq
  <2>2. g[1] = x
    BY <1>1, <1>2, <2>1 DEF Joins
  <2>3. <<>> \in Strings /\ <<>> \o x = x
    BY DEF Strings
  <2> QED BY <1>3, <2>1, <2>2, <2>3 DEF p
<1>5. CASE q # <<>>
  <2> DEFINE h == [i \in 1..n |-> g[i]]
  <2>1. n # 0
    BY <1>5 DEF n
  <2>2. h \in [1..n -> Strings]
    BY <1>1, <1>2
  <2>3. Joins(h, q)
    <3> SUFFICES ASSUME NEW i \in 1..n PROVE h[i] = IF i = 1 THEN q[i] ELSE h[i - 1] \o q[i]
      BY DEF Joins, n
    <3>1. g[i] = IF i = 1 THEN p[i] ELSE g[i - 1] \o p[i]
      <4>1. i \in 1..Len(p)
        BY <1>1
      <4> QED BY <1>2, <4>1 DEF Joins
    <3>2. h[i] = g[i] /\ (i # 1 => h[i - 1] = g[i - 1]) /\ p[i] = q[i]
      BY <1>1
    <3> QED BY <3>1, <3>2
  <2>4. FlattenSeq(q) = g[n]
    <3>1. h[n] = g[n]
      BY <1>1, <2>1
    <3> HIDE DEF h
    <3> QED BY <1>5, <2>2, <2>3, <3>1, FlattenIsJoin DEF n
  <2>5. g[n + 1] = g[n] \o x
    <3>1. n + 1 \in 1..Len(p) /\ n + 1 # 1 /\ (n + 1) - 1 = n
      BY <1>1, <2>1
    <3>2. g[n + 1] = g[(n + 1) - 1] \o p[n + 1]
      BY <1>2, <3>1 DEF Joins
    <3> QED BY <1>1, <3>1, <3>2
  <2>6. g[n] \in Strings
    BY <1>1, <1>2, <2>1
  <2> QED BY <1>3, <2>4, <2>5, <2>6 DEF p
<1> QED BY <1>4, <1>5

\* A text put before the texts is before all they make.
LEMMA FlattenFirst ==
  ASSUME NEW q \in Seq(Strings), NEW x \in Strings
  PROVE  FlattenSeq(<<x>> \o q) = x \o FlattenSeq(q)
<1> DEFINE Good(r) == FlattenSeq(<<x>> \o r) = x \o FlattenSeq(r)
           Bad     == {n \in Nat : \E r \in Seq(Strings) : Len(r) = n /\ ~ Good(r)}
<1>1. ASSUME Bad # {} PROVE FALSE
  <2>1. PICK n \in Bad : \A m \in Bad : n <= m
    BY <1>1, LeastNumber
  <2>2. PICK r \in Seq(Strings) : Len(r) = n /\ ~ Good(r)
    BY <2>1
  <2>3. CASE r = <<>>
    <3>1. <<x>> \o r = Append(<<>>, x) /\ <<>> \in Seq(Strings) /\ x \in Seq(Chars)
      BY <2>3 DEF Strings
    <3>2. FlattenSeq(<<>>) = <<>> /\ <<>> \o x = x /\ x \o <<>> = x
      <4>1. FlattenSeq(<<>>) = <<>>
        BY DEF FlattenSeq
      <4> QED BY <3>1, <4>1, Glued
    <3>3. FlattenSeq(<<x>> \o r) = x
      BY <3>1, <3>2, FlattenAppend
    <3> QED BY <2>2, <2>3, <3>2, <3>3
  <2>4. CASE r # <<>>
    <3>1. PICK o \in Seq(Strings), y \in Strings : r = Append(o, y) /\ Len(o) = n - 1
      <4>1. n \in Nat /\ n # 0 /\ n - 1 \in Nat
        BY <2>1, <2>2, <2>4
      <4> DEFINE o == SubSeq(r, 1, n - 1)
      <4>2. /\ o \in Seq(Strings) /\ Len(o) = n - 1 /\ r[n] \in Strings
            /\ \A i \in 1..(n - 1) : o[i] = r[i]
        BY <2>2, <4>1
      <4> HIDE DEF o
      <4>3. /\ Append(o, r[n]) \in Seq(Strings) /\ Len(Append(o, r[n])) = n
            /\ \A i \in 1..n : Append(o, r[n])[i] = r[i]
        BY <4>1, <4>2, AppendProperties
      <4>4. Append(o, r[n]) = r
        BY <2>2, <4>3, SeqEqual
      <4> QED BY <4>2, <4>4
    <3>2. Good(o)
      <4>1. n - 1 \in Nat /\ n - 1 \notin Bad
        <5>1. n \in Nat /\ n # 0
          BY <2>1, <2>2, <2>4
        <5> HIDE DEF Bad
        <5> QED BY <2>1, <5>1
      <4> QED BY <3>1, <4>1
    <3>3. <<x>> \o r = Append(<<x>> \o o, y) /\ <<x>> \o o \in Seq(Strings)
      BY <3>1
    <3>4. FlattenSeq(<<x>> \o r) = FlattenSeq(<<x>> \o o) \o y
      BY <3>3, FlattenAppend
    <3>5. FlattenSeq(r) = FlattenSeq(o) \o y /\ FlattenSeq(o) \in Strings
      BY <3>1, FlattenAppend
    <3>6. (x \o FlattenSeq(o)) \o y = x \o (FlattenSeq(o) \o y)
      BY <3>5, Glued
    <3> QED BY <2>2, <3>2, <3>4, <3>5, <3>6
  <2> QED BY <2>3, <2>4
<1>2. Good(q)
  <2>1. Len(q) \in Nat /\ Len(q) \notin Bad
    <3> HIDE DEF Bad
    <3> QED BY <1>1
  <2> QED BY <2>1
<1> QED BY <1>2

-----------------------------------------------------------------------------
(* Prefixes and leading blanks.                                            *)

\* What is left of a text behind a prefix of it.
LEMMA PrefixIs ==
  ASSUME NEW s \in Strings, NEW t \in Strings, IsPrefix(s, t)
  PROVE  Drop(t, Len(s)) \in Strings /\ t = s \o Drop(t, Len(s))
<1> DEFINE u == SubSeq(t, Len(s) + 1, Len(t))
<1>1. /\ s \in Seq(Chars) /\ t \in Seq(Chars) /\ Len(s) \in Nat /\ Len(t) \in Nat
      /\ Len(s) <= Len(t)
      /\ SubSeq(s, 1, Len(s)) = SubSeq(t, 1, Len(s))
  BY DEF IsPrefix, Strings
<1>2. \A i \in 1..Len(s) : s[i] = t[i]
  <2>1. \A i \in 1..Len(s) : SubSeq(s, 1, Len(s))[i] = s[i] /\ SubSeq(t, 1, Len(s))[i] = t[i]
    BY <1>1
  <2> QED BY <1>1, <2>1
<1>3. /\ u \in Seq(Chars) /\ Len(u) = Len(t) - Len(s)
      /\ \A i \in 1..(Len(t) - Len(s)) : u[i] = t[Len(s) + i]
  BY <1>1
<1> HIDE DEF u
<1>4. /\ s \o u \in Seq(Chars) /\ Len(s \o u) = Len(t)
      /\ \A i \in 1..Len(t) : (s \o u)[i] = t[i]
  BY <1>1, <1>2, <1>3, ConcatProperties
<1>5. s \o u = t
  BY <1>1, <1>4, SeqEqual
<1> QED BY <1>3, <1>5 DEF u, Drop, Strings

\* A text is a prefix of what it begins, and what is behind it is the rest.
LEMMA GluedIsPrefix ==
  ASSUME NEW s \in Strings, NEW u \in Strings
  PROVE  IsPrefix(s, s \o u) /\ Drop(s \o u, Len(s)) = u
<1>1. /\ s \in Seq(Chars) /\ u \in Seq(Chars) /\ s \o u \in Seq(Chars)
      /\ Len(s \o u) = Len(s) + Len(u) /\ Len(s) \in Nat /\ Len(u) \in Nat
      /\ \A i \in 1..Len(s) : (s \o u)[i] = s[i]
      /\ \A i \in 1..Len(u) : (s \o u)[Len(s) + i] = u[i]
  BY ConcatProperties DEF Strings
<1> DEFINE t == s \o u
<1> HIDE DEF t
<1>2. SubSeq(s, 1, Len(s)) = SubSeq(t, 1, Len(s))
  <2>1. /\ SubSeq(s, 1, Len(s)) \in Seq(Chars) /\ SubSeq(t, 1, Len(s)) \in Seq(Chars)
        /\ Len(SubSeq(s, 1, Len(s))) = Len(s) /\ Len(SubSeq(t, 1, Len(s))) = Len(s)
        /\ \A i \in 1..Len(s) : SubSeq(s, 1, Len(s))[i] = s[i] /\ SubSeq(t, 1, Len(s))[i] = t[i]
    BY <1>1 DEF t
  <2> QED BY <1>1, <2>1, SeqEqual DEF t
<1>3. SubSeq(t, Len(s) + 1, Len(t)) = u
  <2> DEFINE d == SubSeq(t, Len(s) + 1, Len(t))
  <2>1. /\ d \in Seq(Chars) /\ Len(d) = Len(u)
        /\ \A i \in 1..Len(u) : d[i] = t[Len(s) + i]
    BY <1>1 DEF t
  <2> HIDE DEF d
  <2>2. d = u
    BY <1>1, <2>1, SeqEqual DEF t
  <2> QED BY <2>2 DEF d
<1> QED BY <1>1, <1>2, <1>3 DEF t, IsPrefix, Drop

\* Two texts that are prefixes of each other are one.
LEMMA PrefixesAgree ==
  ASSUME NEW s \in Strings, NEW t \in Strings, IsPrefix(s, t), IsPrefix(t, s)
  PROVE  s = t
<1>1. Len(s) = Len(t) /\ s \in Seq(Chars) /\ t \in Seq(Chars)
  BY DEF IsPrefix, Strings
<1>2. \A i \in 1..Len(s) : SubSeq(s, 1, Len(s))[i] = s[i] /\ SubSeq(t, 1, Len(s))[i] = t[i]
  BY <1>1
<1> QED BY <1>1, <1>2, SeqEqual DEF IsPrefix

\* How many numbers there are up to n.
LEMMA UpTo ==
  ASSUME NEW n \in Nat
  PROVE  Cardinality(1..n) = n
<1>1. 1 \in Int /\ n \in Int
  OBVIOUS
<1>2. Cardinality(1..n) = IF 1 > n THEN 0 ELSE n - 1 + 1
  BY <1>1, FS_Interval
<1>3. (IF 1 > n THEN 0 ELSE n - 1 + 1) = n
  OBVIOUS
<1> QED BY <1>2, <1>3

\* A text cut in two.
LEMMA CutInTwo ==
  ASSUME NEW s \in Strings, NEW n \in 0..Len(s)
  PROVE  /\ SubSeq(s, 1, n) \in Strings /\ Drop(s, n) \in Strings
         /\ Len(SubSeq(s, 1, n)) = n /\ Len(Drop(s, n)) = Len(s) - n
         /\ \A i \in 1..n : SubSeq(s, 1, n)[i] = s[i]
         /\ \A i \in 1..(Len(s) - n) : Drop(s, n)[i] = s[n + i]
         /\ s = SubSeq(s, 1, n) \o Drop(s, n)
<1> DEFINE b == SubSeq(s, 1, n)
           u == SubSeq(s, n + 1, Len(s))
<1>1. s \in Seq(Chars) /\ Len(s) \in Nat /\ n \in Nat /\ n <= Len(s)
  BY DEF Strings
<1>2. b \in Seq(Chars) /\ Len(b) = n /\ \A i \in 1..n : b[i] = s[i]
  BY <1>1
<1>3. /\ u \in Seq(Chars) /\ Len(u) = Len(s) - n
      /\ \A i \in 1..(Len(s) - n) : u[i] = s[n + i]
  BY <1>1
<1> HIDE DEF b, u
<1>4. /\ b \o u \in Seq(Chars) /\ Len(b \o u) = Len(s)
      /\ \A i \in 1..Len(s) : (b \o u)[i] = s[i]
  <2>1. /\ b \o u \in Seq(Chars) /\ Len(b \o u) = Len(s)
        /\ \A i \in 1..n : (b \o u)[i] = b[i]
        /\ \A i \in 1..(Len(s) - n) : (b \o u)[n + i] = u[i]
    BY <1>1, <1>2, <1>3, ConcatProperties
  <2>2. ASSUME NEW i \in 1..Len(s) PROVE (b \o u)[i] = s[i]
    <3>1. CASE i <= n
      BY <1>1, <1>2, <2>1, <3>1
    <3>2. CASE ~ (i <= n)
      <4>1. i - n \in 1..(Len(s) - n) /\ n + (i - n) = i
        BY <1>1, <3>2
      <4>2. (b \o u)[n + (i - n)] = u[i - n] /\ u[i - n] = s[n + (i - n)]
        BY <1>3, <2>1, <4>1
      <4> QED BY <4>1, <4>2
    <3> QED BY <3>1, <3>2
  <2> QED BY <2>1, <2>2
<1>5. b \o u = s
  BY <1>1, <1>4, SeqEqual
<1> QED BY <1>2, <1>3, <1>5 DEF Drop, Strings, b, u

\* A text of blanks.
Blanks(b) == \A i \in 1..Len(b) : b[i] = Blank

\* A text is some blanks and what LStrip leaves of it, which does not begin with one.
LEMMA Stripped ==
  ASSUME NEW s \in Strings
  PROVE  /\ LStrip(s) \in Strings /\ (LStrip(s) # <<>> => LStrip(s)[1] # Blank)
         /\ \E b \in Strings : Blanks(b) /\ s = b \o LStrip(s)
<1> DEFINE Solid == {i \in 1..Len(s) : s[i] # Blank}
           B     == {i \in DOMAIN s : \A j \in 1..i : s[j] = Blank}
<1>1. s \in Seq(Chars) /\ Len(s) \in Nat /\ DOMAIN s = 1..Len(s)
  BY DEF Strings
<1>2. \E n \in 0..Len(s) : (\A j \in 1..n : s[j] = Blank) /\ (n < Len(s) => s[n + 1] # Blank)
  <2>1. CASE Solid = {}
    <3>1. Len(s) \in 0..Len(s) /\ \A j \in 1..Len(s) : s[j] = Blank
      BY <1>1, <2>1
    <3> QED BY <1>1, <3>1
  <2>2. CASE Solid # {}
    <3>1. PICK m \in Solid : \A k \in Solid : m <= k
      <4>1. Solid \in SUBSET Nat
        BY <1>1
      <4> HIDE DEF Solid
      <4> QED BY <2>2, <4>1, LeastNumber
    <3>2. m - 1 \in 0..Len(s) /\ (m - 1) + 1 = m /\ s[m] # Blank
      BY <1>1, <3>1
    <3>3. \A j \in 1..(m - 1) : s[j] = Blank
      BY <1>1, <3>1, <3>2
    <3> QED BY <3>2, <3>3
  <2> QED BY <2>1, <2>2
<1>3. PICK n \in 0..Len(s) : (\A j \in 1..n : s[j] = Blank) /\ (n < Len(s) => s[n + 1] # Blank)
  BY <1>2
<1>4. B = 1..n
  BY <1>1, <1>3
<1>5. Cardinality(B) = n
  <2>1. n \in Nat
    BY <1>1
  <2>2. Cardinality(1..n) = n
    BY <2>1, UpTo
  <2> QED BY <1>4, <2>2
<1> DEFINE b == SubSeq(s, 1, n)
           u == Drop(s, n)
<1>6. LStrip(s) = u
  BY <1>5 DEF LStrip
<1>7. /\ b \in Strings /\ Len(b) = n /\ (\A i \in 1..n : b[i] = s[i]) /\ s = b \o u
      /\ u \in Strings /\ Len(u) = Len(s) - n /\ \A i \in 1..(Len(s) - n) : u[i] = s[n + i]
  BY CutInTwo
<1> HIDE DEF b, u
<1>8. Blanks(b)
  BY <1>3, <1>7 DEF Blanks
<1>9. u # <<>> => u[1] # Blank
  <2> SUFFICES ASSUME u # <<>> PROVE u[1] # Blank
    OBVIOUS
  <2>1. u \in Seq(Chars) /\ Len(u) # 0 /\ Len(u) \in Nat
    BY <1>7 DEF Strings
  <2>2. n < Len(s) /\ 1 \in 1..(Len(s) - n)
    BY <1>1, <1>7, <2>1
  <2> QED BY <1>3, <1>7, <2>2
<1> QED BY <1>6, <1>7, <1>8, <1>9

\* And nothing else is.
LEMMA StrippedOnly ==
  ASSUME NEW b \in Strings, NEW u \in Strings, Blanks(b), u # <<>> => u[1] # Blank
  PROVE  LStrip(b \o u) = u
<1> DEFINE s == b \o u
           B == {i \in DOMAIN s : \A j \in 1..i : s[j] = Blank}
<1>1. /\ b \in Seq(Chars) /\ u \in Seq(Chars) /\ s \in Seq(Chars)
      /\ Len(s) = Len(b) + Len(u) /\ Len(b) \in Nat /\ Len(u) \in Nat /\ DOMAIN s = 1..Len(s)
      /\ \A i \in 1..Len(b) : s[i] = b[i]
      /\ \A i \in 1..Len(u) : s[Len(b) + i] = u[i]
  BY ConcatProperties DEF Strings
<1> HIDE DEF s
<1>2. B = 1..Len(b)
  <2>1. \A i \in 1..Len(b) : s[i] = Blank
    BY <1>1 DEF Blanks
  <2>2. Len(u) # 0 => s[Len(b) + 1] # Blank
    <3>1. Len(u) # 0 => u # <<>> /\ 1 \in 1..Len(u)
      BY <1>1
    <3> QED BY <1>1, <3>1
  <2>3. ASSUME NEW i \in B PROVE i \in 1..Len(b)
    <3>1. i \in 1..(Len(b) + Len(u)) /\ \A j \in 1..i : s[j] = Blank
      BY <1>1, <2>3
    <3>2. ASSUME i > Len(b) PROVE FALSE
      <4>1. Len(b) + 1 \in 1..i /\ Len(u) # 0
        BY <1>1, <3>1, <3>2
      <4> QED BY <2>2, <3>1, <4>1
    <3> QED BY <1>1, <3>1, <3>2
  <2>4. ASSUME NEW i \in 1..Len(b) PROVE i \in B
    BY <1>1, <2>1
  <2> QED BY <2>3, <2>4
<1>3. Cardinality(B) = Len(b)
  <2>1. Cardinality(1..Len(b)) = Len(b)
    BY <1>1, UpTo
  <2> QED BY <1>2, <2>1
<1>4. LStrip(s) = Drop(s, Len(b))
  BY <1>3 DEF LStrip
<1> QED BY <1>4, GluedIsPrefix DEF s

\* Blanks behind blanks.
LEMMA BlanksGlued ==
  ASSUME NEW b \in Strings, NEW c \in Strings, Blanks(b), Blanks(c)
  PROVE  Blanks(b \o c)
<1>1. /\ Len(b) \in Nat /\ Len(c) \in Nat /\ Len(b \o c) = Len(b) + Len(c)
      /\ \A i \in 1..Len(b) : (b \o c)[i] = b[i]
      /\ \A i \in 1..Len(c) : (b \o c)[Len(b) + i] = c[i]
  BY ConcatProperties DEF Strings
<1>2. ASSUME NEW i \in 1..Len(b \o c) PROVE (b \o c)[i] = Blank
  <2>1. CASE i <= Len(b)
    BY <1>1, <2>1 DEF Blanks
  <2>2. CASE ~ (i <= Len(b))
    <3>1. i - Len(b) \in 1..Len(c) /\ Len(b) + (i - Len(b)) = i
      BY <1>1, <2>2
    <3>2. (b \o c)[Len(b) + (i - Len(b))] = c[i - Len(b)] /\ c[i - Len(b)] = Blank
      BY <1>1, <3>1 DEF Blanks
    <3> QED BY <3>1, <3>2
  <2> QED BY <2>1, <2>2
<1> QED BY <1>2 DEF Blanks

\* How LStrip goes with what is put behind.
LEMMA StripGlued ==
  ASSUME NEW s \in Strings, NEW t \in Strings
  PROVE  LStrip(s \o t) = IF LStrip(s) # <<>> THEN LStrip(s) \o t ELSE LStrip(t)
<1>0. PICK u : u = LStrip(s)
  OBVIOUS
<1>1. PICK b \in Strings : Blanks(b) /\ s = b \o u
  BY <1>0, Stripped
<1>2. u \in Strings /\ (u # <<>> => u[1] # Blank)
  BY <1>0, Stripped
<1>3. CASE u # <<>>
  <2>1. u \in Seq(Chars) /\ t \in Seq(Chars) /\ u # <<>>
    BY <1>2, <1>3 DEF Strings
  <2>2. u \o t # <<>> /\ (u \o t)[1] = u[1]
    BY <2>1
  <2>3. u \o t \in Strings /\ (b \o u) \o t = b \o (u \o t)
    BY <1>2, Glued
  <2>4. LStrip(b \o (u \o t)) = u \o t
    BY <1>1, <1>2, <1>3, <2>2, <2>3, StrippedOnly
  <2>5. LStrip(s \o t) = u \o t
    BY <1>1, <2>3, <2>4
  <2> QED BY <1>0, <1>3, <2>5
<1>4. CASE u = <<>>
  <2>1. s = b
    BY <1>1, <1>4, Glued
  <2>0. PICK v : v = LStrip(t)
    OBVIOUS
  <2>2. PICK c \in Strings : Blanks(c) /\ t = c \o v
    BY <2>0, Stripped
  <2>3. v \in Strings /\ (v # <<>> => v[1] # Blank)
    BY <2>0, Stripped
  <2>4. b \o (c \o v) = (b \o c) \o v /\ b \o c \in Strings
    BY <2>3, Glued
  <2>5. Blanks(b \o c)
    BY <1>1, <2>2, BlanksGlued
  <2>6. LStrip((b \o c) \o v) = v
    BY <2>3, <2>4, <2>5, StrippedOnly
  <2>7. LStrip(s \o t) = v
    BY <2>1, <2>2, <2>4, <2>6
  <2> QED BY <1>0, <1>4, <2>0, <2>7
<1> QED BY <1>3, <1>4

-----------------------------------------------------------------------------
(* What the tracker emits.                                                 *)

\* A text that ends in another, and one that has another within.
EndsIn(whole, e) == \E p \in Strings : whole = p \o e
HasIn(whole, x)  == \E p, q \in Strings : whole = p \o (x \o q)

\* The end of a text is within it.
LEMMA EndsHas ==
  ASSUME NEW whole \in Strings, NEW x \in Strings, EndsIn(whole, x)
  PROVE  HasIn(whole, x)
<1>1. PICK p \in Strings : whole = p \o x
  BY DEF EndsIn
<1>2. x \o <<>> = x /\ <<>> \in Strings
  BY Glued
<1> QED BY <1>1, <1>2 DEF HasIn

\* Nothing is within every text.
LEMMA HasNothing ==
  ASSUME NEW whole \in Strings
  PROVE  HasIn(whole, <<>>)
<1>1. <<>> \o whole = whole /\ <<>> \in Strings
  BY Glued
<1>2. whole = <<>> \o (<<>> \o whole)
  BY <1>1
<1> QED BY <1>1, <1>2 DEF HasIn

\* A text ends in itself without its leading blanks.
LEMMA EndsInStripped ==
  ASSUME NEW s \in Strings
  PROVE  LStrip(s) \in Strings /\ EndsIn(s, LStrip(s))
<1>0. PICK f : f = LStrip(s)
  OBVIOUS
<1>1. f \in Strings /\ \E b \in Strings : s = b \o f
  BY <1>0, Stripped
<1> QED BY <1>0, <1>1 DEF EndsIn

\* What is put before a text does not change what it ends in.
LEMMA EndsInBehind ==
  ASSUME NEW o \in Strings, NEW s \in Strings, NEW e \in Strings, EndsIn(s, e)
  PROVE  EndsIn(o \o s, e)
<1>1. PICK p \in Strings : s = p \o e
  BY DEF EndsIn
<1>2. (o \o p) \o e = o \o (p \o e) /\ o \o p \in Strings
  BY Glued
<1> QED BY <1>1, <1>2 DEF EndsIn

\* And what is put behind both is behind both.
LEMMA EndsInMore ==
  ASSUME NEW s \in Strings, NEW e \in Strings, NEW u \in Strings, EndsIn(s, e)
  PROVE  EndsIn(s \o u, e \o u) /\ HasIn(s \o u, e)
<1>1. PICK p \in Strings : s = p \o e
  BY DEF EndsIn
<1>2. (p \o e) \o u = p \o (e \o u)
  BY Glued
<1> QED BY <1>1, <1>2 DEF EndsIn, HasIn

\* A prefix of a text, without leading blanks, is one of the text without them.
LEMMA StripPrefix ==
  ASSUME NEW s \in Strings, NEW t \in Strings, IsPrefix(s, t)
  PROVE  IsPrefix(LStrip(s), LStrip(t))
<1>0. PICK e : e = LStrip(s)
  OBVIOUS
<1>00. PICK f : f = LStrip(t)
  OBVIOUS
<1>1. PICK u \in Strings : t = s \o u
  BY PrefixIs
<1>2. e \in Strings /\ f \in Strings
  BY <1>0, <1>00, Stripped
<1>3. CASE e = <<>>
  <2>1. <<>> \o f = f
    BY <1>2, Glued
  <2>2. IsPrefix(<<>>, <<>> \o f)
    BY <1>2, Glued, GluedIsPrefix
  <2> QED BY <1>0, <1>00, <1>3, <2>1, <2>2
<1>4. CASE e # <<>>
  <2>1. LStrip(s \o u) = e \o u
    BY <1>0, <1>4, StripGlued
  <2>2. IsPrefix(e, e \o u)
    BY <1>2, GluedIsPrefix
  <2> QED BY <1>0, <1>00, <1>1, <2>1, <2>2
<1> QED BY <1>3, <1>4

\* A tail that fits a text on another, as _tail has it.
LEMMA TailFits ==
  ASSUME NEW o \in Strings, NEW text \in Strings, TextTail(o, text).fits = "ok"
  PROVE  LET out == TextTail(o, text).out IN
         /\ out \in Strings
         /\ \/ text = o \o out
            \/ LStrip(o) # <<>> /\ LStrip(text) = LStrip(o) \o out
<1>0. PICK e : e = LStrip(o)
  OBVIOUS
<1>00. PICK f : f = LStrip(text)
  OBVIOUS
<1>2. e \in Strings /\ f \in Strings
  BY <1>0, <1>00, Stripped
<1>3. CASE IsPrefix(o, text)
  <2>0. PICK out : out = Drop(text, Len(o))
    OBVIOUS
  <2>1. TextTail(o, text).out = out
    BY <1>3, <2>0 DEF TextTail
  <2>2. out \in Strings /\ text = o \o out
    BY <1>3, <2>0, PrefixIs
  <2> QED BY <2>1, <2>2
<1>4. CASE ~ IsPrefix(o, text) /\ e # <<>> /\ IsPrefix(e, f)
  <2>0. PICK out : out = Drop(f, Len(e))
    OBVIOUS
  <2>1. TextTail(o, text).out = out
    BY <1>0, <1>00, <1>4, <2>0 DEF TextTail
  <2>2. out \in Strings /\ f = e \o out
    BY <1>2, <1>4, <2>0, PrefixIs
  <2> QED BY <1>0, <1>00, <1>4, <2>1, <2>2
<1>5. CASE ~ IsPrefix(o, text) /\ ~ (e # <<>> /\ IsPrefix(e, f))
  <2>1. TextTail(o, text).fits # "ok"
    BY <1>0, <1>00, <1>5 DEF TextTail
  <2> QED BY <2>1
<1> QED BY <1>3, <1>4, <1>5

\* The other outcomes of _tail.
LEMMA TailKinds ==
  ASSUME NEW o \in Strings, NEW text \in Strings
  PROVE  /\ TextTail(o, text).fits \in {"ok", "retract", "no"}
         /\ TextTail(o, text).fits = "no" => TextTail(o, text).out = text
         /\ TextTail(o, text).fits = "retract" => \E u \in Strings : o = text \o u
         /\ TextTail(o, text).fits = "ok" <=>
              IsPrefix(o, text) \/ (LStrip(o) # <<>> /\ IsPrefix(LStrip(o), LStrip(text)))
         /\ IsPrefix(text, o) => text = <<>> \/ TextTail(o, text).fits # "no"
<1>0. PICK e : e = LStrip(o)
  OBVIOUS
<1>00. PICK f : f = LStrip(text)
  OBVIOUS
<1> DEFINE Fits == IsPrefix(o, text) \/ (e # <<>> /\ IsPrefix(e, f))
           Back == text # <<>> /\ IsPrefix(text, o) /\ text # o
<1>1. CASE Fits
  <2>1. TextTail(o, text).fits = "ok"
    BY <1>0, <1>00, <1>1 DEF TextTail
  <2> QED BY <1>0, <1>00, <1>1, <2>1
<1>2. CASE ~ Fits /\ Back
  <2>1. TextTail(o, text).fits = "retract"
    BY <1>0, <1>00, <1>2 DEF TextTail, IsRetraction, IsStrictPrefix
  <2>2. \E u \in Strings : o = text \o u
    BY <1>2, PrefixIs
  <2> QED BY <1>0, <1>00, <1>2, <2>1, <2>2
<1>3. CASE ~ Fits /\ ~ Back
  <2>1. TextTail(o, text).fits = "no" /\ TextTail(o, text).out = text
    BY <1>0, <1>00, <1>3 DEF TextTail, IsRetraction, IsStrictPrefix
  <2>2. IsPrefix(text, o) => text = <<>>
    <3>1. text = o => IsPrefix(o, text)
      BY DEF IsPrefix, Strings
    <3> QED BY <1>3, <3>1
  <2> QED BY <1>0, <1>00, <1>3, <2>1, <2>2
<1> QED BY <1>1, <1>2, <1>3

\* What _emit_missing does, case by case.
LEMMA EmitCases ==
  ASSUME NEW t \in Tracker
  PROVE  LET first  == TextTail(t.emitted, t.current)
             second == TextTail(t.allOut, t.current)
             r      == EmitMissing(t)
             still  == \/ t.current = <<>> \/ first.fits = "retract"
                       \/ first.fits = "no" /\ second.fits = "retract"
         IN /\ r.token \in Strings /\ r.tracker \in Tracker
            /\ r.tracker.current = t.current /\ r.tracker.allOut = t.allOut \o r.token
            /\ still => r.tracker = t /\ r.token = <<>>
            /\ ~ still => r.tracker.emitted = t.current
            /\ ~ still => r.token = IF first.fits # "no" THEN first.out ELSE second.out
<1>0. PICK first : first = TextTail(t.emitted, t.current)
  OBVIOUS
<1>00. PICK second : second = TextTail(t.allOut, t.current)
  OBVIOUS
<1>1. EmitMissing(t) \in Fed
  BY EmitMissingTyped
<1>2. EmitMissing(t).token \in Strings /\ EmitMissing(t).tracker \in Tracker
  BY <1>1 DEF Fed, Strings
<1>3. PICK still : still = (\/ t.current = <<>> \/ first.fits = "retract"
                            \/ first.fits = "no" /\ second.fits = "retract")
  OBVIOUS
<1>4. CASE still
  <2>1. EmitMissing(t).tracker = t /\ EmitMissing(t).token = <<>>
    BY <1>0, <1>00, <1>3, <1>4 DEF EmitMissing
  <2>2. t.allOut \o <<>> = t.allOut
    BY Glued DEF Tracker, Strings
  <2> QED BY <1>0, <1>00, <1>2, <1>3, <1>4, <2>1, <2>2
<1>5. CASE ~ still
  <2>1. PICK out : out = IF first.fits # "no" THEN first.out ELSE second.out
    OBVIOUS
  <2>2. EmitMissing(t)
          = [tracker |-> [t EXCEPT !.emitted = t.current, !.allOut = t.allOut \o out],
             token   |-> out]
    BY <1>0, <1>00, <1>3, <1>5, <2>1 DEF EmitMissing
  <2>3. PICK m : m = [t EXCEPT !.emitted = t.current, !.allOut = t.allOut \o out]
    OBVIOUS
  <2>4. m.emitted = t.current /\ m.current = t.current /\ m.allOut = t.allOut \o out
    BY <2>3 DEF Tracker
  <2>5. EmitMissing(t).tracker = m /\ EmitMissing(t).token = out
    BY <2>2, <2>3
  <2> QED BY <1>0, <1>00, <1>2, <1>3, <1>5, <2>1, <2>4, <2>5
<1> QED BY <1>4, <1>5

\* Everything that went out still ends in the last aligned text after _emit_missing, and has the
\* text as it stands within, whichever way that text fits.
LEMMA EmitHas ==
  ASSUME NEW t \in Tracker, EndsIn(t.allOut, LStrip(t.emitted))
  PROVE  LET r == EmitMissing(t).tracker IN
         EndsIn(r.allOut, LStrip(r.emitted)) /\ HasIn(r.allOut, LStrip(t.current))
<1>0. PICK a, e, c, r, out : /\ a = t.allOut /\ e = t.emitted /\ c = t.current
                             /\ r = EmitMissing(t).tracker /\ out = EmitMissing(t).token
  OBVIOUS
<1>1. a \in Strings /\ e \in Strings /\ c \in Strings
  BY <1>0 DEF Tracker, Strings
<1>2. PICK first, second : first = TextTail(e, c) /\ second = TextTail(a, c)
  OBVIOUS
<1>3. PICK still : still = (\/ c = <<>> \/ first.fits = "retract"
                            \/ first.fits = "no" /\ second.fits = "retract")
  OBVIOUS
<1>4. /\ out \in Strings /\ r.allOut = a \o out
      /\ still => r = t /\ out = <<>>
      /\ ~ still => r.emitted = c
      /\ ~ still => out = IF first.fits # "no" THEN first.out ELSE second.out
  BY <1>0, <1>2, <1>3, EmitCases
<1>5. PICK e0, c0 : e0 = LStrip(e) /\ c0 = LStrip(c)
  OBVIOUS
<1>6. e0 \in Strings /\ c0 \in Strings /\ EndsIn(c, c0)
  BY <1>1, <1>5, EndsInStripped
<1>7. EndsIn(a, e0)
  BY <1>0, <1>5
<1>8. CASE still
  <2>1. HasIn(a, c0)
    <3>1. CASE c = <<>>
      <4>1. c0 = <<>>
        <5>1. \A x \in Strings : x = <<>> => LStrip(x) = <<>>
          BY DEF LStrip, Drop, Strings
        <5> QED BY <1>1, <1>5, <3>1, <5>1
      <4> QED BY <1>1, <4>1, HasNothing
    <3>2. CASE c0 = <<>>
      BY <1>1, <3>2, HasNothing
    <3>3. CASE first.fits = "retract" /\ c0 # <<>>
      <4>1. PICK u \in Strings : e = c \o u
        BY <1>1, <1>2, <3>3, TailKinds
      <4>2. e0 = c0 \o u
        BY <1>1, <1>5, <3>3, <4>1, StripGlued
      <4>3. PICK p \in Strings : a = p \o e0
        BY <1>7 DEF EndsIn
      <4> QED BY <4>2, <4>3 DEF HasIn
    <3>4. CASE second.fits = "retract"
      <4>1. PICK u \in Strings : a = c \o u
        BY <1>1, <1>2, <3>4, TailKinds
      <4> QED BY <1>1, <1>6, <4>1, EndsInMore
    <3> QED BY <1>3, <1>8, <3>1, <3>2, <3>3, <3>4
  <2>2. r.allOut = a /\ r.emitted = e
    BY <1>0, <1>4, <1>8
  <2> QED BY <1>0, <1>5, <1>7, <2>1, <2>2
<1>9. CASE ~ still
  <2>0. c # <<>> /\ first.fits # "retract" /\ (first.fits = "no" => second.fits # "retract")
    BY <1>3, <1>9
  <2>1. EndsIn(a \o out, c0)
    <3>1. CASE first.fits = "ok"
      <4>1. out = first.out
        BY <1>4, <1>9, <3>1
      <4>2. c = e \o out \/ (e0 # <<>> /\ c0 = e0 \o out)
        BY <1>1, <1>2, <1>5, <3>1, <4>1, TailFits
      <4>3. CASE e0 # <<>>
        <5>1. c = e \o out => c0 = e0 \o out
          BY <1>1, <1>4, <1>5, <4>3, StripGlued
        <5>2. c0 = e0 \o out
          BY <4>2, <5>1
        <5> QED BY <1>1, <1>4, <1>6, <1>7, <5>2, EndsInMore
      <4>4. CASE e0 = <<>>
        <5>1. c0 = LStrip(out)
          BY <1>1, <1>4, <1>5, <4>2, <4>4, StripGlued
        <5>2. EndsIn(out, c0)
          BY <1>4, <5>1, EndsInStripped
        <5> QED BY <1>1, <1>4, <1>6, <5>2, EndsInBehind
      <4> QED BY <4>3, <4>4
    <3>2. CASE first.fits # "ok"
      <4>0. first.fits = "no" /\ out = second.out
        <5>1. first.fits \in {"ok", "retract", "no"}
          BY <1>1, <1>2, TailKinds
        <5> QED BY <1>4, <1>9, <2>0, <3>2, <5>1
      <4>1. CASE second.fits = "ok"
        <5>1. PICK a0 : a0 = LStrip(a)
          OBVIOUS
        <5>2. a0 \in Strings /\ EndsIn(a, a0)
          BY <1>1, <5>1, EndsInStripped
        <5>3. c = a \o out \/ c0 = a0 \o out
          BY <1>1, <1>2, <1>5, <4>0, <4>1, <5>1, TailFits
        <5>4. CASE c = a \o out
          BY <1>6, <5>4
        <5>5. CASE c0 = a0 \o out
          BY <1>1, <1>4, <5>2, <5>5, EndsInMore
        <5> QED BY <5>3, <5>4, <5>5
      <4>2. CASE second.fits # "ok"
        <5>1. second.fits = "no" /\ out = c
          <6>1. /\ second.fits \in {"ok", "retract", "no"}
                /\ second.fits = "no" => second.out = c
            BY <1>1, <1>2, TailKinds
          <6> QED BY <2>0, <4>0, <4>2, <6>1
        <5> QED BY <1>1, <1>6, <5>1, EndsInBehind
      <4> QED BY <4>1, <4>2
    <3> QED BY <3>1, <3>2
  <2>2. a \o out \in Strings
    BY <1>1, <1>4, Glued
  <2>3. HasIn(a \o out, c0)
    BY <1>6, <2>1, <2>2, EndsHas
  <2>4. r.emitted = c /\ r.allOut = a \o out
    BY <1>4, <1>9
  <2> QED BY <1>0, <1>5, <2>1, <2>3, <2>4
<1> QED BY <1>8, <1>9

\* Nothing has nothing to strip.
LEMMA StripNothing == LStrip(<<>>) = <<>>
<1>1. \A x \in Strings : x = <<>> => LStrip(x) = <<>>
  BY DEF LStrip, Drop, Strings
<1> QED BY <1>1, Glued

\* A tail that fits a blank text, or that is the text itself, strips to the text.
LEMMA TailOfBlank ==
  ASSUME NEW o \in Strings, NEW text \in Strings, LStrip(o) = <<>>,
         TextTail(o, text).fits # "retract"
  PROVE  LStrip(TextTail(o, text).out) = LStrip(text)
<1>1. PICK out : out = TextTail(o, text).out
  OBVIOUS
<1>2. CASE TextTail(o, text).fits = "ok"
  <2>1. out \in Strings /\ text = o \o out
    BY <1>1, <1>2, TailFits
  <2>2. LStrip(o \o out) = LStrip(out)
    BY <2>1, StripGlued
  <2> QED BY <1>1, <2>1, <2>2
<1>3. CASE TextTail(o, text).fits # "ok"
  BY <1>3, TailKinds
<1> QED BY <1>2, <1>3

\* What was emitted is the longest text the reply has been, in both records the tracker keeps.
Aligned(t, text) ==
  /\ LStrip(t.emitted) = LStrip(text) /\ LStrip(t.allOut) = LStrip(text)
  /\ LStrip(t.emitted) # <<>> => t.emitted = text

\* It stays so when the reply grew, or was cut back to a beginning of what it was.
LEMMA EmitAligned ==
  ASSUME NEW t \in Tracker, NEW l \in Strings, Aligned(t, l), NEW m,
         IF IsPrefix(LStrip(l), LStrip(t.current)) THEN m = t.current
                                                   ELSE IsPrefix(t.current, l) /\ m = l
  PROVE  Aligned(EmitMissing(t).tracker, m)
<1>0. PICK a, e, c, r, out : /\ a = t.allOut /\ e = t.emitted /\ c = t.current
                             /\ r = EmitMissing(t).tracker /\ out = EmitMissing(t).token
  OBVIOUS
<1>1. a \in Strings /\ e \in Strings /\ c \in Strings
  BY <1>0 DEF Tracker, Strings
<1>2. PICK first, second : first = TextTail(e, c) /\ second = TextTail(a, c)
  OBVIOUS
<1>3. PICK still : still = (\/ c = <<>> \/ first.fits = "retract"
                            \/ first.fits = "no" /\ second.fits = "retract")
  OBVIOUS
<1>4. /\ out \in Strings /\ r.allOut = a \o out
      /\ still => r = t /\ out = <<>>
      /\ ~ still => r.emitted = c
      /\ ~ still => out = IF first.fits # "no" THEN first.out ELSE second.out
  BY <1>0, <1>2, <1>3, EmitCases
<1>5. PICK x, y : x = LStrip(l) /\ y = LStrip(c)
  OBVIOUS
<1>6. x \in Strings /\ y \in Strings
  BY <1>1, <1>5, Stripped
<1>7. LStrip(e) = x /\ LStrip(a) = x /\ (x # <<>> => e = l)
  BY <1>0, <1>5 DEF Aligned
<1>8. IF IsPrefix(x, y) THEN m = c ELSE IsPrefix(c, l) /\ m = l
  BY <1>0, <1>5
<1>9. SUFFICES LStrip(r.emitted) = LStrip(m) /\ LStrip(r.allOut) = LStrip(m)
               /\ (LStrip(r.emitted) # <<>> => r.emitted = m)
  BY <1>0 DEF Aligned
<1>10. CASE x = <<>>
  <2>1. m = c
    <3>1. IsPrefix(<<>>, <<>> \o y) /\ <<>> \o y = y
      BY <1>6, Glued, GluedIsPrefix
    <3> QED BY <1>8, <1>10, <3>1
  <2>2. CASE still
    <3>1. y = <<>>
      <4>1. CASE c = <<>>
        BY <1>5, <4>1, StripNothing
      <4>2. ASSUME NEW o \in {e, a}, TextTail(o, c).fits = "retract" PROVE y = <<>>
        <5>0. o \in Strings
          BY <1>1
        <5>1. PICK u \in Strings : o = c \o u
          BY <1>1, <4>2, <5>0, TailKinds
        <5>2. y # <<>> => x = y \o u
          BY <1>1, <1>5, <1>7, <5>1, StripGlued
        <5>3. y # <<>> => y \o u # <<>>
          BY <1>6, <5>1 DEF Strings
        <5> QED BY <1>10, <5>2, <5>3
      <4> QED BY <1>2, <1>3, <2>2, <4>1, <4>2
    <3>2. r.emitted = e /\ r.allOut = a
      BY <1>0, <1>4, <2>2
    <3> QED BY <1>5, <1>7, <1>10, <2>1, <3>1, <3>2
  <2>3. CASE ~ still
    <3>1. LStrip(out) = y
      <4>1. CASE first.fits # "no"
        BY <1>1, <1>2, <1>3, <1>4, <1>5, <1>7, <1>10, <2>3, <4>1, TailOfBlank
      <4>2. CASE first.fits = "no"
        BY <1>1, <1>2, <1>3, <1>4, <1>5, <1>7, <1>10, <2>3, <4>2, TailOfBlank
      <4> QED BY <4>1, <4>2
    <3>2. LStrip(a \o out) = y
      BY <1>1, <1>4, <1>7, <1>10, <3>1, StripGlued
    <3>3. r.emitted = c /\ r.allOut = a \o out
      BY <1>4, <2>3
    <3> QED BY <1>5, <2>1, <3>2, <3>3
  <2> QED BY <2>2, <2>3
<1>11. CASE x # <<>> /\ IsPrefix(x, y)
  <2>1. m = c /\ e = l
    BY <1>7, <1>8, <1>11
  <2>2. first.fits = "ok"
    BY <1>1, <1>2, <1>5, <1>7, <1>11, TailKinds
  <2>3. c # <<>>
    <3>1. ASSUME c = <<>> PROVE FALSE
      <4>1. y = <<>>
        BY <1>5, <3>1, StripNothing
      <4>2. PICK u \in Strings : <<>> = x \o u
        BY <1>6, <1>11, <4>1, PrefixIs
      <4>3. x \o u # <<>>
        BY <1>6, <1>11, <4>2 DEF Strings
      <4> QED BY <4>2, <4>3
    <3> QED BY <3>1
  <2>4. ~ still
    BY <1>3, <2>2, <2>3
  <2>5. out = first.out /\ r.emitted = c /\ r.allOut = a \o out
    BY <1>4, <2>2, <2>4
  <2>6. y = x \o out
    <3>1. c = e \o out \/ y = x \o out
      BY <1>1, <1>2, <1>5, <1>7, <2>2, <2>5, TailFits
    <3>2. c = e \o out => LStrip(c) = x \o out
      BY <1>1, <1>4, <1>7, <1>11, StripGlued
    <3> QED BY <1>5, <3>1, <3>2
  <2>7. LStrip(a \o out) = x \o out
    BY <1>1, <1>4, <1>7, <1>11, StripGlued
  <2> QED BY <1>5, <2>1, <2>5, <2>6, <2>7
<1>12. CASE x # <<>> /\ ~ IsPrefix(x, y)
  <2>1. IsPrefix(c, l) /\ m = l /\ e = l
    BY <1>7, <1>8, <1>12
  <2>2. first.fits # "ok"
    <3>1. ~ IsPrefix(e, c)
      <4>1. IsPrefix(e, c) => IsPrefix(x, y)
        BY <1>1, <1>5, <1>7, StripPrefix
      <4> QED BY <1>12, <4>1
    <3> QED BY <1>1, <1>2, <1>5, <1>7, <1>12, <3>1, TailKinds
  <2>3. still
    <3>1. first.fits \in {"ok", "retract", "no"} /\ (c = <<>> \/ first.fits # "no")
      BY <1>1, <1>2, <2>1, TailKinds
    <3> QED BY <1>3, <2>2, <3>1
  <2>4. r.emitted = e /\ r.allOut = a
    BY <1>0, <1>4, <2>3
  <2> QED BY <1>5, <1>7, <2>1, <2>4
<1> QED BY <1>10, <1>11, <1>12

-----------------------------------------------------------------------------
(* What reaches the client.                                                *)

\* What a mode, a text that was sent and a queue make of Emitted.
AllOf(m, s, q) == FlattenSeq(IF m = "stream" THEN <<s>> \o q ELSE q)

\* It is a text, what joins the queue is behind it, and with an empty queue it is what was sent.
LEMMA AllOfGrows ==
  ASSUME NEW m, NEW s \in Strings, NEW q \in Seq(Strings)
  PROVE  /\ AllOf(m, s, q) \in Strings
         /\ \A x \in Strings : AllOf(m, s, Append(q, x)) = AllOf(m, s, q) \o x
         /\ AllOf(m, s, <<>>) = IF m = "stream" THEN s ELSE <<>>
<1>1. CASE m = "stream"
  <2>1. FlattenSeq(<<>>) = <<>> /\ s \o <<>> = s /\ <<>> \in Seq(Strings)
    <3>1. FlattenSeq(<<>>) = <<>>
      BY DEF FlattenSeq
    <3> QED BY <3>1, Glued
  <2>2. \A p \in Seq(Strings) : AllOf(m, s, p) = s \o FlattenSeq(p)
    BY <1>1, FlattenFirst DEF AllOf
  <2>3. FlattenSeq(q) \in Strings
    BY FlattenAppend, Glued
  <2>4. ASSUME NEW x \in Strings
        PROVE  AllOf(m, s, Append(q, x)) = AllOf(m, s, q) \o x
    <3>1. Append(q, x) \in Seq(Strings)
      OBVIOUS
    <3>2. FlattenSeq(Append(q, x)) = FlattenSeq(q) \o x
      BY FlattenAppend
    <3>3. (s \o FlattenSeq(q)) \o x = s \o (FlattenSeq(q) \o x)
      BY <2>3, Glued
    <3> QED BY <2>2, <3>1, <3>2, <3>3
  <2>5. s \o FlattenSeq(q) \in Strings
    BY <2>3, Glued
  <2> QED BY <1>1, <2>1, <2>2, <2>4, <2>5
<1>2. CASE m # "stream"
  <2>1. \A p : AllOf(m, s, p) = FlattenSeq(p)
    BY <1>2 DEF AllOf
  <2>2. /\ FlattenSeq(q) \in Strings
        /\ \A x \in Strings : FlattenSeq(Append(q, x)) = FlattenSeq(q) \o x
    BY FlattenAppend, Glued
  <2>3. FlattenSeq(<<>>) = <<>>
    BY DEF FlattenSeq
  <2> QED BY <1>2, <2>1, <2>2, <2>3
<1> QED BY <1>1, <1>2

\* A text behind the queue is behind all of it.
LEMMA AllOfAppend ==
  ASSUME NEW m, NEW s \in Strings, NEW q \in Seq(Strings), NEW x \in Strings
  PROVE  AllOf(m, s, Append(q, x)) = AllOf(m, s, q) \o x
<1>1. \A y \in Strings : AllOf(m, s, Append(q, y)) = AllOf(m, s, q) \o y
  BY AllOfGrows, Zenon
<1> QED BY <1>1, Zenon

\* A token that is taken from the queue and sent is where it was.
LEMMA AllOfMoves ==
  ASSUME NEW s \in Strings, NEW q \in Seq(Strings), q # <<>>
  PROVE  /\ Head(q) \in Strings
         /\ AllOf("stream", s \o Head(q), Tail(q)) = AllOf("stream", s, q)
<1>1. PICK x, p : x = Head(q) /\ p = Tail(q)
  OBVIOUS
<1>2. x \in Strings /\ p \in Seq(Strings) /\ q = <<x>> \o p
  <2>1. x \in Strings /\ p \in Seq(Strings) /\ Len(q) \in Nat \ {0} /\ Len(p) = Len(q) - 1
    BY <1>1, EmptySeq
  <2>2. x = q[1] /\ \A i \in 1..Len(p) : p[i] = q[i + 1]
    BY <1>1, <2>1
  <2>3. /\ <<x>> \o p \in Seq(Strings) /\ Len(<<x>> \o p) = Len(q)
        /\ \A i \in 1..Len(q) : (<<x>> \o p)[i] = q[i]
    BY <2>1, <2>2
  <2>4. <<x>> \o p = q
    BY <2>3, SeqEqual
  <2> QED BY <2>1, <2>4
<1>3. FlattenSeq(q) = x \o FlattenSeq(p)
  BY <1>2, FlattenFirst
<1>4. FlattenSeq(p) \in Strings
  BY <1>2, FlattenAppend, Glued
<1>5. (s \o x) \o FlattenSeq(p) = s \o (x \o FlattenSeq(p)) /\ s \o x \in Strings
  BY <1>2, <1>4, Glued
<1>6. AllOf("stream", s \o x, p) = (s \o x) \o FlattenSeq(p)
  BY <1>2, <1>5, FlattenFirst DEF AllOf
<1>7. AllOf("stream", s, q) = s \o FlattenSeq(q)
  BY FlattenFirst DEF AllOf
<1> QED BY <1>1, <1>2, <1>3, <1>5, <1>6, <1>7

\* While the turn goes on: the tracker knows the reply as it stands and everything that went out,
\* and as long as the reply was never rewritten, that is the longest it has been.
Tracked ==
  /\ chat.current = answer /\ chat.allOut = Emitted
  /\ EndsIn(chat.allOut, LStrip(chat.emitted))
  /\ longest # None => Aligned(chat, longest) /\ IsPrefix(answer, longest)

\* And for good: what went out is that longest text, has the final one within when the turn
\* succeeded, and is what a plain client was sent.
Relayed ==
  /\ sent \in Strings
  /\ run # "ended" => Tracked
  /\ longest # None => LStrip(Emitted) = LStrip(longest)
  /\ record = "completed" => HasIn(Emitted, LStrip(answer))
  /\ finish = "stop" /\ mode = "plain" => sent = Emitted

\* Nothing has gone out yet.
LEMMA RelayedInit == Init => Relayed
<1> SUFFICES ASSUME Init PROVE Relayed
  OBVIOUS
<1>1. /\ sent = <<>> /\ queue = <<>> /\ answer = <<>> /\ longest = <<>> /\ record = "none"
      /\ finish = "none" /\ chat.current = <<>> /\ chat.allOut = <<>> /\ chat.emitted = <<>>
  BY DEF Init, NewTracker
<1>2. sent \in Strings /\ <<>> \in Seq(Strings)
  BY <1>1, Glued
<1>3. Emitted = <<>>
  <2>1. AllOf(mode, sent, <<>>) = <<>>
    BY <1>1, <1>2, AllOfGrows
  <2> QED BY <1>1, <2>1 DEF Emitted, AllOf
<1>4. EndsIn(<<>>, LStrip(<<>>))
  BY Glued, EndsInStripped
<1>5. IsPrefix(<<>>, <<>>)
  <2>1. IsPrefix(<<>>, <<>> \o <<>>) /\ <<>> \o <<>> = <<>>
    BY Glued, GluedIsPrefix
  <2> QED BY <2>1
<1>6. Tracked
  BY <1>1, <1>3, <1>4, <1>5 DEF Tracked, Aligned
<1> QED BY <1>1, <1>2, <1>3, <1>6 DEF Relayed

\* What Becomes makes of the longest text, unless it gives up.
Follows(l, text, m) ==
  IF IsPrefix(LStrip(l), LStrip(text)) THEN m = text ELSE IsPrefix(text, l) /\ m = l

\* What the tracker gives out for a reply that now reads `text`.
LEMMA GoesOut ==
  ASSUME Accounted, Relayed, run = "turn", NEW text \in Strings
  PROVE  LET r == EmitMissing([chat EXCEPT !.current = text]) IN
         /\ r.token \in Strings /\ r.tracker \in Tracker
         /\ r.tracker.current = text /\ r.tracker.allOut = Emitted \o r.token
         /\ EndsIn(r.tracker.allOut, LStrip(r.tracker.emitted))
         /\ HasIn(r.tracker.allOut, LStrip(text))
         /\ \A m : longest # None /\ Follows(longest, text, m) => Aligned(r.tracker, m)
<1>1. PICK t : t = [chat EXCEPT !.current = text]
  OBVIOUS
<1>2. chat \in Tracker /\ Tracked
  BY DEF Accounted, ReplyTyped, Relayed
<1>3. /\ t \in Tracker /\ t.current = text /\ t.allOut = chat.allOut /\ t.emitted = chat.emitted
  BY <1>1, <1>2 DEF Tracker, Strings
<1>4. EndsIn(t.allOut, LStrip(t.emitted))
  BY <1>2, <1>3 DEF Tracked
<1>5. PICK r : r = EmitMissing(t)
  OBVIOUS
<1>6. /\ r.token \in Strings /\ r.tracker \in Tracker
      /\ r.tracker.current = text /\ r.tracker.allOut = t.allOut \o r.token
  BY <1>3, <1>5, EmitCases
<1>7. EndsIn(r.tracker.allOut, LStrip(r.tracker.emitted)) /\ HasIn(r.tracker.allOut, LStrip(text))
  BY <1>3, <1>4, <1>5, EmitHas
<1>8. ASSUME longest # None, NEW m, Follows(longest, text, m) PROVE Aligned(r.tracker, m)
  <2>1. longest \in Strings
    BY <1>8, TextsAreSeqs DEF Accounted, ReplyTyped, Strings
  <2>2. Aligned(t, longest)
    BY <1>2, <1>3, <1>8 DEF Tracked, Aligned
  <2>3. IF IsPrefix(LStrip(longest), LStrip(t.current)) THEN m = t.current
        ELSE IsPrefix(t.current, longest) /\ m = longest
    BY <1>3, <1>8 DEF Follows
  <2> QED BY <1>3, <1>5, <2>1, <2>2, <2>3, EmitAligned
<1> QED BY <1>1, <1>2, <1>3, <1>5, <1>6, <1>7, <1>8 DEF Tracked

\* A token that joins the queue is behind what went out.
LEMMA TokenGoesOut ==
  ASSUME Accounted, Relayed, NEW x \in Strings
  PROVE  Token(x) \in Seq(Strings) /\ AllOf(mode, sent, Token(x)) = Emitted \o x
<1>1. sent \in Strings /\ queue \in Seq(Strings) /\ Emitted = AllOf(mode, sent, queue)
  BY DEF Accounted, ReplyTyped, Relayed, Emitted, AllOf, Strings
<1>2. CASE x = <<>>
  <2>1. Emitted \in Strings
    BY <1>1, AllOfGrows
  <2>2. Emitted \o <<>> = Emitted
    BY <2>1, Glued
  <2> QED BY <1>1, <1>2, <2>2 DEF Token
<1>3. CASE x # <<>>
  <2>0. sent \in Strings /\ queue \in Seq(Strings)
    BY <1>1
  <2>1. AllOf(mode, sent, Append(queue, x)) = AllOf(mode, sent, queue) \o x
    BY <2>0, AllOfAppend
  <2>2. Append(queue, x) \in Seq(Strings)
    BY <1>1
  <2> QED BY <1>1, <1>3, <2>1, <2>2 DEF Token
<1> QED BY <1>2, <1>3

\* The history follows as the tracker does.
LEMMA BecomesFollows ==
  ASSUME NEW text \in Strings, Becomes(text), longest' # None
  PROVE  longest # None /\ Follows(longest, text, longest') /\ IsPrefix(text, longest')
<1>1. IsPrefix(text, text)
  BY Glued, GluedIsPrefix
<1> QED BY <1>1 DEF Becomes, Follows

\* An event of the turn whose text is the reply as it now reads.
LEMMA EventRelayed ==
  ASSUME Accounted, Relayed, NEW ev, Event(ev), NEW text \in Strings, Becomes(text),
         Feed(chat, ev) = EmitMissing([chat EXCEPT !.current = text])
  PROVE  Relayed'
<1>1. /\ run = "turn" /\ chat' = Feed(chat, ev).tracker /\ queue' = Token(Feed(chat, ev).token)
      /\ UNCHANGED <<mode, run, sent, finish, record>> /\ answer' = text
  BY DEF Event, body, Becomes
<1>2. PICK r : r = EmitMissing([chat EXCEPT !.current = text])
  OBVIOUS
<1>3. /\ r.token \in Strings
      /\ r.tracker.current = text /\ r.tracker.allOut = Emitted \o r.token
      /\ EndsIn(r.tracker.allOut, LStrip(r.tracker.emitted))
      /\ \A m : longest # None /\ Follows(longest, text, m) => Aligned(r.tracker, m)
  BY <1>1, <1>2, GoesOut
<1>4. chat' = r.tracker /\ queue' = Token(r.token)
  BY <1>1, <1>2
<1>5. Emitted' = chat'.allOut
  <2>1. Emitted' = AllOf(mode, sent, queue')
    BY <1>1 DEF Emitted, AllOf
  <2> QED BY <1>3, <1>4, <2>1, TokenGoesOut
<1>6. longest' # None => Aligned(chat', longest') /\ IsPrefix(answer', longest')
  BY <1>1, <1>3, <1>4, BecomesFollows
<1>7. Tracked'
  BY <1>1, <1>3, <1>4, <1>5, <1>6 DEF Tracked
<1>8. longest' # None => LStrip(Emitted') = LStrip(longest')
  BY <1>5, <1>6 DEF Aligned
<1>9. sent \in Strings /\ record # "completed" /\ finish = "none"
  BY <1>1 DEF Accounted, Together, ReplyTyped, TypeOK, Relayed
<1> QED BY <1>1, <1>7, <1>8, <1>9 DEF Relayed

\* The sentinel says nothing, and a plain client is sent all tokens.
LEMMA ClosedOut ==
  ASSUME Relayed, mode \in {"stream", "plain"}, NEW q \in Seq(Strings), NEW ok \in BOOLEAN,
         RunEnds(q, ok), UNCHANGED mode
  PROVE  /\ Emitted' = AllOf(mode, sent, q) /\ sent' \in Strings
         /\ ok /\ mode = "plain" => sent' = Emitted'
<1>1. queue' = Append(q, End) /\ End = <<>> /\ <<>> \in Strings
  BY Glued DEF RunEnds, CloseRun, End
<1>2. Emitted' = AllOf(mode, sent', Append(q, <<>>))
  BY <1>1 DEF Emitted, AllOf
<1>3. sent \in Strings
  BY DEF Relayed
<1>4. ASSUME NEW s \in Strings PROVE AllOf(mode, s, Append(q, <<>>)) = AllOf(mode, s, q)
  <2>1. AllOf(mode, s, Append(q, <<>>)) = AllOf(mode, s, q) \o <<>>
    BY <1>1, <1>4, AllOfAppend, Zenon
  <2>2. AllOf(mode, s, q) \in Strings
    BY <1>4, AllOfGrows, Zenon
  <2> QED BY <2>1, <2>2, Glued
<1>5. CASE mode = "stream"
  <2>1. sent' = sent
    BY <1>5 DEF RunEnds, body
  <2> QED BY <1>2, <1>3, <1>4, <1>5, <2>1
<1>6. CASE mode = "plain"
  <2>1. sent' = IF ok THEN FlattenSeq(q) ELSE <<>>
    BY <1>6 DEF RunEnds
  <2>2. FlattenSeq(q) \in Strings
    BY FlattenAppend, Glued
  <2>3. sent' \in Strings
    BY <1>1, <2>1, <2>2
  <2>4. \A s : AllOf(mode, s, q) = FlattenSeq(q)
    BY <1>6 DEF AllOf
  <2> QED BY <1>2, <1>4, <1>6, <2>1, <2>3, <2>4
<1> QED BY <1>5, <1>6

\* The end of a turn by an event, with what that adds to the text.
LEMMA EndRelayed ==
  ASSUME Accounted, Relayed, NEW ev, NEW ok \in BOOLEAN, EndTurn(ev, ok),
         NEW text \in Strings, answer' = text,
         Feed(chat, ev).token = EmitMissing([chat EXCEPT !.current = text]).token,
         longest' # None => /\ longest # None
                            /\ \E m : Follows(longest, text, m) /\ LStrip(m) = LStrip(longest')
  PROVE  Relayed'
<1>1. /\ run = "turn" /\ RunEnds(Token(Feed(chat, ev).token), ok) /\ mode' = mode
  BY DEF EndTurn
<1>2. PICK r : r = EmitMissing([chat EXCEPT !.current = text])
  OBVIOUS
<1>3. /\ r.token \in Strings /\ r.tracker.allOut = Emitted \o r.token
      /\ HasIn(r.tracker.allOut, LStrip(text))
      /\ \A m : longest # None /\ Follows(longest, text, m) => Aligned(r.tracker, m)
  BY <1>1, <1>2, GoesOut
<1>4. RunEnds(Token(r.token), ok)
  BY <1>1, <1>2
<1>5. Token(r.token) \in Seq(Strings) /\ AllOf(mode, sent, Token(r.token)) = Emitted \o r.token
  BY <1>3, TokenGoesOut
<1>6. mode \in {"stream", "plain"}
  BY DEF Accounted, ReplyTyped, TypeOK
<1>7. /\ Emitted' = r.tracker.allOut /\ sent' \in Strings
      /\ ok /\ mode = "plain" => sent' = Emitted'
  <2>1. /\ Emitted' = AllOf(mode, sent, Token(r.token)) /\ sent' \in Strings
        /\ ok /\ mode = "plain" => sent' = Emitted'
    BY <1>1, <1>4, <1>5, <1>6, ClosedOut
  <2> QED BY <1>3, <1>5, <2>1
<1>8. longest' # None => LStrip(Emitted') = LStrip(longest')
  BY <1>3, <1>7 DEF Aligned
<1>9. HasIn(Emitted', LStrip(answer'))
  BY <1>3, <1>7
<1>10. run' = "ended"
  BY <1>1 DEF RunEnds, CloseRun
<1>11. mode = "plain" /\ finish' = "stop" => ok
  BY <1>1 DEF RunEnds
<1> QED BY <1>1, <1>7, <1>8, <1>9, <1>10, <1>11 DEF Relayed

\* The absent text is none.
LEMMA NoneIsNoText == \A x \in Strings : x # None
BY ReplyAssumption DEF Strings

\* A tracker whose reply reads otherwise is one.
LEMMA CurrentIs ==
  ASSUME NEW t \in Tracker, NEW text \in Strings
  PROVE  /\ [t EXCEPT !.current = text] \in Tracker
         /\ EmitMissing([t EXCEPT !.current = text]) \in Fed
<1>1. [t EXCEPT !.current = text] \in Tracker
  BY DEF Tracker, Strings
<1> QED BY <1>1, EmitMissingTyped

\* The token of a final event.
LEMMA FinalToken ==
  ASSUME NEW t, NEW ev, ev.state = "final", NEW r \in Fed,
         r = IF ev.message # None /\ (ev.message # <<>> \/ ev.delta = None)
             THEN Whole(t, ev.message)
             ELSE IF ev.delta # None THEN Added(t, ev.delta) ELSE EmitMissing(t)
  PROVE  Feed(t, ev).token = r.token
<1>1. \A m : [r EXCEPT !.tracker = m].token = r.token
  BY DEF Fed
<1>2. Feed(t, ev) = [r EXCEPT !.tracker = NewTracker]
  BY DEF Feed, FeedFinal
<1> QED BY <1>1, <1>2

\* An event that carries the whole text, as its message or as a replacement.
LEMMA FeedWhole ==
  ASSUME NEW t \in Tracker, NEW text \in Strings, NEW delta \in Strings, NEW replace \in BOOLEAN,
         NEW message, message = text \/ (message = None /\ replace /\ delta = text)
  PROVE  Feed(t, [state |-> "delta", delta |-> delta, replace |-> replace, message |-> message])
           = EmitMissing([t EXCEPT !.current = text])
BY NoneIsNoText DEF Feed, Whole

\* One that adds to it.
LEMMA FeedAdds ==
  ASSUME NEW t \in Tracker, NEW delta \in Strings, delta # <<>>,
         NEW text \in Strings, text = t.current \o delta
  PROVE  Feed(t, [state |-> "delta", delta |-> delta, replace |-> FALSE, message |-> None])
           = EmitMissing([t EXCEPT !.current = text])
<1>1. Added(t, delta) = EmitMissing([t EXCEPT !.current = text])
  BY DEF Added
<1>2. PICK ev : ev = [state |-> "delta", delta |-> delta, replace |-> FALSE, message |-> None]
  OBVIOUS
<1>3. Feed(t, ev) = Added(t, delta)
  BY <1>2, NoneIsNoText DEF Feed
<1> QED BY <1>1, <1>2, <1>3

\* The last one of a turn whose agent failed.
LEMMA ErrorAdds ==
  ASSUME NEW t \in Tracker, NEW delta \in Strings, delta # <<>>,
         NEW text \in Strings, text = t.current \o delta
  PROVE  Feed(t, [state |-> "error", delta |-> delta, replace |-> FALSE, message |-> None])
           = EmitMissing([t EXCEPT !.current = text])
<1>1. Added(t, delta) = EmitMissing([t EXCEPT !.current = text])
  BY DEF Added
<1>2. PICK ev : ev = [state |-> "error", delta |-> delta, replace |-> FALSE, message |-> None]
  OBVIOUS
<1>3. Feed(t, ev) = Added(t, delta)
  BY <1>2, NoneIsNoText DEF Feed
<1> QED BY <1>1, <1>2, <1>3

\* The final, with the whole text or with nothing.
LEMMA FinalTokens ==
  ASSUME NEW t \in Tracker, NEW text \in Strings, NEW message,
         message = text \/ (message = None /\ text = t.current)
  PROVE  Feed(t, FinalEvent(None, message)).token = EmitMissing([t EXCEPT !.current = text]).token
<1>1. PICK r : r = EmitMissing([t EXCEPT !.current = text])
  OBVIOUS
<1>2. r \in Fed
  BY <1>1, CurrentIs
<1>3. PICK ev : ev = FinalEvent(None, message)
  OBVIOUS
<1>4. ev.state = "final" /\ ev.message = message /\ ev.delta = None
  BY <1>3 DEF FinalEvent
<1>5. r = IF message # None THEN Whole(t, message) ELSE EmitMissing(t)
  <2>1. CASE message = text
    BY <1>1, <2>1, NoneIsNoText DEF Whole
  <2>2. CASE message = None /\ text = t.current
    <3>1. [t EXCEPT !.current = text] = t
      BY <2>2 DEF Tracker
    <3> QED BY <1>1, <2>2, <3>1
  <2> QED BY <2>1, <2>2
<1> QED BY <1>1, <1>2, <1>3, <1>4, <1>5, FinalToken

\* The final with the last of the text.
LEMMA FinalAdds ==
  ASSUME NEW t \in Tracker, NEW delta \in Strings, NEW message, message = None \/ message = <<>>,
         NEW n \in Tracker, n = [t EXCEPT !.current = t.current \o delta]
  PROVE  Feed(t, FinalEvent(delta, message)).token = EmitMissing(n).token
<1>1. PICK r : r = EmitMissing(n)
  OBVIOUS
<1>2. r \in Fed
  BY <1>1, EmitMissingTyped
<1>3. PICK ev : ev = FinalEvent(delta, message)
  OBVIOUS
<1>4. ev.state = "final" /\ ev.message = message /\ ev.delta = delta
  BY <1>3 DEF FinalEvent
<1>5. r = Added(t, delta) /\ delta # None
  BY <1>1, NoneIsNoText DEF Added
<1> QED BY <1>1, <1>2, <1>3, <1>4, <1>5, FinalToken

\* The reply is followed by the tracker through every event that does not end the turn.
LEMMA EventsRelayed == Accounted /\ Relayed /\ (Grow \/ Replace \/ Aside) => Relayed'
<1> SUFFICES ASSUME Accounted, Relayed, Grow \/ Replace \/ Aside PROVE Relayed'
  OBVIOUS
<1>0. chat \in Tracker
  BY DEF Accounted, ReplyTyped
<1>1. ASSUME NEW ev, Event(ev) PROVE chat.current = answer
  BY <1>1 DEF Event, Relayed, Tracked
<1>2. CASE Grow
  <2>1. PICK added \in BoundedSeq(Chars, MaxGrow), whole \in BOOLEAN :
          /\ added # <<>> /\ Len(answer \o added) <= MaxText
          /\ Event([state |-> "delta", delta |-> added, replace |-> FALSE,
                    message |-> IF whole THEN answer \o added ELSE None])
          /\ Becomes(answer \o added)
    BY <1>2 DEF Grow
  <2>2. PICK text : text = answer \o added
    OBVIOUS
  <2>3. text \in Strings /\ added \in Strings
    BY <2>1, <2>2, AnswerGrows, TextsAreSeqs DEF Strings
  <2>4. PICK message : message = IF whole THEN text ELSE None
    OBVIOUS
  <2>5. PICK ev :
          ev = [state |-> "delta", delta |-> added, replace |-> FALSE, message |-> message]
    OBVIOUS
  <2>6. Event(ev) /\ Becomes(text)
    BY <2>1, <2>2, <2>4, <2>5
  <2>7. text = chat.current \o added
    BY <1>1, <2>2, <2>6
  <2>8. Feed(chat, ev) = EmitMissing([chat EXCEPT !.current = text])
    <3>1. CASE whole
      BY <1>0, <2>3, <2>4, <2>5, <3>1, FeedWhole
    <3>2. CASE ~ whole
      <4>1. Feed(chat, [state |-> "delta", delta |-> added, replace |-> FALSE, message |-> None])
              = EmitMissing([chat EXCEPT !.current = text])
        BY <1>0, <2>1, <2>3, <2>7, FeedAdds
      <4> QED BY <2>4, <2>5, <3>2, <4>1
    <3> QED BY <3>1, <3>2
  <2> QED BY <2>3, <2>6, <2>8, EventRelayed
<1>3. CASE Replace
  <2>1. PICK text \in Texts, whole \in BOOLEAN :
          /\ Event([state |-> "delta", delta |-> text, replace |-> TRUE,
                    message |-> IF whole THEN text ELSE None])
          /\ Becomes(text)
    BY <1>3 DEF Replace
  <2>2. text \in Strings
    BY TextsAreSeqs DEF Strings
  <2>3. PICK message : message = IF whole THEN text ELSE None
    OBVIOUS
  <2>4. PICK ev :
          ev = [state |-> "delta", delta |-> text, replace |-> TRUE, message |-> message]
    OBVIOUS
  <2>5. Event(ev) /\ Becomes(text)
    BY <2>1, <2>3, <2>4
  <2>6. Feed(chat, ev) = EmitMissing([chat EXCEPT !.current = text])
    BY <1>0, <2>2, <2>3, <2>4, FeedWhole
  <2> QED BY <2>2, <2>5, <2>6, EventRelayed
<1>4. CASE Aside
  <2>1. PICK message \in {answer, None} :
          /\ Event([state |-> "aborted", delta |-> None, replace |-> FALSE,
                    message |-> message])
          /\ UNCHANGED <<answer, longest>>
    BY <1>4 DEF Aside
  <2>2. PICK ev :
          ev = [state |-> "aborted", delta |-> None, replace |-> FALSE, message |-> message]
    OBVIOUS
  <2>3. Event(ev)
    BY <2>1, <2>2
  <2>4. Feed(chat, ev) = Silent(chat)
    BY <2>2 DEF Feed
  <2>5. /\ chat' = chat /\ queue' = queue
        /\ UNCHANGED <<mode, run, sent, finish, record>>
    BY <2>3, <2>4 DEF Event, body, Silent, Token
  <2> QED BY <2>1, <2>5 DEF Relayed, Tracked, Aligned, Emitted
<1> QED BY <1>2, <1>3, <1>4

\* With its final, the text of a turn has gone out; with an error, its last delta.
LEMMA FinalsRelayed == Accounted /\ Relayed /\ (Finals \/ ErrorEvent) => Relayed'
<1> SUFFICES ASSUME Accounted, Relayed, Finals \/ ErrorEvent PROVE Relayed'
  OBVIOUS
<1>0. chat \in Tracker /\ TRUE \in BOOLEAN /\ FALSE \in BOOLEAN
  BY DEF Accounted, ReplyTyped
<1>1. ASSUME NEW ev, NEW ok \in BOOLEAN, EndTurn(ev, ok) PROVE Tracked
  BY <1>1 DEF EndTurn, Relayed
<1>2. ASSUME NEW text \in Strings, Becomes(text)
      PROVE  /\ answer' = text
             /\ longest' # None =>
                  /\ longest # None
                  /\ \E m : Follows(longest, text, m) /\ LStrip(m) = LStrip(longest')
  BY <1>2, BecomesFollows DEF Becomes
<1>3. CASE FinalWhole
  <2>1. PICK text \in Texts : EndTurn(FinalEvent(None, text), TRUE) /\ Becomes(text)
    BY <1>3 DEF FinalWhole
  <2>2. text \in Strings
    BY TextsAreSeqs DEF Strings
  <2>3. Feed(chat, FinalEvent(None, text)).token
          = EmitMissing([chat EXCEPT !.current = text]).token
    BY <1>0, <2>2, FinalTokens
  <2> QED BY <1>0, <1>2, <2>1, <2>2, <2>3, EndRelayed
<1>4. CASE FinalBare
  <2>1. EndTurn(FinalEvent(None, None), TRUE) /\ answer' = answer /\ longest' = longest
    BY <1>4 DEF FinalBare
  <2>2. answer \in Strings /\ (longest # None => longest \in Strings)
    BY TextsAreSeqs DEF Accounted, ReplyTyped, Strings
  <2>3. answer = chat.current /\ (longest # None => IsPrefix(answer, longest))
    BY <1>0, <1>1, <2>1 DEF Tracked
  <2>4. Feed(chat, FinalEvent(None, None)).token
          = EmitMissing([chat EXCEPT !.current = answer]).token
    BY <1>0, <2>2, <2>3, FinalTokens
  <2>5. ASSUME longest # None
        PROVE  \E m : Follows(longest, answer, m) /\ LStrip(m) = LStrip(longest)
    <3>1. PICK x, y : x = LStrip(answer) /\ y = LStrip(longest)
      OBVIOUS
    <3>2. x \in Strings /\ y \in Strings /\ IsPrefix(x, y)
      BY <2>2, <2>3, <2>5, <3>1, Stripped, StripPrefix
    <3>3. CASE IsPrefix(y, x)
      <4>1. x = y
        BY <3>2, <3>3, PrefixesAgree
      <4> QED BY <3>1, <3>3, <4>1 DEF Follows
    <3>4. CASE ~ IsPrefix(y, x)
      BY <2>3, <2>5, <3>1, <3>4 DEF Follows
    <3> QED BY <3>3, <3>4
  <2> QED BY <1>0, <2>1, <2>2, <2>4, <2>5, EndRelayed
<1>5. ASSUME NEW added \in Strings, NEW message, message = None \/ message = <<>>,
             NEW text \in Strings, text = answer \o added,
             EndTurn(FinalEvent(added, message), TRUE), Becomes(text)
      PROVE  Relayed'
  <2>1. text = chat.current \o added
    BY <1>0, <1>1, <1>5 DEF Tracked
  <2>2. PICK n : n = [chat EXCEPT !.current = text]
    OBVIOUS
  <2>3. n \in Tracker /\ n = [chat EXCEPT !.current = chat.current \o added]
    BY <1>0, <1>5, <2>1, <2>2, CurrentIs
  <2>4. Feed(chat, FinalEvent(added, message)).token = EmitMissing(n).token
    <3>1. added \in Strings /\ (message = None \/ message = <<>>)
      BY <1>5
    <3> HIDE <1>5
    <3> QED BY <1>0, <2>3, <3>1, FinalAdds
  <2> QED BY <1>0, <1>2, <1>5, <2>2, <2>4, EndRelayed
<1>6. CASE FinalDelta
  <2>1. PICK added \in BoundedSeq(Chars, MaxGrow), message \in {None, <<>>} :
          /\ Len(answer \o added) <= MaxText
          /\ EndTurn(FinalEvent(added, message), TRUE) /\ Becomes(answer \o added)
    BY <1>6 DEF FinalDelta
  <2>2. answer \o added \in Strings /\ added \in Strings
    BY <2>1, AnswerGrows, TextsAreSeqs DEF Strings
  <2> QED BY <1>5, <2>1, <2>2
<1>7. CASE ErrorEvent
  <2>1. PICK added \in BoundedSeq(Chars, MaxGrow) :
          /\ added # <<>> /\ Len(answer \o added) <= MaxText
          /\ EndTurn([state |-> "error", delta |-> added, replace |-> FALSE, message |-> None],
                     FALSE)
          /\ Becomes(answer \o added)
    BY <1>7 DEF ErrorEvent
  <2>2. PICK text : text = answer \o added
    OBVIOUS
  <2>3. text \in Strings /\ added \in Strings
    BY <2>1, <2>2, AnswerGrows, TextsAreSeqs DEF Strings
  <2>4. PICK ev :
          ev = [state |-> "error", delta |-> added, replace |-> FALSE, message |-> None]
    OBVIOUS
  <2>5. EndTurn(ev, FALSE) /\ Becomes(text)
    BY <2>1, <2>2, <2>4
  <2>6. text = chat.current \o added
    BY <1>0, <1>1, <2>2, <2>5 DEF Tracked
  <2>7. Feed(chat, ev) = EmitMissing([chat EXCEPT !.current = text])
    BY <1>0, <2>1, <2>3, <2>4, <2>6, ErrorAdds
  <2> QED BY <1>0, <1>2, <2>3, <2>5, <2>7, EndRelayed
<1> QED BY <1>3, <1>4, <1>6, <1>7 DEF Finals

\* A turn that is lost or cut says nothing more.
LEMMA FailuresRelayed == Accounted /\ Relayed /\ (TurnFails \/ RunCut) => Relayed'
<1> SUFFICES ASSUME Accounted, Relayed, TurnFails \/ RunCut PROVE Relayed'
  OBVIOUS
<1>1. /\ mode \in {"stream", "plain"} /\ queue \in Seq(Strings) /\ sent \in Strings
      /\ Emitted = AllOf(mode, sent, queue)
  BY DEF Accounted, ReplyTyped, TypeOK, Relayed, Emitted, AllOf, Strings
<1>2. /\ answer' = answer /\ longest' = longest /\ mode' = mode
      /\ run' = "ended" /\ record' = "error"
  BY DEF TurnFails, RunCut, RunEnds, CloseRun, claw
<1>3. run \in {"turn", "cancelled"} /\ finish = "none"
  BY DEF TurnFails, RunCut, Accounted, Together, ReplyTyped, TypeOK
<1>4. Emitted' = Emitted /\ sent' \in Strings /\ finish' # "stop"
  <2>1. CASE TurnFails
    <3>1. RunEnds(queue, FALSE)
      BY <2>1 DEF TurnFails
    <3>2. finish' # "stop"
      BY <1>3, <3>1 DEF RunEnds, body
    <3> QED BY <1>1, <1>2, <3>1, <3>2, ClosedOut
  <2>2. CASE RunCut
    <3>1. queue' = Append(queue, <<>>) /\ sent' = sent /\ finish' = finish
      BY <2>2 DEF RunCut, CloseRun, End
    <3>2. Emitted' = AllOf(mode, sent, Append(queue, <<>>))
      BY <1>2, <3>1 DEF Emitted, AllOf
    <3>3. AllOf(mode, sent, Append(queue, <<>>)) = AllOf(mode, sent, queue) \o <<>>
      <4>1. sent \in Strings /\ queue \in Seq(Strings) /\ <<>> \in Strings
        BY <1>1, Glued
      <4> QED BY <4>1, AllOfAppend, Zenon
    <3>4. Emitted \in Strings
      BY <1>1, AllOfGrows
    <3> QED BY <1>1, <1>3, <3>1, <3>2, <3>3, <3>4, Glued
  <2> QED BY <2>1, <2>2
<1> QED BY <1>2, <1>4 DEF Relayed

\* The body only moves text from the queue to the client.
LEMMA BodyRelayed == Accounted /\ Relayed /\ (Body \/ GenLeaves) => Relayed'
<1> SUFFICES ASSUME Accounted, Relayed, Body \/ GenLeaves PROVE Relayed'
  OBVIOUS
<1>0. mode = "stream"
  BY DEF Body, GenReads, GenWrote, GenLeft, GenFinishes, GenLeaves, Accounted, Together
<1>1. CASE GenReads
  <2>1. /\ queue # <<>> /\ queue' = Tail(queue)
        /\ sent' = IF Head(queue) = End THEN sent ELSE sent \o Head(queue)
        /\ UNCHANGED <<mode, claw, run, finish, record>>
    BY <1>1 DEF GenReads
  <2>2. sent \in Strings /\ queue \in Seq(Strings)
    BY DEF Relayed, Accounted, ReplyTyped, Strings
  <2>3. /\ Head(queue) \in Strings
        /\ AllOf("stream", sent \o Head(queue), Tail(queue)) = AllOf("stream", sent, queue)
    BY <2>1, <2>2, AllOfMoves
  <2>4. sent' = sent \o Head(queue) /\ sent' \in Strings
    <3>1. PICK x : x = Head(queue)
      OBVIOUS
    <3>2. sent \o <<>> = sent /\ sent \o x \in Strings
      BY <2>2, <2>3, <3>1, Glued
    <3> QED BY <2>1, <2>2, <3>1, <3>2 DEF End
  <2>5. Emitted' = Emitted
    BY <1>0, <2>1, <2>3, <2>4 DEF Emitted, AllOf
  <2> QED BY <1>0, <2>1, <2>4, <2>5 DEF claw, Relayed, Tracked, Aligned
<1>2. CASE ~ GenReads
  <2>1. /\ UNCHANGED <<mode, claw, queue, sent, record>> /\ mode' = "stream"
        /\ run' # "ended" => run # "ended"
    BY <1>0, <1>2 DEF Body, GenWrote, GenLeft, GenFinishes, GenLeaves
  <2> QED BY <2>1 DEF claw, Relayed, Tracked, Aligned, Emitted
<1> QED BY <1>1, <1>2

\* The handler and the first steps touch no text.
LEMMA HandlerRelayed ==
  Accounted /\ Relayed /\ (Refuse \/ Accept \/ BodyNever \/ BodyStarts \/ RunStarts \/ HandlerCut)
    => Relayed'
<1> SUFFICES ASSUME Accounted, Relayed,
                    Refuse \/ Accept \/ BodyNever \/ BodyStarts \/ RunStarts \/ HandlerCut
             PROVE  Relayed'
  OBVIOUS
<1>1. /\ UNCHANGED <<mode, claw, queue, sent, finish>> /\ (run' # "ended" => run # "ended")
      /\ record' = "completed" => record = "completed"
  BY DEF Refuse, Accept, BodyNever, BodyStarts, RunStarts, HandlerCut, body,
         Accounted, Together, ReplyTyped, TypeOK
<1> QED BY <1>1 DEF claw, Relayed, Tracked, Aligned, Emitted

\* The inductive invariant of the text holds in every state.
LEMMA RelayedAlways == Spec => [](Accounted /\ Relayed)
<1>1. Init => Accounted /\ Relayed
  BY AccountedInit, RelayedInit
<1>2. Accounted /\ Relayed /\ [Next]_vars => Accounted' /\ Relayed'
  <2>1. CASE UNCHANGED vars
    <3>1. Relayed /\ UNCHANGED vars => Relayed'
      BY DEF vars, claw, body, Relayed, Tracked, Aligned, Emitted
    <3> QED BY <2>1, <3>1, AccountedStep
  <2> QED BY <2>1, AccountedStep, HandlerRelayed, EventsRelayed, FinalsRelayed, FailuresRelayed,
             BodyRelayed DEF Next
<1> QED BY <1>1, <1>2, PTL DEF Spec

\* A reply that only grew, or was cut back to a beginning of itself, goes out once: what was
\* emitted is the longest it has been, no character missing and none twice, for replies of any
\* length in any pieces.
THEOREM NothingGoesOutTwice == Spec => []NothingTwice
<1>1. Relayed => NothingTwice
  BY DEF Relayed, NothingTwice
<1> QED BY <1>1, RelayedAlways, PTL

\* Whoever is told that the reply is complete was sent its final text, in one piece, whatever was
\* added, cut back or replaced before.
THEOREM FinalTextAlwaysArrives == Spec => []FinalTextArrives
<1>1. Accounted /\ Relayed => FinalTextArrives
  <2> SUFFICES ASSUME Accounted, Relayed, finish = "stop" PROVE FinalTextArrives
    BY DEF FinalTextArrives
  <2>1. /\ HasIn(Emitted, LStrip(answer)) /\ sent \in Strings
        /\ mode = "plain" => sent = Emitted
        /\ mode = "stream" => queue = <<>>
        /\ mode \in {"plain", "stream"}
    BY DEF Accounted, Together, ReplyTyped, TypeOK, Relayed
  <2>2. sent = Emitted
    <3>1. <<>> \in Seq(Strings)
      OBVIOUS
    <3>2. AllOf("stream", sent, <<>>) = sent
      BY <2>1, <3>1, AllOfGrows
    <3>3. mode = "stream" => Emitted = AllOf("stream", sent, <<>>)
      BY <2>1 DEF Emitted, AllOf
    <3> QED BY <2>1, <3>2, <3>3
  <2>3. PICK x : x = LStrip(answer)
    OBVIOUS
  <2>4. x \in Strings
    BY <2>3, TextsAreSeqs, Stripped DEF Accounted, ReplyTyped, Strings
  <2>5. PICK p \in Strings, q \in Strings : sent = p \o (x \o q)
    BY <2>1, <2>2, <2>3 DEF HasIn
  <2>6. x \o q \in Strings /\ Drop(p \o (x \o q), Len(p)) = x \o q /\ IsPrefix(x, x \o q)
    BY <2>4, <2>5, Glued, GluedIsPrefix
  <2>7. Len(p) \in 0..Len(sent)
    <3>1. Len(p) \in Nat /\ Len(x \o q) \in Nat /\ Len(p \o (x \o q)) = Len(p) + Len(x \o q)
      BY <2>6 DEF Strings
    <3> QED BY <2>5, <3>1
  <2>8. IsPrefix(x, Drop(sent, Len(p)))
    BY <2>5, <2>6
  <2> QED BY <2>3, <2>7, <2>8 DEF FinalTextArrives
<1> QED BY <1>1, RelayedAlways, PTL
=============================================================================
