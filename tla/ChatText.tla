-------------------------------- MODULE ChatText --------------------------------
(***************************************************************************)
(* How the text of a reply is rebuilt from OpenClaw's `chat` events        *)
(* (src/jota_gateway/services/openclaw/chat_text.py, issues #241 and       *)
(* #243): every event says what was added, or carries the whole text so    *)
(* far, or replaces it, and only what the client has not been sent yet may *)
(* go out, for nothing that was sent can be taken back.                    *)
(*                                                                         *)
(* Pure operators: a text is a sequence of characters, a tracker a record, *)
(* and an event a record whose `delta` and `message` are texts or None.    *)
(* `message` is the text extract_message_text makes of whatever came, <<>> *)
(* when nothing in it is text.                                             *)
(***************************************************************************)
EXTENDS Naturals, SequencesExt

CONSTANTS
  Blank,  \* the character str.strip() takes away
  None    \* an absent deltaText or message

Drop(s, n) == SubSeq(s, n + 1, Len(s))

\* str.lstrip()
LStrip(s) == Drop(s, Cardinality({i \in DOMAIN s : \A j \in 1..i : s[j] = Blank}))

-----------------------------------------------------------------------------
\* _is_retraction: a strict prefix of what was emitted, and not empty.
IsRetraction(emitted, text) == text # <<>> /\ IsStrictPrefix(text, emitted)

\* _tail: how `text` fits on what was emitted, and what is left of it to emit.  Leading blanks
\* of either side are forgiven, unless that leaves nothing to compare with.
TextTail(emitted, text) ==
  LET e == LStrip(emitted)
      f == LStrip(text) IN
  IF IsPrefix(emitted, text)            THEN [fits |-> "ok", out |-> Drop(text, Len(emitted))]
  ELSE IF e # <<>> /\ IsPrefix(e, f)    THEN [fits |-> "ok", out |-> Drop(f, Len(e))]
  ELSE IF IsRetraction(emitted, text)   THEN [fits |-> "retract", out |-> <<>>]
  ELSE [fits |-> "no", out |-> text]

-----------------------------------------------------------------------------
(* ChatTextTracker.                                                        *)

NewTracker == [emitted |-> <<>>, current |-> <<>>, allOut |-> <<>>]

\* _emit_missing: against the last aligned text, then against all that went out; a text that
\* fits neither goes out in full.  Nothing goes out, and the alignment stays, for an empty text
\* or one that was cut back.
EmitMissing(t) ==
  LET first == TextTail(t.emitted, t.current)
      hit   == IF first.fits # "no" THEN first ELSE TextTail(t.allOut, t.current) IN
  IF t.current = <<>> \/ hit.fits = "retract" THEN [tracker |-> t, token |-> <<>>]
  ELSE [tracker |-> [t EXCEPT !.emitted = t.current, !.allOut = @ \o hit.out],
        token   |-> hit.out]

Added(t, delta) == EmitMissing([t EXCEPT !.current = @ \o delta])
Whole(t, text)  == EmitMissing([t EXCEPT !.current = text])
Silent(t)       == [tracker |-> t, token |-> <<>>]

\* feed, with state "final": the message is the whole reply unless it brought no text and there
\* is a delta; then the tracker starts over.
FeedFinal(t, ev) ==
  LET whole == ev.message # None /\ (ev.message # <<>> \/ ev.delta = None)
      done  == IF whole THEN Whole(t, ev.message)
               ELSE IF ev.delta # None THEN Added(t, ev.delta)
               ELSE EmitMissing(t) IN
  [done EXCEPT !.tracker = NewTracker]

\* feed, any other event: a message is authoritative and already holds the delta, a delta with
\* `replace` is the entire text, any other is what was added.  Outside a reply (status, aborted,
\* error) only a delta counts.
FeedTwice(t, ev) ==                      \* mutant of Feed: the delta is added to the message
  IF ev.state = "final" THEN FeedFinal(t, ev)
  ELSE IF ev.message # None /\ ev.delta # None THEN Whole(t, ev.message \o ev.delta)
  ELSE IF ev.message # None THEN Whole(t, ev.message)
  ELSE IF ev.delta # None THEN Added(t, ev.delta)
  ELSE Silent(t)
FeedOldFinal(t, ev) ==                   \* mutant of Feed: a final only counts by its delta
  IF ev.message # None /\ ev.state # "final" THEN Whole(t, ev.message)
  ELSE IF ev.delta # None /\ ev.delta # <<>> THEN Added(t, ev.delta)
  ELSE Silent(t)
Feed(t, ev) ==
  IF ev.state = "final" THEN FeedFinal(t, ev)
  ELSE IF ev.state # "delta"
       THEN IF ev.delta \in {None, <<>>} THEN Silent(t) ELSE Added(t, ev.delta)
  ELSE IF ev.message # None              THEN Whole(t, ev.message)
  ELSE IF ev.replace /\ ev.delta # None  THEN Whole(t, ev.delta)
  ELSE IF ev.delta \notin {None, <<>>}   THEN Added(t, ev.delta)
  ELSE Silent(t)
=============================================================================
