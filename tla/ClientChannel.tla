---------------------------- MODULE ClientChannel ----------------------------
(***************************************************************************)
(* What a session is promised of its way out to the client                 *)
(* (OutboundSender, src/jota_gateway/services/outbound.py): messages reach  *)
(* the socket in the order they were accepted, none twice and none skipped; *)
(* a flush that succeeds says that everything accepted before it was        *)
(* written; once the channel is broken nothing more is written.            *)
(***************************************************************************)
EXTENDS Naturals, Sequences

CONSTANT Flushes     \* calls of flush()

VARIABLES
  sent,     \* messages accepted so far: they are numbered in that order
  got,      \* the messages written to the socket
  open,     \* messages are accepted
  broken,   \* nothing more will be written
  flush     \* [st, upto]: each flush and what had been accepted when it was called

vars == <<sent, got, open, broken, flush>>

FlushState == {"idle", "waiting", "done", "failed", "cancelled"}

Init ==
  /\ sent = 0 /\ got = <<>> /\ open = TRUE /\ broken = FALSE
  /\ flush = [f \in Flushes |-> [st |-> "idle", upto |-> 0]]

Send == open /\ sent' = sent + 1 /\ UNCHANGED <<got, open, broken, flush>>

Write ==
  /\ ~broken /\ Len(got) < sent
  /\ got' = Append(got, Len(got) + 1)
  /\ UNCHANGED <<sent, open, broken, flush>>

FlushBegin(f) ==
  /\ open /\ flush[f].st = "idle"
  /\ flush' = [flush EXCEPT ![f] = [st |-> "waiting", upto |-> sent]]
  /\ UNCHANGED <<sent, got, open, broken>>

FlushReturns(f) ==
  /\ flush[f].st = "waiting" /\ Len(got) >= flush[f].upto
  /\ flush' = [flush EXCEPT ![f].st = "done"]
  /\ UNCHANGED <<sent, got, open, broken>>

FlushCancelled(f) ==
  /\ flush[f].st = "waiting"
  /\ flush' = [flush EXCEPT ![f].st = "cancelled"]
  /\ UNCHANGED <<sent, got, open, broken>>

AllFailed ==
  flush' = [f \in Flushes |-> IF flush[f].st = "waiting" THEN [flush[f] EXCEPT !.st = "failed"]
                                                         ELSE flush[f]]

Close == open' = FALSE /\ UNCHANGED <<sent, got, broken, flush>>

Break ==
  /\ broken' = TRUE /\ open' = FALSE
  /\ AllFailed \/ UNCHANGED flush
  /\ UNCHANGED <<sent, got>>

FailWaiting == broken /\ AllFailed /\ UNCHANGED <<sent, got, open, broken>>

Next == \/ Send \/ Write \/ Close \/ Break \/ FailWaiting
        \/ \E f \in Flushes : FlushBegin(f) \/ FlushReturns(f) \/ FlushCancelled(f)

Spec == Init /\ [][Next]_vars
=============================================================================
