---------------------------- MODULE SttUpstreamProofs ----------------------------
(***************************************************************************)
(* What holds of the permits of the speech-to-text provider, and of what   *)
(* its sessions say of themselves, for any number of sessions, permits,    *)
(* frames of audio and faults.                                             *)
(***************************************************************************)
EXTENDS SttUpstream, FiniteSetTheorems, TLAPS

Upstream == [permit : BOOLEAN, ready : BOOLEAN, closing : BOOLEAN, draining : BOOLEAN,
             outcome : {"other", "error", "capacity", "terminal"}]
Lives    == Over \cup {"start", "connect", "handshake", "read", "hangup", "backoff", "final",
                       "reopen"}
Socks    == {"none", "open", "dropped", "shut"}

\* The sessions that hold a permit.
Holders == {s \in Sessions : up[s].permit}

\* The permit lives as long as the life task, whose session it claims; a socket is open only
\* while that task shakes hands or reads; and only a session that is closed or a provider that
\* rejects it cancels the task.
Lease ==
  \A s \in Sessions :
    /\ up[s].permit <=> Alive(s)
    /\ Alive(s) => conn[s]
    /\ sock[s] = "open" => life[s] \in {"handshake", "read"}
    /\ cancelled[s] => Closed(s) \/ terminal
    /\ closer[s] = "unborn" => ~conn[s] /\ ~cancelled[s]
    /\ conn[s] /\ ~Closed(s) /\ ~terminal => Alive(s)

Inv == TypeOK /\ PermitsExact /\ Lease

-----------------------------------------------------------------------------
(* Permits.                                                                *)

LEMMA HoldersFinite ==
  IsFiniteSet(Holders) /\ Cardinality(Holders) \in Nat /\ Holders \subseteq Sessions
BY SttAssumption, FS_Subset, FS_CardinalityType DEF Holders

\* Nothing happens to the permits.
LEMMA PermitsStay ==
  ASSUME PermitsExact, sem' = sem, \A s \in Sessions : up'[s].permit = up[s].permit
  PROVE  PermitsExact'
<1>1. Holders' = Holders
  BY DEF Holders
<1> QED BY <1>1 DEF PermitsExact, Holders

\* A permit is taken by a session that had none.
LEMMA PermitTaken ==
  ASSUME Inv, NEW s \in Sessions, ~up[s].permit, sem > 0, sem' = sem - 1, up'[s].permit,
         \A o \in Sessions \ {s} : up'[o].permit = up[o].permit
  PROVE  PermitsExact' /\ sem' \in 0..Permits
<1>1. Holders' = Holders \cup {s} /\ s \notin Holders
  BY DEF Holders
<1>2. Cardinality(Holders') = Cardinality(Holders) + 1
  BY <1>1, HoldersFinite, FS_AddElement
<1> QED BY <1>2, HoldersFinite, SttAssumption DEF Inv, TypeOK, PermitsExact, Holders

\* The permit of an upstream comes back.
LEMMA PermitReturned ==
  ASSUME Inv, NEW s \in Sessions, up[s].permit, sem' = sem + 1, ~up'[s].permit,
         \A o \in Sessions \ {s} : up'[o].permit = up[o].permit
  PROVE  PermitsExact' /\ sem' \in 0..Permits
<1>1. Holders' = Holders \ {s} /\ s \in Holders
  BY DEF Holders
<1>2. Cardinality(Holders') = Cardinality(Holders) - 1
  BY <1>1, HoldersFinite, FS_RemoveElement
<1>3. Cardinality(Holders) >= 1
  BY <1>1, HoldersFinite, FS_EmptySet
<1> QED BY <1>2, <1>3, HoldersFinite, SttAssumption DEF Inv, TypeOK, PermitsExact, Holders

-----------------------------------------------------------------------------
(* What the helpers leave behind.                                          *)

LEMMA AudioTyped ==
  ASSUME TypeOK, NEW s \in Sessions, NEW has \in BOOLEAN, NEW unc \in BOOLEAN,
         Pumps(s, has, unc) \/ Commits(s) \/ Discard(s)
  PROVE  buf' \in Bools /\ uncommitted' \in Bools /\ want' \in Bools
<1>1. CASE Commits(s)
  BY <1>1, Zenon DEF Commits, TypeOK, Bools
<1>2. CASE Discard(s)
  BY <1>2, Zenon DEF Discard, TypeOK, Bools
<1>3. CASE Pumps(s, has, unc) /\ ~Commits(s)
  <2>1. PICK left \in {FALSE, has} :
          /\ buf' = [buf EXCEPT ![s] = left] /\ uncommitted' = [uncommitted EXCEPT ![s] = unc]
          /\ want' = want
    BY <1>3 DEF Pumps
  <2>2. left \in BOOLEAN
    OBVIOUS
  <2> QED BY <2>1, <2>2, Zenon DEF TypeOK, Bools
<1> QED BY <1>1, <1>2, <1>3

\* A rejection of the credentials.
LEMMA Rejects ==
  ASSUME TypeOK, MarkTerminal
  PROVE  /\ terminal' = TRUE /\ cancelled' \in Bools
         /\ buf' \in Bools /\ uncommitted' \in Bools /\ want' \in Bools
         /\ health' \in [Sessions -> {"connected", "reconnecting", "degraded"}]
         /\ \A s \in Sessions : cancelled'[s] => life'[s] \notin Over
<1>1. buf' \in Bools /\ uncommitted' \in Bools /\ want' \in Bools /\ cancelled' \in Bools
  BY Zenon DEF MarkTerminal, Bools
<1>2. health' \in [Sessions -> {"connected", "reconnecting", "degraded"}]
  BY DEF MarkTerminal, TypeOK
<1> QED BY <1>1, <1>2 DEF MarkTerminal

\* An upstream is opened, or is not.
LEMMA Opens ==
  ASSUME Inv, NEW s \in Sessions, NEW has \in BOOLEAN, NEW unc \in BOOLEAN,
         MayOpen(s), Ensure(s, has, unc)
  PROVE  /\ PermitsExact' /\ sem' \in 0..Permits
         /\ conn' \in Bools /\ up' \in [Sessions -> Upstream] /\ life' \in [Sessions -> Lives]
         /\ cool' \in Bools /\ buf' \in Bools /\ uncommitted' \in Bools /\ want' \in Bools
         /\ \A o \in Sessions \ {s} : up'[o] = up[o] /\ life'[o] = life[o] /\ conn'[o] = conn[o]
         /\ \/ up'[s].permit /\ life'[s] = "start" /\ conn'[s]
            \/ up'[s] = up[s] /\ life'[s] = life[s] /\ conn'[s] = conn[s]
<1>1. ~up[s].permit
  BY DEF MayOpen, Inv, Lease
<1>2. CASE /\ sem > 0 /\ sem' = sem - 1
           /\ conn' = [conn EXCEPT ![s] = TRUE]
           /\ up' = [up EXCEPT ![s] = [NoUp EXCEPT !.permit = TRUE]]
           /\ life' = [life EXCEPT ![s] = "start"] /\ cool' = [cool EXCEPT ![s] = FALSE]
           /\ buf' = [buf EXCEPT ![s] = has] /\ uncommitted' = [uncommitted EXCEPT ![s] = unc]
           /\ UNCHANGED want
  <2>1. /\ conn' \in Bools /\ conn'[s] /\ \A o \in Sessions \ {s} : conn'[o] = conn[o]
        /\ cool' \in Bools /\ buf' \in Bools /\ uncommitted' \in Bools /\ want' \in Bools
    BY <1>2, Zenon DEF Inv, TypeOK, Bools
  <2>2. /\ up' \in [Sessions -> Upstream] /\ up'[s].permit
        /\ \A o \in Sessions \ {s} : up'[o] = up[o]
    BY <1>2 DEF Inv, TypeOK, Upstream, NoUp
  <2>3. /\ life' \in [Sessions -> Lives] /\ life'[s] = "start"
        /\ \A o \in Sessions \ {s} : life'[o] = life[o]
    BY <1>2 DEF Inv, TypeOK, Lives
  <2>4. PermitsExact' /\ sem' \in 0..Permits
    BY <1>1, <1>2, <2>2, PermitTaken
  <2> QED BY <2>1, <2>2, <2>3, <2>4
<1>3. CASE /\ buf' = [buf EXCEPT ![s] = FALSE] /\ uncommitted' = [uncommitted EXCEPT ![s] = unc]
           /\ want' = want /\ UNCHANGED <<conn, up, life, cool, sem>>
  <2>1. cool' \in Bools /\ buf' \in Bools /\ uncommitted' \in Bools /\ want' \in Bools
    BY <1>3, Zenon DEF Inv, TypeOK, Bools
  <2>2. PermitsExact'
    BY <1>3, PermitsStay DEF Inv
  <2> QED BY <1>3, <2>1, <2>2 DEF Inv, TypeOK, Upstream, Lives
<1>4. CASE /\ cool' = [cool EXCEPT ![s] = FALSE] /\ Discard(s) /\ UNCHANGED <<conn, up, life, sem>>
  <2>1. cool' \in Bools /\ buf' \in Bools /\ uncommitted' \in Bools /\ want' \in Bools
    BY <1>4, Zenon DEF Discard, Inv, TypeOK, Bools
  <2>2. PermitsExact'
    BY <1>4, PermitsStay DEF Inv
  <2> QED BY <1>4, <2>1, <2>2 DEF Inv, TypeOK, Upstream, Lives
<1> QED BY <1>2, <1>3, <1>4 DEF Ensure

\* The marks of an upstream change, its permit does not.
LEMMA Marks ==
  ASSUME TypeOK, NEW s \in Sessions, NEW b \in BOOLEAN, NEW c \in BOOLEAN,
         NEW kind \in {"other", "error", "capacity", "terminal"},
         \/ up' = [up EXCEPT ![s].ready = b] \/ up' = [up EXCEPT ![s].closing = b]
         \/ up' = [up EXCEPT ![s].draining = b] \/ up' = [up EXCEPT ![s].outcome = kind]
         \/ up' = [up EXCEPT ![s].outcome = kind, ![s].closing = b]
         \/ up' = [up EXCEPT ![s] = [up[s] EXCEPT !.ready = b, !.closing = c]]
         \/ up' = up
  PROVE  up' \in [Sessions -> Upstream] /\ \A o \in Sessions : up'[o].permit = up[o].permit
<1> DEFINE u == up[s]
<1>1. up \in [Sessions -> Upstream] /\ u \in Upstream
  BY DEF TypeOK, Upstream
<1>2. SUFFICES ASSUME NEW v \in Upstream, v.permit = u.permit, up' = [up EXCEPT ![s] = v]
               PROVE  up' \in [Sessions -> Upstream]
                      /\ \A o \in Sessions : up'[o].permit = up[o].permit
  <2>1. /\ [u EXCEPT !.ready = b] \in Upstream /\ [u EXCEPT !.ready = b].permit = u.permit
        /\ [u EXCEPT !.closing = b] \in Upstream /\ [u EXCEPT !.closing = b].permit = u.permit
        /\ [u EXCEPT !.draining = b] \in Upstream /\ [u EXCEPT !.draining = b].permit = u.permit
        /\ [u EXCEPT !.outcome = kind] \in Upstream /\ [u EXCEPT !.outcome = kind].permit = u.permit
    BY <1>1 DEF Upstream
  <2>2. /\ [u EXCEPT !.outcome = kind, !.closing = b] \in Upstream
        /\ [u EXCEPT !.outcome = kind, !.closing = b].permit = u.permit
        /\ [u EXCEPT !.ready = b, !.closing = c] \in Upstream
        /\ [u EXCEPT !.ready = b, !.closing = c].permit = u.permit
    BY <1>1 DEF Upstream
  <2>3. CASE up' = up
    BY <1>1, <2>3
  <2>4. CASE up' = [up EXCEPT ![s].outcome = kind, ![s].closing = b]
    <3>1. up' = [up EXCEPT ![s] = [u EXCEPT !.outcome = kind, !.closing = b]]
      BY <1>1, <2>4
    <3> QED BY <3>1, <2>2
  <2> QED BY <2>1, <2>2, <2>3, <2>4
<1> QED BY <1>1, <1>2

\* A life task is over.
LEMMA Goes ==
  ASSUME Inv, NEW s \in Sessions, Alive(s),
         up' = [up EXCEPT ![s] = NoUp], life' = [life EXCEPT ![s] = "done"],
         sem' = sem + Freed(up[s].permit)
  PROVE  /\ PermitsExact' /\ sem' \in 0..Permits
         /\ up' \in [Sessions -> Upstream] /\ life' \in [Sessions -> Lives]
         /\ ~up'[s].permit /\ life'[s] = "done"
         /\ \A o \in Sessions \ {s} : up'[o] = up[o] /\ life'[o] = life[o]
<1>1. up[s].permit /\ sem' = sem + 1
  BY DEF Inv, Lease, Freed, TypeOK
<1>2. /\ up' \in [Sessions -> Upstream] /\ ~up'[s].permit
      /\ \A o \in Sessions \ {s} : up'[o] = up[o]
  BY DEF Inv, TypeOK, Upstream, NoUp
<1>3. /\ life' \in [Sessions -> Lives] /\ life'[s] = "done"
      /\ \A o \in Sessions \ {s} : life'[o] = life[o]
  BY DEF Inv, TypeOK, Lives, Over
<1> QED BY <1>1, <1>2, <1>3, PermitReturned

-----------------------------------------------------------------------------
LEMMA InvInit == Init => Inv
<1> SUFFICES ASSUME Init PROVE Inv
  OBVIOUS
<1>1. /\ conn \in Bools /\ reader \in Bools /\ again \in Bools /\ cancelled \in Bools
      /\ pending \in Bools /\ buf \in Bools /\ uncommitted \in Bools /\ want \in Bools
      /\ cool \in Bools /\ terminal \in BOOLEAN
  BY Zenon DEF Init, Bools
<1>2. TypeOK
  BY <1>1, SttAssumption DEF Init, TypeOK, NoUp, Over, Drain
<1>3. PermitsExact
  <2>1. Holders = {}
    BY DEF Init, NoUp, Holders
  <2>2. Cardinality(Holders) = 0 /\ sem = Permits
    BY <2>1, FS_EmptySet DEF Init
  <2> QED BY <2>2, SttAssumption DEF PermitsExact, Holders
<1>4. Lease
  BY DEF Init, Lease, NoUp, Alive, Over, Closed
<1> QED BY <1>2, <1>3, <1>4 DEF Inv

\* The steps of the life task.
LEMMA LifeKeeps ==
  ASSUME Inv, NEW s \in Sessions,
         LifeStarts(s) \/ Connected(s) \/ Ready(s) \/ ReaderOver(s) \/ Decides(s) \/ Retries(s)
  PROVE  Inv'
<1> USE SttAssumption DEF Inv, TypeOK, Lease, Alive, Over, Closed, Bools, Drain, Upstream, Lives,
        connVars, lifeVars, tasks, audioVars, rest
<1>1. CASE LifeStarts(s)
  <2>1. again' \in Bools
    BY <1>1, Zenon DEF LifeStarts
  <2> QED BY <1>1, <2>1, PermitsStay DEF LifeStarts
<1>2. CASE Connected(s)
  <2>1. reader' \in Bools
    BY <1>2, Zenon DEF Connected
  <2>2. TypeOK'
    <3>1. up' \in [Sessions -> Upstream]
      BY <1>2, Marks, Zenon DEF Connected, Reset
    <3> QED BY <1>2, <2>1, <3>1 DEF Connected, Stale
  <2>3. PermitsExact'
    BY <1>2, PermitsStay DEF Connected, Reset
  <2>4. Lease'
    BY <1>2 DEF Connected, Reset, Stale
  <2> QED BY <2>2, <2>3, <2>4
<1>3. CASE Ready(s)
  <2>1. again' \in Bools
    BY <1>3, Zenon DEF Ready
  <2>2. buf' \in Bools /\ uncommitted' \in Bools /\ want' \in Bools
    BY <1>3, AudioTyped DEF Ready
  <2>3. TypeOK'
    BY <1>3, <2>1, <2>2 DEF Ready
  <2>4. PermitsExact'
    BY <1>3, PermitsStay DEF Ready
  <2>5. Lease'
    BY <1>3 DEF Ready
  <2> QED BY <2>3, <2>4, <2>5
<1>4. CASE ReaderOver(s)
  <2>1. TypeOK'
    <3>1. up' \in [Sessions -> Upstream]
      BY <1>4, Marks, Zenon DEF ReaderOver
    <3> QED BY <1>4, <3>1 DEF ReaderOver
  <2>2. PermitsExact'
    BY <1>4, PermitsStay DEF ReaderOver
  <2>3. Lease'
    BY <1>4 DEF ReaderOver
  <2> QED BY <2>1, <2>2, <2>3
<1>5. CASE Decides(s)
  <2>1. life'[s] \in {"connect", "reopen", "final"} /\ life' = [life EXCEPT ![s] = life'[s]]
    BY <1>5 DEF Decides
  <2>2. TypeOK'
    BY <1>5, <2>1 DEF Decides
  <2>3. PermitsExact' /\ Lease'
    BY <1>5, <2>1, PermitsStay DEF Decides
  <2> QED BY <2>2, <2>3
<1>6. CASE Retries(s)
  BY <1>6, PermitsStay DEF Retries
<1> QED BY <1>1, <1>2, <1>3, <1>4, <1>5, <1>6

\* A life task is over, and nothing of it is left but the claim of a session that was cut.
LEMMA LifeGoneKeeps ==
  ASSUME Inv, NEW s \in Sessions, Alive(s), LifeGone(s)
  PROVE  /\ PermitsExact' /\ sem' \in 0..Permits
         /\ up' \in [Sessions -> Upstream] /\ life' \in [Sessions -> Lives]
         /\ ~up'[s].permit /\ life'[s] = "done" /\ ~conn'[s]
         /\ \A o \in Sessions \ {s} : up'[o] = up[o] /\ life'[o] = life[o] /\ conn'[o] = conn[o]
         /\ conn' \in Bools /\ reader' \in Bools /\ again' \in Bools
         /\ idle' \in [Sessions -> Drain]
         /\ sock' \in [Sessions -> Socks]
         /\ sock'[s] = (IF sock[s] = "open" THEN "open" ELSE "none")
         /\ \A o \in Sessions \ {s} : sock'[o] = sock[o]
<1>1. /\ up' = [up EXCEPT ![s] = NoUp] /\ life' = [life EXCEPT ![s] = "done"]
      /\ sem' = sem + Freed(up[s].permit)
  BY DEF LifeGone, Returned, Freed, Inv, TypeOK
<1>2. conn' \in Bools /\ ~conn'[s] /\ \A o \in Sessions \ {s} : conn'[o] = conn[o]
  BY Zenon DEF LifeGone, Unclaim, Inv, TypeOK, Bools
<1>3. reader' \in Bools /\ again' \in Bools
  BY Zenon DEF LifeGone, Inv, TypeOK, Bools
<1>4. idle' \in [Sessions -> Drain]
  BY DEF LifeGone, Unclaim, Inv, TypeOK, Drain
<1>5. /\ sock' \in [Sessions -> Socks] /\ sock'[s] = (IF sock[s] = "open" THEN "open" ELSE "none")
      /\ \A o \in Sessions \ {s} : sock'[o] = sock[o]
  BY DEF LifeGone, Inv, TypeOK, Socks
<1> QED BY <1>1, <1>2, <1>3, <1>4, <1>5, Goes

\* No socket, or no session_started in time.
LEMMA FailsKeeps ==
  ASSUME Inv, NEW s \in Sessions, ConnectFails(s) \/ HandshakeFails(s)
  PROVE  Inv'
<1> USE DEF Bools, Drain, Upstream, Lives, Socks
<1>1. Fails(s) /\ life[s] \in {"connect", "handshake"} /\ ~cancelled[s]
  BY DEF ConnectFails, HandshakeFails
<1>2. /\ reader' \in Bools
      /\ UNCHANGED <<again, cancelled, pending, closer, terminal, bounds>>
  BY <1>1, Zenon DEF Fails, LifeGone, Inv, TypeOK
<1>3. CASE again[s]
  <2>1. /\ life'[s] \in {"backoff", "final"} /\ life' = [life EXCEPT ![s] = life'[s]]
        /\ sock' = [sock EXCEPT ![s] = "shut"]
        /\ health' = health \/ health' = [health EXCEPT ![s] = "degraded"]
        /\ UNCHANGED <<conn, up, idle, sem, audioVars, cool>>
    BY <1>1, <1>3 DEF Fails, ToFinal, Inv, TypeOK
  <2>2. PermitsExact'
    BY <2>1, PermitsStay DEF Inv
  <2>3. /\ life' \in [Sessions -> Lives] /\ sock' \in [Sessions -> Socks]
        /\ health' \in [Sessions -> {"connected", "reconnecting", "degraded"}]
    <3>1. life' \in [Sessions -> Lives]
      BY <2>1 DEF Inv, TypeOK, Over
    <3>2. sock' \in [Sessions -> Socks]
      BY <2>1 DEF Inv, TypeOK
    <3>3. health' \in [Sessions -> {"connected", "reconnecting", "degraded"}]
      BY <2>1 DEF Inv, TypeOK
    <3> QED BY <3>1, <3>2, <3>3
  <2>4. TypeOK'
    BY <1>2, <2>1, <2>3 DEF Inv, TypeOK, audioVars
  <2>5. Lease'
    BY <1>1, <1>2, <2>1 DEF Inv, TypeOK, Lease, Alive, Over, Closed
  <2> QED BY <2>2, <2>4, <2>5 DEF Inv
<1>4. CASE ~again[s]
  <2>1. /\ cool' = [cool EXCEPT ![s] = TRUE] /\ Discard(s) /\ UNCHANGED health
        /\ \/ sock[s] = "none" /\ LifeGone(s)
           \/ ToFinal(s) /\ UNCHANGED <<conn, up, idle, sem>>
    BY <1>1, <1>4 DEF Fails
  <2>2. /\ cool' \in Bools /\ buf' \in Bools /\ uncommitted' \in Bools /\ want' \in Bools
    BY <2>1, Zenon DEF Discard, Inv, TypeOK
  <2>3. CASE sock[s] = "none" /\ LifeGone(s)
    <3>1. Alive(s)
      BY <1>1 DEF Alive, Over
    <3>2. TypeOK'
      BY <1>2, <2>1, <2>2, <2>3, <3>1, LifeGoneKeeps DEF Inv, TypeOK, Over
    <3>3. Lease'
      BY <1>1, <1>2, <2>3, <3>1, LifeGoneKeeps DEF Inv, TypeOK, Lease, Alive, Over, Closed
    <3> QED BY <2>3, <3>1, <3>2, <3>3, LifeGoneKeeps DEF Inv
  <2>4. CASE ToFinal(s) /\ UNCHANGED <<conn, up, idle, sem>>
    <3>1. PermitsExact'
      BY <2>4, PermitsStay DEF Inv
    <3>2. TypeOK'
      BY <1>2, <2>1, <2>2, <2>4 DEF ToFinal, Inv, TypeOK, Over
    <3>3. Lease'
      BY <1>1, <1>2, <2>4 DEF ToFinal, Inv, TypeOK, Lease, Alive, Over, Closed
    <3> QED BY <3>1, <3>2, <3>3 DEF Inv
  <2> QED BY <2>1, <2>3, <2>4
<1> QED BY <1>3, <1>4

\* The credentials are rejected on a connection.
LEMMA RejectedKeeps ==
  ASSUME Inv, NEW s \in Sessions, ConnectRejected(s)
  PROVE  Inv'
<1> USE DEF Bools, Drain, Upstream, Lives, Socks
<1>1. /\ Alive(s) /\ life[s] = "connect" /\ ~cancelled[s] /\ MarkTerminal
      /\ UNCHANGED <<pending, closer, cool>>
  BY DEF ConnectRejected, Alive, Over
<1>2. bounds' \in [frames : 0..MaxFrames, faults : 0..MaxFaults]
  BY SttAssumption DEF ConnectRejected, Fault, Inv, TypeOK
<1>3. /\ terminal' = TRUE /\ cancelled' \in Bools
      /\ buf' \in Bools /\ uncommitted' \in Bools /\ want' \in Bools
      /\ health' \in [Sessions -> {"connected", "reconnecting", "degraded"}]
      /\ \A o \in Sessions : cancelled'[o] => life'[o] \notin Over
  BY <1>1, Rejects DEF Inv
<1>4. CASE again[s]
  <2>1. /\ life'[s] \in {"backoff", "final"} /\ life' = [life EXCEPT ![s] = life'[s]]
        /\ sock' = sock \/ sock' = [sock EXCEPT ![s] = "shut"]
        /\ UNCHANGED <<conn, up, reader, idle, sem, again>>
    BY <1>1, <1>4 DEF ConnectRejected, ToFinal, Inv, TypeOK
  <2>2. PermitsExact'
    BY <2>1, PermitsStay DEF Inv
  <2>3. life' \in [Sessions -> Lives] /\ sock' \in [Sessions -> Socks]
    <3>1. life' \in [Sessions -> Lives]
      BY <2>1 DEF Inv, TypeOK, Over
    <3>2. sock' \in [Sessions -> Socks]
      BY <2>1 DEF Inv, TypeOK
    <3> QED BY <3>1, <3>2
  <2>4. TypeOK'
    BY <1>1, <1>2, <1>3, <2>1, <2>3 DEF Inv, TypeOK
  <2>5. Lease'
    BY <1>1, <1>3, <2>1 DEF Inv, TypeOK, Lease, Alive, Over, Closed
  <2> QED BY <2>2, <2>4, <2>5 DEF Inv
<1>5. CASE ~again[s]
  <2>1. LifeGone(s)
    BY <1>5 DEF ConnectRejected
  <2>2. TypeOK'
    BY <1>1, <1>2, <2>1, Rejects, LifeGoneKeeps DEF Inv, TypeOK, Over
  <2>3. /\ ~up'[s].permit /\ life'[s] = "done" /\ ~conn'[s] /\ sock'[s] # "open"
        /\ \A o \in Sessions \ {s} : /\ up'[o] = up[o] /\ life'[o] = life[o] /\ conn'[o] = conn[o]
                                     /\ sock'[o] = sock[o]
    BY <1>1, <2>1, LifeGoneKeeps DEF Inv, Lease
  <2>4. Lease'
    BY <1>1, <1>3, <2>3 DEF Inv, TypeOK, Lease, Alive, Over, Closed
  <2> QED BY <1>1, <2>1, <2>2, <2>4, LifeGoneKeeps DEF Inv
<1> QED BY <1>4, <1>5

\* The rest of the finally.
LEMMA LifeEndsKeeps ==
  ASSUME Inv, NEW s \in Sessions, LifeEnds(s)
  PROVE  Inv'
<1> USE DEF Bools, Drain, Upstream, Lives, Socks
<1>1. /\ Alive(s) /\ life[s] \in {"final", "reopen"} /\ LifeGone(s) /\ ~cancelled[s]
      /\ UNCHANGED <<cancelled, closer, audioVars, cool, health, terminal, bounds>>
  BY DEF LifeEnds, Alive, Over
<1>2. pending' \in Bools
  BY Zenon DEF LifeEnds, Inv, TypeOK
<1>3. TypeOK'
  BY <1>1, <1>2, LifeGoneKeeps DEF Inv, TypeOK, audioVars, Over
<1>4. Lease'
  BY <1>1, LifeGoneKeeps DEF Inv, TypeOK, Lease, Alive, Over, Closed
<1> QED BY <1>1, <1>3, <1>4, LifeGoneKeeps DEF Inv

\* A cancelled life goes through its finally, or is cut there.
LEMMA LifeCutKeeps ==
  ASSUME Inv, NEW s \in Sessions, LifeCut(s)
  PROVE  Inv'
<1> USE DEF Bools, Drain, Upstream, Lives, Socks
<1>1. /\ cancelled[s] /\ Alive(s)
      /\ UNCHANGED <<pending, closer, audioVars, cool, health, terminal, bounds>>
  BY DEF LifeCut
<1>2. /\ cancelled' \in Bools /\ ~cancelled'[s]
      /\ \A o \in Sessions \ {s} : cancelled'[o] = cancelled[o]
  BY Zenon DEF LifeCut, Inv, TypeOK
<1>3. CASE life[s] \in {"start", "final", "reopen"}
  <2>1. /\ life' = [life EXCEPT ![s] = "done"] /\ again' = [again EXCEPT ![s] = FALSE]
        /\ sem' = sem + Freed(up[s].permit) /\ up' = [up EXCEPT ![s] = NoUp]
        /\ sock' = [sock EXCEPT ![s] = "none"] /\ reader' = [reader EXCEPT ![s] = FALSE]
        /\ UNCHANGED <<conn, idle>>
    BY <1>3 DEF LifeCut
  <2>2. again' \in Bools /\ reader' \in Bools
    BY <2>1, Zenon DEF Inv, TypeOK
  <2>3. /\ PermitsExact' /\ sem' \in 0..Permits
        /\ up' \in [Sessions -> Upstream] /\ life' \in [Sessions -> Lives]
        /\ ~up'[s].permit /\ life'[s] = "done"
        /\ \A o \in Sessions \ {s} : up'[o] = up[o] /\ life'[o] = life[o]
    BY <1>1, <2>1, Goes
  <2>4. TypeOK'
    BY <1>1, <1>2, <2>1, <2>2, <2>3 DEF Inv, TypeOK, audioVars
  <2>5. Lease'
    BY <1>1, <1>2, <2>1, <2>3 DEF Inv, TypeOK, Lease, Alive, Over, Closed
  <2> QED BY <2>3, <2>4, <2>5 DEF Inv
<1>4. CASE life[s] \notin {"start", "final", "reopen"} /\ sock[s] = "none"
  <2>1. LifeGone(s)
    BY <1>4 DEF LifeCut
  <2>2. TypeOK'
    BY <1>1, <1>2, <2>1, LifeGoneKeeps DEF Inv, TypeOK, audioVars, Over
  <2>3. Lease'
    BY <1>1, <1>2, <1>4, <2>1, LifeGoneKeeps DEF Inv, TypeOK, Lease, Alive, Over, Closed
  <2> QED BY <1>1, <2>1, <2>2, <2>3, LifeGoneKeeps DEF Inv
<1>5. CASE life[s] \notin {"start", "final", "reopen"} /\ sock[s] # "none"
  <2>1. ToFinal(s) /\ UNCHANGED <<conn, up, idle, sem, again>>
    BY <1>5 DEF LifeCut
  <2>2. reader' \in Bools
    BY <1>5, Zenon DEF LifeCut, Inv, TypeOK
  <2>3. PermitsExact'
    BY <2>1, PermitsStay DEF Inv
  <2>4. TypeOK'
    BY <1>1, <1>2, <2>1, <2>2 DEF ToFinal, Inv, TypeOK, audioVars, Over
  <2>5. Lease'
    BY <1>1, <1>2, <2>1 DEF ToFinal, Inv, TypeOK, Lease, Alive, Over, Closed
  <2> QED BY <2>3, <2>4, <2>5 DEF Inv
<1> QED BY <1>3, <1>4, <1>5

-----------------------------------------------------------------------------
\* A step that neither opens nor ends an upstream, and cancels only what has to go.
LEMMA Quiet ==
  ASSUME Inv, TypeOK', UNCHANGED <<conn, life, sem>>, terminal => terminal',
         \A s \in Sessions : /\ up'[s].permit = up[s].permit
                             /\ sock'[s] = "open" => sock[s] = "open"
                             /\ cancelled'[s] => \/ cancelled[s]
                                                 \/ Alive(s) /\ (closer'[s] # "none" \/ terminal')
                             /\ Closed(s) => closer'[s] # "none"
                             /\ closer'[s] = "unborn" => closer[s] = "unborn"
  PROVE  Inv'
<1>1. PermitsExact'
  BY PermitsStay DEF Inv
<1>2. Lease'
  <2> SUFFICES ASSUME NEW s \in Sessions
               PROVE  /\ up'[s].permit <=> Alive(s)'
                      /\ Alive(s)' => conn'[s]
                      /\ sock'[s] = "open" => life'[s] \in {"handshake", "read"}
                      /\ cancelled'[s] => Closed(s)' \/ terminal'
                      /\ closer'[s] = "unborn" => ~conn'[s] /\ ~cancelled'[s]
                      /\ conn'[s] /\ ~Closed(s)' /\ ~terminal' => Alive(s)'
    BY DEF Lease
  <2>1. Alive(s)' <=> Alive(s)
    BY DEF Alive
  <2> QED BY <2>1 DEF Inv, Lease, Closed
<1> QED BY <1>1, <1>2 DEF Inv

\* open_session.
LEMMA OpenKeeps ==
  ASSUME Inv, NEW s \in Sessions, Open(s)
  PROVE  Inv'
<1>1. /\ closer[s] = "unborn" /\ closer' = [closer EXCEPT ![s] = "none"]
      /\ UNCHANGED <<conn, up, sock, reader, life, again, cancelled, pending, idle>>
      /\ UNCHANGED <<buf, uncommitted, want, cool, sem, terminal, bounds>>
      /\ health' = [health EXCEPT ![s] = IF terminal THEN "degraded" ELSE @]
  BY DEF Open, connVars, lifeVars, audioVars
<1>2. TypeOK'
  BY <1>1 DEF Inv, TypeOK, Drain
<1>3. PermitsExact'
  BY <1>1, PermitsStay DEF Inv
<1>4. Lease'
  BY <1>1 DEF Inv, TypeOK, Lease, Alive, Over, Closed
<1> QED BY <1>2, <1>3, <1>4 DEF Inv

\* An upstream is opened for a session that takes audio, or is not.
LEMMA OpeningKeeps ==
  ASSUME Inv, NEW s \in Sessions, NEW has \in BOOLEAN, NEW unc \in BOOLEAN,
         MayOpen(s), Ensure(s, has, unc),
         UNCHANGED <<sock, reader, again, cancelled, idle, closer, health, terminal>>,
         pending' \in Bools, bounds' \in [frames : 0..MaxFrames, faults : 0..MaxFaults]
  PROVE  Inv'
<1>1. /\ PermitsExact' /\ sem' \in 0..Permits
      /\ conn' \in Bools /\ up' \in [Sessions -> Upstream] /\ life' \in [Sessions -> Lives]
      /\ cool' \in Bools /\ buf' \in Bools /\ uncommitted' \in Bools /\ want' \in Bools
      /\ \A o \in Sessions \ {s} : up'[o] = up[o] /\ life'[o] = life[o] /\ conn'[o] = conn[o]
      /\ \/ up'[s].permit /\ life'[s] = "start" /\ conn'[s]
         \/ up'[s] = up[s] /\ life'[s] = life[s] /\ conn'[s] = conn[s]
  BY Opens
<1>2. TypeOK'
  BY <1>1 DEF Inv, TypeOK, Bools, Upstream, Lives
<1>3. ~conn[s] /\ ~Closed(s)
  BY DEF MayOpen
<1>4. Lease'
  BY <1>1, <1>3 DEF Inv, Lease, Alive, Over, Closed
<1> QED BY <1>1, <1>2, <1>4 DEF Inv

\* send_audio.
LEMMA SendAudioKeeps ==
  ASSUME Inv, NEW s \in Sessions, SendAudio(s)
  PROVE  Inv'
<1>1. /\ UNCHANGED <<sock, reader, again, cancelled, pending, idle, closer, health, terminal>>
      /\ bounds' \in [frames : 0..MaxFrames, faults : 0..MaxFaults]
      /\ pending' \in Bools
  BY SttAssumption DEF SendAudio, Frame, tasks, Inv, TypeOK, Bools
<1>2. CASE MayOpen(s) /\ Ensure(s, TRUE, TRUE)
  BY <1>1, <1>2, OpeningKeeps
<1>3. CASE /\ IF MayPump(s) THEN Pumps(s, TRUE, TRUE)
              ELSE /\ buf' = [buf EXCEPT ![s] = TRUE]
                   /\ uncommitted' = [uncommitted EXCEPT ![s] = TRUE] /\ UNCHANGED want
           /\ UNCHANGED <<conn, up, life, cool, sem>>
  <2>1. buf' \in Bools /\ uncommitted' \in Bools /\ want' \in Bools
    <3>1. CASE Pumps(s, TRUE, TRUE)
      BY <3>1, AudioTyped DEF Inv
    <3>2. CASE /\ buf' = [buf EXCEPT ![s] = TRUE]
               /\ uncommitted' = [uncommitted EXCEPT ![s] = TRUE] /\ want' = want
      BY <3>2, Zenon DEF Inv, TypeOK, Bools
    <3> QED BY <1>3, <3>1, <3>2
  <2>2. TypeOK'
    BY <1>1, <1>3, <2>1 DEF Inv, TypeOK, Bools
  <2> QED BY <1>1, <1>3, <2>2, Quiet DEF Closed
<1> QED BY <1>2, <1>3 DEF SendAudio

\* send_end and the commit timer.
LEMMA CommitsKeep ==
  ASSUME Inv, NEW s \in Sessions, SendEnd(s) \/ CommitTimer(s)
  PROVE  Inv'
<1>1. /\ UNCHANGED <<conn, up, sock, reader, life, again, cancelled, pending, idle, closer>>
      /\ UNCHANGED <<cool, health, sem, terminal, bounds>>
  BY DEF SendEnd, CommitTimer, connVars, lifeVars, tasks, rest
<1>2. buf' \in Bools /\ uncommitted' \in Bools /\ want' \in Bools
  <2>1. CASE Commits(s) \/ Pumps(s, buf[s], uncommitted[s])
    BY <2>1, AudioTyped DEF Inv, TypeOK, Bools
  <2>2. CASE /\ want' = [want EXCEPT ![s] = TRUE] /\ uncommitted' = uncommitted
             /\ buf' = buf \/ buf' = [buf EXCEPT ![s] = FALSE]
    BY <2>2, Zenon DEF Inv, TypeOK, Bools
  <2> QED BY <2>1, <2>2 DEF SendEnd, CommitTimer
<1>3. TypeOK'
  BY <1>1, <1>2 DEF Inv, TypeOK, Bools
<1> QED BY <1>1, <1>3, Quiet DEF Closed

\* The task of the respawn.
LEMMA RespawnsKeeps ==
  ASSUME Inv, NEW s \in Sessions, Respawns(s)
  PROVE  Inv'
<1>1. /\ UNCHANGED <<sock, reader, again, cancelled, idle, closer, health, terminal, bounds>>
      /\ bounds' \in [frames : 0..MaxFrames, faults : 0..MaxFaults]
  BY DEF Respawns, Inv, TypeOK
<1>2. pending' \in Bools
  BY Zenon DEF Respawns, Inv, TypeOK, Bools
<1>3. CASE MayOpen(s) /\ Ensure(s, buf[s], uncommitted[s])
  <2>1. buf[s] \in BOOLEAN /\ uncommitted[s] \in BOOLEAN
    BY DEF Inv, TypeOK, Bools
  <2> QED BY <1>1, <1>2, <1>3, <2>1, OpeningKeeps
<1>4. CASE UNCHANGED <<conn, up, life, cool, sem, audioVars>>
  <2>1. TypeOK'
    BY <1>1, <1>2, <1>4 DEF Inv, TypeOK, Bools, audioVars
  <2> QED BY <1>1, <1>4, <2>1, Quiet DEF Closed
<1> QED BY <1>3, <1>4 DEF Respawns

-----------------------------------------------------------------------------
(* The drains and close().                                                 *)

\* A drain moves neither permits nor sockets that are closed.
LEMMA DrainStays ==
  ASSUME TypeOK, NEW s \in Sessions, NEW from, NEW to, NEW end, DrainStep(s, from, to, end)
  PROVE  /\ up' \in [Sessions -> Upstream] /\ sock' \in [Sessions -> Socks]
         /\ buf' \in Bools /\ uncommitted' \in Bools /\ want' \in Bools
         /\ \A o \in Sessions : /\ up'[o].permit = up[o].permit
                                /\ sock'[o] = "open" => sock[o] = "open"
<1>1. buf' \in Bools /\ uncommitted' \in Bools /\ want' \in Bools
  <2>1. CASE Commits(s)
    BY <2>1, AudioTyped
  <2>2. CASE UNCHANGED audioVars
    BY <2>2 DEF audioVars, TypeOK
  <2> QED BY <2>1, <2>2 DEF DrainStep
<1>2. \/ UNCHANGED <<up, sock>>
      \/ /\ up' = [up EXCEPT ![s].closing = TRUE]
         /\ sock' = [sock EXCEPT ![s] = IF @ = "none" THEN @ ELSE "shut"]
  BY DEF DrainStep, HangsUp
<1>3. up' \in [Sessions -> Upstream] /\ \A o \in Sessions : up'[o].permit = up[o].permit
  BY <1>2, Marks
<1>4. sock' \in [Sessions -> Socks] /\ \A o \in Sessions : sock'[o] = "open" => sock[o] = "open"
  BY <1>2 DEF TypeOK, Socks
<1> QED BY <1>1, <1>3, <1>4

LEMMA IdleKeeps ==
  ASSUME Inv, NEW s \in Sessions, IdleCloses(s) \/ IdleDrains(s)
  PROVE  Inv'
<1>1. /\ UNCHANGED <<conn, reader, life, again, cancelled, pending, closer>>
      /\ UNCHANGED <<cool, health, sem, terminal, bounds>>
  BY DEF IdleCloses, IdleDrains, lifeVars, rest
<1>2. /\ up' \in [Sessions -> Upstream] /\ sock' \in [Sessions -> Socks]
      /\ buf' \in Bools /\ uncommitted' \in Bools /\ want' \in Bools
      /\ idle' \in [Sessions -> Drain]
      /\ \A o \in Sessions : up'[o].permit = up[o].permit /\ (sock'[o] = "open" => sock[o] = "open")
  <2>1. CASE IdleCloses(s)
    <3>1. up' \in [Sessions -> Upstream] /\ \A o \in Sessions : up'[o].permit = up[o].permit
      BY <2>1, Marks DEF IdleCloses, Inv
    <3> QED BY <2>1, <3>1 DEF IdleCloses, audioVars, Inv, TypeOK, Socks, Drain
  <2>2. CASE IdleDrains(s)
    <3>1. PICK to \in Drain : DrainStep(s, idle[s], to, "none") /\ idle' = [idle EXCEPT ![s] = to]
      BY <2>2 DEF IdleDrains
    <3>2. idle' \in [Sessions -> Drain]
      BY <3>1 DEF Inv, TypeOK
    <3> QED BY <3>1, <3>2, DrainStays DEF Inv
  <2> QED BY <2>1, <2>2
<1>3. TypeOK'
  BY <1>1, <1>2 DEF Inv, TypeOK, Upstream, Socks
<1> QED BY <1>1, <1>2, <1>3, Quiet DEF Closed

\* The finally of close() cancels what is left.
LEMMA CloseEndsKeeps ==
  ASSUME Inv, NEW s \in Sessions, CloseEnds(s),
         UNCHANGED <<conn, reader, life, again, health, sem, terminal, bounds>>
  PROVE  Inv'
<1>1. /\ buf' \in Bools /\ uncommitted' \in Bools /\ want' \in Bools
  BY AudioTyped DEF CloseEnds, Inv
<1>2. Alive(s) \in BOOLEAN
  BY DEF Alive
<1>3. /\ cancelled' \in Bools /\ cancelled'[s] = Alive(s)
      /\ \A o \in Sessions \ {s} : cancelled'[o] = cancelled[o]
  BY <1>2, Zenon DEF CloseEnds, Cancels, Inv, TypeOK, Bools
<1>4. pending' \in Bools /\ cool' \in Bools
  BY Zenon DEF CloseEnds, Inv, TypeOK, Bools
<1>5. /\ closer' = [closer EXCEPT ![s] = "done"] /\ idle' = [idle EXCEPT ![s] = "none"]
      /\ UNCHANGED <<up, sock>>
  BY DEF CloseEnds
<1>6. TypeOK'
  BY <1>1, <1>3, <1>4, <1>5 DEF Inv, TypeOK, Bools, Drain
<1>7. \A o \in Sessions : /\ Closed(o) => closer'[o] # "none"
                          /\ closer'[o] = "unborn" => closer[o] = "unborn"
  BY <1>5 DEF Inv, TypeOK, Closed
<1>8. closer'[s] # "none"
  BY <1>5 DEF Inv, TypeOK
<1> QED BY <1>3, <1>5, <1>6, <1>7, <1>8, Quiet

LEMMA CloseKeeps ==
  ASSUME Inv, NEW s \in Sessions, Close(s)
  PROVE  Inv'
<1>1. UNCHANGED <<conn, reader, life, again, health, sem, terminal, bounds>>
  BY DEF Close
<1>2. CASE CloseEnds(s)
  BY <1>1, <1>2, CloseEndsKeeps
<1>3. CASE /\ closer' = [closer EXCEPT ![s] = "spawned"]
           /\ up' = [up EXCEPT ![s].draining = TRUE]
           /\ UNCHANGED <<sock, audioVars, idle, pending, cancelled, cool>>
  <2>1. up' \in [Sessions -> Upstream] /\ \A o \in Sessions : up'[o].permit = up[o].permit
    BY <1>3, Marks DEF Inv
  <2>2. TypeOK'
    BY <1>1, <1>3, <2>1 DEF Inv, TypeOK, Upstream, Drain, audioVars
  <2>3. \A o \in Sessions : /\ Closed(o) => closer'[o] # "none"
                            /\ closer'[o] = "unborn" => closer[o] = "unborn"
    BY <1>3 DEF Inv, TypeOK, Closed
  <2> QED BY <1>1, <1>3, <2>1, <2>2, <2>3, Quiet
<1> QED BY <1>2, <1>3 DEF Close

LEMMA CloseStepKeeps ==
  ASSUME Inv, NEW s \in Sessions, CloseStep(s) \/ CloseCut(s)
  PROVE  Inv'
<1>1. UNCHANGED <<conn, reader, life, again, health, sem, terminal, bounds>>
  BY DEF CloseStep, CloseCut
<1>2. CASE CloseEnds(s)
  BY <1>1, <1>2, CloseEndsKeeps
<1>3. ASSUME closer[s] \in {"spawned", "ready", "wait"},
             NEW to \in Drain \cup {"life"}, DrainStep(s, closer[s], to, "life"),
             closer' = [closer EXCEPT ![s] = to], UNCHANGED <<idle, pending, cancelled, cool>>
      PROVE  Inv'
  <2>1. /\ up' \in [Sessions -> Upstream] /\ sock' \in [Sessions -> Socks]
        /\ buf' \in Bools /\ uncommitted' \in Bools /\ want' \in Bools
        /\ \A o \in Sessions : /\ up'[o].permit = up[o].permit
                               /\ sock'[o] = "open" => sock[o] = "open"
    BY <1>3, DrainStays DEF Inv
  <2>2. to \in {"ready", "wait", "life"}
    BY <1>3 DEF DrainStep
  <2>3. closer' \in [Sessions -> Drain \cup {"unborn", "life", "cancel", "done"}]
    BY <1>3, <2>2 DEF Inv, TypeOK, Drain
  <2>4. TypeOK'
    BY <1>1, <1>3, <2>1, <2>3 DEF Inv, TypeOK, Upstream, Socks
  <2>5. \A o \in Sessions : /\ Closed(o) => closer'[o] # "none"
                            /\ closer'[o] = "unborn" => closer[o] = "unborn"
    BY <1>3, <2>2 DEF Inv, TypeOK, Closed
  <2> QED BY <1>1, <1>3, <2>1, <2>4, <2>5, Quiet
<1>4. CASE /\ closer[s] = "life" /\ Alive(s)
           /\ closer' = [closer EXCEPT ![s] = "cancel"] /\ Cancels(s)
           /\ UNCHANGED <<idle, pending, up, sock, audioVars, cool>>
  <2>1. /\ cancelled' \in Bools /\ \A o \in Sessions \ {s} : cancelled'[o] = cancelled[o]
    <3>1. Alive(s) \in BOOLEAN
      BY DEF Alive
    <3> QED BY <1>4, <3>1, Zenon DEF Cancels, Inv, TypeOK, Bools
  <2>2. TypeOK'
    BY <1>1, <1>4, <2>1 DEF Inv, TypeOK, Bools, audioVars
  <2>3. /\ closer'[s] # "none"
        /\ \A o \in Sessions : /\ Closed(o) => closer'[o] # "none"
                               /\ closer'[o] = "unborn" => closer[o] = "unborn"
    BY <1>4 DEF Inv, TypeOK, Closed
  <2> QED BY <1>1, <1>4, <2>1, <2>2, <2>3, Quiet
<1> QED BY <1>2, <1>3, <1>4 DEF CloseStep, CloseCut

-----------------------------------------------------------------------------
(* The reader and the provider.                                            *)

\* What a rejection does to the life tasks is a cancellation, of those that live.
LEMMA OutcomeStays ==
  ASSUME TypeOK, NEW s \in Sessions, NEW kind, Outcome(s, kind)
  PROVE  /\ cool' \in Bools /\ cancelled' \in Bools /\ terminal' \in BOOLEAN
         /\ buf' \in Bools /\ uncommitted' \in Bools /\ want' \in Bools
         /\ health' \in [Sessions -> {"connected", "reconnecting", "degraded"}]
         /\ life' = life /\ (terminal => terminal')
         /\ \A o \in Sessions : cancelled'[o] => cancelled[o] \/ (Alive(o) /\ terminal')
<1>1. life' = life
  BY DEF Outcome
<1>2. cool' \in Bools
  <2>1. (cool[s] \/ kind = "capacity") \in BOOLEAN
    BY DEF TypeOK, Bools
  <2> QED BY <2>1, Zenon DEF Outcome, TypeOK, Bools
<1>3. CASE MarkTerminal
  BY <1>1, <1>2, <1>3, Rejects DEF Alive
<1>4. CASE UNCHANGED <<audioVars, cancelled, health, terminal>>
  BY <1>1, <1>2, <1>4 DEF audioVars, TypeOK
<1> QED BY <1>3, <1>4 DEF Outcome

LEMMA ProviderKeeps ==
  ASSUME Inv, NEW s \in Sessions,
         SessionStarted(s) \/ Committed(s) \/ ServerDrops(s) \/ ReaderFails(s)
  PROVE  Inv'
<1>1. /\ UNCHANGED <<conn, life, again, cancelled, pending, idle, closer, buf, want>>
      /\ UNCHANGED <<cool, health, sem, terminal>>
  BY DEF SessionStarted, Committed, ServerDrops, ReaderFails, connVars, lifeVars, tasks, audioVars,
         rest
<1>2. bounds' \in [frames : 0..MaxFrames, faults : 0..MaxFaults]
  BY SttAssumption DEF SessionStarted, Committed, ServerDrops, ReaderFails, Fault, rest, Inv, TypeOK
<1>3. reader' \in Bools /\ uncommitted' \in Bools
  BY Zenon DEF SessionStarted, Committed, ServerDrops, ReaderFails, audioVars, connVars, Inv,
               TypeOK, Bools
<1>4. up' \in [Sessions -> Upstream] /\ \A o \in Sessions : up'[o].permit = up[o].permit
  BY Marks DEF SessionStarted, Committed, ServerDrops, ReaderFails, connVars, Inv
<1>5. /\ sock' \in [Sessions -> Socks]
      /\ \A o \in Sessions : sock'[o] = "open" => sock[o] = "open"
  BY DEF SessionStarted, Committed, ServerDrops, ReaderFails, connVars, Inv, TypeOK, Socks
<1>6. TypeOK'
  BY <1>1, <1>2, <1>3, <1>4, <1>5 DEF Inv, TypeOK, Upstream, Socks
<1> QED BY <1>1, <1>4, <1>5, <1>6, Quiet DEF Closed

LEMMA ReaderKeeps ==
  ASSUME Inv, NEW s \in Sessions, NEW kind \in {"other", "error", "capacity", "terminal"},
         ErrorMessage(s, kind) \/ ReaderSees(s, kind)
  PROVE  Inv'
<1>1. UNCHANGED <<conn, sock, again, pending, idle, closer, sem>>
  BY DEF ErrorMessage, ReaderSees, tasks
<1>2. bounds' \in [frames : 0..MaxFrames, faults : 0..MaxFaults]
  BY SttAssumption DEF ErrorMessage, ReaderSees, Fault, Inv, TypeOK
<1>3. reader' \in Bools
  BY Zenon DEF ErrorMessage, ReaderSees, Inv, TypeOK, Bools
<1>4. up' \in [Sessions -> Upstream] /\ \A o \in Sessions : up'[o].permit = up[o].permit
  BY Marks DEF ErrorMessage, ReaderSees, Inv
<1>5. /\ cool' \in Bools /\ cancelled' \in Bools /\ terminal' \in BOOLEAN
      /\ buf' \in Bools /\ uncommitted' \in Bools /\ want' \in Bools
      /\ health' \in [Sessions -> {"connected", "reconnecting", "degraded"}]
      /\ life' = life /\ (terminal => terminal')
      /\ \A o \in Sessions : cancelled'[o] => cancelled[o] \/ (Alive(o) /\ terminal')
  <2>1. CASE Outcome(s, kind)
    BY <2>1, OutcomeStays DEF Inv
  <2>2. CASE UNCHANGED <<life, cool, audioVars, cancelled, health, terminal>>
    BY <2>2 DEF audioVars, Inv, TypeOK
  <2> QED BY <2>1, <2>2 DEF ErrorMessage, ReaderSees
<1>6. TypeOK'
  BY <1>1, <1>2, <1>3, <1>4, <1>5 DEF Inv, TypeOK, Upstream
<1> QED BY <1>1, <1>4, <1>5, <1>6, Quiet DEF Closed

LEMMA ProbeKeeps ==
  ASSUME Inv, ProbeRejected
  PROVE  Inv'
<1>1. UNCHANGED <<conn, up, sock, reader, life, again, pending, idle, closer, cool, sem>>
  BY DEF ProbeRejected, connVars, tasks
<1>2. bounds' \in [frames : 0..MaxFrames, faults : 0..MaxFaults]
  BY SttAssumption DEF ProbeRejected, Fault, Inv, TypeOK
<1>3. /\ terminal' = TRUE /\ cancelled' \in Bools
      /\ buf' \in Bools /\ uncommitted' \in Bools /\ want' \in Bools
      /\ health' \in [Sessions -> {"connected", "reconnecting", "degraded"}]
      /\ \A s \in Sessions : cancelled'[s] => life'[s] \notin Over
  BY Rejects DEF ProbeRejected, Inv
<1>4. TypeOK'
  BY <1>1, <1>2, <1>3 DEF Inv, TypeOK, Bools
<1> QED BY <1>1, <1>3, <1>4, Quiet DEF Closed, Alive

-----------------------------------------------------------------------------
LEMMA InvNext == Inv /\ [Next]_vars => Inv'
<1> SUFFICES ASSUME Inv, [Next]_vars PROVE Inv'
  OBVIOUS
<1>1. CASE UNCHANGED vars
  <2>1. /\ UNCHANGED <<conn, up, sock, reader, life, again, cancelled, pending, idle, closer>>
        /\ UNCHANGED <<buf, uncommitted, want, cool, health, sem, terminal, bounds>>
    BY <1>1 DEF vars, connVars, lifeVars, tasks, audioVars, rest
  <2>2. TypeOK'
    BY <2>1 DEF Inv, TypeOK
  <2> QED BY <2>1, <2>2, Quiet DEF Closed
<1>2. CASE ProbeRejected
  BY <1>2, ProbeKeeps
<1>3. ASSUME NEW s \in Sessions,
             \/ Open(s) \/ SendAudio(s) \/ SendEnd(s) \/ CommitTimer(s) \/ Close(s) \/ CloseCut(s)
             \/ LifeStep(s) \/ Respawns(s) \/ IdleCloses(s) \/ IdleDrains(s) \/ CloseStep(s)
             \/ Provider(s) \/ \E kind \in {"other", "capacity", "terminal"} : ReaderSees(s, kind)
      PROVE  Inv'
  <2>1. CASE LifeStep(s)
    BY <2>1, LifeKeeps, FailsKeeps, RejectedKeeps, LifeEndsKeeps, LifeCutKeeps DEF LifeStep
  <2>2. CASE Provider(s)
    BY <2>2, ProviderKeeps, ReaderKeeps DEF Provider
  <2>3. CASE Open(s) \/ SendAudio(s) \/ SendEnd(s) \/ CommitTimer(s) \/ Respawns(s)
    BY <2>3, OpenKeeps, SendAudioKeeps, CommitsKeep, RespawnsKeeps
  <2>4. CASE Close(s) \/ CloseCut(s) \/ CloseStep(s) \/ IdleCloses(s) \/ IdleDrains(s)
    BY <2>4, CloseKeeps, CloseStepKeeps, IdleKeeps
  <2>5. CASE \E kind \in {"other", "capacity", "terminal"} : ReaderSees(s, kind)
    BY <2>5, ReaderKeeps
  <2> QED BY <1>3, <2>1, <2>2, <2>3, <2>4, <2>5
<1> QED BY <1>1, <1>2, <1>3 DEF Next

\* _release_permit, _life_main, close(): the permits of the provider are each in one hand, no
\* connection is open without one, and none is kept by a session that will never use it, whatever
\* fails, reconnects or is cancelled.
THEOREM PermitsAlwaysHold == Spec => []PermitsHold
<1>1. Inv => PermitsHold
  <2> SUFFICES ASSUME Inv PROVE PermitsHold
    OBVIOUS
  <2>1. SocketsHavePermits
    BY DEF Inv, Lease, SocketsHavePermits, Alive, Over
  <2>2. ClaimIsAlive
    BY DEF Inv, Lease, ClaimIsAlive
  <2> QED BY <2>1, <2>2 DEF Inv, PermitsHold
<1> QED BY <1>1, InvInit, InvNext, PTL DEF Spec

-----------------------------------------------------------------------------
(* Every upstream ends.                                                    *)

Parting == {"final", "reopen"}

\* Nothing is closed and nothing rejected: what lives may go on only where that is allowed.
LEMMA ComingStays ==
  ASSUME EndIsComing, UNCHANGED terminal,
         \A s \in Sessions : closer'[s] = "done" => closer[s] = "done",
         \A s \in Sessions : \/ life'[s] = life[s] /\ (cancelled[s] => cancelled'[s])
                             \/ life'[s] \in Over \cup Parting
                             \/ ~terminal /\ closer[s] # "done"
  PROVE  EndIsComing'
BY DEF EndIsComing, Alive, Parting

\* A rejection reaches every session but those whose end is coming already.
LEMMA ComingRejected ==
  ASSUME Inv, EndIsComing, MarkTerminal, UNCHANGED closer,
         \A s \in Sessions : life'[s] = life[s] \/ life'[s] \in Over \/ s \in Known
  PROVE  EndIsComing'
<1> SUFFICES ASSUME NEW s \in Sessions, Alive(s)'
             PROVE  cancelled'[s] \/ life'[s] \in Parting
  BY DEF EndIsComing, Parting
<1>1. cancelled'[s] <=> cancelled[s] \/ s \in Known
  <2>1. cancelled'[s] = (life'[s] \notin Over /\ (cancelled[s] \/ s \in Known))
    BY DEF MarkTerminal
  <2> QED BY <2>1 DEF Alive, Inv, TypeOK, Bools
<1>2. CASE s \in Known
  BY <1>1, <1>2
<1>3. CASE s \notin Known
  <2>1. life'[s] = life[s] /\ Alive(s)
    BY <1>3 DEF Alive
  <2>2. closer[s] = "done"
    BY <1>3, <2>1 DEF Known, Inv, Lease
  <2> QED BY <1>1, <2>1, <2>2 DEF EndIsComing, Parting
<1> QED BY <1>2, <1>3

\* The life task goes on only when no end is asked of it.
LEMMA ComingLife ==
  ASSUME Inv, EndIsComing, NEW s \in Sessions, LifeStep(s)
  PROVE  EndIsComing'
<1>1. \A o \in Sessions \ {s} : life'[o] = life[o]
  BY DEF LifeStep, LifeStarts, Connected, ConnectFails, HandshakeFails, Fails, ConnectRejected,
         ToFinal, LifeGone, Ready, ReaderOver, Decides, Retries, LifeEnds, LifeCut, Inv, TypeOK
<1>2. \A o \in Sessions : closer'[o] = "done" => closer[o] = "done"
  BY DEF LifeStep, LifeStarts, Connected, Stale, ConnectFails, HandshakeFails, Fails,
         ConnectRejected, Ready, ReaderOver, Decides, Retries, LifeEnds, LifeCut, Inv, TypeOK, tasks
<1>3. CASE ConnectRejected(s)
  <2>1. ~cancelled[s] /\ Alive(s) /\ life[s] = "connect"
    BY <1>3 DEF ConnectRejected, Alive, Over
  <2>2. s \in Known
    BY <2>1 DEF Known, Inv, Lease, EndIsComing
  <2>3. MarkTerminal /\ UNCHANGED closer
    BY <1>3 DEF ConnectRejected
  <2> QED BY <1>1, <2>1, <2>2, <2>3, ComingRejected
<1>4. CASE LifeCut(s)
  <2>1. life'[s] \in Over \cup Parting
    BY <1>4 DEF LifeCut, LifeGone, ToFinal, Over, Parting, Inv, TypeOK
  <2>2. UNCHANGED terminal /\ \A o \in Sessions \ {s} : cancelled'[o] = cancelled[o]
    BY <1>4, Zenon DEF LifeCut, Inv, TypeOK, Bools
  <2> QED BY <1>1, <1>2, <2>1, <2>2, ComingStays
<1>5. CASE LifeEnds(s)
  <2>1. life'[s] \in Over /\ UNCHANGED <<terminal, cancelled>>
    BY <1>5 DEF LifeEnds, LifeGone, Over, Inv, TypeOK
  <2> QED BY <1>1, <1>2, <2>1, ComingStays
<1>6. CASE \/ LifeStarts(s) \/ Connected(s) \/ ConnectFails(s) \/ Ready(s) \/ HandshakeFails(s)
           \/ ReaderOver(s) \/ Decides(s) \/ Retries(s)
  <2>1. UNCHANGED <<terminal, cancelled>> /\ ~cancelled[s]
    BY <1>6 DEF LifeStarts, Connected, ConnectFails, HandshakeFails, Fails, Ready, ReaderOver,
                Decides, Retries, rest
  <2>2. Alive(s) /\ life[s] \notin Parting
    BY <1>6 DEF LifeStarts, Connected, ConnectFails, HandshakeFails, Ready, ReaderOver, Decides,
                Retries, Alive, Over, Parting
  <2>3. ~terminal /\ closer[s] # "done"
    BY <2>1, <2>2 DEF EndIsComing, Parting
  <2> QED BY <1>1, <1>2, <2>1, <2>3, ComingStays
<1> QED BY <1>3, <1>4, <1>5, <1>6 DEF LifeStep

\* close() cancels what is left.
LEMMA ComingClose ==
  ASSUME Inv, EndIsComing, NEW s \in Sessions, Close(s) \/ CloseStep(s) \/ CloseCut(s)
  PROVE  EndIsComing'
<1>1. UNCHANGED <<life, terminal>>
  BY DEF Close, CloseStep, CloseCut
<1>2. CASE CloseEnds(s)
  <2>1. Alive(s) \in BOOLEAN
    BY DEF Alive
  <2>2. cancelled'[s] = Alive(s) /\ \A o \in Sessions \ {s} : cancelled'[o] = cancelled[o]
    BY <1>2, <2>1, Zenon DEF CloseEnds, Cancels, Inv, TypeOK, Bools
  <2>3. \A o \in Sessions \ {s} : closer'[o] = closer[o]
    BY <1>2 DEF CloseEnds, Inv, TypeOK
  <2> QED BY <1>1, <2>2, <2>3 DEF EndIsComing, Alive
<1>3. CASE UNCHANGED cancelled /\ closer'[s] # "done"
           /\ \A o \in Sessions \ {s} : closer'[o] = closer[o]
  BY <1>1, <1>3, ComingStays
<1>4. CASE closer' = [closer EXCEPT ![s] = "cancel"] /\ Cancels(s)
  <2>1. Alive(s) \in BOOLEAN
    BY DEF Alive
  <2>2. cancelled'[s] = Alive(s) /\ \A o \in Sessions \ {s} : cancelled'[o] = cancelled[o]
    BY <1>4, <2>1, Zenon DEF Cancels, Inv, TypeOK, Bools
  <2>3. \A o \in Sessions \ {s} : closer'[o] = closer[o]
    BY <1>4 DEF Inv, TypeOK
  <2> QED BY <1>1, <2>2, <2>3 DEF EndIsComing, Alive
<1>5. CASE Close(s)
  BY <1>2, <1>3, <1>5 DEF Close, Inv, TypeOK
<1>6. CASE \E to \in Drain \cup {"life"} : /\ closer' = [closer EXCEPT ![s] = to]
                                           /\ UNCHANGED cancelled
  BY <1>3, <1>6 DEF Inv, TypeOK, Drain
<1> QED BY <1>2, <1>4, <1>5, <1>6 DEF CloseStep, CloseCut

LEMMA ComingNext == Inv /\ EndIsComing /\ [Next]_vars => EndIsComing'
<1> SUFFICES ASSUME Inv, EndIsComing, [Next]_vars PROVE EndIsComing'
  OBVIOUS
<1>1. CASE UNCHANGED vars
  BY <1>1, ComingStays DEF vars, lifeVars, tasks, rest
<1>2. CASE ProbeRejected
  BY <1>2, ComingRejected DEF ProbeRejected, tasks
<1>3. ASSUME NEW s \in Sessions, Open(s) \/ SendEnd(s) \/ CommitTimer(s) \/ IdleCloses(s)
                                 \/ IdleDrains(s)
      PROVE  EndIsComing'
  <2>1. UNCHANGED <<life, cancelled, terminal>>
    BY <1>3 DEF Open, SendEnd, CommitTimer, IdleCloses, IdleDrains, lifeVars, rest
  <2>2. \A o \in Sessions : closer'[o] = "done" => closer[o] = "done"
    BY <1>3 DEF Open, SendEnd, CommitTimer, IdleCloses, IdleDrains, tasks, Inv, TypeOK
  <2> QED BY <2>1, <2>2, ComingStays
<1>4. ASSUME NEW s \in Sessions, SendAudio(s) \/ Respawns(s)
      PROVE  EndIsComing'
  <2>1. UNCHANGED <<cancelled, closer, terminal>>
    BY <1>4 DEF SendAudio, Respawns, tasks
  <2>2. life' = life \/ (life' = [life EXCEPT ![s] = "start"] /\ ~Closed(s) /\ ~terminal)
    BY <1>4 DEF SendAudio, Respawns, Ensure, MayOpen
  <2>3. \A o \in Sessions : life'[o] = life[o] \/ (~terminal /\ closer[o] # "done")
    BY <2>2 DEF Closed, Inv, TypeOK
  <2> QED BY <2>1, <2>3, ComingStays
<1>5. ASSUME NEW s \in Sessions,
             \/ Provider(s) \/ \E kind \in {"other", "capacity", "terminal"} : ReaderSees(s, kind)
      PROVE  EndIsComing'
  <2>1. UNCHANGED <<life, closer>>
    BY <1>5 DEF Provider, SessionStarted, Committed, ServerDrops, ReaderFails, ErrorMessage,
                ReaderSees, Outcome, lifeVars, tasks
  <2>2. MarkTerminal \/ UNCHANGED <<cancelled, terminal>>
    BY <1>5 DEF Provider, SessionStarted, Committed, ServerDrops, ReaderFails, ErrorMessage,
                ReaderSees, Outcome, lifeVars, rest
  <2> QED BY <2>1, <2>2, ComingStays, ComingRejected
<1> QED BY <1>1, <1>2, <1>3, <1>4, <1>5, ComingLife, ComingClose DEF Next

\* _on_provider_degraded and close() (#221): an upstream that lives when its session is closed or
\* its provider rejected is cancelled or in its finally, whoever opened it and whenever.
THEOREM EveryEndIsComing == Spec => []EndIsComing
<1>1. Init => EndIsComing
  BY DEF Init, EndIsComing, Alive, Over
<1> QED BY <1>1, InvInit, InvNext, ComingNext, PTL DEF Spec
-----------------------------------------------------------------------------
(* What a session says of itself.                                          *)

HonestAt(s) ==
  /\ terminal /\ closer[s] \notin {"unborn", "done"} => health[s] = "degraded"
  /\ life[s] = "read" /\ ~terminal => health[s] = "connected"

Honest == \A s \in Sessions : HonestAt(s)

\* A rejection reaches every session that is open.
LEMMA RejectedIsHonest ==
  ASSUME MarkTerminal, UNCHANGED closer
  PROVE  Honest'
BY DEF MarkTerminal, Known, Honest, HonestAt

\* A step of one session that leaves the provider as it is.
LEMMA HonestMoves ==
  ASSUME Honest, NEW s \in Sessions, UNCHANGED terminal, HonestAt(s)',
         \A o \in Sessions \ {s} : /\ health'[o] = health[o] /\ life'[o] = life[o]
                                   /\ closer'[o] = closer[o]
  PROVE  Honest'
BY DEF Honest, HonestAt

\* The steps of the life task.
LEMMA LifeIsHonest ==
  ASSUME Inv, Honest, NEW s \in Sessions, LifeStep(s)
  PROVE  Honest'
<1> USE DEF Inv, TypeOK, Over, Drain, rest, tasks, connVars, lifeVars
<1>1. CASE ConnectRejected(s)
  BY <1>1, RejectedIsHonest DEF ConnectRejected
<1>2. CASE ~ConnectRejected(s)
  <2>1. HonestAt(s)
    BY DEF Honest
  <2>2. UNCHANGED terminal
    BY <1>2 DEF LifeStep, LifeStarts, Connected, ConnectFails, HandshakeFails, Fails, Ready, ReaderOver,
       Decides, Retries, LifeEnds, LifeCut
  <2>3. CASE LifeStarts(s) \/ Retries(s) \/ ReaderOver(s)
    BY <2>1, <2>2, <2>3, HonestMoves DEF LifeStarts, Retries, ReaderOver, HonestAt
  <2>4. CASE Connected(s)
    <3>1. /\ life'[s] = "handshake" /\ closer'[s] = Stale(closer[s]) /\ UNCHANGED health
          /\ \A o \in Sessions \ {s} : life'[o] = life[o] /\ closer'[o] = closer[o]
      BY <2>4 DEF Connected
    <3> QED BY <2>1, <2>2, <3>1, HonestMoves DEF HonestAt, Stale
  <2>5. CASE Ready(s)
    <3>1. /\ health'[s] = IF terminal THEN health[s] ELSE "connected"
          /\ \A o \in Sessions \ {s} : life'[o] = life[o] /\ health'[o] = health[o]
          /\ UNCHANGED closer
      BY <2>5 DEF Ready
    <3> QED BY <2>1, <2>2, <3>1, HonestMoves DEF HonestAt
  <2>6. CASE Decides(s)
    <3>1. /\ life'[s] # "read" /\ (terminal => health'[s] = health[s])
          /\ \A o \in Sessions \ {s} : life'[o] = life[o] /\ health'[o] = health[o]
          /\ UNCHANGED closer
      BY <2>6 DEF Decides, Reconnects
    <3> QED BY <2>1, <2>2, <3>1, HonestMoves DEF HonestAt
  <2>7. CASE ConnectFails(s) \/ HandshakeFails(s)
    <3>1. /\ life'[s] # "read" /\ health'[s] \in {health[s], "degraded"}
          /\ \A o \in Sessions \ {s} : life'[o] = life[o] /\ health'[o] = health[o]
          /\ UNCHANGED closer
      BY <2>7 DEF ConnectFails, HandshakeFails, Fails, ToFinal, LifeGone
    <3> QED BY <2>1, <2>2, <3>1, HonestMoves DEF HonestAt
  <2>8. CASE LifeEnds(s) \/ LifeCut(s)
    <3>1. /\ life'[s] # "read" /\ UNCHANGED <<closer, health>>
          /\ \A o \in Sessions \ {s} : life'[o] = life[o]
      BY <2>8 DEF LifeEnds, LifeCut, LifeGone, ToFinal
    <3> QED BY <2>1, <2>2, <3>1, HonestMoves DEF HonestAt
  <2> QED BY <1>2, <2>3, <2>4, <2>5, <2>6, <2>7, <2>8 DEF LifeStep
<1> QED BY <1>1, <1>2

\* The provider and the reader.
LEMMA ProviderIsHonest ==
  ASSUME Inv, Honest, NEW s \in Sessions,
         Provider(s) \/ ProbeRejected \/ \E kind \in {"other", "capacity", "terminal"} : ReaderSees(s, kind)
  PROVE  Honest'
<1>1. CASE MarkTerminal /\ UNCHANGED closer
  BY <1>1, RejectedIsHonest
<1>2. CASE UNCHANGED <<life, closer, health, terminal>>
  BY <1>2 DEF Honest, HonestAt
<1>3. CASE SessionStarted(s) \/ Committed(s) \/ ServerDrops(s) \/ ReaderFails(s)
  BY <1>2, <1>3 DEF SessionStarted, Committed, ServerDrops, ReaderFails, lifeVars, tasks, rest
<1>4. CASE ProbeRejected
  BY <1>1, <1>4 DEF ProbeRejected, tasks
<1>5. ASSUME NEW kind \in {"error", "capacity", "terminal"}, ErrorMessage(s, kind) PROVE Honest'
  BY <1>1, <1>2, <1>5 DEF ErrorMessage, Outcome, tasks
<1>6. ASSUME NEW kind \in {"other", "capacity", "terminal"}, ReaderSees(s, kind) PROVE Honest'
  BY <1>1, <1>2, <1>6 DEF ReaderSees, Outcome, tasks
<1> QED BY <1>3, <1>4, <1>5, <1>6 DEF Provider

\* The session, its audio and its end.
LEMMA SessionIsHonest ==
  ASSUME Inv, Honest, NEW s \in Sessions,
         \/ Open(s) \/ SendAudio(s) \/ SendEnd(s) \/ CommitTimer(s) \/ Close(s) \/ CloseCut(s)
         \/ Respawns(s) \/ IdleCloses(s) \/ IdleDrains(s) \/ CloseStep(s)
  PROVE  Honest'
<1> USE DEF Inv, TypeOK, Over, Drain, rest, tasks, connVars, lifeVars
<1>1. HonestAt(s)
  BY DEF Honest
<1>2. CASE Open(s)
  <2>1. life[s] # "read"
    BY <1>2 DEF Open, Lease, Alive
  <2>2. /\ health'[s] = (IF terminal THEN "degraded" ELSE health[s]) /\ UNCHANGED <<life, terminal>>
        /\ \A o \in Sessions \ {s} : closer'[o] = closer[o] /\ health'[o] = health[o]
    BY <1>2 DEF Open
  <2> QED BY <2>1, <2>2, HonestMoves DEF HonestAt
<1>3. CASE SendAudio(s) \/ Respawns(s)
  <2>1. /\ life'[s] \in {life[s], "start"} /\ \A o \in Sessions \ {s} : life'[o] = life[o]
        /\ UNCHANGED <<closer, health, terminal>>
    BY <1>3 DEF SendAudio, Respawns, Ensure
  <2> QED BY <1>1, <2>1, HonestMoves DEF HonestAt
<1>4. CASE SendEnd(s) \/ CommitTimer(s) \/ IdleCloses(s) \/ IdleDrains(s)
  BY <1>4 DEF SendEnd, CommitTimer, IdleCloses, IdleDrains, Honest, HonestAt
<1>5. CASE Close(s) \/ CloseStep(s) \/ CloseCut(s)
  <2>1. /\ closer[s] # "unborn" /\ (closer[s] = "done" => closer'[s] = "done")
        /\ UNCHANGED <<life, health, terminal>>
        /\ \A o \in Sessions \ {s} : closer'[o] = closer[o]
    BY <1>5 DEF Close, CloseStep, CloseCut, CloseEnds
  <2> QED BY <1>1, <2>1, HonestMoves DEF HonestAt
<1> QED BY <1>2, <1>3, <1>4, <1>5

\* A session never passes for better than it is: degraded as soon as the provider is, connected
\* when its upstream is ready; for any number of sessions, faults and frames.
THEOREM HealthStaysHonest == Spec => []HealthIsHonest
<1>1. Init => Honest
  BY DEF Init, Honest, HonestAt
<1>2. Inv /\ Honest /\ [Next]_vars => Honest'
  <2> SUFFICES ASSUME Inv, Honest, [Next]_vars PROVE Honest'
    OBVIOUS
  <2>1. CASE UNCHANGED vars
    BY <2>1 DEF vars, lifeVars, tasks, rest, Honest, HonestAt
  <2>2. CASE ProbeRejected
    BY <2>2, RejectedIsHonest DEF ProbeRejected, tasks
  <2> QED BY <2>1, <2>2, LifeIsHonest, ProviderIsHonest, SessionIsHonest DEF Next
<1>3. Honest => HealthIsHonest
  BY DEF Honest, HonestAt, HealthIsHonest
<1> QED BY <1>1, <1>2, <1>3, InvInit, InvNext, PTL DEF Spec
=============================================================================
