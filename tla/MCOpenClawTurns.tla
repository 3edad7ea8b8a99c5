---------------------------- MODULE MCOpenClawTurns ----------------------------
(***************************************************************************)
(* The instance of OpenClawTurns that TLC checks.                          *)
(***************************************************************************)
EXTENDS OpenClawTurns

\* No action and none of the properties of the run reads what only history keeps: states that
\* differ in nothing else go on alike.
WithoutHistory == <<registry, queue, req, conn, toServer, wire, active>>
=============================================================================
