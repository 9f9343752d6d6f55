---------------------------- MODULE MCTranscoder ----------------------------
(* Model checking Transcoder: m1 may lose its session or be restarted.     *)
EXTENDS Transcoder, TLC

CONSTANTS m1, m2

MCMaxSessions == [m \in Clients |-> IF m = m1 THEN 1 ELSE 0]
=============================================================================
