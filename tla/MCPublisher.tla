---------------------------- MODULE MCPublisher -----------------------------
(* Model checking Publisher: one host loses its session or is restarted.   *)
EXTENDS Publisher, TLC

CONSTANTS h1, h2

MCMaxSessions == h1 :> 1 @@ h2 :> 0
=============================================================================
