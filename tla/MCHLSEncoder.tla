---------------------------- MODULE MCHLSEncoder ----------------------------
(* Model checking HLSEncoder: the names and sources are the encoders' own. *)
EXTENDS HLSEncoder

MCNames == EncoderNames
MCSources == EncoderSources
=============================================================================
