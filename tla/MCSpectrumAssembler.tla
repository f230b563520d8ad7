------------------------ MODULE MCSpectrumAssembler ------------------------
(***************************************************************************)
(* SpectrumAssembler for TLC: results whose metadata repeat, those of two  *)
(* neighbours and then those of one in between.                            *)
(***************************************************************************)
EXTENDS SpectrumAssembler

MCMetadata == <<0, 0, 1, 0>>
=============================================================================
