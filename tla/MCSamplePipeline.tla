-------------------------- MODULE MCSamplePipeline --------------------------
(***************************************************************************)
(* SamplePipeline for TLC.  The bounds of SamplePipeline (MaxBlocks,       *)
(* MaxErrors) limit the environment, so no constraint is needed here.      *)
(***************************************************************************)
EXTENDS SamplePipeline

\* A build with the DAC loopback tone, after a power-on reset.
MCBootStatus == {"TEST_SIGNAL"}
=============================================================================
