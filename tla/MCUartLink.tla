----------------------------- MODULE MCUartLink -----------------------------
(***************************************************************************)
(* UartLink for TLC: MaxResults bounds every counter.                      *)
(***************************************************************************)
EXTENDS UartLink
=============================================================================
