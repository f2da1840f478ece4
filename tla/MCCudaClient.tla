---------------------------- MODULE MCCudaClient ----------------------------
(* Two users of one device; requests with a length that fits and one that does not. *)
EXTENDS CudaClient
=============================================================================
