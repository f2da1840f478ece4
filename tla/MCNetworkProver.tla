---------------------------- MODULE MCNetworkProver ----------------------------
(* Limits of one tick for the user's timeout and for the auction, and two for the
   deadline of a request without a timeout; a failed call is tried once more. One
   answer to request_proof can be lost. *)
EXTENDS NetworkProver
=============================================================================
