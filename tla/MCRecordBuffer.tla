---------------------------- MODULE MCRecordBuffer ----------------------------
(* Two record workers and up to three checkpoints, with a record buffer that has
   not room for one record of every worker, and for the largest records none. *)
EXTENDS RecordPipeline

MCWorkers == 1..2
=============================================================================
