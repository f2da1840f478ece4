--------------------------- MODULE MCRecordPipeline ---------------------------
(* Two record workers and up to three checkpoints. *)
EXTENDS RecordPipeline

MCWorkers == 1..2

\* The buffer has room for one record of every worker.
ASSUME RoomForAll == Cardinality(Workers) * Max(RecordSizes) <= record_buffer_size
=============================================================================
