--------------------------- MODULE MCCompressTree ---------------------------
(* Model checking of CompressTree: up to eight inputs cover a second level  *)
(* of composition for arity 2 and 4 and all the ways a range is split.      *)
EXTENDS CompressTree

MCBatchSizes == {2, 4}
=============================================================================
