--------------------------- MODULE MCShardExecution ---------------------------
(* Programs of up to three instructions and a HALT over two addresses, with
   or without a memory image, and one input word. *)
EXTENDS ShardExecution

\* An address of the program image and one that is free for input.
Word == 8
Input == 16

MCAddrs == {Word, Input}

MCImages == {<<>>, Word :> 3}

MCStdin == <<2>>

MCBlocks == {<<[op |-> "SD", a |-> Word], [op |-> "WRITE", a |-> Word]>>,
             <<[op |-> "LOAD", a |-> Input], [op |-> "ADDI"], [op |-> "SD", a |-> Input]>>}

MCInstructions ==
  {[op |-> "ADDI"]}
  \cup [op : {"LOAD"}, a : MCAddrs]
  \cup [op : {"SD", "SB"}, a : {Input}]
  \cup [op : {"HINT_READ", "WRITE"}, a : {Input}]
  \cup [op : {"PRECOMPILE"}, a : {Input}, b : MCAddrs, external : BOOLEAN]
  \cup [op : {"COMMIT"}, word : 0..1]
  \cup [op : {"ENTER_UNCONSTRAINED"}, body : MCBlocks]

\* What syscall_halt does: it loads words and commits to them.
MCCommits ==
  {[op |-> "LOAD", a |-> Word]} \cup [op : {"COMMIT"}, word : 0..1]
=============================================================================
