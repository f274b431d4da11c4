---------------------------- MODULE MCStreamer ----------------------------
(* Instances of Streamer for TLC.                                          *)
EXTENDS StreamerLoops

\* A message whose content is v, as the sequencer numbers it.
M(s, v) == [seq |-> s, msg |-> v]

\* Blocks with nothing, one message, two messages out of order, and a number
\* twice with different contents.  Any block may come again later: a message
\* that the submitter had included twice.
MCBlocks == {<<>>, <<M(1, "a")>>, <<M(3, "a"), M(2, "a")>>,
             <<M(2, "b"), M(4, "a"), M(4, "b")>>}
=============================================================================
