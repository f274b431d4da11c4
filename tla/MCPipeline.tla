----------------------------- MODULE MCPipeline -----------------------------
(* Instances of Pipeline for TLC.                                          *)
EXTENDS NitroVerifyLoop, Pipeline

\* A rollup of sequencer messages only.
L2Sequenced == <<L2Msg("a"), L2Msg("b"), L2Msg("c")>>
\* A rollup whose second message is a delayed one.
DelayedSequenced == <<L2Msg("a"), DelayedMsg, L2Msg("c")>>

MCMsg == [l2msg : {"a", "b", "c", "d"}, delayed_messages_read : {1, 2}]

M(s, c, d) == [seq |-> s, msg |-> [l2msg |-> c, delayed_messages_read |-> d]]

DelayedBlocks == {<<M(1, "a", 1), M(3, "c", 2)>>, <<M(2, "b", 2)>>}

\* Every message once, the later ones before the first; the last one is not to
\* be posted yet.
LiveBlocks == {<<M(3, "c", 1), M(4, "d", 1)>>, <<M(1, "a", 1), M(2, "b", 1)>>}
=============================================================================
