----------------------------- MODULE MCRestart -----------------------------
(* An instance of Restart for TLC.                                         *)
EXTENDS MCPipeline, Restart

\* Number 3 on its own with another content; the two before it; a gap.
RestartBlocks ==
  {<<>>, <<M(3, "d", 2)>>, <<M(1, "a", 1), M(2, "b", 2)>>, <<M(1, "a", 1), M(3, "c", 2)>>}

\* The rollup starts at height 1: height 0 stands for none in a certificate.  No
\* other block is empty, and none comes twice: messages 1 and 3 still do.
BlocksOnce ==
  /\ \A i \in DOMAIN chain : chain[i] = <<>> <=> i = 1
  /\ \A i, j \in DOMAIN chain : chain[i] = chain[j] => i = j

\* Bound: certificates issued.
FewCertificates == Cardinality(certificates) <= 2

\* The channel to the relay has room for every message of these blocks, so what
\* the relay reads makes no difference to the streamer.
RelayIdle == unread = Len(feed)
=============================================================================
