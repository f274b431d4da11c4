------------------------------ MODULE MCCodecs ------------------------------
(* An instance of Codecs for TLC.                                          *)
EXTENDS Codecs

Segment(kind, data) == [form |-> "segment", kind |-> kind, data |-> data]
MCItems ==
  {Segment(0, "a"), Segment(0, "b"), Segment(1, "a"), Segment(1, "undecodable"),
   Segment(2, ""), Segment(3, ""), Segment(5, "")}
    \cup {[form |-> f, kind |-> 0, data |-> ""] : f \in {"empty", "list", "short"}}
MCQueueMsgs ==
  [l2msg : {"a", "b"}, delayed_messages_read : {1, 2, 3}]
    \cup {[l2msg |-> "none", delayed_messages_read |-> 2]}

\* Feed messages: two of a trusted sequencer, one that cannot be encoded, one
\* of somebody else and one that lacks its header.
FeedOf(n, has, signer) ==
  [sequence_number |-> n, message |-> "m", has |-> has, signer |-> signer]
Feed(n, signer) == FeedOf(n, {"message", "header"}, signer)
Headless == FeedOf(3, {"message"}, 3)
MCSignedParts == {"message", "header"}
MCJson ==
  (Feed(1, 3) :> <<20, 21>>) @@ (Feed(2, 3) :> <<20>>)
    @@ (Feed(3, 4) :> <<20, 21, 22>>) @@ (Headless :> <<22>>)
MCEncodable == DOMAIN MCJson
MCSize == [m \in DOMAIN MCJson \cup {Feed(4, 3)} |-> IF m \in DOMAIN MCJson THEN Len(MCJson[m]) ELSE 0]
MCRlp == ("m" :> <<30>>) @@ ("n" :> <<30, 31>>)
MCHeaderBytes == <<34, 86, 49, 34>>

Signature(by, s, v) == [is |-> "signature", by |-> by, s |-> s, v |-> v]
MCChunks ==
  {[is |-> "header"], [is |-> "empty"], Signature(5, 1, 0), Signature(5, 1, 28), Signature(5, 1, 2),
   Signature(5, 200, 0), Signature(5, 0, 0), Signature(6, 1, 0),
   [is |-> "json", bytes |-> <<22, 20>>]}
    \cup {[is |-> "json", bytes |-> MCJson[m]] : m \in DOMAIN MCJson \ {Feed(2, 3)}}
    \cup {[is |-> "legacy", index |-> 1, bytes |-> MCRlp[m]] : m \in DOMAIN MCRlp}
    \cup {[is |-> "legacy", index |-> 258, bytes |-> b] : b \in {<<>>, <<31>>}}

Headers ==
  [kind : {3}, poster : {Fill(200, 20)}, block_number : {0, 127, 128}, timestamp : {256},
   request_id : {None, Some(Fill(1, 32))}, l1_base_fee : {None, Some(0), Some(1), Some(300)}]
Stats == [length : {0, 300}, non_zeros : {7}]
IncomingMessages ==
  [header : {None} \cup {Some(h) : h \in Headers},
   l2msg : {<<>>, <<5>>, <<129>>, Fill(65, 20), Fill(65, 55), Fill(65, 56)},
   legacy_batch_gas_cost : {None, Some(0), Some(128)},
   batch_data_stats : {None} \cup {Some(s) : s \in Stats}]
MCMessages ==
  [message : {None} \cup {Some(m) : m \in IncomingMessages}, delayed_messages_read : {0, 200}]

MCVerdicts ==
  [start_message_pos : {1, 256}, end_message_pos : {2, 255}, start_hotshot_block : {0, 300},
   after_delayed_messages_read : {1, 300}, min_hotshot_block_still_in_streamer_queue : {0, 5},
   downstream_certificate : {<<>>, <<0>>, <<0, 112>>, <<136, 1, 2>>}]
=============================================================================
