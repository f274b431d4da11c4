---------------------------- MODULE MCSubmitter ----------------------------
(* Instances of Submitter for TLC.                                         *)
EXTENDS Submitter

\* Two small messages fill a payload of size 5, and so does the last one.
MCSize == [m \in 1 .. MaxMsgs |-> IF m = MaxMsgs THEN 3 ELSE 1]

\* The second message exceeds the payload.
OversizedSize == [m \in 1 .. MaxMsgs |-> IF m = 2 THEN 9 ELSE 1]
=============================================================================
