--------------------------- MODULE MCTokenBridge ---------------------------
(* Instances of TokenBridge for TLC: the texts the LLM may stream.          *)
EXTENDS TokenBridge

\* Seven deltas of one or two pieces: a sentence that ends within a delta, one delta
\* with two ends, and text after the last end.
ReplyDeltas == <<<<1>>, <<2, 3>>, <<4>>, <<5, 6>>, <<7>>, <<8, 9>>, <<10>>>>
ReplyEnds == {2, 5, 6, 8}
=============================================================================
