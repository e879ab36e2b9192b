--------------------------- MODULE MCSeqlenBalance ---------------------------
(* Six sequences of up to 7 tokens: enough for odd numbers of parts, for       *)
(* equal lengths, and for a part that exceeds the token limit.               *)
EXTENDS SeqlenBalance

MCLengths == {2, 6, 7}
MCLimits == {7, 10, 13}
=============================================================================
