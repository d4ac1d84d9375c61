--------------------------- MODULE MCTokenThreads ---------------------------
(* A small instance of TokenThreads.                                        *)
EXTENDS TokenThreads, TLC

NameSymmetry == Permutations(Token) \cup Permutations(Session)
=============================================================================
