----------------------------- MODULE MCOidcFlow -----------------------------
(* Small instances of OidcFlow: names are drawn at random, and the two       *)
(* transports are told apart, no more.                                      *)
EXTENDS OidcFlow, TLC

NameSymmetry == Permutations(Verifier) \cup Permutations(Code) \cup Permutations(Token)
                  \cup Permutations(Carrier)
=============================================================================
