--------------------------- MODULE MCTokenService ---------------------------
(* A small instance of TokenService: two clients with a redirect URI each.  *)
EXTENDS TokenService, TLC

CONSTANTS client1, client2, uri1, uri2

MCRegistry == (client1 :> {uri1}) @@ (client2 :> {uri2})

\* Names are drawn at random, so no action tells two of them apart.
NameSymmetry == Permutations(Code) \cup Permutations(Token) \cup Permutations(Session)
=============================================================================
