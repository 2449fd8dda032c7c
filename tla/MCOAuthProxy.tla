---------------------------- MODULE MCOAuthProxy ----------------------------
(* Requests are interchangeable until they are used.                        *)
EXTENDS OAuthProxy, TLC

Symmetry == Permutations(Reqs)
=============================================================================
