----------------------------- MODULE MCMatcher -----------------------------
(* Model-checking instance of the matchers.  Gateway identifiers are only        *)
(* compared with each other, so they are interchangeable in the runs that   *)
(* check safety.                                                            *)
EXTENDS MatcherProperties, TLC

GatewaySymmetry == Permutations(Gateways)
=============================================================================
