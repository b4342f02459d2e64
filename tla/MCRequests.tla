----------------------------- MODULE MCRequests -----------------------------
(* Model-checking instance of Requests: clients given the base URL of the    *)
(* service without a trailing slash, with one, and without its path.  Calls *)
(* differ only in their name.                                               *)
EXTENDS Requests

MCMount == <<"matchmaking">>
MCBaseURLs == {<<"matchmaking">>, <<"matchmaking", "">>, <<>>}
CallSymmetry == Permutations(Calls)
=============================================================================
