------------------------------ MODULE MCServer ------------------------------
(* Model-checking instance of Server: environments that are complete, and    *)
(* environments that differ from a complete one in one variable.            *)
EXTENDS Server

complete ==
    [appEnv |-> "local", isPort |-> TRUE, threshold |-> 1, cooldown |-> 1, drain |-> 1,
     strings |-> requiredStrings("local")]

\* Out of range, on both sides of every bound, and where the product wraps to
\* a negative and to a positive duration.
Numbers == {NoInt, -1, 0, maxDurationSeconds, maxDurationSeconds + 1, MaxInt, MaxInt + 1,
              2 * maxDurationSeconds + 3}

MCEnvironments ==
    {complete}
    \cup {[complete EXCEPT !.appEnv = a] : a \in {"production", "", "staging"}}
    \cup {[complete EXCEPT !.strings = @ \ {k}] : k \in requiredStrings("local")}
    \cup {[complete EXCEPT !.isPort = FALSE]}
    \cup {[complete EXCEPT !.threshold = n] : n \in Numbers}
    \cup {[complete EXCEPT !.cooldown = n] : n \in Numbers}
    \cup {[complete EXCEPT !.drain = n] : n \in Numbers}
=============================================================================
