------------------------------ MODULE MCMember ------------------------------
(* Model-checking instance of Member: an empty id, an id that begins two     *)
(* others, whose next byte is less and greater than a colon, ids with       *)
(* colons, one of them like the fields of a member, and a name with one.    *)
EXTENDS Member

one == 49

MCPlayerIDs == {<<>>, <<one>>, <<one, one>>, <<one, 65>>, <<one, Colon>>, <<one, Colon, one, Colon, one>>}

MCInfos == {[deckID |-> 1, level |-> 0, name |-> <<>>],
            [deckID |-> 1, level |-> 2, name |-> <<Colon, one>>]}
=============================================================================
