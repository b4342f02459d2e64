----------------------------- MODULE RedisQueue -----------------------------
(***************************************************************************)
(* The matchmaking queue in Redis, as internal/adapter/redisqueue and its  *)
(* Lua scripts use it: the sorted set matchmaking:queue and the string key *)
(* matchmaking:gateway_instance_id.  Redis runs a script atomically, so    *)
(* each script is one step on the two keys.                                *)
(*                                                                         *)
(* A member of the sorted set is playerID:deckID:level:name; here it is    *)
(* the player and the ticket, the number of the enqueue call whose deck,   *)
(* level and name it carries.  Members of equal score are ordered by their *)
(* text; the text of two players' members first differs in or just after   *)
(* the player ids, so players are numbers in that order.                   *)
(***************************************************************************)
EXTENDS Naturals

CONSTANTS
    Players,    \* player ids, as their rank in the order of members
    Gateways,   \* identifiers gateway processes generate when they start
    NoGateway   \* the identifier key is absent ('' in pop_pair and reenqueue)

ASSUME QueueAssumption == Players \subseteq Nat /\ NoGateway \notin Gateways

VARIABLES
    queue,      \* matchmaking:queue, a set of entries
    instanceID  \* matchmaking:gateway_instance_id

queueVars == <<queue, instanceID>>

\* joinedAt is the score, Unix milliseconds at enqueue.
Entry == [player : Players, joinedAt : Nat, ticket : Nat]

\* remove_player_entries.lua: members whose first field is the player.
removePlayerEntries(q, player) == {e \in q : e.player # player}

\* removePlayerEntries, then ZADD.
Put(q, e) == removePlayerEntries(q, e.player) \cup {e}

\* The order of the sorted set: score, then member.
Before(d, e) ==
    \/ d.joinedAt < e.joinedAt
    \/ d.joinedAt = e.joinedAt /\ d.player < e.player

\* ZPOPMIN queue 2 returns a, then b.
PopMin2(q, a, b) ==
    /\ {a, b} \subseteq q
    /\ Before(a, b)
    /\ \A e \in q \ {a, b} : Before(b, e)

QueueInit == queue = {} /\ instanceID = NoGateway

\* Mutant of Kept: an absent identifier counts as unchanged.
KeptIfAbsent(gateway) == IF instanceID \in {gateway, NoGateway} THEN queue ELSE {}

\* The queue enqueue.lua adds to: emptied when the gateway process changed.
Kept(gateway) == IF instanceID = gateway THEN queue ELSE {}

enqueueLua(e, gateway) ==
    /\ queue' = Put(Kept(gateway), e)
    /\ instanceID' = gateway

cancelLua(player) ==
    /\ queue' = removePlayerEntries(queue, player)
    /\ UNCHANGED instanceID

\* Mutant of popPairLua: reads the first two (ZRANGE) and leaves them.
peekPairLua(a, b) == PopMin2(queue, a, b) /\ UNCHANGED queueVars

\* pop_pair.lua with two or more members; the caller also gets instanceID.
popPairLua(a, b) ==
    /\ PopMin2(queue, a, b)
    /\ queue' = queue \ {a, b}
    /\ UNCHANGED instanceID

\* pop_pair.lua with fewer than two members returns an empty table.
popNothingLua ==
    /\ \A d, e \in queue : d = e
    /\ UNCHANGED queueVars

\* reenqueue.lua writes the pair back only under the expected identifier.
IsExpected(expectedID) == instanceID = expectedID

\* Mutant of reenqueueLua: ZADD without removing the players' entries.
reenqueueKeepingOthers(expectedID, a, b) ==
    /\ queue' = IF IsExpected(expectedID) THEN queue \cup {a, b} ELSE queue
    /\ UNCHANGED instanceID

\* Mutant of reenqueueLua: the entries get a later score than they had.
reenqueueRescored(expectedID, a, b) ==
    LET later(e) == [e EXCEPT !.joinedAt = @ + 1]
    IN  /\ queue' = IF IsExpected(expectedID) THEN Put(Put(queue, later(a)), later(b)) ELSE queue
        /\ UNCHANGED instanceID

reenqueueLua(expectedID, a, b) ==
    /\ queue' = IF IsExpected(expectedID) THEN Put(Put(queue, a), b) ELSE queue
    /\ UNCHANGED instanceID

\* Upstash evicts the identifier key, or the queue, at its memory limit.
EvictInstanceID ==
    /\ instanceID # NoGateway
    /\ instanceID' = NoGateway
    /\ UNCHANGED queue

EvictQueue ==
    /\ queue # {}
    /\ queue' = {}
    /\ UNCHANGED instanceID

-----------------------------------------------------------------------------
(* No player waits twice: a player the matcher pops cannot be popped again, *)
(* nor be paired with himself, whatever interleaving of enqueue, cancel,    *)
(* pop and re-enqueue scripts led here.                                     *)
OneEntryPerPlayer == \A d, e \in queue : d.player = e.player => d = e
=============================================================================
