------------------------------- MODULE Member -------------------------------
(***************************************************************************)
(* The queue of RedisQueue one level below: the sorted set as Redis keeps  *)
(* it, with members that are texts.  redis_queue.go builds the text of a   *)
(* member, playerID:deckID:level:base64(name), and takes it apart again;   *)
(* the scripts look for the first field and order equal scores by text.    *)
(* A text is the sequence of its bytes.  Scores are milliseconds, which    *)
(* float64 and the texts of scores represent exactly.                      *)
(***************************************************************************)
EXTENDS Naturals, FiniteSets, SequencesExt

CONSTANTS
    PlayerIDs,  \* player ids that gateways send, texts
    Infos,      \* records deckID, level, name; numbers have one digit
    Gateways, NoGateway, Times

Byte == 0..255

ASSUME MemberAssumption ==
    /\ PlayerIDs \subseteq Seq(Byte) /\ IsFiniteSet(PlayerIDs)
    /\ Infos \subseteq [deckID : 0..9, level : 0..9, name : Seq(Byte)]
    /\ Times \subseteq Nat

VARIABLES
    members,    \* matchmaking:queue: text, score, and the entry it stands for
    instanceID, \* matchmaking:gateway_instance_id
    held        \* what PopPair returned last: pair (or <<>>) and identifier

memberVars == <<members, instanceID, held>>
-----------------------------------------------------------------------------
(* Texts of members *)

Colon == 58

decimal(n) == <<48 + n>>

\* base64 without padding: letters only.  Scaled down: two letters for a byte.
EncodeToString(name) ==
    LET byte(i) == name[(i + 1) \div 2]
    IN  [i \in 1..(2 * Len(name)) |->
            65 + (IF i % 2 = 1 THEN byte(i) \div 16 ELSE byte(i) % 16)]

\* The names a text decodes to: none when it is not base64.
DecodeString(text) ==
    LET name == [i \in 1..(Len(text) \div 2) |->
                    16 * (text[2 * i - 1] - 65) + (text[2 * i] - 65)]
    IN  IF Len(text) % 2 = 0 /\ ToSet(text) \subseteq 65..80 THEN {name} ELSE {}

\* Mutant of validateMemberPlayerID: only the empty id is refused.
validateNonEmpty(id) == id # <<>>

validateMemberPlayerID(id) == id # <<>> /\ ~Contains(id, Colon)

\* Mutant of encodeMember: the name is written as it is.
encodeMemberVerbatim(e) ==
    e.playerID \o <<Colon>> \o decimal(e.deckID) \o <<Colon>> \o decimal(e.level)
        \o <<Colon>> \o e.name

encodeMember(e) ==
    e.playerID \o <<Colon>> \o decimal(e.deckID) \o <<Colon>> \o decimal(e.level)
        \o <<Colon>> \o EncodeToString(e.name)

\* The first colon at or after a position, or 0.
ColonFrom(text, from) ==
    LET at == {i \in from..Len(text) : text[i] = Colon} IN IF at = {} THEN 0 ELSE Min(at)

\* The entries a member decodes to: one, or none when decodeMember fails.
decodeMember(text) ==
    LET i == ColonFrom(text, 1)
        j == ColonFrom(text, i + 1)
        k == ColonFrom(text, j + 1)
        Numbers(t) == {n \in 0..9 : t = decimal(n)}
    IN  IF 0 \in {i, j, k} THEN {}
        ELSE [playerID : {SubSeq(text, 1, i - 1)},
              deckID   : Numbers(SubSeq(text, i + 1, j - 1)),
              level    : Numbers(SubSeq(text, j + 1, k - 1)),
              name     : DecodeString(SubSeq(text, k + 1, Len(text)))]

\* string.match(member, '^[^:]*')
firstField(text) ==
    LET i == ColonFrom(text, 1) IN IF i = 0 THEN text ELSE SubSeq(text, 1, i - 1)

\* The order of texts, byte by byte.
Less(s, t) ==
    \/ IsStrictPrefix(s, t)
    \/ \E i \in DOMAIN s \cap DOMAIN t :
            s[i] < t[i] /\ \A j \in 1..(i - 1) : s[j] = t[j]
-----------------------------------------------------------------------------
(* The scripts, on texts *)

\* Mutant of removePlayerEntries: members that begin with the player id.
removeByPrefix(ms, id) == {m \in ms : ~IsPrefix(id, m.text)}

removePlayerEntries(ms, id) == {m \in ms : firstField(m.text) # id}

Before(m, n) == m.score < n.score \/ (m.score = n.score /\ Less(m.text, n.text))

\* What Go hands to a script for an entry: its member and its score.
Member(e, score) == [text |-> encodeMember(e), score |-> score, of |-> e]

\* ZADD gives a member that is already there the new score.
ZAdd(ms, m) == {n \in ms : n.text # m.text} \cup {m}

Put(ms, id, m) == ZAdd(removePlayerEntries(ms, id), m)

MemberInit == members = {} /\ instanceID = NoGateway /\ held = [pair |-> <<>>, from |-> NoGateway]

Enqueue(e, gateway, score) ==
    /\ validateMemberPlayerID(e.playerID) /\ gateway # NoGateway
    /\ members' = Put(IF instanceID = gateway THEN members ELSE {}, e.playerID, Member(e, score))
    /\ instanceID' = gateway
    /\ UNCHANGED held

Cancel(id) ==
    /\ id # <<>>
    /\ members' = removePlayerEntries(members, id)
    /\ UNCHANGED <<instanceID, held>>

\* An entry PopPair returns; a member that cannot be decoded leaves none.
Popped(m) == {[of |-> e, score |-> m.score] : e \in decodeMember(m.text)}

\* PopPair with two members or more; when one cannot be decoded it fails and
\* both are gone.  Bound: one pair is held at a time.
PopPair(m, n) ==
    /\ held.pair = <<>> /\ Before(m, n) /\ \A o \in members \ {m, n} : Before(n, o)
    /\ members' = members \ {m, n}
    /\ held' \in IF {} \in {Popped(m), Popped(n)} THEN {held}
                 ELSE [pair : Popped(m) \X Popped(n), from : {instanceID}]
    /\ UNCHANGED instanceID

\* Reenqueue of a pair; refuses ids that cannot be members.
Reenqueue ==
    /\ held.pair # <<>>
    /\ \A i \in {1, 2} : validateMemberPlayerID(held.pair[i].of.playerID)
    /\ LET write(ms, a) == Put(ms, a.of.playerID, Member(a.of, a.score))
       IN  members' = IF instanceID = held.from THEN write(write(members, held.pair[1]), held.pair[2])
                       ELSE members
    /\ UNCHANGED <<instanceID, held>>

\* The pair was published, or its write-back is over.
Release ==
    /\ held.pair # <<>>
    /\ held' = [pair |-> <<>>, from |-> NoGateway]
    /\ UNCHANGED <<members, instanceID>>

EvictInstanceID == instanceID' = NoGateway /\ UNCHANGED <<members, held>>

Entry == {[playerID |-> id, deckID |-> info.deckID, level |-> info.level, name |-> info.name] :
             id \in PlayerIDs, info \in Infos}

MemberNext ==
    \/ \E e \in Entry, g \in Gateways \cup {NoGateway}, t \in Times : Enqueue(e, g, t)
    \/ \E id \in PlayerIDs : Cancel(id)
    \/ \E m, n \in members : PopPair(m, n)
    \/ Reenqueue
    \/ Release
    \/ EvictInstanceID

MemberSpec == MemberInit /\ [][MemberNext]_memberVars
-----------------------------------------------------------------------------
(* Members are what the code writes, one for a player, and a pair is one. *)
MembersOK ==
    /\ \A m \in members : m.of \in Entry /\ m.score \in Times
    /\ \A m, n \in members : m.of.playerID = n.of.playerID => m = n
    /\ instanceID \in Gateways \cup {NoGateway}
    /\ held.pair # <<>> => Len(held.pair) = 2 /\ held.pair[1].of.playerID # held.pair[2].of.playerID

(* No member that PopPair can not take apart ever reaches Redis, where it   *)
(* would take its neighbour out of the queue with it, and every member      *)
(* gives back what was enqueued, whatever the name contains and however     *)
(* often the pair was written back.                                         *)
MembersDecode == \A m \in members : decodeMember(m.text) = {m.of}

(* RedisQueue knows a player by his rank among the ids, each followed by    *)
(* the colon that follows it in a member.                                   *)
Rank(id) == Cardinality({o \in PlayerIDs : Less(Append(o, Colon), Append(id, Colon))})

Abstract(e, score) ==
    [player |-> Rank(e.playerID), joinedAt |-> score, ticket |-> <<e.deckID, e.level, e.name>>]

Queue == INSTANCE RedisQueue WITH
    Players <- {Rank(id) : id \in PlayerIDs},
    queue   <- {Abstract(m.of, m.score) : m \in members}

(* Every operation on texts does to the queue what RedisQueue says of its   *)
(* script, for the player it was called for and nobody else.  An id that is *)
(* the beginning of another one, or a name that looks like fields, changes  *)
(* nothing.                                                                 *)
ScriptsAgree ==
    [][/\ \A e \in Entry, g \in Gateways, t \in Times :
            Enqueue(e, g, t) => Queue!enqueueLua(Abstract(e, t), g)
       /\ \A id \in PlayerIDs : Cancel(id) => Queue!cancelLua(Rank(id))
       /\ \A m, n \in members :
            PopPair(m, n) => Queue!popPairLua(Abstract(m.of, m.score), Abstract(n.of, n.score))
       /\ Reenqueue => Queue!reenqueueLua(held.from,
                            Abstract(held.pair[1].of, held.pair[1].score),
                            Abstract(held.pair[2].of, held.pair[2].score))]_memberVars
=============================================================================
