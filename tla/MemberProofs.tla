---------------------------- MODULE MemberProofs ----------------------------
(***************************************************************************)
(* Proofs about Member: what encodeMember writes is taken apart again, the *)
(* scripts find the player they look for, and the texts behave as the      *)
(* entries of RedisQueue, for every set of player ids and every name.      *)
(***************************************************************************)
EXTENDS Member, FiniteSetTheorems, SequenceTheorems, WellFoundedInduction, TLAPS

-----------------------------------------------------------------------------
(* Texts *)

\* One byte more.
LEMMA ByteAppended ==
    ASSUME NEW s \in Seq(Nat), NEW c \in Nat, NEW r, r = s \o <<c>>
    PROVE  /\ r \in Seq(Nat) /\ Len(r) = Len(s) + 1 /\ r[Len(s) + 1] = c
           /\ \A i \in 1..Len(s) : r[i] = s[i]
OBVIOUS

\* One text after another.
LEMMA TextAppended ==
    ASSUME NEW s \in Seq(Nat), NEW t \in Seq(Nat)
    PROVE  /\ s \o t \in Seq(Nat) /\ Len(s \o t) = Len(s) + Len(t)
           /\ \A i \in 1..Len(s) : (s \o t)[i] = s[i]
           /\ \A i \in 1..Len(t) : (s \o t)[Len(s) + i] = t[i]
<1>1. /\ s \o t \in Seq(Nat) /\ Len(s \o t) = Len(s) + Len(t) /\ Len(s) \in Nat /\ Len(t) \in Nat
      /\ \A i \in 1..(Len(s) + Len(t)) : (s \o t)[i] = IF i <= Len(s) THEN s[i] ELSE t[i - Len(s)]
  BY ConcatProperties
<1>2. ASSUME NEW i \in 1..Len(t) PROVE (s \o t)[Len(s) + i] = t[i]
  <2>1. Len(s) + i \in 1..(Len(s) + Len(t)) /\ ~(Len(s) + i <= Len(s)) /\ (Len(s) + i) - Len(s) = i
    BY <1>1
  <2> QED BY <1>1, <2>1
<1> QED BY <1>1, <1>2

\* The text of four fields.
Text(id, d, l, b) ==
    id \o <<Colon>> \o decimal(d) \o <<Colon>> \o decimal(l) \o <<Colon>> \o b

\* The text has these four fields.
Has(text, id, d, l, b) ==
    /\ text \in Seq(Nat) /\ Len(text) = Len(id) + 5 + Len(b)
    /\ \A i \in 1..Len(id) : text[i] = id[i]
    /\ text[Len(id) + 1] = Colon /\ text[Len(id) + 2] = 48 + d
    /\ text[Len(id) + 3] = Colon /\ text[Len(id) + 4] = 48 + l
    /\ text[Len(id) + 5] = Colon
    /\ \A i \in 1..Len(b) : text[Len(id) + 5 + i] = b[i]

\* The layout of a member.
LEMMA Layout ==
    ASSUME NEW id \in Seq(Nat), NEW d \in 0..9, NEW l \in 0..9, NEW b \in Seq(Nat)
    PROVE  Has(Text(id, d, l, b), id, d, l, b)
<1> DEFINE text == Text(id, d, l, b)
<1>0. Colon \in Nat /\ 48 + d \in Nat /\ 48 + l \in Nat /\ Len(id) \in Nat /\ Len(b) \in Nat
  BY DEF Colon
<1>1. PICK s1 : s1 = id \o <<Colon>>
  OBVIOUS
<1>2. PICK s2 : s2 = s1 \o <<48 + d>>
  OBVIOUS
<1>3. PICK s3 : s3 = s2 \o <<Colon>>
  OBVIOUS
<1>4. PICK s4 : s4 = s3 \o <<48 + l>>
  OBVIOUS
<1>5. PICK s5 : s5 = s4 \o <<Colon>>
  OBVIOUS
<1>6. text = s5 \o b
  BY <1>1, <1>2, <1>3, <1>4, <1>5, Zenon DEF decimal, Text
<1> HIDE DEF text
<1>7. /\ s1 \in Seq(Nat) /\ Len(s1) = Len(id) + 1 /\ s1[Len(id) + 1] = Colon
      /\ \A i \in 1..Len(id) : s1[i] = id[i]
  BY <1>0, <1>1, ByteAppended
<1>8. /\ s2 \in Seq(Nat) /\ Len(s2) = Len(id) + 2 /\ s2[Len(id) + 2] = 48 + d
      /\ \A i \in 1..(Len(id) + 1) : s2[i] = s1[i]
  <2>1. /\ s2 \in Seq(Nat) /\ Len(s2) = Len(s1) + 1 /\ s2[Len(s1) + 1] = 48 + d
        /\ \A i \in 1..Len(s1) : s2[i] = s1[i]
    BY <1>0, <1>2, <1>7, ByteAppended
  <2> QED BY <1>0, <1>7, <2>1
<1>9. /\ s3 \in Seq(Nat) /\ Len(s3) = Len(id) + 3 /\ s3[Len(id) + 3] = Colon
      /\ \A i \in 1..(Len(id) + 2) : s3[i] = s2[i]
  <2>1. /\ s3 \in Seq(Nat) /\ Len(s3) = Len(s2) + 1 /\ s3[Len(s2) + 1] = Colon
        /\ \A i \in 1..Len(s2) : s3[i] = s2[i]
    BY <1>0, <1>3, <1>8, ByteAppended
  <2> QED BY <1>0, <1>8, <2>1
<1>10. /\ s4 \in Seq(Nat) /\ Len(s4) = Len(id) + 4 /\ s4[Len(id) + 4] = 48 + l
       /\ \A i \in 1..(Len(id) + 3) : s4[i] = s3[i]
  <2>1. /\ s4 \in Seq(Nat) /\ Len(s4) = Len(s3) + 1 /\ s4[Len(s3) + 1] = 48 + l
        /\ \A i \in 1..Len(s3) : s4[i] = s3[i]
    BY <1>0, <1>4, <1>9, ByteAppended
  <2> QED BY <1>0, <1>9, <2>1
<1>11. /\ s5 \in Seq(Nat) /\ Len(s5) = Len(id) + 5 /\ s5[Len(id) + 5] = Colon
       /\ \A i \in 1..(Len(id) + 4) : s5[i] = s4[i]
  <2>1. /\ s5 \in Seq(Nat) /\ Len(s5) = Len(s4) + 1 /\ s5[Len(s4) + 1] = Colon
        /\ \A i \in 1..Len(s4) : s5[i] = s4[i]
    BY <1>0, <1>5, <1>10, ByteAppended
  <2> QED BY <1>0, <1>10, <2>1
<1>12. /\ text \in Seq(Nat) /\ Len(text) = Len(s5) + Len(b)
       /\ \A i \in 1..Len(s5) : text[i] = s5[i]
       /\ \A i \in 1..Len(b) : text[Len(s5) + i] = b[i]
  <2>1. s5 \in Seq(Nat) /\ b \in Seq(Nat)
    BY <1>11
  <2>2. /\ s5 \o b \in Seq(Nat) /\ Len(s5 \o b) = Len(s5) + Len(b)
        /\ \A i \in 1..Len(s5) : (s5 \o b)[i] = s5[i]
        /\ \A i \in 1..Len(b) : (s5 \o b)[Len(s5) + i] = b[i]
    BY <2>1, TextAppended, Zenon
  <2> QED BY <1>6, <2>2, Zenon
<1>13. text \in Seq(Nat) /\ Len(text) = Len(id) + 5 + Len(b)
  BY <1>0, <1>11, <1>12
<1>14. \A i \in 1..Len(b) : text[Len(id) + 5 + i] = b[i]
  BY <1>11, <1>12
<1>15. PICK m \in Nat : m = Len(id)
  BY <1>0
<1>16. \A i \in 1..(m + 4) : text[i] = s4[i]
  BY <1>11, <1>12, <1>15, SMTT(30)
<1>17. \A i \in 1..(m + 3) : text[i] = s3[i]
  BY <1>10, <1>15, <1>16
<1>18. \A i \in 1..(m + 2) : text[i] = s2[i]
  BY <1>9, <1>15, <1>17
<1>19. \A i \in 1..(m + 1) : text[i] = s1[i]
  BY <1>8, <1>15, <1>18
<1>20. ASSUME NEW i \in 1..m PROVE text[i] = id[i]
  <2>1. i \in 1..(m + 1) /\ i \in 1..Len(id)
    BY <1>15
  <2> QED BY <1>7, <1>19, <2>1, Zenon
<1>21. text[m + 1] = Colon /\ text[m + 2] = 48 + d
  BY <1>7, <1>8, <1>15, <1>18, <1>19
<1>22. text[m + 3] = Colon /\ text[m + 4] = 48 + l
  BY <1>9, <1>10, <1>15, <1>16, <1>17
<1>23. text[m + 5] = Colon
  BY <1>11, <1>12, <1>15
<1> QED BY <1>13, <1>14, <1>15, <1>20, <1>21, <1>22, <1>23 DEF text, Has

\* EncodeToString gives letters, two for a byte.
LEMMA Encoded ==
    ASSUME NEW name \in Seq(Byte), NEW b, b = EncodeToString(name)
    PROVE  /\ b \in Seq(Nat) /\ Len(b) = 2 * Len(name)
           /\ \A i \in 1..Len(b) : b[i] \in 65..80
           /\ \A i \in 1..Len(name) : /\ b[2 * i - 1] = 65 + (name[i] \div 16)
                                      /\ b[2 * i] = 65 + (name[i] % 16)
<1>0. PICK n \in Nat : n = Len(name) /\ DOMAIN name = 1..n /\ \A i \in 1..n : name[i] \in 0..255
  <2>1. Len(name) \in Nat /\ DOMAIN name = 1..Len(name) /\ \A i \in 1..Len(name) : name[i] \in Byte
    BY LenProperties, ElementOfSeq
  <2> QED BY <2>1 DEF Byte
<1>1. \A i \in 1..(2 * n) : (i + 1) \div 2 \in 1..n
  BY <1>0
<1>2. b = [i \in 1..(2 * n) |-> 65 + (IF i % 2 = 1 THEN name[(i + 1) \div 2] \div 16
                                                   ELSE name[(i + 1) \div 2] % 16)]
  BY <1>0 DEF EncodeToString
<1>3. \A x \in 0..255 : x \div 16 \in 0..15 /\ x % 16 \in 0..15
  OBVIOUS
<1>4. ASSUME NEW i \in 1..(2 * n) PROVE b[i] \in 65..80
  <2>1. PICK x \in 0..255 : x = name[(i + 1) \div 2]
    BY <1>0, <1>1
  <2>2. b[i] = 65 + (x \div 16) \/ b[i] = 65 + (x % 16)
    BY <1>2, <2>1
  <2>3. x \div 16 \in 0..15 /\ x % 16 \in 0..15
    BY <1>3
  <2>4. PICK y \in 0..15 : b[i] = 65 + y
    BY <2>2, <2>3, Zenon
  <2> QED BY <2>4
<1>5. b \in [1..(2 * n) -> Nat]
  <2>1. DOMAIN b = 1..(2 * n) /\ b = [i \in 1..(2 * n) |-> b[i]]
    BY <1>2
  <2>2. \A i \in 1..(2 * n) : b[i] \in Nat
    BY <1>4
  <2> QED BY <2>1, <2>2, Zenon
<1>6. b \in Seq(Nat) /\ Len(b) = 2 * n
  BY <1>0, <1>5, SMTT(30)
<1>7. ASSUME NEW i \in 1..n
      PROVE  b[2 * i - 1] = 65 + (name[i] \div 16) /\ b[2 * i] = 65 + (name[i] % 16)
  <2>1. 2 * i - 1 \in 1..(2 * n) /\ (2 * i - 1) % 2 = 1 /\ ((2 * i - 1) + 1) \div 2 = i
    BY <1>0
  <2>2. 2 * i \in 1..(2 * n) /\ (2 * i) % 2 # 1 /\ (2 * i + 1) \div 2 = i
    BY <1>0
  <2> QED BY <1>2, <2>1, <2>2
<1> QED BY <1>0, <1>4, <1>6, <1>7

\* DecodeString inverts EncodeToString, whatever the name contains.
LEMMA NameDecodes ==
    ASSUME NEW name \in Seq(Byte), NEW b, b = EncodeToString(name)
    PROVE  DecodeString(b) = {name}
<1>0. PICK n \in Nat : n = Len(name) /\ DOMAIN name = 1..n /\ \A i \in 1..n : name[i] \in 0..255
  <2>1. Len(name) \in Nat /\ DOMAIN name = 1..Len(name) /\ \A i \in 1..Len(name) : name[i] \in Byte
    BY LenProperties, ElementOfSeq
  <2> QED BY <2>1 DEF Byte
<1>1. /\ Len(b) = 2 * n /\ DOMAIN b = 1..(2 * n) /\ \A i \in 1..(2 * n) : b[i] \in 65..80
      /\ \A i \in 1..n : /\ b[2 * i - 1] = 65 + (name[i] \div 16)
                         /\ b[2 * i] = 65 + (name[i] % 16)
  <2>1. /\ b \in Seq(Nat) /\ Len(b) = 2 * Len(name)
        /\ \A i \in 1..Len(b) : b[i] \in 65..80
        /\ \A i \in 1..Len(name) : /\ b[2 * i - 1] = 65 + (name[i] \div 16)
                                   /\ b[2 * i] = 65 + (name[i] % 16)
    BY Encoded, Zenon
  <2>2. DOMAIN b = 1..Len(b)
    BY <2>1, LenProperties
  <2>3. Len(b) = 2 * n
    BY <1>0, <2>1
  <2>4. DOMAIN b = 1..(2 * n) /\ \A i \in 1..(2 * n) : b[i] \in 65..80
    BY <2>1, <2>2, <2>3, Zenon
  <2>5. \A i \in 1..n : /\ b[2 * i - 1] = 65 + (name[i] \div 16)
                        /\ b[2 * i] = 65 + (name[i] % 16)
    BY <1>0, <2>1, Zenon
  <2> QED BY <2>3, <2>4, <2>5, Zenon
<1>2. Len(b) % 2 = 0 /\ Len(b) \div 2 = n
  BY <1>1
<1>3. ToSet(b) \subseteq 65..80
  BY <1>1 DEF ToSet
<1>4. \A x \in 0..255 : 16 * ((65 + (x \div 16)) - 65) + ((65 + (x % 16)) - 65) = x
  OBVIOUS
<1>5. ASSUME NEW i \in 1..n PROVE 16 * (b[2 * i - 1] - 65) + (b[2 * i] - 65) = name[i]
  <2>1. PICK x \in 0..255 : x = name[i]
    BY <1>0
  <2>2. b[2 * i - 1] = 65 + (x \div 16) /\ b[2 * i] = 65 + (x % 16)
    BY <1>1, <2>1
  <2> QED BY <1>4, <2>1, <2>2
<1>6. [i \in 1..(Len(b) \div 2) |-> 16 * (b[2 * i - 1] - 65) + (b[2 * i] - 65)] = name
  <2>1. name = [i \in 1..n |-> name[i]]
    BY <1>0
  <2> QED BY <1>2, <1>5, <2>1
<1> QED BY <1>2, <1>3, <1>6 DEF DecodeString

\* ColonFrom finds the first colon.
LEMMA FirstColon ==
    ASSUME NEW text, Len(text) \in Nat, NEW from \in Nat, NEW at \in from..Len(text),
           text[at] = Colon, \A i \in from..(at - 1) : text[i] # Colon
    PROVE  ColonFrom(text, from) = at
<1> DEFINE S == {i \in from..Len(text) : text[i] = Colon}
<1>1. at \in S /\ at \in Nat /\ S \subseteq Nat
  OBVIOUS
<1>2. \A y \in S : at <= y
  <2> SUFFICES ASSUME NEW y \in S PROVE at <= y
    OBVIOUS
  <2>1. y \in from..Len(text) /\ y \notin from..(at - 1)
    OBVIOUS
  <2> QED BY <2>1
<1> HIDE DEF S
<1>3. \A x \in S : (\A y \in S : x <= y) => x = at
  BY <1>1, <1>2
<1>4. Min(S) = at
  BY <1>1, <1>2, <1>3 DEF Min
<1>5. S # {}
  BY <1>1
<1> QED BY <1>4, <1>5 DEF ColonFrom, S

\* A text that another one contains after the position p.
LEMMA Piece ==
    ASSUME NEW text \in Seq(Nat), NEW b \in Seq(Nat), NEW p \in Nat, p + Len(b) <= Len(text),
           \A i \in 1..Len(b) : text[p + i] = b[i]
    PROVE  SubSeq(text, p + 1, p + Len(b)) = b
<1>0. Len(b) \in Nat /\ Len(text) \in Nat
  OBVIOUS
<1>1. \A i \in (p + 1)..(p + Len(b)) : text[i] \in Nat
  BY <1>0, ElementOfSeq
<1>2. PICK r : r = SubSeq(text, p + 1, p + Len(b))
  OBVIOUS
<1>3. /\ r \in Seq(Nat)
      /\ Len(r) = IF p + 1 <= p + Len(b) THEN (p + Len(b)) - (p + 1) + 1 ELSE 0
      /\ \A i \in 1..((p + Len(b)) - (p + 1) + 1) : r[i] = text[(p + 1) + i - 1]
  BY <1>0, <1>1, <1>2, SubSeqProperties
<1>4. Len(r) = Len(b)
  BY <1>0, <1>3
<1>5. ASSUME NEW i \in 1..Len(b) PROVE r[i] = b[i]
  <2>1. i \in 1..((p + Len(b)) - (p + 1) + 1) /\ (p + 1) + i - 1 = p + i
    BY <1>0
  <2> QED BY <1>3, <2>1
<1>6. r = b
  BY <1>3, <1>4, <1>5, SeqEqual
<1> QED BY <1>2, <1>6

\* A player id that a member may begin with.
Id(id) == id \in Seq(Nat) /\ \A i \in 1..Len(id) : id[i] # Colon

\* The colons of a member are those between its fields.
LEMMA Colons ==
    ASSUME NEW id, Id(id), NEW d \in 0..9, NEW l \in 0..9, NEW b \in Seq(Nat), NEW text,
           Has(text, id, d, l, b)
    PROVE  /\ ColonFrom(text, 1) = Len(id) + 1
           /\ ColonFrom(text, Len(id) + 2) = Len(id) + 3
           /\ ColonFrom(text, Len(id) + 4) = Len(id) + 5
<1>0. PICK m \in Nat : m = Len(id)
  BY DEF Id
<1>1. /\ Len(text) \in Nat /\ Len(text) >= m + 5
      /\ \A i \in 1..m : text[i] = id[i]
      /\ text[m + 1] = Colon /\ text[m + 2] = 48 + d /\ text[m + 3] = Colon
      /\ text[m + 4] = 48 + l /\ text[m + 5] = Colon
  <2>1. id \in Seq(Nat) /\ Len(b) \in Nat
    BY DEF Id
  <2> QED BY <1>0, <2>1 DEF Has
<1>d. 48 + d # Colon /\ 48 + l # Colon
  BY DEF Colon
<1>2. ColonFrom(text, 1) = m + 1
  <2>1. \A i \in 1..m : text[i] # Colon
    BY <1>0, <1>1 DEF Id
  <2>2. 1 \in Nat /\ m + 1 \in 1..Len(text) /\ (m + 1) - 1 = m
    BY <1>1
  <2>3. \A i \in 1..((m + 1) - 1) : text[i] # Colon
    BY <2>1, <2>2
  <2> QED BY <1>1, <2>2, <2>3, FirstColon, Zenon
<1>3. ColonFrom(text, m + 2) = m + 3
  <2>1. m + 3 \in (m + 2)..Len(text) /\ m + 2 \in Nat
    BY <1>1
  <2>2. \A i \in (m + 2)..((m + 3) - 1) : text[i] # Colon
    <3> SUFFICES ASSUME NEW i \in (m + 2)..((m + 3) - 1) PROVE text[i] # Colon
      OBVIOUS
    <3>1. i = m + 2
      OBVIOUS
    <3> QED BY <1>1, <1>d, <3>1
  <2> QED BY <1>1, <2>1, <2>2, FirstColon
<1>4. ColonFrom(text, m + 4) = m + 5
  <2>1. m + 5 \in (m + 4)..Len(text) /\ m + 4 \in Nat
    BY <1>1
  <2>2. \A i \in (m + 4)..((m + 5) - 1) : text[i] # Colon
    <3> SUFFICES ASSUME NEW i \in (m + 4)..((m + 5) - 1) PROVE text[i] # Colon
      OBVIOUS
    <3>1. i = m + 4
      OBVIOUS
    <3> QED BY <1>1, <1>d, <3>1
  <2> QED BY <1>1, <2>1, <2>2, FirstColon
<1> QED BY <1>0, <1>2, <1>3, <1>4

\* Between its colons a text has these fields.
Splits(text, id, d, l, b) ==
    /\ SubSeq(text, 1, Len(id)) = id
    /\ SubSeq(text, Len(id) + 2, Len(id) + 2) = decimal(d)
    /\ SubSeq(text, Len(id) + 4, Len(id) + 4) = decimal(l)
    /\ SubSeq(text, Len(id) + 6, Len(text)) = b

\* The fields of a member are what was written into them.
LEMMA Fields ==
    ASSUME NEW id, Id(id), NEW d \in 0..9, NEW l \in 0..9, NEW b \in Seq(Nat), NEW text,
           Has(text, id, d, l, b)
    PROVE  Splits(text, id, d, l, b)
<1>0. PICK m \in Nat : m = Len(id)
  BY DEF Id
<1>1. id \in Seq(Nat) /\ Len(b) \in Nat
  BY DEF Id
<1>2. /\ text \in Seq(Nat) /\ Len(text) = Len(id) + 5 + Len(b)
      /\ \A i \in 1..Len(id) : text[i] = id[i]
      /\ text[Len(id) + 1] = Colon /\ text[Len(id) + 2] = 48 + d
      /\ text[Len(id) + 3] = Colon /\ text[Len(id) + 4] = 48 + l
      /\ text[Len(id) + 5] = Colon
      /\ \A i \in 1..Len(b) : text[Len(id) + 5 + i] = b[i]
  BY DEF Has
<1>3. SubSeq(text, 1, Len(id)) = id
  <2>1. \A i \in 1..Len(id) : text[0 + i] = id[i]
    BY <1>2
  <2>2. 0 + Len(id) <= Len(text) /\ 0 + 1 = 1 /\ 0 + Len(id) = Len(id)
    BY <1>0, <1>1, <1>2
  <2>3. SubSeq(text, 0 + 1, 0 + Len(id)) = id
    BY <1>1, <1>2, <2>1, <2>2, Piece
  <2> QED BY <2>2, <2>3
<1>4. ASSUME NEW n \in 0..9, NEW p \in Nat, p + 1 <= Len(text), text[p + 1] = 48 + n
      PROVE  SubSeq(text, p + 1, p + 1) = decimal(n)
  <2>1. decimal(n) \in Seq(Nat) /\ Len(decimal(n)) = 1 /\ decimal(n)[1] = 48 + n
    BY DEF decimal
  <2>2. \A i \in 1..Len(decimal(n)) : text[p + i] = decimal(n)[i]
    BY <1>4, <2>1
  <2>3. p + Len(decimal(n)) = p + 1
    BY <2>1
  <2>4. SubSeq(text, p + 1, p + Len(decimal(n))) = decimal(n)
    BY <1>2, <1>4, <2>1, <2>2, <2>3, Piece
  <2> QED BY <2>3, <2>4
<1>5. SubSeq(text, m + 2, m + 2) = decimal(d)
  <2>1. m + 1 \in Nat /\ (m + 1) + 1 = m + 2 /\ m + 2 <= Len(text) /\ text[m + 2] = 48 + d
    BY <1>0, <1>1, <1>2
  <2> QED BY <1>4, <2>1
<1>6. SubSeq(text, m + 4, m + 4) = decimal(l)
  <2>1. m + 3 \in Nat /\ (m + 3) + 1 = m + 4 /\ m + 4 <= Len(text) /\ text[m + 4] = 48 + l
    BY <1>0, <1>1, <1>2
  <2> QED BY <1>4, <2>1
<1>7. SubSeq(text, m + 6, Len(text)) = b
  <2>1. /\ m + 5 \in Nat /\ (m + 5) + 1 = m + 6 /\ (m + 5) + Len(b) = Len(text)
        /\ (m + 5) + Len(b) <= Len(text) /\ \A i \in 1..Len(b) : text[(m + 5) + i] = b[i]
    BY <1>0, <1>1, <1>2
  <2>2. SubSeq(text, (m + 5) + 1, (m + 5) + Len(b)) = b
    BY <1>2, <2>1, Piece
  <2> QED BY <2>1, <2>2
<1> QED BY <1>0, <1>3, <1>5, <1>6, <1>7 DEF Splits

\* What an entry consists of.
LEMMA EntryIs ==
    ASSUME NEW e \in Entry
    PROVE  /\ e = [playerID |-> e.playerID, deckID |-> e.deckID, level |-> e.level, name |-> e.name]
           /\ e.playerID \in PlayerIDs /\ e.playerID \in Seq(Nat)
           /\ e.deckID \in 0..9 /\ e.level \in 0..9 /\ e.name \in Seq(Byte)
<1>1. PICK id \in PlayerIDs, info \in Infos :
        e = [playerID |-> id, deckID |-> info.deckID, level |-> info.level, name |-> info.name]
  BY DEF Entry
<1>2. info.deckID \in 0..9 /\ info.level \in 0..9 /\ info.name \in Seq(Byte)
  <2>1. info \in [deckID : 0..9, level : 0..9, name : Seq(Byte)]
    BY MemberAssumption, Zenon
  <2> QED BY <2>1
<1>3. id \in Seq(Nat)
  <2>1. id \in Seq(Byte) /\ Byte \subseteq Nat
    BY MemberAssumption DEF Byte
  <2> QED BY <2>1, SeqMonotonic, Zenon
<1> QED BY <1>1, <1>2, <1>3

\* decodeMember inverts encodeMember, and the scripts find the player.
LEMMA Taken ==
    ASSUME NEW e \in Entry, validateMemberPlayerID(e.playerID)
    PROVE  /\ decodeMember(encodeMember(e)) = {e}
           /\ firstField(encodeMember(e)) = e.playerID
           /\ Id(e.playerID)
           /\ \E b \in Seq(Nat) : Has(encodeMember(e), e.playerID, e.deckID, e.level, b)
<1>0. PICK id \in Seq(Nat), d \in 0..9, l \in 0..9, name \in Seq(Byte) :
        /\ id = e.playerID /\ d = e.deckID /\ l = e.level /\ name = e.name
        /\ e = [playerID |-> id, deckID |-> d, level |-> l, name |-> name]
  <2>1. /\ e.playerID \in Seq(Nat) /\ e.deckID \in 0..9 /\ e.level \in 0..9 /\ e.name \in Seq(Byte)
        /\ e = [playerID |-> e.playerID, deckID |-> e.deckID, level |-> e.level, name |-> e.name]
    BY EntryIs, Zenon
  <2> QED BY <2>1, Zenon
<1>1. PICK b : b = EncodeToString(name)
  OBVIOUS
<1>2. Id(id)
  BY <1>0 DEF validateMemberPlayerID, Contains, Id
<1>3. b \in Seq(Nat) /\ DecodeString(b) = {name}
  BY <1>1, Encoded, NameDecodes
<1>4. PICK text : text = encodeMember(e)
  OBVIOUS
<1>5. text = Text(id, d, l, b)
  BY <1>0, <1>1, <1>4, Zenon DEF encodeMember, Text
<1>t. Has(text, id, d, l, b)
  BY <1>3, <1>5, Layout
<1>6. PICK m \in Nat : m = Len(id)
  BY <1>2 DEF Id
<1>7. /\ ColonFrom(text, 1) = m + 1 /\ ColonFrom(text, m + 2) = m + 3
      /\ ColonFrom(text, m + 4) = m + 5
  <2>1. /\ ColonFrom(text, 1) = Len(id) + 1 /\ ColonFrom(text, Len(id) + 2) = Len(id) + 3
        /\ ColonFrom(text, Len(id) + 4) = Len(id) + 5
    BY <1>2, <1>3, <1>t, Colons, SMTT(30)
  <2> QED BY <1>6, <2>1
<1>8. /\ SubSeq(text, 1, m) = id
      /\ SubSeq(text, m + 2, m + 2) = decimal(d)
      /\ SubSeq(text, m + 4, m + 4) = decimal(l)
      /\ SubSeq(text, m + 6, Len(text)) = b
  <2>1. Splits(text, id, d, l, b)
    BY <1>2, <1>3, <1>t, Fields
  <2> QED BY <1>6, <2>1, Zenon DEF Splits
<1>9. /\ (m + 1) - 1 = m /\ (m + 1) + 1 = m + 2 /\ (m + 3) - 1 = m + 2 /\ (m + 3) + 1 = m + 4
      /\ (m + 5) - 1 = m + 4 /\ (m + 5) + 1 = m + 6 /\ 0 \notin {m + 1, m + 3, m + 5}
      /\ m + 1 # 0
  OBVIOUS
<1>10. firstField(text) = id
  BY <1>7, <1>8, <1>9 DEF firstField
<1>11. {n \in 0..9 : decimal(d) = decimal(n)} = {d} /\ {n \in 0..9 : decimal(l) = decimal(n)} = {l}
  <2>1. \A x, y \in 0..9 : decimal(x) = decimal(y) => x = y
    <3> SUFFICES ASSUME NEW x \in 0..9, NEW y \in 0..9, decimal(x) = decimal(y) PROVE x = y
      OBVIOUS
    <3>1. decimal(x)[1] = 48 + x /\ decimal(y)[1] = 48 + y
      BY DEF decimal
    <3> QED BY <3>1
  <2> QED BY <2>1
<1>12. decodeMember(text) = [playerID : {id}, deckID : {d}, level : {l}, name : {name}]
  <2>1. decodeMember(text) =
          [playerID : {SubSeq(text, 1, (m + 1) - 1)},
           deckID   : {n \in 0..9 : SubSeq(text, (m + 1) + 1, (m + 3) - 1) = decimal(n)},
           level    : {n \in 0..9 : SubSeq(text, (m + 3) + 1, (m + 5) - 1) = decimal(n)},
           name     : DecodeString(SubSeq(text, (m + 5) + 1, Len(text)))]
    BY <1>7, <1>9, Zenon DEF decodeMember
  <2> QED BY <1>3, <1>8, <1>9, <1>11, <2>1, Zenon
<1>13. decodeMember(text) = {e}
  <2>1. \A x : x \in [playerID : {id}, deckID : {d}, level : {l}, name : {name}]
                <=> x = [playerID |-> id, deckID |-> d, level |-> l, name |-> name]
    OBVIOUS
  <2> QED BY <1>0, <1>12, <2>1
<1> QED BY <1>0, <1>2, <1>3, <1>4, <1>t, <1>10, <1>13
-----------------------------------------------------------------------------
(* The members and the pair held *)

\* An entry that enqueue or reenqueue may write.
Writable(e, score) == e \in Entry /\ validateMemberPlayerID(e.playerID) /\ score \in Times

Written(m) == m = Member(m.of, m.score) /\ Writable(m.of, m.score)

HeldPair ==
    held.pair # <<>> =>
        /\ held.pair = <<held.pair[1], held.pair[2]>>
        /\ \A i \in {1, 2} : Writable(held.pair[i].of, held.pair[i].score)
        /\ held.pair[1].of.playerID # held.pair[2].of.playerID

\* Members the code wrote, one for a player.
WellKept(ms) ==
    /\ \A m \in ms : Written(m)
    /\ \A m, n \in ms : m.of.playerID = n.of.playerID => m = n

\* The inductive invariant: every member was written by the code for an entry
\* it accepts, one for a player, and so were the members of the pair held.
MemberInv ==
    /\ WellKept(members)
    /\ instanceID \in Gateways \cup {NoGateway}
    /\ HeldPair

\* Member writes the entry and keeps it.
LEMMA WrittenIs ==
    ASSUME NEW e, NEW score, Writable(e, score)
    PROVE  LET m == Member(e, score)
           IN  Written(m) /\ m.of = e /\ m.score = score /\ m.text = encodeMember(e)
BY DEF Written, Member

\* The scripts know the player of a member, and its text tells it from those
\* of other players.
LEMMA Known ==
    ASSUME NEW m, Written(m)
    PROVE  /\ m.of \in Entry /\ m.text = encodeMember(m.of)
           /\ firstField(m.text) = m.of.playerID /\ decodeMember(m.text) = {m.of}
<1>1. m = Member(m.of, m.score) /\ m.of \in Entry /\ validateMemberPlayerID(m.of.playerID)
  BY DEF Written, Writable
<1>2. m.text = encodeMember(m.of)
  BY <1>1 DEF Member
<1> QED BY <1>1, <1>2, Taken

\* removePlayerEntries takes the members of one player and no others.
LEMMA Removed ==
    ASSUME NEW ms, \A m \in ms : Written(m), NEW id
    PROVE  removePlayerEntries(ms, id) = {m \in ms : m.of.playerID # id}
BY Known DEF removePlayerEntries

\* What Put leaves of the other members, and that ZADD finds no other member
\* of the same text.
LEMMA PutIs ==
    ASSUME NEW ms, \A m \in ms : Written(m), NEW e, NEW score, Writable(e, score)
    PROVE  Put(ms, e.playerID, Member(e, score)) =
             {m \in ms : m.of.playerID # e.playerID} \cup {Member(e, score)}
<1>1. PICK w : w = Member(e, score) /\ Written(w) /\ w.of = e
  BY WrittenIs
<1>2. PICK rest : rest = {m \in ms : m.of.playerID # e.playerID}
  OBVIOUS
<1>3. removePlayerEntries(ms, e.playerID) = rest
  BY <1>2, Removed
<1>4. \A m \in rest : m.text # w.text
  BY <1>1, <1>2, Known
<1>5. {m \in rest : m.text # w.text} = rest
  BY <1>4
<1> QED BY <1>1, <1>2, <1>3, <1>5 DEF Put, ZAdd

\* Put keeps what is said of members.
LEMMA PutKeeps ==
    ASSUME NEW ms, WellKept(ms), NEW e, NEW score, Writable(e, score)
    PROVE  WellKept(Put(ms, e.playerID, Member(e, score)))
<1>0. PICK r : r = Put(ms, e.playerID, Member(e, score))
  OBVIOUS
<1>1. PICK w : w = Member(e, score) /\ Written(w) /\ w.of = e
  BY WrittenIs
<1>2. r = {m \in ms : m.of.playerID # e.playerID} \cup {w}
  BY <1>0, <1>1, PutIs DEF WellKept
<1> QED BY <1>0, <1>1, <1>2 DEF WellKept

\* A member does not come before itself, nor before one of the same player.
LEMMA BeforeIsStrict ==
    ASSUME MemberInv, NEW m \in members, NEW n \in members, Before(m, n)
    PROVE  m.of.playerID # n.of.playerID
<1>1. Written(m) /\ (m.of.playerID = n.of.playerID => m = n)
  BY DEF MemberInv, WellKept
<1>2. PICK t \in Seq(Nat) : t = m.text
  <2>1. m.of \in Entry /\ validateMemberPlayerID(m.of.playerID) /\ m.text = encodeMember(m.of)
    BY <1>1, Known DEF Written, Writable
  <2> QED BY <2>1, Taken DEF Has
<1>3. ~Less(t, t)
  BY ElementOfSeq DEF Less, IsStrictPrefix
<1>4. ~(m.score < m.score)
  <2>1. m.score \in Times
    BY <1>1 DEF Written, Writable
  <2>2. Times \subseteq Nat
    BY MemberAssumption, Zenon
  <2>3. PICK k \in Nat : k = m.score
    BY <2>1, <2>2, Zenon
  <2> QED BY <2>3
<1> QED BY <1>1, <1>2, <1>3, <1>4 DEF Before

\* Every operation keeps the invariant.
LEMMA MemberStep ==
    ASSUME MemberInv, [MemberNext]_memberVars
    PROVE  MemberInv'
<1>0. /\ WellKept(members)
      /\ instanceID \in Gateways \cup {NoGateway} /\ HeldPair
  BY DEF MemberInv
<1>1. ASSUME NEW e \in Entry, NEW g \in Gateways \cup {NoGateway}, NEW t \in Times, Enqueue(e, g, t)
      PROVE  MemberInv'
  <2>1. PICK ms : ms = IF instanceID = g THEN members ELSE {}
    OBVIOUS
  <2>2. Writable(e, t) /\ members' = Put(ms, e.playerID, Member(e, t))
    BY <1>1, <2>1 DEF Enqueue, Writable
  <2>3. WellKept(ms)
    BY <1>0, <2>1 DEF WellKept
  <2>4. WellKept(members')
    BY <2>2, <2>3, PutKeeps
  <2>5. HeldPair' /\ instanceID' = g
    BY <1>0, <1>1 DEF Enqueue, HeldPair
  <2> QED BY <2>4, <2>5 DEF MemberInv
<1>2. ASSUME NEW id \in PlayerIDs, Cancel(id) PROVE MemberInv'
  <2>1. members' \subseteq members /\ HeldPair' /\ instanceID' = instanceID
    BY <1>0, <1>2 DEF Cancel, removePlayerEntries, HeldPair
  <2> QED BY <1>0, <2>1 DEF MemberInv, WellKept
<1>3. ASSUME NEW m \in members, NEW n \in members, PopPair(m, n) PROVE MemberInv'
  <2>1. members' \subseteq members /\ instanceID' = instanceID
    BY <1>3 DEF PopPair
  <2>2. m.of.playerID # n.of.playerID
    BY <1>0, <1>3, BeforeIsStrict DEF PopPair
  <2>3. PICK a, b : /\ a = [of |-> m.of, score |-> m.score] /\ b = [of |-> n.of, score |-> n.score]
                    /\ Popped(m) = {a} /\ Popped(n) = {b}
    <3>1. decodeMember(m.text) = {m.of} /\ decodeMember(n.text) = {n.of}
      BY <1>0, Known, Zenon DEF WellKept
    <3>2. /\ Popped(m) = {[of |-> m.of, score |-> m.score]}
          /\ Popped(n) = {[of |-> n.of, score |-> n.score]}
      BY <3>1 DEF Popped
    <3> QED BY <3>2, Zenon
  <2>4. held' = [pair |-> <<a, b>>, from |-> instanceID]
    <3>1. held' \in [pair : {a} \X {b}, from : {instanceID}]
      BY <1>3, <2>3 DEF PopPair
    <3> QED BY <3>1
  <2>5. Writable(a.of, a.score) /\ Writable(b.of, b.score) /\ a.of.playerID # b.of.playerID
    BY <1>0, <2>2, <2>3 DEF Written, WellKept
  <2>6. HeldPair'
    BY <2>4, <2>5 DEF HeldPair
  <2> QED BY <1>0, <2>1, <2>6 DEF MemberInv, WellKept
<1>4. CASE Reenqueue
  <2>1. PICK a, b : /\ a = held.pair[1] /\ b = held.pair[2]
                    /\ Writable(a.of, a.score) /\ Writable(b.of, b.score)
    BY <1>0, <1>4 DEF Reenqueue, HeldPair
  <2>2. PICK once : once = Put(members, a.of.playerID, Member(a.of, a.score))
    OBVIOUS
  <2>3. PICK twice : twice = Put(once, b.of.playerID, Member(b.of, b.score))
    OBVIOUS
  <2>4. members' = members \/ members' = twice
    BY <1>4, <2>1, <2>2, <2>3 DEF Reenqueue
  <2>5. WellKept(once)
    BY <1>0, <2>1, <2>2, PutKeeps
  <2>6. WellKept(twice)
    BY <2>1, <2>3, <2>5, PutKeeps
  <2>7. HeldPair' /\ instanceID' = instanceID
    BY <1>0, <1>4 DEF Reenqueue, HeldPair
  <2> QED BY <1>0, <2>4, <2>6, <2>7 DEF MemberInv
<1>5. CASE Release
  BY <1>0, <1>5 DEF Release, MemberInv, HeldPair
<1>6. CASE EvictInstanceID
  BY <1>0, <1>6 DEF EvictInstanceID, MemberInv, HeldPair
<1>7. CASE UNCHANGED memberVars
  BY <1>0, <1>7 DEF memberVars, MemberInv, HeldPair
<1> QED BY <1>1, <1>2, <1>3, <1>4, <1>5, <1>6, <1>7 DEF MemberNext

\* The invariant holds in every reachable state.
LEMMA MemberInvariance == MemberSpec => []MemberInv
<1>1. MemberInit => MemberInv
  BY DEF MemberInit, MemberInv, HeldPair, WellKept
<1>2. MemberInv /\ [MemberNext]_memberVars => MemberInv'
  BY MemberStep
<1> QED BY <1>1, <1>2, PTL DEF MemberSpec

\* The members of the sorted set are texts the code wrote for entries it
\* accepts, at most one for a player, and PopPair returns two players, for all
\* player ids and names and however often pairs are written back.
THEOREM MembersWellFormed == MemberSpec => []MembersOK
<1>1. MemberInv => MembersOK
  <2> SUFFICES ASSUME MemberInv PROVE MembersOK
    OBVIOUS
  <2>1. \A m \in members : m.of \in Entry /\ m.score \in Times
    BY DEF MemberInv, WellKept, Written, Writable
  <2>2. held.pair # <<>> => Len(held.pair) = 2 /\ held.pair[1].of.playerID # held.pair[2].of.playerID
    <3> SUFFICES ASSUME held.pair # <<>> PROVE Len(held.pair) = 2
      BY DEF MemberInv, HeldPair
    <3>1. PICK a, b : held.pair = <<a, b>>
      BY DEF MemberInv, HeldPair
    <3> QED BY <3>1
  <2> QED BY <2>1, <2>2 DEF MemberInv, WellKept, MembersOK
<1> QED BY <1>1, MemberInvariance, PTL

\* decodeMember gives back every entry from its member: PopPair never meets a
\* member it cannot take apart, which would cost both players of the pair their
\* place, whatever bytes the names consist of.
THEOREM MembersAreDecoded == MemberSpec => []MembersDecode
<1>1. MemberInv => MembersDecode
  BY Known DEF MemberInv, WellKept, MembersDecode
<1> QED BY <1>1, MemberInvariance, PTL
-----------------------------------------------------------------------------
(* The order of texts *)

\* A set of numbers has a least one.
LEMMA LeastNumber ==
    ASSUME NEW S, S \subseteq Nat, S # {}
    PROVE  \E d \in S : \A other \in S : d <= other
<1>1. \E d \in S : \A other \in S : <<other, d>> \notin OpToRel(<, Nat)
  BY NatLessThanWellFounded, WFMin
<1>2. \A x, y \in Nat : <<x, y>> \in OpToRel(<, Nat) <=> x < y
  BY DEF OpToRel
<1>3. PICK R : /\ \E d \in S : \A other \in S : <<other, d>> \notin R
               /\ \A x, y \in Nat : <<x, y>> \in R <=> x < y
  BY <1>1, <1>2, Zenon
<1>4. PICK d \in S : \A other \in S : <<other, d>> \notin R
  BY <1>3
<1>5. \A other \in S : ~(other < d)
  BY <1>3, <1>4
<1> QED BY <1>5

\* The order of numbers, for steps about lengths.
LEMMA Compare ==
    \A x, y \in Nat : (x <= y => x < y \/ x = y) /\ x <= x /\ ~(x < x)
OBVIOUS

\* s comes before t because of the byte after the first k, which are the same:
\* s ends there, or its byte is less.
Differ(s, t, k) ==
    /\ k \in Nat /\ k <= Len(s) /\ k < Len(t)
    /\ \A j \in 1..k : s[j] = t[j]
    /\ k < Len(s) => s[k + 1] < t[k + 1]

\* Less in terms of the first difference.
LEMMA LessDiffer ==
    ASSUME NEW s \in Seq(Nat), NEW t \in Seq(Nat), Less(s, t)
    PROVE  \E k \in Nat : Differ(s, t, k)
<1>0. /\ Len(s) \in Nat /\ Len(t) \in Nat /\ DOMAIN s = 1..Len(s) /\ DOMAIN t = 1..Len(t)
  OBVIOUS
<1>1. CASE IsStrictPrefix(s, t)
  <2>1. Len(s) <= Len(t) /\ SubSeq(s, 1, Len(s)) = SubSeq(t, 1, Len(s)) /\ s # t
    BY <1>1 DEF IsStrictPrefix, IsPrefix
  <2>2. \A j \in 1..Len(s) : s[j] = t[j]
    <3> SUFFICES ASSUME NEW j \in 1..Len(s) PROVE s[j] = t[j]
      OBVIOUS
    <3>1. SubSeq(s, 1, Len(s))[j] = s[j] /\ SubSeq(t, 1, Len(s))[j] = t[j]
      BY <1>0, <2>1
    <3> QED BY <2>1, <3>1, Zenon
  <2>3. Len(s) # Len(t)
    BY <2>1, <2>2, SeqEqual
  <2>4. Len(s) < Len(t) /\ Len(s) <= Len(s) /\ ~(Len(s) < Len(s))
    <3>1. Len(s) <= Len(t) /\ Len(s) # Len(t)
      BY <2>1, <2>3, Zenon
    <3> QED BY <1>0, <3>1, Compare, Zenon
  <2>5. Differ(s, t, Len(s))
    BY <1>0, <2>2, <2>4, Zenon DEF Differ
  <2> QED BY <1>0, <2>5
<1>2. ASSUME NEW i \in DOMAIN s \cap DOMAIN t, s[i] < t[i], \A j \in 1..(i - 1) : s[j] = t[j]
      PROVE  \E k \in Nat : Differ(s, t, k)
  <2>0. i \in 1..Len(s) /\ i \in 1..Len(t)
    BY <1>0
  <2>1. PICK k \in Nat : k = i - 1 /\ k + 1 = i /\ k < Len(s) /\ k < Len(t)
    <3>1. i - 1 \in Nat /\ (i - 1) + 1 = i /\ i - 1 < Len(s) /\ i - 1 < Len(t)
      BY <1>0, <2>0
    <3> QED BY <3>1, Zenon
  <2>2. \A j \in 1..k : s[j] = t[j]
    BY <1>2, <2>1
  <2>3. s[k + 1] < t[k + 1]
    BY <1>2, <2>1
  <2>4. Differ(s, t, k)
    BY <1>0, <2>1, <2>2, <2>3 DEF Differ
  <2> QED BY <2>4
<1> QED BY <1>1, <1>2 DEF Less

\* And back.
LEMMA DifferLess ==
    ASSUME NEW s \in Seq(Nat), NEW t \in Seq(Nat), NEW k, Differ(s, t, k)
    PROVE  Less(s, t)
<1>0. /\ Len(s) \in Nat /\ Len(t) \in Nat /\ DOMAIN s = 1..Len(s) /\ DOMAIN t = 1..Len(t)
  OBVIOUS
<1>1. k \in Nat /\ k <= Len(s) /\ k < Len(t) /\ (\A j \in 1..k : s[j] = t[j])
      /\ (k < Len(s) => s[k + 1] < t[k + 1])
  BY DEF Differ
<1>2. CASE k < Len(s)
  <2>1. k + 1 \in DOMAIN s \cap DOMAIN t /\ (k + 1) - 1 = k /\ s[k + 1] < t[k + 1]
    BY <1>0, <1>1, <1>2
  <2> QED BY <1>1, <2>1 DEF Less
<1>3. CASE k = Len(s)
  <2>1. SubSeq(t, 1, Len(s)) = s
    <3>1. \A i \in 1..Len(s) : t[0 + i] = s[i]
      BY <1>1, <1>3
    <3>2. 0 + Len(s) <= Len(t) /\ 0 + 1 = 1 /\ 0 + Len(s) = Len(s)
      BY <1>0, <1>1, <1>3
    <3>3. SubSeq(t, 0 + 1, 0 + Len(s)) = s
      BY <3>1, <3>2, Piece
    <3> QED BY <3>2, <3>3
  <2>2. SubSeq(s, 1, Len(s)) = s
    OBVIOUS
  <2>3. Len(s) <= Len(t) /\ s # t
    BY <1>0, <1>1, <1>3
  <2>4. SubSeq(s, 1, Len(s)) = SubSeq(t, 1, Len(s))
    BY <2>1, <2>2, Zenon
  <2> QED BY <2>3, <2>4, Zenon DEF Less, IsStrictPrefix, IsPrefix
<1>4. k \in Nat /\ k <= Len(s)
  BY <1>1
<1>5. k < Len(s) \/ k = Len(s)
  BY <1>0, <1>4, Compare, Zenon
<1> QED BY <1>2, <1>3, <1>5, Zenon

\* The order is transitive.
LEMMA LessTransitive ==
    ASSUME NEW s \in Seq(Nat), NEW t \in Seq(Nat), NEW u \in Seq(Nat), Less(s, t), Less(t, u)
    PROVE  Less(s, u)
<1>0. /\ Len(s) \in Nat /\ Len(t) \in Nat /\ Len(u) \in Nat
      /\ \A i \in 1..Len(s) : s[i] \in Nat
      /\ \A i \in 1..Len(t) : t[i] \in Nat
      /\ \A i \in 1..Len(u) : u[i] \in Nat
  BY ElementOfSeq
<1>1. PICK k \in Nat : Differ(s, t, k)
  BY LessDiffer
<1>2. PICK l \in Nat : Differ(t, u, l)
  BY LessDiffer
<1>3. /\ k <= Len(s) /\ k < Len(t) /\ (k < Len(s) => s[k + 1] < t[k + 1])
      /\ l <= Len(t) /\ l < Len(u) /\ (l < Len(t) => t[l + 1] < u[l + 1])
      /\ (\A j \in 1..k : s[j] = t[j]) /\ (\A j \in 1..l : t[j] = u[j])
  BY <1>1, <1>2 DEF Differ
<1>4. CASE k < l
  <2>1. t[k + 1] = u[k + 1] /\ \A j \in 1..k : s[j] = u[j]
    BY <1>3, <1>4
  <2>2. Differ(s, u, k)
    BY <1>0, <1>3, <1>4, <2>1 DEF Differ
  <2> QED BY <2>2, DifferLess
<1>5. CASE l < k
  <2>1. s[l + 1] = t[l + 1] /\ \A j \in 1..l : s[j] = u[j]
    BY <1>3, <1>5
  <2>2. Differ(s, u, l)
    BY <1>0, <1>3, <1>5, <2>1, SMTT(30) DEF Differ
  <2> QED BY <2>2, DifferLess
<1>6. CASE l = k
  <2>1. \A j \in 1..k : s[j] = u[j]
    BY <1>3, <1>6
  <2>2. k < Len(s) => s[k + 1] < u[k + 1]
    <3> SUFFICES ASSUME k < Len(s) PROVE s[k + 1] < u[k + 1]
      OBVIOUS
    <3>1. s[k + 1] < t[k + 1] /\ t[k + 1] < u[k + 1]
      BY <1>3, <1>6
    <3>2. k + 1 \in 1..Len(s) /\ k + 1 \in 1..Len(t) /\ k + 1 \in 1..Len(u)
      BY <1>0, <1>3, <1>6, SMTT(30)
    <3> QED BY <1>0, <3>1, <3>2, SMTT(30)
  <2>3. Differ(s, u, k)
    BY <1>3, <1>6, <2>1, <2>2 DEF Differ
  <2> QED BY <2>3, DifferLess
<1> QED BY <1>4, <1>5, <1>6

\* No text comes before itself.
LEMMA LessStrict ==
    ASSUME NEW s \in Seq(Nat)
    PROVE  ~Less(s, s)
BY ElementOfSeq DEF Less, IsStrictPrefix

\* Of two texts one comes before the other.
LEMMA LessTotal ==
    ASSUME NEW s \in Seq(Nat), NEW t \in Seq(Nat), s # t
    PROVE  Less(s, t) \/ Less(t, s)
<1>0. /\ Len(s) \in Nat /\ Len(t) \in Nat
      /\ \A i \in 1..Len(s) : s[i] \in Nat
      /\ \A i \in 1..Len(t) : t[i] \in Nat
  BY ElementOfSeq
<1> DEFINE D == {i \in Nat : i \in 1..Len(s) /\ i \in 1..Len(t) /\ s[i] # t[i]}
<1>1. CASE D = {}
  <2>1. ASSUME NEW i \in 1..Len(s), i <= Len(t) PROVE s[i] = t[i]
    <3>1. i \in Nat /\ i \in 1..Len(t)
      BY <1>0, <2>1
    <3> QED BY <1>1, <3>1, Zenon
  <2>2. CASE Len(s) < Len(t)
    <3>1. Differ(s, t, Len(s))
      BY <1>0, <2>1, <2>2 DEF Differ
    <3> QED BY <3>1, DifferLess
  <2>3. CASE Len(t) < Len(s)
    <3>1. Differ(t, s, Len(t))
      BY <1>0, <2>1, <2>3 DEF Differ
    <3> QED BY <3>1, DifferLess
  <2>4. CASE Len(s) = Len(t)
    <3>1. \A i \in 1..Len(s) : s[i] = t[i]
      BY <1>0, <2>1, <2>4
    <3> QED BY <2>4, <3>1, SeqEqual
  <2> QED BY <1>0, <2>2, <2>3, <2>4
<1>2. CASE D # {}
  <2>1. PICK i \in D : \A other \in D : i <= other
    <3>1. D \subseteq Nat
      OBVIOUS
    <3> HIDE DEF D
    <3> QED BY <1>2, <3>1, LeastNumber
  <2>2. PICK k \in Nat : k + 1 = i
    <3>1. i - 1 \in Nat /\ (i - 1) + 1 = i
      OBVIOUS
    <3> QED BY <3>1
  <2>3. k < Len(s) /\ k < Len(t) /\ s[k + 1] # t[k + 1]
    BY <1>0, <2>2
  <2>4. \A j \in 1..k : s[j] = t[j]
    <3> SUFFICES ASSUME NEW j \in 1..k, s[j] # t[j] PROVE FALSE
      OBVIOUS
    <3>0. j \in Nat /\ j \in 1..Len(s) /\ j \in 1..Len(t)
      <4>1. k < Len(s) /\ k < Len(t) /\ Len(s) \in Nat /\ Len(t) \in Nat
        BY <1>0, <2>3
      <4> QED BY <4>1, SMTT(30)
    <3>1. j \in D
      BY <3>0, Zenon
    <3> QED BY <2>1, <2>2, <3>1
  <2>5. s[k + 1] < t[k + 1] \/ t[k + 1] < s[k + 1]
    BY <1>0, <2>3, SMTT(30)
  <2>6. Differ(s, t, k) \/ Differ(t, s, k)
    BY <1>0, <2>3, <2>4, <2>5, SMTT(30) DEF Differ
  <2> QED BY <2>6, DifferLess
<1> QED BY <1>1, <1>2

\* The text begins with the id and a colon.
Starts(text, id) ==
    /\ text \in Seq(Nat) /\ Len(id) < Len(text)
    /\ \A i \in 1..Len(id) : text[i] = id[i]
    /\ text[Len(id) + 1] = Colon

\* Texts that begin with two ids without colons differ by the end of both.
LEMMA DifferEarly ==
    ASSUME NEW x, NEW y, Id(x), Id(y), x # y, NEW s, NEW t, Starts(s, x), Starts(t, y),
           NEW k, Differ(s, t, k)
    PROVE  k <= Len(x) /\ k <= Len(y)
<1>0. PICK a \in Nat, b \in Nat : a = Len(x) /\ b = Len(y)
  BY DEF Id
<1>1. /\ \A i \in 1..a : s[i] = x[i] /\ x[i] # Colon
      /\ \A i \in 1..b : t[i] = y[i] /\ y[i] # Colon
      /\ s[a + 1] = Colon /\ t[b + 1] = Colon
  BY <1>0 DEF Starts, Id
<1>2. k \in Nat /\ \A j \in 1..k : s[j] = t[j]
  BY DEF Differ
<1>3. ASSUME a < k PROVE b < k
  <2> SUFFICES ASSUME ~(b < k) PROVE FALSE
    OBVIOUS
  <2>1. a + 1 \in 1..k /\ a + 1 \in 1..b
    BY <1>2, <1>3
  <2> QED BY <1>1, <1>2, <2>1
<1>4. ASSUME b < k PROVE a < k
  <2> SUFFICES ASSUME ~(a < k) PROVE FALSE
    OBVIOUS
  <2>1. b + 1 \in 1..k /\ b + 1 \in 1..a
    BY <1>2, <1>4
  <2> QED BY <1>1, <1>2, <2>1
<1>5. ASSUME a < k, b < k PROVE FALSE
  <2>1. ~(a < b)
    <3> SUFFICES ASSUME a < b PROVE FALSE
      OBVIOUS
    <3>1. a + 1 \in 1..k /\ a + 1 \in 1..b
      BY <1>2, <1>5
    <3> QED BY <1>1, <1>2, <3>1
  <2>2. ~(b < a)
    <3> SUFFICES ASSUME b < a PROVE FALSE
      OBVIOUS
    <3>1. b + 1 \in 1..k /\ b + 1 \in 1..a
      BY <1>2, <1>5
    <3> QED BY <1>1, <1>2, <3>1
  <2>3. a = b
    BY <2>1, <2>2
  <2>4. ASSUME NEW i \in 1..a PROVE x[i] = y[i]
    <3>1. i \in 1..k /\ i \in 1..b
      BY <1>2, <1>5, <2>3
    <3> QED BY <1>1, <1>2, <3>1
  <2>5. x = y
    <3>1. x \in Seq(Nat) /\ y \in Seq(Nat) /\ Len(x) = Len(y)
      BY <1>0, <2>3 DEF Id
    <3> QED BY <1>0, <2>4, <3>1, SeqEqual
  <2> QED BY <2>5
<1>6. ~(a < k) /\ ~(b < k)
  BY <1>3, <1>4, <1>5
<1>7. k <= a /\ k <= b
  BY <1>2, <1>6
<1> QED BY <1>0, <1>7

\* Such texts are in the order of the ids, each with its colon.
LEMMA OrderOfIds ==
    ASSUME NEW x, NEW y, Id(x), Id(y), x # y, NEW s, NEW t, Starts(s, x), Starts(t, y), Less(s, t)
    PROVE  Less(Append(x, Colon), Append(y, Colon))
<1>0. s \in Seq(Nat) /\ t \in Seq(Nat) /\ x \in Seq(Nat) /\ y \in Seq(Nat) /\ Colon \in Nat
  BY DEF Starts, Id, Colon
<1>1. PICK k \in Nat : Differ(s, t, k)
  BY <1>0, LessDiffer
<1>2. k <= Len(x) /\ k <= Len(y)
  BY <1>1, DifferEarly
<1>3. PICK p \in Seq(Nat), q \in Seq(Nat) : p = Append(x, Colon) /\ q = Append(y, Colon)
  BY <1>0, AppendProperties
<1>4. PICK a \in Nat, b \in Nat : a = Len(x) /\ b = Len(y)
  BY <1>0
<1>5. /\ Len(p) = a + 1 /\ Len(q) = b + 1
      /\ \A i \in 1..(a + 1) : p[i] = s[i]
      /\ \A i \in 1..(b + 1) : q[i] = t[i]
  <2>1. /\ Len(p) = Len(x) + 1 /\ p[Len(x) + 1] = Colon /\ \A i \in 1..Len(x) : p[i] = x[i]
        /\ Len(q) = Len(y) + 1 /\ q[Len(y) + 1] = Colon /\ \A i \in 1..Len(y) : q[i] = y[i]
    BY <1>0, <1>3, AppendProperties
  <2>2. /\ s[Len(x) + 1] = Colon /\ \A i \in 1..Len(x) : s[i] = x[i]
        /\ t[Len(y) + 1] = Colon /\ \A i \in 1..Len(y) : t[i] = y[i]
    BY DEF Starts
  <2>3. /\ \A i \in 1..(a + 1) : i \in 1..a \/ i = a + 1
        /\ \A i \in 1..(b + 1) : i \in 1..b \/ i = b + 1
    OBVIOUS
  <2>4. Len(p) = a + 1 /\ Len(q) = b + 1
    BY <1>4, <2>1, Zenon
  <2>5. \A i \in 1..(a + 1) : p[i] = s[i]
    BY <1>4, <2>1, <2>2, <2>3, Zenon
  <2>6. \A i \in 1..(b + 1) : q[i] = t[i]
    BY <1>4, <2>1, <2>2, <2>3, Zenon
  <2> QED BY <2>4, <2>5, <2>6
<1>6. k <= a /\ k <= b /\ k < Len(s) /\ s[k + 1] < t[k + 1] /\ \A j \in 1..k : s[j] = t[j]
  <2>1. a < Len(s) /\ Len(s) \in Nat
    BY <1>0, <1>4 DEF Starts
  <2>2. k <= a /\ k <= b
    BY <1>2, <1>4
  <2>3. k < Len(s)
    BY <2>1, <2>2
  <2> QED BY <1>1, <2>2, <2>3 DEF Differ
<1>7. p[k + 1] < q[k + 1] /\ \A j \in 1..k : p[j] = q[j]
  <2>1. k + 1 \in 1..(a + 1) /\ k + 1 \in 1..(b + 1)
    BY <1>6
  <2>2. \A j \in 1..k : j \in 1..(a + 1) /\ j \in 1..(b + 1)
    BY <1>6
  <2> QED BY <1>5, <1>6, <2>1, <2>2, Zenon
<1>8. k <= a + 1 /\ k < b + 1
  BY <1>6
<1>9. Differ(p, q, k)
  BY <1>5, <1>7, <1>8, Zenon DEF Differ
<1> QED BY <1>3, <1>9, DifferLess
-----------------------------------------------------------------------------
(* The ranks of players *)

\* Ranks are numbers in the order of the ids.
LEMMA RankOrder ==
    ASSUME NEW x \in PlayerIDs, NEW y \in PlayerIDs, Less(Append(x, Colon), Append(y, Colon))
    PROVE  Rank(x) \in Nat /\ Rank(y) \in Nat /\ Rank(x) < Rank(y)
<1> DEFINE Lower(z) == {o \in PlayerIDs : Less(Append(o, Colon), Append(z, Colon))}
<1>1. \A z \in PlayerIDs : Append(z, Colon) \in Seq(Nat)
  <2> SUFFICES ASSUME NEW z \in PlayerIDs PROVE Append(z, Colon) \in Seq(Nat)
    OBVIOUS
  <2>1. z \in Seq(Byte) /\ Byte \subseteq Nat
    BY MemberAssumption DEF Byte
  <2>2. z \in Seq(Nat) /\ Colon \in Nat
    BY <2>1, SeqMonotonic, Zenon DEF Colon
  <2> QED BY <2>2, AppendProperties
<1>2. IsFiniteSet(PlayerIDs)
  BY MemberAssumption
<1>3. Lower(x) \subseteq Lower(y)
  BY <1>1, LessTransitive
<1>4. x \in Lower(y) /\ x \notin Lower(x)
  BY <1>1, LessStrict
<1>5. Lower(y) \in SUBSET PlayerIDs /\ Lower(x) \in SUBSET PlayerIDs
  OBVIOUS
<1>6. Rank(x) = Cardinality(Lower(x)) /\ Rank(y) = Cardinality(Lower(y))
  BY DEF Rank
<1> HIDE DEF Lower
<1>7. IsFiniteSet(Lower(y)) /\ IsFiniteSet(Lower(x))
  BY <1>2, <1>5, FS_Subset
<1>8. Cardinality(Lower(x)) \in Nat /\ Cardinality(Lower(y)) \in Nat
  BY <1>7, FS_CardinalityType
<1>9. /\ Cardinality(Lower(x)) <= Cardinality(Lower(y))
      /\ Cardinality(Lower(y)) = Cardinality(Lower(x)) => Lower(y) = Lower(x)
  BY <1>3, <1>7, FS_Subset
<1>10. Lower(x) # Lower(y)
  BY <1>4
<1> QED BY <1>6, <1>8, <1>9, <1>10

\* No two players have the same rank.
LEMMA RankDiffers ==
    ASSUME NEW x \in PlayerIDs, NEW y \in PlayerIDs, x # y
    PROVE  Rank(x) # Rank(y)
<1>1. x \in Seq(Nat) /\ y \in Seq(Nat) /\ Colon \in Nat
  <2>1. x \in Seq(Byte) /\ y \in Seq(Byte) /\ Byte \subseteq Nat
    BY MemberAssumption DEF Byte
  <2> QED BY <2>1, SeqMonotonic, Zenon DEF Colon
<1>2. PICK p \in Seq(Nat), q \in Seq(Nat) : p = Append(x, Colon) /\ q = Append(y, Colon)
  BY <1>1, AppendProperties
<1>3. p # q
  <2>1. /\ Len(p) = Len(x) + 1 /\ \A i \in 1..Len(x) : p[i] = x[i]
        /\ Len(q) = Len(y) + 1 /\ \A i \in 1..Len(y) : q[i] = y[i]
    BY <1>1, <1>2, AppendProperties
  <2> SUFFICES ASSUME p = q PROVE FALSE
    OBVIOUS
  <2>2. Len(x) = Len(y)
    BY <1>1, <2>1
  <2>3. \A i \in 1..Len(x) : x[i] = y[i]
    BY <2>1, <2>2, Zenon
  <2> QED BY <1>1, <2>2, <2>3, SeqEqual
<1>4. CASE Less(p, q)
  BY <1>2, <1>4, RankOrder
<1>5. CASE Less(q, p)
  BY <1>2, <1>5, RankOrder
<1> QED BY <1>3, <1>4, <1>5, LessTotal
-----------------------------------------------------------------------------
(* The members as the queue of RedisQueue *)

QueueOf(ms) == {Abstract(m.of, m.score) : m \in ms}

\* Members of different players are entries of different players.
LEMMA PlayerOf ==
    ASSUME NEW m, Written(m), NEW id \in PlayerIDs
    PROVE  Abstract(m.of, m.score).player = Rank(id) <=> m.of.playerID = id
<1>1. m.of.playerID \in PlayerIDs
  BY Known, EntryIs
<1> QED BY <1>1, RankDiffers DEF Abstract

\* Removing a player's members removes his entries.
LEMMA RemovedAgrees ==
    ASSUME NEW ms, \A m \in ms : Written(m), NEW id \in PlayerIDs
    PROVE  QueueOf(removePlayerEntries(ms, id)) = {e \in QueueOf(ms) : e.player # Rank(id)}
<1>1. removePlayerEntries(ms, id) = {m \in ms : m.of.playerID # id}
  BY Removed
<1>2. \A m \in ms : Abstract(m.of, m.score).player # Rank(id) <=> m.of.playerID # id
  BY PlayerOf
<1> QED BY <1>1, <1>2, Zenon DEF QueueOf

\* Put does to the entries what Put of RedisQueue does.
LEMMA PutAgrees ==
    ASSUME NEW ms, \A m \in ms : Written(m), NEW e, NEW score, Writable(e, score)
    PROVE  QueueOf(Put(ms, e.playerID, Member(e, score))) =
             {d \in QueueOf(ms) : d.player # Abstract(e, score).player} \cup {Abstract(e, score)}
<1>1. PICK w : w = Member(e, score) /\ w.of = e /\ w.score = score
  BY WrittenIs
<1>2. e.playerID \in PlayerIDs
  BY EntryIs DEF Writable
<1>3. PICK rest : rest = {m \in ms : m.of.playerID # e.playerID}
  OBVIOUS
<1>4. Put(ms, e.playerID, Member(e, score)) = rest \cup {w}
  BY <1>1, <1>3, PutIs, SMTT(30)
<1>5. removePlayerEntries(ms, e.playerID) = rest
  BY <1>3, Removed
<1>6. QueueOf(rest) = {d \in QueueOf(ms) : d.player # Rank(e.playerID)}
  BY <1>2, <1>5, RemovedAgrees
<1>7. Abstract(e, score).player = Rank(e.playerID)
  BY DEF Abstract
<1>8. QueueOf(rest \cup {w}) = QueueOf(rest) \cup {Abstract(e, score)}
  BY <1>1 DEF QueueOf
<1> QED BY <1>4, <1>6, <1>7, <1>8

\* Members are in the order of their entries.
LEMMA BeforeAgrees ==
    ASSUME MemberInv, NEW m \in members, NEW n \in members, Before(m, n)
    PROVE  Queue!Before(Abstract(m.of, m.score), Abstract(n.of, n.score))
<1>1. PICK x, y : x = m.of.playerID /\ y = n.of.playerID /\ x # y
  BY BeforeIsStrict
<1>2. /\ m.of \in Entry /\ validateMemberPlayerID(x) /\ m.text = encodeMember(m.of)
      /\ n.of \in Entry /\ validateMemberPlayerID(y) /\ n.text = encodeMember(n.of)
  BY <1>1, Known DEF MemberInv, WellKept, Written, Writable
<1>3. x \in PlayerIDs /\ y \in PlayerIDs
  BY <1>1, <1>2, EntryIs
<1>4. ASSUME NEW o, o.of \in Entry, validateMemberPlayerID(o.of.playerID), o.text = encodeMember(o.of)
      PROVE  Id(o.of.playerID) /\ Starts(o.text, o.of.playerID)
  <2>1. PICK b \in Seq(Nat) : Has(o.text, o.of.playerID, o.of.deckID, o.of.level, b)
    BY <1>4, Taken
  <2>2. Id(o.of.playerID)
    BY <1>4, Taken
  <2>3. Len(o.of.playerID) \in Nat /\ Len(b) \in Nat
    BY <2>2 DEF Id
  <2>4. /\ o.text \in Seq(Nat) /\ Len(o.text) = Len(o.of.playerID) + 5 + Len(b)
        /\ \A i \in 1..Len(o.of.playerID) : o.text[i] = o.of.playerID[i]
        /\ o.text[Len(o.of.playerID) + 1] = Colon
    BY <2>1 DEF Has
  <2>5. Len(o.of.playerID) < Len(o.text)
    BY <2>3, <2>4
  <2> QED BY <2>2, <2>4, <2>5 DEF Starts
<1>5. Id(x) /\ Id(y) /\ Starts(m.text, x) /\ Starts(n.text, y)
  BY <1>1, <1>2, <1>4
<1>6. CASE m.score < n.score
  BY <1>6 DEF Queue!Before, Abstract
<1>7. CASE m.score = n.score /\ Less(m.text, n.text)
  <2>1. Less(Append(x, Colon), Append(y, Colon))
    BY <1>1, <1>5, <1>7, OrderOfIds
  <2>2. Rank(x) < Rank(y)
    BY <1>3, <2>1, RankOrder
  <2> QED BY <1>1, <1>7, <2>2 DEF Queue!Before, Abstract
<1> QED BY <1>6, <1>7 DEF Before

\* Every operation on texts does to the queue what RedisQueue says.
LEMMA StepAgrees ==
    ASSUME MemberInv
    PROVE  /\ \A e \in Entry, g \in Gateways, t \in Times :
                Enqueue(e, g, t) => Queue!enqueueLua(Abstract(e, t), g)
           /\ \A id \in PlayerIDs : Cancel(id) => Queue!cancelLua(Rank(id))
           /\ \A m, n \in members :
                PopPair(m, n) => Queue!popPairLua(Abstract(m.of, m.score), Abstract(n.of, n.score))
           /\ Reenqueue => Queue!reenqueueLua(held.from,
                                Abstract(held.pair[1].of, held.pair[1].score),
                                Abstract(held.pair[2].of, held.pair[2].score))
<1>0. WellKept(members) /\ \A m \in members : Written(m)
  BY DEF MemberInv, WellKept
<1>1. ASSUME NEW e \in Entry, NEW g \in Gateways, NEW t \in Times, Enqueue(e, g, t)
      PROVE  Queue!enqueueLua(Abstract(e, t), g)
  <2>1. PICK ms : ms = IF instanceID = g THEN members ELSE {}
    OBVIOUS
  <2>2. Writable(e, t) /\ members' = Put(ms, e.playerID, Member(e, t)) /\ instanceID' = g
    BY <1>1, <2>1 DEF Enqueue, Writable
  <2>3. \A m \in ms : Written(m)
    BY <1>0, <2>1
  <2>4. QueueOf(members') =
          {d \in QueueOf(ms) : d.player # Abstract(e, t).player} \cup {Abstract(e, t)}
    BY <2>2, <2>3, PutAgrees
  <2>5. QueueOf(ms) = IF instanceID = g THEN QueueOf(members) ELSE {}
    BY <2>1 DEF QueueOf
  <2> QED BY <2>2, <2>4, <2>5
          DEF QueueOf, Queue!enqueueLua, Queue!Put, Queue!removePlayerEntries, Queue!Kept
<1>2. ASSUME NEW id \in PlayerIDs, Cancel(id) PROVE Queue!cancelLua(Rank(id))
  <2>1. members' = removePlayerEntries(members, id) /\ instanceID' = instanceID
    BY <1>2 DEF Cancel
  <2>2. QueueOf(members') = {e \in QueueOf(members) : e.player # Rank(id)}
    BY <1>0, <2>1, RemovedAgrees
  <2> QED BY <2>1, <2>2 DEF QueueOf, Queue!cancelLua, Queue!removePlayerEntries
<1>3. ASSUME NEW m \in members, NEW n \in members, PopPair(m, n)
      PROVE  Queue!popPairLua(Abstract(m.of, m.score), Abstract(n.of, n.score))
  <2>1. /\ Before(m, n) /\ \A o \in members \ {m, n} : Before(n, o)
        /\ members' = members \ {m, n} /\ instanceID' = instanceID
    BY <1>3 DEF PopPair
  <2>2. PICK a, b : a = Abstract(m.of, m.score) /\ b = Abstract(n.of, n.score)
    OBVIOUS
  <2>3. a \in QueueOf(members) /\ b \in QueueOf(members)
    BY <2>2 DEF QueueOf
  <2>4. Queue!Before(a, b)
    BY <2>1, <2>2, BeforeAgrees
  <2>5. ASSUME NEW e \in QueueOf(members) \ {a, b} PROVE Queue!Before(b, e)
    <3>1. PICK o \in members : e = Abstract(o.of, o.score)
      BY DEF QueueOf
    <3>2. o \in members \ {m, n}
      BY <2>2, <2>5, <3>1
    <3> QED BY <2>1, <2>2, <3>1, <3>2, BeforeAgrees
  <2>6. ASSUME NEW o \in members, NEW p \in members, Abstract(o.of, o.score) = Abstract(p.of, p.score)
        PROVE  o = p
    <3>1. p.of.playerID \in PlayerIDs
      BY <1>0, Known, EntryIs
    <3>2. Abstract(o.of, o.score).player = Rank(p.of.playerID)
      BY <2>6 DEF Abstract
    <3>3. o.of.playerID = p.of.playerID
      BY <1>0, <3>1, <3>2, PlayerOf
    <3> QED BY <1>0, <3>3 DEF WellKept
  <2>7. QueueOf(members') = QueueOf(members) \ {a, b}
    <3>1. \A o \in members : o \in {m, n} <=> Abstract(o.of, o.score) \in {a, b}
      BY <2>2, <2>6, Zenon
    <3> QED BY <2>1, <3>1, Zenon DEF QueueOf
  <2> QED BY <2>1, <2>2, <2>3, <2>4, <2>5, <2>7 DEF QueueOf, Queue!popPairLua, Queue!PopMin2
<1>4. ASSUME Reenqueue
      PROVE  Queue!reenqueueLua(held.from, Abstract(held.pair[1].of, held.pair[1].score),
                                           Abstract(held.pair[2].of, held.pair[2].score))
  <2>1. PICK a, b : /\ a = held.pair[1] /\ b = held.pair[2]
                    /\ Writable(a.of, a.score) /\ Writable(b.of, b.score)
    BY <1>4 DEF Reenqueue, MemberInv, HeldPair
  <2>2. PICK once : once = Put(members, a.of.playerID, Member(a.of, a.score))
    OBVIOUS
  <2>3. PICK twice : twice = Put(once, b.of.playerID, Member(b.of, b.score))
    OBVIOUS
  <2>4. /\ members' = IF instanceID = held.from THEN twice ELSE members
        /\ instanceID' = instanceID
    BY <1>4, <2>1, <2>2, <2>3 DEF Reenqueue
  <2>5. \A x \in once : Written(x)
    <3>1. WellKept(once)
      BY <1>0, <2>1, <2>2, PutKeeps
    <3> QED BY <3>1 DEF WellKept
  <2>6. PICK c, d : c = Abstract(a.of, a.score) /\ d = Abstract(b.of, b.score)
    OBVIOUS
  <2>7. QueueOf(once) = {x \in QueueOf(members) : x.player # c.player} \cup {c}
    <3>1. PICK e, t : e = a.of /\ t = a.score
      OBVIOUS
    <3>2. Writable(e, t) /\ once = Put(members, e.playerID, Member(e, t)) /\ c = Abstract(e, t)
      BY <2>1, <2>2, <2>6, <3>1
    <3>3. QueueOf(Put(members, e.playerID, Member(e, t))) =
            {x \in QueueOf(members) : x.player # Abstract(e, t).player} \cup {Abstract(e, t)}
      BY <1>0, <3>2, PutAgrees
    <3> QED BY <3>2, <3>3, Zenon
  <2>8. QueueOf(twice) = {x \in QueueOf(once) : x.player # d.player} \cup {d}
    <3>1. PICK e, t : e = b.of /\ t = b.score
      OBVIOUS
    <3>2. Writable(e, t) /\ twice = Put(once, e.playerID, Member(e, t)) /\ d = Abstract(e, t)
      BY <2>1, <2>3, <2>6, <3>1
    <3>3. QueueOf(Put(once, e.playerID, Member(e, t))) =
            {x \in QueueOf(once) : x.player # Abstract(e, t).player} \cup {Abstract(e, t)}
      BY <2>5, <3>2, PutAgrees, ZenonT(30)
    <3> QED BY <3>2, <3>3, Zenon
  <2>9. QueueOf(members') = IF instanceID = held.from THEN QueueOf(twice) ELSE QueueOf(members)
    BY <2>4
  <2> QED BY <2>1, <2>4, <2>6, <2>7, <2>8, <2>9
          DEF QueueOf, Queue!reenqueueLua, Queue!IsExpected, Queue!Put, Queue!removePlayerEntries
<1> QED BY <1>1, <1>2, <1>3, <1>4

\* The scripts on texts do to the queue what RedisQueue says of them, for every
\* finite set of player ids, ids that begin one another included, and every
\* name: the matcher's model may forget that members are texts.
THEOREM TextsImplementQueue == MemberSpec => ScriptsAgree
<1> DEFINE Agree ==
        /\ \A e \in Entry, g \in Gateways, t \in Times :
             Enqueue(e, g, t) => Queue!enqueueLua(Abstract(e, t), g)
        /\ \A id \in PlayerIDs : Cancel(id) => Queue!cancelLua(Rank(id))
        /\ \A m, n \in members :
             PopPair(m, n) => Queue!popPairLua(Abstract(m.of, m.score), Abstract(n.of, n.score))
        /\ Reenqueue => Queue!reenqueueLua(held.from,
                             Abstract(held.pair[1].of, held.pair[1].score),
                             Abstract(held.pair[2].of, held.pair[2].score))
<1>1. MemberInv => Agree
  BY StepAgrees, Zenon
<1> QED BY <1>1, MemberInvariance, PTL DEF MemberSpec, ScriptsAgree
=============================================================================
