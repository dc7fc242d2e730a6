---------------------------- MODULE CtxExpandProofs ----------------------------
(***************************************************************************)
(* Proofs about the scanner of CtxExpand, for every alphabet, every map of *)
(* variables and every input: its types, that an expansion that succeeds   *)
(* has met no directive it cannot resolve, and that what it writes is what *)
(* the text says.                                                          *)
(*                                                                         *)
(* The properties speak of characters and the scanner walks over bytes.    *)
(* The first part relates the two: At(s, p) is the byte where the          *)
(* character at p begins.  The second is about directives, the third about *)
(* the function MeaningFrom, which must be shown to exist.  IInv follows   *)
(* the scanner with the character it stands at.                            *)
(***************************************************************************)
EXTENDS CtxExpand, SequenceLemmas

Byte == Char \cup {Lead, Trail}

\* The byte where the character at p begins; one past the bytes for the place
\* past the characters.
At(s, p) == Len(Bytes(SubSeq(s, 1, p - 1))) + 1

(* Bytes and characters. *)

LEMMA EncodedType ==
  ASSUME NEW c \in Char
  PROVE  /\ Encoded(c) \in Seq(Byte)
         /\ Len(Encoded(c)) = IF c = Wide THEN 2 ELSE 1
         /\ Encoded(c)[1] = IF c = Wide THEN Lead ELSE c
         /\ c = Wide => Encoded(c)[2] = Trail
PROOF
<1>0. c \in Byte /\ Lead \in Byte /\ Trail \in Byte
  BY DEF Byte
<1> HIDE DEF Byte
<1>1. CASE c = Wide
  BY <1>0, <1>1 DEF Encoded
<1>2. CASE c # Wide
  BY <1>0, <1>2 DEF Encoded
<1> QED
  BY <1>1, <1>2

LEMMA BytesType ==
  ASSUME NEW s \in Seq(Char)
  PROVE  /\ Bytes(s) \in Seq(Byte)
         /\ [k \in DOMAIN s |-> Encoded(s[k])] \in Seq(Seq(Byte))
PROOF
<1> DEFINE ss == [k \in DOMAIN s |-> Encoded(s[k])]
<1>1. DOMAIN s = 1 .. Len(s) /\ Len(s) \in Nat /\ \A k \in DOMAIN s : s[k] \in Char
  BY SequenceIs
<1>2. \A k \in DOMAIN s : Encoded(s[k]) \in Seq(Byte)
  BY <1>1, EncodedType
<1>3. ss \in Seq(Seq(Byte))
  BY <1>1, <1>2
<1> QED
  BY <1>3, FlattenType DEF Bytes

\* The bytes of a concatenation are those of its parts.
LEMMA BytesConcat ==
  ASSUME NEW s \in Seq(Char), NEW t \in Seq(Char)
  PROVE  Bytes(s \o t) = Bytes(s) \o Bytes(t)
PROOF
<1> DEFINE of(r) == [k \in DOMAIN r |-> Encoded(r[k])]
<1>1. /\ s \o t \in Seq(Char) /\ Len(s) \in Nat /\ Len(t) \in Nat
      /\ DOMAIN s = 1 .. Len(s) /\ DOMAIN t = 1 .. Len(t)
      /\ DOMAIN (s \o t) = 1 .. Len(s) + Len(t)
      /\ \A k \in 1 .. Len(s) : (s \o t)[k] = s[k]
      /\ \A k \in 1 .. Len(t) : (s \o t)[Len(s) + k] = t[k]
  OBVIOUS
<1>2. of(s) \in Seq(Seq(Byte)) /\ of(t) \in Seq(Seq(Byte)) /\ of(s \o t) \in Seq(Seq(Byte))
  BY <1>1, BytesType
<1>3. Len(of(s)) = Len(s) /\ Len(of(t)) = Len(t) /\ Len(of(s \o t)) = Len(s) + Len(t)
  BY <1>1, SequenceMade
<1>4. of(s \o t) = of(s) \o of(t)
  <2> DEFINE st == s \o t
  <2>1. IsSequence(of(s)) /\ IsSequence(of(t)) /\ IsSequence(of(st))
    BY <1>2, SequenceIs
  <2>2. \A k \in 1 .. Len(s) : of(st)[k] = of(s)[k]
    BY <1>1
  <2>3. \A k \in 1 .. Len(t) : of(st)[Len(s) + k] = of(t)[k]
    BY <1>1
  <2> HIDE DEF of
  <2>4. ReadsLike(of(st), of(s), of(t))
    BY <1>3, <2>2, <2>3 DEF ReadsLike
  <2> QED BY <2>1, <2>4, SequenceParts
<1> HIDE DEF of
<1>5. FlattenSeq(of(s \o t)) = FlattenSeq(of(s)) \o FlattenSeq(of(t))
  BY <1>2, <1>4, FlattenConcatSeq
<1> QED
  BY <1>5 DEF Bytes, of

LEMMA BytesShort ==
  /\ Bytes(<<>>) = <<>>
  /\ \A c : Bytes(<<c>>) = Encoded(c)
PROOF
<1>1. Bytes(<<>>) = <<>>
  BY DEF Bytes, FlattenSeq
<1>2. ASSUME NEW c PROVE Bytes(<<c>>) = Encoded(c)
  <2>1. [k \in DOMAIN <<c>> |-> Encoded(<<c>>[k])] = <<Encoded(c)>>
    OBVIOUS
  <2> QED BY <2>1, FlattenOne DEF Bytes
<1> QED
  BY <1>1, <1>2

\* Between the places p and q of the text lie the bytes of the characters
\* between them.
LEMMA BytesCut ==
  ASSUME NEW s \in Seq(Char), NEW p \in 1 .. Len(s) + 1, NEW q \in p .. Len(s) + 1
  PROVE  /\ SubSeq(s, p, q - 1) \in Seq(Char)
         /\ At(s, p) \in Nat /\ At(s, p) >= 1
         /\ At(s, q) = At(s, p) + Len(Bytes(SubSeq(s, p, q - 1)))
         /\ At(s, q) <= Len(Bytes(s)) + 1
         /\ SubSeq(Bytes(s), At(s, p), At(s, q) - 1) = Bytes(SubSeq(s, p, q - 1))
PROOF
<1> DEFINE a == SubSeq(s, 1, p - 1)
           b == SubSeq(s, p, q - 1)
           z == SubSeq(s, q, Len(s))
           A == Bytes(a)
           B == Bytes(b)
           Z == Bytes(z)
<1>1. a \in Seq(Char) /\ b \in Seq(Char) /\ z \in Seq(Char)
  OBVIOUS
<1>2. Len(s) \in Nat /\ p - 1 \in 0 .. Len(s) /\ q - 1 \in p - 1 .. Len(s)
  OBVIOUS
<1>3. a \o b = SubSeq(s, 1, q - 1)
  <2>1. SubSeq(s, 1, p - 1) \o SubSeq(s, (p - 1) + 1, q - 1) = SubSeq(s, 1, q - 1)
    BY <1>2, ConcatAdjacentSubSeq
  <2> QED BY <2>1
<1>4. SubSeq(s, 1, q - 1) \o z = s
  <2>0. 1 \in 1 .. Len(s) + 1 /\ q - 1 \in 1 - 1 .. Len(s) /\ Len(s) \in q - 1 .. Len(s)
    BY <1>2
  <2>1. SubSeq(s, 1, q - 1) \o SubSeq(s, (q - 1) + 1, Len(s)) = SubSeq(s, 1, Len(s))
    BY <2>0, ConcatAdjacentSubSeq
  <2>2. SubSeq(s, 1, Len(s)) = s
    BY SubSeqFull
  <2>3. (q - 1) + 1 = q
    OBVIOUS
  <2> QED BY <2>1, <2>2, <2>3
<1> HIDE DEF a, b, z
<1>5. Bytes(a \o b) = A \o B /\ Bytes((a \o b) \o z) = (A \o B) \o Z
  <2>1. a \o b \in Seq(Char)
    BY <1>1
  <2> QED BY <1>1, <2>1, BytesConcat
<1>6. A \in Seq(Byte) /\ B \in Seq(Byte) /\ Z \in Seq(Byte)
  BY <1>1, BytesType
<1>7. Bytes(s) = (A \o B) \o Z
  BY <1>3, <1>4, <1>5
<1>8. At(s, p) = Len(A) + 1 /\ At(s, q) = Len(A \o B) + 1
  BY <1>3, <1>5 DEF At, a
<1> HIDE DEF A, B, Z
<1>9. Len(A) \in Nat /\ Len(B) \in Nat /\ Len(Z) \in Nat
  BY <1>6
<1>10. Len(A \o B) = Len(A) + Len(B) /\ Len((A \o B) \o Z) = Len(A) + Len(B) + Len(Z)
  BY <1>6
<1>11. SubSeq((A \o B) \o Z, Len(A) + 1, Len(A) + Len(B)) = B
  <2> DEFINE C == SubSeq((A \o B) \o Z, Len(A) + 1, Len(A) + Len(B))
  <2>1. C \in Seq(Byte) /\ Len(C) = Len(B)
    BY <1>6, <1>9, <1>10
  <2>2. ASSUME NEW k \in 1 .. Len(C) PROVE C[k] = B[k]
    <3>1. /\ C[k] = ((A \o B) \o Z)[Len(A) + k]
          /\ ((A \o B) \o Z)[Len(A) + k] = (A \o B)[Len(A) + k]
          /\ (A \o B)[Len(A) + k] = B[k]
      BY <1>6, <1>9, <1>10, <2>1
    <3> QED BY <3>1
  <2> HIDE DEF C
  <2>3. C = B
    BY <1>6, <2>1, <2>2, SeqEqual
  <2> QED BY <2>3 DEF C
<1>12. B = Bytes(SubSeq(s, p, q - 1)) /\ SubSeq(s, p, q - 1) \in Seq(Char)
  BY <1>1 DEF b, B
<1>13. /\ At(s, p) \in Nat /\ At(s, p) >= 1
       /\ At(s, q) = At(s, p) + Len(B)
       /\ At(s, q) <= Len(Bytes(s)) + 1
       /\ At(s, q) - 1 = Len(A) + Len(B)
  BY <1>7, <1>8, <1>9, <1>10
<1>14. SubSeq(Bytes(s), At(s, p), At(s, q) - 1) = B
  BY <1>7, <1>8, <1>11, <1>13
<1> QED
  BY <1>12, <1>13, <1>14

\* The bytes begin at one and end with those of the last character.
LEMMA AtEnds ==
  ASSUME NEW s \in Seq(Char)
  PROVE  /\ At(s, 1) = 1
         /\ At(s, Len(s) + 1) = Len(Bytes(s)) + 1
         /\ Len(Bytes(s)) \in Nat
PROOF
<1>1. SubSeq(s, 1, 1 - 1) = <<>> /\ SubSeq(s, 1, (Len(s) + 1) - 1) = s
  <2>1. Len(s) \in Nat /\ (Len(s) + 1) - 1 = Len(s) /\ 1 - 1 = 0
    OBVIOUS
  <2>2. SubSeq(s, 1, Len(s)) = s /\ SubSeq(s, 1, 0) = <<>>
    BY SubSeqFull, SubSeqEmpty
  <2> QED BY <2>1, <2>2
<1>2. Bytes(s) \in Seq(Byte)
  BY BytesType
<1>3. Len(Bytes(s)) \in Nat /\ Len(<<>>) = 0
  BY <1>2
<1>4. At(s, 1) = Len(Bytes(<<>>)) + 1 /\ At(s, Len(s) + 1) = Len(Bytes(s)) + 1
  BY <1>1 DEF At
<1>5. Bytes(<<>>) = <<>>
  BY BytesShort
<1> QED
  BY <1>3, <1>4, <1>5

\* The bytes of the character at p.
LEMMA AtChar ==
  ASSUME NEW s \in Seq(Char), NEW p \in 1 .. Len(s)
  PROVE  /\ s[p] \in Char
         /\ At(s, p) \in 1 .. Len(Bytes(s))
         /\ At(s, p + 1) = At(s, p) + (IF s[p] = Wide THEN 2 ELSE 1)
         /\ At(s, p + 1) <= Len(Bytes(s)) + 1
         /\ Bytes(s)[At(s, p)] = IF s[p] = Wide THEN Lead ELSE s[p]
         /\ s[p] = Wide => Bytes(s)[At(s, p) + 1] = Trail
PROOF
<1>1. p \in 1 .. Len(s) + 1 /\ p + 1 \in p .. Len(s) + 1 /\ (p + 1) - 1 = p
  OBVIOUS
<1>2. SubSeq(s, p, p) = <<s[p]>> /\ s[p] \in Char
  <2>1. s[p] \in Char /\ p \in 1 .. Len(s) /\ p \in p .. Len(s)
    OBVIOUS
  <2>2. SubSeq(s, p, p) = <<s[p]>> \o SubSeq(s, p + 1, p) /\ SubSeq(s, p + 1, p) = <<>>
    BY <2>1, SubSeqRecursiveFirst, SubSeqEmpty
  <2>3. <<s[p]>> \in Seq(Char)
    BY <2>1
  <2>4. <<s[p]>> \o <<>> = <<s[p]>>
    BY <2>3, ConcatEmptySeq
  <2> QED BY <2>1, <2>2, <2>4
<1> DEFINE a == At(s, p)
           b == Bytes(s)
           e == Encoded(s[p])
<1>3. /\ a \in Nat /\ a >= 1
      /\ At(s, p + 1) = a + Len(e)
      /\ At(s, p + 1) <= Len(b) + 1
      /\ SubSeq(b, a, At(s, p + 1) - 1) = e
  BY <1>1, <1>2, BytesCut, BytesShort
<1>4. /\ Len(e) = IF s[p] = Wide THEN 2 ELSE 1
      /\ e[1] = IF s[p] = Wide THEN Lead ELSE s[p]
      /\ s[p] = Wide => e[2] = Trail
  BY <1>2, EncodedType
<1>5. b \in Seq(Byte)
  BY BytesType
<1> HIDE DEF a, b, e
<1>6. \A k \in 1 .. Len(e) : b[a + k - 1] = e[k]
  <2>1. a + Len(e) - 1 <= Len(b) /\ Len(e) \in Nat
    BY <1>3, <1>4
  <2>2. \A k \in 1 .. Len(e) : SubSeq(b, a, a + Len(e) - 1)[k] = b[a + k - 1]
    BY <1>3, <1>5, <2>1
  <2> QED BY <1>3, <2>2
<1>7. /\ a + 1 - 1 = a /\ a + 2 - 1 = a + 1
      /\ 1 \in 1 .. Len(e) /\ (s[p] = Wide => 2 \in 1 .. Len(e))
  BY <1>3, <1>4
<1>8. b[a] = e[1] /\ (s[p] = Wide => b[a + 1] = e[2])
  BY <1>6, <1>7
<1>9. a \in 1 .. Len(b)
  BY <1>3, <1>4, <1>5
<1> QED
  BY <1>2, <1>3, <1>4, <1>8, <1>9 DEF a, b

\* A later character begins at a later byte.
LEMMA AtGrows ==
  ASSUME NEW s \in Seq(Char), NEW p \in 1 .. Len(s) + 1, NEW q \in 1 .. Len(s) + 1, p < q
  PROVE  At(s, p) < At(s, q)
PROOF
<1>1. p \in 1 .. Len(s) /\ p + 1 \in 1 .. Len(s) + 1 /\ q \in p + 1 .. Len(s) + 1
  OBVIOUS
<1>2. At(s, p + 1) > At(s, p) /\ At(s, p) \in Nat /\ At(s, p + 1) \in Nat
  BY <1>1, AtChar
<1>3. At(s, q) = At(s, p + 1) + Len(Bytes(SubSeq(s, p + 1, q - 1)))
      /\ SubSeq(s, p + 1, q - 1) \in Seq(Char)
  BY <1>1, BytesCut
<1>4. Len(Bytes(SubSeq(s, p + 1, q - 1))) \in Nat
  BY <1>3, AtEnds
<1> QED
  BY <1>2, <1>3, <1>4

\* Every byte is one of some character.
LEMMA ByteOfChar ==
  ASSUME NEW s \in Seq(Char), NEW k \in 1 .. Len(Bytes(s))
  PROVE  \E p \in 1 .. Len(s) : k = At(s, p) \/ (s[p] = Wide /\ k = At(s, p) + 1)
PROOF
<1> DEFINE Of(j, p) == j = At(s, p) \/ (s[p] = Wide /\ j = At(s, p) + 1)
           S == {n \in Nat : n <= Len(s) =>
                   \A j \in Nat : 1 <= j /\ j < At(s, n + 1) => \E p \in 1 .. n : Of(j, p)}
<1>1. 0 \in S
  <2>1. At(s, 0 + 1) = 1
    BY AtEnds
  <2> QED BY <2>1
<1>2. ASSUME NEW n \in Nat, n \in S PROVE n + 1 \in S
  <2>1. ASSUME n + 1 <= Len(s), NEW j \in Nat, 1 <= j, j < At(s, n + 2)
        PROVE  \E p \in 1 .. n + 1 : Of(j, p)
    <3>1. n + 1 \in 1 .. Len(s) /\ n <= Len(s) /\ (n + 1) + 1 = n + 2
      BY <2>1
    <3>2. /\ At(s, n + 2) = At(s, n + 1) + (IF s[n + 1] = Wide THEN 2 ELSE 1)
          /\ At(s, n + 1) \in Nat
      BY <3>1, AtChar
    <3>3. CASE j < At(s, n + 1)
      <4>1. \E p \in 1 .. n : Of(j, p)
        BY <1>2, <2>1, <3>1, <3>3
      <4> QED BY <4>1
    <3>4. CASE ~(j < At(s, n + 1))
      <4>1. j = At(s, n + 1) \/ (s[n + 1] = Wide /\ j = At(s, n + 1) + 1)
        BY <2>1, <3>2, <3>4
      <4>2. n + 1 \in 1 .. n + 1
        OBVIOUS
      <4> QED BY <4>1, <4>2
    <3> QED BY <3>3, <3>4
  <2>2. (n + 1) + 1 = n + 2 /\ n + 1 \in Nat
    OBVIOUS
  <2> HIDE DEF Of
  <2> QED BY <2>1, <2>2
<1>3. Len(s) \in Nat
  OBVIOUS
<1> HIDE DEF S
<1>4. Len(s) \in S
  BY <1>1, <1>2, <1>3, SetInduction
<1>5. k \in Nat /\ 1 <= k /\ k < At(s, Len(s) + 1)
  BY AtEnds
<1> HIDE DEF Of
<1>6. \E p \in 1 .. Len(s) : Of(k, p)
  BY <1>3, <1>4, <1>5 DEF S
<1> QED
  BY <1>6 DEF Of

\* A byte that is a character is that character.
LEMMA NarrowByte ==
  ASSUME NEW s \in Seq(Char), NEW k \in 1 .. Len(Bytes(s)), Bytes(s)[k] \in Char
  PROVE  \E p \in 1 .. Len(s) : k = At(s, p) /\ s[p] = Bytes(s)[k]
PROOF
<1>1. PICK p \in 1 .. Len(s) : k = At(s, p) \/ (s[p] = Wide /\ k = At(s, p) + 1)
  BY ByteOfChar
<1>2. Bytes(s)[k] # Lead /\ Bytes(s)[k] # Trail
  BY CharAssumption
<1>3. /\ Bytes(s)[At(s, p)] = IF s[p] = Wide THEN Lead ELSE s[p]
      /\ s[p] = Wide => Bytes(s)[At(s, p) + 1] = Trail
  BY AtChar
<1> QED
  BY <1>1, <1>2, <1>3

\* Texts of the same bytes are the same.
LEMMA BytesInjective ==
  ASSUME NEW s \in Seq(Char), NEW t \in Seq(Char), Bytes(s) = Bytes(t)
  PROVE  s = t
PROOF
<1> DEFINE S == {n \in Nat : n <= Len(s) =>
                   /\ n <= Len(t)
                   /\ At(s, n + 1) = At(t, n + 1)
                   /\ \A k \in 1 .. n : s[k] = t[k]}
<1>0. Len(s) \in Nat /\ Len(t) \in Nat
  OBVIOUS
<1>1. 0 \in S
  BY <1>0, AtEnds
<1>2. ASSUME NEW n \in Nat, n \in S, n + 1 <= Len(s)
      PROVE  /\ n + 1 <= Len(t)
             /\ At(s, n + 2) = At(t, n + 2)
             /\ \A k \in 1 .. n + 1 : s[k] = t[k]
  <2>1. n <= Len(t) /\ At(s, n + 1) = At(t, n + 1) /\ \A k \in 1 .. n : s[k] = t[k]
    BY <1>0, <1>2
  <2>2. n + 1 \in 1 .. Len(s) /\ (n + 1) + 1 = n + 2
    BY <1>0, <1>2
  <2>3. /\ s[n + 1] \in Char
        /\ At(s, n + 1) \in 1 .. Len(Bytes(s))
        /\ At(s, n + 2) = At(s, n + 1) + (IF s[n + 1] = Wide THEN 2 ELSE 1)
        /\ Bytes(s)[At(s, n + 1)] = IF s[n + 1] = Wide THEN Lead ELSE s[n + 1]
    BY <2>2, AtChar
  <2>4. n # Len(t)
    BY <2>1, <2>3, AtEnds
  <2>5. n + 1 \in 1 .. Len(t)
    BY <1>0, <2>1, <2>4
  <2>6. /\ t[n + 1] \in Char
        /\ At(t, n + 2) = At(t, n + 1) + (IF t[n + 1] = Wide THEN 2 ELSE 1)
        /\ Bytes(t)[At(t, n + 1)] = IF t[n + 1] = Wide THEN Lead ELSE t[n + 1]
    BY <2>2, <2>5, AtChar
  <2>7. s[n + 1] = t[n + 1]
    BY <2>1, <2>3, <2>6, CharAssumption
  <2>8. \A k \in 1 .. n + 1 : k = n + 1 \/ k \in 1 .. n
    OBVIOUS
  <2> QED BY <1>0, <2>1, <2>3, <2>5, <2>6, <2>7, <2>8
<1>3. ASSUME NEW n \in Nat, n \in S PROVE n + 1 \in S
  <2>1. (n + 1) + 1 = n + 2 /\ n + 1 \in Nat
    OBVIOUS
  <2> QED BY <1>2, <1>3, <2>1
<1> HIDE DEF S
<1>4. Len(s) \in S
  BY <1>0, <1>1, <1>3, SetInduction
<1>5. /\ Len(s) <= Len(t)
      /\ At(s, Len(s) + 1) = At(t, Len(s) + 1)
      /\ \A k \in 1 .. Len(s) : s[k] = t[k]
  BY <1>0, <1>4 DEF S
<1>6. Len(s) = Len(t)
  <2>1. At(s, Len(s) + 1) = At(t, Len(t) + 1)
    BY AtEnds
  <2>2. Len(s) < Len(t) => At(t, Len(s) + 1) < At(t, Len(t) + 1)
    <3> SUFFICES ASSUME Len(s) < Len(t) PROVE At(t, Len(s) + 1) < At(t, Len(t) + 1)
      OBVIOUS
    <3>1. Len(s) + 1 \in 1 .. Len(t) + 1 /\ Len(t) + 1 \in 1 .. Len(t) + 1 /\ Len(s) + 1 < Len(t) + 1
      BY <1>0
    <3> QED BY <3>1, AtGrows
  <2>3. At(t, Len(t) + 1) \in Nat
    BY AtEnds
  <2> QED BY <1>0, <1>5, <2>1, <2>2, <2>3
<1> QED
  BY <1>5, <1>6, SeqEqual
-----------------------------------------------------------------------------
(* Directives. *)

\* The dollar at p is not the second of a pair.
EvenBefore(s, p) ==
  \E n \in 0 .. p - 1 :
    /\ \A k \in p - n .. p : s[k] = "$"
    /\ p - n > 1 => s[p - n - 1] # "$"
    /\ n % 2 = 0

LEMMA OpensPair ==
  ASSUME NEW s, NEW p
  PROVE  Opens(s, p) <=> Pair(s, p, "(") /\ EvenBefore(s, p)
BY DEF Opens, Pair, EvenBefore

LEMMA Parity ==
  ASSUME NEW n \in Nat, n % 2 = 0
  PROVE  (n + 2) % 2 = 0 /\ (n + 1) % 2 # 0
OBVIOUS

LEMMA EvenStart ==
  ASSUME NEW s, NEW p \in Nat, p >= 1, s[p] = "$", p > 1 => s[p - 1] # "$"
  PROVE  EvenBefore(s, p)
PROOF
<1>1. /\ 0 \in 0 .. p - 1 /\ 0 % 2 = 0
      /\ \A k \in p - 0 .. p : s[k] = "$"
      /\ p - 0 > 1 => s[p - 0 - 1] # "$"
  OBVIOUS
<1> QED
  BY <1>1 DEF EvenBefore

LEMMA EvenStep ==
  ASSUME NEW s, NEW p \in Nat, p >= 1, EvenBefore(s, p), s[p + 1] = "$", s[p + 2] = "$"
  PROVE  EvenBefore(s, p + 2)
PROOF
<1>1. PICK n \in 0 .. p - 1 : /\ \A k \in p - n .. p : s[k] = "$"
                              /\ p - n > 1 => s[p - n - 1] # "$"
                              /\ n % 2 = 0
  BY DEF EvenBefore
<1>2. /\ n \in Nat /\ n + 2 \in 0 .. (p + 2) - 1
      /\ (p + 2) - (n + 2) = p - n
  OBVIOUS
<1>3. \A k \in p - n .. p + 2 : s[k] = "$"
  <2> TAKE k \in p - n .. p + 2
  <2>1. k \in p - n .. p \/ k = p + 1 \/ k = p + 2
    OBVIOUS
  <2>2. \A j \in p - n .. p : s[j] = "$"
    BY <1>1, Zenon
  <2> QED BY <2>1, <2>2
<1>4. (n + 2) % 2 = 0
  BY <1>1, <1>2, Parity
<1> QED
  BY <1>1, <1>2, <1>3, <1>4 DEF EvenBefore

LEMMA OddNext ==
  ASSUME NEW s, NEW p \in Nat, p >= 1, EvenBefore(s, p)
  PROVE  ~EvenBefore(s, p + 1)
PROOF
<1>1. PICK n \in 0 .. p - 1 : /\ \A k \in p - n .. p : s[k] = "$"
                              /\ p - n > 1 => s[p - n - 1] # "$"
                              /\ n % 2 = 0
  BY DEF EvenBefore
<1> SUFFICES ASSUME NEW m \in 0 .. (p + 1) - 1,
                    \A k \in (p + 1) - m .. p + 1 : s[k] = "$",
                    (p + 1) - m > 1 => s[(p + 1) - m - 1] # "$",
                    m % 2 = 0
             PROVE  FALSE
  BY DEF EvenBefore
<1>2. ~(m <= n)
  <2> SUFFICES ASSUME m <= n PROVE FALSE
    OBVIOUS
  <2>1. p - m \in p - n .. p /\ (p + 1) - m > 1 /\ (p + 1) - m - 1 = p - m
    OBVIOUS
  <2>2. \A j \in p - n .. p : s[j] = "$"
    BY <1>1, Zenon
  <2> QED BY <2>1, <2>2
<1>3. ~(m > n + 1)
  <2> SUFFICES ASSUME m > n + 1 PROVE FALSE
    OBVIOUS
  <2>1. p - n - 1 \in (p + 1) - m .. p + 1 /\ p - n > 1
    OBVIOUS
  <2> QED BY <1>1, <2>1
<1>4. m = n + 1 /\ n \in Nat
  BY <1>2, <1>3
<1>5. m % 2 # 0
  BY <1>1, <1>4, Parity
<1> QED
  BY <1>5

\* The first parenthesis that closes, from p on.
Closes(s, p, d) ==
  /\ d \in p .. Len(s) /\ s[d] = ")"
  /\ \A k \in p .. d - 1 : s[k] # ")"

LEMMA NamesChars ==
  ASSUME NEW s \in Seq(Char), NEW p \in 1 .. Len(s) + 1, NEW name \in Seq(Char)
  PROVE  Names(name, s, p) <=>
           /\ \A k \in 1 .. Len(name) : name[k] # " " /\ name[k] # ")"
           /\ p + Len(name) <= Len(s)
           /\ \A k \in 1 .. Len(name) : name[k] = s[p + k - 1]
           /\ s[p + Len(name)] = ")"
PROOF
<1> DEFINE full == name \o <<")">>
           rest == SubSeq(s, p, Len(s))
           m == Len(name)
<1>0. m \in Nat /\ Len(s) \in Nat /\ p \in Nat /\ ")" \in Char /\ DOMAIN name = 1 .. m
  <2>1. m \in Nat /\ DOMAIN name = 1 .. m /\ Len(s) \in Nat
    BY SequenceIs
  <2>2. p \in Nat
    OBVIOUS
  <2>3. ")" \in Char
    BY CharAssumption
  <2> HIDE DEF m
  <2> QED BY <2>1, <2>2, <2>3
<1>1. /\ full \in Seq(Char) /\ Len(full) = m + 1
      /\ \A k \in 1 .. m : full[k] = name[k]
      /\ full[m + 1] = ")"
  BY <1>0
<1>2. /\ rest \in Seq(Char) /\ Len(rest) = Len(s) - p + 1
      /\ \A k \in 1 .. Len(rest) : rest[k] = s[p + k - 1]
  BY <1>0, SubSeqProperties
<1>3. Range(name) \cap {" ", ")"} = {} <=>
        \A k \in 1 .. Len(name) : name[k] # " " /\ name[k] # ")"
  BY <1>0 DEF Range
<1> HIDE DEF full, rest, m
<1>4. SubSeq(full, 1, Len(full)) = full
  BY <1>1, SubSeqFull
<1>5. CASE m + 1 <= Len(rest)
  <2> DEFINE head == SubSeq(rest, 1, m + 1)
  <2>1. /\ head \in Seq(Char) /\ Len(head) = m + 1
        /\ \A k \in 1 .. m + 1 : head[k] = rest[k]
    BY <1>0, <1>2, <1>5
  <2> HIDE DEF head
  <2>2. full = head <=> \A k \in 1 .. m + 1 : full[k] = rest[k]
    <3>1. full = head => \A k \in 1 .. m + 1 : full[k] = rest[k]
      BY <2>1
    <3>2. (\A k \in 1 .. m + 1 : full[k] = rest[k]) => full = head
      <4> SUFFICES ASSUME \A k \in 1 .. m + 1 : full[k] = rest[k] PROVE full = head
        OBVIOUS
      <4>1. Len(full) = Len(head) /\ \A k \in 1 .. Len(full) : full[k] = head[k]
        BY <1>1, <2>1
      <4> QED BY <1>1, <2>1, <4>1, SeqEqual
    <3> QED BY <3>1, <3>2
  <2>3. IsPrefix(full, rest) <=> full = head
    BY <1>1, <1>4, <1>5 DEF IsPrefix, head
  <2>4. (\A k \in 1 .. m + 1 : full[k] = rest[k]) <=>
          (\A k \in 1 .. m : name[k] = rest[k]) /\ rest[m + 1] = ")"
    <3>1. \A k \in 1 .. m + 1 : k \in 1 .. m \/ k = m + 1
      BY <1>0
    <3>2. m + 1 \in 1 .. m + 1 /\ \A k \in 1 .. m : k \in 1 .. m + 1
      BY <1>0
    <3> QED BY <1>1, <3>1, <3>2
  <2>5. rest[m + 1] = s[p + m] /\ \A k \in 1 .. m : rest[k] = s[p + k - 1]
    <3>1. m + 1 \in 1 .. Len(rest) /\ p + (m + 1) - 1 = p + m /\ \A k \in 1 .. m : k \in 1 .. Len(rest)
      BY <1>0, <1>2, <1>5
    <3> QED BY <1>2, <3>1
  <2>6. p + m <= Len(s)
    BY <1>0, <1>2, <1>5
  <2> QED BY <1>3, <2>2, <2>3, <2>4, <2>5, <2>6 DEF Names, full, rest, m
<1>6. CASE ~(m + 1 <= Len(rest))
  <2>1. ~IsPrefix(full, rest)
    BY <1>1, <1>6 DEF IsPrefix
  <2>2. ~(p + m <= Len(s))
    BY <1>0, <1>2, <1>6
  <2> QED BY <2>1, <2>2 DEF Names, full, rest, m
<1> QED
  BY <1>5, <1>6

\* Where a parenthesis closes, one name alone can be meant: the text before it.
LEMMA NamesClosed ==
  ASSUME NEW s \in Seq(Char), NEW p \in 1 .. Len(s) + 1, NEW d, Closes(s, p, d),
         NEW name \in Seq(Char)
  PROVE  Names(name, s, p) <=>
           /\ name = SubSeq(s, p, d - 1)
           /\ \A k \in p .. d - 1 : s[k] # " "
PROOF
<1> DEFINE text == SubSeq(s, p, d - 1)
<1>0. /\ Len(name) \in Nat /\ Len(s) \in Nat /\ p \in Nat /\ d \in Nat
      /\ p <= d /\ d <= Len(s) /\ s[d] = ")" /\ \A k \in p .. d - 1 : s[k] # ")"
  BY DEF Closes
<1>1. /\ text \in Seq(Char) /\ Len(text) = d - p
      /\ \A k \in 1 .. d - p : text[k] = s[p + k - 1]
  <2>1. \A k \in p .. d - 1 : s[k] \in Char
    BY <1>0
  <2>2. Len(text) = (IF p <= d - 1 THEN (d - 1) - p + 1 ELSE 0) /\ text \in Seq(Char)
        /\ \A k \in 1 .. (d - 1) - p + 1 : text[k] = s[p + k - 1]
    BY <1>0, <2>1, SubSeqProperties
  <2>3. (d - 1) - p + 1 = d - p /\ (~(p <= d - 1) => d - p = 0)
    BY <1>0
  <2> QED BY <2>2, <2>3
<1> HIDE DEF text
<1>2. ASSUME Names(name, s, p)
      PROVE  name = text /\ \A k \in p .. d - 1 : s[k] # " "
  <2>1. /\ \A k \in 1 .. Len(name) : name[k] # " " /\ name[k] # ")"
        /\ p + Len(name) <= Len(s)
        /\ \A k \in 1 .. Len(name) : name[k] = s[p + k - 1]
        /\ s[p + Len(name)] = ")"
    BY <1>2, NamesChars
  <2>2. ~(d < p + Len(name))
    <3> SUFFICES ASSUME d < p + Len(name) PROVE FALSE
      OBVIOUS
    <3>1. d - p + 1 \in 1 .. Len(name) /\ p + (d - p + 1) - 1 = d
      BY <1>0
    <3> QED BY <1>0, <2>1, <3>1
  <2>3. ~(p + Len(name) < d)
    <3> SUFFICES ASSUME p + Len(name) < d PROVE FALSE
      OBVIOUS
    <3>1. p + Len(name) \in p .. d - 1
      BY <1>0
    <3> QED BY <1>0, <2>1, <3>1
  <2>4. Len(name) = d - p
    BY <1>0, <2>2, <2>3
  <2>5. name = text
    BY <1>1, <2>1, <2>4, SeqEqual
  <2>6. ASSUME NEW k \in p .. d - 1 PROVE s[k] # " "
    <3>1. k - p + 1 \in 1 .. Len(name) /\ p + (k - p + 1) - 1 = k
      BY <1>0, <2>4
    <3> QED BY <2>1, <3>1
  <2> QED BY <2>5, <2>6
<1>3. ASSUME name = text, \A k \in p .. d - 1 : s[k] # " "
      PROVE  Names(name, s, p)
  <2>1. p + Len(name) = d /\ Len(name) = d - p
    <3>1. Len(name) = d - p
      BY <1>1, <1>3
    <3> QED BY <1>0, <3>1
  <2>2. ASSUME NEW k \in 1 .. Len(name)
        PROVE  name[k] = s[p + k - 1] /\ name[k] # " " /\ name[k] # ")"
    <3>1. p + k - 1 \in p .. d - 1 /\ k \in 1 .. d - p
      BY <1>0, <2>1
    <3> QED BY <1>0, <1>1, <1>3, <3>1
  <2>3. s[p + Len(name)] = ")" /\ p + Len(name) <= Len(s)
    BY <1>0, <2>1
  <2> QED BY <2>2, <2>3, NamesChars
<1> QED
  BY <1>2, <1>3 DEF text

LEMMA NamesOpen ==
  ASSUME NEW s \in Seq(Char), NEW p \in 1 .. Len(s) + 1,
         \A k \in p .. Len(s) : s[k] # ")", NEW name \in Seq(Char)
  PROVE  ~Names(name, s, p)
PROOF
<1> SUFFICES ASSUME Names(name, s, p) PROVE FALSE
  OBVIOUS
<1>1. p + Len(name) <= Len(s) /\ s[p + Len(name)] = ")"
  BY NamesChars
<1>2. p + Len(name) \in p .. Len(s)
  BY <1>1
<1> QED
  BY <1>1, <1>2
-----------------------------------------------------------------------------
(* What the text says from each place on. *)

Vars == Seq(Seq(Char) \X Seq(Char))

\* The variable a directive names is one of those it may mean.
LEMMA VariableIs ==
  ASSUME NEW s \in Seq(Char), NEW p \in 1 .. Len(s), Pair(s, p, "("),
         NEW vs \in Vars, Named(vs, s, p) # {}
  PROVE  /\ Variable(vs, s, p) \in Seq(Char) \X Seq(Char)
         /\ Names(Variable(vs, s, p)[1], s, p + 2)
         /\ p + Len(Variable(vs, s, p)[1]) + 3 \in p + 1 .. Len(s) + 1
PROOF
<1>1. DOMAIN vs \subseteq Nat /\ \A k \in DOMAIN vs : vs[k] \in Seq(Char) \X Seq(Char)
  BY SequenceIs DEF Vars
<1>2. Named(vs, s, p) \in SUBSET Nat
  BY <1>1 DEF Named
<1>3. \E k \in Named(vs, s, p) : \A l \in Named(vs, s, p) : k <= l
  BY <1>2, LeastNatural
<1>4. PICK k \in Named(vs, s, p) : Variable(vs, s, p) = vs[k]
  BY <1>3 DEF Variable
<1>5. k \in DOMAIN vs /\ Names(vs[k][1], s, p + 2)
  BY DEF Named
<1> DEFINE name == vs[k][1]
<1>6. name \in Seq(Char) /\ Names(name, s, p + 2) /\ vs[k] \in Seq(Char) \X Seq(Char)
  BY <1>1, <1>5
<1> DEFINE r == p + 2
<1>7. r \in 1 .. Len(s) + 1 /\ Len(s) \in Nat /\ r = p + 2
  BY DEF Pair
<1> HIDE DEF name, r
<1>8. r + Len(name) <= Len(s) /\ Len(name) \in Nat
  <2>1. Names(name, s, r) /\ name \in Seq(Char)
    BY <1>6 DEF r
  <2>2. Len(name) \in Nat
    BY <2>1, SequenceIs
  <2>3. r + Len(name) <= Len(s)
    BY <1>7, <2>1, NamesChars
  <2> QED BY <2>2, <2>3
<1>9. p + Len(name) + 3 \in p + 1 .. Len(s) + 1
  BY <1>7, <1>8
<1> QED
  BY <1>4, <1>6, <1>9 DEF name

\* The equation of MeaningFrom: from is what the text says from later places.
Says(vs, s, from, p) ==
  IF p > Len(s) THEN <<>>
  ELSE IF Pair(s, p, "$") THEN Then(<<"$">>, from[p + 2])
  ELSE IF ~Pair(s, p, "(") THEN Then(<<s[p]>>, from[p + 1])
  ELSE IF Named(vs, s, p) = {} THEN None
  ELSE Then(Variable(vs, s, p)[2], from[p + Len(Variable(vs, s, p)[1]) + 3])

\* It looks at later places only.
LEMMA SaysLater ==
  ASSUME NEW s \in Seq(Char), NEW vs \in Vars, NEW p \in 1 .. Len(s) + 1,
         NEW g, NEW h, \A q \in p + 1 .. Len(s) + 1 : g[q] = h[q]
  PROVE  Says(vs, s, g, p) = Says(vs, s, h, p)
PROOF
<1>1. CASE p > Len(s)
  BY <1>1 DEF Says
<1>2. CASE p \in 1 .. Len(s) /\ Pair(s, p, "$")
  <2>1. p + 2 \in p + 1 .. Len(s) + 1
    BY <1>2 DEF Pair
  <2> QED BY <1>2, <2>1 DEF Says
<1>3. CASE p \in 1 .. Len(s) /\ ~Pair(s, p, "$") /\ ~Pair(s, p, "(")
  <2>1. p + 1 \in p + 1 .. Len(s) + 1
    BY <1>3
  <2> QED BY <1>3, <2>1 DEF Says
<1>4. CASE p \in 1 .. Len(s) /\ ~Pair(s, p, "$") /\ Pair(s, p, "(") /\ Named(vs, s, p) = {}
  BY <1>4 DEF Says
<1>5. CASE p \in 1 .. Len(s) /\ ~Pair(s, p, "$") /\ Pair(s, p, "(") /\ Named(vs, s, p) # {}
  <2>1. p + Len(Variable(vs, s, p)[1]) + 3 \in p + 1 .. Len(s) + 1
    BY <1>5, VariableIs
  <2> QED BY <1>5, <2>1 DEF Says
<1> QED
  BY <1>1, <1>2, <1>3, <1>4, <1>5

\* A function that satisfies the equation from the place n on exists, by
\* induction on the number of places.
LEMMA MeaningExists ==
  ASSUME NEW s \in Seq(Char), NEW vs \in Vars
  PROVE  \E g : g = [p \in 1 .. Len(s) + 1 |-> Says(vs, s, g, p)]
PROOF
<1> DEFINE L == Len(s) + 1
           D(g, n) == g = [p \in n .. L |-> Says(vs, s, g, p)]
           S == {m \in Nat : m <= L => \E g : D(g, L - m + 1)}
<1>0. L \in Nat /\ L = Len(s) + 1
  OBVIOUS
<1> HIDE DEF L
<1>1. 0 \in S
  <2>1. L - 0 + 1 > L
    BY <1>0
  <2>2. L - 0 + 1 .. L = {}
    BY <1>0, <2>1
  <2>3. D([p \in {} |-> <<>>], L - 0 + 1)
    BY <2>2
  <2> HIDE DEF D
  <2> QED BY <2>3
<1>2. ASSUME NEW m \in Nat, m \in S, m + 1 <= L
      PROVE  \E g : D(g, L - (m + 1) + 1)
  <2> DEFINE n == L - m
  <2>0. n \in 1 .. L /\ L - m + 1 = n + 1 /\ L - (m + 1) + 1 = n /\ m <= L
    BY <1>0, <1>2
  <2> HIDE DEF n
  <2>1. PICK g : D(g, n + 1)
    BY <1>2, <2>0
  <2> DEFINE h == [p \in n .. L |-> IF p = n THEN Says(vs, s, g, n) ELSE g[p]]
  <2>2. ASSUME NEW p \in n .. L PROVE h[p] = Says(vs, s, h, p)
    <3>1. p \in 1 .. L /\ \A q \in p + 1 .. L : q \in n .. L /\ q # n
      BY <1>0, <2>0
    <3>2. \A q \in p + 1 .. L : h[q] = g[q]
      BY <3>1
    <3>3. Says(vs, s, h, p) = Says(vs, s, g, p)
      <4> HIDE DEF h
      <4> QED BY <1>0, <3>1, <3>2, SaysLater
    <3>4. CASE p = n
      BY <3>3, <3>4
    <3>5. CASE p # n
      <4>1. p \in n + 1 .. L /\ h[p] = g[p]
        BY <2>0, <3>5, <1>0
      <4>2. g[p] = Says(vs, s, g, p)
        BY <2>1, <4>1
      <4> QED BY <3>3, <4>1, <4>2
    <3> QED BY <3>4, <3>5
  <2>3. h = [p \in n .. L |-> h[p]]
    OBVIOUS
  <2> HIDE DEF h
  <2>4. D(h, n)
    BY <2>2, <2>3
  <2> HIDE DEF D
  <2> QED BY <2>0, <2>4
<1>3. \A m \in Nat : m \in S => m + 1 \in S
  <2> HIDE DEF D
  <2> QED BY <1>2
<1> HIDE DEF S
<1>4. L \in S
  BY <1>0, <1>1, <1>3, SetInduction
<1> HIDE DEF D
<1>5. \E g : D(g, L - L + 1)
  BY <1>0, <1>4 DEF S
<1>6. L - L + 1 = 1
  BY <1>0
<1> QED
  BY <1>0, <1>5, <1>6 DEF D

\* MeaningFrom satisfies its equation.
LEMMA MeaningIs ==
  ASSUME NEW s \in Seq(Char), NEW vs \in Vars, NEW p \in 1 .. Len(s) + 1
  PROVE  MeaningFrom(vs, s)[p] = Says(vs, s, MeaningFrom(vs, s), p)
PROOF
<1>1. \E g : g = [q \in 1 .. Len(s) + 1 |-> Says(vs, s, g, q)]
  BY MeaningExists
<1>2. MeaningFrom(vs, s) = [q \in 1 .. Len(s) + 1 |-> Says(vs, s, MeaningFrom(vs, s), q)]
  BY <1>1 DEF MeaningFrom, Says
<1> QED
  BY <1>2

\* From each place on the text says a text of characters, or nothing.
LEMMA MeaningType ==
  ASSUME NEW s \in Seq(Char), NEW vs \in Vars
  PROVE  \A p \in 1 .. Len(s) + 1 : MeaningFrom(vs, s)[p] \in Seq(Char) \cup {None}
PROOF
<1> DEFINE L == Len(s) + 1
           M == MeaningFrom(vs, s)
           S == {m \in Nat : \A p \in 1 .. L : p > L - m => M[p] \in Seq(Char) \cup {None}}
<1>0. L \in Nat /\ L = Len(s) + 1
  OBVIOUS
<1>1. \A p \in 1 .. L : M[p] = Says(vs, s, M, p)
  BY MeaningIs
<1> HIDE DEF L, M
<1>2. 0 \in S
  BY <1>0
<1>3. ASSUME NEW m \in Nat, m \in S PROVE m + 1 \in S
  <2> SUFFICES ASSUME NEW p \in 1 .. L, p > L - (m + 1)
               PROVE  M[p] \in Seq(Char) \cup {None}
    OBVIOUS
  <2>1. \A q \in p + 1 .. L : M[q] \in Seq(Char) \cup {None}
    BY <1>0, <1>3
  <2> DEFINE T == Seq(Char)
  <2>2. \A a \in T, r \in T \cup {None} : Then(a, r) \in T \cup {None}
    BY DEF Then
  <2>3. <<>> \in T /\ <<"$">> \in T /\ \A q \in 1 .. Len(s) : <<s[q]>> \in T
    <3>0. "$" \in Char
      BY CharAssumption
    <3>1. \A q \in 1 .. Len(s) : s[q] \in Char
      BY ElementOfSeq
    <3>2. \A c \in Char : <<c>> \in T
      OBVIOUS
    <3> QED BY <3>0, <3>1, <3>2
  <2> HIDE DEF T
  <2>4. CASE p > Len(s)
    BY <1>1, <2>3, <2>4 DEF Says, T
  <2>5. CASE p \in 1 .. Len(s) /\ Pair(s, p, "$")
    <3>1. p + 2 \in p + 1 .. L
      BY <1>0, <2>5 DEF Pair
    <3> QED BY <1>1, <2>1, <2>2, <2>3, <2>5, <3>1 DEF Says, T
  <2>6. CASE p \in 1 .. Len(s) /\ ~Pair(s, p, "$") /\ ~Pair(s, p, "(")
    <3>1. p + 1 \in p + 1 .. L
      BY <1>0, <2>6
    <3> QED BY <1>1, <2>1, <2>2, <2>3, <2>6, <3>1 DEF Says, T
  <2>7. CASE p \in 1 .. Len(s) /\ ~Pair(s, p, "$") /\ Pair(s, p, "(")
    <3>0. ~(p > Len(s)) /\ M[p] = Says(vs, s, M, p)
      BY <1>0, <1>1, <2>7
    <3>1. CASE Named(vs, s, p) = {}
      BY <3>0, <2>7, <3>1 DEF Says
    <3>2. CASE Named(vs, s, p) # {}
      <4>1. p + Len(Variable(vs, s, p)[1]) + 3 \in p + 1 .. L /\ Variable(vs, s, p)[2] \in T
        BY <1>0, <2>7, <3>2, VariableIs DEF T
      <4>2. M[p] = Then(Variable(vs, s, p)[2], M[p + Len(Variable(vs, s, p)[1]) + 3])
        BY <2>7, <3>0, <3>2 DEF Says
      <4> QED BY <2>1, <2>2, <4>1, <4>2 DEF T
    <3> QED BY <3>1, <3>2
  <2> QED BY <1>0, <2>4, <2>5, <2>6, <2>7
<1> HIDE DEF S
<1>4. L \in S
  BY <1>0, <1>2, <1>3, SetInduction
<1> QED
  BY <1>0, <1>4 DEF S, M, L
-----------------------------------------------------------------------------
(***************************************************************************)
(* The inductive invariant.  The scanner stands at the character c, or     *)
(* between the two bytes of the one before it; whatever opens before c is  *)
(* resolved, and the text says from its beginning what is written and then *)
(* what it says from c on.  A dollar at c may open a directive: the pairs  *)
(* before it are read as pairs.                                            *)
(***************************************************************************)
CallType ==
  /\ call.input \in Seq(Char)
  /\ call.vars \in Vars
  /\ call.method \in {"expand_location", "expand_make_variables"}
  /\ call.method = "expand_location" => call.vars = <<>>

Stands(c) ==
  /\ c \in 1 .. Len(call.input) + 1
  /\ \/ i = At(call.input, c)
     \/ c > 1 /\ call.input[c - 1] = Wide /\ i = At(call.input, c) - 1

Resolved(p) ==
  /\ call.method = "expand_make_variables"
  /\ \E k \in DOMAIN call.vars : Names(call.vars[k][1], call.input, p + 2)

ReadBefore(c) ==
  \A p \in 1 .. c - 1 : Opens(call.input, p) /\ ~Inside(call.input, p) => Resolved(p)

EvenAt(c) ==
  c <= Len(call.input) /\ call.input[c] = "$" => EvenBefore(call.input, c)

Written(c) ==
  LET says == MeaningFrom(call.vars, call.input)
  IN  /\ says[1] = None <=> says[c] = None
      /\ Ascii /\ says[c] # None => says[1] = out \o says[c]

Ended(c) ==
  /\ outcome \in {"unterminated", "unsupported"} => MeaningFrom(call.vars, call.input)[c] = None
  /\ outcome = "ok" => c = Len(call.input) + 1

IInv ==
  /\ CallType
  /\ outcome \in {"running", "ok", "unterminated", "unsupported"}
  /\ out \in Seq(Byte)
  /\ \E c \in Nat : Stands(c) /\ ReadBefore(c) /\ EvenAt(c) /\ Written(c) /\ Ended(c)

\* The initial map of a call.
LEMMA InitIInv == Init => IInv
PROOF
<1> SUFFICES ASSUME Init PROVE IInv
  OBVIOUS
<1>1. PICK input \in BoundedSeq(Char, MaxInput), additional \in Additional,
           method \in {"expand_location", "expand_make_variables"} :
        call = Call(method, input, additional)
  BY DEF Init
<1>2. input \in Seq(Char)
  <2>1. PICK m \in 0 .. MaxInput : input \in [1 .. m -> Char]
    BY DEF BoundedSeq, SeqOf
  <2>2. m \in Nat
    BY BoundAssumption
  <2> QED BY <2>1, <2>2
<1>3. CtxVar \in Vars /\ additional \in Vars
  BY VarAssumption DEF Vars
<1>4. CtxVar \o additional \in Vars /\ <<>> \in Vars
  BY <1>3 DEF Vars
<1>5. /\ call.input = input /\ call.method = method
      /\ call.vars = IF method = "expand_location" THEN <<>> ELSE CtxVar \o additional
  BY <1>1 DEF Call
<1>6. CallType
  BY <1>2, <1>4, <1>5 DEF CallType
<1>7. i = 1 /\ out = <<>> /\ outcome = "running"
  BY DEF Init
<1>8. Len(call.input) \in Nat /\ At(call.input, 1) = 1
  BY <1>6, AtEnds DEF CallType
<1>9. Stands(1) /\ ReadBefore(1) /\ Ended(1)
  BY <1>7, <1>8 DEF Stands, ReadBefore, Ended
<1>10. EvenAt(1)
  BY EvenStart DEF EvenAt
<1>11. Written(1)
  <2>1. MeaningFrom(call.vars, call.input)[1] \in Seq(Char) \cup {None}
    BY <1>6, <1>8, MeaningType DEF CallType
  <2>2. MeaningFrom(call.vars, call.input)[1] # None => MeaningFrom(call.vars, call.input)[1] = <<>> \o MeaningFrom(call.vars, call.input)[1]
    BY <2>1
  <2> QED BY <1>7, <2>2 DEF Written
<1>12. out \in Seq(Byte)
  BY <1>7
<1> QED
  BY <1>6, <1>7, <1>9, <1>10, <1>11, <1>12 DEF IInv

\* The scanner stands at a character when it looks at a byte of its own, and
\* sees a pair where the text has one.
LEMMA SeesPair ==
  ASSUME CallType, NEW c \in Nat, Stands(c), i <= Len(Input), NEW b \in {"$", "("}
  PROVE  /\ Starts(b) <=> i = At(call.input, c) /\ Pair(call.input, c, b)
         /\ i = At(call.input, c) => c \in 1 .. Len(call.input)
         /\ i # At(call.input, c) => c > 1 /\ call.input[c - 1] = Wide
PROOF
<1> DEFINE s == call.input
<1>0. s \in Seq(Char) /\ Len(s) \in Nat /\ c \in 1 .. Len(s) + 1 /\ Input = Bytes(s)
  BY DEF CallType, Stands, Input
<1> HIDE DEF s
<1>1. i # At(s, c) => /\ c - 1 \in 1 .. Len(s) /\ c > 1 /\ s[c - 1] = Wide /\ i = At(s, c) - 1
  BY <1>0 DEF Stands, s
<1>2. i # At(s, c) => Input[i] = Trail
  <2> SUFFICES ASSUME i # At(s, c) PROVE Input[i] = Trail
    OBVIOUS
  <2> DEFINE d == c - 1
  <2>1. d \in 1 .. Len(s) /\ s[d] = Wide /\ d + 1 = c
    BY <1>1
  <2> HIDE DEF d
  <2>2. /\ At(s, d + 1) = At(s, d) + 2 /\ At(s, d) \in Nat
        /\ Bytes(s)[At(s, d) + 1] = Trail
    BY <1>0, <2>1, AtChar
  <2>3. i = At(s, d) + 1
    BY <1>1, <2>1, <2>2
  <2> QED BY <1>0, <2>2, <2>3
<1>3. Trail \notin {"$", "("} /\ Lead \notin {"$", "("} /\ Wide \notin {"$", "("}
  BY CharAssumption
<1>4. i = At(s, c) => c \in 1 .. Len(s)
  <2> SUFFICES ASSUME i = At(s, c), c = Len(s) + 1 PROVE FALSE
    BY <1>0
  <2>1. i = Len(Bytes(s)) + 1 /\ Len(Bytes(s)) \in Nat
    BY <1>0, AtEnds
  <2> QED BY <1>0, <2>1
<1>5. ASSUME i = At(s, c)
      PROVE  Starts(b) <=> Pair(s, c, b)
  <2>1. /\ s[c] \in Char /\ i \in 1 .. Len(Bytes(s))
        /\ At(s, c + 1) = i + (IF s[c] = Wide THEN 2 ELSE 1)
        /\ Bytes(s)[i] = IF s[c] = Wide THEN Lead ELSE s[c]
    BY <1>0, <1>4, <1>5, AtChar
  <2>2. Input[i] = "$" <=> s[c] = "$"
    BY <1>0, <1>3, <2>1
  <2>3. CASE s[c] = "$"
    <3>1. At(s, c + 1) = i + 1
      BY <1>3, <2>1, <2>3
    <3>2. CASE c = Len(s)
      <4>1. i + 1 = Len(Bytes(s)) + 1
        BY <1>0, <3>1, <3>2, AtEnds
      <4>2. ~(i < Len(Input)) /\ ~(c < Len(s))
        BY <1>0, <2>1, <3>2, <4>1
      <4> QED BY <4>2 DEF Starts, Pair
    <3>3. CASE c # Len(s)
      <4> DEFINE d == c + 1
      <4>1. d \in 1 .. Len(s) /\ c < Len(s)
        BY <1>0, <1>4, <1>5, <3>3
      <4> HIDE DEF d
      <4>2. /\ s[d] \in Char /\ At(s, d) \in 1 .. Len(Bytes(s))
            /\ Bytes(s)[At(s, d)] = IF s[d] = Wide THEN Lead ELSE s[d]
        BY <1>0, <4>1, AtChar
      <4>3. i + 1 = At(s, d)
        BY <3>1 DEF d
      <4>4. i < Len(Input) /\ (Input[i + 1] = b <=> s[d] = b)
        BY <1>0, <1>3, <2>1, <4>2, <4>3
      <4> QED BY <2>2, <4>1, <4>4 DEF Starts, Pair, d
    <3> QED BY <3>2, <3>3
  <2>4. CASE s[c] # "$"
    BY <2>2, <2>4 DEF Starts, Pair
  <2> QED BY <2>3, <2>4
<1>6. i # At(s, c) => ~Starts(b)
  BY <1>2, <1>3 DEF Starts
<1> QED
  BY <1>1, <1>4, <1>5, <1>6 DEF s

\* What a pair says of the bytes after it.
LEMMA PastPair ==
  ASSUME NEW s \in Seq(Char), NEW c \in 1 .. Len(s), NEW b \in {"$", "("}, Pair(s, c, b)
  PROVE  /\ c + 2 \in 1 .. Len(s) + 1 /\ c + 1 \in 1 .. Len(s)
         /\ s[c] = "$" /\ s[c + 1] = b
         /\ At(s, c + 2) = At(s, c) + 2
         /\ At(s, c) \in Nat
PROOF
<1>1. c + 1 \in 1 .. Len(s) /\ s[c] = "$" /\ s[c + 1] = b /\ (c + 1) + 1 = c + 2
  BY DEF Pair
<1>2. s[c] # Wide /\ s[c + 1] # Wide
  BY <1>1, CharAssumption
<1>3. At(s, c + 1) = At(s, c) + 1 /\ At(s, c) \in Nat
  BY <1>2, AtChar
<1>4. At(s, c + 2) = At(s, c + 1) + 1
  BY <1>1, <1>2, AtChar
<1>5. c + 2 \in 1 .. Len(s) + 1
  BY <1>1
<1> QED
  BY <1>1, <1>3, <1>4, <1>5

(***************************************************************************)
(* A step from the character c to a later one, n: it writes w, where the   *)
(* text says u from c to n.                                                *)
(***************************************************************************)
LEMMA Advance ==
  ASSUME CallType, out \in Seq(Byte), outcome = "running", call' = call, outcome' = outcome,
         NEW c \in Nat, Stands(c), ReadBefore(c), Written(c),
         NEW n \in c + 1 .. Len(call.input) + 1,
         NEW w \in Seq(Byte), NEW u \in Seq(Char),
         out' = out \o w, Ascii => u = w,
         Stands(n)', EvenAt(n),
         MeaningFrom(call.vars, call.input)[c] = Then(u, MeaningFrom(call.vars, call.input)[n]),
         \A p \in c .. n - 1 :
           Opens(call.input, p) /\ ~Inside(call.input, p) => Resolved(p)
  PROVE  IInv'
PROOF
<1> DEFINE says == MeaningFrom(call.vars, call.input)
<1>0. /\ n \in Nat /\ c \in 1 .. Len(call.input) + 1 /\ n \in 1 .. Len(call.input) + 1
      /\ 1 \in 1 .. Len(call.input) + 1
  BY DEF CallType, Stands
<1>1. CallType' /\ outcome' = "running" /\ out' \in Seq(Byte)
  BY DEF CallType
<1>2. ReadBefore(n)
  <2>1. \A p \in 1 .. n - 1 : p \in 1 .. c - 1 \/ p \in c .. n - 1
    BY <1>0
  <2> QED BY <2>1 DEF ReadBefore
<1>3. ReadBefore(n)'
  BY <1>2 DEF ReadBefore, Resolved
<1>4. EvenAt(n)'
  BY DEF EvenAt
<1>5. Ended(n)'
  BY DEF Ended
<1>6. /\ says[1] \in Seq(Char) \cup {None}
      /\ says[c] \in Seq(Char) \cup {None}
      /\ says[n] \in Seq(Char) \cup {None}
  BY <1>0, MeaningType DEF CallType
<1>7. None \notin Seq(Char)
  BY VarAssumption
<1> HIDE DEF says
<1>8. says[c] = IF says[n] = None THEN None ELSE u \o says[n]
  BY DEF Then, says
<1>9. says[c] = None <=> says[n] = None
  <2>1. says[n] # None => u \o says[n] \in Seq(Char)
    BY <1>6
  <2> QED BY <1>7, <1>8, <2>1
<1>10. says[1] = None <=> says[n] = None
  BY <1>9 DEF Written, says
<1>11. ASSUME Ascii, says[n] # None PROVE says[1] = out' \o says[n]
  <2>1. says[1] = out \o (w \o says[n])
    BY <1>8, <1>9, <1>11 DEF Written, says
  <2>2. says[n] \in Seq(Byte)
    <3>1. says[n] \in Seq(Char) /\ Char \subseteq Byte
      BY <1>6, <1>11 DEF Byte
    <3> QED BY <3>1, SeqMonotonic
  <2>3. (out \o w) \o says[n] = out \o (w \o says[n])
    <3> DEFINE r == says[n]
    <3>1. r \in Seq(Byte)
      BY <2>2
    <3> HIDE DEF r
    <3>2. (out \o w) \o r = out \o (w \o r)
      BY <3>1, ConcatGroups, SMTT(30)
    <3> QED BY <3>2 DEF r
  <2> QED BY <2>1, <2>3
<1>12. Written(n)'
  <2>1. Ascii' = Ascii /\ MeaningFrom(call.vars, call.input)' = says
    BY DEF Ascii, says
  <2> QED BY <1>10, <1>11, <2>1 DEF Written
<1> QED
  BY <1>0, <1>1, <1>3, <1>4, <1>5, <1>12 DEF IInv

\* Find gives the first place of a byte.
LEMMA FindFirst ==
  ASSUME CallType, NEW b, NEW k \in Nat, k >= 1
  PROVE  /\ Find(b, k) = 0 => \A j \in k .. Len(Input) : Input[j] # b
         /\ Find(b, k) # 0 => /\ Find(b, k) \in k .. Len(Input)
                              /\ Input[Find(b, k)] = b
                              /\ \A j \in k .. Find(b, k) - 1 : Input[j] # b
PROOF
<1> DEFINE at == {j \in k .. Len(Input) : Input[j] = b}
<1>0. Len(Input) \in Nat
  BY AtEnds DEF CallType, Input
<1>1. CASE at = {}
  BY <1>1 DEF Find
<1>2. CASE at # {}
  <2>1. at \in SUBSET Nat
    BY <1>0
  <2>2. \E j \in at : \A l \in at : j <= l
    <3> HIDE DEF at
    <3> QED BY <1>2, <2>1, LeastNatural
  <2>3. PICK f \in at : f = Find(b, k) /\ \A l \in at : f <= l
    BY <1>2, <2>2 DEF Find
  <2>4. ASSUME NEW j \in k .. f - 1 PROVE Input[j] # b
    <3>1. j \in k .. Len(Input) /\ ~(f <= j)
      BY <1>0
    <3> QED BY <2>3, <3>1
  <2>5. f \in k .. Len(Input) /\ Input[f] = b
    OBVIOUS
  <2>6. f # 0
    OBVIOUS
  <2> QED BY <2>3, <2>4, <2>5, <2>6
<1> QED
  BY <1>1, <1>2

\* The byte that closes a directive is where the character that closes it
\* begins.
LEMMA ClosedAt ==
  ASSUME CallType, NEW c \in 1 .. Len(call.input), Pair(call.input, c, "("),
         i = At(call.input, c)
  PROVE  /\ Find(")", i + 2) = 0 => \A k \in c + 2 .. Len(call.input) : call.input[k] # ")"
         /\ Find(")", i + 2) # 0 =>
              \E d \in Nat : Closes(call.input, c + 2, d) /\ Find(")", i + 2) = At(call.input, d)
PROOF
<1> DEFINE s == call.input
           f == Find(")", i + 2)
           e == c + 2
<1>0. /\ s \in Seq(Char) /\ Len(s) \in Nat /\ Input = Bytes(s)
      /\ e \in 1 .. Len(s) + 1 /\ i + 2 = At(s, e) /\ i \in Nat
      /\ ")" \in Char /\ ")" # Wide /\ ")" # Lead
  <2>1. s \in Seq(Char) /\ Len(s) \in Nat /\ Input = Bytes(s)
    BY DEF CallType, Input
  <2>2. e \in 1 .. Len(s) + 1 /\ i + 2 = At(s, e) /\ i \in Nat
    BY <2>1, PastPair
  <2>3. ")" \in Char /\ ")" # Wide /\ ")" # Lead
    BY CharAssumption
  <2> QED BY <2>1, <2>2, <2>3
<1>1. /\ f = 0 => \A j \in i + 2 .. Len(Input) : Input[j] # ")"
      /\ f # 0 => /\ f \in i + 2 .. Len(Input) /\ Input[f] = ")"
                 /\ \A j \in i + 2 .. f - 1 : Input[j] # ")"
  BY <1>0, FindFirst
<1> HIDE DEF s, f, e
<1>2. ASSUME NEW k \in e .. Len(s), s[k] = ")"
      PROVE  At(s, k) \in i + 2 .. Len(Input) /\ Input[At(s, k)] = ")"
  <2>1. k \in 1 .. Len(s) /\ k \in 1 .. Len(s) + 1
    BY <1>0
  <2>2. At(s, k) \in 1 .. Len(Input) /\ Input[At(s, k)] = ")"
    BY <1>0, <1>2, <2>1, AtChar
  <2>3. e < k => At(s, e) < At(s, k)
    BY <1>0, <2>1, AtGrows
  <2>4. At(s, k) >= i + 2
    <3>1. CASE e = k
      BY <1>0, <2>2, <3>1
    <3>2. CASE e < k
      BY <1>0, <2>2, <2>3, <3>2
    <3> QED BY <1>0, <2>1, <3>1, <3>2
  <2> QED BY <1>0, <2>2, <2>4
<1>3. f = 0 => \A k \in e .. Len(s) : s[k] # ")"
  BY <1>1, <1>2
<1>4. ASSUME f # 0 PROVE \E d \in Nat : Closes(s, e, d) /\ f = At(s, d)
  <2>1. f \in 1 .. Len(Bytes(s)) /\ f \in i + 2 .. Len(Input) /\ Bytes(s)[f] = ")"
    BY <1>0, <1>1, <1>4
  <2>2. PICK d \in 1 .. Len(s) : f = At(s, d) /\ s[d] = ")"
    BY <1>0, <2>1, NarrowByte
  <2>3. ~(d < e)
    <3> SUFFICES ASSUME d < e PROVE FALSE
      OBVIOUS
    <3>1. d \in 1 .. Len(s) + 1
      OBVIOUS
    <3>2. At(s, d) < At(s, e)
      BY <1>0, <3>1, AtGrows
    <3> QED BY <1>0, <2>1, <2>2, <3>2
  <2>4. ASSUME NEW k \in e .. d - 1 PROVE s[k] # ")"
    <3> SUFFICES ASSUME s[k] = ")" PROVE FALSE
      OBVIOUS
    <3>1. k \in e .. Len(s) /\ k \in 1 .. Len(s) + 1 /\ d \in 1 .. Len(s) + 1 /\ k < d
      BY <1>0
    <3>2. At(s, k) \in i + 2 .. Len(Input) /\ Input[At(s, k)] = ")" /\ At(s, k) < At(s, d)
      BY <1>0, <1>2, <3>1, AtGrows
    <3>3. At(s, k) \in i + 2 .. f - 1
      BY <1>0, <2>1, <2>2, <3>2
    <3> QED BY <1>1, <1>4, <3>2, <3>3
  <2>5. d \in e .. Len(s) /\ d \in Nat
    BY <1>0, <2>3
  <2> QED BY <2>2, <2>4, <2>5 DEF Closes
<1> QED
  BY <1>3, <1>4 DEF s, f, e

LEMMA BlankBytes ==
  ASSUME NEW s \in Seq(Char)
  PROVE  " " \in Range(Bytes(s)) <=> " " \in Range(s)
PROOF
<1>0. /\ DOMAIN s = 1 .. Len(s) /\ DOMAIN Bytes(s) = 1 .. Len(Bytes(s))
      /\ " " \in Char /\ " " # Wide
  <2>1. Bytes(s) \in Seq(Byte)
    BY BytesType
  <2>2. DOMAIN Bytes(s) = 1 .. Len(Bytes(s)) /\ DOMAIN s = 1 .. Len(s)
    BY <2>1, SequenceIs
  <2> QED BY <2>2, CharAssumption
<1>1. ASSUME NEW k \in 1 .. Len(Bytes(s)), Bytes(s)[k] = " "
      PROVE  " " \in Range(s)
  <2>1. PICK p \in 1 .. Len(s) : s[p] = " "
    BY <1>0, <1>1, NarrowByte
  <2> QED BY <1>0, <2>1 DEF Range
<1>2. ASSUME NEW p \in 1 .. Len(s), s[p] = " "
      PROVE  " " \in Range(Bytes(s))
  <2>1. At(s, p) \in 1 .. Len(Bytes(s)) /\ Bytes(s)[At(s, p)] = " "
    BY <1>0, <1>2, AtChar
  <2> QED BY <1>0, <2>1 DEF Range
<1> QED
  BY <1>0, <1>1, <1>2 DEF Range

\* A directive that closes is resolved to the variable its text names.
LEMMA ResolveIs ==
  ASSUME CallType, NEW c \in 1 .. Len(call.input), Pair(call.input, c, "("),
         NEW d \in Nat, Closes(call.input, c + 2, d)
  PROVE  Resolve(SubSeq(Input, At(call.input, c + 2), At(call.input, d) - 1)) =
           IF Named(call.vars, call.input, c) = {} THEN None
           ELSE Variable(call.vars, call.input, c)[2]
PROOF
<1> DEFINE s == call.input
           vs == call.vars
           e == c + 2
           text == SubSeq(s, e, d - 1)
           inner == SubSeq(Input, At(s, e), At(s, d) - 1)
           named == {k \in DOMAIN vs : Bytes(vs[k][1]) = inner}
<1>0. /\ s \in Seq(Char) /\ Len(s) \in Nat /\ Input = Bytes(s) /\ vs \in Vars
      /\ e \in 1 .. Len(s) + 1 /\ d \in e .. Len(s) + 1
      /\ Closes(s, e, d)
  BY PastPair DEF CallType, Input, Closes
<1>1. inner = Bytes(text) /\ text \in Seq(Char)
  BY <1>0, BytesCut
<1>2. \A k \in DOMAIN vs : vs[k][1] \in Seq(Char)
  BY <1>0, SequenceIs DEF Vars
<1>3. " " \in Range(text) <=> ~(\A k \in e .. d - 1 : s[k] # " ")
  <2>1. /\ DOMAIN text = 1 .. d - e
        /\ \A k \in 1 .. d - e : text[k] = s[e + k - 1]
    <3>1. \A k \in e .. d - 1 : s[k] \in Char
      BY <1>0
    <3>2. /\ Len(text) = (IF e <= d - 1 THEN (d - 1) - e + 1 ELSE 0)
          /\ \A k \in 1 .. (d - 1) - e + 1 : text[k] = s[e + k - 1]
      BY <1>0, <3>1, SubSeqProperties
    <3>3. (d - 1) - e + 1 = d - e /\ (~(e <= d - 1) => d - e = 0)
      BY <1>0
    <3>4. DOMAIN text = 1 .. Len(text)
      BY <1>1, SequenceIs
    <3> QED BY <3>2, <3>3, <3>4
  <2> HIDE DEF text, e
  <2>2. ASSUME NEW k \in e .. d - 1, s[k] = " " PROVE " " \in Range(text)
    <3>1. k - e + 1 \in 1 .. d - e /\ e + (k - e + 1) - 1 = k
      BY <1>0
    <3> QED BY <2>1, <2>2, <3>1 DEF Range
  <2>3. ASSUME NEW k \in 1 .. d - e, text[k] = " " PROVE \E j \in e .. d - 1 : s[j] = " "
    <3>1. e + k - 1 \in e .. d - 1
      BY <1>0
    <3> QED BY <2>1, <2>3, <3>1
  <2> QED BY <2>1, <2>2, <2>3 DEF Range
<1>4. \A k \in DOMAIN vs : Bytes(vs[k][1]) = inner <=> vs[k][1] = text
  BY <1>1, <1>2, BytesInjective
<1>5. " " \in Range(inner) <=> " " \in Range(text)
  BY <1>1, BlankBytes
<1> HIDE DEF s, vs, e, text, inner
<1>6. \A k \in DOMAIN vs :
        Names(vs[k][1], s, e) <=> vs[k][1] = text /\ " " \notin Range(text)
  <2>1. ASSUME NEW k \in DOMAIN vs
        PROVE  Names(vs[k][1], s, e) <=> vs[k][1] = text /\ " " \notin Range(text)
    <3> DEFINE name == vs[k][1]
    <3>1. name \in Seq(Char)
      BY <1>2
    <3> HIDE DEF name
    <3>2. Names(name, s, e) <=> name = text /\ \A j \in e .. d - 1 : s[j] # " "
      BY <1>0, <3>1, NamesClosed DEF text
    <3> QED BY <1>3, <3>2 DEF name
  <2> QED BY <2>1
<1>7. Named(vs, s, c) = IF " " \in Range(inner) THEN {} ELSE named
  <2>1. Named(vs, s, c) = {k \in DOMAIN vs : Names(vs[k][1], s, e)}
    BY DEF Named, e
  <2> QED BY <1>4, <1>5, <1>6, <2>1
<1>8. Resolve(inner) =
        IF call.method = "expand_location" \/ " " \in Range(inner) \/ named = {} THEN None
        ELSE vs[CHOOSE k \in named : \A l \in named : k <= l][2]
  BY DEF Resolve, vs
<1>9. call.method = "expand_location" => named = {}
  BY DEF CallType, vs
<1> HIDE DEF named
<1>10. CASE " " \in Range(inner) \/ named = {}
  BY <1>7, <1>8, <1>10 DEF vs, s, e, inner
<1>11. CASE ~(" " \in Range(inner) \/ named = {})
  <2>1. Named(vs, s, c) = named /\ named # {}
    BY <1>7, <1>11
  <2>2. Resolve(inner) = vs[CHOOSE k \in named : \A l \in named : k <= l][2]
    BY <1>8, <1>9, <1>11
  <2>3. Variable(vs, s, c) = vs[CHOOSE k \in named : \A l \in named : k <= l]
    BY <2>1 DEF Variable
  <2> QED BY <2>1, <2>2, <2>3 DEF vs, s, e, inner
<1> QED
  BY <1>10, <1>11

\* What the scanner stands at, for every action: see IInv.
Here(c) == Stands(c) /\ ReadBefore(c) /\ EvenAt(c) /\ Written(c) /\ Ended(c)

LEMMA ReadingHere ==
  ASSUME CallType, NEW c \in Nat, Here(c)
  PROVE  /\ call.input \in Seq(Char) /\ Len(call.input) \in Nat
         /\ Input = Bytes(call.input) /\ Len(Input) \in Nat
         /\ c \in 1 .. Len(call.input) + 1
         /\ call.vars \in Vars /\ i \in Nat
         /\ MeaningFrom(call.vars, call.input)[c] =
              Says(call.vars, call.input, MeaningFrom(call.vars, call.input), c)
PROOF
<1>1. call.input \in Seq(Char) /\ call.vars \in Vars /\ Input = Bytes(call.input)
  BY DEF CallType, Input
<1>2. Len(call.input) \in Nat /\ Len(Input) \in Nat /\ c \in 1 .. Len(call.input) + 1
  BY <1>1, AtEnds DEF Here, Stands
<1>3. i \in Nat
  <2>1. c \in c .. Len(call.input) + 1
    BY <1>2
  <2>2. At(call.input, c) \in Nat /\ At(call.input, c) >= 1
    BY <1>1, <1>2, <2>1, BytesCut
  <2> QED BY <2>2 DEF Here, Stands
<1> QED
  BY <1>1, <1>2, <1>3, MeaningIs

LEMMA EscapeIInv ==
  ASSUME IInv, Escape
  PROVE  IInv'
PROOF
<1>1. PICK c \in Nat : Here(c)
  BY DEF IInv, Here
<1> DEFINE s == call.input
           vs == call.vars
           n == c + 2
<1>2. CallType /\ out \in Seq(Byte)
  BY DEF IInv
<1>3. /\ s \in Seq(Char) /\ Len(s) \in Nat /\ c \in 1 .. Len(s) + 1
      /\ MeaningFrom(vs, s)[c] = Says(vs, s, MeaningFrom(vs, s), c)
  BY <1>1, <1>2, ReadingHere
<1>4. i <= Len(Input) /\ Starts("$") /\ outcome = "running"
  BY DEF Escape, Reading
<1>5. i = At(s, c) /\ Pair(s, c, "$") /\ c \in 1 .. Len(s)
  BY <1>1, <1>2, <1>4, SeesPair DEF Here
<1>6. /\ n \in 1 .. Len(s) + 1 /\ s[c] = "$" /\ s[c + 1] = "$"
      /\ At(s, n) = i + 2
  BY <1>3, <1>5, PastPair
<1>7. Stands(n)'
  BY <1>6 DEF Stands, Escape
<1>8. EvenBefore(s, c)
  BY <1>1, <1>5, <1>6 DEF Here, EvenAt
<1>9. EvenAt(n)
  BY <1>5, <1>6, <1>8, EvenStep DEF EvenAt
<1>10. "$" \in Char /\ "$" \in Byte
  BY CharAssumption DEF Byte
<1>11. <<"$">> \in Seq(Char) /\ <<"$">> \in Seq(Byte)
  BY <1>10
<1>12. out' = out \o <<"$">>
  BY <1>2, <1>10 DEF Escape
<1>13. MeaningFrom(vs, s)[c] = Then(<<"$">>, MeaningFrom(vs, s)[n])
  <2>1. ~(c > Len(s))
    BY <1>5
  <2> QED BY <1>3, <1>5, <2>1 DEF Says
<1>14. \A p \in c .. n - 1 : ~Opens(s, p)
  <2>1. ~Opens(s, c)
    BY <1>6 DEF Opens
  <2>2. ~Opens(s, c + 1)
    BY <1>5, <1>8, OddNext, OpensPair
  <2>3. \A p \in c .. n - 1 : p = c \/ p = c + 1
    BY <1>3
  <2> QED BY <2>1, <2>2, <2>3
<1>15. n \in c + 1 .. Len(s) + 1
  BY <1>3, <1>6
<1>16. call' = call /\ outcome' = outcome
  BY DEF Escape
<1> HIDE DEF n
<1> QED
  BY <1>1, <1>2, <1>4, <1>7, <1>9, <1>11, <1>12, <1>13, <1>14, <1>15, <1>16, Advance DEF Here

LEMMA LiteralIInv ==
  ASSUME IInv, Literal
  PROVE  IInv'
PROOF
<1>1. PICK c \in Nat : Here(c)
  BY DEF IInv, Here
<1> DEFINE s == call.input
           vs == call.vars
<1>2. CallType /\ out \in Seq(Byte)
  BY DEF IInv
<1>3. /\ s \in Seq(Char) /\ Len(s) \in Nat /\ c \in 1 .. Len(s) + 1 /\ i \in Nat
      /\ Input = Bytes(s)
      /\ MeaningFrom(vs, s)[c] = Says(vs, s, MeaningFrom(vs, s), c)
  BY <1>1, <1>2, ReadingHere
<1>4. /\ i <= Len(Input) /\ ~Starts("$") /\ ~Starts("(") /\ outcome = "running"
      /\ out' = Append(out, Input[i]) /\ i' = i + 1 /\ call' = call /\ outcome' = outcome
  BY DEF Literal, Reading, AsChar
<1>5. i >= 1 /\ Input[i] \in Byte
  <2>1. Bytes(s) \in Seq(Byte)
    BY <1>3, BytesType
  <2>2. i >= 1
    <3>1. c \in c .. Len(s) + 1
      BY <1>3
    <3>2. At(s, c) >= 1 /\ At(s, c) \in Nat
      BY <1>3, <3>1, BytesCut
    <3>3. CASE i = At(s, c)
      BY <3>2, <3>3
    <3>4. CASE i # At(s, c)
      <4>1. c > 1 /\ i = At(s, c) - 1
        BY <1>1, <3>4 DEF Here, Stands
      <4>2. 1 \in 1 .. Len(s) + 1 /\ At(s, 1) = 1
        BY <1>3, AtEnds
      <4>3. At(s, 1) < At(s, c)
        BY <1>3, <4>1, <4>2, AtGrows
      <4> QED BY <3>2, <4>1, <4>2, <4>3
    <3> QED BY <3>3, <3>4
  <2> QED BY <1>3, <1>4, <2>1, <2>2
<1> DEFINE w == <<Input[i]>>
<1>6. w \in Seq(Byte) /\ out' = out \o w
  BY <1>2, <1>4, <1>5
<1> HIDE DEF w
<1>7. CASE i = At(s, c)
  <2> DEFINE n == c + 1
             u == <<s[c]>>
  <2>1. c \in 1 .. Len(s) /\ ~Pair(s, c, "$") /\ ~Pair(s, c, "(")
    BY <1>1, <1>2, <1>4, <1>7, SeesPair DEF Here
  <2>2. /\ s[c] \in Char
        /\ At(s, n) = i + (IF s[c] = Wide THEN 2 ELSE 1)
        /\ Input[i] = IF s[c] = Wide THEN Lead ELSE s[c]
    BY <1>3, <1>7, <2>1, AtChar
  <2>3. u \in Seq(Char)
    BY <2>2
  <2>4. n \in c + 1 .. Len(s) + 1 /\ n - 1 = c /\ n > 1 /\ n \in 1 .. Len(s) + 1
    BY <1>3, <2>1
  <2>5. Ascii => u = w
    <3>1. Ascii => s[c] # Wide
      BY <2>1, <1>3 DEF Ascii, Range
    <3> QED BY <2>2, <3>1 DEF w
  <2>6. Stands(n)'
    <3>1. i' = At(s, n) \/ (s[n - 1] = Wide /\ i' = At(s, n) - 1)
      BY <1>3, <1>4, <2>2, <2>4
    <3> QED BY <1>4, <2>4, <3>1 DEF Stands
  <2>7. EvenAt(n)
    <3> SUFFICES ASSUME n <= Len(s), s[n] = "$" PROVE EvenBefore(s, n)
      BY DEF EvenAt
    <3>1. s[c] # "$"
      BY <1>3, <2>1 DEF Pair
    <3>2. n \in Nat /\ n >= 1 /\ s[n - 1] # "$"
      BY <2>4, <3>1
    <3> QED BY <3>2, EvenStart
  <2>8. MeaningFrom(vs, s)[c] = Then(u, MeaningFrom(vs, s)[n])
    <3>1. ~(c > Len(s))
      BY <2>1
    <3> QED BY <1>3, <2>1, <3>1 DEF Says
  <2>9. \A p \in c .. n - 1 : ~Opens(s, p)
    <3>1. ~Opens(s, c)
      BY <2>1, OpensPair
    <3> QED BY <2>4, <3>1
  <2> HIDE DEF n, u
  <2> QED
    BY <1>1, <1>2, <1>4, <1>6, <2>3, <2>4, <2>5, <2>6, <2>7, <2>8, <2>9, Advance DEF Here
<1>8. CASE i # At(s, c)
  <2>1. c > 1 /\ s[c - 1] = Wide /\ i' = At(s, c)
    <3>1. c > 1 /\ s[c - 1] = Wide /\ i = At(s, c) - 1
      BY <1>1, <1>8 DEF Here, Stands
    <3>2. c \in c .. Len(s) + 1
      BY <1>3
    <3>3. At(s, c) \in Nat
      BY <1>3, <3>2, BytesCut
    <3> QED BY <1>4, <3>1, <3>3
  <2>2. Stands(c)'
    BY <1>3, <1>4, <2>1 DEF Stands
  <2>3. ~Ascii
    <3>1. c - 1 \in DOMAIN s
      BY <1>3, <2>1
    <3> QED BY <2>1, <3>1 DEF Ascii, Range
  <2>4. ReadBefore(c)' /\ EvenAt(c)' /\ Ended(c)'
    BY <1>1, <1>4 DEF Here, ReadBefore, EvenAt, Ended, Resolved
  <2>5. Written(c)'
    BY <1>1, <1>4, <2>3 DEF Here, Written, Ascii
  <2>6. CallType' /\ outcome' \in {"running", "ok", "unterminated", "unsupported"}
    BY <1>2, <1>4 DEF CallType
  <2>7. out' \in Seq(Byte)
    BY <1>2, <1>6
  <2> QED
    BY <2>2, <2>4, <2>5, <2>6, <2>7 DEF IInv
<1> QED
  BY <1>7, <1>8

LEMMA DirectiveIInv ==
  ASSUME IInv, Directive
  PROVE  IInv'
PROOF
<1>1. PICK c \in Nat : Here(c)
  BY DEF IInv, Here
<1> DEFINE s == call.input
           vs == call.vars
           close == Find(")", i + 2)
           replacement == Resolve(SubSeq(Input, i + 2, close - 1))
           v == Variable(vs, s, c)
<1>2. CallType /\ out \in Seq(Byte)
  BY DEF IInv
<1>3. /\ s \in Seq(Char) /\ Len(s) \in Nat /\ c \in 1 .. Len(s) + 1 /\ vs \in Vars
      /\ MeaningFrom(vs, s)[c] = Says(vs, s, MeaningFrom(vs, s), c)
  BY <1>1, <1>2, ReadingHere
<1>4. i <= Len(Input) /\ Starts("(") /\ outcome = "running" /\ close # 0 /\ call' = call
  BY DEF Directive, Reading
<1>5. i = At(s, c) /\ Pair(s, c, "(") /\ c \in 1 .. Len(s)
  BY <1>1, <1>2, <1>4, SeesPair DEF Here
<1>6. /\ c + 2 \in 1 .. Len(s) + 1 /\ s[c] = "$" /\ s[c + 1] = "("
      /\ At(s, c + 2) = i + 2
  BY <1>3, <1>5, PastPair
<1>7. PICK d \in Nat : Closes(s, c + 2, d) /\ close = At(s, d)
  BY <1>2, <1>4, <1>5, ClosedAt
<1>8. replacement = IF Named(vs, s, c) = {} THEN None ELSE v[2]
  BY <1>2, <1>5, <1>6, <1>7, ResolveIs
<1>9. ~(c > Len(s)) /\ ~Pair(s, c, "$")
  BY <1>5, <1>6 DEF Pair
<1>10. \/ replacement # None /\ out' = out \o replacement /\ i' = close + 1 /\ outcome' = outcome
       \/ replacement = None /\ outcome' = "unsupported" /\ i' = i /\ out' = out
  BY DEF Directive
<1> HIDE DEF close, replacement
<1>11. CASE replacement # None
  <2> DEFINE n == d + 1
             w == v[2]
  <2>1. Named(vs, s, c) # {} /\ replacement = w
    BY <1>8, <1>11
  <2>2. v \in Seq(Char) \X Seq(Char) /\ Names(v[1], s, c + 2)
    BY <1>3, <1>5, <2>1, VariableIs
  <2>3. w \in Seq(Char) /\ w \in Seq(Byte)
    <3>1. w \in Seq(Char) /\ Char \subseteq Byte
      BY <2>2 DEF Byte
    <3> QED BY <3>1, SeqMonotonic
  <2>4. /\ d \in c + 2 .. Len(s) /\ s[d] = ")" /\ \A k \in c + 2 .. d - 1 : s[k] # ")"
    BY <1>7 DEF Closes
  <2>5. v[1] = SubSeq(s, c + 2, d - 1) /\ v[1] \in Seq(Char)
    <3> DEFINE name == v[1]
               e == c + 2
    <3>1. name \in Seq(Char) /\ Names(name, s, e) /\ e \in 1 .. Len(s) + 1 /\ Closes(s, e, d)
      BY <1>6, <1>7, <2>2
    <3> HIDE DEF name, e
    <3>2. name = SubSeq(s, e, d - 1)
      BY <1>3, <3>1, NamesClosed
    <3> QED BY <3>1, <3>2 DEF name, e
  <2>6. c + Len(v[1]) + 3 = n
    <3>1. \A k \in c + 2 .. d - 1 : s[k] \in Char
      BY <1>3, <2>4
    <3>2. Len(SubSeq(s, c + 2, d - 1)) = IF c + 2 <= d - 1 THEN (d - 1) - (c + 2) + 1 ELSE 0
      BY <1>3, <3>1, SubSeqProperties
    <3>3. Len(SubSeq(s, c + 2, d - 1)) = d - c - 2
      BY <1>3, <2>4, <3>2
    <3> QED BY <1>3, <2>5, <3>3
  <2>7. MeaningFrom(vs, s)[c] = Then(w, MeaningFrom(vs, s)[n])
    BY <1>3, <1>5, <1>9, <2>1, <2>6 DEF Says
  <2>8. n \in c + 1 .. Len(s) + 1 /\ n - 1 = d /\ n \in 1 .. Len(s) + 1
    BY <1>3, <2>4
  <2>9. Stands(n)'
    <3>0. ")" # Wide
      BY CharAssumption
    <3>1. d \in 1 .. Len(s) /\ s[d] # Wide
      BY <1>3, <2>4, <3>0
    <3>2. At(s, n) = At(s, d) + 1
      BY <1>3, <3>1, AtChar
    <3>3. i' = At(s, n)
      BY <1>7, <1>10, <1>11, <3>2
    <3> QED BY <1>4, <2>8, <3>3 DEF Stands
  <2>10. EvenAt(n)
    <3> SUFFICES ASSUME n <= Len(s), s[n] = "$" PROVE EvenBefore(s, n)
      BY DEF EvenAt
    <3>1. n \in Nat /\ n >= 1 /\ s[n - 1] # "$"
      BY <2>4, <2>8
    <3> QED BY <3>1, EvenStart
  <2>11. Resolved(c)
    <3>1. PICK k \in DOMAIN vs : Names(vs[k][1], s, c + 2)
      BY <2>1 DEF Named
    <3>2. call.method = "expand_make_variables"
      <4>1. vs # <<>>
        BY <3>1
      <4> QED BY <1>2, <4>1 DEF CallType
    <3> QED BY <3>1, <3>2 DEF Resolved
  <2>12. ASSUME NEW p \in c .. n - 1, Opens(s, p), ~Inside(s, p) PROVE Resolved(p)
    <3>1. CASE p = c
      BY <2>11, <3>1
    <3>2. CASE p # c
      <4>1. Opens(s, c)
        <5>1. EvenBefore(s, c)
          BY <1>1, <1>5, <1>6 DEF Here, EvenAt
        <5> QED BY <1>5, <5>1, OpensPair
      <4>2. ASSUME NEW k \in c .. p - 1 PROVE s[k] # ")"
        <5>1. k = c \/ k = c + 1 \/ k \in c + 2 .. d - 1
          BY <1>3, <2>4, <2>8
        <5> QED BY <1>6, <2>4, <5>1
      <4>3. c \in 1 .. p - 1
        BY <1>3, <3>2
      <4> QED BY <2>12, <4>1, <4>2, <4>3 DEF Inside
    <3> QED BY <3>1, <3>2
  <2>13. out' = out \o w /\ outcome' = outcome
    BY <1>10, <1>11, <2>1
  <2> HIDE DEF n, w, v
  <2> QED
    BY <1>1, <1>2, <1>4, <2>3, <2>7, <2>8, <2>9, <2>10, <2>12, <2>13, Advance DEF Here
<1>12. CASE replacement = None
  <2>1. outcome' = "unsupported" /\ i' = i /\ out' = out
    BY <1>10, <1>12
  <2>2. MeaningFrom(vs, s)[c] = None
    <3>1. Named(vs, s, c) = {}
      <4> SUFFICES ASSUME Named(vs, s, c) # {} PROVE FALSE
        OBVIOUS
      <4>1. v[2] \in Seq(Char) /\ v[2] = None
        BY <1>3, <1>5, <1>8, <1>12, VariableIs
      <4> QED BY <4>1, VarAssumption
    <3> QED BY <1>3, <1>5, <1>9, <3>1 DEF Says
  <2>3. Stands(c)' /\ ReadBefore(c)' /\ EvenAt(c)' /\ Written(c)' /\ CallType'
    BY <1>1, <1>2, <1>4, <2>1 DEF Here, Stands, ReadBefore, EvenAt, Written, Resolved, Ascii, CallType
  <2>4. Ended(c)'
    BY <1>4, <2>1, <2>2 DEF Ended
  <2> QED
    BY <1>2, <2>1, <2>3, <2>4 DEF IInv
<1> QED
  BY <1>11, <1>12

LEMMA UnterminatedIInv ==
  ASSUME IInv, Unterminated
  PROVE  IInv'
PROOF
<1>1. PICK c \in Nat : Here(c)
  BY DEF IInv, Here
<1> DEFINE s == call.input
           vs == call.vars
<1>2. CallType /\ out \in Seq(Byte)
  BY DEF IInv
<1>3. /\ s \in Seq(Char) /\ Len(s) \in Nat /\ c \in 1 .. Len(s) + 1 /\ vs \in Vars
      /\ MeaningFrom(vs, s)[c] = Says(vs, s, MeaningFrom(vs, s), c)
  BY <1>1, <1>2, ReadingHere
<1>4. /\ i <= Len(Input) /\ Starts("(") /\ outcome = "running" /\ Find(")", i + 2) = 0
      /\ call' = call /\ i' = i /\ out' = out /\ outcome' = "unterminated"
  BY DEF Unterminated, Reading
<1>5. i = At(s, c) /\ Pair(s, c, "(") /\ c \in 1 .. Len(s)
  BY <1>1, <1>2, <1>4, SeesPair DEF Here
<1>6. c + 2 \in 1 .. Len(s) + 1 /\ s[c + 1] = "("
  BY <1>3, <1>5, PastPair
<1>7. \A k \in c + 2 .. Len(s) : s[k] # ")"
  BY <1>2, <1>4, <1>5, ClosedAt
<1>8. Named(vs, s, c) = {}
  <2>1. \A k \in DOMAIN vs : vs[k][1] \in Seq(Char)
    BY <1>3, SequenceIs DEF Vars
  <2>2. \A name \in Seq(Char) : ~Names(name, s, c + 2)
    <3> DEFINE e == c + 2
    <3>1. e \in 1 .. Len(s) + 1 /\ \A k \in e .. Len(s) : s[k] # ")"
      BY <1>6, <1>7
    <3> HIDE DEF e
    <3>2. \A name \in Seq(Char) : ~Names(name, s, e)
      BY <1>3, <3>1, NamesOpen
    <3> QED BY <3>2 DEF e
  <2> QED BY <2>1, <2>2 DEF Named
<1>9. MeaningFrom(vs, s)[c] = None
  <2>1. ~(c > Len(s)) /\ ~Pair(s, c, "$")
    BY <1>5, <1>6 DEF Pair
  <2> QED BY <1>3, <1>5, <1>8, <2>1 DEF Says
<1>10. Stands(c)' /\ ReadBefore(c)' /\ EvenAt(c)' /\ Written(c)' /\ CallType'
  BY <1>1, <1>2, <1>4 DEF Here, Stands, ReadBefore, EvenAt, Written, Resolved, Ascii, CallType
<1>11. Ended(c)'
  BY <1>4, <1>9 DEF Ended
<1> QED
  BY <1>2, <1>4, <1>10, <1>11 DEF IInv

LEMMA FinishIInv ==
  ASSUME IInv, Finish
  PROVE  IInv'
PROOF
<1>1. PICK c \in Nat : Here(c)
  BY DEF IInv, Here
<1> DEFINE s == call.input
<1>2. CallType /\ out \in Seq(Byte)
  BY DEF IInv
<1>3. /\ s \in Seq(Char) /\ Len(s) \in Nat /\ c \in 1 .. Len(s) + 1 /\ i \in Nat
      /\ Input = Bytes(s) /\ Len(Input) \in Nat
  BY <1>1, <1>2, ReadingHere
<1>4. i > Len(Input) /\ call' = call /\ i' = i /\ out' = out /\ outcome' = "ok"
  BY DEF Finish
<1>5. c = Len(s) + 1
  <2> SUFFICES ASSUME c \in 1 .. Len(s) PROVE FALSE
    BY <1>3
  <2>1. At(s, c) \in 1 .. Len(Bytes(s))
    BY <1>3, AtChar
  <2>2. i = At(s, c) \/ i = At(s, c) - 1
    BY <1>1 DEF Here, Stands
  <2> QED BY <1>3, <1>4, <2>1, <2>2
<1>6. Stands(c)' /\ ReadBefore(c)' /\ EvenAt(c)' /\ Written(c)' /\ CallType'
  BY <1>1, <1>2, <1>4 DEF Here, Stands, ReadBefore, EvenAt, Written, Resolved, Ascii, CallType
<1>7. Ended(c)'
  BY <1>4, <1>5 DEF Ended
<1> QED
  BY <1>2, <1>4, <1>6, <1>7 DEF IInv

LEMMA StepIInv == IInv /\ [Next]_vars => IInv'
PROOF
<1> SUFFICES ASSUME IInv, [Next]_vars PROVE IInv'
  OBVIOUS
<1>1. CASE Escape
  BY <1>1, EscapeIInv
<1>2. CASE Unterminated
  BY <1>2, UnterminatedIInv
<1>3. CASE Directive
  BY <1>3, DirectiveIInv
<1>4. CASE Literal
  BY <1>4, LiteralIInv
<1>5. CASE Finish
  BY <1>5, FinishIInv
<1>6. CASE UNCHANGED vars
  <2>1. call' = call /\ i' = i /\ out' = out /\ outcome' = outcome
    BY <1>6 DEF vars
  <2>2. PICK c \in Nat : Here(c)
    BY DEF IInv, Here
  <2>3. Here(c)'
    BY <2>1, <2>2 DEF Here, Stands, ReadBefore, EvenAt, Written, Ended, Resolved, Ascii
  <2>4. CallType' /\ out' \in Seq(Byte)
        /\ outcome' \in {"running", "ok", "unterminated", "unsupported"}
    BY <2>1 DEF IInv, CallType
  <2> QED BY <2>3, <2>4 DEF IInv, Here
<1> QED
  BY <1>1, <1>2, <1>3, <1>4, <1>5, <1>6 DEF Next

LEMMA AlwaysIInv == Spec => []IInv
PROOF
<1> QED
  BY InitIInv, StepIInv, PTL DEF Spec
-----------------------------------------------------------------------------
(* The theorems. *)

\* The scanner stays within the input (values_ctx.rs, expand_directives):
\* its indices and slices never leave it.
THEOREM ScannerTypes == Spec => []TypeOK
PROOF
<1>1. IInv => TypeOK
  <2> SUFFICES ASSUME IInv PROVE TypeOK
    OBVIOUS
  <2>1. PICK c \in Nat : Here(c)
    BY DEF IInv, Here
  <2> DEFINE s == call.input
  <2>2. CallType
    BY DEF IInv
  <2>3. /\ s \in Seq(Char) /\ Len(s) \in Nat /\ c \in 1 .. Len(s) + 1 /\ i \in Nat
        /\ Input = Bytes(s) /\ Len(Input) \in Nat
    BY <2>1, <2>2, ReadingHere
  <2>4. At(s, c) \in Nat /\ At(s, c) >= 1 /\ At(s, c) <= Len(Input) + 1
    <3>1. c \in c .. Len(s) + 1
      BY <2>3
    <3> QED BY <2>3, <3>1, BytesCut
  <2>5. c > 1 => At(s, c) > 1
    <3>1. 1 \in 1 .. Len(s) + 1 /\ At(s, 1) = 1
      BY <2>3, AtEnds
    <3> QED BY <2>3, <3>1, AtGrows
  <2>6. i \in 1 .. Len(Input) + 1
    BY <2>1, <2>3, <2>4, <2>5 DEF Here, Stands
  <2> QED BY <2>6 DEF TypeOK, IInv
<1> QED
  BY <1>1, AlwaysIInv, PTL

\* Whatever the input and the variables, an expansion that succeeds has met no
\* directive it cannot resolve (values_ctx.rs: "FAIL-CLOSED on any unsupported
\* $(...) form").
THEOREM DirectivesResolved == Spec => []FailClosed
PROOF
<1>1. IInv => FailClosed
  <2> SUFFICES ASSUME IInv, outcome = "ok", NEW p \in DOMAIN call.input,
                      Opens(call.input, p), ~Inside(call.input, p)
               PROVE  Resolved(p)
    BY DEF FailClosed, Resolved
  <2>1. PICK c \in Nat : Here(c)
    BY DEF IInv, Here
  <2>2. c = Len(call.input) + 1
    BY <2>1 DEF Here, Ended
  <2>3. DOMAIN call.input = 1 .. Len(call.input) /\ Len(call.input) \in Nat
    BY SequenceIs DEF IInv, CallType
  <2>4. p \in 1 .. c - 1
    BY <2>2, <2>3
  <2> QED BY <2>1, <2>4 DEF Here, ReadBefore
<1> QED
  BY <1>1, AlwaysIInv, PTL

\* The byte scanner gives, on ASCII text, what the text says character by
\* character, and it fails only where the text cannot be expanded
\* (values_ctx.rs, expand_directives).
THEOREM ExpansionIsMeaning == Spec => []ExpandsMeaning
PROOF
<1>1. IInv => ExpandsMeaning
  <2> SUFFICES ASSUME IInv PROVE ExpandsMeaning
    OBVIOUS
  <2>1. PICK c \in Nat : Here(c)
    BY DEF IInv, Here
  <2> DEFINE s == call.input
             says == MeaningFrom(call.vars, s)
  <2>2. CallType /\ out \in Seq(Byte)
    BY DEF IInv
  <2>3. /\ s \in Seq(Char) /\ Len(s) \in Nat /\ c \in 1 .. Len(s) + 1
        /\ says[c] = Says(call.vars, s, says, c)
    BY <2>1, <2>2, ReadingHere
  <2>4. ASSUME outcome = "ok", Ascii PROVE out = Meaning
    <3>1. c = Len(s) + 1
      BY <2>1, <2>4 DEF Here, Ended
    <3>2. says[c] = <<>>
      <4>1. c > Len(s)
        BY <2>3, <3>1
      <4>2. Says(call.vars, s, says, c) = <<>>
        BY <4>1 DEF Says
      <4> QED BY <2>3, <4>2
    <3>3. <<>> # None
      <4>1. <<>> \in Seq(Char)
        OBVIOUS
      <4> QED BY <4>1, VarAssumption
    <3>4. says[1] = out \o <<>>
      BY <2>1, <2>4, <3>2, <3>3 DEF Here, Written
    <3>5. out \o <<>> = out
      BY <2>2, ConcatEmptySeq
    <3> QED BY <3>4, <3>5 DEF Meaning
  <2>5. ASSUME outcome \in {"unterminated", "unsupported"} PROVE Meaning = None
    <3>1. says[c] = None
      BY <2>1, <2>5 DEF Here, Ended
    <3> QED BY <2>1, <3>1 DEF Here, Written, Meaning
  <2> QED BY <2>4, <2>5 DEF ExpandsMeaning
<1> QED
  BY <1>1, AlwaysIInv, PTL
=============================================================================
