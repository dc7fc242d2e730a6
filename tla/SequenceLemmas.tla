---------------------------- MODULE SequenceLemmas ----------------------------
(***************************************************************************)
(* What the proofs of this project need to know of sequences and of the    *)
(* two operators the models build them with, FlattenSeq and FoldLeft.      *)
(*                                                                         *)
(* Both are recursive functions.  The library's induction theorems take a  *)
(* predicate as a parameter, which no backend here can instantiate; the    *)
(* two lemmas that open this module put induction in terms of a SET        *)
(* instead, which is a constant like any other.  A fact about every number *)
(* is proved by defining the set of the numbers it holds of.               *)
(***************************************************************************)
EXTENDS Integers, Sequences, SequencesExt, Ordering, WellFoundedInduction, FiniteSetTheorems,
        SequenceTheorems, TLAPS

\* A set of naturals that is not empty has a least element.
LEMMA LeastNatural ==
  ASSUME NEW T \in SUBSET Nat, T # {}
  PROVE  \E n \in T : \A m \in T : n <= m
PROOF
<1> DEFINE R == OpToRel(<, Nat)
<1>1. \A m, n \in Nat : m < n => <<m, n>> \in R
  BY DEF OpToRel
<1>2. IsWellFoundedOn(R, Nat)
  BY NatLessThanWellFounded
<1> HIDE DEF R
<1>3. PICK n \in T : \A m \in T : <<m, n>> \notin R
  BY <1>2, WFMin
<1>4. \A m \in T : ~ (m < n)
  BY <1>1, <1>3
<1>5. \A m \in T : n <= m
  <2> TAKE m \in T
  <2>1. m \in Nat /\ n \in Nat /\ ~(m < n)
    BY <1>4
  <2> QED BY <2>1
<1> QED
  BY <1>5

\* Induction, for a set: one with zero and with the successor of each natural
\* it has holds every natural.
LEMMA SetInduction ==
  ASSUME NEW S, 0 \in S, \A n \in Nat : n \in S => n + 1 \in S
  PROVE  Nat \subseteq S
PROOF
<1> DEFINE T == Nat \ S
<1> SUFFICES ASSUME T # {} PROVE FALSE
  OBVIOUS
<1> HIDE DEF T
<1>1. PICK n \in T : \A m \in T : n <= m
  BY LeastNatural DEF T
<1>2. n # 0 /\ n - 1 \in Nat
  BY DEF T
<1>3. n - 1 \in S
  BY <1>1, <1>2 DEF T
<1> QED
  BY <1>2, <1>3 DEF T

\* Induction over the places of a sequence, each resting on all before it.
LEMMA BelowInduction ==
  ASSUME NEW n \in Nat, NEW T,
         \A k \in 1 .. n : (\A j \in 1 .. k - 1 : j \in T) => k \in T
  PROVE  1 .. n \subseteq T
PROOF
<1> DEFINE U == {k \in 1 .. n : k \notin T}
<1> SUFFICES ASSUME U # {} PROVE FALSE
  OBVIOUS
<1>1. U \in SUBSET Nat
  OBVIOUS
<1>2. PICK k \in U : \A m \in U : k <= m
  <2> HIDE DEF U
  <2> QED BY <1>1, LeastNatural
<1>3. \A j \in 1 .. k - 1 : j \in T
  BY <1>2
<1> QED
  BY <1>2, <1>3

\* step gives, for a place and a function, the value there; it looks at the
\* function below that place only.
RestsBelow(step, n, V) ==
  /\ \A k \in 1 .. n : \A g \in [1 .. n -> V] : step[k][g] \in V
  /\ \A k \in 1 .. n : \A g, h \in [1 .. n -> V] :
       (\A j \in 1 .. k - 1 : g[j] = h[j]) => step[k][g] = step[k][h]

Recurses(step, n, V) ==
  \E g \in [1 .. n -> V] : \A k \in 1 .. n : g[k] = step[k][g]

\* A function whose value at each place rests on its values below exists.
LEMMA RecursionExists ==
  ASSUME NEW n \in Nat, NEW V, V # {}, NEW step, RestsBelow(step, n, V)
  PROVE  Recurses(step, n, V)
PROOF
<1> USE DEF RestsBelow, Recurses
<1> DEFINE D(g, m) == g \in [1 .. n -> V] /\ \A k \in 1 .. m : g[k] = step[k][g]
           S == {m \in Nat : m <= n => \E g : D(g, m)}
<1>1. 0 \in S
  <2>1. PICK v \in V : TRUE
    OBVIOUS
  <2>2. D([k \in 1 .. n |-> v], 0)
    OBVIOUS
  <2> HIDE DEF D
  <2> QED BY <2>2
<1>2. ASSUME NEW m \in Nat, m \in S, m + 1 <= n
      PROVE  \E g : D(g, m + 1)
  <2>0. m <= n
    BY <1>2
  <2>1. PICK g : D(g, m)
    <3> HIDE DEF D
    <3> QED BY <1>2, <2>0
  <2> DEFINE h == [g EXCEPT ![m + 1] = step[m + 1][g]]
  <2>2. m + 1 \in 1 .. n /\ step[m + 1][g] \in V
    BY <1>2, <2>1
  <2>3. h \in [1 .. n -> V] /\ h[m + 1] = step[m + 1][g]
        /\ \A k \in 1 .. n : k # m + 1 => h[k] = g[k]
    BY <2>1, <2>2
  <2> HIDE DEF h
  <2>4. ASSUME NEW k \in 1 .. m + 1 PROVE h[k] = step[k][h]
    <3>1. k \in 1 .. n /\ \A j \in 1 .. k - 1 : j \in 1 .. n /\ j # m + 1
      BY <1>2
    <3>2. \A j \in 1 .. k - 1 : g[j] = h[j]
      BY <2>3, <3>1
    <3>3. step[k][g] = step[k][h]
      BY <2>1, <2>3, <3>1, <3>2
    <3>4. h[k] = step[k][g]
      BY <2>1, <2>3, <3>1
    <3> QED BY <3>3, <3>4
  <2>5. D(h, m + 1)
    BY <2>3, <2>4
  <2> HIDE DEF D
  <2> QED BY <2>5
<1> HIDE DEF D
<1>3. \A m \in Nat : m \in S => m + 1 \in S
  BY <1>2
<1> HIDE DEF S
<1>4. n \in S
  BY <1>1, <1>3, SetInduction
<1>5. \E g : D(g, n)
  BY <1>4 DEF S
<1> QED
  BY <1>5 DEF D

\* The function FlattenSeq chooses, the lists joined so far, exists for every
\* length.
LEMMA FlattenExists ==
  ASSUME NEW ss, NEW n \in Nat
  PROVE  \E g : g = [i \in 1 .. n |-> IF i = 1 THEN ss[i] ELSE g[i - 1] \o ss[i]]
PROOF
<1> DEFINE D(g, m) == g = [i \in 1 .. m |-> IF i = 1 THEN ss[i] ELSE g[i - 1] \o ss[i]]
           S == {m \in Nat : \E g : D(g, m)}
<1>1. 0 \in S
  <2>1. D(<<>>, 0)
    BY Z3
  <2> QED BY <2>1
<1>2. ASSUME NEW m \in Nat, m \in S PROVE m + 1 \in S
  <2>1. PICK g : D(g, m)
    BY <1>2
  <2> DEFINE next == IF m = 0 THEN ss[1] ELSE g[m] \o ss[m + 1]
             h == [i \in 1 .. m + 1 |-> IF i = m + 1 THEN next ELSE g[i]]
  <2>2. ASSUME NEW i \in 1 .. m + 1
        PROVE  h[i] = IF i = 1 THEN ss[i] ELSE h[i - 1] \o ss[i]
    <3>1. CASE i = m + 1
      <4>1. h[i] = next
        BY <3>1
      <4>2. i # 1 => h[i - 1] = g[m]
        BY <3>1
      <4> QED BY <3>1, <4>1, <4>2
    <3>2. CASE i # m + 1
      <4>1. i \in 1 .. m /\ h[i] = g[i]
        BY <3>2
      <4>2. i # 1 => h[i - 1] = g[i - 1]
        BY <3>2
      <4> HIDE DEF h
      <4>3. g[i] = IF i = 1 THEN ss[i] ELSE g[i - 1] \o ss[i]
        BY <2>1, <4>1
      <4> QED BY <4>1, <4>2, <4>3
    <3> QED BY <3>1, <3>2
  <2>3. h = [i \in 1 .. m + 1 |-> h[i]]
    OBVIOUS
  <2> HIDE DEF h
  <2>4. D(h, m + 1)
    BY <2>2, <2>3
  <2> HIDE DEF D
  <2> QED
    BY <2>4
<1> HIDE DEF S
<1>3. n \in S
  BY <1>1, <1>2, SetInduction
<1> QED
  BY <1>3 DEF S

\* FlattenSeq is the last value of a function that satisfies its recursive
\* equation.
LEMMA FlattenChosen ==
  ASSUME NEW ss, Len(ss) \in Nat, Len(ss) # 0
  PROVE  \E g : /\ g = [i \in 1 .. Len(ss) |-> IF i = 1 THEN ss[i] ELSE g[i - 1] \o ss[i]]
                /\ FlattenSeq(ss) = g[Len(ss)]
PROOF
<1>1. \E g : g = [i \in 1 .. Len(ss) |-> IF i = 1 THEN ss[i] ELSE g[i - 1] \o ss[i]]
  BY FlattenExists
<1> QED
  BY <1>1 DEF FlattenSeq

\* A set that has the empty sequence and is closed under concatenation has
\* every list flattened from its elements.
LEMMA FlattenClosed ==
  ASSUME NEW C, <<>> \in C, \A s, t \in C : s \o t \in C, NEW ss \in Seq(C)
  PROVE  FlattenSeq(ss) \in C
PROOF
<1>1. CASE Len(ss) = 0
  BY <1>1 DEF FlattenSeq
<1>2. CASE Len(ss) # 0
  <2>0. Len(ss) \in Nat /\ \A i \in 1 .. Len(ss) : ss[i] \in C
    OBVIOUS
  <2>1. PICK g : /\ g = [i \in 1 .. Len(ss) |-> IF i = 1 THEN ss[i] ELSE g[i - 1] \o ss[i]]
                 /\ FlattenSeq(ss) = g[Len(ss)]
    BY <1>2, <2>0, FlattenChosen
  <2> DEFINE S == {m \in Nat : m \in 1 .. Len(ss) => g[m] \in C}
  <2>2. \A i \in 1 .. Len(ss) : g[i] = IF i = 1 THEN ss[i] ELSE g[i - 1] \o ss[i]
    BY <2>1
  <2>3. ASSUME NEW m \in Nat, m \in S, m + 1 \in 1 .. Len(ss) PROVE g[m + 1] \in C
    <3>1. CASE m = 0
      BY <2>0, <2>2, <2>3, <3>1
    <3>2. CASE m # 0
      <4>1. m \in 1 .. Len(ss) /\ g[m] \in C
        BY <2>0, <2>3, <3>2
      <4>2. m + 1 # 1 /\ (m + 1) - 1 = m
        BY <3>2
      <4>3. g[m + 1] = g[m] \o ss[m + 1]
        BY <2>2, <2>3, <4>2
      <4> QED BY <2>0, <2>3, <4>1, <4>3
    <3> QED BY <3>1, <3>2
  <2>4. 0 \in S /\ \A m \in Nat : m \in S => m + 1 \in S
    BY <2>3
  <2> HIDE DEF S
  <2>5. Len(ss) \in S
    BY <2>0, <2>4, SetInduction
  <2> QED
    BY <1>2, <2>0, <2>1, <2>5 DEF S
<1> QED
  BY <1>1, <1>2

\* Flattening a list of sequences over S gives a sequence over S.
LEMMA FlattenType ==
  ASSUME NEW S, NEW ss \in Seq(Seq(S))
  PROVE  FlattenSeq(ss) \in Seq(S)
PROOF
<1> DEFINE C == Seq(S)
<1>1. <<>> \in C /\ \A s, t \in C : s \o t \in C
  OBVIOUS
<1> HIDE DEF C
<1>2. ASSUME NEW rr \in Seq(C) PROVE FlattenSeq(rr) \in C
  BY <1>1, FlattenClosed
<1> QED
  BY <1>2 DEF C

\* Flattening a list with one more element puts that element last; the
\* flattening of a one-element list is its element, sequence or not.
LEMMA FlattenAppend ==
  ASSUME NEW T, NEW ss \in Seq(T), NEW s \in T
  PROVE  FlattenSeq(Append(ss, s)) = IF ss = <<>> THEN s ELSE FlattenSeq(ss) \o s
PROOF
<1> DEFINE rr == Append(ss, s)
<1>0. /\ Len(ss) \in Nat /\ Len(rr) = Len(ss) + 1
      /\ rr[Len(ss) + 1] = s
      /\ \A i \in 1 .. Len(ss) : rr[i] = ss[i]
  OBVIOUS
<1> HIDE DEF rr
<1>1. PICK h : /\ h = [i \in 1 .. Len(rr) |-> IF i = 1 THEN rr[i] ELSE h[i - 1] \o rr[i]]
               /\ FlattenSeq(rr) = h[Len(rr)]
  <2>1. Len(rr) \in Nat /\ Len(rr) # 0
    BY <1>0
  <2> QED BY <2>1, FlattenChosen
<1>2. \A i \in 1 .. Len(ss) + 1 : h[i] = IF i = 1 THEN rr[i] ELSE h[i - 1] \o rr[i]
  BY <1>0, <1>1
<1>3. CASE ss = <<>>
  <2>1. Len(ss) = 0 /\ 1 \in 1 .. Len(ss) + 1
    BY <1>3
  <2>2. FlattenSeq(rr) = s
    BY <1>0, <1>1, <1>2, <2>1
  <2> QED BY <1>3, <2>2 DEF rr
<1>4. CASE ss # <<>>
  <2>0. Len(ss) # 0
    BY <1>4
  <2>1. PICK g : /\ g = [i \in 1 .. Len(ss) |-> IF i = 1 THEN ss[i] ELSE g[i - 1] \o ss[i]]
                 /\ FlattenSeq(ss) = g[Len(ss)]
    BY <1>0, <2>0, FlattenChosen
  <2>2. \A i \in 1 .. Len(ss) : g[i] = IF i = 1 THEN ss[i] ELSE g[i - 1] \o ss[i]
    BY <2>1
  <2> DEFINE S == {m \in Nat : m \in 1 .. Len(ss) => h[m] = g[m]}
  <2>3. ASSUME NEW m \in Nat, m \in S, m + 1 \in 1 .. Len(ss) PROVE h[m + 1] = g[m + 1]
    <3>1. h[m + 1] = IF m + 1 = 1 THEN rr[m + 1] ELSE h[m] \o rr[m + 1]
      BY <1>0, <1>2, <2>3
    <3>2. g[m + 1] = IF m + 1 = 1 THEN ss[m + 1] ELSE g[m] \o ss[m + 1]
      BY <1>0, <2>2, <2>3
    <3>3. m # 0 => h[m] = g[m]
      BY <1>0, <2>3
    <3> QED BY <1>0, <2>3, <3>1, <3>2, <3>3
  <2>4. 0 \in S /\ \A m \in Nat : m \in S => m + 1 \in S
    BY <2>3
  <2> HIDE DEF S
  <2>5. Len(ss) \in S
    BY <1>0, <2>4, SetInduction
  <2>6. h[Len(ss)] = g[Len(ss)]
    BY <1>0, <2>0, <2>5 DEF S
  <2>7. h[Len(ss) + 1] = h[Len(ss)] \o s
    <3>1. /\ Len(ss) + 1 \in 1 .. Len(ss) + 1 /\ Len(ss) + 1 # 1
          /\ (Len(ss) + 1) - 1 = Len(ss)
      BY <1>0, <2>0
    <3> QED BY <1>0, <1>2, <3>1
  <2>8. FlattenSeq(rr) = FlattenSeq(ss) \o s
    BY <1>0, <1>1, <2>1, <2>6, <2>7
  <2> QED BY <1>4, <2>8 DEF rr
<1> QED
  BY <1>3, <1>4

\* The same where every element is a sequence: no case for the empty list is
\* needed.
LEMMA FlattenAppendSeq ==
  ASSUME NEW S, NEW ss \in Seq(Seq(S)), NEW s \in Seq(S)
  PROVE  FlattenSeq(Append(ss, s)) = FlattenSeq(ss) \o s
PROOF
<1> DEFINE T == Seq(S)
<1>1. FlattenSeq(Append(ss, s)) = IF ss = <<>> THEN s ELSE FlattenSeq(ss) \o s
  <2>1. ss \in Seq(T) /\ s \in T
    OBVIOUS
  <2> HIDE DEF T
  <2> QED BY <2>1, FlattenAppend
<1>2. ss = <<>> => FlattenSeq(ss) = <<>>
  BY DEF FlattenSeq
<1>3. <<>> \o s = s
  OBVIOUS
<1> QED
  BY <1>1, <1>2, <1>3

\* s is a sequence, over whatever set its elements make up: the type of a value
\* nothing else is known of.
IsSequence(s) == s \in Seq(ToSet(s))

\* A sequence over any set is a sequence over its own elements, which that
\* set has.
LEMMA SequenceIs ==
  ASSUME NEW S, NEW s \in Seq(S)
  PROVE  /\ IsSequence(s)
         /\ ToSet(s) \subseteq S
         /\ Len(s) \in Nat
         /\ DOMAIN s = 1 .. Len(s)
PROOF
<1>1. s = [i \in 1 .. Len(s) |-> s[i]] /\ Len(s) \in Nat /\ DOMAIN s = 1 .. Len(s)
  OBVIOUS
<1>2. \A i \in 1 .. Len(s) : s[i] \in ToSet(s)
  BY <1>1 DEF ToSet
<1>3. IsSequence(s)
  BY <1>1, <1>2 DEF IsSequence
<1>4. \A i \in 1 .. Len(s) : s[i] \in S
  OBVIOUS
<1>5. ToSet(s) \subseteq S
  BY <1>1, <1>4 DEF ToSet
<1> QED
  BY <1>1, <1>3, <1>5

\* What a sequence is: a function on 1 .. Len(s), its values its own
\* elements.
LEMMA SequenceFacts ==
  ASSUME NEW s, IsSequence(s)
  PROVE  /\ Len(s) \in Nat
         /\ DOMAIN s = 1 .. Len(s)
         /\ s = [i \in 1 .. Len(s) |-> s[i]]
         /\ \A i \in 1 .. Len(s) : s[i] \in ToSet(s)
BY DEF IsSequence

\* A function on 1 .. n is a sequence of length n.
LEMMA SequenceMade ==
  ASSUME NEW n \in Nat, NEW f, f = [i \in 1 .. n |-> f[i]]
  PROVE  IsSequence(f) /\ Len(f) = n
PROOF
<1>1. \A i \in 1 .. n : f[i] \in ToSet(f)
  BY DEF ToSet
<1>2. f \in Seq(ToSet(f))
  BY <1>1
<1> QED
  BY <1>2 DEF IsSequence

\* What appending an element does to the length, each index and the elements.
LEMMA SequenceAppend ==
  ASSUME NEW s, IsSequence(s), NEW e
  PROVE  /\ IsSequence(Append(s, e))
         /\ Len(Append(s, e)) = Len(s) + 1
         /\ Append(s, e)[Len(s) + 1] = e
         /\ \A i \in 1 .. Len(s) : Append(s, e)[i] = s[i]
         /\ ToSet(Append(s, e)) = ToSet(s) \cup {e}
PROOF
<1> DEFINE S == ToSet(s) \cup {e}
<1>1. s \in Seq(S) /\ e \in S
  BY DEF IsSequence
<1> HIDE DEF S
<1>2. /\ Append(s, e) \in Seq(S)
      /\ Len(Append(s, e)) = Len(s) + 1
      /\ Append(s, e)[Len(s) + 1] = e
      /\ \A i \in 1 .. Len(s) : Append(s, e)[i] = s[i]
  BY <1>1
<1>3. IsSequence(Append(s, e)) /\ DOMAIN Append(s, e) = 1 .. Len(s) + 1 /\ DOMAIN s = 1 .. Len(s)
  BY <1>1, <1>2, SequenceIs
<1>4. Len(s) \in Nat
  BY <1>1
<1>5. ToSet(Append(s, e)) = ToSet(s) \cup {e}
  BY <1>2, <1>3, <1>4 DEF ToSet
<1> QED
  BY <1>2, <1>3, <1>5

\* What joining two sequences does to the length, each index and the
\* elements.
LEMMA SequenceConcat ==
  ASSUME NEW s, IsSequence(s), NEW t, IsSequence(t)
  PROVE  /\ IsSequence(s \o t)
         /\ Len(s \o t) = Len(s) + Len(t)
         /\ \A i \in 1 .. Len(s) : (s \o t)[i] = s[i]
         /\ \A i \in 1 .. Len(t) : (s \o t)[Len(s) + i] = t[i]
         /\ t = <<>> => s \o t = s
         /\ s = <<>> => s \o t = t
         /\ ToSet(s \o t) = ToSet(s) \cup ToSet(t)
PROOF
<1> DEFINE S == ToSet(s) \cup ToSet(t)
<1>1. s \in Seq(S) /\ t \in Seq(S)
  BY DEF IsSequence
<1> HIDE DEF S
<1>2. /\ s \o t \in Seq(S)
      /\ Len(s \o t) = Len(s) + Len(t)
      /\ \A i \in 1 .. Len(s) : (s \o t)[i] = s[i]
      /\ t = <<>> => s \o t = s
      /\ s = <<>> => s \o t = t
  BY <1>1
<1>3. ASSUME NEW i \in 1 .. Len(t) PROVE (s \o t)[Len(s) + i] = t[i]
  <2>1. Len(s) \in Nat /\ Len(t) \in Nat
    BY <1>1
  <2>2. /\ Len(s) + i \in 1 .. Len(s) + Len(t)
        /\ ~(Len(s) + i <= Len(s))
        /\ (Len(s) + i) - Len(s) = i
    BY <2>1
  <2> QED BY <1>1, <2>2, ConcatProperties
<1>4. IsSequence(s \o t)
  BY <1>2, SequenceIs
<1>5. ToSet(s \o t) = ToSet(s) \cup ToSet(t)
  <2>0. Len(s) \in Nat /\ Len(t) \in Nat
    BY <1>1
  <2>1. /\ DOMAIN s = 1 .. Len(s) /\ DOMAIN t = 1 .. Len(t)
        /\ DOMAIN (s \o t) = 1 .. Len(s) + Len(t)
    BY <1>1, <1>2
  <2>2. ASSUME NEW i \in 1 .. Len(s) PROVE s[i] \in ToSet(s \o t)
    <3>1. i \in DOMAIN (s \o t)
      BY <2>0, <2>1
    <3>2. s[i] = (s \o t)[i]
      BY <1>2
    <3> QED BY <3>1, <3>2 DEF ToSet
  <2>3. ASSUME NEW i \in 1 .. Len(t) PROVE t[i] \in ToSet(s \o t)
    <3>1. Len(s) + i \in 1 .. Len(s) + Len(t)
      BY <2>0
    <3>2. t[i] = (s \o t)[Len(s) + i] /\ Len(s) + i \in DOMAIN (s \o t)
      BY <1>3, <2>1, <3>1
    <3> QED BY <3>2 DEF ToSet
  <2>4. ASSUME NEW i \in 1 .. Len(s) + Len(t)
        PROVE  (s \o t)[i] \in ToSet(s) \cup ToSet(t)
    <3>1. CASE i <= Len(s)
      <4>1. i \in 1 .. Len(s)
        BY <2>0, <3>1
      <4> QED BY <1>2, <2>1, <4>1 DEF ToSet
    <3>2. CASE ~(i <= Len(s))
      <4>1. i - Len(s) \in 1 .. Len(t) /\ Len(s) + (i - Len(s)) = i
        BY <2>0, <3>2
      <4>2. (s \o t)[i] = t[i - Len(s)]
        BY <1>3, <4>1
      <4> QED BY <2>1, <4>1, <4>2 DEF ToSet
    <3> QED BY <3>1, <3>2
  <2>5. ToSet(s) \subseteq ToSet(s \o t) /\ ToSet(t) \subseteq ToSet(s \o t)
    BY <2>1, <2>2, <2>3 DEF ToSet
  <2>6. \A x \in ToSet(s \o t) : x \in ToSet(s) \cup ToSet(t)
    <3> TAKE x \in ToSet(s \o t)
    <3>1. PICK i \in 1 .. Len(s) + Len(t) : x = (s \o t)[i]
      BY <2>1 DEF ToSet
    <3> QED BY <2>4, <3>1
  <2> QED
    BY <2>5, <2>6
<1> QED
  BY <1>2, <1>3, <1>4, <1>5

\* A list of sequences flattens to a sequence.
LEMMA SequenceFlatten ==
  ASSUME NEW ss, IsSequence(ss), \A i \in DOMAIN ss : IsSequence(ss[i])
  PROVE  IsSequence(FlattenSeq(ss))
PROOF
<1> DEFINE S == UNION {ToSet(ss[i]) : i \in DOMAIN ss}
<1>1. \A i \in DOMAIN ss : ss[i] \in Seq(S)
  <2> TAKE i \in DOMAIN ss
  <2>1. ToSet(ss[i]) \subseteq S /\ ss[i] \in Seq(ToSet(ss[i]))
    BY DEF IsSequence
  <2> HIDE DEF S
  <2> QED BY <2>1, SeqMonotonic
<1> HIDE DEF S
<1>2. ss \in Seq(Seq(S))
  BY <1>1, SequenceFacts
<1> QED
  BY <1>2, FlattenType, SequenceIs

\* The greatest element of a set of numbers up to n that has n is n.
LEMMA MaxOfInterval ==
  ASSUME NEW n \in Nat, NEW s \in SUBSET (1 .. n), n \in s
  PROVE  Max(s) = n
PROOF
<1>1. \A y \in s : n >= y
  OBVIOUS
<1>2. \A x \in s : (\A y \in s : x >= y) => x = n
  OBVIOUS
<1>3. \E x \in s : \A y \in s : x >= y
  BY <1>1
<1>4. Max(s) \in s /\ \A y \in s : Max(s) >= y
  BY <1>3 DEF Max
<1> QED
  BY <1>2, <1>4

\* The sequences of no, one and two elements, each fact of which some leaf of
\* a proof cites.
LEMMA SequenceShort ==
  /\ IsSequence(<<>>) /\ Len(<<>>) = 0 /\ DOMAIN <<>> = {} /\ ToSet(<<>>) = {}
  /\ \A x : IsSequence(<<x>>) /\ Len(<<x>>) = 1 /\ <<x>>[1] = x
  /\ \A x, y : IsSequence(<<x, y>>) /\ Len(<<x, y>>) = 2 /\ <<x, y>>[1] = x /\ <<x, y>>[2] = y
PROOF
<1>1. <<>> \in Seq({}) /\ Len(<<>>) = 0 /\ DOMAIN <<>> = {}
  OBVIOUS
<1>2. \A x : <<x>> \in Seq({x}) /\ Len(<<x>>) = 1 /\ <<x>>[1] = x
  OBVIOUS
<1>3. \A x, y : <<x, y>> \in Seq({x, y}) /\ Len(<<x, y>>) = 2 /\ <<x, y>>[1] = x /\ <<x, y>>[2] = y
  OBVIOUS
<1>4. ToSet(<<>>) = {}
  BY <1>1 DEF ToSet
<1>5. IsSequence(<<>>)
  BY <1>1, SequenceIs
<1>6. \A x : IsSequence(<<x>>)
  BY <1>2, SequenceIs
<1>7. ASSUME NEW x, NEW y PROVE IsSequence(<<x, y>>)
  <2>1. <<x, y>> \in Seq({x, y})
    BY <1>3
  <2> QED BY <2>1, SequenceIs
<1> QED
  BY <1>1, <1>2, <1>3, <1>4, <1>5, <1>6, <1>7

\* The interval 1 .. n has n elements, and a part of it at most n.
LEMMA IntervalSize ==
  ASSUME NEW n \in Nat
  PROVE  /\ Cardinality(1 .. n) = n
         /\ \A s \in SUBSET (1 .. n) : Cardinality(s) \in 0 .. n
PROOF
<1>1. IsFiniteSet(1 .. n) /\ Cardinality(1 .. n) = IF 1 > n THEN 0 ELSE n - 1 + 1
  BY FS_Interval
<1>2. Cardinality(1 .. n) = n
  BY <1>1
<1>3. ASSUME NEW s \in SUBSET (1 .. n) PROVE Cardinality(s) \in 0 .. n
  <2>1. IsFiniteSet(s) /\ Cardinality(s) <= Cardinality(1 .. n)
    BY <1>1, FS_Subset
  <2>2. Cardinality(s) \in Nat
    BY <2>1, FS_CardinalityType
  <2> QED BY <1>2, <2>1, <2>2
<1> QED
  BY <1>2, <1>3

\* u reads like s and then like t.
ReadsLike(u, s, t) ==
  /\ Len(u) = Len(s) + Len(t)
  /\ \A i \in 1 .. Len(s) : u[i] = s[i]
  /\ \A i \in 1 .. Len(t) : u[Len(s) + i] = t[i]

\* A sequence that reads like two is their concatenation.
LEMMA SequenceParts ==
  ASSUME NEW s, IsSequence(s), NEW t, IsSequence(t), NEW u, IsSequence(u), ReadsLike(u, s, t)
  PROVE  u = s \o t
PROOF
<1> USE DEF ReadsLike
<1> DEFINE st == s \o t
<1>0. Len(s) \in Nat /\ Len(t) \in Nat
  BY SequenceFacts
<1>1. /\ Len(s) \in Nat /\ Len(t) \in Nat
      /\ IsSequence(st) /\ Len(st) = Len(s) + Len(t)
      /\ \A i \in 1 .. Len(s) : st[i] = s[i]
      /\ \A i \in 1 .. Len(t) : st[Len(s) + i] = t[i]
  BY <1>0, SequenceConcat
<1>2. /\ u = [i \in 1 .. Len(u) |-> u[i]]
      /\ st = [i \in 1 .. Len(st) |-> st[i]]
  BY <1>1, SequenceFacts
<1> HIDE DEF st
<1>3. ASSUME NEW i \in 1 .. Len(u) PROVE u[i] = st[i]
  <2>1. CASE i <= Len(s)
    BY <1>1, <2>1
  <2>2. CASE ~(i <= Len(s))
    <3>1. i - Len(s) \in 1 .. Len(t) /\ Len(s) + (i - Len(s)) = i
      BY <1>1, <2>2
    <3> QED BY <1>1, <3>1
  <2> QED BY <2>1, <2>2
<1> QED
  BY <1>1, <1>2, <1>3 DEF st

\* A list of one sequence flattens to that sequence.
LEMMA FlattenOne ==
  ASSUME NEW s
  PROVE  FlattenSeq(<<s>>) = s
PROOF
<1>1. <<>> \in Seq({s}) /\ s \in {s} /\ Append(<<>>, s) = <<s>>
  OBVIOUS
<1> QED
  BY <1>1, FlattenAppend

\* Three concatenated sequences may be grouped either way: the instance of
\* associativity that the induction below needs, with its elements typed.
LEMMA ConcatGroups ==
  ASSUME NEW S, NEW a \in Seq(S), NEW b \in Seq(S), NEW c \in Seq(S)
  PROVE  (a \o b) \o c = a \o (b \o c)
BY SMTT(30)

\* Flattening a concatenation concatenates what its parts flatten to.
LEMMA FlattenConcatSeq ==
  ASSUME NEW S, NEW ss \in Seq(Seq(S)), NEW tt \in Seq(Seq(S))
  PROVE  FlattenSeq(ss \o tt) = FlattenSeq(ss) \o FlattenSeq(tt)
PROOF
<1> DEFINE T == Seq(S)
           N == {n \in Nat : \A rr \in Seq(T) :
                   Len(rr) = n => FlattenSeq(ss \o rr) = FlattenSeq(ss) \o FlattenSeq(rr)}
<1>0. FlattenSeq(ss) \in T
  BY FlattenType
<1>1. 0 \in N
  <2>1. ASSUME NEW rr \in Seq(T), Len(rr) = 0
        PROVE  FlattenSeq(ss \o rr) = FlattenSeq(ss) \o FlattenSeq(rr)
    <3>1. rr = <<>> /\ ss \o <<>> = ss
      BY <2>1
    <3>2. FlattenSeq(<<>>) = <<>>
      BY DEF FlattenSeq
    <3>3. FlattenSeq(ss) \o <<>> = FlattenSeq(ss)
      BY <1>0
    <3> QED BY <3>1, <3>2, <3>3
  <2> QED BY <2>1
<1>2. ASSUME NEW n \in Nat, n \in N PROVE n + 1 \in N
  <2>1. ASSUME NEW rr \in Seq(T), Len(rr) = n + 1
        PROVE  FlattenSeq(ss \o rr) = FlattenSeq(ss) \o FlattenSeq(rr)
    <3> DEFINE front == [i \in 1 .. n |-> rr[i]]
               last == rr[n + 1]
    <3>1. front \in Seq(T) /\ Len(front) = n /\ last \in T
      BY <2>1
    <3>2. rr = Append(front, last)
      BY <2>1
    <3> HIDE DEF front, last, T
    <3>3. FlattenSeq(ss \o front) = FlattenSeq(ss) \o FlattenSeq(front)
      BY <1>2, <3>1
    <3>4. ss \o rr = Append(ss \o front, last)
      BY <3>1, <3>2 DEF T
    <3>5. ss \o front \in Seq(Seq(S)) /\ front \in Seq(Seq(S)) /\ last \in Seq(S)
      BY <3>1 DEF T
    <3>6. FlattenSeq(rr) = FlattenSeq(front) \o last
      BY <3>2, <3>5, FlattenAppendSeq
    <3>7. FlattenSeq(ss \o rr) = (FlattenSeq(ss) \o FlattenSeq(front)) \o last
      BY <3>3, <3>4, <3>5, FlattenAppendSeq
    <3>8. FlattenSeq(ss) \in Seq(S) /\ FlattenSeq(front) \in Seq(S)
      BY <3>5, FlattenType
    <3>9. (FlattenSeq(ss) \o FlattenSeq(front)) \o last = FlattenSeq(ss) \o (FlattenSeq(front) \o last)
      <4> DEFINE a == FlattenSeq(ss)
                 b == FlattenSeq(front)
      <4>1. a \in Seq(S) /\ b \in Seq(S) /\ last \in Seq(S)
        BY <3>5, <3>8
      <4> HIDE DEF a, b
      <4>2. (a \o b) \o last = a \o (b \o last)
        BY <4>1, ConcatGroups
      <4> QED BY <4>2 DEF a, b
    <3> QED
      BY <3>6, <3>7, <3>9, Zenon
  <2> QED BY <2>1
<1> HIDE DEF N
<1>3. Len(tt) \in N
  <2>1. Len(tt) \in Nat
    OBVIOUS
  <2> QED BY <1>1, <1>2, <2>1, SetInduction
<1> QED
  BY <1>3 DEF N

\* The same where nothing is known of the elements but that they are sequences.
LEMMA FlattenConcat ==
  ASSUME NEW ss, IsSequence(ss), \A i \in DOMAIN ss : IsSequence(ss[i]),
         NEW tt, IsSequence(tt), \A i \in DOMAIN tt : IsSequence(tt[i])
  PROVE  FlattenSeq(ss \o tt) = FlattenSeq(ss) \o FlattenSeq(tt)
PROOF
<1> DEFINE S == (UNION {ToSet(ss[i]) : i \in DOMAIN ss}) \cup (UNION {ToSet(tt[i]) : i \in DOMAIN tt})
<1>1. (\A i \in DOMAIN ss : ss[i] \in Seq(S)) /\ (\A i \in DOMAIN tt : tt[i] \in Seq(S))
  <2>1. \A s : IsSequence(s) /\ ToSet(s) \subseteq S => s \in Seq(S)
    BY SeqMonotonic DEF IsSequence
  <2>2. \A i \in DOMAIN ss : ToSet(ss[i]) \subseteq S
    OBVIOUS
  <2>3. \A i \in DOMAIN tt : ToSet(tt[i]) \subseteq S
    OBVIOUS
  <2> HIDE DEF S
  <2> QED BY <2>1, <2>2, <2>3
<1> HIDE DEF S
<1>2. ss \in Seq(Seq(S)) /\ tt \in Seq(Seq(S))
  BY <1>1, SequenceFacts
<1> QED
  BY <1>2, FlattenConcatSeq
-------------------------------------------------------------------------------
(* What Ranked returns. *)

\* R tells the elements of S apart.
Ranks(R, S) == (\A x \in S : R[x] \in Nat) /\ (\A x, y \in S : R[x] = R[y] => x = y)

\* How many elements are no greater than x.
Place(S, R) == [x \in S |-> Cardinality({y \in S : R[y] <= R[x]})]

\* Each place from the first to the last has one element.
LEMMA PlacesTaken ==
  ASSUME NEW S, IsFiniteSet(S), NEW R, Ranks(R, S)
  PROVE  /\ Cardinality(S) \in Nat
         /\ \A x \in S : Place(S, R)[x] \in 1 .. Cardinality(S)
         /\ \A x, y \in S : R[x] < R[y] => Place(S, R)[x] < Place(S, R)[y]
         /\ \A x, y \in S : Place(S, R)[x] = Place(S, R)[y] => x = y
         /\ \A k \in 1 .. Cardinality(S) : \E x \in S : Place(S, R)[x] = k
PROOF
<1> DEFINE below(x) == {y \in S : R[y] <= R[x]}
           P == Place(S, R)
<1>1. Cardinality(S) \in Nat
  BY FS_CardinalityType
<1>2. \A x \in S : R[x] \in Nat
  BY DEF Ranks
<1>3. ASSUME NEW x \in S
      PROVE  /\ IsFiniteSet(below(x)) /\ Cardinality(below(x)) \in 1 .. Cardinality(S)
             /\ P[x] = Cardinality(below(x)) /\ P[x] \in Nat
  <2>1. below(x) \in SUBSET S /\ x \in below(x)
    BY <1>2
  <2> HIDE DEF below
  <2>2. IsFiniteSet(below(x)) /\ Cardinality(below(x)) <= Cardinality(S)
    BY <2>1, FS_Subset
  <2>3. Cardinality(below(x)) \in Nat /\ Cardinality(below(x)) # 0
    BY <2>1, <2>2, FS_CardinalityType, FS_EmptySet
  <2>4. Cardinality(below(x)) \in 1 .. Cardinality(S)
    BY <1>1, <2>2, <2>3
  <2>5. P[x] = Cardinality(below(x))
    BY DEF Place, below
  <2> HIDE DEF P
  <2>6. P[x] \in Nat
    BY <2>3, <2>5
  <2> QED BY <2>2, <2>4, <2>5, <2>6
<1>4. ASSUME NEW x \in S, NEW y \in S, R[x] < R[y] PROVE P[x] < P[y]
  <2>1. below(x) \in SUBSET below(y) /\ y \in below(y) /\ y \notin below(x)
    BY <1>2, <1>4
  <2>2. P[x] = Cardinality(below(x)) /\ P[y] = Cardinality(below(y))
    BY <1>3
  <2>3. IsFiniteSet(below(y))
    BY <1>3
  <2> HIDE DEF below, P
  <2>4. P[x] \in Nat /\ P[y] \in Nat
    BY <1>3
  <2>5. Cardinality(below(x)) <= Cardinality(below(y))
        /\ (Cardinality(below(y)) = Cardinality(below(x)) => below(y) = below(x))
    BY <2>1, <2>3, FS_Subset
  <2> QED BY <2>1, <2>2, <2>4, <2>5
<1>5. ASSUME NEW x \in S, NEW y \in S, P[x] = P[y] PROVE x = y
  <2>1. R[x] \in Nat /\ R[y] \in Nat
    BY <1>2
  <2>4. P[x] \in Nat /\ P[y] \in Nat
    BY <1>3
  <2>2. ~(R[x] < R[y]) /\ ~(R[y] < R[x])
    <3>1. R[x] < R[y] => P[x] < P[y]
      BY <1>4
    <3>2. R[y] < R[x] => P[y] < P[x]
      BY <1>4
    <3> HIDE DEF P
    <3> QED BY <1>5, <2>4, <3>1, <3>2
  <2>3. R[x] = R[y]
    BY <2>1, <2>2
  <2> QED BY <2>3 DEF Ranks
<1>6. \A k \in 1 .. Cardinality(S) : \E x \in S : P[x] = k
  <2> DEFINE T == 1 .. Cardinality(S)
  <2>1. P \in [S -> T]
    BY <1>3 DEF Place
  <2>2. P \in Injection(S, T)
    BY <1>5, <2>1 DEF Injection, IsInjective
  <2>3. IsFiniteSet(T) /\ Cardinality(T) = Cardinality(S)
    <3>1. 0 \in Int /\ 1 \in Int /\ Cardinality(S) \in Int
      BY <1>1
    <3>2. IsFiniteSet(T) /\ Cardinality(T) = IF 1 > Cardinality(S) THEN 0 ELSE Cardinality(S) - 1 + 1
      BY <3>1, FS_Interval
    <3> QED BY <1>1, <3>2
  <2>4. P \in Surjection(S, T)
    BY <2>2, <2>3, FS_Injection
  <2> QED BY <2>4 DEF Surjection
<1> QED
  BY <1>1, <1>3, <1>4, <1>5, <1>6

\* The elements in order: all of them, each once.
LEMMA RankedSorts ==
  ASSUME NEW S, IsFiniteSet(S), NEW R, Ranks(R, S)
  PROVE  /\ IsSequence(Ranked(S, R)) /\ Len(Ranked(S, R)) = Cardinality(S)
         /\ ToSet(Ranked(S, R)) = S
         /\ \A i, j \in DOMAIN Ranked(S, R) : i < j => R[Ranked(S, R)[i]] < R[Ranked(S, R)[j]]
PROOF
<1> DEFINE n == Cardinality(S)
           s == Ranked(S, R)
           P == Place(S, R)
<1>1. /\ n \in Nat
      /\ \A x \in S : P[x] \in 1 .. n
      /\ \A x, y \in S : R[x] < R[y] => P[x] < P[y]
      /\ \A x, y \in S : P[x] = P[y] => x = y
      /\ \A k \in 1 .. n : \E x \in S : P[x] = k
  BY PlacesTaken
<1>2. \A x \in S : P[x] = Cardinality({y \in S : R[y] <= R[x]})
  BY DEF Place
<1>3. s = [k \in 1 .. n |-> CHOOSE x \in S : P[x] = k]
  BY <1>2 DEF Ranked
<1> HIDE DEF P, n
<1>4. ASSUME NEW k \in 1 .. n PROVE s[k] \in S /\ P[s[k]] = k
  <2>1. s[k] = CHOOSE x \in S : P[x] = k
    BY <1>3
  <2> HIDE DEF s
  <2> QED BY <1>1, <2>1
<1>5. IsSequence(s) /\ Len(s) = n
  <2>1. s = [k \in 1 .. n |-> s[k]]
    BY <1>3
  <2> HIDE DEF s
  <2> QED BY <1>1, <2>1, SequenceMade
<1>6. DOMAIN s = 1 .. n
  BY <1>3
<1> HIDE DEF s
<1>7. ToSet(s) = S
  <2>1. ASSUME NEW x \in S PROVE x \in ToSet(s)
    <3>1. P[x] \in 1 .. n
      BY <1>1
    <3>2. s[P[x]] \in S /\ P[s[P[x]]] = P[x]
      BY <1>4, <3>1
    <3>3. s[P[x]] = x
      BY <1>1, <3>2
    <3> QED BY <1>6, <3>1, <3>3 DEF ToSet
  <2>2. ToSet(s) \subseteq S
    BY <1>4, <1>6 DEF ToSet
  <2> QED BY <2>1, <2>2
<1>8. ASSUME NEW i \in DOMAIN s, NEW j \in DOMAIN s, i < j PROVE R[s[i]] < R[s[j]]
  <2>1. i \in Nat /\ j \in Nat /\ s[i] \in S /\ s[j] \in S /\ P[s[i]] = i /\ P[s[j]] = j
    BY <1>1, <1>4, <1>6
  <2>2. R[s[i]] \in Nat /\ R[s[j]] \in Nat
    BY <2>1 DEF Ranks
  <2>3. R[s[j]] < R[s[i]] => j < i
    BY <1>1, <2>1
  <2>4. R[s[i]] = R[s[j]] => s[i] = s[j]
    BY <2>1 DEF Ranks
  <2> QED BY <1>8, <2>1, <2>2, <2>3, <2>4
<1> QED
  BY <1>5, <1>7, <1>8 DEF s, n

\* The length of the first k parts, flattened.
LengthTo(ss, k) == Len(FlattenSeq(SubSeq(ss, 1, k)))

\* Each part stands in what the parts flatten to behind those before it, and
\* every place there is of a part.
Segmented(ss) ==
  /\ LengthTo(ss, 0) = 0 /\ LengthTo(ss, Len(ss)) = Len(FlattenSeq(ss))
  /\ \A k \in 1 .. Len(ss) :
       /\ LengthTo(ss, k - 1) \in Nat
       /\ LengthTo(ss, k) = LengthTo(ss, k - 1) + Len(ss[k])
       /\ LengthTo(ss, k) <= Len(FlattenSeq(ss))
       /\ \A i \in 1 .. Len(ss[k]) : FlattenSeq(ss)[LengthTo(ss, k - 1) + i] = ss[k][i]
  /\ \A j \in 1 .. Len(FlattenSeq(ss)) :
       \E k \in 1 .. Len(ss) : \E i \in 1 .. Len(ss[k]) : j = LengthTo(ss, k - 1) + i

LEMMA FlattenSegments ==
  ASSUME NEW S, NEW ss \in Seq(Seq(S))
  PROVE  Segmented(ss)
PROOF
<1> DEFINE T == Seq(S)
           N == {n \in Nat : \A rr \in Seq(T) : Len(rr) = n => Segmented(rr)}
<1>1. 0 \in N
  <2>1. ASSUME NEW rr \in Seq(T), Len(rr) = 0 PROVE Segmented(rr)
    <3>1. rr = <<>> /\ SubSeq(rr, 1, 0) = <<>>
      BY <2>1
    <3>2. FlattenSeq(<<>>) = <<>> /\ Len(<<>>) = 0
      BY DEF FlattenSeq
    <3>3. LengthTo(rr, 0) = 0 /\ LengthTo(rr, Len(rr)) = Len(FlattenSeq(rr))
      BY <2>1, <3>1, <3>2 DEF LengthTo
    <3>4. 1 .. Len(rr) = {} /\ 1 .. Len(FlattenSeq(rr)) = {}
      BY <2>1, <3>1, <3>2
    <3> QED BY <3>3, <3>4, Zenon DEF Segmented
  <2> QED BY <2>1
<1>2. ASSUME NEW n \in Nat, n \in N, NEW rr \in Seq(T), Len(rr) = n + 1
      PROVE  Segmented(rr)
  <2> DEFINE front == SubSeq(rr, 1, n)
             last == rr[n + 1]
             F == FlattenSeq(front)
  <2>1. /\ front \in Seq(T) /\ Len(front) = n /\ last \in T
        /\ rr = Append(front, last) /\ \A k \in 1 .. n : rr[k] = front[k]
    BY <1>2
  <2>2. Segmented(front)
    BY <1>2, <2>1
  <2>3. \A k \in 0 .. n : SubSeq(rr, 1, k) = SubSeq(front, 1, k)
    BY <1>2
  <2>4. SubSeq(rr, 1, n + 1) = rr
    BY <1>2
  <2>5. F \in Seq(S) /\ last \in Seq(S) /\ FlattenSeq(rr) = F \o last
    <3>1. front \in Seq(Seq(S)) /\ last \in Seq(S)
      BY <2>1
    <3> HIDE DEF front, last
    <3> QED BY <2>1, <3>1, FlattenType, FlattenAppendSeq
  <2>6. \A k \in 0 .. n : LengthTo(rr, k) = LengthTo(front, k)
    BY <2>3 DEF LengthTo
  <2>7. LengthTo(rr, n + 1) = Len(FlattenSeq(rr)) /\ LengthTo(rr, n) = Len(F)
    BY <2>4 DEF LengthTo
  <2> HIDE DEF front, last, F, T
  <2>8. /\ Len(F) \in Nat /\ Len(last) \in Nat /\ Len(F \o last) = Len(F) + Len(last)
        /\ \A i \in 1 .. Len(F) : (F \o last)[i] = F[i]
        /\ \A i \in 1 .. Len(last) : (F \o last)[Len(F) + i] = last[i]
    BY <2>5
  <2>9. ASSUME NEW k \in 1 .. n
        PROVE  /\ LengthTo(rr, k - 1) \in Nat
               /\ LengthTo(rr, k) = LengthTo(rr, k - 1) + Len(rr[k])
               /\ LengthTo(rr, k) <= Len(F)
               /\ \A i \in 1 .. Len(rr[k]) : F[LengthTo(rr, k - 1) + i] = rr[k][i]
    <3>1. k - 1 \in 0 .. n /\ k \in 0 .. n
      OBVIOUS
    <3>2. /\ LengthTo(front, k - 1) \in Nat
          /\ LengthTo(front, k) = LengthTo(front, k - 1) + Len(front[k])
          /\ LengthTo(front, k) <= Len(F)
          /\ \A i \in 1 .. Len(front[k]) : F[LengthTo(front, k - 1) + i] = front[k][i]
      BY <2>1, <2>2 DEF Segmented, F
    <3>3. /\ rr[k] = front[k] /\ LengthTo(rr, k) = LengthTo(front, k)
          /\ LengthTo(rr, k - 1) = LengthTo(front, k - 1)
      BY <2>1, <2>6, <3>1
    <3> QED BY <3>2, <3>3
  <2>10. ASSUME NEW k \in 1 .. n
         PROVE  \A i \in 1 .. Len(rr[k]) : FlattenSeq(rr)[LengthTo(rr, k - 1) + i] = rr[k][i]
    <3> TAKE i \in 1 .. Len(rr[k])
    <3>1. rr[k] \in Seq(S) /\ Len(rr[k]) \in Nat
      BY <1>2 DEF T
    <3>2. LengthTo(rr, k - 1) + i \in 1 .. Len(F)
      BY <2>8, <2>9, <3>1
    <3> QED BY <2>5, <2>8, <2>9, <3>2
  <2>11. ASSUME NEW k \in 1 .. n + 1
         PROVE  /\ LengthTo(rr, k - 1) \in Nat
                /\ LengthTo(rr, k) = LengthTo(rr, k - 1) + Len(rr[k])
                /\ LengthTo(rr, k) <= Len(FlattenSeq(rr))
                /\ \A i \in 1 .. Len(rr[k]) : FlattenSeq(rr)[LengthTo(rr, k - 1) + i] = rr[k][i]
    <3>1. CASE k \in 1 .. n
      <4>1. Len(F) <= Len(FlattenSeq(rr)) /\ Len(FlattenSeq(rr)) \in Nat
        BY <2>5, <2>8
      <4>2. LengthTo(rr, k) \in Nat
        <5>1. rr[k] \in Seq(S) /\ Len(rr[k]) \in Nat
          BY <1>2 DEF T
        <5> QED BY <2>9, <3>1, <5>1
      <4> QED BY <2>8, <2>9, <2>10, <3>1, <4>1, <4>2
    <3>2. CASE k = n + 1
      <4>1. LengthTo(rr, k - 1) = Len(F) /\ rr[k] = last
        BY <2>7, <3>2 DEF last
      <4>2. LengthTo(rr, k) = Len(F) + Len(rr[k]) /\ LengthTo(rr, k) <= Len(FlattenSeq(rr))
        BY <2>5, <2>7, <2>8, <3>2, <4>1
      <4>3. \A i \in 1 .. Len(rr[k]) : FlattenSeq(rr)[Len(F) + i] = rr[k][i]
        BY <2>5, <2>8, <4>1
      <4> QED BY <2>8, <4>1, <4>2, <4>3
    <3> QED BY <3>1, <3>2
  <2>12. ASSUME NEW j \in 1 .. Len(FlattenSeq(rr))
         PROVE  \E k \in 1 .. n + 1 : \E i \in 1 .. Len(rr[k]) : j = LengthTo(rr, k - 1) + i
    <3>1. CASE j \in 1 .. Len(F)
      <4>1. PICK k \in 1 .. n : \E i \in 1 .. Len(front[k]) : j = LengthTo(front, k - 1) + i
        BY <2>1, <2>2, <3>1 DEF Segmented, F
      <4>2. k \in 1 .. n + 1 /\ k - 1 \in 0 .. n /\ rr[k] = front[k]
        BY <2>1
      <4> QED BY <2>6, <4>1, <4>2
    <3>2. CASE j \notin 1 .. Len(F)
      <4>1. j - Len(F) \in 1 .. Len(last) /\ j = Len(F) + (j - Len(F))
        BY <2>5, <2>8, <3>2
      <4>2. n + 1 \in 1 .. n + 1 /\ rr[n + 1] = last /\ LengthTo(rr, (n + 1) - 1) = Len(F)
        BY <2>7 DEF last
      <4> QED BY <4>1, <4>2
    <3> QED BY <3>1, <3>2
  <2>13. LengthTo(rr, 0) = 0 /\ LengthTo(rr, Len(rr)) = Len(FlattenSeq(rr))
    <3>1. LengthTo(rr, 0) = LengthTo(front, 0)
      BY <2>6
    <3> QED BY <1>2, <2>2, <2>7, <3>1 DEF Segmented
  <2> QED BY <1>2, <2>11, <2>12, <2>13 DEF Segmented
<1>3. \A n \in Nat : n \in N => n + 1 \in N
  BY <1>2
<1> HIDE DEF N
<1>4. Len(ss) \in N
  <2>1. Len(ss) \in Nat
    OBVIOUS
  <2> QED BY <1>1, <1>3, <2>1, SetInduction
<1> QED
  BY <1>4 DEF N

===============================================================================
