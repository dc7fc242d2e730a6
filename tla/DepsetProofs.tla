------------------------------ MODULE DepsetProofs ------------------------------
(***************************************************************************)
(* What is proved of depsets, for heaps of any size.                       *)
(*                                                                         *)
(* An entry of transitive= lies below its set in the heap, so every fact   *)
(* about a set is shown from the same fact about the sets below.  The list *)
(* a set pushes is its direct elements and what its entries push; keeping  *)
(* the first of each element keeps what comes before what.  A heap that    *)
(* stands within another, its places moved, pushes the same there; a tree  *)
(* is such a heap, and that is all that crossing to a dependent rests on.  *)
(***************************************************************************)
EXTENDS Depset, SequenceLemmas

LEMMA HeapFacts ==
  ASSUME NEW h, IsHeap(h)
  PROVE  /\ Len(h) \in Nat /\ DOMAIN h = 1 .. Len(h)
         /\ \A n \in DOMAIN h :
              /\ n \in Nat /\ h[n] \in Sets
              /\ h[n].order \in Order /\ h[n].direct \in Seq(Element)
              /\ Len(h[n].transitive) \in Nat
              /\ DOMAIN h[n].transitive = 1 .. Len(h[n].transitive)
              /\ \A k \in DOMAIN h[n].transitive :
                   /\ h[n].transitive[k] \in 1 .. n - 1
                   /\ h[n].transitive[k] \in DOMAIN h
PROOF
<1>1. Len(h) \in Nat /\ DOMAIN h = 1 .. Len(h) /\ \A n \in DOMAIN h : h[n] \in Sets
  BY DEF IsHeap
<1>2. ASSUME NEW n \in DOMAIN h
      PROVE  /\ n \in Nat /\ h[n] \in Sets
             /\ h[n].order \in Order /\ h[n].direct \in Seq(Element)
             /\ h[n].transitive \in Seq(Nat)
  BY <1>1 DEF Sets
<1>3. ASSUME NEW n \in DOMAIN h, NEW k \in DOMAIN h[n].transitive
      PROVE  h[n].transitive[k] \in 1 .. n - 1 /\ h[n].transitive[k] \in DOMAIN h
  <2>1. Range(h[n].transitive) \subseteq 1 .. n - 1
    BY DEF IsHeap
  <2>2. h[n].transitive[k] \in 1 .. n - 1
    BY <2>1 DEF Range
  <2> QED BY <1>1, <2>2
<1>4. \A n \in DOMAIN h : /\ Len(h[n].transitive) \in Nat
                          /\ DOMAIN h[n].transitive = 1 .. Len(h[n].transitive)
  BY <1>2
<1> QED
  BY <1>1, <1>2, <1>3, <1>4
-----------------------------------------------------------------------------
(* What to_list pushes. *)

\* The lists of the entries of n, when g has the list of each set.
Parts(h, n, g) == [k \in DOMAIN h[n].transitive |-> g[h[n].transitive[k]]]

Pushed(h, b, n, g) ==
  IF b THEN h[n].direct \o FlattenSeq(Parts(h, n, g))
  ELSE FlattenSeq(Parts(h, n, g)) \o h[n].direct

LEMMA PartsType ==
  ASSUME NEW h, IsHeap(h), NEW n \in DOMAIN h, NEW g,
         \A j \in 1 .. n - 1 : g[j] \in Seq(Element)
  PROVE  /\ Parts(h, n, g) \in Seq(Seq(Element))
         /\ Len(Parts(h, n, g)) = Len(h[n].transitive)
         /\ FlattenSeq(Parts(h, n, g)) \in Seq(Element)
         /\ \A b : Pushed(h, b, n, g) \in Seq(Element)
PROOF
<1>1. /\ Len(h[n].transitive) \in Nat
      /\ DOMAIN h[n].transitive = 1 .. Len(h[n].transitive)
      /\ \A k \in DOMAIN h[n].transitive : h[n].transitive[k] \in 1 .. n - 1
      /\ h[n].direct \in Seq(Element)
  BY HeapFacts
<1>2. Parts(h, n, g) \in [1 .. Len(h[n].transitive) -> Seq(Element)]
  BY <1>1 DEF Parts
<1>3. Parts(h, n, g) \in Seq(Seq(Element)) /\ Len(Parts(h, n, g)) = Len(h[n].transitive)
  BY <1>1, <1>2
<1>4. FlattenSeq(Parts(h, n, g)) \in Seq(Element)
  BY <1>3, FlattenType
<1> QED
  BY <1>1, <1>3, <1>4 DEF Pushed

LEMMA PushedLater ==
  ASSUME NEW h, IsHeap(h), NEW b, NEW n \in DOMAIN h, NEW g, NEW f,
         \A j \in 1 .. n - 1 : g[j] = f[j]
  PROVE  Pushed(h, b, n, g) = Pushed(h, b, n, f)
PROOF
<1>1. \A k \in DOMAIN h[n].transitive : h[n].transitive[k] \in 1 .. n - 1
  BY HeapFacts
<1>2. Parts(h, n, g) = Parts(h, n, f)
  BY <1>1 DEF Parts
<1> QED
  BY <1>2 DEF Pushed

\* Collect is the function its definition describes.
LEMMA CollectIs ==
  ASSUME NEW h, IsHeap(h), NEW b
  PROVE  \A n \in DOMAIN h : /\ Collect(h, b)[n] = Pushed(h, b, n, Collect(h, b))
                             /\ Collect(h, b)[n] \in Seq(Element)
PROOF
<1> DEFINE W == Collect(h, b)
           V == Seq(Element)
           step == [k \in 1 .. Len(h) |-> [g \in [1 .. Len(h) -> V] |-> Pushed(h, b, k, g)]]
<1>1. Len(h) \in Nat /\ DOMAIN h = 1 .. Len(h)
  BY HeapFacts
<1>2. \A k \in 1 .. Len(h) : \A g \in [1 .. Len(h) -> V] : step[k][g] = Pushed(h, b, k, g)
  OBVIOUS
<1>3. ASSUME NEW k \in 1 .. Len(h), NEW g \in [1 .. Len(h) -> V]
      PROVE  Pushed(h, b, k, g) \in V
  <2>1. \A j \in 1 .. k - 1 : g[j] \in Seq(Element)
    BY <1>1
  <2> QED BY <1>1, <2>1, PartsType
<1>4. ASSUME NEW k \in 1 .. Len(h), NEW g \in [1 .. Len(h) -> V], NEW f \in [1 .. Len(h) -> V],
             \A j \in 1 .. k - 1 : g[j] = f[j]
      PROVE  Pushed(h, b, k, g) = Pushed(h, b, k, f)
  BY <1>1, <1>4, PushedLater
<1>5. V # {}
  <2>1. <<>> \in V
    OBVIOUS
  <2> QED BY <2>1
<1> HIDE DEF step, V
<1>6. \A k \in 1 .. Len(h) : \A g \in [1 .. Len(h) -> V] : step[k][g] \in V
  BY <1>2, <1>3
<1>7. \A k \in 1 .. Len(h) : \A g, f \in [1 .. Len(h) -> V] :
         (\A j \in 1 .. k - 1 : g[j] = f[j]) => step[k][g] = step[k][f]
  <2> TAKE k \in 1 .. Len(h)
  <2> TAKE g, f \in [1 .. Len(h) -> V]
  <2> HAVE \A j \in 1 .. k - 1 : g[j] = f[j]
  <2>1. Pushed(h, b, k, g) = Pushed(h, b, k, f)
    BY <1>4
  <2> QED BY <1>2, <2>1
<1>8. PICK g \in [1 .. Len(h) -> V] : \A k \in 1 .. Len(h) : g[k] = step[k][g]
  <2>1. RestsBelow(step, Len(h), V)
    BY <1>6, <1>7 DEF RestsBelow
  <2>2. Recurses(step, Len(h), V)
    BY <1>1, <1>5, <2>1, RecursionExists
  <2> QED BY <2>2 DEF Recurses
<1>9. g = [n \in DOMAIN h |-> Pushed(h, b, n, g)]
  BY <1>1, <1>2, <1>8
<1>10. W = [n \in DOMAIN h |-> Pushed(h, b, n, W)]
  BY <1>9 DEF Collect, Pushed, Parts
<1> HIDE DEF W
<1>11. \A n \in DOMAIN h : W[n] = Pushed(h, b, n, W)
  BY <1>10
<1>12. 1 .. Len(h) \subseteq {n \in 1 .. Len(h) : W[n] \in Seq(Element)}
  <2> DEFINE T == {n \in 1 .. Len(h) : W[n] \in Seq(Element)}
  <2>1. ASSUME NEW k \in 1 .. Len(h), \A j \in 1 .. k - 1 : j \in T PROVE k \in T
    <3>1. \A j \in 1 .. k - 1 : W[j] \in Seq(Element)
      BY <2>1
    <3>2. k \in DOMAIN h /\ W[k] = Pushed(h, b, k, W)
      BY <1>1, <1>11
    <3>3. Pushed(h, b, k, W) \in Seq(Element)
      BY <3>1, <3>2, PartsType
    <3> QED BY <3>2, <3>3
  <2> HIDE DEF T
  <2>2. 1 .. Len(h) \subseteq T
    BY <1>1, <2>1, BelowInduction
  <2> QED BY <2>2 DEF T
<1> QED
  BY <1>1, <1>11, <1>12 DEF W

LEMMA PlaceIsNatural ==
  ASSUME NEW S, NEW s \in Seq(S), NEW i \in DOMAIN s
  PROVE  i \in Nat /\ i \in 1 .. i
OBVIOUS

LEMMA FunctionIsSequence ==
  ASSUME NEW S, NEW n \in Nat, NEW f \in [1 .. n -> S]
  PROVE  f \in Seq(S) /\ Len(f) = n
OBVIOUS

LEMMA ConcatIs ==
  ASSUME NEW S, NEW s \in Seq(S), NEW t \in Seq(S)
  PROVE  /\ s \o t \in Seq(S) /\ Len(s \o t) = Len(s) + Len(t)
         /\ DOMAIN (s \o t) = 1 .. Len(s) + Len(t)
         /\ \A i \in 1 .. Len(s) : (s \o t)[i] = s[i]
         /\ \A i \in 1 .. Len(t) : (s \o t)[Len(s) + i] = t[i]
OBVIOUS

LEMMA RangeConcat ==
  ASSUME NEW S, NEW s \in Seq(S), NEW t \in Seq(S)
  PROVE  Range(s \o t) = Range(s) \cup Range(t)
PROOF
<1>1. /\ Len(s) \in Nat /\ DOMAIN s = 1 .. Len(s) /\ Len(t) \in Nat /\ DOMAIN t = 1 .. Len(t)
      /\ DOMAIN (s \o t) = 1 .. Len(s) + Len(t)
      /\ \A i \in 1 .. Len(s) : (s \o t)[i] = s[i]
      /\ \A i \in 1 .. Len(t) : (s \o t)[Len(s) + i] = t[i]
  OBVIOUS
<1>2. ASSUME NEW i \in DOMAIN (s \o t)
      PROVE  (s \o t)[i] \in Range(s) \cup Range(t)
  <2>1. CASE i \in 1 .. Len(s)
    BY <1>1, <2>1 DEF Range
  <2>2. CASE i \notin 1 .. Len(s)
    <3>1. i - Len(s) \in 1 .. Len(t) /\ i = Len(s) + (i - Len(s))
      BY <1>1, <2>2
    <3>2. (s \o t)[i] = t[i - Len(s)]
      BY <1>1, <3>1
    <3> QED BY <1>1, <3>1, <3>2 DEF Range
  <2> QED BY <2>1, <2>2
<1>3. ASSUME NEW i \in DOMAIN s PROVE s[i] \in Range(s \o t)
  BY <1>1 DEF Range
<1>4. ASSUME NEW i \in DOMAIN t PROVE t[i] \in Range(s \o t)
  <2>1. Len(s) + i \in DOMAIN (s \o t) /\ (s \o t)[Len(s) + i] = t[i]
    BY <1>1
  <2> QED BY <2>1 DEF Range
<1> QED
  BY <1>2, <1>3, <1>4 DEF Range

\* What n pushes at j is what one of its entries has pushed.
ByEntry(h, W, n, j) ==
  \E c \in Range(h[n].transitive) : \E o \in Nat : \E i \in DOMAIN W[c] :
    j = o + i /\ \A l \in 1 .. i : W[n][o + l] = W[c][l]

EntriesBefore(h, W, n, j) ==
  \A c \in Range(h[n].transitive) : \A x \in Range(W[c]) : \E i \in 1 .. j - 1 : W[n][i] = x

DirectBefore(h, W, n, j) ==
  \A x \in Range(h[n].direct) : \E i \in 1 .. j - 1 : W[n][i] = x

PushedBelow(h, W, n) == UNION {Range(W[c]) : c \in Range(h[n].transitive)}

\* Where an element of the list of n stands: among the direct ones, or where
\* an entry has pushed it.
LEMMA PushedPlaces ==
  ASSUME NEW h, IsHeap(h), NEW b \in BOOLEAN, NEW n \in DOMAIN h,
         NEW W, W = Collect(h, b)
  PROVE  /\ Range(W[n]) = Range(h[n].direct) \cup PushedBelow(h, W, n)
         /\ \A j \in DOMAIN W[n] :
              \/ W[n][j] \in Range(h[n].direct) /\ (~b => EntriesBefore(h, W, n, j))
              \/ (b => DirectBefore(h, W, n, j)) /\ ByEntry(h, W, n, j)
PROOF
<1> USE DEF PushedBelow, EntriesBefore, DirectBefore, ByEntry
<1> DEFINE P == Parts(h, n, W)
           F == FlattenSeq(P)
           d == h[n].direct
           kids == Range(h[n].transitive)
<1>1. /\ Len(h) \in Nat /\ DOMAIN h = 1 .. Len(h) /\ n \in Nat
      /\ d \in Seq(Element) /\ Len(h[n].transitive) \in Nat
      /\ DOMAIN h[n].transitive = 1 .. Len(h[n].transitive)
      /\ \A k \in DOMAIN h[n].transitive : h[n].transitive[k] \in 1 .. n - 1
  BY HeapFacts
<1>2. W[n] = Pushed(h, b, n, W) /\ \A m \in 1 .. Len(h) : W[m] \in Seq(Element)
  BY <1>1, CollectIs
<1>3. \A j \in 1 .. n - 1 : W[j] \in Seq(Element)
  BY <1>1, <1>2
<1>4. /\ P \in Seq(Seq(Element)) /\ F \in Seq(Element) /\ Len(P) = Len(h[n].transitive)
      /\ Segmented(P)
  BY <1>3, PartsType, FlattenSegments
<1>5. \A k \in 1 .. Len(P) : h[n].transitive[k] \in kids /\ P[k] = W[h[n].transitive[k]]
  BY <1>1, <1>4 DEF Parts, Range
<1>6. /\ \A c \in kids : \E k \in 1 .. Len(P) : c = h[n].transitive[k]
      /\ \A c \in kids : c \in 1 .. n - 1
  BY <1>1, <1>4 DEF Range
<1> HIDE DEF P, kids
<1>7. /\ Len(F) \in Nat /\ DOMAIN F = 1 .. Len(F) /\ Len(d) \in Nat /\ DOMAIN d = 1 .. Len(d)
      /\ Range(d) = {d[i] : i \in 1 .. Len(d)} /\ Range(F) = {F[i] : i \in 1 .. Len(F)}
  BY <1>1, <1>4 DEF Range
<1>8. ASSUME NEW c \in kids, NEW x \in Range(W[c])
      PROVE  \E i \in 1 .. Len(F) : F[i] = x
  <2>1. PICK k \in 1 .. Len(P) : c = h[n].transitive[k]
    BY <1>6
  <2>2. P[k] = W[c] /\ P[k] \in Seq(Element) /\ LengthTo(P, k - 1) \in Nat
        /\ LengthTo(P, k) = LengthTo(P, k - 1) + Len(P[k]) /\ LengthTo(P, k) <= Len(F)
        /\ \A i \in 1 .. Len(P[k]) : F[LengthTo(P, k - 1) + i] = P[k][i]
    BY <1>4, <1>5, <2>1 DEF Segmented
  <2>3. PICK i \in 1 .. Len(P[k]) : x = P[k][i]
    BY <2>2 DEF Range
  <2>4. LengthTo(P, k - 1) + i \in 1 .. Len(F)
    BY <2>2, <2>3, <1>7
  <2> QED BY <2>2, <2>3, <2>4
<1>9. ASSUME NEW j \in 1 .. Len(F)
      PROVE  \E c \in kids : \E o \in Nat : \E i \in DOMAIN W[c] :
               j = o + i /\ \A l \in 1 .. i : F[o + l] = W[c][l]
  <2>1. PICK k \in 1 .. Len(P) : \E i \in 1 .. Len(P[k]) : j = LengthTo(P, k - 1) + i
    BY <1>4 DEF Segmented
  <2>2. PICK i \in 1 .. Len(P[k]) : j = LengthTo(P, k - 1) + i
    BY <2>1
  <2> DEFINE c == h[n].transitive[k]
             o == LengthTo(P, k - 1)
  <2>3. o \in Nat /\ \A l \in 1 .. Len(P[k]) : F[o + l] = P[k][l]
    BY <1>4 DEF Segmented
  <2>4. P[k] \in Seq(Element) /\ P[k] = W[c] /\ c \in kids
    <3>1. P[k] \in Seq(Element)
      BY <1>4
    <3> QED BY <1>5, <3>1
  <2>5. i \in DOMAIN W[c] /\ \A l \in 1 .. i : l \in 1 .. Len(P[k])
    BY <2>4
  <2>6. j = o + i /\ \A l \in 1 .. i : F[o + l] = W[c][l]
    BY <2>2, <2>3, <2>4, <2>5
  <2> HIDE DEF c, o
  <2> QED BY <2>3, <2>4, <2>5, <2>6
<1>10. Range(F) = UNION {Range(W[c]) : c \in kids}
  <2>1. ASSUME NEW x \in Range(F) PROVE \E c \in kids : x \in Range(W[c])
    <3>1. PICK j \in 1 .. Len(F) : x = F[j]
      BY <1>7
    <3>2. PICK c \in kids : \E o \in Nat : \E i \in DOMAIN W[c] :
            j = o + i /\ \A l \in 1 .. i : F[o + l] = W[c][l]
      BY <1>9
    <3>3. PICK o \in Nat, i \in DOMAIN W[c] :
            j = o + i /\ \A l \in 1 .. i : F[o + l] = W[c][l]
      BY <3>2
    <3>4. i \in 1 .. i /\ x = W[c][i]
      <4>1. W[c] \in Seq(Element) /\ DOMAIN W[c] = 1 .. Len(W[c])
        BY <1>3, <1>6
      <4>2. i \in 1 .. i
        BY <4>1
      <4> QED BY <3>1, <3>3, <4>2
    <3> QED BY <3>4 DEF Range
  <2>2. ASSUME NEW c \in kids, NEW x \in Range(W[c]) PROVE x \in Range(F)
    BY <1>7, <1>8
  <2> QED BY <2>1, <2>2
<1> HIDE DEF F, d
<1>11. CASE b
  <2>1. W[n] = d \o F
    BY <1>2, <1>11 DEF Pushed, F, d, P
  <2>2. /\ Len(d \o F) = Len(d) + Len(F) /\ DOMAIN (d \o F) = 1 .. Len(d) + Len(F)
        /\ \A i \in 1 .. Len(d) : (d \o F)[i] = d[i]
        /\ \A i \in 1 .. Len(F) : (d \o F)[Len(d) + i] = F[i]
    BY <1>1, <1>4
  <2>3. Range(W[n]) = Range(d) \cup Range(F)
    BY <1>4, <1>1, <2>1, RangeConcat
  <2>4. ASSUME NEW j \in DOMAIN W[n], j \in 1 .. Len(d)
        PROVE  W[n][j] \in Range(d)
    BY <1>7, <2>1, <2>2, <2>4
  <2>5. ASSUME NEW j \in DOMAIN W[n], j \notin 1 .. Len(d)
        PROVE  /\ \A x \in Range(d) : \E i \in 1 .. j - 1 : W[n][i] = x
               /\ \E c \in kids : \E o \in Nat : \E i \in DOMAIN W[c] :
                    j = o + i /\ \A l \in 1 .. i : W[n][o + l] = W[c][l]
    <3>1. j - Len(d) \in 1 .. Len(F) /\ Len(d) < j
      BY <1>7, <2>1, <2>2, <2>5
    <3>2. PICK c \in kids : \E o \in Nat : \E i \in DOMAIN W[c] :
            j - Len(d) = o + i /\ \A l \in 1 .. i : F[o + l] = W[c][l]
      BY <1>9, <3>1
    <3>3. PICK o \in Nat, i \in DOMAIN W[c] :
            j - Len(d) = o + i /\ \A l \in 1 .. i : F[o + l] = W[c][l]
      BY <3>2
    <3>4. i \in Nat
      <4>1. W[c] \in Seq(Element) /\ DOMAIN W[c] = 1 .. Len(W[c])
        BY <1>3, <1>6
      <4> QED BY <4>1
    <3>5. Len(d) + o \in Nat /\ j = (Len(d) + o) + i
      <4>1. j \in Nat /\ Len(d) \in Nat /\ o \in Nat /\ j - Len(d) = o + i
        BY <1>7, <2>1, <2>2, <3>3
      <4> QED BY <3>4, <4>1
    <3>6. ASSUME NEW l \in 1 .. i PROVE W[n][(Len(d) + o) + l] = W[c][l]
      <4>1. o + l \in 1 .. Len(F) /\ (Len(d) + o) + l = Len(d) + (o + l)
        BY <1>7, <3>1, <3>3, <3>4
      <4> QED BY <2>1, <2>2, <3>3, <4>1
    <3>7. \A x \in Range(d) : \E l \in 1 .. j - 1 : W[n][l] = x
      <4> TAKE x \in Range(d)
      <4>1. PICK l \in 1 .. Len(d) : d[l] = x
        BY <1>7
      <4>2. l \in 1 .. j - 1
        BY <1>7, <2>1, <2>2, <3>1
      <4> QED BY <2>1, <2>2, <4>1, <4>2
    <3> QED BY <3>5, <3>6, <3>7
  <2>6. Range(W[n]) = Range(h[n].direct) \cup PushedBelow(h, W, n)
    BY <1>10, <2>3 DEF d, kids
  <2>7. ASSUME NEW j \in DOMAIN W[n]
        PROVE  \/ W[n][j] \in Range(h[n].direct)
               \/ DirectBefore(h, W, n, j) /\ ByEntry(h, W, n, j)
    <3>1. CASE j \in 1 .. Len(d)
      BY <2>4, <3>1 DEF d
    <3>2. CASE j \notin 1 .. Len(d)
      BY <2>5, <3>2 DEF d, kids
    <3> QED BY <3>1, <3>2
  <2> QED BY <1>11, <2>6, <2>7
<1>12. CASE ~b
  <2>1. W[n] = F \o d
    BY <1>2, <1>12 DEF Pushed, F, d, P
  <2>2. /\ Len(F \o d) = Len(F) + Len(d) /\ DOMAIN (F \o d) = 1 .. Len(F) + Len(d)
        /\ \A i \in 1 .. Len(F) : (F \o d)[i] = F[i]
        /\ \A i \in 1 .. Len(d) : (F \o d)[Len(F) + i] = d[i]
    BY <1>1, <1>4
  <2>3. Range(W[n]) = Range(d) \cup Range(F)
    BY <1>4, <1>1, <2>1, RangeConcat
  <2>4. ASSUME NEW j \in DOMAIN W[n], j \notin 1 .. Len(F)
        PROVE  /\ W[n][j] \in Range(d)
               /\ \A c \in kids : \A x \in Range(W[c]) : \E i \in 1 .. j - 1 : W[n][i] = x
    <3>1. j - Len(F) \in 1 .. Len(d) /\ Len(F) < j /\ j = Len(F) + (j - Len(F))
      BY <1>7, <2>1, <2>2, <2>4
    <3>2. W[n][j] \in Range(d)
      BY <1>7, <2>1, <2>2, <3>1
    <3>3. ASSUME NEW c \in kids, NEW x \in Range(W[c])
          PROVE  \E i \in 1 .. j - 1 : W[n][i] = x
      <4>1. PICK i \in 1 .. Len(F) : F[i] = x
        BY <1>8
      <4>2. i \in 1 .. j - 1
        BY <1>7, <2>1, <2>2, <3>1
      <4> QED BY <2>1, <2>2, <4>1, <4>2
    <3> QED BY <3>2, <3>3
  <2>5. ASSUME NEW j \in DOMAIN W[n], j \in 1 .. Len(F)
        PROVE  \E c \in kids : \E o \in Nat : \E i \in DOMAIN W[c] :
                 j = o + i /\ \A l \in 1 .. i : W[n][o + l] = W[c][l]
    <3>1. PICK c \in kids : \E o \in Nat : \E i \in DOMAIN W[c] :
            j = o + i /\ \A l \in 1 .. i : F[o + l] = W[c][l]
      BY <1>9, <2>5
    <3>2. PICK o \in Nat, i \in DOMAIN W[c] :
            j = o + i /\ \A l \in 1 .. i : F[o + l] = W[c][l]
      BY <3>1
    <3>3. i \in Nat
      <4>1. W[c] \in Seq(Element) /\ DOMAIN W[c] = 1 .. Len(W[c])
        BY <1>3, <1>6
      <4> QED BY <4>1
    <3>4. \A l \in 1 .. i : W[n][o + l] = W[c][l]
      <4> TAKE l \in 1 .. i
      <4>1. o + l \in 1 .. Len(F)
        BY <1>7, <2>5, <3>2, <3>3
      <4> QED BY <2>1, <2>2, <3>2, <4>1
    <3> QED BY <3>2, <3>4
  <2>6. Range(W[n]) = Range(h[n].direct) \cup PushedBelow(h, W, n)
    BY <1>10, <2>3 DEF d, kids
  <2>7. ASSUME NEW j \in DOMAIN W[n]
        PROVE  \/ W[n][j] \in Range(h[n].direct) /\ EntriesBefore(h, W, n, j)
               \/ ByEntry(h, W, n, j)
    <3>1. CASE j \in 1 .. Len(F)
      BY <2>5, <3>1 DEF kids
    <3>2. CASE j \notin 1 .. Len(F)
      BY <2>4, <3>2 DEF d, kids
    <3> QED BY <3>1, <3>2
  <2> QED BY <1>12, <2>6, <2>7
<1> QED
  BY <1>11, <1>12
-----------------------------------------------------------------------------
(* What is reached. *)

\* What is reached from root is the least set with root that is left in stop
\* only.
LEMMA ReachedLeast ==
  ASSUME IsHeap(heap), NEW root \in DOMAIN heap, NEW stop
  PROVE  /\ Reached(root, stop) \subseteq DOMAIN heap /\ root \in Reached(root, stop)
         /\ \A k \in Reached(root, stop) \ stop :
              Range(heap[k].transitive) \subseteq Reached(root, stop)
         /\ \A S \in SUBSET DOMAIN heap :
              (/\ root \in S
               /\ \A k \in S \ stop : Range(heap[k].transitive) \subseteq S)
              => Reached(root, stop) \subseteq S
PROOF
<1>1. \A k \in DOMAIN heap : Range(heap[k].transitive) \subseteq DOMAIN heap
  BY HeapFacts DEF Range
<1>2. ASSUME NEW k \in Reached(root, stop), k \notin stop, NEW c \in Range(heap[k].transitive)
      PROVE  c \in Reached(root, stop)
  <2>1. c \in DOMAIN heap
    BY <1>1, <1>2 DEF Reached
  <2>2. ASSUME NEW S \in SUBSET DOMAIN heap, root \in S,
               \A m \in S \ stop : Range(heap[m].transitive) \subseteq S
        PROVE  c \in S
    <3>1. k \in S
      BY <2>2, <1>2 DEF Reached
    <3> QED BY <1>2, <2>2, <3>1
  <2> QED BY <2>1, <2>2 DEF Reached
<1>3. root \in Reached(root, stop) /\ Reached(root, stop) \subseteq DOMAIN heap
  BY DEF Reached
<1>4. ASSUME NEW S \in SUBSET DOMAIN heap, root \in S,
             \A m \in S \ stop : Range(heap[m].transitive) \subseteq S,
             NEW k \in Reached(root, stop)
      PROVE  k \in S
  BY <1>4 DEF Reached
<1> QED
  BY <1>2, <1>3, <1>4

\* Below a set are the set and what is below its entries.
LEMMA BelowStep ==
  ASSUME IsHeap(heap), NEW n \in DOMAIN heap
  PROVE  \A q \in Below(n) : q # n => \E c \in Range(heap[n].transitive) : q \in Below(c)
PROOF
<1> DEFINE kids == Range(heap[n].transitive)
           S == {n} \cup UNION {Below(c) : c \in kids}
<1>1. kids \subseteq DOMAIN heap
  BY HeapFacts DEF Range
<1>2. \A c \in kids : /\ Below(c) \subseteq DOMAIN heap /\ c \in Below(c)
                      /\ \A k \in Below(c) : Range(heap[k].transitive) \subseteq Below(c)
  BY <1>1, ReachedLeast DEF Below
<1>3. S \in SUBSET DOMAIN heap /\ n \in S
  BY <1>2
<1>4. ASSUME NEW k \in S \ {} PROVE Range(heap[k].transitive) \subseteq S
  <2>1. CASE k = n
    BY <1>2, <2>1
  <2>2. CASE k # n
    BY <1>2, <1>4, <2>2
  <2> QED BY <2>1, <2>2
<1> HIDE DEF S
<1>5. Below(n) \subseteq S
  BY <1>3, <1>4, ReachedLeast DEF Below
<1> QED
  BY <1>5 DEF S

\* A set pushes what is held below it.
LEMMA PushesBelow ==
  ASSUME IsHeap(heap), NEW b \in BOOLEAN, NEW root \in DOMAIN heap,
         NEW W, W = Collect(heap, b)
  PROVE  Range(W[root]) = UNION {Range(heap[n].direct) : n \in Below(root)}
PROOF
<1> DEFINE U == UNION {Range(heap[n].direct) : n \in Below(root)}
<1>1. Len(heap) \in Nat /\ DOMAIN heap = 1 .. Len(heap)
      /\ \A n \in DOMAIN heap : Range(heap[n].transitive) \subseteq 1 .. n - 1
  BY HeapFacts DEF Range
<1>2. \A m \in DOMAIN heap :
        Range(W[m]) = Range(heap[m].direct) \cup PushedBelow(heap, W, m)
  BY PushedPlaces
<1>3. /\ Below(root) \subseteq DOMAIN heap /\ root \in Below(root)
      /\ \A k \in Below(root) : Range(heap[k].transitive) \subseteq Below(root)
  BY ReachedLeast DEF Below
<1>4. Range(W[root]) \subseteq U
  <2> DEFINE T == {m \in 1 .. Len(heap) : m \in Below(root) => Range(W[m]) \subseteq U}
  <2>1. ASSUME NEW m \in 1 .. Len(heap), \A j \in 1 .. m - 1 : j \in T PROVE m \in T
    <3> SUFFICES ASSUME m \in Below(root) PROVE Range(W[m]) \subseteq U
      OBVIOUS
    <3>1. ASSUME NEW c \in Range(heap[m].transitive) PROVE Range(W[c]) \subseteq U
      <4>1. c \in 1 .. m - 1 /\ c \in Below(root)
        BY <1>1, <1>3
      <4> QED BY <2>1, <4>1
    <3>2. Range(heap[m].direct) \subseteq U
      OBVIOUS
    <3> HIDE DEF U
    <3> QED BY <1>1, <1>2, <3>1, <3>2 DEF PushedBelow
  <2> HIDE DEF T
  <2>2. 1 .. Len(heap) \subseteq T
    BY <1>1, <2>1, BelowInduction
  <2> QED BY <1>1, <1>3, <2>2 DEF T
<1>5. ASSUME NEW n \in Below(root) PROVE Range(heap[n].direct) \subseteq Range(W[root])
  <2> DEFINE S == {m \in DOMAIN heap : Range(W[m]) \subseteq Range(W[root])}
  <2>1. S \in SUBSET DOMAIN heap /\ root \in S
    OBVIOUS
  <2>2. ASSUME NEW k \in S PROVE Range(heap[k].transitive) \subseteq S
    <3>1. \A c \in Range(heap[k].transitive) : c \in DOMAIN heap
      BY HeapFacts DEF Range
    <3> QED BY <1>2, <3>1 DEF PushedBelow
  <2> HIDE DEF S
  <2>3. Below(root) \subseteq S
    BY <2>1, <2>2, ReachedLeast DEF Below
  <2> QED BY <1>2, <1>3, <2>3 DEF S
<1> QED
  BY <1>4, <1>5
-----------------------------------------------------------------------------
(* What comes before what. *)

\* Each f in w has an e before it.
Precedes(w, e, f) == \A j \in DOMAIN w : w[j] = f => \E i \in 1 .. j - 1 : w[i] = e

\* In postorder what is held below the only holder of e precedes e.
LEMMA PostOrder ==
  ASSUME IsHeap(heap), NEW root \in DOMAIN heap, NEW W, W = Collect(heap, FALSE),
         NEW e, NEW f, NEW n \in Below(root), Holders(e, root) = {n},
         NEW q \in Below(n), q # n, f \in Range(heap[q].direct)
  PROVE  Precedes(W[root], f, e)
PROOF
<1>1. Len(heap) \in Nat /\ DOMAIN heap = 1 .. Len(heap)
      /\ \A m \in DOMAIN heap : Range(heap[m].transitive) \subseteq 1 .. m - 1
  BY HeapFacts DEF Range
<1>2. /\ Below(root) \subseteq DOMAIN heap /\ root \in Below(root)
      /\ \A k \in Below(root) : Range(heap[k].transitive) \subseteq Below(root)
  BY ReachedLeast DEF Below
<1>3. \A m \in DOMAIN heap : W[m] \in Seq(Element)
  BY CollectIs
<1>4. PICK k \in Range(heap[n].transitive) : f \in Range(W[k])
  <2>1. PICK k \in Range(heap[n].transitive) : q \in Below(k)
    BY <1>2, BelowStep
  <2>2. k \in DOMAIN heap
    BY <1>2
  <2>3. Range(W[k]) = UNION {Range(heap[m].direct) : m \in Below(k)}
    BY <2>2, PushesBelow
  <2> QED BY <2>1, <2>3
<1> DEFINE T == {m \in 1 .. Len(heap) : m \in Below(root) => Precedes(W[m], f, e)}
<1>5. ASSUME NEW m \in 1 .. Len(heap), \A j \in 1 .. m - 1 : j \in T PROVE m \in T
  <2> SUFFICES ASSUME m \in Below(root), NEW j \in DOMAIN W[m], W[m][j] = e
               PROVE  \E i \in 1 .. j - 1 : W[m][i] = f
    BY DEF Precedes
  <2>1. \/ W[m][j] \in Range(heap[m].direct) /\ EntriesBefore(heap, W, m, j)
        \/ ByEntry(heap, W, m, j)
    <3>1. m \in DOMAIN heap
      BY <1>1
    <3> QED BY <3>1, PushedPlaces
  <2>2. CASE W[m][j] \in Range(heap[m].direct) /\ EntriesBefore(heap, W, m, j)
    <3>1. m \in Holders(e, root)
      BY <2>2 DEF Holders
    <3>2. m = n
      BY <3>1
    <3> QED BY <1>4, <2>2, <3>2 DEF EntriesBefore
  <2>3. CASE ByEntry(heap, W, m, j)
    <3>0. PICK c \in Range(heap[m].transitive) : \E o \in Nat : \E i \in DOMAIN W[c] :
            j = o + i /\ \A l \in 1 .. i : W[m][o + l] = W[c][l]
      BY <2>3 DEF ByEntry
    <3>1. PICK o \in Nat, i \in DOMAIN W[c] :
            j = o + i /\ \A l \in 1 .. i : W[m][o + l] = W[c][l]
      BY <3>0
    <3>2. c \in 1 .. m - 1 /\ c \in Below(root) /\ i \in Nat /\ i \in 1 .. i
      <4>1. c \in 1 .. m - 1 /\ c \in Below(root) /\ c \in DOMAIN heap
        BY <1>1, <1>2
      <4>2. W[c] \in Seq(Element)
        BY <1>3, <4>1
      <4>3. i \in Nat /\ i \in 1 .. i
        BY <4>2, PlaceIsNatural
      <4> QED BY <4>1, <4>3
    <3>3. Precedes(W[c], f, e) /\ W[c][i] = e
      BY <1>5, <3>1, <3>2
    <3>4. PICK l \in 1 .. i - 1 : W[c][l] = f
      BY <3>3 DEF Precedes
    <3>5. o + l \in 1 .. (o + i) - 1 /\ l \in 1 .. i
      BY <3>2, <3>4
    <3>6. o + l \in 1 .. j - 1 /\ W[m][o + l] = f
      BY <3>1, <3>4, <3>5
    <3> QED BY <3>6
  <2> QED BY <2>1, <2>2, <2>3
<1> HIDE DEF T
<1>6. 1 .. Len(heap) \subseteq T
  BY <1>1, <1>5, BelowInduction
<1> QED
  BY <1>1, <1>2, <1>6 DEF T

\* In preorder what is reached through a set only comes after what it holds.
LEMMA PreOrder ==
  ASSUME IsHeap(heap), NEW root \in DOMAIN heap, NEW W, W = Collect(heap, TRUE),
         NEW e, NEW f, NEW n, e \in Range(heap[n].direct),
         Holders(f, root) \cap (Around(root, n) \cup {n}) = {}
  PROVE  Precedes(W[root], e, f)
PROOF
<1> DEFINE R == Reached(root, {n})
<1>1. Len(heap) \in Nat /\ DOMAIN heap = 1 .. Len(heap)
      /\ \A m \in DOMAIN heap : Range(heap[m].transitive) \subseteq 1 .. m - 1
  BY HeapFacts DEF Range
<1>2. /\ R \subseteq DOMAIN heap /\ root \in R
      /\ \A k \in R \ {n} : Range(heap[k].transitive) \subseteq R
  BY ReachedLeast
<1>3. R \subseteq Below(root)
  <2>1. /\ Below(root) \in SUBSET DOMAIN heap /\ root \in Below(root)
        /\ \A k \in Below(root) \ {n} : Range(heap[k].transitive) \subseteq Below(root)
    BY ReachedLeast DEF Below
  <2> QED BY <2>1, ReachedLeast
<1>4. \A m \in DOMAIN heap : W[m] \in Seq(Element)
  BY CollectIs
<1> DEFINE T == {m \in 1 .. Len(heap) : m \in R => Precedes(W[m], e, f)}
<1>5. ASSUME NEW m \in 1 .. Len(heap), \A j \in 1 .. m - 1 : j \in T PROVE m \in T
  <2> SUFFICES ASSUME m \in R, NEW j \in DOMAIN W[m], W[m][j] = f
               PROVE  \E i \in 1 .. j - 1 : W[m][i] = e
    BY DEF Precedes
  <2>1. \/ W[m][j] \in Range(heap[m].direct)
        \/ DirectBefore(heap, W, m, j) /\ ByEntry(heap, W, m, j)
    <3>1. m \in DOMAIN heap
      BY <1>1
    <3> QED BY <3>1, PushedPlaces
  <2>2. W[m][j] \notin Range(heap[m].direct)
    <3>1. m \in Around(root, n) \cup {n}
      BY DEF Around
    <3>2. m \notin Holders(f, root)
      BY <3>1
    <3> QED BY <1>3, <3>2 DEF Holders
  <2>3. CASE m = n
    BY <2>1, <2>2, <2>3 DEF DirectBefore
  <2>4. CASE m # n
    <3>0. PICK c \in Range(heap[m].transitive) : \E o \in Nat : \E i \in DOMAIN W[c] :
            j = o + i /\ \A l \in 1 .. i : W[m][o + l] = W[c][l]
      BY <2>1, <2>2 DEF ByEntry
    <3>1. PICK o \in Nat, i \in DOMAIN W[c] :
            j = o + i /\ \A l \in 1 .. i : W[m][o + l] = W[c][l]
      BY <3>0
    <3>2. c \in 1 .. m - 1 /\ c \in R /\ i \in Nat /\ i \in 1 .. i
      <4>1. c \in 1 .. m - 1 /\ c \in R /\ c \in DOMAIN heap
        BY <1>1, <1>2, <2>4
      <4>2. W[c] \in Seq(Element)
        BY <1>4, <4>1
      <4>3. i \in Nat /\ i \in 1 .. i
        BY <4>2, PlaceIsNatural
      <4> QED BY <4>1, <4>3
    <3>3. Precedes(W[c], e, f) /\ W[c][i] = f
      BY <1>5, <3>1, <3>2
    <3>4. PICK l \in 1 .. i - 1 : W[c][l] = e
      BY <3>3 DEF Precedes
    <3>5. o + l \in 1 .. (o + i) - 1 /\ l \in 1 .. i
      BY <3>2, <3>4
    <3>6. o + l \in 1 .. j - 1 /\ W[m][o + l] = e
      BY <3>1, <3>4, <3>5
    <3> QED BY <3>6
  <2> QED BY <2>3, <2>4
<1> HIDE DEF T, R
<1>6. 1 .. Len(heap) \subseteq T
  BY <1>1, <1>5, BelowInduction
<1> QED
  BY <1>1, <1>2, <1>6 DEF T
-----------------------------------------------------------------------------
(* What to_list keeps. *)

\* The function that FoldLeft evaluates, on the first n pushes.
Folded(w, n, g) ==
  g = [s \in SUBSET (1 .. n) |->
         IF s = {} THEN <<>> ELSE PushDedup(g[s \ {Max(s)}], w[Max(s)])]

LEMMA FoldedExists ==
  ASSUME NEW w, NEW n \in Nat
  PROVE  \E g : Folded(w, n, g)
PROOF
<1> DEFINE S == {m \in Nat : \E g : Folded(w, m, g)}
<1>1. 0 \in S
  <2> DEFINE g == [s \in {{}} |-> <<>>]
  <2>1. SUBSET (1 .. 0) = {{}}
    OBVIOUS
  <2>2. Folded(w, 0, g)
    BY <2>1 DEF Folded
  <2> QED
    BY <2>2
<1>2. ASSUME NEW m \in Nat, m \in S PROVE m + 1 \in S
  <2>1. PICK g : Folded(w, m, g)
    BY <1>2
  <2> DEFINE top == m + 1
             f == [s \in SUBSET (1 .. top) |->
                     IF top \in s THEN PushDedup(g[s \ {top}], w[top]) ELSE g[s]]
  <2>2. ASSUME NEW s \in SUBSET (1 .. top)
        PROVE  f[s] = IF s = {} THEN <<>> ELSE PushDedup(f[s \ {Max(s)}], w[Max(s)])
    <3>1. CASE top \in s
      <4>1. Max(s) = top
        BY <3>1, MaxOfInterval
      <4>2. s \ {top} \in SUBSET (1 .. top) /\ f[s \ {top}] = g[s \ {top}]
        OBVIOUS
      <4>3. f[s] = PushDedup(g[s \ {top}], w[top])
        BY <3>1
      <4> QED BY <3>1, <4>1, <4>2, <4>3
    <3>2. CASE top \notin s
      <4>1. s \in SUBSET (1 .. m) /\ f[s] = g[s]
        BY <3>2
      <4>2. s \ {Max(s)} \in SUBSET (1 .. m)
        BY <4>1
      <4>3. f[s \ {Max(s)}] = g[s \ {Max(s)}]
        BY <4>2
      <4>4. g[s] = IF s = {} THEN <<>> ELSE PushDedup(g[s \ {Max(s)}], w[Max(s)])
        BY <2>1, <4>1 DEF Folded
      <4> QED BY <4>1, <4>3, <4>4
    <3> QED BY <3>1, <3>2
  <2>3. f = [s \in SUBSET (1 .. top) |-> f[s]]
    OBVIOUS
  <2> HIDE DEF f
  <2>4. Folded(w, top, f)
    BY <2>2, <2>3 DEF Folded
  <2> QED
    BY <2>4
<1> HIDE DEF S
<1>3. n \in S
  BY <1>1, <1>2, SetInduction
<1> QED
  BY <1>3 DEF S

Deduped(w) == FoldLeft(PushDedup, <<>>, w)

\* kept is what is kept of the first k pushes: the same elements, each once,
\* and what came first still does.
KeptOf(w, k, kept) ==
  /\ kept \in Seq(Element)
  /\ Range(kept) = {w[i] : i \in 1 .. k}
  /\ \A i, j \in DOMAIN kept : kept[i] = kept[j] => i = j
  /\ \A e, f : Precedes(w, e, f) => Precedes(kept, e, f)

LEMMA KeptPush ==
  ASSUME NEW w \in Seq(Element), NEW k \in Nat, k + 1 \in DOMAIN w,
         NEW kept, KeptOf(w, k, kept)
  PROVE  KeptOf(w, k + 1, PushDedup(kept, w[k + 1]))
PROOF
<1> DEFINE x == w[k + 1]
           next == PushDedup(kept, x)
<1>1. /\ x \in Element /\ kept \in Seq(Element) /\ Len(kept) \in Nat
      /\ DOMAIN kept = 1 .. Len(kept)
  BY DEF KeptOf
<1>2. {w[i] : i \in 1 .. k + 1} = Range(kept) \cup {x}
  <2>1. \A i \in 1 .. k + 1 : i \in 1 .. k \/ i = k + 1
    OBVIOUS
  <2>2. \A i \in 1 .. k : i \in 1 .. k + 1
    OBVIOUS
  <2>3. k + 1 \in 1 .. k + 1
    OBVIOUS
  <2> QED BY <2>1, <2>2, <2>3 DEF KeptOf
<1>3. CASE x \in Range(kept)
  <2>1. next = kept /\ {w[i] : i \in 1 .. k + 1} = Range(kept)
    BY <1>2, <1>3 DEF PushDedup
  <2> QED BY <2>1 DEF KeptOf
<1>4. CASE x \notin Range(kept)
  <2>1. next = Append(kept, x)
    BY <1>4 DEF PushDedup
  <2> HIDE DEF x, next
  <2>2. /\ next \in Seq(Element) /\ DOMAIN next = 1 .. Len(kept) + 1
        /\ next[Len(kept) + 1] = x /\ \A i \in 1 .. Len(kept) : next[i] = kept[i]
    BY <1>1, <2>1
  <2>3. Range(next) = Range(kept) \cup {x}
    <3>1. \A i \in DOMAIN next : i \in DOMAIN kept \/ i = Len(kept) + 1
      BY <1>1, <2>2
    <3>2. \A i \in DOMAIN kept : i \in DOMAIN next
      BY <1>1, <2>2
    <3>3. Len(kept) + 1 \in DOMAIN next
      BY <1>1, <2>2
    <3> QED BY <1>1, <2>2, <3>1, <3>2, <3>3 DEF Range
  <2>4. ASSUME NEW i \in DOMAIN next, NEW j \in DOMAIN next, next[i] = next[j]
        PROVE  i = j
    <3>1. \A l \in 1 .. Len(kept) : next[l] # x
      BY <1>1, <1>4, <2>2 DEF Range
    <3>2. CASE i = Len(kept) + 1 \/ j = Len(kept) + 1
      BY <1>1, <2>2, <2>4, <3>1, <3>2
    <3>3. CASE i \in 1 .. Len(kept) /\ j \in 1 .. Len(kept)
      BY <1>1, <2>2, <2>4, <3>3 DEF KeptOf
    <3> QED BY <1>1, <2>2, <3>2, <3>3
  <2>5. ASSUME NEW e, NEW f, Precedes(w, e, f) PROVE Precedes(next, e, f)
    <3>1. Precedes(kept, e, f)
      BY <2>5 DEF KeptOf
    <3> SUFFICES ASSUME NEW j \in DOMAIN next, next[j] = f
                 PROVE  \E i \in 1 .. j - 1 : next[i] = e
      BY DEF Precedes
    <3>2. CASE j \in 1 .. Len(kept)
      <4>1. PICK i \in 1 .. j - 1 : kept[i] = e
        BY <1>1, <2>2, <3>1, <3>2 DEF Precedes
      <4>2. i \in 1 .. Len(kept)
        BY <1>1, <3>2
      <4> QED BY <2>2, <4>1, <4>2
    <3>3. CASE j = Len(kept) + 1
      <4>1. PICK i \in 1 .. k : w[i] = e
        <5>1. w[k + 1] = f
          BY <2>2, <3>3 DEF x
        <5>2. \E i \in 1 .. (k + 1) - 1 : w[i] = e
          BY <2>5, <5>1 DEF Precedes
        <5> QED BY <5>2
      <4>2. e \in Range(kept)
        BY <4>1 DEF KeptOf
      <4>3. PICK l \in 1 .. Len(kept) : kept[l] = e
        BY <1>1, <4>2 DEF Range
      <4>4. l \in 1 .. j - 1
        BY <1>1, <3>3
      <4> QED BY <2>2, <4>3, <4>4
    <3> QED BY <1>1, <2>2, <3>2, <3>3
  <2> QED BY <1>2, <2>2, <2>3, <2>4, <2>5 DEF KeptOf, x, next
<1> QED
  BY <1>3, <1>4

\* push_dedup keeps every element, once, where it came first.
LEMMA DedupedKeeps ==
  ASSUME NEW w \in Seq(Element)
  PROVE  KeptOf(w, Len(w), Deduped(w))
PROOF
<1> DEFINE n == Len(w)
<1>1. n \in Nat /\ DOMAIN w = 1 .. n
  OBVIOUS
<1>2. PICK g : Folded(w, n, g) /\ Deduped(w) = g[1 .. n]
  <2>1. \E g : Folded(w, n, g)
    BY <1>1, FoldedExists
  <2> QED BY <1>1, <2>1 DEF Folded, Deduped, FoldLeft, MapThenFoldSet
<1> DEFINE T == {k \in Nat : k <= n => KeptOf(w, k, g[1 .. k])}
<1>3. 0 \in T
  <2>1. 1 .. 0 = {} /\ {} \in SUBSET (1 .. n)
    OBVIOUS
  <2>2. g[1 .. 0] = <<>>
    BY <1>2, <2>1 DEF Folded
  <2>3. <<>> \in Seq(Element) /\ DOMAIN <<>> = {} /\ Range(<<>>) = {}
    BY DEF Range
  <2>4. KeptOf(w, 0, <<>>)
    BY <2>1, <2>3 DEF KeptOf, Precedes
  <2> QED BY <2>2, <2>4
<1>4. ASSUME NEW k \in Nat, k \in T, k + 1 <= n
      PROVE  KeptOf(w, k + 1, g[1 .. k + 1])
  <2>1. /\ 1 .. k + 1 \in SUBSET (1 .. n) /\ 1 .. k + 1 # {} /\ k + 1 \in 1 .. k + 1
        /\ (1 .. k + 1) \ {k + 1} = 1 .. k /\ k + 1 \in DOMAIN w
    BY <1>1, <1>4
  <2>2. Max(1 .. k + 1) = k + 1
    BY <2>1, MaxOfInterval
  <2>3. g[1 .. k + 1] = PushDedup(g[1 .. k], w[k + 1])
    BY <1>2, <2>1, <2>2 DEF Folded
  <2>4. KeptOf(w, k, g[1 .. k])
    BY <1>1, <1>4
  <2> QED BY <2>1, <2>3, <2>4, KeptPush
<1>5. \A k \in Nat : k \in T => k + 1 \in T
  BY <1>4
<1> HIDE DEF T
<1>6. n \in T
  BY <1>1, <1>3, <1>5, SetInduction
<1> QED
  BY <1>1, <1>2, <1>6 DEF T

\* What to_list gives for a set, when it gives something.
LEMMA ListIs ==
  ASSUME NEW h, IsHeap(h), NEW root \in DOMAIN h, ToListOf(h, root) # Refused,
         NEW w, w = Collect(h, h[root].order = "preorder")[root]
  PROVE  w \in Seq(Element) /\ ToListOf(h, root) = Deduped(w) /\ KeptOf(w, Len(w), Deduped(w))
PROOF
<1>1. w \in Seq(Element)
  BY CollectIs
<1>2. ToListOf(h, root) = Deduped(w)
  BY DEF ToListOf, Deduped
<1> QED
  BY <1>1, <1>2, DedupedKeeps

LEMMA KeptSize ==
  ASSUME NEW w \in Seq(Element), NEW list, KeptOf(w, Len(w), list)
  PROVE  Cardinality(Range(list)) = Len(list) /\ Range(list) = Range(w)
PROOF
<1>1. list \in Seq(Element) /\ Len(list) \in Nat /\ DOMAIN list = 1 .. Len(list)
      /\ list = [i \in 1 .. Len(list) |-> list[i]]
      /\ \A i, j \in DOMAIN list : list[i] = list[j] => i = j
  BY DEF KeptOf
<1>2. list \in Bijection(1 .. Len(list), Range(list))
  <2>1. list \in [1 .. Len(list) -> Range(list)]
    BY <1>1 DEF Range
  <2> QED BY <1>1, <2>1 DEF Bijection, Injection, Surjection, IsInjective, Range
<1>3. ExistsBijection(1 .. Len(list), Range(list))
  BY <1>2 DEF ExistsBijection
<1>4. IsFiniteSet(1 .. Len(list)) /\ Cardinality(1 .. Len(list)) = Len(list)
  BY <1>1, IntervalSize, FS_Interval
<1>5. Cardinality(Range(list)) = Len(list)
  BY <1>3, <1>4, FS_Bijection
<1>6. Range(list) = Range(w)
  <2>1. DOMAIN w = 1 .. Len(w)
    OBVIOUS
  <2>2. Range(w) = {w[i] : i \in 1 .. Len(w)}
    BY <2>1 DEF Range
  <2> QED BY <2>2 DEF KeptOf
<1> QED
  BY <1>5, <1>6

\* to_list of any set of the heap is complete.
LEMMA CompleteList ==
  ASSUME IsHeap(heap), answer.root \in DOMAIN heap,
         answer.list = ToListOf(heap, answer.root), answer.list # Refused
  PROVE  ListComplete
PROOF
<1> DEFINE root == answer.root
           b == heap[root].order = "preorder"
           W == Collect(heap, b)
<1>1. /\ W[root] \in Seq(Element) /\ answer.list = Deduped(W[root])
      /\ KeptOf(W[root], Len(W[root]), answer.list)
  BY ListIs
<1>2. b \in BOOLEAN
  OBVIOUS
<1> HIDE DEF b
<1>3. Range(W[root]) = UNION {Range(heap[n].direct) : n \in Below(root)}
  BY <1>2, PushesBelow
<1>4. Cardinality(Range(answer.list)) = Len(answer.list) /\ Range(answer.list) = Range(W[root])
  BY <1>1, KeptSize
<1> QED
  BY <1>3, <1>4 DEF ListComplete

\* In a list without duplicates an element has one place.
LEMMA PlacesOrdered ==
  ASSUME NEW list \in Seq(Element),
         \A i, j \in DOMAIN list : list[i] = list[j] => i = j,
         NEW e, NEW f \in Range(list), Precedes(list, e, f)
  PROVE  PlaceIn(list, e) < PlaceIn(list, f)
PROOF
<1>1. Len(list) \in Nat /\ DOMAIN list = 1 .. Len(list)
  OBVIOUS
<1>2. PICK j \in DOMAIN list : list[j] = f
  BY DEF Range
<1>3. PICK i \in 1 .. j - 1 : list[i] = e
  BY <1>2 DEF Precedes
<1>4. i \in DOMAIN list /\ i < j
  BY <1>1
<1>5. PlaceIn(list, f) = j
  BY <1>2 DEF PlaceIn
<1>6. PlaceIn(list, e) = i
  BY <1>3, <1>4 DEF PlaceIn
<1> QED
  BY <1>4, <1>5, <1>6

\* to_list of any set of the heap is in order.
LEMMA OrderedList ==
  ASSUME IsHeap(heap), answer.root \in DOMAIN heap,
         answer.list = ToListOf(heap, answer.root), answer.list # Refused
  PROVE  ListOrdered
PROOF
<1> DEFINE root == answer.root
           b == heap[root].order = "preorder"
           W == Collect(heap, b)
           list == answer.list
<1>1. /\ W[root] \in Seq(Element) /\ list = Deduped(W[root])
      /\ KeptOf(W[root], Len(W[root]), list)
  BY ListIs
<1>2. /\ list \in Seq(Element)
      /\ \A i, j \in DOMAIN list : list[i] = list[j] => i = j
      /\ \A e, f : Precedes(W[root], e, f) => Precedes(list, e, f)
  BY <1>1 DEF KeptOf
<1>3. ASSUME NEW e, NEW f \in Range(list), Precedes(W[root], e, f)
      PROVE  PlaceIn(list, e) < PlaceIn(list, f)
  <2>1. Precedes(list, e, f)
    BY <1>2, <1>3
  <2> HIDE DEF list
  <2> QED BY <1>2, <2>1, PlacesOrdered
<1>4. ASSUME NEW e \in Range(list), NEW f \in Range(list), NEW n \in Below(root),
             e # f, Holders(e, root) = {n}, b,
             Holders(f, root) \subseteq Below(n) \ (Around(root, n) \cup {n})
      PROVE  PlaceIn(list, e) < PlaceIn(list, f)
  <2>1. Holders(f, root) \cap (Around(root, n) \cup {n}) = {}
    BY <1>4
  <2>2. e \in Range(heap[n].direct)
    BY <1>4 DEF Holders
  <2>3. W = Collect(heap, TRUE)
    <3>1. b = TRUE
      BY <1>4
    <3> HIDE DEF b
    <3> QED BY <3>1
  <2> HIDE DEF W, b, list, root
  <2>4. Precedes(W[root], e, f)
    BY <2>1, <2>2, <2>3, PreOrder DEF root
  <2> QED BY <1>3, <2>4
<1>5. ASSUME NEW e \in Range(list), NEW f \in Range(list), NEW n \in Below(root),
             e # f, Holders(e, root) = {n}, ~b,
             Holders(f, root) \cap (Below(n) \ {n}) # {}
      PROVE  PlaceIn(list, f) < PlaceIn(list, e)
  <2>1. PICK q \in Below(n) : q # n /\ f \in Range(heap[q].direct)
    BY <1>5 DEF Holders
  <2>2. W = Collect(heap, FALSE)
    <3>1. b = FALSE
      BY <1>5
    <3> HIDE DEF b
    <3> QED BY <3>1
  <2> HIDE DEF W, b, list, root
  <2>3. Precedes(W[root], f, e)
    BY <1>5, <2>1, <2>2, PostOrder DEF root
  <2> QED BY <1>3, <2>3
<1> HIDE DEF W
<1> QED
  BY <1>4, <1>5 DEF ListOrdered
-----------------------------------------------------------------------------
(* A heap within another. *)

\* The set n of t, its places moved by o, is the set o + n of h.
Stands(t, h, o, n) ==
  /\ o + n \in DOMAIN h
  /\ h[o + n].order = t[n].order /\ h[o + n].direct = t[n].direct
  /\ h[o + n].transitive = [k \in DOMAIN t[n].transitive |-> t[n].transitive[k] + o]

Embedded(t, h, o) == o \in Nat /\ \A n \in DOMAIN t : Stands(t, h, o, n)

\* A set pushes the same wherever its heap stands.
LEMMA EmbeddedPushes ==
  ASSUME NEW t, IsHeap(t), NEW h, IsHeap(h), NEW o, Embedded(t, h, o), NEW b \in BOOLEAN
  PROVE  \A n \in DOMAIN t : Collect(h, b)[o + n] = Collect(t, b)[n]
PROOF
<1> DEFINE H == Collect(h, b)
           G == Collect(t, b)
           T == {n \in 1 .. Len(t) : H[o + n] = G[n]}
<1>1. /\ Len(t) \in Nat /\ DOMAIN t = 1 .. Len(t) /\ o \in Nat
      /\ \A n \in DOMAIN t : \A k \in DOMAIN t[n].transitive :
           t[n].transitive[k] \in 1 .. n - 1
  BY HeapFacts DEF Embedded
<1>2. /\ \A n \in DOMAIN t : G[n] = Pushed(t, b, n, G)
      /\ \A n \in DOMAIN h : H[n] = Pushed(h, b, n, H)
  BY CollectIs
<1> HIDE DEF H, G
<1>3. ASSUME NEW n \in 1 .. Len(t), \A j \in 1 .. n - 1 : j \in T PROVE n \in T
  <2>1. n \in DOMAIN t /\ Stands(t, h, o, n)
    BY <1>1 DEF Embedded
  <2>2. /\ DOMAIN h[o + n].transitive = DOMAIN t[n].transitive
        /\ \A k \in DOMAIN t[n].transitive : h[o + n].transitive[k] = t[n].transitive[k] + o
    BY <2>1 DEF Stands
  <2>3. \A k \in DOMAIN t[n].transitive : H[h[o + n].transitive[k]] = G[t[n].transitive[k]]
    <3> TAKE k \in DOMAIN t[n].transitive
    <3> DEFINE c == t[n].transitive[k]
    <3>1. c \in 1 .. n - 1 /\ c \in Nat
      BY <1>1, <2>1
    <3>2. H[o + c] = G[c]
      BY <1>3, <3>1
    <3>3. h[o + n].transitive[k] = o + c
      BY <1>1, <2>2, <3>1
    <3> QED BY <3>2, <3>3
  <2>4. Parts(h, o + n, H) = Parts(t, n, G)
    BY <2>2, <2>3 DEF Parts
  <2>5. Pushed(h, b, o + n, H) = Pushed(t, b, n, G)
    BY <2>1, <2>4 DEF Pushed, Stands
  <2>6. o + n \in DOMAIN h
    BY <2>1 DEF Stands
  <2>7. H[o + n] = G[n]
    BY <1>2, <2>1, <2>5, <2>6
  <2> QED BY <2>7
<1> HIDE DEF T
<1>4. 1 .. Len(t) \subseteq T
  BY <1>1, <1>3, BelowInduction
<1> QED
  BY <1>1, <1>4 DEF T, H, G

LEMMA MovedIs ==
  ASSUME NEW t, IsHeap(t), NEW o \in Nat
  PROVE  /\ Moved(t, o) \in Seq(Sets) /\ Len(Moved(t, o)) = Len(t)
         /\ DOMAIN Moved(t, o) = 1 .. Len(t)
         /\ \A n \in 1 .. Len(t) :
              /\ Moved(t, o)[n].order = t[n].order /\ Moved(t, o)[n].direct = t[n].direct
              /\ Moved(t, o)[n].transitive = [k \in DOMAIN t[n].transitive |-> t[n].transitive[k] + o]
PROOF
<1>1. /\ Len(t) \in Nat /\ DOMAIN t = 1 .. Len(t)
      /\ \A n \in DOMAIN t :
           /\ t[n] \in Sets /\ t[n].order \in Order /\ t[n].direct \in Seq(Element)
           /\ Len(t[n].transitive) \in Nat
           /\ DOMAIN t[n].transitive = 1 .. Len(t[n].transitive)
           /\ \A k \in DOMAIN t[n].transitive : t[n].transitive[k] \in 1 .. n - 1
  BY HeapFacts
<1> DEFINE tr(n) == [k \in DOMAIN t[n].transitive |-> t[n].transitive[k] + o]
<1>2. ASSUME NEW n \in 1 .. Len(t)
      PROVE  /\ Moved(t, o)[n] \in Sets
             /\ Moved(t, o)[n].order = t[n].order /\ Moved(t, o)[n].direct = t[n].direct
             /\ Moved(t, o)[n].transitive = tr(n)
  <2>1. tr(n) \in Seq(Nat)
    <3>1. tr(n) \in [1 .. Len(t[n].transitive) -> Nat]
      BY <1>1
    <3> QED BY <1>1, <3>1
  <2>2. Moved(t, o)[n] = [t[n] EXCEPT !.transitive = tr(n)]
    BY <1>1 DEF Moved
  <2> HIDE DEF tr
  <2> QED BY <1>1, <2>1, <2>2 DEF Sets
<1>3. Moved(t, o) \in [1 .. Len(t) -> Sets]
  <2>1. Moved(t, o) = [n \in 1 .. Len(t) |-> Moved(t, o)[n]]
    BY <1>1 DEF Moved
  <2> QED BY <1>2, <2>1
<1>4. Moved(t, o) \in Seq(Sets) /\ Len(Moved(t, o)) = Len(t) /\ DOMAIN Moved(t, o) = 1 .. Len(t)
  BY <1>1, <1>3
<1> QED
  BY <1>2, <1>4

\* A sequence that reads like moved heaps, wherever one stands, is a heap.
LEMMA StandsIsHeap ==
  ASSUME NEW h \in Seq(Sets),
         \A m \in DOMAIN h : \E t : \E o \in Nat : \E n \in DOMAIN t :
           IsHeap(t) /\ Stands(t, h, o, n) /\ m = o + n
  PROVE  IsHeap(h)
PROOF
<1>1. ASSUME NEW m \in DOMAIN h, NEW x \in Range(h[m].transitive) PROVE x \in 1 .. m - 1
  <2>1. PICK t : \E o \in Nat : \E n \in DOMAIN t :
          IsHeap(t) /\ Stands(t, h, o, n) /\ m = o + n
    OBVIOUS
  <2>2. PICK o \in Nat, n \in DOMAIN t : IsHeap(t) /\ Stands(t, h, o, n) /\ m = o + n
    BY <2>1
  <2>3. PICK k \in DOMAIN h[m].transitive : x = h[m].transitive[k]
    BY DEF Range
  <2>4. k \in DOMAIN t[n].transitive /\ x = t[n].transitive[k] + o
    BY <2>2, <2>3 DEF Stands
  <2>5. t[n].transitive[k] \in 1 .. n - 1 /\ n \in Nat
    BY <2>2, <2>4, HeapFacts
  <2> QED BY <2>2, <2>4, <2>5
<1> QED
  BY <1>1 DEF IsHeap

\* Allocating a tree keeps what is there and puts the tree behind it.
LEMMA AllocIs ==
  ASSUME NEW h, IsHeap(h), NEW t, IsHeap(t)
  PROVE  /\ IsHeap(Alloc(h, t)) /\ Len(Alloc(h, t)) = Len(h) + Len(t)
         /\ Embedded(t, Alloc(h, t), Len(h))
PROOF
<1> DEFINE m == Moved(t, Len(h))
           g == h \o m
<1>1. /\ Len(h) \in Nat /\ DOMAIN h = 1 .. Len(h) /\ h \in Seq(Sets)
      /\ Len(t) \in Nat /\ DOMAIN t = 1 .. Len(t)
  BY HeapFacts DEF IsHeap
<1>2. /\ m \in Seq(Sets) /\ Len(m) = Len(t)
      /\ \A n \in 1 .. Len(t) :
           /\ m[n].order = t[n].order /\ m[n].direct = t[n].direct
           /\ m[n].transitive = [k \in DOMAIN t[n].transitive |-> t[n].transitive[k] + Len(h)]
  BY <1>1, MovedIs
<1> HIDE DEF m
<1>3. /\ g \in Seq(Sets) /\ Len(g) = Len(h) + Len(t) /\ DOMAIN g = 1 .. Len(h) + Len(t)
      /\ \A n \in 1 .. Len(h) : g[n] = h[n]
      /\ \A n \in 1 .. Len(t) : g[Len(h) + n] = m[n]
  <2>1. /\ g \in Seq(Sets) /\ Len(g) = Len(h) + Len(m) /\ DOMAIN g = 1 .. Len(h) + Len(m)
        /\ \A n \in 1 .. Len(h) : g[n] = h[n]
        /\ \A n \in 1 .. Len(m) : g[Len(h) + n] = m[n]
    <3>1. h \in Seq(Sets) /\ m \in Seq(Sets)
      BY <1>1, <1>2
    <3>2. /\ h \o m \in Seq(Sets) /\ Len(h \o m) = Len(h) + Len(m)
          /\ DOMAIN (h \o m) = 1 .. Len(h) + Len(m)
          /\ \A n \in 1 .. Len(h) : (h \o m)[n] = h[n]
          /\ \A n \in 1 .. Len(m) : (h \o m)[Len(h) + n] = m[n]
      BY <3>1, ConcatIs
    <3> QED BY <3>2, Zenon
  <2> HIDE DEF g
  <2> QED BY <1>2, <2>1
<1> HIDE DEF g
<1>4. \A n \in DOMAIN t : Stands(t, g, Len(h), n)
  <2> TAKE n \in DOMAIN t
  <2>1. n \in 1 .. Len(t) /\ Len(h) + n \in DOMAIN g /\ g[Len(h) + n] = m[n]
    BY <1>1, <1>3
  <2> QED BY <1>2, <2>1 DEF Stands
<1>5. \A n \in DOMAIN h : Stands(h, g, 0, n)
  <2> TAKE n \in DOMAIN h
  <2>1. 0 + n = n /\ n \in DOMAIN g /\ g[n] = h[n]
    BY <1>1, <1>3
  <2>2. h[n].transitive = [k \in DOMAIN h[n].transitive |-> h[n].transitive[k] + 0]
    <3>1. h[n].transitive \in Seq(Nat)
      <4>1. h[n] \in Sets
        BY HeapFacts
      <4> QED BY <4>1 DEF Sets
    <3> DEFINE tr == h[n].transitive
    <3>2. tr = [k \in DOMAIN tr |-> tr[k]] /\ \A k \in DOMAIN tr : tr[k] \in Nat
      BY <3>1
    <3> HIDE DEF tr
    <3>3. tr = [k \in DOMAIN tr |-> tr[k] + 0]
      BY <3>2
    <3> QED BY <3>3 DEF tr
  <2> QED BY <2>1, <2>2 DEF Stands
<1>6. IsHeap(g)
  <2>1. ASSUME NEW l \in DOMAIN g
        PROVE  \E u : \E o \in Nat : \E n \in DOMAIN u :
                 IsHeap(u) /\ Stands(u, g, o, n) /\ l = o + n
    <3>1. CASE l \in 1 .. Len(h)
      <4>1. l = 0 + l /\ 0 \in Nat /\ l \in DOMAIN h
        BY <1>1, <3>1
      <4> QED BY <1>5, <4>1
    <3>2. CASE l \notin 1 .. Len(h)
      <4>1. l - Len(h) \in DOMAIN t /\ l = Len(h) + (l - Len(h)) /\ Len(h) \in Nat
        BY <1>1, <1>3, <3>2
      <4> QED BY <1>4, <4>1
    <3> QED BY <3>1, <3>2
  <2> QED BY <1>3, <2>1, StandsIsHeap
<1> QED
  BY <1>1, <1>3, <1>4, <1>6 DEF Alloc, Embedded, g, m
-----------------------------------------------------------------------------
(* The projection of a set. *)

\* Parts of the same lengths stand at the same places.
LEMMA SameLengths ==
  ASSUME NEW S, NEW ss \in Seq(Seq(S)), NEW tt \in Seq(Seq(S)), Len(ss) = Len(tt),
         \A k \in 1 .. Len(ss) : Len(ss[k]) = Len(tt[k])
  PROVE  \A k \in 0 .. Len(ss) : LengthTo(ss, k) = LengthTo(tt, k)
PROOF
<1> DEFINE N == {k \in Nat : k <= Len(ss) => LengthTo(ss, k) = LengthTo(tt, k)}
<1>1. Segmented(ss) /\ Segmented(tt) /\ Len(ss) \in Nat
  BY FlattenSegments
<1>2. 0 \in N
  BY <1>1 DEF Segmented
<1>3. ASSUME NEW k \in Nat, k \in N, k + 1 <= Len(ss)
      PROVE  LengthTo(ss, k + 1) = LengthTo(tt, k + 1)
  <2>1. k + 1 \in 1 .. Len(ss) /\ (k + 1) - 1 = k /\ k <= Len(ss)
    BY <1>1, <1>3
  <2>2. LengthTo(ss, k + 1) = LengthTo(ss, (k + 1) - 1) + Len(ss[k + 1])
    BY <1>1, <2>1 DEF Segmented
  <2>3. LengthTo(tt, k + 1) = LengthTo(tt, (k + 1) - 1) + Len(tt[k + 1])
    BY <1>1, <2>1 DEF Segmented
  <2>4. LengthTo(ss, k) = LengthTo(tt, k) /\ Len(ss[k + 1]) = Len(tt[k + 1])
    BY <1>3, <2>1
  <2> QED BY <2>1, <2>2, <2>3, <2>4
<1>4. \A k \in Nat : k \in N => k + 1 \in N
  BY <1>3
<1> HIDE DEF N
<1>5. \A k \in Nat : k \in N
  BY <1>2, <1>4, SetInduction
<1> QED
  BY <1>1, <1>5 DEF N

\* A tree has a root.
Trees == {t \in Seq(Sets) : IsHeap(t) /\ t # <<>>}

\* Where the trees stand when they are joined.
LEMMA JoinedIs ==
  ASSUME NEW trees \in Seq(Trees)
  PROVE  /\ IsHeap(Joined(trees))
         /\ \A k \in 1 .. Len(trees) :
              /\ Offset(trees, k) = Offset(trees, k - 1) + Len(trees[k])
              /\ Offset(trees, k) \in 1 .. Len(Joined(trees))
              /\ Embedded(trees[k], Joined(trees), Offset(trees, k - 1))
PROOF
<1> DEFINE moved == [k \in DOMAIN trees |-> Moved(trees[k], Offset(trees, k - 1))]
           J == Joined(trees)
<1>1. /\ Len(trees) \in Nat /\ DOMAIN trees = 1 .. Len(trees) /\ trees \in Seq(Seq(Sets))
      /\ \A k \in 1 .. Len(trees) : IsHeap(trees[k]) /\ trees[k] \in Seq(Sets) /\ trees[k] # <<>>
  BY DEF Trees
<1>2. \A k \in 0 .. Len(trees) : Offset(trees, k) = LengthTo(trees, k)
  BY DEF Offset, LengthTo
<1>3. Segmented(trees)
  BY <1>1, FlattenSegments
<1>4. ASSUME NEW k \in 1 .. Len(trees)
      PROVE  /\ k - 1 \in 0 .. Len(trees) /\ k \in 0 .. Len(trees)
             /\ Offset(trees, k - 1) \in Nat /\ Len(trees[k]) \in Nat /\ Len(trees[k]) >= 1
             /\ DOMAIN trees[k] = 1 .. Len(trees[k])
             /\ Offset(trees, k) = Offset(trees, k - 1) + Len(trees[k])
  <2>1. k - 1 \in 0 .. Len(trees) /\ k \in 0 .. Len(trees)
    BY <1>1
  <2>2. Len(trees[k]) \in Nat /\ Len(trees[k]) >= 1 /\ DOMAIN trees[k] = 1 .. Len(trees[k])
    BY <1>1
  <2>3. /\ LengthTo(trees, k - 1) \in Nat
        /\ LengthTo(trees, k) = LengthTo(trees, k - 1) + Len(trees[k])
    BY <1>3 DEF Segmented
  <2> QED BY <1>2, <2>1, <2>2, <2>3
<1>5. ASSUME NEW k \in 1 .. Len(trees)
      PROVE  /\ moved[k] \in Seq(Sets) /\ Len(moved[k]) = Len(trees[k])
             /\ \A n \in 1 .. Len(trees[k]) :
                  /\ moved[k][n].order = trees[k][n].order
                  /\ moved[k][n].direct = trees[k][n].direct
                  /\ moved[k][n].transitive =
                       [i \in DOMAIN trees[k][n].transitive |->
                          trees[k][n].transitive[i] + Offset(trees, k - 1)]
  <2>1. moved[k] = Moved(trees[k], Offset(trees, k - 1))
    BY <1>1
  <2> HIDE DEF moved
  <2> QED BY <1>1, <1>4, <2>1, MovedIs
<1>6. moved \in Seq(Seq(Sets)) /\ Len(moved) = Len(trees)
  <2>1. moved = [k \in 1 .. Len(trees) |-> moved[k]]
    BY <1>1
  <2>2. moved \in [1 .. Len(trees) -> Seq(Sets)]
    <3> HIDE DEF moved
    <3> QED BY <1>5, <2>1
  <2> DEFINE V == Seq(Sets)
  <2>3. moved \in [1 .. Len(trees) -> V] /\ Len(trees) \in Nat
    BY <1>1, <2>2
  <2> HIDE DEF moved, V
  <2>4. moved \in Seq(V) /\ Len(moved) = Len(trees)
    BY <2>3, FunctionIsSequence
  <2> QED BY <2>4 DEF V
<1>7. J = FlattenSeq(moved)
  BY DEF Joined
<1> HIDE DEF moved, J
<1>8. Segmented(moved) /\ J \in Seq(Sets)
  BY <1>6, <1>7, FlattenSegments, FlattenType
<1>9. \A k \in 0 .. Len(trees) : LengthTo(moved, k) = Offset(trees, k)
  <2>1. \A k \in 1 .. Len(moved) : Len(moved[k]) = Len(trees[k])
    BY <1>5, <1>6
  <2>2. \A k \in 0 .. Len(moved) : LengthTo(moved, k) = LengthTo(trees, k)
    BY <1>1, <1>6, <2>1, SameLengths
  <2> QED BY <1>2, <1>6, <2>2
<1>10. ASSUME NEW k \in 1 .. Len(trees)
       PROVE  /\ Offset(trees, k) <= Len(J)
              /\ \A i \in 1 .. Len(trees[k]) : J[Offset(trees, k - 1) + i] = moved[k][i]
  <2>1. /\ LengthTo(moved, k) <= Len(J)
        /\ \A i \in 1 .. Len(moved[k]) : J[LengthTo(moved, k - 1) + i] = moved[k][i]
    BY <1>6, <1>7, <1>8 DEF Segmented
  <2>2. Len(moved[k]) = Len(trees[k])
    BY <1>5
  <2>3. LengthTo(moved, k) = Offset(trees, k) /\ LengthTo(moved, k - 1) = Offset(trees, k - 1)
    BY <1>4, <1>9
  <2> QED BY <2>1, <2>2, <2>3
<1>11. Len(J) \in Nat /\ DOMAIN J = 1 .. Len(J)
  BY <1>8
<1>12. ASSUME NEW k \in 1 .. Len(trees), NEW n \in DOMAIN trees[k]
       PROVE  Stands(trees[k], J, Offset(trees, k - 1), n)
  <2>1. n \in 1 .. Len(trees[k])
    BY <1>4
  <2>2. Offset(trees, k - 1) + n \in DOMAIN J
    BY <1>4, <1>10, <1>11, <2>1
  <2>3. J[Offset(trees, k - 1) + n] = moved[k][n]
    BY <1>10, <2>1
  <2> QED BY <1>5, <2>1, <2>2, <2>3 DEF Stands
<1>13. IsHeap(J)
  <2>1. ASSUME NEW m \in DOMAIN J
        PROVE  \E u : \E o \in Nat : \E n \in DOMAIN u :
                 IsHeap(u) /\ Stands(u, J, o, n) /\ m = o + n
    <3>1. PICK k \in 1 .. Len(trees) : \E i \in 1 .. Len(moved[k]) :
            m = LengthTo(moved, k - 1) + i
      <4>1. m \in 1 .. Len(FlattenSeq(moved))
        BY <1>7, <1>11
      <4> QED BY <1>6, <1>8, <4>1 DEF Segmented
    <3>2. PICK i \in 1 .. Len(moved[k]) : m = LengthTo(moved, k - 1) + i
      BY <3>1
    <3>3. /\ i \in DOMAIN trees[k] /\ m = Offset(trees, k - 1) + i
          /\ Offset(trees, k - 1) \in Nat
      BY <1>4, <1>5, <1>9, <3>2
    <3>4. IsHeap(trees[k]) /\ Stands(trees[k], J, Offset(trees, k - 1), i)
      BY <1>1, <1>12, <3>3
    <3> QED BY <3>3, <3>4
  <2> QED BY <1>8, <2>1, StandsIsHeap
<1>14. ASSUME NEW k \in 1 .. Len(trees) PROVE Offset(trees, k) \in 1 .. Len(J)
  <2>1. /\ Offset(trees, k - 1) \in Nat /\ Len(trees[k]) \in Nat /\ Len(trees[k]) >= 1
        /\ Offset(trees, k) = Offset(trees, k - 1) + Len(trees[k])
    BY <1>4
  <2>2. Offset(trees, k) <= Len(J)
    BY <1>10
  <2>3. Offset(trees, k) \in Nat /\ Offset(trees, k) >= 1
    BY <2>1
  <2> QED BY <1>11, <2>2, <2>3
<1>15. \A k \in 1 .. Len(trees) : Embedded(trees[k], J, Offset(trees, k - 1))
  BY <1>4, <1>12 DEF Embedded
<1> QED
  BY <1>4, <1>13, <1>14, <1>15 DEF J
\* The set over the trees of its entries is a tree, in which they stand.
LEMMA GraftIs ==
  ASSUME NEW set \in Sets, NEW trees \in Seq(Trees), NEW T, T = Grafted(set, trees)
  PROVE  /\ T \in Trees
         /\ T[Len(T)].order = set.order /\ T[Len(T)].direct = set.direct
         /\ T[Len(T)].transitive = [k \in 1 .. Len(trees) |-> Offset(trees, k)]
         /\ \A k \in 1 .. Len(trees) :
              /\ Offset(trees, k) = Offset(trees, k - 1) + Len(trees[k])
              /\ Embedded(trees[k], T, Offset(trees, k - 1))
PROOF
<1> DEFINE J == Joined(trees)
           places == [k \in DOMAIN trees |-> Offset(trees, k)]
           top == Nested(set.order, set.direct, places)
<1>1. /\ IsHeap(J)
      /\ \A k \in 1 .. Len(trees) :
           /\ Offset(trees, k) = Offset(trees, k - 1) + Len(trees[k])
           /\ Offset(trees, k) \in 1 .. Len(J)
           /\ Embedded(trees[k], J, Offset(trees, k - 1))
  BY JoinedIs
<1>2. Len(trees) \in Nat /\ DOMAIN trees = 1 .. Len(trees)
  OBVIOUS
<1>3. J \in Seq(Sets) /\ Len(J) \in Nat /\ DOMAIN J = 1 .. Len(J)
  BY <1>1 DEF IsHeap
<1> HIDE DEF J
<1>4. /\ places \in Seq(Nat) /\ places = [k \in 1 .. Len(trees) |-> Offset(trees, k)]
      /\ \A x \in Range(places) : x \in 1 .. Len(J)
  <2>1. places = [k \in 1 .. Len(trees) |-> Offset(trees, k)]
    BY <1>2
  <2>2. places \in [1 .. Len(trees) -> Nat]
    BY <1>1, <1>3, <2>1
  <2>3. \A x \in Range(places) : x \in 1 .. Len(J)
    BY <1>1, <1>2 DEF Range
  <2> HIDE DEF places
  <2> QED BY <1>2, <2>1, <2>2, <2>3, FunctionIsSequence
<1> HIDE DEF places
<1>5. /\ top \in Sets /\ top.order = set.order /\ top.direct = set.direct
      /\ top.transitive = places
  BY <1>4 DEF Nested, Sets
<1>6. T = Append(J, top)
  BY DEF Grafted, J, places
<1> HIDE DEF top
<1>7. /\ T \in Seq(Sets) /\ Len(T) = Len(J) + 1 /\ DOMAIN T = 1 .. Len(J) + 1
      /\ T # <<>> /\ T[Len(J) + 1] = top
      /\ \A m \in 1 .. Len(J) : T[m] = J[m]
  BY <1>3, <1>5, <1>6
<1>8. IsHeap(T)
  <2>1. ASSUME NEW m \in DOMAIN T PROVE Range(T[m].transitive) \subseteq 1 .. m - 1
    <3>1. CASE m \in 1 .. Len(J)
      BY <1>1, <1>3, <1>7, <3>1 DEF IsHeap
    <3>2. CASE m \notin 1 .. Len(J)
      <4>1. m = Len(J) + 1 /\ m - 1 = Len(J)
        BY <1>3, <1>7, <3>2
      <4> QED BY <1>4, <1>5, <1>7, <4>1
    <3> QED BY <3>1, <3>2
  <2> QED BY <1>7, <2>1 DEF IsHeap
<1>9. ASSUME NEW k \in 1 .. Len(trees) PROVE Embedded(trees[k], T, Offset(trees, k - 1))
  <2>1. Embedded(trees[k], J, Offset(trees, k - 1))
    BY <1>1
  <2>2. ASSUME NEW n \in DOMAIN trees[k] PROVE Stands(trees[k], T, Offset(trees, k - 1), n)
    <3>1. Stands(trees[k], J, Offset(trees, k - 1), n)
      BY <2>1 DEF Embedded
    <3>2. Offset(trees, k - 1) + n \in 1 .. Len(J)
      BY <1>3, <3>1 DEF Stands
    <3>3. /\ Offset(trees, k - 1) + n \in DOMAIN T
          /\ T[Offset(trees, k - 1) + n] = J[Offset(trees, k - 1) + n]
      BY <1>3, <1>7, <3>2
    <3> QED BY <3>1, <3>3 DEF Stands
  <2> QED BY <2>1, <2>2 DEF Embedded
<1> QED
  BY <1>1, <1>4, <1>5, <1>7, <1>8, <1>9 DEF Trees

\* The trees of the entries of n at depth, when g has those of each set.
EntryTrees(h, n, g, depth) ==
  [k \in DOMAIN h[n].transitive |-> g[h[n].transitive[k]][depth + 1]]

Projecting(h, n, g) ==
  [depth \in Nat |->
     IF \/ h[n].direct # <<>> /\ depth + 1 > MaxConvertDepth
        \/ Refused \in Range(EntryTrees(h, n, g, depth))
     THEN Refused
     ELSE Grafted(h[n], EntryTrees(h, n, g, depth))]

Projections == [Nat -> Trees \cup {Refused}]

LEMMA ProjectingType ==
  ASSUME NEW h, IsHeap(h), NEW n \in DOMAIN h, NEW g,
         \A j \in 1 .. n - 1 : g[j] \in Projections
  PROVE  /\ Projecting(h, n, g) \in Projections
         /\ \A depth \in Nat : Projecting(h, n, g)[depth] # Refused =>
              /\ EntryTrees(h, n, g, depth) \in Seq(Trees)
              /\ Len(EntryTrees(h, n, g, depth)) = Len(h[n].transitive)
              /\ Projecting(h, n, g)[depth] = Grafted(h[n], EntryTrees(h, n, g, depth))
PROOF
<1>1. /\ h[n] \in Sets /\ Len(h[n].transitive) \in Nat
      /\ DOMAIN h[n].transitive = 1 .. Len(h[n].transitive)
      /\ \A k \in DOMAIN h[n].transitive : h[n].transitive[k] \in 1 .. n - 1
  BY HeapFacts
<1>2. ASSUME NEW depth \in Nat, Refused \notin Range(EntryTrees(h, n, g, depth))
      PROVE  /\ EntryTrees(h, n, g, depth) \in Seq(Trees)
             /\ Len(EntryTrees(h, n, g, depth)) = Len(h[n].transitive)
  <2> DEFINE trees == EntryTrees(h, n, g, depth)
  <2>1. /\ DOMAIN trees = 1 .. Len(h[n].transitive)
        /\ trees = [k \in 1 .. Len(h[n].transitive) |-> trees[k]]
        /\ \A k \in 1 .. Len(h[n].transitive) : trees[k] = g[h[n].transitive[k]][depth + 1]
    BY <1>1 DEF EntryTrees
  <2>2. \A k \in 1 .. Len(h[n].transitive) : trees[k] \in Trees \cup {Refused}
    <3> TAKE k \in 1 .. Len(h[n].transitive)
    <3>1. g[h[n].transitive[k]] \in Projections /\ depth + 1 \in Nat
      BY <1>1
    <3> HIDE DEF trees
    <3> QED BY <2>1, <3>1 DEF Projections
  <2>3. \A k \in 1 .. Len(h[n].transitive) : trees[k] # Refused
    <3> HIDE DEF trees
    <3> QED BY <1>2, <2>1 DEF Range, trees
  <2> HIDE DEF trees
  <2>4. trees \in [1 .. Len(h[n].transitive) -> Trees]
    BY <2>1, <2>2, <2>3
  <2>5. trees \in Seq(Trees) /\ Len(trees) = Len(h[n].transitive)
    BY <1>1, <2>4, FunctionIsSequence
  <2> QED BY <2>5 DEF trees
<1>3. ASSUME NEW depth \in Nat
      PROVE  Projecting(h, n, g)[depth] =
               IF \/ h[n].direct # <<>> /\ depth + 1 > MaxConvertDepth
                  \/ Refused \in Range(EntryTrees(h, n, g, depth))
               THEN Refused
               ELSE Grafted(h[n], EntryTrees(h, n, g, depth))
  BY DEF Projecting
<1>4. ASSUME NEW depth \in Nat
      PROVE  Projecting(h, n, g)[depth] \in Trees \cup {Refused}
  <2>1. CASE Refused \in Range(EntryTrees(h, n, g, depth))
    BY <1>3, <2>1
  <2>2. CASE Refused \notin Range(EntryTrees(h, n, g, depth))
    <3>1. Grafted(h[n], EntryTrees(h, n, g, depth)) \in Trees
      BY <1>1, <1>2, <2>2, GraftIs
    <3> QED BY <1>3, <3>1
  <2> QED BY <2>1, <2>2
<1>5. Projecting(h, n, g) \in Projections
  <2>1. Projecting(h, n, g) = [depth \in Nat |-> Projecting(h, n, g)[depth]]
    BY DEF Projecting
  <2> QED BY <1>4, <2>1 DEF Projections
<1> QED
  BY <1>2, <1>3, <1>5

LEMMA ProjectedLater ==
  ASSUME NEW h, IsHeap(h), NEW n \in DOMAIN h, NEW g, NEW f,
         \A j \in 1 .. n - 1 : g[j] = f[j]
  PROVE  Projecting(h, n, g) = Projecting(h, n, f)
PROOF
<1>1. \A k \in DOMAIN h[n].transitive : h[n].transitive[k] \in 1 .. n - 1
  BY HeapFacts
<1>2. \A depth \in Nat : EntryTrees(h, n, g, depth) = EntryTrees(h, n, f, depth)
  BY <1>1 DEF EntryTrees
<1> QED
  BY <1>2 DEF Projecting

\* Projected is the function its definition describes.
LEMMA ProjectedIs ==
  ASSUME NEW h, IsHeap(h)
  PROVE  \A n \in DOMAIN h : /\ Projected(h)[n] = Projecting(h, n, Projected(h))
                             /\ Projected(h)[n] \in Projections
PROOF
<1> DEFINE W == Projected(h)
           V == Projections
           step == [k \in 1 .. Len(h) |-> [g \in [1 .. Len(h) -> V] |-> Projecting(h, k, g)]]
<1>1. Len(h) \in Nat /\ DOMAIN h = 1 .. Len(h)
  BY HeapFacts
<1>2. \A k \in 1 .. Len(h) : \A g \in [1 .. Len(h) -> V] : step[k][g] = Projecting(h, k, g)
  OBVIOUS
<1>3. ASSUME NEW k \in 1 .. Len(h), NEW g \in [1 .. Len(h) -> V]
      PROVE  Projecting(h, k, g) \in V
  <2>1. \A j \in 1 .. k - 1 : g[j] \in Projections
    BY <1>1
  <2> QED BY <1>1, <2>1, ProjectingType
<1>4. ASSUME NEW k \in 1 .. Len(h), NEW g \in [1 .. Len(h) -> V], NEW f \in [1 .. Len(h) -> V],
             \A j \in 1 .. k - 1 : g[j] = f[j]
      PROVE  Projecting(h, k, g) = Projecting(h, k, f)
  BY <1>1, <1>4, ProjectedLater
<1>5. V # {}
  <2>1. [depth \in Nat |-> Refused] \in V
    BY DEF Projections
  <2> QED BY <2>1
<1> HIDE DEF step, V
<1>6. \A k \in 1 .. Len(h) : \A g \in [1 .. Len(h) -> V] : step[k][g] \in V
  BY <1>2, <1>3
<1>7. \A k \in 1 .. Len(h) : \A g, f \in [1 .. Len(h) -> V] :
         (\A j \in 1 .. k - 1 : g[j] = f[j]) => step[k][g] = step[k][f]
  <2> TAKE k \in 1 .. Len(h)
  <2> TAKE g, f \in [1 .. Len(h) -> V]
  <2> HAVE \A j \in 1 .. k - 1 : g[j] = f[j]
  <2>1. Projecting(h, k, g) = Projecting(h, k, f)
    BY <1>4
  <2> QED BY <1>2, <2>1
<1>8. PICK g \in [1 .. Len(h) -> V] : \A k \in 1 .. Len(h) : g[k] = step[k][g]
  <2>1. RestsBelow(step, Len(h), V)
    BY <1>6, <1>7 DEF RestsBelow
  <2>2. Recurses(step, Len(h), V)
    BY <1>1, <1>5, <2>1, RecursionExists
  <2> QED BY <2>2 DEF Recurses
<1>9. g = [n \in DOMAIN h |-> Projecting(h, n, g)]
  BY <1>1, <1>2, <1>8
<1>10. W = [n \in DOMAIN h |-> Projecting(h, n, W)]
  BY <1>9 DEF Projected, Projecting, EntryTrees
<1> HIDE DEF W
<1>11. \A n \in DOMAIN h : W[n] = Projecting(h, n, W)
  BY <1>10
<1> DEFINE T == {n \in 1 .. Len(h) : W[n] \in Projections}
<1>12. ASSUME NEW k \in 1 .. Len(h), \A j \in 1 .. k - 1 : j \in T PROVE k \in T
  <2>1. \A j \in 1 .. k - 1 : W[j] \in Projections
    BY <1>12
  <2>2. k \in DOMAIN h /\ W[k] = Projecting(h, k, W)
    BY <1>1, <1>11
  <2>3. Projecting(h, k, W) \in Projections
    BY <2>1, <2>2, ProjectingType
  <2> QED BY <2>2, <2>3
<1> HIDE DEF T
<1>13. 1 .. Len(h) \subseteq T
  BY <1>1, <1>12, BelowInduction
<1> QED
  BY <1>1, <1>11, <1>13 DEF W, T
\* The root of P lists what the set n of h lists.
SameRoot(P, h, n) ==
  /\ P \in Trees
  /\ P[Len(P)].order = h[n].order
  /\ \A b \in BOOLEAN : Collect(P, b)[Len(P)] = Collect(h, b)[n]

\* A projection pushes what its set pushes, at whatever depth it is made.
LEMMA ProjectedPushes ==
  ASSUME NEW h, IsHeap(h)
  PROVE  \A n \in DOMAIN h : \A depth \in Nat :
           Projected(h)[n][depth] # Refused => SameRoot(Projected(h)[n][depth], h, n)
PROOF
<1> DEFINE W == Projected(h)
           T == {n \in 1 .. Len(h) :
                   \A depth \in Nat : W[n][depth] # Refused => SameRoot(W[n][depth], h, n)}
<1>1. Len(h) \in Nat /\ DOMAIN h = 1 .. Len(h)
  BY HeapFacts
<1>2. \A n \in DOMAIN h : W[n] = Projecting(h, n, W) /\ W[n] \in Projections
  BY ProjectedIs
<1> HIDE DEF W
<1>3. ASSUME NEW n \in 1 .. Len(h), \A j \in 1 .. n - 1 : j \in T,
             NEW depth \in Nat, W[n][depth] # Refused
      PROVE  SameRoot(W[n][depth], h, n)
  <2> DEFINE trees == EntryTrees(h, n, W, depth)
             P == W[n][depth]
             children == h[n].transitive
  <2>1. /\ h[n] \in Sets /\ Len(children) \in Nat /\ DOMAIN children = 1 .. Len(children)
        /\ \A k \in DOMAIN children : children[k] \in 1 .. n - 1 /\ children[k] \in DOMAIN h
    BY <1>1, HeapFacts
  <2>2. trees \in Seq(Trees) /\ Len(trees) = Len(children) /\ P = Grafted(h[n], trees)
    <3>1. \A j \in 1 .. n - 1 : W[j] \in Projections
      BY <1>1, <1>2
    <3>2. W[n] = Projecting(h, n, W)
      BY <1>1, <1>2
    <3> QED BY <1>1, <1>3, <3>1, <3>2, ProjectingType
  <2>3. \A k \in 1 .. Len(children) : trees[k] = W[children[k]][depth + 1] /\ trees[k] \in Trees
    <3>1. \A k \in 1 .. Len(children) : trees[k] = W[children[k]][depth + 1]
      BY <2>1 DEF EntryTrees
    <3> HIDE DEF trees
    <3> QED BY <2>2, <3>1
  <2> HIDE DEF trees, P
  <2>4. /\ P \in Trees
        /\ P[Len(P)].order = h[n].order /\ P[Len(P)].direct = h[n].direct
        /\ P[Len(P)].transitive = [k \in 1 .. Len(trees) |-> Offset(trees, k)]
        /\ \A k \in 1 .. Len(trees) :
             /\ Offset(trees, k) = Offset(trees, k - 1) + Len(trees[k])
             /\ Embedded(trees[k], P, Offset(trees, k - 1))
    BY <2>1, <2>2, GraftIs
  <2>5. IsHeap(P) /\ Len(P) \in DOMAIN P
    BY <2>4 DEF Trees
  <2>6. ASSUME NEW b \in BOOLEAN PROVE Collect(P, b)[Len(P)] = Collect(h, b)[n]
    <3> DEFINE H == Collect(h, b)
               G == Collect(P, b)
    <3>1. ASSUME NEW k \in 1 .. Len(children) PROVE G[Offset(trees, k)] = H[children[k]]
      <4>1. /\ trees[k] \in Trees /\ IsHeap(trees[k]) /\ Len(trees[k]) \in DOMAIN trees[k]
            /\ k \in 1 .. Len(trees)
        BY <2>2, <2>3 DEF Trees
      <4>2. trees[k] # Refused
        BY <4>1, RefusedAssumption DEF Trees
      <4>3. children[k] \in 1 .. n - 1 /\ depth + 1 \in Nat
        BY <2>1
      <4>4. SameRoot(trees[k], h, children[k])
        BY <1>3, <2>3, <4>2, <4>3
      <4>5. Collect(trees[k], b)[Len(trees[k])] = H[children[k]]
        BY <4>4 DEF SameRoot
      <4>6. G[Offset(trees, k - 1) + Len(trees[k])] = Collect(trees[k], b)[Len(trees[k])]
        BY <2>4, <2>5, <4>1, EmbeddedPushes
      <4> HIDE DEF H, G
      <4> QED BY <2>4, <4>1, <4>5, <4>6
    <3>2. G[Len(P)] = Pushed(P, b, Len(P), G) /\ H[n] = Pushed(h, b, n, H)
      BY <1>1, <2>5, CollectIs
    <3> HIDE DEF H, G
    <3>3. Parts(P, Len(P), G) = Parts(h, n, H)
      BY <2>1, <2>2, <2>4, <3>1 DEF Parts
    <3>4. Pushed(P, b, Len(P), G) = Pushed(h, b, n, H)
      BY <2>4, <3>3 DEF Pushed
    <3> QED BY <3>2, <3>4 DEF H, G
  <2> QED BY <2>4, <2>6 DEF SameRoot, P
<1>4. ASSUME NEW n \in 1 .. Len(h), \A j \in 1 .. n - 1 : j \in T PROVE n \in T
  BY <1>3, <1>4
<1> HIDE DEF T
<1>5. 1 .. Len(h) \subseteq T
  BY <1>1, <1>4, BelowInduction
<1> QED
  BY <1>1, <1>5 DEF T, W

\* A heap of one set pushes its direct elements.
LEMMA SingleIs ==
  ASSUME NEW items \in Seq(Element), NEW t, t = <<Nested("default", items, <<>>)>>
  PROVE  t \in Trees /\ ToListOf(Alloc(<<>>, t), 1) = Deduped(items)
PROOF
<1> DEFINE set == Nested("default", items, <<>>)
           g == Alloc(<<>>, t)
<1>1. /\ set \in Sets /\ set.order = "default" /\ set.direct = items /\ set.transitive = <<>>
  BY DEF Nested, Sets, Order
<1> HIDE DEF set
<1>2. t \in Seq(Sets) /\ Len(t) = 1 /\ DOMAIN t = 1 .. 1 /\ t[1] = set
  BY <1>1 DEF set
<1>3. Range(<<>>) = {}
  BY DEF Range
<1>4. t \in Trees
  <2>1. \A n \in DOMAIN t : Range(t[n].transitive) \subseteq 1 .. n - 1
    BY <1>1, <1>2, <1>3
  <2>2. t # <<>>
    BY <1>2
  <2> QED BY <1>2, <2>1, <2>2 DEF Trees, IsHeap
<1>5. IsHeap(<<>>) /\ Len(<<>>) = 0
  BY DEF IsHeap
<1>6. IsHeap(t)
  BY <1>4 DEF Trees
<1>7. IsHeap(g) /\ Embedded(t, g, 0)
  BY <1>5, <1>6, AllocIs
<1>8. /\ 1 \in DOMAIN t /\ 0 + 1 = 1 /\ Stands(t, g, 0, 1)
  BY <1>2, <1>7 DEF Embedded
<1>9. g[1].order = "default"
  BY <1>1, <1>2, <1>8 DEF Stands
<1>10. Collect(g, FALSE)[1] = Collect(t, FALSE)[1]
  <2> HIDE DEF g
  <2>1. \A b \in BOOLEAN : \A n \in DOMAIN t : Collect(g, b)[0 + n] = Collect(t, b)[n]
    BY <1>6, <1>7, EmbeddedPushes
  <2> QED BY <1>8, <2>1
<1>11. Collect(t, FALSE)[1] = items
  <2> DEFINE G == Collect(t, FALSE)
  <2>1. G[1] = Pushed(t, FALSE, 1, G)
    BY <1>6, <1>8, CollectIs
  <2> HIDE DEF G
  <2>2. Parts(t, 1, G) = <<>>
    BY <1>1, <1>2 DEF Parts
  <2>3. FlattenSeq(<<>>) = <<>>
    BY DEF FlattenSeq
  <2>4. Pushed(t, FALSE, 1, G) = <<>> \o items
    BY <1>1, <1>2, <2>2, <2>3 DEF Pushed
  <2>5. <<>> \o items = items
    OBVIOUS
  <2> QED BY <2>1, <2>4, <2>5 DEF G
<1> HIDE DEF g
<1>12. ToListOf(g, 1) = Deduped(items)
  <2>1. "default" # "topological" /\ ("default" = "preorder") = FALSE
    OBVIOUS
  <2> QED BY <1>9, <1>10, <1>11, <2>1 DEF ToListOf, Deduped
<1> QED
  BY <1>4, <1>12 DEF g

\* What a dependent flattens of a tree with the same root is the same list.
LEMMA TreeListed ==
  ASSUME NEW h, IsHeap(h), NEW n \in DOMAIN h, NEW P, SameRoot(P, h, n)
  PROVE  ToListOf(Alloc(<<>>, P), Len(Alloc(<<>>, P))) = ToListOf(h, n)
PROOF
<1> DEFINE g == Alloc(<<>>, P)
<1>1. /\ IsHeap(P) /\ Len(P) \in DOMAIN P /\ Len(P) \in Nat
      /\ P[Len(P)].order = h[n].order
      /\ \A b \in BOOLEAN : Collect(P, b)[Len(P)] = Collect(h, b)[n]
  BY DEF SameRoot, Trees
<1>2. IsHeap(<<>>) /\ Len(<<>>) = 0
  BY DEF IsHeap
<1>3. IsHeap(g) /\ Embedded(P, g, 0) /\ Len(g) = 0 + Len(P)
  BY <1>1, <1>2, AllocIs
<1>4. Len(g) = Len(P) /\ 0 + Len(P) = Len(P)
  BY <1>1, <1>3
<1>5. Stands(P, g, 0, Len(P))
  BY <1>1, <1>3 DEF Embedded
<1>6. g[Len(P)].order = h[n].order
  BY <1>1, <1>4, <1>5 DEF Stands
<1>7. \A b \in BOOLEAN : Collect(g, b)[Len(P)] = Collect(h, b)[n]
  <2> TAKE b \in BOOLEAN
  <2>1. Collect(g, b)[0 + Len(P)] = Collect(P, b)[Len(P)]
    BY <1>1, <1>3, EmbeddedPushes
  <2> QED BY <1>1, <1>4, <2>1
<1> HIDE DEF g
<1>8. ToListOf(g, Len(P)) = ToListOf(h, n)
  <2> DEFINE b == h[n].order = "preorder"
  <2>1. b \in BOOLEAN
    OBVIOUS
  <2> HIDE DEF b
  <2>2. Collect(g, b)[Len(P)] = Collect(h, b)[n]
    BY <1>7, <2>1
  <2> QED BY <1>6, <2>2 DEF ToListOf, b
<1> QED
  BY <1>4, <1>8 DEF g
-----------------------------------------------------------------------------
(* Every state. *)

\* A value that DefaultInfo.files can have.
Returnable(files) ==
  \/ files.kind = "absent"
  \/ files.kind = "list" /\ files.items \in Seq(Element)
  \/ files.kind = "depset" /\ files.tree \in Trees

\* The list of a target survives the way to its dependents.
Kept(p) ==
  LET there == DefaultInfoFiles(<<>>, p.files)
  IN  Returnable(p.files) /\ ToListOf(there, Len(there)) = p.list

\* The answer is that of the heap as it stands: nothing writes the heap without
\* forgetting the answer.
IInv ==
  /\ IsHeap(heap)
  /\ answer # None =>
       answer.root \in DOMAIN heap /\ answer.list = ToListOf(heap, answer.root)
  /\ IsSequence(published)
  /\ \A p \in Range(published) : Kept(p)

LEMMA Published ==
  ASSUME IsSequence(published), \A p \in Range(published) : Kept(p), NEW q, Kept(q)
  PROVE  /\ IsSequence(Append(published, q))
         /\ \A p \in Range(Append(published, q)) : Kept(p)
PROOF
<1>1. /\ IsSequence(Append(published, q))
      /\ ToSet(Append(published, q)) = ToSet(published) \cup {q}
  BY SequenceAppend
<1>2. \A s : ToSet(s) = Range(s)
  BY DEF ToSet, Range
<1>3. Range(Append(published, q)) = Range(published) \cup {q}
  BY <1>1, <1>2
<1> QED
  BY <1>1, <1>3

\* Sequences with a bounded length are sequences.
LEMMA BoundedIs ==
  ASSUME NEW S, NEW n \in Nat, NEW s \in BoundedSeq(S, n)
  PROVE  s \in Seq(S)
PROOF
<1>1. PICK m \in 0 .. n : s \in [1 .. m -> S]
  BY DEF BoundedSeq, SeqOf
<1>2. m \in Nat
  OBVIOUS
<1> QED
  BY <1>1, <1>2, FunctionIsSequence

LEMMA Initially == Init => IInv
PROOF
<1> SUFFICES ASSUME Init PROVE IInv
  OBVIOUS
<1>1. IsHeap(<<>>) /\ Range(<<>>) = {} /\ IsSequence(<<>>)
  BY DEF IsHeap, Range, IsSequence
<1> QED
  BY <1>1 DEF Init, IInv

LEMMA ConstructKeeps == IInv /\ Construct => IInv'
PROOF
<1> SUFFICES ASSUME IInv, Construct PROVE IInv'
  OBVIOUS
<1>1. PICK order \in Order \cup {OtherName}, direct \in BoundedSeq(Element, MaxDirect),
           transitive \in BoundedSeq(0 .. Len(heap), MaxEntries) :
        /\ Allowed(order, transitive)
        /\ heap' = Append(heap, Nested(order, direct, transitive))
  BY DEF Construct
<1> DEFINE set == Nested(order, direct, transitive)
<1>2. /\ heap \in Seq(Sets) /\ Len(heap) \in Nat /\ DOMAIN heap = 1 .. Len(heap)
      /\ \A n \in DOMAIN heap : Range(heap[n].transitive) \subseteq 1 .. n - 1
  BY DEF IInv, IsHeap
<1>3. order \in Order /\ direct \in Seq(Element)
  BY <1>1, BoundedIs, BoundAssumption DEF Allowed
<1>4. transitive \in Seq(Nat) /\ Range(transitive) \subseteq 1 .. Len(heap)
  <2>1. transitive \in Seq(0 .. Len(heap))
    BY <1>1, BoundedIs, BoundAssumption
  <2>2. Range(transitive) \subseteq 0 .. Len(heap)
    BY <2>1 DEF Range
  <2>3. 0 \notin Range(transitive)
    BY <1>1 DEF Allowed
  <2> QED BY <1>2, <2>1, <2>2, <2>3
<1>5. set \in Sets /\ set.transitive = transitive
  BY <1>3, <1>4 DEF Nested, Sets
<1> HIDE DEF set
<1>6. /\ heap' \in Seq(Sets) /\ DOMAIN heap' = 1 .. Len(heap) + 1
      /\ heap'[Len(heap) + 1] = set /\ \A n \in 1 .. Len(heap) : heap'[n] = heap[n]
  BY <1>1, <1>2, <1>5 DEF set
<1>7. ASSUME NEW n \in DOMAIN heap' PROVE Range(heap'[n].transitive) \subseteq 1 .. n - 1
  <2>1. CASE n \in 1 .. Len(heap)
    BY <1>2, <1>6, <2>1
  <2>2. CASE n \notin 1 .. Len(heap)
    <3>1. n = Len(heap) + 1 /\ n - 1 = Len(heap)
      BY <1>2, <1>6, <2>2
    <3> QED BY <1>4, <1>5, <1>6, <3>1
  <2> QED BY <2>1, <2>2
<1>8. IsHeap(heap')
  BY <1>6, <1>7 DEF IsHeap
<1> QED
  BY <1>8 DEF Construct, IInv

LEMMA ToListKeeps == IInv /\ ToList => IInv'
BY DEF IInv, ToList

LEMMA ReturnDepsetKeeps == IInv /\ ReturnDepset => IInv'
PROOF
<1> SUFFICES ASSUME IInv, ReturnDepset PROVE IInv'
  OBVIOUS
<1>1. PICK root \in DOMAIN heap :
        published' = IF Projected(heap)[root][0] = Refused THEN published
                     ELSE Append(published, [files |-> Tree(Projected(heap)[root][0]),
                                             list |-> ToListOf(heap, root)])
  BY DEF ReturnDepset
<1>2. heap' = <<>> /\ answer' = None /\ IsHeap(<<>>)
  BY DEF ReturnDepset, Start, IsHeap
<1>3. IsHeap(heap) /\ IsSequence(published) /\ \A p \in Range(published) : Kept(p)
  BY DEF IInv
<1> DEFINE P == Projected(heap)[root][0]
           q == [files |-> Tree(P), list |-> ToListOf(heap, root)]
<1>4. ASSUME P # Refused PROVE Kept(q)
  <2>1. SameRoot(P, heap, root)
    BY <1>3, <1>4, ProjectedPushes
  <2> HIDE DEF P
  <2>2. ToListOf(Alloc(<<>>, P), Len(Alloc(<<>>, P))) = ToListOf(heap, root)
    BY <1>3, <2>1, TreeListed
  <2>3. /\ q.files.kind = "depset" /\ q.files.tree = P /\ q.list = ToListOf(heap, root)
    BY DEF Tree
  <2>4. DefaultInfoFiles(<<>>, q.files) = Alloc(<<>>, P)
    BY <2>3 DEF DefaultInfoFiles
  <2>5. P \in Trees
    BY <2>1 DEF SameRoot
  <2> HIDE DEF q
  <2> QED BY <2>2, <2>3, <2>4, <2>5 DEF Kept, Returnable
<1>5. IsSequence(published') /\ \A p \in Range(published') : Kept(p)
  <2>1. CASE P = Refused
    BY <1>1, <1>3, <2>1
  <2>2. CASE P # Refused
    <3>1. published' = Append(published, q) /\ Kept(q)
      BY <1>1, <1>4, <2>2
    <3> HIDE DEF q
    <3> QED BY <1>3, <3>1, Published
  <2> QED BY <2>1, <2>2
<1> QED
  BY <1>2, <1>5 DEF IInv

LEMMA ReturnOtherKeeps == IInv /\ ReturnOther => IInv'
PROOF
<1> SUFFICES ASSUME IInv, ReturnOther PROVE IInv'
  OBVIOUS
<1>1. heap' = <<>> /\ answer' = None /\ IsHeap(<<>>) /\ Len(<<>>) = 0
  BY DEF ReturnOther, Start, IsHeap
<1>2. IsSequence(published) /\ \A p \in Range(published) : Kept(p)
  BY DEF IInv
\* A heap of one set has its root at 1.
<1>3. ASSUME NEW items \in Seq(Element), NEW p, p.list = Deduped(items), Returnable(p.files),
             DefaultInfoFiles(<<>>, p.files) = Alloc(<<>>, <<Nested("default", items, <<>>)>>)
      PROVE  Kept(p)
  <2> DEFINE t == <<Nested("default", items, <<>>)>>
             g == Alloc(<<>>, t)
  <2>1. t \in Trees /\ ToListOf(g, 1) = Deduped(items)
    BY SingleIs
  <2>2. Len(t) = 1
    OBVIOUS
  <2> HIDE DEF t
  <2>3. Len(g) = 1
    <3>1. IsHeap(t)
      BY <2>1 DEF Trees
    <3> QED BY <1>1, <2>2, <3>1, AllocIs
  <2> HIDE DEF g
  <2> QED BY <1>3, <2>1, <2>3 DEF Kept, t, g
<1>4. PICK q : published' = Append(published, q) /\ Kept(q)
  <2>1. CASE \E items \in BoundedSeq(Element, MaxEntries) :
               published' = Append(published,
                 [files |-> Flat(items), list |-> FoldLeft(PushDedup, <<>>, items)])
    <3>1. PICK items \in BoundedSeq(Element, MaxEntries) :
            published' = Append(published,
              [files |-> Flat(items), list |-> FoldLeft(PushDedup, <<>>, items)])
      BY <2>1
    <3>2. items \in Seq(Element)
      BY BoundedIs, BoundAssumption
    <3> DEFINE q == [files |-> Flat(items), list |-> FoldLeft(PushDedup, <<>>, items)]
    <3>3. q.files.kind = "list" /\ q.files.items = items /\ q.list = Deduped(items)
      BY DEF Flat, Deduped
    <3>4. published' = Append(published, q)
      BY <3>1
    <3> HIDE DEF q
    <3>5. DefaultInfoFiles(<<>>, q.files) = Alloc(<<>>, <<Nested("default", items, <<>>)>>)
      BY <3>3 DEF DefaultInfoFiles
    <3>6. Returnable(q.files)
      BY <3>2, <3>3 DEF Returnable
    <3>7. Kept(q)
      BY <1>3, <3>2, <3>3, <3>5, <3>6
    <3> QED BY <3>4, <3>7
  <2>2. CASE published' = Append(published, [files |-> Absent, list |-> <<>>])
    <3> DEFINE q == [files |-> Absent, list |-> <<>>]
    <3>1. <<>> \in Seq(Element) /\ q.files.kind = "absent" /\ q.list = <<>>
      BY DEF Absent
    <3> HIDE DEF q
    <3>2. Deduped(<<>>) = <<>>
      <4>1. KeptOf(<<>>, Len(<<>>), Deduped(<<>>))
        BY <3>1, DedupedKeeps
      <4>2. Deduped(<<>>) \in Seq(Element) /\ Range(Deduped(<<>>)) = {}
        BY <4>1 DEF KeptOf
      <4> DEFINE d == Deduped(<<>>)
      <4>3. DOMAIN d = {}
        BY <4>2 DEF Range
      <4> HIDE DEF d
      <4>4. d \in Seq(Element)
        BY <4>2 DEF d
      <4>5. d = <<>>
        BY <4>3, <4>4
      <4> QED BY <4>5 DEF d
    <3>3. DefaultInfoFiles(<<>>, q.files) = Alloc(<<>>, <<Nested("default", <<>>, <<>>)>>)
      BY <3>1 DEF DefaultInfoFiles
    <3>4. Returnable(q.files)
      BY <3>1 DEF Returnable
    <3>5. Kept(q)
      BY <1>3, <3>1, <3>2, <3>3, <3>4
    <3>6. published' = Append(published, q)
      BY <2>2 DEF q
    <3> QED BY <3>5, <3>6
  <2> QED BY <2>1, <2>2 DEF ReturnOther
<1>5. IsSequence(published') /\ \A p \in Range(published') : Kept(p)
  BY <1>2, <1>4, Published
<1> QED
  BY <1>1, <1>5 DEF IInv

LEMMA DependKeeps == IInv /\ Depend => IInv'
PROOF
<1> SUFFICES ASSUME IInv, Depend PROVE IInv'
  OBVIOUS
<1>1. PICK p \in Range(published) : heap' = DefaultInfoFiles(heap, p.files)
  BY DEF Depend
<1>2. IsHeap(heap) /\ Returnable(p.files)
  BY DEF IInv, Kept
<1>3. PICK t \in Trees : heap' = Alloc(heap, t)
  <2>1. CASE p.files.kind = "absent"
    <3>1. <<>> \in Seq(Element)
      OBVIOUS
    <3>2. <<Nested("default", <<>>, <<>>)>> \in Trees
      BY <3>1, SingleIs
    <3> QED BY <1>1, <2>1, <3>2 DEF DefaultInfoFiles
  <2>2. CASE p.files.kind = "list" /\ p.files.items \in Seq(Element)
    <3>1. <<Nested("default", p.files.items, <<>>)>> \in Trees
      BY <2>2, SingleIs
    <3> QED BY <1>1, <2>2, <3>1 DEF DefaultInfoFiles
  <2>3. CASE p.files.kind = "depset" /\ p.files.tree \in Trees
    BY <1>1, <2>3 DEF DefaultInfoFiles
  <2> QED BY <1>2, <2>1, <2>2, <2>3 DEF Returnable
<1>4. IsHeap(heap')
  <2>1. IsHeap(t)
    BY DEF Trees
  <2> QED BY <1>2, <1>3, <2>1, AllocIs
<1> QED
  BY <1>4 DEF Depend, IInv

LEMMA StepKeeps == IInv /\ [Next]_vars => IInv'
PROOF
<1> SUFFICES ASSUME IInv, [Next]_vars PROVE IInv'
  OBVIOUS
<1>1. CASE UNCHANGED vars
  BY <1>1 DEF IInv, vars
<1> QED
  BY <1>1, ConstructKeeps, ToListKeeps, ReturnDepsetKeeps, ReturnOtherKeeps, DependKeeps
  DEF Next

LEMMA Always == Spec => []IInv
PROOF
<1> QED BY Initially, StepKeeps, PTL DEF Spec

\* Depsets are made of depsets that were there before them, in every heap: one
\* that depset() built, and one that dep.files was allocated in
\* (values_depset.rs, depset; convert.rs, alloc).
THEOREM TypesKept == Spec => []TypeOK
PROOF
<1>1. IInv => TypeOK
  BY DEF IInv, TypeOK
<1> QED BY <1>1, Always, PTL

\* to_list gives every element below its set, through whatever diamonds, and
\* each once (values_depset.rs, collect and push_dedup).
THEOREM ListsComplete == Spec => []ListComplete
PROOF
<1>1. ASSUME IInv PROVE ListComplete
  <2>1. CASE Listed
    BY <1>1, <2>1, CompleteList DEF IInv, Listed
  <2>2. CASE ~Listed
    BY <2>2 DEF ListComplete
  <2> QED BY <2>1, <2>2
<1> QED BY <1>1, Always, PTL

\* to_list keeps the order its root asks for: what is held below a set before
\* what it holds alone, and in preorder behind (values_depset.rs, collect).
THEOREM ListsOrdered == Spec => []ListOrdered
PROOF
<1>1. ASSUME IInv PROVE ListOrdered
  <2>1. CASE Listed
    BY <1>1, <2>1, OrderedList DEF IInv, Listed
  <2>2. CASE ~Listed
    BY <2>2 DEF ListOrdered
  <2> QED BY <2>1, <2>2
<1> QED BY <1>1, Always, PTL

\* What a dependent flattens out of dep.files is what the dependency would
\* have flattened (convert.rs, convert_to_depset and alloc; eval.rs,
\* default_info_files).
THEOREM CrossingKept == Spec => []CrossingKeepsList
PROOF
<1>1. IInv => CrossingKeepsList
  BY DEF IInv, Kept, CrossingKeepsList
<1> QED BY <1>1, Always, PTL
=============================================================================
