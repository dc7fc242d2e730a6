---------------------------- MODULE BzlExportProofs ----------------------------
(***************************************************************************)
(* Proofs about BzlExport, for every set of modules, names, literals and   *)
(* repertoires: its types, RefsResolve, OriginFound, ProvidersApart and    *)
(* DataMeansWritten.                                                       *)
(*                                                                         *)
(* What makes them true: a module refers only to what stays bound while it *)
(* runs, its own variables and those of modules that are done (Settled,    *)
(* Held), and an export says of a value what a load needs to find or make  *)
(* it again (Sent).  Binding a name, ending a module, or losing the heap   *)
(* of one that failed takes nothing away from a module that can see it     *)
(* (Kept), so what was held stays held.                                    *)
(***************************************************************************)
EXTENDS BzlExport, SequenceLemmas

-------------------------------------------------------------------------------
(* Data. *)

\* A live value: a simple one, or a concatenation of several.
IsLive(v) ==
  \/ IsSimple(v)
  \/ /\ v = [kind |-> "selector_list", arms |-> v.arms]
     /\ IsSequence(v.arms) /\ Len(v.arms) >= 2
     /\ \A i \in DOMAIN v.arms : IsSimple(v.arms[i])

\* What the arms of a concatenation make in one configuration.
ArmsChosen(arms, c) == [i \in DOMAIN arms |-> Chosen(arms[i], c)]

\* The kinds of simple values are what tells values apart.
LEMMA SimpleKinds ==
  ASSUME NEW v, IsSimple(v)
  PROVE  /\ v.kind \in {"list", "select", "marker", "Label", "opaque"}
         /\ v.kind = "list" => IsSequence(v.items)
         /\ v.kind = "select" => \A c \in DOMAIN v.conditions : IsSequence(v.conditions[c])
         /\ v.kind = "marker" => v = [kind |-> "marker", of |-> v.of, detail |-> v.detail]
BY DEF IsSimple, IsSequence

\* A value that is not simple is a concatenation.
LEMMA LiveKinds ==
  ASSUME NEW v, IsLive(v)
  PROVE  IF v.kind = "selector_list"
         THEN /\ v = [kind |-> "selector_list", arms |-> v.arms]
              /\ IsSequence(v.arms) /\ Len(v.arms) >= 2
              /\ \A i \in DOMAIN v.arms : IsSimple(v.arms[i])
         ELSE IsSimple(v)
PROOF
<1>1. CASE IsSimple(v)
  <2>1. v.kind # "selector_list"
    BY <1>1, SimpleKinds
  <2> QED BY <1>1, <2>1
<1>2. CASE ~IsSimple(v)
  <2>1. /\ v = [kind |-> "selector_list", arms |-> v.arms]
        /\ IsSequence(v.arms) /\ Len(v.arms) >= 2
        /\ \A i \in DOMAIN v.arms : IsSimple(v.arms[i])
    BY <1>2 DEF IsLive
  <2>2. v.kind = "selector_list"
    BY <2>1
  <2> QED BY <2>1, <2>2
<1> QED
  BY <1>1, <1>2

\* A simple value makes a list in every configuration.
LEMMA ChosenIsSequence ==
  ASSUME NEW v, IsSimple(v), NEW c
  PROVE  IsSequence(Chosen(v, c))
PROOF
<1>1. \A x : IsSequence(<<x>>)
  BY SequenceShort
<1>2. CASE v.kind = "list"
  BY <1>2, SimpleKinds DEF Chosen
<1>3. CASE v.kind = "select"
  BY <1>1, <1>3, SimpleKinds DEF Chosen
<1>4. CASE v.kind \notin {"list", "select"}
  BY <1>1, <1>4 DEF Chosen
<1> QED
  BY <1>2, <1>3, <1>4

\* The arms of a live value: they are simple, and joining what they make is
\* what the value makes.
LEMMA SplicedMeans ==
  ASSUME NEW v, IsLive(v)
  PROVE  /\ IsSequence(Spliced(v)) /\ Len(Spliced(v)) >= 1
         /\ \A i \in DOMAIN Spliced(v) : IsSimple(Spliced(v)[i])
         /\ \A c : Resolved(v, c) = FlattenSeq(ArmsChosen(Spliced(v), c))
PROOF
<1>1. CASE v.kind = "selector_list"
  <2>1. /\ Spliced(v) = v.arms /\ IsSequence(v.arms) /\ Len(v.arms) >= 2
        /\ \A i \in DOMAIN v.arms : IsSimple(v.arms[i])
    BY <1>1, LiveKinds DEF Spliced
  <2>2. Len(v.arms) >= 1
    BY <2>1, SequenceFacts
  <2> QED BY <1>1, <2>1, <2>2 DEF Resolved, ArmsChosen
<1>2. CASE v.kind # "selector_list"
  <2>1. Spliced(v) = <<v>> /\ IsSimple(v)
    BY <1>2, LiveKinds DEF Spliced
  <2>2. IsSequence(<<v>>) /\ Len(<<v>>) = 1 /\ <<v>>[1] = v /\ DOMAIN <<v>> = {1}
    <3>1. IsSequence(<<v>>) /\ Len(<<v>>) = 1 /\ <<v>>[1] = v
      BY SequenceShort
    <3>2. DOMAIN <<v>> = 1 .. Len(<<v>>)
      BY <3>1, SequenceFacts
    <3> QED BY <3>1, <3>2
  <2>3. ASSUME NEW c PROVE Resolved(v, c) = FlattenSeq(ArmsChosen(<<v>>, c))
    <3>1. ArmsChosen(<<v>>, c) = <<Chosen(v, c)>>
      <4>1. ArmsChosen(<<v>>, c) = [i \in {1} |-> Chosen(v, c)]
        BY <2>2 DEF ArmsChosen
      <4>2. \A x : <<x>> = [i \in {1} |-> x]
        OBVIOUS
      <4> QED BY <4>1, <4>2
    <3>2. Resolved(v, c) = Chosen(v, c)
      BY <1>2 DEF Resolved
    <3> QED BY <3>1, <3>2, FlattenOne
  <2>4. Len(<<v>>) >= 1
    BY <2>2
  <2> QED BY <2>1, <2>2, <2>3, <2>4
<1> QED
  BY <1>1, <1>2

\* What the arms make are sequences.
LEMMA ArmsAreSequences ==
  ASSUME NEW arms, IsSequence(arms), \A i \in DOMAIN arms : IsSimple(arms[i]), NEW c
  PROVE  /\ IsSequence(ArmsChosen(arms, c)) /\ Len(ArmsChosen(arms, c)) = Len(arms)
         /\ DOMAIN ArmsChosen(arms, c) = DOMAIN arms
         /\ \A i \in DOMAIN arms : IsSequence(ArmsChosen(arms, c)[i])
PROOF
<1> DEFINE chosen == ArmsChosen(arms, c)
<1>1. DOMAIN arms = 1 .. Len(arms) /\ Len(arms) \in Nat
  BY SequenceFacts
<1>2. chosen = [i \in 1 .. Len(arms) |-> chosen[i]] /\ DOMAIN chosen = DOMAIN arms
  BY <1>1 DEF ArmsChosen
<1>3. \A i \in DOMAIN arms : IsSequence(chosen[i])
  BY ChosenIsSequence DEF ArmsChosen
<1> HIDE DEF chosen
<1>4. IsSequence(chosen) /\ Len(chosen) = Len(arms)
  BY <1>1, <1>2, SequenceMade
<1> QED
  BY <1>2, <1>3, <1>4 DEF chosen

\* A concatenation makes what its operands make, in their order.
LEMMA JoinMeans ==
  ASSUME NEW x, IsLive(x), NEW y, IsLive(y)
  PROVE  /\ IsLive([kind |-> "selector_list", arms |-> Spliced(x) \o Spliced(y)])
         /\ \A c : Resolved([kind |-> "selector_list", arms |-> Spliced(x) \o Spliced(y)], c)
                     = Resolved(x, c) \o Resolved(y, c)
PROOF
<1> DEFINE xs == Spliced(x)
           ys == Spliced(y)
           joined == [kind |-> "selector_list", arms |-> xs \o ys]
<1>1. /\ IsSequence(xs) /\ Len(xs) >= 1 /\ \A i \in DOMAIN xs : IsSimple(xs[i])
      /\ IsSequence(ys) /\ Len(ys) >= 1 /\ \A i \in DOMAIN ys : IsSimple(ys[i])
      /\ \A c : Resolved(x, c) = FlattenSeq(ArmsChosen(xs, c))
      /\ \A c : Resolved(y, c) = FlattenSeq(ArmsChosen(ys, c))
  BY SplicedMeans
<1>2. \A c : Resolved(joined, c) = FlattenSeq(ArmsChosen(xs \o ys, c))
  BY DEF Resolved, ArmsChosen
<1>3. joined.arms = xs \o ys /\ joined.kind = "selector_list"
  OBVIOUS
<1>4. joined = [kind |-> "selector_list", arms |-> joined.arms]
  OBVIOUS
<1> HIDE DEF xs, ys, joined
<1>5. /\ Len(xs) \in Nat /\ DOMAIN xs = 1 .. Len(xs)
      /\ Len(ys) \in Nat /\ DOMAIN ys = 1 .. Len(ys)
  BY <1>1, SequenceFacts
<1>6. /\ IsSequence(xs \o ys) /\ Len(xs \o ys) = Len(xs) + Len(ys)
      /\ \A i \in 1 .. Len(xs) : (xs \o ys)[i] = xs[i]
      /\ \A i \in 1 .. Len(ys) : (xs \o ys)[Len(xs) + i] = ys[i]
      /\ ToSet(xs \o ys) = ToSet(xs) \cup ToSet(ys)
  BY <1>1, SequenceConcat
<1>7. \A i \in DOMAIN (xs \o ys) : IsSimple((xs \o ys)[i])
  BY <1>1, <1>6 DEF ToSet
<1>8. IsLive(joined)
  <2>1. Len(xs \o ys) >= 2
    BY <1>1, <1>5, <1>6
  <2> QED BY <1>3, <1>4, <1>6, <1>7, <2>1 DEF IsLive
<1>9. ASSUME NEW c PROVE Resolved(joined, c) = Resolved(x, c) \o Resolved(y, c)
  <2> DEFINE xc == ArmsChosen(xs, c)
             yc == ArmsChosen(ys, c)
             jc == ArmsChosen(xs \o ys, c)
  <2>1. /\ IsSequence(xc) /\ Len(xc) = Len(xs) /\ DOMAIN xc = DOMAIN xs
        /\ \A i \in DOMAIN xc : IsSequence(xc[i])
    BY <1>1, ArmsAreSequences
  <2>2. /\ IsSequence(yc) /\ Len(yc) = Len(ys) /\ DOMAIN yc = DOMAIN ys
        /\ \A i \in DOMAIN yc : IsSequence(yc[i])
    BY <1>1, ArmsAreSequences
  <2>3. IsSequence(jc) /\ Len(jc) = Len(xs) + Len(ys) /\ DOMAIN jc = DOMAIN (xs \o ys)
    BY <1>6, <1>7, ArmsAreSequences
  <2>4. DOMAIN (xs \o ys) = 1 .. Len(xs) + Len(ys)
    BY <1>6, SequenceFacts
  <2>5. \A i \in 1 .. Len(xc) : jc[i] = xc[i]
    BY <2>1, <1>5, <1>6, <2>4 DEF ArmsChosen
  <2>6. \A i \in 1 .. Len(yc) : jc[Len(xc) + i] = yc[i]
    <3> TAKE i \in 1 .. Len(yc)
    <3>1. Len(xs) + i \in DOMAIN (xs \o ys) /\ i \in DOMAIN ys
      BY <1>5, <2>2, <2>4
    <3> QED BY <1>5, <1>6, <2>1, <3>1 DEF ArmsChosen
  <2>9. Len(jc) = Len(xc) + Len(yc)
    BY <2>1, <2>2, <2>3
  <2> HIDE DEF xc, yc, jc
  <2>10. ReadsLike(jc, xc, yc)
    BY <2>5, <2>6, <2>9 DEF ReadsLike
  <2>7. jc = xc \o yc
    BY <2>1, <2>2, <2>3, <2>10, SequenceParts
  <2>8. FlattenSeq(jc) = FlattenSeq(xc) \o FlattenSeq(yc)
    BY <2>1, <2>2, <2>7, FlattenConcat
  <2> QED BY <1>1, <1>2, <2>8 DEF xc, yc, jc
<1> QED
  BY <1>8, <1>9 DEF joined, xs, ys

\* So does any sum (values.rs:346).
LEMMA AddMeans ==
  ASSUME NEW x, IsLive(x), NEW y, IsLive(y), CanAdd(x, y)
  PROVE  /\ IsLive(Add(x, y))
         /\ \A c : Resolved(Add(x, y), c) = Resolved(x, c) \o Resolved(y, c)
PROOF
<1>1. CASE Selects(x) \/ Selects(y)
  <2> DEFINE sum == [kind |-> "selector_list", arms |-> Spliced(x) \o Spliced(y)]
  <2>1. Add(x, y) = sum
    BY <1>1 DEF Add, add, radd
  <2>2. IsLive(sum) /\ \A c : Resolved(sum, c) = Resolved(x, c) \o Resolved(y, c)
    BY JoinMeans
  <2> HIDE DEF sum
  <2> QED BY <2>1, <2>2
<1>2. CASE ~(Selects(x) \/ Selects(y))
  <2>1. x.kind = "list" /\ y.kind = "list"
    BY <1>2 DEF CanAdd
  <2>2. IsSequence(x.items) /\ IsSequence(y.items)
    BY <2>1, LiveKinds, SimpleKinds
  <2> DEFINE sum == [kind |-> "list", items |-> x.items \o y.items]
  <2>3. Add(x, y) = sum
    BY <1>2 DEF Add
  <2>4. sum.kind = "list" /\ sum.items = x.items \o y.items
    OBVIOUS
  <2> HIDE DEF sum
  <2>5. IsSequence(sum.items)
    BY <2>2, <2>4, SequenceConcat
  <2>6. IsLive(sum)
    BY <2>4, <2>5 DEF IsLive, IsSimple, IsSequence
  <2> QED
    BY <2>1, <2>3, <2>4, <2>6 DEF Resolved, Chosen
<1> QED
  BY <1>1, <1>2

\* A live value makes a list in every configuration.
LEMMA ResolvedIsSequence ==
  ASSUME NEW v, IsLive(v), NEW c
  PROVE  IsSequence(Resolved(v, c))
PROOF
<1>1. /\ IsSequence(Spliced(v)) /\ \A i \in DOMAIN Spliced(v) : IsSimple(Spliced(v)[i])
      /\ Resolved(v, c) = FlattenSeq(ArmsChosen(Spliced(v), c))
  BY SplicedMeans
<1> DEFINE arms == ArmsChosen(Spliced(v), c)
<1>2. IsSequence(arms) /\ \A i \in DOMAIN arms : IsSequence(arms[i])
  BY <1>1, ArmsAreSequences
<1> HIDE DEF arms
<1>3. IsSequence(FlattenSeq(arms))
  BY <1>2, SequenceFlatten
<1> QED
  BY <1>1, <1>3 DEF arms

\* A value that crosses the load boundary arrives as it was (convert.rs:124-125).
LEMMA DataCrosses ==
  ASSUME NEW v, IsLive(v)
  PROVE  AllocData(ConvertData(v)) = v
PROOF
<1>1. CASE v.kind = "selector_list"
  <2>1. v = [kind |-> "selector_list", arms |-> v.arms] /\ Len(v.arms) >= 2 /\ IsSequence(v.arms)
    BY <1>1, LiveKinds
  <2>2. Len(v.arms) # 1
    <3>1. \A k \in Nat : k >= 2 => k # 1
      OBVIOUS
    <3> QED BY <2>1, <3>1, SequenceFacts
  <2> DEFINE sent == [kind |-> "Select", arms |-> v.arms]
  <2>3. ConvertData(v) = sent /\ sent.kind = "Select" /\ sent.arms = v.arms
    BY <1>1 DEF ConvertData
  <2> HIDE DEF sent
  <2>4. AllocData(sent) = [kind |-> "selector_list", arms |-> sent.arms]
    BY <2>2, <2>3 DEF AllocData, IsBranch, IsMarker
  <2> QED BY <2>1, <2>3, <2>4
<1>2. CASE v.kind = "select"
  <2> DEFINE sent == [kind |-> "Select", arms |-> <<v>>]
  <2>1. ConvertData(v) = sent /\ sent.kind = "Select" /\ sent.arms = <<v>>
    BY <1>2 DEF ConvertData
  <2>2. Len(<<v>>) = 1 /\ <<v>>[1] = v
    OBVIOUS
  <2> HIDE DEF sent
  <2>3. IsBranch(sent.arms)
    BY <1>2, <2>1, <2>2 DEF IsBranch
  <2>4. AllocData(sent) = sent.arms[1]
    BY <2>1, <2>3 DEF AllocData, IsMarker
  <2> QED BY <2>1, <2>2, <2>4
<1>3. CASE v.kind = "marker"
  <2>1. v = [kind |-> "marker", of |-> v.of, detail |-> v.detail]
    BY <1>3, LiveKinds, SimpleKinds
  <2> DEFINE fields == [f \in Sentinel |-> IF f = "_razel_deferred_marker_kind" THEN v.of ELSE v.detail]
             sent == [kind |-> "Struct", fields |-> fields]
  <2>2. ConvertData(v) = sent /\ sent.kind = "Struct" /\ sent.fields = fields
    BY <1>3 DEF ConvertData
  <2>3. /\ DOMAIN fields = Sentinel
        /\ fields["_razel_deferred_marker_kind"] = v.of
        /\ fields["_razel_deferred_marker_detail"] = v.detail
    BY DEF Sentinel
  <2> HIDE DEF sent, fields
  <2>4. IsMarker(sent) /\ sent.kind # "Select"
    BY <2>2, <2>3 DEF IsMarker
  <2>5. AllocData(sent) = [kind |-> "marker", of |-> v.of, detail |-> v.detail]
    BY <2>2, <2>3, <2>4 DEF AllocData
  <2> QED BY <2>1, <2>2, <2>5
<1>4. CASE v.kind \in {"list", "Label", "opaque"}
  BY <1>4 DEF ConvertData, AllocData, IsMarker
<1> QED
  BY <1>1, <1>2, <1>3, <1>4, LiveKinds, SimpleKinds

\* What each of the literals makes that a piece of data was put together from.
WrittenIn(def, c) == [i \in DOMAIN def |-> Resolved(def[i], c)]

\* A piece of data that means what was written.
IsData(l) ==
  /\ l = Data(l.value, l.def)
  /\ IsLive(l.value)
  /\ IsSequence(l.def) /\ \A i \in DOMAIN l.def : IsLive(l.def[i])
  /\ \A c \in Condition : Resolved(l.value, c) = FlattenSeq(WrittenIn(l.def, c))

\* What the literals make are sequences.
LEMMA WrittenAreSequences ==
  ASSUME NEW def, IsSequence(def), \A i \in DOMAIN def : IsLive(def[i]), NEW c
  PROVE  /\ IsSequence(WrittenIn(def, c)) /\ Len(WrittenIn(def, c)) = Len(def)
         /\ DOMAIN WrittenIn(def, c) = DOMAIN def
         /\ \A i \in DOMAIN WrittenIn(def, c) : IsSequence(WrittenIn(def, c)[i])
PROOF
<1> DEFINE made == WrittenIn(def, c)
<1>1. DOMAIN def = 1 .. Len(def) /\ Len(def) \in Nat
  BY SequenceFacts
<1>2. made = [i \in 1 .. Len(def) |-> made[i]] /\ DOMAIN made = DOMAIN def
  BY <1>1 DEF WrittenIn
<1>3. \A i \in DOMAIN made : IsSequence(made[i])
  BY ResolvedIsSequence DEF WrittenIn
<1> HIDE DEF made
<1>4. IsSequence(made) /\ Len(made) = Len(def)
  BY <1>1, <1>2, SequenceMade
<1> QED
  BY <1>2, <1>3, <1>4 DEF made

\* What a single literal makes is what it was written as.
LEMMA LiteralMeans ==
  ASSUME NEW m \in Module, NEW d \in Literals[m]
  PROVE  IsData(Data(d, <<d>>))
PROOF
<1>1. IsLive(d)
  BY ExportAssumption DEF IsLive
<1>2. IsSequence(<<d>>) /\ DOMAIN <<d>> = {1} /\ <<d>>[1] = d
  <2>1. IsSequence(<<d>>) /\ Len(<<d>>) = 1 /\ <<d>>[1] = d
    BY SequenceShort
  <2>2. DOMAIN <<d>> = 1 .. Len(<<d>>)
    BY <2>1, SequenceFacts
  <2> QED BY <2>1, <2>2
<1>3. ASSUME NEW c \in Condition PROVE Resolved(d, c) = FlattenSeq(WrittenIn(<<d>>, c))
  <2>1. WrittenIn(<<d>>, c) = [i \in {1} |-> Resolved(d, c)]
    BY <1>2 DEF WrittenIn
  <2>2. \A x : <<x>> = [i \in {1} |-> x]
    OBVIOUS
  <2>3. WrittenIn(<<d>>, c) = <<Resolved(d, c)>>
    BY <2>1, <2>2
  <2> QED BY <2>3, FlattenOne
<1> DEFINE l == Data(d, <<d>>)
<1>4. l = Data(l.value, l.def) /\ l.value = d /\ l.def = <<d>>
  BY DEF Data
<1> HIDE DEF l
<1>5. IsData(l)
  BY <1>1, <1>2, <1>3, <1>4 DEF IsData
<1> QED
  BY <1>5 DEF l

\* A sum of data is data written as the one and then the other.
LEMMA SumMeans ==
  ASSUME NEW x, IsData(x), NEW y, IsData(y), CanAdd(x.value, y.value)
  PROVE  IsData(Data(Add(x.value, y.value), x.def \o y.def))
PROOF
<1> DEFINE sum == Add(x.value, y.value)
           xs == x.def
           ys == y.def
<1>1. /\ IsLive(sum)
      /\ \A c : Resolved(sum, c) = Resolved(x.value, c) \o Resolved(y.value, c)
  BY AddMeans DEF IsData
<1>2. /\ IsSequence(xs) /\ \A i \in DOMAIN xs : IsLive(xs[i])
      /\ IsSequence(ys) /\ \A i \in DOMAIN ys : IsLive(ys[i])
      /\ \A c \in Condition : Resolved(x.value, c) = FlattenSeq(WrittenIn(xs, c))
      /\ \A c \in Condition : Resolved(y.value, c) = FlattenSeq(WrittenIn(ys, c))
  BY DEF IsData
<1>3. LET l == Data(sum, xs \o ys) IN
        l = Data(l.value, l.def) /\ l.value = sum /\ l.def = xs \o ys
  BY DEF Data
<1> HIDE DEF sum, xs, ys
<1>4. /\ Len(xs) \in Nat /\ DOMAIN xs = 1 .. Len(xs)
      /\ Len(ys) \in Nat /\ DOMAIN ys = 1 .. Len(ys)
  BY <1>2, SequenceFacts
<1>5. /\ IsSequence(xs \o ys) /\ Len(xs \o ys) = Len(xs) + Len(ys)
      /\ \A i \in 1 .. Len(xs) : (xs \o ys)[i] = xs[i]
      /\ \A i \in 1 .. Len(ys) : (xs \o ys)[Len(xs) + i] = ys[i]
      /\ ToSet(xs \o ys) = ToSet(xs) \cup ToSet(ys)
  BY <1>2, SequenceConcat
<1>6. \A i \in DOMAIN (xs \o ys) : IsLive((xs \o ys)[i])
  BY <1>2, <1>5 DEF ToSet
<1>7. ASSUME NEW c \in Condition PROVE Resolved(sum, c) = FlattenSeq(WrittenIn(xs \o ys, c))
  <2> DEFINE xc == WrittenIn(xs, c)
             yc == WrittenIn(ys, c)
             jc == WrittenIn(xs \o ys, c)
  <2>1. /\ IsSequence(xc) /\ Len(xc) = Len(xs) /\ DOMAIN xc = DOMAIN xs
        /\ \A i \in DOMAIN xc : IsSequence(xc[i])
    BY <1>2, WrittenAreSequences
  <2>2. /\ IsSequence(yc) /\ Len(yc) = Len(ys) /\ DOMAIN yc = DOMAIN ys
        /\ \A i \in DOMAIN yc : IsSequence(yc[i])
    BY <1>2, WrittenAreSequences
  <2>3. IsSequence(jc) /\ Len(jc) = Len(xs) + Len(ys) /\ DOMAIN jc = DOMAIN (xs \o ys)
    BY <1>5, <1>6, WrittenAreSequences
  <2>4. DOMAIN (xs \o ys) = 1 .. Len(xs) + Len(ys)
    BY <1>5, SequenceFacts
  <2>5. \A i \in 1 .. Len(xc) : jc[i] = xc[i]
    BY <1>4, <1>5, <2>1, <2>4 DEF WrittenIn
  <2>6. \A i \in 1 .. Len(yc) : jc[Len(xc) + i] = yc[i]
    <3> TAKE i \in 1 .. Len(yc)
    <3>1. Len(xs) + i \in DOMAIN (xs \o ys) /\ i \in DOMAIN ys
      BY <1>4, <2>2, <2>4
    <3> QED BY <1>4, <1>5, <2>1, <3>1 DEF WrittenIn
  <2>7. Len(jc) = Len(xc) + Len(yc)
    BY <2>1, <2>2, <2>3
  <2> HIDE DEF xc, yc, jc
  <2>8. ReadsLike(jc, xc, yc)
    BY <2>5, <2>6, <2>7 DEF ReadsLike
  <2>9. jc = xc \o yc
    BY <2>1, <2>2, <2>3, <2>8, SequenceParts
  <2>10. FlattenSeq(jc) = FlattenSeq(xc) \o FlattenSeq(yc)
    BY <2>1, <2>2, <2>9, FlattenConcat
  <2> QED BY <1>1, <1>2, <2>10 DEF xc, yc, jc
<1> DEFINE l == Data(sum, xs \o ys)
<1>8. l = Data(l.value, l.def) /\ l.value = sum /\ l.def = xs \o ys
  BY <1>3
<1> HIDE DEF l
<1>9. IsData(l)
  BY <1>1, <1>5, <1>6, <1>7, <1>8 DEF IsData
<1> QED
  BY <1>9 DEF l, sum, xs, ys

-------------------------------------------------------------------------------
(* The inductive invariant. *)

\* Unbound is no value of the program.
UnboundApart == \A wraps, leaf : Unbound # [wraps |-> wraps, leaf |-> leaf]

IsValue(v) == v = [wraps |-> v.wraps, leaf |-> v.leaf] /\ v.wraps \in Nat

\* What m2 binds stays bound for as long as m runs.
Settled(m2, m, stat) == m2 \in Module /\ (m2 = m \/ stat[m2] = "done")

LeafKinds == {"function", "loaded", "rule_definition", "rule", "provider", "data"}

\* A leaf that m can hold: what it refers to is there.  A provider's object is
\* that of a binding which is there and says what its declaration is.
LiveLeaf(l, m, e, stat) ==
  /\ l.kind \in LeafKinds
  /\ l.kind = "function" => l.name \in Name /\ Settled(l.def[1], m, stat)
  /\ l.kind = "loaded" => l.module \in Module /\ stat[l.module] = "done" /\ l.name \in Name
  /\ l.kind = "rule_definition" => l = [kind |-> "rule_definition", def |-> l.def]
  /\ l.kind = "provider" =>
       \E at, m2 \in Module, n2 \in Name :
         /\ l.obj = <<at, m2, n2>> /\ Settled(m2, m, stat)
         /\ e[m2][n2] # Unbound /\ e[m2][n2].leaf.def = l.def
  /\ l.kind = "data" => IsData(l)

\* Where no call has returned one, a function is bound to its own symbol in
\* the module that defines it.
FunctionAt(m, n, e) == e[m][n] = Leaf(Function(m, n))

OwnFunction(l, m, e) ==
  /\ l.kind = "function" => l = Function(m, l.name) /\ FunctionAt(m, l.name, e)
  /\ l.kind = "loaded" => l.def = <<l.module, l.name>> /\ FunctionAt(l.module, l.name, e)

\* The origin of a rule is its definition.
HasOrigin(l, e, stat) ==
  /\ l.bzl \in Module /\ l.name \in Name /\ stat[l.bzl] = "done"
  /\ e[l.bzl][l.name] = Leaf([kind |-> "rule_definition", def |-> l.def])

\* A value m can bind.
Held(v, m, e, stat, kinds) ==
  /\ IsValue(v)
  /\ LiveLeaf(v.leaf, m, e, stat)
  /\ "call" \notin kinds => OwnFunction(v.leaf, m, e)
  /\ "struct" \notin kinds => v.wraps = 0 /\ (v.leaf.kind = "rule" => HasOrigin(v.leaf, e, stat))

SentKinds == {"FunctionRef", "Rule", "Provider", "Data"}

\* A value of a BzlModule.
Sent(v, e, stat, kinds) ==
  /\ IsValue(v) /\ v.wraps <= MaxConvertDepth
  /\ v.leaf.kind \in SentKinds
  /\ v.leaf.kind = "FunctionRef" =>
       v.leaf.module \in Module /\ stat[v.leaf.module] = "done" /\ v.leaf.name \in Name
  /\ v.leaf.kind = "Data" => IsData(Data(AllocData(v.leaf.value), v.leaf.def))
  /\ "call" \notin kinds => (v.leaf.kind = "FunctionRef" =>
       v.leaf.def = <<v.leaf.module, v.leaf.name>> /\ FunctionAt(v.leaf.module, v.leaf.name, e))
  /\ "struct" \notin kinds => v.wraps = 0 /\ (v.leaf.kind = "Rule" => HasOrigin(v.leaf, e, stat))

Shape ==
  /\ DOMAIN env = Module /\ \A m \in Module : DOMAIN env[m] = Name
  /\ DOMAIN exported = Module
  /\ loaded \in [Module -> SUBSET Name]
  /\ status \in [Module -> {"new", "running", "done", "failed", "duplicate", "no codec value"}]
  /\ \A m \in Module : loaded[m] \subseteq Bound(m)

EnvHeld ==
  \A m \in Module, n \in Name :
    env[m][n] # Unbound => Held(env[m][n], m, env, status, repertoire)

ExportsSent ==
  \A m \in Module, n \in Name :
    exported[m][n] # Unbound =>
      /\ status[m] = "done"
      /\ n \in Bound(m) \ (Private \cup loaded[m])
      /\ exported[m][n].leaf.def = env[m][n].leaf.def
      /\ Sent(exported[m][n], env, status, repertoire)

\* ProvidersApart of what one module binds.
PublicProviders(bound) ==
  {n \in Name \ Private : bound[n] # Unbound /\ bound[n].wraps = 0 /\ bound[n].leaf.kind = "provider"}

ApartIn(bound) ==
  \A n1, n2 \in PublicProviders(bound) :
    bound[n1].leaf.id # "" /\ bound[n1].leaf.id = bound[n2].leaf.id
      => bound[n1].leaf.def = bound[n2].leaf.def

Apart == \A m \in Module : status[m] = "done" => ApartIn(env[m])

\* The inductive invariant.
IInv == Shape /\ EnvHeld /\ ExportsSent /\ Apart

\* Nothing m can refer to is taken away.
Kept(m, e, stat, e2, stat2) ==
  \A m2 \in Module : Settled(m2, m, stat) =>
    /\ stat[m2] = "done" => stat2[m2] = "done"
    /\ \A n \in Name : e[m2][n] # Unbound => e2[m2][n] = e[m2][n]

\* A value that m holds stays one while that is so.
LEMMA HeldKept ==
  ASSUME UnboundApart, NEW m \in Module, NEW e, NEW stat, NEW e2, NEW stat2, NEW kinds,
         Kept(m, e, stat, e2, stat2), NEW v, Held(v, m, e, stat, kinds)
  PROVE  Held(v, m, e2, stat2, kinds)
PROOF
<1>1. \A m2 : Settled(m2, m, stat) => Settled(m2, m, stat2)
  BY DEF Kept, Settled
<1>2. \A m2 \in Module, n2 \in Name :
        stat[m2] = "done" /\ e[m2][n2] # Unbound => stat2[m2] = "done" /\ e2[m2][n2] = e[m2][n2]
  BY DEF Kept, Settled
<1>3. \A l : Leaf(l) # Unbound
  BY DEF UnboundApart, Leaf
<1> DEFINE l == v.leaf
<1>4. LiveLeaf(l, m, e, stat)
  BY DEF Held
<1> HIDE DEF l
<1>5. LiveLeaf(l, m, e2, stat2)
  <2>1. l.kind = "provider" =>
          \E at, m2 \in Module, n2 \in Name :
            /\ l.obj = <<at, m2, n2>> /\ Settled(m2, m, stat2)
            /\ e2[m2][n2] # Unbound /\ e2[m2][n2].leaf.def = l.def
    <3> SUFFICES ASSUME l.kind = "provider"
                 PROVE  \E at, m2 \in Module, n2 \in Name :
                          /\ l.obj = <<at, m2, n2>> /\ Settled(m2, m, stat2)
                          /\ e2[m2][n2] # Unbound /\ e2[m2][n2].leaf.def = l.def
      OBVIOUS
    <3>1. PICK at \in Module, m2 \in Module, n2 \in Name :
            /\ l.obj = <<at, m2, n2>> /\ Settled(m2, m, stat)
            /\ e[m2][n2] # Unbound /\ e[m2][n2].leaf.def = l.def
      BY <1>4 DEF LiveLeaf
    <3>2. e2[m2][n2] = e[m2][n2]
      BY <3>1 DEF Kept
    <3> QED BY <1>1, <3>1, <3>2
  <2>2. l.kind = "loaded" => stat2[l.module] = "done"
    BY <1>4 DEF LiveLeaf, Kept, Settled
  <2> QED BY <1>1, <1>4, <2>1, <2>2 DEF LiveLeaf
<1>6. "call" \notin kinds => OwnFunction(l, m, e2)
  <2> SUFFICES ASSUME "call" \notin kinds PROVE OwnFunction(l, m, e2)
    OBVIOUS
  <2>1. OwnFunction(l, m, e)
    BY DEF Held, l
  <2>2. l.kind = "function" => e2[m][l.name] = e[m][l.name]
    BY <1>3, <1>4, <2>1 DEF LiveLeaf, OwnFunction, FunctionAt, Kept, Settled
  <2>3. l.kind = "loaded" => e2[l.module][l.name] = e[l.module][l.name]
    BY <1>2, <1>3, <1>4, <2>1 DEF LiveLeaf, OwnFunction, FunctionAt
  <2> QED BY <2>1, <2>2, <2>3 DEF OwnFunction, FunctionAt
<1>7. HasOrigin(l, e, stat) => HasOrigin(l, e2, stat2)
  BY <1>2, <1>3 DEF HasOrigin
<1> QED
  BY <1>5, <1>6, <1>7 DEF Held, l

\* So does a value of a BzlModule.
LEMMA SentKept ==
  ASSUME UnboundApart, NEW m \in Module, NEW e, NEW stat, NEW e2, NEW stat2, NEW kinds,
         Kept(m, e, stat, e2, stat2), NEW v, Sent(v, e, stat, kinds)
  PROVE  Sent(v, e2, stat2, kinds)
PROOF
<1>1. \A m2 \in Module : stat[m2] = "done" => stat2[m2] = "done"
  BY DEF Kept, Settled
<1>2. \A m2 \in Module, n2 \in Name :
        stat[m2] = "done" /\ e[m2][n2] # Unbound => stat2[m2] = "done" /\ e2[m2][n2] = e[m2][n2]
  BY DEF Kept, Settled
<1>3. \A l : Leaf(l) # Unbound
  BY DEF UnboundApart, Leaf
<1>4. v.leaf.kind = "FunctionRef" /\ FunctionAt(v.leaf.module, v.leaf.name, e)
        => FunctionAt(v.leaf.module, v.leaf.name, e2)
  BY <1>2, <1>3 DEF Sent, FunctionAt
<1>5. HasOrigin(v.leaf, e, stat) => HasOrigin(v.leaf, e2, stat2)
  BY <1>2, <1>3 DEF HasOrigin
<1> QED
  BY <1>1, <1>4, <1>5 DEF Sent

\* What a settled module holds, a module can hold that has got it by a call.
LEMMA HeldElsewhere ==
  ASSUME NEW m \in Module, NEW e, NEW stat, NEW kinds, "call" \in kinds,
         NEW d, Settled(d, m, stat), NEW v, Held(v, d, e, stat, kinds)
  PROVE  Held(v, m, e, stat, kinds)
PROOF
<1>1. \A m2 : Settled(m2, d, stat) => Settled(m2, m, stat)
  BY DEF Settled
<1>2. LiveLeaf(v.leaf, m, e, stat)
  <2>1. LiveLeaf(v.leaf, d, e, stat)
    BY DEF Held
  <2> QED BY <1>1, <2>1 DEF LiveLeaf
<1> QED
  BY <1>2 DEF Held

\* Every module starts with nothing bound.
LEMMA InitIInv == Init => IInv
PROOF
<1> SUFFICES ASSUME Init PROVE IInv
  OBVIOUS
<1> USE DEF Init
<1>1. \A m \in Module, n \in Name : env[m][n] = Unbound /\ exported[m][n] = Unbound
  OBVIOUS
<1>2. Shape
  BY DEF Shape
<1>3. EnvHeld /\ ExportsSent
  BY <1>1 DEF EnvHeld, ExportsSent
<1>4. Apart
  BY DEF Apart
<1> QED
  BY <1>2, <1>3, <1>4 DEF IInv

\* Binding a name that is not bound changes that name only.
LEMMA BindKeeps ==
  ASSUME Shape, NEW m \in Module, NEW n \in Name, NEW v, Bind(m, n, v)
  PROVE  /\ status[m] = "running" /\ env[m][n] = Unbound
         /\ DOMAIN env' = Module /\ \A m2 \in Module : DOMAIN env'[m2] = Name
         /\ env'[m][n] = v
         /\ \A m2 \in Module, n2 \in Name : m2 # m \/ n2 # n => env'[m2][n2] = env[m2][n2]
         /\ \A m2 \in Module \ {m} : env'[m2] = env[m2]
         /\ \A m2 \in Module : Kept(m2, env, status, env', status')
         /\ exported' = exported /\ status' = status
PROOF
<1>1. /\ status[m] = "running" /\ env[m][n] = Unbound
      /\ env' = [env EXCEPT ![m][n] = v]
      /\ exported' = exported /\ status' = status
  BY DEF Bind
<1>2. DOMAIN env = Module /\ \A m2 \in Module : DOMAIN env[m2] = Name
  BY DEF Shape
<1>3. env'[m][n] = v
  BY <1>1, <1>2
<1>4. \A m2 \in Module, n2 \in Name : m2 # m \/ n2 # n => env'[m2][n2] = env[m2][n2]
  BY <1>1, <1>2
<1>5. DOMAIN env' = Module /\ \A m2 \in Module : DOMAIN env'[m2] = Name
  BY <1>1, <1>2
<1>6. \A m2 \in Module : Kept(m2, env, status, env', status')
  BY <1>1, <1>4 DEF Kept, Settled
<1>7. \A m2 \in Module \ {m} : env'[m2] = env[m2]
  BY <1>1, <1>2
<1> QED
  BY <1>1, <1>3, <1>4, <1>5, <1>6, <1>7

\* A statement that binds a value the module can hold keeps the invariant.
LEMMA BindIInv ==
  ASSUME UnboundApart, IInv, NEW m \in Module, NEW n \in Name, NEW v, Bind(m, n, v),
         loaded' = loaded \/ loaded' = [loaded EXCEPT ![m] = @ \cup {n}],
         repertoire' = repertoire,
         Held(v, m, env', status', repertoire)
  PROVE  IInv'
PROOF
<1>1. /\ status[m] = "running" /\ env[m][n] = Unbound
      /\ DOMAIN env' = Module /\ \A m2 \in Module : DOMAIN env'[m2] = Name
      /\ env'[m][n] = v
      /\ \A m2 \in Module, n2 \in Name : m2 # m \/ n2 # n => env'[m2][n2] = env[m2][n2]
      /\ \A m2 \in Module \ {m} : env'[m2] = env[m2]
      /\ \A m2 \in Module : Kept(m2, env, status, env', status')
      /\ exported' = exported /\ status' = status
  BY BindKeeps DEF IInv
<1>2. v # Unbound
  BY DEF UnboundApart, Held, IsValue
<1>3. \A m2 \in Module : Bound(m2)' = IF m2 = m THEN Bound(m) \cup {n} ELSE Bound(m2)
  BY <1>1, <1>2 DEF Bound
<1>4. Shape'
  <2>1. loaded \in [Module -> SUBSET Name] /\ \A m2 \in Module : loaded[m2] \subseteq Bound(m2)
    BY DEF IInv, Shape
  <2>2. loaded' \in [Module -> SUBSET Name]
    BY <2>1
  <2>3. ASSUME NEW m2 \in Module PROVE loaded'[m2] \subseteq Bound(m2)'
    BY <1>3, <2>1
  <2> QED BY <1>1, <2>2, <2>3 DEF IInv, Shape
<1>5. ASSUME NEW m2 \in Module, NEW n2 \in Name, env'[m2][n2] # Unbound
      PROVE  Held(env'[m2][n2], m2, env', status', repertoire')
  <2>1. CASE m2 = m /\ n2 = n
    BY <1>1, <2>1
  <2>2. CASE m2 # m \/ n2 # n
    <3>1. env'[m2][n2] = env[m2][n2]
      BY <1>1, <2>2
    <3>2. Held(env[m2][n2], m2, env, status, repertoire)
      BY <1>5, <3>1 DEF IInv, EnvHeld
    <3> QED BY <1>1, <3>1, <3>2, HeldKept
  <2> QED BY <2>1, <2>2
<1>6. ASSUME NEW m2 \in Module, NEW n2 \in Name, exported'[m2][n2] # Unbound
      PROVE  /\ status'[m2] = "done"
             /\ n2 \in Bound(m2)' \ (Private \cup loaded'[m2])
             /\ exported'[m2][n2].leaf.def = env'[m2][n2].leaf.def
             /\ Sent(exported'[m2][n2], env', status', repertoire')
  <2>1. /\ status[m2] = "done"
        /\ n2 \in Bound(m2) \ (Private \cup loaded[m2])
        /\ exported[m2][n2].leaf.def = env[m2][n2].leaf.def
        /\ Sent(exported[m2][n2], env, status, repertoire)
    BY <1>1, <1>6 DEF IInv, ExportsSent
  <2>2. m2 # m
    BY <1>1, <2>1
  <2>3. loaded'[m2] = loaded[m2]
    BY <2>2 DEF IInv, Shape
  <2>4. Sent(exported[m2][n2], env', status', repertoire)
    BY <1>1, <2>1, SentKept
  <2> QED BY <1>1, <1>3, <2>1, <2>2, <2>3, <2>4
<1>7. ASSUME NEW m2 \in Module, status'[m2] = "done" PROVE ApartIn(env'[m2])
  <2>1. status[m2] = "done" /\ env'[m2] = env[m2]
    BY <1>1, <1>7
  <2> QED BY <2>1 DEF IInv, Apart
<1> QED
  BY <1>4, <1>5, <1>6, <1>7 DEF IInv, EnvHeld, ExportsSent, Apart

\* What a module that is not done has bound may go.
LEMMA DropIInv ==
  ASSUME UnboundApart, IInv, NEW m \in Module, status[m] = "running", Dropped(m),
         NEW end \in {"failed", "no codec value"}, status' = [status EXCEPT ![m] = end],
         repertoire' = repertoire
  PROVE  IInv'
PROOF
<1>1. /\ env' = [env EXCEPT ![m] = [n \in Name |-> Unbound]]
      /\ loaded' = [loaded EXCEPT ![m] = {}]
      /\ exported' = exported
  BY DEF Dropped
<1>2. Shape
  BY DEF IInv
<1>3. /\ \A n \in Name : env'[m][n] = Unbound
      /\ \A m2 \in Module \ {m} : env'[m2] = env[m2] /\ loaded'[m2] = loaded[m2]
      /\ \A m2 \in Module \ {m} : status'[m2] = status[m2]
      /\ status'[m] = end /\ loaded'[m] = {}
  BY <1>1, <1>2 DEF Shape
<1>4. \A m2 \in Module \ {m} : Kept(m2, env, status, env', status')
  BY <1>3 DEF Kept, Settled
<1>5. \A m2 \in Module \ {m} : Bound(m2)' = Bound(m2)
  BY <1>3 DEF Bound
<1>6. Shape'
  <2>1. DOMAIN env' = Module /\ \A m2 \in Module : DOMAIN env'[m2] = Name
    BY <1>1, <1>2 DEF Shape
  <2>2. loaded' \in [Module -> SUBSET Name]
    BY <1>1, <1>2 DEF Shape
  <2>3. ASSUME NEW m2 \in Module PROVE loaded'[m2] \subseteq Bound(m2)'
    <3>1. loaded[m2] \subseteq Bound(m2)
      BY <1>2 DEF Shape
    <3> QED BY <1>3, <1>5, <3>1
  <2>4. status' \in [Module -> {"new", "running", "done", "failed", "duplicate", "no codec value"}]
    BY <1>2 DEF Shape
  <2> QED BY <1>1, <1>2, <2>1, <2>2, <2>3, <2>4 DEF Shape
<1>7. ASSUME NEW m2 \in Module, NEW n2 \in Name, env'[m2][n2] # Unbound
      PROVE  Held(env'[m2][n2], m2, env', status', repertoire')
  <2>1. m2 # m /\ env'[m2][n2] = env[m2][n2]
    BY <1>3, <1>7
  <2>2. Held(env[m2][n2], m2, env, status, repertoire)
    BY <1>7, <2>1 DEF IInv, EnvHeld
  <2> QED BY <1>4, <2>1, <2>2, HeldKept
<1>8. ASSUME NEW m2 \in Module, NEW n2 \in Name, exported'[m2][n2] # Unbound
      PROVE  /\ status'[m2] = "done"
             /\ n2 \in Bound(m2)' \ (Private \cup loaded'[m2])
             /\ exported'[m2][n2].leaf.def = env'[m2][n2].leaf.def
             /\ Sent(exported'[m2][n2], env', status', repertoire')
  <2>1. /\ status[m2] = "done"
        /\ n2 \in Bound(m2) \ (Private \cup loaded[m2])
        /\ exported[m2][n2].leaf.def = env[m2][n2].leaf.def
        /\ Sent(exported[m2][n2], env, status, repertoire)
    BY <1>1, <1>8 DEF IInv, ExportsSent
  <2>2. m2 # m
    BY <2>1
  <2>3. Sent(exported[m2][n2], env', status', repertoire)
    BY <1>4, <2>1, <2>2, SentKept
  <2> QED BY <1>1, <1>3, <1>5, <2>1, <2>2, <2>3
<1>9. ASSUME NEW m2 \in Module, status'[m2] = "done" PROVE ApartIn(env'[m2])
  <2>1. m2 # m
    BY <1>3, <1>9
  <2>2. env'[m2] = env[m2] /\ status[m2] = "done"
    BY <1>3, <1>9, <2>1
  <2> QED BY <2>2 DEF IInv, Apart
<1> QED
  BY <1>6, <1>7, <1>8, <1>9 DEF IInv, EnvHeld, ExportsSent, Apart

\* A module that begins, or ends as a duplicate, binds and exports nothing.
LEMMA StatusIInv ==
  ASSUME UnboundApart, IInv, NEW m \in Module, status[m] \in {"new", "running"},
         NEW now \in {"running", "duplicate"}, status' = [status EXCEPT ![m] = now],
         UNCHANGED <<env, loaded, exported, repertoire>>
  PROVE  IInv'
PROOF
<1>1. status \in [Module -> {"new", "running", "done", "failed", "duplicate", "no codec value"}]
  BY DEF IInv, Shape
<1>2. /\ status' \in [Module -> {"new", "running", "done", "failed", "duplicate", "no codec value"}]
      /\ \A m2 \in Module : status'[m2] = "done" <=> status[m2] = "done"
  BY <1>1
<1>3. \A m2 \in Module : Kept(m2, env, status, env', status')
  BY <1>2 DEF Kept
<1>4. \A m2 : Bound(m2)' = Bound(m2)
  BY DEF Bound
<1>5. Shape'
  BY <1>2, <1>4 DEF IInv, Shape
<1>6. EnvHeld'
  <2> SUFFICES ASSUME NEW m2 \in Module, NEW n2 \in Name, env'[m2][n2] # Unbound
               PROVE  Held(env'[m2][n2], m2, env', status', repertoire')
    BY DEF EnvHeld
  <2>1. Held(env[m2][n2], m2, env, status, repertoire)
    BY DEF IInv, EnvHeld
  <2>2. Held(env[m2][n2], m2, env', status', repertoire)
    BY <1>3, <2>1, HeldKept
  <2> QED BY <2>2
<1>7. ExportsSent'
  <2> SUFFICES ASSUME NEW m2 \in Module, NEW n2 \in Name, exported'[m2][n2] # Unbound
               PROVE  /\ status'[m2] = "done"
                      /\ n2 \in Bound(m2)' \ (Private \cup loaded'[m2])
                      /\ exported'[m2][n2].leaf.def = env'[m2][n2].leaf.def
                      /\ Sent(exported'[m2][n2], env', status', repertoire')
    BY DEF ExportsSent
  <2>1. /\ status[m2] = "done"
        /\ n2 \in Bound(m2) \ (Private \cup loaded[m2])
        /\ exported[m2][n2].leaf.def = env[m2][n2].leaf.def
        /\ Sent(exported[m2][n2], env, status, repertoire)
    BY DEF IInv, ExportsSent
  <2>2. Sent(exported[m2][n2], env', status', repertoire)
    BY <1>3, <2>1, SentKept
  <2> QED BY <1>2, <1>4, <2>1, <2>2
<1>8. Apart'
  BY <1>2 DEF IInv, Apart
<1> QED
  BY <1>5, <1>6, <1>7, <1>8 DEF IInv

-------------------------------------------------------------------------------
(* The statements. *)

\* A leaf as it is when it has just been bound.
LEMMA LeafIsValue ==
  ASSUME NEW l
  PROVE  IsValue(Leaf(l)) /\ Leaf(l).leaf = l /\ Leaf(l).wraps = 0
BY DEF IsValue, Leaf

\* def f(): the function is bound to its symbol.
LEMMA DefIInv ==
  ASSUME UnboundApart, IInv, NEW m \in Module, NEW n \in Name, Def(m, n), repertoire' = repertoire
  PROVE  IInv'
PROOF
<1> DEFINE l == Function(m, n)
<1>1. Bind(m, n, Leaf(l)) /\ loaded' = loaded
  BY DEF Def
<1>2. l.kind = "function" /\ l.name = n /\ l.def[1] = m
  BY DEF Function
<1>3. env'[m][n] = Leaf(l)
  BY <1>1, BindKeeps DEF IInv
<1>4. OwnFunction(l, m, env')
  BY <1>2, <1>3 DEF OwnFunction, FunctionAt
<1> HIDE DEF l
<1>5. LiveLeaf(l, m, env', status')
  BY <1>2 DEF LiveLeaf, LeafKinds, Settled
<1>6. Held(Leaf(l), m, env', status', repertoire)
  BY <1>2, <1>4, <1>5, LeafIsValue DEF Held
<1> QED
  BY <1>1, <1>6, BindIInv

\* r = rule().
LEMMA DefRuleIInv ==
  ASSUME UnboundApart, IInv, NEW m \in Module, NEW n \in Name, DefRule(m, n), repertoire' = repertoire
  PROVE  IInv'
PROOF
<1> DEFINE l == RuleValue(m, n)
<1>1. Bind(m, n, Leaf(l)) /\ loaded' = loaded
  BY DEF DefRule
<1>2. l.kind = "rule_definition" /\ l = [kind |-> "rule_definition", def |-> l.def]
  BY DEF RuleValue
<1> HIDE DEF l
<1>3. LiveLeaf(l, m, env', status') /\ OwnFunction(l, m, env')
  BY <1>2 DEF LiveLeaf, LeafKinds, OwnFunction
<1>4. Held(Leaf(l), m, env', status', repertoire)
  BY <1>2, <1>3, LeafIsValue DEF Held
<1> QED
  BY <1>1, <1>4, BindIInv

\* p = provider(), with a name or without, or ToolchainInfo.
LEMMA DefProviderIInv ==
  ASSUME UnboundApart, IInv, NEW m \in Module, NEW n \in Name, DefProvider(m, n), repertoire' = repertoire
  PROVE  IInv'
PROOF
<1>1. loaded' = loaded /\ \E id, def : Bind(m, n, Leaf(Provider(id, <<m, m, n>>, def)))
  BY DEF DefProvider
<1>2. PICK id, def : Bind(m, n, Leaf(Provider(id, <<m, m, n>>, def)))
  BY <1>1
<1> DEFINE l == Provider(id, <<m, m, n>>, def)
<1>3. l.kind = "provider" /\ l.obj = <<m, m, n>>
  BY DEF Provider
<1>4. env'[m][n] = Leaf(l)
  BY <1>2, BindKeeps DEF IInv
<1> HIDE DEF l
<1>5. env'[m][n] # Unbound /\ env'[m][n].leaf = l
  BY <1>4, LeafIsValue DEF UnboundApart, Leaf
<1>6. LiveLeaf(l, m, env', status') /\ OwnFunction(l, m, env')
  BY <1>3, <1>5 DEF LiveLeaf, LeafKinds, OwnFunction, Settled
<1>7. Held(Leaf(l), m, env', status', repertoire)
  BY <1>3, <1>6, LeafIsValue DEF Held
<1> QED
  BY <1>1, <1>2, <1>7, BindIInv DEF l

\* A piece of data is bound.
LEMMA BindDataIInv ==
  ASSUME UnboundApart, IInv, NEW m \in Module, NEW n \in Name, NEW l, l.kind = "data", IsData(l),
         Bind(m, n, Leaf(l)), loaded' = loaded, repertoire' = repertoire
  PROVE  IInv'
PROOF
<1>1. LiveLeaf(l, m, env', status') /\ OwnFunction(l, m, env')
  BY DEF LiveLeaf, LeafKinds, OwnFunction
<1>2. Held(Leaf(l), m, env', status', repertoire)
  BY <1>1, LeafIsValue DEF Held
<1> QED
  BY <1>2, BindIInv

\* n = a literal.
LEMMA LiteralIInv ==
  ASSUME UnboundApart, IInv, NEW m \in Module, NEW n \in Name, Literal(m, n), repertoire' = repertoire
  PROVE  IInv'
PROOF
<1>1. PICK d \in Literals[m] : Bind(m, n, Leaf(Data(d, <<d>>))) /\ loaded' = loaded
  BY DEF Literal, Written
<1>2. IsData(Data(d, <<d>>))
  BY LiteralMeans
<1>3. Data(d, <<d>>).kind = "data"
  BY DEF Data
<1> QED
  BY <1>1, <1>2, <1>3, BindDataIInv

\* n = x + y.
LEMMA PlusIInv ==
  ASSUME UnboundApart, IInv, NEW m \in Module, NEW n \in Name, Plus(m, n), repertoire' = repertoire
  PROVE  IInv'
PROOF
<1>1. ASSUME NEW x \in Operand(m) PROVE IsData(x)
  <2>1. CASE x \in Written(m)
    BY <2>1, LiteralMeans DEF Written
  <2>2. ASSUME NEW y \in Bound(m), x = env[m][y].leaf, env[m][y].leaf.kind = "data" PROVE IsData(x)
    <3>1. y \in Name /\ env[m][y] # Unbound
      BY DEF Bound
    <3>2. LiveLeaf(env[m][y].leaf, m, env, status)
      BY <3>1 DEF IInv, EnvHeld, Held
    <3> QED BY <2>2, <3>2 DEF LiveLeaf
  <2> QED BY <2>1, <2>2 DEF Operand
<1>2. PICK x \in Operand(m), y \in Operand(m) :
        /\ CanAdd(x.value, y.value)
        /\ Bind(m, n, Leaf(Data(Add(x.value, y.value), x.def \o y.def)))
  BY DEF Plus
<1>3. loaded' = loaded
  BY DEF Plus
<1> DEFINE l == Data(Add(x.value, y.value), x.def \o y.def)
<1>4. IsData(l)
  BY <1>1, <1>2, SumMeans
<1>5. l.kind = "data"
  BY DEF Data
<1>6. Bind(m, n, Leaf(l))
  BY <1>2
<1> HIDE DEF l
<1> QED
  BY <1>3, <1>4, <1>5, <1>6, BindDataIInv

\* n = n2.
LEMMA AssignIInv ==
  ASSUME UnboundApart, IInv, NEW m \in Module, NEW n \in Name, Assign(m, n), repertoire' = repertoire
  PROVE  IInv'
PROOF
<1>1. PICK n2 \in Bound(m) : Bind(m, n, env[m][n2]) /\ loaded' = loaded
  BY DEF Assign
<1>2. Held(env[m][n2], m, env, status, repertoire)
  BY DEF IInv, EnvHeld, Bound
<1>3. Kept(m, env, status, env', status')
  BY <1>1, BindKeeps DEF IInv
<1>4. Held(env[m][n2], m, env', status', repertoire)
  BY <1>2, <1>3, HeldKept
<1> QED
  BY <1>1, <1>4, BindIInv

\* n = struct(f = n2) and n = n2.f: the leaf is the same.
LEMMA StructIInv ==
  ASSUME UnboundApart, IInv, NEW m \in Module, NEW n \in Name, Struct(m, n) \/ Field(m, n),
         repertoire' = repertoire
  PROVE  IInv'
PROOF
<1>1. "struct" \in repertoire /\ loaded' = loaded
  BY DEF Struct, Field
<1>2. ASSUME NEW n2 \in Bound(m) PROVE Held(env[m][n2], m, env, status, repertoire)
  BY DEF IInv, EnvHeld, Bound
<1>3. PICK n2 \in Bound(m), wraps \in Nat : Bind(m, n, [env[m][n2] EXCEPT !.wraps = wraps])
  <2>1. CASE Struct(m, n)
    <3>1. PICK n2 \in Bound(m) : Bind(m, n, [env[m][n2] EXCEPT !.wraps = @ + 1])
      BY <2>1 DEF Struct
    <3>2. env[m][n2].wraps \in Nat
      BY <1>2 DEF Held, IsValue
    <3>3. env[m][n2].wraps + 1 \in Nat
      BY <3>2
    <3> QED BY <3>1, <3>3
  <2>2. CASE Field(m, n)
    <3>1. PICK n2 \in Bound(m) :
            env[m][n2].wraps > 0 /\ Bind(m, n, [env[m][n2] EXCEPT !.wraps = @ - 1])
      BY <2>2 DEF Field
    <3>2. env[m][n2].wraps \in Nat
      BY <1>2 DEF Held, IsValue
    <3>3. env[m][n2].wraps - 1 \in Nat
      BY <3>1, <3>2
    <3> QED BY <3>1, <3>3
  <2> QED BY <2>1, <2>2
<1> DEFINE old == env[m][n2]
           v == [old EXCEPT !.wraps = wraps]
<1>4. Held(old, m, env, status, repertoire)
  BY <1>2
<1>5. Bind(m, n, v)
  BY <1>3
<1> HIDE DEF old
<1>6. IsValue(v) /\ v.leaf = old.leaf
  BY <1>4 DEF Held, IsValue
<1> HIDE DEF v
<1>7. Held(v, m, env, status, repertoire)
  BY <1>1, <1>4, <1>6 DEF Held
<1>8. Held(v, m, env', status', repertoire)
  <2>1. Kept(m, env, status, env', status')
    BY <1>5, BindKeeps DEF IInv
  <2> QED BY <1>7, <2>1, HeldKept
<1> QED
  BY <1>1, <1>5, <1>8, BindIInv

\* load("m2", n = "n2"): the leaf arrives as it was sent.
LEMMA LoadIInv ==
  ASSUME UnboundApart, IInv, NEW m \in Module, NEW n \in Name, Load(m, n), repertoire' = repertoire
  PROVE  IInv'
PROOF
<1>1. PICK m2 \in Module, n2 \in Name :
        /\ exported[m2][n2] # Unbound
        /\ Bind(m, n, [exported[m2][n2] EXCEPT !.leaf = Alloc(@, <<m, m2, n2>>)])
  BY ExportAssumption DEF Load
<1>2. loaded' = [loaded EXCEPT ![m] = @ \cup {n}]
  BY DEF Load
<1> DEFINE sent == exported[m2][n2]
           x == sent.leaf
           l == Alloc(x, <<m, m2, n2>>)
           v == [sent EXCEPT !.leaf = l]
<1>3. Sent(sent, env, status, repertoire)
  BY <1>1 DEF IInv, ExportsSent
<1>4. /\ Bind(m, n, v)
      /\ env'[m][n] = v
      /\ Kept(m, env, status, env', status')
  BY <1>1, BindKeeps DEF IInv
<1> HIDE DEF sent
<1>5. /\ IsValue(v) /\ v.leaf = l /\ v.wraps = sent.wraps
  BY <1>3 DEF Sent, IsValue
<1>6. v # Unbound
  BY <1>5 DEF IsValue, UnboundApart
<1> HIDE DEF v
<1>7. Sent(sent, env', status', repertoire)
  BY <1>3, <1>4, SentKept
<1>8. x.kind \in SentKinds
  BY <1>7 DEF Sent
<1>9. CASE x.kind = "FunctionRef"
  <2>1. l = [kind |-> "loaded", module |-> x.module, name |-> x.name, def |-> x.def]
    BY <1>9 DEF Alloc
  <2>2. l.kind = "loaded" /\ l.module = x.module /\ l.name = x.name /\ l.def = x.def
    BY <2>1
  <2> HIDE DEF l
  <2>3. LiveLeaf(l, m, env', status')
    BY <1>7, <1>9, <2>2 DEF LiveLeaf, LeafKinds, Sent
  <2>4. "call" \notin repertoire => OwnFunction(l, m, env')
    BY <1>7, <1>9, <2>2 DEF OwnFunction, Sent
  <2>5. "struct" \notin repertoire => v.wraps = 0
    BY <1>5, <1>7 DEF Sent
  <2>6. Held(v, m, env', status', repertoire)
    BY <1>5, <2>2, <2>3, <2>4, <2>5 DEF Held
  <2> QED BY <1>2, <1>4, <2>6, BindIInv
<1>10. CASE x.kind = "Rule"
  <2>1. l = [kind |-> "rule", bzl |-> x.bzl, name |-> x.name, def |-> x.def]
    BY <1>10 DEF Alloc
  <2>2. l.kind = "rule" /\ l.bzl = x.bzl /\ l.name = x.name /\ l.def = x.def
    BY <2>1
  <2> HIDE DEF l
  <2>3. LiveLeaf(l, m, env', status') /\ OwnFunction(l, m, env')
    BY <2>2 DEF LiveLeaf, LeafKinds, OwnFunction
  <2>4. "struct" \notin repertoire => v.wraps = 0 /\ HasOrigin(l, env', status')
    BY <1>5, <1>7, <1>10, <2>2 DEF Sent, HasOrigin
  <2>5. Held(v, m, env', status', repertoire)
    BY <1>5, <2>3, <2>4 DEF Held
  <2> QED BY <1>2, <1>4, <2>5, BindIInv
<1>11. CASE x.kind = "Provider"
  <2>1. l.kind = "provider" /\ l.obj = <<m, m2, n2>> /\ l.def = x.def
    BY <1>11 DEF Alloc, Provider
  <2>2. status[m2] = "done" /\ env[m2][n2] # Unbound /\ env[m2][n2].leaf.def = x.def
    BY <1>1 DEF IInv, ExportsSent, Bound, sent
  <2> HIDE DEF l, x
  <2>6. status'[m2] = "done" /\ env'[m2][n2] = env[m2][n2]
    BY <1>4, <2>2 DEF Kept, Settled
  <2>3. LiveLeaf(l, m, env', status') /\ OwnFunction(l, m, env')
    BY <2>1, <2>2, <2>6 DEF LiveLeaf, LeafKinds, OwnFunction, Settled
  <2>4. "struct" \notin repertoire => v.wraps = 0
    BY <1>5, <1>7 DEF Sent
  <2>5. Held(v, m, env', status', repertoire)
    BY <1>5, <2>1, <2>3, <2>4 DEF Held
  <2> QED BY <1>2, <1>4, <2>5, BindIInv
<1>12. CASE x.kind = "Data"
  <2>1. l = Data(AllocData(x.value), x.def)
    BY <1>12 DEF Alloc
  <2>2. l.kind = "data"
    BY <2>1 DEF Data
  <2>3. IsData(l)
    BY <1>7, <1>12, <2>1 DEF Sent
  <2> HIDE DEF l
  <2>4. LiveLeaf(l, m, env', status') /\ OwnFunction(l, m, env')
    BY <2>2, <2>3 DEF LiveLeaf, LeafKinds, OwnFunction
  <2>5. "struct" \notin repertoire => v.wraps = 0
    BY <1>5, <1>7 DEF Sent
  <2>6. Held(v, m, env', status', repertoire)
    BY <1>5, <2>2, <2>4, <2>5 DEF Held
  <2> QED BY <1>2, <1>4, <2>6, BindIInv
<1> QED
  BY <1>8, <1>9, <1>10, <1>11, <1>12 DEF SentKinds

\* n = n2(): what the function returns is held by the module it is defined in.
LEMMA CallIInv ==
  ASSUME UnboundApart, IInv, NEW m \in Module, NEW n \in Name, Call(m, n), repertoire' = repertoire
  PROVE  IInv'
PROOF
<1>0. "call" \in repertoire /\ loaded' = loaded
  BY DEF Call
<1>1. PICK n2 \in Bound(m) :
        /\ env[m][n2].leaf.kind \in {"function", "loaded"}
        /\ LET f == Callee(env[m][n2]) IN
             /\ IsFunction(f)
             /\ \/ \E x \in Bound(f.leaf.def[1]) : Bind(m, n, env[f.leaf.def[1]][x])
                \/ \E s \in Name : Bind(m, n, Leaf(InnerFunction(f.leaf.def, s)))
  BY DEF Call
<1> DEFINE f == Callee(env[m][n2])
           d == f.leaf.def[1]
<1>2. Held(env[m][n2], m, env, status, repertoire)
  BY DEF IInv, EnvHeld, Bound
<1>3. f.leaf.kind = "function" /\ f # Unbound
  BY <1>1 DEF IsFunction
<1>4. Settled(d, m, status)
  <2>1. CASE env[m][n2].leaf.kind = "function"
    <3>1. f = env[m][n2]
      BY <2>1 DEF Callee
    <3> QED BY <1>2, <1>3, <3>1 DEF Held, LiveLeaf
  <2>2. CASE env[m][n2].leaf.kind = "loaded"
    <3> DEFINE m2 == env[m][n2].leaf.module
               x == env[m][n2].leaf.name
    <3>1. f = env[m2][x]
      BY <2>2 DEF Callee
    <3>2. m2 \in Module /\ x \in Name /\ status[m2] = "done"
      BY <1>2, <2>2 DEF Held, LiveLeaf
    <3> HIDE DEF m2, x, f
    <3>3. Held(f, m2, env, status, repertoire)
      BY <1>3, <3>1, <3>2 DEF IInv, EnvHeld
    <3>4. Settled(d, m2, status)
      BY <1>3, <3>3 DEF Held, LiveLeaf
    <3> QED BY <3>2, <3>4 DEF Settled
  <2> QED BY <1>1, <2>1, <2>2
<1>5. \/ \E x \in Bound(d) : Bind(m, n, env[d][x])
      \/ \E s \in Name : Bind(m, n, Leaf(InnerFunction(f.leaf.def, s)))
  BY <1>1
<1> HIDE DEF f
<1>6. ASSUME NEW x \in Bound(d), Bind(m, n, env[d][x]) PROVE IInv'
  <2>1. Held(env[d][x], d, env, status, repertoire)
    BY <1>4 DEF IInv, EnvHeld, Bound, Settled
  <2>2. Held(env[d][x], m, env, status, repertoire)
    BY <1>0, <1>4, <2>1, HeldElsewhere
  <2>3. Kept(m, env, status, env', status')
    BY <1>6, BindKeeps DEF IInv
  <2>4. Held(env[d][x], m, env', status', repertoire)
    BY <2>2, <2>3, HeldKept
  <2> QED BY <1>0, <1>6, <2>4, BindIInv
<1>7. ASSUME NEW s \in Name, Bind(m, n, Leaf(InnerFunction(f.leaf.def, s))) PROVE IInv'
  <2> DEFINE l == InnerFunction(f.leaf.def, s)
  <2>1. l.kind = "function" /\ l.name = s /\ l.def[1] = d
    BY DEF InnerFunction
  <2>2. Bind(m, n, Leaf(l))
    BY <1>7
  <2> HIDE DEF l
  <2>3. status' = status
    BY <2>2 DEF Bind
  <2>4. LiveLeaf(l, m, env', status')
    BY <1>4, <2>1, <2>3 DEF LiveLeaf, LeafKinds
  <2>5. Held(Leaf(l), m, env', status', repertoire)
    BY <1>0, <2>1, <2>4, LeafIsValue DEF Held
  <2> QED BY <1>0, <2>2, <2>5, BindIInv
<1> QED
  BY <1>5, <1>6, <1>7

-------------------------------------------------------------------------------
(* The export loop. *)

\* Stamping gives a rule without a name its origin, and changes nothing else of it.
LEMMA RuleStamped ==
  ASSUME NEW c, NEW m, NEW n, c.kind = "Rule", c.name = ""
  PROVE  Stamped(m, n, [wraps |-> 0, leaf |-> c])
           = [wraps |-> 0, leaf |-> [kind |-> "Rule", bzl |-> m, name |-> n, def |-> c.def]]
PROOF
<1> DEFINE u == [wraps |-> 0, leaf |-> c]
<1>1. u.wraps = 0 /\ u.leaf = c
  OBVIOUS
<1> HIDE DEF u
<1> QED
  BY <1>1 DEF Stamped, Leaf, u

\* What is exported of a value has the declaration of that value.
LEMMA ExportKeepsDef ==
  ASSUME NEW m, NEW n, NEW v, IsValue(v), v.leaf.kind \in LeafKinds
  PROVE  Stamped(m, n, [v EXCEPT !.leaf = Convert(m, @)]).leaf.def = v.leaf.def
PROOF
<1> DEFINE c == Convert(m, v.leaf)
           u == [v EXCEPT !.leaf = Convert(m, @)]
<1>1. v = [wraps |-> v.wraps, leaf |-> v.leaf] /\ v.leaf.kind \in LeafKinds
  BY DEF IsValue
<1>2. c.def = v.leaf.def
  BY <1>1 DEF Convert, LeafKinds
<1>3. u.leaf = c
  BY <1>1
<1> HIDE DEF c, u
<1>4. Stamped(m, n, u).leaf.def = c.def
  <2>1. CASE u.wraps = 0 /\ u.leaf.kind = "Rule" /\ u.leaf.name = ""
    <3> DEFINE origin == [kind |-> "Rule", bzl |-> m, name |-> n, def |-> u.leaf.def]
    <3>1. Stamped(m, n, u) = Leaf(origin)
      BY <2>1 DEF Stamped
    <3>2. origin.def = c.def
      BY <1>3
    <3> HIDE DEF origin
    <3> QED BY <3>1, <3>2 DEF Leaf
  <2>2. CASE ~(u.wraps = 0 /\ u.leaf.kind = "Rule" /\ u.leaf.name = "")
    BY <1>3, <2>2 DEF Stamped
  <2> QED BY <2>1, <2>2
<1> QED
  BY <1>2, <1>4 DEF u

\* What is exported for a value that a module holds can be sent: a function
\* under its reference, a rule under its origin, data as it was written.
LEMMA ExportSends ==
  ASSUME UnboundApart, NEW m \in Module, NEW n \in Name, NEW e, NEW stat, NEW kinds, stat[m] = "done",
         NEW v, v = e[m][n], Held(v, m, e, stat, kinds), v.wraps <= MaxConvertDepth
  PROVE  Sent(Stamped(m, n, [v EXCEPT !.leaf = Convert(m, @)]), e, stat, kinds)
PROOF
<1> DEFINE l == v.leaf
           c == Convert(m, l)
           u == [v EXCEPT !.leaf = c]
           w == Stamped(m, n, u)
<1>1. LiveLeaf(l, m, e, stat) /\ IsValue(v)
  BY DEF Held
<1>2. "call" \notin kinds => OwnFunction(l, m, e)
  BY DEF Held
<1>3. "struct" \notin kinds => v.wraps = 0 /\ (l.kind = "rule" => HasOrigin(l, e, stat))
  BY DEF Held
<1>4. v = [wraps |-> v.wraps, leaf |-> l]
  BY <1>1 DEF IsValue
<1> HIDE DEF l
<1>5. u = [wraps |-> v.wraps, leaf |-> c] /\ u.wraps = v.wraps /\ u.leaf = c
  BY <1>4
<1>6. Stamped(m, n, [v EXCEPT !.leaf = Convert(m, @)]) = w
  BY DEF l
<1> HIDE DEF u, c
<1>7. v.wraps \in Nat
  BY <1>1 DEF IsValue
<1>8. ASSUME w = u PROVE IsValue(w) /\ w.wraps <= MaxConvertDepth /\ w.leaf = c /\ w.wraps = v.wraps
  BY <1>5, <1>7, <1>8 DEF IsValue
<1>9. CASE l.kind \in {"function", "loaded"}
  <2>1. /\ c.kind = "FunctionRef" /\ c.name = l.name /\ c.def = l.def
        /\ c.module = IF l.kind = "function" THEN m ELSE l.module
    BY <1>9 DEF Convert, c
  <2>2. w = u
    BY <1>5, <2>1 DEF Stamped
  <2>3. c.module \in Module /\ stat[c.module] = "done" /\ c.name \in Name
    BY <1>1, <1>9, <2>1 DEF LiveLeaf
  <2>4. "call" \notin kinds => c.def = <<c.module, c.name>> /\ FunctionAt(c.module, c.name, e)
    BY <1>2, <1>9, <2>1 DEF OwnFunction, Function
  <2> HIDE DEF w
  <2> QED BY <1>3, <1>6, <1>8, <2>1, <2>2, <2>3, <2>4 DEF Sent, SentKinds
<1>10. CASE l.kind = "rule_definition"
  <2>1. c = [kind |-> "Rule", bzl |-> "", name |-> "", def |-> l.def]
    BY <1>10 DEF Convert, c
  <2>2. CASE v.wraps = 0
    <3> DEFINE origin == [kind |-> "Rule", bzl |-> m, name |-> n, def |-> l.def]
    <3>1. u = [wraps |-> 0, leaf |-> c]
      BY <1>5, <2>2
    <3>7. w = Stamped(m, n, [wraps |-> 0, leaf |-> c])
      BY <3>1
    <3> HIDE DEF w
    <3>8. c.kind = "Rule" /\ c.name = "" /\ c.def = l.def
      BY <2>1
    <3>10. Stamped(m, n, [wraps |-> 0, leaf |-> c])
          = [wraps |-> 0, leaf |-> [kind |-> "Rule", bzl |-> m, name |-> n, def |-> c.def]]
      BY <3>8, RuleStamped, Zenon
    <3>9. Stamped(m, n, [wraps |-> 0, leaf |-> c]) = [wraps |-> 0, leaf |-> origin]
      BY <3>8, <3>10
    <3>2. w = [wraps |-> 0, leaf |-> origin]
      BY <3>7, <3>9
    <3>3. /\ origin.kind = "Rule" /\ origin.bzl = m /\ origin.name = n /\ origin.def = l.def
      OBVIOUS
    <3> HIDE DEF w, origin
    <3>4. w = [wraps |-> 0, leaf |-> origin] /\ w.wraps = 0 /\ w.leaf = origin
      BY <3>2
    <3>5. IsValue(w) /\ w.wraps <= MaxConvertDepth
      <4>1. IsValue(w)
        BY <3>4 DEF IsValue
      <4>2. 0 <= MaxConvertDepth
        <5>1. MaxConvertDepth \in Nat
          BY ExportAssumption
        <5> QED BY <5>1
      <4> QED BY <3>4, <4>1, <4>2
    <3>6. HasOrigin(origin, e, stat)
      <4>1. l = [kind |-> "rule_definition", def |-> l.def]
        BY <1>1, <1>10 DEF LiveLeaf
      <4>2. e[m][n] = [wraps |-> 0, leaf |-> l]
        BY <1>4, <2>2
      <4> QED BY <3>3, <4>1, <4>2 DEF HasOrigin, Leaf
    <3> QED BY <1>6, <3>3, <3>4, <3>5, <3>6 DEF Sent, SentKinds
  <2>3. CASE v.wraps # 0
    <3>1. w = u
      BY <1>5, <2>3 DEF Stamped
    <3>2. c.kind = "Rule"
      BY <2>1
    <3> HIDE DEF w
    <3> QED BY <1>3, <1>6, <1>8, <2>3, <3>1, <3>2 DEF Sent, SentKinds
  <2> QED BY <2>2, <2>3
<1>11. CASE l.kind = "rule"
  <2>1. c = [kind |-> "Rule", bzl |-> l.bzl, name |-> l.name, def |-> l.def]
    BY <1>11 DEF Convert, c
  <2>2. c.kind = "Rule" /\ c.bzl = l.bzl /\ c.name = l.name /\ c.def = l.def
    BY <2>1
  <2>3. CASE w = u
    <3>1. "struct" \notin kinds => HasOrigin(c, e, stat)
      BY <1>3, <1>11, <2>2 DEF HasOrigin
    <3> HIDE DEF w
    <3> QED BY <1>3, <1>6, <1>8, <2>2, <2>3, <3>1 DEF Sent, SentKinds
  <2>4. CASE w # u
    <3> DEFINE origin == [kind |-> "Rule", bzl |-> m, name |-> n, def |-> l.def]
    <3>1. v.wraps = 0 /\ l.name = ""
      BY <1>5, <2>2, <2>4 DEF Stamped
    <3>7. c.kind = "Rule" /\ c.name = "" /\ c.def = l.def
      BY <2>2, <3>1
    <3>8. u = [wraps |-> 0, leaf |-> c]
      BY <1>5, <3>1
    <3>9. w = Stamped(m, n, [wraps |-> 0, leaf |-> c])
      BY <3>8
    <3> HIDE DEF w
    <3>11. Stamped(m, n, [wraps |-> 0, leaf |-> c])
          = [wraps |-> 0, leaf |-> [kind |-> "Rule", bzl |-> m, name |-> n, def |-> c.def]]
      BY <3>7, RuleStamped, Zenon
    <3>10. Stamped(m, n, [wraps |-> 0, leaf |-> c]) = [wraps |-> 0, leaf |-> origin]
      BY <3>7, <3>11
    <3>2. w = [wraps |-> 0, leaf |-> origin]
      BY <3>9, <3>10
    <3>3. origin.kind = "Rule"
      OBVIOUS
    <3>4. "struct" \in kinds
      BY <1>3, <1>11, <3>1, ExportAssumption DEF HasOrigin
    <3> HIDE DEF w, origin
    <3>5. w = [wraps |-> 0, leaf |-> origin] /\ w.wraps = 0 /\ w.leaf = origin
      BY <3>2
    <3>6. IsValue(w) /\ w.wraps <= MaxConvertDepth
      <4>1. IsValue(w)
        BY <3>5 DEF IsValue
      <4>2. 0 <= MaxConvertDepth
        <5>1. MaxConvertDepth \in Nat
          BY ExportAssumption
        <5> QED BY <5>1
      <4> QED BY <3>5, <4>1, <4>2
    <3> QED BY <1>6, <3>3, <3>4, <3>5, <3>6 DEF Sent, SentKinds
  <2> QED BY <2>3, <2>4
<1>12. CASE l.kind = "provider"
  <2>1. c.kind = "Provider"
    BY <1>12 DEF Convert, c
  <2>2. w = u
    BY <1>5, <2>1 DEF Stamped
  <2> HIDE DEF w
  <2> QED BY <1>3, <1>6, <1>8, <2>1, <2>2 DEF Sent, SentKinds
<1>13. CASE l.kind = "data"
  <2>1. c.kind = "Data" /\ c.value = ConvertData(l.value) /\ c.def = l.def
    BY <1>13 DEF Convert, c
  <2>2. w = u
    BY <1>5, <2>1 DEF Stamped
  <2>3. IsData(l)
    BY <1>1, <1>13 DEF LiveLeaf
  <2>4. Data(AllocData(c.value), c.def) = l
    BY <2>1, <2>3, DataCrosses DEF IsData
  <2> HIDE DEF w
  <2> QED BY <1>3, <1>6, <1>8, <2>1, <2>2, <2>3, <2>4 DEF Sent, SentKinds
<1> QED
  BY <1>1, <1>9, <1>10, <1>11, <1>12, <1>13 DEF LiveLeaf, LeafKinds

\* A module without two public providers of one identity has them apart.
LEMMA NotDuplicatedApart ==
  ASSUME IInv, NEW m \in Module, ~Duplicated(m)
  PROVE  ApartIn(env[m])
PROOF
<1> SUFFICES ASSUME NEW n1 \in PublicProviders(env[m]), NEW n2 \in PublicProviders(env[m]),
                    env[m][n1].leaf.id # "", env[m][n1].leaf.id = env[m][n2].leaf.id
             PROVE  env[m][n1].leaf.def = env[m][n2].leaf.def
  BY DEF ApartIn
<1>1. n1 \in Providers(m) /\ n2 \in Providers(m)
  BY DEF PublicProviders, Providers, Public, Bound
<1>2. env[m][n1].leaf.obj = env[m][n2].leaf.obj
  BY <1>1 DEF Duplicated, CollisionId
<1>3. ASSUME NEW n \in Providers(m)
      PROVE  \E at, m2 \in Module, x \in Name :
               env[m][n].leaf.obj = <<at, m2, x>> /\ env[m2][x].leaf.def = env[m][n].leaf.def
  <2>1. n \in Name /\ env[m][n] # Unbound /\ env[m][n].leaf.kind = "provider"
    BY DEF Providers, Public, Bound
  <2>2. LiveLeaf(env[m][n].leaf, m, env, status)
    BY <2>1 DEF IInv, EnvHeld, Held
  <2> QED BY <2>1, <2>2 DEF LiveLeaf
<1>4. PICK at1 \in Module, m1 \in Module, x1 \in Name :
        env[m][n1].leaf.obj = <<at1, m1, x1>> /\ env[m1][x1].leaf.def = env[m][n1].leaf.def
  BY <1>1, <1>3
<1>5. PICK at2 \in Module, m2 \in Module, x2 \in Name :
        env[m][n2].leaf.obj = <<at2, m2, x2>> /\ env[m2][x2].leaf.def = env[m][n2].leaf.def
  BY <1>1, <1>3
<1>6. m1 = m2 /\ x1 = x2
  <2>1. <<at1, m1, x1>> = <<at2, m2, x2>>
    BY <1>2, <1>4, <1>5
  <2> QED BY <2>1
<1> QED
  BY <1>4, <1>5, <1>6

\* A module that is exported is one that others can rely on.
LEMMA ExportIInv ==
  ASSUME UnboundApart, IInv, NEW m \in Module, Export(m), repertoire' = repertoire
  PROVE  IInv'
PROOF
<1>1. /\ status[m] = "running" /\ ~Duplicated(m) /\ ~TooDeep(m)
      /\ exported' = [exported EXCEPT ![m] =
           [n \in Name |-> IF n \in ExportedNames(m)
                           THEN Stamped(m, n, [env[m][n] EXCEPT !.leaf = Convert(m, @)])
                           ELSE Unbound]]
      /\ status' = [status EXCEPT ![m] = "done"]
      /\ env' = env /\ loaded' = loaded
  BY DEF Export
<1>2. Shape
  BY DEF IInv
<1>3. /\ status' \in [Module -> {"new", "running", "done", "failed", "duplicate", "no codec value"}]
      /\ status'[m] = "done"
      /\ \A m2 \in Module \ {m} : status'[m2] = status[m2] /\ exported'[m2] = exported[m2]
      /\ DOMAIN exported' = Module
      /\ \A n \in Name : exported'[m][n] =
           IF n \in ExportedNames(m)
           THEN Stamped(m, n, [env[m][n] EXCEPT !.leaf = Convert(m, @)])
           ELSE Unbound
  BY <1>1, <1>2 DEF Shape
<1>4. \A m2 \in Module : Kept(m2, env, status, env', status')
  BY <1>1, <1>3 DEF Kept
<1>5. \A m2 : Bound(m2)' = Bound(m2)
  BY <1>1 DEF Bound
<1>6. Shape'
  BY <1>1, <1>2, <1>3, <1>5 DEF Shape
<1>7. ASSUME NEW m2 \in Module, NEW n2 \in Name, env'[m2][n2] # Unbound
      PROVE  Held(env'[m2][n2], m2, env', status', repertoire')
  <2>1. Held(env[m2][n2], m2, env, status, repertoire)
    BY <1>1, <1>7 DEF IInv, EnvHeld
  <2>2. Held(env[m2][n2], m2, env', status', repertoire)
    BY <1>4, <2>1, HeldKept
  <2> QED BY <1>1, <2>2
<1>8. ASSUME NEW m2 \in Module, NEW n2 \in Name, exported'[m2][n2] # Unbound
      PROVE  /\ status'[m2] = "done"
             /\ n2 \in Bound(m2)' \ (Private \cup loaded'[m2])
             /\ exported'[m2][n2].leaf.def = env'[m2][n2].leaf.def
             /\ Sent(exported'[m2][n2], env', status', repertoire')
  <2>1. CASE m2 = m
    <3>1. n2 \in ExportedNames(m)
      BY <1>3, <1>8, <2>1
    <3>2. n2 \in Bound(m) \ (Private \cup loaded[m])
      BY <3>1 DEF ExportedNames, Public
    <3>3. Held(env[m][n2], m, env', status', repertoire)
      BY <1>1, <1>7, <3>2 DEF Bound
    <3>4. env[m][n2].wraps <= MaxConvertDepth
      <4>1. ~(env[m][n2].wraps + Depth(env[m][n2].leaf) > MaxConvertDepth)
        BY <1>1, <3>1 DEF TooDeep
      <4>2. Depth(env[m][n2].leaf) \in Nat
        BY DEF Depth, DataDepth
      <4>3. env[m][n2].wraps \in Nat
        BY <3>3 DEF Held, IsValue
      <4>4. \A j, k, max \in Nat : ~(j + k > max) => j <= max
        OBVIOUS
      <4> QED BY <4>1, <4>2, <4>3, <4>4, ExportAssumption
    <3>5. Sent(Stamped(m, n2, [env[m][n2] EXCEPT !.leaf = Convert(m, @)]), env, status', repertoire)
      BY <1>1, <1>3, <3>3, <3>4, ExportSends
    <3>6. exported'[m][n2].leaf.def = env[m][n2].leaf.def
      <4>1. exported'[m][n2] = Stamped(m, n2, [env[m][n2] EXCEPT !.leaf = Convert(m, @)])
        BY <1>3, <3>1
      <4>2. Stamped(m, n2, [env[m][n2] EXCEPT !.leaf = Convert(m, @)]).leaf.def = env[m][n2].leaf.def
        <5> DEFINE v == env[m][n2]
        <5>1. IsValue(v) /\ v.leaf.kind \in LeafKinds
          BY <1>1, <3>3 DEF Held, LiveLeaf
        <5> HIDE DEF v
        <5>2. Stamped(m, n2, [v EXCEPT !.leaf = Convert(m, @)]).leaf.def = v.leaf.def
          BY <5>1, ExportKeepsDef
        <5> QED BY <5>2 DEF v
      <4> QED BY <4>1, <4>2
    <3> QED BY <1>1, <1>3, <1>5, <2>1, <3>1, <3>2, <3>5, <3>6
  <2>2. CASE m2 # m
    <3>1. exported'[m2] = exported[m2] /\ status'[m2] = status[m2]
      BY <1>3, <2>2
    <3>2. /\ status[m2] = "done"
          /\ n2 \in Bound(m2) \ (Private \cup loaded[m2])
          /\ exported[m2][n2].leaf.def = env[m2][n2].leaf.def
          /\ Sent(exported[m2][n2], env, status, repertoire)
      BY <1>8, <3>1 DEF IInv, ExportsSent
    <3>3. Sent(exported[m2][n2], env', status', repertoire)
      BY <1>4, <3>2, SentKept
    <3> QED BY <1>1, <1>5, <3>1, <3>2, <3>3
  <2> QED BY <2>1, <2>2
<1>9. ASSUME NEW m2 \in Module, status'[m2] = "done" PROVE ApartIn(env'[m2])
  <2>1. CASE m2 = m
    BY <1>1, <2>1, NotDuplicatedApart
  <2>2. CASE m2 # m
    BY <1>1, <1>3, <1>9, <2>2 DEF IInv, Apart
  <2> QED BY <2>1, <2>2
<1> QED
  BY <1>6, <1>7, <1>8, <1>9 DEF IInv, EnvHeld, ExportsSent, Apart

\* Every step keeps the inductive invariant.
LEMMA NextIInv == UnboundApart /\ IInv /\ [Next]_vars => IInv'
PROOF
<1> SUFFICES ASSUME UnboundApart, IInv, [Next]_vars PROVE IInv'
  OBVIOUS
<1>1. CASE UNCHANGED vars
  <2>1. UNCHANGED <<env, loaded, exported, repertoire, status>>
    BY <1>1 DEF vars
  <2> QED
    BY <2>1 DEF IInv, Shape, EnvHeld, ExportsSent, Apart, Bound
<1>2. ASSUME NEW m \in Module, Step(m), repertoire' = repertoire PROVE IInv'
  <2>1. CASE Begin(m)
    BY <1>2, <2>1, StatusIInv DEF Begin
  <2>2. CASE Abort(m)
    BY <1>2, <2>2, DropIInv DEF Abort
  <2>3. CASE Export(m)
    BY <1>2, <2>3, ExportIInv
  <2>4. CASE RejectDuplicate(m)
    BY <1>2, <2>4, StatusIInv DEF RejectDuplicate
  <2>5. CASE RejectValue(m)
    BY <1>2, <2>5, DropIInv DEF RejectValue
  <2>6. ASSUME NEW n \in Name,
               \/ Def(m, n) \/ DefRule(m, n) \/ DefProvider(m, n) \/ Load(m, n)
               \/ Literal(m, n) \/ Plus(m, n)
               \/ Assign(m, n) \/ Struct(m, n) \/ Field(m, n) \/ Call(m, n)
        PROVE  IInv'
    BY <1>2, <2>6, DefIInv, DefRuleIInv, DefProviderIInv, LoadIInv, LiteralIInv, PlusIInv,
       AssignIInv, StructIInv, CallIInv
  <2> QED BY <1>2, <2>1, <2>2, <2>3, <2>4, <2>5, <2>6 DEF Step
<1> QED
  BY <1>1, <1>2 DEF Next

-------------------------------------------------------------------------------
(* The theorems. *)

\* The inductive invariant holds for ever.
THEOREM Inductive ==
  ASSUME UnboundApart
  PROVE  Spec => []IInv
PROOF
<1>1. IInv /\ [Next]_vars => IInv'
  BY NextIInv
<1> QED
  BY InitIInv, <1>1, PTL DEF Spec

\* What a module exports is public, bound, its own and not too deep.
THEOREM TypesKept ==
  ASSUME UnboundApart
  PROVE  Spec => []TypeOK
PROOF
<1>1. IInv => TypeOK
  <2> SUFFICES ASSUME IInv PROVE TypeOK
    OBVIOUS
  <2>1. ASSUME NEW e \in Exports
        PROVE  /\ status[e[1]] = "done"
               /\ e[2] \in Bound(e[1]) \ (Private \cup loaded[e[1]])
               /\ exported[e[1]][e[2]].wraps <= MaxConvertDepth
    BY DEF Exports, IInv, ExportsSent, Sent
  <2> QED BY <2>1 DEF IInv, Shape, TypeOK
<1> QED
  BY Inductive, <1>1, PTL

\* In a program without calls a function that has crossed is found again
\* under its reference, and is the one that was exported
\* (values_function.rs:97-102).
THEOREM RefsFound ==
  ASSUME UnboundApart
  PROVE  Spec => []RefsResolve
PROOF
<1>1. IInv => RefsResolve
  <2> SUFFICES ASSUME IInv, NEW e \in Exports,
                      LeafOf(e).kind = "FunctionRef", "call" \notin repertoire
               PROVE  LET r == LeafOf(e) IN
                        /\ status[r.module] = "done"
                        /\ IsFunction(env[r.module][r.name])
                        /\ env[r.module][r.name].leaf.def = r.def
    BY DEF RefsResolve
  <2> DEFINE r == LeafOf(e)
  <2>1. Sent(exported[e[1]][e[2]], env, status, repertoire)
    BY DEF Exports, IInv, ExportsSent
  <2>2. /\ status[r.module] = "done" /\ r.def = <<r.module, r.name>>
        /\ FunctionAt(r.module, r.name, env)
    BY <2>1 DEF Sent, LeafOf
  <2> HIDE DEF r
  <2>3. env[r.module][r.name] = Leaf(Function(r.module, r.name))
    BY <2>2 DEF FunctionAt
  <2>4. /\ Leaf(Function(r.module, r.name)) # Unbound
        /\ Function(r.module, r.name).kind = "function"
        /\ Function(r.module, r.name).def = <<r.module, r.name>>
    BY DEF UnboundApart, Leaf, Function
  <2> QED BY <2>2, <2>3, <2>4, LeafIsValue DEF IsFunction, r
<1> QED
  BY Inductive, <1>1, PTL

\* In a program without structs the origin a rule carries is its definition
\* (eval.rs:328-333).
THEOREM OriginsFound ==
  ASSUME UnboundApart
  PROVE  Spec => []OriginFound
PROOF
<1>1. IInv => OriginFound
  <2> SUFFICES ASSUME IInv, NEW e \in Exports,
                      LeafOf(e).kind = "Rule", "struct" \notin repertoire
               PROVE  LET r == LeafOf(e) IN
                        /\ r.bzl \in Module /\ r.name \in Name
                        /\ env[r.bzl][r.name] # Unbound
                        /\ env[r.bzl][r.name] = Leaf([kind |-> "rule_definition", def |-> r.def])
    BY DEF OriginFound
  <2>1. Sent(exported[e[1]][e[2]], env, status, repertoire)
    BY DEF Exports, IInv, ExportsSent
  <2>2. HasOrigin(LeafOf(e), env, status)
    BY <2>1 DEF Sent, LeafOf
  <2>3. \A l : Leaf(l) # Unbound
    BY DEF UnboundApart, Leaf
  <2> QED BY <2>2, <2>3 DEF HasOrigin
<1> QED
  BY Inductive, <1>1, PTL

\* Two public providers of one identity in a done module are one declaration
\* (convert.rs:479-482).
THEOREM ProvidersKeptApart ==
  ASSUME UnboundApart
  PROVE  Spec => []ProvidersApart
PROOF
<1>1. IInv => ProvidersApart
  <2> SUFFICES ASSUME IInv, NEW m \in Module, status[m] = "done",
                      NEW n1 \in Providers(m), NEW n2 \in Providers(m),
                      env[m][n1].leaf.id # "", env[m][n1].leaf.id = env[m][n2].leaf.id
               PROVE  env[m][n1].leaf.def = env[m][n2].leaf.def
    BY DEF ProvidersApart
  <2>1. n1 \in PublicProviders(env[m]) /\ n2 \in PublicProviders(env[m])
    BY DEF Providers, Public, Bound, PublicProviders
  <2> QED BY <2>1 DEF IInv, Apart, ApartIn
<1> QED
  BY Inductive, <1>1, PTL

\* Data, selects and their concatenations included, means in every
\* configuration what was written, through every load (values.rs:346).
THEOREM DataKeepsMeaning ==
  ASSUME UnboundApart
  PROVE  Spec => []DataMeansWritten
PROOF
<1>1. IInv => DataMeansWritten
  <2> SUFFICES ASSUME IInv, NEW m \in Module, NEW n \in Name,
                      env[m][n] # Unbound, env[m][n].leaf.kind = "data", NEW c \in Condition
               PROVE  LET leaf == env[m][n].leaf IN
                        Resolved(leaf.value, c)
                          = FlattenSeq([i \in DOMAIN leaf.def |-> Resolved(leaf.def[i], c)])
    BY DEF DataMeansWritten
  <2>1. LiveLeaf(env[m][n].leaf, m, env, status)
    BY DEF IInv, EnvHeld, Held
  <2>2. IsData(env[m][n].leaf)
    BY <2>1 DEF LiveLeaf
  <2> QED BY <2>2 DEF IsData, WrittenIn
<1> QED
  BY Inductive, <1>1, PTL
===============================================================================
