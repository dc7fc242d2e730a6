--------------------------- MODULE RuleActionsProofs ---------------------------
(***************************************************************************)
(* Proofs about RuleActions, for any number of builders, calls and actions *)
(* and any depth of map_each callables: its types, SnapshotAtRun, its      *)
(* refinement of ActionLog, and FlagsPaired.                               *)
(*                                                                         *)
(* What makes them true is that each string of a builder is tagged with a  *)
(* call that has returned (Logged), while the calls on the stack are those *)
(* that have not (Stacked).  So a call that pushes at its end adds strings *)
(* under a tag no string carries yet, behind all that is there: the        *)
(* strings an action has taken stay the first ones of their builder.       *)
(***************************************************************************)
EXTENDS RuleActions, SequenceLemmas

-------------------------------------------------------------------------------
(* What the operators of ActionArgs return. *)

\* The function that Uniquified evaluates, on the first n strings.
Folded(strs, n, g) ==
  g = [s \in SUBSET (1 .. n) |->
         IF s = {} THEN <<>> ELSE Keep(g[s \ {Max(s)}], strs[Max(s)])]

\* The fold exists for every list, so the function FoldLeft chooses is one.
LEMMA FoldedExists ==
  ASSUME NEW strs, NEW n \in Nat
  PROVE  \E g : Folded(strs, n, g)
PROOF
<1> DEFINE S == {m \in Nat : \E g : Folded(strs, m, g)}
<1>1. 0 \in S
  <2> DEFINE g == [s \in {{}} |-> <<>>]
  <2>1. SUBSET (1 .. 0) = {{}}
    OBVIOUS
  <2>2. Folded(strs, 0, g)
    BY <2>1 DEF Folded
  <2> QED
    BY <2>2
<1>2. ASSUME NEW m \in Nat, m \in S PROVE m + 1 \in S
  <2>1. PICK g : Folded(strs, m, g)
    BY <1>2
  <2> DEFINE top == m + 1
             h == [s \in SUBSET (1 .. top) |->
                     IF top \in s THEN Keep(g[s \ {top}], strs[top]) ELSE g[s]]
  <2>2. ASSUME NEW s \in SUBSET (1 .. top)
        PROVE  h[s] = IF s = {} THEN <<>> ELSE Keep(h[s \ {Max(s)}], strs[Max(s)])
    <3>1. CASE top \in s
      <4>1. Max(s) = top
        BY <3>1, MaxOfInterval
      <4>2. s \ {top} \in SUBSET (1 .. top) /\ h[s \ {top}] = g[s \ {top}]
        OBVIOUS
      <4>3. h[s] = Keep(g[s \ {top}], strs[top])
        BY <3>1
      <4> QED BY <3>1, <4>1, <4>2, <4>3
    <3>2. CASE top \notin s
      <4>1. s \in SUBSET (1 .. m) /\ h[s] = g[s]
        BY <3>2
      <4>2. s \ {Max(s)} \in SUBSET (1 .. m)
        BY <4>1
      <4>3. h[s \ {Max(s)}] = g[s \ {Max(s)}]
        BY <4>2
      <4>4. g[s] = IF s = {} THEN <<>> ELSE Keep(g[s \ {Max(s)}], strs[Max(s)])
        BY <2>1, <4>1 DEF Folded
      <4> QED BY <4>1, <4>3, <4>4
    <3> QED BY <3>1, <3>2
  <2>3. h = [s \in SUBSET (1 .. top) |-> h[s]]
    OBVIOUS
  <2> HIDE DEF h
  <2>4. Folded(strs, top, h)
    BY <2>2, <2>3 DEF Folded
  <2> QED
    BY <2>4
<1> HIDE DEF S
<1>3. n \in S
  BY <1>1, <1>2, SetInduction
<1> QED
  BY <1>3 DEF S

\* Uniquified(strs) is the value of that function on all the strings.
LEMMA FoldedIs ==
  ASSUME NEW strs, NEW n \in Nat, DOMAIN strs = 1 .. n
  PROVE  \E g : Folded(strs, n, g) /\ Uniquified(strs) = g[1 .. n]
PROOF
<1>1. \E g : Folded(strs, n, g)
  BY FoldedExists
<1> QED
  BY <1>1 DEF Folded, Uniquified, FoldLeft, MapThenFoldSet

\* A list without its duplicates is a list over the same set (resolve_items).
LEMMA UniquifiedType ==
  ASSUME NEW S, NEW strs \in Seq(S)
  PROVE  Uniquified(strs) \in Seq(S)
PROOF
<1>1. Len(strs) \in Nat /\ DOMAIN strs = 1 .. Len(strs)
  OBVIOUS
<1>2. PICK g : Folded(strs, Len(strs), g) /\ Uniquified(strs) = g[1 .. Len(strs)]
  BY <1>1, FoldedIs
<1> DEFINE T == {n \in Nat : n <= Len(strs) => \A s \in SUBSET (1 .. n) : g[s] \in Seq(S)}
<1>3. 0 \in T
  <2>1. {} \in SUBSET (1 .. Len(strs))
    OBVIOUS
  <2>2. g[{}] = <<>>
    BY <1>2, <2>1 DEF Folded
  <2>3. SUBSET (1 .. 0) = {{}}
    OBVIOUS
  <2>4. \A s \in SUBSET (1 .. 0) : g[s] \in Seq(S)
    <3>1. <<>> \in Seq(S)
      OBVIOUS
    <3> QED BY <2>2, <2>3, <3>1
  <2> QED
    BY <2>4
<1>4. ASSUME NEW n \in Nat, n \in T, n + 1 <= Len(strs), NEW s \in SUBSET (1 .. n + 1)
      PROVE  g[s] \in Seq(S)
  <2>1. \A r \in SUBSET (1 .. n) : g[r] \in Seq(S)
    BY <1>1, <1>4
  <2>2. CASE n + 1 \in s
    <3>1. Max(s) = n + 1
      BY <2>2, MaxOfInterval
    <3>2. s \ {n + 1} \in SUBSET (1 .. n)
      OBVIOUS
    <3>3. s \in SUBSET (1 .. Len(strs)) /\ s # {}
      BY <1>1, <1>4, <2>2
    <3>4. g[s] = Keep(g[s \ {n + 1}], strs[n + 1])
      BY <1>2, <3>1, <3>3 DEF Folded
    <3>5. g[s \ {n + 1}] \in Seq(S) /\ strs[n + 1] \in S
      BY <1>1, <1>4, <2>1, <3>2
    <3> QED
      BY <3>4, <3>5 DEF Keep
  <2>3. CASE n + 1 \notin s
    <3>1. s \in SUBSET (1 .. n)
      BY <2>3
    <3> QED BY <2>1, <3>1
  <2> QED
    BY <2>2, <2>3
<1>5. \A n \in Nat : n \in T => n + 1 \in T
  BY <1>4
<1> HIDE DEF T
<1>6. Len(strs) \in T
  BY <1>1, <1>3, <1>5, SetInduction
<1> QED
  BY <1>1, <1>2, <1>6 DEF T

\* The strings resolve_items returns are a list.
LEMMA ResolvedIsSequence ==
  ASSUME NEW method, NEW strs, IsSequence(strs)
  PROVE  IsSequence(Resolved(method, strs))
PROOF
<1> DEFINE formatted == [i \in DOMAIN strs |-> apply_format(method.format_each, strs[i])]
<1>1. IsSequence(formatted)
  BY SequenceFacts, SequenceMade
<1>2. IsSequence(Uniquified(formatted))
  <2> HIDE DEF formatted
  <2> QED BY <1>1, UniquifiedType, SequenceIs DEF IsSequence
<1> QED
  BY <1>1, <1>2 DEF Resolved

\* What add_all or add_joined pushes is a list.
LEMMA ContributionIsSequence ==
  ASSUME NEW method, NEW strs, IsSequence(strs)
  PROVE  IsSequence(Contribution(method, strs))
PROOF
<1> DEFINE items == Resolved(method, strs)
<1>2. IsSequence(items)
  BY ResolvedIsSequence
<1>3. \A x : IsSequence(<<x>>)
  BY SequenceShort
<1>4. IsSequence(<<>>)
  BY SequenceShort
<1> HIDE DEF items
<1>5. IsSequence(WithBefore(method, items))
  <2> DEFINE pairs == [i \in DOMAIN items |-> <<method.before_each, items[i]>>]
  <2>1. IsSequence(pairs)
    BY <1>2, SequenceFacts, SequenceMade
  <2>2. \A x, y : IsSequence(<<x, y>>)
    BY SequenceShort
  <2>3. \A i \in DOMAIN pairs : IsSequence(pairs[i])
    BY <2>2
  <2> HIDE DEF pairs
  <2>4. IsSequence(FlattenSeq(pairs))
    BY <2>1, <2>3, SequenceFlatten
  <2> QED
    BY <1>2, <2>4 DEF WithBefore, pairs
<1> QED
  BY <1>3, <1>4, <1>5 DEF Contribution, items

\* Tagging keeps the strings and gives each the call.
LEMMA TaggedIs ==
  ASSUME NEW call, NEW strs, IsSequence(strs)
  PROVE  /\ IsSequence(Tagged(call, strs))
         /\ Len(Tagged(call, strs)) = Len(strs)
         /\ \A i \in 1 .. Len(strs) :
              Tagged(call, strs)[i].str = strs[i] /\ Tagged(call, strs)[i].call = call
PROOF
<1>1. Len(strs) \in Nat /\ DOMAIN strs = 1 .. Len(strs)
  BY SequenceFacts
<1>2. \A f : f = [i \in 1 .. Len(strs) |-> f[i]] => IsSequence(f) /\ Len(f) = Len(strs)
  BY <1>1, SequenceMade
<1> QED
  BY <1>1, <1>2 DEF Tagged

-------------------------------------------------------------------------------
(* The inductive invariant. *)

\* The strings of the lists that are passed and that map_each returns.
Strings == UNION {ToSet(strs) : strs \in Values \cup MapResult}

Frame == [call : Nat, id : Nat, method : Method, left : Seq(Strings), strs : Seq(Strings)]

\* A call is counted when it begins.
Counted == calls \in Nat /\ finished \subseteq 1 .. calls

\* Whatever is in a builder has come from a call that has returned.
Logged ==
  /\ IsSequence(builders)
  /\ Len(builders) \in 0 .. MaxBuilders
  /\ \A h \in DOMAIN builders :
       /\ IsSequence(builders[h])
       /\ \A i \in DOMAIN builders[h] : builders[h][i].call \in finished

\* The calls on the stack are the ones that have not returned, each once.
Stacked ==
  /\ stack \in Seq(Frame)
  /\ \A i \in DOMAIN stack : stack[i].id \in DOMAIN builders /\ stack[i].left # <<>>
  /\ {stack[i].call : i \in DOMAIN stack} = (1 .. calls) \ finished
  /\ \A i, j \in DOMAIN stack : stack[i].call = stack[j].call => i = j

\* An action was declared after calls that have returned, of builders that exist.
Declared ==
  /\ IsSequence(actions)
  /\ \A a \in ToSet(actions) :
       /\ a.after \subseteq finished
       /\ \A i \in DOMAIN a.given.arguments :
            a.given.arguments[i].kind = "Args" => a.given.arguments[i].id \in DOMAIN builders

\* The inductive invariant.
IInv ==
  /\ Counted /\ Logged /\ Stacked /\ Declared
  /\ SnapshotAtRun
  /\ status \in {"running", "failed", "returned"}

\* The registry starts empty.
LEMMA InitIInv == Init => IInv
PROOF
<1> SUFFICES ASSUME Init PROVE IInv
  OBVIOUS
<1> USE DEF Init
<1>1. IsSequence(<<>>) /\ Len(<<>>) = 0 /\ DOMAIN <<>> = {} /\ ToSet(<<>>) = {}
  BY SequenceShort
<1>2. Counted
  BY DEF Counted
<1>3. Logged
  BY <1>1, RuleActionsAssumption DEF Logged
<1>4. Stacked
  <2>1. <<>> \in Seq(Frame)
    OBVIOUS
  <2> QED BY <1>1, <2>1 DEF Stacked
<1>5. Declared /\ SnapshotAtRun
  BY <1>1 DEF Declared, SnapshotAtRun
<1> QED
  BY <1>2, <1>3, <1>4, <1>5 DEF IInv

\* The types follow from the inductive invariant.
LEMMA IInvTypeOK == IInv => TypeOK
PROOF
<1> SUFFICES ASSUME IInv PROVE TypeOK
  OBVIOUS
<1>1. \A h \in DOMAIN builders : \A i \in DOMAIN builders[h] : builders[h][i].call \in 1 .. calls
  BY DEF IInv, Counted, Logged
<1>2. \A i \in DOMAIN stack : stack[i].call \in 1 .. calls
  BY DEF IInv, Stacked
<1> QED
  BY <1>1, <1>2 DEF IInv, Counted, Stacked, TypeOK

-------------------------------------------------------------------------------
(* What the steps do to the builders. *)

\* Nothing that is in a builder changes, what is added to one comes from
\* calls that had not returned, and a new one is empty.
Grown ==
  /\ DOMAIN builders \subseteq DOMAIN builders'
  /\ \A h \in DOMAIN builders :
       /\ Len(builders'[h]) >= Len(builders[h])
       /\ \A i \in 1 .. Len(builders[h]) : builders'[h][i] = builders[h][i]
       /\ \A i \in 1 .. Len(builders'[h]) :
            i > Len(builders[h]) => builders'[h][i].call \notin finished
  /\ \A h \in DOMAIN builders' \ DOMAIN builders : builders'[h] = <<>>
  /\ \A h \in DOMAIN builders' : IsSequence(builders'[h])

\* A call that has not returned grows its builder at the end, by strings
\* under its own tag.
LEMMA PushGrows ==
  ASSUME Logged, NEW id \in DOMAIN builders, NEW call, call \notin finished,
         NEW strs, IsSequence(strs), Push(id, call, strs),
         finished' = finished \cup {call} \/ (strs = <<>> /\ finished' = finished)
  PROVE  /\ Grown /\ Logged'
         /\ DOMAIN builders' = DOMAIN builders
         /\ \A h \in DOMAIN builders \ {id} : builders'[h] = builders[h]
         /\ \A i \in 1 .. Len(builders'[id]) :
              i > Len(builders[id]) => builders'[id][i].call = call
         /\ strs = <<>> => builders' = builders
         /\ strs # <<>> => Len(builders'[id]) > Len(builders[id])
PROOF
<1> DEFINE added == Tagged(call, strs)
<1>1. /\ IsSequence(added) /\ Len(added) = Len(strs) /\ Len(strs) \in Nat
      /\ \A i \in 1 .. Len(added) : added[i].call = call
  <2>1. Len(strs) \in Nat
    BY SequenceFacts
  <2>2. IsSequence(added) /\ Len(added) = Len(strs)
    BY TaggedIs
  <2>3. \A i \in 1 .. Len(strs) : added[i].call = call
    BY TaggedIs
  <2> HIDE DEF added
  <2> QED BY <2>1, <2>2, <2>3
<1>2. builders' = [builders EXCEPT ![id] = builders[id] \o added]
  BY DEF Push
<1> HIDE DEF added
<1>3. /\ IsSequence(builders) /\ \A h \in DOMAIN builders : IsSequence(builders[h])
      /\ Len(builders) \in Nat /\ DOMAIN builders = 1 .. Len(builders)
      /\ \A h \in DOMAIN builders : Len(builders[h]) \in Nat /\ DOMAIN builders[h] = 1 .. Len(builders[h])
  BY SequenceFacts DEF Logged
<1>4. /\ DOMAIN builders' = DOMAIN builders
      /\ \A h \in DOMAIN builders \ {id} : builders'[h] = builders[h]
      /\ builders'[id] = builders[id] \o added
      /\ builders' = [h \in 1 .. Len(builders) |-> builders'[h]]
  BY <1>2, <1>3
<1>5. IsSequence(builders') /\ Len(builders') = Len(builders)
  BY <1>3, <1>4, SequenceMade
<1>6. /\ IsSequence(builders'[id])
      /\ Len(builders'[id]) = Len(builders[id]) + Len(added)
      /\ \A i \in 1 .. Len(builders[id]) : builders'[id][i] = builders[id][i]
      /\ \A i \in 1 .. Len(added) : builders'[id][Len(builders[id]) + i] = added[i]
  <2>1. IsSequence(builders[id]) /\ IsSequence(added)
    BY <1>1, <1>3
  <2> DEFINE longer == builders[id] \o added
  <2>2. /\ IsSequence(longer)
        /\ Len(longer) = Len(builders[id]) + Len(added)
        /\ \A i \in 1 .. Len(builders[id]) : longer[i] = builders[id][i]
        /\ \A i \in 1 .. Len(added) : longer[Len(builders[id]) + i] = added[i]
    BY <2>1, SequenceConcat
  <2>3. builders'[id] = longer
    BY <1>4
  <2> HIDE DEF longer
  <2> QED BY <2>2, <2>3
<1>7. ASSUME NEW i \in 1 .. Len(builders'[id]), i > Len(builders[id])
      PROVE  builders'[id][i].call = call
  <2>1. i - Len(builders[id]) \in 1 .. Len(added) /\ Len(builders[id]) + (i - Len(builders[id])) = i
    BY <1>1, <1>3, <1>6, <1>7
  <2> QED BY <1>1, <1>6, <2>1
<1>8. strs = <<>> => builders' = builders
  <2>1. strs = <<>> => added = <<>>
    BY DEF added, Tagged
  <2>2. strs = <<>> => builders'[id] = builders[id]
    BY <1>1, <1>3, <1>4, <2>1, SequenceConcat
  <2> QED BY <1>3, <1>4, <2>2, SequenceFacts
<1>9. strs # <<>> => Len(builders'[id]) > Len(builders[id])
  <2>1. strs # <<>> => Len(strs) > 0
    BY <1>1, SequenceFacts DEF IsSequence
  <2> QED BY <1>1, <1>3, <1>6, <2>1
<1>10. Grown
  <2>1. ASSUME NEW h \in DOMAIN builders
        PROVE  /\ Len(builders'[h]) >= Len(builders[h])
               /\ \A i \in 1 .. Len(builders[h]) : builders'[h][i] = builders[h][i]
               /\ \A i \in 1 .. Len(builders'[h]) :
                    i > Len(builders[h]) => builders'[h][i].call \notin finished
               /\ IsSequence(builders'[h])
    <3>1. CASE h = id
      BY <1>1, <1>3, <1>6, <1>7, <3>1
    <3>2. CASE h # id
      BY <1>3, <1>4, <3>2
    <3> QED BY <3>1, <3>2
  <2> QED BY <1>4, <2>1 DEF Grown
<1>11. Logged'
  <2>1. ASSUME NEW h \in DOMAIN builders'
        PROVE  /\ IsSequence(builders'[h])
               /\ \A i \in DOMAIN builders'[h] : builders'[h][i].call \in finished'
    <3>1. CASE h = id
      <4>0. DOMAIN builders'[id] = 1 .. Len(builders'[id])
        BY <1>6, SequenceFacts
      <4>1. CASE finished' = finished \cup {call}
        <5>1. ASSUME NEW i \in 1 .. Len(builders'[id]), i <= Len(builders[id])
              PROVE  builders'[id][i].call \in finished
          BY <1>3, <1>6, <5>1 DEF Logged
        <5>2. ASSUME NEW i \in 1 .. Len(builders'[id])
              PROVE  i <= Len(builders[id]) \/ i > Len(builders[id])
          BY <1>1, <1>3, <1>6
        <5> QED BY <1>6, <1>7, <3>1, <4>0, <4>1, <5>1, <5>2
      <4>2. CASE strs = <<>> /\ finished' = finished
        BY <1>8, <4>2 DEF Logged
      <4> QED BY <4>1, <4>2
    <3>2. CASE h # id
      BY <1>4, <3>2 DEF Logged
    <3> QED BY <3>1, <3>2
  <2> QED BY <1>5, <2>1 DEF Logged
<1> QED
  BY <1>4, <1>7, <1>8, <1>9, <1>10, <1>11

\* While builders only grow that way, what an action has taken stays as it
\* was: a call that has not returned is in no action's past.
LEMMA GrownDeclared ==
  ASSUME Logged, Declared, SnapshotAtRun, Grown,
         actions' = actions, finished \subseteq finished'
  PROVE  Declared' /\ SnapshotAtRun'
PROOF
<1>1. Declared'
  BY DEF Declared, Grown
<1>2. ASSUME NEW a \in ToSet(actions)
      PROVE  /\ \A h \in DOMAIN builders' :
                  \A i \in Taken(h, a.after)' : 1 .. i \subseteq Taken(h, a.after)'
             /\ a.argv = Argv(a.given.executable, a.given.arguments,
                           [h \in DOMAIN builders' |->
                              SubSeq(builders'[h], 1, Cardinality(Taken(h, a.after)'))])
  <2>1. a.after \subseteq finished
    BY DEF Declared
  <2>2. ASSUME NEW h \in DOMAIN builders
        PROVE  /\ Taken(h, a.after)' = Taken(h, a.after)
               /\ SubSeq(builders'[h], 1, Cardinality(Taken(h, a.after)'))
                    = SubSeq(builders[h], 1, Cardinality(Taken(h, a.after)))
    <3>1. /\ Len(builders[h]) \in Nat /\ DOMAIN builders[h] = 1 .. Len(builders[h])
          /\ Len(builders'[h]) \in Nat /\ DOMAIN builders'[h] = 1 .. Len(builders'[h])
          /\ h \in DOMAIN builders'
      BY SequenceFacts DEF Logged, Grown
    <3>2. Taken(h, a.after)' = Taken(h, a.after)
      <4>1. ASSUME NEW i \in 1 .. Len(builders'[h])
            PROVE  builders'[h][i].call \in a.after
                     <=> i \in 1 .. Len(builders[h]) /\ builders[h][i].call \in a.after
        BY <2>1, <3>1 DEF Grown
      <4>2. 1 .. Len(builders[h]) \subseteq 1 .. Len(builders'[h])
        BY <3>1 DEF Grown
      <4> QED BY <3>1, <4>1, <4>2 DEF Taken
    <3>3. Cardinality(Taken(h, a.after)) \in 0 .. Len(builders[h])
      <4>1. Taken(h, a.after) \in SUBSET (1 .. Len(builders[h]))
        BY <3>1 DEF Taken
      <4> QED BY <3>1, <4>1, IntervalSize
    <3> DEFINE n == Cardinality(Taken(h, a.after))
    <3>4. \A i \in 1 .. n : builders'[h][i] = builders[h][i]
      BY <3>1, <3>3 DEF Grown
    <3> HIDE DEF n
    <3>5. SubSeq(builders'[h], 1, n) = SubSeq(builders[h], 1, n)
      <4>1. n \in 0 .. Len(builders[h]) /\ n \in 0 .. Len(builders'[h])
        BY <3>1, <3>3 DEF Grown, n
      <4>2. builders'[h] \in Seq(ToSet(builders'[h])) /\ builders[h] \in Seq(ToSet(builders[h]))
        BY <3>1 DEF Grown, Logged, IsSequence
      <4>3. /\ SubSeq(builders'[h], 1, n) = Restrict(builders'[h], 1 .. n)
            /\ SubSeq(builders[h], 1, n) = Restrict(builders[h], 1 .. n)
        BY <4>1, <4>2, SubSeqRestrict
      <4> QED BY <3>4, <4>3 DEF Restrict
    <3> QED BY <3>2, <3>5 DEF n
  <2>3. ASSUME NEW h \in DOMAIN builders' \ DOMAIN builders
        PROVE  Taken(h, a.after)' = {}
    <3>1. builders'[h] = <<>>
      BY DEF Grown
    <3> QED BY <3>1 DEF Taken
  <2>4. \A h \in DOMAIN builders' :
          \A i \in Taken(h, a.after)' : 1 .. i \subseteq Taken(h, a.after)'
    <3>1. \A h \in DOMAIN builders : \A i \in Taken(h, a.after) : 1 .. i \subseteq Taken(h, a.after)
      BY DEF SnapshotAtRun
    <3> TAKE h \in DOMAIN builders'
    <3>2. CASE h \in DOMAIN builders
      BY <2>2, <3>1, <3>2
    <3>3. CASE h \notin DOMAIN builders
      BY <2>3, <3>3
    <3> QED BY <3>2, <3>3
  <2> DEFINE old == [h \in DOMAIN builders |->
                       SubSeq(builders[h], 1, Cardinality(Taken(h, a.after)))]
             new == [h \in DOMAIN builders' |->
                       SubSeq(builders'[h], 1, Cardinality(Taken(h, a.after)'))]
  <2>5. ASSUME NEW i \in DOMAIN a.given.arguments, a.given.arguments[i].kind = "Args"
        PROVE  new[a.given.arguments[i].id] = old[a.given.arguments[i].id]
    BY <2>2, <2>5 DEF Declared, Grown
  <2>6. a.argv = Argv(a.given.executable, a.given.arguments, old)
    BY DEF SnapshotAtRun
  <2> HIDE DEF old, new
  <2>7. Argv(a.given.executable, a.given.arguments, new)
          = Argv(a.given.executable, a.given.arguments, old)
    <3>1. [i \in DOMAIN a.given.arguments |->
             IF a.given.arguments[i].kind = "Args" THEN new[a.given.arguments[i].id]
             ELSE Tagged(0, <<a.given.arguments[i].str>>)]
          = [i \in DOMAIN a.given.arguments |->
             IF a.given.arguments[i].kind = "Args" THEN old[a.given.arguments[i].id]
             ELSE Tagged(0, <<a.given.arguments[i].str>>)]
      BY <2>5
    <3> QED BY <3>1 DEF Argv
  <2> QED
    BY <2>4, <2>6, <2>7 DEF new
<1>3. SnapshotAtRun'
  BY <1>2 DEF SnapshotAtRun
<1> QED
  BY <1>1, <1>3

-------------------------------------------------------------------------------
(* Every step keeps the invariant. *)

\* A call that returns as soon as it is made.
\* A call that pushes and returns in one step keeps the invariant.
LEMMA CallReturnsIInv ==
  ASSUME IInv, NEW id \in DOMAIN builders, NEW strs, IsSequence(strs),
         Push(id, Call, strs), Returned(Call), calls' = Call,
         UNCHANGED <<actions, stack, status>>
  PROVE  IInv'
PROOF
<1>1. Call \notin finished /\ Call \in Nat /\ calls \in Nat
  BY DEF IInv, Counted, Call
<1>2. finished' = finished \cup {Call}
  BY DEF Returned
<1>3. Grown /\ Logged' /\ DOMAIN builders' = DOMAIN builders
  BY <1>1, <1>2, PushGrows DEF IInv
<1>4. Counted'
  BY <1>1, <1>2 DEF IInv, Counted, Call
<1>5. Stacked'
  <2>1. (1 .. calls') \ finished' = (1 .. calls) \ finished
    BY <1>1, <1>2 DEF IInv, Counted, Call
  <2> QED BY <1>3, <2>1 DEF IInv, Stacked
<1>6. Declared' /\ SnapshotAtRun'
  BY <1>2, <1>3, GrownDeclared DEF IInv
<1> QED
  BY <1>3, <1>4, <1>5, <1>6 DEF IInv

\* What is passed, and what map_each returns, is a list.
LEMMA ValuesAreSequences ==
  ASSUME NEW strs \in Values \cup MapResult
  PROVE  IsSequence(strs) /\ strs \in Seq(Strings)
PROOF
<1>1. strs \in Seq(ToSet(strs))
  BY RuleActionsAssumption
<1>2. ToSet(strs) \subseteq Strings
  BY DEF Strings
<1> QED
  BY <1>1, <1>2, SeqMonotonic DEF IsSequence

\* What a call of one of the methods may push.
Pushable(strs) ==
  \/ \E template \in {None, <<Hole, Hole>>}, first \in Item :
       \/ strs = <<apply_format(template, first)>>
       \/ \E second \in Item : strs = <<first, apply_format(template, second)>>
  \/ \E method \in Method, values \in Seq(Strings) : strs = Contribution(method, values)

\* What a call pushes is a list.
LEMMA PushableIsSequence ==
  ASSUME NEW strs, Pushable(strs)
  PROVE  IsSequence(strs)
PROOF
<1>1. ASSUME NEW method, NEW values \in Seq(Strings), strs = Contribution(method, values)
      PROVE  IsSequence(strs)
  BY <1>1, SequenceIs, ContributionIsSequence
<1> QED
  BY <1>1, SequenceShort DEF Pushable

\* add, and add_all and add_joined without map_each, push something pushable
\* and return.
LEMMA CallPushes ==
  ASSUME NEW id, Add(id) \/ AddPlain(id)
  PROVE  /\ \E strs : Pushable(strs) /\ Push(id, Call, strs)
         /\ Returned(Call) /\ calls' = Call /\ UNCHANGED <<actions, stack, status>>
PROOF
<1>1. CASE Add(id)
  BY <1>1 DEF Add, Calls, Pushable
<1>2. CASE AddPlain(id)
  <2>1. PICK method \in Method, values \in Values : Push(id, Call, Contribution(method, values))
    BY <1>2 DEF AddPlain
  <2>2. values \in Seq(Strings)
    BY ValuesAreSequences
  <2> QED BY <1>2, <2>1, <2>2 DEF AddPlain, Calls, Pushable
<1> QED
  BY <1>1, <1>2

\* Those calls keep the invariant.
LEMMA ReturningCallIInv ==
  ASSUME IInv, NEW id \in DOMAIN builders, Add(id) \/ AddPlain(id)
  PROVE  IInv'
BY CallPushes, PushableIsSequence, CallReturnsIInv

\* A step that leaves the registry alone keeps its part of the invariant.
LEMMA RegistryKept ==
  ASSUME Logged, Declared, SnapshotAtRun, UNCHANGED <<builders, actions, finished>>
  PROVE  Logged' /\ Declared' /\ SnapshotAtRun'
PROOF
<1>1. Logged'
  BY DEF Logged
<1>2. Declared'
  BY DEF Declared
<1>3. SnapshotAtRun'
  <2>1. builders' = builders /\ actions' = actions
    OBVIOUS
  <2> QED BY <2>1 DEF SnapshotAtRun, Taken
<1> QED
  BY <1>1, <1>2, <1>3

\* A call that starts its map_each takes a number no call has and goes on the
\* stack.
LEMMA AddMappedIInv ==
  ASSUME IInv, NEW id \in DOMAIN builders, AddMapped(id)
  PROVE  IInv'
PROOF
<1>1. PICK method \in Method, values \in Values :
        /\ values # <<>>
        /\ stack' = Append(stack, [call |-> Call, id |-> id, method |-> method,
                                   left |-> values, strs |-> <<>>])
  BY DEF AddMapped
<1> DEFINE frame == [call |-> Call, id |-> id, method |-> method,
                     left |-> values, strs |-> <<>>]
<1>2. /\ calls' = Call /\ Call = calls + 1 /\ calls \in Nat /\ finished \subseteq 1 .. calls
      /\ UNCHANGED <<builders, actions, finished, status>>
  BY DEF AddMapped, Calls, Call, IInv, Counted
<1>3. frame \in Frame
  <2>1. id \in Nat
    BY SequenceFacts DEF IInv, Logged
  <2>2. values \in Seq(Strings) /\ <<>> \in Seq(Strings)
    BY ValuesAreSequences
  <2> QED BY <1>2, <2>1, <2>2 DEF Frame
<1>4. frame.call = Call /\ frame.id = id /\ frame.left # <<>>
  BY <1>1
<1> HIDE DEF frame
<1>5. stack \in Seq(Frame)
  BY DEF IInv, Stacked
<1>6. /\ stack' \in Seq(Frame) /\ Len(stack) \in Nat
      /\ DOMAIN stack = 1 .. Len(stack) /\ DOMAIN stack' = 1 .. Len(stack) + 1
      /\ \A i \in 1 .. Len(stack) : stack'[i] = stack[i]
      /\ stack'[Len(stack) + 1] = frame
  BY <1>1, <1>3, <1>5 DEF frame
<1>7. \A i \in 1 .. Len(stack) : stack[i].call \in (1 .. calls) \ finished
  BY <1>6 DEF IInv, Stacked
<1>8. Stacked'
  <2>1. \A i \in DOMAIN stack' : stack'[i].id \in DOMAIN builders' /\ stack'[i].left # <<>>
    BY <1>2, <1>4, <1>6 DEF IInv, Stacked
  <2>2. {stack'[i].call : i \in DOMAIN stack'} = {stack[i].call : i \in DOMAIN stack} \cup {Call}
    BY <1>4, <1>6
  <2>3. (1 .. calls') \ finished' = ((1 .. calls) \ finished) \cup {Call}
    BY <1>2
  <2>4. \A i, j \in DOMAIN stack' : stack'[i].call = stack'[j].call => i = j
    <3>1. \A i \in 1 .. Len(stack) : stack'[i].call # Call
      BY <1>2, <1>6, <1>7
    <3>2. \A i, j \in 1 .. Len(stack) : stack'[i].call = stack'[j].call => i = j
      BY <1>6 DEF IInv, Stacked
    <3>3. \A i \in DOMAIN stack' : i \in 1 .. Len(stack) \/ i = Len(stack) + 1
      BY <1>6
    <3> QED BY <1>4, <1>6, <3>1, <3>2, <3>3
  <2>5. {stack[i].call : i \in DOMAIN stack} = (1 .. calls) \ finished
    BY DEF IInv, Stacked
  <2> QED BY <1>6, <2>1, <2>2, <2>3, <2>4, <2>5 DEF Stacked
<1>9. Counted'
  BY <1>2 DEF Counted
<1>10. Logged' /\ Declared' /\ SnapshotAtRun'
  BY <1>2, RegistryKept DEF IInv
<1> QED
  BY <1>2, <1>8, <1>9, <1>10 DEF IInv

\* The call whose callable returns: it pushes nothing and has one item less
\* to map, or it pushes all it has to add and has returned.
\* A callable that returns pushes nothing but for the last item, and then
\* ends its call, which is the one on top of the stack.
LEMMA MapReturnsPushes ==
  ASSUME IInv, MapReturns
  PROVE  \E frame, pushed :
           /\ frame \in Frame
           /\ frame = stack[Len(stack)]
           /\ frame.id \in DOMAIN builders
           /\ frame.call \in (1 .. calls) \ finished
           /\ IsSequence(pushed)
           /\ Push(frame.id, frame.call, pushed)
           /\ \/ /\ pushed = <<>> /\ finished' = finished
                 /\ \E longer \in Frame :
                      /\ stack' = [stack EXCEPT ![Len(stack)] = longer]
                      /\ longer.call = frame.call /\ longer.id = frame.id
                      /\ longer.left # <<>>
              \/ /\ \E strs \in Seq(Strings) : pushed = Contribution(frame.method, strs)
                 /\ finished' = finished \cup {frame.call}
                 /\ stack' = SubSeq(stack, 1, Len(stack) - 1)
PROOF
<1> DEFINE frame == stack[Len(stack)]
<1>1. stack \in Seq(Frame) /\ stack # <<>> /\ Len(stack) \in DOMAIN stack /\ frame \in Frame
  <2>1. stack \in Seq(Frame) /\ stack # <<>>
    BY DEF MapReturns, IInv, Stacked
  <2> QED BY <2>1
<1>2. /\ frame.id \in DOMAIN builders /\ frame.left # <<>>
      /\ frame.call \in (1 .. calls) \ finished
  BY <1>1 DEF IInv, Stacked
<1>3. PICK strs \in MapResult :
        /\ Push(frame.id, frame.call, Pushed(frame, strs))
        /\ \/ /\ Len(frame.left) > 1
              /\ stack' = [stack EXCEPT ![Len(stack)] =
                   [frame EXCEPT !.left = Tail(@), !.strs = @ \o strs]]
              /\ UNCHANGED finished
           \/ /\ Len(frame.left) = 1
              /\ stack' = Front(stack)
              /\ Returned(frame.call)
  BY DEF MapReturns, Last
<1>4. frame = stack[Len(stack)]
  OBVIOUS
<1> HIDE DEF frame
<1>5. /\ frame.left \in Seq(Strings) /\ Len(frame.left) \in Nat
      /\ frame.strs \o strs \in Seq(Strings)
  <2>1. strs \in Seq(Strings)
    BY ValuesAreSequences
  <2>2. frame.left \in Seq(Strings) /\ frame.strs \in Seq(Strings)
    BY <1>1 DEF Frame
  <2> QED BY <2>1, <2>2
<1>6. CASE Len(frame.left) > 1
  <2> DEFINE longer == [frame EXCEPT !.left = Tail(@), !.strs = @ \o strs]
  <2>1. Len(frame.left) # 1 /\ Len(frame.left) - 1 # 0
    <3>1. \A k \in Nat : k > 1 => k # 1 /\ k - 1 # 0
      OBVIOUS
    <3> QED BY <1>5, <1>6, <3>1
  <2>2. stack' = [stack EXCEPT ![Len(stack)] = longer] /\ finished' = finished
    BY <1>3, <2>1
  <2>3. Tail(frame.left) \in Seq(Strings) /\ Tail(frame.left) # <<>>
    <3>1. Tail(frame.left) \in Seq(Strings) /\ Len(Tail(frame.left)) = Len(frame.left) - 1
      BY <1>2, <1>5, HeadTailProperties
    <3>2. Len(<<>>) = 0
      OBVIOUS
    <3> QED BY <2>1, <3>1, <3>2
  <2>4. /\ longer \in Frame /\ longer.call = frame.call /\ longer.id = frame.id
        /\ longer.left # <<>>
    BY <1>1, <1>5, <2>3 DEF Frame
  <2>5. Pushed(frame, strs) = <<>> /\ IsSequence(<<>>)
    BY <2>1, SequenceShort DEF Pushed
  <2> HIDE DEF longer
  <2> QED
    BY <1>1, <1>2, <1>3, <1>4, <2>2, <2>4, <2>5
<1>7. CASE Len(frame.left) = 1
  <2>1. Pushed(frame, strs) = Contribution(frame.method, frame.strs \o strs)
    BY <1>7 DEF Pushed
  <2>2. IsSequence(Pushed(frame, strs))
    <3>1. IsSequence(frame.strs \o strs)
      BY <1>5, SequenceIs
    <3> QED BY <2>1, <3>1, ContributionIsSequence
  <2>3. ~(Len(frame.left) > 1)
    BY <1>7
  <2>4. stack' = SubSeq(stack, 1, Len(stack) - 1) /\ finished' = finished \cup {frame.call}
    BY <1>3, <2>3 DEF Front, Returned
  <2> QED
    BY <1>1, <1>2, <1>3, <1>4, <1>5, <2>1, <2>2, <2>4
<1> QED
  BY <1>3, <1>6, <1>7

\* A returning callable keeps the invariant.
LEMMA MapReturnsIInv ==
  ASSUME IInv, MapReturns
  PROVE  IInv'
PROOF
<1> DEFINE n == Len(stack)
<1>1. PICK frame, pushed :
        /\ frame \in Frame
        /\ frame = stack[n]
        /\ frame.id \in DOMAIN builders
        /\ frame.call \in (1 .. calls) \ finished
        /\ IsSequence(pushed)
        /\ Push(frame.id, frame.call, pushed)
        /\ \/ /\ pushed = <<>> /\ finished' = finished
              /\ \E longer \in Frame :
                   /\ stack' = [stack EXCEPT ![n] = longer]
                   /\ longer.call = frame.call /\ longer.id = frame.id
                   /\ longer.left # <<>>
           \/ /\ finished' = finished \cup {frame.call}
              /\ stack' = SubSeq(stack, 1, n - 1)
  BY MapReturnsPushes
<1>2. /\ calls \in Nat /\ finished \subseteq 1 .. calls
      /\ UNCHANGED <<actions, calls, status>>
  BY DEF MapReturns, IInv, Counted
<1>3. /\ stack \in Seq(Frame) /\ n \in Nat /\ n \in DOMAIN stack /\ DOMAIN stack = 1 .. n
  <2>1. stack \in Seq(Frame) /\ stack # <<>>
    BY DEF MapReturns, IInv, Stacked
  <2> QED BY <2>1
<1> HIDE DEF n
<1>4. Counted'
  BY <1>1, <1>2 DEF Counted
<1>5. Grown /\ Logged' /\ DOMAIN builders' = DOMAIN builders /\ finished \subseteq finished'
  <2>1. Logged
    BY DEF IInv
  <2> QED BY <1>1, <2>1, PushGrows
<1>6. Declared' /\ SnapshotAtRun'
  BY <1>2, <1>5, GrownDeclared DEF IInv
<1>7. Stacked'
  <2>0. /\ \A i \in DOMAIN stack : stack[i].id \in DOMAIN builders /\ stack[i].left # <<>>
        /\ {stack[i].call : i \in DOMAIN stack} = (1 .. calls) \ finished
        /\ \A i, j \in DOMAIN stack : stack[i].call = stack[j].call => i = j
    BY DEF IInv, Stacked
  <2>1. ASSUME finished' = finished,
               NEW longer \in Frame, stack' = [stack EXCEPT ![n] = longer],
               longer.call = frame.call, longer.id = frame.id, longer.left # <<>>
        PROVE  Stacked'
    <3>1. /\ stack' \in Seq(Frame) /\ DOMAIN stack' = DOMAIN stack /\ stack'[n] = longer
          /\ \A i \in DOMAIN stack : i # n => stack'[i] = stack[i]
      BY <1>3, <2>1
    <3>2. \A i \in DOMAIN stack : stack'[i].call = stack[i].call /\ stack'[i].id = stack[i].id
      BY <1>1, <2>1, <3>1
    <3>3. \A i \in DOMAIN stack' : stack'[i].id \in DOMAIN builders' /\ stack'[i].left # <<>>
      BY <1>5, <2>0, <2>1, <3>1, <3>2
    <3>4. {stack'[i].call : i \in DOMAIN stack'} = {stack[i].call : i \in DOMAIN stack}
      BY <3>1, <3>2
    <3>5. \A i, j \in DOMAIN stack' : stack'[i].call = stack'[j].call => i = j
      BY <2>0, <3>1, <3>2
    <3> QED BY <1>2, <2>0, <2>1, <3>1, <3>3, <3>4, <3>5 DEF Stacked
  <2>2. ASSUME finished' = finished \cup {frame.call}, stack' = SubSeq(stack, 1, n - 1)
        PROVE  Stacked'
    <3>1. /\ stack' \in Seq(Frame) /\ DOMAIN stack' = 1 .. n - 1
          /\ \A i \in 1 .. n - 1 : stack'[i] = stack[i]
      BY <1>3, <2>2
    <3>2. /\ \A i \in DOMAIN stack' : i \in DOMAIN stack /\ i # n
          /\ \A i \in DOMAIN stack : i = n \/ i \in DOMAIN stack'
      BY <1>3, <3>1
    <3>3. \A i \in DOMAIN stack' : stack'[i].id \in DOMAIN builders' /\ stack'[i].left # <<>>
      BY <1>5, <2>0, <3>1, <3>2
    <3>4. \A i, j \in DOMAIN stack' : stack'[i].call = stack'[j].call => i = j
      BY <2>0, <3>1, <3>2
    <3>5. \A i \in DOMAIN stack : i # n => stack[i].call # frame.call
      BY <1>1, <1>3, <2>0
    <3>6. {stack'[i].call : i \in DOMAIN stack'} = {stack[i].call : i \in DOMAIN stack} \ {frame.call}
      BY <1>1, <3>1, <3>2, <3>5
    <3>7. {stack'[i].call : i \in DOMAIN stack'} = (1 .. calls') \ finished'
      BY <1>2, <2>0, <2>2, <3>6
    <3> QED BY <3>1, <3>3, <3>4, <3>7 DEF Stacked
  <2> QED
    BY <1>1, <2>1, <2>2
<1> QED
  BY <1>2, <1>4, <1>5, <1>6, <1>7 DEF IInv

\* A new builder is empty and adds nothing to what actions have taken.
LEMMA NewArgsIInv ==
  ASSUME IInv, NewArgs
  PROVE  IInv'
PROOF
<1>1. /\ builders' = Append(builders, <<>>) /\ Len(builders) < MaxBuilders
      /\ UNCHANGED <<actions, stack, calls, finished, status>>
  BY DEF NewArgs
<1>2. IsSequence(builders) /\ Len(builders) \in Nat /\ DOMAIN builders = 1 .. Len(builders)
  BY SequenceFacts DEF IInv, Logged
<1>3. /\ IsSequence(builders') /\ Len(builders') = Len(builders) + 1
      /\ builders'[Len(builders) + 1] = <<>>
      /\ \A h \in DOMAIN builders : builders'[h] = builders[h]
      /\ DOMAIN builders' = DOMAIN builders \cup {Len(builders) + 1}
  <2>1. /\ IsSequence(builders') /\ Len(builders') = Len(builders) + 1
        /\ builders'[Len(builders) + 1] = <<>>
        /\ \A h \in 1 .. Len(builders) : builders'[h] = builders[h]
    BY <1>1, <1>2, SequenceAppend
  <2>2. DOMAIN builders' = 1 .. Len(builders) + 1
    BY <2>1, SequenceFacts
  <2> QED BY <1>2, <2>1, <2>2
<1>4. \A h \in DOMAIN builders' : IsSequence(builders'[h])
  BY <1>3, SequenceShort DEF IInv, Logged
<1>5. Grown
  <2>1. \A h \in DOMAIN builders : Len(builders[h]) \in Nat
    BY <1>3, <1>4, SequenceFacts
  <2> QED BY <1>3, <1>4, <2>1 DEF Grown
<1>6. Logged'
  <2>1. Len(builders') \in 0 .. MaxBuilders
    BY <1>1, <1>2, <1>3, RuleActionsAssumption
  <2>2. \A h \in DOMAIN builders' : \A i \in DOMAIN builders'[h] : builders'[h][i].call \in finished'
    BY <1>1, <1>3 DEF IInv, Logged
  <2> QED BY <1>3, <1>4, <2>1, <2>2 DEF Logged
<1>7. Counted' /\ Stacked'
  BY <1>1, <1>3 DEF IInv, Counted, Stacked
<1>8. Declared' /\ SnapshotAtRun'
  BY <1>1, <1>5, GrownDeclared DEF IInv
<1> QED
  BY <1>1, <1>6, <1>7, <1>8 DEF IInv

\* All that is in the builders when an action is declared is in its snapshot.
\* An action takes all that the calls that have returned have added, which is
\* all there is in the builders.
LEMMA DeclareIInv ==
  ASSUME IInv, NEW given, Declare(given),
         \A i \in DOMAIN given.arguments :
           given.arguments[i].kind = "Args" => given.arguments[i].id \in DOMAIN builders
  PROVE  IInv'
PROOF
<1> DEFINE new == [argv |-> Argv(given.executable, given.arguments, builders), env |-> given.env,
                   inputs |-> Paths(given.inputs), outputs |-> Paths(given.outputs),
                   given |-> given, after |-> finished]
<1>1. actions' = Append(actions, new) /\ UNCHANGED <<builders, stack, calls, finished, status>>
  BY DEF Declare
<1>2. /\ new.argv = Argv(given.executable, given.arguments, builders)
      /\ new.given = given /\ new.after = finished
  OBVIOUS
<1> HIDE DEF new
<1>3. IsSequence(actions') /\ ToSet(actions') = ToSet(actions) \cup {new}
  BY <1>1, SequenceAppend DEF IInv, Declared
<1>4. Counted' /\ Logged' /\ Stacked'
  BY <1>1 DEF IInv, Counted, Logged, Stacked
<1>5. Declared'
  BY <1>1, <1>2, <1>3 DEF IInv, Declared
<1>6. SnapshotAtRun'
  <2>1. ASSUME NEW h \in DOMAIN builders
        PROVE  /\ Taken(h, finished) = 1 .. Len(builders[h])
               /\ SubSeq(builders[h], 1, Cardinality(Taken(h, finished))) = builders[h]
    <3>1. /\ IsSequence(builders[h]) /\ Len(builders[h]) \in Nat
          /\ DOMAIN builders[h] = 1 .. Len(builders[h])
      BY SequenceFacts DEF IInv, Logged
    <3>2. Taken(h, finished) = 1 .. Len(builders[h])
      BY <3>1 DEF IInv, Logged, Taken
    <3>3. SubSeq(builders[h], 1, Len(builders[h])) = builders[h]
      BY <3>1, SubSeqFull DEF IsSequence
    <3> QED BY <3>1, <3>2, <3>3, IntervalSize
  <2>2. builders = [h \in DOMAIN builders |-> builders[h]]
    BY SequenceFacts DEF IInv, Logged
  <2>3. [h \in DOMAIN builders |-> SubSeq(builders[h], 1, Cardinality(Taken(h, finished)))] = builders
    BY <2>1, <2>2
  <2>4. ASSUME NEW h \in DOMAIN builders, NEW i \in Taken(h, finished)
        PROVE  1 .. i \subseteq Taken(h, finished)
    <3>1. Len(builders[h]) \in Nat
      BY SequenceFacts DEF IInv, Logged
    <3> QED BY <2>1, <3>1
  <2>5. \A h : \A after : Taken(h, after)' = Taken(h, after)
    BY <1>1 DEF Taken
  <2> DEFINE Taking(a) ==
        /\ \A h \in DOMAIN builders : \A i \in Taken(h, a.after) : 1 .. i \subseteq Taken(h, a.after)
        /\ a.argv = Argv(a.given.executable, a.given.arguments,
                         [h \in DOMAIN builders |->
                            SubSeq(builders[h], 1, Cardinality(Taken(h, a.after)))])
  <2>6. Taking(new)
    BY <1>2, <2>3, <2>4
  <2>7. \A a \in ToSet(actions) : Taking(a)
    BY DEF IInv, SnapshotAtRun
  <2>8. \A a \in ToSet(actions') : Taking(a)
    <3> HIDE DEF Taking
    <3> QED BY <1>3, <2>6, <2>7
  <2> QED BY <1>1, <2>5, <2>8 DEF SnapshotAtRun
<1> QED
  BY <1>1, <1>4, <1>5, <1>6 DEF IInv

\* run keeps the invariant: the Args it is given exist.
LEMMA RunIInv ==
  ASSUME IInv, Run
  PROVE  IInv'
PROOF
<1>1. PICK given \in Template(Len(builders)) : Declare(given)
  BY DEF Run
<1>2. Len(builders) \in 0 .. MaxBuilders /\ DOMAIN builders = 1 .. Len(builders)
  BY SequenceFacts DEF IInv, Logged
<1>3. /\ given.arguments \in Seq(ToSet(given.arguments))
      /\ \A x \in ToSet(given.arguments) : x.kind = "Args" => x.id \in 1 .. Len(builders)
  BY <1>2, RuleActionsAssumption
<1>4. \A i \in DOMAIN given.arguments :
        given.arguments[i].kind = "Args" => given.arguments[i].id \in DOMAIN builders
  BY <1>2, <1>3 DEF ToSet
<1> QED
  BY <1>1, <1>4, DeclareIInv

\* write keeps it: it is given no Args.
LEMMA WriteIInv ==
  ASSUME IInv, Write
  PROVE  IInv'
PROOF
<1>1. PICK content \in Item, output \in Output :
        Declare([executable |-> <<"write_file">>,
                 arguments |-> <<[kind |-> "text", str |-> content]>>,
                 inputs |-> <<>>, outputs |-> <<output>>, env |-> <<>>])
  BY DEF Write
<1>2. \A i \in DOMAIN <<[kind |-> "text", str |-> content]>> :
        <<[kind |-> "text", str |-> content]>>[i].kind # "Args"
  OBVIOUS
<1> QED
  BY <1>1, <1>2, DeclareIInv

\* Every step keeps the inductive invariant.
LEMMA NextIInv == IInv /\ [Next]_vars => IInv'
PROOF
<1> SUFFICES ASSUME IInv, [Next]_vars PROVE IInv'
  OBVIOUS
<1>1. CASE NewArgs
  BY <1>1, NewArgsIInv
<1>2. CASE \E id \in DOMAIN builders : Add(id) \/ AddPlain(id) \/ AddMapped(id)
  BY <1>2, ReturningCallIInv, AddMappedIInv
<1>3. CASE MapReturns
  BY <1>3, MapReturnsIInv
<1>4. CASE Run \/ Write
  BY <1>4, RunIInv, WriteIInv
<1>5. CASE Fail \/ Return \/ UNCHANGED vars
  <2>1. /\ UNCHANGED <<builders, actions, stack, calls, finished>>
        /\ status' \in {"running", "failed", "returned"}
    BY <1>5 DEF Fail, Return, vars, IInv
  <2>2. Counted' /\ Stacked'
    BY <2>1 DEF IInv, Counted, Stacked
  <2> QED BY <2>1, <2>2, RegistryKept DEF IInv
<1> QED
  BY <1>1, <1>2, <1>3, <1>4, <1>5 DEF Next

\* The inductive invariant holds for ever.
THEOREM Inductive == Spec => []IInv
PROOF
  BY InitIInv, NextIInv, PTL DEF Spec

\* Each string comes from a call that was made; a call that has not returned
\* is on the stack, once.
THEOREM TypesKept == Spec => []TypeOK
PROOF
  BY Inductive, IInvTypeOK, PTL

\* The argv of an action holds, whole, what the calls that had returned by
\* then have added, and nothing of any other call (actions.rs:150-157).
THEOREM SnapshotKept == Spec => []SnapshotAtRun
PROOF
<1>1. IInv => SnapshotAtRun
  BY DEF IInv
<1> QED
  BY <1>1, Inductive, PTL

-------------------------------------------------------------------------------
(* The refinement. *)

\* ActionLog makes an argv the way RuleActions does.
LEMMA SameArgv ==
  \A executable, arguments, args :
    Log!Argv(executable, arguments, args) = Argv(executable, arguments, args)
PROOF
<1>1. \A call, strs : Log!Tagged(call, strs) = Tagged(call, strs)
  BY DEF Log!Tagged, Tagged
<1>2. \A ss : Log!FlattenSeq(ss) = FlattenSeq(ss)
  BY DEF Log!FlattenSeq, FlattenSeq
<1> TAKE executable, arguments, args
<1>3. [i \in DOMAIN arguments |->
         IF arguments[i].kind = "Args" THEN args[arguments[i].id]
         ELSE Log!Tagged(0, <<arguments[i].str>>)]
      = [i \in DOMAIN arguments |->
         IF arguments[i].kind = "Args" THEN args[arguments[i].id]
         ELSE Tagged(0, <<arguments[i].str>>)]
  BY <1>1
<1> QED
  BY <1>1, <1>2, <1>3 DEF Log!Argv, Argv

\* A push under a new tag is one append to one log, or nothing.
LEMMA PushRefines ==
  ASSUME Logged, NEW id \in DOMAIN builders, NEW call, call \notin finished,
         NEW strs, IsSequence(strs), Push(id, call, strs),
         finished' = finished \cup {call} \/ (strs = <<>> /\ finished' = finished),
         UNCHANGED actions
  PROVE  Log!Log \/ UNCHANGED <<builders, actions>>
PROOF
<1>1. /\ Grown /\ DOMAIN builders' = DOMAIN builders
      /\ \A h \in DOMAIN builders \ {id} : builders'[h] = builders[h]
      /\ \A i \in 1 .. Len(builders'[id]) :
           i > Len(builders[id]) => builders'[id][i].call = call
      /\ strs = <<>> => builders' = builders
      /\ strs # <<>> => Len(builders'[id]) > Len(builders[id])
  BY PushGrows
<1>2. CASE strs = <<>>
  BY <1>1, <1>2
<1>3. CASE strs # <<>>
  <2> DEFINE last == Len(builders'[id])
  <2>1. /\ last \in Nat /\ DOMAIN builders'[id] = 1 .. last
        /\ Len(builders[id]) \in Nat /\ DOMAIN builders[id] = 1 .. Len(builders[id])
    BY <1>1, SequenceFacts DEF Logged, Grown
  <2>2. last > Len(builders[id])
    BY <1>1, <1>3
  <2>3. last \in DOMAIN builders'[id] /\ builders'[id][last].call = call
    BY <1>1, <2>1, <2>2
  <2>4. Log!Unlogged(call)
    BY DEF Log!Unlogged, Logged
  <2>5. Log!Extends(builders[id], builders'[id], call)
    <3>1. \A i \in DOMAIN builders[id] : builders'[id][i] = builders[id][i]
      BY <1>1, <2>1 DEF Grown
    <3>2. \A i \in DOMAIN builders'[id] \ DOMAIN builders[id] : builders'[id][i].call = call
      BY <1>1, <2>1
    <3> QED BY <2>1, <2>2, <3>1, <3>2 DEF Log!Extends
  <2> HIDE DEF last
  <2> QED
    BY <1>1, <2>3, <2>4, <2>5 DEF Log!Log
<1> QED
  BY <1>2, <1>3

\* The methods of Args append to a log, or leave the logs alone.
LEMMA CallRefines ==
  ASSUME IInv, NEW id \in DOMAIN builders, Add(id) \/ AddPlain(id) \/ AddMapped(id)
  PROVE  Log!Log \/ UNCHANGED <<builders, actions>>
PROOF
<1>1. Call \notin finished
  BY DEF IInv, Counted, Call
<1>2. Logged
  BY DEF IInv
<1>3. CASE Add(id) \/ AddPlain(id)
  <2>1. finished' = finished \cup {Call} /\ UNCHANGED actions
    BY <1>3, CallPushes DEF Returned
  <2> QED BY <1>1, <1>2, <1>3, <2>1, CallPushes, PushableIsSequence, PushRefines
<1>4. CASE AddMapped(id)
  BY <1>4 DEF AddMapped, Calls
<1> QED
  BY <1>3, <1>4

\* So does a callable that returns.
LEMMA MapReturnsRefines ==
  ASSUME IInv, MapReturns
  PROVE  Log!Log \/ UNCHANGED <<builders, actions>>
PROOF
<1>1. PICK frame, pushed :
        /\ frame \in Frame
        /\ frame.id \in DOMAIN builders
        /\ frame.call \notin finished
        /\ IsSequence(pushed)
        /\ Push(frame.id, frame.call, pushed)
        /\ finished' = finished \cup {frame.call} \/ (pushed = <<>> /\ finished' = finished)
  BY MapReturnsPushes
<1>2. Logged /\ UNCHANGED actions
  BY DEF IInv, MapReturns
<1> QED
  BY <1>1, <1>2, PushRefines

\* Declaring an action records it.
LEMMA DeclareRefines ==
  ASSUME IInv, NEW given, Declare(given)
  PROVE  Log!Record
PROOF
<1> DEFINE new == [argv |-> Argv(given.executable, given.arguments, builders), env |-> given.env,
                   inputs |-> Paths(given.inputs), outputs |-> Paths(given.outputs),
                   given |-> given, after |-> finished]
<1>1. actions' = Append(actions, new) /\ UNCHANGED builders
  BY DEF Declare
<1>2. new.argv = Argv(new.given.executable, new.given.arguments, builders)
  OBVIOUS
<1> HIDE DEF new
<1>3. IsSequence(actions)
  BY DEF IInv, Declared
<1>4. /\ Len(actions') = Len(actions) + 1 /\ actions'[Len(actions')] = new
      /\ \A i \in DOMAIN actions : actions'[i] = actions[i]
  BY <1>1, <1>3, SequenceAppend, SequenceFacts
<1> QED
  BY <1>1, <1>2, <1>4, SameArgv DEF Log!Record

\* Every step of the registry is a step of the log or leaves it alone.
LEMMA NextRefines == IInv /\ [Next]_vars => [Log!Next]_<<builders, actions>>
PROOF
<1> SUFFICES ASSUME IInv, [Next]_vars PROVE [Log!Next]_<<builders, actions>>
  OBVIOUS
<1>1. CASE NewArgs
  BY <1>1 DEF NewArgs, Log!Next, Log!NewArgs
<1>2. CASE \E id \in DOMAIN builders : Add(id) \/ AddPlain(id) \/ AddMapped(id)
  BY <1>2, CallRefines DEF Log!Next
<1>3. CASE MapReturns
  BY <1>3, MapReturnsRefines DEF Log!Next
<1>4. CASE Run \/ Write
  BY <1>4, DeclareRefines DEF Run, Write, Log!Next
<1>5. CASE Fail \/ Return \/ UNCHANGED vars
  BY <1>5 DEF Fail, Return, vars
<1> QED
  BY <1>1, <1>2, <1>3, <1>4, <1>5 DEF Next

\* The registry is a log of whole calls: the calls, nested as they are in the
\* code, look to an implementation as if each had added its strings in one
\* step (ActionLog).
THEOREM RegistryIsALog == Spec => LogSpec
PROOF
<1>1. Init => Log!Init
  BY DEF Init, Log!Init
<1> QED
  BY <1>1, NextRefines, Inductive, PTL DEF Spec, LogSpec, Log!Spec

-------------------------------------------------------------------------------
(* Flags and their items. *)

\* No string that is passed, and no item once it is formatted, reads like
\* one of the literals that are inserted before items.
FlagsApart ==
  /\ \A s \in Item : s \notin Flags /\ apply_format(None, s) \notin Flags
                     /\ apply_format(<<Hole, Hole>>, s) \notin Flags
  /\ \A method \in Method, strs \in Seq(Strings) :
       IF method.name = "add_all" THEN ToSet(Resolved(method, strs)) \cap Flags = {}
       ELSE ToSet(Contribution(method, strs)) \cap Flags = {}

\* The strings are flag, item, flag, item.
Alternates(strs) ==
  \A i \in DOMAIN strs :
    IF strs[i] \in Flags THEN i + 1 \in DOMAIN strs /\ strs[i + 1] \notin Flags
                         ELSE i - 1 \in DOMAIN strs /\ strs[i - 1] \in Flags

\* The same of the strings in a log that come from the calls of F; the
\* others are no flags, but for the arguments of run themselves.
WellPaired(log, F) ==
  \A i \in DOMAIN log :
    IF log[i].call \in F
    THEN IF log[i].str \in Flags
         THEN i + 1 \in DOMAIN log /\ log[i + 1].call = log[i].call /\ log[i + 1].str \notin Flags
         ELSE i - 1 \in DOMAIN log /\ log[i - 1].call = log[i].call /\ log[i - 1].str \in Flags
    ELSE log[i].call = 0 \/ log[i].str \notin Flags

\* Joining two lists of flags and items gives one.
LEMMA AlternatesConcat ==
  ASSUME NEW s, IsSequence(s), Alternates(s), NEW t, IsSequence(t), Alternates(t)
  PROVE  Alternates(s \o t)
PROOF
<1> DEFINE st == s \o t
<1>1. /\ Len(s) \in Nat /\ DOMAIN s = 1 .. Len(s)
      /\ Len(t) \in Nat /\ DOMAIN t = 1 .. Len(t)
  BY SequenceFacts
<1>2. /\ IsSequence(st) /\ Len(st) = Len(s) + Len(t)
      /\ \A i \in 1 .. Len(s) : st[i] = s[i]
      /\ \A i \in 1 .. Len(t) : st[Len(s) + i] = t[i]
  BY SequenceConcat
<1> HIDE DEF st
<1>3. DOMAIN st = 1 .. Len(s) + Len(t)
  BY <1>2, SequenceFacts
<1>4. ASSUME NEW i \in DOMAIN st
      PROVE  IF st[i] \in Flags THEN i + 1 \in DOMAIN st /\ st[i + 1] \notin Flags
                                ELSE i - 1 \in DOMAIN st /\ st[i - 1] \in Flags
  <2>1. CASE i <= Len(s)
    <3>1. i \in DOMAIN s /\ st[i] = s[i]
      BY <1>1, <1>2, <1>3, <2>1
    <3>2. \A j \in DOMAIN s : j \in DOMAIN st /\ st[j] = s[j]
      BY <1>1, <1>2, <1>3
    <3> QED BY <3>1, <3>2 DEF Alternates
  <2>2. CASE i > Len(s)
    <3> DEFINE k == i - Len(s)
    <3>1. k \in DOMAIN t /\ i = Len(s) + k /\ st[i] = t[k]
      BY <1>1, <1>2, <1>3, <2>2
    <3>2. \A j \in DOMAIN t : Len(s) + j \in DOMAIN st /\ st[Len(s) + j] = t[j]
      BY <1>1, <1>2, <1>3
    <3>3. Len(s) + (k + 1) = i + 1 /\ Len(s) + (k - 1) = i - 1
      BY <1>1, <1>3
    <3> HIDE DEF k
    <3>4. IF t[k] \in Flags THEN k + 1 \in DOMAIN t /\ t[k + 1] \notin Flags
                            ELSE k - 1 \in DOMAIN t /\ t[k - 1] \in Flags
      BY <3>1 DEF Alternates
    <3> QED BY <3>1, <3>2, <3>3, <3>4
  <2> QED BY <1>1, <1>3, <2>1, <2>2
<1> QED
  BY <1>4 DEF Alternates, st

\* The same of two logs.
LEMMA WellPairedConcat ==
  ASSUME NEW F, NEW s, IsSequence(s), WellPaired(s, F), NEW t, IsSequence(t), WellPaired(t, F)
  PROVE  WellPaired(s \o t, F)
PROOF
<1> DEFINE st == s \o t
           Paired(log, i) ==
             IF log[i].call \in F
             THEN IF log[i].str \in Flags
                  THEN i + 1 \in DOMAIN log /\ log[i + 1].call = log[i].call
                       /\ log[i + 1].str \notin Flags
                  ELSE i - 1 \in DOMAIN log /\ log[i - 1].call = log[i].call
                       /\ log[i - 1].str \in Flags
             ELSE log[i].call = 0 \/ log[i].str \notin Flags
<1>1. /\ Len(s) \in Nat /\ DOMAIN s = 1 .. Len(s)
      /\ Len(t) \in Nat /\ DOMAIN t = 1 .. Len(t)
  BY SequenceFacts
<1>2. /\ IsSequence(st) /\ Len(st) = Len(s) + Len(t)
      /\ \A i \in 1 .. Len(s) : st[i] = s[i]
      /\ \A i \in 1 .. Len(t) : st[Len(s) + i] = t[i]
  BY SequenceConcat
<1> HIDE DEF st
<1>3. DOMAIN st = 1 .. Len(s) + Len(t)
  BY <1>2, SequenceFacts
<1>4. ASSUME NEW i \in DOMAIN st PROVE Paired(st, i)
  <2>1. CASE i <= Len(s)
    <3>1. i \in DOMAIN s /\ st[i] = s[i]
      BY <1>1, <1>2, <1>3, <2>1
    <3>2. \A j \in DOMAIN s : j \in DOMAIN st /\ st[j] = s[j]
      BY <1>1, <1>2, <1>3
    <3>3. Paired(s, i)
      BY <3>1 DEF WellPaired
    <3> QED BY <3>1, <3>2, <3>3
  <2>2. CASE i > Len(s)
    <3> DEFINE k == i - Len(s)
    <3>1. k \in DOMAIN t /\ i = Len(s) + k /\ st[i] = t[k]
      BY <1>1, <1>2, <1>3, <2>2
    <3>2. \A j \in DOMAIN t : Len(s) + j \in DOMAIN st /\ st[Len(s) + j] = t[j]
      BY <1>1, <1>2, <1>3
    <3>3. Len(s) + (k + 1) = i + 1 /\ Len(s) + (k - 1) = i - 1
      BY <1>1, <1>3
    <3> HIDE DEF k
    <3>4. Paired(t, k)
      BY <3>1 DEF WellPaired
    <3> QED BY <3>1, <3>2, <3>3, <3>4
  <2> QED BY <1>1, <1>3, <2>1, <2>2
<1>5. \A i \in DOMAIN st : Paired(st, i)
  BY <1>4
<1> QED
  BY <1>5 DEF WellPaired, st

\* A call pushes flags and items in turn, or no flag at all.
LEMMA PushablePaired ==
  ASSUME FlagsApart, NEW strs, Pushable(strs)
  PROVE  Alternates(strs) \/ ToSet(strs) \cap Flags = {}
PROOF
<1>1. ASSUME NEW template \in {None, <<Hole, Hole>>}, NEW first \in Item,
             \/ strs = <<apply_format(template, first)>>
             \/ \E second \in Item : strs = <<first, apply_format(template, second)>>
      PROVE  ToSet(strs) \cap Flags = {}
  <2>1. \A s \in Item : s \notin Flags /\ apply_format(template, s) \notin Flags
    BY DEF FlagsApart
  <2>2. CASE strs = <<apply_format(template, first)>>
    BY <2>1, <2>2 DEF ToSet
  <2>3. ASSUME NEW second \in Item, strs = <<first, apply_format(template, second)>>
        PROVE  ToSet(strs) \cap Flags = {}
    BY <2>1, <2>3 DEF ToSet
  <2> QED BY <1>1, <2>2, <2>3
<1>2. ASSUME NEW method \in Method, NEW values \in Seq(Strings),
             strs = Contribution(method, values)
      PROVE  Alternates(strs) \/ ToSet(strs) \cap Flags = {}
  <2>1. CASE method.name # "add_all"
    BY <1>2, <2>1 DEF FlagsApart
  <2>2. CASE method.name = "add_all"
    <3> DEFINE items == Resolved(method, values)
    <3>1. strs = WithBefore(method, items) /\ ToSet(items) \cap Flags = {}
      BY <1>2, <2>2 DEF Contribution, FlagsApart
    <3>2. IsSequence(items)
      BY SequenceIs, ResolvedIsSequence
    <3> HIDE DEF items
    <3>3. CASE method.before_each = None
      BY <3>1, <3>3 DEF WithBefore
    <3>4. CASE method.before_each # None
      <4> DEFINE flag == method.before_each
                 pairs == [i \in DOMAIN items |-> <<flag, items[i]>>]
                 E == ToSet(items) \cup {flag}
                 C == {s \in Seq(E) : Alternates(s)}
      <4>1. flag \in Flags
        BY <2>2, <3>4 DEF Flags
      <4>2. \A i \in DOMAIN items : items[i] \notin Flags /\ items[i] \in E
        BY <3>1 DEF ToSet
      <4>3. ASSUME NEW x \in E, x \notin Flags PROVE <<flag, x>> \in C
        <5>1. <<flag, x>> \in Seq(E) /\ DOMAIN <<flag, x>> = {1, 2}
          BY <4>3
        <5>2. <<flag, x>>[1] = flag /\ <<flag, x>>[2] = x /\ 1 + 1 = 2 /\ 2 - 1 = 1
          OBVIOUS
        <5>3. Alternates(<<flag, x>>)
          <6> DEFINE p == <<flag, x>>
          <6>1. DOMAIN p = {1, 2} /\ p[1] = flag /\ p[2] = x
            BY <5>1, <5>2
          <6> HIDE DEF p
          <6> QED BY <4>1, <4>3, <5>2, <6>1 DEF Alternates, p
        <5> QED BY <5>1, <5>3
      <4>4. pairs \in Seq(C)
        <5>1. \A i \in DOMAIN items : <<flag, items[i]>> \in C
          BY <4>2, <4>3
        <5> HIDE DEF C
        <5>2. DOMAIN items = 1 .. Len(items) /\ Len(items) \in Nat
          BY <3>2, SequenceFacts
        <5> QED BY <5>1, <5>2
      <4>5. <<>> \in C
        BY DEF Alternates
      <4>6. \A s, r \in C : s \o r \in C
        <5> TAKE s, r \in C
        <5>1. IsSequence(s) /\ Alternates(s) /\ IsSequence(r) /\ Alternates(r)
          BY SequenceIs
        <5>2. s \o r \in Seq(E)
          OBVIOUS
        <5> QED BY <5>1, <5>2, AlternatesConcat
      <4>7. FlattenSeq(pairs) \in C
        <5> HIDE DEF C, pairs
        <5> QED BY <4>4, <4>5, <4>6, FlattenClosed
      <4> QED
        BY <3>1, <3>4, <4>7 DEF WithBefore
    <3> QED BY <3>3, <3>4
  <2> QED BY <2>1, <2>2
<1> QED
  BY <1>1, <1>2 DEF Pushable

\* A list of flags and items stays one when it is tagged.
LEMMA TaggedPaired ==
  ASSUME NEW F, NEW call, NEW strs, IsSequence(strs),
         IF call \in F THEN Alternates(strs) ELSE call = 0 \/ ToSet(strs) \cap Flags = {}
  PROVE  WellPaired(Tagged(call, strs), F)
PROOF
<1> DEFINE log == Tagged(call, strs)
<1>1. /\ DOMAIN log = DOMAIN strs
      /\ \A i \in DOMAIN strs : log[i].call = call /\ log[i].str = strs[i]
  BY DEF Tagged
<1> HIDE DEF log
<1>2. CASE call \in F
  BY <1>1, <1>2 DEF WellPaired, Alternates, log
<1>3. CASE call \notin F
  <2>1. call = 0 \/ \A i \in DOMAIN strs : strs[i] \notin Flags
    BY <1>3 DEF ToSet
  <2> QED BY <1>1, <1>3, <2>1 DEF WellPaired, log
<1> QED
  BY <1>2, <1>3

\* The calls of F insert flags; what is in an argv has come from run itself
\* or from calls that have returned.
PairInv ==
  \E F \in SUBSET finished :
    /\ \A h \in DOMAIN builders : WellPaired(builders[h], F)
    /\ \A a \in ToSet(actions) :
         /\ WellPaired(a.argv, F)
         /\ \A i \in DOMAIN a.argv : a.argv[i].call \in finished \cup {0}

\* A call that returns keeps flags and items together.
LEMMA PushPairs ==
  ASSUME FlagsApart, IInv, PairInv,
         NEW id \in DOMAIN builders, NEW call \in Nat \ {0}, call \notin finished,
         NEW strs, Pushable(strs), Push(id, call, strs), finished' = finished \cup {call},
         UNCHANGED actions
  PROVE  PairInv'
PROOF
<1>1. PICK F \in SUBSET finished :
        /\ \A h \in DOMAIN builders : WellPaired(builders[h], F)
        /\ \A a \in ToSet(actions) :
             /\ WellPaired(a.argv, F)
             /\ \A i \in DOMAIN a.argv : a.argv[i].call \in finished \cup {0}
  BY DEF PairInv
<1> DEFINE G == IF Alternates(strs) THEN F \cup {call} ELSE F
<1>2. G \in SUBSET finished' /\ (call \in G <=> Alternates(strs)) /\ \A c : c # call => (c \in G <=> c \in F)
  OBVIOUS
<1>3. ASSUME NEW log, WellPaired(log, F), \A i \in DOMAIN log : log[i].call # call
      PROVE  WellPaired(log, G)
  <2> HIDE DEF G
  <2> QED BY <1>2, <1>3 DEF WellPaired
<1> HIDE DEF G
<1>4. ASSUME NEW h \in DOMAIN builders PROVE WellPaired(builders[h], G)
  <2>1. \A i \in DOMAIN builders[h] : builders[h][i].call # call
    BY DEF IInv, Logged
  <2> QED BY <1>1, <1>3, <2>1
<1>5. IsSequence(strs)
  BY PushableIsSequence
<1>6. WellPaired(Tagged(call, strs), G) /\ IsSequence(Tagged(call, strs))
  <2>1. Alternates(strs) \/ ToSet(strs) \cap Flags = {}
    BY PushablePaired
  <2> QED BY <1>2, <1>5, <2>1, TaggedPaired, TaggedIs
<1>7. \A h \in DOMAIN builders' : WellPaired(builders'[h], G)
  <2>1. /\ DOMAIN builders' = DOMAIN builders
        /\ \A h \in DOMAIN builders \ {id} : builders'[h] = builders[h]
        /\ builders'[id] = builders[id] \o Tagged(call, strs)
    BY SequenceFacts DEF Push, IInv, Logged
  <2>2. IsSequence(builders[id])
    BY DEF IInv, Logged
  <2>3. WellPaired(builders'[id], G)
    BY <1>4, <1>6, <2>1, <2>2, WellPairedConcat
  <2> QED BY <1>4, <2>1, <2>3
<1>8. ASSUME NEW a \in ToSet(actions)
      PROVE  /\ WellPaired(a.argv, G)
             /\ \A i \in DOMAIN a.argv : a.argv[i].call \in finished' \cup {0}
  <2>1. \A i \in DOMAIN a.argv : a.argv[i].call # call
    BY <1>1
  <2> QED BY <1>1, <1>3, <2>1
<1> QED
  BY <1>2, <1>7, <1>8 DEF PairInv

\* The argv of an action is made of logs and of single strings.
\* An argv, made of whole logs, keeps them together.
LEMMA DeclarePairs ==
  ASSUME IInv, PairInv, NEW given, Declare(given), given.arguments \in Seq(ToSet(given.arguments)),
         \A i \in DOMAIN given.arguments :
           given.arguments[i].kind = "Args" => given.arguments[i].id \in DOMAIN builders
  PROVE  PairInv'
PROOF
<1>1. PICK F \in SUBSET finished :
        /\ \A h \in DOMAIN builders : WellPaired(builders[h], F)
        /\ \A a \in ToSet(actions) :
             /\ WellPaired(a.argv, F)
             /\ \A i \in DOMAIN a.argv : a.argv[i].call \in finished \cup {0}
  BY DEF PairInv
<1>2. 0 \notin F
  BY DEF IInv, Counted
<1> DEFINE new == [argv |-> Argv(given.executable, given.arguments, builders), env |-> given.env,
                   inputs |-> Paths(given.inputs), outputs |-> Paths(given.outputs),
                   given |-> given, after |-> finished]
<1>3. actions' = Append(actions, new) /\ UNCHANGED <<builders, finished>>
  BY DEF Declare
<1>4. new.argv = Argv(given.executable, given.arguments, builders)
  OBVIOUS
<1> HIDE DEF new
<1>5. ToSet(actions') = ToSet(actions) \cup {new}
  BY <1>3, SequenceAppend DEF IInv, Declared
<1> DEFINE Good(log) == /\ IsSequence(log) /\ WellPaired(log, F)
                        /\ \A i \in DOMAIN log : log[i].call \in finished \cup {0}
<1>6. \A h \in DOMAIN builders : Good(builders[h])
  BY <1>1 DEF IInv, Logged
<1>7. ASSUME NEW str PROVE Good(Tagged(0, <<str>>))
  <2>1. IsSequence(<<str>>) /\ Len(<<str>>) = 1
    BY SequenceShort
  <2>2. IsSequence(Tagged(0, <<str>>))
    BY <2>1, TaggedIs
  <2>3. WellPaired(Tagged(0, <<str>>), F)
    BY <1>2, <2>1, TaggedPaired
  <2>4. \A i \in DOMAIN Tagged(0, <<str>>) : Tagged(0, <<str>>)[i].call = 0
    BY DEF Tagged
  <2> QED BY <2>2, <2>3, <2>4
<1>8. ASSUME NEW s, NEW t, Good(s), Good(t) PROVE Good(s \o t)
  <2>1. WellPaired(s \o t, F)
    BY <1>8, WellPairedConcat
  <2>2. /\ IsSequence(s \o t) /\ ToSet(s \o t) = ToSet(s) \cup ToSet(t)
    BY <1>8, SequenceConcat
  <2>3. \A i \in DOMAIN (s \o t) : (s \o t)[i] \in ToSet(s \o t)
    BY DEF ToSet
  <2>4. \A x \in ToSet(s) \cup ToSet(t) : x.call \in finished \cup {0}
    BY <1>8 DEF ToSet
  <2> QED BY <2>1, <2>2, <2>3, <2>4
<1> DEFINE pieces == [i \in DOMAIN given.arguments |->
                        IF given.arguments[i].kind = "Args" THEN builders[given.arguments[i].id]
                        ELSE Tagged(0, <<given.arguments[i].str>>)]
<1>9. \A i \in DOMAIN pieces : Good(pieces[i])
  <2> HIDE DEF Good
  <2> QED BY <1>6, <1>7
<1>10. IsSequence(pieces)
  <2>1. IsSequence(given.arguments)
    BY DEF IsSequence
  <2> QED BY <2>1, SequenceFacts, SequenceMade
<1>11. Good(FlattenSeq(pieces))
  <2> DEFINE E == UNION {ToSet(pieces[i]) : i \in DOMAIN pieces}
             C == {log \in Seq(E) : Good(log)}
  <2>1. pieces \in Seq(C)
    <3>1. ASSUME NEW i \in DOMAIN pieces PROVE pieces[i] \in C
      <4>1. pieces[i] \in Seq(ToSet(pieces[i])) /\ Good(pieces[i])
        BY <1>9 DEF IsSequence
      <4>2. ToSet(pieces[i]) \subseteq E
        OBVIOUS
      <4> HIDE DEF pieces, E, Good
      <4>3. pieces[i] \in Seq(E)
        BY <4>1, <4>2, SeqMonotonic
      <4> QED BY <4>1, <4>3
    <3> HIDE DEF pieces, C
    <3> QED BY <1>10, <3>1, SequenceFacts
  <2>2. <<>> \in C
    <3>1. WellPaired(<<>>, F)
      BY DEF WellPaired
    <3> QED BY <3>1, SequenceShort
  <2>3. \A s, t \in C : s \o t \in C
    <3> HIDE DEF E, Good
    <3> QED BY <1>8
  <2> HIDE DEF pieces, C
  <2>4. FlattenSeq(pieces) \in C
    BY <2>1, <2>2, <2>3, FlattenClosed
  <2> QED BY <2>4 DEF C
<1>12. Good(new.argv)
  <2> HIDE DEF Good
  <2> QED BY <1>4, <1>7, <1>8, <1>11 DEF Argv
<1> QED
  BY <1>1, <1>3, <1>5, <1>12 DEF PairInv

\* Every step keeps flags and items together.
LEMMA NextPairs == FlagsApart /\ IInv /\ PairInv /\ [Next]_vars => PairInv'
PROOF
<1> SUFFICES ASSUME FlagsApart, IInv, PairInv, [Next]_vars PROVE PairInv'
  OBVIOUS
<1>0. ASSUME UNCHANGED <<builders, actions, finished>> PROVE PairInv'
  BY <1>0 DEF PairInv
<1>1. CASE NewArgs
  <2>1. /\ builders' = Append(builders, <<>>) /\ UNCHANGED <<actions, finished>>
        /\ IsSequence(builders)
    BY <1>1 DEF NewArgs, IInv, Logged
  <2>2. /\ IsSequence(builders') /\ Len(builders') = Len(builders) + 1 /\ Len(builders) \in Nat
        /\ builders'[Len(builders) + 1] = <<>>
        /\ \A h \in 1 .. Len(builders) : builders'[h] = builders[h]
    BY <2>1, SequenceAppend, SequenceFacts
  <2>3. \A h \in DOMAIN builders' : h \in DOMAIN builders \/ builders'[h] = <<>>
    BY <2>1, <2>2, SequenceFacts
  <2>4. \A h \in DOMAIN builders : builders'[h] = builders[h]
    BY <2>1, <2>2, SequenceFacts
  <2>5. \A F : WellPaired(<<>>, F)
    BY DEF WellPaired
  <2> QED BY <2>1, <2>3, <2>4, <2>5 DEF PairInv
<1>2. ASSUME NEW id \in DOMAIN builders, Add(id) \/ AddPlain(id) PROVE PairInv'
  <2>1. Call \in Nat \ {0} /\ Call \notin finished
    BY DEF IInv, Counted, Call
  <2>2. finished' = finished \cup {Call} /\ UNCHANGED actions
    BY <1>2, CallPushes DEF Returned
  <2> QED BY <1>2, <2>1, <2>2, CallPushes, PushPairs
<1>3. ASSUME NEW id \in DOMAIN builders, AddMapped(id) PROVE PairInv'
  BY <1>0, <1>3 DEF AddMapped, Calls
<1>4. CASE MapReturns
  <2>1. PICK frame, pushed :
          /\ frame \in Frame
          /\ frame.id \in DOMAIN builders
          /\ frame.call \in (1 .. calls) \ finished
          /\ IsSequence(pushed)
          /\ Push(frame.id, frame.call, pushed)
          /\ \/ pushed = <<>> /\ finished' = finished
             \/ /\ \E strs \in Seq(Strings) : pushed = Contribution(frame.method, strs)
                /\ finished' = finished \cup {frame.call}
    BY <1>4, MapReturnsPushes
  <2>2. UNCHANGED actions /\ Logged /\ calls \in Nat
    BY <1>4 DEF MapReturns, IInv, Counted
  <2>3. CASE pushed = <<>> /\ finished' = finished
    <3>1. builders' = builders
      BY <2>1, <2>2, <2>3, PushGrows
    <3> QED BY <1>0, <2>2, <2>3, <3>1
  <2>4. CASE /\ \E strs \in Seq(Strings) : pushed = Contribution(frame.method, strs)
             /\ finished' = finished \cup {frame.call}
    <3>1. Pushable(pushed)
      BY <2>1, <2>4 DEF Pushable, Frame
    <3>2. frame.call \in Nat \ {0} /\ frame.call \notin finished
      BY <2>1, <2>2
    <3> QED BY <2>1, <2>2, <2>4, <3>1, <3>2, PushPairs
  <2> QED BY <2>1, <2>3, <2>4
<1>5. CASE Run
  <2>1. PICK given \in Template(Len(builders)) : Declare(given)
    BY <1>5 DEF Run
  <2>2. Len(builders) \in 0 .. MaxBuilders /\ DOMAIN builders = 1 .. Len(builders)
    BY SequenceFacts DEF IInv, Logged
  <2>3. /\ given.arguments \in Seq(ToSet(given.arguments))
        /\ \A x \in ToSet(given.arguments) : x.kind = "Args" => x.id \in 1 .. Len(builders)
    BY <2>2, RuleActionsAssumption
  <2>4. \A i \in DOMAIN given.arguments :
          given.arguments[i].kind = "Args" => given.arguments[i].id \in DOMAIN builders
    BY <2>2, <2>3 DEF ToSet
  <2> QED BY <2>1, <2>3, <2>4, DeclarePairs
<1>6. CASE Write
  <2>1. PICK content \in Item, output \in Output :
          Declare([executable |-> <<"write_file">>,
                   arguments |-> <<[kind |-> "text", str |-> content]>>,
                   inputs |-> <<>>, outputs |-> <<output>>, env |-> <<>>])
    BY <1>6 DEF Write
  <2> DEFINE arguments == <<[kind |-> "text", str |-> content]>>
  <2>2. arguments \in Seq(ToSet(arguments))
    BY SequenceShort DEF IsSequence
  <2>3. \A i \in DOMAIN arguments : arguments[i].kind # "Args"
    OBVIOUS
  <2> QED BY <2>1, <2>2, <2>3, DeclarePairs
<1>7. CASE Fail \/ Return \/ UNCHANGED vars
  BY <1>0, <1>7 DEF Fail, Return, vars
<1> QED
  BY <1>1, <1>2, <1>3, <1>4, <1>5, <1>6, <1>7 DEF Next

\* The pairing of the logs gives that of an argv.
LEMMA PairInvFlags == PairInv => FlagsPaired
PROOF
<1> SUFFICES ASSUME PairInv, NEW a \in ToSet(actions) PROVE
      LET Flag(i) == a.argv[i].str \in Flags
          Same(i, j) == j \in DOMAIN a.argv /\ a.argv[j].call = a.argv[i].call
      IN \A i \in DOMAIN a.argv :
           (a.argv[i].call # 0 /\ \E j \in DOMAIN a.argv : Same(i, j) /\ Flag(j)) =>
             IF Flag(i) THEN Same(i, i + 1) /\ ~Flag(i + 1)
                        ELSE Same(i, i - 1) /\ Flag(i - 1)
  BY DEF FlagsPaired
<1>1. PICK F : WellPaired(a.argv, F)
  BY DEF PairInv
<1> QED
  BY <1>1 DEF WellPaired

\* In the argv of an action a flag and its item stay together, also when
\* duplicates are dropped, and whatever ran while the items were mapped
\* ("a literal inserted before each item", values_args.rs:8).
THEOREM FlagsKept ==
  ASSUME FlagsApart
  PROVE  Spec => []FlagsPaired
PROOF
<1>1. Init => PairInv
  BY SequenceShort DEF Init, PairInv
<1>2. IInv /\ PairInv /\ [Next]_vars => PairInv'
  BY NextPairs
<1> QED
  BY <1>1, <1>2, PairInvFlags, Inductive, PTL DEF Spec

-------------------------------------------------------------------------------
(* The paths of an action. *)

\* How many of s are less than p, and how many no greater.
Fewer(s, p) == Cardinality({j \in DOMAIN s : s[j] < p})
AtMost(s, p) == Cardinality({j \in DOMAIN s : s[j] <= p})

LEMMA CountsOrdered ==
  ASSUME NEW s \in Seq(Nat)
  PROVE  /\ Len(s) \in Nat /\ DOMAIN s = 1 .. Len(s)
         /\ \A p \in Nat : Fewer(s, p) \in 0 .. Len(s) /\ AtMost(s, p) \in 0 .. Len(s)
         /\ \A p \in ToSet(s) : p \in Nat /\ Fewer(s, p) < AtMost(s, p)
         /\ \A p, q \in Nat : p < q => AtMost(s, p) <= Fewer(s, q)
PROOF
<1> DEFINE lt(p) == {j \in DOMAIN s : s[j] < p}
           le(p) == {j \in DOMAIN s : s[j] <= p}
<1>1. Len(s) \in Nat /\ DOMAIN s = 1 .. Len(s) /\ \A j \in DOMAIN s : s[j] \in Nat
  OBVIOUS
<1>2. ASSUME NEW T \in SUBSET DOMAIN s PROVE IsFiniteSet(T) /\ Cardinality(T) \in 0 .. Len(s)
  <2>1. IsFiniteSet(1 .. Len(s))
    BY <1>1, FS_Interval
  <2> QED BY <1>1, <2>1, FS_Subset, IntervalSize
<1>3. ASSUME NEW p \in Nat PROVE Fewer(s, p) \in 0 .. Len(s) /\ AtMost(s, p) \in 0 .. Len(s)
  BY <1>2 DEF Fewer, AtMost
<1>4. ASSUME NEW p \in ToSet(s) PROVE p \in Nat /\ Fewer(s, p) < AtMost(s, p)
  <2>1. PICK j \in DOMAIN s : s[j] = p
    BY DEF ToSet
  <2>2. p \in Nat
    BY <1>1, <2>1
  <2>3. lt(p) \subseteq le(p) /\ j \in le(p) /\ j \notin lt(p) /\ le(p) \in SUBSET DOMAIN s
    BY <1>1, <2>1, <2>2
  <2> HIDE DEF lt, le
  <2>4. /\ Cardinality(lt(p)) <= Cardinality(le(p))
        /\ Cardinality(le(p)) = Cardinality(lt(p)) => le(p) = lt(p)
    BY <1>2, <2>3, FS_Subset
  <2>5. Cardinality(lt(p)) = Fewer(s, p) /\ Cardinality(le(p)) = AtMost(s, p)
    BY DEF Fewer, AtMost, lt, le
  <2>6. Fewer(s, p) \in Nat /\ AtMost(s, p) \in Nat
    BY <1>1, <1>3, <2>2
  <2> QED BY <2>2, <2>3, <2>4, <2>5, <2>6
<1>5. ASSUME NEW p \in Nat, NEW q \in Nat, p < q PROVE AtMost(s, p) <= Fewer(s, q)
  <2>1. le(p) \subseteq lt(q) /\ lt(q) \in SUBSET DOMAIN s
    BY <1>1, <1>5
  <2> HIDE DEF lt, le
  <2>2. Cardinality(le(p)) <= Cardinality(lt(q))
    BY <1>2, <2>1, FS_Subset
  <2> QED BY <2>2 DEF Fewer, AtMost, lt, le
<1> QED
  BY <1>1, <1>3, <1>4, <1>5

\* Each place of the sorted list has its path.
LEMMA PlaceHasPath ==
  ASSUME NEW s \in Seq(Nat), NEW i \in 1 .. Len(s)
  PROVE  \E p \in ToSet(s) : Fewer(s, p) < i /\ i <= AtMost(s, p)
PROOF
<1>1. /\ Len(s) \in Nat /\ DOMAIN s = 1 .. Len(s)
      /\ \A p \in Nat : Fewer(s, p) \in 0 .. Len(s) /\ AtMost(s, p) \in 0 .. Len(s)
      /\ \A p \in ToSet(s) : p \in Nat /\ Fewer(s, p) < AtMost(s, p)
      /\ \A p, q \in Nat : p < q => AtMost(s, p) <= Fewer(s, q)
  BY CountsOrdered
<1>2. s[i] \in ToSet(s) /\ ToSet(s) \in SUBSET Nat
  BY <1>1 DEF ToSet
<1>3. PICK least \in ToSet(s) : \A q \in ToSet(s) : least <= q
  BY <1>2, LeastNatural
<1>4. Fewer(s, least) = 0
  <2>1. {j \in DOMAIN s : s[j] < least} = {}
    <3>1. \A j \in DOMAIN s : s[j] \in ToSet(s)
      BY DEF ToSet
    <3>2. \A j \in DOMAIN s : s[j] \in Nat /\ least \in Nat /\ least <= s[j]
      BY <1>2, <1>3, <3>1
    <3> QED BY <3>2
  <2> QED BY <2>1, FS_EmptySet DEF Fewer
<1> DEFINE C == {p \in ToSet(s) : Fewer(s, p) < i}
           T == {i - Fewer(s, p) : p \in C}
<1>5. least \in C
  BY <1>4
<1>6. T \in SUBSET Nat /\ T # {}
  <2>1. ASSUME NEW p \in C PROVE i - Fewer(s, p) \in Nat
    <3>1. Fewer(s, p) \in Nat /\ Fewer(s, p) < i /\ i \in Nat
      <4>1. p \in Nat /\ Fewer(s, p) < i
        BY <1>2
      <4> QED BY <1>1, <4>1
    <3> HIDE DEF C
    <3> QED BY <3>1
  <2> QED BY <1>5, <2>1
<1>7. PICK p \in C : \A q \in C : i - Fewer(s, p) <= i - Fewer(s, q)
  <2>1. PICK m \in T : \A k \in T : m <= k
    BY <1>6, LeastNatural
  <2> QED BY <2>1
<1>8. p \in ToSet(s) /\ p \in Nat /\ Fewer(s, p) < i
  BY <1>2
<1>9. ASSUME ~(i <= AtMost(s, p)) PROVE FALSE
  <2> DEFINE U == {q \in ToSet(s) : p < q}
  <2>1. U # {}
    <3>1. ASSUME U = {} PROVE FALSE
      <4>1. \A j \in DOMAIN s : s[j] \in ToSet(s)
        BY DEF ToSet
      <4>2. \A j \in DOMAIN s : s[j] \in Nat /\ ~(p < s[j])
        BY <1>2, <3>1, <4>1
      <4> HIDE DEF C, U
      <4>3. \A j \in DOMAIN s : s[j] <= p
        BY <1>8, <4>2
      <4>5. {j \in DOMAIN s : s[j] <= p} = 1 .. Len(s)
        BY <1>1, <4>3
      <4>4. AtMost(s, p) = Len(s)
        BY <1>1, <4>5, IntervalSize DEF AtMost
      <4> QED BY <1>1, <1>9, <4>4
    <3> QED BY <3>1
  <2>2. PICK q \in U : \A r \in U : q <= r
    <3>1. U \in SUBSET Nat
      BY <1>2
    <3> HIDE DEF U
    <3> QED BY <2>1, <3>1, LeastNatural
  <2>3. q \in ToSet(s) /\ q \in Nat /\ p < q
    BY <1>2, <2>2
  <2>4. {j \in DOMAIN s : s[j] < q} = {j \in DOMAIN s : s[j] <= p}
    <3>1. \A j \in DOMAIN s : s[j] \in ToSet(s)
      BY DEF ToSet
    <3>2. ASSUME NEW j \in DOMAIN s PROVE s[j] < q <=> s[j] <= p
      <4>1. s[j] \in Nat /\ (p < s[j] => q <= s[j])
        BY <1>2, <2>2, <3>1
      <4> QED BY <1>8, <2>3, <4>1
    <3> QED BY <3>2
  <2>5. Fewer(s, q) = AtMost(s, p)
    BY <2>4 DEF Fewer, AtMost
  <2>6. /\ Fewer(s, p) \in Nat /\ AtMost(s, p) \in Nat /\ i \in Nat
        /\ Fewer(s, p) < AtMost(s, p)
    BY <1>1, <1>8
  <2>7. q \in C
    BY <1>9, <2>3, <2>5, <2>6
  <2>8. i - Fewer(s, p) <= i - Fewer(s, q)
    BY <1>7, <2>7
  <2> HIDE DEF C
  <2> QED BY <2>5, <2>6, <2>8
<1> QED
  BY <1>8, <1>9

\* A sorted list has the elements of the list, in order.
LEMMA SortedSorts ==
  ASSUME NEW s \in Seq(Nat)
  PROVE  /\ Sorted(s) \in Seq(Nat)
         /\ ToSet(Sorted(s)) = ToSet(s)
         /\ \A i, j \in DOMAIN Sorted(s) : i < j => Sorted(s)[i] <= Sorted(s)[j]
PROOF
<1> DEFINE t == Sorted(s)
<1>1. /\ Len(s) \in Nat /\ DOMAIN s = 1 .. Len(s)
      /\ \A p \in Nat : Fewer(s, p) \in 0 .. Len(s) /\ AtMost(s, p) \in 0 .. Len(s)
      /\ \A p \in ToSet(s) : p \in Nat /\ Fewer(s, p) < AtMost(s, p)
      /\ \A p, q \in Nat : p < q => AtMost(s, p) <= Fewer(s, q)
  BY CountsOrdered
<1>2. t = [i \in 1 .. Len(s) |->
             CHOOSE p \in ToSet(s) : Fewer(s, p) < i /\ i <= AtMost(s, p)]
  BY <1>1 DEF Sorted, Fewer, AtMost
<1> HIDE DEF t
<1>3. ASSUME NEW i \in 1 .. Len(s)
      PROVE  t[i] \in ToSet(s) /\ t[i] \in Nat /\ Fewer(s, t[i]) < i /\ i <= AtMost(s, t[i])
  <2>1. t[i] = CHOOSE p \in ToSet(s) : Fewer(s, p) < i /\ i <= AtMost(s, p)
    BY <1>2
  <2>2. \E p \in ToSet(s) : Fewer(s, p) < i /\ i <= AtMost(s, p)
    BY PlaceHasPath
  <2>3. t[i] \in ToSet(s) /\ Fewer(s, t[i]) < i /\ i <= AtMost(s, t[i])
    BY <2>1, <2>2
  <2> QED BY <1>1, <2>3
<1>4. DOMAIN t = 1 .. Len(s) /\ t = [i \in 1 .. Len(s) |-> t[i]]
  BY <1>2
<1>5. t \in Seq(Nat)
  BY <1>1, <1>3, <1>4
<1>6. ToSet(t) = ToSet(s)
  <2>1. ToSet(t) \subseteq ToSet(s)
    BY <1>3, <1>4 DEF ToSet
  <2>2. ASSUME NEW p \in ToSet(s) PROVE p \in ToSet(t)
    <3> DEFINE i == AtMost(s, p)
    <3>1. p \in Nat /\ Fewer(s, p) \in 0 .. Len(s) /\ i \in 0 .. Len(s) /\ Fewer(s, p) < i
      BY <1>1
    <3>2. i \in 1 .. Len(s)
      BY <1>1, <3>1
    <3> DEFINE q == t[i]
    <3>3. q \in Nat /\ Fewer(s, q) < i /\ i <= AtMost(s, q)
      BY <1>3, <3>2
    <3> HIDE DEF i, q
    <3>4. p < q => i <= Fewer(s, q)
      BY <1>1, <3>1, <3>3 DEF i
    <3>5. q < p => AtMost(s, q) <= Fewer(s, p)
      BY <1>1, <3>1, <3>3
    <3>6. /\ Fewer(s, q) \in Nat /\ AtMost(s, q) \in Nat /\ i \in Nat /\ Fewer(s, p) \in Nat
      BY <1>1, <3>1, <3>3
    <3>7. q = p
      BY <3>1, <3>3, <3>4, <3>5, <3>6
    <3> QED BY <1>4, <3>2, <3>7 DEF ToSet, q
  <2> QED BY <2>1, <2>2
<1>7. ASSUME NEW i \in DOMAIN t, NEW j \in DOMAIN t, i < j PROVE t[i] <= t[j]
  <2> DEFINE p == t[i]
             q == t[j]
  <2>1. i \in Nat /\ j \in Nat
    BY <1>4
  <2>2. p \in Nat /\ Fewer(s, p) < i
    BY <1>3, <1>4
  <2>3. q \in Nat /\ j <= AtMost(s, q)
    BY <1>3, <1>4
  <2> HIDE DEF p, q
  <2>4. Fewer(s, p) \in Nat /\ AtMost(s, q) \in Nat
    BY <1>1, <2>2, <2>3
  <2>5. q < p => AtMost(s, q) <= Fewer(s, p)
    BY <1>1, <2>2, <2>3
  <2>6. p <= q
    BY <1>7, <2>1, <2>2, <2>3, <2>4, <2>5
  <2> QED BY <2>6 DEF p, q
<1> QED
  BY <1>5, <1>6, <1>7 DEF t

\* Of equal neighbours one is left: what was in order is then without
\* duplicates.
LEMMA DedupSorted ==
  ASSUME NEW s \in Seq(Nat), \A i, j \in DOMAIN s : i < j => s[i] <= s[j]
  PROVE  /\ IsSequence(Dedup(s))
         /\ ToSet(Dedup(s)) = ToSet(s)
         /\ \A i, j \in DOMAIN Dedup(s) : i < j => Dedup(s)[i] < Dedup(s)[j]
PROOF
<1> DEFINE kept == {i \in DOMAIN s : i = 1 \/ s[i - 1] # s[i]}
           R == [i \in kept |-> i]
           place == Ranked(kept, R)
           d == Dedup(s)
<1>1. Len(s) \in Nat /\ DOMAIN s = 1 .. Len(s) /\ \A j \in DOMAIN s : s[j] \in Nat
  OBVIOUS
<1>2. IsFiniteSet(kept) /\ kept \in SUBSET (1 .. Len(s))
  <2>1. IsFiniteSet(1 .. Len(s)) /\ kept \in SUBSET (1 .. Len(s))
    BY <1>1, FS_Interval
  <2> HIDE DEF kept
  <2> QED BY <2>1, FS_Subset
<1>3. Ranks(R, kept) /\ \A i \in kept : R[i] = i
  <2>1. \A i \in kept : i \in Nat
    BY <1>2
  <2> HIDE DEF kept
  <2> QED BY <2>1 DEF Ranks
<1>4. d = [k \in DOMAIN place |-> s[place[k]]]
  BY DEF Dedup
<1> HIDE DEF R, d
<1>5. /\ IsSequence(place) /\ ToSet(place) = kept
      /\ \A i, j \in DOMAIN place : i < j => R[place[i]] < R[place[j]]
  <2> HIDE DEF kept
  <2> QED BY <1>2, <1>3, RankedSorts
<1> HIDE DEF place
<1>6. Len(place) \in Nat /\ DOMAIN place = 1 .. Len(place) /\ \A k \in DOMAIN place : place[k] \in kept
  BY <1>5, SequenceFacts DEF ToSet
<1>7. IsSequence(d)
  <2>1. d = [k \in 1 .. Len(place) |-> s[place[k]]]
    BY <1>4, <1>6
  <2> QED BY <1>6, <2>1, SequenceMade
<1>8. DOMAIN d = DOMAIN place /\ \A k \in DOMAIN place : d[k] = s[place[k]]
  BY <1>4
<1>9. ASSUME NEW p \in ToSet(s) PROVE p \in ToSet(d)
  <2> DEFINE T == {i \in DOMAIN s : s[i] = p}
  <2>1. T # {} /\ T \in SUBSET Nat
    BY <1>1 DEF ToSet
  <2>2. PICK i \in T : \A j \in T : i <= j
    <3> HIDE DEF T
    <3> QED BY <2>1, LeastNatural
  <2>3. i \in 1 .. Len(s) /\ s[i] = p
    BY <1>1, <2>2
  <2>4. ASSUME i # 1 PROVE s[i - 1] # s[i]
    <3>1. i - 1 \in 1 .. Len(s) /\ ~(i <= i - 1)
      BY <1>1, <2>3, <2>4
    <3>2. i - 1 \notin T
      BY <2>2, <3>1
    <3> QED BY <1>1, <2>3, <3>1, <3>2
  <2>5. i \in kept
    BY <1>1, <2>3, <2>4
  <2>6. PICK k \in DOMAIN place : place[k] = i
    BY <1>5, <2>5 DEF ToSet
  <2>7. d[k] = p
    BY <1>8, <2>3, <2>6
  <2> QED BY <1>8, <2>7 DEF ToSet
<1>10. ToSet(d) \subseteq ToSet(s)
  <2>1. \A k \in DOMAIN d : place[k] \in DOMAIN s /\ d[k] = s[place[k]]
    BY <1>6, <1>8
  <2> QED BY <2>1 DEF ToSet
<1>11. ASSUME NEW i \in DOMAIN d, NEW j \in DOMAIN d, i < j PROVE d[i] < d[j]
  <2> DEFINE x == place[i]
             y == place[j]
  <2>1. x \in kept /\ y \in kept /\ d[i] = s[x] /\ d[j] = s[y]
    BY <1>6, <1>8
  <2>2. R[x] < R[y]
    BY <1>5, <1>8, <1>11
  <2> HIDE DEF x, y
  <2>3. x < y
    BY <1>3, <2>1, <2>2
  <2>4. x \in 1 .. Len(s) /\ y \in 1 .. Len(s)
    BY <1>2, <2>1
  <2>5. y - 1 \in 1 .. Len(s) /\ y # 1 /\ (x = y - 1 \/ x < y - 1) /\ y - 1 < y
    BY <1>1, <2>3, <2>4
  <2>6. s[y - 1] # s[y]
    BY <2>1, <2>5
  <2> DEFINE a == s[x]
             b == s[y - 1]
             c == s[y]
  <2>7. a \in Nat /\ b \in Nat /\ c \in Nat /\ a <= b /\ b <= c /\ b # c
    <3>1. x \in DOMAIN s /\ y - 1 \in DOMAIN s /\ y \in DOMAIN s
      BY <1>1, <2>4, <2>5
    <3> DEFINE z == y - 1
    <3>2. z \in DOMAIN s /\ z < y /\ (x = z \/ x < z) /\ s[z] # s[y]
      BY <2>5, <2>6, <3>1
    <3> HIDE DEF z
    <3>3. s[x] \in Nat /\ s[z] \in Nat /\ s[y] \in Nat
      BY <1>1, <3>1, <3>2
    <3>4. s[z] <= s[y]
      BY <3>1, <3>2
    <3>5. s[x] <= s[z]
      <4>1. CASE x = z
        BY <3>3, <4>1
      <4>2. CASE x < z
        BY <3>1, <3>2, <4>2
      <4> QED BY <3>2, <4>1, <4>2
    <3> QED BY <3>2, <3>3, <3>4, <3>5 DEF z
  <2>8. a < c
    <3> HIDE DEF a, b, c
    <3> QED BY <2>7
  <2> QED BY <2>1, <2>8
<1> QED
  BY <1>7, <1>9, <1>10, <1>11 DEF d

\* What an action records of the files it is given.
Canonically(given, paths) ==
  /\ ToSet(paths) = {f.path : f \in ToSet(given)}
  /\ \A i, j \in DOMAIN paths : i < j => paths[i] < paths[j]

LEMMA PathsAreCanonical ==
  ASSUME NEW files, IsSequence(files), \A f \in ToSet(files) : f.path \in Nat
  PROVE  Canonically(files, Paths(files))
PROOF
<1> DEFINE given == [i \in DOMAIN files |-> as_exec_string(files[i])]
<1>1. Len(files) \in Nat /\ DOMAIN files = 1 .. Len(files)
  BY SequenceFacts
<1>2. \A i \in DOMAIN files : given[i] = files[i].path /\ files[i].path \in Nat
  BY DEF ToSet, as_exec_string
<1>3. given = [i \in 1 .. Len(files) |-> given[i]] /\ DOMAIN given = DOMAIN files
  BY <1>1
<1> HIDE DEF given
<1>4. given \in Seq(Nat)
  BY <1>1, <1>2, <1>3
<1>5. ToSet(given) = {f.path : f \in ToSet(files)}
  <2>1. ToSet(given) = {given[i] : i \in DOMAIN files}
    BY <1>3 DEF ToSet
  <2>2. {f.path : f \in ToSet(files)} = {files[i].path : i \in DOMAIN files}
    BY DEF ToSet
  <2> QED BY <1>2, <2>1, <2>2
<1>6. /\ Sorted(given) \in Seq(Nat) /\ ToSet(Sorted(given)) = ToSet(given)
      /\ \A i, j \in DOMAIN Sorted(given) : i < j => Sorted(given)[i] <= Sorted(given)[j]
  BY <1>4, SortedSorts
<1>7. Paths(files) = Dedup(Sorted(given))
  BY DEF Paths, given
<1> DEFINE t == Sorted(given)
<1> HIDE DEF t
<1>8. /\ ToSet(Dedup(t)) = ToSet(t)
      /\ \A i, j \in DOMAIN Dedup(t) : i < j => Dedup(t)[i] < Dedup(t)[j]
  BY <1>6, DedupSorted DEF t
<1> QED
  BY <1>5, <1>6, <1>7, <1>8 DEF Canonically, t

\* An action is declared with the paths of its files, and then kept.
PathsInv ==
  \A a \in ToSet(actions) :
    Canonically(a.given.inputs, a.inputs) /\ Canonically(a.given.outputs, a.outputs)

LEMMA DeclarePaths ==
  ASSUME IInv, PathsInv, NEW given, Declare(given),
         \A files \in {given.inputs, given.outputs} :
           IsSequence(files) /\ \A x \in ToSet(files) : x.path \in Nat
  PROVE  PathsInv'
PROOF
<1> DEFINE new == [argv |-> Argv(given.executable, given.arguments, builders), env |-> given.env,
                   inputs |-> Paths(given.inputs), outputs |-> Paths(given.outputs),
                   given |-> given, after |-> finished]
<1>1. actions' = Append(actions, new)
  BY DEF Declare
<1>2. new.given = given /\ new.inputs = Paths(given.inputs) /\ new.outputs = Paths(given.outputs)
  OBVIOUS
<1> HIDE DEF new
<1>3. ToSet(actions') = ToSet(actions) \cup {new}
  BY <1>1, SequenceAppend DEF IInv, Declared
<1>4. Canonically(given.inputs, new.inputs) /\ Canonically(given.outputs, new.outputs)
  BY <1>2, PathsAreCanonical
<1> QED
  BY <1>2, <1>3, <1>4 DEF PathsInv

LEMMA NextPaths == IInv /\ PathsInv /\ [Next]_vars => PathsInv'
PROOF
<1> SUFFICES ASSUME IInv, PathsInv, [Next]_vars PROVE PathsInv'
  OBVIOUS
<1>1. CASE Run
  <2>1. PICK given \in Template(Len(builders)) : Declare(given)
    BY <1>1 DEF Run
  <2>2. Len(builders) \in 0 .. MaxBuilders
    BY SequenceFacts DEF IInv, Logged
  <2>3. \A files \in {given.inputs, given.outputs} :
          IsSequence(files) /\ \A x \in ToSet(files) : x.path \in Nat
    BY <2>2, RuleActionsAssumption DEF IsSequence
  <2> QED BY <2>1, <2>3, DeclarePaths
<1>2. CASE Write
  <2>1. PICK content \in Item, output \in Output :
          Declare([executable |-> <<"write_file">>,
                   arguments |-> <<[kind |-> "text", str |-> content]>>,
                   inputs |-> <<>>, outputs |-> <<output>>, env |-> <<>>])
    BY <1>2 DEF Write
  <2>2. output.path \in Nat
    BY RuleActionsAssumption
  <2>3. \A files \in {<<>>, <<output>>} : IsSequence(files) /\ \A x \in ToSet(files) : x.path \in Nat
    <3>1. DOMAIN <<output>> = {1} /\ <<output>>[1] = output
      OBVIOUS
    <3>2. ToSet(<<output>>) = {output}
      BY <3>1 DEF ToSet
    <3> QED BY <2>2, <3>2, SequenceShort
  <2> QED BY <2>1, <2>3, DeclarePaths
<1>3. CASE NewArgs \/ MapReturns \/ Fail \/ Return \/ UNCHANGED vars
  <2>1. actions' = actions
    BY <1>3 DEF NewArgs, MapReturns, Fail, Return, vars
  <2> QED BY <2>1 DEF PathsInv
<1>4. CASE \E id \in DOMAIN builders : Add(id) \/ AddPlain(id) \/ AddMapped(id)
  <2>1. \A id \in DOMAIN builders : Add(id) \/ AddPlain(id) \/ AddMapped(id) => Calls(id)
    BY DEF Add, AddPlain, AddMapped
  <2>2. actions' = actions
    BY <1>4, <2>1 DEF Calls
  <2> QED BY <2>2 DEF PathsInv
<1> QED
  BY <1>1, <1>2, <1>3, <1>4 DEF Next

\* The inputs and outputs of an action are the paths of the files it is given,
\* each once and in order, however they were given (actions.rs:8).
THEOREM PathsKept == Spec => []PathsCanonical
PROOF
<1>1. Init => PathsInv
  BY SequenceShort DEF Init, PathsInv
<1>2. PathsInv => PathsCanonical
  <2> SUFFICES ASSUME PathsInv, NEW a \in ToSet(actions),
                      NEW files \in {[given |-> a.given.inputs, paths |-> a.inputs],
                                     [given |-> a.given.outputs, paths |-> a.outputs]}
               PROVE  Canonically(files.given, files.paths)
    BY DEF PathsCanonical, Canonically
  <2>1. \/ files.given = a.given.inputs /\ files.paths = a.inputs
        \/ files.given = a.given.outputs /\ files.paths = a.outputs
    OBVIOUS
  <2> QED BY <2>1 DEF PathsInv
<1> QED
  BY <1>1, <1>2, NextPaths, Inductive, PTL DEF Spec
===============================================================================
