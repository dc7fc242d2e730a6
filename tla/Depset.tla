--------------------------------- MODULE Depset ---------------------------------
(***************************************************************************)
(* Depsets and their way from one target to the next:                      *)
(* src/src/values_depset.rs, convert_to_depset and alloc in                *)
(* src/src/convert.rs, default_info_files in src/src/eval.rs.              *)
(*                                                                         *)
(* One analysis builds depsets in its heap: a graph, whose nodes name the  *)
(* sets they are made of by their place in the heap.  A depset that an     *)
(* implementation returns is projected to a tree, the form of BzlValue,    *)
(* in which nothing is shared any more; the analysis of a dependent        *)
(* allocates that tree in its own heap.  A tree is written down as the     *)
(* heap that has its sets, each once for every way to it and after the     *)
(* ones it is made of, and so its root last.  heap is the heap of the      *)
(* analysis that runs; analyses that run at the same time share nothing.   *)
(***************************************************************************)
EXTENDS Naturals, Sequences, FiniteSets, SequencesExt

CONSTANTS
  Element,        \* the files and strings depsets hold
  OtherName,      \* an order name that DepsetOrder::parse does not know
  MaxConvertDepth,\* MAX_CONVERT_DEPTH
  MaxSets,        \* bound: calls of depset()
  MaxHeap,        \* bound: depsets in a heap
  MaxDirect,      \* bound: direct= elements
  MaxEntries,     \* bound: transitive= entries, and files of a flat list
  MaxPublished,   \* bound: targets that return their files
  Refused, None

Order == {"default", "postorder", "preorder", "topological"}

Sets == [order : Order, direct : Seq(Element), transitive : Seq(Nat)]

\* An entry of transitive= is a depset built before, which is why the
\* recursion of values_depset.rs and of convert.rs ends.
IsHeap(h) ==
  /\ h \in Seq(Sets)
  /\ \A n \in DOMAIN h : Range(h[n].transitive) \subseteq 1..n-1

ASSUME BoundAssumption ==
  {MaxConvertDepth, MaxSets, MaxHeap, MaxDirect, MaxEntries, MaxPublished} \subseteq Nat

ASSUME RefusedAssumption == Refused \notin Seq(Element) /\ Refused \notin Seq(Sets)

VARIABLES
  heap,           \* the depsets of the analysis
  answer,         \* the last to_list: [root, list]
  published,      \* DefaultInfo.files of the analysed targets:
                  \* [files, list], list being what to_list gave at home
  made            \* calls of depset() so far

vars == <<heap, answer, published, made>>

\* The values of DefaultInfo.files.
Flat(items) == [kind |-> "list", items |-> items]
Absent == [kind |-> "absent"]
Tree(tree) == [kind |-> "depset", tree |-> tree]

Nested(order, direct, transitive) ==
  [order |-> order, direct |-> direct, transitive |-> transitive]
-----------------------------------------------------------------------------
(* to_list *)

\* [mutation] Every element is pushed.
PushAll(out, e) == Append(out, e)

PushDedup(out, e) == IF e \in Range(out) THEN out ELSE Append(out, e)

\* [mutation] Direct elements and children in the wrong order.
CollectBackwards(h, directFirst) ==
  LET from[n \in DOMAIN h] ==
        LET children == FlattenSeq([k \in DOMAIN h[n].transitive |-> from[h[n].transitive[k]]])
        IN  IF directFirst THEN children \o h[n].direct ELSE h[n].direct \o children
  IN  from

\* The elements that are pushed from each set on, in the order in which they
\* are; what has been pushed before does not change the way.
Collect(h, directFirst) ==
  LET from[n \in DOMAIN h] ==
        LET children == FlattenSeq([k \in DOMAIN h[n].transitive |-> from[h[n].transitive[k]]])
        IN  IF directFirst THEN h[n].direct \o children ELSE children \o h[n].direct
  IN  from

\* The order of the root decides for every set below it.
ToListOf(h, root) ==
  IF h[root].order = "topological" THEN Refused
  ELSE FoldLeft(PushDedup, <<>>, Collect(h, h[root].order = "preorder")[root])
-----------------------------------------------------------------------------
(* The way out of one heap and into another. *)

\* The sets of a tree, their places moved up.
Moved(tree, by) ==
  [n \in DOMAIN tree |->
     [tree[n] EXCEPT !.transitive = [k \in DOMAIN @ |-> @[k] + by]]]

\* The sets of the first k trees are that many.
Offset(trees, k) == Len(FlattenSeq(SubSeq(trees, 1, k)))

Joined(trees) ==
  FlattenSeq([k \in DOMAIN trees |-> Moved(trees[k], Offset(trees, k - 1))])

\* The set over the trees of its entries.
Grafted(set, trees) ==
  Append(Joined(trees),
         Nested(set.order, set.direct, [k \in DOMAIN trees |-> Offset(trees, k)]))

\* Elements are converted one level below their set, where the depth is
\* tested; the set itself is not tested.
Projected(h) ==
  LET from[n \in DOMAIN h] ==
        [depth \in Nat |->
           LET trees == [k \in DOMAIN h[n].transitive |-> from[h[n].transitive[k]][depth + 1]]
           IN  IF \/ h[n].direct # <<>> /\ depth + 1 > MaxConvertDepth
                  \/ Refused \in Range(trees)
               THEN Refused
               ELSE Grafted(h[n], trees)]
  IN  from

\* [mutation] The order code is not restored.
AllocUnordered(h, tree) ==
  h \o [n \in DOMAIN tree |-> [Moved(tree, Len(h))[n] EXCEPT !.order = "default"]]

\* The heap with the tree in it, its root last.
Alloc(h, tree) == h \o Moved(tree, Len(h))

\* dep.files is a depset, whatever the dependency returned.
DefaultInfoFiles(h, files) ==
  CASE files.kind = "absent" -> Alloc(h, <<Nested("default", <<>>, <<>>)>>)
    [] files.kind = "list"   -> Alloc(h, <<Nested("default", files.items, <<>>)>>)
    [] files.kind = "depset" -> Alloc(h, files.tree)
-----------------------------------------------------------------------------
Init ==
  /\ heap = <<>>
  /\ answer = None
  /\ published = <<>>
  /\ made = 0

\* [mutation] Entries of transitive= are not looked at.
AllowsAny(order, transitive) == order \in Order

\* transitive= holds depsets only (0 is any other value), order= is known.
Allowed(order, transitive) ==
  /\ order \in Order
  /\ 0 \notin Range(transitive)

\* depset(direct, order = , transitive = )
Construct ==
  /\ made < MaxSets /\ Len(heap) < MaxHeap
  /\ made' = made + 1
  /\ \E order \in Order \cup {OtherName}, direct \in BoundedSeq(Element, MaxDirect),
        transitive \in BoundedSeq(0..Len(heap), MaxEntries):
       /\ Allowed(order, transitive)
       /\ heap' = Append(heap, Nested(order, direct, transitive))
  /\ answer' = None
  /\ UNCHANGED published

\* d.to_list()
ToList ==
  /\ \E root \in DOMAIN heap:
       answer' = [root |-> root, list |-> ToListOf(heap, root)]
  /\ UNCHANGED <<heap, published, made>>

\* The next analysis: an empty heap.
Start ==
  /\ heap' = <<>>
  /\ answer' = None
  /\ UNCHANGED made

\* The implementation returns DefaultInfo(files = d); a set that is refused
\* fails the target.
ReturnDepset ==
  /\ Len(published) < MaxPublished
  /\ \E root \in DOMAIN heap:
       LET tree == Projected(heap)[root][0]
       IN  published' =
             IF tree = Refused THEN published
             ELSE Append(published,
                         [files |-> Tree(tree), list |-> ToListOf(heap, root)])
  /\ Start

\* DefaultInfo(files = [...]), or none.
ReturnOther ==
  /\ Len(published) < MaxPublished
  /\ \/ \E items \in BoundedSeq(Element, MaxEntries):
          published' = Append(published,
            [files |-> Flat(items), list |-> FoldLeft(PushDedup, <<>>, items)])
     \/ published' = Append(published, [files |-> Absent, list |-> <<>>])
  /\ Start

\* The running analysis depends on an analysed target: dep.files.
Depend ==
  /\ \E p \in Range(published):
       LET grown == DefaultInfoFiles(heap, p.files)
       IN  Len(grown) <= MaxHeap /\ heap' = grown
  /\ answer' = None
  /\ UNCHANGED <<published, made>>

Next == Construct \/ ToList \/ ReturnDepset \/ ReturnOther \/ Depend

Spec == Init /\ [][Next]_vars
-----------------------------------------------------------------------------
(* Properties. *)

\* The sets that are reached from root without passing those of stop: they
\* are in every set that has the root and is left in stop only.
Reached(root, stop) ==
  {m \in DOMAIN heap :
     \A S \in SUBSET DOMAIN heap :
       /\ root \in S
       /\ \A k \in S \ stop : Range(heap[k].transitive) \subseteq S
       => m \in S}

Below(root) == Reached(root, {})

Around(root, n) == Reached(root, {n}) \ {n}

Holders(e, root) == {n \in Below(root) : e \in Range(heap[n].direct)}

PlaceIn(list, e) == CHOOSE i \in DOMAIN list : list[i] = e

Listed == answer # None /\ answer.list # Refused

\* Type correctness: depsets are made of depsets that are there.
TypeOK ==
  /\ IsHeap(heap)
  /\ answer # None => answer.root \in DOMAIN heap

\* to_list gives every element of every set it reaches, through whatever
\* diamonds, and each of them once (values_depset.rs, collect and push_dedup).
ListComplete ==
  Listed =>
    /\ Range(answer.list) = UNION {Range(heap[n].direct) : n \in Below(answer.root)}
    /\ Cardinality(Range(answer.list)) = Len(answer.list)

\* An element that one set alone holds comes after everything held below that
\* set, and in preorder before everything that is reached through it only
\* (values_depset.rs: "postorder ... transitive children first, then direct").
ListOrdered ==
  Listed =>
    LET root == answer.root
        Before(e, f) == PlaceIn(answer.list, e) < PlaceIn(answer.list, f)
    IN  \A e, f \in Range(answer.list), n \in Below(root):
          e # f /\ Holders(e, root) = {n} =>
            IF heap[root].order = "preorder"
            THEN Holders(f, root) \subseteq Below(n) \ (Around(root, n) \cup {n})
                   => Before(e, f)
            ELSE Holders(f, root) \cap (Below(n) \ {n}) # {} => Before(f, e)

\* What a dependent flattens out of dep.files is what the dependency would
\* have flattened, though the tree that crosses shares nothing and files= may
\* have been a list (convert.rs, convert_to_depset and alloc; eval.rs,
\* default_info_files).
CrossingKeepsList ==
  \A p \in Range(published):
    LET there == DefaultInfoFiles(<<>>, p.files)
    IN  ToListOf(there, Len(there)) = p.list
=============================================================================
