------------------------------- MODULE DataValues -------------------------------
(***************************************************************************)
(* Data: select() and its concatenation with + (src/src/values.rs), and    *)
(* the projection of data to codec values and back (src/src/convert.rs).   *)
(*                                                                         *)
(* A live value is a record with a kind: "list" with its items, "Label"    *)
(* with its text, "marker" (an aspect or transition, which nothing here    *)
(* runs) with what it is of, "select" with its conditions, "selector_list" *)
(* with its arms, and "opaque" for kinds that cannot cross.  Tuples and    *)
(* dicts cross like lists, item by item; structs are BzlExport's.          *)
(***************************************************************************)
EXTENDS Naturals, Sequences, SequencesExt

CONSTANT Condition  \* the configurations a select tells apart

\* A value that is no concatenation, such as the text of a module has.
IsSimple(v) ==
  \/ v.kind = "list" /\ v.items \in Seq(ToSet(v.items))
  \/ v.kind = "select" /\ \A c \in DOMAIN v.conditions : v.conditions[c] \in Seq(ToSet(v.conditions[c]))
  \/ v.kind = "marker" /\ v = [kind |-> "marker", of |-> v.of, detail |-> v.detail]
  \/ v.kind \in {"Label", "opaque"}

Selects(v) == v.kind \in {"select", "selector_list"}

\* The operand of a concatenation, as arms: a concatenation is flattened.
Spliced(v) == IF v.kind = "selector_list" THEN v.arms ELSE <<v>>

\* x + y where x is no select, but y is.
\* Mutation: the operand on the left goes to the end.
RaddAppends(y, x) == [kind |-> "selector_list", arms |-> Spliced(y) \o Spliced(x)]

radd(y, x) == [kind |-> "selector_list", arms |-> Spliced(x) \o Spliced(y)]

add(x, y) == [kind |-> "selector_list", arms |-> Spliced(x) \o Spliced(y)]

\* Anything may be concatenated with a select; a list also with a list.
CanAdd(x, y) == Selects(x) \/ Selects(y) \/ {x.kind, y.kind} = {"list"}

Add(x, y) ==
  CASE Selects(x) -> add(x, y)
    [] ~Selects(x) /\ Selects(y) -> radd(y, x)
    [] OTHER -> [kind |-> "list", items |-> x.items \o y.items]

-------------------------------------------------------------------------------
(***************************************************************************)
(* convert and alloc.  A select crosses unresolved, as a sequence of arms; *)
(* a marker as a struct of two reserved fields, by which it is recognized. *)
(***************************************************************************)
Sentinel == {"_razel_deferred_marker_kind", "_razel_deferred_marker_detail"}

ConvertData(v) ==
  CASE v.kind = "select" -> [kind |-> "Select", arms |-> <<v>>]
    [] v.kind = "selector_list" -> [kind |-> "Select", arms |-> v.arms]
    [] v.kind = "marker" ->
         [kind |-> "Struct", fields |-> [f \in Sentinel |->
            IF f = "_razel_deferred_marker_kind" THEN v.of ELSE v.detail]]
    [] OTHER -> v

IsMarker(v) == v.kind = "Struct" /\ DOMAIN v.fields = Sentinel

IsBranch(arms) == Len(arms) = 1 /\ arms[1].kind = "select"

AllocData(v) ==
  CASE v.kind = "Select" /\ IsBranch(v.arms) -> v.arms[1]
    [] v.kind = "Select" /\ ~IsBranch(v.arms) -> [kind |-> "selector_list", arms |-> v.arms]
    [] IsMarker(v) ->
         [kind |-> "marker", of |-> v.fields["_razel_deferred_marker_kind"],
          detail |-> v.fields["_razel_deferred_marker_detail"]]
    [] OTHER -> v

\* How far below a value the projection goes.
DataDepth(v) ==
  CASE v.kind = "list" -> 1
    [] Selects(v) -> 2
    [] OTHER -> 0

\* What analysis makes of a live value in one configuration: the arms are
\* resolved one by one, and joined.
Chosen(v, c) ==
  CASE v.kind = "list" -> v.items
    [] v.kind = "select" -> IF c \in DOMAIN v.conditions THEN v.conditions[c] ELSE <<"no match">>
    [] OTHER -> <<v>>

Resolved(v, c) ==
  IF v.kind = "selector_list" THEN FlattenSeq([i \in DOMAIN v.arms |-> Chosen(v.arms[i], c)])
  ELSE Chosen(v, c)
===============================================================================
