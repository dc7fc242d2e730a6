------------------------------- MODULE ActionArgs -------------------------------
(***************************************************************************)
(* What a call of an Args method adds to its builder, and the argv that    *)
(* ctx.actions.run makes of its arguments: src/src/values_args.rs and      *)
(* src/src/actions.rs, without the state.                                  *)
(*                                                                         *)
(* A string is a sequence of symbols, one of which stands for "%s".  In a  *)
(* builder and in an argv it is tagged with the call that it comes from,   *)
(* which no code reads.                                                    *)
(***************************************************************************)
EXTENDS Naturals, Sequences, SequencesExt, Ordering

CONSTANTS
  Hole,  \* "%s"
  None   \* an argument that is not given

apply_format(template, s) ==
  IF template = None THEN s
  ELSE FlattenSeq([i \in DOMAIN template |-> IF template[i] = Hole THEN s ELSE <<template[i]>>])

\* A set of the strings seen says which are new.
Keep(kept, s) == IF s \in ToSet(kept) THEN kept ELSE Append(kept, s)

Uniquified(strs) == FoldLeft(Keep, <<>>, strs)

Joined(strs, separator) ==
  FlattenSeq([i \in DOMAIN strs |-> IF i = 1 THEN strs[i] ELSE separator \o strs[i]])

\* resolve_items, once map_each has given its strings.
Resolved(method, strs) ==
  LET formatted == [i \in DOMAIN strs |-> apply_format(method.format_each, strs[i])] IN
    IF method.uniquify THEN Uniquified(formatted) ELSE formatted

WithBefore(method, strs) ==
  IF method.before_each = None THEN strs
  ELSE FlattenSeq([i \in DOMAIN strs |-> <<method.before_each, strs[i]>>])

\* Mutation: the literal is inserted before duplicates are dropped.
ContributionFlagsFirst(method, strs) ==
  LET formatted == [i \in DOMAIN strs |-> apply_format(method.format_each, strs[i])]
      flagged == WithBefore(method, formatted)
  IN IF method.name = "add_all"
     THEN IF method.uniquify THEN Uniquified(flagged) ELSE flagged
     ELSE IF strs = <<>> THEN <<>>
     ELSE <<apply_format(method.format_joined, Joined(Resolved(method, strs), method.join_with))>>

\* The strings that add_all and add_joined push.
Contribution(method, strs) ==
  LET items == Resolved(method, strs) IN
    IF method.name = "add_all" THEN WithBefore(method, items)
    ELSE IF items = <<>> THEN <<>>
    ELSE <<apply_format(method.format_joined, Joined(items, method.join_with))>>

Tagged(call, strs) == [i \in DOMAIN strs |-> [str |-> strs[i], call |-> call]]

\* The executable, then the arguments in order: an Args gives its strings.
Argv(executable, arguments, builders) ==
  Tagged(0, <<executable>>) \o
  FlattenSeq([i \in DOMAIN arguments |->
    IF arguments[i].kind = "Args" THEN builders[arguments[i].id]
    ELSE Tagged(0, <<arguments[i].str>>)])

(***************************************************************************)
(* The inputs and outputs of an action are paths.  A path is a number, its *)
(* place in the order of paths; a depset counts as its list (Depset).      *)
(***************************************************************************)
as_exec_string(file) == file.path  \* a File has one, a string is one

\* What stands at place i has fewer than i smaller elements, and with its
\* equals at least i that are not greater.
Sorted(paths) ==
  [i \in DOMAIN paths |-> CHOOSE p \in ToSet(paths) :
     /\ Cardinality({j \in DOMAIN paths : paths[j] < p}) < i
     /\ i <= Cardinality({j \in DOMAIN paths : paths[j] <= p})]

\* Vec::dedup: of equal neighbours the first is kept.
Dedup(paths) ==
  LET kept == {i \in DOMAIN paths : i = 1 \/ paths[i - 1] # paths[i]}
      place == Ranked(kept, [i \in kept |-> i])
  IN [k \in DOMAIN place |-> paths[place[k]]]

\* Mutation: duplicates are dropped before the paths are sorted.
PathsDedupFirst(files) == Sorted(Dedup([i \in DOMAIN files |-> as_exec_string(files[i])]))

Paths(files) == Dedup(Sorted([i \in DOMAIN files |-> as_exec_string(files[i])]))
===============================================================================
