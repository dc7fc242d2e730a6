----------------------------- MODULE MCRuleActions -----------------------------
(***************************************************************************)
(* Two builders, and calls nested three deep.                              *)
(***************************************************************************)
EXTENDS RuleActions

All(map_each, before_each, uniquify) ==
  [name |-> "add_all", map_each |-> map_each, before_each |-> before_each, uniquify |-> uniquify,
   format_each |-> IF map_each THEN None ELSE <<"-I", Hole>>]

MCItem == {<<"a">>}
MCValues == {<<>>, <<<<"a">>, <<"a">>>>}
MCMethod ==
  {All(TRUE, None, FALSE), All(TRUE, <<"-X">>, TRUE), All(FALSE, <<"-X">>, TRUE),
   [name |-> "add_joined", map_each |-> FALSE, uniquify |-> TRUE, format_each |-> None,
    join_with |-> <<",">>, format_joined |-> <<"L=", Hole>>]}
MCMapResult == {<<>>, <<<<"b">>, <<"a">>>>}

File(p) == [kind |-> "File", path |-> p]
Str(p) == [kind |-> "string", path |-> p]
MCOutput == {File(3)}

\* Inputs in another order, or given twice, for different arguments.
MCTemplate(n) ==
  {[executable |-> <<"a">>, arguments |-> <<[kind |-> "text", str |-> <<"b">>], [kind |-> "Args", id |-> h]>>,
    inputs |-> IF h = 1 THEN <<File(2), File(1), Str(2)>> ELSE <<File(1), File(2)>>,
    outputs |-> <<File(4), File(3)>>, env |-> <<>>] : h \in 1 .. n}
  \cup {[executable |-> <<"a">>, arguments |-> [i \in 1 .. n |-> [kind |-> "Args", id |-> i]],
          inputs |-> <<Str(1), File(1)>>, outputs |-> <<File(3)>>, env |-> [v \in {"V"} |-> "1"]]}
===============================================================================
