------------------------------ MODULE MCBzlExport ------------------------------
(***************************************************************************)
(* A library, a module that loads it, and one that loads both.  A program  *)
(* is about functions, about rules, about providers, or about data.        *)
(***************************************************************************)
EXTENDS BzlExport, TLC

CONSTANTS pub1, pub2, priv

MCModule == {"lib", "mid", "top"}
MCLoads == [m \in MCModule |-> CASE m = "lib" -> {}
                                 [] m = "mid" -> {"lib"}
                                 [] m = "top" -> {"lib", "mid"}]
MCName == {pub1, pub2, priv}
MCPrivate == {priv}

MCRepertoires == {{"def", "assign", "struct"},
                  {"builtin", "assign"},
                  {"rule", "assign"},
                  {"rule", "def", "call"},
                  {"provider", "assign"},
                  {"provider", "nameless"},
                  {"data"}}

MCCondition == {"//c:linux", "//c:default"}
Select(linux, default) ==
  [kind |-> "select", conditions |-> [c \in MCCondition |-> IF c = "//c:linux" THEN linux ELSE default]]
List(items) == [kind |-> "list", items |-> items]
MCLiterals == [m \in MCModule |->
  CASE m = "lib" -> {Select(<<"l">>, <<>>)}
    [] m = "mid" -> {List(<<"b">>), [kind |-> "marker", of |-> "aspect", detail |-> "a"]}
    [] m = "top" -> {[kind |-> "opaque"]}]
NoLiterals == [m \in MCModule |-> {}]

Twins == Permutations({pub1, pub2})
===============================================================================
