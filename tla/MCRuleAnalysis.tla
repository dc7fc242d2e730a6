---------------------------- MODULE MCRuleAnalysis ----------------------------
(***************************************************************************)
(* A library, a library that depends on it, and an application of another  *)
(* rule that depends on either or both, in an order of its own, and asks   *)
(* for a toolchain; a target of a rule whose module does not evaluate.     *)
(***************************************************************************)
EXTENDS RuleAnalysis, TLC

CONSTANT Names  \* Names[v]: the name given to the provider bound to v

Declared(module, var) == [id |-> Names[var], bzl |-> module, var |-> var]
A == Declared("lib.bzl", "A")
B == Declared("lib.bzl", "B")
Builtin(name) == [id |-> name, bzl |-> "", var |-> name]

NamesGiven == [v \in {"A", "B"} |-> v]
NamesAbsent == [v \in {"A", "B"} |-> ""]

MCDefaultInfo == Builtin("DefaultInfo")
MCToolchainInfo == Builtin("ToolchainInfo")
MCRank == [x \in {A.id, B.id, "DefaultInfo", "ToolchainInfo"} |->
             CASE x = "DefaultInfo" -> 2 [] x = "ToolchainInfo" -> 3
               [] x = B.id -> 1 [] x = A.id -> 0]

Bool(b) == [kind |-> "bool", val |-> b]
Str(item) == [kind |-> "str", item |-> item]
List(items) == [kind |-> "list", items |-> items]
Strs(texts) == List([i \in DOMAIN texts |-> Str(texts[i])])
LabelValue(text) == [kind |-> "Label", text |-> text]
P(p) == [kind |-> "provider", p |-> p]
NoneValue == [kind |-> "None"]

Attr(ctor, kw) == [ctor |-> ctor, kw |-> kw, loaded |-> FALSE]
Loaded(ctor, kw) == [ctor |-> ctor, kw |-> kw, loaded |-> TRUE]
Type(kind, text) == [kind |-> kind, text |-> text]
RuleCall(attrs, toolchains) ==
  [implementation |-> TRUE, attrs |-> attrs, toolchains |-> toolchains]

MCDefinition ==
  ("library" :> RuleCall("deps" :> Attr("label_list", <<>>), <<>>)) @@
  ("app" :> RuleCall(
     ("deps" :> Loaded("label_list", ("mandatory" :> Bool(TRUE)) @@ ("allow_files" :> Bool(FALSE))
                          @@ ("providers" :> List(<<List(<<P(A)>>), P(B)>>)))) @@
     ("edition" :> Loaded("string", ("default" :> Str("2021")) @@ ("mandatory" :> Str("yes")))) @@
     ("features" :> Attr("string_list", "default" :> Strs(<<"std">>))) @@
     ("level" :> Attr("int", "providers" :> NoneValue)) @@
     ("srcs" :> Loaded("label_list", "allow_files" :> List(<<Str(".rs")>>))),
     <<Type("Label", "//t:rust"), Type("str", "//t:rust"), Type("toolchain_type", "//t:cc")>>)) @@
  ("broken" :> RuleCall("deps" :> Attr("label_list", "allow_files" :> NoneValue), <<>>))

MCAttrOrder == <<"deps", "edition", "features", "level", "srcs">>
MCTypeOrder == <<"//t:cc", "//t:rust">>
MCVisible == [r \in {"library", "app", "broken"} |-> {A, B}]

MCTarget == {"base", "mid", "top", "odd"}
MCRuleOf == [t \in MCTarget |->
               CASE t = "top" -> "app" [] t = "odd" -> "broken" [] OTHER -> "library"]

MCInputs == [t \in MCTarget |->
  CASE t \in {"base", "odd"} -> {<<>>}
    [] t = "mid" -> {("deps" :> Strs(<<"base">>)), ("deps" :> Strs(<<"top", "base">>)),
                     ("deps" :> Str("absent"))}
    [] t = "top" -> {<<>>, ("deps" :> Str("mid")),
                     ("deps" :> Strs(<<"mid", "base">>)) @@ ("srcs" :> Strs(<<"s.rs">>))
                       @@ ("edition" :> Str("2024")),
                     ("deps" :> Strs(<<"base">>)) @@ ("srcs" :> Str("s.txt")),
                     ("deps" :> List(<<LabelValue("mid"), Str("base")>>)) @@ ("features" :> Strs(<<"net">>)),
                     ("deps" :> Strs(<<>>)) @@ ("level" :> Str("1"))}]

MCEndsWith == ("s.rs" :> {".rs"}) @@ ("s.txt" :> {})
MCTool == ("//t:rust" :> "mid") @@ ("//t:cc" :> "base")

\* An implementation reads its dependencies, up to three times, or looks at its
\* toolchains: neither has any effect on the other.
OneInterest ==
  job # None => Cardinality(job.read) <= 3 /\ (job.read = {} \/ job.looked = {})
===============================================================================
