----------------------------- MODULE MCBuildPackage -----------------------------
(***************************************************************************)
(* BUILD texts for TLC, one for each way a text can depend on its globs.   *)
(* "*.rs" must match something; "gen/*" and "*" may be empty.  Beside the  *)
(* packages, the MODULE.bazel of the workspace is evaluated.               *)
(***************************************************************************)
EXTENDS BuildPackage, ModuleFile, TLC

MCFile == {"a.rs", "b.rs", "gen/c"}
MCGlobSpec == {"*.rs", "gen/*", "*"}
MCPattern == [g \in MCGlobSpec |-> CASE g = "*.rs" -> {"a.rs", "b.rs"}
                                     [] g = "gen/*" -> {"gen/c"}
                                     [] g = "*" -> MCFile]
MCAllowEmpty == {"gen/*", "*"}

ListOf(fs) == [kind |-> "List", all_str |-> TRUE, items |-> fs]
StrOf(x) == [kind |-> "Str", text |-> x]

Library == [bzl |-> "//:rust.bzl", name |-> "rust_library",
            attrs |-> [srcs |-> "LabelList", edition |-> "String", deps |-> "LabelList"]]

GlobCall(g) == [op |-> "glob", spec |-> g]
RuleCall(named) == [op |-> "rule", rule |-> Library, named |-> named, positional |-> FALSE]
TargetCall(named) == [op |-> "target", kind |-> "filegroup", named |-> named]
NativeCall(named) == [op |-> "native", kind |-> "alias", named |-> named]
SettingCall(named) == [op |-> "native", kind |-> "config_setting", named |-> named]
Func == [kind |-> "Function"]
Actual(x) == [name |-> StrOf(x), actual |-> StrOf(":lib")]
End == [op |-> "end"]
Fail == [op |-> "fail"]

\* The files of a glob in its sorted order.
Sorted(fs) == SelectSeq(<<"a.rs", "b.rs", "gen/c">>, LAMBDA f : f \in fs)

\* The n-th of a list of calls, then the end.
Nth(calls, n) == IF n <= Len(calls) THEN calls[n] ELSE End

\* One rule target per file of the first glob, then the calls rest.
PerFile(past, rest) ==
  IF past = <<>> THEN GlobCall("*.rs")
  ELSE Nth([i \in 1 .. Len(Sorted(past[1])) |->
              RuleCall([name |-> StrOf(Sorted(past[1])[i]),
                        srcs |-> ListOf({Sorted(past[1])[i]})])] \o rest, Len(past))

MCCallOf(t, past) ==
  LET n == Len(past) + 1
      named == [name |-> StrOf("lib"), srcs |-> ListOf(IF n > 1 THEN past[1] ELSE {})]
  IN
  CASE t = "library" ->
         Nth(<<GlobCall("*.rs"), RuleCall(named), GlobCall("gen/*"),
               TargetCall([name |-> StrOf("data"), visibility |-> ListOf({})]),
               NativeCall(Actual("it"))>>, n)
    [] t = "per_file" -> PerFile(past, <<>>)
    \* a clash only the files bring about
    [] t = "clash" -> PerFile(past, <<NativeCall(Actual("a.rs"))>>)
    \* a glob read only if another one is not empty, and only if it is
    [] t = "guarded" ->
         IF n = 2 /\ past[1] # {} THEN GlobCall("gen/*")
         ELSE IF n = 3 THEN RuleCall([name |-> StrOf("lib"), srcs |-> ListOf(past[2])])
         ELSE Nth(<<GlobCall("*")>>, n)
    [] t = "otherwise" ->
         IF n = 2 /\ past[1] = {} THEN GlobCall("*.rs") ELSE Nth(<<GlobCall("gen/*")>>, n)
    \* glob(...)[0]
    [] t = "first" ->
         IF n = 2 /\ past[1] = {} THEN Fail ELSE Nth(<<GlobCall("*"), RuleCall(named)>>, n)
    [] t = "twice" -> Nth(<<RuleCall(named), TargetCall(named)>>, n)
    [] t = "twice_native" -> Nth(<<TargetCall(named), NativeCall(Actual("lib"))>>, n)
    [] t = "twice_rule" -> Nth(<<NativeCall(Actual("lib")), RuleCall(named)>>, n)
    [] t = "no_actual" -> Nth(<<NativeCall([name |-> StrOf("it")])>>, n)
    [] t = "settings" ->
         Nth(<<SettingCall([name |-> StrOf("arm"), values |-> [kind |-> "Dict"],
                            flag_values |-> [kind |-> "None"]]),
               [op |-> "native", kind |-> "constraint_value",
                named |-> [name |-> StrOf("cpu"), constraint_setting |-> Func]],
               SettingCall([name |-> StrOf("bad"), values |-> Func])>>, n)
    [] t = "untyped" -> Nth(<<RuleCall([name |-> StrOf("lib"), edition |-> ListOf({})])>>, n)
    [] t = "configured" ->
         Nth(<<RuleCall([name |-> StrOf("lib"), deps |-> [kind |-> "Select"], tags |-> ListOf({})])>>, n)
    [] t = "unknown" -> Nth(<<RuleCall([name |-> StrOf("lib"), crate |-> StrOf("x")])>>, n)
    [] t = "nameless" -> Nth(<<RuleCall([srcs |-> ListOf({})])>>, n)
    [] t = "positional" -> Nth(<<[RuleCall(named) EXCEPT !.positional = TRUE]>>, n)
    [] t = "function" -> Nth(<<TargetCall([name |-> StrOf("f"), f |-> Func])>>, n)

MCText == {"library", "per_file", "clash", "guarded", "otherwise", "first", "twice",
           "twice_native", "twice_rule", "untyped", "configured", "unknown", "nameless",
           "positional", "function", "no_actual", "settings"}

MCModuleName == {"", "razel"}
MCToolchainArgs == {<<"//t:host">>, <<"//t:cc", "//t:host">>, <<"//t:cc", NotString>>}
MCRepoRule == {"new_local_repository", "http_archive"}
Named3(name, path, build_file) == [name |-> name, path |-> path, build_file |-> build_file]
MCRepoArgs == {[name |-> "rules", path |-> "a"], Named3("rules", "b", "//o:BUILD"),
               [name |-> "shape"], Named3("rules", "a", NotString),
               [name |-> "rules", path |-> "a", sha256 |-> "0"]}

(***************************************************************************)
(* The evaluations share no state, so that it is enough to look at a       *)
(* MODULE.bazel that is evaluated while no package is.                     *)
(***************************************************************************)
WorkspaceInit == Init /\ ModuleInit

WorkspaceNext ==
  \/ Next /\ UNCHANGED module_vars
  \/ ModuleNext /\ UNCHANGED vars

WorkspaceSpec == WorkspaceInit /\ [][WorkspaceNext]_<<vars, module_vars>>

OneAtATime ==
  (reading \/ written # <<>>) =>
    evaluations = 0 /\ edits = 0 /\ text = "library" /\ files = {}
===============================================================================
