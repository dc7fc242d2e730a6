------------------------------- MODULE ModuleFile -------------------------------
(***************************************************************************)
(* The evaluation of MODULE.bazel: src/src/module_file.rs.                 *)
(*                                                                         *)
(* A text calls three builtins, and the values one of them returns; the    *)
(* calls record into a ModuleRegistry, and what it holds when the text     *)
(* ends is the result.  A text is not fixed: each step makes any call of   *)
(* the bound, so TLC runs through every text of up to MaxModuleCalls calls.*)
(***************************************************************************)
EXTENDS Naturals, Sequences, SequencesExt

CONSTANTS
  ModuleName,     \* bound: names given to module()
  ToolchainArgs,  \* bound: arguments of register_toolchains(), as sequences
  RepoRule,       \* bound: the rules asked for by use_repo_rule()
  RepoArgs,       \* bound: keyword arguments of a repo rule, as functions
  NotString,      \* an argument that is no string
  MaxModuleCalls  \* bound: calls of a text

ASSUME ModuleFileAssumption ==
  /\ MaxModuleCalls \in Nat
  /\ \A labels \in ToolchainArgs : labels \in Seq(ToSet(labels))

VARIABLES
  reading,         \* whether a text is being evaluated
  module_registry, \* ModuleRegistry: [module_name, toolchains, repos]
  repo_rules,      \* the values use_repo_rule() has returned to the text
  module_value,    \* {} or the result of the evaluation that has ended
  written          \* history: the calls of the text

module_vars == <<reading, module_registry, repo_rules, module_value, written>>

EmptyRegistry == [module_name |-> "", toolchains |-> <<>>, repos |-> <<>>]

ModuleInit ==
  /\ reading = FALSE
  /\ module_registry = EmptyRegistry
  /\ repo_rules = {}
  /\ module_value = {}
  /\ written = <<>>

\* Mutation: the registry outlives an evaluation.
EvaluateAgain ==
  /\ ~reading
  /\ reading' = TRUE
  /\ module_value' = {}
  /\ repo_rules' = {}
  /\ written' = <<>>
  /\ UNCHANGED module_registry

evaluate_module_file ==
  /\ ~reading
  /\ reading' = TRUE
  /\ module_value' = {}
  /\ module_registry' = EmptyRegistry
  /\ repo_rules' = {}
  /\ written' = <<>>

ModuleCall(call) ==
  /\ reading
  /\ Len(written) < MaxModuleCalls
  /\ written' = Append(written, call)
  /\ UNCHANGED <<reading, module_value>>

\* module(name = ..., version = ...): the version is dropped.
module ==
  \E name \in ModuleName :
    /\ ModuleCall([op |-> "module", name |-> name])
    /\ module_registry' = [module_registry EXCEPT !.module_name = name]
    /\ UNCHANGED repo_rules

register_toolchains ==
  \E labels \in ToolchainArgs :
    /\ ModuleCall([op |-> "register_toolchains", labels |-> labels])
    /\ NotString \notin ToSet(labels)
    /\ module_registry' = [module_registry EXCEPT !.toolchains = @ \o labels]
    /\ UNCHANGED repo_rules

\* Any rule may be asked for; which one it is matters when it is called.
use_repo_rule ==
  \E rule \in RepoRule :
    /\ ModuleCall([op |-> "use_repo_rule", rule |-> rule])
    /\ repo_rules' = repo_rules \cup {rule}
    /\ UNCHANGED module_registry

RepoAccepted(rule, named) ==
  /\ rule = "new_local_repository"
  /\ \A k \in DOMAIN named : named[k] # NotString /\ k \in {"name", "path", "build_file"}
  /\ {"name", "path"} \subseteq DOMAIN named

\* A repository without a build_file brings its own.
RepoDecl(named) ==
  [name |-> named["name"], path |-> named["path"],
   build_file |-> IF "build_file" \in DOMAIN named THEN <<named["build_file"]>> ELSE <<>>]

RepoRuleValue ==
  \E rule \in repo_rules, named \in RepoArgs :
    /\ ModuleCall([op |-> "repository", rule |-> rule, named |-> named])
    /\ RepoAccepted(rule, named)
    /\ module_registry' = [module_registry EXCEPT !.repos = Append(@, RepoDecl(named))]
    /\ UNCHANGED repo_rules

Ended(value) ==
  /\ reading
  /\ reading' = FALSE
  /\ module_value' = value
  /\ UNCHANGED <<module_registry, repo_rules, written>>

EndModuleFile == Ended({module_registry})

\* A call that is rejected, a builtin that this dialect does not have, or
\* any other error: nothing is declared.
FailModuleFile == Ended({})

ModuleNext ==
  \/ evaluate_module_file \/ module \/ register_toolchains \/ use_repo_rule
  \/ RepoRuleValue \/ EndModuleFile \/ FailModuleFile

ModuleSpec == ModuleInit /\ [][ModuleNext]_module_vars

-------------------------------------------------------------------------------
CallsOf(calls, op) ==
  FlattenSeq([j \in DOMAIN calls |-> IF calls[j].op = op THEN <<calls[j]>> ELSE <<>>])

LabelsOf(registered) == [j \in DOMAIN registered |-> registered[j].labels]

Declares(repo, named) ==
  /\ repo.name = named["name"] /\ repo.path = named["path"]
  /\ repo.build_file # <<>> <=> "build_file" \in DOMAIN named
  /\ repo.build_file # <<>> => repo.build_file[1] = named["build_file"]
  /\ NotString \notin {named[k] : k \in DOMAIN named}

AsWritten(value, calls) ==
  LET names == CallsOf(calls, "module")
      registered == CallsOf(calls, "register_toolchains")
      repositories == CallsOf(calls, "repository")
  IN /\ value.module_name = IF names = <<>> THEN "" ELSE names[Len(names)].name
     /\ value.toolchains = FlattenSeq(LabelsOf(registered))
     /\ Len(value.repos) = Len(repositories)
     /\ \A j \in DOMAIN repositories : Declares(value.repos[j], repositories[j].named)
     /\ \A j \in DOMAIN calls : calls[j].op = "repository" =>
          \E k \in 1 .. (j - 1) :
            calls[k] = [op |-> "use_repo_rule", rule |-> "new_local_repository"]

(* A MODULE.bazel that evaluates declares what its calls say, all of it,   *)
(* in their order, and nothing of a text evaluated before it: the last     *)
(* module() names it, toolchains and repositories are kept as often as     *)
(* they are written, and each repository comes from a rule asked for       *)
(* before (module_file.rs:62-80, 92-111).                                  *)
DeclaredAsWritten == \A value \in module_value : AsWritten(value, written)
===============================================================================
