------------------------------ MODULE BuildPackage ------------------------------
(***************************************************************************)
(* The evaluation of a BUILD file: src/src/eval.rs (eval_build_inner and   *)
(* its entry points evaluate_build and evaluate_build_globs) with the      *)
(* TargetRegistry and the glob() builtin of src/src/globals.rs.            *)
(*                                                                         *)
(* The evaluator cannot read the package directory.  The engine's PACKAGE  *)
(* node therefore evaluates the text twice: a collect pass in which every  *)
(* glob() records its spec and returns [], and a resolved pass in which it *)
(* returns the files the node has found for that spec in between.  The     *)
(* entry point evaluate_build has no globs at all.                         *)
(***************************************************************************)
EXTENDS BuildFile

CONSTANTS
  MaxEdits,       \* bound: changes of the package directory
  MaxEvaluations  \* bound: evaluations of a text

ASSUME PackageAssumption == MaxEdits \in Nat /\ MaxEvaluations \in Nat

VARIABLES
  files,    \* engine: the package directory
  text,     \* the BUILD text being evaluated
  entry,    \* the entry point: evaluate_build or evaluate_build_globs
  pass,     \* the evaluation in progress, or how the last one ended
  seen,     \* what the calls of this pass have returned
  targets,  \* TargetRegistry.targets of this pass
  globs,    \* GlobMode::Collect: the specs recorded
  map,      \* GlobMode::Resolved: the files found for each spec
  view,     \* history: the directory the globs were resolved in
  edits, evaluations

registry == <<seen, targets, globs>>
vars == <<files, text, entry, pass, seen, targets, globs, map, view, edits, evaluations>>

Pass == {"idle", "collect", "collected", "matched", "resolved", "plain", "done", "failed"}
InPass == {"collect", "resolved", "plain"}

TypeOK ==
  /\ files \in SUBSET File
  /\ text \in Text
  /\ entry \in {"evaluate_build", "evaluate_build_globs"}
  /\ pass \in Pass
  /\ seen \in Seq(SUBSET File)
  /\ Len(targets) <= Len(seen)
  /\ globs \in Seq(GlobSpec)
  /\ DOMAIN map \subseteq GlobSpec /\ \A g \in DOMAIN map : map[g] \in SUBSET File
  /\ view \in SUBSET File
  /\ edits \in 0 .. MaxEdits
  /\ evaluations \in 0 .. MaxEvaluations

Init ==
  /\ files \in SUBSET File
  /\ text \in Text
  /\ entry = "evaluate_build_globs"
  /\ pass = "idle"
  /\ seen = <<>> /\ targets = <<>> /\ globs = <<>>
  /\ map = <<>>
  /\ view = {}
  /\ edits = 0 /\ evaluations = 0

-------------------------------------------------------------------------------
(***************************************************************************)
(* The engine (external).                                                  *)
(***************************************************************************)
Edit(F) ==
  /\ edits < MaxEdits
  /\ F # files
  /\ files' = F
  /\ edits' = edits + 1
  /\ UNCHANGED <<text, entry, pass, registry, map, view, evaluations>>

\* Each spec is matched against the directory as it is now; a spec that
\* does not allow it must not come out empty.
Resolve ==
  /\ pass = "collected"
  /\ LET specs == {globs[i] : i \in 1 .. Len(globs)} IN
       /\ map' = [g \in specs |-> Matches(g, files)]
       /\ pass' = IF \A g \in specs \ AllowEmpty : Matches(g, files) # {}
                  THEN "matched" ELSE "failed"
  /\ view' = files
  /\ seen' = <<>> /\ targets' = <<>>
  /\ UNCHANGED <<files, text, entry, globs, edits, evaluations>>

-------------------------------------------------------------------------------
(***************************************************************************)
(* A pass begins with a registry of its own.                               *)
(***************************************************************************)
\* Mutation: the resolved pass goes on with the registry of the collect pass.
FreshKeepsTargets ==
  /\ seen' = <<>>
  /\ globs' = <<>>
  /\ UNCHANGED targets

Fresh == seen' = <<>> /\ targets' = <<>> /\ globs' = <<>>

BeginCollect ==
  /\ pass \in {"idle", "done", "failed"}
  /\ evaluations < MaxEvaluations
  /\ evaluations' = evaluations + 1
  /\ text' \in Text
  /\ entry' = "evaluate_build_globs"
  /\ pass' = "collect"
  /\ map' = <<>>
  /\ Fresh
  /\ UNCHANGED <<files, view, edits>>

BeginResolved ==
  /\ pass = "matched"
  /\ pass' = "resolved"
  /\ Fresh
  /\ UNCHANGED <<files, text, entry, map, view, edits, evaluations>>

\* evaluate_build: GlobMode::Unsupported.
BeginPlain ==
  /\ pass \in {"idle", "done", "failed"}
  /\ evaluations < MaxEvaluations
  /\ evaluations' = evaluations + 1
  /\ text' \in Text
  /\ entry' = "evaluate_build"
  /\ pass' = "plain"
  /\ map' = <<>>
  /\ view' = files
  /\ Fresh
  /\ UNCHANGED <<files, edits>>

-------------------------------------------------------------------------------
Call == CallOf(text, seen)

GlobCollect ==
  /\ pass = "collect"
  /\ Call.op = "glob"
  /\ globs' = Append(globs, Call.spec)
  /\ seen' = Append(seen, {})
  /\ UNCHANGED <<files, text, entry, pass, targets, map, view, edits, evaluations>>

\* Mutation: a spec that was not collected resolves to no files.
GlobSilentlyEmpty ==
  /\ pass = "resolved"
  /\ Call.op = "glob"
  /\ seen' = Append(seen, IF Call.spec \in DOMAIN map THEN map[Call.spec] ELSE {})
  /\ UNCHANGED <<files, text, entry, pass, targets, globs, map, view, edits, evaluations>>

GlobResolved ==
  /\ pass = "resolved"
  /\ Call.op = "glob"
  /\ Call.spec \in DOMAIN map
  /\ seen' = Append(seen, map[Call.spec])
  /\ UNCHANGED <<files, text, entry, pass, targets, globs, map, view, edits, evaluations>>

Declare ==
  /\ pass \in InPass
  /\ IsDeclaration(Call)
  /\ Accepted(targets, Call)
  /\ targets' = Append(targets, Declared(Call))
  /\ seen' = Append(seen, {})
  /\ UNCHANGED <<files, text, entry, pass, globs, map, view, edits, evaluations>>

\* The collect pass hands back its specs, the other two their targets.
EndPass ==
  /\ pass \in InPass
  /\ Call.op = "end"
  /\ pass' = IF pass = "collect" THEN "collected" ELSE "done"
  /\ UNCHANGED <<files, text, entry, registry, map, view, edits, evaluations>>

(***************************************************************************)
(* A pass fails: the text itself is in error, a declaration is rejected, a *)
(* spec was not collected, or there is no globber.                         *)
(***************************************************************************)
FailPass ==
  /\ pass \in InPass
  /\ \/ Call.op = "fail"
     \/ IsDeclaration(Call) /\ ~Accepted(targets, Call)
     \/ Call.op = "glob" /\ pass = "plain"
     \/ Call.op = "glob" /\ pass = "resolved" /\ Call.spec \notin DOMAIN map
  /\ pass' = "failed"
  /\ seen' = <<>> /\ targets' = <<>>
  /\ UNCHANGED <<files, text, entry, globs, map, view, edits, evaluations>>

Next ==
  \/ \E F \in SUBSET File : Edit(F)
  \/ BeginCollect \/ BeginPlain \/ Resolve \/ BeginResolved
  \/ GlobCollect \/ GlobResolved \/ Declare \/ EndPass \/ FailPass

Spec == Init /\ [][Next]_vars

-------------------------------------------------------------------------------
(***************************************************************************)
(* Safety.                                                                 *)
(***************************************************************************)
(* What analysis relies on in a package: its names are unique, whichever   *)
(* of the three kinds of call declared them (globals.rs:541 and 682,       *)
(* values.rs:324).                                                         *)
PackageKeyed ==
  \A i, j \in 1 .. Len(targets) : targets[i].name = targets[j].name => i = j

(* A package delivered is the package one evaluation of the text would     *)
(* have declared with the directory at hand, as it was at one moment: not  *)
(* a target is lost, left over from the collect pass, or computed from the *)
(* empty lists of that pass.                                               *)
DoneIsDirect ==
  pass = "done" =>
    LET r == Evaluated(text, view) IN r.status = "done" /\ targets = r.targets

(* An evaluation with globs that fails had a reason to: the text fails by  *)
(* itself, or it does when its globs are empty, or a glob that may not be  *)
(* empty is, or it reads a glob only once another one is not empty.        *)
FailureExplained ==
  (pass = "failed" /\ entry = "evaluate_build_globs") =>
    LET direct == Evaluated(text, view)
        empty  == Evaluated(text, {})
    IN  \/ direct.status = "failed" \/ empty.status = "failed"
        \/ \E g \in empty.read \ AllowEmpty : Matches(g, view) = {}
        \/ ~(direct.read \subseteq empty.read)
-------------------------------------------------------------------------------
(***************************************************************************)
(* The refinement: the collect pass and what it recorded do not show.      *)
(***************************************************************************)
status ==
  CASE pass \in {"idle", "collect", "collected"} -> "idle"
    [] pass \in {"matched", "resolved", "plain"} -> "running"
    [] OTHER -> pass

shownSeen == IF pass \in {"collect", "collected"} THEN <<>> ELSE seen
shownTargets == IF pass \in {"collect", "collected"} THEN <<>> ELSE targets

Direct == INSTANCE DirectPackage WITH seen <- shownSeen, targets <- shownTargets

(* The two passes implement a single evaluation with the directory at hand *)
(* that may give up: nothing of the first pass can be seen in its outcome. *)
DirectSpec == Direct!Spec
===============================================================================
