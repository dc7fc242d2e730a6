------------------------------ MODULE LiveModules ------------------------------
(***************************************************************************)
(* The live-module bridge under concurrent evaluation: src/src/bridge.rs   *)
(* (ModuleBridge), src/src/values_function.rs (a loaded function and its   *)
(* invoke) and the path of src/src/eval.rs through them: evaluate, which   *)
(* publishes a module and caches its frozen form, and the two readers,     *)
(* evaluate_rule and eval_build_inner.                                     *)
(*                                                                         *)
(* The engine that calls the evaluator is external: it edits texts, runs   *)
(* evaluations on several workers, keeps each module's BzlModule as a node *)
(* value, and evaluates a module again when its text or the encoding of a  *)
(* loaded BzlModule has changed (early cutoff).                            *)
(***************************************************************************)
EXTENDS BzlContent, Naturals, Sequences

CONSTANTS
  Worker,           \* the engine's threads
  Texts,            \* Texts[m]: the texts module m may be edited to
  NoValue,          \* no BzlModule: never evaluated, or evaluation failed
  NoCode,           \* never evaluated
  NoJob,            \* an idle worker
  Phases,           \* bound: the kinds of evaluation that take place
  MaxEdits,         \* bound: edits of a text
  MaxReplacements,  \* bound: replacements of the evaluator by a fresh one
  MaxCalls          \* bound: loaded-function calls in one evaluation

ASSUME LiveAssumption ==
  /\ Texts \in [Module -> SUBSET Source]
  /\ Phases \subseteq {"BridgeCtx", "ActionRegistry", "TargetRegistry"}
  /\ MaxEdits \in Nat /\ MaxReplacements \in Nat /\ MaxCalls \in Nat

VARIABLES
  source,        \* engine: the current text of each module
  value,         \* engine: the BzlModule of each module's node
  built,         \* engine: the code that value came from
  job,           \* what each worker is evaluating
  cache,         \* ModuleBridge.cache: (path, digest) -> frozen module
  edits, replacements,
  defined        \* history: every code ever cached

engine == <<source, value, built>>
vars == <<source, value, built, job, cache, edits, replacements, defined>>

(***************************************************************************)
(* An evaluation: the value in eval.extra, the code being evaluated, the   *)
(* loaded-function calls in progress, and whether evaluate() has cached    *)
(* the frozen module and only has to return.  A frame holds the code that  *)
(* runs and, as a ghost, the code its caller linked against.               *)
(***************************************************************************)
Extra == {"BridgeCtx", "ActionRegistry", "TargetRegistry"}

Start(extra, c) ==
  [extra |-> extra, code |-> c, stack |-> <<>>, calls |-> 0, cached |-> FALSE]

Frame == [want : defined, code : defined]

IsJob(j) ==
  /\ j \in [extra : Extra, code : {j.code}, stack : Seq(Frame),
            calls : 0 .. MaxCalls, cached : BOOLEAN]
  /\ IsCode(j.code, defined)

TypeOK ==
  /\ source \in [Module -> Source]
  /\ \A c \in defined : IsCode(c, defined)
  /\ DOMAIN value = Module /\ DOMAIN built = Module /\ DOMAIN job = Worker
  /\ \A m \in Module : value[m] # NoValue => IsBzlModule(value[m], defined)
  /\ \A m \in Module : built[m] # NoCode => IsCode(built[m], defined)
  /\ \A w \in Worker : job[w] # NoJob => IsJob(job[w])
  /\ cache \in [DOMAIN cache -> defined]
  /\ edits \in 0 .. MaxEdits
  /\ replacements \in 0 .. MaxReplacements

Init ==
  /\ source \in {f \in [Module -> Source] : \A m \in Module : f[m] \in Texts[m]}
  /\ value = [m \in Module |-> NoValue]
  /\ built = [m \in Module |-> NoCode]
  /\ job = [w \in Worker |-> NoJob]
  /\ cache = <<>>
  /\ edits = 0 /\ replacements = 0
  /\ defined = {}

-------------------------------------------------------------------------------
(***************************************************************************)
(* The engine (external).                                                  *)
(***************************************************************************)
Ready(m) == \A d \in Loads[source[m]] : value[d] # NoValue

LoadedFor(m) == [d \in Loads[source[m]] |-> value[d]]

UpToDate(m) ==
  /\ built[m] # NoCode
  /\ built[m].source = source[m]
  /\ \A d \in Loads[source[m]] :
       encode_bzl_value(built[m].loaded[d]) = encode_bzl_value(value[d])

Dirty(m) == Ready(m) /\ ~UpToDate(m)

Edit(m, s) ==
  /\ edits < MaxEdits
  /\ s # source[m]
  /\ source' = [source EXCEPT ![m] = s]
  /\ edits' = edits + 1
  /\ UNCHANGED <<value, built, job, cache, replacements, defined>>

\* The engine stores what evaluate() returned, or its error.
Store(w, v) ==
  LET m == job[w].code.module IN
    /\ value' = [value EXCEPT ![m] = v]
    /\ built' = [built EXCEPT ![m] = job[w].code]
    /\ UNCHANGED source

(***************************************************************************)
(* An evaluator created afresh (StarlarkEvaluator::new) takes over from    *)
(* one whose node values the engine has kept: its bridge is empty.         *)
(***************************************************************************)
Replace ==
  /\ replacements < MaxReplacements
  /\ replacements' = replacements + 1
  /\ cache' = <<>>
  /\ job' = [w \in Worker |-> NoJob]
  /\ UNCHANGED <<source, value, built, edits, defined>>

-------------------------------------------------------------------------------
(***************************************************************************)
(* The evaluator.  An evaluation begins by fixing the text, the loaded     *)
(* BzlModules and so the digest; nothing it is given changes afterwards.   *)
(***************************************************************************)
Snapshot(m) == [module |-> m, source |-> source[m], loaded |-> LoadedFor(m)]

Begin(w, m, extra) ==
  /\ job[w] = NoJob
  /\ Ready(m)
  /\ extra = "BridgeCtx" => Dirty(m)
  /\ job' = [job EXCEPT ![w] = Start(extra, Snapshot(m))]
  /\ UNCHANGED <<source, value, built, cache, edits, replacements, defined>>

Evaluating(w) == job[w] # NoJob /\ ~job[w].cached

\* The code on top of worker w's call stack.
Running(w) ==
  IF job[w].stack = <<>> THEN job[w].code
  ELSE job[w].stack[Len(job[w].stack)].code

\* Mutation: a rule evaluation that does not carry the bridge.
bridge_of_build_only == {"BridgeCtx", "TargetRegistry"}

\* bridge_of: the values of eval.extra that carry the bridge.
bridge_of == {"BridgeCtx", "ActionRegistry", "TargetRegistry"}

\* The lookup of LoadedFunctionValue.invoke succeeds.
Found(w, ref) == job[w].extra \in bridge_of /\ ref \in DOMAIN cache

\* LoadedFunctionValue.invoke: the callable is the one the bridge holds.
Invoke(w) ==
  /\ Evaluating(w)
  /\ job[w].calls < MaxCalls
  /\ \E l \in LinksOf(Running(w)) :
       /\ Found(w, l.ref)
       /\ job' = [job EXCEPT ![w].stack = Append(@, [want |-> l.code, code |-> cache[l.ref]]),
                             ![w].calls = @ + 1]
  /\ UNCHANGED <<engine, cache, edits, replacements, defined>>

\* Mutation: the outermost call of a loaded function never returns.
ReturnInner(w) ==
  /\ Evaluating(w)
  /\ Len(job[w].stack) > 1
  /\ job' = [job EXCEPT ![w].stack = SubSeq(@, 1, Len(@) - 1)]
  /\ UNCHANGED <<engine, cache, edits, replacements, defined>>

Return(w) ==
  /\ Evaluating(w)
  /\ job[w].stack # <<>>
  /\ job' = [job EXCEPT ![w].stack = SubSeq(@, 1, Len(@) - 1)]
  /\ UNCHANGED <<engine, cache, edits, replacements, defined>>

(***************************************************************************)
(* An evaluation fails: a loaded function is not in the bridge, or the     *)
(* text itself is in error.  Only evaluate() has a value to report.        *)
(***************************************************************************)
Fail(w) ==
  /\ Evaluating(w)
  /\ \/ \E l \in LinksOf(Running(w)) : job[w].calls < MaxCalls /\ ~Found(w, l.ref)
     \/ job[w].stack = <<>> /\ job[w].code.source \in Broken
  /\ IF job[w].extra = "BridgeCtx" THEN Store(w, NoValue) ELSE UNCHANGED engine
  /\ job' = [job EXCEPT ![w] = NoJob]
  /\ UNCHANGED <<cache, edits, replacements, defined>>

\* The last step of evaluate(): cache the frozen module under its key.
Insert(w) ==
  /\ Evaluating(w)
  /\ job[w].extra = "BridgeCtx"
  /\ job[w].stack = <<>>
  /\ job[w].code.source \notin Broken
  /\ LET c == job[w].code IN
       /\ cache' = [k \in DOMAIN cache \cup {CacheKey(c)} |->
                      IF k = CacheKey(c) THEN c ELSE cache[k]]
       /\ defined' = defined \cup {c}
  /\ job' = [job EXCEPT ![w].cached = TRUE]
  /\ UNCHANGED <<engine, edits, replacements>>

\* evaluate() returns its BzlModule to the engine.
Publish(w) ==
  /\ job[w] # NoJob
  /\ job[w].cached
  /\ Store(w, Exports(job[w].code))
  /\ job' = [job EXCEPT ![w] = NoJob]
  /\ UNCHANGED <<cache, edits, replacements, defined>>

\* evaluate_rule and eval_build_inner end; they leave the bridge as it was.
EndReader(w) ==
  /\ Evaluating(w)
  /\ job[w].extra # "BridgeCtx"
  /\ job[w].stack = <<>>
  /\ job[w].code.source \notin Broken
  /\ job' = [job EXCEPT ![w] = NoJob]
  /\ UNCHANGED <<engine, cache, edits, replacements, defined>>

Step(w) ==
  Invoke(w) \/ Return(w) \/ Fail(w) \/ Insert(w) \/ Publish(w) \/ EndReader(w)

Next ==
  \/ \E m \in Module : \E s \in Texts[m] : Edit(m, s)
  \/ Replace
  \/ \E w \in Worker, m \in Module, extra \in Phases : Begin(w, m, extra)
  \/ \E w \in Worker : Step(w)

Spec == Init /\ [][Next]_vars

(***************************************************************************)
(* Fairness.  A worker that has begun keeps running: Starlark has no       *)
(* unbounded loop and no recursion, and the bridge's lock is held for one  *)
(* map operation.  A dirty module is evaluated by the engine.              *)
(***************************************************************************)
Fairness ==
  /\ \A w \in Worker : WF_vars(Step(w))
  /\ \A m \in Module : SF_vars(\E w \in Worker : Begin(w, m, "BridgeCtx"))

FairSpec == Spec /\ Fairness

-------------------------------------------------------------------------------
(***************************************************************************)
(* Safety.                                                                 *)
(***************************************************************************)
(* A call of a loaded function runs the very code its caller linked        *)
(* against when it was loaded, however often any module has been edited    *)
(* and evaluated again since, and whatever the other workers do: the       *)
(* bridge never serves a stale module (bridge.rs:12-17).                   *)
NoStaleCall ==
  \A w \in Worker : job[w] # NoJob =>
    \A i \in 1 .. Len(job[w].stack) : job[w].stack[i].code = job[w].stack[i].want

(* As long as the evaluator lives, a loaded function that some evaluation  *)
(* can call is in the bridge: the module that defines it was cached before *)
(* anyone could load it (eval.rs:258-260), also when it is reached through *)
(* modules that bind it again and when its module has been edited since.   *)
AlwaysFinds ==
  replacements = 0 =>
    \A w \in Worker : job[w] # NoJob => \A l \in LinksOf(Running(w)) : Found(w, l.ref)

(* Early cutoff is sound: when the engine finds a module up to date by     *)
(* comparing encodings, the code that module is linked to is the code its  *)
(* load targets now export, so evaluating it again would change nothing    *)
(* (bridge.rs:52-56, "sound through re-exports, not just direct edits").   *)
EarlyCutoffSound ==
  \A m \in Module :
    (Ready(m) /\ UpToDate(m)) =>
       /\ built[m].loaded = LoadedFor(m)
       /\ value[m] # NoValue => value[m] = Exports(Snapshot(m))

(* An entry of the bridge never changes what it denotes: an insert under a *)
(* key that is already there, by another worker or a later evaluation,     *)
(* puts back the same module (bridge.rs:82-83, "idempotent").              *)
InsertIdempotent ==
  [][\A k \in DOMAIN cache \cap DOMAIN cache' : cache'[k] = cache[k]]_cache

(***************************************************************************)
(* Liveness.                                                               *)
(***************************************************************************)
(* Every evaluation comes to an end, by a value or by an error.            *)
EvaluationEnds == \A w \in Worker : job[w] # NoJob ~> job[w] = NoJob

(* Once the texts stop changing, evaluation reaches a state in which no    *)
(* module has to be evaluated again, however evaluations of old and new    *)
(* texts overlapped before.                                                *)
Settles == <>[](\A m \in Module : ~Dirty(m))
-------------------------------------------------------------------------------
(***************************************************************************)
(* The refinement: forget the bridge, the lookups and the ghost, and keep  *)
(* of each frame the code that runs.                                       *)
(***************************************************************************)
CodesOf(stack) == [i \in 1 .. Len(stack) |-> stack[i].code]

run == [w \in Worker |->
  IF job[w] = NoJob THEN NoJob
  ELSE [reader |-> job[w].extra # "BridgeCtx", code |-> job[w].code,
        stack |-> CodesOf(job[w].stack)]]

Linked == INSTANCE LinkedModules

(* While the evaluator lives, loading through the bridge cannot be told    *)
(* from linking directly: each call succeeds and runs the linked code, no  *)
(* evaluation fails unless its own text is in error, and exactly the       *)
(* modules whose linked code has changed are evaluated again.              *)
LinkedSpec == Linked!Spec
LinkedFairSpec == Linked!FairSpec
===============================================================================
