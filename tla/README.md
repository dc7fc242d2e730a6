# razel-bzl-starlark in TLA+

`razel-bzl-starlark` evaluates Bazel's Starlark files for the razel build
engine: it implements the trait `BzlEvaluator` over the interpreter
starlark-rust.  The engine calls it for four things:

* `evaluate` turns the text of a `.bzl` module, with the modules it loads
  already evaluated, into a `BzlModule`: constants, rules, providers and
  references to functions, in a form that has no live Starlark value in it;
* `evaluate_build` and `evaluate_build_globs` turn a BUILD text into target
  declarations;
* `evaluate_rule` runs the implementation of a rule on one target and returns
  provider instances and actions;
* `evaluate_module_file` reads a MODULE.bazel.

This directory holds the TLA+ modules of these evaluations, the configurations
TLC checks them under, and proofs checked by TLAPS.  To check one
configuration: `tlc -workers 2 -config live.cfg MCLiveModules.tla`; the
module that goes with a configuration is in the tables below.  To check the
proofs of a module: `tlapm LiveModulesProofs.tla`.

## 1. Inventory

All paths are under `src/src/`.

### Components, their state and their operations

| Component | Source | State | Operations |
|---|---|---|---|
| Live-module bridge | `bridge.rs`, `values_function.rs`, `lib.rs` | one map from (path, digest) to a frozen module, behind a mutex, shared by all threads | `defining_digest`, `insert`, `get`, `bridge_of`, `LoadedFunctionValue::invoke` |
| Export and load boundary | `eval.rs` (`evaluate`), `convert.rs`, `values.rs` | the bindings of one module, what of them is exported, the provider index | definitions, `load`, the export loop, `convert`, `alloc`, `index_providers` |
| BUILD evaluation | `eval.rs` (`eval_build_inner`), `globals.rs`, `values.rs` | `TargetRegistry`: targets of the pass, the mode of `glob()` | `target()`, native declarations, rule calls, `glob()` |
| Rule analysis | `eval.rs` (`evaluate_rule`), `values_target.rs` | the attributes of `ctx` built so far; the published instances of each target | building an attribute, `t[Provider]`, returning providers |
| Actions | `actions.rs`, `values_args.rs` | `ActionRegistry`: actions, and the strings of every `Args` builder | `args()`, `add`, `add_all`, `add_joined`, `run`, `write` |
| Depsets | `values_depset.rs`, `convert.rs`, `eval.rs` | graphs of depsets in one heap; their projections | `depset()`, `to_list()`, projection, re-allocation, `dep.files` |
| Expansion | `values_ctx.rs` | a scanner over one string | `expand_location`, `expand_make_variables` |
| Phase environments | `envs.rs`, `eval.rs` | static tables, one identity per table | selection by load kind and dialect |
| Schemas | `globals.rs`, `values.rs` | the schema a rule is made with, attribute by attribute | `rule()`, `attr.*` |
| Plain values | `convert.rs`, `values_label.rs`, `values_file.rs`, `globals_def.rs` | none | conversion of lists, dicts, labels, files, markers |
| `select()` | `values.rs` | the arms of an unresolved selection | `select()`, `+` on either side |
| `ctx.toolchains`, scalar fields of `ctx` | `values_ctx.rs`, `eval.rs` | the `ToolchainInfo` of each toolchain type of the rule | lookup, membership |
| MODULE.bazel | `module_file.rs` | `ModuleRegistry` | `module()`, `register_toolchains()`, `use_repo_rule()` and the rule it returns |

Outside the repository, and modelled only as far as this code relies on them:
the engine (nodes and their memoised values, worker threads, early cutoff, the
PACKAGE node that resolves globs, the order of analysis) and starlark-rust.

A remark on the sources: `values_select.rs` is a second copy of lines 338-463
of `values.rs`.  `lib.rs` declares no module of that name, and the comment at
`values.rs:343` says why the code was kept in `values.rs`; `globals.rs:72`
nevertheless refers to `crate::values_select`.

### How they interact

Calls go one way: the engine calls the evaluator, the evaluator calls the
interpreter, the interpreter calls the builtins.  Builtins cannot capture
state; they find theirs in `eval.extra`, which holds one of `BridgeCtx`
(module evaluation), `TargetRegistry` (BUILD files), `ActionRegistry` (rules)
or `ModuleRegistry` (MODULE.bazel).  `bridge_of` digs the bridge out of the
first three.  Two evaluations share nothing but the bridge; all else that
passes from one to another is a value the engine keeps: a `BzlModule`, target
declarations, provider instances.

A function never crosses as a body.  `convert` stamps it with its module's path
and digest, `alloc` makes a `LoadedFunctionValue` of the stamp, and a call of
that value looks the frozen module up in the bridge and the symbol up in the
module.  This is where the code can go wrong in ways no single evaluation
shows: the digest must identify what the function was linked to, every module
must be in the bridge before anyone can call into it, and the engine's early
cutoff must not hide a change that the digest hides.

### What is hard

* **Interleaving.** Evaluations of several modules, and of several texts of one
  module, overlap on the engine's threads around one shared cache.  Inside one
  evaluation, `add_all(map_each = f)` calls back into Starlark in the middle of
  an operation on a builder.
* **Staleness.** A loaded function is called long after it was loaded, when its
  module may have been edited and evaluated again.  The PACKAGE node evaluates
  a BUILD text twice, and between the passes the directory is read.
* **Identity.** A rule or a provider is recognised by a name that `evaluate`
  puts on it when the module ends; a value that is renamed, wrapped or
  re-exported must still lead to its definition.
* **Partial failure.** A BUILD text fails in the pass in which globs return
  nothing; a target fails and its dependents must not be analysed as if it had
  succeeded; an evaluator is replaced by a fresh one whose bridge is empty.
* **Limits.** The conversion depth, the `add_all` options that interact
  (duplicates removed before flags are inserted), strings scanned by bytes.

Nothing is persisted by this crate, it sends no messages, has no timeouts and
does not retry, so there are no properties about these.

### What makes each component correct

| Component | Correct when |
|---|---|
| Bridge | a loaded function that is called is found, and is the code its loader was given; early cutoff never keeps a module whose linked code has changed; everything settles |
| Export and load | an exported reference resolves to the function that was exported; the origin of a rule leads to its definition; two declarations never share an identity |
| BUILD evaluation | the two passes give what one evaluation over one directory would give, or an error with a reason in the text; the names in a package are unique |
| Rule analysis | every label of an attribute arrives as a target with exactly the instances that were published; required providers are there; an attribute that is not given has the value its declaration says; a toolchain type the rule names is found under that name, however it is written; the result does not depend on the order of the returned list |
| Actions | an argv is a sequence of whole calls, in the order they returned, as of the moment `run` was called; an action does not depend on how its files were given |
| Depsets | a list has every element once, children before parents, on both sides of a target boundary |
| `select()` | a concatenation takes, in every configuration, the values of its operands in the order they are written in |
| MODULE.bazel | a text that evaluates declares what its calls say, and nothing of another text |
| Expansion | nothing that is not understood passes through; everything else comes out as written |

## 2. Plan

The modules are ordered by what the rest of the system rests on.  A state
machine has its parameters as CONSTANTS with a named assumption; modules with
theorems use no RECURSIVE operator.

| Step | Modules | State |
|---|---|---|
| 1 | BzlContent, LinkedModules (abstract), LiveModules, MCLiveModules, LiveModulesProofs | checked and proved |
| 2 | BuildFile, DirectPackage (abstract), BuildPackage, MCBuildPackage, BuildPackageProofs | checked and proved |
| 3 | BzlExport, DataValues, MCBzlExport, BzlExportProofs | checked and proved |
| 4 | AttrSchema, Ordering, RuleAnalysis, MCRuleAnalysis, RuleAnalysisProofs | checked and proved |
| 5 | ActionArgs, ActionLog (abstract), RuleActions, MCRuleActions, RuleActionsProofs | checked and proved |
| 6 | CtxExpand, MCCtxExpand, CtxExpandProofs | checked and proved |
| 7 | Depset, MCDepset, DepsetProofs | checked and proved |
| 8 | ModuleFile, composed with BuildPackage in MCBuildPackage | checked and proved (in BuildPackageProofs) |
| 9 | composition: LiveModules with BzlExport, so that one reference per module (below) becomes one per function; RuleAnalysis with Depset and RuleActions | to be written |

A module for the phase environments was planned and dropped: see section 6.

Every invariant that a run checks, and every refinement but the one under
fairness, is a theorem of section 5; what a composition of step 9 adds would be
the next to prove.

## 3. The modules and the code

### Loaded functions: BzlContent, LinkedModules, LiveModules

`BzlContent` says what a module is to the evaluator.  A *code* is one evaluated
module: path, text, and for each `load()` the `BzlModule` it was given.
`defining_digest`, `CacheKey` and the conversion of functions are operators on
codes.  Each reference carries, as a ghost, the code it was stamped in; no
operator that stands for code of the evaluator reads it.

`LiveModules` is the machine.

| TLA+ | Code |
|---|---|
| `cache`, `Insert`, `Found` | `ModuleBridge.cache`, `insert`, `get` |
| `job[w]` | an evaluation on thread `w`: what is in `eval.extra`, the code it was begun with, its calls of loaded functions, and whether `evaluate` has cached the module and not yet returned |
| `Begin` | the entry of `evaluate`, `evaluate_rule` or `eval_build_inner`, where text and loads are fixed |
| `Invoke`, `Return` | `LoadedFunctionValue::invoke`: `bridge_of`, `get`, the call |
| `Fail`, `Publish`, `EndReader` | the ways an evaluation ends |
| `source`, `value`, `built`, `Dirty`, `Edit`, `Replace` | the engine: texts, node values, early cutoff, a fresh evaluator |

`Insert` and `Publish` are two steps because other threads run between the
insertion into the map and the moment the engine sees the result.

`LinkedModules` is the promise: no bridge, no digest, no reference.  A call
always succeeds and runs the code the loader was given.  `LinkedSpec` and
`LinkedFairSpec` state that LiveModules implements it.

### Packages: BuildFile, DirectPackage, BuildPackage

A text is a function from what its globs have returned to its next call
(`CallOf`), so that a text can depend on its globs in every way a BUILD file
can.  `BuildFile` holds what a declaration accepts: the shapes of attributes,
names and duplicates, the native declarations and their signatures.
`BuildPackage` is `eval_build_inner` with the registry: `GlobCollect`,
`GlobResolved`, `Declare`, `EndPass`, `FailPass`; `Edit` and `Resolve` are the
package directory and the PACKAGE node.  `DirectPackage` evaluates the text
once, over the directory at one moment, and may give up.  `Evaluated` is what
that evaluation comes to: `After(t, F)` is its state after each number of calls,
one `Stepped` after the other, up to `MaxCalls`; every text of the model ends
within them.

### The load boundary: BzlExport, DataValues

A module is a sequence of statements (`Def`, `DefRule`, `DefProvider`, `Literal`,
`Plus`, `Load`, `Assign`, `Struct`, `Field`, `Call`) and an end (`Export`, or a
rejection: two providers of one name, or a value that has no codec form or is
nested too deeply).
`Convert`, `Alloc` and `Stamped` are what happens to a value on its way out of
a module and into the next.  A provider is an object as well as a declaration:
an evaluation has one for each binding that a module it loads exports, so two
names loaded from one binding are one object (`Load`, `Alloc`).  TLC runs every program of the given length made of
the statements of one `repertoire`.  `RefsResolve` and `OriginFound` name the
statements after which they do not hold.

`DataValues` has the values that are not looked up by name.  `add` and `radd`
are the two halves of `+` on a select, `Spliced` the flattening
(`splice_arm`), `ConvertData` and `AllocData` the two ways across the boundary,
where a select becomes a sequence of arms and a deferred marker a struct with
two reserved fields.  The value carries, as a ghost, the literals it was put
together from; `Resolved`, the engine's choice in one configuration, is what
`DataMeansWritten` compares.

### Targets: AttrSchema, RuleAnalysis

`AttrSchema` is the construction of a schema: the arguments of an `attr.*` call
become a declaration, which may cross a load, `rule()` collects them into the
schema, and an attribute that is not given takes the value its declaration has
for it.  `Ordering` lays a set out in order, for the schema here and for the
paths of an action.  RuleAnalysis has no schema of its own: a rule is the list of calls
(`Definition`) it was made with.

`Begin` checks mandatory attributes, `BuildAttr` builds one attribute of `ctx`
in the order of names, `BuildToolchains` resolves the toolchain types of the
rule, `HasToolchain` and `ReadToolchain` are `in ctx.toolchains` and
`ctx.toolchains[k]`, `ReadDep` is `t[P]`, `Return` checks for conflicts and
publishes sorted.  What an implementation returns is any list of instances of
the providers it can see.

### Actions: ActionArgs, ActionLog, RuleActions

`ActionArgs` holds the pure part: what the options of `add_all` and
`add_joined` make of a list of strings.  `RuleActions` has the builders and the
stack of calls that wait for their `map_each`: `AddMapped` begins one,
`MapReturns` takes its next string, and only the last one pushes to the
builder.  Meanwhile any other action may run.  `Declare` is what `run` and
`write` share: the argv of `Argv`, the files of `Paths`.  `ActionLog` is the promise of
the projection comment in `values_args.rs`: a builder is a log of whole calls,
an action a copy of a prefix.

### MODULE.bazel: ModuleFile

One action per builtin of the dialect, and one for the call of what
`use_repo_rule()` has returned (`RepoRuleValue`).  A text is any sequence of
calls.  `Ended` is the result: the registry, or an error.  It runs beside
BuildPackage in MCBuildPackage, as the two workspace evaluations; they share no
state.

### Depset and CtxExpand

`Depset` has one heap, the analysis that runs: a sequence of sets, each naming
the ones it is made of by their places below its own.  `Collect` gives for each
set the elements the traversal pushes from there on, with repetitions; nothing
that was pushed before changes the way, so `ToListOf` pushes them one by one
afterwards (`push_dedup`).  A tree, in which nothing is shared any more, is
written as a heap too, the sets in the order `alloc` makes them in and the root
last: `ReturnDepset` projects a set to its tree (`convert_to_depset`), `Grafted`
being the set over the trees of its entries, and `Depend` puts the tree behind
another heap (`default_info_files`).  `Reached` is the set of sets below a root,
or of those met without passing a given one, said without following the
traversal.  `CtxExpand` has one action
per way round the scanner's loop, over bytes, with a character outside ASCII
encoded in two.  `MeaningFrom` reads the same text character by character, from
each place on, and knows nothing of the scanner.

## 4. The runs

All runs finish.  `CHECK_DEADLOCK FALSE` stands wherever a bound, or the end of
a program, leaves nothing to do.

| Run (cfg) | Module | Properties | What it shows |
|---|---|---|---|
| `live` | MCLiveModules | TypeOK, NoStaleCall, AlwaysFinds, EarlyCutoffSound, InsertIdempotent | three modules, two threads, two edits, a reader, a fresh evaluator: a call finds its function and runs what was linked, and early cutoff keeps a module only if nothing it is linked to has changed |
| `live_progress` | MCLiveModules | EvaluationEnds, Settles, LinkedSpec, LinkedFairSpec | liveness, and that LiveModules implements LinkedModules, with fairness as well |
| `package` | MCBuildPackage | TypeOK, PackageKeyed, DoneIsDirect, FailureExplained, DirectSpec, DeclaredAsWritten | 17 texts, each another way to depend on globs or to be wrong; every MODULE.bazel of five calls |
| `export` | MCBzlExport | TypeOK, RefsResolve, OriginFound, ProvidersApart, DataMeansWritten | every program of two statements a module: with functions, renamings and structs; with rules, made directly or by a loaded macro; with providers; with data, selects and their concatenation |
| `rule_analysis` | MCRuleAnalysis | TypeOK, DepsComplete, RequiredSupplied, AttrMeansDeclaration, ToolchainsAsWritten, IndexReadsDeclaration, Canonical | a chain and a diamond of targets, a rule with a schema that is wrong, required providers, defaults, files and labels, toolchain types written in two ways, duplicate returns |
| `rule_actions` | MCRuleActions | TypeOK, SnapshotAtRun, FlagsPaired, PathsCanonical, LogSpec | two builders, calls nested up to three deep around `run`; files in any order, twice, as `File` or as string |
| `depset` | MCDepset | TypeOK, ListComplete, ListOrdered, CrossingKeepsList | every graph of three depsets, flattened on both sides of a target boundary |
| `expand` | MCCtxExpand | TypeOK, FailClosed, ExpandsMeaning, Returns | every input of up to five characters |

### Bounds

* *Live modules.*  Three modules give a direct load, a transitive one and a
  diamond; two threads give every pairwise overlap around the map, whose
  operations are atomic under its lock, so a third thread adds no new pair.
  Two edits are needed for the shortest dangerous history: a text, another, and
  the first again under its old key.  `MaxCalls` is 1 because a call in
  progress holds no state of the bridge.  The constraint `Scenario` keeps
  `live` to three parts of the machine:
  `InBodies` (the library's body is edited or broken; a rule evaluation of the
  top reads the bridge while texts may still be edited), `InCutoff` (edits
  that change only constants, drop a load, bind a function again; no calls)
  and `InReplaced` (two modules, one fresh evaluator, a BUILD evaluation as
  reader).  `live_progress` uses two modules and has no constraint; what
  `LinkedSpec` says for three is theorem `BridgeImplementsLinking`.
* *Package.*  One edit of the directory (between the passes, or after them) and
  two evaluations (the second begins with what the first left).  The texts
  cover each guard of the declarations.
* *Export.*  Three modules, the last loading both others, three names one of which is private, two
  statements a module, one level of nesting.  A reference goes wrong after
  being renamed once and crossing twice, which this contains.
  Kinds of statement that cannot affect one another are in different
  repertoires.  Data is a select and a list with a label or a marker, and one
  value without a codec form, written in different modules: three modules of
  two statements make concatenations bracketed both ways, with a select on
  either side and over a load.
* *MODULE.bazel.*  Five calls: two of one builtin with two of another between,
  or a rule asked for and called twice.  The constraint `OneAtATime` drops the
  states in which a MODULE.bazel is read in the middle of a package: the two
  share no state, and their product shows nothing.
* *Analysis.*  Four targets, three rules, implementations that return up to three
  instances, which is enough for a duplicate with another one between.  One
  input names a label that is never analysed, one list has a `Label` beside a
  string.  The constraint `OneInterest` has
  an implementation make three reads of its dependencies or one lookup of a
  toolchain: the two do not affect each other.
* *Actions.*  Two builders and three calls: an outer `add_all`, an inner one on
  the same builder and one on the other.  One action: a snapshot is compared
  with what is added later.
* *Depset.*  Three calls of `depset()` give a diamond (a set below another and
  below the set that contains that one).  Two elements, one direct element per
  set, two per flat list, a conversion depth of two, so that a chain is refused.
  One target is published; a list that crosses again and again is theorem
  `CrossingKept`.
* *Expansion.*  Five characters hold a directive with a name, an escape before a
  directive, an unterminated one.  Names of variables are a letter, empty, blank,
  one with a parenthesis and one that begins like a directive; a value is never
  read again, and one looks like a directive.

### Fairness

A thread that has begun an evaluation keeps taking steps (`WF` of `Step(w)`):
Starlark, as configured here, has no unbounded loop and no recursion, and the
bridge's lock is held for one map operation and never across a call.  The
engine evaluates a module that stays dirty or becomes dirty again and again
(`SF` of `Begin`): this is the engine's contract and an assumption here.  The
scanner of CtxExpand is one thread's loop (`WF` of its next step).  All other
modules state safety only, and assume none.

### Where documents and code differ

These runs check a sentence of the repository and end in a counterexample.

| Run | Sentence | What the code does |
|---|---|---|
| `export_calls` (RefNamesDefiner) | `convert.rs:160`: a re-exported function keeps pointing at its true definer | a function returned by a loaded function is stamped with the module that binds it |
| `export_alias` (AliasIsLegal) | `convert.rs:481`: an alias of one declaration is legal | one declaration exported under two names, or by two modules, is two objects; a module that loads both is rejected |
| `rule_nameless` (RequiredSupplied) | `eval.rs:448`: each dependency must supply every required provider | providers without a name share the identity `""`, so one passes for another |
| `expand_verbatim` (Verbatim) | `values_ctx.rs:121`: input without directives comes out verbatim | a character outside ASCII comes out as one Latin-1 character per byte |

Smaller differences met while modelling, which no run is spent on:

* `bridge.rs:54-56` calls the digest transitively source-sensitive; it folds in
  the encodings of the exports, so that an edit of a load target which leaves
  these as they are leaves the digest too (`defining_digest`).  This is sound:
  see `EarlyCutoffSound`.
* `globals.rs:745`, "collect pass yields [] so eval completes": a text that
  uses a file of a glob does not complete on an empty list, and is rejected
  although it is right on its files (the second case of `FailureExplained`).
* `convert.rs:86-87` says the export loop stamps a rule's name and file: not
  those of a rule inside a struct, list or dict (`Stamped`; `OriginFound`
  leaves them out).
* `globals.rs:320-321` says a provider without a name is stamped with its
  variable's; it is exported without one (`Convert`), which is what
  `rule_nameless` rests on.
* `convert.rs:316-317` calls `alloc` the inverse of `convert`; a loaded
  `platform_common.ToolchainInfo` is no longer schemaless.
  Every other provider that accepts any field loses that on its way, too
  (`convert.rs:348`).
* `globals_def.rs:118` says a rule may put the result of
  `coverage_common.instrumented_files_info` in its return list, and leaves its
  projection for later; until then `evaluate_rule` rejects it (`Return`).
* `values.rs:30-32` says that the shape of a resolved select is checked by
  analysis; `evaluate_rule` takes no dependencies from a label attribute that
  is neither a list nor a string, and does not complain (`eval.rs:434`).
* Of a list given to a label or files attribute, the items that are not strings
  are dropped without a complaint, a `Label` too (`eval.rs:387`, `eval.rs:429`;
  `LabelsIn`).
* A `providers` list on an attribute of files is accepted and never used.
* `ctx.toolchains` compares texts of labels: a value of
  `config_common.toolchain_type()` names a type in `rule()` and is no key.
* `envs.rs:4` lets a prelude share the environment of other loads and
  `predeclared_env_id` returns its identity; `select_bzl_env` refuses to
  evaluate one (`eval.rs:48`).
* `convert.rs:32` speaks of a bound on nesting during conversion; a chain of
  depsets without direct elements is converted at any depth (`Projected`).

`PROJECT.json` quotes each sentence with its place and lists every hazard with
the properties that watch it.

## 5. Proofs

Each theorem below holds for every value of the constants that satisfies the
module's named assumption, where it does not name a hypothesis of its own.
TLC evaluates the named assumptions; a hypothesis of a theorem is one the
instance that is checked satisfies too.

### Induction (SequenceLemmas, Ordering)

The induction theorems of the library take a predicate as a parameter, which
the provers at hand cannot instantiate.  `SequenceLemmas` states induction for a
set: a set of naturals that is not empty has a least element
(`LeastNatural`, from the well-foundedness of `<` and `WFMin`), so a set with 0
and with the successor of each natural in it has all naturals (`SetInduction`).
A claim about all numbers is proved of the set of those it holds of.  From it
come the facts about `FlattenSeq` and `FoldLeft`, that a recursive function
exists (`FlattenExists`, `FoldedExists`, `AfterExists`, and `RecursionExists` for
one that rests on all its values below), what it returns, and what appending and
concatenating do to it.  `FlattenSegments` says where each part of a flattened
list stands.  The lemma `RankedSorts` says that
`Ranked` lists a finite set in order, each element once.

### The bridge (LiveModulesProofs)

`NoStaleCall` is not inductive: that a call runs the code it was linked to
follows only from what every reference and every entry of the bridge denotes,
in all modules ever evaluated.  The inductive invariant `IInv` says in addition:

* `Unambiguous`: two codes ever cached with one path and one digest are equal.
  It holds because a digest contains the text and the encodings of the loads,
  and an encoding determines a `BzlModule` once the references in it are
  unambiguous (lemma `EncodingDetermines`);
* `FiledUnderKey`: an entry of the bridge is filed under its own key;
* `Retained`: while the evaluator lives, every code ever cached is in the bridge;
* `BuiltFrom`: a node's value is what the code it was built from exports;
* `CachedJobs`: an evaluation that has cached its module has nothing left to call.

There is one lemma per action (`EditIInv` to `InsertIInv`).  From `IInv`:

| Theorem | Property |
|---|---|
| `TypeCorrect` | TypeOK |
| `CallsAreNotStale` | NoStaleCall |
| `LoadedIsFound` | AlwaysFinds |
| `CutoffIsSound` | EarlyCutoffSound |
| `InsertsAreIdempotent` | InsertIdempotent |
| `BridgeImplementsLinking` | LinkedSpec |

They hold for all modules, texts, loads and threads, and any number of edits
and calls.  They rest on `SourceAssumption` and `LiveAssumption`, and on the
abstraction that a digest is the identity on what is hashed.
`BridgeImplementsLinking` also assumes that no evaluator is replaced
(`MaxReplacements = 0`; with an empty bridge a call fails, which linking never
does) and that the constants that stand for no value, no code and no job are
told apart from values, codes and jobs.

### Packages (BuildPackageProofs)

`IInv` adds to TypeOK and PackageKeyed that a registry is empty when a pass
begins (`FreshWhenIdle`) and that the resolved map holds exactly the matches in
the directory the node read (`MapOfView`).  It gives the types, the keys and the
refinement.  What a package contains needs more: `DirectInv` says that the
collect pass is a part of the reference evaluation without files and has
recorded the specs that evaluation reads (`CollectFollows`), that the second
pass is a part of the one over the files at hand (`ResolvedFollows`), and that
between the passes the map has the specs the text reads when its globs are empty
(`ReadWhenEmpty`).  A glob the second pass asks for and does not find is then
one the first could not see, and no other reason is left for a failure.

| Theorem | Property |
|---|---|
| `TypeCorrect` | TypeOK |
| `PackagesAreKeyed` | PackageKeyed |
| `PackageIsDirect` | DoneIsDirect |
| `FailuresExplained` | FailureExplained |
| `TwoPassesImplementOne` | DirectSpec |
| `ModuleIsAsWritten` | DeclaredAsWritten |

`CallsTyped` says that texts make calls of the form the interpreter can make,
`TextsEnd`, for `PackageIsDirect` and `FailuresExplained`, that a text ends
within `MaxCalls` calls: the reference evaluation is cut off there, as the model
is.  Starlark as configured here has no unbounded loop, so each text has such a
bound.

`ModuleIsAsWritten` is about ModuleFile: at every moment of an evaluation the
registry is what the calls made so far declare (`ModuleInv`), so that it does
not matter where the text ends.

### The load boundary (BzlExportProofs)

A value that a module holds is right only as long as what it refers to is there,
in whatever module that is.  `IInv` is about all modules at once:

* `EnvHeld`: a function is of a module that is running or done, a rule carries
  its origin or is a definition still to be stamped, a provider is the object
  of a binding that is there and has its declaration, data has the meaning of
  its literals (`Held`);
* `ExportsSent`: what a module has exported is public, bound there to the same
  declaration and not loaded, within the bound on nesting, and leads back the
  same way (`Sent`);
* `Apart`: the public providers of a module that is done have one declaration
  for each identity;
* `Shape`: the functions and sets have their types.

A module that is done is never changed, which keeps all of this true of the
others (`HeldKept`).  The lemmas on data say what `add`, `radd` and the two
crossings do to the meaning of a value.

| Theorem | Property |
|---|---|
| `TypesKept` | TypeOK |
| `RefsFound` | RefsResolve |
| `OriginsFound` | OriginFound |
| `ProvidersKeptApart` | ProvidersApart |
| `DataKeepsMeaning` | DataMeansWritten |

`UnboundApart` says that the constant for an unbound name is not a value.  The
properties themselves name the programs they are about: RefsResolve those
that call no loaded function, OriginFound those that put no rule in a struct.

### Targets (RuleAnalysisProofs)

The first part is about AttrSchema alone: the schema of a rule holds, field by
field, what its `attr.*` calls say, loaded or not, and its toolchain types are
those it lists.  `IInv` then says that each attribute of `ctx` that is built was
accepted and is the value of its declaration on the results there are
(`AttrsDone`, `Built`), that the toolchains are resolved after the last of them
(`ToolsDone`), what each lookup saw (`LookedUp`, `ReadsFound`), and that what
is published is a list of instances in order (`ResultsPublished`).  Results that
are published do not change (`ViewKept`), so that a value built before another
target ended is still the value.

| Theorem | Property |
|---|---|
| `TypesKept` | TypeOK |
| `DepsSupplied` | DepsComplete |
| `RequiredKept` | RequiredSupplied |
| `AttrsKeepMeaning` | AttrMeansDeclaration |
| `ToolchainsKept` | ToolchainsAsWritten |
| `IndexKept` | IndexReadsDeclaration |
| `ResultsCanonical` | Canonical |

`RequiredKept` and `IndexKept` assume `IdentitiesApart`: no two providers in use
have one name.  The code compares names only, and `rule_nameless` is the
counterexample without it.

### Actions (RuleActionsProofs)

Each string of a builder is tagged with a call that has returned (`Logged`), and
the calls on the stack are those that have not, each once (`Stacked`).  A call
that pushes at its end therefore adds strings under a tag that none carries
yet, behind all there are; the strings an action has copied remain the first of
their builder, and `SnapshotAtRun` is inductive with these.

| Theorem | Property |
|---|---|
| `TypesKept` | TypeOK |
| `SnapshotKept` | SnapshotAtRun |
| `FlagsKept` | FlagsPaired |
| `PathsKept` | PathsCanonical |
| `RegistryIsALog` | LogSpec |

`FlagsKept` has an invariant of its own, on the logs: within the strings of one
call flags and items alternate, and joining logs keeps that (`PairInv`,
`WellPairedConcat`).  It assumes that no string that is passed reads like a flag
(`FlagsApart`); the code does not tell the two apart, and with such a string
the property means nothing.  `PathsKept` is that sorting and then dropping
neighbours leaves the paths in order, each once (`SortedSorts`, `DedupSorted`):
the result depends on the set of paths only.

### Expansion (CtxExpandProofs)

The scanner counts bytes, what a text says is about its characters.  `At(s, c)`
is the byte at which character `c` begins; it grows with `c`, and the bytes
from one character to another are those of the characters between (`BytesCut`).
Two texts with the same bytes are the same (`BytesInjective`), which is why
looking a name up by its bytes finds the variable of that name.  `IInv`: the
scanner stands at the beginning of a character, or between the bytes of a wide
one (`Here`); every directive behind it was resolved (`ReadBefore`); the dollars
up to it are in pairs (`EvenAt`), so that what looks like a directive is one;
and what is written, with what the rest says, is what the whole says
(`Written`), so that a scanner that stops had no meaning to give (`Ended`).
`MeaningExists` shows that the function the meaning is taken from exists: each
place rests on later ones.

| Theorem | Property |
|---|---|
| `ScannerTypes` | TypeOK |
| `DirectivesResolved` | FailClosed |
| `ExpansionIsMeaning` | ExpandsMeaning |

The assumptions are on the alphabet (the characters that decide something are
in it, and a byte of a wide character is none) and on the variables (names and
values are strings).  FailClosed speaks of directives that are not inside another:
with a variable named `$(n`, the text `$($(n)` expands, and the inner
parenthesis opens nothing.

### Depsets (DepsetProofs)

A set of a heap is made of sets below it, so what holds of a set is shown from
the same of those below (`BelowInduction`), and the functions `Collect` and
`Projected` exist (`CollectIs`, `ProjectedIs`).  Three arguments are built on
that:

* What a set pushes is what is held at or below it (`PushesBelow`).  If one set
  alone holds e, an e is pushed only where that set is walked: in postorder after
  what is held below it (`PostOrder`), in preorder before what is reached through
  it only (`PreOrder`).  Both are claims about every set on the way from the root.
* Keeping the first of each element (`DedupedKeeps`) keeps every element, and
  keeps it that each f has an e somewhere before it (`Precedes`).
* A heap that stands in another, its places moved, pushes there what it pushes
  by itself (`EmbeddedPushes`).  Allocating puts a tree behind a heap (`AllocIs`),
  joining puts trees behind one another (`JoinedIs`), grafting puts a set over
  them (`GraftIs`).  So the tree of a set has its list, at whatever depth it was
  made (`ProjectedPushes`), and so has the tree in the heap of a dependent
  (`TreeListed`).

`IInv` then has little to add: the heap is one, the answer is that of the heap
as it stands, and each published value flattens to the list its target had
(`Kept`).

| Theorem | Property |
|---|---|
| `TypesKept` | TypeOK |
| `ListsComplete` | ListComplete |
| `ListsOrdered` | ListOrdered |
| `CrossingKept` | CrossingKeepsList |

They hold for graphs and heaps of any size, and any depth at which conversion
gives up.  `BoundAssumption` says the bounds are numbers, `RefusedAssumption`
that an error is neither a list nor a tree.

### Model-checked only

Liveness (`EvaluationEnds`, `Settles`, `Returns`, `LinkedFairSpec`) is out of
the prover's reach.

## 6. Abstractions, and what is not modelled

* A digest is injective, and one reference stands for all functions of a module
  (LiveModules); BzlExport tells the functions apart, without edits.
* The interpreter evaluates a module sequentially; parse errors and runtime
  errors are one outcome, and what a message says is left out.
* The switches that build the crate's own mutants (`cfg!(feature = ...)`) are off.
* Strings are model values except where their structure decides something
  (CtxExpand).  Elements of depsets are opaque and compared by equality.
* In RuleActions a path is a number, its place in the order of paths, and an
  environment a function, which has no order; `declare_file`, which keeps no
  state, is left out.
* In BzlExport a value does not change once it is bound.  The code keeps a live
  list as an arm of a concatenation (`values.rs:387`), so that a list changed
  before its module ends changes the select.
* Tuples and dicts cross like lists, item by item, and `DataDepth` counts the
  two levels a literal of these runs has.
* Not modelled: the phase environments (static tables, and a match of constants
  over the kind of load, the dialect and the options; a module would restate
  it), labels and files as strings (splitting and joining), the markers of
  `globals_def.rs` beyond their crossing (they have no state, and driving one
  fails), the scalar fields of `ctx` (constants of the target), and error
  texts.  Each is listed in `PROJECT.json` with its reason.
