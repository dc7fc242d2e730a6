------------------------------- MODULE BzlExport -------------------------------
(***************************************************************************)
(* Names and identities at the load boundary: the evaluation of a .bzl     *)
(* module and its export loop (src/src/eval.rs, evaluate), the projection  *)
(* of live values to codec values and back (src/src/convert.rs), and the   *)
(* lookup of a loaded function by its name (src/src/values_function.rs).   *)
(*                                                                         *)
(* LiveModules is about versions of a module and takes one function for    *)
(* all of them; this module is about one version and what its names are    *)
(* bound to.  A program is not fixed: each statement binds an unbound name *)
(* to any value the module can get hold of, so TLC runs through every      *)
(* program of up to MaxStatements statements.                              *)
(***************************************************************************)
EXTENDS Naturals, FiniteSets, Sequences, DataValues

CONSTANTS
  Module,         \* .bzl modules
  Loads,          \* Loads[m]: the modules m may load, acyclic
  Name,           \* variables and function symbols
  Private,        \* the names that begin with "_"
  ProviderName,   \* bound: the names given to provider()
  Literals,       \* bound: Literals[m]: the data values written in m
  Repertoires,    \* bound: the sets of kinds of statement programs are made of
  MaxStatements,  \* bound: statements of a module
  MaxConvertDepth,
  Unbound         \* no value

ASSUME ExportAssumption ==
  /\ Loads \in [Module -> SUBSET Module]
  /\ Private \subseteq Name /\ ProviderName \subseteq Name
  /\ "" \notin Name /\ "" \notin Module
  /\ \A m \in Module : \A d \in Literals[m] : IsSimple(d)
  /\ MaxStatements \in Nat /\ MaxConvertDepth \in Nat

VARIABLES
  env,       \* env[m][n]: what m binds n to; frozen, and in the bridge, once m is done
  loaded,    \* loaded[m]: the names m binds by load()
  exported,  \* exported[m][n]: the BzlModule
  repertoire,  \* the kinds of statement this program is made of
  status     \* status[m]: "new", "running", "done", or how its evaluation ended

vars == <<env, loaded, exported, repertoire, status>>

-------------------------------------------------------------------------------
(***************************************************************************)
(* Values: a leaf inside so many structs.  The field def, which no code    *)
(* reads, is where the leaf was defined: <<module, name>>, and the symbol  *)
(* as well if it is an inner function.  That of a piece of data is the     *)
(* sequence of the literals it was put together from.                      *)
(***************************************************************************)
Leaf(leaf) == [wraps |-> 0, leaf |-> leaf]

Function(m, n) == [kind |-> "function", name |-> n, def |-> <<m, n>>]
InnerFunction(f, s) == [kind |-> "function", name |-> s, def |-> <<f[1], f[2], s>>]
RuleValue(m, n) == [kind |-> "rule_definition", def |-> <<m, n>>]
Provider(id, obj, def) == [kind |-> "provider", id |-> id, obj |-> obj, def |-> def]

Data(value, def) == [kind |-> "data", value |-> value, def |-> def]

\* Every mention of platform_common.ToolchainInfo allocates it anew.
ToolchainInfo == <<"platform_common", "ToolchainInfo">>

(***************************************************************************)
(* convert: a function is stamped with the module being exported, a loaded *)
(* one keeps its reference; a rule made here has no identity yet.          *)
(***************************************************************************)
\* Mutation: a loaded function is stamped like one of the module's own.
ConvertRestamps(m, leaf) ==
  CASE leaf.kind \in {"function", "loaded"} ->
         [kind |-> "FunctionRef", module |-> m, name |-> leaf.name, def |-> leaf.def]
    [] leaf.kind = "rule_definition" ->
         [kind |-> "Rule", bzl |-> "", name |-> "", def |-> leaf.def]
    [] leaf.kind = "rule" ->
         [kind |-> "Rule", bzl |-> leaf.bzl, name |-> leaf.name, def |-> leaf.def]
    [] leaf.kind = "provider" -> [kind |-> "Provider", id |-> leaf.id, def |-> leaf.def]
    [] leaf.kind = "data" -> [kind |-> "Data", value |-> ConvertData(leaf.value), def |-> leaf.def]

Convert(m, leaf) ==
  CASE leaf.kind = "function" ->
         [kind |-> "FunctionRef", module |-> m, name |-> leaf.name, def |-> leaf.def]
    [] leaf.kind = "loaded" ->
         [kind |-> "FunctionRef", module |-> leaf.module, name |-> leaf.name, def |-> leaf.def]
    [] leaf.kind = "rule_definition" ->
         [kind |-> "Rule", bzl |-> "", name |-> "", def |-> leaf.def]
    [] leaf.kind = "rule" ->
         [kind |-> "Rule", bzl |-> leaf.bzl, name |-> leaf.name, def |-> leaf.def]
    [] leaf.kind = "provider" -> [kind |-> "Provider", id |-> leaf.id, def |-> leaf.def]
    [] leaf.kind = "data" -> [kind |-> "Data", value |-> ConvertData(leaf.value), def |-> leaf.def]

(***************************************************************************)
(* alloc: build_frozen makes one object of each binding of a module that   *)
(* is loaded, in each evaluation that loads it.  The object <<at, m, n>>   *)
(* is the one that the evaluation of at has of what m binds to n.          *)
(***************************************************************************)
Alloc(leaf, obj) ==
  CASE leaf.kind = "FunctionRef" ->
         [kind |-> "loaded", module |-> leaf.module, name |-> leaf.name, def |-> leaf.def]
    [] leaf.kind = "Rule" ->
         [kind |-> "rule", bzl |-> leaf.bzl, name |-> leaf.name, def |-> leaf.def]
    [] leaf.kind = "Provider" -> Provider(leaf.id, obj, leaf.def)
    [] leaf.kind = "Data" -> Data(AllocData(leaf.value), leaf.def)

-------------------------------------------------------------------------------
Init ==
  /\ env = [m \in Module |-> [n \in Name |-> Unbound]]
  /\ loaded = [m \in Module |-> {}]
  /\ exported = [m \in Module |-> [n \in Name |-> Unbound]]
  /\ repertoire \in Repertoires
  /\ status = [m \in Module |-> "new"]

Bound(m) == {n \in Name : env[m][n] # Unbound}

\* Evaluations share nothing but the bridge, which LiveModules is about:
\* here they run one at a time.
Begin(m) ==
  /\ status[m] = "new"
  /\ \A m2 \in Module : status[m2] # "running"
  /\ \A m2 \in Loads[m] : status[m2] = "done"
  /\ status' = [status EXCEPT ![m] = "running"]
  /\ UNCHANGED <<env, loaded, exported>>

Bind(m, n, v) ==
  /\ status[m] = "running"
  /\ env[m][n] = Unbound
  /\ Cardinality(Bound(m)) < MaxStatements
  /\ env' = [env EXCEPT ![m][n] = v]
  /\ UNCHANGED <<exported, status>>

Def(m, n) ==
  /\ "def" \in repertoire
  /\ Bind(m, n, Leaf(Function(m, n)))
  /\ UNCHANGED loaded

DefRule(m, n) ==
  /\ "rule" \in repertoire
  /\ Bind(m, n, Leaf(RuleValue(m, n)))
  /\ UNCHANGED loaded

DefProvider(m, n) ==
  /\ \/ /\ "provider" \in repertoire
        /\ \E id \in ProviderName : Bind(m, n, Leaf(Provider(id, <<m, m, n>>, <<m, n>>)))
     \/ /\ "nameless" \in repertoire
        /\ Bind(m, n, Leaf(Provider("", <<m, m, n>>, <<m, n>>)))
     \/ /\ "builtin" \in repertoire
        /\ Bind(m, n, Leaf(Provider("ToolchainInfo", <<m, m, n>>, ToolchainInfo)))
  /\ UNCHANGED loaded

\* n = a literal, and n = x + y of what is bound and literals.
Written(m) == {Data(d, <<d>>) : d \in Literals[m]}

Operand(m) ==
  {env[m][n].leaf : n \in {x \in Bound(m) : env[m][x].wraps = 0 /\ env[m][x].leaf.kind = "data"}}
    \cup Written(m)

Literal(m, n) ==
  /\ "data" \in repertoire
  /\ \E d \in Written(m) : Bind(m, n, Leaf(d))
  /\ UNCHANGED loaded

Plus(m, n) ==
  /\ "data" \in repertoire
  /\ \E x, y \in Operand(m) :
       /\ CanAdd(x.value, y.value)
       /\ Bind(m, n, Leaf(Data(Add(x.value, y.value), x.def \o y.def)))
  /\ UNCHANGED loaded

\* load("m2", n = "n2"): the object of the binding n2, whatever names it is
\* loaded to.
Load(m, n) ==
  /\ \E m2 \in Loads[m], n2 \in Name :
       /\ exported[m2][n2] # Unbound
       /\ Bind(m, n, [exported[m2][n2] EXCEPT !.leaf = Alloc(@, <<m, m2, n2>>)])
  /\ loaded' = [loaded EXCEPT ![m] = @ \cup {n}]

Assign(m, n) ==
  /\ "assign" \in repertoire
  /\ \E n2 \in Bound(m) : Bind(m, n, env[m][n2])
  /\ UNCHANGED loaded

\* n = struct(f = n2), and n = n2.f
Struct(m, n) ==
  /\ "struct" \in repertoire
  /\ \E n2 \in Bound(m) : Bind(m, n, [env[m][n2] EXCEPT !.wraps = @ + 1])
  /\ UNCHANGED loaded

Field(m, n) ==
  /\ "struct" \in repertoire
  /\ \E n2 \in Bound(m) :
       /\ env[m][n2].wraps > 0
       /\ Bind(m, n, [env[m][n2] EXCEPT !.wraps = @ - 1])
  /\ UNCHANGED loaded

(***************************************************************************)
(* n = n2(): the function runs in the module that defines it and returns   *)
(* the value of a variable of that module, or a function of its own.  A    *)
(* loaded function is looked up under its name, private ones included.     *)
(***************************************************************************)
Callee(v) == IF v.leaf.kind = "loaded" THEN env[v.leaf.module][v.leaf.name] ELSE v

IsFunction(v) == v # Unbound /\ v.wraps = 0 /\ v.leaf.kind = "function"

Call(m, n) ==
  /\ "call" \in repertoire
  /\ \E n2 \in Bound(m) :
       /\ env[m][n2].wraps = 0 /\ env[m][n2].leaf.kind \in {"function", "loaded"}
       /\ LET f == Callee(env[m][n2]) IN
            /\ IsFunction(f)
            /\ \/ \E x \in Bound(f.leaf.def[1]) : Bind(m, n, env[f.leaf.def[1]][x])
               \/ \E s \in Name : "closure" \in repertoire /\ Bind(m, n, Leaf(InnerFunction(f.leaf.def, s)))
  /\ UNCHANGED loaded

\* What a failed evaluation has bound goes with its heap.
Dropped(m) ==
  /\ env' = [env EXCEPT ![m] = [n \in Name |-> Unbound]]
  /\ loaded' = [loaded EXCEPT ![m] = {}]
  /\ UNCHANGED exported

\* Any error of the text.
Abort(m) ==
  /\ status[m] = "running"
  /\ status' = [status EXCEPT ![m] = "failed"]
  /\ Dropped(m)

-------------------------------------------------------------------------------
(***************************************************************************)
(* The export loop.  It first rejects two public providers of one          *)
(* identity, a provider without a name going by its variable; the objects  *)
(* are compared, so that an alias is no second declaration.                *)
(***************************************************************************)
Public(m) == Bound(m) \ Private

Providers(m) == {n \in Public(m) : env[m][n].wraps = 0 /\ env[m][n].leaf.kind = "provider"}

CollisionId(m, n) == IF env[m][n].leaf.id = "" THEN n ELSE env[m][n].leaf.id

\* Mutation: the last of two declarations wins.
NeverDuplicated(m) == FALSE

Duplicated(m) ==
  \E n1, n2 \in Providers(m) :
    /\ CollisionId(m, n1) = CollisionId(m, n2)
    /\ env[m][n1].leaf.obj # env[m][n2].leaf.obj

\* Mutation: loaded symbols are exported again.
ExportsLoads(m) == Public(m)

ExportedNames(m) == Public(m) \ loaded[m]

Depth(leaf) == IF leaf.kind = "data" THEN DataDepth(leaf.value) ELSE 0

TooDeep(m) ==
  \E n \in ExportedNames(m) : env[m][n].wraps + Depth(env[m][n].leaf) > MaxConvertDepth

\* A value of a kind that has no codec form; private ones do no harm.
Unsupported(m) ==
  \E n \in ExportedNames(m) : env[m][n].leaf.kind = "data" /\ env[m][n].leaf.value.kind = "opaque"

\* A rule made here takes the variable it is bound to for its name; one that
\* has its origin keeps it.
\* Mutation: every rule is stamped.
StampedAlways(m, n, v) ==
  IF v.wraps = 0 /\ v.leaf.kind = "Rule"
  THEN Leaf([kind |-> "Rule", bzl |-> m, name |-> n, def |-> v.leaf.def])
  ELSE v

Stamped(m, n, v) ==
  IF v.wraps = 0 /\ v.leaf.kind = "Rule" /\ v.leaf.name = ""
  THEN Leaf([kind |-> "Rule", bzl |-> m, name |-> n, def |-> v.leaf.def])
  ELSE v

Export(m) ==
  /\ status[m] = "running"
  /\ ~Duplicated(m)
  /\ ~TooDeep(m) /\ ~Unsupported(m)
  /\ exported' = [exported EXCEPT ![m] =
       [n \in Name |-> IF n \in ExportedNames(m)
                       THEN Stamped(m, n, [env[m][n] EXCEPT !.leaf = Convert(m, @)])
                       ELSE Unbound]]
  /\ status' = [status EXCEPT ![m] = "done"]
  /\ UNCHANGED <<env, loaded>>

RejectDuplicate(m) ==
  /\ status[m] = "running"
  /\ Duplicated(m)
  /\ status' = [status EXCEPT ![m] = "duplicate"]
  /\ UNCHANGED <<env, loaded, exported>>  \* what it had bound is kept for AliasIsLegal

\* The projection of an export fails.
RejectValue(m) ==
  /\ status[m] = "running"
  /\ ~Duplicated(m)
  /\ TooDeep(m) \/ Unsupported(m)
  /\ status' = [status EXCEPT ![m] = "no codec value"]
  /\ Dropped(m)

Step(m) ==
  \/ Begin(m) \/ Abort(m)
  \/ Export(m) \/ RejectDuplicate(m) \/ RejectValue(m)
  \/ \E n \in Name :
       \/ Def(m, n) \/ DefRule(m, n) \/ DefProvider(m, n) \/ Load(m, n)
       \/ Literal(m, n) \/ Plus(m, n)
       \/ Assign(m, n) \/ Struct(m, n) \/ Field(m, n) \/ Call(m, n)

Next == \E m \in Module : Step(m) /\ UNCHANGED repertoire

Spec == Init /\ [][Next]_vars

-------------------------------------------------------------------------------
Exports == {e \in Module \X Name : exported[e[1]][e[2]] # Unbound}

LeafOf(e) == exported[e[1]][e[2]].leaf

(* Types: what is exported comes from a module that is done, and each name *)
(* of it is public and bound.                                              *)
TypeOK ==
  /\ loaded \in [Module -> SUBSET Name]
  /\ status \in [Module -> {"new", "running", "done", "failed", "duplicate", "no codec value"}]
  /\ \A m \in Module : loaded[m] \subseteq Bound(m)
  /\ \A e \in Exports :
       /\ status[e[1]] = "done"
       /\ e[2] \in Bound(e[1]) \ (Private \cup loaded[e[1]])
       /\ exported[e[1]][e[2]].wraps <= MaxConvertDepth

(* A function that crosses the load boundary, at whatever depth of structs *)
(* and through however many modules, is found again under its reference,   *)
(* and it is the function that was exported (values_function.rs:97-102),   *)
(* unless it has come out of a call: see RefNamesDefiner.                  *)
RefsResolve ==
  \A e \in Exports : (LeafOf(e).kind = "FunctionRef" /\ "call" \notin repertoire) =>
    LET r == LeafOf(e) IN
      /\ status[r.module] = "done"
      /\ IsFunction(env[r.module][r.name])
      /\ env[r.module][r.name].leaf.def = r.def

(* A rule that crosses the load boundary carries the origin analysis finds *)
(* it by: the module it names binds the rule's name to that definition,    *)
(* and not to a loaded proxy of it (eval.rs:328-333, values.rs:327).  Only *)
(* a rule inside a struct has none: Stamped does not look into it.         *)
OriginFound ==
  \A e \in Exports : (LeafOf(e).kind = "Rule" /\ "struct" \notin repertoire) =>
    LET r == LeafOf(e) IN
      /\ r.bzl \in Module /\ r.name \in Name
      /\ env[r.bzl][r.name] # Unbound
      /\ env[r.bzl][r.name] = Leaf([kind |-> "rule_definition", def |-> r.def])

(* A select, or a concatenation with one, takes in every configuration the *)
(* value of its operands in the order they are written in, whatever way    *)
(* they are bracketed, and whichever of them were loaded from elsewhere;   *)
(* other data is what was written ("a loaded CC_TOOLCHAIN_TYPE             *)
(* round-trips", convert.rs:124-125; "each arm resolved independently,     *)
(* then joined", values.rs:346).                                           *)
DataMeansWritten ==
  \A m \in Module, n \in Name :
    (env[m][n] # Unbound /\ env[m][n].leaf.kind = "data") =>
      \A c \in Condition :
        LET leaf == env[m][n].leaf IN
          Resolved(leaf.value, c) = FlattenSeq([i \in DOMAIN leaf.def |-> Resolved(leaf.def[i], c)])

(* Two providers by name a done module can use as keys are different       *)
(* identities if they were declared apart: dep[P] never reads an instance  *)
(* of another declaration (convert.rs:479-482).                            *)
ProvidersApart ==
  \A m \in Module : status[m] = "done" =>
    \A n1, n2 \in Providers(m) :
      (/\ env[m][n1].leaf.id # ""
       /\ env[m][n1].leaf.id = env[m][n2].leaf.id)
      => env[m][n1].leaf.def = env[m][n2].leaf.def

(* "a function re-exported through N modules keeps pointing at its true    *)
(* definer, not the re-exporter" (convert.rs:160-162).  Not so for one     *)
(* that a loaded function has returned: the exporter stamps it as its own. *)
RefNamesDefiner ==
  \A e \in Exports : LeafOf(e).kind = "FunctionRef" =>
    LeafOf(e).module = LeafOf(e).def[1]

(* "Aliasing - two names bound to the SAME declaration value - stays legal *)
(* (one identity, not a collision)" (convert.rs:481-482).  The objects are *)
(* compared, and once exported under two names, or loaded through two      *)
(* modules, one declaration is two of them.                                *)
AliasIsLegal ==
  \A m \in Module : status[m] = "duplicate" =>
    \E n1, n2 \in Providers(m) :
      /\ CollisionId(m, n1) = CollisionId(m, n2)
      /\ env[m][n1].leaf.def # env[m][n2].leaf.def
===============================================================================
