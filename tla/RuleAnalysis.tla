------------------------------ MODULE RuleAnalysis ------------------------------
(***************************************************************************)
(* The analysis of targets: src/src/eval.rs, evaluate_rule.                *)
(*                                                                         *)
(* The engine hands a target's attributes and the provider instances of    *)
(* the targets analysed before it; evaluate_rule builds ctx from them,     *)
(* attribute by attribute in the order of their names, runs the rule's     *)
(* implementation, and publishes the instances it returns.  Nothing else   *)
(* passes from one analysis to another.  The declared actions are left to  *)
(* RuleActions.                                                            *)
(*                                                                         *)
(* A provider is a record whose field id is its identity (ProviderId) and  *)
(* whose other fields, which no code reads, tell declarations of one       *)
(* identity apart.  An instance names its identity, and, for the           *)
(* properties, its declaration and the target that made it.                *)
(***************************************************************************)
EXTENDS AttrSchema

CONSTANTS
  Target,
  RuleOf,       \* RuleOf[t]: the rule of t
  Definition,   \* Definition[r]: the call of rule() that defines r:
                \* [implementation, attrs, toolchains], see AttrSchema
  Inputs,       \* bound: Inputs[t]: attribute values the engine may pass for t
  EndsWith,     \* EndsWith[s]: the extensions in use that the source s has
  Tool,         \* Tool[type]: the target that answers for a toolchain type
  Foreign,      \* the toolchain types resolved in another module's identity
  Visible,      \* Visible[r]: the providers bound in the module of r
  DefaultInfo,  \* the builtin provider that the re-keying knows
  ToolchainInfo, \* a builtin provider that it does not know
  Rank,         \* Rank[id]: the order of provider identities
  MaxReturned,  \* bound: instances an implementation returns
  None, Failed

Provider == (UNION {Visible[r] : r \in DOMAIN Definition}) \cup {DefaultInfo, ToolchainInfo}

\* The rules whose module evaluates, as rule() has made them.
Schema == [r \in {x \in DOMAIN Definition : RuleAccepts(Definition[x])} |-> RuleValue(Definition[r])]

(***************************************************************************)
(* A rule's module has passed index_providers, BzlExport's ProvidersApart. *)
(***************************************************************************)
ASSUME AnalysisAssumption ==
  /\ RuleOf \in [Target -> DOMAIN Definition]
  /\ AttrOrder \in Seq(ToSet(AttrOrder)) /\ TypeOrder \in Seq(ToSet(TypeOrder))
  /\ \A r \in DOMAIN Definition : IsDefinition(Definition[r])
  /\ \A t \in Target : \A given \in Inputs[t] : \A n \in DOMAIN given : IsGiven(given[n])
  /\ \A r \in DOMAIN Definition : \A p, q \in Visible[r] :
       p.id = q.id /\ p.id # "" => p = q
  /\ Rank \in [{p.id : p \in Provider} -> Nat]
  /\ \A p, q \in Provider : Rank[p.id] = Rank[q.id] => p.id = q.id
  /\ MaxReturned \in Nat

VARIABLES
  result,  \* result[t]: None, Failed, or the instances published
  job      \* the analysis in progress

vars == <<result, job>>

Instance(p, t) == [provider |-> p.id, of |-> p, by |-> t]

Analysed(t) == t \in Target /\ result[t] \notin {None, Failed}

-------------------------------------------------------------------------------
(***************************************************************************)
(* Building ctx.                                                           *)
(***************************************************************************)
\* What an item of a list adds to the labels: a string itself, anything else,
\* a Label too, nothing.
LabelsIn(item) == IF item.kind = "str" THEN <<item.item>> ELSE <<>>

\* The labels, or sources, of an attribute value; a select, or no value, has none.
Labels(given, n) ==
  IF n \notin DOMAIN given THEN <<>>
  ELSE CASE given[n].kind = "list" ->
              FlattenSeq([i \in DOMAIN given[n].items |-> LabelsIn(given[n].items[i])])
         [] given[n].kind = "str" -> <<given[n].item>>
         [] OTHER -> <<>>

\* What dep[P] can be keyed by: the providers of the module and DefaultInfo.
Index(r) == {p.id : p \in Visible[r]} \cup {DefaultInfo.id}

Ids(instances) == {instances[i].provider : i \in DOMAIN instances}

\* The engine supplies what the analysis of the label has published.
Supplied(l) == IF Analysed(l) THEN result[l] ELSE <<>>

Required(r, n) ==
  IF n \in DOMAIN Schema[r].attr_providers THEN Schema[r].attr_providers[n] ELSE {}

\* Mutation: one of the required providers is enough.
RequiresOne(r, n, l) == Required(r, n) = {} \/ Required(r, n) \cap Ids(Supplied(l)) # {}

RequiresAll(r, n, l) == Required(r, n) \subseteq Ids(Supplied(l))

\* Mutation: a dependency that was not supplied is let through.
MissingAccepted(r, n, l) ==
  Analysed(l) => RequiresAll(r, n, l) /\ Ids(Supplied(l)) \subseteq Index(r)

\* The dependency has been supplied, with every provider the attribute
\* requires and none that the module cannot key.
Accepted(r, n, l) ==
  /\ Analysed(l)
  /\ RequiresAll(r, n, l)
  /\ Ids(Supplied(l)) \subseteq Index(r)

\* default_info_files: who made the DefaultInfo that the files come from.
FilesOf(instances) ==
  {instances[i].by : i \in {j \in DOMAIN instances : instances[j].provider = DefaultInfo.id}}

TargetValue(l, instances) ==
  [label |-> l,
   keys |-> [i \in DOMAIN instances |-> instances[i].provider],
   instances |-> instances,
   files |-> FilesOf(instances)]

\* A source file: a Target with nothing to index.
SourceTarget(s) == [label |-> s, keys |-> <<>>, instances |-> <<>>, files |-> {s}]

\* Every extension will do when none is listed.
SourceAccepted(exts, s) == exts = {} \/ EndsWith[s] \cap exts # {}

\* A scalar: the value, the explicit default, or the zero of the type.
Scalar(r, a, given) ==
  CASE a.name \in DOMAIN given -> given[a.name]
    [] a.name \notin DOMAIN given /\ a.code = "String" ->
         [kind |-> "str", item |-> IF a.name \in DOMAIN Schema[r].attr_string_defaults
                                     THEN Schema[r].attr_string_defaults[a.name] ELSE ""]
    [] a.name \notin DOMAIN given /\ a.code = "StringList" -> [kind |-> "list", items |-> <<>>]
    [] OTHER -> None

IsFiles(r, a) == a.name \in DOMAIN Schema[r].attr_files
IsLabel(r, a) == ~IsFiles(r, a) /\ a.code \in {"Label", "LabelList"}

AttrAccepted(r, a, given) ==
  LET labels == ToSet(Labels(given, a.name)) IN
    /\ IsFiles(r, a) => \A s \in labels : SourceAccepted(Schema[r].attr_files[a.name], s)
    /\ IsLabel(r, a) => \A l \in labels : Accepted(r, a.name, l)

AttrValue(r, a, given) ==
  LET labels == Labels(given, a.name) IN
    CASE IsFiles(r, a) -> [i \in DOMAIN labels |-> SourceTarget(labels[i])]
      [] IsLabel(r, a) -> [i \in DOMAIN labels |-> TargetValue(labels[i], Supplied(labels[i]))]
      [] OTHER -> Scalar(r, a, given)

-------------------------------------------------------------------------------
Init ==
  /\ result = [t \in Target |-> None]
  /\ job = None

MandatoryGiven(r, given) == Schema[r].attr_mandatory \subseteq DOMAIN given

\* Mutation: an error is reported, and the evaluation goes on.
FailGoesOn(t) ==
  /\ result' = [result EXCEPT ![t] = Failed]
  /\ UNCHANGED job

Fail(t) ==
  /\ result' = [result EXCEPT ![t] = Failed]
  /\ job' = None

\* The module of the rule is evaluated again, and must evaluate.
Begin(t) ==
  /\ job = None
  /\ result[t] = None
  /\ \E given \in Inputs[t] :
       LET fit == RuleOf[t] \in DOMAIN Schema /\ MandatoryGiven(RuleOf[t], given) IN
       \/ /\ ~fit
          /\ Fail(t)
       \/ /\ fit
          /\ job' = [target |-> t, given |-> given, attr |-> <<>>, tools |-> None,
                     read |-> {}, looked |-> {}]
          /\ UNCHANGED result

Rule == RuleOf[job.target]
NextAttr == Schema[Rule].attrs[Cardinality(DOMAIN job.attr) + 1]
AttrsBuilt == Cardinality(DOMAIN job.attr) = Len(Schema[Rule].attrs)
Running == job # None /\ job.tools # None

BuildAttr ==
  /\ job # None /\ ~AttrsBuilt
  /\ \/ /\ ~AttrAccepted(Rule, NextAttr, job.given)
        /\ Fail(job.target)
     \/ /\ AttrAccepted(Rule, NextAttr, job.given)
        /\ job' = [job EXCEPT !.attr = [n \in DOMAIN @ \cup {NextAttr.name} |->
                     IF n = NextAttr.name THEN AttrValue(Rule, NextAttr, job.given) ELSE @[n]]]
        /\ UNCHANGED result

(***************************************************************************)
(* ctx.toolchains.  The engine resolves types that the rule asks for, each *)
(* to the ToolchainInfo its target has published.                          *)
(***************************************************************************)
InfosFor(type) == {i \in ToSet(Supplied(Tool[type])) : i.provider = ToolchainInfo.id}

Resolvable == {type \in ToSet(Schema[Rule].toolchains) : InfosFor(type) # {}}

BuildToolchains ==
  /\ job # None /\ AttrsBuilt /\ job.tools = None
  /\ \E types \in SUBSET Resolvable :
       \/ /\ types \cap Foreign # {}
          /\ Fail(job.target)
       \/ /\ types \cap Foreign = {}
          /\ job' = [job EXCEPT !.tools = [type \in types |-> CHOOSE i \in InfosFor(type) : TRUE]]
          /\ UNCHANGED result

\* Mutation: only a string is a key.
NormalizeString(key) == IF key.kind = "str" THEN {key.text} ELSE {}

\* The type of a Label or string; anything else has none.
normalize_toolchain_key(key) == IF key.kind \in {"str", "Label"} THEN {key.text} ELSE {}

Keys == {[kind |-> k, text |-> t] : k \in TypeEntry, t \in ToSet(TypeOrder)}

\* key in ctx.toolchains
HasToolchain ==
  /\ Running
  /\ \E key \in Keys :
       job' = [job EXCEPT !.looked =
                 {[key |-> key, infos |-> {},
                   found |-> normalize_toolchain_key(key) \cap DOMAIN job.tools # {}]}]
  /\ UNCHANGED result

\* ctx.toolchains[key]
ReadToolchain ==
  /\ Running
  /\ \E key \in Keys :
       LET found == normalize_toolchain_key(key) \cap DOMAIN job.tools IN
       \/ /\ found = {}
          /\ Fail(job.target)
       \/ \E type \in found :
            /\ job' = [job EXCEPT !.looked = {[key |-> key, infos |-> {job.tools[type]}, found |-> TRUE]}]
            /\ UNCHANGED result

(***************************************************************************)
(* The implementation: it indexes the Targets of ctx.attr, makes instances *)
(* of the providers it knows, and returns some of them, or fails.          *)
(***************************************************************************)
CtxTargets ==
  UNION {ToSet(job.attr[Schema[Rule].attrs[i].name]) :
           i \in {j \in DOMAIN Schema[Rule].attrs :
                    LET a == Schema[Rule].attrs[j] IN IsFiles(Rule, a) \/ IsLabel(Rule, a)}}

Usable(r) == Visible[r] \cup {DefaultInfo, ToolchainInfo}

\* Mutation: a provider that is not there reads as another.
AtAbsorbs(target, p) ==
  {target.instances[i] : i \in {j \in DOMAIN target.keys :
     target.keys[j] = p.id \/ p.id \notin ToSet(target.keys)}}

\* target[p]: nothing, or the first instance with the key.
At(target, p) ==
  {target.instances[i] : i \in {j \in DOMAIN target.keys :
     target.keys[j] = p.id /\ \A k \in 1 .. (j - 1) : target.keys[k] # p.id}}

ReadDep ==
  /\ Running
  /\ \E target \in CtxTargets, p \in Usable(Rule) :
       \/ /\ At(target, p) = {}
          /\ Fail(job.target)
       \/ \E got \in At(target, p) :
            /\ job' = [job EXCEPT !.read = @ \cup {[dep |-> target.label, want |-> p, got |-> got]}]
            /\ UNCHANGED result

\* Mutation: the order of the list that is returned.
AsReturned(out) == out

\* The canonical order: by identity.
Sorted(out) == Ranked(ToSet(out), [x \in ToSet(out) |-> Rank[x.provider]])

Conflict(out) == Cardinality(Ids(out)) # Len(out)

Return ==
  /\ Running
  /\ LET known == {Instance(p, job.target) : p \in Usable(Rule)} \cup {x.got : x \in job.read} IN
       \E out \in SeqOf(known, MaxReturned) :
         \/ /\ Conflict(out)
            /\ Fail(job.target)
         \/ /\ ~Conflict(out)
            /\ result' = [result EXCEPT ![job.target] = Sorted(out)]
            /\ job' = None

\* Any other error of the implementation, or a result that is no list of instances.
Error == Running /\ Fail(job.target)

Next ==
  \/ \E t \in Target : Begin(t)
  \/ BuildAttr \/ BuildToolchains
  \/ HasToolchain \/ ReadToolchain \/ ReadDep \/ Return \/ Error

Spec == Init /\ [][Next]_vars

-------------------------------------------------------------------------------
(* Types: a finished analysis has published instances of providers.        *)
TypeOK ==
  /\ \A t \in Target : Analysed(t) =>
       \A i \in DOMAIN result[t] : result[t][i] \in {Instance(p, d) : p \in Provider, d \in Target}
  /\ job # None =>
       /\ job.target \in Target /\ result[job.target] = None
       /\ job.given \in Inputs[job.target]
       /\ DOMAIN job.attr \subseteq DOMAIN Definition[Rule].attrs

\* What the call of rule() says about an attribute of the running rule.
Written(n) == Definition[Rule].attrs[n]
Says(n, keyword) == Kwarg(Written(n).kw, keyword)
AsksFiles(n) ==
  Written(n).ctor = "label_list" /\ Says(n, "allow_files") \notin {[kind |-> "absent"], [kind |-> "bool", val |-> FALSE]}
AsksDeps(n) == Written(n).ctor \in {"label", "label_list"} /\ ~AsksFiles(n)

(* "never a silently-empty provider set" (eval.rs:440): when the           *)
(* implementation runs, each label the target lists, as a string, is there *)
(* as a Target, in order, with all that its own analysis has published.    *)
DepsComplete ==
  Running => \A n \in DOMAIN Definition[Rule].attrs : AsksDeps(n) =>
    LET labels == Labels(job.given, n) IN
      /\ Len(job.attr[n]) = Len(labels)
      /\ \A j \in DOMAIN labels :
           /\ job.attr[n][j].label = labels[j]
           /\ Analysed(labels[j])
           /\ job.attr[n][j].instances = result[labels[j]]

(* "require ALL listed" (globals.rs:370), "each dep must supply every      *)
(* required provider" (eval.rs:448): a Target of an attribute has an       *)
(* instance of each declaration that providers= lists, alone or in a       *)
(* group, not just of one under its identity.                              *)
RequiredSupplied ==
  Running => \A n \in DOMAIN Definition[Rule].attrs : AsksDeps(n) =>
    LET listed == Says(n, "providers")
        all == IF listed.kind # "list" THEN {}
               ELSE UNION {IF e.kind = "list" THEN ToSet(e.items) ELSE {e} : e \in ToSet(listed.items)}
    IN \A j \in DOMAIN job.attr[n] : \A e \in all :
         \E k \in DOMAIN job.attr[n][j].instances : job.attr[n][j].instances[k].of = e.p

(* The implementation sees what the declaration of the attribute and the   *)
(* target say, also when the declaration was loaded from another module:   *)
(* a mandatory attribute was given, a source has an extension that is      *)
(* allowed, a string that is not given has the default written for it      *)
(* (globals.rs:354-366, eval.rs:376-545).                                  *)
AttrMeansDeclaration ==
  Running => \A n \in DOMAIN Definition[Rule].attrs :
    /\ Says(n, "mandatory") = [kind |-> "bool", val |-> TRUE] => n \in DOMAIN job.given
    /\ AsksFiles(n) =>
         /\ [i \in DOMAIN job.attr[n] |-> job.attr[n][i].label] = Labels(job.given, n)
         /\ Says(n, "allow_files").kind = "list" /\ Says(n, "allow_files").items # <<>> =>
              \A i \in DOMAIN job.attr[n] : \E e \in ToSet(Says(n, "allow_files").items) :
                e.item \in EndsWith[job.attr[n][i].label]
    /\ Written(n).ctor \notin {"label", "label_list"} =>
         job.attr[n] =
           CASE n \in DOMAIN job.given -> job.given[n]
             [] n \notin DOMAIN job.given /\ Written(n).ctor = "string" ->
                  IF Says(n, "default").kind = "str" THEN Says(n, "default")
                  ELSE [kind |-> "str", item |-> ""]
             [] n \notin DOMAIN job.given /\ Written(n).ctor = "string_list" ->
                  [kind |-> "list", items |-> <<>>]
             [] OTHER -> None

(* "Bazel's ctx.toolchains accepts EITHER a Label OR a label string"       *)
(* (values_ctx.rs:26): whichever way a type was declared, both forms of    *)
(* its label find the info its target has published, or neither is in the  *)
(* context and nothing answered for the type.                              *)
ToolchainsAsWritten ==
  Running => \A x \in job.looked : x.key.kind \in {"str", "Label"} =>
    /\ x.found =>
         /\ \E i \in DOMAIN Definition[Rule].toolchains : Definition[Rule].toolchains[i].text = x.key.text
         /\ InfosFor(x.key.text) # {} /\ x.infos \subseteq InfosFor(x.key.text)
    /\ ~x.found => x.key.text \notin DOMAIN job.tools

(* dep[P] is the one instance of the declaration P that the dependency has *)
(* published: whoever reads it, and whichever target made or forwarded it, *)
(* gets the same (values_target.rs:46-53).                                 *)
IndexReadsDeclaration ==
  job # None => \A x \in job.read :
    /\ x.got.of = x.want
    /\ \A i \in DOMAIN result[x.dep] : result[x.dep][i].of = x.want => result[x.dep][i] = x.got

(* What is published is a set: the same whatever order the implementation  *)
(* returns it in, so that an unchanged target is an unchanged node value   *)
(* (eval.rs:631-633).                                                      *)
Canonical ==
  \A t \in Target : Analysed(t) =>
    \A i, j \in DOMAIN result[t] : i < j => Rank[result[t][i].provider] < Rank[result[t][j].provider]
===============================================================================
