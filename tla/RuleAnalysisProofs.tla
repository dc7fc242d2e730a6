-------------------------- MODULE RuleAnalysisProofs --------------------------
(***************************************************************************)
(* Proofs about RuleAnalysis, for every set of targets, rules and inputs:  *)
(* its types, DepsComplete, RequiredSupplied, AttrMeansDeclaration,        *)
(* ToolchainsAsWritten, IndexReadsDeclaration and Canonical.               *)
(*                                                                         *)
(* What makes them true: a schema says of each attribute what the call of  *)
(* rule() wrote, once, also after a load (AttrsAreWritten, SchemaMeans); a *)
(* result is given once and never changes, so that what an analysis has    *)
(* taken over from it stays what was published (Kept); and ctx.attr holds  *)
(* at every step the values of the first attributes, each of which was     *)
(* accepted when it was built (Built).                                     *)
(***************************************************************************)
EXTENDS RuleAnalysis, SequenceLemmas

-------------------------------------------------------------------------------
(* Schemas. *)

Absent == [kind |-> "absent"]
False == [kind |-> "bool", val |-> FALSE]
True == [kind |-> "bool", val |-> TRUE]

\* Which keywords a constructor reads, and the code it gives.
LEMMA ConstructorReads ==
  ASSUME NEW ctor \in DOMAIN Reads
  PROVE  /\ "mandatory" \in Reads[ctor]
         /\ "providers" \in Reads[ctor] <=> ctor \in {"label", "label_list"}
         /\ "allow_files" \in Reads[ctor] <=> ctor = "label_list"
         /\ "default" \in Reads[ctor] <=> ctor = "string"
         /\ Code[ctor] \in {"Label", "LabelList"} <=> ctor \in {"label", "label_list"}
         /\ Code[ctor] = "String" <=> ctor = "string"
         /\ Code[ctor] = "StringList" <=> ctor = "string_list"
BY DEF Reads, Code

\* A declaration says the same on both sides of a load.
LEMMA AttributeCrosses ==
  ASSUME NEW d
  PROVE  LET a == AttrTypeValue(d.ctor, d.kw) IN
           /\ Attribute(d).code = a.code /\ Attribute(d).allow_files = a.allow_files
           /\ Attribute(d).providers = a.providers /\ Attribute(d).mandatory = a.mandatory
           /\ Attribute(d).default = a.default
BY DEF Attribute, Crossed

\* The attribute is one of files, in the words of the declaration d.
SaysFiles(d) == d.ctor = "label_list" /\ Kwarg(d.kw, "allow_files") \notin {Absent, False}

\* What a constructor makes of its keywords.
LEMMA AttributeMeans ==
  ASSUME NEW d, IsAttr(d), \A a \in DOMAIN d.kw : IsGiven(d.kw[a])
  PROVE  /\ Attribute(d).code = IF SaysFiles(d) THEN "FileList" ELSE Code[d.ctor]
         /\ Attribute(d).allow_files.some <=> SaysFiles(d)
         /\ SaysFiles(d) /\ Kwarg(d.kw, "allow_files").kind = "list" =>
              Attribute(d).allow_files.exts
                = {Kwarg(d.kw, "allow_files").items[i].item :
                     i \in DOMAIN Kwarg(d.kw, "allow_files").items}
         /\ d.ctor \in {"label", "label_list"} =>
              Attribute(d).providers = parse_providers(Kwarg(d.kw, "providers"))
         /\ Attribute(d).mandatory <=> parse_mandatory(Kwarg(d.kw, "mandatory"))
         /\ d.ctor = "string" => Attribute(d).default = parse_string_default(Kwarg(d.kw, "default"))
PROOF
<1> DEFINE a == AttrTypeValue(d.ctor, d.kw)
           files == Read(d.ctor, d.kw, "allow_files")
<1>1. d.ctor \in DOMAIN Reads /\ FilesAccepted(files)
  BY DEF IsAttr, AttrAccepts
<1>2. /\ a.code = IF parse_allow_files(files).some THEN "FileList" ELSE Code[d.ctor]
      /\ a.allow_files = parse_allow_files(files)
      /\ a.providers = parse_providers(Read(d.ctor, d.kw, "providers"))
      /\ a.mandatory = parse_mandatory(Read(d.ctor, d.kw, "mandatory"))
      /\ a.default = parse_string_default(Read(d.ctor, d.kw, "default"))
  BY DEF AttrTypeValue
<1>3. /\ Attribute(d).code = a.code /\ Attribute(d).allow_files = a.allow_files
      /\ Attribute(d).providers = a.providers /\ Attribute(d).mandatory = a.mandatory
      /\ Attribute(d).default = a.default
  BY AttributeCrosses
<1> HIDE DEF a
<1>4. files = IF d.ctor = "label_list" THEN Kwarg(d.kw, "allow_files") ELSE Absent
  BY <1>1, ConstructorReads DEF Read, Absent
<1>5. /\ Read(d.ctor, d.kw, "mandatory") = Kwarg(d.kw, "mandatory")
      /\ d.ctor \in {"label", "label_list"} =>
           Read(d.ctor, d.kw, "providers") = Kwarg(d.kw, "providers")
      /\ d.ctor = "string" => Read(d.ctor, d.kw, "default") = Kwarg(d.kw, "default")
  BY <1>1, ConstructorReads DEF Read
<1>6. files = Absent \/ files \in {True, False} \/ files.kind = "list"
  <2>1. files = Absent \/ IsGiven(files)
    BY <1>4 DEF Kwarg, Absent
  <2> HIDE DEF files
  <2> QED BY <1>1, <2>1 DEF FilesAccepted, IsGiven, AllOf, True, False
<1>7. /\ Absent.kind = "absent" /\ True.kind = "bool" /\ True.val = TRUE
      /\ False.kind = "bool" /\ False.val = FALSE
  BY DEF Absent, True, False
<1> HIDE DEF files
<1>8. parse_allow_files(files).some <=> SaysFiles(d)
  <2>1. CASE files \in {Absent, False}
    <3>1. ~SaysFiles(d)
      BY <1>4, <2>1 DEF SaysFiles
    <3>2. parse_allow_files(files).some = FALSE
      BY <1>7, <2>1 DEF parse_allow_files
    <3> QED BY <3>1, <3>2
  <2>2. CASE files \notin {Absent, False}
    <3>1. SaysFiles(d)
      BY <1>4, <2>2 DEF SaysFiles
    <3>2. parse_allow_files(files).some = TRUE
      BY <1>6, <1>7, <2>2 DEF parse_allow_files
    <3> QED BY <3>1, <3>2
  <2> QED BY <2>1, <2>2
<1>9. SaysFiles(d) /\ Kwarg(d.kw, "allow_files").kind = "list" =>
        parse_allow_files(files).exts
          = {Kwarg(d.kw, "allow_files").items[i].item : i \in DOMAIN Kwarg(d.kw, "allow_files").items}
  BY <1>4 DEF SaysFiles, parse_allow_files
<1> QED
  BY <1>2, <1>3, <1>5, <1>8, <1>9

\* A rule that is there was accepted, as it was written.
LEMMA SchemaOf ==
  ASSUME NEW r \in DOMAIN Schema
  PROVE  /\ Schema[r] = RuleValue(Definition[r])
         /\ r \in DOMAIN Definition /\ IsDefinition(Definition[r])
         /\ \A n \in DOMAIN Definition[r].attrs :
              /\ IsAttr(Definition[r].attrs[n])
              /\ \A a \in DOMAIN Definition[r].attrs[n].kw : IsGiven(Definition[r].attrs[n].kw[a])
BY AnalysisAssumption DEF Schema, RuleAccepts, IsDefinition

\* The names in an order that has them all.
LEMMA InOrderSorts ==
  ASSUME NEW order, IsSequence(order), NEW S \in SUBSET ToSet(order)
  PROVE  /\ IsSequence(InOrder(order, S)) /\ ToSet(InOrder(order, S)) = S
         /\ \A i, j \in DOMAIN InOrder(order, S) : InOrder(order, S)[i] = InOrder(order, S)[j] => i = j
PROOF
<1> DEFINE R == [x \in S |-> CHOOSE i \in DOMAIN order : order[i] = x]
           s == InOrder(order, S)
<1>1. Len(order) \in Nat /\ DOMAIN order = 1 .. Len(order)
  BY SequenceFacts
<1>2. \A x \in S : R[x] \in DOMAIN order /\ order[R[x]] = x
  BY DEF ToSet
<1> HIDE DEF R
<1>3. Ranks(R, S)
  BY <1>1, <1>2 DEF Ranks
<1>4. IsFiniteSet(S)
  <2>1. R \in Injection(S, DOMAIN order)
    <3>1. R = [x \in S |-> R[x]]
      BY DEF R
    <3>2. R \in [S -> DOMAIN order]
      BY <1>2, <3>1
    <3> QED BY <1>2, <3>1, <3>2 DEF Injection, IsInjective
  <2>2. IsFiniteSet(DOMAIN order)
    <3>1. 1 \in Int /\ Len(order) \in Int
      BY <1>1
    <3> QED BY <1>1, <3>1, FS_Interval
  <2> QED BY <2>1, <2>2, FS_Injection
<1>5. s = Ranked(S, R)
  BY DEF InOrder, R
<1>6. /\ IsSequence(s) /\ ToSet(s) = S
      /\ \A i, j \in DOMAIN s : i < j => R[s[i]] < R[s[j]]
  BY <1>3, <1>4, <1>5, RankedSorts
<1> HIDE DEF s
<1>7. ASSUME NEW i \in DOMAIN s, NEW j \in DOMAIN s, s[i] = s[j] PROVE i = j
  <2>1. i \in Nat /\ j \in Nat
    BY <1>6, SequenceFacts
  <2>2. s[i] \in S
    BY <1>6 DEF ToSet
  <2>3. R[s[i]] \in Nat
    BY <1>3, <2>2 DEF Ranks
  <2>4. ~(i < j) /\ ~(j < i)
    BY <1>6, <1>7, <2>3
  <2> QED BY <2>1, <2>4
<1> QED
  BY <1>6, <1>7 DEF s

\* The fields of a schema.
Attributes(d) == [n \in DOMAIN d.attrs |-> Attribute(d.attrs[n])]

SortedNames(d) == InOrder(AttrOrder, DOMAIN d.attrs)

TypesListed(d) == {d.toolchains[i].text : i \in DOMAIN d.toolchains}

LEMMA SchemaFields ==
  ASSUME NEW r \in DOMAIN Schema
  PROVE  LET d == Definition[r]
             at == Attributes(d)
             names == DOMAIN d.attrs
         IN /\ Schema[r].attrs =
                 [i \in DOMAIN SortedNames(d) |->
                    [name |-> SortedNames(d)[i], code |-> at[SortedNames(d)[i]].code]]
            /\ Schema[r].attr_files = [n \in {x \in names : at[x].allow_files.some} |-> at[n].allow_files.exts]
            /\ Schema[r].attr_providers = [n \in {x \in names : at[x].providers # {}} |-> at[n].providers]
            /\ Schema[r].attr_mandatory = {n \in names : at[n].mandatory}
            /\ Schema[r].attr_string_defaults =
                 [n \in {x \in names : at[x].default # {}} |-> CHOOSE s \in at[n].default : TRUE]
            /\ Schema[r].toolchains = InOrder(TypeOrder, TypesListed(d))
PROOF
<1> DEFINE d == Definition[r]
           at == Attributes(d)
           names == DOMAIN d.attrs
           sorted == SortedNames(d)
           attrs == [i \in DOMAIN sorted |-> [name |-> sorted[i], code |-> at[sorted[i]].code]]
           attr_files == [n \in {x \in names : at[x].allow_files.some} |-> at[n].allow_files.exts]
           attr_providers == [n \in {x \in names : at[x].providers # {}} |-> at[n].providers]
           attr_mandatory == {n \in names : at[n].mandatory}
           defaults == [n \in {x \in names : at[x].default # {}} |-> CHOOSE s \in at[n].default : TRUE]
           types == InOrder(TypeOrder, TypesListed(d))
<1>1. RuleValue(d) =
        [attrs |-> attrs, attr_files |-> attr_files, attr_providers |-> attr_providers,
         attr_mandatory |-> attr_mandatory, attr_string_defaults |-> defaults, toolchains |-> types]
  BY Zenon DEF RuleValue, Attributes, SortedNames, TypesListed, toolchain_type_label
<1>2. Schema[r] = RuleValue(d)
  BY SchemaOf
<1> HIDE DEF d, attrs, attr_files, attr_providers, attr_mandatory, defaults, types
<1>3. /\ Schema[r].attrs = attrs /\ Schema[r].attr_files = attr_files
      /\ Schema[r].attr_providers = attr_providers /\ Schema[r].attr_mandatory = attr_mandatory
      /\ Schema[r].attr_string_defaults = defaults /\ Schema[r].toolchains = types
  BY <1>1, <1>2
<1> QED
  BY <1>3, Zenon DEF d, attrs, attr_files, attr_providers, attr_mandatory, defaults, types

\* The attributes of a rule are those that its definition writes, each once.
LEMMA AttrsAreWritten ==
  ASSUME NEW r \in DOMAIN Schema
  PROVE  LET A == Schema[r].attrs
             W == Definition[r].attrs
         IN /\ IsSequence(A)
            /\ \A i \in DOMAIN A :
                 /\ A[i].name \in DOMAIN W
                 /\ A[i].code = IF SaysFiles(W[A[i].name]) THEN "FileList" ELSE Code[W[A[i].name].ctor]
            /\ \A n \in DOMAIN W : \E i \in DOMAIN A : A[i].name = n
            /\ \A i, j \in DOMAIN A : A[i].name = A[j].name => i = j
PROOF
<1> DEFINE A == Schema[r].attrs
           W == Definition[r].attrs
           at == Attributes(Definition[r])
           sorted == SortedNames(Definition[r])
<1>1. A = [i \in DOMAIN sorted |-> [name |-> sorted[i], code |-> at[sorted[i]].code]]
  BY SchemaFields
<1>2. IsSequence(AttrOrder) /\ DOMAIN W \in SUBSET ToSet(AttrOrder)
  BY SchemaOf, AnalysisAssumption DEF IsDefinition, IsSequence
<1>3. /\ IsSequence(sorted) /\ ToSet(sorted) = DOMAIN W
      /\ \A i, j \in DOMAIN sorted : sorted[i] = sorted[j] => i = j
  BY <1>2, InOrderSorts DEF SortedNames
<1>4. ASSUME NEW n \in DOMAIN W
      PROVE  at[n].code = IF SaysFiles(W[n]) THEN "FileList" ELSE Code[W[n].ctor]
  <2>1. IsAttr(W[n]) /\ \A a \in DOMAIN W[n].kw : IsGiven(W[n].kw[a])
    BY SchemaOf
  <2>2. at[n] = Attribute(W[n])
    BY DEF Attributes
  <2> HIDE DEF W, at
  <2> QED BY <2>1, <2>2, AttributeMeans
<1> HIDE DEF sorted, at, W
<1>5. Len(sorted) \in Nat /\ DOMAIN sorted = 1 .. Len(sorted)
  BY <1>3, SequenceFacts
<1>6. /\ DOMAIN A = DOMAIN sorted
      /\ \A i \in DOMAIN A : A[i].name = sorted[i] /\ A[i].code = at[sorted[i]].code
      /\ A = [i \in 1 .. Len(sorted) |-> A[i]]
  BY <1>1, <1>5
<1> HIDE DEF A
<1>7. IsSequence(A)
  BY <1>5, <1>6, SequenceMade
<1>8. \A i \in DOMAIN A : sorted[i] \in DOMAIN W
  BY <1>3, <1>6 DEF ToSet
<1>9. ASSUME NEW n \in DOMAIN W PROVE \E i \in DOMAIN A : A[i].name = n
  <2>1. PICK i \in DOMAIN sorted : sorted[i] = n
    BY <1>3 DEF ToSet
  <2> QED BY <1>6, <2>1
<1>10. ASSUME NEW i \in DOMAIN A
       PROVE  /\ A[i].name \in DOMAIN W
              /\ A[i].code = IF SaysFiles(W[A[i].name]) THEN "FileList" ELSE Code[W[A[i].name].ctor]
  <2>1. A[i].name = sorted[i] /\ sorted[i] \in DOMAIN W /\ A[i].code = at[sorted[i]].code
    BY <1>6, <1>8
  <2>2. at[sorted[i]].code = IF SaysFiles(W[sorted[i]]) THEN "FileList" ELSE Code[W[sorted[i]].ctor]
    BY <1>4, <2>1
  <2> QED BY <2>1, <2>2
<1>11. ASSUME NEW i \in DOMAIN A, NEW j \in DOMAIN A, A[i].name = A[j].name PROVE i = j
  BY <1>3, <1>6, <1>11
<1> QED
  BY <1>7, <1>9, <1>10, <1>11, Zenon DEF A, W

\* What a rule's schema says of an attribute, in the words of its definition.
LEMMA SchemaMeans ==
  ASSUME NEW r \in DOMAIN Schema, NEW n \in DOMAIN Definition[r].attrs
  PROVE  LET w == Definition[r].attrs[n]
             files == Kwarg(w.kw, "allow_files")
             default == Kwarg(w.kw, "default")
         IN /\ n \in DOMAIN Schema[r].attr_files <=> SaysFiles(w)
            /\ SaysFiles(w) /\ files.kind = "list" =>
                 Schema[r].attr_files[n] = {files.items[i].item : i \in DOMAIN files.items}
            /\ w.ctor \in {"label", "label_list"} =>
                 Required(r, n) = parse_providers(Kwarg(w.kw, "providers"))
            /\ n \in Schema[r].attr_mandatory <=> parse_mandatory(Kwarg(w.kw, "mandatory"))
            /\ w.ctor = "string" =>
                 IF default.kind = "str"
                 THEN n \in DOMAIN Schema[r].attr_string_defaults
                      /\ Schema[r].attr_string_defaults[n] = default.item
                 ELSE n \notin DOMAIN Schema[r].attr_string_defaults
PROOF
<1> DEFINE W == Definition[r].attrs
           w == W[n]
           at == Attributes(Definition[r])
           files == Kwarg(w.kw, "allow_files")
           default == Kwarg(w.kw, "default")
<1>1. /\ Schema[r].attr_files = [x \in {y \in DOMAIN W : at[y].allow_files.some} |-> at[x].allow_files.exts]
      /\ Schema[r].attr_providers = [x \in {y \in DOMAIN W : at[y].providers # {}} |-> at[x].providers]
      /\ Schema[r].attr_mandatory = {y \in DOMAIN W : at[y].mandatory}
      /\ Schema[r].attr_string_defaults =
           [x \in {y \in DOMAIN W : at[y].default # {}} |-> CHOOSE s \in at[x].default : TRUE]
  BY SchemaFields
<1>2. at[n] = Attribute(w) /\ n \in DOMAIN W
  BY DEF Attributes
<1>3. IsAttr(w) /\ \A a \in DOMAIN w.kw : IsGiven(w.kw[a])
  BY SchemaOf
<1> HIDE DEF w, at, W
<1>4. /\ at[n].allow_files.some <=> SaysFiles(w)
      /\ SaysFiles(w) /\ files.kind = "list" =>
           at[n].allow_files.exts = {files.items[i].item : i \in DOMAIN files.items}
      /\ w.ctor \in {"label", "label_list"} => at[n].providers = parse_providers(Kwarg(w.kw, "providers"))
      /\ at[n].mandatory <=> parse_mandatory(Kwarg(w.kw, "mandatory"))
      /\ w.ctor = "string" => at[n].default = parse_string_default(default)
  BY <1>2, <1>3, AttributeMeans
<1> HIDE DEF files, default
<1>5. n \in DOMAIN Schema[r].attr_files <=> SaysFiles(w)
  BY <1>1, <1>2, <1>4
<1>6. SaysFiles(w) /\ files.kind = "list" =>
        Schema[r].attr_files[n] = {files.items[i].item : i \in DOMAIN files.items}
  BY <1>1, <1>2, <1>4
<1>7. w.ctor \in {"label", "label_list"} => Required(r, n) = parse_providers(Kwarg(w.kw, "providers"))
  <2>1. Required(r, n) = at[n].providers
    BY <1>1, <1>2 DEF Required
  <2> QED BY <1>4, <2>1
<1>8. n \in Schema[r].attr_mandatory <=> parse_mandatory(Kwarg(w.kw, "mandatory"))
  BY <1>1, <1>2, <1>4
<1>9. w.ctor = "string" =>
        IF default.kind = "str"
        THEN n \in DOMAIN Schema[r].attr_string_defaults
             /\ Schema[r].attr_string_defaults[n] = default.item
        ELSE n \notin DOMAIN Schema[r].attr_string_defaults
  <2>1. ASSUME w.ctor = "string", default.kind = "str"
        PROVE  n \in DOMAIN Schema[r].attr_string_defaults
               /\ Schema[r].attr_string_defaults[n] = default.item
    <3>1. at[n].default = {default.item}
      BY <1>4, <2>1 DEF parse_string_default
    <3>2. (CHOOSE s \in at[n].default : TRUE) = default.item
      BY <3>1
    <3> QED BY <1>1, <1>2, <3>1, <3>2
  <2>2. ASSUME w.ctor = "string", default.kind # "str"
        PROVE  n \notin DOMAIN Schema[r].attr_string_defaults
    <3>1. at[n].default = {}
      BY <1>4, <2>2 DEF parse_string_default
    <3> QED BY <1>1, <3>1
  <2> QED BY <2>1, <2>2
<1> QED
  BY <1>5, <1>6, <1>7, <1>8, <1>9 DEF w, W, files, default

\* The toolchain types of a rule are those that its definition lists.
LEMMA ToolchainsAreWritten ==
  ASSUME NEW r \in DOMAIN Schema
  PROVE  ToSet(Schema[r].toolchains) = TypesListed(Definition[r])
PROOF
<1>1. Schema[r].toolchains = InOrder(TypeOrder, TypesListed(Definition[r]))
  BY SchemaFields
<1>2. IsSequence(TypeOrder)
  BY AnalysisAssumption DEF IsSequence
<1>3. TypesListed(Definition[r]) \in SUBSET ToSet(TypeOrder)
  <2>1. IsDefinition(Definition[r])
    BY SchemaOf
  <2> QED BY <2>1 DEF IsDefinition, TypesListed
<1> QED
  BY <1>1, <1>2, <1>3, InOrderSorts

-------------------------------------------------------------------------------
(* The inductive invariant. *)

Instances == {Instance(p, t) : p \in Provider, t \in Target}

\* What an analysis publishes: one instance of an identity, in their order.
Published(out) ==
  /\ IsSequence(out) /\ ToSet(out) \subseteq Instances
  /\ \A i, j \in DOMAIN out : i < j => Rank[out[i].provider] < Rank[out[j].provider]

ResultsPublished ==
  /\ DOMAIN result = Target
  /\ \A t \in Target : Analysed(t) => Published(result[t])

JobStarted == job # None =>
  /\ job = [target |-> job.target, given |-> job.given, attr |-> job.attr, tools |-> job.tools,
            read |-> job.read, looked |-> job.looked]
  /\ job.target \in Target /\ result[job.target] = None
  /\ Rule \in DOMAIN Schema
  /\ job.given \in Inputs[job.target] /\ MandatoryGiven(Rule, job.given)

\* The first k attributes of a rule have been accepted and have their values.
Built(k) ==
  LET A == Schema[Rule].attrs IN
    /\ IsFiniteSet(DOMAIN job.attr) /\ Cardinality(DOMAIN job.attr) = k
    /\ DOMAIN job.attr = {A[i].name : i \in 1 .. k}
    /\ \A i \in 1 .. k : /\ AttrAccepted(Rule, A[i], job.given)
                         /\ job.attr[A[i].name] = AttrValue(Rule, A[i], job.given)

AttrsDone == job # None => \E k \in 0 .. Len(Schema[Rule].attrs) : Built(k)

ToolsDone == job # None =>
  /\ job.tools = None => job.read = {} /\ job.looked = {}
  /\ job.tools # None =>
       /\ AttrsBuilt
       /\ DOMAIN job.tools \subseteq ToSet(Schema[Rule].toolchains)
       /\ \A type \in DOMAIN job.tools : job.tools[type] \in InfosFor(type)

LookedUp == job # None => \A x \in job.looked :
  /\ x.found <=> normalize_toolchain_key(x.key) \cap DOMAIN job.tools # {}
  /\ \A i \in x.infos : \E type \in normalize_toolchain_key(x.key) \cap DOMAIN job.tools :
       i = job.tools[type]

\* dep has published got, an instance of the identity that was wanted.
Found(dep, want, got) ==
  /\ Analysed(dep)
  /\ \E i \in DOMAIN result[dep] : got = result[dep][i] /\ got.provider = want.id

ReadsFound == job # None => \A x \in job.read :
  x.want \in Usable(Rule) /\ Found(x.dep, x.want, x.got)

\* The inductive invariant.
IInv == ResultsPublished /\ JobStarted /\ AttrsDone /\ ToolsDone /\ LookedUp /\ ReadsFound

-------------------------------------------------------------------------------
(* What has been published stays. *)

Kept == \A t : Analysed(t) => Analysed(t)' /\ result'[t] = result[t]

\* Nothing is seen of the results but what has been published.
LEMMA ViewKept ==
  ASSUME Kept
  PROVE  /\ \A l : Analysed(l) => Supplied(l)' = Supplied(l)
         /\ \A r, n, l : Accepted(r, n, l) => Accepted(r, n, l)'
         /\ \A r, a, given : AttrAccepted(r, a, given) =>
              /\ AttrAccepted(r, a, given)'
              /\ AttrValue(r, a, given)' = AttrValue(r, a, given)
         /\ \A type : InfosFor(type) \subseteq InfosFor(type)'
         /\ \A dep, want, got : Found(dep, want, got) => Found(dep, want, got)'
PROOF
<1>1. ASSUME NEW l, Analysed(l) PROVE Supplied(l)' = Supplied(l) /\ Analysed(l)'
  BY <1>1 DEF Kept, Supplied
<1>2. ASSUME NEW r, NEW n, NEW l, Accepted(r, n, l) PROVE Accepted(r, n, l)'
  <2>1. Analysed(l) /\ RequiresAll(r, n, l) /\ Ids(Supplied(l)) \subseteq Index(r)
    BY <1>2 DEF Accepted
  <2>2. Supplied(l)' = Supplied(l) /\ Analysed(l)'
    BY <1>1, <2>1
  <2> QED BY <2>1, <2>2 DEF Accepted, RequiresAll
<1>3. ASSUME NEW r, NEW a, NEW given, AttrAccepted(r, a, given)
      PROVE  AttrAccepted(r, a, given)' /\ AttrValue(r, a, given)' = AttrValue(r, a, given)
  <2> DEFINE labels == Labels(given, a.name)
  <2>1. CASE IsLabel(r, a)
    <3>1. \A l \in ToSet(labels) : Accepted(r, a.name, l)
      BY <1>3, <2>1 DEF AttrAccepted
    <3>2. \A l \in ToSet(labels) : Accepted(r, a.name, l)'
      BY <1>2, <3>1
    <3>3. AttrAccepted(r, a, given)'
      BY <1>3, <3>2 DEF AttrAccepted
    <3>4. \A i \in DOMAIN labels : labels[i] \in ToSet(labels)
      BY DEF ToSet
    <3> HIDE DEF labels
    <3>5. \A i \in DOMAIN labels : Supplied(labels[i])' = Supplied(labels[i])
      BY <1>1, <3>1, <3>4 DEF Accepted
    <3>6. ~IsFiles(r, a)
      BY <2>1 DEF IsLabel
    <3>7. AttrValue(r, a, given) = [i \in DOMAIN labels |-> TargetValue(labels[i], Supplied(labels[i]))]
      BY <2>1, <3>6 DEF AttrValue, labels
    <3>8. AttrValue(r, a, given)' = [i \in DOMAIN labels |-> TargetValue(labels[i], Supplied(labels[i])')]
      BY <2>1, <3>6 DEF AttrValue, labels
    <3> QED BY <3>3, <3>5, <3>7, <3>8
  <2>2. CASE ~IsLabel(r, a)
    <3>1. AttrAccepted(r, a, given)'
      BY <1>3, <2>2 DEF AttrAccepted
    <3>2. AttrValue(r, a, given)' = AttrValue(r, a, given)
      BY <2>2 DEF AttrValue
    <3> QED BY <3>1, <3>2
  <2> QED BY <2>1, <2>2
<1>4. ASSUME NEW type PROVE InfosFor(type) \subseteq InfosFor(type)'
  <2>1. CASE Analysed(Tool[type])
    <3>1. Supplied(Tool[type])' = Supplied(Tool[type])
      BY <1>1, <2>1
    <3> QED BY <3>1 DEF InfosFor
  <2>2. CASE ~Analysed(Tool[type])
    <3>1. Supplied(Tool[type]) = <<>>
      BY <2>2 DEF Supplied
    <3>2. ToSet(Supplied(Tool[type])) = {}
      BY <3>1, SequenceShort
    <3> QED BY <3>2 DEF InfosFor
  <2> QED BY <2>1, <2>2
<1>5. ASSUME NEW dep, NEW want, NEW got, Found(dep, want, got) PROVE Found(dep, want, got)'
  BY <1>5 DEF Found, Kept
<1> QED
  BY <1>1, <1>2, <1>3, <1>4, <1>5

\* A result is given once.
LEMMA ResultKept ==
  ASSUME DOMAIN result = Target, NEW t, result[t] = None, NEW out, result' = [result EXCEPT ![t] = out]
  PROVE  Kept
PROOF
<1> SUFFICES ASSUME NEW x, Analysed(x) PROVE Analysed(x)' /\ result'[x] = result[x]
  BY DEF Kept
<1>1. x # t /\ x \in DOMAIN result
  BY DEF Analysed
<1>2. result'[x] = result[x]
  BY <1>1
<1> QED
  BY <1>2 DEF Analysed

-------------------------------------------------------------------------------
(* The steps. *)

LEMMA InitIInv == Init => IInv
PROOF
<1> SUFFICES ASSUME Init PROVE IInv
  OBVIOUS
<1>1. ResultsPublished
  BY DEF Init, ResultsPublished, Analysed
<1>2. job = None
  BY DEF Init
<1> QED
  BY <1>1, <1>2 DEF IInv, JobStarted, AttrsDone, ToolsDone, LookedUp, ReadsFound

\* The job ends with a result that is not published, or is fit to be.
LEMMA JobEnds ==
  ASSUME IInv, NEW t \in Target, result[t] = None, NEW out, out \in {None, Failed} \/ Published(out),
         result' = [result EXCEPT ![t] = out], job' = None
  PROVE  IInv'
PROOF
<1>1. DOMAIN result' = Target /\ result'[t] = out /\ \A x \in Target \ {t} : result'[x] = result[x]
  BY DEF IInv, ResultsPublished
<1>2. ASSUME NEW x \in Target, Analysed(x)' PROVE Published(result'[x])
  <2>1. CASE x = t
    BY <1>1, <1>2, <2>1 DEF Analysed
  <2>2. CASE x # t
    BY <1>1, <1>2, <2>2 DEF Analysed, IInv, ResultsPublished
  <2> QED BY <2>1, <2>2
<1>3. ResultsPublished'
  BY <1>1, <1>2 DEF ResultsPublished
<1> QED
  BY <1>3 DEF IInv, JobStarted, AttrsDone, ToolsDone, LookedUp, ReadsFound

LEMMA FailIInv ==
  ASSUME IInv, NEW t \in Target, result[t] = None, Fail(t)
  PROVE  IInv'
BY JobEnds DEF Fail

\* A job with nothing built is one of an accepted rule.
LEMMA BeginIInv ==
  ASSUME IInv, NEW t \in Target, Begin(t)
  PROVE  IInv'
PROOF
<1>1. PICK given \in Inputs[t] :
        LET fit == RuleOf[t] \in DOMAIN Schema /\ MandatoryGiven(RuleOf[t], given) IN
          \/ ~fit /\ Fail(t)
          \/ /\ fit
             /\ job' = [target |-> t, given |-> given, attr |-> <<>>, tools |-> None,
                        read |-> {}, looked |-> {}]
             /\ UNCHANGED result
  BY DEF Begin
<1>2. result[t] = None
  BY DEF Begin
<1>3. CASE Fail(t)
  BY <1>2, <1>3, FailIInv
<1>4. CASE /\ RuleOf[t] \in DOMAIN Schema /\ MandatoryGiven(RuleOf[t], given)
           /\ job' = [target |-> t, given |-> given, attr |-> <<>>, tools |-> None,
                      read |-> {}, looked |-> {}]
           /\ UNCHANGED result
  <2>1. /\ job'.target = t /\ job'.given = given /\ job'.attr = <<>> /\ job'.tools = None
        /\ job'.read = {} /\ job'.looked = {}
    BY <1>4
  <2>2. Rule' = RuleOf[t]
    BY <2>1 DEF Rule
  <2>3. JobStarted'
    BY <1>2, <1>4, <2>1, <2>2 DEF JobStarted
  <2>4. AttrsDone'
    <3>1. DOMAIN job'.attr = {} /\ IsFiniteSet({}) /\ Cardinality({}) = 0
      BY <2>1, SequenceShort, FS_EmptySet
    <3>2. 1 .. 0 = {}
      OBVIOUS
    <3>3. Built(0)'
      BY <3>1, <3>2 DEF Built
    <3>4. 0 \in 0 .. Len(Schema[RuleOf[t]].attrs)
      <4>1. IsSequence(Schema[RuleOf[t]].attrs)
        BY <1>4, AttrsAreWritten
      <4>2. Len(Schema[RuleOf[t]].attrs) \in Nat
        BY <4>1, SequenceFacts
      <4> QED BY <4>2
    <3> QED BY <2>2, <3>3, <3>4 DEF AttrsDone
  <2>5. ToolsDone' /\ LookedUp' /\ ReadsFound'
    BY <2>1 DEF ToolsDone, LookedUp, ReadsFound
  <2>6. ResultsPublished'
    BY <1>4 DEF IInv, ResultsPublished, Analysed
  <2> QED BY <2>3, <2>4, <2>5, <2>6 DEF IInv
<1> QED
  BY <1>1, <1>3, <1>4

\* Where the job is not, the results are all that the invariant is about.
LEMMA ResultsOnly ==
  ASSUME IInv, UNCHANGED result
  PROVE  ResultsPublished' /\ Kept
BY DEF IInv, ResultsPublished, Analysed, Kept

LEMMA BuildAttrIInv ==
  ASSUME IInv, BuildAttr
  PROVE  IInv'
PROOF
<1> DEFINE A == Schema[Rule].attrs
           a == NextAttr
           value == AttrValue(Rule, a, job.given)
<1>1. job # None /\ ~AttrsBuilt
  BY DEF BuildAttr
<1>2. job.target \in Target /\ result[job.target] = None
  BY <1>1 DEF IInv, JobStarted
<1>3. CASE Fail(job.target)
  BY <1>2, <1>3, FailIInv
<1>4. CASE /\ AttrAccepted(Rule, NextAttr, job.given)
           /\ job' = [job EXCEPT !.attr = [n \in DOMAIN @ \cup {NextAttr.name} |->
                         IF n = NextAttr.name THEN AttrValue(Rule, NextAttr, job.given) ELSE @[n]]]
           /\ UNCHANGED result
  <2> DEFINE attr == [n \in DOMAIN job.attr \cup {a.name} |-> IF n = a.name THEN value ELSE job.attr[n]]
  <2>1. job' = [job EXCEPT !.attr = attr]
    BY <1>4
  <2> HIDE DEF attr, a, value
  <2>2. /\ job'.target = job.target /\ job'.given = job.given /\ job'.attr = attr
        /\ job'.tools = job.tools /\ job'.read = job.read /\ job'.looked = job.looked
        /\ job' = [target |-> job'.target, given |-> job'.given, attr |-> job'.attr, tools |-> job'.tools,
                   read |-> job'.read, looked |-> job'.looked]
    BY <1>1, <2>1 DEF IInv, JobStarted
  <2>3. Rule' = Rule
    BY <2>2 DEF Rule
  <2>4. ResultsPublished' /\ Kept
    BY <1>4, ResultsOnly
  <2>5. JobStarted'
    BY <1>1, <1>4, <2>2, <2>3 DEF IInv, JobStarted
  <2>6. AttrsDone'
    <3>1. PICK k \in 0 .. Len(A) : Built(k)
      BY <1>1 DEF IInv, AttrsDone
    <3>2. IsSequence(A) /\ \A i, j \in DOMAIN A : A[i].name = A[j].name => i = j
      BY <1>1, AttrsAreWritten DEF IInv, JobStarted
    <3>3. Len(A) \in Nat /\ DOMAIN A = 1 .. Len(A)
      BY <3>2, SequenceFacts
    <3>4. k \in 0 .. Len(A) /\ k # Len(A)
      BY <1>1, <3>1 DEF AttrsBuilt, Built
    <3>5. a = A[k + 1]
      BY <3>1 DEF a, NextAttr, Built
    <3> HIDE DEF A
    <3>6. k \in Nat /\ k + 1 \in 0 .. Len(A) /\ k + 1 \in DOMAIN A
          /\ 1 .. (k + 1) = (1 .. k) \cup {k + 1} /\ k + 1 \notin 1 .. k /\ 1 .. k \subseteq DOMAIN A
      <4>1. k \in Nat /\ k < Len(A)
        <5>1. \A n \in Nat : \A m \in 0 .. n : m # n => m \in Nat /\ m < n
          OBVIOUS
        <5> QED BY <3>3, <3>4, <5>1, Zenon
      <4> QED BY <3>3, <4>1
    <3>7. /\ IsFiniteSet(DOMAIN job.attr) /\ Cardinality(DOMAIN job.attr) = k
          /\ DOMAIN job.attr = {A[i].name : i \in 1 .. k}
          /\ \A i \in 1 .. k : /\ AttrAccepted(Rule, A[i], job.given)
                               /\ job.attr[A[i].name] = AttrValue(Rule, A[i], job.given)
      BY <3>1 DEF Built, A
    <3>8. a.name \notin DOMAIN job.attr
      BY <3>2, <3>5, <3>6, <3>7
    <3>9. DOMAIN attr = DOMAIN job.attr \cup {a.name} /\ attr[a.name] = value
          /\ \A n \in DOMAIN job.attr : attr[n] = job.attr[n]
      BY <3>8 DEF attr
    <3>10. IsFiniteSet(DOMAIN attr) /\ Cardinality(DOMAIN attr) = k + 1
      <4>1. IsFiniteSet(DOMAIN job.attr \cup {a.name})
            /\ Cardinality(DOMAIN job.attr \cup {a.name}) = Cardinality(DOMAIN job.attr) + 1
        BY <3>7, <3>8, FS_AddElement
      <4> QED BY <3>7, <3>9, <4>1
    <3>11. DOMAIN attr = {A[i].name : i \in 1 .. (k + 1)}
      BY <3>5, <3>6, <3>7, <3>9
    <3>12. ASSUME NEW i \in 1 .. (k + 1)
           PROVE  AttrAccepted(Rule, A[i], job.given) /\ attr[A[i].name] = AttrValue(Rule, A[i], job.given)
      <4>1. CASE i = k + 1
        BY <1>4, <3>5, <3>9, <4>1 DEF a, value
      <4>2. CASE i \in 1 .. k
        <5>1. A[i].name \in DOMAIN job.attr
          BY <3>7, <4>2
        <5> QED BY <3>7, <3>9, <4>2, <5>1
      <4> QED BY <3>6, <4>1, <4>2
    <3>13. Built(k + 1)'
      <4>1. ASSUME NEW i \in 1 .. (k + 1)
            PROVE  /\ AttrAccepted(Rule, A[i], job.given)'
                   /\ attr[A[i].name] = AttrValue(Rule, A[i], job.given)'
        <5>1. /\ AttrAccepted(Rule, A[i], job.given)
              /\ attr[A[i].name] = AttrValue(Rule, A[i], job.given)
          BY <3>12
        <5> QED BY <1>4, <2>2, <2>3, <5>1 DEF AttrAccepted, AttrValue, Accepted, RequiresAll, Supplied, Analysed, A
      <4> QED BY <2>2, <2>3, <3>10, <3>11, <4>1 DEF Built, A
    <3> QED BY <2>3, <3>6, <3>13 DEF AttrsDone, A
  <2>7. job.tools = None
    BY <1>1 DEF IInv, ToolsDone
  <2>8. ToolsDone' /\ LookedUp' /\ ReadsFound'
    BY <1>1, <2>2, <2>7 DEF IInv, ToolsDone, LookedUp, ReadsFound
  <2> QED BY <2>4, <2>5, <2>6, <2>8 DEF IInv
<1> QED
  BY <1>3, <1>4 DEF BuildAttr

\* What is built stays built.
LEMMA BuiltKept ==
  ASSUME Kept, Rule' = Rule, job'.attr = job.attr, job'.given = job.given, NEW k, Built(k)
  PROVE  Built(k)'
PROOF
<1> DEFINE A == Schema[Rule].attrs
<1>1. ASSUME NEW i \in 1 .. k
      PROVE  AttrAccepted(Rule, A[i], job.given)' /\ job.attr[A[i].name] = AttrValue(Rule, A[i], job.given)'
  <2>1. AttrAccepted(Rule, A[i], job.given) /\ job.attr[A[i].name] = AttrValue(Rule, A[i], job.given)
    BY DEF Built
  <2> DEFINE r == Rule
             a == A[i]
             given == job.given
  <2>2. r' = r /\ a' = a /\ given' = given
    OBVIOUS
  <2> HIDE DEF r, a, given
  <2>3. AttrAccepted(r, a, given)' /\ AttrValue(r, a, given)' = AttrValue(r, a, given)
    <3>1. \A x, y, z : AttrAccepted(x, y, z) =>
            /\ AttrAccepted(x, y, z)'
            /\ AttrValue(x, y, z)' = AttrValue(x, y, z)
      BY ViewKept
    <3>2. AttrAccepted(r, a, given)
      BY <2>1 DEF r, a, given
    <3> QED BY <2>2, <3>1, <3>2
  <2> QED BY <2>1, <2>3 DEF r, a, given
<1> QED
  BY <1>1 DEF Built

\* A step of the job that adds nothing but what its last two parts record.
LEMMA JobRecords ==
  ASSUME IInv, job # None, NEW read, NEW looked, UNCHANGED result,
         job' = [target |-> job.target, given |-> job.given, attr |-> job.attr, tools |-> job.tools,
                 read |-> read, looked |-> looked],
         job.tools # None,
         \A x \in looked :
           /\ x.found <=> normalize_toolchain_key(x.key) \cap DOMAIN job.tools # {}
           /\ \A i \in x.infos : \E type \in normalize_toolchain_key(x.key) \cap DOMAIN job.tools :
                i = job.tools[type],
         \A x \in read : x.want \in Usable(Rule) /\ Found(x.dep, x.want, x.got)
  PROVE  IInv'
PROOF
<1>1. /\ job'.target = job.target /\ job'.given = job.given /\ job'.attr = job.attr
      /\ job'.tools = job.tools /\ job'.read = read /\ job'.looked = looked
      /\ job' = [target |-> job'.target, given |-> job'.given, attr |-> job'.attr, tools |-> job'.tools,
                 read |-> job'.read, looked |-> job'.looked]
  OBVIOUS
<1>2. Rule' = Rule
  BY <1>1 DEF Rule
<1>3. ResultsPublished' /\ Kept
  BY ResultsOnly
<1>4. JobStarted'
  BY <1>1, <1>2 DEF IInv, JobStarted
<1>5. AttrsDone'
  <2>1. PICK k \in 0 .. Len(Schema[Rule].attrs) : Built(k)
    BY DEF IInv, AttrsDone
  <2>2. Built(k)'
    BY <1>1, <1>2, <1>3, <2>1, BuiltKept
  <2> QED BY <1>2, <2>1, <2>2 DEF AttrsDone
<1>6. ToolsDone'
  BY <1>1, <1>2, <1>3, ViewKept DEF IInv, ToolsDone, AttrsBuilt
<1>7. LookedUp'
  BY <1>1 DEF LookedUp
<1>8. ReadsFound'
  BY <1>1, <1>2, <1>3, ViewKept DEF ReadsFound
<1> QED
  BY <1>3, <1>4, <1>5, <1>6, <1>7, <1>8 DEF IInv

\* Each type that is resolved has an info of the target that answers for it.
LEMMA BuildToolchainsIInv ==
  ASSUME IInv, BuildToolchains
  PROVE  IInv'
PROOF
<1>1. job # None /\ AttrsBuilt /\ job.tools = None
  BY DEF BuildToolchains
<1>2. job.target \in Target /\ result[job.target] = None
  BY <1>1 DEF IInv, JobStarted
<1>3. CASE Fail(job.target)
  BY <1>2, <1>3, FailIInv
<1>4. ASSUME NEW types \in SUBSET Resolvable,
             job' = [job EXCEPT !.tools = [type \in types |-> CHOOSE i \in InfosFor(type) : TRUE]],
             UNCHANGED result
      PROVE  IInv'
  <2> DEFINE tools == [type \in types |-> CHOOSE i \in InfosFor(type) : TRUE]
  <2>1. job' = [job EXCEPT !.tools = tools]
    BY <1>4
  <2>2. DOMAIN tools \subseteq ToSet(Schema[Rule].toolchains)
        /\ \A type \in DOMAIN tools : tools[type] \in InfosFor(type)
    BY DEF Resolvable
  <2> HIDE DEF tools
  <2>3. /\ job'.target = job.target /\ job'.given = job.given /\ job'.attr = job.attr
        /\ job'.tools = tools /\ job'.read = job.read /\ job'.looked = job.looked
        /\ job' = [target |-> job'.target, given |-> job'.given, attr |-> job'.attr, tools |-> job'.tools,
                   read |-> job'.read, looked |-> job'.looked]
    BY <1>1, <2>1 DEF IInv, JobStarted
  <2>4. Rule' = Rule
    BY <2>3 DEF Rule
  <2>5. ResultsPublished' /\ Kept
    BY <1>4, ResultsOnly
  <2>6. JobStarted'
    BY <1>1, <1>4, <2>3, <2>4 DEF IInv, JobStarted
  <2>7. AttrsDone'
    <3>1. PICK k \in 0 .. Len(Schema[Rule].attrs) : Built(k)
      BY <1>1 DEF IInv, AttrsDone
    <3>2. Built(k)'
      BY <2>3, <2>4, <2>5, <3>1, BuiltKept
    <3> QED BY <2>4, <3>1, <3>2 DEF AttrsDone
  <2>8. job.read = {} /\ job.looked = {}
    BY <1>1 DEF IInv, ToolsDone
  <2>9. ToolsDone'
    BY <1>1, <2>2, <2>3, <2>4, <2>5, <2>8, ViewKept DEF ToolsDone, AttrsBuilt
  <2>10. LookedUp' /\ ReadsFound'
    BY <2>3, <2>8 DEF LookedUp, ReadsFound
  <2> QED BY <2>5, <2>6, <2>7, <2>9, <2>10 DEF IInv
<1> QED
  BY <1>3, <1>4 DEF BuildToolchains

LEMMA HasToolchainIInv ==
  ASSUME IInv, HasToolchain
  PROVE  IInv'
PROOF
<1>1. job # None /\ job.tools # None /\ UNCHANGED result
  BY DEF HasToolchain, Running
<1>2. PICK key \in Keys :
        job' = [job EXCEPT !.looked =
                  {[key |-> key, infos |-> {},
                    found |-> normalize_toolchain_key(key) \cap DOMAIN job.tools # {}]}]
  BY DEF HasToolchain
<1> DEFINE looked == {[key |-> key, infos |-> {},
                      found |-> normalize_toolchain_key(key) \cap DOMAIN job.tools # {}]}
<1>3. \A x \in looked :
        /\ x.found <=> normalize_toolchain_key(x.key) \cap DOMAIN job.tools # {}
        /\ \A i \in x.infos : \E type \in normalize_toolchain_key(x.key) \cap DOMAIN job.tools :
             i = job.tools[type]
  <2> DEFINE found == normalize_toolchain_key(key) \cap DOMAIN job.tools # {}
  <2>1. ASSUME NEW x, x = [key |-> key, infos |-> {}, found |-> found]
        PROVE  (x.found <=> normalize_toolchain_key(x.key) \cap DOMAIN job.tools # {}) /\ x.infos = {}
    <3>1. x.key = key /\ x.infos = {}
      BY <2>1
    <3>2. x.found = found
      BY <2>1, Zenon
    <3> QED BY <3>1, <3>2, Zenon
  <2> QED BY <2>1
<1>4. job' = [job EXCEPT !.looked = looked]
  BY <1>2
<1> HIDE DEF looked
<1>5. job' = [target |-> job.target, given |-> job.given, attr |-> job.attr, tools |-> job.tools,
              read |-> job.read, looked |-> looked]
  BY <1>1, <1>4 DEF IInv, JobStarted
<1>6. \A x \in job.read : x.want \in Usable(Rule) /\ Found(x.dep, x.want, x.got)
  BY <1>1 DEF IInv, ReadsFound
<1> QED
  BY <1>1, <1>3, <1>5, <1>6, JobRecords

LEMMA ReadToolchainIInv ==
  ASSUME IInv, ReadToolchain
  PROVE  IInv'
PROOF
<1>1. job # None /\ job.tools # None
  BY DEF ReadToolchain, Running
<1>2. CASE Fail(job.target)
  <2>1. job.target \in Target /\ result[job.target] = None
    BY <1>1 DEF IInv, JobStarted
  <2> QED BY <1>2, <2>1, FailIInv
<1>3. ASSUME NEW key \in Keys, NEW type \in normalize_toolchain_key(key) \cap DOMAIN job.tools,
             job' = [job EXCEPT !.looked = {[key |-> key, infos |-> {job.tools[type]}, found |-> TRUE]}],
             UNCHANGED result
      PROVE  IInv'
  <2> DEFINE looked == {[key |-> key, infos |-> {job.tools[type]}, found |-> TRUE]}
  <2>1. \A x \in looked :
          /\ x.found <=> normalize_toolchain_key(x.key) \cap DOMAIN job.tools # {}
          /\ \A i \in x.infos : \E y \in normalize_toolchain_key(x.key) \cap DOMAIN job.tools :
               i = job.tools[y]
    OBVIOUS
  <2>2. job' = [job EXCEPT !.looked = looked]
    BY <1>3
  <2> HIDE DEF looked
  <2>3. job' = [target |-> job.target, given |-> job.given, attr |-> job.attr, tools |-> job.tools,
                read |-> job.read, looked |-> looked]
    BY <1>1, <2>2 DEF IInv, JobStarted
  <2>4. \A x \in job.read : x.want \in Usable(Rule) /\ Found(x.dep, x.want, x.got)
    BY <1>1 DEF IInv, ReadsFound
  <2>5. UNCHANGED result
    BY <1>3
  <2> QED BY <1>1, <2>1, <2>3, <2>4, <2>5, JobRecords
<1> QED
  BY <1>2, <1>3 DEF ReadToolchain

-------------------------------------------------------------------------------
(* What ctx.attr holds when the implementation runs. *)

LEMMA LabelsAreSequence ==
  ASSUME NEW given, NEW n, n \in DOMAIN given => IsGiven(given[n])
  PROVE  IsSequence(Labels(given, n))
PROOF
<1>1. \A x : IsSequence(<<x>>) /\ IsSequence(<<>>)
  BY SequenceShort
<1>2. CASE n \in DOMAIN given /\ given[n].kind = "list"
  <2> DEFINE items == given[n].items
             parts == [i \in DOMAIN items |-> LabelsIn(items[i])]
  <2>1. Labels(given, n) = FlattenSeq(parts) /\ IsSequence(items)
    BY <1>2 DEF Labels, IsGiven, IsSequence
  <2>2. Len(items) \in Nat /\ DOMAIN items = 1 .. Len(items)
    BY <2>1, SequenceFacts
  <2>3. parts = [i \in 1 .. Len(items) |-> parts[i]]
    BY <2>2
  <2>4. \A i \in DOMAIN parts : IsSequence(parts[i])
    BY <1>1 DEF LabelsIn
  <2> HIDE DEF parts, items
  <2>5. IsSequence(parts)
    BY <2>2, <2>3, SequenceMade
  <2>6. IsSequence(FlattenSeq(parts))
    BY <2>4, <2>5, SequenceFlatten
  <2> QED BY <2>1, <2>6
<1>3. CASE n \in DOMAIN given /\ given[n].kind = "str"
  <2>1. Labels(given, n) = <<given[n].item>>
    BY <1>3 DEF Labels
  <2> QED BY <1>1, <2>1
<1>4. CASE n \notin DOMAIN given \/ given[n].kind \notin {"list", "str"}
  <2>1. Labels(given, n) = <<>>
    BY <1>4 DEF Labels
  <2> QED BY <1>1, <2>1
<1> QED
  BY <1>2, <1>3, <1>4

\* An attribute in the words of its declaration w: files, dependencies or a
\* scalar.
SaysDeps(w) == w.ctor \in {"label", "label_list"} /\ ~SaysFiles(w)

\* What ctx.attr holds for the attribute n.
LEMMA AttrIsBuilt ==
  ASSUME IInv, Running, NEW n \in DOMAIN Definition[Rule].attrs
  PROVE  LET w == Definition[Rule].attrs[n]
             labels == Labels(job.given, n)
         IN /\ IsSequence(labels)
            /\ SaysFiles(w) =>
                 /\ job.attr[n] = [i \in DOMAIN labels |-> SourceTarget(labels[i])]
                 /\ \A i \in DOMAIN labels : SourceAccepted(Schema[Rule].attr_files[n], labels[i])
            /\ SaysDeps(w) =>
                 /\ job.attr[n] = [i \in DOMAIN labels |-> TargetValue(labels[i], Supplied(labels[i]))]
                 /\ \A i \in DOMAIN labels : Accepted(Rule, n, labels[i])
            /\ w.ctor \notin {"label", "label_list"} =>
                 job.attr[n] = Scalar(Rule, [name |-> n, code |-> Code[w.ctor]], job.given)
            /\ \E i \in DOMAIN Schema[Rule].attrs :
                 /\ Schema[Rule].attrs[i].name = n
                 /\ IsFiles(Rule, Schema[Rule].attrs[i]) <=> SaysFiles(w)
                 /\ IsLabel(Rule, Schema[Rule].attrs[i]) <=> SaysDeps(w)
PROOF
<1> DEFINE r == Rule
           A == Schema[r].attrs
           w == Definition[r].attrs[n]
           labels == Labels(job.given, n)
<1>1. job # None /\ job.tools # None
  BY DEF Running
<1>2. r \in DOMAIN Schema /\ job.given \in Inputs[job.target] /\ job.target \in Target
  BY <1>1 DEF IInv, JobStarted
<1>3. PICK k \in 0 .. Len(A) : Built(k)
  BY <1>1 DEF IInv, AttrsDone
<1>4. k = Len(A)
  BY <1>1, <1>3 DEF IInv, ToolsDone, AttrsBuilt, Built
<1>5. /\ IsSequence(A)
      /\ \A i \in DOMAIN A :
           /\ A[i].name \in DOMAIN Definition[r].attrs
           /\ A[i].code = IF SaysFiles(Definition[r].attrs[A[i].name]) THEN "FileList"
                          ELSE Code[Definition[r].attrs[A[i].name].ctor]
      /\ \E i \in DOMAIN A : A[i].name = n
  <2>1. r \in DOMAIN Schema /\ n \in DOMAIN Definition[r].attrs
    BY <1>2
  <2> HIDE DEF r
  <2> QED BY <2>1, AttrsAreWritten
<1>6. PICK i \in DOMAIN A : A[i].name = n
  BY <1>5
<1>7. i \in 1 .. k
  BY <1>4, <1>5, SequenceFacts
<1>8. AttrAccepted(r, A[i], job.given) /\ job.attr[n] = AttrValue(r, A[i], job.given)
  BY <1>3, <1>6, <1>7 DEF Built
<1>9. A[i].code = IF SaysFiles(w) THEN "FileList" ELSE Code[w.ctor]
  BY <1>5, <1>6
<1>10. w.ctor \in DOMAIN Reads
  BY <1>2, SchemaOf DEF IsAttr
<1>11. IsFiles(r, A[i]) <=> SaysFiles(w)
  BY <1>2, <1>6, SchemaMeans DEF IsFiles
<1>12. IsLabel(r, A[i]) <=> SaysDeps(w)
  <2>1. Code[w.ctor] \in {"Label", "LabelList"} <=> w.ctor \in {"label", "label_list"}
    BY <1>10, ConstructorReads
  <2> QED BY <1>9, <1>11, <2>1 DEF IsLabel, SaysDeps
<1>13. IsSequence(labels)
  <2>1. n \in DOMAIN job.given => IsGiven(job.given[n])
    BY <1>2, AnalysisAssumption
  <2> QED BY <2>1, LabelsAreSequence
<1> DEFINE a == A[i]
<1>14. a.name = n
  BY <1>6
<1>15. \A j \in DOMAIN labels : labels[j] \in ToSet(labels)
  BY DEF ToSet
<1>16. labels = Labels(job.given, a.name)
  BY <1>14
<1> HIDE DEF a, w, labels
<1>17. ASSUME SaysFiles(w)
       PROVE  /\ job.attr[n] = [j \in DOMAIN labels |-> SourceTarget(labels[j])]
              /\ \A j \in DOMAIN labels : SourceAccepted(Schema[r].attr_files[n], labels[j])
  <2>1. IsFiles(r, a) /\ ~IsLabel(r, a)
    BY <1>11, <1>17 DEF a, IsLabel
  <2>2. job.attr[n] = [j \in DOMAIN labels |-> SourceTarget(labels[j])]
    <3>1. AttrValue(r, a, job.given) = [j \in DOMAIN labels |-> SourceTarget(labels[j])]
      BY <1>16, <2>1 DEF AttrValue
    <3> QED BY <1>8, <3>1 DEF a
  <2>3. \A s \in ToSet(labels) : SourceAccepted(Schema[r].attr_files[n], s)
    BY <1>8, <1>14, <1>16, <2>1 DEF AttrAccepted, a
  <2> QED BY <1>15, <2>2, <2>3
<1>18. ASSUME SaysDeps(w)
       PROVE  /\ job.attr[n] = [j \in DOMAIN labels |-> TargetValue(labels[j], Supplied(labels[j]))]
              /\ \A j \in DOMAIN labels : Accepted(r, n, labels[j])
  <2>1. IsLabel(r, a) /\ ~IsFiles(r, a)
    BY <1>12, <1>18 DEF a, IsLabel
  <2>2. job.attr[n] = [j \in DOMAIN labels |-> TargetValue(labels[j], Supplied(labels[j]))]
    BY <1>8, <1>16, <2>1 DEF AttrValue, a
  <2>3. \A l \in ToSet(labels) : Accepted(r, n, l)
    BY <1>8, <1>14, <1>16, <2>1 DEF AttrAccepted, a
  <2> QED BY <1>15, <2>2, <2>3
<1>19. ASSUME w.ctor \notin {"label", "label_list"}
       PROVE  job.attr[n] = Scalar(r, [name |-> n, code |-> Code[w.ctor]], job.given)
  <2>1. ~IsLabel(r, a) /\ ~IsFiles(r, a) /\ ~SaysFiles(w)
    BY <1>11, <1>12, <1>19 DEF a, SaysDeps, SaysFiles
  <2>2. job.attr[n] = Scalar(r, a, job.given)
    BY <1>8, <2>1 DEF AttrValue, a
  <2>3. a.code = Code[w.ctor]
    BY <1>9, <2>1 DEF a
  <2> QED BY <1>14, <2>2, <2>3 DEF Scalar
<1> QED
  BY <1>6, <1>11, <1>12, <1>13, <1>17, <1>18, <1>19 DEF w, labels

-------------------------------------------------------------------------------
(* The steps of the implementation. *)

\* Indexing a Target of ctx.attr reads what its target has published.
LEMMA AtFinds ==
  ASSUME IInv, Running, NEW target \in CtxTargets, NEW p, NEW got \in At(target, p)
  PROVE  Found(target.label, p, got)
PROOF
<1> DEFINE A == Schema[Rule].attrs
<1>1. PICK j \in DOMAIN A : (IsFiles(Rule, A[j]) \/ IsLabel(Rule, A[j])) /\ target \in ToSet(job.attr[A[j].name])
  BY DEF CtxTargets
<1> DEFINE n == A[j].name
           w == Definition[Rule].attrs[n]
           labels == Labels(job.given, n)
<1>2. Rule \in DOMAIN Schema
  BY DEF IInv, JobStarted, Running
<1>3. n \in DOMAIN Definition[Rule].attrs /\ \A i, k \in DOMAIN A : A[i].name = A[k].name => i = k
  BY <1>1, <1>2, AttrsAreWritten
<1>4. /\ SaysFiles(w) => job.attr[n] = [i \in DOMAIN labels |-> SourceTarget(labels[i])]
      /\ SaysDeps(w) =>
           /\ job.attr[n] = [i \in DOMAIN labels |-> TargetValue(labels[i], Supplied(labels[i]))]
           /\ \A i \in DOMAIN labels : Accepted(Rule, n, labels[i])
      /\ \E i \in DOMAIN A : A[i].name = n /\ (IsFiles(Rule, A[i]) <=> SaysFiles(w))
                           /\ (IsLabel(Rule, A[i]) <=> SaysDeps(w))
  BY <1>3, AttrIsBuilt
<1>5. SaysFiles(w) \/ SaysDeps(w)
  BY <1>1, <1>3, <1>4
<1> HIDE DEF w, labels
<1>6. CASE SaysFiles(w)
  <2>1. PICK i \in DOMAIN labels : target = SourceTarget(labels[i])
    BY <1>1, <1>4, <1>6 DEF ToSet
  <2>2. target.keys = <<>> /\ DOMAIN <<>> = {}
    BY <2>1, SequenceShort DEF SourceTarget
  <2> QED BY <2>2 DEF At
<1>7. CASE SaysDeps(w)
  <2>1. PICK i \in DOMAIN labels : target = TargetValue(labels[i], Supplied(labels[i]))
    BY <1>1, <1>4, <1>7 DEF ToSet
  <2> DEFINE l == labels[i]
  <2>2. Analysed(l) /\ Supplied(l) = result[l]
    BY <1>4, <1>7 DEF Accepted, Supplied
  <2> HIDE DEF l
  <2>3. /\ target.label = l /\ target.instances = result[l]
        /\ target.keys = [k \in DOMAIN result[l] |-> result[l][k].provider]
    BY <2>1, <2>2 DEF TargetValue, l
  <2>4. PICK k \in DOMAIN target.keys : got = target.instances[k] /\ target.keys[k] = p.id
    BY DEF At
  <2>5. k \in DOMAIN result[l] /\ got = result[l][k] /\ got.provider = p.id
    BY <2>3, <2>4
  <2> QED BY <2>2, <2>3, <2>5 DEF Found
<1> QED
  BY <1>5, <1>6, <1>7

LEMMA ReadDepIInv ==
  ASSUME IInv, ReadDep
  PROVE  IInv'
PROOF
<1>1. Running /\ job # None /\ job.tools # None
  BY DEF ReadDep, Running
<1>2. CASE Fail(job.target)
  <2>1. job.target \in Target /\ result[job.target] = None
    BY <1>1 DEF IInv, JobStarted
  <2> QED BY <1>2, <2>1, FailIInv
<1>3. ASSUME NEW target \in CtxTargets, NEW p \in Usable(Rule), NEW got \in At(target, p),
             job' = [job EXCEPT !.read = @ \cup {[dep |-> target.label, want |-> p, got |-> got]}],
             UNCHANGED result
      PROVE  IInv'
  <2> DEFINE x == [dep |-> target.label, want |-> p, got |-> got]
             read == job.read \cup {x}
  <2>1. job' = [job EXCEPT !.read = read]
    BY <1>3
  <2>2. Found(target.label, p, got)
    BY <1>1, AtFinds
  <2>3. x.dep = target.label /\ x.want = p /\ x.got = got
    OBVIOUS
  <2> HIDE DEF x
  <2>4. \A y \in read : y.want \in Usable(Rule) /\ Found(y.dep, y.want, y.got)
    BY <1>1, <2>2, <2>3 DEF IInv, ReadsFound
  <2> HIDE DEF read
  <2>5. job' = [target |-> job.target, given |-> job.given, attr |-> job.attr, tools |-> job.tools,
                read |-> read, looked |-> job.looked]
    BY <1>1, <2>1 DEF IInv, JobStarted
  <2>6. \A y \in job.looked :
          /\ y.found <=> normalize_toolchain_key(y.key) \cap DOMAIN job.tools # {}
          /\ \A i \in y.infos : \E type \in normalize_toolchain_key(y.key) \cap DOMAIN job.tools :
               i = job.tools[type]
    BY <1>1 DEF IInv, LookedUp
  <2>7. UNCHANGED result
    BY <1>3
  <2> QED BY <1>1, <2>4, <2>5, <2>6, <2>7, JobRecords
<1> QED
  BY <1>2, <1>3 DEF ReadDep

\* A list of instances without a conflict, sorted, is fit to be published.
LEMMA SortedPublished ==
  ASSUME NEW out, IsSequence(out), ToSet(out) \subseteq Instances, ~Conflict(out)
  PROVE  Published(Sorted(out))
PROOF
<1> DEFINE I == 1 .. Len(out)
           f == [i \in I |-> out[i].provider]
           S == ToSet(out)
           R == [x \in S |-> Rank[x.provider]]
<1>1. Len(out) \in Nat /\ DOMAIN out = I
  BY SequenceFacts
<1>2. IsFiniteSet(I) /\ Cardinality(I) = Len(out)
  <2>1. 1 \in Int /\ Len(out) \in Int
    BY <1>1
  <2>2. IsFiniteSet(I)
    BY <2>1, FS_Interval
  <2> QED BY <1>1, <2>2, IntervalSize
<1>3. Cardinality(Ids(out)) = Len(out)
  BY DEF Conflict
<1>4. f \in Surjection(I, Ids(out))
  <2>1. f \in [I -> Ids(out)]
    BY <1>1 DEF Ids
  <2>2. \A y \in Ids(out) : \E i \in I : f[i] = y
    BY <1>1 DEF Ids
  <2> QED BY <2>1, <2>2 DEF Surjection
<1> HIDE DEF I
<1>5. f \in Injection(I, Ids(out))
  <2> HIDE DEF f
  <2> QED BY <1>2, <1>3, <1>4, FS_Surjection
<1>6. ASSUME NEW i \in I, NEW j \in I, out[i].provider = out[j].provider PROVE i = j
  <2>1. f[i] = f[j] /\ i \in DOMAIN f /\ j \in DOMAIN f
    BY <1>6
  <2> HIDE DEF f
  <2> QED BY <1>5, <2>1 DEF Injection, IsInjective
<1> HIDE DEF f
<1>7. IsFiniteSet(S)
  <2> DEFINE g == [i \in I |-> out[i]]
  <2>1. g \in Surjection(I, S)
    BY <1>1 DEF Surjection, ToSet
  <2> HIDE DEF g, S
  <2> QED BY <1>2, <2>1, FS_Surjection
<1>8. ASSUME NEW x \in S PROVE \E p \in Provider : x.provider = p.id
  BY DEF Instances, Instance
<1>9. Ranks(R, S)
  <2>1. ASSUME NEW x \in S PROVE R[x] = Rank[x.provider] /\ R[x] \in Nat
    <3>1. Rank[x.provider] \in Nat
      BY <1>8, AnalysisAssumption
    <3> QED BY <3>1
  <2>2. ASSUME NEW x \in S, NEW y \in S, R[x] = R[y] PROVE x = y
    <3>1. Rank[x.provider] = Rank[y.provider]
      BY <2>1, <2>2
    <3>2. x.provider = y.provider
      BY <1>8, <3>1, AnalysisAssumption
    <3>3. PICK i \in I : out[i] = x
      BY <1>1 DEF ToSet
    <3>4. PICK j \in I : out[j] = y
      BY <1>1 DEF ToSet
    <3> QED BY <1>6, <3>2, <3>3, <3>4
  <2> HIDE DEF R
  <2> QED BY <2>1, <2>2 DEF Ranks
<1> DEFINE s == Sorted(out)
<1>10. s = Ranked(S, R)
  BY DEF Sorted
<1>11. \A x \in S : R[x] = Rank[x.provider]
  OBVIOUS
<1> HIDE DEF R, S, s
<1>12. /\ IsSequence(s) /\ ToSet(s) = S
       /\ \A i, j \in DOMAIN s : i < j => R[s[i]] < R[s[j]]
  BY <1>7, <1>9, <1>10, RankedSorts
<1>13. \A i \in DOMAIN s : s[i] \in S
  BY <1>12 DEF ToSet
<1>14. \A i, j \in DOMAIN s : i < j => Rank[s[i].provider] < Rank[s[j].provider]
  BY <1>11, <1>12, <1>13
<1> QED
  BY <1>12, <1>14 DEF Published, S, s

LEMMA UsableKnown ==
  ASSUME NEW r \in DOMAIN Schema
  PROVE  Usable(r) \subseteq Provider
PROOF
<1>1. r \in DOMAIN Definition
  BY SchemaOf
<1>2. Visible[r] \in {Visible[x] : x \in DOMAIN Definition}
  BY <1>1
<1> QED
  BY <1>2 DEF Usable, Provider

\* What the implementation knows are instances of providers.
LEMMA ReturnIInv ==
  ASSUME IInv, Return
  PROVE  IInv'
PROOF
<1>1. job # None
  BY DEF Return, Running
<1>2. job.target \in Target /\ result[job.target] = None /\ Rule \in DOMAIN Schema
  BY <1>1 DEF IInv, JobStarted
<1> DEFINE known == {Instance(p, job.target) : p \in Usable(Rule)} \cup {x.got : x \in job.read}
<1>3. known \subseteq Instances
  <2>1. Usable(Rule) \subseteq Provider
    BY <1>2, UsableKnown
  <2>2. ASSUME NEW x \in job.read PROVE x.got \in Instances
    <3>1. Found(x.dep, x.want, x.got)
      BY <1>1 DEF IInv, ReadsFound
    <3>2. Analysed(x.dep) /\ x.dep \in Target /\ x.got \in ToSet(result[x.dep])
      BY <3>1 DEF Found, Analysed, ToSet
    <3>3. Published(result[x.dep])
      BY <3>2 DEF IInv, ResultsPublished
    <3> QED BY <3>2, <3>3 DEF Published
  <2> QED BY <1>2, <2>1, <2>2 DEF Instances
<1>4. PICK out \in SeqOf(known, MaxReturned) :
        \/ Conflict(out) /\ Fail(job.target)
        \/ /\ ~Conflict(out)
           /\ result' = [result EXCEPT ![job.target] = Sorted(out)]
           /\ job' = None
  BY DEF Return
<1> HIDE DEF known
<1>5. IsSequence(out) /\ ToSet(out) \subseteq Instances
  <2>1. PICK n \in 0 .. MaxReturned : out \in [1 .. n -> known]
    BY <1>4 DEF SeqOf
  <2>2. n \in Nat /\ out = [i \in 1 .. n |-> out[i]]
    BY <2>1
  <2>3. IsSequence(out)
    BY <2>2, SequenceMade
  <2>4. ToSet(out) \subseteq known
    BY <2>1 DEF ToSet
  <2> QED BY <1>3, <2>3, <2>4
<1>6. CASE Fail(job.target)
  BY <1>2, <1>6, FailIInv
<1>7. CASE ~Conflict(out) /\ result' = [result EXCEPT ![job.target] = Sorted(out)] /\ job' = None
  <2>1. Published(Sorted(out))
    BY <1>5, <1>7, SortedPublished
  <2> QED BY <1>2, <1>7, <2>1, JobEnds
<1> QED
  BY <1>4, <1>6, <1>7

\* Every step keeps the invariant.
LEMMA NextIInv ==
  ASSUME IInv, [Next]_vars
  PROVE  IInv'
PROOF
<1>1. CASE UNCHANGED vars
  <2>1. UNCHANGED <<result, job>>
    BY <1>1 DEF vars
  <2>2. ResultsPublished' /\ Kept /\ Rule' = Rule
    BY <2>1, ResultsOnly DEF Rule
  <2>3. JobStarted'
    BY <2>1, <2>2 DEF IInv, JobStarted
  <2>4. AttrsDone'
    <3>1. \A k : Built(k) => Built(k)'
      BY <2>1, <2>2, BuiltKept
    <3> QED BY <2>1, <2>2, <3>1 DEF IInv, AttrsDone
  <2>5. ToolsDone'
    BY <2>1, <2>2, ViewKept DEF IInv, ToolsDone, AttrsBuilt
  <2>6. LookedUp'
    BY <2>1 DEF IInv, LookedUp
  <2>7. ReadsFound'
    BY <2>1, <2>2, ViewKept DEF IInv, ReadsFound
  <2> QED BY <2>2, <2>3, <2>4, <2>5, <2>6, <2>7 DEF IInv
<1>2. CASE Error
  <2>1. job.target \in Target /\ result[job.target] = None /\ Fail(job.target)
    BY <1>2 DEF Error, Running, IInv, JobStarted
  <2> QED BY <2>1, FailIInv
<1>3. CASE \E t \in Target : Begin(t)
  BY <1>3, BeginIInv
<1>4. CASE BuildAttr \/ BuildToolchains \/ HasToolchain \/ ReadToolchain \/ ReadDep \/ Return
  BY <1>4, BuildAttrIInv, BuildToolchainsIInv, HasToolchainIInv, ReadToolchainIInv, ReadDepIInv, ReturnIInv
<1> QED
  BY <1>1, <1>2, <1>3, <1>4 DEF Next

-------------------------------------------------------------------------------
(* The theorems. *)

\* The inductive invariant holds for ever.
THEOREM Inductive == Spec => []IInv
PROOF
<1>1. IInv /\ [Next]_vars => IInv'
  BY NextIInv
<1> QED
  BY InitIInv, <1>1, PTL DEF Spec

\* A finished analysis has published instances of providers; one in progress
\* is of a target that has no result.
THEOREM TypesKept == Spec => []TypeOK
PROOF
<1>1. IInv => TypeOK
  <2> SUFFICES ASSUME IInv PROVE TypeOK
    OBVIOUS
  <2>1. ASSUME NEW t \in Target, Analysed(t), NEW i \in DOMAIN result[t]
        PROVE  result[t][i] \in {Instance(p, d) : p \in Provider, d \in Target}
    <3>1. ToSet(result[t]) \subseteq Instances
      BY <2>1 DEF IInv, ResultsPublished, Published
    <3> QED BY <3>1 DEF ToSet, Instances
  <2>2. ASSUME job # None
        PROVE  /\ job.target \in Target /\ result[job.target] = None
               /\ job.given \in Inputs[job.target]
               /\ DOMAIN job.attr \subseteq DOMAIN Definition[Rule].attrs
    <3> DEFINE A == Schema[Rule].attrs
    <3>1. /\ job.target \in Target /\ result[job.target] = None
          /\ job.given \in Inputs[job.target] /\ Rule \in DOMAIN Schema
      BY <2>2 DEF IInv, JobStarted
    <3>2. PICK k \in 0 .. Len(A) : Built(k)
      BY <2>2 DEF IInv, AttrsDone
    <3>3. IsSequence(A) /\ \A i \in DOMAIN A : A[i].name \in DOMAIN Definition[Rule].attrs
      BY <3>1, AttrsAreWritten
    <3>4. Len(A) \in Nat /\ DOMAIN A = 1 .. Len(A)
      BY <3>3, SequenceFacts
    <3>5. 1 .. k \subseteq 1 .. Len(A)
      BY <3>2, <3>4
    <3>6. DOMAIN job.attr = {A[i].name : i \in 1 .. k}
      BY <3>2 DEF Built
    <3> QED BY <3>1, <3>3, <3>4, <3>5, <3>6
  <2> QED BY <2>1, <2>2 DEF TypeOK
<1> QED
  BY Inductive, <1>1, PTL

\* The words of the properties are those of the lemmas.
LEMMA WordsAgree ==
  ASSUME NEW n
  PROVE  /\ AsksFiles(n) <=> SaysFiles(Written(n))
         /\ AsksDeps(n) <=> SaysDeps(Written(n))
BY DEF AsksFiles, AsksDeps, Says, SaysFiles, SaysDeps, Absent, False

\* Each label of a dependency is there as a Target, with all that its analysis
\* has published (eval.rs:440).
THEOREM DepsSupplied == Spec => []DepsComplete
PROOF
<1>1. IInv => DepsComplete
  <2> SUFFICES ASSUME IInv, Running, NEW n \in DOMAIN Definition[Rule].attrs, AsksDeps(n)
               PROVE  LET labels == Labels(job.given, n) IN
                        /\ Len(job.attr[n]) = Len(labels)
                        /\ \A j \in DOMAIN labels :
                             /\ job.attr[n][j].label = labels[j]
                             /\ Analysed(labels[j])
                             /\ job.attr[n][j].instances = result[labels[j]]
    BY DEF DepsComplete
  <2> DEFINE labels == Labels(job.given, n)
  <2>1. SaysDeps(Definition[Rule].attrs[n])
    BY WordsAgree DEF Written
  <2>2. /\ IsSequence(labels)
        /\ job.attr[n] = [i \in DOMAIN labels |-> TargetValue(labels[i], Supplied(labels[i]))]
        /\ \A i \in DOMAIN labels : Accepted(Rule, n, labels[i])
    BY <2>1, AttrIsBuilt
  <2> HIDE DEF labels
  <2>3. Len(labels) \in Nat /\ DOMAIN labels = 1 .. Len(labels)
    BY <2>2, SequenceFacts
  <2>4. Len(job.attr[n]) = Len(labels)
    <3> DEFINE ts == job.attr[n]
    <3>1. ts = [i \in 1 .. Len(labels) |-> ts[i]]
      BY <2>2, <2>3
    <3> HIDE DEF ts
    <3>2. Len(ts) = Len(labels)
      BY <2>3, <3>1, SequenceMade
    <3> QED BY <3>2 DEF ts
  <2>5. ASSUME NEW j \in DOMAIN labels
        PROVE  /\ job.attr[n][j].label = labels[j]
               /\ Analysed(labels[j])
               /\ job.attr[n][j].instances = result[labels[j]]
    <3>1. Analysed(labels[j]) /\ Supplied(labels[j]) = result[labels[j]]
      BY <2>2 DEF Accepted, Supplied
    <3>2. job.attr[n][j] = TargetValue(labels[j], result[labels[j]])
      BY <2>2, <3>1
    <3> QED BY <3>1, <3>2 DEF TargetValue
  <2> QED BY <2>4, <2>5 DEF labels
<1> QED
  BY Inductive, <1>1, PTL

\* What is published does not depend on the order in which it was returned
\* (eval.rs:631-633).
THEOREM ResultsCanonical == Spec => []Canonical
PROOF
<1>1. IInv => Canonical
  BY DEF IInv, ResultsPublished, Published, Canonical
<1> QED
  BY Inductive, <1>1, PTL

\* What is published has an instance of an identity once.
LEMMA PublishedOnce ==
  ASSUME NEW out, Published(out), NEW i \in DOMAIN out, NEW j \in DOMAIN out,
         out[i].provider = out[j].provider
  PROVE  i = j
PROOF
<1>1. i \in Nat /\ j \in Nat
  BY SequenceFacts DEF Published
<1>2. out[i] \in Instances
  BY DEF Published, ToSet
<1>3. Rank[out[i].provider] \in Nat
  <2>1. PICK p \in Provider : out[i].provider = p.id
    BY <1>2 DEF Instances, Instance
  <2>2. Rank[p.id] \in Nat
    BY AnalysisAssumption
  <2> QED BY <2>1, <2>2
<1>4. /\ i < j => Rank[out[i].provider] < Rank[out[j].provider]
      /\ j < i => Rank[out[j].provider] < Rank[out[i].provider]
  BY DEF Published
<1> DEFINE k == Rank[out[i].provider]
<1>5. ~(i < j) /\ ~(j < i)
  <2>1. k = Rank[out[j].provider] /\ ~(k < k)
    BY <1>3
  <2> QED BY <1>4, <2>1
<1> QED
  BY <1>1, <1>5

\* The providers that providers= lists, alone or in a group.
Listed(v) ==
  IF v.kind # "list" THEN {}
  ELSE UNION {IF e.kind = "list" THEN ToSet(e.items) ELSE {e} : e \in ToSet(v.items)}

\* No two declarations in use have one identity, that is, one name.  The export
\* loop sees to it within a module (BzlExport, ProvidersApart), for providers
\* that have a name; between modules it is up to the program.  Without it the
\* code takes one for the other, as rule_nameless shows.
IdentitiesApart ==
  \A p \in Provider :
    /\ \A q \in Provider : p.id = q.id => p = q
    /\ \A r \in DOMAIN Definition : \A n \in DOMAIN Definition[r].attrs :
         \A e \in Listed(Kwarg(Definition[r].attrs[n].kw, "providers")) : p.id = e.p.id => p = e.p

\* An instance of an identity is one of its declaration.
LEMMA InstanceOfIdentity ==
  ASSUME IdentitiesApart, NEW x \in Instances
  PROVE  /\ \A p \in Provider : x.provider = p.id <=> x.of = p
         /\ \A r \in DOMAIN Definition : \A n \in DOMAIN Definition[r].attrs :
              \A e \in Listed(Kwarg(Definition[r].attrs[n].kw, "providers")) :
                x.provider = e.p.id => x.of = e.p
PROOF
<1>1. PICK p \in Provider, t \in Target : x = Instance(p, t)
  BY DEF Instances
<1>2. x.provider = p.id /\ x.of = p
  BY <1>1 DEF Instance
<1> QED
  BY <1>2 DEF IdentitiesApart

\* dep[P] is the one instance of P that the dependency has published
\* (values_target.rs:46-53).
THEOREM IndexKept ==
  ASSUME IdentitiesApart
  PROVE  Spec => []IndexReadsDeclaration
PROOF
<1>1. IInv => IndexReadsDeclaration
  <2> SUFFICES ASSUME IInv, job # None, NEW x \in job.read
               PROVE  /\ x.got.of = x.want
                      /\ \A i \in DOMAIN result[x.dep] :
                           result[x.dep][i].of = x.want => result[x.dep][i] = x.got
    BY DEF IndexReadsDeclaration
  <2>1. x.want \in Usable(Rule) /\ Found(x.dep, x.want, x.got)
    BY DEF IInv, ReadsFound
  <2>2. x.want \in Provider
    BY <2>1, UsableKnown DEF IInv, JobStarted
  <2>3. Published(result[x.dep])
    BY <2>1 DEF Found, Analysed, IInv, ResultsPublished
  <2>4. PICK j \in DOMAIN result[x.dep] : x.got = result[x.dep][j] /\ x.got.provider = x.want.id
    BY <2>1 DEF Found
  <2>5. \A i \in DOMAIN result[x.dep] : result[x.dep][i] \in Instances
    BY <2>3 DEF Published, ToSet
  <2>6. x.got.of = x.want
    BY <2>2, <2>4, <2>5, InstanceOfIdentity
  <2>7. ASSUME NEW i \in DOMAIN result[x.dep], result[x.dep][i].of = x.want
        PROVE  result[x.dep][i] = x.got
    <3>1. result[x.dep][i].provider = x.want.id
      BY <2>2, <2>5, <2>7, InstanceOfIdentity
    <3>2. i = j
      BY <2>3, <2>4, <3>1, PublishedOnce
    <3> QED BY <2>4, <3>2
  <2> QED BY <2>6, <2>7
<1> QED
  BY Inductive, <1>1, PTL

\* What providers= lists is what is required.
LEMMA ListedRequired ==
  ASSUME NEW v, ProvidersAccepted(v), NEW e \in Listed(v)
  PROVE  e.p.id \in parse_providers(v)
PROOF
<1>1. v.kind = "list"
  BY DEF Listed
<1>2. PICK i \in DOMAIN v.items : e \in IF v.items[i].kind = "list" THEN ToSet(v.items[i].items) ELSE {v.items[i]}
  BY <1>1 DEF Listed, ToSet
<1>3. v.items[i].kind \in {"provider", "list"}
  BY <1>1 DEF ProvidersAccepted, AllOf
<1>4. e.p.id \in IF v.items[i].kind = "provider" THEN {v.items[i].p.id}
                 ELSE {v.items[i].items[j].p.id : j \in DOMAIN v.items[i].items}
  BY <1>2, <1>3 DEF ToSet
<1> DEFINE ids(x) == IF x.kind = "provider" THEN {x.p.id} ELSE {x.items[j].p.id : j \in DOMAIN x.items}
<1>5. parse_providers(v) = UNION {ids(v.items[k]) : k \in DOMAIN v.items}
  BY <1>1 DEF parse_providers
<1>6. e.p.id \in ids(v.items[i])
  BY <1>4
<1> HIDE DEF ids
<1> QED
  BY <1>5, <1>6

\* A Target of an attribute has an instance of each declaration it was to have
\* (eval.rs:448).
THEOREM RequiredKept ==
  ASSUME IdentitiesApart
  PROVE  Spec => []RequiredSupplied
PROOF
<1>1. IInv => RequiredSupplied
  <2> SUFFICES ASSUME IInv, Running, NEW n \in DOMAIN Definition[Rule].attrs, AsksDeps(n),
                      NEW j \in DOMAIN job.attr[n], NEW e \in Listed(Says(n, "providers"))
               PROVE  \E k \in DOMAIN job.attr[n][j].instances : job.attr[n][j].instances[k].of = e.p
    BY DEF RequiredSupplied, Listed
  <2> DEFINE w == Definition[Rule].attrs[n]
             labels == Labels(job.given, n)
             v == Kwarg(w.kw, "providers")
             l == labels[j]
  <2>1. SaysDeps(w) /\ w.ctor \in {"label", "label_list"}
    BY WordsAgree DEF Written, SaysDeps
  <2>2. e \in Listed(v)
    BY DEF Says, Written
  <2>3. Rule \in DOMAIN Schema
    BY DEF Running, IInv, JobStarted
  <2>4. ProvidersAccepted(v)
    <3>1. IsAttr(w)
      BY <2>3, SchemaOf
    <3>2. "providers" \in Reads[w.ctor]
      BY <2>1, <3>1, ConstructorReads DEF IsAttr
    <3> QED BY <3>1, <3>2 DEF IsAttr, AttrAccepts, Read
  <2>5. e.p.id \in Required(Rule, n)
    <3>1. Required(Rule, n) = parse_providers(v)
      BY <2>1, <2>3, SchemaMeans
    <3> HIDE DEF v
    <3> QED BY <2>2, <2>4, <3>1, ListedRequired
  <2>6. /\ job.attr[n] = [i \in DOMAIN labels |-> TargetValue(labels[i], Supplied(labels[i]))]
        /\ \A i \in DOMAIN labels : Accepted(Rule, n, labels[i])
    BY <2>1, AttrIsBuilt
  <2> HIDE DEF labels
  <2>7. j \in DOMAIN labels
    BY <2>6
  <2>8. job.attr[n][j].instances = Supplied(l)
    BY <2>6, <2>7 DEF TargetValue
  <2>9. Analysed(l) /\ Supplied(l) = result[l] /\ e.p.id \in Ids(Supplied(l))
    BY <2>5, <2>6, <2>7 DEF Accepted, RequiresAll, Supplied
  <2> HIDE DEF l
  <2>10. PICK k \in DOMAIN result[l] : result[l][k].provider = e.p.id
    BY <2>9 DEF Ids
  <2>11. result[l][k] \in Instances
    BY <2>9 DEF Analysed, IInv, ResultsPublished, Published, ToSet
  <2>12. result[l][k].of = e.p
    BY <2>2, <2>3, <2>10, <2>11, InstanceOfIdentity, SchemaOf
  <2> QED BY <2>8, <2>9, <2>12
<1> QED
  BY Inductive, <1>1, PTL

\* The implementation sees what the declaration of an attribute and the target
\* say (globals.rs:354-366, eval.rs:376-545).
THEOREM AttrsKeepMeaning == Spec => []AttrMeansDeclaration
PROOF
<1>1. IInv => AttrMeansDeclaration
  <2> SUFFICES ASSUME IInv, Running, NEW n \in DOMAIN Definition[Rule].attrs
               PROVE  /\ Says(n, "mandatory") = [kind |-> "bool", val |-> TRUE] => n \in DOMAIN job.given
                      /\ AsksFiles(n) =>
                           /\ [i \in DOMAIN job.attr[n] |-> job.attr[n][i].label] = Labels(job.given, n)
                           /\ Says(n, "allow_files").kind = "list" /\ Says(n, "allow_files").items # <<>> =>
                                \A i \in DOMAIN job.attr[n] : \E e \in ToSet(Says(n, "allow_files").items) :
                                  e.item \in EndsWith[job.attr[n][i].label]
                      /\ Written(n).ctor \notin {"label", "label_list"} =>
                           job.attr[n] =
                             CASE n \in DOMAIN job.given -> job.given[n]
                               [] n \notin DOMAIN job.given /\ Written(n).ctor = "string" ->
                                    IF Says(n, "default").kind = "str" THEN Says(n, "default")
                                    ELSE [kind |-> "str", item |-> ""]
                               [] n \notin DOMAIN job.given /\ Written(n).ctor = "string_list" ->
                                    [kind |-> "list", items |-> <<>>]
                               [] OTHER -> None
    BY DEF AttrMeansDeclaration
  <2> DEFINE w == Definition[Rule].attrs[n]
             labels == Labels(job.given, n)
             files == Kwarg(w.kw, "allow_files")
             default == Kwarg(w.kw, "default")
  <2>1. /\ job # None /\ Rule \in DOMAIN Schema
        /\ MandatoryGiven(Rule, job.given)
    BY DEF Running, IInv, JobStarted
  <2>2. /\ Written(n) = w /\ Says(n, "allow_files") = files /\ Says(n, "default") = default
        /\ Says(n, "mandatory") = Kwarg(w.kw, "mandatory")
        /\ AsksFiles(n) <=> SaysFiles(w)
    BY WordsAgree DEF Says, Written
  <2>3. IsAttr(w) /\ \A a \in DOMAIN w.kw : IsGiven(w.kw[a])
    BY <2>1, SchemaOf
  <2>4. Says(n, "mandatory") = [kind |-> "bool", val |-> TRUE] => n \in DOMAIN job.given
    <3>1. ASSUME Kwarg(w.kw, "mandatory") = [kind |-> "bool", val |-> TRUE] PROVE n \in DOMAIN job.given
      <4>1. parse_mandatory(Kwarg(w.kw, "mandatory"))
        BY <3>1 DEF parse_mandatory
      <4>2. n \in Schema[Rule].attr_mandatory
        BY <2>1, <4>1, SchemaMeans
      <4> QED BY <2>1, <4>2 DEF MandatoryGiven
    <3> QED BY <2>2, <3>1
  <2>5. /\ IsSequence(labels)
        /\ SaysFiles(w) =>
             /\ job.attr[n] = [i \in DOMAIN labels |-> SourceTarget(labels[i])]
             /\ \A i \in DOMAIN labels : SourceAccepted(Schema[Rule].attr_files[n], labels[i])
        /\ w.ctor \notin {"label", "label_list"} =>
             job.attr[n] = Scalar(Rule, [name |-> n, code |-> Code[w.ctor]], job.given)
    BY AttrIsBuilt
  <2>6. SaysFiles(w) /\ files.kind = "list" =>
          Schema[Rule].attr_files[n] = {files.items[i].item : i \in DOMAIN files.items}
    BY <2>1, SchemaMeans
  <2>7. w.ctor = "string" =>
          IF default.kind = "str"
          THEN n \in DOMAIN Schema[Rule].attr_string_defaults
               /\ Schema[Rule].attr_string_defaults[n] = default.item
          ELSE n \notin DOMAIN Schema[Rule].attr_string_defaults
    BY <2>1, SchemaMeans
  <2>8. default.kind = "str" => default = [kind |-> "str", item |-> default.item]
    <3>1. default = Absent \/ IsGiven(default)
      BY <2>3 DEF Kwarg, Absent
    <3> HIDE DEF default
    <3> QED BY <3>1 DEF IsGiven, Absent
  <2>9. files.kind = "list" => IsSequence(files.items)
    <3>1. files = Absent \/ IsGiven(files)
      BY <2>3 DEF Kwarg, Absent
    <3> HIDE DEF files
    <3> QED BY <3>1 DEF IsGiven, Absent, IsSequence
  <2>10. /\ Code[w.ctor] = "String" <=> w.ctor = "string"
         /\ Code[w.ctor] = "StringList" <=> w.ctor = "string_list"
    BY <2>3, ConstructorReads DEF IsAttr
  <2> HIDE DEF w, labels, files, default
  <2>11. ASSUME SaysFiles(w)
         PROVE  [i \in DOMAIN job.attr[n] |-> job.attr[n][i].label] = labels
    <3>1. \A i \in DOMAIN labels : job.attr[n][i].label = labels[i]
      BY <2>5, <2>11 DEF SourceTarget
    <3>2. DOMAIN job.attr[n] = DOMAIN labels
      BY <2>5, <2>11
    <3>3. labels = [i \in DOMAIN labels |-> labels[i]]
      BY <2>5, SequenceFacts
    <3> QED BY <3>1, <3>2, <3>3
  <2>12. ASSUME SaysFiles(w), files.kind = "list", files.items # <<>>, NEW i \in DOMAIN job.attr[n]
         PROVE  \E e \in ToSet(files.items) : e.item \in EndsWith[job.attr[n][i].label]
    <3> DEFINE exts == {files.items[k].item : k \in DOMAIN files.items}
    <3>1. i \in DOMAIN labels /\ job.attr[n][i].label = labels[i]
      BY <2>5, <2>12 DEF SourceTarget
    <3>2. DOMAIN files.items # {}
      <4>1. \A S : \A s \in Seq(S) : s # <<>> => 1 \in DOMAIN s
        OBVIOUS
      <4> QED BY <2>9, <2>12, <4>1 DEF IsSequence
    <3>3. exts # {}
      BY <3>2
    <3>4. SourceAccepted(exts, labels[i])
      BY <2>5, <2>6, <2>12, <3>1
    <3>5. EndsWith[labels[i]] \cap exts # {}
      BY <3>3, <3>4 DEF SourceAccepted
    <3>6. PICK k \in DOMAIN files.items : files.items[k].item \in EndsWith[labels[i]]
      BY <3>5
    <3> QED BY <3>1, <3>6 DEF ToSet
  <2>13. ASSUME w.ctor \notin {"label", "label_list"}
         PROVE  job.attr[n] =
                  CASE n \in DOMAIN job.given -> job.given[n]
                    [] n \notin DOMAIN job.given /\ w.ctor = "string" ->
                         IF default.kind = "str" THEN default ELSE [kind |-> "str", item |-> ""]
                    [] n \notin DOMAIN job.given /\ w.ctor = "string_list" ->
                         [kind |-> "list", items |-> <<>>]
                    [] OTHER -> None
    <3> DEFINE a == [name |-> n, code |-> Code[w.ctor]]
    <3>1. job.attr[n] = Scalar(Rule, a, job.given)
      BY <2>5, <2>13
    <3>2. a.name = n /\ a.code = Code[w.ctor]
      OBVIOUS
    <3> HIDE DEF a
    <3>3. CASE n \in DOMAIN job.given
      BY <3>1, <3>2, <3>3 DEF Scalar
    <3>4. CASE n \notin DOMAIN job.given /\ w.ctor = "string"
      <4>1. Scalar(Rule, a, job.given) =
              [kind |-> "str", item |-> IF n \in DOMAIN Schema[Rule].attr_string_defaults
                                        THEN Schema[Rule].attr_string_defaults[n] ELSE ""]
        BY <2>10, <3>2, <3>4 DEF Scalar
      <4> QED BY <2>7, <2>8, <3>1, <3>4, <4>1
    <3>5. CASE n \notin DOMAIN job.given /\ w.ctor = "string_list"
      BY <2>10, <3>1, <3>2, <3>5 DEF Scalar
    <3>6. CASE n \notin DOMAIN job.given /\ w.ctor \notin {"string", "string_list"}
      BY <2>10, <3>1, <3>2, <3>6 DEF Scalar
    <3> QED BY <3>3, <3>4, <3>5, <3>6
  <2> QED BY <2>2, <2>4, <2>11, <2>12, <2>13 DEF labels
<1> QED
  BY Inductive, <1>1, PTL

\* Whichever way a toolchain type was declared, both forms of its label find
\* what its target has published (values_ctx.rs:26).
THEOREM ToolchainsKept == Spec => []ToolchainsAsWritten
PROOF
<1>1. IInv => ToolchainsAsWritten
  <2> SUFFICES ASSUME IInv, Running, NEW x \in job.looked, x.key.kind \in {"str", "Label"}
               PROVE  /\ x.found =>
                           /\ \E i \in DOMAIN Definition[Rule].toolchains :
                                Definition[Rule].toolchains[i].text = x.key.text
                           /\ InfosFor(x.key.text) # {} /\ x.infos \subseteq InfosFor(x.key.text)
                      /\ ~x.found => x.key.text \notin DOMAIN job.tools
    BY DEF ToolchainsAsWritten
  <2>1. job # None /\ job.tools # None /\ Rule \in DOMAIN Schema
    BY DEF Running, IInv, JobStarted
  <2>2. normalize_toolchain_key(x.key) = {x.key.text}
    BY DEF normalize_toolchain_key
  <2>3. /\ x.found <=> x.key.text \in DOMAIN job.tools
        /\ \A i \in x.infos : x.key.text \in DOMAIN job.tools /\ i = job.tools[x.key.text]
    BY <2>1, <2>2 DEF IInv, LookedUp
  <2>4. /\ DOMAIN job.tools \subseteq TypesListed(Definition[Rule])
        /\ \A type \in DOMAIN job.tools : job.tools[type] \in InfosFor(type)
    BY <2>1, ToolchainsAreWritten DEF IInv, ToolsDone
  <2> QED BY <2>3, <2>4 DEF TypesListed
<1> QED
  BY Inductive, <1>1, PTL
===============================================================================
