------------------------------ MODULE AttrSchema ------------------------------
(***************************************************************************)
(* How a rule comes by its schema: the attr.* constructors and rule()      *)
(* (src/src/globals.rs), and the crossing of an attr.* declaration from    *)
(* the module of a shared attribute dict (src/src/convert.rs).  Constant   *)
(* operators, used by RuleAnalysis.                                        *)
(*                                                                         *)
(* A value of the program is a record with a kind: [kind |-> "bool", val], *)
(* "str" with its item, "list" with its items, themselves values,          *)
(* "provider" with its p, "Label", "None".  A declaration is               *)
(* attr.<ctor>(kw), made in the module of the rule or loaded into it.      *)
(***************************************************************************)
EXTENDS Naturals, Sequences, FiniteSets, SequencesExt, Ordering

CONSTANTS
  AttrOrder,  \* the attribute names, in the order of names
  TypeOrder   \* the toolchain type labels, in the order of labels

(***************************************************************************)
(* What the constants that hold values and calls of rule() are made of.    *)
(***************************************************************************)
IsGiven(v) ==
  /\ v.kind # "absent"
  /\ v.kind = "bool" => v \in [kind : {"bool"}, val : BOOLEAN]
  /\ v.kind = "str" => v = [kind |-> "str", item |-> v.item]
  /\ v.kind = "list" => v.items \in Seq(ToSet(v.items))

IsDefinition(d) ==
  /\ DOMAIN d.attrs \subseteq ToSet(AttrOrder)
  /\ \A n \in DOMAIN d.attrs : \A a \in DOMAIN d.attrs[n].kw : IsGiven(d.attrs[n].kw[a])
  /\ d.toolchains \in Seq(ToSet(d.toolchains))
  /\ \A i \in DOMAIN d.toolchains : d.toolchains[i].text \in ToSet(TypeOrder)

Kwarg(kw, a) == IF a \in DOMAIN kw THEN kw[a] ELSE [kind |-> "absent"]

\* The keywords a constructor reads; it takes any other, and drops it.
Reads ==
  [int |-> {"mandatory"}, bool |-> {"mandatory"}, string |-> {"mandatory", "default"},
   label |-> {"mandatory", "providers"},
   label_list |-> {"mandatory", "providers", "allow_files"},
   string_list |-> {"mandatory"}, string_dict |-> {"mandatory"},
   string_list_dict |-> {"mandatory"}, label_keyed_string_dict |-> {"mandatory"}]

Code ==
  [int |-> "Int", bool |-> "Bool", string |-> "String", label |-> "Label",
   label_list |-> "LabelList", string_list |-> "StringList", string_dict |-> "StringDict",
   string_list_dict |-> "StringListDict", label_keyed_string_dict |-> "LabelKeyedStringDict"]

Read(ctor, kw, a) == IF a \in Reads[ctor] THEN Kwarg(kw, a) ELSE [kind |-> "absent"]

-------------------------------------------------------------------------------
(***************************************************************************)
(* The keywords.  None is no value for allow_files, and is one for         *)
(* providers; a flag that is no bool, or a default that is no string, is   *)
(* as good as none.                                                        *)
(***************************************************************************)
AllOf(v, kinds) == v.kind = "list" /\ \A i \in DOMAIN v.items : v.items[i].kind \in kinds

FilesAccepted(v) == v.kind \in {"absent", "bool"} \/ AllOf(v, {"str"})

ProvidersAccepted(v) ==
  \/ v.kind \in {"absent", "None"}
  \/ /\ AllOf(v, {"provider", "list"})
     /\ \A i \in DOMAIN v.items : v.items[i].kind = "list" => AllOf(v.items[i], {"provider"})

parse_allow_files(v) ==
  CASE v.kind = "absent" -> [some |-> FALSE, exts |-> {}]
    [] v.kind = "bool" -> [some |-> v.val, exts |-> {}]
    [] v.kind = "list" -> [some |-> TRUE, exts |-> {v.items[i].item : i \in DOMAIN v.items}]

parse_mandatory(v) == v.kind = "bool" /\ v.val

parse_string_default(v) == IF v.kind = "str" THEN {v.item} ELSE {}

\* The groups of a nested list are flattened: all of them are required.
parse_providers(v) ==
  IF v.kind # "list" THEN {}
  ELSE UNION {IF v.items[i].kind = "provider" THEN {v.items[i].p.id}
              ELSE {v.items[i].items[j].p.id : j \in DOMAIN v.items[i].items} :
                i \in DOMAIN v.items}

AttrAccepts(ctor, kw) ==
  /\ FilesAccepted(Read(ctor, kw, "allow_files"))
  /\ ProvidersAccepted(Read(ctor, kw, "providers"))

\* attr.<ctor>(kw); a label_list with allow_files is no dependency edge.
AttrTypeValue(ctor, kw) ==
  LET allow == parse_allow_files(Read(ctor, kw, "allow_files")) IN
    [code |-> IF allow.some THEN "FileList" ELSE Code[ctor],
     allow_files |-> allow,
     providers |-> parse_providers(Read(ctor, kw, "providers")),
     mandatory |-> parse_mandatory(Read(ctor, kw, "mandatory")),
     default |-> parse_string_default(Read(ctor, kw, "default"))]

(***************************************************************************)
(* A declaration that is loaded has been projected (convert, AttrDecl) and *)
(* allocated again, field by field.                                        *)
(***************************************************************************)
\* Mutation: the default is a live-only channel, and stays behind.
CrossedBare(a) ==
  [code |-> a.code, allow_files |-> a.allow_files, providers |-> a.providers,
   mandatory |-> a.mandatory, default |-> {}]

Crossed(a) ==
  [code |-> a.code, allow_files |-> a.allow_files, providers |-> a.providers,
   mandatory |-> a.mandatory, default |-> a.default]

Attribute(d) ==
  IF d.loaded THEN Crossed(AttrTypeValue(d.ctor, d.kw)) ELSE AttrTypeValue(d.ctor, d.kw)

-------------------------------------------------------------------------------
(***************************************************************************)
(* rule(implementation, attrs, toolchains): the definition d.  Whatever is *)
(* wrong with it is an error of the module that calls rule().              *)
(***************************************************************************)
IsAttr(d) == d.ctor \in DOMAIN Reads /\ AttrAccepts(d.ctor, d.kw)

TypeEntry == {"str", "Label", "toolchain_type"}

toolchain_type_label(entry) == entry.text

RuleAccepts(d) ==
  /\ d.implementation
  /\ \A n \in DOMAIN d.attrs : IsAttr(d.attrs[n])
  /\ \A i \in DOMAIN d.toolchains : d.toolchains[i].kind \in TypeEntry

InOrder(order, S) == Ranked(S, [x \in S |-> CHOOSE i \in DOMAIN order : order[i] = x])

RuleValue(d) ==
  LET at == [n \in DOMAIN d.attrs |-> Attribute(d.attrs[n])]
      names == DOMAIN d.attrs
      sorted == InOrder(AttrOrder, names)
  IN [attrs |-> [i \in DOMAIN sorted |-> [name |-> sorted[i], code |-> at[sorted[i]].code]],
      attr_files |-> [n \in {x \in names : at[x].allow_files.some} |-> at[n].allow_files.exts],
      attr_providers |-> [n \in {x \in names : at[x].providers # {}} |-> at[n].providers],
      attr_mandatory |-> {n \in names : at[n].mandatory},
      attr_string_defaults |-> [n \in {x \in names : at[x].default # {}} |->
                                  CHOOSE s \in at[n].default : TRUE],
      toolchains |-> InOrder(TypeOrder, {toolchain_type_label(d.toolchains[i]) :
                                           i \in DOMAIN d.toolchains})]
===============================================================================
