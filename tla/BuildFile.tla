------------------------------ MODULE BuildFile -------------------------------
(***************************************************************************)
(* What a BUILD text does to the registry it is evaluated with:            *)
(* src/src/globals.rs (target(), the native declarations) and              *)
(* src/src/values.rs (calling a loaded rule).  Constant operators, shared  *)
(* by DirectPackage and BuildPackage.                                      *)
(*                                                                         *)
(* A text is a deterministic program.  The model keeps of it only the      *)
(* calls it makes of the builtins: CallOf(t, seen) is the next call of     *)
(* text t when its calls so far have returned seen, a sequence of sets of  *)
(* files (a glob returns files; a declaration returns None, here {}).      *)
(* Macros loaded from a .bzl make their calls in the same stream.          *)
(***************************************************************************)
EXTENDS Naturals, Sequences

CONSTANTS
  Text,          \* BUILD texts
  File,          \* the source files a package directory may hold
  GlobSpec,      \* glob() argument lists
  Pattern,       \* Pattern[g]: the files spec g would match
  AllowEmpty,    \* the specs with allow_empty = True
  CallOf(_, _),  \* the next call of a text
  MaxCalls       \* bound: the calls a text makes

ASSUME BuildAssumption ==
  /\ Pattern \in [GlobSpec -> SUBSET File]
  /\ AllowEmpty \subseteq GlobSpec
  /\ MaxCalls \in Nat

\* The sorted file list of a glob, as a set.
Matches(g, files) == Pattern[g] \cap files

-------------------------------------------------------------------------------
(***************************************************************************)
(* Attribute values and declared types.  A select() passes for any type:   *)
(* its shape is checked when it is resolved.                               *)
(***************************************************************************)
Shape ==
  [ty \in {"Int", "Bool", "String", "Label", "LabelList", "StringList", "FileList",
           "StringDict", "StringListDict", "LabelKeyedStringDict"} |->
     CASE ty = "Int" -> "Int"
       [] ty = "Bool" -> "Bool"
       [] ty \in {"String", "Label"} -> "Str"
       [] ty \in {"LabelList", "StringList", "FileList"} -> "List"
       [] OTHER -> "Dict"]

attr_value_matches(v, ty) ==
  \/ v.kind = "Select"
  \/ v.kind = Shape[ty] /\ (v.kind = "List" => v.all_str)

\* convert() outside a module export: a function has no module to refer to.
Convertible(v) == v.kind # "Function"

IsDup(targets, name) == \E i \in 1 .. Len(targets) : targets[i].name = name

(***************************************************************************)
(* The declarations built in.  Of what they are given they record only     *)
(* part, and only that part is converted.                                  *)
(***************************************************************************)
Signature ==
  [toolchain_type |-> [strings |-> {}, recorded |-> {}, ignored |-> {"visibility"}],
   toolchain |-> [strings |-> {"toolchain", "toolchain_type"}, recorded |-> {},
                  ignored |-> {"visibility"}],
   alias |-> [strings |-> {"actual"}, recorded |-> {"visibility"}, ignored |-> {}],
   config_setting |->
     [strings |-> {}, ignored |-> {},
      recorded |-> {"constraint_values", "values", "define_values", "flag_values", "visibility"}],
   constraint_setting |->
     [strings |-> {}, recorded |-> {}, ignored |-> {"default_constraint_value", "visibility"}],
   constraint_value |->
     [strings |-> {}, recorded |-> {}, ignored |-> {"constraint_setting", "visibility"}]]

\* None for an attribute of a config_setting is the same as leaving it out.
Recorded(kind, given) ==
  {a \in (Signature[kind].strings \cup Signature[kind].recorded) \cap DOMAIN given :
     ~(kind = "config_setting" /\ given[a].kind = "None")}

NativeAccepted(kind, given) ==
  /\ Signature[kind].strings \subseteq DOMAIN given
  /\ DOMAIN given \subseteq UNION {Signature[kind].strings, Signature[kind].recorded,
                                  Signature[kind].ignored}
  /\ \A a \in Signature[kind].strings : given[a].kind = "Str"
  /\ \A a \in Recorded(kind, given) : Convertible(given[a])

(***************************************************************************)
(* A rule takes the attributes of its schema, of their declared types, and *)
(* the common ones; target() takes anything.                               *)
(***************************************************************************)
CommonAttr == {"visibility", "tags"}

RuleAccepted(rule, given) ==
  \A a \in DOMAIN given :
    /\ a \in DOMAIN rule.attrs \cup CommonAttr
    /\ Convertible(given[a])
    /\ a \in DOMAIN rule.attrs => attr_value_matches(given[a], rule.attrs[a])

Given(call) == [a \in DOMAIN call.named \ {"name"} |-> call.named[a]]

Named(call) == "name" \in DOMAIN call.named /\ call.named["name"].kind = "Str"

Takes(call) ==
  CASE call.op = "rule" -> ~call.positional /\ RuleAccepted(call.rule, Given(call))
    [] call.op = "native" -> NativeAccepted(call.kind, Given(call))
    [] OTHER -> \A a \in DOMAIN Given(call) : Convertible(Given(call)[a])

\* Mutation: a rule call does not look for a target of the same name.
AcceptedTwice(targets, call) ==
  /\ Named(call)
  /\ Takes(call)
  /\ call.op = "rule" \/ ~IsDup(targets, call.named["name"].text)

Accepted(targets, call) ==
  /\ Named(call)
  /\ Takes(call)
  /\ ~IsDup(targets, call.named["name"].text)

NoOrigin == [bzl |-> "", name |-> ""]

Declared(call) ==
  [kind |-> IF call.op = "rule" THEN call.rule.name ELSE call.kind,
   name |-> call.named["name"].text,
   attrs |-> IF call.op = "native"
             THEN [a \in Recorded(call.kind, Given(call)) |-> call.named[a]]
             ELSE Given(call),
   origin |-> IF call.op = "rule" THEN [bzl |-> call.rule.bzl, name |-> call.rule.name]
              ELSE NoOrigin]

IsDeclaration(call) == call.op \in {"target", "native", "rule"}

-------------------------------------------------------------------------------
(***************************************************************************)
(* The reference: text t evaluated once, every glob reading the directory  *)
(* F.  An evaluation that has ended stays as it is.                        *)
(***************************************************************************)
Started == [seen |-> <<>>, targets |-> <<>>, read |-> {}, status |-> "running"]

Stepped(t, F, r) ==
  LET call == CallOf(t, r.seen) IN
    IF r.status # "running" THEN r
    ELSE IF call.op = "end" THEN [r EXCEPT !.status = "done"]
    ELSE IF call.op = "glob"
         THEN [r EXCEPT !.seen = Append(@, Matches(call.spec, F)), !.read = @ \cup {call.spec}]
    ELSE IF IsDeclaration(call) /\ Accepted(r.targets, call)
         THEN [r EXCEPT !.seen = Append(@, {}), !.targets = Append(@, Declared(call))]
    ELSE [r EXCEPT !.status = "failed"]

\* What has come of it after n calls.
After(t, F) ==
  LET after[n \in 0 .. MaxCalls + 1] ==
        IF n = 0 THEN Started ELSE Stepped(t, F, after[n - 1])
  IN after

Evaluated(t, F) == After(t, F)[MaxCalls + 1]
===============================================================================
