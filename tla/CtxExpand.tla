------------------------------- MODULE CtxExpand -------------------------------
(***************************************************************************)
(* ctx.expand_location and ctx.expand_make_variables:                      *)
(* src/src/values_ctx.rs, expand_directives and ctx_methods.               *)
(*                                                                         *)
(* The scanner reads bytes and writes characters.  A character is its own  *)
(* byte, except Wide, which stands for any character outside ASCII and     *)
(* which UTF-8 writes as the bytes Lead and Trail; a byte above 127 taken  *)
(* for a character is one of Latin-1, and never Wide.  Strings are         *)
(* sequences of characters.                                                *)
(***************************************************************************)
EXTENDS Naturals, Sequences, SequencesExt

CONSTANTS
  Char,        \* the characters of strings, with "$", "(", ")" and " "
  Wide, Lead, Trail,
  CtxVar,      \* ctx.var: sequence of <<name, value>>
  Additional,  \* bound: the maps additional_substitutions may be,
               \* each a sequence of <<name, value>>
  MaxInput,    \* bound: characters of an input
  None

ASSUME CharAssumption ==
  /\ {"$", "(", ")", " ", Wide} \subseteq Char
  /\ Wide \notin {"$", "(", ")", " "}
  /\ {Lead, Trail} \cap Char = {}

\* A map holds strings: the code skips an entry that is anything else.
ASSUME VarAssumption ==
  /\ {CtxVar} \cup Additional \subseteq Seq(Seq(Char) \X Seq(Char))
  /\ None \notin Seq(Char)

ASSUME BoundAssumption == MaxInput \in Nat

VARIABLES
  call,    \* [method, input, vars]
  i,       \* the byte to read next
  out,     \* characters written
  outcome  \* "running", "ok", "unterminated" or "unsupported"

vars == <<call, i, out, outcome>>

Encoded(c) == IF c = Wide THEN <<Lead, Trail>> ELSE <<c>>

Bytes(s) == FlattenSeq([k \in DOMAIN s |-> Encoded(s[k])])

AsChar(byte) == byte

Input == Bytes(call.input)

\* The first place of b at or after k, or 0.
Find(b, k) == LET at == {j \in k..Len(Input) : Input[j] = b}
              IN  IF at = {} THEN 0 ELSE CHOOSE j \in at : \A l \in at : j <= l

\* [mutation] A directive with a blank is looked up like any other.
ResolveBlanks(inner) ==
  LET named == {k \in DOMAIN call.vars : Bytes(call.vars[k][1]) = inner}
  IN  IF call.method = "expand_location" \/ named = {}
      THEN None
      ELSE call.vars[CHOOSE k \in named : \A l \in named : k <= l][2]

\* ctx.var first, then the additional map; no location is resolved.
Resolve(inner) ==
  LET named == {k \in DOMAIN call.vars : Bytes(call.vars[k][1]) = inner}
  IN  IF call.method = "expand_location" \/ " " \in Range(inner) \/ named = {}
      THEN None
      ELSE call.vars[CHOOSE k \in named : \A l \in named : k <= l][2]
-----------------------------------------------------------------------------
Call(method, input, additional) ==
  [method |-> method, input |-> input,
   vars |-> IF method = "expand_location" THEN <<>> ELSE CtxVar \o additional]

Init ==
  /\ \E input \in BoundedSeq(Char, MaxInput), additional \in Additional,
        method \in {"expand_location", "expand_make_variables"}:
       call = Call(method, input, additional)
  /\ i = 1
  /\ out = <<>>
  /\ outcome = "running"

Reading == outcome = "running" /\ i <= Len(Input)

Starts(b) == Input[i] = "$" /\ i < Len(Input) /\ Input[i + 1] = b

\* [mutation] The second dollar is read again.
EscapeOnce ==
  /\ Reading /\ Starts("$")
  /\ out' = Append(out, "$")
  /\ i' = i + 1
  /\ UNCHANGED <<call, outcome>>

\* "$$"
Escape ==
  /\ Reading /\ Starts("$")
  /\ out' = Append(out, "$")
  /\ i' = i + 2
  /\ UNCHANGED <<call, outcome>>

\* "$(" without ")".
Unterminated ==
  /\ Reading /\ Starts("(") /\ Find(")", i + 2) = 0
  /\ outcome' = "unterminated"
  /\ UNCHANGED <<call, i, out>>

\* [mutation] The length of the whole directive is one too many.
DirectiveLong ==
  /\ Reading /\ Starts("(") /\ Find(")", i + 2) # 0
  /\ LET close == Find(")", i + 2)
         replacement == Resolve(SubSeq(Input, i + 2, close - 1))
     IN  \/ /\ replacement # None
            /\ out' = out \o replacement
            /\ i' = close + 2
            /\ UNCHANGED outcome
         \/ /\ replacement = None
            /\ outcome' = "unsupported"
            /\ UNCHANGED <<i, out>>
  /\ UNCHANGED call

\* "$(inner)": replaced, or refused.
Directive ==
  /\ Reading /\ Starts("(") /\ Find(")", i + 2) # 0
  /\ LET close == Find(")", i + 2)
         replacement == Resolve(SubSeq(Input, i + 2, close - 1))
     IN  \/ /\ replacement # None
            /\ out' = out \o replacement
            /\ i' = close + 1
            /\ UNCHANGED outcome
         \/ /\ replacement = None
            /\ outcome' = "unsupported"
            /\ UNCHANGED <<i, out>>
  /\ UNCHANGED call

\* Every other byte is pushed as a character.
Literal ==
  /\ Reading /\ ~Starts("$") /\ ~Starts("(")
  /\ out' = Append(out, AsChar(Input[i]))
  /\ i' = i + 1
  /\ UNCHANGED <<call, outcome>>

\* [mutation] The loop runs one byte too far.
FinishLate ==
  /\ outcome = "running" /\ i > Len(Input) + 1
  /\ outcome' = "ok"
  /\ UNCHANGED <<call, i, out>>

\* The whole input is read.
Finish ==
  /\ outcome = "running" /\ i > Len(Input)
  /\ outcome' = "ok"
  /\ UNCHANGED <<call, i, out>>

Next == Escape \/ Unterminated \/ Directive \/ Literal \/ Finish

Spec == Init /\ [][Next]_vars /\ WF_vars(Next)
-----------------------------------------------------------------------------
(* Properties. *)

\* Type correctness: no step of the scanner leads past the byte after the
\* input.
TypeOK ==
  /\ i \in 1..Len(Input) + 1
  /\ outcome \in {"running", "ok", "unterminated", "unsupported"}

\* The dollar at p opens a directive: the dollars up to it are odd in number.
Opens(s, p) ==
  /\ p < Len(s) /\ s[p] = "$" /\ s[p + 1] = "("
  /\ \E n \in 0..p-1:
       /\ \A k \in p-n..p : s[k] = "$"
       /\ p - n > 1 => s[p - n - 1] # "$"
       /\ n % 2 = 0

\* The place p is in a directive that opens before it: no parenthesis closes
\* between the two.
Inside(s, p) ==
  \E q \in 1..p-1 : Opens(s, q) /\ \A k \in q..p-1 : s[k] # ")"

\* The parenthesis after the directive's name is the first one, so a name with
\* one is never meant; nor is a name with a blank.
Names(name, s, p) ==
  /\ Range(name) \cap {" ", ")"} = {}
  /\ IsPrefix(name \o <<")">>, SubSeq(s, p, Len(s)))

\* An expansion that succeeds has met no directive it cannot resolve: every
\* one that is neither escaped nor text of another closes and names a
\* variable, and expand_location has met none at all (values_ctx.rs:
\* "FAIL-CLOSED on any unsupported $(...) form").
FailClosed ==
  outcome = "ok" =>
    \A p \in DOMAIN call.input:
      Opens(call.input, p) /\ ~Inside(call.input, p) =>
        /\ call.method = "expand_make_variables"
        /\ \E k \in DOMAIN call.vars : Names(call.vars[k][1], call.input, p + 2)

\* The first variable that the directive at p names.
Named(vs, s, p) == {k \in DOMAIN vs : Names(vs[k][1], s, p + 2)}
Variable(vs, s, p) ==
  vs[CHOOSE k \in Named(vs, s, p) : \A l \in Named(vs, s, p) : k <= l]

Then(prefix, rest) == IF rest = None THEN None ELSE prefix \o rest

Pair(s, p, c) == p < Len(s) /\ s[p] = "$" /\ s[p + 1] = c

\* What the text says from each place on, in characters: nil from where on it
\* cannot be expanded.
MeaningFrom(vs, s) ==
  LET from[p \in 1..Len(s)+1] ==
        IF p > Len(s) THEN <<>>
        ELSE IF Pair(s, p, "$") THEN Then(<<"$">>, from[p + 2])
        ELSE IF ~Pair(s, p, "(") THEN Then(<<s[p]>>, from[p + 1])
        ELSE IF Named(vs, s, p) = {} THEN None
        ELSE Then(Variable(vs, s, p)[2], from[p + Len(Variable(vs, s, p)[1]) + 3])
  IN  from

Meaning == MeaningFrom(call.vars, call.input)[1]

Ascii == Wide \notin Range(call.input)

\* On ASCII text the scanner gives what the text says, or fails where it says
\* nothing; a replacement is not read again, and ctx.var is asked before the
\* additional map (values_ctx.rs, expand_directives).
ExpandsMeaning ==
  /\ outcome = "ok" /\ Ascii => out = Meaning
  /\ outcome \in {"unterminated", "unsupported"} => Meaning = None

\* Every call returns.
Returns == <>(outcome # "running")

\* values_ctx.rs:121: "No `$(...)` -> the input verbatim"; of the text without
\* any dollar, that leaves out "$$".
Verbatim ==
  outcome = "ok" /\ "$" \notin Range(call.input) => out = call.input
=============================================================================
