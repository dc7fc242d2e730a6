----------------------------- MODULE LinkedModules -----------------------------
(***************************************************************************)
(* What load() promises, with no bridge, no digest and no ref: a loaded    *)
(* function is the function of the very code the loader was given, a call  *)
(* of it always succeeds and runs that code, and a module is evaluated     *)
(* again when the code it is linked to is no longer the code its load      *)
(* targets export.  LiveModules implements this specification with         *)
(* content-addressed refs and a cache of frozen modules.                   *)
(***************************************************************************)
EXTENDS BzlContent, Naturals, Sequences

CONSTANTS Worker, Texts, NoValue, NoCode, NoJob

VARIABLES
  source,  \* the current text of each module
  value,   \* what each module exports
  built,   \* the code that value came from
  run      \* what each worker evaluates: a code and a stack of codes

vars == <<source, value, built, run>>

Init ==
  /\ source \in {f \in [Module -> Source] : \A m \in Module : f[m] \in Texts[m]}
  /\ value = [m \in Module |-> NoValue]
  /\ built = [m \in Module |-> NoCode]
  /\ run = [w \in Worker |-> NoJob]

Ready(m) == \A d \in Loads[source[m]] : value[d] # NoValue

Linked(m) ==
  [module |-> m, source |-> source[m],
   loaded |-> [d \in Loads[source[m]] |-> value[d]]]

Edit(m) ==
  /\ \E s \in Texts[m] : source' = [source EXCEPT ![m] = s]
  /\ UNCHANGED <<value, built, run>>

\* A module is evaluated when the code it would be linked to now is not the
\* code it was built from; a rule or a BUILD file whenever asked for.
Begin(w, m, reader) ==
  /\ run[w] = NoJob
  /\ Ready(m)
  /\ reader \/ built[m] # Linked(m)
  /\ run' = [run EXCEPT ![w] = [reader |-> reader, code |-> Linked(m), stack |-> <<>>]]
  /\ UNCHANGED <<source, value, built>>

Running(w) ==
  IF run[w].stack = <<>> THEN run[w].code ELSE run[w].stack[Len(run[w].stack)]

Call(w) ==
  /\ run[w] # NoJob
  /\ \E l \in LinksOf(Running(w)) :
       run' = [run EXCEPT ![w].stack = Append(@, l.code)]
  /\ UNCHANGED <<source, value, built>>

Return(w) ==
  /\ run[w] # NoJob
  /\ run[w].stack # <<>>
  /\ run' = [run EXCEPT ![w].stack = SubSeq(@, 1, Len(@) - 1)]
  /\ UNCHANGED <<source, value, built>>

\* An evaluation ends: with an error only if its own text is in error.
End(w) ==
  /\ run[w] # NoJob
  /\ run[w].stack = <<>>
  /\ LET c == run[w].code IN
       IF run[w].reader THEN UNCHANGED <<value, built>>
       ELSE /\ value' = [value EXCEPT ![c.module] =
                           IF c.source \in Broken THEN NoValue ELSE Exports(c)]
            /\ built' = [built EXCEPT ![c.module] = c]
  /\ run' = [run EXCEPT ![w] = NoJob]
  /\ UNCHANGED source

Next ==
  \/ \E m \in Module : Edit(m)
  \/ \E w \in Worker, m \in Module, reader \in BOOLEAN : Begin(w, m, reader)
  \/ \E w \in Worker : Call(w) \/ Return(w) \/ End(w)

Spec == Init /\ [][Next]_vars

(***************************************************************************)
(* A module whose linked code is out of date is evaluated, and evaluations *)
(* end.                                                                    *)
(***************************************************************************)
Fairness ==
  /\ \A w \in Worker : WF_vars(Return(w) \/ End(w))
  /\ \A m \in Module : SF_vars(\E w \in Worker : Begin(w, m, FALSE))

FairSpec == Spec /\ Fairness
===============================================================================
