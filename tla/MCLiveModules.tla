----------------------------- MODULE MCLiveModules -----------------------------
(***************************************************************************)
(* Instances of LiveModules for TLC: a library, a module that loads it and *)
(* binds its function again, and a BUILD file or rule module on top that   *)
(* loads both, so that it reaches the library's function by two paths.     *)
(* The library can be edited to a text with a new body, to a text that     *)
(* exports only constants, and to a broken text; the middle module to a    *)
(* text that loads nothing.                                                *)
(***************************************************************************)
EXTENDS LiveModules, FiniteSets, TLC

MCModule == {"lib", "mid", "top"}

MCSource == {"lib1", "lib2", "libConst1", "libConst2", "libBroken",
             "mid1", "mid2", "mid3", "mid4", "top1", "top2"}

MCLoads ==
  [s \in MCSource |-> CASE s \in {"mid1", "mid3", "mid4"} -> {"lib"}
                        [] s = "top1" -> {"mid", "lib"}
                        [] s = "top2" -> {"mid"}
                        [] OTHER -> {}]

MCReexports == [s \in MCSource |-> IF s \in {"mid1", "mid4"} THEN {"lib"} ELSE {}]

MCDefining == {"lib1", "lib2", "mid1", "mid2", "mid3", "mid4"}

\* The two constant-only texts of the library export the same constant.
MCConstOf ==
  [s \in MCSource |-> IF s \in {"libConst1", "libConst2"} THEN 1 ELSE 0]

MCBroken == {"libBroken"}

\* A library whose body is edited, or broken, under unchanged dependents.
MCBodies ==
  [m \in MCModule |-> CASE m = "lib" -> {"lib1", "lib2", "libBroken"}
                        [] m = "mid" -> {"mid1"}
                        [] m = "top" -> {"top1"}]

\* Edits early cutoff absorbs, and edits that change what is loaded; the top
\* sees the library only through the middle module, which calls it (mid3 and
\* mid4), binds its function again (mid4) or does not load it (mid2).
MCCutoff ==
  [m \in MCModule |-> CASE m = "lib" -> {"lib1", "libConst1", "libConst2"}
                        [] m = "mid" -> {"mid2", "mid3", "mid4"}
                        [] m = "top" -> {"top2"}]

\* A library and one dependent (Module = {"lib", "mid"}).
MCPair == [m \in {"lib", "mid"} |->
             IF m = "lib" THEN {"lib1", "lib2", "libBroken"} ELSE {"mid1"}]

\* All texts of the three scenarios.
MCTexts == [m \in MCModule |-> MCBodies[m] \cup MCCutoff[m]]

Texted(texts) == \A m \in DOMAIN texts : source[m] \in texts[m]

Untouched(m) ==
  built[m] = NoCode /\ \A w \in Worker : job[w] # NoJob => job[w].code.module # m

Readers == {w \in Worker : job[w] # NoJob /\ job[w].extra # "BridgeCtx"}

\* One reader at a time, of the module nothing loads.
OneReader(m) == Cardinality(Readers) <= 1 /\ \A w \in Readers : job[w].code.module = m

Called == \E w \in Worker : job[w] # NoJob /\ job[w].calls > 0

(***************************************************************************)
(* Three questions about safety, each with the part of the machine that    *)
(* answers it.  No edit leads to or from the texts of InCutoff.            *)
(* Readers change nothing: one at a time is enough.                        *)
(***************************************************************************)
FromFirst == edits = 0 => source["lib"] = "lib1"

InBodies ==
  /\ Texted(MCBodies) /\ FromFirst
  /\ replacements = 0
  /\ edits = MaxEdits => Readers = {}
  /\ OneReader("top")
  /\ \A w \in Readers : job[w].extra = "ActionRegistry"

InCutoff ==
  /\ Texted(MCCutoff)
  /\ edits = 0 => source["mid"] = "mid4"
  /\ replacements = 0 /\ Readers = {} /\ ~Called

InReplaced ==
  /\ Texted(MCPair) /\ source["top"] = "top1" /\ FromFirst
  /\ Untouched("top")
  /\ OneReader("mid")
  /\ \A w \in Readers : job[w].extra = "TargetRegistry"

Scenario == InBodies \/ InCutoff \/ InReplaced

\* The workers are interchangeable.
WorkerSymmetry == Permutations(Worker)
===============================================================================
