--------------------------- MODULE BuildPackageProofs ---------------------------
(***************************************************************************)
(* Proofs about the evaluation of BUILD files, for every set of texts,     *)
(* files and specs and every bound: the types of BuildPackage, that a      *)
(* package is keyed by name, that a package delivered is the one the       *)
(* reference evaluation declares and a failure has a reason, and that the  *)
(* two passes implement a single evaluation with the directory at hand.    *)
(* And of ModuleFile: that a MODULE.bazel declares what its calls say.     *)
(*                                                                         *)
(* IInv is about the registry of a pass and what it is handed; DirectInv,  *)
(* on top of it, follows the reference (Evaluated) call by call; ModuleInv *)
(* follows the calls of a MODULE.bazel.                                    *)
(***************************************************************************)
EXTENDS BuildPackage, ModuleFile, SequenceLemmas

\* The calls of a text hand glob() the specs of the model.
CallsTyped ==
  \A t \in Text, s \in Seq(SUBSET File) :
    CallOf(t, s).op = "glob" => CallOf(t, s).spec \in GlobSpec

\* Every target there can be.
TargetDecl == {Declared(CallOf(t, s)) : t \in Text, s \in Seq(SUBSET File)}

(***************************************************************************)
(* What the mapping needs: a registry that is shown as empty is empty, and *)
(* the files the PACKAGE node hands over are those of one moment.          *)
(***************************************************************************)
FreshWhenIdle == pass \in {"idle", "matched"} => seen = <<>> /\ targets = <<>>

MapOfView ==
  pass \in {"matched", "resolved"} => \A g \in DOMAIN map : map[g] = Matches(g, view)

IInv ==
  /\ TypeOK
  /\ targets \in Seq(TargetDecl)
  /\ PackageKeyed
  /\ FreshWhenIdle
  /\ MapOfView

LEMMA InitIInv == Init => IInv
BY PackageAssumption
DEF Init, IInv, TypeOK, PackageKeyed, FreshWhenIdle, MapOfView, Pass

LEMMA MatchesAreFiles ==
  ASSUME NEW g \in GlobSpec, NEW F \in SUBSET File
  PROVE  Matches(g, F) \in SUBSET File
BY DEF Matches

(***************************************************************************)
(* One lemma per action.                                                   *)
(***************************************************************************)
LEMMA ResolveIInv == IInv /\ Resolve => IInv'
<1> SUFFICES ASSUME IInv, Resolve PROVE IInv'
  OBVIOUS
<1> USE DEF Resolve, IInv
<1> DEFINE specs == {globs[i] : i \in 1 .. Len(globs)}
<1>1. specs \subseteq GlobSpec
  BY DEF TypeOK
<1>2. map' = [g \in specs |-> Matches(g, files)] /\ pass' \in {"matched", "failed"}
  OBVIOUS
<1>3. DOMAIN map' = specs /\ \A g \in specs : map'[g] = Matches(g, files)
  BY <1>2
<1> HIDE DEF specs
<1>4. TypeOK'
  <2>1. DOMAIN map' \subseteq GlobSpec /\ \A g \in DOMAIN map' : map'[g] \in SUBSET File
    <3> HIDE DEF Resolve
    <3>1. files \in SUBSET File
      BY DEF TypeOK
    <3> QED
      BY <1>1, <1>3, <3>1, MatchesAreFiles
  <2>2. /\ UNCHANGED <<files, text, entry, globs, edits, evaluations>>
        /\ view' = files /\ seen' = <<>> /\ targets' = <<>>
    OBVIOUS
  <2> HIDE DEF Resolve
  <2> QED
    BY <1>2, <2>1, <2>2 DEF TypeOK, Pass
<1>5. (targets \in Seq(TargetDecl) /\ PackageKeyed /\ FreshWhenIdle)'
  BY DEF PackageKeyed, FreshWhenIdle
<1>6. MapOfView'
  BY <1>3 DEF MapOfView
<1> QED
  BY <1>4, <1>5, <1>6

LEMMA BeginIInv == IInv /\ (BeginCollect \/ BeginResolved \/ BeginPlain) => IInv'
<1> SUFFICES ASSUME IInv, BeginCollect \/ BeginResolved \/ BeginPlain PROVE IInv'
  OBVIOUS
<1> USE DEF IInv, Fresh
<1>1. TypeOK'
  <2>1. CASE BeginCollect
    BY <2>1, PackageAssumption DEF BeginCollect, TypeOK, Pass
  <2>2. CASE BeginResolved
    BY <2>2, PackageAssumption DEF BeginResolved, TypeOK, Pass
  <2>3. CASE BeginPlain
    BY <2>3, PackageAssumption DEF BeginPlain, TypeOK, Pass
  <2> QED
    BY <2>1, <2>2, <2>3
<1>2. targets' = <<>> /\ seen' = <<>> /\ pass' \in {"collect", "resolved", "plain"}
  BY DEF BeginCollect, BeginResolved, BeginPlain
<1>3. (targets \in Seq(TargetDecl) /\ PackageKeyed /\ FreshWhenIdle)'
  BY <1>2 DEF PackageKeyed, FreshWhenIdle
<1>4. MapOfView'
  BY DEF MapOfView, BeginCollect, BeginResolved, BeginPlain
<1> QED
  BY <1>1, <1>3, <1>4

LEMMA GlobIInv ==
  ASSUME CallsTyped
  PROVE  IInv /\ (GlobCollect \/ GlobResolved) => IInv'
<1> SUFFICES ASSUME IInv, GlobCollect \/ GlobResolved PROVE IInv'
  OBVIOUS
<1> USE DEF IInv
<1>1. TypeOK'
  <2>1. CASE GlobCollect
    <3>1. Call.spec \in GlobSpec
      BY <2>1 DEF GlobCollect, CallsTyped, TypeOK, Call
    <3>2. globs' \in Seq(GlobSpec) /\ seen' \in Seq(SUBSET File) /\ Len(seen') = Len(seen) + 1
      BY <2>1, <3>1 DEF GlobCollect, TypeOK
    <3> QED
      BY <2>1, <3>2 DEF GlobCollect, TypeOK
  <2>2. CASE GlobResolved
    <3>1. map[Call.spec] \in SUBSET File
      BY <2>2 DEF GlobResolved, TypeOK
    <3>2. seen' \in Seq(SUBSET File) /\ Len(seen') = Len(seen) + 1
      BY <2>2, <3>1 DEF GlobResolved, TypeOK
    <3> QED
      BY <2>2, <3>2 DEF GlobResolved, TypeOK
  <2> QED
    BY <2>1, <2>2
<1>2. (targets \in Seq(TargetDecl) /\ PackageKeyed /\ FreshWhenIdle /\ MapOfView)'
  BY DEF GlobCollect, GlobResolved, PackageKeyed, FreshWhenIdle, MapOfView
<1> QED
  BY <1>1, <1>2

(***************************************************************************)
(* The one step that puts the names at risk.                               *)
(***************************************************************************)
LEMMA DeclareIInv == IInv /\ Declare => IInv'
<1> SUFFICES ASSUME IInv, Declare PROVE IInv'
  OBVIOUS
<1> USE DEF IInv, Declare
<1> DEFINE decl == Declared(Call)
<1>1. decl \in TargetDecl
  BY DEF TargetDecl, Call, TypeOK
<1>2. ~IsDup(targets, decl.name)
  BY DEF Accepted, Declared
<1> HIDE DEF decl
<1>3. /\ targets' = Append(targets, decl)
      /\ targets' \in Seq(TargetDecl)
      /\ Len(targets') = Len(targets) + 1
      /\ \A i \in 1 .. Len(targets) : targets'[i] = targets[i]
      /\ targets'[Len(targets) + 1] = decl
  BY <1>1 DEF decl
<1>4. seen' \in Seq(SUBSET File) /\ Len(seen') = Len(seen) + 1
  BY DEF TypeOK
<1>5. TypeOK'
  BY <1>3, <1>4 DEF TypeOK
<1>6. PackageKeyed'
  BY <1>2, <1>3 DEF PackageKeyed, IsDup
<1>7. (FreshWhenIdle /\ MapOfView)'
  BY DEF FreshWhenIdle, MapOfView, InPass
<1> QED
  BY <1>3, <1>5, <1>6, <1>7

LEMMA EndIInv == IInv /\ (EndPass \/ FailPass) => IInv'
<1> SUFFICES ASSUME IInv, EndPass \/ FailPass PROVE IInv'
  OBVIOUS
<1>1. \/ seen' = seen /\ targets' = targets
      \/ seen' = <<>> /\ targets' = <<>>
  <2>1. CASE EndPass
    BY <2>1 DEF EndPass, registry
  <2>2. CASE FailPass
    BY <2>2 DEF FailPass
  <2> QED
    BY <2>1, <2>2
<1>2. /\ UNCHANGED <<files, text, entry, globs, map, view, edits, evaluations>>
      /\ pass' \in {"collected", "done", "failed"}
  <2>1. CASE EndPass
    BY <2>1 DEF EndPass, registry
  <2>2. CASE FailPass
    BY <2>2 DEF FailPass
  <2> QED
    BY <2>1, <2>2
<1> USE DEF IInv
<1>3. TypeOK'
  <2>1. CASE seen' = seen /\ targets' = targets
    BY <1>2, <2>1 DEF TypeOK, Pass
  <2>2. CASE seen' = <<>> /\ targets' = <<>>
    BY <1>2, <2>2 DEF TypeOK, Pass
  <2> QED
    BY <1>1, <2>1, <2>2
<1>4. (targets \in Seq(TargetDecl) /\ PackageKeyed)'
  <2>1. CASE seen' = seen /\ targets' = targets
    BY <2>1 DEF PackageKeyed
  <2>2. CASE seen' = <<>> /\ targets' = <<>>
    BY <2>2 DEF PackageKeyed
  <2> QED
    BY <1>1, <2>1, <2>2
<1>5. (FreshWhenIdle /\ MapOfView)'
  BY <1>2 DEF FreshWhenIdle, MapOfView
<1> QED
  BY <1>3, <1>4, <1>5

LEMMA NextIInv ==
  ASSUME CallsTyped
  PROVE  IInv /\ [Next]_vars => IInv'
<1> SUFFICES ASSUME IInv, [Next]_vars PROVE IInv'
  OBVIOUS
<1>1. ASSUME NEW F \in SUBSET File, Edit(F) PROVE IInv'
  BY <1>1, PackageAssumption
  DEF Edit, registry, IInv, TypeOK, PackageKeyed, FreshWhenIdle, MapOfView
<1>2. CASE UNCHANGED vars
  BY <1>2 DEF vars, IInv, TypeOK, PackageKeyed, FreshWhenIdle, MapOfView
<1> QED
  BY <1>1, <1>2, ResolveIInv, BeginIInv, GlobIInv, DeclareIInv, EndIInv DEF Next

THEOREM Inductive ==
  ASSUME CallsTyped
  PROVE  Spec => []IInv
BY InitIInv, NextIInv, PTL DEF Spec

(***************************************************************************)
(* The registry, the collected specs and the resolved files keep their     *)
(* types (TargetRegistry, GlobMode).                                       *)
(***************************************************************************)
THEOREM TypeCorrect ==
  ASSUME CallsTyped
  PROVE  Spec => []TypeOK
<1>1. IInv => TypeOK
  BY DEF IInv
<1> QED
  BY <1>1, Inductive, PTL

(***************************************************************************)
(* Whatever a BUILD text declares, through target(), a native declaration  *)
(* or a rule, no two targets of a package share a name.                    *)
(***************************************************************************)
THEOREM PackagesAreKeyed ==
  ASSUME CallsTyped
  PROVE  Spec => []PackageKeyed
<1>1. IInv => PackageKeyed
  BY DEF IInv
<1> QED
  BY <1>1, Inductive, PTL

-------------------------------------------------------------------------------
(***************************************************************************)
(* The reference evaluation, call by call.                                 *)
(***************************************************************************)
\* A text makes at most MaxCalls calls, whatever they return.
TextsEnd ==
  \A t \in Text, s \in Seq(SUBSET File) :
    Len(s) >= MaxCalls => CallOf(t, s).op \in {"end", "fail"}

Outcome ==
  [seen : Seq(SUBSET File), targets : Seq(TargetDecl), read : SUBSET GlobSpec,
   status : {"running", "done", "failed"}]

\* g is the first k calls of the reference evaluation.
IsRun(t, F, g, k) ==
  g = [n \in 0 .. k |-> IF n = 0 THEN Started ELSE Stepped(t, F, g[n - 1])]

\* The function After chooses exists for every length.
LEMMA AfterExists ==
  ASSUME NEW t, NEW F, NEW k \in Nat
  PROVE  \E g : IsRun(t, F, g, k)
<1> USE DEF IsRun
<1> DEFINE D(g, m) == IsRun(t, F, g, m)
           S == {m \in Nat : \E g : D(g, m)}
<1>1. 0 \in S
  <2> DEFINE h == [n \in 0 .. 0 |-> Started]
  <2>1. D(h, 0)
    OBVIOUS
  <2> QED BY <2>1
<1>2. ASSUME NEW m \in Nat, m \in S PROVE m + 1 \in S
  <2>1. PICK g : D(g, m)
    BY <1>2
  <2> DEFINE next == Stepped(t, F, g[m])
             h == [n \in 0 .. m + 1 |-> IF n = m + 1 THEN next ELSE g[n]]
  <2>2. ASSUME NEW n \in 0 .. m + 1
        PROVE  h[n] = IF n = 0 THEN Started ELSE Stepped(t, F, h[n - 1])
    <3>1. CASE n = m + 1
      <4>1. h[n] = next /\ n # 0 /\ h[n - 1] = g[m]
        BY <3>1
      <4> QED BY <4>1
    <3>2. CASE n # m + 1
      <4>1. n \in 0 .. m /\ h[n] = g[n] /\ (n # 0 => h[n - 1] = g[n - 1])
        BY <3>2
      <4> HIDE DEF h
      <4>2. g[n] = IF n = 0 THEN Started ELSE Stepped(t, F, g[n - 1])
        BY <2>1, <4>1
      <4> QED BY <4>1, <4>2
    <3> QED BY <3>1, <3>2
  <2>3. h = [n \in 0 .. m + 1 |-> h[n]]
    OBVIOUS
  <2> HIDE DEF h
  <2>4. D(h, m + 1)
    BY <2>2, <2>3
  <2> HIDE DEF D
  <2> QED BY <2>4
<1> HIDE DEF S
<1>3. k \in S
  BY <1>1, <1>2, SetInduction
<1> QED
  BY <1>3 DEF S

LEMMA AfterSteps ==
  ASSUME NEW t, NEW F
  PROVE  /\ After(t, F)[0] = Started
         /\ \A n \in 0 .. MaxCalls : After(t, F)[n + 1] = Stepped(t, F, After(t, F)[n])
<1>0. MaxCalls + 1 \in Nat
  BY BuildAssumption
<1>1. \E g : IsRun(t, F, g, MaxCalls + 1)
  BY <1>0, AfterExists
<1> DEFINE g == After(t, F)
<1>2. g = [n \in 0 .. MaxCalls + 1 |-> IF n = 0 THEN Started ELSE Stepped(t, F, g[n - 1])]
  BY <1>1 DEF IsRun, After
<1> HIDE DEF g
<1>3. g[0] = Started
  BY <1>0, <1>2
<1>4. ASSUME NEW n \in 0 .. MaxCalls PROVE g[n + 1] = Stepped(t, F, g[n])
  <2>1. n + 1 \in 0 .. MaxCalls + 1 /\ n + 1 # 0 /\ (n + 1) - 1 = n
    BY BuildAssumption
  <2> QED BY <1>2, <2>1
<1> QED
  BY <1>3, <1>4 DEF g

LEMMA SteppedTyped ==
  ASSUME CallsTyped, NEW t \in Text, NEW F \in SUBSET File, NEW r \in Outcome
  PROVE  /\ Stepped(t, F, r) \in Outcome
         /\ r.read \subseteq Stepped(t, F, r).read
         /\ r.status # "running" => Stepped(t, F, r) = r
<1> DEFINE call == CallOf(t, r.seen)
<1>0. /\ r.seen \in Seq(SUBSET File) /\ r.targets \in Seq(TargetDecl)
      /\ r.read \in SUBSET GlobSpec
      /\ r = [seen |-> r.seen, targets |-> r.targets, read |-> r.read, status |-> r.status]
  BY DEF Outcome
<1>1. CASE r.status # "running"
  BY <1>1 DEF Stepped
<1>2. CASE r.status = "running" /\ call.op = "end"
  <2>1. Stepped(t, F, r) = [r EXCEPT !.status = "done"]
    BY <1>2 DEF Stepped
  <2> QED BY <1>0, <1>2, <2>1 DEF Outcome
<1>3. CASE r.status = "running" /\ call.op = "glob"
  <2>1. Stepped(t, F, r) = [r EXCEPT !.seen = Append(r.seen, Matches(call.spec, F)),
                                     !.read = r.read \cup {call.spec}]
    BY <1>3 DEF Stepped
  <2>2. call.spec \in GlobSpec
    BY <1>0, <1>3 DEF CallsTyped
  <2> HIDE DEF call
  <2>3. Append(r.seen, Matches(call.spec, F)) \in Seq(SUBSET File)
    BY <1>0, <2>2, MatchesAreFiles
  <2>4. r.read \cup {call.spec} \in SUBSET GlobSpec
    BY <1>0, <2>2
  <2> QED BY <1>0, <1>3, <2>1, <2>3, <2>4 DEF Outcome
<1>4. CASE /\ r.status = "running" /\ call.op \notin {"end", "glob"}
           /\ IsDeclaration(call) /\ Accepted(r.targets, call)
  <2>1. Stepped(t, F, r) = [r EXCEPT !.seen = Append(r.seen, {}),
                                     !.targets = Append(r.targets, Declared(call))]
    BY <1>4 DEF Stepped
  <2>2. Declared(call) \in TargetDecl
    BY <1>0 DEF TargetDecl
  <2> HIDE DEF call
  <2>3. Append(r.seen, {}) \in Seq(SUBSET File) /\ Append(r.targets, Declared(call)) \in Seq(TargetDecl)
    BY <1>0, <2>2
  <2> QED BY <1>0, <1>4, <2>1, <2>3 DEF Outcome
<1>5. CASE /\ r.status = "running" /\ call.op \notin {"end", "glob"}
           /\ ~(IsDeclaration(call) /\ Accepted(r.targets, call))
  <2>1. Stepped(t, F, r) = [r EXCEPT !.status = "failed"]
    BY <1>5 DEF Stepped
  <2> QED BY <1>0, <1>5, <2>1 DEF Outcome
<1> QED
  BY <1>1, <1>2, <1>3, <1>4, <1>5

\* An evaluation that has ended is the outcome, and what was read before that
\* counts as read.
LEMMA AfterEnds ==
  ASSUME CallsTyped, NEW t \in Text, NEW F \in SUBSET File, NEW n \in 0 .. MaxCalls + 1
  PROVE  /\ After(t, F)[n] \in Outcome
         /\ After(t, F)[n].read \subseteq Evaluated(t, F).read
         /\ After(t, F)[n].status # "running" => Evaluated(t, F) = After(t, F)[n]
<1> DEFINE g == After(t, F)
           T == {m \in Nat : m <= MaxCalls + 1 => g[m] \in Outcome}
           Later(a, b) == a.read \subseteq b.read /\ (a.status # "running" => b = a)
           L == {m \in Nat : n + m <= MaxCalls + 1 => Later(g[n], g[n + m])}
<1>0. MaxCalls \in Nat /\ n \in Nat /\ n <= MaxCalls + 1
  BY BuildAssumption
<1>1. g[0] = Started /\ \A m \in 0 .. MaxCalls : g[m + 1] = Stepped(t, F, g[m])
  BY AfterSteps
<1> HIDE DEF g
<1>2. 0 \in T
  <2>1. Started \in Outcome
    BY DEF Started, Outcome
  <2> QED BY <1>1, <2>1
<1>3. ASSUME NEW m \in Nat, m \in T PROVE m + 1 \in T
  <2> SUFFICES ASSUME m + 1 <= MaxCalls + 1 PROVE g[m + 1] \in Outcome
    OBVIOUS
  <2>1. m \in 0 .. MaxCalls /\ m <= MaxCalls + 1
    BY <1>0
  <2>2. g[m] \in Outcome
    BY <1>3, <2>1
  <2>3. g[m + 1] = Stepped(t, F, g[m])
    BY <1>1, <2>1
  <2> HIDE DEF T, L
  <2>4. Stepped(t, F, g[m]) \in Outcome
    BY <2>2, SteppedTyped
  <2> QED BY <2>3, <2>4
<1>4. \A m \in 0 .. MaxCalls + 1 : g[m] \in Outcome
  <2> HIDE DEF T
  <2>1. Nat \subseteq T
    BY <1>2, <1>3, SetInduction
  <2>2. \A m \in 0 .. MaxCalls + 1 : m \in Nat /\ m <= MaxCalls + 1
    BY <1>0
  <2> QED BY <2>1, <2>2 DEF T
<1>5. 0 \in L
  BY <1>0
<1>6. ASSUME NEW m \in Nat, m \in L PROVE m + 1 \in L
  <2> SUFFICES ASSUME n + (m + 1) <= MaxCalls + 1 PROVE Later(g[n], g[n + (m + 1)])
    OBVIOUS
  <2>1. n + m \in 0 .. MaxCalls /\ n + m <= MaxCalls + 1 /\ n + (m + 1) = (n + m) + 1
    BY <1>0
  <2>2. n + m \in 0 .. MaxCalls + 1
    BY <1>0, <2>1
  <2>3. Later(g[n], g[n + m])
    BY <1>6, <2>1
  <2>4. g[n + (m + 1)] = Stepped(t, F, g[n + m])
    BY <1>1, <2>1
  <2>5. Later(g[n + m], g[n + (m + 1)])
    BY <1>4, <2>2, <2>4, SteppedTyped
  <2> QED BY <2>3, <2>5
<1>7. Later(g[n], g[MaxCalls + 1])
  <2>1. (MaxCalls + 1) - n \in Nat /\ n + ((MaxCalls + 1) - n) = MaxCalls + 1
    BY <1>0
  <2> HIDE DEF L, Later
  <2>2. (MaxCalls + 1) - n \in L
    BY <1>5, <1>6, <2>1, SetInduction
  <2>3. n + ((MaxCalls + 1) - n) <= MaxCalls + 1
    BY <1>0
  <2> QED BY <2>1, <2>2, <2>3 DEF L
<1> QED
  BY <1>4, <1>7 DEF g, Evaluated

-------------------------------------------------------------------------------
(***************************************************************************)
(* A pass of text t over the files F whose calls have returned s and       *)
(* declared T has done what the reference has.                             *)
(***************************************************************************)
Along(t, F, s, T) ==
  /\ Len(s) <= MaxCalls
  /\ LET r == After(t, F)[Len(s)] IN r.status = "running" /\ r.seen = s /\ r.targets = T

ReadSoFar(t, F, s) == After(t, F)[Len(s)].read

LEMMA AlongStart ==
  ASSUME NEW t, NEW F
  PROVE  Along(t, F, <<>>, <<>>) /\ ReadSoFar(t, F, <<>>) = {}
BY AfterSteps, BuildAssumption DEF Along, ReadSoFar, Started

LEMMA AlongStep ==
  ASSUME CallsTyped, TextsEnd, NEW t \in Text, NEW F \in SUBSET File,
         NEW s \in Seq(SUBSET File), NEW T, Along(t, F, s, T)
  PROVE  LET r == After(t, F)[Len(s)]
             next == After(t, F)[Len(s) + 1]
         IN /\ r \in Outcome /\ r.status = "running" /\ r.seen = s /\ r.targets = T
            /\ next = Stepped(t, F, r)
            /\ next \in Outcome
            /\ next.read \subseteq Evaluated(t, F).read
            /\ next.status # "running" => Evaluated(t, F) = next
            /\ CallOf(t, s).op \notin {"end", "fail"} => Len(s) + 1 <= MaxCalls
<1>0. MaxCalls \in Nat /\ Len(s) \in Nat /\ Len(s) <= MaxCalls
  BY BuildAssumption DEF Along
<1>1. Len(s) \in 0 .. MaxCalls /\ Len(s) \in 0 .. MaxCalls + 1 /\ Len(s) + 1 \in 0 .. MaxCalls + 1
  BY <1>0
<1>2. CallOf(t, s).op \notin {"end", "fail"} => Len(s) + 1 <= MaxCalls
  <2>1. Len(s) >= MaxCalls => CallOf(t, s).op \in {"end", "fail"}
    BY DEF TextsEnd
  <2> QED BY <1>0, <2>1
<1>3. After(t, F)[Len(s)] \in Outcome
  BY <1>1, AfterEnds
<1>4. After(t, F)[Len(s) + 1] = Stepped(t, F, After(t, F)[Len(s)])
  BY <1>1, AfterSteps
<1>5. /\ After(t, F)[Len(s) + 1] \in Outcome
      /\ After(t, F)[Len(s) + 1].read \subseteq Evaluated(t, F).read
      /\ After(t, F)[Len(s) + 1].status # "running" => Evaluated(t, F) = After(t, F)[Len(s) + 1]
  BY <1>1, AfterEnds
<1> QED
  BY <1>2, <1>3, <1>4, <1>5 DEF Along

LEMMA AlongGlob ==
  ASSUME CallsTyped, TextsEnd, NEW t \in Text, NEW F \in SUBSET File,
         NEW s \in Seq(SUBSET File), NEW T, Along(t, F, s, T),
         NEW g, CallOf(t, s).op = "glob", g = CallOf(t, s).spec
  PROVE  /\ Along(t, F, Append(s, Matches(g, F)), T)
         /\ ReadSoFar(t, F, Append(s, Matches(g, F))) = ReadSoFar(t, F, s) \cup {g}
         /\ g \in Evaluated(t, F).read
<1> DEFINE r == After(t, F)[Len(s)]
           next == After(t, F)[Len(s) + 1]
           longer == Append(s, Matches(g, F))
<1>1. /\ r \in Outcome /\ r.status = "running" /\ r.seen = s /\ r.targets = T
      /\ next = Stepped(t, F, r)
      /\ next.read \subseteq Evaluated(t, F).read
      /\ Len(s) + 1 <= MaxCalls
  BY AlongStep
<1>2. Len(longer) = Len(s) + 1
  BY MatchesAreFiles DEF CallsTyped
<1> HIDE DEF r, next
<1>3. next = [r EXCEPT !.seen = Append(r.seen, Matches(g, F)), !.read = r.read \cup {g}]
  BY <1>1 DEF Stepped
<1>4. next.seen = longer /\ next.read = r.read \cup {g} /\ next.status = "running" /\ next.targets = T
  BY <1>1, <1>3 DEF Outcome
<1>5. g \in Evaluated(t, F).read
  BY <1>1, <1>4
<1> HIDE DEF longer
<1>6. Along(t, F, longer, T) /\ ReadSoFar(t, F, longer) = ReadSoFar(t, F, s) \cup {g}
  BY <1>1, <1>2, <1>4 DEF Along, ReadSoFar, next, r
<1> QED
  BY <1>5, <1>6 DEF longer

LEMMA AlongDeclare ==
  ASSUME CallsTyped, TextsEnd, NEW t \in Text, NEW F \in SUBSET File,
         NEW s \in Seq(SUBSET File), NEW T, Along(t, F, s, T),
         NEW call, call = CallOf(t, s), IsDeclaration(call), Accepted(T, call)
  PROVE  /\ Along(t, F, Append(s, {}), Append(T, Declared(call)))
         /\ ReadSoFar(t, F, Append(s, {})) = ReadSoFar(t, F, s)
<1> DEFINE r == After(t, F)[Len(s)]
           next == After(t, F)[Len(s) + 1]
           longer == Append(s, {})
           more == Append(T, Declared(call))
<1>0. call.op \notin {"end", "fail", "glob"}
  BY DEF IsDeclaration
<1>1. /\ r \in Outcome /\ r.status = "running" /\ r.seen = s /\ r.targets = T
      /\ next = Stepped(t, F, r)
      /\ Len(s) + 1 <= MaxCalls
  <2>1. /\ r \in Outcome /\ r.status = "running" /\ r.seen = s /\ r.targets = T
        /\ next = Stepped(t, F, r)
        /\ CallOf(t, s).op \notin {"end", "fail"} => Len(s) + 1 <= MaxCalls
    BY AlongStep
  <2> HIDE DEF r, next
  <2> QED BY <1>0, <2>1
<1>2. Len(longer) = Len(s) + 1
  OBVIOUS
<1> HIDE DEF r, next
<1>3. next = [r EXCEPT !.seen = Append(r.seen, {}), !.targets = Append(r.targets, Declared(call))]
  BY <1>0, <1>1 DEF Stepped
<1>4. next.seen = longer /\ next.read = r.read /\ next.status = "running" /\ next.targets = more
  BY <1>1, <1>3 DEF Outcome
<1> HIDE DEF longer, more
<1>5. Along(t, F, longer, more) /\ ReadSoFar(t, F, longer) = ReadSoFar(t, F, s)
  BY <1>1, <1>2, <1>4 DEF Along, ReadSoFar, next, r
<1> QED
  BY <1>5 DEF longer, more

\* What is rejected, or is an error of the text.
Rejected(T, call) == call.op = "fail" \/ (IsDeclaration(call) /\ ~Accepted(T, call))

LEMMA AlongEnd ==
  ASSUME CallsTyped, TextsEnd, NEW t \in Text, NEW F \in SUBSET File,
         NEW s \in Seq(SUBSET File), NEW T, Along(t, F, s, T)
  PROVE  /\ CallOf(t, s).op = "end" =>
              /\ Evaluated(t, F).status = "done"
              /\ Evaluated(t, F).targets = T
              /\ Evaluated(t, F).read = ReadSoFar(t, F, s)
         /\ Rejected(T, CallOf(t, s)) => Evaluated(t, F).status = "failed"
<1> DEFINE r == After(t, F)[Len(s)]
           next == After(t, F)[Len(s) + 1]
<1>1. /\ r \in Outcome /\ r.status = "running" /\ r.seen = s /\ r.targets = T
      /\ next = Stepped(t, F, r)
      /\ next.status # "running" => Evaluated(t, F) = next
  BY AlongStep
<1>2. ReadSoFar(t, F, s) = r.read
  BY DEF ReadSoFar
<1> HIDE DEF r, next
<1>3. ASSUME CallOf(t, s).op = "end"
      PROVE  next.status = "done" /\ next.targets = T /\ next.read = r.read
  <2>1. next = [r EXCEPT !.status = "done"]
    BY <1>1, <1>3 DEF Stepped
  <2> QED BY <1>1, <2>1 DEF Outcome
<1>4. ASSUME Rejected(T, CallOf(t, s)) PROVE next.status = "failed"
  <2>1. /\ CallOf(t, s).op \notin {"end", "glob"}
        /\ ~(IsDeclaration(CallOf(t, s)) /\ Accepted(T, CallOf(t, s)))
    BY <1>4 DEF Rejected, IsDeclaration
  <2>2. next = [r EXCEPT !.status = "failed"]
    BY <1>1, <2>1 DEF Stepped
  <2> QED BY <1>1, <2>2 DEF Outcome
<1> QED
  BY <1>1, <1>2, <1>3, <1>4

-------------------------------------------------------------------------------
(***************************************************************************)
(* The collect pass goes along the reference without files, the other two  *)
(* along the one with the files at hand.  What the first pass hands to the *)
(* second is what the text reads when its globs are empty.                 *)
(***************************************************************************)
Collected == {globs[i] : i \in 1 .. Len(globs)}

CollectFollows ==
  pass = "collect" =>
    Along(text, {}, seen, targets) /\ ReadSoFar(text, {}, seen) = Collected

ResolvedFollows == pass \in {"resolved", "plain"} => Along(text, view, seen, targets)

ReadWhenEmpty ==
  /\ pass = "collected" => Evaluated(text, {}).read = Collected
  /\ pass \in {"matched", "resolved"} => DOMAIN map = Evaluated(text, {}).read

EntryOfPass == pass = "plain" => entry = "evaluate_build"

DirectInv ==
  /\ CollectFollows
  /\ ResolvedFollows
  /\ ReadWhenEmpty
  /\ EntryOfPass
  /\ DoneIsDirect
  /\ FailureExplained

LEMMA InitDirect == Init => DirectInv
BY DEF Init, DirectInv, CollectFollows, ResolvedFollows, ReadWhenEmpty, EntryOfPass,
       DoneIsDirect, FailureExplained

(***************************************************************************)
(* One lemma per action.                                                   *)
(***************************************************************************)
LEMMA SameDirect ==
  DirectInv /\ UNCHANGED <<text, entry, pass, seen, targets, globs, map, view>> => DirectInv'
BY DEF DirectInv, CollectFollows, ResolvedFollows, ReadWhenEmpty, EntryOfPass, DoneIsDirect,
       FailureExplained, Collected

LEMMA ResolveDirect == IInv /\ DirectInv /\ Resolve => DirectInv'
<1> SUFFICES ASSUME IInv, DirectInv, Resolve PROVE DirectInv'
  OBVIOUS
<1>1. /\ pass = "collected" /\ text' = text /\ entry' = entry /\ view' = files
      /\ pass' = IF \A g \in Collected \ AllowEmpty : Matches(g, files) # {}
                 THEN "matched" ELSE "failed"
      /\ map' = [g \in Collected |-> Matches(g, files)]
  BY DEF Resolve, Collected
<1>2. DOMAIN map' = Evaluated(text', {}).read
  BY <1>1 DEF DirectInv, ReadWhenEmpty
<1>3. Evaluated(text', {}).read = Collected
  BY <1>1 DEF DirectInv, ReadWhenEmpty
<1>4. pass' \in {"matched", "failed"}
  BY <1>1
<1>5. FailureExplained'
  <2> SUFFICES ASSUME pass' = "failed"
               PROVE  \E g \in Evaluated(text', {}).read \ AllowEmpty : Matches(g, view') = {}
    BY DEF FailureExplained
  <2>1. \E g \in Collected \ AllowEmpty : Matches(g, files) = {}
    BY <1>1
  <2> QED BY <1>1, <1>3, <2>1
<1> QED
  BY <1>2, <1>4, <1>5
  DEF DirectInv, CollectFollows, ResolvedFollows, ReadWhenEmpty, EntryOfPass, DoneIsDirect

LEMMA BeginDirect == DirectInv /\ (BeginCollect \/ BeginResolved \/ BeginPlain) => DirectInv'
<1> SUFFICES ASSUME DirectInv, BeginCollect \/ BeginResolved \/ BeginPlain PROVE DirectInv'
  OBVIOUS
<1>0. seen' = <<>> /\ targets' = <<>> /\ globs' = <<>>
  BY DEF BeginCollect, BeginResolved, BeginPlain, Fresh
<1>1. Collected' = {}
  BY <1>0 DEF Collected
<1>2. \A t, F : Along(t, F, seen', targets') /\ ReadSoFar(t, F, seen') = {}
  BY <1>0, AlongStart
<1>3. CollectFollows' /\ ResolvedFollows'
  BY <1>1, <1>2 DEF CollectFollows, ResolvedFollows
<1>4. ReadWhenEmpty'
  BY DEF BeginCollect, BeginResolved, BeginPlain, DirectInv, ReadWhenEmpty
<1>5. EntryOfPass'
  BY DEF BeginCollect, BeginResolved, BeginPlain, EntryOfPass
<1>6. pass' \notin {"done", "failed"}
  BY DEF BeginCollect, BeginResolved, BeginPlain
<1> QED
  BY <1>3, <1>4, <1>5, <1>6 DEF DirectInv, DoneIsDirect, FailureExplained

LEMMA GlobDirect ==
  ASSUME CallsTyped, TextsEnd
  PROVE  IInv /\ DirectInv /\ (GlobCollect \/ GlobResolved) => DirectInv'
<1> SUFFICES ASSUME IInv, DirectInv, GlobCollect \/ GlobResolved PROVE DirectInv'
  OBVIOUS
<1>0. /\ text \in Text /\ seen \in Seq(SUBSET File) /\ view \in SUBSET File /\ {} \in SUBSET File
      /\ globs \in Seq(GlobSpec)
  BY DEF IInv, TypeOK
<1>1. /\ UNCHANGED <<text, entry, pass, targets, map, view>>
      /\ CallOf(text, seen).op = "glob" /\ pass \in {"collect", "resolved"}
  BY DEF GlobCollect, GlobResolved, Call
<1>step. ASSUME NEW F \in SUBSET File, Along(text, F, seen, targets),
                NEW g, g = CallOf(text, seen).spec
         PROVE  /\ Along(text, F, Append(seen, Matches(g, F)), targets)
                /\ ReadSoFar(text, F, Append(seen, Matches(g, F))) = ReadSoFar(text, F, seen) \cup {g}
  <2>1. /\ Along(text, F, Append(seen, Matches(g, F)), targets)
        /\ ReadSoFar(text, F, Append(seen, Matches(g, F))) = ReadSoFar(text, F, seen) \cup {g}
        /\ g \in Evaluated(text, F).read
    BY <1>0, <1>1, <1>step, AlongGlob
  <2> QED BY <2>1
<1>2. CASE GlobCollect
  <2> DEFINE g == CallOf(text, seen).spec
  <2>1. pass = "collect" /\ seen' = Append(seen, {}) /\ globs' = Append(globs, g)
    BY <1>2 DEF GlobCollect, Call
  <2>2. Along(text, {}, seen, targets) /\ ReadSoFar(text, {}, seen) = Collected
    BY <2>1 DEF DirectInv, CollectFollows
  <2>3. Matches(g, {}) = {}
    BY DEF Matches
  <2>4. /\ Along(text, {}, Append(seen, Matches(g, {})), targets)
        /\ ReadSoFar(text, {}, Append(seen, Matches(g, {}))) = ReadSoFar(text, {}, seen) \cup {g}
    BY <1>0, <2>2, <1>step
  <2>5. g \in GlobSpec
    BY <1>0, <1>1 DEF CallsTyped
  <2> HIDE DEF g
  <2>6. Collected' = Collected \cup {g}
    <3>1. /\ Len(globs') = Len(globs) + 1 /\ globs'[Len(globs) + 1] = g /\ Len(globs) \in Nat
          /\ \A i \in 1 .. Len(globs) : globs'[i] = globs[i]
      BY <1>0, <2>1, <2>5
    <3> QED BY <3>1 DEF Collected
  <2>7. CollectFollows'
    BY <1>1, <2>1, <2>2, <2>3, <2>4, <2>6 DEF CollectFollows
  <2> QED
    BY <1>1, <2>1, <2>7
    DEF DirectInv, ResolvedFollows, ReadWhenEmpty, EntryOfPass, DoneIsDirect, FailureExplained
<1>3. CASE GlobResolved
  <2> DEFINE g == CallOf(text, seen).spec
  <2>1. pass = "resolved" /\ g \in DOMAIN map /\ seen' = Append(seen, map[g])
    BY <1>3 DEF GlobResolved, Call
  <2>2. map[g] = Matches(g, view)
    BY <2>1 DEF IInv, MapOfView
  <2>3. Along(text, view, seen, targets)
    BY <2>1 DEF DirectInv, ResolvedFollows
  <2>4. Along(text, view, Append(seen, Matches(g, view)), targets)
    BY <1>0, <1>1, <2>3, AlongGlob
  <2> HIDE DEF g
  <2>5. ResolvedFollows'
    BY <1>1, <2>1, <2>2, <2>4 DEF ResolvedFollows
  <2> QED
    BY <1>1, <2>1, <2>5
    DEF DirectInv, CollectFollows, ReadWhenEmpty, EntryOfPass, DoneIsDirect, FailureExplained
<1> QED
  BY <1>2, <1>3

LEMMA DeclareDirect ==
  ASSUME CallsTyped, TextsEnd
  PROVE  IInv /\ DirectInv /\ Declare => DirectInv'
<1> SUFFICES ASSUME IInv, DirectInv, Declare PROVE DirectInv'
  OBVIOUS
<1>0. text \in Text /\ seen \in Seq(SUBSET File) /\ view \in SUBSET File /\ {} \in SUBSET File
  BY DEF IInv, TypeOK
<1>1. /\ UNCHANGED <<text, entry, pass, globs, map, view>> /\ pass \in InPass
      /\ IsDeclaration(CallOf(text, seen)) /\ Accepted(targets, CallOf(text, seen))
      /\ seen' = Append(seen, {})
      /\ targets' = Append(targets, Declared(CallOf(text, seen)))
  BY DEF Declare, Call
<1>2. ASSUME NEW F \in SUBSET File, Along(text, F, seen, targets)
      PROVE  /\ Along(text, F, seen', targets')
             /\ ReadSoFar(text, F, seen') = ReadSoFar(text, F, seen)
  BY <1>0, <1>1, <1>2, AlongDeclare
<1>3. CollectFollows'
  BY <1>0, <1>1, <1>2 DEF DirectInv, CollectFollows, Collected
<1>4. ResolvedFollows'
  BY <1>0, <1>1, <1>2 DEF DirectInv, ResolvedFollows
<1> QED
  BY <1>1, <1>3, <1>4
  DEF DirectInv, ReadWhenEmpty, EntryOfPass, DoneIsDirect, FailureExplained, InPass

LEMMA EndDirect ==
  ASSUME CallsTyped, TextsEnd
  PROVE  IInv /\ DirectInv /\ EndPass => DirectInv'
<1> SUFFICES ASSUME IInv, DirectInv, EndPass PROVE DirectInv'
  OBVIOUS
<1>0. text \in Text /\ seen \in Seq(SUBSET File) /\ view \in SUBSET File /\ {} \in SUBSET File
  BY DEF IInv, TypeOK
<1>1. /\ UNCHANGED <<text, entry, seen, targets, globs, map, view>> /\ pass \in InPass
      /\ CallOf(text, seen).op = "end"
      /\ pass' = IF pass = "collect" THEN "collected" ELSE "done"
  BY DEF EndPass, Call, registry
<1>2. CASE pass = "collect"
  <2>1. Evaluated(text, {}).read = Collected
    BY <1>0, <1>1, <1>2, AlongEnd DEF DirectInv, CollectFollows
  <2>2. ReadWhenEmpty'
    BY <1>1, <1>2, <2>1 DEF ReadWhenEmpty, Collected
  <2> QED
    BY <1>1, <1>2, <2>2
    DEF DirectInv, CollectFollows, ResolvedFollows, EntryOfPass, DoneIsDirect, FailureExplained
<1>3. CASE pass \in {"resolved", "plain"}
  <2>1. Evaluated(text, view).status = "done" /\ Evaluated(text, view).targets = targets
    BY <1>0, <1>1, <1>3, AlongEnd DEF DirectInv, ResolvedFollows
  <2>2. DoneIsDirect'
    BY <1>1, <2>1 DEF DoneIsDirect
  <2> QED
    BY <1>1, <1>3, <2>2
    DEF DirectInv, CollectFollows, ResolvedFollows, ReadWhenEmpty, EntryOfPass, FailureExplained
<1> QED
  BY <1>1, <1>2, <1>3 DEF InPass

\* A failed pass has failed where the reference fails, or at a glob it was not
\* given the files for.
LEMMA FailDirect ==
  ASSUME CallsTyped, TextsEnd
  PROVE  IInv /\ DirectInv /\ FailPass => DirectInv'
<1> SUFFICES ASSUME IInv, DirectInv, FailPass PROVE DirectInv'
  OBVIOUS
<1> DEFINE call == CallOf(text, seen)
<1>0. text \in Text /\ seen \in Seq(SUBSET File) /\ view \in SUBSET File /\ {} \in SUBSET File
  BY DEF IInv, TypeOK
<1>1. /\ UNCHANGED <<text, entry, map, view>> /\ pass \in InPass /\ pass' = "failed"
      /\ \/ Rejected(targets, call)
         \/ call.op = "glob" /\ pass = "plain"
         \/ call.op = "glob" /\ pass = "resolved" /\ call.spec \notin DOMAIN map
  BY DEF FailPass, Call, Rejected
<1> HIDE DEF call
<1>2. FailureExplained'
  <2> SUFFICES ASSUME entry = "evaluate_build_globs"
               PROVE  \/ Evaluated(text, view).status = "failed"
                      \/ Evaluated(text, {}).status = "failed"
                      \/ ~(Evaluated(text, view).read \subseteq Evaluated(text, {}).read)
    BY <1>1 DEF FailureExplained
  <2>0. pass # "plain"
    BY DEF DirectInv, EntryOfPass
  <2>1. CASE pass = "collect"
    <3>1. Rejected(targets, CallOf(text, seen)) /\ Along(text, {}, seen, targets)
      BY <1>1, <2>1 DEF DirectInv, CollectFollows, call
    <3> QED BY <1>0, <3>1, AlongEnd
  <2>2. CASE pass = "resolved" /\ Rejected(targets, call)
    <3>1. Rejected(targets, CallOf(text, seen)) /\ Along(text, view, seen, targets)
      BY <2>2 DEF DirectInv, ResolvedFollows, call
    <3> QED BY <1>0, <3>1, AlongEnd
  <2>3. CASE pass = "resolved" /\ call.op = "glob" /\ call.spec \notin DOMAIN map
    <3>1. Along(text, view, seen, targets)
      BY <2>3 DEF DirectInv, ResolvedFollows
    <3>2. call.spec \in Evaluated(text, view).read
      BY <1>0, <2>3, <3>1, AlongGlob DEF call
    <3>3. call.spec \notin Evaluated(text, {}).read
      BY <2>3 DEF DirectInv, ReadWhenEmpty
    <3> QED BY <3>2, <3>3
  <2> QED
    BY <1>1, <2>0, <2>1, <2>2, <2>3 DEF InPass
<1> QED
  BY <1>1, <1>2
  DEF DirectInv, CollectFollows, ResolvedFollows, ReadWhenEmpty, EntryOfPass, DoneIsDirect

LEMMA NextDirect ==
  ASSUME CallsTyped, TextsEnd
  PROVE  IInv /\ DirectInv /\ [Next]_vars => DirectInv'
<1> SUFFICES ASSUME IInv, DirectInv, [Next]_vars PROVE DirectInv'
  OBVIOUS
<1>1. ASSUME NEW F \in SUBSET File, Edit(F) PROVE DirectInv'
  BY <1>1, SameDirect DEF Edit, registry
<1>2. CASE UNCHANGED vars
  BY <1>2, SameDirect DEF vars
<1> QED
  BY <1>1, <1>2, ResolveDirect, BeginDirect, GlobDirect, DeclareDirect, EndDirect, FailDirect
  DEF Next

THEOREM DirectHeld ==
  ASSUME CallsTyped, TextsEnd
  PROVE  Spec => []DirectInv
<1>1. Spec => []IInv
  BY Inductive
<1> QED
  BY <1>1, InitDirect, NextDirect, PTL DEF Spec

(***************************************************************************)
(* The package that evaluate_build or the two passes of                    *)
(* evaluate_build_globs deliver is the one a single evaluation with the    *)
(* directory as it was at one moment would have declared: no target is     *)
(* lost, left over from the collect pass, or computed from its empty lists.*)
(***************************************************************************)
THEOREM PackageIsDirect ==
  ASSUME CallsTyped, TextsEnd
  PROVE  Spec => []DoneIsDirect
<1>1. DirectInv => DoneIsDirect
  BY DEF DirectInv
<1> QED
  BY <1>1, DirectHeld, PTL

(***************************************************************************)
(* An evaluation with globs fails only where the text fails by itself or   *)
(* on empty globs, where a glob that must not be empty is, or where the    *)
(* text reads a glob the collect pass could not see.                       *)
(***************************************************************************)
THEOREM FailuresExplained ==
  ASSUME CallsTyped, TextsEnd
  PROVE  Spec => []FailureExplained
<1>1. DirectInv => FailureExplained
  BY DEF DirectInv
<1> QED
  BY <1>1, DirectHeld, PTL

-------------------------------------------------------------------------------
(***************************************************************************)
(* The refinement.                                                         *)
(***************************************************************************)
LEMMA SameOperators ==
  /\ \A g, F : Direct!Matches(g, F) = Matches(g, F)
  /\ \A call : Direct!IsDeclaration(call) = IsDeclaration(call)
  /\ \A call : Direct!Declared(call) = Declared(call)
  /\ \A T, call : Direct!Accepted(T, call) = Accepted(T, call)
<1>1. \A g, F : Direct!Matches(g, F) = Matches(g, F)
  BY DEF Direct!Matches, Matches
<1>2. \A call : Direct!IsDeclaration(call) = IsDeclaration(call)
  BY DEF Direct!IsDeclaration, IsDeclaration
<1>3. Direct!Signature = Signature /\ Direct!Shape = Shape /\ Direct!CommonAttr = CommonAttr
  BY DEF Direct!Signature, Signature, Direct!Shape, Shape, Direct!CommonAttr, CommonAttr
<1>4. \A call : Direct!Given(call) = Given(call)
  BY DEF Direct!Given, Given
<1>5. \A kind, given : Direct!Recorded(kind, given) = Recorded(kind, given)
  BY <1>3 DEF Direct!Recorded, Recorded
<1>6. \A v : Direct!Convertible(v) = Convertible(v)
  BY DEF Direct!Convertible, Convertible
<1>7. \A v, ty : Direct!attr_value_matches(v, ty) = attr_value_matches(v, ty)
  BY <1>3 DEF Direct!attr_value_matches, attr_value_matches
<1>8. \A rule, given : Direct!RuleAccepted(rule, given) = RuleAccepted(rule, given)
  BY <1>3, <1>6, <1>7 DEF Direct!RuleAccepted, RuleAccepted
<1>9. \A kind, given : Direct!NativeAccepted(kind, given) = NativeAccepted(kind, given)
  BY <1>3, <1>5, <1>6 DEF Direct!NativeAccepted, NativeAccepted
<1>10. \A call : Direct!Takes(call) = Takes(call)
  BY <1>4, <1>6, <1>8, <1>9 DEF Direct!Takes, Takes
<1>11. \A call : Direct!Declared(call) = Declared(call)
  BY <1>4, <1>5 DEF Direct!Declared, Declared, Direct!NoOrigin, NoOrigin
<1>12. \A T, call : Direct!Accepted(T, call) = Accepted(T, call)
  BY <1>10 DEF Direct!Accepted, Accepted, Direct!Named, Named, Direct!IsDup, IsDup
<1> QED
  BY <1>1, <1>2, <1>11, <1>12

LEMMA InitRefines == Init => Direct!Init
BY DEF Init, Direct!Init, status, shownSeen, shownTargets

LEMMA NextRefines == IInv /\ [Next]_vars => [Direct!Next]_Direct!vars
<1> SUFFICES ASSUME IInv, [Next]_vars PROVE [Direct!Next]_Direct!vars
  OBVIOUS
<1> USE DEF status, shownSeen, shownTargets, IInv, FreshWhenIdle
<1>1. ASSUME NEW F \in SUBSET File, Edit(F) PROVE Direct!Edit
  BY <1>1 DEF Edit, Direct!Edit, registry
<1>2. ASSUME Resolve PROVE Direct!Open \/ Direct!GiveUp
  BY <1>2 DEF Resolve, Direct!Open, Direct!GiveUp, TypeOK
<1>3. ASSUME BeginCollect PROVE Direct!Close
  BY <1>3 DEF BeginCollect, Direct!Close, Fresh
<1>4. ASSUME BeginPlain PROVE Direct!Open
  BY <1>4 DEF BeginPlain, Direct!Open, Fresh
<1>5. ASSUME BeginResolved PROVE UNCHANGED Direct!vars
  BY <1>5 DEF BeginResolved, Direct!vars, Fresh
<1>6. ASSUME GlobCollect PROVE UNCHANGED Direct!vars
  BY <1>6 DEF GlobCollect, Direct!vars
<1>7. ASSUME GlobResolved PROVE Direct!Glob
  <2>1. map[Call.spec] = Direct!Matches(Call.spec, view)
    BY <1>7, SameOperators DEF GlobResolved, MapOfView
  <2> QED
    BY <1>7, <2>1 DEF GlobResolved, Direct!Glob, Call
<1>8. ASSUME Declare PROVE Direct!Declare \/ UNCHANGED Direct!vars
  <2>1. CASE pass = "collect"
    BY <1>8, <2>1 DEF Declare, Direct!vars
  <2>2. CASE pass \in {"resolved", "plain"}
    BY <1>8, <2>2, SameOperators DEF Declare, Direct!Declare, Call
  <2> QED
    BY <1>8, <2>1, <2>2 DEF Declare, InPass
<1>9. ASSUME EndPass PROVE Direct!Finish \/ UNCHANGED Direct!vars
  <2>1. CASE pass = "collect"
    BY <1>9, <2>1 DEF EndPass, Direct!vars, registry
  <2>2. CASE pass \in {"resolved", "plain"}
    BY <1>9, <2>2 DEF EndPass, Direct!Finish, Call, registry
  <2> QED
    BY <1>9, <2>1, <2>2 DEF EndPass, InPass
<1>10. ASSUME FailPass PROVE Direct!GiveUp
  BY <1>10 DEF FailPass, Direct!GiveUp, InPass
<1>11. CASE UNCHANGED vars
  BY <1>11 DEF vars, Direct!vars
<1> QED
  BY <1>1, <1>2, <1>3, <1>4, <1>5, <1>6, <1>7, <1>8, <1>9, <1>10, <1>11
  DEF Next, Direct!Next

(***************************************************************************)
(* eval_build_inner run twice, with the globs resolved in between, is one  *)
(* evaluation that reads the directory at one moment and may give up.      *)
(***************************************************************************)
THEOREM TwoPassesImplementOne ==
  ASSUME CallsTyped
  PROVE  Spec => DirectSpec
<1>1. Spec => []IInv
  BY Inductive
<1>2. IInv /\ [Next]_vars => [Direct!Next]_Direct!vars
  BY NextRefines
<1> QED
  BY <1>1, <1>2, InitRefines, PTL DEF Spec, DirectSpec, Direct!Spec
-------------------------------------------------------------------------------
(***************************************************************************)
(* MODULE.bazel.  What the registry holds is what the calls made so far    *)
(* declare, at every moment of an evaluation and not only at its end: the  *)
(* result is the registry, whenever the text ends.                         *)
(***************************************************************************)

\* A registration joins its labels to those before it, so the labels of each
\* are a sequence.
Listed(calls) ==
  \A j \in DOMAIN CallsOf(calls, "register_toolchains") :
    IsSequence(CallsOf(calls, "register_toolchains")[j].labels)

\* The rules a text holds are those it asked for.
RulesAsked ==
  \A rule \in repo_rules : \E k \in DOMAIN written :
    written[k] = [op |-> "use_repo_rule", rule |-> rule]

ModuleInv ==
  /\ IsSequence(written)
  /\ IsSequence(module_registry.repos)
  /\ module_registry = [module_name |-> module_registry.module_name,
                        toolchains |-> module_registry.toolchains,
                        repos |-> module_registry.repos]
  /\ AsWritten(module_registry, written)
  /\ Listed(written)
  /\ RulesAsked
  /\ module_value \subseteq {module_registry}
  /\ reading => module_value = {}

\* Flattening one sequence more, whatever the sequences hold.
LEMMA FlattenLast ==
  ASSUME NEW ss, IsSequence(ss), \A i \in DOMAIN ss : IsSequence(ss[i]), NEW s, IsSequence(s)
  PROVE  FlattenSeq(Append(ss, s)) = FlattenSeq(ss) \o s
PROOF
<1> DEFINE tt == <<s>>
<1>1. IsSequence(tt) /\ Len(tt) = 1 /\ tt[1] = s /\ DOMAIN tt = 1 .. 1
  BY SequenceShort, SequenceFacts
<1>2. \A i \in DOMAIN tt : IsSequence(tt[i])
  BY <1>1
<1>3. FlattenSeq(tt) = s
  BY FlattenOne
<1>4. Append(ss, s) = ss \o tt
  BY SequenceFacts
<1> HIDE DEF tt
<1>5. FlattenSeq(ss \o tt) = FlattenSeq(ss) \o FlattenSeq(tt)
  BY <1>1, <1>2, FlattenConcat
<1> QED
  BY <1>3, <1>4, <1>5

\* The calls of one builtin, after one more call.
LEMMA CallsOfAppend ==
  ASSUME NEW calls, IsSequence(calls), NEW c, NEW op
  PROVE  /\ IsSequence(CallsOf(calls, op))
         /\ c.op = op => CallsOf(Append(calls, c), op) = Append(CallsOf(calls, op), c)
         /\ c.op # op => CallsOf(Append(calls, c), op) = CallsOf(calls, op)
PROOF
<1> DEFINE Only(x) == IF x.op = op THEN <<x>> ELSE <<>>
           n == Len(calls)
           more == Append(calls, c)
           ss == [j \in DOMAIN calls |-> Only(calls[j])]
           rr == [j \in DOMAIN more |-> Only(more[j])]
<1>1. /\ n \in Nat /\ DOMAIN calls = 1 .. n /\ DOMAIN more = 1 .. n + 1
      /\ more[n + 1] = c /\ \A j \in 1 .. n : more[j] = calls[j]
  BY SequenceAppend, SequenceFacts
<1>2. \A x : IsSequence(Only(x))
  BY SequenceShort
<1>3. CallsOf(calls, op) = FlattenSeq(ss) /\ CallsOf(more, op) = FlattenSeq(rr)
  BY DEF CallsOf
<1>4. /\ DOMAIN ss = 1 .. n /\ \A j \in 1 .. n : ss[j] = Only(calls[j])
      /\ DOMAIN rr = 1 .. n + 1 /\ \A j \in 1 .. n + 1 : rr[j] = Only(more[j])
      /\ ss = [j \in 1 .. n |-> ss[j]] /\ rr = [j \in 1 .. n + 1 |-> rr[j]]
  BY <1>1
<1> DEFINE last == Only(c)
<1>5. last = Only(c) /\ IsSequence(last)
  BY <1>2
<1>6. (c.op = op => last = <<c>>) /\ (c.op # op => last = <<>>)
  OBVIOUS
<1> HIDE DEF ss, rr, more, n, last
<1>7. IsSequence(ss) /\ Len(ss) = n
  BY <1>1, <1>4, SequenceMade
<1>8. n + 1 \in Nat
  BY <1>1
<1>9. IsSequence(rr) /\ Len(rr) = n + 1
  BY <1>4, <1>8, SequenceMade
<1>10. \A j \in 1 .. n : rr[j] = ss[j]
  BY <1>1, <1>4
<1>11. rr[n + 1] = last
  BY <1>1, <1>4, <1>5
<1> DEFINE tt == Append(ss, last)
<1>12. /\ IsSequence(tt) /\ Len(tt) = n + 1 /\ tt[n + 1] = last
       /\ \A j \in 1 .. n : tt[j] = ss[j]
  BY <1>7, SequenceAppend
<1> HIDE DEF tt
<1>13. tt = [j \in 1 .. n + 1 |-> tt[j]]
  BY <1>12, SequenceFacts
<1>14. \A j \in 1 .. n + 1 : tt[j] = rr[j]
  <2> TAKE j \in 1 .. n + 1
  <2>1. j = n + 1 \/ j \in 1 .. n
    BY <1>1
  <2> QED BY <1>10, <1>11, <1>12, <2>1
<1>15. rr = tt
  BY <1>4, <1>13, <1>14
<1>16. \A j \in DOMAIN ss : IsSequence(ss[j])
  BY <1>2, <1>4
<1>17. FlattenSeq(tt) = FlattenSeq(ss) \o last
  BY <1>5, <1>7, <1>16, FlattenLast DEF tt
<1> DEFINE flat == FlattenSeq(ss)
<1>18. IsSequence(flat)
  BY <1>7, <1>16, SequenceFlatten
<1>19. /\ \A x : flat \o <<x>> = Append(flat, x)
       /\ flat \o <<>> = flat
  <2> HIDE DEF flat
  <2>1. flat \in Seq(ToSet(flat))
    BY <1>18 DEF IsSequence
  <2>2. flat \o <<>> = flat
    BY <1>18, SequenceConcat, SequenceShort
  <2>3. ASSUME NEW x PROVE flat \o <<x>> = Append(flat, x)
    <3> DEFINE S == ToSet(flat) \cup {x}
    <3>1. flat \in Seq(S) /\ x \in S
      BY <2>1
    <3> HIDE DEF S
    <3> QED BY <3>1
  <2> QED BY <2>2, <2>3
<1> QED
  BY <1>3, <1>6, <1>15, <1>17, <1>18, <1>19 DEF more

\* What one more call adds to each list of the registry.
LEMMA AsWrittenAppend ==
  ASSUME NEW value, NEW calls, IsSequence(calls), AsWritten(value, calls), Listed(calls),
         IsSequence(value.repos), NEW c, NEW after,
         c.op # "repository" => after.repos = value.repos,
         c.op # "register_toolchains" => after.toolchains = value.toolchains,
         c.op # "module" => after.module_name = value.module_name,
         c.op = "repository" =>
           /\ \E repo : after.repos = Append(value.repos, repo) /\ Declares(repo, c.named)
           /\ \E k \in DOMAIN calls :
                calls[k] = [op |-> "use_repo_rule", rule |-> "new_local_repository"],
         c.op = "register_toolchains" =>
           after.toolchains = value.toolchains \o c.labels /\ IsSequence(c.labels),
         c.op = "module" => after.module_name = c.name
  PROVE  AsWritten(after, Append(calls, c)) /\ Listed(Append(calls, c))
PROOF
<1> DEFINE more == Append(calls, c)
           Of(op) == CallsOf(calls, op)
           Then(op) == CallsOf(more, op)
<1>1. ASSUME NEW op
      PROVE  /\ IsSequence(Of(op))
             /\ c.op = op => Then(op) = Append(Of(op), c)
             /\ c.op # op => Then(op) = Of(op)
  BY CallsOfAppend
<1>2. /\ value.module_name = IF Of("module") = <<>> THEN "" ELSE Of("module")[Len(Of("module"))].name
      /\ value.toolchains = FlattenSeq(LabelsOf(Of("register_toolchains")))
      /\ Len(value.repos) = Len(Of("repository"))
      /\ \A j \in DOMAIN Of("repository") : Declares(value.repos[j], Of("repository")[j].named)
      /\ \A j \in DOMAIN calls : calls[j].op = "repository" =>
           \E k \in 1 .. (j - 1) :
             calls[k] = [op |-> "use_repo_rule", rule |-> "new_local_repository"]
  BY DEF AsWritten
<1>3. \A j \in DOMAIN Of("register_toolchains") : IsSequence(Of("register_toolchains")[j].labels)
  BY DEF Listed
<1>4. /\ Len(calls) \in Nat /\ DOMAIN calls = 1 .. Len(calls) /\ DOMAIN more = 1 .. Len(calls) + 1
      /\ more[Len(calls) + 1] = c /\ \A j \in 1 .. Len(calls) : more[j] = calls[j]
  BY SequenceAppend, SequenceFacts
<1> HIDE DEF Of, Then, more
<1>5. after.module_name = IF Then("module") = <<>> THEN "" ELSE Then("module")[Len(Then("module"))].name
  <2>1. CASE c.op = "module"
    <3> DEFINE m == Of("module")
               n == Then("module")
    <3>1. IsSequence(m) /\ n = Append(m, c)
      BY <1>1, <2>1
    <3> HIDE DEF m, n
    <3>2. IsSequence(n) /\ Len(n) = Len(m) + 1 /\ n[Len(m) + 1] = c /\ Len(m) \in Nat
      BY <3>1, SequenceAppend, SequenceFacts
    <3>3. n # <<>>
      BY <3>2, SequenceShort
    <3>4. n[Len(n)] = c
      BY <3>2
    <3> QED BY <2>1, <3>3, <3>4 DEF n
  <2>2. CASE c.op # "module"
    BY <1>1, <1>2, <2>2
  <2> QED BY <2>1, <2>2
<1>6. /\ after.toolchains = FlattenSeq(LabelsOf(Then("register_toolchains")))
      /\ \A j \in DOMAIN Then("register_toolchains") : IsSequence(Then("register_toolchains")[j].labels)
  <2>1. CASE c.op = "register_toolchains"
    <3> DEFINE m == Of("register_toolchains")
               n == Then("register_toolchains")
               ss == LabelsOf(m)
               rr == LabelsOf(n)
               tt == Append(ss, c.labels)
    <3>1. IsSequence(m) /\ n = Append(m, c)
      BY <1>1, <2>1
    <3>2. \A j \in DOMAIN m : IsSequence(m[j].labels)
      BY <1>3
    <3>3. value.toolchains = FlattenSeq(ss)
      BY <1>2
    <3> HIDE DEF m, n
    <3>4. /\ IsSequence(n) /\ Len(n) = Len(m) + 1 /\ n[Len(m) + 1] = c /\ Len(m) \in Nat
          /\ DOMAIN n = 1 .. Len(m) + 1 /\ DOMAIN m = 1 .. Len(m)
          /\ \A j \in 1 .. Len(m) : n[j] = m[j]
      BY <3>1, SequenceAppend, SequenceFacts
    <3>5. /\ ss = [j \in 1 .. Len(m) |-> m[j].labels]
          /\ rr = [j \in 1 .. Len(m) + 1 |-> n[j].labels]
      BY <3>4 DEF LabelsOf
    <3>6. /\ DOMAIN ss = 1 .. Len(m) /\ \A j \in 1 .. Len(m) : ss[j] = m[j].labels
          /\ \A j \in 1 .. Len(m) + 1 : rr[j] = n[j].labels
          /\ ss = [j \in 1 .. Len(m) |-> ss[j]] /\ rr = [j \in 1 .. Len(m) + 1 |-> rr[j]]
      BY <3>5
    <3> HIDE DEF ss, rr
    <3>7. IsSequence(ss) /\ Len(ss) = Len(m)
      BY <3>4, <3>6, SequenceMade
    <3>8. /\ IsSequence(tt) /\ Len(tt) = Len(m) + 1 /\ tt[Len(m) + 1] = c.labels
          /\ \A j \in 1 .. Len(m) : tt[j] = ss[j]
      BY <3>7, SequenceAppend
    <3> HIDE DEF tt
    <3>9. tt = [j \in 1 .. Len(m) + 1 |-> tt[j]]
      BY <3>8, SequenceFacts
    <3>10. \A j \in 1 .. Len(m) + 1 : tt[j] = rr[j]
      <4> TAKE j \in 1 .. Len(m) + 1
      <4>1. j = Len(m) + 1 \/ j \in 1 .. Len(m)
        BY <3>4
      <4> QED BY <3>4, <3>6, <3>8, <4>1
    <3>11. rr = tt
      BY <3>6, <3>9, <3>10
    <3>12. \A j \in DOMAIN ss : IsSequence(ss[j])
      BY <3>2, <3>4, <3>6
    <3>13. FlattenSeq(rr) = FlattenSeq(ss) \o c.labels
      BY <2>1, <3>7, <3>11, <3>12, FlattenLast DEF tt
    <3>14. after.toolchains = FlattenSeq(rr)
      BY <2>1, <3>3, <3>13
    <3>15. \A j \in DOMAIN n : IsSequence(n[j].labels)
      <4> TAKE j \in DOMAIN n
      <4>1. j = Len(m) + 1 \/ j \in 1 .. Len(m)
        BY <3>4
      <4> QED BY <2>1, <3>2, <3>4, <4>1
    <3> QED BY <3>14, <3>15 DEF rr, n
  <2>2. CASE c.op # "register_toolchains"
    BY <1>1, <1>2, <1>3, <2>2
  <2> QED BY <2>1, <2>2
<1>7. /\ Len(after.repos) = Len(Then("repository"))
      /\ \A j \in DOMAIN Then("repository") : Declares(after.repos[j], Then("repository")[j].named)
  <2>1. CASE c.op = "repository"
    <3> DEFINE m == Of("repository")
               n == Then("repository")
               old == value.repos
               new == after.repos
    <3>1. IsSequence(m) /\ n = Append(m, c) /\ Len(old) = Len(m) /\ IsSequence(old)
      BY <1>1, <1>2, <2>1
    <3>2. \A j \in DOMAIN m : Declares(old[j], m[j].named)
      BY <1>2
    <3>3. PICK repo : new = Append(old, repo) /\ Declares(repo, c.named)
      BY <2>1
    <3> HIDE DEF m, n, old, new
    <3>4. /\ IsSequence(n) /\ Len(n) = Len(m) + 1 /\ n[Len(m) + 1] = c /\ Len(m) \in Nat
          /\ DOMAIN n = 1 .. Len(m) + 1 /\ DOMAIN m = 1 .. Len(m)
          /\ \A j \in 1 .. Len(m) : n[j] = m[j]
      BY <3>1, SequenceAppend, SequenceFacts
    <3>5. /\ Len(new) = Len(m) + 1 /\ new[Len(m) + 1] = repo
          /\ \A j \in 1 .. Len(m) : new[j] = old[j]
      BY <3>1, <3>3, SequenceAppend
    <3>6. \A j \in DOMAIN n : Declares(new[j], n[j].named)
      <4> TAKE j \in DOMAIN n
      <4>1. j = Len(m) + 1 \/ j \in 1 .. Len(m)
        BY <3>4
      <4> QED BY <3>2, <3>3, <3>4, <3>5, <4>1
    <3> QED BY <3>4, <3>5, <3>6 DEF n, new
  <2>2. CASE c.op # "repository"
    BY <1>1, <1>2, <2>2
  <2> QED BY <2>1, <2>2
<1>8. ASSUME NEW j \in DOMAIN more, more[j].op = "repository"
      PROVE  \E k \in 1 .. (j - 1) :
               more[k] = [op |-> "use_repo_rule", rule |-> "new_local_repository"]
  <2>1. CASE j = Len(calls) + 1
    <3>1. PICK k \in DOMAIN calls :
            calls[k] = [op |-> "use_repo_rule", rule |-> "new_local_repository"]
      BY <1>4, <1>8, <2>1
    <3>2. k \in 1 .. (j - 1) /\ more[k] = calls[k]
      BY <1>4, <2>1
    <3> QED BY <3>1, <3>2
  <2>2. CASE j # Len(calls) + 1
    <3>1. j \in 1 .. Len(calls)
      BY <1>4, <2>2
    <3>2. PICK k \in 1 .. (j - 1) :
            calls[k] = [op |-> "use_repo_rule", rule |-> "new_local_repository"]
      BY <1>2, <1>4, <1>8, <3>1
    <3>3. k \in 1 .. Len(calls)
      BY <1>4, <3>1
    <3> QED BY <1>4, <3>2, <3>3
  <2> QED BY <2>1, <2>2
<1>9. AsWritten(after, more)
  BY <1>5, <1>6, <1>7, <1>8 DEF AsWritten, Then
<1>10. Listed(more)
  BY <1>6 DEF Listed, Then
<1> QED
  BY <1>9, <1>10 DEF more
\* Before the first call nothing is declared.
LEMMA EmptyIsWritten == AsWritten(EmptyRegistry, <<>>) /\ Listed(<<>>) /\ IsSequence(<<>>)
PROOF
<1>1. \A op : CallsOf(<<>>, op) = <<>>
  <2> TAKE op
  <2> DEFINE ss == [j \in DOMAIN <<>> |-> IF <<>>[j].op = op THEN <<(<<>>[j])>> ELSE <<>>]
  <2>1. CallsOf(<<>>, op) = FlattenSeq(ss)
    BY DEF CallsOf
  <2>2. DOMAIN <<>> = 1 .. 0
    BY SequenceShort, SequenceFacts
  <2>3. ss = [j \in 1 .. 0 |-> ss[j]]
    BY <2>2
  <2> HIDE DEF ss
  <2>4. Len(ss) = 0
    BY <2>3, SequenceMade
  <2> QED BY <2>1, <2>4 DEF FlattenSeq
<1>2. FlattenSeq(LabelsOf(<<>>)) = <<>>
  <2> DEFINE ss == LabelsOf(<<>>)
  <2>1. DOMAIN <<>> = 1 .. 0
    BY SequenceShort, SequenceFacts
  <2>2. ss = [j \in 1 .. 0 |-> ss[j]]
    BY <2>1 DEF LabelsOf
  <2> HIDE DEF ss
  <2>3. Len(ss) = 0
    BY <2>2, SequenceMade
  <2> QED BY <2>3 DEF FlattenSeq, ss
<1>3. AsWritten(EmptyRegistry, <<>>)
  BY <1>1, <1>2, SequenceShort DEF AsWritten, EmptyRegistry
<1>4. Listed(<<>>)
  BY <1>1, SequenceShort DEF Listed
<1> QED
  BY <1>3, <1>4, SequenceShort

LEMMA ModuleInitInv == ModuleInit => ModuleInv
PROOF
<1> SUFFICES ASSUME ModuleInit PROVE ModuleInv
  OBVIOUS
<1>1. /\ module_registry = EmptyRegistry /\ written = <<>> /\ repo_rules = {}
      /\ module_value = {} /\ reading = FALSE
  BY DEF ModuleInit
<1> QED
  BY <1>1, EmptyIsWritten DEF ModuleInv, RulesAsked, EmptyRegistry

\* A call that is accepted adds to the registry what it declares.
LEMMA ModuleCallInv ==
  ASSUME ModuleInv, NEW c, ModuleCall(c),
         module_registry' = [module_name |-> module_registry'.module_name,
                             toolchains |-> module_registry'.toolchains,
                             repos |-> module_registry'.repos],
         c.op # "repository" => module_registry'.repos = module_registry.repos,
         c.op # "register_toolchains" => module_registry'.toolchains = module_registry.toolchains,
         c.op # "module" => module_registry'.module_name = module_registry.module_name,
         c.op = "repository" =>
           /\ \E repo : /\ module_registry'.repos = Append(module_registry.repos, repo)
                        /\ Declares(repo, c.named)
           /\ "new_local_repository" \in repo_rules,
         c.op = "register_toolchains" =>
           /\ module_registry'.toolchains = module_registry.toolchains \o c.labels
           /\ IsSequence(c.labels),
         c.op = "module" => module_registry'.module_name = c.name,
         \A rule \in repo_rules' :
           rule \in repo_rules \/ c = [op |-> "use_repo_rule", rule |-> rule]
  PROVE  ModuleInv'
PROOF
<1>1. /\ IsSequence(written) /\ AsWritten(module_registry, written) /\ Listed(written)
      /\ IsSequence(module_registry.repos) /\ RulesAsked
      /\ module_value = {} /\ reading' = TRUE /\ module_value' = {}
      /\ written' = Append(written, c)
  BY DEF ModuleInv, ModuleCall
<1> DEFINE more == Append(written, c)
<1>2. /\ IsSequence(more) /\ Len(written) \in Nat
      /\ DOMAIN written = 1 .. Len(written) /\ DOMAIN more = 1 .. Len(written) + 1
      /\ more[Len(written) + 1] = c /\ \A j \in 1 .. Len(written) : more[j] = written[j]
  BY <1>1, SequenceAppend, SequenceFacts
<1>3. c.op = "repository" => \E k \in DOMAIN written :
        written[k] = [op |-> "use_repo_rule", rule |-> "new_local_repository"]
  BY <1>1 DEF RulesAsked
<1> DEFINE old == module_registry
           new == module_registry'
<1>4. AsWritten(new, more) /\ Listed(more)
  <2>1. /\ c.op # "repository" => new.repos = old.repos
        /\ c.op # "register_toolchains" => new.toolchains = old.toolchains
        /\ c.op # "module" => new.module_name = old.module_name
        /\ c.op = "repository" => \E repo : new.repos = Append(old.repos, repo) /\ Declares(repo, c.named)
        /\ c.op = "register_toolchains" =>
             new.toolchains = old.toolchains \o c.labels /\ IsSequence(c.labels)
        /\ c.op = "module" => new.module_name = c.name
        /\ AsWritten(old, written) /\ IsSequence(old.repos)
    BY <1>1
  <2> HIDE DEF old, new
  <2> QED BY <1>1, <1>3, <2>1, AsWrittenAppend
<1>5. IsSequence(new.repos)
  <2>1. CASE c.op = "repository"
    <3>1. PICK repo : new.repos = Append(module_registry.repos, repo)
      BY <2>1
    <3> QED BY <1>1, <3>1, SequenceAppend
  <2>2. CASE c.op # "repository"
    BY <1>1, <2>2
  <2> QED BY <2>1, <2>2
<1>6. \A rule \in repo_rules' : \E k \in DOMAIN more :
        more[k] = [op |-> "use_repo_rule", rule |-> rule]
  <2> TAKE rule \in repo_rules'
  <2>1. CASE rule \in repo_rules
    <3>1. PICK k \in DOMAIN written : written[k] = [op |-> "use_repo_rule", rule |-> rule]
      BY <1>1, <2>1 DEF RulesAsked
    <3>2. k \in DOMAIN more /\ more[k] = written[k]
      BY <1>2
    <3> QED BY <3>1, <3>2
  <2>2. CASE c = [op |-> "use_repo_rule", rule |-> rule]
    BY <1>2, <2>2
  <2> QED BY <2>1, <2>2
<1> QED
  BY <1>1, <1>2, <1>4, <1>5, <1>6 DEF ModuleInv, RulesAsked

LEMMA ModuleNextInv ==
  ASSUME ModuleInv, [ModuleNext]_module_vars
  PROVE  ModuleInv'
PROOF
<1>0. module_registry = [module_name |-> module_registry.module_name,
                         toolchains |-> module_registry.toolchains,
                         repos |-> module_registry.repos]
  BY DEF ModuleInv
<1>1. ASSUME evaluate_module_file PROVE ModuleInv'
  <2>1. /\ module_registry' = EmptyRegistry /\ written' = <<>> /\ repo_rules' = {}
        /\ module_value' = {}
    BY <1>1 DEF evaluate_module_file
  <2> QED BY <2>1, EmptyIsWritten DEF ModuleInv, RulesAsked, EmptyRegistry
<1>2. ASSUME module PROVE ModuleInv'
  <2>1. PICK name \in ModuleName :
          /\ ModuleCall([op |-> "module", name |-> name])
          /\ module_registry' = [module_registry EXCEPT !.module_name = name]
          /\ UNCHANGED repo_rules
    BY <1>2 DEF module
  <2> DEFINE c == [op |-> "module", name |-> name]
  <2>2. /\ module_registry'.module_name = name
        /\ module_registry'.toolchains = module_registry.toolchains
        /\ module_registry'.repos = module_registry.repos
        /\ module_registry' = [module_name |-> module_registry'.module_name,
                               toolchains |-> module_registry'.toolchains,
                               repos |-> module_registry'.repos]
    BY <1>0, <2>1
  <2>3. c.op = "module" /\ c.name = name /\ ModuleCall(c)
    BY <2>1
  <2> HIDE DEF c
  <2> QED BY <2>1, <2>2, <2>3, ModuleCallInv
<1>3. ASSUME register_toolchains PROVE ModuleInv'
  <2>1. PICK labels \in ToolchainArgs :
          /\ ModuleCall([op |-> "register_toolchains", labels |-> labels])
          /\ module_registry' = [module_registry EXCEPT !.toolchains = @ \o labels]
          /\ UNCHANGED repo_rules
    BY <1>3 DEF register_toolchains
  <2> DEFINE c == [op |-> "register_toolchains", labels |-> labels]
  <2>2. /\ module_registry'.module_name = module_registry.module_name
        /\ module_registry'.toolchains = module_registry.toolchains \o labels
        /\ module_registry'.repos = module_registry.repos
        /\ module_registry' = [module_name |-> module_registry'.module_name,
                               toolchains |-> module_registry'.toolchains,
                               repos |-> module_registry'.repos]
    BY <1>0, <2>1
  <2>3. c.op = "register_toolchains" /\ c.labels = labels /\ ModuleCall(c) /\ IsSequence(labels)
    BY <2>1, ModuleFileAssumption DEF IsSequence
  <2> HIDE DEF c
  <2> QED BY <2>1, <2>2, <2>3, ModuleCallInv
<1>4. ASSUME use_repo_rule PROVE ModuleInv'
  <2>1. PICK rule \in RepoRule :
          /\ ModuleCall([op |-> "use_repo_rule", rule |-> rule])
          /\ repo_rules' = repo_rules \cup {rule}
          /\ UNCHANGED module_registry
    BY <1>4 DEF use_repo_rule
  <2> DEFINE c == [op |-> "use_repo_rule", rule |-> rule]
  <2>2. /\ c.op = "use_repo_rule" /\ ModuleCall(c)
        /\ \A r \in repo_rules' : r \in repo_rules \/ c = [op |-> "use_repo_rule", rule |-> r]
    BY <2>1
  <2> HIDE DEF c
  <2> QED BY <1>0, <2>1, <2>2, ModuleCallInv
<1>5. ASSUME RepoRuleValue PROVE ModuleInv'
  <2>1. PICK rule \in repo_rules, named \in RepoArgs :
          /\ ModuleCall([op |-> "repository", rule |-> rule, named |-> named])
          /\ RepoAccepted(rule, named)
          /\ module_registry' = [module_registry EXCEPT !.repos = Append(@, RepoDecl(named))]
          /\ UNCHANGED repo_rules
    BY <1>5 DEF RepoRuleValue
  <2> DEFINE c == [op |-> "repository", rule |-> rule, named |-> named]
             repo == RepoDecl(named)
  <2>2. /\ repo.name = named["name"] /\ repo.path = named["path"]
        /\ repo.build_file # <<>> <=> "build_file" \in DOMAIN named
        /\ repo.build_file # <<>> => repo.build_file[1] = named["build_file"]
    <3> DEFINE file == IF "build_file" \in DOMAIN named THEN <<named["build_file"]>> ELSE <<>>
    <3>1. repo.name = named["name"] /\ repo.path = named["path"] /\ repo.build_file = file
      BY DEF RepoDecl
    <3>2. \A x : <<x>> # <<>> /\ <<x>>[1] = x
      OBVIOUS
    <3>3. /\ file # <<>> <=> "build_file" \in DOMAIN named
          /\ file # <<>> => file[1] = named["build_file"]
      BY <3>2
    <3> QED BY <3>1, <3>3
  <2>3. Declares(repo, named)
    <3> HIDE DEF repo
    <3> QED BY <2>1, <2>2 DEF Declares, RepoAccepted
  <2>4. "new_local_repository" \in repo_rules
    BY <2>1 DEF RepoAccepted
  <2>5. module_registry' = [module_registry EXCEPT !.repos = Append(module_registry.repos, repo)]
    BY <2>1
  <2> HIDE DEF repo
  <2>6. /\ module_registry'.module_name = module_registry.module_name
        /\ module_registry'.toolchains = module_registry.toolchains
        /\ module_registry'.repos = Append(module_registry.repos, repo)
        /\ module_registry' = [module_name |-> module_registry'.module_name,
                               toolchains |-> module_registry'.toolchains,
                               repos |-> module_registry'.repos]
    BY <1>0, <2>5
  <2>7. c.op = "repository" /\ c.named = named /\ ModuleCall(c)
    BY <2>1
  <2> HIDE DEF c
  <2> QED BY <2>1, <2>3, <2>4, <2>6, <2>7, ModuleCallInv
<1>6. ASSUME EndModuleFile \/ FailModuleFile PROVE ModuleInv'
  BY <1>6 DEF EndModuleFile, FailModuleFile, Ended, ModuleInv, RulesAsked
<1>7. CASE UNCHANGED module_vars
  BY <1>7 DEF module_vars, ModuleInv, RulesAsked
<1> QED
  BY <1>1, <1>2, <1>3, <1>4, <1>5, <1>6, <1>7 DEF ModuleNext

(***************************************************************************)
(* A MODULE.bazel that evaluates declares all its calls say, in order, and *)
(* nothing of a text evaluated before it.                                  *)
(***************************************************************************)
THEOREM ModuleIsAsWritten == ModuleSpec => []DeclaredAsWritten
PROOF
<1>1. ModuleInv => DeclaredAsWritten
  BY DEF ModuleInv, DeclaredAsWritten
<1>2. ModuleInv /\ [ModuleNext]_module_vars => ModuleInv'
  BY ModuleNextInv
<1> QED
  BY <1>1, <1>2, ModuleInitInv, PTL DEF ModuleSpec
===============================================================================
