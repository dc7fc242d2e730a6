--------------------------- MODULE LiveModulesProofs ---------------------------
(***************************************************************************)
(* Proofs about LiveModules, for every set of modules, texts and workers   *)
(* and every bound: its types, that no call is stale, that early cutoff is *)
(* sound, that a living evaluator always finds what was loaded, that an    *)
(* entry of the bridge never changes, and that LinkedModules is what the   *)
(* bridge implements.                                                      *)
(***************************************************************************)
EXTENDS LiveModules, SequenceTheorems, TLAPS

(***************************************************************************)
(* The inductive invariant.  Unambiguous is what content addressing is     *)
(* for: one ref, one code.  It cannot be read off a single digest, since a *)
(* digest holds the refs of the loaded functions and not their code; it is *)
(* carried along as codes are defined.                                     *)
(***************************************************************************)
Unambiguous ==
  \A c1, c2 \in defined : FunctionRef(c1) = FunctionRef(c2) => c1 = c2

FiledUnderKey == \A k \in DOMAIN cache : CacheKey(cache[k]) = k

Retained == replacements = 0 => \A c \in defined : CacheKey(c) \in DOMAIN cache

BuiltFrom ==
  \A m \in Module : value[m] # NoValue =>
     /\ built[m].module = m
     /\ value[m] = Exports(built[m])

CachedJobs ==
  \A w \in Worker : (job[w] # NoJob /\ job[w].cached) => job[w].code \in defined

IInv ==
  /\ TypeOK
  /\ Unambiguous
  /\ FiledUnderKey
  /\ Retained
  /\ BuiltFrom
  /\ CachedJobs
  /\ NoStaleCall

(***************************************************************************)
(* A BzlModule is determined by its encoding, once refs are unambiguous.   *)
(***************************************************************************)
LEMMA EncodingDetermines ==
  ASSUME NEW C, NEW a, NEW b,
         IsBzlModule(a, C), IsBzlModule(b, C),
         \A c1, c2 \in C : FunctionRef(c1) = FunctionRef(c2) => c1 = c2,
         encode_bzl_value(a) = encode_bzl_value(b)
  PROVE  a = b
<1>1. a.const = b.const /\ {l.ref : l \in a.links} = {l.ref : l \in b.links}
  BY DEF encode_bzl_value
<1>2. ASSUME NEW x, NEW y, IsBzlModule(x, C), IsBzlModule(y, C),
             {l.ref : l \in x.links} \subseteq {l.ref : l \in y.links}
      PROVE  x.links \subseteq y.links
  <2> SUFFICES ASSUME NEW l \in x.links PROVE l \in y.links
    OBVIOUS
  <2>1. PICK k \in y.links : k.ref = l.ref
    BY <1>2
  <2>2. l = LinkTo(l.code) /\ l.code \in C /\ k = LinkTo(k.code) /\ k.code \in C
    BY <1>2 DEF IsBzlModule
  <2>3. l.ref = FunctionRef(l.code) /\ k.ref = FunctionRef(k.code)
    BY <2>2 DEF LinkTo
  <2> QED
    BY <2>1, <2>2, <2>3
<1>3. a.links \subseteq b.links /\ b.links \subseteq a.links
  BY <1>1, <1>2
<1> QED
  BY <1>1, <1>3 DEF IsBzlModule

(***************************************************************************)
(* A code is determined by its ref, if the code it loaded is.              *)
(***************************************************************************)
LEMMA RefDetermines ==
  ASSUME NEW C, NEW a, NEW b,
         IsCode(a, C), IsCode(b, C),
         \A c1, c2 \in C : FunctionRef(c1) = FunctionRef(c2) => c1 = c2,
         FunctionRef(a) = FunctionRef(b)
  PROVE  a = b
<1>1. a.module = b.module /\ a.source = b.source
  BY DEF FunctionRef, defining_digest
<1>2. DOMAIN a.loaded = Loads[a.source] /\ DOMAIN b.loaded = Loads[b.source]
  BY DEF IsCode
<1>3. ASSUME NEW d \in Loads[a.source] PROVE a.loaded[d] = b.loaded[d]
  <2>1. [e \in DOMAIN a.loaded |-> encode_bzl_value(a.loaded[e])]
          = [e \in DOMAIN b.loaded |-> encode_bzl_value(b.loaded[e])]
    BY DEF FunctionRef, defining_digest
  <2>2. encode_bzl_value(a.loaded[d]) = encode_bzl_value(b.loaded[d])
    BY <1>1, <1>2, <2>1
  <2>3. IsBzlModule(a.loaded[d], C) /\ IsBzlModule(b.loaded[d], C)
    BY <1>1 DEF IsCode
  <2> QED
    BY <2>2, <2>3, EncodingDetermines
<1>4. [d \in Loads[a.source] |-> a.loaded[d]] = [d \in Loads[b.source] |-> b.loaded[d]]
  BY <1>1, <1>3
<1> QED
  BY <1>1, <1>4 DEF IsCode
(***************************************************************************)
(* Defining more codes disturbs no type, and what a defined code exports   *)
(* has the type of a BzlModule.                                            *)
(***************************************************************************)
LEMMA MoreCodes ==
  ASSUME NEW C, NEW D, C \subseteq D
  PROVE  /\ \A b : IsBzlModule(b, C) => IsBzlModule(b, D)
         /\ \A c : IsCode(c, C) => IsCode(c, D)
BY DEF IsBzlModule, IsCode

LEMMA ExportsTyped ==
  ASSUME NEW C, NEW c, IsCode(c, C), c \in C
  PROVE  IsBzlModule(Exports(c), C)
<1>1. ConstOf[c.source] \in Const /\ Reexports[c.source] \subseteq Loads[c.source]
  BY SourceAssumption DEF IsCode
<1>2. ASSUME NEW l \in Exports(c).links PROVE l.code \in C /\ l = LinkTo(l.code)
  <2>1. CASE l = LinkTo(c)
    BY <2>1 DEF LinkTo
  <2>2. CASE \E d \in Reexports[c.source] : l \in c.loaded[d].links
    BY <1>1, <2>2 DEF IsCode, IsBzlModule
  <2> QED
    BY <1>2, <2>1, <2>2 DEF Exports
<1>3. Exports(c).const = ConstOf[c.source]
  BY DEF Exports
<1>4. Exports(c) = [const |-> Exports(c).const, links |-> Exports(c).links]
  BY DEF Exports
<1> QED
  BY <1>1, <1>2, <1>3, <1>4 DEF IsBzlModule

(***************************************************************************)
(* What an evaluation is given is well typed.                              *)
(***************************************************************************)
LEMMA SnapshotTyped ==
  ASSUME TypeOK, NEW m \in Module, Ready(m)
  PROVE  IsCode(Snapshot(m), defined)
<1>1. source[m] \in Source /\ Loads[source[m]] \subseteq Module
  BY SourceAssumption DEF TypeOK
<1>2. /\ Snapshot(m).module = m
      /\ Snapshot(m).source = source[m]
      /\ Snapshot(m).loaded = [d \in Loads[source[m]] |-> value[d]]
  BY DEF Snapshot, LoadedFor
<1>3. \A d \in Loads[source[m]] : IsBzlModule(Snapshot(m).loaded[d], defined)
  BY <1>1, <1>2 DEF TypeOK, Ready
<1>4. Snapshot(m) = [module |-> Snapshot(m).module, source |-> Snapshot(m).source,
                     loaded |-> [d \in Loads[Snapshot(m).source] |-> Snapshot(m).loaded[d]]]
  BY <1>2 DEF Snapshot, LoadedFor
<1> QED
  BY <1>1, <1>2, <1>3, <1>4 DEF IsCode

LEMMA InitIInv == Init => IInv
<1> SUFFICES ASSUME Init PROVE IInv
  OBVIOUS
<1>1. TypeOK
  BY LiveAssumption DEF Init, TypeOK
<1>2. Unambiguous /\ FiledUnderKey /\ Retained
  BY DEF Init, Unambiguous, FiledUnderKey, Retained
<1>3. BuiltFrom /\ CachedJobs /\ NoStaleCall
  BY DEF Init, BuiltFrom, CachedJobs, NoStaleCall
<1> QED
  BY <1>1, <1>2, <1>3 DEF IInv
(***************************************************************************)
(* The steps of the engine that leave jobs and the bridge alone.           *)
(***************************************************************************)
LEMMA EditIInv ==
  ASSUME IInv, NEW m \in Module, NEW s \in Texts[m], Edit(m, s)
  PROVE  IInv'
<1> USE DEF IInv
<1>1. s \in Source
  BY LiveAssumption
<1>2. TypeOK'
  <2>1. source' \in [Module -> Source] /\ edits' \in 0 .. MaxEdits
    BY <1>1, LiveAssumption DEF Edit, TypeOK
  <2> QED
    BY <2>1 DEF Edit, TypeOK, IsJob, Frame
<1>3. Unambiguous' /\ FiledUnderKey' /\ Retained' /\ BuiltFrom' /\ CachedJobs' /\ NoStaleCall'
  BY DEF Edit, Unambiguous, FiledUnderKey, Retained, BuiltFrom, CachedJobs, NoStaleCall
<1> QED
  BY <1>2, <1>3

LEMMA ReplaceIInv == ASSUME IInv, Replace PROVE IInv'
<1> USE DEF IInv
<1>1. TypeOK'
  BY LiveAssumption DEF Replace, TypeOK
<1>2. Unambiguous' /\ FiledUnderKey' /\ BuiltFrom' /\ CachedJobs' /\ NoStaleCall'
  BY DEF Replace, Unambiguous, FiledUnderKey, BuiltFrom, CachedJobs, NoStaleCall
<1>3. Retained'
  BY DEF Replace, Retained, TypeOK
<1> QED
  BY <1>1, <1>2, <1>3

LEMMA BeginIInv ==
  ASSUME IInv, NEW w \in Worker, NEW m \in Module, NEW extra \in Phases, Begin(w, m, extra)
  PROVE  IInv'
<1> USE DEF IInv
<1>1. IsCode(Snapshot(m), defined)
  BY SnapshotTyped DEF Begin
<1>2. IsJob(Start(extra, Snapshot(m)))
  BY <1>1, LiveAssumption DEF IsJob, Start, Extra
<1>3. job' = [job EXCEPT ![w] = Start(extra, Snapshot(m))]
  BY DEF Begin
<1>4. TypeOK'
  BY <1>2, <1>3 DEF Begin, TypeOK, IsJob, Frame
<1>5. Unambiguous' /\ FiledUnderKey' /\ Retained' /\ BuiltFrom'
  BY DEF Begin, Unambiguous, FiledUnderKey, Retained, BuiltFrom
<1>6. CachedJobs' /\ NoStaleCall'
  BY <1>3 DEF Begin, Start, CachedJobs, NoStaleCall, TypeOK
<1> QED
  BY <1>4, <1>5, <1>6
(***************************************************************************)
(* The code on top of a call stack was loaded with defined codes only.     *)
(***************************************************************************)
LEMMA RunningTyped ==
  ASSUME TypeOK, NEW w \in Worker, job[w] # NoJob
  PROVE  IsCode(Running(w), defined)
<1>1. IsJob(job[w]) /\ job[w].stack \in Seq(Frame)
  BY DEF TypeOK, IsJob
<1>2. CASE job[w].stack = <<>>
  BY <1>1, <1>2 DEF Running, IsJob
<1>3. CASE job[w].stack # <<>>
  <2>1. job[w].stack[Len(job[w].stack)] \in Frame
    BY <1>1, <1>3
  <2> QED
    BY <1>3, <2>1 DEF Running, Frame, TypeOK
<1> QED
  BY <1>2, <1>3

LEMMA LinksTyped ==
  ASSUME NEW c, NEW C, IsCode(c, C), NEW l \in LinksOf(c)
  PROVE  l.code \in C /\ l.ref = FunctionRef(l.code)
<1>1. PICK d \in Loads[c.source] : l \in c.loaded[d].links
  BY DEF LinksOf, IsCode
<1>2. IsBzlModule(c.loaded[d], C)
  BY DEF IsCode
<1>3. l.code \in C /\ l = LinkTo(l.code)
  BY <1>1, <1>2 DEF IsBzlModule
<1> QED
  BY <1>3 DEF LinkTo

(***************************************************************************)
(* The step the bridge is there for: the entry under a ref is the code the *)
(* caller linked against, because both carry that ref.                     *)
(***************************************************************************)
LEMMA ServedIsLinked ==
  ASSUME IInv, NEW w \in Worker, job[w] # NoJob,
         NEW l \in LinksOf(Running(w)), l.ref \in DOMAIN cache
  PROVE  cache[l.ref] \in defined /\ l.code \in defined /\ cache[l.ref] = l.code
<1>1. l.code \in defined /\ l.ref = FunctionRef(l.code)
  BY RunningTyped, LinksTyped DEF IInv
<1>2. cache[l.ref] \in defined
  BY DEF IInv, TypeOK
<1>3. FunctionRef(cache[l.ref]) = l.ref
  BY DEF IInv, FiledUnderKey, CacheKey, FunctionRef
<1> QED
  BY <1>1, <1>2, <1>3 DEF IInv, Unambiguous

LEMMA InvokeIInv == ASSUME IInv, NEW w \in Worker, Invoke(w) PROVE IInv'
<1> USE DEF IInv
<1>1. job[w] # NoJob /\ IsJob(job[w]) /\ job[w].calls \in 0 .. MaxCalls /\ job[w].calls < MaxCalls
  BY DEF Invoke, Evaluating, TypeOK, IsJob
<1>2. PICK l \in LinksOf(Running(w)) :
        /\ Found(w, l.ref)
        /\ job' = [job EXCEPT ![w].stack = Append(@, [want |-> l.code, code |-> cache[l.ref]]),
                              ![w].calls = @ + 1]
  BY DEF Invoke
<1> DEFINE fr == [want |-> l.code, code |-> cache[l.ref]]
           nj == [job[w] EXCEPT !.stack = Append(@, fr), !.calls = @ + 1]
<1>3. cache[l.ref] = l.code /\ fr \in Frame
  BY <1>1, <1>2, ServedIsLinked DEF Found, Frame
<1>4. job' = [job EXCEPT ![w] = nj]
  BY <1>2
<1>5. job[w].calls + 1 \in 0 .. MaxCalls
  BY <1>1, LiveAssumption
<1>6. nj.stack = Append(job[w].stack, fr) /\ nj.code = job[w].code /\ nj.cached = job[w].cached
  BY <1>1 DEF IsJob
<1>7. IsJob(nj)
  <2>1. Append(job[w].stack, fr) \in Seq(Frame)
    BY <1>1, <1>3 DEF IsJob
  <2> QED
    BY <1>1, <1>5, <2>1 DEF IsJob
<1>8. TypeOK'
  BY <1>4, <1>7 DEF Invoke, engine, TypeOK, IsJob, Frame
<1>9. Unambiguous' /\ FiledUnderKey' /\ Retained' /\ BuiltFrom'
  BY DEF Invoke, engine, Unambiguous, FiledUnderKey, Retained, BuiltFrom
<1>10. CachedJobs'
  BY <1>4, <1>6, <1>1 DEF Invoke, CachedJobs, TypeOK
<1>11. NoStaleCall'
  <2>1. ASSUME NEW i \in 1 .. Len(nj.stack) PROVE nj.stack[i].code = nj.stack[i].want
    BY <1>1, <1>3, <1>6, <2>1 DEF NoStaleCall, IsJob
  <2> QED
    BY <1>4, <2>1 DEF NoStaleCall, TypeOK
<1> QED
  BY <1>8, <1>9, <1>10, <1>11

LEMMA ReturnIInv == ASSUME IInv, NEW w \in Worker, Return(w) PROVE IInv'
<1> USE DEF IInv
<1> DEFINE st == SubSeq(job[w].stack, 1, Len(job[w].stack) - 1)
           nj == [job[w] EXCEPT !.stack = st]
<1>1. job[w] # NoJob /\ IsJob(job[w]) /\ job[w].stack \in Seq(Frame) /\ job[w].stack # <<>>
  BY DEF Return, Evaluating, TypeOK, IsJob
<1>2. job' = [job EXCEPT ![w] = nj]
  BY DEF Return
<1>3. st \in Seq(Frame) /\ Len(st) = Len(job[w].stack) - 1
      /\ \A i \in 1 .. Len(st) : st[i] = job[w].stack[i] /\ i \in 1 .. Len(job[w].stack)
  BY <1>1
<1>4. nj.stack = st /\ nj.code = job[w].code /\ nj.cached = job[w].cached /\ IsJob(nj)
  BY <1>1, <1>3 DEF IsJob
<1>5. TypeOK'
  BY <1>2, <1>4 DEF Return, engine, TypeOK, IsJob, Frame
<1>6. Unambiguous' /\ FiledUnderKey' /\ Retained' /\ BuiltFrom'
  BY DEF Return, engine, Unambiguous, FiledUnderKey, Retained, BuiltFrom
<1>7. CachedJobs' /\ NoStaleCall'
  BY <1>1, <1>2, <1>3, <1>4 DEF Return, CachedJobs, NoStaleCall, TypeOK
<1> QED
  BY <1>5, <1>6, <1>7
(***************************************************************************)
(* A worker that becomes idle leaves what the jobs satisfy.                *)
(***************************************************************************)
LEMMA IdleJobs ==
  ASSUME IInv, NEW w \in Worker, job' = [job EXCEPT ![w] = NoJob], defined' = defined
  PROVE  /\ DOMAIN job' = Worker
         /\ \A v \in Worker : job'[v] # NoJob => IsJob(job[v])' /\ job'[v] = job[v]
         /\ CachedJobs'
         /\ NoStaleCall'
<1>1. DOMAIN job' = Worker /\ \A v \in Worker : job'[v] # NoJob => job'[v] = job[v]
  BY DEF IInv, TypeOK
<1>2. \A v \in Worker : job'[v] # NoJob => IsJob(job[v])'
  BY <1>1 DEF IInv, TypeOK, IsJob, Frame
<1>3. CachedJobs' /\ NoStaleCall'
  BY <1>1 DEF IInv, CachedJobs, NoStaleCall
<1> QED
  BY <1>1, <1>2, <1>3

(***************************************************************************)
(* Storing a result keeps the node values typed and what they came from.   *)
(***************************************************************************)
LEMMA StoreKeeps ==
  ASSUME IInv, NEW w \in Worker, job[w] # NoJob, defined' = defined, NEW v,
         Store(w, v),
         v # NoValue => IsBzlModule(v, defined) /\ v = Exports(job[w].code)
  PROVE  /\ source' \in [Module -> Source]
         /\ DOMAIN value' = Module /\ DOMAIN built' = Module
         /\ \A m \in Module : value'[m] # NoValue => IsBzlModule(value'[m], defined)
         /\ \A m \in Module : built'[m] # NoCode => IsCode(built'[m], defined)
         /\ BuiltFrom'
<1> DEFINE c == job[w].code
<1>1. IsCode(c, defined) /\ c.module \in Module
  BY DEF IInv, TypeOK, IsJob, IsCode
<1>2. /\ value' = [value EXCEPT ![c.module] = v]
      /\ built' = [built EXCEPT ![c.module] = c]
      /\ source' = source
  BY DEF Store
<1>3. DOMAIN value' = Module /\ DOMAIN built' = Module /\ source' \in [Module -> Source]
  BY <1>2 DEF IInv, TypeOK
<1>4. \A m \in Module : value'[m] # NoValue => IsBzlModule(value'[m], defined)
  BY <1>2 DEF IInv, TypeOK
<1>5. \A m \in Module : built'[m] # NoCode => IsCode(built'[m], defined)
  BY <1>1, <1>2 DEF IInv, TypeOK
<1>6. BuiltFrom'
  <2> SUFFICES ASSUME NEW m \in Module, value'[m] # NoValue
               PROVE  built'[m].module = m /\ value'[m] = Exports(built'[m])
    BY DEF BuiltFrom, Exports
  <2>1. CASE m = c.module
    BY <1>1, <1>2, <2>1 DEF IInv, TypeOK
  <2>2. CASE m # c.module
    BY <1>2, <2>2 DEF IInv, TypeOK, BuiltFrom
  <2> QED
    BY <2>1, <2>2
<1> QED
  BY <1>3, <1>4, <1>5, <1>6
LEMMA FailIInv == ASSUME IInv, NEW w \in Worker, Fail(w) PROVE IInv'
<1>1. job[w] # NoJob /\ job' = [job EXCEPT ![w] = NoJob] /\ defined' = defined
      /\ cache' = cache /\ edits' = edits /\ replacements' = replacements
  BY DEF Fail, Evaluating
<1>2. /\ source' \in [Module -> Source]
      /\ DOMAIN value' = Module /\ DOMAIN built' = Module
      /\ \A m \in Module : value'[m] # NoValue => IsBzlModule(value'[m], defined)
      /\ \A m \in Module : built'[m] # NoCode => IsCode(built'[m], defined)
      /\ BuiltFrom'
  <2>1. CASE Store(w, NoValue)
    BY <1>1, <2>1, StoreKeeps
  <2>2. CASE UNCHANGED engine
    BY <2>2 DEF engine, IInv, TypeOK, BuiltFrom
  <2> QED
    BY <2>1, <2>2 DEF Fail
<1>3. TypeOK'
  BY <1>1, <1>2, IdleJobs DEF IInv, TypeOK
<1>4. Unambiguous' /\ FiledUnderKey' /\ Retained'
  BY <1>1 DEF IInv, Unambiguous, FiledUnderKey, Retained
<1> QED
  BY <1>1, <1>2, <1>3, <1>4, IdleJobs DEF IInv

LEMMA PublishIInv == ASSUME IInv, NEW w \in Worker, Publish(w) PROVE IInv'
<1>1. job[w] # NoJob /\ job' = [job EXCEPT ![w] = NoJob] /\ defined' = defined
      /\ cache' = cache /\ edits' = edits /\ replacements' = replacements
      /\ Store(w, Exports(job[w].code))
  BY DEF Publish
<1>2. job[w].code \in defined /\ IsCode(job[w].code, defined)
  BY <1>1 DEF Publish, IInv, CachedJobs, TypeOK, IsJob
<1>3. IsBzlModule(Exports(job[w].code), defined)
  BY <1>2, ExportsTyped
<1>4. /\ source' \in [Module -> Source]
      /\ DOMAIN value' = Module /\ DOMAIN built' = Module
      /\ \A m \in Module : value'[m] # NoValue => IsBzlModule(value'[m], defined)
      /\ \A m \in Module : built'[m] # NoCode => IsCode(built'[m], defined)
      /\ BuiltFrom'
  BY <1>1, <1>3, StoreKeeps
<1>5. TypeOK'
  BY <1>1, <1>4, IdleJobs DEF IInv, TypeOK
<1>6. Unambiguous' /\ FiledUnderKey' /\ Retained'
  BY <1>1 DEF IInv, Unambiguous, FiledUnderKey, Retained
<1> QED
  BY <1>1, <1>4, <1>5, <1>6, IdleJobs DEF IInv

LEMMA EndReaderIInv == ASSUME IInv, NEW w \in Worker, EndReader(w) PROVE IInv'
<1>1. job' = [job EXCEPT ![w] = NoJob] /\ defined' = defined /\ UNCHANGED engine
      /\ cache' = cache /\ edits' = edits /\ replacements' = replacements
  BY DEF EndReader
<1>2. TypeOK'
  BY <1>1, IdleJobs DEF engine, IInv, TypeOK
<1>3. Unambiguous' /\ FiledUnderKey' /\ Retained' /\ BuiltFrom'
  BY <1>1 DEF engine, IInv, Unambiguous, FiledUnderKey, Retained, BuiltFrom
<1> QED
  BY <1>1, <1>2, <1>3, IdleJobs DEF IInv

LEMMA InsertIInv == ASSUME IInv, NEW w \in Worker, Insert(w) PROVE IInv'
<1> DEFINE c == job[w].code
           nj == [job[w] EXCEPT !.cached = TRUE]
<1>1. job[w] # NoJob /\ IsJob(job[w]) /\ IsCode(c, defined)
  BY DEF Insert, Evaluating, IInv, TypeOK, IsJob
<1>2. /\ cache' = [k \in DOMAIN cache \cup {CacheKey(c)} |->
                     IF k = CacheKey(c) THEN c ELSE cache[k]]
      /\ defined' = defined \cup {c}
      /\ job' = [job EXCEPT ![w] = nj]
      /\ UNCHANGED <<source, value, built, edits, replacements>>
  BY DEF Insert, engine
<1>3. /\ \A b : IsBzlModule(b, defined) => IsBzlModule(b, defined')
      /\ \A x : IsCode(x, defined) => IsCode(x, defined')
  BY <1>2, MoreCodes
<1>4. Frame \subseteq Frame' /\ nj \in [extra : Extra, code : {c}, stack : Seq(Frame),
                                      calls : 0 .. MaxCalls, cached : BOOLEAN]
  BY <1>1, <1>2 DEF Frame, IsJob
<1>5. \A v \in Worker : job'[v] # NoJob => IsJob(job[v])'
  <2> SUFFICES ASSUME NEW v \in Worker, job'[v] # NoJob PROVE IsJob(job[v])'
    OBVIOUS
  <2>1. CASE v = w
    <3>1. job'[v] = nj
      BY <1>2, <2>1 DEF IInv, TypeOK
    <3>2. nj.code = c /\ IsCode(c, defined')
      BY <1>1, <1>3 DEF IsJob
    <3>3. nj \in [extra : Extra, code : {nj.code}, stack : Seq(Frame'),
                 calls : 0 .. MaxCalls, cached : BOOLEAN]
      BY <1>4, <3>2
    <3> QED
      BY <3>1, <3>2, <3>3 DEF IsJob
  <2>2. CASE v # w
    <3>1. job'[v] = job[v] /\ IsJob(job[v])
      BY <1>2, <2>2 DEF IInv, TypeOK
    <3>2. job[v] \in [extra : Extra, code : {job[v].code}, stack : Seq(Frame'),
                    calls : 0 .. MaxCalls, cached : BOOLEAN]
      BY <1>4, <3>1 DEF IsJob
    <3> QED
      BY <1>3, <3>1, <3>2 DEF IsJob
  <2> QED
    BY <2>1, <2>2
<1>6. TypeOK'
  <2>1. \A x \in defined' : IsCode(x, defined')
    BY <1>1, <1>2, <1>3 DEF IInv, TypeOK
  <2>2. cache' \in [DOMAIN cache' -> defined']
    BY <1>2 DEF IInv, TypeOK
  <2> QED
    BY <1>2, <1>3, <1>5, <2>1, <2>2 DEF IInv, TypeOK
<1>7. Unambiguous'
  <2> SUFFICES ASSUME NEW c1 \in defined', NEW c2 \in defined',
                      FunctionRef(c1) = FunctionRef(c2)
               PROVE  c1 = c2
    BY DEF Unambiguous, FunctionRef, defining_digest, encode_bzl_value
  <2>1. IsCode(c1, defined) /\ IsCode(c2, defined)
    BY <1>1, <1>2 DEF IInv, TypeOK
  <2> QED
    BY <2>1, RefDetermines DEF IInv, Unambiguous
<1>8. FiledUnderKey'
  <2>1. \A k \in DOMAIN cache' : CacheKey(cache'[k]) = k
    BY <1>2 DEF IInv, FiledUnderKey
  <2> QED
    BY <2>1 DEF FiledUnderKey, CacheKey, defining_digest, encode_bzl_value
<1>9. Retained'
  BY <1>2 DEF IInv, Retained, CacheKey, defining_digest, encode_bzl_value
<1>10. BuiltFrom'
  BY <1>2 DEF IInv, BuiltFrom, Exports
<1>11. CachedJobs'
  BY <1>1, <1>2 DEF IInv, CachedJobs, TypeOK
<1>12. NoStaleCall'
  <2>1. nj.stack = job[w].stack
    BY <1>1 DEF IsJob
  <2> QED
    BY <1>1, <1>2, <2>1 DEF IInv, NoStaleCall, TypeOK
<1> QED
  BY <1>6, <1>7, <1>8, <1>9, <1>10, <1>11, <1>12 DEF IInv

LEMMA StutterIInv == ASSUME IInv, UNCHANGED vars PROVE IInv'
<1>1. TypeOK'
  BY DEF vars, IInv, TypeOK, IsJob, Frame
<1>2. Unambiguous' /\ FiledUnderKey' /\ Retained' /\ BuiltFrom' /\ CachedJobs' /\ NoStaleCall'
  BY DEF vars, IInv, Unambiguous, FiledUnderKey, Retained, BuiltFrom, CachedJobs, NoStaleCall
<1> QED
  BY <1>1, <1>2 DEF IInv

LEMMA NextIInv == IInv /\ [Next]_vars => IInv'
<1> SUFFICES ASSUME IInv, [Next]_vars PROVE IInv'
  OBVIOUS
<1>1. ASSUME NEW m \in Module, NEW s \in Texts[m], Edit(m, s) PROVE IInv'
  BY <1>1, EditIInv
<1>2. CASE Replace
  BY <1>2, ReplaceIInv
<1>3. ASSUME NEW w \in Worker, NEW m \in Module, NEW extra \in Phases, Begin(w, m, extra)
      PROVE  IInv'
  BY <1>3, BeginIInv
<1>4. ASSUME NEW w \in Worker, Step(w) PROVE IInv'
  <2>1. CASE Invoke(w)
    BY <2>1, InvokeIInv
  <2>2. CASE Return(w)
    BY <2>2, ReturnIInv
  <2>3. CASE Fail(w)
    BY <2>3, FailIInv
  <2>4. CASE Insert(w)
    BY <2>4, InsertIInv
  <2>5. CASE Publish(w)
    BY <2>5, PublishIInv
  <2>6. CASE EndReader(w)
    BY <2>6, EndReaderIInv
  <2> QED
    BY <1>4, <2>1, <2>2, <2>3, <2>4, <2>5, <2>6 DEF Step
<1>5. CASE UNCHANGED vars
  BY <1>5, StutterIInv
<1> QED
  BY <1>1, <1>2, <1>3, <1>4, <1>5 DEF Next

(***************************************************************************)
(* The strengthened invariant holds of every behaviour: refs stay          *)
(* unambiguous, the bridge stays filed under its keys and complete, and    *)
(* node values stay what their code exports.                               *)
(***************************************************************************)
THEOREM Inductive == Spec => []IInv
BY InitIInv, NextIInv, PTL DEF Spec

(***************************************************************************)
(* The state of the bridge, the engine's nodes and the evaluations keeps   *)
(* its type, whatever is edited, evaluated or replaced.                    *)
(***************************************************************************)
THEOREM TypeCorrect == Spec => []TypeOK
<1>1. IInv => TypeOK
  BY DEF IInv
<1> QED
  BY <1>1, Inductive, PTL

(***************************************************************************)
(* A call of a loaded function runs the code its caller linked against     *)
(* (LoadedFunctionValue.invoke through ModuleBridge.get).                  *)
(***************************************************************************)
THEOREM CallsAreNotStale == Spec => []NoStaleCall
<1>1. IInv => NoStaleCall
  BY DEF IInv
<1> QED
  BY <1>1, Inductive, PTL

(***************************************************************************)
(* Every loaded function an evaluation can call is in the bridge while the *)
(* evaluator that defined it lives.                                        *)
(***************************************************************************)
LEMMA FindsFromIInv == IInv => AlwaysFinds
<1> SUFFICES ASSUME IInv, replacements = 0, NEW w \in Worker, job[w] # NoJob,
                    NEW l \in LinksOf(Running(w))
             PROVE  Found(w, l.ref)
  BY DEF AlwaysFinds
<1>1. l.code \in defined /\ l.ref = FunctionRef(l.code)
  BY RunningTyped, LinksTyped DEF IInv
<1>2. l.ref \in DOMAIN cache
  BY <1>1 DEF IInv, Retained, CacheKey, FunctionRef
<1>3. job[w].extra \in bridge_of
  BY DEF IInv, TypeOK, IsJob, Extra, bridge_of
<1> QED
  BY <1>2, <1>3 DEF Found

(***************************************************************************)
(* While the evaluator lives no lookup of LoadedFunctionValue.invoke can   *)
(* miss: evaluate() cached the defining module before anyone loaded it.    *)
(***************************************************************************)
THEOREM LoadedIsFound == Spec => []AlwaysFinds
BY FindsFromIInv, Inductive, PTL

(***************************************************************************)
(* Equal encodings of what a module was and would be given mean equal      *)
(* codes, because refs are unambiguous.                                    *)
(***************************************************************************)
LEMMA CutoffFromIInv == IInv => EarlyCutoffSound
<1> SUFFICES ASSUME IInv, NEW m \in Module, Ready(m), UpToDate(m)
             PROVE  /\ built[m].loaded = LoadedFor(m)
                    /\ value[m] # NoValue => value[m] = Exports(Snapshot(m))
  BY DEF EarlyCutoffSound
<1>1. IsCode(built[m], defined) /\ built[m].source = source[m]
  BY DEF UpToDate, IInv, TypeOK
<1>2. source[m] \in Source /\ Loads[source[m]] \subseteq Module
  BY SourceAssumption DEF IInv, TypeOK
<1>3. ASSUME NEW d \in Loads[source[m]] PROVE built[m].loaded[d] = value[d]
  <2>1. IsBzlModule(built[m].loaded[d], defined)
    BY <1>1 DEF IsCode
  <2>2. IsBzlModule(value[d], defined)
    BY <1>2 DEF Ready, IInv, TypeOK
  <2>3. encode_bzl_value(built[m].loaded[d]) = encode_bzl_value(value[d])
    BY DEF UpToDate
  <2> QED
    BY <2>1, <2>2, <2>3, EncodingDetermines DEF IInv, Unambiguous
<1>4. built[m].loaded = LoadedFor(m)
  <2>1. built[m].loaded = [d \in Loads[source[m]] |-> built[m].loaded[d]]
    BY <1>1 DEF IsCode
  <2> QED
    BY <1>3, <2>1 DEF LoadedFor
<1>5. ASSUME value[m] # NoValue PROVE value[m] = Exports(Snapshot(m))
  <2>1. built[m].module = m /\ value[m] = Exports(built[m])
    BY <1>5 DEF IInv, BuiltFrom
  <2>2. built[m] = Snapshot(m)
    BY <1>1, <1>4, <2>1 DEF IsCode, Snapshot
  <2> QED
    BY <2>1, <2>2
<1> QED
  BY <1>4, <1>5

(***************************************************************************)
(* The engine's comparison of encoded BzlModules never leaves a module     *)
(* linked to code its load targets no longer export.                       *)
(***************************************************************************)
THEOREM CutoffIsSound == Spec => []EarlyCutoffSound
BY CutoffFromIInv, Inductive, PTL

(***************************************************************************)
(* Two codes with one key are one code, so a second insert under a key     *)
(* puts back what is there.                                                *)
(***************************************************************************)
LEMMA InsertKeepsEntries ==
  ASSUME IInv, [Next]_vars, NEW k \in DOMAIN cache \cap DOMAIN cache'
  PROVE  cache'[k] = cache[k]
<1>1. CASE cache' = cache
  BY <1>1
<1>2. CASE Replace
  BY <1>2 DEF Replace
<1>3. ASSUME NEW w \in Worker, Insert(w) PROVE cache'[k] = cache[k]
  <2> DEFINE c == job[w].code
  <2>1. cache' = [x \in DOMAIN cache \cup {CacheKey(c)} |->
                    IF x = CacheKey(c) THEN c ELSE cache[x]]
    BY <1>3 DEF Insert
  <2>2. CASE k # CacheKey(c)
    BY <2>1, <2>2
  <2>3. CASE k = CacheKey(c)
    <3>1. cache[k] \in defined /\ IsCode(cache[k], defined)
      BY DEF IInv, TypeOK
    <3>2. IsCode(c, defined)
      BY <1>3 DEF Insert, Evaluating, IInv, TypeOK, IsJob
    <3>3. FunctionRef(cache[k]) = FunctionRef(c)
      BY <2>3 DEF IInv, FiledUnderKey, CacheKey, FunctionRef
    <3>4. cache[k] = c
      BY <3>1, <3>2, <3>3, RefDetermines DEF IInv, Unambiguous
    <3> QED
      BY <2>1, <2>3, <3>4
  <2> QED
    BY <2>2, <2>3
<1>4. cache' = cache \/ Replace \/ \E w \in Worker : Insert(w)
  BY DEF Next, Step, Edit, Begin, Invoke, Return, Fail, Publish, EndReader, vars
<1> QED
  BY <1>1, <1>2, <1>3, <1>4

(***************************************************************************)
(* An entry of ModuleBridge.cache never changes what it denotes.           *)
(***************************************************************************)
THEOREM InsertsAreIdempotent == Spec => InsertIdempotent
<1>1. IInv /\ [Next]_vars =>
        [\A k \in DOMAIN cache \cap DOMAIN cache' : cache'[k] = cache[k]]_cache
  BY InsertKeepsEntries
<1> QED
  BY <1>1, Inductive, PTL DEF Spec, InsertIdempotent
-----------------------------------------------------------------------------
(***************************************************************************)
(* The refinement: every behaviour of LiveModules in which the evaluator   *)
(* is not replaced is, under the mapping run, a behaviour of               *)
(* LinkedModules.                                                          *)
(***************************************************************************)

\* The value of an idle worker and of an unevaluated module are no values of
\* their own kind.
Distinct ==
  /\ \A r, c, s : NoJob # [reader |-> r, code |-> c, stack |-> s]
  /\ \A e, c, s, n, b :
       NoJob # [extra |-> e, code |-> c, stack |-> s, calls |-> n, cached |-> b]
  /\ \A m, s, f : NoCode # [module |-> m, source |-> s, loaded |-> f]

(***************************************************************************)
(* What the mapping needs beyond IInv: a job whose module is cached is an  *)
(* evaluate() that has run to its end without an error.                    *)
(***************************************************************************)
CachedDone ==
  \A w \in Worker : (job[w] # NoJob /\ job[w].cached) =>
    /\ job[w].extra = "BridgeCtx"
    /\ job[w].stack = <<>>
    /\ job[w].code.source \notin Broken

RInv == IInv /\ CachedDone /\ (MaxReplacements = 0 => replacements = 0)

LEMMA InitRInv == Init => RInv
BY InitIInv DEF RInv, Init, CachedDone

LEMMA NextRInv == RInv /\ [Next]_vars => RInv'
<1> SUFFICES ASSUME RInv, [Next]_vars PROVE RInv'
  OBVIOUS
<1> USE DEF RInv
<1>1. IInv'
  BY NextIInv
<1>2. DOMAIN job = Worker /\ \A w \in Worker : job[w] # NoJob => IsJob(job[w])
  BY DEF IInv, TypeOK
<1>3. CachedDone'
  <2>1. ASSUME UNCHANGED job PROVE CachedDone'
    BY <2>1 DEF CachedDone
  <2>2. CASE Replace
    BY <2>2 DEF Replace, CachedDone
  <2>3. ASSUME NEW w \in Worker, NEW m \in Module, NEW extra \in Phases, Begin(w, m, extra)
        PROVE  CachedDone'
    BY <1>2, <2>3 DEF Begin, Start, CachedDone
  <2>4. ASSUME NEW w \in Worker, job' = [job EXCEPT ![w] = NoJob] PROVE CachedDone'
    BY <1>2, <2>4 DEF CachedDone
  <2>5. ASSUME NEW w \in Worker, Evaluating(w), NEW st, NEW n,
               job' = [job EXCEPT ![w].stack = st, ![w].calls = n]
        PROVE  CachedDone'
    <3>1. job'[w].cached = FALSE
      BY <1>2, <2>5 DEF Evaluating, IsJob
    <3> QED
      BY <1>2, <2>5, <3>1 DEF CachedDone
  <2>6. ASSUME NEW w \in Worker, Return(w) PROVE CachedDone'
    <3>1. job'[w].cached = FALSE
      BY <1>2, <2>6 DEF Return, Evaluating, IsJob
    <3> QED
      BY <1>2, <2>6, <3>1 DEF Return, CachedDone
  <2>7. ASSUME NEW w \in Worker, Insert(w) PROVE CachedDone'
    <3>1. /\ job'[w].extra = "BridgeCtx" /\ job'[w].stack = <<>>
          /\ job'[w].code.source \notin Broken
      BY <1>2, <2>7 DEF Insert, Evaluating, IsJob
    <3> QED
      BY <1>2, <2>7, <3>1 DEF Insert, CachedDone
  <2>8. ASSUME NEW w \in Worker, Step(w) PROVE CachedDone'
    BY <2>4, <2>5, <2>6, <2>7, <2>8 DEF Step, Invoke, Fail, Publish, EndReader
  <2>9. ASSUME NEW m \in Module, NEW s \in Texts[m], Edit(m, s) PROVE CachedDone'
    BY <2>1, <2>9 DEF Edit
  <2> QED
    BY <2>1, <2>2, <2>3, <2>8, <2>9 DEF Next, vars
<1>4. MaxReplacements = 0 => replacements' = 0
  <2>1. replacements' = replacements \/ Replace
    BY DEF Next, Step, Edit, Begin, Invoke, Return, Fail, Insert, Publish, EndReader, vars
  <2>2. CASE Replace
    BY <2>2 DEF Replace
  <2> QED
    BY <2>1, <2>2
<1> QED
  BY <1>1, <1>3, <1>4

(***************************************************************************)
(* The mapping of stacks commutes with calling and returning.              *)
(***************************************************************************)
LEMMA CodesOfStack ==
  ASSUME NEW S, NEW st \in Seq(S)
  PROVE  /\ CodesOf(st) \in Seq({f.code : f \in S})
         /\ Len(CodesOf(st)) = Len(st)
         /\ \A i \in 1 .. Len(st) : CodesOf(st)[i] = st[i].code
         /\ CodesOf(st) = <<>> <=> st = <<>>
<1>1. \A i \in 1 .. Len(st) : st[i].code \in {f.code : f \in S}
  OBVIOUS
<1>2. CodesOf(st) \in Seq({f.code : f \in S}) /\ Len(CodesOf(st)) = Len(st)
  BY <1>1 DEF CodesOf
<1> QED
  BY <1>2 DEF CodesOf

LEMMA CodesOfCall ==
  ASSUME NEW S, NEW st \in Seq(S), NEW f \in S
  PROVE  CodesOf(Append(st, f)) = Append(CodesOf(st), f.code)
<1> DEFINE T == {g.code : g \in S}
<1>1. CodesOf(st) \in Seq(T) /\ Len(CodesOf(st)) = Len(st)
      /\ \A i \in 1 .. Len(st) : CodesOf(st)[i] = st[i].code
  BY CodesOfStack
<1>2. Append(st, f) \in Seq(S) /\ Len(Append(st, f)) = Len(st) + 1
  OBVIOUS
<1>3. CodesOf(Append(st, f)) \in Seq(T) /\ Len(CodesOf(Append(st, f))) = Len(st) + 1
      /\ \A i \in 1 .. Len(st) + 1 : CodesOf(Append(st, f))[i] = Append(st, f)[i].code
  BY <1>2, CodesOfStack
<1>4. Append(CodesOf(st), f.code) \in Seq(T) /\ Len(Append(CodesOf(st), f.code)) = Len(st) + 1
  BY <1>1
<1>5. \A i \in 1 .. Len(st) + 1 :
        CodesOf(Append(st, f))[i] = Append(CodesOf(st), f.code)[i]
  BY <1>1, <1>3
<1> HIDE DEF T
<1> QED
  BY <1>3, <1>4, <1>5

LEMMA Popped ==
  ASSUME NEW S, NEW st \in Seq(S), st # <<>>
  PROVE  LET sub == SubSeq(st, 1, Len(st) - 1) IN
           /\ sub \in Seq(S)
           /\ Len(sub) = Len(st) - 1
           /\ \A i \in 1 .. Len(st) - 1 : sub[i] = st[i]
<1> DEFINE n == Len(st) - 1
<1>1. n \in Int /\ n >= 0 /\ 1 \in Int /\ \A i \in 1 .. n : st[i] \in S
  OBVIOUS
<1> HIDE DEF n
<1>2. /\ SubSeq(st, 1, n) \in Seq(S)
      /\ Len(SubSeq(st, 1, n)) = IF 1 <= n THEN n - 1 + 1 ELSE 0
      /\ \A i \in 1 .. n - 1 + 1 : SubSeq(st, 1, n)[i] = st[1 + i - 1]
  BY <1>1, SubSeqProperties
<1>3. Len(SubSeq(st, 1, n)) = n /\ \A i \in 1 .. n : SubSeq(st, 1, n)[i] = st[i]
  BY <1>1, <1>2
<1> QED
  BY <1>2, <1>3 DEF n

LEMMA CodesOfReturn ==
  ASSUME NEW S, NEW st \in Seq(S), st # <<>>
  PROVE  CodesOf(SubSeq(st, 1, Len(st) - 1)) = SubSeq(CodesOf(st), 1, Len(st) - 1)
<1> DEFINE T == {g.code : g \in S}
           sub == SubSeq(st, 1, Len(st) - 1)
           mapped == SubSeq(CodesOf(st), 1, Len(CodesOf(st)) - 1)
<1>1. CodesOf(st) \in Seq(T) /\ Len(CodesOf(st)) = Len(st) /\ CodesOf(st) # <<>>
  BY CodesOfStack
<1>2. \A i \in 1 .. Len(st) : CodesOf(st)[i] = st[i].code
  BY CodesOfStack
<1>3. sub \in Seq(S) /\ Len(sub) = Len(st) - 1 /\ \A i \in 1 .. Len(st) - 1 : sub[i] = st[i]
  BY Popped
<1> HIDE DEF T, sub
<1>4. mapped \in Seq(T) /\ Len(mapped) = Len(st) - 1
      /\ \A i \in 1 .. Len(st) - 1 : mapped[i] = CodesOf(st)[i]
  BY <1>1, Popped
<1>5. CodesOf(sub) \in Seq({g.code : g \in S}) /\ Len(CodesOf(sub)) = Len(sub)
      /\ \A i \in 1 .. Len(sub) : CodesOf(sub)[i] = sub[i].code
  BY <1>3, CodesOfStack
<1> HIDE DEF mapped
<1>6. ASSUME NEW i \in 1 .. Len(st) - 1 PROVE CodesOf(sub)[i] = mapped[i]
  <2>1. i \in 1 .. Len(st) /\ i \in 1 .. Len(sub)
    BY <1>3
  <2>2. CodesOf(sub)[i] = sub[i].code /\ sub[i] = st[i]
    BY <1>3, <1>5, <2>1
  <2>3. mapped[i] = st[i].code
    BY <1>2, <1>4, <2>1
  <2> QED
    BY <2>2, <2>3
<1>7. CodesOf(sub) = mapped
  BY <1>3, <1>4, <1>5, <1>6 DEF T
<1> QED
  BY <1>1, <1>7 DEF sub, mapped

(***************************************************************************)
(* Both specifications speak of the same codes.                            *)
(***************************************************************************)
LEMMA SameContent ==
  \A c : Linked!LinksOf(c) = LinksOf(c) /\ Linked!Exports(c) = Exports(c)
<1>1. \A c : Linked!LinksOf(c) = LinksOf(c)
  BY DEF Linked!LinksOf, LinksOf
<1>2. \A c : Linked!LinkTo(c) = LinkTo(c)
  BY DEF Linked!LinkTo, LinkTo, Linked!FunctionRef, FunctionRef,
         Linked!defining_digest, defining_digest,
         Linked!encode_bzl_value, encode_bzl_value
<1>3. \A c : Linked!Exports(c) = Exports(c)
  BY <1>2 DEF Linked!Exports, Exports
<1> QED
  BY <1>1, <1>3

(***************************************************************************)
(* What the mapping shows of a job.                                        *)
(***************************************************************************)
LEMMA MappedJob ==
  ASSUME Distinct, IInv, NEW w \in Worker
  PROVE  /\ run[w] = NoJob <=> job[w] = NoJob
         /\ job[w] # NoJob =>
              /\ job[w].stack \in Seq(Frame)
              /\ run[w] = [reader |-> job[w].extra # "BridgeCtx", code |-> job[w].code,
                           stack |-> CodesOf(job[w].stack)]
              /\ Linked!Running(w) = Running(w)
<1>1. CASE job[w] = NoJob
  BY <1>1 DEF run
<1>2. CASE job[w] # NoJob
  <2>1. job[w].stack \in Seq(Frame)
    BY <1>2 DEF IInv, TypeOK, IsJob
  <2>2. run[w] = [reader |-> job[w].extra # "BridgeCtx", code |-> job[w].code,
                  stack |-> CodesOf(job[w].stack)]
    BY <1>2 DEF run
  <2>3. run[w] # NoJob
    BY <2>2 DEF Distinct
  <2>4. /\ Len(CodesOf(job[w].stack)) = Len(job[w].stack)
        /\ \A i \in 1 .. Len(job[w].stack) : CodesOf(job[w].stack)[i] = job[w].stack[i].code
        /\ CodesOf(job[w].stack) = <<>> <=> job[w].stack = <<>>
    BY <2>1, CodesOfStack
  <2>5. Linked!Running(w) = Running(w)
    <3>1. CASE job[w].stack = <<>>
      BY <2>2, <2>4, <3>1 DEF Linked!Running, Running
    <3>2. CASE job[w].stack # <<>>
      <4>1. Len(job[w].stack) \in 1 .. Len(job[w].stack)
        BY <2>1, <3>2
      <4> QED
        BY <2>2, <2>4, <3>2, <4>1 DEF Linked!Running, Running
    <3> QED
      BY <3>1, <3>2
  <2> QED
    BY <1>2, <2>1, <2>2, <2>3, <2>5
<1> QED
  BY <1>1, <1>2

(***************************************************************************)
(* The steps of the engine.                                                *)
(***************************************************************************)
LEMMA EditRefines ==
  ASSUME NEW m \in Module, NEW s \in Texts[m], Edit(m, s)
  PROVE  Linked!Edit(m)
BY DEF Edit, Linked!Edit, run

LEMMA BeginRefines ==
  ASSUME Distinct, IInv, NEW w \in Worker, NEW m \in Module, NEW extra \in Phases,
         Begin(w, m, extra)
  PROVE  Linked!Begin(w, m, extra # "BridgeCtx")
<1>1. run[w] = NoJob /\ Linked!Ready(m) /\ Linked!Linked(m) = Snapshot(m)
  BY MappedJob DEF Begin, Ready, Linked!Ready, Linked!Linked, Snapshot, LoadedFor
<1>2. extra = "BridgeCtx" => built[m] # Snapshot(m)
  <2> SUFFICES ASSUME extra = "BridgeCtx", built[m] = Snapshot(m) PROVE FALSE
    OBVIOUS
  <2>1. built[m] # NoCode
    BY DEF Distinct, Snapshot
  <2>2. UpToDate(m)
    BY <2>1 DEF UpToDate, Snapshot, LoadedFor
  <2> QED
    BY <2>2 DEF Begin, Dirty
<1>3. run' = [run EXCEPT ![w] = [reader |-> extra # "BridgeCtx", code |-> Snapshot(m),
                                 stack |-> <<>>]]
  <2> DEFINE nj == Start(extra, Snapshot(m))
  <2>1. job' = [job EXCEPT ![w] = nj] /\ DOMAIN job = Worker
    BY DEF Begin, IInv, TypeOK
  <2>2. IsJob(nj) /\ nj.extra = extra /\ nj.code = Snapshot(m) /\ nj.stack = <<>>
    BY SnapshotTyped, LiveAssumption DEF Begin, IInv, IsJob, Start, Extra
  <2>3. CodesOf(<<>>) = <<>>
    BY DEF CodesOf
  <2>4. nj # NoJob
    BY DEF Distinct, Start
  <2> QED
    BY <2>1, <2>2, <2>3, <2>4 DEF run
<1> QED
  BY <1>1, <1>2, <1>3 DEF Linked!Begin, Begin

(***************************************************************************)
(* The mapping of a step that changes one job.                             *)
(***************************************************************************)
LEMMA JobChanges ==
  ASSUME Distinct, IInv, NEW w \in Worker, NEW nj,
         nj \in [extra : Extra, code : {nj.code}, stack : Seq(Frame),
                 calls : 0 .. MaxCalls, cached : BOOLEAN],
         job' = [job EXCEPT ![w] = nj]
  PROVE  run' = [run EXCEPT ![w] = [reader |-> nj.extra # "BridgeCtx", code |-> nj.code,
                                    stack |-> CodesOf(nj.stack)]]
<1>1. nj = [extra |-> nj.extra, code |-> nj.code, stack |-> nj.stack,
            calls |-> nj.calls, cached |-> nj.cached]
  OBVIOUS
<1>2. nj # NoJob
  BY <1>1 DEF Distinct
<1>3. DOMAIN job = Worker
  BY DEF IInv, TypeOK
<1> QED
  BY <1>2, <1>3 DEF run

LEMMA JobEnds ==
  ASSUME IInv, NEW w \in Worker, job' = [job EXCEPT ![w] = NoJob]
  PROVE  run' = [run EXCEPT ![w] = NoJob]
BY DEF IInv, TypeOK, run

(***************************************************************************)
(* The steps of the evaluator: calls and returns are calls and returns,    *)
(* caching is invisible, and the three ways of ending are the end.         *)
(***************************************************************************)
LEMMA InvokeRefines ==
  ASSUME Distinct, IInv, NEW w \in Worker, Invoke(w)
  PROVE  Linked!Call(w)
<1>1. job[w] # NoJob /\ IsJob(job[w]) /\ job[w].stack \in Seq(Frame)
      /\ job[w].calls \in 0 .. MaxCalls /\ job[w].calls < MaxCalls
  BY DEF Invoke, Evaluating, IInv, TypeOK, IsJob
<1>2. PICK l \in LinksOf(Running(w)) :
        /\ Found(w, l.ref)
        /\ job' = [job EXCEPT ![w].stack = Append(@, [want |-> l.code, code |-> cache[l.ref]]),
                              ![w].calls = @ + 1]
  BY DEF Invoke
<1> DEFINE fr == [want |-> l.code, code |-> cache[l.ref]]
           nj == [job[w] EXCEPT !.stack = Append(@, fr), !.calls = @ + 1]
<1>3. fr \in Frame /\ fr.code = l.code
  BY <1>1, <1>2, ServedIsLinked DEF Found, Frame
<1>4. job' = [job EXCEPT ![w] = nj]
  BY <1>2
<1>5. Append(job[w].stack, fr) \in Seq(Frame) /\ job[w].calls + 1 \in 0 .. MaxCalls
  BY <1>1, <1>3, LiveAssumption
<1> HIDE DEF fr
<1>6. /\ nj.extra = job[w].extra /\ nj.code = job[w].code
      /\ nj.stack = Append(job[w].stack, fr)
      /\ nj \in [extra : Extra, code : {nj.code}, stack : Seq(Frame),
                 calls : 0 .. MaxCalls, cached : BOOLEAN]
  BY <1>1, <1>5 DEF IsJob
<1> HIDE DEF nj
<1>7. run' = [run EXCEPT ![w] = [reader |-> job[w].extra # "BridgeCtx", code |-> job[w].code,
                                 stack |-> Append(CodesOf(job[w].stack), l.code)]]
  <2>1. run' = [run EXCEPT ![w] = [reader |-> nj.extra # "BridgeCtx", code |-> nj.code,
                                   stack |-> CodesOf(nj.stack)]]
    BY <1>4, <1>6, JobChanges
  <2>2. CodesOf(nj.stack) = Append(CodesOf(job[w].stack), l.code)
    BY <1>1, <1>3, <1>6, CodesOfCall
  <2> QED
    BY <1>6, <2>1, <2>2
<1>8. run[w] = [reader |-> job[w].extra # "BridgeCtx", code |-> job[w].code,
                stack |-> CodesOf(job[w].stack)]
      /\ run[w] # NoJob /\ Linked!Running(w) = Running(w)
  BY <1>1, MappedJob
<1>9. run' = [run EXCEPT ![w].stack = Append(@, l.code)]
  <2> DEFINE r == run[w].reader
             st == CodesOf(job[w].stack)
  <2>1. run[w] = [reader |-> r, code |-> job[w].code, stack |-> st]
        /\ r = (job[w].extra # "BridgeCtx")
    BY <1>8
  <2>2. run' = [run EXCEPT ![w] = [reader |-> r, code |-> job[w].code,
                                   stack |-> Append(st, l.code)]]
    BY <1>7, <2>1
  <2> HIDE DEF r, st, run
  <2>3. [run[w] EXCEPT !.stack = Append(@, l.code)]
          = [reader |-> r, code |-> job[w].code, stack |-> Append(st, l.code)]
    BY <2>1
  <2> QED
    BY <2>2, <2>3
<1>10. UNCHANGED <<source, value, built>>
  BY DEF Invoke, engine
<1>11. \E k \in Linked!LinksOf(Linked!Running(w)) :
         run' = [run EXCEPT ![w].stack = Append(@, k.code)]
  BY <1>8, <1>9, SameContent
<1> QED
  BY <1>8, <1>10, <1>11 DEF Linked!Call

LEMMA ReturnRefines ==
  ASSUME Distinct, IInv, NEW w \in Worker, Return(w)
  PROVE  Linked!Return(w)
<1> DEFINE st == SubSeq(job[w].stack, 1, Len(job[w].stack) - 1)
           nj == [job[w] EXCEPT !.stack = st]
<1>1. job[w] # NoJob /\ IsJob(job[w]) /\ job[w].stack \in Seq(Frame) /\ job[w].stack # <<>>
  BY DEF Return, Evaluating, IInv, TypeOK, IsJob
<1>2. job' = [job EXCEPT ![w] = nj]
  BY DEF Return
<1>3. st \in Seq(Frame)
  BY <1>1, Popped
<1>4. CodesOf(st) = SubSeq(CodesOf(job[w].stack), 1, Len(job[w].stack) - 1)
      /\ Len(CodesOf(job[w].stack)) = Len(job[w].stack) /\ CodesOf(job[w].stack) # <<>>
  BY <1>1, CodesOfReturn, CodesOfStack
<1> HIDE DEF st
<1>5. /\ nj.extra = job[w].extra /\ nj.code = job[w].code /\ nj.stack = st
      /\ nj \in [extra : Extra, code : {nj.code}, stack : Seq(Frame),
                 calls : 0 .. MaxCalls, cached : BOOLEAN]
  BY <1>1, <1>3 DEF IsJob
<1> HIDE DEF nj
<1>6. run' = [run EXCEPT ![w] = [reader |-> job[w].extra # "BridgeCtx", code |-> job[w].code,
                                 stack |-> CodesOf(st)]]
  <2>1. run' = [run EXCEPT ![w] = [reader |-> nj.extra # "BridgeCtx", code |-> nj.code,
                                   stack |-> CodesOf(nj.stack)]]
    BY <1>2, <1>5, JobChanges
  <2> QED
    BY <1>5, <2>1
<1>7. run[w] = [reader |-> job[w].extra # "BridgeCtx", code |-> job[w].code,
                stack |-> CodesOf(job[w].stack)]
      /\ run[w] # NoJob
  BY <1>1, MappedJob
<1>8. run' = [run EXCEPT ![w].stack = SubSeq(@, 1, Len(@) - 1)]
  <2> DEFINE X == SubSeq(run[w].stack, 1, Len(run[w].stack) - 1)
  <2>1. X = CodesOf(st)
    BY <1>4, <1>7
  <2> HIDE DEF X
  <2>2. [run EXCEPT ![w].stack = X]
          = [run EXCEPT ![w] = [reader |-> job[w].extra # "BridgeCtx",
                                code |-> job[w].code, stack |-> X]]
    <3> DEFINE r == run[w].reader
    <3>1. run[w] = [reader |-> r, code |-> job[w].code, stack |-> CodesOf(job[w].stack)]
          /\ r = (job[w].extra # "BridgeCtx")
      BY <1>7
    <3> HIDE DEF r, run
    <3>2. [run[w] EXCEPT !.stack = X] = [reader |-> r, code |-> job[w].code, stack |-> X]
      BY <3>1
    <3>3. [run EXCEPT ![w].stack = X] = [run EXCEPT ![w] = [run[w] EXCEPT !.stack = X]]
      OBVIOUS
    <3> QED
      BY <3>1, <3>2, <3>3
  <2>3. run' = [run EXCEPT ![w].stack = X]
    BY <1>6, <2>1, <2>2
  <2> QED
    BY <2>3 DEF X
<1>9. UNCHANGED <<source, value, built>>
  BY DEF Return, engine
<1> QED
  BY <1>4, <1>7, <1>8, <1>9 DEF Linked!Return

LEMMA InsertRefines ==
  ASSUME Distinct, IInv, NEW w \in Worker, Insert(w)
  PROVE  UNCHANGED Linked!vars
<1> DEFINE nj == [job[w] EXCEPT !.cached = TRUE]
<1>1. job[w] # NoJob /\ IsJob(job[w])
  BY DEF Insert, Evaluating, IInv, TypeOK, IsJob
<1>2. job' = [job EXCEPT ![w] = nj]
  BY DEF Insert
<1>3. /\ nj.extra = job[w].extra /\ nj.code = job[w].code /\ nj.stack = job[w].stack
      /\ nj \in [extra : Extra, code : {nj.code}, stack : Seq(Frame),
                 calls : 0 .. MaxCalls, cached : BOOLEAN]
  BY <1>1 DEF IsJob
<1> HIDE DEF nj
<1>4. run' = [run EXCEPT ![w] = [reader |-> job[w].extra # "BridgeCtx", code |-> job[w].code,
                                 stack |-> CodesOf(job[w].stack)]]
  <2>1. run' = [run EXCEPT ![w] = [reader |-> nj.extra # "BridgeCtx", code |-> nj.code,
                                   stack |-> CodesOf(nj.stack)]]
    BY <1>2, <1>3, JobChanges
  <2> QED
    BY <1>3, <2>1
<1>5. run' = run
  BY <1>1, <1>4 DEF run
<1> QED
  BY <1>5 DEF Insert, engine, Linked!vars

\* An evaluation that is over: what Fail, Publish and EndReader share.
LEMMA EndRefines ==
  ASSUME Distinct, IInv, NEW w \in Worker, job[w] # NoJob,
         job[w].stack = <<>>,
         job' = [job EXCEPT ![w] = NoJob],
         IF job[w].extra = "BridgeCtx"
         THEN Store(w, IF job[w].code.source \in Broken THEN NoValue ELSE Exports(job[w].code))
         ELSE UNCHANGED engine
  PROVE  Linked!End(w)
<1>1. /\ run[w] # NoJob
      /\ run[w] = [reader |-> job[w].extra # "BridgeCtx", code |-> job[w].code,
                   stack |-> CodesOf(job[w].stack)]
  BY MappedJob
<1>2. run[w].stack = <<>> /\ run[w].code = job[w].code
      /\ run[w].reader = (job[w].extra # "BridgeCtx")
  BY <1>1 DEF CodesOf
<1>3. run' = [run EXCEPT ![w] = NoJob]
  BY JobEnds
<1>4. source' = source
      /\ IF run[w].reader THEN UNCHANGED <<value, built>>
         ELSE /\ value' = [value EXCEPT ![run[w].code.module] =
                             IF run[w].code.source \in Broken THEN NoValue
                             ELSE Exports(run[w].code)]
              /\ built' = [built EXCEPT ![run[w].code.module] = run[w].code]
  <2>1. CASE job[w].extra = "BridgeCtx"
    BY <1>2, <2>1 DEF Store
  <2>2. CASE job[w].extra # "BridgeCtx"
    BY <1>2, <2>2 DEF engine
  <2> QED
    BY <2>1, <2>2
<1> HIDE DEF run
<1> QED
  BY <1>1, <1>2, <1>3, <1>4, SameContent DEF Linked!End

LEMMA StepRefines ==
  ASSUME Distinct, RInv, MaxReplacements = 0, NEW w \in Worker, Step(w)
  PROVE  Linked!Next \/ UNCHANGED Linked!vars
<1> USE DEF RInv
<1>1. CASE Invoke(w)
  BY <1>1, InvokeRefines DEF Linked!Next
<1>2. CASE Return(w)
  BY <1>2, ReturnRefines DEF Linked!Next
<1>3. CASE Insert(w)
  BY <1>3, InsertRefines
<1>4. CASE Fail(w)
  <2>1. \A l \in LinksOf(Running(w)) : Found(w, l.ref)
    BY <1>4, FindsFromIInv DEF Fail, Evaluating, AlwaysFinds
  <2>2. job[w] # NoJob /\ job[w].stack = <<>> /\ job[w].code.source \in Broken
    BY <1>4, <2>1 DEF Fail, Evaluating
  <2>3. Linked!End(w)
    BY <1>4, <2>2, EndRefines DEF Fail
  <2> QED
    BY <2>3 DEF Linked!Next
<1>5. CASE Publish(w)
  <2>1. job[w] # NoJob /\ job[w].stack = <<>> /\ job[w].code.source \notin Broken
        /\ job[w].extra = "BridgeCtx"
    BY <1>5 DEF Publish, CachedDone
  <2>2. Linked!End(w)
    BY <1>5, <2>1, EndRefines DEF Publish
  <2> QED
    BY <2>2 DEF Linked!Next
<1>6. CASE EndReader(w)
  <2>1. Linked!End(w)
    BY <1>6, EndRefines DEF EndReader, Evaluating
  <2> QED
    BY <2>1 DEF Linked!Next
<1> QED
  BY <1>1, <1>2, <1>3, <1>4, <1>5, <1>6 DEF Step

LEMMA NextRefines ==
  ASSUME Distinct, MaxReplacements = 0
  PROVE  RInv /\ [Next]_vars => [Linked!Next]_Linked!vars
<1> SUFFICES ASSUME RInv, [Next]_vars PROVE [Linked!Next]_Linked!vars
  OBVIOUS
<1>1. ASSUME NEW m \in Module, NEW s \in Texts[m], Edit(m, s) PROVE Linked!Next
  BY <1>1, EditRefines DEF Linked!Next
<1>2. ASSUME NEW w \in Worker, NEW m \in Module, NEW extra \in Phases, Begin(w, m, extra)
      PROVE  Linked!Next
  BY <1>2, BeginRefines DEF RInv, Linked!Next
<1>3. ASSUME NEW w \in Worker, Step(w) PROVE [Linked!Next]_Linked!vars
  BY <1>3, StepRefines
<1>4. CASE Replace
  BY <1>4 DEF Replace, RInv
<1>5. CASE UNCHANGED vars
  BY <1>5 DEF vars, Linked!vars, run
<1> QED
  BY <1>1, <1>2, <1>3, <1>4, <1>5 DEF Next

LEMMA InitRefines == Init => Linked!Init
BY DEF Init, Linked!Init, run

(***************************************************************************)
(* While the evaluator lives, loading through the bridge (evaluate,        *)
(* evaluate_rule, eval_build_inner and LoadedFunctionValue.invoke) cannot  *)
(* be told from linking directly.                                          *)
(***************************************************************************)
THEOREM BridgeImplementsLinking ==
  ASSUME Distinct, MaxReplacements = 0
  PROVE  Spec => LinkedSpec
<1>1. Spec => []RInv
  BY InitRInv, NextRInv, PTL DEF Spec
<1>2. RInv /\ [Next]_vars => [Linked!Next]_Linked!vars
  BY NextRefines
<1> QED
  BY <1>1, <1>2, InitRefines, PTL DEF Spec, LinkedSpec, Linked!Spec
===============================================================================
