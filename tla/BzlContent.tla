------------------------------ MODULE BzlContent ------------------------------
(***************************************************************************)
(* What a .bzl module is to the evaluator, and how it is identified:       *)
(* src/src/bridge.rs (defining_digest) and the part of src/src/convert.rs  *)
(* that turns a function into a FunctionRef.  Constant operators only; the *)
(* state machines LinkedModules and LiveModules are built on them.         *)
(*                                                                         *)
(* A code is one evaluated (frozen) module: its path, the text it was      *)
(* evaluated from and, per load() target, the BzlModule it was given.  A   *)
(* BzlModule is what crosses the BZL_LOAD boundary: the constants the      *)
(* module exports and the functions.  A function crosses as a FunctionRef  *)
(* (path, digest), never as a body; the model keeps with each ref the code *)
(* it was stamped in, as a ghost no operation of the evaluator may read.   *)
(*                                                                         *)
(* Abstracted: one ref stands for all the functions of a module (the name  *)
(* in a FunctionRef only selects a symbol of the frozen module), and the   *)
(* hash is the identity on what it hashes (no collisions).                 *)
(***************************************************************************)

CONSTANTS
  Module,     \* the paths of .bzl modules and of BUILD files
  Source,     \* the texts a module may have
  Const,      \* the constants a module may export
  Loads,      \* Loads[s]: the modules text s load()s
  Reexports,  \* Reexports[s]: the loaded modules whose functions s binds again
  Defining,   \* the texts that define and export a function of their own
  ConstOf,    \* ConstOf[s]: the constant text s exports
  Broken      \* the texts whose evaluation ends in an error

ASSUME SourceAssumption ==
  /\ Loads \in [Source -> SUBSET Module]
  /\ Reexports \in [Source -> SUBSET Module]
  /\ \A s \in Source : Reexports[s] \subseteq Loads[s]
  /\ ConstOf \in [Source -> Const]
  /\ Defining \subseteq Source
  /\ Broken \subseteq Source

(***************************************************************************)
(* The canonical encoding of a BzlModule: constants by value, functions by *)
(* their ref.                                                              *)
(***************************************************************************)
encode_bzl_value(b) == [const |-> b.const, refs |-> {l.ref : l \in b.links}]

\* Mutations: a digest of the module's own text only, and no digest at all.
digest_of_text(source, loaded) == [source |-> source, loaded |-> <<>>]
digest_ignored(source, loaded) == [source |-> "", loaded |-> <<>>]

(***************************************************************************)
(* The content digest of a module: its text and, per load target, the      *)
(* encoding of the bindings it was given.                                  *)
(***************************************************************************)
defining_digest(source, loaded) ==
  [source |-> source,
   loaded |-> [d \in DOMAIN loaded |-> encode_bzl_value(loaded[d])]]

(***************************************************************************)
(* The identity stamped on a function when its module is converted, and    *)
(* the key its frozen module is cached under.  The evaluator relies on the *)
(* two being the same.                                                     *)
(***************************************************************************)
FunctionRef(c) ==
  [module |-> c.module, digest |-> defining_digest(c.source, c.loaded)]

\* Mutation: the frozen module is filed under the digest of its own text.
CacheKeyOfText(c) ==
  [module |-> c.module, digest |-> [source |-> c.source, loaded |-> <<>>]]

CacheKey(c) ==
  [module |-> c.module, digest |-> defining_digest(c.source, c.loaded)]

LinkTo(c) == [ref |-> FunctionRef(c), code |-> c]

\* Mutation: a function bound again is stamped with the binding module.
ExportsRestamped(c) ==
  [const |-> ConstOf[c.source],
   links |-> {LinkTo(x) : x \in IF c.source \in Defining THEN {c} ELSE {}}
               \cup {[l EXCEPT !.ref = FunctionRef(c)] :
                       l \in UNION {c.loaded[d].links : d \in Reexports[c.source]}}]

(***************************************************************************)
(* What a code exports: its constant, its own function if it defines one,  *)
(* and the loaded functions it binds again, whose refs cross verbatim.     *)
(***************************************************************************)
Exports(c) ==
  [const |-> ConstOf[c.source],
   links |-> {LinkTo(x) : x \in IF c.source \in Defining THEN {c} ELSE {}}
               \cup UNION {c.loaded[d].links : d \in Reexports[c.source]}]

\* The functions a code can call through the bridge: all those it loaded.
LinksOf(c) == UNION {c.loaded[d].links : d \in DOMAIN c.loaded}

(***************************************************************************)
(* A BzlModule and a code all of whose linked functions are defined in C,  *)
(* each under the ref that was stamped on it.                              *)
(***************************************************************************)
IsBzlModule(b, C) ==
  /\ b = [const |-> b.const, links |-> b.links]
  /\ b.const \in Const
  /\ \A l \in b.links : l.code \in C /\ l = LinkTo(l.code)

IsCode(c, C) ==
  /\ c = [module |-> c.module, source |-> c.source,
          loaded |-> [d \in Loads[c.source] |-> c.loaded[d]]]
  /\ c.module \in Module
  /\ c.source \in Source
  /\ \A d \in Loads[c.source] : IsBzlModule(c.loaded[d], C)
===============================================================================
