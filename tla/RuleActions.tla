------------------------------ MODULE RuleActions ------------------------------
(***************************************************************************)
(* ctx.actions and its Args builders during one implementation: the        *)
(* ActionRegistry (src/src/globals.rs), the methods of ctx.actions         *)
(* (src/src/actions.rs) and those of Args (src/src/values_args.rs).        *)
(*                                                                         *)
(* An Args value is an index into the registry, and the registry is one    *)
(* for the whole evaluation.  add_all and add_joined run the map_each      *)
(* callable on each item before they touch their builder; the callable is  *)
(* any function, so that while it runs it may call every method again, on  *)
(* the same builder too.  stack holds the calls whose callable is running. *)
(***************************************************************************)
EXTENDS ActionArgs, FiniteSets

CONSTANTS
  Item,         \* bound: the strings that are passed
  Values,       \* bound: the lists that are passed to add_all and add_joined
  Method,       \* bound: add_all and add_joined with their options
  MapResult,    \* bound: what map_each gives for an item
  Template(_),  \* bound: the arguments of run, given the number of builders
  Output,       \* bound: the files that are written
  MaxBuilders, MaxCalls, MaxActions  \* bounds

\* What is passed is a list, and an Args that is passed to run has come
\* from args(): its index is that of a builder.
ASSUME RuleActionsAssumption ==
  /\ MaxBuilders \in Nat /\ MaxCalls \in Nat /\ MaxActions \in Nat
  /\ \A method \in Method : method.name \in {"add_all", "add_joined"}
  /\ \A strs \in Values \cup MapResult : strs \in Seq(ToSet(strs))
  /\ \A n \in 0 .. MaxBuilders : \A given \in Template(n) :
       /\ given.arguments \in Seq(ToSet(given.arguments))
       /\ \A x \in ToSet(given.arguments) : x.kind = "Args" => x.id \in 1 .. n
       /\ \A files \in {given.inputs, given.outputs} :
            files \in Seq(ToSet(files)) /\ \A x \in ToSet(files) : x.path \in Nat
  /\ \A file \in Output : file.path \in Nat

VARIABLES
  builders,  \* ActionRegistry.arg_builders
  actions,   \* ActionRegistry.actions
  stack,     \* the calls of add_all and add_joined whose map_each runs
  calls,     \* the calls of Args methods begun
  finished,  \* history: the calls that have returned
  status

vars == <<builders, actions, stack, calls, finished, status>>

Init ==
  /\ builders = <<>> /\ actions = <<>> /\ stack = <<>>
  /\ calls = 0 /\ finished = {}
  /\ status = "running"

\* The implementation, or the callable on top of the stack, runs.
Running == status = "running"

\* args()
NewArgs ==
  /\ Running
  /\ Len(builders) < MaxBuilders
  /\ builders' = Append(builders, <<>>)
  /\ UNCHANGED <<actions, stack, calls, finished, status>>

Push(id, call, strs) ==
  builders' = [builders EXCEPT ![id] = @ \o Tagged(call, strs)]

Returned(call) == finished' = finished \cup {call}

Call == calls + 1

Calls(id) ==
  /\ Running
  /\ id \in DOMAIN builders
  /\ calls < MaxCalls
  /\ calls' = Call
  /\ UNCHANGED <<actions, status>>

\* add(first), add(first, second): the format is for the last.
Add(id) ==
  /\ Calls(id)
  /\ \E template \in {None, <<Hole, Hole>>}, first \in Item :
       \/ Push(id, Call, <<apply_format(template, first)>>)
       \/ \E second \in Item : Push(id, Call, <<first, apply_format(template, second)>>)
  /\ Returned(Call)
  /\ UNCHANGED stack

\* add_all and add_joined without map_each, or with no items.
AddPlain(id) ==
  /\ Calls(id)
  /\ \E method \in Method, values \in Values :
       /\ ~method.map_each \/ values = <<>>
       /\ Push(id, Call, Contribution(method, values))
  /\ Returned(Call)
  /\ UNCHANGED stack

\* Mutation: the callable runs for an empty list too.
AddMappedEmpty(id) ==
  /\ Calls(id)
  /\ \E method \in Method, values \in Values :
       /\ method.map_each
       /\ stack' = Append(stack,
            [call |-> Call, id |-> id, method |-> method, left |-> values, strs |-> <<>>])
  /\ UNCHANGED <<builders, finished>>

\* With map_each: the callable is called with the first item.
AddMapped(id) ==
  /\ Calls(id)
  /\ \E method \in Method, values \in Values :
       /\ method.map_each /\ values # <<>>
       /\ stack' = Append(stack,
            [call |-> Call, id |-> id, method |-> method, left |-> values, strs |-> <<>>])
  /\ UNCHANGED <<builders, finished>>

\* Mutation: each item is pushed as soon as it is mapped.
PushedEach(frame, strs) == Contribution(frame.method, strs)

\* What a call pushes when its callable has returned strs: nothing before
\* the last item.
Pushed(frame, strs) ==
  IF Len(frame.left) = 1 THEN Contribution(frame.method, frame.strs \o strs) ELSE <<>>

MapReturns ==
  /\ Running
  /\ stack # <<>>
  /\ LET frame == Last(stack) IN
       \E strs \in MapResult :
         /\ Push(frame.id, frame.call, Pushed(frame, strs))
         /\ \/ /\ Len(frame.left) > 1
               /\ stack' = [stack EXCEPT ![Len(stack)] =
                    [frame EXCEPT !.left = Tail(@), !.strs = @ \o strs]]
               /\ UNCHANGED finished
            \/ /\ Len(frame.left) = 1
               /\ stack' = Front(stack)
               /\ Returned(frame.call)
  /\ UNCHANGED <<actions, calls, status>>

\* The ActionTemplate of a call, which goes into the action as given.
Declare(given) ==
  /\ Running
  /\ Len(actions) < MaxActions
  /\ actions' = Append(actions,
       [argv |-> Argv(given.executable, given.arguments, builders), env |-> given.env,
        inputs |-> Paths(given.inputs), outputs |-> Paths(given.outputs),
        given |-> given, after |-> finished])
  /\ UNCHANGED <<builders, stack, calls, finished, status>>

\* run(): the argv is made of the builders as they are.  The environment
\* is a function, which has no order.
Run == \E given \in Template(Len(builders)) : Declare(given)

\* write(): its argv is "write_file" and the content.
Write ==
  \E content \in Item, output \in Output :
    Declare([executable |-> <<"write_file">>, arguments |-> <<[kind |-> "text", str |-> content]>>,
             inputs |-> <<>>, outputs |-> <<output>>, env |-> <<>>])

\* A wrong argument, or any error of the text: the evaluation ends.
Fail ==
  /\ Running
  /\ status' = "failed"
  /\ UNCHANGED <<builders, actions, stack, calls, finished>>

\* The implementation returns: the actions go into the RuleResult.
Return ==
  /\ Running
  /\ stack = <<>>
  /\ status' = "returned"
  /\ UNCHANGED <<builders, actions, stack, calls, finished>>

Next ==
  \/ NewArgs
  \/ \E id \in DOMAIN builders : Add(id) \/ AddPlain(id) \/ AddMapped(id)
  \/ MapReturns
  \/ Run \/ Write
  \/ Fail \/ Return

Spec == Init /\ [][Next]_vars

-------------------------------------------------------------------------------
(* Types: a call is counted, is on the stack while its callable runs, and  *)
(* has returned otherwise.                                                 *)
TypeOK ==
  /\ \A h \in DOMAIN builders : \A i \in DOMAIN builders[h] : builders[h][i].call \in 1 .. calls
  /\ \A i \in DOMAIN stack :
       /\ stack[i].id \in DOMAIN builders
       /\ stack[i].call \in 1 .. calls
       /\ stack[i].left # <<>>
  /\ {stack[i].call : i \in DOMAIN stack} = (1 .. calls) \ finished
  /\ finished \subseteq 1 .. calls
  /\ status \in {"running", "failed", "returned"}

\* What these calls have added to the builder.
Taken(h, after) == {i \in DOMAIN builders[h] : builders[h][i].call \in after}

(* The argv of an action holds, of each Args it was given, what the calls  *)
(* that had returned by then have added, whole, and nothing of any later   *)
(* call, nor of one whose callable was still running (actions.rs:150-157): *)
(* the strings of those calls are the first ones of the builder for good.  *)
SnapshotAtRun ==
  \A a \in ToSet(actions) :
    /\ \A h \in DOMAIN builders : \A i \in Taken(h, a.after) : 1 .. i \subseteq Taken(h, a.after)
    /\ a.argv = Argv(a.given.executable, a.given.arguments,
                     [h \in DOMAIN builders |->
                        SubSeq(builders[h], 1, Cardinality(Taken(h, a.after)))])

(* "a literal inserted before each item" (values_args.rs:8), also when     *)
(* duplicates are dropped: in the argv of an action the strings of a call  *)
(* that inserts a flag are flag, item, flag, item, with nothing of another *)
(* call between a flag and its item.                                       *)
Flags == {method.before_each : method \in {x \in Method : x.name = "add_all"}} \ {None}

FlagsPaired ==
  \A a \in ToSet(actions) :
    LET Flag(i) == a.argv[i].str \in Flags
        Same(i, j) == j \in DOMAIN a.argv /\ a.argv[j].call = a.argv[i].call
    IN \A i \in DOMAIN a.argv :
         (a.argv[i].call # 0 /\ \E j \in DOMAIN a.argv : Same(i, j) /\ Flag(j)) =>
           IF Flag(i) THEN Same(i, i + 1) /\ ~Flag(i + 1)
                      ELSE Same(i, i - 1) /\ Flag(i - 1)

(* "inputs/outputs are exec-path STRINGS (a File -> its .path)             *)
(* sorted+deduped" (actions.rs:8): two calls of run that name the same     *)
(* files, in whatever order, as Files or as strings and however often,     *)
(* declare the same action, so that the key of an action does not depend   *)
(* on the order in which an implementation comes by its files.             *)
PathsCanonical ==
  \A a \in ToSet(actions) :
    \A files \in {[given |-> a.given.inputs, paths |-> a.inputs],
                  [given |-> a.given.outputs, paths |-> a.outputs]} :
      /\ ToSet(files.paths) = {f.path : f \in ToSet(files.given)}
      /\ \A i, j \in DOMAIN files.paths : i < j => files.paths[i] < files.paths[j]

(* The registry is a log of whole calls.                                   *)
Log == INSTANCE ActionLog
LogSpec == Log!Spec
===============================================================================
