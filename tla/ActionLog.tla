------------------------------- MODULE ActionLog -------------------------------
(***************************************************************************)
(* What the ActionRegistry promises an implementation.  An Args builder is *)
(* a log: a call of one of its methods appends all it has to add in one    *)
(* step, whatever other calls are made while it computes it, and nothing   *)
(* that is there ever changes.  An action takes the logs as they are when  *)
(* run is called, and is never touched again.                              *)
(***************************************************************************)
EXTENDS ActionArgs

VARIABLES builders, actions

Init == builders = <<>> /\ actions = <<>>

NewArgs == builders' = Append(builders, <<>>) /\ UNCHANGED actions

\* The call has not written to any log yet.
Unlogged(call) ==
  \A h \in DOMAIN builders : \A i \in DOMAIN builders[h] : builders[h][i].call # call

Extends(log, longer, call) ==
  /\ Len(longer) >= Len(log)
  /\ \A i \in DOMAIN log : longer[i] = log[i]
  /\ \A i \in DOMAIN longer \ DOMAIN log : longer[i].call = call

Log ==
  /\ DOMAIN builders' = DOMAIN builders
  /\ \E h \in DOMAIN builders :
       /\ \A other \in DOMAIN builders \ {h} : builders'[other] = builders[other]
       /\ \E i \in DOMAIN builders'[h] :
            /\ Unlogged(builders'[h][i].call)
            /\ Extends(builders[h], builders'[h], builders'[h][i].call)
  /\ UNCHANGED actions

Record ==
  /\ Len(actions') = Len(actions) + 1
  /\ \A i \in DOMAIN actions : actions'[i] = actions[i]
  /\ LET new == actions'[Len(actions')] IN
       new.argv = Argv(new.given.executable, new.given.arguments, builders)
  /\ UNCHANGED builders

Next == NewArgs \/ Log \/ Record

Spec == Init /\ [][Next]_<<builders, actions>>
===============================================================================
