----------------------------- MODULE DirectPackage -----------------------------
(***************************************************************************)
(* What a package promises, with no second pass: the BUILD text is         *)
(* evaluated once against one state of the package directory, and each     *)
(* glob() returns the files it matches there.  The evaluation may give up  *)
(* at any point, but a package it delivers is exactly what the text        *)
(* declares.  BuildPackage implements this in two passes.                  *)
(***************************************************************************)
EXTENDS BuildFile

VARIABLES
  files,    \* the package directory
  text,     \* the BUILD text
  view,     \* the directory as this evaluation reads it
  status,   \* "idle", "running", "done", "failed"
  seen,     \* what the calls so far have returned
  targets   \* what they have declared

vars == <<files, text, view, status, seen, targets>>

Init ==
  /\ files \in SUBSET File
  /\ text \in Text
  /\ view = {}
  /\ status = "idle"
  /\ seen = <<>> /\ targets = <<>>

Edit ==
  /\ files' \in SUBSET File
  /\ UNCHANGED <<text, view, status, seen, targets>>

\* The directory is read at one moment; the last evaluation is forgotten.
Open ==
  /\ status # "running"
  /\ status' = "running"
  /\ view' = files
  /\ text' \in Text
  /\ seen' = <<>> /\ targets' = <<>>
  /\ UNCHANGED files

Close ==
  /\ status # "running"
  /\ status' = "idle"
  /\ text' \in Text
  /\ seen' = <<>> /\ targets' = <<>>
  /\ UNCHANGED <<files, view>>

Glob ==
  /\ status = "running"
  /\ LET call == CallOf(text, seen) IN
       /\ call.op = "glob"
       /\ seen' = Append(seen, Matches(call.spec, view))
  /\ UNCHANGED <<files, text, view, status, targets>>

Declare ==
  /\ status = "running"
  /\ LET call == CallOf(text, seen) IN
       /\ IsDeclaration(call)
       /\ Accepted(targets, call)
       /\ targets' = Append(targets, Declared(call))
  /\ seen' = Append(seen, {})
  /\ UNCHANGED <<files, text, view, status>>

Finish ==
  /\ status = "running"
  /\ CallOf(text, seen).op = "end"
  /\ status' = "done"
  /\ UNCHANGED <<files, text, view, seen, targets>>

GiveUp ==
  /\ status \in {"idle", "running"}
  /\ status' = "failed"
  /\ view' \in {view, files}
  /\ seen' = <<>> /\ targets' = <<>>
  /\ UNCHANGED <<files, text>>

Next == Edit \/ Open \/ Close \/ Glob \/ Declare \/ Finish \/ GiveUp

Spec == Init /\ [][Next]_vars
===============================================================================
