------------------------------ MODULE MCCtxExpand ------------------------------
(* One variable in ctx.var, whose value looks like a directive, and additional  *)
(* names that are the same, empty, blank, or look like a directive's end or     *)
(* its beginning.                                                               *)
EXTENDS CtxExpand

Characters == {"$", "(", ")", " ", "n", Wide}
ModeVar == << <<<<"n">>, <<"$", "(", "n", ")">> >> >>
Substitutions ==
  {<<>>,
   << <<<<"n">>, <<" ">> >>, << <<"n", ")">>, <<>> >> >>,
   << << <<>>, <<"n", "n">> >>, <<<<" ">>, <<")">> >>, <<<<"$", "(">>, <<>> >> >>}
=============================================================================
