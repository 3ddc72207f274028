----------------------------- MODULE MCConsole ------------------------------
(* An instance of Console: what a line is follows from its name.           *)
EXTENDS Console

CONSTANTS ann, tiny,        \* an id, one too short for the prompt
          openAnn, openTiny, openNone, \* opensession
          exit1,
          conns,            \* an instruction that calls the node
          hi, ho            \* any other lines

MCKind == [x \in Lines |->
  CASE x \in {openAnn, openTiny, openNone} -> "opensession"
    [] x = exit1 -> "exit"
    [] x = conns -> "call"
    [] OTHER -> "other"]
MCArg == [x \in Lines |-> CASE x = openAnn -> ann [] x = openTiny -> tiny
                            [] OTHER -> NoId]
=============================================================================
