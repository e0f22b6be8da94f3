--------------------------- MODULE MCPICSRewrite ----------------------------
(***************************************************************************)
(* PICSRewrite for TLC: every query of up to MaxOps operators over a table *)
(* R with a nullable attribute and a table S, on an empty and on a filled  *)
(* table R.  With a name in Admit, TLC finds a query of that kind on which *)
(* one of the properties fails.                                            *)
(***************************************************************************)
EXTENDS PICSRewrite

MCValue == {1, 2}
MCTableAttrs == [R |-> << "a", "b" >>, S |-> << "c" >>]
MCNotNullAttrs == [R |-> {"a"}, S |-> {"c"}]
MCDatabases ==
    { [R |-> << << 1, 2 >>, << 1, Null >>, << 2, 1 >> >>, S |-> << << 1 >>, << 2 >> >>],
      [R |-> << >>, S |-> << << 1 >> >>] }
=============================================================================
