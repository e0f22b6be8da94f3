-------------------------- MODULE MCQOGraphVisitor --------------------------
(***************************************************************************)
(* QOGraphVisitor for TLC: every graph of four operators with at most two  *)
(* inputs each, below a stack that is shorter than the longest path.       *)
(***************************************************************************)
EXTENDS QOGraphVisitor

MCCtx == {"DEFAULT", "QUERY", "VISITOR"}
MCctxName == [c \in MCCtx |-> c]
MCfull == << "DEFAULT", "QUERY", "VISITOR" >>
=============================================================================
