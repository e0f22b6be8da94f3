----------------------------- MODULE MCLibGProM -----------------------------
(***************************************************************************)
(* LibGProM for TLC.  Contexts are pairs of a name and a number; a library *)
(* context is used up by every successful call.                            *)
(***************************************************************************)
EXTENDS LibGProM

MCCtx == {<< "DEFAULT", 1 >>, << "LIBRARY", 1 >>, << "LIBRARY", 2 >>,
          << "LIBRARY", 3 >>, << "QUERY", 1 >>, << "QUERY", 2 >>,
          << "STAGE", 1 >>, << "METADATA", 1 >>}
MCName == {c[1] : c \in MCCtx}
MCctxName == [c \in MCCtx |-> c[1]]
MCdefault == << "DEFAULT", 1 >>
MCMetadata == << "METADATA", 1 >>
MCLongLived == {MCMetadata}
MCStages == {"pipeline", "cost"}
=============================================================================
