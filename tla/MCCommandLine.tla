--------------------------- MODULE MCCommandLine ----------------------------
(***************************************************************************)
(* CommandLine for TLC.  Contexts are pairs of a name and a number.        *)
(***************************************************************************)
EXTENDS CommandLine

MCCtx == {<< "DEFAULT", 1 >>, << "READ_CONF", 1 >>, << "PROCESS", 1 >>,
          << "PROCESS", 2 >>, << "QUERY", 1 >>, << "STAGE", 1 >>,
          << "STAGE", 2 >>, << "METADATA", 1 >>}
MCName == {c[1] : c \in MCCtx}
MCctxName == [c \in MCCtx |-> c[1]]
MCdefault == << "DEFAULT", 1 >>
MCMetadata == << "METADATA", 1 >>
MCLongLived == {MCMetadata}
MCStages == {"pipeline", "backend"}
=============================================================================
