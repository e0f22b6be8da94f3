------------------------------ MODULE MCMemMgr ------------------------------
(***************************************************************************)
(* MemMgr for TLC: the default context, two contexts that share the name   *)
(* of a query context, a nested context and a long-lived one, as the       *)
(* pipeline creates them (QUERY_CONTEXT, TRANSLATOR_CONTEXT,               *)
(* METADATA_LOOKUP_PLUGIN_CONTEXT).                                        *)
(***************************************************************************)
EXTENDS MemMgr

CONSTANTS d, q1, q2, t, m

MCCtx == {d, q1, q2, t, m}
MCName == {"DEFAULT_MEMORY_CONTEXT", "QUERY_CONTEXT", "TRANSLATOR_CONTEXT",
           "METADATA_LOOKUP_PLUGIN_CONTEXT"}
MCctxName == [c \in MCCtx |->
    CASE c = d -> "DEFAULT_MEMORY_CONTEXT"
      [] c \in {q1, q2} -> "QUERY_CONTEXT"
      [] c = t -> "TRANSLATOR_CONTEXT"
      [] OTHER -> "METADATA_LOOKUP_PLUGIN_CONTEXT"]
MCLongLived == {m}
=============================================================================
