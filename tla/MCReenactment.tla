--------------------------- MODULE MCReenactment ---------------------------
(* Two tables; transactions of up to three statements whose conditions chain:  *)
(* what one UPDATE produces is what the next statement selects.              *)
EXTENDS Reenactment, TLC

Upd(t, c) == [kind |-> "UPDATE", tab |-> t, c |-> c]
Del(t, c) == [kind |-> "DELETE", tab |-> t, c |-> c]
Ins(t, c) == [kind |-> "VALUES", tab |-> t, c |-> c]
InsFrom(t, f, c) == [kind |-> "QUERY", tab |-> t, from |-> f, c |-> c]

Known == {[tab |-> "R", rid |-> <<1>>, val |-> 0], [tab |-> "R", rid |-> <<2>>, val |-> 1],
          [tab |-> "S", rid |-> <<4>>, val |-> 1]}
MCDatabases == {Known, Known \union {[tab |-> "R", rid |-> <<3>>, val |-> Null]}}

Statement == {Upd("R", 0), Upd("R", 1), Del("R", 1), Ins("R", 0), Ins("S", 1),
              Upd("S", 1), InsFrom("S", "R", 1), InsFrom("R", "R", 0)}
MCTransactions == {<<s>> : s \in Statement} \union {<<s, t>> : s, t \in Statement}
                  \union {<<Upd("R", 0), s, Upd("R", 1)>> : s \in Statement}

MCOptions == {o \in [input : {"TRANSACTION", "REENACT"}, target : {None, "R"},
                     only : BOOLEAN, withCase : BOOLEAN] : ~o.withCase => ~o.only}

MCOtherWrites == [tab : {"R"}, rid : {<<1>>, <<2>>, <<5>>}, val : {0, 1, None}]
MCTable == {"R", "S"}
MCIsolation == {"SERIALIZABLE", "READ COMMITTED"}
=============================================================================
