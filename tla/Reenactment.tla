---------------------------- MODULE Reenactment ----------------------------
(***************************************************************************)
(* Reenactment of a past transaction: translate_update.c turns each of its *)
(* statements into a query over the table it changes,                      *)
(* prov_update_and_transaction.c merges the queries into one by putting    *)
(* the query of an earlier statement in the place of the table, and the    *)
(* backend runs the result against the history of its tables.              *)
(*                                                                         *)
(* The backend (external) is a multiversion database: a committed row      *)
(* version is visible in the SCNs from start up to end.  A transaction T   *)
(* runs statement by statement while other transactions commit; a row that *)
(* T wrote is locked until T ends.  Later a user asks for T.               *)
(*                                                                         *)
(* Abstracted: a row has one value, a condition compares it with a         *)
(* constant and an UPDATE adds one to it.  The identity of a row is a      *)
(* ghost: it makes bags of values sets and follows a row through T.        *)
(***************************************************************************)
EXTENDS Integers, Sequences, FiniteSets, FiniteSetsExt, Functions

CONSTANTS
    Table,
    Databases,      \* sets of committed rows before T: [tab, rid, val]
    Transactions,   \* the statement sequences T may consist of
    Isolation,      \* the isolation levels T may run under
    Options,        \* what a user may ask for: [input, target, only, withCase]
    OtherWrites,    \* what other transactions may do: [tab, rid, val]
    MaxCommits,     \* bound on the commits of other transactions
    Null, None, Fatal   \* model values

ASSUME ReenactmentAssumption ==
    /\ Isolation \subseteq {"SERIALIZABLE", "READ COMMITTED"}
    /\ \A db \in Databases : \A r \in db : r.tab \in Table
    /\ MaxCommits \in Nat

VARIABLES
    clock,          \* the SCN of the last commit
    versions,       \* committed row versions
    stmts, isolation, begin,
    scns,           \* the audit log: the SCN each statement of T saw
    writes,         \* the rows T wrote: their values, or None when deleted
    commitSCN,      \* None while T is active
    job,            \* what the user asked for and what was looked up, or None
    query,          \* the merged reenactment query, or None
    answer,         \* None, Fatal, or the rows it returned
    commits         \* commits of other transactions so far

backend == << clock, versions, stmts, isolation, begin, scns, writes, commitSCN, commits >>
vars == << backend, job, query, answer >>

Infinity == 99
Init ==
    /\ clock = 1
    /\ \E db \in Databases :
          versions = {[tab |-> r.tab, rid |-> r.rid, val |-> r.val,
                       start |-> 1, end |-> Infinity] : r \in db}
    /\ stmts \in Transactions
    /\ isolation \in Isolation
    /\ begin = 1
    /\ scns = << >>
    /\ writes = << >>
    /\ commitSCN = None
    /\ job = None /\ query = None /\ answer = None
    /\ commits = 0

-----------------------------------------------------------------------------
(* The backend.                                                            *)

\* The rows of table t that are committed and visible in SCN s.
asOf(t, s) == {[rid |-> v.rid, val |-> v.val, scn |-> v.start] :
                  v \in {v \in versions : v.tab = t /\ v.start <= s /\ s < v.end}}

\* A condition is unknown for a row without a value.
isTrue(row, c) == row.val # Null /\ row.val = c
isFalse(row, c) == row.val # Null /\ row.val # c

\* What a statement of T sees: its snapshot and what T wrote itself.
snapshot == IF isolation = "SERIALIZABLE" THEN begin ELSE clock
sees(t) ==
    {[rid |-> r.rid, val |-> r.val] :
        r \in {r \in asOf(t, snapshot) : << t, r.rid >> \notin DOMAIN writes}}
    \union {[rid |-> k[2], val |-> writes[k]] :
        k \in {k \in DOMAIN writes : k[1] = t /\ writes[k] # None}}

newRid(i) == << 0, i >>

\* The rows a statement writes.
effect(st, i) ==
    LET hit(t) == {r \in sees(t) : isTrue(r, st.c)}
        keyOf(r) == << st.tab, r.rid >>
        rowOf(k, t) == CHOOSE r \in sees(t) : r.rid = k[2]
    IN CASE st.kind = "UPDATE" ->
              [k \in {keyOf(r) : r \in hit(st.tab)} |-> rowOf(k, st.tab).val + 1]
         [] st.kind = "DELETE" -> [k \in {keyOf(r) : r \in hit(st.tab)} |-> None]
         [] st.kind = "VALUES" -> [k \in {<< st.tab, newRid(i) >>} |-> st.c]
         [] st.kind = "QUERY" ->
              [k \in {<< st.tab, newRid(i) \o r.rid >> : r \in hit(st.from)} |-> st.c]

\* A serializable transaction that would write a row another one changed
\* since its snapshot is aborted by the backend: there is nothing to reenact.
executeStatement ==
    LET i == Len(scns) + 1
        new == effect(stmts[i], i)
        conflict == \E k \in DOMAIN new, v \in versions :
                        k = << v.tab, v.rid >> /\ v.start > snapshot
    IN /\ i \in DOMAIN stmts
       /\ ~conflict
       /\ writes' = [k \in DOMAIN writes \union DOMAIN new |->
                        IF k \in DOMAIN new THEN new[k] ELSE writes[k]]
       /\ scns' = Append(scns, snapshot)
       /\ UNCHANGED << clock, versions, stmts, isolation, begin, commitSCN, job,
                       query, answer, commits >>

\* The version of a row that is current ends, and unless the row is deleted
\* a new one starts.
install(w, scn) ==
    {IF v.end = Infinity /\ << v.tab, v.rid >> \in DOMAIN w
       THEN [v EXCEPT !.end = scn] ELSE v : v \in versions}
    \union {[tab |-> k[1], rid |-> k[2], val |-> w[k], start |-> scn, end |-> Infinity] :
              k \in {k \in DOMAIN w : w[k] # None}}

commitTransaction ==
    /\ commitSCN = None
    /\ Len(scns) = Len(stmts)
    /\ clock' = clock + 1
    /\ commitSCN' = clock'
    /\ versions' = install(writes, clock')
    /\ UNCHANGED << stmts, isolation, begin, scns, writes, job, query, answer, commits >>

\* Another transaction writes a row T has no lock on, and commits.
otherCommit(w) ==
    LET key == << w.tab, w.rid >>
    IN /\ commits < MaxCommits
       /\ commitSCN = None => key \notin DOMAIN writes
       /\ w.val = None => \E r \in asOf(w.tab, clock) : r.rid = w.rid
       /\ clock' = clock + 1
       /\ commits' = commits + 1
       /\ versions' = install([k \in {key} |-> w.val], clock')
       /\ UNCHANGED << stmts, isolation, begin, scns, writes, commitSCN, job, query, answer >>

-----------------------------------------------------------------------------
(* Looking the transaction up.                                             *)

\* The audit log does not say which isolation level T ran under.
inferredIsolation ==
    IF Cardinality(Range(scns)) > 1 THEN "READ COMMITTED" ELSE "SERIALIZABLE"

isSimpleUpdate(st) == st.kind # "QUERY"
onlyUpdatedNeedsResultFiltering == \E i \in DOMAIN stmts : ~isSimpleUpdate(stmts[i])

\* PROVENANCE OF TRANSACTION and REENACT TRANSACTION find everything in the
\* log and have no AS OF of their own; REENACT (...) is told by the user.
\* ONLY UPDATED with a statement that needs annotations is left out.
translateProvenanceStmt(o) ==
    /\ commitSCN # None
    /\ job = None
    /\ o.only => ~onlyUpdatedNeedsResultFiltering
    /\ job' = [opt   |-> o,
               iso   |-> IF o.input = "TRANSACTION" THEN inferredIsolation ELSE isolation,
               asOf  |-> IF o.input = "REENACT" /\ isolation = "SERIALIZABLE"
                           THEN begin ELSE None]
    /\ answer' = IF o.input = "TRANSACTION" /\ DOMAIN writes = {} THEN Fatal ELSE None
    /\ UNCHANGED << backend, query >>

-----------------------------------------------------------------------------
(* Translation and merge.                                                  *)

\* The statements that use table t as their input or as their source.
uses(st) == {st.tab} \union (IF st.kind = "QUERY" THEN {st.from} ELSE {})

\* The statement that produced the version of table t statement i reads:
\* curTranslation in one merge, a search in the reversed list in the other.
getUpdateForPreviousTableVersion(t, i) ==
    Max({0} \union {j \in 1 .. i - 1 : stmts[j].tab = t})

\* Inserts into a table T only inserts into need not scan it.
removeInputTablesWithOnlyInserts(i) ==
    /\ job.opt.only
    /\ stmts[i].kind = "VALUES"
    /\ \A j \in DOMAIN stmts : stmts[j].tab = stmts[i].tab => stmts[j].kind = "VALUES"
    /\ getUpdateForPreviousTableVersion(stmts[i].tab, i) = 0

\* A statement as a query: its operator, the statements its inputs come from
\* (0: the table itself), and the newest row version it may have seen.
translateUpdate(i) ==
    LET st == stmts[i] IN
    [op    |-> IF st.kind = "UPDATE" /\ ~job.opt.withCase THEN "UNION" ELSE st.kind,
     c     |-> st.c,
     tab   |-> st.tab,
     from  |-> IF st.kind = "QUERY" THEN st.from ELSE st.tab,
     alone |-> removeInputTablesWithOnlyInserts(i),
     input |-> [t \in uses(st) |-> getUpdateForPreviousTableVersion(t, i)],
     upTo  |-> IF job.iso = "READ COMMITTED" THEN scns[i] ELSE None]

\* The read-committed merge cannot handle the union translation, and adds its
\* version attribute twice to the query of an INSERT ... SELECT.
mergeFails ==
    /\ job.iso = "READ COMMITTED"
    /\ \E i \in DOMAIN stmts : \/ stmts[i].kind = "QUERY"
                               \/ stmts[i].kind = "UPDATE" /\ ~job.opt.withCase

target == IF job.opt.target = None THEN Len(stmts)
          ELSE getUpdateForPreviousTableVersion(job.opt.target, Len(stmts) + 1)

mergeUpdateSequence ==
    /\ job # None /\ query = None /\ answer = None
    /\ IF target = 0 \/ mergeFails
         THEN answer' = Fatal /\ UNCHANGED query
         ELSE /\ query' = [node   |-> [i \in DOMAIN stmts |-> translateUpdate(i)],
                           root   |-> target,
                           readAt |-> IF job.iso = "READ COMMITTED" THEN commitSCN - 1
                                                                    ELSE job.asOf,
                           filter |-> None]
              /\ UNCHANGED answer
    /\ UNCHANGED << backend, job >>

-----------------------------------------------------------------------------
(* ONLY UPDATED, with the conditions of the updates.                       *)

\* The statements the root of the query is built from.
reachable ==
    LET node == query.node
        below(S) == UNION {{node[i].input[t] : t \in DOMAIN node[i].input} : i \in S} \ {0}
        step[k \in 0 .. Len(stmts)] ==
            IF k = 0 THEN {query.root} ELSE step[k - 1] \union below(step[k - 1])
    IN step[Len(stmts)]

\* Only accesses to the tables themselves are left in the merged query.
baseAccess(t, updated) ==
    \E i \in reachable : /\ ~query.node[i].alone
                         /\ t \in DOMAIN query.node[i].input
                         /\ query.node[i].input[t] = 0
                         /\ (t = query.node[i].tab) = updated

\* Mutant: only the first update of the table selects rows.
addFirstConditionToBaseTables ==
    LET tab == IF job.opt.target = None THEN stmts[1].tab ELSE job.opt.target
        ups == {i \in DOMAIN stmts : stmts[i].tab = tab /\ stmts[i].kind = "UPDATE"}
        i == Min(ups)
    IN IF baseAccess(tab, TRUE) /\ ~baseAccess(tab, FALSE) /\ ups # {}
         THEN [tab |-> tab, conds |-> {[c |-> query.node[i].c, upTo |-> query.node[i].upTo]}]
         ELSE None

\* The conditions of the updates of a table select the rows of the table that
\* reenactment starts from; read committed adds the version bound.
addConditionsToBaseTables ==
    LET tab == IF job.opt.target = None THEN stmts[1].tab ELSE job.opt.target
        ups == {i \in DOMAIN stmts : stmts[i].tab = tab /\ stmts[i].kind = "UPDATE"}
    IN IF baseAccess(tab, TRUE) /\ ~baseAccess(tab, FALSE) /\ ups # {}
         THEN [tab |-> tab, conds |-> {[c |-> query.node[i].c, upTo |-> query.node[i].upTo] : i \in ups}]
         ELSE None

restrictToUpdatedRows ==
    /\ query # None /\ answer = None
    /\ job.opt.only /\ query.filter = None
    /\ addConditionsToBaseTables # None
    /\ query' = [query EXCEPT !.filter = addConditionsToBaseTables]
    /\ UNCHANGED << backend, job, answer >>

-----------------------------------------------------------------------------
(* Running the query.                                                      *)

seen(row, upTo) == upTo = None \/ row.scn <= upTo

\* Mutant: the prefilter ignores the version a row has.
baseAnyVersion(t) ==
    LET rows == asOf(t, IF query.readAt = None THEN clock ELSE query.readAt)
        f == query.filter
    IN IF f = None \/ f.tab # t THEN rows
       ELSE {r \in rows : \E cond \in f.conds : isTrue(r, cond.c)}

base(t) ==
    LET rows == asOf(t, IF query.readAt = None THEN clock ELSE query.readAt)
        f == query.filter
    IN IF f = None \/ f.tab # t THEN rows
       ELSE {r \in rows : \E cond \in f.conds : isTrue(r, cond.c) /\ seen(r, cond.upTo)}

add1(row) == [row EXCEPT !.val = @ + 1]

\* Mutant: an update is applied to rows of any version.
translateUpdateAnyVersion(n, rows) == {IF isTrue(r, n.c) THEN add1(r) ELSE r : r \in rows}

translateUpdateWithCase(n, rows) ==
    {IF isTrue(r, n.c) /\ seen(r, n.upTo) THEN add1(r) ELSE r : r \in rows}

translateUpdateUnion(n, rows) ==
    {add1(r) : r \in {r \in rows : isTrue(r, n.c)}} \union {r \in rows : isFalse(r, n.c)}

\* NOT (condition), and for read committed OR a version bound.
translateDelete(n, rows) ==
    {r \in rows : isFalse(r, n.c) \/ (n.upTo # None /\ r.scn <= n.upTo)}

translateInsert(n, i, rows, source) ==
    (IF n.alone THEN {} ELSE rows)
    \union (IF n.op = "VALUES" THEN {[rid |-> newRid(i), val |-> n.c, scn |-> n.upTo]}
            ELSE {[rid |-> newRid(i) \o r.rid, val |-> n.c, scn |-> n.upTo] :
                     r \in {r \in source : isTrue(r, n.c)}})

result ==
    LET out[i \in 0 .. Len(stmts)] ==
            IF i = 0 THEN {} ELSE
            LET n == query.node[i]
                in(t) == IF n.input[t] = 0 THEN base(t) ELSE out[n.input[t]]
            IN CASE n.op = "UPDATE" -> translateUpdateWithCase(n, in(n.tab))
                 [] n.op = "UNION" -> translateUpdateUnion(n, in(n.tab))
                 [] n.op = "DELETE" -> translateDelete(n, in(n.tab))
                 [] OTHER -> translateInsert(n, i, in(n.tab), in(n.from))
    IN {[rid |-> r.rid, val |-> r.val] : r \in out[query.root]}

runQuery ==
    /\ query # None /\ answer = None
    /\ job.opt.only => query.filter # None \/ addConditionsToBaseTables = None
    /\ answer' = result
    /\ UNCHANGED << backend, job, query >>

-----------------------------------------------------------------------------
Next ==
    \/ executeStatement
    \/ commitTransaction
    \/ \E w \in OtherWrites : otherCommit(w)
    \/ \E o \in Options : translateProvenanceStmt(o)
    \/ mergeUpdateSequence
    \/ restrictToUpdatedRows
    \/ runQuery

Spec == Init /\ [][Next]_vars

-----------------------------------------------------------------------------
(* Properties.                                                             *)

answered == answer \notin {None, Fatal}

\* The rows T wrote in table t and left behind, and table t as T left it: the
\* snapshot of a serializable transaction, or what was committed just before
\* a read-committed one, with the writes of T.
written(t) == {[rid |-> k[2], val |-> writes[k]] :
                  k \in {k \in DOMAIN writes : k[1] = t /\ writes[k] # None}}
afterT(t) ==
    LET before == asOf(t, IF isolation = "SERIALIZABLE" THEN begin ELSE commitSCN - 1)
    IN {[rid |-> r.rid, val |-> r.val] :
           r \in {r \in before : << t, r.rid >> \notin DOMAIN writes}} \union written(t)

rootTable == stmts[query.root].tab
deletes == \E i \in DOMAIN stmts : stmts[i].kind = "DELETE"

\* Where reenactment is not exact.  A transaction the log shows as serializable
\* is reenacted over the tables as they are now.  A DELETE and the union
\* translation of an UPDATE lose rows for which the condition is unknown.  A
\* read-committed DELETE has its version bound the wrong way round.
readsThePast == query.readAt # None
nullSafe == \/ \A v \in versions : v.val # Null
            \/ ~deletes /\ job.opt.withCase
exact == readsThePast /\ nullSafe /\ (job.iso = "READ COMMITTED" => ~deletes)

\* However other transactions commit before, between and after the statements
\* of T, and whenever the query is run, reenactment returns the table as T
\* left it.
ReenactedState ==
    answered /\ ~job.opt.only /\ exact => answer = afterT(rootTable)

\* ONLY UPDATED, prefiltered by the conditions of the updates evaluated on the
\* rows before T, loses no row that T wrote, although a later statement
\* selects rows by what an earlier one made of them.
OnlyUpdatedComplete ==
    answered /\ job.opt.only /\ exact => written(rootTable) \subseteq answer

\* The statements of T that write the table that is returned.
rootKinds == {stmts[i].kind : i \in {i \in DOMAIN stmts : stmts[i].tab = rootTable}}

\* And it returns no other row, if the table that is asked for is the first
\* one T writes or is named, and T updates it or only inserts into it.
OnlyUpdatedExact ==
    /\ answered /\ job.opt.only /\ exact
    /\ rootTable = (IF job.opt.target = None THEN stmts[1].tab ELSE job.opt.target)
    /\ "UPDATE" \in rootKinds \/ rootKinds = {"VALUES"}
    => answer = written(rootTable)

\* What the comment in the read-committed merge says of a DELETE: a row stays
\* when its condition is not met or its version is newer than the statement.
ReadCommittedDelete ==
    answered /\ ~job.opt.only /\ job.iso = "READ COMMITTED"
    /\ (\A v \in versions : v.val # Null) => answer = afterT(rootTable)
=============================================================================
