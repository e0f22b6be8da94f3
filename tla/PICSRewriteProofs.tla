-------------------------- MODULE PICSRewriteProofs ---------------------------
(***************************************************************************)
(* Proofs about PICSRewrite, for every set of tables, every database and   *)
(* queries of any size: the rewrite never meets an input without table     *)
(* information (AssertionsNeverFail), in the graph it builds every link    *)
(* between an operator and its input is known at both ends (LinksAreKept), *)
(* and no attribute that is inferred never to be NULL is NULL              *)
(* (NotNullIsSound).                                                       *)
(*                                                                         *)
(* The lemmas come in the order of the argument: what the operators of a   *)
(* query look like, what attaching a node does to a graph, what each       *)
(* rewrite rule adds, what a call hands to the call below it, and then     *)
(* the invariants of PICSRewrite, one lemma per kind of step.  The second  *)
(* half does without the graph: sequences, what the database computes, and *)
(* the names and rows of the operators of a query.                         *)
(***************************************************************************)
EXTENDS PICSRewrite, FiniteSetTheorems, SequenceTheorems, TLAPS


-----------------------------------------------------------------------------
(***************************************************************************)
(* Sequences                                                               *)
(***************************************************************************)

LEMMA SeqOfFn ==
    ASSUME NEW S, NEW n \in Nat, NEW f \in [1 .. n -> S]
    PROVE  f \in Seq(S) /\ Len(f) = n /\ DOMAIN f = 1 .. n
  OBVIOUS

LEMMA SeqIsSeq ==
    ASSUME NEW S, NEW s \in Seq(S)
    PROVE  /\ IsSeq(s) /\ Len(s) \in Nat /\ DOMAIN s = 1 .. Len(s)
           /\ \A k \in 1 .. Len(s) : s[k] \in S
           /\ ToSet(s) \subseteq S
  <1>1. s \in [1 .. Len(s) -> ToSet(s)] /\ Len(s) \in Nat
    BY DEF ToSet
  <1> QED
    BY <1>1, SeqOfFn DEF IsSeq, ToSet

LEMMA SeqDomain ==
    ASSUME NEW s, IsSeq(s)
    PROVE  /\ Len(s) \in Nat /\ DOMAIN s = 1 .. Len(s)
           /\ \A S : (\A k \in DOMAIN s : s[k] \in S) => s \in Seq(S)
  <1>1. s \in Seq(ToSet(s)) /\ Len(s) \in Nat /\ DOMAIN s = 1 .. Len(s)
    BY DEF IsSeq
  <1>2. ASSUME NEW S, \A k \in DOMAIN s : s[k] \in S
        PROVE  s \in Seq(S)
    <2>1. s \in [1 .. Len(s) -> S]
      BY <1>1, <1>2
    <2> QED
      BY <1>1, <2>1, SeqOfFn
  <1> QED
    BY <1>1, <1>2

LEMMA AppendAny ==
    ASSUME NEW s, IsSeq(s), NEW e
    PROVE  /\ IsSeq(Append(s, e)) /\ Len(Append(s, e)) = Len(s) + 1
           /\ DOMAIN Append(s, e) = 1 .. Len(s) + 1
           /\ \A k \in 1 .. Len(s) : Append(s, e)[k] = s[k]
           /\ Append(s, e)[Len(s) + 1] = e
           /\ Append(s, e) # << >>
  <1> DEFINE S == ToSet(s) \union {e}
  <1>1. s \in Seq(S) /\ e \in S
    BY SeqDomain DEF ToSet
  <1>2. /\ Append(s, e) \in Seq(S) /\ Len(Append(s, e)) = Len(s) + 1
        /\ \A k \in 1 .. Len(s) : Append(s, e)[k] = s[k]
        /\ Append(s, e)[Len(s) + 1] = e
    <2> HIDE DEF S
    <2> QED
      BY <1>1
  <1>3. IsSeq(Append(s, e)) /\ DOMAIN Append(s, e) = 1 .. Len(s) + 1
    <2> HIDE DEF S
    <2> QED
      BY <1>2, SeqIsSeq
  <1>4. Append(s, e) # << >>
    <2>1. Len(s) \in Nat /\ Len(<< >>) = 0
      BY SeqDomain
    <2> QED
      BY <2>1, <1>2
  <1> QED
    BY <1>2, <1>3, <1>4

LEMMA EmptyIsSeq == IsSeq(<< >>) /\ Len(<< >>) = 0 /\ DOMAIN << >> = {}
  BY DEF IsSeq, ToSet

LEMMA FrontOfSeq ==
    ASSUME NEW S, NEW s \in Seq(S), s # << >>
    PROVE  LET r == SubSeq(s, 1, Len(s) - 1)
           IN  /\ r \in Seq(S) /\ Len(r) = Len(s) - 1 /\ DOMAIN r = 1 .. Len(s) - 1
               /\ \A k \in 1 .. Len(s) - 1 : r[k] = s[k]
               /\ Len(s) \in Nat /\ Len(s) >= 1
  <1>1. Len(s) \in Nat /\ Len(s) >= 1
    OBVIOUS
  <1> PICK m : m = Len(s) - 1
    OBVIOUS
  <1>2. m \in Nat /\ m <= Len(s)
    BY <1>1
  <1>3. /\ SubSeq(s, 1, m) \in Seq(S) /\ Len(SubSeq(s, 1, m)) = m
        /\ \A k \in 1 .. m : SubSeq(s, 1, m)[k] = s[k]
    BY <1>2
  <1>4. DOMAIN SubSeq(s, 1, m) = 1 .. m
    BY <1>3
  <1> QED
    BY <1>1, <1>3, <1>4

LEMMA ContainsDef ==
    ASSUME NEW s, IsSeq(s), NEW e
    PROVE  /\ Contains(s, e) <=> \E k \in DOMAIN s : s[k] = e
           /\ Contains(s, e) <=> e \in ToSet(s)
  BY SeqDomain DEF Contains, ToSet

-----------------------------------------------------------------------------
(***************************************************************************)
(* The query                                                               *)
(***************************************************************************)
\* The operators that addOperator may add: their type, inputs and positions.
UnaryPos(w, o) ==
    /\ o.type = "Selection" => \E p \in 1 .. w : o.pos = << p >>
    /\ o.type = "Projection" => \/ \E p \in 1 .. w : o.pos = << p >>
                                \/ w = 2 /\ o.pos = << 2, 1 >>
    /\ o.type = "Aggregation" => o.pos \in {<< >>, << 1 >>}

LEMMA NewUnary ==
    ASSUME NEW q, NEW i, NEW o \in UnaryOperators(q, i)
    PROVE  /\ o.type \in Unary /\ o.how = "" /\ o.in = << i >> /\ o.rightWidth = 0
           /\ UnaryPos(Width(q, i), o)
           /\ o.type \in {"DuplicateRemoval", "Order", "Limit"} => o.pos = << >>
  <1> DEFINE keep  == {<< p >> : p \in 1 .. Width(q, i)}
             list(type) ==
                    CASE type = "Selection"   -> keep
                      [] type = "Projection"  ->
                           keep \union (IF Width(q, i) = 2 THEN {<< 2, 1 >>} ELSE {})
                      [] type = "Aggregation" -> {<< >>, << 1 >>}
                      [] OTHER                -> {<< >>}
             lists == [type \in Unary |-> list(type)]
             shapes(type) == {Shape(type, "", << i >>, pos, 0) : pos \in lists[type]}
  <1>1. UnaryOperators(q, i) = UNION {shapes(type) : type \in Unary}
    BY DEF UnaryOperators
  <1>2. PICK type \in Unary : o \in shapes(type)
    <2> HIDE DEF shapes
    <2> QED
      BY <1>1
  <1>3. PICK pos \in lists[type] : o = Shape(type, "", << i >>, pos, 0)
    <2> HIDE DEF lists
    <2> QED
      BY <1>2
  <1>4. o.type = type /\ o.pos = pos /\ o.how = "" /\ o.in = << i >> /\ o.rightWidth = 0
    BY <1>3 DEF Shape
  <1>5. pos \in list(type)
    <2> HIDE DEF list
    <2> QED
      BY <1>2, <1>3
  <1>6. /\ type = "Selection" => pos \in keep
        /\ type = "Projection" => \/ pos \in keep
                                  \/ Width(q, i) = 2 /\ pos = << 2, 1 >>
        /\ type = "Aggregation" => pos \in {<< >>, << 1 >>}
        /\ type \in {"DuplicateRemoval", "Order", "Limit"} => pos = << >>
    <2> HIDE DEF keep
    <2> QED
      BY <1>5
  <1> QED
    BY <1>2, <1>3, <1>4, <1>6 DEF UnaryPos

LEMMA NewLeaf ==
    ASSUME NEW o \in LeafOperators
    PROVE  /\ o.in = << >> /\ o.pos = << >> /\ o.rightWidth = 0
           /\ \/ o.type = "TableAccess" /\ o.how \in Tables
              \/ o.type = "ConstRel" /\ o.how = ""
  <1>1. CASE \E t \in Tables : o = Shape("TableAccess", t, << >>, << >>, 0)
    BY <1>1 DEF Shape
  <1>2. CASE o = Shape("ConstRel", "", << >>, << >>, 0)
    BY <1>2 DEF Shape
  <1> QED
    BY <1>1, <1>2 DEF LeafOperators

LEMMA NewBinary ==
    ASSUME NEW q, NEW i, NEW j, NEW o \in BinaryOperators(q, i, j)
    PROVE  /\ o.in = << i, j >>
           /\ \/ /\ o.pos = << 1, 1 >> /\ o.rightWidth = Width(q, j)
                 /\ o.type = "Join" /\ o.how \in JoinTypes
              \/ /\ o.pos = << >> /\ o.rightWidth = 0
                 /\ o.type = "Set" /\ o.how \in SetOps /\ Width(q, i) = Width(q, j)
  <1>1. CASE \E how \in JoinTypes : o = Shape("Join", how, << i, j >>, << 1, 1 >>, Width(q, j))
    BY <1>1 DEF Shape
  <1>2. CASE \E how \in {h \in SetOps : Width(q, i) = Width(q, j)} :
               o = Shape("Set", how, << i, j >>, << >>, 0)
    <2>1. PICK how \in SetOps : /\ o = Shape("Set", how, << i, j >>, << >>, 0)
                                /\ Width(q, i) = Width(q, j)
      BY <1>2
    <2> QED
      BY <2>1 DEF Shape
  <1> QED
    BY <1>1, <1>2 DEF BinaryOperators

LEMMA NewCases ==
    ASSUME NEW q, NEW o \in NewOperators(q)
    PROVE  \/ o \in LeafOperators
           \/ \E i \in DOMAIN q : o \in UnaryOperators(q, i)
           \/ \E i \in DOMAIN q, j \in DOMAIN q : o \in BinaryOperators(q, i, j)
  BY DEF NewOperators

LEMMA NewOperatorFields ==
    ASSUME NEW q, IsSeq(q), NEW o \in NewOperators(q)
    PROVE  /\ o.type \in OpTypes
           /\ o.in \in Seq(DOMAIN q) /\ Len(o.in) = Arity(o.type)
           /\ o.type = "TableAccess" => o.how \in Tables
           /\ o.type = "Join" => o.how \in JoinTypes
           /\ o.type = "Set" => o.how \in SetOps
           /\ o.type \in Unary \union {"ConstRel"} => o.how = ""
  <1> USE DEF OpTypes, Leaves, Unary, Arity
  <1>1. CASE o \in LeafOperators
    <2>1. o.in = << >>
      BY <1>1, NewLeaf
    <2>2. << >> \in Seq(DOMAIN q) /\ Len(<< >>) = 0
      OBVIOUS
    <2> QED
      BY <1>1, <2>1, <2>2, NewLeaf
  <1>2. CASE \E i \in DOMAIN q : o \in UnaryOperators(q, i)
    <2>1. PICK i \in DOMAIN q : o \in UnaryOperators(q, i)
      BY <1>2
    <2>2. o.type \in Unary /\ o.how = "" /\ o.in = << i >>
      BY <2>1, NewUnary
    <2>3. << i >> \in Seq(DOMAIN q) /\ Len(<< i >>) = 1
      OBVIOUS
    <2> QED
      BY <2>2, <2>3
  <1>3. CASE \E i \in DOMAIN q, j \in DOMAIN q : o \in BinaryOperators(q, i, j)
    <2>1. PICK i \in DOMAIN q, j \in DOMAIN q : o \in BinaryOperators(q, i, j)
      BY <1>3
    <2>2. /\ o.in = << i, j >>
          /\ \/ o.type = "Join" /\ o.how \in JoinTypes
             \/ o.type = "Set" /\ o.how \in SetOps
      BY <2>1, NewBinary
    <2>3. << i, j >> \in Seq(DOMAIN q) /\ Len(<< i, j >>) = 2
      OBVIOUS
    <2> QED
      BY <2>2, <2>3
  <1> QED
    BY <1>1, <1>2, <1>3, NewCases

\* What a condition on an operator says depends on the query below it only.
LEMMA InScopeOfPrefix ==
    ASSUME NEW q, NEW r, NEW o, NEW p,
           \A k \in DOMAIN o.in : o.in[k] \in DOMAIN q,
           \A i \in DOMAIN q : r[i] = q[i],
           \A i \in DOMAIN q : q[i].core \in DOMAIN q /\ q[i].below \subseteq DOMAIN q,
           o.type \in {"Set", "Join"} => 1 \in DOMAIN o.in /\ 2 \in DOMAIN o.in,
           p.type = o.type, p.how = o.how, p.in = o.in,
           InScope(q, o)
    PROVE  InScope(r, p)
  <1>1. LimitOk(q, o) => LimitOk(r, p)
    BY DEF LimitOk
  <1>2. IntersectionOk(q, o) => IntersectionOk(r, p)
    BY DEF IntersectionOk
  <1>3. NullsOk(q, o) => NullsOk(r, p)
    BY DEF NullsOk, IsSet
  <1>4. SharingOk(q, o) => SharingOk(r, p)
    <2>1. IsSet(p, {"UNION", "DIFFERENCE"}) = IsSet(o, {"UNION", "DIFFERENCE"})
      BY DEF IsSet
    <2> SUFFICES ASSUME SharingOk(q, o), IsSet(o, {"UNION", "DIFFERENCE"}),
                        NEW k \in r[o.in[2]].below
                 PROVE  r[k].core # r[o.in[1]].core
      BY <2>1 DEF SharingOk
    <2>2. o.in[1] \in DOMAIN q /\ o.in[2] \in DOMAIN q
      BY DEF IsSet
    <2> QED
      BY <2>2 DEF SharingOk
  <1>5. NotNullOk(q, o) => NotNullOk(r, p)
    <2>1. CASE o.type \in {"Set", "Join"}
      <3>1. r[o.in[1]] = q[o.in[1]] /\ r[o.in[2]] = q[o.in[2]]
        BY <2>1
      <3> QED
        BY <3>1 DEF NotNullOk, IsSet, IsJoin
    <2>2. CASE o.type \notin {"Set", "Join"}
      BY <2>2 DEF NotNullOk, IsSet, IsJoin
    <2> QED
      BY <2>1, <2>2
  <1> QED
    BY <1>1, <1>2, <1>3, <1>4, <1>5 DEF InScope

-----------------------------------------------------------------------------
(***************************************************************************)
(* Nodes and graphs                                                        *)
(***************************************************************************)
\* Graph h has the nodes of g, with other parents for those in T at most.
SameButParents(m, n) == \A f \in NodeFields \ {"parents"} : m[f] = n[f]
Extends(g, h, T) ==
    /\ Len(g) <= Len(h)
    /\ \A k \in DOMAIN g : /\ SameButParents(h[k], g[k])
                           /\ k \notin T => h[k].parents = g[k].parents

\* A node that stands above nodes of g and has no parents yet.
IsNewNode(g, n) ==
    /\ DOMAIN n = NodeFields /\ n.parents = << >> /\ n.info = << >>
    /\ IsSeq(n.inputs) /\ ToSet(n.inputs) \subseteq DOMAIN g

LEMMA SameFields ==
    ASSUME NEW m, NEW n, SameButParents(m, n)
    PROVE  /\ m.type = n.type /\ m.inputs = n.inputs /\ m.schema = n.schema
           /\ m.provAttrs = n.provAttrs /\ m.info = n.info /\ m.width = n.width
           /\ m.rel = n.rel
  BY DEF SameButParents, NodeFields

LEMMA ExtendsTransitive ==
    ASSUME NEW g, NEW h, NEW k, NEW T, NEW U, IsSeq(g), IsSeq(h), IsSeq(k),
           Extends(g, h, T), Extends(h, k, U)
    PROVE  Extends(g, k, T \union U)
  <1>1. Len(g) \in Nat /\ Len(h) \in Nat /\ Len(k) \in Nat
        /\ DOMAIN g = 1 .. Len(g) /\ DOMAIN h = 1 .. Len(h)
    BY SeqDomain
  <1>2. DOMAIN g \subseteq DOMAIN h
    BY <1>1 DEF Extends
  <1> QED
    BY <1>1, <1>2 DEF Extends, SameButParents

LEMMA ExtendsMore ==
    ASSUME NEW g, NEW h, NEW T, NEW U, Extends(g, h, T), T \intersect DOMAIN g \subseteq U
    PROVE  Extends(g, h, U)
  BY DEF Extends

\* Attaching a node adds it at the end and changes nothing of the others but
\* their parent lists.
LEMMA AttachedFields ==
    ASSUME NEW g, GraphOk(g), NEW n, IsNewNode(g, n), NEW h,
           \/ h = Attach(g, n)
           \/ h = AttachAlone(g, n)
    PROVE  /\ GraphOk(h) /\ Len(h) = Len(g) + 1 /\ DOMAIN h = 1 .. Len(g) + 1
           /\ DOMAIN g = 1 .. Len(g) /\ Len(g) \in Nat
           /\ h[Len(g) + 1] = n
           /\ \A k \in DOMAIN g : DOMAIN h[k] = NodeFields /\ SameButParents(h[k], g[k])
           /\ \A k \in DOMAIN g :
                IF Contains(n.inputs, k)
                THEN h[k].parents = IF h = Attach(g, n)
                                    THEN Append(g[k].parents, Len(g) + 1)
                                    ELSE << Len(g) + 1 >>
                ELSE h[k].parents = g[k].parents
  <1> DEFINE new(k) == IF h = Attach(g, n) THEN Append(g[k].parents, Len(g) + 1)
                                           ELSE << Len(g) + 1 >>
             base == [k \in DOMAIN g |-> IF Contains(n.inputs, k)
                                         THEN [g[k] EXCEPT !.parents = new(k)] ELSE g[k]]
  <1>1. Len(g) \in Nat /\ DOMAIN g = 1 .. Len(g)
    BY SeqDomain DEF GraphOk
  <1>2. h = Append(base, n)
    <2>1. CASE h = Attach(g, n)
      BY <2>1 DEF Attach
    <2>2. CASE h # Attach(g, n)
      BY <2>2 DEF AttachAlone
    <2> QED
      BY <2>1, <2>2
  <1>3. IsSeq(base) /\ Len(base) = Len(g) /\ DOMAIN base = DOMAIN g
    <2>1. base \in [1 .. Len(g) -> {base[k] : k \in 1 .. Len(g)}]
      BY <1>1
    <2> HIDE DEF base
    <2>2. base \in Seq({base[k] : k \in 1 .. Len(g)}) /\ Len(base) = Len(g)
      BY <1>1, <2>1, SeqOfFn
    <2> QED
      BY <1>1, <2>2, SeqIsSeq
  <1>4. \A k \in DOMAIN g : DOMAIN base[k] = NodeFields /\ SameButParents(base[k], g[k])
    BY DEF GraphOk, IsNode, SameButParents, NodeFields
  <1>5. \A k \in DOMAIN g : IF Contains(n.inputs, k) THEN base[k].parents = new(k)
                            ELSE base[k].parents = g[k].parents
    <2> HIDE DEF new
    <2> QED
      BY DEF GraphOk, IsNode, NodeFields
  <1>6. \A k \in DOMAIN g : IsSeq(new(k))
    <2> TAKE k \in DOMAIN g
    <2>1. IsSeq(Append(g[k].parents, Len(g) + 1))
      BY AppendAny DEF GraphOk, IsNode
    <2>2. << Len(g) + 1 >> \in Seq({Len(g) + 1})
      OBVIOUS
    <2>3. IsSeq(<< Len(g) + 1 >>)
      BY <2>2, SeqIsSeq
    <2> QED
      BY <2>1, <2>3
  <1>7. /\ IsSeq(h) /\ Len(h) = Len(g) + 1 /\ DOMAIN h = 1 .. Len(g) + 1
        /\ h[Len(g) + 1] = n /\ \A k \in DOMAIN g : h[k] = base[k]
    <2> HIDE DEF base
    <2> QED
      BY <1>1, <1>2, <1>3, AppendAny
  <1>8. \A k \in DOMAIN g : IsNode(h[k])
    <2> TAKE k \in DOMAIN g
    <2>1. DOMAIN h[k] = NodeFields /\ SameButParents(h[k], g[k])
      BY <1>4, <1>7
    <2>2. /\ h[k].inputs = g[k].inputs /\ IsSeq(g[k].inputs) /\ IsSeq(g[k].parents)
          /\ h[k].info = g[k].info /\ IsSeq(g[k].info)
      BY <2>1, SameFields DEF GraphOk, IsNode
    <2>3. IsSeq(h[k].parents)
      <3> HIDE DEF base, new
      <3> QED
        BY <1>5, <1>6, <1>7, <2>2
    <2> QED
      BY <2>1, <2>2, <2>3 DEF IsNode
  <1>9. IsNode(n)
    BY EmptyIsSeq DEF IsNewNode, IsNode
  <1>10. GraphOk(h)
    <2>1. \A k \in 1 .. Len(g) + 1 : k \in DOMAIN g \/ k = Len(g) + 1
      BY <1>1
    <2> HIDE DEF base
    <2> QED
      BY <1>7, <1>8, <1>9, <2>1 DEF GraphOk
  <1> QED
    <2> HIDE DEF base
    <2> QED
      BY <1>1, <1>4, <1>5, <1>7, <1>10

\* The links hold for the new node; where the link replaces the others, the
\* inputs have none that would be lost.
LEMMA AttachedLinks ==
    ASSUME NEW g, GraphOk(g), LinksOk(g), NEW n, IsNewNode(g, n), NEW h,
           \/ h = Attach(g, n)
           \/ /\ h = AttachAlone(g, n)
              /\ \A c \in ToSet(n.inputs) : g[c].parents = << >>
    PROVE  LinksOk(h)
  <1> DEFINE last == Len(g) + 1
  <1>1. /\ GraphOk(h) /\ DOMAIN h = 1 .. last /\ DOMAIN g = 1 .. Len(g) /\ Len(g) \in Nat
        /\ h[last] = n
        /\ \A k \in DOMAIN g : SameButParents(h[k], g[k])
        /\ \A k \in DOMAIN g :
                IF Contains(n.inputs, k)
                THEN h[k].parents = IF h = Attach(g, n)
                                    THEN Append(g[k].parents, last)
                                    ELSE << last >>
                ELSE h[k].parents = g[k].parents
    BY AttachedFields
  <1> HIDE DEF last
  <1>2. \A k \in DOMAIN g : /\ h[k].inputs = g[k].inputs
                            /\ IsSeq(g[k].inputs) /\ IsSeq(g[k].parents)
    BY <1>1, SameFields DEF GraphOk, IsNode
  <1>3. \A k \in 1 .. last : k \in DOMAIN g \/ k = last
    BY <1>1 DEF last
  <1>4. last \in DOMAIN h /\ last \notin DOMAIN g /\ DOMAIN g \subseteq DOMAIN h
    BY <1>1 DEF last
  <1>5. IsSeq(n.inputs) /\ ToSet(n.inputs) \subseteq DOMAIN g /\ n.parents = << >>
    BY DEF IsNewNode
  <1>6. \A k \in DOMAIN g : \A p :
          p \in ToSet(h[k].parents) <=>
            \/ p \in ToSet(g[k].parents)
            \/ p = last /\ Contains(n.inputs, k)
    <2> TAKE k \in DOMAIN g
    <2>1. CASE ~ Contains(n.inputs, k)
      BY <1>1, <2>1
    <2>2. CASE Contains(n.inputs, k) /\ h = Attach(g, n)
      <3>1. h[k].parents = Append(g[k].parents, last)
        BY <1>1, <2>2
      <3>2. ToSet(Append(g[k].parents, last)) = ToSet(g[k].parents) \union {last}
        <4> DEFINE s == g[k].parents
                   r == Append(s, last)
        <4>1. /\ IsSeq(s) /\ IsSeq(r) /\ DOMAIN r = 1 .. Len(s) + 1 /\ DOMAIN s = 1 .. Len(s)
              /\ Len(s) \in Nat /\ r[Len(s) + 1] = last
              /\ \A i \in 1 .. Len(s) : r[i] = s[i]
          BY <1>2, AppendAny, SeqDomain
        <4> HIDE DEF s, r
        <4>2. \A i \in DOMAIN r : i \in DOMAIN s \/ i = Len(s) + 1
          BY <4>1
        <4>3. \A i \in DOMAIN s : i \in DOMAIN r
          BY <4>1
        <4>4. Len(s) + 1 \in DOMAIN r
          BY <4>1
        <4>5. ToSet(r) = ToSet(s) \union {last}
          BY <4>1, <4>2, <4>3, <4>4 DEF ToSet
        <4> QED
          BY <4>5 DEF s, r
      <3> QED
        BY <2>2, <3>1, <3>2
    <2>3. CASE Contains(n.inputs, k) /\ h # Attach(g, n)
      <3>1. h[k].parents = << last >>
        BY <1>1, <2>3
      <3>2. ToSet(<< last >>) = {last}
        BY DEF ToSet
      <3>3. k \in ToSet(n.inputs)
        BY <1>5, <2>3, ContainsDef
      <3>4. g[k].parents = << >>
        BY <2>3, <3>3
      <3>5. ToSet(<< >>) = {}
        BY DEF ToSet
      <3> QED
        BY <2>3, <3>1, <3>2, <3>4, <3>5
    <2> QED
      BY <2>1, <2>2, <2>3
  <1>7. \A k \in DOMAIN h : IsSeq(h[k].inputs) /\ IsSeq(h[k].parents)
    BY <1>1 DEF GraphOk, IsNode
  <1> SUFFICES ASSUME NEW m \in DOMAIN h
               PROVE  /\ \A c \in ToSet(h[m].inputs) : c \in DOMAIN h /\ Contains(h[c].parents, m)
                      /\ \A p \in ToSet(h[m].parents) : p \in DOMAIN h /\ Contains(h[p].inputs, m)
    BY DEF LinksOk
  <1>8. CASE m = last
    <2>1. \A c \in ToSet(n.inputs) : c \in DOMAIN h /\ Contains(h[c].parents, last)
      <3> TAKE c \in ToSet(n.inputs)
      <3>1. c \in DOMAIN g /\ Contains(n.inputs, c)
        BY <1>5, ContainsDef
      <3>2. last \in ToSet(h[c].parents)
        BY <1>6, <3>1
      <3> QED
        BY <1>4, <1>7, <3>1, <3>2, ContainsDef
    <2>2. ToSet(n.parents) = {}
      BY <1>5 DEF ToSet
    <2> QED
      BY <1>1, <1>8, <2>1, <2>2
  <1>9. CASE m \in DOMAIN g
    <2>1. \A c \in ToSet(h[m].inputs) : c \in DOMAIN h /\ Contains(h[c].parents, m)
      <3> TAKE c \in ToSet(h[m].inputs)
      <3>1. c \in DOMAIN g /\ Contains(g[c].parents, m)
        BY <1>2, <1>9 DEF LinksOk
      <3>2. m \in ToSet(g[c].parents)
        BY <1>2, <3>1, ContainsDef
      <3>3. m \in ToSet(h[c].parents)
        BY <1>6, <3>1, <3>2
      <3> QED
        BY <1>4, <1>7, <3>1, <3>3, ContainsDef
    <2>2. \A p \in ToSet(h[m].parents) : p \in DOMAIN h /\ Contains(h[p].inputs, m)
      <3> TAKE p \in ToSet(h[m].parents)
      <3>1. CASE p \in ToSet(g[m].parents)
        BY <1>2, <1>4, <1>9, <3>1 DEF LinksOk
      <3>2. CASE p = last /\ Contains(n.inputs, m)
        BY <1>1, <1>4, <3>2
      <3> QED
        BY <1>6, <1>9, <3>1, <3>2
    <2> QED
      BY <2>1, <2>2
  <1> QED
    BY <1>1, <1>3, <1>8, <1>9

-----------------------------------------------------------------------------
(***************************************************************************)
(* What a rewrite rule adds to the graph                                   *)
(***************************************************************************)
Builds(g, h, T) ==
    /\ GraphOk(h) /\ Len(g) < Len(h) /\ Extends(g, h, T)
    /\ Len(h) \in DOMAIN h /\ h[Len(h)].parents = << >>

LEMMA GraphDomain ==
    ASSUME NEW g, GraphOk(g)
    PROVE  Len(g) \in Nat /\ DOMAIN g = 1 .. Len(g)
  BY SeqDomain DEF GraphOk

LEMMA AttachBuilds ==
    ASSUME NEW g, GraphOk(g), NEW n, IsNewNode(g, n), NEW h,
           \/ h = Attach(g, n)
           \/ h = AttachAlone(g, n)
    PROVE  /\ Builds(g, h, ToSet(n.inputs)) /\ Len(h) = Len(g) + 1 /\ h[Len(h)] = n
           /\ DOMAIN g \subseteq DOMAIN h
  <1>1. /\ GraphOk(h) /\ DOMAIN h = 1 .. Len(g) + 1 /\ DOMAIN g = 1 .. Len(g) /\ Len(g) \in Nat
        /\ h[Len(g) + 1] = n /\ Len(h) = Len(g) + 1
        /\ \A k \in DOMAIN g : SameButParents(h[k], g[k])
        /\ \A k \in DOMAIN g :
                IF Contains(n.inputs, k)
                THEN h[k].parents = IF h = Attach(g, n)
                                    THEN Append(g[k].parents, Len(g) + 1)
                                    ELSE << Len(g) + 1 >>
                ELSE h[k].parents = g[k].parents
    BY AttachedFields
  <1>2. \A k : Contains(n.inputs, k) <=> k \in ToSet(n.inputs)
    BY ContainsDef DEF IsNewNode
  <1>3. n.parents = << >>
    BY DEF IsNewNode
  <1> QED
    BY <1>1, <1>2, <1>3 DEF Builds, Extends

LEMMA BuildsTransitive ==
    ASSUME NEW g, NEW h, NEW k, NEW T, NEW U, GraphOk(g), Builds(g, h, T), Builds(h, k, U)
    PROVE  Builds(g, k, T \union U)
  <1>1. Extends(g, k, T \union U)
    BY ExtendsTransitive DEF Builds, GraphOk
  <1>2. Len(g) \in Nat /\ Len(h) \in Nat /\ Len(k) \in Nat
    BY GraphDomain DEF Builds
  <1> QED
    BY <1>1, <1>2 DEF Builds

LEMMA BuildsMore ==
    ASSUME NEW g, NEW h, NEW T, NEW U, Builds(g, h, T), T \intersect DOMAIN g \subseteq U
    PROVE  Builds(g, h, U)
  BY ExtendsMore DEF Builds

\* WithInfo changes the table information of the last node only.
LEMMA WithInfoBuilds ==
    ASSUME NEW g, NEW h, NEW T, GraphOk(g), Builds(g, h, T), NEW info, IsSeq(info)
    PROVE  LET i == WithInfo(h, info)
           IN  /\ Builds(g, i, T) /\ Len(i) = Len(h) /\ i[Len(i)].info = info
               /\ LinksOk(h) => LinksOk(i)
               /\ DOMAIN i = DOMAIN h
               /\ \A k \in DOMAIN i : k # Len(h) => i[k] = h[k]
               /\ \A f \in NodeFields \ {"info"} : i[Len(h)][f] = h[Len(h)][f]
  <1> DEFINE i == WithInfo(h, info)
             last == Len(h)
  <1>1. last \in Nat /\ DOMAIN h = 1 .. last /\ last \in DOMAIN h /\ IsNode(h[last])
    BY GraphDomain DEF Builds, GraphOk
  <1>2. i = [h EXCEPT ![last] = [h[last] EXCEPT !.info = info]]
    BY DEF WithInfo
  <1> HIDE DEF i
  <1>3. DOMAIN i = DOMAIN h /\ \A k \in DOMAIN h : k # last => i[k] = h[k]
    BY <1>2
  <1>4. i[last] = [h[last] EXCEPT !.info = info]
    BY <1>1, <1>2
  <1>5. /\ DOMAIN i[last] = NodeFields /\ i[last].info = info
        /\ \A f \in NodeFields \ {"info"} : i[last][f] = h[last][f]
    BY <1>1, <1>4 DEF IsNode, NodeFields
  <1>6. i[last].inputs = h[last].inputs /\ i[last].parents = h[last].parents
    BY <1>5 DEF NodeFields
  <1>7. Len(i) = last /\ IsSeq(i)
    <2>1. i \in [1 .. last -> {i[k] : k \in 1 .. last}]
      BY <1>1, <1>2, <1>3
    <2> QED
      BY <1>1, <2>1, SeqOfFn, SeqIsSeq
  <1>8. GraphOk(i)
    BY <1>1, <1>3, <1>5, <1>6, <1>7 DEF GraphOk, IsNode, Builds
  <1>9. Extends(g, i, T)
    <2>1. Len(g) \in Nat /\ DOMAIN g = 1 .. Len(g) /\ Len(g) < last
      BY GraphDomain DEF Builds
    <2>2. \A k \in DOMAIN g : i[k] = h[k]
      BY <1>1, <1>3, <2>1
    <2> QED
      BY <1>7, <2>2 DEF Extends, Builds
  <1>10. Builds(g, i, T)
    BY <1>1, <1>3, <1>6, <1>7, <1>8, <1>9 DEF Builds
  <1>11. LinksOk(h) => LinksOk(i)
    <2>1. \A k \in DOMAIN h : i[k].inputs = h[k].inputs /\ i[k].parents = h[k].parents
      BY <1>3, <1>6
    <2> QED
      BY <1>3, <2>1 DEF LinksOk
  <1> QED
    BY <1>3, <1>5, <1>7, <1>10, <1>11 DEF i

LEMMA ChangedNode ==
    ASSUME NEW g, NEW n, IsNewNode(g, n), NEW a, NEW b
    PROVE  /\ IsNewNode(g, [n EXCEPT !.schema = a])
           /\ IsNewNode(g, [n EXCEPT !.provAttrs = b])
           /\ IsNewNode(g, [n EXCEPT !.schema = a, !.provAttrs = b])
           /\ [n EXCEPT !.schema = a].inputs = n.inputs
           /\ [n EXCEPT !.provAttrs = b].inputs = n.inputs
           /\ [n EXCEPT !.schema = a, !.provAttrs = b].inputs = n.inputs
  BY DEF IsNewNode, NodeFields

LEMMA AddedAttrsNode ==
    ASSUME NEW g, NEW n, IsNewNode(g, n), NEW source
    PROVE  /\ IsNewNode(g, addProvenanceAttrsToSchema(n, source))
           /\ IsNewNode(g, addNormalAttrsToSchema(n, source))
           /\ addProvenanceAttrsToSchema(n, source).inputs = n.inputs
           /\ addNormalAttrsToSchema(n, source).inputs = n.inputs
  <1> DEFINE a == n.schema \o ProvNames(source)
             b == n.provAttrs \o IntSeq(Len(n.schema) + 1, Len(n.schema) + Len(source.provAttrs))
             c == n.schema \o NormalNames(source)
  <1>1. addProvenanceAttrsToSchema(n, source) = [n EXCEPT !.schema = a, !.provAttrs = b]
    BY DEF addProvenanceAttrsToSchema
  <1>2. addNormalAttrsToSchema(n, source) = [n EXCEPT !.schema = c]
    BY DEF addNormalAttrsToSchema
  <1> HIDE DEF a, b, c
  <1>3. /\ IsNewNode(g, [n EXCEPT !.schema = a, !.provAttrs = b])
        /\ [n EXCEPT !.schema = a, !.provAttrs = b].inputs = n.inputs
    BY DEF IsNewNode, NodeFields
  <1>4. /\ IsNewNode(g, [n EXCEPT !.schema = c])
        /\ [n EXCEPT !.schema = c].inputs = n.inputs
    BY ChangedNode
  <1>5. /\ IsNewNode(g, addProvenanceAttrsToSchema(n, source))
        /\ addProvenanceAttrsToSchema(n, source).inputs = n.inputs
    BY Zenon, <1>1, <1>3
  <1>6. /\ IsNewNode(g, addNormalAttrsToSchema(n, source))
        /\ addNormalAttrsToSchema(n, source).inputs = n.inputs
    BY Zenon, <1>2, <1>4
  <1> QED
    BY <1>5, <1>6

LEMMA OneInput ==
    ASSUME NEW c
    PROVE  IsSeq(<< c >>) /\ ToSet(<< c >>) = {c}
  <1>1. << c >> \in Seq({c})
    OBVIOUS
  <1>2. DOMAIN << c >> = {1} /\ << c >>[1] = c
    OBVIOUS
  <1>3. ToSet(<< c >>) = {c}
    BY <1>2 DEF ToSet
  <1> QED
    BY <1>1, <1>3, SeqIsSeq

LEMMA TwoInputs ==
    ASSUME NEW c, NEW d
    PROVE  IsSeq(<< c, d >>) /\ ToSet(<< c, d >>) = {c, d}
  <1>1. << c, d >> \in Seq({c, d})
    OBVIOUS
  <1>2. DOMAIN << c, d >> = {1, 2} /\ << c, d >>[1] = c /\ << c, d >>[2] = d
    OBVIOUS
  <1>3. ToSet(<< c, d >>) = {c, d}
    BY <1>2 DEF ToSet
  <1> QED
    BY <1>1, <1>3, SeqIsSeq

LEMMA NewNodes ==
    ASSUME NEW g, NEW type, NEW inputs, IsSeq(inputs), ToSet(inputs) \subseteq DOMAIN g,
           NEW schema, NEW width, NEW rel
    PROVE  /\ IsNewNode(g, Node(type, inputs, schema, width, rel))
           /\ Node(type, inputs, schema, width, rel).inputs = inputs
  BY DEF IsNewNode, Node, NodeFields

LEMMA NewProjection ==
    ASSUME NEW g, NEW c \in DOMAIN g, NEW exprs, NEW names
    PROVE  /\ IsNewNode(g, Projection(g, c, exprs, names))
           /\ Projection(g, c, exprs, names).inputs = << c >>
  <1>1. IsSeq(<< c >>) /\ ToSet(<< c >>) \subseteq DOMAIN g
    BY OneInput
  <1> QED
    BY <1>1, NewNodes DEF Projection

LEMMA NewJoin ==
    ASSUME NEW g, NEW joinType, NEW l \in DOMAIN g, NEW r \in DOMAIN g, NEW on
    PROVE  /\ IsNewNode(g, Join(g, joinType, l, r, on))
           /\ Join(g, joinType, l, r, on).inputs = << l, r >>
  <1>1. IsSeq(<< l, r >>) /\ ToSet(<< l, r >>) \subseteq DOMAIN g
    BY TwoInputs
  <1> QED
    BY <1>1, NewNodes DEF Join, createJoinOp

LEMMA NewLeafNode ==
    ASSUME NEW g, NEW type, NEW schema, NEW width, NEW rel
    PROVE  /\ IsNewNode(g, Node(type, << >>, schema, width, rel))
           /\ ToSet(Node(type, << >>, schema, width, rel).inputs) = {}
  <1>1. IsSeq(<< >>) /\ ToSet(<< >>) = {}
    BY EmptyIsSeq DEF ToSet
  <1> QED
    BY <1>1, NewNodes

LEMMA NewCopy ==
    ASSUME NEW g, NEW o
    PROVE  IsNewNode(g, OpCopy(o)) /\ ToSet(OpCopy(o).inputs) = {}
  BY NewLeafNode DEF OpCopy

\* A projection of any kind over the last node, or over any node.
LEMMA ReorderBuilds ==
    ASSUME NEW g, GraphOk(g), Len(g) \in DOMAIN g
    PROVE  LET h == ReorderAttrs(g)
           IN  /\ Builds(g, h, {Len(g)}) /\ (LinksOk(g) => LinksOk(h))
  <1> DEFINE j == g[Len(g)]
             p == Projection(g, Len(g), NormalPos(j) \o j.provAttrs, << >>)
             n == addProvenanceAttrsToSchema(addNormalAttrsToSchema(p, j), j)
             h == ReorderAttrs(g)
  <1>1. IsNewNode(g, p) /\ p.inputs = << Len(g) >>
    BY NewProjection
  <1>2. IsNewNode(g, n) /\ n.inputs = << Len(g) >>
    <2> HIDE DEF p
    <2> QED
      BY <1>1, AddedAttrsNode
  <1>3. h = Attach(g, n)
    BY DEF ReorderAttrs
  <1> HIDE DEF n, h
  <1>4. ToSet(n.inputs) = {Len(g)}
    BY <1>2, OneInput
  <1>5. Builds(g, h, {Len(g)}) /\ (LinksOk(g) => LinksOk(h))
    <2>1. Builds(g, h, ToSet(n.inputs))
      BY <1>2, <1>3, AttachBuilds
    <2>2. LinksOk(g) => LinksOk(h)
      BY <1>2, <1>3, AttachedLinks
    <2> QED
      BY <1>4, <2>1, <2>2
  <1> QED
    BY <1>5 DEF h

LEMMA ConcatSeq ==
    ASSUME NEW a, NEW b, IsSeq(a), IsSeq(b)
    PROVE  /\ IsSeq(a \o b) /\ Len(a \o b) = Len(a) + Len(b)
           /\ DOMAIN (a \o b) = 1 .. Len(a) + Len(b)
           /\ \A k \in 1 .. Len(a) : (a \o b)[k] = a[k]
           /\ \A k \in 1 .. Len(b) : (a \o b)[Len(a) + k] = b[k]
           /\ a # << >> => a \o b # << >>
           /\ Len(a) \in Nat /\ Len(b) \in Nat
  <1> DEFINE S == ToSet(a) \union ToSet(b)
  <1>1. a \in Seq(S) /\ b \in Seq(S)
    BY SeqDomain DEF ToSet
  <1> HIDE DEF S
  <1>2. /\ a \o b \in Seq(S) /\ Len(a \o b) = Len(a) + Len(b)
        /\ \A k \in 1 .. Len(a) : (a \o b)[k] = a[k]
        /\ \A k \in 1 .. Len(b) : (a \o b)[Len(a) + k] = b[k]
        /\ Len(a) \in Nat /\ Len(b) \in Nat
    BY <1>1
  <1>3. IsSeq(a \o b) /\ DOMAIN (a \o b) = 1 .. Len(a) + Len(b)
    BY <1>2, SeqIsSeq
  <1>4. a # << >> => a \o b # << >>
    <2>1. a # << >> => Len(a) > 0
      BY <1>1
    <2> QED
      BY <1>2, <2>1
  <1> QED
    BY <1>2, <1>3, <1>4

\* One more node, by either way of linking it.
LEMMA Added ==
    ASSUME NEW g, GraphOk(g), NEW n, IsNewNode(g, n), NEW T, ToSet(n.inputs) = T
    PROVE  LET h == Attach(g, n)
           IN  /\ Builds(g, h, T) /\ Len(h) = Len(g) + 1 /\ h[Len(h)] = n
               /\ DOMAIN g \subseteq DOMAIN h /\ GraphOk(h)
               /\ LinksOk(g) => LinksOk(h)
  <1>1. PICK h : h = Attach(g, n)
    OBVIOUS
  <1>2. /\ Builds(g, h, T) /\ Len(h) = Len(g) + 1 /\ h[Len(h)] = n
        /\ DOMAIN g \subseteq DOMAIN h
    BY <1>1, AttachBuilds
  <1>3. LinksOk(g) => LinksOk(h)
    BY <1>1, AttachedLinks
  <1> QED
    BY <1>1, <1>2, <1>3 DEF Builds

LEMMA AddedAlone ==
    ASSUME NEW g, GraphOk(g), NEW n, IsNewNode(g, n), NEW T, ToSet(n.inputs) = T
    PROVE  LET h == AttachAlone(g, n)
           IN  /\ Builds(g, h, T) /\ Len(h) = Len(g) + 1 /\ h[Len(h)] = n
               /\ DOMAIN g \subseteq DOMAIN h /\ GraphOk(h)
               /\ LinksOk(g) /\ (\A c \in T : g[c].parents = << >>) => LinksOk(h)
  <1>1. PICK h : h = AttachAlone(g, n)
    OBVIOUS
  <1>2. /\ Builds(g, h, T) /\ Len(h) = Len(g) + 1 /\ h[Len(h)] = n
        /\ DOMAIN g \subseteq DOMAIN h
    BY <1>1, AttachBuilds
  <1>3. LinksOk(g) /\ (\A c \in T : g[c].parents = << >>) => LinksOk(h)
    BY <1>1, AttachedLinks
  <1> QED
    BY <1>1, <1>2, <1>3 DEF Builds

LEMMA NewNodeLater ==
    ASSUME NEW g, NEW h, NEW n, IsNewNode(g, n), DOMAIN g \subseteq DOMAIN h
    PROVE  IsNewNode(h, n)
  BY DEF IsNewNode

LEMMA LeafBuilds ==
    ASSUME NEW g, GraphOk(g), NEW o, NEW table, NEW cnt, NEW recorded
    PROVE  LET h == rewriteLeaf(g, o, table, cnt, recorded)
           IN  /\ Builds(g, h, {}) /\ (LinksOk(g) => LinksOk(h))
               /\ h[Len(h)].info # << >>
  <1> DEFINE n     == Len(o.schema)
             base  == Node(o.type, << >>, o.schema, n, o.rel)
             leaf  == Attach(g, base)
             names == [k \in 1 .. n |-> getProvenanceAttrName(table, cnt, o.schema[k][3])]
             proj  == Projection(leaf, Len(leaf), IntSeq(1, n) \o IntSeq(1, n), o.schema \o names)
             attrs == IntSeq(n + 1, 2 * n)
             top   == [proj EXCEPT !.provAttrs = attrs]
             info  == << << table, [k \in 1 .. n |-> recorded \o o.schema[k][3]] >> >>
             added == Attach(leaf, top)
             h     == WithInfo(added, info)
  <1>1. rewriteLeaf(g, o, table, cnt, recorded) = h
    BY DEF rewriteLeaf
  <1>2. IsNewNode(g, base) /\ ToSet(base.inputs) = {}
    BY NewLeafNode
  <1> HIDE DEF base
  <1>3. /\ Builds(g, leaf, {}) /\ Len(leaf) = Len(g) + 1 /\ GraphOk(leaf)
        /\ LinksOk(g) => LinksOk(leaf)
    BY <1>2, Added
  <1>4. Len(leaf) \in DOMAIN leaf /\ Len(leaf) \notin DOMAIN g
    BY <1>3, GraphDomain
  <1> HIDE DEF leaf
  <1>5. IsNewNode(leaf, proj) /\ proj.inputs = << Len(leaf) >>
    BY <1>4, NewProjection
  <1> HIDE DEF proj, attrs
  <1>6. IsNewNode(leaf, top) /\ ToSet(top.inputs) = {Len(leaf)}
    BY <1>5, ChangedNode, OneInput
  <1> HIDE DEF top
  <1>7. Builds(leaf, added, {Len(leaf)}) /\ (LinksOk(leaf) => LinksOk(added))
    BY <1>3, <1>6, Added
  <1> HIDE DEF added
  <1>8. Builds(g, added, {})
    BY <1>3, <1>4, <1>7, BuildsTransitive, BuildsMore
  <1>9. IsSeq(info) /\ info # << >>
    BY OneInput
  <1> HIDE DEF info
  <1>10. /\ Builds(g, h, {}) /\ h[Len(h)].info = info
         /\ LinksOk(added) => LinksOk(h)
    BY <1>8, <1>9, WithInfoBuilds
  <1> HIDE DEF h
  <1> QED
    BY <1>1, <1>3, <1>7, <1>9, <1>10

LEMMA SameSchemaBuilds ==
    ASSUME NEW g, GraphOk(g), NEW o, NEW ins, ins = << ins[1] >>, ins[1] \in DOMAIN g
    PROVE  LET h == rewriteSameSchema(g, o, ins)
           IN  /\ Builds(g, h, {ins[1]}) /\ (LinksOk(g) => LinksOk(h))
               /\ h[Len(h)].info = g[ins[1]].info
  <1> DEFINE c == g[ins[1]]
             n == Node(o.type, ins, o.schema, c.width, Eval(o, << c.rel >>, db))
             m == addProvenanceAttrsToSchema(n, c)
             added == Attach(g, m)
             h == WithInfo(added, c.info)
  <1>1. rewriteSameSchema(g, o, ins) = h
    BY DEF rewriteSameSchema
  <1>2. IsSeq(c.info)
    BY DEF GraphOk, IsNode
  <1>3. IsSeq(ins) /\ ToSet(ins) = {ins[1]}
    BY OneInput
  <1>4. IsNewNode(g, n) /\ n.inputs = ins
    BY <1>3, NewNodes
  <1> HIDE DEF n
  <1>5. IsNewNode(g, m) /\ ToSet(m.inputs) = {ins[1]}
    BY <1>3, <1>4, AddedAttrsNode
  <1> HIDE DEF m
  <1>6. Builds(g, added, {ins[1]}) /\ (LinksOk(g) => LinksOk(added))
    BY <1>5, Added
  <1> HIDE DEF added
  <1>7. /\ Builds(g, h, {ins[1]}) /\ h[Len(h)].info = c.info
        /\ LinksOk(added) => LinksOk(h)
    BY <1>2, <1>6, WithInfoBuilds
  <1> HIDE DEF h
  <1> QED
    BY <1>1, <1>6, <1>7

LEMMA ProjectionBuilds ==
    ASSUME NEW g, GraphOk(g), NEW o, NEW ins, ins[1] \in DOMAIN g
    PROVE  LET h == rewriteProjection(g, o, ins)
           IN  /\ Builds(g, h, {ins[1]}) /\ (LinksOk(g) => LinksOk(h))
               /\ h[Len(h)].info = g[ins[1]].info
  <1> DEFINE c == g[ins[1]]
             n == Projection(g, ins[1], o.pos \o c.provAttrs, o.schema)
             m == addProvenanceAttrsToSchema(n, c)
             added == Attach(g, m)
             h == WithInfo(added, c.info)
  <1>1. rewriteProjection(g, o, ins) = h
    BY DEF rewriteProjection
  <1>2. IsSeq(c.info)
    BY DEF GraphOk, IsNode
  <1>3. IsNewNode(g, n) /\ n.inputs = << ins[1] >>
    BY NewProjection
  <1> HIDE DEF n
  <1>4. IsNewNode(g, m) /\ ToSet(m.inputs) = {ins[1]}
    BY <1>3, AddedAttrsNode, OneInput
  <1> HIDE DEF m
  <1>5. Builds(g, added, {ins[1]}) /\ (LinksOk(g) => LinksOk(added))
    BY <1>4, Added
  <1> HIDE DEF added
  <1>6. /\ Builds(g, h, {ins[1]}) /\ h[Len(h)].info = c.info
        /\ LinksOk(added) => LinksOk(h)
    BY <1>2, <1>5, WithInfoBuilds
  <1> HIDE DEF h
  <1> QED
    BY <1>1, <1>5, <1>6

\* A join of two nodes, reordered, with any table information.
LEMMA JoinedBuilds ==
    ASSUME NEW g, GraphOk(g), NEW n, IsNewNode(g, n), NEW l \in DOMAIN g, NEW r \in DOMAIN g,
           n.inputs = << l, r >>
    PROVE  LET h == ReorderAttrs(Attach(g, n))
           IN  Builds(g, h, {l, r}) /\ (LinksOk(g) => LinksOk(h))
  <1> DEFINE j == Attach(g, n)
             h == ReorderAttrs(j)
  <1>1. ToSet(n.inputs) = {l, r}
    BY TwoInputs
  <1>2. /\ Builds(g, j, {l, r}) /\ Len(j) = Len(g) + 1 /\ GraphOk(j)
        /\ LinksOk(g) => LinksOk(j)
    BY <1>1, Added
  <1> HIDE DEF j
  <1>3. Len(j) \in DOMAIN j /\ Len(j) \notin DOMAIN g
    BY <1>2, GraphDomain
  <1>4. Builds(j, h, {Len(j)}) /\ (LinksOk(j) => LinksOk(h))
    BY <1>2, <1>3, ReorderBuilds
  <1> HIDE DEF h
  <1>5. Builds(g, h, {l, r} \union {Len(j)})
    BY <1>2, <1>4, BuildsTransitive
  <1>6. Builds(g, h, {l, r})
    BY <1>3, <1>5, BuildsMore
  <1>7. Builds(g, h, {l, r}) /\ (LinksOk(g) => LinksOk(h))
    BY <1>2, <1>4, <1>6
  <1> QED
    BY <1>7 DEF h, j

LEMMA JoinBuilds ==
    ASSUME NEW g, GraphOk(g), NEW o, NEW ins, ins[1] \in DOMAIN g, ins[2] \in DOMAIN g
    PROVE  LET h == rewriteJoin(g, o, ins)
           IN  /\ Builds(g, h, {ins[1], ins[2]}) /\ (LinksOk(g) => LinksOk(h))
               /\ h[Len(h)].info = g[ins[1]].info \o g[ins[2]].info
  <1> DEFINE l    == g[ins[1]]
             r    == g[ins[2]]
             numL == Len(o.schema) - o.rightWidth
             on   == On(<< o.pos[1] >>, << o.pos[2] >>, FALSE)
             both == Join(g, o.how, ins[1], ins[2], on)
             lsch == SubSeq(o.schema, 1, numL)
             bl   == [both EXCEPT !.schema = lsch]
             left == addProvenanceAttrsToSchema(bl, l)
             rsch == left.schema \o SubSeq(o.schema, numL + 1, Len(o.schema))
             lr   == [left EXCEPT !.schema = rsch]
             join == addProvenanceAttrsToSchema(lr, r)
             added == ReorderAttrs(Attach(g, join))
             info == l.info \o r.info
             h    == WithInfo(added, info)
  <1>1. rewriteJoin(g, o, ins) = h
    BY DEF rewriteJoin
  <1>2. IsSeq(info)
    BY ConcatSeq DEF GraphOk, IsNode
  <1> HIDE DEF info
  <1>3. IsNewNode(g, both) /\ both.inputs = << ins[1], ins[2] >>
    <2> HIDE DEF on
    <2> QED
      BY NewJoin
  <1> HIDE DEF both, lsch
  <1>4. IsNewNode(g, bl) /\ bl.inputs = << ins[1], ins[2] >>
    BY <1>3, ChangedNode
  <1> HIDE DEF bl
  <1>5. IsNewNode(g, left) /\ left.inputs = << ins[1], ins[2] >>
    BY <1>4, AddedAttrsNode
  <1> HIDE DEF left, rsch
  <1>6. IsNewNode(g, lr) /\ lr.inputs = << ins[1], ins[2] >>
    BY <1>5, ChangedNode
  <1> HIDE DEF lr
  <1>7. IsNewNode(g, join) /\ join.inputs = << ins[1], ins[2] >>
    BY <1>6, AddedAttrsNode
  <1> HIDE DEF join
  <1>8. Builds(g, added, {ins[1], ins[2]}) /\ (LinksOk(g) => LinksOk(added))
    BY <1>7, JoinedBuilds
  <1> HIDE DEF added
  <1>9. /\ Builds(g, h, {ins[1], ins[2]}) /\ h[Len(h)].info = info
        /\ LinksOk(added) => LinksOk(h)
    BY <1>2, <1>8, WithInfoBuilds
  <1> HIDE DEF h
  <1> QED
    BY <1>1, <1>8, <1>9 DEF info

LEMMA IntersectionBuilds ==
    ASSUME NEW g, GraphOk(g), NEW o, NEW ins, ins[1] \in DOMAIN g, ins[2] \in DOMAIN g
    PROVE  LET h == rewriteIntersection(g, o, ins)
           IN  Builds(g, h, {ins[1], ins[2]}) /\ (LinksOk(g) => LinksOk(h))
  <1> DEFINE l == g[ins[1]]
             r == g[ins[2]]
             all == IntSeq(1, Len(o.schema))
             on   == On(all, all, FALSE)
             both == Join(g, "INNER", ins[1], ins[2], on)
             bare == [both EXCEPT !.schema = << >>]
             ln   == addNormalAttrsToSchema(bare, l)
             left == addProvenanceAttrsToSchema(ln, l)
             rn   == addNormalAttrsToSchema(left, r)
             join == addProvenanceAttrsToSchema(rn, r)
             h    == ReorderAttrs(Attach(g, join))
  <1>1. rewriteIntersection(g, o, ins) = h
    BY DEF rewriteIntersection
  <1>2. IsNewNode(g, both) /\ both.inputs = << ins[1], ins[2] >>
    <2> HIDE DEF on
    <2> QED
      BY NewJoin
  <1> HIDE DEF both
  <1>3. IsNewNode(g, bare) /\ bare.inputs = << ins[1], ins[2] >>
    BY <1>2, ChangedNode
  <1> HIDE DEF bare
  <1>4. IsNewNode(g, ln) /\ ln.inputs = << ins[1], ins[2] >>
    BY <1>3, AddedAttrsNode
  <1> HIDE DEF ln
  <1>5. IsNewNode(g, left) /\ left.inputs = << ins[1], ins[2] >>
    BY <1>4, AddedAttrsNode
  <1> HIDE DEF left
  <1>6. IsNewNode(g, rn) /\ rn.inputs = << ins[1], ins[2] >>
    BY <1>5, AddedAttrsNode
  <1> HIDE DEF rn
  <1>7. IsNewNode(g, join) /\ join.inputs = << ins[1], ins[2] >>
    BY <1>6, AddedAttrsNode
  <1> HIDE DEF join
  <1>8. Builds(g, h, {ins[1], ins[2]}) /\ (LinksOk(g) => LinksOk(h))
    BY <1>7, JoinedBuilds
  <1> HIDE DEF h
  <1> QED
    BY <1>1, <1>8

LEMMA NewProjByName ==
    ASSUME NEW g, NEW c \in DOMAIN g, NEW names, NEW newNames
    PROVE  /\ IsNewNode(g, createProjOnAttrsByName(g, c, names, newNames))
           /\ createProjOnAttrsByName(g, c, names, newNames).inputs = << c >>
  <1> DEFINE pos == [k \in DOMAIN names |-> getAttrPos(g[c].schema, names[k])]
             p   == Projection(g, c, pos, newNames)
             attrs == Keep(IntSeq(1, Len(pos)), {k \in DOMAIN pos : Contains(g[c].provAttrs, pos[k])})
  <1>1. createProjOnAttrsByName(g, c, names, newNames) = [p EXCEPT !.provAttrs = attrs]
    BY DEF createProjOnAttrsByName
  <1> HIDE DEF attrs
  <1>2. IsNewNode(g, p) /\ p.inputs = << c >>
    <2> HIDE DEF pos
    <2> QED
      BY NewProjection
  <1> HIDE DEF p
  <1>3. IsNewNode(g, [p EXCEPT !.provAttrs = attrs]) /\ [p EXCEPT !.provAttrs = attrs].inputs = << c >>
    BY <1>2, ChangedNode
  <1> QED
    BY <1>1, <1>3

LEMMA ReuseBuilds ==
    ASSUME NEW g, GraphOk(g), NEW c \in DOMAIN g
    PROVE  LET h == rewriteReuse(g, c)
           IN  /\ Builds(g, h, {c}) /\ (LinksOk(g) => LinksOk(h))
               /\ h[Len(h)].info = g[c].info
  <1> DEFINE n == g[c]
             info == n.info
             fresh == FlattenSeq([k \in DOMAIN n.info |->
                   [j \in DOMAIN n.info[k][2] |->
                      getProvenanceAttrName(n.info[k][1], FreshCount(n.info, k), n.info[k][2][j])]])
             olds == NormalNames(n) \o ProvNames(n)
             news == NormalNames(n) \o fresh
             proj == createProjOnAttrsByName(g, c, olds, news)
             added == Attach(g, proj)
             h == WithInfo(added, info)
  <1>1. rewriteReuse(g, c) = h
    BY DEF rewriteReuse
  <1> HIDE DEF olds, news
  <1>2. IsSeq(info)
    BY DEF GraphOk, IsNode
  <1>3. IsNewNode(g, proj) /\ ToSet(proj.inputs) = {c}
    <2>1. IsNewNode(g, proj) /\ proj.inputs = << c >>
      BY NewProjByName
    <2> HIDE DEF proj
    <2> QED
      BY <2>1, OneInput
  <1> HIDE DEF proj, info
  <1>4. Builds(g, added, {c}) /\ (LinksOk(g) => LinksOk(added))
    BY <1>3, Added
  <1> HIDE DEF added
  <1>5. /\ Builds(g, h, {c}) /\ h[Len(h)].info = info
        /\ LinksOk(added) => LinksOk(h)
    BY <1>2, <1>4, WithInfoBuilds
  <1> HIDE DEF h
  <1> QED
    BY <1>1, <1>4, <1>5 DEF info

\* The last two steps of a rewrite that ends in a projection: a node above
\* two others, and one above it.
LEMMA TwoAdded ==
    ASSUME NEW g, NEW h, NEW T, GraphOk(g), Builds(g, h, T),
           NEW n, IsNewNode(h, n), NEW l \in DOMAIN h, NEW r \in DOMAIN h, n.inputs = << l, r >>,
           NEW m, IsNewNode(Attach(h, n), m), m.inputs = << Len(Attach(h, n)) >>
    PROVE  LET k == Attach(Attach(h, n), m)
           IN  /\ Builds(g, k, T \union {l, r})
               /\ LinksOk(h) => LinksOk(k)
  <1> DEFINE i == Attach(h, n)
             k == Attach(i, m)
  <1>0. GraphOk(h)
    BY DEF Builds
  <1>1. ToSet(n.inputs) = {l, r} /\ ToSet(m.inputs) = {Len(i)}
    BY TwoInputs, OneInput
  <1>2. Builds(h, i, {l, r}) /\ Len(i) = Len(h) + 1 /\ GraphOk(i) /\ (LinksOk(h) => LinksOk(i))
    BY <1>0, <1>1, Added
  <1> HIDE DEF i
  <1>3. Builds(i, k, {Len(i)}) /\ (LinksOk(i) => LinksOk(k))
    BY <1>1, <1>2, Added DEF i
  <1> HIDE DEF k
  <1>4. Len(g) \in Nat /\ Len(h) \in Nat /\ DOMAIN g = 1 .. Len(g) /\ Len(g) < Len(h)
    BY <1>0, GraphDomain DEF Builds
  <1>5. Builds(g, i, T \union {l, r})
    BY <1>2, BuildsTransitive
  <1>6. Builds(g, k, (T \union {l, r}) \union {Len(i)})
    BY <1>3, <1>5, BuildsTransitive
  <1>7. Builds(g, k, T \union {l, r})
    BY <1>2, <1>4, <1>6, BuildsMore
  <1>8. Builds(g, k, T \union {l, r}) /\ (LinksOk(h) => LinksOk(k))
    BY <1>2, <1>3, <1>7
  <1> QED
    BY <1>8 DEF k, i

LEMMA GroupBySideBuilds ==
    ASSUME NEW g, GraphOk(g), NEW o, NEW c \in DOMAIN g
    PROVE  LET h == GroupBySide(g, o, c)
           IN  /\ o.pos = << >> => h = g
               /\ o.pos # << >> => /\ Builds(g, h, {c}) /\ Len(h) = Len(g) + 1
                                   /\ LinksOk(g) /\ g[c].parents = << >> => LinksOk(h)
  <1> DEFINE names == [k \in DOMAIN o.pos |-> << "_P_SIDE_", 0, o.schema[k + 1][3], o.schema[k + 1][4] >>]
             all   == names \o ProvNames(g[c])
             proj  == Projection(g, c, o.pos \o g[c].provAttrs, all)
             attrs == IntSeq(Len(o.pos) + 1, Len(o.pos) + Len(g[c].provAttrs))
             n     == [proj EXCEPT !.provAttrs = attrs]
             h     == AttachAlone(g, n)
  <1>1. GroupBySide(g, o, c) = IF o.pos = << >> THEN g ELSE h
    BY DEF GroupBySide
  <1> HIDE DEF attrs, all
  <1>2. IsNewNode(g, proj) /\ proj.inputs = << c >>
    BY NewProjection
  <1> HIDE DEF proj
  <1>3. IsNewNode(g, n) /\ ToSet(n.inputs) = {c}
    BY <1>2, ChangedNode, OneInput
  <1> HIDE DEF n
  <1>4. /\ Builds(g, h, {c}) /\ Len(h) = Len(g) + 1
        /\ LinksOk(g) /\ g[c].parents = << >> => LinksOk(h)
    <2>1. /\ Builds(g, h, {c}) /\ Len(h) = Len(g) + 1
          /\ LinksOk(g) /\ (\A d \in {c} : g[d].parents = << >>) => LinksOk(h)
      BY <1>3, AddedAlone
    <2> HIDE DEF h
    <2> QED
      BY <2>1
  <1> HIDE DEF h
  <1> QED
    BY <1>1, <1>4

LEMMA AggregationBuilds ==
    ASSUME NEW g, GraphOk(g), NEW o, NEW ins, ins[1] \in DOMAIN g
    PROVE  LET h == rewriteAggregation(g, o, ins)
           IN  /\ Builds(g, h, {ins[1]})
               /\ LinksOk(g) /\ g[ins[1]].parents = << >> => LinksOk(h)
               /\ h[Len(h)].info = g[ins[1]].info
  <1> DEFINE notNull == query[o.in[1]].notNull
             nonNull == \A k \in DOMAIN o.pos : query[o.in[1]].schema[o.pos[k]] \in notNull
             side    == GroupBySide(g, o, ins[1])
             right   == IF o.pos = << >> THEN ins[1] ELSE Len(side)
             copied  == Attach(side, OpCopy(o))
             on      == On(IntSeq(2, Len(o.pos) + 1), IntSeq(1, Len(o.pos)), ~ nonNull)
             both    == Join(copied, AggJoinType(o), Len(copied), right, on)
             attrs   == [k \in DOMAIN side[right].provAttrs |->
                                       side[right].provAttrs[k] + Len(o.schema)]
             names   == makeNamesUnique(both.schema)
             join    == [both EXCEPT !.schema = names, !.provAttrs = attrs]
             joined  == Attach(copied, join)
             exprs   == IntSeq(1, Len(o.schema)) \o join.provAttrs
             pnames  == o.schema \o ProvNames(side[right])
             proj    == Projection(joined, Len(joined), exprs, pnames)
             pattrs  == IntSeq(Len(o.schema) + 1, Len(o.schema) + Len(join.provAttrs))
             top     == [proj EXCEPT !.provAttrs = pattrs]
             added   == Attach(joined, top)
             info    == g[ins[1]].info
             h       == WithInfo(added, info)
  <1>1. rewriteAggregation(g, o, ins) = h
    BY DEF rewriteAggregation
  <1> HIDE DEF on, attrs, exprs, pnames, pattrs
  <1>2. IsSeq(info)
    BY DEF GraphOk, IsNode
  <1>3. Len(g) \in Nat /\ DOMAIN g = 1 .. Len(g)
    BY GraphDomain
  <1>4. /\ GraphOk(side) /\ right \in DOMAIN side /\ DOMAIN g \subseteq DOMAIN side
        /\ right \in DOMAIN g => right = ins[1]
        /\ LinksOk(g) /\ g[ins[1]].parents = << >> => LinksOk(side)
        /\ o.pos # << >> => Builds(g, side, {ins[1]})
        /\ o.pos = << >> => side = g
    <2>1. CASE o.pos = << >>
      BY <2>1, GroupBySideBuilds
    <2>2. CASE o.pos # << >>
      <3>1. /\ Builds(g, side, {ins[1]}) /\ Len(side) = Len(g) + 1
            /\ LinksOk(g) /\ g[ins[1]].parents = << >> => LinksOk(side)
        BY <2>2, GroupBySideBuilds
      <3> HIDE DEF side
      <3>2. GraphOk(side) /\ DOMAIN side = 1 .. Len(side)
        BY <3>1, GraphDomain DEF Builds
      <3>3. right = Len(side)
        BY <2>2
      <3> HIDE DEF right
      <3> QED
        BY <1>3, <2>2, <3>1, <3>2, <3>3
    <2> QED
      BY <2>1, <2>2
  <1> HIDE DEF side, right
  <1>5. IsNewNode(side, OpCopy(o)) /\ ToSet(OpCopy(o).inputs) = {}
    BY NewCopy
  <1>6. /\ Builds(side, copied, {}) /\ Len(copied) = Len(side) + 1 /\ GraphOk(copied)
        /\ DOMAIN side \subseteq DOMAIN copied
        /\ LinksOk(side) => LinksOk(copied)
    BY <1>4, <1>5, Added
  <1> HIDE DEF copied
  <1>7. Builds(g, copied, {ins[1]})
    <2>1. CASE o.pos = << >>
      BY <1>4, <1>6, <2>1, BuildsMore
    <2>2. CASE o.pos # << >>
      BY <1>4, <1>6, <2>2, BuildsTransitive, BuildsMore
    <2> QED
      BY <2>1, <2>2
  <1>8. Len(copied) \in DOMAIN copied /\ right \in DOMAIN copied /\ Len(copied) \notin DOMAIN g
    <2>1. Len(g) < Len(copied) /\ Len(copied) \in DOMAIN copied
      BY <1>7 DEF Builds
    <2> QED
      BY <1>3, <1>4, <1>6, <2>1
  <1>9. IsNewNode(copied, both) /\ both.inputs = << Len(copied), right >>
    BY <1>8, NewJoin, SMTT(30)
  <1> HIDE DEF names, both
  <1>10. IsNewNode(copied, join) /\ join.inputs = << Len(copied), right >>
    BY <1>9 DEF IsNewNode, NodeFields
  <1> HIDE DEF join
  <1>11. Len(joined) \in DOMAIN joined
    <2>1. ToSet(join.inputs) = {Len(copied), right}
      BY <1>10, TwoInputs
    <2>2. Builds(copied, joined, {Len(copied), right})
      BY <1>6, <1>10, <2>1, Added
    <2> QED
      BY <2>2 DEF Builds
  <1>12. IsNewNode(joined, proj) /\ proj.inputs = << Len(joined) >>
    <2> HIDE DEF joined
    <2> QED
      BY <1>11, NewProjection
  <1> HIDE DEF proj
  <1>13. IsNewNode(joined, top) /\ top.inputs = << Len(joined) >>
    <2> HIDE DEF joined
    <2> QED
      BY <1>12, ChangedNode
  <1> HIDE DEF top
  <1>14. /\ Builds(g, added, {ins[1]} \union {Len(copied), right})
         /\ LinksOk(copied) => LinksOk(added)
    BY <1>7, <1>8, <1>10, <1>13, TwoAdded
  <1> HIDE DEF joined, added
  <1>15. Builds(g, added, {ins[1]})
    BY <1>4, <1>8, <1>14, BuildsMore
  <1> HIDE DEF info
  <1>16. /\ Builds(g, h, {ins[1]}) /\ h[Len(h)].info = info
         /\ LinksOk(added) => LinksOk(h)
    BY <1>2, <1>15, WithInfoBuilds
  <1> HIDE DEF h
  <1> QED
    BY <1>1, <1>4, <1>6, <1>14, <1>16 DEF info

LEMMA UnionBuilds ==
    ASSUME NEW g, GraphOk(g), NEW o, NEW ins, ins[1] \in DOMAIN g, ins[2] \in DOMAIN g
    PROVE  LET h == rewriteUnion(g, o, ins)
           IN  /\ Builds(g, h, {ins[1], ins[2]})
               /\ LinksOk(g) /\ ins[1] # ins[2] /\ g[ins[1]].parents = << >>
                    /\ g[ins[2]].parents = << >> => LinksOk(h)
  <1> DEFINE l  == g[ins[1]]
             r  == g[ins[2]]
             nl == Len(l.provAttrs)
             nr == Len(r.provAttrs)
             n  == Len(NormalPos(r))
             exprL == IntSeq(1, Len(l.schema)) \o Nulls(nr)
             namesL == l.schema \o ProvNames(r)
             attrsL == l.provAttrs \o IntSeq(Len(l.schema) + 1, Len(l.schema) + nr)
             baseL == Projection(g, ins[1], exprL, namesL)
             projL == [baseL EXCEPT !.provAttrs = attrsL]
             gl == AttachAlone(g, projL)
             exprR == IntSeq(1, n) \o Nulls(nl) \o IntSeq(n + 1, n + nr)
             namesR == NormalNames(r) \o ProvNames(l) \o ProvNames(r)
             attrsR == IntSeq(n + 1, n + nl + nr)
             baseR == Projection(gl, ins[2], exprR, namesR)
             projR == [baseR EXCEPT !.provAttrs = attrsR]
             gr == AttachAlone(gl, projR)
             width == projL.width
             rel == gr[Len(gl)].rel \o gr[Len(gr)].rel
             union == Node("Set", << Len(gl), Len(gr) >>, o.schema, width, rel)
             top == addProvenanceAttrsToSchema(union, gr[Len(gl)])
             h == Attach(gr, top)
  <1>1. rewriteUnion(g, o, ins) = h
    BY DEF rewriteUnion
  <1> HIDE DEF exprL, namesL, attrsL, exprR, namesR, attrsR
  <1>2. IsNewNode(g, baseL) /\ baseL.inputs = << ins[1] >>
    BY NewProjection
  <1> HIDE DEF baseL
  <1>3. IsNewNode(g, projL) /\ ToSet(projL.inputs) = {ins[1]}
    <2>1. IsNewNode(g, projL) /\ projL.inputs = << ins[1] >>
      BY <1>2, ChangedNode
    <2> HIDE DEF projL
    <2> QED
      BY <2>1, OneInput
  <1> HIDE DEF width
  <1> HIDE DEF projL
  <1>4. /\ Builds(g, gl, {ins[1]}) /\ Len(gl) = Len(g) + 1 /\ GraphOk(gl)
        /\ DOMAIN g \subseteq DOMAIN gl
        /\ LinksOk(g) /\ (\A c \in {ins[1]} : g[c].parents = << >>) => LinksOk(gl)
    BY <1>3, AddedAlone
  <1> HIDE DEF gl
  <1>5. IsNewNode(gl, baseR) /\ baseR.inputs = << ins[2] >>
    <2>1. ins[2] \in DOMAIN gl
      BY <1>4
    <2> QED
      BY <2>1, NewProjection
  <1> HIDE DEF baseR
  <1>6. IsNewNode(gl, projR) /\ ToSet(projR.inputs) = {ins[2]}
    <2>1. IsNewNode(gl, projR) /\ projR.inputs = << ins[2] >>
      BY <1>5, ChangedNode
    <2> HIDE DEF projR
    <2> QED
      BY <2>1, OneInput
  <1> HIDE DEF projR
  <1>7. /\ Builds(gl, gr, {ins[2]}) /\ Len(gr) = Len(gl) + 1 /\ GraphOk(gr)
        /\ DOMAIN gl \subseteq DOMAIN gr
        /\ LinksOk(gl) /\ (\A c \in {ins[2]} : gl[c].parents = << >>) => LinksOk(gr)
    BY <1>4, <1>6, AddedAlone
  <1> HIDE DEF gr
  <1>8. /\ Len(gl) \in DOMAIN gr /\ Len(gr) \in DOMAIN gr
        /\ Len(gl) \notin DOMAIN g /\ Len(gr) \notin DOMAIN g
    BY <1>4, <1>7, GraphDomain
  <1>9. ins[1] # ins[2] /\ g[ins[2]].parents = << >> => gl[ins[2]].parents = << >>
    BY <1>4 DEF Builds, Extends
  <1>10. IsNewNode(gr, union) /\ union.inputs = << Len(gl), Len(gr) >>
    <2>1. IsSeq(<< Len(gl), Len(gr) >>) /\ ToSet(<< Len(gl), Len(gr) >>) \subseteq DOMAIN gr
      BY <1>8, TwoInputs
    <2> HIDE DEF rel
    <2> QED
      BY <2>1, NewNodes
  <1> HIDE DEF union
  <1>11. IsNewNode(gr, top) /\ ToSet(top.inputs) = {Len(gl), Len(gr)}
    <2>1. IsNewNode(gr, top) /\ top.inputs = << Len(gl), Len(gr) >>
      BY <1>10, AddedAttrsNode
    <2> HIDE DEF top
    <2> QED
      BY <2>1, TwoInputs
  <1> HIDE DEF top
  <1>12. /\ Builds(gr, h, {Len(gl), Len(gr)})
         /\ LinksOk(gr) => LinksOk(h)
    BY <1>7, <1>11, Added
  <1> HIDE DEF h
  <1>13. Builds(g, gr, {ins[1]} \union {ins[2]})
    BY <1>4, <1>7, BuildsTransitive
  <1>14. Builds(g, h, ({ins[1]} \union {ins[2]}) \union {Len(gl), Len(gr)})
    BY <1>12, <1>13, BuildsTransitive
  <1>15. Builds(g, h, {ins[1], ins[2]})
    BY <1>8, <1>14, BuildsMore
  <1> QED
    BY <1>1, <1>4, <1>7, <1>9, <1>12, <1>15

LEMMA DifferenceBuilds ==
    ASSUME NEW g, GraphOk(g), NEW o, NEW ins, ins[1] \in DOMAIN g, ins[2] \in DOMAIN g
    PROVE  LET h == rewriteDifference(g, o, ins)
           IN  /\ Builds(g, h, {ins[1]})
               /\ LinksOk(g) /\ g[ins[1]].parents = << >> => LinksOk(h)
  <1> DEFINE l      == g[ins[1]]
             r      == g[ins[2]]
             n      == Len(o.schema)
             copied == Attach(g, OpCopy(o))
             on     == On(NormalPos(l), NormalPos(l), TRUE)
             both   == Join(copied, "INNER", Len(copied), ins[1], on)
             names  == makeNamesUnique(both.schema)
             attrs  == [k \in DOMAIN l.provAttrs |-> l.provAttrs[k] + n]
             join   == [both EXCEPT !.schema = names, !.provAttrs = attrs]
             joined == AttachAlone(copied, join)
             exprs  == IntSeq(1, n) \o join.provAttrs \o Nulls(Len(r.provAttrs))
             proj   == Projection(joined, Len(joined), exprs, o.schema)
             pl     == addProvenanceAttrsToSchema(proj, join)
             top    == addProvenanceAttrsToSchema(pl, r)
             h      == Attach(joined, top)
  <1>1. rewriteDifference(g, o, ins) = h
    BY DEF rewriteDifference
  <1> HIDE DEF on, attrs, exprs
  <1>2. IsNewNode(g, OpCopy(o)) /\ ToSet(OpCopy(o).inputs) = {}
    BY NewCopy
  <1>3. /\ Builds(g, copied, {}) /\ Len(copied) = Len(g) + 1 /\ GraphOk(copied)
        /\ DOMAIN g \subseteq DOMAIN copied
        /\ LinksOk(g) => LinksOk(copied)
    BY <1>2, Added
  <1> HIDE DEF copied
  <1>4. Len(copied) \in DOMAIN copied /\ ins[1] \in DOMAIN copied /\ Len(copied) \notin DOMAIN g
    BY <1>3, GraphDomain
  <1>5. IsNewNode(copied, both) /\ both.inputs = << Len(copied), ins[1] >>
    BY <1>4, NewJoin
  <1> HIDE DEF names, both
  <1>6. IsNewNode(copied, join) /\ ToSet(join.inputs) = {Len(copied), ins[1]}
    <2>1. IsNewNode(copied, join) /\ join.inputs = << Len(copied), ins[1] >>
      BY <1>5 DEF IsNewNode, NodeFields
    <2> HIDE DEF join
    <2> QED
      BY <2>1, TwoInputs
  <1> HIDE DEF join
  <1>7. /\ Builds(copied, joined, {Len(copied), ins[1]}) /\ Len(joined) = Len(copied) + 1
        /\ GraphOk(joined)
        /\ LinksOk(copied) /\ (\A c \in {Len(copied), ins[1]} : copied[c].parents = << >>)
             => LinksOk(joined)
    BY <1>3, <1>6, AddedAlone
  <1> HIDE DEF joined
  <1>8. copied[Len(copied)].parents = << >> /\ copied[ins[1]].parents = g[ins[1]].parents
    BY <1>3 DEF Builds, Extends
  <1>9. Len(joined) \in DOMAIN joined /\ Len(joined) \notin DOMAIN g
    BY <1>3, <1>7, GraphDomain
  <1>10. IsNewNode(joined, proj) /\ proj.inputs = << Len(joined) >>
    BY <1>9, NewProjection
  <1> HIDE DEF proj
  <1>11. IsNewNode(joined, pl) /\ pl.inputs = << Len(joined) >>
    BY <1>10, AddedAttrsNode
  <1> HIDE DEF pl
  <1>12. IsNewNode(joined, top) /\ top.inputs = << Len(joined) >>
    BY <1>11, AddedAttrsNode
  <1> HIDE DEF top
  <1>13. ToSet(top.inputs) = {Len(joined)}
    BY <1>12, OneInput
  <1>14. Builds(joined, h, {Len(joined)}) /\ (LinksOk(joined) => LinksOk(h))
    BY <1>7, <1>12, <1>13, Added
  <1> HIDE DEF h
  <1>15. Builds(g, joined, {} \union {Len(copied), ins[1]})
    BY <1>3, <1>7, BuildsTransitive
  <1>16. Builds(g, h, ({} \union {Len(copied), ins[1]}) \union {Len(joined)})
    BY <1>14, <1>15, BuildsTransitive
  <1>17. Builds(g, h, {ins[1]})
    BY <1>4, <1>9, <1>16, BuildsMore
  <1> QED
    BY <1>1, <1>3, <1>7, <1>8, <1>14, <1>17

LEMMA SetBuilds ==
    ASSUME NEW g, GraphOk(g), NEW o, o.how \in SetOps,
           NEW ins, ins[1] \in DOMAIN g, ins[2] \in DOMAIN g
    PROVE  LET h == rewriteSet(g, o, ins)
           IN  /\ Builds(g, h, {ins[1], ins[2]})
               /\ /\ LinksOk(g)
                  /\ o.how \in {"UNION", "DIFFERENCE"} =>
                       ins[1] # ins[2] /\ g[ins[1]].parents = << >> /\ g[ins[2]].parents = << >>
                  => LinksOk(h)
               /\ h[Len(h)].info = g[ins[1]].info \o g[ins[2]].info
  <1> DEFINE info == g[ins[1]].info \o g[ins[2]].info
             fresh == o.how \in {"UNION", "DIFFERENCE"} =>
                        ins[1] # ins[2] /\ g[ins[1]].parents = << >> /\ g[ins[2]].parents = << >>
  <1>1. PICK k : k = CASE o.how = "UNION"        -> rewriteUnion(g, o, ins)
                       [] o.how = "INTERSECTION" -> rewriteIntersection(g, o, ins)
                       [] o.how = "DIFFERENCE"   -> rewriteDifference(g, o, ins)
    OBVIOUS
  <1>2. rewriteSet(g, o, ins) = WithInfo(k, info)
    BY <1>1 DEF rewriteSet
  <1>3. IsSeq(info)
    BY ConcatSeq DEF GraphOk, IsNode
  <1> HIDE DEF info
  <1>4. Builds(g, k, {ins[1], ins[2]}) /\ (LinksOk(g) /\ fresh => LinksOk(k))
    <2>1. CASE o.how = "UNION"
      <3>1. k = rewriteUnion(g, o, ins)
        BY <1>1, <2>1
      <3> QED
        BY <2>1, <3>1, UnionBuilds
    <2>2. CASE o.how = "INTERSECTION"
      <3>1. k = rewriteIntersection(g, o, ins)
        BY <1>1, <2>2
      <3> QED
        BY <3>1, IntersectionBuilds
    <2>3. CASE o.how = "DIFFERENCE"
      <3>1. k = rewriteDifference(g, o, ins)
        BY <1>1, <2>3
      <3>2. Builds(g, k, {ins[1]}) /\ (LinksOk(g) /\ g[ins[1]].parents = << >> => LinksOk(k))
        BY <3>1, DifferenceBuilds
      <3>3. Builds(g, k, {ins[1], ins[2]})
        BY <3>2, BuildsMore
      <3> QED
        BY <2>3, <3>2, <3>3
    <2> QED
      BY <2>1, <2>2, <2>3 DEF SetOps
  <1> DEFINE h == WithInfo(k, info)
  <1>5. /\ Builds(g, h, {ins[1], ins[2]}) /\ h[Len(h)].info = info
        /\ LinksOk(k) => LinksOk(h)
    BY <1>3, <1>4, WithInfoBuilds
  <1> HIDE DEF h
  <1> QED
    BY <1>2, <1>4, <1>5 DEF info, h

LEMMA LimitBuilds ==
    ASSUME NEW g, GraphOk(g), NEW o, NEW ins, ins[1] \in DOMAIN g
    PROVE  LET h == rewriteLimit(g, o, ins)
           IN  Builds(g, h, {ins[1]}) /\ (LinksOk(g) => LinksOk(h))
  <1> DEFINE c       == g[ins[1]]
             copied  == Attach(g, OpCopy(o))
             renamed == [k \in DOMAIN o.schema |->
                           << "__", o.schema[k][2], o.schema[k][3], o.schema[k][4] >>]
             all     == IntSeq(1, Len(o.schema))
             on      == On(all, all, FALSE)
             both    == Join(copied, "INNER", Len(copied), ins[1], on)
             names   == o.schema \o renamed \o ProvNames(c)
             join    == [both EXCEPT !.schema = names]
             joined  == Attach(copied, join)
             proj    == createProjOnAttrsByName(joined, Len(joined), c.schema, c.schema)
             attrs   == c.provAttrs
             top     == [proj EXCEPT !.provAttrs = attrs]
             h       == Attach(joined, top)
  <1>1. rewriteLimit(g, o, ins) = h
    BY DEF rewriteLimit
  <1> HIDE DEF on, names, attrs
  <1>2. IsNewNode(g, OpCopy(o)) /\ ToSet(OpCopy(o).inputs) = {}
    BY NewCopy
  <1>3. /\ Builds(g, copied, {}) /\ Len(copied) = Len(g) + 1 /\ GraphOk(copied)
        /\ DOMAIN g \subseteq DOMAIN copied
        /\ LinksOk(g) => LinksOk(copied)
    BY <1>2, Added
  <1> HIDE DEF copied
  <1>4. Len(copied) \in DOMAIN copied /\ ins[1] \in DOMAIN copied /\ Len(copied) \notin DOMAIN g
    BY <1>3, GraphDomain
  <1>5. IsNewNode(copied, both) /\ both.inputs = << Len(copied), ins[1] >>
    <2>1. Len(copied) \in DOMAIN copied /\ ins[1] \in DOMAIN copied
      BY <1>4
    <2> HIDE DEF all
    <2> QED
      BY <2>1, NewJoin
  <1> HIDE DEF both
  <1>6. IsNewNode(copied, join) /\ join.inputs = << Len(copied), ins[1] >>
    BY <1>5, ChangedNode
  <1> HIDE DEF join
  <1>7. Len(joined) \in DOMAIN joined
    <2>1. ToSet(join.inputs) = {Len(copied), ins[1]}
      BY <1>6, TwoInputs
    <2>2. Builds(copied, joined, {Len(copied), ins[1]})
      BY <1>3, <1>6, <2>1, Added
    <2> QED
      BY <2>2 DEF Builds
  <1>8. IsNewNode(joined, proj) /\ proj.inputs = << Len(joined) >>
    <2> HIDE DEF joined
    <2> QED
      BY <1>7, NewProjByName
  <1> HIDE DEF proj
  <1>9. IsNewNode(joined, top) /\ top.inputs = << Len(joined) >>
    <2> HIDE DEF joined
    <2> QED
      BY <1>8, ChangedNode
  <1> HIDE DEF top
  <1>10. /\ Builds(g, h, {} \union {Len(copied), ins[1]})
         /\ LinksOk(copied) => LinksOk(h)
    BY <1>3, <1>4, <1>6, <1>9, TwoAdded
  <1> HIDE DEF joined, h
  <1>11. Builds(g, h, {ins[1]})
    BY <1>4, <1>10, BuildsMore
  <1> QED
    BY <1>1, <1>3, <1>10, <1>11

-----------------------------------------------------------------------------
(***************************************************************************)
(* The query grows                                                         *)
(***************************************************************************)
LEMMA ArityFacts ==
    ASSUME NEW type
    PROVE  /\ type \in Leaves => Arity(type) = 0
           /\ type \in Unary => Arity(type) = 1 /\ type \notin {"Set", "Join"} /\ type \notin Leaves
           /\ type \in {"Set", "Join"} => Arity(type) = 2
           /\ type \in OpTypes => type \in Leaves \/ type \in Unary \/ type \in {"Set", "Join"}
           /\ {"Selection", "Projection", "Aggregation",
               "DuplicateRemoval", "Order", "Limit"} \subseteq Unary
  BY DEF Leaves, Unary, Arity, OpTypes

LEMMA OperatorFacts ==
    ASSUME NEW q, QueryOk(q), NEW i \in DOMAIN q
    PROVE  /\ IsSeq(q) /\ Len(q) \in Nat /\ DOMAIN q = 1 .. Len(q) /\ i \in Nat
           /\ OperatorOk(q, i)
           /\ \A j \in DOMAIN q[i].in : q[i].in[j] \in DOMAIN q /\ q[i].in[j] < i
           /\ q[i].core \in DOMAIN q /\ q[i].below \subseteq DOMAIN q
           /\ IsSeq(q[i].in) /\ DOMAIN q[i].in = 1 .. Len(q[i].in)
           /\ q[i].type \in OpTypes /\ Len(q[i].in) = Arity(q[i].type)
           /\ q[i].type \in {"Set", "Join"} => DOMAIN q[i].in = 1 .. 2
           /\ q[i].type \in Unary => DOMAIN q[i].in = 1 .. 1
  <1>1. IsSeq(q) /\ Len(q) \in Nat /\ DOMAIN q = 1 .. Len(q) /\ OperatorOk(q, i)
    BY SeqDomain DEF QueryOk
  <1>2. q[i].in \in Seq(1 .. i - 1) /\ q[i].below \subseteq 1 .. i /\ q[i].core \in 1 .. i
    BY <1>1 DEF OperatorOk
  <1>3. \A j \in DOMAIN q[i].in : q[i].in[j] \in 1 .. i - 1
    <2> DEFINE s == q[i].in
               S == 1 .. i - 1
    <2>1. s \in Seq(S)
      BY <1>2
    <2> HIDE DEF s, S
    <2>2. DOMAIN s = 1 .. Len(s) /\ \A j \in 1 .. Len(s) : s[j] \in S
      BY <2>1, SeqIsSeq
    <2> QED
      BY <2>2 DEF s, S
  <1>4. /\ q[i].type \in OpTypes /\ Len(q[i].in) = Arity(q[i].type)
        /\ IsSeq(q[i].in) /\ DOMAIN q[i].in = 1 .. Len(q[i].in)
        /\ q[i].type \in {"Set", "Join"} => DOMAIN q[i].in = 1 .. 2
        /\ q[i].type \in Unary => DOMAIN q[i].in = 1 .. 1
    <2>1. Len(q[i].in) = Arity(q[i].type) /\ q[i].type \in OpTypes
      BY <1>1 DEF OperatorOk
    <2>2. IsSeq(q[i].in) /\ DOMAIN q[i].in = 1 .. Len(q[i].in)
      BY <1>2, SeqIsSeq
    <2> QED
      BY <2>1, <2>2, ArityFacts
  <1> QED
    BY <1>1, <1>2, <1>3, <1>4

\* An operator does not change when others are added after it.
LEMMA OperatorKept ==
    ASSUME NEW q, QueryOk(q), NEW r, \A i \in DOMAIN q : r[i] = q[i], NEW i \in DOMAIN q
    PROVE  OperatorOk(r, i)
  <1>1. /\ OperatorOk(q, i) /\ r[i] = q[i]
        /\ \A j \in DOMAIN q[i].in : q[i].in[j] \in DOMAIN q
        /\ q[i].core \in DOMAIN q /\ q[i].below \subseteq DOMAIN q
        /\ q[i].type \in {"Set", "Join"} => DOMAIN q[i].in = 1 .. 2
    BY OperatorFacts
  <1>2. \A k \in DOMAIN q : q[k].core \in DOMAIN q /\ q[k].below \subseteq DOMAIN q
    BY OperatorFacts
  <1>3. InScope(r, q[i])
    <2>1. InScope(q, q[i])
      BY <1>1 DEF OperatorOk
    <2>2. PICK o : o = q[i]
      OBVIOUS
    <2> QED
      BY <1>1, <1>2, <2>1, <2>2, InScopeOfPrefix
  <1>4. q[i].type = "DuplicateRemoval" => 1 \in DOMAIN q[i].in
    <2>1. q[i].type \in Unary => DOMAIN q[i].in = 1 .. 1
      BY OperatorFacts
    <2> QED
      BY <2>1, ArityFacts
  <1>5. r[i].core = IF r[i].type = "DuplicateRemoval" THEN r[r[i].in[1]].core ELSE i
    BY <1>1, <1>4 DEF OperatorOk
  <1>6. \A k \in r[i].below : r[k].below \subseteq r[i].below
    BY <1>1 DEF OperatorOk
  <1>7. \A j \in DOMAIN r[i].in : r[r[i].in[j]].below \subseteq r[i].below
    BY <1>1 DEF OperatorOk
  <1>8. r[i].core \in 1 .. i /\ r[r[i].core].type # "DuplicateRemoval"
    BY <1>1 DEF OperatorOk
  <1> QED
    BY <1>1, <1>3, <1>5, <1>6, <1>7, <1>8 DEF OperatorOk

LEMMA CompleteFields ==
    ASSUME NEW q, NEW o, NEW d
    PROVE  LET c == Complete(q, o, d)
           IN  /\ c.type = o.type /\ c.how = o.how /\ c.in = o.in /\ c.pos = o.pos
               /\ c.rightWidth = o.rightWidth
               /\ c.below = {Len(q) + 1} \union UNION {q[o.in[k]].below : k \in DOMAIN o.in}
               /\ c.core = IF o.type = "DuplicateRemoval" THEN q[o.in[1]].core ELSE Len(q) + 1
  BY DEF Complete

LEMMA NewOperatorOk ==
    ASSUME NEW q, QueryOk(q), NEW o \in NewOperators(q), InScope(q, o), NEW d
    PROVE  QueryOk(Append(q, Complete(q, o, d)))
  <1> DEFINE c == Complete(q, o, d)
             r == Append(q, c)
             new == Len(q) + 1
  <1>1. /\ IsSeq(r) /\ Len(r) = new /\ DOMAIN r = 1 .. new
        /\ \A k \in 1 .. Len(q) : r[k] = q[k]
        /\ r[new] = c
        /\ Len(q) \in Nat /\ DOMAIN q = 1 .. Len(q)
    BY AppendAny, SeqDomain DEF QueryOk
  <1>2. /\ c.type = o.type /\ c.how = o.how /\ c.in = o.in
        /\ c.below = {new} \union UNION {q[o.in[k]].below : k \in DOMAIN o.in}
        /\ c.core = IF o.type = "DuplicateRemoval" THEN q[o.in[1]].core ELSE new
    BY CompleteFields
  <1>3. /\ o.type \in OpTypes
        /\ o.in \in Seq(DOMAIN q) /\ Len(o.in) = Arity(o.type)
        /\ o.type = "TableAccess" => o.how \in Tables
        /\ o.type = "Join" => o.how \in JoinTypes
        /\ o.type = "Set" => o.how \in SetOps
        /\ o.type \in Unary \union {"ConstRel"} => o.how = ""
    BY NewOperatorFields DEF QueryOk
  <1> HIDE DEF c, r
  <1>4. /\ DOMAIN o.in = 1 .. Len(o.in)
        /\ \A k \in DOMAIN o.in : o.in[k] \in DOMAIN q
    BY <1>3, SeqIsSeq
  <1>5. \A k \in DOMAIN q : OperatorOk(r, k)
    BY <1>1, OperatorKept
  <1>6. \A k \in DOMAIN q : /\ q[k].core \in DOMAIN q /\ q[k].below \subseteq DOMAIN q
                            /\ k \in q[k].below
                            /\ \A j \in q[k].below : q[j].below \subseteq q[k].below
                            /\ q[q[k].core].type # "DuplicateRemoval"
    BY OperatorFacts DEF OperatorOk
  <1>7. InScope(r, c)
    <2>1. o.type \in {"Set", "Join"} => 1 \in DOMAIN o.in /\ 2 \in DOMAIN o.in
      <3>1. o.type \in {"Set", "Join"} => DOMAIN o.in = 1 .. 2
        BY <1>3, <1>4, ArityFacts
      <3> QED
        BY <3>1
    <2> QED
      BY <1>1, <1>2, <1>4, <1>6, <2>1, InScopeOfPrefix, SMTT(30)
  <1>8. c.in \in Seq(1 .. new - 1) /\ Len(c.in) = Arity(c.type)
    <2>1. 1 .. new - 1 = DOMAIN q
      BY <1>1
    <2> QED
      BY <1>2, <1>3, <2>1
  <1>9. /\ c.below \subseteq 1 .. new /\ new \in c.below
        /\ \A k \in c.below : r[k].below \subseteq c.below
        /\ \A j \in DOMAIN c.in : r[c.in[j]].below \subseteq c.below
    <2>1. \A k \in DOMAIN o.in : q[o.in[k]].below \subseteq c.below
      BY <1>2
    <2>2. \A k \in c.below : k = new \/ \E j \in DOMAIN o.in : k \in q[o.in[j]].below
      BY <1>2
    <2>3. c.below \subseteq 1 .. new /\ new \in c.below
      BY <1>1, <1>2, <1>4, <1>6, <2>2
    <2>4. ASSUME NEW k \in c.below PROVE r[k].below \subseteq c.below
      <3>1. CASE k = new
        BY <1>1, <3>1
      <3>2. ASSUME NEW j \in DOMAIN o.in, k \in q[o.in[j]].below
            PROVE  r[k].below \subseteq c.below
        <4>1. k \in DOMAIN q /\ q[k].below \subseteq q[o.in[j]].below
          BY <1>4, <1>6, <3>2
        <4> QED
          BY <1>1, <2>1, <4>1
      <3> QED
        BY <2>2, <3>1, <3>2
    <2>5. \A j \in DOMAIN c.in : r[c.in[j]].below \subseteq c.below
      BY <1>1, <1>2, <1>4, <2>1
    <2> QED
      BY <2>3, <2>4, <2>5
  <1>10. /\ c.core = IF c.type = "DuplicateRemoval" THEN r[c.in[1]].core ELSE new
         /\ c.core \in 1 .. new /\ r[c.core].type # "DuplicateRemoval"
    <2>1. CASE c.type = "DuplicateRemoval"
      <3>1. 1 \in DOMAIN o.in
        <4>1. DOMAIN o.in = 1 .. 1
          BY <1>2, <1>3, <1>4, <2>1, ArityFacts
        <4> QED
          BY <4>1
      <3>2. o.in[1] \in DOMAIN q
        BY <1>4, <3>1
      <3> QED
        BY <1>1, <1>2, <1>6, <2>1, <3>2
    <2>2. CASE c.type # "DuplicateRemoval"
      BY <1>1, <1>2, <2>2
    <2> QED
      BY <2>1, <2>2
  <1>11. OperatorOk(r, new)
    BY <1>1, <1>2, <1>3, <1>7, <1>8, <1>9, <1>10 DEF OperatorOk
  <1>12. QueryOk(r)
    <2>1. \A k \in DOMAIN r : k \in DOMAIN q \/ k = new
      BY <1>1
    <2> QED
      BY <1>1, <1>5, <1>11, <2>1 DEF QueryOk
  <1> QED
    BY <1>12 DEF r, c

-----------------------------------------------------------------------------
(***************************************************************************)
(* The calls                                                               *)
(***************************************************************************)
Frames == [op : DOMAIN query, ins : Seq(DOMAIN graph)]

LEMMA FrameFacts ==
    ASSUME ControlInv, NEW k \in DOMAIN stack
    PROVE  /\ Len(stack) \in Nat /\ DOMAIN stack = 1 .. Len(stack) /\ stack # << >>
           /\ stack[k] \in Frames /\ DOMAIN stack[k] = {"op", "ins"}
           /\ stack[k].op \in DOMAIN query
           /\ stack[k].ins \in Seq(DOMAIN graph) /\ IsSeq(stack[k].ins)
           /\ Len(stack[k].ins) \in Nat /\ DOMAIN stack[k].ins = 1 .. Len(stack[k].ins)
           /\ \A j \in DOMAIN stack[k].ins : stack[k].ins[j] \in DOMAIN graph
           /\ Len(stack[k].ins) <= Len(query[stack[k].op].in)
           /\ k < Len(stack) => /\ Len(stack[k].ins) < Len(query[stack[k].op].in)
                                /\ stack[k + 1].op = NextIn(k)
  <1>1. stack \in Seq(Frames) /\ FrameOk(k)
    BY DEF ControlInv, Frames
  <1>2. Len(stack) \in Nat /\ DOMAIN stack = 1 .. Len(stack) /\ stack[k] \in Frames
    BY <1>1, SeqIsSeq
  <1>3. /\ DOMAIN stack[k] = {"op", "ins"} /\ stack[k].op \in DOMAIN query
        /\ stack[k].ins \in Seq(DOMAIN graph)
    BY <1>2 DEF Frames
  <1>4. /\ IsSeq(stack[k].ins) /\ Len(stack[k].ins) \in Nat
        /\ DOMAIN stack[k].ins = 1 .. Len(stack[k].ins)
        /\ \A j \in DOMAIN stack[k].ins : stack[k].ins[j] \in DOMAIN graph
    <2> PICK s : s = stack[k].ins
      OBVIOUS
    <2>1. s \in Seq(DOMAIN graph)
      BY <1>3
    <2> QED
      BY <2>1, SeqIsSeq
  <1>5. stack # << >>
    BY <1>2
  <1> QED
    BY <1>1, <1>2, <1>3, <1>4, <1>5 DEF FrameOk, NextIn

LEMMA TopFacts ==
    ASSUME ControlInv, phase = "rewrite"
    PROVE  /\ Len(stack) \in DOMAIN stack /\ Len(stack) \in Nat /\ DOMAIN stack = 1 .. Len(stack)
           /\ stack # << >> /\ Len(stack) >= 1
           /\ Top = stack[Len(stack)] /\ Top.op \in DOMAIN query /\ Op = query[Top.op]
           /\ Len(Top.ins) \in Nat /\ Len(Op.in) \in Nat
           /\ DOMAIN Top.ins = 1 .. Len(Top.ins) /\ DOMAIN Op.in = 1 .. Len(Op.in)
           /\ \A j \in DOMAIN Top.ins : Top.ins[j] \in DOMAIN graph
           /\ HasInputsLeft => /\ Len(Top.ins) + 1 \in DOMAIN Op.in
                               /\ NextInput = NextIn(Len(stack))
                               /\ NextInput \in DOMAIN query
  <1>1. stack \in Seq(Frames) /\ stack # << >> /\ QueryOk(query)
    BY DEF ControlInv, Frames
  <1>2. Len(stack) \in DOMAIN stack /\ Len(stack) \in Nat /\ DOMAIN stack = 1 .. Len(stack)
        /\ Len(stack) >= 1
    <2> HIDE DEF Frames
    <2> QED
      BY <1>1
  <1>3. /\ Top.op \in DOMAIN query /\ Len(Top.ins) \in Nat /\ DOMAIN Top.ins = 1 .. Len(Top.ins)
        /\ \A j \in DOMAIN Top.ins : Top.ins[j] \in DOMAIN graph
    BY <1>2, FrameFacts DEF Top
  <1>4. /\ IsSeq(Op.in) /\ DOMAIN Op.in = 1 .. Len(Op.in) /\ Len(Op.in) \in Nat
        /\ \A j \in DOMAIN Op.in : Op.in[j] \in DOMAIN query
    BY <1>1, <1>3, OperatorFacts, SeqDomain DEF Op
  <1>5. HasInputsLeft => Len(Top.ins) + 1 \in DOMAIN Op.in
    BY <1>3, <1>4 DEF HasInputsLeft
  <1> QED
    BY <1>1, <1>2, <1>3, <1>4, <1>5 DEF Top, Op, NextInput, NextIn

LEMMA BindingCases ==
    ASSUME NEW b
    PROVE  b \in Bindings <=>
             \/ \E i \in RewrittenOps : b = << i, opToRewrittenOp[i] >>
             \/ \E k \in DOMAIN stack : \E j \in DOMAIN stack[k].ins :
                  b = << query[stack[k].op].in[j], stack[k].ins[j] >>
  <1> DEFINE P(k, j) == << query[stack[k].op].in[j], stack[k].ins[j] >>
             R(i) == << i, opToRewrittenOp[i] >>
  <1>1. Bindings = {R(i) : i \in RewrittenOps}
                     \union (UNION {{P(k, j) : j \in DOMAIN stack[k].ins} : k \in DOMAIN stack})
    BY DEF Bindings
  <1> HIDE DEF P, R
  <1>2. b \in Bindings <=>
             \/ \E i \in RewrittenOps : b = R(i)
             \/ \E k \in DOMAIN stack : \E j \in DOMAIN stack[k].ins : b = P(k, j)
    BY <1>1
  <1> QED
    BY <1>2 DEF P, R

LEMMA BindingCasesNext ==
    ASSUME NEW b
    PROVE  b \in Bindings' <=>
             \/ \E i \in RewrittenOps' : b = << i, opToRewrittenOp'[i] >>
             \/ \E k \in DOMAIN stack' : \E j \in DOMAIN stack'[k].ins :
                  b = << query'[stack'[k].op].in[j], stack'[k].ins[j] >>
  <1> DEFINE P(k, j) == << query'[stack'[k].op].in[j], stack'[k].ins[j] >>
             R(i) == << i, opToRewrittenOp'[i] >>
  <1>1. Bindings' = {R(i) : i \in RewrittenOps'}
                     \union (UNION {{P(k, j) : j \in DOMAIN stack'[k].ins} : k \in DOMAIN stack'})
    BY DEF Bindings
  <1> HIDE DEF P, R
  <1>2. b \in Bindings' <=>
             \/ \E i \in RewrittenOps' : b = R(i)
             \/ \E k \in DOMAIN stack' : \E j \in DOMAIN stack'[k].ins : b = P(k, j)
    BY <1>1
  <1> QED
    BY <1>2 DEF P, R

LEMMA BindingNodes ==
    ASSUME ControlInv, phase # "analyze", NEW b \in Bindings
    PROVE  b[1] \in DOMAIN query /\ b[2] \in DOMAIN graph /\ b = << b[1], b[2] >>
  <1>1. CASE \E i \in RewrittenOps : b = << i, opToRewrittenOp[i] >>
    BY <1>1 DEF RewrittenOps, ControlInv
  <1>2. CASE \E k \in DOMAIN stack : \E j \in DOMAIN stack[k].ins :
                  b = << query[stack[k].op].in[j], stack[k].ins[j] >>
    <2>0. PICK k \in DOMAIN stack : \E j \in DOMAIN stack[k].ins :
                  b = << query[stack[k].op].in[j], stack[k].ins[j] >>
      BY <1>2
    <2>1. PICK j \in DOMAIN stack[k].ins : b = << query[stack[k].op].in[j], stack[k].ins[j] >>
      BY <2>0
    <2>2. /\ stack[k].op \in DOMAIN query /\ stack[k].ins[j] \in DOMAIN graph
          /\ DOMAIN stack[k].ins = 1 .. Len(stack[k].ins) /\ Len(stack[k].ins) \in Nat
          /\ Len(stack[k].ins) <= Len(query[stack[k].op].in)
      BY FrameFacts
    <2>3. /\ IsSeq(query[stack[k].op].in)
          /\ DOMAIN query[stack[k].op].in = 1 .. Len(query[stack[k].op].in)
          /\ \A i \in DOMAIN query[stack[k].op].in : query[stack[k].op].in[i] \in DOMAIN query
      BY <2>2, OperatorFacts DEF ControlInv
    <2>4. Len(query[stack[k].op].in) \in Nat
      BY <2>3, SeqDomain
    <2>5. j \in DOMAIN query[stack[k].op].in
      BY <2>2, <2>3, <2>4
    <2>6. query[stack[k].op].in[j] \in DOMAIN query
      BY <2>3, <2>5
    <2> QED
      BY <2>1, <2>2, <2>6
  <1> QED
    BY <1>1, <1>2, BindingCases

\* The first m calls are left, and the last of them gets the node of its next
\* input, which is operator i.
Delivered(m, i, node) ==
    /\ m \in 0 .. Len(stack) /\ node \in DOMAIN graph'
    /\ m >= 1 => /\ Len(stack[m].ins) < Len(query[stack[m].op].in)
                 /\ NextIn(m) = i
    /\ DOMAIN graph \subseteq DOMAIN graph'
    /\ stack' \in Seq(Frames') /\ Len(stack') = m /\ DOMAIN stack' = 1 .. m
    /\ \A k \in 1 .. m :
         /\ stack'[k].op = stack[k].op
         /\ stack'[k].ins = IF k = m THEN Append(stack[k].ins, node) ELSE stack[k].ins

LEMMA FramesNext ==
    ASSUME query' = query, DOMAIN graph \subseteq DOMAIN graph'
    PROVE  Frames \subseteq Frames' /\ Frames' = [op : DOMAIN query, ins : Seq(DOMAIN graph')]
  <1>1. Seq(DOMAIN graph) \subseteq Seq(DOMAIN graph')
    OBVIOUS
  <1> QED
    BY <1>1 DEF Frames

\* A frame with one more input.
LEMMA FrameWithInput ==
    ASSUME NEW A, NEW B, NEW C, B \subseteq C, NEW f \in [op : A, ins : B], NEW x \in C,
           NEW h, h = [f EXCEPT !.ins = x]
    PROVE  h \in [op : A, ins : C] /\ h.op = f.op /\ h.ins = x /\ DOMAIN h = {"op", "ins"}
  OBVIOUS

LEMMA InputAppended ==
    ASSUME NEW s, NEW m \in DOMAIN s, NEW x, NEW t, t = [s EXCEPT ![m].ins = Append(@, x)]
    PROVE  /\ DOMAIN t = DOMAIN s
           /\ t[m] = [s[m] EXCEPT !.ins = Append(s[m].ins, x)]
           /\ \A k \in DOMAIN s : k # m => t[k] = s[k]
  OBVIOUS

\* A call more has the node of an input: the rest of the calls stay.
LEMMA GivenInput ==
    ASSUME ControlInv, query' = query, DOMAIN graph \subseteq DOMAIN graph',
           NEW m \in 1 .. Len(stack), NEW node \in DOMAIN graph',
           NEW s \in Seq(Frames), Len(s) = m, \A k \in 1 .. m : s[k] = stack[k],
           stack' = [s EXCEPT ![m].ins = Append(@, node)],
           NEW i, NextIn(m) = i, Len(stack[m].ins) < Len(query[stack[m].op].in)
    PROVE  Delivered(m, i, node)
  <1>1. Frames \subseteq Frames' /\ Frames' = [op : DOMAIN query, ins : Seq(DOMAIN graph')]
    BY FramesNext
  <1>2. DOMAIN s = 1 .. m /\ m \in DOMAIN stack /\ stack[m] \in Frames /\ m \in Nat
    <2>1. m \in DOMAIN stack
      BY DEF ControlInv
    <2> QED
      BY <2>1, FrameFacts, SeqIsSeq
  <1>3. DOMAIN stack' = 1 .. m /\ \A k \in 1 .. m : k # m => stack'[k] = s[k]
    <2>0. m \in DOMAIN s
      BY <1>2
    <2> QED
      BY <1>2, <2>0, InputAppended
  <1>4. \A k \in 1 .. m : k # m => stack'[k] = stack[k]
    BY <1>3
  <1>5. stack'[m] = [stack[m] EXCEPT !.ins = Append(stack[m].ins, node)]
    <2>0. m \in DOMAIN s
      BY <1>2
    <2>1. stack'[m] = [s[m] EXCEPT !.ins = Append(s[m].ins, node)]
      BY <2>0, InputAppended
    <2>2. s[m] = stack[m]
      BY <1>2
    <2> QED
      BY <2>1, <2>2
  <1>6. Append(stack[m].ins, node) \in Seq(DOMAIN graph')
    <2>1. stack[m].ins \in Seq(DOMAIN graph)
      BY <1>2 DEF Frames
    <2> QED
      BY <2>1
  <1>7. /\ stack'[m] \in Frames'
        /\ stack'[m].op = stack[m].op /\ stack'[m].ins = Append(stack[m].ins, node)
    <2> DEFINE A == DOMAIN query
               B == Seq(DOMAIN graph)
               C == Seq(DOMAIN graph')
               x == Append(stack[m].ins, node)
               f == stack[m]
               h == stack'[m]
    <2>1. B \subseteq C
      OBVIOUS
    <2>2. f \in [op : A, ins : B]
      BY <1>2 DEF Frames
    <2>3. x \in C
      BY <1>6
    <2>4. h = [f EXCEPT !.ins = x]
      BY <1>5
    <2>5. Frames' = [op : A, ins : C]
      BY <1>1
    <2> HIDE DEF A, B, C, x, f, h
    <2>6. h \in [op : A, ins : C] /\ h.op = f.op /\ h.ins = x
      BY <2>1, <2>2, <2>3, <2>4, FrameWithInput
    <2>7. h \in Frames'
      BY <2>5, <2>6
    <2> QED
      BY <2>6, <2>7 DEF h, f, x
  <1>8. \A k \in 1 .. m : stack'[k] \in Frames'
    <2> TAKE k \in 1 .. m
    <2>1. k \in DOMAIN stack
      BY DEF ControlInv
    <2>2. stack[k] \in Frames
      BY <2>1, FrameFacts
    <2> QED
      BY <1>1, <1>4, <1>7, <2>2
  <1>9. stack' \in Seq(Frames') /\ Len(stack') = m
    <2> DEFINE F == Frames'
    <2>1. stack' \in [1 .. m -> F]
      <3> HIDE DEF F
      <3>1. \A k \in 1 .. m : stack'[k] \in F
        BY <1>8 DEF F
      <3>2. stack' = [k \in 1 .. m |-> stack'[k]]
        BY <1>2, <1>3
      <3> QED
        BY <3>1, <3>2
    <2> HIDE DEF F
    <2>0. m \in Nat
      BY <1>2
    <2>2. stack' \in Seq(F) /\ Len(stack') = m
      <3> DEFINE t == stack'
      <3> HIDE DEF t
      <3>1. t \in [1 .. m -> F]
        BY <2>1 DEF t
      <3>2. t \in Seq(F) /\ Len(t) = m
        BY <2>0, <3>1, SeqOfFn
      <3> QED
        BY <3>2 DEF t
    <2> QED
      BY <2>2 DEF F
  <1> QED
    BY <1>2, <1>3, <1>4, <1>7, <1>9 DEF Delivered, ControlInv

LEMMA DeliveredFrames ==
    ASSUME ControlInv, query' = query, NEW m, NEW i, NEW node, Delivered(m, i, node)
    PROVE  \A k \in DOMAIN stack' : FrameOk(k)'
  <1> SUFFICES ASSUME NEW k \in DOMAIN stack'
               PROVE  /\ Len(stack'[k].ins) <= Len(query[stack'[k].op].in)
                      /\ k < Len(stack') =>
                           /\ Len(stack'[k].ins) < Len(query[stack'[k].op].in)
                           /\ stack'[k + 1].op = query[stack'[k].op].in[Len(stack'[k].ins) + 1]
    BY DEF FrameOk
  <1>1. /\ k \in 1 .. m /\ m \in Nat /\ Len(stack') = m
        /\ stack'[k].op = stack[k].op
        /\ stack'[k].ins = IF k = m THEN Append(stack[k].ins, node) ELSE stack[k].ins
        /\ k < m => stack'[k + 1].op = stack[k + 1].op
    <2>1. Len(stack) \in Nat
      BY DEF ControlInv
    <2> QED
      BY <2>1 DEF Delivered
  <1>2. k \in DOMAIN stack /\ Len(stack) \in Nat /\ m <= Len(stack)
    BY <1>1 DEF Delivered, ControlInv
  <1>3. /\ Len(stack[k].ins) \in Nat /\ IsSeq(stack[k].ins)
        /\ k < Len(stack) => /\ Len(stack[k].ins) < Len(query[stack[k].op].in)
                             /\ stack[k + 1].op = NextIn(k)
    BY <1>2, FrameFacts
  <1>4. Len(query[stack[k].op].in) \in Nat
    <2>1. stack[k].op \in DOMAIN query
      BY <1>2, FrameFacts
    <2> QED
      BY <2>1, OperatorFacts, SeqDomain DEF ControlInv
  <1>5. CASE k = m
    <2>1. Len(stack[m].ins) < Len(query[stack[m].op].in)
      BY <1>1, <1>5 DEF Delivered
    <2>2. Len(Append(stack[k].ins, node)) = Len(stack[k].ins) + 1
      BY <1>3, AppendAny
    <2> QED
      BY <1>1, <1>3, <1>4, <1>5, <2>1, <2>2
  <1>6. CASE k < m
    BY <1>1, <1>2, <1>3, <1>4, <1>6 DEF NextIn
  <1> QED
    BY <1>1, <1>5, <1>6

LEMMA DeliveredBindings ==
    ASSUME ControlInv, phase # "analyze", query' = query,
           NEW m, NEW i, NEW node, Delivered(m, i, node),
           \/ opToRewrittenOp' = opToRewrittenOp
           \/ opToRewrittenOp' = [opToRewrittenOp EXCEPT ![i] = node]
    PROVE  /\ Bindings' \subseteq Bindings \union {<< i, node >>}
           /\ RewrittenOps' \subseteq RewrittenOps \union {i}
  <1>1. opToRewrittenOp \in [DOMAIN query -> {0} \union DOMAIN graph]
    BY DEF ControlInv
  <1>2. \A k \in RewrittenOps' : \/ k \in RewrittenOps /\ opToRewrittenOp'[k] = opToRewrittenOp[k]
                                 \/ k = i /\ opToRewrittenOp'[k] = node
                                 \/ k = i /\ k \in RewrittenOps
                                      /\ opToRewrittenOp'[k] = opToRewrittenOp[k]
    BY <1>1 DEF RewrittenOps
  <1> SUFFICES ASSUME NEW b \in Bindings'
               PROVE  b \in Bindings \union {<< i, node >>}
    BY <1>2
  <1>3. CASE \E k \in RewrittenOps' : b = << k, opToRewrittenOp'[k] >>
    BY <1>2, <1>3, BindingCases
  <1>4. CASE \E k \in DOMAIN stack' : \E j \in DOMAIN stack'[k].ins :
                  b = << query'[stack'[k].op].in[j], stack'[k].ins[j] >>
    <2>0. PICK k \in DOMAIN stack' : \E j \in DOMAIN stack'[k].ins :
                  b = << query'[stack'[k].op].in[j], stack'[k].ins[j] >>
      BY <1>4
    <2>1. PICK j \in DOMAIN stack'[k].ins : b = << query[stack'[k].op].in[j], stack'[k].ins[j] >>
      BY <2>0
    <2>2. /\ k \in 1 .. m /\ k \in DOMAIN stack
          /\ stack'[k].op = stack[k].op
          /\ stack'[k].ins = IF k = m THEN Append(stack[k].ins, node) ELSE stack[k].ins
      BY DEF Delivered, ControlInv
    <2>3. CASE k # m
      BY <2>1, <2>2, <2>3, BindingCases
    <2>4. CASE k = m
      <3>1. /\ IsSeq(stack[k].ins) /\ DOMAIN stack[k].ins = 1 .. Len(stack[k].ins)
            /\ Len(stack[k].ins) \in Nat
        BY <2>2, FrameFacts
      <3>2. CASE j \in DOMAIN stack[k].ins
        <4>1. stack'[k].ins[j] = stack[k].ins[j]
          BY <2>2, <2>4, <3>1, <3>2, AppendAny
        <4> QED
          BY <2>1, <2>2, <3>2, <4>1, BindingCases
      <3>3. CASE j = Len(stack[k].ins) + 1
        <4>1. stack'[k].ins[j] = node
          BY <2>2, <2>4, <3>1, <3>3, AppendAny
        <4>2. query[stack[k].op].in[j] = i
          <5>1. m >= 1
            <6>1. Len(stack) \in Nat
              BY DEF ControlInv
            <6>2. m \in Nat
              BY <6>1 DEF Delivered
            <6> QED
              BY <2>2, <6>2
          <5> QED
            BY <2>4, <3>3, <5>1 DEF Delivered, NextIn
        <4> QED
          BY <2>1, <2>2, <4>1, <4>2
      <3>4. j \in 1 .. Len(stack[k].ins) + 1
        BY <2>1, <2>2, <2>4, <3>1, AppendAny
      <3> QED
        BY <3>1, <3>2, <3>3, <3>4
    <2> QED
      BY <2>3, <2>4
  <1> QED
    BY <1>3, <1>4, BindingCasesNext

\* Two graphs that differ in the value of a field without links only.
LEMMA SameLinks ==
    ASSUME NEW g, NEW h, GraphOk(g), GraphOk(h), Len(h) = Len(g), Extends(g, h, {}), LinksOk(g)
    PROVE  LinksOk(h)
  <1>1. DOMAIN g = 1 .. Len(g) /\ DOMAIN h = 1 .. Len(h)
    BY GraphDomain
  <1>2. \A k \in DOMAIN g : h[k].inputs = g[k].inputs /\ h[k].parents = g[k].parents
    BY SameFields DEF Extends
  <1> QED
    BY <1>1, <1>2 DEF LinksOk

\* The parents of one node are taken away.
LEMMA CutParents ==
    ASSUME NEW g, GraphOk(g), NEW node \in DOMAIN g,
           NEW h, h = [g EXCEPT ![node].parents = << >>]
    PROVE  /\ GraphOk(h) /\ Len(h) = Len(g) /\ DOMAIN h = DOMAIN g
           /\ Extends(g, h, {node})
           /\ g[node].parents = << >> => Extends(g, h, {})
  <1>1. DOMAIN h = DOMAIN g /\ \A k \in DOMAIN g : h[k] = IF k = node
                                 THEN [g[k] EXCEPT !.parents = << >>] ELSE g[k]
    OBVIOUS
  <1>2. Len(g) \in Nat /\ DOMAIN g = 1 .. Len(g)
    BY GraphDomain
  <1>3. \A k \in DOMAIN g : IsNode(g[k]) /\ DOMAIN g[k] = NodeFields
    BY DEF GraphOk, IsNode
  <1>4. \A k \in DOMAIN g : /\ SameButParents(h[k], g[k]) /\ DOMAIN h[k] = NodeFields
                            /\ h[k].parents = IF k = node THEN << >> ELSE g[k].parents
    BY <1>1, <1>3 DEF SameButParents, NodeFields
  <1>5. \A k \in DOMAIN g : IsNode(h[k])
    <2> TAKE k \in DOMAIN g
    <2>1. h[k].inputs = g[k].inputs /\ h[k].info = g[k].info
      BY <1>4, SameFields
    <2>2. IsSeq(h[k].parents)
      BY <1>3, <1>4, EmptyIsSeq DEF IsNode
    <2> QED
      BY <1>3, <1>4, <2>1, <2>2 DEF IsNode
  <1>6. IsSeq(h) /\ Len(h) = Len(g)
    <2> DEFINE S == ToSet(h)
    <2>1. h \in [1 .. Len(g) -> S]
      <3>1. h = [k \in 1 .. Len(g) |-> h[k]]
        BY <1>1, <1>2
      <3>2. \A k \in 1 .. Len(g) : h[k] \in S
        BY <1>1, <1>2 DEF ToSet
      <3> HIDE DEF S
      <3> QED
        BY <3>1, <3>2
    <2> HIDE DEF S
    <2>2. h \in Seq(S) /\ Len(h) = Len(g)
      BY <1>2, <2>1, SeqOfFn
    <2> QED
      BY <2>2, SeqIsSeq
  <1>7. GraphOk(h)
    BY <1>1, <1>5, <1>6 DEF GraphOk
  <1>8. Extends(g, h, {node}) /\ (g[node].parents = << >> => Extends(g, h, {}))
    BY <1>2, <1>4, <1>6 DEF Extends
  <1> QED
    BY <1>1, <1>6, <1>7, <1>8

\* The innermost call returns a node.
LEMMA ReturnFacts ==
    ASSUME ControlInv, phase = "rewrite", query' = query,
           NEW g, GraphOk(g), Len(graph) <= Len(g), NEW node \in DOMAIN g, Return(g, node)
    PROVE  /\ Delivered(Len(stack) - 1, Top.op, node)
           /\ opToRewrittenOp' = [opToRewrittenOp EXCEPT ![Top.op] = node]
           /\ GraphOk(graph') /\ Len(graph') = Len(g) /\ DOMAIN graph' = DOMAIN g
           /\ Extends(g, graph', {node})
           /\ g[node].parents = << >> =>
                Extends(g, graph', {}) /\ (LinksOk(g) => LinksOk(graph'))
           /\ IF Len(stack) = 1 THEN phase' = "done" ELSE phase' = "rewrite"
  <1> DEFINE rest == SubSeq(stack, 1, Len(stack) - 1)
             m == Len(stack) - 1
  <1>1. /\ opToRewrittenOp' = [opToRewrittenOp EXCEPT ![Top.op] = node]
        /\ \/ /\ rest = << >> /\ phase' = "done" /\ stack' = << >>
              /\ graph' = [g EXCEPT ![node].parents = << >>]
           \/ /\ rest # << >> /\ graph' = g /\ phase' = phase
              /\ stack' = [rest EXCEPT ![Len(rest)].ins = Append(@, node)]
    BY DEF Return
  <1>2. /\ rest \in Seq(Frames) /\ Len(rest) = m /\ DOMAIN rest = 1 .. m
        /\ \A k \in 1 .. m : rest[k] = stack[k]
        /\ Len(stack) \in Nat /\ Len(stack) >= 1
    <2>1. stack \in Seq(Frames) /\ stack # << >>
      BY DEF ControlInv, Frames
    <2> HIDE DEF Frames
    <2> QED
      BY <2>1, FrontOfSeq
  <1>3. rest = << >> <=> m = 0
    <2>1. rest = << >> => Len(rest) = 0
      BY EmptyIsSeq
    <2>2. Len(rest) = 0 => rest = << >>
      <3> DEFINE F == Frames
      <3> HIDE DEF F
      <3>1. rest \in Seq(F)
        BY <1>2 DEF F
      <3> HIDE DEF rest
      <3> QED
        BY <3>1
    <2> QED
      BY <1>2, <2>1, <2>2
  <1>4. /\ GraphOk(graph') /\ Len(graph') = Len(g) /\ DOMAIN graph' = DOMAIN g
        /\ Extends(g, graph', {node})
        /\ g[node].parents = << >> => Extends(g, graph', {})
    <2>1. CASE graph' = g
      BY <2>1, GraphDomain DEF Extends, SameButParents
    <2>2. CASE graph' = [g EXCEPT ![node].parents = << >>]
      BY <2>2, CutParents
    <2> QED
      BY <1>1, <2>1, <2>2
  <1>5. g[node].parents = << >> /\ LinksOk(g) => LinksOk(graph')
    BY <1>4, SameLinks
  <1>6. DOMAIN graph \subseteq DOMAIN graph'
    <2>1. Len(graph) \in Nat /\ DOMAIN graph = 1 .. Len(graph)
          /\ Len(g) \in Nat /\ DOMAIN g = 1 .. Len(g)
      BY GraphDomain DEF ControlInv
    <2> QED
      BY <1>4, <2>1
  <1>7. Delivered(m, Top.op, node)
    <2>1. CASE m = 0
      <3>1. stack' = << >>
        BY <1>1, <1>3, <2>1
      <3>2. stack' \in Seq(Frames') /\ Len(stack') = 0 /\ DOMAIN stack' = 1 .. 0
        <4> DEFINE F == Frames'
        <4> HIDE DEF F
        <4>1. << >> \in Seq(F) /\ Len(<< >>) = 0 /\ DOMAIN << >> = 1 .. 0
          OBVIOUS
        <4> QED
          BY <3>1, <4>1 DEF F
      <3> QED
        <4>1. m \in 0 .. Len(stack) /\ node \in DOMAIN graph' /\ ~ (m >= 1)
          <5>1. Len(stack) \in Nat
            BY <1>2
          <5>2. node \in DOMAIN graph'
            BY <1>4
          <5>3. m = 0
            BY <2>1
          <5> HIDE DEF m
          <5> QED
            BY <5>1, <5>2, <5>3
        <4>2. \A k \in 1 .. m : FALSE
          BY <2>1
        <4>3. stack' \in Seq(Frames') /\ Len(stack') = m /\ DOMAIN stack' = 1 .. m
          BY <2>1, <3>2
        <4> QED
          BY <1>6, <4>1, <4>2, <4>3 DEF Delivered
    <2>2. CASE m # 0
      <3>1. m \in 1 .. Len(stack) /\ m \in DOMAIN stack /\ m < Len(stack) /\ m + 1 = Len(stack)
        BY <1>2, <2>2 DEF ControlInv
      <3>2. Len(stack[m].ins) < Len(query[stack[m].op].in) /\ stack[m + 1].op = NextIn(m)
        BY <3>1, FrameFacts
      <3>3. NextIn(m) = Top.op
        BY <3>1, <3>2 DEF Top
      <3>4. stack' = [rest EXCEPT ![m].ins = Append(@, node)]
        BY <1>1, <1>2, <1>3, <2>2
      <3> HIDE DEF m, rest
      <3> QED
        BY <1>2, <1>4, <1>6, <3>1, <3>2, <3>3, <3>4, GivenInput
    <2> QED
      BY <2>1, <2>2
  <1>8. IF Len(stack) = 1 THEN phase' = "done" ELSE phase' = "rewrite"
    BY <1>1, <1>2, <1>3
  <1> QED
    BY <1>1, <1>4, <1>5, <1>7, <1>8

\* The innermost call takes a node that is there for its next input.
LEMMA ReuseFacts ==
    ASSUME ControlInv, HasInputsLeft, query' = query,
           NEW g, GraphOk(g), Len(graph) <= Len(g), graph' = g, NEW node \in DOMAIN g,
           stack' = [stack EXCEPT ![Len(stack)].ins = Append(@, node)]
    PROVE  Delivered(Len(stack), NextInput, node)
  <1>1. phase = "rewrite"
    BY DEF HasInputsLeft
  <1>2. /\ Len(stack) \in DOMAIN stack /\ Len(stack) \in Nat /\ Len(stack) >= 1
        /\ NextInput = NextIn(Len(stack)) /\ Top = stack[Len(stack)] /\ Op = query[Top.op]
    BY <1>1, TopFacts
  <1>3. DOMAIN graph \subseteq DOMAIN graph'
    <2>1. Len(graph) \in Nat /\ DOMAIN graph = 1 .. Len(graph)
          /\ Len(g) \in Nat /\ DOMAIN g = 1 .. Len(g)
      BY GraphDomain DEF ControlInv
    <2> QED
      BY <2>1
  <1>4. stack \in Seq(Frames)
    BY DEF ControlInv, Frames
  <1>5. Len(stack[Len(stack)].ins) < Len(query[stack[Len(stack)].op].in)
    BY <1>2 DEF HasInputsLeft
  <1> DEFINE m == Len(stack)
  <1>6. m \in 1 .. Len(stack) /\ Len(stack) = m /\ \A k \in 1 .. m : stack[k] = stack[k]
    BY <1>2
  <1> HIDE DEF m
  <1>7. /\ stack' = [stack EXCEPT ![m].ins = Append(@, node)]
        /\ NextIn(m) = NextInput /\ Len(stack[m].ins) < Len(query[stack[m].op].in)
    BY <1>2, <1>5, <1>6
  <1>8. Delivered(m, NextInput, node)
    BY <1>3, <1>4, <1>6, <1>7, GivenInput
  <1> QED
    BY <1>6, <1>8

\* The innermost call starts the call for its next input.
LEMMA PushFacts ==
    ASSUME ControlInv, HasInputsLeft,
           stack' = Append(stack, [op |-> NextInput, ins |-> << >>]),
           UNCHANGED << query, phase, graph, opToRewrittenOp >>
    PROVE  /\ stack' \in Seq(Frames) /\ Len(stack') = Len(stack) + 1
           /\ DOMAIN stack' = 1 .. Len(stack) + 1
           /\ \A k \in 1 .. Len(stack) : stack'[k] = stack[k]
           /\ stack'[Len(stack) + 1].op = NextInput /\ stack'[Len(stack) + 1].ins = << >>
           /\ Bindings' = Bindings /\ RewrittenOps' = RewrittenOps
  <1> DEFINE f == [op |-> NextInput, ins |-> << >>]
  <1>1. /\ Len(stack) \in Nat /\ DOMAIN stack = 1 .. Len(stack) /\ NextInput \in DOMAIN query
    BY TopFacts DEF HasInputsLeft
  <1>2. f \in Frames /\ f.op = NextInput /\ f.ins = << >>
    BY <1>1 DEF Frames
  <1>3. stack \in Seq(Frames)
    BY DEF ControlInv, Frames
  <1>4. /\ stack' \in Seq(Frames) /\ Len(stack') = Len(stack) + 1
        /\ DOMAIN stack' = 1 .. Len(stack) + 1
        /\ \A k \in 1 .. Len(stack) : stack'[k] = stack[k]
        /\ stack'[Len(stack) + 1] = f
    <2> DEFINE F == Frames
               s == stack
               t == stack'
    <2> HIDE DEF f, F, s, t
    <2>1. f \in F /\ s \in Seq(F) /\ t = Append(s, f)
      BY <1>2, <1>3 DEF F, s, t, f
    <2>2. /\ t \in Seq(F) /\ Len(t) = Len(s) + 1 /\ DOMAIN t = 1 .. Len(s) + 1
          /\ \A k \in 1 .. Len(s) : t[k] = s[k] /\ t[Len(s) + 1] = f
      BY <2>1
    <2>3. t[Len(s) + 1] = f
      BY <2>1
    <2> QED
      BY <2>2, <2>3 DEF F, s, t
  <1>5. RewrittenOps' = RewrittenOps
    BY DEF RewrittenOps
  <1>6. \A b : b \in Bindings' <=> b \in Bindings
    <2> TAKE b
    <2>1. ASSUME b \in Bindings' PROVE b \in Bindings
      <3>1. CASE \E i \in RewrittenOps' : b = << i, opToRewrittenOp'[i] >>
        BY <1>5, <3>1, BindingCases
      <3>2. CASE \E k \in DOMAIN stack' : \E j \in DOMAIN stack'[k].ins :
                  b = << query'[stack'[k].op].in[j], stack'[k].ins[j] >>
        <4>1. PICK k \in DOMAIN stack' : \E j \in DOMAIN stack'[k].ins :
                  b = << query[stack'[k].op].in[j], stack'[k].ins[j] >>
          BY <3>2
        <4>2. k # Len(stack) + 1
          BY <1>2, <1>4, <4>1, EmptyIsSeq
        <4>3. k \in DOMAIN stack /\ stack'[k] = stack[k]
          BY <1>1, <1>4, <4>2
        <4> QED
          BY <4>1, <4>3, BindingCases
      <3> QED
        BY <2>1, <3>1, <3>2, BindingCasesNext
    <2>2. ASSUME b \in Bindings PROVE b \in Bindings'
      <3>1. CASE \E i \in RewrittenOps : b = << i, opToRewrittenOp[i] >>
        BY <1>5, <3>1, BindingCasesNext
      <3>2. CASE \E k \in DOMAIN stack : \E j \in DOMAIN stack[k].ins :
                  b = << query[stack[k].op].in[j], stack[k].ins[j] >>
        <4>1. PICK k \in DOMAIN stack : \E j \in DOMAIN stack[k].ins :
                  b = << query[stack[k].op].in[j], stack[k].ins[j] >>
          BY <3>2
        <4>2. k \in DOMAIN stack' /\ stack'[k] = stack[k]
          BY <1>1, <1>4
        <4> QED
          BY <4>1, <4>2, BindingCasesNext
      <3> QED
        BY <2>2, <3>1, <3>2, BindingCases
    <2> QED
      BY <2>1, <2>2
  <1>7. Bindings' = Bindings
    BY <1>6
  <1> QED
    BY <1>2, <1>4, <1>5, <1>7

-----------------------------------------------------------------------------
(***************************************************************************)
(* What the rewrite of the innermost call's operator adds                  *)
(***************************************************************************)
Built(g) ==
    /\ Builds(graph, g, ToSet(Top.ins)) /\ Len(g) \in DOMAIN g
    /\ /\ LinksOk(graph)
       /\ Exclusive(Op) => \A k \in DOMAIN Top.ins : graph[Top.ins[k]].parents = << >>
       /\ IsSet(Op, {"UNION", "DIFFERENCE"}) => Top.ins[1] # Top.ins[2]
       => LinksOk(g)
    /\ Op.type # "Limit" => g[Len(g)].info # << >>

LEMMA ReadyFacts ==
    ASSUME ControlInv, NEW types, Ready(types)
    PROVE  /\ phase = "rewrite" /\ GraphOk(graph) /\ Op.type \in types
           /\ Op.type \in OpTypes /\ Len(Top.ins) = Arity(Op.type)
           /\ Op.type \in Unary => /\ Top.ins = << Top.ins[1] >> /\ Top.ins[1] \in DOMAIN graph
                                   /\ ToSet(Top.ins) = {Top.ins[1]} /\ DOMAIN Top.ins = 1 .. 1
           /\ Op.type \in {"Set", "Join"} =>
                /\ Top.ins[1] \in DOMAIN graph /\ Top.ins[2] \in DOMAIN graph
                /\ ToSet(Top.ins) = {Top.ins[1], Top.ins[2]} /\ DOMAIN Top.ins = 1 .. 2
           /\ Op.type = "Set" => Op.how \in SetOps
  <1>1. phase = "rewrite" /\ Op.type \in types /\ Len(Top.ins) = Len(Op.in)
    BY DEF Ready
  <1>2. /\ Top.op \in DOMAIN query /\ Op = query[Top.op] /\ Len(Top.ins) \in Nat
        /\ DOMAIN Top.ins = 1 .. Len(Top.ins)
        /\ \A j \in DOMAIN Top.ins : Top.ins[j] \in DOMAIN graph
    BY <1>1, TopFacts
  <1>3. /\ Op.type \in OpTypes /\ Len(Op.in) = Arity(Op.type)
        /\ Op.type = "Set" => Op.how \in SetOps
    BY <1>2, OperatorFacts DEF ControlInv, OperatorOk
  <1>4. IsSeq(Top.ins)
    BY <1>1, TopFacts, FrameFacts
  <1>5. ASSUME Op.type \in Unary
        PROVE  /\ Top.ins = << Top.ins[1] >> /\ Top.ins[1] \in DOMAIN graph
               /\ ToSet(Top.ins) = {Top.ins[1]} /\ DOMAIN Top.ins = 1 .. 1
    <2>1. DOMAIN Top.ins = 1 .. 1 /\ Len(Top.ins) = 1
      BY <1>1, <1>2, <1>3, <1>5, ArityFacts
    <2>2. Top.ins = << Top.ins[1] >>
      <3> DEFINE s == Top.ins
                 S == ToSet(s)
      <3>1. s \in Seq(S)
        BY <1>4 DEF IsSeq
      <3>2. Len(s) = 1
        BY <2>1
      <3> HIDE DEF s, S
      <3>3. s = << s[1] >>
        BY <3>1, <3>2
      <3> QED
        BY <3>3 DEF s
    <2>3. ToSet(Top.ins) = {Top.ins[1]}
      BY <2>1 DEF ToSet
    <2> QED
      BY <1>2, <2>1, <2>2, <2>3
  <1>6. ASSUME Op.type \in {"Set", "Join"}
        PROVE  /\ Top.ins[1] \in DOMAIN graph /\ Top.ins[2] \in DOMAIN graph
               /\ ToSet(Top.ins) = {Top.ins[1], Top.ins[2]} /\ DOMAIN Top.ins = 1 .. 2
    <2>1. DOMAIN Top.ins = 1 .. 2
      BY <1>1, <1>2, <1>3, <1>6, ArityFacts
    <2>2. ToSet(Top.ins) = {Top.ins[1], Top.ins[2]}
      BY <2>1 DEF ToSet
    <2> QED
      BY <1>2, <2>1, <2>2
  <1> QED
    BY <1>1, <1>3, <1>5, <1>6 DEF ControlInv

LEMMA LeafOpBuilds ==
    ASSUME ControlInv, Ready(Leaves), NEW cnt
    PROVE  /\ Built(rewriteTableAccess(graph, Op, cnt))
           /\ Built(rewriteConstRel(graph, Op, cnt))
  <1>1. GraphOk(graph) /\ Op.type \in Leaves
    BY ReadyFacts
  <1>2. ~ Exclusive(Op) /\ ~ IsSet(Op, {"UNION", "DIFFERENCE"})
    BY <1>1 DEF Exclusive, IsSet, Leaves, Unary
  <1>3. ASSUME NEW table, NEW recorded
        PROVE  Built(rewriteLeaf(graph, Op, table, cnt, recorded))
    <2> DEFINE h == rewriteLeaf(graph, Op, table, cnt, recorded)
    <2>1. Builds(graph, h, {}) /\ (LinksOk(graph) => LinksOk(h)) /\ h[Len(h)].info # << >>
      BY <1>1, LeafBuilds
    <2> HIDE DEF h
    <2>2. Builds(graph, h, ToSet(Top.ins)) /\ Len(h) \in DOMAIN h
      BY <2>1, BuildsMore DEF Builds
    <2>3. Built(h)
      BY <2>1, <2>2 DEF Built
    <2> QED
      BY <2>3 DEF h
  <1> QED
    BY <1>3 DEF rewriteTableAccess, rewriteConstRel

LEMMA LimitOpBuilds ==
    ASSUME ControlInv, Ready({"Limit"})
    PROVE  Built(rewriteLimit(graph, Op, Top.ins))
  <1>1. /\ GraphOk(graph) /\ Op.type = "Limit" /\ Top.ins[1] \in DOMAIN graph
        /\ ToSet(Top.ins) = {Top.ins[1]}
    BY ReadyFacts, ArityFacts
  <1> DEFINE h == rewriteLimit(graph, Op, Top.ins)
  <1>2. Builds(graph, h, {Top.ins[1]}) /\ (LinksOk(graph) => LinksOk(h))
    BY <1>1, LimitBuilds
  <1> HIDE DEF h
  <1>3. Len(h) \in DOMAIN h
    BY <1>2 DEF Builds
  <1>4. Built(h)
    BY <1>1, <1>2, <1>3 DEF Built
  <1> QED
    BY <1>4 DEF h

LEMMA UnaryRewritten ==
    ASSUME GraphOk(graph), NEW o, NEW ins, ins = << ins[1] >>, ins[1] \in DOMAIN graph,
           o.type \in {"Selection", "Order", "Projection", "Aggregation"},
           NEW h, h = Rewritten(o, ins)
    PROVE  /\ Builds(graph, h, {ins[1]})
           /\ LinksOk(graph) /\ graph[ins[1]].parents = << >> => LinksOk(h)
           /\ h[Len(h)].info = graph[ins[1]].info
  <1>1. CASE o.type \in {"Selection", "Order"}
    <2>1. h = rewriteSameSchema(graph, o, ins)
      BY <1>1 DEF Rewritten
    <2> QED
      BY <2>1, SameSchemaBuilds
  <1>2. CASE o.type = "Projection"
    <2>1. h = rewriteProjection(graph, o, ins)
      BY <1>2 DEF Rewritten
    <2> QED
      BY <2>1, ProjectionBuilds
  <1>3. CASE o.type = "Aggregation"
    <2>1. h = rewriteAggregation(graph, o, ins)
      BY <1>3 DEF Rewritten
    <2> QED
      BY <2>1, AggregationBuilds
  <1> QED
    BY <1>1, <1>2, <1>3

LEMMA BinaryRewritten ==
    ASSUME GraphOk(graph), NEW o, NEW ins, ins[1] \in DOMAIN graph, ins[2] \in DOMAIN graph,
           o.type \in {"Set", "Join"}, o.type = "Set" => o.how \in SetOps,
           NEW h, h = Rewritten(o, ins)
    PROVE  /\ Builds(graph, h, {ins[1], ins[2]})
           /\ /\ LinksOk(graph)
              /\ IsSet(o, {"UNION", "DIFFERENCE"}) =>
                   /\ ins[1] # ins[2]
                   /\ graph[ins[1]].parents = << >> /\ graph[ins[2]].parents = << >>
              => LinksOk(h)
           /\ h[Len(h)].info = graph[ins[1]].info \o graph[ins[2]].info
  <1>1. CASE o.type = "Join"
    <2>1. h = rewriteJoin(graph, o, ins)
      BY <1>1 DEF Rewritten
    <2> QED
      BY <2>1, JoinBuilds
  <1>2. CASE o.type = "Set"
    <2>1. h = rewriteSet(graph, o, ins)
      BY <1>2 DEF Rewritten
    <2>2. o.how \in {"UNION", "DIFFERENCE"} => IsSet(o, {"UNION", "DIFFERENCE"})
      BY <1>2 DEF IsSet
    <2> QED
      BY <1>2, <2>1, <2>2, SetBuilds
  <1> QED
    BY <1>1, <1>2

LEMMA OpBuilds ==
    ASSUME ControlInv,
           Ready({"Selection", "Order", "Projection", "Aggregation", "Join", "Set"}),
           ~ InfoMissing(Top.ins)
    PROVE  Built(Rewritten(Op, Top.ins))
  <1>1. /\ GraphOk(graph)
        /\ Op.type \in {"Selection", "Order", "Projection", "Aggregation", "Join", "Set"}
        /\ Op.type \in Unary => /\ Top.ins = << Top.ins[1] >> /\ Top.ins[1] \in DOMAIN graph
                                /\ ToSet(Top.ins) = {Top.ins[1]} /\ DOMAIN Top.ins = 1 .. 1
        /\ Op.type \in {"Set", "Join"} =>
             /\ Top.ins[1] \in DOMAIN graph /\ Top.ins[2] \in DOMAIN graph
             /\ ToSet(Top.ins) = {Top.ins[1], Top.ins[2]} /\ DOMAIN Top.ins = 1 .. 2
        /\ Op.type = "Set" => Op.how \in SetOps
    BY ReadyFacts
  <1>2. \A k \in DOMAIN Top.ins : graph[Top.ins[k]].info # << >>
    BY DEF InfoMissing
  <1> DEFINE h == Rewritten(Op, Top.ins)
             types == {"Selection", "Order", "Projection", "Aggregation"}
  <1>3. ASSUME Op.type \in types
        PROVE  /\ Builds(graph, h, {Top.ins[1]})
               /\ LinksOk(graph) /\ graph[Top.ins[1]].parents = << >> => LinksOk(h)
               /\ h[Len(h)].info = graph[Top.ins[1]].info
    <2>1. Top.ins = << Top.ins[1] >> /\ Top.ins[1] \in DOMAIN graph
      BY <1>1, <1>3, ArityFacts
    <2> QED
      BY <1>1, <1>3, <2>1, UnaryRewritten, ZenonT(40)
  <1>4. CASE Op.type \in types
    <2>1. /\ ToSet(Top.ins) = {Top.ins[1]} /\ 1 \in DOMAIN Top.ins
          /\ Exclusive(Op)
      BY <1>1, <1>4, ArityFacts DEF Exclusive
    <2> HIDE DEF h
    <2>2. Len(h) \in DOMAIN h
      BY <1>3, <1>4 DEF Builds
    <2>3. Built(h)
      BY <1>2, <1>3, <1>4, <2>1, <2>2 DEF Built
    <2> QED
      BY <2>3 DEF h
  <1>5. ASSUME Op.type \in {"Set", "Join"}
        PROVE  /\ Builds(graph, h, {Top.ins[1], Top.ins[2]})
               /\ /\ LinksOk(graph)
                  /\ IsSet(Op, {"UNION", "DIFFERENCE"}) =>
                       /\ Top.ins[1] # Top.ins[2]
                       /\ graph[Top.ins[1]].parents = << >> /\ graph[Top.ins[2]].parents = << >>
                  => LinksOk(h)
               /\ h[Len(h)].info = graph[Top.ins[1]].info \o graph[Top.ins[2]].info
    <2>1. Top.ins[1] \in DOMAIN graph /\ Top.ins[2] \in DOMAIN graph
      BY <1>1, <1>5
    <2> QED
      BY <1>1, <1>5, <2>1, BinaryRewritten
  <1>6. CASE Op.type \in {"Set", "Join"}
    <2>1. ToSet(Top.ins) = {Top.ins[1], Top.ins[2]} /\ 1 \in DOMAIN Top.ins /\ 2 \in DOMAIN Top.ins
          /\ (IsSet(Op, {"UNION", "DIFFERENCE"}) => Exclusive(Op))
      BY <1>1, <1>6 DEF Exclusive
    <2> HIDE DEF h
    <2>2. Len(h) \in DOMAIN h
      BY <1>5, <1>6 DEF Builds
    <2>3. h[Len(h)].info # << >>
      <3>1. IsSeq(graph[Top.ins[1]].info) /\ IsSeq(graph[Top.ins[2]].info)
        BY <1>1, <1>6 DEF GraphOk, IsNode
      <3> QED
        <4> DEFINE a == graph[Top.ins[1]].info
                   b == graph[Top.ins[2]].info
        <4>1. a # << >> /\ IsSeq(a) /\ IsSeq(b)
          BY <1>2, <2>1, <3>1
        <4>2. h[Len(h)].info = a \o b
          BY <1>5, <1>6
        <4> HIDE DEF a, b
        <4>3. a \o b # << >>
          BY <4>1, ConcatSeq
        <4> QED
          BY <4>2, <4>3
    <2>4. Built(h)
      BY <1>5, <1>6, <2>1, <2>2, <2>3 DEF Built
    <2> QED
      BY <2>4 DEF h
  <1> QED
    BY <1>1, <1>4, <1>6

-----------------------------------------------------------------------------
(***************************************************************************)
(* The control invariant                                                   *)
(***************************************************************************)
LEMMA ControlInit == Init => ControlInv
  <1> SUFFICES ASSUME Init PROVE ControlInv
    OBVIOUS
  <1> USE DEF Init
  <1>1. phase \in {"analyze", "rewrite", "done", "failed"}
    OBVIOUS
  <1>2. QueryOk(query)
    BY EmptyIsSeq DEF QueryOk
  <1>3. GraphOk(graph)
    BY EmptyIsSeq DEF GraphOk
  <1>4. stack \in Seq([op : DOMAIN query, ins : Seq(DOMAIN graph)])
    <2> DEFINE F == [op : DOMAIN query, ins : Seq(DOMAIN graph)]
    <2> HIDE DEF F
    <2>1. stack \in Seq(F)
      OBVIOUS
    <2> QED
      BY <2>1 DEF F
  <1>5. \A k \in DOMAIN stack : FrameOk(k)
    BY EmptyIsSeq
  <1>6. provCounts \in [ProvPrefixes -> Int]
    OBVIOUS
  <1> QED
    BY <1>1, <1>2, <1>3, <1>4, <1>5, <1>6 DEF ControlInv

LEMMA ControlAddOperator ==
    ASSUME ControlInv, addOperator
    PROVE  ControlInv'
  <1>1. /\ phase = "analyze" /\ phase' = phase
        /\ UNCHANGED << stack, graph, opToRewrittenOp, provCounts >>
    BY DEF addOperator
  <1>2. PICK o \in NewOperators(query) : /\ InScope(query, o)
                                         /\ query' = Append(query, Complete(query, o, db))
    BY DEF addOperator
  <1>3. QueryOk(query')
    BY <1>2, NewOperatorOk DEF ControlInv
  <1>4. stack = << >> /\ graph = << >> /\ opToRewrittenOp = << >>
    BY <1>1 DEF ControlInv
  <1>5. stack' \in Seq([op : DOMAIN query', ins : Seq(DOMAIN graph')])
    <2> DEFINE F == [op : DOMAIN query', ins : Seq(DOMAIN graph')]
    <2> HIDE DEF F
    <2>1. stack' \in Seq(F)
      BY <1>1, <1>4
    <2> QED
      BY <2>1 DEF F
  <1>6. \A k \in DOMAIN stack' : FrameOk(k)'
    BY <1>1, <1>4, EmptyIsSeq
  <1>7. GraphOk(graph') /\ provCounts' \in [ProvPrefixes -> Int]
    BY <1>1 DEF ControlInv
  <1> QED
    BY <1>1, <1>3, <1>4, <1>5, <1>6, <1>7 DEF ControlInv

LEMMA ControlStart ==
    ASSUME ControlInv, rewritePI_CS
    PROVE  ControlInv'
  <1>1. /\ phase = "analyze" /\ phase' = "rewrite"
        /\ stack' = << [op |-> Len(query), ins |-> << >>] >>
        /\ opToRewrittenOp' = [i \in DOMAIN query |-> 0]
        /\ UNCHANGED << query, graph, provCounts >>
        /\ Cardinality(Unused(query)) = 1
    BY DEF rewritePI_CS
  <1>2. Len(query) \in DOMAIN query /\ query # << >>
    <2>1. IsSeq(query)
      BY DEF ControlInv, QueryOk
    <2>2. Len(query) \in Nat /\ DOMAIN query = 1 .. Len(query)
      BY <2>1, SeqDomain
    <2>3. Len(query) # 0
      <3> SUFFICES ASSUME Len(query) = 0 PROVE FALSE
        OBVIOUS
      <3>1. DOMAIN query = {}
        BY <2>2
      <3>2. Unused(query) = {}
        BY <3>1 DEF Unused
      <3> QED
        BY <1>1, <3>2, FS_EmptySet
    <2> QED
      BY <2>2, <2>3, EmptyIsSeq
  <1> DEFINE F == [op : DOMAIN query, ins : Seq(DOMAIN graph)]
             f == [op |-> Len(query), ins |-> << >>]
  <1>3. f \in F /\ f.ins = << >> /\ f.op = Len(query)
    BY <1>2
  <1>4. stack' \in Seq(F) /\ DOMAIN stack' = 1 .. 1 /\ stack'[1] = f /\ Len(stack') = 1
        /\ stack' # << >>
    <2>1. stack' = << f >>
      BY <1>1
    <2> HIDE DEF f, F
    <2> QED
      BY <1>3, <2>1
  <1>5. \A k \in DOMAIN stack' : FrameOk(k)'
    <2> TAKE k \in DOMAIN stack'
    <2>1. k = 1 /\ stack'[k] = f
      BY <1>4
    <2>2. Len(query[Len(query)].in) \in Nat
      BY <1>2, OperatorFacts, SeqDomain DEF ControlInv
    <2>3. Len(stack'[k].ins) = 0 /\ stack'[k].op = Len(query)
      BY <1>3, <2>1, EmptyIsSeq
    <2> HIDE DEF f, F
    <2> QED
      BY <1>1, <1>4, <2>1, <2>2, <2>3 DEF FrameOk
  <1>6. /\ QueryOk(query') /\ GraphOk(graph') /\ provCounts' \in [ProvPrefixes -> Int]
        /\ graph' = graph /\ query' = query
    BY <1>1 DEF ControlInv
  <1>7. opToRewrittenOp' \in [DOMAIN query' -> {0} \union DOMAIN graph']
    BY <1>1, <1>6
  <1>8. stack' \in Seq([op : DOMAIN query', ins : Seq(DOMAIN graph')])
    BY <1>4, <1>6
  <1>9. phase' = "rewrite" /\ stack' # << >> /\ query' # << >>
    BY <1>1, <1>2, <1>4
  <1> HIDE DEF f, F
  <1> QED
    BY <1>5, <1>6, <1>7, <1>8, <1>9 DEF ControlInv

\* A step that gives the node of an input to a call, or the last return.
LEMMA ControlDelivered ==
    ASSUME ControlInv, phase = "rewrite", query' = query,
           NEW m, NEW i \in DOMAIN query, NEW node, Delivered(m, i, node),
           GraphOk(graph'),
           \/ opToRewrittenOp' = opToRewrittenOp
           \/ opToRewrittenOp' = [opToRewrittenOp EXCEPT ![i] = node],
           provCounts' \in [ProvPrefixes -> Int],
           IF m = 0 THEN phase' = "done" ELSE phase' = "rewrite"
    PROVE  ControlInv'
  <1>1. \A k \in DOMAIN stack' : FrameOk(k)'
    BY DeliveredFrames
  <1>2. stack' \in Seq([op : DOMAIN query', ins : Seq(DOMAIN graph')])
        /\ Len(stack') = m /\ node \in DOMAIN graph' /\ DOMAIN graph \subseteq DOMAIN graph'
    BY DEF Delivered, Frames
  <1>3. opToRewrittenOp' \in [DOMAIN query' -> {0} \union DOMAIN graph']
    <2>1. opToRewrittenOp \in [DOMAIN query -> {0} \union DOMAIN graph]
      BY DEF ControlInv
    <2> QED
      BY <1>2, <2>1
  <1>4. m = 0 <=> stack' = << >>
    <2> DEFINE F == [op : DOMAIN query', ins : Seq(DOMAIN graph')]
    <2>1. stack' \in Seq(F) /\ Len(stack') = m
      BY <1>2
    <2> HIDE DEF F
    <2> QED
      BY <2>1
  <1>5. QueryOk(query') /\ query' # << >>
    BY DEF ControlInv
  <1> QED
    BY <1>1, <1>2, <1>3, <1>4, <1>5 DEF ControlInv

LEMMA ControlPush ==
    ASSUME ControlInv, rewriteInput
    PROVE  ControlInv'
  <1>1. /\ HasInputsLeft /\ phase = "rewrite"
        /\ stack' = Append(stack, [op |-> NextInput, ins |-> << >>])
        /\ UNCHANGED << query, phase, graph, opToRewrittenOp, provCounts >>
    BY DEF rewriteInput, HasInputsLeft
  <1>2. /\ stack' \in Seq(Frames) /\ Len(stack') = Len(stack) + 1
        /\ DOMAIN stack' = 1 .. Len(stack) + 1
        /\ \A k \in 1 .. Len(stack) : stack'[k] = stack[k]
        /\ stack'[Len(stack) + 1].op = NextInput /\ stack'[Len(stack) + 1].ins = << >>
    BY <1>1, PushFacts
  <1>3. /\ Len(stack) \in DOMAIN stack /\ Len(stack) \in Nat /\ DOMAIN stack = 1 .. Len(stack)
        /\ NextInput = NextIn(Len(stack)) /\ NextInput \in DOMAIN query
        /\ Top = stack[Len(stack)] /\ Op = query[Top.op]
    BY <1>1, TopFacts
  <1>4. \A k \in DOMAIN stack' : FrameOk(k)'
    <2> TAKE k \in DOMAIN stack'
    <2>1. CASE k = Len(stack) + 1
      <3>1. Len(query[NextInput].in) \in Nat
        BY <1>3, OperatorFacts, SeqDomain DEF ControlInv
      <3>2. Len(stack'[k].ins) = 0 /\ stack'[k].op = NextInput
        BY <1>2, <2>1, EmptyIsSeq
      <3> QED
        BY <1>1, <1>2, <1>3, <2>1, <3>1, <3>2 DEF FrameOk
    <2>2. CASE k = Len(stack)
      <3>1. stack'[k] = stack[k] /\ Len(stack[k].ins) < Len(query[stack[k].op].in)
        BY <1>1, <1>2, <1>3, <2>2 DEF HasInputsLeft
      <3>2. stack'[k + 1].op = query[stack[k].op].in[Len(stack[k].ins) + 1]
        BY <1>2, <1>3, <2>2 DEF NextIn
      <3>3. Len(stack[k].ins) \in Nat /\ Len(query[stack[k].op].in) \in Nat
        BY <1>1, <1>3, <2>2, TopFacts
      <3> QED
        BY <1>1, <3>1, <3>2, <3>3 DEF FrameOk
    <2>3. CASE k < Len(stack)
      <3>1. k \in DOMAIN stack /\ k + 1 \in 1 .. Len(stack) /\ k \in 1 .. Len(stack)
        BY <1>2, <1>3, <2>3
      <3>2. stack'[k] = stack[k] /\ stack'[k + 1] = stack[k + 1]
        BY <1>2, <3>1
      <3>3. FrameOk(k)
        BY <3>1 DEF ControlInv
      <3> QED
        BY <1>1, <2>3, <3>2, <3>3 DEF FrameOk
    <2> QED
      BY <1>2, <1>3, <2>1, <2>2, <2>3
  <1>5. stack' \in Seq([op : DOMAIN query', ins : Seq(DOMAIN graph')])
    BY <1>1, <1>2 DEF Frames
  <1>6. /\ QueryOk(query') /\ GraphOk(graph') /\ provCounts' \in [ProvPrefixes -> Int]
        /\ query' # << >> /\ opToRewrittenOp' \in [DOMAIN query' -> {0} \union DOMAIN graph']
    BY <1>1 DEF ControlInv
  <1>7. stack' # << >> /\ phase' = "rewrite"
    BY <1>1, <1>2, <1>3, EmptyIsSeq
  <1> QED
    BY <1>4, <1>5, <1>6, <1>7 DEF ControlInv

\* A step that builds the rewriting of the innermost call's operator.
BuildStep(g) ==
    /\ phase = "rewrite" /\ query' = query /\ GraphOk(g)
    /\ Len(Top.ins) = Len(Op.in) /\ Op.type # "DuplicateRemoval"
    /\ Built(g) /\ Return(g, Len(g))
    /\ provCounts' \in [ProvPrefixes -> Int]

\* A step that finds table information missing.
FailStep(nodes) ==
    /\ phase = "rewrite" /\ phase' = "failed" /\ InfoMissing(nodes)
    /\ UNCHANGED << query, stack, graph, opToRewrittenOp, provCounts >>

\* A step that reuses node c for the next input.
ReuseStep(c, g) ==
    /\ HasInputsLeft /\ NextInput \in RewrittenOps /\ c = opToRewrittenOp[NextInput]
    /\ c \in DOMAIN graph /\ g = rewriteReuse(graph, c)
    /\ query' = query /\ graph' = g /\ phase' = phase
    /\ opToRewrittenOp' = opToRewrittenOp
    /\ Builds(graph, g, {c}) /\ (LinksOk(graph) => LinksOk(g))
    /\ g[Len(g)].info = graph[c].info /\ graph[c].info # << >>
    /\ Delivered(Len(stack), NextInput, Len(g))
    /\ provCounts' \in [ProvPrefixes -> Int]

LEMMA LeafStep ==
    ASSUME ControlInv, rewriteLeafOp
    PROVE  \E g : BuildStep(g)
  <1>1. Ready(Leaves) /\ query' = query
    BY DEF rewriteLeafOp, Leaves
  <1>2. Op.type \in Leaves /\ phase = "rewrite" /\ Len(Top.ins) = Len(Op.in)
    BY <1>1 DEF Ready
  <1> DEFINE prefix == IF Op.type = "TableAccess" THEN Op.how ELSE "query"
             counts == increaseRefCount(prefix)
             g == IF Op.type = "TableAccess"
                  THEN rewriteTableAccess(graph, Op, counts[prefix])
                  ELSE rewriteConstRel(graph, Op, counts[prefix])
  <1>3. provCounts' = counts /\ Return(g, Len(g))
    BY DEF rewriteLeafOp
  <1>4. prefix \in ProvPrefixes
    <2>1. Top.op \in DOMAIN query /\ Op = query[Top.op]
      BY <1>2, TopFacts
    <2>2. Op.type = "TableAccess" => Op.how \in Tables
      BY <2>1, OperatorFacts DEF ControlInv, OperatorOk
    <2> QED
      BY <2>2 DEF ProvPrefixes
  <1>5. provCounts' \in [ProvPrefixes -> Int]
    <2> HIDE DEF prefix
    <2>1. provCounts \in [ProvPrefixes -> Int]
      BY DEF ControlInv
    <2>2. provCounts' = [provCounts EXCEPT ![prefix] = @ + 1]
      BY <1>3 DEF increaseRefCount
    <2> QED
      BY <1>4, <2>1, <2>2
  <1>6. Built(g)
    <2> DEFINE cnt == counts[prefix]
    <2> HIDE DEF cnt
    <2>1. Built(rewriteTableAccess(graph, Op, cnt)) /\ Built(rewriteConstRel(graph, Op, cnt))
      BY <1>1, LeafOpBuilds
    <2> QED
      BY <2>1 DEF cnt
  <1> HIDE DEF g, prefix, counts
  <1>7. BuildStep(g)
    BY <1>1, <1>2, <1>3, <1>5, <1>6 DEF BuildStep, Built, Builds, Leaves
  <1> QED
    BY <1>7

LEMMA LimitStep ==
    ASSUME ControlInv, rewriteLimitOp
    PROVE  \E g : BuildStep(g)
  <1>1. Ready({"Limit"}) /\ query' = query /\ provCounts' = provCounts
    BY DEF rewriteLimitOp
  <1>2. Op.type = "Limit" /\ phase = "rewrite" /\ Len(Top.ins) = Len(Op.in)
    BY <1>1 DEF Ready
  <1> DEFINE g == rewriteLimit(graph, Op, Top.ins)
  <1>3. Return(g, Len(g)) /\ Built(g)
    BY <1>1, LimitOpBuilds DEF rewriteLimitOp
  <1>4. provCounts' \in [ProvPrefixes -> Int]
    BY <1>1 DEF ControlInv
  <1> HIDE DEF g
  <1>5. BuildStep(g)
    BY <1>1, <1>2, <1>3, <1>4 DEF BuildStep, Built, Builds
  <1> QED
    BY <1>5

LEMMA OpStep ==
    ASSUME ControlInv, rewriteOp
    PROVE  \/ \E g : BuildStep(g)
           \/ FailStep(Top.ins) /\ Op.type \notin {"Limit", "DuplicateRemoval"}
  <1> DEFINE types == {"Selection", "Order", "Projection", "Aggregation", "Join", "Set"}
  <1>1. Ready(types) /\ query' = query /\ provCounts' = provCounts
    BY DEF rewriteOp
  <1>2. Op.type \in types /\ phase = "rewrite" /\ Len(Top.ins) = Len(Op.in)
    BY <1>1 DEF Ready
  <1>3. CASE InfoMissing(Top.ins)
    BY <1>1, <1>2, <1>3 DEF rewriteOp, FailStep
  <1>4. CASE ~ InfoMissing(Top.ins)
    <2> DEFINE g == Rewritten(Op, Top.ins)
    <2>1. Return(g, Len(g)) /\ Built(g)
      BY <1>1, <1>4, OpBuilds DEF rewriteOp
    <2>2. provCounts' \in [ProvPrefixes -> Int]
      BY <1>1 DEF ControlInv
    <2> HIDE DEF g
    <2>3. BuildStep(g)
      BY <1>1, <1>2, <2>1, <2>2 DEF BuildStep, Built, Builds
    <2> QED
      BY <2>3
  <1> QED
    BY <1>3, <1>4

LEMMA ReusedStep ==
    ASSUME ControlInv, reuseRewrittenOp
    PROVE  \/ \E c, g : ReuseStep(c, g)
           \/ FailStep(<< opToRewrittenOp[NextInput] >>) /\ NextInput \in RewrittenOps
                /\ HasInputsLeft
  <1> DEFINE c == opToRewrittenOp[NextInput]
             g == rewriteReuse(graph, c)
  <1>1. /\ HasInputsLeft /\ c # 0 /\ phase = "rewrite"
        /\ query' = query /\ opToRewrittenOp' = opToRewrittenOp
        /\ \/ /\ InfoMissing(<< c >>) /\ phase' = "failed"
              /\ UNCHANGED << stack, graph, provCounts >>
           \/ /\ ~ InfoMissing(<< c >>) /\ phase' = phase
              /\ graph' = g /\ provCounts' = ReuseCounts(graph[c].info)
              /\ stack' = [stack EXCEPT ![Len(stack)].ins = Append(@, Len(g))]
    BY DEF reuseRewrittenOp, HasInputsLeft
  <1>2. NextInput \in DOMAIN query
    BY <1>1, TopFacts
  <1>3. NextInput \in RewrittenOps /\ c \in DOMAIN graph
    BY <1>1, <1>2 DEF ControlInv, RewrittenOps
  <1>4. CASE InfoMissing(<< c >>)
    BY <1>1, <1>3, <1>4 DEF FailStep
  <1>5. CASE ~ InfoMissing(<< c >>)
    <2>1. GraphOk(graph)
      BY DEF ControlInv
    <2>2. /\ Builds(graph, g, {c}) /\ (LinksOk(graph) => LinksOk(g))
          /\ g[Len(g)].info = graph[c].info
      <3> HIDE DEF c
      <3> QED
        BY <1>3, <2>1, ReuseBuilds
    <2>3. graph[c].info # << >>
      <3> HIDE DEF c
      <3>1. 1 \in DOMAIN << c >> /\ << c >>[1] = c
        OBVIOUS
      <3> QED
        BY <1>5, <3>1 DEF InfoMissing
    <2>4. provCounts' \in [ProvPrefixes -> Int]
      <3> DEFINE info == graph[c].info
      <3>1. provCounts' = ReuseCounts(info)
        BY <1>1, <1>5
      <3>2. IsSeq(info)
        BY <1>3, <2>1 DEF GraphOk, IsNode
      <3> HIDE DEF info
      <3>3. \A t : Cardinality({j \in DOMAIN info : info[j][1] = t}) \in Nat
        <4> TAKE t
        <4>1. Len(info) \in Nat /\ DOMAIN info = 1 .. Len(info)
          BY <3>2, SeqDomain
        <4>2. IsFiniteSet(1 .. Len(info))
          BY <4>1, FS_Interval
        <4>3. IsFiniteSet({j \in DOMAIN info : info[j][1] = t})
          BY <4>1, <4>2, FS_Subset
        <4> QED
          BY <4>3, FS_CardinalityType
      <3>4. provCounts \in [ProvPrefixes -> Int]
        BY DEF ControlInv
      <3>5. \A t \in ProvPrefixes :
               provCounts[t] + Cardinality({j \in DOMAIN info : info[j][1] = t}) \in Int
        <4> TAKE t \in ProvPrefixes
        <4> DEFINE n == Cardinality({j \in DOMAIN info : info[j][1] = t})
        <4>1. n \in Nat /\ provCounts[t] \in Int
          BY <3>3, <3>4
        <4> HIDE DEF n
        <4>2. provCounts[t] + n \in Int
          BY <4>1
        <4> QED
          BY <4>2 DEF n
      <3> QED
        BY <3>1, <3>5 DEF ReuseCounts
    <2>8. g = rewriteReuse(graph, c)
      OBVIOUS
    <2> HIDE DEF g, c
    <2>5. GraphOk(g) /\ Len(graph) <= Len(g) /\ Len(g) \in DOMAIN g
      <3>1. GraphOk(g) /\ Len(graph) < Len(g) /\ Len(g) \in DOMAIN g
        BY <2>2 DEF Builds
      <3> QED
        BY <2>1, <3>1, GraphDomain
    <2>6. Delivered(Len(stack), NextInput, Len(g))
      BY <1>1, <1>5, <2>5, ReuseFacts
    <2>7. ReuseStep(c, g)
      BY <1>1, <1>3, <1>5, <2>2, <2>3, <2>4, <2>6, <2>8 DEF ReuseStep, c
    <2> QED
      BY <2>7
  <1> QED
    BY <1>4, <1>5

LEMMA BuiltDelivered ==
    ASSUME ControlInv, NEW g, BuildStep(g)
    PROVE  /\ Delivered(Len(stack) - 1, Top.op, Len(g))
           /\ opToRewrittenOp' = [opToRewrittenOp EXCEPT ![Top.op] = Len(g)]
           /\ GraphOk(graph') /\ Len(graph') = Len(g) /\ Extends(graph, graph', ToSet(Top.ins))
           /\ graph'[Len(g)].parents = << >> /\ Len(graph) < Len(g) /\ Len(g) \notin DOMAIN graph
           /\ Op.type # "Limit" => graph'[Len(g)].info # << >>
           /\ LinksOk(g) => LinksOk(graph')
           /\ IF Len(stack) = 1 THEN phase' = "done" ELSE phase' = "rewrite"
  <1>1. /\ Builds(graph, g, ToSet(Top.ins)) /\ Len(g) \in DOMAIN g /\ GraphOk(g)
        /\ Len(graph) < Len(g) /\ Extends(graph, g, ToSet(Top.ins))
        /\ g[Len(g)].parents = << >>
        /\ Op.type # "Limit" => g[Len(g)].info # << >>
    BY DEF BuildStep, Built, Builds
  <1>2. /\ Len(graph) \in Nat /\ DOMAIN graph = 1 .. Len(graph) /\ Len(g) \in Nat
        /\ GraphOk(graph) /\ DOMAIN g = 1 .. Len(g)
    BY <1>1, GraphDomain DEF ControlInv
  <1>3. /\ Delivered(Len(stack) - 1, Top.op, Len(g))
        /\ opToRewrittenOp' = [opToRewrittenOp EXCEPT ![Top.op] = Len(g)]
        /\ GraphOk(graph') /\ Len(graph') = Len(g) /\ DOMAIN graph' = DOMAIN g
        /\ Extends(g, graph', {}) /\ (LinksOk(g) => LinksOk(graph'))
        /\ IF Len(stack) = 1 THEN phase' = "done" ELSE phase' = "rewrite"
    <2>1. Len(graph) <= Len(g)
      BY <1>1, <1>2
    <2>2. phase = "rewrite" /\ query' = query /\ Return(g, Len(g))
      BY DEF BuildStep
    <2> DEFINE node == Len(g)
    <2>3. node \in DOMAIN g /\ g[node].parents = << >> /\ Return(g, node)
      BY <1>1, <2>2
    <2> HIDE DEF node
    <2>4. /\ Delivered(Len(stack) - 1, Top.op, node)
          /\ opToRewrittenOp' = [opToRewrittenOp EXCEPT ![Top.op] = node]
          /\ GraphOk(graph') /\ Len(graph') = Len(g) /\ DOMAIN graph' = DOMAIN g
          /\ Extends(g, graph', {}) /\ (LinksOk(g) => LinksOk(graph'))
          /\ IF Len(stack) = 1 THEN phase' = "done" ELSE phase' = "rewrite"
      BY <1>1, <2>1, <2>2, <2>3, ReturnFacts
    <2> QED
      BY <2>4 DEF node
  <1>4. Extends(graph, graph', ToSet(Top.ins))
    <2>1. IsSeq(graph) /\ IsSeq(g) /\ IsSeq(graph')
      BY <1>1, <1>2, <1>3 DEF GraphOk
    <2>2. Extends(graph, graph', ToSet(Top.ins) \union {})
      BY <1>1, <1>3, <2>1, ExtendsTransitive
    <2>3. ToSet(Top.ins) \union {} = ToSet(Top.ins)
      OBVIOUS
    <2> QED
      BY <2>2, <2>3
  <1>5. graph'[Len(g)].parents = << >> /\ graph'[Len(g)].info = g[Len(g)].info
    <2>1. SameButParents(graph'[Len(g)], g[Len(g)]) /\ graph'[Len(g)].parents = g[Len(g)].parents
      BY <1>1, <1>3 DEF Extends
    <2> QED
      BY <1>1, <2>1, SameFields
  <1>6. Len(g) \notin DOMAIN graph
    BY <1>1, <1>2
  <1> QED
    BY <1>1, <1>3, <1>4, <1>5, <1>6

\* The rewritten input of a duplicate removal stands for it.
LEMMA DuplicateStep ==
    ASSUME ControlInv, rewriteDuplicateRemOp
    PROVE  /\ phase = "rewrite" /\ query' = query /\ provCounts' = provCounts
           /\ Op.type = "DuplicateRemoval" /\ DOMAIN Top.ins = 1 .. 1
           /\ Top.ins[1] \in DOMAIN graph
           /\ Delivered(Len(stack) - 1, Top.op, Top.ins[1])
           /\ opToRewrittenOp' = [opToRewrittenOp EXCEPT ![Top.op] = Top.ins[1]]
           /\ GraphOk(graph') /\ Len(graph') = Len(graph)
           /\ Extends(graph, graph', {Top.ins[1]})
           /\ graph[Top.ins[1]].parents = << >> =>
                Extends(graph, graph', {}) /\ (LinksOk(graph) => LinksOk(graph'))
           /\ IF Len(stack) = 1 THEN phase' = "done" ELSE phase' = "rewrite"
  <1>1. /\ Ready({"DuplicateRemoval"}) /\ Return(graph, Top.ins[1])
        /\ query' = query /\ provCounts' = provCounts
    BY DEF rewriteDuplicateRemOp
  <1>2. /\ phase = "rewrite" /\ Op.type = "DuplicateRemoval" /\ DOMAIN Top.ins = 1 .. 1
        /\ Top.ins[1] \in DOMAIN graph /\ GraphOk(graph)
    BY <1>1, ReadyFacts, ArityFacts
  <1>3. Len(graph) <= Len(graph)
    BY <1>2, GraphDomain
  <1> DEFINE node == Top.ins[1]
  <1>4. node \in DOMAIN graph /\ Return(graph, node)
    BY <1>1, <1>2
  <1> HIDE DEF node
  <1>5. /\ Delivered(Len(stack) - 1, Top.op, node)
        /\ opToRewrittenOp' = [opToRewrittenOp EXCEPT ![Top.op] = node]
        /\ GraphOk(graph') /\ Len(graph') = Len(graph)
        /\ Extends(graph, graph', {node})
        /\ graph[node].parents = << >> =>
             Extends(graph, graph', {}) /\ (LinksOk(graph) => LinksOk(graph'))
        /\ IF Len(stack) = 1 THEN phase' = "done" ELSE phase' = "rewrite"
    BY <1>1, <1>2, <1>3, <1>4, ReturnFacts
  <1> QED
    BY <1>1, <1>2, <1>5 DEF node

\* Every step is of one of these kinds.
LEMMA ControlSteps ==
    ASSUME ControlInv, [Next]_vars
    PROVE  ControlInv'
  <1>1. CASE addOperator
    BY <1>1, ControlAddOperator
  <1>2. CASE rewritePI_CS
    BY <1>2, ControlStart
  <1>3. CASE rewriteInput
    BY <1>3, ControlPush
  <1>4. ASSUME NEW nodes, FailStep(nodes) PROVE ControlInv'
    <2>1. /\ phase' = "failed" /\ phase = "rewrite"
          /\ UNCHANGED << query, stack, graph, opToRewrittenOp, provCounts >>
      BY <1>4 DEF FailStep
    <2>2. (\A k \in DOMAIN stack : FrameOk(k)) => \A k \in DOMAIN stack' : FrameOk(k)'
      BY <2>1 DEF FrameOk
    <2> QED
      BY <2>1, <2>2 DEF ControlInv
  <1>5. ASSUME NEW c, NEW g, ReuseStep(c, g) PROVE ControlInv'
    <2>1. /\ phase = "rewrite" /\ phase' = phase /\ query' = query
          /\ Delivered(Len(stack), NextInput, Len(g)) /\ GraphOk(graph')
          /\ opToRewrittenOp' = opToRewrittenOp
          /\ provCounts' \in [ProvPrefixes -> Int]
          /\ HasInputsLeft
      BY <1>5 DEF ReuseStep, HasInputsLeft, Builds
    <2>2. NextInput \in DOMAIN query /\ Len(stack) # 0
      BY <2>1, TopFacts
    <2> DEFINE m == Len(stack)
               node == Len(g)
    <2>3. Delivered(m, NextInput, node) /\ m # 0
      BY <2>1, <2>2
    <2> HIDE DEF m, node
    <2> QED
      BY <2>1, <2>2, <2>3, ControlDelivered
  <1>6. ASSUME NEW g, BuildStep(g) PROVE ControlInv'
    <2>1. /\ phase = "rewrite" /\ query' = query /\ provCounts' \in [ProvPrefixes -> Int]
      BY <1>6 DEF BuildStep
    <2>2. Top.op \in DOMAIN query /\ Len(stack) \in Nat
      BY <2>1, TopFacts
    <2> DEFINE m == Len(stack) - 1
               node == Len(g)
    <2>3. /\ Delivered(m, Top.op, node) /\ GraphOk(graph')
          /\ opToRewrittenOp' = [opToRewrittenOp EXCEPT ![Top.op] = node]
          /\ IF Len(stack) = 1 THEN phase' = "done" ELSE phase' = "rewrite"
      BY <1>6, BuiltDelivered
    <2>4. Len(stack) = 1 <=> m = 0
      BY <2>2
    <2> HIDE DEF m, node
    <2> QED
      BY <2>1, <2>2, <2>3, <2>4, ControlDelivered
  <1>7. CASE rewriteDuplicateRemOp
    <2>1. /\ phase = "rewrite" /\ query' = query /\ provCounts' = provCounts
          /\ GraphOk(graph')
          /\ IF Len(stack) = 1 THEN phase' = "done" ELSE phase' = "rewrite"
      BY <1>7, DuplicateStep
    <2>2. /\ Top.op \in DOMAIN query /\ Len(stack) \in Nat
          /\ provCounts' \in [ProvPrefixes -> Int]
      BY <2>1, TopFacts DEF ControlInv
    <2> DEFINE m == Len(stack) - 1
               node == Top.ins[1]
    <2>3. /\ Delivered(m, Top.op, node)
          /\ opToRewrittenOp' = [opToRewrittenOp EXCEPT ![Top.op] = node]
      BY <1>7, DuplicateStep
    <2>4. Len(stack) = 1 <=> m = 0
      BY <2>2
    <2> HIDE DEF m, node
    <2> QED
      BY <2>1, <2>2, <2>3, <2>4, ControlDelivered
  <1>8. CASE reuseRewrittenOp
    BY <1>4, <1>5, <1>8, ReusedStep
  <1>9. CASE rewriteLeafOp
    BY <1>6, <1>9, LeafStep
  <1>10. CASE rewriteLimitOp
    BY <1>6, <1>10, LimitStep
  <1>11. CASE rewriteOp
    BY <1>4, <1>6, <1>11, OpStep
  <1>12. CASE UNCHANGED vars
    <2>1. UNCHANGED << query, phase, stack, graph, opToRewrittenOp, provCounts >>
      BY <1>12 DEF vars
    <2>2. (\A k \in DOMAIN stack : FrameOk(k)) => \A k \in DOMAIN stack' : FrameOk(k)'
      BY <2>1 DEF FrameOk
    <2> QED
      BY <2>1, <2>2 DEF ControlInv
  <1> QED
    BY <1>1, <1>2, <1>3, <1>7, <1>8, <1>9, <1>10, <1>11, <1>12 DEF Next

\* The calls of the rewrite and the graph they build keep their shape: every
\* call on the stack of rewritePI_CSOperator has as many results as inputs
\* done, results are nodes of the graph, and nodes hold what their type says.
THEOREM ControlIsInvariant == Spec => []ControlInv
  <1>1. Init => ControlInv
    BY ControlInit
  <1>2. ControlInv /\ [Next]_vars => ControlInv'
    BY ControlSteps
  <1> QED
    BY <1>1, <1>2, PTL DEF Spec

-----------------------------------------------------------------------------
(***************************************************************************)
(* No rewriting without table information is asked for it                  *)
(***************************************************************************)
LEMMA NoBindings ==
    ASSUME DOMAIN stack = {} \/ \A k \in DOMAIN stack : DOMAIN stack[k].ins = {},
           RewrittenOps = {}
    PROVE  Bindings = {}
  <1> SUFFICES ASSUME NEW b \in Bindings PROVE FALSE
    OBVIOUS
  <1>1. CASE \E i \in RewrittenOps : b = << i, opToRewrittenOp[i] >>
    BY <1>1
  <1>2. CASE \E k \in DOMAIN stack : \E j \in DOMAIN stack[k].ins :
                  b = << query[stack[k].op].in[j], stack[k].ins[j] >>
    BY <1>2
  <1> QED
    BY <1>1, <1>2, BindingCases

LEMMA NoBindingsNext ==
    ASSUME DOMAIN stack' = {} \/ \A k \in DOMAIN stack' : DOMAIN stack'[k].ins = {},
           RewrittenOps' = {}
    PROVE  Bindings' = {}
  <1> SUFFICES ASSUME NEW b \in Bindings' PROVE FALSE
    OBVIOUS
  <1>1. CASE \E i \in RewrittenOps' : b = << i, opToRewrittenOp'[i] >>
    BY <1>1
  <1>2. CASE \E k \in DOMAIN stack' : \E j \in DOMAIN stack'[k].ins :
                  b = << query'[stack'[k].op].in[j], stack'[k].ins[j] >>
    BY <1>2
  <1> QED
    BY <1>1, <1>2, BindingCasesNext

\* While the query is built, and when the rewrite starts, nothing is bound.
LEMMA AnalyzeState ==
    ASSUME ControlInv, phase = "analyze"
    PROVE  stack = << >> /\ DOMAIN stack = {} /\ RewrittenOps = {} /\ Bindings = {}
           /\ graph = << >>
  <1>1. stack = << >> /\ opToRewrittenOp = << >> /\ graph = << >>
    BY DEF ControlInv
  <1>2. RewrittenOps = {} /\ DOMAIN stack = {}
    BY <1>1, EmptyIsSeq DEF RewrittenOps
  <1> QED
    BY <1>1, <1>2, NoBindings

LEMMA AnalyzeStep ==
    ASSUME ControlInv, addOperator \/ rewritePI_CS
    PROVE  /\ DOMAIN stack' \subseteq 1 .. 1 /\ RewrittenOps' = {} /\ Bindings' = {}
           /\ \A k \in DOMAIN stack' : stack'[k].ins = << >>
           /\ graph' = << >>
  <1>1. CASE addOperator
    <2>1. stack' = << >> /\ opToRewrittenOp' = << >> /\ graph' = << >>
      BY <1>1 DEF addOperator, ControlInv
    <2>2. RewrittenOps' = {} /\ DOMAIN stack' = {}
      BY <2>1, EmptyIsSeq DEF RewrittenOps
    <2> QED
      BY <2>1, <2>2, NoBindingsNext
  <1>2. CASE rewritePI_CS
    <2>1. /\ stack' = << [op |-> Len(query), ins |-> << >>] >> /\ graph' = << >>
          /\ opToRewrittenOp' = [i \in DOMAIN query |-> 0]
      BY <1>2 DEF rewritePI_CS, ControlInv
    <2>2. RewrittenOps' = {}
      BY <2>1 DEF RewrittenOps
    <2>3. DOMAIN stack' = 1 .. 1 /\ \A k \in DOMAIN stack' : stack'[k].ins = << >>
      BY <2>1
    <2>4. \A k \in DOMAIN stack' : DOMAIN stack'[k].ins = {}
      BY <2>3, EmptyIsSeq
    <2> QED
      BY <2>1, <2>2, <2>3, <2>4, NoBindingsNext
  <1> QED
    BY <1>1, <1>2

\* An operator over an input that stands for a limit stands for it as well.
LEMMA OverLimit ==
    ASSUME ControlInv, "limit" \notin Admit, NEW i \in DOMAIN query,
           NEW j \in DOMAIN query[i].in, IsLimit(query[i].in[j])
    PROVE  query[i].type \in {"Limit", "DuplicateRemoval"} /\ IsLimit(i)
  <1>1. OperatorOk(query, i) /\ DOMAIN query[i].in = 1 .. Len(query[i].in)
        /\ Len(query[i].in) = Arity(query[i].type)
    BY OperatorFacts DEF ControlInv
  <1>2. query[i].type \in {"Limit", "DuplicateRemoval"}
    BY <1>1 DEF OperatorOk, InScope, LimitOk, IsLimit
  <1>3. j = 1
    BY <1>1, <1>2, ArityFacts
  <1> QED
    BY <1>1, <1>2, <1>3 DEF OperatorOk, IsLimit

\* What stands for a limit is one or a duplicate removal: it has one input.
LEMMA LimitIsUnary ==
    ASSUME ControlInv, NEW i \in DOMAIN query, IsLimit(i)
    PROVE  Len(query[i].in) = 1
  <1>1. OperatorOk(query, i) /\ Len(query[i].in) = Arity(query[i].type)
    BY OperatorFacts DEF ControlInv
  <1>2. query[i].type \in {"Limit", "DuplicateRemoval"}
    BY <1>1 DEF OperatorOk, IsLimit
  <1> QED
    BY <1>1, <1>2, ArityFacts

LEMMA InputBinding ==
    ASSUME ControlInv, NEW k \in DOMAIN stack, NEW j \in DOMAIN stack[k].ins
    PROVE  << query[stack[k].op].in[j], stack[k].ins[j] >> \in Bindings
           /\ j \in DOMAIN query[stack[k].op].in
  <1>1. /\ DOMAIN stack[k].ins = 1 .. Len(stack[k].ins) /\ Len(stack[k].ins) \in Nat
        /\ Len(stack[k].ins) <= Len(query[stack[k].op].in) /\ stack[k].op \in DOMAIN query
    BY FrameFacts
  <1>2. DOMAIN query[stack[k].op].in = 1 .. Len(query[stack[k].op].in)
        /\ Len(query[stack[k].op].in) \in Nat
    BY <1>1, OperatorFacts, SeqDomain DEF ControlInv
  <1> QED
    BY <1>1, <1>2, BindingCases

LEMMA LimitNoFailure ==
    ASSUME ControlInv, LimitInv, "limit" \notin Admit, rewriteOp \/ reuseRewrittenOp,
           NEW nodes, FailStep(nodes),
           \/ nodes = Top.ins /\ Op.type \notin {"Limit", "DuplicateRemoval"}
           \/ /\ nodes = << opToRewrittenOp[NextInput] >> /\ NextInput \in RewrittenOps
              /\ HasInputsLeft
    PROVE  FALSE
  <1>1. phase = "rewrite" /\ \E x \in DOMAIN nodes : graph[nodes[x]].info = << >>
    BY DEF FailStep, InfoMissing
  <1>2. /\ Len(stack) \in DOMAIN stack /\ Top = stack[Len(stack)] /\ Top.op \in DOMAIN query
        /\ Op = query[Top.op] /\ Len(stack) \in Nat /\ DOMAIN stack = 1 .. Len(stack)
        /\ stack # << >> /\ Len(Top.ins) \in Nat
        /\ HasInputsLeft => /\ Len(Top.ins) + 1 \in DOMAIN Op.in
                            /\ NextInput = NextIn(Len(stack))
                            /\ NextInput \in DOMAIN query
    BY <1>1, TopFacts
  <1>3. CASE nodes = Top.ins /\ Op.type \notin {"Limit", "DuplicateRemoval"}
    <2>1. PICK j \in DOMAIN Top.ins : graph[Top.ins[j]].info = << >>
      BY <1>1, <1>3
    <2>2. << Op.in[j], Top.ins[j] >> \in Bindings /\ j \in DOMAIN Op.in
      BY <1>2, <2>1, InputBinding
    <2> DEFINE b == << Op.in[j], Top.ins[j] >>
    <2>3. b \in Bindings /\ graph[b[2]].info = << >> /\ b[1] = Op.in[j]
      BY <2>1, <2>2
    <2>4. IsLimit(b[1])
      <3> HIDE DEF b
      <3> QED
        BY <2>3 DEF LimitInv
    <2>5. IsLimit(Op.in[j])
      BY <2>3, <2>4
    <2> QED
      BY <1>2, <1>3, <2>2, <2>5, OverLimit
  <1>4. CASE /\ nodes = << opToRewrittenOp[NextInput] >> /\ NextInput \in RewrittenOps
             /\ HasInputsLeft
    <2> DEFINE b == << NextInput, opToRewrittenOp[NextInput] >>
    <2>1. b \in Bindings
      BY <1>4, BindingCases
    <2>2. graph[b[2]].info = << >> /\ b[1] = NextInput
      BY <1>1, <1>4
    <2>3. IsLimit(NextInput)
      <3>1. IsLimit(b[1])
        <4> HIDE DEF b
        <4> QED
          BY <2>1, <2>2 DEF LimitInv
      <3> QED
        BY <2>2, <3>1
    <2>4. IsLimit(Top.op)
      <3> DEFINE j == Len(Top.ins) + 1
      <3>1. j \in DOMAIN query[Top.op].in /\ query[Top.op].in[j] = NextInput
        BY <1>2, <1>4 DEF NextInput
      <3> HIDE DEF j
      <3> QED
        BY <1>2, <2>3, <3>1, OverLimit
    <2>5. \A k \in DOMAIN stack : stack[k].ins = << >>
      <3> TAKE k \in DOMAIN stack
      <3>1. IsLimit(stack[k].op)
        BY <1>2, <2>4 DEF LimitInv
      <3>2. /\ stack[k].op \in DOMAIN query /\ IsSeq(stack[k].ins) /\ Len(stack[k].ins) \in Nat
            /\ k < Len(stack) => Len(stack[k].ins) < Len(query[stack[k].op].in)
        BY FrameFacts
      <3>3. Len(query[stack[k].op].in) = 1
        BY <3>1, <3>2, LimitIsUnary
      <3>4. Len(stack[k].ins) < Len(query[stack[k].op].in)
        BY <1>2, <1>4, <3>2 DEF HasInputsLeft
      <3>5. Len(stack[k].ins) = 0
        BY <3>2, <3>3, <3>4
      <3> DEFINE s == stack[k].ins
                 S == ToSet(s)
      <3>6. s \in Seq(S) /\ Len(s) = 0
        BY <3>2, <3>5 DEF IsSeq
      <3> HIDE DEF s, S
      <3>7. s = << >>
        BY <3>6
      <3> QED
        BY <3>7 DEF s
    <2> QED
      BY <1>2, <1>4, <2>5 DEF LimitInv
  <1> QED
    BY <1>3, <1>4

LEMMA LimitDelivered ==
    ASSUME ControlInv, LimitInv, phase = "rewrite", query' = query,
           NEW m, NEW i, NEW node, Delivered(m, i, node),
           \/ opToRewrittenOp' = opToRewrittenOp
           \/ opToRewrittenOp' = [opToRewrittenOp EXCEPT ![i] = node],
           \A k \in DOMAIN graph : graph'[k].info = graph[k].info,
           graph'[node].info = << >> => IsLimit(i)
    PROVE  LimitInv'
  <1>1. Bindings' \subseteq Bindings \union {<< i, node >>}
    BY DeliveredBindings
  <1>2. ASSUME NEW b \in Bindings', graph'[b[2]].info = << >> PROVE IsLimit(b[1])'
    <2>1. CASE b = << i, node >>
      BY <1>2, <2>1 DEF IsLimit
    <2>2. CASE b \in Bindings
      <3>1. b[2] \in DOMAIN graph
        BY <2>2, BindingNodes
      <3>2. IsLimit(b[1])
        BY <1>2, <2>2, <3>1 DEF LimitInv
      <3> QED
        BY <3>2 DEF IsLimit
    <2> QED
      BY <1>1, <1>2, <2>1, <2>2
  <1>3. /\ m \in 0 .. Len(stack) /\ DOMAIN stack' = 1 .. m /\ Len(stack') = m
        /\ \A k \in 1 .. m : /\ stack'[k].op = stack[k].op
                             /\ stack'[k].ins = IF k = m THEN Append(stack[k].ins, node)
                                                         ELSE stack[k].ins
        /\ DOMAIN stack = 1 .. Len(stack) /\ Len(stack) \in Nat
    BY DEF Delivered, ControlInv
  <1>4. ASSUME NEW j \in DOMAIN stack', NEW k \in DOMAIN stack', j < k, IsLimit(stack[k].op)'
        PROVE  IsLimit(stack[j].op)'
    <2>1. j \in DOMAIN stack /\ k \in DOMAIN stack
          /\ stack'[j].op = stack[j].op /\ stack'[k].op = stack[k].op
      BY <1>3
    <2>2. IsLimit(stack[k].op)
      BY <1>4, <2>1 DEF IsLimit
    <2>3. IsLimit(stack[j].op)
      BY <1>4, <2>1, <2>2 DEF LimitInv
    <2> QED
      BY <2>1, <2>3 DEF IsLimit
  <1>5. ASSUME stack' # << >> PROVE \E k \in DOMAIN stack' : stack'[k].ins # << >>
    <2>1. m # 0
      <3> SUFFICES ASSUME m = 0 PROVE FALSE
        OBVIOUS
      <3> DEFINE F == Frames'
      <3>1. stack' \in Seq(F) /\ Len(stack') = 0
        BY <1>3 DEF Delivered
      <3> HIDE DEF F
      <3>2. stack' = << >>
        BY <3>1
      <3> QED
        BY <1>5, <3>2
    <2>2. m \in 1 .. m /\ m \in DOMAIN stack
      BY <1>3, <2>1
    <2>3. IsSeq(stack[m].ins)
      BY <2>2, FrameFacts
    <2>4. stack'[m].ins = Append(stack[m].ins, node)
      BY <1>3, <2>2
    <2>5. stack'[m].ins # << >>
      BY <2>3, <2>4, AppendAny
    <2> QED
      BY <1>3, <2>2, <2>5
  <1> QED
    BY <1>2, <1>4, <1>5 DEF LimitInv

LEMMA ExtendsInfo ==
    ASSUME NEW g, NEW h, NEW T, Extends(g, h, T)
    PROVE  \A k \in DOMAIN g : h[k].info = g[k].info
  BY SameFields DEF Extends

LEMMA LimitPush ==
    ASSUME ControlInv, LimitInv, "limit" \notin Admit, rewriteInput
    PROVE  LimitInv'
  <1>1. /\ HasInputsLeft /\ phase = "rewrite"
        /\ stack' = Append(stack, [op |-> NextInput, ins |-> << >>])
        /\ UNCHANGED << query, phase, graph, opToRewrittenOp, provCounts >>
    BY DEF rewriteInput, HasInputsLeft
  <1>2. /\ DOMAIN stack' = 1 .. Len(stack) + 1
        /\ \A k \in 1 .. Len(stack) : stack'[k] = stack[k]
        /\ stack'[Len(stack) + 1].op = NextInput
        /\ Bindings' = Bindings /\ RewrittenOps' = RewrittenOps
    BY <1>1, PushFacts
  <1>3. /\ Len(stack) \in DOMAIN stack /\ Len(stack) \in Nat /\ DOMAIN stack = 1 .. Len(stack)
        /\ Top = stack[Len(stack)] /\ Top.op \in DOMAIN query /\ Op = query[Top.op]
        /\ Len(Top.ins) + 1 \in DOMAIN Op.in /\ stack # << >>
    BY <1>1, TopFacts
  <1>4. \A x : IsLimit(x)' <=> IsLimit(x)
    BY <1>1 DEF IsLimit
  <1>5. IsLimit(NextInput) => IsLimit(Top.op)
    <2> DEFINE j == Len(Top.ins) + 1
    <2>1. j \in DOMAIN query[Top.op].in /\ query[Top.op].in[j] = NextInput
      BY <1>3 DEF NextInput
    <2> HIDE DEF j
    <2> QED
      BY <1>3, <2>1, OverLimit
  <1>6. \A b \in Bindings' : graph'[b[2]].info = << >> => IsLimit(b[1])'
    BY <1>1, <1>2, <1>4 DEF LimitInv
  <1>7. ASSUME NEW j \in DOMAIN stack', NEW k \in DOMAIN stack', j < k, IsLimit(stack[k].op)'
        PROVE  IsLimit(stack[j].op)'
    <2>1. j \in DOMAIN stack /\ stack'[j] = stack[j] /\ j <= Len(stack)
      BY <1>2, <1>3, <1>7
    <2>2. CASE k \in DOMAIN stack
      <3>1. stack'[k] = stack[k]
        BY <1>2, <1>3, <2>2
      <3>2. IsLimit(stack[k].op)
        BY <1>1, <1>7, <3>1 DEF IsLimit
      <3>3. IsLimit(stack[j].op)
        BY <1>7, <2>1, <2>2, <3>2 DEF LimitInv
      <3> QED
        BY <1>1, <2>1, <3>3 DEF IsLimit
    <2>3. CASE k = Len(stack) + 1
      <3>1. IsLimit(NextInput)
        BY <1>1, <1>2, <1>7, <2>3 DEF IsLimit
      <3>2. IsLimit(stack[Len(stack)].op)
        BY <1>3, <1>5, <3>1
      <3>3. IsLimit(stack[j].op)
        <4>1. CASE j = Len(stack)
          BY <3>2, <4>1
        <4>2. CASE j < Len(stack)
          BY <1>3, <2>1, <3>2, <4>2 DEF LimitInv
        <4> QED
          BY <1>3, <2>1, <1>2, <4>1, <4>2
      <3> QED
        BY <1>1, <2>1, <3>3 DEF IsLimit
    <2> QED
      BY <1>2, <1>3, <2>2, <2>3
  <1>8. RewrittenOps' # {} => \E k \in DOMAIN stack' : stack'[k].ins # << >>
    <2> SUFFICES ASSUME RewrittenOps # {}
                 PROVE  \E k \in DOMAIN stack' : stack'[k].ins # << >>
      BY <1>2
    <2>1. PICK k \in DOMAIN stack : stack[k].ins # << >>
      BY <1>3 DEF LimitInv
    <2>2. k \in DOMAIN stack' /\ stack'[k] = stack[k]
      BY <1>2, <1>3
    <2> QED
      BY <2>1, <2>2
  <1> QED
    BY <1>6, <1>7, <1>8 DEF LimitInv

LEMMA LimitSteps ==
    ASSUME ControlInv, LimitInv, "limit" \notin Admit, phase # "failed", [Next]_vars
    PROVE  LimitInv' /\ phase' # "failed"
  <1>1. CASE addOperator \/ rewritePI_CS
    <2>1. /\ DOMAIN stack' \subseteq 1 .. 1 /\ RewrittenOps' = {} /\ Bindings' = {}
      BY <1>1, AnalyzeStep
    <2>2. phase' # "failed"
      BY <1>1 DEF addOperator, rewritePI_CS
    <2> QED
      BY <2>1, <2>2 DEF LimitInv
  <1>2. CASE rewriteInput
    BY <1>2, LimitPush DEF rewriteInput
  <1>3. ASSUME NEW c, NEW g, ReuseStep(c, g) PROVE LimitInv' /\ phase' # "failed"
    <2>1. /\ phase = "rewrite" /\ phase' = phase /\ query' = query /\ graph' = g
          /\ Delivered(Len(stack), NextInput, Len(g)) /\ Extends(graph, g, {c})
          /\ opToRewrittenOp' = opToRewrittenOp
          /\ g[Len(g)].info # << >>
      BY <1>3 DEF ReuseStep, HasInputsLeft, Builds
    <2>2. \A k \in DOMAIN graph : graph'[k].info = graph[k].info
      BY <2>1, ExtendsInfo
    <2> DEFINE m == Len(stack)
               node == Len(g)
    <2>3. Delivered(m, NextInput, node) /\ graph'[node].info # << >>
      BY <2>1
    <2> HIDE DEF m, node
    <2>4. LimitInv'
      BY <2>1, <2>2, <2>3, LimitDelivered
    <2> QED
      BY <2>1, <2>4
  <1>4. ASSUME NEW g, BuildStep(g) PROVE LimitInv' /\ phase' # "failed"
    <2>1. /\ phase = "rewrite" /\ query' = query
      BY <1>4 DEF BuildStep
    <2>2. Top.op \in DOMAIN query /\ Len(stack) \in Nat /\ Op = query[Top.op]
      BY <2>1, TopFacts
    <2> DEFINE m == Len(stack) - 1
               node == Len(g)
    <2>3. /\ Delivered(m, Top.op, node) /\ Extends(graph, graph', ToSet(Top.ins))
          /\ opToRewrittenOp' = [opToRewrittenOp EXCEPT ![Top.op] = node]
          /\ Op.type # "Limit" => graph'[node].info # << >>
          /\ IF Len(stack) = 1 THEN phase' = "done" ELSE phase' = "rewrite"
      BY <1>4, BuiltDelivered
    <2>4. \A k \in DOMAIN graph : graph'[k].info = graph[k].info
      BY <2>3, ExtendsInfo
    <2>5. graph'[node].info = << >> => IsLimit(Top.op)
      <3> SUFFICES ASSUME Op.type = "Limit" PROVE IsLimit(Top.op)
        BY <2>3
      <3>1. OperatorOk(query, Top.op)
        BY <2>2, OperatorFacts DEF ControlInv
      <3> QED
        BY <2>2, <3>1 DEF OperatorOk, IsLimit
    <2> HIDE DEF m, node
    <2>6. LimitInv'
      BY <2>1, <2>3, <2>4, <2>5, LimitDelivered
    <2> QED
      BY <2>3, <2>6
  <1>5. CASE rewriteDuplicateRemOp
    <2>1. /\ phase = "rewrite" /\ query' = query
          /\ Op.type = "DuplicateRemoval" /\ DOMAIN Top.ins = 1 .. 1
          /\ Extends(graph, graph', {Top.ins[1]}) /\ Top.ins[1] \in DOMAIN graph
          /\ IF Len(stack) = 1 THEN phase' = "done" ELSE phase' = "rewrite"
      BY <1>5, DuplicateStep
    <2>2. /\ Len(stack) \in DOMAIN stack /\ Top = stack[Len(stack)] /\ Top.op \in DOMAIN query
          /\ Op = query[Top.op]
      BY <2>1, TopFacts
    <2> DEFINE m == Len(stack) - 1
               node == Top.ins[1]
    <2>3. /\ Delivered(m, Top.op, node)
          /\ opToRewrittenOp' = [opToRewrittenOp EXCEPT ![Top.op] = node]
      BY <1>5, DuplicateStep
    <2>4. \A k \in DOMAIN graph : graph'[k].info = graph[k].info
      BY <2>1, ExtendsInfo
    <2>5. graph'[node].info = << >> => IsLimit(Top.op)
      <3> DEFINE b == << Op.in[1], Top.ins[1] >>
      <3>1. b \in Bindings
        BY <2>1, <2>2, InputBinding
      <3>2. graph'[node].info = << >> => IsLimit(b[1])
        <4>1. graph'[node].info = graph[b[2]].info
          BY <2>1, <2>4
        <4> HIDE DEF b, node
        <4> QED
          BY <3>1, <4>1 DEF LimitInv
      <3>3. OperatorOk(query, Top.op)
        BY <2>2, OperatorFacts DEF ControlInv
      <3>4. query[Top.op].core = query[Op.in[1]].core
        BY <2>1, <2>2, <3>3 DEF OperatorOk
      <3> QED
        BY <3>2, <3>4 DEF IsLimit
    <2> HIDE DEF m, node
    <2>6. LimitInv'
      BY <2>1, <2>3, <2>4, <2>5, LimitDelivered
    <2> QED
      BY <2>1, <2>6
  <1>6. CASE reuseRewrittenOp
    <2>1. ~ (FailStep(<< opToRewrittenOp[NextInput] >>) /\ NextInput \in RewrittenOps
                /\ HasInputsLeft)
      BY <1>6, LimitNoFailure
    <2> QED
      BY <1>3, <1>6, <2>1, ReusedStep
  <1>7. CASE rewriteOp
    <2>1. ~ (FailStep(Top.ins) /\ Op.type \notin {"Limit", "DuplicateRemoval"})
      BY <1>7, LimitNoFailure
    <2> QED
      BY <1>4, <1>7, <2>1, OpStep
  <1>8. CASE rewriteLeafOp
    BY <1>4, <1>8, LeafStep
  <1>9. CASE rewriteLimitOp
    BY <1>4, <1>9, LimitStep
  <1>10. CASE UNCHANGED vars
    <2>1. UNCHANGED << query, phase, stack, graph, opToRewrittenOp >>
      BY <1>10 DEF vars
    <2>2. Bindings' = Bindings /\ RewrittenOps' = RewrittenOps
      BY <2>1 DEF Bindings, RewrittenOps
    <2>3. LimitInv'
      BY <2>1, <2>2 DEF LimitInv, IsLimit
    <2> QED
      BY <2>1, <2>3
  <1> QED
    BY <1>1, <1>2, <1>5, <1>6, <1>7, <1>8, <1>9, <1>10 DEF Next

\* No rewrite rule meets an input without table information (the assertion of
\* addProvenanceAttrsToSchemaWithRename), whatever the tables and the query,
\* when the rewrite is kept to the queries where a limit is at the root.
THEOREM AssertionsNeverFail ==
    ASSUME "limit" \notin Admit
    PROVE  Spec => []AssertionsHold
  <1> DEFINE IInv == ControlInv /\ LimitInv /\ AssertionsHold
  <1>1. Init => IInv
    <2> SUFFICES ASSUME Init PROVE IInv
      OBVIOUS
    <2>0. ControlInv /\ phase = "analyze"
      BY ControlInit DEF Init
    <2>1. RewrittenOps = {} /\ Bindings = {} /\ DOMAIN stack = {}
      BY <2>0, AnalyzeState
    <2>2. LimitInv
      BY <2>1 DEF LimitInv
    <2> QED
      BY <2>2, ControlInit DEF AssertionsHold, Init
  <1>2. IInv /\ [Next]_vars => IInv'
    <2> SUFFICES ASSUME IInv, [Next]_vars PROVE IInv'
      OBVIOUS
    <2>1. ControlInv'
      BY ControlSteps
    <2>2. LimitInv' /\ phase' # "failed"
      BY LimitSteps DEF AssertionsHold
    <2> QED
      BY <2>1, <2>2 DEF AssertionsHold
  <1>3. IInv => AssertionsHold
    OBVIOUS
  <1> QED
    BY <1>1, <1>2, <1>3, PTL DEF Spec

-----------------------------------------------------------------------------
(***************************************************************************)
(* The links of the rewritten query                                        *)
(***************************************************************************)
LEMMA BelowFacts ==
    ASSUME ControlInv, NEW i \in DOMAIN query
    PROVE  /\ i \in query[i].below /\ query[i].below \subseteq DOMAIN query
           /\ \A k \in query[i].below : query[k].below \subseteq query[i].below
           /\ \A j \in DOMAIN query[i].in : /\ query[i].in[j] \in query[i].below
                                            /\ query[i].in[j] \in DOMAIN query
  <1>1. QueryOk(query)
    BY DEF ControlInv
  <1>2. /\ OperatorOk(query, i) /\ query[i].below \subseteq DOMAIN query
        /\ \A j \in DOMAIN query[i].in : query[i].in[j] \in DOMAIN query
    BY <1>1, OperatorFacts
  <1>3. \A j \in DOMAIN query[i].in : query[i].in[j] \in query[i].below
    <2> TAKE j \in DOMAIN query[i].in
    <2>1. OperatorOk(query, query[i].in[j])
      BY <1>1, <1>2, OperatorFacts
    <2> QED
      BY <1>2, <2>1 DEF OperatorOk
  <1> QED
    BY <1>2, <1>3 DEF OperatorOk

\* The node of an input that only this call can reach stands for no operator
\* below the next input.
LEMMA NotShared ==
    ASSUME ControlInv, "sharing" \notin Admit, NEW k \in DOMAIN stack,
           Exclusive(query[stack[k].op]),
           Len(stack[k].ins) < Len(query[stack[k].op].in),
           NEW j \in DOMAIN stack[k].ins,
           NEW i \in query[NextIn(k)].below
    PROVE  query[i].core # query[query[stack[k].op].in[j]].core
  <1> DEFINE o == query[stack[k].op]
  <1>1. /\ stack[k].op \in DOMAIN query
        /\ DOMAIN stack[k].ins = 1 .. Len(stack[k].ins) /\ Len(stack[k].ins) \in Nat
    BY FrameFacts
  <1>2. OperatorOk(query, stack[k].op) /\ Len(o.in) = Arity(o.type)
    BY <1>1, OperatorFacts DEF ControlInv
  <1>3. j \in Nat /\ 1 <= j /\ j <= Len(stack[k].ins)
    BY <1>1
  <1>4. o.type \notin Unary
    <2> SUFFICES ASSUME o.type \in Unary PROVE FALSE
      OBVIOUS
    <2>1. Len(o.in) = 1
      BY <1>2, ArityFacts
    <2> QED
      BY <1>1, <1>3, <2>1
  <1>5. IsSet(o, {"UNION", "DIFFERENCE"})
    BY <1>4 DEF Exclusive
  <1>6. Len(o.in) = 2
    BY <1>2, <1>5, ArityFacts DEF IsSet
  <1>7. j = 1 /\ NextIn(k) = o.in[2]
    <2>1. j = 1 /\ Len(stack[k].ins) = 1
      <3> DEFINE n == Len(stack[k].ins)
      <3>1. n \in Nat /\ j \in Nat /\ 1 <= j /\ j <= n /\ n < 2
        BY <1>1, <1>3, <1>6
      <3> HIDE DEF n
      <3>2. j = 1 /\ n = 1
        BY <3>1
      <3> QED
        BY <3>2 DEF n
    <2> QED
      BY <2>1 DEF NextIn
  <1>8. SharingOk(query, o)
    BY <1>2 DEF OperatorOk, InScope
  <1>9. i \in query[o.in[2]].below
    BY <1>7
  <1> HIDE DEF o
  <1>10. query[i].core # query[o.in[1]].core
    BY <1>5, <1>8, <1>9 DEF SharingOk
  <1> QED
    BY <1>7, <1>10 DEF o

\* The operator of a call is below what the calls under it wait for, and so
\* are its inputs.
LEMMA CallsBelow ==
    ASSUME ControlInv, LinkInv, NEW k \in DOMAIN stack, NEW l \in DOMAIN stack, k < l
    PROVE  /\ NextIn(k) \in DOMAIN query
           /\ query[stack[l].op].below \subseteq query[NextIn(k)].below
           /\ \A j \in DOMAIN query[stack[l].op].in :
                query[stack[l].op].in[j] \in query[NextIn(k)].below
  <1>1. /\ k \in DOMAIN stack /\ k < Len(stack) /\ stack[k].op \in DOMAIN query
        /\ stack[l].op \in DOMAIN query
        /\ Len(stack[k].ins) \in Nat /\ Len(stack[k].ins) < Len(query[stack[k].op].in)
    <2>1. l <= Len(stack) /\ k \in Nat /\ l \in Nat /\ Len(stack) \in Nat
      BY FrameFacts
    <2>2. k < Len(stack)
      BY <2>1
    <2> QED
      BY <2>2, FrameFacts
  <1>2. NextIn(k) \in DOMAIN query
    <2> DEFINE j == Len(stack[k].ins) + 1
    <2>1. DOMAIN query[stack[k].op].in = 1 .. Len(query[stack[k].op].in)
          /\ Len(query[stack[k].op].in) \in Nat
      BY <1>1, OperatorFacts, SeqDomain DEF ControlInv
    <2>2. j \in DOMAIN query[stack[k].op].in
      BY <1>1, <2>1
    <2> HIDE DEF j
    <2>3. query[stack[k].op].in[j] \in DOMAIN query
      BY <1>1, <2>2, BelowFacts
    <2> QED
      BY <2>3 DEF NextIn, j
  <1>3. stack[l].op \in query[NextIn(k)].below
    BY DEF LinkInv
  <1>4. query[stack[l].op].below \subseteq query[NextIn(k)].below
    BY <1>2, <1>3, BelowFacts
  <1> QED
    BY <1>1, <1>2, <1>4, BelowFacts

LEMMA LinkPush ==
    ASSUME ControlInv, LinkInv, rewriteInput
    PROVE  LinkInv'
  <1>1. /\ HasInputsLeft /\ phase = "rewrite"
        /\ stack' = Append(stack, [op |-> NextInput, ins |-> << >>])
        /\ UNCHANGED << query, phase, graph, opToRewrittenOp, provCounts >>
    BY DEF rewriteInput, HasInputsLeft
  <1>2. /\ DOMAIN stack' = 1 .. Len(stack) + 1
        /\ \A k \in 1 .. Len(stack) : stack'[k] = stack[k]
        /\ stack'[Len(stack) + 1].op = NextInput /\ stack'[Len(stack) + 1].ins = << >>
        /\ Bindings' = Bindings
    BY <1>1, PushFacts
  <1>3. /\ Len(stack) \in DOMAIN stack /\ Len(stack) \in Nat /\ DOMAIN stack = 1 .. Len(stack)
        /\ Top = stack[Len(stack)] /\ Top.op \in DOMAIN query /\ Op = query[Top.op]
        /\ Len(Top.ins) + 1 \in DOMAIN Op.in /\ stack # << >>
        /\ NextInput = NextIn(Len(stack)) /\ NextInput \in DOMAIN query
    BY <1>1, TopFacts
  <1>4. \A k \in DOMAIN stack : NextIn(k)' = NextIn(k) /\ k \in DOMAIN stack' /\ stack'[k] = stack[k]
    BY <1>1, <1>2, <1>3 DEF NextIn
  <1>5. ASSUME NEW j \in DOMAIN stack', NEW k \in DOMAIN stack', j < k
        PROVE  stack'[k].op \in query[NextIn(j)'].below
    <2>1. j \in DOMAIN stack /\ NextIn(j)' = NextIn(j)
      BY <1>2, <1>3, <1>4, <1>5
    <2>2. CASE k \in DOMAIN stack
      BY <1>4, <1>5, <2>1, <2>2 DEF LinkInv
    <2>3. CASE k = Len(stack) + 1
      <3>1. CASE j = Len(stack)
        BY <1>2, <1>3, <2>1, <2>3, <3>1, BelowFacts
      <3>2. CASE j < Len(stack)
        <4> DEFINE x == Len(Top.ins) + 1
        <4>1. x \in DOMAIN query[stack[Len(stack)].op].in
              /\ query[stack[Len(stack)].op].in[x] = NextInput
          BY <1>3 DEF NextInput
        <4> HIDE DEF x
        <4>2. NextInput \in query[NextIn(j)].below
          BY <1>3, <2>1, <3>2, <4>1, CallsBelow
        <4> QED
          BY <1>2, <2>1, <2>3, <4>2
      <3> QED
        BY <1>2, <1>3, <1>5, <2>3, <3>1, <3>2
    <2> QED
      BY <1>2, <1>3, <2>2, <2>3
  <1>6. ASSUME NEW k \in DOMAIN stack', Exclusive(query[stack'[k].op]),
               NEW j \in DOMAIN stack'[k].ins
        PROVE  graph[stack'[k].ins[j]].parents = << >>
    <2>1. k \in DOMAIN stack
      BY <1>2, <1>3, <1>6, EmptyIsSeq
    <2> QED
      BY <1>4, <1>6, <2>1 DEF LinkInv
  <1>7. \A b, c \in Bindings' : b[2] = c[2] => query'[b[1]].core = query'[c[1]].core
    BY <1>1, <1>2 DEF LinkInv
  <1>8. LinksOk(graph')
    BY <1>1 DEF LinkInv
  <1>9. query' = query /\ graph' = graph
    BY <1>1
  <1> QED
    BY <1>5, <1>6, <1>7, <1>8, <1>9 DEF LinkInv

\* The nodes in T get new parents: they stand for operators below what the
\* calls that stay wait for.
LEMMA LinkDelivered ==
    ASSUME ControlInv, LinkInv, "sharing" \notin Admit, phase = "rewrite", query' = query,
           NEW m, NEW i, NEW node, Delivered(m, i, node),
           \/ opToRewrittenOp' = opToRewrittenOp
           \/ opToRewrittenOp' = [opToRewrittenOp EXCEPT ![i] = node],
           NEW T, Extends(graph, graph', T),
           \A c \in T : \E b \in Bindings :
               /\ b[2] = c
               /\ \A k \in 1 .. m : b[1] \in query[NextIn(k)].below,
           graph'[node].parents = << >>,
           node \in DOMAIN graph =>
               \E b \in Bindings : b[2] = node /\ query[b[1]].core = query[i].core,
           LinksOk(graph')
    PROVE  LinkInv'
  <1>1. Bindings' \subseteq Bindings \union {<< i, node >>}
    BY DeliveredBindings
  <1>2. /\ m \in 0 .. Len(stack) /\ m \in Nat /\ DOMAIN stack' = 1 .. m
        /\ \A k \in 1 .. m : /\ stack'[k].op = stack[k].op
                             /\ stack'[k].ins = IF k = m THEN Append(stack[k].ins, node)
                                                         ELSE stack[k].ins
        /\ DOMAIN stack = 1 .. Len(stack) /\ Len(stack) \in Nat
        /\ m >= 1 => Len(stack[m].ins) < Len(query[stack[m].op].in)
    <2>1. Len(stack) \in Nat
      BY DEF ControlInv
    <2> QED
      BY <2>1 DEF Delivered, ControlInv
  <1>3. ASSUME NEW j \in DOMAIN stack', NEW k \in DOMAIN stack', j < k
        PROVE  stack'[k].op \in query[NextIn(j)'].below
    <2>1. j \in DOMAIN stack /\ k \in DOMAIN stack /\ j # m
      BY <1>2, <1>3
    <2>2. stack'[j].op = stack[j].op /\ stack'[j].ins = stack[j].ins
          /\ stack'[k].op = stack[k].op
      BY <1>2, <2>1
    <2>3. NextIn(j)' = NextIn(j)
      BY <2>2 DEF NextIn
    <2> QED
      BY <1>3, <2>1, <2>2, <2>3 DEF LinkInv
  <1>4. ASSUME NEW b \in Bindings', NEW c \in Bindings', b[2] = c[2]
        PROVE  query[b[1]].core = query[c[1]].core
    <2>1. \A x \in Bindings : x[2] \in DOMAIN graph
      BY BindingNodes
    <2>2. \A x, y \in Bindings : x[2] = y[2] => query[x[1]].core = query[y[1]].core
      BY DEF LinkInv
    <2>3. \A x \in Bindings : x[2] = node => query[x[1]].core = query[i].core
      BY <2>1, <2>2
    <2>4. \A x \in Bindings' : x \in Bindings \/ (x[1] = i /\ x[2] = node)
      BY <1>1
    <2> QED
      BY <1>4, <2>2, <2>3, <2>4
  <1>5. ASSUME NEW k \in DOMAIN stack', Exclusive(query[stack'[k].op]),
               NEW j \in DOMAIN stack'[k].ins
        PROVE  graph'[stack'[k].ins[j]].parents = << >>
    <2>1. k \in DOMAIN stack /\ k \in 1 .. m /\ stack'[k].op = stack[k].op
          /\ Exclusive(query[stack[k].op])
      BY <1>2, <1>5
    <2>2. /\ Len(stack[k].ins) < Len(query[stack[k].op].in) /\ IsSeq(stack[k].ins)
          /\ DOMAIN stack[k].ins = 1 .. Len(stack[k].ins) /\ Len(stack[k].ins) \in Nat
          /\ \A x \in DOMAIN stack[k].ins : stack[k].ins[x] \in DOMAIN graph
      <3>1. CASE k = m
        BY <1>2, <2>1, <3>1, FrameFacts
      <3>2. CASE k # m
        <4>1. k < Len(stack)
          BY <1>2, <2>1, <3>2
        <4> QED
          BY <2>1, <4>1, FrameFacts
      <3> QED
        BY <3>1, <3>2
    <2>3. ASSUME NEW x \in DOMAIN stack[k].ins PROVE graph'[stack[k].ins[x]].parents = << >>
      <3> DEFINE n == stack[k].ins[x]
      <3>1. graph[n].parents = << >> /\ n \in DOMAIN graph
        BY <2>1, <2>2 DEF LinkInv
      <3>2. n \notin T
        <4> SUFFICES ASSUME n \in T PROVE FALSE
          OBVIOUS
        <4>1. PICK b \in Bindings : b[2] = n /\ b[1] \in query[NextIn(k)].below
          BY <2>1
        <4> DEFINE c == << query[stack[k].op].in[x], n >>
        <4>2. c \in Bindings
          BY <2>1, InputBinding
        <4>3. c[2] = n /\ c[1] = query[stack[k].op].in[x]
          OBVIOUS
        <4> HIDE DEF c, n
        <4>4. query[b[1]].core = query[c[1]].core
          BY <4>1, <4>2, <4>3 DEF LinkInv
        <4>5. query[b[1]].core # query[query[stack[k].op].in[x]].core
          BY <2>1, <2>2, <4>1, NotShared
        <4> QED
          BY <4>3, <4>4, <4>5
      <3> QED
        BY <3>1, <3>2 DEF Extends
    <2>4. stack'[k].ins = stack[k].ins \/ stack'[k].ins = Append(stack[k].ins, node)
      BY <1>2, <2>1
    <2>5. CASE stack'[k].ins = stack[k].ins
      BY <1>5, <2>3, <2>5
    <2>6. CASE stack'[k].ins = Append(stack[k].ins, node)
      <3>1. CASE j \in DOMAIN stack[k].ins
        <4>1. stack'[k].ins[j] = stack[k].ins[j]
          BY <2>2, <2>6, <3>1, AppendAny
        <4> QED
          BY <2>3, <3>1, <4>1
      <3>2. CASE j = Len(stack[k].ins) + 1
        <4>1. stack'[k].ins[j] = node
          BY <2>2, <2>6, <3>2, AppendAny
        <4> QED
          BY <4>1
      <3>3. j \in 1 .. Len(stack[k].ins) + 1
        BY <1>5, <2>2, <2>6, AppendAny
      <3> QED
        BY <2>2, <3>1, <3>2, <3>3
    <2> QED
      BY <2>4, <2>5, <2>6
  <1> QED
    BY <1>3, <1>4, <1>5 DEF LinkInv

LEMMA LinkReuse ==
    ASSUME ControlInv, LinkInv, "sharing" \notin Admit, NEW c, NEW g, ReuseStep(c, g)
    PROVE  LinkInv'
  <1>1. /\ HasInputsLeft /\ phase = "rewrite" /\ phase' = phase /\ query' = query /\ graph' = g
        /\ NextInput \in RewrittenOps /\ c = opToRewrittenOp[NextInput]
        /\ Delivered(Len(stack), NextInput, Len(g)) /\ Extends(graph, g, {c})
        /\ opToRewrittenOp' = opToRewrittenOp
        /\ g[Len(g)].parents = << >> /\ GraphOk(g) /\ Len(graph) < Len(g)
        /\ LinksOk(graph) => LinksOk(g)
    BY DEF ReuseStep, HasInputsLeft, Builds
  <1>2. /\ Len(stack) \in DOMAIN stack /\ Len(stack) \in Nat /\ DOMAIN stack = 1 .. Len(stack)
        /\ Top = stack[Len(stack)] /\ Top.op \in DOMAIN query /\ Op = query[Top.op]
        /\ Len(Top.ins) + 1 \in DOMAIN Op.in
        /\ NextInput = NextIn(Len(stack)) /\ NextInput \in DOMAIN query
    BY <1>1, TopFacts
  <1> DEFINE b == << NextInput, c >>
  <1>3. b \in Bindings /\ b[2] = c /\ b[1] = NextInput
    BY <1>1, BindingCases
  <1>4. \A k \in 1 .. Len(stack) : b[1] \in query[NextIn(k)].below
    <2> TAKE k \in 1 .. Len(stack)
    <2>1. CASE k = Len(stack)
      BY <1>2, <1>3, <2>1, BelowFacts
    <2>2. CASE k < Len(stack)
      <3> DEFINE x == Len(Top.ins) + 1
      <3>1. x \in DOMAIN query[stack[Len(stack)].op].in
            /\ query[stack[Len(stack)].op].in[x] = NextInput
        BY <1>2 DEF NextInput
      <3> HIDE DEF x
      <3> QED
        BY <1>2, <1>3, <2>2, <3>1, CallsBelow
    <2>3. k = Len(stack) \/ k < Len(stack)
      <3> DEFINE n == Len(stack)
      <3>1. n \in Nat /\ k \in 1 .. n
        BY <1>2
      <3> HIDE DEF n
      <3>2. k = n \/ k < n
        BY <3>1
      <3> QED
        BY <3>2 DEF n
    <2> QED
      BY <2>1, <2>2, <2>3
  <1>5. Len(g) \notin DOMAIN graph
    <2>1. Len(graph) \in Nat /\ DOMAIN graph = 1 .. Len(graph) /\ Len(g) \in Nat
      BY <1>1, GraphDomain DEF ControlInv
    <2> QED
      BY <1>1, <2>1
  <1>6. LinksOk(graph')
    BY <1>1 DEF LinkInv
  <1> DEFINE m == Len(stack)
             node == Len(g)
             T == {c}
  <1>7. /\ Delivered(m, NextInput, node) /\ Extends(graph, graph', T)
        /\ graph'[node].parents = << >> /\ node \notin DOMAIN graph
        /\ \A d \in T : \E a \in Bindings :
               a[2] = d /\ \A k \in 1 .. m : a[1] \in query[NextIn(k)].below
    <2> HIDE DEF b
    <2> QED
      BY <1>1, <1>3, <1>4, <1>5
  <1> HIDE DEF m, node, T
  <1> QED
    BY <1>1, <1>6, <1>7, LinkDelivered

LEMMA LinkBuild ==
    ASSUME ControlInv, LinkInv, "sharing" \notin Admit, NEW g, BuildStep(g)
    PROVE  LinkInv'
  <1>1. phase = "rewrite" /\ query' = query /\ Built(g)
    BY DEF BuildStep
  <1>2. /\ Len(stack) \in DOMAIN stack /\ Len(stack) \in Nat /\ DOMAIN stack = 1 .. Len(stack)
        /\ Top = stack[Len(stack)] /\ Top.op \in DOMAIN query /\ Op = query[Top.op]
    BY <1>1, TopFacts
  <1>3. /\ Delivered(Len(stack) - 1, Top.op, Len(g))
        /\ opToRewrittenOp' = [opToRewrittenOp EXCEPT ![Top.op] = Len(g)]
        /\ Extends(graph, graph', ToSet(Top.ins))
        /\ graph'[Len(g)].parents = << >> /\ Len(g) \notin DOMAIN graph
        /\ LinksOk(g) => LinksOk(graph')
    BY BuiltDelivered
  <1>4. IsSet(Op, {"UNION", "DIFFERENCE"}) => Top.ins[1] # Top.ins[2]
    <2> SUFFICES ASSUME IsSet(Op, {"UNION", "DIFFERENCE"}), Top.ins[1] = Top.ins[2]
                 PROVE  FALSE
      OBVIOUS
    <2>1. OperatorOk(query, Top.op) /\ Len(Op.in) = 2 /\ DOMAIN Op.in = 1 .. 2
      <3>1. Op.type = "Set"
        BY DEF IsSet
      <3>2. QueryOk(query)
        BY DEF ControlInv
      <3> DEFINE i == Top.op
      <3>3. i \in DOMAIN query /\ Op = query[i]
        BY <1>2
      <3> HIDE DEF i
      <3>4. OperatorOk(query, i) /\ Len(Op.in) = Arity(Op.type) /\ DOMAIN Op.in = 1 .. 2
        BY <3>1, <3>2, <3>3, OperatorFacts
      <3>5. Len(Op.in) = 2
        BY <3>1, <3>4, ArityFacts
      <3> QED
        BY <3>4, <3>5 DEF i
    <2>2. DOMAIN Top.ins = 1 .. 2
      <3>1. Len(Top.ins) = Len(Op.in)
        BY DEF BuildStep
      <3> QED
        BY <1>2, <2>1, <3>1, FrameFacts
    <2> DEFINE b == << Op.in[1], Top.ins[1] >>
               c == << Op.in[2], Top.ins[2] >>
    <2>3. b \in Bindings /\ c \in Bindings
      BY <1>2, <2>2, InputBinding
    <2>4. b[2] = c[2] /\ b[1] = Op.in[1] /\ c[1] = Op.in[2]
      OBVIOUS
    <2> HIDE DEF b, c
    <2>5. query[b[1]].core = query[c[1]].core
      BY <2>3, <2>4 DEF LinkInv
    <2>6. SharingOk(query, Op)
      BY <1>2, <2>1 DEF OperatorOk, InScope
    <2>7. Op.in[2] \in query[Op.in[2]].below
      <3>1. Op.in[2] \in DOMAIN query
        BY <1>2, <2>1, BelowFacts
      <3> QED
        BY <3>1, BelowFacts
    <2> QED
      BY <2>4, <2>5, <2>6, <2>7 DEF SharingOk
  <1>5. LinksOk(graph')
    <2>1. Exclusive(Op) => \A k \in DOMAIN Top.ins : graph[Top.ins[k]].parents = << >>
      BY <1>2 DEF LinkInv
    <2>2. LinksOk(graph)
      BY DEF LinkInv
    <2> QED
      BY <1>1, <1>3, <1>4, <2>1, <2>2 DEF Built
  <1> DEFINE m == Len(stack) - 1
             node == Len(g)
             T == ToSet(Top.ins)
  <1>6. \A d \in T : \E a \in Bindings :
            a[2] = d /\ \A k \in 1 .. m : a[1] \in query[NextIn(k)].below
    <2> TAKE d \in T
    <2>1. PICK x \in DOMAIN Top.ins : d = Top.ins[x]
      BY DEF ToSet
    <2> DEFINE a == << Op.in[x], Top.ins[x] >>
    <2>2. a \in Bindings /\ x \in DOMAIN Op.in
      BY <1>2, InputBinding
    <2>3. a[2] = d /\ a[1] = Op.in[x]
      BY <2>1
    <2>4. \A k \in 1 .. m : a[1] \in query[NextIn(k)].below
      <3> TAKE k \in 1 .. m
      <3>1. k \in DOMAIN stack /\ k < Len(stack)
        BY <1>2
      <3> QED
        BY <1>2, <2>2, <2>3, <3>1, CallsBelow
    <2> HIDE DEF a, m
    <2> QED
      BY <2>2, <2>3, <2>4
  <1>7. /\ Delivered(m, Top.op, node) /\ Extends(graph, graph', T)
        /\ opToRewrittenOp' = [opToRewrittenOp EXCEPT ![Top.op] = node]
        /\ graph'[node].parents = << >> /\ node \notin DOMAIN graph
    BY <1>3
  <1> HIDE DEF m, node, T
  <1> QED
    BY <1>1, <1>5, <1>6, <1>7, LinkDelivered

LEMMA LinkDuplicate ==
    ASSUME ControlInv, LinkInv, "sharing" \notin Admit, rewriteDuplicateRemOp
    PROVE  LinkInv'
  <1>1. /\ phase = "rewrite" /\ query' = query
        /\ Op.type = "DuplicateRemoval" /\ DOMAIN Top.ins = 1 .. 1
        /\ Delivered(Len(stack) - 1, Top.op, Top.ins[1])
        /\ opToRewrittenOp' = [opToRewrittenOp EXCEPT ![Top.op] = Top.ins[1]]
        /\ Top.ins[1] \in DOMAIN graph
        /\ graph[Top.ins[1]].parents = << >> =>
             Extends(graph, graph', {}) /\ (LinksOk(graph) => LinksOk(graph'))
    BY DuplicateStep
  <1>2. /\ Len(stack) \in DOMAIN stack /\ Top = stack[Len(stack)] /\ Top.op \in DOMAIN query
        /\ Op = query[Top.op]
    BY <1>1, TopFacts
  <1>3. graph[Top.ins[1]].parents = << >>
    <2>1. Exclusive(Op)
      BY <1>1, ArityFacts DEF Exclusive
    <2>2. 1 \in DOMAIN Top.ins
      BY <1>1
    <2> QED
      BY <1>2, <2>1, <2>2 DEF LinkInv
  <1> DEFINE b == << Op.in[1], Top.ins[1] >>
             m == Len(stack) - 1
             node == Top.ins[1]
             T == {}
  <1>4. b \in Bindings /\ b[2] = node /\ b[1] = Op.in[1]
    BY <1>1, <1>2, InputBinding
  <1>5. query[b[1]].core = query[Top.op].core
    <2>1. OperatorOk(query, Top.op)
      BY <1>2, OperatorFacts DEF ControlInv
    <2> QED
      BY <1>1, <1>2, <1>4, <2>1 DEF OperatorOk
  <1>6. Extends(graph, graph', T) /\ LinksOk(graph')
    BY <1>1, <1>3 DEF LinkInv
  <1>7. graph'[node].parents = << >>
    BY <1>1, <1>3, <1>6 DEF Extends
  <1>8. /\ Delivered(m, Top.op, node)
        /\ opToRewrittenOp' = [opToRewrittenOp EXCEPT ![Top.op] = node]
        /\ \A d \in T : \E a \in Bindings :
               a[2] = d /\ \A k \in 1 .. m : a[1] \in query[NextIn(k)].below
        /\ \E a \in Bindings : a[2] = node /\ query[a[1]].core = query[Top.op].core
    <2> HIDE DEF b
    <2> QED
      BY <1>1, <1>4, <1>5
  <1>9. phase = "rewrite" /\ query' = query
    BY <1>1
  <1>10. node \in DOMAIN graph =>
            \E a \in Bindings : a[2] = node /\ query[a[1]].core = query[Top.op].core
    BY <1>8
  <1>11. /\ Delivered(m, Top.op, node)
         /\ opToRewrittenOp' = [opToRewrittenOp EXCEPT ![Top.op] = node]
    BY <1>8
  <1>12. \A d \in T : \E a \in Bindings :
              /\ a[2] = d
              /\ \A k \in 1 .. m : a[1] \in query[NextIn(k)].below
    OBVIOUS
  <1> DEFINE i == Top.op
  <1>13. /\ Delivered(m, i, node)
         /\ opToRewrittenOp' = [opToRewrittenOp EXCEPT ![i] = node]
         /\ node \in DOMAIN graph =>
              \E a \in Bindings : a[2] = node /\ query[a[1]].core = query[i].core
    BY <1>10, <1>11
  <1>14. \/ opToRewrittenOp' = opToRewrittenOp
         \/ opToRewrittenOp' = [opToRewrittenOp EXCEPT ![i] = node]
    BY <1>13
  <1>15. node \in DOMAIN graph =>
              \E a \in Bindings : a[2] = node /\ query[a[1]].core = query[i].core
    BY <1>13
  <1>16. Delivered(m, i, node)
    BY <1>13
  <1>17. Extends(graph, graph', T)
    BY <1>6
  <1>18. LinksOk(graph')
    BY <1>6
  <1>19. phase = "rewrite"
    BY <1>9
  <1>20. query' = query
    BY <1>9
  <1> HIDE DEF m, node, T, b, i
  <1> QED
    BY <1>7, <1>12, <1>14, <1>15, <1>16, <1>17, <1>18, <1>19, <1>20, LinkDelivered

LEMMA LinkSteps ==
    ASSUME ControlInv, LinkInv, "sharing" \notin Admit, [Next]_vars
    PROVE  LinkInv'
  <1>1. CASE addOperator \/ rewritePI_CS
    <2>1. /\ DOMAIN stack' \subseteq 1 .. 1 /\ Bindings' = {} /\ graph' = << >>
          /\ \A k \in DOMAIN stack' : stack'[k].ins = << >>
      BY <1>1, AnalyzeStep
    <2>2. \A k \in DOMAIN stack' : DOMAIN stack'[k].ins = {}
      BY <2>1, EmptyIsSeq
    <2>3. LinksOk(graph')
      BY <2>1, EmptyIsSeq DEF LinksOk
    <2> QED
      BY <2>1, <2>2, <2>3 DEF LinkInv
  <1>2. CASE rewriteInput
    BY <1>2, LinkPush
  <1>3. ASSUME NEW nodes, FailStep(nodes) PROVE LinkInv'
    <2>1. UNCHANGED << query, stack, graph, opToRewrittenOp >>
      BY <1>3 DEF FailStep
    <2>2. Bindings' = Bindings
      BY <2>1 DEF Bindings, RewrittenOps
    <2> QED
      BY <2>1, <2>2 DEF LinkInv, NextIn
  <1>4. CASE reuseRewrittenOp
    BY <1>3, <1>4, ReusedStep, LinkReuse
  <1>5. CASE rewriteOp
    BY <1>3, <1>5, OpStep, LinkBuild
  <1>6. CASE rewriteLeafOp
    BY <1>6, LeafStep, LinkBuild
  <1>7. CASE rewriteLimitOp
    BY <1>7, LimitStep, LinkBuild
  <1>8. CASE rewriteDuplicateRemOp
    BY <1>8, LinkDuplicate
  <1>9. CASE UNCHANGED vars
    <2>1. UNCHANGED << query, stack, graph, opToRewrittenOp >>
      BY <1>9 DEF vars
    <2>2. Bindings' = Bindings
      BY <2>1 DEF Bindings, RewrittenOps
    <2> QED
      BY <2>1, <2>2 DEF LinkInv, NextIn
  <1> QED
    BY <1>1, <1>2, <1>4, <1>5, <1>6, <1>7, <1>8, <1>9 DEF Next

\* In the graph the rewrite builds an operator is a parent of each of its
\* inputs and each of its parents has it as an input, whatever the tables and
\* the query: the parent lists the rules overwrite instead of extending
\* (OP_LIST of the new operator) are empty then.
THEOREM LinksAreKept ==
    ASSUME "sharing" \notin Admit
    PROVE  Spec => []ParentLinks
  <1> DEFINE IInv == ControlInv /\ LinkInv
  <1>1. Init => IInv
    <2> SUFFICES ASSUME Init PROVE IInv
      OBVIOUS
    <2>1. ControlInv /\ phase = "analyze"
      BY ControlInit DEF Init
    <2>2. Bindings = {} /\ DOMAIN stack = {} /\ graph = << >>
      BY <2>1, AnalyzeState
    <2>3. LinksOk(graph)
      BY <2>2, EmptyIsSeq DEF LinksOk
    <2> QED
      BY <2>1, <2>2, <2>3 DEF LinkInv
  <1>2. IInv /\ [Next]_vars => IInv'
    BY ControlSteps, LinkSteps
  <1>3. IInv => ParentLinks
    <2>1. Live \subseteq DOMAIN graph
      BY DEF Live
    <2> QED
      BY <2>1 DEF ParentLinks, LinkInv, LinksOk
  <1> QED
    BY <1>1, <1>2, <1>3, PTL DEF Spec

-----------------------------------------------------------------------------
(***************************************************************************)
(* Recursion and induction over the positions of a sequence                *)
(***************************************************************************)
LEMMA SmallestNat ==
    ASSUME NEW T \in SUBSET Nat, T # {}
    PROVE  \E x \in T : \A y \in T : x <= y
  <1>1. IsWellFoundedOn(OpToRel(<, Nat), Nat)
    BY NatLessThanWellFounded
  <1>2. PICK x \in T : \A y \in T : ~ (<< y, x >> \in OpToRel(<, Nat))
    BY <1>1, WFMin
  <1>3. \A y \in T : ~ (y < x)
    BY <1>2 DEF OpToRel
  <1> QED
    BY <1>3

\* Induction, with the positions where the claim holds as a set.
LEMMA Inductive ==
    ASSUME NEW n \in Nat, NEW T, 0 \in T,
           \A i \in 1 .. n : i - 1 \in T => i \in T
    PROVE  \A i \in 0 .. n : i \in T
  <1> SUFFICES ASSUME NEW j \in 0 .. n, j \notin T PROVE FALSE
    OBVIOUS
  <1> DEFINE F == {i \in 0 .. n : i \notin T}
  <1>1. PICK x \in F : \A y \in F : x <= y
    <2>1. F \in SUBSET Nat /\ F # {}
      OBVIOUS
    <2> HIDE DEF F
    <2> QED
      BY <2>1, SmallestNat
  <1>2. x # 0 /\ x \in 1 .. n /\ x - 1 \in 0 .. n
    OBVIOUS
  <1>3. x - 1 \notin F
    BY <1>1, <1>2
  <1> QED
    BY <1>1, <1>2, <1>3

\* A function that is computed from its value one position before.
Iteration(f, n, X, start, step) ==
    /\ f \in [0 .. n -> X] /\ f[0] = start
    /\ \A i \in 1 .. n : f[i] = step[<< i, f[i - 1] >>]

LEMMA Iterated ==
    ASSUME NEW n \in Nat, NEW X, NEW x0 \in X, NEW step \in [(1 .. n) \X X -> X]
    PROVE  \E f : Iteration(f, n, X, x0, step)
  <1> DEFINE Up(m, f) == f[0] = x0 /\ \A i \in 1 .. m : f[i] = step[<< i, f[i - 1] >>]
             T == {m \in 0 .. n : \E f \in [0 .. n -> X] : Up(m, f)}
  <1>1. 0 \in T
    <2>1. PICK f : f = [i \in 0 .. n |-> x0]
      OBVIOUS
    <2>2. f \in [0 .. n -> X] /\ Up(0, f) /\ 0 \in 0 .. n
      BY <2>1
    <2> QED
      BY <2>2
  <1>2. ASSUME NEW m \in 1 .. n, m - 1 \in T PROVE m \in T
    <2>1. PICK f \in [0 .. n -> X] : Up(m - 1, f)
      BY <1>2
    <2>2. step[<< m, f[m - 1] >>] \in X
      <3>1. m - 1 \in 0 .. n
        OBVIOUS
      <3>2. << m, f[m - 1] >> \in (1 .. n) \X X
        BY <3>1
      <3> QED
        BY <3>2
    <2> DEFINE g == [f EXCEPT ![m] = step[<< m, f[m - 1] >>]]
    <2>3. g \in [0 .. n -> X]
      BY <2>2
    <2>4. g[m] = step[<< m, f[m - 1] >>] /\ \A i \in 0 .. n : i # m => g[i] = f[i]
      OBVIOUS
    <2> HIDE DEF g
    <2>5. Up(m, g)
      <3>1. g[0] = x0
        BY <2>1, <2>4
      <3>2. ASSUME NEW i \in 1 .. m PROVE g[i] = step[<< i, g[i - 1] >>]
        <4>1. i - 1 # m /\ i - 1 \in 0 .. n
          OBVIOUS
        <4>3. g[i - 1] = f[i - 1]
          BY <2>4, <4>1
        <4>2. i # m => i \in 1 .. m - 1 /\ g[i] = f[i]
          BY <2>4
        <4> QED
          BY <2>1, <2>4, <4>2, <4>3
      <3> QED
        BY <3>1, <3>2
    <2> QED
      BY <2>3, <2>5
  <1>3. n \in T
    <2> HIDE DEF T
    <2> QED
      BY <1>1, <1>2, Inductive
  <1> QED
    BY <1>3 DEF Iteration

\* Concatenation of sequences of sequences.
Flattened(f, ss, S) ==
    /\ f \in [1 .. Len(ss) -> Seq(S)]
    /\ f[1] = ss[1] /\ \A i \in 2 .. Len(ss) : f[i] = f[i - 1] \o ss[i]
    /\ FlattenSeq(ss) = f[Len(ss)]

LEMMA FlattenFunction ==
    ASSUME NEW S, NEW ss \in Seq(Seq(S)), ss # << >>
    PROVE  \E f : Flattened(f, ss, S)
  <1> DEFINE Def(h) == [i \in 1 .. Len(ss) |-> IF i = 1 THEN ss[i] ELSE h[i - 1] \o ss[i]]
             c == CHOOSE h : h = Def(h)
  <1>1. Len(ss) \in Nat /\ Len(ss) >= 1 /\ \A i \in 1 .. Len(ss) : ss[i] \in Seq(S)
    OBVIOUS
  <1>2. FlattenSeq(ss) = c[Len(ss)]
    BY <1>1 DEF FlattenSeq
  <1> PICK n : n = Len(ss)
    OBVIOUS
  <1> PICK X : X = Seq(S)
    OBVIOUS
  <1>3. PICK step : step = [p \in (1 .. n) \X X |-> p[2] \o ss[p[1]]]
    OBVIOUS
  <1>4. /\ step \in [(1 .. n) \X X -> X]
        /\ \A i \in 1 .. n : \A x \in X : step[<< i, x >>] = x \o ss[i]
    <2>1. ASSUME NEW i \in 1 .. n, NEW x \in X
          PROVE  x \o ss[i] \in X /\ step[<< i, x >>] = x \o ss[i]
      <3>1. ss[i] \in Seq(S) /\ x \in Seq(S)
        BY <1>1
      <3>2. << i, x >> \in (1 .. n) \X X
        OBVIOUS
      <3> QED
        BY <1>3, <3>1, <3>2
    <2>2. ASSUME NEW p \in (1 .. n) \X X PROVE p[2] \o ss[p[1]] \in X
      <3>1. p[1] \in 1 .. n /\ p[2] \in X
        OBVIOUS
      <3> QED
        BY <2>1, <3>1
    <2> QED
      BY <1>3, <2>1, <2>2
  <1>5. << >> \in X /\ n \in Nat /\ n >= 1
    BY <1>1
  <1> PICK e : e = << >>
    OBVIOUS
  <1> HIDE DEF c, Def
  <1>6. PICK f : Iteration(f, n, X, e, step)
    <2>1. n \in Nat /\ e \in X /\ step \in [(1 .. n) \X X -> X]
      BY <1>4, <1>5
    <2> QED
      BY <2>1, Iterated
  <1> USE DEF c, Def
  <1>7. \A i \in 1 .. n : i - 1 \in 0 .. n /\ f[i - 1] \in X
    <2>1. \A i \in 1 .. n : i - 1 \in 0 .. n
      BY <1>5
    <2> QED
      BY <2>1, <1>6 DEF Iteration
  <1>8. \A i \in 1 .. n : f[i] = f[i - 1] \o ss[i]
    BY <1>4, <1>6, <1>7 DEF Iteration
  <1>9. f[1] = ss[1]
    <2>1. 1 \in 1 .. n /\ 1 - 1 = 0 /\ ss[1] \in Seq(S)
      BY <1>1, <1>5
    <2>2. f[1] = << >> \o ss[1]
      BY <1>6, <1>8, <2>1 DEF Iteration
    <2> QED
      BY <2>1, <2>2
  <1>10. PICK f1 : f1 = [i \in 1 .. n |-> f[i]]
    OBVIOUS
  <1>11. f1 = Def(f1)
    <2>1. ASSUME NEW i \in 1 .. n PROVE f[i] = IF i = 1 THEN ss[i] ELSE f1[i - 1] \o ss[i]
      <3>1. i # 1 => i - 1 \in 1 .. n
        BY <1>5
      <3> QED
        BY <1>8, <1>9, <1>10, <3>1
    <2> QED
      BY <1>10, <2>1
  <1>12. c = Def(c)
    <2> HIDE DEF Def
    <2> QED
      BY <1>11
  <1> HIDE DEF c
  <1>13. \A i \in 1 .. n : c[i] = IF i = 1 THEN ss[i] ELSE c[i - 1] \o ss[i]
    BY <1>12
  <1> DEFINE T == {j \in 0 .. n : j = 0 \/ c[j] = f[j]}
  <1>14. \A i \in 0 .. n : i \in T
    <2>1. 0 \in T
      BY <1>5
    <2>2. ASSUME NEW i \in 1 .. n, i - 1 \in T PROVE i \in T
      <3>1. i = 1 \/ c[i - 1] = f[i - 1]
        BY <2>2
      <3>2. c[i] = f[i]
        <4>1. CASE i = 1
          BY <1>9, <1>13, <4>1
        <4>2. CASE i # 1
          BY <1>8, <1>13, <3>1, <4>2
        <4> QED
          BY <4>1, <4>2
      <3> QED
        BY <3>2
    <2> HIDE DEF T
    <2> QED
      BY <1>5, <2>1, <2>2, Inductive
  <1>15. c[n] = f[n]
    BY <1>5, <1>14
  <1>16. f1 \in [1 .. n -> X] /\ f1[1] = ss[1] /\ f1[n] = f[n]
    BY <1>5, <1>6, <1>9, <1>10 DEF Iteration
  <1>17. \A i \in 2 .. n : f1[i] = f1[i - 1] \o ss[i]
    <2>1. \A i \in 2 .. n : i \in 1 .. n /\ i - 1 \in 1 .. n
      BY <1>5
    <2> QED
      BY <1>8, <1>10, <2>1
  <1> QED
    BY <1>2, <1>15, <1>16, <1>17 DEF Flattened

LEMMA SplitPos ==
    ASSUME NEW m \in Nat, NEW p \in Nat, NEW k \in 1 .. m + p
    PROVE  k \in 1 .. m \/ (k - m \in 1 .. p /\ m + (k - m) = k)
  OBVIOUS

LEMMA ConcatFacts ==
    ASSUME NEW S, NEW s \in Seq(S), NEW t \in Seq(S)
    PROVE  /\ s \o t \in Seq(S) /\ Len(s \o t) = Len(s) + Len(t)
           /\ Len(s) \in Nat /\ Len(t) \in Nat
           /\ \A k \in 1 .. Len(s) : (s \o t)[k] = s[k]
           /\ \A k \in 1 .. Len(t) : (s \o t)[Len(s) + k] = t[k]
           /\ ToSet(s \o t) = ToSet(s) \union ToSet(t)
  <1>1. s \o t \in Seq(S) /\ Len(s \o t) = Len(s) + Len(t) /\ Len(s) \in Nat /\ Len(t) \in Nat
    OBVIOUS
  <1>2. \A k \in 1 .. Len(s) : (s \o t)[k] = s[k]
    OBVIOUS
  <1>3. \A k \in 1 .. Len(t) : (s \o t)[Len(s) + k] = t[k]
    OBVIOUS
  <1> DEFINE m == Len(s)
             n == Len(t)
             c == s \o t
  <1>4. /\ DOMAIN s = 1 .. m /\ DOMAIN t = 1 .. n /\ DOMAIN c = 1 .. m + n
        /\ m \in Nat /\ n \in Nat
    BY <1>1, SeqIsSeq
  <1>5. \A k \in 1 .. m : c[k] = s[k]
    BY <1>2
  <1>6. \A k \in 1 .. n : c[m + k] = t[k]
    BY <1>3
  <1> HIDE DEF m, n, c
  <1>7. ASSUME NEW k \in 1 .. m + n
        PROVE  k \in 1 .. m \/ (k - m \in 1 .. n /\ m + (k - m) = k)
    BY <1>4, SplitPos
  <1>8. ToSet(c) \subseteq ToSet(s) \union ToSet(t)
    <2>1. ASSUME NEW k \in DOMAIN c PROVE c[k] \in ToSet(s) \union ToSet(t)
      <3>1. CASE k \in 1 .. m
        BY <1>4, <1>5, <3>1 DEF ToSet
      <3>2. CASE k - m \in 1 .. n /\ m + (k - m) = k
        <4>1. c[k] = t[k - m]
          BY <1>6, <3>2
        <4> QED
          BY <1>4, <3>2, <4>1 DEF ToSet
      <3> QED
        BY <1>4, <1>7, <3>1, <3>2
    <2> QED
      BY <2>1 DEF ToSet
  <1>9. ToSet(s) \subseteq ToSet(c)
    <2>1. \A k \in 1 .. m : k \in 1 .. m + n
      BY <1>4
    <2> QED
      BY <1>4, <1>5, <2>1 DEF ToSet
  <1>10. ToSet(t) \subseteq ToSet(c)
    <2>1. \A k \in 1 .. n : m + k \in 1 .. m + n
      BY <1>4
    <2> QED
      BY <1>4, <1>6, <2>1 DEF ToSet
  <1>11. ToSet(c) = ToSet(s) \union ToSet(t)
    BY <1>8, <1>9, <1>10
  <1> QED
    BY <1>1, <1>2, <1>3, <1>11 DEF c

LEMMA ConcatInjective ==
    ASSUME NEW S, NEW s \in Seq(S), NEW t \in Seq(S), IsInjective(s), IsInjective(t),
           ToSet(s) \intersect ToSet(t) = {}
    PROVE  IsInjective(s \o t)
  <1> DEFINE m == Len(s)
             p == Len(t)
             c == s \o t
  <1>1. /\ m \in Nat /\ p \in Nat /\ c \in Seq(S) /\ Len(c) = m + p
        /\ \A k \in 1 .. m : c[k] = s[k]
        /\ \A k \in 1 .. p : c[m + k] = t[k]
    BY ConcatFacts
  <1>2. DOMAIN s = 1 .. m /\ DOMAIN t = 1 .. p /\ DOMAIN c = 1 .. m + p
    BY <1>1, SeqIsSeq
  <1> HIDE DEF m, p, c
  <1>3. ASSUME NEW k \in 1 .. m + p
        PROVE  \/ k \in DOMAIN s /\ c[k] = s[k]
               \/ k - m \in DOMAIN t /\ c[k] = t[k - m]
    <2>1. k \in 1 .. m \/ (k - m \in 1 .. p /\ m + (k - m) = k)
      BY <1>1, SplitPos
    <2>2. CASE k - m \in 1 .. p /\ m + (k - m) = k
      <3>1. c[m + (k - m)] = t[k - m]
        BY <1>1, <2>2
      <3> QED
        BY <1>2, <2>2, <3>1
    <2> QED
      BY <1>1, <1>2, <2>1, <2>2
  <1>4. IsInjective(c)
    <2> SUFFICES ASSUME NEW j \in 1 .. m + p, NEW k \in 1 .. m + p, c[j] = c[k]
                 PROVE  j = k
      BY <1>2 DEF IsInjective
    <2>1. CASE j \in DOMAIN s /\ c[j] = s[j] /\ k \in DOMAIN s /\ c[k] = s[k]
      BY <2>1 DEF IsInjective
    <2>2. CASE j - m \in DOMAIN t /\ c[j] = t[j - m] /\ k - m \in DOMAIN t /\ c[k] = t[k - m]
      <3>1. j - m = k - m
        BY <2>2 DEF IsInjective
      <3> QED
        BY <1>1, <3>1
    <2>3. CASE j \in DOMAIN s /\ c[j] = s[j] /\ k - m \in DOMAIN t /\ c[k] = t[k - m]
      BY <2>3 DEF ToSet
    <2>4. CASE j - m \in DOMAIN t /\ c[j] = t[j - m] /\ k \in DOMAIN s /\ c[k] = s[k]
      BY <2>4 DEF ToSet
    <2> QED
      BY <1>3, <2>1, <2>2, <2>3, <2>4
  <1> QED
    BY <1>4 DEF c

LEMMA NoFlatten == FlattenSeq(<< >>) = << >>
  BY DEF FlattenSeq

\* What is in a flattened sequence.
LEMMA FlattenFacts ==
    ASSUME NEW S, NEW ss \in Seq(Seq(S))
    PROVE  /\ FlattenSeq(ss) \in Seq(S)
           /\ \A e : e \in ToSet(FlattenSeq(ss)) <=> \E k \in DOMAIN ss : e \in ToSet(ss[k])
  <1>1. CASE ss = << >>
    <2>1. FlattenSeq(ss) = << >> /\ DOMAIN ss = {}
      BY <1>1, NoFlatten, EmptyIsSeq
    <2>2. ToSet(<< >>) = {} /\ << >> \in Seq(S)
      BY EmptyIsSeq DEF ToSet
    <2> QED
      BY <2>1, <2>2
  <1>2. CASE ss # << >>
    <2>1. PICK f : Flattened(f, ss, S)
      BY <1>2, FlattenFunction
    <2> DEFINE n == Len(ss)
    <2>2. n \in Nat /\ n >= 1 /\ DOMAIN ss = 1 .. n /\ \A k \in 1 .. n : ss[k] \in Seq(S)
      BY <1>2
    <2>3. /\ f \in [1 .. n -> Seq(S)] /\ f[1] = ss[1]
          /\ \A i \in 2 .. n : f[i] = f[i - 1] \o ss[i]
          /\ FlattenSeq(ss) = f[n]
      BY <2>1 DEF Flattened
    <2> HIDE DEF n
    <2> DEFINE T == {i \in 0 .. n : i = 0 \/ \A e : e \in ToSet(f[i]) <=> \E k \in 1 .. i : e \in ToSet(ss[k])}
    <2>4. ASSUME NEW i \in 1 .. n, i - 1 \in T PROVE i \in T
      <3>1. CASE i = 1
        <4>1. \A k \in 1 .. 1 : k = 1
          OBVIOUS
        <4> QED
          BY <2>2, <2>3, <3>1, <4>1
      <3>2. CASE i # 1
        <4>1. i - 1 \in 1 .. n /\ i \in 2 .. n /\ i - 1 # 0
          BY <2>2, <3>2
        <4>2. \A e : e \in ToSet(f[i - 1]) <=> \E k \in 1 .. i - 1 : e \in ToSet(ss[k])
          BY <2>4, <4>1
        <4>3. f[i - 1] \in Seq(S) /\ ss[i] \in Seq(S) /\ f[i] = f[i - 1] \o ss[i]
          BY <2>2, <2>3, <4>1
        <4>4. ToSet(f[i]) = ToSet(f[i - 1]) \union ToSet(ss[i])
          BY <4>3, ConcatFacts
        <4>5. \A k \in 1 .. i : k = i \/ k \in 1 .. i - 1
          OBVIOUS
        <4>6. \A k \in 1 .. i - 1 : k \in 1 .. i
          OBVIOUS
        <4> QED
          BY <4>2, <4>4, <4>5, <4>6
      <3> QED
        BY <3>1, <3>2
    <2>5. 0 \in T
      BY <2>2
    <2>7. n \in Nat
      BY <2>2
    <2>6. n \in T
      <3> HIDE DEF T
      <3>1. \A i \in 0 .. n : i \in T
        BY <2>7, <2>4, <2>5, Inductive
      <3> QED
        BY <2>7, <3>1
    <2>8. n # 0 /\ n \in 1 .. n
      BY <2>2
    <2>9. \A e : e \in ToSet(f[n]) <=> \E k \in 1 .. n : e \in ToSet(ss[k])
      BY <2>6, <2>8
    <2>10. f[n] \in Seq(S)
      BY <2>3, <2>8
    <2> QED
      BY <2>2, <2>3, <2>9, <2>10
  <1> QED
    BY <1>1, <1>2

\* Its length is a matter of the lengths of its parts.
LEMMA FlattenLen ==
    ASSUME NEW S, NEW ss \in Seq(Seq(S)), NEW U, NEW tt \in Seq(Seq(U)), Len(ss) = Len(tt),
           \A k \in DOMAIN ss : Len(ss[k]) = Len(tt[k])
    PROVE  Len(FlattenSeq(ss)) = Len(FlattenSeq(tt))
  <1>1. CASE ss = << >>
    <2>1. tt = << >>
      BY <1>1
    <2> QED
      BY <1>1, <2>1
  <1>2. CASE ss # << >>
    <2>0. tt # << >>
      BY <1>2
    <2>1. PICK f : Flattened(f, ss, S)
      BY <1>2, FlattenFunction
    <2>2. PICK g : Flattened(g, tt, U)
      BY <2>0, FlattenFunction
    <2> DEFINE n == Len(ss)
    <2>3. /\ n \in Nat /\ n >= 1 /\ DOMAIN ss = 1 .. n
          /\ \A k \in 1 .. n : ss[k] \in Seq(S) /\ tt[k] \in Seq(U) /\ Len(ss[k]) = Len(tt[k])
      <3>1. n \in Nat /\ n >= 1 /\ DOMAIN ss = 1 .. n
        BY <1>2
      <3>2. \A k \in 1 .. n : ss[k] \in Seq(S)
        OBVIOUS
      <3>3. \A k \in 1 .. n : tt[k] \in Seq(U)
        OBVIOUS
      <3> QED
        BY <3>1, <3>2, <3>3
    <2>4. /\ f \in [1 .. n -> Seq(S)] /\ f[1] = ss[1]
          /\ \A i \in 2 .. n : f[i] = f[i - 1] \o ss[i]
          /\ FlattenSeq(ss) = f[n]
      BY <2>1 DEF Flattened
    <2>5. /\ g \in [1 .. n -> Seq(U)] /\ g[1] = tt[1]
          /\ \A i \in 2 .. n : g[i] = g[i - 1] \o tt[i]
          /\ FlattenSeq(tt) = g[n]
      BY <2>2 DEF Flattened
    <2> HIDE DEF n
    <2> DEFINE T == {i \in 0 .. n : i = 0 \/ Len(f[i]) = Len(g[i])}
    <2>6. ASSUME NEW i \in 1 .. n, i - 1 \in T PROVE i \in T
      <3>1. CASE i = 1
        BY <2>3, <2>4, <2>5, <3>1
      <3>2. CASE i # 1
        <4>1. i - 1 \in 1 .. n /\ i \in 2 .. n /\ i - 1 # 0
          BY <2>3, <3>2
        <4>2. Len(f[i - 1]) = Len(g[i - 1])
          BY <2>6, <4>1
        <4>3. f[i - 1] \in Seq(S) /\ ss[i] \in Seq(S) /\ f[i] = f[i - 1] \o ss[i]
          BY <2>3, <2>4, <4>1
        <4>4. g[i - 1] \in Seq(U) /\ tt[i] \in Seq(U) /\ g[i] = g[i - 1] \o tt[i]
          BY <2>3, <2>5, <4>1
        <4>5. Len(f[i]) = Len(f[i - 1]) + Len(ss[i])
          BY <4>3
        <4>6. Len(g[i]) = Len(g[i - 1]) + Len(tt[i])
          BY <4>4
        <4>7. Len(ss[i]) = Len(tt[i])
          BY <2>3
        <4>8. Len(f[i]) = Len(g[i])
          BY <4>2, <4>5, <4>6, <4>7
        <4> QED
          BY <4>8
      <3> QED
        BY <3>1, <3>2
    <2>7. 0 \in T
      BY <2>3
    <2>9. n \in Nat
      BY <2>3
    <2>8. n \in T
      <3> HIDE DEF T
      <3>1. \A i \in 0 .. n : i \in T
        BY <2>9, <2>6, <2>7, Inductive
      <3> QED
        BY <2>9, <3>1
    <2> QED
      BY <2>3, <2>4, <2>5, <2>8
  <1> QED
    BY <1>1, <1>2

\* It repeats nothing if its parts have nothing in common and repeat nothing.
LEMMA FlattenInjective ==
    ASSUME NEW S, NEW ss \in Seq(Seq(S)),
           \A k \in DOMAIN ss : IsInjective(ss[k]),
           \A j, k \in DOMAIN ss : j # k => ToSet(ss[j]) \intersect ToSet(ss[k]) = {}
    PROVE  IsInjective(FlattenSeq(ss))
  <1>1. CASE ss = << >>
    BY <1>1, NoFlatten, EmptyIsSeq DEF IsInjective
  <1>2. CASE ss # << >>
    <2>1. PICK f : Flattened(f, ss, S)
      BY <1>2, FlattenFunction
    <2> DEFINE n == Len(ss)
    <2>2. n \in Nat /\ n >= 1 /\ DOMAIN ss = 1 .. n /\ \A k \in 1 .. n : ss[k] \in Seq(S)
      BY <1>2
    <2>3. /\ f \in [1 .. n -> Seq(S)] /\ f[1] = ss[1]
          /\ \A i \in 2 .. n : f[i] = f[i - 1] \o ss[i]
          /\ FlattenSeq(ss) = f[n]
      BY <2>1 DEF Flattened
    <2> HIDE DEF n
    <2> DEFINE T == {i \in 0 .. n : i = 0 \/ (/\ IsInjective(f[i])
                                              /\ \A e \in ToSet(f[i]) : \E k \in 1 .. i : e \in ToSet(ss[k]))}
    <2>4. ASSUME NEW i \in 1 .. n, i - 1 \in T PROVE i \in T
      <3>1. CASE i = 1
        <4>1. 1 \in 1 .. 1 /\ 1 \in DOMAIN ss
          BY <2>2
        <4>2. IsInjective(f[i]) /\ \A e \in ToSet(f[i]) : e \in ToSet(ss[1])
          BY <2>3, <3>1, <4>1
        <4> QED
          BY <3>1, <4>1, <4>2
      <3>2. CASE i # 1
        <4>1. i - 1 \in 1 .. n /\ i \in 2 .. n /\ i - 1 # 0 /\ i \in 1 .. n
          BY <2>2, <3>2
        <4>2. IsInjective(f[i - 1]) /\ \A e \in ToSet(f[i - 1]) : \E k \in 1 .. i - 1 : e \in ToSet(ss[k])
          BY <2>4, <4>1
        <4>3. f[i - 1] \in Seq(S) /\ ss[i] \in Seq(S) /\ f[i] = f[i - 1] \o ss[i]
          BY <2>2, <2>3, <4>1
        <4>4. ToSet(f[i]) = ToSet(f[i - 1]) \union ToSet(ss[i])
          BY <4>3, ConcatFacts
        <4>5. \A k \in 1 .. i - 1 : k \in 1 .. i /\ k # i /\ k \in DOMAIN ss
          BY <2>2
        <4>6. ToSet(f[i - 1]) \intersect ToSet(ss[i]) = {}
          BY <2>2, <4>2, <4>5
        <4>7. \A e \in ToSet(f[i]) : \E k \in 1 .. i : e \in ToSet(ss[k])
          <5>1. i \in 1 .. i
            OBVIOUS
          <5> QED
            BY <4>2, <4>4, <4>5, <5>1
        <4>8. IsInjective(ss[i])
          BY <2>2
        <4>12. IsInjective(f[i])
          BY <4>2, <4>3, <4>6, <4>8, ConcatInjective
        <4> QED
          BY <4>7, <4>12
      <3> QED
        BY <3>1, <3>2
    <2>5. 0 \in T
      BY <2>2
    <2>7. n \in Nat
      BY <2>2
    <2>6. n \in T
      <3> HIDE DEF T
      <3>1. \A i \in 0 .. n : i \in T
        BY <2>7, <2>4, <2>5, Inductive
      <3> QED
        BY <2>7, <3>1
    <2> QED
      BY <2>2, <2>3, <2>6
  <1> QED
    BY <1>1, <1>2

\* The rows that are kept, one position after the other.
Kept(f, rel, P, S) ==
    /\ f \in [0 .. Len(rel) -> Seq(S)] /\ f[0] = << >>
    /\ \A i \in 1 .. Len(rel) : f[i] = IF i \in P THEN Append(f[i - 1], rel[i]) ELSE f[i - 1]
    /\ Keep(rel, P) = f[Len(rel)]

LEMMA KeptFunction ==
    ASSUME NEW S, NEW rel \in Seq(S), NEW P
    PROVE  \E f : Kept(f, rel, P, S)
  <1> DEFINE Def(h) == [k \in 0 .. Len(rel) |->
                          IF k = 0 THEN << >>
                          ELSE IF k \in P THEN Append(h[k - 1], rel[k]) ELSE h[k - 1]]
             c == CHOOSE h : h = Def(h)
  <1>1. Len(rel) \in Nat /\ \A i \in 1 .. Len(rel) : rel[i] \in S
    OBVIOUS
  <1>2. Keep(rel, P) = c[Len(rel)]
    BY DEF Keep
  <1> PICK n : n = Len(rel)
    OBVIOUS
  <1> PICK X : X = Seq(S)
    OBVIOUS
  <1>3. PICK step : step = [p \in (1 .. n) \X X |->
                              IF p[1] \in P THEN Append(p[2], rel[p[1]]) ELSE p[2]]
    OBVIOUS
  <1>4. /\ step \in [(1 .. n) \X X -> X]
        /\ \A i \in 1 .. n : \A x \in X :
              step[<< i, x >>] = IF i \in P THEN Append(x, rel[i]) ELSE x
    <2>1. ASSUME NEW i \in 1 .. n, NEW x \in X
          PROVE  /\ (IF i \in P THEN Append(x, rel[i]) ELSE x) \in X
                 /\ step[<< i, x >>] = IF i \in P THEN Append(x, rel[i]) ELSE x
      <3>1. rel[i] \in S /\ x \in Seq(S)
        BY <1>1
      <3>2. << i, x >> \in (1 .. n) \X X
        OBVIOUS
      <3>3. Append(x, rel[i]) \in X
        BY <3>1
      <3> QED
        BY <1>3, <3>2, <3>3
    <2>2. ASSUME NEW p \in (1 .. n) \X X
          PROVE  (IF p[1] \in P THEN Append(p[2], rel[p[1]]) ELSE p[2]) \in X
      <3>1. p[1] \in 1 .. n /\ p[2] \in X
        OBVIOUS
      <3> QED
        BY <2>1, <3>1
    <2> QED
      BY <1>3, <2>1, <2>2
  <1>5. << >> \in X /\ n \in Nat
    BY <1>1
  <1> PICK e : e = << >>
    OBVIOUS
  <1> HIDE DEF c, Def
  <1>6. PICK f : Iteration(f, n, X, e, step)
    <2>1. n \in Nat /\ e \in X /\ step \in [(1 .. n) \X X -> X]
      BY <1>4, <1>5
    <2> QED
      BY <2>1, Iterated
  <1> USE DEF c, Def
  <1>7. \A i \in 1 .. n : i - 1 \in 0 .. n /\ f[i - 1] \in X
    <2>1. \A i \in 1 .. n : i - 1 \in 0 .. n
      BY <1>5
    <2> QED
      BY <2>1, <1>6 DEF Iteration
  <1>8. \A i \in 1 .. n : f[i] = IF i \in P THEN Append(f[i - 1], rel[i]) ELSE f[i - 1]
    BY <1>4, <1>6, <1>7 DEF Iteration
  <1>9. f = Def(f)
    <2>1. f = [i \in 0 .. n |-> f[i]]
      BY <1>6 DEF Iteration
    <2>2. ASSUME NEW i \in 0 .. n
          PROVE  f[i] = IF i = 0 THEN << >>
                        ELSE IF i \in P THEN Append(f[i - 1], rel[i]) ELSE f[i - 1]
      <3>1. i # 0 => i \in 1 .. n
        BY <1>5
      <3> QED
        BY <1>6, <1>8, <3>1 DEF Iteration
    <2> QED
      BY <2>1, <2>2
  <1>10. c = Def(c)
    <2> HIDE DEF Def
    <2> QED
      BY <1>9
  <1> HIDE DEF c
  <1>11. \A i \in 0 .. n : c[i] = IF i = 0 THEN << >>
                                  ELSE IF i \in P THEN Append(c[i - 1], rel[i]) ELSE c[i - 1]
    BY <1>10
  <1> DEFINE T == {j \in 0 .. n : c[j] = f[j]}
  <1>12. \A i \in 0 .. n : i \in T
    <2>1. 0 \in T
      BY <1>5, <1>6, <1>11 DEF Iteration
    <2>2. ASSUME NEW i \in 1 .. n, i - 1 \in T PROVE i \in T
      <3>1. c[i - 1] = f[i - 1] /\ i \in 0 .. n /\ i # 0
        BY <1>5, <2>2
      <3>2. c[i] = f[i]
        BY <1>8, <1>11, <3>1
      <3> QED
        BY <3>1, <3>2
    <2> HIDE DEF T
    <2> QED
      BY <1>5, <2>1, <2>2, Inductive
  <1>13. c[n] = f[n]
    BY <1>5, <1>12
  <1> QED
    BY <1>2, <1>6, <1>8, <1>13 DEF Kept, Iteration

LEMMA KeepFacts ==
    ASSUME NEW S, NEW rel \in Seq(S), NEW P
    PROVE  /\ Keep(rel, P) \in Seq(S)
           /\ \A e : e \in ToSet(Keep(rel, P)) <=> \E k \in DOMAIN rel : k \in P /\ rel[k] = e
  <1>1. PICK f : Kept(f, rel, P, S)
    BY KeptFunction
  <1> DEFINE n == Len(rel)
  <1>2. n \in Nat /\ DOMAIN rel = 1 .. n /\ \A k \in 1 .. n : rel[k] \in S
    BY SeqIsSeq
  <1>3. /\ f \in [0 .. n -> Seq(S)] /\ f[0] = << >>
        /\ \A i \in 1 .. n : f[i] = IF i \in P THEN Append(f[i - 1], rel[i]) ELSE f[i - 1]
        /\ Keep(rel, P) = f[n]
    BY <1>1 DEF Kept
  <1> HIDE DEF n
  <1> DEFINE T == {i \in 0 .. n : \A e : e \in ToSet(f[i]) <=> \E k \in 1 .. i : k \in P /\ rel[k] = e}
  <1>4. 0 \in T
    <2>1. ToSet(<< >>) = {}
      BY EmptyIsSeq DEF ToSet
    <2>2. \A k : k \notin 1 .. 0
      OBVIOUS
    <2> QED
      BY <1>2, <1>3, <2>1, <2>2
  <1>5. ASSUME NEW i \in 1 .. n, i - 1 \in T PROVE i \in T
    <2>1. /\ i - 1 \in 0 .. n /\ i \in 0 .. n
          /\ \A k \in 1 .. i : k = i \/ k \in 1 .. i - 1
          /\ \A k \in 1 .. i - 1 : k \in 1 .. i
          /\ i \in 1 .. i
      BY <1>2
    <2>2. \A e : e \in ToSet(f[i - 1]) <=> \E k \in 1 .. i - 1 : k \in P /\ rel[k] = e
      BY <1>5
    <2>3. f[i - 1] \in Seq(S) /\ rel[i] \in S
      BY <1>2, <1>3, <2>1
    <2>4. ToSet(f[i]) = IF i \in P THEN ToSet(f[i - 1]) \union {rel[i]} ELSE ToSet(f[i - 1])
      <3>1. ToSet(Append(f[i - 1], rel[i])) = ToSet(f[i - 1]) \union {rel[i]}
        <4> DEFINE s == f[i - 1]
                   x == rel[i]
                   a == Append(s, x)
                   m == Len(s)
        <4>1. /\ DOMAIN s = 1 .. m /\ m \in Nat /\ DOMAIN a = 1 .. m + 1
              /\ \A k \in 1 .. m : a[k] = s[k]
              /\ a[m + 1] = x
          BY <2>3, SeqIsSeq, AppendAny
        <4> HIDE DEF s, x, a, m
        <4>2. \A k \in 1 .. m + 1 : k \in 1 .. m \/ k = m + 1
          BY <4>1
        <4>3. (\A k \in 1 .. m : k \in 1 .. m + 1) /\ m + 1 \in 1 .. m + 1
          BY <4>1
        <4>4. ToSet(a) = ToSet(s) \union {x}
          BY <4>1, <4>2, <4>3 DEF ToSet
        <4> QED
          BY <4>4 DEF s, x, a
      <3> QED
        BY <1>3, <3>1
    <2>5. \A e : e \in ToSet(f[i]) <=> \E k \in 1 .. i : k \in P /\ rel[k] = e
      BY <2>1, <2>2, <2>4
    <2> QED
      BY <2>1, <2>5
  <1>6. \A i \in 0 .. n : i \in T
    <2> HIDE DEF T
    <2> QED
      BY <1>2, <1>4, <1>5, Inductive
  <1>7. n \in 0 .. n
    BY <1>2
  <1>8. \A e : e \in ToSet(f[n]) <=> \E k \in 1 .. n : k \in P /\ rel[k] = e
    BY <1>6, <1>7
  <1> QED
    BY <1>2, <1>3, <1>7, <1>8, ZenonT(40)

\* The positions kept of a list of positions, if they are the last or the
\* first ones.
LEMMA KeepInterval ==
    ASSUME NEW n \in Nat, NEW a \in 1 .. n + 1, NEW P,
           \A k \in 1 .. n : k \in P <=> k >= a
    PROVE  Keep(IntSeq(1, n), P) = IntSeq(a, n)
  <1> DEFINE rel == IntSeq(1, n)
  <1>1. rel \in [1 .. n -> Nat] /\ \A k \in 1 .. n : rel[k] = k
    BY DEF IntSeq
  <1>2. rel \in Seq(Nat) /\ Len(rel) = n
    <2> HIDE DEF rel
    <2> QED
      BY <1>1, SeqOfFn
  <1>3. PICK f : Kept(f, rel, P, Nat)
    <2> HIDE DEF rel
    <2> QED
      BY <1>2, KeptFunction
  <1> HIDE DEF rel
  <1>4. /\ f[0] = << >>
        /\ \A i \in 1 .. n : f[i] = IF i >= a THEN Append(f[i - 1], i) ELSE f[i - 1]
        /\ Keep(rel, P) = f[n]
    BY <1>1, <1>2, <1>3 DEF Kept
  <1> DEFINE T == {i \in 0 .. n : f[i] = [k \in 1 .. (i - a + 1) |-> a + k - 1]}
  <1>5. 0 \in T
    <2>1. 1 .. (0 - a + 1) = {}
      OBVIOUS
    <2>2. [k \in 1 .. (0 - a + 1) |-> a + k - 1] = << >>
      BY <2>1
    <2> QED
      BY <1>4, <2>2
  <1>6. ASSUME NEW i \in 1 .. n, i - 1 \in T PROVE i \in T
    <2>1. f[i - 1] = [k \in 1 .. ((i - 1) - a + 1) |-> a + k - 1]
      BY <1>6
    <2>2. CASE i >= a
      <3> DEFINE m == i - a
                 s == [k \in 1 .. m |-> a + k - 1]
      <3>1. m \in Nat /\ (i - 1) - a + 1 = m /\ i - a + 1 = m + 1
        BY <2>2
      <3>2. s \in [1 .. m -> Nat]
        BY <3>1
      <3>3. s \in Seq(Nat) /\ Len(s) = m /\ f[i - 1] = s
        BY <2>1, <3>1, <3>2, SeqOfFn
      <3>4. f[i] = Append(s, i)
        BY <1>4, <2>2, <3>3
      <3> DEFINE t == Append(s, i)
      <3>5. /\ t \in Seq(Nat) /\ Len(t) = m + 1 /\ DOMAIN t = 1 .. m + 1
            /\ \A k \in 1 .. m : t[k] = s[k]
            /\ t[m + 1] = i
        <4> HIDE DEF s, m
        <4>1. t \in Seq(Nat)
          BY <3>3
        <4> QED
          BY <3>3, <4>1, SeqIsSeq, AppendAny
      <3>6. \A k \in 1 .. m + 1 : t[k] = a + k - 1
        <4>1. \A k \in 1 .. m : s[k] = a + k - 1
          OBVIOUS
        <4>2. a + (m + 1) - 1 = i
          BY <2>2
        <4>3. \A k \in 1 .. m + 1 : k \in 1 .. m \/ k = m + 1
          BY <3>1
        <4> HIDE DEF s, t, m
        <4> QED
          BY <3>5, <4>1, <4>2, <4>3
      <3>7. t = [k \in 1 .. m + 1 |-> a + k - 1]
        <4>1. t = [k \in 1 .. m + 1 |-> t[k]]
          <5> HIDE DEF s, m, t
          <5> QED
            BY <3>1, <3>5
        <4> HIDE DEF s, t, m
        <4> QED
          BY <3>6, <4>1
      <3>8. f[i] = [k \in 1 .. i - a + 1 |-> a + k - 1]
        <4>1. f[i] = [k \in 1 .. m + 1 |-> a + k - 1]
          <5> HIDE DEF s, m
          <5> QED
            BY <3>4, <3>7
        <4> QED
          BY <3>1, <4>1
      <3> HIDE DEF s, m, t
      <3> QED
        BY <3>8
    <2>3. CASE ~ (i >= a)
      <3>1. 1 .. ((i - 1) - a + 1) = {} /\ 1 .. (i - a + 1) = {}
        BY <2>3
      <3>2. [k \in 1 .. ((i - 1) - a + 1) |-> a + k - 1] = [k \in 1 .. (i - a + 1) |-> a + k - 1]
        BY <3>1
      <3> QED
        BY <1>4, <2>1, <2>3, <3>2
    <2> QED
      BY <2>2, <2>3
  <1>7. \A i \in 0 .. n : i \in T
    <2> HIDE DEF T
    <2> QED
      BY <1>5, <1>6, Inductive
  <1>8. f[n] = [k \in 1 .. (n - a + 1) |-> a + k - 1]
    BY <1>7
  <1> QED
    BY <1>4, <1>8 DEF IntSeq, rel

(***************************************************************************)
(* Unique names                                                            *)
(***************************************************************************)
NameCount(names, k) == Cardinality({j \in 1 .. k - 1 : names[j] = names[k]})
FreeSuffixes(names, x, k) ==
    {n \in NameCount(names, k) .. NameCount(names, k) + Len(names) :
        Suffixed(names[k], n) \notin ToSet(x)}
FreeName(names, x, k) == Suffixed(names[k], Min(FreeSuffixes(names, x, k)))

\* A set of names that has every name of it with a suffix, too.
Suffixable(N) == \A a \in N : a[4] \in Seq(Nat) /\ \A i \in Nat : Suffixed(a, i) \in N

LEMMA MinOfNat ==
    ASSUME NEW T \in SUBSET Nat, T # {}
    PROVE  Min(T) \in T /\ \A y \in T : Min(T) <= y
  BY SmallestNat DEF Min

\* The new name is in any set that has the old one with every suffix.
KeepsKind(names, x, k) ==
    \A M : Suffixable(M) /\ names[k] \in M => FreeName(names, x, k) \in M

\* As many suffixes as names, and one more: one of them is free.
LEMMA SuffixFree ==
    ASSUME NEW N, Suffixable(N), NEW n \in Nat, NEW names, Len(names) = n,
           NEW x \in [1 .. n -> N], NEW k \in 1 .. n, names[k] \in N
    PROVE  /\ FreeName(names, x, k) \in N
           /\ FreeName(names, x, k) \notin ToSet(x)
           /\ NameCount(names, k) \in Nat
           /\ NameCount(names, k) = 0 <=> \A j \in 1 .. k - 1 : names[j] # names[k]
           /\ KeepsKind(names, x, k)
  <1> DEFINE same == {j \in 1 .. k - 1 : names[j] = names[k]}
             c == NameCount(names, k)
             a == names[k]
             free == FreeSuffixes(names, x, k)
             taken == ToSet(x)
  <1>1. IsFiniteSet(same) /\ c = Cardinality(same)
    <2>0. IsFiniteSet(1 .. k - 1)
      <3>1. 1 \in Int /\ k - 1 \in Int
        OBVIOUS
      <3> QED
        BY <3>1, FS_Interval
    <2>1. IsFiniteSet(1 .. k - 1) /\ same \in SUBSET (1 .. k - 1)
      BY <2>0
    <2>2. c = Cardinality(same)
      BY DEF NameCount
    <2> HIDE DEF same, c
    <2> QED
      BY <2>1, <2>2, FS_Subset
  <1>2. c \in Nat /\ (c = 0 <=> same = {})
    <2> HIDE DEF same
    <2> QED
      BY <1>1, FS_CardinalityType, FS_EmptySet
  <1>3. IsFiniteSet(taken) /\ Cardinality(taken) \in Nat /\ Cardinality(taken) <= n
    <2>1. DOMAIN x = 1 .. n /\ x \in [1 .. n -> taken] /\ \A t \in taken : \E s \in 1 .. n : x[s] = t
      BY DEF ToSet
    <2>2. x \in Surjection(1 .. n, taken)
      <3> HIDE DEF taken
      <3> QED
        BY <2>1 DEF Surjection
    <2>3. ExistsSurjection(1 .. n, taken)
      BY <2>2 DEF ExistsSurjection
    <2> HIDE DEF taken
    <2>4. IsFiniteSet(taken)
      BY <2>3, FS_NatSurjection
    <2> QED
      BY <2>3, <2>4, FS_CardinalityType, FS_SurjCardinalityBound
  <1>4. a[4] \in Seq(Nat) /\ a \in N
    BY DEF Suffixable
  <1>5. \A i \in Nat : Suffixed(a, i) \in N
    BY DEF Suffixable
  <1> HIDE DEF a
  <1>6. \A i, j \in Nat : Suffixed(a, i) = Suffixed(a, j) => i = j
    <2> TAKE i \in Nat, j \in Nat
    <2>1. Suffixed(a, i) = Suffixed(a, j) => Append(a[4], i) = Append(a[4], j)
      BY DEF Suffixed
    <2>2. Append(a[4], i) = Append(a[4], j) => i = j
      BY <1>4
    <2> QED
      BY <2>1, <2>2
  <1> HIDE DEF c, taken
  <1>7. free = {i \in c .. c + n : Suffixed(a, i) \notin taken}
    BY DEF FreeSuffixes, c, a, taken
  <1> HIDE DEF free, same
  <1>8. free # {}
    <2> SUFFICES ASSUME free = {} PROVE FALSE
      OBVIOUS
    <2> DEFINE S == c .. c + n
               f == [i \in S |-> Suffixed(a, i)]
    <2>1. \A i \in S : Suffixed(a, i) \in taken
      BY <1>7
    <2>2. f \in [S -> taken] /\ \A i \in S : f[i] = Suffixed(a, i)
      BY <2>1
    <2>3. IsFiniteSet(S) /\ Cardinality(S) = n + 1
      <3>1. c \in Int /\ c + n \in Int /\ ~ (c > c + n) /\ (c + n) - c + 1 = n + 1
        BY <1>2
      <3> QED
        BY <3>1, FS_Interval
    <2>4. Cardinality(taken) < Cardinality(S) /\ S \subseteq Nat
      BY <1>2, <1>3, <2>3
    <2> HIDE DEF f, S
    <2>5. \E i, j \in S : i # j /\ f[i] = f[j]
      <3>1. IsFiniteSet(S) /\ IsFiniteSet(taken) /\ Cardinality(taken) < Cardinality(S)
            /\ f \in [S -> taken]
        BY <1>3, <2>2, <2>3, <2>4
      <3> QED
        BY <3>1, FS_PigeonHole
    <2> QED
      BY <1>6, <2>2, <2>4, <2>5
  <1>9. free \in SUBSET Nat
    BY <1>2, <1>7
  <1>10. Min(free) \in free
    BY <1>8, <1>9, MinOfNat
  <1>11. FreeName(names, x, k) = Suffixed(a, Min(free))
    BY DEF FreeName, a, free
  <1>12. Min(free) \in Nat /\ Suffixed(a, Min(free)) \notin taken
    BY <1>7, <1>9, <1>10
  <1>13. c = 0 <=> \A j \in 1 .. k - 1 : names[j] # names[k]
    BY <1>2 DEF same
  <1>14. KeepsKind(names, x, k)
    <2>1. \A M : Suffixable(M) /\ a \in M => Suffixed(a, Min(free)) \in M
      BY <1>12 DEF Suffixable
    <2> QED
      BY <1>11, <2>1 DEF KeepsKind, a
  <1> QED
    BY <1>2, <1>5, <1>11, <1>12, <1>13, <1>14 DEF c, taken

\* The names after each position.
Renamed(f, names, N) ==
    /\ f \in [0 .. Len(names) -> [1 .. Len(names) -> N]] /\ f[0] = names
    /\ \A i \in 1 .. Len(names) :
          f[i] = IF NameCount(names, i) = 0 THEN f[i - 1]
                 ELSE [f[i - 1] EXCEPT ![i] = FreeName(names, f[i - 1], i)]
    /\ makeNamesUnique(names) = f[Len(names)]

LEMMA RenamedFunction ==
    ASSUME NEW N, Suffixable(N), NEW names \in Seq(N)
    PROVE  \E f : Renamed(f, names, N)
  <1> DEFINE Def(h) == [k \in 0 .. Len(names) |->
               IF k = 0 THEN names
               ELSE IF Cardinality({j \in 1 .. k - 1 : names[j] = names[k]}) = 0 THEN h[k - 1]
               ELSE [h[k - 1] EXCEPT ![k] =
                      Suffixed(names[k],
                        Min({n \in Cardinality({j \in 1 .. k - 1 : names[j] = names[k]}) ..
                                   Cardinality({j \in 1 .. k - 1 : names[j] = names[k]}) + Len(names) :
                               Suffixed(names[k], n) \notin ToSet(h[k - 1])}))]]
             Def2(h) == [k \in 0 .. Len(names) |->
               IF k = 0 THEN names
               ELSE IF NameCount(names, k) = 0 THEN h[k - 1]
               ELSE [h[k - 1] EXCEPT ![k] = FreeName(names, h[k - 1], k)]]
             c == CHOOSE h : h = Def(h)
             d == CHOOSE h : h = Def2(h)
             n == Len(names)
             X == [1 .. n -> N]
  <1>1. n \in Nat /\ names \in X /\ \A k \in 1 .. n : names[k] \in N
    BY SeqIsSeq
  <1>2. makeNamesUnique(names) = c[n]
    BY DEF makeNamesUnique
  <1>3. c = d
    BY DEF NameCount, FreeName, FreeSuffixes
  <1> HIDE DEF c, Def
  <1> DEFINE step == [p \in (1 .. n) \X X |->
                        IF NameCount(names, p[1]) = 0 THEN p[2]
                        ELSE [p[2] EXCEPT ![p[1]] = FreeName(names, p[2], p[1])]]
  <1>4. /\ step \in [(1 .. n) \X X -> X]
        /\ \A i \in 1 .. n : \A x \in X :
              step[<< i, x >>] = IF NameCount(names, i) = 0 THEN x
                                 ELSE [x EXCEPT ![i] = FreeName(names, x, i)]
    <2>1. ASSUME NEW i \in 1 .. n, NEW x \in X
          PROVE  (IF NameCount(names, i) = 0 THEN x
                  ELSE [x EXCEPT ![i] = FreeName(names, x, i)]) \in X
      <3>1. FreeName(names, x, i) \in N
        <4> HIDE DEF n
        <4>1. n \in Nat /\ Len(names) = n /\ x \in [1 .. n -> N] /\ i \in 1 .. n /\ names[i] \in N
          BY <1>1 DEF n
        <4> QED
          BY <4>1, SuffixFree
      <3> QED
        BY <3>1
    <2>2. ASSUME NEW i \in 1 .. n, NEW x \in X
          PROVE  step[<< i, x >>] = IF NameCount(names, i) = 0 THEN x
                                    ELSE [x EXCEPT ![i] = FreeName(names, x, i)]
      <3> HIDE DEF X, n
      <3> QED
        OBVIOUS
    <2>3. ASSUME NEW p \in (1 .. n) \X X
          PROVE  (IF NameCount(names, p[1]) = 0 THEN p[2]
                  ELSE [p[2] EXCEPT ![p[1]] = FreeName(names, p[2], p[1])]) \in X
      <3>1. p[1] \in 1 .. n /\ p[2] \in X
        OBVIOUS
      <3> HIDE DEF X
      <3> QED
        BY <2>1, <3>1
    <2> HIDE DEF X, n
    <2> QED
      BY <2>2, <2>3
  <1> HIDE DEF X, step
  <1>5. PICK f : Iteration(f, n, X, names, step)
    <2> HIDE DEF n
    <2> QED
      BY <1>1, <1>4, Iterated
  <1>6. \A i \in 1 .. n : i - 1 \in 0 .. n /\ f[i - 1] \in X
    <2>1. \A i \in 1 .. n : i - 1 \in 0 .. n
      BY <1>1
    <2> QED
      BY <2>1, <1>5 DEF Iteration
  <1>7. \A i \in 1 .. n : f[i] = IF NameCount(names, i) = 0 THEN f[i - 1]
                                 ELSE [f[i - 1] EXCEPT ![i] = FreeName(names, f[i - 1], i)]
    BY <1>4, <1>5, <1>6 DEF Iteration
  <1>8. f = Def2(f)
    <2>1. f = [i \in 0 .. n |-> f[i]]
      BY <1>5 DEF Iteration
    <2>2. ASSUME NEW i \in 0 .. n
          PROVE  f[i] = IF i = 0 THEN names
                        ELSE IF NameCount(names, i) = 0 THEN f[i - 1]
                        ELSE [f[i - 1] EXCEPT ![i] = FreeName(names, f[i - 1], i)]
      <3>1. i # 0 => i \in 1 .. n
        BY <1>1
      <3> QED
        BY <1>5, <1>7, <3>1 DEF Iteration
    <2> QED
      BY <2>1, <2>2
  <1>9. d = Def2(d)
    <2> HIDE DEF Def2
    <2> QED
      BY <1>8
  <1> HIDE DEF d
  <1>10. \A i \in 0 .. n : d[i] = IF i = 0 THEN names
                                  ELSE IF NameCount(names, i) = 0 THEN d[i - 1]
                                  ELSE [d[i - 1] EXCEPT ![i] = FreeName(names, d[i - 1], i)]
    BY <1>9
  <1> DEFINE T == {j \in 0 .. n : d[j] = f[j]}
  <1>11. \A i \in 0 .. n : i \in T
    <2>1. 0 \in T
      <3>1. 0 \in 0 .. n
        BY <1>1
      <3>2. d[0] = names /\ f[0] = names
        BY <1>5, <1>10, <3>1 DEF Iteration
      <3> QED
        BY <3>1, <3>2
    <2> HIDE DEF n
    <2>2. ASSUME NEW i \in 1 .. n, i - 1 \in T PROVE i \in T
      <3>1. d[i - 1] = f[i - 1] /\ i \in 0 .. n /\ i # 0
        BY <1>1, <2>2
      <3>2. d[i] = f[i]
        BY <1>7, <1>10, <3>1
      <3> QED
        BY <3>1, <3>2
    <2> HIDE DEF T
    <2> QED
      BY <1>1, <2>1, <2>2, Inductive
  <1>12. d[n] = f[n]
    BY <1>1, <1>11
  <1> QED
    BY <1>2, <1>3, <1>5, <1>7, <1>12 DEF Renamed, Iteration, X

LEMMA UniqueNames ==
    ASSUME NEW N, Suffixable(N), NEW names \in Seq(N)
    PROVE  LET u == makeNamesUnique(names)
           IN  /\ u \in Seq(N) /\ Len(u) = Len(names)
               /\ IsInjective(u) /\ ToSet(names) \subseteq ToSet(u)
               /\ \A k \in 1 .. Len(names) :
                     /\ (\A j \in 1 .. k - 1 : names[j] # names[k]) => u[k] = names[k]
                     /\ u[k] = names[k] \/ u[k] \notin ToSet(names)
  <1> DEFINE n == Len(names)
             u == makeNamesUnique(names)
             First(k) == NameCount(names, k) = 0
  <1>1. PICK f : Renamed(f, names, N)
    BY RenamedFunction
  <1>2. n \in Nat /\ names \in [1 .. n -> N] /\ DOMAIN names = 1 .. n
    BY SeqIsSeq
  <1>3. /\ f \in [0 .. n -> [1 .. n -> N]] /\ f[0] = names
        /\ \A i \in 1 .. n : f[i] = IF First(i) THEN f[i - 1]
                                    ELSE [f[i - 1] EXCEPT ![i] = FreeName(names, f[i - 1], i)]
        /\ u = f[n]
    BY <1>1 DEF Renamed
  <1>4. \A i \in 1 .. n : First(i) <=> \A j \in 1 .. i - 1 : names[j] # names[i]
    <2> TAKE i \in 1 .. n
    <2>1. n \in Nat /\ Len(names) = n /\ names \in [1 .. n -> N] /\ i \in 1 .. n /\ names[i] \in N
      BY <1>2
    <2> HIDE DEF n
    <2> QED
      BY <2>1, SuffixFree
  <1>5. \A i \in 1 .. n : FreeName(names, f[i - 1], i) \notin ToSet(f[i - 1])
    <2> TAKE i \in 1 .. n
    <2>0. i - 1 \in 0 .. n
      BY <1>2
    <2>1. n \in Nat /\ Len(names) = n /\ f[i - 1] \in [1 .. n -> N] /\ i \in 1 .. n /\ names[i] \in N
      BY <1>2, <1>3, <2>0
    <2> HIDE DEF n
    <2> QED
      BY <2>1, SuffixFree
  <1>6. \A e \in ToSet(names) : \E k \in 1 .. n : First(k) /\ names[k] = e
    <2> TAKE e \in ToSet(names)
    <2> DEFINE K == {k \in 1 .. n : names[k] = e}
    <2>1. K \in SUBSET Nat /\ K # {}
      BY <1>2 DEF ToSet
    <2>2. PICK k \in K : \A y \in K : k <= y
      <3> HIDE DEF K
      <3> QED
        BY <2>1, SmallestNat
    <2>3. k \in 1 .. n /\ names[k] = e
      BY <2>2
    <2>4. \A j \in 1 .. k - 1 : names[j] # names[k]
      <3> SUFFICES ASSUME NEW j \in 1 .. k - 1, names[j] = names[k] PROVE FALSE
        OBVIOUS
      <3>1. j \in 1 .. n /\ ~ (k <= j)
        BY <1>2, <2>3
      <3> QED
        BY <2>2, <2>3, <3>1
    <2> QED
      BY <1>4, <2>3, <2>4
  <1> HIDE DEF n, u, First
  <1> DEFINE Ok(i) ==
               /\ \A k \in 1 .. n : k > i \/ First(k) => f[i][k] = names[k]
               /\ \A k \in 1 .. n : k <= i /\ ~ First(k) =>
                     /\ \A m \in 1 .. n : m # k => f[i][m] # f[i][k]
                     /\ f[i][k] \notin ToSet(names)
             T == {i \in 0 .. n : Ok(i)}
  <1>7. 0 \in T
    BY <1>2, <1>3
  <1>8. ASSUME NEW i \in 1 .. n, i - 1 \in T PROVE i \in T
    <2> DEFINE x == f[i - 1]
               y == f[i]
    <2>0. i - 1 \in 0 .. n /\ i \in 0 .. n
      BY <1>2
    <2>1. x \in [1 .. n -> N] /\ DOMAIN x = 1 .. n
      BY <1>3, <2>0
    <2>2. /\ \A k \in 1 .. n : k > i - 1 \/ First(k) => x[k] = names[k]
          /\ \A k \in 1 .. n : k <= i - 1 /\ ~ First(k) =>
                     /\ \A m \in 1 .. n : m # k => x[m] # x[k]
                     /\ x[k] \notin ToSet(names)
      BY <1>8
    <2>3. CASE First(i)
      <3>1. y = x
        BY <1>3, <2>3
      <3>2. \A k \in 1 .. n : k > i => k > i - 1
        BY <1>2
      <3>3. \A k \in 1 .. n : k <= i /\ ~ First(k) => k <= i - 1
        BY <1>2, <2>3
      <3> HIDE DEF x, y
      <3>4. /\ \A k \in 1 .. n : k > i \/ First(k) => y[k] = names[k]
            /\ \A k \in 1 .. n : k <= i /\ ~ First(k) =>
                     /\ \A m \in 1 .. n : m # k => y[m] # y[k]
                     /\ y[k] \notin ToSet(names)
        BY <2>2, <3>1, <3>2, <3>3
      <3> QED
        BY <2>0, <3>4 DEF y
    <2>4. CASE ~ First(i)
      <3> DEFINE a == FreeName(names, x, i)
      <3>1. y = [x EXCEPT ![i] = a]
        BY <1>3, <2>4
      <3>2. a \notin ToSet(x)
        BY <1>5
      <3> HIDE DEF a, x, y
      <3>3. y[i] = a /\ \A k \in 1 .. n : k # i => y[k] = x[k]
        BY <2>1, <3>1
      <3>4. \A k \in 1 .. n : x[k] # a
        BY <2>1, <3>2 DEF ToSet
      <3>5. a \notin ToSet(names)
        <4> SUFFICES ASSUME a \in ToSet(names) PROVE FALSE
          OBVIOUS
        <4>1. PICK k \in 1 .. n : First(k) /\ names[k] = a
          BY <1>6
        <4> QED
          BY <2>2, <3>4, <4>1
      <3>6. ASSUME NEW k \in 1 .. n, k > i \/ First(k) PROVE y[k] = names[k]
        <4>1. k # i /\ (k > i => k > i - 1)
          BY <1>2, <2>4, <3>6
        <4> QED
          BY <2>2, <3>3, <3>6, <4>1
      <3>7. ASSUME NEW k \in 1 .. n, k <= i, ~ First(k)
            PROVE  y[k] \notin ToSet(names) /\ \A m \in 1 .. n : m # k => y[m] # y[k]
        <4>1. CASE k = i
          BY <3>3, <3>4, <3>5, <4>1
        <4>2. CASE k # i
          <5>1. k <= i - 1
            BY <1>2, <3>7, <4>2
          <5>2. x[k] \notin ToSet(names) /\ \A m \in 1 .. n : m # k => x[m] # x[k]
            BY <2>2, <3>7, <5>1
          <5> QED
            BY <3>3, <3>4, <4>2, <5>2
        <4> QED
          BY <4>1, <4>2
      <3>8. Ok(i)
        BY <3>6, <3>7 DEF y
      <3> QED
        BY <2>0, <3>8
    <2> QED
      BY <2>3, <2>4
  <1>9. \A i \in 0 .. n : i \in T
    <2> HIDE DEF T
    <2> QED
      BY <1>2, <1>7, <1>8, Inductive
  <1>10. n \in 0 .. n
    BY <1>2
  <1>11. /\ \A k \in 1 .. n : First(k) => u[k] = names[k]
         /\ \A k \in 1 .. n : ~ First(k) =>
               (\A m \in 1 .. n : m # k => u[m] # u[k]) /\ u[k] \notin ToSet(names)
    <2>1. Ok(n)
      BY <1>9, <1>10
    <2>2. \A k \in 1 .. n : k <= n
      BY <1>2
    <2> QED
      BY <1>3, <2>1, <2>2
  <1>12. u \in [1 .. n -> N]
    BY <1>3, <1>10
  <1>13. u \in Seq(N) /\ Len(u) = n
    BY <1>2, <1>12, SeqOfFn
  <1>14. ASSUME NEW j \in 1 .. n, NEW k \in 1 .. n, First(j), First(k), j # k
         PROVE  names[j] # names[k]
    <2>1. j \in 1 .. k - 1 \/ k \in 1 .. j - 1
      BY <1>2, <1>14
    <2> QED
      BY <1>4, <1>14, <2>1
  <1>15. IsInjective(u)
    <2> SUFFICES ASSUME NEW j \in 1 .. n, NEW k \in 1 .. n, j # k PROVE u[j] # u[k]
      BY <1>12 DEF IsInjective
    <2>1. CASE First(j) /\ First(k)
      BY <1>11, <1>14, <2>1
    <2>2. CASE ~ First(j)
      BY <1>11, <2>2
    <2>3. CASE ~ First(k)
      BY <1>11, <2>3
    <2> QED
      BY <2>1, <2>2, <2>3
  <1>16. \A k \in 1 .. n : (\A j \in 1 .. k - 1 : names[j] # names[k]) => u[k] = names[k]
    BY <1>4, <1>11
  <1>17. \A k \in 1 .. n : u[k] = names[k] \/ u[k] \notin ToSet(names)
    BY <1>11
  <1>18. ToSet(names) \subseteq ToSet(u)
    BY <1>6, <1>11, <1>12 DEF ToSet
  <1> QED
    BY <1>13, <1>15, <1>16, <1>17, <1>18 DEF n, u

LEMMA AttrNamesSuffixable == Suffixable(AttrNames)
  <1> SUFFICES ASSUME NEW a \in AttrNames, NEW i \in Nat
               PROVE  a[4] \in Seq(Nat) /\ Suffixed(a, i) \in AttrNames
    BY DEF Suffixable
  <1>1. /\ a[1] \in {""} /\ a[2] \in Nat /\ a[3] \in Seq(Words) /\ a[4] \in Seq(Nat)
    BY DEF AttrNames
  <1> DEFINE s == a[4]
  <1>2. s \in Seq(Nat)
    BY <1>1
  <1> HIDE DEF s
  <1>3. Append(s, i) \in Seq(Nat)
    BY <1>2
  <1> QED
    BY <1>1, <1>2, <1>3 DEF Suffixed, AttrNames, s

(***************************************************************************)
(* Relations                                                               *)
(***************************************************************************)
LEMMA RowsOf ==
    ASSUME NEW n, NEW rel \in Relations(n)
    PROVE  /\ IsSeq(rel) /\ Len(rel) \in Nat /\ DOMAIN rel = 1 .. Len(rel)
           /\ \A k \in 1 .. Len(rel) : rel[k] \in [1 .. n -> Values]
           /\ \A row \in ToSet(rel) : row \in [1 .. n -> Values] /\ DOMAIN row = 1 .. n
  <1>1. rel \in Seq([1 .. n -> Values])
    BY DEF Relations
  <1>2. /\ IsSeq(rel) /\ Len(rel) \in Nat /\ DOMAIN rel = 1 .. Len(rel)
        /\ \A k \in 1 .. Len(rel) : rel[k] \in [1 .. n -> Values]
        /\ ToSet(rel) \subseteq [1 .. n -> Values]
    BY <1>1, SeqIsSeq
  <1> QED
    BY <1>2

LEMMA RowConcat ==
    ASSUME NEW m \in Nat, NEW p \in Nat, NEW x \in [1 .. m -> Values], NEW y \in [1 .. p -> Values]
    PROVE  /\ x \o y \in [1 .. m + p -> Values]
           /\ \A k \in 1 .. m : (x \o y)[k] = x[k]
           /\ \A k \in 1 .. p : (x \o y)[m + k] = y[k]
  <1>1. x \in Seq(Values) /\ Len(x) = m /\ y \in Seq(Values) /\ Len(y) = p
    BY SeqOfFn
  <1> DEFINE c == x \o y
  <1>2. c \in Seq(Values) /\ Len(c) = m + p
        /\ (\A k \in 1 .. m : c[k] = x[k]) /\ \A k \in 1 .. p : c[m + k] = y[k]
    <2>1. x \in Seq(Values) /\ y \in Seq(Values)
      BY <1>1
    <2>2. /\ x \o y \in Seq(Values) /\ Len(x \o y) = Len(x) + Len(y)
          /\ \A k \in 1 .. Len(x) : (x \o y)[k] = x[k]
          /\ \A k \in 1 .. Len(y) : (x \o y)[Len(x) + k] = y[k]
      BY <2>1, ConcatFacts
    <2> QED
      BY <1>1, <2>2
  <1> HIDE DEF c
  <1>3. c \in [1 .. m + p -> Values]
    BY <1>2
  <1> QED
    BY <1>2, <1>3 DEF c

LEMMA NullRowOk ==
    ASSUME NEW n \in Nat
    PROVE  NullRow(n) \in [1 .. n -> Values] /\ \A k \in 1 .. n : NullRow(n)[k] = Null
  BY DEF NullRow, Values

\* The row of a projection.
Picked(row, exprs) == [j \in DOMAIN exprs |-> IF exprs[j] = 0 THEN Null ELSE row[exprs[j]]]

LEMMA ProjectFacts ==
    ASSUME NEW w \in Nat, NEW rel \in Relations(w), NEW exprs \in Seq(0 .. w)
    PROVE  /\ Project(rel, exprs) \in Relations(Len(exprs))
           /\ Len(Project(rel, exprs)) = Len(rel)
           /\ \A k \in 1 .. Len(rel) : Project(rel, exprs)[k] = Picked(rel[k], exprs)
           /\ ToSet(Project(rel, exprs)) = {Picked(row, exprs) : row \in ToSet(rel)}
  <1> DEFINE p == Project(rel, exprs)
             n == Len(rel)
             m == Len(exprs)
  <1>1. n \in Nat /\ DOMAIN rel = 1 .. n /\ \A k \in 1 .. n : rel[k] \in [1 .. w -> Values]
    BY RowsOf
  <1>2. m \in Nat /\ DOMAIN exprs = 1 .. m /\ \A j \in 1 .. m : exprs[j] \in 0 .. w
    BY SeqIsSeq
  <1>3. Null \in Values
    BY DEF Values
  <1> HIDE DEF n, m
  <1>4. p = [k \in 1 .. n |-> Picked(rel[k], exprs)]
    BY <1>1 DEF Project, Picked
  <1>5. \A row \in [1 .. w -> Values] : Picked(row, exprs) \in [1 .. m -> Values]
    <2> TAKE row \in [1 .. w -> Values]
    <2>1. \A j \in 1 .. m : exprs[j] = 0 \/ exprs[j] \in 1 .. w
      BY <1>2
    <2>2. \A j \in 1 .. m : (IF exprs[j] = 0 THEN Null ELSE row[exprs[j]]) \in Values
      BY <1>3, <2>1
    <2> QED
      BY <1>2, <2>2 DEF Picked
  <1>6. p \in [1 .. n -> [1 .. m -> Values]]
    BY <1>1, <1>4, <1>5
  <1> HIDE DEF p
  <1>7. p \in Seq([1 .. m -> Values]) /\ Len(p) = n /\ DOMAIN p = 1 .. n
    BY <1>1, <1>6, SeqOfFn
  <1>8. \A k \in 1 .. n : p[k] = Picked(rel[k], exprs)
    BY <1>4
  <1>9. ToSet(p) = {Picked(row, exprs) : row \in ToSet(rel)}
    BY <1>1, <1>7, <1>8 DEF ToSet
  <1> QED
    BY <1>7, <1>8, <1>9 DEF p, n, m, Relations

\* Rows that are kept are rows of the relation.
LEMMA KeepRows ==
    ASSUME NEW w, NEW rel \in Relations(w), NEW P
    PROVE  /\ Keep(rel, P) \in Relations(w)
           /\ ToSet(Keep(rel, P)) \subseteq ToSet(rel)
           /\ \A k \in DOMAIN rel : k \in P => rel[k] \in ToSet(Keep(rel, P))
           /\ \A row \in ToSet(Keep(rel, P)) : \E k \in DOMAIN rel : k \in P /\ rel[k] = row
  <1>1. rel \in Seq([1 .. w -> Values])
    BY DEF Relations
  <1>2. /\ Keep(rel, P) \in Seq([1 .. w -> Values])
        /\ \A e : e \in ToSet(Keep(rel, P)) <=> \E k \in DOMAIN rel : k \in P /\ rel[k] = e
    BY <1>1, KeepFacts
  <1> QED
    BY <1>2 DEF Relations, ToSet

LEMMA SelectFacts ==
    ASSUME NEW w, NEW rel \in Relations(w), NEW pos
    PROVE  Select(rel, pos) \in Relations(w) /\ ToSet(Select(rel, pos)) \subseteq ToSet(rel)
  BY KeepRows DEF Select

\* The first of the copies of a row is kept.
LEMMA DistinctFacts ==
    ASSUME NEW w, NEW rel \in Relations(w)
    PROVE  Distinct(rel) \in Relations(w) /\ ToSet(Distinct(rel)) = ToSet(rel)
  <1> DEFINE P == {k \in DOMAIN rel : \A j \in 1 .. k - 1 : rel[j] # rel[k]}
             n == Len(rel)
  <1>1. n \in Nat /\ DOMAIN rel = 1 .. n
    BY RowsOf
  <1>2. /\ Keep(rel, P) \in Relations(w)
        /\ ToSet(Keep(rel, P)) \subseteq ToSet(rel)
        /\ \A k \in DOMAIN rel : k \in P => rel[k] \in ToSet(Keep(rel, P))
    <2> HIDE DEF P
    <2> QED
      BY KeepRows
  <1> HIDE DEF n
  <1>3. ASSUME NEW e \in ToSet(rel) PROVE e \in ToSet(Keep(rel, P))
    <2> DEFINE K == {k \in 1 .. n : rel[k] = e}
    <2>1. K \in SUBSET Nat /\ K # {}
      BY <1>1 DEF ToSet
    <2>2. PICK k \in K : \A y \in K : k <= y
      <3> HIDE DEF K
      <3> QED
        BY <2>1, SmallestNat
    <2>3. k \in 1 .. n /\ rel[k] = e
      BY <2>2
    <2>4. \A j \in 1 .. k - 1 : rel[j] # rel[k]
      <3> SUFFICES ASSUME NEW j \in 1 .. k - 1, rel[j] = rel[k] PROVE FALSE
        OBVIOUS
      <3>1. j \in 1 .. n /\ ~ (k <= j)
        BY <1>1, <2>3
      <3> QED
        BY <2>2, <2>3, <3>1
    <2>5. k \in DOMAIN rel /\ k \in P
      BY <1>1, <2>3, <2>4
    <2> QED
      BY <1>2, <2>3, <2>5
  <1>4. Distinct(rel) = Keep(rel, P)
    BY DEF Distinct
  <1> QED
    BY <1>2, <1>3, <1>4

LEMMA LimitFacts ==
    ASSUME NEW w, NEW rel \in Relations(w)
    PROVE  LET lim == SubSeq(rel, 1, Min({LimitRows, Len(rel)}))
           IN  lim \in Relations(w) /\ ToSet(lim) \subseteq ToSet(rel)
  <1>1. rel \in Seq([1 .. w -> Values]) /\ Len(rel) \in Nat /\ DOMAIN rel = 1 .. Len(rel)
    BY RowsOf DEF Relations
  <1> DEFINE m == Min({LimitRows, Len(rel)})
             s == SubSeq(rel, 1, m)
             n == Len(rel)
             S == [1 .. w -> Values]
  <1> HIDE DEF S
  <1>0. rel \in Seq(S)
    BY <1>1 DEF S
  <1> HIDE DEF n
  <1>2. m \in {LimitRows, n} /\ \A y \in {LimitRows, n} : m <= y
    <2>1. {LimitRows, n} \in SUBSET Nat /\ {LimitRows, n} # {}
      BY <1>1 DEF LimitRows, n
    <2> QED
      BY <2>1, MinOfNat DEF n
  <1> HIDE DEF m
  <1>3. m \in Nat /\ m <= n
    <2>1. n \in Nat /\ LimitRows \in Nat
      BY <1>1 DEF LimitRows, n
    <2>2. m \in Nat
      BY <1>2, <2>1
    <2> QED
      BY <1>2, <2>2
  <1>4. s \in Seq(S) /\ Len(s) = m /\ \A k \in 1 .. m : s[k] = rel[k]
    BY <1>0, <1>3 DEF n
  <1> HIDE DEF s
  <1>5. DOMAIN s = 1 .. m /\ \A k \in 1 .. m : k \in 1 .. n
    BY <1>1, <1>3, <1>4, SeqIsSeq DEF n
  <1>6. ToSet(s) \subseteq ToSet(rel)
    BY <1>1, <1>4, <1>5 DEF ToSet, n
  <1> QED
    BY <1>4, <1>6 DEF s, m, n, S, Relations

\* A set of positions that is not empty has a positive number of members.
LEMMA CountPositive ==
    ASSUME NEW n \in Nat, NEW T \in SUBSET (1 .. n)
    PROVE  IsFiniteSet(T) /\ Cardinality(T) \in Nat /\ (T # {} <=> Cardinality(T) >= 1)
  <1>1. IsFiniteSet(1 .. n)
    <2>1. 1 \in Int /\ n \in Int
      OBVIOUS
    <2> QED
      BY <2>1, FS_Interval
  <1>2. IsFiniteSet(T)
    BY <1>1, FS_Subset
  <1>3. Cardinality(T) \in Nat /\ (Cardinality(T) = 0 <=> T = {})
    <2>1. Cardinality(T) \in Nat
      BY <1>2, FS_CardinalityType
    <2>2. Cardinality(T) = 0 <=> T = {}
      BY <1>2, FS_EmptySet
    <2> QED
      BY <2>1, <2>2
  <1> DEFINE c == Cardinality(T)
  <1>4. c \in Nat /\ (c = 0 <=> T = {})
    BY <1>3
  <1> HIDE DEF c
  <1>5. c \in Nat
    BY <1>4
  <1>6. c # 0 <=> c >= 1
    BY <1>5
  <1>7. c # 0 <=> T # {}
    BY <1>4
  <1> QED
    BY <1>2, <1>5, <1>6, <1>7 DEF c

LEMMA SetOpFacts ==
    ASSUME NEW w, NEW l \in Relations(w), NEW r \in Relations(w)
    PROVE  /\ IntersectAll(l, r) \in Relations(w) /\ ExceptAll(l, r) \in Relations(w)
           /\ ToSet(ExceptAll(l, r)) \subseteq ToSet(l)
           /\ ToSet(IntersectAll(l, r)) \subseteq ToSet(l) \intersect ToSet(r)
           /\ l \o r \in Relations(w) /\ ToSet(l \o r) = ToSet(l) \union ToSet(r)
  <1>1. /\ IntersectAll(l, r) \in Relations(w) /\ ExceptAll(l, r) \in Relations(w)
        /\ ToSet(ExceptAll(l, r)) \subseteq ToSet(l)
        /\ ToSet(IntersectAll(l, r)) \subseteq ToSet(l)
        /\ \A row \in ToSet(IntersectAll(l, r)) : \E k \in DOMAIN l : k \in Paired(l, r) /\ l[k] = row
    BY KeepRows DEF IntersectAll, ExceptAll
  <1>2. ASSUME NEW k \in DOMAIN l, k \in Paired(l, r) PROVE l[k] \in ToSet(r)
    <2> DEFINE A == {j \in 1 .. k : l[j] = l[k]}
               B == {j \in DOMAIN r : r[j] = l[k]}
    <2>1. Len(l) \in Nat /\ DOMAIN l = 1 .. Len(l) /\ Len(r) \in Nat /\ DOMAIN r = 1 .. Len(r)
      BY RowsOf
    <2>2. k \in 1 .. k /\ k \in Nat
      BY <2>1
    <2>3. A \in SUBSET (1 .. k) /\ A # {} /\ B \in SUBSET (1 .. Len(r))
      BY <2>1, <2>2
    <2>4. Cardinality(A) <= Cardinality(B)
      BY <1>2 DEF Paired
    <2> HIDE DEF A, B
    <2>5. Cardinality(A) >= 1 /\ Cardinality(A) \in Nat
      BY <2>2, <2>3, CountPositive
    <2>6. Cardinality(B) \in Nat /\ (B # {} <=> Cardinality(B) >= 1)
      BY <2>1, <2>3, CountPositive
    <2>7. B # {}
      BY <2>4, <2>5, <2>6
    <2> QED
      BY <2>7 DEF B, ToSet
  <1>3. l \o r \in Relations(w) /\ ToSet(l \o r) = ToSet(l) \union ToSet(r)
    BY ConcatFacts DEF Relations
  <1> QED
    BY <1>1, <1>2, <1>3

\* The rows that a join makes of row x of its left input.
JoinsTo(joinType, right, p, on, x, row) ==
    \/ \E y \in ToSet(right) : Satisfies(on, x, y) /\ row = x \o y
    \/ /\ joinType = "LEFT_OUTER" /\ row = x \o NullRow(p)
       /\ \A y \in ToSet(right) : ~ Satisfies(on, x, y)

LEMMA JoinFacts ==
    ASSUME NEW m \in Nat, NEW p \in Nat, NEW left \in Relations(m), NEW right \in Relations(p),
           NEW joinType, NEW on
    PROVE  /\ JoinOn(joinType, left, right, p, on) \in Relations(m + p)
           /\ \A row : row \in ToSet(JoinOn(joinType, left, right, p, on)) <=>
                          \E x \in ToSet(left) : JoinsTo(joinType, right, p, on, x, row)
  <1> DEFINE S == [1 .. m + p -> Values]
             n == Len(left)
             P(k) == {h \in DOMAIN right : Satisfies(on, left[k], right[h])}
             Hits(k) == Keep(right, P(k))
             Rows(k) == IF Hits(k) = << >> /\ joinType = "LEFT_OUTER"
                        THEN << left[k] \o NullRow(p) >>
                        ELSE [h \in DOMAIN Hits(k) |-> left[k] \o Hits(k)[h]]
             ss == [k \in DOMAIN left |-> Rows(k)]
             J == JoinOn(joinType, left, right, p, on)
  <1>1. J = FlattenSeq(ss)
    BY DEF JoinOn
  <1>2. /\ n \in Nat /\ DOMAIN left = 1 .. n /\ \A k \in 1 .. n : left[k] \in [1 .. m -> Values]
    BY RowsOf
  <1>3. ASSUME NEW k \in 1 .. n
        PROVE  /\ Rows(k) \in Seq(S)
               /\ \A row : row \in ToSet(Rows(k)) <=> JoinsTo(joinType, right, p, on, left[k], row)
    <2> DEFINE x == left[k]
               hits == Hits(k)
    <2>1. x \in [1 .. m -> Values]
      BY <1>2
    <2>2. /\ hits \in Relations(p)
          /\ \A y : y \in ToSet(hits) <=> y \in ToSet(right) /\ Satisfies(on, x, y)
      <3>1. right \in Seq([1 .. p -> Values])
        BY DEF Relations
      <3>2. /\ hits \in Seq([1 .. p -> Values])
            /\ \A y : y \in ToSet(hits) <=> \E h \in DOMAIN right : h \in P(k) /\ right[h] = y
        <4> HIDE DEF P
        <4> QED
          BY <3>1, KeepFacts
      <3> QED
        BY <3>2 DEF Relations, ToSet
    <2> HIDE DEF x, Hits
    <2>3. /\ Len(hits) \in Nat /\ DOMAIN hits = 1 .. Len(hits)
          /\ \A h \in 1 .. Len(hits) : hits[h] \in [1 .. p -> Values]
      BY <2>2, RowsOf
    <2>4. \A y \in [1 .. p -> Values] : x \o y \in S
      BY <2>1, RowConcat
    <2>5. NullRow(p) \in [1 .. p -> Values]
      BY NullRowOk
    <2>6. CASE hits = << >> /\ joinType = "LEFT_OUTER"
      <3> DEFINE z == x \o NullRow(p)
      <3>1. z \in S
        BY <2>4, <2>5
      <3> HIDE DEF z, S
      <3>2. << z >> \in Seq(S) /\ ToSet(<< z >>) = {z}
        BY <3>1, OneInput
      <3>3. Rows(k) = << z >>
        BY <2>6 DEF x, z
      <3>4. \A y \in ToSet(right) : ~ Satisfies(on, x, y)
        <4>1. ToSet(hits) = {}
          BY <2>6, EmptyIsSeq DEF ToSet
        <4> QED
          BY <2>2, <4>1
      <3>6. joinType = "LEFT_OUTER"
        BY <2>6
      <3>5. \A row : JoinsTo(joinType, right, p, on, x, row) <=> row = z
        <4> HIDE DEF Rows, ss, J, hits
        <4> QED
          BY <3>6, <3>4 DEF JoinsTo, z
      <3>7. << z >> \in Seq(S)
        BY <3>2
      <3>8. \A row : row \in ToSet(<< z >>) <=> JoinsTo(joinType, right, p, on, x, row)
        BY <3>2, <3>5
      <3> HIDE DEF Rows
      <3> QED
        BY <3>3, <3>7, <3>8 DEF x
    <2>7. CASE ~ (hits = << >> /\ joinType = "LEFT_OUTER")
      <3> DEFINE rows == [h \in DOMAIN hits |-> x \o hits[h]]
                 q == Len(hits)
      <3>1. rows \in [1 .. q -> S]
        BY <2>3, <2>4
      <3> HIDE DEF S
      <3>2. rows \in Seq(S) /\ DOMAIN rows = 1 .. q
        BY <2>3, <3>1, SeqOfFn
      <3>3. Rows(k) = rows
        BY <2>7 DEF x
      <3>4. \A row : row \in ToSet(rows) <=> \E y \in ToSet(hits) : row = x \o y
        BY <2>3 DEF ToSet
      <3>5. \A row : row \in ToSet(rows) <=>
                        \E y \in ToSet(right) : Satisfies(on, x, y) /\ row = x \o y
        BY <2>2, <3>4
      <3>6. joinType = "LEFT_OUTER" => \E y \in ToSet(right) : Satisfies(on, x, y)
        <4> SUFFICES ASSUME joinType = "LEFT_OUTER" PROVE \E y \in ToSet(right) : Satisfies(on, x, y)
          OBVIOUS
        <4>1. hits # << >>
          BY <2>7
        <4>2. hits \in Seq([1 .. p -> Values])
          BY <2>2 DEF Relations
        <4>3. 1 \in DOMAIN hits
          BY <4>1, <4>2
        <4>4. hits[1] \in ToSet(hits)
          BY <4>3 DEF ToSet
        <4> QED
          BY <2>2, <4>4
      <3>7. \A row : row \in ToSet(rows) <=> JoinsTo(joinType, right, p, on, x, row)
        BY <3>5, <3>6 DEF JoinsTo
      <3> HIDE DEF rows
      <3> QED
        BY <3>2, <3>3, <3>7 DEF x
    <2> QED
      BY <2>6, <2>7
  <1>4. DOMAIN ss = 1 .. n /\ \A k \in 1 .. n : ss[k] = Rows(k)
    BY <1>2
  <1> HIDE DEF S, Rows, n
  <1>5. ss \in [1 .. n -> Seq(S)]
    BY <1>2, <1>3
  <1> HIDE DEF ss, J
  <1>6. ss \in Seq(Seq(S))
    BY <1>2, <1>5, SeqOfFn
  <1>7. J \in Seq(S) /\ \A row : row \in ToSet(J) <=> \E k \in DOMAIN ss : row \in ToSet(ss[k])
    BY <1>1, <1>6, FlattenFacts
  <1>8. \A row : row \in ToSet(J) <=>
                    \E k \in 1 .. n : JoinsTo(joinType, right, p, on, left[k], row)
    BY <1>3, <1>4, <1>7
  <1>9. \A x : x \in ToSet(left) <=> \E k \in 1 .. n : left[k] = x
    BY <1>2 DEF ToSet
  <1>10. \A row : row \in ToSet(J) <=>
                    \E x \in ToSet(left) : JoinsTo(joinType, right, p, on, x, row)
    BY <1>8, <1>9
  <1>11. J \in Relations(m + p)
    BY <1>7 DEF Relations, S
  <1> QED
    BY <1>10, <1>11 DEF J

\* The groups of an aggregation are those of its input.
GroupFrom(rel, groupBy, row) ==
    \E t \in ToSet(rel) : \A j \in 1 .. Len(groupBy) : row[j + 1] = t[groupBy[j]]

LEMMA CountByFacts ==
    ASSUME NEW w \in Nat, NEW rel \in Relations(w), NEW groupBy \in Seq(1 .. w)
    PROVE  /\ CountBy(rel, groupBy) \in Relations(Len(groupBy) + 1)
           /\ \A row \in ToSet(CountBy(rel, groupBy)) : row[1] \in Nat
           /\ groupBy # << >> =>
                 \A row \in ToSet(CountBy(rel, groupBy)) : GroupFrom(rel, groupBy, row)
  <1> DEFINE m == Len(groupBy)
             keys == Project(rel, groupBy)
             groups == Distinct(keys)
             C(g) == Cardinality({k \in DOMAIN keys : keys[k] = groups[g]})
             R == CountBy(rel, groupBy)
  <1>1. Len(rel) \in Nat
    BY RowsOf
  <1>2. m \in Nat /\ DOMAIN groupBy = 1 .. m /\ \A j \in 1 .. m : groupBy[j] \in 1 .. w
    BY SeqIsSeq
  <1>3. \A c \in Nat : << c >> \in [1 .. 1 -> Values] /\ << c >>[1] = c
    BY DEF Values
  <1>4. CASE groupBy = << >>
    <2> DEFINE row == << Len(rel) >>
    <2>1. m = 0 /\ m + 1 = 1
      BY <1>4
    <2>2. row \in [1 .. 1 -> Values] /\ row[1] \in Nat
      BY <1>1, <1>3
    <2>3. R = << row >>
      BY <1>4 DEF CountBy
    <2> HIDE DEF row
    <2>4. << row >> \in Seq([1 .. 1 -> Values]) /\ ToSet(<< row >>) = {row}
      BY <2>2, OneInput
    <2> HIDE DEF R, m
    <2>5. R \in Relations(m + 1) /\ \A r \in ToSet(R) : r[1] \in Nat
      BY <2>1, <2>2, <2>3, <2>4 DEF Relations
    <2> QED
      BY <1>4, <2>5 DEF R, m
  <1>5. CASE groupBy # << >>
    <2>0. groupBy \in Seq(0 .. w)
      BY <1>2
    <2>1. /\ keys \in Relations(m) /\ ToSet(keys) = {Picked(row, groupBy) : row \in ToSet(rel)}
      BY <2>0, ProjectFacts
    <2>2. groups \in Relations(m) /\ ToSet(groups) = ToSet(keys)
      <3> HIDE DEF m, keys
      <3> QED
        BY <2>1, DistinctFacts
    <2>3. R = [g \in DOMAIN groups |-> << C(g) >> \o groups[g]]
      BY <1>5 DEF CountBy
    <2>4. \A g \in DOMAIN groups : C(g) \in Nat
      <3> TAKE g \in DOMAIN groups
      <3> DEFINE T == {k \in DOMAIN keys : keys[k] = groups[g]}
                 n == Len(keys)
      <3>1. n \in Nat /\ DOMAIN keys = 1 .. n
        BY <2>1, RowsOf
      <3>2. T \in SUBSET (1 .. n)
        BY <3>1
      <3>3. C(g) = Cardinality(T)
        OBVIOUS
      <3> HIDE DEF T, n, C
      <3> QED
        BY <3>1, <3>2, <3>3, CountPositive
    <2> HIDE DEF C, groups, keys, m
    <2>5. /\ Len(groups) \in Nat /\ DOMAIN groups = 1 .. Len(groups)
          /\ \A g \in 1 .. Len(groups) : groups[g] \in [1 .. m -> Values]
      BY <2>2, RowsOf
    <2> DEFINE n == Len(groups)
    <2>6. ASSUME NEW g \in 1 .. n
          PROVE  /\ << C(g) >> \o groups[g] \in [1 .. m + 1 -> Values]
                 /\ (<< C(g) >> \o groups[g])[1] \in Nat
                 /\ \A j \in 1 .. m : (<< C(g) >> \o groups[g])[j + 1] = groups[g][j]
      <3> DEFINE x == << C(g) >>
                 y == groups[g]
      <3>1. x \in [1 .. 1 -> Values] /\ x[1] \in Nat /\ y \in [1 .. m -> Values]
        BY <1>3, <2>4, <2>5
      <3> HIDE DEF x, y
      <3>2. /\ x \o y \in [1 .. 1 + m -> Values]
            /\ \A k \in 1 .. 1 : (x \o y)[k] = x[k]
            /\ \A k \in 1 .. m : (x \o y)[1 + k] = y[k]
        BY <1>2, <3>1, RowConcat DEF m
      <3>3. 1 + m = m + 1 /\ \A j \in 1 .. m : 1 + j = j + 1
        BY <1>2 DEF m
      <3>5. (x \o y)[1] \in Nat
        <4>1. 1 \in 1 .. 1
          OBVIOUS
        <4>2. (x \o y)[1] = x[1]
          BY <3>2, <4>1
        <4> QED
          BY <3>1, <4>2
      <3>6. \A j \in 1 .. m : (x \o y)[j + 1] = y[j]
        <4> TAKE j \in 1 .. m
        <4>1. (x \o y)[1 + j] = y[j]
          BY <3>2
        <4> QED
          BY <3>3, <4>1
      <3>4. /\ x \o y \in [1 .. m + 1 -> Values]
            /\ (x \o y)[1] \in Nat
            /\ \A j \in 1 .. m : (x \o y)[j + 1] = y[j]
        BY <3>2, <3>3, <3>5, <3>6
      <3> QED
        BY <3>4 DEF x, y
    <2> HIDE DEF R
    <2>7. R \in [1 .. n -> [1 .. m + 1 -> Values]]
      BY <2>3, <2>5, <2>6
    <2>8. DOMAIN R = 1 .. n /\ \A g \in 1 .. n : R[g] = << C(g) >> \o groups[g]
      BY <2>3, <2>5
    <2>9. R \in Seq([1 .. m + 1 -> Values])
      <3> HIDE DEF n
      <3>1. n \in Nat
        BY <2>5 DEF n
      <3> QED
        BY <2>7, <3>1, SeqOfFn
    <2>10. ASSUME NEW row \in ToSet(R)
           PROVE  /\ row[1] \in Nat
                  /\ \E t \in ToSet(rel) : \A j \in 1 .. m : row[j + 1] = t[groupBy[j]]
      <3>1. PICK g \in 1 .. n : row = << C(g) >> \o groups[g]
        BY <2>8 DEF ToSet
      <3>2. row[1] \in Nat /\ \A j \in 1 .. m : row[j + 1] = groups[g][j]
        BY <2>6, <3>1
      <3>3. groups[g] \in ToSet(keys)
        BY <2>2, <2>5 DEF ToSet
      <3>4. PICK t \in ToSet(rel) : groups[g] = Picked(t, groupBy)
        BY <2>1, <3>3
      <3>5. \A j \in 1 .. m : j \in DOMAIN groupBy /\ groupBy[j] # 0
        BY <1>2 DEF m
      <3>6. \A j \in 1 .. m : groups[g][j] = t[groupBy[j]]
        BY <3>4, <3>5 DEF Picked
      <3> QED
        BY <3>2, <3>6
    <2> QED
      BY <2>9, <2>10 DEF R, m, Relations, GroupFrom
  <1> QED
    BY <1>4, <1>5

-----------------------------------------------------------------------------
(***************************************************************************)
(* What the operators of a query compute                                   *)
(***************************************************************************)
CompleteIs(q, o, p) ==
    /\ p.type = o.type /\ p.how = o.how /\ p.in = o.in /\ p.pos = o.pos
    /\ p.rightWidth = o.rightWidth
    /\ p.schema = SchemaOf(o, [k \in DOMAIN o.in |-> q[o.in[k]].schema])
    /\ p.notNull = computeNotNull(o, p.schema, [k \in DOMAIN o.in |-> q[o.in[k]].schema],
                                  [k \in DOMAIN o.in |-> q[o.in[k]].notNull])
    /\ p.rel = Eval(p, [k \in DOMAIN o.in |-> q[o.in[k]].rel], db)

\* The data of an operator that is added is in order, and its inferred
\* attributes are not NULL if those of its inputs are not.
NewData(q, o, p) ==
    /\ DataOk(q, p)
    /\ NotNullOk(q, o) /\ (\A k \in DOMAIN o.in : NotNullIn(q[o.in[k]])) => NotNullIn(p)

InputsOk(q, o) ==
    /\ o.type \in OpTypes /\ o.in \in Seq(DOMAIN q) /\ Len(o.in) = Arity(o.type)

LEMMA CompleteIsRecord ==
    ASSUME NEW q, NEW o, NEW p, p = Complete(q, o, db)
    PROVE  CompleteIs(q, o, p)
  <1>1. p.rel = Eval(p, [k \in DOMAIN o.in |-> q[o.in[k]].rel], db)
    BY DEF Complete, Eval
  <1> QED
    BY <1>1 DEF CompleteIs, Complete

LEMMA InputsAreThere ==
    ASSUME NEW q, NEW o, InputsOk(q, o)
    PROVE  /\ DOMAIN o.in = 1 .. Arity(o.type)
           /\ \A k \in DOMAIN o.in : o.in[k] \in DOMAIN q
           /\ o.type \in Unary => DOMAIN o.in = {1}
           /\ o.type \in {"Join", "Set"} => DOMAIN o.in = {1, 2}
           /\ o.type \in Leaves => DOMAIN o.in = {}
  BY DEF InputsOk, Arity, Leaves, Unary

\* What is in order stays so when operators follow.
LEMMA DataLater ==
    ASSUME NEW q, NEW r, NEW o, InputsOk(q, o), DataOk(q, o), \A i \in DOMAIN q : r[i] = q[i]
    PROVE  DataOk(r, o)
  <1>1. \A k \in DOMAIN o.in : r[o.in[k]] = q[o.in[k]]
    BY InputsAreThere
  <1>2. PosOk(r, o) /\ SchemaOk(r, o)
    <2>1. CASE o.type \in Leaves
      BY <2>1 DEF DataOk, PosOk, SchemaOk, Leaves
    <2>2. CASE o.type \in Unary
      <3>1. r[o.in[1]] = q[o.in[1]]
        BY <1>1, <2>2, InputsAreThere
      <3> QED
        BY <2>2, <3>1 DEF DataOk, PosOk, SchemaOk, Unary, Leaves, Width
    <2>3. CASE o.type \in {"Join", "Set"}
      <3>1. r[o.in[1]] = q[o.in[1]] /\ r[o.in[2]] = q[o.in[2]]
        BY <1>1, <2>3, InputsAreThere
      <3> QED
        BY <2>3, <3>1 DEF DataOk, PosOk, SchemaOk, Leaves, Width
    <2> QED
      BY <2>1, <2>2, <2>3 DEF InputsOk, OpTypes
  <1>3. [k \in DOMAIN o.in |-> r[o.in[k]].rel] = [k \in DOMAIN o.in |-> q[o.in[k]].rel]
    BY <1>1
  <1> QED
    BY <1>2, <1>3 DEF DataOk

LEMMA AttrName ==
    ASSUME NEW a \in Words
    PROVE  Attr(a) \in AttrNames /\ Attr(a)[3] = << a >>
  <1>1. << a >> \in Seq(Words) /\ << >> \in Seq(Nat)
    OBVIOUS
  <1> QED
    BY <1>1 DEF Attr, AttrNames

LEMMA AttrInjective ==
    ASSUME NEW a, NEW b, Attr(a) = Attr(b) \/ Attr(a)[3] = Attr(b)[3]
    PROVE  a = b
  <1>1. << a >> = << b >>
    BY DEF Attr
  <1> QED
    BY <1>1

LEMMA NewTableAccess ==
    ASSUME db \in Databases, NEW q, NEW o \in LeafOperators, NEW p, CompleteIs(q, o, p),
           o.type = "TableAccess"
    PROVE  NewData(q, o, p)
  <1> DEFINE t == o.how
             attrs == TableAttrs[t]
             n == Len(attrs)
  <1>1. t \in Tables /\ o.in = << >>
    BY NewLeaf
  <1>2. /\ attrs \in Seq(STRING) /\ attrs # << >>
        /\ \A j, k \in DOMAIN attrs : attrs[j] = attrs[k] => j = k
        /\ NotNullAttrs[t] \subseteq ToSet(attrs)
    BY <1>1, TablesAssumption
  <1>3. n \in Nat /\ n >= 1 /\ DOMAIN attrs = 1 .. n /\ \A k \in 1 .. n : attrs[k] \in Words
    BY <1>2 DEF Words
  <1>4. /\ db[t] \in Seq([1 .. n -> Value \union {Null}])
        /\ \A h \in DOMAIN db[t] : \A k \in 1 .. n : attrs[k] \in NotNullAttrs[t] => db[t][h][k] # Null
    BY <1>1, <1>3, DatabasesAssumption
  <1> HIDE DEF n
  <1>5. p.schema = [k \in 1 .. n |-> Attr(attrs[k])]
    BY <1>3 DEF CompleteIs, SchemaOf
  <1>6. p.schema \in [1 .. n -> AttrNames]
    BY <1>3, <1>5, AttrName
  <1> DEFINE s == p.schema
  <1>7. s \in Seq(AttrNames) /\ Len(s) = n /\ DOMAIN s = 1 .. n
    <2> HIDE DEF s
    <2> QED
      BY <1>3, <1>6, SeqOfFn DEF s
  <1>8. \A k \in 1 .. n : s[k] = Attr(attrs[k])
    BY <1>5
  <1> HIDE DEF s
  <1>9. /\ IsInjective(s)
        /\ IsInjective([k \in DOMAIN s |-> s[k][3]])
    BY <1>2, <1>3, <1>7, <1>8, AttrInjective DEF IsInjective
  <1>10. p.rel = db[t]
    BY DEF CompleteIs, Eval
  <1>11. p.rel \in Relations(n)
    <2>1. Value \union {Null} \subseteq Values
      BY DEF Values
    <2> DEFINE V == Value \union {Null}
    <2>2. [1 .. n -> V] \subseteq [1 .. n -> Values]
      BY <2>1
    <2> HIDE DEF V
    <2> QED
      BY <1>4, <1>10, <2>2 DEF Relations, V
  <1>12. p.notNull = {Attr(a) : a \in NotNullAttrs[t]}
    BY DEF CompleteIs, computeNotNull
  <1>13. p.notNull \subseteq ToSet(s)
    BY <1>2, <1>3, <1>7, <1>8, <1>12 DEF ToSet
  <1>14. PosOk(q, p)
    BY DEF PosOk, CompleteIs
  <1>15. SchemaOk(q, p)
    <2>1. s # << >>
      BY <1>3, <1>7
    <2> QED
      BY <1>7, <1>9, <2>1 DEF SchemaOk, CompleteIs, Leaves, s
  <1>16. DataOk(q, p)
    BY <1>7, <1>11, <1>13, <1>14, <1>15 DEF DataOk, CompleteIs, s
  <1>17. NotNullIn(p)
    <2> SUFFICES ASSUME NEW row \in ToSet(p.rel), NEW k \in DOMAIN row, s[k] \in p.notNull
                 PROVE  row[k] # Null
      BY DEF NotNullIn, s
    <2>1. PICK h \in DOMAIN db[t] : row = db[t][h]
      BY <1>10 DEF ToSet
    <2>2. DOMAIN row = 1 .. n
      BY <1>11, RowsOf
    <2>3. PICK a \in NotNullAttrs[t] : s[k] = Attr(a)
      BY <1>12
    <2>4. attrs[k] = a
      BY <1>8, <2>2, <2>3, AttrInjective
    <2> QED
      BY <1>4, <2>1, <2>2, <2>4
  <1> QED
    BY <1>16, <1>17 DEF NewData

LEMMA NewConstRel ==
    ASSUME NEW q, NEW o \in LeafOperators, NEW p, CompleteIs(q, o, p), o.type = "ConstRel"
    PROVE  NewData(q, o, p)
  <1> DEFINE s == << Attr("k") >>
             row == ConstRow
  <1>1. p.schema = s
    BY DEF CompleteIs, SchemaOf
  <1>2. Attr("k") \in AttrNames
    <2>1. "k" \in Words
      BY DEF Words
    <2> QED
      BY <2>1, AttrName
  <1>3. s \in Seq(AttrNames) /\ Len(s) = 1 /\ s # << >> /\ DOMAIN s = 1 .. 1 /\ DOMAIN s = {1}
    BY <1>2
  <1>4. row \in [1 .. 1 -> Values]
    BY DEF ConstRow, Values
  <1>5. p.rel = << row >>
    BY DEF CompleteIs, Eval
  <1> HIDE DEF s, row
  <1>6. p.rel \in Relations(1)
    BY <1>4, <1>5 DEF Relations
  <1>7. p.notNull = {}
    BY DEF CompleteIs, computeNotNull
  <1>8. IsInjective(s) /\ IsInjective([k \in DOMAIN s |-> s[k][3]])
    BY <1>3 DEF IsInjective
  <1>9. PosOk(q, p)
    BY DEF PosOk, CompleteIs
  <1>10. SchemaOk(q, p)
    BY <1>1, <1>3, <1>8 DEF SchemaOk, CompleteIs, Leaves
  <1>11. DataOk(q, p)
    BY <1>1, <1>3, <1>6, <1>7, <1>9, <1>10 DEF DataOk, CompleteIs
  <1> QED
    BY <1>7, <1>11 DEF NewData, NotNullIn

LEMMA SchemaFacts ==
    ASSUME NEW q, NEW o, DataOk(q, o)
    PROVE  /\ o.schema \in Seq(AttrNames) /\ o.schema # << >> /\ IsInjective(o.schema)
           /\ Len(o.schema) \in Nat /\ Len(o.schema) >= 1 /\ DOMAIN o.schema = 1 .. Len(o.schema)
           /\ \A k \in 1 .. Len(o.schema) : o.schema[k] \in AttrNames
           /\ o.rel \in Relations(Len(o.schema)) /\ o.notNull \subseteq ToSet(o.schema)
  <1> DEFINE s == o.schema
  <1>1. s \in Seq(AttrNames) /\ s # << >> /\ IsInjective(s)
        /\ o.rel \in Relations(Len(s)) /\ o.notNull \subseteq ToSet(s)
    BY DEF DataOk, SchemaOk
  <1> HIDE DEF s
  <1>2. /\ Len(s) \in Nat /\ Len(s) >= 1 /\ DOMAIN s = 1 .. Len(s)
        /\ \A k \in 1 .. Len(s) : s[k] \in AttrNames
    BY <1>1
  <1> QED
    BY <1>1, <1>2 DEF s

LEMMA NewUnaryIn ==
    ASSUME NEW q, NEW i, NEW o \in UnaryOperators(q, i)
    PROVE  /\ o.in = << i >> /\ o.in[1] = i /\ DOMAIN o.in = {1}
           /\ UnaryPos(Width(q, i), o)
  <1>1. o.in = << i >> /\ UnaryPos(Width(q, i), o)
    BY NewUnary
  <1>2. << i >>[1] = i /\ DOMAIN << i >> = {1}
    OBVIOUS
  <1> QED
    BY <1>1, <1>2

\* Selection, duplicate removal, order and limit.
LEMMA NewSameSchema ==
    ASSUME NEW q, NEW i, NEW o \in UnaryOperators(q, i), DataOk(q, q[i]),
           NEW p, CompleteIs(q, o, p), o.type \in {"Selection", "DuplicateRemoval", "Order", "Limit"}
    PROVE  NewData(q, o, p)
  <1> DEFINE l == q[i]
             w == Len(l.schema)
  <1>1. /\ l.schema \in Seq(AttrNames) /\ l.schema # << >> /\ IsInjective(l.schema)
        /\ l.rel \in Relations(w) /\ l.notNull \subseteq ToSet(l.schema) /\ w \in Nat
        /\ DOMAIN l.schema = 1 .. w
    BY SchemaFacts
  <1>2. o.in = << i >> /\ o.in[1] = i /\ DOMAIN o.in = {1}
    BY NewUnaryIn
  <1>3. /\ p.schema = l.schema
        /\ p.notNull = IF o.type \in {"Selection", "DuplicateRemoval"} THEN l.notNull ELSE {}
    BY <1>2 DEF CompleteIs, SchemaOf, computeNotNull
  <1>4. p.rel \in Relations(w) /\ ToSet(p.rel) \subseteq ToSet(l.rel)
    <2> DEFINE rels == [k \in DOMAIN o.in |-> q[o.in[k]].rel]
    <2>1. rels[1] = l.rel
      BY <1>2
    <2> HIDE DEF w, l, rels
    <2>2. /\ p.rel = Eval(p, rels, db) /\ p.type = o.type /\ p.pos = o.pos
      BY DEF CompleteIs, rels
    <2>3. CASE o.type = "Selection"
      <3>1. p.rel = Select(l.rel, o.pos[1])
        BY <2>1, <2>2, <2>3 DEF Eval
      <3> QED
        BY <1>1, <3>1, SelectFacts
    <2>4. CASE o.type = "DuplicateRemoval"
      <3>1. p.rel = Distinct(l.rel)
        BY <2>1, <2>2, <2>4 DEF Eval
      <3> QED
        BY <1>1, <3>1, DistinctFacts
    <2>5. CASE o.type = "Order"
      <3>1. p.rel = l.rel
        BY <2>1, <2>2, <2>5 DEF Eval
      <3> QED
        BY <1>1, <3>1
    <2>6. CASE o.type = "Limit"
      <3>1. p.rel = SubSeq(l.rel, 1, Min({LimitRows, Len(l.rel)}))
        BY <2>1, <2>2, <2>6 DEF Eval
      <3> QED
        BY <1>1, <3>1, LimitFacts
    <2> QED
      BY <2>3, <2>4, <2>5, <2>6
  <1> HIDE DEF w
  <1>5. PosOk(q, p)
    <2>1. o.type = "Selection" => o.pos \in Seq(1 .. w) /\ Len(o.pos) = 1
      <3>1. \A x \in 1 .. w : << x >> \in Seq(1 .. w) /\ Len(<< x >>) = 1
        OBVIOUS
      <3>2. o.type = "Selection" => \E x \in 1 .. w : o.pos = << x >>
        BY NewUnaryIn DEF Width, w, UnaryPos
      <3> QED
        BY <3>1, <3>2
    <2> QED
      BY <1>2, <2>1 DEF CompleteIs, PosOk, Width, w
  <1>6. SchemaOk(q, p)
    BY <1>1, <1>2, <1>3 DEF SchemaOk, CompleteIs, Leaves
  <1>7. DataOk(q, p)
    BY <1>1, <1>2, <1>3, <1>4, <1>5, <1>6 DEF DataOk, CompleteIs, w
  <1>8. NotNullIn(l) => NotNullIn(p)
    BY <1>3, <1>4 DEF NotNullIn
  <1> QED
    BY <1>2, <1>7, <1>8 DEF NewData

LEMMA PositionsOf ==
    ASSUME NEW q, NEW i, NEW o \in UnaryOperators(q, i), Width(q, i) \in Nat, Width(q, i) >= 1,
           o.type \in {"Projection", "Aggregation"}
    PROVE  /\ o.pos \in Seq(1 .. Width(q, i))
           /\ o.type = "Projection" => o.pos # << >>
  <1> DEFINE w == Width(q, i)
  <1>1. w \in Nat /\ w >= 1
    OBVIOUS
  <1>2. /\ o.type = "Projection" => \/ \E p \in 1 .. w : o.pos = << p >>
                                    \/ w = 2 /\ o.pos = << 2, 1 >>
        /\ o.type = "Aggregation" => o.pos \in {<< >>, << 1 >>}
    BY NewUnaryIn DEF UnaryPos
  <1> HIDE DEF w
  <1>3. \A p \in 1 .. w : << p >> \in Seq(1 .. w) /\ << p >> # << >>
    OBVIOUS
  <1>4. 1 \in 1 .. w /\ << >> \in Seq(1 .. w) /\ (w = 2 => << 2, 1 >> \in Seq(1 .. w) /\ << 2, 1 >> # << >>)
    BY <1>1
  <1>5. o.pos \in Seq(1 .. w) /\ (o.type = "Projection" => o.pos # << >>)
    BY <1>2, <1>3, <1>4
  <1> QED
    BY <1>5 DEF w

\* The names that a list of attributes refers to.
LEMMA RefNames ==
    ASSUME NEW s \in Seq(AttrNames), NEW pos \in Seq(1 .. Len(s))
    PROVE  LET refs == [j \in DOMAIN pos |-> s[pos[j]]]
           IN  /\ refs \in Seq(AttrNames) /\ Len(refs) = Len(pos)
               /\ DOMAIN refs = 1 .. Len(pos) /\ Len(pos) \in Nat
               /\ \A j \in 1 .. Len(pos) : refs[j] = s[pos[j]] /\ pos[j] \in 1 .. Len(s)
  <1> DEFINE m == Len(pos)
             w == Len(s)
             refs == [j \in DOMAIN pos |-> s[pos[j]]]
  <1>1. m \in Nat /\ DOMAIN pos = 1 .. m /\ \A j \in 1 .. m : pos[j] \in 1 .. w
    BY SeqIsSeq
  <1>2. \A k \in 1 .. w : s[k] \in AttrNames
    OBVIOUS
  <1> HIDE DEF m, w
  <1>3. refs \in [1 .. m -> AttrNames] /\ \A j \in 1 .. m : refs[j] = s[pos[j]]
    BY <1>1, <1>2
  <1> HIDE DEF refs
  <1>4. refs \in Seq(AttrNames) /\ Len(refs) = m /\ DOMAIN refs = 1 .. m
    BY <1>1, <1>3, SeqOfFn
  <1> QED
    BY <1>1, <1>3, <1>4 DEF refs, m, w

LEMMA NewProjectionOp ==
    ASSUME NEW q, NEW i, NEW o \in UnaryOperators(q, i), DataOk(q, q[i]),
           NEW p, CompleteIs(q, o, p), o.type = "Projection"
    PROVE  NewData(q, o, p)
  <1> DEFINE l == q[i]
             w == Len(l.schema)
             m == Len(o.pos)
             refs == [j \in DOMAIN o.pos |-> l.schema[o.pos[j]]]
             s == p.schema
  <1>1. /\ l.schema \in Seq(AttrNames) /\ l.schema # << >> /\ IsInjective(l.schema)
        /\ l.rel \in Relations(w) /\ l.notNull \subseteq ToSet(l.schema) /\ w \in Nat /\ w >= 1
        /\ DOMAIN l.schema = 1 .. w
    BY SchemaFacts
  <1>2. o.in = << i >> /\ o.in[1] = i /\ DOMAIN o.in = {1}
    BY NewUnaryIn
  <1>3. o.pos \in Seq(1 .. w) /\ o.pos # << >>
    BY <1>1, PositionsOf DEF Width
  <1>4. /\ refs \in Seq(AttrNames) /\ Len(refs) = m /\ DOMAIN refs = 1 .. m /\ m \in Nat
        /\ \A j \in 1 .. m : refs[j] = l.schema[o.pos[j]] /\ o.pos[j] \in 1 .. w
    BY <1>1, <1>3, RefNames
  <1>5. /\ s = makeNamesUnique(refs) /\ p.notNull = exprListNotNull(s, refs, l.notNull)
        /\ p.rel = Project(l.rel, o.pos)
    BY <1>2 DEF CompleteIs, SchemaOf, computeNotNull, Eval
  <1>6. m >= 1
    BY <1>3
  <1> HIDE DEF w, m, refs, s
  <1>7. s \in Seq(AttrNames) /\ Len(s) = m /\ IsInjective(s)
    BY <1>4, <1>5, AttrNamesSuffixable, UniqueNames
  <1>8. DOMAIN s = 1 .. m /\ s # << >>
    BY <1>4, <1>6, <1>7
  <1>9. /\ p.rel \in Relations(m)
        /\ ToSet(p.rel) = {Picked(row, o.pos) : row \in ToSet(l.rel)}
    <2> DEFINE e == o.pos
    <2>0. e \in Seq(1 .. w)
      BY <1>3
    <2> HIDE DEF e
    <2>2. e \in Seq(0 .. w)
      BY <1>1, <2>0
    <2>1. o.pos \in Seq(0 .. w)
      BY <2>2 DEF e
    <2> QED
      BY <1>1, <1>5, <2>1, ProjectFacts DEF m
  <1>10. p.notNull \subseteq ToSet(s)
    BY <1>4, <1>5, <1>8 DEF exprListNotNull, ToSet
  <1>11. PosOk(q, p)
    BY <1>2, <1>3 DEF CompleteIs, PosOk, Width, w
  <1>12. SchemaOk(q, p)
    BY <1>2, <1>7, <1>8 DEF SchemaOk, CompleteIs, Leaves, s, m
  <1>13. DataOk(q, p)
    BY <1>2, <1>7, <1>9, <1>10, <1>11, <1>12 DEF DataOk, CompleteIs, s
  <1>14. ASSUME NotNullIn(l) PROVE NotNullIn(p)
    <2> SUFFICES ASSUME NEW row \in ToSet(p.rel), NEW k \in DOMAIN row, s[k] \in p.notNull
                 PROVE  row[k] # Null
      BY DEF NotNullIn, s
    <2>1. PICK x \in ToSet(l.rel) : row = Picked(x, o.pos)
      BY <1>9
    <2>2. k \in 1 .. m
      BY <1>9, RowsOf
    <2>3. PICK j \in 1 .. m : refs[j] \in l.notNull /\ s[k] = s[j]
      BY <1>4, <1>5 DEF exprListNotNull
    <2>4. j = k
      BY <1>7, <1>8, <2>2, <2>3 DEF IsInjective
    <2>5. /\ l.schema[o.pos[k]] \in l.notNull /\ o.pos[k] \in 1 .. w /\ o.pos[k] # 0
          /\ k \in DOMAIN o.pos
      BY <1>1, <1>3, <1>4, <2>2, <2>3, <2>4 DEF m
    <2>6. DOMAIN x = 1 .. w
      BY <1>1, <2>1, RowsOf
    <2>7. x[o.pos[k]] # Null
      BY <1>14, <2>1, <2>5, <2>6 DEF NotNullIn
    <2> QED
      BY <2>1, <2>5, <2>7 DEF Picked
  <1> QED
    BY <1>2, <1>13, <1>14 DEF NewData

LEMMA NewAggregation ==
    ASSUME NEW q, NEW i, NEW o \in UnaryOperators(q, i), DataOk(q, q[i]),
           NEW p, CompleteIs(q, o, p), o.type = "Aggregation"
    PROVE  NewData(q, o, p)
  <1> DEFINE l == q[i]
             w == Len(l.schema)
             m == Len(o.pos)
             refs == [j \in DOMAIN o.pos |-> l.schema[o.pos[j]]]
             names == << Attr("count") >> \o refs
             s == p.schema
  <1>1. /\ l.schema \in Seq(AttrNames) /\ l.schema # << >> /\ IsInjective(l.schema)
        /\ l.rel \in Relations(w) /\ l.notNull \subseteq ToSet(l.schema) /\ w \in Nat /\ w >= 1
        /\ DOMAIN l.schema = 1 .. w
    BY SchemaFacts
  <1>2. o.in = << i >> /\ o.in[1] = i /\ DOMAIN o.in = {1}
    BY NewUnaryIn
  <1>3. o.pos \in Seq(1 .. w)
    BY <1>1, PositionsOf DEF Width
  <1>4. /\ refs \in Seq(AttrNames) /\ Len(refs) = m /\ DOMAIN refs = 1 .. m /\ m \in Nat
        /\ \A j \in 1 .. m : refs[j] = l.schema[o.pos[j]] /\ o.pos[j] \in 1 .. w
    BY <1>1, <1>3, RefNames
  <1>5. /\ s = makeNamesUnique(names)
        /\ p.notNull = {s[1]} \union exprListNotNull(Tail(s), refs, l.notNull)
        /\ p.rel = CountBy(l.rel, o.pos)
    BY <1>2 DEF CompleteIs, SchemaOf, computeNotNull, Eval
  <1> HIDE DEF w, m, refs, s
  <1>6. names \in Seq(AttrNames) /\ Len(names) = m + 1
    <2> DEFINE a == Attr("count")
    <2>1. a \in AttrNames
      <3>1. "count" \in Words
        BY DEF Words
      <3> QED
        BY <3>1, AttrName
    <2> HIDE DEF a
    <2>2. << a >> \in Seq(AttrNames) /\ Len(<< a >>) = 1
      BY <2>1
    <2>3. << a >> \o refs \in Seq(AttrNames) /\ Len(<< a >> \o refs) = m + 1
      BY <1>4, <2>2
    <2> QED
      BY <2>3 DEF a
  <1> HIDE DEF names
  <1>7. s \in Seq(AttrNames) /\ Len(s) = m + 1 /\ IsInjective(s)
    BY <1>5, <1>6, AttrNamesSuffixable, UniqueNames
  <1>8. DOMAIN s = 1 .. m + 1 /\ s # << >> /\ 1 \in 1 .. m + 1
    BY <1>4, <1>7
  <1>9. \A j \in 1 .. m : Tail(s)[j] = s[j + 1] /\ j + 1 \in 1 .. m + 1
    BY <1>4, <1>7
  <1>10. /\ p.rel \in Relations(m + 1)
         /\ \A row \in ToSet(p.rel) : row[1] \in Nat
         /\ o.pos # << >> => \A row \in ToSet(p.rel) : GroupFrom(l.rel, o.pos, row)
    <2>1. l.rel \in Relations(w) /\ w \in Nat /\ o.pos \in Seq(1 .. w)
      BY <1>1, <1>3
    <2> HIDE DEF l
    <2> QED
      BY <1>5, <2>1, CountByFacts DEF m
  <1>11. p.notNull = {s[1]} \union {s[j + 1] : j \in {k \in 1 .. m : refs[k] \in l.notNull}}
    <2> DEFINE J == {k \in 1 .. m : refs[k] \in l.notNull}
               t == Tail(s)
    <2>1. exprListNotNull(t, refs, l.notNull) = {t[j] : j \in J}
      BY <1>4 DEF exprListNotNull
    <2>2. \A j \in J : t[j] = s[j + 1]
      BY <1>9
    <2>3. p.notNull = {s[1]} \union exprListNotNull(t, refs, l.notNull)
      BY <1>5
    <2> HIDE DEF J, t
    <2>4. {t[j] : j \in J} = {s[j + 1] : j \in J}
      BY <2>2
    <2> QED
      BY <2>1, <2>3, <2>4 DEF J
  <1>12. p.notNull \subseteq ToSet(s)
    BY <1>8, <1>9, <1>11 DEF ToSet
  <1>13. PosOk(q, p)
    BY <1>2, <1>3 DEF CompleteIs, PosOk, Width, w
  <1>14. SchemaOk(q, p)
    BY <1>2, <1>7, <1>8 DEF SchemaOk, CompleteIs, Leaves, s, m
  <1>15. DataOk(q, p)
    BY <1>2, <1>7, <1>10, <1>12, <1>13, <1>14 DEF DataOk, CompleteIs, s
  <1>16. ASSUME NotNullIn(l) PROVE NotNullIn(p)
    <2> SUFFICES ASSUME NEW row \in ToSet(p.rel), NEW k \in DOMAIN row, s[k] \in p.notNull
                 PROVE  row[k] # Null
      BY DEF NotNullIn, s
    <2>1. k \in 1 .. m + 1
      BY <1>10, RowsOf
    <2>2. CASE k = 1
      BY <1>10, <2>2, NullAssumption
    <2>3. CASE k # 1
      <3>1. s[k] # s[1]
        BY <1>7, <1>8, <2>1, <2>3 DEF IsInjective
      <3>2. PICK j \in 1 .. m : refs[j] \in l.notNull /\ s[k] = s[j + 1]
        BY <1>11, <3>1
      <3>3. j + 1 \in 1 .. m + 1
        BY <1>9
      <3>4. k = j + 1
        BY <1>7, <1>8, <2>1, <3>2, <3>3 DEF IsInjective
      <3>5. o.pos # << >>
        BY <1>4, <3>2 DEF m
      <3>6. PICK t \in ToSet(l.rel) : \A h \in 1 .. m : row[h + 1] = t[o.pos[h]]
        BY <1>10, <3>5 DEF GroupFrom, m
      <3>7. DOMAIN t = 1 .. w
        BY <1>1, <3>6, RowsOf
      <3>8. l.schema[o.pos[j]] \in l.notNull /\ o.pos[j] \in 1 .. w
        BY <1>4, <3>2
      <3>9. t[o.pos[j]] # Null
        BY <1>16, <3>6, <3>7, <3>8 DEF NotNullIn
      <3> QED
        BY <3>4, <3>6, <3>9
    <2> QED
      BY <2>2, <2>3
  <1> QED
    BY <1>2, <1>15, <1>16 DEF NewData

LEMMA NewBinaryIn ==
    ASSUME NEW q, NEW i, NEW j, NEW o \in BinaryOperators(q, i, j)
    PROVE  /\ o.in = << i, j >> /\ o.in[1] = i /\ o.in[2] = j /\ DOMAIN o.in = {1, 2}
           /\ o.type = "Join" => /\ o.how \in JoinTypes /\ o.pos = << 1, 1 >>
                                 /\ o.rightWidth = Width(q, j)
           /\ o.type = "Set" => o.how \in SetOps /\ Width(q, i) = Width(q, j)
  <1>1. /\ o.in = << i, j >>
        /\ \/ /\ o.pos = << 1, 1 >> /\ o.rightWidth = Width(q, j)
              /\ o.type = "Join" /\ o.how \in JoinTypes
           \/ /\ o.pos = << >> /\ o.rightWidth = 0
              /\ o.type = "Set" /\ o.how \in SetOps /\ Width(q, i) = Width(q, j)
    BY NewBinary
  <1>2. << i, j >>[1] = i /\ << i, j >>[2] = j /\ DOMAIN << i, j >> = {1, 2}
    OBVIOUS
  <1> QED
    BY <1>1, <1>2

\* The rows of a join: a row of each input, or NULLs for the right one.
LEMMA JoinedRow ==
    ASSUME NEW m \in Nat, NEW p \in Nat, NEW left \in Relations(m), NEW right \in Relations(p),
           NEW joinType, NEW on, NEW row \in ToSet(JoinOn(joinType, left, right, p, on))
    PROVE  /\ \E x \in ToSet(left) : \A k \in 1 .. m : row[k] = x[k]
           /\ joinType # "LEFT_OUTER" => \E y \in ToSet(right) : \A k \in 1 .. p : row[m + k] = y[k]
           /\ DOMAIN row = 1 .. m + p
  <1>1. PICK x \in ToSet(left) : JoinsTo(joinType, right, p, on, x, row)
    BY JoinFacts
  <1>2. x \in [1 .. m -> Values]
    BY RowsOf
  <1>3. ASSUME NEW y \in [1 .. p -> Values], row = x \o y
        PROVE  /\ \A k \in 1 .. m : row[k] = x[k]
               /\ \A k \in 1 .. p : row[m + k] = y[k]
               /\ DOMAIN row = 1 .. m + p
    <2>1. /\ x \o y \in [1 .. m + p -> Values]
          /\ \A k \in 1 .. m : (x \o y)[k] = x[k]
          /\ \A k \in 1 .. p : (x \o y)[m + k] = y[k]
      BY <1>2, RowConcat
    <2> QED
      BY <1>3, <2>1
  <1>4. CASE \E y \in ToSet(right) : Satisfies(on, x, y) /\ row = x \o y
    <2>1. PICK y \in ToSet(right) : row = x \o y
      BY <1>4
    <2>2. y \in [1 .. p -> Values]
      BY RowsOf
    <2> QED
      BY <1>3, <2>1, <2>2
  <1>5. CASE joinType = "LEFT_OUTER" /\ row = x \o NullRow(p)
    <2>1. NullRow(p) \in [1 .. p -> Values]
      BY NullRowOk
    <2> QED
      BY <1>3, <1>5, <2>1
  <1> QED
    BY <1>1, <1>4, <1>5 DEF JoinsTo

\* The names of a join: those of the left input, then those of the right one
\* that the left input does not have, or new ones.
LEMMA JoinNames ==
    ASSUME NEW a \in Seq(AttrNames), NEW b \in Seq(AttrNames), IsInjective(a), IsInjective(b)
    PROVE  LET s == makeNamesUnique(a \o b)
           IN  /\ s \in Seq(AttrNames) /\ Len(s) = Len(a) + Len(b) /\ IsInjective(s)
               /\ ToSet(a) \union ToSet(b) \subseteq ToSet(s)
               /\ DOMAIN s = 1 .. Len(a) + Len(b)
               /\ \A k \in 1 .. Len(a) : s[k] = a[k]
               /\ \A k \in 1 .. Len(b) : s[Len(a) + k] \notin ToSet(a)
               /\ \A k \in 1 .. Len(b) :
                     s[Len(a) + k] = b[k] \/ s[Len(a) + k] \notin ToSet(b)
  <1> DEFINE c == a \o b
             s == makeNamesUnique(c)
             m == Len(a)
             p == Len(b)
  <1>1. /\ c \in Seq(AttrNames) /\ Len(c) = m + p /\ m \in Nat /\ p \in Nat
        /\ \A k \in 1 .. m : c[k] = a[k]
        /\ \A k \in 1 .. p : c[m + k] = b[k]
        /\ ToSet(c) = ToSet(a) \union ToSet(b)
    BY ConcatFacts
  <1>2. DOMAIN a = 1 .. m /\ DOMAIN b = 1 .. p
    OBVIOUS
  <1> HIDE DEF c, m, p
  <1>3. /\ s \in Seq(AttrNames) /\ Len(s) = m + p /\ IsInjective(s)
        /\ ToSet(c) \subseteq ToSet(s)
        /\ \A k \in 1 .. m + p :
              /\ (\A j \in 1 .. k - 1 : c[j] # c[k]) => s[k] = c[k]
              /\ s[k] = c[k] \/ s[k] \notin ToSet(c)
    BY <1>1, AttrNamesSuffixable, UniqueNames
  <1> HIDE DEF s
  <1>4. DOMAIN s = 1 .. m + p
    BY <1>1, <1>3
  <1>5. \A k \in 1 .. m : s[k] = a[k] /\ k \in 1 .. m + p
    <2> TAKE k \in 1 .. m
    <2>1. k \in 1 .. m + p
      BY <1>1
    <2>2. \A j \in 1 .. k - 1 : c[j] # c[k]
      <3> TAKE j \in 1 .. k - 1
      <3>1. j \in 1 .. m /\ j # k
        BY <1>1
      <3> QED
        BY <1>1, <1>2, <3>1 DEF IsInjective
    <2> QED
      BY <1>1, <1>3, <2>1, <2>2
  <1>6. ASSUME NEW k \in 1 .. p
        PROVE  /\ s[m + k] \notin ToSet(a)
               /\ s[m + k] = b[k] \/ s[m + k] \notin ToSet(b)
    <2>1. m + k \in 1 .. m + p /\ ~ (m + k <= m)
      BY <1>1
    <2>2. s[m + k] \notin ToSet(a)
      <3> SUFFICES ASSUME NEW j \in 1 .. m, s[m + k] = a[j] PROVE FALSE
        BY <1>2 DEF ToSet
      <3>1. s[m + k] = s[j] /\ j \in 1 .. m + p
        BY <1>5
      <3>2. m + k = j
        BY <1>3, <1>4, <2>1, <3>1 DEF IsInjective
      <3> QED
        BY <2>1, <3>2
    <2>3. s[m + k] = b[k] \/ s[m + k] \notin ToSet(b)
      BY <1>1, <1>3, <2>1
    <2> QED
      BY <2>2, <2>3
  <1> QED
    BY <1>1, <1>3, <1>4, <1>5, <1>6 DEF c, s, m, p

LEMMA NewJoinOp ==
    ASSUME NEW q, NEW i, NEW j, NEW o \in BinaryOperators(q, i, j), DataOk(q, q[i]), DataOk(q, q[j]),
           NEW p, CompleteIs(q, o, p), o.type = "Join"
    PROVE  NewData(q, o, p)
  <1> DEFINE l == q[i]
             r == q[j]
             a == l.schema
             b == r.schema
             m == Len(a)
             n == Len(b)
             s == p.schema
             on == On(<< 1 >>, << 1 >>, FALSE)
  <1>1. /\ a \in Seq(AttrNames) /\ a # << >> /\ IsInjective(a)
        /\ l.rel \in Relations(m) /\ l.notNull \subseteq ToSet(a) /\ m \in Nat /\ m >= 1
        /\ DOMAIN a = 1 .. m
    BY SchemaFacts
  <1>2. /\ b \in Seq(AttrNames) /\ b # << >> /\ IsInjective(b)
        /\ r.rel \in Relations(n) /\ r.notNull \subseteq ToSet(b) /\ n \in Nat /\ n >= 1
        /\ DOMAIN b = 1 .. n
    BY SchemaFacts
  <1>3. /\ o.in = << i, j >> /\ o.in[1] = i /\ o.in[2] = j /\ DOMAIN o.in = {1, 2}
        /\ o.how \in JoinTypes /\ o.pos = << 1, 1 >> /\ o.rightWidth = n
    BY NewBinaryIn DEF Width
  <1>4. /\ s = makeNamesUnique(a \o b)
        /\ p.notNull = IF o.how = "LEFT_OUTER" THEN l.notNull ELSE l.notNull \union r.notNull
    BY <1>3 DEF CompleteIs, SchemaOf, computeNotNull, NotNullJoin
  <1>5. p.rel = JoinOn(o.how, l.rel, r.rel, n, on)
    <2> DEFINE rels == [k \in DOMAIN o.in |-> q[o.in[k]].rel]
    <2>1. rels[1] = l.rel /\ rels[2] = r.rel
      BY <1>3
    <2>2. /\ p.rel = Eval(p, rels, db) /\ p.type = "Join" /\ p.how = o.how
          /\ p.rightWidth = n /\ p.pos = << 1, 1 >>
      BY <1>3 DEF CompleteIs
    <2>3. << 1, 1 >>[1] = 1 /\ << 1, 1 >>[2] = 1
      OBVIOUS
    <2> HIDE DEF rels, l, r, n
    <2>4. p.rel = JoinOn(p.how, rels[1], rels[2], p.rightWidth,
                         On(<< p.pos[1] >>, << p.pos[2] >>, FALSE))
      BY <2>2 DEF Eval
    <2> QED
      BY <2>1, <2>2, <2>3, <2>4
  <1> HIDE DEF a, b, m, n, s, on
  <1>6. /\ s \in Seq(AttrNames) /\ Len(s) = m + n /\ IsInjective(s)
        /\ DOMAIN s = 1 .. m + n /\ ToSet(a) \union ToSet(b) \subseteq ToSet(s)
        /\ \A k \in 1 .. m : s[k] = a[k]
        /\ \A k \in 1 .. n : s[m + k] \notin ToSet(a)
        /\ \A k \in 1 .. n : s[m + k] = b[k] \/ s[m + k] \notin ToSet(b)
    BY <1>1, <1>2, <1>4, JoinNames DEF m, n
  <1>7. s # << >> /\ m + n \in Nat
    BY <1>1, <1>2, <1>6
  <1>8. p.rel \in Relations(m + n)
    <2> HIDE DEF l, r
    <2> QED
      BY <1>1, <1>2, <1>5, JoinFacts
  <1>9. p.notNull \subseteq ToSet(s)
    BY <1>1, <1>2, <1>4, <1>6
  <1>10. PosOk(q, p)
    <2>1. << 1, 1 >> \in (1 .. m) \X (1 .. n)
      BY <1>1, <1>2
    <2> QED
      BY <1>3, <2>1 DEF CompleteIs, PosOk, Width, m, n, a, b
  <1>11. SchemaOk(q, p)
    BY <1>3, <1>6, <1>7 DEF SchemaOk, CompleteIs, Leaves, Width, s, m, n, a, b
  <1>12. DataOk(q, p)
    <2>1. p.in = o.in
      BY DEF CompleteIs
    <2> QED
      BY <1>6, <1>8, <1>9, <1>10, <1>11, <2>1 DEF DataOk, CompleteIs, s
  <1>13. ASSUME NotNullIn(l), NotNullIn(r), NotNullOk(q, o) PROVE NotNullIn(p)
    <2> SUFFICES ASSUME NEW row \in ToSet(p.rel), NEW k \in DOMAIN row, s[k] \in p.notNull
                 PROVE  row[k] # Null
      BY DEF NotNullIn, s
    <2>1. /\ \E x \in ToSet(l.rel) : \A h \in 1 .. m : row[h] = x[h]
          /\ o.how # "LEFT_OUTER" => \E y \in ToSet(r.rel) : \A h \in 1 .. n : row[m + h] = y[h]
          /\ DOMAIN row = 1 .. m + n
      <3> HIDE DEF l, r
      <3> QED
        BY <1>1, <1>2, <1>5, JoinedRow
    <2>2. k \in 1 .. m \/ (k - m \in 1 .. n /\ m + (k - m) = k)
      BY <1>1, <1>2, <2>1, SplitPos
    <2>3. CASE k \in 1 .. m
      <3>1. PICK x \in ToSet(l.rel) : \A h \in 1 .. m : row[h] = x[h]
        BY <2>1
      <3>2. DOMAIN x = 1 .. m
        BY <1>1, RowsOf
      <3>3. a[k] \in p.notNull /\ a[k] \in ToSet(a)
        BY <1>1, <1>6, <2>3 DEF ToSet
      <3>4. a[k] \in l.notNull
        <4>1. CASE o.how = "LEFT_OUTER"
          BY <1>4, <3>3, <4>1
        <4>2. CASE o.how # "LEFT_OUTER"
          <5>1. IsJoin(o, "INNER")
            BY <1>3, <4>2 DEF IsJoin, JoinTypes
          <5>2. \A name \in ToSet(a) \intersect ToSet(b) : name \in l.notNull <=> name \in r.notNull
            BY <1>3, <1>13, <5>1 DEF NotNullOk, a, b
          <5> QED
            BY <1>2, <1>4, <3>3, <4>2, <5>2
        <4> QED
          BY <4>1, <4>2
      <3>5. x[k] # Null
        BY <1>13, <2>3, <3>1, <3>2, <3>4 DEF NotNullIn, a
      <3> QED
        BY <2>3, <3>1, <3>5
    <2>4. CASE k - m \in 1 .. n /\ m + (k - m) = k
      <3> DEFINE h == k - m
      <3>1. h \in 1 .. n /\ s[m + h] \in p.notNull /\ row[m + h] = row[k]
        BY <2>4
      <3> HIDE DEF h
      <3>2. s[m + h] \notin l.notNull
        BY <1>1, <1>6, <3>1
      <3>3. o.how # "LEFT_OUTER" /\ s[m + h] \in r.notNull
        BY <1>4, <3>1, <3>2
      <3>4. s[m + h] = b[h]
        BY <1>2, <1>6, <3>1, <3>3
      <3>5. PICK y \in ToSet(r.rel) : \A g \in 1 .. n : row[m + g] = y[g]
        BY <2>1, <3>3
      <3>6. DOMAIN y = 1 .. n
        BY <1>2, RowsOf
      <3>7. y[h] # Null
        BY <1>13, <3>1, <3>3, <3>4, <3>5, <3>6 DEF NotNullIn, b
      <3> QED
        BY <3>1, <3>5, <3>7
    <2> QED
      BY <2>2, <2>3, <2>4
  <1> QED
    BY <1>3, <1>12, <1>13 DEF NewData

LEMMA NewSetOp ==
    ASSUME NEW q, NEW i, NEW j, NEW o \in BinaryOperators(q, i, j), DataOk(q, q[i]), DataOk(q, q[j]),
           NEW p, CompleteIs(q, o, p), o.type = "Set"
    PROVE  NewData(q, o, p)
  <1> DEFINE l == q[i]
             r == q[j]
             a == l.schema
             b == r.schema
             m == Len(a)
             s == p.schema
             right == renameAttrsInSet(b, a, r.notNull)
  <1>1. /\ a \in Seq(AttrNames) /\ a # << >> /\ IsInjective(a)
        /\ l.rel \in Relations(m) /\ l.notNull \subseteq ToSet(a) /\ m \in Nat /\ m >= 1
        /\ DOMAIN a = 1 .. m
    BY SchemaFacts
  <1>2. /\ o.in = << i, j >> /\ o.in[1] = i /\ o.in[2] = j /\ DOMAIN o.in = {1, 2}
        /\ o.how \in SetOps /\ Len(b) = m
    BY NewBinaryIn DEF Width
  <1>3. r.rel \in Relations(m) /\ DOMAIN b = 1 .. m
    BY <1>2, SchemaFacts
  <1>4. /\ s = a
        /\ o.how = "UNION" => p.notNull = l.notNull \intersect right
        /\ o.how = "INTERSECTION" => p.notNull = l.notNull
        /\ o.how = "DIFFERENCE" => p.notNull = l.notNull \union right
    BY <1>2 DEF CompleteIs, SchemaOf, computeNotNull, NotNullSet
  <1>5. /\ o.how = "UNION" => p.rel = l.rel \o r.rel
        /\ o.how = "INTERSECTION" => p.rel = IntersectAll(l.rel, r.rel)
        /\ o.how = "DIFFERENCE" => p.rel = ExceptAll(l.rel, r.rel)
    <2> DEFINE rels == [k \in DOMAIN o.in |-> q[o.in[k]].rel]
    <2>1. rels[1] = l.rel /\ rels[2] = r.rel
      BY <1>2
    <2>2. p.rel = Eval(p, rels, db) /\ p.type = "Set" /\ p.how = o.how
      BY DEF CompleteIs
    <2> HIDE DEF rels, l, r
    <2> QED
      BY <2>1, <2>2 DEF Eval
  <1>6. right = {a[k] : k \in {h \in 1 .. m : b[h] \in r.notNull}}
    BY <1>3 DEF renameAttrsInSet
  <1> HIDE DEF a, b, m, s, right
  <1>7. /\ p.rel \in Relations(m)
        /\ o.how = "UNION" => ToSet(p.rel) = ToSet(l.rel) \union ToSet(r.rel)
        /\ o.how # "UNION" => ToSet(p.rel) \subseteq ToSet(l.rel)
    <2> HIDE DEF l, r
    <2> DEFINE x == l.rel
               y == r.rel
    <2>1. /\ IntersectAll(x, y) \in Relations(m) /\ ExceptAll(x, y) \in Relations(m)
          /\ ToSet(ExceptAll(x, y)) \subseteq ToSet(x)
          /\ ToSet(IntersectAll(x, y)) \subseteq ToSet(x)
          /\ x \o y \in Relations(m) /\ ToSet(x \o y) = ToSet(x) \union ToSet(y)
      <3>1. x \in Relations(m) /\ y \in Relations(m)
        BY <1>1, <1>3
      <3> HIDE DEF x, y
      <3> QED
        BY <3>1, SetOpFacts
    <2> HIDE DEF x, y
    <2>2. CASE o.how = "UNION"
      BY <1>5, <2>1, <2>2 DEF x, y
    <2>3. CASE o.how = "INTERSECTION"
      BY <1>5, <2>1, <2>3 DEF x, y
    <2>4. CASE o.how = "DIFFERENCE"
      BY <1>5, <2>1, <2>4 DEF x, y
    <2> QED
      BY <1>2, <2>2, <2>3, <2>4 DEF SetOps
  <1>8. right \subseteq ToSet(a)
    BY <1>1, <1>6 DEF ToSet
  <1>9. p.notNull \subseteq ToSet(s)
    BY <1>1, <1>2, <1>4, <1>8 DEF SetOps
  <1>10. PosOk(q, p)
    BY <1>2 DEF CompleteIs, PosOk, Width, m, a, b
  <1>11. SchemaOk(q, p)
    BY <1>1, <1>2, <1>4 DEF SchemaOk, CompleteIs, Leaves, s, a
  <1>12. DataOk(q, p)
    <2>1. p.in = o.in
      BY DEF CompleteIs
    <2> QED
      BY <1>1, <1>4, <1>7, <1>9, <1>10, <1>11, <2>1 DEF DataOk, CompleteIs, s, m
  <1>13. ASSUME NotNullIn(l), NotNullIn(r), NotNullOk(q, o) PROVE NotNullIn(p)
    <2> SUFFICES ASSUME NEW row \in ToSet(p.rel), NEW k \in DOMAIN row, s[k] \in p.notNull
                 PROVE  row[k] # Null
      BY DEF NotNullIn, s
    <2>1. k \in 1 .. m
      BY <1>7, RowsOf
    <2>2. o.how = "DIFFERENCE" => right \subseteq l.notNull
      <3> SUFFICES ASSUME o.how = "DIFFERENCE" PROVE right \subseteq l.notNull
        OBVIOUS
      <3>1. IsSet(o, {"DIFFERENCE"})
        BY DEF IsSet
      <3> QED
        BY <1>2, <1>13, <3>1 DEF NotNullOk, right, a, b
    <2>3. a[k] \in l.notNull
      BY <1>2, <1>4, <2>2 DEF SetOps
    <2>4. ASSUME row \in ToSet(l.rel) PROVE row[k] # Null
      BY <1>13, <2>3, <2>4 DEF NotNullIn, a
    <2>5. ASSUME o.how = "UNION", row \in ToSet(r.rel) PROVE row[k] # Null
      <3>1. a[k] \in right
        BY <1>4, <2>5
      <3>2. PICK h \in 1 .. m : b[h] \in r.notNull /\ a[k] = a[h]
        BY <1>6, <3>1
      <3>3. h = k
        BY <1>1, <2>1, <3>2 DEF IsInjective
      <3> QED
        BY <1>13, <2>5, <3>2, <3>3 DEF NotNullIn, b
    <2> QED
      BY <1>7, <2>4, <2>5
  <1> QED
    BY <1>2, <1>12, <1>13 DEF NewData

LEMMA NewOperatorData ==
    ASSUME NEW q, IsSeq(q), db \in Databases, \A i \in DOMAIN q : DataOk(q, q[i]),
           NEW o \in NewOperators(q), NEW p, CompleteIs(q, o, p)
    PROVE  NewData(q, o, p)
  <1>1. CASE o \in LeafOperators
    <2>1. o.type = "TableAccess" \/ o.type = "ConstRel"
      BY <1>1, NewLeaf
    <2>2. CASE o.type = "TableAccess"
      BY <1>1, <2>2, NewTableAccess
    <2>3. CASE o.type = "ConstRel"
      BY <1>1, <2>3, NewConstRel
    <2> QED
      BY <2>1, <2>2, <2>3
  <1>2. CASE \E i \in DOMAIN q : o \in UnaryOperators(q, i)
    <2>1. PICK i \in DOMAIN q : o \in UnaryOperators(q, i)
      BY <1>2
    <2>2. o.type \in Unary /\ DataOk(q, q[i])
      BY <2>1, NewUnary
    <2>3. CASE o.type \in {"Selection", "DuplicateRemoval", "Order", "Limit"}
      BY <2>1, <2>2, <2>3, NewSameSchema
    <2>4. CASE o.type = "Projection"
      BY <2>1, <2>2, <2>4, NewProjectionOp
    <2>5. CASE o.type = "Aggregation"
      BY <2>1, <2>2, <2>5, NewAggregation
    <2> QED
      BY <2>2, <2>3, <2>4, <2>5 DEF Unary
  <1>3. CASE \E i \in DOMAIN q, j \in DOMAIN q : o \in BinaryOperators(q, i, j)
    <2>1. PICK i \in DOMAIN q, j \in DOMAIN q : o \in BinaryOperators(q, i, j)
      BY <1>3
    <2>2. (o.type = "Join" \/ o.type = "Set") /\ DataOk(q, q[i]) /\ DataOk(q, q[j])
      BY <2>1, NewBinary
    <2>3. CASE o.type = "Join"
      BY <2>1, <2>2, <2>3, NewJoinOp
    <2>4. CASE o.type = "Set"
      BY <2>1, <2>2, <2>4, NewSetOp
    <2> QED
      BY <2>2, <2>3, <2>4
  <1> QED
    BY <1>1, <1>2, <1>3, NewCases

LEMMA OperatorInputs ==
    ASSUME NEW q, QueryOk(q), NEW i \in DOMAIN q
    PROVE  InputsOk(q, q[i])
  <1>1. /\ q[i].type \in OpTypes /\ q[i].in \in Seq(1 .. i - 1)
        /\ Len(q[i].in) = Arity(q[i].type)
    BY DEF QueryOk, OperatorOk
  <1>2. Len(q) \in Nat /\ DOMAIN q = 1 .. Len(q)
    BY SeqDomain DEF QueryOk
  <1>3. 1 .. i - 1 \subseteq DOMAIN q
    BY <1>2
  <1> DEFINE in == q[i].in
             A == 1 .. i - 1
             B == DOMAIN q
  <1>4. in \in Seq(A) /\ A \subseteq B
    BY <1>1, <1>3
  <1> HIDE DEF A, B
  <1>5. in \in Seq(B)
    <2>1. IsSeq(in) /\ \A k \in DOMAIN in : in[k] \in A
      <3> HIDE DEF in
      <3> QED
        BY <1>4, SeqIsSeq
    <2> HIDE DEF in
    <2> QED
      BY <1>4, <2>1, SeqDomain
  <1> QED
    BY <1>1, <1>5 DEF InputsOk, B

NotNullInv == \A i \in DOMAIN query : NotNullIn(query[i])

LEMMA QuerySteps ==
    ASSUME ControlInv, db \in Databases, DataInv, [Next]_vars
    PROVE  /\ db' \in Databases /\ DataInv'
           /\ "not null" \notin Admit /\ NotNullInv => NotNullInv'
  <1>1. CASE addOperator
    <2>1. PICK o \in NewOperators(query) : /\ InScope(query, o)
                                           /\ query' = Append(query, Complete(query, o, db))
      BY <1>1 DEF addOperator
    <2>2. db' = db
      BY <1>1 DEF addOperator
    <2>13. PICK p : p = Complete(query, o, db)
      OBVIOUS
    <2> DEFINE n == Len(query)
               r == query'
    <2>3. IsSeq(query) /\ QueryOk(query)
      BY DEF ControlInv, QueryOk
    <2>4. CompleteIs(query, o, p)
      BY <2>13, CompleteIsRecord
    <2>5. InputsOk(query, o)
      BY <2>3, NewOperatorFields DEF InputsOk
    <2>6. query' = Append(query, p)
      BY <2>1, <2>13
    <2>7. /\ n \in Nat /\ DOMAIN query = 1 .. n /\ DOMAIN r = 1 .. n + 1
          /\ \A i \in 1 .. n : r[i] = query[i]
          /\ r[n + 1] = p
      BY <2>3, <2>6, AppendAny, SeqDomain
    <2>8. NewData(query, o, p)
      BY <2>3, <2>4, NewOperatorData DEF DataInv
    <2>9. InputsOk(query, p)
      BY <2>4, <2>5 DEF CompleteIs, InputsOk
    <2> HIDE DEF n, r
    <2>10. ASSUME NEW i \in DOMAIN r PROVE DataOk(r, r[i])
      <3>1. CASE i \in 1 .. n
        <4>1. InputsOk(query, query[i]) /\ DataOk(query, query[i])
          BY <2>3, <2>7, <3>1, OperatorInputs DEF DataInv
        <4> QED
          BY <2>7, <3>1, <4>1, DataLater
      <3>2. CASE i = n + 1
        <4>1. DataOk(query, p)
          BY <2>8 DEF NewData
        <4> QED
          BY <2>7, <2>9, <3>2, <4>1, DataLater
      <3> QED
        BY <2>7, <3>1, <3>2
    <2>11. DataInv'
      BY <2>2, <2>10, ZenonT(40) DEF DataInv, DataOk, PosOk, SchemaOk, Width, Eval, r
    <2>12. ASSUME "not null" \notin Admit, NotNullInv PROVE NotNullInv'
      <3>1. NotNullOk(query, o)
        BY <2>1, <2>12 DEF InScope
      <3>2. \A k \in DOMAIN o.in : NotNullIn(query[o.in[k]])
        BY <2>5, <2>12, InputsAreThere DEF NotNullInv
      <3>3. NotNullIn(p)
        BY <2>8, <3>1, <3>2 DEF NewData
      <3>4. \A i \in DOMAIN r : NotNullIn(r[i])
        <4>1. \A i \in 1 .. n : NotNullIn(r[i])
          BY <2>7, <2>12 DEF NotNullInv
        <4>2. \A i \in 1 .. n + 1 : i \in 1 .. n \/ i = n + 1
          BY <2>7
        <4> QED
          BY <2>7, <3>3, <4>1, <4>2
      <3> QED
        BY <3>4 DEF NotNullInv, NotNullIn, r
    <2> QED
      BY <2>2, <2>11, <2>12
  <1>2. CASE UNCHANGED << db, query >>
    <2>1. DataInv'
      <3> DEFINE r == query'
      <3>1. r = query /\ db' = db
        BY <1>2
      <3> HIDE DEF r
      <3>2. \A i \in DOMAIN r : DataOk(r, r[i])
        BY <3>1 DEF DataInv
      <3>3. db' = db
        BY <3>1
      <3> QED
        BY <3>2, <3>3, ZenonT(40) DEF DataInv, DataOk, PosOk, SchemaOk, Width, Eval, r
    <2>2. NotNullInv => NotNullInv'
      BY <1>2 DEF NotNullInv, NotNullIn
    <2> QED
      BY <1>2, <2>1, <2>2
  <1>3. ~ addOperator => UNCHANGED << db, query >>
    BY DEF Next, vars, rewritePI_CS, rewriteInput, reuseRewrittenOp, rewriteLeafOp,
           rewriteDuplicateRemOp, rewriteLimitOp, rewriteOp
  <1> QED
    BY <1>1, <1>2, <1>3

\* No row of an operator has a NULL for an attribute that computeNotNullProp
\* inferred never to be NULL, although it goes by attribute names, which an
\* operator's own makeNamesUnique may have given another column: what an
\* output name stands for is known of the input's name, too.
THEOREM NotNullIsSound ==
    ASSUME "not null" \notin Admit
    PROVE  Spec => []NotNullSound
  <1> DEFINE IInv == ControlInv /\ db \in Databases /\ DataInv /\ NotNullInv
  <1>1. Init => IInv
    <2> SUFFICES ASSUME Init PROVE IInv
      OBVIOUS
    <2>1. DOMAIN query = {} /\ db \in Databases
      BY EmptyIsSeq DEF Init
    <2> QED
      BY <2>1, ControlInit DEF DataInv, NotNullInv
  <1>2. IInv /\ [Next]_vars => IInv'
    BY ControlSteps, QuerySteps
  <1>3. IInv => NotNullSound
    BY DEF NotNullInv, NotNullIn, NotNullSound
  <1> QED
    BY <1>1, <1>2, <1>3, PTL DEF Spec
==============================================================================
