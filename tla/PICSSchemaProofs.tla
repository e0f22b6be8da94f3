--------------------------- MODULE PICSSchemaProofs ---------------------------
(***************************************************************************)
(* Proofs about PICSRewrite, for every set of tables, every database and   *)
(* queries of any size: every operator of the rewritten query has a name   *)
(* for each column and the provenance attributes last (SchemaIsConsistent),*)
(* names that differ for the provenance attributes (ProvNamesAreUnique)    *)
(* and, without them, the rows of the operator it stands for               *)
(* (ResultIsPreserved).                                                    *)
(*                                                                         *)
(* First what attaching a node, projecting, grouping and joining do to     *)
(* names and rows; then, for each kind of rewrite rule, the names and rows *)
(* of the node it puts on top; at the end one lemma per kind of step for   *)
(* shape and rows, and once more for the names.                            *)
(* PICSRewriteProofs has the lemmas on the graph that these rest on.       *)
(***************************************************************************)
EXTENDS PICSRewriteProofs


-----------------------------------------------------------------------------
(***************************************************************************)
(* The attributes of a node                                                *)
(***************************************************************************)
LEMMA IntSeqFacts ==
    ASSUME NEW m \in Nat, NEW p \in Nat
    PROVE  /\ IntSeq(m + 1, m + p) \in Seq(m + 1 .. m + p)
           /\ IsSeq(IntSeq(m + 1, m + p))
           /\ Len(IntSeq(m + 1, m + p)) = p /\ DOMAIN IntSeq(m + 1, m + p) = 1 .. p
           /\ \A k \in 1 .. p : IntSeq(m + 1, m + p)[k] = m + k
  <1> DEFINE f == [k \in 1 .. p |-> m + k]
  <1>1. IntSeq(m + 1, m + p) = f
    <2>1. (m + p) - (m + 1) + 1 = p /\ \A k \in 1 .. p : m + 1 + k - 1 = m + k
      OBVIOUS
    <2> QED
      BY <2>1 DEF IntSeq
  <1>2. f \in [1 .. p -> m + 1 .. m + p]
    OBVIOUS
  <1>3. \A k \in 1 .. p : f[k] = m + k
    OBVIOUS
  <1> HIDE DEF f
  <1>4. f \in Seq(m + 1 .. m + p) /\ Len(f) = p /\ DOMAIN f = 1 .. p
    BY <1>2, SeqOfFn
  <1>5. IsSeq(f)
    BY <1>4, SeqIsSeq
  <1> QED
    BY <1>1, <1>3, <1>4, <1>5

LEMMA FirstInts ==
    ASSUME NEW n \in Nat
    PROVE  /\ IntSeq(1, n) \in Seq(1 .. n) /\ Len(IntSeq(1, n)) = n
           /\ IsSeq(IntSeq(1, n)) /\ DOMAIN IntSeq(1, n) = 1 .. n
           /\ \A k \in 1 .. n : IntSeq(1, n)[k] = k
  <1>1. 0 + 1 = 1 /\ 0 + n = n
    OBVIOUS
  <1> QED
    BY <1>1, IntSeqFacts

\* Sequences with the same length and the same elements.
LEMMA SameSeq ==
    ASSUME NEW s, NEW t, IsSeq(s), IsSeq(t), Len(s) = Len(t),
           \A k \in 1 .. Len(s) : s[k] = t[k]
    PROVE  s = t
  <1>1. DOMAIN s = 1 .. Len(s) /\ DOMAIN t = 1 .. Len(s)
    BY SeqDomain
  <1>2. s = [k \in 1 .. Len(s) |-> s[k]] /\ t = [k \in 1 .. Len(s) |-> t[k]]
    BY <1>1 DEF IsSeq
  <1> QED
    BY <1>2

LEMMA IntsJoined ==
    ASSUME NEW l \in Nat, NEW m \in Nat, NEW p \in Nat
    PROVE  IntSeq(l + 1, l + m) \o IntSeq(l + m + 1, l + m + p) = IntSeq(l + 1, l + m + p)
  <1> DEFINE a == IntSeq(l + 1, l + m)
             b == IntSeq(l + m + 1, l + m + p)
             c == IntSeq(l + 1, l + m + p)
  <1>1. IsSeq(a) /\ Len(a) = m /\ \A k \in 1 .. m : a[k] = l + k
    BY IntSeqFacts
  <1>2. l + m \in Nat /\ m + p \in Nat /\ l + (m + p) = l + m + p
    OBVIOUS
  <1>3. IsSeq(b) /\ Len(b) = p /\ \A k \in 1 .. p : b[k] = l + m + k
    BY <1>2, IntSeqFacts
  <1>4. IsSeq(c) /\ Len(c) = m + p /\ \A k \in 1 .. m + p : c[k] = l + k
    <2> DEFINE x == m + p
    <2>1. x \in Nat /\ c = IntSeq(l + 1, l + x)
      BY <1>2
    <2> HIDE DEF x, c
    <2>2. IsSeq(c) /\ Len(c) = x /\ \A k \in 1 .. x : c[k] = l + k
      BY <2>1, IntSeqFacts
    <2> QED
      BY <2>2 DEF x
  <1> HIDE DEF a, b, c
  <1>5. /\ IsSeq(a \o b) /\ Len(a \o b) = m + p
        /\ \A k \in 1 .. m : (a \o b)[k] = a[k]
        /\ \A k \in 1 .. p : (a \o b)[m + k] = b[k]
    BY <1>1, <1>3, ConcatSeq
  <1>6. \A k \in 1 .. m + p : (a \o b)[k] = c[k]
    <2> SUFFICES ASSUME NEW k \in 1 .. m + p PROVE (a \o b)[k] = c[k]
      OBVIOUS
    <2>1. CASE k \in 1 .. m
      BY <1>1, <1>4, <1>5, <2>1
    <2>2. CASE k - m \in 1 .. p /\ m + (k - m) = k
      <3>1. (a \o b)[k] = b[k - m] /\ b[k - m] = l + m + (k - m)
        BY <1>3, <1>5, <2>2
      <3>2. l + m + (k - m) = l + k
        OBVIOUS
      <3> QED
        BY <1>4, <3>1, <3>2
    <2> QED
      BY <2>1, <2>2, SplitPos
  <1>7. a \o b = c
    BY <1>4, <1>5, <1>6, SameSeq
  <1> QED
    BY <1>7 DEF a, b, c

LEMMA EmptyConcat ==
    ASSUME NEW s, IsSeq(s)
    PROVE  << >> \o s = s /\ s \o << >> = s
  <1>1. IsSeq(<< >>) /\ Len(<< >>) = 0
    BY EmptyIsSeq
  <1>2. Len(s) \in Nat
    BY SeqDomain
  <1>3. /\ IsSeq(<< >> \o s) /\ Len(<< >> \o s) = 0 + Len(s)
        /\ \A k \in 1 .. Len(s) : (<< >> \o s)[0 + k] = s[k]
    BY <1>1, ConcatSeq
  <1>4. /\ IsSeq(s \o << >>) /\ Len(s \o << >>) = Len(s) + 0
        /\ \A k \in 1 .. Len(s) : (s \o << >>)[k] = s[k]
    BY <1>1, ConcatSeq
  <1>5. \A k \in 1 .. Len(s) : 0 + k = k
    OBVIOUS
  <1> QED
    BY <1>2, <1>3, <1>4, <1>5, SameSeq

\* Of the first n numbers some are kept: in their order.
LEMMA KeepIncreasing ==
    ASSUME NEW n \in Nat, NEW s \in Seq(1 .. n), NEW P,
           \A j, k \in DOMAIN s : j < k => s[j] < s[k],
           \A i \in 1 .. n : i \in P <=> i \in ToSet(s)
    PROVE  Keep(IntSeq(1, n), P) = s
  <1> DEFINE rel == IntSeq(1, n)
             l == Len(s)
             Begin(c) == [k \in 1 .. c |-> s[k]]
             Upto(c, i) == /\ \A k \in 1 .. c : s[k] <= i
                           /\ \A k \in c + 1 .. l : s[k] > i
  <1>1. rel \in Seq(1 .. n) /\ Len(rel) = n /\ \A k \in 1 .. n : rel[k] = k
    BY FirstInts
  <1>2. l \in Nat /\ DOMAIN s = 1 .. l /\ \A k \in 1 .. l : s[k] \in 1 .. n
    <2>1. s \in Seq(1 .. n)
      OBVIOUS
    <2> QED
      BY <2>1, SeqIsSeq
  <1>11. /\ \A j, k \in 1 .. l : j < k => s[j] < s[k]
         /\ \A i \in 1 .. n : i \in P <=> \E k \in 1 .. l : s[k] = i
    <2>1. DOMAIN s = 1 .. l
      BY <1>2
    <2>2. ToSet(s) = {s[k] : k \in 1 .. l}
      BY <2>1 DEF ToSet
    <2> HIDE DEF l
    <2> QED
      BY <2>1, <2>2
  <1> HIDE DEF rel, l
  <1>3. PICK f : Kept(f, rel, P, 1 .. n)
    BY <1>1, KeptFunction
  <1>4. /\ f[0] = << >>
        /\ \A i \in 1 .. n : f[i] = IF i \in P THEN Append(f[i - 1], i) ELSE f[i - 1]
        /\ Keep(rel, P) = f[n]
    BY <1>1, <1>3 DEF Kept
  <1> DEFINE T == {i \in 0 .. n : \E c \in 0 .. l : f[i] = Begin(c) /\ Upto(c, i)}
  <1>5. 0 \in T
    <2>1. Begin(0) = << >>
      OBVIOUS
    <2>2. Upto(0, 0)
      BY <1>2
    <2> HIDE DEF Begin, Upto
    <2>3. 0 \in 0 .. l /\ 0 \in 0 .. n
      BY <1>2
    <2> QED
      BY <1>4, <2>1, <2>2, <2>3
  <1>6. ASSUME NEW i \in 1 .. n, i - 1 \in T PROVE i \in T
    <2>1. PICK c \in 0 .. l : f[i - 1] = Begin(c) /\ Upto(c, i - 1)
      BY <1>6
    <2>2. CASE i \in P
      <3>1. PICK k \in 1 .. l : s[k] = i
        BY <1>11, <2>2
      <3>2. k >= c + 1
        BY <1>2, <2>1, <3>1
      <3>3. c + 1 \in 1 .. l
        BY <1>2, <3>1, <3>2
      <3>4. s[c + 1] <= i
        <4>1. CASE k = c + 1
          BY <1>2, <3>1, <4>1
        <4>2. CASE c + 1 < k
          BY <1>2, <1>11, <3>1, <3>3, <4>2
        <4> QED
          BY <3>2, <4>1, <4>2
      <3>5. s[c + 1] = i
        BY <1>2, <2>1, <3>3, <3>4
      <3>6. Append(Begin(c), s[c + 1]) = Begin(c + 1)
        <4>1. Begin(c) \in [1 .. c -> 1 .. n] /\ c \in Nat
          BY <1>2
        <4>2. Begin(c) \in Seq(1 .. n) /\ Len(Begin(c)) = c
          <5> DEFINE b == Begin(c)
          <5>1. b \in [1 .. c -> 1 .. n] /\ c \in Nat
            BY <4>1
          <5> HIDE DEF b
          <5>2. b \in Seq(1 .. n) /\ Len(b) = c
            BY <5>1, SeqOfFn
          <5> QED
            BY <5>2 DEF b
        <4> QED
          BY <3>3, <4>2
      <3>7. Upto(c + 1, i)
        <4>1. \A j \in 1 .. c + 1 : s[j] <= i
          BY <1>2, <2>1, <3>3, <3>5
        <4>2. \A j \in c + 1 + 1 .. l : s[j] > i
          BY <1>2, <1>11, <3>3, <3>5
        <4> QED
          BY <4>1, <4>2
      <3>8. f[i] = Begin(c + 1)
        BY <1>4, <2>1, <2>2, <3>5, <3>6
      <3> HIDE DEF Begin, Upto
      <3>9. c + 1 \in 0 .. l /\ i \in 0 .. n
        BY <3>3
      <3> QED
        BY <3>7, <3>8, <3>9
    <2>3. CASE i \notin P
      <3>1. \A k \in 1 .. l : s[k] # i
        BY <1>11, <2>3
      <3>2. Upto(c, i)
        BY <1>2, <2>1, <3>1
      <3>3. f[i] = Begin(c)
        BY <1>4, <2>1, <2>3
      <3> HIDE DEF Begin, Upto
      <3> QED
        BY <2>1, <3>2, <3>3
    <2> QED
      BY <2>2, <2>3
  <1> HIDE DEF T
  <1>7. n \in T
    <2>1. \A i \in 0 .. n : i \in T
      BY <1>5, <1>6, Inductive
    <2> QED
      BY <2>1
  <1>8. PICK c \in 0 .. l : f[n] = Begin(c) /\ Upto(c, n)
    BY <1>7 DEF T
  <1>9. c = l
    <2> SUFFICES ASSUME c # l PROVE FALSE
      OBVIOUS
    <2>1. c + 1 \in 1 .. l /\ c + 1 \in c + 1 .. l
      BY <1>2
    <2>2. s[c + 1] > n /\ s[c + 1] \in 1 .. n
      BY <1>2, <1>8, <2>1
    <2> QED
      BY <2>2
  <1>10. f[n] = s
    <2>1. s = [k \in 1 .. l |-> s[k]]
      BY <1>2
    <2> QED
      BY <1>8, <1>9, <2>1
  <1> QED
    BY <1>4, <1>10 DEF rel

LEMMA NatIsInt == \A n \in Nat : n \in Int
  OBVIOUS

LEMMA NameSets ==
    /\ Suffixable(NodeNames)
    /\ AttrNames \subseteq NodeNames /\ ProvAttrNames \subseteq NodeNames
    /\ \A a \in AttrNames : a \notin ProvAttrNames
    /\ \A a \in AttrNames : a[1] = ""
    /\ \A a \in ProvAttrNames : a[1] \in ProvPrefixes
    /\ "" \notin ProvPrefixes
  <1>1. "" \notin ProvPrefixes
    <2>1. "" \notin Tables
      BY TablesAssumption
    <2>2. "query" # ""
      OBVIOUS
    <2> QED
      BY <2>1, <2>2 DEF ProvPrefixes
  <1>2. AttrNames \subseteq NodeNames /\ ProvAttrNames \subseteq NodeNames
    <2>1. ASSUME NEW a \in AttrNames PROVE a \in NodeNames
      <3> DEFINE E == {""}
      <3>1. a \in E \X Nat \X Seq(Words) \X Seq(Nat)
        BY DEF AttrNames
      <3> HIDE DEF E
      <3>2. PICK p \in E, c \in Nat, s \in Seq(Words), t \in Seq(Nat) : a = << p, c, s, t >>
        BY <3>1
      <3>3. c \in Int
        BY NatIsInt
      <3>4. p \in {"", "_P_SIDE_", "__"}
        BY DEF E
      <3> QED
        BY <3>2, <3>3, <3>4 DEF NodeNames
    <2>2. ASSUME NEW a \in ProvAttrNames PROVE a \in NodeNames
      <3>1. PICK p \in ProvPrefixes, c \in Int, s \in Seq(Words), t \in Seq(Nat) :
              a = << p, c, s, t >>
        BY DEF ProvAttrNames
      <3> QED
        BY <3>1 DEF NodeNames
    <2> QED
      BY <2>1, <2>2
  <1>3. (\A a \in AttrNames : a[1] = "") /\ \A a \in ProvAttrNames : a[1] \in ProvPrefixes
    BY DEF AttrNames, ProvAttrNames
  <1>4. Suffixable(NodeNames)
    <2> SUFFICES ASSUME NEW a \in NodeNames, NEW i \in Nat
                 PROVE  a[4] \in Seq(Nat) /\ Suffixed(a, i) \in NodeNames
      BY DEF Suffixable
    <2>1. /\ a[1] \in {"", "_P_SIDE_", "__"} \union ProvPrefixes /\ a[2] \in Int
          /\ a[3] \in Seq(Words) /\ a[4] \in Seq(Nat)
      BY DEF NodeNames
    <2> DEFINE s == a[4]
    <2>2. s \in Seq(Nat)
      BY <2>1
    <2> HIDE DEF s
    <2>3. Append(s, i) \in Seq(Nat)
      BY <2>2
    <2> QED
      BY <2>1, <2>2, <2>3 DEF Suffixed, NodeNames, s
  <1> QED
    BY <1>1, <1>2, <1>3, <1>4

LEMMA PartsFacts ==
    ASSUME NEW n, NEW a, NEW b, Parts(n, a, b)
    PROVE  /\ Len(a) \in Nat /\ Len(b) \in Nat /\ IsSeq(a) /\ IsSeq(b)
           /\ IsSeq(n.schema) /\ Len(n.schema) = Len(a) + Len(b)
           /\ DOMAIN n.schema = 1 .. Len(a) + Len(b)
           /\ \A k \in 1 .. Len(a) : n.schema[k] = a[k]
           /\ \A k \in 1 .. Len(b) : n.schema[Len(a) + k] = b[k]
           /\ n.provAttrs = IntSeq(Len(a) + 1, Len(a) + Len(b)) /\ Len(n.provAttrs) = Len(b)
           /\ IsSeq(n.provAttrs) /\ DOMAIN n.provAttrs = 1 .. Len(b)
           /\ \A k \in 1 .. Len(b) : n.provAttrs[k] = Len(a) + k
           /\ n.width = Len(a) + Len(b) /\ n.rel \in Relations(Len(a) + Len(b))
           /\ NormalPos(n) = IntSeq(1, Len(a)) /\ NormalNames(n) = a /\ ProvNames(n) = b
           /\ ProvAttrsLast(n)
  <1> DEFINE m == Len(a)
             p == Len(b)
             s == n.schema
             v == n.provAttrs
  <1>1. m \in Nat /\ p \in Nat /\ IsSeq(a) /\ IsSeq(b) /\ DOMAIN a = 1 .. m /\ DOMAIN b = 1 .. p
    <2>1. a \in Seq(NodeNames) /\ b \in Seq(NodeNames)
      BY DEF Parts
    <2> QED
      BY <2>1, SeqIsSeq
  <1>2. /\ s = a \o b /\ v = IntSeq(m + 1, m + p) /\ n.width = m + p /\ n.rel \in Relations(m + p)
    BY DEF Parts
  <1> HIDE DEF m, p, s, v
  <1>3. /\ IsSeq(s) /\ Len(s) = m + p /\ DOMAIN s = 1 .. m + p
        /\ \A k \in 1 .. m : s[k] = a[k]
        /\ \A k \in 1 .. p : s[m + k] = b[k]
    BY <1>1, <1>2, ConcatSeq DEF m, p
  <1>4. IsSeq(v) /\ Len(v) = p /\ DOMAIN v = 1 .. p /\ \A k \in 1 .. p : v[k] = m + k
    BY <1>1, <1>2, IntSeqFacts
  <1>5. NormalPos(n) = IntSeq(1, m)
    <2> DEFINE t == IntSeq(1, m)
               l == m + p
               P == {k \in 1 .. l : ~ Contains(v, k)}
    <2>1. t \in Seq(1 .. m) /\ Len(t) = m /\ DOMAIN t = 1 .. m /\ \A k \in 1 .. m : t[k] = k
      BY <1>1, FirstInts
    <2>2. l \in Nat /\ \A k \in 1 .. m : k \in 1 .. l
      BY <1>1
    <2>3. NormalPos(n) = Keep(IntSeq(1, l), P)
      BY <1>3 DEF NormalPos, s, v
    <2>4. \A k \in 1 .. l : Contains(v, k) <=> k > m
      <3> SUFFICES ASSUME NEW k \in 1 .. l PROVE Contains(v, k) <=> k > m
        OBVIOUS
      <3>1. Contains(v, k) <=> \E j \in 1 .. p : v[j] = k
        BY <1>4, ContainsDef
      <3>2. ASSUME k > m PROVE \E j \in 1 .. p : v[j] = k
        <4>1. k - m \in 1 .. p /\ m + (k - m) = k
          BY <1>1, <3>2
        <4> QED
          BY <1>4, <4>1
      <3>3. ASSUME NEW j \in 1 .. p, v[j] = k PROVE k > m
        BY <1>1, <1>4, <3>3
      <3> QED
        BY <3>1, <3>2, <3>3
    <2>5. ToSet(t) = 1 .. m
      BY <2>1 DEF ToSet
    <2> HIDE DEF t
    <2>6. \A k \in 1 .. l : k \in P <=> k \in ToSet(t)
      BY <1>1, <2>4, <2>5
    <2>7. \A j, k \in DOMAIN t : j < k => t[j] < t[k]
      BY <2>1
    <2>8. t \in Seq(1 .. l)
      <3>1. IsSeq(t)
        BY <2>1, SeqIsSeq
      <3>2. \A k \in DOMAIN t : t[k] \in 1 .. l
        BY <2>1, <2>2
      <3> HIDE DEF l
      <3> QED
        BY <3>1, <3>2, SeqDomain
    <2> HIDE DEF l, P
    <2>9. Keep(IntSeq(1, l), P) = t
      BY <2>2, <2>6, <2>7, <2>8, KeepIncreasing
    <2> QED
      BY <2>3, <2>9 DEF t
  <1>6. NormalNames(n) = a
    <2>1. IntSeq(1, m) = [k \in 1 .. m |-> k]
      BY <1>1 DEF IntSeq
    <2>2. NormalNames(n) = [k \in 1 .. m |-> s[k]]
      BY <1>5, <2>1 DEF NormalNames, s
    <2>3. [k \in 1 .. m |-> s[k]] = [k \in 1 .. m |-> a[k]]
      BY <1>3
    <2>4. a = [k \in 1 .. m |-> a[k]]
      BY <1>1 DEF IsSeq
    <2> QED
      BY <2>2, <2>3, <2>4
  <1>7. ProvNames(n) = b
    <2>1. ProvNames(n) = [k \in 1 .. p |-> s[v[k]]]
      BY <1>4 DEF ProvNames, s, v
    <2>2. [k \in 1 .. p |-> s[v[k]]] = [k \in 1 .. p |-> b[k]]
      BY <1>3, <1>4
    <2>3. b = [k \in 1 .. p |-> b[k]]
      BY <1>1 DEF IsSeq
    <2> QED
      BY <2>1, <2>2, <2>3
  <1>8. ProvAttrsLast(n)
    <2>1. Len(s) - Len(v) + 1 = m + 1
      BY <1>1, <1>3, <1>4
    <2> QED
      BY <1>2, <1>3, <2>1 DEF ProvAttrsLast, s, v
  <1> QED
    BY <1>1, <1>2, <1>3, <1>4, <1>5, <1>6, <1>7, <1>8 DEF m, p, s, v

LEMMA NamesOfParts ==
    ASSUME NEW n, NEW a, NEW b, Parts(n, a, b)
    PROVE  /\ NormalNames(n) = a /\ ProvNames(n) = b /\ Len(n.provAttrs) = Len(b)
           /\ a \in Seq(NodeNames) /\ b \in Seq(NodeNames)
  <1>1. NormalNames(n) = a /\ ProvNames(n) = b /\ Len(n.provAttrs) = Len(b)
    BY PartsFacts
  <1>2. a \in Seq(NodeNames) /\ b \in Seq(NodeNames)
    BY DEF Parts
  <1> QED
    BY <1>1, <1>2

\* Attributes that begin with those of an operator.
Fits(a, o) ==
    /\ a \in Seq(AttrNames) /\ Len(o.schema) <= Len(a)
    /\ \A k \in DOMAIN o.schema : a[k] = o.schema[k]
    /\ IsSet(query[o.core], {"INTERSECTION"}) \/ Len(o.schema) = Len(a)

LEMMA ShapedFrom ==
    ASSUME NEW n, NEW o, NEW a, NEW b, Parts(n, a, b), Fits(a, o), b \in Seq(ProvAttrNames)
    PROVE  Shaped(n, o)
  <1>1. NormalNames(n) = a /\ ProvNames(n) = b
    BY PartsFacts
  <1> QED
    BY <1>1 DEF Shaped, Fits

\* What the rules change in a node.
Renewed(m, n, schema, provAttrs) ==
    /\ DOMAIN m = NodeFields /\ m.schema = schema /\ m.provAttrs = provAttrs
    /\ m.type = n.type /\ m.inputs = n.inputs /\ m.width = n.width /\ m.rel = n.rel

LEMMA NodeChanges ==
    ASSUME NEW n, DOMAIN n = NodeFields, NEW x, NEW y, NEW m
    PROVE  /\ m = [n EXCEPT !.schema = x] => Renewed(m, n, x, n.provAttrs)
           /\ m = [n EXCEPT !.provAttrs = y] => Renewed(m, n, n.schema, y)
           /\ m = [n EXCEPT !.schema = x, !.provAttrs = y] => Renewed(m, n, x, y)
  BY DEF NodeFields, Renewed

\* The nodes that Node and addProvenanceAttrsToSchema make.
LEMMA NodeRecord ==
    ASSUME NEW type, NEW inputs, NEW schema, NEW width, NEW rel
    PROVE  LET n == Node(type, inputs, schema, width, rel)
           IN  /\ DOMAIN n = NodeFields /\ n.type = type /\ n.inputs = inputs
               /\ n.schema = schema /\ n.width = width /\ n.rel = rel /\ n.provAttrs = << >>
  BY DEF Node, NodeFields

LEMMA AddedProv ==
    ASSUME NEW n, DOMAIN n = NodeFields, NEW c, NEW b, ProvNames(c) = b,
           Len(c.provAttrs) = Len(b), NEW m, m = addProvenanceAttrsToSchema(n, c)
    PROVE  Renewed(m, n, n.schema \o b,
                   n.provAttrs \o IntSeq(Len(n.schema) + 1, Len(n.schema) + Len(b)))
  <1> DEFINE x == n.schema \o b
             y == n.provAttrs \o IntSeq(Len(n.schema) + 1, Len(n.schema) + Len(b))
  <1>2. m = [n EXCEPT !.schema = x, !.provAttrs = y]
    BY DEF addProvenanceAttrsToSchema
  <1> HIDE DEF x, y
  <1>3. Renewed(m, n, x, y)
    BY <1>2, NodeChanges
  <1> QED
    BY <1>3 DEF x, y

LEMMA AddedNormal ==
    ASSUME NEW n, DOMAIN n = NodeFields, NEW c, NEW a, NormalNames(c) = a,
           NEW m, m = addNormalAttrsToSchema(n, c)
    PROVE  Renewed(m, n, n.schema \o a, n.provAttrs)
  <1> DEFINE x == n.schema \o a
  <1>2. m = [n EXCEPT !.schema = x]
    BY DEF addNormalAttrsToSchema
  <1> HIDE DEF x
  <1>3. Renewed(m, n, x, n.provAttrs)
    BY <1>2, NodeChanges
  <1> QED
    BY <1>3 DEF x

\* Rows that agree in their first w values.
Agree(w, x, y) == \A k \in 1 .. w : x[k] = y[k]
\* A row of rel that agrees with y.
HasRow(rel, w, y) == \E x \in ToSet(rel) : Agree(w, x, y)
\* In their first w columns rel and orel have the same rows.
Matched(rel, orel, w) ==
    /\ \A x \in ToSet(rel) : HasRow(orel, w, x)
    /\ \A y \in ToSet(orel) : HasRow(rel, w, y)

LEMMA CutMatched ==
    ASSUME NEW w, NEW rel, NEW orel \in Relations(w)
    PROVE  Cut(rel, w) = ToSet(orel) <=> Matched(rel, orel, w)
  <1> DEFINE C(x) == [k \in 1 .. w |-> x[k]]
  <1>1. \A y \in ToSet(orel) : y = C(y)
    <2> SUFFICES ASSUME NEW y \in ToSet(orel) PROVE y = C(y)
      OBVIOUS
    <2>1. y \in [1 .. w -> Values]
      BY RowsOf
    <2> QED
      BY <2>1
  <1>2. \A x, y : C(x) = C(y) <=> Agree(w, x, y)
    <2> SUFFICES ASSUME NEW x, NEW y PROVE C(x) = C(y) <=> Agree(w, x, y)
      OBVIOUS
    <2>1. ASSUME C(x) = C(y) PROVE Agree(w, x, y)
      <3> SUFFICES ASSUME NEW k \in 1 .. w PROVE x[k] = y[k]
        BY DEF Agree
      <3>1. C(x)[k] = x[k] /\ C(y)[k] = y[k]
        OBVIOUS
      <3> QED
        BY <2>1, <3>1
    <2>2. ASSUME Agree(w, x, y) PROVE C(x) = C(y)
      BY <2>2 DEF Agree
    <2> QED
      BY <2>1, <2>2
  <1>3. Cut(rel, w) = {C(x) : x \in ToSet(rel)}
    BY DEF Cut
  <1> HIDE DEF C
  <1>4. \A x, y : Agree(w, x, y) => Agree(w, y, x)
    BY DEF Agree
  <1>5. ASSUME {C(x) : x \in ToSet(rel)} = ToSet(orel) PROVE Matched(rel, orel, w)
    <2>1. \A x \in ToSet(rel) : HasRow(orel, w, x)
      <3> SUFFICES ASSUME NEW x \in ToSet(rel) PROVE HasRow(orel, w, x)
        OBVIOUS
      <3>1. C(x) \in ToSet(orel)
        BY <1>5
      <3>2. C(C(x)) = C(x)
        BY <1>1, <3>1
      <3> QED
        BY <1>2, <3>1, <3>2 DEF HasRow
    <2>2. \A y \in ToSet(orel) : HasRow(rel, w, y)
      <3> SUFFICES ASSUME NEW y \in ToSet(orel) PROVE HasRow(rel, w, y)
        OBVIOUS
      <3>1. PICK x \in ToSet(rel) : y = C(x)
        BY <1>5
      <3>2. C(x) = C(y)
        BY <1>1, <3>1
      <3> QED
        BY <1>2, <3>2 DEF HasRow
    <2> QED
      BY <2>1, <2>2 DEF Matched
  <1>6. ASSUME Matched(rel, orel, w) PROVE {C(x) : x \in ToSet(rel)} = ToSet(orel)
    <2>1. ASSUME NEW x \in ToSet(rel) PROVE C(x) \in ToSet(orel)
      <3>1. PICK y \in ToSet(orel) : Agree(w, y, x)
        BY <1>6 DEF Matched, HasRow
      <3> QED
        BY <1>1, <1>2, <3>1
    <2>2. ASSUME NEW y \in ToSet(orel) PROVE \E x \in ToSet(rel) : C(x) = y
      <3>1. PICK x \in ToSet(rel) : Agree(w, x, y)
        BY <1>6 DEF Matched, HasRow
      <3> QED
        BY <1>1, <1>2, <3>1
    <2> QED
      BY <2>1, <2>2
  <1> QED
    BY <1>3, <1>5, <1>6

\* A graph with one node more.
Grown(g, h, n) ==
    /\ GraphOk(h) /\ Len(h) = Len(g) + 1 /\ h[Len(h)] = n /\ Len(h) \in DOMAIN h
    /\ DOMAIN g \subseteq DOMAIN h /\ Len(h) \notin DOMAIN g
    /\ \A k \in DOMAIN g : SameButParents(h[k], g[k])
    /\ NodesOk(g) /\ NodeOk(g, n) => NodesOk(h)

LEMMA NodeKept ==
    ASSUME NEW m, NEW n, SameButParents(m, n)
    PROVE  /\ \A a, b : Parts(n, a, b) <=> Parts(m, a, b)
           /\ NormalNames(m) = NormalNames(n) /\ ProvNames(m) = ProvNames(n)
           /\ NormalPos(m) = NormalPos(n)
           /\ \A o : Shaped(n, o) <=> Shaped(m, o)
           /\ \A o : SameRows(n, o) <=> SameRows(m, o)
           /\ InfoOk(n) <=> InfoOk(m)
  <1>1. /\ m.schema = n.schema /\ m.provAttrs = n.provAttrs /\ m.info = n.info
        /\ m.width = n.width /\ m.rel = n.rel
    BY SameFields
  <1>2. \A a, b : Parts(n, a, b) <=> Parts(m, a, b)
    BY <1>1 DEF Parts
  <1>3. NormalPos(m) = NormalPos(n)
    BY <1>1 DEF NormalPos
  <1>4. NormalNames(m) = NormalNames(n) /\ ProvNames(m) = ProvNames(n)
    BY <1>1, <1>3 DEF NormalNames, ProvNames
  <1>5. \A o : Shaped(n, o) <=> Shaped(m, o)
    BY <1>2, <1>4 DEF Shaped
  <1>6. \A o : SameRows(n, o) <=> SameRows(m, o)
    BY <1>1 DEF SameRows
  <1>7. InfoOk(n) <=> InfoOk(m)
    BY <1>1 DEF InfoOk
  <1> QED
    BY <1>2, <1>3, <1>4, <1>5, <1>6, <1>7

LEMMA NodeOkKept ==
    ASSUME NEW g, NEW h, NEW m, NEW n, NodeOk(g, n), SameButParents(m, n),
           DOMAIN g \subseteq DOMAIN h, \A k \in DOMAIN g : SameButParents(h[k], g[k])
    PROVE  NodeOk(h, m)
  <1>1. /\ m.schema = n.schema /\ m.width = n.width /\ m.type = n.type /\ m.inputs = n.inputs
    BY SameFields
  <1>2. \A k \in DOMAIN g : h[k].schema = g[k].schema /\ h[k].width = g[k].width
    BY SameFields
  <1> QED
    BY <1>1, <1>2 DEF NodeOk

LEMMA Grows ==
    ASSUME NEW g, GraphOk(g), NEW n, IsNewNode(g, n), NEW h,
           \/ h = Attach(g, n)
           \/ h = AttachAlone(g, n)
    PROVE  Grown(g, h, n)
  <1>1. /\ GraphOk(h) /\ Len(h) = Len(g) + 1 /\ DOMAIN h = 1 .. Len(g) + 1
        /\ DOMAIN g = 1 .. Len(g) /\ Len(g) \in Nat
        /\ h[Len(g) + 1] = n
        /\ \A k \in DOMAIN g : SameButParents(h[k], g[k])
    BY AttachedFields
  <1>2. DOMAIN g \subseteq DOMAIN h /\ Len(h) \in DOMAIN h /\ Len(h) \notin DOMAIN g
    BY <1>1
  <1>3. SameButParents(n, n)
    BY DEF SameButParents
  <1>4. ASSUME NodesOk(g), NodeOk(g, n) PROVE NodesOk(h)
    <2>1. NodeOk(h, n)
      BY <1>1, <1>2, <1>3, <1>4, NodeOkKept
    <2>2. ASSUME NEW k \in DOMAIN g PROVE NodeOk(h, h[k])
      <3>1. NodeOk(g, g[k])
        BY <1>4 DEF NodesOk
      <3> QED
        BY <1>1, <1>2, <3>1, NodeOkKept
    <2>3. \A k \in DOMAIN h : k \in DOMAIN g \/ k = Len(g) + 1
      BY <1>1
    <2> QED
      BY <1>1, <2>1, <2>2, <2>3 DEF NodesOk
  <1> QED
    BY <1>1, <1>2, <1>4 DEF Grown

LEMMA InfoKept ==
    ASSUME NEW g, GraphOk(g), NodesOk(g), Len(g) \in DOMAIN g, NEW info, IsSeq(info)
    PROVE  LET h == WithInfo(g, info)
           IN  /\ NodesOk(h) /\ Len(h) = Len(g) /\ h[Len(h)].info = info
               /\ \A a, b : Parts(g[Len(g)], a, b) => Parts(h[Len(h)], a, b)
               /\ h[Len(h)].rel = g[Len(g)].rel
  <1> DEFINE h == WithInfo(g, info)
             m == h[Len(g)]
             n == g[Len(g)]
  <1>1. IsNode(n) /\ DOMAIN g = 1 .. Len(g) /\ IsSeq(g)
    BY GraphDomain DEF GraphOk
  <1>2. /\ h = [g EXCEPT ![Len(g)].info = info]
    BY DEF WithInfo
  <1>3. /\ DOMAIN h = DOMAIN g /\ Len(h) = Len(g)
        /\ \A k \in DOMAIN g : k # Len(g) => h[k] = g[k]
        /\ m = [n EXCEPT !.info = info]
    BY <1>1, <1>2 DEF IsSeq
  <1>4. /\ m.type = n.type /\ m.inputs = n.inputs /\ m.schema = n.schema
        /\ m.provAttrs = n.provAttrs /\ m.width = n.width /\ m.rel = n.rel /\ m.info = info
    BY <1>1, <1>3 DEF IsNode, NodeFields
  <1> HIDE DEF h, m, n
  <1>5. \A k \in DOMAIN g : /\ h[k].type = g[k].type /\ h[k].inputs = g[k].inputs
                            /\ h[k].schema = g[k].schema /\ h[k].width = g[k].width
    BY <1>3, <1>4 DEF m, n
  <1>6. NodesOk(h)
    <2> SUFFICES ASSUME NEW k \in DOMAIN g PROVE NodeOk(h, h[k])
      BY <1>3 DEF NodesOk
    <2>1. NodeOk(g, g[k])
      BY DEF NodesOk
    <2> QED
      BY <1>3, <1>5, <2>1 DEF NodeOk
  <1>7. \A a, b : Parts(n, a, b) => Parts(m, a, b)
    BY <1>4 DEF Parts
  <1> QED
    BY <1>3, <1>4, <1>6, <1>7 DEF h, m, n

(***************************************************************************)
(* Projections                                                             *)
(***************************************************************************)
LEMMA ProjectionNode ==
    ASSUME NEW g, NEW c, NEW exprs, NEW names, NEW n, n = Projection(g, c, exprs, names)
    PROVE  /\ DOMAIN n = NodeFields /\ n.type = "Projection" /\ n.inputs = << c >>
           /\ n.schema = names /\ n.width = Len(exprs) /\ n.rel = Project(g[c].rel, exprs)
           /\ n.provAttrs = << >>
  <1> DEFINE rel == Project(g[c].rel, exprs)
             w == Len(exprs)
             in == << c >>
  <1>1. n = Node("Projection", in, names, w, rel)
    BY DEF Projection
  <1> HIDE DEF rel, w, in
  <1> QED
    BY <1>1, NodeRecord DEF rel, w, in

LEMMA PartsOfProjection ==
    ASSUME NEW w \in Nat, NEW rel \in Relations(w), NEW exprs \in Seq(0 .. w),
           NEW a \in Seq(NodeNames), NEW b \in Seq(NodeNames), Len(exprs) = Len(a) + Len(b),
           NEW n, n.type = "Projection", n.schema = a \o b, n.width = Len(exprs),
           n.rel = Project(rel, exprs), n.provAttrs = IntSeq(Len(a) + 1, Len(a) + Len(b))
    PROVE  Parts(n, a, b) /\ \A g : NodeOk(g, n)
  <1>1. Project(rel, exprs) \in Relations(Len(exprs))
    BY ProjectFacts
  <1>2. IsSeq(a \o b) /\ Len(a \o b) = Len(a) + Len(b)
    <2>1. IsSeq(a) /\ IsSeq(b)
      BY SeqIsSeq
    <2> QED
      BY <2>1, ConcatSeq
  <1>3. Parts(n, a, b)
    BY <1>1 DEF Parts
  <1>4. \A g : NodeOk(g, n)
    BY <1>2 DEF NodeOk
  <1> QED
    BY <1>3, <1>4

\* Rows x whose columns exprs, u of them, are the first ones of row y.
Shows(exprs, u, x, y) == \A k \in 1 .. u : exprs[k] # 0 /\ x[exprs[k]] = y[k]
\* Row y is made from a row of rel; row x has become a row of orel.
HasSource(rel, exprs, u, y) == \E x \in ToSet(rel) : Shows(exprs, u, x, y)
HasImage(orel, exprs, u, x) == \E y \in ToSet(orel) : Shows(exprs, u, x, y)

LEMMA ProjectMatched ==
    ASSUME NEW w \in Nat, NEW rel \in Relations(w), NEW exprs \in Seq(0 .. w),
           NEW u \in Nat, u <= Len(exprs), NEW orel,
           \A x \in ToSet(rel) : HasImage(orel, exprs, u, x),
           \A y \in ToSet(orel) : HasSource(rel, exprs, u, y)
    PROVE  Matched(Project(rel, exprs), orel, u)
  <1> DEFINE p == Project(rel, exprs)
  <1>1. ToSet(p) = {Picked(x, exprs) : x \in ToSet(rel)}
    BY ProjectFacts
  <1>2. DOMAIN exprs = 1 .. Len(exprs) /\ Len(exprs) \in Nat
    BY SeqIsSeq
  <1>3. \A k \in 1 .. u : k \in DOMAIN exprs
    BY <1>2
  <1>4. \A x, y : Shows(exprs, u, x, y) => Agree(u, Picked(x, exprs), y)
    BY <1>3 DEF Shows, Agree, Picked
  <1>5. \A x, y : Agree(u, x, y) => Agree(u, y, x)
    BY DEF Agree
  <1> HIDE DEF p
  <1>6. ASSUME NEW z \in ToSet(p) PROVE HasRow(orel, u, z)
    <2>1. PICK x \in ToSet(rel) : z = Picked(x, exprs)
      BY <1>1
    <2>2. PICK y \in ToSet(orel) : Shows(exprs, u, x, y)
      BY DEF HasImage
    <2> QED
      BY <1>4, <1>5, <2>1, <2>2 DEF HasRow
  <1>7. ASSUME NEW y \in ToSet(orel) PROVE HasRow(p, u, y)
    <2>1. PICK x \in ToSet(rel) : Shows(exprs, u, x, y)
      BY DEF HasSource
    <2> QED
      BY <1>1, <1>4, <2>1 DEF HasRow
  <1>8. Matched(p, orel, u)
    BY <1>6, <1>7 DEF Matched
  <1> QED
    BY <1>8 DEF p

\* The first u columns.
LEMMA PrefixMatched ==
    ASSUME NEW w \in Nat, NEW rel \in Relations(w), NEW exprs \in Seq(0 .. w),
           NEW u \in Nat, u <= Len(exprs), NEW orel,
           \A k \in 1 .. u : exprs[k] = k, Matched(rel, orel, u)
    PROVE  Matched(Project(rel, exprs), orel, u)
  <1>1. \A x, y : Agree(u, x, y) <=> Shows(exprs, u, x, y)
    <2>1. \A k \in 1 .. u : exprs[k] = k /\ k # 0
      OBVIOUS
    <2> QED
      BY <2>1 DEF Agree, Shows
  <1>2. \A x, y : Agree(u, x, y) => Agree(u, y, x)
    BY DEF Agree
  <1>3. ASSUME NEW x \in ToSet(rel) PROVE HasImage(orel, exprs, u, x)
    <2>1. PICK y \in ToSet(orel) : Agree(u, y, x)
      BY DEF Matched, HasRow
    <2> QED
      BY <1>1, <1>2, <2>1 DEF HasImage
  <1>4. ASSUME NEW y \in ToSet(orel) PROVE HasSource(rel, exprs, u, y)
    <2>1. PICK x \in ToSet(rel) : Agree(u, x, y)
      BY DEF Matched, HasRow
    <2> QED
      BY <1>1, <2>1 DEF HasSource
  <1> QED
    BY <1>3, <1>4, ProjectMatched

\* The last node of a graph stands for an operator, with provenance
\* attributes p.
Result(h, o, p) ==
    /\ NodesOk(h) /\ Shaped(h[Len(h)], o)
    /\ ProvNames(h[Len(h)]) = p /\ Len(h[Len(h)].provAttrs) = Len(p)

LEMMA ResultFrom ==
    ASSUME NEW g, NEW h, NEW n, Grown(g, h, n), NodesOk(g), NodeOk(g, n),
           NEW o, NEW a, NEW b, Parts(n, a, b), Fits(a, o), b \in Seq(ProvAttrNames),
           NEW info, IsSeq(info)
    PROVE  LET k == WithInfo(h, info)
           IN  /\ Result(h, o, b) /\ Result(k, o, b) /\ k[Len(k)].info = info
               /\ h[Len(h)].rel = n.rel /\ k[Len(k)].rel = n.rel
  <1> DEFINE k == WithInfo(h, info)
  <1>1. GraphOk(h) /\ NodesOk(h) /\ h[Len(h)] = n /\ Len(h) \in DOMAIN h
    BY DEF Grown
  <1>2. /\ NodesOk(k) /\ Len(k) = Len(h) /\ k[Len(k)].info = info
        /\ \A c, d : Parts(h[Len(h)], c, d) => Parts(k[Len(k)], c, d)
        /\ k[Len(k)].rel = h[Len(h)].rel
    BY <1>1, InfoKept
  <1> HIDE DEF k
  <1>3. Parts(k[Len(k)], a, b)
    BY <1>1, <1>2
  <1>4. Shaped(n, o) /\ Shaped(k[Len(k)], o)
    BY <1>3, ShapedFrom
  <1>5. /\ Len(n.provAttrs) = Len(b) /\ Len(k[Len(k)].provAttrs) = Len(b)
        /\ ProvNames(n) = b /\ ProvNames(k[Len(k)]) = b
    BY <1>3, PartsFacts
  <1> QED
    BY <1>1, <1>2, <1>4, <1>5 DEF Result, k

(***************************************************************************)
(* Leaves                                                                  *)
(***************************************************************************)
LEMMA ProvName ==
    ASSUME NEW t \in ProvPrefixes, NEW cnt \in Int, NEW path \in Seq(Words)
    PROVE  getProvenanceAttrName(t, cnt, path) \in ProvAttrNames
  <1> DEFINE e == << >>
  <1>1. e \in Seq(Nat)
    OBVIOUS
  <1>2. getProvenanceAttrName(t, cnt, path) = << t, cnt, path, e >>
    BY DEF getProvenanceAttrName
  <1> HIDE DEF e
  <1> QED
    BY <1>1, <1>2 DEF ProvAttrNames

LEMMA SeqWider ==
    ASSUME NEW S, NEW T, S \subseteq T, NEW s \in Seq(S)
    PROVE  s \in Seq(T)
  <1>1. IsSeq(s) /\ \A k \in DOMAIN s : s[k] \in T
    BY SeqIsSeq
  <1> QED
    BY <1>1, SeqDomain

LEMMA TwiceInts ==
    ASSUME NEW n \in Nat
    PROVE  LET e == IntSeq(1, n) \o IntSeq(1, n)
           IN  /\ e \in Seq(0 .. n) /\ Len(e) = n + n
               /\ \A k \in 1 .. n : e[k] = k
  <1> DEFINE s == IntSeq(1, n)
  <1>1. s \in Seq(1 .. n) /\ Len(s) = n /\ IsSeq(s) /\ \A k \in 1 .. n : s[k] = k
    BY FirstInts
  <1> HIDE DEF s
  <1>2. s \in Seq(0 .. n)
    <2>1. \A k \in DOMAIN s : s[k] \in 0 .. n
      BY <1>1, SeqDomain
    <2> DEFINE Z == 0 .. n
    <2>2. \A k \in DOMAIN s : s[k] \in Z
      BY <2>1
    <2> HIDE DEF Z
    <2>3. s \in Seq(Z)
      BY <1>1, <2>2, SeqDomain
    <2> QED
      BY <2>3 DEF Z
  <1>3. s \o s \in Seq(0 .. n) /\ Len(s \o s) = n + n /\ \A k \in 1 .. n : (s \o s)[k] = s[k]
    BY <1>1, <1>2, ConcatFacts
  <1> QED
    BY <1>1, <1>3 DEF s

LEMMA LeafNamesFacts ==
    ASSUME NEW schema \in Seq(AttrNames), NEW recorded \in Seq(Words),
           NEW table \in ProvPrefixes, NEW cnt \in Int
    PROVE  LET n == Len(schema)
               names == [k \in 1 .. n |-> getProvenanceAttrName(table, cnt, schema[k][3])]
               paths == [k \in 1 .. n |-> recorded \o schema[k][3]]
           IN  /\ names \in Seq(ProvAttrNames) /\ Len(names) = n
               /\ paths \in Seq(Seq(Words)) /\ Len(paths) = n
  <1> DEFINE n == Len(schema)
             names == [k \in 1 .. n |-> getProvenanceAttrName(table, cnt, schema[k][3])]
             paths == [k \in 1 .. n |-> recorded \o schema[k][3]]
  <1>1. n \in Nat /\ \A k \in 1 .. n : schema[k] \in AttrNames
    BY SeqIsSeq
  <1>2. \A k \in 1 .. n : schema[k][3] \in Seq(Words)
    BY <1>1 DEF AttrNames
  <1> HIDE DEF n
  <1>3. names \in [1 .. n -> ProvAttrNames]
    BY <1>2, ProvName
  <1>4. paths \in [1 .. n -> Seq(Words)]
    <2>1. ASSUME NEW k \in 1 .. n PROVE recorded \o schema[k][3] \in Seq(Words)
      BY <1>2
    <2> QED
      BY <2>1
  <1> HIDE DEF names, paths
  <1>5. /\ names \in Seq(ProvAttrNames) /\ Len(names) = n
        /\ paths \in Seq(Seq(Words)) /\ Len(paths) = n
    BY <1>1, <1>3, <1>4, SeqOfFn
  <1> QED
    BY <1>5 DEF names, paths, n

LEMMA OneEntry ==
    ASSUME NEW t \in ProvPrefixes, NEW paths \in Seq(Seq(Words))
    PROVE  LET info == << << t, paths >> >>
           IN  /\ info \in Seq(ProvPrefixes \X Seq(Seq(Words))) /\ IsSeq(info)
               /\ Len(FlattenSeq(Paths(info))) = Len(paths)
  <1> DEFINE info == << << t, paths >> >>
             U == ProvPrefixes \X Seq(Seq(Words))
             ss == << paths >>
  <1>1. info \in Seq(U)
    OBVIOUS
  <1>2. IsSeq(info)
    <2> HIDE DEF info, U
    <2> QED
      BY <1>1, SeqIsSeq
  <1>3. Paths(info) = ss
    BY DEF Paths
  <1>4. ss \in Seq(Seq(Seq(Words))) /\ ss # << >> /\ Len(ss) = 1 /\ ss[1] = paths
    OBVIOUS
  <1> HIDE DEF ss
  <1>5. PICK f : Flattened(f, ss, Seq(Words))
    BY <1>4, FlattenFunction
  <1>6. FlattenSeq(ss) = paths
    BY <1>4, <1>5 DEF Flattened
  <1> QED
    BY <1>1, <1>2, <1>3, <1>6

\* The provenance attributes of a leaf, and the paths that are recorded.
LeafNames(o, table, cnt) ==
    [k \in 1 .. Len(o.schema) |-> getProvenanceAttrName(table, cnt, o.schema[k][3])]
LeafPaths(o, recorded) == [k \in 1 .. Len(o.schema) |-> recorded \o o.schema[k][3]]

LEMMA LeafResult ==
    ASSUME NEW g, GraphOk(g), NodesOk(g), NEW q, NEW o, DataOk(q, o), o.type \in Leaves,
           NEW table \in ProvPrefixes, NEW cnt \in Int, NEW recorded \in Seq(Words)
    PROVE  LET h == rewriteLeaf(g, o, table, cnt, recorded)
               n == h[Len(h)]
           IN  /\ Result(h, o, LeafNames(o, table, cnt)) /\ InfoOk(n) /\ SameRows(n, o)
               /\ n.info = << << table, LeafPaths(o, recorded) >> >>
  <1> DEFINE n == Len(o.schema)
             node == Node(o.type, << >>, o.schema, n, o.rel)
             leaf == Attach(g, node)
             names == [k \in 1 .. n |-> getProvenanceAttrName(table, cnt, o.schema[k][3])]
             paths == [k \in 1 .. n |-> recorded \o o.schema[k][3]]
             exprs == IntSeq(1, n) \o IntSeq(1, n)
             proj == Projection(leaf, Len(leaf), exprs, o.schema \o names)
             last == [proj EXCEPT !.provAttrs = IntSeq(n + 1, 2 * n)]
             top == Attach(leaf, last)
             info == << << table, paths >> >>
             h == WithInfo(top, info)
  <1>1. h = rewriteLeaf(g, o, table, cnt, recorded)
    BY DEF rewriteLeaf
  <1>a. names = LeafNames(o, table, cnt) /\ info = << << table, LeafPaths(o, recorded) >> >>
    BY DEF LeafNames, LeafPaths
  <1>2. /\ o.schema \in Seq(AttrNames) /\ n \in Nat /\ o.rel \in Relations(n)
        /\ DOMAIN o.schema = 1 .. n
    BY SchemaFacts
  <1>3. /\ names \in Seq(ProvAttrNames) /\ Len(names) = n
        /\ paths \in Seq(Seq(Words)) /\ Len(paths) = n
    <2> HIDE DEF n, names, paths
    <2> QED
      BY <1>2, LeafNamesFacts DEF n, names, paths
  <1>4. exprs \in Seq(0 .. n) /\ Len(exprs) = n + n /\ \A k \in 1 .. n : exprs[k] = k
    BY <1>2, TwiceInts
  <1>5. IsNewNode(g, node) /\ node.rel = o.rel /\ node.type = o.type
        /\ node.schema = o.schema /\ node.width = n
    BY NewLeafNode, NodeRecord
  <1>6. IsSeq(o.schema)
    BY <1>2, SeqIsSeq
  <1>7. o.type # "Set" /\ o.type # "Order"
    BY DEF Leaves
  <1> HIDE DEF node, names, paths, exprs
  <1>8. NodeOk(g, node)
    BY <1>5, <1>6, <1>7 DEF NodeOk
  <1>9. Grown(g, leaf, node)
    BY <1>5, Grows
  <1> HIDE DEF leaf
  <1>10. GraphOk(leaf) /\ Len(leaf) \in DOMAIN leaf /\ NodesOk(leaf) /\ leaf[Len(leaf)].rel = o.rel
    BY <1>5, <1>8, <1>9 DEF Grown
  <1>11. /\ DOMAIN proj = NodeFields /\ proj.type = "Projection" /\ proj.width = Len(exprs)
         /\ proj.schema = o.schema \o names /\ proj.rel = Project(o.rel, exprs)
    <2> DEFINE x == o.schema \o names
               c == Len(leaf)
    <2>1. leaf[c].rel = o.rel /\ x = o.schema \o names /\ proj = Projection(leaf, c, exprs, x)
      BY <1>10
    <2> HIDE DEF x, c, proj
    <2>2. proj = Projection(leaf, c, exprs, x)
      BY <2>1
    <2>3. /\ DOMAIN proj = NodeFields /\ proj.type = "Projection" /\ proj.width = Len(exprs)
          /\ proj.schema = x /\ proj.rel = Project(leaf[c].rel, exprs)
      BY <2>2, ProjectionNode
    <2> QED
      BY <2>1, <2>3
  <1>12. IsNewNode(leaf, proj)
    <2> DEFINE x == o.schema \o names
               c == Len(leaf)
    <2>1. c \in DOMAIN leaf /\ proj = Projection(leaf, c, exprs, x)
      BY <1>10
    <2> HIDE DEF x, c, proj
    <2> QED
      BY <2>1, NewProjection
  <1> HIDE DEF proj
  <1>13. /\ IsNewNode(leaf, last)
         /\ last.type = "Projection" /\ last.width = Len(exprs)
         /\ last.schema = o.schema \o names /\ last.rel = Project(o.rel, exprs)
         /\ last.provAttrs = IntSeq(n + 1, 2 * n)
    <2> DEFINE y == IntSeq(n + 1, 2 * n)
    <2>1. last = [proj EXCEPT !.provAttrs = y]
      OBVIOUS
    <2> HIDE DEF y, last
    <2>2. Renewed(last, proj, proj.schema, y)
      BY <2>1, <1>11, NodeChanges
    <2>3. IsNewNode(leaf, last)
      BY <2>1, <1>12, ChangedNode
    <2> QED
      BY <1>11, <2>2, <2>3 DEF Renewed, y
  <1> HIDE DEF last
  <1>14. 2 * n = n + n
    BY <1>2
  <1>15. o.schema \in Seq(NodeNames) /\ names \in Seq(NodeNames)
    BY <1>2, <1>3, NameSets, SeqWider
  <1>16. /\ last.provAttrs = IntSeq(Len(o.schema) + 1, Len(o.schema) + Len(names))
         /\ Len(exprs) = Len(o.schema) + Len(names)
    BY <1>3, <1>4, <1>13, <1>14
  <1>17. Parts(last, o.schema, names) /\ NodeOk(leaf, last)
    BY <1>2, <1>4, <1>13, <1>15, <1>16, PartsOfProjection
  <1>18. Grown(leaf, top, last)
    BY <1>10, <1>13, Grows
  <1>19. /\ info \in Seq(ProvPrefixes \X Seq(Seq(Words))) /\ IsSeq(info)
         /\ Len(FlattenSeq(Paths(info))) = Len(paths)
    BY <1>3, OneEntry
  <1> HIDE DEF top, info
  <1>20. /\ Result(h, o, names) /\ h[Len(h)].info = info /\ h[Len(h)].rel = last.rel
    <2>1. Fits(o.schema, o)
      BY <1>2 DEF Fits
    <2>2. NodesOk(leaf) /\ names \in Seq(ProvAttrNames) /\ IsSeq(info)
      BY <1>3, <1>10, <1>19
    <2> HIDE DEF n
    <2> QED
      BY <1>2, <1>17, <1>18, <2>1, <2>2, ResultFrom
  <1> HIDE DEF h
  <1>21. InfoOk(h[Len(h)])
    BY <1>3, <1>19, <1>20 DEF InfoOk, Result
  <1>22. SameRows(h[Len(h)], o)
    <2>1. Matched(o.rel, o.rel, n)
      BY DEF Matched, HasRow, Agree
    <2>2. Matched(Project(o.rel, exprs), o.rel, n)
      <3>1. n <= Len(exprs)
        BY <1>2, <1>4
      <3> HIDE DEF n
      <3> QED
        BY <1>2, <1>4, <2>1, <3>1, PrefixMatched
    <2> QED
      BY <1>2, <1>13, <1>20, <2>2, CutMatched DEF SameRows
  <1> QED
    BY <1>1, <1>a, <1>20, <1>21, <1>22

(***************************************************************************)
(* Operators with one input                                                *)
(***************************************************************************)
LEMMA UnaryRows ==
    ASSUME NEW q, NEW o, InputsOk(q, o), DataOk(q, o), o.type \in Unary,
           NEW i, i = q[o.in[1]], i.rel \in Relations(Len(i.schema))
    PROVE  /\ o.type = "Selection" =>
                o.rel = Select(i.rel, o.pos[1]) /\ o.pos[1] \in 1 .. Len(i.schema)
           /\ o.type = "Projection" =>
                /\ o.rel = Project(i.rel, o.pos) /\ o.pos \in Seq(1 .. Len(i.schema))
                /\ Len(o.schema) = Len(o.pos)
           /\ o.type = "Aggregation" =>
                /\ o.rel = CountBy(i.rel, o.pos) /\ o.pos \in Seq(1 .. Len(i.schema))
                /\ Len(o.schema) = Len(o.pos) + 1
           /\ o.type = "DuplicateRemoval" => o.rel = Distinct(i.rel)
           /\ o.type = "Order" => o.rel = i.rel
           /\ o.type = "Limit" => ToSet(o.rel) \subseteq ToSet(i.rel)
           /\ o.type \in {"Selection", "DuplicateRemoval", "Order", "Limit"} =>
                o.schema = i.schema
  <1>1. DOMAIN o.in = {1}
    BY InputsAreThere
  <1> DEFINE ins == [k \in DOMAIN o.in |-> q[o.in[k]].rel]
  <1>2. ins[1] = i.rel
    BY <1>1
  <1>3. o.rel = Eval(o, ins, db)
    BY DEF DataOk
  <1> HIDE DEF ins
  <1>4. Width(q, o.in[1]) = Len(i.schema)
    BY DEF Width
  <1>5. /\ o.type = "Selection" => o.pos \in Seq(1 .. Len(i.schema)) /\ Len(o.pos) = 1
        /\ o.type = "Projection" => o.pos \in Seq(1 .. Len(i.schema))
        /\ o.type = "Aggregation" => o.pos \in Seq(1 .. Len(i.schema))
    BY <1>4 DEF DataOk, PosOk
  <1>6. o.type = "Selection" => o.pos[1] \in 1 .. Len(i.schema)
    <2> SUFFICES ASSUME o.type = "Selection" PROVE o.pos[1] \in 1 .. Len(i.schema)
      OBVIOUS
    <2> DEFINE p == o.pos
               S == 1 .. Len(i.schema)
    <2>1. p \in Seq(S) /\ Len(p) = 1
      BY <1>5
    <2> HIDE DEF p, S
    <2>2. \A k \in 1 .. Len(p) : p[k] \in S
      BY <2>1, SeqIsSeq
    <2>3. 1 \in 1 .. Len(p)
      BY <2>1
    <2>4. p[1] \in S
      BY <2>2, <2>3
    <2> QED
      BY <2>4 DEF p, S
  <1>7. /\ o.type = "Projection" => Len(o.schema) = Len(o.pos)
        /\ o.type = "Aggregation" => Len(o.schema) = Len(o.pos) + 1
        /\ o.type \in {"Selection", "DuplicateRemoval", "Order", "Limit"} =>
                o.schema = i.schema
    BY DEF DataOk, SchemaOk
  <1>8. /\ o.type = "Selection" => o.rel = Select(i.rel, o.pos[1])
        /\ o.type = "Projection" => o.rel = Project(i.rel, o.pos)
        /\ o.type = "Aggregation" => o.rel = CountBy(i.rel, o.pos)
        /\ o.type = "DuplicateRemoval" => o.rel = Distinct(i.rel)
        /\ o.type = "Order" => o.rel = i.rel
        /\ o.type = "Limit" => o.rel = SubSeq(i.rel, 1, Min({LimitRows, Len(i.rel)}))
    BY <1>2, <1>3 DEF Eval
  <1>9. o.type = "Limit" => ToSet(o.rel) \subseteq ToSet(i.rel)
    <2> DEFINE rel == SubSeq(i.rel, 1, Min({LimitRows, Len(i.rel)}))
    <2>1. ToSet(rel) \subseteq ToSet(i.rel)
      BY LimitFacts
    <2>2. o.type = "Limit" => o.rel = rel
      BY <1>8
    <2> HIDE DEF rel
    <2> QED
      BY <2>1, <2>2
  <1>10. /\ o.type = "Selection" => o.rel = Select(i.rel, o.pos[1])
         /\ o.type = "Projection" => o.rel = Project(i.rel, o.pos)
         /\ o.type = "Aggregation" => o.rel = CountBy(i.rel, o.pos)
         /\ o.type = "DuplicateRemoval" => o.rel = Distinct(i.rel)
         /\ o.type = "Order" => o.rel = i.rel
    BY <1>8
  <1> QED
    BY <1>5, <1>6, <1>7, <1>9, <1>10

LEMMA SelectMatched ==
    ASSUME NEW w, NEW rel \in Relations(w), NEW u, NEW orel \in Relations(u),
           NEW pos \in 1 .. u, Matched(rel, orel, u)
    PROVE  Matched(Select(rel, pos), Select(orel, pos), u)
  <1>1. ASSUME NEW v, NEW r \in Relations(v)
        PROVE  \A e : e \in ToSet(Select(r, pos)) <=> e \in ToSet(r) /\ Equal(e[pos], 1)
    <2>1. r \in Seq([1 .. v -> Values])
      BY DEF Relations
    <2> DEFINE P == {k \in DOMAIN r : Equal(r[k][pos], 1)}
    <2>2. Select(r, pos) = Keep(r, P)
      BY DEF Select
    <2>3. \A e : e \in ToSet(Keep(r, P)) <=> \E k \in DOMAIN r : k \in P /\ r[k] = e
      <3> HIDE DEF P
      <3> QED
        BY <2>1, KeepFacts
    <2>4. \A e : e \in ToSet(r) <=> \E k \in DOMAIN r : r[k] = e
      BY DEF ToSet
    <2> QED
      BY <2>2, <2>3, <2>4
  <1>2. \A x, y : Agree(u, x, y) => x[pos] = y[pos]
    BY DEF Agree
  <1> DEFINE s == Select(rel, pos)
             t == Select(orel, pos)
  <1>3. /\ \A e : e \in ToSet(s) <=> e \in ToSet(rel) /\ Equal(e[pos], 1)
        /\ \A e : e \in ToSet(t) <=> e \in ToSet(orel) /\ Equal(e[pos], 1)
    BY <1>1
  <1> HIDE DEF s, t
  <1>4. ASSUME NEW x \in ToSet(s) PROVE HasRow(t, u, x)
    <2>1. PICK y \in ToSet(orel) : Agree(u, y, x)
      BY <1>3 DEF Matched, HasRow
    <2> QED
      BY <1>2, <1>3, <2>1 DEF HasRow
  <1>5. ASSUME NEW y \in ToSet(t) PROVE HasRow(s, u, y)
    <2>1. PICK x \in ToSet(rel) : Agree(u, x, y)
      BY <1>3 DEF Matched, HasRow
    <2> QED
      BY <1>2, <1>3, <2>1 DEF HasRow
  <1>6. Matched(s, t, u)
    BY <1>4, <1>5 DEF Matched
  <1> QED
    BY <1>6 DEF s, t

\* A rewritten input c of operator i: its attributes a, then b.
InputIs(c, i, a, b) ==
    /\ Parts(c, a, b) /\ a \in Seq(AttrNames) /\ b \in Seq(ProvAttrNames)
    /\ Len(i.schema) \in Nat /\ Len(i.schema) >= 1 /\ Len(i.schema) <= Len(a)
    /\ IsSeq(i.schema) /\ i.rel \in Relations(Len(i.schema))
    /\ \A k \in 1 .. Len(i.schema) : a[k] = i.schema[k]
    /\ ~ IsSet(query[i.core], {"INTERSECTION"}) => a = i.schema

LEMMA InputShape ==
    ASSUME NEW c, NEW i, Shaped(c, i), DataOk(query, i)
    PROVE  InputIs(c, i, NormalNames(c), ProvNames(c))
  <1> DEFINE a == NormalNames(c)
             b == ProvNames(c)
             s == i.schema
             w == Len(s)
  <1>1. /\ s \in Seq(AttrNames) /\ w \in Nat /\ w >= 1 /\ DOMAIN s = 1 .. w
        /\ i.rel \in Relations(w)
    BY SchemaFacts
  <1>2. /\ Parts(c, a, b) /\ a \in Seq(AttrNames) /\ b \in Seq(ProvAttrNames)
        /\ w <= Len(a) /\ \A k \in DOMAIN s : a[k] = s[k]
        /\ IsSet(query[i.core], {"INTERSECTION"}) \/ w = Len(a)
    BY DEF Shaped
  <1> HIDE DEF a, b, s
  <1>3. IsSeq(s) /\ IsSeq(a)
    BY <1>1, <1>2, SeqIsSeq
  <1>4. w = Len(a) => a = s
    BY <1>1, <1>2, <1>3, SameSeq
  <1> QED
    BY <1>1, <1>2, <1>3, <1>4 DEF InputIs, a, b, s

\* A node on top of the graph that stands for operator o.
LEMMA NewResult ==
    ASSUME NEW g, GraphOk(g), NodesOk(g), NEW n, IsNewNode(g, n), NodeOk(g, n),
           NEW o, o.rel \in Relations(Len(o.schema)),
           NEW a, NEW b, Parts(n, a, b), Fits(a, o), b \in Seq(ProvAttrNames),
           NEW info, IsSeq(info), NEW h, h = Attach(g, n), NEW k, k = WithInfo(h, info)
    PROVE  /\ Result(h, o, b) /\ Result(k, o, b) /\ h[Len(h)] = n
           /\ Matched(n.rel, o.rel, Len(o.schema)) =>
                SameRows(h[Len(h)], o) /\ SameRows(k[Len(k)], o)
  <1>1. Grown(g, h, n)
    BY Grows
  <1>2. /\ Result(h, o, b) /\ Result(k, o, b)
        /\ h[Len(h)].rel = n.rel /\ k[Len(k)].rel = n.rel
    BY <1>1, ResultFrom
  <1>3. h[Len(h)] = n
    BY <1>1 DEF Grown
  <1>4. Matched(n.rel, o.rel, Len(o.schema)) => Cut(n.rel, Len(o.schema)) = ToSet(o.rel)
    BY CutMatched
  <1> QED
    BY <1>2, <1>3, <1>4 DEF SameRows

LEMMA InputMatched ==
    ASSUME NEW c, NEW i, NEW a, NEW b, InputIs(c, i, a, b)
    PROVE  SameRows(c, i) <=> Matched(c.rel, i.rel, Len(i.schema))
  <1>1. i.rel \in Relations(Len(i.schema))
    BY DEF InputIs
  <1> QED
    BY <1>1, CutMatched DEF SameRows

\* The provenance attributes of c after the attributes a of a new node.
LEMMA PartsAdded ==
    ASSUME NEW n, DOMAIN n = NodeFields, n.provAttrs = << >>, n.schema \in Seq(NodeNames),
           NEW c, ProvNames(c) \in Seq(NodeNames), Len(c.provAttrs) = Len(ProvNames(c)),
           n.width = Len(n.schema) + Len(ProvNames(c)), n.rel \in Relations(n.width),
           NEW m, m = addProvenanceAttrsToSchema(n, c)
    PROVE  /\ Parts(m, n.schema, ProvNames(c)) /\ m.type = n.type /\ m.inputs = n.inputs /\ m.rel = n.rel
           /\ IsSeq(m.schema) /\ m.width = Len(m.schema)
  <1> DEFINE a == n.schema
             b == ProvNames(c)
             v == IntSeq(Len(a) + 1, Len(a) + Len(b))
  <1>0. a \in Seq(NodeNames) /\ b \in Seq(NodeNames) /\ n.width = Len(a) + Len(b)
    OBVIOUS
  <1>1. Len(a) \in Nat /\ Len(b) \in Nat /\ b \in Seq(NodeNames) /\ IsSeq(a) /\ IsSeq(b)
    <2> HIDE DEF a, b
    <2> QED
      BY <1>0, SeqIsSeq
  <1>2. Renewed(m, n, a \o b, << >> \o v)
    BY AddedProv
  <1>3. IsSeq(v)
    BY <1>1, IntSeqFacts
  <1>4. << >> \o v = v
    BY <1>3, EmptyConcat
  <1>5. Renewed(m, n, a \o b, v)
    BY <1>2, <1>4
  <1> HIDE DEF v, a, b
  <1>6. /\ m.schema = a \o b /\ m.provAttrs = v /\ m.type = n.type /\ m.inputs = n.inputs
        /\ m.width = n.width /\ m.rel = n.rel
    BY <1>5 DEF Renewed
  <1>7. IsSeq(a \o b) /\ Len(a \o b) = Len(a) + Len(b)
    BY <1>1, ConcatSeq
  <1>8. Parts(m, a, b)
    BY <1>0, <1>1, <1>6 DEF Parts, v
  <1> QED
    BY <1>0, <1>6, <1>7, <1>8 DEF a, b

LEMMA SameSchemaResult ==
    ASSUME NEW g, GraphOk(g), NodesOk(g), NEW o, InputsOk(query, o), DataOk(query, o),
           o.type \in {"Selection", "Order"},
           NEW x \in DOMAIN g, NEW ins, ins = << x >>,
           NEW b, NEW i, i = query[o.in[1]], InputIs(g[x], i, i.schema, b),
           NEW h, h = rewriteSameSchema(g, o, ins)
    PROVE  Result(h, o, b) /\ (SameRows(g[x], i) => SameRows(h[Len(h)], o))
  <1> DEFINE a == i.schema
             c == g[x]
             rel == Eval(o, << c.rel >>, db)
             n == Node(o.type, ins, o.schema, c.width, rel)
             m == addProvenanceAttrsToSchema(n, c)
             k == Attach(g, m)
  <1>1. h = WithInfo(k, c.info)
    BY DEF rewriteSameSchema
  <1>2. o.type \in Unary
    BY DEF Unary
  <1>3. /\ o.type = "Selection" =>
             o.rel = Select(i.rel, o.pos[1]) /\ o.pos[1] \in 1 .. Len(i.schema)
        /\ o.type = "Order" => o.rel = i.rel
        /\ o.schema = i.schema
    <2> HIDE DEF c, rel, n, m, k
    <2>0. i.rel \in Relations(Len(i.schema))
      BY DEF InputIs
    <2>1. /\ o.type = "Selection" =>
               o.rel = Select(i.rel, o.pos[1]) /\ o.pos[1] \in 1 .. Len(i.schema)
          /\ o.type = "Order" => o.rel = i.rel
          /\ o.type \in {"Selection", "DuplicateRemoval", "Order", "Limit"} =>
               o.schema = i.schema
      BY <1>2, <2>0, UnaryRows
    <2> QED
      BY <2>1
  <1>4. /\ o.type = "Selection" => rel = Select(c.rel, o.pos[1])
        /\ o.type = "Order" => rel = c.rel
    BY DEF Eval
  <1>5. /\ Parts(c, a, b) /\ a \in Seq(AttrNames) /\ b \in Seq(ProvAttrNames)
        /\ o.rel \in Relations(Len(o.schema))
    BY SchemaFacts DEF InputIs
  <1>6. /\ c.width = Len(a) + Len(b) /\ c.rel \in Relations(c.width) /\ c.schema = a \o b
    BY <1>5 DEF Parts
  <1>16. Len(a) = Len(i.schema) /\ o.schema = a
    BY <1>3
  <1> HIDE DEF a
  <1>7. /\ IsNewNode(g, n) /\ DOMAIN n = NodeFields /\ n.type = o.type /\ n.inputs = ins
        /\ n.schema = o.schema /\ n.width = c.width /\ n.rel = rel /\ n.provAttrs = << >>
    <2>1. IsSeq(ins) /\ ToSet(ins) = {x}
      BY OneInput
    <2> HIDE DEF rel
    <2> QED
      BY <2>1, NewNodes, NodeRecord
  <1> HIDE DEF n, c, rel
  <1>8. rel \in Relations(c.width)
    <2>1. CASE o.type = "Selection"
      BY <1>4, <1>6, <2>1, SelectFacts
    <2>2. CASE o.type = "Order"
      BY <1>4, <1>6, <2>2
    <2> QED
      BY <2>1, <2>2
  <1>9. a \in Seq(NodeNames)
    BY <1>5, NameSets, SeqWider
  <1>10. /\ Parts(m, a, b) /\ m.type = o.type /\ m.inputs = ins /\ m.rel = rel
         /\ IsSeq(m.schema) /\ m.width = Len(m.schema) /\ m.schema = a \o b
    <2>1. m = addProvenanceAttrsToSchema(n, c)
      OBVIOUS
    <2>2. n.schema = a /\ n.width = Len(a) + Len(b) /\ n.rel \in Relations(n.width)
      BY <1>6, <1>7, <1>8, <1>16
    <2>5. DOMAIN n = NodeFields /\ n.provAttrs = << >>
      BY <1>7
    <2>4. b \in Seq(NodeNames) /\ ProvNames(c) = b /\ Len(c.provAttrs) = Len(b)
      BY <1>5, NamesOfParts
    <2> HIDE DEF m
    <2>3. /\ Parts(m, a, b) /\ m.type = n.type /\ m.inputs = n.inputs /\ m.rel = n.rel
          /\ IsSeq(m.schema) /\ m.width = Len(m.schema)
      BY <1>9, <2>1, <2>2, <2>4, <2>5, PartsAdded
    <2> QED
      BY <1>7, <2>3 DEF Parts
  <1>11. IsNewNode(g, m)
    BY <1>7, AddedAttrsNode
  <1> HIDE DEF m
  <1>12. NodeOk(g, m)
    <2>1. x \in DOMAIN g /\ ins[1] = x /\ g[x].schema = a \o b /\ m.type # "Set"
      BY <1>6, <1>10 DEF c
    <2> QED
      BY <1>10, <2>1 DEF NodeOk
  <1>13. Fits(a, o)
    <2>1. Len(a) \in Nat
      BY <1>5, SeqIsSeq
    <2> QED
      BY <1>5, <1>16, <2>1 DEF Fits
  <1>14. IsSeq(c.info)
    BY DEF GraphOk, IsNode, c
  <1> HIDE DEF k
  <1>15. /\ Result(h, o, b)
         /\ Matched(m.rel, o.rel, Len(o.schema)) => SameRows(h[Len(h)], o)
    BY <1>1, <1>5, <1>10, <1>11, <1>12, <1>13, <1>14, NewResult DEF k
  <1>17. ASSUME SameRows(c, i) PROVE Matched(rel, o.rel, Len(o.schema))
    <2>1. Matched(c.rel, i.rel, Len(i.schema)) /\ i.rel \in Relations(Len(i.schema))
      BY <1>17, InputMatched DEF InputIs, c
    <2>2. CASE o.type = "Selection"
      BY <1>3, <1>4, <1>6, <2>1, <2>2, SelectMatched
    <2>3. CASE o.type = "Order"
      BY <1>3, <1>4, <2>1, <2>3
    <2> QED
      BY <2>2, <2>3
  <1> QED
    BY <1>10, <1>15, <1>17 DEF c

LEMMA WiderPositions ==
    ASSUME NEW v \in Nat, NEW w \in Nat, v <= w, NEW s \in Seq(1 .. v)
    PROVE  s \in Seq(0 .. w) /\ s \in Seq(1 .. w)
  <1> DEFINE V == 1 .. v
             W == 0 .. w
             X == 1 .. w
  <1>1. V \subseteq W /\ V \subseteq X /\ s \in Seq(V)
    OBVIOUS
  <1> HIDE DEF V, W, X
  <1>2. s \in Seq(W) /\ s \in Seq(X)
    BY <1>1, SeqWider
  <1> QED
    BY <1>2 DEF W, X

LEMMA ProvPositions ==
    ASSUME NEW n, NEW a, NEW b, Parts(n, a, b), NEW w, w = Len(a) + Len(b)
    PROVE  /\ w \in Nat /\ n.provAttrs \in Seq(0 .. w) /\ Len(n.provAttrs) = Len(b)
           /\ \A k \in 1 .. Len(b) : n.provAttrs[k] = Len(a) + k
           /\ Len(a) \in Nat /\ Len(b) \in Nat
           /\ a \in Seq(NodeNames) /\ b \in Seq(NodeNames)
           /\ n.width = w /\ n.rel \in Relations(w)
  <1> DEFINE v == n.provAttrs
             W == 0 .. w
  <1>1. /\ Len(a) \in Nat /\ Len(b) \in Nat /\ IsSeq(v) /\ DOMAIN v = 1 .. Len(b) /\ Len(v) = Len(b)
        /\ \A k \in 1 .. Len(b) : v[k] = Len(a) + k
        /\ n.width = w /\ n.rel \in Relations(w)
    BY PartsFacts
  <1>2. \A k \in DOMAIN v : v[k] \in W
    BY <1>1
  <1>3. w \in Nat
    BY <1>1
  <1> HIDE DEF v, W
  <1>4. v \in Seq(W)
    BY <1>1, <1>2, SeqDomain
  <1> QED
    BY <1>1, <1>3, <1>4 DEF v, W, Parts

LEMMA PositionsJoined ==
    ASSUME NEW w \in Nat, NEW s \in Seq(0 .. w), NEW t \in Seq(0 .. w)
    PROVE  /\ s \o t \in Seq(0 .. w) /\ Len(s \o t) = Len(s) + Len(t)
           /\ Len(s) \in Nat /\ Len(t) \in Nat
           /\ \A k \in 1 .. Len(s) : (s \o t)[k] = s[k]
           /\ \A k \in 1 .. Len(t) : (s \o t)[Len(s) + k] = t[k]
  BY ConcatFacts

LEMMA ProjectedMatched ==
    ASSUME NEW v \in Nat, NEW w \in Nat, v <= w, NEW rel \in Relations(w),
           NEW irel \in Relations(v), Matched(rel, irel, v),
           NEW pos \in Seq(1 .. v), NEW exprs \in Seq(0 .. w),
           Len(pos) <= Len(exprs), \A k \in 1 .. Len(pos) : exprs[k] = pos[k]
    PROVE  Matched(Project(rel, exprs), Project(irel, pos), Len(pos))
  <1> DEFINE u == Len(pos)
             orel == Project(irel, pos)
  <1>1. /\ u \in Nat /\ DOMAIN pos = 1 .. u /\ pos \in Seq(0 .. v)
        /\ \A k \in 1 .. u : pos[k] \in 1 .. v /\ pos[k] # 0
    <2>1. pos \in Seq(0 .. v)
      BY WiderPositions
    <2> DEFINE V == 1 .. v
    <2>2. pos \in Seq(V)
      OBVIOUS
    <2> HIDE DEF V
    <2>3. Len(pos) \in Nat /\ DOMAIN pos = 1 .. Len(pos) /\ \A k \in 1 .. Len(pos) : pos[k] \in V
      BY <2>2, SeqIsSeq
    <2> QED
      BY <2>1, <2>3 DEF V
  <1>2. ToSet(orel) = {Picked(y, pos) : y \in ToSet(irel)}
    BY <1>1, ProjectFacts
  <1>3. \A x, y : Agree(v, x, y) => Shows(exprs, u, x, Picked(y, pos))
    <2> SUFFICES ASSUME NEW x, NEW y, Agree(v, x, y), NEW k \in 1 .. u
                 PROVE  exprs[k] # 0 /\ x[exprs[k]] = Picked(y, pos)[k]
      BY DEF Shows
    <2>1. exprs[k] = pos[k] /\ pos[k] \in 1 .. v /\ pos[k] # 0 /\ k \in DOMAIN pos
      BY <1>1
    <2>2. Picked(y, pos)[k] = y[pos[k]]
      BY <2>1 DEF Picked
    <2> QED
      BY <2>1, <2>2 DEF Agree
  <1>4. \A x, y : Agree(v, x, y) => Agree(v, y, x)
    BY DEF Agree
  <1> HIDE DEF orel, u
  <1>5. ASSUME NEW x \in ToSet(rel) PROVE HasImage(orel, exprs, u, x)
    <2>1. PICK y \in ToSet(irel) : Agree(v, y, x)
      BY DEF Matched, HasRow
    <2> QED
      BY <1>2, <1>3, <1>4, <2>1 DEF HasImage
  <1>6. ASSUME NEW z \in ToSet(orel) PROVE HasSource(rel, exprs, u, z)
    <2>1. PICK y \in ToSet(irel) : z = Picked(y, pos)
      BY <1>2
    <2>2. PICK x \in ToSet(rel) : Agree(v, x, y)
      BY DEF Matched, HasRow
    <2> QED
      BY <1>3, <2>1, <2>2 DEF HasSource
  <1>7. u <= Len(exprs)
    BY DEF u
  <1>8. Matched(Project(rel, exprs), orel, u)
    BY <1>1, <1>5, <1>6, <1>7, ProjectMatched
  <1> QED
    BY <1>8 DEF orel, u

LEMMA ProjectionResult ==
    ASSUME NEW g, GraphOk(g), NodesOk(g), NEW o, InputsOk(query, o), DataOk(query, o),
           o.type = "Projection", NEW x \in DOMAIN g, NEW ins, ins = << x >>,
           NEW a, NEW b, NEW i, i = query[o.in[1]], InputIs(g[x], i, a, b),
           NEW h, h = rewriteProjection(g, o, ins)
    PROVE  Result(h, o, b) /\ (SameRows(g[x], i) => SameRows(h[Len(h)], o))
  <1> DEFINE c == g[x]
             e == o.pos \o c.provAttrs
             s == o.schema
             n == Projection(g, x, e, s)
             m == addProvenanceAttrsToSchema(n, c)
             k == Attach(g, m)
             v == Len(i.schema)
             w == Len(a) + Len(b)
  <1>1. h = WithInfo(k, c.info)
    BY DEF rewriteProjection
  <1>2. /\ Parts(c, a, b) /\ b \in Seq(ProvAttrNames) /\ i.rel \in Relations(v)
        /\ v \in Nat /\ v <= Len(a)
    BY DEF InputIs
  <1>3. o.rel = Project(i.rel, o.pos) /\ o.pos \in Seq(1 .. v) /\ Len(s) = Len(o.pos)
    <2>1. o.type \in Unary
      BY DEF Unary
    <2> HIDE DEF c, e, n, m, k
    <2> QED
      BY <1>2, <2>1, UnaryRows
  <1>4. s \in Seq(AttrNames) /\ o.rel \in Relations(Len(s)) /\ Len(s) \in Nat
    BY SchemaFacts
  <1>5. /\ w \in Nat /\ c.provAttrs \in Seq(0 .. w) /\ Len(c.provAttrs) = Len(b)
        /\ Len(a) \in Nat /\ Len(b) \in Nat /\ c.rel \in Relations(w)
    <2> HIDE DEF c, e, n, m, k
    <2> QED
      BY <1>2, ProvPositions
  <1>6. v <= w /\ o.pos \in Seq(0 .. w)
    <2>1. v <= w
      BY <1>2, <1>5
    <2> HIDE DEF v, w
    <2> QED
      BY <1>2, <1>3, <1>5, <2>1, WiderPositions
  <1>7. /\ e \in Seq(0 .. w) /\ Len(e) = Len(s) + Len(b)
        /\ Len(o.pos) <= Len(e) /\ \A j \in 1 .. Len(o.pos) : e[j] = o.pos[j]
    <2> DEFINE p == o.pos
               t == c.provAttrs
    <2>1. /\ p \o t \in Seq(0 .. w) /\ Len(p \o t) = Len(p) + Len(t)
          /\ \A j \in 1 .. Len(p) : (p \o t)[j] = p[j]
      <3> HIDE DEF w, p, t
      <3> QED
        BY <1>5, <1>6, PositionsJoined DEF p, t
    <2>2. e = p \o t /\ p = o.pos /\ Len(t) = Len(b) /\ Len(s) = Len(p) /\ Len(p) \in Nat
      BY <1>3, <1>4, <1>5
    <2>3. Len(b) \in Nat
      BY <1>5
    <2> HIDE DEF e, p, t, s, w
    <2>4. e \in Seq(0 .. w) /\ Len(e) = Len(s) + Len(b) /\ \A j \in 1 .. Len(p) : e[j] = p[j]
      BY <2>1, <2>2
    <2>5. Len(p) <= Len(e)
      BY <2>2, <2>3, <2>4
    <2> QED
      BY <2>2, <2>4, <2>5
  <1>8. /\ DOMAIN n = NodeFields /\ n.type = "Projection" /\ n.schema = s /\ n.width = Len(e)
        /\ n.rel = Project(c.rel, e) /\ n.provAttrs = << >> /\ IsNewNode(g, n)
    <2> HIDE DEF e, s
    <2> QED
      BY ProjectionNode, NewProjection
  <1> HIDE DEF n, e, c, w, v
  <1>9. n.rel \in Relations(n.width)
    <2>1. e \in Seq(0 .. w) /\ c.rel \in Relations(w) /\ w \in Nat
      BY <1>5, <1>7
    <2>2. Project(c.rel, e) \in Relations(Len(e))
      BY <2>1, ProjectFacts
    <2> QED
      BY <1>8, <2>2
  <1>10. s \in Seq(NodeNames)
    BY <1>4, NameSets, SeqWider
  <1>11. /\ Parts(m, s, b) /\ m.type = "Projection" /\ m.rel = n.rel
         /\ IsSeq(m.schema) /\ m.width = Len(m.schema) /\ IsNewNode(g, m)
    <2>1. m = addProvenanceAttrsToSchema(n, c)
      OBVIOUS
    <2>2. n.schema = s /\ n.width = Len(s) + Len(b) /\ n.rel \in Relations(n.width)
      BY <1>7, <1>8, <1>9
    <2>5. DOMAIN n = NodeFields /\ n.provAttrs = << >> /\ n.type = "Projection"
      BY <1>8
    <2>3. IsNewNode(g, m)
      BY <1>8, AddedAttrsNode
    <2>6. b \in Seq(NodeNames) /\ ProvNames(c) = b /\ Len(c.provAttrs) = Len(b)
      BY <1>2, NamesOfParts
    <2> HIDE DEF m, s
    <2>4. /\ Parts(m, s, b) /\ m.type = n.type /\ m.rel = n.rel
          /\ IsSeq(m.schema) /\ m.width = Len(m.schema)
      BY <1>10, <2>1, <2>2, <2>5, <2>6, PartsAdded
    <2> QED
      BY <2>3, <2>4, <2>5
  <1> HIDE DEF m
  <1>12. NodeOk(g, m)
    BY <1>11 DEF NodeOk
  <1>13. Fits(s, o)
    BY <1>4 DEF Fits
  <1>14. IsSeq(c.info)
    BY DEF GraphOk, IsNode, c
  <1> HIDE DEF k, s
  <1>15. /\ Result(h, o, b)
         /\ Matched(m.rel, o.rel, Len(s)) => SameRows(h[Len(h)], o)
    BY <1>1, <1>2, <1>4, <1>11, <1>12, <1>13, <1>14, NewResult DEF k, s
  <1>16. ASSUME SameRows(c, i) PROVE Matched(n.rel, o.rel, Len(s))
    <2>1. Matched(c.rel, i.rel, v)
      BY <1>16, InputMatched DEF c, v
    <2> QED
      BY <1>2, <1>3, <1>5, <1>6, <1>7, <1>8, <2>1, ProjectedMatched
  <1> QED
    BY <1>11, <1>15, <1>16 DEF c

(***************************************************************************)
(* Joins, whose attributes are put in order                                *)
(***************************************************************************)
\* The l numbers after f, then the p numbers after m.
Ranges(f, l, m, p) == IntSeq(f + 1, f + l) \o IntSeq(m + 1, m + p)

\* The list of these numbers, entry by entry.
RangesOk(t, f, l, m, p) ==
    /\ t \in Seq(1 .. m + p) /\ IsSeq(t) /\ Len(t) = l + p /\ DOMAIN t = 1 .. l + p
    /\ \A k \in 1 .. l : t[k] = f + k
    /\ \A k \in 1 .. p : t[l + k] = m + k
    /\ \A j, k \in DOMAIN t : j < k => t[j] < t[k]
    /\ \A e : Contains(t, e) <=> e \in f + 1 .. f + l \/ e \in m + 1 .. m + p

LEMMA TwoRanges ==
    ASSUME NEW f \in Nat, NEW l \in Nat, NEW m \in Nat, NEW p \in Nat, f + l <= m
    PROVE  RangesOk(Ranges(f, l, m, p), f, l, m, p)
  <1> DEFINE t == Ranges(f, l, m, p)
             r == IntSeq(f + 1, f + l)
             s == IntSeq(m + 1, m + p)
  <1>1. /\ IsSeq(r) /\ Len(r) = l /\ \A k \in 1 .. l : r[k] = f + k
        /\ IsSeq(s) /\ Len(s) = p /\ \A k \in 1 .. p : s[k] = m + k
    BY IntSeqFacts
  <1>2. t = r \o s
    BY DEF Ranges
  <1> HIDE DEF r, s, t
  <1>3. /\ IsSeq(t) /\ Len(t) = l + p /\ DOMAIN t = 1 .. l + p
        /\ \A k \in 1 .. l : t[k] = r[k]
        /\ \A k \in 1 .. p : t[l + k] = s[k]
    <2> DEFINE u == r \o s
    <2>1. /\ IsSeq(u) /\ Len(u) = Len(r) + Len(s) /\ DOMAIN u = 1 .. Len(r) + Len(s)
          /\ \A k \in 1 .. Len(r) : u[k] = r[k]
          /\ \A k \in 1 .. Len(s) : u[Len(r) + k] = s[k]
      <3>1. IsSeq(r) /\ IsSeq(s)
        BY <1>1
      <3> QED
        BY <3>1, ConcatSeq
    <2> HIDE DEF u
    <2> QED
      BY <1>1, <1>2, <2>1 DEF u
  <1>4. \A k \in 1 .. l : t[k] = f + k
    BY <1>1, <1>3
  <1>5. \A k \in 1 .. p : t[l + k] = m + k
    BY <1>1, <1>3
  <1>6. ASSUME NEW k \in 1 .. l + p
        PROVE  \/ k \in 1 .. l /\ t[k] = f + k
               \/ k - l \in 1 .. p /\ t[k] = m + (k - l)
    <2>1. CASE k \in 1 .. l
      BY <1>4, <2>1
    <2>2. CASE k - l \in 1 .. p /\ l + (k - l) = k
      <3>1. t[l + (k - l)] = m + (k - l)
        BY <1>5, <2>2
      <3> QED
        BY <2>2, <3>1
    <2> QED
      BY <2>1, <2>2, SplitPos
  <1>7. \A k \in DOMAIN t : t[k] \in 1 .. m + p
    BY <1>3, <1>6
  <1>8. t \in Seq(1 .. m + p)
    <2> DEFINE M == 1 .. m + p
    <2>1. \A k \in DOMAIN t : t[k] \in M
      BY <1>7
    <2> HIDE DEF M
    <2>2. t \in Seq(M)
      BY <1>3, <2>1, SeqDomain
    <2> QED
      BY <2>2 DEF M
  <1>9. \A j, k \in DOMAIN t : j < k => t[j] < t[k]
    BY <1>3, <1>6
  <1>10. ASSUME NEW e PROVE Contains(t, e) <=> e \in f + 1 .. f + l \/ e \in m + 1 .. m + p
    <2>1. Contains(t, e) <=> \E k \in 1 .. l + p : t[k] = e
      BY <1>3, ContainsDef
    <2>2. ASSUME NEW k \in 1 .. l + p, t[k] = e
          PROVE  e \in f + 1 .. f + l \/ e \in m + 1 .. m + p
      BY <1>6, <2>2
    <2>3. ASSUME e \in f + 1 .. f + l PROVE \E k \in 1 .. l + p : t[k] = e
      <3>1. e - f \in 1 .. l /\ e - f \in 1 .. l + p /\ f + (e - f) = e
        BY <2>3
      <3> QED
        BY <1>4, <3>1
    <2>4. ASSUME e \in m + 1 .. m + p PROVE \E k \in 1 .. l + p : t[k] = e
      <3>1. e - m \in 1 .. p /\ l + (e - m) \in 1 .. l + p /\ m + (e - m) = e
        BY <2>4
      <3> QED
        BY <1>5, <3>1
    <2> QED
      BY <2>1, <2>2, <2>3, <2>4
  <1> QED
    BY <1>3, <1>4, <1>5, <1>8, <1>9, <1>10 DEF t, RangesOk

\* A join of two inputs with attributes a and c, provenance attributes b and d.
Mixed(n, a, b, c, d) ==
    LET l == Len(a) + Len(b)
        w == l + Len(c) + Len(d)
    IN  /\ a \in Seq(NodeNames) /\ b \in Seq(NodeNames)
        /\ c \in Seq(NodeNames) /\ d \in Seq(NodeNames)
        /\ n.schema = ((a \o b) \o c) \o d
        /\ n.provAttrs = Ranges(Len(a), Len(b), l + Len(c), Len(d))
        /\ n.width = w /\ n.rel \in Relations(w)

\* The positions of its attributes when those of each kind are together.
InOrder(m, p, q, r) == Ranges(0, m, m + p, q) \o Ranges(m, p, m + p + q, r)

LEMMA MixedSchema ==
    ASSUME NEW n, NEW a, NEW b, NEW c, NEW d, Mixed(n, a, b, c, d)
    PROVE  LET s == n.schema
               m == Len(a)
               p == Len(b)
               q == Len(c)
               r == Len(d)
           IN  /\ m \in Nat /\ p \in Nat /\ q \in Nat /\ r \in Nat
               /\ IsSeq(a) /\ IsSeq(b) /\ IsSeq(c) /\ IsSeq(d)
               /\ IsSeq(s) /\ Len(s) = m + p + q + r /\ DOMAIN s = 1 .. m + p + q + r
               /\ \A k \in 1 .. m : s[k] = a[k]
               /\ \A k \in 1 .. p : s[m + k] = b[k]
               /\ \A k \in 1 .. q : s[m + p + k] = c[k]
               /\ \A k \in 1 .. r : s[m + p + q + k] = d[k]
               /\ n.width = m + p + q + r /\ n.rel \in Relations(m + p + q + r)
  <1> DEFINE s == n.schema
             m == Len(a)
             p == Len(b)
             q == Len(c)
             r == Len(d)
             x == a \o b
             y == x \o c
  <1>1. IsSeq(a) /\ IsSeq(b) /\ IsSeq(c) /\ IsSeq(d)
    BY SeqIsSeq DEF Mixed
  <1>2. m \in Nat /\ p \in Nat /\ q \in Nat /\ r \in Nat
    BY <1>1, SeqDomain
  <1>3. s = y \o d /\ n.width = m + p + q + r /\ n.rel \in Relations(m + p + q + r)
    BY DEF Mixed
  <1> HIDE DEF s, m, p, q, r
  <1>4. /\ IsSeq(x) /\ Len(x) = m + p /\ \A k \in 1 .. m : x[k] = a[k]
        /\ \A k \in 1 .. p : x[m + k] = b[k]
    BY <1>1, ConcatSeq DEF m, p
  <1> DEFINE l == m + p
  <1>5. Len(x) = l
    BY <1>4
  <1> HIDE DEF x, l
  <1>6. /\ Len(y) = l + q /\ \A k \in 1 .. l : y[k] = x[k]
        /\ \A k \in 1 .. q : y[l + k] = c[k]
    BY <1>1, <1>4, <1>5, ConcatSeq DEF q
  <1>15. IsSeq(y)
    BY <1>1, <1>4, ConcatSeq DEF y
  <1> DEFINE o == l + q
  <1>7. Len(y) = o
    BY <1>6
  <1> HIDE DEF y, o
  <1>8. /\ IsSeq(s) /\ Len(s) = o + r /\ DOMAIN s = 1 .. o + r /\ \A k \in 1 .. o : s[k] = y[k]
        /\ \A k \in 1 .. r : s[o + k] = d[k]
    BY <1>1, <1>3, <1>7, <1>15, ConcatSeq DEF r
  <1>9. l = m + p /\ o = m + p + q
    BY DEF l, o
  <1>10. \A k \in 1 .. m : s[k] = a[k]
    <2>1. \A k \in 1 .. m : k \in 1 .. l /\ k \in 1 .. o
      BY <1>2, <1>9
    <2> QED
      BY <1>4, <1>6, <1>8, <2>1
  <1>11. \A k \in 1 .. p : s[m + k] = b[k]
    <2>1. \A k \in 1 .. p : m + k \in 1 .. l /\ m + k \in 1 .. o
      BY <1>2, <1>9
    <2> QED
      BY <1>4, <1>6, <1>8, <2>1
  <1>12. \A k \in 1 .. q : s[m + p + k] = c[k]
    <2>1. \A k \in 1 .. q : l + k \in 1 .. o /\ l + k = m + p + k
      BY <1>2, <1>9
    <2> QED
      BY <1>6, <1>8, <2>1
  <1>13. \A k \in 1 .. r : s[m + p + q + k] = d[k]
    BY <1>8, <1>9
  <1>14. Len(s) = m + p + q + r /\ DOMAIN s = 1 .. m + p + q + r
    BY <1>8, <1>9
  <1> QED
    BY <1>1, <1>2, <1>3, <1>8, <1>10, <1>11, <1>12, <1>13, <1>14 DEF s, m, p, q, r

LEMMA MixedNames ==
    ASSUME NEW n, NEW a, NEW b, NEW c, NEW d, Mixed(n, a, b, c, d)
    PROVE  /\ NormalPos(n) \o n.provAttrs = InOrder(Len(a), Len(b), Len(c), Len(d))
           /\ NormalNames(n) = a \o c /\ ProvNames(n) = b \o d
           /\ Len(n.provAttrs) = Len(b) + Len(d)
  <1> DEFINE s == n.schema
             m == Len(a)
             p == Len(b)
             q == Len(c)
             r == Len(d)
             w == m + p + q + r
             t == Ranges(0, m, m + p, q)
             v == Ranges(m, p, m + p + q, r)
  <1>1. /\ m \in Nat /\ p \in Nat /\ q \in Nat /\ r \in Nat
        /\ IsSeq(a) /\ IsSeq(b) /\ IsSeq(c) /\ IsSeq(d)
        /\ Len(s) = w /\ DOMAIN s = 1 .. w
        /\ \A k \in 1 .. m : s[k] = a[k]
        /\ \A k \in 1 .. p : s[m + k] = b[k]
        /\ \A k \in 1 .. q : s[m + p + k] = c[k]
        /\ \A k \in 1 .. r : s[m + p + q + k] = d[k]
    BY MixedSchema
  <1>2. n.provAttrs = v
    BY DEF Mixed
  <1>13. DOMAIN a = 1 .. m /\ DOMAIN b = 1 .. p /\ DOMAIN c = 1 .. q /\ DOMAIN d = 1 .. r
    BY <1>1, SeqDomain
  <1> HIDE DEF m, p, q, r, s
  <1>3. /\ t \in Seq(1 .. m + p + q) /\ IsSeq(t) /\ Len(t) = m + q /\ DOMAIN t = 1 .. m + q
        /\ \A k \in 1 .. m : t[k] = k
        /\ \A k \in 1 .. q : t[m + k] = m + p + k
        /\ \A j, k \in DOMAIN t : j < k => t[j] < t[k]
        /\ \A e : Contains(t, e) <=> e \in 1 .. m \/ e \in m + p + 1 .. m + p + q
    <2> DEFINE l == m + p
               f == 0
               u == Ranges(f, m, l, q)
    <2>1. f \in Nat /\ l \in Nat /\ f + m <= l /\ f + m = m /\ f + 1 = 1 /\ t = u
      BY <1>1
    <2>2. \A k \in 1 .. m : f + k = k
      BY <1>1
    <2> HIDE DEF f, l, t
    <2>3. RangesOk(u, f, m, l, q)
      BY <1>1, <2>1, TwoRanges
    <2> HIDE DEF u
    <2>4. \A k \in 1 .. m : u[k] = k
      BY <2>2, <2>3 DEF RangesOk
    <2> QED
      BY <2>1, <2>3, <2>4 DEF l, RangesOk
  <1>4. /\ IsSeq(v) /\ Len(v) = p + r /\ DOMAIN v = 1 .. p + r
        /\ \A k \in 1 .. p : v[k] = m + k
        /\ \A k \in 1 .. r : v[p + k] = m + p + q + k
        /\ \A e : Contains(v, e) <=> e \in m + 1 .. m + p \/ e \in m + p + q + 1 .. m + p + q + r
    <2> DEFINE l == m + p + q
    <2>1. l \in Nat /\ m + p <= l /\ v = Ranges(m, p, l, r)
      BY <1>1
    <2> HIDE DEF l, v
    <2>2. RangesOk(v, m, p, l, r)
      BY <1>1, <2>1, TwoRanges
    <2> QED
      BY <2>2 DEF l, RangesOk
  <1> HIDE DEF t, v
  <1>5. w \in Nat
    BY <1>1
  <1>6. NormalPos(n) = t
    <2> DEFINE P == {k \in 1 .. w : ~ Contains(v, k)}
    <2>7. Len(s) = w /\ DOMAIN s = 1 .. w
      BY <1>1
    <2>1. NormalPos(n) = Keep(IntSeq(1, w), P)
      <3> HIDE DEF w
      <3> QED
        BY <1>2, <2>7 DEF NormalPos, s
    <2>2. \A k \in 1 .. w : k \in P <=> Contains(t, k)
      <3>1. m \in Nat /\ p \in Nat /\ q \in Nat /\ r \in Nat
        BY <1>1
      <3>2. ASSUME NEW k \in 1 .. w PROVE ~ Contains(v, k) <=> Contains(t, k)
        <4>1. Contains(v, k) <=> k \in m + 1 .. m + p \/ k \in m + p + q + 1 .. m + p + q + r
          BY <1>4
        <4>2. Contains(t, k) <=> k \in 1 .. m \/ k \in m + p + 1 .. m + p + q
          BY <1>3
        <4> QED
          BY <3>1, <4>1, <4>2
      <3> QED
        BY <3>2
    <2>3. \A k : Contains(t, k) <=> k \in ToSet(t)
      BY <1>3, ContainsDef
    <2> DEFINE W == 1 .. w
               V == 1 .. m + p + q
    <2>4. V \subseteq W /\ t \in Seq(V)
      BY <1>1, <1>3
    <2> HIDE DEF P, V, W
    <2>5. t \in Seq(W)
      BY <2>4, SeqWider
    <2> HIDE DEF w
    <2>6. Keep(IntSeq(1, w), P) = t
      BY <1>3, <1>5, <2>2, <2>3, <2>5, KeepIncreasing DEF W
    <2> QED
      BY <2>1, <2>6
  <1>7. NormalPos(n) \o n.provAttrs = InOrder(m, p, q, r)
    BY <1>2, <1>6 DEF InOrder, t, v
  <1>8. NormalNames(n) = a \o c
    <2> DEFINE x == NormalNames(n)
               y == a \o c
    <2>1. x = [k \in 1 .. m + q |-> s[t[k]]]
      BY <1>3, <1>6 DEF NormalNames, s
    <2>2. /\ IsSeq(y) /\ Len(y) = m + q /\ DOMAIN y = 1 .. m + q /\ \A k \in 1 .. m : y[k] = a[k]
          /\ \A k \in 1 .. q : y[m + k] = c[k]
      BY <1>1, ConcatSeq DEF m, q
    <2> HIDE DEF x, y
    <2>3. ASSUME NEW k \in 1 .. m + q PROVE s[t[k]] = y[k]
      <3>1. CASE k \in 1 .. m
        BY <1>1, <1>3, <2>2, <3>1
      <3>2. CASE k - m \in 1 .. q /\ m + (k - m) = k
        <4> DEFINE j == k - m
        <4>1. j \in 1 .. q /\ k = m + j
          BY <3>2
        <4> HIDE DEF j
        <4>2. t[k] = m + p + j /\ y[k] = c[j] /\ s[m + p + j] = c[j]
          BY <1>1, <1>3, <2>2, <4>1
        <4> QED
          BY <4>2
      <3> QED
        BY <1>1, <3>1, <3>2, SplitPos
    <2>4. y = [k \in 1 .. m + q |-> y[k]]
      BY <2>2 DEF IsSeq
    <2> QED
      BY <2>1, <2>3, <2>4 DEF x, y
  <1>9. ProvNames(n) = b \o d
    <2> DEFINE x == ProvNames(n)
               y == b \o d
    <2>1. x = [k \in 1 .. p + r |-> s[v[k]]]
      BY <1>2, <1>4 DEF ProvNames, s
    <2>2. /\ IsSeq(y) /\ Len(y) = p + r /\ DOMAIN y = 1 .. p + r /\ \A k \in 1 .. p : y[k] = b[k]
          /\ \A k \in 1 .. r : y[p + k] = d[k]
      BY <1>1, ConcatSeq DEF p, r
    <2> HIDE DEF x, y
    <2>3. ASSUME NEW k \in 1 .. p + r PROVE s[v[k]] = y[k]
      <3>1. CASE k \in 1 .. p
        BY <1>1, <1>4, <2>2, <3>1
      <3>2. CASE k - p \in 1 .. r /\ p + (k - p) = k
        <4> DEFINE j == k - p
        <4>1. j \in 1 .. r /\ k = p + j
          BY <3>2
        <4> HIDE DEF j
        <4>2. v[k] = m + p + q + j /\ y[k] = d[j] /\ s[m + p + q + j] = d[j]
          BY <1>1, <1>4, <2>2, <4>1
        <4> QED
          BY <4>2
      <3> QED
        BY <1>1, <3>1, <3>2, SplitPos
    <2>4. y = [k \in 1 .. p + r |-> y[k]]
      BY <2>2 DEF IsSeq
    <2> QED
      BY <2>1, <2>3, <2>4 DEF x, y
  <1>10. Len(n.provAttrs) = p + r
    BY <1>2, <1>4
  <1> QED
    BY <1>7, <1>8, <1>9, <1>10 DEF m, p, q, r

\* The first m positions, then q from m + p on.
Reorders(e, m, p, q) == (\A k \in 1 .. m : e[k] = k) /\ \A k \in 1 .. q : e[m + k] = m + p + k

LEMMA InOrderFacts ==
    ASSUME NEW m \in Nat, NEW p \in Nat, NEW q \in Nat, NEW r \in Nat
    PROVE  LET e == InOrder(m, p, q, r)
           IN  /\ e \in Seq(0 .. m + p + q + r) /\ Len(e) = (m + q) + (p + r)
               /\ Reorders(e, m, p, q)
  <1> DEFINE f == 0
             l == m + p
             o == m + p + q
             w == m + p + q + r
             t == Ranges(f, m, l, q)
             v == Ranges(m, p, o, r)
             W == 0 .. w
  <1>1. f \in Nat /\ l \in Nat /\ o \in Nat /\ f + m <= l /\ m + p <= o /\ w \in Nat
        /\ f + m = m /\ f + 1 = 1 /\ l + q <= w /\ o + r <= w
    OBVIOUS
  <1>2. InOrder(m, p, q, r) = t \o v
    BY <1>1 DEF InOrder
  <1>3. \A k \in 1 .. m : f + k = k
    OBVIOUS
  <1> HIDE DEF f, l, o, w
  <1>10. RangesOk(t, f, m, l, q) /\ RangesOk(v, m, p, o, r)
    BY <1>1, TwoRanges
  <1>4. /\ t \in Seq(1 .. l + q) /\ Len(t) = m + q
        /\ \A k \in 1 .. m : t[k] = f + k
        /\ \A k \in 1 .. q : t[m + k] = l + k
    BY <1>10 DEF RangesOk
  <1>5. v \in Seq(1 .. o + r) /\ Len(v) = p + r
    BY <1>10 DEF RangesOk
  <1> HIDE DEF t, v, W
  <1>6. t \in Seq(W) /\ v \in Seq(W)
    <2>1. l + q \in Nat /\ o + r \in Nat
      BY <1>1
    <2> DEFINE x == l + q
               y == o + r
    <2>2. x \in Nat /\ x <= w /\ t \in Seq(1 .. x) /\ y \in Nat /\ y <= w /\ v \in Seq(1 .. y)
      BY <1>1, <1>4, <1>5, <2>1
    <2> HIDE DEF x, y
    <2>3. t \in Seq(0 .. w) /\ v \in Seq(0 .. w)
      BY <1>1, <2>2, WiderPositions
    <2> QED
      BY <2>3 DEF W
  <1> DEFINE e == t \o v
  <1>7. e \in Seq(W) /\ Len(e) = Len(t) + Len(v) /\ \A k \in 1 .. Len(t) : e[k] = t[k]
    BY <1>6, ConcatFacts
  <1> HIDE DEF e
  <1>8. \A k \in 1 .. m : e[k] = k
    <2>1. \A k \in 1 .. m : k \in 1 .. Len(t)
      BY <1>4
    <2> QED
      BY <1>3, <1>4, <1>7, <2>1
  <1>9. \A k \in 1 .. q : e[m + k] = l + k
    <2>1. \A k \in 1 .. q : m + k \in 1 .. Len(t)
      BY <1>4
    <2> QED
      BY <1>4, <1>7, <2>1
  <1> QED
    BY <1>2, <1>4, <1>5, <1>7, <1>8, <1>9 DEF Reorders, e, l, w, W

\* The rows of rel are those of orel in u columns that exprs picks.
Imaged(rel, orel, exprs, u) ==
    /\ \A x \in ToSet(rel) : HasImage(orel, exprs, u, x)
    /\ \A y \in ToSet(orel) : HasSource(rel, exprs, u, y)

LEMMA ReorderNode ==
    ASSUME NEW g, GraphOk(g), NEW j,
           NEW a, NEW b, NEW c, NEW d, Mixed(j, a, b, c, d),
           NEW x \in DOMAIN g, g[x] = j, NEW p,
           p = Projection(g, x, NormalPos(j) \o j.provAttrs, << >>),
           NEW m, m = addProvenanceAttrsToSchema(addNormalAttrsToSchema(p, j), j)
    PROVE  /\ Parts(m, a \o c, b \o d) /\ NodeOk(g, m) /\ IsNewNode(g, m)
           /\ m.rel = Project(j.rel, InOrder(Len(a), Len(b), Len(c), Len(d)))
           /\ Len(InOrder(Len(a), Len(b), Len(c), Len(d))) = Len(a \o c) + Len(b \o d)
  <1> DEFINE ac == a \o c
             bd == b \o d
             e == InOrder(Len(a), Len(b), Len(c), Len(d))
             q == addNormalAttrsToSchema(p, j)
             w == Len(a) + Len(b) + Len(c) + Len(d)
  <1>1. /\ NormalPos(j) \o j.provAttrs = e /\ NormalNames(j) = ac /\ ProvNames(j) = bd
        /\ Len(j.provAttrs) = Len(b) + Len(d)
    BY MixedNames, SMTT(30)
  <1>2. /\ Len(a) \in Nat /\ Len(b) \in Nat /\ Len(c) \in Nat /\ Len(d) \in Nat
        /\ j.rel \in Relations(w)
    BY MixedSchema
  <1>3. /\ ac \in Seq(NodeNames) /\ bd \in Seq(NodeNames)
        /\ Len(ac) = Len(a) + Len(c) /\ Len(bd) = Len(b) + Len(d)
    <2>1. /\ a \in Seq(NodeNames) /\ b \in Seq(NodeNames)
          /\ c \in Seq(NodeNames) /\ d \in Seq(NodeNames)
      BY DEF Mixed
    <2>2. ac \in Seq(NodeNames) /\ Len(ac) = Len(a) + Len(c)
      BY <2>1, ConcatFacts
    <2>3. bd \in Seq(NodeNames) /\ Len(bd) = Len(b) + Len(d)
      BY <2>1, ConcatFacts
    <2> HIDE DEF ac, bd
    <2> QED
      BY <2>2, <2>3
  <1>4. e \in Seq(0 .. w) /\ Len(e) = (Len(a) + Len(c)) + (Len(b) + Len(d)) /\ w \in Nat
    <2> DEFINE la == Len(a)
               lb == Len(b)
               lc == Len(c)
               ld == Len(d)
    <2>1. la \in Nat /\ lb \in Nat /\ lc \in Nat /\ ld \in Nat
      BY <1>2
    <2> HIDE DEF la, lb, lc, ld
    <2>2. /\ InOrder(la, lb, lc, ld) \in Seq(0 .. la + lb + lc + ld)
          /\ Len(InOrder(la, lb, lc, ld)) = (la + lc) + (lb + ld)
      BY <2>1, InOrderFacts
    <2>3. la + lb + lc + ld \in Nat
      BY <2>1
    <2> QED
      BY <2>2, <2>3 DEF la, lb, lc, ld
  <1>5. e \in Seq(0 .. w) /\ Len(e) = Len(ac) + Len(bd) /\ IsSeq(ac) /\ w \in Nat
    BY <1>3, <1>4, SeqIsSeq
  <1> HIDE DEF ac, bd, e, w
  <1>6. /\ DOMAIN p = NodeFields /\ p.type = "Projection" /\ p.schema = << >>
        /\ p.width = Len(e) /\ p.rel = Project(j.rel, e) /\ p.provAttrs = << >>
        /\ IsNewNode(g, p)
    <2> DEFINE s == << >>
    <2>1. p = Projection(g, x, e, s) /\ g[x].rel = j.rel
      BY <1>1
    <2> HIDE DEF s
    <2>2. /\ DOMAIN p = NodeFields /\ p.type = "Projection" /\ p.schema = s
          /\ p.width = Len(e) /\ p.rel = Project(j.rel, e) /\ p.provAttrs = << >>
      BY <2>1, ProjectionNode
    <2>3. IsNewNode(g, p)
      BY <2>1, NewProjection
    <2> QED
      BY <2>2, <2>3 DEF s
  <1>7. /\ DOMAIN q = NodeFields /\ q.type = "Projection" /\ q.schema = ac
        /\ q.width = Len(e) /\ q.rel = Project(j.rel, e) /\ q.provAttrs = << >>
        /\ IsNewNode(g, q)
    <2>1. q = addNormalAttrsToSchema(p, j)
      OBVIOUS
    <2>2. IsNewNode(g, q)
      BY <1>6, AddedAttrsNode
    <2> HIDE DEF q
    <2>3. Renewed(q, p, p.schema \o ac, p.provAttrs)
      BY <1>1, <1>6, <2>1, AddedNormal
    <2>4. << >> \o ac = ac
      BY <1>5, EmptyConcat
    <2> QED
      BY <1>6, <2>2, <2>3, <2>4 DEF Renewed
  <1>8. m = addProvenanceAttrsToSchema(q, j)
    OBVIOUS
  <1> HIDE DEF q
  <1>9. Project(j.rel, e) \in Relations(Len(e))
    BY <1>2, <1>5, ProjectFacts
  <1>10. /\ q.schema \in Seq(NodeNames) /\ ProvNames(j) \in Seq(NodeNames)
         /\ Len(j.provAttrs) = Len(ProvNames(j))
         /\ q.width = Len(q.schema) + Len(ProvNames(j)) /\ q.rel \in Relations(q.width)
    BY <1>1, <1>3, <1>5, <1>7, <1>9
  <1>11. DOMAIN q = NodeFields /\ q.provAttrs = << >> /\ IsNewNode(g, q)
    BY <1>7
  <1>12. /\ Parts(m, q.schema, ProvNames(j)) /\ m.type = q.type /\ m.rel = q.rel
         /\ IsSeq(m.schema) /\ m.width = Len(m.schema)
    BY <1>8, <1>10, <1>11, PartsAdded
  <1>13. NodeOk(g, m)
    BY <1>7, <1>12 DEF NodeOk
  <1>14. IsNewNode(g, m)
    BY <1>8, <1>11, AddedAttrsNode
  <1> QED
    BY <1>1, <1>5, <1>7, <1>12, <1>13, <1>14 DEF ac, bd, e

LEMMA ReorderResult ==
    ASSUME NEW g, GraphOk(g), NodesOk(g), NEW j, IsNewNode(g, j), j.type = "Join",
           NEW a, NEW b, NEW c, NEW d, Mixed(j, a, b, c, d),
           NEW o, o.rel \in Relations(Len(o.schema)), Len(o.schema) \in Nat,
           Fits(a \o c, o), b \o d \in Seq(ProvAttrNames),
           NEW info, IsSeq(info), NEW h, h = ReorderAttrs(Attach(g, j)),
           NEW k, k = WithInfo(h, info)
    PROVE  /\ Result(h, o, b \o d) /\ Result(k, o, b \o d)
           /\ Imaged(j.rel, o.rel, InOrder(Len(a), Len(b), Len(c), Len(d)), Len(o.schema)) =>
                SameRows(h[Len(h)], o) /\ SameRows(k[Len(k)], o)
  <1> DEFINE t == Attach(g, j)
             p == Projection(t, Len(t), NormalPos(j) \o j.provAttrs, << >>)
             m == addProvenanceAttrsToSchema(addNormalAttrsToSchema(p, j), j)
             e == InOrder(Len(a), Len(b), Len(c), Len(d))
             w == Len(a) + Len(b) + Len(c) + Len(d)
             u == Len(o.schema)
             ac == a \o c
             bd == b \o d
  <1>1. NodeOk(g, j)
    <2>1. IsSeq(j.schema) /\ j.width = Len(j.schema)
      BY MixedSchema
    <2> QED
      BY <2>1 DEF NodeOk
  <1>2. Grown(g, t, j)
    BY Grows
  <1>3. GraphOk(t) /\ NodesOk(t) /\ Len(t) \in DOMAIN t /\ t[Len(t)] = j
    BY <1>1, <1>2 DEF Grown
  <1>4. h = Attach(t, m)
    BY <1>3 DEF ReorderAttrs
  <1> HIDE DEF t
  <1>5. /\ Parts(m, ac, bd) /\ NodeOk(t, m) /\ IsNewNode(t, m) /\ m.rel = Project(j.rel, e)
        /\ Len(e) = Len(ac) + Len(bd)
    <2>1. p = Projection(t, Len(t), NormalPos(j) \o j.provAttrs, << >>)
      OBVIOUS
    <2>2. m = addProvenanceAttrsToSchema(addNormalAttrsToSchema(p, j), j)
      OBVIOUS
    <2> HIDE DEF p, m
    <2> QED
      BY <1>3, <2>1, <2>2, ReorderNode
  <1> HIDE DEF m, ac, bd, e
  <1>6. /\ Result(h, o, bd) /\ Result(k, o, bd)
        /\ Matched(m.rel, o.rel, Len(o.schema)) =>
             SameRows(h[Len(h)], o) /\ SameRows(k[Len(k)], o)
    <2>1. Fits(ac, o) /\ bd \in Seq(ProvAttrNames)
      BY DEF ac, bd
    <2> QED
      BY <1>3, <1>4, <1>5, <2>1, NewResult
  <1>7. ASSUME Imaged(j.rel, o.rel, e, u) PROVE Matched(m.rel, o.rel, u)
    <2>1. w \in Nat /\ j.rel \in Relations(w)
      BY MixedSchema
    <2>2. e \in Seq(0 .. w)
      <3>1. Len(a) \in Nat /\ Len(b) \in Nat /\ Len(c) \in Nat /\ Len(d) \in Nat
        BY MixedSchema
      <3> QED
        BY <3>1, InOrderFacts DEF e
    <2>3. u <= Len(e) /\ u \in Nat
      <3>1. u <= Len(ac) /\ ac \in Seq(AttrNames) /\ bd \in Seq(ProvAttrNames)
        BY DEF Fits, ac, bd
      <3>2. Len(ac) \in Nat /\ Len(bd) \in Nat
        BY <3>1, SeqIsSeq
      <3> QED
        BY <1>5, <3>1, <3>2
    <2> HIDE DEF w, u
    <2>4. Matched(Project(j.rel, e), o.rel, u)
      BY <1>7, <2>1, <2>2, <2>3, ProjectMatched DEF Imaged
    <2> QED
      BY <1>5, <2>4
  <1> QED
    BY <1>6, <1>7 DEF bd, e

\* The rows of a join and of a set operator, from those of its inputs.
JoinOp(o, l, r) ==
    /\ o.rel = JoinOn(o.how, l.rel, r.rel, Len(r.schema), On(<< o.pos[1] >>, << o.pos[2] >>, FALSE))
    /\ o.pos[1] \in 1 .. Len(l.schema) /\ o.pos[2] \in 1 .. Len(r.schema)
    /\ o.rightWidth = Len(r.schema) /\ Len(o.schema) = Len(l.schema) + Len(r.schema)
\* The same for a set operator.
SetOp(o, l, r) ==
    /\ Len(l.schema) = Len(r.schema) /\ o.schema = l.schema
    /\ o.how = "UNION" => o.rel = l.rel \o r.rel
    /\ o.how = "INTERSECTION" => o.rel = IntersectAll(l.rel, r.rel)
    /\ o.how = "DIFFERENCE" => o.rel = ExceptAll(l.rel, r.rel)

LEMMA BinaryRows ==
    ASSUME NEW q, NEW o, InputsOk(q, o), DataOk(q, o)
    PROVE  /\ o.type = "Join" => JoinOp(o, q[o.in[1]], q[o.in[2]])
           /\ o.type = "Set" => SetOp(o, q[o.in[1]], q[o.in[2]])
  <1> DEFINE ins == [k \in DOMAIN o.in |-> q[o.in[k]].rel]
             l == q[o.in[1]]
             r == q[o.in[2]]
  <1>1. ASSUME o.type \in {"Join", "Set"} PROVE ins[1] = l.rel /\ ins[2] = r.rel
    <2>1. DOMAIN o.in = {1, 2}
      BY <1>1, InputsAreThere
    <2> QED
      BY <2>1
  <1>2. o.rel = Eval(o, ins, db)
    BY DEF DataOk
  <1> HIDE DEF ins
  <1>3. Width(q, o.in[1]) = Len(l.schema) /\ Width(q, o.in[2]) = Len(r.schema)
    BY DEF Width
  <1>4. CASE o.type = "Join"
    <2>1. /\ o.pos \in (1 .. Len(l.schema)) \X (1 .. Len(r.schema))
          /\ o.rightWidth = Len(r.schema) /\ Len(o.schema) = Len(l.schema) + Len(r.schema)
      BY <1>3, <1>4 DEF DataOk, PosOk, SchemaOk
    <2>2. o.rel = JoinOn(o.how, l.rel, r.rel, o.rightWidth,
                         On(<< o.pos[1] >>, << o.pos[2] >>, FALSE))
      BY <1>1, <1>2, <1>4 DEF Eval
    <2> QED
      BY <1>4, <2>1, <2>2 DEF JoinOp
  <1>5. CASE o.type = "Set"
    <2>1. Len(l.schema) = Len(r.schema) /\ o.schema = l.schema
      BY <1>3, <1>5 DEF DataOk, PosOk, SchemaOk
    <2>2. /\ o.how = "UNION" => o.rel = l.rel \o r.rel
          /\ o.how = "INTERSECTION" => o.rel = IntersectAll(l.rel, r.rel)
          /\ o.how = "DIFFERENCE" => o.rel = ExceptAll(l.rel, r.rel)
      BY <1>1, <1>2, <1>5 DEF Eval
    <2> QED
      BY <1>5, <2>1, <2>2 DEF SetOp
  <1> QED
    BY <1>4, <1>5

\* What createJoinOp fills in.
JoinIs(n, g, joinType, l, r, on) ==
    /\ DOMAIN n = NodeFields /\ n.type = "Join" /\ n.provAttrs = << >>
    /\ n.inputs = << l, r >> /\ n.schema = g[l].schema \o g[r].schema
    /\ n.width = g[l].width + g[r].width
    /\ n.rel = JoinOn(joinType, g[l].rel, g[r].rel, g[r].width, on)
    /\ IsNewNode(g, n)

LEMMA JoinNode ==
    ASSUME NEW g, NEW joinType, NEW l \in DOMAIN g, NEW r \in DOMAIN g, NEW on
    PROVE  JoinIs(Join(g, joinType, l, r, on), g, joinType, l, r, on)
  <1> DEFINE n == Join(g, joinType, l, r, on)
             in == << l, r >>
             s == g[l].schema \o g[r].schema
             w == g[l].width + g[r].width
             rel == JoinOn(joinType, g[l].rel, g[r].rel, g[r].width, on)
  <1>1. n = Node("Join", in, s, w, rel)
    BY DEF Join, createJoinOp
  <1>2. IsNewNode(g, n)
    BY NewJoin
  <1> HIDE DEF n, in, s, w, rel
  <1>3. /\ DOMAIN n = NodeFields /\ n.type = "Join" /\ n.provAttrs = << >>
        /\ n.inputs = in /\ n.schema = s /\ n.width = w /\ n.rel = rel
    BY <1>1, NodeRecord
  <1>4. JoinIs(n, g, joinType, l, r, on)
    BY <1>2, <1>3 DEF JoinIs, in, s, w, rel
  <1> QED
    BY <1>4 DEF n

\* A join node with the attributes a and the provenance of l, c and that of r.
LEMMA MixedNode ==
    ASSUME NEW g, NEW n, IsNewNode(g, n), n.provAttrs = << >>, n.schema \in Seq(NodeNames),
           NEW l, ProvNames(l) \in Seq(NodeNames), Len(l.provAttrs) = Len(ProvNames(l)),
           NEW left, left = addProvenanceAttrsToSchema(n, l),
           NEW c \in Seq(NodeNames), NEW mid, IsNewNode(g, mid),
           Renewed(mid, left, left.schema \o c, left.provAttrs),
           NEW r, ProvNames(r) \in Seq(NodeNames), Len(r.provAttrs) = Len(ProvNames(r)),
           NEW m, m = addProvenanceAttrsToSchema(mid, r),
           NEW w, w = Len(n.schema) + Len(ProvNames(l)) + Len(c) + Len(ProvNames(r)),
           n.width = w, n.rel \in Relations(w)
    PROVE  /\ Mixed(m, n.schema, ProvNames(l), c, ProvNames(r))
           /\ m.type = n.type /\ m.inputs = n.inputs /\ m.rel = n.rel /\ IsNewNode(g, m)
  <1> DEFINE a == n.schema
             b == ProvNames(l)
             d == ProvNames(r)
             v == IntSeq(Len(a) + 1, Len(a) + Len(b))
             ab == a \o b
             abc == ab \o c
             o == Len(a) + Len(b) + Len(c)
             z == IntSeq(o + 1, o + Len(d))
  <1>1. a \in Seq(NodeNames) /\ b \in Seq(NodeNames) /\ d \in Seq(NodeNames)
    OBVIOUS
  <1>2. /\ IsSeq(a) /\ IsSeq(b) /\ IsSeq(c) /\ IsSeq(d)
        /\ Len(a) \in Nat /\ Len(b) \in Nat /\ Len(c) \in Nat /\ Len(d) \in Nat
    <2> HIDE DEF a, b, d
    <2> QED
      BY <1>1, SeqIsSeq
  <1>3. DOMAIN n = NodeFields /\ DOMAIN mid = NodeFields
    BY DEF IsNewNode
  <1>4. Renewed(left, n, ab, << >> \o v)
    BY <1>3, AddedProv
  <1>5. << >> \o v = v
    <2>1. IsSeq(v)
      BY <1>2, IntSeqFacts
    <2> HIDE DEF v
    <2> QED
      BY <2>1, EmptyConcat
  <1>6. Renewed(left, n, ab, v)
    BY <1>4, <1>5
  <1>7. Len(abc) = o
    <2> HIDE DEF a, b
    <2>1. IsSeq(ab) /\ Len(ab) = Len(a) + Len(b)
      BY <1>2, ConcatSeq
    <2> HIDE DEF ab
    <2>2. Len(abc) = Len(ab) + Len(c)
      BY <1>2, <2>1, ConcatSeq
    <2> QED
      BY <2>1, <2>2
  <1> HIDE DEF a, b, d, v, ab
  <1>8. Renewed(mid, n, abc, v)
    BY <1>6 DEF Renewed
  <1> HIDE DEF abc, o
  <1>9. Renewed(m, mid, mid.schema \o d, mid.provAttrs \o IntSeq(Len(mid.schema) + 1, Len(mid.schema) + Len(d)))
    BY <1>3, AddedProv DEF d
  <1>10. /\ mid.schema = abc /\ mid.provAttrs = v /\ mid.type = n.type /\ mid.inputs = n.inputs
         /\ mid.width = n.width /\ mid.rel = n.rel
    BY <1>8 DEF Renewed
  <1>11. Renewed(m, n, abc \o d, v \o z)
    BY <1>7, <1>9, <1>10 DEF Renewed
  <1>12. v \o z = Ranges(Len(a), Len(b), Len(a) + Len(b) + Len(c), Len(d))
    BY DEF Ranges, v, o
  <1>13. IsNewNode(g, m)
    BY AddedAttrsNode
  <1>14. w = Len(a) + Len(b) + Len(c) + Len(d)
    BY DEF a, b, d
  <1>15. /\ m.schema = abc \o d /\ m.provAttrs = v \o z /\ m.type = n.type
         /\ m.inputs = n.inputs /\ m.width = n.width /\ m.rel = n.rel
    BY <1>11 DEF Renewed
  <1>16. Mixed(m, a, b, c, d)
    BY <1>1, <1>12, <1>14, <1>15 DEF Mixed, abc, ab
  <1> QED
    BY <1>13, <1>15, <1>16 DEF a, b, d

\* A list cut in two.
Halves(s, m, a, b, S) ==
    /\ a \in Seq(S) /\ b \in Seq(S) /\ Len(a) = m /\ Len(b) = Len(s) - m /\ a \o b = s

\* List t is a and then b.
Concat(a, b, t) ==
    /\ IsSeq(t) /\ Len(t) = Len(a) + Len(b) /\ \A k \in 1 .. Len(a) : t[k] = a[k]
    /\ \A k \in 1 .. Len(b) : t[Len(a) + k] = b[k]

LEMMA Concats ==
    ASSUME NEW a, NEW b, IsSeq(a), IsSeq(b)
    PROVE  Concat(a, b, a \o b)
  BY ConcatSeq DEF Concat

LEMMA CutInTwo ==
    ASSUME NEW S, NEW s \in Seq(S), NEW m \in Nat, m <= Len(s),
           NEW a, a = SubSeq(s, 1, m), NEW b, b = SubSeq(s, m + 1, Len(s))
    PROVE  Halves(s, m, a, b, S)
  <1>1. a \in Seq(S) /\ Len(a) = m /\ \A k \in 1 .. m : a[k] = s[k]
    OBVIOUS
  <1>2. b \in Seq(S) /\ Len(b) = Len(s) - m /\ \A k \in 1 .. Len(s) - m : b[k] = s[m + k]
    OBVIOUS
  <1>3. IsSeq(s) /\ Len(s) \in Nat
    BY SeqIsSeq
  <1> DEFINE t == a \o b
             n == Len(s)
             p == n - m
  <1>4. p \in Nat /\ m + p = n
    BY <1>3
  <1>5. /\ IsSeq(t) /\ Len(t) = m + p /\ \A k \in 1 .. m : t[k] = a[k]
        /\ \A k \in 1 .. p : t[m + k] = b[k]
    <2>1. IsSeq(a) /\ IsSeq(b)
      BY <1>1, <1>2, SeqIsSeq
    <2>2. Len(a) = m /\ Len(b) = p
      BY <1>1, <1>2
    <2>3. Concat(a, b, t)
      BY <2>1, Concats
    <2> HIDE DEF p, n, t
    <2> QED
      BY <2>2, <2>3 DEF Concat
  <1> HIDE DEF t, n, p
  <1>6. \A k \in 1 .. n : t[k] = s[k]
    <2> SUFFICES ASSUME NEW k \in 1 .. n PROVE t[k] = s[k]
      OBVIOUS
    <2>1. CASE k \in 1 .. m
      BY <1>1, <1>5, <2>1
    <2>2. CASE k - m \in 1 .. p /\ m + (k - m) = k
      <3>1. t[m + (k - m)] = b[k - m] /\ b[k - m] = s[m + (k - m)]
        BY <1>2, <1>5, <2>2 DEF p, n
      <3> QED
        BY <2>2, <3>1
    <2> QED
      BY <1>4, <2>1, <2>2, SplitPos
  <1>7. Len(t) = n /\ Len(s) = n
    BY <1>4, <1>5 DEF n
  <1>8. t = s
    BY <1>3, <1>5, <1>6, <1>7, SameSeq
  <1> QED
    BY <1>1, <1>2, <1>8 DEF Halves, t

\* What InputIs says of the node.
LEMMA InputNames ==
    ASSUME NEW c, NEW i, NEW a, NEW b, InputIs(c, i, a, b)
    PROVE  /\ b \in Seq(ProvAttrNames) /\ b \in Seq(NodeNames) /\ ProvNames(c) = b
           /\ Len(c.provAttrs) = Len(b)
  <1>1. Parts(c, a, b) /\ a \in Seq(AttrNames) /\ b \in Seq(ProvAttrNames)
    BY DEF InputIs
  <1>2. ProvNames(c) = b /\ Len(c.provAttrs) = Len(b) /\ b \in Seq(NodeNames)
    BY <1>1, NamesOfParts
  <1> QED
    BY <1>1, <1>2

LEMMA InputWidth ==
    ASSUME NEW c, NEW i, NEW a, NEW b, InputIs(c, i, a, b)
    PROVE  /\ Len(a) \in Nat /\ Len(b) \in Nat
           /\ c.width = Len(a) + Len(b) /\ c.rel \in Relations(Len(a) + Len(b))
  <1>1. Parts(c, a, b) /\ a \in Seq(AttrNames) /\ b \in Seq(ProvAttrNames)
    BY DEF InputIs
  <1>2. Len(a) \in Nat /\ Len(b) \in Nat
    BY <1>1, SeqIsSeq
  <1>3. c.width = Len(a) + Len(b) /\ c.rel \in Relations(Len(a) + Len(b))
    BY <1>1 DEF Parts
  <1> QED
    BY <1>2, <1>3

\* The columns that a rewritten join compares.
JoinOf(o, l, r) == JoinOn(o.how, l.rel, r.rel, r.width, On(<< o.pos[1] >>, << o.pos[2] >>, FALSE))

LEMMA JoinResult ==
    ASSUME NEW g, GraphOk(g), NodesOk(g), NEW o, InputsOk(query, o), DataOk(query, o),
           o.type = "Join", NEW x \in DOMAIN g, NEW y \in DOMAIN g, NEW ins, ins = << x, y >>,
           NEW i, i = query[o.in[1]], NEW b, InputIs(g[x], i, i.schema, b),
           NEW j, j = query[o.in[2]], NEW d, InputIs(g[y], j, j.schema, d),
           NEW h, h = rewriteJoin(g, o, ins)
    PROVE  /\ Result(h, o, b \o d)
           /\ Imaged(JoinOf(o, g[x], g[y]), o.rel,
                     InOrder(Len(i.schema), Len(b), Len(j.schema), Len(d)), Len(o.schema)) =>
                SameRows(h[Len(h)], o)
  <1> DEFINE l == g[x]
             r == g[y]
             la == Len(i.schema)
             lc == Len(j.schema)
             s == o.schema
             on == On(<< o.pos[1] >>, << o.pos[2] >>, FALSE)
             a == SubSeq(s, 1, la)
             c == SubSeq(s, la + 1, Len(s))
             n == Join(g, o.how, x, y, on)
             n1 == [n EXCEPT !.schema = a]
             left == addProvenanceAttrsToSchema(n1, l)
             mid == [left EXCEPT !.schema = left.schema \o c]
             m == addProvenanceAttrsToSchema(mid, r)
             info == l.info \o r.info
             w == la + Len(b) + lc + Len(d)
             rel == JoinOf(o, l, r)
  <1>1. o.rightWidth = lc /\ Len(s) = la + lc
    <2> HIDE DEF l, r, a, c, n, n1, left, mid, m, info, w, rel, la, lc, s
    <2>1. JoinOp(o, query[o.in[1]], query[o.in[2]])
      BY BinaryRows
    <2> QED
      BY <2>1 DEF JoinOp, la, lc, s
  <1>2. s \in Seq(AttrNames) /\ o.rel \in Relations(Len(s)) /\ Len(s) \in Nat
    BY SchemaFacts
  <1>3. /\ b \in Seq(ProvAttrNames) /\ b \in Seq(NodeNames) /\ ProvNames(l) = b
        /\ Len(l.provAttrs) = Len(b) /\ la \in Nat /\ Len(b) \in Nat
        /\ l.width = la + Len(b) /\ l.rel \in Relations(la + Len(b))
    <2> HIDE DEF l, r, a, c, n, n1, left, mid, m, info, w, rel, s
    <2>1. InputIs(l, i, i.schema, b)
      BY DEF l
    <2>2. /\ b \in Seq(ProvAttrNames) /\ b \in Seq(NodeNames) /\ ProvNames(l) = b
          /\ Len(l.provAttrs) = Len(b)
      BY <2>1, InputNames
    <2>3. /\ Len(i.schema) \in Nat /\ Len(b) \in Nat /\ l.width = Len(i.schema) + Len(b)
          /\ l.rel \in Relations(Len(i.schema) + Len(b))
      BY <2>1, InputWidth
    <2> QED
      BY <2>2, <2>3
  <1>4. /\ d \in Seq(ProvAttrNames) /\ d \in Seq(NodeNames) /\ ProvNames(r) = d
        /\ Len(r.provAttrs) = Len(d) /\ lc \in Nat /\ Len(d) \in Nat
        /\ r.width = lc + Len(d) /\ r.rel \in Relations(lc + Len(d))
    <2> HIDE DEF l, r, a, c, n, n1, left, mid, m, info, w, rel, s
    <2>1. InputIs(r, j, j.schema, d)
      BY DEF r
    <2>2. /\ d \in Seq(ProvAttrNames) /\ d \in Seq(NodeNames) /\ ProvNames(r) = d
          /\ Len(r.provAttrs) = Len(d)
      BY <2>1, InputNames
    <2>3. /\ Len(j.schema) \in Nat /\ Len(d) \in Nat /\ r.width = Len(j.schema) + Len(d)
          /\ r.rel \in Relations(Len(j.schema) + Len(d))
      BY <2>1, InputWidth
    <2> QED
      BY <2>2, <2>3
  <1>5. Len(s) - o.rightWidth = la
    BY <1>1, <1>3, <1>4
  <1>6. h = WithInfo(ReorderAttrs(Attach(g, m)), info)
    BY <1>5 DEF rewriteJoin
  <1>7. Halves(s, la, a, c, AttrNames)
    <2>1. la <= Len(s)
      <3>1. Len(s) = la + lc /\ la \in Nat /\ lc \in Nat
        BY <1>1, <1>3, <1>4
      <3> HIDE DEF la, lc, s
      <3> QED
        BY <3>1
    <2>2. la \in Nat /\ s \in Seq(AttrNames)
      BY <1>2, <1>3
    <2>3. a = SubSeq(s, 1, la) /\ c = SubSeq(s, la + 1, Len(s))
      OBVIOUS
    <2> HIDE DEF la, s, a, c
    <2> QED
      BY <2>1, <2>2, <2>3, CutInTwo
  <1> HIDE DEF a, c, la, lc, s, l, r
  <1>8. a \in Seq(AttrNames) /\ c \in Seq(AttrNames) /\ Len(a) = la /\ Len(c) = lc /\ a \o c = s
    <2>1. Len(s) - la = lc
      BY <1>1, <1>3, <1>4
    <2> QED
      BY <1>7, <2>1 DEF Halves
  <1>9. a \in Seq(NodeNames) /\ c \in Seq(NodeNames)
    BY <1>8, NameSets, SeqWider
  <1>10. /\ DOMAIN n = NodeFields /\ n.type = "Join" /\ n.provAttrs = << >>
         /\ n.width = l.width + r.width /\ n.rel = rel /\ IsNewNode(g, n)
    <2>1. n = Join(g, o.how, x, y, on)
      OBVIOUS
    <2> HIDE DEF n, on
    <2>2. JoinIs(n, g, o.how, x, y, on)
      BY <2>1, JoinNode
    <2> QED
      BY <2>2 DEF JoinIs, l, r, JoinOf, on
  <1>11. rel \in Relations(w) /\ n.width = w
    <2> DEFINE p == la + Len(b)
               q == lc + Len(d)
    <2>1. p \in Nat /\ q \in Nat /\ l.rel \in Relations(p) /\ r.rel \in Relations(q) /\ r.width = q
      BY <1>3, <1>4
    <2>2. w = p + q
      BY <1>3, <1>4
    <2>4. l.width = p
      BY <1>3
    <2> HIDE DEF p, q, w
    <2>3. JoinOn(o.how, l.rel, r.rel, q, on) \in Relations(p + q)
      BY <2>1, JoinFacts
    <2> QED
      BY <1>10, <2>1, <2>2, <2>3, <2>4 DEF JoinOf, on
  <1> HIDE DEF n, rel, w
  <1>12. Renewed(n1, n, a, n.provAttrs) /\ IsNewNode(g, n1)
    <2>1. Renewed(n1, n, a, n.provAttrs)
      BY <1>10, NodeChanges
    <2>2. IsNewNode(g, n1)
      BY <1>10 DEF IsNewNode, NodeFields
    <2> QED
      BY <2>1, <2>2
  <1> HIDE DEF n1
  <1>13. IsNewNode(g, left)
    BY <1>12, AddedAttrsNode
  <1> HIDE DEF left
  <1>14. Renewed(mid, left, left.schema \o c, left.provAttrs) /\ IsNewNode(g, mid)
    <2>1. DOMAIN left = NodeFields
      BY <1>13 DEF IsNewNode
    <2>2. Renewed(mid, left, left.schema \o c, left.provAttrs)
      BY <2>1, NodeChanges
    <2>3. IsNewNode(g, mid)
      BY <1>13 DEF IsNewNode, NodeFields
    <2> QED
      BY <2>2, <2>3
  <1> HIDE DEF mid
  <1>15. /\ n1.provAttrs = << >> /\ n1.schema = a /\ n1.width = w /\ n1.rel = rel
         /\ n1.type = "Join"
    BY <1>10, <1>11, <1>12 DEF Renewed
  <1>16. Mixed(m, a, b, c, d) /\ m.type = "Join" /\ m.rel = rel /\ IsNewNode(g, m)
    <2>1. left = addProvenanceAttrsToSchema(n1, l) /\ m = addProvenanceAttrsToSchema(mid, r)
      BY DEF left
    <2>2. w = Len(n1.schema) + Len(ProvNames(l)) + Len(c) + Len(ProvNames(r))
      BY <1>3, <1>4, <1>8, <1>15 DEF w
    <2>3. n1.schema \in Seq(NodeNames) /\ n1.provAttrs = << >> /\ n1.width = w /\ n1.rel \in Relations(w)
      BY <1>9, <1>11, <1>15
    <2>4. ProvNames(l) \in Seq(NodeNames) /\ Len(l.provAttrs) = Len(ProvNames(l))
      BY <1>3
    <2>5. ProvNames(r) \in Seq(NodeNames) /\ Len(r.provAttrs) = Len(ProvNames(r))
      BY <1>4
    <2> HIDE DEF m
    <2>6. /\ Mixed(m, n1.schema, ProvNames(l), c, ProvNames(r))
          /\ m.type = n1.type /\ m.rel = n1.rel /\ IsNewNode(g, m)
      BY <1>9, <1>12, <1>14, <2>1, <2>2, <2>3, <2>4, <2>5, MixedNode
    <2> QED
      BY <1>3, <1>4, <1>15, <2>6
  <1> HIDE DEF m
  <1>17. Fits(a \o c, o)
    BY <1>2, <1>8 DEF Fits, s
  <1>18. b \o d \in Seq(ProvAttrNames)
    BY <1>3, <1>4, ConcatFacts
  <1>19. IsSeq(info)
    <2>1. IsSeq(l.info) /\ IsSeq(r.info)
      BY DEF GraphOk, IsNode, l, r
    <2> QED
      BY <2>1, ConcatSeq
  <1> HIDE DEF info
  <1>20. /\ Result(h, o, b \o d)
         /\ Imaged(m.rel, o.rel, InOrder(Len(a), Len(b), Len(c), Len(d)), Len(o.schema)) =>
              SameRows(h[Len(h)], o)
    <2> DEFINE h0 == ReorderAttrs(Attach(g, m))
    <2>1. h0 = ReorderAttrs(Attach(g, m)) /\ h = WithInfo(h0, info)
      BY <1>6
    <2>2. Len(o.schema) \in Nat /\ o.rel \in Relations(Len(o.schema))
      BY <1>2 DEF s
    <2> HIDE DEF h0
    <2> QED
      BY <1>16, <1>17, <1>18, <1>19, <2>1, <2>2, ReorderResult
  <1> QED
    BY <1>8, <1>16, <1>20 DEF la, lc, l, r, rel

\* A join condition on the first m1 columns and the first m2 ones.
OnWithin(on, m1, m2) ==
    \A k \in DOMAIN on.left : on.left[k] \in 1 .. m1 /\ on.right[k] \in 1 .. m2

LEMMA SatisfiedAlike ==
    ASSUME NEW on, NEW m1, NEW m2, OnWithin(on, m1, m2), NEW x, NEW y, NEW x2, NEW y2,
           Agree(m1, x2, x), Agree(m2, y2, y)
    PROVE  Satisfies(on, x, y) <=> Satisfies(on, x2, y2)
  <1>1. ASSUME NEW k \in DOMAIN on.left
        PROVE  x2[on.left[k]] = x[on.left[k]] /\ y2[on.right[k]] = y[on.right[k]]
    BY DEF OnWithin, Agree
  <1> QED
    BY <1>1 DEF Satisfies, Equal, IsNotDistinct

\* Two joined rows, alike in the first columns of each half.
Alike(r1, r2, w1, v1, w2, v2, m1, m2) ==
    \E x1 \in [1 .. w1 -> Values], y1 \in [1 .. v1 -> Values],
       x2 \in [1 .. w2 -> Values], y2 \in [1 .. v2 -> Values] :
        /\ r1 = x1 \o y1 /\ r2 = x2 \o y2
        /\ Agree(m1, x2, x1) /\ Agree(m2, y2, y1)
\* A row of rel that is alike row r1.
HasAlike(rel, r1, w1, v1, w2, v2, m1, m2) ==
    \E r2 \in ToSet(rel) : Alike(r1, r2, w1, v1, w2, v2, m1, m2)
\* Each row of rel1 is in rel2, as far as the first m columns go.
AllIn(rel1, rel2, m) == \A x \in ToSet(rel1) : HasRow(rel2, m, x)

LEMMA JoinAlike ==
    ASSUME NEW w1 \in Nat, NEW v1 \in Nat, NEW w2 \in Nat, NEW v2 \in Nat,
           NEW m1 \in Nat, NEW m2 \in Nat, m2 <= v1, m2 <= v2,
           NEW l1 \in Relations(w1), NEW r1 \in Relations(v1),
           NEW l2 \in Relations(w2), NEW r2 \in Relations(v2),
           AllIn(l1, l2, m1), AllIn(r1, r2, m2), AllIn(r2, r1, m2),
           NEW on, OnWithin(on, m1, m2), NEW how,
           NEW row \in ToSet(JoinOn(how, l1, r1, v1, on))
    PROVE  HasAlike(JoinOn(how, l2, r2, v2, on), row, w1, v1, w2, v2, m1, m2)
  <1> DEFINE j1 == JoinOn(how, l1, r1, v1, on)
             j2 == JoinOn(how, l2, r2, v2, on)
  <1>1. PICK x \in ToSet(l1) : JoinsTo(how, r1, v1, on, x, row)
    BY JoinFacts
  <1>2. \A z : z \in ToSet(j2) <=> \E u \in ToSet(l2) : JoinsTo(how, r2, v2, on, u, z)
    BY JoinFacts
  <1> HIDE DEF j1, j2
  <1>3. PICK x2 \in ToSet(l2) : Agree(m1, x2, x)
    BY DEF AllIn, HasRow
  <1>4. x \in [1 .. w1 -> Values] /\ x2 \in [1 .. w2 -> Values]
    BY RowsOf
  <1>5. ASSUME NEW y \in ToSet(r1), Satisfies(on, x, y), row = x \o y
        PROVE  HasAlike(j2, row, w1, v1, w2, v2, m1, m2)
    <2>1. PICK y2 \in ToSet(r2) : Agree(m2, y2, y)
      BY DEF AllIn, HasRow
    <2>2. y \in [1 .. v1 -> Values] /\ y2 \in [1 .. v2 -> Values]
      BY RowsOf
    <2>3. Satisfies(on, x2, y2)
      BY <1>3, <1>5, <2>1, SatisfiedAlike
    <2>4. JoinsTo(how, r2, v2, on, x2, x2 \o y2)
      BY <2>3 DEF JoinsTo
    <2>5. x2 \o y2 \in ToSet(j2)
      BY <1>2, <2>4
    <2>6. Alike(row, x2 \o y2, w1, v1, w2, v2, m1, m2)
      BY <1>3, <1>4, <1>5, <2>1, <2>2 DEF Alike
    <2> QED
      BY <2>5, <2>6 DEF HasAlike
  <1>6. ASSUME how = "LEFT_OUTER", row = x \o NullRow(v1),
               \A y \in ToSet(r1) : ~ Satisfies(on, x, y)
        PROVE  HasAlike(j2, row, w1, v1, w2, v2, m1, m2)
    <2>1. ASSUME NEW y2 \in ToSet(r2) PROVE ~ Satisfies(on, x2, y2)
      <3>1. PICK y \in ToSet(r1) : Agree(m2, y, y2)
        BY DEF AllIn, HasRow
      <3>2. Agree(m2, y2, y)
        BY <3>1 DEF Agree
      <3> QED
        BY <1>3, <1>6, <3>2, SatisfiedAlike
    <2> DEFINE n1 == NullRow(v1)
               n2 == NullRow(v2)
    <2>2. n1 \in [1 .. v1 -> Values] /\ n2 \in [1 .. v2 -> Values] /\ Agree(m2, n2, n1)
      <3>1. \A k \in 1 .. m2 : k \in 1 .. v1 /\ k \in 1 .. v2
        OBVIOUS
      <3> QED
        BY <3>1, NullRowOk DEF Agree
    <2>3. row = x \o n1
      BY <1>6
    <2>4. JoinsTo(how, r2, v2, on, x2, x2 \o n2)
      BY <1>6, <2>1 DEF JoinsTo
    <2> HIDE DEF n1, n2
    <2>5. x2 \o n2 \in ToSet(j2)
      BY <1>2, <2>4
    <2>6. Alike(row, x2 \o n2, w1, v1, w2, v2, m1, m2)
      BY <1>3, <1>4, <2>2, <2>3 DEF Alike
    <2> QED
      BY <2>5, <2>6 DEF HasAlike
  <1>7. HasAlike(j2, row, w1, v1, w2, v2, m1, m2)
    BY <1>1, <1>5, <1>6 DEF JoinsTo
  <1> QED
    BY <1>7 DEF j2

\* The columns that an inner reordering picks of a joined row.
LEMMA ShowsJoined ==
    ASSUME NEW m1 \in Nat, NEW p1 \in Nat, NEW m2 \in Nat, NEW p2 \in Nat,
           NEW x \in [1 .. m1 + p1 -> Values], NEW y \in [1 .. m2 + p2 -> Values],
           NEW x2 \in [1 .. m1 -> Values], NEW y2 \in [1 .. m2 -> Values],
           Agree(m1, x2, x), Agree(m2, y2, y),
           NEW e, \A k \in 1 .. m1 : e[k] = k, \A k \in 1 .. m2 : e[m1 + k] = m1 + p1 + k
    PROVE  Shows(e, m1 + m2, x \o y, x2 \o y2)
  <1> DEFINE row == x \o y
             z == x2 \o y2
             w == m1 + p1
             v == m2 + p2
  <1>1. w \in Nat /\ v \in Nat
    OBVIOUS
  <1>2. (\A k \in 1 .. w : row[k] = x[k]) /\ \A k \in 1 .. v : row[w + k] = y[k]
    <2> HIDE DEF w, v
    <2>1. x \in [1 .. w -> Values] /\ y \in [1 .. v -> Values]
      BY DEF w, v
    <2> QED
      BY <1>1, <2>1, RowConcat, SMTT(30)
  <1>3. (\A k \in 1 .. m1 : z[k] = x2[k]) /\ \A k \in 1 .. m2 : z[m1 + k] = y2[k]
    <2> HIDE DEF w, v, row
    <2>1. \A k \in 1 .. m1 : (x2 \o y2)[k] = x2[k]
      BY RowConcat
    <2>2. \A k \in 1 .. m2 : (x2 \o y2)[m1 + k] = y2[k]
      BY RowConcat
    <2> QED
      BY <2>1, <2>2
  <1> HIDE DEF row, z
  <1>4. ASSUME NEW k \in 1 .. m1 PROVE e[k] # 0 /\ row[e[k]] = z[k]
    <2>1. e[k] = k /\ k \in 1 .. w
      OBVIOUS
    <2> QED
      BY <1>2, <1>3, <2>1 DEF Agree
  <1>5. ASSUME NEW k \in 1 .. m2 PROVE e[m1 + k] # 0 /\ row[e[m1 + k]] = z[m1 + k]
    <2>1. e[m1 + k] = w + k /\ k \in 1 .. v /\ w + k # 0
      OBVIOUS
    <2>2. row[w + k] = y[k] /\ z[m1 + k] = y2[k] /\ y2[k] = y[k]
      BY <1>2, <1>3, <2>1 DEF Agree
    <2> HIDE DEF w, v
    <2> QED
      BY <2>1, <2>2
  <1>6. ASSUME NEW k \in 1 .. m1 + m2 PROVE e[k] # 0 /\ row[e[k]] = z[k]
    <2>1. CASE k \in 1 .. m1
      BY <1>4, <2>1
    <2>2. CASE k - m1 \in 1 .. m2 /\ m1 + (k - m1) = k
      <3>1. e[m1 + (k - m1)] # 0 /\ row[e[m1 + (k - m1)]] = z[m1 + (k - m1)]
        BY <1>5, <2>2
      <3> QED
        BY <2>2, <3>1
    <2> QED
      BY <2>1, <2>2, SplitPos
  <1> QED
    BY <1>6 DEF Shows, row, z

LEMMA JoinImaged ==
    ASSUME NEW m1 \in Nat, NEW p1 \in Nat, NEW m2 \in Nat, NEW p2 \in Nat,
           NEW l \in Relations(m1 + p1), NEW r \in Relations(m2 + p2),
           NEW i \in Relations(m1), NEW j \in Relations(m2),
           Matched(l, i, m1), Matched(r, j, m2), NEW how,
           NEW on, OnWithin(on, m1, m2),
           NEW e, \A k \in 1 .. m1 : e[k] = k, \A k \in 1 .. m2 : e[m1 + k] = m1 + p1 + k
    PROVE  Imaged(JoinOn(how, l, r, m2 + p2, on), JoinOn(how, i, j, m2, on), e, m1 + m2)
  <1> DEFINE w == m1 + p1
             v == m2 + p2
             u == m1 + m2
             j1 == JoinOn(how, l, r, v, on)
             j2 == JoinOn(how, i, j, m2, on)
  <1>1. w \in Nat /\ v \in Nat /\ l \in Relations(w) /\ r \in Relations(v) /\ m2 <= v /\ m2 <= m2
    OBVIOUS
  <1>2. AllIn(l, i, m1) /\ AllIn(i, l, m1) /\ AllIn(r, j, m2) /\ AllIn(j, r, m2)
    BY DEF Matched, AllIn
  <1>3. ASSUME NEW row \in ToSet(j1) PROVE HasAlike(j2, row, w, v, m1, m2, m1, m2)
    <2> HIDE DEF w, v
    <2> QED
      BY <1>1, <1>2, <1>3, JoinAlike
  <1>4. ASSUME NEW row \in ToSet(j2) PROVE HasAlike(j1, row, m1, m2, w, v, m1, m2)
    <2> HIDE DEF w, v
    <2> QED
      BY <1>1, <1>2, <1>4, JoinAlike
  <1>5. \A x \in [1 .. w -> Values], y \in [1 .. v -> Values],
           x2 \in [1 .. m1 -> Values], y2 \in [1 .. m2 -> Values] :
             Agree(m1, x2, x) /\ Agree(m2, y2, y) => Shows(e, u, x \o y, x2 \o y2)
    BY ShowsJoined
  <1> HIDE DEF w, v, u, j1, j2
  <1>6. ASSUME NEW row \in ToSet(j1) PROVE HasImage(j2, e, u, row)
    <2>1. PICK z \in ToSet(j2) : Alike(row, z, w, v, m1, m2, m1, m2)
      BY <1>3 DEF HasAlike
    <2>3. PICK x \in [1 .. w -> Values], y \in [1 .. v -> Values],
               x2 \in [1 .. m1 -> Values], y2 \in [1 .. m2 -> Values] :
                 /\ row = x \o y /\ z = x2 \o y2
                 /\ Agree(m1, x2, x) /\ Agree(m2, y2, y)
      BY <2>1 DEF Alike
    <2>4. Shows(e, u, x \o y, x2 \o y2)
      BY <1>5, <2>3
    <2>2. Shows(e, u, row, z)
      BY <2>3, <2>4
    <2> QED
      BY <2>1, <2>2 DEF HasImage
  <1>7. ASSUME NEW z \in ToSet(j2) PROVE HasSource(j1, e, u, z)
    <2>1. PICK row \in ToSet(j1) : Alike(z, row, m1, m2, w, v, m1, m2)
      BY <1>4 DEF HasAlike
    <2>2. PICK x1 \in [1 .. m1 -> Values], y1 \in [1 .. m2 -> Values],
               x2 \in [1 .. w -> Values], y2 \in [1 .. v -> Values] :
                 /\ z = x1 \o y1 /\ row = x2 \o y2
                 /\ Agree(m1, x2, x1) /\ Agree(m2, y2, y1)
      BY <2>1 DEF Alike
    <2>3. Agree(m1, x1, x2) /\ Agree(m2, y1, y2)
      BY <2>2 DEF Agree
    <2>4. Shows(e, u, row, z)
      BY <1>5, <2>2, <2>3
    <2> QED
      BY <2>1, <2>4 DEF HasSource
  <1>8. Imaged(j1, j2, e, u)
    BY <1>6, <1>7 DEF Imaged
  <1> QED
    BY <1>8 DEF j1, j2, u, v

LEMMA JoinRule ==
    ASSUME NEW g, GraphOk(g), NodesOk(g), NEW o, InputsOk(query, o), DataOk(query, o),
           o.type = "Join", NEW x \in DOMAIN g, NEW y \in DOMAIN g, NEW ins, ins = << x, y >>,
           NEW i, i = query[o.in[1]], NEW b, InputIs(g[x], i, i.schema, b),
           NEW j, j = query[o.in[2]], NEW d, InputIs(g[y], j, j.schema, d),
           NEW h, h = rewriteJoin(g, o, ins)
    PROVE  /\ Result(h, o, b \o d)
           /\ SameRows(g[x], i) /\ SameRows(g[y], j) => SameRows(h[Len(h)], o)
  <1> DEFINE l == g[x]
             r == g[y]
             m1 == Len(i.schema)
             m2 == Len(j.schema)
             p1 == Len(b)
             p2 == Len(d)
             on == On(<< o.pos[1] >>, << o.pos[2] >>, FALSE)
             e == InOrder(m1, p1, m2, p2)
  <1>1. /\ Result(h, o, b \o d)
        /\ Imaged(JoinOf(o, l, r), o.rel, e, Len(o.schema)) => SameRows(h[Len(h)], o)
    <2> HIDE DEF on
    <2> QED
      BY JoinResult
  <1>2. JoinOp(o, i, j)
    BY BinaryRows
  <1>3. /\ o.rel = JoinOn(o.how, i.rel, j.rel, m2, on) /\ Len(o.schema) = m1 + m2
        /\ o.pos[1] \in 1 .. m1 /\ o.pos[2] \in 1 .. m2
    BY <1>2 DEF JoinOp
  <1>4. m1 \in Nat /\ p1 \in Nat /\ l.rel \in Relations(m1 + p1) /\ i.rel \in Relations(m1)
    <2>1. InputIs(l, i, i.schema, b)
      OBVIOUS
    <2> HIDE DEF l, r, on, e
    <2>2. Len(i.schema) \in Nat /\ Len(b) \in Nat /\ l.rel \in Relations(Len(i.schema) + Len(b))
      BY <2>1, InputWidth
    <2> QED
      BY <2>1, <2>2 DEF InputIs
  <1>5. /\ m2 \in Nat /\ p2 \in Nat /\ r.rel \in Relations(m2 + p2) /\ j.rel \in Relations(m2)
        /\ r.width = m2 + p2
    <2>1. InputIs(r, j, j.schema, d)
      OBVIOUS
    <2> HIDE DEF l, r, on, e
    <2>2. /\ Len(j.schema) \in Nat /\ Len(d) \in Nat /\ r.width = Len(j.schema) + Len(d)
          /\ r.rel \in Relations(Len(j.schema) + Len(d))
      BY <2>1, InputWidth
    <2> QED
      BY <2>1, <2>2 DEF InputIs
  <1>6. OnWithin(on, m1, m2)
    BY <1>3 DEF OnWithin, On
  <1>7. ASSUME SameRows(l, i), SameRows(r, j)
        PROVE  Imaged(JoinOf(o, l, r), o.rel, e, Len(o.schema))
    <2>1. Matched(l.rel, i.rel, Len(i.schema))
      BY <1>7, InputMatched
    <2>2. Matched(r.rel, j.rel, Len(j.schema))
      BY <1>7, InputMatched
    <2>3. JoinOf(o, l, r) = JoinOn(o.how, l.rel, r.rel, m2 + p2, on)
      BY <1>5 DEF JoinOf
    <2> HIDE DEF on, l, r
    <2>4. Matched(l.rel, i.rel, m1) /\ Matched(r.rel, j.rel, m2)
      BY <2>1, <2>2
    <2> HIDE DEF m1, m2, p1, p2
    <2>5. (\A k \in 1 .. m1 : e[k] = k) /\ \A k \in 1 .. m2 : e[m1 + k] = m1 + p1 + k
      <3>1. m1 \in Nat /\ m2 \in Nat /\ p1 \in Nat /\ p2 \in Nat
        BY <1>4, <1>5
      <3>2. Reorders(e, m1, p1, m2)
        BY <3>1, InOrderFacts
      <3> HIDE DEF e
      <3> QED
        BY <3>2 DEF Reorders
    <2> HIDE DEF e
    <2>6. Imaged(JoinOn(o.how, l.rel, r.rel, m2 + p2, on), JoinOn(o.how, i.rel, j.rel, m2, on), e, m1 + m2)
      BY <1>4, <1>5, <1>6, <2>4, <2>5, JoinImaged
    <2> QED
      BY <1>3, <2>3, <2>6
  <1> QED
    BY <1>1, <1>7

\* The first place of something in a list.
LEMMA FirstPlace ==
    ASSUME NEW s, IsSeq(s), NEW t \in ToSet(s)
    PROVE  \E k \in DOMAIN s : s[k] = t /\ \A j \in 1 .. k - 1 : s[j] # t
  <1> DEFINE T == {k \in DOMAIN s : s[k] = t}
  <1>1. DOMAIN s = 1 .. Len(s) /\ Len(s) \in Nat
    BY SeqDomain
  <1>2. T \in SUBSET Nat /\ T # {}
    BY <1>1 DEF ToSet
  <1>3. \A k \in T : k \in DOMAIN s /\ s[k] = t
    OBVIOUS
  <1>4. \A k \in DOMAIN s : s[k] = t => k \in T
    OBVIOUS
  <1> HIDE DEF T
  <1>5. PICK k \in T : \A j \in T : k <= j
    BY <1>2, SmallestNat
  <1>6. ASSUME NEW j \in 1 .. k - 1, s[j] = t PROVE FALSE
    <2>1. j \in DOMAIN s
      BY <1>1, <1>3, <1>5
    <2>2. j \in T
      BY <1>4, <1>6, <2>1
    <2> QED
      BY <1>1, <1>3, <1>5, <2>1, <2>2
  <1> QED
    BY <1>3, <1>5, <1>6

\* A row of both inputs is in their intersection at least once.
LEMMA InBoth ==
    ASSUME NEW w, NEW l \in Relations(w), NEW r \in Relations(w),
           NEW t \in ToSet(l), t \in ToSet(r)
    PROVE  t \in ToSet(IntersectAll(l, r))
  <1>1. /\ IsSeq(l) /\ IsSeq(r) /\ Len(l) \in Nat /\ DOMAIN l = 1 .. Len(l)
        /\ Len(r) \in Nat /\ DOMAIN r = 1 .. Len(r)
    BY RowsOf
  <1>2. PICK k \in DOMAIN l : l[k] = t /\ \A j \in 1 .. k - 1 : l[j] # t
    BY <1>1, FirstPlace
  <1> DEFINE A == {j \in 1 .. k : l[j] = l[k]}
             B == {j \in DOMAIN r : r[j] = l[k]}
  <1>3. A = {k}
    <2>1. k \in Nat /\ k \in 1 .. k
      BY <1>1
    <2>2. \A j \in 1 .. k : j = k \/ j \in 1 .. k - 1
      BY <2>1
    <2> QED
      BY <1>2, <2>1, <2>2
  <1>4. Cardinality(A) = 1
    BY <1>3, FS_Singleton
  <1>5. B \in SUBSET (1 .. Len(r)) /\ B # {}
    BY <1>1, <1>2 DEF ToSet
  <1>6. Cardinality(A) <= Cardinality(B)
    <2> HIDE DEF A, B
    <2>1. Cardinality(B) \in Nat /\ Cardinality(B) >= 1
      BY <1>1, <1>5, CountPositive
    <2> QED
      BY <1>4, <2>1
  <1>7. k \in Paired(l, r)
    BY <1>6 DEF Paired
  <1> QED
    BY <1>2, <1>7, KeepRows DEF IntersectAll

\* The rewritten intersection: rows of both inputs that are equal.
LEMMA IntersectionImaged ==
    ASSUME NEW m \in Nat, NEW v \in Nat, NEW w \in Nat, m <= v, m <= w,
           NEW l \in Relations(v), NEW r \in Relations(w),
           NEW i \in Relations(m), NEW j \in Relations(m),
           Matched(l, i, m), Matched(r, j, m),
           \A row \in ToSet(i) : \A k \in 1 .. m : row[k] # Null,
           NEW e, \A k \in 1 .. m : e[k] = k
    PROVE  Imaged(JoinOn("INNER", l, r, w, On(IntSeq(1, m), IntSeq(1, m), FALSE)),
                  IntersectAll(i, j), e, m)
  <1> DEFINE on == On(IntSeq(1, m), IntSeq(1, m), FALSE)
             j1 == JoinOn("INNER", l, r, w, on)
             j2 == IntersectAll(i, j)
  <1>1. \A x, y : Satisfies(on, x, y) <=> \A k \in 1 .. m : Equal(x[k], y[k])
    <2>1. DOMAIN IntSeq(1, m) = 1 .. m /\ \A k \in 1 .. m : IntSeq(1, m)[k] = k
      BY FirstInts
    <2> DEFINE q == IntSeq(1, m)
    <2> HIDE DEF q
    <2> QED
      BY <2>1 DEF Satisfies, On, q
  <1>2. \A row : row \in ToSet(j1) <=> \E x \in ToSet(l) : JoinsTo("INNER", r, w, on, x, row)
    BY JoinFacts
  <1>3. \A t : t \in ToSet(i) /\ t \in ToSet(j) => t \in ToSet(j2)
    BY InBoth
  <1>4. \A t \in ToSet(j2) : t \in ToSet(i) /\ t \in ToSet(j)
    BY SetOpFacts
  <1>5. \A x \in [1 .. v -> Values], y \in [1 .. w -> Values] : \A k \in 1 .. m : (x \o y)[k] = x[k]
    <2> SUFFICES ASSUME NEW x \in [1 .. v -> Values], NEW y \in [1 .. w -> Values], NEW k \in 1 .. m
                 PROVE  (x \o y)[k] = x[k]
      OBVIOUS
    <2>1. \A n \in 1 .. v : (x \o y)[n] = x[n]
      BY RowConcat
    <2>2. k \in 1 .. v
      OBVIOUS
    <2> QED
      BY <2>1, <2>2
  <1> HIDE DEF on, j1, j2
  <1>6. ASSUME NEW row \in ToSet(j1) PROVE HasImage(j2, e, m, row)
    <2>1. PICK x \in ToSet(l), y \in ToSet(r) : Satisfies(on, x, y) /\ row = x \o y
      <3>1. PICK x \in ToSet(l) : JoinsTo("INNER", r, w, on, x, row)
        BY <1>2
      <3> QED
        BY <3>1 DEF JoinsTo
    <2>2. x \in [1 .. v -> Values] /\ y \in [1 .. w -> Values]
      BY RowsOf
    <2>3. PICK x2 \in ToSet(i) : Agree(m, x2, x)
      BY DEF Matched, HasRow
    <2>4. PICK y2 \in ToSet(j) : Agree(m, y2, y)
      BY DEF Matched, HasRow
    <2>5. \A k \in 1 .. m : x[k] = y[k]
      BY <1>1, <2>1 DEF Equal
    <2>6. x2 = y2
      <3>1. x2 \in [1 .. m -> Values] /\ y2 \in [1 .. m -> Values]
        BY RowsOf
      <3>2. \A k \in 1 .. m : x2[k] = y2[k]
        BY <2>3, <2>4, <2>5 DEF Agree
      <3> QED
        BY <3>1, <3>2
    <2>7. x2 \in ToSet(j2)
      BY <1>3, <2>6
    <2>8. Shows(e, m, row, x2)
      <3>1. ASSUME NEW k \in 1 .. m PROVE e[k] # 0 /\ row[e[k]] = x2[k]
        <4>1. e[k] = k /\ k # 0
          OBVIOUS
        <4>2. row[k] = x[k]
          BY <1>5, <2>1, <2>2
        <4> QED
          BY <2>3, <4>1, <4>2 DEF Agree
      <3> QED
        BY <3>1 DEF Shows
    <2> QED
      BY <2>7, <2>8 DEF HasImage
  <1>7. ASSUME NEW t \in ToSet(j2) PROVE HasSource(j1, e, m, t)
    <2>1. t \in ToSet(i) /\ t \in ToSet(j)
      BY <1>4
    <2>2. PICK x \in ToSet(l) : Agree(m, x, t)
      BY <2>1 DEF Matched, HasRow
    <2>3. PICK y \in ToSet(r) : Agree(m, y, t)
      BY <2>1 DEF Matched, HasRow
    <2>4. x \in [1 .. v -> Values] /\ y \in [1 .. w -> Values]
      BY RowsOf
    <2>5. Satisfies(on, x, y)
      BY <1>1, <2>1, <2>2, <2>3 DEF Equal, Agree
    <2>6. x \o y \in ToSet(j1)
      BY <1>2, <2>5 DEF JoinsTo
    <2>7. Shows(e, m, x \o y, t)
      <3>1. ASSUME NEW k \in 1 .. m PROVE e[k] # 0 /\ (x \o y)[e[k]] = t[k]
        <4>1. e[k] = k /\ k # 0
          OBVIOUS
        <4>2. (x \o y)[k] = x[k]
          BY <1>5, <2>4
        <4> QED
          BY <2>2, <4>1, <4>2 DEF Agree
      <3> QED
        BY <3>1 DEF Shows
    <2> QED
      BY <2>6, <2>7 DEF HasSource
  <1>8. Imaged(j1, j2, e, m)
    BY <1>6, <1>7 DEF Imaged
  <1> QED
    BY <1>8 DEF j1, j2, on

LEMMA IntersectionRule ==
    ASSUME NEW g, GraphOk(g), NodesOk(g), NEW o, InputsOk(query, o), DataOk(query, o),
           o.type = "Set", o.how = "INTERSECTION", IsSet(query[o.core], {"INTERSECTION"}),
           NEW x \in DOMAIN g, NEW y \in DOMAIN g, NEW ins, ins = << x, y >>,
           NEW i, i = query[o.in[1]], NEW b, InputIs(g[x], i, i.schema, b),
           NEW j, j = query[o.in[2]], NEW d, InputIs(g[y], j, j.schema, d),
           NEW info, IsSeq(info), NEW h, h = WithInfo(rewriteIntersection(g, o, ins), info)
    PROVE  /\ Result(h, o, b \o d)
           /\ SameRows(g[x], i) /\ SameRows(g[y], j) /\ NullsOk(query, o) => SameRows(h[Len(h)], o)
  <1> DEFINE l == g[x]
             r == g[y]
             a == i.schema
             c == j.schema
             u == Len(o.schema)
             on == On(IntSeq(1, u), IntSeq(1, u), FALSE)
             n == Join(g, "INNER", x, y, on)
             none == << >>
             n0 == [n EXCEPT !.schema = none]
             n1 == addNormalAttrsToSchema(n0, l)
             left == addProvenanceAttrsToSchema(n1, l)
             mid == addNormalAttrsToSchema(left, r)
             m == addProvenanceAttrsToSchema(mid, r)
             h0 == ReorderAttrs(Attach(g, m))
             w == Len(a) + Len(b) + Len(c) + Len(d)
             rel == JoinOn("INNER", l.rel, r.rel, r.width, on)
             e == InOrder(Len(a), Len(b), Len(c), Len(d))
  <1>1. h = WithInfo(h0, info)
    BY DEF rewriteIntersection
  <1> HIDE DEF h0
  <1>2. SetOp(o, i, j)
    BY BinaryRows
  <1>3. o.schema = a /\ Len(c) = u /\ Len(a) = u /\ o.rel = IntersectAll(i.rel, j.rel)
    BY <1>2 DEF SetOp
  <1>4. o.schema \in Seq(AttrNames) /\ o.rel \in Relations(u) /\ u \in Nat
    BY SchemaFacts
  <1>5. /\ b \in Seq(ProvAttrNames) /\ b \in Seq(NodeNames) /\ ProvNames(l) = b
        /\ Len(l.provAttrs) = Len(b) /\ NormalNames(l) = a
        /\ d \in Seq(ProvAttrNames) /\ d \in Seq(NodeNames) /\ ProvNames(r) = d
        /\ Len(r.provAttrs) = Len(d) /\ NormalNames(r) = c
        /\ a \in Seq(AttrNames) /\ c \in Seq(AttrNames)
    <2>1. InputIs(l, i, a, b) /\ InputIs(r, j, c, d)
      OBVIOUS
    <2> HIDE DEF l, r, a, c
    <2>2. /\ b \in Seq(ProvAttrNames) /\ b \in Seq(NodeNames) /\ ProvNames(l) = b
          /\ Len(l.provAttrs) = Len(b)
      BY <2>1, InputNames
    <2>3. /\ d \in Seq(ProvAttrNames) /\ d \in Seq(NodeNames) /\ ProvNames(r) = d
          /\ Len(r.provAttrs) = Len(d)
      BY <2>1, InputNames
    <2>4. Parts(l, a, b) /\ Parts(r, c, d) /\ a \in Seq(AttrNames) /\ c \in Seq(AttrNames)
      BY <2>1 DEF InputIs
    <2>5. NormalNames(l) = a
      BY <2>4, NamesOfParts
    <2>6. NormalNames(r) = c
      BY <2>4, NamesOfParts
    <2> QED
      BY <2>2, <2>3, <2>4, <2>5, <2>6
  <1>6. /\ Len(a) \in Nat /\ Len(b) \in Nat /\ l.width = Len(a) + Len(b)
        /\ l.rel \in Relations(Len(a) + Len(b))
    <2>1. InputIs(l, i, a, b)
      OBVIOUS
    <2> HIDE DEF l, a
    <2> QED
      BY <2>1, InputWidth
  <1>7. /\ Len(c) \in Nat /\ Len(d) \in Nat /\ r.width = Len(c) + Len(d)
        /\ r.rel \in Relations(Len(c) + Len(d))
    <2>1. InputIs(r, j, c, d)
      OBVIOUS
    <2> HIDE DEF r, c
    <2> QED
      BY <2>1, InputWidth
  <1>8. i.rel \in Relations(Len(a)) /\ j.rel \in Relations(Len(c))
    BY DEF InputIs
  <1>9. SameRows(l, i) => Matched(l.rel, i.rel, Len(a))
    BY InputMatched
  <1>10. SameRows(r, j) => Matched(r.rel, j.rel, Len(c))
    BY InputMatched
  <1>11. JoinIs(n, g, "INNER", x, y, on)
    BY JoinNode
  <1>12. /\ DOMAIN n = NodeFields /\ n.type = "Join" /\ n.provAttrs = none
         /\ n.width = l.width + r.width /\ n.rel = rel /\ IsNewNode(g, n)
    BY <1>11 DEF JoinIs
  <1> HIDE DEF n, a, c, l, r
  <1>13. rel \in Relations(w) /\ n.width = w
    <2> DEFINE p == Len(a) + Len(b)
               q == Len(c) + Len(d)
    <2>1. p \in Nat /\ q \in Nat /\ l.rel \in Relations(p) /\ r.rel \in Relations(q)
      BY <1>6, <1>7
    <2>2. w = p + q
      BY <1>6, <1>7
    <2>4. l.width = p /\ r.width = q
      BY <1>6, <1>7
    <2> HIDE DEF p, q, w, on
    <2>3. JoinOn("INNER", l.rel, r.rel, q, on) \in Relations(p + q)
      BY <2>1, JoinFacts
    <2> QED
      BY <1>12, <2>2, <2>3, <2>4
  <1> HIDE DEF rel, w, on
  <1>14. IsNewNode(g, n0) /\ Renewed(n0, n, none, none)
    <2>1. IsNewNode(g, n0)
      BY <1>12 DEF IsNewNode, NodeFields
    <2> HIDE DEF none
    <2>2. Renewed(n0, n, none, n.provAttrs)
      BY <1>12, NodeChanges
    <2> QED
      BY <1>12, <2>1, <2>2
  <1> HIDE DEF n0
  <1>15. IsNewNode(g, n1) /\ Renewed(n1, n0, a, none)
    <2>1. IsNewNode(g, n1)
      BY <1>14, AddedAttrsNode
    <2>2. n1 = addNormalAttrsToSchema(n0, l) /\ DOMAIN n0 = NodeFields /\ n0.schema = none
          /\ n0.provAttrs = none
      BY <1>14 DEF Renewed
    <2> HIDE DEF n1, none
    <2>3. Renewed(n1, n0, n0.schema \o a, n0.provAttrs)
      BY <1>5, <2>2, AddedNormal
    <2>4. none \o a = a
      <3>1. IsSeq(a)
        BY <1>5, SeqIsSeq
      <3> QED
        BY <3>1, EmptyConcat DEF none
    <2> QED
      BY <2>1, <2>2, <2>3, <2>4
  <1>16. /\ n1.provAttrs = none /\ n1.schema = a /\ n1.width = w /\ n1.rel = rel
         /\ n1.type = "Join"
    BY <1>12, <1>13, <1>14, <1>15 DEF Renewed
  <1> HIDE DEF n1
  <1>17. IsNewNode(g, left)
    BY <1>15, AddedAttrsNode
  <1>18. left = addProvenanceAttrsToSchema(n1, l) /\ m = addProvenanceAttrsToSchema(mid, r)
    OBVIOUS
  <1> HIDE DEF left, m
  <1>19. IsNewNode(g, mid)
    BY <1>17, AddedAttrsNode
  <1>20. Renewed(mid, left, left.schema \o c, left.provAttrs)
    <2>1. DOMAIN left = NodeFields /\ mid = addNormalAttrsToSchema(left, r)
      BY <1>17 DEF IsNewNode
    <2> HIDE DEF mid
    <2> QED
      BY <1>5, <2>1, AddedNormal
  <1> HIDE DEF mid
  <1>21. a \in Seq(NodeNames) /\ c \in Seq(NodeNames)
    BY <1>5, NameSets, SeqWider
  <1>22. Mixed(m, a, b, c, d) /\ m.type = "Join" /\ m.rel = rel /\ IsNewNode(g, m)
    <2>2. w = Len(n1.schema) + Len(ProvNames(l)) + Len(c) + Len(ProvNames(r))
      BY <1>5, <1>16 DEF w
    <2>3. n1.schema \in Seq(NodeNames) /\ n1.provAttrs = << >> /\ n1.width = w /\ n1.rel \in Relations(w)
      BY <1>13, <1>16, <1>21
    <2>4. ProvNames(l) \in Seq(NodeNames) /\ Len(l.provAttrs) = Len(ProvNames(l))
      BY <1>5
    <2>5. ProvNames(r) \in Seq(NodeNames) /\ Len(r.provAttrs) = Len(ProvNames(r))
      BY <1>5
    <2>6. /\ Mixed(m, n1.schema, ProvNames(l), c, ProvNames(r))
          /\ m.type = n1.type /\ m.rel = n1.rel /\ IsNewNode(g, m)
      <3>1. IsNewNode(g, n1) /\ c \in Seq(NodeNames)
        BY <1>15, <1>21
      <3>2. left = addProvenanceAttrsToSchema(n1, l)
        BY <1>18
      <3>3. m = addProvenanceAttrsToSchema(mid, r)
        BY <1>18
      <3> QED
        BY <1>19, <1>20, <2>2, <2>3, <2>4, <2>5, <3>1, <3>2, <3>3, MixedNode, SMTT(30)
    <2> QED
      BY <1>5, <1>16, <2>6
  <1>23. Fits(a \o c, o)
    <2>1. /\ a \o c \in Seq(AttrNames) /\ Len(a \o c) = Len(a) + Len(c)
          /\ \A k \in 1 .. Len(a) : (a \o c)[k] = a[k]
      BY <1>5, ConcatFacts
    <2>2. DOMAIN o.schema = 1 .. u
      BY <1>4, SeqIsSeq
    <2>3. u <= Len(a \o c)
      BY <1>3, <1>4, <2>1
    <2> HIDE DEF u
    <2>4. \A k \in 1 .. u : (a \o c)[k] = o.schema[k]
      BY <1>3, <2>1
    <2> QED
      BY <2>1, <2>2, <2>3, <2>4 DEF Fits, u
  <1>24. b \o d \in Seq(ProvAttrNames)
    BY <1>5, ConcatFacts
  <1>25. /\ Result(h, o, b \o d)
         /\ Imaged(m.rel, o.rel, e, u) => SameRows(h[Len(h)], o)
    <2>1. h0 = ReorderAttrs(Attach(g, m))
      BY DEF h0
    <2> QED
      BY <1>1, <1>4, <1>22, <1>23, <1>24, <2>1, ReorderResult
  <1>26. ASSUME SameRows(l, i), SameRows(r, j), NullsOk(query, o) PROVE Imaged(rel, o.rel, e, u)
    <2>1. \A row \in ToSet(i.rel) : ~ Contains(row, Null)
      <3>1. 1 \in DOMAIN o.in /\ query[o.in[1]].rel = i.rel
        BY InputsAreThere
      <3>2. IsSet(o, {"INTERSECTION"})
        BY DEF IsSet
      <3> QED
        BY <1>26, <3>1, <3>2 DEF NullsOk
    <2>2. ASSUME NEW row \in ToSet(i.rel), NEW k \in 1 .. u PROVE row[k] # Null
      <3>1. DOMAIN row = 1 .. u
        BY <1>3, <1>8, RowsOf
      <3> QED
        BY <2>1, <3>1 DEF Contains
    <2> DEFINE v == Len(a) + Len(b)
               z == Len(c) + Len(d)
    <2>3. /\ v \in Nat /\ z \in Nat /\ u <= v /\ u <= z /\ u \in Nat
          /\ l.rel \in Relations(v) /\ r.rel \in Relations(z)
      BY <1>3, <1>4, <1>6, <1>7
    <2>4. /\ i.rel \in Relations(u) /\ j.rel \in Relations(u)
          /\ Matched(l.rel, i.rel, u) /\ Matched(r.rel, j.rel, u)
      BY <1>3, <1>8, <1>9, <1>10, <1>26
    <2>5. rel = JoinOn("INNER", l.rel, r.rel, z, On(IntSeq(1, u), IntSeq(1, u), FALSE))
      BY <1>7 DEF rel, on
    <2>6. \A k \in 1 .. u : e[k] = k
      <3> DEFINE la == Len(a)
                 lb == Len(b)
                 lc == Len(c)
                 ld == Len(d)
      <3>1. la \in Nat /\ lb \in Nat /\ lc \in Nat /\ ld \in Nat /\ e = InOrder(la, lb, lc, ld) /\ la = u
        BY <1>3, <1>6, <1>7
      <3> HIDE DEF la, lb, lc, ld, e
      <3>2. Reorders(InOrder(la, lb, lc, ld), la, lb, lc)
        BY <3>1, InOrderFacts
      <3> QED
        BY <3>1, <3>2 DEF Reorders
    <2> HIDE DEF u, v, z, e
    <2>7. Imaged(JoinOn("INNER", l.rel, r.rel, z, On(IntSeq(1, u), IntSeq(1, u), FALSE)),
                 IntersectAll(i.rel, j.rel), e, u)
      BY <2>2, <2>3, <2>4, <2>6, IntersectionImaged
    <2> QED
      BY <1>3, <2>5, <2>7
  <1> QED
    BY <1>22, <1>25, <1>26 DEF l, r

LEMMA ConcatTwice ==
    ASSUME NEW a, NEW b, NEW c, IsSeq(a), IsSeq(b), IsSeq(c)
    PROVE  (a \o b) \o c = a \o (b \o c)
  <1> DEFINE ab == a \o b
             bc == b \o c
             s == ab \o c
             t == a \o bc
             la == Len(a)
             lb == Len(b)
             lc == Len(c)
  <1>1. la \in Nat /\ lb \in Nat /\ lc \in Nat
    BY SeqDomain
  <1>2. Concat(a, b, ab)
    BY Concats
  <1>3. Concat(b, c, bc)
    BY Concats
  <1> HIDE DEF ab, bc
  <1>4. Concat(ab, c, s)
    BY <1>2, Concats DEF Concat
  <1>5. Concat(a, bc, t)
    BY <1>3, Concats DEF Concat
  <1> HIDE DEF s, t, la, lb, lc
  <1>6. /\ Len(ab) = la + lb /\ \A k \in 1 .. la : ab[k] = a[k]
        /\ \A k \in 1 .. lb : ab[la + k] = b[k]
    BY <1>2 DEF Concat, la, lb
  <1>7. /\ Len(bc) = lb + lc /\ \A k \in 1 .. lb : bc[k] = b[k]
        /\ \A k \in 1 .. lc : bc[lb + k] = c[k]
    BY <1>3 DEF Concat, lb, lc
  <1>8. /\ IsSeq(s) /\ Len(s) = Len(ab) + lc /\ \A k \in 1 .. Len(ab) : s[k] = ab[k]
        /\ \A k \in 1 .. lc : s[Len(ab) + k] = c[k]
    BY <1>4 DEF Concat, lc
  <1>9. /\ IsSeq(t) /\ Len(t) = la + Len(bc) /\ \A k \in 1 .. la : t[k] = a[k]
        /\ \A k \in 1 .. Len(bc) : t[la + k] = bc[k]
    BY <1>5 DEF Concat, la
  <1>10. /\ \A k \in 1 .. la + lb : s[k] = ab[k]
         /\ \A k \in 1 .. lc : s[la + lb + k] = c[k]
    BY <1>6, <1>8
  <1>11. \A k \in 1 .. lb + lc : t[la + k] = bc[k]
    BY <1>7, <1>9
  <1>12. Len(s) = la + lb + lc /\ Len(t) = la + lb + lc
    BY <1>1, <1>6, <1>7, <1>8, <1>9
  <1>13. \A k \in 1 .. la : s[k] = t[k]
    <2>1. \A k \in 1 .. la : k \in 1 .. la + lb
      BY <1>1
    <2> QED
      BY <1>6, <1>9, <1>10, <2>1
  <1>14. \A k \in 1 .. lb : s[la + k] = t[la + k]
    <2>1. \A k \in 1 .. lb : la + k \in 1 .. la + lb /\ k \in 1 .. lb + lc
      BY <1>1
    <2> QED
      BY <1>6, <1>7, <1>10, <1>11, <2>1
  <1>15. \A k \in 1 .. lc : s[la + lb + k] = t[la + lb + k]
    <2>1. \A k \in 1 .. lc : lb + k \in 1 .. lb + lc /\ la + (lb + k) = la + lb + k
      BY <1>1
    <2> QED
      BY <1>7, <1>10, <1>11, <2>1
  <1>16. ASSUME NEW k \in 1 .. la + lb + lc PROVE s[k] = t[k]
    <2>1. \/ k \in 1 .. la
          \/ k - la \in 1 .. lb /\ la + (k - la) = k
          \/ k - (la + lb) \in 1 .. lc /\ la + lb + (k - (la + lb)) = k
      BY <1>1
    <2>2. CASE k \in 1 .. la
      BY <1>13, <2>2
    <2>3. CASE k - la \in 1 .. lb /\ la + (k - la) = k
      <3>1. s[la + (k - la)] = t[la + (k - la)]
        BY <1>14, <2>3
      <3> QED
        BY <2>3, <3>1
    <2>4. CASE k - (la + lb) \in 1 .. lc /\ la + lb + (k - (la + lb)) = k
      <3>1. s[la + lb + (k - (la + lb))] = t[la + lb + (k - (la + lb))]
        BY <1>15, <2>4
      <3> QED
        BY <2>4, <3>1
    <2> QED
      BY <2>1, <2>2, <2>3, <2>4
  <1>17. s = t
    <2>1. \A k \in 1 .. Len(s) : s[k] = t[k]
      BY <1>12, <1>16
    <2>2. Len(s) = Len(t)
      BY <1>12
    <2> QED
      BY <1>8, <1>9, <2>1, <2>2, SameSeq
  <1> QED
    BY <1>17 DEF s, t, ab, bc

LEMMA NullsFacts ==
    ASSUME NEW n \in Nat, NEW w \in Nat
    PROVE  Nulls(n) \in Seq(0 .. w) /\ Len(Nulls(n)) = n
  <1> DEFINE W == 0 .. w
             f == Nulls(n)
  <1>1. f \in [1 .. n -> W]
    BY DEF Nulls
  <1> HIDE DEF W, f
  <1>2. f \in Seq(W) /\ Len(f) = n
    BY <1>1, SeqOfFn
  <1> QED
    BY <1>2 DEF W, f

\* What createProjectionOp fills in.
ProjectionIs(n, g, c, exprs, names) ==
    /\ DOMAIN n = NodeFields /\ n.type = "Projection" /\ n.inputs = << c >>
    /\ n.schema = names /\ n.width = Len(exprs) /\ n.rel = Project(g[c].rel, exprs)
    /\ n.provAttrs = << >> /\ IsNewNode(g, n)

LEMMA NewProjectionNode ==
    ASSUME NEW g, NEW c \in DOMAIN g, NEW exprs, NEW names
    PROVE  ProjectionIs(Projection(g, c, exprs, names), g, c, exprs, names)
  <1> DEFINE n == Projection(g, c, exprs, names)
  <1>1. IsNewNode(g, n)
    BY NewProjection
  <1>2. n = Projection(g, c, exprs, names)
    OBVIOUS
  <1> HIDE DEF n
  <1>3. /\ DOMAIN n = NodeFields /\ n.type = "Projection" /\ n.inputs = << c >>
        /\ n.schema = names /\ n.width = Len(exprs) /\ n.rel = Project(g[c].rel, exprs)
        /\ n.provAttrs = << >>
    BY <1>2, ProjectionNode
  <1> QED
    BY <1>1, <1>3 DEF ProjectionIs, n

\* A projection of input c of operator i to its attributes a, then p.
Padded(g, n, c, i, a, p) ==
    /\ IsNewNode(g, n) /\ Parts(n, a, p) /\ n.type = "Projection" /\ \A h : NodeOk(h, n)
    /\ SameRows(c, i) => Matched(n.rel, i.rel, Len(i.schema))

\* The expressions e, names and provenance attributes v of such a projection.
PadsTo(a, b, p, e, names, v) ==
    /\ e \in Seq(0 .. Len(a) + Len(b)) /\ \A k \in 1 .. Len(a) : e[k] = k
    /\ p \in Seq(NodeNames) /\ Len(e) = Len(a) + Len(p)
    /\ a \o p = names /\ IntSeq(Len(a) + 1, Len(a) + Len(p)) = v

LEMMA PaddedNode ==
    ASSUME NEW g, NEW x \in DOMAIN g, NEW i, NEW a, NEW b, InputIs(g[x], i, a, b),
           NEW p, NEW e, NEW names, NEW v, PadsTo(a, b, p, e, names, v),
           NEW n, n = [Projection(g, x, e, names) EXCEPT !.provAttrs = v]
    PROVE  Padded(g, n, g[x], i, a, p)
  <1> DEFINE c == g[x]
             q == Projection(g, x, e, names)
             w == Len(a) + Len(b)
             u == Len(i.schema)
  <1>0. /\ e \in Seq(0 .. Len(a) + Len(b)) /\ \A k \in 1 .. Len(a) : e[k] = k
        /\ p \in Seq(NodeNames) /\ Len(e) = Len(a) + Len(p)
        /\ a \o p = names /\ IntSeq(Len(a) + 1, Len(a) + Len(p)) = v
    BY DEF PadsTo
  <1>1. /\ a \in Seq(AttrNames) /\ u \in Nat /\ u <= Len(a) /\ i.rel \in Relations(u)
    BY DEF InputIs
  <1>2. Len(a) \in Nat /\ Len(b) \in Nat /\ c.rel \in Relations(w) /\ Len(p) \in Nat
    <2>1. InputIs(c, i, a, b)
      OBVIOUS
    <2>2. Len(p) \in Nat
      BY <1>0, SeqIsSeq
    <2> HIDE DEF c
    <2>3. Len(a) \in Nat /\ Len(b) \in Nat /\ c.rel \in Relations(Len(a) + Len(b))
      BY <2>1, InputWidth
    <2> QED
      BY <2>2, <2>3
  <1>3. SameRows(c, i) => Matched(c.rel, i.rel, Len(i.schema))
    BY InputMatched
  <1>4. ProjectionIs(q, g, x, e, names)
    BY NewProjectionNode
  <1>5. n = [q EXCEPT !.provAttrs = v]
    OBVIOUS
  <1> HIDE DEF q, c, w, u
  <1>12. /\ DOMAIN q = NodeFields /\ q.type = "Projection" /\ q.schema = names /\ q.width = Len(e)
         /\ q.rel = Project(g[x].rel, e) /\ IsNewNode(g, q)
    BY <1>4 DEF ProjectionIs
  <1>6. IsNewNode(g, n)
    BY <1>5, <1>12 DEF IsNewNode, NodeFields
  <1>7. Renewed(n, q, q.schema, v)
    BY <1>5, <1>12, NodeChanges
  <1>8. /\ n.type = "Projection" /\ n.schema = names /\ n.width = Len(e) /\ n.provAttrs = v
        /\ n.rel = Project(c.rel, e)
    BY <1>7, <1>12 DEF Renewed, c
  <1>9. w \in Nat /\ e \in Seq(0 .. w) /\ a \in Seq(NodeNames)
    <2>1. a \in Seq(NodeNames)
      BY <1>1, NameSets, SeqWider
    <2> QED
      BY <1>0, <1>2, <2>1 DEF w
  <1>10. Parts(n, a, p) /\ \A h : NodeOk(h, n)
    BY <1>0, <1>2, <1>8, <1>9, PartsOfProjection
  <1>11. ASSUME Matched(c.rel, i.rel, u) PROVE Matched(n.rel, i.rel, u)
    <2>1. u <= Len(e) /\ u \in Nat /\ \A k \in 1 .. u : e[k] = k
      BY <1>0, <1>1, <1>2
    <2>2. w \in Nat /\ c.rel \in Relations(w) /\ e \in Seq(0 .. w)
      BY <1>2, <1>9 DEF w
    <2>3. Matched(Project(c.rel, e), i.rel, u)
      BY <1>11, <2>1, <2>2, PrefixMatched
    <2> QED
      BY <1>8, <2>3
  <1> QED
    BY <1>3, <1>6, <1>8, <1>10, <1>11 DEF Padded, c, u

LEMMA MatchedBoth ==
    ASSUME NEW w, NEW s \in Relations(w), NEW t \in Relations(w), NEW u,
           NEW x \in Relations(u), NEW y \in Relations(u), NEW m,
           Matched(s, x, m), Matched(t, y, m)
    PROVE  Matched(s \o t, x \o y, m) /\ s \o t \in Relations(w)
  <1>1. ToSet(s \o t) = ToSet(s) \union ToSet(t) /\ s \o t \in Relations(w)
    BY SetOpFacts
  <1>2. ToSet(x \o y) = ToSet(x) \union ToSet(y)
    BY SetOpFacts
  <1> DEFINE st == s \o t
             xy == x \o y
  <1> HIDE DEF st, xy
  <1>3. Matched(st, xy, m)
    BY <1>1, <1>2 DEF Matched, HasRow, st, xy
  <1> QED
    BY <1>1, <1>3 DEF st, xy

\* What an input is does not depend on its parents.
LEMMA InputKept ==
    ASSUME NEW n, NEW m, SameButParents(m, n), NEW i, NEW a, NEW b, InputIs(n, i, a, b)
    PROVE  InputIs(m, i, a, b) /\ (SameRows(n, i) => SameRows(m, i))
  <1>1. Parts(n, a, b)
    BY DEF InputIs
  <1>2. Parts(m, a, b)
    BY <1>1, NodeKept
  <1>3. SameRows(n, i) => SameRows(m, i)
    BY NodeKept
  <1> QED
    BY <1>2, <1>3 DEF InputIs

LEMMA LeftPad ==
    ASSUME NEW g, NEW x \in DOMAIN g, NEW i, NEW a, NEW b, InputIs(g[x], i, a, b),
           NEW d \in Seq(NodeNames),
           NEW s, s = IntSeq(1, Len(g[x].schema)) \o Nulls(Len(d)),
           NEW t, t = g[x].schema \o d,
           NEW u, u = g[x].provAttrs \o IntSeq(Len(g[x].schema) + 1, Len(g[x].schema) + Len(d))
    PROVE  PadsTo(a, b, b \o d, s, t, u)
  <1> DEFINE c == g[x]
             la == Len(a)
             lb == Len(b)
             ld == Len(d)
             w == la + lb
             e == IntSeq(1, w) \o Nulls(ld)
             p == b \o d
             names == (a \o b) \o d
             v == IntSeq(la + 1, la + lb) \o IntSeq(la + lb + 1, la + lb + ld)
  <1>1. Parts(c, a, b) /\ a \in Seq(NodeNames) /\ b \in Seq(NodeNames)
    BY DEF InputIs, Parts
  <1>2. c.schema = a \o b /\ c.provAttrs = IntSeq(la + 1, la + lb)
    BY <1>1 DEF Parts
  <1>3. /\ IsSeq(a) /\ IsSeq(b) /\ IsSeq(d) /\ la \in Nat /\ lb \in Nat /\ ld \in Nat
    BY <1>1, SeqIsSeq
  <1>4. Len(c.schema) = w
    <2> HIDE DEF c
    <2> QED
      BY <1>1, PartsFacts
  <1>5. s = e /\ t = names /\ u = v
    BY <1>2, <1>4
  <1>6. p \in Seq(NodeNames) /\ Len(p) = lb + ld
    BY <1>1, ConcatFacts
  <1>7. w \in Nat
    BY <1>3
  <1>8. e \in Seq(0 .. w) /\ Len(e) = w + ld /\ \A k \in 1 .. w : e[k] = k
    <2> DEFINE is == IntSeq(1, w)
               ns == Nulls(ld)
    <2> HIDE DEF w, ld
    <2>1. is \in Seq(1 .. w) /\ Len(is) = w /\ \A k \in 1 .. w : is[k] = k
      BY <1>7, FirstInts
    <2>2. ns \in Seq(0 .. w) /\ Len(ns) = ld
      BY <1>3, <1>7, NullsFacts
    <2> HIDE DEF is, ns
    <2>3. is \in Seq(0 .. w)
      BY <1>7, <2>1, WiderPositions
    <2>4. /\ is \o ns \in Seq(0 .. w) /\ Len(is \o ns) = Len(is) + Len(ns)
          /\ \A k \in 1 .. Len(is) : (is \o ns)[k] = is[k]
      BY <1>7, <2>2, <2>3, PositionsJoined
    <2> QED
      BY <2>1, <2>2, <2>4 DEF is, ns
  <1>9. a \o p = names
    BY <1>3, ConcatTwice, SMTT(30)
  <1>10. v = IntSeq(la + 1, la + lb + ld)
    <2> HIDE DEF la, lb, ld
    <2> QED
      BY <1>3, IntsJoined
  <1> HIDE DEF c, e, p, names, v
  <1>11. IntSeq(la + 1, la + Len(p)) = v
    <2>1. la + Len(p) = la + lb + ld
      BY <1>3, <1>6
    <2> QED
      BY <1>10, <2>1
  <1>12. Len(e) = la + Len(p) /\ \A k \in 1 .. la : e[k] = k
    BY <1>3, <1>6, <1>8
  <1>13. PadsTo(a, b, p, e, names, v)
    <2>1. e \in Seq(0 .. Len(a) + Len(b)) /\ \A k \in 1 .. Len(a) : e[k] = k
      BY <1>8, <1>12
    <2>2. Len(e) = Len(a) + Len(p) /\ IntSeq(Len(a) + 1, Len(a) + Len(p)) = v
      BY <1>11, <1>12
    <2> QED
      BY <1>6, <1>9, <2>1, <2>2 DEF PadsTo
  <1> QED
    BY ONLY <1>5, <1>13 DEF p

LEMMA RightPad ==
    ASSUME NEW r, NEW j, NEW c, NEW d, InputIs(r, j, c, d), NEW b \in Seq(NodeNames),
           NEW f, f = IntSeq(1, Len(c)) \o Nulls(Len(b)) \o IntSeq(Len(c) + 1, Len(c) + Len(d)),
           NEW h, h = c \o b \o d,
           NEW u, u = IntSeq(Len(c) + 1, Len(c) + Len(b) + Len(d))
    PROVE  PadsTo(c, d, b \o d, f, h, u)
  <1> DEFINE lb == Len(b)
             lc == Len(c)
             ld == Len(d)
             w == lc + ld
             e == (IntSeq(1, lc) \o Nulls(lb)) \o IntSeq(lc + 1, lc + ld)
             p == b \o d
             names == (c \o b) \o d
             v == IntSeq(lc + 1, lc + lb + ld)
  <1>1. Parts(r, c, d) /\ c \in Seq(NodeNames) /\ d \in Seq(NodeNames)
    BY DEF InputIs, Parts
  <1>3. /\ IsSeq(b) /\ IsSeq(c) /\ IsSeq(d) /\ lb \in Nat /\ lc \in Nat /\ ld \in Nat
    BY <1>1, SeqIsSeq
  <1>5. f = e /\ h = names /\ u = v
    OBVIOUS
  <1>6. p \in Seq(NodeNames) /\ Len(p) = lb + ld
    BY <1>1, ConcatFacts
  <1>7. w \in Nat
    BY <1>3
  <1>8. e \in Seq(0 .. w) /\ Len(e) = lc + lb + ld /\ \A k \in 1 .. lc : e[k] = k
    <2> DEFINE s == IntSeq(1, lc)
               t == Nulls(lb)
               st == s \o t
               z == IntSeq(lc + 1, lc + ld)
    <2> HIDE DEF lb, lc, ld
    <2>1. s \in Seq(1 .. lc) /\ Len(s) = lc /\ \A k \in 1 .. lc : s[k] = k
      BY <1>3, FirstInts
    <2>2. t \in Seq(0 .. w) /\ Len(t) = lb
      <3> HIDE DEF w
      <3> QED
        BY <1>3, <1>7, NullsFacts
    <2>5. IsSeq(z) /\ Len(z) = ld /\ DOMAIN z = 1 .. ld /\ \A k \in 1 .. ld : z[k] = lc + k
      BY <1>3, IntSeqFacts
    <2> HIDE DEF s, t, z
    <2>3. s \in Seq(0 .. w)
      <3>1. lc <= w
        BY <1>3
      <3> HIDE DEF w
      <3> QED
        BY <1>3, <1>7, <2>1, <3>1, WiderPositions
    <2>6. z \in Seq(0 .. w)
      <3> DEFINE W == 0 .. w
      <3>1. \A k \in DOMAIN z : z[k] \in W
        BY <1>3, <2>5
      <3> HIDE DEF W
      <3>2. z \in Seq(W)
        BY <2>5, <3>1, SeqDomain
      <3> QED
        BY <3>2 DEF W
    <2> HIDE DEF w
    <2>4. /\ st \in Seq(0 .. w) /\ Len(st) = Len(s) + Len(t)
          /\ \A k \in 1 .. Len(s) : st[k] = s[k]
      BY <1>7, <2>2, <2>3, PositionsJoined
    <2> HIDE DEF st
    <2>7. /\ st \o z \in Seq(0 .. w) /\ Len(st \o z) = Len(st) + Len(z)
          /\ \A k \in 1 .. Len(st) : (st \o z)[k] = st[k]
      BY <1>7, <2>4, <2>6, PositionsJoined
    <2>8. e = st \o z
      BY DEF e, st, s, t, z
    <2> HIDE DEF e
    <2>9. Len(st) = lc + lb
      BY <2>1, <2>2, <2>4
    <2>10. \A k \in 1 .. lc : k \in 1 .. Len(st)
      BY <1>3, <2>9
    <2> QED
      BY <2>1, <2>4, <2>5, <2>7, <2>8, <2>9, <2>10
  <1>9. c \o p = names
    BY <1>3, ConcatTwice, SMTT(30)
  <1> HIDE DEF e, p, names, v
  <1>11. IntSeq(lc + 1, lc + Len(p)) = v
    <2>1. lc + Len(p) = lc + lb + ld
      BY <1>3, <1>6
    <2> QED
      BY <2>1 DEF v
  <1>12. Len(e) = lc + Len(p)
    BY <1>3, <1>6, <1>8
  <1>13. PadsTo(c, d, p, e, names, v)
    <2>1. e \in Seq(0 .. Len(c) + Len(d)) /\ \A k \in 1 .. Len(c) : e[k] = k
      BY <1>8
    <2>2. Len(e) = Len(c) + Len(p) /\ IntSeq(Len(c) + 1, Len(c) + Len(p)) = v
      BY <1>11, <1>12
    <2> QED
      BY <1>6, <1>9, <2>1, <2>2 DEF PadsTo
  <1> QED
    BY ONLY <1>5, <1>13 DEF p

\* A union of two nodes with the same attributes.
LEMMA UnionNode ==
    ASSUME NEW g, GraphOk(g), NodesOk(g), NEW o, DataOk(query, o), NEW i, NEW j, SetOp(o, i, j),
           o.how = "UNION", i.rel \in Relations(Len(i.schema)), j.rel \in Relations(Len(i.schema)),
           NEW e \in Seq(ProvAttrNames), NEW u \in DOMAIN g, NEW v \in DOMAIN g,
           Parts(g[u], i.schema, e), Parts(g[v], j.schema, e),
           NEW n, n = Node("Set", << u, v >>, o.schema, g[u].width, g[u].rel \o g[v].rel),
           NEW m, m = addProvenanceAttrsToSchema(n, g[u]),
           NEW info, IsSeq(info), NEW h, h = WithInfo(Attach(g, m), info)
    PROVE  /\ Result(h, o, e)
           /\ Matched(g[u].rel, i.rel, Len(i.schema)) /\ Matched(g[v].rel, j.rel, Len(i.schema)) =>
                SameRows(h[Len(h)], o)
  <1> DEFINE l == g[u]
             r == g[v]
             w == Len(o.schema) + Len(e)
  <1>1. Parts(l, o.schema, e) /\ Parts(r, j.schema, e)
    BY DEF SetOp
  <1>2. o.schema = i.schema /\ Len(j.schema) = Len(o.schema) /\ o.rel = i.rel \o j.rel
    BY DEF SetOp
  <1>3. /\ o.schema \in Seq(AttrNames) /\ Len(o.schema) \in Nat /\ Len(o.schema) >= 1
        /\ o.rel \in Relations(Len(o.schema))
    BY SchemaFacts
  <1>4. IsNewNode(g, n)
    <2>1. IsSeq(<< u, v >>) /\ ToSet(<< u, v >>) \subseteq DOMAIN g
      BY TwoInputs
    <2> QED
      BY <2>1, NewNodes
  <1>5. /\ DOMAIN n = NodeFields /\ n.type = "Set" /\ n.inputs = << u, v >>
        /\ n.schema = o.schema /\ n.width = l.width /\ n.rel = l.rel \o r.rel
        /\ n.provAttrs = << >>
    <2> QED
      BY DEF Node, NodeFields
  <1> HIDE DEF l, r, w
  <1>6. IsNewNode(g, m)
    BY <1>4, AddedAttrsNode
  <1>7. /\ l.width = w /\ l.rel \in Relations(w) /\ r.width = w /\ r.rel \in Relations(w)
        /\ Len(e) \in Nat
    <2>1. /\ l.width = Len(o.schema) + Len(e) /\ l.rel \in Relations(l.width)
          /\ r.width = Len(j.schema) + Len(e) /\ r.rel \in Relations(r.width)
      BY <1>1 DEF Parts
    <2>2. Len(e) \in Nat
      BY SeqIsSeq
    <2> QED
      BY <1>2, <2>1, <2>2 DEF w
  <1>8. l.rel \o r.rel \in Relations(w)
    BY <1>7, SetOpFacts
  <1>9. ProvNames(l) = e /\ Len(l.provAttrs) = Len(e) /\ e \in Seq(NodeNames)
    BY <1>1, NamesOfParts
  <1>10. o.schema \in Seq(NodeNames)
    BY <1>3, NameSets, SeqWider
  <1>11. /\ Parts(m, n.schema, ProvNames(l)) /\ m.type = n.type /\ m.inputs = n.inputs
         /\ m.rel = n.rel /\ IsSeq(m.schema) /\ m.width = Len(m.schema)
    <2>1. n.width = Len(n.schema) + Len(ProvNames(l)) /\ n.rel \in Relations(n.width)
      BY <1>5, <1>7, <1>8, <1>9 DEF w
    <2>2. m = addProvenanceAttrsToSchema(n, l) /\ n.schema \in Seq(NodeNames)
      BY <1>5, <1>10 DEF l
    <2> QED
      BY ONLY <1>5, <1>9, <2>1, <2>2, PartsAdded
  <1>12. Parts(m, o.schema, e)
    BY <1>5, <1>9, <1>11
  <1>13. NodeOk(g, m)
    <2>1. m.type = "Set" /\ m.inputs = << u, v >>
      BY <1>5, <1>11
    <2>2. m.schema = l.schema
      BY <1>1, <1>12 DEF Parts
    <2>3. m.width = r.width
      BY <1>7, <1>12 DEF Parts, w
    <2>4. m.inputs[1] = u /\ m.inputs[2] = v
      BY <2>1
    <2> QED
      BY <1>11, <2>1, <2>2, <2>3, <2>4 DEF NodeOk, l, r
  <1>14. Fits(o.schema, o)
    BY <1>3 DEF Fits
  <1>15. /\ Result(h, o, e)
         /\ Matched(m.rel, o.rel, Len(o.schema)) => SameRows(h[Len(h)], o)
    <2> DEFINE k == Attach(g, m)
    <2>1. k = Attach(g, m) /\ h = WithInfo(k, info)
      OBVIOUS
    <2> HIDE DEF k
    <2> QED
      BY <1>3, <1>6, <1>12, <1>13, <1>14, <2>1, NewResult, SMTT(30)
  <1>16. ASSUME Matched(l.rel, i.rel, Len(i.schema)), Matched(r.rel, j.rel, Len(i.schema))
         PROVE  Matched(m.rel, o.rel, Len(o.schema))
    <2>1. Matched(l.rel \o r.rel, i.rel \o j.rel, Len(i.schema))
      BY <1>7, <1>16, MatchedBoth
    <2> QED
      BY <1>2, <1>5, <1>11, <2>1
  <1> QED
    BY ONLY <1>15, <1>16 DEF l, r

LEMMA UnionRule ==
    ASSUME NEW g, GraphOk(g), NodesOk(g), NEW o, InputsOk(query, o), DataOk(query, o),
           o.type = "Set", o.how = "UNION",
           NEW x \in DOMAIN g, NEW y \in DOMAIN g, NEW ins, ins = << x, y >>,
           NEW i, i = query[o.in[1]], NEW b, InputIs(g[x], i, i.schema, b),
           NEW j, j = query[o.in[2]], NEW d, InputIs(g[y], j, j.schema, d),
           NEW info, IsSeq(info), NEW h, h = WithInfo(rewriteUnion(g, o, ins), info)
    PROVE  /\ Result(h, o, b \o d)
           /\ SameRows(g[x], i) /\ SameRows(g[y], j) => SameRows(h[Len(h)], o)
  <1> DEFINE l == g[x]
             r == g[y]
             e == b \o d
             nl == Len(l.provAttrs)
             nr == Len(r.provAttrs)
             k == Len(NormalPos(r))
             s == IntSeq(1, Len(l.schema)) \o Nulls(nr)
             t == l.schema \o ProvNames(r)
             z == l.provAttrs \o IntSeq(Len(l.schema) + 1, Len(l.schema) + nr)
             projL == [Projection(g, x, s, t) EXCEPT !.provAttrs = z]
             s2 == IntSeq(1, k) \o Nulls(nl) \o IntSeq(k + 1, k + nr)
             t2 == NormalNames(r) \o ProvNames(l) \o ProvNames(r)
             z2 == IntSeq(k + 1, k + nl + nr)
             gl == AttachAlone(g, projL)
             projR == [Projection(gl, y, s2, t2) EXCEPT !.provAttrs = z2]
             gr == AttachAlone(gl, projR)
             n == Node("Set", << Len(gl), Len(gr) >>, o.schema, projL.width,
                       gr[Len(gl)].rel \o gr[Len(gr)].rel)
             m == addProvenanceAttrsToSchema(n, gr[Len(gl)])
  <1>1. InputIs(l, i, i.schema, b) /\ InputIs(r, j, j.schema, d)
    OBVIOUS
  <1>2. /\ b \in Seq(ProvAttrNames) /\ b \in Seq(NodeNames) /\ ProvNames(l) = b
        /\ Len(l.provAttrs) = Len(b)
        /\ d \in Seq(ProvAttrNames) /\ d \in Seq(NodeNames) /\ ProvNames(r) = d
        /\ Len(r.provAttrs) = Len(d)
    <2> HIDE DEF l, r
    <2> QED
      BY <1>1, InputNames
  <1>3. NormalNames(r) = j.schema /\ Len(NormalPos(r)) = Len(j.schema)
    <2> HIDE DEF r
    <2>1. Parts(r, j.schema, d)
      BY <1>1 DEF InputIs
    <2>2. /\ Len(j.schema) \in Nat /\ NormalPos(r) = IntSeq(1, Len(j.schema))
          /\ NormalNames(r) = j.schema
      BY <2>1, PartsFacts
    <2>3. Len(IntSeq(1, Len(j.schema))) = Len(j.schema)
      BY <2>2, FirstInts
    <2> QED
      BY <2>2, <2>3
  <1>4. h = WithInfo(Attach(gr, m), info)
    <2>1. ins[1] = x /\ ins[2] = y
      OBVIOUS
    <2> QED
      BY <2>1 DEF rewriteUnion
  <1>5. Padded(g, projL, l, i, i.schema, e)
    <2>1. projL = [Projection(g, x, s, t) EXCEPT !.provAttrs = z]
      OBVIOUS
    <2>2. x \in DOMAIN g /\ InputIs(g[x], i, i.schema, b)
      OBVIOUS
    <2>3. /\ s = IntSeq(1, Len(g[x].schema)) \o Nulls(Len(d))
          /\ t = g[x].schema \o d
          /\ z = g[x].provAttrs \o IntSeq(Len(g[x].schema) + 1, Len(g[x].schema) + Len(d))
      BY <1>2
    <2> HIDE DEF projL, r, e, s, t, z
    <2>4. PadsTo(i.schema, b, b \o d, s, t, z)
      BY ONLY <1>2, <2>2, <2>3, LeftPad
    <2>5. Padded(g, projL, g[x], i, i.schema, b \o d)
      BY ONLY <2>1, <2>2, <2>4, PaddedNode
    <2> QED
      BY <2>5 DEF l, e
  <1>6. IsNewNode(g, projL) /\ \A f : NodeOk(f, projL)
    BY <1>5 DEF Padded
  <1>7. Grown(g, gl, projL)
    <2> HIDE DEF projL
    <2> QED
      BY <1>6, Grows
  <1>8. GraphOk(gl) /\ NodesOk(gl) /\ y \in DOMAIN gl /\ SameButParents(gl[y], r) /\ gl[Len(gl)] = projL
        /\ Len(gl) \in DOMAIN gl
    <2> HIDE DEF projL, gl
    <2> QED
      BY <1>6, <1>7 DEF Grown
  <1>9. InputIs(gl[y], j, j.schema, d) /\ (SameRows(r, j) => SameRows(gl[y], j))
    <2> HIDE DEF gl, r
    <2> QED
      BY <1>1, <1>8, InputKept
  <1>10. Padded(gl, projR, gl[y], j, j.schema, e)
    <2>1. projR = [Projection(gl, y, s2, t2) EXCEPT !.provAttrs = z2]
      OBVIOUS
    <2>2. /\ s2 = IntSeq(1, Len(j.schema)) \o Nulls(Len(b))
                     \o IntSeq(Len(j.schema) + 1, Len(j.schema) + Len(d))
          /\ t2 = j.schema \o b \o d
          /\ z2 = IntSeq(Len(j.schema) + 1, Len(j.schema) + Len(b) + Len(d))
      BY <1>2, <1>3
    <2> HIDE DEF projR, gl, l, r, e, s2, t2, z2
    <2>3. PadsTo(j.schema, d, b \o d, s2, t2, z2)
      BY ONLY <1>1, <1>2, <2>2, RightPad
    <2>4. Padded(gl, projR, gl[y], j, j.schema, b \o d)
      BY ONLY <1>8, <1>9, <2>1, <2>3, PaddedNode
    <2> QED
      BY <2>4 DEF e
  <1>11. IsNewNode(gl, projR) /\ \A f : NodeOk(f, projR)
    BY <1>10 DEF Padded
  <1>12. Grown(gl, gr, projR)
    <2> HIDE DEF projR, gl
    <2> QED
      BY <1>8, <1>11, Grows
  <1> HIDE DEF projL, projR, gl, gr
  <1>13. /\ GraphOk(gr) /\ NodesOk(gr) /\ gr[Len(gr)] = projR /\ Len(gr) \in DOMAIN gr
         /\ Len(gl) \in DOMAIN gr /\ SameButParents(gr[Len(gl)], projL)
    BY <1>8, <1>11, <1>12 DEF Grown
  <1>14. /\ Parts(projL, i.schema, e) /\ Parts(projR, j.schema, e)
         /\ SameRows(l, i) => Matched(projL.rel, i.rel, Len(i.schema))
         /\ SameRows(r, j) => Matched(projR.rel, j.rel, Len(j.schema))
    <2> HIDE DEF l, r, e
    <2> QED
      BY <1>5, <1>9, <1>10 DEF Padded
  <1> DEFINE u == Len(gl)
             v == Len(gr)
  <1>15. Parts(gr[u], i.schema, e) /\ gr[u].rel = projL.rel /\ gr[u].width = projL.width
    <2> HIDE DEF e
    <2> QED
      BY <1>13, <1>14, NodeKept, SameFields
  <1>16. SetOp(o, i, j)
    BY BinaryRows
  <1>17. /\ i.rel \in Relations(Len(i.schema)) /\ j.rel \in Relations(Len(i.schema))
         /\ Len(i.schema) = Len(j.schema)
    <2> HIDE DEF l, r
    <2> QED
      BY <1>1, <1>16 DEF InputIs, SetOp
  <1>18. e \in Seq(ProvAttrNames)
    BY <1>2, ConcatFacts
  <1>19. n = Node("Set", << u, v >>, o.schema, gr[u].width, gr[u].rel \o gr[v].rel)
    BY <1>15
  <1>20. m = addProvenanceAttrsToSchema(n, gr[u]) /\ Parts(gr[v], j.schema, e)
    BY <1>13, <1>14
  <1>21. DataOk(query, o) /\ o.how = "UNION" /\ IsSeq(info) /\ u \in DOMAIN gr /\ v \in DOMAIN gr
    BY <1>13
  <1> HIDE DEF n, m, u, v, e, l, r
  <1>22. /\ Result(h, o, e)
         /\ Matched(gr[u].rel, i.rel, Len(i.schema)) /\ Matched(gr[v].rel, j.rel, Len(i.schema)) =>
              SameRows(h[Len(h)], o)
    BY ONLY <1>4, <1>13, <1>15, <1>16, <1>17, <1>18, <1>19, <1>20, <1>21, UnionNode
  <1>23. gr[v].rel = projR.rel
    BY <1>13 DEF v
  <1> QED
    BY <1>14, <1>15, <1>17, <1>22, <1>23 DEF e, l, r

\* A name that is made unique stays in a set that has its suffixed names.
LEMMA UniqueKind ==
    ASSUME NEW N, Suffixable(N), NEW names \in Seq(N), NEW M, Suffixable(M),
           NEW K, \A k \in K : k \in 1 .. Len(names) /\ names[k] \in M,
           NEW u, u = makeNamesUnique(names)
    PROVE  \A k \in K : u[k] \in M
  <1> DEFINE n == Len(names)
  <1>1. PICK f : Renamed(f, names, N)
    BY RenamedFunction
  <1>2. n \in Nat /\ names \in [1 .. n -> N] /\ DOMAIN names = 1 .. n
    BY SeqIsSeq
  <1>3. /\ f \in [0 .. n -> [1 .. n -> N]] /\ f[0] = names
        /\ \A i \in 1 .. n : f[i] = IF NameCount(names, i) = 0 THEN f[i - 1]
                                    ELSE [f[i - 1] EXCEPT ![i] = FreeName(names, f[i - 1], i)]
        /\ u = f[n]
    BY <1>1 DEF Renamed
  <1>4. \A i \in K : FreeName(names, f[i - 1], i) \in M
    <2> TAKE i \in K
    <2>0. i - 1 \in 0 .. n /\ i \in 1 .. n
      BY <1>2
    <2>1. n \in Nat /\ Len(names) = n /\ f[i - 1] \in [1 .. n -> N] /\ i \in 1 .. n /\ names[i] \in N
      BY <1>2, <1>3, <2>0
    <2>3. Suffixable(N)
      OBVIOUS
    <2> DEFINE x == f[i - 1]
    <2>4. n \in Nat /\ Len(names) = n /\ x \in [1 .. n -> N] /\ i \in 1 .. n /\ names[i] \in N
      BY <2>1
    <2> HIDE DEF n, x
    <2>5. KeepsKind(names, x, i)
      BY ONLY <2>3, <2>4, SuffixFree
    <2>2. KeepsKind(names, f[i - 1], i)
      BY <2>5 DEF x
    <2> QED
      BY <2>2 DEF KeepsKind
  <1> HIDE DEF n
  <1> DEFINE T == {i \in 0 .. n : \A k \in K : f[i][k] \in M}
  <1>5. 0 \in T
    BY <1>2, <1>3
  <1>6. ASSUME NEW i \in 1 .. n, i - 1 \in T PROVE i \in T
    <2> DEFINE x == f[i - 1]
               y == f[i]
    <2>1. i - 1 \in 0 .. n /\ i \in 0 .. n
      BY <1>2
    <2>2. x \in [1 .. n -> N] /\ DOMAIN x = 1 .. n
      BY <1>3, <2>1
    <2>3. \A k \in K : x[k] \in M
      BY <1>6
    <2>4. y = x \/ y = [x EXCEPT ![i] = FreeName(names, x, i)]
      BY <1>3
    <2>5. i \in K => FreeName(names, x, i) \in M
      BY <1>4
    <2> HIDE DEF x, y
    <2>6. \A k \in K : y[k] \in M
      <3> TAKE k \in K
      <3>1. k \in 1 .. n
        BY DEF n
      <3> QED
        BY <2>2, <2>3, <2>4, <2>5, <3>1
    <2> QED
      BY <2>1, <2>6 DEF y
  <1>7. \A i \in 0 .. n : i \in T
    <2> HIDE DEF T
    <2> QED
      BY <1>2, <1>5, <1>6, Inductive
  <1>8. n \in T
    BY <1>2, <1>7
  <1> QED
    BY <1>3, <1>8

(***************************************************************************)
(* An operator that is joined with the provenance of its input             *)
(***************************************************************************)
\* Each row of orel is in the join.
Joins(how, orel, rel, on) ==
    how = "LEFT_OUTER" \/ \A x \in ToSet(orel) : \E y \in ToSet(rel) : Satisfies(on, x, y)

LEMMA JoinKept ==
    ASSUME NEW n \in Nat, NEW w \in Nat, NEW orel \in Relations(n), NEW rel \in Relations(w),
           NEW how, NEW on, NEW j, j = JoinOn(how, orel, rel, w, on)
    PROVE  j \in Relations(n + w) /\ (Joins(how, orel, rel, on) => Matched(j, orel, n))
  <1>1. /\ j \in Relations(n + w)
        /\ \A row : row \in ToSet(j) <=> \E x \in ToSet(orel) : JoinsTo(how, rel, w, on, x, row)
    BY JoinFacts
  <1>2. \A x \in ToSet(orel) : x \in [1 .. n -> Values]
    BY RowsOf
  <1>3. \A y \in ToSet(rel) : y \in [1 .. w -> Values]
    BY RowsOf
  <1>4. NullRow(w) \in [1 .. w -> Values]
    BY NullRowOk
  <1>5. ASSUME NEW x \in ToSet(orel), NEW row, JoinsTo(how, rel, w, on, x, row)
        PROVE  Agree(n, x, row)
    <2>1. PICK y \in [1 .. w -> Values] : row = x \o y
      BY <1>3, <1>4, <1>5 DEF JoinsTo
    <2>2. \A k \in 1 .. n : (x \o y)[k] = x[k]
      BY <1>2, RowConcat
    <2> QED
      BY <2>1, <2>2 DEF Agree
  <1>6. \A row \in ToSet(j) : HasRow(orel, n, row)
    BY <1>1, <1>5 DEF HasRow
  <1>7. ASSUME Joins(how, orel, rel, on), NEW x \in ToSet(orel) PROVE HasRow(j, n, x)
    <2>1. \E row : JoinsTo(how, rel, w, on, x, row)
      BY <1>7 DEF Joins, JoinsTo
    <2>2. PICK row : JoinsTo(how, rel, w, on, x, row)
      BY <2>1
    <2>3. row \in ToSet(j) /\ Agree(n, x, row)
      BY <1>1, <1>5, <2>2
    <2> QED
      BY <2>3 DEF HasRow, Agree
  <1> QED
    BY <1>1, <1>6, <1>7 DEF Matched

\* The copy of operator o and the join that is put on top of graph g.
BackJoined(h, o, join, schema, provAttrs, w) ==
    /\ GraphOk(h) /\ NodesOk(h) /\ Len(h) \in DOMAIN h /\ h[Len(h)] = join
    /\ join.schema = schema /\ join.provAttrs = provAttrs
    /\ join.rel \in Relations(Len(o.schema) + w)

LEMMA CopyNode ==
    ASSUME NEW g, NEW o, NEW n, n = OpCopy(o)
    PROVE  /\ IsNewNode(g, n) /\ n.type = "Copy" /\ n.schema = o.schema
           /\ n.width = Len(o.schema) /\ n.rel = o.rel
  <1>1. IsNewNode(g, OpCopy(o))
    BY NewCopy
  <1> QED
    BY <1>1 DEF OpCopy, Node

LEMMA Copied ==
    ASSUME NEW g, GraphOk(g), NodesOk(g), NEW o, DataOk(query, o), NEW h, h = Attach(g, OpCopy(o))
    PROVE  /\ GraphOk(h) /\ NodesOk(h) /\ Len(h) \in DOMAIN h /\ DOMAIN g \subseteq DOMAIN h
           /\ \A k \in DOMAIN g : SameButParents(h[k], g[k])
           /\ h[Len(h)].schema = o.schema /\ h[Len(h)].width = Len(o.schema)
           /\ h[Len(h)].rel = o.rel
  <1> DEFINE n == OpCopy(o)
  <1>1. /\ IsNewNode(g, n) /\ n.type = "Copy" /\ n.schema = o.schema
        /\ n.width = Len(o.schema) /\ n.rel = o.rel
    BY CopyNode
  <1>2. h = Attach(g, n)
    OBVIOUS
  <1> HIDE DEF n
  <1>3. Grown(g, h, n)
    BY ONLY <1>1, <1>2, Grows, GraphOk(g)
  <1>4. NodeOk(g, n)
    <2>1. o.schema \in Seq(AttrNames)
      BY SchemaFacts
    <2>2. IsSeq(o.schema)
      BY <2>1, SeqIsSeq
    <2> QED
      BY <1>1, <2>2 DEF NodeOk
  <1> QED
    BY <1>1, <1>3, <1>4 DEF Grown

\* Graph c has the copy, q joins it with node y of g.
BackSetup(g, o, y, c, how, on, q) ==
    /\ GraphOk(g) /\ NodesOk(g) /\ DataOk(query, o) /\ y \in DOMAIN g
    /\ c = Attach(g, OpCopy(o)) /\ q = Join(c, how, Len(c), y, on)

\* Graph h has the join, with names s and provenance attributes v.
JoinSetup(c, q, join, s, v, n, h) ==
    /\ s \in Seq(NodeNames) /\ Len(s) = n /\ IsSeq(v)
    /\ IsNewNode(c, join) /\ Renewed(join, q, s, v)
    /\ h = Attach(c, join) \/ h = AttachAlone(c, join)

LEMMA BackJoin ==
    ASSUME NEW g, NEW o, NEW y, NEW c, NEW how, NEW on, NEW q, BackSetup(g, o, y, c, how, on, q),
           NEW w \in Nat, g[y].width = w, g[y].rel \in Relations(w),
           NEW join, NEW s, NEW v, NEW h, JoinSetup(c, q, join, s, v, Len(o.schema) + w, h)
    PROVE  /\ BackJoined(h, o, join, s, v, w)
           /\ Joins(how, o.rel, g[y].rel, on) => Matched(join.rel, o.rel, Len(o.schema))
  <1> DEFINE n == Len(o.schema)
             r == g[y]
  <1>a. /\ GraphOk(g) /\ NodesOk(g) /\ DataOk(query, o) /\ y \in DOMAIN g
        /\ c = Attach(g, OpCopy(o)) /\ q = Join(c, how, Len(c), y, on)
    BY DEF BackSetup
  <1>b. /\ s \in Seq(NodeNames) /\ Len(s) = n + w /\ IsSeq(v)
        /\ IsNewNode(c, join) /\ Renewed(join, q, s, v)
        /\ h = Attach(c, join) \/ h = AttachAlone(c, join)
    BY DEF JoinSetup
  <1>1. n \in Nat /\ o.rel \in Relations(n)
    BY <1>a, SchemaFacts
  <1>2. /\ GraphOk(c) /\ NodesOk(c) /\ Len(c) \in DOMAIN c /\ DOMAIN g \subseteq DOMAIN c
        /\ \A k \in DOMAIN g : SameButParents(c[k], g[k])
        /\ c[Len(c)].schema = o.schema /\ c[Len(c)].width = Len(o.schema)
        /\ c[Len(c)].rel = o.rel
    BY <1>a, Copied
  <1>3. y \in DOMAIN c /\ c[y].schema = r.schema /\ c[y].width = w /\ c[y].rel = r.rel
    BY <1>a, <1>2, SameFields
  <1>4. JoinIs(q, c, how, Len(c), y, on)
    BY <1>a, <1>2, <1>3, JoinNode
  <1>5. /\ q.schema = o.schema \o r.schema /\ q.width = n + w /\ q.type = "Join"
        /\ q.rel = JoinOn(how, o.rel, r.rel, w, on)
    BY <1>2, <1>3, <1>4 DEF JoinIs
  <1>6. /\ join.schema = s /\ join.provAttrs = v /\ join.width = n + w /\ join.type = "Join"
        /\ join.rel = JoinOn(how, o.rel, r.rel, w, on)
    BY <1>b, <1>5 DEF Renewed
  <1>7. r.rel \in Relations(w)
    OBVIOUS
  <1> HIDE DEF n, r
  <1>8. join.rel \in Relations(n + w) /\ (Joins(how, o.rel, r.rel, on) => Matched(join.rel, o.rel, n))
    BY <1>1, <1>6, <1>7, JoinKept
  <1>9. NodeOk(c, join)
    <2>1. IsSeq(s)
      BY <1>b, SeqIsSeq
    <2> QED
      BY <1>b, <1>6, <2>1 DEF NodeOk, n
  <1>10. Grown(c, h, join)
    BY <1>b, <1>2, Grows
  <1>11. /\ GraphOk(h) /\ NodesOk(h) /\ Len(h) \in DOMAIN h /\ h[Len(h)] = join
    BY <1>2, <1>9, <1>10 DEF Grown
  <1>12. BackJoined(h, o, join, s, v, w)
    BY <1>6, <1>8, <1>11 DEF BackJoined, n
  <1> QED
    BY <1>5, <1>8, <1>12 DEF n, r

\* A projection e of node x to the attributes of operator o, then p.
BackProjection(g, m, x, o, e, p) ==
    /\ IsNewNode(g, m) /\ m.type = "Projection" /\ m.schema = o.schema \o p
    /\ m.width = Len(e) /\ m.rel = Project(g[x].rel, e)
    /\ m.provAttrs = IntSeq(Len(o.schema) + 1, Len(o.schema) + Len(p))
    /\ Len(e) = Len(o.schema) + Len(p) /\ \A k \in 1 .. Len(o.schema) : e[k] = k

LEMMA BackResult ==
    ASSUME NEW g, GraphOk(g), NodesOk(g), NEW o, DataOk(query, o), NEW x \in DOMAIN g,
           NEW w \in Nat, g[x].rel \in Relations(w), NEW e \in Seq(0 .. w),
           NEW p \in Seq(ProvAttrNames), NEW m, BackProjection(g, m, x, o, e, p),
           NEW info, IsSeq(info), NEW h, h = Attach(g, m), NEW k, k = WithInfo(h, info)
    PROVE  /\ Result(h, o, p) /\ Result(k, o, p)
           /\ Matched(g[x].rel, o.rel, Len(o.schema)) =>
                SameRows(h[Len(h)], o) /\ SameRows(k[Len(k)], o)
  <1> DEFINE a == o.schema
             rel == g[x].rel
  <1>1. a \in Seq(AttrNames) /\ Len(a) \in Nat /\ Len(a) >= 1 /\ o.rel \in Relations(Len(a))
    BY SchemaFacts
  <1>2. /\ IsNewNode(g, m) /\ m.type = "Projection" /\ m.schema = a \o p
        /\ m.width = Len(e) /\ m.rel = Project(rel, e)
        /\ m.provAttrs = IntSeq(Len(a) + 1, Len(a) + Len(p))
        /\ Len(e) = Len(a) + Len(p) /\ \A j \in 1 .. Len(a) : e[j] = j
    BY DEF BackProjection
  <1>3. a \in Seq(NodeNames) /\ p \in Seq(NodeNames)
    BY <1>1, NameSets, SeqWider
  <1>4. Len(p) \in Nat
    BY SeqIsSeq
  <1>5. rel \in Relations(w)
    OBVIOUS
  <1> HIDE DEF a, rel
  <1>6. Parts(m, a, p) /\ NodeOk(g, m)
    BY <1>2, <1>3, <1>5, PartsOfProjection
  <1>7. Fits(a, o)
    BY <1>1 DEF Fits, a
  <1>8. /\ Result(h, o, p) /\ Result(k, o, p)
        /\ Matched(m.rel, o.rel, Len(a)) => SameRows(h[Len(h)], o) /\ SameRows(k[Len(k)], o)
    <2>1. /\ GraphOk(g) /\ NodesOk(g) /\ IsSeq(info) /\ h = Attach(g, m) /\ k = WithInfo(h, info)
          /\ p \in Seq(ProvAttrNames)
      OBVIOUS
    <2>2. IsNewNode(g, m) /\ NodeOk(g, m) /\ Parts(m, a, p) /\ Fits(a, o)
      BY <1>2, <1>6, <1>7
    <2>3. o.rel \in Relations(Len(o.schema))
      BY <1>1 DEF a
    <2>4. /\ Result(h, o, p) /\ Result(k, o, p)
          /\ Matched(m.rel, o.rel, Len(o.schema)) =>
               SameRows(h[Len(h)], o) /\ SameRows(k[Len(k)], o)
      BY ONLY <2>1, <2>2, <2>3, NewResult
    <2> QED
      BY <2>4 DEF a
  <1>9. ASSUME Matched(rel, o.rel, Len(a)) PROVE Matched(m.rel, o.rel, Len(a))
    <2>1. Len(a) <= Len(e)
      BY <1>1, <1>2, <1>4
    <2>2. Matched(Project(rel, e), o.rel, Len(a))
      BY <1>1, <1>2, <1>5, <1>9, <2>1, PrefixMatched
    <2> QED
      BY <1>2, <2>2
  <1> QED
    BY ONLY <1>8, <1>9 DEF a, rel

LEMMA ProvNamesSuffixable == Suffixable(ProvAttrNames)
  <1> DEFINE S == Seq(Words)
  <1> HIDE DEF S
  <1>1. ProvAttrNames = ProvPrefixes \X Int \X S \X Seq(Nat)
    BY DEF ProvAttrNames, S
  <1>2. ASSUME NEW a \in ProvAttrNames PROVE a[4] \in Seq(Nat)
    BY <1>1
  <1>3. ASSUME NEW a \in ProvAttrNames, NEW i \in Nat PROVE Suffixed(a, i) \in ProvAttrNames
    <2>1. Append(a[4], i) \in Seq(Nat)
      BY <1>2
    <2> QED
      BY <1>1, <2>1 DEF Suffixed
  <1> QED
    BY <1>2, <1>3 DEF Suffixable

\* The names s and provenance attributes v of the join, b2 those names.
BackNamed(s, v, b2, m, n) ==
    /\ s \in Seq(NodeNames) /\ Len(s) = m + n /\ IsSeq(v) /\ v \in Seq(0 .. m + n)
    /\ b2 \in Seq(ProvAttrNames) /\ Len(b2) = Len(v)

\* The provenance attributes of r after n attributes; names by position.
Shifted(r, n) == [k \in DOMAIN r.provAttrs |-> r.provAttrs[k] + n]
\* The names at these positions.
NamesAt(s, v) == [k \in DOMAIN v |-> s[v[k]]]

LEMMA BackNames ==
    ASSUME NEW a \in Seq(AttrNames), NEW r, NEW u, NEW b, Parts(r, u, b), b \in Seq(ProvAttrNames),
           NEW s, s = makeNamesUnique(a \o r.schema),
           NEW v, v = Shifted(r, Len(a)), NEW b2, b2 = NamesAt(s, v)
    PROVE  BackNamed(s, v, b2, Len(a), Len(u) + Len(b)) /\ Len(v) = Len(b)
  <1> DEFINE la == Len(a)
             lu == Len(u)
             lb == Len(b)
             names == a \o r.schema
             w == la + (lu + lb)
  <1>1. la \in Nat /\ IsSeq(a)
    BY SeqIsSeq
  <1>2. /\ lu \in Nat /\ lb \in Nat /\ Len(r.schema) = lu + lb
        /\ \A k \in 1 .. lb : r.schema[lu + k] = b[k]
        /\ DOMAIN r.provAttrs = 1 .. lb /\ \A k \in 1 .. lb : r.provAttrs[k] = lu + k
    BY PartsFacts
  <1>3. r.schema \in Seq(NodeNames)
    <2>1. u \in Seq(NodeNames) /\ b \in Seq(NodeNames) /\ r.schema = u \o b
      BY DEF Parts
    <2> QED
      BY <2>1, ConcatFacts
  <1>4. a \in Seq(NodeNames)
    BY NameSets, SeqWider
  <1>5. /\ names \in Seq(NodeNames) /\ Len(names) = w
        /\ \A k \in 1 .. lu + lb : names[la + k] = r.schema[k]
    <2> HIDE DEF lu, lb
    <2>1. /\ names \in Seq(NodeNames) /\ Len(names) = Len(a) + Len(r.schema)
          /\ \A k \in 1 .. Len(r.schema) : names[Len(a) + k] = r.schema[k]
      BY <1>3, <1>4, ConcatFacts
    <2> QED
      BY <1>2, <2>1
  <1>6. s \in Seq(NodeNames) /\ Len(s) = w
    <2>1. s = makeNamesUnique(names) /\ Suffixable(NodeNames)
      BY NameSets
    <2> HIDE DEF names
    <2>2. s \in Seq(NodeNames) /\ Len(s) = Len(names)
      BY ONLY <1>5, <2>1, UniqueNames
    <2> QED
      BY <1>5, <2>2
  <1> DEFINE K == {la + (lu + k) : k \in 1 .. lb}
  <1>7. \A k \in K : k \in 1 .. w /\ names[k] \in ProvAttrNames
    <2> SUFFICES ASSUME NEW k \in 1 .. lb
                 PROVE  la + (lu + k) \in 1 .. w /\ names[la + (lu + k)] \in ProvAttrNames
      OBVIOUS
    <2>1. la + (lu + k) \in 1 .. w /\ lu + k \in 1 .. lu + lb
      BY <1>1, <1>2
    <2>2. names[la + (lu + k)] = b[k]
      <3> HIDE DEF names, la, lu, lb
      <3> QED
        BY <1>2, <1>5, <2>1
    <2>3. b[k] \in ProvAttrNames
      BY SeqIsSeq
    <2> QED
      BY <2>1, <2>2, <2>3
  <1>8. \A k \in K : s[k] \in ProvAttrNames
    <2>1. s = makeNamesUnique(names) /\ Suffixable(NodeNames) /\ Suffixable(ProvAttrNames)
      BY NameSets, ProvNamesSuffixable
    <2>2. \A k \in K : k \in 1 .. Len(names) /\ names[k] \in ProvAttrNames
      BY <1>5, <1>7
    <2> HIDE DEF names, K
    <2> QED
      BY ONLY <1>5, <2>1, <2>2, UniqueKind
  <1>9. \A k \in 1 .. lb : la + (lu + k) \in K
    OBVIOUS
  <1> HIDE DEF la, lu, lb, w, K
  <1>10. v = [k \in 1 .. lb |-> r.provAttrs[k] + la]
    BY <1>2 DEF la, Shifted
  <1>11. DOMAIN v = 1 .. lb /\ \A k \in 1 .. lb : v[k] = la + (lu + k)
    <2>1. \A k \in 1 .. lb : r.provAttrs[k] + la = la + (lu + k)
      BY <1>1, <1>2
    <2> QED
      BY <1>10, <2>1
  <1>12. \A k \in 1 .. lb : v[k] \in 0 .. w
    <2>1. \A k \in 1 .. lb : la + (lu + k) \in 0 .. w
      BY <1>1, <1>2 DEF w
    <2> QED
      BY <1>11, <2>1
  <1>13. v \in Seq(0 .. w) /\ Len(v) = lb
    <2> DEFINE W == 0 .. w
    <2>1. v \in [1 .. lb -> W]
      BY <1>10, <1>12
    <2> HIDE DEF W
    <2>2. v \in Seq(W) /\ Len(v) = lb
      BY <1>2, <2>1, SeqOfFn
    <2> QED
      BY <2>2 DEF W
  <1>14. IsSeq(v)
    BY <1>13, SeqIsSeq
  <1>15. b2 \in Seq(ProvAttrNames) /\ Len(b2) = lb
    <2>1. \A k \in 1 .. lb : s[v[k]] \in ProvAttrNames
      BY <1>8, <1>9, <1>11
    <2>2. b2 \in [1 .. lb -> ProvAttrNames]
      BY <1>11, <2>1 DEF NamesAt
    <2> QED
      BY <1>2, <2>2, SeqOfFn
  <1>16. BackNamed(s, v, b2, la, lu + lb)
    <2>1. s \in Seq(NodeNames) /\ Len(s) = la + (lu + lb) /\ v \in Seq(0 .. la + (lu + lb))
      BY <1>6, <1>13 DEF w
    <2> QED
      BY <1>13, <1>14, <1>15, <2>1 DEF BackNamed
  <1> QED
    BY <1>13, <1>16 DEF la, lu, lb

LEMMA BackSchema ==
    ASSUME NEW g, NEW o, NEW y, NEW c, NEW how, NEW on, NEW q, BackSetup(g, o, y, c, how, on, q)
    PROVE  q.schema = o.schema \o g[y].schema /\ IsNewNode(c, q) /\ DOMAIN q = NodeFields
  <1>a. /\ GraphOk(g) /\ NodesOk(g) /\ DataOk(query, o) /\ y \in DOMAIN g
        /\ c = Attach(g, OpCopy(o)) /\ q = Join(c, how, Len(c), y, on)
    BY DEF BackSetup
  <1>1. /\ Len(c) \in DOMAIN c /\ DOMAIN g \subseteq DOMAIN c
        /\ \A k \in DOMAIN g : SameButParents(c[k], g[k])
        /\ c[Len(c)].schema = o.schema
    BY <1>a, Copied
  <1>2. y \in DOMAIN c /\ c[y].schema = g[y].schema
    BY <1>a, <1>1, SameFields
  <1>3. JoinIs(q, c, how, Len(c), y, on)
    BY <1>a, <1>1, <1>2, JoinNode
  <1> QED
    BY <1>1, <1>2, <1>3 DEF JoinIs

\* The join on top of the input y, its names made unique.
BackNode(g, o, y, c, q, u, b, s, v, join, h) ==
    /\ Parts(g[y], u, b) /\ b \in Seq(ProvAttrNames)
    /\ s = makeNamesUnique(q.schema) /\ v = Shifted(g[y], Len(o.schema))
    /\ join = [q EXCEPT !.schema = s, !.provAttrs = v]
    /\ h = Attach(c, join) \/ h = AttachAlone(c, join)

LEMMA BackOver ==
    ASSUME NEW g, NEW o, NEW y, NEW c, NEW how, NEW on, NEW q, BackSetup(g, o, y, c, how, on, q),
           NEW u, NEW b, NEW s, NEW v, NEW join, NEW h,
           BackNode(g, o, y, c, q, u, b, s, v, join, h)
    PROVE  /\ BackJoined(h, o, join, s, v, Len(u) + Len(b))
           /\ BackNamed(s, v, ProvNames(join), Len(o.schema), Len(u) + Len(b)) /\ Len(v) = Len(b)
           /\ DOMAIN q = NodeFields
           /\ Joins(how, o.rel, g[y].rel, on) => Matched(join.rel, o.rel, Len(o.schema))
  <1> DEFINE r == g[y]
             a == o.schema
             w == Len(u) + Len(b)
             b2 == ProvNames(join)
  <1>0. /\ Parts(g[y], u, b) /\ b \in Seq(ProvAttrNames)
        /\ s = makeNamesUnique(q.schema) /\ v = Shifted(g[y], Len(o.schema))
        /\ join = [q EXCEPT !.schema = s, !.provAttrs = v]
        /\ h = Attach(c, join) \/ h = AttachAlone(c, join)
    BY DEF BackNode
  <1>1. q.schema = a \o r.schema /\ IsNewNode(c, q) /\ DOMAIN q = NodeFields
    BY BackSchema
  <1>2. a \in Seq(AttrNames)
    BY SchemaFacts DEF BackSetup
  <1>3. Parts(r, u, b)
    BY <1>0
  <1>4. Len(u) \in Nat /\ Len(b) \in Nat /\ r.width = w /\ r.rel \in Relations(w)
    <2> HIDE DEF r
    <2> QED
      BY <1>3, PartsFacts
  <1>5. Renewed(join, q, s, v)
    BY <1>0, <1>1, NodeChanges
  <1>6. b2 = NamesAt(s, v)
    BY <1>5 DEF ProvNames, Renewed, NamesAt
  <1>7. BackNamed(s, v, b2, Len(a), w) /\ Len(v) = Len(b)
    <2>1. s = makeNamesUnique(a \o r.schema)
      BY <1>0, <1>1
    <2>2. v = Shifted(r, Len(a))
      BY <1>0
    <2>3. b \in Seq(ProvAttrNames)
      BY <1>0
    <2> HIDE DEF r, a, b2
    <2>4. BackNamed(s, v, b2, Len(a), Len(u) + Len(b)) /\ Len(v) = Len(b)
      BY ONLY <1>2, <1>3, <1>6, <2>1, <2>2, <2>3, BackNames
    <2> QED
      BY <2>4
  <1>8. IsNewNode(c, join)
    BY <1>0, <1>1, ChangedNode
  <1>9. /\ BackJoined(h, o, join, s, v, w)
        /\ Joins(how, o.rel, r.rel, on) => Matched(join.rel, o.rel, Len(o.schema))
    <2>1. JoinSetup(c, q, join, s, v, Len(o.schema) + w, h)
      BY <1>0, <1>5, <1>7, <1>8 DEF BackNamed, JoinSetup
    <2>2. BackSetup(g, o, y, c, how, on, q)
      OBVIOUS
    <2>3. w \in Nat /\ g[y].width = w /\ g[y].rel \in Relations(w)
      BY <1>4
    <2> HIDE DEF w
    <2>4. /\ BackJoined(h, o, join, s, v, w)
          /\ Joins(how, o.rel, g[y].rel, on) => Matched(join.rel, o.rel, Len(o.schema))
      BY ONLY <2>1, <2>2, <2>3, BackJoin
    <2> QED
      BY <2>4
  <1> QED
    BY <1>1, <1>7, <1>9

\* The positions of a projection of the join: the attributes of the operator,
\* then those in v, then NULLs.
InBack(n, w, v, t, e) ==
    /\ n \in Nat /\ w \in Nat /\ n <= w /\ v \in Seq(0 .. w) /\ t \in Seq(0 .. w)
    /\ (IntSeq(1, n) \o v) \o t = e

LEMMA BackPositions ==
    ASSUME NEW n, NEW w, NEW v, NEW t, NEW e, InBack(n, w, v, t, e)
    PROVE  /\ e \in Seq(0 .. w) /\ Len(e) = n + Len(v) + Len(t) /\ \A k \in 1 .. n : e[k] = k
           /\ Len(v) \in Nat /\ Len(t) \in Nat
  <1> DEFINE s == IntSeq(1, n)
             sv == s \o v
  <1>0. /\ n \in Nat /\ w \in Nat /\ n <= w /\ v \in Seq(0 .. w) /\ t \in Seq(0 .. w)
        /\ s \o v \o t = e
    BY DEF InBack
  <1>1. s \in Seq(1 .. n) /\ Len(s) = n /\ \A k \in 1 .. n : s[k] = k
    BY <1>0, FirstInts
  <1> HIDE DEF s
  <1>2. s \in Seq(0 .. w)
    BY <1>0, <1>1, WiderPositions
  <1>3. /\ sv \in Seq(0 .. w) /\ Len(sv) = Len(s) + Len(v) /\ Len(v) \in Nat
        /\ \A k \in 1 .. Len(s) : sv[k] = s[k]
    BY <1>0, <1>2, PositionsJoined
  <1>4. e = sv \o t
    BY <1>0 DEF s
  <1> HIDE DEF sv
  <1>5. /\ e \in Seq(0 .. w) /\ Len(e) = Len(sv) + Len(t) /\ Len(t) \in Nat
        /\ \A k \in 1 .. Len(sv) : e[k] = sv[k]
    <2>1. w \in Nat /\ sv \in Seq(0 .. w) /\ t \in Seq(0 .. w)
      BY <1>0, <1>3
    <2> QED
      BY ONLY <1>4, <2>1, PositionsJoined
  <1>6. \A k \in 1 .. n : k \in 1 .. Len(sv)
    BY <1>1, <1>3
  <1> QED
    BY <1>0, <1>1, <1>3, <1>5, <1>6

\* Each row of a difference has a row in the rewriting of the left input.
LEMMA DifferenceJoins ==
    ASSUME NEW n \in Nat, NEW i \in Relations(n), NEW j \in Relations(n),
           NEW orel, orel = ExceptAll(i, j), NEW rel, Matched(rel, i, n),
           NEW on, on = On(IntSeq(1, n), IntSeq(1, n), TRUE)
    PROVE  Joins("INNER", orel, rel, on)
  <1>1. \A x, y : Agree(n, y, x) => Satisfies(on, x, y)
    <2>1. DOMAIN IntSeq(1, n) = 1 .. n /\ \A k \in 1 .. n : IntSeq(1, n)[k] = k
      BY FirstInts
    <2> DEFINE q == IntSeq(1, n)
    <2> HIDE DEF q
    <2> QED
      BY <2>1 DEF Satisfies, On, q, IsNotDistinct, Agree
  <1>2. \A x \in ToSet(orel) : x \in ToSet(i)
    BY SetOpFacts
  <1>3. \A x \in ToSet(i) : \E y \in ToSet(rel) : Agree(n, y, x)
    BY DEF Matched, HasRow
  <1> QED
    BY ONLY <1>1, <1>2, <1>3 DEF Joins

\* What the difference adds to its projection.
LEMMA AddedTwice ==
    ASSUME NEW proj, DOMAIN proj = NodeFields, proj.provAttrs = << >>,
           NEW n, n = Len(proj.schema), n \in Nat, IsSeq(proj.schema),
           NEW c, NEW b, ProvNames(c) = b, Len(c.provAttrs) = Len(b), b \in Seq(ProvAttrNames),
           NEW r, NEW d, ProvNames(r) = d, Len(r.provAttrs) = Len(d), d \in Seq(ProvAttrNames),
           NEW m1, m1 = addProvenanceAttrsToSchema(proj, c),
           NEW m2, m2 = addProvenanceAttrsToSchema(m1, r)
    PROVE  Renewed(m2, proj, proj.schema \o (b \o d), IntSeq(n + 1, n + Len(b \o d)))
  <1> DEFINE a == proj.schema
             ab == a \o b
             lb == Len(b)
             ld == Len(d)
  <1>1. IsSeq(b) /\ IsSeq(d) /\ lb \in Nat /\ ld \in Nat
    BY SeqIsSeq
  <1>2. Renewed(m1, proj, ab, proj.provAttrs \o IntSeq(Len(a) + 1, Len(a) + Len(b)))
    BY AddedProv
  <1>3. Len(ab) = n + lb /\ IsSeq(ab)
    <2> HIDE DEF lb
    <2>1. Len(ab) = Len(a) + Len(b) /\ IsSeq(ab)
      BY <1>1, ConcatSeq
    <2> QED
      BY <2>1 DEF lb
  <1>4. DOMAIN m1 = NodeFields /\ m1.schema = ab /\ m1.provAttrs = IntSeq(n + 1, n + lb)
    <2> DEFINE z == IntSeq(n + 1, n + lb)
    <2>1. IsSeq(z)
      <3> HIDE DEF lb
      <3> QED
        BY <1>1, IntSeqFacts
    <2>2. m1.provAttrs = << >> \o z
      BY <1>2 DEF Renewed
    <2> HIDE DEF z, ab
    <2>3. << >> \o z = z
      BY <2>1, EmptyConcat
    <2> QED
      BY <1>2, <2>2, <2>3 DEF Renewed, z
  <1>5. Renewed(m2, m1, m1.schema \o d, m1.provAttrs \o IntSeq(Len(m1.schema) + 1, Len(m1.schema) + Len(d)))
    <2> HIDE DEF a, ab, lb, ld
    <2> QED
      BY <1>4, AddedProv
  <1>6. ab \o d = a \o (b \o d)
    <2>1. IsSeq(a)
      OBVIOUS
    <2> HIDE DEF a
    <2> QED
      BY <1>1, <2>1, ConcatTwice
  <1>7. IntSeq(n + 1, n + lb) \o IntSeq(n + lb + 1, n + lb + ld) = IntSeq(n + 1, n + lb + ld)
    <2> HIDE DEF lb, ld
    <2> QED
      BY <1>1, IntsJoined
  <1>8. Len(b \o d) = lb + ld
    <2> HIDE DEF a
    <2>1. Len(b \o d) = Len(b) + Len(d)
      BY <1>1, ConcatSeq
    <2> QED
      BY <2>1
  <1>9. IntSeq(n + 1, n + Len(b \o d)) = IntSeq(n + 1, n + lb + ld)
    <2> HIDE DEF lb, ld
    <2>0. lb \in Nat /\ ld \in Nat /\ n \in Nat
      BY <1>1
    <2>1. n + (lb + ld) = n + lb + ld
      BY ONLY <2>0
    <2> QED
      BY <1>8, <2>1
  <1>10. /\ m2.schema = a \o (b \o d)
         /\ m2.provAttrs = IntSeq(n + 1, n + lb) \o IntSeq(n + lb + 1, n + lb + ld)
    <2>1. m2.schema = ab \o d
      BY <1>4, <1>5 DEF Renewed
    <2>2. m2.provAttrs = IntSeq(n + 1, n + lb) \o IntSeq(Len(ab) + 1, Len(ab) + ld)
      BY <1>4, <1>5 DEF Renewed
    <2>3. Len(ab) + ld = n + lb + ld /\ Len(ab) + 1 = n + lb + 1
      BY <1>1, <1>3
    <2> HIDE DEF ab, lb, ld, a
    <2> QED
      BY <1>6, <2>1, <2>2, <2>3
  <1>11. m2.provAttrs = IntSeq(n + 1, n + Len(b \o d))
    BY <1>7, <1>9, <1>10
  <1> QED
    BY <1>2, <1>5, <1>10, <1>11 DEF Renewed

\* Node m is a projection of the last node of graph h to e, with attributes p
\* after those of operator o.
BackOnTop(h, o, e, p, m) ==
    /\ IsNewNode(h, m) /\ m.type = "Projection" /\ m.schema = o.schema \o p
    /\ m.width = Len(e) /\ m.rel = Project(h[Len(h)].rel, e)
    /\ m.provAttrs = IntSeq(Len(o.schema) + 1, Len(o.schema) + Len(p))

LEMMA OnTop ==
    ASSUME NEW h, Len(h) \in DOMAIN h, NEW e, NEW o, NEW names, NEW proj,
           proj = Projection(h, Len(h), e, names), NEW p, NEW m, IsNewNode(h, m),
           Renewed(m, proj, o.schema \o p, IntSeq(Len(o.schema) + 1, Len(o.schema) + Len(p)))
    PROVE  BackOnTop(h, o, e, p, m)
  <1>1. ProjectionIs(proj, h, Len(h), e, names)
    BY NewProjectionNode
  <1> QED
    BY <1>1 DEF ProjectionIs, Renewed, BackOnTop

\* The positions e in a join of width w, the names p of the result.
BackTo(o, w, v, t, e, p) ==
    /\ w \in Nat /\ t \in Seq(0 .. Len(o.schema) + w)
    /\ (IntSeq(1, Len(o.schema)) \o v) \o t = e
    /\ p \in Seq(ProvAttrNames) /\ Len(p) = Len(v) + Len(t)

LEMMA BackRule ==
    ASSUME NEW o, DataOk(query, o), NEW h, NEW join, NEW s, NEW v, NEW w,
           BackJoined(h, o, join, s, v, w), NEW b2, BackNamed(s, v, b2, Len(o.schema), w),
           NEW t, NEW e, NEW p, BackTo(o, w, v, t, e, p), NEW m, BackOnTop(h, o, e, p, m),
           NEW info, IsSeq(info), NEW k, k = Attach(h, m), NEW f, f = WithInfo(k, info)
    PROVE  /\ Result(k, o, p) /\ Result(f, o, p)
           /\ Matched(join.rel, o.rel, Len(o.schema)) => SameRows(k[Len(k)], o) /\ SameRows(f[Len(f)], o)
  <1> DEFINE n == Len(o.schema)
             nw == n + w
  <1>1. n \in Nat
    BY SchemaFacts
  <1>2. /\ w \in Nat /\ t \in Seq(0 .. nw) /\ e = (IntSeq(1, n) \o v) \o t
        /\ p \in Seq(ProvAttrNames) /\ Len(p) = Len(v) + Len(t)
    BY DEF BackTo
  <1>3. v \in Seq(0 .. nw)
    BY DEF BackNamed
  <1>4. /\ GraphOk(h) /\ NodesOk(h) /\ Len(h) \in DOMAIN h /\ h[Len(h)].rel = join.rel
        /\ h[Len(h)].rel \in Relations(nw)
    BY DEF BackJoined
  <1>5. nw \in Nat /\ n <= nw
    BY <1>1, <1>2
  <1> HIDE DEF nw
  <1>6. /\ e \in Seq(0 .. nw) /\ Len(e) = n + Len(v) + Len(t) /\ \A j \in 1 .. n : e[j] = j
        /\ Len(v) \in Nat /\ Len(t) \in Nat
    <2>1. InBack(n, nw, v, t, e)
      BY <1>1, <1>2, <1>3, <1>5 DEF InBack
    <2> HIDE DEF n
    <2> QED
      BY ONLY <2>1, BackPositions
  <1>7. BackProjection(h, m, Len(h), o, e, p)
    <2>1. Len(e) = n + Len(p)
      <3> HIDE DEF n
      <3> QED
        BY ONLY <1>1, <1>2, <1>6
    <2> QED
      BY <1>6, <2>1 DEF BackProjection, BackOnTop
  <1>8. DataOk(query, o) /\ IsSeq(info) /\ k = Attach(h, m) /\ f = WithInfo(k, info)
    OBVIOUS
  <1>9. /\ Result(k, o, p) /\ Result(f, o, p)
        /\ Matched(h[Len(h)].rel, o.rel, Len(o.schema)) =>
              SameRows(k[Len(k)], o) /\ SameRows(f[Len(f)], o)
    BY ONLY <1>2, <1>4, <1>5, <1>6, <1>7, <1>8, BackResult
  <1> QED
    BY <1>4, <1>9

\* The last node of a graph stands for an operator, with the provenance
\* attributes b and d of its inputs, of which a difference may rename some.
BothResult(h, o, b, d) ==
    \E p : /\ Result(h, o, p) /\ Len(p) = Len(b \o d)
           /\ IsInjective(b) => p = b \o d

LEMMA BothFrom ==
    ASSUME NEW h, NEW o, NEW b, NEW d, Result(h, o, b \o d)
    PROVE  BothResult(h, o, b, d)
  BY DEF BothResult

\* Names of provenance attributes that differ are not changed when the names
\* of a join are made unique.
LEMMA ProvNamesStay ==
    ASSUME NEW a \in Seq(AttrNames), NEW u \in Seq(AttrNames), NEW b \in Seq(ProvAttrNames),
           IsInjective(b), NEW r, Parts(r, u, b), NEW s, s = makeNamesUnique(a \o r.schema),
           NEW v, v = Shifted(r, Len(a))
    PROVE  NamesAt(s, v) = b
  <1> DEFINE la == Len(a)
             lu == Len(u)
             lb == Len(b)
             names == a \o r.schema
             w == la + (lu + lb)
  <1>1. /\ la \in Nat /\ IsSeq(a) /\ \A k \in 1 .. la : a[k] \in AttrNames
    BY SeqIsSeq
  <1>2. /\ lu \in Nat /\ lb \in Nat /\ Len(r.schema) = lu + lb
        /\ \A k \in 1 .. lu : r.schema[k] = u[k]
        /\ \A k \in 1 .. lb : r.schema[lu + k] = b[k]
        /\ DOMAIN r.provAttrs = 1 .. lb /\ \A k \in 1 .. lb : r.provAttrs[k] = lu + k
    BY ONLY Parts(r, u, b), PartsFacts
  <1>3. /\ \A k \in 1 .. lu : u[k] \in AttrNames
        /\ \A k \in 1 .. lb : b[k] \in ProvAttrNames
        /\ \A j, k \in 1 .. lb : b[j] = b[k] => j = k
        /\ DOMAIN b = 1 .. lb /\ b = [k \in 1 .. lb |-> b[k]]
    BY SeqIsSeq DEF IsInjective, IsSeq
  <1>4. r.schema \in Seq(NodeNames) /\ a \in Seq(NodeNames)
    <2>1. u \in Seq(NodeNames) /\ b \in Seq(NodeNames) /\ r.schema = u \o b
      BY DEF Parts
    <2> QED
      BY <2>1, ConcatFacts, NameSets, SeqWider
  <1>5. /\ names \in Seq(NodeNames) /\ Len(names) = w
        /\ \A k \in 1 .. la : names[k] = a[k]
        /\ \A k \in 1 .. lu + lb : names[la + k] = r.schema[k]
    <2> HIDE DEF lu, lb
    <2>1. /\ names \in Seq(NodeNames) /\ Len(names) = Len(a) + Len(r.schema)
          /\ \A k \in 1 .. Len(a) : names[k] = a[k]
          /\ \A k \in 1 .. Len(r.schema) : names[Len(a) + k] = r.schema[k]
      BY <1>4, ConcatFacts
    <2> QED
      BY <1>2, <2>1
  <1>6. s = makeNamesUnique(names) /\ Suffixable(NodeNames) /\ v = [k \in DOMAIN r.provAttrs |-> r.provAttrs[k] + la]
    BY NameSets DEF Shifted
  <1> HIDE DEF la, lu, lb, names, w
  <1>7. \A k \in 1 .. w : (\A j \in 1 .. k - 1 : names[j] # names[k]) => s[k] = names[k]
    BY ONLY <1>5, <1>6, UniqueNames
  <1>8. \A j \in 1 .. la + lu : names[j] \in AttrNames
    <2> TAKE j \in 1 .. la + lu
    <2>1. CASE j <= la
      <3>1. j \in 1 .. la
        BY <1>1, <1>2, <2>1
      <3> QED
        BY <1>1, <1>5, <3>1
    <2>2. CASE ~ j <= la
      <3>1. PICK i \in 1 .. lu : j = la + i
        <4>1. j - la \in 1 .. lu /\ j = la + (j - la)
          BY <1>1, <1>2, <2>2
        <4> QED
          BY <4>1
      <3>2. i \in 1 .. lu + lb
        BY <1>2
      <3> QED
        BY <1>2, <1>3, <1>5, <3>1, <3>2
    <2> QED
      BY <2>1, <2>2
  <1>9. \A i \in 1 .. lb : \A j : j = la + (lu + i) => j \in 1 .. w /\ names[j] = b[i]
    <2> TAKE i \in 1 .. lb
    <2>1. PICK m : m = lu + i
      OBVIOUS
    <2>2. m \in 1 .. lu + lb /\ la + m \in 1 .. w
      BY <1>1, <1>2, <2>1 DEF w
    <2>3. names[la + m] = r.schema[m] /\ r.schema[m] = b[i]
      BY <1>2, <1>5, <2>1, <2>2
    <2> QED
      BY <2>1, <2>2, <2>3
  <1>10. ASSUME NEW k \in 1 .. lb, NEW p, p = la + (lu + k)
         PROVE  s[p] = b[k]
    <2>1. p \in 1 .. w /\ names[p] = b[k] /\ b[k] \in ProvAttrNames
      BY <1>3, <1>9, <1>10
    <2>2. ASSUME NEW j \in 1 .. p - 1 PROVE names[j] # names[p]
      <3>1. CASE j <= la + lu
        <4>1. names[j] \in AttrNames
          BY <1>1, <1>2, <1>8, <3>1
        <4> QED
          BY <2>1, <4>1, NameSets
      <3>2. CASE ~ j <= la + lu
        <4>1. PICK i \in 1 .. lb : j = la + (lu + i) /\ i # k
          <5>1. /\ j - (la + lu) \in 1 .. lb /\ j = la + (lu + (j - (la + lu)))
                /\ j - (la + lu) # k
            BY <1>1, <1>2, <1>10, <2>2, <3>2
          <5> QED
            BY <5>1
        <4>2. names[j] = b[i]
          BY <1>9, <4>1
        <4> QED
          BY <1>3, <2>1, <4>1, <4>2
      <3> QED
        BY <3>1, <3>2
    <2> QED
      BY <1>7, <2>1, <2>2
  <1>11. \A k \in 1 .. lb : v[k] = la + (lu + k)
    <2>1. \A k \in 1 .. lb : v[k] = r.provAttrs[k] + la
      BY <1>2, <1>6
    <2> TAKE k \in 1 .. lb
    <2>2. v[k] = (lu + k) + la
      BY <1>2, <2>1
    <2>3. (lu + k) + la = la + (lu + k)
      BY <1>1, <1>2
    <2> QED
      BY <2>2, <2>3
  <1>12. DOMAIN v = 1 .. lb
    BY <1>2, <1>6
  <1>13. NamesAt(s, v) = [k \in 1 .. lb |-> s[v[k]]]
    BY <1>12 DEF NamesAt
  <1>14. \A k \in 1 .. lb : s[v[k]] = b[k]
    BY <1>10, <1>11
  <1> QED
    BY <1>3, <1>13, <1>14

LEMMA BackNamesKept ==
    ASSUME NEW g, NEW o, NEW y, NEW c, NEW how, NEW on, NEW q, BackSetup(g, o, y, c, how, on, q),
           NEW u \in Seq(AttrNames), NEW b, IsInjective(b), NEW s, NEW v, NEW join, NEW h,
           BackNode(g, o, y, c, q, u, b, s, v, join, h)
    PROVE  ProvNames(join) = b
  <1> DEFINE r == g[y]
             a == o.schema
  <1>0. /\ Parts(r, u, b) /\ b \in Seq(ProvAttrNames)
        /\ s = makeNamesUnique(q.schema) /\ v = Shifted(r, Len(a))
        /\ join = [q EXCEPT !.schema = s, !.provAttrs = v]
    BY DEF BackNode
  <1>1. q.schema = a \o r.schema /\ IsNewNode(c, q) /\ DOMAIN q = NodeFields
    BY ONLY BackSetup(g, o, y, c, how, on, q), BackSchema
  <1>2. a \in Seq(AttrNames)
    BY SchemaFacts DEF BackSetup
  <1> HIDE DEF r, a
  <1>3. Renewed(join, q, s, v)
    BY <1>0, <1>1, NodeChanges
  <1>4. ProvNames(join) = NamesAt(s, v)
    BY <1>3 DEF ProvNames, Renewed, NamesAt
  <1>5. s = makeNamesUnique(a \o r.schema)
    BY <1>0, <1>1
  <1>6. NamesAt(s, v) = b
    BY ONLY <1>0, <1>2, <1>5, u \in Seq(AttrNames), IsInjective(b), ProvNamesStay
  <1> QED
    BY <1>4, <1>6

LEMMA DifferenceRule ==
    ASSUME NEW g, GraphOk(g), NodesOk(g), NEW o, InputsOk(query, o), DataOk(query, o),
           o.type = "Set", o.how = "DIFFERENCE",
           NEW x \in DOMAIN g, NEW y \in DOMAIN g, NEW ins, ins = << x, y >>,
           NEW i, i = query[o.in[1]], NEW b, InputIs(g[x], i, i.schema, b),
           NEW j, j = query[o.in[2]], NEW d, InputIs(g[y], j, j.schema, d),
           NEW info, IsSeq(info), NEW h, h = WithInfo(rewriteDifference(g, o, ins), info)
    PROVE  /\ BothResult(h, o, b, d)
           /\ SameRows(g[x], i) /\ SameRows(g[y], j) => SameRows(h[Len(h)], o)
  <1> DEFINE l == g[x]
             r == g[y]
             n == Len(o.schema)
             c == Attach(g, OpCopy(o))
             on == On(NormalPos(l), NormalPos(l), TRUE)
             q == Join(c, "INNER", Len(c), x, on)
             s == makeNamesUnique(q.schema)
             v == Shifted(l, n)
             join == [q EXCEPT !.schema = s, !.provAttrs = v]
             joined == AttachAlone(c, join)
             t == Nulls(Len(r.provAttrs))
             e == (IntSeq(1, n) \o v) \o t
             proj == Projection(joined, Len(joined), e, o.schema)
             m1 == addProvenanceAttrsToSchema(proj, join)
             m == addProvenanceAttrsToSchema(m1, r)
             b2 == ProvNames(join)
             w == n + Len(b)
             p == b2 \o d
             k == Attach(joined, m)
  <1>1. InputIs(l, i, i.schema, b) /\ InputIs(r, j, j.schema, d)
    OBVIOUS
  <1>2. /\ SetOp(o, i, j) /\ o.schema = i.schema /\ Len(i.schema) = n
        /\ o.rel = ExceptAll(i.rel, j.rel)
    BY BinaryRows DEF SetOp
  <1>3. /\ n \in Nat /\ o.schema \in Seq(AttrNames) /\ IsSeq(o.schema)
        /\ i.rel \in Relations(n) /\ j.rel \in Relations(n)
    <2> HIDE DEF l, r
    <2>1. i.rel \in Relations(Len(i.schema)) /\ j.rel \in Relations(Len(j.schema))
      BY <1>1 DEF InputIs
    <2>2. Len(i.schema) = Len(j.schema)
      BY <1>2 DEF SetOp
    <2>3. n \in Nat /\ o.schema \in Seq(AttrNames)
      BY SchemaFacts
    <2> QED
      BY <1>2, <2>1, <2>2, <2>3, SeqIsSeq
  <1>4. Parts(l, o.schema, b) /\ b \in Seq(ProvAttrNames) /\ d \in Seq(ProvAttrNames)
    BY <1>1, <1>2 DEF InputIs
  <1>5. NormalPos(l) = IntSeq(1, n) /\ Len(b) \in Nat
    <2> HIDE DEF l, r
    <2> QED
      BY <1>4, PartsFacts
  <1>6. ProvNames(r) = d /\ Len(r.provAttrs) = Len(d) /\ Len(d) \in Nat
    <2> HIDE DEF l, r
    <2> QED
      BY <1>1, <1>4, InputNames, SeqIsSeq
  <1>7. /\ BackSetup(g, o, x, c, "INNER", on, q)
        /\ BackNode(g, o, x, c, q, o.schema, b, s, v, join, joined)
    BY <1>4 DEF BackSetup, BackNode
  <1>9. /\ BackJoined(joined, o, join, s, v, n + Len(b))
        /\ BackNamed(s, v, b2, n, n + Len(b)) /\ Len(v) = Len(b)
        /\ Joins("INNER", o.rel, l.rel, on) => Matched(join.rel, o.rel, n)
    <2> HIDE DEF c, on, q, s, v, join, joined
    <2> QED
      BY ONLY <1>7, BackOver
  <1>a. IsInjective(b) => b2 = b
    <2> HIDE DEF c, on, q, s, v, join, joined, b2
    <2>1. IsInjective(b) => ProvNames(join) = b
      BY ONLY <1>3, <1>7, BackNamesKept
    <2> QED
      BY <2>1 DEF b2
  <1>8. h = WithInfo(k, info)
    <2>1. ins[1] = x /\ ins[2] = y
      OBVIOUS
    <2>2. join.provAttrs = v
      <3> HIDE DEF join, joined, s, v
      <3> QED
        BY <1>9 DEF BackJoined
    <2>3. k = rewriteDifference(g, o, ins)
      BY <2>1, <2>2 DEF rewriteDifference, Shifted
    <2> QED
      BY <2>3
  <1>10. DataOk(query, o) /\ IsSeq(info)
    OBVIOUS
  <1>11. proj = Projection(joined, Len(joined), e, o.schema) /\ m1 = addProvenanceAttrsToSchema(proj, join)
         /\ m = addProvenanceAttrsToSchema(m1, r) /\ k = Attach(joined, m) /\ n = Len(o.schema)
         /\ (IntSeq(1, n) \o v) \o t = e /\ w = n + Len(b) /\ p = b2 \o d /\ l = g[x]
         /\ ProvNames(join) = b2 /\ on = On(NormalPos(l), NormalPos(l), TRUE)
         /\ t = Nulls(Len(r.provAttrs))
    OBVIOUS
  <1> HIDE DEF l, r, n, c, on, q, s, v, join, joined, t, e, proj, m1, m, b2, w, p, k
  <1>12. Len(joined) \in DOMAIN joined /\ join.provAttrs = v /\ GraphOk(joined)
    BY <1>9 DEF BackJoined
  <1>13. /\ b2 \in Seq(ProvAttrNames) /\ Len(b2) = Len(b) /\ Len(join.provAttrs) = Len(b2)
    BY <1>9, <1>12 DEF BackNamed
  <1>14. ProjectionIs(proj, joined, Len(joined), e, o.schema)
    BY <1>11, <1>12, NewProjectionNode
  <1>15. IsNewNode(joined, proj) /\ DOMAIN proj = NodeFields /\ proj.provAttrs = << >>
         /\ proj.schema = o.schema
    BY <1>14 DEF ProjectionIs
  <1>16. Renewed(m, proj, o.schema \o p, IntSeq(n + 1, n + Len(p)))
    <2>1. n = Len(proj.schema) /\ IsSeq(proj.schema)
      BY <1>3, <1>11, <1>15
    <2>2. Renewed(m, proj, proj.schema \o (b2 \o d), IntSeq(n + 1, n + Len(b2 \o d)))
      BY ONLY <1>3, <1>4, <1>6, <1>11, <1>13, <1>15, <2>1, AddedTwice
    <2> QED
      BY <1>11, <1>15, <2>2
  <1>17. IsNewNode(joined, m)
    BY <1>11, <1>15, AddedAttrsNode
  <1>18. BackOnTop(joined, o, e, p, m)
    BY <1>11, <1>12, <1>16, <1>17, OnTop
  <1>19. p \in Seq(ProvAttrNames) /\ Len(p) = Len(b2) + Len(d) /\ Len(b \o d) = Len(b) + Len(d)
    BY <1>4, <1>11, <1>13, ConcatFacts
  <1>20. w \in Nat /\ t \in Seq(0 .. n + w) /\ Len(t) = Len(d)
    <2>1. w \in Nat /\ n + w \in Nat
      BY <1>3, <1>5, <1>11
    <2> QED
      BY <1>6, <1>11, <2>1, NullsFacts
  <1>21. BackTo(o, w, v, t, e, p)
    BY <1>9, <1>11, <1>13, <1>19, <1>20 DEF BackTo
  <1>22. BackJoined(joined, o, join, s, v, w) /\ BackNamed(s, v, b2, Len(o.schema), w)
    BY <1>9, <1>11
  <1>23. /\ Result(h, o, p)
         /\ Matched(join.rel, o.rel, Len(o.schema)) => SameRows(h[Len(h)], o)
    BY ONLY <1>8, <1>10, <1>11, <1>18, <1>21, <1>22, BackRule, ZenonT(40)
  <1>24. ASSUME SameRows(l, i) PROVE Matched(join.rel, o.rel, n)
    <2>1. Matched(l.rel, i.rel, n)
      BY <1>1, <1>2, <1>24, InputMatched
    <2>2. Joins("INNER", o.rel, l.rel, on)
      BY <1>2, <1>3, <1>5, <1>11, <2>1, DifferenceJoins
    <2> QED
      BY <1>9, <2>2
  <1>25. Len(p) = Len(b \o d)
    BY <1>13, <1>19
  <1>26. IsInjective(b) => p = b \o d
    BY <1>a, <1>11
  <1>27. BothResult(h, o, b, d)
    BY <1>23, <1>25, <1>26 DEF BothResult
  <1> QED
    BY <1>11, <1>23, <1>24, <1>27

(***************************************************************************)
(* Aggregations                                                            *)
(***************************************************************************)
\* The projection of the rows rel of an input to its group-by attributes.
GroupProjection(pos, v, w, rel, irel, e) ==
    /\ v \in Nat /\ w \in Nat /\ v <= w /\ irel \in Relations(v) /\ rel \in Relations(w)
    /\ pos \in Seq(1 .. v) /\ e \in Seq(0 .. w) /\ Len(pos) <= Len(e)
    /\ \A k \in 1 .. Len(pos) : e[k] = pos[k]

\* Columns 2 to m + 1 of the aggregation meet columns 1 to m of its side.
GroupOn(m, nullSafe) == On(IntSeq(2, m + 1), IntSeq(1, m), nullSafe)

LEMMA GroupOnFacts ==
    ASSUME NEW m \in Nat, NEW nullSafe
    PROVE  \A x, y : (\A k \in 1 .. m : x[k + 1] = y[k] /\ (nullSafe = TRUE \/ y[k] # Null)) =>
              Satisfies(GroupOn(m, nullSafe), x, y)
  <1> DEFINE s == IntSeq(2, m + 1)
             t == IntSeq(1, m)
             on == GroupOn(m, nullSafe)
  <1>1. DOMAIN s = 1 .. m /\ \A k \in 1 .. m : s[k] = k + 1
    <2>1. /\ DOMAIN IntSeq(1 + 1, 1 + m) = 1 .. m
          /\ \A k \in 1 .. m : IntSeq(1 + 1, 1 + m)[k] = 1 + k
      <3>1. 1 \in Nat
        OBVIOUS
      <3> QED
        BY ONLY <3>1, m \in Nat, IntSeqFacts
    <2>2. IntSeq(1 + 1, 1 + m) = IntSeq(2, m + 1)
      <3>1. 1 + 1 = 2 /\ 1 + m = m + 1
        OBVIOUS
      <3> QED
        BY <3>1
    <2> QED
      BY <2>1, <2>2
  <1>2. \A k \in 1 .. m : t[k] = k
    BY FirstInts
  <1>3. on.left = s /\ on.right = t /\ on.nullSafe = nullSafe
    BY DEF GroupOn, On
  <1> HIDE DEF s, t, on
  <1> QED
    BY <1>1, <1>2, <1>3 DEF Satisfies, Equal, IsNotDistinct, on

LEMMA AggregationJoins ==
    ASSUME NEW pos, pos # << >>, NEW v, NEW w, NEW rel, NEW irel, NEW e,
           GroupProjection(pos, v, w, rel, irel, e), Matched(rel, irel, v),
           NEW nullSafe, nullSafe = TRUE \/ \A row \in ToSet(irel) : \A k \in 1 .. Len(pos) : row[pos[k]] # Null,
           NEW how
    PROVE  Joins(how, CountBy(irel, pos), Project(rel, e), GroupOn(Len(pos), nullSafe))
  <1> DEFINE m == Len(pos)
             orel == CountBy(irel, pos)
             on == GroupOn(m, nullSafe)
  <1>1. /\ v \in Nat /\ w \in Nat /\ v <= w /\ irel \in Relations(v) /\ rel \in Relations(w)
        /\ pos \in Seq(1 .. v) /\ e \in Seq(0 .. w) /\ Len(pos) <= Len(e)
        /\ \A k \in 1 .. Len(pos) : e[k] = pos[k]
    BY DEF GroupProjection
  <1>2. \A row \in ToSet(orel) : GroupFrom(irel, pos, row)
    BY ONLY <1>1, pos # << >>, CountByFacts
  <1>3. m \in Nat /\ \A k \in 1 .. m : pos[k] \in 1 .. v
    <2> DEFINE V == 1 .. v
    <2>1. pos \in Seq(V)
      BY <1>1
    <2> HIDE DEF V
    <2>2. Len(pos) \in Nat /\ \A k \in 1 .. Len(pos) : pos[k] \in V
      BY <2>1, SeqIsSeq
    <2> QED
      BY <2>2 DEF V
  <1>4. /\ ToSet(Project(rel, e)) = {Picked(row, e) : row \in ToSet(rel)}
        /\ Len(e) \in Nat /\ DOMAIN e = 1 .. Len(e)
    BY <1>1, ProjectFacts
  <1>5. \A x, y : (\A k \in 1 .. m : x[k + 1] = y[k] /\ (nullSafe = TRUE \/ y[k] # Null)) => Satisfies(on, x, y)
    BY <1>3, GroupOnFacts
  <1> SUFFICES ASSUME NEW x \in ToSet(orel)
               PROVE  \E y \in ToSet(Project(rel, e)) : Satisfies(on, x, y)
    BY DEF Joins
  <1>6. PICK t \in ToSet(irel) : \A k \in 1 .. m : x[k + 1] = t[pos[k]]
    BY <1>2 DEF GroupFrom
  <1>7. PICK r \in ToSet(rel) : Agree(v, r, t)
    BY DEF Matched, HasRow
  <1> DEFINE y == Picked(r, e)
  <1>8. ASSUME NEW k \in 1 .. m PROVE y[k] = t[pos[k]]
    <2>1. e[k] = pos[k] /\ pos[k] \in 1 .. v /\ pos[k] # 0 /\ k \in DOMAIN e
      BY <1>1, <1>3, <1>4
    <2>2. y[k] = r[pos[k]]
      BY <2>1 DEF Picked
    <2> QED
      BY <1>7, <2>1, <2>2 DEF Agree
  <1>9. y \in ToSet(Project(rel, e))
    BY <1>4
  <1>10. nullSafe = TRUE \/ \A k \in 1 .. m : t[pos[k]] # Null
    OBVIOUS
  <1> HIDE DEF y, m, on, orel
  <1>11. Satisfies(on, x, y)
    BY <1>5, <1>6, <1>8, <1>10
  <1> QED
    BY <1>9, <1>11

\* The names of the group-by attributes of the input.
SideNames(o) == [k \in DOMAIN o.pos |-> << "_P_SIDE_", 0, o.schema[k + 1][3], o.schema[k + 1][4] >>]

LEMMA SideNamesFacts ==
    ASSUME NEW o, o.schema \in Seq(AttrNames), NEW V, o.pos \in Seq(V), Len(o.schema) = Len(o.pos) + 1
    PROVE  SideNames(o) \in Seq(NodeNames) /\ Len(SideNames(o)) = Len(o.pos)
  <1> DEFINE m == Len(o.pos)
             s == o.schema
             f == SideNames(o)
  <1>1. m \in Nat /\ DOMAIN o.pos = 1 .. m
    BY SeqIsSeq
  <1>2. \A k \in 1 .. Len(s) : s[k] \in AttrNames
    BY SeqIsSeq
  <1>3. ASSUME NEW k \in 1 .. m PROVE f[k] \in NodeNames
    <2>1. k + 1 \in 1 .. Len(s)
      BY <1>1
    <2>2. s[k + 1] \in AttrNames
      BY <1>2, <2>1
    <2>3. s[k + 1][3] \in Seq(Words) /\ s[k + 1][4] \in Seq(Nat)
      BY <2>2 DEF AttrNames
    <2>4. f[k] = << "_P_SIDE_", 0, s[k + 1][3], s[k + 1][4] >>
      BY <1>1 DEF SideNames
    <2>5. ASSUME NEW y \in Seq(Words), NEW z \in Seq(Nat) PROVE << "_P_SIDE_", 0, y, z >> \in NodeNames
      <3>1. "_P_SIDE_" \in {"", "_P_SIDE_", "__"} \union ProvPrefixes /\ 0 \in Int
        OBVIOUS
      <3> QED
        BY <3>1 DEF NodeNames
    <2> QED
      BY <2>3, <2>4, <2>5
  <1>4. f = [k \in 1 .. m |-> f[k]]
    BY <1>1 DEF SideNames
  <1> HIDE DEF f, m
  <1>5. f \in [1 .. m -> NodeNames]
    BY <1>3, <1>4
  <1>6. f \in Seq(NodeNames) /\ Len(f) = m
    BY <1>1, <1>5, SeqOfFn DEF m
  <1> QED
    BY <1>6 DEF f, m

\* The group-by projection of the rewritten input of an aggregation.
SideInput(g, o, x, i, a, b) ==
    /\ GraphOk(g) /\ NodesOk(g) /\ InputsOk(query, o) /\ DataOk(query, o)
    /\ o.type = "Aggregation" /\ x \in DOMAIN g /\ i = query[o.in[1]]
    /\ InputIs(g[x], i, a, b)

LEMMA SidePositions ==
    ASSUME NEW g, NEW o, NEW x, NEW i, NEW a, NEW b, SideInput(g, o, x, i, a, b)
    PROVE  /\ GroupProjection(o.pos, Len(i.schema), Len(a) + Len(b), g[x].rel, i.rel,
                              o.pos \o g[x].provAttrs)
           /\ Len(o.pos \o g[x].provAttrs) = Len(o.pos) + Len(b) /\ o.rel = CountBy(i.rel, o.pos)
           /\ Len(o.schema) = Len(o.pos) + 1 /\ Len(o.pos) \in Nat
  <1> DEFINE c == g[x]
             v == Len(i.schema)
             w == Len(a) + Len(b)
             e == o.pos \o c.provAttrs
  <1>0. /\ GraphOk(g) /\ NodesOk(g) /\ InputsOk(query, o) /\ DataOk(query, o)
        /\ o.type = "Aggregation" /\ x \in DOMAIN g /\ i = query[o.in[1]]
        /\ InputIs(g[x], i, a, b)
    BY DEF SideInput
  <1>2. /\ Parts(c, a, b) /\ b \in Seq(ProvAttrNames) /\ i.rel \in Relations(v)
        /\ v \in Nat /\ v <= Len(a)
    BY <1>0 DEF InputIs
  <1>3. o.rel = CountBy(i.rel, o.pos) /\ o.pos \in Seq(1 .. v) /\ Len(o.schema) = Len(o.pos) + 1
    <2>1. o.type \in Unary /\ o.type = "Aggregation"
      BY <1>0 DEF Unary
    <2>2. i.rel \in Relations(Len(i.schema))
      BY <1>2
    <2> HIDE DEF c
    <2> QED
      BY <1>0, <2>1, <2>2, UnaryRows
  <1>5. /\ w \in Nat /\ c.provAttrs \in Seq(0 .. w) /\ Len(c.provAttrs) = Len(b)
        /\ Len(a) \in Nat /\ Len(b) \in Nat /\ c.rel \in Relations(w)
    <2> HIDE DEF c
    <2> QED
      BY <1>2, ProvPositions
  <1>6. v <= w /\ o.pos \in Seq(0 .. w)
    <2>1. v <= w
      BY <1>2, <1>5
    <2> HIDE DEF v, w
    <2> QED
      BY <1>2, <1>3, <1>5, <2>1, WiderPositions
  <1> DEFINE p == o.pos
             t == c.provAttrs
  <1>7. e = p \o t
    OBVIOUS
  <1> HIDE DEF p, t, w, v, e
  <1>8. p \in Seq(0 .. w) /\ t \in Seq(0 .. w) /\ w \in Nat
    BY <1>5, <1>6 DEF p, t
  <1>9. /\ e \in Seq(0 .. w) /\ Len(e) = Len(p) + Len(t)
        /\ \A j \in 1 .. Len(p) : e[j] = p[j]
        /\ Len(p) \in Nat /\ Len(t) \in Nat
    BY ONLY <1>7, <1>8, PositionsJoined
  <1>10. Len(p) <= Len(e)
    BY <1>9
  <1> QED
    BY <1>2, <1>3, <1>5, <1>6, <1>9, <1>10 DEF GroupProjection, p, t, v, w, e

LEMMA SideNode ==
    ASSUME NEW g, NEW o, NEW x, NEW i, NEW a, NEW b, SideInput(g, o, x, i, a, b), o.pos # << >>,
           NEW h, h = GroupBySide(g, o, x)
    PROVE  /\ GraphOk(h) /\ NodesOk(h) /\ Len(h) \in DOMAIN h
           /\ Parts(h[Len(h)], SideNames(o), b)
           /\ h[Len(h)].rel = Project(g[x].rel, o.pos \o g[x].provAttrs)
  <1> DEFINE c == g[x]
             e == o.pos \o c.provAttrs
             s == SideNames(o) \o ProvNames(c)
             q == Projection(g, x, e, s)
             z == IntSeq(Len(o.pos) + 1, Len(o.pos) + Len(c.provAttrs))
             n == [q EXCEPT !.provAttrs = z]
             v == Len(i.schema)
             w == Len(a) + Len(b)
  <1>0. /\ GraphOk(g) /\ NodesOk(g) /\ DataOk(query, o) /\ x \in DOMAIN g /\ InputIs(c, i, a, b)
    BY DEF SideInput
  <1>1. h = AttachAlone(g, n)
    BY DEF GroupBySide, SideNames
  <1>2. /\ GroupProjection(o.pos, v, w, c.rel, i.rel, e)
        /\ Len(e) = Len(o.pos) + Len(b)
        /\ Len(o.schema) = Len(o.pos) + 1 /\ Len(o.pos) \in Nat
    <2>1. SideInput(g, o, x, i, a, b)
      OBVIOUS
    <2>2. /\ GroupProjection(o.pos, Len(i.schema), Len(a) + Len(b), g[x].rel, i.rel,
                              o.pos \o g[x].provAttrs)
          /\ Len(o.pos \o g[x].provAttrs) = Len(o.pos) + Len(b) /\ o.rel = CountBy(i.rel, o.pos)
          /\ Len(o.schema) = Len(o.pos) + 1 /\ Len(o.pos) \in Nat
      BY ONLY <2>1, SidePositions
    <2> QED
      BY <2>2
  <1>3. w \in Nat /\ c.rel \in Relations(w) /\ e \in Seq(0 .. w) /\ o.pos \in Seq(1 .. v)
    BY <1>2 DEF GroupProjection
  <1>4. /\ SideNames(o) \in Seq(NodeNames) /\ Len(SideNames(o)) = Len(o.pos)
    <2> DEFINE V == 1 .. v
    <2>1. o.pos \in Seq(V) /\ o.schema \in Seq(AttrNames)
      BY <1>0, <1>3, SchemaFacts
    <2> HIDE DEF V
    <2> QED
      BY <1>2, <2>1, SideNamesFacts
  <1>5. b \in Seq(NodeNames) /\ ProvNames(c) = b /\ Len(c.provAttrs) = Len(b)
    <2> HIDE DEF c
    <2> QED
      BY <1>0, InputNames
  <1>6. ProjectionIs(q, g, x, e, s)
    BY NewProjectionNode, <1>0
  <1>7. z = IntSeq(Len(SideNames(o)) + 1, Len(SideNames(o)) + Len(b)) /\ s = SideNames(o) \o b
        /\ Len(e) = Len(SideNames(o)) + Len(b)
    BY <1>2, <1>4, <1>5
  <1>8. n = [q EXCEPT !.provAttrs = z]
    OBVIOUS
  <1> HIDE DEF c, e, s, q, z, n, v, w
  <1>9. /\ DOMAIN q = NodeFields /\ q.type = "Projection" /\ q.schema = s /\ q.width = Len(e)
        /\ q.rel = Project(c.rel, e) /\ IsNewNode(g, q)
    BY <1>6 DEF ProjectionIs, c
  <1>10. IsNewNode(g, n)
    BY <1>8, <1>9, ChangedNode
  <1>11. Renewed(n, q, q.schema, z)
    BY <1>8, <1>9, NodeChanges
  <1>12. /\ n.type = "Projection" /\ n.schema = s /\ n.width = Len(e) /\ n.provAttrs = z
         /\ n.rel = Project(c.rel, e)
    BY <1>9, <1>11 DEF Renewed
  <1>13. Parts(n, SideNames(o), b) /\ \A f : NodeOk(f, n)
    BY <1>3, <1>4, <1>5, <1>7, <1>12, PartsOfProjection
  <1>14. Grown(g, h, n)
    BY <1>0, <1>1, <1>10, Grows
  <1>15. GraphOk(h) /\ NodesOk(h) /\ Len(h) \in DOMAIN h /\ h[Len(h)] = n
    BY <1>0, <1>13, <1>14 DEF Grown
  <1> QED
    BY <1>12, <1>13, <1>15 DEF c, e

\* The attributes of that side, which is the input itself without GROUP BY.
SideAttrs(o, a) == IF o.pos = << >> THEN a ELSE SideNames(o)
\* Its node.
SideOf(o, x, side) == IF o.pos = << >> THEN x ELSE Len(side)

\* The group-by attributes of the input rows have no NULL if nullSafe is FALSE.
GroupsSafe(o, i, nullSafe) ==
    nullSafe = TRUE \/ \A row \in ToSet(i.rel) : \A k \in 1 .. Len(o.pos) : row[o.pos[k]] # Null

LEMMA AggregationSide ==
    ASSUME NEW g, NEW o, NEW x, NEW i, NEW a, NEW b, SideInput(g, o, x, i, a, b),
           NEW h, h = GroupBySide(g, o, x), NEW nullSafe
    PROVE  /\ GraphOk(h) /\ NodesOk(h) /\ SideOf(o, x, h) \in DOMAIN h
           /\ Parts(h[SideOf(o, x, h)], SideAttrs(o, a), b)
           /\ SameRows(g[x], i) /\ GroupsSafe(o, i, nullSafe) =>
                 Joins(AggJoinType(o), o.rel, h[SideOf(o, x, h)].rel, GroupOn(Len(o.pos), nullSafe))
  <1>0. /\ GraphOk(g) /\ NodesOk(g) /\ x \in DOMAIN g /\ InputIs(g[x], i, a, b)
    BY DEF SideInput
  <1>1. CASE o.pos = << >>
    <2>1. h = g /\ SideOf(o, x, h) = x /\ SideAttrs(o, a) = a /\ AggJoinType(o) = "LEFT_OUTER"
      BY <1>1 DEF GroupBySide, SideOf, SideAttrs, AggJoinType
    <2>2. Parts(g[x], a, b)
      BY <1>0 DEF InputIs
    <2> QED
      BY <1>0, <2>1, <2>2 DEF Joins
  <1>2. CASE o.pos # << >>
    <2>1. SideOf(o, x, h) = Len(h) /\ SideAttrs(o, a) = SideNames(o)
      BY <1>2 DEF SideOf, SideAttrs
    <2>2. /\ GraphOk(h) /\ NodesOk(h) /\ Len(h) \in DOMAIN h
          /\ Parts(h[Len(h)], SideNames(o), b)
          /\ h[Len(h)].rel = Project(g[x].rel, o.pos \o g[x].provAttrs)
      BY ONLY <1>2, SideInput(g, o, x, i, a, b), h = GroupBySide(g, o, x), SideNode
    <2>3. /\ GroupProjection(o.pos, Len(i.schema), Len(a) + Len(b), g[x].rel, i.rel,
                              o.pos \o g[x].provAttrs)
          /\ Len(o.pos \o g[x].provAttrs) = Len(o.pos) + Len(b) /\ o.rel = CountBy(i.rel, o.pos)
          /\ Len(o.schema) = Len(o.pos) + 1 /\ Len(o.pos) \in Nat
      BY ONLY SideInput(g, o, x, i, a, b), SidePositions
    <2>4. ASSUME SameRows(g[x], i), GroupsSafe(o, i, nullSafe)
          PROVE  Joins(AggJoinType(o), o.rel, Project(g[x].rel, o.pos \o g[x].provAttrs),
                       GroupOn(Len(o.pos), nullSafe))
      <3>1. Matched(g[x].rel, i.rel, Len(i.schema))
        BY <1>0, <2>4, InputMatched
      <3>2. nullSafe = TRUE \/ \A row \in ToSet(i.rel) : \A k \in 1 .. Len(o.pos) : row[o.pos[k]] # Null
        BY <2>4 DEF GroupsSafe
      <3> DEFINE e == o.pos \o g[x].provAttrs
                 pos == o.pos
                 w == Len(a) + Len(b)
                 v == Len(i.schema)
                 rel == g[x].rel
                 irel == i.rel
      <3>3. /\ pos # << >> /\ GroupProjection(pos, v, w, rel, irel, e) /\ Matched(rel, irel, v)
            /\ nullSafe = TRUE \/ \A row \in ToSet(irel) : \A k \in 1 .. Len(pos) : row[pos[k]] # Null
        BY <1>2, <2>3, <3>1, <3>2
      <3>4. o.rel = CountBy(irel, pos)
        BY <2>3
      <3> HIDE DEF e, pos, w, v, rel, irel
      <3>5. Joins(AggJoinType(o), CountBy(irel, pos), Project(rel, e), GroupOn(Len(pos), nullSafe))
        BY ONLY <3>3, AggregationJoins
      <3> QED
        BY <3>4, <3>5 DEF e, pos, w, v, rel, irel
    <2> QED
      BY <2>1, <2>2, <2>4
  <1> QED
    BY <1>1, <1>2

\* Not NULL by inference, so not NULL in the rows.
LEMMA GroupsAreSafe ==
    ASSUME NEW o, NEW i, NEW V, V = 1 .. Len(i.schema), o.pos \in Seq(V),
           i.rel \in Relations(Len(i.schema)), NotNullIn(i),
           NEW nonNull, nonNull = \A k \in DOMAIN o.pos : i.schema[o.pos[k]] \in i.notNull
    PROVE  GroupsSafe(o, i, ~ nonNull)
  <1>1. DOMAIN o.pos = 1 .. Len(o.pos) /\ \A k \in 1 .. Len(o.pos) : o.pos[k] \in V
    BY SeqIsSeq
  <1>2. \A row \in ToSet(i.rel) : DOMAIN row = 1 .. Len(i.schema)
    BY RowsOf
  <1>3. CASE ~ nonNull
    BY <1>3 DEF GroupsSafe
  <1>4. CASE nonNull
    BY <1>1, <1>2, <1>4 DEF GroupsSafe, NotNullIn
  <1> QED
    BY <1>3, <1>4

\* The graph that rewriteAggregation makes for its input x.
AggregationOver(g, o, x) ==
    LET nonNull == \A z \in DOMAIN o.pos : query[o.in[1]].schema[o.pos[z]] \in query[o.in[1]].notNull
        side    == GroupBySide(g, o, x)
        y       == SideOf(o, x, side)
        c       == Attach(side, OpCopy(o))
        q       == Join(c, AggJoinType(o), Len(c), y, GroupOn(Len(o.pos), ~ nonNull))
        join    == [q EXCEPT !.schema = makeNamesUnique(@),
                             !.provAttrs = Shifted(side[y], Len(o.schema))]
        joined  == Attach(c, join)
        proj    == Projection(joined, Len(joined), IntSeq(1, Len(o.schema)) \o join.provAttrs,
                              o.schema \o ProvNames(side[y]))
    IN  WithInfo(Attach(joined, [proj EXCEPT
                   !.provAttrs = IntSeq(Len(o.schema) + 1, Len(o.schema) + Len(join.provAttrs))]),
                 g[x].info)

LEMMA AggregationIs ==
    ASSUME NEW g, NEW o, NEW ins
    PROVE  rewriteAggregation(g, o, ins) = AggregationOver(g, o, ins[1])
  BY DEF rewriteAggregation, AggregationOver, SideOf, Shifted, GroupOn

LEMMA AggregationRule ==
    ASSUME NEW g, NEW o, NEW x, NEW i, NEW a, NEW b, SideInput(g, o, x, i, a, b),
           NEW ins, ins = << x >>, NEW h, h = rewriteAggregation(g, o, ins)
    PROVE  /\ Result(h, o, b)
           /\ SameRows(g[x], i) /\ NotNullIn(i) => SameRows(h[Len(h)], o)
  <1> DEFINE nonNull == \A z \in DOMAIN o.pos : query[o.in[1]].schema[o.pos[z]] \in query[o.in[1]].notNull
             side == GroupBySide(g, o, x)
             y == SideOf(o, x, side)
             u == SideAttrs(o, a)
             r == side[y]
             n == Len(o.schema)
             how == AggJoinType(o)
             c == Attach(side, OpCopy(o))
             on == GroupOn(Len(o.pos), ~ nonNull)
             q == Join(c, how, Len(c), y, on)
             s == makeNamesUnique(q.schema)
             v == Shifted(r, n)
             join == [q EXCEPT !.schema = s, !.provAttrs = v]
             joined == Attach(c, join)
             e == IntSeq(1, n) \o v
             proj == Projection(joined, Len(joined), e, o.schema \o ProvNames(r))
             z == IntSeq(n + 1, n + Len(v))
             m == [proj EXCEPT !.provAttrs = z]
             w == Len(u) + Len(b)
             k == Attach(joined, m)
             info == g[x].info
             none == << >>
  <1>1. /\ GraphOk(g) /\ NodesOk(g) /\ InputsOk(query, o) /\ DataOk(query, o)
        /\ o.type = "Aggregation" /\ x \in DOMAIN g /\ i = query[o.in[1]]
        /\ InputIs(g[x], i, a, b)
    BY DEF SideInput
  <1>2. /\ GraphOk(side) /\ NodesOk(side) /\ y \in DOMAIN side /\ Parts(r, u, b)
        /\ SameRows(g[x], i) /\ GroupsSafe(o, i, ~ nonNull) => Joins(how, o.rel, r.rel, on)
    <2>1. side = GroupBySide(g, o, x)
      OBVIOUS
    <2> HIDE DEF side, nonNull
    <2>2. /\ GraphOk(side) /\ NodesOk(side) /\ SideOf(o, x, side) \in DOMAIN side
          /\ Parts(side[SideOf(o, x, side)], SideAttrs(o, a), b)
          /\ SameRows(g[x], i) /\ GroupsSafe(o, i, ~ nonNull) =>
                 Joins(AggJoinType(o), o.rel, side[SideOf(o, x, side)].rel, GroupOn(Len(o.pos), ~ nonNull))
      BY ONLY <2>1, SideInput(g, o, x, i, a, b), AggregationSide
    <2> QED
      BY <2>2
  <1>3. b \in Seq(ProvAttrNames) /\ IsSeq(info)
    BY <1>1 DEF InputIs, GraphOk, IsNode
  <1>4. ProvNames(r) = b /\ Len(u) \in Nat /\ Len(b) \in Nat
    <2> HIDE DEF r, u
    <2> QED
      BY <1>2, PartsFacts
  <1>5. BackSetup(side, o, y, c, how, on, q) /\ BackNode(side, o, y, c, q, u, b, s, v, join, joined)
    <2> HIDE DEF side, y, u
    <2> QED
      BY <1>1, <1>2, <1>3 DEF BackSetup, BackNode
  <1>6. /\ BackJoined(joined, o, join, s, v, w)
        /\ BackNamed(s, v, ProvNames(join), n, w) /\ Len(v) = Len(b)
        /\ Joins(how, o.rel, r.rel, on) => Matched(join.rel, o.rel, n)
    <2> HIDE DEF side, y, u, c, how, on, q, s, v, join, joined
    <2> QED
      BY ONLY <1>5, BackOver
  <1>7. h = WithInfo(k, info)
    <2>1. ins[1] = x
      OBVIOUS
    <2>2. join.provAttrs = v
      <3> HIDE DEF join, joined, s, v
      <3> QED
        BY <1>6 DEF BackJoined
    <2>3. AggregationOver(g, o, x) = WithInfo(k, info)
      BY <2>2 DEF AggregationOver
    <2> HIDE DEF k, info
    <2> QED
      BY <2>1, <2>3, AggregationIs
  <1>8. /\ proj = Projection(joined, Len(joined), e, o.schema \o ProvNames(r))
        /\ m = [proj EXCEPT !.provAttrs = z] /\ k = Attach(joined, m) /\ n = Len(o.schema)
        /\ z = IntSeq(n + 1, n + Len(v)) /\ e = IntSeq(1, n) \o v /\ w = Len(u) + Len(b)
    OBVIOUS
  <1> HIDE DEF nonNull, side, y, u, r, n, how, c, on, q, s, v, join, joined, e, proj, m, w, k, z, info
  <1>9. Len(joined) \in DOMAIN joined
    BY <1>6 DEF BackJoined
  <1>10. ProjectionIs(proj, joined, Len(joined), e, o.schema \o b)
    BY <1>4, <1>8, <1>9, NewProjectionNode
  <1>11. IsNewNode(joined, proj) /\ DOMAIN proj = NodeFields /\ proj.schema = o.schema \o b
    BY <1>10 DEF ProjectionIs
  <1>12. IsNewNode(joined, m)
    BY <1>8, <1>11, ChangedNode
  <1>13. Renewed(m, proj, proj.schema, z)
    BY <1>8, <1>11, NodeChanges
  <1>14. z = IntSeq(Len(o.schema) + 1, Len(o.schema) + Len(b))
    BY <1>6, <1>8
  <1>15. BackOnTop(joined, o, e, b, m)
    BY <1>8, <1>9, <1>11, <1>12, <1>13, <1>14, OnTop
  <1>16. w \in Nat /\ n \in Nat
    BY <1>1, <1>4, <1>8, SchemaFacts
  <1>17. BackTo(o, w, v, none, e, b)
    <2>1. none \in Seq(0 .. Len(o.schema) + w) /\ Len(none) = 0
      OBVIOUS
    <2>2. (IntSeq(1, n) \o v) \o none = IntSeq(1, n) \o v
      <3>1. IsSeq(IntSeq(1, n)) /\ IsSeq(v)
        BY <1>6, <1>16, FirstInts DEF BackNamed
      <3>2. IsSeq(IntSeq(1, n) \o v)
        BY <3>1, ConcatSeq
      <3> QED
        BY <3>2, EmptyConcat
    <2> HIDE DEF none
    <2>3. Len(b) = Len(v) + Len(none)
      BY <1>4, <1>6, <2>1
    <2> QED
      BY <1>3, <1>8, <1>16, <2>1, <2>2, <2>3 DEF BackTo
  <1> HIDE DEF none
  <1>18. BackNamed(s, v, ProvNames(join), Len(o.schema), w) /\ DataOk(query, o)
    BY <1>1, <1>6, <1>8
  <1>19. /\ Result(h, o, b)
         /\ Matched(join.rel, o.rel, Len(o.schema)) => SameRows(h[Len(h)], o)
    <2>1. k = Attach(joined, m) /\ IsSeq(info) /\ BackJoined(joined, o, join, s, v, w)
      BY <1>3, <1>6, <1>8
    <2> QED
      BY ONLY <1>7, <1>15, <1>17, <1>18, <2>1, BackRule
  <1>20. ASSUME NotNullIn(i) PROVE GroupsSafe(o, i, ~ nonNull)
    <2> DEFINE V == 1 .. Len(i.schema)
    <2>1. i.rel \in Relations(Len(i.schema))
      BY <1>1 DEF InputIs
    <2>2. o.pos \in Seq(V)
      <3>1. GroupProjection(o.pos, Len(i.schema), Len(a) + Len(b), g[x].rel, i.rel,
                              o.pos \o g[x].provAttrs)
        BY ONLY SideInput(g, o, x, i, a, b), SidePositions
      <3> QED
        BY <3>1 DEF GroupProjection
    <2>3. V = 1 .. Len(i.schema)
      OBVIOUS
    <2>4. nonNull = \A j \in DOMAIN o.pos : i.schema[o.pos[j]] \in i.notNull
      BY <1>1 DEF nonNull
    <2> HIDE DEF V
    <2> QED
      BY ONLY <1>20, <2>1, <2>2, <2>3, <2>4, GroupsAreSafe
  <1> QED
    BY <1>2, <1>6, <1>8, <1>19, <1>20

(***************************************************************************)
(* Projections by name                                                     *)
(***************************************************************************)
LEMMA FirstOfName ==
    ASSUME NEW s, IsSeq(s), NEW name
    PROVE  /\ getAttrPos(s, name) \in 0 .. Len(s)
           /\ \A k \in 1 .. Len(s) : s[k] = name =>
                 getAttrPos(s, name) \in 1 .. k /\ s[getAttrPos(s, name)] = name
  <1> DEFINE at == {k \in DOMAIN s : s[k] = name}
             p == getAttrPos(s, name)
  <1>1. Len(s) \in Nat /\ DOMAIN s = 1 .. Len(s)
    BY DEF IsSeq
  <1>2. p = IF at = {} THEN 0 ELSE Min(at)
    BY DEF getAttrPos
  <1>3. at \in SUBSET Nat /\ \A k \in at : k \in 1 .. Len(s) /\ s[k] = name
    BY <1>1
  <1>4. \A k \in 1 .. Len(s) : s[k] = name => k \in at
    BY <1>1
  <1> HIDE DEF at, p
  <1>5. CASE at = {}
    BY <1>1, <1>2, <1>4, <1>5 DEF p
  <1>6. CASE at # {}
    <2>1. p \in at /\ \A k \in at : p <= k
      BY <1>2, <1>3, <1>6, MinOfNat
    <2>2. p \in 1 .. Len(s) /\ s[p] = name
      BY <1>3, <2>1
    <2>3. \A k \in 1 .. Len(s) : s[k] = name => p <= k
      BY <1>4, <2>1
    <2> QED
      BY <1>1, <2>2, <2>3 DEF p
  <1> QED
    BY <1>5, <1>6

\* The positions that createProjOnAttrsByName finds for a list of names.
ByName(s, names) == [k \in DOMAIN names |-> getAttrPos(s, names[k])]

\* Schema s and the names asked for have the same first n names.
NamesFit(s, names, n) ==
    /\ IsSeq(s) /\ IsSeq(names)
    /\ n \in Nat /\ n <= Len(s) /\ n <= Len(names) /\ \A k \in 1 .. n : s[k] = names[k]
    /\ \A j, k \in 1 .. n : s[j] = s[k] => j = k

LEMMA ByNameFacts ==
    ASSUME NEW s, NEW names, NEW n, NamesFit(s, names, n)
    PROVE  /\ ByName(s, names) \in Seq(0 .. Len(s)) /\ Len(ByName(s, names)) = Len(names)
           /\ \A k \in 1 .. n : ByName(s, names)[k] = k
           /\ DOMAIN ByName(s, names) = 1 .. Len(names)
           /\ \A k \in 1 .. Len(names) : ByName(s, names)[k] = getAttrPos(s, names[k])
  <1> DEFINE m == Len(names)
             e == ByName(s, names)
  <1>0. /\ IsSeq(s) /\ IsSeq(names)
        /\ n \in Nat /\ n <= Len(s) /\ n <= Len(names) /\ \A k \in 1 .. n : s[k] = names[k]
        /\ \A j, k \in 1 .. n : s[j] = s[k] => j = k
    BY DEF NamesFit
  <1>1. /\ Len(s) \in Nat /\ DOMAIN s = 1 .. Len(s)
        /\ m \in Nat /\ DOMAIN names = 1 .. m
    BY <1>0 DEF IsSeq
  <1>2. \A k \in 1 .. m : e[k] = getAttrPos(s, names[k])
    BY <1>1 DEF ByName
  <1>3. e = [k \in 1 .. m |-> e[k]]
    BY <1>1 DEF ByName
  <1> HIDE DEF m, e
  <1>4. \A k \in 1 .. m : e[k] \in 0 .. Len(s)
    BY <1>0, <1>2, FirstOfName
  <1>5. e \in [1 .. m -> 0 .. Len(s)]
    BY <1>3, <1>4
  <1>6. e \in Seq(0 .. Len(s)) /\ Len(e) = m
    <2> DEFINE S == 0 .. Len(s)
    <2>1. e \in [1 .. m -> S]
      BY <1>5
    <2> HIDE DEF S
    <2>2. e \in Seq(S) /\ Len(e) = m
      BY ONLY <1>1, <2>1, SeqOfFn
    <2> QED
      BY <2>2 DEF S
  <1>7. ASSUME NEW k \in 1 .. n PROVE e[k] = k
    <2> DEFINE p == getAttrPos(s, names[k])
    <2>1. k \in 1 .. m /\ k \in 1 .. Len(s) /\ s[k] = names[k]
      BY <1>0, <1>1 DEF m
    <2>2. p \in 1 .. k /\ s[p] = names[k]
      BY <1>0, <2>1, FirstOfName
    <2>3. e[k] = p
      BY <1>2, <2>1
    <2> HIDE DEF p
    <2>4. p \in 1 .. n
      BY <1>0, <2>2
    <2> QED
      BY <1>0, <2>1, <2>2, <2>3, <2>4
  <1>8. DOMAIN e = 1 .. m
    BY <1>5
  <1> QED
    BY <1>2, <1>6, <1>7, <1>8 DEF m, e

\* What createProjOnAttrsByName fills in.
ByNameNode(n, g, c, names, newNames, provAttrs) ==
    /\ DOMAIN n = NodeFields /\ n.type = "Projection" /\ n.schema = newNames
    /\ n.width = Len(ByName(g[c].schema, names))
    /\ n.rel = Project(g[c].rel, ByName(g[c].schema, names))
    /\ n.provAttrs = provAttrs /\ IsNewNode(g, n)

\* The provenance attributes of that projection.
KeptByName(g, c, names) ==
    LET e == ByName(g[c].schema, names)
    IN  Keep(IntSeq(1, Len(e)), {k \in DOMAIN e : Contains(g[c].provAttrs, e[k])})

LEMMA NamedProjection ==
    ASSUME NEW g, NEW c \in DOMAIN g, NEW names, NEW newNames,
           NEW n, n = createProjOnAttrsByName(g, c, names, newNames)
    PROVE  /\ ByNameNode(n, g, c, names, newNames, KeptByName(g, c, names))
           /\ \A v : ByNameNode([n EXCEPT !.provAttrs = v], g, c, names, newNames, v)
  <1> DEFINE e == ByName(g[c].schema, names)
             q == Projection(g, c, e, newNames)
             z == KeptByName(g, c, names)
  <1>1. n = [q EXCEPT !.provAttrs = z]
    BY DEF createProjOnAttrsByName, ByName, KeptByName
  <1>2. ProjectionIs(q, g, c, e, newNames)
    BY NewProjectionNode
  <1> HIDE DEF e, q, z
  <1>3. /\ DOMAIN q = NodeFields /\ q.type = "Projection" /\ q.schema = newNames /\ q.width = Len(e)
        /\ q.rel = Project(g[c].rel, e) /\ IsNewNode(g, q)
    BY <1>2 DEF ProjectionIs
  <1>4. Renewed(n, q, q.schema, z) /\ IsNewNode(g, n)
    <2>1. Renewed(n, q, q.schema, z)
      BY ONLY <1>1, <1>3, NodeChanges
    <2>2. IsNewNode(g, [q EXCEPT !.provAttrs = z])
      BY ONLY <1>3, ChangedNode
    <2> QED
      BY <1>1, <2>1, <2>2
  <1>5. ByNameNode(n, g, c, names, newNames, z)
    BY <1>3, <1>4 DEF ByNameNode, Renewed, e
  <1>6. ASSUME NEW v PROVE ByNameNode([n EXCEPT !.provAttrs = v], g, c, names, newNames, v)
    <2> DEFINE m == [n EXCEPT !.provAttrs = v]
    <2>1. DOMAIN n = NodeFields /\ m = [n EXCEPT !.provAttrs = v]
      BY <1>5 DEF ByNameNode
    <2> HIDE DEF m
    <2>2. Renewed(m, n, n.schema, v)
      BY ONLY <2>1, NodeChanges
    <2>3. IsNewNode(g, m)
      BY <1>4, <2>1, ChangedNode
    <2>4. ByNameNode(m, g, c, names, newNames, v)
      BY <1>5, <2>2, <2>3 DEF ByNameNode, Renewed
    <2> QED
      BY <2>4 DEF m
  <1> QED
    BY <1>5, <1>6 DEF z

(***************************************************************************)
(* Limits                                                                  *)
(***************************************************************************)
LEMMA LimitJoins ==
    ASSUME NEW n \in Nat, NEW i \in Relations(n), NEW orel, ToSet(orel) \subseteq ToSet(i),
           \A row \in ToSet(i) : ~ Contains(row, Null), NEW rel, Matched(rel, i, n),
           NEW on, on = On(IntSeq(1, n), IntSeq(1, n), FALSE), NEW how
    PROVE  Joins(how, orel, rel, on)
  <1>1. ASSUME NEW x, \A k \in 1 .. n : x[k] # Null, NEW y, Agree(n, y, x) PROVE Satisfies(on, x, y)
    <2>1. DOMAIN IntSeq(1, n) = 1 .. n /\ \A k \in 1 .. n : IntSeq(1, n)[k] = k
      BY FirstInts
    <2> DEFINE q == IntSeq(1, n)
    <2> HIDE DEF q
    <2> QED
      BY <1>1, <2>1 DEF Satisfies, On, q, Equal, Agree
  <1>2. ASSUME NEW x \in ToSet(i) PROVE \A k \in 1 .. n : x[k] # Null
    <2>1. DOMAIN x = 1 .. n
      BY RowsOf
    <2> QED
      BY <2>1 DEF Contains
  <1>3. \A x \in ToSet(i) : \E y \in ToSet(rel) : Agree(n, y, x)
    BY DEF Matched, HasRow
  <1> QED
    BY <1>1, <1>2, <1>3 DEF Joins

\* A limit o and the node x of its input, with provenance attributes b.
LimitInput(g, o, x, i, b) ==
    /\ GraphOk(g) /\ NodesOk(g) /\ InputsOk(query, o) /\ DataOk(query, o)
    /\ o.type = "Limit" /\ x \in DOMAIN g /\ i = query[o.in[1]] /\ InputIs(g[x], i, i.schema, b)

\* The names of the limit's attributes in the join with its input.
LimitNames(o) == [k \in DOMAIN o.schema |-> << "__", o.schema[k][2], o.schema[k][3], o.schema[k][4] >>]

LEMMA LimitNamesFacts ==
    ASSUME NEW o, o.schema \in Seq(AttrNames)
    PROVE  LimitNames(o) \in Seq(NodeNames) /\ Len(LimitNames(o)) = Len(o.schema)
  <1> DEFINE s == o.schema
             m == Len(s)
             f == LimitNames(o)
  <1>1. m \in Nat /\ DOMAIN s = 1 .. m /\ \A k \in 1 .. m : s[k] \in AttrNames
    BY SeqIsSeq
  <1>2. ASSUME NEW k \in 1 .. m PROVE f[k] \in NodeNames
    <2>1. s[k] \in AttrNames
      BY <1>1
    <2>2. s[k][2] \in Nat /\ s[k][3] \in Seq(Words) /\ s[k][4] \in Seq(Nat)
      BY <2>1 DEF AttrNames
    <2>3. f[k] = << "__", s[k][2], s[k][3], s[k][4] >>
      BY <1>1 DEF LimitNames
    <2>4. ASSUME NEW x \in Int, NEW y \in Seq(Words), NEW z \in Seq(Nat) PROVE << "__", x, y, z >> \in NodeNames
      <3>1. "__" \in {"", "_P_SIDE_", "__"} \union ProvPrefixes
        OBVIOUS
      <3> QED
        BY <3>1 DEF NodeNames
    <2>5. s[k][2] \in Int
      BY <2>2
    <2> QED
      BY <2>2, <2>3, <2>4, <2>5
  <1>3. f = [k \in 1 .. m |-> f[k]]
    BY <1>1 DEF LimitNames
  <1> HIDE DEF f, m
  <1>4. f \in [1 .. m -> NodeNames]
    BY <1>2, <1>3
  <1>5. f \in Seq(NodeNames) /\ Len(f) = m
    BY <1>1, <1>4, SeqOfFn DEF m
  <1> QED
    BY <1>5 DEF f, m

\* The projection of the join to the names of the input: the operator's
\* attributes, which come first, then the provenance attributes.
LEMMA LimitPositions ==
    ASSUME NEW a, NEW f, NEW b, IsSeq(a), IsSeq(f), IsSeq(b), IsInjective(a),
           NEW s, s = (a \o f) \o b
    PROVE  /\ ByName(s, a \o b) \in Seq(0 .. Len(s)) /\ Len(ByName(s, a \o b)) = Len(a) + Len(b)
           /\ \A k \in 1 .. Len(a) : ByName(s, a \o b)[k] = k
  <1> DEFINE n == Len(a)
             t == a \o b
             e == ByName(s, t)
             af == a \o f
  <1>1. /\ IsSeq(af) /\ Len(af) = Len(a) + Len(f) /\ \A k \in 1 .. Len(a) : af[k] = a[k]
        /\ Len(a) \in Nat /\ Len(f) \in Nat /\ DOMAIN a = 1 .. Len(a)
    BY ConcatSeq DEF IsSeq
  <1>2. s = af \o b
    OBVIOUS
  <1> HIDE DEF af
  <1>3. /\ IsSeq(s) /\ Len(s) = Len(af) + Len(b) /\ \A k \in 1 .. Len(af) : s[k] = af[k]
        /\ Len(b) \in Nat
    BY ONLY <1>1, <1>2, IsSeq(b), ConcatSeq
  <1>4. /\ IsSeq(t) /\ Len(t) = Len(a) + Len(b) /\ \A k \in 1 .. Len(a) : t[k] = a[k]
    BY ConcatSeq
  <1>5. ASSUME NEW k \in 1 .. n PROVE s[k] = a[k] /\ t[k] = a[k]
    <2>1. k \in 1 .. Len(af)
      BY <1>1
    <2> QED
      BY <1>1, <1>3, <1>4, <2>1
  <1>6. n \in Nat /\ n <= Len(s) /\ n <= Len(t)
    BY <1>1, <1>3, <1>4
  <1>7. \A j, k \in 1 .. n : s[j] = s[k] => j = k
    BY <1>1, <1>5 DEF IsInjective
  <1>8. NamesFit(s, t, n)
    <2>1. \A k \in 1 .. n : s[k] = t[k]
      BY <1>5
    <2> HIDE DEF n
    <2> QED
      BY <1>3, <1>4, <1>6, <1>7, <2>1 DEF NamesFit
  <1> HIDE DEF n, t
  <1>9. /\ e \in Seq(0 .. Len(s)) /\ Len(e) = Len(t) /\ \A k \in 1 .. n : e[k] = k
    BY ONLY <1>8, ByNameFacts
  <1> QED
    BY <1>4, <1>9 DEF n, t

\* The graph that rewriteLimit makes for its input x.
LimitOver(g, o, x) ==
    LET c      == Attach(g, OpCopy(o))
        q      == Join(c, "INNER", Len(c), x, On(IntSeq(1, Len(o.schema)), IntSeq(1, Len(o.schema)), FALSE))
        join   == [q EXCEPT !.schema = (o.schema \o LimitNames(o)) \o ProvNames(g[x])]
        joined == Attach(c, join)
        proj   == createProjOnAttrsByName(joined, Len(joined), g[x].schema, g[x].schema)
    IN  Attach(joined, [proj EXCEPT !.provAttrs = g[x].provAttrs])

LEMMA LimitIs ==
    ASSUME NEW g, NEW o, NEW ins
    PROVE  rewriteLimit(g, o, ins) = LimitOver(g, o, ins[1])
  BY DEF rewriteLimit, LimitOver, LimitNames

LEMMA LimitRule ==
    ASSUME NEW g, NEW o, NEW x, NEW i, NEW b, LimitInput(g, o, x, i, b),
           NEW ins, ins = << x >>, NEW h, h = rewriteLimit(g, o, ins)
    PROVE  /\ Result(h, o, b) /\ h[Len(h)].info = << >>
           /\ SameRows(g[x], i) /\ NullsOk(query, o) => SameRows(h[Len(h)], o)
  <1> DEFINE r == g[x]
             n == Len(o.schema)
             a == o.schema
             on == On(IntSeq(1, n), IntSeq(1, n), FALSE)
             c == Attach(g, OpCopy(o))
             q == Join(c, "INNER", Len(c), x, on)
             f == LimitNames(o)
             s == (a \o f) \o ProvNames(r)
             join == [q EXCEPT !.schema = s]
             joined == Attach(c, join)
             proj == createProjOnAttrsByName(joined, Len(joined), r.schema, r.schema)
             m == [proj EXCEPT !.provAttrs = r.provAttrs]
             k == Attach(joined, m)
             w == n + Len(b)
             none == << >>
  <1>1. /\ GraphOk(g) /\ NodesOk(g) /\ InputsOk(query, o) /\ DataOk(query, o)
        /\ o.type = "Limit" /\ x \in DOMAIN g /\ i = query[o.in[1]] /\ InputIs(r, i, i.schema, b)
    BY DEF LimitInput
  <1>2. h = k
    <2>1. ins[1] = x
      OBVIOUS
    <2>2. LimitOver(g, o, x) = k
      BY DEF LimitOver
    <2> HIDE DEF k
    <2> QED
      BY <2>1, <2>2, LimitIs
  <1>3. o.schema = i.schema /\ ToSet(o.rel) \subseteq ToSet(i.rel) /\ i.rel \in Relations(Len(i.schema))
    <2>1. o.type \in Unary
      BY <1>1 DEF Unary
    <2>2. i.rel \in Relations(Len(i.schema))
      BY <1>1 DEF InputIs
    <2> HIDE DEF r
    <2> QED
      BY <1>1, <2>1, <2>2, UnaryRows
  <1>4. a \in Seq(AttrNames) /\ n \in Nat /\ IsInjective(a) /\ a \in Seq(NodeNames) /\ IsSeq(a)
    BY <1>1, SchemaFacts, NameSets, SeqWider, SeqIsSeq
  <1>5. f \in Seq(NodeNames) /\ Len(f) = n /\ IsSeq(f)
    BY <1>4, LimitNamesFacts, SeqIsSeq
  <1>6. Parts(r, a, b) /\ b \in Seq(ProvAttrNames)
    BY <1>1, <1>3 DEF InputIs
  <1>7. /\ Len(b) \in Nat /\ IsSeq(b) /\ ProvNames(r) = b /\ r.width = w /\ r.rel \in Relations(w)
        /\ r.provAttrs = IntSeq(n + 1, n + Len(b))
    <2> HIDE DEF r
    <2> QED
      BY <1>6, PartsFacts, ZenonT(40)
  <1>8. r.schema = a \o b /\ b \in Seq(NodeNames)
    BY <1>6 DEF Parts
  <1>9. BackSetup(g, o, x, c, "INNER", on, q)
    BY <1>1 DEF BackSetup
  <1>10. IsNewNode(c, q) /\ DOMAIN q = NodeFields /\ q.provAttrs = none
    <2>1. IsNewNode(c, q) /\ DOMAIN q = NodeFields
      <3> HIDE DEF c, q, on
      <3> QED
        BY <1>9, BackSchema
    <2>2. Len(c) \in DOMAIN c /\ x \in DOMAIN c
      <3>1. DataOk(query, o) /\ c = Attach(g, OpCopy(o))
        BY <1>1
      <3> HIDE DEF c
      <3>2. Len(c) \in DOMAIN c /\ DOMAIN g \subseteq DOMAIN c
        BY ONLY <1>1, <3>1, Copied
      <3> QED
        BY <1>1, <3>2
    <2>3. q = Join(c, "INNER", Len(c), x, on)
      OBVIOUS
    <2> HIDE DEF c, on, q
    <2>4. JoinIs(q, c, "INNER", Len(c), x, on)
      BY <2>2, <2>3, JoinNode
    <2> QED
      BY <2>1, <2>4 DEF JoinIs
  <1>11. s = (a \o f) \o b /\ join = [q EXCEPT !.schema = s]
    BY <1>7
  <1>12. s \in Seq(NodeNames) /\ Len(s) = n + w
    <2> DEFINE af == a \o f
    <2>1. af \in Seq(NodeNames) /\ Len(af) = Len(a) + Len(f)
      BY <1>4, <1>5, ConcatFacts
    <2>2. s = af \o b
      BY <1>11
    <2> HIDE DEF af, s
    <2>3. s \in Seq(NodeNames) /\ Len(s) = Len(af) + Len(b)
      BY <1>8, <2>1, <2>2, ConcatFacts, ZenonT(40)
    <2> QED
      BY <1>4, <1>5, <1>7, <2>1, <2>3
  <1>13. /\ joined = Attach(c, join) /\ k = Attach(joined, m) /\ m = [proj EXCEPT !.provAttrs = r.provAttrs]
         /\ proj = createProjOnAttrsByName(joined, Len(joined), r.schema, r.schema)
         /\ a = o.schema /\ n = Len(a) /\ w = n + Len(b) /\ r = g[x] /\ none = << >>
         /\ on = On(IntSeq(1, n), IntSeq(1, n), FALSE)
    OBVIOUS
  <1> HIDE DEF r, n, a, on, c, q, f, s, join, joined, proj, m, k, w, none
  <1>14. IsNewNode(c, join) /\ Renewed(join, q, s, none)
    BY <1>10, <1>11, ChangedNode, NodeChanges
  <1>15. JoinSetup(c, q, join, s, none, n + w, joined)
    <2>1. IsSeq(none)
      BY <1>13, EmptyIsSeq
    <2> QED
      BY <1>12, <1>13, <1>14, <2>1 DEF JoinSetup
  <1>16. /\ BackJoined(joined, o, join, s, none, w)
         /\ Joins("INNER", o.rel, r.rel, on) => Matched(join.rel, o.rel, n)
    <2>1. w \in Nat /\ g[x].width = w /\ g[x].rel \in Relations(w) /\ Len(o.schema) = n
      BY <1>4, <1>7, <1>13
    <2>2. JoinSetup(c, q, join, s, none, Len(o.schema) + w, joined)
      BY <1>15, <2>1
    <2>3. /\ BackJoined(joined, o, join, s, none, w)
          /\ Joins("INNER", o.rel, g[x].rel, on) => Matched(join.rel, o.rel, Len(o.schema))
      BY ONLY <1>9, <2>1, <2>2, BackJoin
    <2> QED
      BY <1>13, <2>1, <2>3
  <1>17. /\ GraphOk(joined) /\ NodesOk(joined) /\ Len(joined) \in DOMAIN joined
         /\ joined[Len(joined)] = join /\ join.schema = s /\ join.rel \in Relations(n + w)
    BY <1>13, <1>16 DEF BackJoined
  <1> DEFINE e == ByName(s, r.schema)
  <1>18. e \in Seq(0 .. n + w) /\ Len(e) = n + Len(b) /\ \A j \in 1 .. n : e[j] = j
    <2>1. /\ ByName(s, a \o b) \in Seq(0 .. Len(s)) /\ Len(ByName(s, a \o b)) = Len(a) + Len(b)
          /\ \A j \in 1 .. Len(a) : ByName(s, a \o b)[j] = j
      BY ONLY <1>4, <1>5, <1>7, <1>11, LimitPositions
    <2>2. /\ e \in Seq(0 .. Len(s)) /\ Len(e) = Len(a) + Len(b)
          /\ \A j \in 1 .. Len(a) : e[j] = j
      BY <1>8, <2>1
    <2> QED
      BY <1>12, <1>13, <2>2
  <1>19. ByNameNode(m, joined, Len(joined), r.schema, r.schema, r.provAttrs)
    BY ONLY <1>13, <1>17, NamedProjection
  <1>20. BackProjection(joined, m, Len(joined), o, e, b)
    <2>1. /\ m.type = "Projection" /\ m.schema = r.schema /\ m.width = Len(e)
          /\ m.rel = Project(joined[Len(joined)].rel, e) /\ m.provAttrs = r.provAttrs /\ IsNewNode(joined, m)
      BY <1>17, <1>19 DEF ByNameNode
    <2> HIDE DEF e
    <2> QED
      BY <1>7, <1>8, <1>13, <1>18, <2>1 DEF BackProjection
  <1> HIDE DEF e
  <1>21. /\ Result(k, o, b)
         /\ Matched(joined[Len(joined)].rel, o.rel, Len(o.schema)) => SameRows(k[Len(k)], o)
    <2>1. k = Attach(joined, m) /\ DataOk(query, o) /\ b \in Seq(ProvAttrNames)
      BY <1>1, <1>6, <1>13
    <2>2. n + w \in Nat /\ joined[Len(joined)].rel \in Relations(n + w) /\ e \in Seq(0 .. n + w)
      BY <1>4, <1>7, <1>13, <1>17, <1>18
    <2>3. GraphOk(joined) /\ NodesOk(joined) /\ Len(joined) \in DOMAIN joined /\ IsSeq(none)
      BY <1>13, <1>17, EmptyIsSeq
    <2> DEFINE z == WithInfo(k, none)
    <2>4. z = WithInfo(k, none)
      OBVIOUS
    <2> HIDE DEF z
    <2> QED
      BY ONLY <1>20, <2>1, <2>2, <2>3, <2>4, BackResult
  <1>22. ASSUME SameRows(r, i), NullsOk(query, o) PROVE Matched(join.rel, o.rel, n)
    <2>1. Matched(r.rel, i.rel, n)
      BY <1>1, <1>3, <1>13, <1>22, InputMatched
    <2>2. \A row \in ToSet(i.rel) : ~ Contains(row, Null)
      <3>1. 1 \in DOMAIN o.in
        BY <1>1, InputsAreThere DEF Unary
      <3> QED
        BY <1>1, <1>22, <3>1 DEF NullsOk
    <2>3. i.rel \in Relations(n)
      BY <1>3, <1>13
    <2>4. Joins("INNER", o.rel, r.rel, on)
      BY ONLY <1>3, <1>4, <1>13, <2>1, <2>2, <2>3, LimitJoins
    <2> QED
      BY <1>16, <2>4
  <1>23. k[Len(k)].info = none
    <2>1. IsNewNode(joined, m)
      BY <1>19 DEF ByNameNode
    <2>2. Grown(joined, k, m)
      BY <1>13, <1>17, <2>1, Grows
    <2> QED
      BY <1>13, <2>1, <2>2 DEF Grown, IsNewNode
  <1> QED
    BY <1>2, <1>13, <1>17, <1>21, <1>22, <1>23

(***************************************************************************)
(* A shared operator once more                                             *)
(***************************************************************************)
\* Table information.
Infos == Seq(ProvPrefixes \X Seq(Seq(Words)))

\* The provenance attributes that entry k of the table information gets.
FreshPart(info, k) ==
    [j \in DOMAIN info[k][2] |->
        getProvenanceAttrName(info[k][1], FreshCount(info, k), info[k][2][j])]
\* Those of all entries.
FreshParts(info) == [k \in DOMAIN info |-> FreshPart(info, k)]

LEMMA FreshPartFacts ==
    ASSUME provCounts \in [ProvPrefixes -> Int], NEW info \in Infos, NEW k \in DOMAIN info
    PROVE  /\ FreshPart(info, k) \in Seq(ProvAttrNames)
           /\ Len(FreshPart(info, k)) = Len(Paths(info)[k]) /\ Paths(info)[k] \in Seq(Seq(Words))
  <1> DEFINE U == ProvPrefixes \X Seq(Seq(Words))
             t == info[k][1]
             p == info[k][2]
             f == FreshPart(info, k)
             cnt == FreshCount(info, k)
             m == Len(p)
  <1>1. info[k] \in U /\ k \in 1 .. Len(info) /\ Len(info) \in Nat
    <2>1. info \in Seq(U)
      BY DEF Infos
    <2> HIDE DEF U
    <2> QED
      BY <2>1, SeqIsSeq
  <1>2. t \in ProvPrefixes /\ p \in Seq(Seq(Words))
    BY <1>1
  <1>3. Paths(info)[k] = p
    BY DEF Paths
  <1>4. cnt \in Int
    <2> DEFINE T == {j \in 1 .. k : info[j][1] = info[k][1]}
    <2>1. k \in Nat /\ T \in SUBSET (1 .. k)
      BY <1>1
    <2>2. Cardinality(T) \in Nat
      BY ONLY <2>1, CountPositive
    <2>3. cnt = provCounts[t] + Cardinality(T)
      BY DEF FreshCount
    <2>4. provCounts[t] \in Int
      BY <1>2
    <2> HIDE DEF T, cnt
    <2> QED
      BY <2>2, <2>3, <2>4
  <1>5. m \in Nat /\ DOMAIN p = 1 .. m /\ \A j \in 1 .. m : p[j] \in Seq(Words)
    <2> DEFINE S == Seq(Words)
    <2>1. p \in Seq(S)
      BY <1>2
    <2> HIDE DEF S, p
    <2> QED
      BY <2>1, SeqIsSeq DEF S
  <1>6. f = [j \in 1 .. m |-> getProvenanceAttrName(t, cnt, p[j])]
    BY <1>5 DEF FreshPart
  <1> HIDE DEF t, p, f, cnt, m
  <1>7. \A j \in 1 .. m : getProvenanceAttrName(t, cnt, p[j]) \in ProvAttrNames
    BY <1>2, <1>4, <1>5, ProvName
  <1>8. f \in [1 .. m -> ProvAttrNames]
    BY <1>6, <1>7
  <1>9. f \in Seq(ProvAttrNames) /\ Len(f) = m
    BY <1>5, <1>8, SeqOfFn
  <1> QED
    BY <1>2, <1>3, <1>9 DEF f, m

LEMMA FreshNames ==
    ASSUME provCounts \in [ProvPrefixes -> Int], NEW info \in Infos
    PROVE  /\ FlattenSeq(FreshParts(info)) \in Seq(ProvAttrNames)
           /\ Len(FlattenSeq(FreshParts(info))) = Len(FlattenSeq(Paths(info)))
  <1> DEFINE n == Len(info)
             ss == FreshParts(info)
             tt == Paths(info)
  <1>1. n \in Nat /\ DOMAIN info = 1 .. n
    <2> DEFINE U == ProvPrefixes \X Seq(Seq(Words))
    <2>1. info \in Seq(U)
      BY DEF Infos
    <2> HIDE DEF U
    <2> QED
      BY <2>1, SeqIsSeq
  <1>2. /\ ss = [k \in 1 .. n |-> ss[k]] /\ tt = [k \in 1 .. n |-> tt[k]]
        /\ \A k \in 1 .. n : ss[k] = FreshPart(info, k)
    BY <1>1 DEF FreshParts, Paths
  <1>3. \A k \in 1 .. n : /\ ss[k] \in Seq(ProvAttrNames) /\ tt[k] \in Seq(Seq(Words))
                          /\ Len(ss[k]) = Len(tt[k])
    <2> TAKE k \in 1 .. n
    <2>1. k \in DOMAIN info /\ ss[k] = FreshPart(info, k)
      BY <1>1, <1>2
    <2> HIDE DEF ss, tt
    <2> QED
      BY <2>1, FreshPartFacts DEF tt
  <1> HIDE DEF n, ss, tt
  <1>4. ss \in Seq(Seq(ProvAttrNames)) /\ Len(ss) = n /\ DOMAIN ss = 1 .. n
    <2> DEFINE S == Seq(ProvAttrNames)
    <2>1. ss \in [1 .. n -> S]
      BY <1>2, <1>3
    <2> HIDE DEF S
    <2>2. ss \in Seq(S) /\ Len(ss) = n
      BY <1>1, <2>1, SeqOfFn
    <2> QED
      BY <2>1, <2>2 DEF S
  <1>5. tt \in Seq(Seq(Seq(Words))) /\ Len(tt) = n
    <2> DEFINE S == Seq(Seq(Words))
    <2>1. tt \in [1 .. n -> S]
      BY <1>2, <1>3
    <2> HIDE DEF S
    <2>2. tt \in Seq(S) /\ Len(tt) = n
      BY <1>1, <2>1, SeqOfFn
    <2> QED
      BY <2>1, <2>2 DEF S
  <1>6. Len(FlattenSeq(ss)) = Len(FlattenSeq(tt))
    <2> DEFINE W == Seq(Words)
    <2>1. tt \in Seq(Seq(W)) /\ Len(ss) = Len(tt) /\ \A k \in DOMAIN ss : Len(ss[k]) = Len(tt[k])
      BY <1>3, <1>4, <1>5
    <2> HIDE DEF W
    <2> QED
      BY ONLY <1>4, <2>1, FlattenLen
  <1>7. FlattenSeq(ss) \in Seq(ProvAttrNames)
    BY <1>4, FlattenFacts
  <1> QED
    BY <1>6, <1>7 DEF ss, tt

\* The attributes a and then b of a node, each looked for by its name.
NamesOf(s, a, b) ==
    /\ a \in Seq(AttrNames) /\ b \in Seq(ProvAttrNames) /\ s = a \o b

LEMMA NamesOfFacts ==
    ASSUME NEW s, NEW a, NEW b, NamesOf(s, a, b)
    PROVE  /\ IsSeq(s) /\ Len(a) \in Nat /\ Len(b) \in Nat /\ Len(s) = Len(a) + Len(b)
           /\ \A k \in 1 .. Len(a) : s[k] = a[k] /\ s[k] \in AttrNames
           /\ \A k \in 1 .. Len(s) : k > Len(a) => s[k] \in ProvAttrNames
  <1>1. a \in Seq(AttrNames) /\ b \in Seq(ProvAttrNames) /\ s = a \o b
    BY DEF NamesOf
  <1>2. IsSeq(a) /\ IsSeq(b) /\ (\A k \in 1 .. Len(a) : a[k] \in AttrNames)
        /\ \A k \in 1 .. Len(b) : b[k] \in ProvAttrNames
    BY <1>1, SeqIsSeq
  <1>3. /\ IsSeq(s) /\ Len(s) = Len(a) + Len(b) /\ Len(a) \in Nat /\ Len(b) \in Nat
        /\ \A k \in 1 .. Len(a) : s[k] = a[k]
        /\ \A k \in 1 .. Len(b) : s[Len(a) + k] = b[k]
    BY ONLY <1>1, <1>2, ConcatSeq
  <1>4. ASSUME NEW k \in 1 .. Len(s), k > Len(a) PROVE s[k] \in ProvAttrNames
    <2>1. k - Len(a) \in 1 .. Len(b) /\ Len(a) + (k - Len(a)) = k
      BY <1>3, <1>4
    <2> QED
      BY <1>2, <1>3, <2>1
  <1> QED
    BY <1>2, <1>3, <1>4

\* A name is found among those of its kind.
LEMMA FoundByKind ==
    ASSUME NEW s, NEW a, NEW b, NamesOf(s, a, b), NEW k \in 1 .. Len(s)
    PROVE  /\ getAttrPos(s, s[k]) \in 1 .. Len(s)
           /\ getAttrPos(s, s[k]) > Len(a) <=> k > Len(a)
  <1> DEFINE p == getAttrPos(s, s[k])
  <1>1. /\ IsSeq(s) /\ Len(a) \in Nat /\ Len(b) \in Nat /\ Len(s) = Len(a) + Len(b)
        /\ \A j \in 1 .. Len(a) : s[j] \in AttrNames
        /\ \A j \in 1 .. Len(s) : j > Len(a) => s[j] \in ProvAttrNames
    BY NamesOfFacts
  <1>2. p \in 1 .. k /\ s[p] = s[k]
    BY <1>1, FirstOfName
  <1> HIDE DEF p
  <1>3. p \in 1 .. Len(s)
    BY <1>1, <1>2
  <1>4. ASSUME k > Len(a), ~ p > Len(a) PROVE FALSE
    <2>1. p \in 1 .. Len(a)
      BY <1>1, <1>2, <1>4
    <2>2. s[p] \in AttrNames /\ s[k] \in ProvAttrNames
      BY <1>1, <1>4, <2>1
    <2> QED
      BY <1>2, <2>2, NameSets
  <1>5. p > Len(a) => k > Len(a)
    BY <1>1, <1>2
  <1> QED
    BY <1>3, <1>4, <1>5 DEF p

LEMMA KeptProvAttrs ==
    ASSUME NEW s, NEW a, NEW b, NamesOf(s, a, b), NEW e, IsSeq(e), Len(e) = Len(s),
           \A k \in 1 .. Len(s) : e[k] = getAttrPos(s, s[k])
    PROVE  Keep(IntSeq(1, Len(e)), {k \in DOMAIN e : Contains(IntSeq(Len(a) + 1, Len(a) + Len(b)), e[k])})
              = IntSeq(Len(a) + 1, Len(a) + Len(b))
  <1> DEFINE la == Len(a)
             lb == Len(b)
             n == Len(e)
             z == IntSeq(la + 1, la + lb)
             P == {k \in DOMAIN e : Contains(z, e[k])}
  <1>1. /\ la \in Nat /\ lb \in Nat /\ Len(s) = la + lb /\ n = la + lb /\ DOMAIN e = 1 .. n /\ n \in Nat
    BY NamesOfFacts DEF IsSeq
  <1>2. \A k \in 1 .. n : e[k] \in 1 .. n /\ (e[k] > la <=> k > la)
    <2> TAKE k \in 1 .. n
    <2>1. k \in 1 .. Len(s) /\ e[k] = getAttrPos(s, s[k]) /\ Len(s) = n
      OBVIOUS
    <2>2. /\ getAttrPos(s, s[k]) \in 1 .. Len(s)
          /\ getAttrPos(s, s[k]) > Len(a) <=> k > Len(a)
      BY ONLY <2>1, NamesOf(s, a, b), FoundByKind
    <2> QED
      BY <2>1, <2>2
  <1> HIDE DEF la, lb, n
  <1>3. /\ IsSeq(z) /\ z \in Seq(la + 1 .. la + lb) /\ DOMAIN z = 1 .. lb
        /\ \A k \in 1 .. lb : z[k] = la + k
    BY <1>1, IntSeqFacts
  <1>4. z \in Seq(1 .. n)
    <2> DEFINE S == la + 1 .. la + lb
               T == 1 .. n
    <2>1. z \in Seq(S) /\ S \subseteq T
      BY <1>1, <1>3
    <2> HIDE DEF S, T
    <2>2. z \in Seq(T)
      BY <2>1, SeqWider
    <2> QED
      BY <2>2 DEF T
  <1> HIDE DEF z
  <1>5. \A v : v \in ToSet(z) <=> v \in la + 1 .. la + lb
    <2>1. ToSet(z) = {z[k] : k \in 1 .. lb}
      BY <1>3 DEF ToSet
    <2>2. ASSUME NEW v \in la + 1 .. la + lb PROVE v \in ToSet(z)
      <3>1. v - la \in 1 .. lb /\ la + (v - la) = v
        BY <1>1
      <3> QED
        BY <1>3, <2>1, <3>1
    <2>3. ASSUME NEW v \in ToSet(z) PROVE v \in la + 1 .. la + lb
      BY <1>1, <1>3, <2>1
    <2> QED
      BY <2>2, <2>3
  <1>6. ASSUME NEW k \in 1 .. n PROVE k \in P <=> k \in ToSet(z)
    <2>1. k \in P <=> e[k] \in ToSet(z)
      BY <1>1, <1>3, ContainsDef
    <2>2. e[k] \in ToSet(z) <=> k \in ToSet(z)
      BY <1>1, <1>2, <1>5, SMTT(30)
    <2> QED
      BY <2>1, <2>2
  <1>7. \A j, k \in DOMAIN z : j < k => z[j] < z[k]
    BY <1>1, <1>3
  <1> HIDE DEF P
  <1>8. Keep(IntSeq(1, n), P) = z
    BY ONLY <1>1, <1>4, <1>6, <1>7, KeepIncreasing
  <1> QED
    BY <1>8 DEF P, n, z, la, lb

\* A node c that stands for operator o and can be used again.
ReuseInput(g, c, o) ==
    /\ GraphOk(g) /\ NodesOk(g) /\ c \in DOMAIN g /\ DataOk(query, o)
    /\ Shaped(g[c], o) /\ InfoOk(g[c]) /\ g[c].info # << >>
    /\ provCounts \in [ProvPrefixes -> Int]

\* The graph that rewriteReuse makes, with the names fresh.
ReuseOver(g, c, fresh) ==
    WithInfo(Attach(g, createProjOnAttrsByName(g, c, NormalNames(g[c]) \o ProvNames(g[c]),
                                               NormalNames(g[c]) \o fresh)),
             g[c].info)

LEMMA ReuseIs ==
    ASSUME NEW g, NEW c
    PROVE  rewriteReuse(g, c) = ReuseOver(g, c, FlattenSeq(FreshParts(g[c].info)))
  BY DEF rewriteReuse, ReuseOver, FreshParts, FreshPart

\* What the projection of node n, which stands for o, is made of.
RenamedParts(n, o, a, b, s, e) ==
    /\ Parts(n, a, b) /\ NamesOf(s, a, b) /\ s = a \o b /\ Fits(a, o)
    /\ e \in Seq(0 .. Len(a) + Len(b)) /\ Len(e) = Len(a) + Len(b)
    /\ \A k \in 1 .. Len(o.schema) : e[k] = k
    /\ Keep(IntSeq(1, Len(e)), {k \in DOMAIN e : Contains(n.provAttrs, e[k])})
           = IntSeq(Len(a) + 1, Len(a) + Len(b))

LEMMA ReuseNames ==
    ASSUME NEW n, NEW o, Shaped(n, o), DataOk(query, o)
    PROVE  RenamedParts(n, o, NormalNames(n), ProvNames(n), n.schema, ByName(n.schema, n.schema))
  <1> DEFINE a == NormalNames(n)
             b == ProvNames(n)
             s == n.schema
             e == ByName(s, s)
             u == Len(o.schema)
  <1>1. /\ Parts(n, a, b) /\ a \in Seq(AttrNames) /\ b \in Seq(ProvAttrNames)
        /\ u <= Len(a) /\ \A k \in DOMAIN o.schema : a[k] = o.schema[k]
        /\ IsSet(query[o.core], {"INTERSECTION"}) \/ u = Len(a)
    BY DEF Shaped
  <1>2. s = a \o b /\ n.provAttrs = IntSeq(Len(a) + 1, Len(a) + Len(b))
    BY <1>1 DEF Parts
  <1>3. NamesOf(s, a, b) /\ Fits(a, o)
    BY <1>1, <1>2 DEF NamesOf, Fits
  <1>4. /\ IsSeq(s) /\ Len(a) \in Nat /\ Len(b) \in Nat /\ Len(s) = Len(a) + Len(b)
        /\ \A k \in 1 .. Len(a) : s[k] = a[k]
    BY ONLY <1>3, NamesOfFacts
  <1>5. u \in Nat /\ DOMAIN o.schema = 1 .. u /\ IsInjective(o.schema)
    BY SchemaFacts
  <1>6. NamesFit(s, s, u)
    <2>1. \A k \in 1 .. u : s[k] = o.schema[k]
      BY <1>1, <1>4, <1>5
    <2>2. u <= Len(s)
      BY <1>1, <1>4, <1>5
    <2>3. \A j, k \in 1 .. u : s[j] = s[k] => j = k
      BY <1>5, <2>1 DEF IsInjective
    <2> HIDE DEF u
    <2> QED
      BY <1>4, <1>5, <2>2, <2>3 DEF NamesFit
  <1> HIDE DEF u
  <1>7. /\ ByName(s, s) \in Seq(0 .. Len(s)) /\ Len(ByName(s, s)) = Len(s)
        /\ \A k \in 1 .. u : ByName(s, s)[k] = k
        /\ \A k \in 1 .. Len(s) : ByName(s, s)[k] = getAttrPos(s, s[k])
    BY ONLY <1>6, ByNameFacts
  <1>8. /\ e \in Seq(0 .. Len(s)) /\ Len(e) = Len(s) /\ \A k \in 1 .. u : e[k] = k
        /\ \A k \in 1 .. Len(s) : e[k] = getAttrPos(s, s[k])
    BY <1>7
  <1>9. IsSeq(e)
    BY <1>8, SeqIsSeq
  <1>10. Keep(IntSeq(1, Len(e)), {k \in DOMAIN e : Contains(IntSeq(Len(a) + 1, Len(a) + Len(b)), e[k])})
             = IntSeq(Len(a) + 1, Len(a) + Len(b))
    BY ONLY <1>3, <1>8, <1>9, KeptProvAttrs
  <1>11. Keep(IntSeq(1, Len(e)), {k \in DOMAIN e : Contains(n.provAttrs, e[k])})
             = IntSeq(Len(a) + 1, Len(a) + Len(b))
    BY ONLY <1>2, <1>10
  <1> QED
    BY <1>1, <1>2, <1>3, <1>4, <1>8, <1>11 DEF u, RenamedParts

LEMMA ReuseRule ==
    ASSUME NEW g, NEW c, NEW o, ReuseInput(g, c, o), NEW h, h = rewriteReuse(g, c)
    PROVE  /\ Result(h, o, FlattenSeq(FreshParts(g[c].info))) /\ InfoOk(h[Len(h)])
           /\ h[Len(h)].info = g[c].info
           /\ SameRows(g[c], o) => SameRows(h[Len(h)], o)
  <1> DEFINE n == g[c]
             a == NormalNames(n)
             b == ProvNames(n)
             s == n.schema
             info == n.info
             fresh == FlattenSeq(FreshParts(info))
             m == createProjOnAttrsByName(g, c, s, a \o fresh)
             k == Attach(g, m)
             e == ByName(s, s)
             w == Len(a) + Len(b)
             u == Len(o.schema)
  <1>1. /\ GraphOk(g) /\ NodesOk(g) /\ c \in DOMAIN g /\ DataOk(query, o)
        /\ Shaped(n, o) /\ InfoOk(n) /\ info # << >> /\ provCounts \in [ProvPrefixes -> Int]
    BY DEF ReuseInput
  <1>2. /\ Parts(n, a, b) /\ NamesOf(s, a, b) /\ s = a \o b /\ Fits(a, o)
        /\ e \in Seq(0 .. w) /\ Len(e) = w
        /\ \A j \in 1 .. u : e[j] = j
        /\ Keep(IntSeq(1, Len(e)), {j \in DOMAIN e : Contains(n.provAttrs, e[j])})
                  = IntSeq(Len(a) + 1, Len(a) + Len(b))
    <2>1. Shaped(n, o) /\ DataOk(query, o)
      BY <1>1
    <2>2. RenamedParts(n, o, NormalNames(n), ProvNames(n), n.schema, ByName(n.schema, n.schema))
      <3> HIDE DEF n
      <3> QED
        BY ONLY <2>1, ReuseNames
    <2>3. RenamedParts(n, o, a, b, s, e)
      BY <2>2
    <2> HIDE DEF n, a, b, s, e
    <2> QED
      BY <2>3 DEF RenamedParts, w, u
  <1>3. h = WithInfo(k, info)
    <2>1. ReuseOver(g, c, fresh) = WithInfo(k, info)
      BY <1>2 DEF ReuseOver
    <2>2. rewriteReuse(g, c) = ReuseOver(g, c, fresh)
      BY ReuseIs
    <2> HIDE DEF k, info, fresh
    <2> QED
      BY <2>1, <2>2
  <1>4. /\ info \in Infos /\ Len(FlattenSeq(Paths(info))) = Len(n.provAttrs) /\ IsSeq(info)
    <2>1. info \in Infos /\ Len(FlattenSeq(Paths(info))) = Len(n.provAttrs)
      BY <1>1 DEF InfoOk, Infos
    <2>2. IsSeq(info)
      BY <1>1 DEF GraphOk, IsNode
    <2> QED
      BY <2>1, <2>2
  <1>5. /\ Len(a) \in Nat /\ Len(b) \in Nat /\ Len(n.provAttrs) = Len(b) /\ n.rel \in Relations(w)
        /\ a \in Seq(NodeNames)
    <2>1. Len(a) \in Nat /\ Len(b) \in Nat /\ Len(n.provAttrs) = Len(b) /\ n.rel \in Relations(Len(a) + Len(b))
      <3> HIDE DEF n, a, b
      <3> QED
        BY <1>2, PartsFacts
    <2>2. a \in Seq(NodeNames)
      BY <1>2 DEF Parts
    <2> QED
      BY <2>1, <2>2
  <1>6. fresh \in Seq(ProvAttrNames) /\ Len(fresh) = Len(b)
    <2> HIDE DEF info, n, b
    <2>1. /\ FlattenSeq(FreshParts(info)) \in Seq(ProvAttrNames)
          /\ Len(FlattenSeq(FreshParts(info))) = Len(FlattenSeq(Paths(info)))
      BY <1>1, <1>4, FreshNames
    <2> QED
      BY <1>4, <1>5, <2>1
  <1>7. fresh \in Seq(NodeNames)
    <2> HIDE DEF fresh
    <2> QED
      BY <1>6, NameSets, SeqWider
  <1>8. ByNameNode(m, g, c, s, a \o fresh, IntSeq(Len(a) + 1, Len(a) + Len(b)))
    <2>1. KeptByName(g, c, s) = IntSeq(Len(a) + 1, Len(a) + Len(b))
      BY <1>2 DEF KeptByName
    <2> DEFINE news == a \o fresh
    <2>2. m = createProjOnAttrsByName(g, c, s, news) /\ c \in DOMAIN g
      BY <1>1
    <2> HIDE DEF news, m, s, a, b, n
    <2>3. ByNameNode(m, g, c, s, news, KeptByName(g, c, s))
      BY ONLY <2>2, NamedProjection
    <2> QED
      BY <2>1, <2>3 DEF news
  <1>9. /\ m.type = "Projection" /\ m.schema = a \o fresh /\ m.width = Len(e)
        /\ m.rel = Project(n.rel, e) /\ m.provAttrs = IntSeq(Len(a) + 1, Len(a) + Len(fresh))
        /\ IsNewNode(g, m)
    <2> HIDE DEF m, fresh
    <2> QED
      BY <1>6, <1>8 DEF ByNameNode
  <1>10. k = Attach(g, m) /\ n = g[c]
    OBVIOUS
  <1> HIDE DEF n, a, b, s, info, fresh, m, k, e, w, u
  <1>11. Parts(m, a, fresh) /\ \A f : NodeOk(f, m)
    <2>1. w \in Nat /\ Len(e) = Len(a) + Len(fresh)
      BY <1>2, <1>5, <1>6 DEF w
    <2> QED
      BY ONLY <1>2, <1>5, <1>7, <1>9, <2>1, PartsOfProjection
  <1>12. u \in Nat /\ o.rel \in Relations(Len(o.schema)) /\ u <= Len(e)
    <2>1. u \in Nat /\ o.rel \in Relations(Len(o.schema))
      BY <1>1, SchemaFacts DEF u
    <2>2. u <= Len(a)
      BY <1>2 DEF Fits, u
    <2> QED
      BY <1>2, <1>5, <2>1, <2>2 DEF w
  <1>13. /\ Result(h, o, fresh)
         /\ Matched(m.rel, o.rel, Len(o.schema)) => SameRows(h[Len(h)], o)
    BY ONLY <1>1, <1>2, <1>3, <1>4, <1>6, <1>9, <1>10, <1>11, <1>12, NewResult
  <1>14. ASSUME SameRows(n, o) PROVE Matched(m.rel, o.rel, u)
    <2>1. Matched(n.rel, o.rel, u)
      BY <1>12, <1>14, CutMatched DEF SameRows, u
    <2>2. w \in Nat
      BY <1>5 DEF w
    <2>3. Matched(Project(n.rel, e), o.rel, u)
      BY ONLY <1>2, <1>5, <1>12, <2>1, <2>2, PrefixMatched
    <2> QED
      BY <1>9, <2>3
  <1>15. InfoOk(h[Len(h)]) /\ h[Len(h)].info = info
    <2>1. Len(h[Len(h)].provAttrs) = Len(fresh)
      BY <1>13 DEF Result
    <2>2. h[Len(h)].info = info
      <3>1. Grown(g, k, m)
        BY <1>1, <1>9, <1>10, Grows
      <3>2. GraphOk(k) /\ NodesOk(k) /\ Len(k) \in DOMAIN k
        BY <1>1, <1>11, <3>1 DEF Grown
      <3> QED
        BY ONLY <1>3, <1>4, <3>2, InfoKept
    <2> QED
      BY <1>4, <1>5, <1>6, <2>1, <2>2 DEF InfoOk, Infos
  <1> QED
    BY <1>13, <1>14, <1>15 DEF u, n, info, fresh

(***************************************************************************)
(* Table information                                                       *)
(***************************************************************************)
\* The parts of the first i sequences, in two lists that begin alike.
LEMMA FlattenConcat ==
    ASSUME NEW S, NEW ss \in Seq(Seq(S)), NEW tt \in Seq(Seq(S)), ss # << >>, tt # << >>
    PROVE  Len(FlattenSeq(ss \o tt)) = Len(FlattenSeq(ss)) + Len(FlattenSeq(tt))
  <1> DEFINE m == Len(ss)
             p == Len(tt)
             uu == ss \o tt
             T == Seq(S)
  <1>1. /\ uu \in Seq(T) /\ Len(uu) = m + p /\ m \in Nat /\ p \in Nat
        /\ \A k \in 1 .. m : uu[k] = ss[k]
        /\ \A k \in 1 .. p : uu[m + k] = tt[k]
        /\ IsSeq(ss) /\ IsSeq(tt)
    <2>1. ss \in Seq(T) /\ tt \in Seq(T)
      OBVIOUS
    <2> HIDE DEF T
    <2> QED
      BY <2>1, ConcatFacts, SeqIsSeq
  <1>2. m >= 1 /\ p >= 1 /\ uu # << >>
    <2>1. m # 0 /\ p # 0
      OBVIOUS
    <2>2. m + p # 0
      BY <1>1, <2>1
    <2>3. uu # << >>
      BY <1>1, <2>2, EmptyIsSeq
    <2> QED
      BY <1>1, <2>1, <2>3
  <1>3. PICK f : Flattened(f, ss, S)
    BY FlattenFunction
  <1>4. PICK e : Flattened(e, tt, S)
    BY FlattenFunction
  <1>5. uu \in Seq(Seq(S))
    BY <1>1
  <1> HIDE DEF uu, T
  <1>6. PICK h : Flattened(h, uu, S)
    BY <1>2, <1>5, FlattenFunction
  <1> HIDE DEF m, p
  <1>7. /\ f \in [1 .. m -> Seq(S)] /\ f[1] = ss[1] /\ FlattenSeq(ss) = f[m]
        /\ \A i \in 2 .. m : f[i] = f[i - 1] \o ss[i]
        /\ e \in [1 .. p -> Seq(S)] /\ e[1] = tt[1] /\ FlattenSeq(tt) = e[p]
        /\ \A i \in 2 .. p : e[i] = e[i - 1] \o tt[i]
        /\ h \in [1 .. m + p -> Seq(S)] /\ h[1] = uu[1] /\ FlattenSeq(uu) = h[m + p]
        /\ \A i \in 2 .. m + p : h[i] = h[i - 1] \o uu[i]
    BY <1>1, <1>3, <1>4, <1>6 DEF Flattened, m, p
  <1>8. \A i \in 1 .. m : h[i] = f[i]
    <2> DEFINE P == {i \in 0 .. m : i = 0 \/ h[i] = f[i]}
    <2>1. 0 \in P
      BY <1>1
    <2>2. ASSUME NEW i \in 1 .. m, i - 1 \in P PROVE i \in P
      <3>1. CASE i = 1
        <4>1. 1 \in 1 .. m /\ 1 \in 0 .. m
          BY <1>1, <1>2
        <4>2. uu[1] = ss[1]
          BY ONLY <1>1, <4>1
        <4>3. h[1] = f[1]
          BY ONLY <1>7, <4>2
        <4> QED
          BY ONLY <3>1, <4>1, <4>3
      <3>2. CASE i # 1
        <4>1. i \in 2 .. m /\ i \in 2 .. m + p /\ i - 1 # 0
          BY <1>1, <2>2, <3>2
        <4>2. h[i - 1] = f[i - 1]
          BY <2>2, <4>1
        <4>3. h[i] = f[i]
          BY <1>1, <1>7, <2>2, <4>1, <4>2
        <4> QED
          BY <1>1, <2>2, <4>3
      <3> QED
        BY <3>1, <3>2
    <2> HIDE DEF P
    <2>3. \A i \in 0 .. m : i \in P
      BY <1>1, <2>1, <2>2, Inductive
    <2> QED
      BY <1>1, <2>3 DEF P
  <1>9. \A i \in 1 .. p : Len(h[m + i]) = Len(f[m]) + Len(e[i])
    <2> DEFINE P == {i \in 0 .. p : i = 0 \/ Len(h[m + i]) = Len(f[m]) + Len(e[i])}
    <2>1. 0 \in P
      BY <1>1
    <2>2. ASSUME NEW i \in 1 .. p, i - 1 \in P PROVE i \in P
      <3>0. PICK j : j = m + i
        OBVIOUS
      <3>1. /\ j \in 2 .. m + p /\ uu[j] = tt[i] /\ j - 1 \in 1 .. m + p
            /\ j \in 1 .. m + p /\ m \in 1 .. m /\ j - 1 = m + (i - 1)
        BY <1>1, <1>2, <2>2, <3>0
      <3>2. h[j] = h[j - 1] \o tt[i]
        BY <1>7, <3>1
      <3>3. h[j - 1] \in Seq(S) /\ tt[i] \in Seq(S) /\ f[m] \in Seq(S)
        <4> DEFINE T2 == Seq(S)
                   z == j - 1
        <4>1. tt \in Seq(T2) /\ i \in 1 .. Len(tt) /\ z \in 1 .. m + p /\ h \in [1 .. m + p -> T2]
              /\ f \in [1 .. m -> T2] /\ m \in 1 .. m
          BY <1>7, <3>1 DEF p
        <4> HIDE DEF T2, z
        <4>2. h[z] \in T2 /\ tt[i] \in T2 /\ f[m] \in T2
          BY <4>1, SeqIsSeq
        <4> QED
          BY <4>2 DEF T2, z
      <3>4. Len(h[j]) = Len(h[j - 1]) + Len(tt[i])
        BY <3>2, <3>3, ConcatFacts
      <3>5. Len(h[j]) = Len(f[m]) + Len(e[i])
        <4>1. CASE i = 1
          <5>1. j - 1 = m
            BY <1>1, <3>1, <4>1
          <5> QED
            BY <1>7, <1>8, <3>1, <3>4, <4>1, <5>1
        <4>2. CASE i # 1
          <5>1. i \in 2 .. p /\ i - 1 # 0 /\ i - 1 \in 1 .. p
            BY <1>1, <2>2, <4>2
          <5>2. e[i] = e[i - 1] \o tt[i] /\ e[i - 1] \in Seq(S)
            BY <1>7, <5>1
          <5>3. Len(e[i]) = Len(e[i - 1]) + Len(tt[i])
            BY <3>3, <5>2, ConcatFacts
          <5>4. Len(h[m + (i - 1)]) = Len(f[m]) + Len(e[i - 1])
            BY <2>2, <5>1
          <5>5. Len(f[m]) \in Nat /\ Len(e[i - 1]) \in Nat /\ Len(tt[i]) \in Nat
            BY <3>3, <5>2, LenProperties
          <5>6. Len(h[j - 1]) = Len(f[m]) + Len(e[i - 1])
            BY ONLY <3>1, <5>4
          <5>7. PICK y1 \in Nat : y1 = Len(f[m])
            BY <5>5
          <5>8. PICK y2 \in Nat : y2 = Len(e[i - 1])
            BY <5>5
          <5>9. PICK y3 \in Nat : y3 = Len(tt[i])
            BY <5>5
          <5>10. Len(h[j]) = (y1 + y2) + y3
            BY ONLY <3>4, <5>6, <5>7, <5>8, <5>9
          <5>11. Len(e[i]) = y2 + y3
            BY ONLY <5>3, <5>8, <5>9
          <5>12. (y1 + y2) + y3 = y1 + (y2 + y3)
            BY ONLY y1 \in Nat, y2 \in Nat, y3 \in Nat
          <5> QED
            BY ONLY <5>7, <5>10, <5>11, <5>12
        <4> QED
          BY <4>1, <4>2
      <3>6. i \in 0 .. p
        BY <1>1, <2>2
      <3> QED
        BY <3>0, <3>5, <3>6
    <2>3. \A i \in 0 .. p : i \in P
      <3> HIDE DEF P
      <3> QED
        BY <1>1, <2>1, <2>2, Inductive
    <2> SUFFICES ASSUME NEW i \in 1 .. p PROVE Len(h[m + i]) = Len(f[m]) + Len(e[i])
      OBVIOUS
    <2>4. i \in 0 .. p /\ i # 0
      BY <1>1
    <2>5. i \in P
      BY <2>3, <2>4
    <2> QED
      BY <2>4, <2>5
  <1>10. p \in 1 .. p
    BY <1>1, <1>2
  <1> QED
    BY <1>7, <1>9, <1>10 DEF uu

LEMMA PathsOfBoth ==
    ASSUME NEW s \in Infos, NEW t \in Infos, s # << >>, t # << >>
    PROVE  /\ s \o t \in Infos /\ s \o t # << >>
           /\ Len(FlattenSeq(Paths(s \o t))) = Len(FlattenSeq(Paths(s))) + Len(FlattenSeq(Paths(t)))
  <1> DEFINE S == ProvPrefixes \X Seq(Seq(Words))
  <1>1. s \in Seq(S) /\ t \in Seq(S)
    BY DEF Infos
  <1> HIDE DEF S
  <1>2. /\ s \o t \in Seq(S) /\ Len(s \o t) = Len(s) + Len(t) /\ Len(s) \in Nat /\ Len(t) \in Nat
        /\ \A k \in 1 .. Len(s) : (s \o t)[k] = s[k]
        /\ \A k \in 1 .. Len(t) : (s \o t)[Len(s) + k] = t[k]
    BY <1>1, ConcatFacts
  <1>3. ASSUME NEW r \in Seq(S)
        PROVE  /\ Paths(r) \in Seq(Seq(Seq(Words))) /\ Len(Paths(r)) = Len(r)
               /\ \A k \in 1 .. Len(r) : Paths(r)[k] = r[k][2]
               /\ r # << >> => Len(r) # 0
    <2>1. DOMAIN r = 1 .. Len(r) /\ Len(r) \in Nat /\ \A k \in 1 .. Len(r) : r[k] \in S
      BY SeqIsSeq
    <2>2. \A z \in S : z[2] \in Seq(Seq(Words))
      BY DEF S
    <2>3. Paths(r) = [k \in 1 .. Len(r) |-> r[k][2]]
      BY <2>1 DEF Paths
    <2> DEFINE W == Seq(Seq(Words))
    <2>4. Paths(r) \in [1 .. Len(r) -> W]
      BY <2>1, <2>2, <2>3
    <2> HIDE DEF W
    <2>5. Paths(r) \in Seq(W) /\ Len(Paths(r)) = Len(r)
      BY <2>1, <2>4, SeqOfFn
    <2>6. r # << >> => Len(r) # 0
      OBVIOUS
    <2> QED
      BY <2>3, <2>5, <2>6 DEF W
  <1> DEFINE a == Paths(s)
             b == Paths(t)
             c == Paths(s \o t)
             W == Seq(Words)
  <1>4. /\ a \in Seq(Seq(W)) /\ b \in Seq(Seq(W)) /\ c \in Seq(Seq(W))
        /\ Len(a) = Len(s) /\ Len(b) = Len(t) /\ Len(c) = Len(s) + Len(t)
    BY <1>1, <1>2, <1>3
  <1>5. /\ \A k \in 1 .. Len(a) : c[k] = a[k]
        /\ \A k \in 1 .. Len(b) : c[Len(a) + k] = b[k]
        /\ a # << >> /\ b # << >>
    <2>1. /\ \A k \in 1 .. Len(s) : a[k] = s[k][2]
          /\ \A k \in 1 .. Len(t) : b[k] = t[k][2]
          /\ \A k \in 1 .. Len(s \o t) : c[k] = (s \o t)[k][2]
          /\ Len(s) # 0 /\ Len(t) # 0
      BY <1>1, <1>2, <1>3
    <2>2. /\ \A k \in 1 .. Len(s) : k \in 1 .. Len(s \o t)
          /\ \A k \in 1 .. Len(t) : Len(s) + k \in 1 .. Len(s \o t)
      BY <1>2
    <2> HIDE DEF a, b, c
    <2>3. a # << >> /\ b # << >>
      BY <1>4, <2>1, EmptyIsSeq
    <2>4. \A k \in 1 .. Len(a) : c[k] = a[k]
      BY <1>2, <1>4, <2>1, <2>2, ZenonT(40)
    <2>5. ASSUME NEW k \in 1 .. Len(b) PROVE c[Len(a) + k] = b[k]
      <3>1. k \in 1 .. Len(t) /\ Len(a) + k = Len(s) + k
        BY <1>4
      <3> DEFINE j == Len(s) + k
      <3>2. j \in 1 .. Len(s \o t) /\ (s \o t)[j] = t[k] /\ b[k] = t[k][2]
        BY <1>2, <2>1, <2>2, <3>1
      <3> HIDE DEF j
      <3>3. c[j] = b[k]
        BY <2>1, <3>2
      <3> QED
        BY <3>1, <3>3 DEF j
    <2> QED
      BY <2>3, <2>4, <2>5
  <1> HIDE DEF a, b, c, W
  <1>6. c = a \o b
    <2>1. /\ IsSeq(c) /\ a \o b \in Seq(Seq(W)) /\ Len(a \o b) = Len(a) + Len(b)
          /\ Len(a) \in Nat /\ Len(b) \in Nat
          /\ \A k \in 1 .. Len(a) : (a \o b)[k] = a[k]
          /\ \A k \in 1 .. Len(b) : (a \o b)[Len(a) + k] = b[k]
      <3> DEFINE V == Seq(W)
      <3>1. a \in Seq(V) /\ b \in Seq(V) /\ c \in Seq(V)
        BY <1>4
      <3> HIDE DEF V
      <3>2. IsSeq(c)
        BY <3>1, SeqIsSeq
      <3>3. /\ a \o b \in Seq(V) /\ Len(a \o b) = Len(a) + Len(b)
            /\ Len(a) \in Nat /\ Len(b) \in Nat
            /\ \A k \in 1 .. Len(a) : (a \o b)[k] = a[k]
            /\ \A k \in 1 .. Len(b) : (a \o b)[Len(a) + k] = b[k]
        BY <3>1, ConcatFacts
      <3> QED
        BY <3>2, <3>3 DEF V
    <2>2. IsSeq(a \o b)
      BY <2>1, SeqIsSeq
    <2>3. \A k \in 1 .. Len(c) : c[k] = (a \o b)[k]
      <3> SUFFICES ASSUME NEW k \in 1 .. Len(c) PROVE c[k] = (a \o b)[k]
        OBVIOUS
      <3>1. k \in 1 .. Len(a) + Len(b)
        BY <1>4
      <3>2. k \in 1 .. Len(a) \/ (k - Len(a) \in 1 .. Len(b) /\ Len(a) + (k - Len(a)) = k)
        BY <2>1, <3>1, SplitPos
      <3>3. CASE k \in 1 .. Len(a)
        BY <1>5, <2>1, <3>3
      <3>4. CASE k - Len(a) \in 1 .. Len(b) /\ Len(a) + (k - Len(a)) = k
        <4> DEFINE j == k - Len(a)
        <4>1. j \in 1 .. Len(b) /\ k = Len(a) + j
          BY <3>4
        <4> HIDE DEF j
        <4> QED
          BY <1>5, <2>1, <4>1
      <3> QED
        BY <3>2, <3>3, <3>4
    <2> QED
      BY <1>4, <2>1, <2>2, <2>3, SameSeq
  <1>7. Len(FlattenSeq(a \o b)) = Len(FlattenSeq(a)) + Len(FlattenSeq(b))
    BY <1>4, <1>5, FlattenConcat
  <1>8. s \o t \in Infos
    BY <1>2 DEF Infos, S
  <1>9. s \o t # << >>
    <2>1. Len(s) # 0
      BY <1>1
    <2>2. Len(s \o t) # 0
      BY <1>2, <2>1
    <2> QED
      BY <2>2, EmptyIsSeq
  <1> QED
    BY <1>6, <1>7, <1>8, <1>9 DEF a, b, c

(***************************************************************************)
(* The rules, one operator at a time                                       *)
(***************************************************************************)
\* A node that stands for an operator, with its table information.
Stands(n, o) == Shaped(n, o) /\ InfoOk(n)
\* Graph h ends in the node for operator o.
Done(h, o) == NodesOk(h) /\ Stands(h[Len(h)], o)

\* Operator o of the query and a node x for its input number k.
OpIs(g, o) ==
    /\ GraphOk(g) /\ NodesOk(g) /\ InputsOk(query, o) /\ DataOk(query, o)
    /\ IntersectionOk(query, o)
\* The node x of its input number k.
InputStands(g, o, k, x) ==
    /\ k \in DOMAIN o.in /\ x \in DOMAIN g
    /\ DataOk(query, query[o.in[k]]) /\ Stands(g[x], query[o.in[k]])

LEMMA InputFacts ==
    ASSUME NEW g, NEW o, OpIs(g, o), NEW k, NEW x, InputStands(g, o, k, x)
    PROVE  /\ InputIs(g[x], query[o.in[k]], NormalNames(g[x]), ProvNames(g[x]))
           /\ o.type \notin {"Projection", "Aggregation", "DuplicateRemoval"} =>
                InputIs(g[x], query[o.in[k]], query[o.in[k]].schema, ProvNames(g[x]))
           /\ InfoOk(g[x]) /\ Len(g[x].provAttrs) = Len(ProvNames(g[x]))
  <1> DEFINE i == query[o.in[k]]
             a == NormalNames(g[x])
             b == ProvNames(g[x])
  <1>1. Shaped(g[x], i) /\ InfoOk(g[x]) /\ DataOk(query, i)
    BY DEF InputStands, Stands
  <1>2. InputIs(g[x], i, a, b)
    <2> HIDE DEF i
    <2> QED
      BY <1>1, InputShape
  <1>3. ASSUME o.type \notin {"Projection", "Aggregation", "DuplicateRemoval"}
        PROVE  InputIs(g[x], i, i.schema, b)
    <2>1. ~ IsSet(query[i.core], {"INTERSECTION"})
      BY <1>3 DEF OpIs, InputStands, IntersectionOk
    <2>2. a = i.schema
      BY <1>2, <2>1 DEF InputIs
    <2> HIDE DEF a, b, i
    <2> QED
      BY <1>2, <2>2
  <1>4. Len(g[x].provAttrs) = Len(b)
    <2>1. Parts(g[x], a, b)
      BY <1>2 DEF InputIs
    <2> HIDE DEF a, b
    <2> QED
      BY <2>1, PartsFacts
  <1> QED
    BY <1>1, <1>2, <1>3, <1>4

LEMMA DoneFrom ==
    ASSUME NEW h, NEW o, NEW p, Result(h, o, p), NEW info, info \in Infos,
           h[Len(h)].info = info, info # << >> => Len(FlattenSeq(Paths(info))) = Len(p)
    PROVE  Done(h, o)
  BY DEF Result, Done, Stands, InfoOk, Infos

LEMMA UnaryDone ==
    ASSUME NEW o, OpIs(graph, o), NEW x, InputStands(graph, o, 1, x), NEW ins, ins = << x >>,
           o.type \in {"Selection", "Order", "Projection", "Aggregation"},
           NEW h, h = Rewritten(o, ins)
    PROVE  /\ Done(h, o)
           /\ ProvNames(h[Len(h)]) = ProvNames(graph[x]) /\ h[Len(h)].info = graph[x].info
           /\ SameRows(graph[x], query[o.in[1]]) /\ NotNullIn(query[o.in[1]]) =>
                SameRows(h[Len(h)], o)
  <1> DEFINE i == query[o.in[1]]
             a == NormalNames(graph[x])
             b == ProvNames(graph[x])
  <1>1. /\ GraphOk(graph) /\ NodesOk(graph) /\ InputsOk(query, o) /\ DataOk(query, o)
        /\ x \in DOMAIN graph /\ ins[1] = x
    BY DEF OpIs, InputStands
  <1>2. /\ InputIs(graph[x], i, a, b)
        /\ o.type \notin {"Projection", "Aggregation", "DuplicateRemoval"} =>
                InputIs(graph[x], i, i.schema, b)
        /\ InfoOk(graph[x]) /\ Len(graph[x].provAttrs) = Len(b)
    BY InputFacts
  <1>3. h[Len(h)].info = graph[x].info
    <2>1. ins = << ins[1] >> /\ ins[1] \in DOMAIN graph
      BY <1>1
    <2>2. h[Len(h)].info = graph[ins[1]].info
      BY ONLY <1>1, <2>1, o.type \in {"Selection", "Order", "Projection", "Aggregation"},
              h = Rewritten(o, ins), UnaryRewritten
    <2> QED
      BY <1>1, <2>2
  <1> HIDE DEF i, a, b
  <1>4. /\ Result(h, o, b)
        /\ SameRows(graph[x], i) /\ NotNullIn(i) => SameRows(h[Len(h)], o)
    <2>1. CASE o.type \in {"Selection", "Order"}
      <3>1. h = rewriteSameSchema(graph, o, ins) /\ InputIs(graph[x], i, i.schema, b)
        BY <1>2, <2>1 DEF Rewritten
      <3>2. i = query[o.in[1]]
        BY DEF i
      <3> QED
        BY ONLY <1>1, <2>1, <3>1, <3>2, ins = << x >>, SameSchemaResult
    <2>2. CASE o.type = "Projection"
      <3>1. h = rewriteProjection(graph, o, ins)
        BY <2>2 DEF Rewritten
      <3>2. i = query[o.in[1]]
        BY DEF i
      <3>3. /\ InputIs(graph[x], i, a, b) /\ GraphOk(graph) /\ NodesOk(graph)
            /\ InputsOk(query, o) /\ DataOk(query, o) /\ x \in DOMAIN graph
        BY <1>1, <1>2
      <3>4. Result(h, o, b) /\ (SameRows(graph[x], i) => SameRows(h[Len(h)], o))
        <4>1. PICK r : r = query[o.in[1]]
          OBVIOUS
        <4>2. InputIs(graph[x], r, a, b) /\ r = i
          BY <3>2, <3>3, <4>1
        <4>3. Result(h, o, b) /\ (SameRows(graph[x], r) => SameRows(h[Len(h)], o))
          BY ONLY <2>2, <3>1, <3>3, <4>1, <4>2, ins = << x >>, ProjectionResult
        <4> QED
          BY <4>2, <4>3
      <3> QED
        BY <3>4
    <2>3. CASE o.type = "Aggregation"
      <3>1. h = rewriteAggregation(graph, o, ins)
        BY <2>3 DEF Rewritten
      <3>2. SideInput(graph, o, x, i, a, b)
        BY <1>1, <1>2, <2>3 DEF SideInput, i
      <3> QED
        BY ONLY <3>1, <3>2, ins = << x >>, AggregationRule
    <2> QED
      BY <2>1, <2>2, <2>3
  <1>5. graph[x].info \in Infos /\ (graph[x].info # << >> => Len(FlattenSeq(Paths(graph[x].info))) = Len(b))
    BY <1>2 DEF InfoOk, Infos
  <1>6. Done(h, o)
    BY ONLY <1>3, <1>4, <1>5, DoneFrom
  <1>7. ProvNames(h[Len(h)]) = b
    BY <1>4 DEF Result
  <1> QED
    BY <1>3, <1>4, <1>6, <1>7 DEF b, i

\* An operator and the nodes of its two inputs.
BinaryInput(g, o, x, y) ==
    /\ OpIs(g, o) /\ InputStands(g, o, 1, x) /\ InputStands(g, o, 2, y)
    /\ g[x].info # << >> /\ g[y].info # << >>

LEMMA InfoTogether ==
    ASSUME NEW g, NEW o, NEW x, NEW y, BinaryInput(g, o, x, y)
    PROVE  /\ g[x].info \o g[y].info \in Infos /\ g[x].info \o g[y].info # << >>
           /\ IsSeq(g[x].info \o g[y].info)
           /\ Len(FlattenSeq(Paths(g[x].info \o g[y].info)))
                = Len(ProvNames(g[x]) \o ProvNames(g[y]))
  <1> DEFINE s == g[x].info
             t == g[y].info
             b == ProvNames(g[x])
             d == ProvNames(g[y])
  <1>1. /\ OpIs(g, o) /\ InputStands(g, o, 1, x) /\ InputStands(g, o, 2, y)
        /\ s # << >> /\ t # << >>
    BY DEF BinaryInput
  <1>2. /\ InfoOk(g[x]) /\ Len(g[x].provAttrs) = Len(b)
        /\ InfoOk(g[y]) /\ Len(g[y].provAttrs) = Len(d)
        /\ b \in Seq(ProvAttrNames) /\ d \in Seq(ProvAttrNames)
    <2>1. /\ InputIs(g[x], query[o.in[1]], NormalNames(g[x]), ProvNames(g[x]))
          /\ InfoOk(g[x]) /\ Len(g[x].provAttrs) = Len(ProvNames(g[x]))
      BY ONLY <1>1, InputFacts
    <2>2. /\ InputIs(g[y], query[o.in[2]], NormalNames(g[y]), ProvNames(g[y]))
          /\ InfoOk(g[y]) /\ Len(g[y].provAttrs) = Len(ProvNames(g[y]))
      BY ONLY <1>1, InputFacts
    <2> QED
      BY <2>1, <2>2 DEF InputIs
  <1>3. /\ s \in Infos /\ Len(FlattenSeq(Paths(s))) = Len(b)
        /\ t \in Infos /\ Len(FlattenSeq(Paths(t))) = Len(d)
    BY <1>1, <1>2 DEF InfoOk, Infos
  <1>4. Len(b \o d) = Len(b) + Len(d)
    <2> HIDE DEF b, d
    <2> QED
      BY <1>2, ConcatFacts
  <1> HIDE DEF s, t, b, d
  <1>5. /\ s \o t \in Infos /\ s \o t # << >>
        /\ Len(FlattenSeq(Paths(s \o t))) = Len(FlattenSeq(Paths(s))) + Len(FlattenSeq(Paths(t)))
    BY <1>1, <1>3, PathsOfBoth
  <1>6. IsSeq(s \o t)
    <2> DEFINE u == s \o t
    <2>1. u \in Infos
      BY <1>5
    <2> HIDE DEF u
    <2>2. IsSeq(u)
      BY <2>1, SeqIsSeq DEF Infos
    <2> QED
      BY <2>2 DEF u
  <1> QED
    BY <1>3, <1>4, <1>5, <1>6 DEF s, t, b, d

\* The three set operators.
SetInput(g, o, x, y, b, d, info) ==
    /\ GraphOk(g) /\ NodesOk(g) /\ InputsOk(query, o) /\ DataOk(query, o)
    /\ o.type = "Set" /\ o.how \in SetOps
    /\ o.how = "INTERSECTION" => IsSet(query[o.core], {"INTERSECTION"})
    /\ x \in DOMAIN g /\ y \in DOMAIN g /\ IsSeq(info)
    /\ InputIs(g[x], query[o.in[1]], query[o.in[1]].schema, b)
    /\ InputIs(g[y], query[o.in[2]], query[o.in[2]].schema, d)

\* The graph that its rule makes.
SetGraph(g, o, ins) ==
    CASE o.how = "UNION"        -> rewriteUnion(g, o, ins)
      [] o.how = "INTERSECTION" -> rewriteIntersection(g, o, ins)
      [] o.how = "DIFFERENCE"   -> rewriteDifference(g, o, ins)

\* What a set operator gets, with the rows of the operator if no NULLs are compared.
SetDone(g, o, x, y, b, d, h) ==
    /\ BothResult(h, o, b, d)
    /\ SameRows(g[x], query[o.in[1]]) /\ SameRows(g[y], query[o.in[2]]) /\ NullsOk(query, o) =>
         SameRows(h[Len(h)], o)

LEMMA SetRule ==
    ASSUME NEW g, NEW o, NEW x, NEW y, NEW b, NEW d, NEW info, SetInput(g, o, x, y, b, d, info),
           NEW ins, ins = << x, y >>
    PROVE  SetDone(g, o, x, y, b, d, WithInfo(SetGraph(g, o, ins), info))
  <1>1. PICK i : i = query[o.in[1]]
    OBVIOUS
  <1>2. PICK j : j = query[o.in[2]]
    OBVIOUS
  <1>3. /\ GraphOk(g) /\ NodesOk(g) /\ InputsOk(query, o) /\ DataOk(query, o)
        /\ o.type = "Set" /\ x \in DOMAIN g /\ y \in DOMAIN g /\ IsSeq(info)
        /\ InputIs(g[x], i, i.schema, b) /\ InputIs(g[y], j, j.schema, d)
    BY <1>1, <1>2 DEF SetInput
  <1>4. o.how \in SetOps /\ (o.how = "INTERSECTION" => IsSet(query[o.core], {"INTERSECTION"}))
    BY DEF SetInput
  <1>5. PICK h : h = WithInfo(SetGraph(g, o, ins), info)
    OBVIOUS
  <1>6. /\ BothResult(h, o, b, d)
        /\ SameRows(g[x], i) /\ SameRows(g[y], j) /\ NullsOk(query, o) => SameRows(h[Len(h)], o)
    <2>1. CASE o.how = "UNION"
      <3>1. h = WithInfo(rewriteUnion(g, o, << x, y >>), info)
        BY <1>5, <2>1 DEF SetGraph
      <3>2. /\ Result(h, o, b \o d)
            /\ SameRows(g[x], i) /\ SameRows(g[y], j) => SameRows(h[Len(h)], o)
        BY ONLY <1>1, <1>2, <1>3, <2>1, <3>1, UnionRule
      <3> QED
        BY <3>2, BothFrom
    <2>2. CASE o.how = "INTERSECTION"
      <3>1. h = WithInfo(rewriteIntersection(g, o, ins), info)
        BY <1>5, <2>2 DEF SetGraph
      <3>2. /\ Result(h, o, b \o d)
            /\ SameRows(g[x], i) /\ SameRows(g[y], j) /\ NullsOk(query, o) => SameRows(h[Len(h)], o)
        BY ONLY <1>1, <1>2, <1>3, <1>4, <2>2, <3>1, ins = << x, y >>, IntersectionRule
      <3> QED
        BY <3>2, BothFrom
    <2>3. CASE o.how = "DIFFERENCE"
      <3>1. h = WithInfo(rewriteDifference(g, o, ins), info)
        BY <1>5, <2>3 DEF SetGraph
      <3>2. /\ BothResult(h, o, b, d)
            /\ SameRows(g[x], i) /\ SameRows(g[y], j) => SameRows(h[Len(h)], o)
        BY ONLY <1>1, <1>2, <1>3, <2>3, <3>1, ins = << x, y >>, DifferenceRule
      <3> QED
        BY <3>2
    <2> QED
      BY <1>4, <2>1, <2>2, <2>3 DEF SetOps
  <1> QED
    BY <1>1, <1>2, <1>5, <1>6 DEF SetDone

\* Node n has the table information of c and d, and the provenance attributes
\* of both if those of c differ.
Together(n, c, d) ==
    /\ n.info = c.info \o d.info
    /\ IsInjective(ProvNames(c)) => ProvNames(n) = ProvNames(c) \o ProvNames(d)

LEMMA BinaryDone ==
    ASSUME NEW o, NEW x, NEW y, BinaryInput(graph, o, x, y), NEW ins, ins = << x, y >>,
           o.type \in {"Join", "Set"}, o.type = "Set" => o.how \in SetOps,
           o.type = "Set" /\ o.how = "INTERSECTION" => IsSet(query[o.core], {"INTERSECTION"}),
           NEW h, h = Rewritten(o, ins)
    PROVE  /\ Done(h, o)
           /\ Together(h[Len(h)], graph[x], graph[y])
           /\ SameRows(graph[x], query[o.in[1]]) /\ SameRows(graph[y], query[o.in[2]])
                /\ NullsOk(query, o) => SameRows(h[Len(h)], o)
  <1> DEFINE b == ProvNames(graph[x])
             d == ProvNames(graph[y])
             info == graph[x].info \o graph[y].info
  <1>1. PICK i : i = query[o.in[1]]
    OBVIOUS
  <1>2. PICK j : j = query[o.in[2]]
    OBVIOUS
  <1>3. /\ OpIs(graph, o) /\ InputStands(graph, o, 1, x) /\ InputStands(graph, o, 2, y)
    BY DEF BinaryInput
  <1>4. /\ GraphOk(graph) /\ NodesOk(graph) /\ InputsOk(query, o) /\ DataOk(query, o)
        /\ x \in DOMAIN graph /\ y \in DOMAIN graph
    BY <1>3 DEF OpIs, InputStands
  <1>5. InputIs(graph[x], i, i.schema, b) /\ InputIs(graph[y], j, j.schema, d)
    <2>1. o.type \notin {"Projection", "Aggregation", "DuplicateRemoval"}
      OBVIOUS
    <2>2. InputIs(graph[x], query[o.in[1]], query[o.in[1]].schema, ProvNames(graph[x]))
      BY ONLY <1>3, <2>1, InputFacts
    <2>3. InputIs(graph[y], query[o.in[2]], query[o.in[2]].schema, ProvNames(graph[y]))
      BY ONLY <1>3, <2>1, InputFacts
    <2> QED
      BY <1>1, <1>2, <2>2, <2>3
  <1>6. /\ info \in Infos /\ info # << >> /\ IsSeq(info)
        /\ Len(FlattenSeq(Paths(info))) = Len(b \o d)
    BY InfoTogether
  <1>7. h[Len(h)].info = info
    <2>1. ins[1] = x /\ ins[2] = y
      OBVIOUS
    <2>2. ins[1] \in DOMAIN graph /\ ins[2] \in DOMAIN graph /\ o.type \in {"Set", "Join"}
      BY <1>4, <2>1
    <2>3. h[Len(h)].info = graph[ins[1]].info \o graph[ins[2]].info
      BY ONLY <1>4, <2>2, h = Rewritten(o, ins), o.type = "Set" => o.how \in SetOps, BinaryRewritten
    <2> QED
      BY <2>1, <2>3
  <1> HIDE DEF b, d, info
  <1>8. /\ BothResult(h, o, b, d)
        /\ SameRows(graph[x], i) /\ SameRows(graph[y], j) /\ NullsOk(query, o) =>
             SameRows(h[Len(h)], o)
    <2>1. CASE o.type = "Join"
      <3>1. h = rewriteJoin(graph, o, << x, y >>)
        BY <2>1 DEF Rewritten
      <3>2. /\ Result(h, o, b \o d)
            /\ SameRows(graph[x], i) /\ SameRows(graph[y], j) => SameRows(h[Len(h)], o)
        BY ONLY <1>1, <1>2, <1>4, <1>5, <2>1, <3>1, JoinRule
      <3> QED
        BY <3>2, BothFrom
    <2>2. CASE o.type = "Set"
      <3>1. SetInput(graph, o, x, y, b, d, info)
        BY <1>1, <1>2, <1>4, <1>5, <1>6, <2>2 DEF SetInput
      <3>2. SetDone(graph, o, x, y, b, d, WithInfo(SetGraph(graph, o, ins), info))
        BY ONLY <3>1, ins = << x, y >>, SetRule
      <3>3. h = WithInfo(SetGraph(graph, o, ins), info)
        <4>1. h = rewriteSet(graph, o, ins) /\ ins[1] = x /\ ins[2] = y
          BY <2>2 DEF Rewritten
        <4>2. rewriteSet(graph, o, ins) = WithInfo(SetGraph(graph, o, ins), graph[ins[1]].info \o graph[ins[2]].info)
          BY DEF rewriteSet, SetGraph
        <4> QED
          BY <4>1, <4>2 DEF info
      <3> QED
        BY <1>1, <1>2, <3>2, <3>3 DEF SetDone
    <2> QED
      BY <2>1, <2>2
  <1>9. PICK p : Result(h, o, p) /\ Len(p) = Len(b \o d) /\ (IsInjective(b) => p = b \o d)
    BY <1>8 DEF BothResult
  <1>10. Len(FlattenSeq(Paths(info))) = Len(p)
    BY <1>6, <1>9
  <1>11. Done(h, o)
    BY ONLY <1>6, <1>7, <1>9, <1>10, DoneFrom
  <1>12. IsInjective(b) => ProvNames(h[Len(h)]) = b \o d
    BY <1>9 DEF Result
  <1>13. Together(h[Len(h)], graph[x], graph[y])
    BY <1>7, <1>12 DEF Together, b, d, info
  <1> QED
    BY <1>1, <1>2, <1>8, <1>11, <1>13

LEMMA LimitDone ==
    ASSUME NEW o, OpIs(graph, o), NEW x, InputStands(graph, o, 1, x), NEW ins, ins = << x >>,
           o.type = "Limit", NEW h, h = rewriteLimit(graph, o, ins)
    PROVE  /\ Done(h, o) /\ ProvNames(h[Len(h)]) = ProvNames(graph[x]) /\ h[Len(h)].info = << >>
           /\ SameRows(graph[x], query[o.in[1]]) /\ NullsOk(query, o) => SameRows(h[Len(h)], o)
  <1> DEFINE b == ProvNames(graph[x])
  <1>1. PICK i : i = query[o.in[1]]
    OBVIOUS
  <1>2. InputIs(graph[x], query[o.in[1]], query[o.in[1]].schema, b)
    BY InputFacts
  <1> HIDE DEF b
  <1>3. LimitInput(graph, o, x, i, b)
    BY <1>1, <1>2 DEF LimitInput, OpIs, InputStands
  <1>4. /\ Result(h, o, b) /\ h[Len(h)].info = << >>
        /\ SameRows(graph[x], i) /\ NullsOk(query, o) => SameRows(h[Len(h)], o)
    BY ONLY <1>3, ins = << x >>, h = rewriteLimit(graph, o, ins), LimitRule
  <1>5. << >> \in Infos
    BY DEF Infos
  <1>6. Done(h, o)
    <2> DEFINE none == << >>
    <2>1. none \in Infos /\ h[Len(h)].info = none /\ (none # << >> => Len(FlattenSeq(Paths(none))) = Len(b))
      BY <1>4, <1>5
    <2>2. Result(h, o, b)
      BY <1>4
    <2> HIDE DEF none
    <2> QED
      BY ONLY <2>1, <2>2, DoneFrom
  <1>7. ProvNames(h[Len(h)]) = b
    BY <1>4 DEF Result
  <1> QED
    BY <1>1, <1>4, <1>6, <1>7 DEF b

LEMMA LeafDone ==
    ASSUME NEW o, OpIs(graph, o), o.type \in Leaves, NEW table \in ProvPrefixes, NEW cnt \in Int,
           NEW recorded \in Seq(Words), NEW h, h = rewriteLeaf(graph, o, table, cnt, recorded)
    PROVE  /\ Done(h, o) /\ SameRows(h[Len(h)], o)
           /\ ProvNames(h[Len(h)]) = LeafNames(o, table, cnt)
           /\ h[Len(h)].info = << << table, LeafPaths(o, recorded) >> >>
  <1>1. GraphOk(graph) /\ NodesOk(graph) /\ DataOk(query, o)
    BY DEF OpIs
  <1>2. PICK q : q = query
    OBVIOUS
  <1>3. /\ Result(rewriteLeaf(graph, o, table, cnt, recorded), o, LeafNames(o, table, cnt))
        /\ InfoOk(h[Len(h)]) /\ SameRows(h[Len(h)], o)
        /\ h[Len(h)].info = << << table, LeafPaths(o, recorded) >> >>
    BY <1>1, LeafResult
  <1> QED
    BY <1>3 DEF Done, Stands, Result

\* What stands for the input of a duplicate removal stands for it.
LEMMA DuplicateDone ==
    ASSUME NEW o, OpIs(graph, o), NEW x, InputStands(graph, o, 1, x), o.type = "DuplicateRemoval",
           o.core = query[o.in[1]].core
    PROVE  /\ Stands(graph[x], o)
           /\ SameRows(graph[x], query[o.in[1]]) => SameRows(graph[x], o)
  <1>1. PICK i : i = query[o.in[1]]
    OBVIOUS
  <1>2. /\ InputsOk(query, o) /\ DataOk(query, o) /\ DataOk(query, i) /\ Stands(graph[x], i)
    BY <1>1 DEF OpIs, InputStands
  <1>3. i.rel \in Relations(Len(i.schema))
    BY <1>2, SchemaFacts
  <1>4. o.rel = Distinct(i.rel) /\ o.schema = i.schema
    <2>1. o.type \in Unary
      BY DEF Unary
    <2>2. /\ o.type = "DuplicateRemoval" => o.rel = Distinct(i.rel)
          /\ o.type \in {"Selection", "DuplicateRemoval", "Order", "Limit"} => o.schema = i.schema
      BY ONLY <1>1, <1>2, <1>3, <2>1, UnaryRows
    <2> QED
      BY <2>2
  <1>5. ToSet(o.rel) = ToSet(i.rel)
    BY <1>3, <1>4, DistinctFacts
  <1> QED
    BY <1>1, <1>2, <1>4, <1>5 DEF Stands, Shaped, SameRows

(***************************************************************************)
(* Each step keeps the shape and the rows                                  *)
(***************************************************************************)
LEMMA OpInputs ==
    ASSUME ControlInv, DataInv, ShapeInv, "intersection" \notin Admit, phase = "rewrite"
    PROVE  /\ OpIs(graph, Op)
           /\ \A j \in DOMAIN Top.ins : InputStands(graph, Op, j, Top.ins[j])
           /\ RowsInv => \A j \in DOMAIN Top.ins : SameRows(graph[Top.ins[j]], query[Op.in[j]])
           /\ "nulls" \notin Admit => NullsOk(query, Op)
           /\ NotNullInv => \A j \in DOMAIN Op.in : NotNullIn(query[Op.in[j]])
           /\ Op.core = IF Op.type = "DuplicateRemoval" THEN query[Op.in[1]].core ELSE Top.op
           /\ Op = query[Top.op] /\ Top.op \in DOMAIN query
  <1>1. /\ Len(stack) \in DOMAIN stack /\ Top = stack[Len(stack)] /\ Top.op \in DOMAIN query
        /\ Op = query[Top.op]
        /\ \A j \in DOMAIN Top.ins : Top.ins[j] \in DOMAIN graph
    BY TopFacts
  <1>2. QueryOk(query) /\ GraphOk(graph)
    BY DEF ControlInv
  <1>3. /\ OperatorOk(query, Top.op) /\ \A j \in DOMAIN Op.in : Op.in[j] \in DOMAIN query
    BY <1>1, <1>2, OperatorFacts
  <1>4. /\ InScope(query, Op)
        /\ Op.core = IF Op.type = "DuplicateRemoval" THEN query[Op.in[1]].core ELSE Top.op
    BY <1>1, <1>3 DEF OperatorOk
  <1>5. OpIs(graph, Op)
    <2>1. InputsOk(query, Op)
      BY <1>1, <1>2, OperatorInputs
    <2>2. DataOk(query, Op) /\ NodesOk(graph)
      BY <1>1 DEF DataInv, ShapeInv
    <2>3. IntersectionOk(query, Op)
      BY <1>4 DEF InScope
    <2> QED
      BY <1>2, <2>1, <2>2, <2>3 DEF OpIs
  <1>6. ASSUME NEW j \in DOMAIN Top.ins
        PROVE  /\ InputStands(graph, Op, j, Top.ins[j])
               /\ RowsInv => SameRows(graph[Top.ins[j]], query[Op.in[j]])
    <2>1. << Op.in[j], Top.ins[j] >> \in Bindings /\ j \in DOMAIN Op.in
      <3>1. << query[stack[Len(stack)].op].in[j], stack[Len(stack)].ins[j] >> \in Bindings
            /\ j \in DOMAIN query[stack[Len(stack)].op].in
        BY <1>1, InputBinding
      <3> QED
        BY <1>1, <3>1
    <2> DEFINE b == << Op.in[j], Top.ins[j] >>
    <2>2. b[1] = Op.in[j] /\ b[2] = Top.ins[j] /\ b \in Bindings
      BY <2>1
    <2> HIDE DEF b
    <2>3. Shaped(graph[b[2]], query[b[1]]) /\ InfoOk(graph[b[2]])
      BY <2>2 DEF ShapeInv
    <2>4. RowsInv => SameRows(graph[b[2]], query[b[1]])
      BY <2>2 DEF RowsInv
    <2>5. DataOk(query, query[Op.in[j]])
      BY <1>3, <2>1 DEF DataInv
    <2> QED
      BY <1>1, <2>1, <2>2, <2>3, <2>4, <2>5 DEF InputStands, Stands
  <1>7. "nulls" \notin Admit => NullsOk(query, Op)
    BY <1>4 DEF InScope
  <1>8. NotNullInv => \A j \in DOMAIN Op.in : NotNullIn(query[Op.in[j]])
    BY <1>3 DEF NotNullInv
  <1> QED
    BY <1>1, <1>4, <1>5, <1>6, <1>7, <1>8

LEMMA ShapeDelivered ==
    ASSUME ControlInv, ShapeInv, phase = "rewrite", query' = query,
           NEW m, NEW i, NEW node, Delivered(m, i, node),
           \/ opToRewrittenOp' = opToRewrittenOp
           \/ opToRewrittenOp' = [opToRewrittenOp EXCEPT ![i] = node],
           NEW T, Extends(graph, graph', T), NodesOk(graph'), Stands(graph'[node], query[i])
    PROVE  /\ ShapeInv'
           /\ RowsInv /\ SameRows(graph'[node], query[i]) => RowsInv'
  <1>1. Bindings' \subseteq Bindings \union {<< i, node >>} /\ phase # "analyze"
    BY DeliveredBindings
  <1>2. ASSUME NEW b \in Bindings'
        PROVE  /\ Stands(graph'[b[2]], query[b[1]])
               /\ RowsInv /\ SameRows(graph'[node], query[i]) => SameRows(graph'[b[2]], query[b[1]])
    <2>1. CASE b = << i, node >>
      <3>1. b[1] = i /\ b[2] = node
        BY <2>1
      <3> QED
        BY <3>1
    <2>2. CASE b \in Bindings
      <3>1. b[2] \in DOMAIN graph
        BY <1>1, <2>2, BindingNodes
      <3>2. SameButParents(graph'[b[2]], graph[b[2]])
        BY <3>1 DEF Extends
      <3>3. Shaped(graph[b[2]], query[b[1]]) /\ InfoOk(graph[b[2]])
        BY <2>2 DEF ShapeInv
      <3>4. RowsInv => SameRows(graph[b[2]], query[b[1]])
        BY <2>2 DEF RowsInv
      <3> DEFINE n == graph[b[2]]
                 k == graph'[b[2]]
                 o == query[b[1]]
      <3> HIDE DEF n, k, o
      <3>5. /\ Shaped(n, o) => Shaped(k, o)
            /\ SameRows(n, o) => SameRows(k, o)
            /\ InfoOk(n) => InfoOk(k)
        <4>1. SameButParents(k, n)
          BY <3>2 DEF k, n
        <4> QED
          BY ONLY <4>1, NodeKept
      <3> QED
        BY <3>3, <3>4, <3>5 DEF n, k, o, Stands
    <2> QED
      BY <1>1, <2>1, <2>2
  <1>3. ShapeInv'
    BY <1>2 DEF ShapeInv, Stands, Shaped
  <1>4. ASSUME RowsInv, SameRows(graph'[node], query[i]) PROVE RowsInv'
    BY <1>2, <1>4 DEF RowsInv
  <1> QED
    BY <1>3, <1>4

\* Only parents change when the innermost call returns the node it built.
LEMMA NodesOkKept ==
    ASSUME NEW g, NEW h, NEW T, GraphOk(g), GraphOk(h), Len(g) = Len(h), Extends(g, h, T), NodesOk(g)
    PROVE  NodesOk(h)
  <1>1. DOMAIN g = DOMAIN h
    BY GraphDomain
  <1>2. ASSUME NEW k \in DOMAIN h PROVE NodeOk(h, h[k])
    <2>1. \A j \in DOMAIN g : SameButParents(h[j], g[j])
      BY DEF Extends
    <2>2. NodeOk(g, g[k]) /\ DOMAIN g \subseteq DOMAIN h /\ SameButParents(h[k], g[k])
      BY <1>1, <2>1 DEF NodesOk
    <2> QED
      BY ONLY <2>1, <2>2, NodeOkKept
  <1> QED
    BY <1>2 DEF NodesOk

LEMMA BuildShape ==
    ASSUME ControlInv, ShapeInv, NEW g, BuildStep(g), Done(g, Op)
    PROVE  /\ ShapeInv'
           /\ RowsInv /\ SameRows(g[Len(g)], Op) => RowsInv'
  <1>1. /\ phase = "rewrite" /\ query' = query /\ GraphOk(g) /\ Built(g) /\ Return(g, Len(g))
    BY DEF BuildStep
  <1>2. Op = query[Top.op] /\ GraphOk(graph) /\ Len(g) \in DOMAIN g /\ Len(graph) <= Len(g)
    <2>1. Op = query[Top.op] /\ GraphOk(graph)
      BY <1>1, TopFacts DEF ControlInv
    <2>2. Len(g) \in DOMAIN g /\ Len(graph) < Len(g)
      BY <1>1 DEF Built, Builds
    <2> QED
      BY <1>1, <2>1, <2>2, GraphDomain
  <1>3. /\ Delivered(Len(stack) - 1, Top.op, Len(g))
        /\ opToRewrittenOp' = [opToRewrittenOp EXCEPT ![Top.op] = Len(g)]
        /\ Extends(graph, graph', ToSet(Top.ins))
    BY BuiltDelivered
  <1>4. GraphOk(graph') /\ Len(graph') = Len(g) /\ Extends(g, graph', {Len(g)})
    BY <1>1, <1>2, ReturnFacts
  <1>5. NodesOk(g) /\ Stands(g[Len(g)], Op)
    BY DEF Done
  <1>6. NodesOk(graph')
    BY <1>1, <1>4, <1>5, NodesOkKept
  <1>7. SameButParents(graph'[Len(g)], g[Len(g)])
    BY <1>2, <1>4 DEF Extends
  <1> DEFINE m == Len(stack) - 1
             node == Len(g)
             T == ToSet(Top.ins)
             n == g[node]
             k == graph'[node]
  <1>8. /\ Delivered(m, Top.op, node) /\ Extends(graph, graph', T)
        /\ opToRewrittenOp' = [opToRewrittenOp EXCEPT ![Top.op] = node]
        /\ SameButParents(k, n)
    BY <1>3, <1>7
  <1>9. Shaped(n, Op) /\ InfoOk(n)
    BY <1>5 DEF Stands
  <1>10. SameRows(g[Len(g)], Op) => SameRows(n, Op)
    OBVIOUS
  <1> HIDE DEF n, k
  <1>11. /\ Shaped(n, Op) => Shaped(k, Op)
         /\ SameRows(n, Op) => SameRows(k, Op)
         /\ InfoOk(n) => InfoOk(k)
    BY ONLY <1>8, NodeKept
  <1>12. Stands(graph'[node], query[Top.op]) /\ (SameRows(n, Op) => SameRows(graph'[node], query[Top.op]))
    BY <1>2, <1>9, <1>11 DEF Stands, k
  <1> HIDE DEF m, node, T
  <1>13. /\ ShapeInv'
         /\ RowsInv /\ SameRows(graph'[node], query[Top.op]) => RowsInv'
    BY <1>1, <1>6, <1>8, <1>12, ShapeDelivered
  <1> QED
    BY <1>10, <1>12, <1>13

\* What the operators of the query and their inputs have to be like, so that
\* the rows of a rewriting are those of its operator.
RowsHyp == RowsInv /\ NotNullInv /\ "nulls" \notin Admit

LEMMA LeafShape ==
    ASSUME ControlInv, DataInv, ShapeInv, "intersection" \notin Admit, rewriteLeafOp
    PROVE  ShapeInv' /\ (RowsHyp => RowsInv')
  <1>1. Ready(Leaves) /\ query' = query
    BY DEF rewriteLeafOp, Leaves
  <1>2. Op.type \in Leaves /\ phase = "rewrite" /\ Len(Top.ins) = Len(Op.in)
    BY <1>1 DEF Ready
  <1> DEFINE prefix == IF Op.type = "TableAccess" THEN Op.how ELSE "query"
             counts == increaseRefCount(prefix)
             cnt == counts[prefix]
             recorded == IF Op.type = "TableAccess" THEN << >> ELSE << "query" >>
             g == rewriteLeaf(graph, Op, prefix, cnt, recorded)
  <1>3. provCounts' = counts /\ Return(g, Len(g))
    BY <1>2 DEF rewriteLeafOp, rewriteTableAccess, rewriteConstRel, Leaves
  <1>4. prefix \in ProvPrefixes
    <2>1. Top.op \in DOMAIN query /\ Op = query[Top.op]
      BY <1>2, TopFacts
    <2>2. Op.type = "TableAccess" => Op.how \in Tables
      BY <2>1, OperatorFacts DEF ControlInv, OperatorOk
    <2> QED
      BY <2>2 DEF ProvPrefixes
  <1>5. provCounts' \in [ProvPrefixes -> Int] /\ cnt \in Int
    <2> HIDE DEF prefix
    <2>1. provCounts \in [ProvPrefixes -> Int]
      BY DEF ControlInv
    <2>2. counts = [provCounts EXCEPT ![prefix] = @ + 1]
      BY DEF increaseRefCount
    <2> HIDE DEF counts
    <2> QED
      BY <1>3, <1>4, <2>1, <2>2
  <1>6. recorded \in Seq(Words)
    <2>1. "query" \in Words
      BY DEF Words
    <2> QED
      BY <2>1
  <1>7. OpIs(graph, Op)
    BY <1>2, OpInputs
  <1>8. GraphOk(graph)
    BY DEF ControlInv
  <1>9. g = rewriteLeaf(graph, Op, prefix, cnt, recorded)
    OBVIOUS
  <1> HIDE DEF g, prefix, counts, cnt, recorded
  <1>10. Done(g, Op) /\ SameRows(g[Len(g)], Op)
    BY <1>2, <1>4, <1>5, <1>6, <1>7, <1>9, LeafDone
  <1>11. Built(g)
    <2>1. Builds(graph, g, {}) /\ (LinksOk(graph) => LinksOk(g)) /\ g[Len(g)].info # << >>
      BY <1>8, <1>9, LeafBuilds
    <2>2. Builds(graph, g, ToSet(Top.ins))
      BY <2>1, BuildsMore
    <2> QED
      BY <2>1, <2>2 DEF Built, Builds
  <1>12. BuildStep(g)
    BY <1>1, <1>2, <1>3, <1>5, <1>11 DEF BuildStep, Built, Builds, Leaves
  <1> QED
    BY <1>10, <1>12, BuildShape DEF RowsHyp

LEMMA LimitShape ==
    ASSUME ControlInv, DataInv, ShapeInv, "intersection" \notin Admit, rewriteLimitOp
    PROVE  ShapeInv' /\ (RowsHyp => RowsInv')
  <1>1. Ready({"Limit"}) /\ query' = query /\ provCounts' = provCounts
    BY DEF rewriteLimitOp
  <1>2. Op.type = "Limit" /\ phase = "rewrite" /\ Len(Top.ins) = Len(Op.in)
    BY <1>1 DEF Ready
  <1> DEFINE g == rewriteLimit(graph, Op, Top.ins)
  <1>3. Return(g, Len(g)) /\ Built(g) /\ g = rewriteLimit(graph, Op, Top.ins)
    BY <1>1, LimitOpBuilds DEF rewriteLimitOp
  <1>4. provCounts' \in [ProvPrefixes -> Int]
    BY <1>1 DEF ControlInv
  <1> HIDE DEF g
  <1>5. BuildStep(g)
    BY <1>1, <1>2, <1>3, <1>4 DEF BuildStep, Built, Builds
  <1>6. Op.type \in Unary /\ Top.ins = << Top.ins[1] >> /\ DOMAIN Top.ins = 1 .. 1
    <2>1. Op.type \in Unary
      BY <1>2 DEF Unary
    <2> QED
      BY <1>1, <2>1, ReadyFacts
  <1>7. /\ OpIs(graph, Op) /\ InputStands(graph, Op, 1, Top.ins[1])
        /\ RowsInv => SameRows(graph[Top.ins[1]], query[Op.in[1]])
        /\ "nulls" \notin Admit => NullsOk(query, Op)
    BY <1>2, <1>6, OpInputs
  <1>8. PICK x : x = Top.ins[1]
    OBVIOUS
  <1>9. /\ Done(g, Op)
        /\ SameRows(graph[x], query[Op.in[1]]) /\ NullsOk(query, Op) => SameRows(g[Len(g)], Op)
    BY <1>2, <1>3, <1>6, <1>7, <1>8, LimitDone
  <1> QED
    BY <1>5, <1>7, <1>8, <1>9, BuildShape DEF RowsHyp

\* The rewritten inputs of a binary operator.
LEMMA BinaryReady ==
    ASSUME ControlInv, NEW types, Ready(types), Op.type \in {"Join", "Set"}
    PROVE  /\ Top.ins = << Top.ins[1], Top.ins[2] >> /\ DOMAIN Top.ins = 1 .. 2
           /\ Op.type = "Set" => Op.how \in SetOps
  <1>1. DOMAIN Top.ins = 1 .. 2 /\ (Op.type = "Set" => Op.how \in SetOps)
    BY ReadyFacts
  <1>2. IsSeq(Top.ins)
    <2>1. Len(stack) \in DOMAIN stack /\ Top = stack[Len(stack)]
      BY TopFacts DEF Ready
    <2> QED
      BY <2>1, FrameFacts
  <1>3. PICK ins : ins = Top.ins
    OBVIOUS
  <1>4. Len(ins) = 2
    <2>1. Len(Top.ins) = Arity(Op.type)
      BY ReadyFacts
    <2>2. Arity(Op.type) = 2
      BY ArityFacts
    <2> QED
      BY <1>3, <2>1, <2>2
  <1>5. ins = << ins[1], ins[2] >>
    <2>1. IsSeq(ins) /\ DOMAIN ins = 1 .. 2
      BY <1>1, <1>2, <1>3
    <2> QED
      BY ONLY <1>4, <2>1 DEF IsSeq
  <1>6. Top.ins = << Top.ins[1], Top.ins[2] >>
    BY ONLY <1>3, <1>5
  <1> QED
    BY ONLY <1>1, <1>6

LEMMA OpShape ==
    ASSUME ControlInv, DataInv, ShapeInv, "intersection" \notin Admit, rewriteOp,
           ~ InfoMissing(Top.ins)
    PROVE  ShapeInv' /\ (RowsHyp => RowsInv')
  <1> DEFINE types == {"Selection", "Order", "Projection", "Aggregation", "Join", "Set"}
             g == Rewritten(Op, Top.ins)
  <1>1. Ready(types) /\ query' = query /\ provCounts' = provCounts
    BY DEF rewriteOp
  <1>2. Op.type \in types /\ phase = "rewrite" /\ Len(Top.ins) = Len(Op.in)
    BY <1>1 DEF Ready
  <1>3. Return(g, Len(g)) /\ Built(g) /\ g = Rewritten(Op, Top.ins)
    BY <1>1, OpBuilds DEF rewriteOp
  <1>4. provCounts' \in [ProvPrefixes -> Int]
    BY <1>1 DEF ControlInv
  <1> HIDE DEF g
  <1>5. BuildStep(g)
    BY <1>1, <1>2, <1>3, <1>4 DEF BuildStep, Built, Builds
  <1>6. /\ OpIs(graph, Op)
        /\ \A j \in DOMAIN Top.ins : InputStands(graph, Op, j, Top.ins[j])
        /\ RowsInv => \A j \in DOMAIN Top.ins : SameRows(graph[Top.ins[j]], query[Op.in[j]])
        /\ "nulls" \notin Admit => NullsOk(query, Op)
        /\ NotNullInv => \A j \in DOMAIN Op.in : NotNullIn(query[Op.in[j]])
        /\ Op.core = IF Op.type = "DuplicateRemoval" THEN query[Op.in[1]].core ELSE Top.op
        /\ Op = query[Top.op] /\ Top.op \in DOMAIN query
    BY <1>2, OpInputs
  <1>7. Done(g, Op) /\ (RowsHyp => SameRows(g[Len(g)], Op))
    <2>1. CASE Op.type \in {"Selection", "Order", "Projection", "Aggregation"}
      <3>1. Op.type \in Unary /\ Top.ins = << Top.ins[1] >> /\ DOMAIN Top.ins = 1 .. 1
        <4>1. Op.type \in Unary
          BY <2>1 DEF Unary
        <4> QED
          BY <1>1, <4>1, ReadyFacts
      <3>2. PICK x : x = Top.ins[1]
        OBVIOUS
      <3>3. InputStands(graph, Op, 1, x) /\ Top.ins = << x >> /\ 1 \in DOMAIN Op.in
        BY <1>6, <3>1, <3>2 DEF InputStands
      <3>4. /\ Done(g, Op)
            /\ SameRows(graph[x], query[Op.in[1]]) /\ NotNullIn(query[Op.in[1]]) =>
                 SameRows(g[Len(g)], Op)
        BY ONLY <1>3, <1>6, <2>1, <3>3, UnaryDone
      <3> QED
        BY <1>6, <3>1, <3>2, <3>3, <3>4 DEF RowsHyp
    <2>2. CASE Op.type \in {"Join", "Set"}
      <3>1. /\ Top.ins = << Top.ins[1], Top.ins[2] >> /\ DOMAIN Top.ins = 1 .. 2
            /\ Op.type = "Set" => Op.how \in SetOps
        <4> HIDE DEF types
        <4> QED
          BY ONLY <1>1, <2>2, ControlInv, BinaryReady
      <3>2. PICK x : x = Top.ins[1]
        OBVIOUS
      <3>3. PICK y : y = Top.ins[2]
        OBVIOUS
      <3>4. InputStands(graph, Op, 1, x) /\ InputStands(graph, Op, 2, y) /\ Top.ins = << x, y >>
        BY <1>6, <3>1, <3>2, <3>3
      <3>5. graph[x].info # << >> /\ graph[y].info # << >>
        BY <3>1, <3>2, <3>3 DEF InfoMissing
      <3>6. BinaryInput(graph, Op, x, y)
        BY <1>6, <3>4, <3>5 DEF BinaryInput
      <3>7. Op.type = "Set" /\ Op.how = "INTERSECTION" => IsSet(query[Op.core], {"INTERSECTION"})
        BY <1>6 DEF IsSet
      <3>8. /\ Done(g, Op)
            /\ SameRows(graph[x], query[Op.in[1]]) /\ SameRows(graph[y], query[Op.in[2]])
                 /\ NullsOk(query, Op) => SameRows(g[Len(g)], Op)
        BY ONLY <1>3, <2>2, <3>1, <3>4, <3>6, <3>7, BinaryDone
      <3> QED
        BY <1>6, <3>1, <3>2, <3>3, <3>8 DEF RowsHyp
    <2> QED
      BY <1>2, <2>1, <2>2
  <1> QED
    BY <1>5, <1>7, BuildShape DEF RowsHyp

LEMMA ReuseShape ==
    ASSUME ControlInv, DataInv, ShapeInv, NEW c, NEW g, ReuseStep(c, g)
    PROVE  ShapeInv' /\ (RowsHyp => RowsInv')
  <1>1. /\ HasInputsLeft /\ NextInput \in RewrittenOps /\ c = opToRewrittenOp[NextInput]
        /\ c \in DOMAIN graph /\ g = rewriteReuse(graph, c)
        /\ query' = query /\ graph' = g /\ opToRewrittenOp' = opToRewrittenOp
        /\ Builds(graph, g, {c}) /\ graph[c].info # << >>
        /\ Delivered(Len(stack), NextInput, Len(g)) /\ phase = "rewrite"
    BY DEF ReuseStep, HasInputsLeft
  <1>2. NextInput \in DOMAIN query /\ Op = query[Top.op]
    BY <1>1, TopFacts
  <1> DEFINE b == << NextInput, c >>
  <1>3. b \in Bindings /\ b[1] = NextInput /\ b[2] = c
    BY <1>1 DEF Bindings
  <1> HIDE DEF b
  <1>4. Shaped(graph[c], query[NextInput]) /\ InfoOk(graph[c])
    BY <1>3 DEF ShapeInv
  <1>5. PICK o : o = query[NextInput]
    OBVIOUS
  <1>6. ReuseInput(graph, c, o)
    BY <1>1, <1>2, <1>4, <1>5 DEF ReuseInput, ControlInv, ShapeInv, DataInv
  <1>7. /\ Result(g, o, FlattenSeq(FreshParts(graph[c].info))) /\ InfoOk(g[Len(g)])
        /\ SameRows(graph[c], o) => SameRows(g[Len(g)], o)
    BY ONLY <1>1, <1>6, ReuseRule
  <1>8. NodesOk(graph') /\ Stands(graph'[Len(g)], query[NextInput])
    BY <1>1, <1>5, <1>7 DEF Result, Stands
  <1>9. RowsInv => SameRows(graph'[Len(g)], query[NextInput])
    BY <1>1, <1>3, <1>5, <1>7 DEF RowsInv
  <1> DEFINE m == Len(stack)
             node == Len(g)
             T == {c}
  <1>10. /\ Delivered(m, NextInput, node) /\ Extends(graph, graph', T)
         /\ Stands(graph'[node], query[NextInput])
    BY <1>1, <1>8 DEF Builds
  <1> HIDE DEF m, node, T
  <1>11. /\ ShapeInv'
         /\ RowsInv /\ SameRows(graph'[node], query[NextInput]) => RowsInv'
    BY <1>1, <1>8, <1>10, ShapeDelivered
  <1> QED
    BY <1>9, <1>11 DEF RowsHyp, node

LEMMA DuplicateShape ==
    ASSUME ControlInv, DataInv, ShapeInv, "intersection" \notin Admit, rewriteDuplicateRemOp
    PROVE  ShapeInv' /\ (RowsHyp => RowsInv')
  <1>1. /\ phase = "rewrite" /\ query' = query /\ Op.type = "DuplicateRemoval"
        /\ DOMAIN Top.ins = 1 .. 1 /\ Top.ins[1] \in DOMAIN graph
        /\ Delivered(Len(stack) - 1, Top.op, Top.ins[1])
        /\ opToRewrittenOp' = [opToRewrittenOp EXCEPT ![Top.op] = Top.ins[1]]
        /\ GraphOk(graph') /\ Len(graph') = Len(graph) /\ Extends(graph, graph', {Top.ins[1]})
    BY DuplicateStep
  <1>2. /\ OpIs(graph, Op) /\ InputStands(graph, Op, 1, Top.ins[1])
        /\ RowsInv => SameRows(graph[Top.ins[1]], query[Op.in[1]])
        /\ Op.core = query[Op.in[1]].core /\ Op = query[Top.op]
    BY <1>1, OpInputs
  <1>3. PICK x : x = Top.ins[1]
    OBVIOUS
  <1>4. /\ Stands(graph[x], Op)
        /\ SameRows(graph[x], query[Op.in[1]]) => SameRows(graph[x], Op)
    BY ONLY <1>1, <1>2, <1>3, DuplicateDone
  <1>5. GraphOk(graph) /\ NodesOk(graph)
    BY DEF ControlInv, ShapeInv
  <1>6. NodesOk(graph')
    BY <1>1, <1>5, NodesOkKept
  <1> DEFINE n == graph[x]
             k == graph'[x]
  <1>7. SameButParents(k, n)
    BY <1>1, <1>3 DEF Extends
  <1>8. Shaped(n, Op) /\ InfoOk(n) /\ (RowsInv => SameRows(n, Op))
    BY <1>2, <1>3, <1>4 DEF Stands
  <1> HIDE DEF n, k
  <1>9. /\ Shaped(n, Op) => Shaped(k, Op)
        /\ SameRows(n, Op) => SameRows(k, Op)
        /\ InfoOk(n) => InfoOk(k)
    BY ONLY <1>7, NodeKept
  <1>10. Stands(graph'[x], query[Top.op]) /\ (RowsInv => SameRows(graph'[x], query[Top.op]))
    BY <1>2, <1>8, <1>9 DEF Stands, k
  <1> DEFINE m == Len(stack) - 1
             T == {x}
  <1>11. /\ Delivered(m, Top.op, x) /\ Extends(graph, graph', T)
         /\ opToRewrittenOp' = [opToRewrittenOp EXCEPT ![Top.op] = x]
    BY <1>1, <1>3
  <1> HIDE DEF m, T
  <1>12. /\ ShapeInv'
         /\ RowsInv /\ SameRows(graph'[x], query[Top.op]) => RowsInv'
    BY <1>1, <1>6, <1>10, <1>11, ShapeDelivered
  <1> QED
    BY <1>10, <1>12 DEF RowsHyp

LEMMA NoBindingsShape ==
    ASSUME graph = << >>, Bindings = {}
    PROVE  ShapeInv /\ RowsInv
  BY EmptyIsSeq DEF ShapeInv, NodesOk, RowsInv

LEMMA ShapeKept ==
    ASSUME ShapeInv, query' = query, graph' = graph, Bindings' = Bindings
    PROVE  ShapeInv' /\ (RowsInv => RowsInv')
  BY DEF ShapeInv, RowsInv, Shaped

LEMMA ShapeSteps ==
    ASSUME ControlInv, DataInv, ShapeInv, "intersection" \notin Admit, [Next]_vars
    PROVE  ShapeInv' /\ (RowsHyp => RowsInv')
  <1>1. CASE addOperator \/ rewritePI_CS
    <2>1. Bindings' = {} /\ graph' = << >>
      BY <1>1, AnalyzeStep
    <2> QED
      BY <2>1, EmptyIsSeq DEF ShapeInv, NodesOk, RowsInv
  <1>2. CASE rewriteInput
    <2>1. Bindings' = Bindings
      BY <1>2, PushFacts DEF rewriteInput
    <2> QED
      BY <1>2, <2>1, ShapeKept DEF rewriteInput, RowsHyp
  <1>3. ASSUME NEW nodes, FailStep(nodes) PROVE ShapeInv' /\ (RowsHyp => RowsInv')
    <2>1. UNCHANGED << query, stack, graph, opToRewrittenOp >>
      BY <1>3 DEF FailStep
    <2>2. Bindings' = Bindings
      BY <2>1 DEF Bindings, RewrittenOps
    <2> QED
      BY <2>1, <2>2, ShapeKept DEF RowsHyp
  <1>4. CASE reuseRewrittenOp
    <2>1. CASE \E c, g : ReuseStep(c, g)
      BY <2>1, ReuseShape
    <2>2. CASE FailStep(<< opToRewrittenOp[NextInput] >>)
      BY <1>3, <2>2
    <2> QED
      BY <1>4, <2>1, <2>2, ReusedStep
  <1>5. CASE rewriteLeafOp
    BY <1>5, LeafShape
  <1>6. CASE rewriteDuplicateRemOp
    BY <1>6, DuplicateShape
  <1>7. CASE rewriteLimitOp
    BY <1>7, LimitShape
  <1>8. CASE rewriteOp
    <2>1. CASE InfoMissing(Top.ins)
      <3>1. FailStep(Top.ins)
        BY <1>8, <2>1 DEF rewriteOp, FailStep, Ready
      <3> QED
        BY <1>3, <3>1
    <2>2. CASE ~ InfoMissing(Top.ins)
      BY <1>8, <2>2, OpShape
    <2> QED
      BY <2>1, <2>2
  <1>9. CASE UNCHANGED vars
    <2>1. UNCHANGED << query, stack, graph, opToRewrittenOp >>
      BY <1>9 DEF vars
    <2>2. Bindings' = Bindings
      BY <2>1 DEF Bindings, RewrittenOps
    <2> QED
      BY <2>1, <2>2, ShapeKept DEF RowsHyp
  <1> QED
    BY <1>1, <1>2, <1>4, <1>5, <1>6, <1>7, <1>8, <1>9 DEF Next

LEMMA ShapeInit ==
    ASSUME Init
    PROVE  /\ ControlInv /\ db \in Databases /\ DataInv /\ NotNullInv /\ ShapeInv /\ RowsInv
  <1>1. DOMAIN query = {} /\ db \in Databases /\ ControlInv
    BY EmptyIsSeq, ControlInit DEF Init
  <1>2. graph = << >> /\ Bindings = {}
    <2>1. phase = "analyze"
      BY DEF Init
    <2> QED
      BY <1>1, <2>1, AnalyzeState
  <1> QED
    BY <1>1, <1>2, NoBindingsShape DEF DataInv, NotNullInv

LEMMA RewrittenBinding ==
    ASSUME NEW i \in RewrittenOps
    PROVE  << i, opToRewrittenOp[i] >> \in Bindings
  BY DEF Bindings

\* What an operator is rewritten to has its attributes first, then the
\* provenance attributes.
LEMMA RewrittenShape ==
    ASSUME ControlInv, ShapeInv, NEW i \in RewrittenOps
    PROVE  Shaped(NodeOf(i), query[i])
  <1> DEFINE b == << i, opToRewrittenOp[i] >>
  <1>1. b \in Bindings /\ b[1] = i /\ b[2] = opToRewrittenOp[i]
    BY RewrittenBinding
  <1> HIDE DEF b
  <1>2. Shaped(graph[b[2]], query[b[1]])
    BY <1>1 DEF ShapeInv
  <1> QED
    BY <1>1, <1>2 DEF NodeOf

LEMMA ShapeIsConsistent ==
    ASSUME ControlInv, ShapeInv
    PROVE  SchemaConsistent
  <1>1. ASSUME NEW k \in DOMAIN graph
        PROVE  LET n == graph[k]
               IN  /\ Len(n.schema) = n.width
                   /\ n.type = "Set" => /\ n.schema = graph[n.inputs[1]].schema
                                        /\ n.width = graph[n.inputs[2]].width
                   /\ n.type = "Order" => n.schema = graph[n.inputs[1]].schema
    <2>1. NodeOk(graph, graph[k])
      BY DEF ShapeInv, NodesOk
    <2> QED
      BY <2>1 DEF NodeOk
  <1>2. ASSUME NEW i \in RewrittenOps PROVE ProvAttrsLast(NodeOf(i))
    <2> DEFINE n == NodeOf(i)
               a == NormalNames(n)
               c == ProvNames(n)
    <2>1. Parts(n, a, c)
      BY RewrittenShape DEF Shaped
    <2> HIDE DEF n, a, c
    <2>2. ProvAttrsLast(n)
      BY <2>1, PartsFacts
    <2> QED
      BY <2>2 DEF n
  <1> QED
    BY <1>1, <1>2 DEF SchemaConsistent

LEMMA RowsArePreserved ==
    ASSUME ControlInv, DataInv, ShapeInv, RowsInv
    PROVE  ResultPreserved
  <1> SUFFICES ASSUME NEW i \in RewrittenOps
               PROVE  {NormalPart(i, row) : row \in ToSet(NodeOf(i).rel)} = ToSet(query[i].rel)
    BY DEF ResultPreserved
  <1> DEFINE b == << i, opToRewrittenOp[i] >>
             n == NodeOf(i)
             o == query[i]
             u == Len(o.schema)
             a == NormalNames(n)
             c == ProvNames(n)
  <1>1. b \in Bindings /\ b[1] = i /\ b[2] = opToRewrittenOp[i]
    BY RewrittenBinding
  <1>2. SameRows(n, o)
    <2> HIDE DEF b
    <2>1. SameRows(graph[b[2]], query[b[1]])
      BY <1>1 DEF RowsInv
    <2> QED
      BY <1>1, <2>1 DEF NodeOf
  <1>3. i \in DOMAIN query /\ DataOk(query, o)
    <2>1. phase # "analyze"
      BY AnalyzeState
    <2>2. b[1] \in DOMAIN query
      <3> HIDE DEF b
      <3> QED
        BY <1>1, <2>1, BindingNodes
    <2> QED
      BY <1>1, <2>2 DEF DataInv
  <1>4. u \in Nat /\ DOMAIN o.schema = 1 .. u
    <2> HIDE DEF o
    <2> QED
      BY <1>3, SchemaFacts DEF u
  <1>5. Parts(n, a, c) /\ u <= Len(a)
    BY RewrittenShape DEF Shaped
  <1>6. NormalPos(n) = IntSeq(1, Len(a)) /\ Len(a) \in Nat
    <2> HIDE DEF n, a, c
    <2> QED
      BY <1>5, PartsFacts
  <1>7. \A k \in 1 .. u : NormalPos(n)[k] = k
    <2> HIDE DEF n, a, u
    <2>1. \A k \in 1 .. Len(a) : IntSeq(1, Len(a))[k] = k
      BY <1>6, FirstInts
    <2> QED
      BY <1>4, <1>5, <1>6, <2>1
  <1>8. \A row : NormalPart(i, row) = [k \in 1 .. u |-> row[k]]
    <2> TAKE row
    <2>1. NormalPart(i, row) = [k \in 1 .. u |-> row[NormalPos(n)[k]]]
      BY <1>4 DEF NormalPart
    <2> HIDE DEF n, u
    <2> QED
      BY <1>7, <2>1
  <1>9. Cut(n.rel, u) = ToSet(o.rel)
    BY <1>2 DEF SameRows
  <1> HIDE DEF u
  <1>10. Cut(n.rel, u) = {NormalPart(i, row) : row \in ToSet(n.rel)}
    <2> DEFINE R == ToSet(n.rel)
               P(row) == NormalPart(i, row)
    <2>1. Cut(n.rel, u) = {[k \in 1 .. u |-> row[k]] : row \in R}
      BY DEF Cut
    <2>2. \A row : P(row) = [k \in 1 .. u |-> row[k]]
      BY <1>8
    <2> HIDE DEF n, P, R
    <2>3. {[k \in 1 .. u |-> row[k]] : row \in R} = {P(row) : row \in R}
      BY <2>2
    <2> QED
      BY <2>1, <2>3 DEF P, R
  <1> QED
    BY <1>9, <1>10

THEOREM SchemaIsConsistent ==
    ASSUME "intersection" \notin Admit
    PROVE  Spec => []SchemaConsistent
  <1> DEFINE IInv == ControlInv /\ db \in Databases /\ DataInv /\ ShapeInv
  <1>1. Init => IInv
    BY ShapeInit
  <1>2. IInv /\ [Next]_vars => IInv'
    BY ControlSteps, QuerySteps, ShapeSteps
  <1>3. IInv => SchemaConsistent
    BY ShapeIsConsistent
  <1> QED
    BY <1>1, <1>2, <1>3, PTL DEF Spec

THEOREM ResultIsPreserved ==
    ASSUME Admit \intersect {"intersection", "nulls", "not null"} = {}
    PROVE  Spec => []ResultPreserved
  <1> DEFINE IInv == ControlInv /\ db \in Databases /\ DataInv /\ NotNullInv /\ ShapeInv /\ RowsInv
  <1>1. Init => IInv
    BY ShapeInit
  <1>2. IInv /\ [Next]_vars => IInv'
    <2> SUFFICES ASSUME IInv, [Next]_vars PROVE IInv'
      OBVIOUS
    <2>1. "intersection" \notin Admit /\ "nulls" \notin Admit /\ "not null" \notin Admit
      OBVIOUS
    <2>2. ControlInv'
      BY ControlSteps
    <2>3. db' \in Databases /\ DataInv' /\ NotNullInv'
      BY <2>1, QuerySteps
    <2>4. ShapeInv' /\ RowsInv'
      BY <2>1, ShapeSteps DEF RowsHyp
    <2> QED
      BY <2>2, <2>3, <2>4
  <1>3. IInv => ResultPreserved
    BY RowsArePreserved
  <1> QED
    BY <1>1, <1>2, <1>3, PTL DEF Spec

-----------------------------------------------------------------------------
(***************************************************************************)
(* The names of provenance attributes                                      *)
(***************************************************************************)
LEMMA InjectiveConcat ==
    ASSUME NEW S, NEW s \in Seq(S), NEW t \in Seq(S), IsInjective(s), IsInjective(t),
           ToSet(s) \intersect ToSet(t) = {}
    PROVE  IsInjective(s \o t)
  <1> DEFINE u == s \o t
             l == Len(s)
             r == Len(t)
  <1>1. /\ u \in Seq(S) /\ Len(u) = l + r /\ l \in Nat /\ r \in Nat
        /\ \A k \in 1 .. l : u[k] = s[k]
        /\ \A k \in 1 .. r : u[l + k] = t[k]
        /\ DOMAIN s = 1 .. l /\ DOMAIN t = 1 .. r
    BY ConcatFacts, SeqIsSeq
  <1>2. DOMAIN u = 1 .. l + r
    <2> HIDE DEF u, l, r
    <2> QED
      BY <1>1, SeqIsSeq
  <1>3. \A i \in 1 .. l, j \in 1 .. r : s[i] # t[j]
    BY <1>1 DEF ToSet
  <1>4. /\ \A i, j \in 1 .. l : s[i] = s[j] => i = j
        /\ \A i, j \in 1 .. r : t[i] = t[j] => i = j
    BY <1>1 DEF IsInjective
  <1> HIDE DEF u, l, r
  <1>5. \A k \in 1 .. l + r : k \in 1 .. l \/ \E j \in 1 .. r : k = l + j
    <2> SUFFICES ASSUME NEW k \in 1 .. l + r, k \notin 1 .. l PROVE \E j \in 1 .. r : k = l + j
      OBVIOUS
    <2>1. k - l \in 1 .. r /\ k = l + (k - l)
      BY <1>1
    <2> QED
      BY <2>1
  <1>6. ASSUME NEW i \in 1 .. l + r, NEW j \in 1 .. l + r, u[i] = u[j] PROVE i = j
    <2>1. CASE i \in 1 .. l /\ j \in 1 .. l
      BY <1>1, <1>4, <1>6, <2>1
    <2>2. ASSUME NEW a \in 1 .. l, NEW b \in 1 .. r, u[a] = u[l + b] PROVE FALSE
      <3>1. u[a] = s[a] /\ u[l + b] = t[b]
        BY <1>1
      <3>2. s[a] # t[b]
        BY <1>3
      <3> QED
        BY <2>2, <3>1, <3>2
    <2>3. CASE \E a, b \in 1 .. r : i = l + a /\ j = l + b
      <3>1. PICK a \in 1 .. r, b \in 1 .. r : i = l + a /\ j = l + b
        BY <2>3
      <3>2. t[a] = t[b]
        BY <1>1, <1>6, <3>1
      <3>3. a = b
        BY <1>4, <3>2
      <3> QED
        BY <3>1, <3>3
    <2> QED
      BY <1>5, <1>6, <2>1, <2>2, <2>3
  <1> QED
    BY <1>2, <1>6 DEF IsInjective, u

\* Sequences without a member twice, in one and in two of them, in a row.
LEMMA InjectiveFlatten ==
    ASSUME NEW S, NEW ss \in Seq(Seq(S)), ss # << >>,
           \A k \in DOMAIN ss : IsInjective(ss[k]),
           \A k, l \in DOMAIN ss : k < l => ToSet(ss[k]) \intersect ToSet(ss[l]) = {}
    PROVE  IsInjective(FlattenSeq(ss))
  <1> DEFINE n == Len(ss)
  <1>1. n \in Nat /\ DOMAIN ss = 1 .. n /\ \A k \in 1 .. n : ss[k] \in Seq(S)
    <2> DEFINE T == Seq(S)
    <2>1. ss \in Seq(T)
      OBVIOUS
    <2> HIDE DEF T
    <2>2. Len(ss) \in Nat /\ DOMAIN ss = 1 .. Len(ss) /\ \A k \in 1 .. Len(ss) : ss[k] \in T
      BY <2>1, SeqIsSeq
    <2> QED
      BY <2>2 DEF T
  <1>2. n >= 1
    BY <1>1
  <1>3. PICK f : Flattened(f, ss, S)
    BY FlattenFunction
  <1>4. /\ \A i \in 1 .. n : f[i] \in Seq(S)
        /\ f[1] = ss[1] /\ \A i \in 2 .. n : f[i] = f[i - 1] \o ss[i]
        /\ FlattenSeq(ss) = f[n]
    BY <1>3 DEF Flattened
  <1>5. /\ \A k \in 1 .. n : IsInjective(ss[k])
        /\ \A k, l \in 1 .. n : k < l => ToSet(ss[k]) \intersect ToSet(ss[l]) = {}
    BY <1>1
  <1> HIDE DEF n
  <1> DEFINE Ok(i) == IsInjective(f[i]) /\ \A x \in ToSet(f[i]) : \E k \in 1 .. i : x \in ToSet(ss[k])
             P == {i \in 0 .. n : i = 0 \/ Ok(i)}
  <1>6. 0 \in P
    BY <1>1
  <1>7. ASSUME NEW i \in 1 .. n, i - 1 \in P PROVE i \in P
    <2>1. CASE i = 1
      <3>1. Ok(1)
        BY <1>1, <1>2, <1>4, <1>5
      <3> QED
        BY <1>1, <2>1, <3>1
    <2>2. CASE i # 1
      <3>1. i \in 2 .. n /\ i - 1 \in 1 .. n /\ i - 1 # 0
        BY <1>1, <2>2
      <3>2. Ok(i - 1)
        BY <1>7, <3>1
      <3>3. PICK s : s = f[i - 1]
        OBVIOUS
      <3>4. PICK t : t = ss[i]
        OBVIOUS
      <3>5. s \in Seq(S) /\ t \in Seq(S) /\ IsInjective(s) /\ IsInjective(t) /\ f[i] = s \o t
        BY <1>1, <1>4, <1>5, <3>1, <3>2, <3>3, <3>4
      <3>6. \A x \in ToSet(s) : \E k \in 1 .. i - 1 : x \in ToSet(ss[k])
        BY <3>2, <3>3
      <3>7. \A k \in 1 .. i - 1 : k \in 1 .. n /\ k < i /\ k \in 1 .. i
        BY <1>1
      <3>8. ToSet(s) \intersect ToSet(t) = {}
        BY <1>5, <3>4, <3>6, <3>7
      <3>9. IsInjective(s \o t) /\ ToSet(s \o t) = ToSet(s) \union ToSet(t)
        BY ONLY <3>5, <3>8, InjectiveConcat, ConcatFacts
      <3>10. i \in 1 .. i
        BY <1>1
      <3>11. Ok(i)
        <4> SUFFICES ASSUME NEW x \in ToSet(s \o t) PROVE \E k \in 1 .. i : x \in ToSet(ss[k])
          BY <3>5, <3>9
        <4>1. CASE x \in ToSet(s)
          BY <3>6, <3>7, <4>1
        <4>2. CASE x \in ToSet(t)
          BY <3>4, <3>10, <4>2
        <4> QED
          BY <3>9, <4>1, <4>2
      <3> HIDE DEF Ok
      <3> QED
        BY <1>1, <3>11
    <2> QED
      BY <2>1, <2>2
  <1> HIDE DEF P
  <1>8. \A i \in 0 .. n : i \in P
    BY <1>1, <1>6, <1>7, Inductive
  <1>9. n \in 0 .. n /\ n # 0
    BY <1>1, <1>2
  <1>10. Ok(n)
    BY <1>8, <1>9 DEF P
  <1> QED
    BY <1>4, <1>10

LEMMA MoreCount ==
    ASSUME NEW n \in Nat, NEW T \in SUBSET (1 .. n), NEW U \in SUBSET T, NEW x \in T, x \notin U
    PROVE  Cardinality(U) < Cardinality(T)
  <1>1. IsFiniteSet(T) /\ Cardinality(T) \in Nat
    BY CountPositive
  <1>2. U \in SUBSET (1 .. n)
    OBVIOUS
  <1>3. Cardinality(U) \in Nat
    BY <1>2, CountPositive
  <1>4. Cardinality(U) <= Cardinality(T) /\ Cardinality(U) # Cardinality(T)
    BY <1>1, FS_Subset
  <1> QED
    BY <1>1, <1>3, <1>4

\* The accesses among the first k entries of the table information.
AccessesTo(info, t, k) == {j \in 1 .. k : info[j][1] = t}

\* The counts of a reuse are new ones, and another one for each access.
LEMMA FreshCounts ==
    ASSUME provCounts \in [ProvPrefixes -> Int], NEW info \in Infos, NEW t \in ProvPrefixes
    PROVE  /\ provCounts[t] <= ReuseCounts(info)[t]
           /\ \A k \in DOMAIN info : info[k][1] = t =>
                /\ FreshCount(info, k) \in Int
                /\ provCounts[t] < FreshCount(info, k)
                /\ FreshCount(info, k) <= ReuseCounts(info)[t]
                /\ \A l \in DOMAIN info : info[l][1] = t /\ k < l =>
                     FreshCount(info, k) < FreshCount(info, l)
  <1> DEFINE n == Len(info)
             T(k) == AccessesTo(info, t, k)
             c == provCounts[t]
  <1>1. n \in Nat /\ DOMAIN info = 1 .. n
    <2> DEFINE U == ProvPrefixes \X Seq(Seq(Words))
    <2>1. info \in Seq(U)
      BY DEF Infos
    <2> HIDE DEF U
    <2> QED
      BY <2>1, SeqIsSeq
  <1>2. c \in Int /\ ReuseCounts(info)[t] = c + Cardinality(T(n))
    BY <1>1 DEF ReuseCounts, AccessesTo
  <1>3. \A k : info[k][1] = t => FreshCount(info, k) = c + Cardinality(T(k))
    BY DEF FreshCount, AccessesTo
  <1>4. \A k \in 0 .. n : T(k) \in SUBSET (1 .. n)
    BY <1>1 DEF AccessesTo
  <1>5. \A k, l \in 1 .. n : k <= l => T(k) \in SUBSET T(l)
    BY <1>1 DEF AccessesTo
  <1>6. \A k \in 1 .. n : info[k][1] = t => k \in T(k)
    BY <1>1 DEF AccessesTo
  <1>7. \A k, l \in 1 .. n : k < l => l \notin T(k)
    BY <1>1 DEF AccessesTo
  <1> HIDE DEF T, c, n
  <1>8. \A k \in 0 .. n : IsFiniteSet(T(k)) /\ Cardinality(T(k)) \in Nat
    BY <1>1, <1>4, CountPositive
  <1>9. \A k \in 1 .. n : info[k][1] = t => Cardinality(T(k)) >= 1
    <2> TAKE k \in 1 .. n
    <2>1. T(k) \in SUBSET (1 .. n) /\ (info[k][1] = t => T(k) # {})
      BY <1>1, <1>4, <1>6
    <2> QED
      BY <1>1, <2>1, CountPositive
  <1>10. \A k, l \in 1 .. n : k <= l => Cardinality(T(k)) <= Cardinality(T(l))
    <2> TAKE k \in 1 .. n, l \in 1 .. n
    <2>1. IsFiniteSet(T(l)) /\ (k <= l => T(k) \in SUBSET T(l))
      BY <1>1, <1>5, <1>8
    <2> QED
      BY <2>1, FS_Subset
  <1>11. \A k, l \in 1 .. n : k < l /\ info[l][1] = t => Cardinality(T(k)) < Cardinality(T(l))
    <2> SUFFICES ASSUME NEW k \in 1 .. n, NEW l \in 1 .. n, k < l, info[l][1] = t
                 PROVE  Cardinality(T(k)) < Cardinality(T(l))
      OBVIOUS
    <2>1. T(l) \in SUBSET (1 .. n) /\ T(k) \in SUBSET T(l) /\ l \in T(l) /\ l \notin T(k)
      BY <1>1, <1>4, <1>5, <1>6, <1>7
    <2> QED
      BY ONLY <1>1, <2>1, MoreCount
  <1>12. c <= ReuseCounts(info)[t]
    <2>1. n \in 0 .. n
      BY <1>1
    <2> QED
      BY <1>2, <1>8, <2>1
  <1>13. ASSUME NEW k \in 1 .. n, info[k][1] = t
         PROVE  /\ FreshCount(info, k) \in Int
                /\ c < FreshCount(info, k)
                /\ FreshCount(info, k) <= ReuseCounts(info)[t]
                /\ \A l \in 1 .. n : info[l][1] = t /\ k < l =>
                     FreshCount(info, k) < FreshCount(info, l)
    <2>1. k \in 0 .. n /\ n \in 0 .. n /\ n \in 1 .. n /\ k <= n
      BY <1>1
    <2>2. /\ Cardinality(T(k)) \in Nat /\ Cardinality(T(n)) \in Nat
          /\ Cardinality(T(k)) >= 1 /\ Cardinality(T(k)) <= Cardinality(T(n))
      BY <1>8, <1>9, <1>10, <1>13, <2>1
    <2>3. FreshCount(info, k) = c + Cardinality(T(k))
      BY <1>3, <1>13
    <2>4. ASSUME NEW l \in 1 .. n, info[l][1] = t, k < l
          PROVE  FreshCount(info, k) < FreshCount(info, l)
      <3>1. FreshCount(info, l) = c + Cardinality(T(l))
        BY <1>3, <2>4
      <3>2. Cardinality(T(k)) < Cardinality(T(l)) /\ Cardinality(T(l)) \in Nat
        <4>1. l \in 0 .. n
          BY <1>1
        <4> QED
          BY <1>8, <1>11, <2>4, <4>1
      <3> QED
        BY <1>2, <2>2, <2>3, <3>1, <3>2
    <2> QED
      BY <1>2, <2>2, <2>3, <2>4
  <1> QED
    BY <1>1, <1>12, <1>13 DEF c

\* Name x of access number cnt to table t.
Names(x, t, cnt) == x \in ProvAttrNames /\ x[1] = t /\ x[2] = cnt

LEMMA NamesOfAccess ==
    ASSUME NEW t \in ProvPrefixes, NEW cnt \in Int, NEW path \in Seq(Words)
    PROVE  /\ Names(getProvenanceAttrName(t, cnt, path), t, cnt)
           /\ \A p : getProvenanceAttrName(t, cnt, path) = getProvenanceAttrName(t, cnt, p) => path = p
  <1>1. getProvenanceAttrName(t, cnt, path) \in ProvAttrNames
    BY ProvName
  <1> DEFINE e == << >>
  <1>2. \A p : getProvenanceAttrName(t, cnt, p) = << t, cnt, p, e >>
    BY DEF getProvenanceAttrName
  <1> HIDE DEF e
  <1> QED
    BY <1>1, <1>2 DEF Names

\* The names of one access.
LEMMA FreshPartNames ==
    ASSUME provCounts \in [ProvPrefixes -> Int], NEW info \in Infos, NEW k \in DOMAIN info
    PROVE  /\ info[k][1] \in ProvPrefixes
           /\ \A x \in ToSet(FreshPart(info, k)) : Names(x, info[k][1], FreshCount(info, k))
           /\ IsInjective(info[k][2]) => IsInjective(FreshPart(info, k))
  <1> DEFINE U == ProvPrefixes \X Seq(Seq(Words))
             t == info[k][1]
             p == info[k][2]
             f == FreshPart(info, k)
             cnt == FreshCount(info, k)
             m == Len(p)
  <1>1. info[k] \in U
    <2>1. info \in Seq(U)
      BY DEF Infos
    <2> HIDE DEF U
    <2> QED
      BY <2>1, SeqIsSeq
  <1>2. t \in ProvPrefixes /\ p \in Seq(Seq(Words))
    BY <1>1
  <1>3. cnt \in Int
    BY <1>2, FreshCounts
  <1>4. DOMAIN p = 1 .. m /\ \A j \in 1 .. m : p[j] \in Seq(Words)
    <2> DEFINE S == Seq(Words)
    <2>1. p \in Seq(S)
      BY <1>2
    <2> HIDE DEF S, p
    <2> QED
      BY <2>1, SeqIsSeq DEF S
  <1>5. f = [j \in 1 .. m |-> getProvenanceAttrName(t, cnt, p[j])]
    BY <1>4 DEF FreshPart
  <1> HIDE DEF t, p, f, cnt, m
  <1>6. \A j \in 1 .. m : Names(f[j], t, cnt)
    BY <1>2, <1>3, <1>4, <1>5, NamesOfAccess
  <1>7. \A x \in ToSet(f) : Names(x, t, cnt)
    BY <1>5, <1>6 DEF ToSet
  <1>8. \A i, j \in 1 .. m : f[i] = f[j] => p[i] = p[j]
    BY <1>2, <1>3, <1>4, <1>5, NamesOfAccess
  <1>9. IsInjective(p) => IsInjective(f)
    BY <1>4, <1>5, <1>8 DEF IsInjective
  <1> QED
    BY <1>2, <1>7, <1>9 DEF t, p, f, cnt

\* The names that a reuse gives differ from each other and are new.
LEMMA FreshNamesDiffer ==
    ASSUME provCounts \in [ProvPrefixes -> Int], NEW info \in Infos, info # << >>,
           \A k \in DOMAIN info : IsInjective(info[k][2])
    PROVE  /\ IsInjective(FlattenSeq(FreshParts(info)))
           /\ \A x \in ToSet(FlattenSeq(FreshParts(info))) :
                /\ provCounts[x[1]] < x[2]
                /\ x[2] <= ReuseCounts(info)[x[1]]
  <1> DEFINE n == Len(info)
             ss == FreshParts(info)
  <1>1. n \in Nat /\ DOMAIN info = 1 .. n
    <2> DEFINE U == ProvPrefixes \X Seq(Seq(Words))
    <2>1. info \in Seq(U)
      BY DEF Infos
    <2> HIDE DEF U
    <2> QED
      BY <2>1, SeqIsSeq
  <1>2. ss = [k \in 1 .. n |-> FreshPart(info, k)]
    BY <1>1 DEF FreshParts
  <1>3. n # 0
    <2> DEFINE U == ProvPrefixes \X Seq(Seq(Words))
    <2>1. info \in Seq(U)
      BY DEF Infos
    <2> HIDE DEF U
    <2> QED
      BY <2>1, EmptyIsSeq, SeqIsSeq
  <1> HIDE DEF n, ss
  <1>4. ss \in Seq(Seq(ProvAttrNames)) /\ Len(ss) = n /\ DOMAIN ss = 1 .. n
    <2> DEFINE S == Seq(ProvAttrNames)
    <2>1. \A k \in 1 .. n : FreshPart(info, k) \in S
      BY <1>1, FreshPartFacts
    <2>2. ss \in [1 .. n -> S]
      BY <1>2, <2>1
    <2> HIDE DEF S
    <2>3. ss \in Seq(S) /\ Len(ss) = n /\ DOMAIN ss = 1 .. n
      BY <1>1, <2>2, SeqOfFn
    <2> QED
      BY <2>3 DEF S
  <1>5. ss # << >>
    BY <1>3, <1>4
  <1>6. \A k \in 1 .. n :
          /\ info[k][1] \in ProvPrefixes
          /\ \A x \in ToSet(ss[k]) : Names(x, info[k][1], FreshCount(info, k))
          /\ IsInjective(ss[k])
    BY <1>1, <1>2, FreshPartNames
  <1>7. ASSUME NEW k \in 1 .. n, NEW l \in 1 .. n, k < l
        PROVE  ToSet(ss[k]) \intersect ToSet(ss[l]) = {}
    <2> SUFFICES ASSUME NEW x \in ToSet(ss[k]), x \in ToSet(ss[l]) PROVE FALSE
      OBVIOUS
    <2>1. /\ info[k][1] = x[1] /\ info[l][1] = x[1] /\ x[1] \in ProvPrefixes
          /\ FreshCount(info, k) = x[2] /\ FreshCount(info, l) = x[2]
      BY <1>6 DEF Names
    <2>2. /\ FreshCount(info, k) \in Int /\ FreshCount(info, k) < FreshCount(info, l)
      BY <1>1, <1>7, <2>1, FreshCounts
    <2> QED
      BY <2>1, <2>2
  <1>8. IsInjective(FlattenSeq(ss))
    <2>1. \A k \in DOMAIN ss : IsInjective(ss[k])
      BY <1>4, <1>6
    <2>2. \A k, l \in DOMAIN ss : k < l => ToSet(ss[k]) \intersect ToSet(ss[l]) = {}
      BY <1>4, <1>7
    <2> QED
      BY ONLY <1>4, <1>5, <2>1, <2>2, InjectiveFlatten
  <1>9. ASSUME NEW x \in ToSet(FlattenSeq(ss))
        PROVE  provCounts[x[1]] < x[2] /\ x[2] <= ReuseCounts(info)[x[1]]
    <2>1. PICK k \in 1 .. n : x \in ToSet(ss[k])
      BY <1>4, FlattenFacts
    <2>2. info[k][1] = x[1] /\ x[1] \in ProvPrefixes /\ FreshCount(info, k) = x[2]
      BY <1>6, <2>1 DEF Names
    <2>3. /\ provCounts[x[1]] < FreshCount(info, k)
          /\ FreshCount(info, k) <= ReuseCounts(info)[x[1]]
      BY <1>1, <2>2, FreshCounts
    <2> QED
      BY <2>2, <2>3
  <1> QED
    BY <1>8, <1>9 DEF ss

\* Those of a leaf have the count of the access; their paths differ as those
\* of the attributes of the leaf do.
LEMMA LeafNamesDiffer ==
    ASSUME NEW q, NEW o, DataOk(q, o), o.type \in Leaves, NEW table \in ProvPrefixes,
           NEW cnt \in Int, NEW recorded \in Seq(Words)
    PROVE  /\ IsInjective(LeafNames(o, table, cnt)) /\ IsInjective(LeafPaths(o, recorded))
           /\ \A x \in ToSet(LeafNames(o, table, cnt)) : Names(x, table, cnt)
  <1> DEFINE n == Len(o.schema)
             p == [k \in 1 .. n |-> o.schema[k][3]]
             names == LeafNames(o, table, cnt)
             paths == LeafPaths(o, recorded)
  <1>1. o.schema \in Seq(AttrNames) /\ n \in Nat /\ DOMAIN o.schema = 1 .. n
    BY SchemaFacts
  <1>2. IsInjective(p)
    <2>1. IsInjective([k \in DOMAIN o.schema |-> o.schema[k][3]])
      BY DEF DataOk, SchemaOk
    <2> QED
      BY <1>1, <2>1
  <1>3. \A k \in 1 .. n : p[k] \in Seq(Words)
    <2>1. \A k \in 1 .. n : o.schema[k] \in AttrNames
      BY <1>1, SeqIsSeq
    <2> QED
      BY <2>1 DEF AttrNames
  <1>4. names = [k \in 1 .. n |-> getProvenanceAttrName(table, cnt, p[k])]
    BY DEF LeafNames
  <1>5. paths = [k \in 1 .. n |-> recorded \o p[k]]
    BY DEF LeafPaths
  <1>6. DOMAIN p = 1 .. n
    OBVIOUS
  <1> HIDE DEF n, p, names, paths
  <1>7. \A k \in 1 .. n : Names(names[k], table, cnt)
    BY <1>3, <1>4, NamesOfAccess
  <1>8. \A i, j \in 1 .. n : p[i] = p[j] => i = j
    BY <1>2, <1>6 DEF IsInjective
  <1>9. \A i, j \in 1 .. n : names[i] = names[j] => i = j
    BY <1>3, <1>4, <1>8, NamesOfAccess
  <1>10. ASSUME NEW s \in Seq(Words), NEW t \in Seq(Words), recorded \o s = recorded \o t
         PROVE  s = t
    <2>1. /\ Len(s) \in Nat /\ Len(t) \in Nat /\ Len(recorded) \in Nat
          /\ Len(recorded \o s) = Len(recorded) + Len(s) /\ Len(recorded \o t) = Len(recorded) + Len(t)
          /\ \A k \in 1 .. Len(s) : (recorded \o s)[Len(recorded) + k] = s[k]
          /\ \A k \in 1 .. Len(t) : (recorded \o t)[Len(recorded) + k] = t[k]
      BY ConcatFacts
    <2>2. Len(s) = Len(t)
      BY <1>10, <2>1
    <2>3. \A k \in 1 .. Len(s) : s[k] = t[k]
      BY <1>10, <2>1, <2>2
    <2> QED
      BY <2>2, <2>3, SeqEqual
  <1>11. \A i, j \in 1 .. n : paths[i] = paths[j] => i = j
    BY <1>3, <1>5, <1>8, <1>10
  <1> QED
    BY <1>4, <1>5, <1>7, <1>9, <1>11 DEF IsInjective, ToSet, names, paths

\* The names of node n are new or those of the calls above the m-th.
NewNames(m, n) ==
    \A x \in ToSet(ProvNames(n)) :
        \/ provCounts[x[1]] < x[2]
        \/ \E k \in DOMAIN stack : m < k /\
             \E j \in DOMAIN stack[k].ins : x \in ToSet(ProvNames(graph[stack[k].ins[j]]))

LEMMA CountedLater ==
    ASSUME provCounts \in [ProvPrefixes -> Int], NEW counts \in [ProvPrefixes -> Int],
           \A t \in ProvPrefixes : provCounts[t] <= counts[t],
           NEW m, NEW n, NEW o, Shaped(n, o), Counted(n, provCounts), SameButParents(m, n)
    PROVE  Counted(m, counts)
  <1>1. ProvNames(m) = ProvNames(n) /\ m.info = n.info
    BY NodeKept, SameFields
  <1>2. ToSet(ProvNames(n)) \subseteq ProvAttrNames
    BY SeqIsSeq DEF Shaped
  <1>3. ASSUME NEW x \in ToSet(ProvNames(n)) PROVE x[2] <= counts[x[1]]
    <2>1. x[1] \in ProvPrefixes /\ x[2] \in Int
      BY <1>2 DEF ProvAttrNames
    <2>2. x[2] <= provCounts[x[1]] /\ provCounts[x[1]] \in Int /\ counts[x[1]] \in Int
      BY <2>1 DEF Counted
    <2>3. provCounts[x[1]] <= counts[x[1]]
      BY <2>1
    <2> QED
      BY <2>1, <2>2, <2>3
  <1> QED
    BY <1>1, <1>3 DEF Counted

\* New names are apart from those of the calls that stay.
LEMMA NewNamesApart ==
    ASSUME ControlInv, ShapeInv, NamesInv, NEW m \in Nat, NEW n, NewNames(m, n),
           NEW k \in DOMAIN stack, k <= m, NEW j \in DOMAIN stack[k].ins
    PROVE  Apart(graph[stack[k].ins[j]], n)
  <1> DEFINE c == graph[stack[k].ins[j]]
  <1> SUFFICES ASSUME NEW x \in ToSet(ProvNames(c)), x \in ToSet(ProvNames(n)) PROVE FALSE
    BY DEF Apart
  <1> DEFINE b == << query[stack[k].op].in[j], stack[k].ins[j] >>
  <1>1. b \in Bindings
    BY InputBinding
  <1>2. b[2] = stack[k].ins[j]
    OBVIOUS
  <1> HIDE DEF b
  <1>3. Counted(c, provCounts) /\ Shaped(c, query[b[1]])
    BY <1>1, <1>2 DEF NamesInv, ShapeInv
  <1>4. k \in Int
    BY FrameFacts
  <1>5. x[2] <= provCounts[x[1]] /\ x[1] \in ProvPrefixes /\ x[2] \in Int
    <2> HIDE DEF c
    <2>1. ToSet(ProvNames(c)) \subseteq ProvAttrNames
      BY <1>3, SeqIsSeq DEF Shaped
    <2>2. x \in ProvAttrNames
      BY <2>1
    <2> QED
      BY <1>3, <2>2 DEF Counted, ProvAttrNames
  <1>6. CASE provCounts[x[1]] < x[2]
    <2>1. provCounts[x[1]] \in Int
      BY <1>5 DEF ControlInv
    <2> QED
      BY <1>5, <1>6, <2>1
  <1>7. ASSUME NEW l \in DOMAIN stack, m < l, NEW i \in DOMAIN stack[l].ins,
               x \in ToSet(ProvNames(graph[stack[l].ins[i]]))
        PROVE  FALSE
    <2>1. l \in Int
      BY FrameFacts
    <2>2. k # l
      BY <1>4, <1>7, <2>1
    <2>3. << k, j >> # << l, i >>
      BY <2>2
    <2>4. Apart(c, graph[stack[l].ins[i]])
      BY <2>3 DEF NamesInv
    <2> QED
      BY <1>7, <2>4 DEF Apart
  <1> QED
    BY <1>6, <1>7 DEF NewNames

LEMMA NamesDelivered ==
    ASSUME ControlInv, ShapeInv, NamesInv, phase = "rewrite", query' = query,
           NEW m, NEW i, NEW node, Delivered(m, i, node),
           \/ opToRewrittenOp' = opToRewrittenOp
           \/ opToRewrittenOp' = [opToRewrittenOp EXCEPT ![i] = node],
           NEW T, Extends(graph, graph', T),
           provCounts' \in [ProvPrefixes -> Int],
           \A t \in ProvPrefixes : provCounts[t] <= provCounts'[t],
           Counted(graph'[node], provCounts'), NewNames(m, graph'[node])
    PROVE  NamesInv'
  <1>1. Bindings' \subseteq Bindings \union {<< i, node >>} /\ phase # "analyze"
    BY DeliveredBindings
  <1>2. \A k \in DOMAIN graph : SameButParents(graph'[k], graph[k])
    BY DEF Extends
  <1>3. provCounts \in [ProvPrefixes -> Int]
    BY DEF ControlInv
  <1>4. ASSUME NEW b \in Bindings' PROVE Counted(graph'[b[2]], provCounts')
    <2>1. CASE b = << i, node >>
      BY <2>1
    <2>2. CASE b \in Bindings
      <3>1. b[2] \in DOMAIN graph
        BY <1>1, <2>2, BindingNodes
      <3>2. Shaped(graph[b[2]], query[b[1]]) /\ Counted(graph[b[2]], provCounts)
        BY <2>2 DEF ShapeInv, NamesInv
      <3>3. PICK n : n = graph[b[2]]
        OBVIOUS
      <3>4. PICK o : o = query[b[1]]
        OBVIOUS
      <3>5. PICK k : k = graph'[b[2]]
        OBVIOUS
      <3>6. PICK counts : counts = provCounts'
        OBVIOUS
      <3>7. /\ Shaped(n, o) /\ Counted(n, provCounts) /\ SameButParents(k, n)
            /\ counts \in [ProvPrefixes -> Int]
            /\ \A t \in ProvPrefixes : provCounts[t] <= counts[t]
        BY <1>2, <3>1, <3>2, <3>3, <3>4, <3>5, <3>6
      <3>8. Counted(k, counts)
        BY ONLY <1>3, <3>7, CountedLater
      <3> QED
        BY <3>5, <3>6, <3>8
    <2> QED
      BY <1>1, <2>1, <2>2
  <1>5. /\ m \in Nat /\ m <= Len(stack) /\ Len(stack) \in Nat
        /\ DOMAIN stack = 1 .. Len(stack) /\ DOMAIN stack' = 1 .. m
        /\ \A k \in 1 .. m : stack'[k].ins = IF k = m THEN Append(stack[k].ins, node)
                                             ELSE stack[k].ins
    BY TopFacts DEF Delivered
  \* An input is one that was there, or the new one.
  <1> DEFINE Old(k, j) == k \in DOMAIN stack /\ k <= m /\ j \in DOMAIN stack[k].ins
                          /\ stack'[k].ins[j] = stack[k].ins[j]
             New(k, j) == k = m /\ j = Len(stack[m].ins) + 1 /\ stack'[k].ins[j] = node
  <1>6. ASSUME NEW k \in DOMAIN stack', NEW j \in DOMAIN stack'[k].ins
        PROVE  Old(k, j) \/ New(k, j)
    <2>1. k \in DOMAIN stack /\ k <= m /\ k \in 1 .. m
      BY <1>5
    <2>2. Len(stack[k].ins) \in Nat /\ DOMAIN stack[k].ins = 1 .. Len(stack[k].ins) /\ IsSeq(stack[k].ins)
      BY <2>1, FrameFacts
    <2>3. CASE k # m
      BY <1>5, <2>1, <2>3
    <2>4. CASE k = m
      <3>1. PICK s : s = stack[k].ins
        OBVIOUS
      <3>2. stack'[k].ins = Append(s, node) /\ IsSeq(s) /\ Len(s) \in Nat /\ DOMAIN s = 1 .. Len(s)
        BY <1>5, <2>1, <2>2, <2>4, <3>1
      <3>3. /\ DOMAIN Append(s, node) = 1 .. Len(s) + 1 /\ Append(s, node)[Len(s) + 1] = node
            /\ \A l \in 1 .. Len(s) : Append(s, node)[l] = s[l]
        BY <3>2 DEF IsSeq
      <3>4. j \in 1 .. Len(s) + 1
        BY <3>2, <3>3
      <3>5. j \in 1 .. Len(s) \/ j = Len(s) + 1
        BY <3>2, <3>4
      <3> QED
        BY <2>1, <2>4, <3>1, <3>2, <3>3, <3>5
    <2> QED
      BY <2>3, <2>4
  <1>7. ASSUME NEW k, NEW j, Old(k, j)
        PROVE  ProvNames(graph'[stack'[k].ins[j]]) = ProvNames(graph[stack[k].ins[j]])
    <2>1. stack[k].ins[j] \in DOMAIN graph /\ stack'[k].ins[j] = stack[k].ins[j]
      BY <1>7, FrameFacts
    <2> QED
      BY <1>2, <2>1, NodeKept
  <1>8. ASSUME NEW k, NEW j, Old(k, j)
        PROVE  Apart(graph[stack[k].ins[j]], graph'[node])
    BY <1>5, <1>8, NewNamesApart
  <1>9. ASSUME NEW k \in DOMAIN stack', NEW l \in DOMAIN stack',
               NEW j \in DOMAIN stack'[k].ins, NEW h \in DOMAIN stack'[l].ins, << k, j >> # << l, h >>
        PROVE  Apart(graph'[stack'[k].ins[j]], graph'[stack'[l].ins[h]])
    <2>1. CASE Old(k, j) /\ Old(l, h)
      <3>1. Apart(graph[stack[k].ins[j]], graph[stack[l].ins[h]])
        BY <1>9, <2>1 DEF NamesInv
      <3> QED
        BY <1>7, <2>1, <3>1 DEF Apart
    <2>2. CASE Old(k, j) /\ New(l, h)
      <3>1. Apart(graph[stack[k].ins[j]], graph'[node]) /\ stack'[l].ins[h] = node
        BY <1>8, <2>2
      <3> QED
        BY <1>7, <2>2, <3>1 DEF Apart
    <2>3. CASE New(k, j) /\ Old(l, h)
      <3>1. Apart(graph[stack[l].ins[h]], graph'[node]) /\ stack'[k].ins[j] = node
        BY <1>8, <2>3
      <3> QED
        BY <1>7, <2>3, <3>1 DEF Apart
    <2>4. CASE New(k, j) /\ New(l, h)
      BY <1>9, <2>4
    <2> QED
      BY <1>6, <2>1, <2>2, <2>3, <2>4
  <1> HIDE DEF Old, New
  <1> QED
    BY <1>4, <1>9 DEF NamesInv

LEMMA NamesKept ==
    ASSUME NEW m, NEW n, SameButParents(m, n)
    PROVE  /\ \A counts : Counted(n, counts) => Counted(m, counts)
           /\ \A k : NewNames(k, n) => NewNames(k, m)
  <1>1. ProvNames(m) = ProvNames(n) /\ m.info = n.info
    BY NodeKept, SameFields
  <1> QED
    BY <1>1 DEF Counted, NewNames

LEMMA BuildNames ==
    ASSUME ControlInv, ShapeInv, NamesInv, NEW g, BuildStep(g),
           \A t \in ProvPrefixes : provCounts[t] <= provCounts'[t],
           Counted(g[Len(g)], provCounts'), NewNames(Len(stack) - 1, g[Len(g)])
    PROVE  NamesInv'
  <1>1. /\ phase = "rewrite" /\ query' = query /\ GraphOk(g) /\ Built(g) /\ Return(g, Len(g))
        /\ provCounts' \in [ProvPrefixes -> Int]
    BY DEF BuildStep
  <1>2. GraphOk(graph) /\ Len(g) \in DOMAIN g /\ Len(graph) <= Len(g)
    <2>1. GraphOk(graph)
      BY DEF ControlInv
    <2>2. Len(g) \in DOMAIN g /\ Len(graph) < Len(g)
      BY <1>1 DEF Built, Builds
    <2> QED
      BY <1>1, <2>1, <2>2, GraphDomain
  <1> DEFINE m == Len(stack) - 1
             node == Len(g)
             T == ToSet(Top.ins)
  <1>3. /\ Delivered(m, Top.op, node)
        /\ opToRewrittenOp' = [opToRewrittenOp EXCEPT ![Top.op] = node]
        /\ Extends(graph, graph', T)
    BY BuiltDelivered
  <1>4. GraphOk(graph') /\ Len(graph') = Len(g) /\ Extends(g, graph', {Len(g)})
    BY <1>1, <1>2, ReturnFacts
  <1>5. SameButParents(graph'[node], g[node])
    BY <1>2, <1>4 DEF Extends
  <1>6. PICK n : n = graph'[node]
    OBVIOUS
  <1>7. PICK counts : counts = provCounts'
    OBVIOUS
  <1>8. PICK l : l = g[node]
    OBVIOUS
  <1>9. SameButParents(n, l) /\ Counted(l, counts) /\ NewNames(m, l)
    BY <1>5, <1>6, <1>7, <1>8
  <1> HIDE DEF m
  <1>10. Counted(n, counts) /\ NewNames(m, n)
    BY ONLY <1>9, NamesKept
  <1>11. Counted(graph'[node], provCounts') /\ NewNames(m, graph'[node])
    BY <1>6, <1>7, <1>10
  <1> HIDE DEF node, T
  <1> QED
    BY <1>1, <1>3, <1>11, NamesDelivered

\* The innermost call: what its inputs stand for.
LEMMA TopNames ==
    ASSUME ControlInv, NamesInv, phase = "rewrite"
    PROVE  /\ \A j \in DOMAIN Top.ins : Counted(graph[Top.ins[j]], provCounts)
           /\ \A i, j \in DOMAIN Top.ins : i # j => Apart(graph[Top.ins[i]], graph[Top.ins[j]])
           /\ \A n : (\A x \in ToSet(ProvNames(n)) :
                        \E j \in DOMAIN Top.ins : x \in ToSet(ProvNames(graph[Top.ins[j]])))
                     => NewNames(Len(stack) - 1, n)
  <1>1. /\ Len(stack) \in DOMAIN stack /\ Len(stack) \in Nat /\ Top = stack[Len(stack)]
    BY TopFacts
  <1>2. PICK k : k = Len(stack)
    OBVIOUS
  <1>3. k \in DOMAIN stack /\ Top = stack[k] /\ k \in Nat
    BY <1>1, <1>2
  <1>4. ASSUME NEW j \in DOMAIN Top.ins PROVE Counted(graph[Top.ins[j]], provCounts)
    <2> DEFINE b == << query[stack[k].op].in[j], stack[k].ins[j] >>
    <2>1. b \in Bindings
      BY <1>3, InputBinding
    <2>2. b[2] = Top.ins[j]
      BY <1>3
    <2> HIDE DEF b
    <2> QED
      BY <2>1, <2>2 DEF NamesInv
  <1>5. ASSUME NEW i \in DOMAIN Top.ins, NEW j \in DOMAIN Top.ins, i # j
        PROVE  Apart(graph[Top.ins[i]], graph[Top.ins[j]])
    <2>1. << k, i >> # << k, j >>
      BY <1>5
    <2> QED
      BY <1>3, <2>1 DEF NamesInv
  <1>6. ASSUME NEW n, \A x \in ToSet(ProvNames(n)) :
                        \E j \in DOMAIN Top.ins : x \in ToSet(ProvNames(graph[Top.ins[j]]))
        PROVE  NewNames(Len(stack) - 1, n)
    <2>1. Len(stack) - 1 < k
      BY <1>2, <1>3
    <2> QED
      BY <1>3, <1>6, <2>1 DEF NewNames
  <1> QED
    BY <1>4, <1>5, <1>6

LEMMA SameCounts ==
    ASSUME ControlInv
    PROVE  \A t \in ProvPrefixes : provCounts[t] <= provCounts[t]
  BY DEF ControlInv

LEMMA LeafNamed ==
    ASSUME ControlInv, DataInv, ShapeInv, NamesInv, "intersection" \notin Admit, rewriteLeafOp
    PROVE  NamesInv'
  <1>1. Ready(Leaves) /\ query' = query
    BY DEF rewriteLeafOp, Leaves
  <1>2. Op.type \in Leaves /\ phase = "rewrite" /\ Len(Top.ins) = Len(Op.in)
    BY <1>1 DEF Ready
  <1> DEFINE prefix == IF Op.type = "TableAccess" THEN Op.how ELSE "query"
             counts == increaseRefCount(prefix)
             cnt == counts[prefix]
             recorded == IF Op.type = "TableAccess" THEN << >> ELSE << "query" >>
             g == rewriteLeaf(graph, Op, prefix, cnt, recorded)
  <1>3. provCounts' = counts /\ Return(g, Len(g))
    BY <1>2 DEF rewriteLeafOp, rewriteTableAccess, rewriteConstRel, Leaves
  <1>4. prefix \in ProvPrefixes
    <2>1. Top.op \in DOMAIN query /\ Op = query[Top.op]
      BY <1>2, TopFacts
    <2>2. Op.type = "TableAccess" => Op.how \in Tables
      BY <2>1, OperatorFacts DEF ControlInv, OperatorOk
    <2> QED
      BY <2>2 DEF ProvPrefixes
  <1>5. /\ provCounts' \in [ProvPrefixes -> Int] /\ cnt \in Int
        /\ provCounts[prefix] < cnt /\ cnt = provCounts'[prefix]
        /\ \A t \in ProvPrefixes : provCounts[t] <= provCounts'[t]
    <2> HIDE DEF prefix
    <2>1. provCounts \in [ProvPrefixes -> Int]
      BY DEF ControlInv
    <2>2. counts = [provCounts EXCEPT ![prefix] = @ + 1]
      BY DEF increaseRefCount
    <2> HIDE DEF counts
    <2> QED
      BY <1>3, <1>4, <2>1, <2>2
  <1>6. recorded \in Seq(Words)
    <2>1. "query" \in Words
      BY DEF Words
    <2> QED
      BY <2>1
  <1>7. OpIs(graph, Op)
    BY <1>2, OpInputs
  <1>8. GraphOk(graph)
    BY DEF ControlInv
  <1>9. g = rewriteLeaf(graph, Op, prefix, cnt, recorded)
    OBVIOUS
  <1> HIDE DEF g, prefix, counts, cnt, recorded
  <1>10. /\ ProvNames(g[Len(g)]) = LeafNames(Op, prefix, cnt)
         /\ g[Len(g)].info = << << prefix, LeafPaths(Op, recorded) >> >>
    BY <1>2, <1>4, <1>5, <1>6, <1>7, <1>9, LeafDone
  <1>11. Built(g)
    <2>1. Builds(graph, g, {}) /\ (LinksOk(graph) => LinksOk(g)) /\ g[Len(g)].info # << >>
      BY <1>8, <1>9, LeafBuilds
    <2>2. Builds(graph, g, ToSet(Top.ins))
      BY <2>1, BuildsMore
    <2> QED
      BY <2>1, <2>2 DEF Built, Builds
  <1>12. BuildStep(g)
    BY <1>1, <1>2, <1>3, <1>5, <1>11 DEF BuildStep, Built, Builds, Leaves
  <1>13. /\ IsInjective(LeafNames(Op, prefix, cnt)) /\ IsInjective(LeafPaths(Op, recorded))
         /\ \A x \in ToSet(LeafNames(Op, prefix, cnt)) : Names(x, prefix, cnt)
    <2>1. DataOk(query, Op)
      BY <1>7 DEF OpIs
    <2> QED
      BY <1>2, <1>4, <1>5, <1>6, <2>1, LeafNamesDiffer
  <1>14. \A x \in ToSet(LeafNames(Op, prefix, cnt)) :
           x[2] <= provCounts'[x[1]] /\ provCounts[x[1]] < x[2]
    BY <1>5, <1>13 DEF Names
  <1> DEFINE n == g[Len(g)]
             p == LeafPaths(Op, recorded)
             names == LeafNames(Op, prefix, cnt)
  <1>15. /\ ProvNames(n) = names /\ n.info = << << prefix, p >> >> /\ IsInjective(p)
         /\ IsInjective(names)
         /\ \A x \in ToSet(names) : x[2] <= provCounts'[x[1]] /\ provCounts[x[1]] < x[2]
    BY <1>10, <1>13, <1>14
  <1> HIDE DEF n, p, names
  <1>16. \A k \in DOMAIN n.info : n.info[k][2] = p
    BY <1>15
  <1>17. Counted(n, provCounts') /\ NewNames(Len(stack) - 1, n)
    BY <1>15, <1>16 DEF Counted, NewNames
  <1> QED
    BY <1>5, <1>12, <1>17, BuildNames DEF n

\* A rule whose node has the names of its input.
LEMMA SameNames ==
    ASSUME ControlInv, ShapeInv, NamesInv, NEW g, BuildStep(g), provCounts' = provCounts,
           NEW x, NEW j \in DOMAIN Top.ins, x = Top.ins[j],
           ProvNames(g[Len(g)]) = ProvNames(graph[x]),
           g[Len(g)].info = graph[x].info \/ g[Len(g)].info = << >>
    PROVE  NamesInv'
  <1>1. phase = "rewrite"
    BY DEF BuildStep
  <1> DEFINE n == g[Len(g)]
             c == graph[x]
  <1>2. Counted(c, provCounts)
    BY <1>1, TopNames
  <1>3. ProvNames(n) = ProvNames(c) /\ (n.info = c.info \/ n.info = << >>)
    OBVIOUS
  <1>4. \A y \in ToSet(ProvNames(c)) :
          \E i \in DOMAIN Top.ins : y \in ToSet(ProvNames(graph[Top.ins[i]]))
    OBVIOUS
  <1> HIDE DEF n, c
  <1>5. Counted(n, provCounts)
    <2>1. \A k \in DOMAIN n.info : IsInjective(n.info[k][2])
      <3>1. CASE n.info = c.info
        BY <1>2, <3>1 DEF Counted
      <3>2. CASE n.info = << >>
        BY <3>2
      <3> QED
        BY <1>3, <3>1, <3>2
    <2> QED
      BY <1>2, <1>3, <2>1 DEF Counted
  <1>6. NewNames(Len(stack) - 1, n)
    BY <1>1, <1>3, <1>4, TopNames
  <1>7. \A t \in ProvPrefixes : provCounts[t] <= provCounts'[t]
    BY SameCounts
  <1> QED
    BY <1>5, <1>6, <1>7, BuildNames DEF n

LEMMA LimitNamed ==
    ASSUME ControlInv, DataInv, ShapeInv, NamesInv, "intersection" \notin Admit, rewriteLimitOp
    PROVE  NamesInv'
  <1>1. Ready({"Limit"}) /\ query' = query /\ provCounts' = provCounts
    BY DEF rewriteLimitOp
  <1>2. Op.type = "Limit" /\ phase = "rewrite" /\ Len(Top.ins) = Len(Op.in)
    BY <1>1 DEF Ready
  <1> DEFINE g == rewriteLimit(graph, Op, Top.ins)
  <1>3. Return(g, Len(g)) /\ Built(g) /\ g = rewriteLimit(graph, Op, Top.ins)
    BY <1>1, LimitOpBuilds DEF rewriteLimitOp
  <1>4. provCounts' \in [ProvPrefixes -> Int]
    BY <1>1 DEF ControlInv
  <1> HIDE DEF g
  <1>5. BuildStep(g)
    BY <1>1, <1>2, <1>3, <1>4 DEF BuildStep, Built, Builds
  <1>6. Op.type \in Unary /\ Top.ins = << Top.ins[1] >> /\ DOMAIN Top.ins = 1 .. 1
    <2>1. Op.type \in Unary
      BY <1>2 DEF Unary
    <2> QED
      BY <1>1, <2>1, ReadyFacts
  <1>7. OpIs(graph, Op) /\ InputStands(graph, Op, 1, Top.ins[1])
    BY <1>2, <1>6, OpInputs
  <1>8. PICK x : x = Top.ins[1]
    OBVIOUS
  <1>9. ProvNames(g[Len(g)]) = ProvNames(graph[x]) /\ g[Len(g)].info = << >>
    <2>1. InputStands(graph, Op, 1, x) /\ Top.ins = << x >>
      BY <1>6, <1>7, <1>8
    <2>2. /\ Done(g, Op) /\ ProvNames(g[Len(g)]) = ProvNames(graph[x]) /\ g[Len(g)].info = << >>
          /\ SameRows(graph[x], query[Op.in[1]]) /\ NullsOk(query, Op) => SameRows(g[Len(g)], Op)
      BY ONLY <1>2, <1>3, <1>7, <2>1, LimitDone
    <2> QED
      BY <2>2
  <1>10. 1 \in DOMAIN Top.ins
    BY <1>6
  <1> QED
    BY <1>1, <1>5, <1>8, <1>9, <1>10, SameNames

\* Counts and paths of what two nodes have together.
LEMMA CountedTogether ==
    ASSUME NEW counts, NEW c, NEW d, Counted(c, counts), Counted(d, counts), Apart(c, d),
           ProvNames(c) \in Seq(ProvAttrNames), ProvNames(d) \in Seq(ProvAttrNames),
           c.info \in Infos, d.info \in Infos,
           NEW n, Together(n, c, d)
    PROVE  /\ Counted(n, counts)
           /\ ToSet(ProvNames(n)) = ToSet(ProvNames(c)) \union ToSet(ProvNames(d))
  <1> DEFINE s == ProvNames(c)
             t == ProvNames(d)
             r == c.info
             u == d.info
             Ok(e) == IsInjective(e[2])
  <1>1. /\ s \in Seq(ProvAttrNames) /\ t \in Seq(ProvAttrNames) /\ IsInjective(s) /\ IsInjective(t)
        /\ ToSet(s) \intersect ToSet(t) = {}
        /\ \A x \in ToSet(s) : x[2] <= counts[x[1]]
        /\ \A x \in ToSet(t) : x[2] <= counts[x[1]]
    BY DEF Counted, Apart
  <1>2. r \in Infos /\ u \in Infos /\ (\A k \in DOMAIN r : Ok(r[k])) /\ (\A k \in DOMAIN u : Ok(u[k]))
    BY DEF Counted
  <1>3. ProvNames(n) = s \o t /\ n.info = r \o u
    BY DEF Together, Counted
  <1> HIDE DEF s, t, r, u, Ok
  <1>4. IsInjective(s \o t) /\ ToSet(s \o t) = ToSet(s) \union ToSet(t)
    BY ONLY <1>1, InjectiveConcat, ConcatFacts
  <1>5. \A k \in DOMAIN (r \o u) : Ok((r \o u)[k])
    <2> DEFINE U == ProvPrefixes \X Seq(Seq(Words))
               l == Len(r)
               m == Len(u)
               v == r \o u
    <2>1. r \in Seq(U) /\ u \in Seq(U)
      BY <1>2 DEF Infos
    <2> HIDE DEF U
    <2>2. /\ v \in Seq(U) /\ Len(v) = l + m /\ l \in Nat /\ m \in Nat
          /\ \A k \in 1 .. l : v[k] = r[k]
          /\ \A k \in 1 .. m : v[l + k] = u[k]
          /\ DOMAIN r = 1 .. l /\ DOMAIN u = 1 .. m
      BY <2>1, ConcatFacts, SeqIsSeq
    <2> HIDE DEF l, m, v
    <2>3. DOMAIN v = 1 .. l + m
      BY <2>2, SeqIsSeq
    <2>4. ASSUME NEW k \in 1 .. l + m PROVE Ok(v[k])
      <3>1. CASE k \in 1 .. l
        BY <1>2, <2>2, <3>1
      <3>2. CASE k \notin 1 .. l
        <4>1. PICK j : j = k - l
          OBVIOUS
        <4>2. j \in 1 .. m /\ k = l + j
          BY <2>2, <3>2, <4>1
        <4>3. v[l + j] = u[j] /\ Ok(u[j])
          BY <1>2, <2>2, <4>2
        <4> QED
          BY <4>2, <4>3
      <3> QED
        BY <3>1, <3>2
    <2> QED
      BY <2>3, <2>4 DEF v
  <1>6. Counted(n, counts)
    <2>1. \A x \in ToSet(s \o t) : x[2] <= counts[x[1]]
      BY <1>1, <1>4
    <2>2. \A k \in DOMAIN n.info : IsInjective(n.info[k][2])
      BY <1>3, <1>5 DEF Ok
    <2> QED
      BY <1>3, <1>4, <2>1, <2>2 DEF Counted
  <1> QED
    BY <1>3, <1>4, <1>6 DEF s, t

LEMMA OpNamed ==
    ASSUME ControlInv, DataInv, ShapeInv, NamesInv, "intersection" \notin Admit, rewriteOp,
           ~ InfoMissing(Top.ins)
    PROVE  NamesInv'
  <1> DEFINE types == {"Selection", "Order", "Projection", "Aggregation", "Join", "Set"}
             g == Rewritten(Op, Top.ins)
  <1>1. Ready(types) /\ query' = query /\ provCounts' = provCounts
    BY DEF rewriteOp
  <1>2. Op.type \in types /\ phase = "rewrite" /\ Len(Top.ins) = Len(Op.in)
    BY <1>1 DEF Ready
  <1>3. Return(g, Len(g)) /\ Built(g) /\ g = Rewritten(Op, Top.ins)
    BY <1>1, OpBuilds DEF rewriteOp
  <1>4. provCounts' \in [ProvPrefixes -> Int]
    BY <1>1 DEF ControlInv
  <1> HIDE DEF g
  <1>5. BuildStep(g)
    BY <1>1, <1>2, <1>3, <1>4 DEF BuildStep, Built, Builds
  <1>6. /\ OpIs(graph, Op)
        /\ \A j \in DOMAIN Top.ins : InputStands(graph, Op, j, Top.ins[j])
        /\ Op.core = IF Op.type = "DuplicateRemoval" THEN query[Op.in[1]].core ELSE Top.op
        /\ Op = query[Top.op] /\ Top.op \in DOMAIN query
    BY <1>2, OpInputs
  <1>7. CASE Op.type \in {"Selection", "Order", "Projection", "Aggregation"}
    <2>1. Op.type \in Unary /\ Top.ins = << Top.ins[1] >> /\ DOMAIN Top.ins = 1 .. 1
      <3>1. Op.type \in Unary
        BY <1>7 DEF Unary
      <3> QED
        BY <1>1, <3>1, ReadyFacts
    <2>2. PICK x : x = Top.ins[1]
      OBVIOUS
    <2>3. InputStands(graph, Op, 1, x) /\ Top.ins = << x >> /\ 1 \in DOMAIN Top.ins
      BY <1>6, <2>1, <2>2
    <2>4. /\ Done(g, Op)
          /\ ProvNames(g[Len(g)]) = ProvNames(graph[x]) /\ g[Len(g)].info = graph[x].info
          /\ SameRows(graph[x], query[Op.in[1]]) /\ NotNullIn(query[Op.in[1]]) =>
               SameRows(g[Len(g)], Op)
      BY ONLY <1>3, <1>6, <1>7, <2>3, UnaryDone
    <2> QED
      BY <1>1, <1>5, <2>2, <2>3, <2>4, SameNames
  <1>8. CASE Op.type \in {"Join", "Set"}
    <2>1. /\ Top.ins = << Top.ins[1], Top.ins[2] >> /\ DOMAIN Top.ins = 1 .. 2
          /\ Op.type = "Set" => Op.how \in SetOps
      <3> HIDE DEF types
      <3> QED
        BY ONLY <1>1, <1>8, ControlInv, BinaryReady
    <2>2. PICK x : x = Top.ins[1]
      OBVIOUS
    <2>3. PICK y : y = Top.ins[2]
      OBVIOUS
    <2>4. /\ InputStands(graph, Op, 1, x) /\ InputStands(graph, Op, 2, y) /\ Top.ins = << x, y >>
          /\ 1 \in DOMAIN Top.ins /\ 2 \in DOMAIN Top.ins
      BY <1>6, <2>1, <2>2, <2>3
    <2>5. graph[x].info # << >> /\ graph[y].info # << >>
      BY <2>1, <2>2, <2>3 DEF InfoMissing
    <2>6. BinaryInput(graph, Op, x, y)
      BY <1>6, <2>4, <2>5 DEF BinaryInput
    <2>7. Op.type = "Set" /\ Op.how = "INTERSECTION" => IsSet(query[Op.core], {"INTERSECTION"})
      BY <1>6 DEF IsSet
    <2>8. /\ Done(g, Op)
          /\ Together(g[Len(g)], graph[x], graph[y])
          /\ SameRows(graph[x], query[Op.in[1]]) /\ SameRows(graph[y], query[Op.in[2]])
               /\ NullsOk(query, Op) => SameRows(g[Len(g)], Op)
      <3>1. PICK h : h = g
        OBVIOUS
      <3>2. PICK o : o = Op
        OBVIOUS
      <3>3. PICK ins : ins = Top.ins
        OBVIOUS
      <3>4. /\ BinaryInput(graph, o, x, y) /\ ins = << x, y >> /\ o.type \in {"Join", "Set"}
            /\ o.type = "Set" => o.how \in SetOps
            /\ o.type = "Set" /\ o.how = "INTERSECTION" => IsSet(query[o.core], {"INTERSECTION"})
            /\ h = Rewritten(o, ins)
        BY <1>3, <1>8, <2>1, <2>4, <2>6, <2>7, <3>1, <3>2, <3>3
      <3>5. /\ Done(h, o)
            /\ Together(h[Len(h)], graph[x], graph[y])
            /\ SameRows(graph[x], query[o.in[1]]) /\ SameRows(graph[y], query[o.in[2]])
                 /\ NullsOk(query, o) => SameRows(h[Len(h)], o)
        BY ONLY <3>4, BinaryDone
      <3> QED
        BY <3>1, <3>2, <3>5
    <2>9. /\ Counted(graph[x], provCounts) /\ Counted(graph[y], provCounts)
          /\ Apart(graph[x], graph[y])
      BY <1>2, <2>2, <2>3, <2>4, TopNames
    <2>10. PICK c : c = graph[x]
      OBVIOUS
    <2>11. PICK d : d = graph[y]
      OBVIOUS
    <2>12. PICK n : n = g[Len(g)]
      OBVIOUS
    <2>13. /\ Counted(c, provCounts) /\ Counted(d, provCounts) /\ Apart(c, d)
           /\ Together(n, c, d)
      BY <2>8, <2>9, <2>10, <2>11, <2>12
    <2>14. /\ ProvNames(c) \in Seq(ProvAttrNames) /\ ProvNames(d) \in Seq(ProvAttrNames)
           /\ c.info \in Infos /\ d.info \in Infos
      BY <2>4, <2>10, <2>11 DEF InputStands, Stands, Shaped, InfoOk, Infos
    <2>15. /\ Counted(n, provCounts)
           /\ ToSet(ProvNames(n)) = ToSet(ProvNames(c)) \union ToSet(ProvNames(d))
      <3>1. PICK counts : counts = provCounts
        OBVIOUS
      <3>2. /\ Counted(c, counts) /\ Counted(d, counts) /\ Apart(c, d)
            /\ Together(n, c, d)
        BY <2>13, <3>1
      <3>3. /\ Counted(n, counts)
            /\ ToSet(ProvNames(n)) = ToSet(ProvNames(c)) \union ToSet(ProvNames(d))
        BY ONLY <2>14, <3>2, CountedTogether
      <3> QED
        BY <3>1, <3>3
    <2>16. \A z \in ToSet(ProvNames(n)) :
             \E j \in DOMAIN Top.ins : z \in ToSet(ProvNames(graph[Top.ins[j]]))
      BY <2>2, <2>3, <2>4, <2>10, <2>11, <2>15
    <2>17. NewNames(Len(stack) - 1, n)
      BY <1>2, <2>16, TopNames
    <2>18. \A t \in ProvPrefixes : provCounts[t] <= provCounts'[t]
      BY <1>1, SameCounts
    <2>19. Counted(g[Len(g)], provCounts') /\ NewNames(Len(stack) - 1, g[Len(g)])
      BY <1>1, <2>12, <2>15, <2>17
    <2> QED
      BY <1>5, <2>18, <2>19, BuildNames
  <1> QED
    BY <1>2, <1>7, <1>8

LEMMA DuplicateNamed ==
    ASSUME ControlInv, ShapeInv, NamesInv, rewriteDuplicateRemOp
    PROVE  NamesInv'
  <1>1. /\ phase = "rewrite" /\ query' = query /\ provCounts' = provCounts
        /\ DOMAIN Top.ins = 1 .. 1 /\ Top.ins[1] \in DOMAIN graph
        /\ Delivered(Len(stack) - 1, Top.op, Top.ins[1])
        /\ opToRewrittenOp' = [opToRewrittenOp EXCEPT ![Top.op] = Top.ins[1]]
        /\ Extends(graph, graph', {Top.ins[1]})
    BY DuplicateStep
  <1>2. PICK x : x = Top.ins[1]
    OBVIOUS
  <1>3. 1 \in DOMAIN Top.ins
    BY <1>1
  <1>4. Counted(graph[x], provCounts)
    BY <1>1, <1>2, <1>3, TopNames
  <1>5. NewNames(Len(stack) - 1, graph[x])
    <2>1. \A z \in ToSet(ProvNames(graph[x])) :
            \E j \in DOMAIN Top.ins : z \in ToSet(ProvNames(graph[Top.ins[j]]))
      BY <1>2, <1>3
    <2> QED
      BY <1>1, <2>1, TopNames
  <1> DEFINE m == Len(stack) - 1
             T == {x}
  <1>6. /\ Delivered(m, Top.op, x) /\ Extends(graph, graph', T)
        /\ opToRewrittenOp' = [opToRewrittenOp EXCEPT ![Top.op] = x]
        /\ NewNames(m, graph[x])
    BY <1>1, <1>2, <1>5
  <1> HIDE DEF m, T
  <1>7. PICK n : n = graph'[x]
    OBVIOUS
  <1>8. SameButParents(n, graph[x])
    BY <1>1, <1>2, <1>6, <1>7 DEF Extends
  <1>9. Counted(n, provCounts) /\ NewNames(m, n)
    BY ONLY <1>4, <1>6, <1>8, NamesKept
  <1>10. Counted(graph'[x], provCounts') /\ NewNames(m, graph'[x])
    BY <1>1, <1>7, <1>9
  <1>11. /\ provCounts' \in [ProvPrefixes -> Int]
         /\ \A t \in ProvPrefixes : provCounts[t] <= provCounts'[t]
    BY <1>1, SameCounts DEF ControlInv
  <1> QED
    BY <1>1, <1>6, <1>10, <1>11, NamesDelivered

LEMMA ReuseNamed ==
    ASSUME ControlInv, DataInv, ShapeInv, NamesInv, reuseRewrittenOp, NEW c, NEW g, ReuseStep(c, g)
    PROVE  NamesInv'
  <1>1. /\ HasInputsLeft /\ NextInput \in RewrittenOps /\ c = opToRewrittenOp[NextInput]
        /\ c \in DOMAIN graph /\ g = rewriteReuse(graph, c)
        /\ query' = query /\ graph' = g /\ opToRewrittenOp' = opToRewrittenOp
        /\ Builds(graph, g, {c}) /\ graph[c].info # << >>
        /\ Delivered(Len(stack), NextInput, Len(g)) /\ phase = "rewrite"
        /\ provCounts' \in [ProvPrefixes -> Int]
    BY DEF ReuseStep, HasInputsLeft
  <1>2. NextInput \in DOMAIN query
    BY <1>1, TopFacts
  <1> DEFINE b == << NextInput, c >>
  <1>3. b \in Bindings /\ b[1] = NextInput /\ b[2] = c
    BY <1>1 DEF Bindings
  <1> HIDE DEF b
  <1>4. /\ Shaped(graph[c], query[NextInput]) /\ InfoOk(graph[c])
        /\ Counted(graph[c], provCounts)
    BY <1>3 DEF ShapeInv, NamesInv
  <1>5. PICK o : o = query[NextInput]
    OBVIOUS
  <1>6. ReuseInput(graph, c, o)
    BY <1>1, <1>2, <1>4, <1>5 DEF ReuseInput, ControlInv, ShapeInv, DataInv
  <1>7. /\ Result(g, o, FlattenSeq(FreshParts(graph[c].info))) /\ InfoOk(g[Len(g)])
        /\ g[Len(g)].info = graph[c].info
        /\ SameRows(graph[c], o) => SameRows(g[Len(g)], o)
    BY ONLY <1>1, <1>6, ReuseRule
  <1>8. provCounts' = ReuseCounts(graph[c].info)
    <2>1. ~ InfoMissing(<< c >>)
      BY <1>1 DEF InfoMissing
    <2> QED
      BY <1>1, <2>1 DEF reuseRewrittenOp
  <1>9. PICK info : info = graph[c].info
    OBVIOUS
  <1>10. PICK n : n = g[Len(g)]
    OBVIOUS
  <1> DEFINE fresh == FlattenSeq(FreshParts(info))
  <1>11. /\ ProvNames(n) = fresh /\ n.info = info /\ info \in Infos /\ info # << >>
         /\ \A k \in DOMAIN info : IsInjective(info[k][2])
         /\ provCounts \in [ProvPrefixes -> Int] /\ provCounts' = ReuseCounts(info)
    BY <1>1, <1>4, <1>7, <1>8, <1>9, <1>10 DEF Result, Counted, InfoOk, Infos, ControlInv
  <1>12. /\ IsInjective(fresh)
         /\ \A x \in ToSet(fresh) : provCounts[x[1]] < x[2] /\ x[2] <= ReuseCounts(info)[x[1]]
    BY ONLY <1>11, FreshNamesDiffer
  <1>13. \A t \in ProvPrefixes : provCounts[t] <= provCounts'[t]
    BY <1>11, FreshCounts
  <1> HIDE DEF fresh
  <1> DEFINE m == Len(stack)
             node == Len(g)
             T == {c}
  <1>14. Counted(graph'[node], provCounts') /\ NewNames(m, graph'[node])
    <2>1. Counted(n, provCounts')
      BY <1>11, <1>12 DEF Counted
    <2>2. NewNames(m, n)
      BY <1>11, <1>12 DEF NewNames
    <2> QED
      BY <1>1, <1>10, <2>1, <2>2
  <1>15. Delivered(m, NextInput, node) /\ Extends(graph, graph', T)
    BY <1>1 DEF Builds
  <1> HIDE DEF m, node, T
  <1> QED
    BY <1>1, <1>13, <1>14, <1>15, NamesDelivered

LEMMA NoBindingsNames ==
    ASSUME Bindings' = {}, \A k \in DOMAIN stack' : stack'[k].ins = << >>
    PROVE  NamesInv'
  BY DEF NamesInv

LEMMA NamesPush ==
    ASSUME ControlInv, NamesInv, rewriteInput
    PROVE  NamesInv'
  <1>1. /\ graph' = graph /\ provCounts' = provCounts /\ Bindings' = Bindings
        /\ DOMAIN stack' = 1 .. Len(stack) + 1 /\ stack'[Len(stack) + 1].ins = << >>
        /\ \A k \in 1 .. Len(stack) : stack'[k] = stack[k]
    BY PushFacts DEF rewriteInput
  <1>2. Len(stack) \in Nat /\ DOMAIN stack = 1 .. Len(stack)
    BY TopFacts DEF rewriteInput, HasInputsLeft
  <1>3. ASSUME NEW k \in DOMAIN stack', stack'[k].ins # << >>
        PROVE  k \in DOMAIN stack /\ stack'[k] = stack[k]
    <2>1. k \in 1 .. Len(stack) \/ k = Len(stack) + 1
      BY <1>1, <1>2
    <2> QED
      BY <1>1, <1>2, <1>3, <2>1
  <1>4. ASSUME NEW k \in DOMAIN stack', NEW l \in DOMAIN stack',
               NEW i \in DOMAIN stack'[k].ins, NEW j \in DOMAIN stack'[l].ins, << k, i >> # << l, j >>
        PROVE  Apart(graph'[stack'[k].ins[i]], graph'[stack'[l].ins[j]])
    <2>1. stack'[k].ins # << >> /\ stack'[l].ins # << >>
      OBVIOUS
    <2>2. /\ k \in DOMAIN stack /\ stack'[k] = stack[k]
          /\ l \in DOMAIN stack /\ stack'[l] = stack[l]
      BY <1>3, <2>1
    <2>3. Apart(graph[stack[k].ins[i]], graph[stack[l].ins[j]])
      BY <1>4, <2>2 DEF NamesInv
    <2> QED
      BY <1>1, <2>2, <2>3
  <1>5. \A b \in Bindings' : Counted(graph'[b[2]], provCounts')
    BY <1>1 DEF NamesInv
  <1> QED
    BY <1>4, <1>5 DEF NamesInv

LEMMA NamesSteps ==
    ASSUME ControlInv, DataInv, ShapeInv, NamesInv, "intersection" \notin Admit, [Next]_vars
    PROVE  NamesInv'
  <1>1. CASE addOperator \/ rewritePI_CS
    <2>1. Bindings' = {} /\ \A k \in DOMAIN stack' : stack'[k].ins = << >>
      BY <1>1, AnalyzeStep
    <2> QED
      BY <2>1, NoBindingsNames
  <1>2. CASE rewriteInput
    BY <1>2, NamesPush
  <1>3. ASSUME UNCHANGED << query, stack, graph, opToRewrittenOp, provCounts >> PROVE NamesInv'
    <2>1. Bindings' = Bindings
      BY <1>3 DEF Bindings, RewrittenOps
    <2> QED
      BY <1>3, <2>1 DEF NamesInv
  <1>4. CASE reuseRewrittenOp
    <2>1. CASE \E c, g : ReuseStep(c, g)
      BY <1>4, <2>1, ReuseNamed
    <2>2. CASE FailStep(<< opToRewrittenOp[NextInput] >>)
      BY <1>3, <2>2 DEF FailStep
    <2> QED
      BY <1>4, <2>1, <2>2, ReusedStep
  <1>5. CASE rewriteLeafOp
    BY <1>5, LeafNamed
  <1>6. CASE rewriteDuplicateRemOp
    BY <1>6, DuplicateNamed
  <1>7. CASE rewriteLimitOp
    BY <1>7, LimitNamed
  <1>8. CASE rewriteOp
    <2>1. CASE InfoMissing(Top.ins)
      BY <1>3, <1>8, <2>1 DEF rewriteOp
    <2>2. CASE ~ InfoMissing(Top.ins)
      BY <1>8, <2>2, OpNamed
    <2> QED
      BY <2>1, <2>2
  <1>9. CASE UNCHANGED vars
    BY <1>3, <1>9 DEF vars
  <1> QED
    BY <1>1, <1>2, <1>4, <1>5, <1>6, <1>7, <1>8, <1>9 DEF Next

LEMMA NamesInit ==
    ASSUME Init, ControlInv
    PROVE  NamesInv
  <1>1. DOMAIN stack = {} /\ Bindings = {}
    BY AnalyzeState DEF Init
  <1> QED
    BY <1>1 DEF NamesInv

\* No two provenance attributes of what an operator is rewritten to have the
\* same name, whatever the tables and the query: the counts that
\* increaseRefCount keeps for each table tell the accesses apart, and a reuse
\* by rewritePI_CSReuseRewrittenOp takes counts that no access has.  Over an
\* intersection the rewrite is not followed.
THEOREM ProvNamesAreUnique ==
    ASSUME "intersection" \notin Admit
    PROVE  Spec => []ProvNamesUnique
  <1> DEFINE IInv == ControlInv /\ db \in Databases /\ DataInv /\ ShapeInv /\ NamesInv
  <1>1. Init => IInv
    BY ShapeInit, NamesInit
  <1>2. IInv /\ [Next]_vars => IInv'
    BY ControlSteps, QuerySteps, ShapeSteps, NamesSteps
  <1>3. IInv => ProvNamesUnique
    <2> SUFFICES ASSUME IInv, NEW i \in RewrittenOps PROVE IsInjective(ProvNames(NodeOf(i)))
      BY DEF ProvNamesUnique
    <2> DEFINE b == << i, opToRewrittenOp[i] >>
    <2>1. b \in Bindings /\ b[1] = i /\ b[2] = opToRewrittenOp[i]
      BY RewrittenBinding
    <2> HIDE DEF b
    <2>2. Counted(graph[b[2]], provCounts)
      BY <2>1 DEF NamesInv
    <2> QED
      BY <2>1, <2>2 DEF NodeOf, Counted
  <1> QED
    BY <1>1, <1>2, <1>3, PTL DEF Spec
==============================================================================
