---------------------- MODULE CostBasedOptimizerProofs ----------------------
(***************************************************************************)
(* Proofs about the cost-based optimizer, for every choice tree, every     *)
(* estimate the backend may return and every limit: the exhaustive search  *)
(* replays its paths faithfully, and the main loop implements PlanSearch.  *)
(***************************************************************************)
EXTENDS CostBasedOptimizer, FiniteSetTheorems, SequenceTheorems, TLAPS

-----------------------------------------------------------------------------
(***************************************************************************)
(* Positions and paths                                                     *)
(***************************************************************************)

LEMMA Smallest ==
    ASSUME NEW T \in SUBSET Nat, T # {}
    PROVE  \E x \in T : \A y \in T : x <= y
  <1>1. IsWellFoundedOn(OpToRel(<, Nat), Nat)
    BY NatLessThanWellFounded
  <1>2. PICK x \in T : \A y \in T : ~ (<<y, x>> \in OpToRel(<, Nat))
    BY <1>1, WFMin
  <1>3. \A y \in T : ~ (y < x)
    BY <1>2 DEF OpToRel
  <1> QED
    BY <1>3

\* Max of the community modules, for positions of a path.
LEMMA MaxFacts ==
    ASSUME NEW n \in Nat, NEW T \in SUBSET (0 .. n), T # {}
    PROVE  Max(T) \in T /\ \A y \in T : y <= Max(T)
  <1> DEFINE D == {n - i : i \in T}
  <1>1. D \in SUBSET Nat /\ D # {}
    <2>1. \A i \in T : n - i \in Nat
      OBVIOUS
    <2>2. PICK i \in T : TRUE
      OBVIOUS
    <2>3. n - i \in D
      OBVIOUS
    <2> QED
      BY <2>1, <2>3
  <1>2. \E x \in D : \A y \in D : x <= y
    <2> HIDE DEF D
    <2> QED
      BY <1>1, Smallest
  <1>3. \E x \in T : \A y \in T : x >= y
    BY <1>2
  <1> QED
    BY <1>3 DEF Max

LEMMA AppendFacts ==
    ASSUME NEW S, NEW p \in Seq(S), NEW c \in S
    PROVE  /\ Append(p, c) \in Seq(S) /\ Len(Append(p, c)) = Len(p) + 1
           /\ Append(p, c) # << >>
           /\ \A i \in 1 .. Len(p) : Append(p, c)[i] = p[i]
           /\ Append(p, c)[Len(p) + 1] = c
           /\ Front(Append(p, c)) = p /\ Last(Append(p, c)) = c
  <1>1. /\ Append(p, c) \in Seq(S) /\ Len(Append(p, c)) = Len(p) + 1
        /\ \A i \in 1 .. Len(p) : Append(p, c)[i] = p[i]
        /\ Append(p, c)[Len(p) + 1] = c
    OBVIOUS
  <1>2. Append(p, c) # << >>
    BY <1>1
  <1>3. Front(Append(p, c)) = p
    <2>1. /\ Len(SubSeq(Append(p, c), 1, Len(p))) = Len(p)
          /\ SubSeq(Append(p, c), 1, Len(p)) \in Seq(S)
          /\ \A i \in 1 .. Len(p) : SubSeq(Append(p, c), 1, Len(p))[i] = p[i]
      BY <1>1
    <2>2. SubSeq(Append(p, c), 1, Len(p)) = p
      BY <2>1
    <2> QED
      BY <1>1, <2>2 DEF Front
  <1> QED
    BY <1>1, <1>2, <1>3 DEF Last

LEMMA PrefixFacts ==
    ASSUME NEW S, NEW p \in Seq(S), NEW m \in 0 .. Len(p)
    PROVE  /\ SubSeq(p, 1, m) \in Seq(S) /\ Len(SubSeq(p, 1, m)) = m
           /\ \A i \in 1 .. m : SubSeq(p, 1, m)[i] = p[i]
  OBVIOUS

LEMMA FrontFacts ==
    ASSUME NEW S, NEW p \in Seq(S), p # << >>
    PROVE  /\ Front(p) \in Seq(S) /\ Len(Front(p)) = Len(p) - 1 /\ Len(p) \in Nat \ {0}
           /\ \A i \in 1 .. Len(p) - 1 : Front(p)[i] = p[i]
           /\ Last(p) = p[Len(p)] /\ Last(p) \in S
           /\ p = Append(Front(p), Last(p))
  <1>1. Len(p) \in Nat \ {0} /\ Len(p) \in 1 .. Len(p)
    OBVIOUS
  <1>2. /\ Front(p) \in Seq(S) /\ Len(Front(p)) = Len(p) - 1
        /\ \A i \in 1 .. Len(p) - 1 : Front(p)[i] = p[i]
    <2> PICK m : m = Len(p) - 1
      OBVIOUS
    <2>1. m \in 0 .. Len(p)
      BY <1>1
    <2>2. /\ SubSeq(p, 1, m) \in Seq(S) /\ Len(SubSeq(p, 1, m)) = m
          /\ \A i \in 1 .. m : SubSeq(p, 1, m)[i] = p[i]
      BY <2>1, PrefixFacts
    <2> QED
      BY <2>2 DEF Front
  <1>3. Last(p) = p[Len(p)] /\ Last(p) \in S
    BY <1>1 DEF Last
  <1>4. p = Append(Front(p), Last(p))
    <2> DEFINE f == Front(p)
               l == Last(p)
    <2>1. f \in Seq(S) /\ Len(f) = Len(p) - 1 /\ l \in S /\ l = p[Len(p)]
          /\ \A i \in 1 .. Len(p) - 1 : f[i] = p[i]
      BY <1>2, <1>3
    <2> HIDE DEF f, l
    <2>2. /\ Append(f, l) \in Seq(S) /\ Len(Append(f, l)) = Len(p)
          /\ \A i \in 1 .. Len(p) : Append(f, l)[i] = p[i]
      BY <1>1, <2>1
    <2>3. p = Append(f, l)
      BY <2>2
    <2> QED
      BY <2>3 DEF f, l
  <1> QED
    BY <1>1, <1>2, <1>3, <1>4

\* Paths that agree have the same prefix.
LEMMA SamePrefix ==
    ASSUME NEW p \in Seq(Int), NEW q \in Seq(Int), NEW k \in Nat,
           k <= Len(p), k <= Len(q), \A j \in 1 .. k : p[j] = q[j]
    PROVE  SubSeq(p, 1, k) = SubSeq(q, 1, k)
  <1>1. /\ SubSeq(p, 1, k) \in Seq(Int) /\ Len(SubSeq(p, 1, k)) = k
        /\ SubSeq(q, 1, k) \in Seq(Int) /\ Len(SubSeq(q, 1, k)) = k
    OBVIOUS
  <1>2. ASSUME NEW j \in 1 .. k
        PROVE  SubSeq(p, 1, k)[j] = SubSeq(q, 1, k)[j]
    OBVIOUS
  <1> QED
    BY <1>1, <1>2

LEMMA WholePrefix ==
    ASSUME NEW p \in Seq(Int)
    PROVE  SubSeq(p, 1, Len(p)) = p
  OBVIOUS

\* The prefixes of a path that is extended.
LEMMA ExtendedPrefix ==
    ASSUME NEW p \in Seq(Int), NEW r \in Seq(Int)
    PROVE  /\ p \o r \in Seq(Int) /\ Len(p \o r) = Len(p) + Len(r)
           /\ \A i \in 1 .. Len(p) + 1 :
                 i <= Len(p \o r) => SubSeq(p \o r, 1, i - 1) = SubSeq(p, 1, i - 1)
           /\ \A i \in 1 .. Len(p) : (p \o r)[i] = p[i]
           /\ \A i \in 1 .. Len(r) : (p \o r)[Len(p) + i] = r[i]
  <1> DEFINE a == p \o r
  <1>1. /\ a \in Seq(Int) /\ Len(a) = Len(p) + Len(r)
        /\ \A i \in 1 .. Len(p) : a[i] = p[i]
        /\ \A i \in 1 .. Len(r) : a[Len(p) + i] = r[i]
    OBVIOUS
  <1> HIDE DEF a
  <1>2. ASSUME NEW i \in 1 .. Len(p) + 1, i <= Len(a)
        PROVE  SubSeq(a, 1, i - 1) = SubSeq(p, 1, i - 1)
    <2>1. i - 1 \in Nat /\ i - 1 <= Len(a) /\ i - 1 <= Len(p)
      BY <1>1, <1>2
    <2>2. \A j \in 1 .. i - 1 : a[j] = p[j]
      BY <1>1, <2>1
    <2> QED
      BY <1>1, <2>1, <2>2, SamePrefix
  <1> QED
    BY <1>1, <1>2 DEF a

-----------------------------------------------------------------------------
(***************************************************************************)
(* The order of the plans                                                  *)
(***************************************************************************)

\* The definition in terms of lengths.
LEMMA BeforeFacts ==
    ASSUME NEW p \in Seq(Nat), NEW q \in Seq(Nat)
    PROVE  Before(p, q) <=> \E k \in Nat : /\ 1 <= k /\ k <= Len(p) /\ k <= Len(q)
                                          /\ p[k] < q[k]
                                          /\ \A j \in 1 .. k - 1 : p[j] = q[j]
  <1>1. \A k : k \in DOMAIN p \intersect DOMAIN q <=>
                  k \in Nat /\ 1 <= k /\ k <= Len(p) /\ k <= Len(q)
    OBVIOUS
  <1> QED
    BY <1>1 DEF Before

\* Every step of a path that fits.
LEMMA FitsFacts ==
    ASSUME NEW p \in Seq(Nat), Fits(p), NEW i \in Nat, 1 <= i, i <= Len(p)
    PROVE  SubSeq(p, 1, i - 1) \in DOMAIN tree /\ p[i] \in 0 .. tree[SubSeq(p, 1, i - 1)] - 1
  <1>1. i \in DOMAIN p
    OBVIOUS
  <1> QED
    BY <1>1 DEF Fits

LEMMA BeforeIsStrict ==
    ASSUME NEW p \in Seq(Int)
    PROVE  ~ Before(p, p)
  BY DEF Before

\* Two plans part at a choice point: neither ends where the other goes on.
LEMMA FirstDifference ==
    ASSUME NEW p \in Seq(Int), NEW q \in Seq(Int), Fits(p), Fits(q),
           p \notin DOMAIN tree, q \notin DOMAIN tree, p # q
    PROVE  \E k \in DOMAIN p \intersect DOMAIN q :
              p[k] # q[k] /\ \A j \in 1 .. k - 1 : p[j] = q[j]
  <1> DEFINE D == {k \in 1 .. Len(p) : k <= Len(q) /\ p[k] # q[k]}
  <1>0. Len(p) \in Nat /\ Len(q) \in Nat
    OBVIOUS
  <1>1. ASSUME D # {}
        PROVE  \E k \in DOMAIN p \intersect DOMAIN q :
                  p[k] # q[k] /\ \A j \in 1 .. k - 1 : p[j] = q[j]
    <2>1. D \in SUBSET Nat
      BY <1>0
    <2>2. \E k \in D : \A j \in D : k <= j
      <3> HIDE DEF D
      <3> QED
        BY <1>1, <2>1, Smallest
    <2>3. PICK k \in D : \A j \in D : k <= j
      BY <2>2
    <2>4. k \in 1 .. Len(p) /\ k <= Len(q) /\ p[k] # q[k] /\ k \in Nat
      BY <1>0, <2>3
    <2>5. ASSUME NEW j \in 1 .. k - 1 PROVE p[j] = q[j]
      <3>1. j \in 1 .. Len(p) /\ j <= Len(q) /\ ~ (k <= j)
        BY <1>0, <2>4
      <3>2. j \notin D
        BY <2>3, <3>1
      <3> QED
        BY <3>1, <3>2
    <2>6. k \in DOMAIN p \intersect DOMAIN q
      BY <1>0, <2>4
    <2> QED
      BY <2>4, <2>5, <2>6
  <1>2. ASSUME NEW a \in Seq(Int), NEW b \in Seq(Int), Fits(b), a \notin DOMAIN tree,
               \A j \in 1 .. Len(a) : j <= Len(b) => a[j] = b[j]
        PROVE  Len(b) <= Len(a)
    <2> SUFFICES ASSUME Len(a) < Len(b) PROVE FALSE
      OBVIOUS
    <2> PICK n : n = Len(a)
      OBVIOUS
    <2>1. n \in Nat /\ n < Len(b) /\ n + 1 \in DOMAIN b /\ (n + 1) - 1 = n
      OBVIOUS
    <2>2. \A j \in 1 .. n : a[j] = b[j]
      BY <1>2, <2>1
    <2>3. SubSeq(a, 1, n) = SubSeq(b, 1, n)
      BY <2>1, <2>2, SamePrefix
    <2>4. SubSeq(b, 1, n) = a
      BY <2>3, WholePrefix
    <2>5. SubSeq(b, 1, (n + 1) - 1) \in DOMAIN tree
      BY <1>2, <2>1 DEF Fits
    <2> QED
      BY <1>2, <2>1, <2>4, <2>5
  <1>3. CASE D = {}
    <2>1. \A j \in 1 .. Len(p) : j <= Len(q) => p[j] = q[j]
      BY <1>3
    <2>2. \A j \in 1 .. Len(q) : j <= Len(p) => q[j] = p[j]
      BY <1>0, <2>1
    <2>3. Len(p) = Len(q)
      BY <1>0, <1>2, <2>1, <2>2
    <2>4. \A j \in 1 .. Len(p) : p[j] = q[j]
      BY <1>0, <2>1, <2>3
    <2>5. p = q
      BY <2>3, <2>4
    <2> QED
      BY <2>5
  <1> QED
    BY <1>1, <1>3

\* What advance does to a path, in terms of the position it advances.
LEMMA AdvanceFacts ==
    ASSUME NEW path \in Seq(Nat), NEW num \in Seq(Int), Len(num) = Len(path)
    PROVE  \/ /\ advance(path, num) = << >>
              /\ \A i \in 1 .. Len(path) : path[i] + 1 = num[i]
           \/ \E m \in 1 .. Len(path) :
                 /\ path[m] + 1 # num[m]
                 /\ \A i \in m + 1 .. Len(path) : path[i] + 1 = num[i]
                 /\ advance(path, num) \in Seq(Nat) /\ Len(advance(path, num)) = m
                 /\ advance(path, num)[m] = path[m] + 1
                 /\ \A i \in 1 .. m - 1 : advance(path, num)[i] = path[i]
  <1> DEFINE open == {i \in DOMAIN path : path[i] + 1 # num[i]}
             last == Max(open)
  <1>1. CASE open = {}
    <2>1. advance(path, num) = << >>
      BY <1>1 DEF advance
    <2>2. \A i \in 1 .. Len(path) : path[i] + 1 = num[i]
      <3>1. DOMAIN path = 1 .. Len(path)
        OBVIOUS
      <3> QED
        BY <1>1, <3>1
    <2> QED
      BY <2>1, <2>2
  <1>2. CASE open # {}
    <2>1. advance(path, num) = Append(SubSeq(path, 1, last - 1), path[last] + 1)
      BY <1>2 DEF advance
    <2>2. last \in open /\ \A i \in open : i <= last
      <3>1. open \in SUBSET (0 .. Len(path)) /\ Len(path) \in Nat
        OBVIOUS
      <3> HIDE DEF open
      <3> QED
        BY <1>2, <3>1, MaxFacts
    <2> HIDE DEF last
    <2>3. last \in 1 .. Len(path) /\ Len(path) \in Nat
      BY <2>2
    <2>4. \A i \in last + 1 .. Len(path) : path[i] + 1 = num[i]
      <3> SUFFICES ASSUME NEW i \in last + 1 .. Len(path) PROVE path[i] + 1 = num[i]
        OBVIOUS
      <3>1. i \in DOMAIN path /\ ~ (i <= last)
        BY <2>3
      <3>2. i \notin open
        BY <2>2, <3>1
      <3> QED
        BY <3>1, <3>2
    <2> PICK k, c : k = last - 1 /\ c = path[last] + 1
      OBVIOUS
    <2>5. k \in 0 .. Len(path) /\ c \in Nat
      BY <2>3
    <2>6. /\ SubSeq(path, 1, k) \in Seq(Nat) /\ Len(SubSeq(path, 1, k)) = k
          /\ \A i \in 1 .. k : SubSeq(path, 1, k)[i] = path[i]
      BY <2>5, PrefixFacts
    <2>7. /\ Append(SubSeq(path, 1, k), c) \in Seq(Nat)
          /\ Len(Append(SubSeq(path, 1, k), c)) = k + 1
          /\ \A i \in 1 .. k : Append(SubSeq(path, 1, k), c)[i] = path[i]
          /\ Append(SubSeq(path, 1, k), c)[k + 1] = c
      BY <2>5, <2>6, AppendFacts
    <2>8. path[last] + 1 # num[last]
      BY <2>2
    <2>9. k + 1 = last
      BY <2>3
    <2> QED
      BY <2>1, <2>3, <2>4, <2>7, <2>8, <2>9
  <1> QED
    BY <1>1, <1>2

\* A path that agrees with p up to a position beyond which it takes only last
\* options is p, or comes after it.
LEMMA LastOptions ==
    ASSUME NEW path \in Seq(Nat), Fits(path), path \notin DOMAIN tree,
           NEW p \in Seq(Nat), Fits(p), p \notin DOMAIN tree,
           NEW m \in 0 .. Len(path),
           \A i \in 1 .. m : i <= Len(p) /\ p[i] = path[i],
           \A i \in m + 1 .. Len(path) : path[i] + 1 = tree[SubSeq(path, 1, i - 1)]
    PROVE  Before(p, path) \/ p = path
  <1> SUFFICES ASSUME p # path PROVE Before(p, path)
    OBVIOUS
  <1>1. p \in Seq(Int) /\ path \in Seq(Int)
    OBVIOUS
  <1>2. PICK k \in DOMAIN p \intersect DOMAIN path :
           p[k] # path[k] /\ \A j \in 1 .. k - 1 : p[j] = path[j]
    BY <1>1, FirstDifference
  <1>3. k \in m + 1 .. Len(path) /\ k - 1 \in Nat /\ k - 1 <= Len(p) /\ k - 1 <= Len(path)
    <2>1. ~ (k \in 1 .. m)
      BY <1>2
    <2> QED
      BY <2>1
  <1>4. SubSeq(p, 1, k - 1) = SubSeq(path, 1, k - 1)
    <2> PICK n : n = k - 1
      OBVIOUS
    <2>1. n \in Nat /\ n <= Len(p) /\ n <= Len(path) /\ \A j \in 1 .. n : p[j] = path[j]
      BY <1>2, <1>3
    <2>2. SubSeq(p, 1, n) = SubSeq(path, 1, n)
      BY <1>1, <2>1, SamePrefix
    <2> QED
      BY <2>2
  <1>5. p[k] \in 0 .. tree[SubSeq(p, 1, k - 1)] - 1
    BY <1>2 DEF Fits
  <1>6. path[k] + 1 = tree[SubSeq(path, 1, k - 1)] /\ path[k] \in Nat /\ p[k] \in Nat
    BY <1>3
  <1>7. p[k] < path[k]
    <2> PICK n : n = tree[SubSeq(path, 1, k - 1)]
      OBVIOUS
    <2>1. path[k] + 1 = n /\ p[k] \in 0 .. n - 1
      BY <1>4, <1>5, <1>6
    <2> QED
      BY <1>2, <1>6, <2>1
  <1> QED
    BY <1>2, <1>7 DEF Before

\* The next path is one plan generation can follow, and the only plan that is
\* before it and was not before the last one is the last one itself; when there
\* is no next path the last plan was the last of all.
LEMMA AdvanceOrder ==
    ASSUME NEW path \in Seq(Nat), Fits(path), path \notin DOMAIN tree,
           NEW num \in Seq(Int), Len(num) = Len(path),
           \A i \in DOMAIN path : num[i] = tree[SubSeq(path, 1, i - 1)],
           NEW new, new = advance(path, num)
    PROVE  /\ new \in Seq(Nat) /\ Fits(new)
           /\ \A p \in Seq(Nat) :
                 Fits(p) /\ p \notin DOMAIN tree =>
                    IF new = << >> THEN Before(p, path) \/ p = path
                    ELSE Before(p, new) <=> (Before(p, path) \/ p = path)
  <1>0. DOMAIN path = 1 .. Len(path) /\ Len(path) \in Nat
    OBVIOUS
  <1>1. CASE new = << >> /\ \A i \in 1 .. Len(path) : path[i] + 1 = num[i]
    <2>1. Fits(new) /\ new \in Seq(Nat)
      BY <1>1 DEF Fits
    <2>2. ASSUME NEW p \in Seq(Nat), Fits(p), p \notin DOMAIN tree
          PROVE  Before(p, path) \/ p = path
      <3> PICK m : m = 0
        OBVIOUS
      <3>1. m \in 0 .. Len(path)
        BY <1>0
      <3>2. \A i \in 1 .. m : i <= Len(p) /\ p[i] = path[i]
        OBVIOUS
      <3>3. \A i \in m + 1 .. Len(path) : path[i] + 1 = tree[SubSeq(path, 1, i - 1)]
        <4> SUFFICES ASSUME NEW i \in m + 1 .. Len(path)
                     PROVE  path[i] + 1 = tree[SubSeq(path, 1, i - 1)]
          OBVIOUS
        <4>1. i \in 1 .. Len(path) /\ i \in DOMAIN path
          BY <1>0
        <4> QED
          BY <1>1, <4>1
      <3> QED
        BY <2>2, <3>1, <3>2, <3>3, LastOptions
    <2> QED
      BY <1>1, <2>1, <2>2
  <1>2. ASSUME NEW m \in 1 .. Len(path),
               path[m] + 1 # num[m],
               \A i \in m + 1 .. Len(path) : path[i] + 1 = num[i],
               new \in Seq(Nat), Len(new) = m, new[m] = path[m] + 1,
               \A i \in 1 .. m - 1 : new[i] = path[i]
        PROVE  /\ Fits(new) /\ new # << >>
               /\ \A p \in Seq(Nat) :
                     Fits(p) /\ p \notin DOMAIN tree =>
                        (Before(p, new) <=> (Before(p, path) \/ p = path))
    <2>0. new # << >> /\ DOMAIN new = 1 .. m /\ m \in Nat /\ Len(new) = m
      BY <1>0, <1>2
    <2>1. ASSUME NEW i \in 1 .. m
          PROVE  /\ SubSeq(new, 1, i - 1) \in DOMAIN tree
                 /\ new[i] \in 0 .. tree[SubSeq(new, 1, i - 1)] - 1
      <3> PICK n : n = i - 1
        OBVIOUS
      <3>1. n \in Nat /\ n <= Len(new) /\ n <= Len(path) /\ \A j \in 1 .. n : new[j] = path[j]
        BY <1>0, <1>2
      <3>2. new \in Seq(Int) /\ path \in Seq(Int)
        BY <1>2
      <3>3. SubSeq(new, 1, n) = SubSeq(path, 1, n)
        BY <3>1, <3>2, SamePrefix
      <3>4. i \in DOMAIN path /\ i \in Nat /\ 1 <= i /\ i <= Len(path)
        BY <1>0, <1>2, <2>0
      <3>5. /\ SubSeq(path, 1, n) \in DOMAIN tree
            /\ path[i] \in 0 .. tree[SubSeq(path, 1, n)] - 1
        BY <3>4, FitsFacts
      <3>6. num[i] = tree[SubSeq(path, 1, n)]
        BY <3>4
      <3>8. num[i] \in Int /\ path[i] \in Nat /\ path[i] \in 0 .. num[i] - 1
        <4>1. i \in DOMAIN num
          BY <3>4
        <4> QED
          BY <3>4, <3>5, <3>6, <4>1
      <3>7. new[i] \in 0 .. num[i] - 1
        <4>1. CASE i = m
          BY <1>2, <3>8, <4>1
        <4>2. CASE i # m
          <5>1. i \in 1 .. m - 1
            BY <2>0, <4>2
          <5> QED
            BY <1>2, <3>8, <5>1
        <4> QED
          BY <4>1, <4>2
      <3> QED
        BY <3>3, <3>5, <3>6, <3>7
    <2>2. Fits(new)
      BY <2>0, <2>1 DEF Fits
    <2>3. ASSUME NEW p \in Seq(Nat), Fits(p), p \notin DOMAIN tree, Before(p, new)
          PROVE  Before(p, path) \/ p = path
      <3>0. Len(p) \in Nat
        OBVIOUS
      <3>1. PICK k \in Nat : /\ 1 <= k /\ k <= Len(p) /\ k <= m
                             /\ p[k] < new[k]
                             /\ \A j \in 1 .. k - 1 : p[j] = new[j]
        BY <1>2, <2>3, BeforeFacts
      <3>2. \A j \in 1 .. k - 1 : p[j] = path[j]
        <4> SUFFICES ASSUME NEW j \in 1 .. k - 1 PROVE p[j] = path[j]
          OBVIOUS
        <4>1. j \in 1 .. m - 1
          BY <2>0, <3>1
        <4> QED
          BY <1>2, <3>1, <4>1
      <3>3. CASE p[k] < path[k]
        <4>1. k <= Len(path)
          BY <1>0, <2>0, <3>1
        <4> QED
          BY <3>1, <3>2, <3>3, <4>1, BeforeFacts
      <3>4. CASE ~ (p[k] < path[k])
        <4>1. k = m
          <5> SUFFICES ASSUME k # m PROVE FALSE
            OBVIOUS
          <5>1. k \in 1 .. m - 1
            BY <2>0, <3>1
          <5> QED
            BY <1>2, <3>1, <3>4, <5>1
        <4>2. p[m] = path[m]
          <5>1. p[m] \in Nat /\ path[m] \in Nat
            BY <1>0, <3>0, <3>1, <4>1
          <5>2. new[m] = path[m] + 1
            BY <1>2
          <5>3. p[m] < new[m] /\ ~ (p[m] < path[m])
            BY <3>1, <3>4, <4>1
          <5> QED
            BY <5>1, <5>2, <5>3
        <4>3. \A i \in 1 .. m : i <= Len(p) /\ p[i] = path[i]
          BY <2>0, <3>0, <3>1, <3>2, <4>1, <4>2
        <4>4. m \in 0 .. Len(path)
          BY <1>0
        <4>5. \A i \in m + 1 .. Len(path) : path[i] + 1 = tree[SubSeq(path, 1, i - 1)]
          <5> SUFFICES ASSUME NEW i \in m + 1 .. Len(path)
                       PROVE  path[i] + 1 = tree[SubSeq(path, 1, i - 1)]
            OBVIOUS
          <5>1. i \in DOMAIN path
            BY <1>0, <2>0
          <5> QED
            BY <1>2, <5>1
        <4> QED
          BY <2>3, <4>3, <4>4, <4>5, LastOptions
      <3> QED
        BY <3>3, <3>4
    <2>4. ASSUME NEW p \in Seq(Nat), Before(p, path) \/ p = path
          PROVE  Before(p, new)
      <3>0. Len(p) \in Nat /\ path[m] \in Nat /\ path[m] < new[m]
            /\ 1 <= m /\ m <= Len(path)
        BY <1>0, <1>2, <2>0
      <3>1. CASE p = path
        <4>1. /\ m \in Nat /\ 1 <= m /\ m <= Len(p) /\ m <= Len(new) /\ p[m] < new[m]
              /\ \A j \in 1 .. m - 1 : p[j] = new[j]
          BY <1>2, <2>0, <3>0, <3>1
        <4> QED
          BY <1>2, <4>1, BeforeFacts
      <3>2. CASE Before(p, path)
        <4>1. PICK k \in Nat : /\ 1 <= k /\ k <= Len(p) /\ k <= Len(path)
                               /\ p[k] < path[k]
                               /\ \A j \in 1 .. k - 1 : p[j] = path[j]
          BY <3>2, BeforeFacts
        <4>2. CASE k <= m
          <5>1. p[k] < new[k]
            <6>1. CASE k = m
              <7>1. p[k] \in Nat
                BY <3>0, <4>1
              <7>2. p[k] < path[m] /\ path[m] \in Nat /\ new[k] = path[m] + 1
                BY <1>2, <3>0, <4>1, <6>1
              <7> QED
                BY <7>1, <7>2
            <6>2. CASE k # m
              <7>1. k \in 1 .. m - 1
                BY <2>0, <4>1, <4>2, <6>2
              <7>2. new[k] = path[k]
                BY <1>2, <7>1
              <7> QED
                BY <4>1, <7>2
            <6> QED
              BY <6>1, <6>2
          <5>2. \A j \in 1 .. k - 1 : p[j] = new[j]
            BY <1>2, <2>0, <4>1, <4>2
          <5>3. k <= Len(new)
            BY <1>2, <4>2
          <5> QED
            BY <1>2, <4>1, <5>1, <5>2, <5>3, BeforeFacts
        <4>3. CASE ~ (k <= m)
          <5>0. m < k /\ k <= Len(p) /\ m \in Nat /\ 1 <= m
            BY <2>0, <3>0, <4>1, <4>3
          <5>1. m \in 1 .. k - 1 /\ m <= Len(p) /\ m <= Len(new)
            BY <2>0, <3>0, <5>0
          <5>2. p[m] = path[m]
            BY <4>1, <5>1
          <5>3. \A j \in 1 .. m - 1 : p[j] = new[j]
            BY <1>2, <2>0, <4>1, <4>3
          <5>4. p[m] < new[m]
            BY <3>0, <5>2
          <5> QED
            BY <1>2, <2>0, <3>0, <5>1, <5>3, <5>4, BeforeFacts
        <4> QED
          BY <4>2, <4>3
      <3> QED
        BY <2>4, <3>1, <3>2
    <2> QED
      BY <2>0, <2>2, <2>3, <2>4
  <1> QED
    BY <1>1, <1>2, AdvanceFacts

-----------------------------------------------------------------------------
(***************************************************************************)
(* The plans of a query                                                    *)
(***************************************************************************)

LEMMA QueryFacts ==
    ASSUME TypeInv
    PROVE  /\ query.maxPlans \in Nat /\ MaxOptions \in Nat /\ PLAN_MAX_COST \in Nat
           /\ Rounds \in Nat \ {0} /\ NoPlan \notin Seq(Int)
           /\ NoPlan \notin [plan : Seq(Int), cost : Int]
           /\ \A c \in query.costs : c \in Int /\ c < PLAN_MAX_COST
           /\ \A p \in DOMAIN tree : /\ p \in Seq(Nat) /\ p \in Seq(Int)
                                     /\ tree[p] \in 1 .. MaxOptions /\ tree[p] \in Int
                                     /\ Fits(p)
  <1>1. query \in Query
    BY DEF TypeInv
  <1>2. IsTree(query.tree)
    BY <1>1, OptimizerAssumption
  <1>3. \A p \in DOMAIN tree : p \in Seq(Nat) /\ tree[p] \in 1 .. MaxOptions /\ Fits(p)
    BY <1>2 DEF IsTree, tree, Fits
  <1>4. \A p \in Seq(Nat) : p \in Seq(Int)
    OBVIOUS
  <1> QED
    BY <1>1, <1>3, <1>4, OptimizerAssumption

\* The plans of the query are the paths of options that end.
LEMMA PlansFit ==
    ASSUME TypeInv, NEW p
    PROVE  p \in plansOf(tree) <=> p \in Seq(Nat) /\ Fits(p) /\ p \notin DOMAIN tree
  <1>1. ASSUME p \in plansOf(tree)
        PROVE  p \in Seq(Nat) /\ Fits(p) /\ p \notin DOMAIN tree
    <2>1. CASE DOMAIN tree = {}
      <3>1. p = << >>
        BY <1>1, <2>1 DEF plansOf, endsOf
      <3> QED
        BY <2>1, <3>1 DEF Fits
    <2>2. CASE DOMAIN tree # {}
      <3>1. p \in endsOf(tree) /\ (p # << >> => Last(p) \in 0 .. tree[Front(p)] - 1)
        BY <1>1 DEF plansOf
      <3>2. PICK q \in DOMAIN tree, c \in answers(query.maxPlans) :
               p = Append(q, c) /\ p \notin DOMAIN tree
        BY <2>2, <3>1 DEF endsOf
      <3>3. q \in Seq(Nat) /\ q \in Seq(Int) /\ tree[q] \in Int /\ Fits(q) /\ c \in Int
        BY QueryFacts DEF answers
      <3>4. p # << >> /\ Front(p) = q /\ Last(p) = c
        BY <3>2, <3>3, AppendFacts
      <3>5. c \in 0 .. tree[q] - 1 /\ c \in Nat
        BY <3>1, <3>3, <3>4
      <3>6. p \in Seq(Nat) /\ p = q \o << c >> /\ << c >> \in Seq(Int)
            /\ p \in Seq(Int) /\ Len(p) = Len(q) + 1 /\ Len(q) \in Nat
            /\ p[Len(q) + 1] = c /\ \A i \in 1 .. Len(q) : p[i] = q[i]
        BY <3>2, <3>3, <3>5
      <3>7. ASSUME NEW i \in 1 .. Len(q) + 1
            PROVE  /\ SubSeq(p, 1, i - 1) \in DOMAIN tree
                   /\ p[i] \in 0 .. tree[SubSeq(p, 1, i - 1)] - 1
        <4> PICK n : n = i - 1
          OBVIOUS
        <4>1. n \in Nat /\ n <= Len(p) /\ n <= Len(q) /\ \A j \in 1 .. n : p[j] = q[j]
          BY <3>6
        <4>2. SubSeq(p, 1, n) = SubSeq(q, 1, n)
          BY <3>3, <3>6, <4>1, SamePrefix
        <4>3. CASE i = Len(q) + 1
          <5>1. n = Len(q) /\ SubSeq(q, 1, n) = q
            BY <3>3, <3>6, <4>3, WholePrefix
          <5> QED
            BY <3>5, <3>6, <4>2, <4>3, <5>1
        <4>4. CASE i # Len(q) + 1
          <5>1. i \in Nat /\ 1 <= i /\ i <= Len(q) /\ i \in 1 .. Len(q)
            BY <3>6, <4>4
          <5>2. /\ SubSeq(q, 1, i - 1) \in DOMAIN tree
                /\ q[i] \in 0 .. tree[SubSeq(q, 1, i - 1)] - 1
            BY <3>3, <5>1, FitsFacts
          <5> QED
            BY <3>6, <4>2, <5>1, <5>2
        <4> QED
          BY <4>3, <4>4
      <3>8. DOMAIN p = 1 .. Len(q) + 1
        BY <3>6
      <3>9. Fits(p)
        BY <3>7, <3>8 DEF Fits
      <3> QED
        BY <3>2, <3>6, <3>9
    <2> QED
      BY <2>1, <2>2
  <1>2. ASSUME p \in Seq(Nat), Fits(p), p \notin DOMAIN tree
        PROVE  p \in plansOf(tree)
    <2>1. CASE p = << >>
      <3>1. ASSUME NEW q \in DOMAIN tree PROVE FALSE
        <4>1. q \in Seq(Nat) /\ Fits(q)
          BY QueryFacts
        <4>2. q # << >>
          BY <1>2, <2>1
        <4>3. 1 \in Nat /\ 1 <= 1 /\ 1 <= Len(q)
          BY <4>1, <4>2
        <4> PICK k : k = 1
          OBVIOUS
        <4>4. SubSeq(q, 1, k - 1) \in DOMAIN tree
          BY <4>1, <4>3, FitsFacts
        <4>5. SubSeq(q, 1, k - 1) = << >>
          BY <4>1
        <4> QED
          BY <1>2, <2>1, <4>4, <4>5
      <3>2. DOMAIN tree = {}
        BY <3>1
      <3>3. p \in endsOf(tree)
        BY <2>1, <3>2 DEF endsOf
      <3> QED
        BY <2>1, <3>3 DEF plansOf
    <2>2. CASE p # << >>
      <3>1. /\ Len(p) \in Nat \ {0} /\ p = Append(Front(p), Last(p))
            /\ Last(p) = p[Len(p)]
        BY <1>2, <2>2, FrontFacts
      <3>2. /\ SubSeq(p, 1, Len(p) - 1) \in DOMAIN tree
            /\ p[Len(p)] \in 0 .. tree[SubSeq(p, 1, Len(p) - 1)] - 1
        BY <1>2, <3>1, FitsFacts
      <3>3. Front(p) \in DOMAIN tree /\ Last(p) \in 0 .. tree[Front(p)] - 1
        BY <3>1, <3>2 DEF Front
      <3>4. Last(p) \in answers(query.maxPlans)
        <4>1. /\ tree[Front(p)] \in 1 .. MaxOptions /\ MaxOptions \in Nat
              /\ query.maxPlans \in Nat
          BY <3>3, QueryFacts
        <4> QED
          BY <3>3, <4>1 DEF answers
      <3>5. p \in {Append(q, c) : q \in DOMAIN tree, c \in answers(query.maxPlans)}
        BY <3>1, <3>3, <3>4
      <3>6. p \in endsOf(tree)
        BY <1>2, <3>3, <3>5 DEF endsOf
      <3> QED
        BY <3>3, <3>6 DEF plansOf
    <2> QED
      BY <2>1, <2>2
  <1> QED
    BY <1>1, <1>2

\* What plan generation ends with is a plan the search may build ...
LEMMA EndsHere ==
    ASSUME TypeInv, PlanInv, pc = "next"
    PROVE  taken \in endsOf(tree)
  <1>1. taken \notin DOMAIN tree /\ taken \in Seq(Int)
    BY DEF PlanInv, isComplete, TypeInv
  <1>2. CASE taken = << >>
    <2>1. << >> \in Seq(Nat) /\ Fits(<< >>)
      BY DEF Fits
    <2>2. << >> \in plansOf(tree)
      BY <1>1, <1>2, <2>1, PlansFit
    <2> QED
      BY <1>2, <2>2 DEF plansOf
  <1>3. CASE taken # << >>
    <2>1. Front(taken) \in DOMAIN tree /\ Last(taken) \in answers(query.maxPlans)
      BY <1>3 DEF PlanInv
    <2>2. taken = Append(Front(taken), Last(taken))
      BY <1>1, <1>3, FrontFacts
    <2> QED
      BY <1>1, <2>1, <2>2 DEF endsOf
  <1> QED
    BY <1>2, <1>3

\* ... and an answer of the callback leads plan generation one step on.
LEMMA FollowFacts ==
    ASSUME TypeInv, ~ isComplete(taken), NEW choice \in answers(query.maxPlans),
           follow(choice)
    PROVE  \E c \in answers(query.maxPlans) :
              /\ taken' = Append(taken, c) /\ taken' \in Seq(Int)
              /\ taken' # << >> /\ Front(taken') = taken /\ Last(taken') = c
              /\ choice \in 0 .. tree[taken] - 1 => c = choice
  <1>1. taken \in DOMAIN tree /\ taken \in Seq(Int)
    BY DEF isComplete, TypeInv
  <1>2. tree[taken] \in 1 .. MaxOptions /\ MaxOptions \in Nat /\ query.maxPlans \in Nat
    BY <1>1, QueryFacts
  <1>3. PICK c : /\ taken' = Append(taken, c)
                 /\ \/ c = choice
                    \/ choice \notin 0 .. tree[taken] - 1 /\ c \in 0 .. tree[taken] - 1
    BY DEF follow, numOptions
  <1>4. c \in answers(query.maxPlans) /\ c \in Int
    BY <1>2, <1>3 DEF answers
  <1> QED
    BY <1>1, <1>3, <1>4, AppendFacts

-----------------------------------------------------------------------------
(***************************************************************************)
(* The numbers in the intervals of the balanced search                     *)
(***************************************************************************)

LEMMA MoreElements ==
    ASSUME NEW A, NEW B, A \subseteq B
    PROVE  Seq(A) \subseteq Seq(B)
  OBVIOUS

LEMMA AnswerFacts ==
    ASSUME NEW k \in Nat
    PROVE  /\ answers(k) \subseteq Int /\ answers(k) \subseteq answers(k + 1)
           /\ \A x \in -2 .. MaxOptions : x \in answers(k)
           /\ \A x \in answers(k) : x + 1 \in answers(k + 1) /\ x - 1 \in answers(k + 1)
           /\ Seq(answers(k)) \subseteq Seq(answers(k + 1))
           /\ Seq(answers(k)) \subseteq Seq(Int)
           /\ \A m \in Nat : k <= m => answers(k) \subseteq answers(m)
           /\ MaxOptions \in Nat
  <1>1. MaxOptions \in Nat
    BY OptimizerAssumption
  <1>2. /\ answers(k) \subseteq Int /\ answers(k) \subseteq answers(k + 1)
        /\ \A x \in -2 .. MaxOptions : x \in answers(k)
        /\ \A x \in answers(k) : x + 1 \in answers(k + 1) /\ x - 1 \in answers(k + 1)
        /\ \A m \in Nat : k <= m => answers(k) \subseteq answers(m)
    BY <1>1 DEF answers
  <1> QED
    BY <1>1, <1>2, MoreElements

LEMMA ElementFacts ==
    ASSUME NEW S, NEW p \in Seq(S)
    PROVE  \A j \in DOMAIN p : p[j] \in S
  OBVIOUS

LEMMA SubSequence ==
    ASSUME NEW S, NEW p \in Seq(S)
    PROVE  removeFromHead(p) \in Seq(S)
  BY DEF removeFromHead

LEMMA HeadAnswers ==
    ASSUME NEW k \in Nat, NEW p \in Seq(answers(k))
    PROVE  getHead(p) \in answers(k)
  <1>1. -1 \in answers(k)
    BY AnswerFacts
  <1>2. p # << >> => Head(p) \in answers(k)
    OBVIOUS
  <1> QED
    BY <1>1, <1>2 DEF getHead

LEMMA CommonPrefixType ==
    ASSUME NEW l \in Seq(Int), NEW h \in Seq(Int)
    PROVE  commonPrefixLength(l, h) \in Nat
  <1> DEFINE agree(j) == \A i \in 1 .. j : l[i] = h[i]
             T == {j \in 0 .. Min({Len(l), Len(h)}) : agree(j)}
  <1>1. Len(l) \in Nat /\ Len(h) \in Nat
    OBVIOUS
  <1>2. Min({Len(l), Len(h)}) \in Nat
    <2>1. \E x \in {Len(l), Len(h)} : \A y \in {Len(l), Len(h)} : x <= y
      BY <1>1
    <2> QED
      BY <1>1, <2>1 DEF Min
  <1> PICK n : n = Min({Len(l), Len(h)})
    OBVIOUS
  <1>3. n \in Nat /\ T = {j \in 0 .. n : agree(j)}
    BY <1>2
  <1>4. 0 \in T
    BY <1>3
  <1>5. T \in SUBSET (0 .. n)
    BY <1>3
  <1>6. Max(T) \in T
    <2> HIDE DEF T
    <2> QED
      BY <1>3, <1>4, <1>5, MaxFacts
  <1>7. commonPrefixLength(l, h) = Max(T)
    BY DEF commonPrefixLength
  <1> QED
    BY <1>3, <1>6, <1>7

LEMMA OptionsAtType ==
    ASSUME NEW path, NEW num \in Seq(1 .. MaxOptions), NEW i
    PROVE  optionsAt(path, num, i) \in -1 .. MaxOptions
  <1>1. MaxOptions \in Nat
    BY OptimizerAssumption
  <1>2. \A j \in DOMAIN num : num[j] \in 1 .. MaxOptions
    BY ElementFacts
  <1> QED
    BY <1>1, <1>2 DEF optionsAt

\* A neighbour of a path moves its numbers by at most one.
LEMMA NeighbourType ==
    ASSUME NEW k \in Nat, NEW path \in Seq(answers(k)), NEW num \in Seq(1 .. MaxOptions)
    PROVE  /\ addOne(path, num) \in Seq(answers(k + 1))
           /\ minusOne(path, num) \in Seq(answers(k + 1))
  <1>1. DOMAIN path = 1 .. Len(path) /\ Len(path) \in Nat
        /\ \A i \in DOMAIN path : path[i] \in answers(k)
    OBVIOUS
  <1>2. /\ 0 \in answers(k + 1) /\ << >> \in Seq(answers(k + 1))
        /\ \A i \in DOMAIN path : /\ path[i] \in answers(k + 1)
                                  /\ path[i] + 1 \in answers(k + 1)
                                  /\ path[i] - 1 \in answers(k + 1)
    <2>1. -2 .. MaxOptions \subseteq answers(k + 1) /\ 0 \in -2 .. MaxOptions
      BY AnswerFacts
    <2> QED
      BY <1>1, <2>1, AnswerFacts
  <1>3. \A i : optionsAt(path, num, i) - 1 \in answers(k + 1)
    <2> SUFFICES ASSUME NEW i PROVE optionsAt(path, num, i) - 1 \in answers(k + 1)
      OBVIOUS
    <2>1. optionsAt(path, num, i) \in -1 .. MaxOptions
      BY OptionsAtType
    <2>2. -2 .. MaxOptions \subseteq answers(k + 1) /\ MaxOptions \in Nat
      BY AnswerFacts
    <2> PICK n : n = optionsAt(path, num, i)
      OBVIOUS
    <2>3. n - 1 \in -2 .. MaxOptions
      BY <2>1, <2>2
    <2> QED
      BY <2>2, <2>3
  <1>4. ASSUME NEW f, DOMAIN f = DOMAIN path, f = [i \in DOMAIN path |-> f[i]],
               \A i \in DOMAIN path : f[i] \in answers(k + 1)
        PROVE  f \in Seq(answers(k + 1))
    BY <1>1, <1>4
  <1>5. addOne(path, num) \in Seq(answers(k + 1))
    <2> DEFINE open == {i \in DOMAIN path : path[i] + 1 # optionsAt(path, num, i)}
               f == [i \in DOMAIN path |-> IF i < Max(open) THEN path[i]
                                           ELSE IF i = Max(open) THEN path[i] + 1 ELSE 0]
    <2>1. \A i \in DOMAIN path : f[i] \in answers(k + 1)
      <3> SUFFICES ASSUME NEW i \in DOMAIN path PROVE f[i] \in answers(k + 1)
        OBVIOUS
      <3>1. f[i] = path[i] \/ f[i] = path[i] + 1 \/ f[i] = 0
        OBVIOUS
      <3> QED
        BY <1>2, <3>1
    <2>2. f \in Seq(answers(k + 1))
      BY <1>4, <2>1
    <2>3. addOne(path, num) = IF open = {} THEN << >> ELSE f
      BY DEF addOne
    <2> QED
      BY <1>2, <2>2, <2>3
  <1>6. minusOne(path, num) \in Seq(answers(k + 1))
    <2> DEFINE open == {i \in DOMAIN path : path[i] # 0}
               f == [i \in DOMAIN path |->
                        IF i < Max(open) THEN path[i]
                        ELSE IF i = Max(open) THEN path[i] - 1
                             ELSE optionsAt(path, num, i) - 1]
    <2>1. \A i \in DOMAIN path : f[i] \in answers(k + 1)
      <3> SUFFICES ASSUME NEW i \in DOMAIN path PROVE f[i] \in answers(k + 1)
        OBVIOUS
      <3>1. f[i] = path[i] \/ f[i] = path[i] - 1 \/ f[i] = optionsAt(path, num, i) - 1
        OBVIOUS
      <3> QED
        BY <1>2, <1>3, <3>1
    <2>2. f \in Seq(answers(k + 1))
      BY <1>4, <2>1
    <2>3. minusOne(path, num) = IF open = {} THEN << >> ELSE f
      BY DEF minusOne
    <2> QED
      BY <1>2, <2>2, <2>3
  <1> QED
    BY <1>5, <1>6

LEMMA IntervalFields ==
    ASSUME NEW S, NEW bl \in IntervalOf(S)
    PROVE  /\ bl.begin \in S /\ bl.end \in S /\ bl.helpPath \in S /\ bl.helpEnd \in S
           /\ bl.lhFlag \in Int /\ bl.numContinues \in Int /\ bl.previousLH \in Int
           /\ bl.helpFlag \in Int
  BY SMT DEF IntervalOf

LEMMA IntervalUpdates ==
    ASSUME NEW S, NEW bl \in IntervalOf(S), NEW p \in S, NEW q \in S, NEW v \in Int
    PROVE  /\ [bl EXCEPT !.helpFlag = v] \in IntervalOf(S)
           /\ [bl EXCEPT !.begin = p] \in IntervalOf(S)
           /\ [bl EXCEPT !.helpPath = p] \in IntervalOf(S)
           /\ [bl EXCEPT !.numContinues = v] \in IntervalOf(S)
           /\ [bl EXCEPT !.previousLH = v] \in IntervalOf(S)
           /\ [bl EXCEPT !.helpPath = p, !.helpEnd = q] \in IntervalOf(S)
           /\ [bl EXCEPT !.helpEnd = p, !.helpFlag = v] \in IntervalOf(S)
  <1>1. [bl EXCEPT !.helpFlag = v] \in IntervalOf(S)
    BY Zenon DEF IntervalOf
  <1>2. [bl EXCEPT !.begin = p] \in IntervalOf(S)
    BY Zenon DEF IntervalOf
  <1>3. [bl EXCEPT !.helpPath = p] \in IntervalOf(S)
    BY Zenon DEF IntervalOf
  <1>4. [bl EXCEPT !.numContinues = v] \in IntervalOf(S)
    BY Zenon DEF IntervalOf
  <1>5. [bl EXCEPT !.previousLH = v] \in IntervalOf(S)
    BY Zenon DEF IntervalOf
  <1>6. [bl EXCEPT !.helpPath = p, !.helpEnd = q] \in IntervalOf(S)
    BY Zenon DEF IntervalOf
  <1>7. [bl EXCEPT !.helpEnd = p, !.helpFlag = v] \in IntervalOf(S)
    BY Zenon DEF IntervalOf
  <1> QED
    BY <1>1, <1>2, <1>3, <1>4, <1>5, <1>6, <1>7

LEMMA IntervalGrows ==
    ASSUME NEW k \in Nat
    PROVE  Interval(k) \subseteq Interval(k + 1) /\ EmptyInterval \in Interval(k)
  <1> DEFINE S == Seq(answers(k))
             R == Seq(answers(k + 1))
  <1>1. S \subseteq R /\ << >> \in S
    BY AnswerFacts
  <1> HIDE DEF S, R
  <1>2. IntervalOf(S) \subseteq IntervalOf(R)
    BY <1>1, Zenon DEF IntervalOf
  <1>3. EmptyInterval \in IntervalOf(S)
    BY <1>1, SMT DEF IntervalOf, EmptyInterval
  <1> QED
    BY <1>2, <1>3 DEF Interval, S, R

LEMMA CopyType ==
    ASSUME NEW k \in Nat, NEW bl \in Interval(k)
    PROVE  /\ copyBalancedInterval(bl) \in Interval(k)
           /\ [bl EXCEPT !.helpFlag = 0] \in Interval(k)
  <1> DEFINE S == Seq(answers(k))
  <1>1. << >> \in S /\ 0 \in Int /\ bl \in IntervalOf(S)
    BY DEF Interval
  <1> HIDE DEF S
  <1>2. [bl EXCEPT !.helpEnd = << >>, !.helpFlag = 0] \in IntervalOf(S)
    BY <1>1, IntervalUpdates
  <1>3. [bl EXCEPT !.helpFlag = 0] \in IntervalOf(S)
    BY <1>1, IntervalUpdates
  <1> QED
    BY <1>2, <1>3 DEF copyBalancedInterval, Interval, S

LEMMA NewIntervalType ==
    ASSUME NEW k \in Nat, NEW begin \in Seq(answers(k)), NEW end \in Seq(answers(k)),
           NEW lhFlag \in Int, numChoices \in Seq(1 .. MaxOptions)
    PROVE  newInterval(lhFlag, begin, end) \in Interval(k + 1)
  <1> DEFINE R == Seq(answers(k + 1))
             common == commonPrefixLength(begin, end)
             interval(flag, help) ==
                [EmptyInterval EXCEPT !.lhFlag = flag, !.begin = begin, !.end = end,
                                      !.numContinues = common,
                                      !.helpPath = help, !.helpEnd = end]
  <1>1. begin \in R /\ end \in R /\ << >> \in R
    BY AnswerFacts
  <1>2. addOne(begin, numChoices) \in R /\ minusOne(end, numChoices) \in R
    BY NeighbourType
  <1>3. common \in Int
    <2>1. begin \in Seq(Int) /\ end \in Seq(Int)
      BY AnswerFacts
    <2> QED
      BY <2>1, CommonPrefixType
  <1>4. ASSUME NEW flag \in Int, NEW help \in R
        PROVE  interval(flag, help) \in IntervalOf(R)
    <2> HIDE DEF R, common
    <2>1. EmptyInterval \in IntervalOf(R)
      BY <1>1, SMT DEF IntervalOf, EmptyInterval
    <2> HIDE DEF interval
    <2>2. ASSUME NEW e \in IntervalOf(R)
          PROVE  [e EXCEPT !.lhFlag = flag, !.begin = begin, !.end = end,
                           !.numContinues = common, !.helpPath = help, !.helpEnd = end]
                    \in IntervalOf(R)
      BY <1>1, <1>3, <1>4, Zenon DEF IntervalOf
    <2> QED
      BY <2>1, <2>2 DEF interval
  <1>5. \/ newInterval(lhFlag, begin, end) = interval(2, addOne(begin, numChoices))
        \/ newInterval(lhFlag, begin, end) = interval(3, minusOne(end, numChoices))
        \/ newInterval(lhFlag, begin, end) = interval(4, addOne(begin, numChoices))
        \/ newInterval(lhFlag, begin, end) = interval(5, minusOne(end, numChoices))
        \/ newInterval(lhFlag, begin, end) = interval(lhFlag, begin)
    BY DEF newInterval
  <1> HIDE DEF interval, R
  <1>6. newInterval(lhFlag, begin, end) \in IntervalOf(R)
    BY <1>1, <1>2, <1>4, <1>5
  <1> QED
    BY <1>6 DEF R, Interval

LEMMA SplitType ==
    ASSUME NEW k \in Nat, NEW bl \in Interval(k), curPath \in Seq(answers(k)),
           numChoices \in Seq(1 .. MaxOptions)
    PROVE  splitInterval(bl) \in Seq(Interval(k + 1))
  <1>1. bl.begin \in Seq(answers(k)) /\ bl.end \in Seq(answers(k))
    BY IntervalFields DEF Interval
  <1>2. /\ newInterval(0, bl.begin, curPath) \in Interval(k + 1)
        /\ newInterval(1, curPath, bl.end) \in Interval(k + 1)
    BY <1>1, NewIntervalType
  <1> DEFINE left == IF curPath = addOne(bl.begin, numChoices) THEN << >>
                     ELSE << newInterval(0, bl.begin, curPath) >>
             right == IF bl.end = addOne(curPath, numChoices) THEN << >>
                      ELSE << newInterval(1, curPath, bl.end) >>
  <1>3. left \in Seq(Interval(k + 1)) /\ right \in Seq(Interval(k + 1))
    <2> PICK l, r, J : /\ l = newInterval(0, bl.begin, curPath)
                       /\ r = newInterval(1, curPath, bl.end)
                       /\ J = Interval(k + 1)
      OBVIOUS
    <2>1. << >> \in Seq(J) /\ << l >> \in Seq(J) /\ << r >> \in Seq(J)
      BY <1>2
    <2>2. (left = << >> \/ left = << l >>) /\ (right = << >> \/ right = << r >>)
      OBVIOUS
    <2> HIDE DEF left, right
    <2> QED
      BY <2>1, <2>2
  <1>4. splitInterval(bl) = left \o right
    BY DEF splitInterval
  <1> HIDE DEF left, right
  <1> QED
    BY <1>3, <1>4

LEMMA BalancedNextType ==
    ASSUME NEW k \in Nat, NEW b \in Balance(k), curPath \in Seq(answers(k)),
           numChoices \in Seq(1 .. MaxOptions)
    PROVE  balancedNext(b) \in Balance(k + 1)
  <1> DEFINE I == Interval(k + 1)
             bl == [b.bl EXCEPT !.helpFlag = 0]
             whole == [bl EXCEPT !.end = curPath, !.helpPath = bl.begin, !.helpEnd = curPath,
                             !.numContinues = commonPrefixLength(bl.begin, curPath)]
             fifo == removeFromHead(b.fifo \o splitInterval(bl))
  <1>1. b.bl \in Interval(k) /\ b.fifo \in Seq(Interval(k)) /\ b.count \in Nat
    BY DEF Balance
  <1>2. bl \in Interval(k) /\ Interval(k) \subseteq I
    BY <1>1, CopyType, IntervalGrows
  <1>3. b.fifo \in Seq(I) /\ bl \in I
    BY <1>1, <1>2
  <1>4. whole \in I /\ [bl EXCEPT !.begin = curPath] \in I
    <2> DEFINE S == Seq(answers(k))
               n == commonPrefixLength(bl.begin, curPath)
    <2>1. bl \in IntervalOf(S)
      BY <1>2 DEF Interval
    <2> HIDE DEF bl
    <2>2. curPath \in S /\ bl.begin \in S
      BY <2>1, IntervalFields
    <2>3. n \in Int
      <3>1. curPath \in Seq(Int) /\ bl.begin \in Seq(Int)
        BY <2>2, AnswerFacts
      <3> QED
        BY <3>1, CommonPrefixType
    <2> HIDE DEF S, n
    <2>4. ASSUME NEW p \in S
          PROVE  [bl EXCEPT !.end = curPath, !.helpPath = p, !.helpEnd = curPath,
                            !.numContinues = n] \in IntervalOf(S)
      BY <2>1, <2>2, <2>3, Zenon DEF IntervalOf
    <2>5. [bl EXCEPT !.end = curPath, !.helpPath = bl.begin, !.helpEnd = curPath,
                     !.numContinues = n] \in IntervalOf(S)
      BY <2>2, <2>4, Zenon
    <2>6. [bl EXCEPT !.begin = curPath] \in IntervalOf(S)
      BY <2>1, <2>2, Zenon DEF IntervalOf
    <2> QED
      BY <1>2, <2>5, <2>6 DEF n, S, Interval
  <1>5. copyBalancedInterval(whole) \in I
    <2>1. k + 1 \in Nat
      OBVIOUS
    <2> HIDE DEF whole
    <2> QED
      BY <1>4, <2>1, CopyType
  <1>6. fifo \in Seq(I)
    <2>1. splitInterval(bl) \in Seq(I)
      <3> HIDE DEF bl
      <3> QED
        BY <1>2, SplitType
    <2>2. b.fifo \o splitInterval(bl) \in Seq(I)
      <3> HIDE DEF I, bl
      <3> QED
        BY <1>3, <2>1
    <2> HIDE DEF I, bl
    <2> QED
      BY <2>2, SubSequence
  <1>7. fifo # << >> => copyBalancedInterval(Head(fifo)) \in I
    <2>1. fifo # << >> => Head(fifo) \in I
      <3> HIDE DEF I, fifo
      <3> QED
        BY <1>6
    <2>2. k + 1 \in Nat
      OBVIOUS
    <2> HIDE DEF fifo
    <2> QED
      BY <2>1, <2>2, CopyType
  <1>8. \/ balancedNext(b) = [count |-> 2, fifo |-> b.fifo,
                              bl |-> [bl EXCEPT !.begin = curPath]]
        \/ balancedNext(b) = [count |-> 3, bl |-> whole,
                              fifo |-> Append(b.fifo, copyBalancedInterval(whole))]
        \/ fifo = << >> /\ balancedNext(b) = [count |-> b.count + 1, fifo |-> fifo, bl |-> bl]
        \/ fifo # << >> /\ balancedNext(b) = [count |-> b.count + 1, fifo |-> fifo,
                              bl |-> copyBalancedInterval(Head(fifo))]
    <2>1. CASE b.count = 1
      BY <2>1 DEF balancedNext
    <2>2. CASE b.count # 1 /\ b.count = 2
      BY <2>2 DEF balancedNext
    <2>3. CASE b.count # 1 /\ b.count # 2
      <3>1. balancedNext(b) = [count |-> b.count + 1, fifo |-> fifo,
                               bl |-> IF fifo = << >> THEN bl
                                      ELSE copyBalancedInterval(Head(fifo))]
        BY <2>3 DEF balancedNext
      <3> HIDE DEF fifo, bl
      <3> QED
        BY <3>1
    <2> QED
      BY <2>1, <2>2, <2>3
  <1>9. Append(b.fifo, copyBalancedInterval(whole)) \in Seq(I)
    <2> HIDE DEF I, whole
    <2> QED
      BY <1>3, <1>5
  <1> HIDE DEF I, bl, whole, fifo
  <1>10. Balance(k + 1) = [count : Nat, fifo : Seq(I), bl : I]
    BY DEF Balance, I
  <1>11. b.count + 1 \in Nat /\ 2 \in Nat /\ 3 \in Nat
    BY <1>1
  <1> QED
    BY <1>3, <1>4, <1>6, <1>7, <1>8, <1>9, <1>10, <1>11

\* What the balanced search answers, and what it leaves of the interval.
LEMMA ChoiceType ==
    ASSUME NEW k \in Nat, NEW bl \in Interval(k), NEW n \in 1 .. MaxOptions
    PROVE  /\ intervalChoice(bl, n).choice \in answers(k)
           /\ intervalChoice(bl, n).bl \in Interval(k)
  <1> DEFINE S == Seq(answers(k))
             I == IntervalOf(S)
             head == getHead(bl.helpPath)
             len == getHead(bl.helpEnd) - head
             used == [bl EXCEPT !.helpPath = removeFromHead(@),
                                !.helpEnd = removeFromHead(@)]
             answer(c, rec, help) ==
                [choice |-> c, recorded |-> rec,
                 bl |-> [used EXCEPT !.previousLH = c, !.helpFlag = help]]
             Good(r) == r.choice \in answers(k) /\ r.bl \in I
  <1>1. /\ bl \in I /\ bl.helpPath \in S /\ bl.helpEnd \in S
        /\ bl.numContinues \in Int /\ bl.helpFlag \in Int
    <2>1. bl \in I
      BY DEF Interval
    <2> QED
      BY <2>1, IntervalFields
  <1>2. head \in answers(k) /\ getHead(bl.helpEnd) \in answers(k)
    BY <1>1, HeadAnswers
  <1>3. /\ len \div 2 \in answers(k) /\ (n - 1) \div 2 \in answers(k)
        /\ n - 1 \in answers(k) /\ 0 \in answers(k)
    <2> PICK a, b : a = head /\ b = getHead(bl.helpEnd)
      OBVIOUS
    <2>1. MaxOptions \in Nat
      BY AnswerFacts
    <2>2. (b - a) \div 2 \in answers(k)
      BY <1>2, <2>1 DEF answers
    <2>3. /\ (n - 1) \div 2 \in answers(k)
          /\ n - 1 \in answers(k) /\ 0 \in answers(k)
      BY <2>1 DEF answers
    <2> QED
      BY <2>2, <2>3
  <1>4. removeFromHead(bl.helpPath) \in S /\ removeFromHead(bl.helpEnd) \in S
    BY <1>1, SubSequence
  <1>5. used \in I
    BY <1>1, <1>4, Zenon DEF IntervalOf
  <1>6. ASSUME NEW c \in answers(k), NEW rec, NEW help \in Int
        PROVE  Good(answer(c, rec, help))
    <2>1. c \in Int
      BY <1>6, AnswerFacts
    <2> HIDE DEF used, S
    <2>2. [used EXCEPT !.previousLH = c, !.helpFlag = help] \in I
      BY <1>5, <2>1, <1>6, Zenon DEF IntervalOf
    <2> HIDE DEF I
    <2> QED
      BY <2>2, <1>6
  <1> DEFINE fixed == [choice |-> head, recorded |-> TRUE,
                       bl |-> [bl EXCEPT !.helpPath = removeFromHead(@)]]
             along == [choice |-> head, recorded |-> TRUE,
                       bl |-> [used EXCEPT !.numContinues = @ - 1]]
  <1>7. Good(fixed)
    <2> HIDE DEF S
    <2>1. [bl EXCEPT !.helpPath = removeFromHead(@)] \in I
      BY <1>1, <1>4, Zenon DEF IntervalOf
    <2> HIDE DEF I, head
    <2> QED
      BY <2>1, <1>2
  <1>8. Good(along)
    <2>1. used.numContinues \in Int
      <3> HIDE DEF used, S
      <3> QED
        BY <1>5, IntervalFields
    <2>2. used.numContinues - 1 \in Int
      BY <2>1
    <2> HIDE DEF S, used
    <2>3. [used EXCEPT !.numContinues = @ - 1] \in I
      BY <1>5, <2>2, Zenon DEF IntervalOf
    <2> HIDE DEF I, head
    <2> QED
      BY <2>3, <1>2
  <1>9. \/ intervalChoice(bl, n) = fixed
        \/ intervalChoice(bl, n) = along
        \/ intervalChoice(bl, n) = answer(len \div 2, TRUE, 1)
        \/ intervalChoice(bl, n) = answer((n - 1) \div 2, TRUE, bl.helpFlag)
        \/ intervalChoice(bl, n) = answer(len \div 2, TRUE, bl.helpFlag)
        \/ intervalChoice(bl, n) = answer(0, FALSE, bl.helpFlag)
        \/ intervalChoice(bl, n) = answer(0, TRUE, bl.helpFlag)
        \/ intervalChoice(bl, n) = answer(n - 1, TRUE, bl.helpFlag)
    <2> DEFINE first == bl.previousLH = -1
               low == (first /\ bl.lhFlag = 0) \/ (~first /\ bl.previousLH = 1)
    <2>1. CASE bl.lhFlag >= 2
      BY <2>1 DEF intervalChoice
    <2>2. CASE ~ (bl.lhFlag >= 2) /\ bl.lhFlag < 2 /\ bl.numContinues > 0
      BY <2>2 DEF intervalChoice
    <2>3. CASE ~ (bl.lhFlag >= 2) /\ ~ (bl.lhFlag < 2 /\ bl.numContinues > 0)
      <3>1. CASE first /\ bl.helpFlag = 0 /\ isMiddle(len)
        BY <2>3, <3>1 DEF intervalChoice
      <3>2. CASE /\ ~ (first /\ bl.helpFlag = 0 /\ isMiddle(len))
                 /\ first /\ bl.helpFlag = 1 /\ n > 2 /\ n % 2 # 0
        BY <2>3, <3>2 DEF intervalChoice
      <3>3. CASE ~ first /\ isMiddle(len)
        BY <2>3, <3>3 DEF intervalChoice
      <3>4. CASE ~ first /\ ~ isMiddle(len) /\ bl.previousLH \notin {0, 1}
        BY <2>3, <3>4 DEF intervalChoice
      <3>5. CASE /\ ~ (first /\ bl.helpFlag = 0 /\ isMiddle(len))
                 /\ ~ (first /\ bl.helpFlag = 1 /\ n > 2 /\ n % 2 # 0)
                 /\ ~ (~ first /\ isMiddle(len))
                 /\ ~ (~ first /\ ~ isMiddle(len) /\ bl.previousLH \notin {0, 1})
        <4>1. CASE low
          BY <2>3, <3>5, <4>1 DEF intervalChoice
        <4>2. CASE ~ low
          BY <2>3, <3>5, <4>2 DEF intervalChoice
        <4> QED
          BY <4>1, <4>2
      <3> QED
        BY <3>1, <3>2, <3>3, <3>4, <3>5
    <2> QED
      BY <2>1, <2>2, <2>3
  <1> HIDE DEF answer, fixed, along, len
  <1>10. Good(intervalChoice(bl, n))
    <2> HIDE DEF Good
    <2>1. 1 \in Int /\ bl.helpFlag \in Int
      BY <1>1
    <2>2. /\ Good(answer(len \div 2, TRUE, 1))
          /\ Good(answer((n - 1) \div 2, TRUE, bl.helpFlag))
          /\ Good(answer(len \div 2, TRUE, bl.helpFlag))
          /\ Good(answer(0, FALSE, bl.helpFlag))
          /\ Good(answer(0, TRUE, bl.helpFlag))
          /\ Good(answer(n - 1, TRUE, bl.helpFlag))
      BY <1>3, <1>6, <2>1, Zenon
    <2> QED
      BY <1>7, <1>8, <1>9, <2>2, Zenon
  <1> QED
    BY <1>10 DEF Interval

-----------------------------------------------------------------------------
(***************************************************************************)
(* The steps of the search                                                 *)
(***************************************************************************)

\* No step changes the query.
LEMMA SameQuery ==
    ASSUME query' = query, plugin' = plugin
    PROVE  /\ tree' = tree /\ plansOf(tree)' = plansOf(tree) /\ endsOf(tree)' = endsOf(tree)
           /\ exhaustiveSearch' = exhaustiveSearch
  BY DEF tree, plansOf, endsOf, exhaustiveSearch

\* Most steps leave what was considered alone.
LEMMA SameHistory ==
    ASSUME considered' = considered
    PROVE  Considered' = Considered /\ Blind' = Blind
  BY DEF Considered, Blind

LEMMA StartKeeps ==
    ASSUME IInv, startPlan
    PROVE  IInv'
  <1>1. /\ pc = "loop" /\ pc' = "plan" /\ taken' = << >> /\ planCount <= query.maxPlans
        /\ UNCHANGED << query, plugin, fixedPath, curPath, numChoices, currentPlan,
                        currentCost, bestPlan, bestPlanCost, planCount, anneal, bal, built >>
    BY DEF startPlan, shouldContinue, exhaustiveContinueOptimization, optState
  <1>2. /\ considered' = considered /\ Considered' = Considered /\ Blind' = Blind
        /\ tree' = tree /\ plansOf(tree)' = plansOf(tree)
        /\ exhaustiveSearch' = exhaustiveSearch
    <2>1. considered' = considered
      BY <1>1 DEF considered
    <2> QED
      BY <1>1, <2>1, SameHistory, SameQuery
  <1>3. TypeInv'
    BY <1>1 DEF IInv, TypeInv
  <1>4. PlanInv'
    BY <1>1 DEF PlanInv
  <1>5. CostInv'
    BY <1>1, <1>2 DEF IInv, CostInv
  <1>6. AnnealInv' /\ BalancedInv'
    BY <1>1 DEF IInv, AnnealInv, BalancedInv
  <1>7. exhaustiveSearch => /\ position' = position /\ position = fixedPath
                            /\ position \in Seq(Nat)
    BY <1>1 DEF IInv, ReplayInv, position
  <1>8. ReplayInv'
    <2> SUFFICES ASSUME exhaustiveSearch PROVE ReplayInv'
      BY <1>2 DEF ReplayInv
    <2>1. /\ {position, fixedPath, curPath} \subseteq Seq(Nat)
          /\ curPath = << >> /\ numChoices = << >> /\ Fits(position)
      BY <1>1 DEF IInv, ReplayInv
    <2>2. Fits(position)'
      BY <1>2, <1>7, <2>1 DEF Fits
    <2> QED
      BY <1>1, <1>7, <2>1, <2>2 DEF ReplayInv
  <1>9. EnumInv'
    <2> SUFFICES ASSUME exhaustiveSearch PROVE EnumInv'
      BY <1>2 DEF EnumInv
    <2>1. /\ IsFiniteSet(Considered)
          /\ Considered = {p \in plansOf(tree) : Before(p, position)}
          /\ Cardinality(Considered) = planCount
      BY <1>1 DEF IInv, EnumInv
    <2> QED
      BY <1>1, <1>2, <1>7, <2>1 DEF EnumInv
  <1> QED
    BY <1>3, <1>4, <1>5, <1>6, <1>8, <1>9 DEF IInv

LEMMA StopKeeps ==
    ASSUME IInv, stopLoop
    PROVE  IInv'
  <1>1. /\ pc \in {"break", "loop"} /\ pc' = "done"
        /\ UNCHANGED << query, plugin, taken, fixedPath, curPath, numChoices, currentPlan,
                        currentCost, bestPlan, bestPlanCost, planCount, anneal, bal, built >>
    BY DEF stopLoop, optState
  <1>2. /\ considered' = considered /\ Considered' = Considered /\ Blind' = Blind
        /\ exhaustiveSearch' = exhaustiveSearch
    <2>1. considered' = considered
      BY <1>1 DEF considered
    <2> QED
      BY <1>1, <2>1, SameHistory, SameQuery
  <1>3. TypeInv' /\ PlanInv'
    BY <1>1 DEF IInv, TypeInv, PlanInv
  <1>4. CostInv'
    BY <1>1, <1>2 DEF IInv, CostInv
  <1>5. AnnealInv' /\ BalancedInv'
    BY <1>1 DEF IInv, AnnealInv, BalancedInv
  <1>6. ReplayInv'
    <2> SUFFICES ASSUME exhaustiveSearch PROVE ReplayInv'
      BY <1>2 DEF ReplayInv
    <2>1. {fixedPath, curPath} \subseteq Seq(Nat)
      BY DEF IInv, ReplayInv
    <2> QED
      BY <1>1, <2>1 DEF ReplayInv
  <1>7. EnumInv'
    BY <1>1, <1>2 DEF IInv, EnumInv
  <1> QED
    BY <1>3, <1>4, <1>5, <1>6, <1>7 DEF IInv

LEMMA FinishKeeps ==
    ASSUME IInv, NEW cost \in query.costs, finishPlan(cost)
    PROVE  IInv'
  <1>1. /\ pc = "plan" /\ pc' = "next" /\ isComplete(taken)
        /\ currentPlan' = taken /\ currentCost' = cost
        /\ built' = Append(built, [plan |-> taken, cost |-> cost])
        /\ UNCHANGED << query, plugin, taken, fixedPath, curPath, numChoices,
                        bestPlan, bestPlanCost, planCount, anneal, bal >>
    BY DEF finishPlan
  <1>2. cost \in Int /\ taken \in Seq(Int)
    BY QueryFacts DEF IInv, TypeInv
  <1>3. /\ built' \in Seq([plan : Seq(Int), cost : Int]) /\ built' # << >>
        /\ Front(built') = built /\ Last(built') = [plan |-> taken, cost |-> cost]
    <2> DEFINE r == [plan |-> taken, cost |-> cost]
               R == [plan : Seq(Int), cost : Int]
    <2>1. r \in R
      BY <1>2
    <2>2. built \in Seq(R)
      BY DEF IInv, TypeInv
    <2> HIDE DEF r, R
    <2>3. /\ Append(built, r) \in Seq(R) /\ Append(built, r) # << >>
          /\ Front(Append(built, r)) = built /\ Last(Append(built, r)) = r
      BY <2>1, <2>2, AppendFacts
    <2> QED
      BY <1>1, <2>3 DEF r, R
  <1>4. /\ considered' = considered /\ Considered' = Considered /\ Blind' = Blind
        /\ tree' = tree /\ plansOf(tree)' = plansOf(tree)
        /\ exhaustiveSearch' = exhaustiveSearch
    <2>1. considered' = considered
      BY <1>1, <1>3 DEF considered
    <2> QED
      BY <1>1, <2>1, SameHistory, SameQuery
  <1>5. TypeInv'
    BY <1>1, <1>3 DEF IInv, TypeInv
  <1>6. PlanInv'
    BY <1>1, <1>4 DEF IInv, PlanInv, isComplete, answers
  <1>7. CostInv'
    BY <1>1, <1>3, <1>4 DEF IInv, CostInv
  <1>8. AnnealInv' /\ BalancedInv'
    BY <1>1 DEF IInv, AnnealInv, BalancedInv
  <1>9. position' = position
    BY <1>1 DEF position
  <1>10. ReplayInv'
    <2> SUFFICES ASSUME exhaustiveSearch PROVE ReplayInv'
      BY <1>4 DEF ReplayInv
    <2>1. /\ {position, fixedPath, curPath} \subseteq Seq(Nat) /\ Fits(position)
          /\ curPath = taken /\ Len(numChoices) = Len(taken)
          /\ \A i \in DOMAIN taken : numChoices[i] = tree[SubSeq(taken, 1, i - 1)]
      BY <1>1 DEF IInv, ReplayInv
    <2>2. Fits(position)'
      BY <1>4, <1>9, <2>1 DEF Fits
    <2>3. fixedPath = << >>
      <3> SUFFICES ASSUME fixedPath # << >> PROVE FALSE
        OBVIOUS
      <3>1. taken \in Seq(Int) /\ fixedPath \in Seq(Int) /\ Len(fixedPath) >= 1
            /\ Len(taken) \in Nat /\ position = taken \o fixedPath
        BY <1>1, <1>2, <2>1 DEF position
      <3> PICK i : i = Len(taken) + 1
        OBVIOUS
      <3>2. i \in Nat /\ 1 <= i /\ i <= Len(position) /\ SubSeq(position, 1, i - 1) = taken
        BY <3>1, ExtendedPrefix, WholePrefix
      <3>3. taken \in DOMAIN tree
        BY <2>1, <3>2, FitsFacts
      <3> QED
        BY <1>1, <3>3 DEF isComplete
    <2> QED
      BY <1>1, <1>4, <1>9, <2>1, <2>2, <2>3 DEF ReplayInv
  <1>11. EnumInv'
    <2> SUFFICES ASSUME exhaustiveSearch PROVE EnumInv'
      BY <1>4 DEF EnumInv
    <2>1. /\ IsFiniteSet(Considered)
          /\ Considered = {p \in plansOf(tree) : Before(p, position)}
          /\ Cardinality(Considered) = planCount
      BY <1>1 DEF IInv, EnumInv
    <2> QED
      BY <1>1, <1>4, <1>9, <2>1 DEF EnumInv
  <1> QED
    BY <1>5, <1>6, <1>7, <1>8, <1>10, <1>11 DEF IInv

\* What every callback keeps: an answer leads on from a choice point.
LEMMA CallbackKeeps ==
    ASSUME IInv, pc = "plan", pc' = "plan", ~ isComplete(taken),
           NEW choice \in answers(query.maxPlans), follow(choice),
           numChoices' = Append(numChoices, numOptions(taken)),
           UNCHANGED << query, plugin, bestPlan, bestPlanCost, planCount, anneal, built >>
    PROVE  /\ TypeInv' /\ PlanInv' /\ CostInv'
           /\ considered' = considered /\ Considered' = Considered /\ tree' = tree
           /\ plansOf(tree)' = plansOf(tree) /\ exhaustiveSearch' = exhaustiveSearch
           /\ taken \in DOMAIN tree /\ taken \in Seq(Int) /\ tree[taken] \in 1 .. MaxOptions
           /\ choice \in 0 .. tree[taken] - 1 => taken' = Append(taken, choice)
  <1>1. TypeInv
    BY DEF IInv
  <1>2. PICK c \in answers(query.maxPlans) :
           /\ taken' = Append(taken, c) /\ taken' \in Seq(Int)
           /\ taken' # << >> /\ Front(taken') = taken /\ Last(taken') = c
           /\ choice \in 0 .. tree[taken] - 1 => c = choice
    BY <1>1, FollowFacts
  <1>3. taken \in DOMAIN tree /\ taken \in Seq(Int) /\ tree[taken] \in 1 .. MaxOptions
    BY <1>1, QueryFacts DEF isComplete, TypeInv
  <1>4. considered' = considered
    BY DEF considered
  <1>5. /\ Considered' = Considered /\ Blind' = Blind /\ tree' = tree
        /\ plansOf(tree)' = plansOf(tree) /\ exhaustiveSearch' = exhaustiveSearch
    BY <1>4, SameHistory, SameQuery
  <1>6. TypeInv'
    <2>1. numChoices' \in Seq(1 .. MaxOptions)
      BY <1>1, <1>3 DEF TypeInv, numOptions
    <2> QED
      BY <1>1, <1>2, <2>1 DEF TypeInv
  <1>7. PlanInv'
    <2>1. answers(query.maxPlans)' = answers(query.maxPlans)
      BY DEF answers
    <2> QED
      BY <1>2, <1>3, <1>5, <2>1 DEF PlanInv
  <1>8. CostInv'
    BY <1>4, <1>5 DEF IInv, CostInv
  <1> QED
    BY <1>2, <1>3, <1>4, <1>5, <1>6, <1>7, <1>8

\* The options of a query are answers.
LEMMA OptionsAreAnswers ==
    ASSUME TypeInv
    PROVE  -2 .. MaxOptions \subseteq answers(query.maxPlans)
  <1>1. query.maxPlans \in Nat
    BY QueryFacts
  <1> QED
    BY <1>1, AnswerFacts

LEMMA AppendedPrefix ==
    ASSUME NEW p \in Seq(Int), NEW c \in Int
    PROVE  /\ \A i \in 1 .. Len(p) + 1 : SubSeq(Append(p, c), 1, i - 1) = SubSeq(p, 1, i - 1)
           /\ SubSeq(p, 1, Len(p)) = p
  <1>1. Append(p, c) = p \o << c >> /\ << c >> \in Seq(Int) /\ Len(<< c >>) = 1
    OBVIOUS
  <1>2. \A i \in 1 .. Len(p) + 1 : SubSeq(p \o << c >>, 1, i - 1) = SubSeq(p, 1, i - 1)
    BY <1>1, ExtendedPrefix
  <1> QED
    BY <1>1, <1>2, WholePrefix

LEMMA RestOf ==
    ASSUME NEW S, NEW f \in Seq(S), f # << >>
    PROVE  /\ removeFromHead(f) = Tail(f) /\ Tail(f) \in Seq(S) /\ Head(f) \in S
           /\ f = << Head(f) >> \o Tail(f)
  <1>1. Len(f) \in Nat \ {0} /\ Head(f) \in S /\ Tail(f) \in Seq(S) /\ Len(Tail(f)) = Len(f) - 1
    OBVIOUS
  <1>2. Len(f) = 1 => Tail(f) = << >>
    <2> PICK t : t = Tail(f)
      OBVIOUS
    <2>1. t \in Seq(S) /\ Len(t) = Len(f) - 1
      BY <1>1
    <2> QED
      BY <2>1
  <1>3. removeFromHead(f) = Tail(f)
    BY <1>1, <1>2 DEF removeFromHead
  <1>4. f = << Head(f) >> \o Tail(f)
    OBVIOUS
  <1> QED
    BY <1>1, <1>3, <1>4

\* The path ahead is followed option by option ...
LEMMA PathAhead ==
    ASSUME NEW S, NEW p \in Seq(S), NEW f \in Seq(S), f # << >>
    PROVE  Append(p, Head(f)) \o removeFromHead(f) = p \o f
  <1>1. /\ removeFromHead(f) = Tail(f) /\ Tail(f) \in Seq(S) /\ Head(f) \in S
        /\ f = << Head(f) >> \o Tail(f)
    BY RestOf
  <1>2. Append(p, Head(f)) = p \o << Head(f) >> /\ << Head(f) >> \in Seq(S)
    BY <1>1, AppendIsConcat
  <1>3. (p \o << Head(f) >>) \o Tail(f) = p \o (<< Head(f) >> \o Tail(f))
    BY <1>1, <1>2, ConcatAssociative
  <1> QED
    BY <1>1, <1>2, <1>3, Zenon

\* ... and leaves the options it may take in the tree.
LEMMA FitsOneMore ==
    ASSUME NEW p \in Seq(Nat), Fits(p), p \in DOMAIN tree, NEW c \in 0 .. tree[p] - 1
    PROVE  Fits(Append(p, c))
  <1> PICK a : a = Append(p, c)
    OBVIOUS
  <1>1. p \in Seq(Int) /\ c \in Int /\ c \in Nat
    OBVIOUS
  <1>2. a \in Seq(Nat) /\ Len(a) = Len(p) + 1 /\ a[Len(p) + 1] = c
        /\ \A i \in 1 .. Len(p) : a[i] = p[i]
    BY <1>1
  <1>3. /\ \A i \in 1 .. Len(p) + 1 : SubSeq(a, 1, i - 1) = SubSeq(p, 1, i - 1)
        /\ SubSeq(p, 1, Len(p)) = p
    BY <1>1, AppendedPrefix
  <1>4. ASSUME NEW i \in DOMAIN a
        PROVE  /\ SubSeq(a, 1, i - 1) \in DOMAIN tree
               /\ a[i] \in 0 .. tree[SubSeq(a, 1, i - 1)] - 1
    <2>1. i \in Nat /\ 1 <= i /\ i <= Len(p) + 1 /\ Len(p) \in Nat
      BY <1>2
    <2> PICK q, r : q = SubSeq(a, 1, i - 1) /\ r = SubSeq(p, 1, i - 1)
      OBVIOUS
    <2>2. q = r
      BY <1>3, <2>1
    <2>3. CASE i = Len(p) + 1
      <3>1. r = p
        BY <1>3, <2>1, <2>3
      <3> QED
        BY <1>2, <2>2, <2>3, <3>1
    <2>4. CASE i # Len(p) + 1
      <3>1. i \in 1 .. Len(p)
        BY <2>1, <2>4
      <3>2. r \in DOMAIN tree /\ p[i] \in 0 .. tree[r] - 1
        BY <3>1, FitsFacts
      <3> QED
        BY <1>2, <2>2, <3>1, <3>2
    <2> QED
      BY <2>3, <2>4
  <1> QED
    BY <1>4 DEF Fits

\* No path lies before the first option but what lies before its choice point.
LEMMA FirstOption ==
    ASSUME NEW p \in Seq(Nat), NEW q \in Seq(Nat)
    PROVE  Before(p, Append(q, 0)) <=> Before(p, q)
  <1> PICK a : a = Append(q, 0)
    OBVIOUS
  <1>1. a \in Seq(Nat) /\ Len(a) = Len(q) + 1 /\ a[Len(q) + 1] = 0
        /\ \A i \in 1 .. Len(q) : a[i] = q[i]
    OBVIOUS
  <1>2. ASSUME Before(p, a) PROVE Before(p, q)
    <2>1. PICK k \in Nat : /\ 1 <= k /\ k <= Len(p) /\ k <= Len(a)
                           /\ p[k] < a[k] /\ \A j \in 1 .. k - 1 : p[j] = a[j]
      BY <1>1, <1>2, BeforeFacts
    <2>2. p[k] \in Nat
      BY <2>1
    <2>3. k # Len(q) + 1
      BY <1>1, <2>1, <2>2
    <2>4. k <= Len(q) /\ p[k] < q[k] /\ \A j \in 1 .. k - 1 : p[j] = q[j]
      BY <1>1, <2>1, <2>3
    <2> QED
      BY <2>1, <2>4, BeforeFacts
  <1>3. ASSUME Before(p, q) PROVE Before(p, a)
    <2>1. PICK k \in Nat : /\ 1 <= k /\ k <= Len(p) /\ k <= Len(q)
                           /\ p[k] < q[k] /\ \A j \in 1 .. k - 1 : p[j] = q[j]
      BY <1>3, BeforeFacts
    <2>2. k <= Len(a) /\ p[k] < a[k] /\ \A j \in 1 .. k - 1 : p[j] = a[j]
      BY <1>1, <2>1
    <2> QED
      BY <1>1, <2>1, <2>2, BeforeFacts
  <1> QED
    BY <1>2, <1>3

LEMMA ExhaustiveCallbackKeeps ==
    ASSUME IInv, exhaustiveCallback
    PROVE  IInv'
  <1> DEFINE choice == IF fixedPath = << >> THEN 0 ELSE Head(fixedPath)
  <1>1. /\ pc = "plan" /\ pc' = "plan" /\ exhaustiveSearch /\ ~ isComplete(taken)
        /\ fixedPath' = removeFromHead(fixedPath)
        /\ curPath' = Append(curPath, choice)
        /\ numChoices' = Append(numChoices, numOptions(taken))
        /\ follow(choice)
        /\ UNCHANGED << query, plugin, bestPlan, bestPlanCost, planCount, anneal, bal,
                        built >>
    BY DEF exhaustiveCallback, exhaustiveSearch
  <1>2. /\ fixedPath \in Seq(Nat) /\ position \in Seq(Nat) /\ Fits(position)
        /\ position = taken \o fixedPath
        /\ taken \in Seq(Nat) /\ curPath = taken /\ Len(numChoices) = Len(taken)
        /\ \A i \in DOMAIN taken : numChoices[i] = tree[SubSeq(taken, 1, i - 1)]
        /\ taken \in Seq(Int)
    BY <1>1 DEF IInv, ReplayInv, position, TypeInv
  <1>3. taken \in DOMAIN tree /\ tree[taken] \in 1 .. MaxOptions /\ MaxOptions \in Nat
    BY <1>1, QueryFacts DEF IInv, isComplete
  <1>4. choice \in 0 .. tree[taken] - 1
    <2>1. CASE fixedPath = << >>
      BY <1>3, <2>1
    <2>2. CASE fixedPath # << >>
      <3>1. /\ Len(fixedPath) \in Nat \ {0} /\ Len(taken) \in Nat
            /\ fixedPath \in Seq(Int) /\ Head(fixedPath) = fixedPath[1]
        BY <1>2, <2>2
      <3> PICK i : i = Len(taken) + 1
        OBVIOUS
      <3>2. /\ i \in Nat /\ 1 <= i /\ i <= Len(position)
            /\ SubSeq(position, 1, i - 1) = taken /\ position[i] = fixedPath[1]
        BY <1>2, <3>1, ExtendedPrefix, WholePrefix
      <3>3. /\ SubSeq(position, 1, i - 1) \in DOMAIN tree
            /\ position[i] \in 0 .. tree[SubSeq(position, 1, i - 1)] - 1
        BY <1>2, <3>2, FitsFacts
      <3>4. fixedPath[1] \in 0 .. tree[taken] - 1
        BY <3>2, <3>3
      <3> QED
        BY <2>2, <3>1, <3>4
    <2> QED
      BY <2>1, <2>2
  <1> HIDE DEF choice
  <1>5. choice \in answers(query.maxPlans) /\ choice \in Nat /\ choice \in Int
    <2>1. choice \in -2 .. MaxOptions
      BY <1>3, <1>4
    <2> QED
      BY <1>3, <1>4, <2>1, OptionsAreAnswers DEF IInv
  <1>6. /\ TypeInv' /\ PlanInv' /\ CostInv'
        /\ considered' = considered /\ Considered' = Considered /\ tree' = tree
        /\ plansOf(tree)' = plansOf(tree) /\ exhaustiveSearch' = exhaustiveSearch
        /\ taken' = Append(taken, choice)
    BY <1>1, <1>4, <1>5, CallbackKeeps
  <1>7. AnnealInv' /\ BalancedInv'
    BY <1>1 DEF exhaustiveSearch, AnnealInv, BalancedInv
  <1>8. position' = taken' \o fixedPath'
    BY <1>1 DEF position
  <1>9. taken' \in Seq(Nat) /\ fixedPath' \in Seq(Nat)
    <2>1. removeFromHead(fixedPath) \in Seq(Nat)
      BY <1>2, SubSequence
    <2> QED
      BY <1>1, <1>2, <1>5, <1>6, <2>1
  <1>10. /\ position' \in Seq(Nat)
         /\ Fits(position')
         /\ \A p \in Seq(Nat) : Before(p, position') <=> Before(p, position)
    <2>1. CASE fixedPath = << >>
      <3>1. fixedPath' = << >> /\ choice = 0 /\ position = taken
        BY <1>1, <1>2, <2>1 DEF removeFromHead, choice
      <3>2. position' = Append(taken, 0)
        BY <1>6, <1>8, <1>9, <3>1
      <3>3. Fits(Append(taken, 0))
        BY <1>2, <1>3, <1>4, <3>1, FitsOneMore
      <3> QED
        BY <1>2, <3>1, <3>2, <3>3, FirstOption
    <2>2. CASE fixedPath # << >>
      <3>1. choice = Head(fixedPath)
        BY <2>2 DEF choice
      <3>2. Append(taken, Head(fixedPath)) \o removeFromHead(fixedPath) = taken \o fixedPath
        BY <1>2, <2>2, PathAhead
      <3>3. position' = position
        BY <1>1, <1>2, <1>6, <1>8, <3>1, <3>2
      <3> QED
        BY <1>2, <3>3
    <2> QED
      BY <2>1, <2>2
  <1>11. /\ curPath' = taken' /\ Len(numChoices') = Len(taken')
         /\ \A i \in DOMAIN taken' : numChoices'[i] = tree[SubSeq(taken', 1, i - 1)]
    <2> PICK t, n : t = taken' /\ n = numChoices'
      OBVIOUS
    <2>1. /\ t \in Seq(Nat) /\ Len(t) = Len(taken) + 1 /\ Len(taken) \in Nat
          /\ \A i \in 1 .. Len(taken) + 1 : SubSeq(t, 1, i - 1) = SubSeq(taken, 1, i - 1)
          /\ SubSeq(taken, 1, Len(taken)) = taken
      BY <1>2, <1>5, <1>6, AppendedPrefix
    <2>2. numChoices \in Seq(Int) /\ tree[taken] \in Int
      BY <1>3 DEF IInv, TypeInv
    <2>3. /\ Len(n) = Len(taken) + 1 /\ n[Len(taken) + 1] = tree[taken]
          /\ \A i \in 1 .. Len(taken) : n[i] = numChoices[i]
      BY <1>1, <1>2, <2>1, <2>2 DEF numOptions
    <2>4. ASSUME NEW i \in DOMAIN t
          PROVE  n[i] = tree[SubSeq(t, 1, i - 1)]
      <3>1. i \in 1 .. Len(taken) + 1
        BY <2>1
      <3>2. SubSeq(t, 1, i - 1) = SubSeq(taken, 1, i - 1)
        BY <2>1, <3>1
      <3>3. CASE i = Len(taken) + 1
        <4>1. i - 1 = Len(taken)
          BY <2>1, <3>3
        <4> QED
          BY <2>1, <2>3, <3>2, <3>3, <4>1
      <3>4. CASE i # Len(taken) + 1
        <4>1. i \in 1 .. Len(taken) /\ i \in DOMAIN taken
          BY <1>2, <2>1, <3>1, <3>4
        <4> QED
          BY <1>2, <2>3, <3>2, <4>1
      <3> QED
        BY <3>3, <3>4
    <2>5. curPath' = taken'
      BY <1>1, <1>2, <1>6
    <2> QED
      BY <2>1, <2>3, <2>4, <2>5
  <1>12. ReplayInv'
    <2>1. Fits(position)'
      BY <1>6, <1>10 DEF Fits
    <2> QED
      BY <1>1, <1>6, <1>9, <1>10, <1>11, <2>1 DEF ReplayInv
  <1>13. EnumInv'
    <2>1. /\ IsFiniteSet(Considered) /\ Cardinality(Considered) = planCount
          /\ Considered = {p \in plansOf(tree) : Before(p, position)}
      BY <1>1 DEF IInv, EnumInv
    <2>2. \A p \in plansOf(tree) : Before(p, position') <=> Before(p, position)
      BY <1>10, PlansFit DEF IInv
    <2>3. Considered = {p \in plansOf(tree) : Before(p, position')}
      BY <2>1, <2>2
    <2> QED
      BY <1>1, <1>6, <2>1, <2>3 DEF EnumInv
  <1> QED
    BY <1>6, <1>7, <1>12, <1>13 DEF IInv

LEMMA SimannCallbackKeeps ==
    ASSUME IInv, simannCallback
    PROVE  IInv'
  <1> DEFINE S == -1 .. MaxOptions
  <1>1. PICK recorded \in (IF fixedPath = << >> THEN 0 .. numOptions(taken) - 1
                                               ELSE {Head(fixedPath)}) :
           /\ curPath' = Append(curPath, recorded)
           /\ follow(IF fixedPath = << >> THEN 0 ELSE recorded)
    BY DEF simannCallback
  <1>2. /\ pc = "plan" /\ pc' = "plan" /\ plugin = "sim_ann" /\ ~ isComplete(taken)
        /\ fixedPath' = removeFromHead(fixedPath)
        /\ numChoices' = Append(numChoices, numOptions(taken))
        /\ UNCHANGED << query, plugin, bestPlan, bestPlanCost, planCount, anneal, bal,
                        built >>
    BY DEF simannCallback
  <1>3. {fixedPath, curPath, anneal.previousPath} \subseteq Seq(S)
    BY <1>2 DEF IInv, AnnealInv
  <1>4. tree[taken] \in 1 .. MaxOptions /\ MaxOptions \in Nat
    BY <1>2, QueryFacts DEF IInv, isComplete
  <1>5. recorded \in S
    <2>1. CASE fixedPath = << >>
      BY <1>4, <2>1 DEF numOptions
    <2>2. CASE fixedPath # << >>
      <3>1. Head(fixedPath) \in S
        <4> HIDE DEF S
        <4> QED
          BY <1>3, <2>2
      <3> QED
        BY <2>2, <3>1
    <2> QED
      BY <2>1, <2>2
  <1> DEFINE choice == IF fixedPath = << >> THEN 0 ELSE recorded
  <1>6. choice \in answers(query.maxPlans)
    <2>1. choice \in -2 .. MaxOptions
      BY <1>4, <1>5
    <2> QED
      BY <2>1, OptionsAreAnswers DEF IInv
  <1>7. follow(choice)
    BY <1>1
  <1> HIDE DEF choice
  <1>8. TypeInv' /\ PlanInv' /\ CostInv'
    BY <1>2, <1>6, <1>7, CallbackKeeps
  <1>9. AnnealInv'
    <2> HIDE DEF S
    <2>1. removeFromHead(fixedPath) \in Seq(S) /\ Append(curPath, recorded) \in Seq(S)
      BY <1>3, <1>5, SubSequence
    <2>2. {fixedPath', curPath', anneal'.previousPath} \subseteq Seq(S)
      BY <1>1, <1>2, <1>3, <2>1
    <2> QED
      BY <2>2 DEF AnnealInv, S
  <1>10. BalancedInv' /\ ReplayInv' /\ EnumInv'
    BY <1>2 DEF BalancedInv, ReplayInv, EnumInv, exhaustiveSearch
  <1> QED
    BY <1>8, <1>9, <1>10 DEF IInv

LEMMA BalancedCallbackKeeps ==
    ASSUME IInv, balancedCallback
    PROVE  IInv'
  <1> DEFINE S == answers(planCount)
             n == numOptions(taken)
             in == intervalChoice(bal.bl, n)
             choice == CASE bal.count = 1 -> 0
                         [] bal.count = 2 -> n - 1
                         [] OTHER -> in.choice
  <1>1. /\ pc = "plan" /\ pc' = "plan" /\ plugin = "balance" /\ ~ isComplete(taken)
        /\ curPath' = IF bal.count > 2 /\ ~in.recorded THEN curPath
                                                      ELSE Append(curPath, choice)
        /\ numChoices' = Append(numChoices, n)
        /\ bal' = IF bal.count > 2 THEN [bal EXCEPT !.bl = in.bl] ELSE bal
        /\ follow(choice)
        /\ UNCHANGED << query, plugin, bestPlan, bestPlanCost, planCount, anneal, built >>
    BY DEF balancedCallback
  <1>2. n \in 1 .. MaxOptions /\ MaxOptions \in Nat
    BY <1>1, QueryFacts DEF IInv, isComplete, numOptions
  <1>3. planCount \in Nat /\ query.maxPlans \in Nat /\ planCount <= query.maxPlans
    BY <1>1, QueryFacts DEF IInv, TypeInv
  <1>4. curPath \in Seq(S) /\ bal \in Balance(planCount)
    BY <1>1 DEF IInv, BalancedInv
  <1>5. bal.bl \in Interval(planCount)
    BY <1>4 DEF Balance
  <1>6. in.choice \in S /\ in.bl \in Interval(planCount)
    <2> HIDE DEF n, S
    <2>1. /\ intervalChoice(bal.bl, n).choice \in answers(planCount)
          /\ intervalChoice(bal.bl, n).bl \in Interval(planCount)
      BY <1>2, <1>3, <1>5, ChoiceType
    <2> QED
      BY <2>1 DEF S
  <1>7. choice \in S
    <2>1. 0 \in S /\ n - 1 \in S
      <3>1. 0 \in -2 .. MaxOptions /\ n - 1 \in -2 .. MaxOptions
        BY <1>2
      <3> HIDE DEF n
      <3> QED
        BY <1>3, <3>1, AnswerFacts
    <2>2. choice = 0 \/ choice = n - 1 \/ choice = in.choice
      OBVIOUS
    <2> HIDE DEF S, n, in, choice
    <2> QED
      BY <1>6, <2>1, <2>2
  <1>8. choice \in answers(query.maxPlans)
    <2> HIDE DEF choice
    <2> QED
      BY <1>3, <1>7, AnswerFacts
  <1>9. TypeInv' /\ PlanInv' /\ CostInv'
    <2> HIDE DEF choice
    <2> QED
      BY <1>1, <1>8, CallbackKeeps
  <1>10. BalancedInv'
    <2> HIDE DEF S, choice, in
    <2>1. curPath' \in Seq(S)
      BY <1>1, <1>4, <1>7
    <2>2. bal' \in Balance(planCount)
      <3>1. [bal EXCEPT !.bl = in.bl] \in Balance(planCount)
        BY <1>4, <1>6, Zenon DEF Balance
      <3> QED
        BY <1>1, <1>4, <3>1
    <2> QED
      BY <1>1, <2>1, <2>2 DEF BalancedInv, S
  <1>11. AnnealInv' /\ ReplayInv' /\ EnumInv'
    BY <1>1 DEF AnnealInv, ReplayInv, EnumInv, exhaustiveSearch
  <1> QED
    BY <1>9, <1>10, <1>11 DEF IInv

\* The best plan is replaced only by a cheaper one.
LEMMA UpdateFacts ==
    ASSUME IInv, NEW plan, NEW cost \in Int, cost < PLAN_MAX_COST,
           updateBestPlan(plan, cost),
           plan \in Seq(Int) \/ cost < 0 \/ bestPlanCost <= cost
    PROVE  /\ bestPlanCost' \in Int /\ bestPlanCost' <= bestPlanCost
           /\ IF bestPlan' = NoPlan
              THEN bestPlanCost' = PLAN_MAX_COST
              ELSE bestPlan' \in Seq(Int) /\ bestPlanCost' \in 0 .. PLAN_MAX_COST - 1
           /\ 0 <= cost => bestPlanCost' <= cost
  <1>1. PLAN_MAX_COST \in Nat /\ NoPlan \notin Seq(Int)
    BY QueryFacts DEF IInv
  <1>2. /\ bestPlanCost \in Int
        /\ IF bestPlan = NoPlan
           THEN bestPlanCost = PLAN_MAX_COST
           ELSE bestPlan \in Seq(Int) /\ bestPlanCost \in 0 .. PLAN_MAX_COST - 1
    BY DEF IInv, CostInv
  <1>3. bestPlanCost <= PLAN_MAX_COST
    BY <1>1, <1>2
  <1>4. CASE cost < 0 \/ ~ (cost < bestPlanCost)
    BY <1>1, <1>2, <1>3, <1>4 DEF updateBestPlan
  <1>5. CASE ~ (cost < 0) /\ cost < bestPlanCost
    <2>1. plan \in Seq(Int)
      BY <1>2, <1>5
    <2>2. bestPlan' = plan /\ bestPlanCost' = cost
      BY <1>5 DEF updateBestPlan
    <2> QED
      BY <1>1, <1>2, <1>5, <2>1, <2>2
  <1> QED
    BY <1>2, <1>4, <1>5

\* What every generateNextChoice keeps: the plan built last is considered.
LEMMA NextKeeps ==
    ASSUME IInv, pc = "next", NEW more \in BOOLEAN, afterChoice(more),
           NEW plan, NEW cost \in Int, cost < PLAN_MAX_COST, updateBestPlan(plan, cost),
           plan \in Seq(Int) \/ cost < 0 \/ bestPlanCost <= cost,
           numChoices' = << >>, anneal.temp' \in Int,
           UNCHANGED << query, plugin, taken, built >>,
           \/ anneal'.previousPlanCost = anneal.previousPlanCost
           \/ anneal'.previousPlanCost = cost /\ (cost < 0 => Blind \/ cost = currentCost)
    PROVE  /\ TypeInv' /\ PlanInv' /\ CostInv'
           /\ considered = Front(built) /\ considered' = built /\ built # << >>
           /\ Considered' = Considered \union {taken}
           /\ Blind' = (Blind \/ currentCost < 0)
  <1>1. /\ planCount \in Nat /\ built \in Seq([plan : Seq(Int), cost : Int])
        /\ built # << >> /\ Last(built) = [plan |-> taken, cost |-> currentCost]
        /\ currentCost \in query.costs /\ currentCost \in Int
    <2>1. \A c \in query.costs : c \in Int
      BY QueryFacts DEF IInv
    <2> QED
      BY <2>1 DEF IInv, TypeInv, CostInv
  <1>2. pc' \in {"loop", "break"} /\ planCount' \in Nat
    BY <1>1 DEF afterChoice
  <1>3. considered = Front(built) /\ considered' = built
    BY <1>2 DEF considered
  <1>4. /\ Len(built) \in Nat \ {0}
        /\ DOMAIN built = 1 .. Len(built)
        /\ DOMAIN Front(built) = 1 .. Len(built) - 1
        /\ \A i \in 1 .. Len(built) - 1 : Front(built)[i] = built[i]
        /\ built[Len(built)] = [plan |-> taken, cost |-> currentCost]
    <2> DEFINE R == [plan : Seq(Int), cost : Int]
    <2>1. built \in Seq(R)
      BY <1>1
    <2> HIDE DEF R
    <2>2. /\ Front(built) \in Seq(R) /\ Len(Front(built)) = Len(built) - 1
          /\ Len(built) \in Nat \ {0}
          /\ \A i \in 1 .. Len(built) - 1 : Front(built)[i] = built[i]
          /\ Last(built) = built[Len(built)]
      BY <1>1, <2>1, FrontFacts
    <2> QED
      BY <1>1, <2>1, <2>2
  <1>5. /\ Considered = {built[i].plan : i \in 1 .. Len(built) - 1}
        /\ Considered' = {built[i].plan : i \in 1 .. Len(built)}
        /\ Blind = \E i \in 1 .. Len(built) - 1 : built[i].cost < 0
        /\ Blind' = \E i \in 1 .. Len(built) : built[i].cost < 0
    BY <1>3, <1>4 DEF Considered, Blind
  <1>6. \A i : i \in 1 .. Len(built) <=> i \in 1 .. Len(built) - 1 \/ i = Len(built)
    BY <1>4
  <1>7. built[Len(built)].plan = taken /\ built[Len(built)].cost = currentCost
    BY <1>4
  <1>8. Considered' = Considered \union {taken}
    BY <1>5, <1>6, <1>7
  <1>9. Blind' = (Blind \/ currentCost < 0)
    BY <1>5, <1>6, <1>7
  <1>10. TypeInv'
    BY <1>2 DEF IInv, TypeInv
  <1>11. PlanInv'
    BY <1>2 DEF PlanInv
  <1>12. CostInv'
    <2>1. /\ bestPlanCost \in Int /\ anneal.previousPlanCost \in Int
          /\ anneal.previousPlanCost \in 0 .. PLAN_MAX_COST - 1 =>
                bestPlanCost <= anneal.previousPlanCost
          /\ anneal.previousPlanCost < 0 => Blind
      BY DEF IInv, CostInv
    <2>2. /\ bestPlanCost' \in Int /\ bestPlanCost' <= bestPlanCost
          /\ IF bestPlan' = NoPlan
             THEN bestPlanCost' = PLAN_MAX_COST
             ELSE bestPlan' \in Seq(Int) /\ bestPlanCost' \in 0 .. PLAN_MAX_COST - 1
          /\ 0 <= cost => bestPlanCost' <= cost
      BY UpdateFacts
    <2>3. PLAN_MAX_COST \in Nat
      BY QueryFacts DEF IInv
    <2>4. /\ anneal'.previousPlanCost \in Int
          /\ anneal'.previousPlanCost \in 0 .. PLAN_MAX_COST - 1 =>
                bestPlanCost' <= anneal'.previousPlanCost
      BY <2>1, <2>2, <2>3
    <2>5. anneal'.previousPlanCost < 0 => Blind'
      BY <1>9, <2>1
    <2> QED
      BY <1>1, <1>2, <1>3, <2>2, <2>4, <2>5 DEF CostInv
  <1> QED
    BY <1>1, <1>3, <1>8, <1>9, <1>10, <1>11, <1>12

LEMMA ExhaustiveNextKeeps ==
    ASSUME IInv, exhaustiveGenerateNextChoice
    PROVE  IInv'
  <1>1. /\ pc = "next" /\ exhaustiveSearch
        /\ updateBestPlan(currentPlan, currentCost)
        /\ fixedPath' = advance(curPath, numChoices)
        /\ curPath' = << >> /\ numChoices' = << >>
        /\ afterChoice(fixedPath' # << >>)
        /\ UNCHANGED << query, plugin, taken, anneal, bal, built >>
    BY DEF exhaustiveGenerateNextChoice, exhaustiveSearch
  <1>2. /\ taken \in Seq(Int) /\ currentPlan = taken /\ currentCost \in Int
        /\ currentCost < PLAN_MAX_COST /\ anneal.temp \in Int
    BY <1>1, QueryFacts DEF IInv, TypeInv, CostInv
  <1>3. /\ TypeInv' /\ PlanInv' /\ CostInv'
        /\ considered = Front(built) /\ considered' = built /\ built # << >>
        /\ Considered' = Considered \union {taken}
        /\ Blind' = (Blind \/ currentCost < 0)
    <2> PICK more \in BOOLEAN : more = (fixedPath' # << >>)
      OBVIOUS
    <2>1. afterChoice(more)
      BY <1>1
    <2> QED
      BY <1>1, <1>2, <2>1, NextKeeps
  <1>4. AnnealInv' /\ BalancedInv'
    BY <1>1 DEF exhaustiveSearch, AnnealInv, BalancedInv
  <1>5. tree' = tree /\ plansOf(tree)' = plansOf(tree) /\ exhaustiveSearch' = exhaustiveSearch
    BY <1>1, SameQuery
  <1>6. /\ curPath = taken /\ taken \in Seq(Nat) /\ Fits(taken) /\ taken \notin DOMAIN tree
        /\ position = taken /\ numChoices \in Seq(Int) /\ Len(numChoices) = Len(taken)
        /\ \A i \in DOMAIN taken : numChoices[i] = tree[SubSeq(taken, 1, i - 1)]
    <2>1. /\ curPath = taken /\ fixedPath = << >> /\ Fits(position)
          /\ curPath \in Seq(Nat) /\ Len(numChoices) = Len(taken)
          /\ \A i \in DOMAIN taken : numChoices[i] = tree[SubSeq(taken, 1, i - 1)]
      BY <1>1 DEF IInv, ReplayInv
    <2>2. position = taken
      BY <1>1, <1>2, <2>1 DEF position
    <2>3. numChoices \in Seq(Int)
      <3> PICK J : J = 1 .. MaxOptions
        OBVIOUS
      <3>1. J \subseteq Int /\ numChoices \in Seq(J)
        BY DEF IInv, TypeInv
      <3>2. Seq(J) \subseteq Seq(Int)
        BY <3>1, MoreElements
      <3> QED
        BY <3>1, <3>2
    <2>4. taken \notin DOMAIN tree
      BY <1>1 DEF IInv, PlanInv, isComplete
    <2> QED
      BY <2>1, <2>2, <2>3, <2>4
  <1> PICK new : new = fixedPath'
    OBVIOUS
  <1>7. /\ new \in Seq(Nat) /\ Fits(new)
        /\ \A p \in Seq(Nat) :
              Fits(p) /\ p \notin DOMAIN tree =>
                 IF new = << >> THEN Before(p, taken) \/ p = taken
                 ELSE Before(p, new) <=> (Before(p, taken) \/ p = taken)
    <2>1. new = advance(taken, numChoices)
      BY <1>1, <1>6
    <2> QED
      BY <1>6, <2>1, AdvanceOrder
  <1>8. /\ pc' = IF new # << >> THEN "loop" ELSE "break"
        /\ planCount' = IF new # << >> THEN planCount + 1 ELSE planCount
    BY <1>1 DEF afterChoice
  <1>9. new # << >> => position' = new
    BY <1>8 DEF position
  <1>10. ReplayInv'
    <2>1. new # << >> => Fits(position)'
      BY <1>5, <1>7, <1>9 DEF Fits
    <2>2. fixedPath' \in Seq(Nat) /\ curPath' \in Seq(Nat)
      BY <1>1, <1>7
    <2> QED
      BY <1>1, <1>7, <1>8, <1>9, <2>1, <2>2 DEF ReplayInv
  <1>11. EnumInv'
    <2>1. /\ IsFiniteSet(Considered) /\ Cardinality(Considered) = planCount
          /\ Considered = {p \in plansOf(tree) : Before(p, taken)}
      BY <1>1, <1>6 DEF IInv, EnumInv
    <2>2. ~ Before(taken, taken) /\ taken \in plansOf(tree)
      BY <1>2, <1>6, BeforeIsStrict, PlansFit DEF IInv
    <2>3. /\ IsFiniteSet(Considered')
          /\ Cardinality(Considered') = planCount + 1
      <3>1. taken \notin Considered
        BY <2>1, <2>2
      <3> QED
        BY <1>3, <2>1, <3>1, FS_AddElement
    <2>4. \A p \in plansOf(tree) : IF new = << >> THEN Before(p, taken) \/ p = taken
                                   ELSE Before(p, new) <=> (Before(p, taken) \/ p = taken)
      BY <1>7, PlansFit DEF IInv
    <2>5. Considered' = {p \in plansOf(tree) : Before(p, taken) \/ p = taken}
      BY <1>3, <2>1, <2>2
    <2>6. CASE new = << >>
      <3>1. Considered' = plansOf(tree)
        BY <2>4, <2>5, <2>6
      <3> QED
        BY <1>5, <1>8, <2>3, <2>6, <3>1 DEF EnumInv
    <2>7. CASE new # << >>
      <3>1. Considered' = {p \in plansOf(tree) : Before(p, new)}
        BY <2>4, <2>5, <2>7
      <3> QED
        BY <1>5, <1>8, <1>9, <2>3, <2>7, <3>1 DEF EnumInv
    <2> QED
      BY <2>6, <2>7
  <1> QED
    BY <1>3, <1>4, <1>10, <1>11 DEF IInv

LEMMA SimannNextKeeps ==
    ASSUME IInv, simannGenerateNextChoice
    PROVE  IInv'
  <1> DEFINE S == -1 .. MaxOptions
             prev == anneal.previousPlanCost
  <1>1. PICK back \in BOOLEAN :
          LET path == IF back THEN anneal.previousPath ELSE curPath
              plan == IF back THEN anneal.previousPlan ELSE currentPlan
              cost == IF back THEN prev ELSE currentCost
          IN /\ pc = "next"
             /\ plugin = "sim_ann"
             /\ back => prev # PLAN_MAX_COST /\ prev < currentCost
             /\ updateBestPlan(plan, cost)
             /\ anneal' = [previousPlan |-> plan, previousPlanCost |-> cost,
                           previousPath |-> path, temp |-> anneal.temp - 1]
             /\ \E pos \in 1 .. Max({1, Len(path)}) :
                   fixedPath' = IF path = << >> THEN << -1 >> ELSE SubSeq(path, 1, pos)
             /\ curPath' = << >>
             /\ numChoices' = << >>
             /\ afterChoice(TRUE)
             /\ UNCHANGED << query, plugin, taken, bal, built >>
    BY DEF simannGenerateNextChoice
  <1> DEFINE path == IF back THEN anneal.previousPath ELSE curPath
             plan == IF back THEN anneal.previousPlan ELSE currentPlan
             cost == IF back THEN prev ELSE currentCost
  <1>2. /\ pc = "next" /\ plugin = "sim_ann"
        /\ back => prev # PLAN_MAX_COST /\ prev < currentCost
        /\ updateBestPlan(plan, cost)
        /\ anneal' = [previousPlan |-> plan, previousPlanCost |-> cost,
                      previousPath |-> path, temp |-> anneal.temp - 1]
        /\ \E pos \in 1 .. Max({1, Len(path)}) :
              fixedPath' = IF path = << >> THEN << -1 >> ELSE SubSeq(path, 1, pos)
        /\ curPath' = << >> /\ numChoices' = << >> /\ afterChoice(TRUE)
        /\ UNCHANGED << query, plugin, taken, bal, built >>
    BY <1>1
  <1>3. /\ taken \in Seq(Int) /\ currentPlan = taken /\ currentCost \in Int
        /\ currentCost < PLAN_MAX_COST /\ anneal.temp \in Int /\ prev \in Int
        /\ prev \in 0 .. PLAN_MAX_COST - 1 => bestPlanCost <= prev
        /\ prev < 0 => Blind
        /\ PLAN_MAX_COST \in Nat
    BY <1>2, QueryFacts DEF IInv, TypeInv, CostInv
  <1>4. /\ cost \in Int /\ cost < PLAN_MAX_COST
        /\ plan \in Seq(Int) \/ cost < 0 \/ bestPlanCost <= cost
        /\ cost < 0 => Blind \/ cost = currentCost
    BY <1>2, <1>3
  <1>5. anneal'.temp \in Int /\ anneal'.previousPlanCost = cost /\ anneal'.previousPath = path
    <2> HIDE DEF cost, path, plan
    <2> QED
      BY <1>2, <1>3
  <1>6. TypeInv' /\ PlanInv' /\ CostInv'
    <2> HIDE DEF cost, path, plan
    <2> QED
      BY <1>2, <1>4, <1>5, NextKeeps
  <1>7. AnnealInv'
    <2>1. {curPath, anneal.previousPath} \subseteq Seq(S)
      BY <1>2 DEF IInv, AnnealInv
    <2>2. path \in Seq(S)
      BY <2>1
    <2>3. fixedPath' \in Seq(S)
      <3> HIDE DEF path
      <3>1. PICK pos \in 1 .. Max({1, Len(path)}) :
               fixedPath' = IF path = << >> THEN << -1 >> ELSE SubSeq(path, 1, pos)
        BY <1>2
      <3>2. CASE path = << >>
        <4>1. -1 \in S
          BY OptimizerAssumption
        <4> HIDE DEF S
        <4>2. << -1 >> \in Seq(S)
          BY <4>1
        <4> QED
          BY <3>1, <3>2, <4>2
      <3>3. CASE path # << >>
        <4> HIDE DEF S
        <4>1. Len(path) \in Nat \ {0}
          BY <2>2, <3>3
        <4> PICK n : n = Len(path)
          OBVIOUS
        <4>2. Max({1, n}) \in {1, n}
          <5>1. {1, n} \in SUBSET (0 .. n) /\ {1, n} # {} /\ n \in Nat
            BY <4>1
          <5> QED
            BY <5>1, MaxFacts
        <4>3. pos \in 1 .. Len(path)
          BY <4>1, <4>2
        <4>4. SubSeq(path, 1, pos) \in Seq(S)
          BY <2>2, <4>1, <4>3, PrefixFacts
        <4> QED
          BY <3>1, <3>3, <4>4
      <3> QED
        BY <3>2, <3>3
    <2>4. << >> \in Seq(S)
      OBVIOUS
    <2> HIDE DEF S, path
    <2>5. {fixedPath', curPath', anneal'.previousPath} \subseteq Seq(S)
      BY <1>2, <1>5, <2>2, <2>3, <2>4
    <2> QED
      BY <2>5 DEF AnnealInv, S
  <1>8. BalancedInv' /\ ReplayInv' /\ EnumInv'
    BY <1>2 DEF BalancedInv, ReplayInv, EnumInv, exhaustiveSearch
  <1> QED
    BY <1>6, <1>7, <1>8 DEF IInv

LEMMA BalancedNextKeeps ==
    ASSUME IInv, balancedGenerateNextChoice
    PROVE  IInv'
  <1>1. /\ pc = "next" /\ plugin = "balance"
        /\ updateBestPlan(currentPlan, currentCost)
        /\ bal' = balancedNext(bal)
        /\ curPath' = << >> /\ numChoices' = << >>
        /\ afterChoice(bal'.fifo # << >> \/ bal.count = 1)
        /\ UNCHANGED << query, plugin, taken, fixedPath, anneal, built >>
    BY DEF balancedGenerateNextChoice
  <1>2. /\ taken \in Seq(Int) /\ currentPlan = taken /\ currentCost \in Int
        /\ currentCost < PLAN_MAX_COST /\ anneal.temp \in Int
    BY <1>1, QueryFacts DEF IInv, TypeInv, CostInv
  <1> PICK more \in BOOLEAN : more = (bal'.fifo # << >> \/ bal.count = 1)
    OBVIOUS
  <1>3. afterChoice(more)
    BY <1>1
  <1>4. TypeInv' /\ PlanInv' /\ CostInv'
    BY <1>1, <1>2, <1>3, NextKeeps
  <1>5. BalancedInv'
    <2>1. /\ planCount \in Nat /\ curPath \in Seq(answers(planCount))
          /\ bal \in Balance(planCount) /\ numChoices \in Seq(1 .. MaxOptions)
      BY <1>1 DEF IInv, TypeInv, BalancedInv
    <2>2. balancedNext(bal) \in Balance(planCount + 1)
      BY <2>1, BalancedNextType
    <2>3. more => planCount' = planCount + 1
      BY <1>3 DEF afterChoice
    <2>4. ~ more => pc' = "break"
      BY <1>3 DEF afterChoice
    <2>5. << >> \in Seq(answers(planCount'))
      OBVIOUS
    <2> QED
      BY <1>1, <2>2, <2>3, <2>4, <2>5 DEF BalancedInv
  <1>6. AnnealInv' /\ ReplayInv' /\ EnumInv'
    BY <1>1 DEF AnnealInv, ReplayInv, EnumInv, exhaustiveSearch
  <1> QED
    BY <1>4, <1>5, <1>6 DEF IInv

LEMMA InitHolds ==
    ASSUME Init
    PROVE  IInv
  <1>1. /\ query \in Query /\ plugin \in Plugin /\ pc = "loop"
        /\ taken = << >> /\ fixedPath = << >> /\ curPath = << >> /\ numChoices = << >>
        /\ bestPlan = NoPlan /\ bestPlanCost = PLAN_MAX_COST /\ planCount = 0
        /\ anneal = [previousPlan |-> NoPlan, previousPlanCost |-> PLAN_MAX_COST,
                     previousPath |-> << >>, temp |-> Rounds]
        /\ bal = [count |-> 1, fifo |-> << >>, bl |-> EmptyInterval]
        /\ built = << >>
    BY DEF Init
  <1>2. /\ anneal.temp = Rounds /\ anneal.previousPlanCost = PLAN_MAX_COST
        /\ anneal.previousPath = << >>
    BY <1>1
  <1>3. TypeInv
    <2>1. Rounds \in Int
      BY OptimizerAssumption
    <2>2. << >> \in Seq([plan : Seq(Int), cost : Int])
      OBVIOUS
    <2>3. << >> \in Seq(1 .. MaxOptions)
      OBVIOUS
    <2> QED
      BY <1>1, <1>2, <2>1, <2>2, <2>3 DEF TypeInv
  <1>4. considered = << >> /\ Considered = {}
    BY <1>1 DEF considered, Considered
  <1>5. CostInv
    <2>1. PLAN_MAX_COST \in Nat
      BY OptimizerAssumption
    <2> QED
      BY <1>1, <1>2, <1>4, <2>1 DEF CostInv
  <1>6. AnnealInv
    <2>1. << >> \in Seq(-1 .. MaxOptions)
      OBVIOUS
    <2> QED
      BY <1>1, <1>2, <2>1 DEF AnnealInv
  <1>7. BalancedInv
    <2>1. << >> \in Seq(answers(0)) /\ << >> \in Seq(Interval(0))
      OBVIOUS
    <2>2. EmptyInterval \in Interval(0)
      BY IntervalGrows
    <2>3. bal \in Balance(0)
      BY <1>1, <2>1, <2>2 DEF Balance
    <2> QED
      BY <1>1, <2>1, <2>3 DEF BalancedInv
  <1>8. position = << >>
    BY <1>1 DEF position
  <1>9. ReplayInv
    BY <1>1, <1>8 DEF ReplayInv, Fits
  <1>10. EnumInv
    <2>1. \A p : ~ Before(p, << >>)
      BY DEF Before
    <2>2. IsFiniteSet({}) /\ Cardinality({}) = 0
      BY FS_EmptySet
    <2> QED
      BY <1>1, <1>4, <1>8, <2>1, <2>2 DEF EnumInv
  <1> QED
    BY <1>1, <1>3, <1>5, <1>6, <1>7, <1>9, <1>10 DEF IInv, PlanInv

LEMMA NextHolds ==
    ASSUME IInv, [Next]_vars
    PROVE  IInv'
  <1>1. ASSUME UNCHANGED vars PROVE IInv'
    <2>1. /\ considered' = considered /\ Considered' = Considered /\ Blind' = Blind
          /\ tree' = tree /\ plansOf(tree)' = plansOf(tree)
          /\ exhaustiveSearch' = exhaustiveSearch /\ position' = position
      BY <1>1, SameHistory, SameQuery DEF vars, optState, considered, position
    <2>2. TypeInv' /\ PlanInv' /\ CostInv'
      BY <1>1, <2>1 DEF IInv, TypeInv, PlanInv, CostInv, vars, optState, isComplete, answers
    <2>3. AnnealInv' /\ BalancedInv'
      BY <1>1 DEF IInv, AnnealInv, BalancedInv, vars, optState
    <2>4. Fits(position)' = Fits(position)
      BY <2>1 DEF Fits
    <2>5. ReplayInv'
      BY <1>1, <2>1, <2>4 DEF IInv, ReplayInv, vars, optState
    <2>6. EnumInv'
      BY <1>1, <2>1 DEF IInv, EnumInv, vars, optState
    <2> QED
      BY <2>2, <2>3, <2>5, <2>6 DEF IInv
  <1> QED
    BY <1>1, StartKeeps, StopKeeps, FinishKeeps, ExhaustiveCallbackKeeps,
       ExhaustiveNextKeeps, SimannCallbackKeeps, SimannNextKeeps, BalancedCallbackKeeps,
       BalancedNextKeeps DEF Next

LEMMA InductiveInvariant == Spec => []IInv
  BY InitHolds, NextHolds, PTL DEF Spec

-----------------------------------------------------------------------------
(***************************************************************************)
(* The theorems                                                            *)
(***************************************************************************)

\* The choices the exhaustive search computes from one plan fit the choice
\* points of the next, whatever the tree: while a plan is generated, the path
\* recorded in curPath is the path taken, and the rest of fixedPath leads on
\* through choice points of this plan (exhaustiveCallback and
\* exhaustiveGenerateNextChoice).
THEOREM ReplayFits == Spec => []ReplayFitsPlan
  <1>1. IInv => ReplayFitsPlan
    <2> SUFFICES ASSUME IInv, pc = "plan", exhaustiveSearch
                 PROVE  /\ curPath = taken
                        /\ \A i \in DOMAIN (taken \o fixedPath) :
                              /\ SubSeq(taken \o fixedPath, 1, i - 1) \in DOMAIN tree
                              /\ (taken \o fixedPath)[i]
                                    < tree[SubSeq(taken \o fixedPath, 1, i - 1)]
      BY DEF ReplayFitsPlan
    <2>1. curPath = taken /\ Fits(taken \o fixedPath)
      BY DEF IInv, ReplayInv, position
    <2> PICK ahead : ahead = taken \o fixedPath
      OBVIOUS
    <2>2. ASSUME NEW i \in DOMAIN ahead
          PROVE  /\ SubSeq(ahead, 1, i - 1) \in DOMAIN tree
                 /\ ahead[i] < tree[SubSeq(ahead, 1, i - 1)]
      <3> PICK q : q = SubSeq(ahead, 1, i - 1)
        OBVIOUS
      <3>1. q \in DOMAIN tree /\ ahead[i] \in 0 .. tree[q] - 1
        BY <2>1 DEF Fits
      <3>2. tree[q] \in Int
        BY <3>1, QueryFacts DEF IInv
      <3> QED
        BY <3>1, <3>2
    <2> QED
      BY <2>1, <2>2
  <1> QED
    BY <1>1, InductiveInvariant, PTL

\* The best plan of the abstract search, as the optimizer keeps it.
LEMMA BestFacts ==
    ASSUME IInv
    PROVE  /\ Best = NoPlan <=> bestPlan = NoPlan
           /\ bestPlan # NoPlan => Best = [plan |-> bestPlan, cost |-> bestPlanCost]
           /\ bestPlan = NoPlan => bestPlanCost = PLAN_MAX_COST
           /\ bestPlanCost \in Int
  <1>1. /\ bestPlanCost \in Int
        /\ IF bestPlan = NoPlan
           THEN bestPlanCost = PLAN_MAX_COST
           ELSE bestPlan \in Seq(Int) /\ bestPlanCost \in 0 .. PLAN_MAX_COST - 1
    BY DEF IInv, CostInv
  <1>2. NoPlan \notin [plan : Seq(Int), cost : Int]
    BY QueryFacts DEF IInv
  <1>3. bestPlan # NoPlan =>
           [plan |-> bestPlan, cost |-> bestPlanCost] \in [plan : Seq(Int), cost : Int]
    BY <1>1
  <1>4. bestPlan # NoPlan => [plan |-> bestPlan, cost |-> bestPlanCost] # NoPlan
    BY <1>2, <1>3
  <1> QED
    BY <1>1, <1>4 DEF Best

\* updateBestPlan keeps the first of the cheapest plans.
LEMMA UpdatesBest ==
    ASSUME IInv, pc = "next", updateBestPlan(currentPlan, currentCost)
    PROVE  Best' = IF PS!Better(currentCost) THEN [plan |-> taken, cost |-> currentCost]
                   ELSE Best
  <1>1. /\ currentPlan = taken /\ currentCost \in Int /\ currentCost < PLAN_MAX_COST
        /\ taken # NoPlan /\ PLAN_MAX_COST \in Nat
    BY QueryFacts DEF IInv, CostInv, TypeInv
  <1>2. /\ Best = NoPlan <=> bestPlan = NoPlan
        /\ bestPlan # NoPlan => Best = [plan |-> bestPlan, cost |-> bestPlanCost]
        /\ bestPlan = NoPlan => bestPlanCost = PLAN_MAX_COST
        /\ bestPlanCost \in Int
    BY BestFacts
  <1>3. bestPlanCost <= PLAN_MAX_COST
    BY <1>1, <1>2 DEF IInv, CostInv
  <1>4. bestPlan # NoPlan => Best.cost = bestPlanCost
    BY <1>2
  <1>5. PS!Better(currentCost) <=> currentCost >= 0 /\ currentCost < bestPlanCost
    BY <1>1, <1>2, <1>4 DEF PS!Better
  <1>6. CASE currentCost >= 0 /\ currentCost < bestPlanCost
    <2>1. bestPlan' = taken /\ bestPlanCost' = currentCost
      BY <1>1, <1>6 DEF updateBestPlan
    <2> QED
      BY <1>1, <1>5, <1>6, <2>1 DEF Best
  <1>7. CASE ~ (currentCost >= 0 /\ currentCost < bestPlanCost)
    <2>1. bestPlan' = bestPlan /\ bestPlanCost' = bestPlanCost
      BY <1>1, <1>2, <1>3, <1>7 DEF updateBestPlan
    <2>2. Best' = Best
      BY <2>1 DEF Best
    <2> QED
      BY <1>5, <1>7, <2>2
  <1> QED
    BY <1>6, <1>7

\* A step that takes no plan into account is a stutter of the abstract search.
LEMMA Stutters ==
    ASSUME considered' = considered, pc # "done", pc' # "done",
           UNCHANGED << query, plugin, bestPlan, bestPlanCost >>
    PROVE  UNCHANGED PS!vars
  <1>1. /\ plansOf(tree)' = plansOf(tree) /\ endsOf(tree)' = endsOf(tree)
        /\ exhaustiveSearch' = exhaustiveSearch
    BY SameQuery
  <1>2. Considered' = Considered /\ Blind' = Blind /\ Best' = Best
    BY SameHistory DEF Best
  <1> QED
    BY <1>1, <1>2 DEF PS!vars

\* A step that takes the plan built last into account builds it.
LEMMA Builds ==
    ASSUME IInv, pc = "next", pc' # "done",
           Considered' = Considered \union {taken},
           Blind' = (Blind \/ currentCost < 0),
           UNCHANGED << query, plugin >>,
           \/ updateBestPlan(currentPlan, currentCost)
           \/ /\ ~ exhaustiveSearch /\ (Blind \/ bestPlanCost < currentCost)
              /\ UNCHANGED << bestPlan, bestPlanCost >>
    PROVE  PS!Next
  <1> DEFINE plans == IF exhaustiveSearch THEN plansOf(tree) ELSE endsOf(tree)
             Costs == UNION {q.costs : q \in Query}
  <1>1. /\ plansOf(tree)' = plansOf(tree) /\ endsOf(tree)' = endsOf(tree)
        /\ exhaustiveSearch' = exhaustiveSearch
    BY SameQuery
  <1>2. currentCost \in Costs /\ currentCost \in Int
    BY QueryFacts DEF IInv, CostInv, TypeInv
  <1>3. taken \in plans /\ (exhaustiveSearch => taken \in plansOf(tree) \ Considered)
    <2>1. CASE exhaustiveSearch
      <3>1. /\ curPath = taken /\ fixedPath = << >> /\ Fits(position)
            /\ taken \in Seq(Int) /\ taken \notin DOMAIN tree /\ curPath \in Seq(Nat)
        BY <2>1 DEF IInv, ReplayInv, PlanInv, TypeInv, isComplete
      <3>2. position = taken
        BY <3>1 DEF position
      <3>3. taken \in plansOf(tree)
        BY <3>1, <3>2, PlansFit DEF IInv
      <3>4. taken \notin Considered
        BY <2>1, <3>1, <3>2, BeforeIsStrict DEF IInv, EnumInv
      <3> QED
        BY <2>1, <3>3, <3>4
    <2>2. CASE ~ exhaustiveSearch
      BY <2>2, EndsHere DEF IInv
    <2> QED
      BY <2>1, <2>2
  <1>4. \/ Best' = IF PS!Better(currentCost) THEN [plan |-> taken, cost |-> currentCost]
                   ELSE Best
        \/ ~ exhaustiveSearch /\ Blind /\ Best' = Best
    <2>1. CASE updateBestPlan(currentPlan, currentCost)
      BY <2>1, UpdatesBest
    <2>2. CASE /\ ~ exhaustiveSearch /\ (Blind \/ bestPlanCost < currentCost)
               /\ UNCHANGED << bestPlan, bestPlanCost >>
      <3>1. Best' = Best
        BY <2>2 DEF Best
      <3>2. CASE Blind
        BY <2>2, <3>1, <3>2
      <3>3. CASE bestPlanCost < currentCost
        <4>1. currentCost < PLAN_MAX_COST /\ PLAN_MAX_COST \in Nat
          BY QueryFacts DEF IInv, CostInv, TypeInv
        <4>2. /\ bestPlan # NoPlan /\ bestPlanCost \in Int /\ Best # NoPlan
              /\ Best = [plan |-> bestPlan, cost |-> bestPlanCost]
          BY <1>2, <3>3, <4>1, BestFacts
        <4>3. ~ PS!Better(currentCost)
          BY <1>2, <3>3, <4>2 DEF PS!Better
        <4> QED
          BY <3>1, <4>3
      <3> QED
        BY <2>2, <3>2, <3>3
    <2> QED
      BY <2>1, <2>2
  <1>5. PS!Build(taken, currentCost)
    BY <1>1, <1>3, <1>4 DEF PS!Build
  <1> QED
    BY <1>2, <1>3, <1>5 DEF PS!Next

\* The main loop ends where the abstract search may stop.

\* The main loop ends where the abstract search may stop.
LEMMA Stops ==
    ASSUME IInv, stopLoop
    PROVE  PS!Next
  <1>1. /\ pc = "break" \/ (pc = "loop" /\ mayStop)
        /\ pc' = "done"
        /\ UNCHANGED << query, plugin, anneal, planCount, bestPlan, bestPlanCost, built >>
    BY DEF stopLoop, optState
  <1>2. /\ planCount \in Nat /\ query.maxPlans \in Nat /\ Rounds \in Nat \ {0}
        /\ built \in Seq([plan : Seq(Int), cost : Int])
    BY QueryFacts DEF IInv, TypeInv
  <1>3. considered = built /\ considered' = considered
    BY <1>1 DEF considered
  <1>4. /\ Considered' = Considered /\ Blind' = Blind /\ Best' = Best
        /\ plansOf(tree)' = plansOf(tree) /\ endsOf(tree)' = endsOf(tree)
        /\ exhaustiveSearch' = exhaustiveSearch
    BY <1>1, <1>3, SameHistory, SameQuery DEF Best
  <1>5. pc = "loop" =>
           \/ ~ (planCount <= query.maxPlans)
           \/ plugin = "sim_ann" /\ ~ (anneal.temp > 0)
           \/ plugin = "exhaustive_adaptive" /\ bestPlan # NoPlan
    BY <1>1 DEF mayStop, shouldContinue, exhaustiveContinueOptimization
  <1>6. considered # << >>
    <2> SUFFICES ASSUME considered = << >> PROVE FALSE
      OBVIOUS
    <2>1. planCount = 0 /\ pc # "break" /\ bestPlan = NoPlan /\ anneal.temp = Rounds
      BY DEF IInv, CostInv
    <2> QED
      BY <1>1, <1>2, <1>5, <2>1
  <1>7. Considered # {}
    <2> DEFINE R == [plan : Seq(Int), cost : Int]
    <2>1. built \in Seq(R) /\ built # << >>
      BY <1>2, <1>3, <1>6
    <2> HIDE DEF R
    <2>2. 1 \in DOMAIN built
      BY <2>1
    <2> QED
      BY <1>3, <2>2 DEF Considered
  <1>8. exhaustiveSearch =>
           \/ Considered = plansOf(tree)
           \/ Cardinality(Considered) > query.maxPlans
           \/ plugin = "exhaustive_adaptive" /\ Best # NoPlan
    <2> SUFFICES ASSUME exhaustiveSearch
                 PROVE  \/ Considered = plansOf(tree)
                        \/ Cardinality(Considered) > query.maxPlans
                        \/ plugin = "exhaustive_adaptive" /\ Best # NoPlan
      OBVIOUS
    <2>1. CASE pc = "break"
      BY <2>1 DEF IInv, EnumInv
    <2>2. CASE pc = "loop" /\ ~ (planCount <= query.maxPlans)
      <3>1. Cardinality(Considered) = planCount
        BY <2>2 DEF IInv, EnumInv
      <3> QED
        BY <1>2, <2>2, <3>1
    <2>3. CASE plugin = "exhaustive_adaptive" /\ bestPlan # NoPlan
      BY <2>3, BestFacts
    <2> QED
      BY <1>1, <1>5, <2>1, <2>2, <2>3 DEF exhaustiveSearch
  <1>9. PS!Stop
    <2> DEFINE plans == IF exhaustiveSearch THEN plansOf(tree) ELSE endsOf(tree)
    <2>1. exhaustiveSearch => \/ Considered = plans
                              \/ Cardinality(Considered) > query.maxPlans
                              \/ plugin = "exhaustive_adaptive" /\ Best # NoPlan
      BY <1>8
    <2>2. ~ (pc = "done") /\ (pc = "done")' = TRUE
      BY <1>1
    <2>3. UNCHANGED << query.maxPlans, plans, exhaustiveSearch,
                       plugin = "exhaustive_adaptive", Considered, Blind, Best >>
      BY <1>1, <1>4
    <2>4. PS!Cardinality(Considered) = Cardinality(Considered)
      BY Zenon DEF PS!Cardinality, Cardinality
    <2> QED
      BY <1>7, <2>1, <2>2, <2>3, <2>4 DEF PS!Stop
  <1> QED
    BY <1>9 DEF PS!Next

LEMMA ExhaustiveNextBuilds ==
    ASSUME IInv, exhaustiveGenerateNextChoice
    PROVE  PS!Next
  <1>1. /\ pc = "next" /\ updateBestPlan(currentPlan, currentCost)
        /\ afterChoice(fixedPath' # << >>) /\ numChoices' = << >>
        /\ UNCHANGED << query, plugin, taken, anneal, built >>
    BY DEF exhaustiveGenerateNextChoice
  <1>2. /\ taken \in Seq(Int) /\ currentPlan = taken /\ currentCost \in Int
        /\ currentCost < PLAN_MAX_COST /\ anneal.temp \in Int
    BY <1>1, QueryFacts DEF IInv, TypeInv, CostInv
  <1> PICK more \in BOOLEAN : more = (fixedPath' # << >>)
    OBVIOUS
  <1>3. /\ Considered' = Considered \union {taken}
        /\ Blind' = (Blind \/ currentCost < 0)
    BY <1>1, <1>2, NextKeeps
  <1>4. pc' # "done"
    BY <1>1 DEF afterChoice
  <1> QED
    BY <1>1, <1>3, <1>4, Builds

LEMMA BalancedNextBuilds ==
    ASSUME IInv, balancedGenerateNextChoice
    PROVE  PS!Next
  <1>1. /\ pc = "next" /\ updateBestPlan(currentPlan, currentCost)
        /\ afterChoice(bal'.fifo # << >> \/ bal.count = 1) /\ numChoices' = << >>
        /\ UNCHANGED << query, plugin, taken, anneal, built >>
    BY DEF balancedGenerateNextChoice
  <1>2. /\ taken \in Seq(Int) /\ currentPlan = taken /\ currentCost \in Int
        /\ currentCost < PLAN_MAX_COST /\ anneal.temp \in Int
    BY <1>1, QueryFacts DEF IInv, TypeInv, CostInv
  <1> PICK more \in BOOLEAN : more = (bal'.fifo # << >> \/ bal.count = 1)
    OBVIOUS
  <1>3. /\ Considered' = Considered \union {taken}
        /\ Blind' = (Blind \/ currentCost < 0)
    BY <1>1, <1>2, NextKeeps
  <1>4. pc' # "done"
    BY <1>1 DEF afterChoice
  <1> QED
    BY <1>1, <1>3, <1>4, Builds

\* Simulated annealing may return to the plan it came from: it has been
\* considered, or the backend had no estimate for it.
LEMMA SimannNextBuilds ==
    ASSUME IInv, simannGenerateNextChoice
    PROVE  PS!Next
  <1> DEFINE prev == anneal.previousPlanCost
  <1>1. PICK back \in BOOLEAN :
           LET plan == IF back THEN anneal.previousPlan ELSE currentPlan
               cost == IF back THEN prev ELSE currentCost
           IN /\ pc = "next" /\ plugin = "sim_ann"
              /\ back => prev # PLAN_MAX_COST /\ prev < currentCost
              /\ updateBestPlan(plan, cost)
              /\ \E path : anneal' = [previousPlan |-> plan, previousPlanCost |-> cost,
                                      previousPath |-> path, temp |-> anneal.temp - 1]
              /\ numChoices' = << >> /\ afterChoice(TRUE)
              /\ UNCHANGED << query, plugin, taken, built >>
    BY DEF simannGenerateNextChoice
  <1> DEFINE plan == IF back THEN anneal.previousPlan ELSE currentPlan
             cost == IF back THEN prev ELSE currentCost
  <1>2. /\ pc = "next" /\ plugin = "sim_ann" /\ pc' # "done"
        /\ back => prev # PLAN_MAX_COST /\ prev < currentCost
        /\ updateBestPlan(plan, cost) /\ numChoices' = << >> /\ afterChoice(TRUE)
        /\ UNCHANGED << query, plugin, taken, built >>
    BY <1>1 DEF afterChoice
  <1>3. PICK path : anneal' = [previousPlan |-> plan, previousPlanCost |-> cost,
                               previousPath |-> path, temp |-> anneal.temp - 1]
    BY <1>1
  <1>4. /\ taken \in Seq(Int) /\ currentPlan = taken /\ currentCost \in Int
        /\ currentCost < PLAN_MAX_COST /\ anneal.temp \in Int /\ prev \in Int
        /\ prev \in 0 .. PLAN_MAX_COST - 1 => bestPlanCost <= prev
        /\ prev < 0 => Blind
        /\ PLAN_MAX_COST \in Nat /\ bestPlanCost \in Int /\ bestPlanCost <= PLAN_MAX_COST
    BY <1>2, QueryFacts DEF IInv, TypeInv, CostInv
  <1>5. /\ cost \in Int /\ cost < PLAN_MAX_COST
        /\ plan \in Seq(Int) \/ cost < 0 \/ bestPlanCost <= cost
        /\ cost < 0 => Blind \/ cost = currentCost
    BY <1>2, <1>4
  <1>6. anneal'.temp \in Int /\ anneal'.previousPlanCost = cost
    <2> HIDE DEF cost, plan
    <2> QED
      BY <1>3, <1>4
  <1>7. /\ Considered' = Considered \union {taken}
        /\ Blind' = (Blind \/ currentCost < 0)
    <2> HIDE DEF cost, plan
    <2> QED
      BY <1>2, <1>5, <1>6, NextKeeps
  <1>8. CASE ~ back
    BY <1>2, <1>7, <1>8, Builds
  <1>9. CASE back
    <2>1. /\ Blind \/ bestPlanCost < currentCost
          /\ prev < 0 \/ ~ (prev < bestPlanCost)
      BY <1>2, <1>4, <1>9
    <2>2. UNCHANGED << bestPlan, bestPlanCost >>
      BY <1>2, <1>4, <1>9, <2>1 DEF updateBestPlan
    <2> QED
      BY <1>2, <1>7, <2>1, <2>2, Builds DEF exhaustiveSearch
  <1> QED
    BY <1>8, <1>9

LEMMA StepsRefine ==
    ASSUME IInv, [Next]_vars
    PROVE  [PS!Next]_(PS!vars)
  <1>1. CASE startPlan
    BY <1>1, Stutters DEF startPlan, optState, considered
  <1>2. CASE stopLoop
    BY <1>2, Stops
  <1>3. ASSUME NEW cost \in query.costs, finishPlan(cost)
        PROVE  [PS!Next]_(PS!vars)
    <2> DEFINE R == [plan : Seq(Int), cost : Int]
               r == [plan |-> taken, cost |-> cost]
    <2>1. /\ pc = "plan" /\ pc' = "next" /\ built' = Append(built, r)
          /\ UNCHANGED << query, plugin, bestPlan, bestPlanCost >>
      BY <1>3 DEF finishPlan
    <2>2. built \in Seq(R) /\ r \in R
      BY <1>3, QueryFacts DEF IInv, TypeInv
    <2> HIDE DEF R, r
    <2>3. Front(built') = built
      BY <2>1, <2>2, AppendFacts
    <2>4. considered' = considered
      BY <2>1, <2>3 DEF considered
    <2> QED
      BY <2>1, <2>4, Stutters
  <1>4. CASE exhaustiveCallback
    BY <1>4, Stutters DEF exhaustiveCallback, considered
  <1>5. CASE exhaustiveGenerateNextChoice
    BY <1>5, ExhaustiveNextBuilds
  <1>6. CASE simannCallback
    BY <1>6, Stutters DEF simannCallback, considered
  <1>7. CASE simannGenerateNextChoice
    BY <1>7, SimannNextBuilds
  <1>8. CASE balancedCallback
    BY <1>8, Stutters DEF balancedCallback, considered
  <1>9. CASE balancedGenerateNextChoice
    BY <1>9, BalancedNextBuilds
  <1>10. CASE UNCHANGED vars
    <2>1. considered' = considered /\ UNCHANGED << query, plugin, pc, bestPlan, bestPlanCost >>
      BY <1>10 DEF vars, optState, considered
    <2>2. /\ plansOf(tree)' = plansOf(tree) /\ endsOf(tree)' = endsOf(tree)
          /\ exhaustiveSearch' = exhaustiveSearch
          /\ Considered' = Considered /\ Blind' = Blind /\ Best' = Best
      BY <2>1, SameHistory, SameQuery DEF Best
    <2> QED
      BY <2>1, <2>2 DEF PS!vars
  <1> QED
    BY <1>1, <1>2, <1>3, <1>4, <1>5, <1>6, <1>7, <1>8, <1>9, <1>10 DEF Next

\* The main loop with any of its strategies implements the safety part of
\* PlanSearch: it considers one plan after the other, keeps the first of the
\* cheapest, and stops where it may.  The exhaustive strategies build plans of
\* the query only, none twice, and stop before the limit only with all of them
\* built (doCostBasedOptimization, updateBestPlan and the strategies).
THEOREM SearchImplementsPlanSearch == Spec => PS!Init /\ [][PS!Next]_(PS!vars)
  <1>1. Init => PS!Init
    BY DEF Init, PS!Init, Considered, Blind, Best, considered
  <1> QED
    BY <1>1, InductiveInvariant, StepsRefine, PTL DEF Spec
=============================================================================
