---------------------------- MODULE BPTreeProofs ----------------------------
(***************************************************************************)
(* Proofs about BPTree, for every set of keys and addresses and every      *)
(* BPTREE_MAX_KEYS from 2 on.                                              *)
(*                                                                         *)
(* The argument: every allocated node is given a height and a home, the    *)
(* interval of keys whose place is under it.  Tree says that the children  *)
(* of a node divide its home between them one level down, that the homes   *)
(* of one level are disjoint and that the next leaf goes on where a leaf   *)
(* ends.  An insert keeps this outside the subtree it goes down to and     *)
(* leaves the subtree whole, or in two halves for the node above           *)
(* (InsertOK): shown for the leaf, for the node above one that split, and  *)
(* so, over the heights, for insert_into_node.  All the properties of      *)
(* BPTree follow from the homes.                                           *)
(***************************************************************************)
EXTENDS BPTree, FiniteSetTheorems, WellFoundedInduction, TLAPS

\* Induction over the naturals, for a set of them.
LEMMA SetInduction ==
  ASSUME NEW T \in SUBSET Nat, 0 \in T, \A n \in T : n + 1 \in T
  PROVE  T = Nat
<1>. SUFFICES ASSUME Nat \ T # {} PROVE FALSE
  OBVIOUS
<1>1. PICK x \in Nat \ T : \A y \in Nat \ T : ~(<<y, x>> \in OpToRel(<, Nat))
  BY NatLessThanWellFounded, WFMin
<1>2. \A y \in Nat \ T : ~(y < x)
  BY <1>1 DEF OpToRel
<1>3. x # 0 /\ x - 1 \in Nat /\ x - 1 < x /\ x = (x - 1) + 1
  OBVIOUS
<1>4. x - 1 \in T
  BY <1>2, <1>3
<1>. QED
  BY <1>3, <1>4

\* A set of naturals that is not empty has a least member.
LEMMA Least ==
  ASSUME NEW S \in SUBSET Nat, S # {}
  PROVE  \E x \in S : \A y \in S : x <= y
<1>1. PICK x \in S : \A y \in S : ~(<<y, x>> \in OpToRel(<, Nat))
  BY NatLessThanWellFounded, WFMin
<1>2. \A y \in S : ~(y < x)
  BY <1>1 DEF OpToRel
<1>3. x \in Nat /\ \A y \in S : y \in Nat
  OBVIOUS
<1>. QED
  BY <1>2, <1>3

\* A set of places without a gap before any of them is an initial stretch.
LEMMA InitialStretch ==
  ASSUME NEW n \in Nat, NEW S \in SUBSET (1 .. n), \A i \in S : \A j \in 1 .. i : j \in S
  PROVE  Cardinality(S) \in 0 .. n /\ S = 1 .. Cardinality(S)
<1>1. PICK x \in (1 .. n + 1) \ S : \A y \in (1 .. n + 1) \ S : x <= y
  <2>1. n + 1 \in (1 .. n + 1) \ S /\ (1 .. n + 1) \ S \in SUBSET Nat
    OBVIOUS
  <2>. QED
    BY <2>1, Least
<1>2. S = 1 .. x - 1
  <2>1. ASSUME NEW i \in S PROVE i \in 1 .. x - 1
    <3>1. i >= x => x \in 1 .. i
      OBVIOUS
    <3>2. x \notin 1 .. i
      BY <1>1
    <3>. QED
      BY <3>1, <3>2
  <2>2. ASSUME NEW i \in 1 .. x - 1 PROVE i \in S
    <3>1. i \in 1 .. n + 1 /\ i < x
      OBVIOUS
    <3>. QED
      BY <3>1, <1>1
  <2>. QED
    BY <2>1, <2>2
<1>3. Cardinality(1 .. x - 1) = x - 1
  <2>1. x - 1 \in Int /\ x - 1 >= 0
    OBVIOUS
  <2>. QED
    BY <2>1, FS_Interval
<1>. QED
  BY <1>1, <1>2, <1>3

\* A finite set of naturals has a bound.
LEMMA Bounded ==
  ASSUME NEW S \in SUBSET Nat, IsFiniteSet(S)
  PROVE  \E t \in Nat : \A x \in S : x < t
<1>. DEFINE n == Cardinality(S)
<1>0. n \in Nat /\ ExistsBijection(1 .. n, S)
  BY FS_CardinalityType
<1>. HIDE DEF n
<1>1. PICK f \in [1 .. n -> S] : \A x \in S : \E i \in 1 .. n : f[i] = x
  BY <1>0 DEF ExistsBijection, Bijection, Surjection
<1>. USE <1>0
<1>. DEFINE T == {m \in Nat : m <= n => \E t \in Nat : \A i \in 1 .. m : f[i] < t}
<1>2. 0 \in T
  <2>1. \A i \in 1 .. 0 : f[i] < 0
    OBVIOUS
  <2>. QED
    BY <2>1
<1>3. ASSUME NEW m \in T PROVE m + 1 \in T
  <2>. SUFFICES ASSUME m + 1 <= n PROVE \E t \in Nat : \A i \in 1 .. m + 1 : f[i] < t
    OBVIOUS
  <2>1. PICK t \in Nat : \A i \in 1 .. m : f[i] < t
    OBVIOUS
  <2>2. f[m + 1] \in Nat /\ \A i \in 1 .. m : f[i] \in Nat
    <3>1. m \in Nat /\ m + 1 \in 1 .. n /\ \A i \in 1 .. m : i \in 1 .. n
      OBVIOUS
    <3>2. \A i \in 1 .. n : f[i] \in S
      OBVIOUS
    <3>. QED
      BY <3>1, <3>2
  <2>. DEFINE u == IF f[m + 1] < t THEN t ELSE f[m + 1] + 1
  <2>3. u \in Nat /\ \A i \in 1 .. m + 1 : f[i] < u
    <3>1. u \in Nat /\ t <= u /\ f[m + 1] < u
      BY <2>2
    <3>2. \A i \in 1 .. m + 1 : i \in 1 .. m \/ i = m + 1
      OBVIOUS
    <3>. QED
      BY <3>1, <3>2, <2>1, <2>2
  <2>. QED
    BY <2>3
<1>4. T = Nat
  <2>. HIDE DEF T
  <2>1. T \in SUBSET Nat
    BY DEF T
  <2>. QED
    BY <1>2, <1>3, <2>1, SetInduction
<1>5. PICK t \in Nat : \A i \in 1 .. n : f[i] < t
  <2>1. n \in T
    BY <1>4
  <2>2. n <= n
    OBVIOUS
  <2>. QED
    BY <2>1, <2>2
<1>. QED
  BY <1>1, <1>5

\* Above every key.
Top == CHOOSE t \in Nat : \A x \in Keys : x < t

\* There is such a bound: the keys are finitely many.
LEMMA TopFact == Top \in Nat /\ \A x \in Keys : x < Top
<1>1. \E t \in Nat : \A x \in Keys : x < t
  BY Bounded, BPTreeAssumption
<1>. QED
  BY <1>1 DEF Top

\* create_node gives an address that is free, as long as there is one.
LEMMA Fresh ==
  ASSUME NEW h, Addrs \ DOMAIN h # {}
  PROVE  create_node(h) \in Addrs /\ create_node(h) \notin DOMAIN h /\ create_node(h) # Null
<1>1. PICK x \in Addrs \ DOMAIN h : \A y \in Addrs \ DOMAIN h : x <= y
  BY Least, BPTreeAssumption
<1>. QED
  BY <1>1, BPTreeAssumption DEF create_node, Min

\* One sequence after the other.
LEMMA ConcatFacts ==
  ASSUME NEW S, NEW s \in Seq(S), NEW t \in Seq(S)
  PROVE  /\ s \o t \in Seq(S)
         /\ Len(s \o t) = Len(s) + Len(t)
         /\ \A i \in 1 .. Len(s) + Len(t) :
              (s \o t)[i] = IF i <= Len(s) THEN s[i] ELSE t[i - Len(s)]
OBVIOUS

\* The element goes to its place, those from there on move up by one.
LEMMA InsertAtFacts ==
  ASSUME NEW S, NEW s \in Seq(S), NEW e \in S, NEW at \in 1 .. Len(s) + 1
  PROVE  /\ InsertAt(s, at, e) \in Seq(S)
         /\ Len(InsertAt(s, at, e)) = Len(s) + 1
         /\ \A i \in 1 .. Len(s) + 1 :
              InsertAt(s, at, e)[i] = IF i < at THEN s[i] ELSE IF i = at THEN e ELSE s[i - 1]
<1>. DEFINE a == SubSeq(s, 1, at - 1)
            c == SubSeq(s, at, Len(s))
<1>1. /\ a \in Seq(S) /\ Len(a) = at - 1 /\ \A i \in 1 .. at - 1 : a[i] = s[i]
      /\ c \in Seq(S) /\ Len(c) = Len(s) - at + 1
      /\ \A i \in 1 .. Len(s) - at + 1 : c[i] = s[at + i - 1]
  OBVIOUS
<1>2. InsertAt(s, at, e) = a \o <<e>> \o c
  BY DEF InsertAt
<1>. HIDE DEF a, c
<1>3. a \o <<e>> \in Seq(S) /\ Len(a \o <<e>>) = at
      /\ \A i \in 1 .. at : (a \o <<e>>)[i] = IF i < at THEN s[i] ELSE e
  BY <1>1
<1>. DEFINE ae == a \o <<e>>
<1>6. ae \in Seq(S) /\ Len(ae) = at
  BY <1>3
<1>. HIDE DEF ae
<1>4. /\ ae \o c \in Seq(S) /\ Len(ae \o c) = Len(s) + 1
      /\ \A i \in 1 .. Len(s) + 1 : (ae \o c)[i] = IF i <= at THEN ae[i] ELSE c[i - at]
  <2>1. at + (Len(s) - at + 1) = Len(s) + 1
    OBVIOUS
  <2>2. /\ ae \o c \in Seq(S) /\ Len(ae \o c) = Len(ae) + Len(c)
        /\ \A i \in 1 .. Len(ae) + Len(c) :
             (ae \o c)[i] = IF i <= Len(ae) THEN ae[i] ELSE c[i - Len(ae)]
    <3>1. c \in Seq(S)
      BY <1>1
    <3>. QED
      BY <1>6, <3>1, ConcatFacts
  <2>3. Len(c) = Len(s) - at + 1
    BY <1>1
  <2>. QED
    BY <1>6, <2>1, <2>2, <2>3
<1>5. \A i \in 1 .. Len(s) + 1 : i > at => i - at \in 1 .. Len(s) - at + 1 /\ c[i - at] = s[i - 1]
  BY <1>1
<1>. QED
  BY <1>2, <1>3, <1>4, <1>5 DEF ae

\* A stretch of a sequence.
LEMMA SubSeqFacts ==
  ASSUME NEW S, NEW s \in Seq(S), NEW i \in 1 .. Len(s) + 1, NEW j \in i - 1 .. Len(s)
  PROVE  /\ SubSeq(s, i, j) \in Seq(S)
         /\ Len(SubSeq(s, i, j)) = j - i + 1
         /\ \A n \in 1 .. j - i + 1 : SubSeq(s, i, j)[n] = s[i + n - 1]
OBVIOUS
-----------------------------------------------------------------------------
(***************************************************************************)
(* Nodes.  Each node is the home of the keys from low up to, not           *)
(* including, high.                                                        *)
(***************************************************************************)
Vals  == UNION {Offsets[j] : j \in Keys}
Nodes == [is_leaf : BOOLEAN, keys : Seq(Keys), values : Seq(Vals),
          children : Seq(Addrs), next : Addrs \cup {Null}]

Keyed(n, low, high, cap) ==
  /\ Len(n.keys) \in 1 .. cap
  /\ Ascending(n.keys)
  /\ \A i \in 1 .. Len(n.keys) : low <= n.keys[i] /\ n.keys[i] < high

LeafOK(n, low, high, cap) ==
  /\ n.is_leaf /\ Keyed(n, low, high, cap)
  /\ Len(n.values) = Len(n.keys) /\ n.children = <<>>

\* The i-th bound between the children of n, the outer ones included.
Edge(n, low, high, i) == IF i = 0 THEN low ELSE IF i > Len(n.keys) THEN high ELSE n.keys[i]

\* The i-th child of n is at c, one level down, and is home to what lies
\* between the separators on its two sides.
ChildOK(n, height, low, high, i, ht, lo, hi, c) ==
  /\ ht[c] + 1 = height
  /\ lo[c] = Edge(n, low, high, i - 1) /\ hi[c] = Edge(n, low, high, i)

\* The bounds of the children, from the left to the right end.
EdgesAscend(n, low, high) ==
  \A i, j \in 0 .. Len(n.keys) + 1 : i < j => Edge(n, low, high, i) < Edge(n, low, high, j)

InnerOK(n, height, low, high, cap, ht, lo, hi, D) ==
  /\ ~n.is_leaf /\ Len(n.keys) \in 1 .. cap /\ EdgesAscend(n, low, high)
  /\ Len(n.children) = Len(n.keys) + 1
  /\ \A i \in 1 .. Len(n.keys) + 1 :
       n.children[i] \in D /\ ChildOK(n, height, low, high, i, ht, lo, hi, n.children[i])

NodeHas(n, j, w) == n.is_leaf /\ \E i \in 1 .. Len(n.keys) : n.keys[i] = j /\ n.values[i] = w

\* The members of a sequence of keys are numbers.
LEMMA KeySeq ==
  ASSUME NEW s \in Seq(Keys)
  PROVE  /\ Len(s) \in Nat /\ DOMAIN s = 1 .. Len(s)
         /\ \A i \in 1 .. Len(s) : s[i] \in Keys /\ s[i] \in Nat
<1>1. Keys \subseteq Nat
  BY BPTreeAssumption
<1>2. Len(s) \in Nat /\ DOMAIN s = 1 .. Len(s) /\ \A i \in 1 .. Len(s) : s[i] \in Keys
  OBVIOUS
<1>. QED
  BY <1>1, <1>2

\* What insert_into_leaf makes of the leaf before it looks at its size.
LeafAt(n, j) == 1 + Cardinality({i \in DOMAIN n.keys : n.keys[i] < j})
Fuller(n, at, j, w) == Leaf(InsertAt(n.keys, at, j), InsertAt(n.values, at, w), n.next)

\* The place of a key among ascending ones.
LEMMA LeafPlace ==
  ASSUME NEW n \in Nodes, Ascending(n.keys), NEW j \in Keys
  PROVE  /\ LeafAt(n, j) \in 1 .. Len(n.keys) + 1
         /\ \A i \in 1 .. Len(n.keys) : i < LeafAt(n, j) <=> n.keys[i] < j
<1>. DEFINE S == {i \in DOMAIN n.keys : n.keys[i] < j}
<1>1. n.keys \in Seq(Keys) /\ DOMAIN n.keys = 1 .. Len(n.keys) /\ Len(n.keys) \in Nat
  BY DEF Nodes
<1>2. Keys \subseteq Nat
  BY BPTreeAssumption
<1>3. \A i \in 1 .. Len(n.keys) : n.keys[i] \in Keys /\ n.keys[i] \in Nat
  BY <1>1, KeySeq
<1>4. S \in SUBSET (1 .. Len(n.keys)) /\ \A i \in S : \A l \in 1 .. i : l \in S
  BY <1>1, <1>2, <1>3 DEF Ascending
<1>5. Cardinality(S) \in 0 .. Len(n.keys) /\ S = 1 .. Cardinality(S)
  <2>. HIDE DEF S
  <2>. QED
    BY <1>1, <1>4, InitialStretch
<1>6. \A i \in 1 .. Len(n.keys) : i <= Cardinality(S) <=> n.keys[i] < j
  BY <1>1, <1>5
<1>7. LeafAt(n, j) = 1 + Cardinality(S)
  BY DEF LeafAt
<1>. HIDE DEF S
<1>. QED
  BY <1>1, <1>5, <1>6, <1>7

\* A leaf takes a key that it does not have and stays sorted.
LEMMA LeafTakes ==
  ASSUME NEW n \in Nodes, NEW low \in Nat, NEW high \in Nat, LeafOK(n, low, high, MaxKeys),
         NEW j \in Keys, low <= j, j < high, NEW w \in Vals,
         ~(LeafAt(n, j) <= Len(n.keys) /\ n.keys[LeafAt(n, j)] = j)
  PROVE  LET full == Fuller(n, LeafAt(n, j), j, w)
         IN  /\ full \in Nodes
             /\ Len(full.keys) = Len(n.keys) + 1
             /\ LeafOK(full, low, high, MaxKeys + 1)
             /\ full.next = n.next
             /\ \A i, x : NodeHas(full, i, x) <=> NodeHas(n, i, x) \/ (i = j /\ x = w)
             /\ \A i \in 1 .. Len(n.keys) : n.keys[i] # j
<1>. DEFINE nk   == n.keys
            nv   == n.values
            at   == LeafAt(n, j)
            ks   == InsertAt(nk, at, j)
            vs   == InsertAt(nv, at, w)
            full == Fuller(n, at, j, w)
<1>1. /\ nk \in Seq(Keys) /\ DOMAIN nk = 1 .. Len(nk) /\ Len(nk) \in Nat
      /\ nv \in Seq(Vals) /\ Len(nv) = Len(nk) /\ n.next \in Addrs \cup {Null}
      /\ Len(nk) \in 1 .. MaxKeys /\ Ascending(nk) /\ n.is_leaf
      /\ \A i \in 1 .. Len(nk) : low <= nk[i] /\ nk[i] < high
  BY DEF Nodes, LeafOK, Keyed
<1>2. Keys \subseteq Nat /\ MaxKeys \in Nat
  BY BPTreeAssumption
<1>3. \A i \in 1 .. Len(nk) : nk[i] \in Keys /\ nk[i] \in Nat
  BY <1>1, KeySeq
<1>4. at \in 1 .. Len(nk) + 1 /\ \A i \in 1 .. Len(nk) : i < at <=> nk[i] < j
  BY <1>1, LeafPlace
<1>9. ~(at <= Len(nk) /\ nk[at] = j)
  OBVIOUS
<1>. HIDE DEF at, nk, nv
<1>5. /\ ks \in Seq(Keys) /\ Len(ks) = Len(nk) + 1
      /\ \A i \in 1 .. Len(nk) + 1 :
           ks[i] = IF i < at THEN nk[i] ELSE IF i = at THEN j ELSE nk[i - 1]
  <2>1. nk \in Seq(Keys)
    BY <1>1
  <2>. QED
    BY <1>4, <2>1, InsertAtFacts
<1>6. /\ vs \in Seq(Vals) /\ Len(vs) = Len(nk) + 1
      /\ \A i \in 1 .. Len(nk) + 1 :
           vs[i] = IF i < at THEN nv[i] ELSE IF i = at THEN w ELSE nv[i - 1]
  <2>1. at \in 1 .. Len(nv) + 1
    BY <1>1, <1>4
  <2>. QED
    BY <1>1, <2>1, InsertAtFacts
<1>. HIDE DEF ks, vs
<1>7. /\ full = [is_leaf |-> TRUE, keys |-> ks, values |-> vs, children |-> <<>>, next |-> n.next]
      /\ full \in Nodes
  BY <1>1, <1>5, <1>6 DEF Fuller, Leaf, Nodes, ks, vs, nk, nv
<1>8. /\ full.keys = ks /\ full.values = vs /\ full.children = <<>> /\ full.next = n.next
      /\ full.is_leaf
  BY <1>7
<1>. HIDE DEF full
<1>10. ASSUME NEW i \in 1 .. Len(nk) PROVE nk[i] # j /\ (i >= at => nk[i] > j)
  <2>1. i < at => nk[i] < j
    BY <1>4
  <2>2. CASE i >= at
    <3>1. at \in 1 .. Len(nk) /\ nk[at] \in Nat /\ nk[at] >= j /\ nk[at] # j /\ j \in Nat
      BY <1>2, <1>3, <1>4, <1>9, <2>2
    <3>2. i > at => nk[at] < nk[i]
      BY <1>1, <3>1 DEF Ascending
    <3>3. i = at \/ i > at
      BY <2>2, <1>4
    <3>. QED
      BY <3>1, <3>2, <3>3, <1>3
  <2>. QED
    BY <2>1, <2>2, <1>2, <1>3, <1>4
<1>16. ASSUME NEW i \in 1 .. Len(nk) + 1
       PROVE  /\ i < at => i \in 1 .. Len(nk) /\ ks[i] = nk[i] /\ nk[i] < j
              /\ i = at => ks[i] = j
              /\ i > at => i - 1 \in 1 .. Len(nk) /\ ks[i] = nk[i - 1] /\ nk[i - 1] > j
  <2>1. at \in Nat /\ Len(nk) \in Nat /\ i \in Nat
    BY <1>1, <1>4
  <2>2. i < at => i \in 1 .. Len(nk)
    BY <2>1, <1>4
  <2>3. i > at => i - 1 \in 1 .. Len(nk) /\ i - 1 >= at
    BY <2>1, <1>4
  <2>. QED
    BY <2>1, <2>2, <2>3, <1>4, <1>5, <1>10
<1>11. ASSUME NEW i \in 1 .. Len(nk) + 1
       PROVE  ks[i] \in Nat /\ low <= ks[i] /\ ks[i] < high
  <2>1. i < at \/ i = at \/ i > at
    BY <1>4
  <2>. QED
    BY <2>1, <1>1, <1>2, <1>3, <1>16
<1>12. ASSUME NEW i \in 1 .. Len(nk) + 1, NEW l \in 1 .. Len(nk) + 1, i < l
       PROVE  ks[i] < ks[l]
  <2>1. \A x, y \in 1 .. Len(nk) : x < y => nk[x] < nk[y]
    BY <1>1 DEF Ascending
  <2>2. CASE l <= at
    <3>1. i < at /\ (l < at \/ l = at)
      BY <1>4, <1>12, <2>2
    <3>. QED
      BY <1>12, <1>16, <2>1, <3>1
  <2>3. CASE l > at /\ i <= at
    <3>1. i < at \/ i = at
      BY <1>4, <2>3
    <3>2. l - 1 \in 1 .. Len(nk) /\ ks[l] = nk[l - 1] /\ nk[l - 1] > j
      BY <2>3, <1>16
    <3>3. i < at => i \in 1 .. Len(nk) /\ ks[i] = nk[i] /\ nk[i] < j
      BY <1>16
    <3>. QED
      BY <1>2, <1>3, <1>16, <3>1, <3>2, <3>3
  <2>4. CASE i > at
    <3>1. l > at /\ i - 1 < l - 1
      BY <1>4, <1>12, <2>4
    <3>. QED
      BY <1>16, <2>1, <2>4, <3>1
  <2>. QED
    BY <2>2, <2>3, <2>4, <1>4
<1>13. LeafOK(full, low, high, MaxKeys + 1)
  <2>1. DOMAIN ks = 1 .. Len(nk) + 1
    BY <1>5
  <2>2. Ascending(ks)
    BY <1>12, <2>1 DEF Ascending
  <2>3. Len(ks) \in 1 .. MaxKeys + 1 /\ Len(vs) = Len(ks)
    BY <1>1, <1>2, <1>5, <1>6
  <2>. QED
    BY <1>5, <1>8, <1>11, <2>2, <2>3 DEF LeafOK, Keyed
<1>14. ASSUME NEW i, NEW x, NodeHas(full, i, x) PROVE NodeHas(n, i, x) \/ (i = j /\ x = w)
  <2>1. PICK l \in 1 .. Len(nk) + 1 : ks[l] = i /\ vs[l] = x
    BY <1>14, <1>5, <1>8 DEF NodeHas, nk, nv
  <2>2. CASE l < at
    <3>1. l \in 1 .. Len(nk) /\ nk[l] = i /\ nv[l] = x
      BY <2>1, <2>2, <1>4, <1>5, <1>6
    <3>. QED
      BY <3>1, <1>1 DEF NodeHas, nk, nv
  <2>3. CASE l = at
    BY <2>1, <2>3, <1>5, <1>6
  <2>4. CASE l > at
    <3>1. l - 1 \in 1 .. Len(nk) /\ nk[l - 1] = i /\ nv[l - 1] = x
      BY <2>1, <2>4, <1>4, <1>5, <1>6
    <3>. QED
      BY <3>1, <1>1 DEF NodeHas, nk, nv
  <2>. QED
    BY <2>2, <2>3, <2>4, <1>4
<1>15. ASSUME NEW i, NEW x, NodeHas(n, i, x) \/ (i = j /\ x = w) PROVE NodeHas(full, i, x)
  <2>1. CASE i = j /\ x = w
    <3>1. at \in 1 .. Len(ks) /\ ks[at] = i /\ vs[at] = x
      BY <2>1, <1>4, <1>5, <1>6
    <3>. QED
      BY <3>1, <1>8 DEF NodeHas, nk, nv
  <2>2. CASE NodeHas(n, i, x)
    <3>1. PICK l \in 1 .. Len(nk) : nk[l] = i /\ nv[l] = x
      BY <2>2 DEF NodeHas, nk, nv
    <3>2. CASE l < at
      <4>1. l \in 1 .. Len(ks) /\ ks[l] = i /\ vs[l] = x
        BY <3>1, <3>2, <1>5, <1>6
      <4>. QED
        BY <4>1, <1>8 DEF NodeHas, nk, nv
    <3>3. CASE l >= at
      <4>1. l + 1 \in 1 .. Len(nk) + 1 /\ (l + 1) - 1 = l /\ ~(l + 1 < at) /\ l + 1 # at
        BY <3>3, <1>4
      <4>2. l + 1 \in 1 .. Len(ks) /\ ks[l + 1] = i /\ vs[l + 1] = x
        BY <3>1, <4>1, <1>5, <1>6
      <4>. QED
        BY <4>2, <1>8 DEF NodeHas, nk, nv
    <3>. QED
      BY <3>2, <3>3, <1>4
  <2>. QED
    BY <1>15, <2>1, <2>2
<1>. QED
  BY <1>5, <1>7, <1>8, <1>10, <1>13, <1>14, <1>15 DEF full, at, nk, nv

\* The two leaves that SplitLeaf makes of a leaf that is too full.
Half(n)     == Len(n.keys) \div 2
Upper(n)    == Leaf(SubSeq(n.keys, Half(n) + 1, Len(n.keys)),
                    SubSeq(n.values, Half(n) + 1, Len(n.values)), n.next)
Lower(n, r) == Leaf(SubSeq(n.keys, 1, Half(n)), SubSeq(n.values, 1, Half(n)), r)

\* Both are leaves that fit, and between them they have what the leaf had.
LEMMA LeafHalves ==
  ASSUME NEW n \in Nodes, NEW low \in Nat, NEW high \in Nat, LeafOK(n, low, high, MaxKeys + 1),
         Len(n.keys) > MaxKeys, NEW r \in Addrs
  PROVE  LET p == Upper(n).keys[1]
         IN  /\ Lower(n, r) \in Nodes /\ Upper(n) \in Nodes
             /\ p \in Keys /\ p \in Nat /\ low < p /\ p < high
             /\ LeafOK(Lower(n, r), low, p, MaxKeys) /\ LeafOK(Upper(n), p, high, MaxKeys)
             /\ Lower(n, r).next = r /\ Upper(n).next = n.next
             /\ \A i, x : NodeHas(n, i, x) <=> NodeHas(Lower(n, r), i, x) \/ NodeHas(Upper(n), i, x)
<1>. DEFINE nk == n.keys
            nv == n.values
            L  == Len(nk)
            H  == L \div 2
            lk == SubSeq(nk, 1, H)
            lv == SubSeq(nv, 1, H)
            uk == SubSeq(nk, H + 1, L)
            uv == SubSeq(nv, H + 1, L)
<1>1. /\ nk \in Seq(Keys) /\ nv \in Seq(Vals) /\ Len(nv) = L /\ n.next \in Addrs \cup {Null}
      /\ n.is_leaf /\ L \in 1 .. MaxKeys + 1 /\ Ascending(nk) /\ DOMAIN nk = 1 .. L
      /\ \A i \in 1 .. L : low <= nk[i] /\ nk[i] < high
  BY DEF Nodes, LeafOK, Keyed
<1>2. \A i \in 1 .. L : nk[i] \in Keys /\ nk[i] \in Nat
  BY <1>1, KeySeq
<1>3. L \in Nat /\ L = MaxKeys + 1 /\ MaxKeys \in Nat /\ L >= 3
  BY <1>1, BPTreeAssumption
<1>4. H \in Nat /\ 1 <= H /\ H <= MaxKeys /\ H < L /\ L - H <= MaxKeys
  BY <1>3
<1>5. \A x, y \in 1 .. L : x < y => nk[x] < nk[y]
  BY <1>1 DEF Ascending
<1>6. LeafOK(n, low, high, MaxKeys + 1) /\ n \in Nodes
  OBVIOUS
<1>. HIDE DEF nk, nv, L, H
<1>7. /\ lk \in Seq(Keys) /\ Len(lk) = H /\ \A i \in 1 .. H : lk[i] = nk[i]
      /\ uk \in Seq(Keys) /\ Len(uk) = L - H /\ \A i \in 1 .. L - H : uk[i] = nk[H + i]
  <2>1. nk \in Seq(Keys) /\ Len(nk) = L
    BY <1>1 DEF L
  <2>2. 1 \in 1 .. L + 1 /\ H \in 0 .. L /\ H + 1 \in 1 .. L + 1 /\ L \in H .. L
    BY <1>3, <1>4
  <2>. QED
    BY <1>3, <1>4, <2>1, <2>2, SubSeqFacts
<1>8. /\ lv \in Seq(Vals) /\ Len(lv) = H /\ \A i \in 1 .. H : lv[i] = nv[i]
      /\ uv \in Seq(Vals) /\ Len(uv) = L - H /\ \A i \in 1 .. L - H : uv[i] = nv[H + i]
  <2>1. nv \in Seq(Vals) /\ Len(nv) = L
    BY <1>1
  <2>2. 1 \in 1 .. L + 1 /\ H \in 0 .. L /\ H + 1 \in 1 .. L + 1 /\ L \in H .. L
    BY <1>3, <1>4
  <2>. QED
    BY <1>3, <1>4, <2>1, <2>2, SubSeqFacts
<1>. HIDE DEF lk, lv, uk, uv
<1>9. Len(n.values) = L /\ Len(n.keys) = L
  BY <1>1 DEF nv, nk, L
<1>10. /\ Lower(n, r) = [is_leaf |-> TRUE, keys |-> lk, values |-> lv, children |-> <<>>, next |-> r]
       /\ Upper(n) = [is_leaf |-> TRUE, keys |-> uk, values |-> uv, children |-> <<>>, next |-> n.next]
  BY <1>9 DEF Lower, Upper, Leaf, Half, lk, lv, uk, uv, nk, nv, H
<1>. DEFINE low2 == Lower(n, r)
            upp2 == Upper(n)
<1>11. /\ low2.is_leaf /\ low2.keys = lk /\ low2.values = lv /\ low2.children = <<>> /\ low2.next = r
       /\ upp2.is_leaf /\ upp2.keys = uk /\ upp2.values = uv /\ upp2.children = <<>>
       /\ upp2.next = n.next
  BY <1>10
<1>12. low2 \in Nodes /\ upp2 \in Nodes
  BY <1>1, <1>7, <1>8, <1>10 DEF Nodes
<1>13. 1 \in 1 .. L - H /\ uk[1] = nk[H + 1] /\ H + 1 \in 1 .. L
  BY <1>3, <1>4, <1>7
<1>14. uk[1] \in Keys /\ uk[1] \in Nat /\ low < uk[1] /\ uk[1] < high
  <2>1. 1 \in 1 .. L /\ nk[1] < nk[H + 1] /\ low <= nk[1]
    BY <1>1, <1>3, <1>4, <1>5, <1>13
  <2>. QED
    BY <1>1, <1>2, <1>13, <2>1
<1>15. LeafOK(low2, low, uk[1], MaxKeys)
  <2>1. DOMAIN lk = 1 .. H
    BY <1>7
  <2>2. \A i \in 1 .. H : i \in 1 .. L /\ i < H + 1
    BY <1>3, <1>4
  <2>3. Ascending(lk)
    BY <1>5, <1>7, <2>1, <2>2 DEF Ascending
  <2>4. \A i \in 1 .. H : low <= lk[i] /\ lk[i] < uk[1]
    BY <1>1, <1>5, <1>7, <1>13, <2>2
  <2>5. Len(lk) \in 1 .. MaxKeys
    BY <1>3, <1>4, <1>7
  <2>. QED
    BY <1>7, <1>8, <1>11, <2>3, <2>4, <2>5 DEF LeafOK, Keyed
<1>16. LeafOK(upp2, uk[1], high, MaxKeys)
  <2>1. DOMAIN uk = 1 .. L - H
    BY <1>7
  <2>2. \A i \in 1 .. L - H : H + i \in 1 .. L
    BY <1>3, <1>4
  <2>6. \A i, l \in 1 .. L - H : i < l => H + i < H + l
    BY <1>3, <1>4
  <2>3. Ascending(uk)
    BY <1>5, <1>7, <2>1, <2>2, <2>6 DEF Ascending
  <2>4. ASSUME NEW i \in 1 .. L - H PROVE uk[1] <= uk[i] /\ uk[i] < high
    <3>1. i = 1 \/ 1 < i
      OBVIOUS
    <3>2. 1 < i => uk[1] < uk[i]
      BY <1>13, <2>1, <2>3 DEF Ascending
    <3>3. uk[i] \in Nat /\ uk[i] < high
      BY <1>1, <1>2, <1>7, <2>2
    <3>. QED
      BY <1>14, <3>1, <3>2, <3>3
  <2>5. Len(uk) \in 1 .. MaxKeys
    BY <1>3, <1>4, <1>7
  <2>. QED
    BY <1>7, <1>8, <1>11, <2>3, <2>4, <2>5 DEF LeafOK, Keyed
<1>17. ASSUME NEW i, NEW x PROVE NodeHas(n, i, x) <=> NodeHas(low2, i, x) \/ NodeHas(upp2, i, x)
  <2>1. NodeHas(n, i, x) <=> \E l \in 1 .. L : nk[l] = i /\ nv[l] = x
    BY <1>1 DEF NodeHas, nk, nv, L
  <2>2. NodeHas(low2, i, x) <=> \E l \in 1 .. H : nk[l] = i /\ nv[l] = x
    BY <1>7, <1>8, <1>11 DEF NodeHas
  <2>3. NodeHas(upp2, i, x) <=> \E l \in 1 .. L - H : nk[H + l] = i /\ nv[H + l] = x
    BY <1>7, <1>8, <1>11 DEF NodeHas
  <2>4. ASSUME NEW l \in 1 .. L PROVE l \in 1 .. H \/ (l - H \in 1 .. L - H /\ H + (l - H) = l)
    BY <1>3, <1>4
  <2>5. /\ \A l \in 1 .. H : l \in 1 .. L
        /\ \A l \in 1 .. L - H : H + l \in 1 .. L
    BY <1>3, <1>4
  <2>6. NodeHas(n, i, x) => NodeHas(low2, i, x) \/ NodeHas(upp2, i, x)
    <3>. SUFFICES ASSUME NodeHas(n, i, x) PROVE NodeHas(low2, i, x) \/ NodeHas(upp2, i, x)
      OBVIOUS
    <3>1. PICK l \in 1 .. L : nk[l] = i /\ nv[l] = x
      BY <2>1
    <3>. QED
      BY <2>2, <2>3, <2>4, <3>1
  <2>7. NodeHas(low2, i, x) \/ NodeHas(upp2, i, x) => NodeHas(n, i, x)
    BY <2>1, <2>2, <2>3, <2>5
  <2>. QED
    BY <2>6, <2>7
<1>. QED
  BY <1>11, <1>12, <1>14, <1>15, <1>16, <1>17

\* The numbers that bound the children.
LEMMA EdgeType ==
  ASSUME NEW n \in Nodes, NEW low \in Nat, NEW high \in Nat
  PROVE  \A i \in 0 .. Len(n.keys) + 1 : Edge(n, low, high, i) \in Nat
<1>1. Len(n.keys) \in Nat /\ \A i \in 1 .. Len(n.keys) : n.keys[i] \in Nat
  <2>1. n.keys \in Seq(Keys)
    BY DEF Nodes
  <2>. QED
    BY <2>1, KeySeq
<1>. QED
  BY <1>1 DEF Edge

\* A node whose bounds ascend has ascending keys within its own bounds.
LEMMA EdgesKeyed ==
  ASSUME NEW n \in Nodes, NEW low \in Nat, NEW high \in Nat, EdgesAscend(n, low, high),
         Len(n.keys) >= 1
  PROVE  /\ Ascending(n.keys) /\ low < high
         /\ \A i \in 1 .. Len(n.keys) : low < n.keys[i] /\ n.keys[i] < high
<1>1. Len(n.keys) \in Nat /\ DOMAIN n.keys = 1 .. Len(n.keys)
      /\ \A i \in 1 .. Len(n.keys) : n.keys[i] \in Nat
  <2>1. n.keys \in Seq(Keys)
    BY DEF Nodes
  <2>. QED
    BY <2>1, KeySeq
<1>2. \A i \in 1 .. Len(n.keys) : i \in 0 .. Len(n.keys) + 1 /\ Edge(n, low, high, i) = n.keys[i]
  BY <1>1 DEF Edge
<1>3. Ascending(n.keys)
  BY <1>1, <1>2 DEF EdgesAscend, Ascending
<1>4. /\ 0 \in 0 .. Len(n.keys) + 1 /\ Edge(n, low, high, 0) = low
      /\ Len(n.keys) + 1 \in 0 .. Len(n.keys) + 1 /\ Edge(n, low, high, Len(n.keys) + 1) = high
  BY <1>1 DEF Edge
<1>5. \A i \in 1 .. Len(n.keys) : low < n.keys[i] /\ n.keys[i] < high
  <2>. SUFFICES ASSUME NEW i \in 1 .. Len(n.keys) PROVE low < n.keys[i] /\ n.keys[i] < high
    OBVIOUS
  <2>1. 0 < i /\ i < Len(n.keys) + 1
    BY <1>1
  <2>. QED
    BY <1>2, <1>4, <2>1 DEF EdgesAscend
<1>6. low < high
  <2>1. 0 < Len(n.keys) + 1
    BY <1>1
  <2>. QED
    BY <1>4, <2>1 DEF EdgesAscend
<1>. QED
  BY <1>3, <1>5, <1>6

\* find_child_index leads to the child that is home to the key.
LEMMA ChildPlace ==
  ASSUME NEW n \in Nodes, NEW low \in Nat, NEW high \in Nat, EdgesAscend(n, low, high),
         Len(n.keys) >= 1, NEW j \in Keys, low <= j, j < high
  PROVE  /\ find_child_index(n, j) \in 1 .. Len(n.keys) + 1
         /\ Edge(n, low, high, find_child_index(n, j) - 1) <= j
         /\ j < Edge(n, low, high, find_child_index(n, j))
<1>. DEFINE nk == n.keys
            S  == {i \in DOMAIN nk : j >= nk[i]}
            at == find_child_index(n, j)
<1>1. nk \in Seq(Keys) /\ Ascending(nk)
  BY EdgesKeyed DEF Nodes
<1>2. /\ Len(nk) \in Nat /\ DOMAIN nk = 1 .. Len(nk) /\ j \in Nat
      /\ \A i \in 1 .. Len(nk) : nk[i] \in Nat
  BY <1>1, KeySeq, BPTreeAssumption
<1>3. S \in SUBSET (1 .. Len(nk)) /\ \A i \in S : \A l \in 1 .. i : l \in S
  <2>. HIDE DEF nk
  <2>1. \A x, y \in 1 .. Len(nk) : x < y => nk[x] < nk[y]
    BY <1>1, <1>2 DEF Ascending
  <2>2. ASSUME NEW i \in S, NEW l \in 1 .. i PROVE l \in S
    <3>1. i \in 1 .. Len(nk) /\ l \in 1 .. Len(nk) /\ (l = i \/ l < i) /\ j >= nk[i]
      BY <1>2
    <3>. QED
      BY <1>2, <2>1, <3>1
  <2>. QED
    BY <1>2, <2>2
<1>4. Cardinality(S) \in 0 .. Len(nk) /\ S = 1 .. Cardinality(S)
  <2>. HIDE DEF S
  <2>. QED
    BY <1>2, <1>3, InitialStretch
<1>5. at = 1 + Cardinality(S)
  BY DEF find_child_index
<1>6. \A i \in 1 .. Len(nk) : i < at <=> nk[i] <= j
  <2>1. \A i \in 1 .. Len(nk) : i \in S <=> nk[i] <= j
    BY <1>2
  <2>. HIDE DEF S, at, nk
  <2>. QED
    BY <1>2, <1>4, <1>5, <2>1
<1>7. at \in 1 .. Len(nk) + 1
  <2>. HIDE DEF S, at, nk
  <2>. QED
    BY <1>2, <1>4, <1>5
<1>. HIDE DEF S, at
<1>8. Edge(n, low, high, at - 1) <= j
  <2>1. CASE at = 1
    BY <2>1 DEF Edge
  <2>2. CASE at > 1
    <3>1. at - 1 \in 1 .. Len(nk) /\ at - 1 < at
      BY <1>2, <1>7, <2>2
    <3>. QED
      BY <1>2, <1>6, <3>1 DEF Edge
  <2>. QED
    BY <1>7, <2>1, <2>2
<1>9. j < Edge(n, low, high, at)
  <2>1. CASE at = Len(nk) + 1
    BY <1>2, <2>1 DEF Edge
  <2>2. CASE at <= Len(nk)
    <3>1. at \in 1 .. Len(nk)
      BY <1>2, <1>7, <2>2
    <3>2. ~(nk[at] <= j)
      BY <1>2, <1>6, <3>1
    <3>. QED
      BY <1>2, <3>1, <3>2 DEF Edge
  <2>. QED
    BY <1>2, <1>7, <2>1, <2>2
<1>. QED
  BY <1>7, <1>8, <1>9 DEF at

\* An internal node with one more separator and one more child.
Wider(n, at, p, c) == Internal(InsertAt(n.keys, at, p), InsertAt(n.children, at + 1, c))

\* The child at has split at p, and c is home to the upper half of its keys.
Taken(n, low, high, at, p, c, ht, lo, hi, D, ht2, lo2, hi2, D2) ==
  /\ D \subseteq D2 /\ c \in D2
  /\ Edge(n, low, high, at - 1) < p /\ p < Edge(n, low, high, at)
  /\ lo2[n.children[at]] = lo[n.children[at]] /\ hi2[n.children[at]] = p
  /\ ht2[n.children[at]] = ht[n.children[at]]
  /\ lo2[c] = p /\ hi2[c] = hi[n.children[at]] /\ ht2[c] = ht[n.children[at]]
  /\ \A i \in 1 .. Len(n.keys) + 1 : i # at =>
       /\ ht2[n.children[i]] = ht[n.children[i]]
       /\ lo2[n.children[i]] = lo[n.children[i]] /\ hi2[n.children[i]] = hi[n.children[i]]

\* The node takes p and the new child in.
LEMMA InnerTakes ==
  ASSUME NEW n \in Nodes, NEW height \in Nat, NEW low \in Nat, NEW high \in Nat,
         NEW ht, NEW lo, NEW hi, NEW D,
         InnerOK(n, height, low, high, MaxKeys, ht, lo, hi, D),
         NEW ht2, NEW lo2, NEW hi2, NEW D2,
         NEW at \in 1 .. Len(n.keys) + 1, NEW p \in Keys, NEW c \in Addrs,
         Taken(n, low, high, at, p, c, ht, lo, hi, D, ht2, lo2, hi2, D2)
  PROVE  LET full == Wider(n, at, p, c)
         IN  /\ full \in Nodes
             /\ Len(full.keys) = Len(n.keys) + 1
             /\ InnerOK(full, height, low, high, MaxKeys + 1, ht2, lo2, hi2, D2)
<1>. DEFINE nk   == n.keys
            nc   == n.children
            L    == Len(nk)
            ks   == InsertAt(nk, at, p)
            cs   == InsertAt(nc, at + 1, c)
            full == Wider(n, at, p, c)
            e(i) == Edge(n, low, high, i)
            f(i) == Edge(full, low, high, i)
<1>1. nk \in Seq(Keys) /\ nc \in Seq(Addrs) /\ Len(nc) = L + 1 /\ L \in 1 .. MaxKeys /\ ~n.is_leaf
  BY DEF Nodes, InnerOK
<1>2. L \in Nat /\ DOMAIN nk = 1 .. L /\ \A i \in 1 .. L : nk[i] \in Nat
  BY <1>1, KeySeq
<1>3. p \in Nat /\ MaxKeys \in Nat
  BY BPTreeAssumption
<1>4. \A i \in 0 .. L + 1 : e(i) \in Nat
  BY EdgeType
<1>5. \A i, j \in 0 .. L + 1 : i < j => e(i) < e(j)
  BY DEF InnerOK, EdgesAscend
<1>6. \A i \in 1 .. L + 1 : /\ nc[i] \in D /\ ht[nc[i]] + 1 = height
                            /\ lo[nc[i]] = e(i - 1) /\ hi[nc[i]] = e(i)
  BY DEF InnerOK, ChildOK
<1>7. /\ e(at - 1) < p /\ p < e(at)
      /\ lo2[nc[at]] = lo[nc[at]] /\ hi2[nc[at]] = p /\ ht2[nc[at]] = ht[nc[at]]
      /\ lo2[c] = p /\ hi2[c] = hi[nc[at]] /\ ht2[c] = ht[nc[at]]
      /\ \A i \in 1 .. L + 1 : i # at => /\ ht2[nc[i]] = ht[nc[i]] /\ lo2[nc[i]] = lo[nc[i]]
                                         /\ hi2[nc[i]] = hi[nc[i]]
      /\ at \in 1 .. L + 1 /\ D \subseteq D2 /\ c \in D2
  BY DEF Taken
<1>8. /\ e(0) = low /\ e(L + 1) = high /\ \A i \in 1 .. L : e(i) = nk[i]
  BY <1>2 DEF Edge
<1>. HIDE DEF nk, nc, e, L
<1>9. /\ ks \in Seq(Keys) /\ Len(ks) = L + 1
      /\ \A i \in 1 .. L + 1 : ks[i] = IF i < at THEN nk[i] ELSE IF i = at THEN p ELSE nk[i - 1]
  <2>1. at \in 1 .. Len(nk) + 1
    BY <1>1, <1>7 DEF L
  <2>4. nk \in Seq(Keys)
    BY <1>1
  <2>2. Len(nk) = L
    BY DEF L
  <2>3. /\ ks \in Seq(Keys) /\ Len(ks) = Len(nk) + 1
        /\ \A i \in 1 .. Len(nk) + 1 :
             ks[i] = IF i < at THEN nk[i] ELSE IF i = at THEN p ELSE nk[i - 1]
    BY <2>1, <2>4, InsertAtFacts
  <2>. QED
    BY <2>2, <2>3
<1>10. /\ cs \in Seq(Addrs) /\ Len(cs) = L + 2
       /\ \A i \in 1 .. L + 2 :
            cs[i] = IF i < at + 1 THEN nc[i] ELSE IF i = at + 1 THEN c ELSE nc[i - 1]
  <2>1. nc \in Seq(Addrs) /\ at + 1 \in 1 .. Len(nc) + 1 /\ Len(nc) + 1 = L + 2
    BY <1>1, <1>2, <1>7
  <2>. QED
    BY <2>1, InsertAtFacts
<1>. HIDE DEF ks, cs
<1>11. full = [is_leaf |-> FALSE, keys |-> ks, values |-> <<>>, children |-> cs, next |-> Null]
  BY DEF Wider, Internal, ks, cs, nk, nc
<1>12. full.keys = ks /\ full.children = cs /\ ~full.is_leaf
  BY <1>11
<1>13. full \in Nodes
  BY <1>9, <1>10, <1>11 DEF Nodes
<1>. HIDE DEF full
<1>14. ASSUME NEW i \in 0 .. L + 2
       PROVE  f(i) = IF i < at THEN e(i) ELSE IF i = at THEN p ELSE e(i - 1)
  <2>1. f(i) = IF i = 0 THEN low ELSE IF i > L + 1 THEN high ELSE ks[i]
    BY <1>9, <1>12 DEF Edge
  <2>2. CASE i = 0
    BY <1>7, <1>8, <2>1, <2>2
  <2>3. CASE i = L + 2
    BY <1>2, <1>7, <1>8, <2>1, <2>3
  <2>4. CASE i \in 1 .. L + 1
    <3>1. f(i) = ks[i]
      BY <1>2, <2>1, <2>4
    <3>2. i < at => i \in 1 .. L
      BY <1>2, <1>7, <2>4
    <3>3. i > at => i - 1 \in 1 .. L
      BY <1>2, <1>7, <2>4
    <3>4. i < at \/ i = at \/ i > at
      BY <1>7
    <3>5. ks[i] = IF i < at THEN nk[i] ELSE IF i = at THEN p ELSE nk[i - 1]
      BY <1>9, <2>4
    <3>6. i < at => f(i) = e(i)
      BY <1>8, <3>1, <3>2, <3>5
    <3>7. i = at => f(i) = p
      BY <3>1, <3>5
    <3>8. i > at => f(i) = e(i - 1)
      BY <1>7, <1>8, <3>1, <3>3, <3>5
    <3>. QED
      BY <1>7, <3>4, <3>6, <3>7, <3>8
  <2>. QED
    BY <1>2, <2>2, <2>3, <2>4
<1>15. ASSUME NEW i \in 0 .. L + 2, NEW j \in 0 .. L + 2, i < j PROVE f(i) < f(j)
  <2>. HIDE DEF f
  <2>1. at \in 0 .. L + 1 /\ at - 1 \in 0 .. L + 1 /\ at - 1 < at
    BY <1>2, <1>7
  <2>2. CASE j < at
    <3>1. i \in 0 .. L + 1 /\ j \in 0 .. L + 1 /\ i < at
      BY <1>2, <1>7, <1>15, <2>2
    <3>. QED
      BY <1>5, <1>14, <1>15, <2>2, <3>1
  <2>3. CASE j = at
    <3>1. i \in 0 .. L + 1 /\ (i = at - 1 \/ i < at - 1) /\ i < at
      BY <1>2, <1>7, <1>15, <2>3
    <3>2. e(i) <= e(at - 1)
      BY <1>4, <1>5, <2>1, <3>1
    <3>3. f(i) = e(i) /\ f(j) = p
      BY <1>14, <2>3, <3>1
    <3>. QED
      BY <1>3, <1>4, <1>7, <2>1, <3>1, <3>2, <3>3
  <2>4. CASE j > at
    <3>1. j - 1 \in 0 .. L + 1 /\ f(j) = e(j - 1) /\ (j - 1 = at \/ at < j - 1)
      BY <1>2, <1>7, <1>14, <2>4
    <3>2. e(at) <= e(j - 1)
      BY <1>4, <1>5, <2>1, <3>1
    <3>3. CASE i <= at
      <4>1. i < at => i \in 0 .. L + 1 /\ e(i) < e(at) /\ f(i) = e(i)
        BY <1>2, <1>5, <1>7, <1>14, <2>1
      <4>2. i = at => f(i) = p
        BY <1>14
      <4>3. i < at \/ i = at
        BY <1>7, <3>3
      <4>. QED
        BY <1>3, <1>4, <1>7, <2>1, <3>1, <3>2, <4>1, <4>2, <4>3
    <3>4. CASE i > at
      <4>1. i - 1 \in 0 .. L + 1 /\ i - 1 < j - 1 /\ f(i) = e(i - 1)
        BY <1>2, <1>7, <1>14, <1>15, <3>4
      <4>. QED
        BY <1>5, <3>1, <4>1
    <3>. QED
      BY <1>7, <3>3, <3>4
  <2>. QED
    BY <1>7, <2>2, <2>3, <2>4
<1>16. ASSUME NEW i \in 1 .. L + 2
       PROVE  /\ cs[i] \in D2 /\ ht2[cs[i]] + 1 = height
              /\ lo2[cs[i]] = f(i - 1) /\ hi2[cs[i]] = f(i)
  <2>. HIDE DEF f
  <2>1. i - 1 \in 0 .. L + 2 /\ i \in 0 .. L + 2
    BY <1>2
  <2>2. CASE i < at
    <3>1. i \in 1 .. L + 1 /\ i # at /\ i - 1 < at /\ cs[i] = nc[i] /\ i < at + 1
      BY <1>2, <1>7, <1>10, <2>2
    <3>2. f(i - 1) = e(i - 1) /\ f(i) = e(i)
      BY <1>14, <2>1, <2>2, <3>1
    <3>. QED
      BY <1>6, <1>7, <3>1, <3>2
  <2>3. CASE i = at
    <3>1. i \in 1 .. L + 1 /\ i - 1 < at /\ cs[i] = nc[i]
      BY <1>2, <1>7, <1>10, <2>3
    <3>2. f(i - 1) = e(i - 1) /\ f(i) = p
      BY <1>14, <2>1, <2>3, <3>1
    <3>. QED
      BY <1>6, <1>7, <2>3, <3>1, <3>2
  <2>4. CASE i = at + 1
    <3>1. cs[i] = c /\ i - 1 = at /\ ~(i < at) /\ i # at
      BY <1>2, <1>7, <1>10, <2>4
    <3>2. f(i - 1) = p /\ f(i) = e(at)
      BY <1>14, <2>1, <2>4, <3>1
    <3>. QED
      BY <1>6, <1>7, <3>1, <3>2
  <2>5. CASE i > at + 1
    <3>1. /\ i - 1 \in 1 .. L + 1 /\ i - 1 # at /\ ~(i - 1 < at) /\ i - 1 - 1 = i - 2
          /\ cs[i] = nc[i - 1] /\ ~(i < at) /\ i # at
      BY <1>2, <1>7, <1>10, <2>5
    <3>2. f(i - 1) = e(i - 1 - 1) /\ f(i) = e(i - 1)
      BY <1>14, <2>1, <2>5, <3>1
    <3>. QED
      BY <1>6, <1>7, <3>1, <3>2
  <2>. QED
    BY <1>7, <2>2, <2>3, <2>4, <2>5
<1>17. InnerOK(full, height, low, high, MaxKeys + 1, ht2, lo2, hi2, D2)
  <2>1. Len(full.keys) = L + 1 /\ Len(full.keys) + 1 = L + 2 /\ Len(full.keys) \in 1 .. MaxKeys + 1
    BY <1>1, <1>2, <1>3, <1>9, <1>12
  <2>2. EdgesAscend(full, low, high)
    BY <1>15, <2>1 DEF EdgesAscend
  <2>3. \A i \in 1 .. L + 2 : full.children[i] \in D2 /\ ChildOK(full, height, low, high, i, ht2, lo2, hi2, full.children[i])
    BY <1>12, <1>16 DEF ChildOK
  <2>. QED
    BY <1>10, <1>12, <2>1, <2>2, <2>3 DEF InnerOK
<1>. QED
  BY <1>9, <1>12, <1>13, <1>17 DEF full, L, nk

\* The two nodes that SplitInternal makes of one that is too full.
UpperInner(n) == Internal(SubSeq(n.keys, Half(n) + 2, Len(n.keys)),
                          SubSeq(n.children, Half(n) + 2, Len(n.children)))
LowerInner(n) == Internal(SubSeq(n.keys, 1, Half(n)), SubSeq(n.children, 1, Half(n) + 1))

\* Both are internal nodes that fit, and their children are where they belong.
LEMMA InnerHalves ==
  ASSUME NEW n \in Nodes, NEW height \in Nat, NEW low \in Nat, NEW high \in Nat,
         NEW ht, NEW lo, NEW hi, NEW D,
         InnerOK(n, height, low, high, MaxKeys + 1, ht, lo, hi, D), Len(n.keys) > MaxKeys
  PROVE  LET p == n.keys[Half(n) + 1]
         IN  /\ LowerInner(n) \in Nodes /\ UpperInner(n) \in Nodes
             /\ p \in Keys /\ p \in Nat /\ low < p /\ p < high
             /\ InnerOK(LowerInner(n), height, low, p, MaxKeys, ht, lo, hi, D)
             /\ InnerOK(UpperInner(n), height, p, high, MaxKeys, ht, lo, hi, D)
<1>. DEFINE nk   == n.keys
            nc   == n.children
            L    == Len(nk)
            H    == L \div 2
            p    == nk[H + 1]
            lk   == SubSeq(nk, 1, H)
            lc   == SubSeq(nc, 1, H + 1)
            uk   == SubSeq(nk, H + 2, L)
            uc   == SubSeq(nc, H + 2, L + 1)
            e(i) == Edge(n, low, high, i)
<1>1. nk \in Seq(Keys) /\ nc \in Seq(Addrs) /\ Len(nc) = L + 1 /\ L \in 1 .. MaxKeys + 1
  BY DEF Nodes, InnerOK
<1>2. L \in Nat /\ DOMAIN nk = 1 .. L /\ \A i \in 1 .. L : nk[i] \in Keys /\ nk[i] \in Nat
  BY <1>1, KeySeq
<1>3. L = MaxKeys + 1 /\ MaxKeys \in Nat /\ L >= 3
  BY <1>1, BPTreeAssumption
<1>4. H \in Nat /\ 1 <= H /\ H <= MaxKeys /\ H + 1 < L /\ L - H - 1 <= MaxKeys
  BY <1>3
<1>5. \A i, j \in 0 .. L + 1 : i < j => e(i) < e(j)
  BY DEF InnerOK, EdgesAscend
<1>6. \A i \in 1 .. L + 1 : /\ nc[i] \in D /\ ht[nc[i]] + 1 = height
                            /\ lo[nc[i]] = e(i - 1) /\ hi[nc[i]] = e(i)
  BY DEF InnerOK, ChildOK
<1>7. e(0) = low /\ e(L + 1) = high /\ \A i \in 1 .. L : e(i) = nk[i]
  BY <1>2 DEF Edge
<1>. HIDE DEF nk, nc, e, L, H
<1>8. Len(nk) = L /\ Len(n.keys) = L /\ Len(n.children) = L + 1 /\ Half(n) = H
  BY <1>1 DEF nc, nk, L, H, Half
<1>9. /\ lk \in Seq(Keys) /\ Len(lk) = H /\ \A i \in 1 .. H : lk[i] = nk[i]
      /\ uk \in Seq(Keys) /\ Len(uk) = L - H - 1 /\ \A i \in 1 .. L - H - 1 : uk[i] = nk[H + 1 + i]
  <2>1. 1 \in 1 .. Len(nk) + 1 /\ H \in 0 .. Len(nk) /\ H + 2 \in 1 .. Len(nk) + 1 /\ L \in H + 2 - 1 .. Len(nk)
    BY <1>2, <1>4, <1>8
  <2>2. /\ lk \in Seq(Keys) /\ Len(lk) = H - 1 + 1 /\ \A i \in 1 .. H - 1 + 1 : lk[i] = nk[1 + i - 1]
        /\ uk \in Seq(Keys) /\ Len(uk) = L - (H + 2) + 1
        /\ \A i \in 1 .. L - (H + 2) + 1 : uk[i] = nk[H + 2 + i - 1]
    BY <1>1, <2>1, SubSeqFacts
  <2>. QED
    BY <1>2, <1>4, <2>2
<1>10. /\ lc \in Seq(Addrs) /\ Len(lc) = H + 1 /\ \A i \in 1 .. H + 1 : lc[i] = nc[i]
       /\ uc \in Seq(Addrs) /\ Len(uc) = L - H /\ \A i \in 1 .. L - H : uc[i] = nc[H + 1 + i]
  <2>1. /\ 1 \in 1 .. Len(nc) + 1 /\ H + 1 \in 1 - 1 .. Len(nc) /\ H + 2 \in 1 .. Len(nc) + 1
        /\ L + 1 \in H + 2 - 1 .. Len(nc)
    BY <1>1, <1>2, <1>4
  <2>4. nc \in Seq(Addrs)
    BY <1>1
  <2>5. H \in Nat /\ L \in Nat
    BY <1>2, <1>4
  <2>2. /\ lc \in Seq(Addrs) /\ Len(lc) = H + 1 - 1 + 1
        /\ \A i \in 1 .. H + 1 - 1 + 1 : lc[i] = nc[1 + i - 1]
    BY <2>1, <2>4, <2>5, SubSeqFacts
  <2>3. /\ uc \in Seq(Addrs) /\ Len(uc) = L + 1 - (H + 2) + 1
        /\ \A i \in 1 .. L + 1 - (H + 2) + 1 : uc[i] = nc[H + 2 + i - 1]
    BY <2>1, <2>4, <2>5, SubSeqFacts
  <2>. QED
    BY <1>2, <1>4, <2>2, <2>3
<1>. HIDE DEF lk, lc, uk, uc
<1>11. /\ LowerInner(n) = [is_leaf |-> FALSE, keys |-> lk, values |-> <<>>, children |-> lc, next |-> Null]
       /\ UpperInner(n) = [is_leaf |-> FALSE, keys |-> uk, values |-> <<>>, children |-> uc, next |-> Null]
  BY <1>8 DEF LowerInner, UpperInner, Internal, lk, lc, uk, uc, nk, nc
<1>. DEFINE lower == LowerInner(n)
            upper == UpperInner(n)
<1>12. /\ lower.keys = lk /\ lower.children = lc /\ ~lower.is_leaf
       /\ upper.keys = uk /\ upper.children = uc /\ ~upper.is_leaf
  BY <1>11
<1>13. lower \in Nodes /\ upper \in Nodes
  BY <1>9, <1>10, <1>11 DEF Nodes
<1>. HIDE DEF lower, upper
<1>14. H + 1 \in 1 .. L /\ p \in Keys /\ p \in Nat /\ p = e(H + 1)
  BY <1>2, <1>4, <1>7
<1>15. low < p /\ p < high
  <2>1. 0 \in 0 .. L + 1 /\ H + 1 \in 0 .. L + 1 /\ L + 1 \in 0 .. L + 1 /\ 0 < H + 1 /\ H + 1 < L + 1
    BY <1>2, <1>4
  <2>. QED
    BY <1>5, <1>7, <1>14, <2>1
<1>. HIDE DEF p
<1>16. \A i \in 0 .. H + 1 : Edge(lower, low, p, i) = e(i)
  <2>. SUFFICES ASSUME NEW i \in 0 .. H + 1 PROVE Edge(lower, low, p, i) = e(i)
    OBVIOUS
  <2>1. Edge(lower, low, p, i) = IF i = 0 THEN low ELSE IF i > H THEN p ELSE lk[i]
    BY <1>9, <1>12 DEF Edge
  <2>2. CASE i = 0
    BY <1>7, <2>1, <2>2
  <2>3. CASE i = H + 1
    BY <1>4, <1>14, <2>1, <2>3
  <2>4. CASE i \in 1 .. H
    <3>1. i \in 1 .. L
      BY <1>2, <1>4, <2>4
    <3>. QED
      BY <1>4, <1>7, <1>9, <2>1, <2>4, <3>1
  <2>. QED
    BY <1>4, <2>2, <2>3, <2>4
<1>17. \A i \in 0 .. L - H : Edge(upper, p, high, i) = e(H + 1 + i)
  <2>. SUFFICES ASSUME NEW i \in 0 .. L - H PROVE Edge(upper, p, high, i) = e(H + 1 + i)
    OBVIOUS
  <2>1. Edge(upper, p, high, i) = IF i = 0 THEN p ELSE IF i > L - H - 1 THEN high ELSE uk[i]
    BY <1>9, <1>12 DEF Edge
  <2>2. CASE i = 0
    BY <1>4, <1>14, <2>1, <2>2
  <2>3. CASE i = L - H
    <3>1. H + 1 + i = L + 1 /\ i # 0 /\ i > L - H - 1
      BY <1>2, <1>4, <2>3
    <3>. QED
      BY <1>7, <2>1, <3>1
  <2>4. CASE i \in 1 .. L - H - 1
    <3>1. H + 1 + i \in 1 .. L /\ i # 0 /\ ~(i > L - H - 1)
      BY <1>2, <1>4, <2>4
    <3>. QED
      BY <1>7, <1>9, <2>1, <2>4, <3>1
  <2>. QED
    BY <1>2, <1>4, <2>2, <2>3, <2>4
<1>18. InnerOK(lower, height, low, p, MaxKeys, ht, lo, hi, D)
  <2>1. Len(lower.keys) = H /\ H \in 1 .. MaxKeys /\ Len(lower.children) = H + 1
    BY <1>3, <1>4, <1>9, <1>10, <1>12
  <2>2. \A i \in 0 .. H + 1 : i \in 0 .. L + 1
    BY <1>2, <1>4
  <2>3. EdgesAscend(lower, low, p)
    BY <1>5, <1>16, <2>1, <2>2 DEF EdgesAscend
  <2>4. ASSUME NEW i \in 1 .. H + 1
        PROVE  lower.children[i] \in D /\ ChildOK(lower, height, low, p, i, ht, lo, hi, lower.children[i])
    <3>1. i \in 1 .. L + 1 /\ i - 1 \in 0 .. H + 1 /\ i \in 0 .. H + 1
      BY <1>2, <1>4
    <3>2. lower.children[i] = nc[i]
      BY <1>10, <1>12
    <3>. QED
      BY <1>6, <1>16, <3>1, <3>2 DEF ChildOK
  <2>. QED
    BY <1>12, <2>1, <2>3, <2>4 DEF InnerOK
<1>19. InnerOK(upper, height, p, high, MaxKeys, ht, lo, hi, D)
  <2>1. Len(upper.keys) = L - H - 1 /\ L - H - 1 \in 1 .. MaxKeys /\ Len(upper.children) = L - H - 1 + 1
        /\ L - H - 1 + 1 = L - H
    BY <1>2, <1>3, <1>4, <1>9, <1>10, <1>12
  <2>2. \A i \in 0 .. L - H : H + 1 + i \in 0 .. L + 1
    BY <1>2, <1>4
  <2>5. \A i, j \in 0 .. L - H : i < j => H + 1 + i < H + 1 + j
    BY <1>2, <1>4
  <2>6. \A i, j \in 0 .. L - H : i < j => Edge(upper, p, high, i) < Edge(upper, p, high, j)
    BY <1>5, <1>17, <2>2, <2>5
  <2>3. EdgesAscend(upper, p, high)
    BY <2>1, <2>6 DEF EdgesAscend
  <2>4. ASSUME NEW i \in 1 .. L - H
        PROVE  upper.children[i] \in D /\ ChildOK(upper, height, p, high, i, ht, lo, hi, upper.children[i])
    <3>1. /\ H + 1 + i \in 1 .. L + 1 /\ i - 1 \in 0 .. L - H /\ i \in 0 .. L - H
          /\ H + 1 + (i - 1) = H + 1 + i - 1
      BY <1>2, <1>4
    <3>2. upper.children[i] = nc[H + 1 + i]
      BY <1>10, <1>12
    <3>. DEFINE x == H + 1 + i
    <3>5. x \in 1 .. L + 1
      BY <3>1
    <3>. HIDE DEF x
    <3>6. nc[x] \in D /\ ht[nc[x]] + 1 = height /\ lo[nc[x]] = e(x - 1) /\ hi[nc[x]] = e(x)
      BY <1>6, <3>5
    <3>3. /\ nc[H + 1 + i] \in D /\ ht[nc[H + 1 + i]] + 1 = height
          /\ lo[nc[H + 1 + i]] = e(H + 1 + i - 1) /\ hi[nc[H + 1 + i]] = e(H + 1 + i)
      BY <1>4, <3>6 DEF x
    <3>4. /\ Edge(upper, p, high, i - 1) = e(H + 1 + (i - 1))
          /\ Edge(upper, p, high, i) = e(H + 1 + i)
      BY <1>17, <3>1
    <3>. QED
      BY <3>1, <3>2, <3>3, <3>4 DEF ChildOK
  <2>. QED
    BY <1>12, <2>1, <2>3, <2>4 DEF InnerOK
<1>20. n.keys[Half(n) + 1] = p
  BY <1>8 DEF p, nk
<1>. QED
  BY <1>13, <1>14, <1>15, <1>18, <1>19, <1>20 DEF lower, upper
-----------------------------------------------------------------------------
(***************************************************************************)
(* Heaps.  ht, lo and hi give every node its height above the leaves and   *)
(* the bounds of the keys it is home to; cap is how many keys it may have. *)
(***************************************************************************)
IsHeap(h) == DOMAIN h \subseteq Addrs /\ h \in [DOMAIN h -> Nodes]

Homes(h, ht, lo, hi) ==
  /\ ht \in [DOMAIN h -> Nat] /\ lo \in [DOMAIN h -> Nat] /\ hi \in [DOMAIN h -> Nat]
  /\ \A a \in DOMAIN h : hi[a] <= Top

NodeOK(h, ht, lo, hi, cap, a) ==
  IF h[a].is_leaf THEN ht[a] = 0 /\ LeafOK(h[a], lo[a], hi[a], cap)
  ELSE InnerOK(h[a], ht[a], lo[a], hi[a], cap, ht, lo, hi, DOMAIN h)

\* Two nodes of one level are home to different keys.
Disjoint(h, ht, lo, hi) ==
  \A a, b \in DOMAIN h : a # b /\ ht[a] = ht[b] => hi[a] <= lo[b] \/ hi[b] <= lo[a]

\* The next leaf goes on where a leaf ends.
Linked(h, lo, hi) ==
  \A a \in DOMAIN h : h[a].is_leaf =>
    IF hi[a] = Top THEN h[a].next = Null
    ELSE h[a].next \in DOMAIN h /\ h[h[a].next].is_leaf /\ lo[h[a].next] = hi[a]

Tree(h, ht, lo, hi, cap) ==
  /\ IsHeap(h) /\ Homes(h, ht, lo, hi)
  /\ Disjoint(h, ht, lo, hi) /\ Linked(h, lo, hi)
  /\ \A a \in DOMAIN h : NodeOK(h, ht, lo, hi, cap, a)

Has(h, j, w) == \E b \in DOMAIN h : NodeHas(h[b], j, w)

\* What Put makes of a function is one.
LEMMA PutType ==
  ASSUME NEW S, NEW h, h \in [DOMAIN h -> S], NEW a, NEW n \in S
  PROVE  Put(h, a, n) \in [DOMAIN h \cup {a} -> S]
BY DEF Put

\* A node whose keys may be more.
LEMMA NodeRoom ==
  ASSUME NEW h, NEW ht, NEW lo, NEW hi, NEW a, NodeOK(h, ht, lo, hi, MaxKeys, a)
  PROVE  NodeOK(h, ht, lo, hi, MaxKeys + 1, a)
<1>1. MaxKeys \in Nat
  BY BPTreeAssumption
<1>2. \A i : i \in 1 .. MaxKeys => i \in 1 .. MaxKeys + 1
  BY <1>1
<1>. QED
  BY <1>2 DEF NodeOK, LeafOK, InnerOK, Keyed

\* Nothing that NodeOK says of a node depends on more than the node, its own
\* home and the homes of its children.
LEMMA NodeStays ==
  ASSUME NEW h, NEW ht, NEW lo, NEW hi, NEW cap, NEW a, NodeOK(h, ht, lo, hi, cap, a),
         NEW h2, NEW ht2, NEW lo2, NEW hi2, DOMAIN h \subseteq DOMAIN h2, h2[a] = h[a],
         ht2[a] = ht[a], lo2[a] = lo[a], hi2[a] = hi[a],
         ~h[a].is_leaf => \A i \in 1 .. Len(h[a].keys) + 1 :
           LET c == h[a].children[i]
           IN  c \in DOMAIN h => ht2[c] = ht[c] /\ lo2[c] = lo[c] /\ hi2[c] = hi[c]
  PROVE  NodeOK(h2, ht2, lo2, hi2, cap, a)
<1>1. CASE h[a].is_leaf
  BY <1>1 DEF NodeOK
<1>2. CASE ~h[a].is_leaf
  <2>1. InnerOK(h[a], ht[a], lo[a], hi[a], cap, ht, lo, hi, DOMAIN h)
    BY <1>2 DEF NodeOK
  <2>2. ASSUME NEW i \in 1 .. Len(h[a].keys) + 1
        PROVE  /\ h[a].children[i] \in DOMAIN h2
               /\ ChildOK(h[a], ht[a], lo[a], hi[a], i, ht2, lo2, hi2, h[a].children[i])
    <3>1. /\ h[a].children[i] \in DOMAIN h
          /\ ChildOK(h[a], ht[a], lo[a], hi[a], i, ht, lo, hi, h[a].children[i])
      BY <2>1 DEF InnerOK
    <3>. QED
      BY <1>2, <3>1 DEF ChildOK
  <2>3. InnerOK(h[a], ht[a], lo[a], hi[a], cap, ht2, lo2, hi2, DOMAIN h2)
    BY <2>1, <2>2 DEF InnerOK
  <2>. QED
    BY <1>2, <2>3 DEF NodeOK
<1>. QED
  BY <1>1, <1>2

\* The node n can take the place of the one at a.
Suits(n, h, ht, lo, hi, cap, a) ==
  /\ n \in Nodes /\ n.is_leaf = h[a].is_leaf
  /\ IF n.is_leaf
     THEN n.next = h[a].next /\ ht[a] = 0 /\ LeafOK(n, lo[a], hi[a], cap)
     ELSE InnerOK(n, ht[a], lo[a], hi[a], cap, ht, lo, hi, DOMAIN h)

\* A node is replaced by one that is home to the same keys.
LEMMA ReplaceNode ==
  ASSUME NEW h, NEW ht, NEW lo, NEW hi, IsHeap(h), Homes(h, ht, lo, hi),
         Disjoint(h, ht, lo, hi), Linked(h, lo, hi),
         NEW a \in DOMAIN h, NEW n, NEW cap, Suits(n, h, ht, lo, hi, cap, a),
         \A b \in DOMAIN h : b # a => NodeOK(h, ht, lo, hi, cap, b)
  PROVE  Tree(Put(h, a, n), ht, lo, hi, cap) /\ DOMAIN Put(h, a, n) = DOMAIN h
<1>. DEFINE g == Put(h, a, n)
<1>0. /\ n \in Nodes /\ n.is_leaf = h[a].is_leaf
      /\ IF n.is_leaf
         THEN n.next = h[a].next /\ ht[a] = 0 /\ LeafOK(n, lo[a], hi[a], cap)
         ELSE InnerOK(n, ht[a], lo[a], hi[a], cap, ht, lo, hi, DOMAIN h)
  BY DEF Suits
<1>1. DOMAIN g = DOMAIN h /\ g[a] = n /\ \A b \in DOMAIN h : b # a => g[b] = h[b]
  <2>1. DOMAIN h \cup {a} = DOMAIN h
    OBVIOUS
  <2>. QED
    BY <2>1 DEF Put
<1>2. IsHeap(g)
  <2>1. h \in [DOMAIN h -> Nodes] /\ DOMAIN h \cup {a} = DOMAIN h /\ DOMAIN h \subseteq Addrs
    BY DEF IsHeap
  <2>2. g \in [DOMAIN h \cup {a} -> Nodes]
    BY <1>0, <2>1, PutType
  <2>. QED
    BY <1>1, <2>1, <2>2 DEF IsHeap
<1>. HIDE DEF g
<1>3. Homes(g, ht, lo, hi) /\ Disjoint(g, ht, lo, hi)
  BY <1>1 DEF Homes, Disjoint
<1>4. Linked(g, lo, hi)
  <2>1. \A b \in DOMAIN h : g[b].is_leaf = h[b].is_leaf
    BY <1>0, <1>1
  <2>2. \A b \in DOMAIN h : g[b].is_leaf => g[b].next = h[b].next
    BY <1>0, <1>1
  <2>. QED
    BY <1>1, <2>1, <2>2 DEF Linked
<1>5. ASSUME NEW b \in DOMAIN g PROVE NodeOK(g, ht, lo, hi, cap, b)
  <2>1. CASE b = a
    BY <1>0, <1>1, <2>1 DEF NodeOK
  <2>2. CASE b # a
    <3>1. NodeOK(h, ht, lo, hi, cap, b) /\ g[b] = h[b]
      BY <1>1, <2>2
    <3>. QED
      BY <1>1, <3>1 DEF NodeOK
  <2>. QED
    BY <2>1, <2>2
<1>6. Tree(g, ht, lo, hi, cap)
  BY <1>2, <1>3, <1>4, <1>5 DEF Tree
<1>. QED
  BY <1>1, <1>6 DEF g

\* A node becomes two at p, the right one at r.  Only the nodes of E, which have
\* it as a child, are then out of order.
LEMMA SplitNode ==
  ASSUME NEW h, NEW ht, NEW lo, NEW hi, IsHeap(h), Homes(h, ht, lo, hi),
         Disjoint(h, ht, lo, hi), Linked(h, lo, hi),
         NEW a \in DOMAIN h, NEW r \in Addrs, r \notin DOMAIN h,
         NEW p \in Nat, lo[a] < p, p < hi[a], NEW E,
         \A b \in DOMAIN h : b # a /\ b \notin E =>
           /\ NodeOK(h, ht, lo, hi, MaxKeys, b)
           /\ ~h[b].is_leaf => \A i \in 1 .. Len(h[b].keys) + 1 : h[b].children[i] # a,
         NEW lower \in Nodes, NEW upper \in Nodes,
         lower.is_leaf = h[a].is_leaf, upper.is_leaf = h[a].is_leaf,
         IF h[a].is_leaf
         THEN /\ ht[a] = 0 /\ lower.next = r /\ upper.next = h[a].next
              /\ LeafOK(lower, lo[a], p, MaxKeys) /\ LeafOK(upper, p, hi[a], MaxKeys)
         ELSE /\ InnerOK(lower, ht[a], lo[a], p, MaxKeys, ht, lo, hi, DOMAIN h)
              /\ InnerOK(upper, ht[a], p, hi[a], MaxKeys, ht, lo, hi, DOMAIN h)
  PROVE  LET h2  == Put(Put(h, r, upper), a, lower)
             ht2 == Put(ht, r, ht[a])
             lo2 == Put(lo, r, p)
             hi2 == Put(Put(hi, r, hi[a]), a, p)
         IN  /\ DOMAIN h2 = DOMAIN h \cup {r}
             /\ IsHeap(h2) /\ Homes(h2, ht2, lo2, hi2)
             /\ Disjoint(h2, ht2, lo2, hi2) /\ Linked(h2, lo2, hi2)
             /\ h2[a] = lower /\ h2[r] = upper /\ hi2[a] = p
             /\ ht2[r] = ht[a] /\ lo2[r] = p /\ hi2[r] = hi[a]
             /\ \A b \in DOMAIN h : ht2[b] = ht[b] /\ lo2[b] = lo[b]
             /\ \A b \in DOMAIN h : b # a => hi2[b] = hi[b] /\ h2[b] = h[b]
             /\ \A b \in DOMAIN h2 : b \notin E \/ b = a => NodeOK(h2, ht2, lo2, hi2, MaxKeys, b)
<1>. DEFINE h2  == Put(Put(h, r, upper), a, lower)
            ht2 == Put(ht, r, ht[a])
            lo2 == Put(lo, r, p)
            hi2 == Put(Put(hi, r, hi[a]), a, p)
            D   == DOMAIN h
<1>1. /\ ht \in [D -> Nat] /\ lo \in [D -> Nat] /\ hi \in [D -> Nat] /\ h \in [D -> Nodes]
      /\ D \subseteq Addrs /\ DOMAIN ht = D /\ DOMAIN lo = D /\ DOMAIN hi = D /\ a # r
  BY DEF Homes, IsHeap
<1>2. /\ DOMAIN h2 = D \cup {r} /\ h2[a] = lower /\ h2[r] = upper
      /\ \A b \in D : b # a => h2[b] = h[b]
  <2>. DEFINE g == Put(h, r, upper)
  <2>1. DOMAIN g = D \cup {r} /\ g[r] = upper /\ \A b \in D : b # r => g[b] = h[b]
    BY DEF Put
  <2>. HIDE DEF g
  <2>2. /\ DOMAIN Put(g, a, lower) = DOMAIN g \cup {a} /\ Put(g, a, lower)[a] = lower
        /\ \A b \in DOMAIN g : b # a => Put(g, a, lower)[b] = g[b]
    BY DEF Put
  <2>. QED
    BY <1>1, <2>1, <2>2 DEF g
<1>3. h2 \in [D \cup {r} -> Nodes]
  <2>. DEFINE g == Put(h, r, upper)
  <2>1. g \in [D \cup {r} -> Nodes]
    BY <1>1, PutType
  <2>2. DOMAIN g = D \cup {r}
    BY DEF Put
  <2>. HIDE DEF g
  <2>3. Put(g, a, lower) \in [DOMAIN g \cup {a} -> Nodes]
    BY <2>1, <2>2, PutType
  <2>4. DOMAIN g \cup {a} = D \cup {r}
    BY <2>2
  <2>. QED
    BY <2>3, <2>4 DEF g
<1>4. /\ ht2 \in [D \cup {r} -> Nat] /\ ht2[r] = ht[a] /\ \A b \in D : ht2[b] = ht[b]
      /\ lo2 \in [D \cup {r} -> Nat] /\ lo2[r] = p /\ \A b \in D : lo2[b] = lo[b]
  BY <1>1 DEF Put
<1>5. hi2 \in [D \cup {r} -> Nat] /\ hi2[r] = hi[a] /\ hi2[a] = p /\ \A b \in D : b # a => hi2[b] = hi[b]
  BY <1>1 DEF Put
<1>. HIDE DEF h2, ht2, lo2, hi2
<1>7. \A b \in D : ht[b] \in Nat /\ lo[b] \in Nat /\ hi[b] \in Nat /\ hi[b] <= Top
  BY <1>1 DEF Homes
<1>6. IsHeap(h2) /\ Homes(h2, ht2, lo2, hi2)
  <2>1. h2 \in [DOMAIN h2 -> Nodes] /\ DOMAIN h2 \subseteq Addrs
    BY <1>1, <1>2, <1>3
  <2>2. \A b \in DOMAIN h2 : hi2[b] <= Top
    BY <1>2, <1>5, <1>7, TopFact
  <2>. QED
    BY <1>2, <1>4, <1>5, <2>1, <2>2 DEF IsHeap, Homes
<1>8. Disjoint(h2, ht2, lo2, hi2)
  <2>1. \A b, c \in D : b # c /\ ht[b] = ht[c] => hi[b] <= lo[c] \/ hi[c] <= lo[b]
    BY DEF Disjoint
  <2>2. \A b \in D : hi2[b] \in Nat /\ hi2[b] <= hi[b]
    BY <1>5, <1>7
  <2>3. ASSUME NEW b \in D, NEW c \in D, b # c, ht2[b] = ht2[c]
        PROVE  hi2[b] <= lo2[c] \/ hi2[c] <= lo2[b]
    <3>1. hi[b] <= lo[c] \/ hi[c] <= lo[b]
      BY <1>4, <2>1, <2>3
    <3>. QED
      BY <1>4, <1>7, <2>2, <3>1
  <2>4. ASSUME NEW b \in D, ht2[b] = ht2[r]
        PROVE  hi2[b] <= lo2[r] \/ hi2[r] <= lo2[b]
    <3>1. CASE b = a
      BY <1>4, <1>5, <3>1
    <3>2. CASE b # a
      <4>1. hi[b] <= lo[a] \/ hi[a] <= lo[b]
        BY <1>4, <2>1, <2>4, <3>2
      <4>. QED
        BY <1>4, <1>5, <1>7, <2>2, <3>2, <4>1
    <3>. QED
      BY <3>1, <3>2
  <2>. QED
    BY <1>2, <2>3, <2>4 DEF Disjoint
<1>9. Linked(h2, lo2, hi2)
  <2>1. \A b \in D : h2[b].is_leaf = h[b].is_leaf
    BY <1>2
  <2>2. ASSUME NEW b \in D, h2[b].is_leaf, b # a
        PROVE  IF hi2[b] = Top THEN h2[b].next = Null
               ELSE h2[b].next \in DOMAIN h2 /\ h2[h2[b].next].is_leaf /\ lo2[h2[b].next] = hi2[b]
    <3>1. h2[b] = h[b] /\ hi2[b] = hi[b]
      BY <1>2, <1>5, <2>2
    <3>2. IF hi[b] = Top THEN h[b].next = Null
          ELSE h[b].next \in D /\ h[h[b].next].is_leaf /\ lo[h[b].next] = hi[b]
      BY <2>2, <3>1 DEF Linked
    <3>3. CASE hi[b] = Top
      BY <3>1, <3>2, <3>3
    <3>4. CASE hi[b] # Top
      BY <1>2, <1>4, <2>1, <3>1, <3>2, <3>4
    <3>. QED
      BY <3>3, <3>4
  <2>3. ASSUME h2[a].is_leaf
        PROVE  /\ hi2[a] # Top
               /\ h2[a].next \in DOMAIN h2 /\ h2[h2[a].next].is_leaf /\ lo2[h2[a].next] = hi2[a]
    <3>1. h[a].is_leaf /\ h2[a].next = r /\ hi[a] <= Top /\ h2[r].is_leaf
      BY <1>2, <1>7, <2>1, <2>3
    <3>2. hi2[a] # Top
      BY <1>5, <1>7, <3>1, TopFact
    <3>. QED
      BY <1>2, <1>4, <1>5, <3>1, <3>2
  <2>4. ASSUME h2[r].is_leaf
        PROVE  IF hi2[r] = Top THEN h2[r].next = Null
               ELSE h2[r].next \in DOMAIN h2 /\ h2[h2[r].next].is_leaf /\ lo2[h2[r].next] = hi2[r]
    <3>1. h[a].is_leaf /\ h2[r].next = h[a].next /\ hi2[r] = hi[a]
      BY <1>2, <1>5, <2>4
    <3>2. IF hi[a] = Top THEN h[a].next = Null
          ELSE h[a].next \in D /\ h[h[a].next].is_leaf /\ lo[h[a].next] = hi[a]
      BY <3>1 DEF Linked
    <3>3. CASE hi[a] = Top
      BY <3>1, <3>2, <3>3
    <3>4. CASE hi[a] # Top
      BY <1>2, <1>4, <2>1, <3>1, <3>2, <3>4
    <3>. QED
      BY <3>3, <3>4
  <2>. QED
    BY <1>2, <2>2, <2>3, <2>4 DEF Linked
<1>10. ASSUME NEW b \in D, b # a, b \notin E PROVE NodeOK(h2, ht2, lo2, hi2, MaxKeys, b)
  <2>1. /\ NodeOK(h, ht, lo, hi, MaxKeys, b)
        /\ ~h[b].is_leaf => \A i \in 1 .. Len(h[b].keys) + 1 : h[b].children[i] # a
    BY <1>10
  <2>2. DOMAIN h \subseteq DOMAIN h2 /\ h2[b] = h[b] /\ ht2[b] = ht[b] /\ lo2[b] = lo[b] /\ hi2[b] = hi[b]
    BY <1>2, <1>4, <1>5, <1>10
  <2>3. ~h[b].is_leaf => \A i \in 1 .. Len(h[b].keys) + 1 :
          LET c == h[b].children[i]
          IN  c \in DOMAIN h => ht2[c] = ht[c] /\ lo2[c] = lo[c] /\ hi2[c] = hi[c]
    BY <1>4, <1>5, <2>1
  <2>. QED
    BY <2>1, <2>2, <2>3, NodeStays
<1>11. ASSUME NEW n, NEW low, NEW high,
              InnerOK(n, ht[a], low, high, MaxKeys, ht, lo, hi, D)
       PROVE  InnerOK(n, ht[a], low, high, MaxKeys, ht2, lo2, hi2, DOMAIN h2)
  <2>1. ASSUME NEW i \in 1 .. Len(n.keys) + 1
        PROVE  n.children[i] \in DOMAIN h2 /\ ChildOK(n, ht[a], low, high, i, ht2, lo2, hi2, n.children[i])
    <3>1. n.children[i] \in D /\ ChildOK(n, ht[a], low, high, i, ht, lo, hi, n.children[i])
      BY <1>11 DEF InnerOK
    <3>2. n.children[i] # a
      BY <1>7, <3>1 DEF ChildOK
    <3>. QED
      BY <1>2, <1>4, <1>5, <3>1, <3>2 DEF ChildOK
  <2>. QED
    BY <1>11, <2>1 DEF InnerOK
<1>12. NodeOK(h2, ht2, lo2, hi2, MaxKeys, a) /\ NodeOK(h2, ht2, lo2, hi2, MaxKeys, r)
  <2>1. h2[a].is_leaf = h[a].is_leaf /\ h2[r].is_leaf = h[a].is_leaf
    BY <1>2
  <2>2. CASE h[a].is_leaf
    BY <1>2, <1>4, <1>5, <2>1, <2>2 DEF NodeOK
  <2>3. CASE ~h[a].is_leaf
    <3>1. /\ InnerOK(lower, ht[a], lo[a], p, MaxKeys, ht2, lo2, hi2, DOMAIN h2)
          /\ InnerOK(upper, ht[a], p, hi[a], MaxKeys, ht2, lo2, hi2, DOMAIN h2)
      BY <1>11, <2>3
    <3>. QED
      BY <1>2, <1>4, <1>5, <2>1, <2>3, <3>1 DEF NodeOK
  <2>. QED
    BY <2>2, <2>3
<1>13. \A b \in DOMAIN h2 : b \notin E \/ b = a => NodeOK(h2, ht2, lo2, hi2, MaxKeys, b)
  BY <1>2, <1>10, <1>12
<1>. QED
  BY <1>2, <1>4, <1>5, <1>6, <1>8, <1>9, <1>13 DEF h2, ht2, lo2, hi2

\* There are addresses for the create_node calls that are still to succeed.
Room(h, m) == m \in Nat /\ Cardinality(Addrs \ DOMAIN h) >= m

\* create_node leaves room for the calls that are still to succeed.
LEMMA Allocate ==
  ASSUME NEW h, NEW m, Room(h, m), m # 0
  PROVE  /\ create_node(h) \in Addrs /\ create_node(h) \notin DOMAIN h /\ create_node(h) # Null
         /\ \A g : DOMAIN g = DOMAIN h \cup {create_node(h)} => Room(g, m - 1)
<1>1. IsFiniteSet(Addrs \ DOMAIN h)
  BY FS_Difference, BPTreeAssumption
<1>2. Addrs \ DOMAIN h # {}
  BY <1>1, FS_EmptySet DEF Room
<1>3. create_node(h) \in Addrs /\ create_node(h) \notin DOMAIN h /\ create_node(h) # Null
  BY <1>2, Fresh
<1>4. ASSUME NEW g, DOMAIN g = DOMAIN h \cup {create_node(h)} PROVE Room(g, m - 1)
  <2>. DEFINE S == Addrs \ DOMAIN h
              r == create_node(h)
  <2>1. Addrs \ DOMAIN g = S \ {r} /\ r \in S
    BY <1>3, <1>4
  <2>2. Cardinality(S \ {r}) = Cardinality(S) - 1
    <3>. HIDE DEF S, r
    <3>1. IsFiniteSet(S)
      BY <1>1 DEF S
    <3>. QED
      BY <2>1, <3>1, FS_RemoveElement
  <2>3. Cardinality(S) \in Nat
    BY <1>1, FS_CardinalityType
  <2>. HIDE DEF S, r
  <2>4. m \in Nat /\ Cardinality(S) >= m
    BY DEF Room, S
  <2>. QED
    BY <2>1, <2>2, <2>3, <2>4 DEF Room
<1>. QED
  BY <1>3, <1>4

(***************************************************************************)
(* What an insert of <<j, w>> into the subtree at x may do to the heap h,  *)
(* s being its result and ht2, lo2, hi2 the homes afterwards.              *)
(***************************************************************************)
Frame(h, ht, lo, hi, x, s, ht2, lo2, hi2) ==
  /\ DOMAIN h \subseteq DOMAIN s.heap
  /\ IsHeap(s.heap) /\ Homes(s.heap, ht2, lo2, hi2)
  /\ Disjoint(s.heap, ht2, lo2, hi2) /\ Linked(s.heap, lo2, hi2)
  /\ \A b \in DOMAIN h : ht2[b] = ht[b] /\ lo2[b] = lo[b]
  /\ \A b \in DOMAIN h : b # x /\ ht[b] >= ht[x] => hi2[b] = hi[b] /\ s.heap[b] = h[b]
  /\ \A b \in DOMAIN s.heap : b \notin DOMAIN h => ht2[b] <= ht[x]
  /\ Room(s.heap, s.mem)

\* The node at x is still home to all its keys.
Whole(h, hi, x, s, ht2, lo2, hi2) ==
  /\ hi2[x] = hi[x]
  /\ \/ s.status = "ok" /\ \A b \in DOMAIN s.heap : NodeOK(s.heap, ht2, lo2, hi2, MaxKeys, b)
     \/ s.status = "memory" /\ \A b \in DOMAIN s.heap : NodeOK(s.heap, ht2, lo2, hi2, MaxKeys + 1, b)

\* The node at x has split.
Halved(h, ht, lo, hi, x, s, ht2, lo2, hi2) ==
  /\ s.status = "split"
  /\ s.right \in DOMAIN s.heap /\ s.right \notin DOMAIN h
  /\ s.promoted \in Keys /\ lo[x] < s.promoted /\ s.promoted < hi[x]
  /\ ht2[s.right] = ht[x] /\ lo2[s.right] = s.promoted /\ hi2[s.right] = hi[x]
  /\ hi2[x] = s.promoted
  /\ \A b \in DOMAIN s.heap :
       (b \notin DOMAIN h \/ x \notin ToSet(h[b].children)) => NodeOK(s.heap, ht2, lo2, hi2, MaxKeys, b)

Gains(h, s, j, w) ==
  /\ \A i, y : Has(s.heap, i, y) <=> Has(h, i, y) \/ (i = j /\ y = w)
  /\ \A y : ~Has(h, j, y)

Refused(h, s, j) == s.status = "duplicate" /\ s.heap = h /\ \E y : Has(h, j, y)

InsertOK(h, ht, lo, hi, x, j, w, s) ==
  \/ Refused(h, s, j)
  \/ /\ Gains(h, s, j, w)
     /\ \E ht2, lo2, hi2 : /\ Frame(h, ht, lo, hi, x, s, ht2, lo2, hi2)
                           /\ \/ Whole(h, hi, x, s, ht2, lo2, hi2)
                              \/ Halved(h, ht, lo, hi, x, s, ht2, lo2, hi2)

\* A key is in no leaf but the one that is home to it.
LEMMA HomeLeaf ==
  ASSUME NEW h, NEW ht, NEW lo, NEW hi, NEW cap, Tree(h, ht, lo, hi, cap),
         NEW x \in DOMAIN h, h[x].is_leaf, NEW j \in Nat, lo[x] <= j, j < hi[x],
         NEW b \in DOMAIN h, NEW y, NodeHas(h[b], j, y)
  PROVE  b = x
<1>1. NodeOK(h, ht, lo, hi, cap, b) /\ NodeOK(h, ht, lo, hi, cap, x)
  BY DEF Tree
<1>2. h[b].is_leaf
  BY DEF NodeHas
<1>3. ht[b] = 0 /\ ht[x] = 0 /\ LeafOK(h[b], lo[b], hi[b], cap)
  BY <1>1, <1>2 DEF NodeOK
<1>4. PICK i \in 1 .. Len(h[b].keys) : h[b].keys[i] = j
  BY DEF NodeHas
<1>5. lo[b] <= j /\ j < hi[b]
  BY <1>3, <1>4 DEF LeafOK, Keyed
<1>6. b # x => hi[b] <= lo[x] \/ hi[x] <= lo[b]
  BY <1>3 DEF Tree, Disjoint
<1>7. lo[b] \in Nat /\ hi[b] \in Nat /\ lo[x] \in Nat /\ hi[x] \in Nat
  BY DEF Tree, Homes
<1>. QED
  BY <1>5, <1>6, <1>7

\* insert_into_leaf in the words above.
LEMMA LeafResult ==
  ASSUME NEW h, NEW m, NEW x, NEW j, NEW w
  PROVE  LET n    == h[x]
             at   == LeafAt(n, j)
             full == Fuller(n, at, j, w)
             r    == create_node(h)
         IN  insert_into_leaf(h, m, x, j, w) =
               IF at <= Len(n.keys) /\ n.keys[at] = j THEN Error(h, m, "duplicate")
               ELSE IF Len(full.keys) <= MaxKeys THEN Done(Put(h, x, full), m)
               ELSE IF m = 0 THEN Error(Put(h, x, full), m, "memory")
               ELSE Split(Put(Put(h, r, Upper(full)), x, Lower(full, r)), m - 1,
                          Upper(full).keys[1], r)
BY DEF insert_into_leaf, SplitLeaf, LeafAt, Fuller, Upper, Lower, Half

\* insert_into_leaf refuses a key that is there, and otherwise puts it in its place.
LEMMA LeafInsert ==
  ASSUME NEW h, NEW ht, NEW lo, NEW hi, Tree(h, ht, lo, hi, MaxKeys),
         NEW m, Room(h, m), NEW x \in DOMAIN h, h[x].is_leaf,
         NEW j \in Keys, NEW w \in Vals, lo[x] <= j, j < hi[x]
  PROVE  InsertOK(h, ht, lo, hi, x, j, w, insert_into_leaf(h, m, x, j, w))
<1>. DEFINE n    == h[x]
            at   == LeafAt(n, j)
            full == Fuller(n, at, j, w)
            r    == create_node(h)
            s    == insert_into_leaf(h, m, x, j, w)
<1>1. n \in Nodes /\ lo[x] \in Nat /\ hi[x] \in Nat /\ j \in Nat /\ MaxKeys \in Nat
  BY BPTreeAssumption DEF Tree, IsHeap, Homes
<1>2. NodeOK(h, ht, lo, hi, MaxKeys, x)
  BY DEF Tree
<1>3. LeafOK(n, lo[x], hi[x], MaxKeys) /\ ht[x] = 0
  BY <1>2 DEF NodeOK
<1>4. s = IF at <= Len(n.keys) /\ n.keys[at] = j THEN Error(h, m, "duplicate")
          ELSE IF Len(full.keys) <= MaxKeys THEN Done(Put(h, x, full), m)
          ELSE IF m = 0 THEN Error(Put(h, x, full), m, "memory")
          ELSE Split(Put(Put(h, r, Upper(full)), x, Lower(full, r)), m - 1,
                     Upper(full).keys[1], r)
  BY LeafResult
<1>. HIDE DEF s, r
<1>5. CASE at <= Len(n.keys) /\ n.keys[at] = j
  <2>1. s.status = "duplicate" /\ s.heap = h
    BY <1>4, <1>5 DEF Error, Result
  <2>2. at \in 1 .. Len(n.keys)
    <3>1. at \in 1 .. Len(n.keys) + 1
      BY <1>1, <1>3, LeafPlace DEF LeafOK, Keyed
    <3>2. Len(n.keys) \in Nat
      BY <1>3, <1>1 DEF LeafOK, Keyed
    <3>. HIDE DEF at, n
    <3>. QED
      BY <1>5, <3>1, <3>2
  <2>3. NodeHas(n, j, n.values[at])
    BY <1>3, <1>5, <2>2 DEF NodeHas, LeafOK
  <2>4. Has(h, j, n.values[at])
    BY <2>3 DEF Has
  <2>. QED
    BY <2>1, <2>4 DEF InsertOK, Refused, s
<1>6. CASE ~(at <= Len(n.keys) /\ n.keys[at] = j)
  <2>1. /\ full \in Nodes
        /\ LeafOK(full, lo[x], hi[x], MaxKeys + 1)
        /\ full.next = n.next
        /\ \A i, y : NodeHas(full, i, y) <=> NodeHas(n, i, y) \/ (i = j /\ y = w)
        /\ \A i \in 1 .. Len(n.keys) : n.keys[i] # j
    BY <1>1, <1>3, <1>6, LeafTakes
  <2>2. full.is_leaf
    BY <2>1 DEF LeafOK
  <2>. HIDE DEF full
  <2>3. \A y : ~Has(h, j, y)
    <3>. SUFFICES ASSUME NEW y, NEW b \in DOMAIN h, NodeHas(h[b], j, y) PROVE FALSE
      BY DEF Has
    <3>1. b = x
      BY <1>1, HomeLeaf
    <3>2. NodeHas(n, j, y)
      BY <3>1
    <3>. QED
      BY <2>1, <3>2 DEF NodeHas
  <2>4. ASSUME NEW cap, cap = MaxKeys \/ cap = MaxKeys + 1, LeafOK(full, lo[x], hi[x], cap)
        PROVE  Tree(Put(h, x, full), ht, lo, hi, cap) /\ DOMAIN Put(h, x, full) = DOMAIN h
    <3>1. ASSUME NEW b \in DOMAIN h PROVE NodeOK(h, ht, lo, hi, cap, b)
      <4>1. NodeOK(h, ht, lo, hi, MaxKeys, b)
        BY DEF Tree
      <4>. QED
        BY <2>4, <4>1, NodeRoom
    <3>2. IsHeap(h) /\ Homes(h, ht, lo, hi) /\ Disjoint(h, ht, lo, hi) /\ Linked(h, lo, hi)
      BY DEF Tree
    <3>3. full \in Nodes /\ full.is_leaf = h[x].is_leaf /\ full.next = h[x].next /\ full.is_leaf
      BY <2>1, <2>2
    <3>4. \A b \in DOMAIN h : b # x => NodeOK(h, ht, lo, hi, cap, b)
      BY <3>1
    <3>5. Suits(full, h, ht, lo, hi, cap, x)
      BY <1>3, <2>4, <3>3 DEF Suits
    <3>. QED
      BY <3>2, <3>4, <3>5, ReplaceNode
  <2>5. ASSUME s.heap = Put(h, x, full), DOMAIN s.heap = DOMAIN h PROVE Gains(h, s, j, w)
    <3>1. s.heap[x] = full /\ \A b \in DOMAIN h : b # x => s.heap[b] = h[b]
      BY <2>5 DEF Put
    <3>2. ASSUME NEW i, NEW y PROVE Has(s.heap, i, y) <=> Has(h, i, y) \/ (i = j /\ y = w)
      <4>1. Has(s.heap, i, y) <=> NodeHas(full, i, y) \/ \E b \in DOMAIN h : b # x /\ NodeHas(h[b], i, y)
        BY <2>5, <3>1 DEF Has
      <4>2. Has(h, i, y) <=> NodeHas(n, i, y) \/ \E b \in DOMAIN h : b # x /\ NodeHas(h[b], i, y)
        BY DEF Has
      <4>3. NodeHas(full, i, y) <=> NodeHas(n, i, y) \/ (i = j /\ y = w)
        BY <2>1
      <4>. QED
        BY <4>1, <4>2, <4>3
    <3>. QED
      BY <2>3, <3>2 DEF Gains
  <2>6. CASE Len(full.keys) <= MaxKeys
    <3>1. s.status = "ok" /\ s.heap = Put(h, x, full) /\ s.mem = m
      BY <1>4, <1>6, <2>6 DEF Done, Result
    <3>2. LeafOK(full, lo[x], hi[x], MaxKeys)
      BY <1>1, <2>1, <2>6 DEF LeafOK, Keyed
    <3>3. Tree(s.heap, ht, lo, hi, MaxKeys) /\ DOMAIN s.heap = DOMAIN h
      BY <2>4, <3>1, <3>2
    <3>4. \A b \in DOMAIN h : b # x => s.heap[b] = h[b]
      BY <3>1 DEF Put
    <3>5. Room(s.heap, s.mem)
      BY <3>1, <3>3 DEF Room
    <3>6. Frame(h, ht, lo, hi, x, s, ht, lo, hi)
      BY <3>3, <3>4, <3>5 DEF Frame, Tree
    <3>7. Whole(h, hi, x, s, ht, lo, hi)
      BY <3>1, <3>3 DEF Whole, Tree
    <3>8. Gains(h, s, j, w)
      BY <2>5, <3>1, <3>3
    <3>. QED
      BY <3>6, <3>7, <3>8 DEF InsertOK, s
  <2>7. CASE Len(full.keys) > MaxKeys /\ m = 0
    <3>1. s.status = "memory" /\ s.heap = Put(h, x, full) /\ s.mem = m
      <4>1. ~(Len(full.keys) <= MaxKeys)
        BY <1>1, <2>1, <2>7 DEF LeafOK, Keyed
      <4>. QED
        BY <1>4, <1>6, <2>7, <4>1 DEF Error, Result
    <3>3. Tree(s.heap, ht, lo, hi, MaxKeys + 1) /\ DOMAIN s.heap = DOMAIN h
      BY <2>1, <2>4, <3>1
    <3>4. \A b \in DOMAIN h : b # x => s.heap[b] = h[b]
      BY <3>1 DEF Put
    <3>5. Room(s.heap, s.mem)
      BY <3>1, <3>3 DEF Room
    <3>6. Frame(h, ht, lo, hi, x, s, ht, lo, hi)
      BY <3>3, <3>4, <3>5 DEF Frame, Tree
    <3>7. Whole(h, hi, x, s, ht, lo, hi)
      BY <3>1, <3>3 DEF Whole, Tree
    <3>8. Gains(h, s, j, w)
      BY <2>5, <3>1, <3>3
    <3>. QED
      BY <3>6, <3>7, <3>8 DEF InsertOK, s
  <2>8. CASE Len(full.keys) > MaxKeys /\ m # 0
    <3>. DEFINE p     == Upper(full).keys[1]
                lower == Lower(full, r)
                upper == Upper(full)
                h2    == Put(Put(h, r, upper), x, lower)
                ht2   == Put(ht, r, ht[x])
                lo2   == Put(lo, r, p)
                hi2   == Put(Put(hi, r, hi[x]), x, p)
    <3>1. s = Split(h2, m - 1, p, r)
      <4>1. ~(Len(full.keys) <= MaxKeys)
        BY <1>1, <2>1, <2>8 DEF LeafOK, Keyed
      <4>. QED
        BY <1>4, <1>6, <2>8, <4>1
    <3>2. s.status = "split" /\ s.heap = h2 /\ s.mem = m - 1 /\ s.promoted = p /\ s.right = r
      BY <3>1 DEF Split, Result
    <3>3. r \in Addrs /\ r \notin DOMAIN h /\ \A g : DOMAIN g = DOMAIN h \cup {r} => Room(g, m - 1)
      BY <2>8, Allocate DEF r
    <3>4. /\ lower \in Nodes /\ upper \in Nodes
          /\ p \in Keys /\ p \in Nat /\ lo[x] < p /\ p < hi[x]
          /\ LeafOK(lower, lo[x], p, MaxKeys) /\ LeafOK(upper, p, hi[x], MaxKeys)
          /\ lower.next = r /\ upper.next = full.next
          /\ \A i, y : NodeHas(full, i, y) <=> NodeHas(lower, i, y) \/ NodeHas(upper, i, y)
      BY <1>1, <2>1, <2>8, <3>3, LeafHalves
    <3>. HIDE DEF p, lower, upper
    <3>5. lower.is_leaf = h[x].is_leaf /\ upper.is_leaf = h[x].is_leaf
      <4>1. lower.is_leaf = TRUE /\ upper.is_leaf = TRUE /\ h[x].is_leaf = TRUE
        BY <1>1, <3>4 DEF LeafOK, Nodes
      <4>. QED
        BY <4>1
    <3>6. ASSUME NEW b \in DOMAIN h, b # x, b \notin {c \in DOMAIN h : x \in ToSet(h[c].children)}
          PROVE  /\ NodeOK(h, ht, lo, hi, MaxKeys, b)
                 /\ ~h[b].is_leaf => \A i \in 1 .. Len(h[b].keys) + 1 : h[b].children[i] # x
      <4>1. NodeOK(h, ht, lo, hi, MaxKeys, b)
        BY DEF Tree
      <4>2. ASSUME ~h[b].is_leaf, NEW i \in 1 .. Len(h[b].keys) + 1 PROVE h[b].children[i] # x
        <5>1. Len(h[b].children) = Len(h[b].keys) + 1 /\ h[b].children \in Seq(Addrs)
          BY <4>1, <4>2 DEF NodeOK, InnerOK, Tree, IsHeap, Nodes
        <5>2. h[b].children[i] \in ToSet(h[b].children)
          BY <5>1 DEF ToSet
        <5>. QED
          BY <3>6, <5>2
      <4>. QED
        BY <4>1, <4>2
    <3>. DEFINE E == {c \in DOMAIN h : x \in ToSet(h[c].children)}
    <3>7. /\ IsHeap(h) /\ Homes(h, ht, lo, hi) /\ Disjoint(h, ht, lo, hi) /\ Linked(h, lo, hi)
          /\ upper.next = h[x].next
      BY <2>1, <3>4 DEF Tree
    <3>8. \A b \in DOMAIN h : b # x /\ b \notin E =>
            /\ NodeOK(h, ht, lo, hi, MaxKeys, b)
            /\ ~h[b].is_leaf => \A i \in 1 .. Len(h[b].keys) + 1 : h[b].children[i] # x
      BY <3>6
    <3>. HIDE DEF E, n
    <3>9. /\ DOMAIN h2 = DOMAIN h \cup {r}
          /\ IsHeap(h2) /\ Homes(h2, ht2, lo2, hi2)
          /\ Disjoint(h2, ht2, lo2, hi2) /\ Linked(h2, lo2, hi2)
          /\ h2[x] = lower /\ h2[r] = upper /\ hi2[x] = p
          /\ ht2[r] = ht[x] /\ lo2[r] = p /\ hi2[r] = hi[x]
          /\ \A b \in DOMAIN h : ht2[b] = ht[b] /\ lo2[b] = lo[b]
          /\ \A b \in DOMAIN h : b # x => hi2[b] = hi[b] /\ h2[b] = h[b]
          /\ \A b \in DOMAIN h2 : b \notin E \/ b = x => NodeOK(h2, ht2, lo2, hi2, MaxKeys, b)
      <4>1. IF h[x].is_leaf
            THEN /\ ht[x] = 0 /\ lower.next = r /\ upper.next = h[x].next
                 /\ LeafOK(lower, lo[x], p, MaxKeys) /\ LeafOK(upper, p, hi[x], MaxKeys)
            ELSE /\ InnerOK(lower, ht[x], lo[x], p, MaxKeys, ht, lo, hi, DOMAIN h)
                 /\ InnerOK(upper, ht[x], p, hi[x], MaxKeys, ht, lo, hi, DOMAIN h)
        BY <1>3, <3>4, <3>7
      <4>2. lower \in Nodes /\ upper \in Nodes /\ p \in Nat /\ lo[x] < p /\ p < hi[x]
        BY <3>4
      <4>. QED
        BY <3>3, <3>5, <3>7, <3>8, <4>1, <4>2, SplitNode
    <3>. HIDE DEF h2, ht2, lo2, hi2
    <3>10. Room(h2, m - 1)
      BY <3>3, <3>9
    <3>11. Frame(h, ht, lo, hi, x, s, ht2, lo2, hi2)
      <4>1. \A b \in DOMAIN h2 : b \notin DOMAIN h => ht2[b] <= ht[x]
        BY <1>3, <3>9
      <4>. QED
        BY <3>2, <3>9, <3>10, <4>1 DEF Frame
    <3>12. Halved(h, ht, lo, hi, x, s, ht2, lo2, hi2)
      <4>1. \A b \in DOMAIN h2 : (b \notin DOMAIN h \/ x \notin ToSet(h[b].children)) => b \notin E
        BY DEF E
      <4>2. r \in DOMAIN h2
        BY <3>9
      <4>. QED
        BY <3>2, <3>3, <3>4, <3>9, <4>1, <4>2 DEF Halved
    <3>13. Gains(h, s, j, w)
      <4>1. ASSUME NEW i, NEW y PROVE Has(s.heap, i, y) <=> Has(h, i, y) \/ (i = j /\ y = w)
        <5>1. Has(s.heap, i, y) <=> \/ NodeHas(lower, i, y) \/ NodeHas(upper, i, y)
                                    \/ \E b \in DOMAIN h : b # x /\ NodeHas(h[b], i, y)
          BY <3>2, <3>3, <3>9 DEF Has
        <5>2. Has(h, i, y) <=> NodeHas(n, i, y) \/ \E b \in DOMAIN h : b # x /\ NodeHas(h[b], i, y)
          BY DEF Has, n
        <5>3. NodeHas(full, i, y) <=> NodeHas(n, i, y) \/ (i = j /\ y = w)
          BY <2>1
        <5>4. NodeHas(full, i, y) <=> NodeHas(lower, i, y) \/ NodeHas(upper, i, y)
          BY <3>4
        <5>. QED
          BY <5>1, <5>2, <5>3, <5>4
      <4>. QED
        BY <2>3, <4>1 DEF Gains
    <3>. QED
      BY <3>11, <3>12, <3>13 DEF InsertOK, s
  <2>9. Len(full.keys) \in Nat
    BY <1>1, <2>1 DEF LeafOK, Keyed
  <2>. QED
    BY <1>1, <2>6, <2>7, <2>8, <2>9
<1>. QED
  BY <1>5, <1>6

\* The children of a node, of which a leaf has none.
LEMMA ChildIndex ==
  ASSUME NEW h, NEW ht, NEW lo, NEW hi, NEW cap, NEW b, h[b] \in Nodes, NodeOK(h, ht, lo, hi, cap, b),
         NEW c \in ToSet(h[b].children)
  PROVE  ~h[b].is_leaf /\ \E i \in 1 .. Len(h[b].keys) + 1 : c = h[b].children[i]
<1>1. PICK i \in DOMAIN h[b].children : c = h[b].children[i]
  BY DEF ToSet
<1>2. ~h[b].is_leaf
  <2>. SUFFICES ASSUME h[b].is_leaf PROVE FALSE
    OBVIOUS
  <2>1. h[b].children = <<>>
    BY DEF NodeOK, LeafOK
  <2>2. DOMAIN h[b].children = {}
    BY <2>1
  <2>. QED
    BY <1>1, <2>2
<1>3. Len(h[b].children) = Len(h[b].keys) + 1 /\ h[b].children \in Seq(Addrs)
  BY <1>2 DEF NodeOK, InnerOK, Nodes
<1>4. DOMAIN h[b].children = 1 .. Len(h[b].keys) + 1
  BY <1>3
<1>. QED
  BY <1>1, <1>2, <1>4

Within(h, ht, lo, hi, a, i, c) ==
  /\ c \in DOMAIN h /\ ht[c] + 1 = ht[a] /\ c # a
  /\ lo[c] = Edge(h[a], lo[a], hi[a], i - 1) /\ hi[c] = Edge(h[a], lo[a], hi[a], i)
  /\ lo[a] <= lo[c] /\ lo[c] < hi[c] /\ hi[c] <= hi[a]

\* A child is one level down, and its home lies within the node's.
LEMMA ChildHome ==
  ASSUME NEW h, NEW ht, NEW lo, NEW hi, NEW cap, IsHeap(h), Homes(h, ht, lo, hi), NEW a \in DOMAIN h,
         NodeOK(h, ht, lo, hi, cap, a), ~h[a].is_leaf, NEW i \in 1 .. Len(h[a].keys) + 1
  PROVE  Within(h, ht, lo, hi, a, i, h[a].children[i])
<1>. DEFINE n == h[a]
            c == n.children[i]
            L == Len(n.keys)
            e(l) == Edge(n, lo[a], hi[a], l)
<1>1. InnerOK(n, ht[a], lo[a], hi[a], cap, ht, lo, hi, DOMAIN h)
  BY DEF NodeOK
<1>2. c \in DOMAIN h /\ ht[c] + 1 = ht[a] /\ lo[c] = e(i - 1) /\ hi[c] = e(i)
  BY <1>1 DEF InnerOK, ChildOK
<1>3. ht[c] \in Nat /\ ht[a] \in Nat /\ lo[a] \in Nat /\ hi[a] \in Nat /\ n \in Nodes
  BY <1>2 DEF Homes, IsHeap
<1>4. L \in Nat /\ \A k, l \in 0 .. L + 1 : k < l => e(k) < e(l)
  <2>1. n.keys \in Seq(Keys)
    BY <1>3 DEF Nodes
  <2>. QED
    BY <1>1, <2>1 DEF InnerOK, EdgesAscend
<1>5. \A l \in 0 .. L + 1 : e(l) \in Nat
  BY <1>3, EdgeType
<1>6. e(0) = lo[a] /\ e(L + 1) = hi[a]
  BY <1>4 DEF Edge
<1>7. /\ i - 1 \in 0 .. L + 1 /\ i \in 0 .. L + 1 /\ i - 1 < i /\ 0 \in 0 .. L + 1 /\ L + 1 \in 0 .. L + 1
      /\ (i - 1 = 0 \/ 0 < i - 1) /\ (i = L + 1 \/ i < L + 1)
  BY <1>4
<1>. HIDE DEF e, L
<1>8. lo[a] <= lo[c] /\ lo[c] < hi[c] /\ hi[c] <= hi[a]
  BY <1>2, <1>4, <1>5, <1>6, <1>7
<1>9. c # a
  BY <1>2, <1>3
<1>. QED
  BY <1>2, <1>8, <1>9 DEF e, Within

\* No node is a child twice.
LEMMA UniqueParent ==
  ASSUME NEW h, NEW ht, NEW lo, NEW hi, NEW cap, Tree(h, ht, lo, hi, cap),
         NEW a \in DOMAIN h, NEW b \in DOMAIN h, ~h[a].is_leaf, ~h[b].is_leaf,
         NEW i \in 1 .. Len(h[a].keys) + 1, NEW j \in 1 .. Len(h[b].keys) + 1,
         h[a].children[i] = h[b].children[j]
  PROVE  a = b /\ i = j
<1>. DEFINE c == h[a].children[i]
<1>1. IsHeap(h) /\ Homes(h, ht, lo, hi) /\ Disjoint(h, ht, lo, hi)
      /\ NodeOK(h, ht, lo, hi, cap, a) /\ NodeOK(h, ht, lo, hi, cap, b)
  BY DEF Tree
<1>2. /\ c \in DOMAIN h /\ ht[c] + 1 = ht[a] /\ lo[a] <= lo[c] /\ lo[c] < hi[c] /\ hi[c] <= hi[a]
      /\ hi[c] = Edge(h[a], lo[a], hi[a], i)
  <2>1. Within(h, ht, lo, hi, a, i, h[a].children[i])
    BY <1>1, ChildHome
  <2>. QED
    BY <2>1 DEF Within
<1>3. /\ ht[c] + 1 = ht[b] /\ lo[b] <= lo[c] /\ hi[c] <= hi[b] /\ hi[c] = Edge(h[b], lo[b], hi[b], j)
  <2>1. Within(h, ht, lo, hi, b, j, h[b].children[j])
    BY <1>1, ChildHome
  <2>. QED
    BY <2>1 DEF Within
<1>4. /\ ht[a] \in Nat /\ ht[b] \in Nat /\ lo[a] \in Nat /\ lo[b] \in Nat /\ hi[a] \in Nat
      /\ hi[b] \in Nat /\ lo[c] \in Nat /\ hi[c] \in Nat
  BY <1>1, <1>2 DEF Homes
<1>5. a = b
  <2>1. a # b => hi[a] <= lo[b] \/ hi[b] <= lo[a]
    BY <1>1, <1>2, <1>3 DEF Disjoint
  <2>. HIDE DEF c
  <2>. QED
    BY <1>2, <1>3, <1>4, <2>1
<1>6. i = j
  <2>1. EdgesAscend(h[a], lo[a], hi[a]) /\ h[a].keys \in Seq(Keys) /\ h[a] \in Nodes
    BY <1>1 DEF NodeOK, InnerOK, IsHeap, Nodes
  <2>2. /\ Len(h[a].keys) \in Nat /\ i \in 0 .. Len(h[a].keys) + 1 /\ j \in 0 .. Len(h[a].keys) + 1
        /\ i \in Nat /\ j \in Nat
    BY <1>5, <2>1
  <2>3. Edge(h[a], lo[a], hi[a], i) = Edge(h[a], lo[a], hi[a], j)
    BY <1>2, <1>3, <1>5
  <2>4. Edge(h[a], lo[a], hi[a], i) \in Nat /\ Edge(h[a], lo[a], hi[a], j) \in Nat
    BY <1>4, <2>1, <2>2, EdgeType
  <2>5. i < j => Edge(h[a], lo[a], hi[a], i) < Edge(h[a], lo[a], hi[a], j)
    BY <2>1, <2>2 DEF EdgesAscend
  <2>6. j < i => Edge(h[a], lo[a], hi[a], j) < Edge(h[a], lo[a], hi[a], i)
    BY <2>1, <2>2 DEF EdgesAscend
  <2>. QED
    BY <2>2, <2>3, <2>4, <2>5, <2>6
<1>. QED
  BY <1>5, <1>6

\* Absorb in the words above.
LEMMA AbsorbResult ==
  ASSUME NEW h, NEW m, NEW a, NEW at, NEW p, NEW c
  PROVE  LET full == Wider(h[a], at, p, c)
             r    == create_node(h)
         IN  Absorb(h, m, a, at, p, c) =
               IF Len(full.keys) <= MaxKeys THEN Done(Put(h, a, full), m)
               ELSE IF m = 0 THEN Error(Put(h, a, full), m, "memory")
               ELSE Split(Put(Put(h, r, UpperInner(full)), a, LowerInner(full)), m - 1,
                          full.keys[Half(full) + 1], r)
BY DEF Absorb, SplitInternal, Wider, UpperInner, LowerInner, Half

\* What insert_into_node returns for an internal node, given what it returned
\* for the child.
Unwind(a, at, sub) ==
  IF sub.status # "split" THEN sub
  ELSE Absorb(sub.heap, sub.mem, a, at, sub.promoted, sub.right)

\* The child has split: the parent takes the new child in, and may split itself.
LEMMA AbsorbSplit ==
  ASSUME NEW h, NEW ht, NEW lo, NEW hi, Tree(h, ht, lo, hi, MaxKeys),
         NEW a \in DOMAIN h, ~h[a].is_leaf,
         NEW j \in Keys, NEW w, NEW at \in 1 .. Len(h[a].keys) + 1, NEW c, c = h[a].children[at],
         NEW sub, Gains(h, sub, j, w), NEW ht2, NEW lo2, NEW hi2,
         Frame(h, ht, lo, hi, c, sub, ht2, lo2, hi2),
         Halved(h, ht, lo, hi, c, sub, ht2, lo2, hi2)
  PROVE  InsertOK(h, ht, lo, hi, a, j, w,
                  Absorb(sub.heap, sub.mem, a, at, sub.promoted, sub.right))
<1>. DEFINE n    == h[a]
            g    == sub.heap
            m    == sub.mem
            p    == sub.promoted
            q    == sub.right
            full == Wider(n, at, p, q)
            r    == create_node(g)
            s    == Absorb(g, m, a, at, p, q)
            L    == Len(n.keys)
<1>1. /\ IsHeap(h) /\ Homes(h, ht, lo, hi) /\ Disjoint(h, ht, lo, hi) /\ Linked(h, lo, hi)
      /\ NodeOK(h, ht, lo, hi, MaxKeys, a)
  BY DEF Tree
<1>2. /\ n \in Nodes /\ ht[a] \in Nat /\ lo[a] \in Nat /\ hi[a] \in Nat /\ L \in Nat
      /\ InnerOK(n, ht[a], lo[a], hi[a], MaxKeys, ht, lo, hi, DOMAIN h)
  <2>1. n \in Nodes /\ ht[a] \in Nat /\ lo[a] \in Nat /\ hi[a] \in Nat
    BY <1>1 DEF IsHeap, Homes
  <2>2. n.keys \in Seq(Keys)
    BY <2>1 DEF Nodes
  <2>. QED
    BY <1>1, <2>1, <2>2 DEF NodeOK
<1>3. Within(h, ht, lo, hi, a, at, c)
  BY <1>1, ChildHome
<1>4. /\ c \in DOMAIN h /\ ht[c] + 1 = ht[a] /\ c # a /\ ht[c] \in Nat
      /\ lo[c] = Edge(n, lo[a], hi[a], at - 1) /\ hi[c] = Edge(n, lo[a], hi[a], at)
  BY <1>1, <1>3 DEF Within, Homes
<1>5. /\ DOMAIN h \subseteq DOMAIN g /\ IsHeap(g) /\ Homes(g, ht2, lo2, hi2)
      /\ Disjoint(g, ht2, lo2, hi2) /\ Linked(g, lo2, hi2) /\ Room(g, m)
      /\ \A b \in DOMAIN h : ht2[b] = ht[b] /\ lo2[b] = lo[b]
      /\ \A b \in DOMAIN h : b # c /\ ht[b] >= ht[c] => hi2[b] = hi[b] /\ g[b] = h[b]
      /\ \A b \in DOMAIN g : b \notin DOMAIN h => ht2[b] <= ht[c]
  BY DEF Frame
<1>6. /\ q \in DOMAIN g /\ q \notin DOMAIN h /\ p \in Keys /\ lo[c] < p /\ p < hi[c]
      /\ ht2[q] = ht[c] /\ lo2[q] = p /\ hi2[q] = hi[c] /\ hi2[c] = p
      /\ \A b \in DOMAIN g : (b \notin DOMAIN h \/ c \notin ToSet(h[b].children)) =>
                               NodeOK(g, ht2, lo2, hi2, MaxKeys, b)
  BY DEF Halved
<1>7. g[a] = n /\ hi2[a] = hi[a] /\ ht2[a] = ht[a] /\ lo2[a] = lo[a] /\ a \in DOMAIN g
  BY <1>4, <1>5
<1>8. \A b \in DOMAIN h : c \in ToSet(h[b].children) => b = a
  <2>. SUFFICES ASSUME NEW b \in DOMAIN h, c \in ToSet(h[b].children) PROVE b = a
    OBVIOUS
  <2>1. NodeOK(h, ht, lo, hi, MaxKeys, b)
    BY DEF Tree
  <2>0. h[b] \in Nodes
    BY DEF Tree, IsHeap
  <2>2. ~h[b].is_leaf /\ \E i \in 1 .. Len(h[b].keys) + 1 : c = h[b].children[i]
    <3>1. ASSUME NEW d \in ToSet(h[b].children)
          PROVE  ~h[b].is_leaf /\ \E i \in 1 .. Len(h[b].keys) + 1 : d = h[b].children[i]
      BY <2>0, <2>1, <3>1, ChildIndex
    <3>. QED
      BY <3>1
  <2>3. PICK i \in 1 .. Len(h[b].keys) + 1 : c = h[b].children[i]
    BY <2>2
  <2>4. h[a].children[at] = h[b].children[i]
    BY <2>3
  <2>. QED
    BY <2>2, <2>4, UniqueParent
<1>9. \A b \in DOMAIN g : b # a => NodeOK(g, ht2, lo2, hi2, MaxKeys, b)
  BY <1>6, <1>8
<1>10. \A i \in 1 .. L + 1 : i # at =>
         /\ ht2[n.children[i]] = ht[n.children[i]]
         /\ lo2[n.children[i]] = lo[n.children[i]] /\ hi2[n.children[i]] = hi[n.children[i]]
  <2>. SUFFICES ASSUME NEW i \in 1 .. L + 1, i # at
                PROVE  LET d == n.children[i]
                       IN  ht2[d] = ht[d] /\ lo2[d] = lo[d] /\ hi2[d] = hi[d]
    OBVIOUS
  <2>1. Within(h, ht, lo, hi, a, i, n.children[i])
    BY <1>1, ChildHome
  <2>2. n.children[i] \in DOMAIN h /\ ht[n.children[i]] + 1 = ht[a] /\ ht[n.children[i]] \in Nat
    BY <1>1, <2>1 DEF Within, Homes
  <2>3. n.children[i] # c
    BY UniqueParent
  <2>. QED
    BY <1>4, <1>5, <2>2, <2>3
<1>11. /\ full \in Nodes /\ Len(full.keys) = L + 1
       /\ InnerOK(full, ht[a], lo[a], hi[a], MaxKeys + 1, ht2, lo2, hi2, DOMAIN g)
  <2>1. /\ q \in Addrs /\ Edge(n, lo[a], hi[a], at - 1) < p /\ p < Edge(n, lo[a], hi[a], at)
        /\ lo2[n.children[at]] = lo[n.children[at]] /\ hi2[n.children[at]] = p
        /\ ht2[n.children[at]] = ht[n.children[at]]
        /\ hi2[q] = hi[n.children[at]] /\ ht2[q] = ht[n.children[at]]
    BY <1>4, <1>5, <1>6 DEF IsHeap
  <2>2. DOMAIN h \subseteq DOMAIN g /\ q \in DOMAIN g /\ p \in Keys /\ lo2[q] = p
    BY <1>5, <1>6
  <2>3. at \in 1 .. Len(n.keys) + 1
    BY DEF n
  <2>4. \A i \in 1 .. Len(n.keys) + 1 : i # at =>
           /\ ht2[n.children[i]] = ht[n.children[i]]
           /\ lo2[n.children[i]] = lo[n.children[i]] /\ hi2[n.children[i]] = hi[n.children[i]]
    BY <1>10
  <2>5. InnerOK(n, ht[a], lo[a], hi[a], MaxKeys, ht, lo, hi, DOMAIN h)
    BY <1>2
  <2>6. n \in Nodes /\ ht[a] \in Nat /\ lo[a] \in Nat /\ hi[a] \in Nat
    BY <1>2
  <2>7. DOMAIN h \subseteq DOMAIN g
    BY <2>2
  <2>8. Taken(n, lo[a], hi[a], at, p, q, ht, lo, hi, DOMAIN h, ht2, lo2, hi2, DOMAIN g)
    BY <2>1, <2>2, <2>3, <2>4, <2>7 DEF Taken
  <2>9. p \in Keys /\ q \in Addrs
    BY <2>1, <2>2
  <2>. HIDE DEF n, g, p, q
  <2>. QED
    BY <2>3, <2>5, <2>6, <2>8, <2>9, InnerTakes
<1>12. /\ s = IF Len(full.keys) <= MaxKeys THEN Done(Put(g, a, full), m)
              ELSE IF m = 0 THEN Error(Put(g, a, full), m, "memory")
              ELSE Split(Put(Put(g, r, UpperInner(full)), a, LowerInner(full)), m - 1,
                         full.keys[Half(full) + 1], r)
  BY <1>7, AbsorbResult
<1>13. ~full.is_leaf /\ MaxKeys \in Nat /\ Len(full.keys) \in Nat /\ full.is_leaf = g[a].is_leaf
  <2>1. full.is_leaf = FALSE
    BY DEF Wider, Internal
  <2>2. g[a].is_leaf = FALSE
    BY <1>2, <1>7 DEF Nodes
  <2>3. MaxKeys \in Nat
    BY BPTreeAssumption
  <2>4. Len(full.keys) \in Nat
    <3>1. L \in Nat /\ Len(full.keys) = L + 1
      BY <1>2, <1>11
    <3>. HIDE DEF L, full
    <3>. QED
      BY <3>1
  <2>. HIDE DEF full, g
  <2>. QED
    BY <2>1, <2>2, <2>3, <2>4
<1>14. (\A i, y : Has(g, i, y) <=> Has(h, i, y) \/ (i = j /\ y = w)) /\ \A y : ~Has(h, j, y)
  BY DEF Gains
<1>. HIDE DEF s, r, full, n, g, m, p, q, L
<1>15. ASSUME NEW cap, cap = MaxKeys \/ cap = MaxKeys + 1,
              InnerOK(full, ht[a], lo[a], hi[a], cap, ht2, lo2, hi2, DOMAIN g)
       PROVE  Tree(Put(g, a, full), ht2, lo2, hi2, cap) /\ DOMAIN Put(g, a, full) = DOMAIN g
  <2>1. ASSUME NEW b \in DOMAIN g, b # a PROVE NodeOK(g, ht2, lo2, hi2, cap, b)
    <3>1. NodeOK(g, ht2, lo2, hi2, MaxKeys, b)
      BY <1>9, <2>1
    <3>. QED
      BY <1>15, <3>1, NodeRoom
  <2>2. Suits(full, g, ht2, lo2, hi2, cap, a)
    BY <1>7, <1>11, <1>13, <1>15 DEF Suits
  <2>. QED
    BY <1>5, <1>7, <2>1, <2>2, ReplaceNode
<1>16. ASSUME s.heap = Put(g, a, full), DOMAIN s.heap = DOMAIN g, s.mem = m, NEW cap,
              Tree(s.heap, ht2, lo2, hi2, cap)
       PROVE  Gains(h, s, j, w) /\ Frame(h, ht, lo, hi, a, s, ht2, lo2, hi2) /\ hi2[a] = hi[a]
  <2>1. s.heap[a] = full /\ \A b \in DOMAIN g : b # a => s.heap[b] = g[b]
    BY <1>16 DEF Put
  <2>2. ASSUME NEW i, NEW y PROVE Has(s.heap, i, y) <=> Has(g, i, y)
    <3>1. ~NodeHas(full, i, y) /\ ~NodeHas(g[a], i, y)
      BY <1>13 DEF NodeHas
    <3>. QED
      BY <1>16, <2>1, <3>1 DEF Has
  <2>3. Gains(h, s, j, w)
    BY <1>14, <2>2 DEF Gains
  <2>4. \A b \in DOMAIN h : b # a /\ ht[b] >= ht[a] => hi2[b] = hi[b] /\ s.heap[b] = h[b]
    <3>. SUFFICES ASSUME NEW b \in DOMAIN h, b # a, ht[b] >= ht[a]
                  PROVE  hi2[b] = hi[b] /\ s.heap[b] = h[b]
      OBVIOUS
    <3>1. ht[b] \in Nat /\ b # c /\ ht[b] >= ht[c] /\ b \in DOMAIN g
      BY <1>1, <1>2, <1>4, <1>5 DEF Homes
    <3>. QED
      BY <1>5, <2>1, <3>1
  <2>5. \A b \in DOMAIN s.heap : b \notin DOMAIN h => ht2[b] <= ht[a]
    <3>1. \A b \in DOMAIN g : ht2[b] \in Nat
      BY <1>5 DEF Homes
    <3>. QED
      BY <1>2, <1>4, <1>5, <1>16, <3>1
  <2>6. Room(s.heap, s.mem)
    BY <1>5, <1>16 DEF Room
  <2>7. Frame(h, ht, lo, hi, a, s, ht2, lo2, hi2)
    BY <1>5, <1>16, <2>4, <2>5, <2>6 DEF Frame, Tree
  <2>. QED
    BY <1>7, <2>3, <2>7
<1>17. CASE Len(full.keys) <= MaxKeys
  <2>1. s.status = "ok" /\ s.heap = Put(g, a, full) /\ s.mem = m
    BY <1>12, <1>17 DEF Done, Result
  <2>2. InnerOK(full, ht[a], lo[a], hi[a], MaxKeys, ht2, lo2, hi2, DOMAIN g)
    <3>1. Len(full.keys) \in 1 .. MaxKeys
      BY <1>11, <1>13, <1>17 DEF InnerOK
    <3>. QED
      BY <1>11, <3>1 DEF InnerOK
  <2>3. Tree(s.heap, ht2, lo2, hi2, MaxKeys) /\ DOMAIN s.heap = DOMAIN g
    BY <1>15, <2>1, <2>2
  <2>4. Gains(h, s, j, w) /\ Frame(h, ht, lo, hi, a, s, ht2, lo2, hi2) /\ hi2[a] = hi[a]
    BY <1>16, <2>1, <2>3
  <2>5. Whole(h, hi, a, s, ht2, lo2, hi2)
    BY <2>1, <2>3, <2>4 DEF Whole, Tree
  <2>. QED
    BY <2>4, <2>5 DEF InsertOK, s, g, m, p, q
<1>18. CASE Len(full.keys) > MaxKeys /\ m = 0
  <2>1. s.status = "memory" /\ s.heap = Put(g, a, full) /\ s.mem = m
    <3>1. ~(Len(full.keys) <= MaxKeys)
      BY <1>13, <1>18
    <3>. QED
      BY <1>12, <1>18, <3>1 DEF Error, Result
  <2>3. Tree(s.heap, ht2, lo2, hi2, MaxKeys + 1) /\ DOMAIN s.heap = DOMAIN g
    BY <1>11, <1>15, <2>1
  <2>4. Gains(h, s, j, w) /\ Frame(h, ht, lo, hi, a, s, ht2, lo2, hi2) /\ hi2[a] = hi[a]
    BY <1>16, <2>1, <2>3
  <2>5. Whole(h, hi, a, s, ht2, lo2, hi2)
    BY <2>1, <2>3, <2>4 DEF Whole, Tree
  <2>. QED
    BY <2>4, <2>5 DEF InsertOK, s, g, m, p, q
<1>19. CASE Len(full.keys) > MaxKeys /\ m # 0
  <2>. DEFINE up    == full.keys[Half(full) + 1]
              lower == LowerInner(full)
              upper == UpperInner(full)
              h3    == Put(Put(g, r, upper), a, lower)
              ht3   == Put(ht2, r, ht2[a])
              lo3   == Put(lo2, r, up)
              hi3   == Put(Put(hi2, r, hi2[a]), a, up)
              E     == {b \in DOMAIN h : a \in ToSet(h[b].children)}
  <2>1. s = Split(h3, m - 1, up, r)
    <3>1. ~(Len(full.keys) <= MaxKeys)
      BY <1>13, <1>19
    <3>. QED
      BY <1>12, <1>19, <3>1
  <2>2. s.status = "split" /\ s.heap = h3 /\ s.mem = m - 1 /\ s.promoted = up /\ s.right = r
    BY <2>1 DEF Split, Result
  <2>3. r \in Addrs /\ r \notin DOMAIN g /\ \A x : DOMAIN x = DOMAIN g \cup {r} => Room(x, m - 1)
    BY <1>5, <1>19, Allocate DEF r
  <2>4. /\ lower \in Nodes /\ upper \in Nodes
        /\ up \in Keys /\ up \in Nat /\ lo[a] < up /\ up < hi[a]
        /\ InnerOK(lower, ht[a], lo[a], up, MaxKeys, ht2, lo2, hi2, DOMAIN g)
        /\ InnerOK(upper, ht[a], up, hi[a], MaxKeys, ht2, lo2, hi2, DOMAIN g)
    BY <1>2, <1>11, <1>19, InnerHalves
  <2>5. lower.is_leaf = FALSE /\ upper.is_leaf = FALSE /\ g[a].is_leaf = FALSE
    <3>1. lower.is_leaf = FALSE /\ upper.is_leaf = FALSE
      BY DEF LowerInner, UpperInner, Internal
    <3>. QED
      BY <1>2, <1>7, <3>1 DEF Nodes, n
  <2>. HIDE DEF up, lower, upper
  <2>6. ASSUME NEW b \in DOMAIN g, b # a, b \notin E
        PROVE  /\ NodeOK(g, ht2, lo2, hi2, MaxKeys, b)
               /\ ~g[b].is_leaf => \A i \in 1 .. Len(g[b].keys) + 1 : g[b].children[i] # a
    <3>1. NodeOK(g, ht2, lo2, hi2, MaxKeys, b)
      BY <1>9, <2>6
    <3>2. ASSUME ~g[b].is_leaf, NEW i \in 1 .. Len(g[b].keys) + 1, g[b].children[i] = a PROVE FALSE
      <4>1. Within(g, ht2, lo2, hi2, b, i, g[b].children[i])
        BY <1>5, <3>1, <3>2, ChildHome
      <4>2. ht2[b] \in Nat /\ ht2[b] = ht[a] + 1
        BY <1>5, <1>7, <3>2, <4>1 DEF Within, Homes
      <4>3. b \in DOMAIN h
        BY <1>2, <1>4, <1>5, <4>2
      <4>4. ht[b] = ht2[b] /\ g[b] = h[b]
        <5>1. ht[b] = ht2[b]
          BY <1>5, <4>3
        <5>2. ht[b] >= ht[c] /\ b # c
          BY <1>2, <1>4, <4>2, <5>1
        <5>. QED
          BY <1>5, <4>3, <5>1, <5>2
      <4>5. Len(g[b].children) = Len(g[b].keys) + 1 /\ g[b].children \in Seq(Addrs)
        BY <1>5, <3>1, <3>2 DEF NodeOK, InnerOK, IsHeap, Nodes
      <4>6. a \in ToSet(h[b].children)
        BY <3>2, <4>4, <4>5 DEF ToSet
      <4>. QED
        BY <2>6, <4>3, <4>6
    <3>. QED
      BY <3>1, <3>2
  <2>. HIDE DEF E
  <2>7. /\ DOMAIN h3 = DOMAIN g \cup {r}
        /\ IsHeap(h3) /\ Homes(h3, ht3, lo3, hi3)
        /\ Disjoint(h3, ht3, lo3, hi3) /\ Linked(h3, lo3, hi3)
        /\ h3[a] = lower /\ h3[r] = upper /\ hi3[a] = up
        /\ ht3[r] = ht2[a] /\ lo3[r] = up /\ hi3[r] = hi2[a]
        /\ \A b \in DOMAIN g : ht3[b] = ht2[b] /\ lo3[b] = lo2[b]
        /\ \A b \in DOMAIN g : b # a => hi3[b] = hi2[b] /\ h3[b] = g[b]
        /\ \A b \in DOMAIN h3 : b \notin E \/ b = a => NodeOK(h3, ht3, lo3, hi3, MaxKeys, b)
    <3>1. IF g[a].is_leaf
          THEN /\ ht2[a] = 0 /\ lower.next = r /\ upper.next = g[a].next
               /\ LeafOK(lower, lo2[a], up, MaxKeys) /\ LeafOK(upper, up, hi2[a], MaxKeys)
          ELSE /\ InnerOK(lower, ht2[a], lo2[a], up, MaxKeys, ht2, lo2, hi2, DOMAIN g)
               /\ InnerOK(upper, ht2[a], up, hi2[a], MaxKeys, ht2, lo2, hi2, DOMAIN g)
      BY <1>7, <2>4, <2>5
    <3>2. /\ lower \in Nodes /\ upper \in Nodes /\ up \in Nat /\ lo2[a] < up /\ up < hi2[a]
          /\ lower.is_leaf = g[a].is_leaf /\ upper.is_leaf = g[a].is_leaf /\ a \in DOMAIN g
      BY <1>7, <2>4, <2>5
    <3>3. \A b \in DOMAIN g : b # a /\ b \notin E =>
            /\ NodeOK(g, ht2, lo2, hi2, MaxKeys, b)
            /\ ~g[b].is_leaf => \A i \in 1 .. Len(g[b].keys) + 1 : g[b].children[i] # a
      BY <2>6
    <3>. QED
      BY <1>5, <2>3, <3>1, <3>2, <3>3, SplitNode
  <2>. HIDE DEF h3, ht3, lo3, hi3
  <2>8. Room(h3, m - 1)
    BY <2>3, <2>7
  <2>9. DOMAIN h \subseteq DOMAIN h3 /\ a \in DOMAIN h3 /\ r \in DOMAIN h3 /\ r \notin DOMAIN h
    BY <1>5, <2>3, <2>7
  <2>10. \A b \in DOMAIN h : ht3[b] = ht[b] /\ lo3[b] = lo[b]
    BY <1>5, <2>7
  <2>11. \A b \in DOMAIN h : b # a /\ ht[b] >= ht[a] => hi3[b] = hi[b] /\ h3[b] = h[b]
    <3>. SUFFICES ASSUME NEW b \in DOMAIN h, b # a, ht[b] >= ht[a]
                  PROVE  hi3[b] = hi[b] /\ h3[b] = h[b]
      OBVIOUS
    <3>1. ht[b] \in Nat /\ b # c /\ ht[b] >= ht[c] /\ b \in DOMAIN g
      BY <1>1, <1>2, <1>4, <1>5 DEF Homes
    <3>. QED
      BY <1>5, <2>7, <3>1
  <2>12. \A b \in DOMAIN h3 : b \notin DOMAIN h => ht3[b] <= ht[a]
    <3>1. \A b \in DOMAIN g : ht2[b] \in Nat
      BY <1>5 DEF Homes
    <3>. QED
      BY <1>2, <1>4, <1>5, <1>7, <2>7, <3>1
  <2>13. Frame(h, ht, lo, hi, a, s, ht3, lo3, hi3)
    BY <2>2, <2>7, <2>8, <2>9, <2>10, <2>11, <2>12 DEF Frame
  <2>14. Halved(h, ht, lo, hi, a, s, ht3, lo3, hi3)
    <3>1. \A b \in DOMAIN h3 : (b \notin DOMAIN h \/ a \notin ToSet(h[b].children)) => b \notin E
      BY DEF E
    <3>. QED
      BY <1>7, <2>2, <2>4, <2>7, <2>9, <3>1 DEF Halved
  <2>15. ASSUME NEW i, NEW y PROVE Has(s.heap, i, y) <=> Has(g, i, y)
    <3>1. ~NodeHas(lower, i, y) /\ ~NodeHas(upper, i, y) /\ ~NodeHas(g[a], i, y)
      BY <2>5 DEF NodeHas
    <3>. QED
      BY <2>2, <2>3, <2>7, <3>1 DEF Has
  <2>16. Gains(h, s, j, w)
    BY <1>14, <2>15 DEF Gains
  <2>. QED
    BY <2>13, <2>14, <2>16 DEF InsertOK, s, g, m, p, q
<1>. QED
  BY <1>13, <1>17, <1>18, <1>19

\* insert_into_internal, whatever became of the child.
LEMMA InnerInsert ==
  ASSUME NEW h, NEW ht, NEW lo, NEW hi, Tree(h, ht, lo, hi, MaxKeys),
         NEW a \in DOMAIN h, ~h[a].is_leaf,
         NEW j \in Keys, NEW w, NEW at \in 1 .. Len(h[a].keys) + 1,
         NEW sub, InsertOK(h, ht, lo, hi, h[a].children[at], j, w, sub)
  PROVE  InsertOK(h, ht, lo, hi, a, j, w, Unwind(a, at, sub))
<1>. DEFINE c == h[a].children[at]
            s == Unwind(a, at, sub)
<1>1. Within(h, ht, lo, hi, a, at, c)
  BY ChildHome DEF Tree
<1>2. c \in DOMAIN h /\ ht[c] + 1 = ht[a] /\ c # a /\ \A b \in DOMAIN h : ht[b] \in Nat
  BY <1>1 DEF Within, Tree, Homes
<1>3. CASE Refused(h, sub, j)
  <2>1. s = sub
    BY <1>3 DEF Unwind, Refused
  <2>. QED
    BY <1>3, <2>1 DEF InsertOK
<1>4. CASE ~Refused(h, sub, j)
  <2>1. Gains(h, sub, j, w)
    BY <1>4 DEF InsertOK
  <2>2. PICK ht2, lo2, hi2 :
          /\ Frame(h, ht, lo, hi, c, sub, ht2, lo2, hi2)
          /\ \/ Whole(h, hi, c, sub, ht2, lo2, hi2)
             \/ Halved(h, ht, lo, hi, c, sub, ht2, lo2, hi2)
    BY <1>4 DEF InsertOK
  <2>3. CASE Whole(h, hi, c, sub, ht2, lo2, hi2)
    <3>1. s = sub
      BY <2>3 DEF Unwind, Whole
    <3>. HIDE DEF c
    <3>2. \A b \in DOMAIN h : b # a /\ ht[b] >= ht[a] => hi2[b] = hi[b] /\ sub.heap[b] = h[b]
      <4>1. \A b \in DOMAIN h : b # a /\ ht[b] >= ht[a] => b # c /\ ht[b] >= ht[c]
        BY <1>2
      <4>. QED
        BY <2>2, <4>1 DEF Frame
    <3>3. \A b \in DOMAIN sub.heap : b \notin DOMAIN h => ht2[b] <= ht[a]
      <4>1. \A b \in DOMAIN sub.heap : ht2[b] \in Nat
        BY <2>2 DEF Frame, Homes
      <4>2. \A b \in DOMAIN sub.heap : b \notin DOMAIN h => ht2[b] <= ht[c]
        BY <2>2 DEF Frame
      <4>. QED
        BY <1>2, <4>1, <4>2
    <3>4. Frame(h, ht, lo, hi, a, sub, ht2, lo2, hi2)
      BY <2>2, <3>2, <3>3 DEF Frame
    <3>5. hi2[a] = hi[a]
      <4>1. a # c /\ ht[a] >= ht[c]
        BY <1>2
      <4>. QED
        BY <2>2, <4>1 DEF Frame
    <3>6. Whole(h, hi, a, sub, ht2, lo2, hi2)
      BY <2>3, <3>5 DEF Whole
    <3>. QED
      BY <2>1, <3>1, <3>4, <3>6 DEF InsertOK
  <2>4. CASE Halved(h, ht, lo, hi, c, sub, ht2, lo2, hi2)
    <3>1. s = Absorb(sub.heap, sub.mem, a, at, sub.promoted, sub.right)
      BY <2>4 DEF Unwind, Halved
    <3>. QED
      BY <2>1, <2>2, <2>4, <3>1, AbsorbSplit
  <2>. QED
    BY <2>2, <2>3, <2>4
<1>. QED
  BY <1>3, <1>4

-----------------------------------------------------------------------------
(***************************************************************************)
(* Recursion.  The functions that go down the tree are defined, and what   *)
(* holds of the nodes below a node and so of the node holds of them all.   *)
(***************************************************************************)
LEMMA ChildChosen ==
  ASSUME NEW n \in Nodes, NEW j
  PROVE  find_child_index(n, j) \in 1 .. Len(n.keys) + 1
<1>. DEFINE S == {i \in DOMAIN n.keys : j >= n.keys[i]}
            L == Len(n.keys)
<1>1. n.keys \in Seq(Keys)
  BY DEF Nodes
<1>2. L \in Nat /\ DOMAIN n.keys = 1 .. L
  BY <1>1
<1>3. S \in SUBSET (1 .. L)
  BY <1>2
<1>4. IsFiniteSet(1 .. L) /\ Cardinality(1 .. L) = L
  BY <1>2, FS_Interval
<1>. HIDE DEF S, L
<1>5. IsFiniteSet(S) /\ Cardinality(S) <= L
  BY <1>3, <1>4, FS_Subset
<1>6. Cardinality(S) \in Nat
  BY <1>5, FS_CardinalityType
<1>7. find_child_index(n, j) = 1 + Cardinality(S)
  BY DEF find_child_index, S
<1>8. find_child_index(n, j) \in 1 .. L + 1
  BY <1>2, <1>5, <1>6, <1>7
<1>. QED
  BY <1>8 DEF L

\* A node below another is one level down, and its home lies within.
LEMMA Kid ==
  ASSUME NEW h, NEW ht, NEW lo, NEW hi, NEW cap, Tree(h, ht, lo, hi, cap),
         NEW x \in DOMAIN h, NEW c \in ToSet(h[x].children)
  PROVE  /\ ~h[x].is_leaf /\ c \in DOMAIN h /\ ht[c] \in Nat /\ ht[c] + 1 = ht[x]
         /\ lo[x] <= lo[c] /\ lo[c] < hi[c] /\ hi[c] <= hi[x]
<1>1. NodeOK(h, ht, lo, hi, cap, x)
  BY DEF Tree
<1>2. IsHeap(h) /\ Homes(h, ht, lo, hi)
  BY DEF Tree
<1>3. h[x] \in Nodes
  BY <1>2 DEF IsHeap
<1>4. ~h[x].is_leaf /\ \E i \in 1 .. Len(h[x].keys) + 1 : c = h[x].children[i]
  BY <1>1, <1>3, ChildIndex
<1>5. PICK i \in 1 .. Len(h[x].keys) + 1 : c = h[x].children[i]
  BY <1>4
<1>6. Within(h, ht, lo, hi, x, i, h[x].children[i])
  BY <1>1, <1>2, <1>4, ChildHome
<1>. QED
  BY <1>2, <1>4, <1>5, <1>6 DEF Within, Homes

\* The child that is chosen is below the node.
LEMMA ChosenKid ==
  ASSUME NEW h, NEW ht, NEW lo, NEW hi, NEW cap, Tree(h, ht, lo, hi, cap),
         NEW x \in DOMAIN h, ~h[x].is_leaf, NEW i \in 1 .. Len(h[x].keys) + 1
  PROVE  h[x].children[i] \in ToSet(h[x].children)
<1>1. h[x].children \in Seq(Addrs) /\ Len(h[x].children) = Len(h[x].keys) + 1
  BY DEF Tree, IsHeap, NodeOK, InnerOK, Nodes
<1>. QED
  BY <1>1 DEF ToSet

\* The heights of a tree have a bound.
LEMMA HeightBound ==
  ASSUME NEW h, NEW ht, NEW lo, NEW hi, NEW cap, Tree(h, ht, lo, hi, cap)
  PROVE  \E t \in Nat : \A x \in DOMAIN h : ht[x] < t
<1>. DEFINE D == DOMAIN h
            T == {ht[x] : x \in D}
<1>1. ht \in [D -> Nat] /\ D \subseteq Addrs
  BY DEF Tree, Homes, IsHeap
<1>2. IsFiniteSet(D)
  BY <1>1, FS_Subset, BPTreeAssumption
<1>3. ht \in Surjection(D, T)
  BY <1>1 DEF Surjection
<1>4. IsFiniteSet(T)
  <2>. HIDE DEF T, D
  <2>. QED
    BY <1>2, <1>3, FS_Surjection
<1>5. T \in SUBSET Nat
  BY <1>1
<1>6. \E t \in Nat : \A y \in T : y < t
  <2>. HIDE DEF T
  <2>. QED
    BY <1>4, <1>5, Bounded
<1>. QED
  BY <1>6

\* What holds of a node when it holds of those below it holds of every node.
LEMMA TreeInduction ==
  ASSUME NEW h, NEW ht, NEW lo, NEW hi, NEW cap, Tree(h, ht, lo, hi, cap), NEW T,
         \A x \in DOMAIN h : (\A c \in ToSet(h[x].children) : c \in T) => x \in T
  PROVE  DOMAIN h \subseteq T
<1>. DEFINE U == {n \in Nat : \A x \in DOMAIN h : ht[x] < n => x \in T}
<1>1. \A x \in DOMAIN h : ht[x] \in Nat
  BY DEF Tree, Homes
<1>2. 0 \in U
  BY <1>1
<1>3. ASSUME NEW n \in U PROVE n + 1 \in U
  <2>. SUFFICES ASSUME NEW x \in DOMAIN h, ht[x] < n + 1 PROVE x \in T
    OBVIOUS
  <2>1. ASSUME NEW c \in ToSet(h[x].children) PROVE c \in T
    <3>1. c \in DOMAIN h /\ ht[c] + 1 = ht[x]
      BY Kid
    <3>. QED
      BY <1>1, <3>1
  <2>. QED
    BY <2>1
<1>4. U = Nat
  <2>. HIDE DEF U
  <2>1. U \in SUBSET Nat
    BY DEF U
  <2>. QED
    BY <1>2, <1>3, <2>1, SetInduction
<1>. QED
  <2>. SUFFICES ASSUME NEW x \in DOMAIN h PROVE x \in T
    OBVIOUS
  <2>1. ht[x] + 1 \in U /\ ht[x] < ht[x] + 1
    BY <1>1, <1>4
  <2>. QED
    BY <2>1

\* insert_into_node, as it calls itself.
LEMMA InsertRec ==
  ASSUME NEW h, NEW ht, NEW lo, NEW hi, NEW cap, Tree(h, ht, lo, hi, cap),
         NEW m, NEW j, NEW w
  PROVE  \A x \in DOMAIN h : insert_into_node(h, m, x, j, w) =
           IF h[x].is_leaf THEN insert_into_leaf(h, m, x, j, w)
           ELSE Unwind(x, find_child_index(h[x], j),
                       insert_into_node(h, m, h[x].children[find_child_index(h[x], j)], j, w))
<1>. DEFINE Down(x)  == h[x].children[find_child_index(h[x], j)]
            Val(f, x) == IF h[x].is_leaf THEN insert_into_leaf(h, m, x, j, w)
                         ELSE Unwind(x, find_child_index(h[x], j), f[Down(x)])
            Rec(f)   == f = [x \in DOMAIN h |-> Val(f, x)]
            U == {n \in Nat : \E f : \A x \in DOMAIN h : ht[x] < n => f[x] = Val(f, x)}
<1>1. ASSUME NEW x \in DOMAIN h, ~h[x].is_leaf
      PROVE  Down(x) \in DOMAIN h /\ ht[Down(x)] + 1 = ht[x]
  <2>1. h[x] \in Nodes
    BY DEF Tree, IsHeap
  <2>2. Down(x) \in ToSet(h[x].children)
    BY <1>1, <2>1, ChildChosen, ChosenKid
  <2>. HIDE DEF Down
  <2>. QED
    BY <2>2, Kid
<1>2. \A x \in DOMAIN h : ht[x] \in Nat
  BY DEF Tree, Homes
<1>3. 0 \in U
  BY <1>2
<1>4. ASSUME NEW n \in U PROVE n + 1 \in U
  <2>1. n \in Nat
    OBVIOUS
  <2>2. PICK f : \A x \in DOMAIN h : ht[x] < n => f[x] = Val(f, x)
    OBVIOUS
  <2>. HIDE DEF Val, U, Down
  <2>. DEFINE g == [x \in DOMAIN h |-> Val(f, x)]
  <2>3. ASSUME NEW x \in DOMAIN h, ht[x] < n + 1 PROVE g[x] = Val(g, x)
    <3>1. CASE h[x].is_leaf
      BY <3>1 DEF Val
    <3>2. CASE ~h[x].is_leaf
      <4>1. Down(x) \in DOMAIN h /\ ht[Down(x)] < n
        BY <1>1, <1>2, <2>1, <2>3, <3>2
      <4>2. g[Down(x)] = f[Down(x)]
        BY <2>2, <4>1
      <4>. HIDE DEF g
      <4>3. Val(g, x) = Val(f, x)
        BY <4>2 DEF Val
      <4>. QED
        BY <4>3 DEF g
    <3>. QED
      BY <3>1, <3>2
  <2>4. \A x \in DOMAIN h : ht[x] < n + 1 => g[x] = Val(g, x)
    BY <2>3
  <2>. HIDE DEF g
  <2>5. \E e : \A x \in DOMAIN h : ht[x] < n + 1 => e[x] = Val(e, x)
    BY <2>4
  <2>. QED
    BY <2>1, <2>5 DEF U
<1>5. U = Nat
  <2>. HIDE DEF U
  <2>1. U \in SUBSET Nat
    BY DEF U
  <2>. QED
    BY <1>3, <1>4, <2>1, SetInduction
<1>6. \E f : Rec(f)
  <2>1. PICK t \in Nat : \A x \in DOMAIN h : ht[x] < t
    BY HeightBound
  <2>2. PICK f : \A x \in DOMAIN h : ht[x] < t => f[x] = Val(f, x)
    <3>1. t \in U
      BY <1>5
    <3>. QED
      BY <3>1
  <2>. HIDE DEF Val, Down
  <2>. DEFINE g == [x \in DOMAIN h |-> Val(f, x)]
  <2>3. ASSUME NEW x \in DOMAIN h PROVE Val(f, x) = Val(g, x)
    <3>1. CASE h[x].is_leaf
      BY <3>1 DEF Val
    <3>2. CASE ~h[x].is_leaf
      <4>1. Down(x) \in DOMAIN h
        BY <1>1, <3>2
      <4>2. g[Down(x)] = f[Down(x)]
        BY <2>1, <2>2, <4>1
      <4>. HIDE DEF g
      <4>. QED
        BY <4>2 DEF Val
    <3>. QED
      BY <3>1, <3>2
  <2>4. g = [x \in DOMAIN h |-> Val(g, x)]
    BY <2>3
  <2>. QED
    BY <2>4
<1>. DEFINE into == CHOOSE f : Rec(f)
<1>7. Rec(into)
  <2>. HIDE DEF Rec
  <2>. QED
    BY <1>6
<1>8. \A x \in DOMAIN h : insert_into_node(h, m, x, j, w) = into[x]
  BY DEF insert_into_node, Unwind
<1>9. \A x \in DOMAIN h : into[x] = Val(into, x)
  <2>. HIDE DEF Val, into
  <2>. QED
    BY <1>7
<1>. HIDE DEF into
<1>. QED
  BY <1>1, <1>8, <1>9

\* An insert does to the subtree what it may do, at every depth.
LEMMA InsertNode ==
  ASSUME NEW h, NEW ht, NEW lo, NEW hi, Tree(h, ht, lo, hi, MaxKeys),
         NEW m, Room(h, m), NEW j \in Keys, NEW w \in Vals,
         NEW x \in DOMAIN h, lo[x] <= j, j < hi[x]
  PROVE  InsertOK(h, ht, lo, hi, x, j, w, insert_into_node(h, m, x, j, w))
<1>. DEFINE T == {y \in DOMAIN h : lo[y] <= j /\ j < hi[y] =>
                   InsertOK(h, ht, lo, hi, y, j, w, insert_into_node(h, m, y, j, w))}
<1>1. ASSUME NEW y \in DOMAIN h, \A c \in ToSet(h[y].children) : c \in T PROVE y \in T
  <2>. SUFFICES ASSUME lo[y] <= j, j < hi[y]
                PROVE  InsertOK(h, ht, lo, hi, y, j, w, insert_into_node(h, m, y, j, w))
    OBVIOUS
  <2>1. CASE h[y].is_leaf
    <3>1. insert_into_node(h, m, y, j, w) = insert_into_leaf(h, m, y, j, w)
      BY <2>1, InsertRec
    <3>2. InsertOK(h, ht, lo, hi, y, j, w, insert_into_leaf(h, m, y, j, w))
      BY <2>1, LeafInsert
    <3>. QED
      BY <3>1, <3>2
  <2>2. CASE ~h[y].is_leaf
    <3>. DEFINE at == find_child_index(h[y], j)
                c  == h[y].children[at]
                sub == insert_into_node(h, m, c, j, w)
    <3>1. insert_into_node(h, m, y, j, w) = Unwind(y, at, sub)
      BY <2>2, InsertRec
    <3>2. /\ h[y] \in Nodes /\ lo[y] \in Nat /\ hi[y] \in Nat /\ Homes(h, ht, lo, hi) /\ IsHeap(h)
          /\ NodeOK(h, ht, lo, hi, MaxKeys, y)
      BY DEF Tree, IsHeap, Homes
    <3>3. EdgesAscend(h[y], lo[y], hi[y]) /\ Len(h[y].keys) >= 1
      <4>1. InnerOK(h[y], ht[y], lo[y], hi[y], MaxKeys, ht, lo, hi, DOMAIN h)
        BY <2>2, <3>2 DEF NodeOK
      <4>2. MaxKeys \in Nat
        BY BPTreeAssumption
      <4>3. EdgesAscend(h[y], lo[y], hi[y]) /\ Len(h[y].keys) \in 1 .. MaxKeys
        BY <4>1 DEF InnerOK
      <4>. QED
        BY <4>2, <4>3
    <3>4. /\ at \in 1 .. Len(h[y].keys) + 1
          /\ Edge(h[y], lo[y], hi[y], at - 1) <= j /\ j < Edge(h[y], lo[y], hi[y], at)
      BY <3>2, <3>3, ChildPlace
    <3>. HIDE DEF at
    <3>5. Within(h, ht, lo, hi, y, at, c)
      BY <2>2, <3>2, <3>4, ChildHome
    <3>6. c \in ToSet(h[y].children)
      BY <2>2, <3>4, ChosenKid
    <3>7. lo[c] <= j /\ j < hi[c]
      BY <3>4, <3>5 DEF Within
    <3>8. InsertOK(h, ht, lo, hi, c, j, w, sub)
      BY <1>1, <3>6, <3>7
    <3>. HIDE DEF sub
    <3>9. InsertOK(h, ht, lo, hi, y, j, w, Unwind(y, at, sub))
      BY <2>2, <3>4, <3>8, InnerInsert
    <3>. QED
      BY <3>1, <3>9
  <2>. QED
    BY <2>1, <2>2
<1>2. DOMAIN h \subseteq T
  <2>. HIDE DEF T
  <2>. QED
    BY <1>1, TreeInduction
<1>. QED
  BY <1>2

-----------------------------------------------------------------------------
(***************************************************************************)
(* The inductive invariant.  Unless there is none, every allocated node    *)
(* has a height and a home; the root is the highest.  A good tree is       *)
(* within MaxKeys and its root is home to every key.  A broken one may     *)
(* have a node with one key too many, and a right half that no node has    *)
(* as a child.                                                             *)
(***************************************************************************)
Grown(r, h, good, ht, lo, hi) ==
  /\ Tree(h, ht, lo, hi, IF good THEN MaxKeys ELSE MaxKeys + 1)
  /\ r \in DOMAIN h /\ \A b \in DOMAIN h : ht[b] <= ht[r]
  /\ good => lo[r] = 0 /\ hi[r] = Top

Rooted(r, h, good) == \E ht, lo, hi : Grown(r, h, good, ht, lo, hi)

Inv ==
  /\ state \in {"good", "broken"}
  /\ answer.status \in {"none", "ok", "duplicate", "memory"}
  /\ IF root = Null THEN DOMAIN heap = {} ELSE Rooted(root, heap, state = "good")

\* The heap g holds what h holds and, newly, j with w.
Added(h, g, j, w) ==
  /\ \A i, y : Has(g, i, y) <=> Has(h, i, y) \/ (i = j /\ y = w)
  /\ \A y : ~Has(h, j, y)

OneKey(j, w)     == Leaf(<<j>>, <<w>>, Null)
OneEdge(p, x, y) == Internal(<<p>>, <<x, y>>)

\* The first node of a tree, and what it holds.
LEMMA FirstLeaf ==
  ASSUME NEW h, DOMAIN h = {}, NEW a \in Addrs, NEW j \in Keys, NEW w \in Vals
  PROVE  Rooted(a, Put(h, a, OneKey(j, w)), TRUE) /\ Added(h, Put(h, a, OneKey(j, w)), j, w)
<1>. DEFINE n == OneKey(j, w)
            g == Put(h, a, n)
            z == [b \in {a} |-> 0]
            t == [b \in {a} |-> Top]
<1>1. g = [b \in {a} |-> n]
  BY DEF Put
<1>2. DOMAIN g = {a} /\ g[a] = n
  BY <1>1
<1>3. n = [is_leaf |-> TRUE, keys |-> <<j>>, values |-> <<w>>, children |-> <<>>, next |-> Null]
  BY DEF Leaf, OneKey
<1>4. <<j>> \in Seq(Keys) /\ <<w>> \in Seq(Vals) /\ <<>> \in Seq(Addrs)
  OBVIOUS
<1>. DEFINE ks == <<j>>
            vs == <<w>>
            no == <<>>
<1>. HIDE DEF n
<1>5. n \in Nodes
  <2>1. n = [is_leaf |-> TRUE, keys |-> ks, values |-> vs, children |-> no, next |-> Null]
    BY <1>3
  <2>2. ks \in Seq(Keys) /\ vs \in Seq(Vals) /\ no \in Seq(Addrs)
    BY <1>4
  <2>. HIDE DEF ks, vs, no
  <2>. QED
    BY <2>1, <2>2 DEF Nodes
<1>6. n.is_leaf = TRUE /\ n.keys = ks /\ n.values = vs /\ n.children = no /\ n.next = Null
  <2>1. n = [is_leaf |-> TRUE, keys |-> ks, values |-> vs, children |-> no, next |-> Null]
    BY <1>3
  <2>. HIDE DEF ks, vs, no
  <2>. QED
    BY <2>1
<1>. HIDE DEF n
<1>7. IsHeap(g)
  BY <1>1, <1>2, <1>5 DEF IsHeap
<1>. HIDE DEF g
<1>8. Top \in Nat /\ j < Top /\ 0 <= j /\ j \in Nat
  BY TopFact, BPTreeAssumption
<1>9. Homes(g, z, z, t)
  BY <1>2, <1>8 DEF Homes
<1>10. Disjoint(g, z, z, t) /\ Linked(g, z, t)
  BY <1>2, <1>6 DEF Disjoint, Linked
<1>11. LeafOK(n, 0, Top, MaxKeys)
  <2>1. Len(<<j>>) = 1 /\ Len(<<w>>) = 1 /\ DOMAIN <<j>> = {1} /\ <<j>>[1] = j
    OBVIOUS
  <2>2. 1 \in 1 .. MaxKeys
    BY BPTreeAssumption
  <2>3. Ascending(n.keys)
    BY <1>6, <2>1 DEF Ascending
  <2>. QED
    BY <1>6, <1>8, <2>1, <2>2, <2>3 DEF LeafOK, Keyed
<1>12. NodeOK(g, z, z, t, MaxKeys, a)
  BY <1>2, <1>6, <1>11 DEF NodeOK
<1>13. Tree(g, z, z, t, MaxKeys)
  BY <1>2, <1>7, <1>9, <1>10, <1>12 DEF Tree
<1>14. ASSUME NEW i, NEW y PROVE Has(g, i, y) <=> i = j /\ y = w
  <2>1. Has(g, i, y) <=> NodeHas(n, i, y)
    BY <1>2 DEF Has
  <2>2. Len(<<j>>) = 1 /\ 1 .. 1 = {1} /\ <<j>>[1] = j /\ <<w>>[1] = w
    OBVIOUS
  <2>. QED
    BY <1>6, <2>1, <2>2 DEF NodeHas
<1>15. Added(h, g, j, w)
  BY <1>14 DEF Added, Has
<1>16. Grown(a, g, TRUE, z, z, t)
  BY <1>2, <1>13 DEF Grown
<1>17. Rooted(a, g, TRUE)
  <2>. HIDE DEF z, t
  <2>. QED
    BY <1>16 DEF Rooted
<1>. QED
  BY <1>15, <1>17 DEF g, n

\* The highest nodes are two, and between them home to every key.
TwoTops(h, ht, lo, hi, x, y, p) ==
  /\ x \in DOMAIN h /\ y \in DOMAIN h /\ p \in Keys
  /\ ht[y] = ht[x] /\ \A b \in DOMAIN h : ht[b] <= ht[x]
  /\ lo[x] = 0 /\ hi[x] = p /\ lo[y] = p /\ hi[y] = Top /\ 0 < p

\* A new root above the two halves of the old one.
LEMMA GrowRoot ==
  ASSUME NEW h, NEW ht, NEW lo, NEW hi, Tree(h, ht, lo, hi, MaxKeys),
         NEW x, NEW y, NEW p, TwoTops(h, ht, lo, hi, x, y, p),
         NEW a \in Addrs, a \notin DOMAIN h
  PROVE  /\ Rooted(a, Put(h, a, OneEdge(p, x, y)), TRUE)
         /\ \A i, v : Has(Put(h, a, OneEdge(p, x, y)), i, v) <=> Has(h, i, v)
<1>. DEFINE n   == OneEdge(p, x, y)
            g   == Put(h, a, n)
            ht2 == Put(ht, a, ht[x] + 1)
            lo2 == Put(lo, a, 0)
            hi2 == Put(hi, a, Top)
<1>0. /\ x \in DOMAIN h /\ y \in DOMAIN h /\ p \in Keys
      /\ ht[y] = ht[x] /\ \A b \in DOMAIN h : ht[b] <= ht[x]
      /\ lo[x] = 0 /\ hi[x] = p /\ lo[y] = p /\ hi[y] = Top /\ 0 < p
  BY DEF TwoTops
<1>. USE <1>0
<1>1. IsHeap(h) /\ Homes(h, ht, lo, hi) /\ Disjoint(h, ht, lo, hi) /\ Linked(h, lo, hi)
  BY DEF Tree
<1>2. /\ ht \in [DOMAIN h -> Nat] /\ lo \in [DOMAIN h -> Nat] /\ hi \in [DOMAIN h -> Nat]
      /\ h \in [DOMAIN h -> Nodes] /\ DOMAIN h \subseteq Addrs
  BY <1>1 DEF Homes, IsHeap
<1>3. n = [is_leaf |-> FALSE, keys |-> <<p>>, values |-> <<>>, children |-> <<x, y>>, next |-> Null]
  BY DEF Internal, OneEdge
<1>4. <<p>> \in Seq(Keys) /\ <<>> \in Seq(Vals) /\ <<x, y>> \in Seq(Addrs)
  BY <1>2
<1>. DEFINE ks == <<p>>
            no == <<>>
            cs == <<x, y>>
<1>. HIDE DEF n
<1>5. n \in Nodes
  <2>1. n = [is_leaf |-> FALSE, keys |-> ks, values |-> no, children |-> cs, next |-> Null]
    BY <1>3
  <2>2. ks \in Seq(Keys) /\ no \in Seq(Vals) /\ cs \in Seq(Addrs)
    BY <1>4
  <2>. HIDE DEF ks, cs, no
  <2>. QED
    BY <2>1, <2>2 DEF Nodes
<1>6. n.is_leaf = FALSE /\ n.keys = <<p>> /\ n.children = <<x, y>>
  BY <1>3
<1>. HIDE DEF n
<1>7. Top \in Nat /\ p < Top /\ p \in Nat
  BY TopFact, BPTreeAssumption
<1>8. /\ DOMAIN g = DOMAIN h \cup {a} /\ g[a] = n /\ \A b \in DOMAIN h : g[b] = h[b]
      /\ g \in [DOMAIN h \cup {a} -> Nodes]
  BY <1>2, <1>5 DEF Put
<1>9. /\ ht2 \in [DOMAIN h \cup {a} -> Nat] /\ ht2[a] = ht[x] + 1
      /\ \A b \in DOMAIN h : ht2[b] = ht[b]
  BY <1>2 DEF Put
<1>10. /\ lo2 \in [DOMAIN h \cup {a} -> Nat] /\ lo2[a] = 0 /\ \A b \in DOMAIN h : lo2[b] = lo[b]
  BY <1>2 DEF Put
<1>11. /\ hi2 \in [DOMAIN h \cup {a} -> Nat] /\ hi2[a] = Top /\ \A b \in DOMAIN h : hi2[b] = hi[b]
  BY <1>2, <1>7 DEF Put
<1>. HIDE DEF g, ht2, lo2, hi2
<1>12. IsHeap(g)
  BY <1>2, <1>8 DEF IsHeap
<1>13. Homes(g, ht2, lo2, hi2)
  <2>1. \A b \in DOMAIN g : hi2[b] <= Top
    BY <1>1, <1>7, <1>8, <1>11 DEF Homes
  <2>. QED
    BY <1>8, <1>9, <1>10, <1>11, <2>1 DEF Homes
<1>14. \A b \in DOMAIN h : ht2[b] < ht2[a] /\ ht2[b] \in Nat
  BY <1>2, <1>9
<1>15. Disjoint(g, ht2, lo2, hi2)
  <2>. SUFFICES ASSUME NEW b \in DOMAIN g, NEW c \in DOMAIN g, b # c, ht2[b] = ht2[c]
                PROVE  hi2[b] <= lo2[c] \/ hi2[c] <= lo2[b]
    BY DEF Disjoint
  <2>1. b \in DOMAIN h /\ c \in DOMAIN h
    BY <1>8, <1>9, <1>14
  <2>2. ht[b] = ht[c]
    BY <1>9, <2>1
  <2>3. hi[b] <= lo[c] \/ hi[c] <= lo[b]
    BY <1>1, <2>1, <2>2 DEF Disjoint
  <2>. QED
    BY <1>10, <1>11, <2>1, <2>3
<1>16. Linked(g, lo2, hi2)
  <2>. SUFFICES ASSUME NEW b \in DOMAIN g, g[b].is_leaf
                PROVE  IF hi2[b] = Top THEN g[b].next = Null
                       ELSE g[b].next \in DOMAIN g /\ g[g[b].next].is_leaf /\ lo2[g[b].next] = hi2[b]
    BY DEF Linked
  <2>1. b \in DOMAIN h /\ g[b] = h[b] /\ hi2[b] = hi[b]
    BY <1>6, <1>8, <1>11
  <2>2. IF hi[b] = Top THEN h[b].next = Null
        ELSE h[b].next \in DOMAIN h /\ h[h[b].next].is_leaf /\ lo[h[b].next] = hi[b]
    BY <1>1, <2>1 DEF Linked
  <2>. QED
    BY <1>8, <1>10, <2>1, <2>2
<1>17. InnerOK(n, ht2[a], lo2[a], hi2[a], MaxKeys, ht2, lo2, hi2, DOMAIN g)
  <2>1. Len(<<p>>) = 1 /\ Len(<<x, y>>) = 2 /\ <<p>>[1] = p /\ <<x, y>>[1] = x /\ <<x, y>>[2] = y
    OBVIOUS
  <2>2. 1 \in 1 .. MaxKeys
    BY BPTreeAssumption
  <2>3. Len(n.keys) = 1 /\ n.keys[1] = p
    BY <1>6, <2>1
  <2>4. Edge(n, 0, Top, 0) = 0 /\ Edge(n, 0, Top, 1) = p /\ Edge(n, 0, Top, 2) = Top
    BY <2>3 DEF Edge
  <2>5. \A i : i \in 0 .. 2 <=> i = 0 \/ i = 1 \/ i = 2
    OBVIOUS
  <2>6. EdgesAscend(n, 0, Top)
    BY <1>7, <2>3, <2>4, <2>5 DEF EdgesAscend
  <2>7. \A i : i \in 1 .. 2 <=> i = 1 \/ i = 2
    OBVIOUS
  <2>8. ChildOK(n, ht2[a], 0, Top, 1, ht2, lo2, hi2, x)
    BY <1>9, <1>10, <1>11, <2>4 DEF ChildOK
  <2>9. ChildOK(n, ht2[a], 0, Top, 2, ht2, lo2, hi2, y)
    BY <1>9, <1>10, <1>11, <2>4 DEF ChildOK
  <2>10. n.children[1] = x /\ n.children[2] = y /\ Len(n.children) = 2
    BY <1>6, <2>1
  <2>11. x \in DOMAIN g /\ y \in DOMAIN g
    BY <1>8
  <2>12. \A i \in 1 .. 2 : n.children[i] \in DOMAIN g
                           /\ ChildOK(n, ht2[a], 0, Top, i, ht2, lo2, hi2, n.children[i])
    BY <2>7, <2>8, <2>9, <2>10, <2>11
  <2>13. Len(n.keys) + 1 = 2
    BY <2>3
  <2>. QED
    BY <1>6, <1>10, <1>11, <2>2, <2>3, <2>6, <2>10, <2>12, <2>13 DEF InnerOK
<1>18. ASSUME NEW b \in DOMAIN g PROVE NodeOK(g, ht2, lo2, hi2, MaxKeys, b)
  <2>1. CASE b = a
    BY <1>6, <1>8, <1>17, <2>1 DEF NodeOK
  <2>2. CASE b # a
    <3>1. b \in DOMAIN h
      BY <1>8, <2>2
    <3>2. NodeOK(h, ht, lo, hi, MaxKeys, b)
      BY <3>1 DEF Tree
    <3>3. DOMAIN h \subseteq DOMAIN g /\ g[b] = h[b] /\ ht2[b] = ht[b] /\ lo2[b] = lo[b] /\ hi2[b] = hi[b]
      BY <1>8, <1>9, <1>10, <1>11, <3>1
    <3>4. ~h[b].is_leaf => \A i \in 1 .. Len(h[b].keys) + 1 :
           LET c == h[b].children[i]
           IN  c \in DOMAIN h => ht2[c] = ht[c] /\ lo2[c] = lo[c] /\ hi2[c] = hi[c]
      BY <1>9, <1>10, <1>11
    <3>. QED
      BY <3>2, <3>3, <3>4, NodeStays
  <2>. QED
    BY <2>1, <2>2
<1>19. Tree(g, ht2, lo2, hi2, MaxKeys)
  BY <1>12, <1>13, <1>15, <1>16, <1>18 DEF Tree
<1>20. ASSUME NEW i, NEW v PROVE Has(g, i, v) <=> Has(h, i, v)
  <2>1. ~NodeHas(n, i, v)
    BY <1>6 DEF NodeHas
  <2>. QED
    BY <1>8, <2>1 DEF Has
<1>21. \A b \in DOMAIN g : ht2[b] <= ht2[a]
  BY <1>2, <1>8, <1>9, <1>14
<1>22. Grown(a, g, TRUE, ht2, lo2, hi2)
  BY <1>8, <1>10, <1>11, <1>19, <1>21 DEF Grown
<1>23. Rooted(a, g, TRUE)
  BY <1>22 DEF Rooted
<1>. QED
  BY <1>20, <1>23 DEF g, n
\* An insert at the root, up to the growth of a new one.
LEMMA RootInsert ==
  ASSUME NEW h, NEW r, Rooted(r, h, TRUE), NEW m, Room(h, m), NEW j \in Keys, NEW w \in Vals,
         NEW s, s = insert_into_node(h, m, r, j, w)
  PROVE  \/ s.status = "duplicate" /\ s.heap = h /\ \E y : Has(h, j, y)
         \/ s.status = "ok" /\ Rooted(r, s.heap, TRUE) /\ Added(h, s.heap, j, w)
         \/ s.status = "memory" /\ Rooted(r, s.heap, FALSE) /\ Added(h, s.heap, j, w)
         \/ /\ s.status = "split" /\ Rooted(r, s.heap, FALSE) /\ Added(h, s.heap, j, w)
            /\ s.mem # 0 =>
                 LET a == create_node(s.heap)
                     g == Put(s.heap, a, NewRoot(r, s))
                 IN  Rooted(a, g, TRUE) /\ Added(h, g, j, w) /\ a # Null
<1>1. PICK ht, lo, hi : Grown(r, h, TRUE, ht, lo, hi)
  BY DEF Rooted
<1>2. /\ Tree(h, ht, lo, hi, MaxKeys) /\ r \in DOMAIN h /\ \A b \in DOMAIN h : ht[b] <= ht[r]
      /\ lo[r] = 0 /\ hi[r] = Top
  BY <1>1 DEF Grown
<1>3. Homes(h, ht, lo, hi) /\ \A b \in DOMAIN h : ht[b] \in Nat
  BY <1>2 DEF Tree, Homes
<1>4. Top \in Nat /\ j < Top /\ j \in Nat
  BY TopFact, BPTreeAssumption
<1>5. InsertOK(h, ht, lo, hi, r, j, w, s)
  <2>1. lo[r] <= j /\ j < hi[r]
    BY <1>2, <1>4
  <2>. QED
    BY <1>2, <2>1, InsertNode
<1>6. CASE Refused(h, s, j)
  BY <1>6 DEF Refused
<1>7. CASE ~Refused(h, s, j)
  <2>1. Added(h, s.heap, j, w)
    BY <1>5, <1>7 DEF InsertOK, Gains, Added
  <2>2. PICK ht2, lo2, hi2 :
          /\ Frame(h, ht, lo, hi, r, s, ht2, lo2, hi2)
          /\ \/ Whole(h, hi, r, s, ht2, lo2, hi2)
             \/ Halved(h, ht, lo, hi, r, s, ht2, lo2, hi2)
    BY <1>5, <1>7 DEF InsertOK
  <2>3. /\ DOMAIN h \subseteq DOMAIN s.heap
        /\ IsHeap(s.heap) /\ Homes(s.heap, ht2, lo2, hi2)
        /\ Disjoint(s.heap, ht2, lo2, hi2) /\ Linked(s.heap, lo2, hi2)
        /\ \A b \in DOMAIN h : ht2[b] = ht[b] /\ lo2[b] = lo[b]
        /\ \A b \in DOMAIN s.heap : b \notin DOMAIN h => ht2[b] <= ht[r]
        /\ Room(s.heap, s.mem)
    BY <2>2 DEF Frame
  <2>4. r \in DOMAIN s.heap /\ ht2[r] = ht[r] /\ lo2[r] = 0
        /\ \A b \in DOMAIN s.heap : ht2[b] <= ht2[r]
    BY <1>2, <2>3
  <2>5. CASE Whole(h, hi, r, s, ht2, lo2, hi2)
    <3>1. hi2[r] = Top
      BY <1>2, <2>5 DEF Whole
    <3>2. CASE s.status = "ok" /\ \A b \in DOMAIN s.heap : NodeOK(s.heap, ht2, lo2, hi2, MaxKeys, b)
      <4>1. Tree(s.heap, ht2, lo2, hi2, MaxKeys)
        BY <2>3, <3>2 DEF Tree
      <4>2. Grown(r, s.heap, TRUE, ht2, lo2, hi2)
        BY <2>4, <3>1, <4>1 DEF Grown
      <4>. QED
        BY <2>1, <3>2, <4>2 DEF Rooted
    <3>3. CASE s.status = "memory" /\ \A b \in DOMAIN s.heap : NodeOK(s.heap, ht2, lo2, hi2, MaxKeys + 1, b)
      <4>1. Tree(s.heap, ht2, lo2, hi2, MaxKeys + 1)
        BY <2>3, <3>3 DEF Tree
      <4>2. Grown(r, s.heap, FALSE, ht2, lo2, hi2)
        BY <2>4, <4>1 DEF Grown
      <4>. QED
        BY <2>1, <3>3, <4>2 DEF Rooted
    <3>. QED
      BY <2>5, <3>2, <3>3 DEF Whole
  <2>6. CASE Halved(h, ht, lo, hi, r, s, ht2, lo2, hi2)
    <3>1. /\ s.status = "split" /\ s.right \in DOMAIN s.heap /\ s.promoted \in Keys
          /\ 0 < s.promoted /\ ht2[s.right] = ht[r] /\ lo2[s.right] = s.promoted
          /\ hi2[s.right] = Top /\ hi2[r] = s.promoted
          /\ \A b \in DOMAIN s.heap : (b \notin DOMAIN h \/ r \notin ToSet(h[b].children)) =>
                                        NodeOK(s.heap, ht2, lo2, hi2, MaxKeys, b)
      BY <1>2, <2>6 DEF Halved
    <3>2. ASSUME NEW b \in DOMAIN h PROVE r \notin ToSet(h[b].children)
      <4>. SUFFICES ASSUME r \in ToSet(h[b].children) PROVE FALSE
        OBVIOUS
      <4>1. ht[r] + 1 = ht[b]
        BY <1>2, Kid
      <4>2. ht[b] <= ht[r] /\ ht[b] \in Nat /\ ht[r] \in Nat
        BY <1>2, <1>3
      <4>. QED
        BY <4>1, <4>2
    <3>3. \A b \in DOMAIN s.heap : NodeOK(s.heap, ht2, lo2, hi2, MaxKeys, b)
      BY <3>1, <3>2
    <3>4. Tree(s.heap, ht2, lo2, hi2, MaxKeys)
      BY <2>3, <3>3 DEF Tree
    <3>5. Rooted(r, s.heap, FALSE)
      <4>1. \A b \in DOMAIN s.heap : NodeOK(s.heap, ht2, lo2, hi2, MaxKeys + 1, b)
        BY <3>3, NodeRoom
      <4>2. Tree(s.heap, ht2, lo2, hi2, MaxKeys + 1)
        BY <2>3, <4>1 DEF Tree
      <4>3. Grown(r, s.heap, FALSE, ht2, lo2, hi2)
        BY <2>4, <4>2 DEF Grown
      <4>. QED
        BY <4>3 DEF Rooted
    <3>6. ASSUME s.mem # 0
          PROVE  LET a == create_node(s.heap)
                     g == Put(s.heap, a, NewRoot(r, s))
                 IN  Rooted(a, g, TRUE) /\ Added(h, g, j, w) /\ a # Null
      <4>. DEFINE a == create_node(s.heap)
                  q == s.right
                  p == s.promoted
                  z == s.heap
                  g == Put(z, a, OneEdge(p, r, q))
      <4>1. a \in Addrs /\ a \notin DOMAIN z /\ a # Null
        BY <2>3, <3>6, Allocate
      <4>2. NewRoot(r, s) = OneEdge(p, r, q)
        BY DEF NewRoot, OneEdge
      <4>3. Tree(z, ht2, lo2, hi2, MaxKeys) /\ TwoTops(z, ht2, lo2, hi2, r, q, p)
        BY <2>4, <3>1, <3>4 DEF TwoTops
      <4>. HIDE DEF a, q, p, z
      <4>4. Rooted(a, g, TRUE) /\ \A i, v : Has(g, i, v) <=> Has(z, i, v)
        BY <4>1, <4>3, GrowRoot
      <4>. HIDE DEF g
      <4>7. Added(h, g, j, w)
        BY <2>1, <4>4 DEF Added, z
      <4>. QED
        BY <4>1, <4>2, <4>4, <4>7 DEF g, a, z, q, p
    <3>. QED
      BY <2>1, <3>1, <3>5, <3>6
  <2>. QED
    BY <2>2, <2>5, <2>6
<1>. QED
  BY <1>6, <1>7

\* What bptree_insert does to the tree and what it says of it.
Outcome(k, v) ==
  /\ answer' = [status |-> answer'.status, key |-> k, value |-> v]
  /\ \/ answer'.status = "duplicate" /\ state' = "good" /\ heap' = heap /\ \E y : Has(heap, k, y)
     \/ answer'.status = "ok" /\ state' = "good" /\ Added(heap, heap', k, v)
     \/ answer'.status = "memory" /\ state' = "broken" /\ \A y : ~Has(heap, k, y)

\* Every case of bptree_insert keeps the invariant and says what it did.
LEMMA InsertStep ==
  ASSUME Inv, NEW k \in Keys, NEW v \in Offsets[k], NEW m \in Memory,
         Cardinality(Addrs \ DOMAIN heap) >= m, bptree_insert(k, v, m)
  PROVE  Inv' /\ Outcome(k, v)
<1>1. state = "good" /\ v \in Vals /\ Room(heap, m)
  BY BPTreeAssumption DEF bptree_insert, Vals, Room
<1>2. ASSUME NEW r, NEW h, NEW status, Leave(r, h, status, k, v)
      PROVE  /\ root' = r /\ heap' = h /\ state' = IF status = "memory" THEN "broken" ELSE "good"
             /\ answer' = [status |-> status, key |-> k, value |-> v]
             /\ answer'.status = status
  BY <1>2 DEF Leave
<1>3. CASE root = Null
  <2>1. DOMAIN heap = {} /\ \A i, y : ~Has(heap, i, y)
    <3>1. DOMAIN heap = {}
      BY <1>3 DEF Inv
    <3>. QED
      BY <3>1 DEF Has
  <2>2. CASE m = 0
    <3>1. Leave(Null, heap, "memory", k, v)
      BY <1>3, <2>2 DEF bptree_insert
    <3>2. root' = Null /\ heap' = heap /\ state' = "broken" /\ answer'.status = "memory"
          /\ answer' = [status |-> "memory", key |-> k, value |-> v]
      BY <1>2, <3>1
    <3>3. Inv'
      BY <2>1, <3>2 DEF Inv
    <3>4. Outcome(k, v)
      BY <2>1, <3>2 DEF Outcome
    <3>. QED
      BY <3>3, <3>4
  <2>3. CASE m # 0
    <3>. DEFINE a == create_node(heap)
                g == Put(heap, a, OneKey(k, v))
    <3>1. Leave(a, g, "ok", k, v)
      BY <1>3, <2>3 DEF bptree_insert, OneKey
    <3>2. a \in Addrs /\ a # Null
      BY <1>1, <2>3, Allocate
    <3>. HIDE DEF a
    <3>0. DOMAIN heap = {}
      BY <2>1
    <3>3. Rooted(a, g, TRUE) /\ Added(heap, g, k, v)
      BY <1>1, <3>0, <3>2, FirstLeaf
    <3>. HIDE DEF g
    <3>6. root' = a /\ heap' = g /\ state' = "good" /\ answer'.status = "ok"
          /\ answer' = [status |-> "ok", key |-> k, value |-> v]
      BY <1>2, <3>1
    <3>7. Inv'
      BY <3>2, <3>3, <3>6 DEF Inv
    <3>9. Outcome(k, v)
      BY <3>3, <3>6 DEF Outcome
    <3>. QED
      BY <3>7, <3>9
  <2>. QED
    BY <2>2, <2>3
<1>4. CASE root # Null
  <2>. DEFINE s == insert_into_node(heap, m, root, k, v)
  <2>1. Rooted(root, heap, TRUE)
    BY <1>1, <1>4 DEF Inv
  <2>2. IF s.status # "split" THEN Leave(root, s.heap, s.status, k, v)
        ELSE IF s.mem = 0 THEN Leave(root, s.heap, "memory", k, v)
        ELSE Leave(create_node(s.heap), Put(s.heap, create_node(s.heap), NewRoot(root, s)), "ok", k, v)
    BY <1>4 DEF bptree_insert
  <2>3. \/ s.status = "duplicate" /\ s.heap = heap /\ \E y : Has(heap, k, y)
        \/ s.status = "ok" /\ Rooted(root, s.heap, TRUE) /\ Added(heap, s.heap, k, v)
        \/ s.status = "memory" /\ Rooted(root, s.heap, FALSE) /\ Added(heap, s.heap, k, v)
        \/ /\ s.status = "split" /\ Rooted(root, s.heap, FALSE) /\ Added(heap, s.heap, k, v)
           /\ s.mem # 0 =>
                LET a == create_node(s.heap)
                    g == Put(s.heap, a, NewRoot(root, s))
                IN  Rooted(a, g, TRUE) /\ Added(heap, g, k, v) /\ a # Null
    BY <1>1, <2>1, RootInsert
  <2>. HIDE DEF s
  <2>4. CASE s.status = "duplicate" /\ s.heap = heap /\ \E y : Has(heap, k, y)
    <3>1. Leave(root, heap, "duplicate", k, v)
      BY <2>2, <2>4
    <3>2. root' = root /\ heap' = heap /\ state' = "good" /\ answer'.status = "duplicate"
          /\ answer' = [status |-> "duplicate", key |-> k, value |-> v]
      BY <1>2, <3>1
    <3>3. Inv'
      BY <1>4, <2>1, <3>2 DEF Inv
    <3>4. Outcome(k, v)
      BY <2>4, <3>2 DEF Outcome
    <3>. QED
      BY <3>3, <3>4
  <2>5. CASE s.status = "ok" /\ Rooted(root, s.heap, TRUE) /\ Added(heap, s.heap, k, v)
    <3>1. Leave(root, s.heap, "ok", k, v)
      BY <2>2, <2>5
    <3>2. root' = root /\ heap' = s.heap /\ state' = "good" /\ answer'.status = "ok"
          /\ answer' = [status |-> "ok", key |-> k, value |-> v]
      BY <1>2, <3>1
    <3>3. Inv'
      BY <1>4, <2>5, <3>2 DEF Inv
    <3>4. Outcome(k, v)
      BY <2>5, <3>2 DEF Outcome
    <3>. QED
      BY <3>3, <3>4
  <2>6. CASE s.status = "memory" /\ Rooted(root, s.heap, FALSE) /\ Added(heap, s.heap, k, v)
    <3>1. Leave(root, s.heap, "memory", k, v)
      BY <2>2, <2>6
    <3>2. root' = root /\ heap' = s.heap /\ state' = "broken" /\ answer'.status = "memory"
          /\ answer' = [status |-> "memory", key |-> k, value |-> v]
      BY <1>2, <3>1
    <3>3. Inv'
      BY <1>4, <2>6, <3>2 DEF Inv
    <3>4. Outcome(k, v)
      BY <2>6, <3>2 DEF Outcome, Added
    <3>. QED
      BY <3>3, <3>4
  <2>7. CASE s.status = "split" /\ s.mem = 0 /\ Rooted(root, s.heap, FALSE) /\ Added(heap, s.heap, k, v)
    <3>1. Leave(root, s.heap, "memory", k, v)
      BY <2>2, <2>7
    <3>2. root' = root /\ heap' = s.heap /\ state' = "broken" /\ answer'.status = "memory"
          /\ answer' = [status |-> "memory", key |-> k, value |-> v]
      BY <1>2, <3>1
    <3>3. Inv'
      BY <1>4, <2>7, <3>2 DEF Inv
    <3>4. Outcome(k, v)
      BY <2>7, <3>2 DEF Outcome, Added
    <3>. QED
      BY <3>3, <3>4
  <2>8. CASE s.status = "split" /\ s.mem # 0
    <3>. DEFINE a == create_node(s.heap)
                g == Put(s.heap, a, NewRoot(root, s))
    <3>1. Leave(a, g, "ok", k, v)
      BY <2>2, <2>8
    <3>2. Rooted(a, g, TRUE) /\ Added(heap, g, k, v) /\ a # Null
      BY <2>3, <2>8
    <3>. HIDE DEF a, g
    <3>3. root' = a /\ heap' = g /\ state' = "good" /\ answer'.status = "ok"
          /\ answer' = [status |-> "ok", key |-> k, value |-> v]
      BY <1>2, <3>1
    <3>4. Inv'
      BY <3>2, <3>3 DEF Inv
    <3>5. Outcome(k, v)
      BY <3>2, <3>3 DEF Outcome
    <3>. QED
      BY <3>4, <3>5
  <2>. QED
    BY <2>3, <2>4, <2>5, <2>6, <2>7, <2>8
<1>. QED
  BY <1>3, <1>4

\* The invariant holds throughout: bptree_insert, also when it runs out of
\* memory in the middle, and bptree_free keep it.
THEOREM InvInvariant == Spec => []Inv
<1>1. Init => Inv
  BY DEF Init, Inv
<1>2. ASSUME Inv, [Next]_treeVars PROVE Inv'
  <2>1. ASSUME NEW k \in Keys, NEW m \in Memory, Cardinality(Addrs \ DOMAIN heap) >= m,
               NEW v \in Offsets[k], bptree_insert(k, v, m)
        PROVE  Inv'
    BY <1>2, <2>1, InsertStep
  <2>2. CASE bptree_free
    BY <2>2 DEF bptree_free, Inv
  <2>3. CASE UNCHANGED treeVars
    BY <1>2, <2>3 DEF treeVars, Inv
  <2>. QED
    BY <1>2, <2>1, <2>2, <2>3 DEF Next
<1>. QED
  BY <1>1, <1>2, PTL DEF Spec

\* The nodes below a node, as free_node visits them.
LEMMA OwnedRec ==
  ASSUME NEW h, NEW ht, NEW lo, NEW hi, NEW cap, Tree(h, ht, lo, hi, cap)
  PROVE  \A x \in DOMAIN h : Owned(h, x) = {x} \cup UNION {Owned(h, c) : c \in ToSet(h[x].children)}
<1>. DEFINE Val(f, x) == {x} \cup UNION {f[c] : c \in ToSet(h[x].children)}
            Rec(f)    == f = [x \in DOMAIN h |-> Val(f, x)]
            U == {n \in Nat : \E f : \A x \in DOMAIN h : ht[x] < n => f[x] = Val(f, x)}
<1>1. ASSUME NEW f, NEW g, NEW x \in DOMAIN h,
             \A c \in ToSet(h[x].children) : f[c] = g[c]
      PROVE  Val(f, x) = Val(g, x)
  BY <1>1
<1>2. \A x \in DOMAIN h : ht[x] \in Nat
  BY DEF Tree, Homes
<1>. HIDE DEF Val
<1>3. 0 \in U
  BY <1>2
<1>4. ASSUME NEW n \in U PROVE n + 1 \in U
  <2>1. n \in Nat
    OBVIOUS
  <2>2. PICK f : \A x \in DOMAIN h : ht[x] < n => f[x] = Val(f, x)
    OBVIOUS
  <2>. HIDE DEF U
  <2>. DEFINE g == [x \in DOMAIN h |-> Val(f, x)]
  <2>3. ASSUME NEW x \in DOMAIN h, ht[x] < n + 1 PROVE g[x] = Val(g, x)
    <3>1. ASSUME NEW c \in ToSet(h[x].children) PROVE f[c] = g[c]
      <4>1. c \in DOMAIN h /\ ht[c] + 1 = ht[x]
        BY Kid
      <4>. QED
        BY <1>2, <2>1, <2>2, <2>3, <4>1
    <3>. HIDE DEF g
    <3>2. Val(f, x) = Val(g, x)
      BY <1>1, <3>1
    <3>. QED
      BY <3>2 DEF g
  <2>4. \A x \in DOMAIN h : ht[x] < n + 1 => g[x] = Val(g, x)
    BY <2>3
  <2>. HIDE DEF g
  <2>5. \E e : \A x \in DOMAIN h : ht[x] < n + 1 => e[x] = Val(e, x)
    BY <2>4
  <2>. QED
    BY <2>1, <2>5 DEF U
<1>5. U = Nat
  <2>. HIDE DEF U
  <2>1. U \in SUBSET Nat
    BY DEF U
  <2>. QED
    BY <1>3, <1>4, <2>1, SetInduction
<1>6. \E f : Rec(f)
  <2>1. PICK t \in Nat : \A x \in DOMAIN h : ht[x] < t
    BY HeightBound
  <2>2. PICK f : \A x \in DOMAIN h : ht[x] < t => f[x] = Val(f, x)
    <3>1. t \in U
      BY <1>5
    <3>. QED
      BY <3>1
  <2>. DEFINE g == [x \in DOMAIN h |-> Val(f, x)]
  <2>3. ASSUME NEW x \in DOMAIN h PROVE Val(f, x) = Val(g, x)
    <3>1. ASSUME NEW c \in ToSet(h[x].children) PROVE f[c] = g[c]
      <4>1. c \in DOMAIN h
        BY Kid
      <4>. QED
        BY <2>1, <2>2, <4>1
    <3>. HIDE DEF g
    <3>. QED
      BY <1>1, <3>1
  <2>4. g = [x \in DOMAIN h |-> Val(g, x)]
    BY <2>3
  <2>. HIDE DEF g
  <2>. QED
    BY <2>4
<1>. DEFINE made == CHOOSE f : Rec(f)
<1>7. Rec(made)
  <2>. HIDE DEF Rec
  <2>. QED
    BY <1>6
<1>8. \A x \in DOMAIN h : Owned(h, x) = made[x]
  BY DEF Owned, Val
<1>9. \A x \in DOMAIN h : made[x] = Val(made, x)
  <2>. HIDE DEF made
  <2>. QED
    BY <1>7
<1>. HIDE DEF made
<1>10. ASSUME NEW x \in DOMAIN h, NEW c \in ToSet(h[x].children) PROVE Owned(h, c) = made[c]
  BY <1>8, Kid
<1>11. ASSUME NEW x \in DOMAIN h
       PROVE  Owned(h, x) = {x} \cup UNION {Owned(h, c) : c \in ToSet(h[x].children)}
  <2>1. Owned(h, x) = {x} \cup UNION {made[c] : c \in ToSet(h[x].children)}
    BY <1>8, <1>9 DEF Val
  <2>. QED
    BY <1>10, <2>1
<1>. QED
  BY <1>11

\* The leaf bptree_search goes down to.
LEMMA LeafForRec ==
  ASSUME NEW k, NEW ht, NEW lo, NEW hi, NEW cap, Tree(heap, ht, lo, hi, cap)
  PROVE  \A x \in DOMAIN heap : LeafFor(x, k) =
           IF heap[x].is_leaf THEN heap[x] ELSE LeafFor(heap[x].children[find_child_index(heap[x], k)], k)
<1>. DEFINE Val(f, x) == IF heap[x].is_leaf THEN heap[x] ELSE f[heap[x].children[find_child_index(heap[x], k)]]
            Rec(f)    == f = [x \in DOMAIN heap |-> Val(f, x)]
            U == {n \in Nat : \E f : \A x \in DOMAIN heap : ht[x] < n => f[x] = Val(f, x)}
<1>0. ASSUME NEW x \in DOMAIN heap, ~heap[x].is_leaf
      PROVE  heap[x].children[find_child_index(heap[x], k)] \in ToSet(heap[x].children)
  <2>1. heap[x] \in Nodes
    BY DEF Tree, IsHeap
  <2>. QED
    BY <1>0, <2>1, ChildChosen, ChosenKid
<1>1. ASSUME NEW f, NEW g, NEW x \in DOMAIN heap,
             \A c \in ToSet(heap[x].children) : f[c] = g[c]
      PROVE  Val(f, x) = Val(g, x)
  BY <1>0, <1>1
<1>2. \A x \in DOMAIN heap : ht[x] \in Nat
  BY DEF Tree, Homes
<1>. HIDE DEF Val
<1>3. 0 \in U
  BY <1>2
<1>4. ASSUME NEW n \in U PROVE n + 1 \in U
  <2>1. n \in Nat
    OBVIOUS
  <2>2. PICK f : \A x \in DOMAIN heap : ht[x] < n => f[x] = Val(f, x)
    OBVIOUS
  <2>. HIDE DEF U
  <2>. DEFINE g == [x \in DOMAIN heap |-> Val(f, x)]
  <2>3. ASSUME NEW x \in DOMAIN heap, ht[x] < n + 1 PROVE g[x] = Val(g, x)
    <3>1. ASSUME NEW c \in ToSet(heap[x].children) PROVE f[c] = g[c]
      <4>1. c \in DOMAIN heap /\ ht[c] + 1 = ht[x]
        BY Kid
      <4>. QED
        BY <1>2, <2>1, <2>2, <2>3, <4>1
    <3>. HIDE DEF g
    <3>2. Val(f, x) = Val(g, x)
      BY <1>1, <3>1
    <3>. QED
      BY <3>2 DEF g
  <2>4. \A x \in DOMAIN heap : ht[x] < n + 1 => g[x] = Val(g, x)
    BY <2>3
  <2>. HIDE DEF g
  <2>5. \E e : \A x \in DOMAIN heap : ht[x] < n + 1 => e[x] = Val(e, x)
    BY <2>4
  <2>. QED
    BY <2>1, <2>5 DEF U
<1>5. U = Nat
  <2>. HIDE DEF U
  <2>1. U \in SUBSET Nat
    BY DEF U
  <2>. QED
    BY <1>3, <1>4, <2>1, SetInduction
<1>6. \E f : Rec(f)
  <2>1. PICK t \in Nat : \A x \in DOMAIN heap : ht[x] < t
    BY HeightBound
  <2>2. PICK f : \A x \in DOMAIN heap : ht[x] < t => f[x] = Val(f, x)
    <3>1. t \in U
      BY <1>5
    <3>. QED
      BY <3>1
  <2>. DEFINE g == [x \in DOMAIN heap |-> Val(f, x)]
  <2>3. ASSUME NEW x \in DOMAIN heap PROVE Val(f, x) = Val(g, x)
    <3>1. ASSUME NEW c \in ToSet(heap[x].children) PROVE f[c] = g[c]
      <4>1. c \in DOMAIN heap
        BY Kid
      <4>. QED
        BY <2>1, <2>2, <4>1
    <3>. HIDE DEF g
    <3>. QED
      BY <1>1, <3>1
  <2>4. g = [x \in DOMAIN heap |-> Val(g, x)]
    BY <2>3
  <2>. HIDE DEF g
  <2>. QED
    BY <2>4
<1>. DEFINE made == CHOOSE f : Rec(f)
<1>7. Rec(made)
  <2>. HIDE DEF Rec
  <2>. QED
    BY <1>6
<1>8. \A x \in DOMAIN heap : LeafFor(x, k) = made[x]
  BY DEF LeafFor, Val
<1>9. \A x \in DOMAIN heap : made[x] = Val(made, x)
  <2>. HIDE DEF made
  <2>. QED
    BY <1>7
<1>. HIDE DEF made
<1>10. ASSUME NEW x \in DOMAIN heap, NEW c \in ToSet(heap[x].children) PROVE LeafFor(c, k) = made[c]
  BY <1>8, Kid
<1>. QED
  BY <1>0, <1>8, <1>9, <1>10 DEF Val

\* The leaves under a node are those under its children.
LEMMA LeavesRec ==
  ASSUME NEW ht, NEW lo, NEW hi, NEW cap, Tree(heap, ht, lo, hi, cap)
  PROVE  \A x \in DOMAIN heap : Leaves(x) =
           IF heap[x].is_leaf THEN <<x>>
           ELSE FlattenSeq([i \in DOMAIN heap[x].children |-> Leaves(heap[x].children[i])])
<1>. DEFINE Val(f, x) == IF heap[x].is_leaf THEN <<x>>
                         ELSE FlattenSeq([i \in DOMAIN heap[x].children |-> f[heap[x].children[i]]])
            Rec(f)    == f = [x \in DOMAIN heap |-> Val(f, x)]
            U == {n \in Nat : \E f : \A x \in DOMAIN heap : ht[x] < n => f[x] = Val(f, x)}
<1>1. ASSUME NEW f, NEW g, NEW x \in DOMAIN heap,
             \A c \in ToSet(heap[x].children) : f[c] = g[c]
      PROVE  Val(f, x) = Val(g, x)
  <2>1. [i \in DOMAIN heap[x].children |-> f[heap[x].children[i]]] =
        [i \in DOMAIN heap[x].children |-> g[heap[x].children[i]]]
    BY <1>1 DEF ToSet
  <2>. QED
    BY <2>1
<1>2. \A x \in DOMAIN heap : ht[x] \in Nat
  BY DEF Tree, Homes
<1>. HIDE DEF Val
<1>3. 0 \in U
  BY <1>2
<1>4. ASSUME NEW n \in U PROVE n + 1 \in U
  <2>1. n \in Nat
    OBVIOUS
  <2>2. PICK f : \A x \in DOMAIN heap : ht[x] < n => f[x] = Val(f, x)
    OBVIOUS
  <2>. HIDE DEF U
  <2>. DEFINE g == [x \in DOMAIN heap |-> Val(f, x)]
  <2>3. ASSUME NEW x \in DOMAIN heap, ht[x] < n + 1 PROVE g[x] = Val(g, x)
    <3>1. ASSUME NEW c \in ToSet(heap[x].children) PROVE f[c] = g[c]
      <4>1. c \in DOMAIN heap /\ ht[c] + 1 = ht[x]
        BY Kid
      <4>. QED
        BY <1>2, <2>1, <2>2, <2>3, <4>1
    <3>. HIDE DEF g
    <3>2. Val(f, x) = Val(g, x)
      BY <1>1, <3>1
    <3>. QED
      BY <3>2 DEF g
  <2>4. \A x \in DOMAIN heap : ht[x] < n + 1 => g[x] = Val(g, x)
    BY <2>3
  <2>. HIDE DEF g
  <2>5. \E e : \A x \in DOMAIN heap : ht[x] < n + 1 => e[x] = Val(e, x)
    BY <2>4
  <2>. QED
    BY <2>1, <2>5 DEF U
<1>5. U = Nat
  <2>. HIDE DEF U
  <2>1. U \in SUBSET Nat
    BY DEF U
  <2>. QED
    BY <1>3, <1>4, <2>1, SetInduction
<1>6. \E f : Rec(f)
  <2>1. PICK t \in Nat : \A x \in DOMAIN heap : ht[x] < t
    BY HeightBound
  <2>2. PICK f : \A x \in DOMAIN heap : ht[x] < t => f[x] = Val(f, x)
    <3>1. t \in U
      BY <1>5
    <3>. QED
      BY <3>1
  <2>. DEFINE g == [x \in DOMAIN heap |-> Val(f, x)]
  <2>3. ASSUME NEW x \in DOMAIN heap PROVE Val(f, x) = Val(g, x)
    <3>1. ASSUME NEW c \in ToSet(heap[x].children) PROVE f[c] = g[c]
      <4>1. c \in DOMAIN heap
        BY Kid
      <4>. QED
        BY <2>1, <2>2, <4>1
    <3>. HIDE DEF g
    <3>. QED
      BY <1>1, <3>1
  <2>4. g = [x \in DOMAIN heap |-> Val(g, x)]
    BY <2>3
  <2>. HIDE DEF g
  <2>. QED
    BY <2>4
<1>. DEFINE made == CHOOSE f : Rec(f)
<1>7. Rec(made)
  <2>. HIDE DEF Rec
  <2>. QED
    BY <1>6
<1>8. \A x \in DOMAIN heap : Leaves(x) = made[x]
  BY DEF Leaves, Val
<1>9. \A x \in DOMAIN heap : made[x] = Val(made, x)
  <2>. HIDE DEF made
  <2>. QED
    BY <1>7
<1>. HIDE DEF made
<1>10. ASSUME NEW x \in DOMAIN heap, NEW c \in ToSet(heap[x].children) PROVE Leaves(c) = made[c]
  BY <1>8, Kid
<1>11. ASSUME NEW x \in DOMAIN heap
       PROVE  [i \in DOMAIN heap[x].children |-> Leaves(heap[x].children[i])] =
              [i \in DOMAIN heap[x].children |-> made[heap[x].children[i]]]
  BY <1>10 DEF ToSet
<1>. QED
  BY <1>8, <1>9, <1>11 DEF Val

\* How deep the leaves are under a node.
LEMMA DepthsRec ==
  ASSUME NEW ht, NEW lo, NEW hi, NEW cap, Tree(heap, ht, lo, hi, cap)
  PROVE  \A x \in DOMAIN heap : Depths(x) =
           IF heap[x].is_leaf THEN {0}
           ELSE {d + 1 : d \in UNION {Depths(c) : c \in ToSet(heap[x].children)}}
<1>. DEFINE Val(f, x) == IF heap[x].is_leaf THEN {0}
                         ELSE {d + 1 : d \in UNION {f[c] : c \in ToSet(heap[x].children)}}
            Rec(f)    == f = [x \in DOMAIN heap |-> Val(f, x)]
            U == {n \in Nat : \E f : \A x \in DOMAIN heap : ht[x] < n => f[x] = Val(f, x)}
<1>1. ASSUME NEW f, NEW g, NEW x \in DOMAIN heap,
             \A c \in ToSet(heap[x].children) : f[c] = g[c]
      PROVE  Val(f, x) = Val(g, x)
  <2>1. UNION {f[c] : c \in ToSet(heap[x].children)} = UNION {g[c] : c \in ToSet(heap[x].children)}
    BY <1>1
  <2>. QED
    BY <2>1
<1>2. \A x \in DOMAIN heap : ht[x] \in Nat
  BY DEF Tree, Homes
<1>. HIDE DEF Val
<1>3. 0 \in U
  BY <1>2
<1>4. ASSUME NEW n \in U PROVE n + 1 \in U
  <2>1. n \in Nat
    OBVIOUS
  <2>2. PICK f : \A x \in DOMAIN heap : ht[x] < n => f[x] = Val(f, x)
    OBVIOUS
  <2>. HIDE DEF U
  <2>. DEFINE g == [x \in DOMAIN heap |-> Val(f, x)]
  <2>3. ASSUME NEW x \in DOMAIN heap, ht[x] < n + 1 PROVE g[x] = Val(g, x)
    <3>1. ASSUME NEW c \in ToSet(heap[x].children) PROVE f[c] = g[c]
      <4>1. c \in DOMAIN heap /\ ht[c] + 1 = ht[x]
        BY Kid
      <4>. QED
        BY <1>2, <2>1, <2>2, <2>3, <4>1
    <3>. HIDE DEF g
    <3>2. Val(f, x) = Val(g, x)
      BY <1>1, <3>1
    <3>. QED
      BY <3>2 DEF g
  <2>4. \A x \in DOMAIN heap : ht[x] < n + 1 => g[x] = Val(g, x)
    BY <2>3
  <2>. HIDE DEF g
  <2>5. \E e : \A x \in DOMAIN heap : ht[x] < n + 1 => e[x] = Val(e, x)
    BY <2>4
  <2>. QED
    BY <2>1, <2>5 DEF U
<1>5. U = Nat
  <2>. HIDE DEF U
  <2>1. U \in SUBSET Nat
    BY DEF U
  <2>. QED
    BY <1>3, <1>4, <2>1, SetInduction
<1>6. \E f : Rec(f)
  <2>1. PICK t \in Nat : \A x \in DOMAIN heap : ht[x] < t
    BY HeightBound
  <2>2. PICK f : \A x \in DOMAIN heap : ht[x] < t => f[x] = Val(f, x)
    <3>1. t \in U
      BY <1>5
    <3>. QED
      BY <3>1
  <2>. DEFINE g == [x \in DOMAIN heap |-> Val(f, x)]
  <2>3. ASSUME NEW x \in DOMAIN heap PROVE Val(f, x) = Val(g, x)
    <3>1. ASSUME NEW c \in ToSet(heap[x].children) PROVE f[c] = g[c]
      <4>1. c \in DOMAIN heap
        BY Kid
      <4>. QED
        BY <2>1, <2>2, <4>1
    <3>. HIDE DEF g
    <3>. QED
      BY <1>1, <3>1
  <2>4. g = [x \in DOMAIN heap |-> Val(g, x)]
    BY <2>3
  <2>. HIDE DEF g
  <2>. QED
    BY <2>4
<1>. DEFINE made == CHOOSE f : Rec(f)
<1>7. Rec(made)
  <2>. HIDE DEF Rec
  <2>. QED
    BY <1>6
<1>8. \A x \in DOMAIN heap : Depths(x) = made[x]
  BY DEF Depths, Val
<1>9. \A x \in DOMAIN heap : made[x] = Val(made, x)
  <2>. HIDE DEF made
  <2>. QED
    BY <1>7
<1>. HIDE DEF made
<1>10. ASSUME NEW x \in DOMAIN heap, NEW c \in ToSet(heap[x].children) PROVE Depths(c) = made[c]
  BY <1>8, Kid
<1>11. ASSUME NEW x \in DOMAIN heap
       PROVE  UNION {Depths(c) : c \in ToSet(heap[x].children)} =
              UNION {made[c] : c \in ToSet(heap[x].children)}
  BY <1>10
<1>. QED
  BY <1>8, <1>9, <1>11 DEF Val

\* FlattenSeq puts one sequence after the other.
LEMMA FlattenRec ==
  ASSUME NEW q, NEW n \in Nat, n = Len(q), n # 0
  PROVE  \E f : /\ FlattenSeq(q) = f[n] /\ f[1] = q[1]
                /\ \A i \in 2 .. n : f[i] = f[i - 1] \o q[i]
<1>. DEFINE Val(f, i) == IF i = 1 THEN q[i] ELSE f[i - 1] \o q[i]
            Rec(f)    == f = [i \in 1 .. n |-> Val(f, i)]
            U == {m \in Nat : \E f : \A i \in 1 .. n : i <= m => f[i] = Val(f, i)}
<1>1. ASSUME NEW f, NEW g, NEW i \in 1 .. n, i = 1 \/ f[i - 1] = g[i - 1]
      PROVE  Val(f, i) = Val(g, i)
  BY <1>1
<1>2. ASSUME NEW f PROVE Val(f, 1) = q[1] /\ \A i \in 2 .. n : Val(f, i) = f[i - 1] \o q[i]
  <2>1. Val(f, 1) = q[1]
    OBVIOUS
  <2>2. ASSUME NEW i \in 2 .. n PROVE Val(f, i) = f[i - 1] \o q[i]
    <3>1. i # 1
      OBVIOUS
    <3>. QED
      BY <3>1
  <2>. QED
    BY <2>1, <2>2
<1>. HIDE DEF Val
<1>3. 0 \in U
  OBVIOUS
<1>4. ASSUME NEW m \in U PROVE m + 1 \in U
  <2>1. m \in Nat
    OBVIOUS
  <2>2. PICK f : \A i \in 1 .. n : i <= m => f[i] = Val(f, i)
    OBVIOUS
  <2>. HIDE DEF U
  <2>. DEFINE g == [i \in 1 .. n |-> Val(f, i)]
  <2>3. ASSUME NEW i \in 1 .. n, i <= m + 1 PROVE g[i] = Val(g, i)
    <3>1. i = 1 \/ f[i - 1] = g[i - 1]
      <4>1. i = 1 \/ (i - 1 \in 1 .. n /\ i - 1 <= m)
        BY <2>1, <2>3
      <4>. QED
        BY <2>2, <4>1
    <3>2. g[i] = Val(f, i)
      OBVIOUS
    <3>. HIDE DEF g
    <3>. QED
      BY <1>1, <3>1, <3>2
  <2>. HIDE DEF g
  <2>4. \E e : \A i \in 1 .. n : i <= m + 1 => e[i] = Val(e, i)
    BY <2>3
  <2>. QED
    BY <2>1, <2>4 DEF U
<1>5. U = Nat
  <2>. HIDE DEF U
  <2>1. U \in SUBSET Nat
    BY DEF U
  <2>. QED
    BY <1>3, <1>4, <2>1, SetInduction
<1>6. \E f : Rec(f)
  <2>1. PICK f : \A i \in 1 .. n : i <= n => f[i] = Val(f, i)
    <3>1. n \in U
      BY <1>5
    <3>. QED
      BY <3>1
  <2>. DEFINE g == [i \in 1 .. n |-> Val(f, i)]
  <2>2. ASSUME NEW i \in 1 .. n PROVE Val(f, i) = Val(g, i)
    <3>1. i = 1 \/ f[i - 1] = g[i - 1]
      <4>1. i = 1 \/ (i - 1 \in 1 .. n /\ i - 1 <= n)
        OBVIOUS
      <4>. QED
        BY <2>1, <4>1
    <3>. HIDE DEF g
    <3>. QED
      BY <1>1, <3>1
  <2>3. g = [i \in 1 .. n |-> Val(g, i)]
    BY <2>2
  <2>. HIDE DEF g
  <2>. QED
    BY <2>3
<1>. DEFINE made == CHOOSE f : Rec(f)
<1>7. Rec(made)
  <2>. HIDE DEF Rec
  <2>. QED
    BY <1>6
<1>8. FlattenSeq(q) = made[n]
  BY DEF FlattenSeq, Val
<1>9. \A i \in 1 .. n : made[i] = Val(made, i)
  <2>. HIDE DEF made
  <2>. QED
    BY <1>7
<1>. HIDE DEF made
<1>10. 1 \in 1 .. n /\ \A i \in 2 .. n : i \in 1 .. n
  OBVIOUS
<1>11. made[1] = q[1] /\ \A i \in 2 .. n : made[i] = made[i - 1] \o q[i]
  BY <1>2, <1>9, <1>10
<1>. QED
  BY <1>8, <1>11

(***************************************************************************)
(* A run of leaves that are home, one after the other, to the keys from    *)
(* low up to high.                                                         *)
(***************************************************************************)
Run(h, lo, hi, s, low, high) ==
  /\ s \in Seq(DOMAIN h) /\ Len(s) >= 1
  /\ \A i \in 1 .. Len(s) : h[s[i]].is_leaf /\ low <= lo[s[i]] /\ hi[s[i]] <= high
  /\ lo[s[1]] = low /\ hi[s[Len(s)]] = high
  /\ \A i \in 1 .. Len(s) - 1 : hi[s[i]] = lo[s[i + 1]]

\* A run and the one that goes on where it ends are one run.
LEMMA RunConcat ==
  ASSUME NEW h, NEW lo \in [DOMAIN h -> Nat], NEW hi \in [DOMAIN h -> Nat],
         NEW s, NEW t, NEW low \in Nat, NEW mid \in Nat, NEW high \in Nat, low <= mid, mid <= high,
         Run(h, lo, hi, s, low, mid), Run(h, lo, hi, t, mid, high)
  PROVE  Run(h, lo, hi, s \o t, low, high)
<1>. DEFINE D == DOMAIN h
            u == s \o t
            m == Len(s)
            n == Len(t)
<1>1. s \in Seq(D) /\ t \in Seq(D)
  BY DEF Run
<1>2. m \in Nat /\ n \in Nat /\ m >= 1 /\ n >= 1
  BY <1>1 DEF Run
<1>3. /\ u \in Seq(D) /\ Len(u) = m + n
      /\ \A i \in 1 .. m + n : u[i] = IF i <= m THEN s[i] ELSE t[i - m]
  BY <1>1
<1>4. /\ \A i \in 1 .. m : h[s[i]].is_leaf /\ low <= lo[s[i]] /\ hi[s[i]] <= mid
      /\ lo[s[1]] = low /\ hi[s[m]] = mid
      /\ \A i \in 1 .. m - 1 : hi[s[i]] = lo[s[i + 1]]
  BY <1>1 DEF Run
<1>5. /\ \A i \in 1 .. n : h[t[i]].is_leaf /\ mid <= lo[t[i]] /\ hi[t[i]] <= high
      /\ lo[t[1]] = mid /\ hi[t[n]] = high
      /\ \A i \in 1 .. n - 1 : hi[t[i]] = lo[t[i + 1]]
  BY <1>1 DEF Run
<1>6. /\ \A i \in 1 .. m : lo[s[i]] \in Nat /\ hi[s[i]] \in Nat
      /\ \A i \in 1 .. n : lo[t[i]] \in Nat /\ hi[t[i]] \in Nat
  <2>1. \A x \in D : lo[x] \in Nat /\ hi[x] \in Nat
    OBVIOUS
  <2>2. \A i \in 1 .. m : s[i] \in D
    BY <1>1
  <2>3. \A i \in 1 .. n : t[i] \in D
    BY <1>1
  <2>. QED
    BY <2>1, <2>2, <2>3
<1>. HIDE DEF u, m, n, D
<1>7. \A i \in 1 .. m + n : h[u[i]].is_leaf /\ low <= lo[u[i]] /\ hi[u[i]] <= high
  <2>. SUFFICES ASSUME NEW i \in 1 .. m + n
                PROVE  h[u[i]].is_leaf /\ low <= lo[u[i]] /\ hi[u[i]] <= high
    OBVIOUS
  <2>1. CASE i <= m
    <3>1. i \in 1 .. m
      BY <1>2, <2>1
    <3>2. u[i] = s[i]
      BY <1>3, <2>1
    <3>. QED
      BY <1>4, <1>6, <3>1, <3>2
  <2>2. CASE i > m
    <3>1. i - m \in 1 .. n /\ ~(i <= m)
      BY <1>2, <2>2
    <3>2. u[i] = t[i - m]
      BY <1>3, <3>1
    <3>. QED
      BY <1>5, <1>6, <3>1, <3>2
  <2>. QED
    BY <1>2, <2>1, <2>2
<1>8. lo[u[1]] = low /\ hi[u[m + n]] = high
  <2>1. u[1] = s[1] /\ u[m + n] = t[n]
    <3>1. 1 \in 1 .. m + n /\ m + n \in 1 .. m + n /\ 1 <= m /\ ~(m + n <= m) /\ (m + n) - m = n
      BY <1>2
    <3>. QED
      BY <1>3, <3>1
  <2>. QED
    BY <1>4, <1>5, <2>1
<1>9. \A i \in 1 .. (m + n) - 1 : hi[u[i]] = lo[u[i + 1]]
  <2>. SUFFICES ASSUME NEW i \in 1 .. (m + n) - 1 PROVE hi[u[i]] = lo[u[i + 1]]
    OBVIOUS
  <2>1. CASE i < m
    <3>1. u[i] = s[i] /\ u[i + 1] = s[i + 1] /\ i \in 1 .. m - 1
      BY <1>2, <1>3, <2>1
    <3>. QED
      BY <1>4, <3>1
  <2>2. CASE i = m
    <3>1. u[i] = s[m] /\ u[i + 1] = t[1]
      BY <1>2, <1>3, <2>2
    <3>. QED
      BY <1>4, <1>5, <3>1
  <2>3. CASE i > m
    <3>1. i \in 1 .. m + n /\ i + 1 \in 1 .. m + n /\ ~(i <= m) /\ ~(i + 1 <= m)
          /\ (i + 1) - m = (i - m) + 1 /\ i - m \in 1 .. n - 1
      BY <1>2, <2>3
    <3>2. u[i] = t[i - m] /\ u[i + 1] = t[(i - m) + 1]
      BY <1>3, <3>1
    <3>. QED
      BY <1>5, <3>1, <3>2
  <2>. QED
    BY <1>2, <2>1, <2>2, <2>3
<1>10. Len(u) >= 1
  BY <1>2, <1>3
<1>11. Run(h, lo, hi, u, low, high)
  BY <1>3, <1>7, <1>8, <1>9, <1>10 DEF Run, D
<1>. QED
  BY <1>11 DEF u

\* The leaves under a node are a run through its home.
LEMMA LeavesRun ==
  ASSUME NEW ht, NEW lo, NEW hi, NEW cap, Tree(heap, ht, lo, hi, cap), NEW x \in DOMAIN heap
  PROVE  Run(heap, lo, hi, Leaves(x), lo[x], hi[x])
<1>. DEFINE T == {y \in DOMAIN heap : Run(heap, lo, hi, Leaves(y), lo[y], hi[y])}
<1>1. IsHeap(heap) /\ Homes(heap, ht, lo, hi)
  BY DEF Tree
<1>2. /\ lo \in [DOMAIN heap -> Nat] /\ hi \in [DOMAIN heap -> Nat]
      /\ \A b \in DOMAIN heap : lo[b] \in Nat /\ hi[b] \in Nat
  BY <1>1 DEF Homes
<1>3. ASSUME NEW y \in DOMAIN heap, \A c \in ToSet(heap[y].children) : c \in T PROVE y \in T
  <2>1. CASE heap[y].is_leaf
    <3>. DEFINE s == <<y>>
    <3>1. Leaves(y) = s
      BY <2>1, LeavesRec
    <3>2. s \in Seq(DOMAIN heap) /\ Len(s) = 1 /\ s[1] = y
      OBVIOUS
    <3>. HIDE DEF s
    <3>3. 1 >= 1 /\ 1 .. 1 = {1} /\ 1 .. 1 - 1 = {}
      OBVIOUS
    <3>4. lo[y] <= lo[y] /\ hi[y] <= hi[y]
      BY <1>2
    <3>5. Run(heap, lo, hi, s, lo[y], hi[y])
      BY <2>1, <3>2, <3>3, <3>4 DEF Run
    <3>. QED
      BY <3>1, <3>5
  <2>2. CASE ~heap[y].is_leaf
    <3>. DEFINE cs == heap[y].children
                n  == Len(heap[y].keys) + 1
                q  == [i \in DOMAIN cs |-> Leaves(cs[i])]
    <3>1. cs \in Seq(Addrs) /\ Len(cs) = n /\ n \in Nat /\ n # 0
      <4>1. heap[y] \in Nodes /\ NodeOK(heap, ht, lo, hi, cap, y)
        BY <1>1 DEF IsHeap, Tree
      <4>2. heap[y].keys \in Seq(Keys) /\ cs \in Seq(Addrs) /\ Len(cs) = n
        BY <2>2, <4>1 DEF Nodes, NodeOK, InnerOK
      <4>3. Len(heap[y].keys) \in Nat
        BY <4>2
      <4>. QED
        BY <4>2, <4>3
    <3>2. DOMAIN cs = 1 .. n
      BY <3>1
    <3>3. Leaves(y) = FlattenSeq(q)
      BY <2>2, LeavesRec
    <3>4. ASSUME NEW i \in 1 .. n
          PROVE  /\ cs[i] \in DOMAIN heap /\ lo[cs[i]] <= hi[cs[i]] /\ lo[y] <= lo[cs[i]]
                 /\ q[i] = Leaves(cs[i])
                 /\ Run(heap, lo, hi, q[i], lo[cs[i]], hi[cs[i]])
      <4>1. cs[i] \in ToSet(cs)
        BY <3>2 DEF ToSet
      <4>2. cs[i] \in DOMAIN heap /\ lo[cs[i]] < hi[cs[i]] /\ lo[y] <= lo[cs[i]]
        BY <4>1, Kid
      <4>3. q[i] = Leaves(cs[i])
        BY <3>2
      <4>. HIDE DEF q, cs
      <4>. QED
        BY <1>2, <1>3, <4>1, <4>2, <4>3 DEF cs
    <3>5. /\ lo[cs[1]] = lo[y] /\ hi[cs[n]] = hi[y]
          /\ \A i \in 1 .. n - 1 : hi[cs[i]] = lo[cs[i + 1]]
      <4>. DEFINE e(l) == Edge(heap[y], lo[y], hi[y], l)
      <4>1. ASSUME NEW i \in 1 .. n PROVE lo[cs[i]] = e(i - 1) /\ hi[cs[i]] = e(i)
        <5>1. NodeOK(heap, ht, lo, hi, cap, y)
          BY DEF Tree
        <5>2. Within(heap, ht, lo, hi, y, i, heap[y].children[i])
          BY <1>1, <2>2, <5>1, ChildHome
        <5>. QED
          BY <5>2 DEF Within
      <4>2. e(0) = lo[y] /\ e(n) = hi[y]
        <5>1. Len(heap[y].keys) \in Nat
          <6>1. heap[y].keys \in Seq(Keys)
            BY <1>1 DEF IsHeap, Nodes
          <6>. QED
            BY <6>1
        <5>2. n # 0 /\ n > Len(heap[y].keys)
          BY <5>1
        <5>. QED
          BY <5>2 DEF Edge
      <4>. HIDE DEF e, cs, n
      <4>3. 1 \in 1 .. n /\ n \in 1 .. n /\ 1 - 1 = 0
        BY <3>1
      <4>4. \A i \in 1 .. n - 1 : i \in 1 .. n /\ i + 1 \in 1 .. n /\ (i + 1) - 1 = i
        BY <3>1
      <4>5. lo[cs[1]] = lo[y] /\ hi[cs[n]] = hi[y]
        BY <4>1, <4>2, <4>3
      <4>6. \A i \in 1 .. n - 1 : hi[cs[i]] = lo[cs[i + 1]]
        BY <4>1, <4>4
      <4>. QED
        BY <4>5, <4>6
    <3>6. Len(q) = n
      BY <3>1, <3>2
    <3>. HIDE DEF q, n, cs
    <3>7. PICK f : /\ FlattenSeq(q) = f[n] /\ f[1] = q[1]
                   /\ \A i \in 2 .. n : f[i] = f[i - 1] \o q[i]
      BY <3>1, <3>6, FlattenRec
    <3>. DEFINE U == {m \in Nat : m \in 1 .. n => Run(heap, lo, hi, f[m], lo[y], hi[cs[m]])}
    <3>8. 0 \in U
      OBVIOUS
    <3>9. ASSUME NEW m \in U PROVE m + 1 \in U
      <4>. SUFFICES ASSUME m + 1 \in 1 .. n PROVE Run(heap, lo, hi, f[m + 1], lo[y], hi[cs[m + 1]])
        OBVIOUS
      <4>1. CASE m = 0
        <5>1. 1 \in 1 .. n /\ m + 1 = 1
          BY <4>1
        <5>. QED
          BY <3>4, <3>5, <3>7, <5>1
      <4>2. CASE m # 0
        <5>1. m \in 1 .. n - 1 /\ m \in 1 .. n /\ m + 1 \in 2 .. n /\ (m + 1) - 1 = m
          BY <3>1, <4>2
        <5>2. f[m + 1] = f[m] \o q[m + 1]
          BY <3>7, <5>1
        <5>3. Run(heap, lo, hi, f[m], lo[y], hi[cs[m]])
          BY <5>1
        <5>. HIDE DEF U
        <5>4. /\ Run(heap, lo, hi, q[m + 1], lo[cs[m + 1]], hi[cs[m + 1]])
              /\ cs[m + 1] \in DOMAIN heap /\ cs[m] \in DOMAIN heap
              /\ lo[cs[m + 1]] <= hi[cs[m + 1]] /\ lo[y] <= lo[cs[m + 1]]
          BY <3>4, <5>1
        <5>5. hi[cs[m]] = lo[cs[m + 1]]
          BY <3>5, <5>1
        <5>6. /\ lo[y] \in Nat /\ hi[cs[m]] \in Nat /\ hi[cs[m + 1]] \in Nat
              /\ lo[y] <= hi[cs[m]] /\ hi[cs[m]] <= hi[cs[m + 1]]
          BY <1>2, <5>4, <5>5
        <5>7. Run(heap, lo, hi, q[m + 1], hi[cs[m]], hi[cs[m + 1]])
          BY <5>4, <5>5
        <5>8. Run(heap, lo, hi, f[m] \o q[m + 1], lo[y], hi[cs[m + 1]])
          BY <1>2, <5>3, <5>6, <5>7, RunConcat
        <5>. QED
          BY <5>2, <5>8
      <4>. QED
        BY <4>1, <4>2
    <3>10. U = Nat
      <4>. HIDE DEF U
      <4>1. U \in SUBSET Nat
        BY DEF U
      <4>. QED
        BY <3>8, <3>9, <4>1, SetInduction
    <3>11. Run(heap, lo, hi, f[n], lo[y], hi[cs[n]])
      <4>1. n \in U /\ n \in 1 .. n
        BY <3>1, <3>10
      <4>. QED
        BY <4>1
    <3>. QED
      BY <3>3, <3>5, <3>7, <3>11
  <2>. QED
    BY <2>1, <2>2
<1>4. DOMAIN heap \subseteq T
  <2>. HIDE DEF T
  <2>. QED
    BY <1>3, TreeInduction
<1>. QED
  BY <1>4

\* All leaves under a node are equally far below it.
LEMMA DepthsOf ==
  ASSUME NEW ht, NEW lo, NEW hi, NEW cap, Tree(heap, ht, lo, hi, cap), NEW x \in DOMAIN heap
  PROVE  Depths(x) = {ht[x]}
<1>. DEFINE T == {y \in DOMAIN heap : Depths(y) = {ht[y]}}
<1>1. IsHeap(heap) /\ Homes(heap, ht, lo, hi) /\ \A b \in DOMAIN heap : ht[b] \in Nat
  BY DEF Tree, Homes
<1>2. ASSUME NEW y \in DOMAIN heap, \A c \in ToSet(heap[y].children) : c \in T PROVE y \in T
  <2>0. NodeOK(heap, ht, lo, hi, cap, y)
    BY DEF Tree
  <2>1. CASE heap[y].is_leaf
    <3>1. Depths(y) = {0}
      BY <2>1, DepthsRec
    <3>2. ht[y] = 0
      BY <2>0, <2>1 DEF NodeOK
    <3>. QED
      BY <3>1, <3>2
  <2>2. CASE ~heap[y].is_leaf
    <3>. DEFINE S == ToSet(heap[y].children)
    <3>1. Depths(y) = {d + 1 : d \in UNION {Depths(c) : c \in S}}
      BY <2>2, DepthsRec
    <3>2. \A c \in S : Depths(c) = {ht[c]} /\ ht[c] + 1 = ht[y] /\ ht[c] \in Nat
      BY <1>2, Kid
    <3>3. S # {}
      <4>1. heap[y].keys \in Seq(Keys)
        BY <1>1 DEF IsHeap, Nodes
      <4>2. 1 \in 1 .. Len(heap[y].keys) + 1
        BY <4>1
      <4>3. heap[y].children[1] \in S
        BY <2>2, <4>2, ChosenKid
      <4>. QED
        BY <4>3
    <3>. HIDE DEF S
    <3>4. ht[y] - 1 \in Nat /\ (ht[y] - 1) + 1 = ht[y]
      BY <1>1, <3>2, <3>3
    <3>5. \A c \in S : ht[c] = ht[y] - 1
      BY <1>1, <3>2
    <3>6. UNION {Depths(c) : c \in S} = {ht[y] - 1}
      BY <3>2, <3>3, <3>5
    <3>7. Depths(y) = {ht[y]}
      BY <3>1, <3>4, <3>6
    <3>. QED
      BY <3>7
  <2>. QED
    BY <2>1, <2>2
<1>3. DOMAIN heap \subseteq T
  <2>. HIDE DEF T
  <2>. QED
    BY <1>2, TreeInduction
<1>. QED
  BY <1>3

\* What free_node visits is allocated.
LEMMA OwnedIn ==
  ASSUME NEW h, NEW ht, NEW lo, NEW hi, NEW cap, Tree(h, ht, lo, hi, cap), NEW x \in DOMAIN h
  PROVE  Owned(h, x) \subseteq DOMAIN h
<1>. DEFINE T == {y \in DOMAIN h : Owned(h, y) \subseteq DOMAIN h}
<1>1. ASSUME NEW y \in DOMAIN h, \A c \in ToSet(h[y].children) : c \in T PROVE y \in T
  <2>1. Owned(h, y) = {y} \cup UNION {Owned(h, c) : c \in ToSet(h[y].children)}
    BY OwnedRec
  <2>. QED
    BY <1>1, <2>1
<1>2. DOMAIN h \subseteq T
  <2>. HIDE DEF T
  <2>. QED
    BY <1>1, TreeInduction
<1>. QED
  BY <1>2

\* The keys in the leaves under a node lie in its home.
LEMMA UnderHome ==
  ASSUME NEW ht, NEW lo, NEW hi, NEW cap, Tree(heap, ht, lo, hi, cap), NEW x \in DOMAIN heap,
         NEW k \in KeysUnder(x)
  PROVE  lo[x] <= k /\ k < hi[x]
<1>. DEFINE s == Leaves(x)
<1>1. Run(heap, lo, hi, s, lo[x], hi[x])
  BY LeavesRun
<1>2. PICK b \in ToSet(s) : k \in ToSet(heap[b].keys)
  BY DEF KeysUnder
<1>. HIDE DEF s
<1>3. /\ s \in Seq(DOMAIN heap)
      /\ \A i \in 1 .. Len(s) : heap[s[i]].is_leaf /\ lo[x] <= lo[s[i]] /\ hi[s[i]] <= hi[x]
  BY <1>1 DEF Run
<1>4. PICK i \in 1 .. Len(s) : b = s[i]
  <2>1. s \in Seq(DOMAIN heap)
    BY <1>3
  <2>2. DOMAIN s = 1 .. Len(s)
    BY <2>1
  <2>. QED
    BY <1>2, <2>2 DEF ToSet
<1>5. b \in DOMAIN heap
  <2>1. s \in Seq(DOMAIN heap)
    BY <1>3
  <2>. QED
    BY <1>4, <2>1
<1>6. heap[b].is_leaf /\ lo[x] <= lo[b] /\ hi[b] <= hi[x]
  BY <1>3, <1>4
<1>7. LeafOK(heap[b], lo[b], hi[b], cap)
  BY <1>5, <1>6 DEF Tree, NodeOK
<1>8. heap[b].keys \in Seq(Keys)
  BY <1>5 DEF Tree, IsHeap, Nodes
<1>9. PICK l \in 1 .. Len(heap[b].keys) : k = heap[b].keys[l]
  <2>1. DOMAIN heap[b].keys = 1 .. Len(heap[b].keys)
    BY <1>8
  <2>. QED
    BY <1>2, <2>1 DEF ToSet
<1>10. lo[b] <= k /\ k < hi[b]
  BY <1>7, <1>9 DEF LeafOK, Keyed
<1>11. lo[b] \in Nat /\ hi[b] \in Nat /\ lo[x] \in Nat /\ hi[x] \in Nat
  BY <1>5 DEF Tree, Homes
<1>12. k \in Nat
  BY <1>8, <1>9, KeySeq
<1>. QED
  BY <1>6, <1>10, <1>11, <1>12

\* A good tree.
LEMMA GoodTree ==
  ASSUME Inv, state = "good", root # Null
  PROVE  \E ht, lo, hi : /\ Tree(heap, ht, lo, hi, MaxKeys) /\ root \in DOMAIN heap
                         /\ lo[root] = 0 /\ hi[root] = Top
<1>1. PICK ht, lo, hi : Grown(root, heap, TRUE, ht, lo, hi)
  BY DEF Inv, Rooted
<1>. QED
  BY <1>1 DEF Grown

\* Any tree.
LEMMA AnyTree ==
  ASSUME Inv, root # Null
  PROVE  \E ht, lo, hi, cap : /\ Tree(heap, ht, lo, hi, cap) /\ cap \in {MaxKeys, MaxKeys + 1}
                              /\ root \in DOMAIN heap /\ \A b \in DOMAIN heap : ht[b] <= ht[root]
<1>1. PICK ht, lo, hi : Grown(root, heap, state = "good", ht, lo, hi)
  BY DEF Inv, Rooted
<1>2. CASE state = "good"
  BY <1>1, <1>2 DEF Grown
<1>3. CASE state # "good"
  BY <1>1, <1>3 DEF Grown
<1>. QED
  BY <1>2, <1>3

\* Every variable stays in its type, the keys and links of every node included.
THEOREM TypeCorrect == Spec => []TypeOK
<1>1. Inv => TypeOK
  <2>. SUFFICES ASSUME Inv PROVE TypeOK
    OBVIOUS
  <2>1. CASE root = Null
    <3>1. DOMAIN heap = {}
      BY <2>1 DEF Inv
    <3>. QED
      BY <2>1, <3>1 DEF Inv, TypeOK
  <2>2. CASE root # Null
    <3>1. PICK ht, lo, hi, cap :
            Tree(heap, ht, lo, hi, cap) /\ cap \in {MaxKeys, MaxKeys + 1} /\ root \in DOMAIN heap
      BY <2>2, AnyTree
    <3>2. ASSUME NEW a \in DOMAIN heap
          PROVE  /\ ToSet(heap[a].keys) \subseteq Keys
                 /\ heap[a].next \in Addrs \cup {Null}
                 /\ Len(heap[a].keys) \in 1 .. MaxKeys + 1
      <4>1. heap[a].keys \in Seq(Keys) /\ heap[a].next \in Addrs \cup {Null}
        BY <3>1 DEF Tree, IsHeap, Nodes
      <4>2. ToSet(heap[a].keys) \subseteq Keys
        BY <4>1 DEF ToSet
      <4>3. Len(heap[a].keys) \in 1 .. cap
        BY <3>1 DEF Tree, NodeOK, LeafOK, Keyed, InnerOK
      <4>4. Len(heap[a].keys) \in 1 .. MaxKeys + 1
        <5>. DEFINE l == Len(heap[a].keys)
        <5>1. MaxKeys \in Nat /\ l \in 1 .. cap /\ cap \in {MaxKeys, MaxKeys + 1}
          BY <3>1, <4>3, BPTreeAssumption
        <5>. HIDE DEF l
        <5>2. l \in 1 .. MaxKeys + 1
          BY <5>1
        <5>. QED
          BY <5>2 DEF l
      <4>. QED
        BY <4>1, <4>2, <4>4
    <3>3. DOMAIN heap \subseteq Addrs
      BY <3>1 DEF Tree, IsHeap
    <3>. QED
      BY <3>1, <3>2, <3>3 DEF Inv, TypeOK
  <2>. QED
    BY <2>1, <2>2
<1>. QED
  BY <1>1, InvInvariant, PTL

\* free_node follows no pointer to a node that is not allocated, and to no node
\* twice, on a good tree and on one that an insert left half changed.
THEOREM FreeIsSafe == Spec => []FreeSafe
<1>1. Inv => FreeSafe
  <2>. SUFFICES ASSUME Inv, root # Null PROVE FreeSafe
    BY DEF FreeSafe
  <2>1. PICK ht, lo, hi, cap :
          /\ Tree(heap, ht, lo, hi, cap) /\ root \in DOMAIN heap
          /\ \A b \in DOMAIN heap : ht[b] <= ht[root]
    BY AnyTree
  <2>2. Owned(heap, root) \subseteq DOMAIN heap
    BY <2>1, OwnedIn
  <2>3. \A b \in DOMAIN heap : ht[b] \in Nat
    BY <2>1 DEF Tree, Homes
  <2>4. ASSUME NEW a \in DOMAIN heap, NEW c \in ToSet(heap[a].children)
        PROVE  c \in DOMAIN heap \ {root}
    <3>1. c \in DOMAIN heap /\ ht[c] + 1 = ht[a] /\ ht[c] \in Nat
      BY <2>1, Kid
    <3>2. ht[a] <= ht[root] /\ ht[a] \in Nat /\ ht[root] \in Nat
      BY <2>1, <2>3
    <3>3. c # root
      BY <3>1, <3>2
    <3>. QED
      BY <3>1, <3>3
  <2>5. ASSUME NEW a \in DOMAIN heap, NEW i \in DOMAIN heap[a].children
        PROVE  ~heap[a].is_leaf /\ i \in 1 .. Len(heap[a].keys) + 1
    <3>1. heap[a].children[i] \in ToSet(heap[a].children)
      BY DEF ToSet
    <3>2. ~heap[a].is_leaf
      BY <2>1, <3>1, Kid
    <3>3. NodeOK(heap, ht, lo, hi, cap, a)
      BY <2>1 DEF Tree
    <3>4. Len(heap[a].children) = Len(heap[a].keys) + 1 /\ heap[a].children \in Seq(Addrs)
      BY <2>1, <3>2, <3>3 DEF Tree, IsHeap, NodeOK, InnerOK, Nodes
    <3>5. DOMAIN heap[a].children = 1 .. Len(heap[a].keys) + 1
      BY <3>4
    <3>. QED
      BY <3>2, <3>5
  <2>6. ASSUME NEW a \in DOMAIN heap, NEW b \in DOMAIN heap, NEW i \in DOMAIN heap[a].children,
               NEW l \in DOMAIN heap[b].children, heap[a].children[i] = heap[b].children[l]
        PROVE  a = b /\ i = l
    <3>1. ~heap[a].is_leaf /\ i \in 1 .. Len(heap[a].keys) + 1
      BY <2>5
    <3>2. ~heap[b].is_leaf /\ l \in 1 .. Len(heap[b].keys) + 1
      BY <2>5
    <3>3. Tree(heap, ht, lo, hi, cap)
      BY <2>1
    <3>. QED
      BY <2>6, <3>1, <3>2, <3>3, UniqueParent
  <2>. QED
    BY <2>2, <2>4, <2>6 DEF FreeSafe
<1>. QED
  BY <1>1, InvInvariant, PTL

\* After every insert that had the memory it needed the tree is a B+ tree.
THEOREM TreeIsShaped == Spec => []TreeShape
<1>1. Inv => TreeShape
  <2>. SUFFICES ASSUME Inv, state = "good", root # Null PROVE TreeShape
    BY DEF TreeShape
  <2>1. PICK ht, lo, hi : Tree(heap, ht, lo, hi, MaxKeys) /\ root \in DOMAIN heap
    BY GoodTree
  <2>2. Cardinality(Depths(root)) = 1
    <3>1. Depths(root) = {ht[root]}
      BY <2>1, DepthsOf
    <3>. QED
      BY <3>1, FS_Singleton
  <2>3. Owned(heap, root) \subseteq DOMAIN heap
    BY <2>1, OwnedIn
  <2>4. ASSUME NEW a \in DOMAIN heap
        PROVE  /\ Ascending(heap[a].keys) /\ Len(heap[a].keys) \in 1 .. MaxKeys
               /\ IF heap[a].is_leaf
                  THEN Len(heap[a].values) = Len(heap[a].keys)
                  ELSE Len(heap[a].children) = Len(heap[a].keys) + 1 /\ Separates(a)
    <3>1. NodeOK(heap, ht, lo, hi, MaxKeys, a)
      BY <2>1 DEF Tree
    <3>2. /\ heap[a] \in Nodes /\ lo[a] \in Nat /\ hi[a] \in Nat /\ IsHeap(heap)
          /\ Homes(heap, ht, lo, hi)
      BY <2>1 DEF Tree, IsHeap, Homes
    <3>3. CASE heap[a].is_leaf
      BY <3>1, <3>3 DEF NodeOK, LeafOK, Keyed
    <3>4. CASE ~heap[a].is_leaf
      <4>1. /\ Len(heap[a].keys) \in 1 .. MaxKeys /\ EdgesAscend(heap[a], lo[a], hi[a])
            /\ Len(heap[a].children) = Len(heap[a].keys) + 1
        BY <3>1, <3>4 DEF NodeOK, InnerOK
      <4>2. heap[a].children \in Seq(Addrs) /\ heap[a].keys \in Seq(Keys)
        BY <3>2 DEF Nodes
      <4>3. DOMAIN heap[a].children = 1 .. Len(heap[a].keys) + 1 /\ Len(heap[a].keys) \in Nat
        BY <4>1, <4>2
      <4>4. Ascending(heap[a].keys)
        <5>1. Len(heap[a].keys) >= 1
          <6>1. MaxKeys \in Nat
            BY BPTreeAssumption
          <6>. QED
            BY <4>1, <6>1
        <5>. QED
          BY <3>2, <4>1, <5>1, EdgesKeyed
      <4>5. ASSUME NEW i \in 1 .. Len(heap[a].keys) + 1, NEW k \in KeysUnder(heap[a].children[i])
            PROVE  /\ i > 1 => heap[a].keys[i - 1] <= k
                   /\ i <= Len(heap[a].keys) => k < heap[a].keys[i]
        <5>. DEFINE c == heap[a].children[i]
        <5>1. Within(heap, ht, lo, hi, a, i, c)
          BY <3>1, <3>2, <3>4, ChildHome
        <5>2. /\ c \in DOMAIN heap /\ lo[c] = Edge(heap[a], lo[a], hi[a], i - 1)
              /\ hi[c] = Edge(heap[a], lo[a], hi[a], i)
          BY <5>1 DEF Within
        <5>3. lo[c] <= k /\ k < hi[c]
          BY <2>1, <5>2, UnderHome
        <5>4. i > 1 => Edge(heap[a], lo[a], hi[a], i - 1) = heap[a].keys[i - 1]
          <6>1. i > 1 => i - 1 # 0 /\ ~(i - 1 > Len(heap[a].keys))
            BY <4>3
          <6>. QED
            BY <6>1 DEF Edge
        <5>5. i <= Len(heap[a].keys) => Edge(heap[a], lo[a], hi[a], i) = heap[a].keys[i]
          <6>1. i <= Len(heap[a].keys) => i # 0 /\ ~(i > Len(heap[a].keys))
            BY <4>3
          <6>. QED
            BY <6>1 DEF Edge
        <5>. QED
          BY <5>2, <5>3, <5>4, <5>5
      <4>6. Separates(a)
        BY <4>3, <4>5 DEF Separates
      <4>. QED
        BY <3>4, <4>1, <4>4, <4>6
    <3>. QED
      BY <3>3, <3>4
  <2>. QED
    BY <2>2, <2>3, <2>4 DEF TreeShape
<1>. QED
  BY <1>1, InvInvariant, PTL

\* The next links of a good tree run through its leaves from left to right.
THEOREM LeavesAreChained == Spec => []LeafChain
<1>1. Inv => LeafChain
  <2>. SUFFICES ASSUME Inv, state = "good", root # Null PROVE LeafChain
    BY DEF LeafChain
  <2>1. PICK ht, lo, hi : /\ Tree(heap, ht, lo, hi, MaxKeys) /\ root \in DOMAIN heap
                          /\ lo[root] = 0 /\ hi[root] = Top
    BY GoodTree
  <2>. DEFINE s == Leaves(root)
  <2>2. Run(heap, lo, hi, s, 0, Top)
    BY <2>1, LeavesRun
  <2>. HIDE DEF s
  <2>3. s \in Seq(DOMAIN heap)
    BY <2>2 DEF Run
  <2>4. /\ \A i \in 1 .. Len(s) : heap[s[i]].is_leaf
        /\ hi[s[Len(s)]] = Top
        /\ \A i \in 1 .. Len(s) - 1 : hi[s[i]] = lo[s[i + 1]]
    BY <2>2 DEF Run
  <2>5. Len(s) \in Nat /\ DOMAIN s = 1 .. Len(s) /\ \A i \in 1 .. Len(s) : s[i] \in DOMAIN heap
    BY <2>3
  <2>6. \A b \in DOMAIN heap : heap[b].is_leaf =>
          /\ ht[b] = 0 /\ lo[b] \in Nat /\ hi[b] \in Nat /\ lo[b] < hi[b] /\ hi[b] <= Top
          /\ IF hi[b] = Top THEN heap[b].next = Null
             ELSE /\ heap[b].next \in DOMAIN heap /\ heap[heap[b].next].is_leaf
                  /\ lo[heap[b].next] = hi[b]
    <3>. SUFFICES ASSUME NEW b \in DOMAIN heap, heap[b].is_leaf
                  PROVE  /\ ht[b] = 0 /\ lo[b] \in Nat /\ hi[b] \in Nat /\ lo[b] < hi[b] /\ hi[b] <= Top
                         /\ IF hi[b] = Top THEN heap[b].next = Null
                            ELSE /\ heap[b].next \in DOMAIN heap /\ heap[heap[b].next].is_leaf
                                 /\ lo[heap[b].next] = hi[b]
      OBVIOUS
    <3>1. ht[b] = 0 /\ LeafOK(heap[b], lo[b], hi[b], MaxKeys)
      BY <2>1 DEF Tree, NodeOK
    <3>2. lo[b] \in Nat /\ hi[b] \in Nat /\ hi[b] <= Top
      BY <2>1 DEF Tree, Homes
    <3>3. heap[b].keys \in Seq(Keys)
      BY <2>1 DEF Tree, IsHeap, Nodes
    <3>4. lo[b] < hi[b]
      <4>1. MaxKeys \in Nat
        BY BPTreeAssumption
      <4>2. /\ Len(heap[b].keys) \in 1 .. MaxKeys
            /\ \A i \in 1 .. Len(heap[b].keys) : lo[b] <= heap[b].keys[i] /\ heap[b].keys[i] < hi[b]
        BY <3>1 DEF LeafOK, Keyed
      <4>3. 1 \in 1 .. Len(heap[b].keys)
        BY <4>1, <4>2
      <4>4. heap[b].keys[1] \in Nat
        BY <3>3, <4>3, KeySeq
      <4>. QED
        BY <3>2, <4>2, <4>3, <4>4
    <3>5. IF hi[b] = Top THEN heap[b].next = Null
          ELSE /\ heap[b].next \in DOMAIN heap /\ heap[heap[b].next].is_leaf
               /\ lo[heap[b].next] = hi[b]
      BY <2>1 DEF Tree, Linked
    <3>. QED
      BY <3>1, <3>2, <3>4, <3>5
  <2>7. ASSUME NEW i \in 1 .. Len(s)
        PROVE  heap[s[i]].next = IF i = Len(s) THEN Null ELSE s[i + 1]
    <3>1. s[i] \in DOMAIN heap /\ heap[s[i]].is_leaf
      BY <2>4, <2>5
    <3>2. CASE i = Len(s)
      <4>1. hi[s[i]] = Top
        BY <2>4, <3>2
      <4>. QED
        BY <2>6, <3>1, <3>2, <4>1
    <3>3. CASE i # Len(s)
      <4>. DEFINE b == s[i]
                  c == s[i + 1]
                  d == heap[b].next
      <4>0. ASSUME NEW l, l \in Nat, i \in 1 .. l, i # l PROVE i \in 1 .. l - 1 /\ i + 1 \in 1 .. l
        BY <4>0
      <4>1. i \in 1 .. Len(s) - 1 /\ i + 1 \in 1 .. Len(s)
        <5>1. Len(s) \in Nat
          BY <2>5
        <5>. QED
          BY <3>3, <4>0, <5>1
      <4>2. c \in DOMAIN heap /\ heap[c].is_leaf /\ hi[b] = lo[c]
        BY <2>4, <2>5, <4>1
      <4>. HIDE DEF b, c
      <4>3. lo[c] < hi[c] /\ hi[c] <= Top /\ lo[c] \in Nat /\ hi[c] \in Nat /\ ht[c] = 0
        BY <2>6, <4>2
      <4>4. Top \in Nat
        BY TopFact
      <4>5. hi[b] # Top
        BY <4>2, <4>3, <4>4
      <4>6. d \in DOMAIN heap /\ heap[d].is_leaf /\ lo[d] = hi[b]
        BY <2>6, <3>1, <4>5 DEF b
      <4>. HIDE DEF d
      <4>7. lo[d] < hi[d] /\ lo[d] \in Nat /\ hi[d] \in Nat /\ ht[d] = 0
        BY <2>6, <4>6
      <4>8. c # d => hi[c] <= lo[d] \/ hi[d] <= lo[c]
        BY <2>1, <4>2, <4>3, <4>6, <4>7 DEF Tree, Disjoint
      <4>9. c = d
        BY <4>2, <4>3, <4>6, <4>7, <4>8
      <4>. QED
        BY <3>3, <4>9 DEF b, c, d
    <3>. QED
      BY <3>2, <3>3
  <2>8. \A i \in DOMAIN s : heap[s[i]].next = IF i = Len(s) THEN Null ELSE s[i + 1]
    BY <2>5, <2>7
  <2>. QED
    BY <2>8 DEF LeafChain, s
<1>. QED
  BY <1>1, InvInvariant, PTL

-----------------------------------------------------------------------------
(***************************************************************************)
(* bptree_search and the map.                                              *)
(***************************************************************************)
LEMMA SearchedLeaf ==
  ASSUME NEW ht, NEW lo, NEW hi, NEW cap, Tree(heap, ht, lo, hi, cap), NEW x \in DOMAIN heap,
         NEW k \in Keys, lo[x] <= k, k < hi[x]
  PROVE  \E b \in DOMAIN heap : heap[b].is_leaf /\ lo[b] <= k /\ k < hi[b] /\ LeafFor(x, k) = heap[b]
<1>. DEFINE Found(y) == \E b \in DOMAIN heap : /\ heap[b].is_leaf /\ lo[b] <= k /\ k < hi[b]
                                               /\ LeafFor(y, k) = heap[b]
            T == {y \in DOMAIN heap : lo[y] <= k /\ k < hi[y] => Found(y)}
<1>1. ASSUME NEW y \in DOMAIN heap, \A c \in ToSet(heap[y].children) : c \in T PROVE y \in T
  <2>. SUFFICES ASSUME lo[y] <= k, k < hi[y] PROVE Found(y)
    OBVIOUS
  <2>1. LeafFor(y, k) = IF heap[y].is_leaf THEN heap[y]
                        ELSE LeafFor(heap[y].children[find_child_index(heap[y], k)], k)
    BY LeafForRec
  <2>2. CASE heap[y].is_leaf
    BY <2>1, <2>2
  <2>3. CASE ~heap[y].is_leaf
    <3>. DEFINE at == find_child_index(heap[y], k)
                c  == heap[y].children[at]
    <3>1. /\ heap[y] \in Nodes /\ lo[y] \in Nat /\ hi[y] \in Nat /\ Homes(heap, ht, lo, hi)
          /\ IsHeap(heap) /\ NodeOK(heap, ht, lo, hi, cap, y)
      BY DEF Tree, IsHeap, Homes
    <3>2. EdgesAscend(heap[y], lo[y], hi[y]) /\ Len(heap[y].keys) >= 1
      <4>1. InnerOK(heap[y], ht[y], lo[y], hi[y], cap, ht, lo, hi, DOMAIN heap)
        BY <2>3, <3>1 DEF NodeOK
      <4>2. EdgesAscend(heap[y], lo[y], hi[y]) /\ Len(heap[y].keys) \in 1 .. cap
        BY <4>1 DEF InnerOK
      <4>. QED
        BY <4>2
    <3>3. /\ at \in 1 .. Len(heap[y].keys) + 1
          /\ Edge(heap[y], lo[y], hi[y], at - 1) <= k /\ k < Edge(heap[y], lo[y], hi[y], at)
      BY <3>1, <3>2, ChildPlace
    <3>4. LeafFor(y, k) = LeafFor(c, k)
      BY <2>1, <2>3
    <3>. HIDE DEF at
    <3>5. Within(heap, ht, lo, hi, y, at, c)
      BY <2>3, <3>1, <3>3, ChildHome
    <3>6. c \in ToSet(heap[y].children)
      BY <2>3, <3>3, ChosenKid
    <3>7. lo[c] <= k /\ k < hi[c]
      BY <3>3, <3>5 DEF Within
    <3>8. Found(c)
      BY <1>1, <3>6, <3>7
    <3>. HIDE DEF c
    <3>. QED
      BY <3>4, <3>8
  <2>. QED
    BY <2>2, <2>3
<1>2. DOMAIN heap \subseteq T
  <2>. HIDE DEF T
  <2>. QED
    BY <1>1, TreeInduction
<1>. QED
  BY <1>2

\* No key is twice in the leaves.
LEMMA HasOnce ==
  ASSUME NEW h, NEW ht, NEW lo, NEW hi, NEW cap, Tree(h, ht, lo, hi, cap),
         NEW x \in DOMAIN h, h[x].is_leaf, NEW i \in 1 .. Len(h[x].keys),
         NEW l \in 1 .. Len(h[x].keys), h[x].keys[i] = h[x].keys[l]
  PROVE  i = l
<1>1. h[x].keys \in Seq(Keys)
  BY DEF Tree, IsHeap, Nodes
<1>2. Ascending(h[x].keys)
  BY DEF Tree, NodeOK, LeafOK, Keyed
<1>3. Len(h[x].keys) \in Nat /\ DOMAIN h[x].keys = 1 .. Len(h[x].keys)
  BY <1>1
<1>4. h[x].keys[i] \in Nat /\ h[x].keys[l] \in Nat
  BY <1>1, KeySeq
<1>5. i < l => h[x].keys[i] < h[x].keys[l]
  BY <1>2, <1>3 DEF Ascending
<1>6. l < i => h[x].keys[l] < h[x].keys[i]
  BY <1>2, <1>3 DEF Ascending
<1>7. i \in Nat /\ l \in Nat
  BY <1>3
<1>. QED
  BY <1>4, <1>5, <1>6, <1>7

\* On a good tree bptree_search finds what the leaves hold.
LEMMA SearchHas ==
  ASSUME Inv, state = "good"
  PROVE  /\ \A k \in Keys : \A y : y \in bptree_search(k) <=> Has(heap, k, y)
         /\ \A k, y : Has(heap, k, y) => k \in Keys
         /\ \A k \in Keys : \A y, z : Has(heap, k, y) /\ Has(heap, k, z) => y = z
<1>1. CASE root = Null
  <2>1. DOMAIN heap = {}
    BY <1>1 DEF Inv
  <2>2. \A k, y : ~Has(heap, k, y)
    BY <2>1 DEF Has
  <2>3. \A k, y : y \notin bptree_search(k)
    BY <1>1 DEF bptree_search
  <2>. QED
    BY <2>2, <2>3
<1>2. CASE root # Null
  <2>1. PICK ht, lo, hi : /\ Tree(heap, ht, lo, hi, MaxKeys) /\ root \in DOMAIN heap
                          /\ lo[root] = 0 /\ hi[root] = Top
    BY <1>2, GoodTree
  <2>2. ASSUME NEW k, NEW y, Has(heap, k, y) PROVE k \in Keys
    <3>1. PICK b \in DOMAIN heap : NodeHas(heap[b], k, y)
      BY <2>2 DEF Has
    <3>2. heap[b].keys \in Seq(Keys)
      BY <2>1 DEF Tree, IsHeap, Nodes
    <3>3. \E i \in 1 .. Len(heap[b].keys) : heap[b].keys[i] = k
      BY <3>1 DEF NodeHas
    <3>. QED
      BY <3>2, <3>3
  <2>3. ASSUME NEW k \in Keys
        PROVE  \E b \in DOMAIN heap :
                 /\ heap[b].is_leaf /\ LeafFor(root, k) = heap[b]
                 /\ \A y : Has(heap, k, y) <=> NodeHas(heap[b], k, y)
    <3>1. lo[root] <= k /\ k < hi[root] /\ k \in Nat
      BY <2>1, TopFact, BPTreeAssumption
    <3>2. PICK b \in DOMAIN heap :
            heap[b].is_leaf /\ lo[b] <= k /\ k < hi[b] /\ LeafFor(root, k) = heap[b]
      BY <2>1, <3>1, SearchedLeaf
    <3>3. ASSUME NEW y, Has(heap, k, y) PROVE NodeHas(heap[b], k, y)
      <4>1. PICK c \in DOMAIN heap : NodeHas(heap[c], k, y)
        BY <3>3 DEF Has
      <4>2. c = b
        BY <2>1, <3>1, <3>2, <4>1, HomeLeaf
      <4>. QED
        BY <4>1, <4>2
    <3>4. \A y : Has(heap, k, y) <=> NodeHas(heap[b], k, y)
      BY <3>3 DEF Has
    <3>. QED
      BY <3>2, <3>4
  <2>4. ASSUME NEW k \in Keys
        PROVE  /\ \A y : y \in bptree_search(k) <=> Has(heap, k, y)
               /\ \A y, z : Has(heap, k, y) /\ Has(heap, k, z) => y = z
    <3>1. PICK b \in DOMAIN heap : /\ heap[b].is_leaf /\ LeafFor(root, k) = heap[b]
                                   /\ \A y : Has(heap, k, y) <=> NodeHas(heap[b], k, y)
      BY <2>3
    <3>2. heap[b].keys \in Seq(Keys)
      BY <2>1 DEF Tree, IsHeap, Nodes
    <3>3. DOMAIN heap[b].keys = 1 .. Len(heap[b].keys)
      BY <3>2
    <3>4. bptree_search(k) =
            {heap[b].values[i] : i \in {l \in DOMAIN heap[b].keys : heap[b].keys[l] = k}}
      BY <1>2, <3>1 DEF bptree_search
    <3>5. \A y : y \in bptree_search(k) <=> NodeHas(heap[b], k, y)
      BY <3>1, <3>3, <3>4 DEF NodeHas
    <3>6. ASSUME NEW y, NEW z, NodeHas(heap[b], k, y), NodeHas(heap[b], k, z) PROVE y = z
      <4>1. PICK i \in 1 .. Len(heap[b].keys) : heap[b].keys[i] = k /\ heap[b].values[i] = y
        BY <3>6 DEF NodeHas
      <4>2. PICK l \in 1 .. Len(heap[b].keys) : heap[b].keys[l] = k /\ heap[b].values[l] = z
        BY <3>6 DEF NodeHas
      <4>3. heap[b].keys[i] = heap[b].keys[l]
        BY <4>1, <4>2
      <4>4. i = l
        BY <2>1, <3>1, <4>3, HasOnce
      <4>. QED
        BY <4>1, <4>2, <4>4
    <3>. QED
      BY <3>1, <3>5, <3>6
  <2>. QED
    BY <2>2, <2>4
<1>. QED
  BY <1>1, <1>2

\* The map is what the leaves of a good tree hold.
Holds ==
  /\ SearchMap = [j \in DOMAIN SearchMap |-> SearchMap[j]]
  /\ state # "good" => DOMAIN SearchMap = {}
  /\ state = "good" => \A j, y : j \in DOMAIN SearchMap /\ SearchMap[j] = y <=> Has(heap, j, y)

\* SearchMap has each key of the leaves once.
LEMMA InvHolds == Inv => Holds
<1>. SUFFICES ASSUME Inv PROVE Holds
  OBVIOUS
<1>. DEFINE D == {j \in Keys : state = "good" /\ bptree_search(j) # {}}
            One(j) == CHOOSE y \in bptree_search(j) : TRUE
<1>1. SearchMap = [j \in D |-> One(j)]
  BY DEF SearchMap
<1>. HIDE DEF One
<1>2. DOMAIN SearchMap = D /\ \A j \in D : SearchMap[j] = One(j)
  BY <1>1
<1>3. SearchMap = [j \in DOMAIN SearchMap |-> SearchMap[j]]
  BY <1>1
<1>4. state # "good" => DOMAIN SearchMap = {}
  BY <1>2
<1>5. ASSUME state = "good", NEW j, NEW y
      PROVE  j \in DOMAIN SearchMap /\ SearchMap[j] = y <=> Has(heap, j, y)
  <2>1. /\ \A k \in Keys : \A z : z \in bptree_search(k) <=> Has(heap, k, z)
        /\ \A k, z : Has(heap, k, z) => k \in Keys
        /\ \A k \in Keys : \A z, x : Has(heap, k, z) /\ Has(heap, k, x) => z = x
    BY <1>5, SearchHas
  <2>2. ASSUME j \in D PROVE One(j) \in bptree_search(j)
    BY <2>2 DEF One
  <2>3. ASSUME j \in D PROVE Has(heap, j, One(j))
    BY <2>1, <2>2, <2>3
  <2>4. ASSUME Has(heap, j, y) PROVE j \in D /\ One(j) = y
    <3>1. j \in Keys /\ y \in bptree_search(j)
      BY <2>1, <2>4
    <3>2. j \in D
      BY <1>5, <3>1
    <3>. QED
      BY <2>1, <2>3, <2>4, <3>1, <3>2
  <2>. HIDE DEF D
  <2>. QED
    BY <1>2, <2>3, <2>4
<1>. HIDE DEF D
<1>. QED
  BY <1>3, <1>4, <1>5 DEF Holds

\* At every moment bptree_search on a good tree finds what the leaves hold.
THEOREM HoldsInvariant == Spec => [](Inv /\ Holds)
BY InvInvariant, InvHolds, PTL

\* Functions with the same values are the same.
LEMMA SameFunction ==
  ASSUME NEW f, NEW g, f = [j \in DOMAIN f |-> f[j]], g = [j \in DOMAIN g |-> g[j]],
         \A j, y : j \in DOMAIN f /\ f[j] = y <=> j \in DOMAIN g /\ g[j] = y
  PROVE  f = g
<1>1. DOMAIN f = DOMAIN g /\ \A j \in DOMAIN f : f[j] = g[j]
  OBVIOUS
<1>2. [j \in DOMAIN f |-> f[j]] = [j \in DOMAIN g |-> g[j]]
  BY <1>1
<1>. QED
  BY <1>2

\* An insert that succeeds adds to the map, one that finds the key leaves it
\* alone, and one that lacks memory ends it.
LEMMA MapStep ==
  ASSUME Inv, Holds, Inv', Holds', NEW k \in Keys, NEW v \in Offsets[k], state = "good", Outcome(k, v)
  PROVE  Map!Insert(k, v) \/ Map!Refuse(k, v) \/ Map!Break(k, v)
<1>1. /\ SearchMap = [j \in DOMAIN SearchMap |-> SearchMap[j]]
      /\ \A j, y : j \in DOMAIN SearchMap /\ SearchMap[j] = y <=> Has(heap, j, y)
  BY DEF Holds
<1>2. /\ SearchMap' = [j \in DOMAIN SearchMap' |-> SearchMap'[j]]
      /\ state' # "good" => DOMAIN SearchMap' = {}
      /\ state' = "good" => \A j, y : j \in DOMAIN SearchMap' /\ SearchMap'[j] = y <=> Has(heap', j, y)
  BY DEF Holds
<1>3. answer' = [status |-> answer'.status, key |-> k, value |-> v]
  BY DEF Outcome
<1>4. CASE answer'.status = "duplicate" /\ state' = "good" /\ heap' = heap /\ \E y : Has(heap, k, y)
  <2>1. SearchMap' = SearchMap
    <3>1. \A j, y : j \in DOMAIN SearchMap' /\ SearchMap'[j] = y <=> j \in DOMAIN SearchMap /\ SearchMap[j] = y
      BY <1>1, <1>2, <1>4
    <3>. QED
      BY <1>1, <1>2, <3>1, SameFunction
  <2>2. k \in DOMAIN SearchMap
    BY <1>1, <1>4
  <2>3. answer' = [status |-> "duplicate", key |-> k, value |-> v]
    BY <1>3, <1>4
  <2>. QED
    BY <1>4, <2>1, <2>2, <2>3 DEF Map!Refuse, Map!Said
<1>5. CASE answer'.status = "ok" /\ state' = "good" /\ Added(heap, heap', k, v)
  <2>. DEFINE g == [j \in DOMAIN SearchMap \cup {k} |-> IF j = k THEN v ELSE SearchMap[j]]
  <2>1. k \notin DOMAIN SearchMap
    BY <1>1, <1>5 DEF Added
  <2>2. g = [j \in DOMAIN g |-> g[j]]
    OBVIOUS
  <2>3. ASSUME NEW j, NEW y
        PROVE  j \in DOMAIN g /\ g[j] = y <=>
                 (j \in DOMAIN SearchMap /\ SearchMap[j] = y) \/ (j = k /\ y = v)
    BY <2>1
  <2>4. ASSUME NEW j, NEW y
        PROVE  j \in DOMAIN SearchMap' /\ SearchMap'[j] = y <=>
                 (j \in DOMAIN SearchMap /\ SearchMap[j] = y) \/ (j = k /\ y = v)
    BY <1>1, <1>2, <1>5 DEF Added
  <2>. HIDE DEF g
  <2>5. \A j, y : j \in DOMAIN SearchMap' /\ SearchMap'[j] = y <=> j \in DOMAIN g /\ g[j] = y
    BY <2>3, <2>4
  <2>6. SearchMap' = g
    BY <1>2, <2>2, <2>5, SameFunction
  <2>7. answer' = [status |-> "ok", key |-> k, value |-> v]
    BY <1>3, <1>5
  <2>8. state' = state
    BY <1>5
  <2>9. SearchMap' = [j \in DOMAIN SearchMap \cup {k} |-> IF j = k THEN v ELSE SearchMap[j]]
    BY <2>6 DEF g
  <2>. QED
    BY <2>1, <2>7, <2>8, <2>9 DEF Map!Insert, Map!Said
<1>6. CASE answer'.status = "memory" /\ state' = "broken" /\ \A y : ~Has(heap, k, y)
  <2>1. k \notin DOMAIN SearchMap
    BY <1>1, <1>6
  <2>2. SearchMap' = [j \in {} |-> j]
    BY <1>2, <1>6
  <2>3. answer' = [status |-> "memory", key |-> k, value |-> v]
    BY <1>3, <1>6
  <2>. QED
    BY <1>6, <2>1, <2>2, <2>3 DEF Map!Break, Map!Said, Map!Empty
<1>. QED
  BY <1>4, <1>5, <1>6 DEF Outcome

\* What bptree_search answers is what the successful inserts put in: the tree
\* implements the map that table_index.c takes it for.
THEOREM MapRefined == Spec => RefinesMap
<1>1. Init => Map!Init
  <2>. SUFFICES ASSUME Init PROVE Map!Init
    OBVIOUS
  <2>1. root = Null /\ state = "good" /\ answer = [status |-> "none"]
    BY DEF Init
  <2>2. \A j : bptree_search(j) = {}
    BY <2>1 DEF bptree_search
  <2>3. {j \in Keys : state = "good" /\ bptree_search(j) # {}} = {}
    BY <2>2
  <2>4. SearchMap = [j \in {} |-> j]
    BY <2>3 DEF SearchMap
  <2>. QED
    BY <2>1, <2>4 DEF Map!Init, Map!Empty, Map!NoAnswer
<1>2. ASSUME Inv, Holds, Inv', Holds', [Next]_treeVars PROVE [Map!Next]_(Map!mapVars)
  <2>1. ASSUME NEW k \in Keys, NEW m \in Memory, Cardinality(Addrs \ DOMAIN heap) >= m,
               NEW v \in Offsets[k], bptree_insert(k, v, m)
        PROVE  Map!Next
    <3>1. Outcome(k, v)
      BY <1>2, <2>1, InsertStep
    <3>2. state = "good"
      BY <2>1 DEF bptree_insert
    <3>3. Map!Insert(k, v) \/ Map!Refuse(k, v) \/ Map!Break(k, v)
      BY <1>2, <3>1, <3>2, MapStep
    <3>. QED
      BY <3>3 DEF Map!Next
  <2>2. ASSUME bptree_free PROVE Map!Next
    <3>1. DOMAIN heap' = {} /\ state' = "good" /\ answer' = [status |-> "none"]
      BY <2>2 DEF bptree_free
    <3>2. \A j, y : ~Has(heap', j, y)
      BY <3>1 DEF Has
    <3>3. /\ SearchMap' = [j \in DOMAIN SearchMap' |-> SearchMap'[j]]
          /\ \A j, y : j \in DOMAIN SearchMap' /\ SearchMap'[j] = y <=> Has(heap', j, y)
      BY <1>2, <3>1 DEF Holds
    <3>4. DOMAIN SearchMap' = {}
      BY <3>2, <3>3
    <3>5. SearchMap' = [j \in {} |-> j]
      BY <3>3, <3>4
    <3>6. Map!Clear
      BY <3>1, <3>5 DEF Map!Clear, Map!NoAnswer, Map!Empty
    <3>. QED
      BY <3>6 DEF Map!Next
  <2>3. ASSUME UNCHANGED treeVars PROVE UNCHANGED Map!mapVars
    <3>1. root' = root /\ heap' = heap /\ state' = state /\ answer' = answer
      BY <2>3 DEF treeVars
    <3>2. SearchMap' = SearchMap
      <4>1. CASE state = "good"
        <5>1. \A j, y : j \in DOMAIN SearchMap' /\ SearchMap'[j] = y <=> j \in DOMAIN SearchMap /\ SearchMap[j] = y
          BY <1>2, <3>1, <4>1 DEF Holds
        <5>2. SearchMap = [j \in DOMAIN SearchMap |-> SearchMap[j]]
              /\ SearchMap' = [j \in DOMAIN SearchMap' |-> SearchMap'[j]]
          BY <1>2 DEF Holds
        <5>. QED
          BY <5>1, <5>2, SameFunction
      <4>2. CASE state # "good"
        <5>1. DOMAIN SearchMap = {} /\ DOMAIN SearchMap' = {}
          BY <1>2, <3>1, <4>2 DEF Holds
        <5>2. SearchMap = [j \in DOMAIN SearchMap |-> SearchMap[j]]
              /\ SearchMap' = [j \in DOMAIN SearchMap' |-> SearchMap'[j]]
          BY <1>2 DEF Holds
        <5>. QED
          BY <5>1, <5>2, SameFunction
      <4>. QED
        BY <4>1, <4>2
    <3>. QED
      BY <3>1, <3>2 DEF Map!mapVars
  <2>. QED
    BY <1>2, <2>1, <2>2, <2>3 DEF Next
<1>. QED
  BY <1>1, <1>2, HoldsInvariant, PTL DEF Spec, Map!Spec, RefinesMap
=============================================================================
