------------------------------- MODULE BPTree -------------------------------
(***************************************************************************)
(* index/bptree.c: the B+ tree from internal ids to row offsets.  Nodes    *)
(* live on a heap and are named by addresses, so that the links between    *)
(* leaves and what free_node reaches are the code's.  One call of          *)
(* bptree_insert, recursion included, is one step; create_node may fail,   *)
(* and a failed insert leaves the tree as the code leaves it.              *)
(***************************************************************************)
EXTENDS Integers, Sequences, SequencesExt, FiniteSets, FiniteSetsExt

CONSTANTS Keys,      \* the ids
          Offsets,   \* Offsets[k]: the row offsets k may be inserted with
          MaxKeys,   \* BPTREE_MAX_KEYS
          Addrs,     \* node addresses: the bound on allocated nodes
          Memory,    \* how many allocations may succeed during one insert
          Reach      \* bound: how far ahead of the keys present one may insert

Null == 0            \* the null pointer

ASSUME BPTreeAssumption ==
  /\ Keys \subseteq Nat /\ IsFiniteSet(Keys)
  /\ \A k \in Keys : Offsets[k] # {}
  /\ MaxKeys \in Nat \ {0, 1}
  /\ Addrs \subseteq Nat \ {Null} /\ IsFiniteSet(Addrs)
  /\ Memory \subseteq Nat
  /\ Reach \in Nat \ {0}

VARIABLES root, heap,   \* tree->root; the allocated nodes
          state,        \* "good", or "broken" by an insert that lacked memory
          answer        \* what the last bptree_insert returned, and to what

treeVars == <<root, heap, state, answer>>

\* A leaf has keys, values and next; an internal node keys and children.
Leaf(ks, vs, n)  == [is_leaf |-> TRUE, keys |-> ks, values |-> vs, children |-> <<>>, next |-> n]
Internal(ks, cs) == [is_leaf |-> FALSE, keys |-> ks, values |-> <<>>, children |-> cs, next |-> Null]

\* calloc gives any free address: the least one stands for them all.
create_node(h) == Min(Addrs \ DOMAIN h)
Put(h, a, n)   == [x \in DOMAIN h \cup {a} |-> IF x = a THEN n ELSE h[x]]

\* Variants a faulty bptree.c could have; each is the body of a mutant.
find_child_index_Strict(n, k) == 1 + Cardinality({i \in DOMAIN n.keys : k > n.keys[i]})

\* The child to go down to: after every separator that is not above k.
find_child_index(n, k) == 1 + Cardinality({i \in DOMAIN n.keys : k >= n.keys[i]})
-----------------------------------------------------------------------------
(***************************************************************************)
(* InsertState: what an insert into a subtree tells the node above.  mem   *)
(* is the number of create_node calls that still succeed.                  *)
(***************************************************************************)
Result(h, m, s, p, r) == [heap |-> h, mem |-> m, status |-> s, promoted |-> p, right |-> r]
Done(h, m)            == Result(h, m, "ok", 0, Null)
Split(h, m, p, r)     == Result(h, m, "split", p, r)
Error(h, m, why)      == Result(h, m, why, 0, Null)

\* A leaf split that forgets the leaf on the right of both.
SplitLeaf_DropsNext(h, m, a, n) ==
  LET half  == Len(n.keys) \div 2
      right == create_node(h)
      upper == Leaf(SubSeq(n.keys, half + 1, Len(n.keys)),
                    SubSeq(n.values, half + 1, Len(n.values)), Null)
      lower == Leaf(SubSeq(n.keys, 1, half), SubSeq(n.values, 1, half), right)
  IN  Split(Put(Put(h, right, upper), a, lower), m - 1, upper.keys[1], right)

\* A full leaf n at address a becomes two, linked, the first key of the
\* right one going up as well.
SplitLeaf(h, m, a, n) ==
  LET half  == Len(n.keys) \div 2
      right == create_node(h)
      upper == Leaf(SubSeq(n.keys, half + 1, Len(n.keys)),
                    SubSeq(n.values, half + 1, Len(n.values)), n.next)
      lower == Leaf(SubSeq(n.keys, 1, half), SubSeq(n.values, 1, half), right)
  IN  Split(Put(Put(h, right, upper), a, lower), m - 1, upper.keys[1], right)

\* The pair goes to its place; a leaf that is then too full is split.
insert_into_leaf(h, m, a, k, v) ==
  LET n    == h[a]
      at   == 1 + Cardinality({i \in DOMAIN n.keys : n.keys[i] < k})
      full == Leaf(InsertAt(n.keys, at, k), InsertAt(n.values, at, v), n.next)
  IN  IF at <= Len(n.keys) /\ n.keys[at] = k THEN Error(h, m, "duplicate")
      ELSE IF Len(full.keys) <= MaxKeys THEN Done(Put(h, a, full), m)
      ELSE IF m = 0 THEN Error(Put(h, a, full), m, "memory")
      ELSE SplitLeaf(h, m, a, full)

\* An internal split that leaves the promoted key in the left node too.
SplitInternal_KeepsMiddle(h, m, a, n) ==
  LET mid   == Len(n.keys) \div 2
      right == create_node(h)
      upper == Internal(SubSeq(n.keys, mid + 2, Len(n.keys)),
                        SubSeq(n.children, mid + 2, Len(n.children)))
      lower == Internal(SubSeq(n.keys, 1, mid + 1), SubSeq(n.children, 1, mid + 2))
  IN  Split(Put(Put(h, right, upper), a, lower), m - 1, n.keys[mid + 1], right)

\* A full internal node n becomes two; its middle key moves up.
SplitInternal(h, m, a, n) ==
  LET mid   == Len(n.keys) \div 2
      right == create_node(h)
      upper == Internal(SubSeq(n.keys, mid + 2, Len(n.keys)),
                        SubSeq(n.children, mid + 2, Len(n.children)))
      lower == Internal(SubSeq(n.keys, 1, mid), SubSeq(n.children, 1, mid + 1))
  IN  Split(Put(Put(h, right, upper), a, lower), m - 1, n.keys[mid + 1], right)

\* The internal node at a takes the key and the child that a split gave it.
Absorb(h, m, a, at, promoted, child) ==
  LET n    == h[a]
      full == Internal(InsertAt(n.keys, at, promoted), InsertAt(n.children, at + 1, child))
  IN  IF Len(full.keys) <= MaxKeys THEN Done(Put(h, a, full), m)
      ELSE IF m = 0 THEN Error(Put(h, a, full), m, "memory")
      ELSE SplitInternal(h, m, a, full)

\* Down to the leaf, and up again as far as nodes split.
insert_into_node(h, m, a, k, v) ==
  LET into[x \in DOMAIN h] ==
        IF h[x].is_leaf THEN insert_into_leaf(h, m, x, k, v)
        ELSE LET at  == find_child_index(h[x], k)
                 sub == into[h[x].children[at]]
             IN  IF sub.status # "split" THEN sub
                 ELSE Absorb(sub.heap, sub.mem, x, at, sub.promoted, sub.right)
  IN  into[a]

\* A root split that hangs the two halves in the wrong order.
NewRoot_Swapped(old, s) == Internal(<<s.promoted>>, <<s.right, old>>)

NewRoot(old, s) == Internal(<<s.promoted>>, <<old, s.right>>)
-----------------------------------------------------------------------------
Init ==
  /\ root = Null
  /\ heap = [a \in {} |-> Null]
  /\ state = "good"
  /\ answer = [status |-> "none"]

\* What bptree_insert leaves: a root, a heap and a status.
Leave(r, h, status, k, v) ==
  /\ root' = r
  /\ heap' = h
  /\ state' = IF status = "memory" THEN "broken" ELSE "good"
  /\ answer' = [status |-> status, key |-> k, value |-> v]

\* bptree_insert(tree, k, v) when mem calls of create_node can succeed.
bptree_insert(k, v, mem) ==
  /\ state = "good"
  /\ IF root = Null
     THEN IF mem = 0 THEN Leave(Null, heap, "memory", k, v)
          ELSE LET a == create_node(heap)
               IN  Leave(a, Put(heap, a, Leaf(<<k>>, <<v>>, Null)), "ok", k, v)
     ELSE LET s == insert_into_node(heap, mem, root, k, v)
          IN  IF s.status # "split" THEN Leave(root, s.heap, s.status, k, v)
              ELSE IF s.mem = 0 THEN Leave(root, s.heap, "memory", k, v)
              ELSE LET a == create_node(s.heap)
                   IN  Leave(a, Put(s.heap, a, NewRoot(root, s)), "ok", k, v)

\* The nodes free_node visits from address a.
Owned(h, a) ==
  LET below[x \in DOMAIN h] == {x} \cup UNION {below[c] : c \in ToSet(h[x].children)}
  IN  below[a]

\* bptree_free: by the registry, or at once by the caller of a failed insert.
\* A right half that a failed root growth left unlinked is lost to the program
\* and no longer tracked.
bptree_free ==
  /\ root' = Null
  /\ heap' = [a \in {} |-> Null]
  /\ state' = "good"
  /\ answer' = [status |-> "none"]

\* bptree_search: the descent, then the linear search of the leaf.
LeafFor(a, k) ==
  LET leaf[x \in DOMAIN heap] ==
        IF heap[x].is_leaf THEN heap[x]
        ELSE leaf[heap[x].children[find_child_index(heap[x], k)]]
  IN  leaf[a]

bptree_search(k) ==
  IF root = Null THEN {}
  ELSE LET n == LeafFor(root, k)
       IN  {n.values[i] : i \in {j \in DOMAIN n.keys : n.keys[j] = k}}

(***************************************************************************)
(* The leaves from left to right, and the keys they hold.                  *)
(***************************************************************************)
Leaves(a) ==
  LET leaves[x \in DOMAIN heap] ==
        IF heap[x].is_leaf THEN <<x>>
        ELSE FlattenSeq([i \in DOMAIN heap[x].children |-> leaves[heap[x].children[i]]])
  IN  leaves[a]

KeysUnder(a) == UNION {ToSet(heap[b].keys) : b \in ToSet(Leaves(a))}
KeysIn       == IF root = Null THEN {} ELSE KeysUnder(root)

\* Ids are handed out in order (Reach = 1); the tree itself takes any order.
InReach(k) == Cardinality({j \in Keys \ KeysIn : j < k}) < Reach

Next ==
  \/ \E k \in Keys, m \in Memory :
       /\ state = "good" /\ InReach(k)
       /\ Cardinality(Addrs \ DOMAIN heap) >= m
       /\ \E v \in Offsets[k] : bptree_insert(k, v, m)
  \/ bptree_free

Spec == Init /\ [][Next]_treeVars
-----------------------------------------------------------------------------
\* Every variable stays in its type.
TypeOK ==
  /\ DOMAIN heap \subseteq Addrs
  /\ root \in DOMAIN heap \cup {Null}
  /\ state \in {"good", "broken"}
  /\ answer.status \in {"none", "ok", "duplicate", "memory"}
  /\ \A a \in DOMAIN heap :
       /\ ToSet(heap[a].keys) \subseteq Keys
       /\ heap[a].next \in Addrs \cup {Null}
       /\ Len(heap[a].keys) \in 1 .. MaxKeys + 1

\* How far below the node at a its leaves are: one number in a balanced tree.
Depths(a) ==
  LET depths[x \in DOMAIN heap] ==
        IF heap[x].is_leaf THEN {0}
        ELSE {d + 1 : d \in UNION {depths[c] : c \in ToSet(heap[x].children)}}
  IN  depths[a]

Ascending(ks) == \A i, j \in DOMAIN ks : i < j => ks[i] < ks[j]

\* The keys under each child lie between the separators on its two sides.
Separates(a) ==
  LET n == heap[a]
  IN  \A i \in DOMAIN n.children : \A k \in KeysUnder(n.children[i]) :
        /\ i > 1 => n.keys[i - 1] <= k
        /\ i <= Len(n.keys) => k < n.keys[i]

(***************************************************************************)
(* After every insert that did not run out of memory the tree is a B+      *)
(* tree: sorted nodes that fit BPTREE_MAX_KEYS, none empty, one child more *)
(* than keys, separators that separate, all leaves equally deep            *)
(* (insert_into_leaf, insert_into_internal and the root growth together).  *)
(***************************************************************************)
TreeShape ==
  state = "good" /\ root # Null =>
    /\ Cardinality(Depths(root)) = 1
    /\ \A a \in Owned(heap, root) :
         /\ Ascending(heap[a].keys)
         /\ Len(heap[a].keys) \in 1 .. MaxKeys
         /\ IF heap[a].is_leaf
            THEN Len(heap[a].values) = Len(heap[a].keys)
            ELSE Len(heap[a].children) = Len(heap[a].keys) + 1 /\ Separates(a)

(***************************************************************************)
(* The next links run through the leaves from left to right and end there: *)
(* what the comment on BPlusTreeNode.next promises a range scan.           *)
(***************************************************************************)
LeafChain ==
  state = "good" /\ root # Null =>
    LET ls == Leaves(root)
    IN  \A i \in DOMAIN ls :
          heap[ls[i]].next = IF i = Len(ls) THEN Null ELSE ls[i + 1]

(***************************************************************************)
(* free_node is safe at any time, also on the tree an insert left when it  *)
(* ran out of memory half-way: every pointer it follows is to an allocated *)
(* node, and it comes to each node once.                                   *)
(***************************************************************************)
FreeSafe ==
  root # Null =>
    LET owned == Owned(heap, root)
    IN  /\ \A a \in owned : ToSet(heap[a].children) \subseteq DOMAIN heap \ {root}
        /\ \A a, b \in owned : \A i \in DOMAIN heap[a].children :
             \A j \in DOMAIN heap[b].children :
               heap[a].children[i] = heap[b].children[j] => a = b /\ i = j

SearchMap ==
  [k \in {j \in Keys : state = "good" /\ bptree_search(j) # {}} |->
     CHOOSE v \in bptree_search(k) : TRUE]

Map == INSTANCE IndexMap WITH map <- SearchMap

(***************************************************************************)
(* What bptree_search answers is exactly what the successful inserts put   *)
(* in, and a key that is there is refused with the tree unchanged: the     *)
(* tree implements the map that table_index.c takes it for.                *)
(***************************************************************************)
RefinesMap == Map!Spec
=============================================================================
