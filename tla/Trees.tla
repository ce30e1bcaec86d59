-------------------------------- MODULE Trees --------------------------------
(***************************************************************************)
(* SkipList of util/skiplist.h with one writer beside a reader,            *)
(* SplayTree of util/splay_tree.h and the tree of util/radix_tree.cpp.     *)
(* rep is the structure, model the set or map its clients believe in.      *)
(***************************************************************************)
EXTENDS Integers, FiniteSets, TLC, FiniteSetsExt, SequencesExt, Functions

CONSTANTS
  Max1,         \* the keys are 1 .. Max1
  MaxHeight,    \* kMaxHeight_ of a skip list
  Shift,        \* RADIX_TREE_MAP_SHIFT
  IntBits,      \* the bits of an int32_t
  Indexes       \* the indexes used with a radix tree

TreeAssumption ==
  {Max1, MaxHeight, Shift, IntBits} \subseteq Nat \ {0} /\ Indexes \subseteq 0 .. 2 ^ (IntBits - 1) - 1

VARIABLES rep, model

vars == <<rep, model>>

Keys == 1 .. Max1
Null == 0

-----------------------------------------------------------------------------
(* SkipList.  A node is its key; the head is -1.  The writer links a node  *)
(* level by level, each store a step, while a reader walks.                *)

Head1 == -1
Levels == 0 .. MaxHeight - 1
KeyIsAfterNode(key, n) == n # Null /\ (n = Head1 \/ n < key)

SkipInit ==
  /\ rep = [next |-> [l \in Levels |-> [n \in Keys \cup {Head1} |-> Null]], height |-> 1,
            prev |-> [l \in Levels |-> Head1], prev_height |-> 1,
            ins |-> <<>>,      \* what the writer does: the node, its height, the next level
            read |-> <<>>]     \* a reader: kind of search, key, node, level, bound
  /\ model = [in |-> {}, before |-> {}, got |-> <<>>]

\* The body of the loop of FindLessThan; c.done is the end of it.
LessThanStep(s, key, c) ==
  LET next == s.next[c.level][c.x] IN
  CASE next # c.bound /\ KeyIsAfterNode(key, next) -> [c EXCEPT !.x = next]
    [] ~(next # c.bound /\ KeyIsAfterNode(key, next)) /\ c.level > 0 ->
         [c EXCEPT !.prev[c.level] = c.x, !.bound = next, !.level = @ - 1]
    [] OTHER -> [c EXCEPT !.prev[0] = c.x, !.done = TRUE]

FindLessThan(s, key) ==
  FoldLeft(LAMBDA c, i : IF c.done THEN c ELSE LessThanStep(s, key, c),
           [x |-> Head1, level |-> s.height - 1, bound |-> Null, prev |-> s.prev, done |-> FALSE],
           [i \in 1 .. Max1 + MaxHeight + 1 |-> i]).prev

\* prev_ stays valid for a key that goes behind the node inserted last.
Sequential(s, key) ==
  ~KeyIsAfterNode(key, s.next[0][s.prev[0]]) /\ KeyIsAfterNode(key, s.prev[0])
\* fault: prev_ is filled up to the height of the list only
PrevStale(s, key) ==
  IF Sequential(s, key) THEN s.prev ELSE FindLessThan(s, key)
Prev(s, key) ==
  IF Sequential(s, key)
  THEN [l \in Levels |-> IF l < s.prev_height THEN s.prev[0] ELSE s.prev[l]]
  ELSE FindLessThan(s, key)

SkipInsert(key, height) ==
  LET prev == Prev(rep, key) IN
  /\ rep.ins = <<>> /\ key \notin model.in
  /\ rep' = [rep EXCEPT !.prev = [l \in Levels |-> IF l >= rep.height /\ l < height THEN Head1
                                                    ELSE prev[l]],
                        !.height = Max({@, height}), !.ins = <<key, height, 0>>]
  /\ UNCHANGED model

\* x's next is set, then the node before points to x.
SkipLink ==
  LET x == rep.ins[1]
      l == rep.ins[3]
      p == rep.prev[l]
      last == l + 1 = rep.ins[2]
  IN /\ rep.ins # <<>>
     /\ rep' = [rep EXCEPT
          !.next[l] = [@ EXCEPT ![x] = rep.next[l][p], ![p] = x],
          !.ins = IF last THEN <<>> ELSE [@ EXCEPT ![3] = l + 1],
          !.prev[0] = IF last THEN x ELSE @,
          !.prev_height = IF last THEN rep.ins[2] ELSE @]
     /\ model' = IF l = 0 THEN [model EXCEPT !.in = @ \cup {x}] ELSE model

\* Contains, Seek, Prev and SeekToLast begin at the head with the height of now.
SkipSeek(kind, key) ==
  /\ rep.read = <<>>
  /\ rep' = [rep EXCEPT !.read = <<kind, key, [x |-> Head1, level |-> rep.height - 1, bound |-> Null,
                                               prev |-> [l \in Levels |-> Head1], done |-> FALSE]>>]
  /\ model' = [model EXCEPT !.before = model.in, !.got = <<>>]

\* The body of the loop of FindGreaterOrEqual.
GreaterStep(key, c) ==
  LET next == rep.next[c.level][c.x]
      bigger == next = Null \/ next = c.bound \/ next > key
  IN CASE next # Null /\ next = key /\ ~(next = c.bound) -> [c EXCEPT !.x = next, !.done = TRUE]
       [] bigger /\ c.level = 0 -> [c EXCEPT !.x = next, !.done = TRUE]
       [] bigger /\ c.level > 0 -> [c EXCEPT !.bound = next, !.level = @ - 1]
       [] OTHER -> [c EXCEPT !.x = next]

\* The body of the loop of FindLast.
LastStep(c) ==
  LET next == rep.next[c.level][c.x] IN
  CASE next # Null -> [c EXCEPT !.x = next]
    [] next = Null /\ c.level > 0 -> [c EXCEPT !.level = @ - 1]
    [] OTHER -> [c EXCEPT !.done = TRUE]

SkipRead ==
  LET r == rep.read
      c == CASE r[1] = "ge" -> GreaterStep(r[2], r[3])
             [] r[1] = "lt" -> LessThanStep(rep, r[2], r[3])
             [] r[1] = "last" -> LastStep(r[3])
  IN /\ r # <<>>
     /\ rep' = [rep EXCEPT !.read = IF c.done THEN <<>> ELSE <<r[1], r[2], c>>]
     /\ model' = IF c.done THEN [model EXCEPT !.got = <<r[1], r[2], c.x>>] ELSE model

SkipNext ==
  \/ \E key \in Keys, height \in 1 .. MaxHeight : SkipInsert(key, height)
  \/ SkipLink \/ SkipRead
  \/ \E kind \in {"ge", "lt", "last"}, key \in Keys : SkipSeek(kind, key)

-----------------------------------------------------------------------------
(* SplayTree, in a debug build: insert looks its key up in an assertion.   *)

SplayInit ==
  /\ rep = [root |-> Null, left |-> [n \in Keys |-> Null], right |-> [n \in Keys |-> Null],
            parent |-> [n \in Keys |-> Null]]
  /\ model = {}

lookup(s, k) ==
  FoldLeft(LAMBDA n, i : LET child == IF k < n THEN s.left[n] ELSE s.right[n] IN
             IF k = n \/ child = Null THEN n ELSE child,
           s.root, [i \in 1 .. Max1 |-> i])

SetParent(s, n, p) == IF n = Null THEN s ELSE [s EXCEPT !.parent[n] = p]
Adopt(s, g, old, n) ==
  CASE g = Null -> [s EXCEPT !.root = n]
    [] g # Null /\ s.left[g] = old -> [s EXCEPT !.left[g] = n]
    [] OTHER -> [s EXCEPT !.right[g] = n]

RotateUnder(s, n, p, g) ==
  LET t == IF s.left[p] = n
           THEN SetParent([s EXCEPT !.left[p] = s.right[n], !.right[n] = p], s.right[n], p)
           ELSE SetParent([s EXCEPT !.right[p] = s.left[n], !.left[n] = p], s.left[n], p)
  IN Adopt([t EXCEPT !.parent[n] = g, !.parent[p] = n], g, p, n)
rotate(s, n) == RotateUnder(s, n, s.parent[n], s.parent[s.parent[n]])

\* One round of splay for the node n with parent p and grandparent g; a zig-zig
\* turns the parent first.
SplayRound(t, n, p, g) ==
  CASE n = t.root -> t
    [] n # t.root /\ p = t.root -> rotate(t, n)
    [] OTHER -> rotate(rotate(t, IF (t.left[p] = n) = (t.left[g] = p) THEN p ELSE n), n)
splay(s, n) ==
  FoldLeft(LAMBDA t, i : SplayRound(t, n, t.parent[n], t.parent[t.parent[n]]), s, [i \in 1 .. Max1 |-> i])

find(s, k) == IF s.root = Null THEN s ELSE splay(s, lookup(s, k))

finishInsertion(s, last, n) ==
  splay([s EXCEPT !.left[last] = IF n < last THEN n ELSE @, !.right[last] = IF n < last THEN @ ELSE n,
                  !.left[n] = Null, !.right[n] = Null, !.parent[n] = last], n)

SplayFind(k) == rep' = find(rep, k) /\ UNCHANGED model

\* insert of a new node, and findOrInsert, which does not splay what it finds
InsertInto(s, k) ==
  IF s.root = Null
  THEN [s EXCEPT !.root = k, !.left[k] = Null, !.right[k] = Null, !.parent[k] = Null]
  ELSE finishInsertion(s, lookup(s, k), k)
SplayInsert(k, checked) ==
  /\ k \notin model
  /\ rep' = InsertInto(IF checked THEN find(rep, k) ELSE rep, k)
  /\ model' = model \cup {k}

Deepest(child, n) == FoldLeft(LAMBDA m, i : IF child[m] = Null THEN m ELSE child[m], n,
                              [i \in 1 .. Max1 |-> i])

\* The node swap, taken out of its place, gets that of the root k.
TakeOut(t, swap, child) == SetParent(Adopt(t, t.parent[swap], swap, child), child, t.parent[swap])
PutAtRoot(u, swap, k) ==
  SetParent(SetParent([u EXCEPT !.root = swap, !.parent[swap] = Null, !.left[swap] = u.left[k], !.right[swap] = u.right[k]],
                      u.left[k], swap), u.right[k], swap)
SwapRoot(t, k, swap, child) == PutAtRoot(TakeOut(t, swap, child), swap, k)
RemoveRoot(t, k) ==
  LET before == Deepest(t.right, t.left[k])
      after == Deepest(t.left, t.right[k])
  IN CASE t.left[k] # Null -> SwapRoot(t, k, before, t.left[before])
       [] t.left[k] = Null /\ t.right[k] # Null -> SwapRoot(t, k, after, t.right[after])
       [] OTHER -> [t EXCEPT !.root = Null]
remove(s, k) == RemoveRoot(splay(s, k), k)

SplayRemove(k) == k \in model /\ rep' = remove(rep, k) /\ model' = model \ {k}
SplayRemoveMin ==
  LET min == Deepest(rep.left, rep.root) IN
  /\ rep.root # Null
  /\ rep' = remove(rep, min) /\ model' = model \ {Min(model)}

SplayNext ==
  \/ \E k \in Keys : SplayFind(k) \/ SplayRemove(k)
  \/ \E k \in Keys, checked \in BOOLEAN : SplayInsert(k, checked)
  \/ SplayRemoveMin

-----------------------------------------------------------------------------
(* The radix tree.  The node <<h, p>> at height h above the leaves holds   *)
(* the indexes that begin with p; a slot holds an item, or 1 for the node  *)
(* below.  Memory from malloc is zero here, as the code takes for granted. *)

RADIX_TREE_MAX_HEIGHT == (IntBits + Shift - 1) \div Shift

\* The shift wraps at the width of an int, as the instruction does.
radix_max(t) == 2 ^ ((t.height * Shift) % IntBits) - 1
radix_pos(id, height) == (id \div 2 ^ (Shift * height)) % 2 ^ Shift

NodeAt(id, height) == <<height, id \div 2 ^ (Shift * (height + 1))>>
EmptyNode == [slots |-> [i \in 0 .. 2 ^ Shift - 1 |-> 0], count |-> 0]
EmptyTree == [nodes |-> <<>>, height |-> 0]
Root1(t) == <<t.height - 1, 0>>
Path(t, index) == {h \in 0 .. t.height - 1 : NodeAt(index, h) \in DOMAIN t.nodes}

RadixInit == rep = EmptyTree /\ model = [i \in Indexes |-> 0]

radix_tree_lookup(t, index) ==
  IF index > radix_max(t) \/ 0 \notin Path(t, index) THEN 0
  ELSE t.nodes[NodeAt(index, 0)].slots[radix_pos(index, 0)]

\* One slot of the node on the path to index is set or cleared.
SetSlot(t, index, h, v) ==
  [t EXCEPT !.nodes[NodeAt(index, h)] =
     [@ EXCEPT !.slots[radix_pos(index, h)] = v, !.count = @ + (IF v = 0 THEN -1 ELSE 1)]]

\* fault: emptied nodes are kept
KeepNode(t, index, h) == t
FreeNode(t, index, h) ==
  IF NodeAt(index, h) = Root1(t) THEN EmptyTree
  ELSE [t EXCEPT !.nodes = Restrict(@, DOMAIN @ \ {NodeAt(index, h)})]

radix_tree_delete(index) ==
  LET up == FoldLeft(LAMBDA c, h :
              IF c.done THEN c
              ELSE LET t == SetSlot(c.t, index, h, 0) IN
                   IF t.nodes[NodeAt(index, h)].count > 0 THEN [t |-> t, done |-> TRUE]
                   ELSE [t |-> FreeNode(t, index, h), done |-> h = t.height - 1],
              [t |-> rep, done |-> FALSE], [i \in 1 .. rep.height |-> i - 1])
  IN IF radix_tree_lookup(rep, index) = 0 THEN UNCHANGED vars
     ELSE rep' = up.t /\ model' = [model EXCEPT ![index] = 0]

\* One round of the loop that makes the tree higher; left is the number of
\* allocations that will still succeed.
Expand(c, index) ==
  LET t == c.t
      root == t.nodes[Root1(t)]
  IN CASE c.err # "" \/ radix_max(t) >= index -> c
       [] t.height = RADIX_TREE_MAX_HEIGHT -> [c EXCEPT !.err = "E2BIG"]
       [] root.count # 0 /\ c.left = 0 -> [c EXCEPT !.err = "ENOMEM"]
       [] root.count # 0 /\ c.left > 0 ->
            [c EXCEPT !.left = @ - 1, !.t.height = @ + 1,
               !.t.nodes = (<<t.height, 0>> :> [slots |-> [EmptyNode.slots EXCEPT ![0] = 1], count |-> 1]) @@ @]
       [] OTHER -> [c EXCEPT !.t = [nodes |-> <<t.height, 0>> :> EmptyNode, height |-> t.height + 1]]

\* The levels below the first missing node are allocated, then linked.
Fill(c, index, item) ==
  LET t == c.t
      h == Max({i \in Path(t, index) : i = 0 \/ t.nodes[NodeAt(index, i)].slots[radix_pos(index, i)] = 0})
      below == [i \in 1 .. h |-> h + 1 - i]
      linked == FoldLeft(LAMBDA u, i :
                  [SetSlot(u, index, i, 1) EXCEPT !.nodes = (NodeAt(index, i - 1) :> EmptyNode) @@ @], t, below)
  IN CASE c.left < h /\ t.nodes[Root1(t)].count = 0 -> [t |-> EmptyTree, err |-> "ENOMEM"]
       [] c.left < h /\ t.nodes[Root1(t)].count # 0 -> [t |-> t, err |-> "ENOMEM"]
       [] c.left >= h /\ linked.nodes[NodeAt(index, 0)].slots[radix_pos(index, 0)] # 0 ->
            [t |-> linked, err |-> "EEXIST"]
       [] OTHER -> [t |-> SetSlot(linked, index, 0, item), err |-> ""]

radix_tree_insert(index, item, left) ==
  LET t == IF rep.height > 0 THEN rep ELSE [nodes |-> <<0, 0>> :> EmptyNode, height |-> 1]
      c == FoldLeft(LAMBDA d, i : Expand(d, index),
             [t |-> t, left |-> IF rep.height > 0 THEN left ELSE left - 1, err |-> ""],
             [i \in 1 .. RADIX_TREE_MAX_HEIGHT + 1 |-> i])
      done == IF c.err # "" THEN c ELSE Fill(c, index, item)
  IN /\ rep.height > 0 \/ left > 0
     /\ rep' = done.t
     /\ model' = IF done.err = "" THEN [model EXCEPT ![index] = item] ELSE model

RadixNext ==
  \/ \E index \in Indexes : radix_tree_delete(index)
  \/ \E index \in Indexes, item \in 1 .. 2, left \in 0 .. RADIX_TREE_MAX_HEIGHT :
       radix_tree_insert(index, item, left)

-----------------------------------------------------------------------------
(* Properties.                                                             *)

Reachable1(l) ==
  LET Walk == FoldLeft(LAMBDA c, i : IF rep.next[l][c[1]] = Null THEN c
                                     ELSE <<rep.next[l][c[1]], c[2] \cup {rep.next[l][c[1]]}>>,
                       <<Head1, {}>>, [i \in 1 .. Max1 |-> i])
  IN Walk[2]

\* Between any two stores of the writer the lists of all levels are sorted and
\* each holds nodes of the list below only, the lowest one exactly the inserted
\* nodes; prev_ is a node before the next insertion at every level that
\* the shortcut for sequential insertion will read.
SkipListsNested ==
  /\ Reachable1(0) = model.in
  /\ \A l \in Levels \ {0} : Reachable1(l) \subseteq Reachable1(l - 1)
  /\ \A l \in Levels, n \in Keys : n \in Reachable1(l) /\ rep.next[l][n] # Null => rep.next[l][n] > n
  /\ rep.ins = <<>> =>
       \A l \in Levels : rep.prev[l] # Head1 => rep.prev[l] \in Reachable1(l) \cup Reachable1(0)

\* A reader that takes no lock finds no node that is not there and misses none
\* that was in the list when its search began.
ReadersExact ==
  model.got = <<>> \/
  LET kind == model.got[1]
      key == model.got[2]
      x == model.got[3]
  IN CASE kind = "ge" -> /\ x = Null \/ (x \in model.in /\ x >= key)
                         /\ \A k \in model.before : k >= key => x # Null /\ x <= k
       [] kind = "lt" -> /\ x = Head1 \/ (x \in model.in /\ x < key)
                         /\ \A k \in model.before : k < key => x >= k
       [] kind = "last" -> /\ x = Head1 \/ x \in model.in
                           /\ \A k \in model.before : x >= k

Below(n) == FoldLeft(LAMBDA c, i : c \cup (({rep.left[m] : m \in c} \cup {rep.right[m] : m \in c}) \ {Null}),
                     {n} \ {Null}, [i \in 1 .. Max1 |-> i])

\* The nodes under the root are the inserted ones; each node has smaller nodes
\* to its left, greater ones to its right and the right parent
\* (checkCoherency), whatever the sequence of rotations.
SplayCoherent ==
  /\ Below(rep.root) = model
  /\ rep.root # Null => rep.parent[rep.root] = Null
  /\ \A n \in model :
       /\ \A m \in Below(rep.left[n]) : m < n
       /\ \A m \in Below(rep.right[n]) : m > n
       /\ rep.left[n] # Null => rep.parent[rep.left[n]] = n
       /\ rep.right[n] # Null => rep.parent[rep.right[n]] = n

\* As long as the tree is not so high that the shift in radix_max overflows, a
\* lookup finds what was inserted, failed allocations notwithstanding; counts
\* are exact and no node stays without an entry but a root.
RadixExact ==
  rep.height < RADIX_TREE_MAX_HEIGHT =>
    /\ \A i \in Indexes : radix_tree_lookup(rep, i) = model[i]
    /\ \A id \in DOMAIN rep.nodes :
         /\ rep.nodes[id].count = Cardinality({s \in DOMAIN rep.nodes[id].slots : rep.nodes[id].slots[s] # 0})
         /\ rep.nodes[id].count = 0 => id = Root1(rep)
=============================================================================
