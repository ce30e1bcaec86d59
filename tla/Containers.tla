----------------------------- MODULE Containers ------------------------------
(***************************************************************************)
(* The lists of util/list_util, the small containers of                    *)
(* util/small_container and the caches of util/cache.h that are not        *)
(* thread safe.  rep is the representation, model what the client expects. *)
(***************************************************************************)
EXTENDS Integers, Sequences, FiniteSets, SequencesExt, Functions, TLC

CONSTANTS
  MaxNode,   \* the list nodes are 1 .. MaxNode
  N,         \* the size of the fixed part of the small containers
  MaxLen,    \* bound on the elements of a small container
  Vals,      \* the elements, a set of positive integers
  MaxSizet   \* kMaxSizet

ContainerAssumption ==
  /\ {MaxNode, N, MaxLen} \subseteq Nat \ {0} /\ Vals \subseteq Nat \ {0} /\ MaxSizet \in Nat

VARIABLES rep, model

vars == <<rep, model>>

Nodes == 1 .. MaxNode
Null == 0

\* The elements met from a node on, along the links of next, up to stop.
Follow(next, from, stop) ==
  FoldLeft(LAMBDA c, i : IF c[1] = stop THEN c ELSE <<next[c[1]], Append(c[2], c[1])>>,
           <<from, <<>>>>, [i \in 1 .. MaxNode + 1 |-> i])[2]

-----------------------------------------------------------------------------
(* list_head.  Heads are -1 and -2; a node outside of any list is poisoned *)
(* or stale.  A head is usable unless its entries have been spliced away.  *)

Heads == {-2, -1}
LIST_POISON1 == -3
LIST_POISON2 == -4

ListInit ==
  /\ rep = [next |-> [x \in Heads \cup Nodes |-> IF x \in Heads THEN x ELSE LIST_POISON1],
            prev |-> [x \in Heads \cup Nodes |-> IF x \in Heads THEN x ELSE LIST_POISON2],
            iter |-> <<>>]     \* list_for_each_safe: the head, pos and n
  /\ model = [lists |-> [h \in Heads |-> <<>>], usable |-> Heads, seen |-> <<>>, start |-> <<>>]

Free1 == Nodes \ UNION {Range(model.lists[h]) : h \in Heads}

Link(s, a, b) == [s EXCEPT !.next[a] = b, !.prev[b] = a]
list_init(s, x) == Link(s, x, x)
__list_add(s, x, prev, next) == Link(Link(s, prev, x), x, next)
__list_del_entry(s, x) == Link(s, s.prev[x], s.next[x])
Poison(s, x) == [s EXCEPT !.next[x] = LIST_POISON1, !.prev[x] = LIST_POISON2]
list_replace(s, old, x) ==
  LET t == Link(s, x, s.next[old]) IN Link(t, t.prev[old], x)
list_empty(s, h) == s.next[h] = h
Splice(s, list, prev, next) ==
  IF list_empty(s, list) THEN s
  ELSE Link(Link(s, prev, s.next[list]), s.prev[list], next)

SetLists(h, seq) == model' = [model EXCEPT !.lists[h] = seq]
Idle1 == rep.iter = <<>>

list_add(x, h, tail) ==
  /\ Idle1 /\ x \in Free1 /\ h \in model.usable
  /\ rep' = IF tail THEN __list_add(rep, x, rep.prev[h], h) ELSE __list_add(rep, x, h, rep.next[h])
  /\ SetLists(h, IF tail THEN Append(model.lists[h], x) ELSE <<x>> \o model.lists[h])

list_del(x, h, reinit) ==
  /\ Idle1 /\ Contains(model.lists[h], x)
  /\ rep' = IF reinit THEN list_init(__list_del_entry(rep, x), x) ELSE Poison(__list_del_entry(rep, x), x)
  /\ SetLists(h, Remove(model.lists[h], x))

ReplaceEntry(old, x, h, reinit) ==
  /\ Idle1 /\ Contains(model.lists[h], old) /\ x \in Free1
  /\ rep' = IF reinit THEN list_init(list_replace(rep, old, x), old) ELSE list_replace(rep, old, x)
  /\ SetLists(h, [i \in DOMAIN model.lists[h] |-> IF model.lists[h][i] = old THEN x ELSE model.lists[h][i]])

list_move(x, h, to, tail) ==
  LET t == __list_del_entry(rep, x)
      from == [model.lists EXCEPT ![h] = Remove(@, x)]
  IN /\ Idle1 /\ Contains(model.lists[h], x) /\ to \in model.usable
     /\ rep' = IF tail THEN __list_add(t, x, t.prev[to], to) ELSE __list_add(t, x, to, t.next[to])
     /\ model' = [model EXCEPT !.lists = [from EXCEPT ![to] = IF tail THEN Append(@, x) ELSE <<x>> \o @]]

list_rotate_left(h) ==
  LET x == rep.next[h]
      t == __list_del_entry(rep, x)
  IN /\ Idle1 /\ h \in model.usable /\ ~list_empty(rep, h)
     /\ rep' = __list_add(t, x, t.prev[h], h)
     /\ SetLists(h, Tail(model.lists[h]) \o <<Head(model.lists[h])>>)

\* new_list takes the place of list, whatever it held.
list_movelist(list, new) ==
  LET t == Link(Link(rep, rep.prev[list], new), new, rep.next[list]) IN
  /\ Idle1 /\ list # new /\ list \in model.usable /\ model.lists[new] = <<>>
  /\ rep' = IF list_empty(rep, list) THEN list_init(rep, new) ELSE list_init(t, list)
  /\ model' = [model EXCEPT !.lists[list] = <<>>, !.lists[new] = model.lists[list], !.usable = Heads]

\* list_splice and list_splice_tail, their _init forms, and list_join
list_splice(list, h, tail, reinit) ==
  LET t == IF tail THEN Splice(rep, list, rep.prev[h], h) ELSE Splice(rep, list, h, rep.next[h])
      empty == list_empty(rep, list)
  IN /\ Idle1 /\ list # h /\ {list, h} \subseteq model.usable
     /\ rep' = IF reinit /\ ~empty THEN list_init(t, list) ELSE t
     /\ model' = [model EXCEPT
          !.lists = [@ EXCEPT ![list] = <<>>, ![h] = IF tail THEN @ \o model.lists[list] ELSE model.lists[list] \o @],
          !.usable = IF reinit \/ empty THEN @ ELSE @ \ {list}]

Reinit1(h) ==
  /\ Idle1 /\ model.lists[h] = <<>>
  /\ rep' = list_init(rep, h) /\ model' = [model EXCEPT !.usable = @ \cup {h}]

list_cut_position(list, h, x) ==
  LET t == Link(Link(Link(rep, list, rep.next[h]), x, list), h, rep.next[x])
      at == IF x = h THEN 0 ELSE CHOOSE i \in DOMAIN model.lists[h] : model.lists[h][i] = x
      early == list_empty(rep, h)
  IN /\ Idle1 /\ list # h /\ h \in model.usable /\ model.lists[list] = <<>>
     /\ x = h \/ Contains(model.lists[h], x)
     /\ rep' = IF early THEN rep ELSE IF x = h THEN list_init(rep, list) ELSE t
     /\ model' = IF early THEN model
                 ELSE [model EXCEPT !.lists = [@ EXCEPT ![list] = SubSeq(model.lists[h], 1, at),
                                                        ![h] = SubSeq(@, at + 1, Len(@))],
                                    !.usable = Heads]

\* list_for_each_safe and its kin: pos is the current node, n the saved one;
\* the body may take pos out of the list.
ForEachBegin(h) ==
  /\ Idle1 /\ h \in model.usable
  /\ rep' = [rep EXCEPT !.iter = <<h, rep.next[h], rep.next[rep.next[h]]>>]
  /\ model' = [model EXCEPT !.seen = <<>>, !.start = model.lists[h]]
ForEachBody(delete) ==
  LET h == rep.iter[1]
      pos == rep.iter[2]
      t == IF delete THEN Poison(__list_del_entry(rep, pos), pos) ELSE rep
  IN /\ rep.iter # <<>> /\ pos # h
     /\ rep' = [t EXCEPT !.iter = <<h, rep.iter[3], t.next[rep.iter[3]]>>]
     /\ model' = [model EXCEPT !.seen = Append(@, pos), !.lists[h] = IF delete THEN Remove(@, pos) ELSE @]
ForEachEnd ==
  /\ rep.iter # <<>> /\ rep.iter[2] = rep.iter[1]
  /\ rep' = [rep EXCEPT !.iter = <<>>] /\ model' = [model EXCEPT !.seen = <<>>, !.start = <<>>]

ListNext ==
  \/ \E x \in Nodes, h \in Heads, b \in BOOLEAN :
       \/ list_add(x, h, b) \/ list_del(x, h, b)
       \/ \E to \in Heads : list_move(x, h, to, b)
       \/ \E old \in Nodes : ReplaceEntry(old, x, h, b)
  \/ \E h \in Heads :
       \/ list_rotate_left(h) \/ Reinit1(h) \/ ForEachBegin(h)
       \/ \E list \in Heads :
            \/ list_movelist(list, h)
            \/ \E tail, reinit \in BOOLEAN : list_splice(list, h, tail, reinit)
            \/ \E x \in Nodes \cup {h} : list_cut_position(list, h, x)
  \/ \E delete \in BOOLEAN : ForEachBody(delete)
  \/ ForEachEnd

-----------------------------------------------------------------------------
(* hlist.  pprev is the address of a pointer: a head, or a node for the    *)
(* next of that node.                                                      *)

HListInit ==
  /\ rep = [next |-> [x \in Nodes |-> Null], pprev |-> [x \in Nodes |-> Null],
            first |-> [h \in Heads |-> Null]]
  /\ model = [h \in Heads |-> <<>>]

Unlisted == Nodes \ UNION {Range(model[h]) : h \in Heads}
Store(s, addr, x) == IF addr \in Heads THEN [s EXCEPT !.first[addr] = x] ELSE [s EXCEPT !.next[addr] = x]
SetPprev(s, x, addr) == IF x = Null THEN s ELSE [s EXCEPT !.pprev[x] = addr]
hlist_unhashed(x) == rep.pprev[x] = Null
__hlist_del(s, x) == SetPprev(Store(s, s.pprev[x], s.next[x]), s.next[x], s.pprev[x])

hlist_add_head(x, h) ==
  LET first == rep.first[h] IN
  /\ x \in Unlisted
  /\ rep' = SetPprev(Store(SetPprev([rep EXCEPT !.next[x] = first], first, x), h, x), x, h)
  /\ model' = [model EXCEPT ![h] = <<x>> \o @]

InsertAt1(h, i, x) == model' = [model EXCEPT ![h] = InsertAt(@, i, x)]
IndexOf(seq, x) == CHOOSE i \in DOMAIN seq : seq[i] = x

hlist_add_before(x, next, h) ==
  LET p == rep.pprev[next] IN
  /\ x \in Unlisted /\ Contains(model[h], next)
  /\ rep' = Store([rep EXCEPT !.pprev = [@ EXCEPT ![x] = p, ![next] = x], !.next[x] = next], p, x)
  /\ InsertAt1(h, IndexOf(model[h], next), x)

hlist_add_behind(x, prev, h) ==
  /\ x \in Unlisted /\ Contains(model[h], prev)
  /\ rep' = SetPprev([rep EXCEPT !.next = [@ EXCEPT ![x] = rep.next[prev], ![prev] = x], !.pprev[x] = prev],
                     rep.next[prev], x)
  /\ InsertAt1(h, IndexOf(model[h], prev) + 1, x)

\* hlist_del poisons the node, hlist_del_init clears it, if it is on a list.
hlist_del(x, h) ==
  /\ Contains(model[h], x)
  /\ rep' = [__hlist_del(rep, x) EXCEPT !.next[x] = LIST_POISON1, !.pprev[x] = LIST_POISON2]
  /\ model' = [model EXCEPT ![h] = Remove(@, x)]
hlist_del_init(x) ==
  /\ x \in Unlisted => rep.pprev[x] \in {Null, x}
  /\ rep' = IF hlist_unhashed(x) THEN rep
            ELSE [__hlist_del(rep, x) EXCEPT !.next[x] = Null, !.pprev[x] = Null]
  /\ model' = [h \in Heads |-> Remove(model[h], x)]

\* A node that is on no list gets a pprev with which hlist_del works.
hlist_add_fake(x) ==
  /\ x \in Unlisted /\ hlist_unhashed(x)
  /\ rep' = [rep EXCEPT !.pprev[x] = x] /\ UNCHANGED model

hlist_move_list(old, new) ==
  LET first == rep.first[old] IN
  /\ old # new /\ model[new] = <<>>
  /\ rep' = [SetPprev(rep, first, new) EXCEPT !.first = [@ EXCEPT ![new] = first, ![old] = Null]]
  /\ model' = [model EXCEPT ![new] = model[old], ![old] = <<>>]

HListNext ==
  \/ \E x \in Nodes, h \in Heads :
       \/ hlist_add_head(x, h) \/ hlist_del(x, h)
       \/ \E y \in Nodes : hlist_add_before(x, y, h) \/ hlist_add_behind(x, y, h)
  \/ \E x \in Nodes : hlist_del_init(x) \/ hlist_add_fake(x)
  \/ \E old, new \in Heads : hlist_move_list(old, new)

-----------------------------------------------------------------------------
(* Adlist.  Two lists, a and b, and one iterator on a; live is the nodes   *)
(* that are allocated, and malloc fails when none is left.                 *)

EmptyAdlist == [head |-> Null, tail |-> Null, len |-> 0]
AdlistInit ==
  /\ rep = [a |-> EmptyAdlist, b |-> EmptyAdlist, live |-> {}, iter |-> <<>>,
            next |-> [x \in Nodes |-> Null], prev |-> [x \in Nodes |-> Null]]
  /\ model = [a |-> <<>>, b |-> <<>>, ahead |-> <<>>]   \* ahead: what the iterator has to visit

malloc == IF rep.live = Nodes THEN {} ELSE {CHOOSE x \in Nodes : x \notin rep.live}
SetNext(s, x, y) == IF x = Null THEN s ELSE [s EXCEPT !.next[x] = y]
SetPrev(s, x, y) == IF x = Null THEN s ELSE [s EXCEPT !.prev[x] = y]
\* x is made a node of list a between prev and next; Null is an end.
Insert1(s, x, prev, next) ==
  LET t == SetPrev(SetNext([s EXCEPT !.next[x] = next, !.prev[x] = prev, !.live = @ \cup {x}], prev, x), next, x)
  IN [t EXCEPT !.a = [head |-> IF prev = Null THEN x ELSE @.head, tail |-> IF next = Null THEN x ELSE @.tail,
                      len |-> @.len + 1]]

AdlistAddNode(tail) ==
  \E x \in malloc :
    /\ rep' = IF tail THEN Insert1(rep, x, rep.a.tail, Null) ELSE Insert1(rep, x, Null, rep.a.head)
    /\ model' = [model EXCEPT !.a = IF tail THEN Append(@, x) ELSE <<x>> \o @,
                              !.ahead = IF tail /\ rep.iter # <<>> /\ rep.iter[1] # Null THEN Append(@, x) ELSE @]
    /\ rep.iter = <<>> \/ (tail /\ rep.iter[2] = "head")
AdlistInsertNode(old, after) ==
  \E x \in malloc :
    /\ rep.iter = <<>> /\ Contains(model.a, old)
    /\ rep' = IF after THEN Insert1(rep, x, old, rep.next[old]) ELSE Insert1(rep, x, rep.prev[old], old)
    /\ model' = [model EXCEPT !.a = InsertAt(@, IndexOf(@, old) + (IF after THEN 1 ELSE 0), x)]

\* fault: the tail is left as it is
KeepTail(s, x) == s.a.tail
TailWithout(s, x) == IF s.next[x] = Null THEN s.prev[x] ELSE s.a.tail
AdlistDelNode(s, x) ==
  LET t == SetPrev(SetNext(s, s.prev[x], s.next[x]), s.next[x], s.prev[x]) IN
  [t EXCEPT !.live = @ \ {x},
            !.a = [head |-> IF s.prev[x] = Null THEN s.next[x] ELSE @.head, tail |-> TailWithout(s, x),
                   len |-> @.len - 1]]

\* While it is iterated over, only the node returned last may be deleted.
Delete1(x) ==
  /\ Contains(model.a, x) /\ (rep.iter # <<>> => rep.iter[3] = x)
  /\ rep' = [AdlistDelNode(rep, x) EXCEPT !.iter = IF @ = <<>> THEN @ ELSE <<@[1], @[2], Null>>]
  /\ model' = [model EXCEPT !.a = Remove(@, x)]

\* AdlistGetIterator, AdlistRewind and AdlistRewindTail
AdlistRewind(direction) ==
  /\ rep.iter = <<>>
  /\ rep' = [rep EXCEPT !.iter = <<IF direction = "head" THEN rep.a.head ELSE rep.a.tail, direction, Null>>]
  /\ model' = [model EXCEPT !.ahead = IF direction = "head" THEN model.a ELSE Reverse(model.a)]
AdlistNext ==
  LET x == rep.iter[1]
      y == IF x = Null THEN Null ELSE IF rep.iter[2] = "head" THEN rep.next[x] ELSE rep.prev[x]
  IN /\ rep.iter # <<>>
     /\ rep' = [rep EXCEPT !.iter = IF x = Null THEN <<>> ELSE <<y, rep.iter[2], x>>]
     /\ model' = [model EXCEPT !.ahead = IF @ = <<>> THEN @ ELSE Tail(@)]

AdlistEmpty ==
  /\ rep.iter = <<>>
  /\ rep' = [rep EXCEPT !.a = EmptyAdlist, !.live = @ \ Range(Follow(rep.next, rep.a.head, Null))]
  /\ model' = [model EXCEPT !.a = <<>>]

AdlistRotate ==
  LET tail == rep.a.tail
      newtail == rep.prev[tail]
      t == [rep EXCEPT !.next = [@ EXCEPT ![newtail] = Null, ![tail] = rep.a.head],
                       !.prev = [@ EXCEPT ![rep.a.head] = tail, ![tail] = Null],
                       !.a = [@ EXCEPT !.tail = newtail, !.head = tail]]
  IN /\ rep.iter = <<>>
     /\ rep' = IF rep.a.len <= 1 THEN rep ELSE t
     /\ model' = [model EXCEPT !.a = IF Len(@) <= 1 THEN @ ELSE <<Last(@)>> \o Front(@)]

AdlistJoin ==
  LET t == SetNext(SetPrev(rep, rep.b.head, rep.a.tail), rep.a.tail, rep.b.head) IN
  /\ rep.iter = <<>>
  /\ rep' = [t EXCEPT !.b = EmptyAdlist,
                      !.a = [head |-> IF rep.a.tail = Null THEN rep.b.head ELSE @.head,
                             tail |-> IF rep.b.tail = Null THEN @.tail ELSE rep.b.tail,
                             len |-> @.len + rep.b.len]]
  /\ model' = [model EXCEPT !.a = @ \o model.b, !.b = <<>>]

\* The copy of a becomes b; without memory for all of it, what was copied is
\* released again.  The copies have the nodes that are free, in some order.
AdlistDup ==
  LET free == SetToSeq(Nodes \ rep.live)
      s == Follow(rep.next, rep.a.head, Null)
      copy == SubSeq(free, 1, Len(s))
      t == FoldLeft(LAMBDA u, i : SetNext(SetPrev(u, copy[i], IF i = 1 THEN Null ELSE copy[i - 1]), copy[i],
                                    IF i = Len(copy) THEN Null ELSE copy[i + 1]),
                    rep, [i \in 1 .. Len(copy) |-> i])
  IN /\ rep.iter = <<>> /\ rep.b.len = 0 /\ rep.a.len > 0 /\ Len(free) >= Len(s)
     /\ rep' = [t EXCEPT !.live = @ \cup Range(copy),
                         !.b = [head |-> Head(copy), tail |-> Last(copy), len |-> Len(copy)]]
     /\ model' = [model EXCEPT !.b = copy]

AdlistIndex(i) ==
  FoldLeft(LAMBDA n, j : IF n = Null THEN n ELSE IF i < 0 THEN rep.prev[n] ELSE rep.next[n],
           IF i < 0 THEN rep.a.tail ELSE rep.a.head, [j \in 1 .. (IF i < 0 THEN -i - 1 ELSE i) |-> j])

AdlistNext1 ==
  \/ \E tail \in BOOLEAN : AdlistAddNode(tail)
  \/ \E x \in Nodes, after \in BOOLEAN : AdlistInsertNode(x, after)
  \/ \E x \in Nodes : Delete1(x)
  \/ \E direction \in {"head", "tail"} : AdlistRewind(direction)
  \/ AdlistNext \/ AdlistEmpty \/ AdlistRotate \/ AdlistJoin \/ AdlistDup

-----------------------------------------------------------------------------
(* IndexedQueue: ids in the order of addition, and a map to what they own. *)

IndexedInit ==
  \E capacity \in 0 .. N :
    rep = [capacity |-> capacity, queue |-> <<>>, map |-> {}] /\ model = <<>>

IndexedAdd(id) ==
  LET full == rep.capacity > 0 /\ Len(rep.queue) = rep.capacity
      kept == IF full THEN Tail(rep.queue) ELSE rep.queue
      map == IF full THEN rep.map \ {Head(rep.queue)} ELSE rep.map
      found == id \in rep.map
  IN /\ rep' = IF found THEN rep ELSE [rep EXCEPT !.queue = Append(kept, id), !.map = map \cup {id}]
     /\ model' = IF found THEN model ELSE <<id>>     \* what Latest has to return
IndexedNext == \E id \in Vals : IndexedAdd(id)

-----------------------------------------------------------------------------
(* SmallQueue: a ring of N, and a deque for what does not fit.             *)

SmallInit == rep = [begin |-> 0, size |-> 0, c |-> [i \in 0 .. N - 1 |-> 0], full |-> <<>>] /\ model = <<>>

\* fault: the ring is used as soon as it has room
RoomFirst(s) == FALSE
Overflowed(s) == s.full # <<>>
SmallPush(v) ==
  LET tail == (rep.begin + rep.size) % N IN
  /\ Len(model) < MaxLen
  /\ rep' = IF ~Overflowed(rep) /\ rep.size < N THEN [rep EXCEPT !.c[tail] = v, !.size = @ + 1]
            ELSE [rep EXCEPT !.full = Append(@, v)]
  /\ model' = Append(model, v)
SmallPop ==
  /\ model # <<>>
  /\ rep' = CASE rep.size > 0 -> [rep EXCEPT !.begin = IF @ + 1 >= N THEN @ + 1 - N ELSE @ + 1, !.size = @ - 1]
              [] rep.size = 0 /\ rep.full # <<>> -> [rep EXCEPT !.full = Tail(@)]
              [] OTHER -> rep
  /\ model' = Tail(model)
SmallClear == rep' = [rep EXCEPT !.begin = 0, !.size = 0, !.full = <<>>] /\ model' = <<>>
SmallNext == (\E v \in Vals : SmallPush(v)) \/ SmallPop \/ SmallClear
SmallSeq == [i \in 1 .. rep.size |-> rep.c[(rep.begin + i - 1) % N]] \o rep.full

-----------------------------------------------------------------------------
(* CharRangeFragment: disjoint ranges of keys in order.  A key is a        *)
(* number; the empty string is 0, which as an end stands for no end.       *)

Points == 0 .. MaxLen
Covered(start, end) == {p \in Points : start <= p /\ (end = 0 \/ p < end)}
CompareTwoEndKey(a, b) == IF a = b THEN 0 ELSE IF a = 0 THEN 1 ELSE IF b = 0 THEN -1 ELSE a - b

RangeInit == rep = <<>> /\ model = {}

\* The first range that does not end before start.
FirstRange(start) ==
  SelectInSeq(rep, LAMBDA r : ~(r[2] # 0 /\ start > r[2]))
Merge(s, start, end) ==
  LET it == FirstRange(start)
      swallowed == {i \in it .. Len(s) : \A j \in it .. i : end = 0 \/ end >= s[j][1]}
      last == it + Cardinality(swallowed) - 1
      new_start == IF start < s[it][1] THEN start ELSE s[it][1]
      new_end == IF swallowed = {} \/ CompareTwoEndKey(end, s[last][2]) > 0 THEN end ELSE s[last][2]
  IN SubSeq(s, 1, it - 1) \o <<<<new_start, new_end>>>> \o SubSeq(s, last + 1, Len(s))

AddToRange(start, end) ==
  /\ end = 0 \/ start <= end
  /\ rep' = IF FirstRange(start) = 0 THEN Append(rep, <<start, end>>) ELSE Merge(rep, start, end)
  /\ model' = model \cup Covered(start, end)
IsCoverRange(start, end) ==
  LET it == FirstRange(start) IN
  it # 0 /\ start >= rep[it][1] /\ CompareTwoEndKey(end, rep[it][2]) <= 0
IsCompleteRange == rep = <<<<0, 0>>>>
RangeNext == \E start, end \in Points : AddToRange(start, end)

-----------------------------------------------------------------------------
(* autovector: N elements in place, the rest in a vector.  In model 0 is   *)
(* an element nobody has given a value.                                    *)

EmptyVector == [items |-> 0, values |-> [i \in 1 .. N |-> 0], vect |-> <<>>]
VectorInit == rep = EmptyVector /\ model = <<>>
VectorSize(s) == s.items + Len(s.vect)
VectorSeq(s) == [i \in 1 .. VectorSize(s) |-> IF i <= N THEN s.values[i] ELSE s.vect[i - N]]

push_back(s, v) == IF s.items < N THEN [s EXCEPT !.items = @ + 1, !.values[s.items + 1] = v]
                   ELSE [s EXCEPT !.vect = Append(@, v)]
pop_back(s) == IF s.vect # <<>> THEN [s EXCEPT !.vect = Front(@)] ELSE [s EXCEPT !.items = @ - 1]
Sized(seq, n) == [i \in 1 .. n |-> IF i <= Len(seq) THEN seq[i] ELSE 0]
resize(s, n) == IF n > N THEN [s EXCEPT !.vect = Sized(@, n - N), !.items = N]
                ELSE [s EXCEPT !.vect = <<>>, !.items = n]

VectorNext ==
  \/ \E v \in Vals : Len(model) < MaxLen /\ rep' = push_back(rep, v) /\ model' = Append(model, v)
  \/ model # <<>> /\ rep' = pop_back(rep) /\ model' = Front(model)
  \/ \E n \in 0 .. MaxLen : rep' = resize(rep, n) /\ model' = Sized(model, n)
  \/ rep' = [rep EXCEPT !.items = 0, !.vect = <<>>] /\ model' = <<>>
  \* assign: the copy has what the original holds, and its own old values
  \/ rep' = [rep EXCEPT !.values = [i \in 1 .. N |-> IF i <= rep.items THEN rep.values[i] ELSE 0]] /\ UNCHANGED model

-----------------------------------------------------------------------------
(* SmallHashMap: N buckets of pairs; a key may be inserted more than once. *)

HashInit == rep = [b \in 0 .. N - 1 |-> <<>>] /\ model = {}
Entry(key) == SelectInSeq(rep[key % N], LAMBDA p : p[1] = key)
HashContains(key) == Entry(key) # 0
HashInsert(key, v) ==
  /\ <<key, v>> \notin model
  /\ rep' = [rep EXCEPT ![key % N] = Append(@, <<key, v>>)] /\ model' = model \cup {<<key, v>>}
HashDelete(key) ==
  LET b == rep[key % N]
      it == Entry(key)
  IN IF it = 0 THEN UNCHANGED vars
     ELSE rep' = [rep EXCEPT ![key % N] = Front([b EXCEPT ![it] = Last(b)])] /\ model' = model \ {b[it]}
HashNext == \E key \in Vals : HashDelete(key) \/ \E v \in 1 .. 2 : HashInsert(key, v)

-----------------------------------------------------------------------------
(* BinaryHeap, the greatest on top; cache is root_cmp_cache_, the better   *)
(* child of the root when it is known.  data is counted from 0.            *)

HeapInit == rep = [data |-> <<>>, cache |-> MaxSizet] /\ model = [v \in Vals |-> 0]
At0(data, i) == data[i + 1]
get_parent(i) == (i - 1) \div 2

upheap(data, v) ==
  LET c == FoldLeft(LAMBDA d, j :
             IF d.i > 0 /\ At0(d.data, get_parent(d.i)) < v
             THEN [data |-> [d.data EXCEPT ![d.i + 1] = At0(d.data, get_parent(d.i))], i |-> get_parent(d.i)]
             ELSE d, [data |-> data, i |-> Len(data) - 1], [j \in 1 .. Len(data) |-> j])
  IN [data |-> [c.data EXCEPT ![c.i + 1] = v], cache |-> MaxSizet]

\* The child of i that moves up.  fault: the cached child need not be there
StaleChild(s, i) == IF i = 0 /\ s.cache # MaxSizet THEN s.cache ELSE 2 * i + 1
PickedChild(s, i) ==
  LET left == 2 * i + 1 IN
  CASE i = 0 /\ s.cache < Len(s.data) -> s.cache
    [] ~(i = 0 /\ s.cache < Len(s.data)) /\ left + 1 < Len(s.data) /\ At0(s.data, left) < At0(s.data, left + 1) -> left + 1
    [] OTHER -> left

downheap(s) ==
  LET v == At0(s.data, 0)
      c == FoldLeft(LAMBDA d, j :
             IF d.done \/ 2 * d.i + 1 >= Len(s.data) THEN [d EXCEPT !.done = TRUE]
             ELSE LET k == PickedChild([data |-> d.data, cache |-> s.cache], d.i) IN
                  IF ~(v < At0(d.data, k)) THEN [d EXCEPT !.picked = k, !.done = TRUE]
                  ELSE [data |-> [d.data EXCEPT ![d.i + 1] = At0(d.data, k)], i |-> k, picked |-> k, done |-> FALSE],
             [data |-> s.data, i |-> 0, picked |-> MaxSizet, done |-> FALSE], [j \in 1 .. Len(s.data) |-> j])
  IN [data |-> [c.data EXCEPT ![c.i + 1] = v], cache |-> IF c.i = 0 THEN c.picked ELSE MaxSizet]

HeapPush(v) ==
  /\ Len(rep.data) < MaxLen
  /\ rep' = upheap(Append(rep.data, v), v) /\ model' = [model EXCEPT ![v] = @ + 1]
HeapReplaceTop(v) ==
  /\ rep.data # <<>>
  /\ rep' = downheap([rep EXCEPT !.data[1] = v])
  /\ model' = [[model EXCEPT ![rep.data[1]] = @ - 1] EXCEPT ![v] = @ + 1]
HeapPop ==
  LET data == Front([rep.data EXCEPT ![1] = Last(rep.data)]) IN
  /\ rep.data # <<>>
  /\ rep' = IF data # <<>> THEN downheap([rep EXCEPT !.data = data]) ELSE [data |-> <<>>, cache |-> MaxSizet]
  /\ model' = [model EXCEPT ![rep.data[1]] = @ - 1]
HeapClear == rep' = [data |-> <<>>, cache |-> MaxSizet] /\ model' = [v \in Vals |-> 0]
HeapNext == HeapPop \/ HeapClear \/ \E v \in Vals : HeapPush(v) \/ HeapReplaceTop(v)

-----------------------------------------------------------------------------
(* TopNHeap with the limit N.  The heaps of the standard library are any   *)
(* arrangement with the least element in front and above its children.     *)

Desc(seq) == SortSeq(seq, >)
TopInit == rep = [elements |-> <<>>, state |-> "UNORDERED", extracted |-> FALSE] /\ model = [top |-> <<>>, dropped |-> <<>>]

HeapsOf(seq) ==
  {h \in {[i \in DOMAIN seq |-> seq[p[i]]] : p \in {q \in [DOMAIN seq -> DOMAIN seq] : IsInjective(q)}} :
     \A i \in DOMAIN h : i > 1 => h[i \div 2] <= h[i]}
\* pop_heap: the least element goes to the end.
PopHeap(seq) == {h \o <<Desc(seq)[Len(seq)]>> : h \in HeapsOf(Front(Desc(seq)))}

TopPush(v) ==
  LET pushed == Append(rep.elements, v)
      swap == rep.state = "BOTTOM_KNOWN" /\ ~(v > pushed[1])
      e == IF swap THEN [pushed EXCEPT ![1] = v, ![Len(pushed)] = pushed[1]] ELSE pushed
      best == Desc(Append(model.top, v))
  IN /\ ~rep.extracted
     /\ \/ /\ rep.state # "HEAP_SORTED" /\ Len(e) <= N
           /\ rep' = [rep EXCEPT !.elements = e]
        \/ /\ rep.state # "HEAP_SORTED" /\ Len(e) = N + 1
           /\ \E h \in PopHeap(e) : rep' = [rep EXCEPT !.elements = h, !.state = "HEAP_SORTED"]
        \/ /\ rep.state = "HEAP_SORTED" /\ v > rep.elements[1]
           /\ \E h \in PopHeap([rep.elements EXCEPT ![N + 1] = v]) : rep' = [rep EXCEPT !.elements = h]
        \/ /\ rep.state = "HEAP_SORTED" /\ ~(v > rep.elements[1])
           /\ rep' = rep
     /\ model' = IF Len(best) <= N THEN [top |-> best, dropped |-> <<>>]
                 ELSE [top |-> Front(best), dropped |-> <<Last(best)>>]

\* fault: the elements are compared the wrong way around
HighestFirst(e) == IF e = <<>> THEN e ELSE <<Desc(e)[1]>> \o Remove(e, Desc(e)[1])
LowestFirst(e) ==
  LET m == SelectInSeq(e, LAMBDA x : \A y \in Range(e) : x <= y) IN [e EXCEPT ![1] = e[m], ![m] = e[1]]
peek_bottom ==
  /\ ~rep.extracted /\ rep.elements # <<>>
  /\ rep' = IF rep.state = "UNORDERED"
            THEN [rep EXCEPT !.elements = LowestFirst(@), !.state = "BOTTOM_KNOWN"] ELSE rep
  /\ UNCHANGED model

ExtractUnsorted(s) == IF s.state = "HEAP_SORTED" THEN Front(s.elements) ELSE s.elements
TopExtract ==
  /\ ~rep.extracted
  /\ rep' = [rep EXCEPT !.elements = <<>>, !.extracted = TRUE] /\ UNCHANGED model
TopReset ==
  /\ rep' = [elements |-> <<>>, state |-> "UNORDERED", extracted |-> FALSE]
  /\ model' = [top |-> <<>>, dropped |-> <<>>]
TopNext == peek_bottom \/ TopExtract \/ TopReset \/ \E v \in Vals : TopPush(v)

-----------------------------------------------------------------------------
(* The caches.  model is the pairs that are cached, used last first.       *)

Touch(m, k, v) == <<<<k, v>>>> \o SelectSeq(m, LAMBDA p : p[1] # k)
Upto(m, n) == SubSeq(m, 1, IF Len(m) < n THEN Len(m) ELSE n)
ValueIn(m, k) == m[SelectInSeq(m, LAMBDA p : p[1] = k)][2]
KeysOf(m) == {p[1] : p \in Range(m)}
Without(m, k) == SelectSeq(m, LAMBDA p : p[1] # k)

(* LruMap: a list of pairs and the set of keys that lead into it.          *)
LruInit == \E max \in 0 .. N : rep = [list |-> <<>>, map |-> {}, max |-> max] /\ model = <<>>
\* fault: the entry put last goes
DropFirst(s) == [s EXCEPT !.list = Tail(@), !.map = @ \ {Head(s.list)[1]}]
DropLast(s) == [s EXCEPT !.list = Front(@), !.map = @ \ {Last(s.list)[1]}]
LruPut(k, v) ==
  LET t == [rep EXCEPT !.list = Touch(@, k, v), !.map = @ \cup {k}] IN
  /\ rep' = IF Cardinality(t.map) > rep.max THEN DropLast(t) ELSE t
  /\ model' = Upto(Touch(model, k, v), rep.max)
LruGet(k) ==
  /\ k \in rep.map
  /\ rep' = [rep EXCEPT !.list = Touch(@, k, ValueIn(@, k))]
  /\ model' = Touch(model, k, ValueIn(model, k))
LruErase(k) ==
  /\ rep' = IF k \in rep.map THEN [rep EXCEPT !.list = Without(@, k), !.map = @ \ {k}] ELSE rep
  /\ model' = Without(model, k)
LruNext == \E k \in Vals : LruGet(k) \/ LruErase(k) \/ \E v \in 1 .. 2 : LruPut(k, v)

(* MRUCacheBase: the same two, with room made before an entry is put.      *)
ShrinkToSize(s, n) ==
  FoldLeft(LAMBDA t, i : DropLast(t), s, [i \in 1 .. Len(s.list) - (IF n < Len(s.list) THEN n ELSE Len(s.list)) |-> i])
MruPut(k, v) ==
  LET s == CASE k \in rep.map -> [rep EXCEPT !.list = Without(@, k), !.map = @ \ {k}]
             [] k \notin rep.map /\ rep.max # 0 -> ShrinkToSize(rep, rep.max - 1)
             [] OTHER -> rep
  IN /\ rep' = [s EXCEPT !.list = <<<<k, v>>>> \o @, !.map = @ \cup {k}]
     /\ model' = Upto(Touch(model, k, v), IF rep.max = 0 THEN Len(model) + 1 ELSE rep.max)
MruShrink(n) == rep' = ShrinkToSize(rep, n) /\ model' = Upto(model, n)
MruClear == rep' = [rep EXCEPT !.list = <<>>, !.map = {}] /\ model' = <<>>
MruNext ==
  \/ MruClear \/ \E n \in 0 .. N : MruShrink(n)
  \/ \E k \in Vals : LruGet(k) \/ LruErase(k) \/ \E v \in 1 .. 2 : MruPut(k, v)

(* LRUCacheEasy: the nodes of a map, linked between head_ (-1) and tail_   *)
(* (-2).  Update and UpdateSilently ask for add_only, so that they leave   *)
(* the entry they find as it is.  operator[] is used on cached keys here:  *)
(* for another key it leaves a node in the map that is not linked.         *)
head_ == -1
tail_ == -2
EmptyLinks == [next |-> [x \in Heads \cup Vals |-> IF x = head_ THEN tail_ ELSE Null],
               prev |-> [x \in Heads \cup Vals |-> IF x = tail_ THEN head_ ELSE Null]]
EasyInit ==
  \E capacity \in 0 .. N :
    rep = [links |-> EmptyLinks, size |-> 0, map |-> <<>>, capacity |-> capacity] /\ model = <<>>

Full(s) == s.size > 0 /\ s.size >= s.capacity
Detach(s, x) ==
  LET l == SetPrev(SetNext(s.links, s.links.prev[x], s.links.next[x]), s.links.next[x], s.links.prev[x])
  IN [s EXCEPT !.links = [next |-> [l.next EXCEPT ![x] = Null], prev |-> [l.prev EXCEPT ![x] = Null]],
               !.size = @ - 1]
Attach(s, x) ==
  LET old == s.links.next[head_] IN
  [s EXCEPT !.links = SetPrev([next |-> [@.next EXCEPT ![x] = old, ![head_] = x],
                               prev |-> [@.prev EXCEPT ![x] = head_]], old, x), !.size = @ + 1]
GetObsolete(s) ==
  LET x == s.links.prev[tail_] IN
  IF Full(s) THEN [Detach(s, x) EXCEPT !.map = Restrict(@, DOMAIN @ \ {x})] ELSE s

\* The private Update, called by the operations with different flags.
EasyUpdate(k, v, add_only, silent) ==
  LET s == IF Full(rep) THEN GetObsolete(rep) ELSE rep
      set == [rep EXCEPT !.map[k] = v]
  IN CASE k \in DOMAIN rep.map /\ add_only -> rep
       [] k \in DOMAIN rep.map /\ ~add_only /\ silent -> set
       [] k \in DOMAIN rep.map /\ ~add_only /\ ~silent -> Attach(Detach(set, k), k)
       [] OTHER -> Attach([s EXCEPT !.map = (k :> v) @@ @], k)
EasyRoom == IF rep.capacity = 0 THEN 1 ELSE rep.capacity

EasyPut(k, v) ==
  /\ rep' = EasyUpdate(k, v, FALSE, FALSE)
  /\ model' = Upto(Touch(model, k, v), EasyRoom)
EasyAdd(k, v) ==
  /\ rep' = EasyUpdate(k, v, TRUE, FALSE)
  /\ model' = IF k \in KeysOf(model) THEN model ELSE Upto(Touch(model, k, v), EasyRoom)
EasyGet(k) ==
  /\ k \in DOMAIN rep.map
  /\ rep' = Attach(Detach(rep, k), k) /\ model' = Touch(model, k, ValueIn(model, k))
EasySubscript(k, v) ==
  /\ k \in DOMAIN rep.map
  /\ rep' = [rep EXCEPT !.map[k] = v]
  /\ model' = [i \in DOMAIN model |-> IF model[i][1] = k THEN <<k, v>> ELSE model[i]]
EasyClear ==
  rep' = [rep EXCEPT !.links = EmptyLinks, !.size = 0, !.map = <<>>] /\ model' = <<>>
EasyNext ==
  EasyClear \/ \E k \in Vals : EasyGet(k) \/ \E v \in 1 .. 2 : EasyPut(k, v) \/ EasyAdd(k, v) \/ EasySubscript(k, v)

-----------------------------------------------------------------------------
(* Properties.                                                             *)

\* Followed from its usable head either way, a list shows the nodes its client
\* put there in their order, whatever was moved, spliced, cut and replaced
\* before; a loop that is safe against removal has met each node once.
ListsLinked ==
  /\ \A h \in model.usable :
       /\ Follow(rep.next, rep.next[h], h) = model.lists[h]
       /\ Follow(rep.prev, rep.prev[h], h) = Reverse(model.lists[h])
  /\ rep.iter # <<>> /\ rep.iter[2] = rep.iter[1] => model.seen = model.start

\* Every hashed node is on one list, and its pprev is the address of the
\* pointer to it.
HListsLinked ==
  \A h \in Heads :
    LET seq == Follow(rep.next, rep.first[h], Null) IN
    /\ seq = model[h]
    /\ \A i \in DOMAIN seq : rep.pprev[seq[i]] = IF i = 1 THEN h ELSE seq[i - 1]

\* Both ends, the length and the links of an Adlist agree, every allocated node
\* is on a list, indexes count from either end, and an iterator goes on to
\* what it has not visited, also after its node was deleted.
AdlistsLinked ==
  /\ Follow(rep.next, rep.a.head, Null) = model.a /\ Follow(rep.prev, rep.a.tail, Null) = Reverse(model.a)
  /\ Follow(rep.next, rep.b.head, Null) = model.b /\ Follow(rep.prev, rep.b.tail, Null) = Reverse(model.b)
  /\ rep.a.len = Len(model.a) /\ rep.b.len = Len(model.b)
  /\ rep.live = Range(model.a) \cup Range(model.b)
  /\ \A i \in 1 .. Len(model.a) : AdlistIndex(i - 1) = model.a[i] /\ AdlistIndex(i - 1 - Len(model.a)) = model.a[i]
  /\ rep.iter # <<>> =>
       Follow(IF rep.iter[2] = "head" THEN rep.next ELSE rep.prev, rep.iter[1], Null) = model.ahead

\* The queue of an IndexedQueue names exactly the ids in its map, each once.
IndexedExact ==
  /\ Range(rep.queue) = rep.map /\ IsInjective(rep.queue)
  /\ rep.capacity > 0 => Len(rep.queue) <= rep.capacity
  /\ model # <<>> => Last(rep.queue) = model[1]

\* A SmallQueue hands elements out in the order of push, also when it overflowed
\* and was drained again.
SmallQueueFifo == SmallSeq = model

\* The ranges are in order and apart, and cover what was added.
RangesExact ==
  /\ \A i \in 1 .. Len(rep) - 1 : rep[i][2] # 0 /\ rep[i][2] < rep[i + 1][1]
  /\ \A start, end \in Points : (end = 0 \/ start < end) =>
       (IsCoverRange(start, end) <=> Covered(start, end) \subseteq model)
  /\ IsCompleteRange => model = Points

\* An autovector keeps what was stored in it where elements move between the
\* array and the vector.
VectorExact ==
  /\ VectorSize(rep) = Len(model)
  /\ rep.vect # <<>> => rep.items = N
  /\ \A i \in DOMAIN model : model[i] # 0 => VectorSeq(rep)[i] = model[i]

\* A SmallHashMap holds the pairs that were inserted and not deleted.
HashExact ==
  /\ UNION {Range(rep[b]) : b \in DOMAIN rep} = model
  /\ \A key \in Vals : HashContains(key) <=> \E p \in model : p[1] = key

\* No element of a BinaryHeap is greater than its parent, the cached child of
\* the root, as far as it is used, is the greater one, and nothing is lost.
HeapOrdered ==
  /\ \A i \in 1 .. Len(rep.data) - 1 : At0(rep.data, i) <= At0(rep.data, get_parent(i))
  /\ rep.cache < Len(rep.data) => \A i \in 1 .. 2 : i < Len(rep.data) => At0(rep.data, i) <= At0(rep.data, rep.cache)
  /\ \A v \in Vals : Cardinality({i \in DOMAIN rep.data : rep.data[i] = v}) = model[v]

\* A TopNHeap holds the greatest N elements that were pushed, in each of its
\* states, and its bottom is the least of them.
TopExact ==
  ~rep.extracted =>
    /\ Desc(ExtractUnsorted(rep)) = model.top
    /\ rep.state # "UNORDERED" /\ model.top # <<>> => rep.elements[1] = Last(model.top)
    /\ rep.state = "HEAP_SORTED" => Len(rep.elements) = N + 1

\* List and map of an LruMap and an MRUCache agree, and they hold the entries
\* used last.
RecencyExact == rep.list = model /\ rep.map = KeysOf(model)

\* The nodes of an LRUCacheEasy are linked in the order of their last use, and
\* size_ counts them.
EasyExact ==
  /\ Follow(rep.links.next, rep.links.next[head_], tail_) = [i \in DOMAIN model |-> model[i][1]]
  /\ Follow(rep.links.prev, rep.links.prev[tail_], head_) = Reverse([i \in DOMAIN model |-> model[i][1]])
  /\ rep.size = Len(model)
  /\ DOMAIN rep.map = KeysOf(model) /\ \A i \in DOMAIN model : rep.map[model[i][1]] = model[i][2]
=============================================================================
