----------------------------- MODULE PBStackProofs -----------------------------
(* Proofs about PBStack, for every number of threads, of nodes and of nodes  *)
(* to a line: the combiner's arrays suffice, no node is lost or in two       *)
(* places, and PBstack is a durable stack, as long as no line is left out of *)
(* the flush.                                                                *)
EXTENDS PBStack, LinkedListsProofs

(* Elimination leaves out the lines whose count is 0.  With three nodes to a *)
(* line, that may be a line with a node of the session in the stack.         *)
FlushesAll == ~Elimination \/ NodesPerLine <= 2

-----------------------------------------------------------------------------
(* The inductive invariant                                                   *)

TypeInv == NodesAssumption /\ TypeOK

(* What the three pointers lead to are lists. *)
HasList(w) == IsListFrom(NodesFrom(w), next, Null, w)

ListInv ==
    /\ HasList(word)
    /\ published # Unformatted => HasList(published)
    /\ durable # Unformatted => HasList(durable)

(* How the three pointers are related in each stage of a session. *)
Untouched == published = Unformatted /\ durable = Unformatted

StageInv ==
    /\ stage \in {"flush_pointer", "after_persist", "unlock"} => published = word
    /\ stage = "free" => published = word \/ (Untouched /\ word = Null)
    /\ stage \in {"after_persist", "unlock"} => synced
    /\ IF synced THEN durable = published ELSE stage = "flush_pointer" \/ Untouched
    /\ stage = "free" => \A t \in Threads : phase[t] # "applied"

(* Every node is in one place; what is published or durable is in the stack  *)
(* or popped by the session under way.                                       *)
PlaceInv ==
    /\ IsInjective(recycle_list) /\ IsInjective(free_list)
    /\ ToSet(recycle_list) \intersect (InStack(word) \union Popped) = {}
    /\ InStack(word) \intersect Popped = {}
    /\ InStack(published) \union InStack(durable) \subseteq InStack(word) \union Popped
    /\ ToSet(recycle_list) \union InStack(word) \union Popped \subseteq 0 .. cur_entry - 1
    /\ Recycling =>
          0 .. cur_entry - 1 \subseteq
              ToSet(recycle_list) \union InStack(word) \union Popped

(* Pending operations have arguments, nodes of the stack have values.        *)
ValueInv ==
    /\ \A t \in Threads : phase[t] # "idle" => param[t] \in Args
    /\ \A n \in InStack(word) \union Popped : val[n] \in Values

(* The arrays hold no more than one entry for each operation applied.        *)
Applied == {t \in Threads : phase[t] = "applied"}

ArrayInv ==
    /\ IsFiniteSet(clNewItems)
    /\ Cardinality(clNewItems) + Len(free_list) <=
          Cardinality(IF stage = "free" THEN Threads ELSE Applied)

PlacesInv == TypeInv /\ ListInv /\ StageInv /\ PlaceInv /\ ValueInv

(* The nodes the session under way has pushed and not popped.                *)
Fresh == InStack(word) \ InStack(published)

FreshIn(l) == {n \in Fresh : Line(n) = l}

(* The line of such a node is listed, and its count is that of its fresh     *)
(* nodes.  Once they are popped it is 0, or no node of the line can be       *)
(* pushed any more in this session.                                          *)
FreshInv == stage = "serving" => \A n \in Fresh : Line(n) \in clNewItems

PoppedOf(l) == {n \in Popped : Line(n) = l}

CountInv ==
    stage = "serving" /\ NodesPerLine <= 2 =>
        \A l \in clNewItems :
            IF FreshIn(l) # {}
            THEN clNewItems_count[l] = Cardinality(FreshIn(l))
            ELSE /\ PoppedOf(l) # {}
                 /\ \/ clNewItems_count[l] = 0
                    \/ \A n \in Nodes : Line(n) = l => n \in Popped

(* What a crash may leave is written back. *)
CleanInv ==
    /\ InStack(published) \union InStack(durable) \subseteq clean
    /\ stage \in {"flush_state", "publish"} => InStack(word) \subseteq clean

-----------------------------------------------------------------------------
(* Lists of the nodes of the pool                                            *)

List(link, w) == ListFrom(link, Null, w, NumNodes)

LEMMA NodesFinite ==
    ASSUME NodesAssumption
    PROVE  IsFiniteSet(Nodes) /\ Cardinality(Nodes) = NumNodes /\ NumNodes \in Nat
  <1>1. NumNodes - 1 \in Int /\ 0 \in Int /\ NumNodes >= 1 /\ NumNodes \in Nat
    BY DEF NodesAssumption
  <1>2. /\ IsFiniteSet(0 .. NumNodes - 1)
        /\ Cardinality(0 .. NumNodes - 1) =
              IF 0 > NumNodes - 1 THEN 0 ELSE (NumNodes - 1) - 0 + 1
    BY <1>1, FS_Interval
  <1> QED
    BY <1>1, <1>2 DEF Nodes

LEMMA ListIs ==
    ASSUME NodesAssumption, NEW link \in [Nodes -> Words], NEW w, NEW s,
           IsListFrom(s, link, Null, w)
    PROVE  List(link, w) = s
  <1>1. DOMAIN link = Nodes
    OBVIOUS
  <1>2. Null \notin DOMAIN link
    BY <1>1 DEF NodesAssumption
  <1>3. IsFiniteSet(DOMAIN link) /\ Cardinality(DOMAIN link) <= NumNodes /\ NumNodes \in Nat
    BY <1>1, NodesFinite
  <1> QED
    BY <1>2, <1>3, ListFound DEF List

IsList(link, w) == IsListFrom(List(link, w), link, Null, w)

(* A pushed node is put before the list, ...                                 *)
LEMMA ListPushed ==
    ASSUME NodesAssumption, NEW link \in [Nodes -> Words],
           NEW w \in Words, IsList(link, w),
           NEW n \in Nodes, n \notin ToSet(List(link, w)),
           NEW after \in [Nodes -> Words],
           \A x \in Nodes : after[x] = IF x = n THEN w ELSE link[x]
    PROVE  /\ IsList(after, n)
           /\ List(after, n) = <<n>> \o List(link, w)
           /\ ToSet(List(after, n)) = {n} \union ToSet(List(link, w))
  <1>2. n \in DOMAIN link
    OBVIOUS
  <1>5. /\ DOMAIN after = DOMAIN link
        /\ \A x \in DOMAIN link : after[x] = IF x = n THEN w ELSE link[x]
    OBVIOUS
  <1>3. /\ IsListFrom(<<n>> \o List(link, w), after, Null, n)
        /\ ToSet(<<n>> \o List(link, w)) = {n} \union ToSet(List(link, w))
    <2>1. IsListFrom(List(link, w), link, Null, w)
      BY DEF IsList
    <2>2. PICK s : s = List(link, w)
      OBVIOUS
    <2>3. IsListFrom(s, link, Null, w) /\ n \notin ToSet(s)
      BY <2>1, <2>2
    <2>4. IsListFrom(<<n>> \o s, after, Null, n)
      BY <1>2, <1>5, <2>3, ListCons
    <2>5. ToSet(<<n>> \o s) = {n} \union ToSet(s)
      BY <1>2, <1>5, <2>3, ListCons
    <2> QED
      BY <2>2, <2>4, <2>5
  <1>4. List(after, n) = <<n>> \o List(link, w)
    BY <1>3, ListIs
  <1> QED
    BY <1>3, <1>4 DEF IsList

(* ... a popped one is taken from it, ...                                    *)
LEMMA ListPopped ==
    ASSUME NodesAssumption, NEW link \in [Nodes -> Words],
           NEW n \in Nodes, IsList(link, n)
    PROVE  /\ IsList(link, link[n])
           /\ List(link, n) = <<n>> \o List(link, link[n])
           /\ n \notin ToSet(List(link, link[n]))
           /\ ToSet(List(link, n)) = {n} \union ToSet(List(link, link[n]))
           /\ List(link, n) # <<>>
           /\ List(link, link[n]) = Tail(List(link, n))
  <1> DEFINE s == List(link, n)
  <1>1. s # <<>>
    BY DEF IsList, IsListFrom, NodesAssumption
  <1>4. IsListFrom(s, link, Null, n)
    BY DEF IsList
  <1>2. /\ IsListFrom(Tail(s), link, Null, link[n])
        /\ s = <<n>> \o Tail(s)
        /\ n \notin ToSet(Tail(s))
        /\ ToSet(s) = {n} \union ToSet(Tail(s))
    <2>1. PICK r : r = s
      OBVIOUS
    <2>2. IsListFrom(r, link, Null, n) /\ r # <<>>
      BY <1>1, <1>4, <2>1
    <2>3. /\ IsListFrom(Tail(r), link, Null, link[n])
          /\ r = <<n>> \o Tail(r)
          /\ n \notin ToSet(Tail(r))
          /\ ToSet(r) = {n} \union ToSet(Tail(r))
      BY <2>2, ListTail, ZenonT(40)
    <2> QED
      BY <2>1, <2>3
  <1>3. List(link, link[n]) = Tail(s)
    BY <1>2, ListIs
  <1> QED
    BY <1>1, <1>2, <1>3 DEF IsList

(* ... and every list whose links nobody writes stays what it is.            *)
LEMMA ListUnwritten ==
    ASSUME NodesAssumption, NEW link \in [Nodes -> Words],
           NEW after \in [Nodes -> Words], NEW w, IsList(link, w),
           \A n \in ToSet(List(link, w)) : after[n] = link[n]
    PROVE  IsList(after, w) /\ List(after, w) = List(link, w)
  <1>1. DOMAIN after = DOMAIN link
    OBVIOUS
  <1>2. IsListFrom(List(link, w), after, Null, w)
    BY <1>1, ListKept DEF IsList
  <1>3. List(after, w) = List(link, w)
    BY <1>2, ListIs
  <1> QED
    BY <1>2, <1>3 DEF IsList

LEMMA ListNull ==
    ASSUME NodesAssumption, NEW link \in [Nodes -> Words]
    PROVE  IsList(link, Null) /\ List(link, Null) = <<>>
  <1>1. IsListFrom(<<>>, link, Null, Null)
    BY ListEmpty
  <1> QED
    BY <1>1, ListIs DEF IsList

(* The list from w is empty or begins with w, and holds nodes only.          *)
LEMMA ListNodes ==
    ASSUME NodesAssumption, NEW link \in [Nodes -> Words], NEW w, IsList(link, w)
    PROVE  /\ List(link, w) \in Seq(Nodes)
           /\ ToSet(List(link, w)) \subseteq Nodes
           /\ w # Null => w \in ToSet(List(link, w))
  <1> DEFINE s == List(link, w)
  <1>1. s \in Seq(Nodes) /\ (w = IF s = <<>> THEN Null ELSE s[1])
    BY DEF IsList, IsListFrom
  <1>2. DOMAIN s = 1 .. Len(s) /\ Len(s) \in Nat /\ (s # <<>> => Len(s) # 0)
    BY <1>1, LenProperties, EmptySeq
  <1> QED
    BY <1>1, <1>2 DEF ToSet

(* A list from one of its nodes is a part of it. *)
LEMMA ListPart ==
    ASSUME NodesAssumption, NEW link \in [Nodes -> Words],
           NEW w, IsList(link, w), NEW x, IsList(link, x),
           x \in ToSet(List(link, w)) \union {Null}
    PROVE  ToSet(List(link, x)) \subseteq ToSet(List(link, w))
  <1>1. Null \notin DOMAIN link
    BY DEF NodesAssumption
  <1> QED
    BY <1>1, ListWithin DEF IsList
-----------------------------------------------------------------------------
(* What the places hold before and after a push and a pop                    *)

(* The heap of the pool: the lists the pointers lead to.                     *)
LEMMA Views ==
    ASSUME TypeInv, ListInv
    PROVE  /\ next \in [Nodes -> Words] /\ word \in Words
           /\ IsList(next, word) /\ InStack(word) = ToSet(List(next, word))
           /\ published # Unformatted =>
                 /\ published \in Words /\ IsList(next, published)
                 /\ InStack(published) = ToSet(List(next, published))
           /\ published = Unformatted => InStack(published) = {}
           /\ durable # Unformatted =>
                 /\ durable \in Words /\ IsList(next, durable)
                 /\ InStack(durable) = ToSet(List(next, durable))
           /\ durable = Unformatted => InStack(durable) = {}
           /\ word # Unformatted
           /\ InStack(word) \subseteq Nodes
           /\ InStack(published) \subseteq Nodes
           /\ InStack(durable) \subseteq Nodes
  <1>1. /\ next \in [Nodes -> Words] /\ word \in Words
        /\ published \in Words \union {Unformatted}
        /\ durable \in Words \union {Unformatted}
        /\ Unformatted \notin Words
    BY DEF TypeInv, TypeOK, NodesAssumption
  <1>2. /\ word # Unformatted
        /\ \A w : NodesFrom(w) = List(next, w) /\ (HasList(w) <=> IsList(next, w))
    BY <1>1 DEF NodesFrom, HasList, List, IsList
  <1>3. /\ IsList(next, word) /\ InStack(word) = ToSet(List(next, word))
        /\ published # Unformatted =>
              IsList(next, published) /\ InStack(published) = ToSet(List(next, published))
        /\ durable # Unformatted =>
              IsList(next, durable) /\ InStack(durable) = ToSet(List(next, durable))
    BY <1>1, <1>2 DEF ListInv, InStack
  <1>4. /\ published = Unformatted => InStack(published) = {}
        /\ durable = Unformatted => InStack(durable) = {}
    BY DEF InStack
  <1>5. NodesAssumption
    BY DEF TypeInv
  <1>6. InStack(word) \subseteq Nodes
    BY <1>1, <1>3, <1>5, ListNodes
  <1>7. InStack(published) \subseteq Nodes
    BY <1>1, <1>3, <1>4, <1>5, ListNodes
  <1>8. InStack(durable) \subseteq Nodes
    BY <1>1, <1>3, <1>4, <1>5, ListNodes
  <1> QED
    BY <1>1, <1>2, <1>3, <1>4, <1>6, <1>7, <1>8

(* As long as no link is written, a pointer leads to what it led to. *)
LEMMA SameNodes ==
    ASSUME UNCHANGED next
    PROVE  /\ word' = word =>
                 InStack(word)' = InStack(word) /\ (HasList(word)' <=> HasList(word))
           /\ published' = published =>
                 /\ InStack(published)' = InStack(published)
                 /\ HasList(published)' <=> HasList(published)
           /\ durable' = durable =>
                 /\ InStack(durable)' = InStack(durable)
                 /\ HasList(durable)' <=> HasList(durable)
           /\ published' = word =>
                 /\ InStack(published)' = InStack(word)
                 /\ HasList(published)' <=> HasList(word)
           /\ durable' = published =>
                 /\ InStack(durable)' = InStack(published)
                 /\ HasList(durable)' <=> HasList(published)
  BY DEF InStack, HasList, NodesFrom

(* The pool hands out a node that is in no place.                            *)
LEMMA AllocFresh ==
    ASSUME PlacesInv, CanAlloc, Alloc, stage = "serving"
    PROVE  /\ AllocatedNode \in Nodes
           /\ AllocatedNode \notin InStack(word) \union Popped
           /\ AllocatedNode \notin InStack(published) \union InStack(durable)
           /\ recycle_list' \in Seq(Nodes) /\ IsInjective(recycle_list')
           /\ AllocatedNode \notin ToSet(recycle_list')
           /\ ToSet(recycle_list') \subseteq ToSet(recycle_list)
           /\ cur_entry' \in 0 .. NumNodes
           /\ 0 .. cur_entry' - 1 = (0 .. cur_entry - 1) \union {AllocatedNode}
           /\ ToSet(recycle_list) \subseteq ToSet(recycle_list') \union {AllocatedNode}
  <1> DEFINE n == AllocatedNode
  <1>1. /\ recycle_list \in Seq(Nodes) /\ cur_entry \in 0 .. NumNodes
        /\ NumNodes \in Nat
    BY DEF PlacesInv, TypeInv, TypeOK, NodesAssumption
  <1>2. /\ IsInjective(recycle_list)
        /\ ToSet(recycle_list) \intersect (InStack(word) \union Popped) = {}
        /\ InStack(published) \union InStack(durable) \subseteq InStack(word) \union Popped
        /\ ToSet(recycle_list) \union InStack(word) \union Popped \subseteq 0 .. cur_entry - 1
    BY DEF PlacesInv, PlaceInv
  <1>3. CASE recycle_list # <<>>
    <2>1. n = Head(recycle_list) /\ recycle_list' = Tail(recycle_list) /\ cur_entry' = cur_entry
      BY <1>3 DEF AllocatedNode, Alloc
    <2>2. /\ n \in Nodes /\ recycle_list' \in Seq(Nodes)
          /\ ToSet(recycle_list) = {n} \union ToSet(recycle_list')
          /\ IsInjective(recycle_list') /\ n \notin ToSet(recycle_list')
      BY <1>1, <1>2, <1>3, <2>1, TakeHead
    <2>3. n \in 0 .. cur_entry - 1
      BY <1>2, <2>2
    <2> QED
      BY <1>1, <1>2, <2>1, <2>2, <2>3
  <1>4. CASE recycle_list = <<>>
    <2>1. /\ n = cur_entry /\ recycle_list' = recycle_list /\ cur_entry' = cur_entry + 1
          /\ cur_entry < NumNodes
      BY <1>4 DEF AllocatedNode, Alloc, CanAlloc
    <2>2. n \in Nodes /\ n \notin 0 .. cur_entry - 1
      BY <1>1, <2>1 DEF Nodes
    <2>3. 0 .. cur_entry' - 1 = (0 .. cur_entry - 1) \union {n} /\ cur_entry' \in 0 .. NumNodes
      BY <1>1, <2>1
    <2> QED
      BY <1>1, <1>2, <2>1, <2>2, <2>3
  <1> QED
    BY <1>3, <1>4


(* A push puts its node on top of the stack and leaves the rest alone.       *)
LEMMA PushPlaces ==
    ASSUME PlacesInv, NEW k \in Threads, PushNode(k)
    PROVE  /\ word' = AllocatedNode /\ next' \in [Nodes -> Words]
           /\ IsList(next', word')
           /\ List(next', word') = <<AllocatedNode>> \o List(next, word)
           /\ InStack(word)' = {AllocatedNode} \union InStack(word)
           /\ HasList(word)'
           /\ published # Unformatted =>
                 HasList(published)' /\ List(next', published) = List(next, published)
           /\ durable # Unformatted =>
                 HasList(durable)' /\ List(next', durable) = List(next, durable)
           /\ InStack(published)' = InStack(published)
           /\ InStack(durable)' = InStack(durable)
           /\ UNCHANGED <<published, durable>>
  <1> DEFINE n == AllocatedNode
  <1>1. /\ CanAlloc /\ Alloc /\ next' = [next EXCEPT ![n] = word]
        /\ word' = n /\ stage = "serving" /\ UNCHANGED <<published, durable>>
    BY DEF PushNode, Comb!Serve
  <1>2. /\ n \in Nodes
        /\ n \notin InStack(word) /\ n \notin InStack(published) /\ n \notin InStack(durable)
    BY <1>1, AllocFresh
  <1>3. NodesAssumption /\ TypeInv /\ ListInv /\ Unformatted \notin Words
    BY DEF PlacesInv, TypeInv, NodesAssumption
  <1>4. /\ next \in [Nodes -> Words] /\ word \in Words
        /\ IsList(next, word) /\ InStack(word) = ToSet(List(next, word))
    BY <1>3, Views
  <1>5. next' \in [Nodes -> Words] /\ n \in Words
    BY <1>1, <1>2, <1>4 DEF Words
  <1>6. /\ IsList(next', n)
        /\ List(next', n) = <<n>> \o List(next, word)
        /\ ToSet(List(next', n)) = {n} \union ToSet(List(next, word))
    <2>1. \A x \in Nodes : next'[x] = IF x = n THEN word ELSE next[x]
      BY <1>1, <1>2, <1>4
    <2> HIDE DEF n
    <2> QED
      BY <2>1, <1>2, <1>3, <1>4, <1>5, ListPushed
  <1>7. /\ InStack(word)' = {n} \union InStack(word)
        /\ HasList(word)'
    <2>1. word' # Unformatted
      BY <1>1, <1>3, <1>5
    <2>2. InStack(word)' = ToSet(List(next', word'))
      BY <2>1 DEF InStack, NodesFrom, List
    <2>3. HasList(word)' = IsList(next', word')
      BY DEF HasList, NodesFrom, List, IsList
    <2> QED
      BY <2>2, <2>3, <1>1, <1>4, <1>6
  <1>8. ASSUME NEW w \in Words, IsList(next, w), n \notin ToSet(List(next, w))
        PROVE  IsList(next', w) /\ List(next', w) = List(next, w)
    <2>1. \A x \in ToSet(List(next, w)) : next'[x] = next[x]
      <3>1. ToSet(List(next, w)) \subseteq Nodes
        BY <1>3, <1>4, <1>8, ListNodes
      <3> QED
        BY <3>1, <1>1, <1>4, <1>8
    <2> QED
      BY <2>1, <1>3, <1>4, <1>5, <1>8, ListUnwritten
  <1>9. published # Unformatted =>
            /\ HasList(published)' /\ List(next', published) = List(next, published)
            /\ InStack(published)' = InStack(published)
    <2> SUFFICES ASSUME published # Unformatted
                 PROVE  /\ HasList(published)'
                        /\ List(next', published) = List(next, published)
                        /\ InStack(published)' = InStack(published)
      OBVIOUS
    <2>1. /\ published \in Words /\ IsList(next, published)
          /\ InStack(published) = ToSet(List(next, published))
      BY <1>3, Views
    <2>2. IsList(next', published) /\ List(next', published) = List(next, published)
      BY <2>1, <1>2, <1>8
    <2>3. published' = published
      BY <1>1
    <2>4. HasList(published)' = IsList(next', published)
      BY <2>3 DEF HasList, NodesFrom, List, IsList
    <2>5. InStack(published)' = ToSet(List(next', published))
      BY <2>3 DEF InStack, NodesFrom, List
    <2> QED
      BY <2>1, <2>2, <2>4, <2>5
  <1>10. durable # Unformatted =>
            /\ HasList(durable)' /\ List(next', durable) = List(next, durable)
            /\ InStack(durable)' = InStack(durable)
    <2> SUFFICES ASSUME durable # Unformatted
                 PROVE  /\ HasList(durable)'
                        /\ List(next', durable) = List(next, durable)
                        /\ InStack(durable)' = InStack(durable)
      OBVIOUS
    <2>1. /\ durable \in Words /\ IsList(next, durable)
          /\ InStack(durable) = ToSet(List(next, durable))
      BY <1>3, Views
    <2>2. IsList(next', durable) /\ List(next', durable) = List(next, durable)
      BY <2>1, <1>2, <1>8
    <2>3. durable' = durable
      BY <1>1
    <2>4. HasList(durable)' = IsList(next', durable)
      BY <2>3 DEF HasList, NodesFrom, List, IsList
    <2>5. InStack(durable)' = ToSet(List(next', durable))
      BY <2>3 DEF InStack, NodesFrom, List
    <2> QED
      BY <2>1, <2>2, <2>4, <2>5
  <1>11. /\ published = Unformatted => InStack(published)' = InStack(published)
         /\ durable = Unformatted => InStack(durable)' = InStack(durable)
    BY <1>1 DEF InStack
  <1> QED
    BY <1>1, <1>5, <1>6, <1>7, <1>9, <1>10, <1>11

(* A pop takes the node on top of it.                                        *)
LEMMA PopPlaces ==
    ASSUME PlacesInv, NEW k \in Threads, PopNode(k)
    PROVE  /\ word \in Nodes /\ word' \in Words /\ stage = "serving" /\ stage' = stage
           /\ HasList(word)' /\ IsList(next, word')
           /\ List(next, word) = <<word>> \o List(next, word')
           /\ List(next, word) # <<>> /\ List(next, word') = Tail(List(next, word))
           /\ word \notin InStack(word)' /\ InStack(word) = {word} \union InStack(word)'
           /\ free_list' = Append(free_list, word)
           /\ Popped' = Popped \union {word} /\ word \notin Popped
           /\ UNCHANGED <<next, published, durable>>
  <1>1. /\ word # Null /\ word' = next[word] /\ stage = "serving" /\ stage' = stage
        /\ free_list' = Append(free_list, word)
        /\ UNCHANGED <<next, published, durable>>
    BY DEF PopNode, Deferred, nodeVars, Comb!Serve, Comb!sessionVars
  <1>2. NodesAssumption /\ TypeInv /\ ListInv /\ Unformatted \notin Words
    BY DEF PlacesInv, TypeInv, NodesAssumption
  <1>3. /\ next \in [Nodes -> Words] /\ word \in Words
        /\ IsList(next, word) /\ InStack(word) = ToSet(List(next, word))
    BY <1>2, Views
  <1>4. word \in Nodes /\ word' \in Words
    BY <1>1, <1>3 DEF Words
  <1>5. /\ IsList(next, next[word])
        /\ List(next, word) = <<word>> \o List(next, next[word])
        /\ word \notin ToSet(List(next, next[word]))
        /\ ToSet(List(next, word)) = {word} \union ToSet(List(next, next[word]))
        /\ List(next, word) # <<>>
        /\ List(next, next[word]) = Tail(List(next, word))
    BY <1>2, <1>3, <1>4, ListPopped
  <1>6. InStack(word)' = ToSet(List(next, word')) /\ HasList(word)' = IsList(next, word')
    BY <1>1, <1>2, <1>4 DEF InStack, NodesFrom, List, HasList, IsList
  <1>7. Popped = ToSet(free_list) /\ Popped' = ToSet(free_list')
    BY <1>1 DEF Popped
  <1>8. ToSet(free_list') = ToSet(free_list) \union {word}
    <2>1. free_list \in Seq(Nodes)
      BY <1>2 DEF TypeInv, TypeOK
    <2> QED
      BY <2>1, <1>1, <1>4, PutLast
  <1>9. word \notin Popped
    <2>1. word \in InStack(word)
      BY <1>3, <1>5
    <2> QED
      BY <2>1 DEF PlacesInv, PlaceInv
  <1> QED
    BY <1>1, <1>3, <1>4, <1>5, <1>6, <1>7, <1>8, <1>9


-----------------------------------------------------------------------------
(* Every step keeps the places                                               *)

LEMMA InitPlaces ==
    ASSUME NodesAssumption, Init
    PROVE  PlacesInv
  <1> USE DEF Init, Comb!Init
  <1>1. NumNodes \in Nat \ {0} /\ Null \in Words
    BY DEF NodesAssumption, Words
  <1>2. 0 \in 0 .. NumNodes /\ <<>> \in Seq(Nodes)
    BY <1>1
  <1>3. TypeInv
    <2>1. /\ phase \in [Threads -> {"idle", "pending", "applied", "released"}]
          /\ param \in [Threads -> Args \union {NoArg}]
          /\ result \in [Threads -> RetVals \union {NoVal}]
          /\ stage \in {"free", "serving", "flush_state", "publish", "flush_pointer",
                        "after_persist", "unlock"}
          /\ combiner \in Threads \union {NoThread}
      OBVIOUS
    <2>2. /\ word \in Words /\ synced \in BOOLEAN
          /\ {published, durable} \subseteq Words \union {Unformatted}
      BY <1>1
    <2>3. /\ val \in [Nodes -> Values \union {Junk}]
          /\ next \in [Nodes -> Words]
          /\ clean \subseteq Nodes
          /\ clNewItems \subseteq Lines
          /\ clNewItems_count \in [Lines -> Int]
      BY <1>1
    <2>4. recycle_list \in Seq(Nodes) /\ free_list \in Seq(Nodes)
      BY <1>2
    <2>5. cur_entry \in 0 .. NumNodes
      BY <1>2
    <2> QED
      BY <2>1, <2>2, <2>3, <2>4, <2>5 DEF TypeInv, TypeOK
  <1>4. next \in [Nodes -> Words]
    BY <1>3 DEF TypeInv, TypeOK
  <1>5. IsList(next, Null) /\ List(next, Null) = <<>>
    BY <1>4, ListNull
  <1>6. Unformatted # Null
    BY <1>1 DEF NodesAssumption
  <1>7. ToSet(<<>>) = {} /\ IsInjective(<<>>)
    BY DEF ToSet, IsInjective
  <1>8. /\ InStack(word) = {} /\ InStack(published) = {} /\ InStack(durable) = {}
        /\ HasList(word)
    BY <1>5, <1>6, <1>7 DEF InStack, NodesFrom, List, HasList, IsList
  <1>9. Popped = {}
    BY DEF Popped
  <1>10. ListInv
    BY <1>8 DEF ListInv
  <1>11. StageInv
    BY DEF StageInv, Untouched
  <1>12. 0 .. cur_entry - 1 = {}
    OBVIOUS
  <1>13. PlaceInv
    BY <1>7, <1>8, <1>9, <1>12 DEF PlaceInv
  <1>14. ValueInv
    BY <1>8, <1>9 DEF ValueInv
  <1> QED
    BY <1>3, <1>10, <1>11, <1>13, <1>14 DEF PlacesInv

(* The calls touch neither the nodes nor the state of a session.             *)
LEMMA CallKeepsPlaces ==
    ASSUME PlacesInv,
           \/ \E t \in Threads, v \in Values : Push(t, v)
           \/ \E t \in Threads : Pop(t) \/ Return(t)
    PROVE  PlacesInv'
  <1>1. UNCHANGED <<stage, combiner, word, published, durable, synced, result,
                    val, next, clean, recycle_list, cur_entry, clNewItems,
                    clNewItems_count, free_list>>
    BY DEF Push, Pop, Return, Comb!Invoke, Comb!Return, Comb!sessionVars,
           Comb!wordVars, nodeVars, poolVars, batchVars
  <1>2. PICK t \in Threads :
            \/ \E v \in Args : Comb!Invoke(t, v)
            \/ Comb!Return(t)
    BY DEF Push, Pop, Return, Args
  <1>3. /\ \A u \in Threads : phase'[u] = "applied" => phase[u] = "applied"
        /\ \A u \in Threads : phase'[u] # "idle" => param'[u] \in Args
        /\ phase' \in [Threads -> {"idle", "pending", "applied", "released"}]
        /\ param' \in [Threads -> Args \union {NoArg}]
    <2>1. /\ phase \in [Threads -> {"idle", "pending", "applied", "released"}]
          /\ param \in [Threads -> Args \union {NoArg}]
          /\ \A u \in Threads : phase[u] # "idle" => param[u] \in Args
      BY DEF PlacesInv, TypeInv, TypeOK, ValueInv
    <2>2. CASE \E v \in Args : Comb!Invoke(t, v)
      BY <2>1, <2>2 DEF Comb!Invoke
    <2>3. CASE Comb!Return(t)
      BY <2>1, <2>3 DEF Comb!Return
    <2> QED
      BY <1>2, <2>2, <2>3
  <1>4. TypeInv'
    BY <1>1, <1>3 DEF PlacesInv, TypeInv, TypeOK
  <1>5. /\ InStack(word)' = InStack(word) /\ InStack(published)' = InStack(published)
        /\ InStack(durable)' = InStack(durable) /\ Popped' = Popped
        /\ HasList(word)' = HasList(word) /\ HasList(published)' = HasList(published)
        /\ HasList(durable)' = HasList(durable)
    BY <1>1 DEF InStack, HasList, NodesFrom, Popped
  <1>6. ListInv'
    BY <1>1, <1>5 DEF PlacesInv, ListInv
  <1>7. StageInv'
    BY <1>1, <1>3 DEF PlacesInv, StageInv, Untouched
  <1>8. PlaceInv'
    BY <1>1, <1>5 DEF PlacesInv, PlaceInv
  <1>9. ValueInv'
    BY <1>1, <1>3, <1>5 DEF PlacesInv, ValueInv
  <1> QED
    BY <1>4, <1>6, <1>7, <1>8, <1>9 DEF PlacesInv

LEMMA BeginKeepsPlaces ==
    ASSUME PlacesInv, NEW t \in Threads, Begin(t)
    PROVE  PlacesInv'
  <1>1. /\ stage = "free" /\ stage' = "serving" /\ combiner' = t
        /\ clNewItems' = {} /\ clNewItems_count' = [l \in Lines |-> 0]
        /\ free_list' = <<>>
        /\ UNCHANGED <<phase, param, result, word, published, durable, synced,
                       val, next, clean, recycle_list, cur_entry>>
    BY DEF Begin, EmptyBatch, Comb!Begin, Comb!callVars, Comb!wordVars, nodeVars, poolVars
  <1>2. TypeInv'
    BY <1>1 DEF PlacesInv, TypeInv, TypeOK
  <1>3. ToSet(<<>>) = {} /\ IsInjective(<<>>)
    BY DEF ToSet, IsInjective
  <1>4. Popped = {} /\ Popped' = {}
    BY <1>1, <1>3 DEF Popped
  <1>5. /\ InStack(word)' = InStack(word) /\ InStack(published)' = InStack(published)
        /\ InStack(durable)' = InStack(durable)
        /\ HasList(word)' = HasList(word) /\ HasList(published)' = HasList(published)
        /\ HasList(durable)' = HasList(durable)
    BY <1>1 DEF InStack, HasList, NodesFrom
  <1>6. ListInv'
    BY <1>1, <1>5 DEF PlacesInv, ListInv
  <1>7. StageInv'
    BY <1>1 DEF PlacesInv, StageInv, Untouched
  <1>8. PlaceInv'
    BY <1>1, <1>3, <1>4, <1>5 DEF PlacesInv, PlaceInv
  <1>9. ValueInv'
    BY <1>1, <1>4, <1>5 DEF PlacesInv, ValueInv
  <1> QED
    BY <1>2, <1>6, <1>7, <1>8, <1>9 DEF PlacesInv

LEMMA PopEmptyKeepsPlaces ==
    ASSUME PlacesInv, NEW k \in Threads, PopEmpty(k)
    PROVE  PlacesInv'
  <1>1. /\ stage = "serving" /\ word = Null /\ word' = Null
        /\ result' = [result EXCEPT ![k] = EmptyRet]
        /\ phase' = [phase EXCEPT ![k] = "applied"] /\ phase[k] = "pending"
        /\ UNCHANGED <<param, stage, combiner, published, durable, synced,
                       val, next, clean, recycle_list, cur_entry,
                       clNewItems, clNewItems_count, free_list>>
    BY DEF PopEmpty, Comb!Serve, Comb!sessionVars, nodeVars, poolVars, batchVars
  <1>2. TypeInv'
    BY <1>1 DEF PlacesInv, TypeInv, TypeOK, RetVals
  <1>4. Popped' = Popped
    BY <1>1 DEF Popped
  <1>5. /\ InStack(word)' = InStack(word) /\ InStack(published)' = InStack(published)
        /\ InStack(durable)' = InStack(durable)
        /\ HasList(word)' = HasList(word) /\ HasList(published)' = HasList(published)
        /\ HasList(durable)' = HasList(durable)
    BY <1>1 DEF InStack, HasList, NodesFrom
  <1>6. ListInv'
    BY <1>1, <1>5 DEF PlacesInv, ListInv
  <1>7. StageInv'
    BY <1>1 DEF PlacesInv, StageInv, Untouched
  <1>8. PlaceInv'
    BY <1>1, <1>4, <1>5 DEF PlacesInv, PlaceInv
  <1>9. ValueInv'
    BY <1>1, <1>4, <1>5 DEF PlacesInv, ValueInv, TypeInv, TypeOK
  <1> QED
    BY <1>2, <1>6, <1>7, <1>8, <1>9 DEF PlacesInv

LEMMA PushKeepsPlaces ==
    ASSUME PlacesInv, NEW k \in Threads, PushNode(k)
    PROVE  PlacesInv'
  <1> DEFINE n == AllocatedNode
  <1>1. /\ stage = "serving" /\ word' = n /\ Alloc /\ CanAlloc
        /\ result' = [result EXCEPT ![k] = PushRet]
        /\ phase' = [phase EXCEPT ![k] = "applied"] /\ phase[k] = "pending"
        /\ val' = [val EXCEPT ![n] = param[k]] /\ param[k] # PopOp
        /\ clean' = clean \ {n}
        /\ clNewItems' = clNewItems \union {Line(n)}
        /\ clNewItems_count' = Counted(Line(n))
        /\ UNCHANGED <<param, stage, combiner, published, durable, synced, free_list>>
    BY DEF PushNode, Comb!Serve, Comb!sessionVars
  <1>2. /\ n \in Nodes /\ n \notin InStack(word) \union Popped
        /\ recycle_list' \in Seq(Nodes) /\ IsInjective(recycle_list')
        /\ n \notin ToSet(recycle_list')
        /\ ToSet(recycle_list') \subseteq ToSet(recycle_list)
        /\ cur_entry' \in 0 .. NumNodes
        /\ 0 .. cur_entry' - 1 = (0 .. cur_entry - 1) \union {n}
        /\ ToSet(recycle_list) \subseteq ToSet(recycle_list') \union {n}
    BY <1>1, AllocFresh
  <1>3. /\ next' \in [Nodes -> Words]
        /\ InStack(word)' = {n} \union InStack(word) /\ HasList(word)'
        /\ published # Unformatted => HasList(published)'
        /\ durable # Unformatted => HasList(durable)'
        /\ InStack(published)' = InStack(published)
        /\ InStack(durable)' = InStack(durable)
    BY PushPlaces
  <1> HIDE DEF n
  <1>4. param[k] \in Values
    BY <1>1 DEF PlacesInv, ValueInv, Args
  <1>5. Line(n) \in Lines
    BY <1>2 DEF Line, Lines
  <1>6. Counted(Line(n)) \in [Lines -> Int]
    BY <1>5 DEF PlacesInv, TypeInv, TypeOK, Counted
  <1>7. TypeInv'
    <2>1. NodesAssumption /\ TypeOK
      BY DEF PlacesInv, TypeInv
    <2>2. word' \in Words
      BY <1>1, <1>2 DEF Words
    <2>3. /\ phase' \in [Threads -> {"idle", "pending", "applied", "released"}]
          /\ result' \in [Threads -> RetVals \union {NoVal}]
          /\ val' \in [Nodes -> Values \union {Junk}]
          /\ clean' \subseteq Nodes /\ clNewItems' \subseteq Lines
      BY <1>1, <1>2, <1>4, <1>5, <2>1 DEF TypeOK, RetVals
    <2> QED
      BY <1>1, <1>2, <1>3, <1>6, <2>1, <2>2, <2>3 DEF TypeInv, TypeOK
  <1>8. Popped' = Popped
    BY <1>1 DEF Popped
  <1>9. ListInv'
    BY <1>1, <1>3 DEF ListInv
  <1>10. StageInv'
    BY <1>1 DEF PlacesInv, StageInv, Untouched
  <1>11. PlaceInv'
    <2>1. PlaceInv
      BY DEF PlacesInv
    <2> DEFINE Issued == 0 .. cur_entry - 1
    <2>2. Issued' = Issued \union {n}
      BY <1>2
    <2> HIDE DEF Issued
    <2>3. /\ IsInjective(recycle_list)' /\ IsInjective(free_list)'
          /\ ToSet(recycle_list)' \intersect (InStack(word)' \union Popped') = {}
          /\ InStack(word)' \intersect Popped' = {}
          /\ InStack(published)' \union InStack(durable)' \subseteq
                InStack(word)' \union Popped'
      BY <1>1, <1>2, <1>3, <1>8, <2>1 DEF PlaceInv
    <2>4. ToSet(recycle_list)' \union InStack(word)' \union Popped' \subseteq Issued'
      BY <1>2, <1>3, <1>8, <2>1, <2>2 DEF PlaceInv, Issued
    <2>5. Recycling => Issued' \subseteq
                          ToSet(recycle_list)' \union InStack(word)' \union Popped'
      BY <1>2, <1>3, <1>8, <2>1, <2>2 DEF PlaceInv, Issued
    <2> QED
      BY <2>3, <2>4, <2>5 DEF PlaceInv, Issued
  <1>12. ValueInv'
    <2>1. /\ ValueInv /\ val \in [Nodes -> Values \union {Junk}]
          /\ phase \in [Threads -> {"idle", "pending", "applied", "released"}]
      BY DEF PlacesInv, TypeInv, TypeOK
    <2>2. \A m \in InStack(word)' \union Popped' : val'[m] \in Values
      <3>1. InStack(word) \union Popped \subseteq Nodes
        BY DEF PlacesInv, PlaceInv, TypeInv, TypeOK, Nodes, NodesAssumption
      <3> QED
        BY <3>1, <1>1, <1>2, <1>3, <1>4, <1>8, <2>1 DEF ValueInv
    <2>3. \A t \in Threads : phase'[t] # "idle" => param'[t] \in Args
      BY <1>1, <2>1 DEF ValueInv
    <2> QED
      BY <2>2, <2>3 DEF ValueInv
  <1> QED
    BY <1>7, <1>9, <1>10, <1>11, <1>12 DEF PlacesInv

LEMMA PopKeepsPlaces ==
    ASSUME PlacesInv, NEW k \in Threads, PopNode(k)
    PROVE  PlacesInv'
  <1>1. /\ phase' = [phase EXCEPT ![k] = "applied"] /\ phase[k] = "pending"
        /\ result' = [result EXCEPT ![k] = val[word]]
        /\ clNewItems_count' =
              IF Line(word) \in clNewItems
              THEN [clNewItems_count EXCEPT ![Line(word)] = @ - 1]
              ELSE clNewItems_count
        /\ UNCHANGED <<param, stage, combiner, published, durable, synced,
                       val, next, clean, recycle_list, cur_entry, clNewItems>>
    BY DEF PopNode, Deferred, Comb!Serve, Comb!sessionVars, nodeVars, poolVars
  <1>2. /\ word \in Nodes /\ word' \in Words /\ stage = "serving"
        /\ HasList(word)'
        /\ word \notin InStack(word)' /\ InStack(word) = {word} \union InStack(word)'
        /\ free_list' = Append(free_list, word)
        /\ Popped' = Popped \union {word} /\ word \notin Popped
    BY PopPlaces
  <1>3. /\ NodesAssumption /\ TypeOK /\ ListInv /\ StageInv /\ PlaceInv /\ ValueInv
    BY DEF PlacesInv, TypeInv
  <1>4. free_list \in Seq(Nodes) /\ Popped = ToSet(free_list)
    BY <1>2, <1>3 DEF TypeOK, Popped
  <1>5. /\ free_list' \in Seq(Nodes)
        /\ IsInjective(free_list')
    BY <1>2, <1>3, <1>4, PutLast DEF PlaceInv
  <1>6. TypeInv'
    <2>1. val[word] \in Values
      BY <1>2, <1>3 DEF ValueInv
    <2>2. result' \in [Threads -> RetVals \union {NoVal}]
      BY <2>1, <1>1, <1>3 DEF TypeOK, RetVals
    <2>3. clNewItems_count' \in [Lines -> Int]
      BY <1>1, <1>3 DEF TypeOK
    <2>4. phase' \in [Threads -> {"idle", "pending", "applied", "released"}]
      BY <1>1, <1>3 DEF TypeOK
    <2> QED
      BY <1>1, <1>2, <1>3, <1>5, <2>2, <2>3, <2>4 DEF TypeInv, TypeOK
  <1>7. /\ InStack(published)' = InStack(published) /\ InStack(durable)' = InStack(durable)
        /\ HasList(published)' = HasList(published) /\ HasList(durable)' = HasList(durable)
    BY <1>1 DEF InStack, HasList, NodesFrom
  <1>8. ListInv'
    BY <1>1, <1>2, <1>3, <1>7 DEF ListInv
  <1>9. StageInv'
    BY <1>1, <1>2, <1>3 DEF StageInv, Untouched
  <1>10. PlaceInv'
    BY <1>1, <1>2, <1>3, <1>5, <1>7 DEF PlaceInv
  <1>11. ValueInv'
    BY <1>1, <1>2, <1>3 DEF ValueInv, TypeOK
  <1> QED
    BY <1>6, <1>8, <1>9, <1>10, <1>11 DEF PlacesInv

LEMMA FinalPersistKeepsPlaces ==
    ASSUME PlacesInv, FinalPersist
    PROVE  PlacesInv'
  <1>1. /\ stage = "serving" /\ stage' = "flush_state"
        /\ clean' = clean \union {n \in Nodes : Line(n) \in FlushedLines}
        /\ UNCHANGED <<phase, param, result, combiner, word, published, durable,
                       synced, val, next, recycle_list, cur_entry, clNewItems,
                       clNewItems_count, free_list>>
    BY DEF FinalPersist, Comb!FinalPersist, Comb!Advance, Comb!callVars,
           Comb!wordVars, poolVars, batchVars
  <1>2. TypeInv'
    BY <1>1 DEF PlacesInv, TypeInv, TypeOK
  <1>4. Popped' = Popped
    BY <1>1 DEF Popped
  <1>5. /\ InStack(word)' = InStack(word) /\ InStack(published)' = InStack(published)
        /\ InStack(durable)' = InStack(durable)
        /\ HasList(word)' = HasList(word) /\ HasList(published)' = HasList(published)
        /\ HasList(durable)' = HasList(durable)
    BY <1>1 DEF InStack, HasList, NodesFrom
  <1>6. ListInv'
    BY <1>1, <1>5 DEF PlacesInv, ListInv
  <1>7. StageInv'
    BY <1>1 DEF PlacesInv, StageInv, Untouched
  <1>8. PlaceInv'
    BY <1>1, <1>4, <1>5 DEF PlacesInv, PlaceInv
  <1>9. ValueInv'
    BY <1>1, <1>4, <1>5 DEF PlacesInv, ValueInv
  <1> QED
    BY <1>2, <1>6, <1>7, <1>8, <1>9 DEF PlacesInv

(* The popped nodes go back to the pool: nothing durable leads to them.      *)
LEMMA AfterPersistKeepsPlaces ==
    ASSUME PlacesInv, AfterPersist
    PROVE  PlacesInv'
  <1>1. /\ stage = "after_persist" /\ stage' = "unlock"
        /\ UNCHANGED <<phase, param, result, combiner, word, published, durable,
                       synced, next, cur_entry, clNewItems, clNewItems_count, free_list>>
        /\ IF Recycling
           THEN /\ recycle_list' = Reverse(free_list) \o recycle_list
                /\ val' = [n \in Nodes |->
                              IF n \in ToSet(free_list) THEN Junk ELSE val[n]]
                /\ clean' = clean \ ToSet(free_list)
           ELSE UNCHANGED <<recycle_list, val, clean>>
    BY DEF AfterPersist, Comb!AfterPersist, Comb!Advance, Comb!callVars,
           Comb!wordVars, batchVars
  <1>2. /\ NodesAssumption /\ TypeOK /\ ListInv /\ StageInv /\ PlaceInv /\ ValueInv
    BY DEF PlacesInv, TypeInv
  <1>3. free_list \in Seq(Nodes) /\ recycle_list \in Seq(Nodes)
        /\ Popped = ToSet(free_list) /\ Popped' = {}
    BY <1>1, <1>2 DEF TypeOK, Popped
  <1>4. /\ recycle_list' \in Seq(Nodes) /\ IsInjective(recycle_list')
        /\ ToSet(recycle_list') = ToSet(recycle_list) \union
                                     (IF Recycling THEN Popped ELSE {})
    <2>1. /\ IsInjective(free_list) /\ IsInjective(recycle_list)
          /\ ToSet(free_list) \intersect ToSet(recycle_list) = {}
      BY <1>2, <1>3 DEF PlaceInv
    <2>2. CASE Recycling
      <3>1. recycle_list' = Reverse(free_list) \o recycle_list
        BY <1>1, <2>2
      <3>2. /\ Reverse(free_list) \o recycle_list \in Seq(Nodes)
            /\ IsInjective(Reverse(free_list) \o recycle_list)
            /\ ToSet(Reverse(free_list) \o recycle_list) =
                  ToSet(free_list) \union ToSet(recycle_list)
        BY <1>3, <2>1, PutReversed
      <3> QED
        BY <1>3, <2>2, <3>1, <3>2
    <2>3. CASE ~Recycling
      BY <1>1, <1>3, <2>1, <2>3
    <2> QED
      BY <2>2, <2>3
  <1>5. TypeInv'
    BY <1>1, <1>2, <1>4 DEF TypeInv, TypeOK
  <1>6. /\ InStack(word)' = InStack(word) /\ InStack(published)' = InStack(published)
        /\ InStack(durable)' = InStack(durable)
        /\ HasList(word)' = HasList(word) /\ HasList(published)' = HasList(published)
        /\ HasList(durable)' = HasList(durable)
    BY <1>1 DEF InStack, HasList, NodesFrom
  <1>7. ListInv'
    BY <1>1, <1>2, <1>6 DEF ListInv
  <1>8. StageInv'
    BY <1>1, <1>2 DEF StageInv, Untouched
  <1>9. InStack(published) = InStack(word) /\ InStack(durable) = InStack(word)
    BY <1>1, <1>2 DEF StageInv, InStack
  <1>10. PlaceInv'
    BY <1>1, <1>2, <1>3, <1>4, <1>6, <1>9 DEF PlaceInv
  <1>11. ValueInv'
    <2>1. InStack(word) \subseteq Nodes
      BY <1>2 DEF PlaceInv, TypeOK, Nodes, NodesAssumption
    <2>2. \A n \in InStack(word) : val'[n] \in Values
      BY <1>1, <1>2, <1>3, <2>1 DEF PlaceInv, ValueInv
    <2> QED
      BY <1>1, <1>2, <1>3, <1>6, <2>2 DEF ValueInv
  <1> QED
    BY <1>5, <1>7, <1>8, <1>10, <1>11 DEF PlacesInv


(* The other steps of the session move the pointers only.                    *)
LEMMA CombinerKeepsPlaces ==
    ASSUME PlacesInv, CombinerStep
    PROVE  PlacesInv'
  <1>1. /\ NodesAssumption /\ TypeOK /\ ListInv /\ StageInv /\ PlaceInv /\ ValueInv
    BY DEF PlacesInv, TypeInv
  <1>2. UNCHANGED <<param, result, word, val, next, clean, recycle_list, cur_entry,
                    clNewItems, clNewItems_count, free_list>>
    BY DEF CombinerStep, nodeVars, poolVars, batchVars, Comb!FlushState, Comb!Publish,
           Comb!FlushPointer, Comb!Unlock, Comb!Evict, Comb!Advance, Comb!callVars,
           Comb!sessionVars, Comb!wordVars
  <1>3. /\ InStack(word)' = InStack(word) /\ HasList(word)' = HasList(word)
        /\ published' = published =>
              /\ InStack(published)' = InStack(published)
              /\ HasList(published)' = HasList(published)
        /\ durable' = durable =>
              /\ InStack(durable)' = InStack(durable)
              /\ HasList(durable)' = HasList(durable)
        /\ published' = word =>
              InStack(published)' = InStack(word) /\ HasList(published)' = HasList(word)
        /\ durable' = published =>
              /\ InStack(durable)' = InStack(published)
              /\ HasList(durable)' = HasList(published)
    BY <1>2 DEF InStack, HasList, NodesFrom
  <1>4. CASE Comb!FlushState
    <2>1. /\ stage = "flush_state" /\ stage' = "publish"
          /\ UNCHANGED <<phase, combiner, published, durable, synced>>
      BY <1>4 DEF Comb!FlushState, Comb!Advance, Comb!callVars, Comb!wordVars
    <2>2. Popped' = Popped
      BY <1>2, <2>1 DEF Popped
    <2>3. TypeInv'
      BY <1>1, <1>2, <2>1 DEF TypeInv, TypeOK
    <2>4. ListInv' /\ StageInv'
      BY <1>1, <1>2, <1>3, <2>1 DEF ListInv, StageInv, Untouched
    <2>5. PlaceInv' /\ ValueInv'
      BY <1>1, <1>2, <1>3, <2>1, <2>2 DEF PlaceInv, ValueInv
    <2> QED
      BY <2>3, <2>4, <2>5 DEF PlacesInv
  <1>5. CASE Comb!Publish
    <2>1. /\ stage = "publish" /\ stage' = "flush_pointer"
          /\ published' = word /\ synced' = FALSE
          /\ UNCHANGED <<phase, combiner, durable>>
      BY <1>5 DEF Comb!Publish, Comb!Advance, Comb!callVars
    <2>2. Popped' = Popped
      BY <1>2, <2>1 DEF Popped
    <2>3. TypeInv'
      BY <1>1, <1>2, <2>1 DEF TypeInv, TypeOK
    <2>4. ListInv' /\ StageInv'
      BY <1>1, <1>2, <1>3, <2>1 DEF ListInv, StageInv, Untouched
    <2>5. PlaceInv' /\ ValueInv'
      BY <1>1, <1>2, <1>3, <2>1, <2>2 DEF PlaceInv, ValueInv
    <2> QED
      BY <2>3, <2>4, <2>5 DEF PlacesInv
  <1>6. CASE Comb!FlushPointer
    <2>1. /\ stage = "flush_pointer" /\ stage' = "after_persist"
          /\ durable' = published /\ synced' = TRUE
          /\ UNCHANGED <<phase, combiner, published>>
      BY <1>6 DEF Comb!FlushPointer, Comb!Advance, Comb!callVars
    <2>2. Popped' = Popped
      BY <1>2, <2>1 DEF Popped
    <2>3. TypeInv'
      BY <1>1, <1>2, <2>1 DEF TypeInv, TypeOK
    <2>4. ListInv' /\ StageInv'
      BY <1>1, <1>2, <1>3, <2>1 DEF ListInv, StageInv, Untouched
    <2>5. PlaceInv' /\ ValueInv'
      BY <1>1, <1>2, <1>3, <2>1, <2>2 DEF PlaceInv, ValueInv
    <2> QED
      BY <2>3, <2>4, <2>5 DEF PlacesInv
  <1>7. CASE Comb!Unlock
    <2>1. /\ stage = "unlock" /\ stage' = "free" /\ combiner' = NoThread
          /\ phase' = [t \in Threads |->
                          IF phase[t] = "applied" THEN "released" ELSE phase[t]]
          /\ UNCHANGED <<published, durable, synced>>
      BY <1>7 DEF Comb!Unlock, Comb!wordVars
    <2>2. Popped' = Popped
      BY <1>2, <2>1 DEF Popped
    <2>3. TypeInv'
      BY <1>1, <1>2, <2>1 DEF TypeInv, TypeOK
    <2>4. ListInv' /\ StageInv'
      BY <1>1, <1>2, <1>3, <2>1 DEF ListInv, StageInv, Untouched
    <2>5. PlaceInv' /\ ValueInv'
      BY <1>1, <1>2, <1>3, <2>1, <2>2 DEF PlaceInv, ValueInv
    <2> QED
      BY <2>3, <2>4, <2>5 DEF PlacesInv
  <1>8. CASE Comb!Evict
    <2>1. /\ durable' = published /\ synced' = TRUE
          /\ UNCHANGED <<phase, stage, combiner, published>>
      BY <1>8 DEF Comb!Evict, Comb!callVars, Comb!sessionVars
    <2>2. Popped' = Popped
      BY <1>2, <2>1 DEF Popped
    <2>3. TypeInv'
      BY <1>1, <1>2, <2>1 DEF TypeInv, TypeOK
    <2>4. ListInv' /\ StageInv'
      BY <1>1, <1>2, <1>3, <2>1 DEF ListInv, StageInv, Untouched
    <2>5. PlaceInv' /\ ValueInv'
      BY <1>1, <1>2, <1>3, <2>1, <2>2 DEF PlaceInv, ValueInv
    <2> QED
      BY <2>3, <2>4, <2>5 DEF PlacesInv
  <1> QED
    BY <1>4, <1>5, <1>6, <1>7, <1>8 DEF CombinerStep

LEMMA NextKeepsPlaces ==
    ASSUME PlacesInv, [Next]_vars
    PROVE  PlacesInv'
  <1>1. CASE UNCHANGED vars
    <2>1. UNCHANGED <<phase, param, result, stage, combiner, word, published, durable,
                      synced, val, next, clean, recycle_list, cur_entry, clNewItems,
                      clNewItems_count, free_list>>
      BY <1>1 DEF vars, combVars, nodeVars, poolVars, batchVars
    <2> QED
      BY <2>1 DEF PlacesInv, TypeInv, TypeOK, ListInv, HasList, NodesFrom, StageInv,
                  Untouched, PlaceInv, InStack, Popped, ValueInv
  <1>2. CASE \E t \in Threads, v \in Values : Push(t, v)
    BY <1>2, CallKeepsPlaces
  <1>3. CASE \E t \in Threads : Pop(t) \/ Return(t)
    BY <1>3, CallKeepsPlaces
  <1>4. CASE \E t \in Threads : Begin(t)
    BY <1>4, BeginKeepsPlaces
  <1>5. CASE \E t \in Threads : serialPushPop(t)
    BY <1>5, PopEmptyKeepsPlaces, PopKeepsPlaces, PushKeepsPlaces DEF serialPushPop
  <1>6. CASE FinalPersist \/ AfterPersist \/ CombinerStep
    BY <1>6, FinalPersistKeepsPlaces, AfterPersistKeepsPlaces, CombinerKeepsPlaces
  <1> QED
    BY <1>1, <1>2, <1>3, <1>4, <1>5, <1>6 DEF Next

(* The stack keeps its places: types, lists, pointers, nodes and values.     *)
THEOREM PlacesKept == NodesAssumption /\ Spec => []PlacesInv
  <1>1. NodesAssumption /\ Init => PlacesInv
    BY InitPlaces
  <1>2. PlacesInv /\ [Next]_vars => PlacesInv'
    BY NextKeepsPlaces
  <1> QED
    BY <1>1, <1>2, PTL DEF Spec

(* Every variable stays in its type (TypeOK of the runs).                    *)
THEOREM StackTypes == NodesAssumption /\ Spec => []TypeOK
  <1>1. PlacesInv => TypeOK
    BY DEF PlacesInv, TypeInv
  <1> QED
    BY <1>1, PlacesKept, PTL

(* serialPushPop and after_persist_func: a node is in the stack, popped by   *)
(* the session under way or in the pool, and never in two of these places;   *)
(* no node of the pool is one a crash may bring back.                        *)
THEOREM NodesKept == NodesAssumption /\ Spec => []NodesAccountedFor
  <1>1. ASSUME PlacesInv PROVE NodesAccountedFor
    <2>1. PlaceInv
      BY <1>1 DEF PlacesInv
    <2>2. IsInjective(recycle_list)
      BY <2>1 DEF PlaceInv
    <2>3. ToSet(recycle_list) \intersect (InStack(word) \union InStack(durable)) = {}
      BY <2>1 DEF PlaceInv
    <2>4. InStack(word) \intersect Popped = {}
      BY <2>1 DEF PlaceInv
    <2>5. Recycling =>
              0 .. cur_entry - 1 = ToSet(recycle_list) \union InStack(word) \union Popped
      <3> DEFINE I == 0 .. cur_entry - 1
                 U == ToSet(recycle_list) \union InStack(word) \union Popped
      <3>1. U \subseteq I /\ (Recycling => I \subseteq U)
        BY <2>1 DEF PlaceInv
      <3> HIDE DEF I, U
      <3> QED
        BY <3>1 DEF I, U
    <2> QED
      BY <2>2, <2>3, <2>4, <2>5 DEF NodesAccountedFor
  <1> QED
    BY <1>1, PlacesKept, PTL


-----------------------------------------------------------------------------
(* The arrays of the combiner                                                *)

LEMMA AppliedFinite ==
    ASSUME NodesAssumption
    PROVE  /\ IsFiniteSet(Applied) /\ IsFiniteSet(Threads)
           /\ Cardinality(Applied) \in Nat /\ Cardinality(Threads) \in Nat
           /\ Cardinality(Applied) <= Cardinality(Threads)
  <1>1. IsFiniteSet(Threads) /\ Applied \subseteq Threads
    BY DEF NodesAssumption, Applied
  <1> QED
    BY <1>1, FS_Subset, FS_CardinalityType

(* An operation applied counts for one entry. *)
LEMMA ServeCounts ==
    ASSUME PlacesInv, NEW k \in Threads, phase[k] = "pending",
           phase' = [phase EXCEPT ![k] = "applied"]
    PROVE  Cardinality(Applied') = Cardinality(Applied) + 1
  <1>1. /\ NodesAssumption
        /\ phase \in [Threads -> {"idle", "pending", "applied", "released"}]
    BY DEF PlacesInv, TypeInv, TypeOK
  <1>2. Applied' = Applied \union {k} /\ k \notin Applied
    BY <1>1 DEF Applied
  <1> QED
    BY <1>1, <1>2, AppliedFinite, FS_AddElement

LEMMA NextKeepsArrays ==
    ASSUME PlacesInv, ArrayInv, [Next]_vars
    PROVE  ArrayInv'
  <1>1. /\ NodesAssumption /\ TypeOK
        /\ phase \in [Threads -> {"idle", "pending", "applied", "released"}]
        /\ free_list \in Seq(Nodes) /\ Len(free_list) \in Nat
    BY DEF PlacesInv, TypeInv, TypeOK
  <1>2. /\ Cardinality(Applied) \in Nat /\ Cardinality(Threads) \in Nat
        /\ Cardinality(Applied) <= Cardinality(Threads)
        /\ Cardinality(clNewItems) \in Nat /\ IsFiniteSet(clNewItems)
    BY <1>1, AppliedFinite, FS_CardinalityType DEF ArrayInv
  <1>3. ASSUME UNCHANGED <<clNewItems, free_list, stage>>, Applied' = Applied
        PROVE  ArrayInv'
    BY <1>3 DEF ArrayInv
  <1>4. CASE UNCHANGED vars
    <2>1. UNCHANGED <<clNewItems, free_list, stage, phase>>
      BY <1>4 DEF vars, combVars, batchVars
    <2> QED
      BY <2>1, <1>3 DEF Applied
  <1>5. ASSUME NEW t \in Threads, NEW v, Comb!Invoke(t, v), UNCHANGED batchVars
        PROVE  ArrayInv'
    <2>1. /\ phase[t] = "idle" /\ phase' = [phase EXCEPT ![t] = "pending"]
          /\ UNCHANGED <<clNewItems, free_list, stage>>
      BY <1>5 DEF Comb!Invoke, Comb!sessionVars, batchVars
    <2>2. Applied' = Applied
      BY <2>1, <1>1 DEF Applied
    <2> QED
      BY <2>1, <2>2, <1>3
  <1>6. ASSUME NEW t \in Threads, Return(t)
        PROVE  ArrayInv'
    <2>1. /\ phase[t] = "released" /\ phase' = [phase EXCEPT ![t] = "idle"]
          /\ UNCHANGED <<clNewItems, free_list, stage>>
      BY <1>6 DEF Return, Comb!Return, Comb!sessionVars, batchVars
    <2>2. Applied' = Applied
      BY <2>1, <1>1 DEF Applied
    <2> QED
      BY <2>1, <2>2, <1>3
  <1>7. ASSUME NEW t \in Threads, Begin(t)
        PROVE  ArrayInv'
    <2>1. stage' = "serving" /\ clNewItems' = {} /\ free_list' = <<>> /\ phase' = phase
      BY <1>7 DEF Begin, EmptyBatch, Comb!Begin, Comb!callVars
    <2>2. Applied' = Applied /\ Len(<<>>) = 0 /\ IsFiniteSet({}) /\ Cardinality({}) = 0
      BY <2>1, FS_EmptySet DEF Applied
    <2> QED
      BY <2>1, <2>2, <1>2 DEF ArrayInv
  <1>8. ASSUME NEW k \in Threads, serialPushPop(k)
        PROVE  ArrayInv'
    <2>1. /\ phase[k] = "pending" /\ phase' = [phase EXCEPT ![k] = "applied"]
          /\ stage = "serving" /\ stage' = stage
      BY <1>8 DEF serialPushPop, PopEmpty, PopNode, PushNode, Comb!Serve, Comb!sessionVars
    <2>2. Cardinality(Applied') = Cardinality(Applied) + 1
      BY <2>1, ServeCounts
    <2>3. Cardinality(clNewItems) + Len(free_list) <= Cardinality(Applied)
      BY <2>1 DEF ArrayInv
    <2>4. CASE PopEmpty(k)
      <3>1. UNCHANGED <<clNewItems, free_list>>
        BY <2>4 DEF PopEmpty, batchVars
      <3> QED
        BY <3>1, <2>1, <2>2, <2>3, <1>1, <1>2 DEF ArrayInv
    <2>5. CASE PopNode(k)
      <3>1. clNewItems' = clNewItems /\ free_list' = Append(free_list, word) /\ word \in Nodes
        BY <2>5, PopPlaces DEF PopNode
      <3>2. Len(free_list') = Len(free_list) + 1
        BY <3>1, <1>1
      <3> QED
        BY <3>1, <3>2, <2>1, <2>2, <2>3, <1>1, <1>2 DEF ArrayInv
    <2>6. CASE PushNode(k)
      <3>1. free_list' = free_list /\ clNewItems' = clNewItems \union {Line(AllocatedNode)}
        BY <2>6 DEF PushNode
      <3>2. IsFiniteSet(clNewItems') /\ Cardinality(clNewItems') <= Cardinality(clNewItems) + 1
            /\ Cardinality(clNewItems') \in Nat
        <4>1. PICK l : l = Line(AllocatedNode)
          OBVIOUS
        <4>2. /\ IsFiniteSet(clNewItems \union {l})
              /\ Cardinality(clNewItems \union {l}) =
                    IF l \in clNewItems THEN Cardinality(clNewItems)
                    ELSE Cardinality(clNewItems) + 1
          BY <1>2, FS_AddElement
        <4>3. clNewItems' = clNewItems \union {l}
          BY <3>1, <4>1
        <4> QED
          BY <4>2, <4>3, <1>2
      <3> QED
        BY <3>1, <3>2, <2>1, <2>2, <2>3, <1>1, <1>2 DEF ArrayInv
    <2> QED
      BY <1>8, <2>4, <2>5, <2>6 DEF serialPushPop
  <1>9. CASE CombinerStep /\ Comb!Unlock
    <2>1. stage = "unlock" /\ stage' = "free" /\ UNCHANGED <<clNewItems, free_list>>
      BY <1>9 DEF CombinerStep, Comb!Unlock, batchVars
    <2> QED
      BY <2>1, <1>1, <1>2 DEF ArrayInv
  <1>10. CASE FinalPersist \/ AfterPersist \/ (CombinerStep /\ ~Comb!Unlock)
    <2>1. /\ UNCHANGED <<clNewItems, free_list, phase>>
          /\ (stage = "free" <=> stage' = "free")
      BY <1>10 DEF FinalPersist, AfterPersist, CombinerStep, Comb!FinalPersist,
                   Comb!AfterPersist, Comb!FlushState, Comb!Publish, Comb!FlushPointer,
                   Comb!Evict, Comb!Advance, Comb!callVars, Comb!sessionVars, batchVars
    <2>2. Applied' = Applied
      BY <2>1 DEF Applied
    <2> QED
      BY <2>1, <2>2 DEF ArrayInv
  <1>11. CASE \E t \in Threads, v \in Values : Push(t, v)
    BY <1>5, <1>11 DEF Push
  <1>12. CASE \E t \in Threads : Pop(t)
    BY <1>5, <1>12 DEF Pop
  <1> QED
    BY <1>4, <1>6, <1>7, <1>8, <1>9, <1>10, <1>11, <1>12 DEF Next

(* PBCombStackThreadStateInit gives each array nthreads entries: a session   *)
(* never lists more lines, nor more popped nodes, than there are threads.    *)
THEOREM ArraysAreLargeEnough == NodesAssumption /\ Spec => []ArraysSuffice
  <1>1. NodesAssumption /\ Init => ArrayInv
    <2> SUFFICES ASSUME NodesAssumption, Init PROVE ArrayInv
      OBVIOUS
    <2>1. stage = "free" /\ clNewItems = {} /\ free_list = <<>>
      BY DEF Init, Comb!Init
    <2>2. Cardinality(Threads) \in Nat
      BY AppliedFinite
    <2> QED
      BY <2>1, <2>2, FS_EmptySet DEF ArrayInv
  <1>2. PlacesInv /\ ArrayInv /\ [Next]_vars => ArrayInv'
    BY NextKeepsArrays
  <1>3. ASSUME PlacesInv, ArrayInv PROVE ArraysSuffice
    <2>1. /\ NodesAssumption /\ Len(free_list) \in Nat
          /\ Cardinality(clNewItems) \in Nat
      BY <1>3, FS_CardinalityType DEF PlacesInv, TypeInv, TypeOK, ArrayInv
    <2>2. /\ Cardinality(Applied) \in Nat /\ Cardinality(Threads) \in Nat
          /\ Cardinality(Applied) <= Cardinality(Threads)
      BY <2>1, AppliedFinite
    <2> QED
      BY <1>3, <2>1, <2>2 DEF ArrayInv, ArraysSuffice
  <1> QED
    BY <1>1, <1>2, <1>3, PlacesKept, PTL DEF Spec


-----------------------------------------------------------------------------
(* What is flushed                                                           *)

(* Of three nodes of a line of two, two are the same.                        *)
LEMMA LineOfTwo ==
    ASSUME NodesAssumption, NodesPerLine <= 2,
           NEW a \in Nodes, NEW b \in Nodes, NEW c \in Nodes,
           Line(a) = Line(b), Line(a) = Line(c)
    PROVE  a = b \/ a = c \/ b = c
  <1>1. NodesPerLine = 1 \/ NodesPerLine = 2
    BY DEF NodesAssumption
  <1>2. a \in Nat /\ b \in Nat /\ c \in Nat
    BY DEF Nodes, NodesAssumption
  <1>3. CASE NodesPerLine = 1
    BY <1>2, <1>3 DEF Line
  <1>4. CASE NodesPerLine = 2
    BY <1>2, <1>4 DEF Line
  <1> QED
    BY <1>1, <1>3, <1>4

LEMMA FreshFinite ==
    ASSUME PlacesInv, NEW l
    PROVE  IsFiniteSet(FreshIn(l)) /\ Cardinality(FreshIn(l)) \in Nat
  <1>1. IsFiniteSet(Nodes)
    BY NodesFinite DEF PlacesInv, TypeInv
  <1>2. FreshIn(l) \subseteq Nodes
    BY Views DEF PlacesInv, FreshIn, Fresh
  <1> QED
    BY <1>1, <1>2, FS_Subset, FS_CardinalityType

(* The stack is last in, first out: when the node on top was there before    *)
(* the session, so were all nodes.                                           *)
LEMMA OldBelowOld ==
    ASSUME PlacesInv, word \in InStack(published)
    PROVE  Fresh = {}
  <1>1. NodesAssumption /\ TypeInv /\ ListInv
    BY DEF PlacesInv, TypeInv
  <1>2. published # Unformatted
    BY DEF InStack
  <1>3. /\ next \in [Nodes -> Words] /\ IsList(next, word) /\ IsList(next, published)
        /\ InStack(word) = ToSet(List(next, word))
        /\ InStack(published) = ToSet(List(next, published))
    BY <1>1, <1>2, Views
  <1>4. ToSet(List(next, word)) \subseteq ToSet(List(next, published))
    BY <1>1, <1>3, ListPart
  <1> QED
    BY <1>3, <1>4 DEF Fresh

LineInv == PlacesInv /\ FreshInv /\ CountInv /\ CleanInv

LEMMA PushKeepsLines ==
    ASSUME LineInv, NEW k \in Threads, PushNode(k)
    PROVE  FreshInv' /\ CountInv' /\ CleanInv'
  <1>0. PICK n, c : n = AllocatedNode /\ c = Line(n)
    OBVIOUS
  <1>1. /\ stage = "serving" /\ stage' = stage /\ word' = n /\ Alloc /\ CanAlloc
        /\ clean' = clean \ {n}
        /\ clNewItems' = clNewItems \union {c}
        /\ clNewItems_count' = Counted(c)
        /\ UNCHANGED free_list
    BY <1>0 DEF PushNode, Comb!Serve, Comb!sessionVars
  <1>2. PlacesInv /\ FreshInv /\ CountInv /\ CleanInv
    BY DEF LineInv
  <1>3. /\ n \in Nodes /\ n \notin InStack(word) \union Popped
        /\ n \notin InStack(published) \union InStack(durable)
    BY <1>0, <1>1, <1>2, AllocFresh
  <1>4. /\ InStack(word)' = {n} \union InStack(word)
        /\ InStack(published)' = InStack(published)
        /\ InStack(durable)' = InStack(durable)
    BY <1>0, <1>2, PushPlaces
  <1>5. Popped' = Popped
    BY <1>1 DEF Popped
  <1>6. /\ Fresh' = Fresh \union {n} /\ n \notin Fresh
        /\ FreshIn(c)' = FreshIn(c) \union {n}
        /\ \A l : l # c => FreshIn(l)' = FreshIn(l)
        /\ n \notin FreshIn(c)
        /\ \A l : PoppedOf(l)' = PoppedOf(l)
    BY <1>0, <1>3, <1>4, <1>5 DEF Fresh, FreshIn, PoppedOf
  <1>7. FreshInv'
    BY <1>0, <1>1, <1>2, <1>6 DEF FreshInv
  <1>8. CountInv'
    <2> SUFFICES ASSUME NodesPerLine <= 2, NEW l \in clNewItems'
                 PROVE  (IF FreshIn(l) # {}
                         THEN clNewItems_count[l] = Cardinality(FreshIn(l))
                         ELSE /\ PoppedOf(l) # {}
                              /\ \/ clNewItems_count[l] = 0
                                 \/ \A m \in Nodes : Line(m) = l => m \in Popped)'
      BY DEF CountInv
    <2>1. /\ clNewItems_count \in [Lines -> Int] /\ c \in Lines /\ clNewItems \subseteq Lines
      BY <1>0, <1>2, <1>3 DEF PlacesInv, TypeInv, TypeOK, Lines, Line
    <2>2. clNewItems_count'[c] = (IF c \in clNewItems THEN clNewItems_count[c] + 1 ELSE 1)
          /\ \A d \in Lines : d # c => clNewItems_count'[d] = clNewItems_count[d]
      BY <1>1, <2>1 DEF Counted
    <2>3. CASE l = c
      <3>1. FreshIn(c)' = FreshIn(c) \union {n}
        BY <1>6
      <3>2. Cardinality(FreshIn(c)') = Cardinality(FreshIn(c)) + 1
        BY <3>1, <1>2, <1>6, FreshFinite, FS_AddElement
      <3>3. Cardinality(FreshIn(c)) = (IF c \in clNewItems THEN clNewItems_count[c] ELSE 0)
        <4>1. CASE c \notin clNewItems
          <5>1. FreshIn(c) = {}
            BY <4>1, <1>1, <1>2 DEF FreshInv, FreshIn
          <5> QED
            BY <4>1, <5>1, FS_EmptySet
        <4>2. CASE c \in clNewItems /\ FreshIn(c) # {}
          BY <4>2, <1>1, <1>2 DEF CountInv
        <4>3. CASE c \in clNewItems /\ FreshIn(c) = {}
          <5>1. \/ clNewItems_count[c] = 0
                \/ \A m \in Nodes : Line(m) = c => m \in Popped
            BY <4>3, <1>1, <1>2 DEF CountInv
          <5>2. ~ \A m \in Nodes : Line(m) = c => m \in Popped
            BY <1>0, <1>3
          <5> QED
            BY <4>3, <5>1, <5>2, FS_EmptySet
        <4> QED
          BY <4>1, <4>2, <4>3
      <3>4. clNewItems_count'[c] = Cardinality(FreshIn(c)')
        BY <3>2, <3>3, <2>2, <1>2, FreshFinite
      <3> QED
        BY <2>3, <3>1, <3>4
    <2>4. CASE l # c
      <3>1. l \in clNewItems /\ FreshIn(l)' = FreshIn(l) /\ PoppedOf(l)' = PoppedOf(l)
            /\ clNewItems_count'[l] = clNewItems_count[l]
        BY <2>1, <2>2, <2>4, <1>1, <1>6
      <3>2. IF FreshIn(l) # {}
            THEN clNewItems_count[l] = Cardinality(FreshIn(l))
            ELSE /\ PoppedOf(l) # {}
                 /\ \/ clNewItems_count[l] = 0
                    \/ \A m \in Nodes : Line(m) = l => m \in Popped
        BY <3>1, <1>1, <1>2 DEF CountInv
      <3> QED
        BY <3>1, <3>2, <1>5
    <2> QED
      BY <2>3, <2>4
  <1>9. CleanInv'
    BY <1>1, <1>2, <1>3, <1>4 DEF CleanInv
  <1> QED
    BY <1>7, <1>8, <1>9

LEMMA PopKeepsLines ==
    ASSUME LineInv, NEW k \in Threads, PopNode(k)
    PROVE  FreshInv' /\ CountInv' /\ CleanInv'
  <1>0. PICK n, c : n = word /\ c = Line(n)
    OBVIOUS
  <1>1. /\ clNewItems_count' =
              IF c \in clNewItems
              THEN [clNewItems_count EXCEPT ![c] = @ - 1]
              ELSE clNewItems_count
        /\ UNCHANGED <<clNewItems, clean>>
    BY <1>0 DEF PopNode, Deferred, nodeVars
  <1>2. PlacesInv /\ FreshInv /\ CountInv /\ CleanInv
    BY DEF LineInv
  <1>3. /\ n \in Nodes /\ stage = "serving" /\ stage' = stage
        /\ n \notin InStack(word)' /\ InStack(word) = {n} \union InStack(word)'
        /\ Popped' = Popped \union {n} /\ n \notin Popped
        /\ UNCHANGED <<next, published, durable>>
    BY <1>0, <1>2, PopPlaces
  <1>4. InStack(published)' = InStack(published) /\ InStack(durable)' = InStack(durable)
    BY <1>3, SameNodes
  <1>5. /\ Fresh' = Fresh \ {n}
        /\ \A l : FreshIn(l)' = FreshIn(l) \ {n}
        /\ PoppedOf(c)' = PoppedOf(c) \union {n}
        /\ n \in PoppedOf(c)'
        /\ \A l : l # c => PoppedOf(l)' = PoppedOf(l)
        /\ \A l : l # c => n \notin FreshIn(l)
    BY <1>0, <1>3, <1>4 DEF Fresh, FreshIn, PoppedOf
  <1>6. FreshInv'
    BY <1>1, <1>2, <1>3, <1>5 DEF FreshInv
  <1>7. CountInv'
    <2> SUFFICES ASSUME NodesPerLine <= 2, NEW l \in clNewItems
                 PROVE  (IF FreshIn(l) # {}
                         THEN clNewItems_count[l] = Cardinality(FreshIn(l))
                         ELSE /\ PoppedOf(l) # {}
                              /\ \/ clNewItems_count[l] = 0
                                 \/ \A m \in Nodes : Line(m) = l => m \in Popped)'
      BY <1>1 DEF CountInv
    <2>1. /\ clNewItems_count \in [Lines -> Int] /\ clNewItems \subseteq Lines
          /\ NodesAssumption /\ Popped \subseteq Nodes
      <3>1. TypeInv
        BY <1>2 DEF PlacesInv
      <3>2. free_list \in Seq(Nodes)
        BY <3>1 DEF TypeInv, TypeOK
      <3>3. Popped \subseteq Nodes
        BY <3>2, InjectiveSeq DEF Popped
      <3> QED
        BY <3>1, <3>3 DEF TypeInv, TypeOK
    <2>2. IF FreshIn(l) # {}
          THEN clNewItems_count[l] = Cardinality(FreshIn(l))
          ELSE /\ PoppedOf(l) # {}
               /\ \/ clNewItems_count[l] = 0
                  \/ \A m \in Nodes : Line(m) = l => m \in Popped
      BY <1>2, <1>3 DEF CountInv
    <2>3. CASE l = c /\ n \in Fresh
      <3>1. n \in FreshIn(c) /\ n \in PoppedOf(c)'
        BY <2>3, <1>0, <1>5 DEF FreshIn
      <3>2. clNewItems_count[c] = Cardinality(FreshIn(c))
        BY <2>2, <2>3, <3>1
      <3>3. clNewItems_count'[c] = clNewItems_count[c] - 1
        BY <2>1, <2>3, <1>1
      <3>4. Cardinality(FreshIn(c) \ {n}) = Cardinality(FreshIn(c)) - 1
        BY <3>1, <1>2, FreshFinite, FS_RemoveElement
      <3>5. clNewItems_count'[c] = Cardinality(FreshIn(c)') /\ FreshIn(c)' = FreshIn(c) \ {n}
        BY <3>2, <3>3, <3>4, <1>5
      <3>6. FreshIn(c)' = {} => clNewItems_count'[c] = 0
        BY <3>5, FS_EmptySet
      <3> QED
        BY <2>3, <3>1, <3>5, <3>6
    <2>4. CASE l = c /\ n \notin Fresh
      <3>1. n \in InStack(published)
        BY <2>4, <1>3 DEF Fresh
      <3>2. Fresh = {}
        BY <3>1, <1>0, <1>2, OldBelowOld
      <3>3. FreshIn(c) = {} /\ FreshIn(c)' = {}
        BY <3>2, <1>5 DEF FreshIn
      <3>4. PICK m : m \in PoppedOf(c)
        BY <2>2, <2>4, <3>3
      <3>5. m \in Nodes /\ Line(m) = c /\ m # n /\ m \in Popped
        BY <3>4, <2>1, <1>3 DEF PoppedOf
      <3>6. \A p \in Nodes : Line(p) = c => p = m \/ p = n
        BY <3>5, <2>1, <1>0, <1>3, LineOfTwo
      <3>7. \A p \in Nodes : Line(p) = c => p \in Popped'
        BY <3>5, <3>6, <1>3
      <3>8. n \in PoppedOf(c)'
        BY <1>5
      <3> QED
        BY <2>4, <3>3, <3>7, <3>8
    <2>5. CASE l # c
      <3>1. /\ FreshIn(l)' = FreshIn(l) /\ PoppedOf(l)' = PoppedOf(l)
            /\ clNewItems_count'[l] = clNewItems_count[l]
        BY <2>1, <2>5, <1>1, <1>5
      <3> QED
        BY <2>2, <3>1, <1>3
    <2> QED
      BY <2>3, <2>4, <2>5
  <1>8. CleanInv'
    BY <1>1, <1>2, <1>3, <1>4 DEF CleanInv
  <1> QED
    BY <1>6, <1>7, <1>8


(* The lines flushed hold every node the session leaves in the stack, unless *)
(* three nodes share a line and lines are eliminated.                        *)
LEMMA FreshFlushed ==
    ASSUME LineInv, FlushesAll, stage = "serving", NEW n \in Fresh
    PROVE  Line(n) \in FlushedLines
  <1>1. PlacesInv /\ FreshInv /\ CountInv
    BY DEF LineInv
  <1>2. Line(n) \in clNewItems
    BY <1>1 DEF FreshInv
  <1>3. CASE ~Elimination
    BY <1>2, <1>3 DEF FlushedLines
  <1>4. CASE NodesPerLine <= 2
    <2>1. n \in FreshIn(Line(n))
      BY DEF FreshIn
    <2>2. clNewItems_count[Line(n)] = Cardinality(FreshIn(Line(n)))
      BY <2>1, <1>1, <1>2, <1>4 DEF CountInv
    <2>3. Cardinality(FreshIn(Line(n))) # 0
      BY <2>1, <1>1, FreshFinite, FS_EmptySet
    <2>4. clNewItems_count[Line(n)] # 0
      BY <2>2, <2>3
    <2> QED
      BY <2>4, <1>2 DEF FlushedLines
  <1> QED
    BY <1>3, <1>4 DEF FlushesAll

LEMMA FinalPersistKeepsLines ==
    ASSUME LineInv, FlushesAll, FinalPersist
    PROVE  FreshInv' /\ CountInv' /\ CleanInv'
  <1>1. /\ stage = "serving" /\ stage' = "flush_state"
        /\ clean' = clean \union {n \in Nodes : Line(n) \in FlushedLines}
        /\ UNCHANGED <<word, published, durable, next>>
    BY DEF FinalPersist, Comb!FinalPersist, Comb!Advance, Comb!wordVars, poolVars
  <1>2. /\ InStack(word)' = InStack(word) /\ InStack(published)' = InStack(published)
        /\ InStack(durable)' = InStack(durable)
    BY <1>1, SameNodes
  <1>3. InStack(word) \subseteq clean'
    <2>1. InStack(word) \subseteq Nodes
      BY Views DEF LineInv, PlacesInv
    <2>2. InStack(published) \subseteq clean
      BY DEF LineInv, CleanInv
    <2>3. \A n \in Fresh : Line(n) \in FlushedLines
      BY <1>1, FreshFlushed
    <2> QED
      BY <1>1, <2>1, <2>2, <2>3 DEF Fresh
  <1>4. CleanInv'
    BY <1>1, <1>2, <1>3 DEF LineInv, CleanInv
  <1> QED
    BY <1>1, <1>4 DEF FreshInv, CountInv

LEMMA NextKeepsLines ==
    ASSUME LineInv, FlushesAll, [Next]_vars
    PROVE  FreshInv' /\ CountInv' /\ CleanInv'
  <1>1. /\ PlacesInv /\ FreshInv /\ CountInv /\ CleanInv /\ StageInv /\ PlaceInv
        /\ stage \in {"free", "serving", "flush_state", "publish", "flush_pointer",
                      "after_persist", "unlock"}
    BY DEF LineInv, PlacesInv, TypeInv, TypeOK
  <1>2. ASSUME UNCHANGED <<stage, word, published, durable, next, clean, clNewItems,
                           clNewItems_count, free_list>>
        PROVE  FreshInv' /\ CountInv' /\ CleanInv'
    <2>1. /\ InStack(word)' = InStack(word) /\ InStack(published)' = InStack(published)
          /\ InStack(durable)' = InStack(durable)
      BY <1>2, SameNodes
    <2>2. CleanInv'
      BY <1>1, <1>2, <2>1 DEF CleanInv
    <2>3. Fresh' = Fresh /\ Popped' = Popped
      BY <1>2, <2>1 DEF Fresh, Popped
    <2>4. \A l : FreshIn(l)' = FreshIn(l) /\ PoppedOf(l)' = PoppedOf(l)
      BY <2>3 DEF FreshIn, PoppedOf
    <2>5. FreshInv'
      BY <1>1, <1>2, <2>3 DEF FreshInv
    <2>6. CountInv'
      BY <1>1, <1>2, <2>3, <2>4 DEF CountInv
    <2> QED
      BY <2>2, <2>5, <2>6
  <1>3. ASSUME stage' # "serving", CleanInv'
        PROVE  FreshInv' /\ CountInv' /\ CleanInv'
    BY <1>3 DEF FreshInv, CountInv
  <1>4. CASE UNCHANGED vars
    BY <1>2, <1>4 DEF vars, combVars, nodeVars, batchVars
  <1>5. CASE \E t \in Threads : (\E v \in Values : Push(t, v)) \/ Pop(t) \/ Return(t)
    BY <1>2, <1>5 DEF Push, Pop, Return, Comb!Invoke, Comb!Return, Comb!sessionVars,
                      Comb!wordVars, nodeVars, batchVars
  <1>6. CASE \E t \in Threads : Begin(t)
    <2>1. /\ stage = "free" /\ stage' = "serving" /\ clNewItems' = {}
          /\ UNCHANGED <<word, published, durable, next, clean>>
      BY <1>6 DEF Begin, EmptyBatch, Comb!Begin, Comb!wordVars, nodeVars
    <2>2. /\ InStack(word)' = InStack(word) /\ InStack(published)' = InStack(published)
          /\ InStack(durable)' = InStack(durable)
      BY <2>1, SameNodes
    <2>3. Fresh = {}
      <3>1. CASE published = word
        BY <3>1 DEF Fresh, InStack
      <3>2. CASE Untouched /\ word = Null
        <4>1. /\ NodesAssumption /\ next \in [Nodes -> Words]
              /\ InStack(word) = ToSet(List(next, word))
          BY <1>1, Views DEF PlacesInv, TypeInv
        <4>2. List(next, word) = <<>>
          BY <3>2, <4>1, ListNull
        <4>3. InStack(word) = {}
          BY <4>1, <4>2 DEF ToSet
        <4> QED
          BY <4>3 DEF Fresh
      <3> QED
        BY <3>1, <3>2, <2>1, <1>1 DEF StageInv
    <2>4. FreshInv'
      BY <2>2, <2>3 DEF FreshInv, Fresh
    <2>5. CountInv' /\ CleanInv'
      BY <2>1, <2>2, <1>1 DEF CountInv, CleanInv
    <2> QED
      BY <2>4, <2>5
  <1>7. CASE \E t \in Threads : serialPushPop(t)
    <2>1. ASSUME NEW t \in Threads, PopEmpty(t)
          PROVE  FreshInv' /\ CountInv' /\ CleanInv'
      BY <2>1, <1>2 DEF PopEmpty, Comb!Serve, Comb!sessionVars, nodeVars, batchVars
    <2> QED
      BY <2>1, <1>7, PushKeepsLines, PopKeepsLines DEF serialPushPop
  <1>8. CASE FinalPersist
    BY <1>8, FinalPersistKeepsLines
  <1>9. CASE AfterPersist
    <2>1. /\ stage = "after_persist" /\ stage' = "unlock"
          /\ UNCHANGED <<word, published, durable, next>>
          /\ clean \ ToSet(free_list) \subseteq clean'
      BY <1>9 DEF AfterPersist, Comb!AfterPersist, Comb!Advance, Comb!wordVars
    <2>2. /\ InStack(word)' = InStack(word) /\ InStack(published)' = InStack(published)
          /\ InStack(durable)' = InStack(durable)
      BY <2>1, SameNodes
    <2>3. InStack(published) = InStack(word) /\ InStack(durable) = InStack(word)
      BY <2>1, <1>1 DEF StageInv, InStack
    <2>4. InStack(word) \intersect ToSet(free_list) = {}
      BY <2>1, <1>1 DEF PlaceInv, Popped
    <2>5. CleanInv'
      BY <2>1, <2>2, <2>3, <2>4, <1>1 DEF CleanInv
    <2> QED
      BY <1>3, <2>1, <2>5
  <1>10. CASE CombinerStep
    <2>1. UNCHANGED <<word, next, clean, clNewItems, clNewItems_count, free_list>>
      BY <1>10 DEF CombinerStep, nodeVars, batchVars, Comb!FlushState, Comb!Publish,
           Comb!FlushPointer, Comb!Unlock, Comb!Evict, Comb!wordVars
    <2>2. /\ InStack(word)' = InStack(word)
          /\ published' = published => InStack(published)' = InStack(published)
          /\ durable' = durable => InStack(durable)' = InStack(durable)
          /\ published' = word => InStack(published)' = InStack(word)
          /\ durable' = published => InStack(durable)' = InStack(published)
      BY <2>1, SameNodes
    <2>3. CASE Comb!FlushState
      <3>1. stage = "flush_state" /\ stage' = "publish" /\ UNCHANGED <<published, durable>>
        BY <2>3 DEF Comb!FlushState, Comb!Advance, Comb!wordVars
      <3> QED
        BY <3>1, <2>1, <2>2, <1>1, <1>3 DEF CleanInv
    <2>4. CASE Comb!Publish
      <3>1. /\ stage = "publish" /\ stage' = "flush_pointer"
            /\ published' = word /\ durable' = durable
        BY <2>4 DEF Comb!Publish, Comb!Advance
      <3> QED
        BY <3>1, <2>1, <2>2, <1>1, <1>3 DEF CleanInv
    <2>5. CASE Comb!FlushPointer
      <3>1. /\ stage = "flush_pointer" /\ stage' = "after_persist"
            /\ durable' = published /\ published' = published
        BY <2>5 DEF Comb!FlushPointer, Comb!Advance
      <3> QED
        BY <3>1, <2>1, <2>2, <1>1, <1>3 DEF CleanInv
    <2>6. CASE Comb!Unlock
      <3>1. stage = "unlock" /\ stage' = "free" /\ UNCHANGED <<published, durable>>
        BY <2>6 DEF Comb!Unlock, Comb!wordVars
      <3> QED
        BY <3>1, <2>1, <2>2, <1>1, <1>3 DEF CleanInv
    <2>7. CASE Comb!Evict
      <3>1. durable' = published /\ UNCHANGED <<stage, published>>
        BY <2>7 DEF Comb!Evict, Comb!sessionVars
      <3>2. CleanInv'
        BY <3>1, <2>1, <2>2, <1>1 DEF CleanInv
      <3>3. Fresh' = Fresh /\ Popped' = Popped
        BY <3>1, <2>1, <2>2 DEF Fresh, Popped
      <3>4. \A l : FreshIn(l)' = FreshIn(l) /\ PoppedOf(l)' = PoppedOf(l)
        BY <3>3 DEF FreshIn, PoppedOf
      <3>5. FreshInv'
        BY <1>1, <2>1, <3>1, <3>3 DEF FreshInv
      <3>6. CountInv'
        BY <1>1, <2>1, <3>1, <3>3, <3>4 DEF CountInv
      <3> QED
        BY <3>2, <3>5, <3>6
    <2> QED
      BY <1>10, <2>3, <2>4, <2>5, <2>6, <2>7 DEF CombinerStep
  <1> QED
    BY <1>4, <1>5, <1>6, <1>7, <1>8, <1>9, <1>10 DEF Next

LEMMA LinesKept == NodesAssumption /\ FlushesAll /\ Spec => []LineInv
  <1> SUFFICES ASSUME NodesAssumption, FlushesAll PROVE Spec => []LineInv
    OBVIOUS
  <1>1. ASSUME Init PROVE LineInv
    <2>1. PlacesInv
      BY <1>1, InitPlaces
    <2>2. stage = "free" /\ published = Unformatted /\ durable = Unformatted
      BY <1>1 DEF Init, Comb!Init
    <2>3. InStack(published) = {} /\ InStack(durable) = {}
      BY <2>2 DEF InStack
    <2> QED
      BY <2>1, <2>2, <2>3 DEF LineInv, FreshInv, CountInv, CleanInv
  <1>2. LineInv /\ [Next]_vars => LineInv'
    BY NextKeepsLines, NextKeepsPlaces DEF LineInv
  <1> QED
    BY <1>1, <1>2, PTL DEF Spec

(* clPersist_pushed_nodes: whenever the machine crashes, the durable head    *)
(* leads to nodes that are durable, all of them.  With elimination this is a *)
(* theorem as long as a line holds at most two nodes; run pbstack_elimination*)
(* shows the state with three in which it is false.                          *)
THEOREM StackWhole == NodesAssumption /\ FlushesAll /\ Spec => []WholeAfterCrash
  <1>1. LineInv => WholeAfterCrash
    BY DEF LineInv, CleanInv, WholeAfterCrash
  <1> QED
    BY <1>1, LinesKept, PTL


-----------------------------------------------------------------------------
(* PBstack is a durable stack                                                *)

(* What the nodes of a list hold. *)
Held(v, s) == [i \in 1 .. Len(s) |-> v[s[i]]]

LEMMA HeldPushed ==
    ASSUME NEW S, NEW s \in Seq(S), NEW n \in S, NEW v
    PROVE  /\ Held(v, <<n>> \o s) = <<v[n]>> \o Held(v, s)
           /\ Tail(<<v[n]>> \o Held(v, s)) = Held(v, s)
           /\ Head(<<v[n]>> \o Held(v, s)) = v[n]
           /\ <<v[n]>> \o Held(v, s) # <<>>
  <1> DEFINE t == <<n>> \o s
             h == Held(v, s)
             R == {v[x] : x \in S}
  <1>1. /\ Len(s) \in Nat /\ t \in Seq(S) /\ Len(t) = Len(s) + 1 /\ t[1] = n
        /\ \A i \in 1 .. Len(s) : t[i + 1] = s[i] /\ s[i] \in S
    OBVIOUS
  <1>2. h \in [1 .. Len(s) -> R] /\ v[n] \in R
    BY <1>1 DEF Held
  <1>3. h \in Seq(R) /\ Len(h) = Len(s)
    BY <1>1, <1>2 DEF Held
  <1>4. h = [i \in 1 .. Len(s) |-> v[s[i]]] /\ Held(v, t) = [i \in 1 .. Len(t) |-> v[t[i]]]
    BY DEF Held
  <1> HIDE DEF t, h, R
  <1>5. /\ <<v[n]>> \o h \in Seq(R) /\ Len(<<v[n]>> \o h) = Len(s) + 1
        /\ (<<v[n]>> \o h)[1] = v[n]
        /\ \A i \in 1 .. Len(s) : (<<v[n]>> \o h)[i + 1] = h[i]
    BY <1>2, <1>3
  <1>6. /\ Held(v, t) \in Seq(R) /\ Len(Held(v, t)) = Len(s) + 1
    <2>1. \A i \in 1 .. Len(t) : t[i] \in S
      BY <1>1
    <2>2. Held(v, t) \in [1 .. Len(t) -> R]
      BY <2>1, <1>4 DEF R
    <2> QED
      BY <2>2, <1>1 DEF Held
  <1>7. \A i \in 1 .. Len(s) + 1 : Held(v, t)[i] = (<<v[n]>> \o h)[i]
    <2> TAKE i \in 1 .. Len(s) + 1
    <2>1. CASE i = 1
      BY <2>1, <1>1, <1>4, <1>5
    <2>2. CASE i # 1
      <3>1. i - 1 \in 1 .. Len(s) /\ (i - 1) + 1 = i
        BY <2>2, <1>1
      <3>2. t[i] = s[i - 1] /\ (<<v[n]>> \o h)[i] = h[i - 1]
        BY <3>1, <1>1, <1>5
      <3> QED
        BY <3>1, <3>2, <1>1, <1>4
    <2> QED
      BY <2>1, <2>2
  <1>8. Held(v, t) = <<v[n]>> \o h
    BY <1>5, <1>6, <1>7, SeqEqual
  <1>9. /\ <<v[n]>> \o h # <<>> /\ Head(<<v[n]>> \o h) = v[n]
        /\ Tail(<<v[n]>> \o h) \in Seq(R) /\ Len(Tail(<<v[n]>> \o h)) = Len(s)
        /\ \A i \in 1 .. Len(s) : Tail(<<v[n]>> \o h)[i] = (<<v[n]>> \o h)[i + 1]
    BY <1>1, <1>5
  <1>10. Tail(<<v[n]>> \o h) = h
    BY <1>3, <1>5, <1>9, SeqEqual
  <1> QED
    BY <1>8, <1>9, <1>10 DEF t, h


LEMMA HeldKept ==
    ASSUME NEW S, NEW s \in Seq(S), NEW v, NEW u, \A n \in ToSet(s) : u[n] = v[n]
    PROVE  Held(u, s) = Held(v, s)
  <1>1. ToSet(s) = {s[i] : i \in 1 .. Len(s)}
    BY InjectiveSeq
  <1> QED
    BY <1>1 DEF Held

(* An operation is durable once the pointer that publishes it is.            *)
HasPersisted == synced /\ stage \in {"flush_pointer", "after_persist", "unlock"}

AbstractPhase(t) ==
    IF phase[t] = "released" \/ (phase[t] = "applied" /\ HasPersisted)
    THEN "durable" ELSE phase[t]

AbstractParam(t) == IF phase[t] = "pending" THEN param[t] ELSE NoArg

(* The four kinds of steps of the abstract stack, by what becomes of its     *)
(* variables.                                                                *)
LEMMA SilentRefines ==
    ASSUME \A t \in Threads : AbstractPhase(t)' = AbstractPhase(t),
           \A t \in Threads : AbstractParam(t)' = AbstractParam(t),
           result' = result, Contents(word)' = Contents(word),
           Recovered(durable)' = Recovered(durable)
    PROVE  UNCHANGED DurableStack!vars
  BY DEF DurableStack!vars, AbstractPhase, AbstractParam, HasPersisted

LEMMA InvokeRefines ==
    ASSUME NEW t \in Threads, NEW a, AbstractPhase(t) = "idle",
           AbstractPhase(t)' = "pending", AbstractParam(t)' = a,
           \A u \in Threads : u # t => /\ AbstractPhase(u)' = AbstractPhase(u)
                                       /\ AbstractParam(u)' = AbstractParam(u),
           result' = result, Contents(word)' = Contents(word),
           Recovered(durable)' = Recovered(durable)
    PROVE  DurableStack!Invoke(t, a)
  BY DEF DurableStack!Invoke, AbstractPhase, AbstractParam, HasPersisted

LEMMA ApplyRefines ==
    ASSUME NEW t \in Threads, AbstractPhase(t) = "pending",
           AbstractPhase(t)' = "applied", AbstractParam(t)' = NoArg,
           \A u \in Threads : u # t => /\ AbstractPhase(u)' = AbstractPhase(u)
                                       /\ AbstractParam(u)' = AbstractParam(u),
           result' = [result EXCEPT ![t] = Stack(Contents(word), AbstractParam(t), t).ret],
           Contents(word)' = Stack(Contents(word), AbstractParam(t), t).state,
           Recovered(durable)' = Recovered(durable)
    PROVE  DurableStack!Apply(t)
  BY DEF DurableStack!Apply, AbstractPhase, AbstractParam, HasPersisted

LEMMA PersistRefines ==
    ASSUME \A t \in Threads : AbstractPhase(t)' =
               IF AbstractPhase(t) = "applied" THEN "durable" ELSE AbstractPhase(t),
           \A t \in Threads : AbstractParam(t)' = AbstractParam(t),
           result' = result, Contents(word)' = Contents(word),
           Recovered(durable)' = Contents(word)
    PROVE  DurableStack!Persist
  BY DEF DurableStack!Persist, AbstractPhase, AbstractParam, HasPersisted

LEMMA ReturnRefines ==
    ASSUME NEW t \in Threads, AbstractPhase(t) = "durable",
           AbstractPhase(t)' = "idle",
           \A u \in Threads : u # t => AbstractPhase(u)' = AbstractPhase(u),
           \A u \in Threads : AbstractParam(u)' = AbstractParam(u),
           result' = result, Contents(word)' = Contents(word),
           Recovered(durable)' = Recovered(durable)
    PROVE  DurableStack!Return(t)
  BY DEF DurableStack!Return, AbstractPhase, AbstractParam, HasPersisted


(* What a crash leaves is what the durable head leads to, before a step ...  *)
LEMMA RecoveredIs ==
    ASSUME LineInv
    PROVE  Recovered(durable) = IF durable = Unformatted THEN Unformatted
                                ELSE Held(val, List(next, durable))
  <1>1. InStack(durable) \subseteq clean
    BY DEF LineInv, CleanInv
  <1> QED
    BY <1>1 DEF Recovered, Contents, NodesFrom, List, Held

(* ... and after it.                                                         *)
LEMMA RecoveredAfter ==
    ASSUME LineInv'
    PROVE  Recovered(durable)' = IF durable' = Unformatted THEN Unformatted
                                 ELSE Held(val', List(next', durable'))
  <1>1. InStack(durable)' \subseteq clean'
    BY DEF LineInv, CleanInv
  <1> QED
    BY <1>1 DEF Recovered, Contents, NodesFrom, List, Held

LEMMA ContentsIs ==
    /\ Contents(word) = Held(val, List(next, word))
    /\ Contents(word)' = Held(val', List(next', word'))
  BY DEF Contents, NodesFrom, List, Held

(* A step that writes no node and moves no pointer. *)
LEMMA SameContents ==
    ASSUME LineInv, LineInv', UNCHANGED <<val, next, word, durable>>
    PROVE  /\ Contents(word)' = Contents(word)
           /\ Recovered(durable)' = Recovered(durable)
  BY ContentsIs, RecoveredIs, RecoveredAfter

LEMMA CallRefines ==
    ASSUME LineInv, LineInv', NEW t \in Threads
    PROVE  /\ \A v \in Args : Comb!Invoke(t, v) /\ UNCHANGED nodeVars => DurableStack!Next
           /\ Return(t) => DurableStack!Next
  <1>1. phase \in [Threads -> {"idle", "pending", "applied", "released"}]
        /\ param \in [Threads -> Args \union {NoArg}]
    BY DEF LineInv, PlacesInv, TypeInv, TypeOK
  <1>2. ASSUME NEW v \in Args, Comb!Invoke(t, v), UNCHANGED nodeVars
        PROVE  DurableStack!Next
    <2>1. /\ phase[t] = "idle" /\ phase' = [phase EXCEPT ![t] = "pending"]
          /\ param' = [param EXCEPT ![t] = v]
          /\ UNCHANGED <<result, stage, word, durable, synced, val, next>>
      BY <1>2 DEF Comb!Invoke, Comb!sessionVars, Comb!wordVars, nodeVars
    <2>2. Contents(word)' = Contents(word) /\ Recovered(durable)' = Recovered(durable)
      BY <2>1, SameContents
    <2>3. /\ AbstractPhase(t) = "idle" /\ AbstractPhase(t)' = "pending"
          /\ AbstractParam(t)' = v
          /\ \A u \in Threads : u # t => /\ AbstractPhase(u)' = AbstractPhase(u)
                                         /\ AbstractParam(u)' = AbstractParam(u)
      BY <2>1, <1>1 DEF AbstractPhase, AbstractParam, HasPersisted
    <2>4. DurableStack!Invoke(t, v)
      BY <2>1, <2>2, <2>3, InvokeRefines
    <2> QED
      BY <2>4 DEF DurableStack!Next
  <1>3. ASSUME Return(t)
        PROVE  DurableStack!Next
    <2>1. /\ phase[t] = "released" /\ phase' = [phase EXCEPT ![t] = "idle"]
          /\ param' = [param EXCEPT ![t] = NoArg]
          /\ UNCHANGED <<result, stage, word, durable, synced, val, next>>
      BY <1>3 DEF Return, Comb!Return, Comb!sessionVars, Comb!wordVars, nodeVars
    <2>2. Contents(word)' = Contents(word) /\ Recovered(durable)' = Recovered(durable)
      BY <2>1, SameContents
    <2>3. /\ AbstractPhase(t) = "durable" /\ AbstractPhase(t)' = "idle"
          /\ \A u \in Threads : u # t => AbstractPhase(u)' = AbstractPhase(u)
          /\ \A u \in Threads : AbstractParam(u)' = AbstractParam(u)
      BY <2>1, <1>1 DEF AbstractPhase, AbstractParam, HasPersisted
    <2>4. DurableStack!Return(t)
      BY <2>1, <2>2, <2>3, ReturnRefines
    <2> QED
      BY <2>4 DEF DurableStack!Next
  <1> QED
    BY <1>2, <1>3

(* An operation takes effect where serialPushPop serves it.                  *)
LEMMA ServeRefines ==
    ASSUME LineInv, LineInv', NEW k \in Threads, serialPushPop(k)
    PROVE  DurableStack!Next
  <1>0. PlacesInv /\ TypeInv /\ ListInv /\ NodesAssumption
    BY DEF LineInv, PlacesInv, TypeInv
  <1>1. /\ phase \in [Threads -> {"idle", "pending", "applied", "released"}]
        /\ param \in [Threads -> Args \union {NoArg}]
        /\ next \in [Nodes -> Words] /\ val \in [Nodes -> Values \union {Junk}]
    BY <1>0 DEF TypeInv, TypeOK
  <1>2. /\ phase[k] = "pending" /\ phase' = [phase EXCEPT ![k] = "applied"]
        /\ stage = "serving" /\ stage' = stage
        /\ UNCHANGED <<param, published, durable, synced>>
    BY DEF serialPushPop, PopEmpty, PopNode, PushNode, Comb!Serve, Comb!sessionVars
  <1>3. /\ AbstractPhase(k) = "pending" /\ AbstractPhase(k)' = "applied"
        /\ AbstractParam(k) = param[k] /\ AbstractParam(k)' = NoArg
        /\ \A u \in Threads : u # k => /\ AbstractPhase(u)' = AbstractPhase(u)
                                       /\ AbstractParam(u)' = AbstractParam(u)
    BY <1>1, <1>2 DEF AbstractPhase, AbstractParam, HasPersisted
  <1>4. ASSUME NEW s, NEW r, result' = [result EXCEPT ![k] = r], Contents(word)' = s,
               Stack(Contents(word), param[k], k) = [state |-> s, ret |-> r],
               Recovered(durable)' = Recovered(durable)
        PROVE  DurableStack!Next
    <2>1. /\ Stack(Contents(word), AbstractParam(k), k).ret = r
          /\ Stack(Contents(word), AbstractParam(k), k).state = s
      BY <1>3, <1>4
    <2>2. DurableStack!Apply(k)
      BY <2>1, <1>3, <1>4, ApplyRefines
    <2> QED
      BY <2>2 DEF DurableStack!Next
  <1>5. CASE PopEmpty(k)
    <2>1. /\ param[k] = PopOp /\ word = Null /\ word' = Null
          /\ result' = [result EXCEPT ![k] = EmptyRet] /\ UNCHANGED <<val, next>>
      BY <1>5 DEF PopEmpty, Comb!Serve, nodeVars
    <2>2. Contents(word)' = Contents(word) /\ Recovered(durable)' = Recovered(durable)
      BY <2>1, <1>2, SameContents
    <2>3. Contents(word) = <<>>
      <3>1. List(next, word) = <<>>
        BY <2>1, <1>0, <1>1, ListNull
      <3>2. Held(val, <<>>) = <<>>
        BY DEF Held
      <3> QED
        BY <3>1, <3>2, ContentsIs
    <2>4. Stack(Contents(word), param[k], k) = [state |-> <<>>, ret |-> EmptyRet]
      BY <2>1, <2>3 DEF Stack
    <2> QED
      BY <2>1, <2>2, <2>3, <2>4, <1>4
  <1>6. CASE PopNode(k)
    <2>1. /\ param[k] = PopOp /\ result' = [result EXCEPT ![k] = val[word]]
          /\ UNCHANGED <<val, next>>
      BY <1>6 DEF PopNode, Deferred, Comb!Serve, nodeVars
    <2>2. /\ word \in Nodes /\ IsList(next, word')
          /\ List(next, word) = <<word>> \o List(next, word')
      BY <1>0, <1>6, PopPlaces
    <2>3. List(next, word') \in Seq(Nodes)
      BY <2>2, <1>0, <1>1, ListNodes
    <2>4. Contents(word)' = Held(val, List(next, word'))
      BY <2>1, ContentsIs
    <2>5. Contents(word) = <<val[word]>> \o Contents(word)'
          /\ Tail(Contents(word)) = Contents(word)'
          /\ Head(Contents(word)) = val[word] /\ Contents(word) # <<>>
      <3>1. PICK s : s = List(next, word')
        OBVIOUS
      <3>2. /\ Held(val, <<word>> \o s) = <<val[word]>> \o Held(val, s)
            /\ Tail(<<val[word]>> \o Held(val, s)) = Held(val, s)
            /\ Head(<<val[word]>> \o Held(val, s)) = val[word]
            /\ <<val[word]>> \o Held(val, s) # <<>>
        <4>1. PICK w, v : w = word /\ v = val
          OBVIOUS
        <4>2. w \in Nodes /\ s \in Seq(Nodes)
          BY <2>2, <2>3, <3>1, <4>1
        <4>3. /\ Held(v, <<w>> \o s) = <<v[w]>> \o Held(v, s)
              /\ Tail(<<v[w]>> \o Held(v, s)) = Held(v, s)
              /\ Head(<<v[w]>> \o Held(v, s)) = v[w]
              /\ <<v[w]>> \o Held(v, s) # <<>>
          BY <4>2, HeldPushed
        <4> QED
          BY <4>1, <4>3
      <3>3. Contents(word) = Held(val, <<word>> \o s) /\ Contents(word)' = Held(val, s)
        BY <2>2, <2>4, <3>1, ContentsIs
      <3> QED
        BY <3>2, <3>3
    <2>6. Stack(Contents(word), param[k], k) = [state |-> Contents(word)', ret |-> val[word]]
      BY <2>1, <2>5 DEF Stack
    <2>7. Recovered(durable)' = Recovered(durable)
      BY <2>1, <1>2, RecoveredIs, RecoveredAfter
    <2> QED
      BY <2>1, <2>6, <2>7, <1>4
  <1>7. CASE PushNode(k)
    <2>0. PICK n : n = AllocatedNode
      OBVIOUS
    <2>1. /\ param[k] # PopOp /\ result' = [result EXCEPT ![k] = PushRet]
          /\ val' = [val EXCEPT ![n] = param[k]] /\ CanAlloc /\ Alloc
      BY <1>7, <2>0 DEF PushNode, Comb!Serve
    <2>2. /\ n \in Nodes /\ n \notin InStack(word) /\ n \notin InStack(durable)
      BY <2>0, <2>1, <1>0, <1>2, AllocFresh
    <2>3. /\ List(next', word') = <<n>> \o List(next, word)
          /\ durable # Unformatted => List(next', durable) = List(next, durable)
      BY <2>0, <1>0, <1>7, PushPlaces
    <2>4. /\ IsList(next, word) /\ InStack(word) = ToSet(List(next, word))
          /\ durable # Unformatted =>
                IsList(next, durable) /\ InStack(durable) = ToSet(List(next, durable))
      BY <1>0, Views
    <2>5. /\ List(next, word) \in Seq(Nodes)
          /\ durable # Unformatted => List(next, durable) \in Seq(Nodes)
      BY <2>4, <1>0, <1>1, ListNodes
    <2>6. ASSUME NEW s \in Seq(Nodes), n \notin ToSet(s)
          PROVE  Held(val', s) = Held(val, s)
      <3>1. ToSet(s) \subseteq Nodes
        BY InjectiveSeq
      <3>2. \A m \in ToSet(s) : val'[m] = val[m]
        BY <3>1, <2>1, <2>6, <1>1
      <3> QED
        BY <3>2, HeldKept
    <2>7. Contents(word)' = <<param[k]>> \o Contents(word)
      <3>1. val'[n] = param[k]
        BY <2>1, <2>2, <1>1
      <3>2. Held(val', <<n>> \o List(next, word)) = <<val'[n]>> \o Held(val', List(next, word))
        BY <2>2, <2>5, HeldPushed
      <3>3. Held(val', List(next, word)) = Held(val, List(next, word))
        BY <2>2, <2>4, <2>5, <2>6
      <3> QED
        BY <3>1, <3>2, <3>3, <2>3, ContentsIs
    <2>8. Recovered(durable)' = Recovered(durable)
      <3>1. CASE durable = Unformatted
        BY <3>1, <1>2, RecoveredIs, RecoveredAfter
      <3>2. CASE durable # Unformatted
        <4>1. Held(val', List(next, durable)) = Held(val, List(next, durable))
          BY <3>2, <2>2, <2>4, <2>5, <2>6
        <4> QED
          BY <3>2, <4>1, <2>3, <1>2, RecoveredIs, RecoveredAfter
      <3> QED
        BY <3>1, <3>2
    <2>9. Stack(Contents(word), param[k], k) = [state |-> Contents(word)', ret |-> PushRet]
      BY <2>1, <2>7 DEF Stack
    <2> QED
      BY <2>1, <2>8, <2>9, <1>4
  <1> QED
    BY <1>5, <1>6, <1>7 DEF serialPushPop


(* The pointer to the new head reaches the durable memory.                   *)
LEMMA PointerRefines ==
    ASSUME LineInv, LineInv', UNCHANGED <<phase, param, result, word, published, val, next>>,
           durable' = published, synced' = TRUE,
           \/ stage = "flush_pointer" /\ stage' = "after_persist"
           \/ stage' = stage
    PROVE  DurableStack!Next \/ UNCHANGED DurableStack!vars
  <1>1. /\ StageInv /\ Unformatted \notin Words /\ word \in Words
        /\ phase \in [Threads -> {"idle", "pending", "applied", "released"}]
    BY DEF LineInv, PlacesInv, TypeInv, TypeOK, NodesAssumption
  <1>2. Contents(word)' = Contents(word)
    BY ContentsIs
  <1>3. \A t \in Threads : AbstractParam(t)' = AbstractParam(t)
    BY DEF AbstractParam
  <1>4. CASE stage = "flush_pointer" /\ ~synced
    <2>1. published = word
      BY <1>1, <1>4 DEF StageInv
    <2>2. Recovered(durable)' = Contents(word)
      BY <2>1, <1>1, ContentsIs, RecoveredAfter
    <2>3. \A t \in Threads : AbstractPhase(t)' =
              IF AbstractPhase(t) = "applied" THEN "durable" ELSE AbstractPhase(t)
      BY <1>1, <1>4 DEF AbstractPhase, HasPersisted
    <2>4. DurableStack!Persist
      BY <2>2, <2>3, <1>2, <1>3, PersistRefines
    <2> QED
      BY <2>4 DEF DurableStack!Next
  <1>5. CASE synced
    <2>1. durable = published
      BY <1>1, <1>5 DEF StageInv
    <2>2. Recovered(durable)' = Recovered(durable)
      BY <2>1, RecoveredIs, RecoveredAfter
    <2>3. \A t \in Threads : AbstractPhase(t)' = AbstractPhase(t)
      BY <1>5 DEF AbstractPhase, HasPersisted
    <2> QED
      BY <2>2, <2>3, <1>2, <1>3, SilentRefines
  <1>6. CASE stage # "flush_pointer" /\ ~synced
    <2>1. Untouched /\ stage \notin {"flush_pointer", "after_persist", "unlock"} /\ stage' = stage
      BY <1>1, <1>6 DEF StageInv
    <2>2. Recovered(durable)' = Recovered(durable)
      BY <2>1, RecoveredIs, RecoveredAfter DEF Untouched
    <2>3. \A t \in Threads : AbstractPhase(t)' = AbstractPhase(t)
      BY <2>1 DEF AbstractPhase, HasPersisted
    <2> QED
      BY <2>2, <2>3, <1>2, <1>3, SilentRefines
  <1> QED
    BY <1>4, <1>5, <1>6

LEMMA StepRefines ==
    ASSUME LineInv, LineInv', [Next]_vars
    PROVE  DurableStack!Next \/ UNCHANGED DurableStack!vars
  <1>1. /\ StageInv /\ TypeOK
        /\ phase \in [Threads -> {"idle", "pending", "applied", "released"}]
    BY DEF LineInv, PlacesInv, TypeInv, TypeOK
  (* A step the calls see nothing of. *)
  <1>2. ASSUME UNCHANGED <<phase, param, result, val, next, word, durable>>,
               \/ stage' = stage /\ synced' = synced
               \/ stage' = "serving" /\ \A t \in Threads : phase[t] # "applied"
               \/ stage' \in {"flush_state", "publish"}
                     /\ stage \in {"serving", "flush_state"}
               \/ stage = "publish" /\ ~synced'
        PROVE  UNCHANGED DurableStack!vars
    <2>1. Contents(word)' = Contents(word) /\ Recovered(durable)' = Recovered(durable)
      BY <1>2, SameContents
    <2>2. \A t \in Threads : AbstractPhase(t)' = AbstractPhase(t)
                             /\ AbstractParam(t)' = AbstractParam(t)
      BY <1>2 DEF AbstractPhase, AbstractParam, HasPersisted
    <2> QED
      BY <1>2, <2>1, <2>2, SilentRefines
  <1>3. CASE UNCHANGED vars
    BY <1>2, <1>3 DEF vars, combVars, nodeVars
  <1>4. CASE \E t \in Threads : (\E v \in Values : Push(t, v)) \/ Pop(t) \/ Return(t)
    BY <1>4, CallRefines DEF Push, Pop, Args
  <1>5. CASE \E t \in Threads : Begin(t)
    <2>1. /\ stage = "free" /\ stage' = "serving"
          /\ UNCHANGED <<phase, param, result, val, next, word, durable>>
      BY <1>5 DEF Begin, Comb!Begin, Comb!callVars, Comb!wordVars, nodeVars
    <2>2. \A t \in Threads : phase[t] # "applied"
      BY <2>1, <1>1 DEF StageInv
    <2> QED
      BY <2>1, <2>2, <1>2
  <1>6. CASE \E t \in Threads : serialPushPop(t)
    BY <1>6, ServeRefines
  <1>7. CASE FinalPersist
    <2>1. /\ stage = "serving" /\ stage' = "flush_state"
          /\ UNCHANGED <<phase, param, result, val, next, word, durable>>
      BY <1>7 DEF FinalPersist, Comb!FinalPersist, Comb!Advance, Comb!callVars, Comb!wordVars
    <2> QED
      BY <2>1, <1>2
  <1>8. CASE AfterPersist
    <2>1. /\ stage = "after_persist" /\ stage' = "unlock"
          /\ UNCHANGED <<phase, param, result, next, word, published, durable, synced>>
          /\ \A n \in Nodes \ ToSet(free_list) : val'[n] = val[n]
      BY <1>8, <1>1 DEF AfterPersist, Comb!AfterPersist, Comb!Advance, Comb!callVars,
                        Comb!wordVars
    <2>2. /\ PlacesInv /\ PlaceInv /\ TypeInv /\ ListInv /\ NodesAssumption
          /\ durable = word /\ Popped = ToSet(free_list) /\ Unformatted \notin Words
      BY <2>1, <1>1 DEF LineInv, PlacesInv, TypeInv, StageInv, Popped, NodesAssumption
    <2>3. /\ next \in [Nodes -> Words] /\ IsList(next, word) /\ word # Unformatted
          /\ InStack(word) = ToSet(List(next, word))
      BY <2>2, Views
    <2>4. List(next, word) \in Seq(Nodes) /\ ToSet(List(next, word)) \subseteq Nodes
      BY <2>2, <2>3, ListNodes
    <2>5. \A n \in ToSet(List(next, word)) : val'[n] = val[n]
      BY <2>1, <2>2, <2>3, <2>4 DEF PlaceInv
    <2>6. Held(val', List(next, word)) = Held(val, List(next, word))
      BY <2>4, <2>5, HeldKept
    <2>7. Contents(word)' = Contents(word) /\ Recovered(durable)' = Recovered(durable)
      BY <2>1, <2>2, <2>3, <2>6, ContentsIs, RecoveredIs, RecoveredAfter
    <2>8. \A t \in Threads : AbstractPhase(t)' = AbstractPhase(t)
                             /\ AbstractParam(t)' = AbstractParam(t)
      BY <2>1 DEF AbstractPhase, AbstractParam, HasPersisted
    <2> QED
      BY <2>1, <2>7, <2>8, SilentRefines
  <1>9. CASE CombinerStep
    <2>1. UNCHANGED <<val, next>>
      BY <1>9 DEF CombinerStep, nodeVars
    <2>2. CASE Comb!FlushState
      BY <2>1, <2>2, <1>2 DEF Comb!FlushState, Comb!Advance, Comb!callVars, Comb!wordVars
    <2>3. CASE Comb!Publish
      BY <2>1, <2>3, <1>2 DEF Comb!Publish, Comb!Advance, Comb!callVars
    <2>4. CASE Comb!FlushPointer
      BY <2>1, <2>4, PointerRefines DEF Comb!FlushPointer, Comb!Advance, Comb!callVars
    <2>5. CASE Comb!Evict
      BY <2>1, <2>5, PointerRefines DEF Comb!Evict, Comb!callVars, Comb!sessionVars
    <2>6. CASE Comb!Unlock
      <3>1. /\ stage = "unlock" /\ stage' = "free"
            /\ phase' = [t \in Threads |->
                            IF phase[t] = "applied" THEN "released" ELSE phase[t]]
            /\ UNCHANGED <<param, result, word, durable, synced>>
        BY <2>6 DEF Comb!Unlock, Comb!wordVars
      <3>2. synced
        BY <3>1, <1>1 DEF StageInv
      <3>3. Contents(word)' = Contents(word) /\ Recovered(durable)' = Recovered(durable)
        BY <2>1, <3>1, SameContents
      <3>4. \A t \in Threads : AbstractPhase(t)' = AbstractPhase(t)
                               /\ AbstractParam(t)' = AbstractParam(t)
        BY <3>1, <3>2, <1>1 DEF AbstractPhase, AbstractParam, HasPersisted
      <3> QED
        BY <3>1, <3>3, <3>4, SilentRefines
    <2> QED
      BY <1>9, <2>2, <2>3, <2>4, <2>5, <2>6 DEF CombinerStep
  <1> QED
    BY <1>3, <1>4, <1>5, <1>6, <1>7, <1>8, <1>9 DEF Next

LEMMA InitRefines ==
    ASSUME NodesAssumption, Init
    PROVE  DurableStack!Init
  <1>1. /\ phase = [t \in Threads |-> "idle"] /\ result = [t \in Threads |-> NoVal]
        /\ word = Null /\ durable = Unformatted /\ next \in [Nodes -> Words]
        /\ stage = "free"
    BY DEF Init, Comb!Init, Words
  <1>2. List(next, word) = <<>>
    BY <1>1, ListNull
  <1>3. Contents(word) = <<>>
    BY <1>2, ContentsIs DEF Held
  <1>4. Recovered(durable) = Unformatted
    BY <1>1 DEF Recovered
  <1> QED
    BY <1>1, <1>3, <1>4 DEF DurableStack!Init

(* PBstack is a durable stack: an operation takes effect in one step of a    *)
(* combiner (serialPushPop) between its announcement and its return, returns *)
(* what a stack returns, and returns only when no crash can undo it; a crash *)
(* at any moment leaves a whole stack.                                       *)
THEOREM IsDurableStack == NodesAssumption /\ FlushesAll /\ Spec => ImplementsDurableStack
  <1> SUFFICES ASSUME NodesAssumption, FlushesAll PROVE Spec => ImplementsDurableStack
    OBVIOUS
  <1>1. LineInv /\ LineInv' /\ [Next]_vars => [DurableStack!Next]_DurableStack!vars
    BY StepRefines
  <1>2. Init => DurableStack!Init
    BY InitRefines
  <1>3. Spec => []LineInv
    BY LinesKept
  <1> QED
    BY <1>1, <1>2, <1>3, PTL DEF Spec, ImplementsDurableStack, DurableStack!Spec

=============================================================================
