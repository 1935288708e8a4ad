------------------------------ MODULE VadJobs ------------------------------
(***************************************************************************)
(* VadTree's operators on every AVL tree of a few nodes, compared with     *)
(* what a search tree and an address space are.                            *)
(***************************************************************************)
EXTENDS Integers, Sequences, SequencesExt, FiniteSets, Functions, Jobs

Vad == INSTANCE VadTree

CONSTANTS
  MaxVads,     \* regions in the largest tree a node is removed from
  MaxLookup    \* regions in the largest tree looked up in

----------------------------------------------------------------------------
(* VAD trees: every AVL shape, <<height, size, left, right>>, linked into  *)
(* a tree whose nodes are numbered in address order.                       *)

HeightOf(shape) == IF shape = <<>> THEN 0 ELSE shape[1]
SizeOf(shape) == IF shape = <<>> THEN 0 ELSE shape[2]

Join(l, r) ==
  <<(IF HeightOf(l) > HeightOf(r) THEN HeightOf(l) ELSE HeightOf(r)) + 1,
    SizeOf(l) + SizeOf(r) + 1, l, r>>

\* shapes[i] holds the shapes of i - 1 nodes; the next entry of the sequence.
NextShapes(shapes) ==
  LET k == Len(shapes)
      Joined(i) == {Join(l, r) : l \in shapes[i], r \in shapes[k + 1 - i]}
  IN  {s \in UNION {Joined(i) : i \in 1..k} :
         HeightOf(s[3]) - HeightOf(s[4]) \in -1..1}

Shapes(max) ==
  LET all == FoldLeft(LAMBDA shapes, i : Append(shapes, NextShapes(shapes)),
                      <<{<<>>}>>, [i \in 1..max |-> i])
  IN  UNION {all[i] : i \in 2..max + 1}

\* The nodes that occupy a slot of the shape, numbered from base + 1.
RECURSIVE Slots(_, _)
Slots(shape, base) ==
  IF shape = <<>> THEN {}
  ELSE LET n == base + SizeOf(shape[3]) + 1
           TopOf(s, b) == IF s = <<>> THEN Vad!Nil ELSE b + SizeOf(s[3]) + 1
       IN  {[n |-> n, left |-> TopOf(shape[3], base), right |-> TopOf(shape[4], n),
             bal |-> HeightOf(shape[4]) - HeightOf(shape[3])]}
           \cup Slots(shape[3], base) \cup Slots(shape[4], n)

TreeOf(shape, layout) ==
  LET slots == Slots(shape, 0) \cup
               {[n |-> Vad!Root, left |-> Vad!Nil, bal |-> 0,
                 right |-> SizeOf(shape[3]) + 1]}
      nodes == {s.n : s \in slots}
      Slot(n) == CHOOSE s \in slots : s.n = n
      ParentOf(n) == CHOOSE p \in nodes : n \in {Slot(p).left, Slot(p).right}
      top == Slot(Vad!Root).right
  IN  [left |-> [n \in nodes |-> Slot(n).left],
       right |-> [n \in nodes |-> Slot(n).right],
       bal |-> [n \in nodes |-> Slot(n).bal],
       parent |-> [n \in nodes |-> CASE n = Vad!Root -> n
                                     [] n = top /\ layout = "pointer" -> Vad!Nil
                                     [] OTHER -> ParentOf(n)],
       depth |-> HeightOf(shape)]

\* What a tree holds, in order, and how high a subtree really is.
RECURSIVE InOrder(_, _), TrueHeight(_, _)
InOrder(t, n) ==
  IF n = Vad!Nil THEN <<>>
  ELSE InOrder(t, t.left[n]) \o <<n>> \o InOrder(t, t.right[n])
TrueHeight(t, n) ==
  IF n = Vad!Nil THEN 0
  ELSE LET l == TrueHeight(t, t.left[n])
           r == TrueHeight(t, t.right[n])
       IN  (IF l > r THEN l ELSE r) + 1

----------------------------------------------------------------------------
RemovalJobs ==
  UNION {[kind : {"remove"}, shape : {s}, node : 1..SizeOf(s),
          layout : {"embedded", "pointer"}] : s \in Shapes(MaxVads)}

RemoveVad ==
  Compute("remove", Vad!MiRemoveNode(TreeOf(job.shape, job.layout), job.node, job.layout))

\* MiRemoveNode takes the node out and keeps every other, in address order
\* and reachable both downwards and upwards; only the pointer layout's top
\* node cannot be removed.
RemovalLosesOnlyTheNode ==
  Done("remove") =>
    LET t == result.t
        top == t.right[Vad!Root]
        order == InOrder(t, top)
    IN  IF result.fault THEN job.layout = "pointer" /\ job.node = top
        ELSE /\ order = SelectSeq([i \in 1..SizeOf(job.shape) |-> i],
                                  LAMBDA n : n # job.node)
             /\ \A p \in ToSet(order) : \A c \in {t.left[p], t.right[p]} \ {Vad!Nil} :
                  t.parent[c] = p

\* With the embedded root the tree stays an AVL tree: every stored balance
\* is the true difference of heights, within one, and the stored depth is
\* the true height.
RemovalBalances ==
  Done("remove") /\ job.layout = "embedded" =>
    LET t == result.t
        top == t.right[Vad!Root]
    IN  /\ t.depth = TrueHeight(t, top)
        /\ \A n \in ToSet(InOrder(t, top)) :
             /\ t.bal[n] = TrueHeight(t, t.right[n]) - TrueHeight(t, t.left[n])
             /\ t.bal[n] \in -1..1

----------------------------------------------------------------------------
(* A space of n regions: region i starts at page 3i and has 1 to 3 pages,  *)
(* so that some neighbours touch and others leave a hole.                  *)

Regions(n, kinds) ==
  [i \in 1..n |-> [first |-> 3 * i, last |-> 3 * i + (i % 3),
                   kind |-> kinds[i][1], file |-> kinds[i][2], prot |-> 4]]

Files == {"f", "g"}
SpaceOf(shape, kinds) ==
  [tree |-> TreeOf(shape, "pointer"), vad |-> Regions(SizeOf(shape), kinds),
   named |-> Files,
   pte |-> [g \in 3..3 * SizeOf(shape) + 2 |-> [nx |-> TRUE, write |-> TRUE]]]

Holding(regions, v) ==
  {i \in DOMAIN regions : regions[i].first <= v /\ v <= regions[i].last}

Private == <<"private", Vad!NoFile>>

LookupJobs ==
  UNION {[kind : {"lookup"}, shape : {s}, page : 0..3 * SizeOf(s) + 4] :
           s \in Shapes(MaxLookup)}

LookupVad ==
  LET space == SpaceOf(job.shape, [i \in 1..SizeOf(job.shape) |-> Private])
  IN  Compute("lookup", Vad!MiFindNodeOrParent(space.tree, space.vad, job.page))

\* MiFindNodeOrParent finds the region that holds the page, if there is one;
\* otherwise it names a free place, and a region hung there keeps the tree
\* in address order.
LookupFindsRegionOrItsPlace ==
  Done("lookup") =>
    LET n == SizeOf(job.shape)
        tree == TreeOf(job.shape, "pointer")
        holding == Holding(Regions(n, [i \in 1..n |-> Private]), job.page)
        below == Cardinality({i \in 1..n : 3 * i < job.page})
        hung == [tree EXCEPT !.left = (n + 1 :> Vad!Nil) @@
                   (IF result.result = "insert left"
                    THEN [@ EXCEPT ![result.node] = n + 1] ELSE @),
                 !.right = (n + 1 :> Vad!Nil) @@
                   (IF result.result = "insert right"
                    THEN [@ EXCEPT ![result.node] = n + 1] ELSE @)]
    IN  IF holding # {}
        THEN result.result = "found" /\ holding = {result.node}
        ELSE InOrder(hung, tree.right[Vad!Root]) =
               [i \in 1..below |-> i] \o <<n + 1>> \o [i \in 1..n - below |-> below + i]

----------------------------------------------------------------------------
RegionKinds == {Private, <<"physical", Vad!NoFile>>, <<"image", Vad!NoFile>>,
                <<"image", "f">>, <<"image", "g">>}

HideJobs ==
  UNION {[kind : {"hide"}, shape : {s}, kinds : [1..SizeOf(s) -> RegionKinds],
          page : 2..3 * SizeOf(s) + 3] : s \in Shapes(3)}

HideVad == Compute("hide", Vad!BBUnlinkVAD(SpaceOf(job.shape, job.kinds), job.page))

\* What a query of the region at a page shows: a name, or an access.
Shows(space, n) ==
  IF space.vad[n].kind = "image" THEN space.vad[n].file \in space.named
  ELSE Vad!FromPTE(space.vad[n].prot) # <<"none", "noaccess">>

\* BBUnlinkVAD succeeds exactly when afterwards a query of that region shows
\* nothing, and no other region changes what it shows unless it maps the
\* same file; a refusal changes nothing.
HidesThatRegionOnly ==
  Done("hide") =>
    LET before == SpaceOf(job.shape, job.kinds)
        holding == Holding(before.vad, job.page)
        hidden == {n \in DOMAIN before.vad : Shows(before, n) /\ ~Shows(result.space, n)}
    IN  IF result.status = "ok"
        THEN /\ holding \subseteq hidden
             /\ \A n \in hidden \ holding : \E h \in holding :
                  before.vad[n].file = before.vad[h].file /\ before.vad[h].file \in Files
             /\ holding # {}
        ELSE /\ result.space = before
             /\ \A n \in holding : job.kinds[n] \in {Private, <<"image", Vad!NoFile>>}

----------------------------------------------------------------------------
Words == {<<"none", a>> : a \in {"noaccess", "r", "rw", "xr", "xrw", "xwc"}}
           \cup {<<"guard", "x">>, <<"nocache", "noaccess">>}

\* Two requests for region 2, which has the pages 6 to 8, among three.
ProtectJobs ==
  [kind : {"protect"}, requests : [1..2 ->
     [base : {11, 12, 13, 14}, size : {1, 2, 4}, prot : Words]]]

ProtectVad ==
  LET kinds == <<Private, <<"physical", Vad!NoFile>>, Private>>
      start == SpaceOf(CHOOSE s \in Shapes(3) : SizeOf(s) = 3, kinds)
      first == Vad!BBProtectMemory(start, job.requests[1])
  IN  Compute("protect", Vad!BBProtectMemory(first.space, job.requests[2]))

\* After two requests the region's protection reads back as the last one
\* that reached it (no access, if the word has no encoding), and a page is
\* executable, or has lost write access, exactly if some request that covers
\* it asked for that: later requests do not take it back.
ProtectionFollowsRequests ==
  Done("protect") =>
    LET Reaches(q) == q.base >= 12
        reaching == {i \in 1..2 : Reaches(job.requests[i])}
        last == job.requests[CHOOSE i \in reaching : \A j \in reaching : j <= i].prot
        Covers(q, g) == Reaches(q) /\ q.base \div 2 <= g /\ 2 * g < (2 * (q.base \div 2)) + q.size
        Asked(g, accesses) == \E i \in 1..2 : /\ Covers(job.requests[i], g)
                                             /\ job.requests[i].prot[2] \in accesses
    IN  /\ reaching # {} =>
             Vad!FromPTE(result.space.vad[2].prot) =
               IF last = <<"nocache", "noaccess">> THEN <<"none", "noaccess">> ELSE last
        /\ \A g \in DOMAIN result.space.pte :
             /\ result.space.pte[g].nx = ~Asked(g, {"x", "xr", "xrw", "xwc"})
             /\ result.space.pte[g].write = ~Asked(g, {"r", "x", "xr"})
=============================================================================
