------------------------------- MODULE VadTree -------------------------------
(***************************************************************************)
(* The tree of virtual address descriptors (VADs) of a process, as         *)
(* VadHelpers.c and VadRoutines.c read and change it.  Windows links the   *)
(* VADs into an AVL tree; the driver looks addresses up in it and carries  *)
(* its own removal routine.  A tree is a record of links:                  *)
(*                                                                         *)
(*   left, right   child of a node, Nil if there is none                   *)
(*   parent, bal   u1.Parent and u1.Balance, which share one word          *)
(*   depth         DepthOfTree, kept by the builds that have it            *)
(*                                                                         *)
(* Nodes are numbered in address order.  Root is BalancedRoot.  Before     *)
(* Windows 8.1 it is a node embedded in the table (layout "embedded"),     *)
(* whose right child is the top of the tree; the _WIN81_ and _WIN10_       *)
(* builds store a pointer to the top node, whose parent is Nil (layout     *)
(* "pointer").  The operators define no state: KernelAlgorithms applies    *)
(* them to the trees and addresses of a run.                               *)
(***************************************************************************)
EXTENDS Integers, Sequences

Nil == 0
Root == -1

SetBal(t, n, b) == [t EXCEPT !.bal[n] = b]

\* Hang new where old hangs under p.
Replace(t, p, old, new) ==
  LET side == IF t.left[p] = old THEN [t EXCEPT !.left[p] = new]
                                 ELSE [t EXCEPT !.right[p] = new]
  IN  IF new = Nil THEN side ELSE [side EXCEPT !.parent[new] = p]

\* One rotation: c rises over its parent; its inner subtree changes hands.
MiPromoteNode(t, c) ==
  LET p == t.parent[c]
      g == t.parent[p]
      isLeft == t.left[p] = c
      inner == IF isLeft THEN t.right[c] ELSE t.left[c]
      handed == Replace(t, p, c, inner)
      under == IF isLeft THEN [handed EXCEPT !.right[c] = p, !.parent[p] = c]
                         ELSE [handed EXCEPT !.left[c] = p, !.parent[p] = c]
  IN  Replace(under, g, p, c)

SingleRotation(t, s, r) ==
  [t |-> SetBal(SetBal(MiPromoteNode(t, r), r, 0), s, 0), done |-> FALSE]

DoubleRotation(t, s, r, a) ==
  LET p == IF a = 1 THEN t.left[r] ELSE t.right[r]
      up == MiPromoteNode(MiPromoteNode(t, p), p)
      bal == [up.bal EXCEPT ![s] = IF t.bal[p] = a THEN -a ELSE 0,
                            ![r] = IF t.bal[p] = -a THEN a ELSE 0,
                            ![p] = 0]
  IN  [t |-> [up EXCEPT !.bal = bal], done |-> FALSE]

\* s leans to side a and has just become one longer there.  done says that
\* the subtree kept its height (case 3), so the removal may stop.
MiRebalanceNode(t, s) ==
  LET a == t.bal[s]
      r == IF a = 1 THEN t.right[s] ELSE t.left[s]
  IN  CASE t.bal[r] = a  -> SingleRotation(t, s, r)
        [] t.bal[r] = -a -> DoubleRotation(t, s, r, a)
        [] OTHER -> [t |-> SetBal(MiPromoteNode(t, r), r, -a), done |-> TRUE]

\* The node that is unlinked in place of d: d itself, or its neighbour on
\* the longer side.
RECURSIVE Leftmost(_, _), Rightmost(_, _)
Leftmost(t, n) == IF t.left[n] = Nil THEN n ELSE Leftmost(t, t.left[n])
Rightmost(t, n) == IF t.right[n] = Nil THEN n ELSE Rightmost(t, t.right[n])

EasyDelete(t, d) ==
  CASE t.left[d] = Nil \/ t.right[d] = Nil -> d
    [] t.left[d] # Nil /\ t.right[d] # Nil /\ t.bal[d] >= 0 -> Leftmost(t, t.right[d])
    [] OTHER -> Rightmost(t, t.left[d])

SideOf(t, n) == IF t.right[t.parent[n]] = n THEN 1 ELSE -1

\* Walk up from p, whose side a has just become one shorter.
RECURSIVE ShrinkUp(_, _, _)
ShrinkUp(t, p, a) ==
  LET Above(u, n) == ShrinkUp(u, u.parent[n], SideOf(u, n))
      leaning == SetBal(t, p, -a)
  IN  CASE t.bal[p] = a -> Above(SetBal(t, p, 0), p)
        [] t.bal[p] = 0 -> IF leaning.bal[Root] # 0
                           THEN [leaning EXCEPT !.depth = @ - 1] ELSE leaning
        [] OTHER -> LET turned == MiRebalanceNode(t, p)
                    IN  IF turned.done THEN turned.t
                        ELSE Above(turned.t, turned.t.parent[p])

\* Mutant: the children are not told of their new parent.
MutRelink(t, d, e) ==
  LET copied == [t EXCEPT !.left[e] = t.left[d], !.right[e] = t.right[d],
                          !.bal[e] = t.bal[d]]
  IN  Replace(copied, t.parent[d], d, e)

\* e takes the links and, with u1.Parent, the balance of d.
Relink(t, d, e) ==
  LET copied == [t EXCEPT !.left[e] = t.left[d], !.right[e] = t.right[d],
                          !.bal[e] = t.bal[d]]
      hung == Replace(copied, t.parent[d], d, e)
      Adopt(u, c) == IF c = Nil THEN u ELSE [u EXCEPT !.parent[c] = e]
  IN  Adopt(Adopt(hung, hung.left[e]), hung.right[e])

\* The node whose balance is cleared to stop the walk: the embedded root,
\* or, where the table holds a pointer, the top node itself.
StopNode(t, layout) == IF layout = "embedded" THEN Root ELSE t.right[Root]

\* In the pointer layout the top node has no parent to hang another node
\* under: removing it reads through a null pointer.
MiRemoveNode(t, d, layout) ==
  LET e == EasyDelete(t, d)
      child == IF t.left[e] = Nil THEN t.right[e] ELSE t.left[e]
      cut == Replace(t, t.parent[e], e, child)
      shrunk == ShrinkUp(SetBal(cut, StopNode(t, layout), 0), t.parent[e], SideOf(t, e))
  IN  IF layout = "pointer" /\ d = t.right[Root]
      THEN [fault |-> TRUE, t |-> t]
      ELSE [fault |-> FALSE, t |-> IF e = d THEN shrunk ELSE Relink(shrunk, d, e)]

----------------------------------------------------------------------------
(* Lookups.  vad[n] describes node n: first and last page, the kind of the *)
(* region, the file it maps (NoFile if none) and its protection.           *)

RECURSIVE Descend(_, _, _, _)
Descend(t, vad, n, v) ==
  LET Into(child, where) == IF child = Nil THEN [result |-> where, node |-> n]
                            ELSE Descend(t, vad, child, v)
  IN  CASE v < vad[n].first -> Into(t.left[n], "insert left")
        [] v >= vad[n].first /\ v <= vad[n].last -> [result |-> "found", node |-> n]
        [] OTHER -> Into(t.right[n], "insert right")

MiFindNodeOrParent(t, vad, v) ==
  IF t.right[Root] = Nil THEN [result |-> "empty", node |-> Nil]
  ELSE Descend(t, vad, t.right[Root], v)

BBFindVAD(t, vad, v) ==
  LET hit == MiFindNodeOrParent(t, vad, v)
  IN  IF hit.result = "found" THEN hit.node ELSE Nil

\* Protection values: a cache modifier and an access, 8 accesses each.
Modifiers == <<"none", "nocache", "guard", "writecombine">>
Accesses == <<"noaccess", "r", "x", "xr", "rw", "wc", "xrw", "xwc">>
MmProtectToValue ==
  [i \in 0..31 |-> IF i % 8 = 0 THEN <<"none", "noaccess">>
                   ELSE <<Modifiers[1 + (i \div 8)], Accesses[1 + (i % 8)]>>]

FromPTE(i) == IF i \in DOMAIN MmProtectToValue THEN MmProtectToValue[i] ELSE <<"zero">>
ToPTE(w) ==
  LET same == {i \in DOMAIN MmProtectToValue : MmProtectToValue[i] = w}
  IN  IF same = {} THEN 0 ELSE CHOOSE i \in same : \A j \in same : i <= j

ZeroAccess == 0
NoFile == "no file"

\* The answer of a request and the space it leaves: [tree, vad, named, pte].
BBProtectVAD(space, v, prot) ==
  LET n == BBFindVAD(space.tree, space.vad, v)
  IN  IF n = Nil THEN [status |-> "not found", space |-> space]
      ELSE [status |-> "ok", space |-> [space EXCEPT !.vad[n].prot = prot]]

BBGetVadType(space, v) ==
  LET n == BBFindVAD(space.tree, space.vad, v)
  IN  IF n = Nil THEN "not found" ELSE space.vad[n].kind

Executable == {"x", "xr", "xrw", "xwc"}
ReadOnly == {"r", "x", "xr"}
Unit == 2  \* addresses are counted in units of half a page

\* The base is rounded down before the pages of [base, base + size) are
\* counted, so the count forgets the part of the first page that was cut.
PagesOf(base, size) ==
  LET first == base \div Unit
  IN  first .. first + ((size + Unit - 1) \div Unit) - 1

\* A physical region's pages get the bits by hand; bits are only cleared.
BBProtectMemory(space, req) ==
  LET v == req.base \div Unit
      kind == BBGetVadType(space, v)
      after == BBProtectVAD(space, v, ToPTE(req.prot))
      Update(pte) == [nx |-> pte.nx /\ req.prot[2] \notin Executable,
                      write |-> pte.write /\ req.prot[2] \notin ReadOnly]
      pages == PagesOf(req.base, req.size)
  IN  CASE kind = "physical" ->
             [status |-> after.status,
              space |-> [after.space EXCEPT !.pte =
                [g \in DOMAIN @ |-> IF g \in pages THEN Update(@[g]) ELSE @[g]]]]
        [] kind = "not found" -> [status |-> kind, space |-> space]
        [] OTHER -> [status |-> "forwarded", space |-> space]

\* Hiding erases the name of a mapped image's file object, which every
\* mapping of the file shares, or the access of a physical mapping.
BBUnlinkVAD(space, v) ==
  LET n == BBFindVAD(space.tree, space.vad, v)
      r == space.vad[n]
  IN  CASE n = Nil -> [status |-> "not found", space |-> space]
        [] n # Nil /\ r.kind = "image" /\ r.file # NoFile ->
             [status |-> "ok", space |-> [space EXCEPT !.named = @ \ {r.file}]]
        [] n # Nil /\ r.kind = "image" /\ r.file = NoFile ->
             [status |-> "invalid address", space |-> space]
        [] n # Nil /\ r.kind = "physical" ->
             [status |-> "ok", space |-> [space EXCEPT !.vad[n].prot = ZeroAccess]]
        [] OTHER -> [status |-> "invalid parameter", space |-> space]
=============================================================================
