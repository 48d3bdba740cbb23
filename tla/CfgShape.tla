------------------------------ MODULE CfgShape ------------------------------
(***************************************************************************)
(* What every analysis of the borrow checker shares (borrowck/cfg.rs):     *)
(* places, and the edges of a control-flow graph.                          *)
(*                                                                         *)
(* A place is the sequence of its root local and its projections, so       *)
(* <<"x", "f">> is x.f and <<"p", "*">> is *p.  A graph c has c.n blocks,  *)
(* numbered from 1 (the code's BlockId + 1), and c.succ[b] is the sequence *)
(* of the successors of b, in the order of its terminator.                 *)
(***************************************************************************)
EXTENDS Naturals, Sequences

IsPrefixOf(p, q) == /\ Len(p) <= Len(q)
                    /\ \A i \in 1..Len(p) : p[i] = q[i]

Overlaps(p, q) == IsPrefixOf(p, q) \/ IsPrefixOf(q, p)

Root(p) == p[1]

IsLocal(p) == Len(p) = 1

Blocks(c) == 1..c.n

Succs(c, b) == {c.succ[b][i] : i \in 1..Len(c.succ[b])}

Preds(c, b) == {a \in Blocks(c) : b \in Succs(c, a)}
=============================================================================
