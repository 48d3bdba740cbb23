------------------------------ MODULE StmtCfg ------------------------------
(***************************************************************************)
(* The control-flow graphs as liveness.rs and borrows.rs read them: whole  *)
(* statements, since both work on the locals and places a statement names. *)
(*                                                                         *)
(* Only Assign statements matter to them (build.rs emits no Drop).  One is *)
(*   dest   the place assigned                                             *)
(*   reads  the operands of its rvalue: [k |-> "move" | "copy" | "disc",   *)
(*          pl |-> place]; constants are left out                          *)
(*   loans  for a borrow rvalue {[id |-> its region, mut, pl]}, else {}    *)
(* and a graph c also has                                                  *)
(*   c.tests[b]  the places the operand of b's terminator copies           *)
(*   c.refs      the locals whose type contains a reference                *)
(***************************************************************************)
EXTENDS CfgShape

CONSTANT Cfgs

Reading == {"move", "copy", "disc"}

End(c, b) == Len(c.stmts[b]) + 1

Sources(s) == {Root(r.pl) : r \in {r \in s.reads : r.k # "disc"}}

(* The locals that point i of block b reads; its end is its terminator. *)
Uses(c, b, i) ==
  IF i = End(c, b) THEN {Root(p) : p \in c.tests[b]}
  ELSE LET s == c.stmts[b][i]
       IN  {Root(r.pl) : r \in s.reads} \cup {Root(n.pl) : n \in s.loans}

(* Assigning a part of a local, or through it, does not kill it. *)
Kills(c, b, i) ==
  IF i # End(c, b) /\ IsLocal(c.stmts[b][i].dest)
  THEN {Root(c.stmts[b][i].dest)} ELSE {}

PlaceOK(c, p) == p \in Seq(STRING) /\ p # <<>> /\ Root(p) \in c.locals

(* A borrow is an expression of reference type, so the local it is stored  *)
(* in has a reference in its type, unless it is stored through a pointer.  *)
StmtOK(c, s) ==
  /\ PlaceOK(c, s.dest)
  /\ \A r \in s.reads : r.k \in Reading /\ PlaceOK(c, r.pl)
  /\ \A n \in s.loans : n.id \in Nat /\ n.mut \in BOOLEAN /\ PlaceOK(c, n.pl)
  /\ \/ s.loans = {}
     \/ /\ \E n \in s.loans : s.loans = {n} /\ s.reads = {}
        /\ (\E i \in 2..Len(s.dest) : s.dest[i] = "*") \/ Root(s.dest) \in c.refs

(* Every borrow expression gets a region of its own. *)
LoanIdsDiffer(c) ==
  \A b1, b2 \in Blocks(c) : \A i1 \in 1..Len(c.stmts[b1]), i2 \in 1..Len(c.stmts[b2]) :
    \A n1 \in c.stmts[b1][i1].loans, n2 \in c.stmts[b2][i2].loans :
      n1.id = n2.id => b1 = b2 /\ i1 = i2

CfgOK(c) ==
  /\ c.n \in Nat \ {0}
  /\ c.entry \in Blocks(c)
  /\ c.refs \subseteq c.locals
  /\ \A b \in Blocks(c) :
       /\ c.succ[b] \in Seq(Blocks(c))
       /\ Len(c.stmts[b]) \in Nat
       /\ \A i \in 1..Len(c.stmts[b]) : StmtOK(c, c.stmts[b][i])
       /\ \A p \in c.tests[b] : PlaceOK(c, p)
       /\ c.entry \notin Succs(c, b)
  /\ LoanIdsDiffer(c)

ASSUME CfgsOK == \A c \in Cfgs : CfgOK(c)
=============================================================================
