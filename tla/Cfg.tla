-------------------------------- MODULE Cfg --------------------------------
(***************************************************************************)
(* The control-flow graphs as the move analysis reads them (borrowck/      *)
(* cfg.rs).  Cfgs is the set of graphs under study; the theorems hold for  *)
(* every set of well-formed graphs, the runs take hand-lowered programs    *)
(* (MCPrograms).                                                           *)
(*                                                                         *)
(* A basic block is the sequence of the effects of its statements and of   *)
(* its terminator's operand, in evaluation order: an Assign contributes    *)
(* one "move" or "copy" per operand of its rvalue ("borrow" and "disc" for *)
(* the two rvalues that take a place), then the "init" of its destination. *)
(***************************************************************************)
EXTENDS CfgShape

CONSTANT Cfgs

(* "bind" is the StorageLive of a for-loop's pattern binding, which gets a *)
(* value at run time although no Assign is emitted; "live" marks where a    *)
(* let with an initialiser has stored it; "dead" is a StorageDead.         *)
OpKinds == {"move", "copy", "borrow", "disc", "drop", "init", "uninit", "bind",
            "live", "dead"}

(* The program points of block b: before each of its effects, and its end. *)
Points(c, b) == 1..(Len(c.ops[b]) + 1)

(* op takes the value of local l or of a part of it, or declares it without. *)
Marks(op, l) == op.k \in {"move", "uninit"} /\ Root(op.pl) = l

Untouched(c, b, l) == \A i \in 1..Len(c.ops[b]) : ~ Marks(c.ops[b][i], l)

(* Each block of F is entered along blocks of F that do not touch l. *)
Untouching(c, F, l) ==
  \A b \in F : \/ b = c.entry \/ Preds(c, b) = {}
               \/ \E a \in Preds(c, b) \cap F : Untouched(c, a, l)

(* lower_for: the binding's StorageLive opens the block of the body, which *)
(* the first iteration enters along blocks that do not touch the binding.  *)
FirstIteration(c, b, l) == \E F \in SUBSET Blocks(c) : b \in F /\ Untouching(c, F, l)

(* pop_scope: a local is in one scope, which ends at one place.            *)
ScopesOK(c) ==
  \A b \in Blocks(c) : \A i \in 1..Len(c.ops[b]) :
    LET op == c.ops[b][i]
    IN  /\ op.k = "bind" => i = 1 /\ FirstIteration(c, b, Root(op.pl))
        /\ op.k = "dead" =>
             \A a \in Blocks(c) : \A j \in 1..Len(c.ops[a]) :
               c.ops[a][j].k = "dead" /\ Root(c.ops[a][j].pl) = Root(op.pl)
                 => a = b /\ j = i

(***************************************************************************)
(* decl gives each local its source name ("" for a temporary) and the      *)
(* class of its type: "copy", "own" (moved by use), "drop" (own, and it    *)
(* implements Drop), "ref", "raw".  leaves are the finest places that hold *)
(* a value of their own.  Every target list of a SwitchInt that           *)
(* build.rs emits leads to one block, so a block has at most two distinct  *)
(* successors.                                                             *)
(***************************************************************************)
CfgOK(c) ==
  /\ c.n \in Nat \ {0}
  /\ c.entry \in Blocks(c)
  /\ \A p \in c.places : /\ p \in Seq(STRING) /\ p # <<>>
                         /\ Root(p) \in DOMAIN c.decl
                         /\ \E q \in c.leaves : IsPrefixOf(p, q)
  /\ \A p \in c.leaves : p \in Seq(STRING) /\ p # <<>>
  /\ \A b \in Blocks(c) :
       /\ c.ops[b] \in Seq([k : OpKinds, pl : c.places, node : Nat])
       /\ c.succ[b] \in Seq(Blocks(c))
       /\ Len(c.succ[b]) <= 2
       /\ c.entry \notin Succs(c, b)
  /\ ScopesOK(c)

ASSUME CfgsOK == \A c \in Cfgs : CfgOK(c)
=============================================================================
