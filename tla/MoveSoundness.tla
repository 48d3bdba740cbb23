--------------------------- MODULE MoveSoundness ---------------------------
(***************************************************************************)
(* What borrowck/moves.rs is for: a function it accepts is executed, over  *)
(* every path of its graph, and the memory the execution sees is compared  *)
(* with what the analysis concluded.  holes are the leaves that hold no    *)
(* value: moved out of, or declared and not yet assigned.                  *)
(***************************************************************************)
EXTENDS MoveAnalysis

VARIABLES
  pc,     \* <<block, next effect>>, <<0, 0>> before the run
  holes

runVars == <<pc, holes>>

Under(p) == {l \in cfg.leaves : IsPrefixOf(p, l)}

Running == pc # <<0, 0>>

AtOp == Running /\ pc[2] <= Len(cfg.ops[pc[1]])

CurrentOp == cfg.ops[pc[1]][pc[2]]

(* A move through a raw pointer leaves the pointee to the unsafe code.  A  *)
(* for-loop's binding holds a fresh item at its StorageLive.               *)
HoleEffect(op) ==
  CASE op.k = "move" -> IF ThroughRawDeref(cfg, op.pl) THEN holes
                        ELSE holes \cup Under(op.pl)
    [] op.k = "uninit" -> holes \cup Under(op.pl)
    [] op.k \in {"init", "bind"} -> holes \ Under(op.pl)
    [] OTHER -> holes

Launch ==
  /\ phase = "done" /\ errors = {} /\ ~ Running
  /\ pc' = <<cfg.entry, 1>>
  /\ holes' = {}

Exec ==
  /\ AtOp
  /\ holes' = HoleEffect(CurrentOp)
  /\ pc' = <<pc[1], pc[2] + 1>>

(* A terminator: If and SwitchInt may take either branch. *)
Jump ==
  /\ Running /\ ~ AtOp
  /\ \E b \in Succs(cfg, pc[1]) : pc' = <<b, 1>>
  /\ UNCHANGED holes

SoundInit == Init /\ pc = <<0, 0>> /\ holes = {}

SoundNext == \/ Next /\ UNCHANGED runVars
             \/ (Launch \/ Exec \/ Jump) /\ UNCHANGED vars

(* The analysis is one sequential call and keeps on stepping; the program  *)
(* may run or not.                                                         *)
SoundSpec == SoundInit /\ [][SoundNext]_<<vars, runVars>> /\ WF_vars(Next)

-----------------------------------------------------------------------------
RunTypeOK ==
  /\ \/ ~ Running
     \/ /\ phase = "done" /\ errors = {}
        /\ pc[1] \in Blocks(cfg) /\ pc[2] \in Points(cfg, pc[1])
        /\ pc = <<pc[1], pc[2]>>
  /\ holes \subseteq cfg.leaves

(* The analysis knows of every hole: some entry of the state it computed   *)
(* for this point stands at or above it.                                   *)
RunInv == Running => Covers(before[pc[1]][pc[2]], holes)

(* An accepted function never reads, borrows, moves or drops a place that  *)
(* overlaps a value that is not there, on any path (moves.rs:check_read).  *)
NoUseAfterMove ==
  AtOp /\ Reads(CurrentOp) =>
    \A l \in holes : ~ Overlaps(l, CurrentOp.pl)

AtScopeEnd(l) == AtOp /\ CurrentOp.k = "dead" /\ CurrentOp.pl = <<l>> /\ Named(cfg, l)

(* A binding the snapshot leaves out of moved_locals, which codegen will   *)
(* drop unconditionally, is whole when its scope ends, on every path.      *)
UnlistedIsWhole ==
  \A l \in DOMAIN cfg.decl :
    AtScopeEnd(l) /\ ~ Listed(movedLocals, l) => Under(<<l>>) \cap holes = {}

(* A binding that owns something and is listed Moved or Uninit, whose drop *)
(* codegen omits, has lost a part on every path.  (A binding assigned      *)
(* field by field is excluded: its entry stays although the fields are     *)
(* back: the code takes such a binding for one that never held a value.)   *)
Owning(l) == cfg.decl[l].ty \in {"own", "drop"}

Refilled(l) == \E b \in Blocks(cfg) : \E i \in 1..Len(cfg.ops[b]) :
                 LET op == cfg.ops[b][i]
                 IN  op.k = "init" /\ Root(op.pl) = l /\ ~ IsLocal(op.pl)

DefiniteInv ==
  Running => \A q \in cfg.places :
    Owning(Root(q)) /\ ~ Refilled(Root(q)) /\ before[pc[1]][pc[2]][q] \in Definite
      => Under(q) \cap holes # {}

DefiniteIsMoved ==
  \A l \in DOMAIN cfg.decl :
    AtScopeEnd(l) /\ Owning(l) /\ ~ Refilled(l) =>
      \A i \in 1..Len(movedLocals) :
        movedLocals[i].local = l /\ movedLocals[i].status # "MaybeMoved"
          => Under(<<l>>) \cap holes # {}
=============================================================================
