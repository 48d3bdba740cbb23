----------------------------- MODULE DropProofs -----------------------------
(***************************************************************************)
(* No path of the emitted code drops a value that is not there.  The       *)
(* argument follows each binding from its declaration to the end of its    *)
(* scope: what it holds is what the move analysis knows of it, and a set   *)
(* flag says that it holds all of it.                                      *)
(***************************************************************************)
EXTENDS DropElaboration, MoveSoundnessProofs

(***************************************************************************)
(* Spans.                                                                  *)
(***************************************************************************)

(* On entry a span holds of the parameters, or of the other bindings. *)
LEMMA SpanLaunch ==
  ASSUME NEW c \in Cfgs, NEW l, NEW span, OnEveryPath(c, l, span, c.entry, 1)
  PROVE  (l \in c.params) = span.params
<1>1. PICK F \in SUBSET Blocks(c) :
        EnteredWithin(c, l, span, F) /\ Within(c, l, span, F, c.entry, 1)
  BY DEF OnEveryPath
<1>2. 1..(1 - 1) = {}
  OBVIOUS
<1>3. c.entry \in F
  BY <1>1, <1>2 DEF Within
<1> QED BY <1>1, <1>3 DEF EnteredWithin

(* An edge into a span leaves a block whose end is within it, unless the   *)
(* span begins where a binding is left behind.                             *)
LEMMA SpanJump ==
  ASSUME NEW c \in Cfgs, NEW l, NEW span, NEW a \in Blocks(c), NEW b \in Succs(c, a),
         OnEveryPath(c, l, span, b, 1)
  PROVE  IF l \in c.exits[a] THEN "dead" \in span.from
         ELSE OnEveryPath(c, l, span, a, Len(c.ops[a]) + 1)
<1>1. PICK F \in SUBSET Blocks(c) :
        EnteredWithin(c, l, span, F) /\ Within(c, l, span, F, b, 1)
  BY DEF OnEveryPath
<1>2. 1..(1 - 1) = {}
  OBVIOUS
<1>3. b \in F /\ a \in Preds(c, b)
  BY <1>1, <1>2 DEF Within, Preds
<1>4. LeftWithin(c, l, span, F, a)
  BY <1>1, <1>3 DEF EnteredWithin
<1> QED BY <1>1, <1>4 DEF OnEveryPath, LeftWithin

(* After an effect a span has just begun, or it was there and goes on. *)
LEMMA SpanExec ==
  ASSUME NEW c, NEW l, NEW span, NEW b, NEW i \in Nat \ {0},
         OnEveryPath(c, l, span, b, i + 1)
  PROVE  \/ Begins(c.ops[b][i], l, span)
         \/ OnEveryPath(c, l, span, b, i) /\ ~ Ends(c.ops[b][i], l, span)
<1>1. PICK F \in SUBSET Blocks(c) :
        EnteredWithin(c, l, span, F) /\ Within(c, l, span, F, b, i + 1)
  BY DEF OnEveryPath
<1>2. (i + 1) - 1 = i
  OBVIOUS
<1>3. CASE b \in F /\ \A m \in 1..i : ~ Ends(c.ops[b][m], l, span)
  <2>1. Within(c, l, span, F, b, i)
    BY <1>3 DEF Within
  <2> QED BY <1>1, <1>3, <2>1 DEF OnEveryPath
<1>4. CASE \E j \in 1..i : /\ Begins(c.ops[b][j], l, span)
                           /\ \A m \in (j + 1)..i : ~ Ends(c.ops[b][m], l, span)
  <2>1. PICK j \in 1..i : /\ Begins(c.ops[b][j], l, span)
                          /\ \A m \in (j + 1)..i : ~ Ends(c.ops[b][m], l, span)
    BY <1>4
  <2>2. CASE j = i
    BY <2>1, <2>2
  <2>3. CASE j # i
    <3>1. j \in 1..(i - 1) /\ i \in (j + 1)..i /\ (j + 1)..(i - 1) \subseteq (j + 1)..i
      BY <2>3
    <3>2. Within(c, l, span, F, b, i)
      BY <2>1, <3>1 DEF Within
    <3> QED BY <1>1, <2>1, <3>1, <3>2 DEF OnEveryPath
  <2> QED BY <2>2, <2>3
<1> QED BY <1>1, <1>2, <1>3, <1>4 DEF Within

(***************************************************************************)
(* The leaves of a binding.                                                *)
(***************************************************************************)

LEMMA LeavesFacts ==
  ASSUME cfg \in Cfgs, NEW p \in cfg.places, NEW l
  PROVE  /\ IsLocal(p) /\ Root(p) = l => Under(p) = LeavesOf({l})
         /\ Root(p) # l => Under(p) \cap LeavesOf({l}) = {}
         /\ Root(p) = l => Under(p) \subseteq LeavesOf({l})
         /\ Root(p) = l /\ Named(cfg, l) /\ Owning(l) => OwningUnder(p) = Under(p)
<1>1. \A q \in Under(p) : Root(q) = Root(p)
  BY UnderRoot
<1>2. ASSUME IsLocal(p), NEW q \in cfg.leaves, Root(q) = Root(p)
      PROVE  IsPrefixOf(p, q)
  <2>1. q \in Seq(STRING) /\ q # <<>>
    BY CfgsOK DEF CfgOK
  <2>2. Len(q) \in Nat /\ Len(q) >= 1
    BY <2>1, LenProperties, EmptySeq
  <2> QED BY <1>2, <2>2 DEF IsPrefixOf, IsLocal, Root
<1> QED BY <1>1, <1>2 DEF Under, LeavesOf, OwningUnder

(* The elaboration reads the analysis's result, which no longer changes. *)
LEMMA Fixed ==
  ASSUME UNCHANGED vars
  PROVE  /\ cfg' = cfg /\ Bindings' = Bindings /\ Flagged' = Flagged
         /\ \A l : NameOf(l)' = NameOf(l) /\ (Owning(l)' <=> Owning(l))
                   /\ FlagOf(NameOf(l))' = FlagOf(NameOf(l))
                   /\ LeavesOf({l})' = LeavesOf({l})
         /\ ExitsListed' <=> ExitsListed
         /\ ExitsAgree' <=> ExitsAgree
         /\ WholeMoves' <=> WholeMoves
         /\ FlagsKept' <=> FlagsKept
<1>1. cfg' = cfg /\ movedLocals' = movedLocals /\ blockOut' = blockOut
  BY DEF vars
<1>2. Bindings' = Bindings
  BY <1>1 DEF Bindings
<1>3. \A l : NameOf(l)' = NameOf(l) /\ (Owning(l)' <=> Owning(l))
             /\ LeavesOf({l})' = LeavesOf({l})
  BY <1>1 DEF NameOf, Owning, LeavesOf
<1>4. Flagged' = Flagged
  BY <1>1, <1>2 DEF Flagged, DropAction, Owning, Entries, NameOf, First
<1>5. \A l : HasFlag(l)' <=> HasFlag(l)
  BY <1>1 DEF HasFlag, Occurs
<1>6. \A l : FlagOf(NameOf(l))' = FlagOf(NameOf(l))
  BY <1>1, <1>4, <1>5 DEF FlagOf, NameOf
<1>7. (ExitsListed' <=> ExitsListed) /\ (ExitsAgree' <=> ExitsAgree)
  <2>1. \A l : DropAction(l)' = DropAction(l)
    BY <1>1 DEF DropAction, Owning, Entries, NameOf, First
  <2>2. \A b, l : MarkedAtEnd(b, l)' = MarkedAtEnd(b, l)
    BY <1>1 DEF MarkedAtEnd
  <2>3. ExitsListed' <=> ExitsListed
    BY <1>1, <1>3, <2>1, <2>2 DEF ExitsListed
  <2>4. ExitsAgree' <=> ExitsAgree
    BY <1>1, <1>3, <2>1, <2>2 DEF ExitsAgree
  <2> QED BY <2>3, <2>4
<1>8. WholeMoves' <=> WholeMoves
  BY <1>1, <1>2 DEF WholeMoves
<1>9. FlagsKept' <=> FlagsKept
  BY <1>1, <1>4, <1>5, <1>6 DEF FlagsKept, Occurs
<1> QED BY <1>1, <1>2, <1>3, <1>4, <1>6, <1>7, <1>8, <1>9

(***************************************************************************)
(* One effect.                                                             *)
(***************************************************************************)

(* The facts about the effect an execution is at. *)
LEMMA EffectFacts ==
  ASSUME SoundInv, AtOp
  PROVE  /\ cfg \in Cfgs /\ pc[1] \in Blocks(cfg) /\ pc[2] \in 1..Len(cfg.ops[pc[1]])
         /\ pc[2] \in Nat \ {0} /\ CurrentOp = cfg.ops[pc[1]][pc[2]]
         /\ CurrentOp \in [k : OpKinds, pl : cfg.places, node : Nat]
         /\ Root(CurrentOp.pl) \in DOMAIN cfg.decl
         /\ Sites(cfg, CurrentOp) \subseteq sites
         /\ CurrentOp.k \in {"uninit", "bind", "live", "dead"} => IsLocal(CurrentOp.pl)
<1>1. Running
  BY DEF AtOp
<1>2. /\ cfg \in Cfgs /\ pc[1] \in Blocks(cfg) /\ pc[2] \in 1..Len(cfg.ops[pc[1]])
      /\ phase = "done" /\ work = <<>>
  BY <1>1, RunFacts
<1>3. /\ CurrentOp \in [k : OpKinds, pl : cfg.places, node : Nat]
      /\ Root(CurrentOp.pl) \in DOMAIN cfg.decl
  BY <1>2, OpType DEF CurrentOp
<1>4. Sites(cfg, CurrentOp) \subseteq sites
  BY <1>2, HistoryIsFixpoint DEF CurrentOp, SoundInv
<1>5. CurrentOp.k \in {"uninit", "bind", "live", "dead"} => IsLocal(CurrentOp.pl)
  BY <1>2, DropCfgsOK DEF DropCfgOK, CurrentOp
<1>6. Len(cfg.ops[pc[1]]) \in Nat
  BY <1>2, CfgFacts
<1> QED BY <1>2, <1>3, <1>4, <1>5, <1>6 DEF CurrentOp

(* A flag that is set where a binding is in scope is its own, or was set   *)
(* before: codegen met the bindings of one name in scope order.            *)
LEMMA LiveFlag ==
  ASSUME SoundInv, AtOp, FlagsKept, CurrentOp.k = "live",
         NEW l \in Flagged, Here(l, Storage), Root(CurrentOp.pl) \in FlagOf(NameOf(l))
  PROVE  Root(CurrentOp.pl) = l /\ Here(l, Value)
<1> DEFINE k == Root(CurrentOp.pl)
<1>1. DropCfgOK(cfg)
  BY EffectFacts, DropCfgsOK
<1>2. k \in DOMAIN cfg.decl /\ l \in DOMAIN cfg.decl
  BY EffectFacts DEF Flagged, Bindings
<1>3. cfg.idx[k] <= cfg.idx[l] /\ cfg.decl[l].name = cfg.decl[k].name
  BY DEF FlagOf, FlagsKept, NameOf
<1>4. l # k => cfg.idx[l] < cfg.idx[k]
  BY <1>1, <1>2, <1>3, EffectFacts DEF DropCfgOK, Here
<1>5. cfg.idx[k] \in Nat /\ cfg.idx[l] \in Nat
  BY <1>1, <1>2 DEF DropCfgOK
<1>6. k = l
  BY <1>3, <1>4, <1>5
<1>7. OnEveryPath(cfg, k, Value, pc[1], pc[2])
  BY <1>1, EffectFacts DEF DropCfgOK
<1> QED BY <1>6, <1>7 DEF Here

LEMMA HeldExec ==
  ASSUME SoundInv, DropExec, UNCHANGED vars, WholeMoves, FlagsKept,
         flags \in [DOMAIN cfg.decl -> {0, 1}],
         NEW l \in Bindings, Owning(l), Held(l)
  PROVE  Held(l)'
<1> DEFINE b == pc[1]
           i == pc[2]
           op == CurrentOp
           leaves == LeavesOf({l})
           V == OnEveryPath(cfg, l, Value, b, i + 1)
           S == OnEveryPath(cfg, l, Storage, b, i + 1)
           Set == \E k \in FlagOf(NameOf(l)) : flags'[k] = 1
<1>1. /\ AtOp /\ holes' = HoleEffect(op) /\ pc' = <<b, i + 1>>
  BY DEF DropExec, Exec
<1>2. /\ cfg \in Cfgs /\ op = cfg.ops[b][i] /\ op.pl \in cfg.places /\ i \in Nat \ {0}
      /\ op.k \in OpKinds /\ b \in Blocks(cfg) /\ i \in 1..Len(cfg.ops[b])
      /\ op.k \in {"uninit", "bind", "live", "dead"} => IsLocal(op.pl)
  BY <1>1, EffectFacts
<1>3. V => Begins(op, l, Value) \/ (Here(l, Value) /\ ~ Ends(op, l, Value))
  BY <1>2, SpanExec DEF Here
<1>4. S => Begins(op, l, Storage) \/ (Here(l, Storage) /\ ~ Ends(op, l, Storage))
  BY <1>2, SpanExec DEF Here
<1>5. SUFFICES /\ V => leaves \subseteq full'
               /\ S => leaves \subseteq full' \cup holes'
               /\ S /\ l \in Flagged /\ Set => leaves \subseteq full'
  BY <1>1, Fixed DEF Held, Here, FlagSet
<1>6. Named(cfg, l) /\ cfg.decl[l].ty # "raw" /\ l \in DOMAIN cfg.decl
  BY DEF Bindings, Owning
<1>7. /\ IsLocal(op.pl) /\ Root(op.pl) = l => Under(op.pl) = leaves
      /\ Root(op.pl) # l => Under(op.pl) \cap leaves = {}
      /\ Root(op.pl) = l => Under(op.pl) \subseteq leaves /\ OwningUnder(op.pl) = Under(op.pl)
  BY <1>2, <1>6, LeavesFacts
<1> HIDE DEF leaves, V, S, op
<1>8. CASE op.k = "move" /\ Root(op.pl) = l
  <2>1. ~ Begins(op, l, Value) /\ Ends(op, l, Value) /\ ~ Begins(op, l, Storage)
    BY <1>8 DEF Begins, Ends, Value, Storage
  <2>2. ~ V /\ (S => Here(l, Storage))
    BY <1>3, <1>4, <2>1
  <2>3. full' = full \ Under(op.pl) /\ holes' = holes \cup Under(op.pl)
    BY <1>1, <1>6, <1>8 DEF DropExec, MoveOut, HoleEffect, ThroughRawDeref, op
  <2>4. ~ Set
    <3>1. IsLocal(op.pl) /\ op.node # 0
      BY <1>2, <1>8 DEF WholeMoves
    <3>2. [node |-> op.node, name |-> NameOf(l)] \in Sites(cfg, op)
      BY <1>6, <1>8, <3>1 DEF Sites, NameOf
    <3>3. Sites(cfg, op) \subseteq sites
      BY <1>1, EffectFacts DEF op
    <3>4. \A k \in FlagOf(NameOf(l)) : NameOf(k) = NameOf(l) /\ k \in DOMAIN flags
      BY DEF FlagOf, Flagged, Bindings
    <3>5. flags' = [k \in DOMAIN flags |->
                      IF k \in FlagOf(NameOf(l)) THEN 0 ELSE flags[k]]
      BY <1>8, <3>1, <3>2, <3>3 DEF DropExec, MoveOut, op
    <3>6. \A k \in FlagOf(NameOf(l)) : flags'[k] = 0
      BY <3>4, <3>5
    <3> QED BY <3>6
  <2>5. S => leaves \subseteq full \cup holes
    BY <2>2 DEF Held, leaves
  <2> QED BY <2>2, <2>3, <2>4, <2>5
<1>9. CASE op.k \in {"init", "bind"}
  <2>1. full' = full \cup OwningUnder(op.pl) /\ holes' = holes \ Under(op.pl)
        /\ flags' = flags
    BY <1>1, <1>9 DEF DropExec, Store, HoleEffect, op
  <2>2. CASE Begins(op, l, Value)
    BY <1>7, <2>1, <2>2 DEF Begins
  <2>3. CASE ~ Begins(op, l, Value)
    <3>1. ~ Begins(op, l, Storage)
      BY <1>9, <2>3 DEF Begins, Value, Storage
    <3>2. (V => Here(l, Value)) /\ (S => Here(l, Storage)) /\ (Set => FlagSet(l))
      BY <1>3, <1>4, <2>1, <2>3, <3>1 DEF FlagSet
    <3>3. leaves \cap holes \subseteq full' \cup holes'
      BY <1>7, <2>1
    <3> QED BY <2>1, <3>2, <3>3 DEF Held, leaves
  <2> QED BY <2>2, <2>3
<1>10. CASE op.k = "uninit" /\ Root(op.pl) = l
  <2>1. ~ V
    BY <1>3, <1>10 DEF Begins, Ends, Value
  <2>2. leaves \subseteq holes'
    BY <1>1, <1>2, <1>7, <1>10 DEF HoleEffect
  <2>3. l \in Flagged => ~ Set
    <3>1. Occurs("uninit", l)
      BY <1>2, <1>10 DEF Occurs
    <3>2. l \in Flagged => FlagOf(NameOf(l)) \subseteq {l}
      BY <3>1 DEF FlagsKept
    <3>3. flags'[l] = 0
      BY <1>6, <1>10 DEF DropExec, SetFlag, op
    <3> QED BY <3>2, <3>3
  <2> QED BY <2>1, <2>2, <2>3
<1>11. CASE op.k = "dead" /\ Root(op.pl) = l
  <2>1. ~ V /\ ~ S
    BY <1>3, <1>4, <1>11 DEF Begins, Ends, Value, Storage
  <2> QED BY <2>1
<1>12. CASE op.k \in {"move", "uninit", "dead"} /\ Root(op.pl) # l
  <2>1. (V => Here(l, Value)) /\ (S => Here(l, Storage))
    BY <1>3, <1>4, <1>12 DEF Begins
  <2>2. full \cap leaves \subseteq full' /\ holes \subseteq holes'
    <3>1. CASE op.k = "move"
      BY <1>1, <1>7, <1>12, <3>1 DEF DropExec, MoveOut, HoleEffect, op
    <3>2. CASE op.k = "uninit"
      BY <1>1, <1>7, <1>12, <3>2 DEF DropExec, SetFlag, HoleEffect, op
    <3>3. CASE op.k = "dead"
      <4>1. full' = full \ (LeavesOf({Root(op.pl)} \cap Bindings)
                              \cup (full \cap LeavesOf({Root(op.pl)} \cap Bindings)))
        BY <3>3 DEF DropExec, EndScopes, Release, op
      <4>2. LeavesOf({Root(op.pl)} \cap Bindings) \cap leaves = {}
        BY <1>12 DEF LeavesOf, leaves
      <4> QED BY <1>1, <3>3, <4>1, <4>2 DEF HoleEffect
    <3> QED BY <1>12, <3>1, <3>2, <3>3
  <2>3. Set => FlagSet(l)
    <3>1. \A k \in DOMAIN flags : flags'[k] = 1 => flags[k] = 1
      <4>1. CASE op.k = "move"
        BY <4>1 DEF DropExec, MoveOut, op
      <4>2. CASE op.k = "uninit"
        BY <4>2 DEF DropExec, SetFlag, op
      <4>3. CASE op.k = "dead"
        BY <4>3 DEF DropExec, EndScopes, Release, op
      <4> QED BY <1>12, <4>1, <4>2, <4>3
    <3>2. FlagOf(NameOf(l)) \subseteq DOMAIN flags
      BY DEF FlagOf, Flagged, Bindings
    <3> QED BY <3>1, <3>2 DEF FlagSet
  <2> QED BY <2>1, <2>2, <2>3 DEF Held, leaves
<1>13. CASE op.k = "live"
  <2>1. (V => Here(l, Value)) /\ (S => Here(l, Storage))
    BY <1>3, <1>4, <1>13 DEF Begins, Value, Storage
  <2>2. full' = full /\ holes' = holes
    BY <1>1, <1>13 DEF DropExec, SetFlag, HoleEffect, op
  <2>3. S /\ l \in Flagged /\ Set => FlagSet(l) \/ Here(l, Value)
    <3> SUFFICES ASSUME S, l \in Flagged, NEW k \in FlagOf(NameOf(l)), flags'[k] = 1,
                        flags[k] # 1
        PROVE  Here(l, Value)
      BY DEF FlagSet
    <3>1. k = Root(op.pl)
      <4>1. k \in DOMAIN flags
        BY DEF FlagOf, Flagged, Bindings
      <4>2. flags' = [flags EXCEPT ![Root(op.pl)] = 1]
        BY <1>13 DEF DropExec, SetFlag, op
      <4> QED BY <4>1, <4>2
    <3> QED BY <1>1, <1>13, <2>1, <3>1, LiveFlag DEF op
  <2> QED BY <2>1, <2>2, <2>3 DEF Held, leaves
<1>14. CASE op.k \in {"copy", "borrow", "disc", "drop"}
  <2>1. (V => Here(l, Value)) /\ (S => Here(l, Storage))
    BY <1>3, <1>4, <1>14 DEF Begins, Value, Storage
  <2>2. full' = full /\ holes' = holes /\ flags' = flags
    BY <1>1, <1>14 DEF DropExec, dropVars, HoleEffect, op
  <2> QED BY <2>1, <2>2 DEF Held, FlagSet, leaves
<1> QED BY <1>2, <1>8, <1>9, <1>10, <1>11, <1>12, <1>13, <1>14 DEF OpKinds

(* At the end of its storage a binding is dropped only if all of it is there. *)
LEMMA DropIsWhole ==
  ASSUME SoundInv, AtOp, CurrentOp.k = "dead", NEW l \in Bindings,
         Root(CurrentOp.pl) = l, Owning(l) => Held(l), l \in Dropped({l})
  PROVE  LeavesOf({l}) \subseteq full
<1>1. DropAction(l) = "Always" \/ (DropAction(l) = "Flagged" /\ FlagSet(l))
  BY DEF Dropped
<1>2. Owning(l)
  BY <1>1 DEF DropAction
<1>3. Here(l, Storage)
  BY EffectFacts, DropCfgsOK DEF DropCfgOK, Here
<1>4. CASE DropAction(l) = "Flagged" /\ FlagSet(l)
  BY <1>2, <1>3, <1>4 DEF Held, Flagged
<1>5. CASE DropAction(l) = "Always"
  <2>1. Entries(NameOf(l)) = {}
    BY <1>2, <1>5 DEF DropAction
  <2>2. ~ Listed(movedLocals, l)
    BY <2>1 DEF Entries, Listed
  <2>3. CurrentOp.pl = <<l>>
    <3>1. IsLocal(CurrentOp.pl) /\ CurrentOp.pl \in cfg.places /\ cfg \in Cfgs
      BY EffectFacts
    <3>2. CurrentOp.pl \in Seq(STRING)
      BY <3>1, ShapeFacts
    <3> QED BY <3>1, <3>2 DEF IsLocal, Root
  <2>4. AtScopeEnd(l) /\ l \in DOMAIN cfg.decl
    BY <2>3 DEF AtScopeEnd, Bindings
  <2>5. Under(<<l>>) \cap holes = {}
    BY <2>2, <2>4, UnlistedWhole DEF UnlistedIsWhole
  <2>6. Under(<<l>>) = LeavesOf({l})
    BY <2>3, EffectFacts, LeavesFacts
  <2> QED BY <1>2, <1>3, <2>5, <2>6 DEF Held
<1> QED BY <1>1, <1>4, <1>5

(* What a way out drops are bindings. *)
LEMMA ExitsAreBindings ==
  ASSUME cfg \in Cfgs, NEW b \in Blocks(cfg)
  PROVE  cfg.exits[b] \subseteq Bindings
BY DropCfgsOK DEF DropCfgOK, Bindings

(***************************************************************************)
(* The steps.                                                              *)
(***************************************************************************)

(* The soundness of the move analysis carries over: a return only stops.   *)
LEMMA DropSoundStep ==
  ASSUME SoundInv, [DropNext]_<<vars, runVars, dropVars>>
  PROVE  SoundInv'
<1>1. CASE [SoundNext]_<<vars, runVars>>
  BY <1>1, SoundStep
<1>2. CASE Return /\ UNCHANGED vars
  <2>1. pc' = <<0, 0>> /\ holes' = holes
    BY <1>2 DEF Return
  <2>2. TypeOK' /\ FlowInv' /\ SnapInv'
    BY <1>2, TypeStep, FlowRest, SnapStepLemma DEF SoundInv
  <2>3. holes' \subseteq cfg'.leaves
    BY <1>2, <2>1 DEF SoundInv, RunTypeOK, vars
  <2>4. RunTypeOK' /\ RunInv'
    BY <2>1, <2>3 DEF RunTypeOK, RunInv, Running
  <2> QED BY <2>2, <2>4 DEF SoundInv
<1> QED BY <1>1, <1>2 DEF DropNext, DropLaunch, DropExec, DropJump, SoundNext, runVars

LEMMA DropExecStep ==
  ASSUME SoundInv, DropInv, DropExec, UNCHANGED vars
  PROVE  DropInv'
<1> DEFINE op == CurrentOp
<1>1. AtOp /\ Running /\ cfg' = cfg /\ phase' = phase /\ phase = "done"
  BY RunFacts DEF DropExec, Exec, AtOp, vars
<1>2. /\ Root(op.pl) \in DOMAIN cfg.decl /\ op.k \in OpKinds
      /\ op.k = "dead" => IsLocal(op.pl)
  BY <1>1, EffectFacts
<1>3. flags \in [DOMAIN cfg.decl -> {0, 1}]
  BY DEF DropInv
<1>4. flags' \in [DOMAIN cfg.decl -> {0, 1}]
  <2>1. CASE op.k = "move"
    BY <1>3, <2>1 DEF DropExec, MoveOut
  <2>2. CASE op.k \in {"live", "uninit"}
    BY <1>2, <1>3, <2>2 DEF DropExec, SetFlag
  <2>3. CASE op.k \notin {"move", "live", "uninit"}
    <3>1. flags' = flags
      BY <2>3 DEF DropExec, Store, EndScopes, Release, dropVars
    <3> QED BY <1>3, <3>1
  <2> QED BY <2>1, <2>2, <2>3
<1>5. SUFFICES ASSUME ExitsListed, WholeMoves, FlagsKept
      PROVE  /\ "double" \notin faults'
             /\ \A l \in Bindings : Owning(l) => Held(l)'
  BY <1>1, <1>4, Fixed DEF DropInv
<1>6. /\ "double" \notin faults
      /\ \A l \in Bindings : Owning(l) => Held(l)
  BY <1>1, <1>5 DEF DropInv
<1>7. "double" \notin faults'
  <2>1. CASE op.k = "dead"
    <3> DEFINE s == {Root(op.pl)} \cap Bindings
    <3>1. LeavesOf(Dropped(s)) \subseteq full
      <4> SUFFICES ASSUME NEW p \in LeavesOf(Dropped(s)) PROVE p \in full
        OBVIOUS
      <4>1. Root(p) \in Bindings /\ Root(p) = Root(op.pl) /\ Root(p) \in Dropped({Root(p)})
            /\ p \in LeavesOf({Root(p)})
        BY DEF LeavesOf, Dropped
      <4> QED BY <1>1, <1>6, <2>1, <4>1, DropIsWhole
    <3>2. faults' = faults \cup {f \in {"double", "leak"} :
                                  \/ f = "double" /\ ~ LeavesOf(Dropped(s)) \subseteq full
                                  \/ f = "leak" /\ ~ (full \cap LeavesOf(s))
                                                      \subseteq LeavesOf(Dropped(s))}
      BY <2>1 DEF DropExec, EndScopes, Release
    <3> QED BY <1>6, <3>1, <3>2
  <2>2. CASE op.k \in {"init", "bind"}
    BY <1>6, <2>2 DEF DropExec, Store
  <2>3. CASE op.k \notin {"dead", "init", "bind"}
    BY <1>6, <2>3 DEF DropExec, MoveOut, SetFlag, dropVars
  <2> QED BY <2>1, <2>2, <2>3
<1>8. ASSUME NEW l \in Bindings, Owning(l) PROVE Held(l)'
  BY <1>3, <1>5, <1>6, <1>8, HeldExec
<1> QED BY <1>7, <1>8

(* A parameter is full on entry, and nothing else is in scope. *)
LEMMA DropLaunchStep ==
  ASSUME SoundInv, DropInv, DropLaunch, UNCHANGED vars
  PROVE  DropInv'
<1>1. /\ pc' = <<cfg.entry, 1>> /\ holes' = {} /\ faults' = {} /\ cfg' = cfg
      /\ full' = {p \in cfg.leaves : Root(p) \in cfg.params /\ Owning(Root(p))}
      /\ flags' = [l \in DOMAIN cfg.decl |-> IF l \in cfg.params THEN 1 ELSE 0]
      /\ cfg \in Cfgs
  BY DEF DropLaunch, Launch, vars, SoundInv, TypeOK
<1>2. ASSUME NEW l, Owning(l), NEW span \in {Value, Storage}, Here(l, span)'
      PROVE  LeavesOf({l}) \subseteq full'
  <2>1. l \in cfg.params
    BY <1>1, <1>2, SpanLaunch DEF Here, Value, Storage
  <2> QED BY <1>1, <1>2, <2>1 DEF LeavesOf
<1>3. ASSUME NEW l, Owning(l) PROVE Held(l)'
  <2>1. LeavesOf({l})' = LeavesOf({l})
    BY Fixed
  <2> QED BY <1>2, <1>3, <2>1 DEF Held
<1> QED BY <1>1, <1>3, Fixed DEF DropInv

(* What is dropped on a way out of its scope is there, all of it. *)
LEMMA ExitIsWhole ==
  ASSUME SoundInv, Running, ~ AtOp, ExitsListed, NEW l \in cfg.exits[pc[1]],
         Owning(l) => Held(l), l \in Dropped({l})
  PROVE  LeavesOf({l}) \subseteq full
<1> DEFINE b == pc[1]
<1>1. DropAction(l) = "Always" \/ (DropAction(l) = "Flagged" /\ FlagSet(l))
  BY DEF Dropped
<1>2. Owning(l) /\ Held(l)
  BY <1>1 DEF DropAction
<1>3. cfg \in Cfgs /\ b \in Blocks(cfg) /\ pc[2] = Len(cfg.ops[b]) + 1 /\ work = <<>>
  BY RunFacts
<1>4. Here(l, Storage) /\ (MarkedAtEnd(b, l) # {} => DropAction(l) # "Always")
  BY <1>2, <1>3 DEF ExitsListed, Here
<1>5. CASE DropAction(l) = "Flagged" /\ FlagSet(l)
  <2>1. l \in Flagged
    BY <1>3, <1>5, ExitsAreBindings DEF Flagged
  <2> QED BY <1>2, <1>4, <1>5, <2>1 DEF Held
<1>6. CASE DropAction(l) = "Always"
  <2>1. blockOut[b] = before[b][pc[2]]
    BY <1>3, RunFacts, HistoryIsFixpoint DEF SoundInv
  <2>2. Covers(before[b][pc[2]], holes) /\ holes \subseteq cfg.leaves
    BY DEF SoundInv, RunInv, RunTypeOK
  <2>3. before[b][pc[2]] \in MoveSets(cfg)
    BY <1>3, RunFacts, HistoryIsFixpoint DEF SoundInv, Points
  <2>4. ASSUME NEW p \in holes, p \in LeavesOf({l}) PROVE FALSE
    <3>1. PICK q \in Present(before[b][pc[2]]) : IsPrefixOf(q, p)
      BY <2>2 DEF Covers
    <3>2. q \in cfg.places /\ Root(p) = l
      BY <2>3, <2>4, <3>1 DEF Present, MoveSets, LeavesOf
    <3>3. p \in Under(q)
      BY <2>2, <3>1 DEF Under
    <3>4. Root(q) = l
      BY <1>3, <3>2, <3>3, UnderRoot
    <3> QED BY <1>4, <1>6, <2>1, <3>1, <3>4 DEF MarkedAtEnd
  <2> QED BY <1>2, <1>4, <2>4 DEF Held
<1> QED BY <1>1, <1>5, <1>6

(* A way out of a scope drops no value twice. *)
LEMMA ExitDrops ==
  ASSUME SoundInv, Running, ~ AtOp, ExitsListed,
         \A l \in Bindings : Owning(l) => Held(l),
         "double" \notin faults, NEW due, Release(cfg.exits[pc[1]], due)
  PROVE  "double" \notin faults'
<1> DEFINE s == cfg.exits[pc[1]]
<1>1. s \subseteq Bindings
  BY RunFacts, ExitsAreBindings
<1>2. LeavesOf(Dropped(s)) \subseteq full
  <2> SUFFICES ASSUME NEW p \in LeavesOf(Dropped(s)) PROVE p \in full
    OBVIOUS
  <2>1. Root(p) \in s /\ Root(p) \in Dropped({Root(p)}) /\ p \in LeavesOf({Root(p)})
    BY DEF LeavesOf, Dropped
  <2> QED BY <1>1, <2>1, ExitIsWhole
<1>3. faults' = faults \cup {f \in {"double", "leak"} :
                              \/ f = "double" /\ ~ LeavesOf(Dropped(s)) \subseteq full
                              \/ f = "leak" /\ ~ due \subseteq LeavesOf(Dropped(s))}
  BY DEF Release
<1> QED BY <1>2, <1>3

LEMMA DropJumpStep ==
  ASSUME SoundInv, DropInv, DropJump, UNCHANGED vars
  PROVE  DropInv'
<1> DEFINE s == cfg.exits[pc[1]]
<1>1. /\ Running /\ ~ AtOp /\ holes' = holes /\ cfg' = cfg /\ phase' = phase /\ phase = "done"
      /\ EndScopes(s) /\ flags' = flags
  BY RunFacts DEF DropJump, Jump, vars, EndScopes, Release
<1>2. PICK b \in Succs(cfg, pc[1]) : pc' = <<b, 1>>
  BY DEF DropJump, Jump
<1>3. SUFFICES ASSUME ExitsListed, WholeMoves, FlagsKept
      PROVE  "double" \notin faults' /\ \A l \in Bindings : Owning(l) => Held(l)'
  BY <1>1, Fixed DEF DropInv
<1>4. "double" \notin faults'
  BY <1>1, <1>3, ExitDrops DEF EndScopes, DropInv
<1>5. ASSUME NEW l, NEW span \in {Value, Storage}, Here(l, span)'
      PROVE  Here(l, span) /\ l \notin s
  <2>1. cfg \in Cfgs /\ pc[1] \in Blocks(cfg) /\ pc[2] = Len(cfg.ops[pc[1]]) + 1
    BY <1>1, RunFacts
  <2>2. OnEveryPath(cfg, l, span, b, 1)
    BY <1>1, <1>2, <1>5 DEF Here
  <2>3. "dead" \notin span.from
    BY <1>5 DEF Value, Storage
  <2>4. IF l \in cfg.exits[pc[1]] THEN "dead" \in span.from
        ELSE OnEveryPath(cfg, l, span, pc[1], Len(cfg.ops[pc[1]]) + 1)
    BY <1>2, <2>1, <2>2, SpanJump
  <2>5. l \notin cfg.exits[pc[1]] /\ OnEveryPath(cfg, l, span, pc[1], pc[2])
    BY <2>1, <2>3, <2>4
  <2> QED BY <2>5 DEF Here
<1>6. full' = full \ LeavesOf(s)
  BY <1>1 DEF EndScopes, Release
<1>7. ASSUME NEW l \in Bindings, Owning(l) PROVE Held(l)'
  <2>1. Held(l)
    BY <1>1, <1>3, <1>7 DEF DropInv
  <2>2. Here(l, Value)' => Here(l, Value) /\ l \notin s
    BY <1>5
  <2>3. Here(l, Storage)' => Here(l, Storage) /\ l \notin s
    BY <1>5
  <2>4. l \notin s => LeavesOf({l}) \cap full \subseteq full'
    BY <1>6 DEF LeavesOf
  <2> QED BY <1>1, <2>1, <2>2, <2>3, <2>4, Fixed DEF Held, FlagSet
<1> QED BY <1>4, <1>7

LEMMA ReturnStep ==
  ASSUME SoundInv, DropInv, Return, UNCHANGED vars
  PROVE  DropInv'
<1>1. /\ Running /\ ~ AtOp /\ pc' = <<0, 0>> /\ flags' = flags /\ cfg' = cfg
      /\ phase' = phase /\ phase = "done" /\ Release(cfg.exits[pc[1]], full)
  BY RunFacts DEF Return, Release, vars
<1>2. ~ Running'
  BY <1>1 DEF Running
<1>3. ASSUME ExitsListed, WholeMoves, FlagsKept PROVE "double" \notin faults'
  BY <1>1, <1>3, ExitDrops DEF DropInv
<1> QED BY <1>1, <1>2, <1>3, Fixed DEF DropInv

LEMMA DropStep ==
  ASSUME SoundInv, DropInv, [DropNext]_<<vars, runVars, dropVars>>
  PROVE  DropInv'
<1>1. CASE Next /\ UNCHANGED <<runVars, dropVars>>
  <2>1. phase # "done" /\ cfg' = cfg
    BY <1>1 DEF Next, Pop, Step, Commit, StartSnapshot, SnapStep, SnapNext
  <2>2. ~ Running
    BY <2>1, RunFacts
  <2> QED BY <1>1, <2>1, <2>2 DEF DropInv, runVars, dropVars, Running
<1>2. CASE UNCHANGED <<vars, runVars, dropVars>>
  <2>1. /\ phase' = phase /\ pc' = pc /\ holes' = holes /\ full' = full
        /\ flags' = flags /\ faults' = faults /\ UNCHANGED vars
    BY <1>2 DEF vars, runVars, dropVars
  <2>2. \A l : Held(l) => Held(l)'
    BY <2>1, Fixed DEF Held, Here, FlagSet
  <2> QED BY <2>1, <2>2, Fixed DEF DropInv, Running
<1> QED BY <1>1, <1>2, DropLaunchStep, DropExecStep, DropJumpStep, ReturnStep DEF DropNext

THEOREM DropCorrect == DropSpec => [](SoundInv /\ DropInv)
<1>1. DropInit => SoundInv /\ DropInv
  <2> SUFFICES ASSUME DropInit PROVE SoundInv /\ DropInv
    OBVIOUS
  <2>1. SoundInv
    BY SoundInitLemma DEF DropInit
  <2>2. ~ Running /\ faults = {} /\ flags \in [DOMAIN cfg.decl -> {0, 1}]
    BY DEF DropInit, SoundInit, Running
  <2> QED BY <2>1, <2>2 DEF DropInv
<1>2. SoundInv /\ DropInv /\ [DropNext]_<<vars, runVars, dropVars>> => (SoundInv /\ DropInv)'
  BY DropSoundStep, DropStep
<1> QED BY <1>1, <1>2, PTL DEF DropSpec

(* No path drops a value twice, or drops one that was moved out or never   *)
(* stored.                                                                 *)
THEOREM NoDoubleDropCorrect == DropSpec => []NoDoubleDrop
<1>1. DropInv => NoDoubleDrop
  BY DEF DropInv, NoDoubleDrop
<1> QED BY <1>1, DropCorrect, PTL

(***************************************************************************)
(* Exactly once.  No value outlives the scope of its binding undropped.    *)
(***************************************************************************)

LEMMA PlainFixed ==
  ASSUME UNCHANGED vars
  PROVE  Plain' <=> Plain
<1>1. cfg' = cfg /\ Bindings' = Bindings /\ Flagged' = Flagged
  BY Fixed
<1>2. DistinctNames' <=> DistinctNames
  BY <1>1 DEF DistinctNames, NameOf
<1>3. FlaggedByLet' <=> FlaggedByLet
  BY <1>1 DEF FlaggedByLet
<1>4. WholeStores' <=> WholeStores
  BY <1>1 DEF WholeStores, Owning, Refilled
<1>5. ScopesEnd' <=> ScopesEnd
  BY <1>1 DEF ScopesEnd, Owning
<1> QED BY <1>2, <1>3, <1>4, <1>5, Fixed DEF Plain

(* A binding with a name of its own and a flag has a flag of its own. *)
LEMMA OwnFlag ==
  ASSUME DistinctNames, \A l \in Flagged : FlagOf(NameOf(l)) # {}
  PROVE  FlagsKept /\ \A l \in Flagged : FlagOf(NameOf(l)) = {l}
<1>1. ASSUME NEW l \in Flagged, NEW k \in FlagOf(NameOf(l))
      PROVE  k = l /\ HasFlag(l)
  <2>1. k \in Bindings /\ l \in Bindings /\ NameOf(k) = NameOf(l) /\ HasFlag(k)
    BY DEF FlagOf, Flagged
  <2> QED BY <2>1 DEF DistinctNames
<1> QED BY <1>1 DEF FlagsKept

LEMMA EmptiedExec ==
  ASSUME SoundInv, BindInv, DropExec, UNCHANGED vars, Plain,
         flags \in [DOMAIN cfg.decl -> {0, 1}],
         NEW l \in Bindings, Owning(l), Emptied(l)
  PROVE  Emptied(l)'
<1> DEFINE b == pc[1]
           i == pc[2]
           op == CurrentOp
           next == cfg.ops[b][i + 1]
           m == before[b][i]
           leaves == LeavesOf({l})
           O == OnEveryPath(cfg, l, Outside, b, i + 1)
           Set == i + 1 <= Len(cfg.ops[b]) /\ next.k = "live" /\ Root(next.pl) = l
           Empty1 == full' \cap leaves = {}
<1>1. /\ AtOp /\ Running /\ holes' = HoleEffect(op) /\ pc' = <<b, i + 1>>
      /\ cfg' = cfg /\ before' = before
  BY DEF DropExec, Exec, AtOp, vars
<1>2. /\ cfg \in Cfgs /\ op = cfg.ops[b][i] /\ op.pl \in cfg.places /\ i \in Nat \ {0}
      /\ op.k \in OpKinds /\ b \in Blocks(cfg) /\ i \in 1..Len(cfg.ops[b])
      /\ op.k \in {"uninit", "bind", "live", "dead"} => IsLocal(op.pl)
      /\ Root(op.pl) \in DOMAIN cfg.decl
  BY <1>1, EffectFacts
<1>3. O => Begins(op, l, Outside) \/ (Here(l, Outside) /\ ~ Ends(op, l, Outside))
  BY <1>2, SpanExec DEF Here
<1>4. m \in MoveSets(cfg) /\ before[b][i + 1] = Effect(cfg, op, m)
  BY <1>1, <1>2, RunFacts, HistoryIsFixpoint DEF SoundInv
<1>5. SUFFICES /\ O => Empty1
               /\ \A q \in cfg.places : Root(q) = l /\ Effect(cfg, op, m)[q] \in Definite
                    => Empty1
               /\ l \in Flagged /\ flags'[l] = 0 /\ ~ Set => Empty1
  <2>1. LeavesOf({l})' = leaves /\ Flagged' = Flagged
    BY Fixed
  <2>2. b # 0 /\ pc' # <<0, 0>>
    BY <1>1, <1>2 DEF Blocks
  <2>3. Set => (AtOp /\ CurrentOp.k = "live" /\ Root(CurrentOp.pl) = l)'
    BY <1>1, <2>2 DEF AtOp, Running, CurrentOp
  <2>4. O <=> Here(l, Outside)'
    BY <1>1 DEF Here
  <2> QED BY <1>1, <1>4, <1>5, <2>1, <2>3, <2>4 DEF Emptied, Void
<1>6. Named(cfg, l) /\ cfg.decl[l].ty # "raw" /\ l \in DOMAIN cfg.decl
  BY DEF Bindings, Owning
<1>7. /\ IsLocal(op.pl) /\ Root(op.pl) = l => Under(op.pl) = leaves
      /\ Root(op.pl) # l => Under(op.pl) \cap leaves = {}
  BY <1>2, <1>6, LeavesFacts
<1>8. full \cap leaves = {} =>
        full' \cap leaves = {} \/ (op.k \in {"init", "bind"} /\ Root(op.pl) = l)
  <2>1. CASE op.k \in {"init", "bind"} /\ Root(op.pl) # l
    BY <1>7, <2>1 DEF DropExec, Store, OwningUnder
  <2>2. CASE op.k \notin {"init", "bind"}
    <3>1. full' \subseteq full
      BY <2>2 DEF DropExec, MoveOut, SetFlag, EndScopes, Release, dropVars
    <3> QED BY <3>1
  <2> QED BY <2>1, <2>2
<1>9. /\ Here(l, Outside) => full \cap leaves = {}
      /\ \A q \in cfg.places : Root(q) = l /\ m[q] \in Definite => full \cap leaves = {}
      /\ l \in Flagged /\ flags[l] = 0 /\ ~ (op.k = "live" /\ Root(op.pl) = l)
           => full \cap leaves = {}
  BY <1>1 DEF Emptied, Void
<1> HIDE DEF leaves, O, m, op, next
<1>10. CASE op.k = "move" /\ Root(op.pl) = l
  <2>1. IsLocal(op.pl)
    BY <1>2, <1>10 DEF Plain, WholeMoves
  <2>2. full' = full \ Under(op.pl)
    BY <1>10 DEF DropExec, MoveOut, op
  <2> QED BY <1>7, <1>10, <2>1, <2>2
<1>11. CASE op.k = "dead" /\ Root(op.pl) = l
  <2>1. full' \cap LeavesOf({Root(op.pl)} \cap Bindings) = {}
    BY <1>11 DEF DropExec, EndScopes, Release, op
  <2>2. {Root(op.pl)} \cap Bindings = {l}
    BY <1>11
  <2> QED BY <2>1, <2>2 DEF leaves
<1>12. CASE op.k = "init" /\ Root(op.pl) = l
  <2>1. ~ O
    BY <1>3, <1>12 DEF Begins, Ends, Outside
  <2>2. ASSUME NEW q \in cfg.places, Root(q) = l
        PROVE  Effect(cfg, op, m)[q] \notin Definite
    <3>1. IsLocal(op.pl)
      BY <1>2, <1>12 DEF Plain, WholeStores, Refilled
    <3>2. IsPrefixOf(op.pl, q)
      <4>1. Len(op.pl) = 1 /\ Len(q) >= 1
        BY <1>2, <3>1, ShapeFacts DEF IsLocal
      <4> QED BY <1>12, <2>2, <4>1 DEF IsPrefixOf, Root
    <3> QED BY <1>4, <1>12, <3>2 DEF Effect, InitPlace, MoveSets, Definite
  <2>3. l \in Flagged => Set
    BY <1>2, <1>12 DEF Plain, FlaggedByLet, next
  <2> QED BY <2>1, <2>2, <2>3
<1>13. CASE op.k = "bind" /\ Root(op.pl) = l
  <2>1. ~ O
    BY <1>3, <1>13 DEF Begins, Ends, Outside
  <2>2. i = 1 /\ FirstIteration(cfg, b, l)
    BY <1>2, <1>13, ShapeFacts DEF ScopesOK
  <2>3. PICK F \in SUBSET Blocks(cfg) : b \in F /\ Untouching(cfg, F, l)
    BY <2>2 DEF FirstIteration
  <2>4. \A q \in cfg.places : Root(q) = l => m[q] \notin Definite
    BY <1>6, <2>2, <2>3 DEF BindInv, m
  <2>5. Effect(cfg, op, m) = m
    BY <1>13 DEF Effect
  <2>6. l \notin Flagged
    BY <1>2, <1>13 DEF Plain, FlaggedByLet
  <2> QED BY <2>1, <2>4, <2>5, <2>6
<1>14. CASE op.k = "uninit" /\ Root(op.pl) = l
  <2>1. Here(l, Outside)
    BY <1>2, <1>14 DEF Plain, ScopesEnd, Here
  <2> QED BY <1>8, <1>9, <1>14, <2>1
<1>15. CASE op.k = "live" /\ Root(op.pl) = l
  <2>1. Effect(cfg, op, m) = m /\ (O => Here(l, Outside))
    BY <1>3, <1>15 DEF Effect, Begins, Outside
  <2>2. flags'[l] = 1
    BY <1>6, <1>15 DEF DropExec, SetFlag, op
  <2> QED BY <1>8, <1>9, <1>15, <2>1, <2>2
<1>16. CASE op.k \in {"move", "dead", "init", "bind", "uninit", "live"} /\ Root(op.pl) # l
  <2>1. O => Here(l, Outside)
    BY <1>3, <1>16 DEF Begins
  <2>2. \A q \in cfg.places : Root(q) = l => Effect(cfg, op, m)[q] = m[q]
    BY <1>2, <1>4, <1>16, OtherBinding
  <2>3. flags'[l] = 0 => flags[l] = 0
    <3>1. CASE op.k = "move"
      <4> DEFINE r == Root(op.pl)
      <4>1. l \notin FlagOf(NameOf(r))
        <5> SUFFICES ASSUME l \in FlagOf(NameOf(r)) PROVE FALSE
          OBVIOUS
        <5>1. NameOf(l) = NameOf(r)
          BY DEF FlagOf
        <5>2. r \in Bindings
          BY <1>2, <1>6, <5>1 DEF Bindings, Named, NameOf
        <5> QED BY <1>16, <5>1, <5>2 DEF Plain, DistinctNames
      <4> QED BY <1>6, <3>1, <4>1 DEF DropExec, MoveOut, op
    <3>2. CASE op.k \in {"live", "uninit"}
      BY <1>6, <1>16, <3>2 DEF DropExec, SetFlag, op
    <3>3. CASE op.k \in {"dead", "init", "bind"}
      BY <3>3 DEF DropExec, Store, EndScopes, Release, op
    <3> QED BY <1>16, <3>1, <3>2, <3>3
  <2> QED BY <1>8, <1>9, <1>16, <2>1, <2>2, <2>3
<1>17. CASE op.k \in {"copy", "borrow", "disc", "drop"}
  <2>1. Effect(cfg, op, m) = m /\ (O => Here(l, Outside))
    BY <1>3, <1>17 DEF Effect, Begins, Outside
  <2>2. flags' = flags
    BY <1>17 DEF DropExec, dropVars, op
  <2> QED BY <1>8, <1>9, <1>17, <2>1, <2>2
<1> QED BY <1>2, <1>10, <1>11, <1>12, <1>13, <1>14, <1>15, <1>16, <1>17 DEF OpKinds

(* A binding whose flag is clear holds nothing. *)
LEMMA ClearIsEmpty ==
  ASSUME DistinctNames, \A k \in Flagged : FlagOf(NameOf(k)) # {},
         flags \in [DOMAIN cfg.decl -> {0, 1}], NEW l \in Flagged, Emptied(l),
         ~ FlagSet(l), ~ (AtOp /\ CurrentOp.k = "live")
  PROVE  Void(l)
<1>1. FlagOf(NameOf(l)) = {l} /\ l \in DOMAIN cfg.decl
  BY OwnFlag DEF Flagged, Bindings
<1>2. flags[l] = 0
  BY <1>1 DEF FlagSet
<1> QED BY <1>2 DEF Emptied

(* At the end of its storage a binding that is not dropped holds nothing. *)
LEMMA SkippedIsEmpty ==
  ASSUME SoundInv, SnapStatus, AtOp, CurrentOp.k = "dead", DistinctNames,
         flags \in [DOMAIN cfg.decl -> {0, 1}], \A k \in Flagged : FlagOf(NameOf(k)) # {},
         NEW l \in Bindings, Root(CurrentOp.pl) = l, Owning(l), Emptied(l),
         l \notin Dropped({l})
  PROVE  Void(l)
<1>1. /\ cfg \in Cfgs /\ pc[1] \in Blocks(cfg) /\ pc[2] \in 1..Len(cfg.ops[pc[1]])
      /\ CurrentOp = cfg.ops[pc[1]][pc[2]] /\ l \in DOMAIN cfg.decl
  BY EffectFacts DEF Bindings
<1>2. CASE DropAction(l) = "Flagged"
  <2>1. l \in Flagged /\ ~ FlagSet(l)
    BY <1>2 DEF Flagged, Dropped
  <2> QED BY <2>1, ClearIsEmpty
<1>3. CASE DropAction(l) # "Flagged"
  <2>1. /\ Entries(NameOf(l)) # {}
        /\ ~ \E k \in First(Entries(NameOf(l))) : movedLocals[k].status = "MaybeMoved"
    BY <1>3 DEF DropAction, Dropped
  <2>2. ASSUME NEW k \in Entries(NameOf(l)) PROVE movedLocals[k].local = l
    <3>1. k \in 1..Len(movedLocals) /\ NameOf(movedLocals[k].local) = NameOf(l)
      BY <2>2 DEF Entries
    <3>2. movedLocals[k].local \in {Root(p) : p \in cfg.places}
      <4>1. movedLocals \in Seq([local : {Root(p) : p \in cfg.places}, status : Moves])
        BY DEF SoundInv, TypeOK
      <4>2. movedLocals[k] \in [local : {Root(p) : p \in cfg.places}, status : Moves]
        BY <3>1, <4>1, ElementOfSeq
      <4> QED BY <4>2
    <3>3. movedLocals[k].local \in Bindings
      BY <1>1, <3>1, <3>2, ShapeFacts DEF Bindings, SnapStatus
    <3> QED BY <3>1, <3>3 DEF DistinctNames
  <2>3. PICK k \in Entries(NameOf(l)) : TRUE
    BY <2>1
  <2>4. k \in 1..Len(movedLocals) /\ movedLocals[k].local = l
    BY <2>2, <2>3 DEF Entries
  <2>5. Entries(NameOf(l)) = {k}
    <3>1. \A j \in Entries(NameOf(l)) : j \in 1..Len(movedLocals) /\ movedLocals[j].local = l
      BY <2>2 DEF Entries
    <3>2. \A i \in 1..Len(movedLocals) : movedLocals[i].local = l => i = k
      BY <2>4 DEF SnapStatus
    <3>3. \A j \in Entries(NameOf(l)) : j = k
      BY <3>1, <3>2
    <3> QED BY <2>3, <3>3
  <2>6. movedLocals[k].status # "MaybeMoved"
    BY <2>1, <2>4, <2>5 DEF First
  <2>7. movedLocals[k].status \in Definite
    <3>1. movedLocals[k] \in [local : {Root(p) : p \in cfg.places}, status : Moves]
      BY <2>4, ElementOfSeq DEF SoundInv, TypeOK
    <3> QED BY <2>6, <3>1 DEF Moves, Definite
  <2>8. PICK b \in Blocks(cfg) : \E i \in 1..Len(cfg.ops[b]) : \E q \in cfg.places :
          /\ cfg.ops[b][i].k = "dead" /\ Root(cfg.ops[b][i].pl) = l
          /\ Root(q) = l /\ before[b][i][q] = movedLocals[k].status
    BY <2>4 DEF SnapStatus, Owning
  <2>9. PICK i \in 1..Len(cfg.ops[b]) : \E q \in cfg.places :
          /\ cfg.ops[b][i].k = "dead" /\ Root(cfg.ops[b][i].pl) = l
          /\ Root(q) = l /\ before[b][i][q] = movedLocals[k].status
    BY <2>8
  <2>10. b = pc[1] /\ i = pc[2]
    BY <1>1, <2>9, ShapeFacts DEF ScopesOK
  <2> QED BY <2>7, <2>9, <2>10 DEF Emptied
<1> QED BY <1>2, <1>3

(* On a way out of its scope, too. *)
LEMMA SkippedAtExit ==
  ASSUME SoundInv, Running, ~ AtOp, DistinctNames, ExitsAgree,
         flags \in [DOMAIN cfg.decl -> {0, 1}], \A k \in Flagged : FlagOf(NameOf(k)) # {},
         NEW l \in cfg.exits[pc[1]], Owning(l), Emptied(l), l \notin Dropped({l})
  PROVE  Void(l)
<1> DEFINE b == pc[1]
<1>1. cfg \in Cfgs /\ b \in Blocks(cfg) /\ pc[2] = Len(cfg.ops[b]) + 1 /\ work = <<>>
  BY RunFacts
<1>2. CASE DropAction(l) = "Flagged"
  <2>1. l \in Flagged /\ ~ FlagSet(l)
    BY <1>1, <1>2, ExitsAreBindings DEF Flagged, Dropped
  <2> QED BY <2>1, ClearIsEmpty
<1>3. CASE DropAction(l) = "Skip"
  <2>1. PICK q \in MarkedAtEnd(b, l) : blockOut[b][q] \in Definite
    BY <1>1, <1>3 DEF ExitsAgree
  <2>2. blockOut[b] = before[b][pc[2]] /\ before[b][pc[2]] \in MoveSets(cfg)
    BY <1>1, RunFacts, HistoryIsFixpoint DEF SoundInv, Points
  <2>3. q \in cfg.places /\ Root(q) = l
    BY <2>1, <2>2 DEF MarkedAtEnd, Present, MoveSets
  <2> QED BY <2>1, <2>2, <2>3 DEF Emptied
<1>4. DropAction(l) \in {"Always", "Flagged", "Skip"} /\ DropAction(l) # "Always"
  BY DEF DropAction, Dropped
<1> QED BY <1>2, <1>3, <1>4

OnceCert == SoundInv /\ BindInv /\ SnapStatus /\ DropInv /\ OnceInv

(* What the emitted code fills belongs to a binding that owns it. *)
LEMMA FullStep ==
  ASSUME SoundInv, full \subseteq LeavesOf({l \in Bindings : Owning(l)}),
         DropLaunch \/ DropExec \/ DropJump \/ Return, UNCHANGED vars
  PROVE  full' \subseteq LeavesOf({l \in Bindings : Owning(l)})
<1>1. CASE DropLaunch
  <2>1. cfg \in Cfgs
    BY DEF SoundInv, TypeOK
  <2>2. \A l \in cfg.params : l \in Bindings
    BY <2>1, DropCfgsOK DEF DropCfgOK, Bindings
  <2> QED BY <1>1, <2>2 DEF DropLaunch, LeavesOf
<1>2. CASE DropExec
  <2>1. AtOp
    BY <1>2 DEF DropExec, Exec
  <2>2. CASE CurrentOp.k \in {"init", "bind"}
    <3>1. full' = full \cup OwningUnder(CurrentOp.pl)
      BY <1>2, <2>2 DEF DropExec, Store
    <3>2. \A p \in OwningUnder(CurrentOp.pl) :
            Root(p) \in DOMAIN cfg.decl /\ Owning(Root(p)) /\ Named(cfg, Root(p))
              /\ p \in cfg.leaves
      BY <2>1, EffectFacts, UnderRoot DEF OwningUnder, Under
    <3> QED BY <3>1, <3>2 DEF LeavesOf, Bindings
  <2>3. CASE CurrentOp.k \notin {"init", "bind"}
    <3>1. full' \subseteq full
      BY <1>2, <2>3 DEF DropExec, MoveOut, SetFlag, EndScopes, Release, dropVars
    <3> QED BY <3>1
  <2> QED BY <2>2, <2>3
<1>3. CASE DropJump \/ Return
  <2>1. full' \subseteq full
    BY <1>3 DEF DropJump, Return, EndScopes, Release
  <2> QED BY <2>1
<1> QED BY <1>1, <1>2, <1>3

(* A value whose scope ends is dropped then. *)
LEMMA NoLeakExec ==
  ASSUME OnceCert, DropExec, Plain
  PROVE  "leak" \notin faults'
<1> DEFINE op == CurrentOp
           s == {Root(op.pl)} \cap Bindings
<1>1. /\ AtOp /\ Running /\ "leak" \notin faults /\ SoundInv /\ SnapStatus
      /\ full \subseteq LeavesOf({l \in Bindings : Owning(l)})
      /\ \A l \in Flagged : FlagOf(NameOf(l)) # {}
      /\ \A l \in Bindings : Owning(l) => Emptied(l)
      /\ flags \in [DOMAIN cfg.decl -> {0, 1}]
  BY DEF OnceCert, OnceInv, DropInv, DropExec, Exec, AtOp
<1>2. CASE op.k = "dead"
  <2>1. full \cap LeavesOf(s) \subseteq LeavesOf(Dropped(s))
    <3> SUFFICES ASSUME NEW p \in full, p \in LeavesOf(s), p \notin LeavesOf(Dropped(s))
        PROVE  FALSE
      OBVIOUS
    <3> DEFINE l == Root(p)
    <3>1. /\ l \in Bindings /\ l = Root(op.pl) /\ Owning(l) /\ p \in LeavesOf({l})
          /\ l \notin Dropped({l})
      BY <1>1 DEF LeavesOf, Dropped
    <3>2. Void(l)
      BY <1>1, <1>2, <3>1, SkippedIsEmpty DEF Plain
    <3> QED BY <3>1, <3>2 DEF Void
  <2>2. faults' = faults \cup {f \in {"double", "leak"} :
                                \/ f = "double" /\ ~ LeavesOf(Dropped(s)) \subseteq full
                                \/ f = "leak" /\ ~ (full \cap LeavesOf(s))
                                                    \subseteq LeavesOf(Dropped(s))}
    BY <1>2 DEF DropExec, EndScopes, Release
  <2> QED BY <1>1, <2>1, <2>2
<1>3. CASE op.k \in {"init", "bind"}
  BY <1>1, <1>3 DEF DropExec, Store
<1>4. CASE op.k \notin {"dead", "init", "bind"}
  BY <1>1, <1>4 DEF DropExec, MoveOut, SetFlag, dropVars
<1> QED BY <1>2, <1>3, <1>4

(* The bindings that are left behind are dropped or hold nothing. *)
LEMMA ExitLeaks ==
  ASSUME OnceCert, Running, ~ AtOp, Plain, NEW due, due \subseteq full,
         \A p \in due : Root(p) \in cfg.exits[pc[1]] \/ Void(Root(p)),
         Release(cfg.exits[pc[1]], due)
  PROVE  "leak" \notin faults'
<1> DEFINE s == cfg.exits[pc[1]]
<1>1. /\ SoundInv /\ "leak" \notin faults /\ full \subseteq LeavesOf({l \in Bindings : Owning(l)})
      /\ \A l \in Flagged : FlagOf(NameOf(l)) # {}
      /\ \A l \in Bindings : Owning(l) => Emptied(l)
      /\ flags \in [DOMAIN cfg.decl -> {0, 1}]
  BY DEF OnceCert, OnceInv, DropInv
<1>2. due \subseteq LeavesOf(Dropped(s))
  <2> SUFFICES ASSUME NEW p \in due, p \notin LeavesOf(Dropped(s)) PROVE FALSE
    OBVIOUS
  <2>1. /\ p \in full /\ p \in LeavesOf({Root(p)})
        /\ Root(p) \in Bindings /\ Owning(Root(p))
    BY <1>1 DEF LeavesOf
  <2>2. ~ Void(Root(p))
    BY <2>1 DEF Void
  <2>3. Root(p) \in s /\ Root(p) \notin Dropped({Root(p)})
    BY <2>1, <2>2 DEF LeavesOf, Dropped
  <2> QED BY <1>1, <2>1, <2>2, <2>3, SkippedAtExit DEF Plain
<1>3. faults' = faults \cup {f \in {"double", "leak"} :
                              \/ f = "double" /\ ~ LeavesOf(Dropped(s)) \subseteq full
                              \/ f = "leak" /\ ~ due \subseteq LeavesOf(Dropped(s))}
  BY DEF Release
<1> QED BY <1>1, <1>2, <1>3

(* At an edge nothing is learnt that did not hold before, but that what is *)
(* left behind is empty.                                                   *)
LEMMA OnceJump ==
  ASSUME OnceCert, DropJump, UNCHANGED vars, Plain
  PROVE  "leak" \notin faults' /\ \A l \in Bindings : Owning(l) => Emptied(l)'
<1> DEFINE s == cfg.exits[pc[1]]
<1>1. /\ SoundInv /\ Running /\ ~ AtOp /\ cfg' = cfg /\ before' = before
      /\ Release(s, full \cap LeavesOf(s)) /\ flags' = flags
      /\ \A l \in Bindings : Owning(l) => Emptied(l)
  BY DEF OnceCert, OnceInv, DropJump, Jump, vars, EndScopes, Release
<1>2. PICK b \in Succs(cfg, pc[1]) : pc' = <<b, 1>>
  BY DEF DropJump, Jump
<1>3. "leak" \notin faults'
  <2>1. \A p \in full \cap LeavesOf(s) : Root(p) \in s
    BY DEF LeavesOf
  <2> QED BY <1>1, <2>1, ExitLeaks
<1>4. cfg.succ[pc[1]] \in Seq(Blocks(cfg)) /\ cfg.entry \notin Succs(cfg, pc[1])
  BY <1>1, RunFacts, CfgFacts
<1>5. b \in Blocks(cfg) /\ b # cfg.entry /\ pc[1] \in Preds(cfg, b)
  BY <1>1, <1>2, <1>4, ElementOfSeq, RunFacts DEF Succs, Preds
<1>6. /\ blockOut[pc[1]] = before[pc[1]][pc[2]]
      /\ before[b][1] = InState(b)
  BY <1>1, <1>5, RunFacts, HistoryIsFixpoint DEF SoundInv
<1>7. InState(b) = MergeAll(cfg, blockOut, Preds(cfg, b))
  BY <1>5 DEF InState
<1>8. \A q \in cfg.places : before[b][1][q] \in Definite
        => before[pc[1]][pc[2]][q] \in Definite
  BY <1>5, <1>6, <1>7, MergeDefinite
<1>9. ASSUME NEW l, Here(l, Outside)' PROVE l \in s \/ Here(l, Outside)
  <2>1. cfg \in Cfgs /\ pc[1] \in Blocks(cfg) /\ pc[2] = Len(cfg.ops[pc[1]]) + 1
    BY <1>1, RunFacts
  <2>2. OnEveryPath(cfg, l, Outside, b, 1)
    BY <1>1, <1>2, <1>9 DEF Here
  <2> QED BY <2>1, <2>2, SpanJump DEF Here
<1>10. full' = full \ LeavesOf(s)
  BY <1>1 DEF Release
<1>11. ASSUME NEW l \in Bindings, Owning(l) PROVE Emptied(l)'
  <2>1. Emptied(l) /\ Flagged' = Flagged /\ LeavesOf({l})' = LeavesOf({l})
    BY <1>1, <1>11, Fixed
  <2>2. (Void(l) => Void(l)') /\ (l \in s => Void(l)')
    BY <1>10, <2>1 DEF Void, LeavesOf
  <2> QED BY <1>1, <1>2, <1>8, <1>9, <2>1, <2>2 DEF Emptied
<1> QED BY <1>3, <1>11

(* Where the function stops every scope has ended, or is left then. *)
LEMMA OnceReturn ==
  ASSUME OnceCert, Return, Plain
  PROVE  "leak" \notin faults'
<1>1. /\ SoundInv /\ Running /\ ~ AtOp /\ Succs(cfg, pc[1]) = {}
      /\ Release(cfg.exits[pc[1]], full)
      /\ full \subseteq LeavesOf({l \in Bindings : Owning(l)})
      /\ \A l \in Bindings : Owning(l) => Emptied(l)
  BY DEF OnceCert, OnceInv, Return
<1>2. pc[1] \in Blocks(cfg) /\ pc[2] = Len(cfg.ops[pc[1]]) + 1
  BY <1>1, RunFacts
<1>3. ASSUME NEW p \in full PROVE Root(p) \in cfg.exits[pc[1]] \/ Void(Root(p))
  <2>1. Root(p) \in Bindings /\ Owning(Root(p)) /\ Emptied(Root(p))
    BY <1>1 DEF LeavesOf
  <2> QED BY <1>1, <1>2, <2>1 DEF Plain, ScopesEnd, Emptied, Here
<1> QED BY <1>1, <1>3, ExitLeaks

(* On entry only parameters hold a value, and their flags are set. *)
LEMMA OnceLaunch ==
  ASSUME SoundInv, DropLaunch, UNCHANGED vars
  PROVE  \A l \in Bindings : Owning(l) => Emptied(l)'
<1>1. /\ pc' = <<cfg.entry, 1>> /\ cfg' = cfg /\ before' = before
      /\ full' = {p \in cfg.leaves : Root(p) \in cfg.params /\ Owning(Root(p))}
      /\ flags' = [l \in DOMAIN cfg.decl |-> IF l \in cfg.params THEN 1 ELSE 0]
      /\ cfg \in Cfgs /\ phase = "done"
  BY DEF DropLaunch, Launch, vars, SoundInv, TypeOK
<1>2. SUFFICES ASSUME NEW l \in Bindings, Owning(l) PROVE Emptied(l)'
  OBVIOUS
<1>3. l \notin cfg.params => Void(l)'
  <2>1. LeavesOf({l})' = LeavesOf({l})
    BY Fixed
  <2> QED BY <1>1, <2>1 DEF Void, LeavesOf
<1>4. l \in cfg.params => ~ Here(l, Outside)' /\ flags'[l] = 1
  <2>1. l \in DOMAIN cfg.decl
    BY DEF Bindings
  <2>2. ASSUME Here(l, Outside)' PROVE l \notin cfg.params
    <3>1. OnEveryPath(cfg, l, Outside, cfg.entry, 1)
      BY <1>1, <2>2 DEF Here
    <3>2. (l \in cfg.params) = Outside.params
      BY <1>1, <3>1, SpanLaunch
    <3> QED BY <3>2 DEF Outside
  <2> QED BY <1>1, <2>1, <2>2
<1>5. \A q \in cfg.places : before'[cfg.entry][1][q] \notin Definite
  <2>1. work = <<>> /\ cfg.entry \in Blocks(cfg)
    BY <1>1, CfgFacts DEF SoundInv, TypeOK
  <2>2. before[cfg.entry][1] = Empty(cfg)
    BY <1>1, <2>1, HistoryIsFixpoint DEF InState, SoundInv
  <2> QED BY <1>1, <2>2 DEF Empty, Definite
<1> QED BY <1>1, <1>3, <1>4, <1>5 DEF Emptied

LEMMA OnceStep == OnceCert /\ [DropNext]_<<vars, runVars, dropVars>> => OnceCert'
<1> SUFFICES ASSUME OnceCert, [DropNext]_<<vars, runVars, dropVars>> PROVE OnceCert'
  OBVIOUS
<1>1. SoundInv /\ TypeOK /\ FlowInv /\ BindInv /\ SnapStatus /\ DropInv /\ OnceInv
  BY DEF OnceCert, SoundInv
<1>2. [Next]_vars
  BY DEF DropNext
<1>3. SoundInv' /\ DropInv' /\ BindInv' /\ SnapStatus'
  BY <1>1, <1>2, DropSoundStep, DropStep, BindStep, StatusStep
<1>4. OnceInv'
  <2>1. CASE Next /\ UNCHANGED <<runVars, dropVars>>
    <3>1. phase # "done" /\ cfg' = cfg
      BY <2>1 DEF Next, Pop, Step, Commit, StartSnapshot, SnapStep, SnapNext
    <3>2. ~ Running /\ faults = {}
      BY <1>1, <3>1, RunFacts DEF DropInv
    <3>3. LeavesOf({l \in Bindings : Owning(l)})' = LeavesOf({l \in Bindings : Owning(l)})
      BY <3>1 DEF LeavesOf, Bindings, Owning
    <3> QED BY <1>1, <2>1, <3>2, <3>3 DEF OnceInv, runVars, dropVars, Running
  <2>2. CASE UNCHANGED <<vars, runVars, dropVars>>
    <3>1. /\ pc' = pc /\ full' = full /\ flags' = flags /\ faults' = faults /\ cfg' = cfg
          /\ before' = before /\ UNCHANGED vars
      BY <2>2 DEF vars, runVars, dropVars
    <3>2. \A l : Emptied(l) => Emptied(l)'
      BY <3>1, Fixed DEF Emptied, Here, Void, AtOp, Running, CurrentOp
    <3>3. LeavesOf({l \in Bindings : Owning(l)})' = LeavesOf({l \in Bindings : Owning(l)})
      BY <3>1 DEF LeavesOf, Bindings, Owning
    <3> QED BY <1>1, <3>1, <3>2, <3>3, Fixed, PlainFixed DEF OnceInv, Running
  <2>3. CASE (DropLaunch \/ DropExec \/ DropJump \/ Return) /\ UNCHANGED vars
    <3>1. full' \subseteq LeavesOf({l \in Bindings : Owning(l)})'
      <4>1. LeavesOf({l \in Bindings : Owning(l)})' = LeavesOf({l \in Bindings : Owning(l)})
        BY <2>3 DEF LeavesOf, Bindings, Owning, vars
      <4> QED BY <1>1, <2>3, <4>1, FullStep DEF OnceInv
    <3>2. \A l \in Flagged : FlagOf(NameOf(l)) # {}
      BY <1>1, <2>3 DEF DropLaunch, DropExec, DropJump, Return, Exec, AtOp, Jump, OnceInv
    <3>3. (\A l \in Flagged : FlagOf(NameOf(l)) # {})'
      BY <2>3, <3>2, Fixed
    <3>4. faults' \subseteq {"double", "leak", "overwrite"}
      BY <1>1, <2>3 DEF OnceInv, DropLaunch, DropExec, DropJump, Return, MoveOut, Store,
                        SetFlag, EndScopes, Release, dropVars
    <3>5. ASSUME Plain
          PROVE  /\ "leak" \notin faults'
                 /\ Running' => \A l \in Bindings : Owning(l) => Emptied(l)'
      <4>1. CASE DropLaunch
        BY <1>1, <2>3, <4>1, OnceLaunch DEF DropLaunch
      <4>2. CASE DropExec
        <5>1. Running /\ flags \in [DOMAIN cfg.decl -> {0, 1}]
          BY <1>1, <4>2 DEF DropExec, Exec, AtOp, DropInv
        <5>2. \A l \in Bindings : Owning(l) => Emptied(l)
          BY <1>1, <3>5, <5>1 DEF OnceInv
        <5>3. ASSUME NEW l \in Bindings, Owning(l) PROVE Emptied(l)'
          BY <1>1, <2>3, <3>5, <4>2, <5>1, <5>2, <5>3, EmptiedExec
        <5> QED BY <3>5, <4>2, <5>3, NoLeakExec
      <4>3. CASE DropJump
        BY <2>3, <3>5, <4>3, OnceJump
      <4>4. CASE Return
        <5>1. ~ Running'
          BY <4>4 DEF Return, Running
        <5> QED BY <3>5, <4>4, <5>1, OnceReturn
      <4> QED BY <2>3, <4>1, <4>2, <4>3, <4>4
    <3> QED BY <2>3, <3>1, <3>3, <3>4, <3>5, Fixed, PlainFixed DEF OnceInv
  <2> QED BY <2>1, <2>2, <2>3 DEF DropNext
<1> QED BY <1>3, <1>4 DEF OnceCert

THEOREM OnceCorrect == DropSpec => []OnceCert
<1>1. DropInit => OnceCert
  <2> SUFFICES ASSUME DropInit PROVE OnceCert
    OBVIOUS
  <2>1. SoundInv /\ BindInv
    BY SoundInitLemma, BindInit DEF DropInit, SoundInit
  <2>2. SnapStatus
    BY DEF DropInit, SoundInit, Init, SnapStatus
  <2>3. ~ Running /\ faults = {} /\ full = {} /\ flags \in [DOMAIN cfg.decl -> {0, 1}]
    BY DEF DropInit, SoundInit, Running
  <2> QED BY <2>1, <2>2, <2>3 DEF OnceCert, DropInv, OnceInv
<1> QED BY <1>1, OnceStep, PTL DEF DropSpec

(* Every value a binding holds is moved out or dropped exactly once, on    *)
(* every path, unless an assignment overwrites it.                         *)
THEOREM DropExactlyOnceCorrect == DropSpec => []DropExactlyOnce
<1>1. OnceCert => DropExactlyOnce
  <2> SUFFICES ASSUME OnceCert, Plain PROVE faults \subseteq {"overwrite"}
    BY DEF DropExactlyOnce
  <2>1. /\ faults \subseteq {"double", "leak", "overwrite"} /\ "leak" \notin faults
        /\ faults # {} => \A l \in Flagged : FlagOf(NameOf(l)) # {}
    BY DEF OnceCert, OnceInv
  <2>2. faults # {} => "double" \notin faults
    <3>1. faults # {} => FlagsKept
      BY <2>1, OwnFlag DEF Plain
    <3> QED BY <3>1 DEF OnceCert, DropInv, Plain
  <2> QED BY <2>1, <2>2
<1> QED BY <1>1, OnceCorrect, PTL
=============================================================================
