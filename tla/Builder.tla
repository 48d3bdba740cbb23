------------------------------- MODULE Builder -------------------------------
(***************************************************************************)
(* The lowering of a checked function body to a control-flow graph         *)
(* (borrowck/build.rs).  An operator below is the method of that name: it  *)
(* takes the Builder b and returns the Builder it leaves, with the operand *)
(* or place it computes where there is one.                                *)
(*                                                                         *)
(* What typeck recorded about a node is part of the node: its type is      *)
(* e.ty, the receiver adjustment of a call e.adjust, the match ergonomics  *)
(* of a pattern p.peel and p.over.  A local is its number, a place the     *)
(* sequence of a local and its projections ("*" for a dereference, the     *)
(* name or index of a field), a block its number from 1.  Constants carry  *)
(* no value, and types have their arguments substituted.                   *)
(***************************************************************************)
EXTENDS Naturals, SequencesExt

(* typeck's tables.  Structs[s] is [copy, drop, fields]; Enums[n] is       *)
(* [copy, drop, variants], a variant [disc, of].  A payload is a function  *)
(* from its projections to their types.                                    *)
CONSTANTS Structs, Enums

I32     == [t |-> "int"]
Bool    == [t |-> "bool"]
Unit    == [t |-> "tuple", of |-> <<>>]
RefTo(mut, ty) == [t |-> "ref", mut |-> mut, of |-> ty]
StructTy(n) == [t |-> "struct", name |-> n]
EnumTy(n)   == [t |-> "enum", name |-> n]

RECURSIVE IsCopy(_)
IsCopy(ty) ==
  CASE ty.t \in {"int", "bool"} -> TRUE
    [] ty.t = "tuple"  -> \A i \in DOMAIN ty.of : IsCopy(ty.of[i])
    [] ty.t = "ref"    -> ~ty.mut
    [] ty.t = "struct" -> Structs[ty.name].copy
    [] ty.t = "enum"   -> Enums[ty.name].copy

(* Operands, rvalues, statements and terminators (borrowck/cfg.rs). *)
Const         == [k |-> "const", pl |-> <<>>, node |-> 0]
Move(p, node) == [k |-> "move", pl |-> p, node |-> node]
Copy(p, node) == [k |-> "copy", pl |-> p, node |-> node]

Rvalue(kind, ops) == [k |-> kind, ops |-> ops, pl |-> <<>>, mut |-> FALSE, region |-> 0]
Use(op)           == Rvalue("use", <<op>>)
BorrowOf(mut, p, region) ==
  [k |-> "borrow", ops |-> <<>>, pl |-> p, mut |-> mut, region |-> region]
Discriminant(p)   == [Rvalue("disc", <<>>) EXCEPT !.pl = p]

Stmt(kind, local) == [k |-> kind, pl |-> <<local>>, rv |-> Rvalue("none", <<>>)]
Assign(p, rv)     == [k |-> "assign", pl |-> p, rv |-> rv]

Term(kind, op, to) == [k |-> kind, op |-> op, to |-> to]
Unreachable        == Term("unreachable", Const, <<>>)
ReturnTerm         == Term("return", Const, <<>>)
Goto(blk)          == Term("goto", Const, <<blk>>)
If(op, then, else) == Term("if", op, <<then, else>>)
SwitchInt(op, target, otherwise) == Term("switch", op, <<target, otherwise>>)

-----------------------------------------------------------------------------
(* The Builder's own methods. *)

NewBlock(b) ==
  [b EXCEPT !.blocks = Append(@, [stmts |-> <<>>, term |-> Unreachable])]
NewBlocks(b, n) == FoldLeft(LAMBDA acc, i : NewBlock(acc), b, [i \in 1..n |-> i])
LastBlock(b) == Len(b.blocks)

PushStmt(b, s)      == [b EXCEPT !.blocks[b.cur].stmts = Append(@, s)]
SetTerminator(b, t) == [b EXCEPT !.blocks[b.cur].term = t]
GoOn(b, blk)        == [b EXCEPT !.cur = blk]

AllocLocal(b, name, ty) == [b EXCEPT !.locals = Append(@, [name |-> name, ty |-> ty])]
LastLocal(b) == Len(b.locals)

(* Every local but a parameter and the return slot is made live at once. *)
LiveLocal(b, name, ty) ==
  LET a == AllocLocal(b, name, ty)
  IN  PushStmt(a, Stmt("live", LastLocal(a)))
AllocTemp(b, ty) == LiveLocal(b, "", ty)

FreshRegion(b) == [b EXCEPT !.regions = @ + 1]

PushScope(b) == [b EXCEPT !.scopes = Append(@, <<>>)]

(* The names of the innermost scope die in the reverse of their order, in  *)
(* the block the builder has come to.                                      *)
PopScope(b) ==
  FoldLeft(LAMBDA acc, n : PushStmt(acc, Stmt("dead", n[2])),
           [b EXCEPT !.scopes = Front(@)], Reverse(Last(b.scopes)))

BindName(b, name, local) ==
  [b EXCEPT !.scopes[Len(b.scopes)] = Append(@, <<name, local>>)]

(* The innermost and latest binding of the name. *)
Lookup(b, name) ==
  LET bound == FlattenSeq(b.scopes)
  IN  bound[SelectLastInSeq(bound, LAMBDA n : n[1] = name)][2]

(* Mutant: a label is ignored. *)
FindLoopInnermost(b, label) == Last(b.loops)

(* Without a label the innermost loop, with one the innermost so labelled. *)
FindLoop(b, label) ==
  b.loops[SelectLastInSeq(b.loops, LAMBDA f : label = "" \/ f.label = label)]

MoveOrCopy(p, ty, node) == IF IsCopy(ty) THEN Copy(p, node) ELSE Move(p, node)

-----------------------------------------------------------------------------
(* The methods call each other all round: every such call goes by Lower,   *)
(* whose table is at the end.                                              *)
(* TLC evaluates an argument when it is looked at: to look at b before it   *)
(* is passed on keeps the steps of a long function from nesting.           *)
Begun(b) == b.cur > 0

RECURSIVE Lower(_, _, _, _), LowerPatternTest(_, _, _, _, _, _), CollectBindings(_, _, _)
NoTarget == <<>>
ToOperand(b, e)          == Lower("operand", b, e, NoTarget)
ToPlace(b, e)            == Lower("place", b, e, NoTarget)
ToRvalue(b, e)           == Lower("rvalue", b, e, NoTarget)
Into(b, e, dest)         == Lower("into", b, e, dest)
InBlock(b, blk, target)  == Lower("block", b, blk, target)

(* A value nobody asked for is still evaluated, as an operand. *)
LowerTail(b, e, target) ==
  IF target # NoTarget THEN Into(b, e, target)
  ELSE ToOperand(b, e).b

RECURSIVE OperandsFrom(_, _, _)
OperandsFrom(b, es, ops) ==
  IF Begun(b) /\ es = <<>> THEN [b |-> b, ops |-> ops]
  ELSE LET r == ToOperand(b, Head(es))
       IN  OperandsFrom(r.b, Tail(es), Append(ops, r.op))
LowerOperands(b, es) == OperandsFrom(b, es, <<>>)

(* The value of e in a fresh temporary: the place NextLocal(b). *)
NextLocal(b) == <<LastLocal(b) + 1>>
ThroughTemp(b, e) == Into(AllocTemp(b, e.ty), e, NextLocal(b))

(* A block is [stmts, tail], its tail an expression or None. *)
None == [k |-> "none"]

RECURSIVE LowerStmts(_, _)
LowerStmts(b, stmts) ==
  IF Begun(b) /\ stmts = <<>> THEN b ELSE LowerStmts(Lower("stmt", b, Head(stmts), NoTarget), Tail(stmts))
LowerBlock(b, blk, target) ==
  LET body == LowerStmts(PushScope(b), blk.stmts)
  IN  PopScope(IF blk.tail = None THEN body ELSE LowerTail(body, blk.tail, target))

-----------------------------------------------------------------------------
(* Operands. *)

(* A place that is moved is moved here, into a temporary, and not when the *)
(* statement that takes the operand runs; a copy, and a unique reference,  *)
(* which is reborrowed, are read by that statement.                        *)
MaterializeIfMove(b, p, ty, node) ==
  IF IsCopy(ty) \/ (ty.t = "ref" /\ ty.mut) THEN [b |-> b, op |-> Copy(p, node)]
  ELSE LET a == AllocTemp(b, ty)
           t == <<LastLocal(a)>>
       IN  [b |-> PushStmt(a, Assign(t, Use(Move(p, node)))), op |-> Move(t, 0)]

IsPlaceExpr(e) == e.k \in {"var", "field", "deref"}

LowerExprOperand(b, e) ==
  CASE e.k = "const" -> [b |-> b, op |-> Const]
    [] IsPlaceExpr(e) ->
         LET r == ToPlace(b, e) IN MaterializeIfMove(r.b, r.pl, e.ty, e.id)
    [] OTHER ->
         LET a == ThroughTemp(b, e)
         IN  [b |-> a, op |-> MoveOrCopy(NextLocal(b), e.ty, 0)]

Project(r, proj) == [r EXCEPT !.pl = Append(@, proj)]

(* A constant used as a place (`CONST.method()`) gets a temporary. *)
MaterializeConstPlace(b, e) ==
  LET a == AllocTemp(b, e.ty)
      t == <<LastLocal(a)>>
  IN  [b |-> PushStmt(a, Assign(t, Use(Const))), pl |-> t]

(* The reference of a dereference is not moved: the place goes through it. *)
LowerExprPlace(b, e) ==
  CASE e.k = "const" -> MaterializeConstPlace(b, e)
    [] e.k = "var"   -> [b |-> b, pl |-> <<Lookup(b, e.name)>>]
    [] e.k = "field" -> Project(ToPlace(b, e.base), e.field)
    [] e.k = "deref" /\ IsPlaceExpr(e.base) -> Project(ToPlace(b, e.base), "*")
    [] e.k = "deref" -> LET r == ToOperand(b, e.base)
                        IN  [b |-> r.b, pl |-> Append(r.op.pl, "*")]
    [] OTHER -> [b |-> ThroughTemp(b, e), pl |-> NextLocal(b)]

-----------------------------------------------------------------------------
(* Rvalues. *)

WithOps(r, kind) == [b |-> r.b, rv |-> Rvalue(kind, r.ops)]

(* An implicit borrow, through a temporary that holds the reference. *)
SynthBorrow(b, e, mut) ==
  LET r == ToPlace(b, e)
      a == AllocTemp(FreshRegion(r.b), RefTo(mut, e.ty))
      t == <<LastLocal(a)>>
  IN  [b |-> PushStmt(a, Assign(t, BorrowOf(mut, r.pl, r.b.regions))),
       op |-> Move(t, 0)]

(* A receiver that is a reference already is copied, whatever its type. *)
LowerRecvReborrow(b, e) ==
  LET r == ToPlace(b, e) IN [b |-> r.b, op |-> Copy(r.pl, e.id)]

(* A call through a local (a closure parameter) takes the local first: it *)
(* is moved if typeck adjusted it so, and read otherwise.                  *)
LowerCall(b, e) ==
  LET recv == IF e.bare = "" THEN <<>>
              ELSE LET p == <<Lookup(b, e.bare)>>
                   IN  <<IF e.adjust = "Move" THEN Move(p, e.id) ELSE Copy(p, e.id)>>
      r    == LowerOperands(b, e.args)
  IN  [b |-> r.b, rv |-> Rvalue("call", recv \o r.ops)]

LowerMethodCall(b, e) ==
  LET recv == CASE e.adjust = "BorrowImm" -> SynthBorrow(b, e.recv, FALSE)
                [] e.adjust = "BorrowMut" -> SynthBorrow(b, e.recv, TRUE)
                [] e.adjust = "ByRef"     -> LowerRecvReborrow(b, e.recv)
                [] e.adjust = "Move"      -> ToOperand(b, e.recv)
      r    == LowerOperands(recv.b, e.args)
  IN  [b |-> r.b, rv |-> Rvalue("call", <<recv.op>> \o r.ops)]

(* The code after a jump starts in a block without predecessors. *)
Jump(b, term) ==
  LET a == NewBlock(SetTerminator(b, term)) IN GoOn(a, LastBlock(a))

LowerBreak(b, label)    == Jump(b, Goto(FindLoop(b, label).break))
LowerContinue(b, label) == Jump(b, Goto(FindLoop(b, label).continue))

(* The value is only read: nothing is assigned to the return slot. *)
LowerReturn(b, value) ==
  Jump(IF value = None THEN b ELSE ToOperand(b, value).b, ReturnTerm)

LowerWhile(b, e) ==
  LET cond  == LastBlock(b) + 1
      body  == LastBlock(b) + 2
      after == LastBlock(b) + 3
      test  == ToOperand(
                 GoOn(SetTerminator(NewBlocks(b, 3), Goto(cond)), cond), e.cond)
      loop  == [SetTerminator(test.b, If(test.op, body, after)) EXCEPT
                  !.loops = Append(@, [label |-> e.label, continue |-> cond,
                                       break |-> after])]
      round == SetTerminator(InBlock(GoOn(loop, body), e.body, NoTarget), Goto(cond))
  IN  GoOn([round EXCEPT !.loops = Front(@)], after)

(* The binding of a for loop is made live and never assigned; a pattern    *)
(* that takes the item apart is not lowered.                               *)
ForBindings(b, pat, item) ==
  IF pat.k = "wild" THEN b
  ELSE LET a == LiveLocal(b, pat.name, IF pat.by_ref THEN RefTo(pat.mut, item) ELSE item)
       IN  BindName(a, pat.name, LastLocal(a))

(* The iterator is not called: a branch on a constant keeps both ways open. *)
LowerFor(b, e) ==
  LET iter  == ThroughTemp(b, e.iter)
      cond  == LastBlock(iter) + 1
      body  == LastBlock(iter) + 2
      after == LastBlock(iter) + 3
      test  == GoOn(SetTerminator(NewBlocks(iter, 3), Goto(cond)), cond)
      loop  == [SetTerminator(test, If(Const, body, after)) EXCEPT
                  !.loops = Append(@, [label |-> e.label, continue |-> cond,
                                       break |-> after])]
      bound == ForBindings(PushScope(GoOn(loop, body)), e.pat, e.item)
      round == PopScope(SetTerminator(InBlock(bound, e.body, NoTarget), Goto(cond)))
  IN  GoOn([round EXCEPT !.loops = Front(@)], after)

(* Expressions whose rvalue is their value in a temporary. *)
Branching == {"if", "block", "match", "iflet"}

(* Expressions without a value of their own: they give the unit constant. *)
LowerUnit(b, e) ==
  CASE e.k = "while"    -> LowerWhile(b, e)
    [] e.k = "for"      -> LowerFor(b, e)
    [] e.k = "break"    -> LowerBreak(b, e.label)
    [] e.k = "continue" -> LowerContinue(b, e.label)
    [] e.k = "return"   -> LowerReturn(b, e.value)
    [] e.k = "index"    -> ToOperand(SynthBorrow(b, e.base, FALSE).b, e.index).b
    [] e.k = "panic"    -> Jump(LowerOperands(b, e.args).b, Unreachable)

LowerExprRvalue(b, e) ==
  CASE e.k = "const" -> [b |-> b, rv |-> Use(Const)]
    [] IsPlaceExpr(e) -> LET r == ToOperand(b, e) IN [b |-> r.b, rv |-> Use(r.op)]
    [] e.k = "borrow" ->
         LET r == ToPlace(b, e.base)
         IN  [b |-> FreshRegion(r.b), rv |-> BorrowOf(e.mut, r.pl, r.b.regions)]
    [] e.k \in {"cast", "tuple", "builtin", "struct", "variant"} ->
         WithOps(LowerOperands(b, e.args), e.k)
    [] e.k = "call"   -> LowerCall(b, e)
    [] e.k = "method" -> LowerMethodCall(b, e)
    [] e.k \in Branching ->
         [b |-> ThroughTemp(b, e), rv |-> Use(MoveOrCopy(NextLocal(b), e.ty, 0))]
    [] e.k = "try"    -> ToRvalue(b, e.inner)
    [] OTHER          -> [b |-> LowerUnit(b, e), rv |-> Use(Const)]

-----------------------------------------------------------------------------
(* Statements, and expressions that are assigned to a place. *)

(* target is Some(dest) or NoTarget in both. *)
LowerIfInto(b, e, target) ==
  LET cond  == ToOperand(b, e.cond)
      then  == LastBlock(cond.b) + 1
      else  == LastBlock(cond.b) + 2
      merge == LastBlock(cond.b) + 3
      split == SetTerminator(NewBlocks(cond.b, 3), If(cond.op, then, else))
      one   == SetTerminator(InBlock(GoOn(split, then), e.then, target), Goto(merge))
      two   == SetTerminator(InBlock(GoOn(one, else), e.else, target), Goto(merge))
  IN  GoOn(two, merge)

MaterializeBinding(b, n) ==
  LET a == LiveLocal(b, n.name, IF n.by_ref THEN RefTo(n.mut, n.ty) ELSE n.ty)
      l == LastLocal(a)
      s == IF n.by_ref
           THEN PushStmt(FreshRegion(a), Assign(<<l>>, BorrowOf(n.mut, n.pl, a.regions)))
           ELSE PushStmt(a, Assign(<<l>>, Use(MoveOrCopy(n.pl, n.ty, 0))))
  IN  BindName(s, n.name, l)

(* Mutant: the bindings are taken in the order of a stack. *)
MaterializeBindingsLastFirst(b, bindings) ==
  FoldLeft(MaterializeBinding, b, Reverse(bindings))

MaterializeBindings(b, bindings) == FoldLeft(MaterializeBinding, b, bindings)

(* The bindings are made before the guard, and a guard that fails goes on  *)
(* to the next arm, after the last one to a block that is unreachable.     *)
LowerArm(b, arm, scrut, ty, target, merge) ==
  LET body  == LastBlock(b) + 1
      next  == LastBlock(b) + 2
      blks  == NewBlocks(b, 2)
      test  == LowerPatternTest(blks, arm.pat, scrut, ty, body, next)
      bound == MaterializeBindings(PushScope(GoOn(test, body)),
                                   CollectBindings(arm.pat, scrut, ty))
      guard == IF arm.guard = None THEN bound
               ELSE LET g == ToOperand(bound, arm.guard)
                        a == NewBlock(g.b)
                    IN  GoOn(SetTerminator(a, If(g.op, LastBlock(a), next)), LastBlock(a))
      value == LowerTail(guard, arm.body, target)
  IN  GoOn(PopScope(SetTerminator(value, Goto(merge))), next)

RECURSIVE LowerArms(_, _, _, _, _, _)
LowerArms(b, arms, scrut, ty, target, merge) ==
  IF Begun(b) /\ arms = <<>> THEN b
  ELSE LowerArms(LowerArm(b, Head(arms), scrut, ty, target, merge), Tail(arms),
                 scrut, ty, target, merge)

LowerMatchInto(b, e, target) ==
  LET scrut == ThroughTemp(b, e.scrut)
      merge == LastBlock(scrut) + 1
  IN  GoOn(LowerArms(NewBlock(scrut), e.arms, NextLocal(b), e.scrut.ty, target, merge), merge)

LowerIfLetInto(b, e, target) ==
  LET scrut == ThroughTemp(b, e.scrut)
      pl    == NextLocal(b)
      merge == LastBlock(scrut) + 1
      then  == LastBlock(scrut) + 2
      else  == LastBlock(scrut) + 3
      test  == LowerPatternTest(NewBlocks(scrut, 3), e.pat, pl, e.scrut.ty, then, else)
      bound == MaterializeBindings(PushScope(GoOn(test, then)),
                                   CollectBindings(e.pat, pl, e.scrut.ty))
      one   == PopScope(SetTerminator(InBlock(bound, e.then, target), Goto(merge)))
      two   == SetTerminator(InBlock(GoOn(one, else), e.else, target), Goto(merge))
  IN  GoOn(two, merge)

LowerExprInto(b, e, dest) ==
  CASE e.k = "if"    -> LowerIfInto(b, e, dest)
    [] e.k = "match" -> LowerMatchInto(b, e, dest)
    [] e.k = "iflet" -> LowerIfLetInto(b, e, dest)
    [] e.k = "block" -> InBlock(b, e.body, dest)
    [] e.k \in {"while", "for"} -> PushStmt(LowerUnit(b, e), Assign(dest, Use(Const)))
    [] e.k \in {"break", "continue", "return"} -> LowerUnit(b, e)
    [] e.k = "try" ->
         LET r == ToRvalue(ToOperand(b, e.inner).b, e.inner)
         IN  PushStmt(r.b, Assign(dest, r.rv))
    [] OTHER -> LET r == ToRvalue(b, e) IN PushStmt(r.b, Assign(dest, r.rv))

(* A name is bound once its value is there, so the value cannot see it.    *)
LowerLetSimple(b, s) ==
  LET a == LiveLocal(b, s.pat.name, s.ty)
      l == LastLocal(a)
  IN  BindName(IF s.value = None THEN PushStmt(a, Stmt("uninit", l))
               ELSE Into(a, s.value, <<l>>), s.pat.name, l)

LowerLetPattern(b, s) ==
  LET scrut == ThroughTemp(b, s.value)
      pl    == NextLocal(b)
      then  == LastBlock(scrut) + 1
      else  == LastBlock(scrut) + 2
      test  == LowerPatternTest(NewBlocks(scrut, 2), s.pat, pl, s.ty, then, else)
      fail  == SetTerminator(InBlock(GoOn(test, else), s.else, NoTarget), Unreachable)
  IN  MaterializeBindings(IF s.else = None THEN scrut ELSE GoOn(fail, then),
                          CollectBindings(s.pat, pl, s.ty))

(* The else block of `let x = e else { .. }` is not looked at. *)
IsSimple(s) == s.pat.k = "bind" /\ ~s.pat.by_ref

LowerStmt(b, s) ==
  CASE s.k = "let" /\ IsSimple(s) -> LowerLetSimple(b, s)
    [] s.k = "let"    -> LowerLetPattern(b, s)
    [] s.k = "assign" -> LET r == ToPlace(b, s.lhs) IN Into(r.b, s.rhs, r.pl)
    [] s.k = "expr"   -> ToOperand(b, s.e).b

-----------------------------------------------------------------------------
(* Patterns.  A pattern with parts is [k |-> "parts", variant, subs]: subs *)
(* pairs the projection of each part with its pattern, and variant is ""   *)
(* for a tuple or a plain struct.                                          *)

(* The layers of references typeck found to be passed through implicitly.  *)
RECURSIVE Peel(_, _, _)
Peel(p, ty, n) == IF n = 0 \/ ty.t # "ref" THEN <<p, ty>>
                  ELSE Peel(Append(p, "*"), ty.of, n - 1)

(* The types of the parts of a value of type ty matched by pat. *)
PayloadOf(pat, ty) ==
  CASE ty.t = "tuple"  -> ty.of
    [] ty.t = "struct" -> Structs[ty.name].fields
    [] ty.t = "enum"   -> Enums[ty.name].variants[pat.variant].of

(* The parts are tested one after the other, each on success of the one    *)
(* before it, the last one leading to onMatch.                             *)
TestParts(b, subs, p, tys, onMatch, onFail) ==
  IF subs = <<>> THEN SetTerminator(b, Goto(onMatch))
  ELSE FoldLeft(LAMBDA acc, i :
                  LET a    == IF i < Len(subs) THEN NewBlock(acc) ELSE acc
                      next == IF i < Len(subs) THEN LastBlock(a) ELSE onMatch
                  IN  GoOn(LowerPatternTest(a, subs[i][2], Append(p, subs[i][1]),
                                            tys[subs[i][1]], next, onFail), next),
                b, [i \in 1..Len(subs) |-> i])

(* The discriminant is read into a temporary, and the payload is tested in *)
(* a block that only a match reaches.                                      *)
TestVariantPayload(b, pat, p, ty, onMatch, onFail) ==
  LET a    == NewBlock(AllocTemp(b, I32))
      disc == <<LastLocal(a)>>
      test == SetTerminator(PushStmt(a, Assign(disc, Discriminant(p))),
                            SwitchInt(Move(disc, 0), LastBlock(a), onFail))
  IN  TestParts(GoOn(test, LastBlock(a)), pat.subs, p, PayloadOf(pat, ty), onMatch, onFail)

(* Each alternative goes on to the next one when it fails. *)
TestAlternatives(b, alts, p, ty, onMatch, onFail) ==
  FoldLeft(LAMBDA acc, i :
             LET a    == IF i < Len(alts) THEN NewBlock(acc) ELSE acc
                 next == IF i < Len(alts) THEN LastBlock(a) ELSE onFail
             IN  GoOn(LowerPatternTest(a, alts[i], p, ty, onMatch, next), next),
           b, [i \in 1..Len(alts) |-> i])

LowerPatternTest(b, pat, scrut, scrutTy, onMatch, onFail) ==
  LET peeled == Peel(scrut, scrutTy, pat.peel)
      p      == peeled[1]
      ty     == peeled[2]
  IN CASE pat.k \in {"wild", "bind"} -> SetTerminator(b, Goto(onMatch))
       [] pat.k = "at"  -> LowerPatternTest(b, pat.inner, p, ty, onMatch, onFail)
       [] pat.k \in {"int", "range"} ->
            SetTerminator(b, SwitchInt(MoveOrCopy(p, ty, 0), onMatch, onFail))
       [] pat.k = "bool" ->
            SetTerminator(b, IF pat.value THEN If(MoveOrCopy(p, ty, 0), onMatch, onFail)
                             ELSE If(MoveOrCopy(p, ty, 0), onFail, onMatch))
       [] pat.k = "ref" -> LowerPatternTest(b, pat.inner, Append(p, "*"), ty.of,
                                            onMatch, onFail)
       [] pat.k = "parts" /\ ty.t = "enum" ->
            TestVariantPayload(b, pat, p, ty, onMatch, onFail)
       [] pat.k = "parts" ->
            TestParts(b, pat.subs, p, PayloadOf(pat, ty), onMatch, onFail)
       [] pat.k = "or"  -> TestAlternatives(b, pat.alts, p, ty, onMatch, onFail)

Binding(name, p, ty, by_ref, mut) ==
  [name |-> name, pl |-> p, ty |-> ty, by_ref |-> by_ref, mut |-> mut]

(* The bindings of a pattern, in the order of their names; those of an     *)
(* or-pattern are taken from its first alternative.                        *)
CollectBindings(pat, scrut, scrutTy) ==
  LET peeled == Peel(scrut, scrutTy, pat.peel)
      p      == peeled[1]
      ty     == peeled[2]
  IN CASE pat.k = "bind" ->
            <<IF pat.over = "none" THEN Binding(pat.name, p, ty, pat.by_ref, pat.mut)
              ELSE Binding(pat.name, p, ty, TRUE, pat.over = "mut")>>
       [] pat.k = "at"  -> <<Binding(pat.name, p, ty, FALSE, FALSE)>>
                             \o CollectBindings(pat.inner, p, ty)
       [] pat.k = "ref" -> CollectBindings(pat.inner, Append(p, "*"), ty.of)
       [] pat.k = "parts" ->
            FlattenSeq([i \in 1..Len(pat.subs) |->
                          CollectBindings(pat.subs[i][2], Append(p, pat.subs[i][1]),
                                          PayloadOf(pat, ty)[pat.subs[i][1]])])
       [] pat.k = "or"  -> CollectBindings(pat.alts[1], p, ty)
       [] OTHER         -> <<>>

-----------------------------------------------------------------------------
Lower(how, b, e, dest) ==
  CASE Begun(b) /\ how = "operand" -> LowerExprOperand(b, e)
    [] how = "place"   -> LowerExprPlace(b, e)
    [] how = "rvalue"  -> LowerExprRvalue(b, e)
    [] how = "into"    -> LowerExprInto(b, e, dest)
    [] how = "block"   -> LowerBlock(b, e, dest)
    [] how = "stmt"    -> LowerStmt(b, e)

-----------------------------------------------------------------------------
(* A function is [params, ret, body]: params a sequence of [name, ty], ret *)
(* its return type.  A value is returned through the first local, which a  *)
(* function that returns the unit does not have.                           *)

NoBuilder == [blocks |-> <<>>, locals |-> <<>>, cur |-> 1, scopes |-> <<>>,
              loops |-> <<>>, regions |-> 1]

Build(func) ==
  LET start == NewBlock(NoBuilder)
      ret   == IF func.ret = Unit THEN start ELSE AllocLocal(start, "", func.ret)
      bound == FoldLeft(LAMBDA acc, p :
                          LET a == AllocLocal(acc, p.name, p.ty)
                          IN  BindName(a, p.name, LastLocal(a)),
                        PushScope(ret), func.params)
      body  == InBlock(bound, func.body, IF func.ret = Unit THEN NoTarget ELSE <<1>>)
  IN  PopScope(SetTerminator(body, ReturnTerm))
=============================================================================
