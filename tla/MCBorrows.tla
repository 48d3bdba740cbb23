----------------------------- MODULE MCBorrows -----------------------------
(***************************************************************************)
(* Functions that borrow, lowered to graphs as borrowck/build.rs lowers    *)
(* them, constants and statements without operands left out.               *)
(***************************************************************************)
EXTENDS BorrowSoundness

(* let d = &x, let d = &mut x; d = value of p; let d = call(..) *)
Shared(d, id, p) == [dest |-> <<d>>, reads |-> {}, loans |-> {[id |-> id, mut |-> FALSE, pl |-> p]}]
Mut(d, id, p) == [dest |-> <<d>>, reads |-> {}, loans |-> {[id |-> id, mut |-> TRUE, pl |-> p]}]
Assign(p, ops) == [dest |-> p, reads |-> ops, loans |-> {}]
Set(p) == Assign(p, {})
Cp(p) == [k |-> "copy", pl |-> p]
Mv(p) == [k |-> "move", pl |-> p]
Disc(p) == [k |-> "disc", pl |-> p]
Read(r) == Assign(<<"v">>, {Cp(<<r, "*">>)})       \* let v = *r

Locals == {"x", "y", "a", "b", "r", "s", "t", "v", "w", "c"}

Func(stmts, succ) ==
  [n |-> Len(stmts), entry |-> 1, stmts |-> stmts, succ |-> succ,
   tests |-> [b \in 1..Len(stmts) |-> IF Len(succ[b]) = 2 THEN {<<"c">>} ELSE {}],
   locals |-> Locals, refs |-> {"a", "b", "r", "s", "t"}]

Straight(stmts) == Func(<<stmts>>, <<<<>>>>)
If(pre, then, else, post) == Func(<<pre, then, else, post>>, <<<<2, 3>>, <<4>>, <<4>>, <<>>>>)
While(pre, cond, body, post) == Func(<<pre, cond, body, post>>, <<<<2>>, <<3, 4>>, <<2>>, <<>>>>)

(* let r = &mut x; let v = *r; x = 1; *)
LastUse == Straight(<<Mut("r", 1, <<"x">>), Read("r"), Set(<<"x">>)>>)

(* let r = &x; x.f = 1; let v = *r; *)
WriteBorrowed == Straight(<<Shared("r", 1, <<"x">>), Set(<<"x", "f">>), Read("r")>>)

(* let r = &mut x.f; x.g = 1; let v = *r; *)
OtherField == Straight(<<Mut("r", 1, <<"x", "f">>), Set(<<"x", "g">>), Read("r")>>)

(* let r = &x.f; let w = x; let v = *r; *)
ParentMove == Straight(<<Shared("r", 1, <<"x", "f">>), Assign(<<"w">>, {Mv(<<"x">>)}), Read("r")>>)

(* let s = &x; let v = *s; take(&mut x, &mut x) *)
TwoMut == Straight(<<Shared("s", 1, <<"x">>), Read("s"), Mut("a", 2, <<"x">>),
                     Mut("b", 3, <<"x">>), Assign(<<"v">>, {Mv(<<"a">>), Mv(<<"b">>)})>>)

(* let r = field_of(&x); let w = x; let v = *r; *)
ThroughCall == Straight(<<Shared("t", 1, <<"x">>), Assign(<<"r">>, {Cp(<<"t">>)}),
                          Assign(<<"w">>, {Mv(<<"x">>)}), Read("r")>>)

(* let r = field_of(&mut x); let v = x; let w = *r; *)
ThroughMutCall == Straight(<<Mut("t", 1, <<"x">>), Assign(<<"r">>, {Mv(<<"t">>)}),
                             Assign(<<"w">>, {Cp(<<"x">>)}), Read("r")>>)

(* let v = len_of(&x); let w = x; *)
ScalarCall == Straight(<<Shared("t", 1, <<"x">>), Assign(<<"v">>, {Cp(<<"t">>)}),
                         Assign(<<"w">>, {Mv(<<"x">>)})>>)

(* let r = &mut x; match x { .. }; let v = *r; *)
MatchBorrowed == Straight(<<Mut("r", 1, <<"x">>), Assign(<<"w">>, {Disc(<<"x">>)}), Read("r")>>)

(* if c { r = &mut x } else { r = &mut y }  x = 1; let v = *r; *)
EitherBorrow == If(<<>>, <<Mut("r", 1, <<"x">>)>>, <<Mut("r", 2, <<"y">>)>>,
                   <<Set(<<"x">>), Read("r")>>)

(* if c { r = &mut x } else { r = &mut y }  let v = *r; x = 1; *)
EitherDone == If(<<>>, <<Mut("r", 1, <<"x">>)>>, <<Mut("r", 2, <<"y">>)>>,
                 <<Read("r"), Set(<<"x">>)>>)

(* let r = &x; if c { let v = *r; x = 1 } else { let w = x }   (x is Copy) *)
UseInArm == If(<<Shared("r", 1, <<"x">>)>>, <<Read("r"), Set(<<"x">>)>>,
               <<Assign(<<"w">>, {Cp(<<"x">>)})>>, <<>>)

(* let r = &y; while c { let v = *r; r = &x; x = 1; } *)
AroundLoop == While(<<Shared("r", 1, <<"y">>)>>, <<>>,
                    <<Read("r"), Shared("r", 2, <<"x">>), Set(<<"x">>)>>, <<>>)

(* let r = &y; while c { x = 1; let v = *r; r = &x; } *)
NextIteration == While(<<Shared("r", 1, <<"y">>)>>, <<>>,
                       <<Set(<<"x">>), Read("r"), Shared("r", 2, <<"x">>)>>, <<>>)

(* while c { let r = &mut x; let v = *r; x = 1; } *)
FreshEachTime == While(<<>>, <<>>, <<Mut("r", 1, <<"x">>), Read("r"), Set(<<"x">>)>>, <<>>)

(* let r = &x; while c { r = tail(r); }  let v = *r; x = 1; *)
Advance == While(<<Shared("r", 1, <<"x">>)>>, <<>>, <<Assign(<<"r">>, {Cp(<<"r">>)})>>,
                 <<Read("r"), Set(<<"x">>)>>)

(* let r = &x; while c { let v = *r; }  x = 1; *)
UsedInLoop == While(<<Shared("r", 1, <<"x">>)>>, <<>>, <<Read("r")>>, <<Set(<<"x">>)>>)

(* let r = &x; while c { let v = *r; x = 1; } *)
WrittenInLoop == While(<<Shared("r", 1, <<"x">>)>>, <<>>, <<Read("r"), Set(<<"x">>)>>, <<>>)

(* let r = &x; let a = r; if c { } else { }  let v = *r; x = 1; let v = *a; *)
CopyAcross == If(<<Shared("r", 1, <<"x">>), Assign(<<"a">>, {Cp(<<"r">>)})>>, <<>>, <<>>,
                 <<Read("r"), Set(<<"x">>), Read("a")>>)

(* let r = &mut x; let s = &mut *r; x = 1; let v = *s; *)
Reborrow == Straight(<<Mut("r", 1, <<"x">>), Mut("s", 2, <<"r", "*">>), Set(<<"x">>), Read("s")>>)

(* let r = &mut x; x = 1; *r = 2; *)
WriteThrough == Straight(<<Mut("r", 1, <<"x">>), Set(<<"x">>), Set(<<"r", "*">>)>>)

(* let r = &mut c; if c { } else { }  let v = *r; *)
BorrowedTest == If(<<Mut("r", 1, <<"c">>)>>, <<>>, <<>>, <<Read("r")>>)

(* let r = &y; while c {
     if c { a = r; b = &y } else { b = &x; a = &y }  let v = *a; r = b; } *)
Alternate == Func(<<<<Shared("r", 4, <<"y">>)>>, <<>>, <<>>, <<>>,
    <<Assign(<<"a">>, {Cp(<<"r">>)}), Shared("b", 1, <<"y">>)>>,
    <<Shared("b", 2, <<"x">>), Shared("a", 3, <<"y">>)>>,
    <<Read("a"), Assign(<<"r">>, {Cp(<<"b">>)})>>>>,
  <<<<2>>, <<3, 4>>, <<5, 6>>, <<>>, <<7>>, <<7>>, <<2>>>>)

BorrowPrograms ==
  {LastUse, WriteBorrowed, OtherField, ParentMove, TwoMut, ThroughCall, ThroughMutCall,
   ScalarCall, MatchBorrowed, EitherBorrow, EitherDone, UseInArm, AroundLoop, NextIteration,
   FreshEachTime, Advance, UsedInLoop, WrittenInLoop, CopyAcross, Reborrow, WriteThrough,
   BorrowedTest, Alternate}
=============================================================================
