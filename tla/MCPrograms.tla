----------------------------- MODULE MCPrograms -----------------------------
(***************************************************************************)
(* Small functions lowered to graphs as borrowck/build.rs lowers them.     *)
(* The comment above each gives its source; consume takes its argument by  *)
(* value, N and P are owned values and P has the two fields f and g.       *)
(***************************************************************************)
EXTENDS MoveSoundness, Naturals, Sequences, TLC

(* Effects, and the statements they come from. *)
Eff(k, p, n) == [k |-> k, pl |-> p, node |-> n]
Mv(p, n) == Eff("move", p, n)
Cp(p)    == Eff("copy", p, 0)
In(p)    == Eff("init", p, 0)
Dead(l)  == Eff("dead", <<l>>, 0)
Uninit(l) == Eff("uninit", <<l>>, 0)

New(l)   == <<In(<<l>>)>>                                  \* let l = N::new()
Ref(p)   == <<Eff("borrow", p, 0), In(<<"r">>)>>           \* let r = &p
Tag(p)   == <<Eff("disc", p, 0), In(<<"d">>)>>             \* match p { .. }
Test(l)  == <<Cp(<<l>>)>>                                  \* the operand of an If
Call(p, n) == <<Mv(p, n), In(<<"t">>), Mv(<<"t">>, 0), In(<<"u">>)>>  \* consume(p)

Local(name, ty) == [name |-> name, ty |-> ty]
Temps == "t" :> Local("", "own") @@ "u" :> Local("", "copy")
           @@ "r" :> Local("r", "ref") @@ "d" :> Local("", "copy")
Conds == "c" :> Local("c", "copy") @@ "e" :> Local("e", "copy")
X  == "x" :> Local("x", "own") @@ Temps @@ Conds
XD == "x" :> Local("x", "drop") @@ Temps @@ Conds

Func(decl, split, ops, succ) ==
  LET leaves == {<<l>> : l \in DOMAIN decl \ split}
                  \cup {<<l, f>> : l \in split, f \in {"f", "g"}}
  IN [n |-> Len(ops), entry |-> 1, ops |-> ops, succ |-> succ, decl |-> decl,
      leaves |-> leaves, places |-> leaves \cup {<<l>> : l \in DOMAIN decl}]

Diamond == <<<<2, 3>>, <<4>>, <<4>>, <<>>>>          \* if { } else { }
Loop    == <<<<2>>, <<3, 4>>, <<2>>, <<>>>>          \* while { }

(* let x = N; consume(x); x = N; consume(x); *)
Reinit == Func(X, {},
  <<New("x") \o Call(<<"x">>, 1) \o New("x") \o Call(<<"x">>, 2) \o <<Dead("x")>>>>,
  <<<<>>>>)

(* let x = N; if c { consume(x) } else { } *)
MoveOneArm == Func(X, {},
  <<New("x") \o Test("c"), Call(<<"x">>, 1), <<>>, <<Dead("x")>>>>, Diamond)

(* let x = N; if c { consume(x) } else { consume(x) } *)
MoveBothArms == Func(X, {},
  <<New("x") \o Test("c"), Call(<<"x">>, 1), Call(<<"x">>, 2), <<Dead("x")>>>>, Diamond)

(* let x = N; if c { consume(x) } else { }  let r = &x; *)
UseAfterJoin == Func(X, {},
  <<New("x") \o Test("c"), Call(<<"x">>, 1), <<>>, Ref(<<"x">>) \o <<Dead("x")>>>>,
  Diamond)

(* let x; if c { x = N } else { x = N }  consume(x); *)
LateInit == Func(X, {},
  <<<<Uninit("x")>> \o Test("c"), New("x"), New("x"),
    Call(<<"x">>, 1) \o <<Dead("x")>>>>, Diamond)

(* let x; if c { x = N } else { }   (never read) *)
HalfInit == Func(X, {},
  <<<<Uninit("x")>> \o Test("c"), New("x"), <<>>, <<Dead("x")>>>>, Diamond)

(* let x = N; while c { consume(x); x = N; } *)
LoopReinit == Func(X, {},
  <<New("x"), Test("c"), Call(<<"x">>, 1) \o New("x"), <<Dead("x")>>>>, Loop)

(* let x = N; while c { consume(x); } *)
LoopMove == Func(X, {},
  <<New("x"), Test("c"), Call(<<"x">>, 1), <<Dead("x")>>>>, Loop)

(* let x = N; consume(x); while c { } *)
MoveThenLoop == Func(X, {},
  <<New("x") \o Call(<<"x">>, 1), Test("c"), <<>>, <<Dead("x")>>>>, Loop)

(* let x = N; while c { if e { consume(x); break } else { } } *)
BreakMove == Func(X, {},
  <<New("x"), Test("c"), Test("e"), <<Dead("x")>>,
    Call(<<"x">>, 1), <<>>, <<>>, <<>>>>,
  <<<<2>>, <<3, 4>>, <<5, 6>>, <<>>, <<4>>, <<7>>, <<2>>, <<7>>>>)

(* let x = N; if c { consume(x); return } else { } *)
ReturnMove == Func(X, {},
  <<New("x") \o Test("c"), Call(<<"x">>, 1), <<>>, <<Dead("x")>>, <<>>>>,
  <<<<2, 3>>, <<>>, <<4>>, <<>>, <<4>>>>)

(* let x = N; consume(x); if c { return } else { } *)
MoveThenReturn == Func(X, {},
  <<New("x") \o Call(<<"x">>, 1) \o Test("c"), <<>>, <<>>, <<Dead("x")>>, <<>>>>,
  <<<<2, 3>>, <<>>, <<4>>, <<>>, <<4>>>>)

(* let x = P; consume(x.f); match x.g { .. } *)
Partial == Func(X, {"x"},
  <<New("x") \o Call(<<"x", "f">>, 1) \o Tag(<<"x", "g">>) \o <<Dead("x")>>>>, <<<<>>>>)

(* let x = P; consume(x); x.f = N; let r = &x.f;   (rejected) *)
RefillMoved == Func(X, {"x"},
  <<New("x") \o Call(<<"x">>, 1) \o <<In(<<"x", "f">>)>> \o Ref(<<"x", "f">>)
      \o <<Dead("x")>>>>, <<<<>>>>)

(* let x: P; x.f = N; x.g = N; *)
FieldInit == Func(X, {"x"},
  <<<<Uninit("x"), In(<<"x", "f">>), In(<<"x", "g">>), Dead("x")>>>>, <<<<>>>>)

(* let x = P; if c { consume(x) } else { consume(x.f) } *)
WholeOrPart == Func(X, {"x"},
  <<New("x") \o Test("c"), Call(<<"x">>, 1), Call(<<"x", "f">>, 2), <<Dead("x")>>>>,
  Diamond)

(* let x = D; consume(x.f);   (rejected: x implements Drop) *)
PartOfDrop == Func(XD, {"x"},
  <<New("x") \o Call(<<"x", "f">>, 1) \o <<Dead("x")>>>>, <<<<>>>>)

(* consume(r.f)   (rejected: r is a reference) *)
BehindRef == Func([X EXCEPT !["x"].ty = "ref"], {"x"},
  <<Call(<<"x", "f">>, 1)>>, <<<<>>>>)

(* if c { if e { consume(x) } else { } } else { consume(x) } *)
NestedJoin == Func(X, {},
  <<New("x") \o Test("c"), Test("e"), Call(<<"x">>, 2), <<Dead("x")>>,
    Call(<<"x">>, 1), <<>>, <<>>>>,
  <<<<2, 3>>, <<5, 6>>, <<4>>, <<>>, <<7>>, <<7>>, <<4>>>>)

(* let v = unsafe { *x }; let w = unsafe { *x };   with x: *mut N *)
RawDeref == [Func(X, {},
    <<New("x") \o Call(<<"x", "*">>, 1) \o Call(<<"x", "*">>, 2) \o <<Dead("x")>>>>,
    <<<<>>>>)
  EXCEPT !.decl["x"].ty = "raw", !.leaves = (@ \ {<<"x">>}) \cup {<<"x", "*">>},
         !.places = @ \cup {<<"x", "*">>}]

(* for x in it { consume(x) } *)
ForConsume == Func(X, {},
  <<<<>>, <<>>, <<Eff("bind", <<"x">>, 0)>> \o Call(<<"x">>, 1) \o <<Dead("x")>>, <<>>>>,
  Loop)

(* for x in it { let r = &x; } *)
ForBorrow == Func(X, {},
  <<<<>>, <<>>, <<Eff("bind", <<"x">>, 0)>> \o Ref(<<"x">>) \o <<Dead("x")>>, <<>>>>,
  Loop)

Programs ==
  {Reinit, MoveOneArm, MoveBothArms, UseAfterJoin, LateInit, HalfInit, LoopReinit,
   LoopMove, MoveThenLoop, BreakMove, ReturnMove, MoveThenReturn, Partial, RefillMoved,
   FieldInit, WholeOrPart, PartOfDrop, BehindRef, NestedJoin, RawDeref, ForConsume, ForBorrow}
=============================================================================
