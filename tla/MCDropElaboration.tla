------------------------- MODULE MCDropElaboration -------------------------
(***************************************************************************)
(* Functions with owned bindings, lowered by build.rs to graphs and by     *)
(* codegen.rs to the drops of exits.  They are run with their drops, the   *)
(* functions of MCPrograms without.                                        *)
(***************************************************************************)
EXTENDS DropElaboration, MCPrograms

Let(l) == New(l) \o <<Eff("live", <<l>>, 0)>>

With(f, idx, params, exits) == f @@ [idx |-> idx, params |-> params, exits |-> exits]

NoExit(f) == With(f, [l \in DOMAIN f.decl |-> 1], {}, [b \in 1..f.n |-> {}])

Y == "y" :> Local("y", "own") @@ X
Shadow == [l \in DOMAIN Y |-> IF l = "y" THEN Local("x", "own") ELSE Y[l]]
Both(f) == [NoExit(f) EXCEPT !.idx = [l \in DOMAIN f.decl |-> IF l = "x" THEN 1 ELSE 2]]

(* let x = N; let y = N; if c { consume(x) } else { consume(x); consume(y) } *)
TwoArms == Both(Func(Y, {},
  <<Let("x") \o Let("y") \o Test("c"), Call(<<"x">>, 1),
    Call(<<"x">>, 2) \o Call(<<"y">>, 3), <<Dead("y"), Dead("x")>>>>, Diamond))

(* while c { let x = N; if e { consume(x) } else { } } *)
LoopFlag == NoExit(Func(X, {},
  <<<<>>, Test("c"), Let("x") \o Test("e"), <<>>,
    Call(<<"x">>, 1), <<>>, <<Dead("x")>>>>,
  <<<<2>>, <<3, 4>>, <<5, 6>>, <<>>, <<7>>, <<7>>, <<2>>>>))

(* fn f(x: N) { while c { if e { consume(x); x = N } else { } } } *)
ParamRefill == [NoExit(Func(X, {},
  <<<<>>, Test("c"), Test("e"), <<Dead("x")>>,
    Call(<<"x">>, 1) \o New("x"), <<>>, <<>>>>,
  <<<<2>>, <<3, 4>>, <<5, 6>>, <<>>, <<7>>, <<7>>, <<2>>>>)) EXCEPT !.params = {"x"}]

(* fn f(x: N) { if c { consume(x) } else { } } *)
ParamFlag == [NoExit(Func(X, {},
  <<Test("c"), Call(<<"x">>, 1), <<>>, <<Dead("x")>>>>, Diamond)) EXCEPT !.params = {"x"}]

(* let x; if c { x = N } else { x = N } *)
LateDrop == NoExit(Func(X, {},
  <<<<Uninit("x")>> \o Test("c"), New("x"), New("x"), <<Dead("x")>>>>, Diamond))

(* let x = N; consume(x); let y = N;   y named x *)
ShadowMoved == Both(Func(Shadow, {},
  <<Let("x") \o Call(<<"x">>, 1) \o Let("y") \o <<Dead("y"), Dead("x")>>>>, <<<<>>>>))

(* let x = N; let y = N; if c { consume(y) } else { }  y named x *)
ShadowMaybe == Both(Func(Shadow, {},
  <<Let("x") \o Let("y") \o Test("c"), Call(<<"y">>, 1), <<>>,
    <<Dead("y"), Dead("x")>>>>, Diamond))

(* let x = N; if c { consume(x); return } else { } *)
EarlyReturn == With(Func(X, {},
    <<Let("x") \o Test("c"), Call(<<"x">>, 1), <<>>, <<Dead("x")>>, <<>>>>,
    <<<<2, 3>>, <<>>, <<4>>, <<>>, <<4>>>>),
  [l \in DOMAIN X |-> 1], {}, <<{}, {"x"}, {}, {}, {}>>)

(* let x = N; if c { consume(x) } else { } if e { return } else { } *)
ListedReturn == With(Func(X, {},
    <<Let("x") \o Test("c"), Call(<<"x">>, 1), <<>>, Test("e"), <<>>, <<>>, <<Dead("x")>>, <<>>>>,
    <<<<2, 3>>, <<4>>, <<4>>, <<5, 6>>, <<>>, <<7>>, <<>>, <<7>>>>),
  [l \in DOMAIN X |-> 1], {}, <<{}, {}, {}, {}, {"x"}, {}, {}, {}>>)

(* while c { let x = N; if e { consume(x) } else { }                        *)
(*           if c { break } else { if e { continue } else { } } }           *)
LeaveLoop == With(Func(X, {},
    <<<<>>, Test("c"), Let("x") \o Test("e"), <<>>, Call(<<"x">>, 1), <<>>, Test("c"),
      <<>>, Test("e"), <<>>, <<>>, <<>>, <<Dead("x")>>, <<>>, <<>>>>,
    <<<<2>>, <<3, 4>>, <<5, 6>>, <<>>, <<7>>, <<7>>, <<8, 9>>,
      <<4>>, <<10, 11>>, <<2>>, <<12>>, <<13>>, <<2>>, <<13>>, <<12>>>>),
  [l \in DOMAIN X |-> 1], {},
  [b \in 1..15 |-> IF b \in {8, 10} THEN {"x"} ELSE {}])

(* fn f(y: N) { while c { let x = N; consume(x); if e { return } else { } } } *)
MovedReturn == With(Func(Y, {},
    <<<<>>, Test("c"), Let("x") \o Call(<<"x">>, 1) \o Test("e"), <<Dead("y")>>,
      <<>>, <<>>, <<Dead("x")>>, <<>>>>,
    <<<<2>>, <<3, 4>>, <<5, 6>>, <<>>, <<>>, <<7>>, <<2>>, <<7>>>>),
  [l \in DOMAIN Y |-> IF l = "y" THEN 1 ELSE 2], {"y"},
  [b \in 1..8 |-> IF b = 5 THEN {"x", "y"} ELSE {}])

(* let x = P; if c { consume(x.f) } else { } *)
MaybePart == NoExit(Func(X, {"x"},
  <<Let("x") \o Test("c"), Call(<<"x", "f">>, 1), <<>>, <<Dead("x")>>>>, Diamond))

(* let x = N; if c { consume(x); if e { x = N } else { } } else { } *)
MaybeRefill == NoExit(Func(X, {},
  <<Let("x") \o Test("c"), Call(<<"x">>, 1) \o Test("e"), <<>>, <<Dead("x")>>,
    New("x"), <<>>, <<>>>>,
  <<<<2, 3>>, <<5, 6>>, <<4>>, <<>>, <<7>>, <<7>>, <<4>>>>))

DropPrograms ==
  {TwoArms, LoopFlag, ParamRefill, ParamFlag, LateDrop, ShadowMoved, ShadowMaybe,
   EarlyReturn, ListedReturn, LeaveLoop, MovedReturn, MaybePart, MaybeRefill}
  \cup {NoExit(f) : f \in {Reinit, UseAfterJoin, LoopMove, MoveThenLoop}}

MovePrograms == {NoExit(f) : f \in Programs} \ DropPrograms
MCCfgs == MovePrograms \cup DropPrograms

MovesAndDropsNext == \/ cfg \in MovePrograms /\ SoundNext /\ UNCHANGED dropVars
                     \/ cfg \in DropPrograms /\ DropNext

(* Fair as SoundSpec is. *)
MovesAndDropsSpec ==
  DropInit /\ [][MovesAndDropsNext]_<<vars, runVars, dropVars>> /\ WF_vars(Next)
=============================================================================
