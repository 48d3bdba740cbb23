------------------------------ MODULE MCCrates ------------------------------
(* The crates the back end is checked on, as the front end hands them over:  *)
(* typed, resolved, and with the move status of their bindings. Every entry  *)
(* calls what it tests with each of the inputs that matter and shows the     *)
(* results through `note`; `gone` shows the drop of a value.                 *)
EXTENDS Integers, Sequences, TLC

-----------------------------------------------------------------------------
(* Constructors of typed source *)

T(h, args) == [h |-> h, args |-> args]
S(h) == T(h, <<>>)
U8 == S("u8")      I8 == S("i8")      U16 == S("u16")    U32 == S("u32")
I32T == S("i32")   U64 == S("u64")    U128 == S("u128")  I128 == S("i128")
Bool == S("bool")  Usize == S("usize")  Str == S("str")  Never == S("!")
TupT(ts) == T("tuple", ts)
UnitT == TupT(<<>>)
Amp(t) == T("&", <<t>>)
AmpMut(t) == T("&mut", <<t>>)
RawMut(t) == T("*mut", <<t>>)

E(k, t) == [k |-> k, ty |-> t, id |-> 0]
IntL(t, n) == E("Lit", t) @@ [lit |-> [k |-> "Int", n |-> n]]
N(n) == IntL(U32, n)
Truth1 == E("Lit", Bool) @@ [lit |-> [k |-> "Bool", b |-> TRUE]]
Text(s, len) == E("Lit", Amp(Str)) @@ [lit |-> [k |-> "Str", s |-> s, len |-> len]]
Nm(name, t) == E("Var", t) @@ [name |-> name, use |-> [k |-> "local"]]
\* A use of a binding that moves it, at the node `id`.
Moved(name, t, id) == [Nm(name, t) EXCEPT !.id = id]
FnItem(f, t) == E("Var", t) @@ [name |-> f, use |-> [k |-> "fn", fn |-> f]]
Konst(name, t, n) == E("Var", t) @@ [name |-> name,
                                     use |-> [k |-> "const", lit |-> [k |-> "Int", n |-> n]]]

Blk(stmts, tail) == [stmts |-> stmts, tail |-> tail]
Do(stmts) == Blk(stmts, <<>>)
Give(e) == Blk(<<>>, <<e>>)
Braces(b, t) == E("Block", t) @@ [block |-> b]
IfE(c, a, b, t) == E("If", t) @@ [cond |-> c, then |-> a, else |-> b]
When(c, a) == IfE(c, a, Do(<<>>), UnitT)
WhileE(label, c, b) == E("While", UnitT) @@ [label |-> label, cond |-> c, body |-> b]
ForE(label, pat, it, b) ==
    E("For", UnitT) @@ [label |-> label, pattern |-> pat, iter |-> it, body |-> b]
MatchOn(s, arms, t) == E("Match", t) @@ [scrutinee |-> s, arms |-> arms]
IfLetE(s, pat, a, b, t) ==
    E("IfLet", t) @@ [scrutinee |-> s, pattern |-> pat, then |-> a, else |-> b]
TryE(e, t) == E("Try", t) @@ [inner |-> e]
Arrow(pat, e) == [pattern |-> pat, guard |-> <<>>, body |-> e]
ArrowIf(pat, g, e) == [pattern |-> pat, guard |-> <<g>>, body |-> e]
BreakTo(label) == E("Break", Never) @@ [label |-> label]
ContinueTo(label) == E("Continue", Never) @@ [label |-> label]
Ret(e) == E("Return", Never) @@ [args |-> <<e>>]

Bor(e) == E("Borrow", Amp(e.ty)) @@ [inner |-> e, mutable |-> FALSE]
BorMut(e) == E("Borrow", AmpMut(e.ty)) @@ [inner |-> e, mutable |-> TRUE]
Star(e, t) == E("Deref", t) @@ [inner |-> e]
Fld(b, part, t) == E("FieldAccess", t) @@ [base |-> b, part |-> part]
Nth(b, part, t) == E("TupleIndex", t) @@ [base |-> b, part |-> part]
At(b, i, t) == E("Index", t) @@ [base |-> b, index |-> i]
As(e, t) == E("Cast", t) @@ [inner |-> e]
Tuple(es, ts) == E("Tuple", TupT(ts)) @@ [args |-> es]
Panics(s, len) == E("MacroCall", Never) @@ [args |-> <<Text(s, len)>>]

Prim(name, targs, args, t) == E("Builtin", t) @@ [name |-> name, targs |-> targs, args |-> args]
Ar(op, a, b) == Prim(<<a.ty.h, op>>, <<>>, <<a, b>>, a.ty)
Cmp(op, a, b) == Prim(<<a.ty.h, op>>, <<>>, <<a, b>>, Bool)
Plus(a, b) == Ar("add", a, b)
Eq(a, b) == Cmp("eq", a, b)

Lit(t, disc, fields) == E("StructLit", t) @@ [fields |-> fields, disc |-> disc]
FV(name, e) == [name |-> name, value |-> e]
CallE1(res, args, t) == E("Call", t) @@ [res |-> res, args |-> args]
Call(f, args, t) == CallE1([k |-> "Direct", fn |-> f, targs |-> <<>>], args, t)
CallG(f, targs, args, t) == CallE1([k |-> "Generic", fn |-> f, targs |-> targs], args, t)
Variant(t, disc, args) == CallE1([k |-> "Variant", disc |-> disc], args, t)
CallVia(name, fty, args, t) == CallE1([k |-> "Indirect", name |-> name, fty |-> fty], args, t)
Meth(recv, adjust, f, args, t) ==
    E("MethodCall", t) @@ [recv |-> recv, args |-> args,
                           res |-> [k |-> "Direct", fn |-> f, targs |-> <<>>, adjust |-> adjust]]
MethG(recv, adjust, f, targs, args, t) ==
    E("MethodCall", t) @@ [recv |-> recv, args |-> args,
                           res |-> [k |-> "Generic", fn |-> f, targs |-> targs, adjust |-> adjust]]
MethVia(recv, adjust, trait, rt, method, margs, args, t) ==
    E("MethodCall", t) @@
        [recv |-> recv, args |-> args,
         res |-> [k |-> "Dispatch", trait |-> trait, targs |-> <<>>, recv |-> rt,
                  method |-> method, margs |-> margs, adjust |-> adjust]]

LetP(pat, e) == [k |-> "Let", pattern |-> pat, value |-> <<e>>, else |-> <<>>]
LetElse(pat, e, b) == [k |-> "Let", pattern |-> pat, value |-> <<e>>, else |-> <<b>>]
Set(l, r) == [k |-> "Assign", lhs |-> l, rhs |-> r]
Run(e) == [k |-> "expr", e |-> e]
Note(e) == Run(Call("note", <<e>>, UnitT))

P(k) == [k |-> k, id |-> 0, peel |-> 0, override |-> FALSE, byRef |-> FALSE]
Wild == P("Wildcard")
PInt(n) == P("LitInt") @@ [n |-> n]
PBool(b) == P("LitBool") @@ [value |-> b]
PTo(lo, hi) == P("Range") @@ [lo |-> lo, hi |-> hi]
PName(name, t, id) == [P("Binding") EXCEPT !.id = id] @@ [name |-> name, ty |-> t]
PByRef(name, t, id) == [PName(name, t, id) EXCEPT !.byRef = TRUE]
PAt(name, t, id, p) == [P("At") EXCEPT !.id = id] @@ [name |-> name, ty |-> t, inner |-> p]
PCase(name, ps) == P("VariantTuple") @@ [name |-> name, elems |-> ps]
PRec(name, fields) == P("VariantStruct") @@ [name |-> name, fields |-> fields]
PF(name, p) == [name |-> name, pattern |-> p]
PTup(ps) == P("Tuple") @@ [elems |-> ps]
PAmp(p) == P("Ref") @@ [inner |-> p]
POr(ps) == P("Or") @@ [alts |-> ps]
Peeled(p, n) == [p EXCEPT !.peel = n]
ByErgonomics(p) == [p EXCEPT !.override = TRUE]

Let(name, e) == LetP(PName(name, e.ty, 0), e)
LetLater(name, t) == [k |-> "Let", pattern |-> PName(name, t, 0), value |-> <<>>, else |-> <<>>]

Par(name, t) == [name |-> name, ty |-> t]
GFn(tparams, implParams, params, ret, moved, sites, body) ==
    [tparams |-> tparams, implParams |-> implParams, params |-> params, ret |-> ret,
     body |-> body, moved |-> moved, sites |-> sites]
Fun(params, ret, body) == GFn(<<>>, 0, params, ret, <<>>, {}, body)

-----------------------------------------------------------------------------
(* Declarations *)

Tok == S("Tok")
Two(t) == T("Two", <<t>>)
Guard(t) == T("Guard", <<t>>)
Opt(t) == T("Option", <<t>>)
Res(a, b) == T("Result", <<a, b>>)
Shape == S("Shape")
Owner == S("Owner")
Rec == S("Rec")
Cells == S("Cells")
Cover == S("Cover")
Count == S("Count")
Nest == S("Nest")
OpFn == T("fn", <<U32, U32>>)

MCStructs ==
    [Tok |-> [params |-> <<>>, fields |-> <<Par("id", U32)>>],
     Two |-> [params |-> <<"T">>, fields |-> <<Par("a", S("T")), Par("b", S("T"))>>],
     Guard |-> [params |-> <<"T">>, fields |-> <<Par("id", U32), Par("v", S("T"))>>],
     Rec |-> [params |-> <<>>,
              fields |-> <<Par("a", U8), Par("w", U64), Par("h", U16), Par("d", U32)>>],
     Nest |-> [params |-> <<>>, fields |-> <<Par("k", U8), Par("rec", Rec), Par("t",
     TupT(<<U16, U32>>))>>],
     Cells |-> [params |-> <<>>, fields |-> <<Par("x", U32), Par("y", U32)>>],
     Cover |-> [params |-> <<>>, fields |-> <<Par("pad", U16), Par("cells", Cells)>>],
     Count |-> [params |-> <<>>, fields |-> <<Par("left", U32)>>]]

Vt(name, fields) == [name |-> name, fields |-> fields]
MCEnums ==
    [Option |-> [params |-> <<"T">>, variants |-> <<Vt("None", <<>>),
                                                    Vt("Some", <<Par(0, S("T"))>>)>>],
     Result |-> [params |-> <<"T", "E">>,
                 variants |-> <<Vt("Ok", <<Par(0, S("T"))>>), Vt("Err", <<Par(0, S("E"))>>)>>],
     Shape |-> [params |-> <<>>,
                variants |-> <<Vt("Dot", <<>>), Vt("Line", <<Par(0, U32)>>),
                               Vt("Rect", <<Par("w", U8), Par("h", U32)>>),
                               Vt("Pair", <<Par(0, U8), Par(1, U32)>>)>>],
     Owner |-> [params |-> <<>>,
                variants |-> <<Vt("Nobody", <<>>), Vt("One", <<Par(0, U32), Par(1, Tok)>>),
                               Vt("Both", <<Par(0, Tok), Par(1, Tok)>>)>>]]

Impl(trait, params, bounds, target, assoc, methods) ==
    [trait |-> trait, targs |-> <<>>, params |-> params, bounds |-> bounds, target |-> target,
     assoc |-> assoc, methods |-> methods]
MCImpls ==
    <<Impl("Drop", <<>>, <<>>, Tok, <<>>, [drop |-> "tok_drop"]),
      Impl("Drop", <<"T">>, <<>>, Guard(S("T")), <<>>, [drop |-> "guard_drop"]),
      Impl("Show", <<>>, <<>>, U32, <<>>, [show |-> "u32_show"]),
      Impl("Show", <<"T">>, [T |-> {"Show"}], Two(S("T")), <<>>, [show |-> "two_show"]),
      Impl("Iterator", <<>>, <<>>, Count, [Item |-> U32], [next |-> "count_next"]),
      Impl("Deref", <<>>, <<>>, Cover, [Target |-> Cells], [deref |-> "cover_deref"]),
      [Impl("Index", <<>>, <<>>, Cells, <<>>, [index |-> "cells_index"]) EXCEPT !.targs = <<U32>>],
      [Impl("IndexMut", <<>>, <<>>, Cells, <<>>,
            [index_mut |-> "cells_index_mut"]) EXCEPT !.targs = <<U32>>]>>

u(name) == Nm(name, U32)
NewTok(n) == Lit(Tok, 0, <<FV("id", n)>>)
TokN(n) == NewTok(N(n))
IdOf(name) == Fld(Nm(name, Tok), "id", U32)

-----------------------------------------------------------------------------
(* Common functions *)

Common ==
    [note |-> Fun(<<Par("n", U32)>>, UnitT, Do(<<>>)),
     gone |-> Fun(<<Par("n", U32)>>, UnitT, Do(<<>>)),
     tok_drop |-> Fun(<<Par("self", AmpMut(Tok))>>, UnitT,
                      Do(<<Run(Call("gone", <<Fld(Nm("self", AmpMut(Tok)), "id", U32)>>,
                                    UnitT))>>)),
     eat |-> Fun(<<Par("t", Tok)>>, UnitT, Do(<<Note(IdOf("t"))>>)),
     pass |-> GFn(<<>>, 0, <<Par("t", Tok)>>, Tok, [t |-> "Moved"], {1}, Give(Moved("t", Tok,
     1)))]

-----------------------------------------------------------------------------
(* Scopes: what is dropped when a block, an iteration or a call is left.     *)

\* { let a = Tok{1}; let b = Tok{2}; if c == 1 { eat(a); } note(9) }
Maybe == GFn(<<>>, 0, <<Par("c", U32)>>, UnitT, [a |-> "MaybeMoved"], {2},
    Do(<<Let("a", TokN(1)), Let("b", TokN(2)),
         Run(When(Eq(u("c"), N(1)), Do(<<Run(Call("eat", <<Moved("a", Tok, 2)>>, UnitT))>>))),
         Note(N(9))>>))

\* Nested loops with a value in each; the inner loop goes on with the outer
\* one, leaves it, or ends.
Nested == Fun(<<Par("i", U32), Par("c", U32)>>, UnitT,
    Give(WhileE("outer", Cmp("lt", u("i"), N(3)),
        Blk(<<Let("d", NewTok(Plus(N(10), u("i"))))>>,
            <<WhileE("", Cmp("lt", u("i"), N(3)), Do(<<
                Let("e", NewTok(Plus(N(20), u("i")))), Set(u("i"), Plus(u("i"), N(1))),
                Run(When(Eq(u("i"), u("c")), Give(ContinueTo("outer")))),
                Run(When(Eq(u("i"), N(2)), Give(BreakTo("outer"))))>>))>>))))

\* A return from under an operand, out of two scopes with values in them.
Early == Fun(<<Par("c", U32)>>, U32,
    Blk(<<Let("d", TokN(30)),
          Let("r", Plus(N(100), Braces(Blk(<<Let("e", TokN(31))>>,
                <<IfE(Eq(u("c"), N(1)), Do(<<Run(Ret(Plus(IdOf("d"), IdOf("e"))))>>),
                      Give(IdOf("e")), U32)>>), U32)))>>,
        <<Plus(u("r"), IdOf("d"))>>))

\* A parameter that is sometimes moved, and a let without a value.
Hand == GFn(<<>>, 0, <<Par("t", Tok), Par("c", U32)>>, U32, [t |-> "MaybeMoved"], {3},
    Blk(<<LetLater("x", U32), LetLater("y", Rec),
          Run(IfE(Eq(u("c"), N(0)),
                  Do(<<Set(u("x"), N(5)), Run(Call("eat", <<Moved("t", Tok, 3)>>, UnitT))>>),
                  Do(<<Set(u("x"), N(6))>>), UnitT)),
          Note(u("x"))>>, <<u("x")>>))

ScopesMain == Fun(<<>>, UnitT, Do(<<
    Run(Call("maybe", <<N(0)>>, UnitT)), Run(Call("maybe", <<N(1)>>, UnitT)),
    Run(Call("loops", <<>>, UnitT)), Run(Call("returns", <<>>, UnitT))>>))
Loops == Fun(<<>>, UnitT, Do(<<
    Run(Call("nested", <<N(0), N(0)>>, UnitT)), Run(Call("nested", <<N(0), N(1)>>, UnitT)),
    Run(Call("nested", <<N(0), N(2)>>, UnitT))>>))
Returns == Fun(<<>>, UnitT, Do(<<
    Note(Call("early", <<N(0)>>, U32)), Note(Call("early", <<N(1)>>, U32)),
    Note(Call("hand", <<TokN(40), N(0)>>, U32)),
    Note(Call("hand", <<Call("pass", <<TokN(41)>>, Tok), N(1)>>, U32))>>))

-----------------------------------------------------------------------------
(* Owners: values with drops inside other values.                            *)

OwnerOf(d, args) == Variant(Owner, d, args)
Owners == Fun(<<Par("c", U32)>>, UnitT, Do(<<
    Let("p", Lit(Two(Tok), 0, <<FV("a", TokN(50)), FV("b", TokN(51))>>)),
    Let("o", MatchOn(u("c"), <<Arrow(PInt(0), OwnerOf(0, <<>>)),
                               Arrow(PInt(1), OwnerOf(1, <<N(1), TokN(52)>>)),
                               Arrow(Wild, OwnerOf(2, <<TokN(53), TokN(54)>>))>>, Owner)),
    Let("r", Bor(Nm("o", Owner))),
    Note(MatchOn(Nm("r", Amp(Owner)),
         <<Arrow(Peeled(PCase("One", <<ByErgonomics(PName("n", U32, 0)), Wild>>), 1), N(61)),
           Arrow(Peeled(PCase("Both", <<Wild, Wild>>), 1), N(62)), Arrow(Wild, N(60))>>, U32)),
    Note(Fld(Fld(Nm("p", Two(Tok)), "b", Tok), "id", U32))>>))

\* An owner behind an addressed pattern leaf and one in a tuple pattern.
Split == Fun(<<>>, UnitT, Do(<<
    LetP(PTup(<<PName("x", Tok, 81), PName("n", U32, 82)>>),
         Tuple(<<TokN(55), N(3)>>, <<Tok, U32>>)),
    Note(IdOf("x")), Note(u("n"))>>))

OwnersMain == Fun(<<>>, UnitT, Do(<<
    Run(Call("owners", <<N(0)>>, UnitT)), Run(Call("owners", <<N(1)>>, UnitT)),
    Run(Call("owners", <<N(2)>>, UnitT)), Run(Call("split", <<>>, UnitT))>>))

-----------------------------------------------------------------------------
(* Generics: instances asked for by calls, by dispatch and by drops.         *)

TP == S("T")
GuardDrop == GFn(<<"T">>, 1, <<Par("self", AmpMut(Guard(TP)))>>, UnitT, <<>>, {},
    Do(<<Run(Call("gone", <<Fld(Nm("self", AmpMut(Guard(TP))), "id", U32)>>, UnitT))>>))
Make == GFn(<<"T">>, 0, <<Par("v", TP), Par("id", U32)>>, Guard(TP), [v |-> "Moved"], {4},
    Give(Lit(Guard(TP), 0, <<FV("v", Moved("v", TP, 4)), FV("id", u("id"))>>)))
ShowVia(recv, adjust, rt) == MethVia(recv, adjust, "Show", rt, "show", <<>>, <<>>, UnitT)
ShowTwice == GFn(<<"T">>, 0, <<Par("x", Amp(TP))>>, UnitT, <<>>, {}, Do(<<
    Run(ShowVia(Nm("x", Amp(TP)), "ByRef", TP)), Run(ShowVia(Nm("x", Amp(TP)), "ByRef", TP))>>))
U32Show == Fun(<<Par("self", Amp(U32))>>, UnitT, Do(<<Note(Star(Nm("self", Amp(U32)), U32))>>))
TwoShow == GFn(<<"T">>, 1, <<Par("self", Amp(Two(TP)))>>, UnitT, <<>>, {}, Do(<<
    Run(CallG("show_twice", <<TP>>, <<Bor(Fld(Nm("self", Amp(Two(TP))), "b", TP))>>, UnitT)),
    Run(ShowVia(Fld(Nm("self", Amp(Two(TP))), "a", TP), "BorrowImm", TP))>>))

Shows == Fun(<<>>, UnitT, Do(<<
    Let("p", Lit(Two(U32), 0, <<FV("b", N(2)), FV("a", N(1))>>)),
    Let("q", Lit(Two(Two(U32)), 0, <<FV("a", Nm("p", Two(U32))), FV("b", Nm("p", Two(U32)))>>)),
    Run(CallG("show_twice", <<Two(Two(U32))>>, <<Bor(Nm("q", Two(Two(U32))))>>, UnitT))>>))
GenericsMain == Fun(<<>>, UnitT, Do(<<
    Run(Call("shows", <<>>, UnitT)),
    Let("g", CallG("make", <<U32>>, <<N(5), N(70)>>, Guard(U32))),
    Let("h", CallG("make", <<Tok>>, <<TokN(71), N(72)>>, Guard(Tok))),
    Note(Fld(Nm("g", Guard(U32)), "v", U32)),
    Note(Prim(<<"size_of">>, <<Guard(Two(U64))>>, <<>>, U32))>>))

-----------------------------------------------------------------------------
(* Matching *)

Ln(n) == Variant(Shape, 1, <<n>>)
Rect(w, h) == Lit(Shape, 2, <<FV("h", h), FV("w", w)>>)
Classify == Fun(<<Par("s", Shape)>>, U32,
    Give(MatchOn(Nm("s", Shape), <<
        Arrow(PCase("Dot", <<>>), N(0)),
        Arrow(PCase("Line", <<PInt(0)>>), N(1)),
        Arrow(PCase("Line", <<PAt("k", U32, 91, PTo(2, 5))>>), Plus(u("k"), N(10))),
        ArrowIf(PCase("Line", <<PName("m", U32, 92)>>), Eq(u("m"), N(9)), Plus(u("m"), N(90))),
        Arrow(PCase("Line", <<Wild>>), N(8)),
        Arrow(POr(<<PRec("Rect", <<PF("w", PInt(1)), PF("h", Wild)>>),
                    PRec("Rect", <<PF("w", PInt(2)), PF("h", Wild)>>)>>), N(12)),
        Arrow(PRec("Rect", <<PF("h", PByRef("hh", Amp(U32), 93)), PF("w", PName("w", U8, 94))>>),
              Plus(Star(Nm("hh", Amp(U32)), U32), As(Nm("w", U8), U32))),
        Arrow(Wild, N(13))>>, U32)))

\* Through a reference, with the ergonomics, and a let-else.
Peek == Fun(<<Par("r", Amp(Shape))>>, U32,
    Blk(<<LetElse(Peeled(PCase("Line", <<ByErgonomics(PName("n", Amp(U32), 95))>>), 1),
                  Nm("r", Amp(Shape)),
                  Do(<<Run(Ret(N(77)))>>))>>,
        <<Star(Nm("n", Amp(U32)), U32)>>))

Pairs == Fun(<<Par("a", U32), Par("b", Bool)>>, U32,
    Give(MatchOn(Tuple(<<u("a"), Nm("b", Bool)>>, <<U32, Bool>>), <<
        Arrow(PTup(<<POr(<<PInt(1), PInt(2), PInt(4)>>), PBool(TRUE)>>), N(20)),
        Arrow(PTup(<<PByRef("x", Amp(U32), 96), PBool(FALSE)>>),
              Plus(Star(Nm("x", Amp(U32)), U32), N(30))),
        Arrow(Wild, N(40))>>, U32)))

\* `&n` in an if-let on a borrowed number, and an alias of a matched name.
Behind == Fun(<<Par("a", U32)>>, U32,
    Give(IfLetE(Bor(u("a")), PAmp(PInt(3)), Give(N(50)),
                Give(IfLetE(Variant(Opt(U32), 1, <<u("a")>>),
                            PCase("Some", <<PName("m", U32, 97)>>),
                            Blk(<<Let("p", BorMut(u("m"))),
                                  Set(Star(Nm("p", AmpMut(U32)), U32), Plus(u("m"), N(1)))>>,
                                <<u("m")>>),
                            Give(N(0)), U32)), U32)))

Shapes == Fun(<<>>, UnitT, Do(<<
    Note(Call("classify", <<Variant(Shape, 0, <<>>)>>, U32)),
    Note(Call("classify", <<Ln(N(0))>>, U32)),
    Note(Call("classify", <<Ln(N(5))>>, U32)), Note(Call("classify", <<Ln(N(9))>>, U32)),
    Note(Call("classify", <<Ln(N(6))>>, U32)),
    Note(Call("classify", <<Rect(IntL(U8, 2), N(0))>>, U32)),
    Note(Call("classify", <<Rect(IntL(U8, 3), N(7))>>, U32)),
    Note(Call("classify", <<Variant(Shape, 3, <<IntL(U8, 3), N(4)>>)>>, U32))>>))
MatchingMain == Fun(<<>>, UnitT, Do(<<
    Run(Call("shapes", <<>>, UnitT)),
    Let("s", Ln(N(33))), Let("d", Variant(Shape, 0, <<>>)),
    Note(Call("peek", <<Bor(Nm("s", Shape))>>, U32)),
    Note(Call("peek", <<Bor(Nm("d", Shape))>>, U32)),
    Note(Call("pairs", <<N(4), Truth1>>, U32)), Note(Call("pairs", <<N(3), Truth1>>, U32)),
    Note(Call("pairs", <<N(2), Eq(N(1), N(2))>>, U32)),
    Note(Call("behind", <<N(3)>>, U32)), Note(Call("behind", <<N(4)>>, U32))>>))

-----------------------------------------------------------------------------
(* Integers *)

w(name) == Nm(name, U128)
Wide == Fun(<<>>, UnitT, Do(<<
    Let("a", IntL(U128, 4000)), Let("b", IntL(U128, 200)), Let("c", Plus(w("a"), w("b"))),
    Note(As(Cmp("gt", w("c"), w("a")), U32)),
    Note(As(Cmp("ne", w("c"), As(As(w("c"), U64), U128)), U32)),
    Note(As(Ar("sub", w("c"), w("a")), U32)), Note(As(Cmp("le", w("c"), w("c")), U32))>>))
SignedWide == Fun(<<>>, UnitT, Do(<<
    Let("m", As(IntL(I32T, -3), I128)), Let("z", IntL(I128, -1)),
    Note(As(Cmp("lt", Nm("m", I128), Nm("z", I128)), U32)),
    Note(As(Cmp("ge", Ar("sub", Nm("z", I128), Nm("m", I128)), IntL(I128, 2)), U32))>>))
IntegersMain == Fun(<<>>, UnitT, Do(<<
    Run(Call("wide", <<>>, UnitT)), Run(Call("signed_wide", <<>>, UnitT)),
    Note(As(Plus(IntL(U8, 250), IntL(U8, 10)), U32)),
    Note(As(Cmp("lt", Plus(IntL(I8, 100), IntL(I8, 100)), IntL(I8, 0)), U32)),
    Note(As(As(IntL(U16, 513), U8), U32)),
    Note(As(Ar("mul", IntL(U64, 70), IntL(U64, 70)), U32)),
    Note(Ar("rem", N(17), N(5))), Note(As(Ar("div", IntL(I32T, -7), IntL(I32T, 2)), U32)),
    Note(As(Prim(<<"bool", "not">>, <<>>, <<Prim(<<"bool", "and">>, <<>>,
            <<Eq(N(1), N(1)), Eq(IntL(U64, 2), IntL(U64, 2))>>, Bool)>>, Bool), U32)),
    Note(Konst("LIMIT", U32, 64))>>))

-----------------------------------------------------------------------------
(* Calls *)

Double == Fun(<<Par("n", U32)>>, U32, Give(Plus(u("n"), u("n"))))
Inc == Fun(<<Par("n", U32)>>, U32, Give(Plus(u("n"), N(1))))
Apply == Fun(<<Par("f", OpFn), Par("n", U32)>>, U32,
             Give(Plus(u("n"), CallVia("f", OpFn, <<u("n")>>, U32))))

CountNext == Fun(<<Par("self", AmpMut(Count))>>, Opt(U32),
    LET left == Fld(Nm("self", AmpMut(Count)), "left", U32)
    IN  Blk(<<Run(When(Eq(left, N(0)), Do(<<Run(Ret(Variant(Opt(U32), 0, <<>>)))>>))),
              Set(left, Ar("sub", left, N(1)))>>, <<Variant(Opt(U32), 1, <<left>>)>>))

\* A token in every turn of a for; skips one item and leaves at another.
Turns == Fun(<<Par("n", U32)>>, UnitT, Do(<<
    Run(ForE("", PName("i", U32, 98), Lit(Count, 0, <<FV("left", u("n"))>>), Do(<<
        Let("t", NewTok(u("i"))),
        Let("v", Plus(N(1), MatchOn(u("i"), <<Arrow(PInt(3), ContinueTo("")),
                                              Arrow(PInt(1), BreakTo("")),
                                              Arrow(PName("k", U32, 99), u("k"))>>, U32))),
        Note(u("v"))>>))),
    Note(N(6))>>))

CellsPart(ref, mk(_), refT) ==
    MatchOn(u("i"), <<Arrow(PInt(0), mk(Fld(Nm("self", refT), "x", U32))),
                      Arrow(Wild, mk(Fld(Nm("self", refT), "y", U32)))>>, ref)
CellsIndex == Fun(<<Par("self", Amp(Cells)), Par("i", U32)>>, Amp(U32),
                  Give(CellsPart(Amp(U32), Bor, Amp(Cells))))
CellsIndexMut == Fun(<<Par("self", AmpMut(Cells)), Par("i", U32)>>, AmpMut(U32),
                     Give(CellsPart(AmpMut(U32), BorMut, AmpMut(Cells))))
CoverDeref == Fun(<<Par("self", Amp(Cover))>>, Amp(Cells),
                  Give(Bor(Fld(Nm("self", Amp(Cover)), "cells", Cells))))

Half == Fun(<<Par("n", U32)>>, Res(U32, U32),
    Give(IfE(Eq(Ar("rem", u("n"), N(2)), N(0)),
             Give(Variant(Res(U32, U32), 0, <<Ar("div", u("n"), N(2))>>)),
             Give(Variant(Res(U32, U32), 1, <<u("n")>>)), Res(U32, U32))))
HalfOf(e) == TryE(Call("half", <<e>>, Res(U32, U32)), U32)
Quarter == Fun(<<Par("n", U32)>>, Res(U32, U32),
    Blk(<<Let("t", NewTok(Plus(u("n"), N(80))))>>,
        <<Variant(Res(U32, U32), 0, <<Plus(HalfOf(HalfOf(u("n"))), N(0))>>)>>))
SettleFn == Fun(<<Par("r", Res(U32, U32))>>, U32,
                Give(MatchOn(Nm("r", Res(U32, U32)),
                             <<Arrow(PCase("Ok", <<PName("v", U32, 101)>>), u("v")),
                          Arrow(PCase("Err", <<PName("e", U32, 102)>>),
                                Plus(u("e"), N(200)))>>, U32)))
Settle(e) == Call("settle", <<e>>, U32)

CallsMain == Fun(<<>>, UnitT, Do(<<
    Let("f", FnItem("double", OpFn)),
    Note(Call("apply", <<Nm("f", OpFn), N(4)>>, U32)),
    Note(Call("apply", <<FnItem("inc", OpFn), N(4)>>, U32)),
    Run(Call("turns", <<N(5)>>, UnitT)),
    Run(Call("indexes", <<>>, UnitT)),
    Run(Call("halves", <<>>, UnitT))>>))
Indexes == Fun(<<>>, UnitT, Do(<<
    Let("c", Lit(Cells, 0, <<FV("x", N(11)), FV("y", N(12))>>)),
    Set(At(Nm("c", Cells), N(1), U32), Plus(At(Nm("c", Cells), N(0), U32), N(2))),
    Note(At(Nm("c", Cells), N(1), U32)),
    Let("k", Lit(Cover, 0, <<FV("pad", IntL(U16, 9)), FV("cells", Nm("c", Cells))>>)),
    Note(Fld(Nm("k", Cover), "y", U32)), Note(Fld(Star(Nm("k", Cover), Cells), "x", U32))>>))
Halves == Fun(<<>>, UnitT, Do(<<
    Let("a", Call("half", <<N(12)>>, Res(U32, U32))),
    Let("b", Call("half", <<N(7)>>, Res(U32, U32))),
    Note(Settle(Nm("a", Res(U32, U32)))), Note(Settle(Nm("b", Res(U32, U32)))),
    Note(Settle(Call("quarter", <<N(12)>>, Res(U32, U32)))),
    Note(Settle(Call("quarter", <<N(6)>>, Res(U32, U32))))>>))

-----------------------------------------------------------------------------
(* Memory *)

RecOf(a, b, c, d) == Lit(Rec, 0, <<FV("a", IntL(U8, a)), FV("w", IntL(U64, b)),
                                   FV("h", IntL(U16, c)), FV("d", N(d))>>)
Bump == Fun(<<Par("n", AmpMut(Nest))>>, UnitT,
    LET n == Nm("n", AmpMut(Nest))
    IN  Do(<<Set(Fld(Fld(n, "rec", Rec), "h", U16), IntL(U16, 300)),
             Set(Nth(Fld(n, "t", TupT(<<U16, U32>>)), 1, U32), N(44)),
             Set(Fld(n, "k", U8), Plus(Fld(n, "k", U8), IntL(U8, 255)))>>))
pr == Nm("p", RawMut(Rec))
MemoryMain == Fun(<<>>, UnitT, Do(<<
    Let("p", As(Prim(<<"alloc">>, <<>>, <<Prim(<<"size_of">>, <<Rec>>, <<>>, Usize)>>,
                     RawMut(U8)), RawMut(Rec))),
    Let("q", As(Prim(<<"alloc">>, <<>>, <<Prim(<<"size_of">>, <<Rec>>, <<>>, Usize)>>,
                     RawMut(U8)), RawMut(Rec))),
    Set(Star(pr, Rec), RecOf(1, 2000, 3, 4)),
    Set(Star(Nm("q", RawMut(Rec)), Rec), RecOf(5, 6, 7, 8)),
    Set(Fld(Star(pr, Rec), "h", U16), IntL(U16, 9)),
    Note(Fld(Star(pr, Rec), "d", U32)), Note(As(Fld(Star(pr, Rec), "w", U64), U32)),
    Run(Call("copies", <<Star(pr, Rec)>>, UnitT)),
    Note(Fld(Star(Nm("q", RawMut(Rec)), Rec), "d", U32)),
    Run(Prim(<<"free">>, <<>>, <<pr>>, UnitT))>>))
Copies == Fun(<<Par("r", Rec)>>, UnitT, Do(<<
    Let("n", Lit(Nest, 0, <<FV("k", IntL(U8, 2)), FV("rec", Nm("r", Rec)),
                            FV("t", Tuple(<<IntL(U16, 1), N(2)>>, <<U16, U32>>))>>)),
    Let("copy", Nm("n", Nest)),
    Run(Call("bump", <<BorMut(Nm("n", Nest))>>, UnitT)),
    Note(As(Fld(Fld(Nm("n", Nest), "rec", Rec), "h", U16), U32)),
    Note(Nth(Fld(Nm("n", Nest), "t", TupT(<<U16, U32>>)), 1, U32)),
    Note(As(Fld(Nm("n", Nest), "k", U8), U32)),
    Note(As(Fld(Fld(Nm("copy", Nest), "rec", Rec), "h", U16), U32)),
    Run(Call("parts", <<Nm("copy", Nest), Nm("n", Nest)>>, UnitT))>>))
Parts == Fun(<<Par("copy", Nest), Par("n", Nest)>>, UnitT, Do(<<
    Set(Fld(Fld(Nm("copy", Nest), "rec", Rec), "d", U32), N(21)),
    Set(Fld(Nm("copy", Nest), "rec", Rec), Fld(Nm("n", Nest), "rec", Rec)),
    Note(Fld(Fld(Nm("copy", Nest), "rec", Rec), "d", U32)),
    Note(As(Prim(<<"str_len">>, <<>>, <<Text("abc", 3)>>, Usize), U32)),
    Note(As(Prim(<<"str_len">>, <<>>, <<Text("de", 2)>>, Usize), U32)),
    Note(Fld(Star(Bor(RecOf(1, 2, 3, 66)), Rec), "d", U32))>>))

-----------------------------------------------------------------------------
(* Ends that are not returns *)

PanicMain == Fun(<<>>, UnitT, Do(<<
    Let("t", TokN(1)),
    Run(When(Eq(IdOf("t"), N(1)), Do(<<Note(N(2)), Run(Panics("no", 2))>>))),
    Note(N(3))>>))
DivideMain == Fun(<<>>, UnitT, Do(<<Let("z", N(0)), Note(N(4)), Note(Ar("div", N(5), u("z"))),
                                    Note(N(6))>>))

\* match x { Pair(_, 3) | ... }: `A(x) | B(x) => x`.
OrBinding == Fun(<<Par("s", Shape)>>, U32,
    Give(MatchOn(Nm("s", Shape), <<
        Arrow(POr(<<PCase("Line", <<PName("x", U32, 111)>>),
                    PCase("Pair", <<Wild, PName("x", U32, 112)>>)>>), u("x")),
        Arrow(Wild, N(0))>>, U32)))
OrMain == Fun(<<>>, UnitT, Do(<<Note(Call("or_binding", <<Ln(N(5))>>, U32)),
                               Note(Call("or_binding",
                                         <<Variant(Shape, 3, <<IntL(U8, 1), N(6)>>)>>, U32))>>))

MCFuns ==
    Common @@
    [maybe |-> Maybe, nested |-> Nested, early |-> Early, hand |-> Hand, returns |-> Returns,
     loops |-> Loops, scopes |-> ScopesMain,
     owners |-> Owners, split |-> Split, owners_main |-> OwnersMain,
     guard_drop |-> GuardDrop, make |-> Make, show_twice |-> ShowTwice, u32_show |-> U32Show,
     two_show |-> TwoShow, shows |-> Shows, generics |-> GenericsMain,
     classify |-> Classify, peek |-> Peek, pairs |-> Pairs, behind |-> Behind,
     shapes |-> Shapes, matching |-> MatchingMain,
     wide |-> Wide, signed_wide |-> SignedWide, integers |-> IntegersMain,
     double |-> Double, inc |-> Inc, apply |-> Apply, count_next |-> CountNext, turns |-> Turns,
     cells_index |-> CellsIndex, cells_index_mut |-> CellsIndexMut, cover_deref |-> CoverDeref,
     half |-> Half, quarter |-> Quarter, settle |-> SettleFn, indexes |-> Indexes,
     halves |-> Halves, calls |-> CallsMain,
     bump |-> Bump, copies |-> Copies, parts |-> Parts, memory |-> MemoryMain,
     stops |-> PanicMain, divides |-> DivideMain,
     or_binding |-> OrBinding, or_main |-> OrMain]

Crate(fns, entry) == [fns |-> fns, entry |-> entry]
Base == <<"note", "gone", "tok_drop", "eat", "pass">>
MCCrates ==
    [scopes |-> Crate(Base \o <<"maybe", "nested", "early", "hand", "loops", "returns",
                                "scopes">>, "scopes"),
     owners |-> Crate(Base \o <<"owners", "split", "owners_main">>, "owners_main"),
     generics |-> Crate(Base \o <<"u32_show", "shows", "generics">>, "generics"),
     matching |-> Crate(Base \o <<"classify", "peek", "pairs", "behind", "shapes", "matching">>,
                        "matching"),
     integers |-> Crate(Base \o <<"wide", "signed_wide", "integers">>, "integers"),
     calls |-> Crate(Base \o <<"double", "inc", "apply", "count_next", "turns", "cells_index",
                               "cells_index_mut", "cover_deref", "half", "quarter",
                               "settle", "indexes", "halves", "calls">>, "calls"),
     memory |-> Crate(Base \o <<"bump", "copies", "parts", "memory">>, "memory"),
     stops |-> Crate(Base \o <<"stops">>, "stops"),
     divides |-> Crate(Base \o <<"divides">>, "divides")]
OrCrates == [or_binding |-> Crate(Base \o <<"or_binding", "or_main">>, "or_main")]
=============================================================================
