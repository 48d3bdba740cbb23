----------------------------- MODULE MCSources -----------------------------
(***************************************************************************)
(* Functions as the builder gets them, one or more for each form it        *)
(* lowers.  N is an owned value, P has two fields of type N, and the enum  *)
(* O is { A, B(N), C { f: N, g: N } }.                                     *)
(***************************************************************************)
EXTENDS Naturals, Sequences

I == [t |-> "int"]
T == [t |-> "bool"]
U == [t |-> "tuple", of |-> <<>>]
N == [t |-> "struct", name |-> "N"]
P == [t |-> "struct", name |-> "P"]
O == [t |-> "enum", name |-> "O"]
R(ty)     == [t |-> "ref", mut |-> FALSE, of |-> ty]
M(ty)     == [t |-> "ref", mut |-> TRUE, of |-> ty]
Pair(a, b) == [t |-> "tuple", of |-> [i \in {"0", "1"} |-> IF i = "0" THEN a ELSE b]]

Fields(ty) == [i \in {"f", "g"} |-> ty]
MCStructs == [s \in {"N", "P"} |->
                [copy |-> FALSE, drop |-> s = "N",
                 fields |-> IF s = "N" THEN <<>> ELSE Fields(N)]]
MCEnums == [e \in {"O"} |->
              [copy |-> FALSE, drop |-> FALSE,
               variants |-> [v \in {"A", "B", "C"} |->
                               [disc |-> CASE v = "A" -> 0 [] v = "B" -> 1 [] v = "C" -> 2,
                                of   |-> CASE v = "A" -> <<>> [] v = "B" -> [i \in {"0"} |-> N]
                                           [] v = "C" -> Fields(N)]]]]

(* Expressions. *)
K(ty)        == [k |-> "const", ty |-> ty, id |-> 0]
V(x, ty)     == [k |-> "var", name |-> x, ty |-> ty, id |-> 1]
F(e, f, ty)  == [k |-> "field", base |-> e, field |-> f, ty |-> ty, id |-> 2]
D(e)         == [k |-> "deref", base |-> e, ty |-> e.ty.of, id |-> 3]
Bor(e)       == [k |-> "borrow", base |-> e, mut |-> FALSE, ty |-> R(e.ty)]
BorMut(e)    == [k |-> "borrow", base |-> e, mut |-> TRUE, ty |-> M(e.ty)]
Agg(kind, es, ty) == [k |-> kind, args |-> es, ty |-> ty]
New          == Agg("struct", <<>>, N)
Fn(es, ty)   == [k |-> "call", bare |-> "", args |-> es, ty |-> ty, id |-> 4]
Through(f, adj) == [k |-> "call", bare |-> f, adjust |-> adj, args |-> <<K(I)>>, ty |-> U,
                    id |-> 5]
Take(e)      == Fn(<<e>>, U)
Meth(adj, e, es, ty) == [k |-> "method", adjust |-> adj, recv |-> e, args |-> es, ty |-> ty]
Blk(ss, e)   == [stmts |-> ss, tail |-> e]
NoE          == [k |-> "none"]
Do(ss)       == Blk(ss, NoE)
B(ss, e)     == [k |-> "block", body |-> Blk(ss, e), ty |-> e.ty]
Iff(c, a, b, ty) == [k |-> "if", cond |-> c, then |-> a, else |-> b, ty |-> ty]
While(l, c, b) == [k |-> "while", label |-> l, cond |-> c, body |-> b, ty |-> U]
For(l, p, it, e, b) == [k |-> "for", label |-> l, pat |-> p, item |-> it, iter |-> e,
                        body |-> b, ty |-> U]
Break(l)     == [k |-> "break", label |-> l, ty |-> U]
Continue(l)  == [k |-> "continue", label |-> l, ty |-> U]
Ret(e)       == [k |-> "return", value |-> e, ty |-> U]
Panic        == [k |-> "panic", args |-> <<K(I)>>, ty |-> U]
Try(e, ty)   == [k |-> "try", inner |-> e, ty |-> ty]
Index(e, i)  == [k |-> "index", base |-> e, index |-> i, ty |-> I]
Match(e, as, ty) == [k |-> "match", scrut |-> e, arms |-> as, ty |-> ty]
Arm(p, e)    == [pat |-> p, guard |-> NoE, body |-> e]
ArmIf(p, g, e) == [pat |-> p, guard |-> g, body |-> e]
IfLet(p, e, a, b, ty) == [k |-> "iflet", pat |-> p, scrut |-> e, then |-> a, else |-> b,
                          ty |-> ty]

(* Statements. *)
Let(x, e)    == [k |-> "let", ty |-> e.ty, value |-> e, else |-> NoE,
                 pat |-> [k |-> "bind", name |-> x, by_ref |-> FALSE, mut |-> FALSE,
                          peel |-> 0, over |-> "none"]]
Decl(x, ty)  == [Let(x, K(ty)) EXCEPT !.value = NoE]
LetPat(p, e, b) == [k |-> "let", ty |-> e.ty, value |-> e, else |-> b, pat |-> p]
Set(l, e)    == [k |-> "assign", lhs |-> l, rhs |-> e]
E(e)         == [k |-> "expr", e |-> e]

(* Patterns. *)
Pat(kind)    == [k |-> kind, peel |-> 0, over |-> "none"]
Wild         == Pat("wild")
Name(x)      == [k |-> "bind", name |-> x, by_ref |-> FALSE, mut |-> FALSE, peel |-> 0,
                 over |-> "none"]
ByRef(x)     == [Name(x) EXCEPT !.by_ref = TRUE]
Lit          == Pat("int")
Tru(b)       == [k |-> "bool", value |-> b, peel |-> 0, over |-> "none"]
Parts(v, ps) == [k |-> "parts", variant |-> v, subs |-> ps, peel |-> 0, over |-> "none"]
VarA         == Parts("A", <<>>)
VarB(p)      == Parts("B", <<<<"0", p>>>>)
VarC(p, q)   == Parts("C", <<<<"f", p>>, <<"g", q>>>>)
Tup(p, q)    == Parts("", <<<<"0", p>>, <<"1", q>>>>)
Or(ps)       == [k |-> "or", alts |-> ps, peel |-> 0, over |-> "none"]
AtPat(x, p)  == [k |-> "at", name |-> x, inner |-> p, peel |-> 0, over |-> "none"]
RefPat(p)    == [k |-> "ref", inner |-> p, peel |-> 0, over |-> "none"]

Param(x, ty) == [name |-> x, ty |-> ty]
Func(params, body) == [params |-> params, ret |-> U, body |-> body]
FuncTo(ty, params, body) == [params |-> params, ret |-> ty, body |-> body]

x == V("x", N)
y == V("y", N)
c == V("c", T)
CX == <<Param("c", T), Param("x", N)>>

MCFuncs == {
  \* let y = x; consume(y)
  Func(CX, Do(<<Let("y", x), E(Take(y))>>)),
  \* let y = if c { x } else { let z = N; z };  let x = y;  { let x = x; } consume(x)
  Func(CX, Do(<<Let("y", Iff(c, Blk(<<>>, x), Blk(<<Let("z", New)>>, V("z", N)), N)),
                Let("x", y), E(B(<<Let("x", x)>>, K(U))), E(Take(x))>>)),
  \* let y; while c { if c { break } y = N; let z = y; continue }  y
  FuncTo(N, <<Param("c", T)>>,
    Blk(<<Decl("y", N),
          E(While("", c, Do(<<E(Iff(c, Do(<<E(Break(""))>>), Do(<<>>), U)), Set(y, New),
                              Let("z", y), E(Continue(""))>>)))>>, y)),
  \* 'a: while c { let y = N; while c { let z = N; if c { break 'a } else { continue 'a } } }
  Func(CX, Do(<<E(While("a", c, Do(<<Let("y", New),
         E(While("", c, Do(<<Let("z", New),
             E(Iff(c, Do(<<E(Break("a"))>>), Do(<<E(Continue("a"))>>), U))>>)))>>)))>>)),
  \* for z in x { if c { continue } else { consume(z); break } }  for _ in N { }
  Func(CX, Do(<<E(For("", Name("z"), N, x,
                   Do(<<E(Iff(c, Do(<<E(Continue(""))>>),
                              Do(<<E(Take(V("z", N))), E(Break(""))>>), U))>>))),
                E(For("", Wild, N, New, Do(<<>>)))>>)),
  \* if c { return x }  N
  FuncTo(N, CX, Blk(<<E(Iff(c, Do(<<E(Ret(x))>>), Do(<<>>), U))>>, New)),
  \* if c { return; }  x.index[c];  panic!()
  Func(CX, Do(<<E(Iff(c, Do(<<E(Ret(NoE))>>), Do(<<>>), U)), E(Index(x, K(I))), E(Panic),
                E(Take(x))>>)),
  \* match o { A | C { f: _, g: _ } => N, B(z) if c => z, B(_) => x }
  FuncTo(N, CX \o <<Param("o", O)>>,
    Blk(<<>>, Match(V("o", O), <<Arm(Or(<<VarA, VarC(Wild, Wild)>>), New),
                                 ArmIf(VarB(Name("z")), c, V("z", N)),
                                 Arm(VarB(Wild), x)>>, N))),
  \* match o { w @ B(_) => consume(w), C { f, ref g } => consume(f), A => {} }
  Func(<<Param("o", O)>>,
    Do(<<E(Match(V("o", O), <<Arm(AtPat("w", VarB(Wild)), Take(V("w", O))),
                              Arm(VarC(Name("f"), ByRef("g")), Take(V("f", N))),
                              Arm(VarA, K(U))>>, U))>>)),
  \* match (7, c) { (1..=3, false) => {}, (_, true) | (9, _) => consume(x), _ => {} }
  Func(CX, Do(<<E(Match(Agg("tuple", <<K(I), c>>, Pair(I, T)),
                        <<Arm(Tup(Lit, Tru(FALSE)), K(U)),
                          Arm(Or(<<Tup(Wild, Tru(TRUE)), Tup(Lit, Wild)>>), Take(x)),
                          Arm(Wild, K(U))>>, U))>>)),
  \* if let B(z) = &o { read(z) } else { }   let B(w) = o else { return };   consume(w)
  Func(<<Param("o", O)>>,
    Do(<<E(IfLet([VarB([Name("z") EXCEPT !.over = "imm"]) EXCEPT !.peel = 1],
                 Bor(V("o", O)), Do(<<E(Take(V("z", R(N))))>>), Do(<<>>), U)),
         LetPat(VarB(Name("w")), V("o", O), Do(<<E(Ret(NoE))>>)),
         E(Take(V("w", N)))>>)),
  \* let (a, &b) = (x, &c);   let _ = a;   let ref d = N;
  Func(CX, Do(<<LetPat(Tup(Name("a"), RefPat(Name("b"))),
                       Agg("tuple", <<x, Bor(c)>>, Pair(N, R(T))), NoE),
                LetPat(Wild, V("a", N), NoE), LetPat(ByRef("d"), New, NoE)>>)),
  \* p.f = x; let r = &mut p; (*r).g = N; consume(p.f); g().f
  FuncTo(N, CX \o <<Param("p", P)>>,
    Blk(<<Set(F(V("p", P), "f", N), x), Let("r", BorMut(V("p", P))),
          Set(F(D(V("r", M(P))), "g", N), New), E(Take(F(V("p", P), "f", N)))>>,
        F(Fn(<<>>, P), "f", N))),
  \* r.set(x); r.set(N); p.read(); C.cmp(&c); p.into()
  Func(CX \o <<Param("p", P), Param("r", M(P))>>,
    Do(<<E(Meth("ByRef", V("r", M(P)), <<x>>, U)), E(Meth("ByRef", V("r", M(P)), <<New>>, U)),
         E(Meth("BorrowImm", V("p", P), <<>>, U)), E(Meth("BorrowImm", K(I), <<Bor(c)>>, T)),
         E(Meth("BorrowMut", V("p", P), <<>>, U)), E(Meth("Move", V("p", P), <<>>, U))>>)),
  \* both(x, { let y = N; if c { break-free } y });  *g(&c);  c as i32;  r = r2
  Func(CX \o <<Param("r", M(N)), Param("q", M(N))>>,
    Do(<<E(Fn(<<x, B(<<Let("y", New)>>, y)>>, U)), Let("d", D(Fn(<<Bor(c)>>, R(T)))),
         Let("i", Agg("cast", <<c>>, I)), Set(V("r", M(N)), V("q", M(N))),
         Let("u", While("", c, Do(<<>>))), Let("v", Match(V("i", I), <<Arm(Lit, K(I)),
           Arm(Wild, Fn(<<Match(c, <<Arm(Tru(TRUE), K(I)), Arm(Wild, Panic)>>, I)>>, I))>>, I))>>)),
  \* while c { y(0) }  x(0)     x called by value, y by reference
  Func(CX \o <<Param("y", N)>>,
    Do(<<E(While("", c, Do(<<E(Through("y", "BorrowImm"))>>))), E(Through("x", "Move"))>>)),
  \* let a = g(c)?;   f(h()?)
  Func(CX, Do(<<Let("a", Try(Fn(<<c>>, T), T)),
                E(Fn(<<Agg("cast", <<Try(Fn(<<>>, T), T)>>, I)>>, U))>>))
  }

(* let a = g(x)?;   its operand moves. *)
MCTry == { Func(CX, Do(<<Let("a", Try(Fn(<<x>>, T), T))>>)) }
=============================================================================
