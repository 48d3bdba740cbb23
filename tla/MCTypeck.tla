------------------------------ MODULE MCTypeck ------------------------------
(* Types to match on and the patterns tried on them (see Matching),          *)
(* questions for the inference variables (see Unifier), declarations (see    *)
(* Variances), and functions that make a closure (see Closures).             *)
EXTENDS Integers, Sequences, FiniteSets, TLC

\* Types, as in RTypes.
T(h, args) == [h |-> h, args |-> args]
Bool == T("bool", <<>>)
Num == T("u8", <<>>)
Never == T("!", <<>>)
Param(p) == T(p, <<>>)
Ref(t) == T("&", <<t>>)
Mut(t) == T("&mut", <<t>>)
Pair(s, t) == T("tuple", <<s, t>>)
Opt(t) == T("Opt", <<t>>)
Res(s, t) == T("Res", <<s, t>>)
Event == T("Event", <<>>)
Point == T("Point", <<>>)

Field(name, ty) == [name |-> name, ty |-> ty]
Unit(name) == [name |-> name, shape |-> "unit", fields |-> <<>>]
Tuple(name, t) == [name |-> name, shape |-> "tuple", fields |-> <<Field("0", t)>>]
XY(s, t) == <<Field("x", s), Field("y", t)>>

MCStructs == "Point" :> [params |-> <<>>, fields |-> XY(Bool, Num)]
MCEnums ==
    "Opt" :> [params |-> <<"S">>, variants |-> <<Unit("None"), Tuple("Some", Param("S"))>>]
    @@ "Res" :> [params |-> <<"S", "E">>,
                 variants |-> <<Tuple("Ok", Param("S")), Tuple("Err", Param("E"))>>]
    @@ "Event" :> [params |-> <<>>,
                   variants |-> <<Unit("Quit"), [name |-> "Move", shape |-> "struct",
                                                 fields |-> XY(Bool, Bool)]>>]

\* Patterns.
P(k, name, subs) == [k |-> k, name |-> name, subs |-> subs, fields |-> <<>>,
                     rest |-> FALSE, by |-> "", vals |-> {}]
Wild == P("wild", "", <<>>)
X == P("bind", "x", <<>>)
Y == P("bind", "y", <<>>)
RefX == [X EXCEPT !.by = "ref"]
RefMutX == [X EXCEPT !.by = "ref mut"]
True == P("bool", "true", <<>>)
False == P("bool", "false", <<>>)
Lit(n) == [P("int", "", <<>>) EXCEPT !.vals = {n}]
Range(a, b) == [P("int", "", <<>>) EXCEPT !.vals = a .. b]
Two(p, q) == P("tuple", "", <<p, q>>)
Or(p, q) == P("or", "", <<p, q>>)
At(name, p) == P("at", name, <<p>>)
AndRef(p) == P("ref", "&", <<p>>)
AndMut(p) == P("ref", "&mut", <<p>>)
None == P("variant", "None", <<>>)
Some(p) == P("variant", "Some", <<p>>)
Ok(p) == P("variant", "Ok", <<p>>)
Err(p) == P("variant", "Err", <<p>>)
Quit == P("variant", "Quit", <<>>)
Struct(name, p, q) == [P("struct", name, <<p, q>>) EXCEPT !.fields = <<"x", "y">>]
Swapped(name, p, q) == [P("struct", name, <<p, q>>) EXCEPT !.fields = <<"y", "x">>]
Only(name, p, rest) == [P("struct", name, <<p>>) EXCEPT !.fields = <<"x">>, !.rest = rest]
Open(name) == [P("struct", name, <<>>) EXCEPT !.rest = TRUE]

Patterns ==
    Bool :> {Wild, X, True, False, Or(True, False), Lit(0)}
    @@ Num :> {X, Lit(0), Range(0, 1), Range(1, 0), Or(Lit(0), Wild), At("x", Range(1, 2))}
    @@ Pair(Bool, Bool) :> {Two(True, X), Two(False, Y), Two(X, True), Two(Wild, False), Two(Y, X),
                            Two(X, X),
                            Or(Two(True, X), Two(X, False)), Or(Two(X, Wild), Two(Wild, Y))}
    @@ Pair(Opt(Bool), Num) :> {Two(None, Wild), Two(Some(True), X), Two(Some(False), X),
                                At("y", Two(Wild, Lit(1))),
                                Two(Or(Some(X), None), Wild), Two(Some(X), Y)}
    @@ Ref(Bool) :> {X, AndRef(X), AndRef(True), False, AndMut(X), RefX}
    @@ Mut(Ref(Pair(Bool, Num))) :> {X, Two(X, Y), AndMut(X), AndMut(AndRef(Two(True, X))),
                                  Two(False, X)}
    @@ Ref(Mut(Opt(Bool))) :> {Some(X), Some(RefX), Some(RefMutX), None, AndRef(Some(X)),
                               AndRef(AndMut(Some(X))), Or(None, Some(False))}
    @@ Mut(Opt(Ref(Bool))) :> {Some(X), Some(AndRef(X)), None, Some(True), At("y", Some(False))}
    @@ Opt(Opt(Bool)) :> {Some(Some(X)), Some(None), None, Or(None, Some(None)), Some(Some(True)),
                          Some(Some(False)), Some(Or(X, None))}
    @@ Res(Bool, Never) :> {Ok(X), Ok(True), Ok(False), Err(X), Wild}
    @@ Res(Pair(Bool, Bool), Opt(Never)) :> {Ok(Two(X, Y)), Ok(Two(True, X)), Ok(Two(Wild, False)),
                                             Err(None), Err(Some(X)), Err(X)}
    @@ Event :> {Quit, Struct("Move", X, Y), Swapped("Move", X, True), Only("Move", False, TRUE),
                 Only("Move", X, FALSE), Open("Move"), Struct("Move", Wild, False), Some(X)}
    @@ Point :> {Struct("Point", True, X), Struct("Point", False, Wild),
                 Swapped("Point", Lit(0), X),
                 Swapped("Point", X, True), Only("Point", X, TRUE), Only("Point", X, FALSE)}

MCScrutinees == DOMAIN Patterns
MCPatternsFor(t) == Patterns[t]

\* The questions for inference.
Vec(t) == T("Vec", <<t>>)
Output(t) == T("proj", <<t>>)

\* The impls of one operator trait, for integers, bool and a user type.
Add(t, out) == [trait |-> "Add", targs |-> <<>>, params |-> <<>>, bounds |-> <<>>,
                target |-> t, assoc |-> "Output" :> out, methods |-> {}]
MCAdds == <<Add(Num, Num), Add(T("i32", <<>>), T("i32", <<>>)),
            Add(T("Wrap", <<>>), Num), Add(Bool, Bool)>>
MCNames == <<"?a", "?b", "?c">>

\* Each pair is asked as it stands; the variables differ in which of them
\* are literals.
MCQuestions(vs) ==
    {<<v, w>> : v, w \in vs}
    \cup {<<v, t>> : v \in vs, t \in {Num, Bool}}
    \cup {<<Vec(v), w>> : v \in vs, w \in vs \ {T("?b", <<>>)}}
    \cup {<<Pair(T("?a", <<>>), T("?b", <<>>)), t>> :
            t \in {Pair(T("?b", <<>>), Vec(T("?c", <<>>))), Pair(Num, T("?c", <<>>)), Vec(Num),
                   Pair(Vec(T("?b", <<>>)), Bool)}}
    \cup {<<Mut(T("?a", <<>>)), t>> : t \in {Mut(Bool), Ref(Num), T("?c", <<>>)}}
    \cup {<<Ref(T("?b", <<>>)), T("?a", <<>>)>>, <<Bool, T("?c", <<>>)>>, <<Never, Num>>,
          <<T("?a", <<>>), Never>>}
    \cup {<<Output(T("?a", <<>>)), Num>>, <<Bool, Output(T("?b", <<>>))>>,
          <<T("?c", <<>>), Output(T("?b", <<>>))>>}

\* Declarations of structs and enums for Variances, whose types name lifetimes.
L(h, lts, args) == [h |-> h, lts |-> lts, args |-> args]
V(p) == L(p, <<>>, <<>>)
Byte == L("u8", <<>>, <<>>)
RefIn(lt, t) == L("&", <<lt>>, <<t>>)
MutIn(lt, t) == L("&mut", <<lt>>, <<t>>)
Ptr(t) == L("*mut", <<>>, <<t>>)
Both(s, t) == L("tuple", <<>>, <<s, t>>)
Slice(t) == L("slice", <<>>, <<t>>)
Dyn(lt) == L("dyn", <<lt>>, <<>>)
OutputOf(t) == L("proj", <<>>, <<t>>)
FnPtr(s, t) == L("fn", <<>>, <<s, t>>)

\* The nodes of a type that stands at the end of a way.
RECURSIVE NodesOf(_, _)
NodesOf(t, way) ==
    {[h |-> t.h, lts |-> t.lts, way |-> way]}
    \cup UNION {NodesOf(t.args[i], Append(way, <<t.h, "type", i>>)) : i \in DOMAIN t.args}

D(name, lps, tps, fields) ==
    [name |-> name, lps |-> lps, tps |-> tps,
     fields |-> [i \in DOMAIN fields |-> NodesOf(fields[i], <<>>)]]

Box == D("Box", <<>>, <<"T">>, <<Ptr(V("T"))>>)
View == D("View", <<"'a">>, <<"T">>, <<RefIn("'a", Slice(V("T")))>>)

MCTables == {
    \* References to references, and a list that boxes its rest.
    <<Box, View,
      D("Hold", <<"'a", "'b">>, <<"T", "U">>,
        <<MutIn("'a", RefIn("'b", V("T"))), L("View", <<"'b">>, <<V("U")>>)>>),
      D("List", <<>>, <<"T">>, <<Both(V("T"), L("Box", <<>>, <<L("List", <<>>, <<V("T")>>)>>))>>)>>,
    \* Three types that turn their parameters, one of which is pinned.
    <<D("A", <<"'a", "'b">>, <<"T", "U", "W">>,
        <<RefIn("'a", L("B", <<"'b", "'a">>, <<V("U"), V("W"), V("T")>>))>>),
      D("B", <<"'a", "'b">>, <<"T", "U", "W">>,
        <<RefIn("'b", L("C", <<"'a", "'b">>, <<V("U"), V("W"), V("T")>>))>>),
      D("C", <<"'a", "'b">>, <<"T", "U", "W">>,
        <<RefIn("'a", L("A", <<"'a", "'b">>, <<V("T"), V("U"), V("W")>>)), RefIn("'b", V("W")),
          MutIn("'a", L("View", <<"'b">>, <<V("U")>>))>>),
      View>>,
    \* The same turn with nothing that pins.
    <<D("A", <<>>, <<"T", "U">>, <<L("B", <<>>, <<V("U"), V("T")>>)>>),
      D("B", <<>>, <<"T", "U">>, <<L("A", <<>>, <<V("T"), V("U")>>), Both(V("T"), V("U"))>>)>>,
    \* A chain whose end is declared last, against the order of the visits.
    <<D("A", <<"'a">>, <<"T">>, <<L("B", <<"'a">>, <<V("T")>>)>>),
      D("B", <<"'a">>, <<"T">>, <<L("C", <<"'a">>, <<V("T")>>), Dyn("'a")>>),
      D("C", <<"'a">>, <<"T">>, <<L("E", <<"'a">>, <<Both(V("T"), Byte)>>)>>),
      D("E", <<"'a">>, <<"T">>, <<L("Box", <<>>, <<RefIn("'a", V("T"))>>)>>),
      Box>>,
    \* Projections, function pointers, and a parameter nobody mentions.
    <<D("A", <<"'a">>, <<"T", "U">>, <<OutputOf(V("T")), RefIn("'static", V("U"))>>),
      D("B", <<"'a", "'b">>, <<"T", "U", "W">>,
        <<FnPtr(V("T"), Byte), L("A", <<"'b">>, <<V("W"), V("U")>>), Dyn("'a")>>)>>,
    \* More arguments than a type has parameters, and a type of no table.
    <<D("A", <<>>, <<"T", "U", "W">>,
        <<L("B", <<>>, <<V("T"), V("U")>>), L("Gone", <<>>, <<V("W")>>)>>),
      D("B", <<>>, <<"T">>, <<V("T")>>)>>}

\* Functions that make a closure. The body of f is any two of the statements
\* below and a sum of all it may have captured, so that a name is shadowed,
\* mutated or captured again in every order.
E(k, args) == [k |-> k, args |-> args]
Var(name) == E("Var", <<>>) @@ [name |-> name]
I(n) == E("Int", <<>>) @@ [n |-> n]
SId == E("Field", <<Var("s")>>) @@ [name |-> "id"]
Plus(a, b) == E("Add", <<a, b>>)
Set(l, r) == E("Assign", <<l, r>>)
AddTo(l, r) == E("AddAssign", <<l, r>>)
Call(f, args) == E("Call", args) @@ [name |-> f]
Note(e) == Call("note", <<e>>)
Bump(l) == Call("bump", <<E("BorrowMut", <<l>>)>>)
Meth(f, family, args) == E("MethodCall", <<Var(f)>> \o args) @@ [family |-> family]
Clo(id, params, body) == E("Closure", <<body>>) @@ [id |-> id, pats |-> params, isMove |-> FALSE]
Move(c) == [c EXCEPT !.isMove = TRUE]

Pt(k, subs) == [k |-> k, subs |-> subs]
AnyPat == Pt("Wildcard", <<>>)
N(name) == Pt("Binding", <<>>) @@ [name |-> name]
IntPat(n) == Pt("LitInt", <<>>) @@ [n |-> n]
AtPat(name, p) == Pt("At", <<p>>) @@ [name |-> name]
TuplePat(p, q) == Pt("Tuple", <<p, q>>)
EitherPat(p, q) == Pt("Or", <<p, q>>)

\* A statement that is no let binds nothing.
Let(p, e) == [pat |-> p, e |-> e]
Do(e) == Let(AnyPat, e)
Block(stmts) ==
    E("Block", [i \in DOMAIN stmts |-> stmts[i].e])
        @@ [pats |-> [i \in DOMAIN stmts |-> stmts[i].pat]]
Arms(e, arms) ==     \* arms <<pattern, guard, body>>
    E("Match", <<e>> \o [i \in 1 .. 2 * Len(arms) |-> 
                                                 arms[(i + 1) \div 2][IF i % 2 = 1 THEN 2 ELSE 3]])
        @@ [pats |-> [i \in DOMAIN arms |-> arms[i][1]]]
IfLet(p, e, a, b) == E("IfLet", <<e, a, b>>) @@ [pats |-> <<p>>]
For(p, n, body) == E("For", <<n, body>>) @@ [pats |-> <<p>>]
TupleOf(a, b) == E("Tuple", <<a, b>>)

NewS(e) == E("Struct", <<e>>) @@ [name |-> "id"]

x == Var("x")   y == Var("y")   z == Var("z")   a == Var("a")

\* The closures inside take their ids from id.
Statements(id) == {
    <<Do(Note(x))>>,
    <<Do(Set(x, Plus(y, a)))>>,
    <<Do(AddTo(x, I(2)))>>,
    <<Do(Set(SId, Plus(SId, a)))>>,
    <<Do(Bump(y))>>,
    <<Let(N("x"), Plus(x, I(1)))>>,
    <<Let(TuplePat(N("y"), N("x")), TupleOf(x, y))>>,
    <<Let(N("s"), NewS(y))>>,
    <<Do(Block(<<Let(N("x"), I(7)), Do(AddTo(x, y)), Do(Note(x))>>))>>,
    <<Do(Arms(TupleOf(x, SId), <<
        <<TuplePat(IntPat(1), N("y")), Plus(y, I(-3)), Note(y)>>,
        <<AtPat("x", TuplePat(N("y"), AnyPat)), I(0), Note(y)>>,
        <<EitherPat(TuplePat(N("x"), IntPat(3)), TuplePat(AnyPat, N("x"))), I(1),
          AddTo(y, x)>>>>))>>,
    <<Do(IfLet(AtPat("x", EitherPat(IntPat(1), IntPat(2))), y, Note(x), Set(y, x)))>>,
    <<Do(For(N("x"), x, AddTo(y, x)))>>,
    <<Do(E("If", <<a, AddTo(x, I(5)), I(0)>>))>>,
    \* let g = |x| x + y; note(g(1));
    <<Let(N("g"), Clo(id, <<N("x")>>, Plus(x, y))), Do(Note(Call("g", <<I(1)>>)))>>,
    \* let mut g = |(x, b)| { y += x; s.id += b }; g.call_mut(((1, 2),));
    <<Let(N("g"), Clo(id, <<TuplePat(N("x"), N("b"))>>,
                      Block(<<Do(AddTo(y, x)), Do(AddTo(SId, Var("b")))>>))),
      Do(Meth("g", "FnMut", <<TupleOf(I(1), I(2))>>)),
      Do(Meth("g", "FnOnce", <<TupleOf(I(2), I(0))>>))>>,
    \* let g = move || { let y = x; x += y; x }; note(g.call_once(()));
    <<Let(N("g"), Move(Clo(id, <<>>, Block(<<Let(N("y"), x), Do(AddTo(x, y)), Do(x)>>)))),
      Do(Note(Meth("g", "FnOnce", <<>>)))>>,
    \* let g = || { let k = |y| x + y + s.id; k(a) }; note(g());
    <<Let(N("g"), Clo(id, <<>>, Block(<<
        Let(N("k"), Clo(id + 1, <<N("y")>>, Plus(Plus(x, y), SId))), Do(Call("k", <<a>>))>>))),
      Do(Note(Call("g", <<>>)))>>,
    \* h and m are captured: note(h.call((x,))), and note(h(x)), which is
    \* refused, and note(m.call_mut((a,))).
    <<Do(Note(Meth("h", "Fn", <<x>>)))>>,
    <<Do(Note(Call("h", <<x>>)))>>,
    <<Do(Note(Meth("m", "FnMut", <<a>>)))>> }

\* let mut x = 1; let mut y = 2; let mut s = S { id: 3 }; let mut z = 0;
\* let h = |x| x + 10; let mut m = |b| { z += b; z }; let mut f = |a| { .. };
Function(f) ==
    Block(<<Let(N("x"), I(1)), Let(N("y"), I(2)), Let(N("s"), NewS(I(3))), Let(N("z"), I(0)),
            Let(N("h"), Clo(1, <<N("x")>>, Plus(x, I(10)))),
            Let(N("m"), Clo(3, <<N("b")>>, Block(<<Do(AddTo(z, Var("b"))), Do(z)>>))),
            Let(N("f"), f)>>)
Made(p, q) == Clo(2, <<N("a")>>, Block(p \o q \o <<Do(Plus(Plus(x, y), SId))>>))

MCSources ==
    LET made == {Made(p, q) : p \in Statements(10), q \in Statements(20)}
    IN {Function(c) : c \in made} \cup {Function(Move(c)) : c \in made}
=============================================================================
