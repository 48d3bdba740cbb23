----------------------------- MODULE Reference ------------------------------
(* What a program means: an evaluator of the typed source that knows nothing *)
(* of wasm, frames or flags. It is the specification the emitted code is     *)
(* held to (Backend), not a model of code of the repository; its rules are   *)
(* Rust's: operands from left to right, a moved binding is not dropped, the  *)
(* others are dropped in reverse order when their scope is left, however it  *)
(* is left, and a type's own drop comes before that of its parts.            *)
(*                                                                           *)
(* A value is a number, an aggregate, a reference [loc, path] to a part of a *)
(* location, or a function. The state s holds the value of every location,   *)
(* the locations alive, the names in scope, the calls observed so far, in    *)
(* `out` the last result and in `ctl` how control is leaving: "go", "break", *)
(* "continue", "return" or "panic".                                          *)
EXTENDS RTypes

CONSTANTS Funs, Observed, WideBits

Value(k, n, parts, at, f) == [k |-> k, n |-> n, parts |-> parts, at |-> at, f |-> f]
NumV(n) == Value("num", n, <<>>, <<>>, <<>>)
BoolV(b) == NumV(IF b THEN 1 ELSE 0)
AggV(disc, parts) == Value("agg", disc, parts, <<>>, <<>>)
RefV(loc, path) == Value("ref", 0, <<>>, [loc |-> loc, path |-> path], <<>>)
FnV(f) == Value("fn", 0, <<>>, <<>>, f)
UnitV == AggV(0, <<>>)

RECURSIVE PartAt(_, _)
PartAt(v, path) == IF path = <<>> THEN v ELSE PartAt(v.parts[Head(path)], Tail(path))
RECURSIVE WithPart(_, _, _)
WithPart(v, path, w) ==
    IF path = <<>> THEN w
    ELSE [v EXCEPT !.parts[Head(path)] = WithPart(@, Tail(path), w)]

ReadAt(s, at) == PartAt(s.store[at.loc], at.path)
WriteAt(s, at, v) == [s EXCEPT !.store[at.loc] = WithPart(@, at.path, v),
                               !.live = IF at.path = <<>> THEN @ \cup {at.loc} ELSE @]

Yield(s, v) == [s EXCEPT !.out = v]
Leaves(s, ctl, label) == [s EXCEPT !.ctl = ctl, !.label = label]
TypeIn(s, t) == SubstituteRType(t, s.env)
Types(s, ts) == [i \in DOMAIN ts |-> TypeIn(s, ts[i])]

Locate(s, v) == [s EXCEPT !.store = Append(@, v), !.out = RefV(Len(s.store) + 1, <<>>)]
\* A new name with a value, or without one.
Declare(s, name, t, v) ==
    [s EXCEPT !.store = Append(@, v), !.live = @ \cup {Len(s.store) + 1},
              !.scope = Append(@, [name |-> name, loc |-> Len(s.store) + 1, ty |-> t])]
DeclareUninit(s, name, t) ==
    LET d == Declare(s, name, t, UnitV) IN [d EXCEPT !.live = @ \ {Len(d.store)}]

LocOf(s, name) ==
    s.scope[LargestOf({i \in DOMAIN s.scope : s.scope[i].name = name})].loc

-----------------------------------------------------------------------------
(* Integers *)

SignedNames == {"i8", "i16", "i32", "i64", "i128", "isize"}
WidthOf(h) == CASE h \in {"u8", "i8"} -> 8 [] h \in {"u16", "i16"} -> 16
                [] h \in {"u64", "i64"} -> WideBits [] h \in {"u128", "i128"} -> 2 * WideBits
                [] OTHER -> 0
\* The value a type holds; 32-bit ones are kept small by the programs.
Wrap(h, n) ==
    LET range == 2 ^ WidthOf(h)
    IN  IF WidthOf(h) = 0 THEN n
        ELSE IF h \in SignedNames /\ n % range >= range \div 2 THEN (n % range) - range
        ELSE n % range

Size(n) == IF n < 0 THEN -n ELSE n
Divided(a, b) == (IF (a < 0) = (b < 0) THEN 1 ELSE -1) * (Size(a) \div Size(b))

Operate(h, op, a, b) ==
    CASE op = "add" -> NumV(Wrap(h, a + b))
      [] op = "sub" -> NumV(Wrap(h, a - b))
      [] op = "mul" -> NumV(Wrap(h, a * b))
      [] op = "div" -> NumV(Wrap(h, Divided(a, b)))
      [] op = "rem" -> NumV(a - b * Divided(a, b))
      [] op = "and" -> BoolV(a = 1 /\ b = 1)
      [] op = "or" -> BoolV(a = 1 \/ b = 1)
      [] op = "eq" -> BoolV(a = b)
      [] op = "ne" -> BoolV(a # b)
      [] op = "lt" -> BoolV(a < b)
      [] op = "le" -> BoolV(a <= b)
      [] op = "gt" -> BoolV(a > b)
      [] op = "ge" -> BoolV(a >= b)

\* The arguments are values already; a string is worth its length.
Builtin(s, e, vs) ==
    CASE Len(e.name) = 2 /\ e.name[2] = "not" -> Yield(s, BoolV(vs[1].n = 0))
      [] Len(e.name) = 2 /\ e.name[2] \in {"div", "rem"} /\ vs[2].n = 0 -> Leaves(s, "panic", "")
      [] Len(e.name) = 2 /\ e.name[2] # "not" /\ ~(e.name[2] \in {"div", "rem"} /\ vs[2].n = 0) ->
            Yield(s, Operate(e.name[1], e.name[2], vs[1].n, vs[2].n))
      [] e.name[1] = "size_of" -> Yield(s, NumV(ByteSizeOf(TypeIn(s, e.targs[1]))))
      [] e.name[1] = "alloc" -> Locate(s, UnitV)
      [] e.name[1] \in {"cast", "str_len"} -> Yield(s, vs[1])
      [] OTHER -> Yield(s, UnitV)

-----------------------------------------------------------------------------
(* Patterns: the names a value gives, as a sequence of bindings, and whether *)
(* it matches at all.                                                        *)

Missed == [ok |-> FALSE, binds |-> <<>>]
Hit(binds) == [ok |-> TRUE, binds |-> binds]
If(b) == IF b THEN Hit(<<>>) ELSE Missed
Step(at, i) == [at EXCEPT !.path = Append(@, i)]

Named(pat, t, at, v, byRef) ==
    [name |-> pat.name, ty |-> IF byRef THEN RefTo(t, FALSE) ELSE t,
     value |-> IF byRef THEN RefV(at.loc, at.path) ELSE v]

RECURSIVE Matches(_, _, _, _)
RECURSIVE MatchesAll(_, _)
MatchesAll(s, subs) ==
    IF subs = <<>> THEN Hit(<<>>)
    ELSE LET h == Matches(s, Head(subs).pat, Head(subs).ty, Head(subs).at)
             t == MatchesAll(s, Tail(subs))
         IN  IF h.ok /\ t.ok THEN Hit(h.binds \o t.binds) ELSE Missed

Matches(s, pat, t, at) ==
    LET v == ReadAt(s, at)
        byRef == pat.byRef \/ pat.override
        parts == IF IsEnum(t) THEN PayloadOf(t, v.n) ELSE Parts(t)
        Elem(i) == [pat |-> pat.elems[i], ty |-> parts[i].ty, at |-> Step(at, i)]
        Field(i) == LET k == CHOOSE j \in DOMAIN parts : parts[j].name = pat.fields[i].name
                    IN  [pat |-> pat.fields[i].pattern, ty |-> parts[k].ty, at |-> Step(at, k)]
        inner == Matches(s, pat.inner, t, at)
    IN  CASE pat.peel > 0 -> Matches(s, [pat EXCEPT !.peel = @ - 1], Pointee(t), v.at)
          [] pat.peel = 0 /\ pat.k = "Wildcard" -> Hit(<<>>)
          [] pat.peel = 0 /\ pat.k = "Binding" -> Hit(<<Named(pat, t, at, v, byRef)>>)
          [] pat.peel = 0 /\ pat.k = "At" ->
                IF inner.ok THEN Hit(<<Named(pat, t, at, v, FALSE)>> \o inner.binds) ELSE Missed
          [] pat.peel = 0 /\ pat.k = "LitInt" -> If(v.n = pat.n)
          [] pat.peel = 0 /\ pat.k = "LitBool" -> If((v.n = 1) = pat.value)
          [] pat.peel = 0 /\ pat.k = "Range" -> If(v.n \in pat.lo .. pat.hi)
          [] pat.peel = 0 /\ pat.k = "Ref" -> Matches(s, pat.inner, Pointee(t), v.at)
          [] pat.peel = 0 /\ pat.k = "Or" ->
                LET hits == {i \in DOMAIN pat.alts : Matches(s, pat.alts[i], t, at).ok}
                IN  IF hits = {} THEN Missed
                    ELSE Matches(s, pat.alts[CHOOSE i \in hits : \A j \in hits : i <= j], t, at)
          [] pat.peel = 0 /\ pat.k = "Tuple" -> MatchesAll(s, [i \in DOMAIN pat.elems |-> Elem(i)])
          [] OTHER ->
                IF IsEnum(t) /\ Enums[t.h].variants[v.n + 1].name # pat.name THEN Missed
                ELSE IF pat.k = "VariantTuple"
                THEN MatchesAll(s, [i \in DOMAIN pat.elems |-> Elem(i)])
                ELSE MatchesAll(s, [i \in DOMAIN pat.fields |-> Field(i)])

RECURSIVE DeclareAll(_, _)
DeclareAll(s, binds) ==
    IF binds = <<>> THEN s
    ELSE DeclareAll(Declare(s, Head(binds).name, Head(binds).ty, Head(binds).value), Tail(binds))

-----------------------------------------------------------------------------
(* Evaluation: Eval(how, s, x). *)

RECURSIVE Eval(_, _, _)

\* The instance a resolution means: the function and its type arguments.
Target(s, res) ==
    LET recv == PeelRef(TypeIn(s, res.recv))
        r == SolveImpl(res.trait, Types(s, res.targs), recv, 0)
        f == Impls[r.idx].methods[res.method]
        own == Types(s, res.margs)
        n == Funs[f].implParams
    IN  IF res.k # "Dispatch"
        THEN [fn |-> res.fn, env |-> StructEnv(Funs[res.fn].tparams, Types(s, res.targs))]
        ELSE [fn |-> f, env |-> StructEnv(Funs[f].tparams,
                                          [i \in 1 .. n |-> r.subst[Funs[f].tparams[i]]] \o own)]

TraitMethod(s, trait, targs, t, method) ==
    LET r == SolveImpl(trait, targs, t, 0)
        f == Impls[r.idx].methods[method]
    IN  [fn |-> f, env |-> r.subst]

Numbers(vs) == [i \in DOMAIN vs |-> vs[i].n]

RECURSIVE DeclareArgs(_, _, _)
DeclareArgs(s, ps, vs) ==
    IF ps = <<>> THEN s
    ELSE DeclareArgs(Declare(s, Head(ps).name, TypeIn(s, Head(ps).ty), Head(vs)),
                     Tail(ps), Tail(vs))

\* A call: its own scope, whose names are dropped when it is left.
Invoke(s, f, env, vs) ==
    LET inside == [s EXCEPT !.scope = <<>>, !.env = env,
                            !.trace = IF f \in Observed THEN Append(@, <<f, Numbers(vs)>>) ELSE @]
        ran == Eval("block", DeclareArgs(inside, Funs[f].params, vs), Funs[f].body)
        left == Eval("leave", ran, 0)
    IN  [left EXCEPT !.scope = s.scope, !.env = s.env,
                     !.ctl = IF @ = "return" THEN "go" ELSE @]

\* The names declared since the mark are dropped, the last first, and their
\* result kept.
LeaveScope(s, mark) ==
    LET b == s.scope[Len(s.scope)]
        rest == [s EXCEPT !.scope = SubSeq(@, 1, Len(@) - 1), !.live = @ \ {b.loc}]
        dropped == Eval("drop", [s EXCEPT !.ctl = "go"], [ty |-> b.ty, at |-> RefV(b.loc, <<>>).at])
        after == [dropped EXCEPT !.scope = rest.scope, !.live = @ \ {b.loc}, !.ctl = s.ctl,
                  !.out = s.out]
    IN  IF s.ctl = "panic" \/ Len(s.scope) = mark THEN s
        ELSE Eval("leave", IF b.loc \in s.live /\ NeedsDrop(b.ty) THEN after ELSE rest, mark)

\* The type's own drop, then its parts.
DropAt(s, x) ==
    LET m == TraitMethod(s, "Drop", <<>>, x.ty, "drop")
        own == IF IsDrop(x.ty) THEN Invoke(s, m.fn, m.env, <<RefV(x.at.loc, x.at.path)>>) ELSE s
        v == ReadAt(own, x.at)
        parts == IF IsEnum(x.ty) THEN PayloadOf(x.ty, v.n)
                 ELSE IF IsStruct(x.ty) \/ IsTuple(x.ty) THEN Parts(x.ty) ELSE <<>>
    IN  Eval("drops", own, [i \in DOMAIN parts |-> [ty |-> parts[i].ty, at |-> Step(x.at, i)]])

DropsOf(s, xs) ==
    IF xs = <<>> THEN s
    ELSE Eval("drops", IF NeedsDrop(Head(xs).ty) THEN Eval("drop", s, Head(xs)) ELSE s, Tail(xs))

\* The values of expressions, from left to right.
EvalList(s, es) ==
    IF es = <<>> THEN Yield(s, <<>>)
    ELSE LET h == Eval("expr", s, Head(es))
             t == Eval("list", h, Tail(es))
         IN  IF h.ctl # "go" THEN h ELSE IF t.ctl # "go" THEN t ELSE Yield(t, <<h.out>> \o t.out)

EvalBlock(s, b) ==
    LET ss == Eval("stmts", s, b.stmts)
        v == IF ss.ctl # "go" THEN ss
             ELSE IF b.tail = <<>> THEN Yield(ss, UnitV) ELSE Eval("expr", ss, b.tail[1])
    IN  Eval("leave", v, Len(s.scope))

EvalStmts(s, ss) ==
    IF ss = <<>> \/ s.ctl # "go" THEN s ELSE Eval("stmts", Eval("stmt", s, Head(ss)), Tail(ss))

EvalLet(s, x) ==
    LET v == Eval("expr", s, x.value[1])
        at == Locate(v, v.out)
        m == Matches(at, x.pattern, TypeIn(s, x.value[1].ty), at.out.at)
    IN  IF v.ctl # "go" THEN v
        ELSE IF m.ok THEN DeclareAll(at, m.binds) ELSE Eval("block", at, x.else[1])

EvalAssign(s, x) ==
    LET p == Eval("place", s, x.lhs)
        v == Eval("expr", p, x.rhs)
    IN  IF v.ctl # "go" THEN v ELSE Yield(WriteAt(v, p.out.at, v.out), UnitV)

EvalStmt(s, x) ==
    CASE x.k = "Let" /\ x.value = <<>> -> DeclareUninit(s, x.pattern.name, TypeIn(s, x.pattern.ty))
      [] x.k = "Let" /\ x.value # <<>> -> EvalLet(s, x)
      [] x.k = "Assign" -> EvalAssign(s, x)
      [] OTHER -> Eval("expr", s, x.e)

PlaceKinds == {"Var", "FieldAccess", "TupleIndex", "Deref", "Index"}
IsPlace(e) == e.k \in PlaceKinds /\ ~(e.k = "Var" /\ e.use.k # "local")

\* A reference to what a place denotes; any other value gets a location.
EvalPart(s, e) ==
    LET b == Eval("place", s, e.base)
        t == TypeIn(s, e.base.ty)
        direct == \E i \in DOMAIN Parts(PeelRef(t)) : Parts(PeelRef(t))[i].name = e.part
        m == TraitMethod(b, "Deref", <<>>, t, "deref")
        target == IF direct THEN PeelRef(t) ELSE FindAssocBinding("Deref", t, "Target")
        base == IF ~direct THEN Invoke(b, m.fn, m.env, <<b.out>>)
                ELSE IF IsRef(t) THEN Yield(b, ReadAt(b, b.out.at)) ELSE b
        k == CHOOSE i \in DOMAIN Parts(target) : Parts(target)[i].name = e.part
    IN  IF b.ctl # "go" THEN b
        ELSE Yield(base, RefV(base.out.at.loc, Append(base.out.at.path, k)))

EvalDeref(s, e) ==
    LET t == TypeIn(s, e.inner.ty)
        p == Eval("place", s, e.inner)
        m == TraitMethod(p, "Deref", <<>>, t, "deref")
    IN  IF IsPointer(t) THEN Eval("expr", s, e.inner) ELSE Invoke(p, m.fn, m.env, <<p.out>>)

EvalIndex(s, e) ==
    LET t == TypeIn(s, e.base.ty)
        b == IF IsRef(t) THEN Eval("expr", s, e.base) ELSE Eval("place", s, e.base)
        i == Eval("expr", b, e.index)
        m == TraitMethod(i, "Index", <<TypeIn(s, e.index.ty)>>, PeelRef(t), "index")
    IN  IF i.ctl # "go" THEN i ELSE Invoke(i, m.fn, m.env, <<b.out, i.out>>)

EvalPlace(s, e) ==
    LET v == Eval("expr", s, e)
    IN  CASE IsPlace(e) /\ e.k = "Var" -> Yield(s, RefV(LocOf(s, e.name), <<>>))
          [] e.k \in {"FieldAccess", "TupleIndex"} -> EvalPart(s, e)
          [] e.k = "Deref" -> EvalDeref(s, e)
          [] e.k = "Index" -> EvalIndex(s, e)
          [] OTHER -> IF v.ctl # "go" THEN v ELSE Locate(v, v.out)

\* Reading a whole binding that is dropped at its end moves it.
ReadPlace(s, e) ==
    LET p == Eval("place", s, e)
        moved == e.k = "Var" /\ NeedsDrop(TypeIn(s, e.ty))
    IN  IF p.ctl # "go" THEN p
        ELSE [p EXCEPT !.out = ReadAt(p, p.out.at),
                       !.live = IF moved THEN @ \ {p.out.at.loc} ELSE @]

EvalCall(s, e) ==
    LET vs == Eval("list", s, e.args)
        t == Target(s, e.res)
        callee == ReadAt(vs, [loc |-> LocOf(s, e.res.name), path |-> <<>>])
    IN  IF vs.ctl # "go" THEN vs
        ELSE CASE e.res.k = "Variant" -> Yield(vs, AggV(e.res.disc, vs.out))
               [] e.res.k = "Indirect" -> Invoke(vs, callee.f, <<>>, vs.out)
               [] OTHER -> Invoke(vs, t.fn, t.env, vs.out)

EvalMethod(s, e) ==
    LET recv == Eval(IF e.res.adjust \in {"ByValue", "ByRef"} THEN "expr" ELSE "place", s, e.recv)
        vs == Eval("list", recv, e.args)
        t == Target(s, e.res)
    IN  IF recv.ctl # "go" THEN recv ELSE IF vs.ctl # "go" THEN vs
        ELSE Invoke(vs, t.fn, t.env, <<recv.out>> \o vs.out)

EvalStruct(s, e) ==
    LET t == TypeIn(s, e.ty)
        decl == IF IsEnum(t) THEN PayloadOf(t, e.disc) ELSE FieldsOf(t)
        Given(name) == e.fields[CHOOSE k \in DOMAIN e.fields : e.fields[k].name = name].value
        vs == Eval("list", s, [i \in DOMAIN decl |-> Given(decl[i].name)])
    IN  IF vs.ctl # "go" THEN vs ELSE Yield(vs, AggV(IF IsEnum(t) THEN e.disc ELSE 0, vs.out))

\* The first arm that matches and whose guard holds.
EvalArms(s, x) ==
    LET arm == Head(x.arms)
        m == Matches(s, arm.pattern, x.ty, x.at)
        bound == DeclareAll(s, m.binds)
        guard == Eval("list", bound, arm.guard)
        taken == m.ok /\ (arm.guard = <<>> \/ guard.out[1].n = 1)
        next == [x EXCEPT !.arms = Tail(@)]
    IN  IF ~m.ok THEN Eval("arms", s, next)
        ELSE IF ~taken THEN Eval("arms", [guard EXCEPT !.scope = s.scope], next)
        ELSE Eval("leave", Eval("expr", IF arm.guard = <<>> THEN bound ELSE guard, arm.body),
                  Len(s.scope))

Scrutinise(s, e, arms) ==
    LET p == Eval("place", s, e)
    IN  IF p.ctl # "go" THEN p
        ELSE Eval("arms", p, [arms |-> arms, ty |-> TypeIn(s, e.ty), at |-> p.out.at])

ArmOf(pat, body) == [pattern |-> pat, guard |-> <<>>, body |-> body]
InBraces(b, t) == [k |-> "Block", ty |-> t, block |-> b]
Anything == [k |-> "Wildcard", id |-> 0, peel |-> 0, override |-> FALSE, byRef |-> FALSE]

\* A loop goes on until its condition fails or it is left; `continue` and
\* `break` of an outer label leave it too.
Caught(s, label) == s.ctl # "go" /\ s.label \in {"", label}
EvalWhile(s, e) ==
    LET c == Eval("expr", s, e.cond)
        b == Eval("block", c, e.body)
        again == Eval("expr", Leaves(b, "go", ""), e)
    IN  IF c.ctl # "go" THEN c
        ELSE IF c.out.n = 0 THEN Yield(c, UnitV)
        ELSE CASE b.ctl = "go" \/ (b.ctl = "continue" /\ Caught(b, e.label)) -> again
               [] b.ctl = "break" /\ Caught(b, e.label) -> Yield(Leaves(b, "go", ""), UnitV)
               [] OTHER -> b

\* Each turn asks the iterator for its next item.
EvalFor(s, x) ==
    LET t == x.ty
        m == TraitMethod(s, "Iterator", <<>>, t, "next")
        next == Invoke(s, m.fn, m.env, <<RefV(x.loc, <<>>)>>)
        item == Locate(next, next.out.parts[1])
        found == Matches(item, x.e.pattern, FindAssocBinding("Iterator", t, "Item"), item.out.at)
        body == Eval("block", DeclareAll(item, found.binds), x.e.body)
        b == Eval("leave", body, Len(s.scope))
        again == Eval("turn", Leaves(b, "go", ""), x)
    IN  IF Enums["Option"].variants[next.out.n + 1].name = "None" THEN Yield(next, UnitV)
        ELSE CASE b.ctl = "go" \/ (b.ctl = "continue" /\ Caught(b, x.e.label)) -> again
               [] b.ctl = "break" /\ Caught(b, x.e.label) -> Yield(Leaves(b, "go", ""), UnitV)
               [] OTHER -> b

StartFor(s, e) ==
    LET it == Eval("expr", s, e.iter)
        t == TypeIn(s, e.iter.ty)
        d == Declare(it, "", t, it.out)
    IN  IF it.ctl # "go" THEN it
        ELSE Eval("leave", Eval("turn", d, [e |-> e, ty |-> t, loc |-> Len(d.store)]), Len(s.scope))

\* The value of Ok, or the function returns what the Err carries in its own.
EvalTry(s, e) ==
    LET v == Eval("expr", s, e.inner)
        name == Enums[TypeIn(s, e.inner.ty).h].variants[v.out.n + 1].name
    IN  IF v.ctl # "go" THEN v
        ELSE IF name = "Ok" THEN Yield(v, v.out.parts[1])
        ELSE Leaves(Yield(v, AggV(v.out.n, v.out.parts)), "return", "")

EvalIf(s, e) ==
    LET c == Eval("expr", s, e.cond)
    IN  IF c.ctl # "go" THEN c ELSE Eval("block", c, IF c.out.n = 1 THEN e.then ELSE e.else)

EvalReturn(s, e) ==
    LET v == Eval("list", s, e.args)
    IN  IF v.ctl # "go" THEN v
        ELSE Leaves(Yield(v, IF e.args = <<>> THEN UnitV ELSE v.out[1]), "return", "")

EvalOperands(s, e) ==
    LET vs == Eval("list", s, e.args)
    IN  IF vs.ctl # "go" THEN vs
        ELSE CASE e.k = "Tuple" -> Yield(vs, AggV(0, vs.out))
               [] e.k = "Builtin" -> Builtin(vs, e, vs.out)
               [] OTHER -> Leaves(vs, "panic", "")

EvalLit(s, lit) ==
    Yield(s, CASE lit.k = "Bool" -> BoolV(lit.b)
               [] lit.k = "Str" -> NumV(lit.len)
               [] OTHER -> NumV(lit.n))

EvalCast(s, e) ==
    LET v == Eval("expr", s, e.inner)
        t == TypeIn(s, e.ty)
    IN  IF v.ctl # "go" \/ IsPointer(t) THEN v ELSE Yield(v, NumV(Wrap(t.h, v.out.n)))

EvalExpr(s, e) ==
    CASE e.k = "Lit" -> EvalLit(s, e.lit)
      [] e.k = "Var" /\ e.use.k = "const" -> EvalLit(s, e.use.lit)
      [] e.k = "Var" /\ e.use.k = "fn" -> Yield(s, FnV(e.use.fn))
      [] IsPlace(e) -> ReadPlace(s, e)
      [] e.k = "Block" -> Eval("block", s, e.block)
      [] e.k = "If" -> EvalIf(s, e)
      [] e.k = "While" -> EvalWhile(s, e)
      [] e.k = "For" -> StartFor(s, e)
      [] e.k = "Borrow" -> Eval("place", s, e.inner)
      [] e.k \in {"Tuple", "Builtin", "MacroCall"} -> EvalOperands(s, e)
      [] e.k \in {"Break", "Continue"} ->
            Leaves(s, IF e.k = "Break" THEN "break" ELSE "continue", e.label)
      [] e.k = "Return" -> EvalReturn(s, e)
      [] e.k = "Cast" -> EvalCast(s, e)
      [] e.k = "Call" -> EvalCall(s, e)
      [] e.k = "MethodCall" -> EvalMethod(s, e)
      [] e.k = "StructLit" -> EvalStruct(s, e)
      [] e.k = "Match" -> Scrutinise(s, e.scrutinee, e.arms)
      [] e.k = "IfLet" ->
            Scrutinise(s, e.scrutinee, <<ArmOf(e.pattern, InBraces(e.then, e.ty)),
                                         ArmOf(Anything, InBraces(e.else, e.ty))>>)
      [] e.k = "Try" -> EvalTry(s, e)

Eval(how, s, x) ==
    CASE how = "expr" -> EvalExpr(s, x)
      [] how = "list" -> EvalList(s, x)
      [] how = "place" -> EvalPlace(s, x)
      [] how = "block" -> EvalBlock(s, x)
      [] how = "stmts" -> EvalStmts(s, x)
      [] how = "stmt" -> EvalStmt(s, x)
      [] how = "arms" -> EvalArms(s, x)
      [] how = "turn" -> EvalFor(s, x)
      [] how = "leave" -> LeaveScope(s, x)
      [] how = "drop" -> DropAt(s, x)
      [] how = "drops" -> DropsOf(s, x)

\* The calls observed in a run of a function without arguments, and how it ends.
Meaning(f) ==
    LET s == Invoke([store |-> <<>>, live |-> {}, scope |-> <<>>, env |-> <<>>, trace |-> <<>>,
                     out |-> <<>>, ctl |-> "go", label |-> ""], f, <<>>, <<>>)
    IN  [seen |-> s.trace, outcome |-> IF s.ctl = "panic" THEN "panicked" ELSE "returned"]
=============================================================================
