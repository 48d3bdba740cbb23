----------------------------- MODULE MonoLower ------------------------------
(* Lowering of a typed body to the mono IR (src/mono.rs, lower_to_mono): the *)
(* types are substituted, every call carries the index of its callee, the    *)
(* derefs the surface leaves out are explicit, and `if`, `while`, `for`,     *)
(* `if let` and `?` have become matches, loops and breaks.                   *)
(*                                                                           *)
(* A lowering context c holds the bindings declared so far, the names in     *)
(* scope, the parameters' types, the intern table, and in `out` the result   *)
(* of the last step; once c.ok is FALSE nothing changes it (the `?` of the   *)
(* source). An optional part is a sequence of at most one element.           *)
EXTENDS Instances

NewCtx(f, env, es, tab) ==
    [ok |-> TRUE, out |-> <<>>, fn |-> f, env |-> env, entries |-> es, table |-> tab,
     locals |-> <<>>, scope |-> <<>>, synth |-> 0]

Out(c, v) == [c EXCEPT !.out = v]
Fail(c, why) == [c EXCEPT !.ok = FALSE, !.out = why]
TyIn(c, t) == SubstituteRType(t, c.env)
TyOf(c, e) == TyIn(c, e.ty)

\* Bindings are numbered from 1 in the order they are declared; `origin` says
\* what declared them and `pat` is the node of a pattern's leaf.
DeclareBinding(c, name, t, origin, pat) ==
    [c EXCEPT !.locals = Append(@, [name |-> name, ty |-> t, origin |-> origin, pat |-> pat]),
              !.scope = Append(@, [name |-> name, id |-> Len(c.locals) + 1]),
              !.out = Len(c.locals) + 1]

\* The innermost binding of a name, 0 when there is none.
LookupName(c, name) ==
    LET hits == {i \in DOMAIN c.scope : c.scope[i].name = name}
    IN  IF hits = {} THEN 0 ELSE c.scope[LargestOf(hits)].id

LeaveScope(c, mark) == [c EXCEPT !.scope = SubSeq(@, 1, mark)]
SynthName(c, prefix, k) == "__" \o prefix \o "_" \o ToString(c.synth + k)

\* Nodes of the IR.
Node(k, t) == [k |-> k, ty |-> t]
LitE(t, lit) == [k |-> "Lit", ty |-> t, lit |-> lit]
LocalE(id, t, node) == [k |-> "Local", ty |-> t, id |-> id, node |-> node]
PlaceLoadE(p, t) == [k |-> "PlaceLoad", ty |-> t, place |-> p]
BorrowE(p, t, mutable) == [k |-> "Borrow", ty |-> t, place |-> p, mutable |-> mutable]
BorrowOfValueE(v, t) == [k |-> "BorrowOfValue", ty |-> t, value |-> v]
CallE(idx, args, t) == [k |-> "Call", ty |-> t, idx |-> idx, args |-> args]
MethodE(idx, adjust, recv, args, t) ==
    [k |-> "MethodCall", ty |-> t, idx |-> idx, adjust |-> adjust, recv |-> recv, args |-> args]
VariantE(t, disc, payload) ==
    [k |-> "VariantConstruct", ty |-> t, disc |-> disc, payload |-> payload]
MatchE(scrutinee, arms, t) == [k |-> "Match", ty |-> t, scrutinee |-> scrutinee, arms |-> arms]
LoopE(label, body, t) == [k |-> "Loop", ty |-> t, label |-> label, body |-> body]
BlockE(b, t) == [k |-> "Block", ty |-> t, block |-> b]
BreakE(label) == [k |-> "Break", ty |-> NeverT, label |-> label]
ReturnE(value) == [k |-> "Return", ty |-> NeverT, value |-> value]
BlockOf(stmts, tail) == [stmts |-> stmts, tail |-> tail]
Arm(pat, guard, body) == [pattern |-> pat, guard |-> guard, body |-> body]

LocalP(id, t) == [k |-> "Local", ty |-> t, id |-> id]
FieldP(base, off, t) == [k |-> "Field", ty |-> t, base |-> base, off |-> off]
DerefP(inner, t) == [k |-> "Deref", ty |-> t, inner |-> inner]

-----------------------------------------------------------------------------
(* Patterns *)

PatOf(k) == [k |-> k, id |-> 0, peel |-> 0, override |-> FALSE]
BoolPat(b) == PatOf("LitBool") @@ [value |-> b]
VariantPat(name, elems) == PatOf("VariantTuple") @@ [name |-> name, elems |-> elems]
BindPat(name) == PatOf("Binding") @@ [name |-> name, byRef |-> FALSE]

RECURSIVE WrapRefs(_, _)
WrapRefs(pat, n) ==
    IF n = 0 THEN pat ELSE WrapRefs(PatOf("Ref") @@ [inner |-> pat], n - 1)

\* The match ergonomics typeck decided become explicit: `ref` on the bindings
\* it overrode, and a `&` around every node for each reference it peeled.
RECURSIVE DesugarPattern(_)
DesugarPattern(pat) ==
    WrapRefs(CASE pat.k = "Binding" -> [pat EXCEPT !.byRef = @ \/ pat.override]
               [] pat.k \in {"At", "Ref"} -> [pat EXCEPT !.inner = DesugarPattern(@)]
               [] pat.k \in {"VariantTuple", "Tuple"} ->
                    [pat EXCEPT !.elems = [i \in DOMAIN @ |-> DesugarPattern(@[i])]]
               [] pat.k = "VariantStruct" ->
                    [pat EXCEPT !.fields = [i \in DOMAIN @ |->
                        [@[i] EXCEPT !.pattern = DesugarPattern(@)]]]
               [] pat.k = "Or" -> [pat EXCEPT !.alts = [i \in DOMAIN @ |-> DesugarPattern(@[i])]]
               [] OTHER -> pat,
             pat.peel)

\* The parts of a pattern that may bind names; alternatives bind the same
\* names, so the first speaks for all.
Subpatterns(pat) ==
    CASE pat.k \in {"At", "Ref"} -> <<pat.inner>>
      [] pat.k \in {"VariantTuple", "Tuple"} -> pat.elems
      [] pat.k = "VariantStruct" -> [i \in DOMAIN pat.fields |-> pat.fields[i].pattern]
      [] pat.k = "Or" -> <<pat.alts[1]>>
      [] OTHER -> <<>>

RECURSIVE DeclarePatterns(_, _)
DeclarePatterns(c, pats) ==
    IF pats = <<>> THEN c
    ELSE LET pat == Head(pats)
             d == IF pat.k \in {"Binding", "At"}
                  THEN DeclareBinding(c, pat.name, TyIn(c, pat.ty), "pattern", pat.id)
                  ELSE c
         IN  DeclarePatterns(d, Subpatterns(pat) \o Tail(pats))

-----------------------------------------------------------------------------
(* Callees. The result of a resolution is an index, or 0 with ok FALSE. *)

Found(idx) == [ok |-> TRUE, idx |-> idx]
Missing == [ok |-> FALSE, idx |-> 0]

IdxOfEntry(c, f) == CHOOSE i \in DOMAIN c.entries : c.entries[i] = f

\* A function's own index, or the index of its interned instance.
ResolveInstance(c, f, args) ==
    CASE ~IsTemplate(f) -> Found(IdxOfEntry(c, f))
      [] IsTemplate(f) /\ IsInterned(c.table, f, args) ->
            Found(LookupIdx(c.entries, c.table, f, args))
      [] OTHER -> Missing

\* Next, deref, index: the parameters are the impl's.
ResolveTraitMethod(c, trait, targs, recv, method) ==
    LET r == SolveImpl(trait, targs, recv, 0)
        f == Impls[r.idx].methods[method]
    IN  IF ~HasMethod(r.idx, method) THEN Missing
        ELSE ResolveInstance(c, f, ImplArgs(f, r.subst, Funs[f].implParams))

\* A dispatched call; a receiver that is never reached calls import 0.
ResolveDispatch(c, res) ==
    LET recv == PeelRef(TyIn(c, res.recv))
        r == SolveImpl(res.trait, SubstVec(res.targs, c.env), recv, 0)
        f == Impls[r.idx].methods[res.method]
        own == IF Len(res.margs) = Len(Funs[f].tparams) - Funs[f].implParams
               THEN SubstVec(res.margs, c.env) ELSE <<>>
    IN  CASE recv = NeverT -> Found(0)
          [] recv # NeverT /\ ~HasMethod(r.idx, res.method) -> Missing
          [] OTHER -> ResolveInstance(c, f, ImplArgs(f, r.subst, Funs[f].implParams) \o own)

ResolveCallee(c, res) ==
    CASE res.k = "Dispatch" -> ResolveDispatch(c, res)
      [] OTHER -> ResolveInstance(c, res.fn, SubstVec(res.targs, c.env))

-----------------------------------------------------------------------------
(* Places *)

HasField(t, name) ==
    IsStruct(t) /\ \E i \in DOMAIN Structs[t.h].fields : Structs[t.h].fields[i].name = name

\* A field or an element with its type and its offset from the start.
PartNamed(t, name) ==
    LET parts == Parts(t)
        i == CHOOSE k \in DOMAIN parts : parts[k].name = name
    IN  [ty |-> parts[i].ty, off |-> OffsetIn(parts, i)]

\* Deref::deref(&recv), with the type it points to; <<>> without an impl.
SynthDeref(c, recv) ==
    LET r == ResolveTraitMethod(c, "Deref", <<>>, recv.ty, "deref")
        target == FindAssocBinding("Deref", recv.ty, "Target")
    IN  IF AssocRows("Deref", recv.ty, "Target") = {} \/ ~r.ok
        THEN Fail(c, "no Deref impl or no instance of it")
        ELSE Out(c, <<DerefP(MethodE(r.idx, "BorrowImm", recv, <<>>, RefTo(target, FALSE)),
                             target)>>)

\* One level of auto-deref of a place.
DerefOneLevel(c, p) ==
    CASE IsPointer(p.ty) -> Out(c, <<DerefP(PlaceLoadE(p, p.ty), Pointee(p.ty))>>)
      [] IsStruct(p.ty) -> SynthDeref(c, PlaceLoadE(p, p.ty))
      [] OTHER -> Fail(c, "cannot auto-deref")

\* Auto-deref until the place has the named part.
HasPart(t, name) == HasField(t, name) \/ (IsTuple(t) /\ name \in 0 .. (Len(t.args) - 1))
RECURSIVE AutoDeref(_, _)
AutoDeref(c, name) ==
    IF ~c.ok \/ HasPart(c.out[1].ty, name) THEN c ELSE AutoDeref(DerefOneLevel(c, c.out[1]), name)

PartPlace(c, name) ==
    IF ~c.ok \/ c.out = <<>> THEN c
    ELSE LET d == AutoDeref(c, name)
         IN  IF ~d.ok THEN d
             ELSE LET part == PartNamed(d.out[1].ty, name)
                  IN  Out(d, <<FieldP(d.out[1], part.off, part.ty)>>)

\* A value used as the base of a field becomes a slot that is dereferenced.
PlaceOrTemp(e) ==
    CASE e.k = "PlaceLoad" -> e.place
      [] e.k = "Local" -> LocalP(e.id, e.ty)
      [] OTHER -> DerefP(BorrowOfValueE(e, RefTo(e.ty, FALSE)), e.ty)

-----------------------------------------------------------------------------
(* Expressions: Lower(how, c, x) lowers one piece of a body. *)

RECURSIVE Lower(_, _, _)

LowerList(c, es) ==
    IF es = <<>> THEN Out(c, <<>>)
    ELSE LET h == Lower("expr", c, Head(es))
             t == Lower("list", h, Tail(es))
         IN  IF ~t.ok THEN t ELSE Out(t, <<h.out>> \o t.out)

LowerStmts(c, ss) ==
    IF ss = <<>> THEN Out(c, <<>>)
    ELSE LET h == Lower("stmt", c, Head(ss))
             t == Lower("stmts", h, Tail(ss))
         IN  IF ~t.ok THEN t ELSE Out(t, <<h.out>> \o t.out)

\* A block: its names are gone at its end.
LowerBlock(c, b) ==
    LET ss == Lower("stmts", c, b.stmts)
        tail == Lower("list", ss, b.tail)
    IN  IF ~tail.ok THEN tail
        ELSE LeaveScope(Out(tail, BlockOf(ss.out, tail.out)), Len(c.scope))

SimpleBinding(s) == s.pattern.k = "Binding" /\ ~s.pattern.byRef /\ s.else = <<>>

\* The value is lowered before its names are declared; the else block of a
\* let-else is lowered after them.
LowerLet(c, s) ==
    LET v == Lower("expr", c, s.value[1])
        b == DeclareBinding(v, s.pattern.name, v.out.ty, "let", 0)
        d == DeclarePatterns(v, <<s.pattern>>)
        e == Lower("block", d, s.else[1])
        LetPattern(els) == [k |-> "LetPattern", pattern |-> DesugarPattern(s.pattern),
                            value |-> v.out, else |-> els]
    IN  IF ~v.ok THEN v
        ELSE IF SimpleBinding(s) THEN Out(b, [k |-> "Let", binding |-> b.out, value |-> v.out])
        ELSE IF s.else = <<>> THEN Out(d, LetPattern(<<>>))
        ELSE IF ~e.ok THEN e
        ELSE Out(e, LetPattern(<<e.out>>))

LowerLetUninit(c, s) ==
    LET b == DeclareBinding(c, s.pattern.name, TyIn(c, s.pattern.ty), "let", 0)
    IN  Out(b, [k |-> "LetUninit", binding |-> b.out])

LowerAssign(c, s) ==
    LET p == Lower("place", c, [e |-> s.lhs, mutable |-> TRUE])
        v == Lower("expr", p, s.rhs)
    IN  IF ~p.ok THEN p
        ELSE IF p.out = <<>> THEN Fail(p, "assign LHS isn't a place")
        ELSE IF ~v.ok THEN v
        ELSE Out(v, [k |-> "Assign", place |-> p.out[1], value |-> v.out])

LowerStmt(c, s) ==
    CASE s.k = "Let" /\ s.value = <<>> -> LowerLetUninit(c, s)
      [] s.k = "Let" /\ s.value # <<>> -> LowerLet(c, s)
      [] s.k = "Assign" -> LowerAssign(c, s)
      [] OTHER -> LET e == Lower("expr", c, s.e)
                  IN  IF ~e.ok THEN e ELSE Out(e, [k |-> "Expr", e |-> e.out])

\* A name: a function item, a constant, or the innermost local.
LowerVar(c, e) ==
    LET id == LookupName(c, e.name)
    IN  CASE e.use.k = "fn" ->
            Out(c, Node("FnItemAddr", TyOf(c, e)) @@ [idx |-> IdxOfEntry(c, e.use.fn)])
          [] e.use.k = "const" -> Out(c, LitE(TyOf(c, e), e.use.lit))
          [] e.use.k = "local" /\ id # 0 -> Out(c, LocalE(id, TyOf(c, e), e.id))
          [] OTHER -> Fail(c, "no binding in scope")

BoolArms(then, else) == <<Arm(BoolPat(TRUE), <<>>, then), Arm(BoolPat(FALSE), <<>>, else)>>

\* `if` is a match on its condition.
LowerIf(c, e) ==
    LET cond == Lower("expr", c, e.cond)
        then == Lower("block", cond, e.then)
        else == Lower("block", then, e.else)
        t == TyOf(c, e)
    IN  IF ~else.ok THEN else
        ELSE Out(else, MatchE(cond.out, BoolArms(BlockE(then.out, t), BlockE(else.out, t)), t))

\* `while` is a loop around a match; its break is unlabelled, so it leaves
\* the innermost loop, which is this one.
LowerWhile(c, e) ==
    LET cond == Lower("expr", c, e.cond)
        body == Lower("block", cond, e.body)
        match == MatchE(cond.out, BoolArms(BlockE(body.out, Unit), BreakE("")), Unit)
    IN  IF ~body.ok THEN body
        ELSE Out(body, LoopE(e.label, BlockOf(<<>>, <<match>>), TyOf(c, e)))

LowerBorrow(c, e) ==
    LET p == Lower("place", c, [e |-> e.inner, mutable |-> e.mutable])
        v == Lower("expr", p, e.inner)
    IN  IF ~p.ok THEN p
        ELSE IF p.out # <<>> THEN Out(p, BorrowE(p.out[1], TyOf(c, e), e.mutable))
        ELSE IF ~v.ok THEN v
        ELSE Out(v, BorrowOfValueE(v.out, TyOf(c, e)))

LowerReturn(c, e) ==
    LET v == Lower("list", c, e.args)
    IN  IF ~v.ok THEN v ELSE Out(v, ReturnE(v.out))

LowerCast(c, e) ==
    LET v == Lower("expr", c, e.inner)
    IN  IF ~v.ok THEN v ELSE Out(v, Node("Cast", TyOf(c, e)) @@ [inner |-> v.out])

\* Field access and deref read through the place; the base of a field that is
\* no place becomes a temporary, and then only a reference is looked through.
LowerPlaceRead(c, e) ==
    LET p == Lower("place", c, [e |-> e, mutable |-> FALSE])
        base == Lower("expr", p, e.base)
        part == PartNamed(PeelRef(base.out.ty), e.part)
    IN  IF ~p.ok THEN p
        ELSE IF p.out # <<>> THEN Out(p, PlaceLoadE(p.out[1], TyOf(c, e)))
        ELSE IF ~base.ok THEN base
        ELSE Out(base, PlaceLoadE(FieldP(PlaceOrTemp(base.out), part.off, TyOf(c, e)), TyOf(c, e)))

\* A tuple index in value position does not go through the place: no deref is
\* inserted, and the offset is taken in the pointee of a reference.
LowerTupleRead(c, e) ==
    LET base == Lower("expr", c, e.base)
        part == PartNamed(PeelRef(base.out.ty), e.part)
    IN  IF ~base.ok THEN base
        ELSE Out(base, PlaceLoadE(FieldP(PlaceOrTemp(base.out), part.off, TyOf(c, e)), TyOf(c, e)))

\* A call through a local that holds a function.
LowerIndirect(c, e, args) ==
    IF LookupName(args, e.res.name) = 0 THEN Fail(args, "callee not in scope")
    ELSE Out(args, Node("CallIndirect", TyOf(c, e))
                   @@ [callee |-> LocalE(LookupName(args, e.res.name), TyIn(c, e.res.fty), 0),
                       args |-> args.out])

LowerCall(c, e) ==
    LET args == Lower("list", c, e.args)
        r == ResolveCallee(c, e.res)
    IN  IF ~args.ok THEN args
        ELSE CASE e.res.k = "Variant" -> Out(args, VariantE(TyOf(c, e), e.res.disc, args.out))
               [] e.res.k = "Indirect" -> LowerIndirect(c, e, args)
               [] e.res.k \in {"Direct", "Generic"} /\ r.ok ->
                    Out(args, CallE(r.idx, args.out, TyOf(c, e)))
               [] OTHER -> Fail(args, "mono_table missing entry")

\* The receiver that is borrowed is lowered as a place, with the mutability
\* of the borrow; its arguments after it.
LowerReceiver(c, e) ==
    LET p == Lower("place", c, [e |-> e.recv, mutable |-> e.res.adjust = "BorrowMut"])
    IN  IF e.res.adjust = "ByValue" \/ e.res.adjust = "ByRef" THEN Lower("expr", c, e.recv)
        ELSE IF ~p.ok THEN p
        ELSE IF p.out = <<>> THEN Lower("expr", p, e.recv)
        ELSE Out(p, PlaceLoadE(p.out[1], p.out[1].ty))

LowerMethodCall(c, e) ==
    LET recv == LowerReceiver(c, e)
        args == Lower("list", recv, e.args)
        r == ResolveCallee(c, e.res)
    IN  IF ~args.ok THEN args
        ELSE IF ~r.ok THEN Fail(args, "mono_table missing entry for method")
        ELSE Out(args, MethodE(r.idx, e.res.adjust, recv.out, args.out, TyOf(c, e)))

\* The initialisers are lowered, and so evaluated, in declaration order.
LowerStructLit(c, e) ==
    LET t == TyOf(c, e)
        decl == IF IsEnum(t) THEN PayloadOf(t, e.disc) ELSE FieldsOf(t)
        Given(name) == e.fields[CHOOSE k \in DOMAIN e.fields : e.fields[k].name = name].value
        vs == Lower("list", c, [i \in DOMAIN decl |-> Given(decl[i].name)])
    IN  IF \E i \in DOMAIN decl : ~\E k \in DOMAIN e.fields : e.fields[k].name = decl[i].name
        THEN Fail(c, "missing field")
        ELSE IF ~vs.ok THEN vs
        ELSE Out(vs, IF IsEnum(t) THEN VariantE(t, e.disc, vs.out)
                     ELSE Node("StructLit", t) @@ [fields |-> vs.out])

\* *Index::index(&base, i), or index_mut; a base that is a reference is
\* passed as it is.
LowerIndex(c, e, mutable) ==
    LET base == Lower("expr", c, e.base)
        idx == Lower("expr", base, e.index)
        r == ResolveTraitMethod(c, IF mutable THEN "IndexMut" ELSE "Index", <<idx.out.ty>>,
                                PeelRef(base.out.ty), IF mutable THEN "index_mut" ELSE "index")
        adjust == IF IsRef(base.out.ty) THEN "ByRef" ELSE IF mutable THEN "BorrowMut"
                                                          ELSE "BorrowImm"
        t == TyOf(c, e)
    IN  IF ~idx.ok THEN idx
        ELSE IF ~r.ok THEN Fail(idx, "no impl of Index or no instance of it")
        ELSE Out(idx, <<DerefP(MethodE(r.idx, adjust, base.out, <<idx.out>>, RefTo(t, mutable)),
                               t)>>)

LowerIndexRead(c, e) ==
    LET p == LowerIndex(c, e, FALSE)
    IN  IF ~p.ok THEN p ELSE Out(p, PlaceLoadE(p.out[1], TyOf(c, e)))

LowerArms(c, arms) ==
    IF arms = <<>> THEN Out(c, <<>>)
    ELSE LET arm == Head(arms)
             d == DeclarePatterns(c, <<arm.pattern>>)
             guard == Lower("list", d, arm.guard)
             body == Lower("expr", guard, arm.body)
             rest == Lower("arms", LeaveScope(body, Len(c.scope)), Tail(arms))
         IN  IF ~rest.ok THEN rest
             ELSE Out(rest, <<Arm(DesugarPattern(arm.pattern), guard.out, body.out)>> \o rest.out)

LowerMatch(c, e) ==
    LET scrut == Lower("expr", c, e.scrutinee)
        arms == Lower("arms", scrut, e.arms)
    IN  IF ~arms.ok THEN arms ELSE Out(arms, MatchE(scrut.out, arms.out, TyOf(c, e)))

\* `if let` is a match with a wildcard for the rest.
LowerIfLet(c, e) ==
    LET scrut == Lower("expr", c, e.scrutinee)
        then == Lower("block", DeclarePatterns(scrut, <<e.pattern>>), e.then)
        else == Lower("block", LeaveScope(then, Len(scrut.scope)), e.else)
        t == TyOf(c, e)
    IN  IF ~else.ok THEN else
        ELSE Out(else, MatchE(scrut.out,
                              <<Arm(DesugarPattern(e.pattern), <<>>, BlockE(then.out, t)),
                                Arm(PatOf("Wildcard"), <<>>, BlockE(else.out, t))>>, t))

\* `for p in it { body }`: the iterator in a binding of its own, and a loop
\* around a match on what next(&mut iterator) returns.
LowerFor(c, e) ==
    LET it == Lower("expr", c, e.iter)
        next == ResolveTraitMethod(it, "Iterator", <<>>, it.out.ty, "next")
        item == FindAssocBinding("Iterator", it.out.ty, "Item")
        name == SynthName(it, "iter", 0)
        d == DeclareBinding([it EXCEPT !.synth = @ + 1], name, it.out.ty, "synth", 0)
        body == Lower("block", DeclarePatterns(d, <<e.pattern>>), e.body)
        call == MethodE(next.idx, "ByRef",
                        BorrowE(LocalP(d.out, it.out.ty), RefTo(it.out.ty, TRUE), TRUE),
                        <<>>, Ty("Option", <<item>>))
        match == MatchE(call, <<Arm(VariantPat("Some", <<e.pattern>>), <<>>,
                                    BlockE(body.out, Unit)),
                                Arm(VariantPat("None", <<>>), <<>>, BreakE(e.label))>>, Unit)
        t == TyOf(c, e)
    IN  IF ~it.ok THEN it
        ELSE IF ~next.ok THEN Fail(it, "no Iterator impl or no instance of it")
        ELSE IF ~body.ok THEN body
        ELSE Out(LeaveScope(body, Len(d.scope)),
                 BlockE(BlockOf(<<[k |-> "Let", binding |-> d.out, value |-> it.out]>>,
                                <<LoopE(e.label, BlockOf(<<>>, <<match>>), t)>>), t))

\* `e?`: the value of Ok, or the return of the function's own Err.
LowerTry(c, e) ==
    LET s == Lower("expr", c, e.inner)
        t == TyOf(c, e)
        okName == SynthName(s, "ok_val", 0)
        errName == SynthName(s, "err_val", 1)
        ret == TyIn(c, Funs[c.fn].ret)
        v == DeclareBinding([s EXCEPT !.synth = @ + 2], okName, t, "synth", 0)
        errTy == s.out.ty.args[2]
        w == DeclareBinding(LeaveScope(v, Len(s.scope)), errName, errTy, "synth", 0)
        err == VariantE(ret, DiscNamed(ret.h, "Err"), <<LocalE(w.out, errTy, 0)>>)
    IN  IF ~s.ok THEN s
        ELSE Out(LeaveScope(w, Len(s.scope)),
                 MatchE(s.out, <<Arm(VariantPat("Ok", <<BindPat(okName)>>), <<>>,
                                     LocalE(v.out, t, 0)),
                                 Arm(VariantPat("Err", <<BindPat(errName)>>), <<>>,
                                     ReturnE(<<err>>))>>, t))

LowerOperands(c, e) ==
    LET args == Lower("list", c, e.args)
    IN  IF ~args.ok THEN args
        ELSE Out(args, CASE e.k = "Builtin" -> Node("Builtin", TyOf(c, e))
                                @@ [name |-> e.name, targs |-> SubstVec(e.targs, c.env),
                                    args |-> args.out]
                         [] e.k = "MacroCall" ->
                              Node("MacroCall", TyOf(c, e)) @@ [args |-> args.out]
                         [] OTHER -> Node("Tuple", TyOf(c, e)) @@ [args |-> args.out])

LowerExpr(c, e) ==
    CASE e.k = "Lit" -> Out(c, LitE(TyOf(c, e), e.lit))
      [] e.k = "Var" -> LowerVar(c, e)
      [] e.k = "Block" -> LET b == Lower("block", c, e.block)
                          IN  IF ~b.ok THEN b ELSE Out(b, BlockE(b.out, TyOf(c, e)))
      [] e.k = "If" -> LowerIf(c, e)
      [] e.k = "While" -> LowerWhile(c, e)
      [] e.k = "Borrow" -> LowerBorrow(c, e)
      [] e.k \in {"Tuple", "Builtin", "MacroCall"} -> LowerOperands(c, e)
      [] e.k = "Break" -> Out(c, BreakE(e.label))
      [] e.k = "Continue" -> Out(c, Node("Continue", NeverT) @@ [label |-> e.label])
      [] e.k = "Return" -> LowerReturn(c, e)
      [] e.k = "Cast" -> LowerCast(c, e)
      [] e.k \in {"Deref", "FieldAccess"} -> LowerPlaceRead(c, e)
      [] e.k = "TupleIndex" -> LowerTupleRead(c, e)
      [] e.k = "Call" -> LowerCall(c, e)
      [] e.k = "MethodCall" -> LowerMethodCall(c, e)
      [] e.k = "StructLit" -> LowerStructLit(c, e)
      [] e.k = "Index" -> LowerIndexRead(c, e)
      [] e.k = "Match" -> LowerMatch(c, e)
      [] e.k = "IfLet" -> LowerIfLet(c, e)
      [] e.k = "For" -> LowerFor(c, e)
      [] e.k = "Try" -> LowerTry(c, e)

\* The expression as a place, <<>> when it is none.
LowerDerefPlace(c, e) ==
    LET inner == Lower("expr", c, e.inner)
        v == inner.out
    IN  IF ~inner.ok THEN inner
        ELSE CASE IsPointer(v.ty) -> Out(inner, <<DerefP(v, Pointee(v.ty))>>)
               [] IsStruct(v.ty) -> SynthDeref(inner, v)
               [] OTHER -> Fail(inner, "deref of non-pointer non-struct")

LowerPlace(c, x) ==
    LET e == x.e
        id == LookupName(c, e.name)
    IN  CASE e.k = "Var" ->
                Out(c, IF id = 0 THEN <<>> ELSE <<LocalP(id, c.locals[id].ty)>>)
          [] e.k \in {"FieldAccess", "TupleIndex"} ->
                PartPlace(Lower("place", c, [e |-> e.base, mutable |-> x.mutable]), e.part)
          [] e.k = "Deref" -> LowerDerefPlace(c, e)
          [] e.k = "Index" -> LowerIndex(c, e, x.mutable)
          [] OTHER -> Out(c, <<>>)

Lower(how, c, x) ==
    IF ~c.ok THEN c
    ELSE CASE how = "expr" -> LowerExpr(c, x)
           [] how = "place" -> LowerPlace(c, x)
           [] how = "list" -> LowerList(c, x)
           [] how = "stmt" -> LowerStmt(c, x)
           [] how = "stmts" -> LowerStmts(c, x)
           [] how = "block" -> LowerBlock(c, x)
           [] how = "arms" -> LowerArms(c, x)

RECURSIVE DeclareParams(_, _)
DeclareParams(c, ps) ==
    IF ps = <<>> THEN c
    ELSE DeclareParams(DeclareBinding(c, Head(ps).name, TyIn(c, Head(ps).ty), "param", 0), Tail(ps))

\* An instance of a function lowered: its bindings and its body.
LowerToMono(f, env, es, tab) ==
    LET c == Lower("block", DeclareParams(NewCtx(f, env, es, tab), Funs[f].params), Funs[f].body)
    IN  [ok |-> c.ok, fn |-> f, body |-> c.out, locals |-> c.locals,
         params |-> [i \in DOMAIN Funs[f].params |-> TyIn(c, Funs[f].params[i].ty)],
         ret |-> TyIn(c, Funs[f].ret), moved |-> Funs[f].moved, sites |-> Funs[f].sites]
=============================================================================
