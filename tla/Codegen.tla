------------------------------ MODULE Codegen -------------------------------
(* Code generation for one lowered function (src/codegen.rs): its prologue,  *)
(* its body with the drops of every scope, and its epilogue.                 *)
EXTENDS Emitter

-----------------------------------------------------------------------------
(* Patterns: the code that tests one against a scrutinee and binds its       *)
(* names (codegen_pattern and what it calls).                                *)
(*                                                                           *)
(* The scrutinee is in wasm locals, [k |-> "Locals", at |-> the first one],   *)
(* or in memory, [k |-> "Memory", at |-> the local with an address, off]. On  *)
(* a mismatch the code branches to the label `miss`.                         *)
InLocals(at) == [k |-> "Locals", at |-> at, off |-> 0]
InMemory(at, off) == [k |-> "Memory", at |-> at, off |-> off]

\* The part of the scrutinee at a distance in scalars and in bytes.
SubScrutinee(st, flat, bytes) ==
    IF st.k = "Locals" THEN InLocals(st.at + flat) ELSE InMemory(st.at, st.off + bytes)

RECURSIVE UsesRefBinding(_)
UsesRefBinding(pat) ==
    CASE pat.k = "Binding" -> pat.byRef
      [] pat.k = "Or" -> \E i \in DOMAIN pat.alts : UsesRefBinding(pat.alts[i])
      [] OTHER -> \E i \in DOMAIN Subpatterns(pat) : UsesRefBinding(Subpatterns(pat)[i])

\* The scrutinee's value leaves the stack: an enum's address and any other
\* value into locals, or, when a name is bound by reference, into a slot.
StashScrutinee(g, t) ==
    LET s == Stash(g, FlattenRType(t))
    IN  [s EXCEPT !.out = IF IsEnum(t) THEN InMemory(s.out, 0) ELSE InLocals(s.out)]
SpillScrutinee(g, t) ==
    LET s == SpillOperands(g, t) IN [s EXCEPT !.out = InMemory(s.out, 0)]
TakeScrutinee(g, t, pats) ==
    IF ~IsEnum(t) /\ \E i \in DOMAIN pats : UsesRefBinding(pats[i])
    THEN SpillScrutinee(g, t)
    ELSE StashScrutinee(g, t)

PushScrutValue(g, t, st) ==
    IF st.k = "Locals" THEN Put(g, GetRun(st.at, Len(FlattenRType(t))))
    ELSE Put(g, LoadCode(CollectLeaves(t, st.off), st.at, 0))

\* A name bound by reference is the address of the matched part.
BindPatternRef(g, pat, t, st) ==
    LET a == EmitAddressAtOffset(g, st.at, st.off)
    IN  PushLocal(a, pat.name, RefTo(t, FALSE), Storage("Local", a.out))

\* An enum is bound to the address of the matched part, which it shares.
BindEnum(g, name, t, st) ==
    LET a == IF st.k = "Locals" THEN Stash(Put(g, <<LocalGet(st.at)>>), <<"i32">>)
             ELSE EmitAddressAtOffset(g, st.at, st.off)
    IN  PushLocal(a, name, t, Storage("Local", a.out))

\* A binding whose address is taken, or that is dropped, has a slot of its
\* own; the layout knows it by the node of its pattern.
IsAddressedLeaf(g, node) ==
    \E b \in DOMAIN g.body.locals :
        /\ g.body.locals[b].origin = "pattern" /\ g.body.locals[b].pat = node
        /\ \A c \in 1 .. (b - 1) :
              g.body.locals[c].origin = "pattern" => g.body.locals[c].pat # node
        /\ g.lay.storage[b].k = "MemoryAt"

BindInSlot(g, name, t, st) ==
    LET slot == PushSlot(g, ByteSizeOf(t))
        src == IF st.off = 0 THEN [slot EXCEPT !.out = st.at]
               ELSE EmitAddressAtOffset(slot, st.at, st.off)
        filled == IF st.k = "Locals"
                  THEN StoreFlatToMemory(PushScrutValue(slot, t, st), t, slot.out, 0)
                  ELSE EmitMemcpy(src, slot.out, src.out, ByteSizeOf(t))
    IN  PushLocal(filled, name, t, Storage("MemoryAt", slot.out))

BindInLocals(g, name, t, st) ==
    LET s == Stash(PushScrutValue(g, t, st), FlattenRType(t))
    IN  PushLocal(s, name, t, Storage("Local", s.out))

BindPatternValue(g, pat, t, st) ==
    CASE IsEnum(t) -> BindEnum(g, pat.name, t, st)
      [] ~IsEnum(t) /\ IsAddressedLeaf(g, pat.id) -> BindInSlot(g, pat.name, t, st)
      [] OTHER -> BindInLocals(g, pat.name, t, st)

BindPattern(g, pat, t, st) ==
    IF pat.k = "Binding" /\ pat.byRef
    THEN BindPatternRef(g, pat, t, st)
    ELSE BindPatternValue(g, pat, t, st)

-----------------------------------------------------------------------------
(* Tests. A 128-bit literal is compared by its low word only, and a 128-bit  *)
(* bound is not compared at all.                                             *)

PatLit(t, n) == IF IntClass(t.h) = "Wide128" THEN <<I64Const(n), I64Const(0)>>
                ELSE <<<<"Const", FlattenRType(t)[1], n>>>>

PushIntEq(g, t) ==
    LET low == Stash(Put(g, <<DropOne>>), <<"i64">>)
    IN  IF IntClass(t.h) = "Wide128"
        THEN Put(low, <<DropOne, LocalGet(low.out), Num("i64", "Eq")>>)
        ELSE Put(g, <<Num(FlattenRType(t)[1], "Eq")>>)

PushIntBound(g, t, op) ==
    IF IntClass(t.h) = "Wide128" THEN Put(g, <<I32Const(1)>>)
    ELSE Put(g, <<Num(FlattenRType(t)[1],
                      IF t.h \in SignedInts THEN SignedForm(op) ELSE UnsignedForm(op))>>)

MissUnless(g, miss) == Put(g, <<I32Eqz, BrIf(miss)>>)

TestLiteral(g, t, st, n, miss) ==
    MissUnless(PushIntEq(Put(PushScrutValue(g, t, st), PatLit(t, n)), t), miss)

TestBool(g, t, st, b, miss) ==
    MissUnless(Put(PushScrutValue(g, t, st), <<I32Const(IF b THEN 1 ELSE 0), Num("i32", "Eq")>>),
               miss)

TestBound(g, t, st, n, op, miss) ==
    MissUnless(PushIntBound(Put(PushScrutValue(g, t, st), PatLit(t, n)), t, op), miss)

\* The discriminant, which is always in memory.
TestDiscriminant(g, st, disc, miss) ==
    Put(g, <<LocalGet(st.at), I32Load(st.off), I32Const(disc), Num("i32", "Ne"), BrIf(miss)>>)

Sub(pat, t, st, miss) == [pat |-> pat, ty |-> t, st |-> st, miss |-> miss]

FlatBefore(parts, i) == SumTo([k \in DOMAIN parts |-> Len(FlattenRType(parts[k].ty))], i - 1)

\* The subpatterns by position, or by the name of a declared part.
ByPosition(pats, parts, st, miss) ==
    [i \in DOMAIN pats |->
        Sub(pats[i], parts[i].ty, SubScrutinee(st, FlatBefore(parts, i), OffsetIn(parts, i)), miss)]
ByName(fields, parts, st, miss) ==
    [i \in DOMAIN fields |->
        LET k == CHOOSE j \in DOMAIN parts : parts[j].name = fields[i].name
        IN  Sub(fields[i].pattern, parts[k].ty,
                SubScrutinee(st, FlatBefore(parts, k), OffsetIn(parts, k)), miss)]

AggregateSubs(x) ==
    LET pat == x.pat
        payload == InMemory(x.st.at, x.st.off + 4)
        disc == DiscNamed(x.ty.h, pat.name)
    IN  CASE pat.k = "Tuple" -> ByPosition(pat.elems, Parts(x.ty), x.st, x.miss)
          [] pat.k = "VariantTuple" ->
                ByPosition(pat.elems, PayloadOf(x.ty, disc), payload, x.miss)
          [] pat.k = "VariantStruct" /\ IsStruct(x.ty) ->
                ByName(pat.fields, Parts(x.ty), x.st, x.miss)
          [] OTHER -> ByName(pat.fields, PayloadOf(x.ty, disc), payload, x.miss)

RECURSIVE CodegenPattern(_, _, _)

PatternList(g, xs) ==
    IF ~g.ok \/ xs = <<>> THEN g
    ELSE CodegenPattern("list", CodegenPattern("one", g, Head(xs)), Tail(xs))

\* Every alternative but the last leaves the block when it matches; the last
\* one's miss is one block further out.
PatternAlts(g, x) ==
    LET alts == x.pat.alts
        first == CodegenPattern("one", Put(g, <<BlockEmpty>>),
                                [x EXCEPT !.pat = Head(alts), !.miss = 0])
        rest == [x EXCEPT !.pat = [@ EXCEPT !.alts = Tail(alts)]]
    IN  IF Len(alts) = 1
        THEN Put(CodegenPattern("one", g, [x EXCEPT !.pat = Head(alts), !.miss = @ + 1]), <<End>>)
        ELSE CodegenPattern("alts", Put(first, <<Br(1), End>>), rest)

PatternOne(g, x) ==
    LET pat == x.pat
        t == x.ty
        addr == Stash(PushScrutValue(g, t, x.st), <<"i32">>)
    IN  CASE pat.k = "Wildcard" -> g
          [] pat.k = "Binding" -> BindPattern(g, pat, t, x.st)
          [] pat.k = "At" ->
                CodegenPattern("one", BindPatternValue(g, pat, t, x.st),
                               [x EXCEPT !.pat = pat.inner])
          [] pat.k = "LitInt" -> TestLiteral(g, t, x.st, pat.n, x.miss)
          [] pat.k = "LitBool" -> TestBool(g, t, x.st, pat.value, x.miss)
          [] pat.k = "Range" ->
                TestBound(TestBound(g, t, x.st, pat.lo, "ge", x.miss), t, x.st, pat.hi, "le",
                          x.miss)
          [] pat.k = "Ref" ->
                CodegenPattern("one", addr,
                               Sub(pat.inner, Pointee(t), InMemory(addr.out, 0), x.miss))
          [] pat.k = "Or" -> CodegenPattern("alts", Put(g, <<BlockEmpty>>), x)
          [] pat.k = "Tuple" \/ (pat.k = "VariantStruct" /\ IsStruct(t)) ->
                CodegenPattern("list", g, AggregateSubs(x))
          [] OTHER ->
                CodegenPattern("list",
                               TestDiscriminant(g, x.st, DiscNamed(t.h, pat.name), x.miss),
                               AggregateSubs(x))

CodegenPattern(how, g, x) ==
    CASE how = "one" -> PatternOne(g, x)
      [] how = "list" -> PatternList(g, x)
      [] how = "alts" -> PatternAlts(g, x)

-----------------------------------------------------------------------------
(* The names a pattern has bound, from the position `out` of the bindings in *)
(* scope, mapped from their numbers in the lowered body; of alternatives only *)
(* the first is mapped.                                                      *)

BindingOfLeaf(g, pat) ==
    LET leaves == {b \in DOMAIN g.body.locals :
                      g.body.locals[b].origin = "pattern" /\ g.body.locals[b].pat = pat.id}
        synth == {b \in DOMAIN g.body.locals :
                      g.body.locals[b].origin = "synth" /\ g.body.locals[b].name = pat.name}
    IN  IF leaves # {} THEN {CHOOSE b \in leaves : \A c \in leaves : b <= c}
        ELSE IF synth # {} THEN {CHOOSE b \in synth : \A c \in synth : b <= c}
        ELSE {}

RECURSIVE MapPatternBindings(_, _, _)
MapPatternBindings(g, pats, pos) ==
    IF pats = <<>> THEN g
    ELSE LET pat == Head(pats)
             leaf == pat.k \in {"Binding", "At"}
             ids == IF leaf THEN BindingOfLeaf(g, pat) ELSE {}
         IN  MapPatternBindings(
                 [g EXCEPT !.at = [b \in DOMAIN @ |-> IF b \in ids THEN pos ELSE @[b]]],
                 Subpatterns(pat) \o Tail(pats), IF leaf THEN pos + 1 ELSE pos)

-----------------------------------------------------------------------------
ReturnsEnum(m) == IsEnum(m.ret)

-----------------------------------------------------------------------------
(* Drops *)

\* Drop::drop of the type; an instance the expansion has not met is interned
\* here.
InstanceAsked(f, r) == [fn |-> f, args |-> ImplArgs(f, r.subst, Len(Funs[f].tparams))]
DropMethodOf(r) == InstanceAsked(Impls[r.idx].methods["drop"], r)
DropMethod(t) == DropMethodOf(SolveImpl("Drop", <<>>, t, 0))

CallInstance(g, tab, d, addr) ==
    Put([g EXCEPT !.table = tab],
        <<LocalGet(addr), CallI(LookupIdx(g.entries, tab, d.fn, d.args))>>)
CallOwnDrop(g, d, addr) ==
    IF IsTemplate(d.fn) THEN CallInstance(g, Intern(g.table, d), d, addr)
    ELSE Put(g, <<LocalGet(addr), CallI(IdxOfEntry(g, d.fn))>>)
CallDrop(g, t, addr) == CallOwnDrop(g, DropMethod(t), addr)

\* The type's own drop, then its parts in order; of an enum, the parts of the
\* variant the discriminant names.
RECURSIVE DropWalk(_, _, _)

DropParts(g, x) ==
    IF x.parts = <<>> THEN g
    ELSE LET t == Head(x.parts).ty
             a == EmitAddressAtOffset(g, x.addr, x.off)
             rest == [x EXCEPT !.parts = Tail(@), !.off = @ + ByteSizeOf(t)]
         IN  IF NeedsDrop(t)
             THEN DropWalk("parts", DropWalk("value", a, [ty |-> t, addr |-> a.out]), rest)
             ELSE DropWalk("parts", g, rest)

DropVariants(g, x) ==
    IF x.disc \notin Discs(x.ty) THEN g
    ELSE LET parts == PayloadOf(x.ty, x.disc)
             open == Put(g, <<LocalGet(x.at), I32Const(x.disc), Num("i32", "Eq"), <<"If", <<>>>>>>)
             body == DropWalk("parts", open, [parts |-> parts, addr |-> x.addr, off |-> 4])
             next == [x EXCEPT !.disc = @ + 1]
         IN  IF AnyNeedsDrop(parts) THEN DropWalk("variants", Put(body, <<End>>), next)
             ELSE DropWalk("variants", g, next)

DropValue(g, x) ==
    LET own == IF IsDrop(x.ty) THEN CallDrop(g, x.ty, x.addr) ELSE g
        disc == Stash(Put(own, <<LocalGet(x.addr), I32Load(0)>>), <<"i32">>)
    IN  CASE IsStruct(x.ty) \/ IsTuple(x.ty) ->
                DropWalk("parts", own, [parts |-> Parts(x.ty), addr |-> x.addr, off |-> 0])
          [] IsEnum(x.ty) /\ (\E d \in Discs(x.ty) : AnyNeedsDrop(PayloadOf(x.ty, d))) ->
                DropWalk("variants", disc,
                         [ty |-> x.ty, addr |-> x.addr, at |-> disc.out, disc |-> 0])
          [] OTHER -> own

DropWalk(how, g, x) ==
    CASE how = "value" -> DropValue(g, x)
      [] how = "parts" -> DropParts(g, x)
      [] how = "variants" -> DropVariants(g, x)

DropCallForLocal(g, i) ==
    LET b == g.locals[i]
        base == BaseOf(g, b.st)
        a == EmitAddressAtOffset(g, base.at, base.off)
    IN  DropWalk("value", a, [ty |-> b.ty, addr |-> a.out])

\* The binding is dropped when it lives in memory, under its flag if it has
\* one.
DropLocal(g, i) ==
    LET b == g.locals[i]
        under == Put(g, <<LocalGet(LookupDropFlag(g, b.name)), <<"If", <<>>>>>>)
    IN  CASE b.drop = "Skip" \/ b.st.k = "Local" -> g
          [] b.drop = "Always" /\ b.st.k # "Local" -> DropCallForLocal(g, i)
          [] OTHER -> IF FlagsNamed(g, b.name) = {} THEN Stop(g, "no drop flag")
                      ELSE Put(DropCallForLocal(under, i), <<End>>)

RECURSIVE DropsDownTo(_, _, _)
(* Mutant of DropsDownTo: the bindings are dropped in the order of declaration. *)
DropsUpTo(g, from, i) ==
    IF ~g.ok \/ i <= from THEN g ELSE DropLocal(DropsDownTo(g, from, i - 1), i)

\* The bindings after `from`, the last declared first.
DropsDownTo(g, from, i) ==
    IF ~g.ok \/ i <= from THEN g ELSE DropsDownTo(DropLocal(g, i), from, i - 1)
EmitDropsFrom(g, from) == DropsDownTo(g, from, Len(g.locals))

\* A value on the stack outlives the drops in locals.
DropsUnder(s, n, from) == Put(EmitDropsFrom(s, from), GetRun(s.out, n))
DropsAround(g, vts, from) == DropsUnder(Stash(g, vts), Len(vts), from)

-----------------------------------------------------------------------------
(* Leaving the function: the result is saved, every binding dropped, an enum  *)
(* copied to the caller's slot, and the stack pointer restored.               *)

GiveResult(g, at) ==
    IF IsEnum(g.ret)
    THEN Put(EmitMemcpy(g, 0, at, ByteSizeOf(g.ret)), <<LocalGet(0)>>)
    ELSE Put(g, GetRun(at, Len(FlattenRType(g.ret))))

(* Mutant of RestoreSp: what is restored is the base of the frame. *)
RestoreBase(g) == Put(g, <<LocalGet(g.frameBase), GlobalSet(GlobalSp)>>)

(* Mutant of RestoreSp: the frame's size is added to what was saved. *)
RestorePastFrame(g) ==
    Put(g, <<LocalGet(g.entrySp), I32Const(g.lay.frame), I32Add, GlobalSet(GlobalSp)>>)

RestoreSp(g) == Put(g, <<LocalGet(g.entrySp), GlobalSet(GlobalSp)>>)
LeaveWith(s) == RestoreSp(GiveResult(EmitDropsFrom(s, 0), s.out))
LeaveFunction(g) == LeaveWith(Stash(g, FlattenRType(g.ret)))

-----------------------------------------------------------------------------
(* Places *)

\* A place as the binding or the pointer it starts from, the offset in bytes
\* and the place itself.
RECURSIVE PlaceBase(_, _)
PlaceBase(p, off) == IF p.k = "Field" THEN PlaceBase(p.base, off + p.off)
                     ELSE [p |-> p, off |-> off]

\* The scalars of a local's value that a byte offset within it skips.
ScalarsBefore(t, off) ==
    Cardinality({i \in DOMAIN CollectLeaves(t, 0) : CollectLeaves(t, 0)[i].off < off})

\* The innermost binding in scope of that name: loads of a part find the
\* binding again by its name.
InnermostNamed(g, name) == LargestOf({i \in DOMAIN g.locals : g.locals[i].name = name})

\* The local with the address that a reference holds.
RefPointeeLocal(g, i) ==
    LET base == BaseOf(g, g.locals[i].st)
    IN  IF g.locals[i].st.k = "Local" THEN [g EXCEPT !.out = g.locals[i].st.at]
        ELSE Stash(Put(g, <<LocalGet(base.at), I32Load(base.off)>>), <<"i32">>)

\* A part of a binding's value; of a reference, a part of what it points to.
PlaceChainLoad(g, t, i, off) ==
    LET b == g.locals[i]
        base == BaseOf(g, b.st)
        r == RefPointeeLocal(g, i)
    IN  CASE IsRef(b.ty) -> LoadFlatFromMemory(r, t, r.out, off)
          [] ~IsRef(b.ty) /\ b.st.k # "Local" -> LoadFlatFromMemory(g, t, base.at, base.off + off)
          [] OTHER -> Put(g, GetRun(b.st.at + ScalarsBefore(b.ty, off), Len(FlattenRType(t))))

-----------------------------------------------------------------------------
(* Blocks, statements and expressions: Gen(how, g, x) emits one of them. *)

RECURSIVE Gen(_, _, _)

GenList(g, es) == IF es = <<>> THEN g ELSE Gen("list", Gen("expr", g, Head(es)), Tail(es))
GenStmts(g, ss) == IF ss = <<>> THEN g ELSE Gen("stmts", Gen("stmt", g, Head(ss)), Tail(ss))

\* The body of a function: its bindings are dropped by the epilogue.
GenBody(g, b) == Gen("list", Gen("stmts", g, b.stmts), b.tail)

\* Any other block drops its own before its value is left on the stack.
GenBlock(g, b) ==
    LET mark == Len(g.locals)
        v == Gen("list", Gen("stmts", g, b.stmts), b.tail)
        vts == IF b.tail = <<>> THEN <<>> ELSE FlattenRType(b.tail[1].ty)
    IN  Truncate(DropsAround(v, vts, mark), mark)

\* The address of a place: of a binding in memory, of what a reference in a
\* local points to, or of what an expression yields.
GenPlaceAddress(g, p) ==
    LET root == PlaceBase(p, 0)
        st == g.locals[g.at[root.p.id]].st
        base == BaseOf(g, st)
    IN  IF root.p.k = "Deref" THEN Put(Gen("expr", g, root.p.inner), AddOffset(root.off))
        ELSE Put(g, <<LocalGet(base.at)>> \o AddOffset(base.off + root.off))

GenPlaceLoad(g, p) ==
    LET root == PlaceBase(p, 0)
        i == g.at[root.p.id]
        a == Stash(Gen("address", g, p), <<"i32">>)
    IN  CASE root.p.k = "Deref" -> LoadFlatFromMemory(a, p.ty, a.out, 0)
          [] p.k = "Local" -> EmitLocalValueLoad(g, i)
          [] OTHER -> PlaceChainLoad(g, p.ty, InnermostNamed(g, g.locals[i].name), root.off)

\* A binding gets its storage, for the value on the stack or, when it is
\* declared without one, for a later one.
PlaceBinding(h, b, l, storage) ==
    [PushLocal(h, l.name, l.ty, storage) EXCEPT !.at[b] = Len(h.locals) + 1]
InFreshLocals(s, b, l) == PlaceBinding(s, b, l, Storage("Local", s.out))
InFreshSlot(s, b, l) == PlaceBinding(s, b, l, Storage("MemoryAt", s.out))

BindLet(g, b, l, kind) ==
    CASE kind.k = "Local" -> InFreshLocals(Stash(g, FlattenRType(l.ty)), b, l)
      [] kind.k = "Memory" ->
            PlaceBinding(StoreFlatToMemory(g, l.ty, g.frameBase, kind.off), b, l,
                         Storage("Memory", kind.off))
      [] OTHER -> InFreshSlot(SpillOperands(g, l.ty), b, l)

BindUninit(g, b, l, kind) ==
    CASE kind.k = "Local" -> InFreshLocals(Fresh(g, FlattenRType(l.ty)), b, l)
      [] kind.k = "Memory" -> PlaceBinding(g, b, l, Storage("Memory", kind.off))
      [] OTHER -> InFreshSlot(PushSlot(g, ByteSizeOf(l.ty)), b, l)

\* A binding that may have been moved carries a flag, set when it has a value.
FlagIfNeeded(g, init) ==
    LET b == g.locals[Len(g.locals)]
    IN  IF g.ok /\ b.drop = "Flagged" THEN NewDropFlag(g, b.name, init) ELSE g

LetElse(g, s, st) ==
    Put(Gen("block",
            Put(CodegenPattern("one", Put(g, <<BlockEmpty, BlockEmpty>>),
                               Sub(s.pattern, s.value.ty, st, 0)),
                <<Br(1), End>>),
            s.else[1]),
        <<Unreachable, End>>)
LetPattern(g, s) ==
    MapPatternBindings(IF s.else # <<>> THEN LetElse(g, s, g.out)
                       ELSE CodegenPattern("one", g, Sub(s.pattern, s.value.ty, g.out, 0)),
                       <<s.pattern>>, Len(g.locals) + 1)
GenLetPattern(g, s) ==
    LetPattern(TakeScrutinee(Gen("expr", g, s.value), s.value.ty, <<s.pattern>>), s)

\* Into the locals of a binding or of a part of it, or through an address
\* that is computed before the value.
GenAssign(g, s) ==
    LET root == PlaceBase(s.place, 0)
        b == g.locals[g.at[root.p.id]]
        start == b.st.at + (IF s.place.k = "Local" THEN 0 ELSE ScalarsBefore(b.ty, root.off))
        a == Stash(Gen("address", g, s.place), <<"i32">>)
    IN  IF root.p.k = "Local" /\ b.st.k = "Local"
        THEN Put(Gen("expr", g, s.value), SetRun(start, Len(FlattenRType(s.place.ty))))
        ELSE StoreFlatToMemory(Gen("expr", a, s.value), s.place.ty, a.out, 0)

GenStmt(g, s) ==
    CASE s.k = "Expr" ->
            Put(Gen("expr", g, s.e), [k \in 1 .. Len(FlattenRType(s.e.ty)) |-> DropOne])
      [] s.k = "Let" ->
            FlagIfNeeded(BindLet(Gen("expr", g, s.value), s.binding,
                                 g.body.locals[s.binding], g.lay.storage[s.binding]), 1)
      [] s.k = "LetUninit" ->
            FlagIfNeeded(BindUninit(g, s.binding, g.body.locals[s.binding],
                                    g.lay.storage[s.binding]), 0)
      [] s.k = "Assign" -> GenAssign(g, s)
      [] s.k = "LetPattern" -> GenLetPattern(g, s)

\* A local; moving the whole binding clears its flag.
GenLocal(g, e) ==
    LET i == g.at[e.id]
        name == g.locals[i].name
        load == EmitLocalValueLoad(g, i)
        moves == e.node \in g.sites /\ FlagsNamed(g, name) # {}
    IN  Put(load, IF moves THEN <<I32Const(0), LocalSet(LookupDropFlag(g, name))>> ELSE <<>>)

SretIfEnum(g, t) == IF IsEnum(t) THEN EmitSretAlloc(g, t) ELSE g

GenCall(g, e) == Put(Gen("list", SretIfEnum(g, e.ty), e.args), <<CallI(e.idx)>>)

PlaceOf(e) == IF e.k = "PlaceLoad" THEN e.place ELSE LocalP(e.id, e.ty)
GenReceiver(g, e) ==
    CASE e.adjust \in {"ByValue", "ByRef"} -> Gen("expr", g, e.recv)
      [] e.recv.k \in {"Local", "PlaceLoad"} /\ e.adjust \in {"BorrowImm", "BorrowMut"} ->
            Gen("address", g, PlaceOf(e.recv))
      [] e.recv.k \notin {"Local", "PlaceLoad"} /\ e.adjust = "BorrowImm" ->
            EmitMaterializeAsAddress(Gen("expr", g, e.recv), e.recv.ty)
      [] OTHER -> Stop(g, "receiver is not a place")

GenMethodCall(g, e) ==
    Put(Gen("list", GenReceiver(SretIfEnum(g, e.ty), e), e.args), <<CallI(e.idx)>>)

RECURSIVE FlattenAll(_)
FlattenAll(ts) == IF ts = <<>> THEN <<>> ELSE FlattenRType(Head(ts)) \o FlattenAll(Tail(ts))
ParamsOfFn(t) == SubSeq(t.args, 1, Len(t.args) - 1)

\* The signature of an indirect call gives an enum no result.
GenCallIndirect(g, e) ==
    LET args == Gen("list", SretIfEnum(g, e.ty), e.args)
        sret == IF IsEnum(e.ty) THEN <<"i32">> ELSE <<>>
        sig == FuncType(sret \o FlattenAll(ParamsOfFn(e.callee.ty)),
                        IF IsEnum(e.ty) THEN <<>> ELSE FlattenRType(e.ty))
    IN  Put(Gen("expr", args, e.callee), <<CallIndirectI(sig)>>)

\* The discriminant and the payload in a fresh slot, whose address is the value.
GenVariant(g, e) ==
    LET slot == PushSlot(g, ByteSizeOf(e.ty))
        tagged == Put(slot, <<LocalGet(slot.out), I32Const(e.disc), Store("i32", 4, 0)>>)
        parts == PayloadOf(e.ty, e.disc)
        payload == [i \in DOMAIN e.payload |->
                      [e |-> e.payload[i], ty |-> parts[i].ty, at |-> slot.out,
                       off |-> 4 + OffsetIn(parts, i)]]
    IN  Put(Gen("payload", tagged, payload), <<LocalGet(slot.out)>>)

GenPayload(g, xs) ==
    IF xs = <<>> THEN g
    ELSE LET x == Head(xs)
         IN  Gen("payload", StoreFlatToMemory(Gen("expr", g, x.e), x.ty, x.at, x.off), Tail(xs))

\* An arm is a block its mismatch leaves; its value leaves the match.
ArmGuard(g, arm) ==
    IF arm.guard = <<>> THEN g ELSE MissUnless(Gen("expr", g, arm.guard[1]), 0)
ArmTest(g, arm, x) ==
    MapPatternBindings(CodegenPattern("one", Put(g, <<BlockEmpty>>),
                                      Sub(arm.pattern, x.ty, x.st, 0)),
                       <<arm.pattern>>, Len(g.locals) + 1)
ArmBody(g, arm) == Put(Gen("expr", ArmGuard(g, arm), arm.body), <<Br(1), End>>)
GenArms(g, x) ==
    IF x.arms = <<>> THEN g
    ELSE Gen("arms", Truncate(ArmBody(ArmTest(g, Head(x.arms), x), Head(x.arms)), Len(g.locals)),
             [x EXCEPT !.arms = Tail(@)])

MatchArms(g, e) ==
    Put(Gen("arms", Put(g, <<BlockOfType(FlattenRType(e.ty))>>),
            [arms |-> e.arms, ty |-> e.scrutinee.ty, st |-> g.out]),
        <<Unreachable, End>>)
GenMatch(g, e) ==
    MatchArms(TakeScrutinee(Gen("expr", g, e.scrutinee), e.scrutinee.ty,
                            [i \in DOMAIN e.arms |-> e.arms[i].pattern]), e)

GenLoop(g, e) ==
    LET depth == CurrentCfDepth(g)
        frame == [label |-> e.label, brk |-> depth, cont |-> depth + 1, mark |-> Len(g.locals)]
        open == Put([g EXCEPT !.loops = Append(@, frame)], <<BlockEmpty, <<"Loop">>>>)
        body == Gen("block", open, e.body)
    IN  Put([body EXCEPT !.loops = g.loops], <<Br(0), End, End>>)

\* The innermost loop, or the innermost of that label.
FindLoopFrame(g, label) ==
    g.loops[LargestOf({i \in DOMAIN g.loops : label = "" \/ g.loops[i].label = label})]

(* Mutant of JumpTo: the depth counts from the wrong end of the block. *)
JumpToOuter(g, target) ==
    LET gap == CurrentCfDepth(g) - target IN Put(g, <<Br(IF gap < 0 THEN 0 ELSE gap)>>)

\* The bindings declared in the loop are dropped, then the jump.
JumpTo(g, target) ==
    LET gap == CurrentCfDepth(g) - (target + 1) IN Put(g, <<Br(IF gap < 0 THEN 0 ELSE gap)>>)
GenJump(g, e) ==
    LET frame == FindLoopFrame(g, e.label)
    IN  JumpTo(EmitDropsFrom(g, frame.mark), IF e.k = "Break" THEN frame.brk ELSE frame.cont)

GenReturn(g, e) == Put(LeaveFunction(Gen("list", g, e.value)), <<<<"Return">>>>)

InternTableSlot(g, idx) ==
    IF \E i \in DOMAIN g.slots : g.slots[i] = idx THEN g
    ELSE [g EXCEPT !.slots = Append(@, idx)]
SlotOf(g, idx) == (CHOOSE i \in DOMAIN g.slots : g.slots[i] = idx) - 1
GenFnItemAddr(g, e) ==
    LET h == InternTableSlot(g, e.idx) IN Put(h, <<I32Const(SlotOf(h, e.idx))>>)

\* String literals share one pool, each at the end of what was there before.
PoolSize(pool) == SumTo([i \in DOMAIN pool |-> pool[i].len], Len(pool))
StrPoolBase == 8
InternStr(g, s) ==
    IF \E i \in DOMAIN g.pool : g.pool[i].s = s.s THEN g
    ELSE [g EXCEPT !.pool = Append(@, [s |-> s.s, len |-> s.len, at |-> PoolSize(@)])]
AddrOfStr(g, s) ==
    StrPoolBase + (CHOOSE x \in {g.pool[i] : i \in DOMAIN g.pool} : x.s = s.s).at

GenLit(g, e) ==
    LET lit == e.lit
        h == InternStr(g, lit)
    IN  CASE lit.k = "Int" -> EmitIntLit(g, e.ty, lit.n)
          [] lit.k = "Bool" -> Put(g, <<I32Const(IF lit.b THEN 1 ELSE 0)>>)
          [] lit.k = "Char" -> Put(g, <<I32Const(lit.n)>>)
          [] OTHER -> Put(h, <<I32Const(AddrOfStr(h, lit)), I32Const(lit.len)>>)

GenExpr(g, e) ==
    CASE e.k = "Lit" -> GenLit(g, e)
      [] e.k = "Local" -> GenLocal(g, e)
      [] e.k = "Block" -> Gen("block", g, e.block)
      [] e.k = "Builtin" -> EmitSimpleBuiltin(Gen("list", g, e.args), e.name, e.targs)
      [] e.k = "Tuple" -> Gen("list", g, e.args)
      [] e.k = "StructLit" -> Gen("list", g, e.fields)
      [] e.k = "Call" -> GenCall(g, e)
      [] e.k = "MethodCall" -> GenMethodCall(g, e)
      [] e.k = "Borrow" -> Gen("address", g, e.place)
      [] e.k = "BorrowOfValue" ->
            EmitMaterializeAsAddress(Gen("expr", g, e.value), e.value.ty)
      [] e.k = "PlaceLoad" -> GenPlaceLoad(g, e.place)
      [] e.k = "VariantConstruct" -> GenVariant(g, e)
      [] e.k = "Match" -> GenMatch(g, e)
      [] e.k = "Cast" -> EmitCast(Gen("expr", g, e.inner), e.inner.ty, e.ty)
      [] e.k = "Loop" -> GenLoop(g, e)
      [] e.k \in {"Break", "Continue"} -> GenJump(g, e)
      [] e.k = "Return" -> GenReturn(g, e)
      [] e.k = "MacroCall" -> Put(Gen("expr", g, e.args[1]), <<CallI(0), Unreachable>>)
      [] e.k = "FnItemAddr" -> GenFnItemAddr(g, e)
      [] e.k = "CallIndirect" -> GenCallIndirect(g, e)

Gen(how, g, x) ==
    IF ~g.ok THEN g
    ELSE CASE how = "expr" -> GenExpr(g, x)
           [] how = "list" -> GenList(g, x)
           [] how = "stmt" -> GenStmt(g, x)
           [] how = "stmts" -> GenStmts(g, x)
           [] how = "block" -> GenBlock(g, x)
           [] how = "address" -> GenPlaceAddress(g, x)
           [] how = "payload" -> GenPayload(g, x)
           [] how = "arms" -> GenArms(g, x)

-----------------------------------------------------------------------------
(* Bodies the generator refuses before it starts. *)

SupportedBuiltins ==
    {"size_of", "cast", "alloc", "free", "slice_ptr", "slice_mut_ptr", "slice_len", "str_len",
     "str_as_bytes", "str_as_mut_bytes", "make_slice", "make_mut_slice", "make_str",
     "make_mut_str", "ptr_usize_add", "ptr_usize_sub", "ptr_isize_offset"}
SupportsBuiltin(name) == name[1] \in SupportedBuiltins \/ Len(name) = 2

\* A struct pattern counts as refutable.
RECURSIVE IrrefutablePattern(_)
IrrefutablePattern(pat) ==
    CASE pat.k \in {"Wildcard", "Binding"} -> TRUE
      [] pat.k \in {"At", "Tuple", "Ref"} ->
            \A i \in DOMAIN Subpatterns(pat) : IrrefutablePattern(Subpatterns(pat)[i])
      [] OTHER -> FALSE

RECURSIVE Supports(_, _)

SupportsPlace(p) ==
    CASE p.k = "Local" -> TRUE
      [] p.k = "Field" -> Supports("place", p.base)
      [] p.k = "Deref" -> IsPointer(p.inner.ty) /\ Supports("expr", p.inner)

SupportsStmt(s) ==
    CASE s.k = "Expr" -> Supports("expr", s.e)
      [] s.k = "Let" -> Supports("expr", s.value)
      [] s.k = "LetUninit" -> TRUE
      [] s.k = "Assign" -> Supports("place", s.place) /\ Supports("expr", s.value)
      [] s.k = "LetPattern" ->
            /\ Supports("expr", s.value)
            /\ IF s.else = <<>> THEN IrrefutablePattern(s.pattern) ELSE Supports("block", s.else[1])

SupportsExpr(e) ==
    /\ e.k = "Builtin" => SupportsBuiltin(e.name)
    /\ e.k \in {"Borrow", "PlaceLoad"} => Supports("place", e.place)
    /\ e.k = "Loop" => Supports("block", e.body)
    /\ e.k = "Block" => Supports("block", e.block)
    /\ \A i \in DOMAIN PartsOfExpr(e) : Supports("expr", PartsOfExpr(e)[i])
    /\ e.k = "Match" =>
         \A i \in DOMAIN e.arms :
            /\ \A k \in DOMAIN e.arms[i].guard : Supports("expr", e.arms[i].guard[k])
            /\ Supports("expr", e.arms[i].body)

Supports(how, x) ==
    CASE how = "expr" -> SupportsExpr(x)
      [] how = "stmt" -> SupportsStmt(x)
      [] how = "place" -> SupportsPlace(x)
      [] how = "block" -> /\ \A i \in DOMAIN x.stmts : Supports("stmt", x.stmts[i])
                          /\ \A i \in DOMAIN x.tail : Supports("expr", x.tail[i])

-----------------------------------------------------------------------------
(* A function *)

\* A parameter in memory is stored from the wasm parameters it arrived in,
\* `incoming` being the first of them; an enum is copied from its address.
RECURSIVE SpillParams(_, _, _)
SpillParams(g, i, incoming) ==
    IF i > Len(g.locals) THEN g
    ELSE LET b == g.locals[i]
             dst == EmitAddressAtOffset(g, g.frameBase, b.st.at)
             spilt == CASE b.st.k # "Memory" -> g
                        [] b.st.k = "Memory" /\ IsEnum(b.ty) ->
                             EmitMemcpy(dst, dst.out, incoming, ByteSizeOf(b.ty))
                        [] OTHER -> Put(g, StoreCode(CollectLeaves(b.ty, 0), g.frameBase,
                                                     incoming, b.st.at))
         IN  SpillParams(spilt, i + 1, incoming + Len(FlattenRType(b.ty)))

RECURSIVE DeclareParamLocals(_, _, _)
DeclareParamLocals(g, i, incoming) ==
    IF i > Len(g.params) THEN g
    ELSE LET t == g.params[i]
             slot == g.lay.storage[i]
             st == IF slot.k = "Memory" THEN Storage("Memory", slot.off)
                   ELSE Storage("Local", incoming)
         IN  DeclareParamLocals([PushLocal(g, g.body.locals[i].name, t, st) EXCEPT !.at[i] = i],
                                i + 1, incoming + Len(FlattenRType(t)))

RECURSIVE FlagParams(_, _)
FlagParams(g, i) ==
    IF i > Len(g.params) THEN g
    ELSE FlagParams(IF g.locals[i].drop = "Flagged" THEN NewDropFlag(g, g.locals[i].name, 1) ELSE g,
                    i + 1)

SretParam(m) == IF ReturnsEnum(m) THEN <<"i32">> ELSE <<>>

NewGen(m, es, tab, slots, pool) ==
    LET lay == ComputeMonoLayout(m)
    IN  [ok |-> TRUE, why |-> "", out |-> 0, code |-> <<>>,
         vts |-> SretParam(m) \o FlattenAll(m.params), locals |-> <<>>, flags |-> <<>>,
         loops |-> <<>>, at |-> [b \in DOMAIN m.locals |-> 0], body |-> m, lay |-> lay,
         moved |-> m.moved, sites |-> m.sites, params |-> m.params, ret |-> m.ret,
         entrySp |-> 0, frameBase |-> 0, entries |-> es, table |-> tab, slots |-> slots,
         pool |-> pool]

\* The stack pointer at entry, the frame below it and the base of the frame.
Prologue(g) ==
    LET saved == Stash(Put(g, <<GlobalGet(GlobalSp)>>), <<"i32">>)
        frame == Put(saved, <<GlobalGet(GlobalSp), I32Const(g.lay.frame), I32Sub,
                              GlobalSet(GlobalSp)>>)
        based == Stash(Put(IF g.lay.frame = 0 THEN saved ELSE frame, <<GlobalGet(GlobalSp)>>),
                       <<"i32">>)
    IN  [based EXCEPT !.entrySp = saved.out, !.frameBase = based.out]

EmitFunctionConcrete(m, es, tab, slots, pool) ==
    LET first == Len(SretParam(m))
        g == DeclareParamLocals(NewGen(m, es, tab, slots, pool), 1, first)
        entry == FlagParams(SpillParams(Prologue(g), 1, first), 1)
    IN  IF Supports("block", m.body) THEN LeaveFunction(GenBody(entry, m.body))
        ELSE Stop(g, "rejected")
=============================================================================
