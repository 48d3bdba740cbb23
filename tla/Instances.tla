----------------------------- MODULE Instances ------------------------------
(* Which instances of which generic functions a crate needs                  *)
(* (src/mono.rs: MonoTable, discover_in_body and what it walks, expand).     *)
(*                                                                           *)
(* Every non-generic function of the crate is walked first, then every entry *)
(* of the table, entries added on the way included; a walk asks for the      *)
(* instances that lowering and code generation will look up. A body is the   *)
(* typed AST: every node carries the type and the resolution typeck recorded *)
(* for it.                                                                   *)
EXTENDS RTypes

CONSTANT Funs      \* name -> [tparams, implParams, params, ret, body, moved, sites]
CONSTANT Crates    \* name -> [fns, entry, inputs]

VARIABLES
    unit,          \* the crate under compilation
    walked,        \* how many of its non-generic functions have been walked
    table,         \* the intern table: Seq([fn, args])
    cursor         \* how many of its entries have been expanded

instanceVars == <<unit, walked, table, cursor>>

Entries == Crates[unit].fns
IsTemplate(f) == Funs[f].tparams # <<>>

-----------------------------------------------------------------------------
(* MonoTable: function 0 is the import, the crate's own functions follow, one *)
(* index is reserved for the empty drop of the vtables, instances come last.  *)

FirstIdx(es) == Len(es) + 2
IsInterned(tab, f, args) == \E i \in DOMAIN tab : tab[i].fn = f /\ tab[i].args = args
LookupIdx(es, tab, f, args) ==
    FirstIdx(es) - 1 + CHOOSE i \in DOMAIN tab : tab[i].fn = f /\ tab[i].args = args
Intern(tab, req) == IF IsInterned(tab, req.fn, req.args) THEN tab ELSE Append(tab, req)

RECURSIVE InternAll(_, _)
InternAll(tab, reqs) ==
    IF reqs = <<>> THEN tab ELSE InternAll(Intern(tab, Head(reqs)), Tail(reqs))

BuildEnv(f, args) == StructEnv(Funs[f].tparams, args)
SubstVec(ts, env) == [i \in DOMAIN ts |-> SubstituteRType(ts[i], env)]

-----------------------------------------------------------------------------
(* Requests: the sequence of instances a piece of a body asks for. *)

Request(f, args) == IF IsTemplate(f) THEN <<[fn |-> f, args |-> args]>> ELSE <<>>

\* The arguments of an impl's parameters, as the search bound them.
ImplArgs(f, subst, n) == [k \in 1 .. n |-> subst[Funs[f].tparams[k]]]

HasMethod(idx, method) == idx # 0 /\ method \in DOMAIN Impls[idx].methods

\* A method found through the impl of a trait; it has no parameters of its own.
RegisterTraitMethod(trait, targs, recv, method) ==
    LET r == SolveImpl(trait, targs, recv, 0)
        f == Impls[r.idx].methods[method]
    IN  IF HasMethod(r.idx, method)
        THEN Request(f, ImplArgs(f, r.subst, Funs[f].implParams))
        ELSE <<>>

\* The drop of a box of a trait object goes through the vtable.
IsBoxOfDyn(t) == t.h = "Box" /\ Len(t.args) = 1 /\ t.args[1].h = "dyn"
RegisterDropMono(t) ==
    IF IsBoxOfDyn(t) THEN <<>> ELSE RegisterTraitMethod("Drop", <<>>, t, "drop")

RECURSIVE DropsOfPattern(_, _)
DropsOfPattern(pat, t) ==
    CASE pat.k = "Binding" -> RegisterDropMono(t)
      [] pat.k = "At" -> RegisterDropMono(t) \o DropsOfPattern(pat.inner, t)
      [] OTHER -> <<>>

\* A method call dispatched through a trait: the impl's parameters, then the
\* method's own, when all of those were recorded.
DispatchRequest(res, env) ==
    LET r == SolveImpl(res.trait, SubstVec(res.targs, env),
                       PeelRef(SubstituteRType(res.recv, env)), 0)
        f == Impls[r.idx].methods[res.method]
        own == Len(Funs[f].tparams) - Funs[f].implParams
    IN  IF HasMethod(r.idx, res.method) /\ Len(res.margs) = own
        THEN Request(f, ImplArgs(f, r.subst, Funs[f].implParams) \o SubstVec(res.margs, env))
        ELSE <<>>

CallRequest(res, env) ==
    IF res.k = "Generic" THEN Request(res.fn, SubstVec(res.targs, env)) ELSE <<>>
MethodRequest(res, env) ==
    CASE res.k = "Dispatch" -> DispatchRequest(res, env)
      [] res.k = "Generic" -> Request(res.fn, SubstVec(res.targs, env))
      [] OTHER -> <<>>

\* `*e` of anything but a pointer goes through Deref::deref.
DerefRequest(e, env) ==
    LET t == SubstituteRType(e.inner.ty, env)
    IN  IF IsPointer(t) THEN <<>> ELSE RegisterTraitMethod("Deref", <<>>, t, "deref")

\* The walk cannot tell which of the two an index will use and asks for both.
IndexRequest(e, env) ==
    LET recv == PeelRef(SubstituteRType(e.base.ty, env))
        idx == <<SubstituteRType(e.index.ty, env)>>
    IN  RegisterTraitMethod("Index", idx, recv, "index")
        \o RegisterTraitMethod("IndexMut", idx, recv, "index_mut")

ForRequest(e, env) ==
    RegisterTraitMethod("Iterator", <<>>, SubstituteRType(e.iter.ty, env), "next")

\* What the node itself asks for, after its parts.
OwnRequest(e, env) ==
    CASE e.k = "Call" -> CallRequest(e.res, env)
      [] e.k = "MethodCall" -> MethodRequest(e.res, env)
      [] e.k = "Deref" -> DerefRequest(e, env)
      [] e.k = "Index" -> IndexRequest(e, env)
      [] e.k = "For" -> ForRequest(e, env)
      [] OTHER -> <<>>

InExpr(e) == [how |-> "expr", x |-> e]
InBlock(b) == [how |-> "block", x |-> b]
ExprsOf(es) == [i \in DOMAIN es |-> InExpr(es[i])]

\* The operands of an expression, in the order they are walked.
OperandsOf(e) ==
    CASE e.k \in {"Builtin", "Call", "Tuple", "MacroCall", "Return"} -> ExprsOf(e.args)
      [] e.k \in {"Borrow", "Cast", "Try", "Deref"} -> <<InExpr(e.inner)>>
      [] e.k \in {"FieldAccess", "TupleIndex"} -> <<InExpr(e.base)>>
      [] e.k = "MethodCall" -> <<InExpr(e.recv)>> \o ExprsOf(e.args)
      [] e.k = "StructLit" -> ExprsOf([i \in DOMAIN e.fields |-> e.fields[i].value])
      [] e.k = "Index" -> <<InExpr(e.base), InExpr(e.index)>>
      [] OTHER -> <<>>

\* The parts of the forms with blocks. The arms of a match are walked, their
\* guards are not.
BodiesOf(e) ==
    CASE e.k = "If" -> <<InExpr(e.cond), InBlock(e.then), InBlock(e.else)>>
      [] e.k = "Block" -> <<InBlock(e.block)>>
      [] e.k = "Match" ->
            <<InExpr(e.scrutinee)>> \o ExprsOf([i \in DOMAIN e.arms |-> e.arms[i].body])
      [] e.k = "IfLet" -> <<InExpr(e.scrutinee), InBlock(e.then), InBlock(e.else)>>
      [] e.k = "While" -> <<InExpr(e.cond), InBlock(e.body)>>
      [] e.k = "For" -> <<InExpr(e.iter), InBlock(e.body)>>
      [] OTHER -> OperandsOf(e)

\* A let asks for the drop of its value and of the names its pattern gives it.
LetRequest(s, env) ==
    IF s.value = <<>> THEN <<>>
    ELSE LET t == SubstituteRType(s.value[1].ty, env)
         IN  RegisterDropMono(t) \o DropsOfPattern(s.pattern, t)

PartsOfStmt(s) ==
    CASE s.k = "Let" -> ExprsOf(s.value) \o [i \in DOMAIN s.else |-> InBlock(s.else[i])]
      [] s.k = "Assign" -> <<InExpr(s.lhs), InExpr(s.rhs)>>
      [] OTHER -> <<InExpr(s.e)>>

RECURSIVE Walk(_, _, _)
Walk(how, x, env) ==
    CASE how = "list" ->
            IF x = <<>> THEN <<>>
            ELSE Walk(Head(x).how, Head(x).x, env) \o Walk("list", Tail(x), env)
      [] how = "expr" -> Walk("list", BodiesOf(x), env) \o OwnRequest(x, env)
      [] how = "stmt" -> Walk("list", PartsOfStmt(x), env)
                         \o (IF x.k = "Let" THEN LetRequest(x, env) ELSE <<>>)
      [] how = "block" -> Walk("list", [i \in DOMAIN x.stmts |-> [how |-> "stmt", x |-> x.stmts[i]]]
                                       \o ExprsOf(x.tail), env)

RECURSIVE DropsOfParams(_, _)
DropsOfParams(ps, env) ==
    IF ps = <<>> THEN <<>>
    ELSE RegisterDropMono(SubstituteRType(Head(ps).ty, env)) \o DropsOfParams(Tail(ps), env)

DiscoverInBody(f, env) ==
    DropsOfParams(Funs[f].params, env) \o Walk("block", Funs[f].body, env)

-----------------------------------------------------------------------------
(* expand *)

InstancesInit ==
    /\ unit \in DOMAIN Crates
    /\ walked = 0 /\ table = <<>> /\ cursor = 0

WalkNonGeneric ==
    /\ walked < Len(Entries)
    /\ table' = InternAll(table, DiscoverInBody(Entries[walked + 1], <<>>))
    /\ walked' = walked + 1
    /\ UNCHANGED <<unit, cursor>>

(* Mutant of ExpandEntry: the bodies of the instances are not walked. *)
ExpandNothing ==
    /\ walked = Len(Entries)
    /\ cursor < Len(table)
    /\ cursor' = cursor + 1
    /\ UNCHANGED <<unit, walked, table>>

ExpandEntry ==
    /\ walked = Len(Entries)
    /\ cursor < Len(table)
    /\ LET e == table[cursor + 1]
       IN  table' = InternAll(table, DiscoverInBody(e.fn, BuildEnv(e.fn, e.args)))
    /\ cursor' = cursor + 1
    /\ UNCHANGED <<unit, walked>>

InstancesNext == WalkNonGeneric \/ ExpandEntry

Expanded == walked = Len(Entries) /\ cursor = Len(table)
=============================================================================
