------------------------------ MODULE Closures ------------------------------
(***************************************************************************)
(* Closures: the captures that the type checker records while it walks a   *)
(* body (src/typeck/mod.rs), and the pass that turns every closure into a  *)
(* struct with impls of the Fn family (src/closure_lower.rs).              *)
(*                                                                         *)
(* A function makes a closure `f` with its last let and then calls it, as  *)
(* Fn, FnMut or FnOnce, as long as it has such an impl.  It is run twice:  *)
(* with the closures of the language, which reach the variables around     *)
(* them, and as it is lowered.                                             *)
(*                                                                         *)
(* An expression is a record: its kind k, its parts args, and the patterns *)
(* pats that bind names for some of them.  Its value is a number, a tuple, *)
(* a reference, a struct or a closure.  What a closure's own statements    *)
(* are typed as is left out: see Unifier and Matching.                     *)
(***************************************************************************)
EXTENDS Integers, SequencesExt, FiniteSetsExt, TLC

CONSTANTS Sources,        \* functions: a block of lets, the last of them of f
          Functions,      \* the functions there are, by name
          Owned,          \* the names whose values are not Copy
          CallArguments,  \* what f is called with
          MaxCalls

VARIABLES source,
          impls,          \* the methods of the synthesized impls, by struct and trait
          rust, ours,     \* the two runs
          calls           \* the traits f was called through

vars == <<calls, source, impls, rust, ours>>

Var(name) == [k |-> "Var", name |-> name, args |-> <<>>]
Wrap(k, e) == [k |-> k, args |-> <<e>>]
FieldOf(e, name) == [k |-> "Field", name |-> name, args |-> <<e>>]

-----------------------------------------------------------------------------
(* Scopes *)

\* An or-pattern binds what its first alternative does.
RECURSIVE PatternBindings(_)
PatternBindings(p) ==
    (IF p.k \in {"Binding", "At"} THEN <<p.name>> ELSE <<>>)
    \o IF p.k = "Or" THEN PatternBindings(p.subs[1])
       ELSE FlattenSeq([i \in DOMAIN p.subs |-> PatternBindings(p.subs[i])])

BindingsOf(pats) == FlattenSeq([i \in DOMAIN pats |-> PatternBindings(pats[i])])

\* The names e adds to the scope of its i-th part.  A let's name is there
\* after the let; an arm's in its guard and its body, which are the parts
\* after the scrutinee; those of an if let and a for in their first block.
Introduced(e, i) ==
    CASE e.k = "Block" -> BindingsOf(SubSeq(e.pats, 1, i - 1))
      [] e.k = "Match" /\ i > 1 -> PatternBindings(e.pats[i \div 2])
      [] e.k \in {"IfLet", "For"} /\ i = 2 -> PatternBindings(e.pats[1])
      [] e.k = "Closure" -> BindingsOf(e.pats)
      [] OTHER -> <<>>

-----------------------------------------------------------------------------
(* What the type checker records.  L is ctx.locals, by name.               *)

LocalNamed(L, name) == Max({0} \cup {i \in DOMAIN L : L[i] = name})
Use(L, name, mutated) == [name |-> name, at |-> LocalNamed(L, name), mutated |-> mutated]

RECURSIVE RootName(_)
RootName(place) == IF place.k = "Var" THEN place.name ELSE RootName(place.args[1])

\* An assignment, a compound assignment, which calls a method on `&mut` of
\* its place, and `&mut` upgrade the capture of their root.  The place that
\* is assigned to is not walked; a callee's name is not recorded.
OwnUses(e, L) ==
    CASE e.k = "Var" -> {Use(L, e.name, FALSE)}
      [] e.k \in {"Assign", "AddAssign", "BorrowMut"} -> {Use(L, RootName(e.args[1]), TRUE)}
      [] OTHER -> {}
Walked(e) == IF e.k = "Assign" THEN {2} ELSE DOMAIN e.args

RECURSIVE Uses(_, _)
Uses(e, L) ==
    OwnUses(e, L) \cup UNION {Uses(e.args[i], L \o Introduced(e, i)) : i \in Walked(e)}

(* Mutant of Mode: what is Copy is copied, mutated or not. *)
ModeOfCopy(isMove, name, mutated) ==
    IF isMove \/ name \notin Owned THEN "Move" ELSE IF mutated THEN "RefMut" ELSE "Ref"

Mode(isMove, name, mutated) ==
    CASE isMove -> "Move"
      [] mutated -> "RefMut"
      [] ~ mutated -> IF name \in Owned THEN "Ref" ELSE "Move"

\* A closure captures the locals below its barrier that its body uses.
Info(c, L) ==
    LET uses == {u \in Uses(c.args[1], L \o Introduced(c, 1)) : u.at \in DOMAIN L}
        MutatedIn(name) == \E u \in uses : u.name = name /\ u.mutated
    IN [id |-> c.id, isMove |-> c.isMove, params |-> c.pats, body |-> c.args[1],
        mutates |-> \E u \in uses : u.mutated,
        captures |-> [name \in {u.name : u \in uses} |-> Mode(c.isMove, name, MutatedIn(name))]]

\* FnSymbol.closures: the closures of e, each with what was recorded for it.
RECURSIVE ClosuresIn(_, _)
ClosuresIn(e, L) ==
    (IF e.k = "Closure" THEN {Info(e, L)} ELSE {})
    \cup UNION {ClosuresIn(e.args[i], L \o Introduced(e, i)) : i \in DOMAIN e.args}

-----------------------------------------------------------------------------
(* The pass *)

FieldInit(name, mode) ==
    CASE mode = "Move" -> Var(name)
      [] mode = "Ref" -> Wrap("Borrow", Var(name))
      [] mode = "RefMut" -> Wrap("BorrowMut", Var(name))

StructLit(info) ==
    LET names == SetToSeq(DOMAIN info.captures)
    IN [k |-> "StructLit", id |-> info.id, fields |-> names,
        args |-> [i \in DOMAIN names |-> FieldInit(names[i], info.captures[names[i]])]]

\* The closures inside a closure are rewritten before it.
RECURSIVE RewriteExpr(_, _)
RewriteExpr(e, infos) ==
    IF e.k = "Closure" THEN StructLit(CHOOSE info \in infos : info.id = e.id)
    ELSE [e EXCEPT !.args = [i \in DOMAIN e.args |-> RewriteExpr(e.args[i], infos)]]

\* By `self.name` a captured value, by `*self.name` a captured place.
Captured(name, mode) ==
    IF mode = "Move" THEN FieldOf(Var("self"), name)
    ELSE Wrap("Deref", FieldOf(Var("self"), name))

(* Mutant of CloneExpr: a let shadows the name in its own value. *)
RECURSIVE CloneLetFirst(_, _, _)
CloneLetFirst(e, captures, shadowed) ==
    IF e.k = "Var" /\ e.name \in DOMAIN captures \ shadowed
    THEN Captured(e.name, captures[e.name])
    ELSE [e EXCEPT !.args =
            [i \in DOMAIN e.args |->
                LET names == Introduced(e, IF e.k = "Block" THEN i + 1 ELSE i)
                IN CloneLetFirst(e.args[i], captures, shadowed \cup ToSet(names))]]

\* The copy of a body for one impl: a captured name that is not shadowed on
\* the way to its use is read through the struct.
RECURSIVE CloneExpr(_, _, _)
CloneExpr(e, captures, shadowed) ==
    IF e.k = "Var" /\ e.name \in DOMAIN captures \ shadowed
    THEN Captured(e.name, captures[e.name])
    ELSE [e EXCEPT !.args =
            [i \in DOMAIN e.args |->
                CloneExpr(e.args[i], captures, shadowed \cup ToSet(Introduced(e, i)))]]

(* Mutant of Families: every closure that is not `move` has the Fn impl. *)
FamiliesAll(info) == {"FnOnce"} \cup (IF info.isMove THEN {} ELSE {"FnMut", "Fn"})

Families(info) ==
    {"FnOnce"} \cup (IF info.isMove THEN {}
                     ELSE {"FnMut"} \cup (IF info.mutates THEN {} ELSE {"Fn"}))

Synthesized(infos) ==
    LET made == {<<info, family>> : info \in infos, family \in {"Fn", "FnMut", "FnOnce"}}
        kept == {m \in made : m[2] \in Families(m[1])}
        Method(m) == [params |-> m[1].params,
                      body |-> CloneExpr(RewriteExpr(m[1].body, infos), m[1].captures, {})]
        Key(m) == <<m[1].id, m[2]>>
    IN [key \in {Key(m) : m \in kept} |-> Method(CHOOSE m \in kept : Key(m) = key)]

\* Every method is type checked where it is registered: its names are those
\* of its receiver, its parameters and its own lets.
RECURSIVE Resolves(_, _)
Resolves(e, names) ==
    /\ e.k = "Var" => e.name \in names
    /\ e.k = "Call" => e.name \in names \cup Functions
    /\ \A i \in DOMAIN e.args : Resolves(e.args[i], names \cup ToSet(Introduced(e, i)))

AllResolve(methods) ==
    \A key \in DOMAIN methods :
        LET m == methods[key] IN Resolves(m.body, {"self"} \cup ToSet(BindingsOf(m.params)))

-----------------------------------------------------------------------------
(* Runs.  A state has the scope env, from names to places, the memory, the *)
(* numbers that were noted and the value v of what was run last; stuck is  *)
(* a call of a method that no impl has.                                    *)

Place(at, path) == [at |-> at, path |-> path]
Start == [env |-> <<>>, mem |-> <<>>, notes |-> <<>>, v |-> 0, stuck |-> FALSE]

Reference(place) == [tag |-> "ref", f |-> place]
Struct(tag, fields) == [tag |-> tag, f |-> fields]

Load(mem, place) == FoldLeft(LAMBDA v, name : v.f[name], mem[place.at], place.path)

RECURSIVE Updated(_, _, _)
Updated(v, path, new) ==
    IF path = <<>> THEN new ELSE [v EXCEPT !.f[Head(path)] = Updated(@, Tail(path), new)]
Store(s, place, v) == [s EXCEPT !.mem[place.at] = Updated(@, place.path, v), !.v = 0]

Declare(s, name, v) ==
    [s EXCEPT !.mem = Append(@, v), !.env = (name :> Place(Len(s.mem) + 1, <<>>)) @@ @]

RECURSIVE Fits(_, _)
Fits(p, v) ==
    CASE p.k = "LitInt" -> v = p.n
      [] p.k = "Tuple" -> \A i \in DOMAIN p.subs : Fits(p.subs[i], v.f[i])
      [] p.k = "Or" -> \E i \in DOMAIN p.subs : Fits(p.subs[i], v)
      [] p.k = "At" -> Fits(p.subs[1], v)
      [] OTHER -> TRUE

RECURSIVE Bind(_, _, _)
Bind(s, p, v) ==
    CASE p.k = "Binding" -> Declare(s, p.name, v)
      [] p.k = "At" -> Declare(Bind(s, p.subs[1], v), p.name, v)
      [] p.k = "Tuple" ->
            FoldLeftDomain(LAMBDA t, i : Bind(t, p.subs[i], v.f[i]), s, p.subs)
      [] p.k = "Or" -> Bind(s, p.subs[Min({i \in DOMAIN p.subs : Fits(p.subs[i], v)})], v)
      [] OTHER -> s

\* The place of an expression; a field is found through a reference.
RECURSIVE PlaceOf(_, _)
PlaceOf(e, s) ==
    CASE e.k = "Var" -> s.env[e.name]
      [] e.k = "Deref" -> Load(s.mem, PlaceOf(e.args[1], s)).f
      [] e.k = "Field" ->
            LET base == PlaceOf(e.args[1], s)
                v == Load(s.mem, base)
                place == IF v.tag = "ref" THEN v.f ELSE base
            IN [place EXCEPT !.path = Append(@, e.name)]

Back(s, t) == [t EXCEPT !.env = s.env]

RECURSIVE Eval(_, _, _), Invoke(_, _, _, _, _), TryArm(_, _, _, _, _)

\* The values of several expressions, in order.
EvalAll(es, s, methods) ==
    FoldLeft(LAMBDA acc, e : LET t == Eval(e, acc[1], methods) IN <<t, Append(acc[2], t.v)>>,
             <<s, <<>>>>, es)

\* The statements of a block, whose names stay in scope.
RunStatements(b, s, methods) ==
    FoldLeftDomain(LAMBDA t, i : LET u == Eval(b.args[i], t, methods)
                                 IN Bind(u, b.pats[i], u.v), s, b.args)

TryArm(e, i, v, s, methods) ==
    LET bound == Bind(s, e.pats[i], v)
        guard == Eval(e.args[2 * i], bound, methods)
    IN IF Fits(e.pats[i], v) /\ guard.v # 0 THEN Eval(e.args[2 * i + 1], guard, methods)
       ELSE TryArm(e, i + 1, v, IF Fits(e.pats[i], v) THEN Back(s, guard) ELSE s, methods)

Eval(e, s, methods) ==
    LET all == EvalAll(e.args, s, methods)
        t == all[1]
        vs == all[2]
        first == Eval(e.args[1], s, methods)
    IN CASE e.k = "Int" -> [s EXCEPT !.v = e.n]
         [] e.k \in {"Var", "Field", "Deref"} -> [s EXCEPT !.v = Load(s.mem, PlaceOf(e, s))]
         [] e.k \in {"Borrow", "BorrowMut"} -> [s EXCEPT !.v = Reference(PlaceOf(e.args[1], s))]
         [] e.k = "Add" -> [t EXCEPT !.v = vs[1] + vs[2]]
         [] e.k = "Tuple" -> [t EXCEPT !.v = Struct("tuple", vs)]
         [] e.k = "Struct" -> [t EXCEPT !.v = Struct("struct", e.name :> vs[1])]
         [] e.k \in {"Assign", "AddAssign"} ->
                LET u == Eval(e.args[2], s, methods)
                    place == PlaceOf(e.args[1], u)
                IN Store(u, place, u.v + IF e.k = "Assign" THEN 0 ELSE Load(u.mem, place))
         [] e.k = "Block" -> Back(s, RunStatements(e, s, methods))
         [] e.k = "If" -> Eval(e.args[IF first.v # 0 THEN 2 ELSE 3], first, methods)
         [] e.k = "IfLet" ->
                IF Fits(e.pats[1], first.v)
                THEN Back(s, Eval(e.args[2], Bind(first, e.pats[1], first.v), methods))
                ELSE Eval(e.args[3], first, methods)
         [] e.k = "Match" -> Back(s, TryArm(e, 1, first.v, first, methods))
         [] e.k = "For" ->       \* for pattern in 0..n
                FoldLeft(LAMBDA u, n : Back(s, Eval(e.args[2], Bind(u, e.pats[1], n), methods)),
                         first, [i \in 1 .. first.v |-> i - 1])
         [] e.k = "Closure" ->   \* it has all of its scope: by value, or by reference
                [s EXCEPT !.v = [tag |-> "closure", code |-> e,
                    f |-> [name \in DOMAIN s.env |->
                             IF e.isMove THEN Load(s.mem, s.env[name])
                             ELSE Reference(s.env[name])]]]
         [] e.k = "StructLit" ->
                [t EXCEPT !.v = [tag |-> "lowered", id |-> e.id,
                    f |-> [name \in ToSet(e.fields) |-> vs[LocalNamed(e.fields, name)]]]]
         [] e.k = "MethodCall" ->
                LET u == EvalAll(Tail(e.args), s, methods)
                IN Invoke(PlaceOf(e.args[1], s), e.family, u[2], u[1], methods)
         [] e.k = "Call" ->      \* a local before a function, and as Fn
                IF e.name \in DOMAIN s.env THEN Invoke(s.env[e.name], "Fn", vs, t, methods)
                ELSE IF e.name = "note" THEN [t EXCEPT !.notes = Append(@, vs[1]), !.v = 0]
                ELSE Store(t, vs[1].f, Load(t.mem, vs[1].f) + 1)     \* bump(&mut place)

\* A call of the closure at a place.  The method of an FnOnce has the struct,
\* the others a reference to it.
Invoke(at, family, vs, s, methods) ==
    LET callee == Load(s.mem, at)
        In(env, params, body) ==
            Back(s, Eval(body,
                         FoldLeftDomain(LAMBDA t, i : Bind(t, params[i], vs[i]),
                                        [s EXCEPT !.env = env], params), methods))
        own == [name \in DOMAIN callee.f |->
                  IF callee.code.isMove THEN [at EXCEPT !.path = Append(@, name)]
                  ELSE callee.f[name].f]
        self == Declare([s EXCEPT !.env = <<>>], "self",
                        IF family = "FnOnce" THEN callee ELSE Reference(at))
        m == methods[<<callee.id, family>>]
    IN CASE callee.tag = "closure" -> In(own, callee.code.pats, callee.code.args[1])
         [] callee.tag = "lowered" /\ <<callee.id, family>> \notin DOMAIN methods ->
                [s EXCEPT !.stuck = TRUE, !.v = 0]
         [] OTHER -> Back(s, Eval(m.body,
                        FoldLeftDomain(LAMBDA t, i : Bind(t, m.params[i], vs[i]), self, m.params),
                        methods))

-----------------------------------------------------------------------------
Init ==
    /\ source \in Sources
    /\ impls = <<>>
    /\ rust = Start /\ ours = Start
    /\ calls = <<>>

\* The function is checked, lowered, and run up to its calls of f.
Compile ==
    LET infos == ClosuresIn(source, <<>>)
        methods == Synthesized(infos)
    IN /\ impls = <<>>
       /\ impls' = methods
       /\ rust' = RunStatements(source, rust, <<>>)
       /\ ours' = IF AllResolve(methods)
                  THEN RunStatements(RewriteExpr(source, infos), ours, methods)
                  ELSE [ours EXCEPT !.stuck = TRUE]
       /\ UNCHANGED <<source, calls>>

Id == ours.mem[ours.env["f"].at].id

\* f.call((n,)), f.call_mut((n,)), f.call_once((n,))
Call(family, n) ==
    /\ impls # <<>> /\ ~ ours.stuck /\ Len(calls) < MaxCalls
    /\ "FnOnce" \notin ToSet(calls)
    /\ <<Id, family>> \in DOMAIN impls
    /\ rust' = Invoke(rust.env["f"], family, <<n>>, rust, <<>>)
    /\ ours' = Invoke(ours.env["f"], family, <<n>>, ours, impls)
    /\ calls' = Append(calls, family)
    /\ UNCHANGED <<source, impls>>

Next == Compile \/ \E family \in {"Fn", "FnMut", "FnOnce"}, n \in CallArguments : Call(family, n)

Spec == Init /\ [][Next]_vars

-----------------------------------------------------------------------------
\* The function's variables that are no closures, and their values.
Plain == {source.pats[i].name : i \in {j \in DOMAIN source.pats : source.args[j].k # "Closure"}}
Values(s) == [name \in Plain |-> Load(s.mem, s.env[name])]

(* A lowered closure does, call after call and whatever it is called as,   *)
(* what the closure does: it notes the same numbers, returns the same, and *)
(* leaves the variables around it with the same values (the names that are *)
(* rewritten, closure_lower.rs:922, and the modes of typeck/mod.rs:3276).  *)
CallsDoTheSame ==
    impls # <<>> /\ ~ ours.stuck =>
        /\ ours.notes = rust.notes
        /\ Values(ours) = Values(rust)
        /\ calls # <<>> => ours.v = rust.v

\* The closures of the scope that e calls as FnMut.
RECURSIVE MutatedThrough(_, _)
MutatedThrough(e, names) ==
    (IF e.k = "MethodCall" /\ e.family = "FnMut" THEN {RootName(e.args[1])} \ names ELSE {})
    \cup UNION {MutatedThrough(e.args[i], names \cup ToSet(Introduced(e, i))) :
                 i \in DOMAIN e.args}

(* A call through the Fn impl, which has the struct behind a shared        *)
(* reference, writes to nothing that was there before it                   *)
(* (closure_lower.rs:519: only read-only closures get this impl).  A       *)
(* `call_mut` of a captured closure is excluded: it is not recorded as a   *)
(* mutation (typeck/methods.rs:766).                                       *)
FnOnlyReads ==
    [][/\ calls' # calls /\ Last(calls') = "Fn"
       /\ MutatedThrough(Last(source.args).args[1], {}) = {}
       => IsPrefix(ours.mem, ours'.mem)]_vars

\* The names e calls that are bound outside of it.
RECURSIVE CalleesAround(_, _)
CalleesAround(e, names) ==
    (IF e.k = "Call" THEN {e.name} \ names ELSE {})
    \cup UNION {CalleesAround(e.args[i], names \cup ToSet(Introduced(e, i))) :
                 i \in DOMAIN e.args}

(* The lowered methods have names for all they use, and impls for all they *)
(* call: the second check refuses none of them, but for a call of a        *)
(* captured closure by its bare name, which is no use that is recorded     *)
(* (typeck/mod.rs:7278).                                                   *)
LoweredIsAccepted ==
    ours.stuck =>
        \E info \in ClosuresIn(source, <<>>) :
            CalleesAround(info.body, ToSet(BindingsOf(info.params))) \ Functions # {}
=============================================================================
