------------------------------ MODULE Lowering ------------------------------
(***************************************************************************)
(* The graph that build.rs makes of a function, run beside the function    *)
(* itself.  The function runs by a machine that knows nothing of blocks:   *)
(* a stack of the work left to do and the names in scope.  Both machines   *)
(* do silent steps up to their next event (a named local becomes live,     *)
(* gets a value, is moved, is borrowed, dies; a branch is decided), and    *)
(* each step of the specification is one event of both, the branches being *)
(* decided the same way.                                                   *)
(*                                                                         *)
(* Temporaries are the graph's own business, and a Copy place is read      *)
(* where the graph needs it: neither is an event.                          *)
(***************************************************************************)
EXTENDS Builder, TLC

CONSTANT Sources     \* the functions

VARIABLES func,    \* the function that runs
          graph,   \* Build of it
          pc,      \* <<block, index>> in graph
          work,    \* what the function still has to do, innermost first
          env      \* its names in scope, with the local each stands for

vars == <<func, graph, pc, work, env>>

Event(kind, pl) == [k |-> kind, pl |-> pl]
Branch   == Event("branch", <<>>)

-----------------------------------------------------------------------------
(* The graph's machine.  A statement is the sequence of its events. *)

Named(g, p) == p # <<>> /\ g.locals[p[1]].name # ""

OperandEvents(g, op) ==
  IF op.k = "move" /\ Named(g, op.pl) THEN <<Event("move", op.pl)>> ELSE <<>>

RvalueEvents(g, rv) ==
  FlattenSeq([i \in DOMAIN rv.ops |-> OperandEvents(g, rv.ops[i])])
    \o (IF rv.k = "borrow" /\ Named(g, rv.pl) THEN <<Event("borrow", rv.pl)>> ELSE <<>>)
    \o (IF rv.k = "disc" THEN <<Event("disc", <<0>> \o Tail(rv.pl))>> ELSE <<>>)

StmtEvents(g, s) ==
  IF s.k = "assign"
  THEN RvalueEvents(g, s.rv) \o
         (IF Named(g, s.pl) THEN <<Event("assign", s.pl)>> ELSE <<>>)
  ELSE IF Named(g, s.pl) THEN <<Event(s.k, s.pl)>> ELSE <<>>

TermEvent(t) ==
  CASE t.k \in {"return", "unreachable"} -> Event(t.k, <<>>)
    [] OTHER -> Branch

Events(g, blk) == FlattenSeq([i \in DOMAIN g.blocks[blk].stmts |->
                                StmtEvents(g, g.blocks[blk].stmts[i])])

RECURSIVE Rest(_, _)
Rest(g, at) ==
  LET evs  == Events(g, at[1])
      term == g.blocks[at[1]].term
  IN  IF at[2] > Len(evs) /\ term.k = "goto" THEN Rest(g, <<term.to[1], 1>>) ELSE at

GraphEvent(g, at) ==
  LET r == Rest(g, at)
      evs == Events(g, r[1])
  IN  IF r[2] <= Len(evs) THEN evs[r[2]] ELSE TermEvent(g.blocks[r[1]].term)

GraphStep(g, at, way) ==
  LET r == Rest(g, at)
  IN  IF r[2] <= Len(Events(g, r[1])) THEN <<r[1], r[2] + 1>>
      ELSE <<g.blocks[r[1]].term.to[way], 1>>

-----------------------------------------------------------------------------
(* The function's machine.  Work is a sequence of items:                   *)
(*   eval e dest     the value of e is made and put into dest              *)
(*   body blk dest   a block, the value of its tail put into dest          *)
(*   stmt s          a statement                                           *)
(*   event kind pl   an event on a named place                             *)
(*   choose ways     a branch: one of two sequences of items               *)
(*   test ps ok no   the pairs <<pattern, projections>> ps are tested in   *)
(*                   order, then ok; no as soon as one fails               *)
(*   arms e i dest   the arms of a match from the i-th                     *)
(*   bind name value a binding becomes live, then gets its value: that of  *)
(*                   an expression, a part of what a pattern Matched, no   *)
(*                   value (None), or an item of an Iterator               *)
(*   enter name l    the name is in scope and stands for the local l       *)
(*   scope n         the names after the first n end, the last one first   *)
(*   forget n        a jump leaves those names behind                      *)
(*   loop e          another round of a loop; names says how many names    *)
(*                   are in scope around it                                *)
(*   stop kind       the run is over                                       *)
(* A destination is a place, <<>> if it has no name.                       *)
Eval(e, dest)     == [k |-> "eval", e |-> e, dest |-> dest]
Body(blk, dest)   == [k |-> "body", blk |-> blk, dest |-> dest]
Ev(kind, pl)      == IF pl = <<>> THEN <<>> ELSE <<[k |-> "event", kind |-> kind, pl |-> pl]>>
Choose(yes, no)   == [k |-> "choose", ways |-> <<yes, no>>]
Tests(ps, ok, no) == [k |-> "test", ps |-> ps, ok |-> ok, no |-> no]
Arms(e, i, dest)  == [k |-> "arms", e |-> e, i |-> i, dest |-> dest]
Bind(name, value) == [k |-> "bind", name |-> name, value |-> value]
Scope(n)          == [k |-> "scope", n |-> n]
Forget(n)         == [k |-> "forget", n |-> n]
Loop(e, n)        == [k |-> "loop", e |-> e, n |-> n]
Stop(kind)        == [k |-> "stop", kind |-> kind]

Matched  == [k |-> "matched"]
Iterator == [k |-> "iterator"]

EvalAll(es) == [i \in DOMAIN es |-> Eval(es[i], <<>>)]

(* What has to be evaluated to reach the place of e. *)
RECURSIVE Reach(_)
Reach(e) == CASE e.k \in {"const", "var"} -> <<>>
              [] e.k \in {"field", "deref"} -> Reach(e.base)
              [] OTHER -> <<Eval(e, <<>>)>>

(* The place of e, or <<>> when it is part of a value without a name. *)
LocalOf(names, n) == names[SelectLastInSeq(names, LAMBDA x : x[1] = n)][2]
RECURSIVE PlaceOf(_, _)
PlaceOf(e, names) ==
  CASE e.k = "var" -> <<LocalOf(names, e.name)>>
    [] e.k \in {"field", "deref"} ->
         LET p == PlaceOf(e.base, names)
         IN  IF p = <<>> THEN <<>>
             ELSE Append(p, IF e.k = "deref" THEN "*" ELSE e.field)
    [] OTHER -> <<>>

Moves(ty) == ~IsCopy(ty) /\ ~(ty.t = "ref" /\ ty.mut)

Borrowed(e, names) == Reach(e) \o Ev("borrow", PlaceOf(e, names))

Received(e, names) ==
  CASE e.adjust \in {"BorrowImm", "BorrowMut"} -> Borrowed(e.recv, names)
    [] e.adjust = "ByRef" -> Reach(e.recv)
    [] e.adjust = "Move"  -> <<Eval(e.recv, <<>>)>>

(* A call through a local takes what the local holds, if it needs it all. *)
TakenBy(e, names) ==
  IF e.bare = "" \/ e.adjust # "Move" THEN <<>>
  ELSE Ev("move", <<LocalOf(names, e.bare)>>)

(* The names a pattern binds; an alternative binds what the others bind. *)
RECURSIVE NamesOf(_)
NamesOf(pat) ==
  CASE pat.k = "bind"  -> <<pat.name>>
    [] pat.k = "at"    -> <<pat.name>> \o NamesOf(pat.inner)
    [] pat.k = "ref"   -> NamesOf(pat.inner)
    [] pat.k = "parts" -> FlattenSeq([i \in DOMAIN pat.subs |-> NamesOf(pat.subs[i][2])])
    [] pat.k = "or"    -> NamesOf(pat.alts[1])
    [] OTHER           -> <<>>

Binds(pat) == [i \in DOMAIN NamesOf(pat) |-> Bind(NamesOf(pat)[i], Matched)]

(* Making the value of e: the items in order; its value is stored last. *)
Making(e, names) ==
  CASE e.k = "const" -> <<>>
    [] IsPlaceExpr(e) ->
         Reach(e) \o (IF Moves(e.ty) THEN Ev("move", PlaceOf(e, names)) ELSE <<>>)
    [] e.k = "borrow" -> Borrowed(e.base, names)
    [] e.k \in {"cast", "tuple", "builtin", "struct", "variant"} -> EvalAll(e.args)
    [] e.k = "call"   -> TakenBy(e, names) \o EvalAll(e.args)
    [] e.k = "method" -> Received(e, names) \o EvalAll(e.args)
    [] e.k = "index"  -> Borrowed(e.base, names) \o <<Eval(e.index, <<>>)>>
    [] e.k = "try"    -> <<Eval(e.inner, <<>>)>>
    [] e.k = "while"  -> <<Loop(e, Len(names))>>
    [] e.k = "for"    -> <<Eval(e.iter, <<>>), Loop(e, Len(names))>>

(* The value of a branching expression is stored where its branches end. *)
Branches(e, dest, names) ==
  CASE e.k = "if"    -> <<Eval(e.cond, <<>>), Choose(<<Body(e.then, dest)>>,
                                                     <<Body(e.else, dest)>>)>>
    [] e.k = "block" -> <<Body(e.body, dest)>>
    [] e.k = "match" -> <<Eval(e.scrut, <<>>), Arms(e, 1, dest)>>
    [] e.k = "iflet" ->
         <<Eval(e.scrut, <<>>),
           Tests(<<<<e.pat, <<>>>>>>,
                 Binds(e.pat) \o <<Body(e.then, dest), Scope(Len(names))>>,
                 <<Body(e.else, dest)>>)>>

ArmItems(it, names) ==
  IF it.i > Len(it.e.arms) THEN <<Stop("unreachable")>>
  ELSE LET arm  == it.e.arms[it.i]
           body == <<Eval(arm.body, it.dest), Scope(Len(names))>>
           next == <<Arms(it.e, it.i + 1, it.dest)>>
       IN  <<Tests(<<<<arm.pat, <<>>>>>>,
               Binds(arm.pat) \o
                 (IF arm.guard = None THEN body
                  ELSE <<Eval(arm.guard, <<>>),
                         Choose(body, <<Forget(Len(names))>> \o next)>>),
               next)>>

StmtItems(s, names) ==
  CASE s.k = "expr"   -> <<Eval(s.e, <<>>)>>
    [] s.k = "assign" -> Reach(s.lhs) \o <<Eval(s.rhs, PlaceOf(s.lhs, names))>>
    [] s.k = "let" /\ IsSimple(s) -> <<Bind(s.pat.name, s.value)>>
    [] s.k = "let"    ->
         <<Eval(s.value, <<>>)>> \o
         (IF s.else = None THEN <<>>
          ELSE <<Tests(<<<<s.pat, <<>>>>>>, <<>>,
                       <<Body(s.else, <<>>), Stop("unreachable")>>)>>)
         \o Binds(s.pat)

(* The work after a binding has become live as the local l. *)
Bound(it, l) ==
  (CASE it.value = Matched -> Ev("assign", <<l>>)
     [] it.value = Iterator -> <<>>
     [] it.value = None     -> Ev("uninit", <<l>>)
     [] OTHER               -> <<Eval(it.value, <<l>>)>>)
  \o <<[k |-> "enter", name |-> it.name, local |-> l]>>

(* One round of a loop; the loop itself stays below the round's body. *)
Round(it) ==
  IF it.e.k = "while"
  THEN <<Eval(it.e.cond, <<>>), Choose(<<Body(it.e.body, <<>>), it>>, <<>>)>>
  ELSE <<Choose([i \in DOMAIN NamesOf(it.e.pat) |-> Bind(NamesOf(it.e.pat)[i], Iterator)]
                  \o <<Body(it.e.body, <<>>), Scope(it.n), it>>, <<>>)>>

(* The first test of it.ps.  A pattern that always matches is no test. *)
TestItems(it) ==
  IF it.ps = <<>> THEN it.ok
  ELSE
  LET pat   == it.ps[1][1]
      at    == it.ps[1][2] \o [i \in 1..pat.peel |-> "*"]
      rest  == Tail(it.ps)
      Then(ps) == <<Tests(ps \o rest, it.ok, it.no)>>
      parts == [i \in DOMAIN pat.subs |-> <<pat.subs[i][2], Append(at, pat.subs[i][1])>>]
      more  == [pat EXCEPT !.alts = Tail(@)]
  IN CASE pat.k \in {"wild", "bind"} -> Then(<<>>)
       [] pat.k = "at"  -> Then(<<<<pat.inner, at>>>>)
       [] pat.k = "ref" -> Then(<<<<pat.inner, Append(at, "*")>>>>)
       [] pat.k \in {"int", "range"} -> <<Choose(Then(<<>>), it.no)>>
       [] pat.k = "bool" -> <<IF pat.value THEN Choose(Then(<<>>), it.no)
                              ELSE Choose(it.no, Then(<<>>))>>
       [] pat.k = "parts" /\ pat.variant # "" ->
            <<[k |-> "event", kind |-> "disc", pl |-> <<0>> \o at], Choose(Then(parts), it.no)>>
       [] pat.k = "parts" -> Then(parts)
       [] pat.k = "or"  ->
            <<Tests(<<<<pat.alts[1], at>>>>, Then(<<>>),
                    IF Len(pat.alts) = 1 THEN it.no ELSE Then(<<<<more, at>>>>))>>

(* The work around the loop that a break or a continue is for. *)
RECURSIVE Unwind(_, _)
Unwind(todo, label) ==
  IF todo[1].k = "loop" /\ (label = "" \/ todo[1].e.label = label) THEN todo
  ELSE Unwind(Tail(todo), label)

(* The machine after its silent steps: its first item is an event. *)
RECURSIVE Settle(_, _)
Settle(todo, names) ==
  LET it   == todo[1]
      rest == Tail(todo)
      Do(items) == Settle(items \o rest, names)
  IN CASE it.k = "eval" /\ it.e.k \in Branching -> Do(Branches(it.e, it.dest, names))
       [] it.k = "eval" /\ it.e.k \in {"break", "continue"} ->
            LET around == Unwind(rest, it.e.label)
            IN  Settle(IF it.e.k = "break" THEN Tail(around) ELSE around,
                       SubSeq(names, 1, around[1].n))
       [] it.k = "eval" /\ it.e.k = "return" ->
            Do((IF it.e.value = None THEN <<>> ELSE <<Eval(it.e.value, <<>>)>>)
                 \o <<Stop("return")>>)
       [] it.k = "eval" /\ it.e.k = "panic" ->
            Do(EvalAll(it.e.args) \o <<Stop("unreachable")>>)
       [] it.k = "eval"  -> Do(Making(it.e, names) \o Ev("assign", it.dest))
       [] it.k = "body"  ->
            Do([i \in DOMAIN it.blk.stmts |-> [k |-> "stmt", s |-> it.blk.stmts[i]]]
                 \o (IF it.blk.tail = None THEN <<>> ELSE <<Eval(it.blk.tail, it.dest)>>)
                 \o <<Scope(Len(names))>>)
       [] it.k = "stmt"  -> Do(StmtItems(it.s, names))
       [] it.k = "arms"  -> Do(ArmItems(it, names))
       [] it.k = "test"  -> Do(TestItems(it))
       [] it.k = "loop"  -> Do(Round(it))
       [] it.k = "enter" -> Settle(rest, Append(names, <<it.name, it.local>>))
       [] it.k = "forget" -> Settle(rest, SubSeq(names, 1, it.n))
       [] it.k = "scope" /\ Len(names) = it.n -> Settle(rest, names)
       [] OTHER -> [work |-> todo, env |-> names]

(* The event of a settled machine.  The local a binding stands for is the  *)
(* graph's choice.                                                         *)
SourceEvent(todo, names, local) ==
  LET it == todo[1]
  IN CASE it.k = "event"  -> Event(it.kind, it.pl)
       [] it.k = "choose" -> Branch
       [] it.k = "bind"   -> Event("live", <<local>>)
       [] it.k = "scope"  -> Event("dead", <<Last(names)[2]>>)
       [] it.k = "stop"   -> Event(it.kind, <<>>)

SourceStep(todo, names, local, way) ==
  LET it   == todo[1]
      rest == Tail(todo)
  IN CASE it.k = "event"  -> Settle(rest, names)
       [] it.k = "choose" -> Settle(it.ways[way] \o rest, names)
       [] it.k = "bind"   -> Settle(Bound(it, local) \o rest, names)
       [] it.k = "scope"  -> Settle(todo, Front(names))

-----------------------------------------------------------------------------
ParamLocals(f) ==
  [i \in DOMAIN f.params |-> <<f.params[i].name, IF f.ret = Unit THEN i ELSE i + 1>>]

Init ==
  /\ func \in Sources
  /\ graph = Build(func)
  /\ pc = <<1, 1>>
  /\ LET start == Settle(<<Body(func.body, <<>>), Scope(0), Stop("return")>>,
                        ParamLocals(func))
     IN  work = start.work /\ env = start.env

Now == GraphEvent(graph, pc)

Agree == SourceEvent(work, env, IF Now.pl = <<>> THEN 0 ELSE Now.pl[1]) = Now

(* One event of both machines, a branch going the same way in both.  They  *)
(* stop where they disagree.                                               *)
Step ==
  /\ Now.k \notin {"return", "unreachable"}
  /\ Agree
  /\ \E way \in IF Now = Branch THEN {1, 2} ELSE {1} :
       /\ pc' = GraphStep(graph, pc, way)
       /\ LET next == SourceStep(work, env, Now.pl[1], way)
          IN  work' = next.work /\ env' = next.env
  /\ UNCHANGED <<func, graph>>

Next == Step

Spec == Init /\ [][Next]_vars

-----------------------------------------------------------------------------
(* An expression whose evaluation has no event: it may be evaluated again, *)
(* and nothing tells.                                                      *)
RECURSIVE Quiet(_)
Quiet(e) ==
  CASE e.k = "const" -> TRUE
    [] IsPlaceExpr(e) -> ~Moves(e.ty) /\ \A i \in DOMAIN Reach(e) : Quiet(Reach(e)[i].e)
    [] e.k = "call" -> e.bare = "" /\ \A i \in DOMAIN e.args : Quiet(e.args[i])
    [] e.k \in {"cast", "tuple", "builtin", "struct", "variant"} ->
         \A i \in DOMAIN e.args : Quiet(e.args[i])
    [] e.k = "try" -> Quiet(e.inner)
    [] OTHER -> FALSE

(* Where the parts of an expression, statement, block or arm stand. *)
Single == {"base", "recv", "index", "cond", "then", "else", "body", "inner", "iter", "scrut",
           "guard", "value", "lhs", "rhs", "e", "tail"}
Several == {"args", "arms", "stmts"}

(* The operand of every ? below n is quiet.  lower_expr_into lowers the    *)
(* operand of a ? twice (build.rs:1392 and 1397), so that its moves and    *)
(* borrows occur twice in the graph.                                       *)
RECURSIVE QuietTries(_)
QuietTries(n) ==
  /\ "inner" \in DOMAIN n => Quiet(n.inner)
  /\ \A part \in DOMAIN n \cap Single : QuietTries(n[part])
  /\ \A part \in DOMAIN n \cap Several : \A i \in DOMAIN n[part] : QuietTries(n[part][i])

(* The graph does what the function does: the same events in the same      *)
(* order on every path, the names dying where their blocks end, a jump     *)
(* going where its loop says (lower_break, pop_scope, lower_match_into),   *)
(* unless a ? has an operand that moves, borrows or branches.              *)
SameEvents == QuietTries(func.body) => Agree

(* build.rs:1387 says that a ? reads its operand once: then it would be no *)
(* exception.                                                              *)
TryReadsOnce == Agree

(* A local that becomes live carries the name it was declared with, and it *)
(* stands for nothing else that is in scope.                               *)
NamesAreTheirs ==
  /\ \A i \in DOMAIN env : graph.locals[env[i][2]].name = env[i][1]
  /\ \A i, j \in DOMAIN env : i # j => env[i][2] # env[j][2]
=============================================================================
