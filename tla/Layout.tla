------------------------------- MODULE Layout -------------------------------
(* Where the bindings of a lowered body live and how each is dropped         *)
(* (src/layout.rs).                                                          *)
EXTENDS MonoLower

\* The binding a place starts from; a place behind a pointer has none.
RECURSIVE RootOf(_)
RootOf(p) ==
    CASE p.k = "Local" -> {p.id}
      [] p.k = "Field" -> RootOf(p.base)
      [] OTHER -> {}

RootOfExpr(e) ==
    CASE e.k = "Local" -> {e.id}
      [] e.k = "PlaceLoad" -> RootOf(e.place)
      [] OTHER -> {}

\* The expressions an expression is made of.
PartsOfExpr(e) ==
    CASE e.k \in {"Call", "Builtin", "Tuple", "MacroCall"} -> e.args
      [] e.k = "MethodCall" -> <<e.recv>> \o e.args
      [] e.k = "BorrowOfValue" -> <<e.value>>
      [] e.k = "StructLit" -> e.fields
      [] e.k = "VariantConstruct" -> e.payload
      [] e.k = "Cast" -> <<e.inner>>
      [] e.k = "Match" -> <<e.scrutinee>>
      [] e.k = "Return" -> e.value
      [] e.k = "CallIndirect" -> <<e.callee>> \o e.args
      [] OTHER -> <<>>

\* What the node itself takes the address of: a borrowed place, and a
\* receiver that the call will borrow.
MarkedBy(e) ==
    CASE e.k = "Borrow" -> RootOf(e.place)
      [] e.k = "MethodCall" /\ e.adjust \in {"BorrowImm", "BorrowMut"} -> RootOfExpr(e.recv)
      [] OTHER -> {}

\* The bindings whose address is taken somewhere in x. The else block of a
\* let-else is not walked.
RECURSIVE Addressed(_, _)
Addressed(how, x) ==
    CASE how = "block" ->
            UNION ({Addressed("stmt", x.stmts[i]) : i \in DOMAIN x.stmts}
                   \cup {Addressed("expr", x.tail[i]) : i \in DOMAIN x.tail})
      [] how = "stmt" ->
            (CASE x.k \in {"Let", "LetPattern"} -> Addressed("expr", x.value)
               [] x.k = "Assign" -> Addressed("place", x.place) \cup Addressed("expr", x.value)
               [] x.k = "Expr" -> Addressed("expr", x.e)
               [] OTHER -> {})
      [] how = "place" ->
            (CASE x.k = "Field" -> Addressed("place", x.base)
               [] x.k = "Deref" -> Addressed("expr", x.inner)
               [] OTHER -> {})
      [] how = "arm" ->
            UNION {Addressed("expr", x.guard[i]) : i \in DOMAIN x.guard}
            \cup Addressed("expr", x.body)
      [] how = "expr" ->
            UNION ({MarkedBy(x)}
                   \cup {Addressed("expr", PartsOfExpr(x)[i]) : i \in DOMAIN PartsOfExpr(x)}
                   \cup (IF x.k \in {"PlaceLoad", "Borrow"} THEN {Addressed("place", x.place)}
                         ELSE {})
                   \cup (IF x.k = "Loop" THEN {Addressed("block", x.body)} ELSE {})
                   \cup (IF x.k = "Block" THEN {Addressed("block", x.block)} ELSE {})
                   \cup (IF x.k = "Match"
                         THEN {Addressed("arm", x.arms[i]) : i \in DOMAIN x.arms} ELSE {}))

\* How a binding is dropped at the end of its scope, from its move status.
ComputeDropAction(name, t, moved) ==
    CASE ~NeedsDrop(t) -> "Skip"
      [] NeedsDrop(t) /\ name \in DOMAIN moved ->
            IF moved[name] = "Moved" THEN "Skip" ELSE "Flagged"
      [] OTHER -> "Always"

\* Storage: an addressed parameter or let has a slot of the frame, an
\* addressed leaf of a pattern or synthesized binding an address found when
\* it is bound, every other binding wasm locals.
InFrame(m, addressed, b) == b \in addressed /\ m.locals[b].origin \in {"param", "let"}

ComputeMonoLayout(m) ==
    LET addressed == Addressed("block", m.body)
                     \cup {b \in DOMAIN m.locals : NeedsDrop(m.locals[b].ty)}
        Slot(b) == IF InFrame(m, addressed, b) THEN ByteSizeOf(m.locals[b].ty) ELSE 0
        slots == [b \in DOMAIN m.locals |-> Slot(b)]
        Kind(b) == CASE b \notin addressed -> "Local"
                     [] InFrame(m, addressed, b) -> "Memory"
                     [] OTHER -> "MemoryAt"
    IN  [storage |-> [b \in DOMAIN m.locals |-> [k |-> Kind(b), off |-> SumTo(slots, b - 1)]],
         drop |-> [b \in DOMAIN m.locals |->
                      ComputeDropAction(m.locals[b].name, m.locals[b].ty, m.moved)],
         frame |-> SumTo(slots, Len(m.locals))]
=============================================================================
