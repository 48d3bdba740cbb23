------------------------------- MODULE Parser -------------------------------
(***************************************************************************)
(* The parser (parser.rs).  A parser state p is the token list, how many   *)
(* tokens are read, the next node id, the no_struct_lit restriction, and   *)
(* the stack vs of the nodes made so far and not yet part of another; ok   *)
(* is FALSE once an Err has been returned.  An operator ParseX is the      *)
(* method parse_x: it leaves the node it returns on the stack.             *)
(*                                                                         *)
(* A node is [k, v, id, kids]: its kind, its name or operator, its node    *)
(* id (NoId where the AST has none) and its parts.  Spans are left out,    *)
(* and a token is its text, so identifiers, literals and lifetimes are     *)
(* told apart by the sets they belong to.                                  *)
(***************************************************************************)
EXTENDS Integers, SequencesExt, TLC

CONSTANTS Idents, IntSuffixes, Ints, Strs, Chars, Lifetimes

ASSUME TokenAssumption == IntSuffixes \subseteq Idents

NoId == -1
Node(k, v, id, kids) == [k |-> k, v |-> v, id |-> id, kids |-> kids]
Leaf(k, v)  == Node(k, v, NoId, <<>>)
List(nodes) == Node("list", "", NoId, nodes)
None        == Leaf("none", "")

Start(toks) == [toks |-> toks, pos |-> 0, next |-> 0, noLit |-> FALSE, vs |-> <<>>,
                ok |-> TRUE]

Tok(p, n)   == IF p.pos + n <= Len(p.toks) THEN p.toks[p.pos + n] ELSE "end"
At(p, t)    == Tok(p, 1) = t
AtTwo(p, s, t) == Tok(p, 1) = s /\ Tok(p, 2) = t
Skip(p)     == [p EXCEPT !.pos = @ + 1]
Fail(p)     == [p EXCEPT !.ok = FALSE, !.pos = Len(p.toks)]
Expect(p, t) == IF p.ok /\ At(p, t) THEN Skip(p) ELSE Fail(p)

Top(p)      == Last(p.vs)
Push(p, node) == [p EXCEPT !.vs = Append(@, node)]

(* The last n nodes become the parts of one node, which gets the next id   *)
(* (Make) or none (Form).                                                  *)
Reduce(p, n, F(_)) ==
  IF ~p.ok THEN p
  ELSE LET m == Len(p.vs) - n
       IN  [p EXCEPT !.vs = Append(SubSeq(@, 1, m), F(SubSeq(@, m + 1, m + n)))]
Form(p, k, v, n) == Reduce(p, n, LAMBDA kids : Node(k, v, NoId, kids))
AllocId(p) == [p EXCEPT !.next = @ + 1]
MakeOf(p, k, v, n, F(_)) ==
  IF ~p.ok THEN p ELSE AllocId(Reduce(p, n, LAMBDA kids : Node(k, v, p.next, F(kids))))
Make(p, k, v, n) == MakeOf(p, k, v, n, LAMBDA kids : kids)

(* A method call of the receiver and the n arguments on the stack. *)
MethodCall(p, name, n) ==
  MakeOf(p, "method", name, n + 1, LAMBDA ks : <<ks[1], List(<<>>), List(Tail(ks))>>)

Word(p, words, k) ==
  IF Tok(p, 1) \in words THEN Push(Skip(p), Leaf(k, Tok(p, 1))) ELSE Fail(p)
ExpectIdent(p) == Word(p, Idents, "ident")
ExpectLifetime(p) == Word(p, Lifetimes, "lifetime")
PeekLifetime(p) == Tok(p, 1) \in Lifetimes

(* The flag is TRUE, as a node, if the token is there. *)
Flag(p, t) == IF At(p, t) THEN Push(Skip(p), Leaf("flag", t)) ELSE Push(p, None)

-----------------------------------------------------------------------------
(* The methods call each other by the names in the table of Rule, at the   *)
(* end; a step of Do is such a name, or a token to expect.                 *)
RECURSIVE Rule(_, _), Do(_, _)
Do(p, steps) ==
  IF ~p.ok \/ steps = <<>> THEN p ELSE Do(Rule(p, Head(steps)), Tail(steps))

(* Any number of items, each after the separator, from the n-th on; the    *)
(* closing token may follow a separator, and is not read.                  *)
RECURSIVE More(_, _, _, _, _)
More(p, rule, sep, close, n) ==
  IF ~p.ok \/ ~At(p, sep) THEN Form(p, "list", "", n)
  ELSE IF Tok(p, 2) \in close THEN Form(Skip(p), "list", "", n)
  ELSE More(Do(Skip(p), <<rule>>), rule, sep, close, n + 1)

(* A list between two tokens, the items separated by commas, possibly with *)
(* a trailing one.                                                         *)
Listed(p, rule, close) ==
  IF At(p, close) THEN Push(p, List(<<>>)) ELSE More(Do(p, <<rule>>), rule, ",", {close}, 1)
Delimited(p, open, rule, close) == Expect(Listed(Expect(p, open), rule, close), close)

(* Items joined by a separator, at least one and none trailing. *)
Joined(p, rule, sep) == More(Do(p, <<rule>>), rule, sep, {}, 1)

Optional(p, t, rule) == IF At(p, t) THEN Do(p, <<t, rule>>) ELSE Push(p, None)

-----------------------------------------------------------------------------
(* Paths and types. *)

ExpectPathSegment(p) == IF At(p, "Self") THEN Word(p, {"Self"}, "ident") ELSE ExpectIdent(p)

NewSegment(p) == Reduce(ExpectPathSegment(p), 1,
                        LAMBDA w : Node("seg", w[1].v, NoId, <<List(<<>>), List(<<>>)>>))

(* Lifetime arguments first, then types; both lists may be empty. *)
RECURSIVE LeadingLifetimes(_, _)
LeadingLifetimes(p, n) ==
  IF ~PeekLifetime(p) THEN Form(p, "list", "", n)
  ELSE LET q == ExpectLifetime(p)
       IN  IF ~At(q, ",") THEN Form(q, "list", "", n + 1)
           ELSE IF Tok(q, 2) = ">" THEN Form(Skip(q), "list", "", n + 1)
           ELSE LeadingLifetimes(Skip(q), n + 1)

(* A list of lifetimes followed by a list by rule, between angles. *)
LifetimesThen(p, rule) ==
  LET q == LeadingLifetimes(Expect(p, "<"), 0)
  IN  Expect(IF At(q, ">") THEN Push(q, List(<<>>)) ELSE Listed(q, rule, ">"), ">")
ParseAngleArgs(p) == LifetimesThen(p, "<type>")

(* The arguments become those of the last segment of the path below them. *)
AttachArgs(p) ==
  Reduce(p, 3, LAMBDA ns :
    [ns[1] EXCEPT !.kids[Len(ns[1].kids)].kids = <<ns[2], ns[3]>>])

RECURSIVE PathTail(_)
PathTail(p) ==
  IF ~p.ok THEN p
  ELSE IF AtTwo(p, "::", "<") THEN PathTail(AttachArgs(Rule(Skip(p), "<angles>")))
  ELSE IF At(p, "::")
  THEN PathTail(Reduce(NewSegment(Skip(p)), 2,
                       LAMBDA ns : [ns[1] EXCEPT !.kids = Append(@, ns[2])]))
  ELSE p
ParsePath(p) == PathTail(Form(NewSegment(p), "path", "", 1))

ParsePathWithTypeArgs(p) ==
  LET q == Rule(p, "<path>")
  IN  IF q.ok /\ At(q, "<") THEN AttachArgs(Rule(q, "<angles>")) ELSE q

(* `(T)` is T, `(T,)` is a tuple. *)
ParseTupleType(p) ==
  LET q == Listed(Expect(p, "("), "<type>", ")")
      parens == q.ok /\ Len(Top(q).kids) = 1 /\ q.toks[q.pos] # ","
  IN  Expect(Reduce(q, 1, LAMBDA l : IF parens THEN l[1].kids[1]
                                     ELSE Node("tuple type", "", NoId, l[1].kids)), ")")

(* Bounds joined by `+`.  A lifetime bound of an impl type is dropped, the *)
(* last one of a dyn type is kept.                                         *)
RECURSIVE BoundTail(_, _, _)
BoundTail(p, n, life) ==
  IF ~p.ok \/ ~At(p, "+") THEN [p |-> Form(p, "list", "", n), life |-> life]
  ELSE IF Tok(p, 2) \in Lifetimes
       THEN BoundTail(Skip(Skip(p)), n, Leaf("lifetime", Tok(p, 2)))
       ELSE BoundTail(Do(Skip(p), <<"<bound>">>), n + 1, life)

ParseBoundsType(p) ==
  LET b == BoundTail(Do(Skip(p), <<"<bound>">>), 1, None)
  IN  IF At(p, "impl") THEN Form(b.p, "impl type", "", 1)
      ELSE Form(Push(b.p, b.life), "dyn type", "", 2)

(* In a type `&&` is two references: the token is split. *)
SplitAnd(p) ==
  IF At(p, "&&")
  THEN [p EXCEPT !.toks = SubSeq(@, 1, p.pos) \o <<"&", "&">> \o SubSeq(@, p.pos + 2, Len(@))]
  ELSE p

OptLifetime(p) == IF PeekLifetime(p) THEN ExpectLifetime(p) ELSE Push(p, None)

ParseType(p) ==
  CASE At(p, "(") -> Rule(p, "<tuple type>")
    [] Tok(p, 1) \in {"impl", "dyn"} -> Rule(p, "<bounds type>")
    [] Tok(p, 1) \in {"!", "_"} -> Push(Skip(p), Leaf("type", Tok(p, 1)))
    [] At(p, "Self") /\ Tok(p, 2) # "::" -> Push(Skip(p), Leaf("type", "Self"))
    [] Tok(p, 1) \in {"&", "&&"} ->
         Form(Do(Skip(SplitAnd(p)), <<"<opt lifetime>", "<mut>", "<type>">>), "ref type", "", 3)
    [] At(p, "[") -> Form(Do(p, <<"[", "<type>", "]">>), "slice type", "", 1)
    [] At(p, "*") -> IF Tok(p, 2) \in {"const", "mut"}
                     THEN Form(Do(Skip(Skip(p)), <<"<type>">>), "ptr type", Tok(p, 2), 1)
                     ELSE Fail(p)
    [] At(p, "fn") -> Form(Do(Delimited(Skip(p), "(", "<type>", ")"), <<"<returns>">>),
                           "fn type", "", 2)
    [] OTHER -> Rule(p, "<path of>")

-----------------------------------------------------------------------------
(* Generics. *)

(* `T: A + B = D`. *)
ParseTypeParam(p) ==
  LET q == ExpectIdent(p)
      b == IF At(q, ":") THEN Joined(Skip(q), "<bound>", "+") ELSE Push(q, List(<<>>))
  IN  Form(Optional(b, "=", "<type>"), "type param", "", 3)

ParseGenericParams(p) == LifetimesThen(p, "<type param>")
OptGenerics(p) == IF At(p, "<") THEN ParseGenericParams(p)
                  ELSE Push(Push(p, List(<<>>)), List(<<>>))

(* `for<'a> Path<T, Name = U>`, or `Path(T, U) -> R`, which is             *)
(* `Path<(T, U), Output = R>`.                                             *)
RECURSIVE BoundArgs(_, _, _)
BoundArgs(p, tys, assocs) ==
  IF ~p.ok \/ At(p, ">") THEN Push(Push(p, List(tys)), List(assocs))
  ELSE LET assoc == Tok(p, 1) \in Idents /\ Tok(p, 2) = "="
           q == IF assoc THEN Form(Do(p, <<"<ident>", "=", "<type>">>), "assoc", "", 2)
                ELSE Do(p, <<"<type>">>)
       IN  IF ~q.ok THEN q
           ELSE LET r  == [q EXCEPT !.vs = Front(@)]
                    ts == IF assoc THEN tys ELSE Append(tys, Top(q))
                    as == IF assoc THEN Append(assocs, Top(q)) ELSE assocs
                IN  IF At(r, ",") THEN BoundArgs(Skip(r), ts, as)
                    ELSE Push(Push(r, List(ts)), List(as))

Arguments(p) ==
  CASE At(p, "(") ->
         Reduce(Do(Delimited(p, "(", "<type>", ")"), <<"<returns>">>), 2, LAMBDA ns :
           List(<<List(<<Node("tuple type", "", NoId, ns[1].kids)>>),
                  List(<<Node("assoc", "", NoId, <<Leaf("ident", "Output"),
                           IF ns[2] = None THEN Leaf("tuple type", "") ELSE ns[2]>>)>>)>>))
    [] At(p, "<") -> Form(Expect(BoundArgs(Skip(p), <<>>, <<>>), ">"), "list", "", 2)
    [] OTHER -> Push(p, None)

ParseTraitBound(p) ==
  LET h == IF At(p, "for") THEN Delimited(Skip(p), "<", "<lifetime>", ">")
           ELSE Push(p, List(<<>>))
      q == Rule(h, "<path>")
  IN  Reduce(IF q.ok THEN Rule(q, "<arguments>") ELSE q, 3, LAMBDA ns :
        LET last == Len(ns[2].kids)
            tys  == IF ns[3] = None THEN <<>> ELSE ns[3].kids[1].kids
            path == IF tys = <<>> THEN ns[2] ELSE [ns[2] EXCEPT !.kids[last].kids[2] = List(tys)]
        IN  Node("bound", "", NoId, <<ns[1], path,
                   IF ns[3] = None THEN List(<<>>) ELSE ns[3].kids[2]>>))

(* `where 'a: 'b + 'c, T: A + 'a`. *)
Predicate(p) ==
  IF PeekLifetime(p)
  THEN Form(Joined(Expect(ExpectLifetime(p), ":"), "<lifetime>", "+"), "where lifetime", "", 2)
  ELSE Form(Joined(Expect(Do(p, <<"<type>">>), ":"), "<where bound>", "+"), "where type", "", 2)
LifetimeOrBound(p) == IF PeekLifetime(p) THEN ExpectLifetime(p) ELSE Rule(p, "<bound>")

RECURSIVE Predicates(_, _)
Predicates(p, n) ==
  IF ~p.ok \/ Tok(p, 1) \in {"{", ";", "end"} THEN Form(p, "list", "", n)
  ELSE LET q == Rule(p, "<predicate>")
       IN  IF At(q, ",") THEN Predicates(Skip(q), n + 1) ELSE Form(q, "list", "", n + 1)
ParseWhereClauseOpt(p) == IF At(p, "where") THEN Predicates(Skip(p), 0) ELSE Push(p, List(<<>>))

-----------------------------------------------------------------------------
(* Patterns. *)

(* `..` ends the fields; a field without a pattern binds its own name. *)
ParseFieldPattern(p) ==
  IF At(p, "..") THEN Push(Skip(p), Leaf("rest", ""))
  ELSE LET q == ExpectIdent(p)
       IN  IF ~q.ok THEN q
           ELSE Form(IF At(q, ":") THEN Do(Skip(q), <<"<pattern>">>)
                     ELSE Make(Push(q, Leaf("mode", "")), "bind", Top(q).v, 1),
                     "field", "", 2)
RECURSIVE FieldPatterns(_, _)
FieldPatterns(p, n) ==
  IF ~p.ok \/ At(p, "}") THEN Form(p, "list", "", n)
  ELSE LET q == Rule(p, "<field pattern>")
       IN  IF q.ok /\ Top(q).k # "rest" /\ At(q, ",") THEN FieldPatterns(Skip(q), n + 1)
           ELSE Form(q, "list", "", n + 1)

(* A binding's mode is "", "mut", "ref" or "ref mut". *)
Binding(p, mode) ==
  LET q == ExpectIdent(p)
  IN  IF ~q.ok THEN q ELSE MakeOf(q, "bind", Top(q).v, 1, LAMBDA ks : <<Leaf("mode", mode)>>)

(* A name alone binds; before `::`, `(` or `{` it is a path, and a path    *)
(* alone is a variant without a payload.                                   *)
PathPattern(p) ==
  IF Tok(p, 2) \in {"::", "(", "{"}
  THEN LET q == Rule(p, "<path of>")
       IN  CASE ~q.ok -> q
             [] At(q, "(") -> Make(Delimited(q, "(", "<pattern>", ")"), "variant", "", 2)
             [] At(q, "{") -> Make(Expect(FieldPatterns(Skip(q), 0), "}"), "variant fields", "", 2)
             [] OTHER -> Make(Push(q, List(<<>>)), "variant", "", 2)
  ELSE IF Tok(p, 2) = "@" THEN Make(Do(p, <<"<ident>", "@", "<no or>">>), "at", "", 2)
  ELSE Binding(p, "")

(* `(p)` is p, `(p,)` is a tuple. *)
TuplePattern(p) ==
  IF AtTwo(p, "(", ")") THEN Make(Skip(Skip(p)), "tuple", "", 0)
  ELSE LET q == Do(p, <<"(", "<pattern>">>)
       IN  IF ~At(q, ",") THEN Expect(q, ")")
           ELSE MakeOf(Expect(More(q, "<pattern>", ",", {")"}, 1), ")"), "tuple", "", 1,
                       LAMBDA l : l[1].kids)

ParsePatternNoOr(p) ==
  CASE At(p, "_") -> Make(Skip(p), "wild", "", 0)
    [] At(p, "&") -> Make(Do(Skip(p), <<"<mut>", "<no or>">>), "ref", "", 2)
    [] At(p, "(") -> Rule(p, "<tuple pattern>")
    [] Tok(p, 1) \in Ints /\ Tok(p, 2) = "..=" ->
         LET q == Word(Skip(Word(p, Ints, "int")), Ints, "int") IN Make(q, "range", "", 2)
    [] Tok(p, 1) \in Ints -> Make(Skip(p), "int", Tok(p, 1), 0)
    [] Tok(p, 1) \in {"true", "false"} -> Make(Skip(p), "bool", Tok(p, 1), 0)
    [] AtTwo(p, "ref", "mut") -> Binding(Skip(Skip(p)), "ref mut")
    [] Tok(p, 1) \in {"ref", "mut"} -> Binding(Skip(p), Tok(p, 1))
    [] Tok(p, 1) \in Idents -> Rule(p, "<path pattern>")
    [] OTHER -> Fail(p)

ParsePattern(p) ==
  LET q == Rule(p, "<no or>")
  IN  IF ~At(q, "|") THEN q
      ELSE MakeOf(More(q, "<no or>", "|", {}, 1), "or", "", 1, LAMBDA l : l[1].kids)

-----------------------------------------------------------------------------
(* Items. *)

ParseVisibility(p) ==
  CASE ~At(p, "pub") -> Push(p, Leaf("vis", "private"))
    [] AtTwo(p, "pub", "(") /\ Tok(p, 3) \in {"self", "crate", "super"} ->
         Expect(Push(Skip(Skip(Skip(p))), Leaf("vis", Tok(p, 3))), ")")
    [] AtTwo(p, "pub", "(") /\ Tok(p, 3) = "in" ->
         Form(Expect(Rule(Skip(Skip(Skip(p))), "<path>"), ")"), "vis", "in", 1)
    [] OTHER -> Push(Skip(p), Leaf("vis", "pub"))

RECURSIVE ParseAttributes(_, _)
ParseAttributes(p, n) ==
  IF ~p.ok \/ ~At(p, "#") THEN Form(p, "list", "", n)
  ELSE LET q == Do(Delimited(Do(Skip(p), <<"[", "derive">>), "(", "<ident>", ")"), <<"]">>)
       IN  IF q.ok /\ Top(q).kids = <<>> THEN Fail(q) ELSE ParseAttributes(q, n + 1)

(* A use tree's prefix is a list of names. *)
ParseUseTree(p) ==
  LET Rename(q) == Form(Optional(q, "as", "<ident>"), "use", "", 2)
      Braces(q) == Form(Delimited(q, "{", "<tree>", "}"), "use group", "", 2)
  IN CASE At(p, "{") -> Braces(Push(p, List(<<>>)))
       [] At(p, "*") -> Form(Push(Skip(p), List(<<>>)), "use glob", "", 1)
       [] At(p, "self") -> Rename(Push(Skip(p), List(<<Leaf("ident", "self")>>)))
       [] OTHER ->
            LET q == More(ExpectIdent(p), "<ident>", "::", {"*", "{"}, 1)
            IN  CASE ~q.ok -> q
                  [] q.toks[q.pos] = "::" /\ At(q, "*") -> Form(Skip(q), "use glob", "", 1)
                  [] q.toks[q.pos] = "::" -> Braces(q)
                  [] OTHER -> Rename(q)
ParseUseDecl(p) == Form(Do(Rule(Expect(p, "use"), "<tree>"), <<";">>), "use decl", "", 1)

(* `self`, `mut self`, `&'a mut self` as the first parameter. *)
SelfParam(p, ty, mode) ==
  Push(p, Node("param", "self", NoId, <<Leaf("mode", mode), ty>>))
TryParseReceiver(p) ==
  LET a == Rule(Skip(p), "<opt lifetime>")
      m == Flag(a, "mut")
  IN CASE AtTwo(p, "mut", "self") -> SelfParam(Skip(Skip(p)), Leaf("type", "Self"), "mut")
       [] At(p, "self") -> SelfParam(Skip(p), Leaf("type", "Self"), "")
       [] At(p, "&") /\ At(m, "self") ->
            Reduce(Form(Push(Skip(m), Leaf("type", "Self")), "ref type", "", 3), 1,
                   LAMBDA t : Node("param", "self", NoId, <<Leaf("mode", ""), t[1]>>))
       [] OTHER -> p

ParseParam(p) ==
  LET m == Flag(p, "mut")
      q == Do(m, <<"<ident>", ":", "<type>">>)
  IN  Reduce(q, 3, LAMBDA ns : Node("param", ns[2].v, NoId,
                                    <<Leaf("mode", IF ns[1] = None THEN "" ELSE "mut"), ns[3]>>))

ParseParams(p) ==
  IF At(p, ")") THEN Push(p, List(<<>>))
  ELSE LET q == Rule(p, "<receiver>")
       IN  More(IF Len(q.vs) > Len(p.vs) THEN q ELSE Rule(p, "<param>"), "<param>", ",", {")"}, 1)

(* A parameter of an impl type gets a type parameter of its own, by a name *)
(* the function does not use.                                              *)
ImplName(n) == "__impl_" \o ToString(n)
DesugarApit(params, tys) ==
  FoldLeft(LAMBDA acc, param :
             IF param.kids[2].k # "impl type" THEN [acc EXCEPT !.params = Append(@, param)]
             ELSE LET n == CHOOSE n \in acc.n..(acc.n + Len(tys)) :
                             /\ \A i \in DOMAIN tys : tys[i].kids[1].v # ImplName(n)
                             /\ \A m \in acc.n..(n - 1) :
                                  \E i \in DOMAIN tys : tys[i].kids[1].v = ImplName(m)
                      name == Leaf("ident", ImplName(n))
                      seg  == Node("seg", ImplName(n), NoId, <<List(<<>>), List(<<>>)>>)
                  IN  [n |-> n + 1,
                       params |-> Append(acc.params,
                                    [param EXCEPT !.kids[2] = Node("path", "", NoId, <<seg>>)]),
                       tys |-> Append(acc.tys, Node("type param", "", NoId,
                                 <<name, List(param.kids[2].kids[1].kids), None>>))],
           [n |-> 0, params |-> <<>>, tys |-> tys], params)

(* A signature: name, lifetimes, types, parameters, return type, where. *)
ParseSignature(p) ==
  LET q == Do(Rule(Do(Rule(Do(p, <<"fn", "<ident>">>), "<generics>"), <<"(">>), "<params>"),
              <<")", "<returns>", "<where>">>)
  IN  Reduce(q, 6, LAMBDA ns :
        LET d == DesugarApit(ns[4].kids, ns[3].kids)
        IN  Node("sig", ns[1].v, NoId, <<ns[2], List(d.tys), List(d.params), ns[5], ns[6]>>))

(* The ids of a body start from 0; those of the code around it go on. *)
ParseFunction(p) ==
  LET s == Rule(IF At(p, "unsafe") THEN Skip(p) ELSE p, "<sig>")
      b == Do([s EXCEPT !.next = 0], <<"<block>">>)
  IN  Form([b EXCEPT !.next = p.next, !.vs = Append(@, Leaf("count", ToString(b.next)))],
           IF At(p, "unsafe") THEN "unsafe fn" ELSE "fn", "", 3)

ParseStructField(p) == Form(Do(p, <<"<vis>", "<ident>", ":", "<type>">>), "field", "", 3)

ParseStructDef(p) ==
  LET q == Rule(Do(p, <<"struct", "<ident>">>), "<generics>")
  IN  Form(IF At(q, ";") THEN Push(Skip(q), List(<<>>)) ELSE Delimited(q, "{", "<field>", "}"),
           "struct", "", 4)

ParseEnumVariant(p) ==
  LET q == ExpectIdent(p)
  IN CASE At(q, "(") -> Form(Delimited(q, "(", "<type>", ")"), "tuple variant", "", 2)
       [] At(q, "{") -> Form(Delimited(q, "{", "<field>", "}"), "struct variant", "", 2)
       [] OTHER -> Form(q, "unit variant", "", 1)
ParseEnumDef(p) ==
  Form(Delimited(Do(p, <<"enum", "<ident>", "<generics>">>), "{", "<variant>", "}"),
       "enum", "", 4)

(* The members of an impl block or a trait, up to the closing brace. *)
RECURSIVE Members(_, _, _)
Members(p, rule, n) ==
  IF ~p.ok \/ At(p, "}") THEN Expect(Form(p, "list", "", n), "}")
  ELSE Members(Do(p, <<rule>>), rule, n + 1)

ImplMember(p) ==
  IF At(p, "type") THEN Form(Do(p, <<"type", "<ident>", "=", "<type>", ";">>), "assoc", "", 2)
  ELSE Form(Do(p, <<"<vis>", "<fn>">>), "method", "", 2)

(* `impl Trait for Target` or `impl Target`: a trait is read as a type. *)
ParseImplBlock(p) ==
  LET t == Do(Rule(Expect(p, "impl"), "<generics>"), <<"<type>">>)
      q == CASE ~At(t, "for") -> Form(t, "of", "", 1)
             [] t.ok /\ Top(t).k = "path" -> Form(Do(t, <<"for", "<type>">>), "of", "", 2)
             [] OTHER -> Fail(t)
  IN  Form(Members(Do(q, <<"<where>", "{">>), "<impl member>", 0), "impl", "", 5)

TraitMember(p) ==
  IF At(p, "type") THEN Form(Do(p, <<"type", "<ident>", ";">>), "assoc", "", 1)
  ELSE Do(p, <<"<sig>", ";">>)

ParseTraitDef(p) ==
  LET q == Rule(Do(p, <<"trait", "<ident>">>), "<generics>")
      s == IF At(q, ":") THEN Joined(Skip(q), "<bound>", "+") ELSE Push(q, List(<<>>))
  IN  Form(Members(Expect(s, "{"), "<trait member>", 0), "trait", "", 5)

(* Only a struct or an enum takes derives, and an impl no visibility. *)
ParseItem(p) ==
  LET v == Rule(ParseAttributes(p, 0), "<vis>")
      q == CASE ~v.ok -> v
             [] At(v, "mod") -> Form(Do(v, <<"mod", "<ident>", ";">>), "mod", "", 1)
             [] Tok(v, 1) \in {"fn", "unsafe"} -> Rule(v, "<fn>")
             [] At(v, "struct") -> Rule(v, "<struct>")
             [] At(v, "enum") -> Rule(v, "<enum>")
             [] At(v, "impl") -> IF Top(v).v = "private" THEN Rule(v, "<impl>") ELSE Fail(v)
             [] At(v, "trait") -> Rule(v, "<trait>")
             [] At(v, "use") -> Rule(v, "<use>")
             [] At(v, "type") -> Form(Do(Rule(Do(v, <<"type", "<ident>">>), "<generics>"),
                                         <<"=", "<type>", ";">>), "alias", "", 4)
             [] At(v, "const") -> Form(Do(v, <<"const", "<ident>", ":", "<type>", "=", "<expr>",
                                               ";">>), "const", "", 3)
             [] OTHER -> Fail(v)
      derives == v.ok /\ v.vs[Len(v.vs) - 1].kids # <<>>
  IN  IF derives /\ Tok(v, 1) \notin {"struct", "enum"} THEN Fail(v)
      ELSE Form(q, "item", "", 3)

RECURSIVE ParseItems(_, _)
ParseItems(p, n) ==
  IF ~p.ok \/ p.pos = Len(p.toks) THEN Form(p, "list", "", n)
  ELSE ParseItems(Rule(p, "<item>"), n + 1)

-----------------------------------------------------------------------------
(* Expressions, from the loosest to the tightest. *)

(* Mutant of WithNoLit: the restriction of before is not restored. *)
WithNoLitKept(p, noLit, rule) == Do([p EXCEPT !.noLit = noLit], <<rule>>)

(* Under the restriction `path {` is not a struct literal. *)
WithNoLit(p, noLit, rule) ==
  LET q == Rule([p EXCEPT !.noLit = noLit], rule) IN [q EXCEPT !.noLit = p.noLit]

StructLit(p, name, fields) ==
  MakeOf(p, "struct lit", name, Len(fields), LAMBDA ks :
    [i \in DOMAIN fields |-> Node("init", fields[i], NoId, <<ks[i]>>)])

IsRangeTerminator(p) == Tok(p, 1) \in {"end", ")", "]", "}", ",", ";"}
RangeOps == {"..", "..="}

ParseRange(p) ==
  LET l    == IF Tok(p, 1) \in RangeOps THEN p ELSE Rule(p, "<or>")
      from == IF Tok(p, 1) \in RangeOps THEN <<>> ELSE <<"start">>
      incl == At(l, "..=")
      q    == Skip(l)
      r    == Rule(q, "<or>")
  IN CASE ~l.ok \/ Tok(l, 1) \notin RangeOps -> l
       [] IsRangeTerminator(q) /\ incl -> Fail(q)
       [] IsRangeTerminator(q) ->
            StructLit(q, IF from = <<>> THEN "RangeFull" ELSE "RangeFrom", from)
       [] OTHER -> StructLit(r, CASE incl /\ from = <<>> -> "RangeToInclusive"
                                  [] incl -> "RangeInclusive"
                                  [] from = <<>> -> "RangeTo"
                                  [] OTHER -> "Range", from \o <<"end">>)

(* `a && b` is `if a { b } else { false }`, `a || b` is                    *)
(* `if a { true } else { b }`.                                             *)
Block(stmts, tail) == Node("block", "", NoId, <<List(stmts), tail>>)
BuildShortCircuit(p, op) ==
  LET q == Make(p, "bool", IF op = "&&" THEN "false" ELSE "true", 0)
  IN  MakeOf(q, "if", "", 3, LAMBDA ks :
        IF op = "&&" THEN <<ks[1], Block(<<>>, ks[2]), Block(<<>>, ks[3])>>
        ELSE <<ks[1], Block(<<>>, ks[3]), Block(<<>>, ks[2])>>)

(* The operators are calls of the methods of std::ops and std::cmp; a      *)
(* comparison borrows its right operand.                                   *)
Comparisons == {"==", "!=", "<", "<=", ">", ">="}
MethodOf(op) ==
  CASE op = "==" -> "eq" [] op = "!=" -> "ne" [] op = "<" -> "lt" [] op = "<=" -> "le"
    [] op = ">" -> "gt" [] op = ">=" -> "ge" [] op = "+" -> "add" [] op = "-" -> "sub"
    [] op = "*" -> "mul" [] op = "/" -> "div" [] op = "%" -> "rem"
    [] op = "+=" -> "add_assign" [] op = "-=" -> "sub_assign" [] op = "*=" -> "mul_assign"
    [] op = "/=" -> "div_assign" [] op = "%=" -> "rem_assign"
BuildOperator(p, op) == MethodCall(p, MethodOf(op), 1)
BuildComparison(p, op) ==
  BuildOperator(MakeOf(p, "borrow", "", 1, LAMBDA ks : <<None, ks[1]>>), op)

(* The left-associative levels, from the loosest to the tightest.  In the   *)
(* code each level is a loop over operands of the next one; here an        *)
(* operator takes as its right operand whatever tighter ones join.         *)
LogicalOr      == {"||"}
LogicalAnd     == {"&&"}
Additive       == {"+", "-"}
Multiplicative == {"*", "/", "%"}
LevelOf(op) ==
  CASE op \in LogicalOr -> 1 [] op \in LogicalAnd -> 2 [] op \in Comparisons -> 3
    [] op \in Additive -> 4 [] op \in Multiplicative -> 5 [] OTHER -> 0

RECURSIVE Operators(_, _)
Operators(p, min) ==
  LET op == Tok(p, 1)
      q  == Operators(Rule(Skip(p), "<cast>"), LevelOf(op) + 1)
  IN  CASE ~p.ok \/ LevelOf(op) < min -> p
        [] ~q.ok -> q
        [] op \in LogicalOr \cup LogicalAnd -> Operators(BuildShortCircuit(q, op), min)
        [] op \in Comparisons -> Operators(BuildComparison(q, op), min)
        [] OTHER -> Operators(BuildOperator(q, op), min)
ParseOperators(p) == Operators(Rule(p, "<cast>"), 1)

RECURSIVE Casts(_)
Casts(p) == IF p.ok /\ At(p, "as") THEN Casts(Make(Do(p, <<"as", "<type>">>), "cast", "", 2))
            ELSE p
ParseCast(p) == Casts(Rule(p, "<unary>"))

(* A minus before a literal is part of the literal. *)
RECURSIVE ParsePostfix(_), ParseAtom(_)
ParseUnary(p) ==
  CASE At(p, "&") -> Make(Do(Skip(p), <<"<mut>", "<unary>">>), "borrow", "", 2)
    [] At(p, "*") -> Make(Do(Skip(p), <<"<unary>">>), "deref", "", 1)
    [] At(p, "-") /\ Tok(p, 2) \in Ints -> Make(Skip(Skip(p)), "neg int", Tok(p, 2), 0)
    [] At(p, "-") -> MethodCall(Do(Skip(p), <<"<unary>">>), "neg", 0)
    [] At(p, "!") -> MethodCall(Do(Skip(p), <<"<unary>">>), "not", 0)
    [] OTHER -> Rule(Rule(p, "<atom>"), "<postfix>")

OptTurbofish(p) ==
  IF AtTwo(p, "::", "<") THEN Reduce(Rule(Skip(p), "<angles>"), 2, LAMBDA ns : ns[2])
  ELSE Push(p, List(<<>>))

Member(p) ==
  LET name == Tok(p, 1)
      t    == Rule(Skip(p), "<turbofish>")
  IN CASE name \in Ints -> Make(Skip(p), "tuple index", name, 1)
       [] name \notin Idents -> Fail(p)
       [] At(t, "(") -> Make(Do(t, <<"<args>">>), "method", name, 3)
       [] t.ok /\ Top(t).kids # <<>> -> Fail(p)
       [] OTHER -> Make([t EXCEPT !.vs = Front(@)], "field", name, 1)

ParsePostfix(p) ==
  CASE ~p.ok -> p
    [] At(p, "?") -> Rule(Make(Skip(p), "try", "", 1), "<postfix>")
    [] At(p, "[") ->
         Rule(Make(Expect(WithNoLit(Skip(p), FALSE, "<expr>"), "]"), "index", "", 2), "<postfix>")
    [] At(p, ".") -> Rule(Rule(Skip(p), "<member>"), "<postfix>")
    [] OTHER -> p

(* With a return type the body is a block. *)
ParseClosureParam(p) == Form(Do(p, <<"<no or>", "<annotation>">>), "closure param", "", 2)
ParseClosure(p) ==
  LET m == Flag(p, "move")
      a == IF At(m, "||") THEN Push(Skip(m), List(<<>>))
           ELSE Delimited(m, "|", "<closure param>", "|")
      r == Do(a, <<"<returns>">>)
      b == IF r.ok /\ Top(r) # None
           THEN IF At(r, "{") THEN Rule(r, "<atom>") ELSE Fail(r)
           ELSE Do(r, <<"<expr>">>)
  IN  Make(b, "closure", "", 4)

-----------------------------------------------------------------------------
(* Blocks and statements. *)

ParseLetStmt(p) ==
  LET t == Do(p, <<"let", "<pattern>", "<annotation>">>)
      v == Optional(t, "=", "<expr>")
  IN  Form(Expect(IF At(t, "=") THEN Optional(v, "else", "<block>") ELSE Push(v, None), ";"),
           "let", "", 4)

IsUnitBlockLike(e) == e.k \in {"block expr", "unsafe", "if", "if let", "match", "while", "for"}

CompoundOps == {"+=", "-=", "*=", "/=", "%="}

(* n statements are on the stack. *)
RECURSIVE Stmts(_, _)
Stmts(p, n) ==
  LET End(q) == Expect(Reduce(q, n + 1, LAMBDA ks : Block(Front(ks), Last(ks))), "}")
      e      == Do(p, <<"<expr>">>)
      op     == Tok(e, 1)
  IN CASE ~p.ok -> p
       [] At(p, "let") -> Stmts(Rule(p, "<let>"), n + 1)
       [] At(p, "use") -> Stmts(Rule(p, "<use>"), n + 1)
       [] At(p, "}") -> End(Push(p, None))
       [] ~e.ok -> e
       [] op = "=" -> Stmts(Form(Do(e, <<"=", "<expr>", ";">>), "assign", "", 2), n + 1)
       [] op \in CompoundOps ->
            Stmts(MethodCall(Do(e, <<op, "<expr>", ";">>), MethodOf(op), 1), n + 1)
       [] op = ";" -> Stmts(Skip(e), n + 1)
       [] IsUnitBlockLike(Top(e)) /\ op # "}" -> Stmts(e, n + 1)
       [] OTHER -> End(e)
ParseBlock(p) == Stmts(Expect(p, "{"), 0)

(* Without an else the block is empty; `else if` is a block of its own. *)
ParseElseOrEmpty(p) ==
  CASE AtTwo(p, "else", "if") ->
         Reduce(Rule(Skip(p), "<atom>"), 1, LAMBDA e : Block(<<>>, e[1]))
    [] At(p, "else") -> Rule(Skip(p), "<block>")
    [] OTHER -> Push(p, Block(<<>>, None))

LetHead(p) == Do(p, <<"let", "<pattern>", "=", "<cond>">>)

ParseIfExpr(p) ==
  LET q == Skip(p)
  IN  IF At(q, "let") THEN Make(Do(Rule(q, "<let head>"), <<"<block>", "<else>">>), "if let", "", 4)
      ELSE Make(Do(q, <<"<cond>", "<block>", "<else>">>), "if", "", 3)

(* The comma after a body with braces may be left out. *)
OptGuard(p) == Optional(p, "if", "<cond>")
ParseMatchArm(p) ==
  Form(Do(Rule(Do(p, <<"<pattern>">>), "<guard>"), <<"=>", "<expr>">>), "arm", "", 3)
RECURSIVE Arms(_, _)
Arms(p, n) ==
  LET a == Rule(p, "<arm>")
  IN CASE ~p.ok \/ At(p, "}") -> Expect(Form(p, "list", "", n), "}")
       [] ~a.ok -> a
       [] At(a, ",") -> Arms(Skip(a), n + 1)
       [] At(a, "}") \/ IsUnitBlockLike(Top(a).kids[3]) -> Arms(a, n + 1)
       [] OTHER -> Fail(a)
ParseMatchExpr(p) == Make(Arms(Do(Skip(p), <<"<cond>", "{">>), 0), "match", "", 2)

(* `while let P = e { body }` is                                           *)
(* `while true { if let P = e { body } else { break; } }`.                 *)
ParseWhileExpr(p, label) ==
  LET q == Skip(p)
      l == Make(Do(Rule(q, "<let head>"), <<"<block>">>), "break", "", 0)
      i == MakeOf(l, "if let", "", 4, LAMBDA ks :
             <<ks[1], ks[2], ks[3], Block(<<ks[4]>>, None)>>)
      c == Make(i, "bool", "true", 0)
  IN  IF At(q, "let")
      THEN MakeOf(c, "while", label, 2, LAMBDA ks : <<ks[2], Block(<<ks[1]>>, None)>>)
      ELSE Make(Do(q, <<"<cond>", "<block>">>), "while", label, 2)

ParseForExpr(p, label) ==
  Make(Do(Skip(p), <<"<pattern>", "in", "<cond>", "<block>">>), "for", label, 3)

ParseLabeledLoop(p) ==
  CASE Tok(p, 2) # ":" -> Fail(p)
    [] Tok(p, 3) = "while" -> ParseWhileExpr(Skip(Skip(p)), Tok(p, 1))
    [] Tok(p, 3) = "for" -> ParseForExpr(Skip(Skip(p)), Tok(p, 1))
    [] OTHER -> Fail(p)

(* `break` and `continue`. *)
ParseJump(p) ==
  IF Tok(p, 2) \in Lifetimes THEN Make(Skip(Skip(p)), Tok(p, 1), Tok(p, 2), 0)
  ELSE Make(Skip(p), Tok(p, 1), "", 0)

ParseReturnExpr(p) ==
  IF Tok(p, 2) \in {"end", ";", ",", ")", "]", "}", "=>"} THEN Make(Skip(p), "return", "", 0)
  ELSE Make(Do(Skip(p), <<"<expr>">>), "return", "", 1)

-----------------------------------------------------------------------------
(* Atoms. *)

TypeNamed(name) ==
  Node("path", "", NoId, <<Node("seg", name, NoId, <<List(<<>>), List(<<>>)>>)>>)

(* `42u32` is `42 as u32`. *)
ParseIntLit(p) ==
  LET q == Make(Skip(p), "int", Tok(p, 1), 0)
  IN  IF Tok(q, 1) \in IntSuffixes
      THEN Make(Push(Skip(q), TypeNamed(Tok(q, 1))), "cast", "", 2)
      ELSE q

(* `(e)` is e, `(e,)` is a tuple. *)
ParseParens(p) ==
  IF At(p, ")") THEN Make(Skip(p), "tuple", "", 0)
  ELSE LET q == Rule(p, "<inner>")
       IN  IF ~q.ok \/ ~At(q, ",") THEN Expect(q, ")")
           ELSE MakeOf(Expect(More(q, "<inner>", ",", {")"}, 1), ")"), "tuple", "", 1,
                       LAMBDA l : l[1].kids)

(* Mutant of ParseFieldInit: the local of a shorthand takes no id of its own. *)
ParseFieldInitNoId(p) ==
  LET q == ExpectIdent(p)
  IN  IF Tok(q, 1) \in {",", "}"} THEN Reduce(q, 1, LAMBDA ks :
           Node("init", ks[1].v, NoId, <<Node("var", ks[1].v, q.next, <<>>)>>))
      ELSE Reduce(Do(q, <<":", "<expr>">>), 2, LAMBDA ks :
             Node("init", ks[1].v, NoId, <<ks[2]>>))

(* A field without a value is initialised by the local of its name. *)
ParseFieldInit(p) ==
  LET q == ExpectIdent(p)
  IN  IF Tok(q, 1) \in {",", "}"} THEN Reduce(AllocId(q), 1, LAMBDA ks :
           Node("init", ks[1].v, NoId, <<Node("var", ks[1].v, q.next, <<>>)>>))
      ELSE Reduce(Do(q, <<":", "<expr>">>), 2, LAMBDA ks :
             Node("init", ks[1].v, NoId, <<ks[2]>>))

(* `matches!(e, P if g)` is `match e { P if g => true, _ => false }`. *)
ParseMatchesMacro(p) ==
  LET q == Expect(Rule(Do(p, <<"(", "<expr>", ",", "<pattern>">>), "<guard>"), ")")
      b == Make(Make(Make(q, "bool", "true", 0), "bool", "false", 0), "wild", "", 0)
  IN  MakeOf(b, "match", "", 6, LAMBDA ks :
        <<ks[1], List(<<Node("arm", "", NoId, <<ks[2], ks[3], ks[4]>>),
                        Node("arm", "", NoId, <<ks[6], None, ks[5]>>)>>)>>)

(* The nodes made up for `vec!` number their ids from the one of the block *)
(* they end up in; its locals are named after it.                          *)
Bind(name, mode, id)  == Node("bind", name, id, <<Leaf("mode", mode)>>)
Var(name, id)         == Node("var", name, id, <<>>)
Let(pat, ty, value)   == Node("let", "", NoId, <<pat, ty, value, None>>)
Invoke(recv, name, args, id) == Node("method", name, id, <<recv, List(<<>>), List(args)>>)
VecNew(id) ==
  Node("call", "", id, <<Node("path", "", NoId,
         [i \in 1..2 |-> Node("seg", <<"Vec", "new">>[i], NoId, <<List(<<>>), List(<<>>)>>)]),
         List(<<>>)>>)

DesugarVecMacro(p) ==
  LET o    == p.next
      args == Top(p).kids
      n    == Len(args)
      v    == "__pr_vec_" \o ToString(o)
      push == [i \in 1..n |-> Invoke(Var(v, o + 1 + 2 * i), "push", <<args[i]>>, o + 2 + 2 * i)]
  IN  [Reduce(p, 1, LAMBDA ks :
         Node("block expr", "", o,
              <<Block(<<Let(Bind(v, "mut", o + 2), None, VecNew(o + 1))>> \o push,
                      Var(v, o + 3 + 2 * n))>>)) EXCEPT !.next = o + 4 + 2 * n]

(* `vec![v; n]` pushes a clone of v while i < n. *)
Usize(n, id) == Node("cast", "", id + 1, <<Node("int", n, id, <<>>), TypeNamed("usize")>>)
DesugarVecMacroRepeat(p) ==
  LET o == p.next
      Local(name) == "__pr_vec_" \o name \o ToString(o)
      v == Local("v_")
      n == Local("n_")
      w == Local("")
      i == Local("i_")
      cond == Invoke(Var(i, o + 8), "lt", <<Node("borrow", "", o + 10, <<None, Var(n, o + 9)>>)>>,
                     o + 11)
      push == Invoke(Var(w, o + 14), "push", <<Invoke(Var(v, o + 12), "clone", <<>>, o + 13)>>,
                     o + 15)
      add  == Invoke(Var(i, o + 16), "add", <<Usize("1", o + 17)>>, o + 19)
      body == Block(<<push, Node("assign", "", NoId, <<Var(i, o + 20), add>>)>>, None)
  IN  [Reduce(p, 2, LAMBDA ks :
         Node("block expr", "", o,
           <<Block(<<Let(Bind(v, "", o + 2), None, ks[1]), Let(Bind(n, "", o + 3), None, ks[2]),
                     Let(Bind(w, "mut", o + 4), None, VecNew(o + 1)),
                     Let(Bind(i, "mut", o + 7), TypeNamed("usize"), Usize("0", o + 5)),
                     Node("while", "", o + 21, <<cond, body>>)>>, Var(w, o + 22))>>))
       EXCEPT !.next = o + 23]

VecMacro(p) ==
  LET e == Do(p, <<"[", "<expr>">>)
  IN CASE AtTwo(p, "[", "]") -> DesugarVecMacro(Push(Skip(Skip(p)), List(<<>>)))
       [] At(e, ";") -> LET q == Do(e, <<";", "<expr>", "]">>)
                        IN  IF q.ok THEN DesugarVecMacroRepeat(q) ELSE q
       [] OTHER -> LET q == Expect(More(e, "<expr>", ",", {"]"}, 1), "]")
                   IN  IF q.ok THEN DesugarVecMacro(q) ELSE q

MacroCall(p, name, args) ==
  LET drop == [args EXCEPT !.vs = SubSeq(@, 1, Len(@) - 2) \o <<Last(@)>>]
  IN  CASE ~args.ok -> args
        [] name = "vec" -> DesugarVecMacro(drop)
        [] OTHER -> MakeOf(drop, "macro", name, 1, LAMBDA l : l[1].kids)

(* A path and what follows it: a macro, a call, a struct literal, a local, *)
(* or a variant without a payload, which is a call without arguments.      *)
ParsePathAtom(p) ==
  LET q      == Rule(p, "<path>")
      path   == Top(q)
      first  == path.kids[1]
      single == Len(path.kids) = 1
      turbo  == \E i \in DOMAIN path.kids : path.kids[i].kids[2].kids # <<>>
      macro  == single /\ ~turbo /\ At(q, "!")
  IN CASE ~q.ok -> q
       [] macro /\ Tok(q, 2) = "(" /\ first.v = "matches" ->
            Rule([Skip(q) EXCEPT !.vs = Front(@)], "<matches>")
       [] macro /\ Tok(q, 2) = "[" /\ first.v = "vec" ->
            Rule([Skip(q) EXCEPT !.vs = Front(@)], "<vec>")
       [] macro /\ Tok(q, 2) = "(" -> MacroCall(q, first.v, Do(Skip(q), <<"<args>">>))
       [] macro /\ Tok(q, 2) = "[" ->
            MacroCall(q, first.v, Delimited(Skip(q), "[", "<expr>", "]"))
       [] At(q, "(") -> Make(Do(q, <<"<args>">>), "call", "", 2)
       [] At(q, "{") /\ ~q.noLit -> Make(Delimited(q, "{", "<init>", "}"), "struct lit", "", 2)
       [] turbo -> Fail(q)
       [] single -> MakeOf(q, "var", first.v, 1, LAMBDA ks : <<>>)
       [] OTHER -> Make(Push(q, List(<<>>)), "call", "", 2)

(* `¤name::<T>(args)`, written builtin here. *)
ParseBuiltin(p) ==
  LET t == Rule(ExpectIdent(Skip(p)), "<turbofish>") IN Make(Do(t, <<"<args>">>), "builtin", "", 3)

ParseAtom(p) ==
  LET t == Tok(p, 1)
  IN CASE t \in {"|", "||", "move"} -> Rule(p, "<closure>")
       [] t \in Ints  -> Rule(p, "<int>")
       [] t \in Strs  -> Make(Skip(p), "str", t, 0)
       [] t \in Chars -> Make(Skip(p), "char", t, 0)
       [] t \in {"true", "false"} -> Make(Skip(p), "bool", t, 0)
       [] t = "if" -> Rule(p, "<if>")
       [] t = "match" -> Rule(p, "<match>")
       [] t = "while" -> ParseWhileExpr(p, "")
       [] t = "for" -> ParseForExpr(p, "")
       [] t \in {"break", "continue"} -> Rule(p, "<jump>")
       [] t = "return" -> Rule(p, "<return>")
       [] t \in Lifetimes -> Rule(p, "<labeled>")
       [] t = "builtin" -> Rule(p, "<builtin>")
       [] t \in Idents \cup {"Self"} -> Rule(p, "<path atom>")
       [] t = "self" -> Make(Skip(p), "var", "self", 0)
       [] t = "{" -> Make(Rule(p, "<block>"), "block expr", "", 1)
       [] t = "unsafe" -> Make(Rule(Skip(p), "<block>"), "unsafe", "", 1)
       [] t = "(" -> Rule(Skip(p), "<parens>")
       [] OTHER -> Fail(p)

-----------------------------------------------------------------------------
Rule(p, r) ==
  CASE r = "<expr>" -> ParseRange(p)
    [] r = "<cond>" -> WithNoLit(p, TRUE, "<expr>")
    [] r = "<inner>" -> WithNoLit(p, FALSE, "<expr>")
    [] r = "<or>" -> ParseOperators(p)
    [] r = "<cast>" -> ParseCast(p)
    [] r = "<unary>" -> ParseUnary(p)
    [] r = "<args>" -> Delimited(p, "(", "<expr>", ")")
    [] r = "<init>" -> ParseFieldInit(p)
    [] r = "<closure param>" -> ParseClosureParam(p)
    [] r = "<block>" -> ParseBlock(p)
    [] r = "<else>" -> ParseElseOrEmpty(p)
    [] r = "<pattern>" -> ParsePattern(p)
    [] r = "<no or>" -> ParsePatternNoOr(p)
    [] r = "<type>" -> ParseType(p)
    [] r = "<annotation>" -> Optional(p, ":", "<type>")
    [] r = "<returns>" -> Optional(p, "->", "<type>")
    [] r = "<mut>" -> Flag(p, "mut")
    [] r = "<ident>" -> ExpectIdent(p)
    [] r = "<lifetime>" -> ExpectLifetime(p)
    [] r = "<bound>" -> ParseTraitBound(p)
    [] r = "<where bound>" -> LifetimeOrBound(p)
    [] r = "<where>" -> ParseWhereClauseOpt(p)
    [] r = "<type param>" -> ParseTypeParam(p)
    [] r = "<param>" -> ParseParam(p)
    [] r = "<vis>" -> ParseVisibility(p)
    [] r = "<field>" -> ParseStructField(p)
    [] r = "<variant>" -> ParseEnumVariant(p)
    [] r = "<tree>" -> ParseUseTree(p)
    [] r = "<sig>" -> ParseSignature(p)
    [] r = "<fn>" -> ParseFunction(p)
    [] r = "<impl member>" -> ImplMember(p)
    [] r = "<trait member>" -> TraitMember(p)
    [] r = "<path>" -> ParsePath(p)
    [] r = "<path of>" -> ParsePathWithTypeArgs(p)
    [] r = "<angles>" -> ParseAngleArgs(p)
    [] r = "<generics>" -> OptGenerics(p)
    [] r = "<tuple type>" -> ParseTupleType(p)
    [] r = "<bounds type>" -> ParseBoundsType(p)
    [] r = "<arguments>" -> Arguments(p)
    [] r = "<predicate>" -> Predicate(p)
    [] r = "<field pattern>" -> ParseFieldPattern(p)
    [] r = "<path pattern>" -> PathPattern(p)
    [] r = "<tuple pattern>" -> TuplePattern(p)
    [] r = "<params>" -> ParseParams(p)
    [] r = "<struct>" -> ParseStructDef(p)
    [] r = "<enum>" -> ParseEnumDef(p)
    [] r = "<impl>" -> ParseImplBlock(p)
    [] r = "<trait>" -> ParseTraitDef(p)
    [] r = "<item>" -> ParseItem(p)
    [] r = "<let>" -> ParseLetStmt(p)
    [] r = "<use>" -> ParseUseDecl(p)
    [] r = "<arm>" -> ParseMatchArm(p)
    [] r = "<postfix>" -> ParsePostfix(p)
    [] r = "<atom>" -> ParseAtom(p)
    [] r = "<member>" -> Member(p)
    [] r = "<closure>" -> ParseClosure(p)
    [] r = "<if>" -> ParseIfExpr(p)
    [] r = "<match>" -> ParseMatchExpr(p)
    [] r = "<return>" -> ParseReturnExpr(p)
    [] r = "<int>" -> ParseIntLit(p)
    [] r = "<parens>" -> ParseParens(p)
    [] r = "<matches>" -> ParseMatchesMacro(p)
    [] r = "<vec>" -> VecMacro(p)
    [] r = "<path atom>" -> ParsePathAtom(p)
    [] r = "<builtin>" -> ParseBuiltin(p)
    [] r = "<turbofish>" -> OptTurbofish(p)
    [] r = "<let head>" -> LetHead(p)
    [] r = "<receiver>" -> TryParseReceiver(p)
    [] r = "<opt lifetime>" -> OptLifetime(p)
    [] r = "<labeled>" -> ParseLabeledLoop(p)
    [] r = "<guard>" -> OptGuard(p)
    [] r = "<jump>" -> ParseJump(p)
    [] r = "<items>" -> ParseItems(p, 0)
    [] OTHER -> Expect(p, r)
=============================================================================
