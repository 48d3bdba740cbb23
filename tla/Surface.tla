------------------------------- MODULE Surface -------------------------------
(***************************************************************************)
(* What the parser promises: it reads back what a program says.  A tree    *)
(* here is the program as written, before any desugaring; Words prints it  *)
(* with no more parentheses than the precedences of Rust ask for, and      *)
(* Reads says when an AST node means a tree.                               *)
(*                                                                         *)
(* Where this parser needs more than Rust does, Words gives it: a minus is *)
(* kept apart from a literal that something follows, a range without an    *)
(* end is put in parentheses before a brace, and so is a struct literal    *)
(* anywhere in a condition unless `( )` or `[ ]` of its own encloses it.   *)
(***************************************************************************)
EXTENDS Parser

CONSTANTS Atoms,       \* trees to start from
          Contexts,    \* trees with one Hole
          Programs,    \* lists of items
          MaxDepth     \* bound: how many contexts are put around an atom

VARIABLES tree,     \* the program as written
          depth,
          read      \* the parser once it has read it, before that None

vars == <<tree, depth, read>>

T(k, v, kids) == Node(k, v, NoId, kids)
Hole == Leaf("hole", "")

BlockLike == {"block expr", "unsafe", "if", "if let", "match", "while", "while let", "for"}
BinaryLevel == [op \in {"||", "&&", "+", "-", "*", "/", "%"} \cup Comparisons |->
                  CASE op = "||" -> 2 [] op = "&&" -> 3 [] op \in Comparisons -> 4
                    [] op \in {"+", "-"} -> 5 [] OTHER -> 6]

OpenEnded(t) == (t.k = "range" /\ t.kids[2] = None) \/ (t.k = "return" /\ t.kids = <<>>)

(* How tightly an expression holds together. *)
Prec(t) ==
  CASE OpenEnded(t) -> 0
    [] t.k \in {"range", "closure", "return", "break", "continue"} -> 1
    [] t.k = "binary" -> BinaryLevel[t.v]
    [] t.k = "cast" -> 7
    [] t.k \in {"neg", "neg int", "not", "borrow", "deref"} -> 8
    [] OTHER -> 9

RECURSIVE Words(_, _)

Separated(ws, sep) ==
  FlattenSeq([i \in DOMAIN ws |-> IF i = 1 THEN ws[i] ELSE <<sep>> \o ws[i]])
Listing(open, ws, close) == <<open>> \o Separated(ws, ",") \o <<close>>
If(c, ws) == IF c THEN ws ELSE <<>>

Parens(t) == <<"(">> \o Words(t, FALSE) \o <<")">>
Sub(t, min, noLit) ==
  IF Prec(t) < min \/ (noLit /\ t.k = "struct lit") THEN Parens(t) ELSE Words(t, noLit)
All(ts, noLit) == [i \in DOMAIN ts |-> Sub(ts[i], 0, noLit)]

(* The last thing a left operand of `<` says must not be a type. *)
RECURSIVE EndsInType(_)
EndsInType(t) ==
  \/ t.k = "cast"
  \/ t.k = "binary" /\ Prec(t.kids[2]) > BinaryLevel[t.v] /\ EndsInType(t.kids[2])

Left(t, op, noLit) ==
  IF op = "<" /\ EndsInType(t) THEN Parens(t) ELSE Sub(t, BinaryLevel[op], noLit)

Cond(t) == Sub(t, 1, TRUE)

(* A statement with braces needs no semicolon, unless the next one goes on *)
(* as an operator would.                                                   *)
StmtWords(t, next, noLit) ==
  LET ws == Sub(t, 0, noLit)
  IN  IF t.k \in {"let", "assign", "compound", "use decl"} THEN ws
      ELSE IF t.k \in BlockLike /\ next # <<>>
              /\ next[1] \notin {"*", "-", "..", "..=", "||", "&", "["}
           THEN ws ELSE Append(ws, ";")

RECURSIVE StmtsWords(_, _, _)
StmtsWords(stmts, tail, noLit) ==
  IF stmts = <<>> THEN If(tail # None, Sub(tail, 0, noLit))
  ELSE LET rest == StmtsWords(Tail(stmts), tail, noLit)
       IN  StmtWords(stmts[1], rest, noLit) \o rest

BlockWords(b, noLit) == <<"{">> \o StmtsWords(b.kids[1].kids, b.kids[2], noLit) \o <<"}">>

ElseWords(b, noLit) ==
  CASE b = Block(<<>>, None) -> <<>>
    [] b.kids[1].kids = <<>> /\ b.kids[2].k \in {"if", "if let"} ->
         <<"else">> \o Words(b.kids[2], noLit)
    [] OTHER -> <<"else">> \o BlockWords(b, noLit)

ArmWords(a, noLit) ==
  Words(a.kids[1], FALSE) \o If(a.kids[2] # None, <<"if">> \o Cond(a.kids[2])) \o <<"=>">>
    \o Sub(a.kids[3], 0, noLit) \o If(a.kids[3].k \notin BlockLike, <<",">>)

Labeled(t) == If(t.v # "", <<t.v, ":">>)
Opt(t, before) == If(t # None, before \o Words(t, FALSE))
Angles(ts, before) == If(ts # <<>>, before \o Listing("<", All(ts, FALSE), ">"))

ExprWords(t, noLit) ==
  LET k == t.kids
  IN CASE t.k \in {"var", "int", "str", "char", "bool", "break", "continue"} ->
            IF t.k \in {"break", "continue"} THEN <<t.k>> \o If(t.v # "", <<t.v>>) ELSE <<t.v>>
       [] t.k = "suffixed" -> <<t.v, k[1].v>>
       [] t.k = "binary" -> Left(k[1], t.v, noLit) \o <<t.v>>
                              \o Sub(k[2], BinaryLevel[t.v] + 1, noLit)
       [] t.k = "range" -> If(k[1] # None, Sub(k[1], 2, noLit)) \o <<t.v>>
                             \o If(k[2] # None, Sub(k[2], 2, noLit))
       [] t.k = "cast" -> Sub(k[1], 7, noLit) \o <<"as">> \o Words(k[2], FALSE)
       [] t.k = "neg int" -> <<"-", t.v>>
       [] t.k = "neg" -> LET ws == Sub(k[1], 8, noLit)
                         IN  <<"-">> \o (IF ws[1] \in Ints THEN Parens(k[1]) ELSE ws)
       [] t.k = "not" -> <<"!">> \o Sub(k[1], 8, noLit)
       [] t.k = "deref" -> <<"*">> \o Sub(k[1], 8, noLit)
       [] t.k = "borrow" -> <<"&">> \o If(k[1] # None, <<"mut">>) \o Sub(k[2], 8, noLit)
       [] t.k = "try" -> Sub(k[1], 9, noLit) \o <<"?">>
       [] t.k = "index" -> Sub(k[1], 9, noLit) \o <<"[">> \o Words(k[2], FALSE) \o <<"]">>
       [] t.k \in {"get", "tuple index"} -> Sub(k[1], 9, noLit) \o <<".", t.v>>
       [] t.k = "method" -> Sub(k[1], 9, noLit) \o <<".", t.v>> \o Angles(k[2].kids, <<"::">>)
                              \o Listing("(", All(k[3].kids, noLit), ")")
       [] t.k = "tuple" -> IF Len(k) = 1 THEN <<"(">> \o Words(k[1], FALSE) \o <<",", ")">>
                           ELSE Listing("(", All(k, FALSE), ")")
       [] t.k = "call" -> Words(k[1], FALSE)
                            \o Listing("(", All(k[2].kids, noLit), ")")
       [] t.k = "unit path" -> Words(k[1], FALSE)
       [] t.k = "builtin" -> <<"builtin", k[1].v>> \o Angles(k[2].kids, <<"::">>)
                               \o Listing("(", All(k[3].kids, noLit), ")")
       [] t.k = "macro" -> <<t.v, "!">> \o Listing("(", All(k, noLit), ")")
       [] t.k = "vec" -> <<"vec", "!">> \o Listing("[", All(k, noLit),
                                                   "]")
       [] t.k = "vec repeat" -> <<"vec", "!", "[">> \o Sub(k[1], 0, noLit) \o <<";">>
                                  \o Sub(k[2], 0, noLit) \o <<"]">>
       [] t.k = "matches" -> <<"matches", "!", "(">> \o Sub(k[1], 0, noLit) \o <<",">>
                               \o Words(k[2], FALSE)
                               \o If(k[3] # None, <<"if">> \o Cond(k[3])) \o <<")">>
       [] t.k = "struct lit" -> Words(k[1], FALSE) \o Listing("{", All(k[2].kids, noLit), "}")
       [] t.k = "init" -> IF k = <<>> THEN <<t.v>> ELSE <<t.v, ":">> \o Sub(k[1], 0, noLit)
       [] t.k = "closure" ->
            If(k[1] # None, <<"move">>)
              \o (IF k[2].kids = <<>> THEN <<"||">> ELSE Listing("|", All(k[2].kids, FALSE), "|"))
              \o Opt(k[3], <<"->">>) \o Sub(k[4], 1, noLit)
       [] t.k = "closure param" -> Words(k[1], FALSE) \o Opt(k[2], <<":">>)
       [] t.k = "return" -> <<"return">> \o If(k # <<>>, Sub(k[1], 1, noLit))
       [] t.k = "block" -> BlockWords(t, noLit)
       [] t.k = "block expr" -> BlockWords(k[1], noLit)
       [] t.k = "unsafe" -> <<"unsafe">> \o BlockWords(k[1], noLit)
       [] t.k = "if" -> <<"if">> \o Cond(k[1]) \o BlockWords(k[2], noLit) \o ElseWords(k[3], noLit)
       [] t.k = "if let" -> <<"if", "let">> \o Words(k[1], FALSE) \o <<"=">> \o Cond(k[2])
                              \o BlockWords(k[3], noLit) \o ElseWords(k[4], noLit)
       [] t.k = "match" -> <<"match">> \o Cond(k[1]) \o <<"{">>
                             \o FlattenSeq([i \in DOMAIN k[2].kids |->
                                              ArmWords(k[2].kids[i], noLit)]) \o <<"}">>
       [] t.k = "while" -> Labeled(t) \o <<"while">> \o Cond(k[1]) \o BlockWords(k[2], noLit)
       [] t.k = "while let" -> Labeled(t) \o <<"while", "let">> \o Words(k[1], FALSE) \o <<"=">>
                                 \o Cond(k[2]) \o BlockWords(k[3], noLit)
       [] t.k = "for" -> Labeled(t) \o <<"for">> \o Words(k[1], FALSE) \o <<"in">> \o Cond(k[2])
                           \o BlockWords(k[3], noLit)
       [] t.k = "let" -> <<"let">> \o Words(k[1], FALSE) \o Opt(k[2], <<":">>)
                           \o If(k[3] # None, <<"=">> \o (IF k[4] # None /\ k[3].k \in BlockLike THEN Parens(k[3])
                                                          ELSE Sub(k[3], IF k[4] = None THEN 0 ELSE 1, noLit)))
                           \o If(k[4] # None, <<"else">> \o BlockWords(k[4], noLit)) \o <<";">>
       [] t.k = "assign" -> Sub(k[1], 2, noLit) \o <<"=">> \o Sub(k[2], 0, noLit) \o <<";">>
       [] t.k = "compound" -> Sub(k[1], 2, noLit) \o <<t.v>> \o Sub(k[2], 0, noLit) \o <<";">>

(* Patterns and types. *)
Mode(m) == CASE m.v = "" -> <<>> [] m.v = "ref mut" -> <<"ref", "mut">> [] OTHER -> <<m.v>>
NoOr(p) == IF p.k = "or" THEN Parens(p) ELSE Words(p, FALSE)
PatternKinds == {"wild", "bind", "ref", "int range", "at", "or", "variant", "variant fields",
                 "field pattern", "rest"}
PatternWords(t) ==
  LET k == t.kids
  IN CASE t.k = "wild" -> <<"_">>
       [] t.k = "bind" -> Mode(k[1]) \o <<t.v>>
       [] t.k = "ref" -> <<"&">> \o If(k[1] # None, <<"mut">>) \o NoOr(k[2])
       [] t.k = "int range" -> <<k[1].v, "..=", k[2].v>>
       [] t.k = "at" -> <<k[1].v, "@">> \o NoOr(k[2])
       [] t.k = "or" -> Separated([i \in DOMAIN k |-> NoOr(k[i])], "|")
       [] t.k = "variant" -> Words(k[1], FALSE) \o If(k[2].kids # <<>>,
                                                      Listing("(", All(k[2].kids, FALSE), ")"))
       [] t.k = "variant fields" -> Words(k[1], FALSE) \o Listing("{", All(k[2].kids, FALSE), "}")
       [] t.k = "field pattern" -> <<t.v>> \o If(k # <<>>, <<":">> \o Words(k[1], FALSE))
       [] t.k = "rest" -> <<"..">>

(* A path in a type needs no `::` before its arguments. *)
TypeKinds == {"path", "type path", "seg", "type", "tuple type", "ref type", "slice type", "ptr type",
              "fn type", "impl type", "dyn type", "bound", "sugared bound", "assoc", "lifetime"}
Bounds(b) == Separated(All(b.kids, FALSE), "+")
Args(seg) == seg.kids[1].kids \o seg.kids[2].kids
BarePath(path) == Separated(Append(All(Front(path.kids), FALSE), <<Last(path.kids).v>>), "::")
TypeWords(t) ==
  LET k == t.kids
  IN CASE t.k = "path" -> Separated(All(k, FALSE), "::")
       [] t.k = "type path" -> BarePath(t) \o Angles(Args(Last(k)), <<>>)
       [] t.k = "seg" -> <<t.v>> \o Angles(Args(t), <<"::">>)
       [] t.k \in {"type", "lifetime"} -> <<t.v>>
       [] t.k = "tuple type" -> IF Len(k) = 1 THEN <<"(">> \o Words(k[1], FALSE) \o <<",", ")">>
                                ELSE Listing("(", All(k, FALSE), ")")
       [] t.k = "ref type" ->
            LET inner == Opt(k[1], <<>>) \o If(k[2] # None, <<"mut">>) \o Words(k[3], FALSE)
            IN  IF inner[1] = "&" THEN <<"&&">> \o Tail(inner) ELSE <<"&">> \o inner
       [] t.k = "slice type" -> <<"[">> \o Words(k[1], FALSE) \o <<"]">>
       [] t.k = "ptr type" -> <<"*", t.v>> \o Words(k[1], FALSE)
       [] t.k = "fn type" -> <<"fn">> \o Listing("(", All(k[1].kids, FALSE), ")")
                               \o Opt(k[2], <<"->">>)
       [] t.k = "impl type" -> <<"impl">> \o Bounds(k[1])
       [] t.k = "dyn type" -> <<"dyn">> \o Bounds(k[1]) \o Opt(k[2], <<"+">>)
       [] t.k = "bound" -> Angles(k[1].kids, <<"for">>) \o BarePath(k[2])
                             \o Angles(Args(Last(k[2].kids)) \o k[3].kids, <<>>)
       [] t.k = "assoc" -> <<k[1].v, "=">> \o Words(k[2], FALSE)
       [] t.k = "sugared bound" -> Words(k[1], FALSE) \o Listing("(", All(k[2].kids, FALSE), ")")
                                     \o Opt(k[3], <<"->">>)

(* Items. *)
Generic(lifes, tys) == Angles(lifes.kids \o tys.kids, <<>>)
ColonThen(b) == If(b.kids # <<>>, <<":">> \o Bounds(b))
SigWords(t) ==
  LET k == t.kids
  IN  <<"fn", t.v>> \o Generic(k[1], k[2]) \o Listing("(", All(k[3].kids, FALSE), ")")
        \o Opt(k[4], <<"->">>) \o If(k[5].kids # <<>>, <<"where">> \o
                                     Separated(All(k[5].kids, FALSE), ","))
Visible(v) ==
  CASE v.v = "private" -> <<>> [] v.v = "pub" -> <<"pub">>
    [] v.v = "in" -> <<"pub", "(", "in">> \o Words(v.kids[1], FALSE) \o <<")">>
    [] OTHER -> <<"pub", "(", v.v, ")">>
Derives(as) ==
  FlattenSeq([i \in DOMAIN as |-> <<"#", "[", "derive">> \o
                Listing("(", [j \in DOMAIN as[i].kids |-> <<as[i].kids[j].v>>], ")") \o <<"]">>])

ItemWords(t) ==
  LET k == t.kids
      Named(keyword) == <<keyword, k[1].v>> \o Generic(k[2], k[3])
  IN CASE t.k = "list" -> FlattenSeq(All(k, FALSE))
       [] t.k = "item" -> Derives(k[1].kids) \o Visible(k[2]) \o Words(k[3], FALSE)
       [] t.k = "sig" -> SigWords(t) \o <<";">>
       [] t.k \in {"fn", "unsafe fn"} -> If(t.k = "unsafe fn", <<"unsafe">>) \o SigWords(k[1])
                                           \o BlockWords(k[2], FALSE)
       [] t.k = "param" -> Mode(k[1]) \o <<t.v, ":">> \o Words(k[2], FALSE)
       [] t.k = "receiver" ->
            IF k = <<>> THEN If(t.v # "", <<t.v>>) \o <<"self">>
            ELSE <<"&">> \o Opt(k[1], <<>>) \o If(k[2] # None, <<"mut">>) \o <<"self">>
       [] t.k = "type param" -> <<k[1].v>> \o ColonThen(k[2]) \o Opt(k[3], <<"=">>)
       [] t.k \in {"where lifetime", "where type"} -> Words(k[1], FALSE) \o ColonThen(k[2])
       [] t.k = "struct" -> Named("struct") \o Listing("{", All(k[4].kids, FALSE), "}")
       [] t.k = "unit struct" -> Named("struct") \o <<";">>
       [] t.k = "named" -> Visible(k[1]) \o <<k[2].v, ":">> \o Words(k[3], FALSE)
       [] t.k = "enum" -> Named("enum") \o Listing("{", All(k[4].kids, FALSE), "}")
       [] t.k = "unit variant" -> <<k[1].v>>
       [] t.k = "tuple variant" -> <<k[1].v>> \o Listing("(", All(k[2].kids, FALSE), ")")
       [] t.k = "struct variant" -> <<k[1].v>> \o Listing("{", All(k[2].kids, FALSE), "}")
       [] t.k = "trait" -> Named("trait") \o ColonThen(k[4]) \o <<"{">> \o
                             FlattenSeq(All(k[5].kids, FALSE)) \o <<"}">>
       [] t.k = "impl" -> <<"impl">> \o Generic(k[1], k[2]) \o Separated(All(k[3].kids, FALSE), "for")
                            \o If(k[4].kids # <<>>, <<"where">> \o Separated(All(k[4].kids, FALSE), ","))
                            \o <<"{">> \o FlattenSeq(All(k[5].kids, FALSE)) \o <<"}">>
       [] t.k = "alias" -> Named("type") \o <<"=">> \o Words(k[4], FALSE) \o <<";">>
       [] t.k = "assoc type" -> <<"type", k[1].v>> \o If(Len(k) = 2, <<"=">> \o Words(k[2], FALSE))
                                  \o <<";">>
       [] t.k = "member fn" -> Visible(k[1]) \o Words(k[2], FALSE)
       [] t.k = "mod" -> <<"mod", k[1].v, ";">>
       [] t.k = "const" -> <<"const", k[1].v, ":">> \o Words(k[2], FALSE) \o <<"=">>
                             \o Words(k[3], FALSE) \o <<";">>
       [] t.k = "use decl" -> <<"use">> \o Words(k[1], FALSE) \o <<";">>
       [] t.k \in {"use", "use glob", "use group"} ->
            LET names == [i \in DOMAIN k[1].kids |-> <<k[1].kids[i].v>>]
                rest  == CASE t.k = "use glob" -> <<<<"*">>>>
                           [] t.k = "use group" -> <<Listing("{", All(k[2].kids, FALSE), "}")>>
                           [] OTHER -> <<>>
            IN  Separated(names \o rest, "::") \o If(t.k = "use" /\ k[2] # None, <<"as", k[2].v>>)

ItemKinds == {"list", "item", "sig", "fn", "unsafe fn", "param", "receiver", "type param",
              "where lifetime", "where type", "struct", "unit struct", "named", "enum",
              "unit variant", "tuple variant", "struct variant", "trait", "impl", "alias",
              "assoc type", "member fn", "mod", "const", "use decl", "use", "use glob", "use group"}
Words(t, noLit) ==
  IF t.k \in PatternKinds THEN PatternWords(t)
  ELSE IF t.k \in TypeKinds THEN TypeWords(t)
  ELSE IF t.k \in ItemKinds THEN ItemWords(t)
  ELSE ExprWords(t, noLit)

-----------------------------------------------------------------------------
(* The AST a tree stands for, without node ids. *)
RECURSIVE Means(_)
MeanAll(ts) == [i \in DOMAIN ts |-> Means(ts[i])]
Method(name, recv, args) == T("method", name, <<recv, List(<<>>), List(args)>>)
Variable(name) == T("var", name, <<>>)
Bool(b) == T("bool", b, <<>>)
If3(c, yes, no) == T("if", "", <<c, Block(<<>>, yes), Block(<<>>, no)>>)
Bound(name, mode) == T("bind", name, <<Leaf("mode", mode)>>)
Suffixed(n, ty) == T("cast", "", <<T("int", n, <<>>), TypeNamed(ty)>>)
Fields(name, values, names) ==
  T("struct lit", name, [i \in DOMAIN names |-> T("init", names[i], <<values[i]>>)])

MeansBinary(t) ==
  LET a == Means(t.kids[1])
      b == Means(t.kids[2])
  IN CASE t.v = "&&" -> If3(a, b, Bool("false"))
       [] t.v = "||" -> If3(a, Bool("true"), b)
       [] t.v \in Comparisons -> Method(MethodOf(t.v), a, <<T("borrow", "", <<None, b>>)>>)
       [] OTHER -> Method(MethodOf(t.v), a, <<b>>)

MeansRange(t) ==
  LET a == t.kids[1]
      b == t.kids[2]
      name == CASE a = None /\ b = None -> "RangeFull" [] b = None -> "RangeFrom"
                [] a = None /\ t.v = ".." -> "RangeTo" [] a = None -> "RangeToInclusive"
                [] t.v = ".." -> "Range" [] OTHER -> "RangeInclusive"
  IN  Fields(name, (IF a = None THEN <<>> ELSE <<Means(a)>>) \o
                   (IF b = None THEN <<>> ELSE <<Means(b)>>),
             (IF a = None THEN <<>> ELSE <<"start">>) \o (IF b = None THEN <<>> ELSE <<"end">>))

(* vec![a, b] makes an empty vector and pushes a, then b; vec![v; n]       *)
(* evaluates v and n once and pushes n clones of v.                        *)
EmptyVec == [VecNew(0) EXCEPT !.id = NoId]
LetTemp(name, mode, ty, value) == T("let", "", <<Bound("temp " \o name, mode), ty, value, None>>)
Temp(name) == Variable("temp " \o name)
MeansVec(ts) ==
  T("block expr", "", <<Block(<<LetTemp("", "mut", None, EmptyVec)>>
      \o [i \in DOMAIN ts |-> Method("push", Temp(""), <<Means(ts[i])>>)], Temp(""))>>)
MeansRepeat(v, n) ==
  T("block expr", "", <<Block(
    <<LetTemp("v_", "", None, Means(v)), LetTemp("n_", "", None, Means(n)),
      LetTemp("", "mut", None, EmptyVec), LetTemp("i_", "mut", TypeNamed("usize"), Suffixed("0", "usize")),
      T("while", "", <<Method("lt", Temp("i_"), <<T("borrow", "", <<None, Temp("n_")>>)>>),
        Block(<<Method("push", Temp(""), <<Method("clone", Temp("v_"), <<>>)>>),
                T("assign", "", <<Temp("i_"), Method("add", Temp("i_"), <<Suffixed("1", "usize")>>)>>)>>,
              None)>>)>>, Temp(""))>>)

(* Each impl type in the parameters is a type parameter of its own. *)
MeansSig(t) ==
  LET k == t.kids
      ps == k[3].kids
      IsImpl(i) == ps[i].k = "param" /\ ps[i].kids[2].k = "impl type"
      name(i) == ImplName(Cardinality({j \in 1..(i - 1) : IsImpl(j)}))
      impls == SelectSeq([i \in DOMAIN ps |-> i], IsImpl)
  IN  T("sig", t.v, <<k[1],
        List(MeanAll(k[2].kids) \o
             [j \in DOMAIN impls |-> T("type param", "", <<Leaf("ident", name(impls[j])),
                                       Means(ps[impls[j]].kids[2].kids[1]), None>>)]),
        List([i \in DOMAIN ps |-> IF IsImpl(i) THEN [ps[i] EXCEPT !.kids[2] = TypeNamed(name(i))]
                                  ELSE Means(ps[i])]),
        Means(k[4]), Means(k[5])>>)

Means(t) ==
  LET k == t.kids
      Arm(pat, guard, body) == T("arm", "", <<pat, guard, body>>)
  IN CASE t.k = "binary" -> MeansBinary(t)
       [] t.k = "range" -> MeansRange(t)
       [] t.k = "int range" -> T("range", "", k)
       [] t.k = "suffixed" -> Suffixed(t.v, k[1].v)
       [] t.k \in {"neg", "not"} -> Method(t.k, Means(k[1]), <<>>)
       [] t.k = "compound" -> Method(MethodOf(t.v), Means(k[1]), <<Means(k[2])>>)
       [] t.k = "while let" ->
            T("while", t.v, <<Bool("true"), Block(<<
              T("if let", "", MeanAll(k) \o <<Block(<<T("break", "", <<>>)>>, None)>>)>>, None)>>)
       [] t.k = "matches" ->
            T("match", "", <<Means(k[1]), List(<<Arm(Means(k[2]), Means(k[3]), Bool("true")),
                                                Arm(T("wild", "", <<>>), None, Bool("false"))>>)>>)
       [] t.k = "vec" -> MeansVec(k)
       [] t.k = "vec repeat" -> MeansRepeat(k[1], k[2])
       [] t.k = "init" /\ k = <<>> -> T("init", t.v, <<Variable(t.v)>>)
       [] t.k = "unit path" -> T("call", "", <<Means(k[1]), List(<<>>)>>)
       [] t.k = "get" -> T("field", t.v, MeanAll(k))
       [] t.k = "field pattern" ->
            T("field", "", <<Leaf("ident", t.v),
                             IF k = <<>> THEN Bound(t.v, "") ELSE Means(k[1])>>)
       [] t.k = "type path" -> T("path", "", MeanAll(k))
       [] t.k = "sugared bound" ->
            T("bound", "", <<List(<<>>),
              [Means(k[1]) EXCEPT !.kids[Len(k[1].kids)].kids[2] =
                 List(<<T("tuple type", "", MeanAll(k[2].kids))>>)],
              List(<<T("assoc", "", <<Leaf("ident", "Output"),
                     IF k[3] = None THEN T("tuple type", "", <<>>) ELSE Means(k[3])>>)>>)>>)
       [] t.k = "receiver" ->
            T("param", "self", <<Leaf("mode", t.v),
              IF k = <<>> THEN Leaf("type", "Self")
              ELSE T("ref type", "", k \o <<Leaf("type", "Self")>>)>>)
       [] t.k = "sig" -> MeansSig(t)
       [] t.k = "unit struct" -> T("struct", "", MeanAll(k) \o <<List(<<>>)>>)
       [] t.k = "named" -> T("field", "", MeanAll(k))
       [] t.k = "assoc type" -> T("assoc", "", MeanAll(k))
       [] t.k = "member fn" -> T("method", "", MeanAll(k))
       [] OTHER -> T(t.k, t.v, MeanAll(k))

(* An AST without node ids, the locals of `vec!` by their roles: o is the  *)
(* id of the block around, which their names end in.                       *)
RECURSIVE Erase(_, _)
Erase(n, o) ==
  LET Roles == {r \in {"", "v_", "n_", "i_"} : n.v = "__pr_vec_" \o r \o ToString(o)}
      v     == IF n.k \in {"var", "bind"} /\ Roles # {}
               THEN "temp " \o (CHOOSE r \in Roles : TRUE) ELSE n.v
      kids  == IF n.k \in {"fn", "unsafe fn"} THEN Front(n.kids) ELSE n.kids
  IN  T(n.k, v, [i \in DOMAIN kids |-> Erase(kids[i], IF n.k = "block expr" THEN n.id ELSE o)])

-----------------------------------------------------------------------------
IsProgram(t) == t.k = "list"
Parsed(t) == Rule(Start(Words(t, FALSE)), IF IsProgram(t) THEN "<items>" ELSE "<expr>")

RECURSIVE Fill(_, _)
Fill(c, t) == IF c = Hole THEN t ELSE [c EXCEPT !.kids = [i \in DOMAIN @ |-> Fill(@[i], t)]]

Init == tree \in Atoms \cup Programs /\ depth = 0 /\ read = None

Wrap ==
  /\ read = None
  /\ depth < MaxDepth
  /\ ~IsProgram(tree)
  /\ \E c \in Contexts : tree' = Fill(c, tree)
  /\ depth' = depth + 1
  /\ read' = None

Read ==
  /\ read = None
  /\ read' = Parsed(tree)
  /\ UNCHANGED <<tree, depth>>

Next == Wrap \/ Read
Spec == Init /\ [][Next]_vars

(* The parser reads the words of a program to their end, and what it makes *)
(* of them is what they mean: each operator has its precedence and its     *)
(* associativity, the no_struct_lit restriction holds where it must and    *)
(* nowhere else, and a desugaring keeps every part once and in order.      *)
ReadsBack == read # None =>
  /\ read.ok /\ read.pos = Len(read.toks)
  /\ Len(read.vs) = 1
  /\ Erase(Top(read), NoId) = Means(tree)

(* The ids of the nodes of a function are 0 up to the count it keeps, each *)
(* given to one node: the tables of the type checker are indexed by them.  *)
RECURSIVE IdBag(_)
IdBag(n) == (IF n.id = NoId THEN <<>> ELSE <<n.id>>) \o
            (IF n.k \in {"fn", "unsafe fn"} THEN <<>>
             ELSE FlattenSeq([i \in DOMAIN n.kids |-> IdBag(n.kids[i])]))
Dense(ids, n) == Len(ids) = n /\ ToSet(ids) = 0..(n - 1)
RECURSIVE FnsOf(_)
FnsOf(n) == (IF n.k \in {"fn", "unsafe fn"} THEN {n} ELSE {}) \cup
            UNION {FnsOf(n.kids[i]) : i \in DOMAIN n.kids}
IdsAreTheirs == read # None =>
  /\ Dense(IdBag(Top(read)), read.next)
  /\ \A f \in FnsOf(Top(read)) :
       LET ids == IdBag(f.kids[2]) IN ToString(Len(ids)) = f.kids[3].v /\ Dense(ids, Len(ids))
=============================================================================
