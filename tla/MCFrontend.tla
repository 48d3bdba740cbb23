----------------------------- MODULE MCFrontend -----------------------------
(***************************************************************************)
(* The front end: the lexer, the parser, the typing of patterns, inference *)
(* variables, variances, closures and the graph builder, each on its own   *)
(* instances.                                                              *)
(* A behaviour is about one of them, its subject.                          *)
(***************************************************************************)
EXTENDS Surface, Lexer, Variances

VARIABLES subject,
          func, graph, pc, work, env,
          scrutinee, arms, verdict,
          bindings, isNumLit, status, asked, literals,
          source, impls, rust, ours, calls

lowVars == <<func, graph, pc, work, env>>
matchVars == <<scrutinee, arms, verdict>>
substVars == <<bindings, isNumLit, status, asked, literals>>
closureVars == <<source, impls, rust, ours, calls>>

-----------------------------------------------------------------------------
(* Source trees for the parser: every expression in every context, and a   *)
(* few lists of items.                                                     *)
V(name) == T("var", name, <<>>)
Lit(n) == T("int", n, <<>>)
Bin(op, a, b) == T("binary", op, <<a, b>>)
Path(names) == T("path", "", [i \in DOMAIN names |-> T("seg", names[i], <<List(<<>>), List(<<>>)>>)])
PathOf(names, args) ==
  LET p == Path(names) IN [p EXCEPT !.kids[Len(names)].kids[2] = List(args)]
Ty(name) == Path(<<name>>)
TyOf(name, args) == [PathOf(<<name>>, args) EXCEPT !.k = "type path"]
Ref(life, mut, ty) == T("ref type", "", <<life, mut, ty>>)
Mut == Leaf("flag", "mut")
Name(p) == T("bind", p, <<Leaf("mode", "")>>)
Blk(stmts, tail) == Block(stmts, tail)
Do1(e) == Blk(<<e>>, None)
Call(f, args) == T("call", "", <<Path(<<f>>), List(args)>>)
CallOn(recv, name, tys, args) == T("method", name, <<recv, List(tys), List(args)>>)
InitOf(name, e) == T("init", name, <<e>>)
StructOf(inits) == T("struct lit", "", <<Path(<<"S">>), List(inits)>>)
Rng(op, a, b) == T("range", op, <<a, b>>)
Iff(c, yes, no) == T("if", "", <<c, yes, no>>)
NoElse == Blk(<<>>, None)
Arm(p, g, e) == T("arm", "", <<p, g, e>>)
MatchOf(e, them) == T("match", "", <<e, List(them)>>)
LetOf(p, ty, v, els) == T("let", "", <<p, ty, v, els>>)
Wild == T("wild", "", <<>>)
Variant(args) == T("variant", "", <<Path(<<"E", "A">>), List(args)>>)
Clo(move, params, ret, body) == T("closure", "", <<move, List(params), ret, body>>)
CloParam(p, ty) == T("closure param", "", <<p, ty>>)
H == Hole
Last1(e) == T("block expr", "", <<Blk(<<>>, e)>>)
Stmt(e) == T("block expr", "", <<Blk(<<e>>, V("a"))>>)

MCAtoms ==
  {V("a"), T("suffixed", "1", <<Leaf("ident", "u8")>>), T("neg int", "1", <<>>),
   StructOf(<<T("init", "x", <<>>), InitOf("y", V("b"))>>),
   T("unit path", "", <<Path(<<"E", "A">>)>>), Rng("..", V("a"), None), Rng("..", None, None),
   T("vec repeat", "", <<V("a"), Lit("1")>>), Clo(None, <<>>, None, V("a")),
   T("return", "", <<>>), T("break", "'l", <<>>), T("cast", "", <<V("a"), Ty("u8")>>)}

Binaries == {Bin(op, x[1], x[2]) : op \in {"||", "&&", "<", "+", "*"}, x \in {<<H, V("b")>>, <<V("b"), H>>}}
Ranges == {Rng(x[1], x[2], x[3]) :
             x \in {<<"..", H, None>>, <<"..=", V("b"), H>>, <<"..", None, H>>}}
Unaries == {T("neg", "", <<H>>), T("not", "", <<H>>), T("deref", "", <<H>>),
            T("borrow", "", <<Mut, H>>), T("cast", "", <<H, TyOf("T", <<Ty("u8")>>)>>),
            T("try", "", <<H>>), T("index", "", <<H, H>>), T("get", "x", <<H>>),
            T("tuple index", "1", <<H>>), CallOn(H, "f", <<Ty("T")>>, <<H, V("b")>>)}
Groups == {T("tuple", "", <<H>>), T("tuple", "", <<V("b"), H>>), Call("f", <<V("b"), H>>),
           T("builtin", "", <<Leaf("ident", "f"), List(<<Ty("T")>>), List(<<H>>)>>),
           T("macro", "f", <<H>>), T("vec", "", <<H, V("b")>>), T("vec repeat", "", <<H, H>>),
           StructOf(<<InitOf("x", H)>>),
           T("matches", "", <<H, T("or", "", <<Lit("1"), Lit("2")>>), H>>)}
Conditions ==
  {Iff(H, Do1(V("b")), NoElse), Iff(V("b"), Blk(<<>>, H), Blk(<<>>, Iff(H, Do1(V("a")), Blk(<<>>, H)))),
   T("if let", "", <<Variant(<<Name("x")>>), H, Do1(V("x")), NoElse>>),
   T("while", "'l", <<H, Do1(H)>>), T("while let", "", <<Name("x"), H, Do1(V("x"))>>),
   T("for", "", <<Name("x"), H, Do1(H)>>),
   MatchOf(H, <<Arm(Wild, H, V("a")), Arm(Wild, None, H), Arm(Wild, None, V("b"))>>)}
Statements ==
  {Last1(H), Stmt(H), T("unsafe", "", <<Blk(<<H>>, H)>>),
   Stmt(LetOf(Name("x"), Ty("u8"), H, None)), Stmt(LetOf(Name("x"), None, H, Do1(H))),
   Stmt(T("assign", "", <<H, H>>)), Stmt(T("compound", "+=", <<H, H>>)),
   Clo(Leaf("flag", "move"), <<CloParam(Name("x"), Ty("u8")), CloParam(Wild, None)>>, None, H),
   Clo(None, <<>>, Ty("u8"), Last1(H)), T("return", "", <<H>>)}
MCContexts == Binaries \cup Ranges \cup Unaries \cup Groups \cup Conditions \cup Statements

(* Items. *)
Id(name) == Leaf("ident", name)
Life(a) == Leaf("lifetime", a)
Private == Leaf("vis", "private")
Item(vis, def) == T("item", "", <<List(<<>>), vis, def>>)
Derive(names, def) == T("item", "", <<List(<<List([i \in DOMAIN names |-> Id(names[i])])>>), Private, def>>)
BoundOf(name, args, assocs) == T("bound", "", <<List(<<>>), PathOf(<<name>>, args), List(assocs)>>)
Param(name, ty) == T("param", name, <<Leaf("mode", ""), ty>>)
Sig(name, lifes, tys, params, ret, preds) ==
  T("sig", name, <<List(lifes), List(tys), List(params), ret, List(preds)>>)
TyParam(name, bounds) == T("type param", "", <<Id(name), List(bounds), None>>)
Body == Blk(<<>>, Bin("+", V("a"), V("b")))
FnOf(sig) == T("fn", "", <<sig, Body>>)
Named1(name, ty) == T("named", "", <<Private, Id(name), ty>>)

FnItems ==
  {FnOf(Sig("f", <<>>, <<>>, <<Param("a", Ty("u8"))>>, None, <<>>)),
   T("unsafe fn", "", <<Sig("f", <<Life("'l")>>, <<TyParam("T", <<BoundOf("S", <<>>, <<>>)>>)>>,
      <<Param("a", Ref(Life("'l"), Mut, Ty("T"))), Param("b", T("impl type", "", <<List(<<BoundOf("S", <<>>, <<>>)>>)>>)),
        Param("x", T("impl type", "", <<List(<<BoundOf("E", <<Ty("u8")>>, <<T("assoc", "", <<Id("A"), Ty("u8")>>)>>)>>)>>))>>,
      Ty("T"), <<T("where type", "", <<Ty("T"), List(<<BoundOf("A", <<>>, <<>>), Life("'l")>>)>>),
                 T("where lifetime", "", <<Life("'l"), List(<<Life("'l")>>)>>)>>), Body>>)}

MCPrograms ==
  {List(<<Item(Private, f)>>) : f \in FnItems} \cup
  {List(<<Item(Leaf("vis", "pub"), T("mod", "", <<Id("a")>>)),
          Item(T("vis", "in", <<Path(<<"a", "b">>)>>), T("use decl", "", <<T("use group", "", <<List(<<Id("a")>>),
            List(<<T("use", "", <<List(<<Id("b")>>), Id("x")>>), T("use glob", "", <<List(<<Id("x")>>)>>),
                   T("use", "", <<List(<<Id("self")>>), None>>)>>)>>)>>)),
          Item(Leaf("vis", "super"), T("alias", "", <<Id("A"), List(<<>>), List(<<TyParam("T", <<>>)>>), TyOf("S", <<Ty("T")>>)>>)),
          Item(Private, T("const", "", <<Id("a"), Ty("u8"), Bin("*", Lit("1"), Lit("2"))>>))>>),
   List(<<Derive(<<"A", "B">>, T("struct", "", <<Id("S"), List(<<Life("'l")>>), List(<<TyParam("T", <<>>)>>),
            List(<<Named1("a", Ref(None, None, Ref(Life("'l"), None, T("slice type", "", <<Ty("T")>>)))),
                   Named1("b", T("ptr type", "const", <<T("tuple type", "", <<Ty("u8")>>)>>))>>)>>)),
          Item(Private, T("unit struct", "", <<Id("A"), List(<<>>), List(<<>>)>>)),
          Item(Private, T("enum", "", <<Id("E"), List(<<>>), List(<<>>),
            List(<<T("unit variant", "", <<Id("A")>>),
                   T("tuple variant", "", <<Id("B"), List(<<T("fn type", "", <<List(<<Ty("u8")>>), Ty("u8")>>)>>)>>),
                   T("struct variant", "", <<Id("S"), List(<<Named1("a", Leaf("type", "Self"))>>)>>)>>)>>))>>),
   List(<<Item(Private, T("trait", "", <<Id("T"), List(<<>>), List(<<>>), List(<<BoundOf("A", <<>>, <<>>)>>),
            List(<<T("assoc type", "", <<Id("A")>>),
                   Sig("f", <<>>, <<>>, <<T("receiver", "", <<Life("'l"), None>>)>>,
                       T("dyn type", "", <<List(<<T("sugared bound", "", <<Path(<<"F">>), List(<<Ty("u8")>>), Ty("u8")>>)>>), Life("'l")>>), <<>>)>>)>>)),
          Item(Private, T("impl", "", <<List(<<>>), List(<<TyParam("T", <<>>)>>),
            T("of", "", <<TyOf("A", <<Ty("u8")>>), TyOf("S", <<Ty("T")>>)>>), List(<<>>),
            List(<<T("assoc type", "", <<Id("A"), Ty("u8")>>),
                   T("member fn", "", <<Leaf("vis", "pub"), FnOf(Sig("f", <<>>, <<>>, <<T("receiver", "mut", <<>>), Param("a", Leaf("type", "Self"))>>, None, <<>>))>>),
                   T("member fn", "", <<Private, FnOf(Sig("x", <<>>, <<>>, <<T("receiver", "", <<>>)>>, None, <<>>))>>)>>)>>)),
          Item(Private, FnOf(Sig("f", <<>>, <<>>, <<>>, None, <<>>)))>>)}

-----------------------------------------------------------------------------
\* The files the lexer reads: every one of a few bytes, where the bytes are
\* those that can be read in two ways, and a few longer ones.
\* newline, a, 1, quote, apostrophe, *, /, ., =, -, two bytes of a builtin sign
Alphabet == {10, 97, 49, 34, 39, 42, 47, 46, 61, 194, 164}
MaxBytes == 4

Long ==
  {<<39, 92, 117, 123, 100, 56, 48, 48, 125, 39>>,       \* '\u{d800}'
   <<39, 92, 117, 123, 49, 70, 125, 39, 46, 46, 61>>,    \* '\u{1F}'..=
   <<39, 92, 120, 55, 102, 39, 10, 46>>,                 \* '\x7f' newline .
   <<39, 226, 130, 172, 39, 39, 97>>,                    \* 'U+20AC' 'a
   <<39, 240, 159, 152, 128, 39, 45, 62>>,               \* 'U+1F600' ->
   <<39, 224, 128, 128, 39>>,                            \* an over-long zero
   <<34, 92, 110, 10, 97, 34, 46>>,                      \* "\n newline a" .
   <<34, 92, 97, 34>>,                                   \* "\a"
   <<47, 42, 47, 42, 10, 42, 47, 42, 47, 61>>,           \* nested comments, then =
   <<49, 50, 51, 117, 56>>}                              \* 123u8
Texts == UNION {[1..n -> Alphabet] : n \in 0..MaxBytes} \cup Long

Funcs == INSTANCE MCSources

Low == INSTANCE Lowering WITH Structs <- Funcs!MCStructs, Enums <- Funcs!MCEnums,
                              Sources <- Funcs!MCFuncs \cup Funcs!MCTry

Cases == INSTANCE MCTypeck

Mat == INSTANCE Matching WITH Structs <- Cases!MCStructs, Enums <- Cases!MCEnums, Impls <- <<>>,
                              Scrutinees <- Cases!MCScrutinees,
                              PatternsFor <- Cases!MCPatternsFor,
                              IntValues <- 0 .. 3, MaxArms <- 3
Inf == INSTANCE Unifier WITH Structs <- <<>>, Enums <- <<>>, Impls <- Cases!MCAdds,
                             Names <- Cases!MCNames, Questions <- Cases!MCQuestions,
                             MaxAsked <- 3
MCTables == Cases!MCTables
Cap == INSTANCE Closures WITH Sources <- Cases!MCSources, Functions <- {"note", "bump"},
                              Owned <- {"s", "f", "g", "h", "k", "m"},
                              CallArguments <- {1}, MaxCalls <- 3

NoLexer  == bytes = <<>> /\ byte_pos = 0 /\ line = 0 /\ col = 0 /\ tokens = <<>> /\ err = FALSE
NoParser == tree = None /\ depth = 0 /\ read = None
NoGraph  == func = None /\ graph = None /\ pc = <<>> /\ work = <<>> /\ env = <<>>

NoMatch  == scrutinee = None /\ arms = <<>> /\ verdict = "open"
NoSubst  == /\ bindings = <<>> /\ isNumLit = {} /\ status = "open"
            /\ asked = <<>> /\ literals = {}
NoTable  == table = <<>> /\ invariant = {} /\ snap = {} /\ at = 0 /\ round = 0 /\ settled = FALSE
NoClosure == source = None /\ impls = <<>> /\ rust = None /\ ours = None /\ calls = <<>>

BuilderInit ==
  subject = "builder" /\ Low!Init
    /\ NoLexer /\ NoParser /\ NoMatch /\ NoSubst /\ NoTable /\ NoClosure

FrontInit ==
  \/ /\ subject = "lexer" /\ LexInit
     /\ NoParser /\ NoGraph /\ NoMatch /\ NoSubst /\ NoTable /\ NoClosure
  \/ /\ subject = "parser" /\ Init
     /\ NoLexer /\ NoGraph /\ NoMatch /\ NoSubst /\ NoTable /\ NoClosure
  \/ /\ subject = "patterns" /\ Mat!Init
     /\ NoLexer /\ NoParser /\ NoGraph /\ NoSubst /\ NoTable /\ NoClosure
  \/ /\ subject = "inference" /\ Inf!Init
     /\ NoLexer /\ NoParser /\ NoGraph /\ NoMatch /\ NoTable /\ NoClosure
  \/ /\ subject = "variances" /\ VarInit
     /\ NoLexer /\ NoParser /\ NoGraph /\ NoMatch /\ NoSubst /\ NoClosure
  \/ BuilderInit
  \/ /\ subject = "closures" /\ Cap!Init
     /\ NoLexer /\ NoParser /\ NoGraph /\ NoMatch /\ NoSubst /\ NoTable

FrontNext ==
  /\ UNCHANGED subject
  /\ \/ /\ subject = "lexer" /\ LexNext
        /\ UNCHANGED <<vars, matchVars, substVars, varianceVars, lowVars, closureVars>>
     \/ /\ subject = "parser" /\ Next
        /\ UNCHANGED <<lexVars, matchVars, substVars, varianceVars, lowVars, closureVars>>
     \/ /\ subject = "patterns" /\ Mat!Next
        /\ UNCHANGED <<lexVars, vars, substVars, varianceVars, lowVars, closureVars>>
     \/ /\ subject = "inference" /\ Inf!Next
        /\ UNCHANGED <<lexVars, vars, matchVars, varianceVars, lowVars, closureVars>>
     \/ /\ subject = "variances" /\ VarNext
        /\ UNCHANGED <<lexVars, vars, matchVars, substVars, lowVars, closureVars>>
     \/ /\ subject = "builder" /\ Low!Next
        /\ UNCHANGED <<lexVars, vars, matchVars, substVars, varianceVars, closureVars>>
     \/ /\ subject = "closures" /\ Cap!Next
        /\ UNCHANGED <<lexVars, vars, matchVars, substVars, varianceVars, lowVars>>

FrontVars == <<subject, vars, lexVars, matchVars, substVars, varianceVars, lowVars,
               closureVars>>
FrontSpec == FrontInit /\ [][FrontNext]_FrontVars

(* The builder alone. *)
BuilderSpec == BuilderInit /\ [][FrontNext]_FrontVars

(* Surface.ReadsBack and Surface.IdsAreTheirs. *)
Reads == subject = "parser" => ReadsBack
Ids == subject = "parser" => IdsAreTheirs
(* Matching.AcceptedCovers, Matching.RejectedMisses and Matching.BindingsFit. *)
AcceptedCovers == subject = "patterns" => Mat!AcceptedCovers
RejectedMisses == subject = "patterns" => Mat!RejectedMisses
BindingsFit == subject = "patterns" => Mat!BindingsFit
(* Unifier.AnswerSolves and Unifier.FailsOnlyIfUnsolvable. *)
AnswerSolves == subject = "inference" => Inf!AnswerSolves
FailsOnlyIfUnsolvable == subject = "inference" => Inf!FailsOnlyIfUnsolvable
(* Closures.CallsDoTheSame, Closures.LoweredIsAccepted, Closures.FnOnlyReads. *)
CallsDoTheSame == subject = "closures" => Cap!CallsDoTheSame
LoweredIsAccepted == subject = "closures" => Cap!LoweredIsAccepted
FnOnlyReads == Cap!FnOnlyReads
(* Lowering.SameEvents, Lowering.TryReadsOnce and Lowering.NamesAreTheirs. *)
SameEvents == subject = "builder" => Low!SameEvents
TryReadsOnce == subject = "builder" => Low!TryReadsOnce
NamesAreTheirs == subject = "builder" => Low!NamesAreTheirs
=============================================================================
