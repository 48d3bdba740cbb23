------------------------------- MODULE Lexer -------------------------------
(***************************************************************************)
(* The lexer (lexer.rs): the bytes of a source file become tokens.  One    *)
(* action is one turn of the loop of tokenize.  A byte is its number; a    *)
(* token keeps its kind, its value, its span and, for the properties, the  *)
(* bytes from .. to - 1 it was read from.                                  *)
(***************************************************************************)
EXTENDS Integers, SequencesExt

CONSTANTS Sources,      \* the files to read
          IntModulus    \* bound: an integer literal is kept modulo this, for 2^64

VARIABLES bytes, byte_pos, line, col, tokens, err

lexVars == <<bytes, byte_pos, line, col, tokens, err>>

NL == 10  Space == 32  Bang == 33  Quote == 34  Percent == 37  Amp == 38
Apostrophe == 39  Star == 42  Plus == 43  Minus == 45  Dot == 46  Slash == 47
Zero == 48  Colon == 58  Lt == 60  Eq == 61  Gt == 62  Backslash == 92  Pipe == 124

(* Tokens of one byte ( ) { } [ ] ; , . & * + / % = ! ? < > - : | @ #, and *)
(* of more.                                                                *)
Singles == {40, 41, 123, 125, 91, 93, 59, 44, Dot, Amp, Star, Plus, Slash, Percent, Eq, Bang, 63,
            Lt, Gt, Minus, Colon, Pipe, 64, 35}
Doubles == {<<Dot, Dot>>, <<Amp, Amp>>, <<Eq, Eq>>, <<Eq, Gt>>, <<Minus, Gt>>, <<Colon, Colon>>,
            <<Pipe, Pipe>>}
           \cup {<<b, Eq>> : b \in {Star, Plus, Slash, Percent, Bang, Lt, Gt, Minus}}
Triples == {<<Dot, Dot, Eq>>}

AnyByte == 0..255
Digit == 48..57
IdentStart == (97..122) \cup (65..90) \cup {95}
IdentContinue == IdentStart \cup Digit

(* A file is read as bytes. *)
AreFiles == Sources \subseteq Seq(AnyByte)
ASSUME FilesOK == AreFiles

(* The byte n after the current one, or -1 past the end. *)
ByteAt(i) == IF i < Len(bytes) THEN bytes[i + 1] ELSE -1
Byte(n) == ByteAt(byte_pos + n)
Ahead(n) == [i \in 1..n |-> Byte(i - 1)]

(* The end of the run of bytes of a class, from position i. *)
RunEnd(i, class) ==
  CHOOSE j \in i..Len(bytes) :
    /\ \A n \in i..(j - 1) : bytes[n + 1] \in class
    /\ j < Len(bytes) => bytes[j + 1] \notin class

Pos(l, c) == <<l, c>>
Token(kind, value, n, width) ==
  [kind |-> kind, value |-> value, from |-> byte_pos, to |-> byte_pos + n,
   start |-> Pos(line, col), end |-> Pos(line, col + width)]

(* n bytes are one token, width columns wide. *)
PushToken(kind, value, n, width) ==
  /\ tokens' = Append(tokens, Token(kind, value, n, width))
  /\ byte_pos' = byte_pos + n
  /\ col' = col + width
  /\ UNCHANGED <<bytes, line, err>>

LexFail == err' = TRUE /\ UNCHANGED <<bytes, byte_pos, line, col, tokens>>

(* Mutant of Moved: a newline inside what is skipped is a column. *)
MovedOnOneLine(i, n, l, c) == Pos(l, c + n)

(* n bytes are skipped; the column starts again after a newline. *)
AfterByte(b, p) == IF b = NL THEN Pos(p[1] + 1, 1) ELSE Pos(p[1], p[2] + 1)
Moved(i, n, l, c) ==
  LET after[k \in 0..n] == IF k = 0 THEN Pos(l, c) ELSE AfterByte(bytes[i + k], after[k - 1])
  IN  after[n]

SkipTo(j) ==
  /\ byte_pos' = j
  /\ LET p == Moved(byte_pos, j - byte_pos, line, col) IN line' = p[1] /\ col' = p[2]
  /\ UNCHANGED <<bytes, tokens, err>>

Running == byte_pos < Len(bytes) /\ ~err

Blank == Running /\ Byte(0) \in {NL, Space, 9, 13} /\ SkipTo(byte_pos + 1)

(* Identifiers and keywords. *)
WordToken ==
  /\ Running /\ Byte(0) \in IdentStart
  /\ LET j == RunEnd(byte_pos, IdentContinue)
     IN  PushToken("word", SubSeq(bytes, byte_pos + 1, j), j - byte_pos, j - byte_pos)

(* A string literal is read from the byte after its quote, up to its       *)
(* closing quote or an escape that is not known; one turn of the loop.     *)
Escapes == [c \in {110, 114, 116, Zero, Backslash, Quote} |->
              CASE c = 110 -> NL [] c = 114 -> 13 [] c = 116 -> 9 [] c = Zero -> 0 [] OTHER -> c]
StringTurn(s) ==
  LET c == ByteAt(s.at)
      e == ByteAt(s.at + 1)
  IN IF s.is # "open" \/ c = -1 THEN s
     ELSE IF c = Quote THEN [s EXCEPT !.at = @ + 1, !.is = "closed"]
     ELSE IF c # Backslash THEN [s EXCEPT !.at = @ + 1, !.value = Append(@, c)]
     ELSE IF e \in DOMAIN Escapes THEN [s EXCEPT !.at = @ + 2, !.value = Append(@, Escapes[e])]
     ELSE [s EXCEPT !.is = "refused"]
StringFrom(i) ==
  LET turn[k \in 0..Len(bytes)] == IF k = 0 THEN [at |-> i, value |-> <<>>, is |-> "open"]
                                   ELSE StringTurn(turn[k - 1])
  IN  turn[Len(bytes)]
StringLit ==
  /\ Running /\ Byte(0) = Quote
  /\ LET s == StringFrom(byte_pos + 1)
         p == Moved(byte_pos, s.at - byte_pos, line, col)
     IN  IF s.is # "closed" THEN LexFail
         ELSE /\ tokens' = Append(tokens, [Token("string", s.value, s.at - byte_pos, 0)
                                           EXCEPT !.end = p])
              /\ byte_pos' = s.at /\ line' = p[1] /\ col' = p[2]
              /\ UNCHANGED <<bytes, err>>

Number ==
  /\ Running /\ Byte(0) \in Digit
  /\ LET j == RunEnd(byte_pos, Digit)
         digits == SubSeq(bytes, byte_pos + 1, j)
     IN  PushToken("int", FoldLeft(LAMBDA v, d : (v * 10 + d - Zero) % IntModulus, 0, digits),
              j - byte_pos, j - byte_pos)

(* A comment up to the end of the line, which is not part of it. *)
LineComment ==
  /\ Running /\ Ahead(2) = <<Slash, Slash>>
  /\ SkipTo(RunEnd(byte_pos, AnyByte \ {NL}))

(* Block comments nest; one turn of the loop. *)
CommentTurn(s) ==
  LET two == <<ByteAt(s.at), ByteAt(s.at + 1)>>
  IN IF s.depth = 0 \/ s.at >= Len(bytes) THEN s
     ELSE IF two = <<Slash, Star>> THEN [at |-> s.at + 2, depth |-> s.depth + 1]
     ELSE IF two = <<Star, Slash>> THEN [at |-> s.at + 2, depth |-> s.depth - 1]
     ELSE [s EXCEPT !.at = @ + 1]
CommentFrom(i) ==
  LET turn[k \in 0..Len(bytes)] == IF k = 0 THEN [at |-> i, depth |-> 1]
                                   ELSE CommentTurn(turn[k - 1])
  IN  turn[Len(bytes)]
BlockComment ==
  /\ Running /\ Ahead(2) = <<Slash, Star>>
  /\ LET s == CommentFrom(byte_pos + 2) IN IF s.depth > 0 THEN LexFail ELSE SkipTo(s.at)

(* Mutant of Punctuation: `..` is tried before `..=`. *)
PunctuationShortest ==
  /\ Running /\ Byte(0) \in Singles /\ Ahead(2) \notin {<<Slash, Slash>>, <<Slash, Star>>}
  /\ LET n == IF Ahead(2) \in Doubles THEN 2 ELSE IF Ahead(3) \in Triples THEN 3 ELSE 1
     IN  PushToken("punct", Ahead(n), n, n)

(* The longest of the tables. *)
Punctuation ==
  /\ Running /\ Byte(0) \in Singles /\ Ahead(2) \notin {<<Slash, Slash>>, <<Slash, Star>>}
  /\ LET n == IF Ahead(3) \in Triples THEN 3 ELSE IF Ahead(2) \in Doubles THEN 2 ELSE 1
     IN  PushToken("punct", Ahead(n), n, n)

HexDigitValue(b) == CASE b \in 48..57 -> b - 48 [] b \in 97..102 -> b - 87 [] b \in 65..70 -> b - 55
                      [] OTHER -> -1

(* A code point of 1 to 4 bytes at position i: its value and its length,   *)
(* length 0 for a sequence that is not UTF-8.                              *)
Utf8(b0) == CASE b0 \in 192..223 -> [len |-> 2, lead |-> b0 - 192, min |-> 128]
              [] b0 \in 224..239 -> [len |-> 3, lead |-> b0 - 224, min |-> 2048]
              [] b0 \in 240..247 -> [len |-> 4, lead |-> b0 - 240, min |-> 65536]
              [] OTHER -> [len |-> 0, lead |-> 0, min |-> 0]
DecodeUtf8Codepoint(i) ==
  LET u    == Utf8(bytes[i + 1])
      rest == [n \in 1..(u.len - 1) |-> ByteAt(i + n)]
      cp   == FoldLeft(LAMBDA v, b : (v * 64) + (b % 64), u.lead, rest)
  IN  IF bytes[i + 1] < 128 THEN [value |-> bytes[i + 1], len |-> 1]
      ELSE IF u.len = 0 \/ i + u.len > Len(bytes) \/ ToSet(rest) \ (128..191) # {} \/ cp < u.min
      THEN [value |-> 0, len |-> 0] ELSE [value |-> cp, len |-> u.len]

(* An escape at position i: the letters of a string and `'`, two hex       *)
(* digits below 80, or 1 to 6 hex digits between braces.                   *)
CharEscape(i) ==
  LET At(n)  == ByteAt(i + n)
      none   == [value |-> 0, len |-> 0]
      hex    == HexDigitValue(At(2)) * 16 + HexDigitValue(At(3))
      close  == RunEnd(i + 3, AnyByte \ {125})
      digits == [n \in 1..(close - i - 3) |-> HexDigitValue(bytes[i + 3 + n])]
  IN CASE At(1) \in DOMAIN Escapes \cup {Apostrophe} ->
            [value |-> IF At(1) = Apostrophe THEN Apostrophe ELSE Escapes[At(1)], len |-> 2]
       [] At(1) = 120 ->
            IF -1 \in {HexDigitValue(At(2)), HexDigitValue(At(3))} \/ hex > 127 THEN none
            ELSE [value |-> hex, len |-> 4]
       [] At(1) = 117 /\ At(2) = 123 ->
            IF close = Len(bytes) \/ Len(digits) \notin 1..6 \/ -1 \in ToSet(digits) THEN none
            ELSE [value |-> FoldLeft(LAMBDA v, d : v * 16 + d, 0, digits), len |-> close + 1 - i]
       [] OTHER -> none

(* After `'`: a character if an escape or a byte past ASCII follows, or    *)
(* one byte and another `'`; a lifetime otherwise.                         *)
IsCharLit == Byte(1) = Backslash \/ Byte(1) >= 128 \/ Byte(2) = Apostrophe
Scalar(cp) == cp \in 0..1114111 /\ cp \notin 55296..57343
CharLiteral ==
  /\ Running /\ Byte(0) = Apostrophe /\ IsCharLit
  /\ LET c == IF Byte(1) = Backslash THEN CharEscape(byte_pos + 1)
              ELSE DecodeUtf8Codepoint(byte_pos + 1)
     IN  IF c.len > 0 /\ Scalar(c.value) /\ Byte(1 + c.len) = Apostrophe
         THEN PushToken("char", c.value, c.len + 2, c.len + 2) ELSE LexFail

LifetimeToken ==
  /\ Running /\ Byte(0) = Apostrophe /\ ~IsCharLit
  /\ LET j == RunEnd(byte_pos + 1, IdentContinue)
     IN  IF Byte(1) \in IdentStart
         THEN PushToken("lifetime", SubSeq(bytes, byte_pos + 2, j), j - byte_pos, j - byte_pos)
         ELSE LexFail

(* `¤` is two bytes and one column. *)
Builtin == Running /\ Ahead(2) = <<194, 164>> /\ PushToken("builtin", <<>>, 2, 1)

Unexpected ==
  /\ Running
  /\ Byte(0) \notin Singles \cup {NL, Space, 9, 13, Quote, Apostrophe}
  /\ Byte(0) \notin IdentContinue /\ Ahead(2) # <<194, 164>>
  /\ LexFail

LexInit ==
  /\ bytes \in Sources
  /\ byte_pos = 0 /\ line = 1 /\ col = 1
  /\ tokens = <<>> /\ err = FALSE

LexNext ==
  \/ Blank \/ WordToken \/ StringLit \/ Number \/ LineComment \/ BlockComment
  \/ Punctuation \/ CharLiteral \/ LifetimeToken \/ Builtin \/ Unexpected

LexSpec == LexInit /\ [][LexNext]_lexVars

-----------------------------------------------------------------------------
Text(i) == SubSeq(bytes, tokens[i].from + 1, tokens[i].to)
Adjacent(i) == i < Len(tokens) /\ tokens[i].to = tokens[i + 1].from

(* Every token is as long as it can be, and none starts inside another:    *)
(* what stands right after one does not make a longer one with it.         *)
MaximalMunch ==
  \A i \in 1..(Len(tokens) - 1) :
    /\ tokens[i].to <= tokens[i + 1].from
    /\ Adjacent(i) =>
         LET next == Head(Text(i + 1))
         IN CASE tokens[i].kind = "punct" -> Append(Text(i), next) \notin Doubles \cup Triples
              [] tokens[i].kind \in {"word", "lifetime"} -> next \notin IdentContinue
              [] tokens[i].kind = "int" -> next \notin Digit
              [] OTHER -> TRUE

(* Errors are reported where the reader finds them: a token's span is the  *)
(* line and the column of its bytes, a `¤` being one column.  (A character *)
(* literal that is a newline is accepted and not counted as a line, so     *)
(* what follows one is left out.)                                          *)
TrueLine(file, n) == 1 + Cardinality({i \in 1..n : file[i] = NL})
LineStart(file, n) == CHOOSE s \in 0..n : /\ s = 0 \/ file[s] = NL
                                          /\ \A i \in (s + 1)..n : file[i] # NL
Builtins(read, from, to) ==
  {i \in DOMAIN read : read[i].kind = "builtin" /\ from <= read[i].from /\ read[i].to <= to}
TrueCol(file, read, n) ==
  1 + n - LineStart(file, n) - Cardinality(Builtins(read, LineStart(file, n), n))
TruePos(n) == Pos(TrueLine(bytes, n), TrueCol(bytes, tokens, n))
NewlinesAreLines == \A i \in DOMAIN tokens : tokens[i].kind = "char" => tokens[i].value # NL
PositionsAreTrue ==
  NewlinesAreLines =>
    \A i \in DOMAIN tokens : /\ tokens[i].start = TruePos(tokens[i].from)
                             /\ tokens[i].end = TruePos(tokens[i].to)
=============================================================================
