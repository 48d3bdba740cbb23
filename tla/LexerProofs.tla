---------------------------- MODULE LexerProofs -----------------------------
(***************************************************************************)
(* The lexer reads the longest tokens and reports where they are, for any  *)
(* files of bytes.                                                         *)
(***************************************************************************)
EXTENDS Lexer, LoopProofs

(***************************************************************************)
(* Lines and columns of a file                                             *)
(***************************************************************************)
(* What was read ends at n or before. *)
ReadTo(read, n) ==
  \A i \in DOMAIN read :
    read[i].from \in Nat /\ read[i].to \in Nat /\ read[i].from < read[i].to /\ read[i].to <= n

TrueAt(file, read, n) == Pos(TrueLine(file, n), TrueCol(file, read, n))

(* A line starts after the last newline, and nowhere else. *)
LEMMA LineStartFacts ==
  ASSUME NEW file \in Seq(AnyByte), NEW n \in 0..Len(file)
  PROVE  /\ LineStart(file, n) \in 0..n
         /\ LineStart(file, n) = 0 \/ file[LineStart(file, n)] = NL
         /\ \A i \in (LineStart(file, n) + 1)..n : file[i] # NL
         /\ \A s \in 0..n : (s = 0 \/ file[s] = NL) /\ (\A i \in (s + 1)..n : file[i] # NL)
              => s = LineStart(file, n)
<1> DEFINE Starts(s) == (s = 0 \/ file[s] = NL) /\ (\A i \in (s + 1)..n : file[i] # NL)
           T == {k \in 0..n : n - k = 0 \/ file[n - k] = NL}
<1>1. T \in SUBSET Nat /\ n \in T
  OBVIOUS
<1>2. PICK k \in T : \A j \in T : k <= j
  BY <1>1, Least
<1>3. n - k \in 0..n /\ (n - k = 0 \/ file[n - k] = NL)
  BY <1>2
<1>4. \A i \in (n - k + 1)..n : file[i] # NL
  <2> SUFFICES ASSUME NEW i \in (n - k + 1)..n, file[i] = NL PROVE FALSE
    OBVIOUS
  <2>1. n - i \in 0..n /\ n - (n - i) = i /\ ~(k <= n - i)
    BY <1>2
  <2> QED BY <1>2, <2>1
<1>5. Starts(n - k)
  BY <1>3, <1>4
<1>6. LineStart(file, n) \in 0..n /\ Starts(LineStart(file, n))
  BY <1>3, <1>5, Zenon DEF LineStart
<1>7. ASSUME NEW s \in 0..n, NEW r \in 0..n, Starts(s), Starts(r)
      PROVE  s = r
  <2>1. \A i \in (s + 1)..n : file[i] # NL
    BY <1>7
  <2>2. \A i \in (r + 1)..n : file[i] # NL
    BY <1>7
  <2>3. r = 0 \/ r <= s
    BY <1>7, <2>1
  <2>4. s = 0 \/ s <= r
    BY <1>7, <2>2
  <2> QED BY <2>3, <2>4
<1> HIDE DEF Starts
<1>8. \A s \in 0..n : Starts(s) => s = LineStart(file, n)
  BY <1>6, <1>7
<1> QED
  BY <1>6, <1>8 DEF Starts

(* Counts are numbers. *)
LEMMA PositionTypes ==
  ASSUME NEW file \in Seq(AnyByte), NEW n \in 0..Len(file), NEW S, NEW read \in Seq(S)
  PROVE  /\ IsFiniteSet({i \in 1..n : file[i] = NL}) /\ TrueLine(file, n) \in Int
         /\ \A s : IsFiniteSet(Builtins(read, s, n)) /\ Cardinality(Builtins(read, s, n)) \in Nat
         /\ TrueCol(file, read, n) \in Int
<1>1. IsFiniteSet(1..n) /\ IsFiniteSet(1..Len(read)) /\ DOMAIN read = 1..Len(read)
  BY FS_Interval
<1>2. IsFiniteSet({i \in 1..n : file[i] = NL})
  BY <1>1, FS_Subset
<1>3. TrueLine(file, n) \in Int
  BY <1>2, FS_CardinalityType DEF TrueLine
<1>4. ASSUME NEW s
      PROVE  IsFiniteSet(Builtins(read, s, n)) /\ Cardinality(Builtins(read, s, n)) \in Nat
  <2>1. Builtins(read, s, n) \subseteq 1..Len(read)
    BY <1>1 DEF Builtins
  <2> QED BY <1>1, <2>1, FS_Subset, FS_CardinalityType
<1>5. TrueCol(file, read, n) \in Int
  BY <1>4, LineStartFacts DEF TrueCol
<1> QED
  BY <1>2, <1>3, <1>4, <1>5

(* One byte further is where AfterByte says. *)
LEMMA NextPosition ==
  ASSUME NEW file \in Seq(AnyByte), NEW n \in 0..(Len(file) - 1),
         NEW S, NEW read \in Seq(S), ReadTo(read, n)
  PROVE  /\ TrueAt(file, read, n + 1) = AfterByte(file[n + 1], TrueAt(file, read, n))
         /\ file[n + 1] # NL => LineStart(file, n + 1) = LineStart(file, n)
<1> DEFINE Lines(k) == {i \in 1..k : file[i] = NL}
           s == LineStart(file, n)
           t == LineStart(file, n + 1)
<1>1. n \in 0..Len(file) /\ n + 1 \in 0..Len(file)
  OBVIOUS
<1>2. CASE file[n + 1] = NL
  <2>1. Lines(n + 1) = Lines(n) \cup {n + 1} /\ n + 1 \notin Lines(n)
    BY <1>2
  <2>2. TrueLine(file, n + 1) = TrueLine(file, n) + 1
    <3>1. IsFiniteSet(Lines(n))
      BY <1>1, PositionTypes
    <3>2. TrueLine(file, n + 1) = 1 + Cardinality(Lines(n + 1))
          /\ TrueLine(file, n) = 1 + Cardinality(Lines(n))
      BY DEF TrueLine
    <3> HIDE DEF Lines
    <3>3. Cardinality(Lines(n)) \in Nat
      BY <3>1, FS_CardinalityType
    <3>4. Cardinality(Lines(n + 1)) = Cardinality(Lines(n)) + 1
      BY <2>1, <3>1, FS_AddElement
    <3> QED BY <3>2, <3>3, <3>4
  <2>3. t = n + 1
    <3>1. \A i \in (n + 1 + 1)..(n + 1) : file[i] # NL
      OBVIOUS
    <3> QED BY <1>1, <1>2, <3>1, LineStartFacts
  <2>4. Builtins(read, t, n + 1) = {}
    BY <2>3 DEF Builtins, ReadTo
  <2>5. TrueCol(file, read, n + 1) = 1
    BY <2>3, <2>4, FS_EmptySet DEF TrueCol
  <2> QED BY <1>2, <2>2, <2>5 DEF AfterByte, TrueAt, Pos
<1>3. CASE file[n + 1] # NL
  <2>1. Lines(n + 1) = Lines(n)
    BY <1>3
  <2>2. TrueLine(file, n + 1) = TrueLine(file, n)
    BY <2>1 DEF TrueLine
  <2>3. t = s
    <3>1. s \in 0..n /\ (s = 0 \/ file[s] = NL) /\ \A i \in (s + 1)..n : file[i] # NL
      BY <1>1, LineStartFacts
    <3>2. s \in 0..(n + 1) /\ \A i \in (s + 1)..(n + 1) : file[i] # NL
      BY <1>3, <3>1
    <3> QED BY <1>1, <3>1, <3>2, LineStartFacts
  <2>4. Builtins(read, t, n + 1) = Builtins(read, s, n)
    BY <2>3 DEF Builtins, ReadTo
  <2>5. TrueCol(file, read, n + 1) = TrueCol(file, read, n) + 1
    <3>1. Cardinality(Builtins(read, s, n)) \in Nat /\ s \in 0..n
      BY <1>1, PositionTypes, LineStartFacts
    <3> QED BY <2>3, <2>4, <3>1 DEF TrueCol
  <2> QED BY <1>3, <2>2, <2>3, <2>5 DEF AfterByte, TrueAt, Pos
<1> QED
  BY <1>2, <1>3

(* Bytes without a newline are columns of their line. *)
LEMMA SameLine ==
  ASSUME NEW file \in Seq(AnyByte), NEW p \in Nat, NEW n \in Nat, p + n <= Len(file),
         NEW S, NEW read \in Seq(S), ReadTo(read, p),
         \A k \in (p + 1)..(p + n) : file[k] # NL
  PROVE  /\ TrueLine(file, p + n) = TrueLine(file, p)
         /\ TrueCol(file, read, p + n) = TrueCol(file, read, p) + n
         /\ LineStart(file, p + n) = LineStart(file, p)
<1> DEFINE Same(k) == /\ TrueLine(file, p + k) = TrueLine(file, p)
                      /\ TrueCol(file, read, p + k) = TrueCol(file, read, p) + k
                      /\ LineStart(file, p + k) = LineStart(file, p)
           I == {k \in 0..n : Same(k)}
<1> p \in 0..Len(file)
  OBVIOUS
<1>0. TrueCol(file, read, p) \in Int
  BY PositionTypes
<1>1. 0 \in I
  BY <1>0
<1>2. ASSUME NEW k \in I, k \in 0..(n - 1)
      PROVE  k + 1 \in I
  <2>1. ReadTo(read, p + k) /\ p + k \in 0..(Len(file) - 1) /\ p + k + 1 = p + (k + 1)
    BY <1>2 DEF ReadTo
  <2>2. file[p + k + 1] # NL
    BY <1>2
  <2>3. TrueAt(file, read, p + k + 1) = Pos(TrueLine(file, p + k), TrueCol(file, read, p + k) + 1)
    BY <2>1, <2>2, NextPosition DEF TrueAt, AfterByte, Pos
  <2>4. LineStart(file, p + k + 1) = LineStart(file, p + k)
    BY <2>1, <2>2, NextPosition
  <2> QED BY <1>0, <1>2, <2>1, <2>3, <2>4 DEF TrueAt, Pos
<1> HIDE DEF I
<1>3. n \in I
  BY <1>1, <1>2, Induction
<1> QED
  BY <1>3 DEF I

(* The tokens that end later, or are no `¤`, do not count. *)
LEMMA BuiltinsAppend ==
  ASSUME NEW S, NEW read \in Seq(S), NEW t, NEW s, NEW n \in Int
  PROVE  /\ t.to \in Int /\ t.to > n => Builtins(Append(read, t), s, n) = Builtins(read, s, n)
         /\ t.kind # "builtin" => Builtins(Append(read, t), s, n) = Builtins(read, s, n)
         /\ t.kind = "builtin" /\ s <= t.from /\ t.to <= n
              => /\ Builtins(Append(read, t), s, n) = Builtins(read, s, n) \cup {Len(read) + 1}
                 /\ Len(read) + 1 \notin Builtins(read, s, n)
<1> DEFINE all == Append(read, t)
<1>1. /\ DOMAIN all = 1..(Len(read) + 1) /\ DOMAIN read = 1..Len(read) /\ Len(read) \in Nat
      /\ all[Len(read) + 1] = t /\ \A i \in 1..Len(read) : all[i] = read[i]
  OBVIOUS
<1> HIDE DEF all
<1> QED
  BY <1>1 DEF Builtins, all

(***************************************************************************)
(* What the loops of the lexer compute                                     *)
(***************************************************************************)
(* A run ends at the first byte that is not of the class. *)
LEMMA RunEndFacts ==
  ASSUME bytes \in Seq(AnyByte), NEW i \in 0..Len(bytes), NEW class
  PROVE  /\ RunEnd(i, class) \in i..Len(bytes)
         /\ \A n \in i..(RunEnd(i, class) - 1) : bytes[n + 1] \in class
         /\ RunEnd(i, class) < Len(bytes) => bytes[RunEnd(i, class) + 1] \notin class
         /\ i < Len(bytes) /\ bytes[i + 1] \in class => i < RunEnd(i, class)
<1> DEFINE Ends(j) == /\ \A n \in i..(j - 1) : bytes[n + 1] \in class
                      /\ j < Len(bytes) => bytes[j + 1] \notin class
           T == {j \in i..Len(bytes) : j < Len(bytes) => bytes[j + 1] \notin class}
<1>1. T \in SUBSET Nat /\ Len(bytes) \in T
  OBVIOUS
<1>2. PICK j \in T : \A k \in T : j <= k
  BY <1>1, Least
<1>3. j \in i..Len(bytes) /\ Ends(j)
  <2> SUFFICES ASSUME NEW n \in i..(j - 1), bytes[n + 1] \notin class PROVE FALSE
    BY <1>2
  <2>1. n \in T /\ ~(j <= n)
    BY <1>2
  <2> QED BY <1>2, <2>1
<1>4. RunEnd(i, class) \in i..Len(bytes) /\ Ends(RunEnd(i, class))
  BY <1>3, Zenon DEF RunEnd
<1> QED
  BY <1>4

(* Moved is the position after each of the bytes. *)
Moves(u, i, n, l, c) ==
  /\ u \in [0..n -> Int \X Int] /\ u[0] = Pos(l, c) /\ Moved(i, n, l, c) = u[n]
  /\ \A k \in 1..n : u[k] = AfterByte(bytes[i + k], u[k - 1])

LEMMA MovedFacts ==
  ASSUME bytes \in Seq(AnyByte), NEW i \in Nat, NEW n \in Nat,
         NEW l \in Int, NEW c \in Int
  PROVE  \E u : Moves(u, i, n, l, c)
<1> DEFINE All == Int \X Int
           Then(k, p) == AfterByte(bytes[i + k], p)
           Rec(f) == f = [k \in 0..n |-> IF k = 0 THEN Pos(l, c)
                                         ELSE AfterByte(bytes[i + k], f[k - 1])]
           u == CHOOSE f : Rec(f)
           step == [k \in 1..n |-> [p \in All |-> Then(k, p)]]
<1>1. Moved(i, n, l, c) = u[n]
  BY DEF Moved
<1>2. Pos(l, c) \in All /\ \A k \in 1..n : \A p \in All : Then(k, p) \in All
  BY DEF Pos, AfterByte
<1> HIDE DEF All, u
<1>3. AreSteps(step, n, All)
  BY <1>2 DEF AreSteps
<1>4. PICK f : Iterates(f, Pos(l, c), step, n, All)
  BY <1>2, <1>3, Iteration
<1>5. \A k \in 1..n : k - 1 \in 0..n /\ f[k - 1] \in All /\ f[k] = Then(k, f[k - 1])
  BY <1>4 DEF Iterates
<1>6. Rec(f)
  BY <1>4, <1>5 DEF Iterates
<1>7. Rec(u)
  BY <1>6 DEF u
<1> DEFINE I == {k \in 0..n : u[k] \in All}
<1>8. 0 \in I
  BY <1>2, <1>7
<1>9. ASSUME NEW k \in I, k \in 0..(n - 1)
      PROVE  k + 1 \in I
  <2>1. k + 1 \in 1..n /\ (k + 1) - 1 = k
    BY <1>9
  <2>2. u[k + 1] = Then(k + 1, u[k])
    BY <1>7, <2>1
  <2> HIDE DEF Then
  <2>3. u[k + 1] \in All
    BY <1>2, <1>9, <2>1, <2>2
  <2> QED BY <1>9, <2>1, <2>3
<1> HIDE DEF I
<1>10. 0..n \subseteq I
  BY <1>8, <1>9, Induction
<1>11. u \in [0..n -> All] /\ u[0] = Pos(l, c)
  BY <1>7, <1>10 DEF I
<1>12. \A k \in 1..n : u[k] = AfterByte(bytes[i + k], u[k - 1])
  BY <1>7
<1> HIDE DEF Rec
<1> QED
  BY <1>1, <1>11, <1>12 DEF All, Moves

(* From a true position, Moved ends at one. *)
LEMMA MovedIsTrue ==
  ASSUME bytes \in Seq(AnyByte), NEW i \in Nat, NEW n \in Nat, i + n <= Len(bytes),
         NEW S, NEW read \in Seq(S), ReadTo(read, i)
  PROVE  Moved(i, n, TrueLine(bytes, i), TrueCol(bytes, read, i)) = TrueAt(bytes, read, i + n)
<1> DEFINE from == TrueLine(bytes, i)
           column == TrueCol(bytes, read, i)
<1>1. i \in 0..Len(bytes) /\ from \in Int /\ column \in Int
  <2>1. i \in 0..Len(bytes)
    OBVIOUS
  <2> QED BY <2>1, PositionTypes
<1> HIDE DEF from, column
<1>2. PICK u : Moves(u, i, n, from, column)
  BY <1>1, MovedFacts
<1> USE DEF from, column
<1> DEFINE I == {k \in 0..n : u[k] = TrueAt(bytes, read, i + k)}
<1>3. 0 \in I
  BY <1>2 DEF TrueAt, Moves
<1>4. ASSUME NEW k \in I, k \in 0..(n - 1)
      PROVE  k + 1 \in I
  <2>1. k + 1 \in 1..n /\ (k + 1) - 1 = k /\ i + k + 1 = i + (k + 1)
    BY <1>4
  <2>2. ReadTo(read, i + k) /\ i + k \in 0..(Len(bytes) - 1)
    BY <1>4 DEF ReadTo
  <2>3. u[k + 1] = AfterByte(bytes[i + k + 1], u[k])
    BY <1>2, <2>1 DEF Moves
  <2>4. TrueAt(bytes, read, i + k + 1) = AfterByte(bytes[i + k + 1], TrueAt(bytes, read, i + k))
    BY <2>2, NextPosition
  <2> QED BY <1>4, <2>1, <2>3, <2>4
<1> HIDE DEF I
<1>5. n \in I
  BY <1>3, <1>4, Induction
<1> QED
  BY <1>2, <1>5 DEF I, Moves

(* A comment that is closed ends in the file. *)
LEMMA CommentEnds ==
  ASSUME bytes \in Seq(AnyByte), NEW i \in 0..Len(bytes)
  PROVE  CommentFrom(i).at \in i..Len(bytes)
<1> DEFINE n == Len(bytes)
           All == [at : i..n, depth : Int]
           start == [at |-> i, depth |-> 1]
           Rec(f) == f = [k \in 0..n |-> IF k = 0 THEN start ELSE CommentTurn(f[k - 1])]
           u == CHOOSE f : Rec(f)
           step == [k \in 1..n |-> [s \in All |-> CommentTurn(s)]]
<1>1. CommentFrom(i) = u[n]
  BY DEF CommentFrom
<1>2. n \in Nat /\ start \in All
  OBVIOUS
<1>3. ASSUME NEW s \in All
      PROVE  CommentTurn(s) \in All
  <2>1. ByteAt(s.at + 1) \in {Star, Slash} => s.at + 2 \in i..n
    BY DEF ByteAt, Star, Slash
  <2>2. s.at < n => s.at + 1 \in i..n
    BY <1>2
  <2> QED BY <1>2, <2>1, <2>2 DEF CommentTurn
<1> HIDE DEF n, All, start, u
<1>4. AreSteps(step, n, All)
  BY <1>3 DEF AreSteps
<1>5. PICK f : Iterates(f, start, step, n, All)
  BY <1>2, <1>4, Iteration
<1>6. \A k \in 1..n : k - 1 \in 0..n /\ f[k - 1] \in All /\ f[k] = CommentTurn(f[k - 1])
  BY <1>2, <1>5 DEF Iterates
<1>7. Rec(f)
  BY <1>2, <1>5, <1>6 DEF Iterates
<1>8. Rec(u)
  BY <1>7 DEF u
<1> DEFINE I == {k \in 0..n : u[k] \in All}
<1>9. 0 \in I
  BY <1>2, <1>8
<1>10. ASSUME NEW k \in I, k \in 0..(n - 1)
       PROVE  k + 1 \in I
  <2>1. k + 1 \in 0..n /\ u[k + 1] = CommentTurn(u[k])
    BY <1>2, <1>8, <1>10
  <2> QED BY <1>3, <1>10, <2>1
<1> HIDE DEF I
<1>11. n \in I
  BY <1>2, <1>9, <1>10, Induction
<1> QED
  BY <1>1, <1>11 DEF I, All, n

(* A string literal ends in the file. *)
LEMMA StringEnds ==
  ASSUME bytes \in Seq(AnyByte), NEW i \in 0..Len(bytes)
  PROVE  StringFrom(i).at \in i..Len(bytes)
<1> DEFINE n == Len(bytes)
           All == [at : i..n, value : Seq(AnyByte), is : {"open", "closed", "refused"}]
           start == [at |-> i, value |-> <<>>, is |-> "open"]
           Rec(f) == f = [k \in 0..n |-> IF k = 0 THEN start ELSE StringTurn(f[k - 1])]
           u == CHOOSE f : Rec(f)
           step == [k \in 1..n |-> [s \in All |-> StringTurn(s)]]
<1>1. StringFrom(i) = u[n]
  BY DEF StringFrom
<1>2. n \in Nat /\ start \in All
  OBVIOUS
<1>3. ASSUME NEW s \in All
      PROVE  StringTurn(s) \in All
  <2> DEFINE c == ByteAt(s.at)
             e == ByteAt(s.at + 1)
  <2>1. c # -1 => s.at + 1 \in i..n /\ c \in AnyByte
    BY DEF ByteAt
  <2>2. e \in DOMAIN Escapes => s.at + 2 \in i..n /\ Escapes[e] \in AnyByte
    BY DEF ByteAt, Escapes, Zero, Backslash, Quote, AnyByte, NL
  <2> HIDE DEF c, e, n
  <2>3. CASE s.is # "open" \/ c = -1
    BY <2>3 DEF StringTurn, c
  <2>4. CASE ~(s.is # "open" \/ c = -1)
    <3>1. CASE c = Quote
      BY <2>1, <2>4, <3>1 DEF StringTurn, c, e
    <3>2. CASE c # Quote /\ c # Backslash
      <4>1. Append(s.value, c) \in Seq(AnyByte)
        BY <2>1, <2>4
      <4>2. StringTurn(s) = [s EXCEPT !.at = s.at + 1, !.value = Append(s.value, c)]
        BY <2>4, <3>2, Zenon DEF StringTurn, c
      <4> QED BY <2>1, <2>4, <4>1, <4>2
    <3>3. CASE c = Backslash /\ e \in DOMAIN Escapes
      <4>1. Append(s.value, Escapes[e]) \in Seq(AnyByte)
        BY <2>2, <3>3
      <4>2. c # Quote
        BY <3>3 DEF Quote, Backslash
      <4>3. StringTurn(s) = [s EXCEPT !.at = s.at + 2, !.value = Append(s.value, Escapes[e])]
        BY <2>4, <3>3, <4>2, Zenon DEF StringTurn, c, e
      <4> QED BY <2>2, <3>3, <4>1, <4>3
    <3>4. CASE c = Backslash /\ e \notin DOMAIN Escapes
      BY <2>4, <3>4 DEF StringTurn, c, e, Backslash, Quote
    <3> QED BY <3>1, <3>2, <3>3, <3>4
  <2> QED BY <2>3, <2>4
<1> HIDE DEF n, All, start, u
<1>4. AreSteps(step, n, All)
  BY <1>3 DEF AreSteps
<1>5. PICK f : Iterates(f, start, step, n, All)
  BY <1>2, <1>4, Iteration
<1>6. \A k \in 1..n : k - 1 \in 0..n /\ f[k - 1] \in All /\ f[k] = StringTurn(f[k - 1])
  BY <1>2, <1>5 DEF Iterates
<1>7. Rec(f)
  BY <1>2, <1>5, <1>6 DEF Iterates
<1>8. Rec(u)
  BY <1>7 DEF u
<1> DEFINE I == {k \in 0..n : u[k] \in All}
<1>9. 0 \in I
  BY <1>2, <1>8
<1>10. ASSUME NEW k \in I, k \in 0..(n - 1)
       PROVE  k + 1 \in I
  <2>1. k + 1 \in 0..n /\ u[k + 1] = StringTurn(u[k])
    BY <1>2, <1>8, <1>10
  <2> QED BY <1>3, <1>10, <2>1
<1> HIDE DEF I
<1>11. n \in I
  BY <1>2, <1>9, <1>10, Induction
<1> QED
  BY <1>1, <1>11 DEF I, All, n

(* Their lengths are numbers. *)
LEMMA Lengths ==
  ASSUME bytes \in Seq(AnyByte), NEW i \in 0..(Len(bytes) - 1)
  PROVE  CharEscape(i).len \in Int /\ DecodeUtf8Codepoint(i).len \in Int
<1> DEFINE none   == [value |-> 0, len |-> 0]
           close  == RunEnd(i + 3, AnyByte \ {125})
<1>1. DecodeUtf8Codepoint(i).len \in {0, 1, Utf8(bytes[i + 1]).len}
  BY DEF DecodeUtf8Codepoint
<1>2. Utf8(bytes[i + 1]).len \in Int
  BY DEF Utf8, AnyByte
<1>3. \/ CharEscape(i).len \in {0, 2, 4}
      \/ ByteAt(i + 2) = 123 /\ CharEscape(i).len = close + 1 - i
  <2> DEFINE At(n)  == ByteAt(i + n)
             c      == CharEscape(i)
             hex    == HexDigitValue(At(2)) * 16 + HexDigitValue(At(3))
             digits == [n \in 1..(close - i - 3) |-> HexDigitValue(bytes[i + 3 + n])]
             number == FoldLeft(LAMBDA v, d : v * 16 + d, 0, digits)
  <2>1. CASE At(1) \in DOMAIN Escapes \cup {Apostrophe}
    <3>1. At(1) # 120 /\ At(1) # 117
      BY <2>1 DEF Escapes, Zero, Backslash, Quote, Apostrophe
    <3>2. c = [value |-> IF At(1) = Apostrophe THEN Apostrophe ELSE Escapes[At(1)], len |-> 2]
      BY <2>1, <3>1 DEF CharEscape
    <3> QED BY <3>2
  <2>2. CASE At(1) = 120
    <3>1. At(1) \notin DOMAIN Escapes \cup {Apostrophe} /\ At(1) # 117
      BY <2>2 DEF Escapes, Zero, Backslash, Quote, Apostrophe, NL
    <3>2. c = IF -1 \in {HexDigitValue(At(2)), HexDigitValue(At(3))} \/ hex > 127 THEN none
              ELSE [value |-> hex, len |-> 4]
      BY <2>2, <3>1 DEF CharEscape
    <3> QED BY <3>2
  <2>3. CASE At(1) = 117 /\ At(2) = 123
    <3>1. At(1) \notin DOMAIN Escapes \cup {Apostrophe} /\ At(1) # 120
      BY <2>3 DEF Escapes, Zero, Backslash, Quote, Apostrophe, NL
    <3>2. c = IF close = Len(bytes) \/ Len(digits) \notin 1..6 \/ -1 \in ToSet(digits) THEN none
              ELSE [value |-> number, len |-> close + 1 - i]
      BY <2>3, <3>1 DEF CharEscape
    <3> HIDE DEF number, digits, close
    <3> QED BY <2>3, <3>2
  <2>4. CASE ~(At(1) \in DOMAIN Escapes \cup {Apostrophe}) /\ At(1) # 120
             /\ ~(At(1) = 117 /\ At(2) = 123)
    <3>1. c = none
      BY <2>4 DEF CharEscape
    <3> QED BY <3>1
  <2> QED BY <2>1, <2>2, <2>3, <2>4
<1>4. ByteAt(i + 2) = 123 => i + 3 \in 0..Len(bytes)
  BY DEF ByteAt
<1>5. ByteAt(i + 2) = 123 => close \in Int
  BY <1>4, RunEndFacts
<1> HIDE DEF close
<1> QED
  BY <1>1, <1>2, <1>3, <1>5

(* What a character literal is made of holds no newline, but for the       *)
(* character itself.                                                       *)
LEMMA CharEscapeFacts ==
  ASSUME bytes \in Seq(AnyByte), NEW i \in 0..(Len(bytes) - 1), bytes[i + 1] = Backslash,
         CharEscape(i).len > 0, ByteAt(i + CharEscape(i).len) = Apostrophe
  PROVE  /\ CharEscape(i).len \in Nat \ {0} /\ i + CharEscape(i).len < Len(bytes)
         /\ \A k \in 0..CharEscape(i).len : ByteAt(i + k) # NL
<1> DEFINE At(n)  == ByteAt(i + n)
           c      == CharEscape(i)
           close  == RunEnd(i + 3, AnyByte \ {125})
           digits == [n \in 1..(close - i - 3) |-> HexDigitValue(bytes[i + 3 + n])]
           none   == [value |-> 0, len |-> 0]
           hex    == HexDigitValue(At(2)) * 16 + HexDigitValue(At(3))
           number == FoldLeft(LAMBDA v, d : v * 16 + d, 0, digits)
<1>1. At(0) = Backslash /\ Backslash # NL /\ Apostrophe # NL
  BY DEF ByteAt, Backslash, Apostrophe, NL
<1>2. c.len \in Nat => i + c.len < Len(bytes)
  BY DEF ByteAt, Apostrophe
<1>3. HexDigitValue(NL) = -1
  BY DEF HexDigitValue, NL
<1>4. CASE At(1) \in DOMAIN Escapes \cup {Apostrophe}
  <2>1. c = [value |-> IF At(1) = Apostrophe THEN Apostrophe ELSE Escapes[At(1)], len |-> 2]
    <3>1. At(1) # 120 /\ At(1) # 117
      BY <1>4 DEF Escapes, Zero, Backslash, Quote, Apostrophe
    <3> QED BY <1>4, <3>1 DEF CharEscape
  <2>2. At(1) # NL
    BY <1>4 DEF Escapes, NL, Zero, Backslash, Quote, Apostrophe
  <2> QED BY <1>1, <1>2, <2>1, <2>2
<1>5. CASE At(1) = 120
  <2>1. At(1) \notin DOMAIN Escapes \cup {Apostrophe} /\ At(1) # 117 /\ At(1) # NL
    BY <1>5 DEF Escapes, NL, Zero, Backslash, Quote, Apostrophe
  <2>2. c = IF -1 \in {HexDigitValue(At(2)), HexDigitValue(At(3))} \/ hex > 127 THEN none
            ELSE [value |-> hex, len |-> 4]
    BY <1>5, <2>1 DEF CharEscape
  <2>3. c.len = 4 /\ -1 \notin {HexDigitValue(At(2)), HexDigitValue(At(3))}
    BY <2>2
  <2> QED BY <1>1, <1>2, <1>3, <2>1, <2>3
<1>6. CASE At(1) = 117 /\ At(2) = 123
  <2>1. At(1) \notin DOMAIN Escapes \cup {Apostrophe} /\ At(1) # 120 /\ At(1) # NL /\ At(2) # NL
    BY <1>6 DEF Escapes, NL, Zero, Backslash, Quote, Apostrophe
  <2>2. c = IF close = Len(bytes) \/ Len(digits) \notin 1..6 \/ -1 \in ToSet(digits) THEN none
            ELSE [value |-> number, len |-> close + 1 - i]
    BY <1>6, <2>1 DEF CharEscape
  <2> HIDE DEF number, digits, close
  <2>3. c.len = close + 1 - i /\ close # Len(bytes) /\ -1 \notin ToSet(digits)
    BY <2>2
  <2>4. i + 3 \in 0..Len(bytes)
    BY <1>6 DEF ByteAt, close
  <2>5. /\ close \in (i + 3)..(Len(bytes) - 1)
        /\ bytes[close + 1] \in AnyByte /\ bytes[close + 1] \notin AnyByte \ {125}
    BY <2>3, <2>4, RunEndFacts DEF close
  <2>6. \A n \in 1..(close - i - 3) : bytes[i + 3 + n] # NL
    BY <1>3, <2>3 DEF ToSet, digits
  <2>7. ASSUME NEW k \in 0..c.len
        PROVE  ByteAt(i + k) # NL
    <3>1. CASE k \in 3..(close - i - 1)
      <4>1. k - 2 \in 1..(close - i - 3) /\ i + 3 + (k - 2) = i + k + 1 /\ i + k < Len(bytes)
        BY <2>5, <3>1
      <4> QED BY <2>6, <4>1 DEF ByteAt
    <3>2. CASE k = close - i
      BY <2>5, <3>2 DEF ByteAt, NL
    <3>3. k \in 0..2 \/ k \in 3..(close - i - 1) \/ k = close - i \/ k = c.len
      BY <2>3, <2>5
    <3> QED BY <1>1, <2>1, <3>1, <3>2, <3>3
  <2>8. c.len \in Nat \ {0}
    BY <2>3, <2>5
  <2> HIDE DEF c
  <2>9. c.len \in Nat \ {0} /\ i + c.len < Len(bytes) /\ \A k \in 0..c.len : ByteAt(i + k) # NL
    BY <1>2, <2>7, <2>8
  <2> QED BY <2>9 DEF c
<1>7. At(1) \in DOMAIN Escapes \cup {Apostrophe} \/ At(1) = 120 \/ (At(1) = 117 /\ At(2) = 123)
  <2> SUFFICES ASSUME ~(At(1) \in DOMAIN Escapes \cup {Apostrophe}), At(1) # 120,
                      ~(At(1) = 117 /\ At(2) = 123)
               PROVE  FALSE
    OBVIOUS
  <2>1. c = none
    BY DEF CharEscape
  <2> QED BY <1>1, <2>1
<1> QED
  BY <1>4, <1>5, <1>6, <1>7

LEMMA DecodeFacts ==
  ASSUME bytes \in Seq(AnyByte), NEW i \in 0..(Len(bytes) - 1),
         DecodeUtf8Codepoint(i).len > 0,
         ByteAt(i + DecodeUtf8Codepoint(i).len) = Apostrophe
  PROVE  LET c == DecodeUtf8Codepoint(i)
         IN  /\ c.len \in Nat \ {0} /\ i + c.len < Len(bytes)
             /\ c.value # NL => \A k \in 0..c.len : ByteAt(i + k) # NL
<1> DEFINE c    == DecodeUtf8Codepoint(i)
           b    == bytes[i + 1]
           u    == Utf8(b)
           rest == [n \in 1..(u.len - 1) |-> ByteAt(i + n)]
           cp   == FoldLeft(LAMBDA v, d : (v * 64) + (d % 64), u.lead, rest)
<1>1. b \in AnyByte /\ b = ByteAt(i)
  BY DEF ByteAt
<1>2. c.len \in Nat => i + c.len < Len(bytes)
  BY DEF ByteAt, Apostrophe
<1>3. CASE b < 128
  <2>1. c = [value |-> b, len |-> 1]
    BY <1>3 DEF DecodeUtf8Codepoint
  <2>2. Apostrophe # NL
    BY DEF Apostrophe, NL
  <2> QED BY <1>1, <1>2, <2>1, <2>2
<1>4. CASE ~(b < 128)
  <2>1. u.len \in {0, 2, 3, 4}
    BY <1>1, <1>4 DEF Utf8, AnyByte
  <2> DEFINE bad == \/ u.len = 0 \/ i + u.len > Len(bytes)
                    \/ ToSet(rest) \ (128..191) # {} \/ cp < u.min
  <2>2. c = IF bad THEN [value |-> 0, len |-> 0] ELSE [value |-> cp, len |-> u.len]
    BY <1>4 DEF DecodeUtf8Codepoint
  <2> HIDE DEF cp, rest, u
  <2>3. c.len = u.len /\ u.len # 0 /\ ToSet(rest) \ (128..191) = {}
    <3> HIDE DEF bad
    <3>1. ~ bad /\ c.len = u.len
      BY <2>2
    <3> QED BY <3>1 DEF bad
  <2>4. \A n \in 1..(u.len - 1) : ByteAt(i + n) \in 128..191
    BY <2>1, <2>3 DEF ToSet, rest
  <2>5. Apostrophe # NL /\ b # NL /\ NL \notin 128..191
    BY <1>4 DEF Apostrophe, NL
  <2>6. ASSUME NEW k \in 0..c.len
        PROVE  ByteAt(i + k) # NL
    <3>1. k = 0 \/ k \in 1..(u.len - 1) \/ k = c.len
      BY <2>1, <2>3
    <3>2. k = 0 => ByteAt(i + k) = b
      BY <1>1
    <3>3. k = c.len => ByteAt(i + k) = Apostrophe
      OBVIOUS
    <3> QED BY <2>4, <2>5, <3>1, <3>2, <3>3
  <2> QED BY <1>2, <2>1, <2>3, <2>6
<1> QED
  BY <1>3, <1>4

(***************************************************************************)
(* The invariant                                                           *)
(***************************************************************************)
(* What stands right after a token makes no longer one with it. *)
NoLonger(file, t) ==
  t.to < Len(file) =>
    LET next == file[t.to + 1]
    IN  /\ t.kind = "punct" =>
             Append(SubSeq(file, t.from + 1, t.to), next) \notin Doubles \cup Triples
        /\ t.kind \in {"word", "lifetime"} => next \notin IdentContinue
        /\ t.kind = "int" => next \notin Digit

LexTypeOK ==
  /\ bytes \in Sources /\ byte_pos \in 0..Len(bytes)
  /\ line \in Int /\ col \in Int
  /\ tokens \in Seq(ToSet(tokens))
  /\ ReadTo(tokens, byte_pos)

Longest ==
  /\ \A i \in DOMAIN tokens : NoLonger(bytes, tokens[i])
  /\ \A i \in 1..(Len(tokens) - 1) : tokens[i].to <= tokens[i + 1].from

(* The lexer itself is where it believes to be. *)
Located == NewlinesAreLines => Pos(line, col) = TruePos(byte_pos)

LexIInv == LexTypeOK /\ Longest /\ Located /\ PositionsAreTrue

(* A token of more than nothing, at the position of the lexer, that cannot *)
(* be longer, keeps it.                                                    *)
LEMMA TokenKeeps ==
  ASSUME AreFiles, LexIInv, NEW t, tokens' = Append(tokens, t), bytes' = bytes,
         t.from = byte_pos, t.to = byte_pos', byte_pos' \in (byte_pos + 1)..Len(bytes),
         line' \in Int, col' \in Int,
         NoLonger(bytes, t),
         t.start = Pos(line, col), t.end = Pos(line', col'),
         NewlinesAreLines' => Pos(line', col') = TruePos(byte_pos)'
  PROVE  LexIInv'
<1> DEFINE all == Append(tokens, t)
           n == Len(tokens)
<1>1. bytes \in Seq(AnyByte) /\ byte_pos \in Nat /\ byte_pos' \in Nat /\ byte_pos < byte_pos'
  BY DEF AreFiles, LexIInv, LexTypeOK
<1>2. tokens \in Seq(ToSet(tokens)) /\ ReadTo(tokens, byte_pos)
  BY DEF LexIInv, LexTypeOK
<1>3. /\ n \in Nat /\ DOMAIN tokens = 1..n /\ DOMAIN all = 1..(n + 1) /\ Len(all) = n + 1
      /\ all[n + 1] = t /\ \A i \in 1..n : all[i] = tokens[i]
  BY <1>2
<1>4. all \in Seq(ToSet(all))
  <2>1. \A i \in 1..(n + 1) : all[i] \in ToSet(all)
    BY <1>3 DEF ToSet
  <2> QED BY <1>2, <1>3, <2>1
<1>5. ReadTo(all, byte_pos')
  <2> SUFFICES ASSUME NEW i \in 1..(n + 1)
               PROVE  /\ all[i].from \in Nat /\ all[i].to \in Nat /\ all[i].from < all[i].to
                      /\ all[i].to <= byte_pos'
    BY <1>3 DEF ReadTo
  <2>1. CASE i = n + 1
    BY <1>1, <1>3, <2>1
  <2>2. CASE i \in 1..n
    BY <1>1, <1>2, <1>3, <2>2 DEF ReadTo
  <2> QED BY <2>1, <2>2
<1>6. LexTypeOK'
  <2>1. byte_pos' \in 0..Len(bytes)
    BY <1>1
  <2> QED BY <1>4, <1>5, <2>1 DEF LexTypeOK, LexIInv
<1>7. Longest'
  <2> HIDE DEF all, n
  <2>1. ASSUME NEW i \in 1..(n + 1)
        PROVE  NoLonger(bytes, all[i])
    <3>1. CASE i = n + 1
      BY <1>3, <2>1, <3>1
    <3>2. CASE i \in 1..n
      BY <1>3, <2>1, <3>2 DEF LexIInv, Longest
    <3> QED BY <1>3, <3>1, <3>2
  <2>2. ASSUME NEW i \in 1..n
        PROVE  all[i].to <= all[i + 1].from
    <3>1. CASE i = n
      BY <1>2, <1>3, <3>1 DEF ReadTo
    <3>2. CASE i \in 1..(n - 1)
      BY <1>3, <3>2 DEF LexIInv, Longest, n
    <3> QED BY <1>3, <3>1, <3>2
  <2>3. tokens' = all
    BY DEF all
  <2>4. \A i \in 1..(Len(all) - 1) : all[i].to <= all[i + 1].from
    BY <1>3, <2>2
  <2> QED BY <1>3, <2>1, <2>3, <2>4 DEF Longest
<1>8. NewlinesAreLines' => NewlinesAreLines
  BY <1>3 DEF NewlinesAreLines
<1>9. Located'
  BY DEF Located
<1>10. \A m \in 0..byte_pos : TruePos(m)' = TruePos(m)
  <2> SUFFICES ASSUME NEW m \in 0..byte_pos
               PROVE  TrueCol(bytes, all, m) = TrueCol(bytes, tokens, m)
    BY DEF TruePos
  <2>1. Builtins(all, LineStart(bytes, m), m) = Builtins(tokens, LineStart(bytes, m), m)
    BY <1>1, <1>2, BuiltinsAppend
  <2> QED BY <2>1 DEF TrueCol
<1>11. ASSUME NewlinesAreLines', NEW i \in 1..(n + 1)
       PROVE  all[i].start = TruePos(all[i].from)' /\ all[i].end = TruePos(all[i].to)'
  <2>1. NewlinesAreLines
    BY <1>8, <1>11
  <2>2. CASE i = n + 1
    <3>1. t.start = TruePos(byte_pos)
      BY <2>1 DEF LexIInv, Located
    <3>2. t.start = TruePos(t.from)'
      <4>1. byte_pos \in 0..byte_pos
        BY <1>1
      <4> QED BY <1>10, <3>1, <4>1
    <3>3. t.end = TruePos(byte_pos)'
      BY <1>11
    <3> QED BY <1>3, <2>2, <3>2, <3>3
  <2>3. CASE i \in 1..n
    <3>1. all[i] = tokens[i] /\ i \in DOMAIN tokens
      BY <1>3, <2>3
    <3>2. tokens[i].from \in 0..byte_pos /\ tokens[i].to \in 0..byte_pos
      BY <1>1, <1>2, <3>1 DEF ReadTo
    <3>3. tokens[i].start = TruePos(tokens[i].from) /\ tokens[i].end = TruePos(tokens[i].to)
      BY <2>1, <3>1 DEF LexIInv, PositionsAreTrue
    <3> QED BY <1>10, <3>1, <3>2, <3>3
  <2> QED BY <2>2, <2>3
<1>12. PositionsAreTrue'
  BY <1>3, <1>11 DEF PositionsAreTrue
<1> QED
  BY <1>6, <1>7, <1>9, <1>12 DEF LexIInv

(* So does a token of as many columns as it has bytes, when no newline is  *)
(* in it but a character's own.                                            *)
LEMMA PushKeeps ==
  ASSUME AreFiles, LexIInv, NEW kind, NEW value, NEW n \in Nat \ {0}, byte_pos + n <= Len(bytes),
         PushToken(kind, value, n, n), kind # "builtin",
         NoLonger(bytes, Token(kind, value, n, n)),
         \/ kind = "char" /\ value = NL
         \/ \A k \in (byte_pos + 1)..(byte_pos + n) : bytes[k] # NL
  PROVE  LexIInv'
<1> DEFINE t == Token(kind, value, n, n)
<1>1. /\ bytes \in Seq(AnyByte) /\ byte_pos \in Nat /\ byte_pos' = byte_pos + n /\ bytes' = bytes
      /\ line' = line /\ col' = col + n /\ line \in Int /\ col \in Int
      /\ tokens' = Append(tokens, t) /\ tokens \in Seq(ToSet(tokens)) /\ ReadTo(tokens, byte_pos)
  BY DEF AreFiles, LexIInv, LexTypeOK, PushToken
<1>2. /\ t.from = byte_pos /\ t.to = byte_pos' /\ t.start = Pos(line, col)
      /\ t.end = Pos(line', col') /\ t.kind = kind /\ t.value = value
  BY <1>1 DEF Token
<1> HIDE DEF t
<1>3. ASSUME NewlinesAreLines'
      PROVE  Pos(line', col') = TruePos(byte_pos)'
  <2>1. NewlinesAreLines /\ ~(kind = "char" /\ value = NL)
    <3> DEFINE all == Append(tokens, t)
               m == Len(tokens)
    <3>1. /\ m \in Nat /\ DOMAIN tokens = 1..m /\ DOMAIN all = 1..(m + 1)
          /\ all[m + 1] = t /\ \A i \in 1..m : all[i] = tokens[i]
      BY <1>1
    <3> HIDE DEF all, m
    <3>2. \A i \in 1..(m + 1) : all[i].kind = "char" => all[i].value # NL
      BY <1>1, <1>3, <3>1 DEF NewlinesAreLines, all
    <3> QED BY <1>2, <3>1, <3>2 DEF NewlinesAreLines
  <2>2. line = TrueLine(bytes, byte_pos) /\ col = TrueCol(bytes, tokens, byte_pos)
    BY <2>1 DEF LexIInv, Located, TruePos, Pos
  <2>3. /\ TrueLine(bytes, byte_pos + n) = line
        /\ TrueCol(bytes, tokens, byte_pos + n) = col + n
    BY <1>1, <2>1, <2>2, SameLine
  <2>4. Builtins(Append(tokens, t), LineStart(bytes, byte_pos + n), byte_pos + n)
          = Builtins(tokens, LineStart(bytes, byte_pos + n), byte_pos + n)
    BY <1>1, <1>2, BuiltinsAppend
  <2>5. TrueCol(bytes, Append(tokens, t), byte_pos + n) = col + n
    BY <2>3, <2>4 DEF TrueCol
  <2> QED BY <1>1, <2>3, <2>5 DEF TruePos
<1>4. byte_pos' \in (byte_pos + 1)..Len(bytes) /\ line' \in Int /\ col' \in Int
  BY <1>1
<1>5. NoLonger(bytes, t)
  BY DEF t
<1> QED
  BY <1>1, <1>2, <1>3, <1>4, <1>5, TokenKeeps

(* What is skipped is counted. *)
LEMMA SkipKeeps ==
  ASSUME AreFiles, LexIInv, NEW j \in byte_pos..Len(bytes), SkipTo(j)
  PROVE  LexIInv'
<1>1. /\ bytes \in Seq(AnyByte) /\ byte_pos \in Nat /\ byte_pos' = j /\ bytes' = bytes
      /\ tokens' = tokens /\ line \in Int /\ col \in Int
      /\ tokens \in Seq(ToSet(tokens)) /\ ReadTo(tokens, byte_pos)
      /\ j \in Nat /\ j - byte_pos \in Nat /\ byte_pos + (j - byte_pos) = j
  BY DEF AreFiles, LexIInv, LexTypeOK, SkipTo
<1> DEFINE p == Moved(byte_pos, j - byte_pos, line, col)
<1>2. line' = p[1] /\ col' = p[2]
  BY DEF SkipTo
<1>3. p \in Int \X Int
  <2>1. PICK u : Moves(u, byte_pos, j - byte_pos, line, col)
    BY <1>1, MovedFacts
  <2> QED BY <1>1, <2>1 DEF Moves
<1>4. LexTypeOK'
  <2>1. ReadTo(tokens, j)
    BY <1>1 DEF ReadTo
  <2> QED BY <1>1, <1>2, <1>3, <2>1 DEF LexTypeOK, LexIInv
<1>5. Longest'
  BY <1>1 DEF Longest, LexIInv
<1>6. ASSUME NewlinesAreLines'
      PROVE  Pos(line', col') = TruePos(byte_pos)'
  <2>1. Pos(line, col) = TruePos(byte_pos)
    BY <1>1, <1>6 DEF LexIInv, Located, NewlinesAreLines
  <2>2. line = TrueLine(bytes, byte_pos) /\ col = TrueCol(bytes, tokens, byte_pos)
    BY <2>1 DEF TruePos, Pos
  <2>3. p = TrueAt(bytes, tokens, j)
    BY <1>1, <2>2, MovedIsTrue
  <2>4. Pos(line', col') = p
    BY <1>2, <1>3 DEF Pos
  <2> QED BY <1>1, <2>3, <2>4 DEF TruePos, TrueAt
<1>7. PositionsAreTrue'
  BY <1>1 DEF LexIInv, PositionsAreTrue, NewlinesAreLines, TruePos
<1> QED
  BY <1>4, <1>5, <1>6, <1>7 DEF LexIInv, Located

(***************************************************************************)
(* The actions                                                             *)
(***************************************************************************)
(* Up to the end of the file, the bytes ahead are the text. *)
LEMMA AheadIsText ==
  ASSUME bytes \in Seq(AnyByte), byte_pos \in Nat, NEW n \in Nat, byte_pos + n <= Len(bytes)
  PROVE  /\ SubSeq(bytes, byte_pos + 1, byte_pos + n) = Ahead(n)
         /\ byte_pos + n < Len(bytes) => Append(Ahead(n), bytes[byte_pos + n + 1]) = Ahead(n + 1)
<1>1. \A i \in 1..n : Ahead(n)[i] = bytes[byte_pos + i] /\ bytes[byte_pos + i] \in AnyByte
  BY DEF Ahead, Byte, ByteAt
<1>2. Ahead(n) \in Seq(AnyByte) /\ Len(Ahead(n)) = n
  <2>1. Ahead(n) = [i \in 1..n |-> Byte(i - 1)]
    BY DEF Ahead
  <2>2. Ahead(n) \in [1..n -> AnyByte]
    BY <1>1, <2>1
  <2> QED BY <2>2
<1>3. SubSeq(bytes, byte_pos + 1, byte_pos + n) = Ahead(n)
  <2> DEFINE text == SubSeq(bytes, byte_pos + 1, byte_pos + n)
  <2>1. text \in Seq(AnyByte) /\ Len(text) = n /\ \A i \in 1..n : text[i] = bytes[byte_pos + i]
    OBVIOUS
  <2> HIDE DEF text
  <2>2. text = Ahead(n)
    BY <1>1, <1>2, <2>1
  <2> QED BY <2>2 DEF text
<1>4. ASSUME byte_pos + n < Len(bytes)
      PROVE  Append(Ahead(n), bytes[byte_pos + n + 1]) = Ahead(n + 1)
  <2> DEFINE b == bytes[byte_pos + n + 1]
             all == Append(Ahead(n), b)
  <2>1. b \in AnyByte /\ b = Byte(n)
    BY <1>4 DEF Byte, ByteAt
  <2>2. /\ all \in Seq(AnyByte) /\ Len(all) = n + 1 /\ all[n + 1] = b
        /\ \A i \in 1..n : all[i] = Ahead(n)[i]
    BY <1>2, <2>1
  <2>3. Ahead(n + 1) = [i \in 1..(n + 1) |-> Byte(i - 1)]
    BY DEF Ahead
  <2>4. \A i \in 1..(n + 1) : all[i] = Byte(i - 1)
    BY <2>1, <2>2 DEF Ahead
  <2> HIDE DEF all
  <2>5. all = [i \in 1..(n + 1) |-> all[i]]
    BY <2>2
  <2> QED BY <2>3, <2>4, <2>5 DEF all
<1> QED
  BY <1>3, <1>4

(* The tables hold bytes and no newline. *)
LEMMA Tables ==
  /\ \A d \in Doubles : Len(d) = 2 /\ \A k \in 1..2 : d[k] \in AnyByte /\ d[k] # NL
  /\ \A d \in Triples : Len(d) = 3 /\ \A k \in 1..3 : d[k] \in AnyByte /\ d[k] # NL
  /\ \A b \in Singles \cup IdentContinue \cup Digit : b \in AnyByte /\ b # NL
<1> USE DEF AnyByte, NL, Bang, Percent, Amp, Star, Plus, Minus, Dot, Slash, Colon, Lt, Eq, Gt, Pipe
<1>1. ASSUME NEW d \in Doubles
      PROVE  Len(d) = 2 /\ \A k \in 1..2 : d[k] \in AnyByte /\ d[k] # NL
  <2>1. PICK a \in AnyByte \ {NL}, b \in AnyByte \ {NL} : d = <<a, b>>
    BY DEF Doubles
  <2> QED BY <2>1
<1>2. ASSUME NEW d \in Triples
      PROVE  Len(d) = 3 /\ \A k \in 1..3 : d[k] \in AnyByte /\ d[k] # NL
  <2>1. d = <<Dot, Dot, Eq>>
    BY DEF Triples
  <2> QED BY <2>1
<1>3. \A b \in Singles \cup IdentContinue \cup Digit : b \in AnyByte /\ b # NL
  BY DEF Singles, IdentContinue, IdentStart, Digit
<1> QED
  BY <1>1, <1>2, <1>3

LEMMA Here ==
  ASSUME AreFiles, LexIInv, Running
  PROVE  /\ bytes \in Seq(AnyByte) /\ byte_pos \in Nat /\ byte_pos < Len(bytes)
         /\ byte_pos \in 0..(Len(bytes) - 1) /\ Len(bytes) \in Nat
         /\ Byte(0) = bytes[byte_pos + 1] /\ Byte(0) \in AnyByte
         /\ \A n \in Nat : Byte(n) # -1 =>
              /\ byte_pos + n < Len(bytes)
              /\ Byte(n) = bytes[byte_pos + n + 1] /\ Byte(n) \in AnyByte
BY DEF AreFiles, LexIInv, LexTypeOK, Running, Byte, ByteAt

LEMMA FailKeeps ==
  ASSUME LexIInv, LexFail
  PROVE  LexIInv'
BY DEF LexFail, LexIInv, LexTypeOK, Longest, Located, PositionsAreTrue, NewlinesAreLines, TruePos

LEMMA PunctuationKeeps ==
  ASSUME AreFiles, LexIInv, Punctuation
  PROVE  LexIInv'
<1> DEFINE n == IF Ahead(3) \in Triples THEN 3 ELSE IF Ahead(2) \in Doubles THEN 2 ELSE 1
           t == Token("punct", Ahead(n), n, n)
<1>1. Running /\ Byte(0) \in Singles /\ PushToken("punct", Ahead(n), n, n)
  BY DEF Punctuation
<1>2. n \in {1, 2, 3} /\ (n = 3 <=> Ahead(3) \in Triples) /\ (n = 2 => Ahead(2) \in Doubles)
      /\ (n = 1 => Ahead(2) \notin Doubles)
  OBVIOUS
<1> HIDE DEF n
<1>3. \A k \in 0..(n - 1) : Byte(k) # -1 /\ Byte(k) # NL
  <2>1. CASE n = 1
    BY <1>1, <2>1, Tables DEF AnyByte
  <2>2. CASE n = 2
    <3>1. Ahead(2)[1] = Byte(0) /\ Ahead(2)[2] = Byte(1)
      BY DEF Ahead
    <3>2. \A k \in 1..2 : Ahead(2)[k] # NL /\ Ahead(2)[k] \in AnyByte
      BY <1>2, <2>2, Tables
    <3> QED BY <2>2, <3>1, <3>2 DEF AnyByte
  <2>3. CASE n = 3
    <3>1. Ahead(3)[1] = Byte(0) /\ Ahead(3)[2] = Byte(1) /\ Ahead(3)[3] = Byte(2)
      BY DEF Ahead
    <3>2. \A k \in 1..3 : Ahead(3)[k] # NL /\ Ahead(3)[k] \in AnyByte
      BY <1>2, <2>3, Tables
    <3> QED BY <2>3, <3>1, <3>2 DEF AnyByte
  <2> QED BY <1>2, <2>1, <2>2, <2>3
<1>4. byte_pos + n <= Len(bytes) /\ \A k \in (byte_pos + 1)..(byte_pos + n) : bytes[k] # NL
  <2>1. \A k \in 0..(n - 1) : byte_pos + k < Len(bytes) /\ bytes[byte_pos + k + 1] # NL
    BY <1>1, <1>2, <1>3, Here
  <2>2. ASSUME NEW k \in (byte_pos + 1)..(byte_pos + n)
        PROVE  bytes[k] # NL
    <3>1. k - byte_pos - 1 \in 0..(n - 1) /\ byte_pos + (k - byte_pos - 1) + 1 = k
      BY <1>1, <1>2, Here
    <3> QED BY <2>1, <3>1
  <2>3. n - 1 \in 0..(n - 1)
    BY <1>2
  <2>4. byte_pos + n <= Len(bytes)
    BY <1>1, <1>2, <2>1, <2>3, Here
  <2> QED BY <2>2, <2>4
<1>5. NoLonger(bytes, t)
  <2>1. t.from = byte_pos /\ t.to = byte_pos + n /\ t.kind = "punct"
    BY DEF Token
  <2> SUFFICES ASSUME byte_pos + n < Len(bytes)
               PROVE  Append(SubSeq(bytes, byte_pos + 1, byte_pos + n), bytes[byte_pos + n + 1])
                        \notin Doubles \cup Triples
    BY <2>1 DEF NoLonger
  <2>2. Append(SubSeq(bytes, byte_pos + 1, byte_pos + n), bytes[byte_pos + n + 1]) = Ahead(n + 1)
    BY <1>1, <1>2, <1>4, Here, AheadIsText
  <2>3. Ahead(n + 1) = [i \in 1..(n + 1) |-> Byte(i - 1)]
    BY DEF Ahead
  <2>4. Len(Ahead(n + 1)) = n + 1
    BY <1>2, <2>3
  <2>5. (n = 1 => Ahead(n + 1) \notin Doubles) /\ (n = 2 => Ahead(n + 1) \notin Triples)
    BY <1>2
  <2>6. (n # 1 => Ahead(n + 1) \notin Doubles) /\ (n # 2 => Ahead(n + 1) \notin Triples)
    <3>1. (\A d \in Doubles : Len(d) = 2) /\ (\A d \in Triples : Len(d) = 3)
      BY Tables
    <3>2. (n # 1 => n + 1 # 2) /\ (n # 2 => n + 1 # 3)
      BY <1>2
    <3> QED BY <2>4, <3>1, <3>2
  <2> QED BY <2>2, <2>5, <2>6
<1> QED
  BY <1>1, <1>2, <1>4, <1>5, PushKeeps

(* A word, a number and the name of a lifetime are as long as their run of *)
(* bytes, from byte_pos + k on.                                            *)
LEMMA RunKeeps ==
  ASSUME AreFiles, LexIInv, Running, NEW k \in {0, 1}, NEW class, NEW kind, NEW value,
         k = 1 => Byte(0) # NL,
         Byte(k) # -1 /\ Byte(k) \in class,
         \A b \in class : b # NL,
         \/ kind \in {"word", "lifetime"} /\ class = IdentContinue
         \/ kind = "int" /\ class = Digit,
         LET j == RunEnd(byte_pos + k, class) IN PushToken(kind, value, j - byte_pos, j - byte_pos)
  PROVE  LexIInv'
<1> DEFINE j == RunEnd(byte_pos + k, class)
           n == j - byte_pos
           t == Token(kind, value, n, n)
<1>1. /\ bytes \in Seq(AnyByte) /\ byte_pos \in Nat /\ Len(bytes) \in Nat
      /\ byte_pos + k \in 0..Len(bytes) /\ byte_pos + k < Len(bytes)
      /\ bytes[byte_pos + k + 1] \in class /\ Byte(0) = bytes[byte_pos + 1]
  BY Here
<1>2. /\ j \in (byte_pos + k)..Len(bytes) /\ byte_pos + k < j
      /\ \A m \in (byte_pos + k)..(j - 1) : bytes[m + 1] \in class
      /\ j < Len(bytes) => bytes[j + 1] \notin class
  BY <1>1, RunEndFacts
<1> HIDE DEF j
<1>3. n \in Nat \ {0} /\ byte_pos + n <= Len(bytes) /\ byte_pos + n = j
  BY <1>1, <1>2
<1>4. ASSUME NEW m \in (byte_pos + 1)..(byte_pos + n)
      PROVE  bytes[m] # NL
  <2>1. CASE m - 1 \in (byte_pos + k)..(j - 1)
    BY <1>1, <1>2, <2>1
  <2>2. CASE m = byte_pos + 1 /\ k = 1
    BY <1>1, <2>2
  <2> QED BY <1>1, <1>2, <1>3, <2>1, <2>2
<1>5. NoLonger(bytes, t)
  <2>1. t.from = byte_pos /\ t.to = j /\ t.kind = kind
    BY <1>3 DEF Token
  <2> QED BY <1>2, <2>1 DEF NoLonger, IdentContinue
<1>6. PushToken(kind, value, n, n) /\ kind # "builtin"
  BY DEF j
<1> QED
  BY <1>3, <1>4, <1>5, <1>6, PushKeeps

LEMMA WordKeeps ==
  ASSUME AreFiles, LexIInv, WordToken
  PROVE  LexIInv'
<1>1. Running /\ Byte(0) \in IdentContinue /\ Byte(0) # -1
  BY DEF WordToken, IdentContinue, IdentStart, Digit
<1>2. byte_pos + 0 = byte_pos /\ \A b \in IdentContinue : b # NL
  BY <1>1, Here, Tables
<1> QED
  BY <1>1, <1>2, RunKeeps DEF WordToken

LEMMA NumberKeeps ==
  ASSUME AreFiles, LexIInv, Number
  PROVE  LexIInv'
<1> DEFINE value == FoldLeft(LAMBDA v, d : (v * 10 + d - Zero) % IntModulus, 0,
                             SubSeq(bytes, byte_pos + 1, RunEnd(byte_pos, Digit)))
<1>0. Running /\ Byte(0) \in Digit
  BY DEF Number
<1>1. LET j == RunEnd(byte_pos, Digit) IN PushToken("int", value, j - byte_pos, j - byte_pos)
  BY DEF Number
<1>2. Byte(0) # -1 /\ byte_pos + 0 = byte_pos
  <2> HIDE DEF value
  <2> QED BY <1>0, Here DEF Digit
<1>3. \A b \in Digit : b # NL
  BY Tables
<1> HIDE DEF value
<1> QED
  BY <1>0, <1>1, <1>2, <1>3, RunKeeps

LEMMA LifetimeKeeps ==
  ASSUME AreFiles, LexIInv, LifetimeToken
  PROVE  LexIInv'
<1>1. CASE Byte(1) \in IdentStart
  <2>1. Byte(1) \in IdentContinue /\ Byte(1) # -1 /\ Byte(0) # NL /\ Running
    BY <1>1 DEF LifetimeToken, IdentStart, IdentContinue, Apostrophe, NL
  <2>2. \A b \in IdentContinue : b # NL
    BY Tables
  <2>3. LET j == RunEnd(byte_pos + 1, IdentContinue)
        IN  PushToken("lifetime", SubSeq(bytes, byte_pos + 2, j), j - byte_pos, j - byte_pos)
    BY <1>1 DEF LifetimeToken
  <2> QED BY <2>1, <2>2, <2>3, RunKeeps
<1>2. CASE Byte(1) \notin IdentStart
  BY <1>2, FailKeeps DEF LifetimeToken
<1> QED
  BY <1>1, <1>2

LEMMA BlankKeeps ==
  ASSUME AreFiles, LexIInv, Blank
  PROVE  LexIInv'
<1>1. Running /\ SkipTo(byte_pos + 1)
  BY DEF Blank
<1>2. byte_pos + 1 \in byte_pos..Len(bytes)
  BY <1>1, Here
<1> QED
  BY <1>1, <1>2, SkipKeeps

LEMMA LineCommentKeeps ==
  ASSUME AreFiles, LexIInv, LineComment
  PROVE  LexIInv'
<1>1. Running /\ SkipTo(RunEnd(byte_pos, AnyByte \ {NL}))
  BY DEF LineComment
<1>2. bytes \in Seq(AnyByte) /\ byte_pos \in 0..Len(bytes)
  BY <1>1, Here
<1>3. RunEnd(byte_pos, AnyByte \ {NL}) \in byte_pos..Len(bytes)
  BY <1>2, RunEndFacts
<1> QED
  BY <1>1, <1>3, SkipKeeps

(* Two bytes ahead that are bytes are in the file. *)
LEMMA TwoAhead ==
  ASSUME AreFiles, LexIInv, Running, NEW a \in AnyByte, NEW b \in AnyByte, Ahead(2) = <<a, b>>
  PROVE  /\ byte_pos + 2 <= Len(bytes)
         /\ bytes[byte_pos + 1] = a /\ bytes[byte_pos + 2] = b
<1>1. Ahead(2)[1] = Byte(0) /\ Ahead(2)[2] = Byte(1)
  BY DEF Ahead
<1>2. Byte(0) = a /\ Byte(1) = b /\ Byte(1) # -1
  BY <1>1 DEF AnyByte
<1> QED
  BY <1>2, Here

LEMMA BlockCommentKeeps ==
  ASSUME AreFiles, LexIInv, BlockComment
  PROVE  LexIInv'
<1> DEFINE s == CommentFrom(byte_pos + 2)
<1>1. Running /\ Ahead(2) = <<Slash, Star>> /\ (LexFail \/ SkipTo(s.at))
  BY DEF BlockComment
<1>2. Slash \in AnyByte /\ Star \in AnyByte
  BY DEF Slash, Star, AnyByte
<1>3. bytes \in Seq(AnyByte) /\ byte_pos + 2 \in 0..Len(bytes) /\ byte_pos \in Nat
  BY <1>1, <1>2, Here, TwoAhead
<1>4. s.at \in (byte_pos + 2)..Len(bytes)
  BY <1>3, CommentEnds
<1>5. s.at \in byte_pos..Len(bytes)
  BY <1>3, <1>4
<1> HIDE DEF s
<1> QED
  BY <1>1, <1>5, SkipKeeps, FailKeeps

LEMMA UnexpectedKeeps ==
  ASSUME LexIInv, Unexpected
  PROVE  LexIInv'
BY FailKeeps DEF Unexpected

LEMMA StringKeeps ==
  ASSUME AreFiles, LexIInv, StringLit
  PROVE  LexIInv'
<1> DEFINE s == StringFrom(byte_pos + 1)
           n == s.at - byte_pos
           p == Moved(byte_pos, n, line, col)
           t == [Token("string", s.value, n, 0) EXCEPT !.end = p]
<1>1. CASE s.is # "closed"
  BY <1>1, FailKeeps DEF StringLit
<1>2. CASE s.is = "closed"
  <2>1. Running /\ tokens' = Append(tokens, t) /\ byte_pos' = s.at /\ line' = p[1] /\ col' = p[2]
        /\ bytes' = bytes
    BY <1>2 DEF StringLit
  <2>2. /\ bytes \in Seq(AnyByte) /\ byte_pos \in Nat /\ byte_pos + 1 \in 0..Len(bytes)
        /\ line \in Int /\ col \in Int
        /\ tokens \in Seq(ToSet(tokens)) /\ ReadTo(tokens, byte_pos)
    BY <2>1, Here DEF LexIInv, LexTypeOK
  <2>3. s.at \in (byte_pos + 1)..Len(bytes)
    BY <2>2, StringEnds
  <2> HIDE DEF s
  <2>4. n \in Nat /\ byte_pos + n <= Len(bytes) /\ byte_pos + n = s.at /\ s.at \in 0..Len(bytes)
    BY <2>2, <2>3
  <2>5. p \in Int \X Int
    <3>1. PICK u : Moves(u, byte_pos, n, line, col)
      BY <2>2, <2>4, MovedFacts
    <3> QED BY <2>4, <3>1 DEF Moves
  <2>6. /\ t.from = byte_pos /\ t.to = byte_pos' /\ t.start = Pos(line, col) /\ t.end = p
        /\ t.kind = "string"
    BY <2>1, <2>4 DEF Token
  <2> HIDE DEF t, n
  <2>7. p = Pos(line', col') /\ line' \in Int /\ col' \in Int
    BY <2>1, <2>5 DEF Pos
  <2>8. NoLonger(bytes, t)
    BY <2>6 DEF NoLonger
  <2>9. ASSUME NewlinesAreLines'
        PROVE  p = TruePos(byte_pos)'
    <3>1. NewlinesAreLines
      <4> DEFINE all == Append(tokens, t)
                 m == Len(tokens)
      <4>1. /\ m \in Nat /\ DOMAIN tokens = 1..m /\ DOMAIN all = 1..(m + 1)
            /\ \A i \in 1..m : all[i] = tokens[i]
        BY <2>2
      <4> HIDE DEF all, m
      <4>2. \A i \in 1..(m + 1) : all[i].kind = "char" => all[i].value # NL
        BY <2>1, <2>9, <4>1 DEF NewlinesAreLines, all
      <4> QED BY <4>1, <4>2 DEF NewlinesAreLines
    <3>2. line = TrueLine(bytes, byte_pos) /\ col = TrueCol(bytes, tokens, byte_pos)
      BY <3>1 DEF LexIInv, Located, TruePos, Pos
    <3>3. p = TrueAt(bytes, tokens, s.at)
      <4> HIDE DEF p
      <4>1. Moved(byte_pos, n, TrueLine(bytes, byte_pos), TrueCol(bytes, tokens, byte_pos))
              = TrueAt(bytes, tokens, byte_pos + n)
        BY <2>2, <2>4, MovedIsTrue
      <4> QED BY <2>4, <3>2, <4>1 DEF p
    <3>4. Builtins(Append(tokens, t), LineStart(bytes, s.at), s.at)
            = Builtins(tokens, LineStart(bytes, s.at), s.at)
      BY <2>2, <2>4, <2>6, BuiltinsAppend
    <3> QED BY <2>1, <3>3, <3>4 DEF TruePos, TrueAt, TrueCol
  <2> HIDE DEF p
  <2> QED BY <2>1, <2>3, <2>6, <2>7, <2>8, <2>9, TokenKeeps
<1> QED
  BY <1>1, <1>2

LEMMA CharKeeps ==
  ASSUME AreFiles, LexIInv, CharLiteral
  PROVE  LexIInv'
<1> DEFINE i == byte_pos + 1
           c == IF Byte(1) = Backslash THEN CharEscape(i) ELSE DecodeUtf8Codepoint(i)
           Accepted == c.len > 0 /\ Scalar(c.value) /\ Byte(1 + c.len) = Apostrophe
<1>1. Running /\ Byte(0) = Apostrophe /\ IsCharLit
      /\ IF Accepted THEN PushToken("char", c.value, c.len + 2, c.len + 2) ELSE LexFail
  BY DEF CharLiteral
<1>2. CASE ~Accepted
  BY <1>1, <1>2, FailKeeps
<1>3. CASE Accepted
  <2>1. /\ bytes \in Seq(AnyByte) /\ byte_pos \in Nat /\ Len(bytes) \in Nat
        /\ byte_pos < Len(bytes) /\ bytes[byte_pos + 1] = Apostrophe
    BY <1>1, Here
  <2>2. i \in 0..(Len(bytes) - 1) /\ bytes[i + 1] = Byte(1)
    BY <1>1, <2>1 DEF IsCharLit, Byte, ByteAt, Backslash, Apostrophe
  <2>3. c.len > 0 /\ Byte(1 + c.len) = Apostrophe
        /\ PushToken("char", c.value, c.len + 2, c.len + 2)
    BY <1>1, <1>3
  <2> HIDE DEF Accepted
  <2>4. /\ c.len \in Nat \ {0} /\ i + c.len < Len(bytes)
        /\ c.value # NL => \A k \in 0..c.len : ByteAt(i + k) # NL
    <3>1. ByteAt(byte_pos + (1 + c.len)) = Apostrophe
      BY <2>3 DEF Byte
    <3>2. CASE Byte(1) = Backslash
      <4>1. c = CharEscape(i)
        BY <3>2
      <4>2. CharEscape(i).len > 0 /\ ByteAt(byte_pos + (1 + CharEscape(i).len)) = Apostrophe
        BY <2>3, <3>1, <4>1
      <4> HIDE DEF c
      <4>3. ByteAt(i + CharEscape(i).len) = Apostrophe
        <5> DEFINE n == CharEscape(i).len
        <5>1. n \in Int
          BY <2>1, <2>2, Lengths
        <5>2. ByteAt(byte_pos + (1 + n)) = Apostrophe
          BY <4>2
        <5> HIDE DEF n
        <5>3. byte_pos + (1 + n) = i + n
          BY <2>1, <5>1
        <5>4. ByteAt(i + n) = Apostrophe
          BY <5>2, <5>3
        <5> QED BY <5>4 DEF n
      <4> QED BY <2>1, <2>2, <3>2, <4>1, <4>2, <4>3, CharEscapeFacts
    <3>3. CASE Byte(1) # Backslash
      <4>1. c = DecodeUtf8Codepoint(i)
        BY <3>3
      <4>2. DecodeUtf8Codepoint(i).len > 0
            /\ ByteAt(byte_pos + (1 + DecodeUtf8Codepoint(i).len)) = Apostrophe
        BY <2>3, <3>1, <4>1
      <4> HIDE DEF c
      <4>3. ByteAt(i + DecodeUtf8Codepoint(i).len) = Apostrophe
        <5> DEFINE n == DecodeUtf8Codepoint(i).len
        <5>1. n \in Int
          BY <2>1, <2>2, Lengths
        <5>2. ByteAt(byte_pos + (1 + n)) = Apostrophe
          BY <4>2
        <5> HIDE DEF n
        <5>3. byte_pos + (1 + n) = i + n
          BY <2>1, <5>1
        <5>4. ByteAt(i + n) = Apostrophe
          BY <5>2, <5>3
        <5> QED BY <5>4 DEF n
      <4> QED BY <2>1, <2>2, <4>1, <4>2, <4>3, DecodeFacts
    <3> QED BY <3>2, <3>3
  <2> HIDE DEF c
  <2> DEFINE n == c.len + 2
             t == Token("char", c.value, n, n)
  <2>5. n \in Nat \ {0} /\ byte_pos + n <= Len(bytes)
    BY <2>1, <2>4
  <2>6. ASSUME c.value # NL, NEW k \in (byte_pos + 1)..(byte_pos + n)
        PROVE  bytes[k] # NL
    <3>1. CASE k = byte_pos + 1
      BY <2>1, <3>1 DEF Apostrophe, NL
    <3>2. CASE k # byte_pos + 1
      <4>1. k - 1 - i \in 0..c.len /\ i + (k - 1 - i) = k - 1
        BY <2>1, <2>4, <2>6, <3>2
      <4>2. ByteAt(k - 1) # NL
        BY <2>4, <2>6, <4>1
      <4>3. k - 1 < Len(bytes) /\ (k - 1) + 1 = k
        BY <2>1, <2>5
      <4> QED BY <4>2, <4>3 DEF ByteAt
    <3> QED BY <3>1, <3>2
  <2>7. NoLonger(bytes, t)
    <3>1. t.kind = "char"
      BY DEF Token
    <3> QED BY <3>1 DEF NoLonger
  <2>8. PushToken("char", c.value, n, n)
    BY <2>3
  <2> HIDE DEF n
  <2> QED BY <2>5, <2>6, <2>7, <2>8, PushKeeps
<1> QED
  BY <1>2, <1>3

(* `¤` is a column shorter than its bytes, and is counted as a builtin. *)
LEMMA BuiltinKeeps ==
  ASSUME AreFiles, LexIInv, Builtin
  PROVE  LexIInv'
<1> DEFINE t == Token("builtin", <<>>, 2, 1)
<1>1. Running /\ Ahead(2) = <<194, 164>> /\ PushToken("builtin", <<>>, 2, 1)
  BY DEF Builtin
<1>2. 194 \in AnyByte /\ 164 \in AnyByte
  BY DEF AnyByte
<1>3. /\ byte_pos + 2 <= Len(bytes) /\ bytes[byte_pos + 1] = 194 /\ bytes[byte_pos + 2] = 164
      /\ bytes \in Seq(AnyByte) /\ byte_pos \in Nat
  BY <1>1, <1>2, TwoAhead, Here
<1>4. /\ byte_pos' = byte_pos + 2 /\ bytes' = bytes /\ line' = line /\ col' = col + 1
      /\ line \in Int /\ col \in Int
      /\ tokens' = Append(tokens, t) /\ tokens \in Seq(ToSet(tokens)) /\ ReadTo(tokens, byte_pos)
  BY <1>1 DEF PushToken, LexIInv, LexTypeOK
<1>5. /\ t.from = byte_pos /\ t.to = byte_pos' /\ t.start = Pos(line, col)
      /\ t.end = Pos(line', col') /\ t.kind = "builtin"
  BY <1>4 DEF Token
<1> HIDE DEF t
<1>6. NoLonger(bytes, t)
  BY <1>5 DEF NoLonger
<1>7. ASSUME NewlinesAreLines'
      PROVE  Pos(line', col') = TruePos(byte_pos)'
  <2> DEFINE s == LineStart(bytes, byte_pos + 2)
  <2>1. NewlinesAreLines
    <3> DEFINE all == Append(tokens, t)
               m == Len(tokens)
    <3>1. /\ m \in Nat /\ DOMAIN tokens = 1..m /\ DOMAIN all = 1..(m + 1)
          /\ \A i \in 1..m : all[i] = tokens[i]
      BY <1>4
    <3> HIDE DEF all, m
    <3>2. \A i \in 1..(m + 1) : all[i].kind = "char" => all[i].value # NL
      BY <1>4, <1>7, <3>1 DEF NewlinesAreLines, all
    <3> QED BY <3>1, <3>2 DEF NewlinesAreLines
  <2>2. line = TrueLine(bytes, byte_pos) /\ col = TrueCol(bytes, tokens, byte_pos)
    BY <2>1 DEF LexIInv, Located, TruePos, Pos
  <2>3. \A k \in (byte_pos + 1)..(byte_pos + 2) : bytes[k] # NL
    <3>1. \A k \in (byte_pos + 1)..(byte_pos + 2) : k = byte_pos + 1 \/ k = byte_pos + 2
      BY <1>3
    <3> QED BY <1>3, <3>1 DEF NL
  <2>4. /\ TrueLine(bytes, byte_pos + 2) = line
        /\ TrueCol(bytes, tokens, byte_pos + 2) = col + 2
        /\ s = LineStart(bytes, byte_pos)
    <3> DEFINE n == 2
    <3>1. n \in Nat /\ byte_pos + n <= Len(bytes)
          /\ \A k \in (byte_pos + 1)..(byte_pos + n) : bytes[k] # NL
      BY <1>3, <2>3
    <3> HIDE DEF n
    <3>2. /\ TrueLine(bytes, byte_pos + n) = TrueLine(bytes, byte_pos)
          /\ TrueCol(bytes, tokens, byte_pos + n) = TrueCol(bytes, tokens, byte_pos) + n
          /\ LineStart(bytes, byte_pos + n) = LineStart(bytes, byte_pos)
      <4> DEFINE S == ToSet(tokens)
      <4>1. /\ bytes \in Seq(AnyByte) /\ byte_pos \in Nat
            /\ tokens \in Seq(S) /\ ReadTo(tokens, byte_pos)
        BY <1>3, <1>4
      <4> HIDE DEF S
      <4> QED BY <3>1, <4>1, SameLine
    <3> QED BY <2>2, <3>2 DEF n
  <2>5. s \in 0..byte_pos /\ byte_pos + 2 \in 0..Len(bytes)
    BY <1>3, <2>4, LineStartFacts
  <2> HIDE DEF s
  <2> DEFINE before == Builtins(tokens, s, byte_pos + 2)
             after  == Builtins(Append(tokens, t), s, byte_pos + 2)
  <2>6. after = before \cup {Len(tokens) + 1} /\ Len(tokens) + 1 \notin before
    <3>1. t.kind = "builtin" /\ s <= t.from /\ t.to <= byte_pos + 2 /\ byte_pos + 2 \in Int
      BY <1>3, <1>4, <1>5, <2>5
    <3> HIDE DEF t
    <3> QED BY <1>4, <3>1, BuiltinsAppend
  <2>7. IsFiniteSet(before) /\ Cardinality(before) \in Nat
    BY <1>3, <1>4, <2>5, PositionTypes
  <2> HIDE DEF before, after
  <2>8. Cardinality(after) = Cardinality(before) + 1
    BY <2>6, <2>7, FS_AddElement
  <2>9. TrueCol(bytes, Append(tokens, t), byte_pos + 2) = col + 1
    <3>1. TrueCol(bytes, tokens, byte_pos + 2) = 1 + (byte_pos + 2) - s - Cardinality(before)
      BY DEF TrueCol, before, s
    <3>2. TrueCol(bytes, Append(tokens, t), byte_pos + 2)
            = 1 + (byte_pos + 2) - s - Cardinality(after)
      BY DEF TrueCol, after, s
    <3>3. /\ byte_pos \in Int /\ s \in Int /\ col \in Int
          /\ TrueCol(bytes, tokens, byte_pos + 2) = col + 2
      BY <1>3, <1>4, <2>4, <2>5
    <3> QED BY <2>7, <2>8, <3>1, <3>2, <3>3
  <2> QED BY <1>4, <2>4, <2>9 DEF TruePos
<1>8. byte_pos' \in (byte_pos + 1)..Len(bytes) /\ line' \in Int /\ col' \in Int
  BY <1>3, <1>4
<1> QED
  BY <1>4, <1>5, <1>6, <1>7, <1>8, TokenKeeps

(* A file of which nothing is read yet is at the line 1, the column 1. *)
LEMMA InitKeeps ==
  ASSUME AreFiles, LexInit
  PROVE  LexIInv
<1>1. bytes \in Seq(AnyByte) /\ Len(bytes) \in Nat
  BY DEF AreFiles, LexInit
<1>2. tokens = <<>> /\ DOMAIN tokens = {} /\ Len(tokens) = 0 /\ tokens \in Seq(ToSet(tokens))
  BY DEF LexInit
<1>3. LexTypeOK
  BY <1>1, <1>2 DEF LexInit, LexTypeOK, ReadTo
<1>4. Longest
  BY <1>2 DEF Longest
<1>5. PositionsAreTrue
  BY <1>2 DEF PositionsAreTrue
<1>6. Located
  <2>1. LineStart(bytes, 0) = 0 /\ 0 \in 0..Len(bytes)
    BY <1>1, LineStartFacts
  <2>2. {i \in 1..0 : bytes[i] = NL} = {} /\ Builtins(tokens, 0, 0) = {}
    BY <1>2 DEF Builtins
  <2>3. TrueLine(bytes, 0) = 1 /\ TrueCol(bytes, tokens, 0) = 1
    BY <2>1, <2>2, FS_EmptySet DEF TrueLine, TrueCol
  <2> QED BY <2>3 DEF LexInit, Located, TruePos
<1> QED
  BY <1>3, <1>4, <1>5, <1>6 DEF LexIInv

LEMMA StepKeeps ==
  ASSUME AreFiles, LexIInv, [LexNext]_lexVars
  PROVE  LexIInv'
<1>1. CASE UNCHANGED lexVars
  BY <1>1 DEF lexVars, LexIInv, LexTypeOK, Longest, Located, PositionsAreTrue, NewlinesAreLines,
              TruePos
<1>2. CASE LexNext
  BY <1>2, BlankKeeps, WordKeeps, StringKeeps, NumberKeeps, LineCommentKeeps, BlockCommentKeeps,
     PunctuationKeeps, CharKeeps, LifetimeKeeps, BuiltinKeeps, UnexpectedKeeps DEF LexNext
<1> QED
  BY <1>1, <1>2

(* The lexer keeps its invariant on every file of bytes: what it has read  *)
(* are tokens as long as they can be, none inside another, and its line    *)
(* and its column are those of the byte it stands at.                      *)
THEOREM LexerInvariant == LexSpec => []LexIInv
<1> USE FilesOK
<1>1. LexInit => LexIInv
  BY InitKeeps
<1>2. LexIInv /\ [LexNext]_lexVars => LexIInv'
  BY StepKeeps
<1> QED
  BY <1>1, <1>2, PTL DEF LexSpec

(* What is right after a token makes no longer one with the next: maximal  *)
(* munch, of tokenize, on every file.                                      *)
THEOREM TokensAreLongest == LexSpec => []MaximalMunch
<1> USE FilesOK
<1>1. LexIInv => MaximalMunch
  <2> SUFFICES ASSUME LexIInv, NEW i \in 1..(Len(tokens) - 1)
               PROVE  /\ tokens[i].to <= tokens[i + 1].from
                      /\ Adjacent(i) =>
                           LET next == Head(Text(i + 1))
                           IN CASE tokens[i].kind = "punct" ->
                                     Append(Text(i), next) \notin Doubles \cup Triples
                                [] tokens[i].kind \in {"word", "lifetime"} ->
                                     next \notin IdentContinue
                                [] tokens[i].kind = "int" -> next \notin Digit
                                [] OTHER -> TRUE
    BY DEF MaximalMunch
  <2>1. /\ bytes \in Seq(AnyByte) /\ byte_pos \in 0..Len(bytes)
        /\ ReadTo(tokens, byte_pos) /\ DOMAIN tokens = 1..Len(tokens)
    BY DEF AreFiles, LexIInv, LexTypeOK
  <2>2. i \in DOMAIN tokens /\ i + 1 \in DOMAIN tokens
    BY <2>1
  <2>3. tokens[i].to <= tokens[i + 1].from
    BY DEF LexIInv, Longest
  <2>4. ASSUME Adjacent(i)
        PROVE  Head(Text(i + 1)) = bytes[tokens[i].to + 1] /\ tokens[i].to < Len(bytes)
    <3>1. /\ tokens[i + 1].from \in Nat /\ tokens[i + 1].to \in Nat
          /\ tokens[i + 1].from < tokens[i + 1].to /\ tokens[i + 1].to <= Len(bytes)
          /\ tokens[i].to = tokens[i + 1].from
      BY <2>1, <2>2, <2>4 DEF ReadTo, Adjacent
    <3> QED BY <2>1, <3>1 DEF Text
  <2>5. NoLonger(bytes, tokens[i])
    BY <2>2 DEF LexIInv, Longest
  <2>6. /\ tokens[i].kind \in {"word", "lifetime"} => tokens[i].kind # "punct"
        /\ tokens[i].kind = "int" => tokens[i].kind \notin {"punct", "word", "lifetime"}
    OBVIOUS
  <2> QED BY <2>3, <2>4, <2>5, <2>6 DEF NoLonger, Text
<1> QED
  BY <1>1, LexerInvariant, PTL

(* A token's span is the line and the column of its bytes, on every file   *)
(* of which no character literal is a newline.                             *)
THEOREM SpansAreTrue == LexSpec => []PositionsAreTrue
<1>1. LexIInv => PositionsAreTrue
  BY DEF LexIInv
<1> QED
  BY <1>1, LexerInvariant, PTL

=============================================================================
