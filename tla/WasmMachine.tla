---------------------------- MODULE WasmMachine -----------------------------
(* The machine the emitted instructions run on: the part of WebAssembly that *)
(* src/wasm.rs can encode and src/codegen.rs emits. It is not code of the    *)
(* repository; its rules are those the emitted code relies on.               *)
(*                                                                           *)
(* A 32-bit number is a signed integer; a 64-bit one is reduced modulo       *)
(* 2^WideBits, so that the carries of 128-bit arithmetic stay within reach.  *)
(* Memory keeps with every byte the number it is part of: a load that finds  *)
(* the bytes of several numbers yields bytes that can be stored again but    *)
(* not computed with. Validation is done on the way: an instruction whose    *)
(* operands have the wrong number or type is a fault.                        *)
EXTENDS Integers, Sequences, FiniteSets, Bitwise, TLC

CONSTANTS WideBits, Observed, PageEnd
ASSUME WideBitsAssumption == WideBits \in 4 .. 15
ASSUME PageEndAssumption == PageEnd \in Nat

VARIABLES
    funcs,     \* function index -> [name, params, results, vts, code, ends]
    elems,     \* the table: slot + 1 -> function index
    mem,       \* address -> byte, for the bytes ever written
    globals,   \* <<stack pointer, heap top>>
    frames,    \* the active calls, the current one last
    trace,     \* the calls of observed functions, with their arguments
    status     \* "compiling", "running", "returned" or "panicked"

machineVars == <<funcs, elems, mem, globals, frames, trace, status>>

-----------------------------------------------------------------------------
(* Numbers *)

WideMod == 2 ^ WideBits
I32(n) == [t |-> "i32", n |-> n, raw |-> <<>>]
I64(n) == [t |-> "i64", n |-> n % WideMod, raw |-> <<>>]
Number(vt, n) == IF vt = "i64" THEN I64(n) ELSE I32(n)
Truth(b) == I32(IF b THEN 1 ELSE 0)
IsNumber(v) == v.raw = <<>>

Signed64(n) == IF n >= WideMod \div 2 THEN n - WideMod ELSE n

\* The unsigned order of 32-bit numbers: the negative ones come last.
Below(a, b) == IF (a < 0) = (b < 0) THEN a < b ELSE b < 0

\* Division truncates toward zero.
Abs(n) == IF n < 0 THEN -n ELSE n
Quotient(a, b) == (IF (a < 0) = (b < 0) THEN 1 ELSE -1) * (Abs(a) \div Abs(b))
Remainder(a, b) == a - b * Quotient(a, b)

\* Masks of all low bits, on any number; otherwise on non-negative ones.
BitAnd(a, b) == IF b \in {255, 65535} THEN a % (b + 1) ELSE a & b

\* A left shift by n > 0 of the low 32 - n bits.
ShiftLeft(a, n) ==
    LET half == 2 ^ (31 - n)
        low == a % (2 * half)
    IN  (IF low >= half THEN low - 2 * half ELSE low) * 2 ^ n

Arith32(op, a, b) ==
    CASE op = "Add" -> a + b
      [] op = "Sub" -> a - b
      [] op = "Mul" -> a * b
      [] op = "And" -> BitAnd(a, b)
      [] op = "Or" -> a | b
      [] op = "Xor" -> a ^^ b
      [] op = "Shl" -> ShiftLeft(a, b)
      [] op = "ShrS" -> a \div (2 ^ b)
      [] op \in {"DivS", "DivU"} -> Quotient(a, b)
      [] op \in {"RemS", "RemU"} -> Remainder(a, b)

Arith64(op, a, b) ==
    CASE op = "Add" -> a + b
      [] op = "Sub" -> a - b
      [] op = "Mul" -> a * b
      [] op = "And" -> a & b
      [] op = "Or" -> a | b
      [] op = "Xor" -> a ^^ b
      [] op = "ShrS" -> IF b >= WideBits THEN (IF Signed64(a) < 0 THEN -1 ELSE 0)
                        ELSE Signed64(a) \div (2 ^ b)
      [] op = "DivU" -> a \div b
      [] op = "RemU" -> a % b
      [] op = "DivS" -> Quotient(Signed64(a), Signed64(b))
      [] op = "RemS" -> Remainder(Signed64(a), Signed64(b))

Compares == {"Eq", "Ne", "LtS", "LeS", "GtS", "GeS", "LtU", "LeU", "GtU", "GeU"}
Compare(op, a, b, Less(_, _)) ==
    CASE op = "Eq" -> a = b
      [] op = "Ne" -> a # b
      [] op \in {"LtS", "LtU"} -> Less(a, b)
      [] op \in {"GtS", "GtU"} -> Less(b, a)
      [] op \in {"LeS", "LeU"} -> ~Less(b, a)
      [] op \in {"GeS", "GeU"} -> ~Less(a, b)

LessS(a, b) == a < b
LessS64(a, b) == Signed64(a) < Signed64(b)
SignedCompares == {"LtS", "LeS", "GtS", "GeS"}

Divides == {"DivS", "DivU", "RemS", "RemU"}
Conversions == {"ExtendS", "ExtendU", "Wrap"}

\* ExtendU is applied to non-negative numbers.
Convert(op, a) == CASE op \in {"ExtendS", "ExtendU"} -> I64(a)
                    [] op = "Wrap" -> I32(Signed64(a))

Binary(vt, op, a, b) ==
    CASE op \in Compares /\ vt = "i32" ->
            Truth(IF op \in SignedCompares THEN Compare(op, a, b, LessS)
                  ELSE Compare(op, a, b, Below))
      [] op \in Compares /\ vt = "i64" ->
            Truth(IF op \in SignedCompares THEN Compare(op, a, b, LessS64)
                  ELSE Compare(op, a, b, LessS))
      [] op \notin Compares ->
            Number(vt, IF vt = "i32" THEN Arith32(op, a, b) ELSE Arith64(op, a, b))

-----------------------------------------------------------------------------
(* Memory. A byte is <<n, i, bytes>>: the i-th of the bytes of the number n;  *)
(* one that was never written is 0.                                          *)

Zero == <<0, 0, 1>>
ByteAt(a) == IF a \in DOMAIN mem THEN mem[a] ELSE Zero
BytesAt(a, n) == [i \in 1 .. n |-> ByteAt(a + i - 1)]

\* What the bytes of a stored number are worth read as one of that width.
Narrowed(n, bytes) == CASE bytes = 1 -> n % 256
                        [] bytes = 2 -> n % 65536
                        [] OTHER -> n
Widened(n, bytes, signed) ==
    CASE signed /\ bytes = 1 /\ n >= 128 -> n - 256
      [] signed /\ bytes = 2 /\ n >= 32768 -> n - 65536
      [] OTHER -> n

IsWhole(cells) == \A i \in DOMAIN cells : cells[i] = <<cells[1][1], i - 1, Len(cells)>>
ReadBytes(vt, cells, signed) ==
    CASE IsWhole(cells) -> Number(vt, Widened(cells[1][1], Len(cells), signed))
      [] ~IsWhole(cells) /\ (\A i \in DOMAIN cells : cells[i] = Zero) -> Number(vt, 0)
      [] OTHER -> [t |-> vt, n |-> 0, raw |-> cells]

CellsOf(v, bytes) ==
    IF IsNumber(v) THEN [i \in 1 .. bytes |-> <<Narrowed(v.n, bytes), i - 1, bytes>>]
    ELSE SubSeq(v.raw, 1, bytes)

-----------------------------------------------------------------------------
(* Code *)

Opens == {"Block", "Loop", "If"}
\* The structures open after each instruction, and where the one that opens
\* at pc ends.
Depths(code) ==
    [pc \in DOMAIN code |-> Cardinality({i \in 1 .. pc : code[i][1] \in Opens})
                            - Cardinality({i \in 1 .. pc : code[i][1] = "End"})]
MatchingEnd(depths, pc) ==
    LET closed == {i \in pc .. Len(depths) : depths[i] = depths[pc] - 1}
    IN  CHOOSE i \in closed : \A j \in closed : i <= j

Func(name, params, results, vts, code) ==
    [name |-> name, params |-> params, results |-> results, vts |-> vts, code |-> code,
     ends |-> LET depths == Depths(code)
              IN  [pc \in {i \in DOMAIN code : code[i][1] \in Opens} |-> MatchingEnd(depths, pc)]]

Top == frames[Len(frames)]
Fn == funcs[Top.fn]
AtEnd == Top.pc > Len(Fn.code)
Instr == Fn.code[Top.pc]
Op == Instr[1]
Height == Len(Top.stack)
Arg(k) == Top.stack[Height - k + 1]     \* the k-th operand from the top

TypesOf(vs) == [i \in DOMAIN vs |-> vs[i].t]
\* The operands an instruction takes, all but Drop's.
Operands ==
    CASE Op = "LocalSet" -> <<Fn.vts[Instr[2] + 1]>>
      [] Op \in {"GlobalSet", "If", "BrIf", "Eqz", "Load"} -> <<"i32">>
      [] Op = "Num" -> IF Instr[3] \in {"ExtendS", "ExtendU"} THEN <<"i32">>
                       ELSE IF Instr[3] = "Wrap" THEN <<"i64">>
                       ELSE <<Instr[2], Instr[2]>>
      [] Op = "Store" -> <<"i32", Instr[2]>>
      [] Op = "Call" -> IF Instr[2] = 0 THEN <<"i32", "i32">> ELSE funcs[Instr[2]].params
      [] Op = "CallIndirect" -> Append(Instr[2].params, "i32")
      [] Op = "Return" -> Fn.results
      [] OTHER -> <<>>

\* Bytes of several numbers may be moved but not computed with.
Moves == {"LocalSet", "Drop", "Call", "CallIndirect", "Return"}
Floor == IF Top.labels = <<>> THEN 0 ELSE Top.labels[Len(Top.labels)].height
WellTyped ==
    LET n == Len(Operands)
        given == SubSeq(Top.stack, Height - n + 1, Height)
    IN  /\ Height - n >= Floor
        /\ TypesOf(given) = Operands
        /\ \/ Op \in Moves
           \/ \A i \in DOMAIN given : IsNumber(given[i]) \/ (Op = "Store" /\ i = 2)
        /\ Op = "Drop" => Height > Floor

\* The current frame after popping n operands and pushing vs.
Next1(n, vs) == [Top EXCEPT !.pc = @ + 1, !.stack = SubSeq(@, 1, Height - n) \o vs]
SetTop(f) == frames' = [frames EXCEPT ![Len(frames)] = f]

Running == status = "running"
Runs(op) == Running /\ ~AtEnd /\ Op = op /\ WellTyped
Quiet == UNCHANGED <<funcs, elems, mem, globals, trace, status>>

-----------------------------------------------------------------------------
(* Instructions *)

Const == Runs("Const") /\ SetTop(Next1(0, <<Number(Instr[2], Instr[3])>>)) /\ Quiet

LocalGet1 == Runs("LocalGet") /\ SetTop(Next1(0, <<Top.locals[Instr[2] + 1]>>)) /\ Quiet
LocalSet1 ==
    /\ Runs("LocalSet")
    /\ SetTop([Next1(1, <<>>) EXCEPT !.locals[Instr[2] + 1] = Arg(1)])
    /\ Quiet

GlobalGet1 == Runs("GlobalGet") /\ SetTop(Next1(0, <<I32(globals[Instr[2] + 1])>>)) /\ Quiet
GlobalSet1 ==
    /\ Runs("GlobalSet")
    /\ SetTop(Next1(1, <<>>))
    /\ globals' = [globals EXCEPT ![Instr[2] + 1] = Arg(1).n]
    /\ UNCHANGED <<funcs, elems, mem, trace, status>>

Drop1 == Runs("Drop") /\ SetTop(Next1(1, <<>>)) /\ Quiet
Eqz1 == Runs("Eqz") /\ SetTop(Next1(1, <<Truth(Arg(1).n = 0)>>)) /\ Quiet

Convert1 ==
    /\ Runs("Num") /\ Instr[3] \in Conversions
    /\ SetTop(Next1(1, <<Convert(Instr[3], Arg(1).n)>>))
    /\ Quiet

Num1 ==
    /\ Runs("Num") /\ Instr[3] \notin Conversions
    /\ ~(Instr[3] \in Divides /\ Arg(1).n = 0)
    /\ SetTop(Next1(2, <<Binary(Instr[2], Instr[3], Arg(2).n, Arg(1).n)>>))
    /\ Quiet

\* A division by zero traps.
DivideByZero ==
    /\ Runs("Num") /\ Instr[3] \in Divides /\ Arg(1).n = 0
    /\ status' = "panicked"
    /\ UNCHANGED <<funcs, elems, mem, globals, frames, trace>>

Load1 ==
    /\ Runs("Load")
    /\ LET a == Arg(1).n + Instr[5]
       IN  SetTop(Next1(1, <<ReadBytes(Instr[2], BytesAt(a, Instr[3]), Instr[4])>>))
    /\ Quiet

StoreAt == Arg(2).n + Instr[4]
Store1 ==
    /\ Runs("Store")
    /\ SetTop(Next1(2, <<>>))
    /\ LET cells == CellsOf(Arg(1), Instr[3])
       IN  mem' = [a \in DOMAIN mem \cup (StoreAt .. (StoreAt + Instr[3] - 1)) |->
                      IF a \in StoreAt .. (StoreAt + Instr[3] - 1)
                      THEN cells[a - StoreAt + 1] ELSE mem[a]]
    /\ UNCHANGED <<funcs, elems, globals, trace, status>>

-----------------------------------------------------------------------------
(* Control. A label knows how many values a branch to it carries, the height *)
(* of the stack under it and where the branch goes on.                       *)

Label(arity, height, to, loop) == [arity |-> arity, height |-> height, to |-> to, loop |-> loop]
Enter(f, label) == [f EXCEPT !.labels = Append(@, label)]
After(pc) == Fn.ends[pc] + 1

Block1 ==
    /\ Runs("Block")
    /\ SetTop(Enter(Next1(0, <<>>), Label(Len(Instr[2]), Height, After(Top.pc), FALSE)))
    /\ Quiet
Loop1 ==
    /\ Runs("Loop")
    /\ SetTop(Enter(Next1(0, <<>>), Label(0, Height, Top.pc + 1, TRUE)))
    /\ Quiet
If1 ==
    /\ Runs("If")
    /\ SetTop(IF Arg(1).n # 0
              THEN Enter(Next1(1, <<>>), Label(0, Height - 1, After(Top.pc), FALSE))
              ELSE [Next1(1, <<>>) EXCEPT !.pc = After(Top.pc)])
    /\ Quiet

LastLabel == Top.labels[Len(Top.labels)]
\* What is left at the end of a structure is what it promises.
EndFits == Height = LastLabel.height + LastLabel.arity
End1 ==
    /\ Runs("End") /\ EndFits
    /\ SetTop([Next1(0, <<>>) EXCEPT !.labels = SubSeq(@, 1, Len(@) - 1)])
    /\ Quiet

\* A branch out of n structures: to the end of a block, or to the start of a
\* loop, which stays open.
BranchFits(f, n) ==
    /\ n < Len(f.labels)
    /\ Len(f.stack) >= f.labels[Len(f.labels) - n].height + f.labels[Len(f.labels) - n].arity
Branch(f, n) ==
    LET k == Len(f.labels) - n
        l == f.labels[k]
        carried == SubSeq(f.stack, Len(f.stack) - l.arity + 1, Len(f.stack))
    IN  [f EXCEPT !.pc = l.to, !.labels = SubSeq(@, 1, IF l.loop THEN k ELSE k - 1),
                  !.stack = SubSeq(@, 1, l.height) \o carried]

Br1 == Runs("Br") /\ BranchFits(Top, Instr[2]) /\ SetTop(Branch(Top, Instr[2])) /\ Quiet
BrIf1 ==
    /\ Runs("BrIf") /\ BranchFits(Next1(1, <<>>), Instr[2])
    /\ SetTop(IF Arg(1).n # 0 THEN Branch(Next1(1, <<>>), Instr[2]) ELSE Next1(1, <<>>))
    /\ Quiet

-----------------------------------------------------------------------------
(* Calls *)

ZeroOf(vt) == Number(vt, 0)
NewFrame(f, args) ==
    [fn |-> f, pc |-> 1, stack |-> <<>>, labels |-> <<>>, sp |-> globals[1],
     locals |-> args \o [i \in 1 .. (Len(funcs[f].vts) - Len(args)) |->
                            ZeroOf(funcs[f].vts[i + Len(args)])]]

Invoke(f, extra) ==
    LET n == Len(funcs[f].params)
        args == SubSeq(Top.stack, Height - n - extra + 1, Height - extra)
    IN  /\ frames' = Append([frames EXCEPT ![Len(frames)] = Next1(n + extra, <<>>)],
                            NewFrame(f, args))
        /\ trace' = IF funcs[f].name \in Observed
                    THEN Append(trace, <<funcs[f].name, [i \in DOMAIN args |-> args[i].n]>>)
                    ELSE trace
        /\ UNCHANGED <<funcs, elems, mem, globals, status>>

Call1 == Runs("Call") /\ Instr[2] # 0 /\ Invoke(Instr[2], 0)

\* The import takes a message and does not return.
Panic1 ==
    /\ Runs("Call") /\ Instr[2] = 0
    /\ status' = "panicked"
    /\ UNCHANGED <<funcs, elems, mem, globals, frames, trace>>

\* The callee must have the signature the call names.
Callee == elems[Arg(1).n + 1]
SignatureFits ==
    /\ Arg(1).n + 1 \in DOMAIN elems
    /\ funcs[Callee].params = Instr[2].params
    /\ funcs[Callee].results = Instr[2].results
CallIndirect1 == Runs("CallIndirect") /\ SignatureFits /\ Invoke(Callee, 1)

\* The results of the current frame go to its caller.
Leave(results) ==
    /\ frames' = IF Len(frames) = 1 THEN <<>>
                 ELSE [i \in 1 .. (Len(frames) - 1) |->
                          IF i < Len(frames) - 1 THEN frames[i]
                          ELSE [frames[i] EXCEPT !.stack = @ \o results]]
    /\ status' = IF Len(frames) = 1 THEN "returned" ELSE status
    /\ UNCHANGED <<funcs, elems, mem, globals, trace>>

ResultsAreLast == /\ Height >= Len(Fn.results)
                  /\ TypesOf(SubSeq(Top.stack, Height - Len(Fn.results) + 1, Height)) = Fn.results
Results == SubSeq(Top.stack, Height - Len(Fn.results) + 1, Height)
Return1 == Runs("Return") /\ Leave(Results)
FallOff == Running /\ AtEnd /\ TypesOf(Top.stack) = Fn.results /\ Leave(Results)

-----------------------------------------------------------------------------
(* Faults *)

Invalid ==
    \/ AtEnd /\ TypesOf(Top.stack) # Fn.results
    \/ ~AtEnd /\ ~WellTyped
    \/ ~AtEnd /\ WellTyped /\ Op = "End" /\ ~EndFits
    \/ ~AtEnd /\ WellTyped /\ Op = "Br" /\ ~BranchFits(Top, Instr[2])
    \/ ~AtEnd /\ WellTyped /\ Op = "BrIf" /\ ~BranchFits(Next1(1, <<>>), Instr[2])
    \/ ~AtEnd /\ WellTyped /\ Op = "CallIndirect" /\ ~SignatureFits
    \/ ~AtEnd /\ Op = "Unreachable"

MachineStep ==
    \/ Const \/ LocalGet1 \/ LocalSet1 \/ GlobalGet1 \/ GlobalSet1 \/ Drop1 \/ Eqz1
    \/ Convert1 \/ Num1 \/ DivideByZero \/ Load1 \/ Store1
    \/ Block1 \/ Loop1 \/ If1 \/ End1 \/ Br1 \/ BrIf1
    \/ Call1 \/ Panic1 \/ CallIndirect1 \/ Return1 \/ FallOff
=============================================================================
