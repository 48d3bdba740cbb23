------------------------------ MODULE Emitter -------------------------------
(* The state of the code generator for one function (src/codegen.rs, FnCtx)  *)
(* and what it emits to move values between the operand stack, the wasm      *)
(* locals, the shadow stack and the heap.                                    *)
(*                                                                           *)
(* A generator state g is a record; an operator that emits returns the next  *)
(* one, with what it allocated or found in `out`. Once g.ok is FALSE nothing *)
(* changes it. An instruction is a tuple <<name, operands...>>; wasm locals  *)
(* are numbered from 0 and a local's type is g.vts[k + 1].                   *)
EXTENDS Layout

GlobalSp == 0
GlobalHeap == 1

LocalGet(k) == <<"LocalGet", k>>
LocalSet(k) == <<"LocalSet", k>>
GlobalGet(k) == <<"GlobalGet", k>>
GlobalSet(k) == <<"GlobalSet", k>>
I32Const(n) == <<"Const", "i32", n>>
I64Const(n) == <<"Const", "i64", n>>
Num(vt, op) == <<"Num", vt, op>>
I32Add == Num("i32", "Add")
I32Sub == Num("i32", "Sub")
I32Eqz == <<"Eqz">>
Load(vt, bytes, signed, off) == <<"Load", vt, bytes, signed, off>>
Store(vt, bytes, off) == <<"Store", vt, bytes, off>>
I32Load(off) == Load("i32", 4, FALSE, off)
Br(n) == <<"Br", n>>
BrIf(n) == <<"BrIf", n>>
BlockOfType(results) == <<"Block", results>>
BlockEmpty == BlockOfType(<<>>)
End == <<"End">>
DropOne == <<"Drop">>
Unreachable == <<"Unreachable">>
CallI(idx) == <<"Call", idx>>
FuncType(params, results) == [params |-> params, results |-> results]
CallIndirectI(sig) == <<"CallIndirect", sig>>

Put(g, code) == [g EXCEPT !.code = @ \o code]
Stop(g, why) == [g EXCEPT !.ok = FALSE, !.why = why]

\* Fresh wasm locals; out is the first.
Fresh(g, vts) == [g EXCEPT !.vts = @ \o vts, !.out = Len(g.vts)]
FreshI32(g) == Fresh(g, <<"i32">>)

GetRun(start, n) == [k \in 1 .. n |-> LocalGet(start + k - 1)]
\* The top of the stack is the last local of the run.
SetRun(start, n) == [k \in 1 .. n |-> LocalSet(start + n - k)]

\* The operands become fresh locals.
Stash(g, vts) ==
    LET f == Fresh(g, vts) IN Put(f, SetRun(f.out, Len(vts)))

Openers == {"Block", "Loop", "If"}
\* The control structures open at this point, counted over the code so far.
CurrentCfDepth(g) ==
    Cardinality({i \in DOMAIN g.code : g.code[i][1] \in Openers})
    - Cardinality({i \in DOMAIN g.code : g.code[i][1] = "End"})

-----------------------------------------------------------------------------
(* Memory *)

Leaf(vt, bytes, signed, off) == [vt |-> vt, bytes |-> bytes, signed |-> signed, off |-> off]

\* The loads or stores of a value at an offset, in the order of its scalars.
RECURSIVE CollectLeaves(_, _)
CollectLeaves(t, off) ==
    CASE IsStruct(t) \/ IsTuple(t) ->
            LET parts == Parts(t)
                Leaves[n \in 0 .. Len(parts)] ==
                    IF n = 0 THEN <<>>
                    ELSE Leaves[n - 1]
                         \o CollectLeaves(parts[n].ty, off + OffsetIn(parts, n))
            IN  Leaves[Len(parts)]
      [] IsPointer(t) ->
            [k \in 1 .. Len(FlattenRType(t)) |-> Leaf("i32", 4, FALSE, off + 4 * (k - 1))]
      [] t.h \in {"u128", "i128"} ->
            <<Leaf("i64", 8, FALSE, off), Leaf("i64", 8, FALSE, off + 8)>>
      [] t.h \in {"u64", "i64"} -> <<Leaf("i64", 8, FALSE, off)>>
      [] t.h = "!" -> <<>>
      [] IsEnum(t) -> <<Leaf("i32", 4, FALSE, off)>>
      [] OTHER -> <<Leaf("i32", ScalarBytes(t.h), t.h \in {"i8", "i16"}, off)>>

LoadInstr(l, base) == Load(l.vt, l.bytes, l.signed, base + l.off)
StoreInstr(l, base) == Store(l.vt, l.bytes, base + l.off)

AddOffset(off) == IF off = 0 THEN <<>> ELSE <<I32Const(off), I32Add>>

\* Copies in chunks of 8, then 4, 2 and 1 bytes.
RECURSIVE ChunksFrom(_, _)
ChunksFrom(off, bytes) ==
    LET left == bytes - off
        n == CHOOSE c \in {8, 4, 2, 1} : c <= left /\ \A d \in {8, 4, 2, 1} : d <= left => d <= c
    IN  IF left = 0 THEN <<>> ELSE <<[off |-> off, n |-> n]>> \o ChunksFrom(off + n, bytes)

RECURSIVE CopyCode(_, _, _)
CopyCode(chunks, dst, src) ==
    IF chunks = <<>> THEN <<>>
    ELSE LET c == Head(chunks)
             vt == IF c.n = 8 THEN "i64" ELSE "i32"
         IN  <<LocalGet(dst), LocalGet(src), Load(vt, c.n, FALSE, c.off), Store(vt, c.n, c.off)>>
             \o CopyCode(Tail(chunks), dst, src)

EmitMemcpy(g, dst, src, bytes) == Put(g, CopyCode(ChunksFrom(0, bytes), dst, src))

RECURSIVE StoreCode(_, _, _, _)
StoreCode(leaves, base, start, off) ==
    IF leaves = <<>> THEN <<>>
    ELSE <<LocalGet(base), LocalGet(start), StoreInstr(Head(leaves), off)>>
         \o StoreCode(Tail(leaves), base, start + 1, off)

RECURSIVE LoadCode(_, _, _)
LoadCode(leaves, base, off) ==
    IF leaves = <<>> THEN <<>>
    ELSE <<LocalGet(base), LoadInstr(Head(leaves), off)>> \o LoadCode(Tail(leaves), base, off)

VtsOf(leaves) == [k \in DOMAIN leaves |-> leaves[k].vt]

\* The operands stored at base + off; an enum is copied from its address.
StoreFlatToMemory(g, t, base, off) ==
    LET leaves == CollectLeaves(t, 0)
        s == Stash(g, VtsOf(leaves))
        src == Stash(g, <<"i32">>)
        dst == Stash(Put(src, <<LocalGet(base)>> \o AddOffset(off)), <<"i32">>)
    IN  IF IsEnum(t)
        THEN EmitMemcpy(dst, dst.out, src.out, ByteSizeOf(t))
        ELSE Put(s, StoreCode(leaves, base, s.out, off))

\* The value at base + off pushed; an enum is its address.
LoadFlatFromMemory(g, t, base, off) ==
    IF IsEnum(t)
    THEN Put(g, <<LocalGet(base)>> \o AddOffset(off))
    ELSE Put(g, LoadCode(CollectLeaves(t, 0), base, off))

(* Mutant of PushSlot: the stack pointer is computed but not set. *)
PushSlotUnset(g, bytes) ==
    Stash(Put(g, <<GlobalGet(GlobalSp), I32Const(bytes), I32Sub>>), <<"i32">>)

\* A slot of the shadow stack, given back at the function's exit; out holds
\* its address.
PushSlot(g, bytes) ==
    Stash(Put(g, <<GlobalGet(GlobalSp), I32Const(bytes), I32Sub, GlobalSet(GlobalSp),
                   GlobalGet(GlobalSp)>>), <<"i32">>)

\* The destination of a call that returns an enum: the caller's slot, pushed
\* as the first argument.
EmitSretAlloc(g, t) ==
    Put(g, <<GlobalGet(GlobalSp), I32Const(ByteSizeOf(t)), I32Sub, GlobalSet(GlobalSp),
             GlobalGet(GlobalSp)>>)

\* The operands in a slot of their own; out is its address.
SpillOperands(g, t) ==
    LET slot == PushSlot(g, ByteSizeOf(t))
    IN  [StoreFlatToMemory(slot, t, slot.out, 0) EXCEPT !.out = slot.out]

EmitMaterializeAsAddress(g, t) ==
    LET s == SpillOperands(g, t) IN Put(s, <<LocalGet(s.out)>>)

EmitAddressAtOffset(g, base, off) ==
    Stash(Put(g, <<LocalGet(base)>> \o AddOffset(off)), <<"i32">>)

-----------------------------------------------------------------------------
(* The bindings in scope: g.locals. A binding's storage is                   *)
(* [k |-> "Local", at |-> first wasm local], [k |-> "Memory", at |-> offset   *)
(* from the frame] or [k |-> "MemoryAt", at |-> the local with its address].  *)

Storage(k, at) == [k |-> k, at |-> at]
PushLocal(g, name, t, storage) ==
    [g EXCEPT !.locals = Append(@, [name |-> name, ty |-> t, st |-> storage,
                                    drop |-> ComputeDropAction(name, t, g.moved)])]
Truncate(g, mark) == [g EXCEPT !.locals = SubSeq(@, 1, mark)]

\* The wasm local and the offset from it of a binding in memory.
BaseOf(g, st) == IF st.k = "Memory" THEN [at |-> g.frameBase, off |-> st.at]
                                    ELSE [at |-> st.at, off |-> 0]

EmitLocalValueLoad(g, i) ==
    LET b == g.locals[i]
        base == BaseOf(g, b.st)
    IN  IF b.st.k = "Local" THEN Put(g, GetRun(b.st.at, Len(FlattenRType(b.ty))))
        ELSE LoadFlatFromMemory(g, b.ty, base.at, base.off)

-----------------------------------------------------------------------------
(* Drop flags *)

\* A name has one flag, the first it was given.
FlagsNamed(g, name) == {i \in DOMAIN g.flags : g.flags[i].name = name}
LookupDropFlag(g, name) ==
    g.flags[CHOOSE i \in FlagsNamed(g, name) : \A j \in FlagsNamed(g, name) : i <= j].local

NewDropFlag(g, name, init) ==
    LET f == FreshI32(g)
    IN  Put([f EXCEPT !.flags = Append(@, [name |-> name, local |-> f.out])],
            <<I32Const(init), LocalSet(f.out)>>)

-----------------------------------------------------------------------------
(* Integers *)

NarrowBits(h) == IF h \in {"u8", "i8"} THEN 8 ELSE IF h \in {"u16", "i16"} THEN 16 ELSE 32
SignedInts == {"i8", "i16", "i32", "i64", "i128", "isize"}
IntClass(h) == IF h \in {"u128", "i128"} THEN "Wide128"
               ELSE IF h \in {"u64", "i64"} THEN "Wide64" ELSE "Narrow32"

NarrowNormalize(h) ==
    CASE h = "u8" -> <<I32Const(255), Num("i32", "And")>>
      [] h = "u16" -> <<I32Const(65535), Num("i32", "And")>>
      [] h \in {"i8", "i16"} ->
            LET n == 32 - NarrowBits(h)
            IN  <<I32Const(n), Num("i32", "Shl"), I32Const(n), Num("i32", "ShrS")>>
      [] OTHER -> <<>>

\* The upper half of a 64-bit value that becomes a 128-bit one.
EmitHighHalf(g, signed) ==
    LET s == Stash(g, <<"i64">>)
    IN  IF signed
        THEN Put(s, <<LocalGet(s.out), LocalGet(s.out), I64Const(63), Num("i64", "ShrS")>>)
        ELSE Put(g, <<I64Const(0)>>)

EmitIntToIntCast(g, src, tgt) ==
    LET classes == <<IntClass(src), IntClass(tgt)>>
        signed == src \in SignedInts
        widen == <<Num("i64", IF signed THEN "ExtendS" ELSE "ExtendU")>>
    IN  CASE classes = <<"Wide64", "Narrow32">> -> Put(g, <<Num("i32", "Wrap")>>)
          [] classes = <<"Narrow32", "Wide64">> -> Put(g, widen)
          [] classes = <<"Narrow32", "Wide128">> -> EmitHighHalf(Put(g, widen), signed)
          [] classes = <<"Wide64", "Wide128">> -> EmitHighHalf(g, signed)
          [] classes = <<"Wide128", "Wide64">> -> Put(g, <<DropOne>>)
          [] classes = <<"Wide128", "Narrow32">> -> Put(g, <<DropOne, Num("i32", "Wrap")>>)
          [] classes = <<"Narrow32", "Narrow32">> ->
                Put(g, IF NarrowBits(tgt) < NarrowBits(src) THEN NarrowNormalize(tgt) ELSE <<>>)
          [] OTHER -> g

\* A cast sees a char, a bool and a pointer as 32-bit unsigned integers.
CastKind(t) == IF t.h \in {"bool", "char"} \/ IsPointer(t) THEN "u32" ELSE t.h
EmitCast(g, src, tgt) ==
    IF IsPointer(src) /\ IsPointer(tgt) THEN g
    ELSE IF IsRef(src) \/ IsRef(tgt) THEN Stop(g, "unsupported cast")
    ELSE EmitIntToIntCast(g, CastKind(src), CastKind(tgt))

\* A literal: a 128-bit one is its low word and the sign in the high word.
EmitIntLit(g, t, n) ==
    Put(g, CASE IntClass(t.h) = "Wide128" ->
                    <<I64Const(n), I64Const(IF t.h \in SignedInts /\ n < 0 THEN -1 ELSE 0)>>
             [] IntClass(t.h) = "Wide64" -> <<I64Const(n)>>
             [] OTHER -> <<I32Const(n)>>)

Emit128Add(g, a, b) ==
    LET low == Stash(Put(g, <<LocalGet(a), LocalGet(b), Num("i64", "Add")>>), <<"i64">>)
        high == Stash(Put(low, <<LocalGet(low.out), LocalGet(a), Num("i64", "LtU"),
                                 Num("i64", "ExtendU"), LocalGet(a + 1), Num("i64", "Add"),
                                 LocalGet(b + 1), Num("i64", "Add")>>), <<"i64">>)
    IN  Put(high, <<LocalGet(low.out), LocalGet(high.out)>>)

Emit128Sub(g, a, b) ==
    LET low == Stash(Put(g, <<LocalGet(a), LocalGet(b), Num("i64", "Sub")>>), <<"i64">>)
        borrow == Stash(Put(low, <<LocalGet(a), LocalGet(b), Num("i64", "LtU"),
                                   Num("i64", "ExtendU")>>), <<"i64">>)
        high == Stash(Put(borrow, <<LocalGet(a + 1), LocalGet(borrow.out), Num("i64", "Sub"),
                                    LocalGet(b + 1), Num("i64", "Sub")>>), <<"i64">>)
    IN  Put(high, <<LocalGet(low.out), LocalGet(high.out)>>)

Emit128Eq(g, a, b, invert) ==
    Put(g, <<LocalGet(a), LocalGet(b), Num("i64", "Eq"), LocalGet(a + 1), LocalGet(b + 1),
             Num("i64", "Eq"), Num("i32", "And")>>
           \o (IF invert THEN <<I32Eqz>> ELSE <<>>))

\* The high words decide, strictly and with the sign; the low words, without
\* it, when the high words are equal.
SignedForm(op) == CASE op = "lt" -> "LtS" [] op = "le" -> "LeS" [] op = "gt" -> "GtS"
                    [] op = "ge" -> "GeS" [] op = "div" -> "DivS" [] OTHER -> "RemS"
UnsignedForm(op) == CASE op = "lt" -> "LtU" [] op = "le" -> "LeU" [] op = "gt" -> "GtU"
                      [] op = "ge" -> "GeU" [] op = "div" -> "DivU" [] OTHER -> "RemU"
Emit128Cmp(g, a, b, signed, op) ==
    LET strict == IF op \in {"lt", "le"} THEN "lt" ELSE "gt"
        high == IF signed THEN SignedForm(strict) ELSE UnsignedForm(strict)
    IN  Put(g, <<LocalGet(a + 1), LocalGet(b + 1), Num("i64", high),
                 LocalGet(a + 1), LocalGet(b + 1), Num("i64", "Eq"),
                 LocalGet(a), LocalGet(b), Num("i64", UnsignedForm(op)),
                 Num("i32", "And"), Num("i32", "Or")>>)

\* Locals of the operands: low and high word of a, then of b.
CodegenBuiltin128(g, op, signed) ==
    LET s == Stash(g, <<"i64", "i64", "i64", "i64">>)
        a == s.out
        b == s.out + 2
    IN  CASE op = "add" -> Emit128Add(s, a, b)
          [] op = "sub" -> Emit128Sub(s, a, b)
          [] op \in {"eq", "ne"} -> Emit128Eq(s, a, b, op = "ne")
          [] op \in {"lt", "le", "gt", "ge"} -> Emit128Cmp(s, a, b, signed, op)
          [] OTHER -> Put(s, <<Unreachable>>)

CanOverflowNarrow(op, signed) == op \in {"add", "sub", "mul"} \/ (signed /\ op = "div")
PlainForms == [add |-> "Add", sub |-> "Sub", mul |-> "Mul", and |-> "And", or |-> "Or",
               xor |-> "Xor", eq |-> "Eq", ne |-> "Ne"]

\* <int>_<op>.
IntBuiltin(g, h, op) ==
    LET vt == IF IntClass(h) = "Wide64" THEN "i64" ELSE "i32"
        signed == h \in SignedInts
        num == IF op \in DOMAIN PlainForms THEN PlainForms[op]
               ELSE IF signed THEN SignedForm(op) ELSE UnsignedForm(op)
    IN  IF IntClass(h) = "Wide128" THEN CodegenBuiltin128(g, op, signed)
        ELSE IF op = "not" THEN Put(g, <<I32Eqz>>)
        ELSE Put(g, <<Num(vt, num)>>
                    \o (IF CanOverflowNarrow(op, signed) THEN NarrowNormalize(h) ELSE <<>>))

\* The operands are on the stack; name is <<"op">> or <<int, "op">>.
EmitSimpleBuiltin(g, name, targs) ==
    LET n == Fresh(g, <<"i32", "i32">>)
        len == Stash(g, <<"i32">>)
    IN  CASE name[1] = "size_of" -> Put(g, <<I32Const(ByteSizeOf(targs[1]))>>)
          [] name[1] \in {"cast", "make_slice", "make_str", "str_as_bytes"} -> g
          [] name[1] \in {"free", "slice_ptr"} -> Put(g, <<DropOne>>)
          [] name[1] = "alloc" ->
                Put(n, <<LocalSet(n.out), GlobalGet(GlobalHeap), LocalSet(n.out + 1),
                         LocalGet(n.out + 1), LocalGet(n.out), I32Add, GlobalSet(GlobalHeap),
                         LocalGet(n.out + 1)>>)
          [] name[1] \in {"slice_len", "str_len"} -> Put(len, <<DropOne, LocalGet(len.out)>>)
          [] name[1] = "ptr_usize_add" -> Put(g, <<I32Add>>)
          [] name[1] = "ptr_usize_sub" -> Put(g, <<I32Sub>>)
          [] OTHER -> IntBuiltin(g, name[1], name[2])
=============================================================================
