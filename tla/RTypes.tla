------------------------------- MODULE RTypes -------------------------------
(* Resolved types (src/typeck/types.rs) and the search for trait impls       *)
(* (src/typeck/traits.rs), as monomorphisation, layout and code generation   *)
(* use them.                                                                 *)
(*                                                                           *)
(* A type is a term [h |-> head, args |-> <<types>>]: the head is the name   *)
(* of a scalar, a declared struct or enum, "tuple", a pointer constructor    *)
(* ("&", "&mut", "*const", "*mut") or a type parameter. Structs, enums and   *)
(* impls are the tables typeck has filled.                                   *)
EXTENDS Integers, Sequences, FiniteSets, TLC

CONSTANTS
    Structs,   \* name -> [params, fields : Seq([name, ty])]
    Enums,     \* name -> [params, variants : Seq([name, fields])]
    Impls      \* Seq([trait, targs, params, bounds, target, assoc, methods])

Ty(h, args) == [h |-> h, args |-> args]
Scalar(h) == Ty(h, <<>>)
Tup(ts) == Ty("tuple", ts)
Unit == Tup(<<>>)
NeverT == Scalar("!")
BoolT == Scalar("bool")
CharT == Scalar("char")
RefTo(t, mutable) == Ty(IF mutable THEN "&mut" ELSE "&", <<t>>)
RefHeads == {"&", "&mut"}
RawHeads == {"*const", "*mut"}
UnsizedHeads == {"str", "slice", "dyn"}

IsRef(t) == t.h \in RefHeads
IsPointer(t) == t.h \in RefHeads \cup RawHeads
IsStruct(t) == t.h \in DOMAIN Structs
IsEnum(t) == t.h \in DOMAIN Enums
IsTuple(t) == t.h = "tuple"
IsSized(t) == t.h \notin UnsizedHeads
Pointee(t) == t.args[1]
PeelRef(t) == IF IsRef(t) THEN Pointee(t) ELSE t

LeastOf(S) == CHOOSE x \in S : \A y \in S : x <= y
LargestOf(S) == CHOOSE x \in S : \A y \in S : y <= x

\* Types carry no position, so rtype_eq is equality of terms.
RTypeEq(a, b) == a = b

\* The environment of a declaration's parameters: the shorter of the two
\* lists decides how many are bound.
StructEnv(params, args) ==
    LET bound == {i \in DOMAIN params : i \in DOMAIN args}
    IN  [p \in {params[i] : i \in bound} |-> args[CHOOSE i \in bound : params[i] = p]]

RECURSIVE SubstituteRType(_, _)
SubstituteRType(t, env) ==
    IF t.h \in DOMAIN env
    THEN env[t.h]
    ELSE Ty(t.h, [i \in DOMAIN t.args |-> SubstituteRType(t.args[i], env)])

\* The fields of a struct, the elements of a tuple, with their types.
InstanceOf(fields, env) ==
    [i \in DOMAIN fields |-> [name |-> fields[i].name, ty |-> SubstituteRType(fields[i].ty, env)]]
FieldsOf(t) == InstanceOf(Structs[t.h].fields, StructEnv(Structs[t.h].params, t.args))
PayloadOf(t, disc) ==
    InstanceOf(Enums[t.h].variants[disc + 1].fields, StructEnv(Enums[t.h].params, t.args))

\* Discriminants are positions in the declaration, counted from 0.
Discs(t) == 0 .. (Len(Enums[t.h].variants) - 1)
DiscNamed(h, name) ==
    LeastOf({d \in 0 .. (Len(Enums[h].variants) - 1) : Enums[h].variants[d + 1].name = name})

Parts(t) == IF IsTuple(t)
            THEN [i \in DOMAIN t.args |-> [name |-> i - 1, ty |-> t.args[i]]]
            ELSE FieldsOf(t)

RECURSIVE SumTo(_, _)
SumTo(f, n) == IF n = 0 THEN 0 ELSE f[n] + SumTo(f, n - 1)

ScalarBytes(h) ==
    CASE h \in {"bool", "u8", "i8"} -> 1
      [] h \in {"u16", "i16"} -> 2
      [] h \in {"u64", "i64"} -> 8
      [] h \in {"u128", "i128"} -> 16
      [] h = "!" -> 0
      [] OTHER -> 4

\* Bytes of a value in memory; an enum is its discriminant and a buffer for
\* the largest payload.
RECURSIVE ByteSizeOf(_)
SizesOf(parts) == [i \in DOMAIN parts |-> ByteSizeOf(parts[i].ty)]
SizeOfParts(parts) == SumTo(SizesOf(parts), Len(parts))
ByteSizeOf(t) ==
    CASE IsPointer(t) -> IF IsSized(Pointee(t)) THEN 4 ELSE 8
      [] IsStruct(t) \/ IsTuple(t) -> SizeOfParts(Parts(t))
      [] IsEnum(t) -> 4 + LargestOf({SizeOfParts(PayloadOf(t, d)) : d \in Discs(t)} \cup {0})
      [] OTHER -> ScalarBytes(t.h)

OffsetIn(parts, k) == SumTo(SizesOf(parts), k - 1)

\* The wasm scalars of a value on the operand stack; an enum is the address
\* of its bytes.
RECURSIVE FlattenRType(_)
FlattenParts(parts) ==
    LET Flat[n \in 0 .. Len(parts)] ==
            IF n = 0 THEN <<>> ELSE Flat[n - 1] \o FlattenRType(parts[n].ty)
    IN  Flat[Len(parts)]
FlattenRType(t) ==
    CASE IsPointer(t) -> IF IsSized(Pointee(t)) THEN <<"i32">> ELSE <<"i32", "i32">>
      [] IsStruct(t) \/ IsTuple(t) -> FlattenParts(Parts(t))
      [] t.h \in {"u64", "i64"} -> <<"i64">>
      [] t.h \in {"u128", "i128"} -> <<"i64", "i64">>
      [] t.h = "!" -> <<>>
      [] OTHER -> <<"i32">>

-----------------------------------------------------------------------------
(* Impl search *)

NoMatch == [ok |-> FALSE, env |-> <<>>]
Matched(env) == [ok |-> TRUE, env |-> env]
Bind(env, p, t) == [q \in DOMAIN env \cup {p} |-> IF q = p THEN t ELSE env[q]]

\* A pattern over the parameters ps against a concrete type; a parameter
\* under a pointer may stand for an unsized type, elsewhere it may not.
RECURSIVE TryMatch(_, _, _, _, _)
TryMatch(pat, t, env, ps, mustBeSized) ==
    IF pat.h \in ps
    THEN IF \/ mustBeSized /\ ~IsSized(t)
            \/ pat.h \in DOMAIN env /\ ~RTypeEq(env[pat.h], t)
         THEN NoMatch
         ELSE Matched(Bind(env, pat.h, t))
    ELSE IF pat.h # t.h \/ Len(pat.args) # Len(t.args)
    THEN NoMatch
    ELSE LET M[n \in 0 .. Len(pat.args)] ==
                 IF n = 0 THEN Matched(env)
                 ELSE IF ~M[n - 1].ok THEN NoMatch
                 ELSE TryMatch(pat.args[n], t.args[n], M[n - 1].env, ps, ~IsPointer(pat))
         IN  M[Len(pat.args)]

ParamSet(row) == {row.params[i] : i \in DOMAIN row.params}

NoImpl == [idx |-> 0, subst |-> <<>>]

\* The trait's arguments and the target of an impl against the request.
MatchRow(row, trait, targs, t) ==
    IF row.trait # trait \/ Len(row.targs) # Len(targs) THEN NoMatch
    ELSE TryMatch(Tup(Append(row.targs, row.target)), Tup(Append(targs, t)),
                  <<>>, ParamSet(row), TRUE)

\* The first impl that matches and whose parameters satisfy their bounds.
RECURSIVE SolveImpl(_, _, _, _)
BoundsHold(row, m, depth) ==
    \A p \in DOMAIN m.env \cap DOMAIN row.bounds :
        \A b \in row.bounds[p] : SolveImpl(b, <<>>, m.env[p], depth + 1).idx # 0
RowHolds(row, m, depth) == m.ok /\ BoundsHold(row, m, depth)
Solved(i, trait, targs, t) == [idx |-> i, subst |-> MatchRow(Impls[i], trait, targs, t).env]
FirstSolved(hits, trait, targs, t) ==
    IF hits = {} THEN NoImpl ELSE Solved(LeastOf(hits), trait, targs, t)

SolveImpl(trait, targs, t, depth) ==
    IF depth > 32 THEN NoImpl
    ELSE FirstSolved(
            {i \in DOMAIN Impls :
                /\ Impls[i].trait = trait
                /\ RowHolds(Impls[i], MatchRow(Impls[i], trait, targs, t), depth)},
            trait, targs, t)

\* The first impl of the trait for t that binds the associated type.
TargetMatch(row, t) == TryMatch(row.target, t, <<>>, ParamSet(row), TRUE)
AssocRows(trait, t, name) ==
    {i \in DOMAIN Impls :
        /\ Impls[i].trait = trait
        /\ name \in DOMAIN Impls[i].assoc
        /\ TargetMatch(Impls[i], t).ok}

AssocIn(row, t, name) == SubstituteRType(row.assoc[name], TargetMatch(row, t).env)
FindAssocBinding(trait, t, name) == AssocIn(Impls[LeastOf(AssocRows(trait, t, name))], t, name)

IsDrop(t) == SolveImpl("Drop", <<>>, t, 0).idx # 0

\* The type implements Drop or contains a type that does.
RECURSIVE NeedsDrop(_)
AnyNeedsDrop(parts) == \E i \in DOMAIN parts : NeedsDrop(parts[i].ty)
NeedsDrop(t) ==
    \/ IsDrop(t)
    \/ (IsStruct(t) \/ IsTuple(t)) /\ AnyNeedsDrop(Parts(t))
    \/ IsEnum(t) /\ \E d \in Discs(t) : AnyNeedsDrop(PayloadOf(t, d))
=============================================================================
