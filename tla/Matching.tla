------------------------------ MODULE Matching ------------------------------
(***************************************************************************)
(* Typing of patterns and exhaustiveness of matches                        *)
(* (src/typeck/patterns.rs, and its callers in src/typeck/mod.rs).         *)
(*                                                                         *)
(* A pattern is a record: its kind k, the name it binds or the constructor *)
(* it names, its parts subs, the names of the parts of a struct pattern in *)
(* fields, rest for `..`, by for `ref` and `ref mut`, and vals, the        *)
(* integers a literal or a range stands for.                               *)
(*                                                                         *)
(* A match is built arm by arm, as check_match_expr types it, and then     *)
(* judged; a let has one pattern.  Scrutinees have closed types, so that a *)
(* unification here is an equality; see Unifier for the rest of it.        *)
(***************************************************************************)
EXTENDS RTypes

CONSTANTS Scrutinees,       \* types matched on
          PatternsFor(_),   \* the patterns tried on a type, also ill-typed ones
          IntValues,        \* the integers that exist
          MaxArms

VARIABLES scrutinee,
          arms,     \* Seq([pat, guard, binds])
          verdict   \* "open", "accepted", "rejected", "ill typed"

vars == <<scrutinee, arms, verdict>>

Modes == {"move", "&", "&mut"}
IntHeads == {"u8", "i32"}

Variant(h, disc) == Enums[h].variants[disc + 1]
EnumsWith(name) ==
    {h \in DOMAIN Enums : \E d \in 0 .. Len(Enums[h].variants) - 1 : Variant(h, d).name = name}

-----------------------------------------------------------------------------
(* Typing of patterns *)

(* Mutant of BumpMode: a `&mut` under a `&` still gives exclusive access. *)
BumpModeToLast(mode, head) == head

BumpMode(mode, head) ==
    CASE mode = "move" -> head
      [] mode = "&" -> "&"
      [] mode = "&mut" -> head

RECURSIVE PeelRefLayers(_, _, _)
PeelRefLayers(t, mode, layers) ==
    IF layers = 0 \/ ~IsRef(t) THEN [ty |-> t, mode |-> mode]
    ELSE PeelRefLayers(Pointee(t), BumpMode(mode, t.h), layers - 1)

IllTyped == [ok |-> FALSE, binds |-> <<>>]
Binds(bs) == [ok |-> TRUE, binds |-> bs]
Binding(name, t) == [name |-> name, ty |-> t]

\* `ref` and `ref mut` are taken at their word, before the mode.
BindingType(p, t, mode) ==
    CASE p.by = "ref" -> RefTo(t, FALSE)
      [] p.by = "ref mut" -> RefTo(t, TRUE)
      [] mode = "move" -> t
      [] OTHER -> Ty(mode, <<t>>)

FieldIndex(parts, name) == LeastOf({i \in DOMAIN parts : parts[i].name = name})
NamesOf(parts) == {parts[i].name : i \in DOMAIN parts}
IndicesNamed(p, name) == {i \in DOMAIN p.fields : p.fields[i] = name}

\* Every field of a struct pattern exists and is named once; without `..`
\* all are there.
FieldsFit(p, parts) ==
    /\ \A i \in DOMAIN p.fields : p.fields[i] \in NamesOf(parts)
    /\ \A name \in NamesOf(parts) :
        Cardinality(IndicesNamed(p, name)) \in (IF p.rest THEN {0, 1} ELSE {1})

TypesOf(parts) == [i \in DOMAIN parts |-> parts[i].ty]
FieldTypes(p, parts) ==
    [i \in DOMAIN p.fields |-> parts[FieldIndex(parts, p.fields[i])].ty]

SameBindings(found, first) ==
    /\ Len(found) = Len(first)
    /\ \A j \in DOMAIN found :
        /\ found[j].name \in NamesOf(first)
        /\ found[j].ty = first[FieldIndex(first, found[j].name)].ty

RECURSIVE CheckPattern(_, _, _)
CheckAll(subs, tys, mode) ==
    LET Upto[n \in 0 .. Len(subs)] ==
            IF n = 0 THEN Binds(<<>>)
            ELSE LET next == CheckPattern(subs[n], tys[n], mode)
                 IN  IF Upto[n - 1].ok /\ next.ok
                     THEN Binds(Upto[n - 1].binds \o next.binds)
                     ELSE IllTyped
    IN  IF Len(subs) = Len(tys) THEN Upto[Len(subs)] ELSE IllTyped

CheckFields(p, parts, mode) ==
    IF FieldsFit(p, parts) THEN CheckAll(p.subs, FieldTypes(p, parts), mode) ELSE IllTyped

CheckAlternatives(p, t, mode) ==
    LET first == CheckPattern(p.subs[1], t, mode)
        alts == [k \in DOMAIN p.subs |-> CheckPattern(p.subs[k], t, mode)]
    IN  IF \A k \in DOMAIN alts : alts[k].ok /\ SameBindings(alts[k].binds, first.binds)
        THEN first ELSE IllTyped

\* A variant pattern against the enum that has a variant of that name.
CheckVariant(p, t, mode) ==
    IF t.h \notin EnumsWith(p.name) THEN IllTyped
    ELSE LET disc == DiscNamed(t.h, p.name)
             shape == Variant(t.h, disc).shape
         IN  CASE p.k = "variant" /\ shape # "struct" ->
                    CheckAll(p.subs, TypesOf(PayloadOf(t, disc)), mode)
               [] p.k = "struct" /\ shape = "struct" ->
                    CheckFields(p, PayloadOf(t, disc), mode)
               [] OTHER -> IllTyped

CheckStruct(p, t, mode) ==
    IF t.h = p.name /\ IsStruct(t) THEN CheckFields(p, FieldsOf(t), mode) ELSE IllTyped

\* check_pattern_with_mode, with its references peeled.
CheckPeeled(p, t, mode) ==
    CASE p.k = "wild" -> Binds(<<>>)
      [] p.k = "int" -> IF t.h \in IntHeads /\ p.vals # {} THEN Binds(<<>>) ELSE IllTyped
      [] p.k = "bool" -> IF t.h = "bool" THEN Binds(<<>>) ELSE IllTyped
      [] p.k = "bind" -> Binds(<<Binding(p.name, BindingType(p, t, mode))>>)
      [] p.k = "at" -> LET inner == CheckPattern(p.subs[1], t, mode)
                       IN  IF inner.ok THEN Binds(<<Binding(p.name, t)>> \o inner.binds)
                           ELSE IllTyped
      [] p.k = "tuple" -> IF IsTuple(t) THEN CheckAll(p.subs, t.args, mode) ELSE IllTyped
      [] p.k = "ref" -> IF t.h = p.name THEN CheckPattern(p.subs[1], Pointee(t), "move")
                        ELSE IllTyped
      [] p.k = "or" -> CheckAlternatives(p, t, mode)
      [] p.k = "struct" /\ EnumsWith(p.name) = {} -> CheckStruct(p, t, mode)
      [] OTHER -> CheckVariant(p, t, mode)

CheckPattern(p, t, mode) ==
    IF p.k = "ref" THEN CheckPeeled(p, t, mode)
    ELSE LET peeled == PeelRefLayers(t, mode, 8) IN CheckPeeled(p, peeled.ty, peeled.mode)

-----------------------------------------------------------------------------
(* Exhaustiveness *)

RECURSIVE IsUninhabited(_)
IsVariantPayloadUninhabited(t, disc) ==
    \E i \in DOMAIN PayloadOf(t, disc) : IsUninhabited(PayloadOf(t, disc)[i].ty)
IsUninhabited(t) ==
    CASE t = NeverT -> TRUE
      [] IsTuple(t) \/ IsStruct(t) -> \E i \in DOMAIN Parts(t) : IsUninhabited(Parts(t)[i].ty)
      [] IsEnum(t) -> \A d \in Discs(t) : IsVariantPayloadUninhabited(t, d)
      [] OTHER -> FALSE

RECURSIVE PatIsUnconditional(_)
PatIsUnconditional(p) ==
    CASE p.k \in {"wild", "bind"} -> TRUE
      [] p.k \in {"at", "ref", "tuple"} -> \A i \in DOMAIN p.subs : PatIsUnconditional(p.subs[i])
      [] p.k = "or" -> \E i \in DOMAIN p.subs : PatIsUnconditional(p.subs[i])
      [] OTHER -> FALSE

\* The patterns an arm stands for, or-patterns and at-bindings opened.
RECURSIVE Opened(_)
Opened(p) ==
    IF p.k \in {"or", "at"} THEN UNION {Opened(p.subs[i]) : i \in DOMAIN p.subs} ELSE {p}
OpenedAll(pats) == UNION {Opened(p) : p \in pats}

GatherRefInnerPats(pats) ==
    {IF p.k = "ref" THEN p.subs[1] ELSE p : p \in OpenedAll(pats)}

CatchAll(p) == p.k \in {"wild", "bind"}

GatherTupleSubpats(pats, i) ==
    {p.subs[i] : p \in {q \in OpenedAll(pats) : q.k = "tuple" /\ i \in DOMAIN q.subs}}
        \cup {p \in OpenedAll(pats) : CatchAll(p)}

\* The pattern itself stands for a field that `..` leaves out.
GatherStructSubpats(pats, name) ==
    LET structs == {p \in OpenedAll(pats) : p.k = "struct"}
    IN  UNION {{p.subs[i] : i \in IndicesNamed(p, name)} : p \in structs}
            \cup {p \in structs : p.rest /\ IndicesNamed(p, name) = {}}
            \cup {p \in OpenedAll(pats) : CatchAll(p)}

\* A pattern that takes the variant whatever its payload.
TakesVariant(p, name, n) ==
    \/ CatchAll(p)
    \/ /\ p.name = name
       /\ \/ p.k = "variant" /\ Len(p.subs) = n
          \/ p.k = "struct" /\ (p.rest \/ Len(p.fields) = n)
       /\ p.rest \/ \A i \in DOMAIN p.subs : PatIsUnconditional(p.subs[i])

VariantSubpats(pats, name, part, i) ==
    LET named == {p \in OpenedAll(pats) : p.k \in {"variant", "struct"} /\ p.name = name}
    IN  {p.subs[i] : p \in {q \in named : q.k = "variant" /\ i \in DOMAIN q.subs}}
            \cup UNION {{p.subs[j] : j \in IndicesNamed(p, part)} :
                            p \in {q \in named : q.k = "struct"}}

(* Mutant of MustCover: a variant that no value has must be matched too. *)
MustCoverAll(t) == Discs(t)

MustCover(t) == {d \in Discs(t) : ~IsVariantPayloadUninhabited(t, d)}

RECURSIVE Exhausted(_, _)
VariantCovered(t, disc, pats) ==
    LET name == Variant(t.h, disc).name
        payload == PayloadOf(t, disc)
    IN  \/ \E p \in pats : PatIsUnconditional(p)
        \/ \E p \in OpenedAll(pats) : TakesVariant(p, name, Len(payload))
        \/ /\ payload # <<>>
           /\ \A i \in DOMAIN payload :
                Exhausted(payload[i].ty, VariantSubpats(pats, name, payload[i].name, i))

Exhausted(t, pats) ==
    \/ \E p \in pats : PatIsUnconditional(p)
    \/ /\ t.h = "bool"
       /\ \A b \in {"true", "false"} :
            \E p \in OpenedAll(pats) : (p.k = "bool" /\ p.name = b) \/ PatIsUnconditional(p)
    \/ /\ IsTuple(t)
       /\ \A i \in DOMAIN t.args : Exhausted(t.args[i], GatherTupleSubpats(pats, i))
    \/ IsRef(t) /\ Exhausted(Pointee(t), GatherRefInnerPats(pats))
    \/ /\ IsStruct(t)
       /\ \A i \in DOMAIN FieldsOf(t) :
            Exhausted(FieldsOf(t)[i].ty, GatherStructSubpats(pats, FieldsOf(t)[i].name))
    \/ IsEnum(t) /\ \A d \in MustCover(t) : VariantCovered(t, d, pats)

PatternsOf(as) == {as[i].pat : i \in DOMAIN as}
Unguarded(as) == SelectSeq(as, LAMBDA arm : ~arm.guard)

(* Mutant of CheckMatchExhaustive: arms with a guard count as well. *)
GuardsCount(t, as) == Exhausted(t, PatternsOf(as))

CheckMatchExhaustive(t, as) == Exhausted(t, PatternsOf(Unguarded(as)))
PatternIsIrrefutable(t, p) == Exhausted(t, {p})

-----------------------------------------------------------------------------
Init ==
    /\ scrutinee \in Scrutinees
    /\ arms = <<>>
    /\ verdict = "open"

Arm(p, guard) == [pat |-> p, guard |-> guard, binds |-> CheckPattern(p, scrutinee, "move").binds]

\* One more arm of a match.
AddArm(p, guard) ==
    /\ verdict = "open" /\ Len(arms) < MaxArms
    /\ IF CheckPattern(p, scrutinee, "move").ok
       THEN arms' = Append(arms, Arm(p, guard)) /\ UNCHANGED verdict
       ELSE verdict' = "ill typed" /\ UNCHANGED arms
    /\ UNCHANGED scrutinee

CheckMatch ==
    /\ verdict = "open" /\ arms # <<>>
    /\ verdict' = IF CheckMatchExhaustive(scrutinee, arms) THEN "accepted" ELSE "rejected"
    /\ UNCHANGED <<scrutinee, arms>>

\* A let without else has one pattern and no guard.
CheckLet(p) ==
    /\ verdict = "open" /\ arms = <<>>
    /\ CheckPattern(p, scrutinee, "move").ok
    /\ arms' = <<Arm(p, FALSE)>>
    /\ verdict' = IF PatternIsIrrefutable(scrutinee, p) THEN "accepted" ELSE "rejected"
    /\ UNCHANGED scrutinee

Next ==
    \/ \E p \in PatternsFor(scrutinee) : CheckLet(p) \/ \E guard \in BOOLEAN : AddArm(p, guard)
    \/ CheckMatch

Spec == Init /\ [][Next]_vars

-----------------------------------------------------------------------------
(* The values of a type, and what matching one means. *)

Val(c, n, args) == [c |-> c, n |-> n, args |-> args]

\* Sequences with the k-th element from the k-th of n sets.
RECURSIVE Rows(_, _)
Rows(sets, n) ==
    IF n = 0 THEN {<<>>} ELSE {Append(r, x) : r \in Rows(sets, n - 1), x \in sets[n]}

RECURSIVE ValuesOf(_)
RowsOf(tys) == Rows([i \in DOMAIN tys |-> ValuesOf(tys[i])], Len(tys))
ValuesOf(t) ==
    CASE t.h = "bool" -> {Val("true", 0, <<>>), Val("false", 0, <<>>)}
      [] t.h \in IntHeads -> {Val("int", n, <<>>) : n \in IntValues}
      [] t = NeverT -> {}
      [] IsRef(t) -> {Val(t.h, 0, <<v>>) : v \in ValuesOf(Pointee(t))}
      [] IsEnum(t) -> UNION {{Val(Variant(t.h, d).name, 0, r) :
                                r \in RowsOf(TypesOf(PayloadOf(t, d)))} : d \in Discs(t)}
      [] OTHER -> {Val(t.h, 0, r) : r \in RowsOf(TypesOf(Parts(t)))}

RefVal(v) == v.c \in RefHeads

\* Where the fields of a struct pattern stand in a value.
PartsNamed(name) ==
    IF name \in DOMAIN Structs THEN Structs[name].fields
    ELSE LET h == CHOOSE h \in EnumsWith(name) : TRUE
         IN  Variant(h, DiscNamed(h, name)).fields
PartOf(p, v, i) == v.args[IF p.k = "struct" THEN FieldIndex(PartsNamed(p.name), p.fields[i]) ELSE i]

RECURSIVE Matches(_, _)
Matches(p, v) ==
    CASE CatchAll(p) -> TRUE
      [] p.k = "ref" -> Matches(p.subs[1], v.args[1])
      [] RefVal(v) -> Matches(p, v.args[1])
      [] p.k = "at" -> Matches(p.subs[1], v)
      [] p.k = "or" -> \E i \in DOMAIN p.subs : Matches(p.subs[i], v)
      [] p.k = "int" -> v.n \in p.vals
      [] p.k = "bool" -> v.c = p.name
      [] OTHER -> (p.k = "tuple" \/ v.c = p.name)
                    /\ \A i \in DOMAIN p.subs : Matches(p.subs[i], PartOf(p, v, i))

\* What a pattern binds in a value it matches: the value at the place, and
\* the references passed without being written in the pattern.
RECURSIVE Bound(_, _, _)
Bound(p, v, passed) ==
    CASE p.k = "wild" -> {}
      [] p.k = "ref" -> Bound(p.subs[1], v.args[1], {})
      [] RefVal(v) -> Bound(p, v.args[1], passed \cup {v.c})
      [] p.k = "bind" -> {[name |-> p.name, value |-> v, passed |-> passed]}
      [] p.k = "at" -> {[name |-> p.name, value |-> v, passed |-> passed]}
                            \cup Bound(p.subs[1], v, passed)
      [] p.k = "or" -> Bound(p.subs[LeastOf({i \in DOMAIN p.subs : Matches(p.subs[i], v)})],
                             v, passed)
      [] OTHER -> UNION {Bound(p.subs[i], PartOf(p, v, i), passed) : i \in DOMAIN p.subs}

RECURSIVE Within(_)
Within(p) == {p} \cup UNION {Within(p.subs[i]) : i \in DOMAIN p.subs}
Mentioned == UNION {Within(p) : p \in PatternsOf(arms)}

Refutable(p, t) == \E v \in ValuesOf(t) : ~Matches(p, v)

\* The patterns at part i of the values that constructor c makes.
SubpatsAt(pats, c, i) ==
    LET named == {p \in OpenedAll(pats) : p.subs # <<>> /\ (p.k = "tuple" \/ p.name = c)}
        parts == IF c = "tuple" THEN <<>> ELSE PartsNamed(c)
    IN  UNION {{p.subs[j] : j \in {k \in DOMAIN p.subs :
                    IF p.k = "struct" THEN p.fields[k] = parts[i].name ELSE k = i}} : p \in named}

\* At most one part of a product is ever tested, at every depth.
RECURSIVE OnePartTested(_, _)
PartsTested(c, tys, pats) ==
    /\ Cardinality({i \in DOMAIN tys :
            \E p \in SubpatsAt(pats, c, i) : Refutable(p, tys[i])}) <= 1
    /\ \A i \in DOMAIN tys : OnePartTested(tys[i], SubpatsAt(pats, c, i))
OnePartTested(t, pats) ==
    CASE IsRef(t) -> OnePartTested(Pointee(t), GatherRefInnerPats(pats))
      [] IsTuple(t) \/ IsStruct(t) -> PartsTested(t.h, TypesOf(Parts(t)), pats)
      [] IsEnum(t) -> \A d \in Discs(t) :
            PartsTested(Variant(t.h, d).name, TypesOf(PayloadOf(t, d)), pats)
      [] OTHER -> TRUE

NoTestBesideRest ==
    \A p \in Mentioned : p.rest => \A i \in DOMAIN p.subs : PatIsUnconditional(p.subs[i])
NoStructRest == \A p \in Mentioned : p.k = "struct" /\ p.rest => EnumsWith(p.name) # {}

\* No uninhabited type but in the payload of a variant.
RECURSIVE Inhabited(_)
Inhabited(t) ==
    /\ t # NeverT
    /\ IsRef(t) => Inhabited(Pointee(t))
    /\ IsTuple(t) \/ IsStruct(t) => \A i \in DOMAIN Parts(t) : Inhabited(Parts(t)[i].ty)
    /\ IsEnum(t) => \A d \in Discs(t) : RowsOf(TypesOf(PayloadOf(t, d))) # {} =>
            \A i \in DOMAIN PayloadOf(t, d) : Inhabited(PayloadOf(t, d)[i].ty)

TakenBy(v) == \E i \in DOMAIN arms : ~arms[i].guard /\ Matches(arms[i].pat, v)

(* A match or let that is accepted matches every value of its type by an   *)
(* arm without a guard: exhausted may look at one part of a product at a   *)
(* time as long as only one of them is tested, and `..` stands beside      *)
(* parts that always match.                                                *)
AcceptedCovers ==
    verdict = "accepted" /\ OnePartTested(scrutinee, PatternsOf(arms)) /\ NoTestBesideRest =>
        \A v \in ValuesOf(scrutinee) : TakenBy(v)

(* A match that is rejected misses a value: exhausted asks for nothing     *)
(* that no value needs, a variant with a payload of type `!` included.     *)
RejectedMisses ==
    verdict = "rejected" /\ NoStructRest /\ Inhabited(scrutinee) =>
        \E v \in ValuesOf(scrutinee) : ~TakenBy(v)

\* Names are given once, `ref mut` is not asked for, and `name @` stands
\* outside of references.
PlainBindings(arm) ==
    /\ Cardinality(NamesOf(arm.binds)) = Len(arm.binds)
    /\ \A p \in Within(arm.pat) : p.by # "ref mut"
    /\ \A v \in ValuesOf(scrutinee) : Matches(arm.pat, v) =>
        \A b \in Bound(arm.pat, v, {}) : b.passed # {} =>
            \A p \in Within(arm.pat) : p.k = "at" => p.name # b.name

Fits(b, t) ==
    \/ b.passed = {} /\ b.value \in ValuesOf(t)
    \/ IsRef(t) /\ b.value \in ValuesOf(Pointee(t)) /\ (t.h = "&mut" => "&" \notin b.passed)

(* Whatever alternative of an or-pattern matches, it binds the names the   *)
(* arm was typed with, each to a value of the recorded type: by value only *)
(* if no reference was passed on the way, and never as `&mut` if one of    *)
(* the references passed is shared.                                        *)
BindingsFit ==
    \A i \in DOMAIN arms : PlainBindings(arms[i]) =>
        \A v \in ValuesOf(scrutinee) : Matches(arms[i].pat, v) =>
            LET bound == Bound(arms[i].pat, v, {})
                binds == arms[i].binds
            IN  /\ {b.name : b \in bound} = NamesOf(binds)
                /\ \A b \in bound : Fits(b, binds[FieldIndex(binds, b.name)].ty)
=============================================================================
