------------------------------ MODULE Unifier -------------------------------
(***************************************************************************)
(* Inference variables and their substitution: Subst in                    *)
(* src/typeck/mod.rs.                                                      *)
(*                                                                         *)
(* A type is a term of RTypes; its heads also include inference variables  *)
(* (Names) and "proj", the projection <T as Trait>::Output that an         *)
(* operator leaves on its operand. Unification has no occurs check, so a   *)
(* variable can come to stand for a type that contains it; the next        *)
(* substitution of it never returns, which is the status "endless".        *)
(***************************************************************************)
EXTENDS RTypes

CONSTANTS Names,          \* names for inference variables, in order
          Questions(_),   \* the pairs of types asked about, given the variables
          MaxAsked

VARIABLES bindings,    \* the variables that exist, with their types or Unbound
          isNumLit,    \* those that only an integer may take
          status,      \* "open", "failed", "endless"
          asked,       \* history: the pairs that had to be equal
          literals     \* history: the variables made for integer literals

vars == <<bindings, isNumLit, status, asked, literals>>

Unbound == Scalar("unbound")
IntHeads == {"i32", "u8"}
IntI32 == Scalar("i32")
VarNamed(v) == Scalar(v)
Variables == {VarNamed(v) : v \in DOMAIN bindings}

IsVar(t) == t.h \in {Names[i] : i \in DOMAIN Names}
IsProj(t) == t.h = "proj"
IsInt(t) == t.h \in IntHeads

RECURSIVE VarsIn(_)
VarsIn(t) == IF IsVar(t) THEN {t.h} ELSE UNION {VarsIn(t.args[i]) : i \in DOMAIN t.args}

\* The variables a substitution of t comes across.
RECURSIVE Reached(_, _)
Reached(env, vs) ==
    LET more == vs \cup UNION {VarsIn(env[v]) : v \in vs}
    IN  IF more = vs THEN vs ELSE Reached(env, more)

Endless(env, t) == \E v \in Reached(env, VarsIn(t)) : v \in Reached(env, VarsIn(env[v]))

RECURSIVE SubstituteIn(_, _)
SubstituteIn(env, t) ==
    IF IsVar(t) THEN IF env[t.h] = Unbound THEN t ELSE SubstituteIn(env, env[t.h])
    ELSE Ty(t.h, [i \in DOMAIN t.args |-> SubstituteIn(env, t.args[i])])

-----------------------------------------------------------------------------
(* Unification on s = [env, num, status]. *)

Failed(s) == [s EXCEPT !.status = "failed"]
SatisfiesNum(t) == IsInt(t) \/ IsVar(t)

(* Mutant of BindVar: a literal that becomes another variable does not     *)
(* make a literal of it.                                                   *)
BindVarOnly(s, v, other) ==
    IF v.h \in s.num /\ ~SatisfiesNum(other) THEN Failed(s)
    ELSE [s EXCEPT !.env[v.h] = other]

BindVar(s, v, other) ==
    IF v.h \in s.num /\ ~SatisfiesNum(other) THEN Failed(s)
    ELSE [s EXCEPT !.env[v.h] = other,
                   !.num = IF v.h \in @ /\ IsVar(other) THEN @ \cup {other.h} ELSE @]

\* infer_to_rtype_for_check: what is not known yet is taken for i32.
RECURSIVE ForCheck(_)
ForCheck(t) == IF IsVar(t) THEN IntI32 ELSE Ty(t.h, [i \in DOMAIN t.args |-> ForCheck(t.args[i])])

\* The types whose projection is t; a literal considers integers only.
MatchingTargets(s, base, t) ==
    {Impls[i].target : i \in {j \in DOMAIN Impls :
        /\ "Output" \in DOMAIN Impls[j].assoc
        /\ RTypeEq(Impls[j].assoc["Output"], ForCheck(t))
        /\ IsVar(base) /\ base.h \in s.num => IsInt(Impls[j].target)}}

RECURSIVE UnifyIn(_, _, _)
UnifyAll(s, as, bs) ==
    LET Upto[n \in 0 .. Len(as)] ==
            IF n = 0 THEN s
            ELSE IF Upto[n - 1].status # "open" THEN Upto[n - 1]
            ELSE UnifyIn(Upto[n - 1], as[n], bs[n])
    IN  Upto[Len(as)]

BackPropagate(s, base, other) ==
    LET targets == MatchingTargets(s, base, other)
    IN  IF Cardinality(targets) = 1 THEN UnifyIn(s, base, CHOOSE t \in targets : TRUE)
        ELSE Failed(s)

(* Mutant of UnifyTerms: a variable is only bound from the left. *)
UnifyLeftOnly(s, a, b) ==
    CASE IsVar(a) -> IF a = b THEN s ELSE BindVar(s, a, b)
      [] ~IsProj(a) /\ a.h = b.h /\ Len(a.args) = Len(b.args) -> UnifyAll(s, a.args, b.args)
      [] IsProj(a) -> BackPropagate(s, Pointee(a), b)
      [] IsProj(b) -> BackPropagate(s, Pointee(b), a)
      [] OTHER -> Failed(s)

UnifyTerms(s, a, b) ==
    CASE IsVar(a) -> IF a = b THEN s ELSE BindVar(s, a, b)
      [] IsVar(b) -> BindVar(s, b, a)
      [] ~IsProj(a) /\ a.h = b.h /\ Len(a.args) = Len(b.args) -> UnifyAll(s, a.args, b.args)
      [] IsProj(a) -> BackPropagate(s, Pointee(a), b)
      [] IsProj(b) -> BackPropagate(s, Pointee(b), a)
      [] OTHER -> Failed(s)

UnifyIn(s, a, b) ==
    IF Endless(s.env, a) \/ Endless(s.env, b) THEN [s EXCEPT !.status = "endless"]
    ELSE UnifyTerms(s, SubstituteIn(s.env, a), SubstituteIn(s.env, b))

-----------------------------------------------------------------------------
Init ==
    /\ bindings = <<>>
    /\ isNumLit = {} /\ literals = {}
    /\ status = "open"
    /\ asked = <<>>

NextName == Names[Cardinality(DOMAIN bindings) + 1]
NewVar == bindings' = Bind(bindings, NextName, Unbound)

\* Variables come before the questions they are asked about.
MayCreate ==
    status = "open" /\ asked = <<>> /\ Cardinality(DOMAIN bindings) < Len(Names)

FreshVar ==
    /\ MayCreate /\ NewVar
    /\ UNCHANGED <<isNumLit, status, asked, literals>>

FreshInt ==
    /\ MayCreate /\ NewVar
    /\ isNumLit' = isNumLit \cup {NextName}
    /\ literals' = literals \cup {NextName}
    /\ UNCHANGED <<status, asked>>

MayAsk == status = "open" /\ Cardinality(DOMAIN bindings) = Len(Names) /\ Len(asked) < MaxAsked

Solve(a, b) ==
    LET s == UnifyIn([env |-> bindings, num |-> isNumLit, status |-> status], a, b)
    IN  /\ bindings' = s.env /\ isNumLit' = s.num /\ status' = s.status
        /\ asked' = Append(asked, <<a, b>>)
        /\ UNCHANGED literals

UnifyEq(a, b) == MayAsk /\ Solve(a, b)

\* An expression that never returns is taken for any type.
ActsAsAny(t) == ~Endless(bindings, t) /\ SubstituteIn(bindings, t) = NeverT
Skip == UNCHANGED vars

Coerce(actual, expected) ==
    /\ MayAsk
    /\ IF ActsAsAny(actual) THEN Skip ELSE Solve(actual, expected)

\* The arms of an if or a match, where neither side comes first.
Merge(a, b) ==
    /\ MayAsk
    /\ IF ActsAsAny(a) \/ ActsAsAny(b) THEN Skip ELSE Solve(a, b)

Next ==
    \/ FreshVar
    \/ FreshInt
    \/ \E q \in Questions(Variables) :
        UnifyEq(q[1], q[2]) \/ Coerce(q[1], q[2]) \/ Merge(q[1], q[2])

Spec == Init /\ [][Next]_vars

-----------------------------------------------------------------------------
\* What a type is in the end: variables still open are i32, a projection is
\* what the impl for its operand says.
OutputOf(t) == {Impls[i].assoc["Output"] : i \in {j \in DOMAIN Impls : Impls[j].target = t}}

RECURSIVE Finalize(_)
Finalize(t) ==
    IF IsVar(t) THEN IF bindings[t.h] = Unbound THEN IntI32 ELSE Finalize(bindings[t.h])
    ELSE Ty(t.h, [i \in DOMAIN t.args |-> Finalize(t.args[i])])

RECURSIVE Reduced(_)
Reduced(t) ==
    LET inner == Ty(t.h, [i \in DOMAIN t.args |-> Reduced(t.args[i])])
    IN  IF IsProj(t) /\ OutputOf(Pointee(inner)) # {}
        THEN CHOOSE out \in OutputOf(Pointee(inner)) : TRUE ELSE inner

Cyclic == \E v \in Variables : Endless(bindings, v)
Final(t) == Reduced(Finalize(t))

(* As long as nothing has failed, the types the variables have in the end, *)
(* defaults included, make the two sides of everything asked the same      *)
(* type, and each integer literal an integer.                              *)
AnswerSolves ==
    status = "open" /\ ~Cyclic =>
        /\ \A i \in DOMAIN asked : Final(asked[i][1]) = Final(asked[i][2])
        /\ \A v \in literals : IsInt(Final(VarNamed(v)))

\* The equalities that follow from those asked: the least equivalence that
\* goes down into the arguments of equal constructors.
RECURSIVE Consequences(_)
Consequences(R) ==
    LET joined == R \cup {<<p[2], p[1]>> : p \in R}
                    \cup {<<p[1][1], p[2][2]>> : p \in {x \in R \X R : x[1][2] = x[2][1]}}
                    \cup UNION {{<<p[1].args[i], p[2].args[i]>> : i \in DOMAIN p[1].args} :
                            p \in {x \in R : /\ x[1].h = x[2].h
                                             /\ Len(x[1].args) = Len(x[2].args)}}
    IN  IF joined = R THEN R ELSE Consequences(joined)

RECURSIVE Terms(_)
Terms(t) == {t} \cup UNION {Terms(t.args[i]) : i \in DOMAIN t.args}

RECURSIVE Closed(_)
Closed(R) ==
    LET more == R \cup {<<p[1][1], p[2][2]>> : p \in {x \in R \X R : x[1][2] = x[2][1]}}
    IN  IF more = R THEN R ELSE Closed(more)

Solvable ==
    LET terms == UNION {Terms(asked[i][1]) \cup Terms(asked[i][2]) : i \in DOMAIN asked}
        equal == Consequences({<<asked[i][1], asked[i][2]>> : i \in DOMAIN asked}
                                \cup {<<t, t>> : t \in terms})
        inside == {p \in terms \X terms :
                    \E t \in terms : <<p[1], t>> \in equal
                                     /\ \E i \in DOMAIN t.args : <<t.args[i], p[2]>> \in equal}
    IN  /\ \A p \in equal : \/ IsVar(p[1]) \/ IsVar(p[2])
                            \/ p[1].h = p[2].h /\ Len(p[1].args) = Len(p[2].args)
        /\ \A p \in equal : p[1].h \in literals => IsVar(p[2]) \/ IsInt(p[2])
        /\ \A t \in terms : <<t, t>> \notin Closed(inside)

NoProjections ==
    \A i \in DOMAIN asked : \A t \in Terms(asked[i][1]) \cup Terms(asked[i][2]) : ~IsProj(t)

(* Without projections, unification fails, or ties a variable into a       *)
(* type that contains it, only if no types at all would make the pairs     *)
(* asked equal: the order they come in and the side a variable stands on   *)
(* do not matter.                                                          *)
FailsOnlyIfUnsolvable ==
    (status # "open" \/ Cyclic) /\ NoProjections => ~Solvable
=============================================================================
