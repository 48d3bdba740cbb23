----------------------------- MODULE MCBackend ------------------------------
(* The back end on the crates of MCCrates; see Backend.                      *)
EXTENDS Backend

C == INSTANCE MCCrates
MCStructs == LET structs == C!MCStructs IN structs
MCEnums == LET enums == C!MCEnums IN enums
MCImpls == LET impls == C!MCImpls IN impls
MCFuns == LET funs == C!MCFuns IN funs
MCCrates == LET crates == C!MCCrates IN crates
OrCrates == LET crates == C!OrCrates IN crates

R == INSTANCE Reference
MCMeanings ==
    LET entries == {Crates[i].entry : i \in DOMAIN Crates}
        meanings == [f \in entries |-> R!Meaning(f)]
    IN  meanings
=============================================================================
