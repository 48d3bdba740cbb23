----------------------------- MODULE MCRegions -----------------------------
(* 'static, the regions 1 and 2 of a signature, the regions 3 and 4 of the *)
(* body, and every body that imposes up to three of the edges in Pairs.    *)
EXTENDS Regions

Pairs == {e \in (1..4) \X (0..4) : e[1] # e[2] /\ (e[2] = STATIC => e[1] \in {1, 3})}

SmallGraphs ==
  {[n |-> 5, fixed |-> 0..2,
    declared |-> {<<STATIC, 1>>, <<STATIC, 2>>} \cup where, required |-> req] :
     where \in SUBSET {<<1, 2>>}, req \in {{e, f, g} : e, f, g \in Pairs} \cup {{}}}
=============================================================================
