-------------------------- MODULE DropElaboration --------------------------
(***************************************************************************)
(* Scope-end drops.  layout.rs turns the move analysis's snapshot into one *)
(* DropAction per binding, codegen.rs emits the drop calls it asks for and *)
(* keeps an i32 flag per Flagged binding.  The emitted code is run over    *)
(* every path of an accepted function, next to the memory that run sees.   *)
(*                                                                         *)
(* A graph has three more fields here:                                     *)
(*   idx     the position of each local among its function's bindings      *)
(*   params  the locals that hold a value on entry                         *)
(*   exits   per block, the bindings whose drops codegen emits where the   *)
(*           block ends in a break, a continue or a return                 *)
(***************************************************************************)
EXTENDS MoveSoundness

(***************************************************************************)
(* What the lowering makes sure of on every path.  A span is what holds of *)
(* a local from an effect on it up to one that ends it, and on entry if it *)
(* is a parameter, or if it is none; F are blocks that are only entered    *)
(* while it holds.  To leave a scope by break, continue or return is to    *)
(* end the storage of its bindings.                                        *)
(***************************************************************************)
Storage == [from |-> {"init", "uninit", "bind"}, until |-> {"dead"}, params |-> TRUE]
Value   == [from |-> {"init", "bind"}, until |-> {"move", "uninit", "dead"}, params |-> TRUE]
Outside == [from |-> {"dead"}, until |-> {"init", "uninit", "bind"}, params |-> FALSE]

Begins(op, l, span) == op.k \in span.from /\ Root(op.pl) = l /\ IsLocal(op.pl)
Ends(op, l, span)   == op.k \in span.until /\ Root(op.pl) = l

Within(c, l, span, F, b, i) ==
  \/ \E j \in 1..(i - 1) : /\ Begins(c.ops[b][j], l, span)
                           /\ \A m \in (j + 1)..(i - 1) : ~ Ends(c.ops[b][m], l, span)
  \/ b \in F /\ \A m \in 1..(i - 1) : ~ Ends(c.ops[b][m], l, span)

LeftWithin(c, l, span, F, b) ==
  IF l \in c.exits[b] THEN "dead" \in span.from ELSE Within(c, l, span, F, b, Len(c.ops[b]) + 1)

EnteredWithin(c, l, span, F) ==
  \A b \in F : /\ b = c.entry => (l \in c.params) = span.params
              /\ \A a \in Preds(c, b) : LeftWithin(c, l, span, F, a)

OnEveryPath(c, l, span, b, i) ==
  \E F \in SUBSET Blocks(c) : EnteredWithin(c, l, span, F) /\ Within(c, l, span, F, b, i)

(* pop_scope ends the storage of bindings that have been declared; lower_let *)
(* has stored the value when the binding goes live, and codegen has met its  *)
(* declaration after that of any binding of the same name still in scope.    *)
DropCfgOK(c) ==
  /\ c.idx \in [DOMAIN c.decl -> Nat]
  /\ \A l \in c.params : l \in DOMAIN c.decl /\ Named(c, l)
  /\ \A b \in Blocks(c) : \A l \in c.exits[b] : l \in DOMAIN c.decl /\ Named(c, l)
  /\ \A b \in Blocks(c) : \A i \in 1..Len(c.ops[b]) :
       LET op == c.ops[b][i]
           l  == Root(op.pl)
       IN  /\ op.k \in {"uninit", "bind", "live", "dead"} => IsLocal(op.pl)
           /\ op.k = "dead" => OnEveryPath(c, l, Storage, b, i)
           /\ op.k = "live" =>
                /\ OnEveryPath(c, l, Value, b, i)
                /\ \A k \in DOMAIN c.decl \ {l} :
                     c.decl[k].name = c.decl[l].name /\ OnEveryPath(c, k, Storage, b, i)
                       => c.idx[k] < c.idx[l]

ASSUME DropCfgsOK == \A c \in Cfgs : DropCfgOK(c)

VARIABLES
  full,    \* the leaves of owning bindings that hold a value
  flags,   \* drop_flags: the flag of each Flagged binding
  faults   \* history: "double" (an absent value is dropped), "leak" (a value is
           \* never dropped), "overwrite" (an assignment discards the old value)

dropVars == <<full, flags, faults>>

(***************************************************************************)
(* compute_drop_action: the entry of moved_places is looked up by NAME.    *)
(***************************************************************************)
NameOf(l) == cfg.decl[l].name

Entries(name) == {i \in 1..Len(movedLocals) : NameOf(movedLocals[i].local) = name}

First(S) == {i \in S : \A k \in S : i <= k}

(* Mutant of DropAction: MaybeMoved is treated as Moved. *)
DropActionNoFlag(l) ==
  IF Owning(l) /\ Entries(NameOf(l)) = {} THEN "Always" ELSE "Skip"

DropAction(l) ==
  IF ~ Owning(l) THEN "Skip"
  ELSE IF Entries(NameOf(l)) = {} THEN "Always"
  ELSE IF \E i \in First(Entries(NameOf(l))) : movedLocals[i].status = "MaybeMoved"
  THEN "Flagged" ELSE "Skip"

Bindings == {l \in DOMAIN cfg.decl : Named(cfg, l)}

Flagged == {l \in Bindings : DropAction(l) = "Flagged"}

(* A flag is kept for a Flagged parameter and for a Flagged let, with an    *)
(* initialiser or without; the bindings of a pattern have none.            *)
Occurs(k, l) == \E b \in Blocks(cfg) : \E i \in 1..Len(cfg.ops[b]) :
                  cfg.ops[b][i].k = k /\ Root(cfg.ops[b][i].pl) = l

HasFlag(l) == l \in cfg.params \/ Occurs("live", l) \/ Occurs("uninit", l)

(* lookup_drop_flag: the first flag pushed under that name. *)
FlagOf(name) ==
  {l \in Flagged : /\ HasFlag(l) /\ NameOf(l) = name
                   /\ \A k \in Flagged : HasFlag(k) /\ NameOf(k) = name
                        => cfg.idx[l] <= cfg.idx[k]}

FlagSet(l) == \E k \in FlagOf(NameOf(l)) : flags[k] = 1

(* emit_drops_for_locals_range: the bindings of S that are dropped now. *)
Dropped(S) ==
  {l \in S : DropAction(l) = "Always" \/ (DropAction(l) = "Flagged" /\ FlagSet(l))}

LeavesOf(S) == {p \in cfg.leaves : Root(p) \in S}

(* The bindings of S leave their scopes: the chosen ones are dropped, and  *)
(* every leaf of due should have been among theirs.                        *)
Release(S, due) ==
  LET dropped == LeavesOf(Dropped(S))
  IN  /\ faults' = faults \cup {f \in {"double", "leak"} :
                                  \/ f = "double" /\ ~ dropped \subseteq full
                                  \/ f = "leak" /\ ~ due \subseteq dropped}
      /\ full' = full \ (LeavesOf(S) \cup due)
      /\ UNCHANGED flags

EndScopes(S) == Release(S, full \cap LeavesOf(S))

(***************************************************************************)
(* The emitted code                                                        *)
(***************************************************************************)
OwningUnder(p) == {l \in Under(p) : Owning(Root(l)) /\ Named(cfg, Root(l))}

(* Mutant of MoveOut: the read does not clear the flag. *)
MoveOutKeepsFlag(op) ==
  /\ full' = full \ Under(op.pl)
  /\ UNCHANGED <<flags, faults>>

(* A read of a whole binding that the analysis saw move it clears the flag *)
(* of its name.                                                            *)
MoveOut(op) ==
  LET name    == NameOf(Root(op.pl))
      cleared == IF IsLocal(op.pl) /\ [node |-> op.node, name |-> name] \in sites
                 THEN FlagOf(name) ELSE {}
  IN  /\ full' = full \ Under(op.pl)
      /\ flags' = [l \in DOMAIN flags |-> IF l \in cleared THEN 0 ELSE flags[l]]
      /\ UNCHANGED faults

(* codegen_mono_assign overwrites: it neither drops the old value nor sets *)
(* the flag.                                                               *)
Store(op) ==
  /\ full' = full \cup OwningUnder(op.pl)
  /\ faults' = faults \cup {f \in {"overwrite"} : full \cap OwningUnder(op.pl) # {}}
  /\ UNCHANGED flags

SetFlag(op, v) ==
  /\ flags' = [flags EXCEPT ![Root(op.pl)] = v]
  /\ UNCHANGED <<full, faults>>

DropExec ==
  /\ Exec
  /\ LET op == CurrentOp IN
       \/ op.k = "move" /\ MoveOut(op)
       \/ op.k \in {"init", "bind"} /\ Store(op)
       \/ op.k = "live" /\ SetFlag(op, 1)
       \/ op.k = "uninit" /\ SetFlag(op, 0)
       \/ op.k = "dead" /\ EndScopes({Root(op.pl)} \cap Bindings)
       \/ /\ op.k \notin {"move", "init", "bind", "live", "uninit", "dead"}
          /\ UNCHANGED dropVars

(* The prologue sets the flags of the parameters.  No code is emitted for a *)
(* function with a Flagged binding and no flag of its name: codegen panics. *)
DropLaunch ==
  /\ Launch
  /\ \A l \in Flagged : FlagOf(NameOf(l)) # {}
  /\ full' = {p \in cfg.leaves : Root(p) \in cfg.params /\ Owning(Root(p))}
  /\ flags' = [l \in DOMAIN cfg.decl |-> IF l \in cfg.params THEN 1 ELSE 0]
  /\ faults' = {}

DropJump == Jump /\ EndScopes(cfg.exits[pc[1]])

(* Return: whatever is still full is due. *)
Return ==
  /\ Running /\ ~ AtOp /\ Succs(cfg, pc[1]) = {}
  /\ pc' = <<0, 0>>
  /\ Release(cfg.exits[pc[1]], full)
  /\ UNCHANGED holes

DropInit == SoundInit /\ full = {} /\ flags = [l \in DOMAIN cfg.decl |-> 0] /\ faults = {}

DropNext == \/ Next /\ UNCHANGED <<runVars, dropVars>>
            \/ (DropLaunch \/ DropExec \/ DropJump \/ Return) /\ UNCHANGED vars

DropSpec == DropInit /\ [][DropNext]_<<vars, runVars, dropVars>>

-----------------------------------------------------------------------------
(* What the elaboration relies on, and nothing checks:                     *)
(* where a function leaves scopes by break, continue or return, it drops   *)
(* bindings that are in scope, and those that a move is known of are       *)
(* listed, as if the snapshot were taken there too,                        *)
MarkedAtEnd(b, l) == {q \in Present(blockOut[b]) : Root(q) = l}

ExitsListed ==
  \A b \in Blocks(cfg) : \A l \in cfg.exits[b] : Owning(l) =>
    /\ OnEveryPath(cfg, l, Storage, b, Len(cfg.ops[b]) + 1)
    /\ MarkedAtEnd(b, l) # {} => DropAction(l) # "Always"

(* and those that it does not drop have been moved there,                  *)
ExitsAgree ==
  \A b \in Blocks(cfg) : \A l \in cfg.exits[b] : Owning(l) /\ DropAction(l) = "Skip" =>
    \E q \in MarkedAtEnd(b, l) : blockOut[b][q] \in Definite

(* whose bindings are moved as a whole,                                    *)
WholeMoves ==
  \A b \in Blocks(cfg) : \A i \in 1..Len(cfg.ops[b]) :
    LET op == cfg.ops[b][i]
    IN  op.k = "move" /\ Root(op.pl) \in Bindings => IsLocal(op.pl) /\ op.node # 0

(* whose flagged bindings have their flags, and use no other binding's     *)
(* flag while they have no value,                                          *)
FlagsKept ==
  \A l \in Flagged :
    HasFlag(l) /\ (Occurs("uninit", l) => FlagOf(NameOf(l)) \subseteq {l})

(* have names of their own,                                                *)
DistinctNames == \A k, l \in Bindings : NameOf(k) = NameOf(l) => k = l

(* get their value from their let where a flag is kept for them, and are   *)
(* otherwise assigned as a whole,                                          *)
FlaggedByLet ==
  \A b \in Blocks(cfg) : \A i \in 1..Len(cfg.ops[b]) :
    LET op   == cfg.ops[b][i]
        next == cfg.ops[b][i + 1]
    IN  /\ op.k = "init" /\ Root(op.pl) \in Flagged
          => i < Len(cfg.ops[b]) /\ next.k = "live" /\ Root(next.pl) = Root(op.pl)
        /\ op.k \in {"uninit", "bind"} => Root(op.pl) \notin Flagged

WholeStores == \A l \in Bindings : Owning(l) => ~ Refilled(l)

(* and are in no scope where they are declared, or where the function      *)
(* stops without dropping them.                                            *)
ScopesEnd ==
  \A b \in Blocks(cfg) : \A l \in Bindings : Owning(l) =>
    /\ Succs(cfg, b) = {} /\ l \notin cfg.exits[b]
         => OnEveryPath(cfg, l, Outside, b, Len(cfg.ops[b]) + 1)
    /\ \A i \in 1..Len(cfg.ops[b]) :
         cfg.ops[b][i].k = "uninit" /\ Root(cfg.ops[b][i].pl) = l
           => OnEveryPath(cfg, l, Outside, b, i)

Plain == /\ ExitsListed /\ ExitsAgree /\ WholeMoves /\ DistinctNames
         /\ FlaggedByLet /\ WholeStores /\ ScopesEnd

(* Why: within its storage the leaves of a binding are full or holes, as    *)
(* the move analysis sees them; they are full while the analysis has seen  *)
(* no move of the value, and while the flag its drop will read is set.     *)
Here(l, span) == OnEveryPath(cfg, l, span, pc[1], pc[2])

Held(l) ==
  /\ Here(l, Value) => LeavesOf({l}) \subseteq full
  /\ Here(l, Storage) => LeavesOf({l}) \subseteq full \cup holes
  /\ Here(l, Storage) /\ l \in Flagged /\ FlagSet(l) => LeavesOf({l}) \subseteq full

DropInv ==
  /\ phase # "done" => faults = {}
  /\ flags \in [DOMAIN cfg.decl -> {0, 1}]
  /\ ExitsListed /\ WholeMoves /\ FlagsKept =>
       /\ "double" \notin faults
       /\ Running => \A l \in Bindings : Owning(l) => Held(l)

(* Why nothing is left: a binding is empty out of its storage, where the   *)
(* analysis has it moved or uninitialised on every path, and while its     *)
(* flag is clear, up to the effect that sets it after the let's store.     *)
Void(l) == full \cap LeavesOf({l}) = {}

Emptied(l) ==
  /\ Here(l, Outside) => Void(l)
  /\ \A q \in cfg.places :
       Root(q) = l /\ before[pc[1]][pc[2]][q] \in Definite => Void(l)
  /\ l \in Flagged /\ flags[l] = 0 /\ ~ (AtOp /\ CurrentOp.k = "live" /\ Root(CurrentOp.pl) = l)
       => Void(l)

OnceInv ==
  /\ faults \subseteq {"double", "leak", "overwrite"}
  /\ Running \/ faults # {} => \A l \in Flagged : FlagOf(NameOf(l)) # {}
  /\ full \subseteq LeavesOf({l \in Bindings : Owning(l)})
  /\ Plain => /\ "leak" \notin faults
              /\ Running => \A l \in Bindings : Owning(l) => Emptied(l)

(* No value is dropped twice, nor dropped after it was moved: even when    *)
(* bindings share a name, and with it an entry and a flag.                 *)
NoDoubleDrop == ExitsListed /\ WholeMoves /\ FlagsKept => "double" \notin faults

(* Every value a binding ever holds is moved out or dropped, exactly once, *)
(* unless an assignment overwrites it.                                     *)
DropExactlyOnce == Plain => faults \subseteq {"overwrite"}

(* The bindings whose drop, if any, comes next. *)
Ending(l) == AtScopeEnd(l) \/ (Running /\ ~ AtOp /\ l \in cfg.exits[pc[1]])

Whole(l) == LeavesOf({l}) \subseteq full

(* layout.rs:12 says Always is for a binding that was never moved.         *)
AlwaysMeansNeverMoved ==
  \A l \in Bindings : Ending(l) /\ DropAction(l) = "Always" => Whole(l)

(* layout.rs:10 says Skip is for a binding moved on every path.            *)
SkipMeansMoved ==
  \A l \in Bindings : Ending(l) /\ Owning(l) /\ DropAction(l) = "Skip" => ~ Whole(l)
=============================================================================
