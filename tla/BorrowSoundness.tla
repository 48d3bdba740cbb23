-------------------------- MODULE BorrowSoundness --------------------------
(***************************************************************************)
(* What borrows.rs is for: the functions it accepts are executed over      *)
(* every path, each local holding the borrows its value was made from, and *)
(* an access that conflicts with a borrow breaks it.  A broken borrow must *)
(* not be used any more.                                                   *)
(***************************************************************************)
EXTENDS Borrows

VARIABLES
  pc,     \* <<block, point>>, <<0, 0>> before the run
  held,   \* per local, {[loan, ok]}: ok until a conflicting access
  misused \* history: a local that holds a broken borrow was read

runVars == <<pc, held, misused>>

Running == pc # <<0, 0>>

AtTest == pc[2] = End(cfg, pc[1])

Stmt == cfg.stmts[pc[1]][pc[2]]

(* The locals whose value is used: those read, and a reference written     *)
(* through.                                                                *)
Through(s) == IF \E i \in 2..Len(s.dest) : s.dest[i] = "*" THEN {Root(s.dest)} ELSE {}

ReadBroken(L) == \E l \in L : \E h \in held[l] : ~ h.ok

(* The borrows that the accesses of s break: a write or a move breaks      *)
(* every borrow of an overlapping place, a read the mutable ones, a new    *)
(* borrow all of them or the mutable ones.                                 *)
BrokenBy(s, n) ==
  \/ Overlaps(n.pl, s.dest)
  \/ \E r \in s.reads : Overlaps(n.pl, r.pl) /\ (r.k = "move" \/ n.mut)
  \/ \E m \in s.loans : Overlaps(n.pl, m.pl) /\ (m.mut \/ n.mut)

After(s, H) == {[h EXCEPT !.ok = @ /\ ~ BrokenBy(s, h.loan)] : h \in H}

(* What the value assigned by s is made from.  A borrow of a place whose   *)
(* local holds borrows of its own (a reborrow) depends on those too.       *)
Made(s) ==
  {[loan |-> n, ok |-> TRUE] : n \in s.loans}
  \cup IF Root(s.dest) \in cfg.refs
       THEN UNION {After(s, held[l]) : l \in Sources(s) \cup {Root(n.pl) : n \in s.loans}}
       ELSE {}

Launch ==
  /\ Checked /\ errors = {} /\ ~ Running
  /\ pc' = <<cfg.entry, 1>>
  /\ UNCHANGED <<held, misused>>

Exec ==
  /\ Running /\ ~ AtTest
  /\ misused' = (misused \/ ReadBroken(Uses(cfg, pc[1], pc[2]) \cup Through(Stmt)))
  /\ held' = [l \in cfg.locals |->
                IF l # Root(Stmt.dest) THEN After(Stmt, held[l])
                ELSE Made(Stmt) \cup (IF IsLocal(Stmt.dest) THEN {} ELSE After(Stmt, held[l]))]
  /\ pc' = <<pc[1], pc[2] + 1>>

(* The terminator's operand is copied, then either branch is taken. *)
Jump ==
  /\ Running /\ AtTest
  /\ misused' = (misused \/ ReadBroken(Uses(cfg, pc[1], pc[2])))
  /\ held' = [l \in cfg.locals |->
                {[h EXCEPT !.ok = @ /\ ~ (/\ h.loan.mut
                                          /\ \E p \in cfg.tests[pc[1]] : Overlaps(h.loan.pl, p))] :
                   h \in held[l]}]
  /\ \E b \in Succs(cfg, pc[1]) : pc' = <<b, 1>>

SoundInit == Init /\ pc = <<0, 0>> /\ held = [l \in cfg.locals |-> {}] /\ misused = FALSE

SoundNext == \/ Next /\ UNCHANGED runVars
             \/ (Launch \/ Exec \/ Jump) /\ UNCHANGED vars

(* The check keeps on stepping; the program may run or not. *)
SoundSpec == SoundInit /\ [][SoundNext]_<<vars, runVars>> /\ WF_vars(Next)

-----------------------------------------------------------------------------
(* A run is at a point of the function, and its locals hold loans of it.   *)
SoundTypeOK ==
  /\ BorrowTypeOK
  /\ Running => pc[1] \in Blocks(cfg) /\ pc[2] \in 1..End(cfg, pc[1])
  /\ held \in [cfg.locals -> SUBSET [loan : LoansOf(cfg), ok : BOOLEAN]]
  /\ misused \in BOOLEAN

Statements(c) == UNION {{c.stmts[b][i] : i \in 1..Len(c.stmts[b])} : b \in Blocks(c)}

(* What the check relies on, and nothing enforces: no borrow of a place    *)
(* reached through a local that holds borrows (the reborrow is not tied to *)
(* them),                                                                  *)
NoReborrow == \A n \in LoansOf(cfg) : Root(n.pl) \notin cfg.refs

(* no write through a reference (liveness.rs does not count it as a use),  *)
NoWriteThrough == \A s \in Statements(cfg) : Through(s) = {}

(* no branch on a place that is borrowed (the operand is not checked).     *)
NoBorrowedTest ==
  \A b \in Blocks(cfg) : \A p \in cfg.tests[b] : \A n \in LoansOf(cfg) : ~ Overlaps(n.pl, p)

(* No accepted function uses a reference after the place it borrows was    *)
(* written, moved, read or borrowed in conflict with it, on any path.      *)
NoUseOfBroken ==
  OneCarrier /\ NoReborrow /\ NoWriteThrough /\ NoBorrowedTest => ~ misused

(* borrows.rs:330 says that a copy of a reference keeps its borrow alive   *)
(* as long as some live local carries it.                                  *)
CopiesKeepAlive == NoReborrow /\ NoWriteThrough /\ NoBorrowedTest => ~ misused
=============================================================================
