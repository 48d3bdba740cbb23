---------------------------- MODULE BorrowProofs ----------------------------
(***************************************************************************)
(* The borrow check of borrows.rs is sound, for every set of functions:    *)
(* once it has accepted a function, no run of it, over any path, uses a    *)
(* reference after its borrow was broken.  borrows.rs walks sequences, so  *)
(* the proofs begin with what its loops over them compute.                 *)
(***************************************************************************)
EXTENDS BorrowSoundness, LoopProofs

(***************************************************************************)
(* Liveness: the backward worklist of liveness.rs computes exactly the     *)
(* live locals, for every set of graphs and every order of visits.         *)
(***************************************************************************)
(* The two halves of the invariant: a block that is not queued agrees with *)
(* its successors, and nothing is called live without a path that reads it.*)
Agrees(b) ==
  /\ liveOut[b] = UNION {liveIn[s] : s \in Succs(cfg, b)}
  /\ liveIn[b] = LiveBefore(cfg, b, 1, liveOut[b])

Settled == \A b \in Blocks(cfg) \ queued : Agrees(b)

Founded ==
  \A l \in cfg.locals : \A S \in SUBSET Blocks(cfg) :
    LiveFrom(l, S) => LiveAtStart(l) \subseteq S

LiveIInv == LiveTypeOK /\ Settled /\ Founded

(* Successors and predecessors are blocks. *)
LEMMA EdgesInBlocks ==
  ASSUME cfg \in Cfgs, NEW b \in Blocks(cfg)
  PROVE  Succs(cfg, b) \subseteq Blocks(cfg) /\ Preds(cfg, b) \subseteq Blocks(cfg)
<1>1. cfg.succ[b] \in Seq(Blocks(cfg))
  BY CfgsOK DEF CfgOK
<1>2. QED
  BY <1>1 DEF Succs, Preds

(* The result of a block's transfer is a set of locals. *)
LEMMA TransferIsLocals ==
  ASSUME NEW b, NEW out
  PROVE  LiveBefore(cfg, b, 1, out) \subseteq cfg.locals
BY DEF LiveBefore

(* LiveBefore is the backward walk of transfer_stmt: what a point uses is  *)
(* added after what it kills is removed.                                   *)
LEMMA LiveBeforeIsBackward ==
  ASSUME NEW c, NEW b, NEW out, NEW i \in Nat, End(c, b) \in Nat, i <= End(c, b),
         Uses(c, b, i) \subseteq c.locals, out \subseteq c.locals
  PROVE  LiveBefore(c, b, i, out) =
           Uses(c, b, i) \cup
             ((IF i = End(c, b) THEN out ELSE LiveBefore(c, b, i + 1, out)) \ Kills(c, b, i))
<1> DEFINE N == End(c, b)
           U(j) == Uses(c, b, j)
           K(j) == Kills(c, b, j)
           ReadLater(l, m) == \E j \in m..N : l \in U(j) /\ \A h \in m..(j - 1) : l \notin K(h)
           Survives(l, m) == l \in out /\ \A h \in m..N : l \notin K(h)
<1>0. \A m : LiveBefore(c, b, m, out) = {l \in c.locals : ReadLater(l, m) \/ Survives(l, m)}
  BY DEF LiveBefore
<1>1. U(i) \subseteq c.locals /\ N \in Nat /\ i <= N
  OBVIOUS
<1> HIDE DEF N, U, K
<1>2. ASSUME NEW l, l \in U(i)
      PROVE  ReadLater(l, i)
  BY <1>1, <1>2
<1>3. ASSUME NEW l, l \notin U(i)
      PROVE  ReadLater(l, i) <=> i # N /\ l \notin K(i) /\ ReadLater(l, i + 1)
  <2>1. ASSUME ReadLater(l, i)
        PROVE  i # N /\ l \notin K(i) /\ ReadLater(l, i + 1)
    <3>1. PICK j \in i..N : l \in U(j) /\ \A h \in i..(j - 1) : l \notin K(h)
      BY <2>1
    <3>2. j # i
      BY <1>3, <3>1
    <3> QED BY <1>1, <3>1, <3>2
  <2>2. ASSUME i # N, l \notin K(i), ReadLater(l, i + 1)
        PROVE  ReadLater(l, i)
    <3>1. PICK j \in (i + 1)..N : l \in U(j) /\ \A h \in (i + 1)..(j - 1) : l \notin K(h)
      BY <2>2
    <3>2. \A h \in i..(j - 1) : h = i \/ h \in (i + 1)..(j - 1)
      BY <1>1
    <3> QED BY <1>1, <2>2, <3>1, <3>2
  <2> QED BY <2>1, <2>2
<1>4. ASSUME NEW l
      PROVE  Survives(l, i) <=>
               l \notin K(i) /\ (IF i = N THEN l \in out ELSE Survives(l, i + 1))
  <2>1. \A h \in i..N : h = i \/ h \in (i + 1)..N
    BY <1>1
  <2>2. i \in i..N /\ \A h \in (i + 1)..N : h \in i..N /\ i # N
    BY <1>1
  <2> QED BY <2>1, <2>2
<1> HIDE DEF ReadLater, Survives
<1>5. CASE i = N
  <2>1. LiveBefore(c, b, i, out) = U(i) \cup (out \ K(i))
    BY <1>0, <1>1, <1>2, <1>3, <1>4, <1>5
  <2> QED BY <1>5, <2>1 DEF N, U, K
<1>6. CASE i # N
  <2>1. LiveBefore(c, b, i, out) = U(i) \cup (LiveBefore(c, b, i + 1, out) \ K(i))
    BY <1>0, <1>1, <1>2, <1>3, <1>4, <1>6
  <2> QED BY <1>6, <2>1 DEF N, U, K
<1> QED BY <1>5, <1>6

(* A visit keeps the variables well formed. *)
LEMMA VisitType ==
  ASSUME LiveTypeOK, NEW b \in queued, Visit(b)
  PROVE  LiveTypeOK'
<1> DEFINE out == UNION {liveIn[s] : s \in Succs(cfg, b)}
           in == LiveBefore(cfg, b, 1, out)
<1>1. b \in Blocks(cfg) /\ cfg \in Cfgs /\ cfg' = cfg /\ Blocks(cfg)' = Blocks(cfg)
  BY DEF LiveTypeOK, Visit
<1>2. Succs(cfg, b) \subseteq Blocks(cfg) /\ Preds(cfg, b) \subseteq Blocks(cfg)
  BY <1>1, EdgesInBlocks
<1>3. out \subseteq cfg.locals
  BY <1>2 DEF LiveTypeOK
<1>4. in \subseteq cfg.locals
  BY TransferIsLocals
<1>5. /\ liveOut' = [liveOut EXCEPT ![b] = out]
      /\ liveIn' = [liveIn EXCEPT ![b] = in]
      /\ queued' = (queued \ {b}) \cup (IF in = liveIn[b] THEN {} ELSE Preds(cfg, b))
  BY DEF Visit
<1> HIDE DEF out, in
<1>6. QED
  BY <1>1, <1>2, <1>3, <1>4, <1>5 DEF LiveTypeOK

(* A visit makes its block agree, and unsettles only what it requeues. *)
LEMMA VisitSettled ==
  ASSUME LiveIInv, NEW b \in queued, Visit(b)
  PROVE  Settled'
<1> DEFINE out == UNION {liveIn[s] : s \in Succs(cfg, b)}
           in == LiveBefore(cfg, b, 1, out)
<1>1. b \in Blocks(cfg) /\ cfg \in Cfgs /\ cfg' = cfg
  BY DEF LiveIInv, LiveTypeOK, Visit
<1>2. /\ liveOut' = [liveOut EXCEPT ![b] = out]
      /\ liveIn' = [liveIn EXCEPT ![b] = in]
      /\ queued' = (queued \ {b}) \cup (IF in = liveIn[b] THEN {} ELSE Preds(cfg, b))
  BY DEF Visit
<1>3. liveIn \in [Blocks(cfg) -> SUBSET cfg.locals] /\ liveOut \in [Blocks(cfg) -> SUBSET cfg.locals]
  BY DEF LiveIInv, LiveTypeOK
<1>4. liveOut'[b] = out /\ liveIn'[b] = in
  BY <1>1, <1>2, <1>3
<1>5. ASSUME NEW a \in Blocks(cfg), a \notin queued'
      PROVE  \A s \in Succs(cfg, a) : liveIn'[s] = liveIn[s]
  <2>1. CASE in = liveIn[b]
    BY <1>2, <1>3, <2>1
  <2>2. CASE in # liveIn[b]
    <3>1. b \notin Succs(cfg, a)
      BY <1>2, <1>5, <2>2 DEF Preds
    <3>2. QED
      BY <1>2, <1>3, <3>1
  <2>3. QED
    BY <2>1, <2>2
<1>6. ASSUME NEW a \in Blocks(cfg), a \notin queued'
      PROVE  UNION {liveIn'[s] : s \in Succs(cfg, a)} = UNION {liveIn[s] : s \in Succs(cfg, a)}
  BY <1>5, <1>6
<1>7. ASSUME NEW a \in Blocks(cfg), a \notin queued'
      PROVE  /\ liveOut'[a] = UNION {liveIn'[s] : s \in Succs(cfg, a)}
             /\ liveIn'[a] = LiveBefore(cfg, a, 1, liveOut'[a])
  <2>1. CASE a = b
    <3>1. UNION {liveIn'[s] : s \in Succs(cfg, b)} = out
      BY <1>6, <1>7, <2>1
    <3> HIDE DEF out
    <3>2. QED
      BY <1>4, <2>1, <3>1
  <2>2. CASE a # b
    <3>1. a \notin queued
      BY <1>2, <1>7, <2>2
    <3>2. liveOut[a] = UNION {liveIn[s] : s \in Succs(cfg, a)} /\ liveIn[a] = LiveBefore(cfg, a, 1, liveOut[a])
      BY <3>1 DEF LiveIInv, Settled, Agrees
    <3>3. liveOut'[a] = liveOut[a] /\ liveIn'[a] = liveIn[a]
      <4> HIDE DEF out, in
      <4> QED
        BY <1>1, <1>2, <1>3, <2>2
    <3>4. UNION {liveIn'[s] : s \in Succs(cfg, a)} = UNION {liveIn[s] : s \in Succs(cfg, a)}
      BY <1>6, <1>7
    <3>5. QED
      BY <3>2, <3>3, <3>4
  <2>3. QED
    BY <2>1, <2>2
<1>8. QED
  BY <1>1, <1>7 DEF Settled, Agrees

(* What a visit adds is read on a path that starts at its block. *)
LEMMA VisitFounded ==
  ASSUME LiveIInv, NEW b \in queued, Visit(b)
  PROVE  Founded'
<1> DEFINE out == UNION {liveIn[s] : s \in Succs(cfg, b)}
           in == LiveBefore(cfg, b, 1, out)
<1>1. b \in Blocks(cfg) /\ cfg \in Cfgs /\ cfg' = cfg
  BY DEF LiveIInv, LiveTypeOK, Visit
<1>2. liveIn' = [liveIn EXCEPT ![b] = in]
  BY DEF Visit
<1>3. liveIn \in [Blocks(cfg) -> SUBSET cfg.locals]
  BY DEF LiveIInv, LiveTypeOK
<1>4. SUFFICES ASSUME NEW l \in cfg.locals, NEW S \in SUBSET Blocks(cfg), LiveFrom(l, S),
                      NEW a \in Blocks(cfg), l \in liveIn'[a]
               PROVE  a \in S
  BY <1>1 DEF Founded, LiveAtStart, LiveFrom, ReadsFirst, Overwrites
<1>5. LiveAtStart(l) \subseteq S
  BY <1>4 DEF LiveIInv, Founded
<1>6. CASE a # b
  <2>1. l \in liveIn[a]
    BY <1>2, <1>3, <1>4, <1>6
  <2>2. QED
    BY <1>5, <2>1 DEF LiveAtStart
<1>7. CASE a = b
  <2>1. l \in in
    BY <1>1, <1>2, <1>3, <1>4, <1>7
  <2>2. ReadsFirst(l, b) \/ (l \in out /\ ~ Overwrites(l, b))
    BY <2>1 DEF LiveBefore, ReadsFirst, Overwrites
  <2>3. l \in out => Succs(cfg, b) \cap S # {}
    <3>1. SUFFICES ASSUME NEW s \in Succs(cfg, b), l \in liveIn[s] PROVE s \in S
      OBVIOUS
    <3>2. s \in Blocks(cfg)
      BY <1>1, EdgesInBlocks
    <3>3. QED
      BY <1>5, <3>1, <3>2 DEF LiveAtStart
  <2>4. QED
    BY <1>1, <1>4, <1>7, <2>2, <2>3 DEF LiveFrom
<1>8. QED
  BY <1>6, <1>7

(* The invariant holds of every behaviour of the worklist. *)
THEOREM LivenessInvariant == LiveSpec => []LiveIInv
<1>1. LiveInit => LiveIInv
  <2> SUFFICES ASSUME LiveInit PROVE LiveIInv
    OBVIOUS
  <2>1. LiveTypeOK
    BY DEF LiveInit, LiveTypeOK
  <2>2. Settled
    BY DEF LiveInit, Settled
  <2>3. Founded
    BY DEF LiveInit, Founded, LiveAtStart
  <2>4. QED
    BY <2>1, <2>2, <2>3 DEF LiveIInv
<1>2. LiveIInv /\ [LiveNext]_<<cfg, liveVars>> => LiveIInv'
  <2> SUFFICES ASSUME LiveIInv, [LiveNext]_<<cfg, liveVars>> PROVE LiveIInv'
    OBVIOUS
  <2>1. ASSUME NEW b \in queued, Visit(b) PROVE LiveIInv'
    <3>1. LiveTypeOK'
      BY <2>1, VisitType DEF LiveIInv
    <3>2. Settled' /\ Founded'
      BY <2>1, VisitSettled, VisitFounded
    <3>3. QED
      BY <3>1, <3>2 DEF LiveIInv
  <2>2. CASE UNCHANGED <<cfg, liveVars>>
    BY <2>2 DEF liveVars, LiveIInv, LiveTypeOK, Settled, Agrees, Founded, LiveAtStart, LiveFrom,
                ReadsFirst, Overwrites
  <2>3. QED
    BY <2>1, <2>2 DEF LiveNext
<1>3. QED
  BY <1>1, <1>2, PTL DEF LiveSpec

(* liveness.rs computes, for every graph and in whatever order the blocks  *)
(* are visited, the locals read on some forward path before being          *)
(* overwritten, and no others.                                             *)
THEOREM LivenessExact == LiveSpec => []LiveExact
<1>1. LiveIInv => LiveExact
  <2> SUFFICES ASSUME LiveIInv, LivenessDone PROVE LiveExact
    BY DEF LiveExact
  <2>1. \A b \in Blocks(cfg) : Agrees(b)
    BY DEF LiveIInv, Settled, LivenessDone
  <2>2. ASSUME NEW l \in cfg.locals PROVE LiveFrom(l, LiveAtStart(l))
    <3>1. SUFFICES ASSUME NEW b \in Blocks(cfg),
                          \/ ReadsFirst(l, b)
                          \/ ~ Overwrites(l, b) /\ Succs(cfg, b) \cap LiveAtStart(l) # {}
                   PROVE  l \in liveIn[b]
      BY DEF LiveFrom, LiveAtStart
    <3>2. liveIn[b] = LiveBefore(cfg, b, 1, liveOut[b])
      BY <2>1 DEF Agrees
    <3>3. CASE ReadsFirst(l, b)
      BY <3>2, <3>3 DEF ReadsFirst, LiveBefore
    <3>4. CASE ~ Overwrites(l, b) /\ Succs(cfg, b) \cap LiveAtStart(l) # {}
      <4>1. PICK s \in Succs(cfg, b) : l \in liveIn[s]
        BY <3>4 DEF LiveAtStart
      <4>2. l \in liveOut[b]
        BY <2>1, <4>1 DEF Agrees
      <4>3. QED
        BY <3>2, <3>4, <4>2 DEF LiveBefore, Overwrites
    <3>5. QED
      BY <3>1, <3>3, <3>4
  <2>3. QED
    BY <2>1, <2>2 DEF LiveExact, LiveIInv, Founded, Agrees
<1>2. QED
  BY <1>1, LivenessInvariant, PTL

(***************************************************************************)
(* The invariant of the check and of the runs it accepts                   *)
(***************************************************************************)
(* apply_block on block b of c: the state after each of its statements,    *)
(* from the state start, out being the locals live after the block.        *)
Walk(c, out, b, start) ==
  LET at[i \in 0..Len(c.stmts[b])] ==
        IF i = 0 THEN start
        ELSE LET before == at[i - 1]
             IN  Prune(WithNew(c, c.stmts[b][i], before), LiveBefore(c, b, i + 1, out))
  IN  at

StateAt(b) == Walk(cfg, liveOut[b], b, Merge(cfg, borrowsOut, b))

AtExit(b) == StateAt(b)[Len(cfg.stmts[b])]

(* No statement of b before point p conflicts with what is active there.   *)
NoConflict(b, p) ==
  \A i \in 1..(p - 1) : Conflicts(cfg, cfg.stmts[b][i], StateAt(b)[i - 1]) = {}

Known(A) == \A e \in Entries(A) : [id |-> e.loan.id, dest |-> e.dest] \in carriers

(* The last visit of b found nothing, and saw the state b has now.         *)
Visited(b) ==
  /\ errors = {} => NoConflict(b, End(cfg, b))
  /\ Known(AtExit(b))
  /\ Ids(AtExit(b)) \subseteq Ids(borrowsOut[b])

(* The worklist: a block that is not on it was visited since any of its    *)
(* predecessors changed.                                                   *)
CheckInv ==
  /\ ~ LivenessDone => cur = 0 /\ Blocks(cfg) \subseteq Entries(work)
  /\ cur # 0 => /\ LivenessDone
                /\ active = StateAt(cur)[pos - 1]
                /\ errors = {} => NoConflict(cur, pos)
  /\ \A b \in Blocks(cfg) : b \in Entries(work) \/ b = cur \/ Visited(b)
  /\ \A b \in Blocks(cfg) : Known(borrowsOut[b])

Premises == OneCarrier /\ NoReborrow /\ NoWriteThrough /\ NoBorrowedTest

LiveHere == LiveBefore(cfg, pc[1], pc[2], liveOut[pc[1]])

(* What a local holds is not broken while the local is live, and the check *)
(* knows that it holds it.                                                 *)
Covered ==
  \A l \in LiveHere : \A h \in held[l] :
    h.ok /\ [loan |-> h.loan, dest |-> l] \in Entries(StateAt(pc[1])[pc[2] - 1])

RunInv ==
  /\ Running => Checked /\ errors = {}
  /\ ~ Running => ~ misused /\ \A l \in cfg.locals : held[l] = {}
  /\ Running /\ Premises =>
       /\ ~ misused
       /\ \A l \in cfg.locals : held[l] # {} => l \in cfg.refs
       /\ Covered

Inv == SoundTypeOK /\ LiveIInv /\ CheckInv /\ RunInv

(***************************************************************************)
(* Loops over sequences                                                    *)
(***************************************************************************)
LEMMA EntriesAppend ==
  ASSUME NEW E, NEW A \in Seq(E), NEW e \in E
  PROVE  Append(A, e) \in Seq(E) /\ Entries(Append(A, e)) = Entries(A) \cup {e}
<1>1. Append(A, e) \in Seq(E) /\ Len(Append(A, e)) = Len(A) + 1
  OBVIOUS
<1>2. \A i \in 1..Len(A) : Append(A, e)[i] = A[i]
  OBVIOUS
<1>3. Append(A, e)[Len(A) + 1] = e /\ Len(A) \in Nat
  OBVIOUS
<1> DEFINE B == Append(A, e)
<1> HIDE DEF B
<1>4. Entries(B) \subseteq Entries(A) \cup {e}
  BY <1>1, <1>2, <1>3 DEF Entries, B
<1>5. Entries(A) \subseteq Entries(B) /\ e \in Entries(B)
  BY <1>1, <1>2, <1>3 DEF Entries, B
<1>6. QED
  BY <1>1, <1>4, <1>5 DEF B

(* A union keeps the entries of its first part, adds some of the second,   *)
(* and names every region of both.                                         *)
LEMMA UnionFacts ==
  ASSUME NEW E, NEW A \in Seq(E), NEW B \in Seq(E)
  PROVE  /\ UnionWith(A, B) \in Seq(E)
         /\ Entries(A) \subseteq Entries(UnionWith(A, B))
         /\ Entries(UnionWith(A, B)) \subseteq Entries(A) \cup Entries(B)
         /\ Ids(B) \subseteq Ids(UnionWith(A, B))
<1> DEFINE len == Len(B)
           Then(i, acc) == IF B[i].loan.id \in Ids(acc) THEN acc ELSE Append(acc, B[i])
           Rec(f) == f = [i \in 0..len |-> IF i = 0 THEN A ELSE Then(i, f[i - 1])]
           u == CHOOSE f : Rec(f)
           All == Seq(E)
           step == [i \in 1..len |-> [acc \in All |-> Then(i, acc)]]
<1>1. UnionWith(A, B) = u[len]
  BY DEF UnionWith
<1>2. len \in Nat /\ (\A i \in 1..len : B[i] \in E) /\ Entries(B) = {B[i] : i \in 1..len}
  BY DEF Entries
<1>3. ASSUME NEW i \in 1..len, NEW acc \in All
      PROVE  /\ Then(i, acc) \in All
             /\ Entries(acc) \subseteq Entries(Then(i, acc))
             /\ Entries(Then(i, acc)) \subseteq Entries(acc) \cup Entries(B)
             /\ B[i].loan.id \in Ids(Then(i, acc))
  <2>1. B[i] \in E /\ B[i] \in Entries(B)
    BY <1>2
  <2>2. CASE B[i].loan.id \in Ids(acc)
    <3>1. Then(i, acc) = acc
      BY <2>2
    <3> HIDE DEF Then
    <3> QED BY <2>2, <3>1
  <2>3. CASE B[i].loan.id \notin Ids(acc)
    <3>1. Then(i, acc) = Append(acc, B[i])
      BY <2>3
    <3>2. Then(i, acc) \in All /\ Entries(Then(i, acc)) = Entries(acc) \cup {B[i]}
      BY <2>1, <3>1, EntriesAppend
    <3> HIDE DEF Then
    <3> QED BY <2>1, <3>2 DEF Ids
  <2> QED BY <2>2, <2>3
<1>4. A \in All
  OBVIOUS
<1> HIDE DEF Then, len, All, u, Rec
<1>5. AreSteps(step, len, All)
  BY <1>3 DEF AreSteps
<1> HIDE DEF step
<1>6. PICK f : Iterates(f, A, step, len, All)
  BY <1>2, <1>4, <1>5, Iteration
<1>7. Rec(f)
  <2>1. \A i \in 1..len : i - 1 \in 0..len /\ f[i - 1] \in All
    BY <1>2, <1>6 DEF Iterates
  <2>2. \A i \in 1..len : f[i] = Then(i, f[i - 1])
    BY <1>6, <2>1 DEF Iterates, step
  <2> QED BY <1>2, <1>6, <2>2 DEF Iterates, Rec
<1>8. Rec(u)
  BY <1>7 DEF u
<1>9. u[0] = A /\ \A i \in 1..len : u[i] = Then(i, u[i - 1])
  BY <1>2, <1>8 DEF Rec
<1> DEFINE Good(i) == /\ u[i] \in All
                      /\ Entries(A) \subseteq Entries(u[i])
                      /\ Entries(u[i]) \subseteq Entries(A) \cup Entries(B)
                      /\ \A j \in 1..i : B[j].loan.id \in Ids(u[i])
           I == {i \in 0..len : Good(i)}
<1>10. 0 \in I
  BY <1>2, <1>4, <1>9
<1>11. ASSUME NEW i \in I, i \in 0..(len - 1)
       PROVE  i + 1 \in I
  <2>1. i + 1 \in 1..len /\ (i + 1) - 1 = i /\ Good(i)
    BY <1>2, <1>11
  <2> DEFINE v == u[i + 1]
  <2>2. v = Then(i + 1, u[i])
    BY <1>9, <2>1
  <2>3. /\ v \in All
        /\ Entries(u[i]) \subseteq Entries(v)
        /\ Entries(v) \subseteq Entries(u[i]) \cup Entries(B)
        /\ B[i + 1].loan.id \in Ids(v)
    BY <1>3, <2>1, <2>2
  <2> HIDE DEF v
  <2>4. Ids(u[i]) \subseteq Ids(v)
    BY <2>3 DEF Ids
  <2>5. \A j \in 1..(i + 1) : j \in 1..i \/ j = i + 1
    BY <1>11
  <2>6. Good(i + 1)
    BY <2>1, <2>3, <2>4, <2>5 DEF v
  <2> QED BY <2>1, <2>6
<1> HIDE DEF I
<1>12. len \in I
  BY <1>2, <1>10, <1>11, Induction
<1>13. Good(len)
  BY <1>12 DEF I
<1>14. Ids(B) \subseteq Ids(u[len])
  BY <1>2, <1>13 DEF Ids
<1>15. QED
  BY <1>1, <1>13, <1>14 DEF All

(* The entries that are kept are those carried, and no others.             *)
LEMMA CarriedFacts ==
  ASSUME NEW E, NEW A \in Seq(E), NEW L
  PROVE  /\ CarriedBy(A, L) \in Seq(E)
         /\ Entries(CarriedBy(A, L)) = {e \in Entries(A) : e.dest \in L}
<1> DEFINE len == Len(A)
           none == << >>
           Then(i, acc) == IF A[i].dest \in L THEN Append(acc, A[i]) ELSE acc
           Rec(f) == f = [i \in 0..len |-> IF i = 0 THEN none ELSE Then(i, f[i - 1])]
           u == CHOOSE f : Rec(f)
           All == Seq(E)
           step == [i \in 1..len |-> [acc \in All |-> Then(i, acc)]]
<1>1. CarriedBy(A, L) = u[len]
  BY DEF CarriedBy
<1>2. len \in Nat /\ (\A i \in 1..len : A[i] \in E) /\ Entries(A) = {A[i] : i \in 1..len}
  BY DEF Entries
<1>3. ASSUME NEW i \in 1..len, NEW acc \in All
      PROVE  /\ Then(i, acc) \in All
             /\ Entries(Then(i, acc)) = Entries(acc) \cup {e \in {A[i]} : e.dest \in L}
  <2>1. A[i] \in E
    BY <1>2
  <2>2. CASE A[i].dest \in L
    <3>1. Then(i, acc) = Append(acc, A[i])
      BY <2>2
    <3>2. Then(i, acc) \in All /\ Entries(Then(i, acc)) = Entries(acc) \cup {A[i]}
      BY <2>1, <3>1, EntriesAppend
    <3> HIDE DEF Then
    <3> QED BY <2>2, <3>2
  <2>3. CASE A[i].dest \notin L
    <3>1. Then(i, acc) = acc
      BY <2>3
    <3> HIDE DEF Then
    <3> QED BY <2>3, <3>1
  <2> QED BY <2>2, <2>3
<1>4. none \in All /\ Entries(none) = {}
  BY DEF Entries
<1> HIDE DEF Then, len, All, u, Rec, none
<1>5. AreSteps(step, len, All)
  BY <1>3 DEF AreSteps
<1> HIDE DEF step
<1>6. PICK f : Iterates(f, none, step, len, All)
  BY <1>2, <1>4, <1>5, Iteration
<1>7. Rec(f)
  <2>1. \A i \in 1..len : i - 1 \in 0..len /\ f[i - 1] \in All
    BY <1>2, <1>6 DEF Iterates
  <2>2. \A i \in 1..len : f[i] = Then(i, f[i - 1])
    BY <1>6, <2>1 DEF Iterates, step
  <2> QED BY <1>2, <1>6, <2>2 DEF Iterates, Rec
<1>8. Rec(u)
  BY <1>7 DEF u
<1>9. u[0] = none /\ \A i \in 1..len : u[i] = Then(i, u[i - 1])
  BY <1>2, <1>8 DEF Rec
<1> DEFINE Good(i) == /\ u[i] \in All
                      /\ Entries(u[i]) = {e \in {A[j] : j \in 1..i} : e.dest \in L}
           I == {i \in 0..len : Good(i)}
<1>10. 0 \in I
  BY <1>2, <1>4, <1>9
<1>11. ASSUME NEW i \in I, i \in 0..(len - 1)
       PROVE  i + 1 \in I
  <2>1. i + 1 \in 1..len /\ (i + 1) - 1 = i /\ Good(i)
    BY <1>2, <1>11
  <2> DEFINE v == u[i + 1]
  <2>2. v = Then(i + 1, u[i])
    BY <1>9, <2>1
  <2>3. v \in All /\ Entries(v) = Entries(u[i]) \cup {e \in {A[i + 1]} : e.dest \in L}
    BY <1>3, <2>1, <2>2
  <2>4. 1..(i + 1) = 1..i \cup {i + 1}
    BY <1>11
  <2>5. {A[j] : j \in 1..(i + 1)} = {A[j] : j \in 1..i} \cup {A[i + 1]}
    BY <2>4
  <2> HIDE DEF v
  <2>6. Good(i + 1)
    BY <2>1, <2>3, <2>5 DEF v
  <2> QED BY <2>1, <2>6
<1> HIDE DEF I
<1>12. len \in I
  BY <1>2, <1>10, <1>11, Induction
<1>13. Good(len)
  BY <1>12 DEF I
<1>14. QED
  BY <1>1, <1>2, <1>13 DEF All

(* Pushing the successors keeps the stack without repetitions, and leaves  *)
(* all of them on it.                                                      *)
LEMMA PushFacts ==
  ASSUME NEW E, NEW w \in Seq(E), NEW succ \in Seq(E),
         \A i, j \in 1..Len(w) : w[i] = w[j] => i = j
  PROVE  /\ Push(w, succ) \in Seq(E)
         /\ \A i, j \in 1..Len(Push(w, succ)) : Push(w, succ)[i] = Push(w, succ)[j] => i = j
         /\ Entries(w) \cup Entries(succ) \subseteq Entries(Push(w, succ))
<1> DEFINE len == Len(succ)
           Then(i, acc) ==
             IF succ[i] \in {acc[j] : j \in 1..Len(acc)} THEN acc ELSE Append(acc, succ[i])
           Rec(f) == f = [i \in 0..len |-> IF i = 0 THEN w ELSE Then(i, f[i - 1])]
           u == CHOOSE f : Rec(f)
           All == {acc \in Seq(E) : /\ \A i, j \in 1..Len(acc) : acc[i] = acc[j] => i = j
                                   /\ Entries(w) \subseteq Entries(acc)}
           step == [i \in 1..len |-> [acc \in All |-> Then(i, acc)]]
<1>1. Push(w, succ) = u[len]
  BY DEF Push
<1>2. /\ len \in Nat /\ \A i \in 1..len : succ[i] \in E
      /\ Entries(succ) = {succ[i] : i \in 1..len}
  BY DEF Entries
<1>3. ASSUME NEW i \in 1..len, NEW acc \in All
      PROVE  /\ Then(i, acc) \in All
             /\ Entries(acc) \subseteq Entries(Then(i, acc))
             /\ succ[i] \in Entries(Then(i, acc))
  <2>1. succ[i] \in E /\ acc \in Seq(E) /\ Entries(acc) = {acc[j] : j \in 1..Len(acc)}
    BY <1>2 DEF Entries
  <2>2. CASE succ[i] \in Entries(acc)
    <3>1. Then(i, acc) = acc
      BY <2>1, <2>2
    <3> HIDE DEF Then, All
    <3> QED BY <2>2, <3>1
  <2>3. CASE succ[i] \notin Entries(acc)
    <3> DEFINE v == Append(acc, succ[i])
    <3>1. Then(i, acc) = v
      BY <2>1, <2>3
    <3>2. v \in Seq(E) /\ Entries(v) = Entries(acc) \cup {succ[i]}
      BY <2>1, EntriesAppend
    <3>3. /\ Len(v) = Len(acc) + 1 /\ v[Len(acc) + 1] = succ[i]
          /\ \A j \in 1..Len(acc) : v[j] = acc[j] /\ acc[j] # succ[i]
      BY <2>1, <2>3
    <3> HIDE DEF v
    <3>4. \A j, k \in 1..Len(v) : v[j] = v[k] => j = k
      BY <2>1, <3>3
    <3>5. v \in All
      BY <3>2, <3>4
    <3> HIDE DEF Then, All
    <3> QED BY <3>1, <3>2, <3>5
  <2> QED BY <2>2, <2>3
<1>4. w \in All
  OBVIOUS
<1> HIDE DEF Then, len, All, u, Rec
<1>5. AreSteps(step, len, All)
  BY <1>3 DEF AreSteps
<1> HIDE DEF step
<1>6. PICK f : Iterates(f, w, step, len, All)
  BY <1>2, <1>4, <1>5, Iteration
<1>7. Rec(f)
  <2>1. \A i \in 1..len : i - 1 \in 0..len /\ f[i - 1] \in All
    BY <1>2, <1>6 DEF Iterates
  <2>2. \A i \in 1..len : f[i] = Then(i, f[i - 1])
    BY <1>6, <2>1 DEF Iterates, step
  <2> QED BY <1>2, <1>6, <2>2 DEF Iterates, Rec
<1>8. Rec(u)
  BY <1>7 DEF u
<1>9. u[0] = w /\ \A i \in 1..len : u[i] = Then(i, u[i - 1])
  BY <1>2, <1>8 DEF Rec
<1> DEFINE Good(i) == u[i] \in All /\ \A j \in 1..i : succ[j] \in Entries(u[i])
           I == {i \in 0..len : Good(i)}
<1>10. 0 \in I
  BY <1>2, <1>4, <1>9
<1>11. ASSUME NEW i \in I, i \in 0..(len - 1)
       PROVE  i + 1 \in I
  <2>1. i + 1 \in 1..len /\ (i + 1) - 1 = i /\ Good(i)
    BY <1>2, <1>11
  <2> DEFINE v == u[i + 1]
  <2>2. v = Then(i + 1, u[i])
    BY <1>9, <2>1
  <2>3. v \in All /\ Entries(u[i]) \subseteq Entries(v) /\ succ[i + 1] \in Entries(v)
    BY <1>3, <2>1, <2>2
  <2>4. \A j \in 1..(i + 1) : j \in 1..i \/ j = i + 1
    BY <1>11
  <2> HIDE DEF v
  <2>5. Good(i + 1)
    BY <2>1, <2>3, <2>4 DEF v
  <2> QED BY <2>1, <2>5
<1> HIDE DEF I
<1>12. len \in I
  BY <1>2, <1>10, <1>11, Induction
<1>13. Good(len)
  BY <1>12 DEF I
<1>14. Entries(succ) \subseteq Entries(u[len])
  BY <1>2, <1>13
<1>15. QED
  BY <1>1, <1>13, <1>14 DEF All

(* The union of several sets has entries of theirs only, and names every   *)
(* region of each.                                                         *)
LEMMA UnionAllFacts ==
  ASSUME NEW E, NEW Bs, NEW len \in Nat, Len(Bs) = len, \A i \in 1..len : Bs[i] \in Seq(E)
  PROVE  /\ UnionAll(Bs) \in Seq(E)
         /\ \A e \in Entries(UnionAll(Bs)) : \E i \in 1..len : e \in Entries(Bs[i])
         /\ \A i \in 1..len : Ids(Bs[i]) \subseteq Ids(UnionAll(Bs))
<1> DEFINE none == << >>
           Then(i, acc) == UnionWith(acc, Bs[i])
           Rec(f) == f = [i \in 0..len |-> IF i = 0 THEN none ELSE Then(i, f[i - 1])]
           u == CHOOSE f : Rec(f)
           All == Seq(E)
           step == [i \in 1..len |-> [acc \in All |-> Then(i, acc)]]
<1>1. UnionAll(Bs) = u[len]
  BY DEF UnionAll
<1>2. ASSUME NEW i \in 1..len, NEW acc \in All
      PROVE  /\ Then(i, acc) \in All
             /\ Entries(Then(i, acc)) \subseteq Entries(acc) \cup Entries(Bs[i])
             /\ Ids(acc) \subseteq Ids(Then(i, acc))
             /\ Ids(Bs[i]) \subseteq Ids(Then(i, acc))
  <2>1. Bs[i] \in Seq(E) /\ acc \in Seq(E)
    OBVIOUS
  <2>2. Entries(acc) \subseteq Entries(Then(i, acc)) => Ids(acc) \subseteq Ids(Then(i, acc))
    BY DEF Ids
  <2> QED BY <2>1, <2>2, UnionFacts
<1>3. none \in All /\ Entries(none) = {}
  BY DEF Entries
<1> HIDE DEF Then, All, u, Rec, none
<1>4. AreSteps(step, len, All)
  BY <1>2 DEF AreSteps
<1> HIDE DEF step
<1>5. PICK f : Iterates(f, none, step, len, All)
  BY <1>3, <1>4, Iteration
<1>6. Rec(f)
  <2>1. \A i \in 1..len : i - 1 \in 0..len /\ f[i - 1] \in All
    BY <1>5 DEF Iterates
  <2>2. \A i \in 1..len : f[i] = Then(i, f[i - 1])
    BY <1>5, <2>1 DEF Iterates, step
  <2> QED BY <1>5, <2>2 DEF Iterates, Rec
<1>7. Rec(u)
  BY <1>6 DEF u
<1>8. u[0] = none /\ \A i \in 1..len : u[i] = Then(i, u[i - 1])
  BY <1>7 DEF Rec
<1> DEFINE Good(i) == /\ u[i] \in All
                      /\ \A e \in Entries(u[i]) : \E j \in 1..len : e \in Entries(Bs[j])
                      /\ \A j \in 1..i : Ids(Bs[j]) \subseteq Ids(u[i])
           I == {i \in 0..len : Good(i)}
<1>9. 0 \in I
  BY <1>3, <1>8
<1>10. ASSUME NEW i \in I, i \in 0..(len - 1)
       PROVE  i + 1 \in I
  <2>1. i + 1 \in 1..len /\ (i + 1) - 1 = i /\ Good(i)
    BY <1>10
  <2> DEFINE v == u[i + 1]
  <2>2. v = Then(i + 1, u[i])
    BY <1>8, <2>1
  <2>3. /\ v \in All
        /\ Entries(v) \subseteq Entries(u[i]) \cup Entries(Bs[i + 1])
        /\ Ids(u[i]) \subseteq Ids(v)
        /\ Ids(Bs[i + 1]) \subseteq Ids(v)
    BY <1>2, <2>1, <2>2
  <2>4. \A j \in 1..(i + 1) : j \in 1..i \/ j = i + 1
    BY <1>10
  <2> HIDE DEF v
  <2>5. Good(i + 1)
    BY <2>1, <2>3, <2>4 DEF v
  <2> QED BY <2>1, <2>5
<1> HIDE DEF I
<1>11. len \in I
  BY <1>9, <1>10, Induction
<1>12. QED
  BY <1>1, <1>11 DEF I, All

(* What a merge holds comes from a predecessor, and no region is lost.     *)
LEMMA MergeFacts ==
  ASSUME NEW E, NEW c, c.n \in Nat, NEW out, NEW b,
         \A a \in Preds(c, b) : out[a] \in Seq(E)
  PROVE  /\ Merge(c, out, b) \in Seq(E)
         /\ \A e \in Entries(Merge(c, out, b)) : \E a \in Preds(c, b) : e \in Entries(out[a])
         /\ b # c.entry => \A a \in Preds(c, b) : Ids(out[a]) \subseteq Ids(Merge(c, out, b))
<1>1. CASE b = c.entry
  <2>1. Merge(c, out, b) = << >>
    BY <1>1 DEF Merge
  <2>2. << >> \in Seq(E) /\ Entries(<< >>) = {}
    BY DEF Entries
  <2> QED BY <1>1, <2>1, <2>2
<1>2. CASE b # c.entry
  <2> DEFINE Bs == [a \in 1..c.n |-> IF a \in Preds(c, b) THEN out[a] ELSE << >>]
  <2>1. Merge(c, out, b) = UnionAll(Bs)
    BY <1>2 DEF Merge
  <2>2. << >> \in Seq(E) /\ Entries(<< >>) = {}
    BY DEF Entries
  <2>3. Preds(c, b) \subseteq 1..c.n
    BY DEF Preds, Blocks
  <2>4. /\ \A i \in 1..c.n : Bs[i] \in Seq(E)
        /\ \A i \in 1..c.n : i \notin Preds(c, b) => Bs[i] = << >>
        /\ \A i \in Preds(c, b) : Bs[i] = out[i]
    BY <2>2, <2>3
  <2>5. Len(Bs) = c.n
    OBVIOUS
  <2> HIDE DEF Bs
  <2>6. /\ UnionAll(Bs) \in Seq(E)
        /\ \A e \in Entries(UnionAll(Bs)) : \E i \in 1..c.n : e \in Entries(Bs[i])
        /\ \A i \in 1..c.n : Ids(Bs[i]) \subseteq Ids(UnionAll(Bs))
    BY <2>4, <2>5, UnionAllFacts
  <2> QED BY <2>1, <2>2, <2>3, <2>4, <2>6
<1> QED BY <1>1, <1>2

(* A merge reads the out-states of the predecessors only.                  *)
LEMMA MergeFrame ==
  ASSUME NEW c, NEW out1, NEW out2, NEW b, \A a \in Preds(c, b) : out1[a] = out2[a]
  PROVE  Merge(c, out1, b) = Merge(c, out2, b)
<1> DEFINE From(out) == [a \in 1..c.n |-> IF a \in Preds(c, b) THEN out[a] ELSE << >>]
<1>1. From(out1) = From(out2)
  OBVIOUS
<1>2. \A out : Merge(c, out, b) = IF b = c.entry THEN << >> ELSE UnionAll(From(out))
  BY DEF Merge
<1> HIDE DEF From
<1> QED BY <1>1, <1>2

(***************************************************************************)
(* One statement, one block                                                *)
(***************************************************************************)
Carriage(c) == [loan : LoansOf(c), dest : c.locals]

LEMMA StmtFacts ==
  ASSUME NEW c \in Cfgs, NEW b \in Blocks(c), NEW i \in 1..Len(c.stmts[b])
  PROVE  /\ StmtOK(c, c.stmts[b][i])
         /\ c.stmts[b][i].loans \subseteq LoansOf(c)
         /\ Root(c.stmts[b][i].dest) \in c.locals
         /\ c.stmts[b][i] \in Statements(c)
<1>1. StmtOK(c, c.stmts[b][i])
  BY CfgsOK DEF CfgOK
<1>2. Root(c.stmts[b][i].dest) \in c.locals
  BY <1>1 DEF StmtOK, PlaceOK
<1>3. c.stmts[b][i].loans \subseteq LoansOf(c) /\ c.stmts[b][i] \in Statements(c)
  BY DEF LoansOf, Statements
<1> QED BY <1>1, <1>2, <1>3

(* A statement adds its borrow, or those of the locals it reads, to what   *)
(* was active, and takes nothing away.                                     *)
LEMMA WithNewFacts ==
  ASSUME NEW c, NEW s, StmtOK(c, s), s.loans \subseteq LoansOf(c), NEW A \in BorrowSets(c)
  PROVE  /\ WithNew(c, s, A) \in BorrowSets(c)
         /\ Entries(A) \subseteq Entries(WithNew(c, s, A))
         /\ \A n \in s.loans : [loan |-> n, dest |-> Root(s.dest)] \in Entries(WithNew(c, s, A))
         /\ s.loans = {} /\ Root(s.dest) \in c.refs =>
              \A e \in Entries(A) : e.dest \in Sources(s) /\ e.dest # Root(s.dest) =>
                [loan |-> e.loan, dest |-> Root(s.dest)] \in Entries(WithNew(c, s, A))
<1> DEFINE d == Root(s.dest)
           C == Carriage(c)
<1>1. d \in c.locals /\ A \in Seq(C)
  BY DEF StmtOK, PlaceOK, BorrowSets, Carriage
<1>2. CASE s.loans # {}
  <2>1. PICK n : s.loans = {n}
    BY <1>2 DEF StmtOK
  <2> DEFINE e == [loan |-> n, dest |-> d]
  <2>2. (CHOOSE m \in s.loans : TRUE) = n
    BY <2>1
  <2>3. WithNew(c, s, A) = Append(A, e)
    BY <1>2, <2>2 DEF WithNew
  <2>4. e \in C
    BY <1>1, <2>1 DEF Carriage
  <2> HIDE DEF e, C
  <2>5. Append(A, e) \in Seq(C) /\ Entries(Append(A, e)) = Entries(A) \cup {e}
    BY <1>1, <2>4, EntriesAppend
  <2> QED BY <1>2, <2>1, <2>3, <2>5 DEF e, C, BorrowSets, Carriage
<1>3. CASE s.loans = {}
  <2> DEFINE from == Carried(c, s, A)
             new == [i \in 1..Len(from) |-> [loan |-> from[i].loan, dest |-> d]]
  <2>1. WithNew(c, s, A) = A \o new
    BY <1>3 DEF WithNew
  <2>2. /\ from \in Seq(C)
        /\ d \in c.refs => Entries(from) = {e \in Entries(A) : e.dest \in Sources(s) \ {d}}
    <3>1. CASE d \in c.refs
      <4>1. from = CarriedBy(A, Sources(s) \ {d})
        BY <3>1 DEF Carried
      <4> HIDE DEF from, C, d
      <4> QED BY <1>1, <4>1, CarriedFacts
    <3>2. CASE d \notin c.refs
      BY <3>2 DEF Carried
    <3> QED BY <3>1, <3>2
  <2> HIDE DEF from
  <2>3. new \in Seq(C) /\ Len(new) = Len(from) /\ Len(from) \in Nat /\ Len(A) \in Nat
    <3>1. \A e \in C : e.loan \in LoansOf(c)
      BY DEF Carriage
    <3>2. \A i \in 1..Len(from) : from[i] \in C
      <4> HIDE DEF C
      <4> QED BY <2>2
    <3>3. \A i \in 1..Len(from) : [loan |-> from[i].loan, dest |-> d] \in C
      BY <1>1, <3>1, <3>2 DEF Carriage
    <3> HIDE DEF C, d
    <3> QED BY <1>1, <2>2, <3>3
  <2>4. \A i \in 1..Len(from) : new[i] = [loan |-> from[i].loan, dest |-> d]
    OBVIOUS
  <2> HIDE DEF new, C
  <2> DEFINE W == A \o new
  <2>5. /\ W \in Seq(C) /\ Len(W) = Len(A) + Len(from)
        /\ \A i \in 1..Len(A) : W[i] = A[i]
        /\ \A i \in 1..Len(from) : W[Len(A) + i] = new[i]
    BY <1>1, <2>3
  <2> HIDE DEF W, d
  <2>6. \A i \in 1..Len(A) : i \in 1..Len(W)
    BY <2>3, <2>5
  <2>7. Entries(A) \subseteq Entries(W)
    BY <2>5, <2>6 DEF Entries
  <2>8. \A i \in 1..Len(from) : Len(A) + i \in 1..Len(W)
    BY <2>3, <2>5
  <2>9. \A e \in Entries(from) : [loan |-> e.loan, dest |-> d] \in Entries(W)
    BY <2>4, <2>5, <2>8 DEF Entries
  <2>10. W \in BorrowSets(c)
    BY <2>5 DEF C, BorrowSets, Carriage
  <2> QED BY <1>3, <2>1, <2>2, <2>7, <2>9, <2>10 DEF W, d
<1> QED BY <1>2, <1>3

(* The states after the statements of a block, one from the other.         *)
LEMMA WalkFacts ==
  ASSUME NEW c \in Cfgs, NEW b \in Blocks(c), NEW out, NEW start \in BorrowSets(c)
  PROVE  /\ Len(c.stmts[b]) \in Nat
         /\ Walk(c, out, b, start) \in [0..Len(c.stmts[b]) -> BorrowSets(c)]
         /\ Walk(c, out, b, start)[0] = start
         /\ \A i \in 1..Len(c.stmts[b]) :
              Walk(c, out, b, start)[i] =
                Prune(WithNew(c, c.stmts[b][i], Walk(c, out, b, start)[i - 1]),
                      LiveBefore(c, b, i + 1, out))
<1> DEFINE len == Len(c.stmts[b])
           Then(i, A) == Prune(WithNew(c, c.stmts[b][i], A), LiveBefore(c, b, i + 1, out))
           Rec(f) == f = [i \in 0..len |-> IF i = 0 THEN start ELSE Then(i, f[i - 1])]
           u == CHOOSE f : Rec(f)
           All == BorrowSets(c)
           step == [i \in 1..len |-> [A \in All |-> Then(i, A)]]
<1>1. Walk(c, out, b, start) = u
  BY DEF Walk
<1>2. len \in Nat
  BY CfgsOK DEF CfgOK
<1>3. ASSUME NEW i \in 1..len, NEW A \in All
      PROVE  Then(i, A) \in All
  <2> DEFINE s == c.stmts[b][i]
  <2>1. WithNew(c, s, A) \in BorrowSets(c)
    BY StmtFacts, WithNewFacts
  <2> HIDE DEF s
  <2> QED BY <2>1, CarriedFacts DEF Prune, BorrowSets, s
<1>4. start \in All
  OBVIOUS
<1> HIDE DEF Then, len, All, u, Rec
<1>5. AreSteps(step, len, All)
  BY <1>3 DEF AreSteps
<1> HIDE DEF step
<1>6. PICK f : Iterates(f, start, step, len, All)
  BY <1>2, <1>4, <1>5, Iteration
<1>7. Rec(f)
  <2>1. \A i \in 1..len : i - 1 \in 0..len /\ f[i - 1] \in All
    BY <1>2, <1>6 DEF Iterates
  <2>2. \A i \in 1..len : f[i] = Then(i, f[i - 1])
    BY <1>6, <2>1 DEF Iterates, step
  <2> QED BY <1>2, <1>6, <2>2 DEF Iterates, Rec
<1>8. Rec(u)
  BY <1>7 DEF u
<1>9. /\ u[0] = start /\ \A i \in 1..len : u[i] = Then(i, u[i - 1])
      /\ u = [i \in 0..len |-> u[i]]
  BY <1>2, <1>8 DEF Rec
<1> DEFINE I == {i \in 0..len : u[i] \in All}
<1>10. 0 \in I
  BY <1>2, <1>4, <1>9
<1>11. ASSUME NEW i \in I, i \in 0..(len - 1)
       PROVE  i + 1 \in I
  <2>1. i + 1 \in 1..len /\ (i + 1) - 1 = i /\ u[i] \in All
    BY <1>2, <1>11
  <2>2. u[i + 1] = Then(i + 1, u[i])
    BY <1>9, <2>1
  <2>3. u[i + 1] \in All
    BY <1>3, <2>1, <2>2
  <2> QED BY <1>2, <2>1, <2>3
<1> HIDE DEF I
<1>12. 0..len \subseteq I
  BY <1>2, <1>10, <1>11, Induction
<1>13. u \in [0..len -> All]
  BY <1>9, <1>12 DEF I
<1>14. QED
  BY <1>1, <1>2, <1>9, <1>13 DEF len, All, Then

(***************************************************************************)
(* Type correctness                                                        *)
(***************************************************************************)
LEMMA BlockFacts ==
  ASSUME BorrowTypeOK, NEW b \in Blocks(cfg)
  PROVE  /\ Merge(cfg, borrowsOut, b) \in BorrowSets(cfg)
         /\ Len(cfg.stmts[b]) \in Nat /\ End(cfg, b) = Len(cfg.stmts[b]) + 1
         /\ cfg.succ[b] \in Seq(Blocks(cfg)) /\ Entries(cfg.succ[b]) = Succs(cfg, b)
<1>1. cfg \in Cfgs /\ CfgOK(cfg) /\ borrowsOut \in [Blocks(cfg) -> BorrowSets(cfg)]
  BY CfgsOK DEF BorrowTypeOK, LiveTypeOK
<1>2. cfg.n \in Nat /\ Preds(cfg, b) \subseteq Blocks(cfg)
  BY <1>1 DEF CfgOK, Preds
<1>3. Merge(cfg, borrowsOut, b) \in BorrowSets(cfg)
  <2>1. \A a \in Preds(cfg, b) : borrowsOut[a] \in BorrowSets(cfg)
    BY <1>1, <1>2
  <2> QED BY <1>2, <2>1, MergeFacts DEF BorrowSets
<1>4. Len(cfg.stmts[b]) \in Nat /\ cfg.succ[b] \in Seq(Blocks(cfg))
  BY <1>1 DEF CfgOK
<1> QED BY <1>3, <1>4 DEF End, Entries, Succs

LEMMA PopType ==
  ASSUME BorrowTypeOK, Pop, UNCHANGED <<cfg, liveVars>>
  PROVE  BorrowTypeOK'
<1>1. LiveTypeOK' /\ Blocks(cfg)' = Blocks(cfg) /\ BorrowSets(cfg)' = BorrowSets(cfg)
  BY DEF BorrowTypeOK, LiveTypeOK, liveVars, Blocks, BorrowSets
<1>2. /\ work \in Seq(Blocks(cfg)) /\ work # << >> /\ cur' = work[Len(work)]
      /\ work' = SubSeq(work, 1, Len(work) - 1) /\ pos' = 1
      /\ active' = Merge(cfg, borrowsOut, cur')
      /\ borrowsOut' = borrowsOut /\ carriers' = carriers /\ cfg' = cfg
      /\ \A i, j \in 1..Len(work) : work[i] = work[j] => i = j
  BY DEF BorrowTypeOK, Pop
<1>3. cur' \in Blocks(cfg)
  BY <1>2
<1>4. work' \in Seq(Blocks(cfg)) /\ \A i, j \in 1..Len(work') : work'[i] = work'[j] => i = j
  <2>1. /\ work' \in Seq(Blocks(cfg)) /\ Len(work') = Len(work) - 1
        /\ \A i \in 1..Len(work') : work'[i] = work[i] /\ i \in 1..Len(work)
    <3>1. Len(work) \in Nat \ {0}
      BY <1>2
    <3>2. \A i \in 1..Len(work) : work[i] \in Blocks(cfg)
      BY <1>2
    <3>3. work' = [i \in 1..(Len(work) - 1) |-> work[i]]
      BY <1>2, <3>1
    <3> QED BY <3>1, <3>2, <3>3
  <2> QED BY <1>2, <2>1
<1>5. /\ active' \in BorrowSets(cfg) /\ pos' \in 1..End(cfg, cur')
  <2>1. Merge(cfg, borrowsOut, cur') \in BorrowSets(cfg)
    BY <1>3, BlockFacts
  <2>2. End(cfg, cur') \in Nat /\ End(cfg, cur') >= 1
    BY <1>3, BlockFacts
  <2> QED BY <1>2, <2>1, <2>2
<1> QED BY <1>1, <1>2, <1>3, <1>4, <1>5 DEF BorrowTypeOK

LEMMA StepType ==
  ASSUME BorrowTypeOK, Step, UNCHANGED <<cfg, liveVars>>
  PROVE  BorrowTypeOK'
<1>1. LiveTypeOK' /\ Blocks(cfg)' = Blocks(cfg) /\ BorrowSets(cfg)' = BorrowSets(cfg)
  BY DEF BorrowTypeOK, LiveTypeOK, liveVars, Blocks, BorrowSets
<1> DEFINE s == cfg.stmts[cur][pos]
           live == LiveBefore(cfg, cur, pos + 1, liveOut[cur])
<1>2. /\ cur # 0 /\ pos # End(cfg, cur) /\ pos' = pos + 1
      /\ active' = Prune(WithNew(cfg, s, active), live)
      /\ UNCHANGED <<work, cur, borrowsOut, carriers>> /\ cfg' = cfg
  BY DEF Step, AtEnd
<1>3. /\ cur \in Blocks(cfg) /\ pos \in 1..End(cfg, cur) /\ active \in BorrowSets(cfg)
      /\ cfg \in Cfgs
  BY <1>2 DEF BorrowTypeOK, LiveTypeOK
<1>4. pos \in 1..Len(cfg.stmts[cur]) /\ pos + 1 \in 1..End(cfg, cur)
  BY <1>2, <1>3, BlockFacts
<1>5. WithNew(cfg, s, active) \in BorrowSets(cfg)
  BY <1>3, <1>4, StmtFacts, WithNewFacts
<1>6. active' \in BorrowSets(cfg)
  <2> HIDE DEF s, live
  <2> QED BY <1>2, <1>5, CarriedFacts DEF Prune, BorrowSets
<1>7. pos' \in 1..End(cfg, cur)' /\ cur' = cur
  BY <1>2, <1>4 DEF End
<1> HIDE DEF s, live
<1> QED BY <1>1, <1>2, <1>3, <1>6, <1>7 DEF BorrowTypeOK

LEMMA CommitType ==
  ASSUME BorrowTypeOK, Commit, UNCHANGED <<cfg, liveVars>>
  PROVE  BorrowTypeOK'
<1>1. LiveTypeOK' /\ Blocks(cfg)' = Blocks(cfg) /\ BorrowSets(cfg)' = BorrowSets(cfg)
  BY DEF BorrowTypeOK, LiveTypeOK, liveVars, Blocks, BorrowSets
<1> DEFINE new == {[id |-> e.loan.id, dest |-> e.dest] : e \in Entries(active)}
<1>2. /\ cur # 0 /\ cur' = 0 /\ carriers' = carriers \cup new /\ cfg' = cfg /\ active' = active
      /\ \/ work' = work /\ borrowsOut' = borrowsOut
         \/ /\ borrowsOut' = [borrowsOut EXCEPT ![cur] = active]
            /\ work' = Push(work, cfg.succ[cur])
  BY DEF Commit
<1>3. /\ cur \in Blocks(cfg) /\ active \in BorrowSets(cfg) /\ work \in Seq(Blocks(cfg))
      /\ borrowsOut \in [Blocks(cfg) -> BorrowSets(cfg)]
      /\ \A i, j \in 1..Len(work) : work[i] = work[j] => i = j
      /\ carriers \subseteq [id : {n.id : n \in LoansOf(cfg)}, dest : cfg.locals]
  BY <1>2 DEF BorrowTypeOK
<1>4. borrowsOut' \in [Blocks(cfg) -> BorrowSets(cfg)]
  BY <1>2, <1>3
<1>5. work' \in Seq(Blocks(cfg)) /\ \A i, j \in 1..Len(work') : work'[i] = work'[j] => i = j
  <2>1. cfg.succ[cur] \in Seq(Blocks(cfg))
    BY <1>3, BlockFacts
  <2> QED BY <1>2, <1>3, <2>1, PushFacts
<1>6. new \subseteq [id : {n.id : n \in LoansOf(cfg)}, dest : cfg.locals]
  <2>1. active \in Seq(Carriage(cfg))
    BY <1>3 DEF BorrowSets, Carriage
  <2>2. \A e \in Entries(active) : e \in Carriage(cfg)
    BY <2>1 DEF Entries
  <2> QED BY <2>2 DEF Carriage
<1>7. (LoansOf(cfg))' = LoansOf(cfg) /\ cfg.locals' = cfg.locals
  BY <1>2 DEF LoansOf, Blocks
<1> HIDE DEF new
<1> QED BY <1>1, <1>2, <1>3, <1>4, <1>5, <1>6, <1>7 DEF BorrowTypeOK

Holding(c) == [loan : LoansOf(c), ok : BOOLEAN]

(* An access leaves the loans that are held, and breaks some of them.      *)
LEMMA AfterFacts ==
  ASSUME NEW s, NEW H \in SUBSET Holding(cfg)
  PROVE  /\ After(s, H) \in SUBSET Holding(cfg)
         /\ \A g \in After(s, H) :
              \E h \in H : g.loan = h.loan /\ (g.ok <=> h.ok /\ ~ BrokenBy(s, h.loan))
<1>1. ASSUME NEW g \in After(s, H)
      PROVE  /\ g \in Holding(cfg)
             /\ \E h \in H : g.loan = h.loan /\ (g.ok <=> h.ok /\ ~ BrokenBy(s, h.loan))
  <2>1. PICK h \in H : g = [h EXCEPT !.ok = @ /\ ~ BrokenBy(s, h.loan)]
    BY DEF After
  <2>2. h \in Holding(cfg)
    OBVIOUS
  <2>3. h = [loan |-> h.loan, ok |-> h.ok] /\ h.loan \in LoansOf(cfg) /\ h.ok \in BOOLEAN
    BY <2>2 DEF Holding
  <2>4. g = [loan |-> h.loan, ok |-> (h.ok /\ ~ BrokenBy(s, h.loan))]
    BY <2>1, <2>3
  <2>5. (h.ok /\ ~ BrokenBy(s, h.loan)) \in BOOLEAN
    OBVIOUS
  <2>6. g.loan = h.loan /\ g.ok = (h.ok /\ ~ BrokenBy(s, h.loan))
    BY <2>4
  <2>7. g \in Holding(cfg)
    BY <2>3, <2>4, <2>5 DEF Holding
  <2> QED BY <2>6, <2>7
<1> QED BY <1>1

(* The locals a statement reads or reaches are locals of the function.     *)
LEMMA UsesAreLocals ==
  ASSUME NEW c \in Cfgs, NEW b \in Blocks(c)
  PROVE  /\ \A i \in 1..End(c, b) : Uses(c, b, i) \subseteq c.locals
         /\ \A i \in 1..Len(c.stmts[b]) :
              /\ Sources(c.stmts[b][i]) \subseteq Uses(c, b, i)
              /\ {Root(n.pl) : n \in c.stmts[b][i].loans} \subseteq Uses(c, b, i)
<1>1. CfgOK(c)
  BY CfgsOK
<1>2. /\ Len(c.stmts[b]) \in Nat /\ End(c, b) = Len(c.stmts[b]) + 1
      /\ \A p \in c.tests[b] : Root(p) \in c.locals
  BY <1>1 DEF CfgOK, End, PlaceOK
<1>3. ASSUME NEW i \in 1..Len(c.stmts[b])
      PROVE  /\ Uses(c, b, i) = {Root(r.pl) : r \in c.stmts[b][i].reads}
                                \cup {Root(n.pl) : n \in c.stmts[b][i].loans}
             /\ Uses(c, b, i) \subseteq c.locals
  <2>1. i # End(c, b)
    BY <1>2
  <2>2. StmtOK(c, c.stmts[b][i])
    BY StmtFacts
  <2>3. Uses(c, b, i) = {Root(r.pl) : r \in c.stmts[b][i].reads}
                         \cup {Root(n.pl) : n \in c.stmts[b][i].loans}
    BY <2>1 DEF Uses
  <2> QED BY <2>2, <2>3 DEF StmtOK, PlaceOK
<1>4. Uses(c, b, End(c, b)) \subseteq c.locals
  BY <1>2 DEF Uses
<1>5. \A i \in 1..End(c, b) : i \in 1..Len(c.stmts[b]) \/ i = End(c, b)
  BY <1>2
<1>6. \A i \in 1..Len(c.stmts[b]) : Sources(c.stmts[b][i]) \subseteq Uses(c, b, i)
  BY <1>3 DEF Sources
<1> QED BY <1>3, <1>4, <1>5, <1>6

HeldType == held \in [cfg.locals -> SUBSET Holding(cfg)]

LEMMA ExecHeld ==
  ASSUME SoundTypeOK, Exec, UNCHANGED vars
  PROVE  HeldType'
<1>1. /\ cfg \in Cfgs /\ pc[1] \in Blocks(cfg) /\ pc[2] \in 1..Len(cfg.stmts[pc[1]])
      /\ held \in [cfg.locals -> SUBSET Holding(cfg)]
  <2>1. /\ cfg \in Cfgs /\ pc[1] \in Blocks(cfg) /\ pc[2] \in 1..End(cfg, pc[1])
        /\ pc[2] # End(cfg, pc[1]) /\ held \in [cfg.locals -> SUBSET Holding(cfg)]
    BY DEF SoundTypeOK, BorrowTypeOK, LiveTypeOK, Exec, AtTest, Holding
  <2>2. Len(cfg.stmts[pc[1]]) \in Nat /\ End(cfg, pc[1]) = Len(cfg.stmts[pc[1]]) + 1
    BY <2>1, BlockFacts DEF SoundTypeOK
  <2> QED BY <2>1, <2>2
<1>2. Stmt.loans \subseteq LoansOf(cfg)
  BY <1>1, StmtFacts DEF Stmt
<1>3. Sources(Stmt) \cup {Root(n.pl) : n \in Stmt.loans} \subseteq cfg.locals
  <2>1. \A i \in 1..Len(cfg.stmts[pc[1]]) : i \in 1..End(cfg, pc[1])
    BY <1>1, BlockFacts DEF SoundTypeOK
  <2> QED BY <1>1, <2>1, UsesAreLocals DEF Stmt
<1>4. \A l \in cfg.locals : After(Stmt, held[l]) \in SUBSET Holding(cfg)
  BY <1>1, AfterFacts
<1>5. Made(Stmt) \in SUBSET Holding(cfg)
  <2>1. {[loan |-> n, ok |-> TRUE] : n \in Stmt.loans} \in SUBSET Holding(cfg)
    <3>1. \A n \in LoansOf(cfg) : [loan |-> n, ok |-> TRUE] \in Holding(cfg)
      BY Zenon DEF Holding
    <3> QED BY <1>2, <3>1
  <2>2. UNION {After(Stmt, held[l]) : l \in Sources(Stmt) \cup {Root(n.pl) : n \in Stmt.loans}}
          \in SUBSET Holding(cfg)
    BY <1>3, <1>4
  <2> QED BY <2>1, <2>2 DEF Made
<1>6. held' = [l \in cfg.locals |->
                IF l # Root(Stmt.dest) THEN After(Stmt, held[l])
                ELSE Made(Stmt) \cup (IF IsLocal(Stmt.dest) THEN {} ELSE After(Stmt, held[l]))]
  BY DEF Exec
<1>7. Holding(cfg)' = Holding(cfg) /\ cfg.locals' = cfg.locals
  BY DEF vars, Holding, LoansOf, Blocks
<1>8. held' \in [cfg.locals -> SUBSET Holding(cfg)]
  BY <1>4, <1>5, <1>6
<1> QED BY <1>7, <1>8 DEF HeldType

LEMMA JumpHeld ==
  ASSUME SoundTypeOK, Jump, UNCHANGED vars
  PROVE  /\ HeldType'
         /\ \A l \in cfg.locals : \A g \in held'[l] : \E h \in held[l] :
              /\ g.loan = h.loan
              /\ g.ok <=> h.ok /\ ~ (/\ h.loan.mut
                                   /\ \E p \in cfg.tests[pc[1]] : Overlaps(h.loan.pl, p))
<1> DEFINE Broken(n) == n.mut /\ \E p \in cfg.tests[pc[1]] : Overlaps(n.pl, p)
<1>1. held' = [l \in cfg.locals |-> {[h EXCEPT !.ok = @ /\ ~ Broken(h.loan)] : h \in held[l]}]
  BY DEF Jump
<1>2. held \in [cfg.locals -> SUBSET Holding(cfg)]
  BY DEF SoundTypeOK, Holding
<1> HIDE DEF Broken
<1>3. ASSUME NEW l \in cfg.locals, NEW g \in held'[l]
      PROVE  /\ g \in Holding(cfg)
             /\ \E h \in held[l] : g.loan = h.loan /\ (g.ok <=> h.ok /\ ~ Broken(h.loan))
  <2>1. PICK h \in held[l] : g = [h EXCEPT !.ok = @ /\ ~ Broken(h.loan)]
    BY <1>1, <1>3
  <2>2. h \in Holding(cfg)
    BY <1>2
  <2>3. h = [loan |-> h.loan, ok |-> h.ok] /\ h.loan \in LoansOf(cfg) /\ h.ok \in BOOLEAN
    BY <2>2 DEF Holding
  <2>4. g = [loan |-> h.loan, ok |-> (h.ok /\ ~ Broken(h.loan))]
    BY <2>1, <2>3
  <2>5. (h.ok /\ ~ Broken(h.loan)) \in BOOLEAN
    OBVIOUS
  <2>6. g.loan = h.loan /\ g.ok = (h.ok /\ ~ Broken(h.loan))
    BY <2>4
  <2>7. g \in Holding(cfg)
    BY <2>3, <2>4, <2>5 DEF Holding
  <2> QED BY <2>6, <2>7
<1>4. Holding(cfg)' = Holding(cfg) /\ cfg.locals' = cfg.locals
  BY DEF vars, Holding, LoansOf, Blocks
<1>5. held' \in [cfg.locals -> SUBSET Holding(cfg)]
  BY <1>1, <1>3
<1> QED BY <1>3, <1>4, <1>5 DEF HeldType, Broken

LEMMA VisitBorrowType ==
  ASSUME BorrowTypeOK, LiveNext, UNCHANGED borrowVars
  PROVE  BorrowTypeOK'
<1>1. LiveTypeOK
  BY DEF BorrowTypeOK
<1>2. LiveTypeOK' /\ cfg' = cfg
  BY <1>1, VisitType DEF LiveNext, Visit
<1>3. /\ Blocks(cfg)' = Blocks(cfg) /\ BorrowSets(cfg)' = BorrowSets(cfg)
      /\ LoansOf(cfg)' = LoansOf(cfg) /\ cfg.locals' = cfg.locals
      /\ \A b : End(cfg, b)' = End(cfg, b)
  BY <1>2 DEF Blocks, BorrowSets, LoansOf, End
<1> QED BY <1>2, <1>3 DEF BorrowTypeOK, borrowVars

RunType == Running => pc[1] \in Blocks(cfg) /\ pc[2] \in 1..End(cfg, pc[1])

LEMMA RunPoint ==
  ASSUME SoundTypeOK, (Launch \/ Exec \/ Jump), UNCHANGED vars
  PROVE  RunType' /\ (misused \in BOOLEAN)'
<1>1. /\ cfg \in Cfgs /\ cfg' = cfg
      /\ Running => pc[1] \in Blocks(cfg) /\ pc[2] \in 1..End(cfg, pc[1])
      /\ \A b \in Blocks(cfg) : End(cfg, b) \in Nat /\ End(cfg, b) >= 1
  <2>1. \A b \in Blocks(cfg) : End(cfg, b) \in Nat /\ End(cfg, b) >= 1
    BY BlockFacts DEF SoundTypeOK
  <2> QED BY <2>1 DEF SoundTypeOK, BorrowTypeOK, LiveTypeOK, vars
<1>2. CASE Launch
  <2>1. cfg.entry \in Blocks(cfg) /\ pc' = <<cfg.entry, 1>> /\ misused' = misused
    BY <1>1, <1>2, CfgsOK DEF CfgOK, Launch
  <2> QED BY <1>1, <2>1 DEF RunType, SoundTypeOK, End, Blocks
<1>3. CASE Exec
  <2>1. Running /\ pc[2] # End(cfg, pc[1]) /\ pc' = <<pc[1], pc[2] + 1>>
    BY <1>3 DEF Exec, AtTest
  <2>2. pc[2] + 1 \in 1..End(cfg, pc[1])
    BY <1>1, <2>1
  <2>3. misused' = (misused \/ ReadBroken(Uses(cfg, pc[1], pc[2]) \cup Through(Stmt)))
    BY <1>3 DEF Exec
  <2>4. misused' \in BOOLEAN
    BY <2>3, Zenon
  <2> QED BY <1>1, <2>1, <2>2, <2>4 DEF RunType, End, Blocks
<1>4. CASE Jump
  <2>1. Running /\ \E b \in Succs(cfg, pc[1]) : pc' = <<b, 1>>
    BY <1>4 DEF Jump
  <2>2. \A b \in Succs(cfg, pc[1]) : b \in Blocks(cfg)
    BY <1>1, <2>1, EdgesInBlocks
  <2>3. misused' = (misused \/ ReadBroken(Uses(cfg, pc[1], pc[2])))
    BY <1>4 DEF Jump
  <2>4. misused' \in BOOLEAN
    BY <2>3, Zenon
  <2> QED BY <1>1, <2>1, <2>2, <2>4 DEF RunType, End, Blocks
<1> QED BY <1>2, <1>3, <1>4

LEMMA SoundTypeStep ==
  ASSUME SoundTypeOK, [SoundNext]_<<vars, runVars>>
  PROVE  SoundTypeOK'
<1>1. BorrowTypeOK /\ held \in [cfg.locals -> SUBSET Holding(cfg)] /\ misused \in BOOLEAN /\ RunType
  BY DEF SoundTypeOK, Holding, RunType
<1>2. ASSUME cfg' = cfg, UNCHANGED runVars
      PROVE  HeldType' /\ RunType' /\ (misused \in BOOLEAN)'
  <2>1. Holding(cfg)' = Holding(cfg)
    BY <1>2 DEF Holding, LoansOf, Blocks
  <2> QED BY <1>1, <1>2, <2>1 DEF runVars, HeldType, RunType, Running, Blocks, End
<1>3. ASSUME UNCHANGED vars
      PROVE  BorrowTypeOK'
  <2>1. UNCHANGED <<cfg, liveVars>> /\ UNCHANGED borrowVars
    BY <1>3 DEF vars, liveVars, borrowVars
  <2>2. /\ Blocks(cfg)' = Blocks(cfg) /\ BorrowSets(cfg)' = BorrowSets(cfg)
        /\ LoansOf(cfg)' = LoansOf(cfg) /\ cfg.locals' = cfg.locals
        /\ \A b : End(cfg, b)' = End(cfg, b)
    BY <2>1 DEF Blocks, BorrowSets, LoansOf, End
  <2>3. LiveTypeOK'
    BY <1>1, <2>1, <2>2 DEF BorrowTypeOK, LiveTypeOK, liveVars
  <2> QED BY <1>1, <2>1, <2>2, <2>3 DEF borrowVars, BorrowTypeOK
<1>4. ASSUME Next, UNCHANGED runVars
      PROVE  BorrowTypeOK' /\ cfg' = cfg
  <2>1. CASE LiveNext /\ UNCHANGED borrowVars
    BY <1>1, <2>1, VisitBorrowType DEF LiveNext, Visit
  <2>2. CASE CheckNext
    BY <1>1, <2>2, PopType, StepType, CommitType DEF CheckNext
  <2> QED BY <1>4, <2>1, <2>2 DEF Next
<1>5. ASSUME Launch \/ Exec \/ Jump, UNCHANGED vars
      PROVE  HeldType'
  <2>1. CASE Launch
    <3>1. Holding(cfg)' = Holding(cfg) /\ cfg' = cfg /\ held' = held
      BY <1>5, <2>1 DEF Holding, LoansOf, Blocks, vars, Launch
    <3> QED BY <1>1, <3>1 DEF HeldType
  <2>2. CASE Exec \/ Jump
    BY <1>5, <2>2, ExecHeld, JumpHeld
  <2> QED BY <1>5, <2>1, <2>2
<1>6. BorrowTypeOK' /\ HeldType' /\ RunType' /\ (misused \in BOOLEAN)'
  <2>1. CASE Next /\ UNCHANGED runVars
    BY <1>2, <1>4, <2>1
  <2>2. CASE (Launch \/ Exec \/ Jump) /\ UNCHANGED vars
    BY <1>3, <1>5, <2>2, RunPoint
  <2>3. CASE UNCHANGED <<vars, runVars>>
    <3>1. cfg' = cfg /\ UNCHANGED vars /\ UNCHANGED runVars
      BY <2>3 DEF vars
    <3> QED BY <1>2, <1>3, <3>1
  <2> QED BY <2>1, <2>2, <2>3 DEF SoundNext
<1> QED BY <1>6 DEF SoundTypeOK, HeldType, RunType, Holding

LEMMA SoundTypeInit == SoundInit => SoundTypeOK
<1> SUFFICES ASSUME SoundInit PROVE SoundTypeOK
  OBVIOUS
<1>1. cfg \in Cfgs /\ CfgOK(cfg) /\ LiveTypeOK
  BY CfgsOK DEF SoundInit, Init, LiveInit, LiveTypeOK
<1>2. << >> \in BorrowSets(cfg)
  BY DEF BorrowSets
<1>3. work \in Seq(Blocks(cfg)) /\ \A i, j \in 1..Len(work) : work[i] = work[j] => i = j
  <2>1. work = [b \in 1..cfg.n |-> b] /\ cfg.n \in Nat
    BY <1>1 DEF SoundInit, Init, BorrowInit, CfgOK
  <2> QED BY <2>1 DEF Blocks
<1>4. BorrowTypeOK
  BY <1>1, <1>2, <1>3 DEF SoundInit, Init, BorrowInit, BorrowTypeOK
<1> QED BY <1>4 DEF SoundInit, SoundTypeOK, Running

(* The stack of borrows.rs never holds a block twice, and what it takes to *)
(* be active, at every point of every function, are borrows of that        *)
(* function carried by its locals.                                         *)
THEOREM SoundTypeCorrect == SoundSpec => []SoundTypeOK
<1>1. SoundInit => SoundTypeOK
  BY SoundTypeInit
<1>2. SoundTypeOK /\ [SoundNext]_<<vars, runVars>> => SoundTypeOK'
  BY SoundTypeStep
<1> QED BY <1>1, <1>2, PTL DEF SoundSpec

(***************************************************************************)
(* The worklist                                                            *)
(***************************************************************************)
LEMMA StateFacts ==
  ASSUME BorrowTypeOK, NEW b \in Blocks(cfg)
  PROVE  /\ StateAt(b)[0] = Merge(cfg, borrowsOut, b)
         /\ \A i \in 0..Len(cfg.stmts[b]) : StateAt(b)[i] \in BorrowSets(cfg)
         /\ \A i \in 1..Len(cfg.stmts[b]) :
              StateAt(b)[i] = Prune(WithNew(cfg, cfg.stmts[b][i], StateAt(b)[i - 1]),
                                    LiveBefore(cfg, b, i + 1, liveOut[b]))
<1>1. cfg \in Cfgs /\ Merge(cfg, borrowsOut, b) \in BorrowSets(cfg)
  BY BlockFacts DEF BorrowTypeOK, LiveTypeOK
<1> DEFINE start == Merge(cfg, borrowsOut, b)
           W == Walk(cfg, liveOut[b], b, start)
           len == Len(cfg.stmts[b])
<1>2. StateAt(b) = W
  BY DEF StateAt
<1> HIDE DEF start
<1>3. start \in BorrowSets(cfg)
  BY <1>1 DEF start
<1>4. /\ len \in Nat
      /\ W \in [0..len -> BorrowSets(cfg)]
      /\ W[0] = start
      /\ \A i \in 1..len : W[i] = Prune(WithNew(cfg, cfg.stmts[b][i], W[i - 1]),
                                       LiveBefore(cfg, b, i + 1, liveOut[b]))
  BY <1>1, <1>3, WalkFacts
<1> HIDE DEF W, len
<1>5. \A i \in 0..len : W[i] \in BorrowSets(cfg)
  BY <1>4
<1> QED BY <1>2, <1>4, <1>5 DEF start, len

(* What is active in a block depends on the out-states of its predecessors *)
(* only.                                                                   *)
LEMMA StateFrame ==
  ASSUME NEW b, UNCHANGED <<cfg, liveVars>>,
         \A a \in Preds(cfg, b) : borrowsOut'[a] = borrowsOut[a]
  PROVE  /\ StateAt(b)' = StateAt(b)
         /\ AtExit(b)' = AtExit(b)
         /\ \A p : NoConflict(b, p)' <=> NoConflict(b, p)
<1>1. cfg' = cfg /\ liveOut' = liveOut
  BY DEF liveVars
<1>2. Merge(cfg, borrowsOut', b) = Merge(cfg, borrowsOut, b)
  BY MergeFrame
<1>3. StateAt(b)' = StateAt(b)
  BY <1>1, <1>2 DEF StateAt
<1> QED BY <1>1, <1>3 DEF AtExit, NoConflict

LEMMA PopCheck ==
  ASSUME BorrowTypeOK, CheckInv, Pop, UNCHANGED <<cfg, liveVars>>
  PROVE  CheckInv'
<1>1. /\ LivenessDone /\ cur = 0 /\ work # << >>
      /\ cur' = work[Len(work)] /\ work' = SubSeq(work, 1, Len(work) - 1) /\ pos' = 1
      /\ active' = Merge(cfg, borrowsOut, cur')
      /\ borrowsOut' = borrowsOut /\ errors' = errors /\ carriers' = carriers
      /\ cfg' = cfg /\ Blocks(cfg)' = Blocks(cfg) /\ queued' = queued
  BY DEF Pop, liveVars, Blocks
<1>2. work \in Seq(Blocks(cfg)) /\ cur' \in Blocks(cfg)
  <2>1. work \in Seq(Blocks(cfg))
    BY DEF BorrowTypeOK
  <2> QED BY <1>1, <2>1
<1>3. \A b \in Entries(work) : b \in Entries(work') \/ b = cur'
  <2>1. Len(work) \in Nat \ {0}
    BY <1>1, <1>2
  <2>2. work' = [i \in 1..(Len(work) - 1) |-> work[i]]
    BY <1>1, <1>2, <2>1
  <2>3. Len(work') = Len(work) - 1
    BY <2>1, <2>2
  <2> QED BY <1>1, <2>1, <2>2, <2>3 DEF Entries
<1>4. \A b : Visited(b)' <=> Visited(b)
  <2>1. ASSUME NEW b
        PROVE  Visited(b)' <=> Visited(b)
    <3>1. AtExit(b)' = AtExit(b) /\ \A p : NoConflict(b, p)' <=> NoConflict(b, p)
      BY <1>1, StateFrame
    <3> QED BY <1>1, <3>1 DEF Visited, Known, End
  <2> QED BY <2>1
<1>5. (active = StateAt(cur)[pos - 1])'
  <2>1. \A b \in Blocks(cfg) : StateAt(b)[0] = Merge(cfg, borrowsOut, b)
    BY StateFacts
  <2>2. \A b \in Blocks(cfg) :
          Walk(cfg', liveOut'[b], b, Merge(cfg', borrowsOut', b))[0] = Merge(cfg, borrowsOut, b)
    BY <1>1, <2>1 DEF StateAt, liveVars
  <2>3. active' = Walk(cfg', liveOut'[cur'], cur', Merge(cfg', borrowsOut', cur'))[0]
    BY <1>1, <1>2, <2>2
  <2> QED BY <1>1, <2>3 DEF StateAt
<1>6. NoConflict(cur, pos)'
  BY <1>1 DEF NoConflict
<1>7. \A b \in Blocks(cfg) : b \in Entries(work) \/ Visited(b)
  BY <1>1 DEF CheckInv, Blocks
<1>8. \A b \in Blocks(cfg) : Known(borrowsOut[b])'
  BY <1>1 DEF CheckInv, Known
<1> QED BY <1>1, <1>2, <1>3, <1>4, <1>5, <1>6, <1>7, <1>8 DEF CheckInv, LivenessDone

LEMMA StepCheck ==
  ASSUME BorrowTypeOK, CheckInv, Step, UNCHANGED <<cfg, liveVars>>
  PROVE  CheckInv'
<1> DEFINE s == cfg.stmts[cur][pos]
<1>1. /\ cur # 0 /\ pos # End(cfg, cur) /\ pos' = pos + 1
      /\ errors' = errors \cup {[at |-> <<cur, pos>>, why |-> w] : w \in Conflicts(cfg, s, active)}
      /\ active' = Prune(WithNew(cfg, s, active), LiveBefore(cfg, cur, pos + 1, liveOut[cur]))
      /\ UNCHANGED <<work, cur, borrowsOut, carriers>> /\ cfg' = cfg /\ queued' = queued
      /\ Blocks(cfg)' = Blocks(cfg)
  BY DEF Step, AtEnd, liveVars, Blocks
<1>2. cur \in Blocks(cfg) /\ pos \in 1..Len(cfg.stmts[cur])
  <2>1. cur \in Blocks(cfg) /\ pos \in 1..End(cfg, cur)
    BY <1>1 DEF BorrowTypeOK
  <2> QED BY <1>1, <2>1, BlockFacts
<1>3. /\ LivenessDone /\ active = StateAt(cur)[pos - 1] /\ (errors = {} => NoConflict(cur, pos))
      /\ \A b \in Blocks(cfg) : b \in Entries(work) \/ b = cur \/ Visited(b)
      /\ \A b \in Blocks(cfg) : Known(borrowsOut[b])
  BY <1>1 DEF CheckInv
<1>4. ASSUME NEW b
      PROVE  /\ StateAt(b)' = StateAt(b) /\ AtExit(b)' = AtExit(b)
             /\ \A p : NoConflict(b, p)' <=> NoConflict(b, p)
  BY <1>1, StateFrame
<1>5. errors' = {} => errors = {} /\ Conflicts(cfg, s, active) = {}
  BY <1>1
<1>6. \A b : Visited(b) => Visited(b)'
  BY <1>1, <1>4, <1>5 DEF Visited, Known, End
<1>7. (active = StateAt(cur)[pos - 1])'
  <2>1. StateAt(cur)[pos] =
          Prune(WithNew(cfg, s, StateAt(cur)[pos - 1]), LiveBefore(cfg, cur, pos + 1, liveOut[cur]))
    BY <1>2, StateFacts
  <2>2. active' = StateAt(cur)[pos] /\ pos' - 1 = pos
    BY <1>1, <1>2, <1>3, <2>1
  <2> QED BY <1>1, <1>4, <2>2 DEF StateAt
<1>8. (errors = {} => NoConflict(cur, pos))'
  <2> SUFFICES ASSUME errors' = {} PROVE NoConflict(cur, pos)'
    OBVIOUS
  <2>1. NoConflict(cur, pos) /\ Conflicts(cfg, s, StateAt(cur)[pos - 1]) = {}
    BY <1>3, <1>5
  <2>2. \A i \in 1..((pos + 1) - 1) : i \in 1..(pos - 1) \/ i = pos
    BY <1>2
  <2>3. NoConflict(cur, pos + 1)
    BY <2>1, <2>2 DEF NoConflict
  <2>4. \A b, p : b = cur /\ p = pos + 1 => NoConflict(b, p)'
    BY <1>4, <2>3
  <2> QED BY <1>1, <2>4 DEF NoConflict
<1>9. \A b \in Blocks(cfg) : Known(borrowsOut[b])'
  BY <1>1, <1>3 DEF Known
<1> HIDE DEF s
<1> QED BY <1>1, <1>3, <1>6, <1>7, <1>8, <1>9 DEF CheckInv, LivenessDone

LEMMA CommitCheck ==
  ASSUME BorrowTypeOK, CheckInv, Commit, UNCHANGED <<cfg, liveVars>>
  PROVE  CheckInv'
<1>1. /\ cur # 0 /\ pos = End(cfg, cur) /\ cur' = 0
      /\ carriers' = carriers \cup {[id |-> e.loan.id, dest |-> e.dest] : e \in Entries(active)}
      /\ \/ SameBorrows(active, borrowsOut[cur]) /\ work' = work /\ borrowsOut' = borrowsOut
         \/ /\ borrowsOut' = [borrowsOut EXCEPT ![cur] = active]
            /\ work' = Push(work, cfg.succ[cur])
      /\ active' = active /\ errors' = errors /\ cfg' = cfg /\ queued' = queued
      /\ Blocks(cfg)' = Blocks(cfg)
  BY DEF Commit, AtEnd, liveVars, Blocks
<1>2. /\ cur \in Blocks(cfg) /\ 0 \notin Blocks(cfg)
      /\ borrowsOut \in [Blocks(cfg) -> BorrowSets(cfg)]
      /\ work \in Seq(Blocks(cfg)) /\ \A i, j \in 1..Len(work) : work[i] = work[j] => i = j
  BY <1>1 DEF BorrowTypeOK, Blocks
<1>3. /\ LivenessDone /\ active = StateAt(cur)[pos - 1] /\ (errors = {} => NoConflict(cur, pos))
      /\ \A b \in Blocks(cfg) : b \in Entries(work) \/ b = cur \/ Visited(b)
      /\ \A b \in Blocks(cfg) : Known(borrowsOut[b])
  BY <1>1 DEF CheckInv
<1>4. active = AtExit(cur)
  BY <1>1, <1>2, <1>3, BlockFacts DEF AtExit
<1>5. Known(active)' /\ \A A : Known(A) => Known(A)'
  BY <1>1 DEF Known
<1>6. ASSUME NEW b \in Blocks(cfg), b \notin Entries(work')
      PROVE  /\ b \notin Entries(work)
             /\ AtExit(b)' = AtExit(b)
             /\ \A p : NoConflict(b, p)' <=> NoConflict(b, p)
  <2>1. CASE borrowsOut' = borrowsOut /\ work' = work
    BY <1>1, <1>6, <2>1, StateFrame
  <2>2. CASE /\ borrowsOut' = [borrowsOut EXCEPT ![cur] = active]
             /\ work' = Push(work, cfg.succ[cur])
    <3>1. Entries(work) \cup Succs(cfg, cur) \subseteq Entries(work')
      BY <1>2, <2>2, BlockFacts, PushFacts
    <3>2. cur \notin Preds(cfg, b)
      BY <1>6, <3>1 DEF Preds
    <3>3. \A a \in Preds(cfg, b) : a \in Blocks(cfg) /\ a # cur
      BY <3>2 DEF Preds
    <3>4. \A a \in Preds(cfg, b) : borrowsOut'[a] = borrowsOut[a]
      BY <1>2, <2>2, <3>3
    <3> QED BY <1>6, <3>1, <3>4, StateFrame
  <2> QED BY <1>1, <2>1, <2>2
<1>7. \A b \in Blocks(cfg) : b # cur => borrowsOut'[b] = borrowsOut[b]
  BY <1>1, <1>2
<1>8. Ids(active) \subseteq Ids(borrowsOut'[cur])
  BY <1>1, <1>2 DEF SameBorrows
<1>9. ASSUME NEW b \in Blocks(cfg), b \notin Entries(work')
      PROVE  Visited(b)'
  <2>1. AtExit(b)' = AtExit(b) /\ (\A p : NoConflict(b, p)' <=> NoConflict(b, p))
    BY <1>6, <1>9
  <2>2. CASE b = cur
    <3>1. AtExit(b) = active
      BY <1>4, <2>2
    <3>2. errors' = {} => NoConflict(b, End(cfg, b))
      BY <1>1, <1>3, <2>2
    <3> QED BY <1>1, <1>5, <1>8, <2>1, <2>2, <3>1, <3>2 DEF Visited, Known, End
  <2>3. CASE b # cur
    <3>1. Visited(b)
      BY <1>3, <1>6, <1>9, <2>3
    <3>2. borrowsOut'[b] = borrowsOut[b]
      BY <1>7, <2>3
    <3>3. Known(AtExit(b))'
      BY <1>1, <2>1, <3>1 DEF Visited, Known
    <3> QED BY <1>1, <2>1, <3>1, <3>2, <3>3 DEF Visited, End
  <2> QED BY <2>2, <2>3
<1>10. ASSUME NEW b \in Blocks(cfg)
       PROVE  Known(borrowsOut[b])'
  <2>1. borrowsOut'[b] = borrowsOut[b] \/ borrowsOut'[b] = active
    BY <1>1, <1>2
  <2>2. Known(borrowsOut[b])
    BY <1>3
  <2> QED BY <1>1, <2>1, <2>2 DEF Known
<1> QED BY <1>1, <1>3, <1>9, <1>10 DEF CheckInv, LivenessDone

LEMMA VisitCheck ==
  ASSUME BorrowTypeOK, CheckInv, LiveNext, UNCHANGED borrowVars
  PROVE  CheckInv'
<1>1. cfg' = cfg /\ Blocks(cfg)' = Blocks(cfg) /\ ~ LivenessDone
  BY DEF LiveNext, Visit, LivenessDone, Blocks
<1>2. cur = 0 /\ Blocks(cfg) \subseteq Entries(work) /\ \A b \in Blocks(cfg) : Known(borrowsOut[b])
  BY <1>1 DEF CheckInv
<1>3. /\ work' = work /\ cur' = cur /\ borrowsOut' = borrowsOut /\ carriers' = carriers
  BY DEF borrowVars
<1> QED BY <1>1, <1>2, <1>3 DEF CheckInv, Known

(***************************************************************************)
(* The run of an accepted function                                         *)
(***************************************************************************)
(* Two borrow expressions never have the same region.                      *)
LEMMA LoanUnique ==
  ASSUME NEW c \in Cfgs, NEW m \in LoansOf(c), NEW n \in LoansOf(c), m.id = n.id
  PROVE  m = n
<1>1. PICK b1 \in Blocks(c) : \E i \in 1..Len(c.stmts[b1]) : m \in c.stmts[b1][i].loans
  BY DEF LoansOf
<1>2. PICK i1 \in 1..Len(c.stmts[b1]) : m \in c.stmts[b1][i1].loans
  BY <1>1
<1>3. PICK b2 \in Blocks(c) : \E i \in 1..Len(c.stmts[b2]) : n \in c.stmts[b2][i].loans
  BY DEF LoansOf
<1>4. PICK i2 \in 1..Len(c.stmts[b2]) : n \in c.stmts[b2][i2].loans
  BY <1>3
<1>5. b1 = b2 /\ i1 = i2
  <2>1. LoanIdsDiffer(c)
    BY CfgsOK DEF CfgOK
  <2> QED BY <2>1, <1>2, <1>4 DEF LoanIdsDiffer
<1> DEFINE s == c.stmts[b1][i1]
<1>6. StmtOK(c, s) /\ m \in s.loans
  BY <1>2, StmtFacts
<1>7. n \in s.loans
  BY <1>4, <1>5
<1> HIDE DEF s
<1>8. PICK k : s.loans = {k}
  BY <1>6 DEF StmtOK
<1> QED BY <1>6, <1>7, <1>8

(* A statement without conflicts breaks none of the active borrows.        *)
LEMMA Unbroken ==
  ASSUME NEW c, NEW s, NEW A, Entries(A) \subseteq Entries(WithNew(c, s, A)),
         Conflicts(c, s, A) = {}, NEW e \in Entries(A)
  PROVE  ~ BrokenBy(s, e.loan)
<1>1. "write" \notin Conflicts(c, s, A) /\ \A w : w \notin ReadConflicts(s, A)
  BY DEF Conflicts
<1>2. ~ Overlaps(e.loan.pl, s.dest)
  BY <1>1 DEF Conflicts
<1>3. \A r \in s.reads : r.k = "move" => ~ Overlaps(e.loan.pl, r.pl)
  BY <1>1 DEF ReadConflicts
<1>4. \A r \in s.reads : r.k # "move" /\ e.loan.mut => ~ Overlaps(e.loan.pl, r.pl)
  BY <1>1 DEF ReadConflicts
<1>5. \A m \in s.loans : m.mut \/ e.loan.mut => ~ Overlaps(e.loan.pl, m.pl)
  BY <1>1 DEF ReadConflicts
<1> QED BY <1>2, <1>3, <1>4, <1>5 DEF BrokenBy

(* While a function runs, the check has ended and does not start again.    *)
LEMMA CheckStopped ==
  ASSUME RunInv, Next, UNCHANGED runVars
  PROVE  RunInv'
<1>1. CASE Running
  <2>1. queued = {} /\ cur = 0 /\ work = << >>
    BY <1>1 DEF RunInv, Checked, LivenessDone
  <2>2. ~ LiveNext /\ ~ Pop /\ ~ Step /\ ~ Commit
    BY <2>1 DEF LiveNext, Pop, Step, Commit
  <2> QED BY <2>2 DEF Next, CheckNext
<1>2. CASE ~ Running
  <2>1. cfg' = cfg
    BY DEF Next, CheckNext, LiveNext, Visit
  <2> QED BY <1>2, <2>1 DEF RunInv, runVars, Running
<1> QED BY <1>1, <1>2

(* What the run is about does not change while it goes on.                 *)
LEMMA RunFrame ==
  ASSUME UNCHANGED vars
  PROVE  /\ cfg' = cfg /\ (Checked' <=> Checked) /\ errors' = errors /\ liveOut' = liveOut
         /\ (Premises' <=> Premises)
         /\ \A b : StateAt(b)' = StateAt(b)
<1>1. /\ UNCHANGED <<cfg, liveVars>> /\ borrowsOut' = borrowsOut /\ carriers' = carriers
      /\ errors' = errors /\ work' = work /\ cur' = cur
  BY DEF vars, borrowVars
<1>2. cfg' = cfg /\ liveOut' = liveOut /\ queued' = queued
  BY <1>1 DEF liveVars
<1>3. \A b : StateAt(b)' = StateAt(b)
  BY <1>1, StateFrame
<1>4. /\ LoansOf(cfg)' = LoansOf(cfg) /\ Statements(cfg)' = Statements(cfg)
      /\ Blocks(cfg)' = Blocks(cfg)
  BY <1>2 DEF LoansOf, Statements, Blocks
<1>5. Premises' <=> Premises
  BY <1>1, <1>2, <1>4 DEF Premises, OneCarrier, NoReborrow, NoWriteThrough, NoBorrowedTest, LoansOf,
                          Statements, Blocks
<1> QED BY <1>1, <1>2, <1>3, <1>5 DEF Checked, LivenessDone

LEMMA LaunchRun ==
  ASSUME SoundTypeOK, RunInv, Launch, UNCHANGED vars
  PROVE  RunInv'
<1>1. /\ Checked /\ errors = {} /\ ~ Running /\ pc' = <<cfg.entry, 1>>
      /\ held' = held /\ misused' = misused
  BY DEF Launch
<1>2. ~ misused /\ \A l \in cfg.locals : held[l] = {}
  BY <1>1 DEF RunInv
<1>3. cfg' = cfg /\ (Checked' <=> Checked) /\ errors' = errors
  BY RunFrame
<1>4. Running'
  BY <1>1 DEF Running
<1>5. LiveHere' \subseteq cfg.locals
  BY <1>3 DEF LiveHere, LiveBefore
<1>6. Covered'
  BY <1>1, <1>2, <1>5 DEF Covered
<1> QED BY <1>1, <1>2, <1>3, <1>4, <1>6 DEF RunInv

(* What is live before a statement: what it uses, and what is live after   *)
(* it and not overwritten by it.                                           *)
LEMMA LiveAround ==
  ASSUME BorrowTypeOK, NEW b \in Blocks(cfg), NEW i \in 1..End(cfg, b)
  PROVE  /\ Uses(cfg, b, i) \subseteq LiveBefore(cfg, b, i, liveOut[b])
         /\ i # End(cfg, b) => \A l \in LiveBefore(cfg, b, i + 1, liveOut[b]) :
              l \notin Kills(cfg, b, i) => l \in LiveBefore(cfg, b, i, liveOut[b])
         /\ i = End(cfg, b) => liveOut[b] \subseteq LiveBefore(cfg, b, i, liveOut[b])
<1>1. /\ cfg \in Cfgs /\ liveOut[b] \subseteq cfg.locals
      /\ End(cfg, b) \in Nat /\ i \in Nat /\ i <= End(cfg, b)
  <2>1. cfg \in Cfgs /\ liveOut[b] \subseteq cfg.locals
    BY DEF BorrowTypeOK, LiveTypeOK
  <2>2. End(cfg, b) \in Nat
    BY BlockFacts
  <2> QED BY <2>1, <2>2
<1>2. Uses(cfg, b, i) \subseteq cfg.locals
  BY <1>1, UsesAreLocals
<1>3. LiveBefore(cfg, b, i, liveOut[b]) =
        Uses(cfg, b, i) \cup
          ((IF i = End(cfg, b) THEN liveOut[b] ELSE LiveBefore(cfg, b, i + 1, liveOut[b]))
             \ Kills(cfg, b, i))
  BY <1>1, <1>2, LiveBeforeIsBackward
<1>4. i = End(cfg, b) => Kills(cfg, b, i) = {}
  BY DEF Kills
<1> QED BY <1>3, <1>4

(* A statement of an accepted function breaks nothing a live local holds,  *)
(* and what its destination is made from stays known.                      *)
LEMMA ExecRun ==
  ASSUME SoundTypeOK, CheckInv, RunInv, Exec, UNCHANGED vars,
         NEW b, NEW i, b = pc[1], i = pc[2], NEW s, s = Stmt
  PROVE  RunInv'
<1> DEFINE A == StateAt(b)[i - 1]
           W == WithNew(cfg, s, A)
           d == Root(s.dest)
           before == LiveBefore(cfg, b, i, liveOut[b])
           after == LiveBefore(cfg, b, i + 1, liveOut[b])
<1>1. /\ Running /\ Checked /\ errors = {} /\ i # End(cfg, b) /\ BorrowTypeOK
      /\ pc' = <<b, i + 1>>
      /\ held' = [l \in cfg.locals |->
                    IF l # d THEN After(s, held[l])
                    ELSE Made(s) \cup (IF IsLocal(s.dest) THEN {} ELSE After(s, held[l]))]
      /\ misused' = (misused \/ ReadBroken(Uses(cfg, b, i) \cup Through(s)))
  BY DEF Exec, AtTest, RunInv, SoundTypeOK
<1>2. /\ cfg \in Cfgs /\ b \in Blocks(cfg) /\ i \in 1..End(cfg, b) /\ i \in 1..Len(cfg.stmts[b])
      /\ s = cfg.stmts[b][i]
  <2>1. cfg \in Cfgs /\ b \in Blocks(cfg) /\ i \in 1..End(cfg, b)
    BY <1>1 DEF SoundTypeOK, BorrowTypeOK, LiveTypeOK
  <2>2. Len(cfg.stmts[b]) \in Nat /\ End(cfg, b) = Len(cfg.stmts[b]) + 1
    BY <1>1, <2>1, BlockFacts
  <2> QED BY <1>1, <2>1, <2>2 DEF Stmt
<1>3. held \in [cfg.locals -> SUBSET Holding(cfg)]
  BY DEF SoundTypeOK, Holding
<1>4. /\ StmtOK(cfg, s) /\ s.loans \subseteq LoansOf(cfg) /\ d \in cfg.locals
      /\ s \in Statements(cfg)
  BY <1>2, StmtFacts
<1>5. /\ cfg' = cfg /\ Checked' /\ errors' = {} /\ liveOut' = liveOut
      /\ (Premises' <=> Premises) /\ StateAt(b)' = StateAt(b)
  BY <1>1, RunFrame
<1>6. /\ Running' /\ pc'[1] = b /\ pc'[2] = i + 1 /\ (i + 1) - 1 = i
      /\ LiveHere' = after
  <2>1. pc' # <<0, 0>> /\ i \in Nat
    BY <1>1, <1>2 DEF Blocks
  <2> QED BY <1>1, <1>5, <2>1 DEF Running, LiveHere
<1>7. A \in BorrowSets(cfg) /\ StateAt(b)[i] = Prune(W, after)
  <2>1. i - 1 \in 0..Len(cfg.stmts[b])
    BY <1>2
  <2> QED BY <1>1, <1>2, <2>1, StateFacts
<1>8. /\ Conflicts(cfg, s, A) = {}
  <2>1. Visited(b)
    BY <1>1, <1>2 DEF CheckInv, Checked, Entries, Blocks
  <2>2. i \in 1..(End(cfg, b) - 1)
    BY <1>1, <1>2, BlockFacts
  <2> QED BY <1>1, <1>2, <2>1, <2>2 DEF Visited, NoConflict
<1> HIDE DEF A, W, d, before, after
<1>9. /\ W \in BorrowSets(cfg) /\ Entries(A) \subseteq Entries(W)
      /\ \A n \in s.loans : [loan |-> n, dest |-> d] \in Entries(W)
      /\ s.loans = {} /\ d \in cfg.refs =>
           \A e \in Entries(A) : e.dest \in Sources(s) /\ e.dest # d =>
             [loan |-> e.loan, dest |-> d] \in Entries(W)
  BY <1>4, <1>7, WithNewFacts DEF W, d
<1>10. Entries(StateAt(b)[i]) = {e \in Entries(W) : e.dest \in after}
  BY <1>7, <1>9, CarriedFacts DEF Prune, BorrowSets
<1>11. SUFFICES ASSUME Premises
                PROVE  /\ ~ misused'
                       /\ \A l \in cfg.locals : held'[l] # {} => l \in cfg.refs
                       /\ Covered'
  BY <1>1, <1>5, <1>6 DEF RunInv
<1>12. /\ ~ misused /\ (\A l \in cfg.locals : held[l] # {} => l \in cfg.refs)
       /\ \A l \in before : \A h \in held[l] :
            h.ok /\ [loan |-> h.loan, dest |-> l] \in Entries(A)
  BY <1>1, <1>11 DEF RunInv, Covered, LiveHere, before, A
<1>13. Through(s) = {} /\ \A n \in s.loans : Root(n.pl) \notin cfg.refs
  BY <1>4, <1>11 DEF Premises, NoWriteThrough, NoReborrow
<1>14. before \subseteq cfg.locals /\ after \subseteq cfg.locals
  BY DEF before, after, LiveBefore
<1>15. /\ Uses(cfg, b, i) \subseteq before
       /\ \A l \in after : l \notin Kills(cfg, b, i) => l \in before
       /\ Kills(cfg, b, i) = IF IsLocal(s.dest) THEN {d} ELSE {}
       /\ Sources(s) \subseteq Uses(cfg, b, i)
       /\ {Root(n.pl) : n \in s.loans} \subseteq Uses(cfg, b, i)
  <2>1. /\ Uses(cfg, b, i) \subseteq before
        /\ \A l \in after : l \notin Kills(cfg, b, i) => l \in before
    BY <1>1, <1>2, LiveAround DEF before, after
  <2>2. Kills(cfg, b, i) = IF IsLocal(s.dest) THEN {d} ELSE {}
    BY <1>1, <1>2 DEF Kills, d
  <2>3. /\ Sources(s) \subseteq Uses(cfg, b, i)
        /\ {Root(n.pl) : n \in s.loans} \subseteq Uses(cfg, b, i)
    BY <1>2, UsesAreLocals
  <2> QED BY <2>1, <2>2, <2>3
<1>16. ~ misused'
  <2>1. ~ ReadBroken(Uses(cfg, b, i) \cup Through(s))
    BY <1>12, <1>13, <1>15 DEF ReadBroken
  <2> QED BY <1>1, <1>12, <2>1, Zenon
<1>17. ASSUME NEW l \in before, NEW g \in After(s, held[l])
       PROVE  g.ok /\ [loan |-> g.loan, dest |-> l] \in Entries(A)
  <2>1. PICK h \in held[l] : g.loan = h.loan /\ (g.ok <=> h.ok /\ ~ BrokenBy(s, h.loan))
    BY <1>3, <1>14, AfterFacts
  <2> DEFINE e == [loan |-> h.loan, dest |-> l]
  <2>2. h.ok /\ e \in Entries(A)
    BY <1>12
  <2>3. ~ BrokenBy(s, e.loan)
    <3> HIDE DEF e
    <3> QED BY <1>8, <1>9, <2>2, Unbroken DEF W
  <2> QED BY <2>1, <2>2, <2>3
<1>18. ASSUME NEW g \in Made(s)
       PROVE  d \in cfg.refs /\ g.ok /\ [loan |-> g.loan, dest |-> d] \in Entries(W)
  <2>1. CASE \E n \in s.loans : g = [loan |-> n, ok |-> TRUE]
    <3>1. PICK n \in s.loans : g = [loan |-> n, ok |-> TRUE]
      BY <2>1
    <3>2. d \in cfg.refs
      BY <1>4, <1>13 DEF StmtOK, Through, d
    <3>3. g.ok /\ g.loan = n
      BY <3>1
    <3> QED BY <1>9, <3>2, <3>3
  <2>2. CASE /\ d \in cfg.refs
             /\ \E l \in Sources(s) \cup {Root(n.pl) : n \in s.loans} : g \in After(s, held[l])
    <3>1. PICK l \in Sources(s) \cup {Root(n.pl) : n \in s.loans} : g \in After(s, held[l])
      BY <2>2
    <3>2. l \in before /\ l \in cfg.locals
      BY <1>14, <1>15
    <3>3. l \in cfg.refs
      BY <1>12, <3>1, <3>2 DEF After
    <3>4. l \in Sources(s)
      BY <1>13, <3>3
    <3>5. s.loans = {}
      BY <1>4, <3>4 DEF StmtOK, Sources
    <3> DEFINE e == [loan |-> g.loan, dest |-> l]
    <3>6. g.ok /\ e \in Entries(A)
      BY <1>17, <3>1, <3>2
    <3>7. e.loan = g.loan /\ e.dest = l
      OBVIOUS
    <3>8. CASE l = d
      BY <1>9, <2>2, <3>6, <3>8
    <3>9. CASE l # d
      <4> HIDE DEF e
      <4> QED BY <1>9, <2>2, <3>4, <3>5, <3>6, <3>7, <3>9
    <3> QED BY <3>8, <3>9
  <2> QED BY <2>1, <2>2 DEF Made, d
<1>19. ASSUME NEW l \in cfg.locals, held'[l] # {}
       PROVE  l \in cfg.refs
  <2>1. After(s, held[l]) # {} => l \in cfg.refs
    BY <1>12 DEF After
  <2>2. CASE l # d
    BY <1>1, <1>19, <2>1, <2>2
  <2>3. CASE l = d
    BY <1>1, <1>18, <1>19, <2>1, <2>3
  <2> QED BY <2>2, <2>3
<1>20. ASSUME NEW l \in after, NEW g \in held'[l]
       PROVE  g.ok /\ [loan |-> g.loan, dest |-> l] \in Entries(StateAt(b)[i])
  <2>1. l \in cfg.locals
    BY <1>14
  <2>2. CASE g \in After(s, held[l]) /\ (l # d \/ ~ IsLocal(s.dest))
    <3>1. l \in before
      BY <1>15, <2>2
    <3>2. g.ok /\ [loan |-> g.loan, dest |-> l] \in Entries(A)
      BY <1>17, <2>2, <3>1
    <3> QED BY <1>9, <1>10, <3>2
  <2>3. CASE l = d /\ g \in Made(s)
    BY <1>10, <1>18, <2>3
  <2>4. g \in IF l # d THEN After(s, held[l])
             ELSE Made(s) \cup (IF IsLocal(s.dest) THEN {} ELSE After(s, held[l]))
    BY <1>1, <1>20, <2>1
  <2> QED BY <2>2, <2>3, <2>4
<1>21. Covered'
  BY <1>5, <1>6, <1>20 DEF Covered
<1> QED BY <1>16, <1>19, <1>21

(* A jump passes on what is active: every borrow a local holds that is     *)
(* live in the next block is active at its start, under the same carrier.  *)
LEMMA JumpRun ==
  ASSUME SoundTypeOK, LiveIInv, CheckInv, RunInv, Jump, UNCHANGED vars,
         NEW b, NEW a, b = pc[1], a \in Succs(cfg, b), pc' = <<a, 1>>
  PROVE  RunInv'
<1> DEFINE before == LiveBefore(cfg, b, End(cfg, b), liveOut[b])
           A == AtExit(b)
           M == Merge(cfg, borrowsOut, a)
<1>1. /\ Running /\ Checked /\ errors = {} /\ BorrowTypeOK /\ pc[2] = End(cfg, b)
      /\ misused' = (misused \/ ReadBroken(Uses(cfg, b, pc[2])))
  BY DEF Jump, AtTest, RunInv, SoundTypeOK
<1>2. /\ cfg \in Cfgs /\ b \in Blocks(cfg) /\ a \in Blocks(cfg) /\ End(cfg, b) \in 1..End(cfg, b)
      /\ held \in [cfg.locals -> SUBSET Holding(cfg)] /\ CfgOK(cfg) /\ LivenessDone /\ cfg.n \in Nat
  <2>1. /\ cfg \in Cfgs /\ b \in Blocks(cfg) /\ End(cfg, b) \in 1..End(cfg, b)
        /\ held \in [cfg.locals -> SUBSET Holding(cfg)]
    BY <1>1 DEF SoundTypeOK, BorrowTypeOK, LiveTypeOK, Holding
  <2>2. a \in Blocks(cfg)
    BY <2>1, EdgesInBlocks
  <2> QED BY <1>1, <2>1, <2>2, CfgsOK DEF Checked, CfgOK
<1>3. /\ cfg' = cfg /\ Checked' /\ errors' = {} /\ liveOut' = liveOut
      /\ (Premises' <=> Premises) /\ StateAt(a)' = StateAt(a)
  BY <1>1, RunFrame
<1>4. /\ Running' /\ pc'[1] = a /\ pc'[2] = 1 /\ 1 - 1 = 0
      /\ LiveHere' = LiveBefore(cfg, a, 1, liveOut[a])
  BY <1>2, <1>3 DEF Running, LiveHere, Blocks
<1>5. StateAt(a)[0] = M /\ StateAt(b)[pc[2] - 1] = A /\ A \in BorrowSets(cfg)
  <2>1. End(cfg, b) - 1 = Len(cfg.stmts[b]) /\ Len(cfg.stmts[b]) \in 0..Len(cfg.stmts[b])
    BY <1>1, <1>2, BlockFacts
  <2> QED BY <1>1, <1>2, <2>1, StateFacts DEF AtExit
<1>6. /\ LiveBefore(cfg, a, 1, liveOut[a]) \subseteq before
      /\ Uses(cfg, b, End(cfg, b)) \subseteq before
  <2>1. liveIn[a] = LiveBefore(cfg, a, 1, liveOut[a]) /\ liveIn[a] \subseteq liveOut[b]
    BY <1>2 DEF LiveIInv, Settled, Agrees, LivenessDone
  <2> QED BY <1>1, <1>2, <2>1, LiveAround
<1>7. SUFFICES ASSUME Premises
               PROVE  /\ ~ misused'
                      /\ \A l \in cfg.locals : held'[l] # {} => l \in cfg.refs
                      /\ Covered'
  BY <1>3, <1>4 DEF RunInv
<1>8. /\ ~ misused /\ (\A l \in cfg.locals : held[l] # {} => l \in cfg.refs)
      /\ \A l \in before : \A h \in held[l] : h.ok /\ [loan |-> h.loan, dest |-> l] \in Entries(A)
  BY <1>1, <1>5, <1>7 DEF RunInv, Covered, LiveHere
<1>9. ~ misused'
  <2>1. ~ ReadBroken(Uses(cfg, b, pc[2]))
    BY <1>1, <1>6, <1>8 DEF ReadBroken
  <2> QED BY <1>1, <1>8, <2>1, Zenon
<1>10. ASSUME NEW l \in cfg.locals, NEW g \in held'[l]
       PROVE  \E h \in held[l] : g.loan = h.loan /\ (g.ok <=> h.ok) /\ h \in Holding(cfg)
  <2>1. PICK h \in held[l] :
          /\ g.loan = h.loan
          /\ g.ok <=> h.ok /\ ~ (h.loan.mut /\ \E p \in cfg.tests[pc[1]] : Overlaps(h.loan.pl, p))
    BY <1>10, JumpHeld
  <2>2. h \in Holding(cfg) /\ h.loan \in LoansOf(cfg)
    BY <1>2 DEF Holding
  <2>3. \A p \in cfg.tests[b] : ~ Overlaps(h.loan.pl, p)
    BY <1>2, <1>7, <2>2 DEF Premises, NoBorrowedTest
  <2> QED BY <2>1, <2>2, <2>3
<1>11. \A l \in cfg.locals : held'[l] # {} => l \in cfg.refs
  BY <1>8, <1>10
<1>12. ASSUME NEW e \in Entries(A)
       PROVE  e \in Entries(M)
  <2>1. Visited(b) /\ \A c \in Blocks(cfg) : Known(borrowsOut[c])
    BY <1>1, <1>2 DEF CheckInv, Checked, Entries, Blocks
  <2>2. [id |-> e.loan.id, dest |-> e.dest] \in carriers /\ e.loan.id \in Ids(borrowsOut[b])
    BY <2>1 DEF Visited, Known, Ids
  <2>3. b \in Preds(cfg, a) /\ a # cfg.entry
    BY <1>2 DEF Preds, CfgOK
  <2>4. /\ M \in BorrowSets(cfg)
        /\ \A f \in Entries(M) : \E c \in Preds(cfg, a) : f \in Entries(borrowsOut[c])
        /\ Ids(borrowsOut[b]) \subseteq Ids(M)
    <3>1. \A c \in Preds(cfg, a) : borrowsOut[c] \in Seq(Carriage(cfg))
      BY <1>1 DEF Preds, BorrowTypeOK, BorrowSets, Carriage
    <3> QED BY <1>2, <2>3, <3>1, MergeFacts DEF BorrowSets, Carriage
  <2>5. PICK f \in Entries(M) : f.loan.id = e.loan.id
    BY <2>2, <2>4 DEF Ids
  <2>6. PICK c \in Preds(cfg, a) : f \in Entries(borrowsOut[c])
    BY <2>4
  <2>7. [id |-> f.loan.id, dest |-> f.dest] \in carriers
    BY <2>1, <2>6 DEF Known, Preds
  <2>8. f.dest = e.dest
    BY <1>7, <2>2, <2>5, <2>7 DEF Premises, OneCarrier
  <2>9. \A B \in BorrowSets(cfg) : \A x \in Entries(B) : x \in Carriage(cfg)
    <3>1. ASSUME NEW B \in Seq(Carriage(cfg)), NEW x \in Entries(B)
          PROVE  x \in Carriage(cfg)
      BY DEF Entries
    <3> QED BY <3>1 DEF BorrowSets, Carriage
  <2>10. e \in Carriage(cfg) /\ f \in Carriage(cfg)
    BY <1>5, <2>4, <2>9
  <2>11. f.loan = e.loan
    BY <1>2, <2>5, <2>10, LoanUnique DEF Carriage
  <2>12. f = e
    BY <2>8, <2>10, <2>11 DEF Carriage
  <2> QED BY <2>12
<1>13. ASSUME NEW l \in LiveBefore(cfg, a, 1, liveOut[a]), NEW g \in held'[l]
       PROVE  g.ok /\ [loan |-> g.loan, dest |-> l] \in Entries(M)
  <2>1. l \in before /\ l \in cfg.locals
    BY <1>6 DEF LiveBefore
  <2>2. PICK h \in held[l] : g.loan = h.loan /\ (g.ok <=> h.ok)
    BY <1>10, <2>1
  <2>3. h.ok /\ [loan |-> h.loan, dest |-> l] \in Entries(A)
    BY <1>8, <2>1
  <2> QED BY <1>12, <2>2, <2>3
<1>14. Covered'
  BY <1>3, <1>4, <1>5, <1>13 DEF Covered
<1> QED BY <1>9, <1>11, <1>14

(***************************************************************************)
(* The theorem                                                             *)
(***************************************************************************)
LEMMA SoundLive ==
  ASSUME LiveIInv, [SoundNext]_<<vars, runVars>>
  PROVE  LiveIInv'
<1>1. CASE LiveNext
  <2>1. PICK b \in queued : Visit(b)
    BY <1>1 DEF LiveNext
  <2>2. LiveTypeOK'
    BY <2>1, VisitType DEF LiveIInv
  <2>3. Settled' /\ Founded'
    BY <2>1, VisitSettled, VisitFounded
  <2> QED BY <2>2, <2>3 DEF LiveIInv
<1>2. CASE UNCHANGED <<cfg, liveVars>>
  BY <1>2 DEF liveVars, LiveIInv, LiveTypeOK, Settled, Agrees, Founded, LiveAtStart, LiveFrom,
              ReadsFirst, Overwrites
<1> QED BY <1>1, <1>2 DEF SoundNext, Next, CheckNext, vars

LEMMA SoundStep ==
  ASSUME Inv, [SoundNext]_<<vars, runVars>>
  PROVE  Inv'
<1>1. SoundTypeOK /\ LiveIInv /\ CheckInv /\ RunInv /\ BorrowTypeOK
  BY DEF Inv, SoundTypeOK
<1>2. SoundTypeOK' /\ LiveIInv'
  BY <1>1, SoundTypeStep, SoundLive
<1>3. ASSUME UNCHANGED vars
      PROVE  CheckInv'
  <2>1. /\ UNCHANGED <<cfg, liveVars>> /\ cfg' = cfg /\ queued' = queued
        /\ work' = work /\ cur' = cur
        /\ pos' = pos /\ active' = active /\ borrowsOut' = borrowsOut /\ errors' = errors
        /\ carriers' = carriers
    BY <1>3 DEF vars, liveVars, borrowVars
  <2>2. \A b : /\ StateAt(b)' = StateAt(b) /\ AtExit(b)' = AtExit(b)
              /\ \A p : NoConflict(b, p)' <=> NoConflict(b, p)
    BY <2>1, StateFrame
  <2>3. \A b : Visited(b)' <=> Visited(b)
    BY <2>1, <2>2 DEF Visited, Known, End
  <2>4. (active = StateAt(cur)[pos - 1])' <=> (active = StateAt(cur)[pos - 1])
    BY <2>1, <2>2 DEF StateAt
  <2>5. NoConflict(cur, pos)' <=> NoConflict(cur, pos)
    BY <2>1, <2>2 DEF NoConflict
  <2> QED BY <1>1, <2>1, <2>3, <2>4, <2>5 DEF CheckInv, LivenessDone, Known, Blocks
<1>4. CASE Next /\ UNCHANGED runVars
  <2>1. RunInv'
    BY <1>1, <1>4, CheckStopped
  <2>2. CheckInv'
    BY <1>1, <1>4, VisitCheck, PopCheck, StepCheck, CommitCheck DEF Next, CheckNext
  <2> QED BY <1>2, <2>1, <2>2 DEF Inv
<1>5. CASE (Launch \/ Exec \/ Jump) /\ UNCHANGED vars
  <2>1. RunInv'
    <3>1. CASE Launch
      BY <1>1, <1>5, <3>1, LaunchRun
    <3>2. CASE Exec
      BY <1>1, <1>5, <3>2, ExecRun
    <3>3. CASE Jump
      <4>1. PICK a \in Succs(cfg, pc[1]) : pc' = <<a, 1>>
        BY <3>3 DEF Jump
      <4> QED BY <1>1, <1>5, <3>3, <4>1, JumpRun
    <3> QED BY <1>5, <3>1, <3>2, <3>3
  <2> QED BY <1>2, <1>3, <1>5, <2>1 DEF Inv
<1>6. CASE UNCHANGED <<vars, runVars>>
  <2>1. UNCHANGED vars /\ UNCHANGED runVars
    BY <1>6
  <2>2. /\ cfg' = cfg /\ (Checked' <=> Checked) /\ errors' = errors /\ liveOut' = liveOut
        /\ (Premises' <=> Premises) /\ (\A b : StateAt(b)' = StateAt(b))
        /\ pc' = pc /\ held' = held /\ misused' = misused
    BY <2>1, RunFrame DEF runVars
  <2>3. Covered' <=> Covered
    BY <2>2 DEF Covered, LiveHere, StateAt
  <2>4. RunInv'
    BY <1>1, <2>2, <2>3 DEF RunInv, Running
  <2> QED BY <1>2, <1>3, <2>1, <2>4 DEF Inv
<1> QED BY <1>4, <1>5, <1>6 DEF SoundNext

LEMMA SoundInitInv == SoundInit => Inv
<1> SUFFICES ASSUME SoundInit PROVE Inv
  OBVIOUS
<1>1. SoundTypeOK
  BY SoundTypeInit
<1>2. LiveIInv
  <2>1. LiveInit /\ LiveTypeOK
    BY <1>1 DEF SoundInit, Init, SoundTypeOK, BorrowTypeOK
  <2>2. Settled /\ Founded
    BY <2>1 DEF LiveInit, Settled, Founded, LiveAtStart
  <2> QED BY <2>1, <2>2 DEF LiveIInv
<1>3. CheckInv
  <2>1. /\ cur = 0 /\ work = [b \in 1..cfg.n |-> b] /\ cfg.n \in Nat
        /\ borrowsOut = [b \in Blocks(cfg) |-> << >>]
    BY <1>1, CfgsOK DEF SoundInit, Init, BorrowInit, SoundTypeOK, BorrowTypeOK, LiveTypeOK, CfgOK
  <2>2. Len(work) = cfg.n
    BY <2>1
  <2>3. Blocks(cfg) \subseteq Entries(work)
    BY <2>1, <2>2 DEF Blocks, Entries
  <2>4. \A b \in Blocks(cfg) : Known(borrowsOut[b])
    BY <2>1 DEF Known, Entries
  <2> QED BY <2>1, <2>3, <2>4 DEF CheckInv
<1>4. RunInv
  BY DEF SoundInit, RunInv, Running
<1> QED BY <1>1, <1>2, <1>3, <1>4 DEF Inv

(* A function that the borrow check accepts never uses, on any path, a     *)
(* reference whose borrow was broken by a write, a move, a read or another *)
(* borrow, as long as what the check relies on holds.                      *)
THEOREM NoUseOfBrokenCorrect == SoundSpec => []NoUseOfBroken
<1>1. SoundInit => Inv
  BY SoundInitInv
<1>2. Inv /\ [SoundNext]_<<vars, runVars>> => Inv'
  BY SoundStep
<1>3. Inv => NoUseOfBroken
  BY DEF Inv, RunInv, NoUseOfBroken, Premises
<1> QED BY <1>1, <1>2, <1>3, PTL DEF SoundSpec

(***************************************************************************)
(* The out-states grow                                                     *)
(***************************************************************************)
(* A statement adds more to a larger state.                                *)
LEMMA WithNewGrows ==
  ASSUME NEW c, NEW s, StmtOK(c, s), s.loans \subseteq LoansOf(c),
         NEW A \in BorrowSets(c), NEW B \in BorrowSets(c), Entries(A) \subseteq Entries(B)
  PROVE  Entries(WithNew(c, s, A)) \subseteq Entries(WithNew(c, s, B))
<1> DEFINE d == Root(s.dest)
           C == Carriage(c)
<1>1. A \in Seq(C)
  BY DEF BorrowSets, Carriage
<1>2. Entries(B) \subseteq Entries(WithNew(c, s, B))
  BY WithNewFacts
<1>3. CASE s.loans # {}
  <2>1. PICK n : s.loans = {n}
    BY <1>3 DEF StmtOK
  <2> DEFINE e == [loan |-> n, dest |-> d]
  <2>2. WithNew(c, s, A) = Append(A, e)
    BY <1>3, <2>1 DEF WithNew
  <2>3. e \in C
    BY <2>1 DEF Carriage, StmtOK, PlaceOK
  <2>4. e \in Entries(WithNew(c, s, B))
    BY <2>1, WithNewFacts
  <2> HIDE DEF e, C
  <2>5. Entries(Append(A, e)) = Entries(A) \cup {e}
    BY <1>1, <2>3, EntriesAppend
  <2> QED BY <1>2, <2>2, <2>4, <2>5
<1>4. CASE s.loans = {}
  <2> DEFINE from == Carried(c, s, A)
             new == [i \in 1..Len(from) |-> [loan |-> from[i].loan, dest |-> d]]
  <2>1. WithNew(c, s, A) = A \o new
    BY <1>4 DEF WithNew
  <2>2. CASE d \in c.refs
    <3>1. from = CarriedBy(A, Sources(s) \ {d})
      BY <2>2 DEF Carried
    <3> HIDE DEF from, C, d
    <3>2. /\ from \in Seq(C)
          /\ Entries(from) = {e \in Entries(A) : e.dest \in Sources(s) \ {d}}
      BY <1>1, <3>1, CarriedFacts
    <3>3. \A i \in 1..Len(from) :
            from[i] \in Entries(A) /\ from[i].dest \in Sources(s) /\ from[i].dest # d
      BY <3>2 DEF Entries
    <3>4. \A i \in 1..Len(from) : [loan |-> from[i].loan, dest |-> d] \in Entries(WithNew(c, s, B))
      BY <1>4, <2>2, <3>3, WithNewFacts DEF d
    <3>5. /\ new \in Seq(Entries(WithNew(c, s, B))) /\ Len(new) \in Nat /\ Len(A) \in Nat
          /\ \A i \in 1..Len(new) : new[i] \in Entries(WithNew(c, s, B))
      <4> HIDE DEF C, d
      <4>1. Len(from) \in Nat
        BY <3>2
      <4> HIDE DEF from
      <4> QED BY <1>1, <3>4, <4>1
    <3>6. \A i \in 1..Len(A) : A[i] \in Entries(WithNew(c, s, B))
      BY <1>2 DEF Entries
    <3> HIDE DEF new
    <3> DEFINE W == A \o new
    <3>7. \A i \in 1..Len(W) : W[i] = IF i <= Len(A) THEN A[i] ELSE new[i - Len(A)]
      BY <1>1, <3>5
    <3>8. \A i \in 1..Len(W) : i \in 1..Len(A) \/ i - Len(A) \in 1..Len(new)
      BY <1>1, <3>5
    <3> HIDE DEF W
    <3>9. \A i \in 1..Len(W) : W[i] \in Entries(WithNew(c, s, B))
      BY <3>5, <3>6, <3>7, <3>8
    <3>10. Entries(W) \subseteq Entries(WithNew(c, s, B))
      BY <3>9 DEF Entries
    <3> QED BY <2>1, <3>10 DEF W
  <2>3. CASE d \notin c.refs
    <3>1. from = << >> /\ new = << >>
      BY <2>3 DEF Carried
    <3>2. WithNew(c, s, A) = A
      BY <1>1, <2>1, <3>1
    <3> QED BY <1>2, <3>2
  <2> QED BY <2>2, <2>3
<1> QED BY <1>3, <1>4

(* A block turns a larger state into a larger one. *)
LEMMA WalkGrows ==
  ASSUME NEW c \in Cfgs, NEW b \in Blocks(c), NEW out,
         NEW A \in BorrowSets(c), NEW B \in BorrowSets(c), Entries(A) \subseteq Entries(B)
  PROVE  LET len == Len(c.stmts[b])
         IN  Entries(Walk(c, out, b, A)[len]) \subseteq Entries(Walk(c, out, b, B)[len])
<1> DEFINE len == Len(c.stmts[b])
           U == Walk(c, out, b, A)
           W == Walk(c, out, b, B)
           I == {i \in 0..len : Entries(U[i]) \subseteq Entries(W[i])}
<1>1. /\ len \in Nat /\ U[0] = A /\ W[0] = B
      /\ U \in [0..len -> BorrowSets(c)] /\ W \in [0..len -> BorrowSets(c)]
      /\ \A i \in 1..len :
           LET s    == c.stmts[b][i]
               live == LiveBefore(c, b, i + 1, out)
           IN  /\ U[i] = Prune(WithNew(c, s, U[i - 1]), live)
               /\ W[i] = Prune(WithNew(c, s, W[i - 1]), live)
  BY WalkFacts
<1> HIDE DEF U, W
<1>2. 0 \in I
  BY <1>1
<1>3. ASSUME NEW i \in I, i \in 0..(len - 1)
      PROVE  i + 1 \in I
  <2> DEFINE s == c.stmts[b][i + 1]
             live == LiveBefore(c, b, (i + 1) + 1, out)
             V == WithNew(c, s, U[i])
             X == WithNew(c, s, W[i])
  <2>1. i + 1 \in 1..len /\ (i + 1) - 1 = i /\ i \in 0..len
    BY <1>1, <1>3
  <2>2. U[i + 1] = Prune(V, live) /\ W[i + 1] = Prune(X, live)
    BY <1>1, <2>1
  <2>3. U[i] \in BorrowSets(c) /\ W[i] \in BorrowSets(c) /\ Entries(U[i]) \subseteq Entries(W[i])
    BY <1>1, <1>3, <2>1
  <2>4. StmtOK(c, s) /\ s.loans \subseteq LoansOf(c)
    BY <2>1, StmtFacts
  <2> HIDE DEF s, live
  <2>5. V \in BorrowSets(c) /\ X \in BorrowSets(c) /\ Entries(V) \subseteq Entries(X)
    BY <2>3, <2>4, WithNewFacts, WithNewGrows
  <2> HIDE DEF V, X
  <2>6. /\ Entries(Prune(V, live)) = {e \in Entries(V) : e.dest \in live}
        /\ Entries(Prune(X, live)) = {e \in Entries(X) : e.dest \in live}
    BY <2>5, CarriedFacts DEF Prune, BorrowSets
  <2>7. Entries(U[i + 1]) \subseteq Entries(W[i + 1])
    BY <2>2, <2>5, <2>6
  <2> QED BY <1>1, <2>1, <2>7
<1> HIDE DEF I
<1>4. 0..len \subseteq I
  BY <1>1, <1>2, <1>3, Induction
<1>5. len \in I
  BY <1>1, <1>4
<1> QED BY <1>5 DEF I, U, W

(* Where every region has one entry, a merge of larger states is larger:   *)
(* the entry that UnionWith keeps is the only one there is.                *)
LEMMA MergeGrows ==
  ASSUME NEW E, NEW c, c.n \in Nat, NEW out1, NEW out2, NEW b,
         \A a \in Preds(c, b) :
           out1[a] \in Seq(E) /\ out2[a] \in Seq(E) /\ Entries(out1[a]) \subseteq Entries(out2[a]),
         \A a1, a2 \in Preds(c, b) : \A e \in Entries(out2[a1]), f \in Entries(out2[a2]) :
           e.loan.id = f.loan.id => e = f
  PROVE  Entries(Merge(c, out1, b)) \subseteq Entries(Merge(c, out2, b))
<1> SUFFICES ASSUME NEW e \in Entries(Merge(c, out1, b)) PROVE e \in Entries(Merge(c, out2, b))
  OBVIOUS
<1>1. PICK a \in Preds(c, b) : e \in Entries(out2[a])
  BY MergeFacts
<1>2. b # c.entry
  <2>1. Entries(<< >>) = {}
    BY DEF Entries
  <2> QED BY <2>1 DEF Merge
<1>3. Ids(out2[a]) \subseteq Ids(Merge(c, out2, b))
  BY <1>2, MergeFacts
<1>4. PICK f \in Entries(Merge(c, out2, b)) : f.loan.id = e.loan.id
  BY <1>1, <1>3 DEF Ids
<1>5. PICK a2 \in Preds(c, b) : f \in Entries(out2[a2])
  BY MergeFacts
<1> QED BY <1>1, <1>4, <1>5

(* What is stored at the end of a block follows from what is stored at the *)
(* ends of its predecessors.                                               *)
GrowInv ==
  /\ ~ LivenessDone => \A b \in Blocks(cfg) : borrowsOut[b] = << >>
  /\ OneCarrier => \A b \in Blocks(cfg) : Entries(borrowsOut[b]) \subseteq Entries(AtExit(b))

Grows == \A b \in Blocks(cfg) : Entries(borrowsOut[b]) \subseteq Entries(borrowsOut'[b])

(* With one carrier of each borrow, the entries of a region are equal.     *)
LEMMA OneEntry ==
  ASSUME NEW c \in Cfgs, NEW A \in BorrowSets(c), NEW B \in BorrowSets(c),
         NEW K, \A g, h \in K : g.id = h.id => g.dest = h.dest,
         \A e \in Entries(A) \cup Entries(B) : [id |-> e.loan.id, dest |-> e.dest] \in K,
         NEW e \in Entries(A), NEW f \in Entries(B), e.loan.id = f.loan.id
  PROVE  e = f
<1>1. e.dest = f.dest
  <2>1. [id |-> e.loan.id, dest |-> e.dest] \in K /\ [id |-> f.loan.id, dest |-> f.dest] \in K
    OBVIOUS
  <2> QED BY <2>1
<1>2. A \in Seq(Carriage(c)) /\ B \in Seq(Carriage(c))
  BY DEF BorrowSets, Carriage
<1>3. e \in Carriage(c) /\ f \in Carriage(c)
  BY <1>2 DEF Entries
<1>4. e.loan = f.loan
  BY <1>3, LoanUnique DEF Carriage
<1> QED BY <1>1, <1>3, <1>4 DEF Carriage

(* A step that leaves the out-states and what is live leaves this too.     *)
LEMMA GrowFrame ==
  ASSUME GrowInv, UNCHANGED <<cfg, liveVars, borrowsOut, carriers>>
  PROVE  GrowInv' /\ Grows
<1>1. /\ cfg' = cfg /\ queued' = queued /\ borrowsOut' = borrowsOut /\ carriers' = carriers
      /\ Blocks(cfg)' = Blocks(cfg)
  BY DEF liveVars, Blocks
<1>2. \A b : AtExit(b)' = AtExit(b)
  BY <1>1, StateFrame
<1> QED BY <1>1, <1>2 DEF GrowInv, Grows, LivenessDone, OneCarrier

(* While liveness runs, nothing is stored. *)
LEMMA GrowVisit ==
  ASSUME GrowInv, LiveNext, UNCHANGED borrowVars
  PROVE  GrowInv' /\ Grows
<1>1. /\ ~ LivenessDone /\ cfg' = cfg /\ Blocks(cfg)' = Blocks(cfg) /\ borrowsOut' = borrowsOut
  BY DEF LiveNext, Visit, LivenessDone, borrowVars, Blocks
<1>2. \A b \in Blocks(cfg) : borrowsOut[b] = << >> /\ borrowsOut'[b] = << >>
  BY <1>1 DEF GrowInv
<1>3. Entries(<< >>) = {}
  BY DEF Entries
<1> QED BY <1>1, <1>2, <1>3 DEF GrowInv, Grows

(* The state that is stored is larger than the one before, since that one  *)
(* followed from smaller ones; and what follows from the others grows.     *)
LEMMA GrowCommit ==
  ASSUME BorrowTypeOK, BorrowTypeOK', CheckInv, CheckInv', GrowInv,
         Commit, UNCHANGED <<cfg, liveVars>>
  PROVE  GrowInv' /\ (OneCarrier' => Grows)
<1>1. /\ cur \in Blocks(cfg) /\ cfg \in Cfgs /\ cfg' = cfg /\ Blocks(cfg)' = Blocks(cfg)
      /\ queued' = queued /\ liveOut' = liveOut
      /\ LivenessDone /\ active = StateAt(cur)[pos - 1] /\ pos = End(cfg, cur)
      /\ carriers \subseteq carriers'
      /\ borrowsOut' = borrowsOut \/ borrowsOut' = [borrowsOut EXCEPT ![cur] = active]
      /\ borrowsOut \in [Blocks(cfg) -> BorrowSets(cfg)]
      /\ borrowsOut' \in [Blocks(cfg) -> BorrowSets(cfg)]
  <2>1. /\ cur # 0 /\ pos = End(cfg, cur) /\ carriers \subseteq carriers'
        /\ borrowsOut' = borrowsOut \/ borrowsOut' = [borrowsOut EXCEPT ![cur] = active]
        /\ cfg' = cfg /\ queued' = queued /\ liveOut' = liveOut
    BY DEF Commit, AtEnd, liveVars
  <2>2. LivenessDone /\ active = StateAt(cur)[pos - 1]
    BY <2>1 DEF CheckInv
  <2>3. /\ cur \in Blocks(cfg) /\ cfg \in Cfgs
        /\ borrowsOut \in [Blocks(cfg) -> BorrowSets(cfg)]
    BY <2>1 DEF BorrowTypeOK, LiveTypeOK
  <2>4. borrowsOut' \in [Blocks(cfg') -> BorrowSets(cfg')]
    BY DEF BorrowTypeOK
  <2> QED BY <2>1, <2>2, <2>3, <2>4 DEF Blocks
<1>2. active = AtExit(cur)
  BY <1>1, BlockFacts DEF AtExit
<1>3. ~ LivenessDone' => \A b \in Blocks(cfg)' : (borrowsOut[b] = << >>)'
  BY <1>1 DEF LivenessDone
<1>4. SUFFICES ASSUME OneCarrier'
      PROVE  Grows /\ \A b \in Blocks(cfg) : Entries(borrowsOut'[b]) \subseteq Entries(AtExit(b)')
  BY <1>1, <1>3 DEF GrowInv
<1>5. OneCarrier
  BY <1>1, <1>4 DEF OneCarrier
<1>6. \A b \in Blocks(cfg) : Entries(borrowsOut[b]) \subseteq Entries(AtExit(b))
  BY <1>5 DEF GrowInv
<1>7. \A b \in Blocks(cfg) :
        \/ borrowsOut'[b] = borrowsOut[b]
        \/ b = cur /\ borrowsOut'[b] = AtExit(b)
  BY <1>1, <1>2
<1>8. Grows
  BY <1>6, <1>7 DEF Grows
<1>9. ASSUME NEW b \in Blocks(cfg)
      PROVE  Entries(AtExit(b)) \subseteq Entries(AtExit(b)')
  <2>1. cfg.n \in Nat /\ Preds(cfg, b) \subseteq Blocks(cfg)
    BY <1>1, CfgsOK DEF CfgOK, Preds
  <2>2. \A a \in Preds(cfg, b) :
          /\ borrowsOut[a] \in Seq(Carriage(cfg)) /\ borrowsOut'[a] \in Seq(Carriage(cfg))
          /\ Entries(borrowsOut[a]) \subseteq Entries(borrowsOut'[a])
    BY <1>1, <1>8, <2>1 DEF Grows, BorrowSets, Carriage
  <2>3. \A a1, a2 \in Preds(cfg, b) :
          \A e \in Entries(borrowsOut'[a1]), f \in Entries(borrowsOut'[a2]) :
            e.loan.id = f.loan.id => e = f
    <3>1. \A g, h \in carriers' : g.id = h.id => g.dest = h.dest
      BY <1>4 DEF OneCarrier
    <3>2. \A a \in Blocks(cfg) : \A e \in Entries(borrowsOut'[a]) :
            [id |-> e.loan.id, dest |-> e.dest] \in carriers'
      BY <1>1 DEF CheckInv, Known
    <3>3. \A a1, a2 \in Blocks(cfg) :
            \A e \in Entries(borrowsOut'[a1]), f \in Entries(borrowsOut'[a2]) :
              e.loan.id = f.loan.id => e = f
      <4> SUFFICES ASSUME NEW a1 \in Blocks(cfg), NEW a2 \in Blocks(cfg),
                          NEW e \in Entries(borrowsOut'[a1]), NEW f \in Entries(borrowsOut'[a2]),
                          e.loan.id = f.loan.id
                   PROVE  e = f
        OBVIOUS
      <4> DEFINE A == borrowsOut'[a1]
                 B == borrowsOut'[a2]
      <4>1. A \in BorrowSets(cfg) /\ B \in BorrowSets(cfg) /\ cfg \in Cfgs
        BY <1>1
      <4>2. \A g \in Entries(A) \cup Entries(B) :
              [id |-> g.loan.id, dest |-> g.dest] \in carriers'
        BY <3>2
      <4>3. e \in Entries(A) /\ f \in Entries(B)
        OBVIOUS
      <4> HIDE DEF A, B
      <4> QED BY <3>1, <4>1, <4>2, <4>3, OneEntry
    <3> QED BY <2>1, <3>3
  <2> DEFINE A == Merge(cfg, borrowsOut, b)
             B == Merge(cfg, borrowsOut', b)
  <2>4. Entries(A) \subseteq Entries(B) /\ A \in BorrowSets(cfg) /\ B \in BorrowSets(cfg)
    BY <2>1, <2>2, <2>3, MergeFacts, MergeGrows DEF BorrowSets, Carriage
  <2>5. /\ AtExit(b) = Walk(cfg, liveOut[b], b, A)[Len(cfg.stmts[b])]
        /\ AtExit(b)' = Walk(cfg, liveOut[b], b, B)[Len(cfg.stmts[b])]
    BY <1>1 DEF AtExit, StateAt
  <2> HIDE DEF A, B
  <2> QED BY <1>1, <2>4, <2>5, WalkGrows
<1> QED BY <1>6, <1>7, <1>8, <1>9

LEMMA GrowStep ==
  ASSUME Inv, Inv', GrowInv, [SoundNext]_<<vars, runVars>>
  PROVE  GrowInv' /\ (OneCarrier' => Grows)
<1>1. BorrowTypeOK /\ BorrowTypeOK' /\ CheckInv /\ CheckInv'
  BY DEF Inv, SoundTypeOK
<1>2. CASE UNCHANGED vars
  BY <1>2, GrowFrame DEF vars, borrowVars
<1>3. CASE Next
  <2>1. CASE LiveNext /\ UNCHANGED borrowVars
    BY <2>1, GrowVisit
  <2>2. CASE Pop /\ UNCHANGED <<cfg, liveVars>>
    BY <2>2, GrowFrame DEF Pop
  <2>3. CASE Step /\ UNCHANGED <<cfg, liveVars>>
    BY <2>3, GrowFrame DEF Step
  <2>4. CASE Commit /\ UNCHANGED <<cfg, liveVars>>
    BY <1>1, <2>4, GrowCommit
  <2> QED BY <1>3, <2>1, <2>2, <2>3, <2>4 DEF Next, CheckNext
<1> QED BY <1>2, <1>3 DEF SoundNext

(* While no visit has shown two carriers of a borrow, the state stored at  *)
(* the end of a block never loses a borrow or its carrier, in whatever     *)
(* order the blocks are visited: the lattice of borrows.rs:3 is climbed.   *)
THEOREM OutStatesOnlyGrow == SoundSpec => OutStatesGrow
<1>1. SoundInit => Inv /\ GrowInv
  <2> SUFFICES ASSUME SoundInit PROVE Inv /\ GrowInv
    OBVIOUS
  <2>1. \A b \in Blocks(cfg) : borrowsOut[b] = << >>
    BY DEF SoundInit, Init, BorrowInit
  <2>2. Entries(<< >>) = {}
    BY DEF Entries
  <2> QED BY <2>1, <2>2, SoundInitInv DEF GrowInv
<1>2. (Inv /\ GrowInv) /\ [SoundNext]_<<vars, runVars>> => (Inv /\ GrowInv)'
  BY SoundStep, GrowStep
<1>3. (Inv /\ GrowInv) /\ (Inv /\ GrowInv)' /\ [SoundNext]_<<vars, runVars>>
        => [OneCarrier' => \A b \in Blocks(cfg) :
              Entries(borrowsOut[b]) \subseteq Entries(borrowsOut'[b])]_vars
  BY GrowStep DEF Grows
<1>4. SoundSpec => [](Inv /\ GrowInv)
  BY <1>1, <1>2, PTL DEF SoundSpec
<1> QED BY <1>3, <1>4, PTL DEF SoundSpec, OutStatesGrow

=============================================================================
