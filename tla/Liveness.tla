------------------------------ MODULE Liveness ------------------------------
(***************************************************************************)
(* borrowck/liveness.rs: which locals may still be read, at the start and  *)
(* at the end of every block, by a backward worklist.  One step is one     *)
(* block taken off the worklist.  The code's worklist is a stack; here any *)
(* queued block may be next, and the result does not depend on it.         *)
(***************************************************************************)
EXTENDS StmtCfg

VARIABLES
  cfg,      \* the graph being analysed, never changed
  queued,   \* on_work: the blocks to visit
  liveIn, liveOut   \* block_in, block_out

liveVars == <<queued, liveIn, liveOut>>

(* Mutant of LiveBefore: a statement's own assignment hides its reads. *)
KillBeforeUse(c, b, i, out) ==
  {l \in c.locals :
     \/ \E j \in i..End(c, b) : l \in Uses(c, b, j) /\ \A h \in i..j : l \notin Kills(c, b, h)
     \/ l \in out /\ \A h \in i..End(c, b) : l \notin Kills(c, b, h)}

(* transfer_block from point i of block b on, given what is live after the *)
(* block: read before any assignment, or live after and never assigned.    *)
LiveBefore(c, b, i, out) ==
  {l \in c.locals :
     \/ \E j \in i..End(c, b) :
          l \in Uses(c, b, j) /\ \A h \in i..(j - 1) : l \notin Kills(c, b, h)
     \/ l \in out /\ \A h \in i..End(c, b) : l \notin Kills(c, b, h)}

LiveInit ==
  /\ cfg \in Cfgs
  /\ queued = Blocks(cfg)
  /\ liveIn = [b \in Blocks(cfg) |-> {}]
  /\ liveOut = [b \in Blocks(cfg) |-> {}]

Visit(b) ==
  LET out == UNION {liveIn[s] : s \in Succs(cfg, b)}
      in == LiveBefore(cfg, b, 1, out)
  IN  /\ liveOut' = [liveOut EXCEPT ![b] = out]
      /\ liveIn' = [liveIn EXCEPT ![b] = in]
      /\ queued' = (queued \ {b}) \cup (IF in = liveIn[b] THEN {} ELSE Preds(cfg, b))
      /\ UNCHANGED cfg

LiveNext == \E b \in queued : Visit(b)

LiveSpec == LiveInit /\ [][LiveNext]_<<cfg, liveVars>> /\ WF_<<cfg, liveVars>>(LiveNext)

LivenessDone == queued = {}

-----------------------------------------------------------------------------
LiveTypeOK ==
  /\ cfg \in Cfgs
  /\ queued \subseteq Blocks(cfg)
  /\ liveIn \in [Blocks(cfg) -> SUBSET cfg.locals]
  /\ liveOut \in [Blocks(cfg) -> SUBSET cfg.locals]

(* The header's definition, "read on some forward path before being        *)
(* overwritten", path by path: from b one may go on through any block that *)
(* neither reads nor overwrites l, and must come to one that reads it      *)
(* before overwriting it.  The blocks from which that works are the least  *)
(* set S with LiveFrom(l, S).                                              *)
ReadsFirst(l, b) ==
  \E j \in 1..End(cfg, b) :
    l \in Uses(cfg, b, j) /\ \A h \in 1..(j - 1) : l \notin Kills(cfg, b, h)

Overwrites(l, b) == \E h \in 1..End(cfg, b) : l \in Kills(cfg, b, h)

LiveFrom(l, S) ==
  \A b \in Blocks(cfg) :
    ReadsFirst(l, b) \/ (~ Overwrites(l, b) /\ Succs(cfg, b) \cap S # {}) => b \in S

LiveAtStart(l) == {b \in Blocks(cfg) : l \in liveIn[b]}

(* The worklist ends with exactly the live locals, whatever the order the  *)
(* blocks are visited in and whatever loops the graph has.                 *)
LiveExact ==
  LivenessDone =>
    /\ \A l \in cfg.locals :
         /\ LiveFrom(l, LiveAtStart(l))
         /\ \A S \in SUBSET Blocks(cfg) : LiveFrom(l, S) => LiveAtStart(l) \subseteq S
    /\ \A b \in Blocks(cfg) : liveOut[b] = UNION {liveIn[s] : s \in Succs(cfg, b)}
=============================================================================
