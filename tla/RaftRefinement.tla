--------------------------- MODULE RaftRefinement ---------------------------
(***************************************************************************)
(* The Raft node implements the abstract specification AppliedLog.         *)
(***************************************************************************)
EXTENDS RaftProperties

\* An index counts as committed when the node has started to apply.
Committed(n) == IF hasCommited[n] THEN commitIndex[n] + 1 ELSE 0

Commands(n) == [i \in DOMAIN delivered[n] |-> delivered[n][i].command]

AppliedLog ==
  INSTANCE AppliedLog WITH
    entries <- log,
    commit <- [n \in Node |-> Committed(n)],
    applied <- [n \in Node |-> Commands(n)]

\* What a node promises the state machine behind commitChan, whatever the
\* cluster does: HandleAppendEntriesRequest and Submit only extend its log, the
\* committed part only grows, and commitChanSender sends that part out in order,
\* without a gap or a repetition.
ImplementsAppliedLog == AppliedLog!Spec
=============================================================================
