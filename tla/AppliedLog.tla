----------------------------- MODULE AppliedLog -----------------------------
(***************************************************************************)
(* What a Raft node promises the state machine that reads its commitChan,  *)
(* whatever the rest of the cluster does: its log only grows at the end,   *)
(* the committed part of it only grows, and the commands of the committed  *)
(* part come out of the channel one by one, in order, none left out and    *)
(* none repeated.                                                          *)
(***************************************************************************)
EXTENDS Naturals, Sequences

CONSTANT Node

VARIABLES entries, commit, applied

vars == <<entries, commit, applied>>

Init ==
  /\ entries = [n \in Node |-> <<>>]
  /\ commit = [n \in Node |-> 0]
  /\ applied = [n \in Node |-> <<>>]

\* Node n stores entries, and may learn in the same step that more of its log
\* is committed.
Extend(n) ==
  /\ entries' = [entries EXCEPT ![n] = entries'[n]]
  /\ Len(entries[n]) <= Len(entries'[n])
  /\ SubSeq(entries'[n], 1, Len(entries[n])) = entries[n]
  /\ commit' = [commit EXCEPT ![n] = commit'[n]]
  /\ commit'[n] \in commit[n]..Len(entries'[n])
  /\ UNCHANGED applied

Apply(n) ==
  /\ Len(applied[n]) < commit[n]
  /\ applied' = [applied EXCEPT
       ![n] = Append(@, entries[n][Len(@) + 1].command)]
  /\ UNCHANGED <<entries, commit>>

Next == \E n \in Node : Extend(n) \/ Apply(n)

Spec == Init /\ [][Next]_vars
=============================================================================
