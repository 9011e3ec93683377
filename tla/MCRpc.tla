------------------------------- MODULE MCRpc -------------------------------
(***************************************************************************)
(* Instances of module Rpc: a candidate's vote request, a leader's entry,  *)
(* the heartbeat that follows it, and a request without parameters.        *)
(***************************************************************************)
EXTENDS RpcProperties

CONSTANTS A, B, C

Vote == [ZeroRequestVoteRequest EXCEPT !.term = 1]
Heartbeat == [ZeroAppendEntriesRequest EXCEPT !.term = 1, !.followerHasEntries = TRUE]

Entry == [Heartbeat EXCEPT !.entries = <<[command |-> "x", term |-> 1]>>, !.leaderCommit = 1]

MCRequests ==
  {[method |-> RequestVote, params |-> Vote]}
    \cup {[method |-> AppendEntries, params |-> p] : p \in {Entry, Heartbeat, NoParams}}

MCReplies ==
  [m \in Method |->
     IF m = RequestVote THEN {[term |-> 1, voteGranted |-> TRUE]}
                        ELSE {[ZeroAppendEntriesReply EXCEPT !.success = TRUE]}]

\* Client A calls while A and C are setting up: a vote request to both, an entry
\* to B or a request without parameters to C.  With C out of it, there is also a
\* fault, or A sends B the heartbeat that follows the entry.
Plan ==
  LET used == {r \in Id : req[r] # None}
      Is(r, to, p) == req[r].from = A /\ req[r].to = to /\ req[r].params = p
  IN
  /\ used \in {{}, {1}, {1, 2}}
  /\ 1 \in used => Is(1, Everyone, Vote) \/ Is(1, B, Entry) \/ Is(1, C, NoParams)
  /\ 2 \in used => Is(1, B, Entry) /\ Is(2, B, Heartbeat) /\ faults = 0
  /\ 2 \in used \/ faults > 0 => setup[C] = "Start"

MCSpec == InitWith({B}) /\ [][Next /\ Plan']_vars /\ Fairness
=============================================================================
