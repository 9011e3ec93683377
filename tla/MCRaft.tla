------------------------------- MODULE MCRaft -------------------------------
(***************************************************************************)
(* What TLC needs to check Raft: the symmetry of nodes and commands,       *)
(* specifications that start in the middle of things, and fairness.        *)
(***************************************************************************)
EXTENDS RaftRefinement, TLC

Symmetry == Permutations(Node) \cup Permutations(Command)

\* Nothing is committed, and no vote is in flight.
Quiet ==
  /\ hasCommited = [n \in Node |-> FALSE]
  /\ commitIndex = [n \in Node |-> 0]
  /\ lastApplied = [n \in Node |-> 0]
  /\ mu = [n \in Node |-> "free"]
  /\ ready = [n \in Node |-> 0]
  /\ closed = [n \in Node |-> FALSE]
  /\ sender = [n \in Node |-> [phase |-> "recv", detached |-> FALSE,
                               backlog |-> 0, batch |-> <<>>]]
  /\ delivered = [n \in Node |-> <<>>]
  /\ ticking = [n \in Node |-> [t \in 0..MaxTimeouts |-> 0]]
  /\ fired = [n \in Node |-> 0]
  /\ armed = [n \in Node |-> 0]
  /\ rvReq = {} /\ rvRep = {}
  /\ building = {} /\ stalled = {}
  /\ stops = 0 /\ faults = 0
  /\ misplaced = {}

\* The election of l in term t is over.
Past(l, t) == [node |-> l, term |-> t, phase |-> "done", voteCount |-> 0,
               repTerm |-> 0, repGranted |-> FALSE, voters |-> {}]

Granted(V, l, t) == {[voter |-> v, term |-> t, candidate |-> l] : v \in V}

\* Node l was elected in term 1 with everybody's vote: a state Spec reaches,
\* with one timeout used up and the first timers of the peers gone.
Led(l) ==
  /\ Quiet /\ waiting = {} /\ answered = {}
  /\ state = [n \in Node |-> IF n = l THEN "Leader" ELSE "Follower"]
  /\ currentTerm = [n \in Node |-> 1]
  /\ votedFor = [n \in Node |-> l]
  /\ log = [n \in Node |-> <<>>]
  /\ nextIndex = [n \in Node |-> [p \in Node |-> 0]]
  /\ spawned = [n \in Node |-> IF n = l THEN 0 ELSE 1]
  /\ elections = <<Past(l, 1)>>
  /\ epoch = [n \in Node |-> IF n = l THEN 1 ELSE 0]
  /\ loops = [n \in Node |-> IF n = l THEN {1} ELSE {}]
  /\ submitted = {} /\ timeouts = 1
  /\ votes = Granted(Node, l, 1)
  /\ leaders = {[node |-> l, term |-> 1, elected |-> 1]}

LedSpec == (\E l \in Node : Led(l)) /\ [][Next]_vars

\* Of three nodes, a was elected in term 1, took command x and was cut off.
\* Then b was elected in term 2 and took y, which only c has heard of, and c
\* in term 3, each with the other's vote.  Node a still believes it leads.
Diverged(a, b, c, x, y) ==
  /\ Quiet
  /\ state = [n \in Node |-> IF n = b THEN "Follower" ELSE "Leader"]
  /\ currentTerm = [n \in Node |-> IF n = a THEN 1 ELSE 3]
  /\ votedFor = [n \in Node |-> IF n = a THEN a ELSE c]
  /\ log = [n \in Node |-> IF n = a THEN <<[command |-> x, term |-> 1]>>
                                    ELSE <<[command |-> y, term |-> 2]>>]
  /\ nextIndex = [n \in Node |-> [p \in Node |-> IF n = c THEN 1 ELSE 0]]
  /\ spawned = [n \in Node |-> IF n = b THEN 1 ELSE 0]
  /\ elections = <<Past(a, 1), Past(b, 2), Past(c, 3)>>
  /\ epoch = [n \in Node |-> 1]
  /\ loops = [n \in Node |-> IF n = b THEN {} ELSE {1}]
  /\ submitted = {x, y} /\ timeouts = 3
  /\ votes = Granted(Node, a, 1) \cup Granted({b, c}, b, 2)
               \cup Granted({b, c}, c, 3)
  /\ leaders = {[node |-> a, term |-> 1, elected |-> 1],
                [node |-> b, term |-> 2, elected |-> 2],
                [node |-> c, term |-> 3, elected |-> 3]}

\* The first heartbeat of c is on its way to a, and so is the answer b gave in
\* term 2 to a heartbeat of a.
Late(a, b, c) ==
  LET Empty(term, ni) ==
        [term |-> term, prevLogIndex |-> 0, prevLogTerm |-> IF ni = 0 THEN 0 ELSE 2,
         entries |-> <<>>, leaderCommit |-> 0, followerHasEntries |-> ni > 0,
         leaderHasComitted |-> FALSE]
  IN
  /\ waiting = {[src |-> c, dst |-> a, ep |-> 1, saved |-> 3, req |-> Empty(3, 1)]}
  /\ answered = {[call |-> [src |-> a, dst |-> b, ep |-> 1, saved |-> 1, req |-> Empty(1, 0)],
                  term |-> 2, success |-> FALSE]}

DivergedSpec ==
  /\ \E a, b, c \in Node, x, y \in Command :
       /\ {a, b, c} = Node /\ x # y /\ Diverged(a, b, c, x, y)
       /\ Late(a, b, c) \/ (waiting = {} /\ answered = {})
  /\ [][Next]_vars

\* The scheduling assumption of the liveness run: commitChanSender, waiting for
\* r.mu, is not overtaken so often that newCommitReadyChan fills up.  In the
\* code that takes 17 handlers, and sync.Mutex hands the lock to a waiter that
\* has been waiting for a millisecond.
NeverFull == \A n \in Node : mu'[n] # "sending"

\* Goroutines keep running, and a call made again and again gets through.
Fairness ==
  \A n \in Node :
    /\ WF_vars(\E ep \in loops[n] : HeartbeatLoop(n, ep))
    /\ WF_vars(SendAppendEntries(n))
    /\ SF_vars(HandleAppendEntriesRequest(n))
    /\ SF_vars(HandleAppendEntriesReply(n))
    /\ WF_vars(ReceiveSignal(n))
    /\ SF_vars(CollectBatch(n))
    /\ WF_vars(DeliverEntry(n))

LiveSpec == (\E l \in Node : Led(l)) /\ [][Next /\ NeverFull]_vars /\ Fairness

\* Submit, sendLeaderHeartbeats, updateCommitIndex, commitChanSender: under a
\* leader that stays, every command submitted is applied by every node.
EveryCommandIsApplied ==
  \A c \in Command :
    c \in submitted ~>
      \A n \in Node : \E i \in DOMAIN delivered[n] : delivered[n][i].command = c
=============================================================================
