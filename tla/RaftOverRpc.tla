---------------------------- MODULE RaftOverRpc ----------------------------
(***************************************************************************)
(* Raft nodes whose AppendEntries requests come through makeProtoRPC-      *)
(* Handler of internal/rpc/registry.go: module Raft with the codec of      *)
(* module ProtoJSON between the call and the handler.  Every request of a  *)
(* node is decoded into the one AppendEntriesRequest that setupRaftNode    *)
(* registered, on top of what the request before it left there.            *)
(*                                                                         *)
(* One node leads and stays the leader: no timer expires, so that all the  *)
(* trouble comes from replication in a single term.                        *)
(***************************************************************************)
EXTENDS MCRaft, ProtoJSON

VARIABLE shared  \* shared[n]: the request object of node n

\* leaderId is only reported by the handler, and left out as in module Raft.
NoRequest == [f \in DOMAIN ZeroAppendEntriesRequest \ {"leaderId"} |->
                ZeroAppendEntriesRequest[f]]

Seen(n, req) == UnmarshalAppendEntriesRequest(shared[n], MarshalAppendEntriesRequest(req))

\* The callback decodes the request and runs the handler of module Raft on what
\* the object then holds.  The caller keeps the request it sent.
HandleSharedRequest(n) ==
  \E c \in waiting :
    LET seen == Seen(n, c.req)
        reply == [call |-> c, term |-> currentTerm'[n], success |-> Accepts(n, seen)]
    IN
    /\ c.dst = n /\ ~Locked(n)
    /\ waiting' = waiting \ {c}
    /\ shared' = [shared EXCEPT ![n] = seen]
    /\ FollowLeader(n, seen)
    /\ StoreEntries(n, seen, Len(Missing(n, seen)))
    /\ LearnCommit(n, seen)
    /\ IF mu'[n] = "free" /\ c.ep # 0
       THEN answered' = answered \cup {reply} /\ UNCHANGED stalled
       ELSE /\ stalled' = IF c.ep # 0 THEN stalled \cup {reply} ELSE stalled
            /\ UNCHANGED answered
    /\ UNCHANGED <<hasCommited, lastApplied, nextIndex, sender, delivered,
                   ticking, fired, armed, voteVars, building, loopVars,
                   envVars, votes, leaders>>

Replicate ==
  \E n \in Node :
    \/ \E c \in Command : Submit(n, c)
    \/ FinishSignal(n)
    \/ \E ep \in loops[n] : HeartbeatLoop(n, ep)
    \/ SendAppendEntries(n) \/ AbandonCall(n) \/ HandleAppendEntriesReply(n)
    \/ ReceiveSignal(n) \/ CollectBatch(n) \/ DeliverEntry(n)

SharedNext ==
  \/ \E n \in Node : HandleSharedRequest(n)
  \/ Replicate /\ UNCHANGED shared

SharedSpec ==
  /\ \E l \in Node : Led(l)
  /\ shared = [n \in Node |-> NoRequest]
  /\ [][SharedNext]_<<vars, shared>>
=============================================================================
