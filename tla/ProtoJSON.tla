----------------------------- MODULE ProtoJSON -----------------------------
(***************************************************************************)
(* The generated JSON codec of api/raft/raft.pb.go, which carries every    *)
(* request and reply of a remote call.  A message is a record.  A JSON     *)
(* object is a function on the names of the fields it holds: MarshalProto- *)
(* JSON writes a field only when it differs from its zero value, and       *)
(* UnmarshalProtoJSON assigns only the fields it meets, in an object that  *)
(* it never resets.  A JSON null changes nothing, as the empty object.     *)
(***************************************************************************)
EXTENDS Naturals, Sequences

Put(x, zero) == [f \in {g \in DOMAIN x : x[g] # zero[g]} |-> x[f]]

Take(x, doc) ==
  [f \in DOMAIN x |-> IF f \in DOMAIN doc THEN doc[f] ELSE x[f]]

(***************************************************************************)
(* The zero value of each message, what &T{} and Reset give.               *)
(***************************************************************************)
ZeroRequestVoteRequest ==
  [term |-> 0, candidateId |-> "", lastLogIndex |-> 0, lastLogTerm |-> 0, isLogStored |-> FALSE]

ZeroRequestVoteReply == [term |-> 0, voteGranted |-> FALSE]

ZeroAppendEntriesRequest ==
  [term |-> 0, leaderId |-> "", prevLogIndex |-> 0, prevLogTerm |-> 0, entries |-> <<>>,
   leaderCommit |-> 0, followerHasEntries |-> FALSE, leaderHasComitted |-> FALSE]

ZeroAppendEntriesReply == [term |-> 0, success |-> FALSE, matchIndex |-> 0]

ZeroLogEntry == [command |-> "", term |-> 0]

(***************************************************************************)
(* MarshalProtoJSON of each message.                                       *)
(***************************************************************************)
MarshalRequestVoteRequest(x) == Put(x, ZeroRequestVoteRequest)

\* Mutant of MarshalRequestVoteReply: no field voteGranted.
MarshalNoVote(x) == [f \in {"term"} |-> x[f]]

MarshalRequestVoteReply(x) == Put(x, ZeroRequestVoteReply)

MarshalAppendEntriesReply(x) == Put(x, ZeroAppendEntriesReply)

MarshalLogEntry(x) == Put(x, ZeroLogEntry)

MarshalAppendEntriesRequest(x) ==
  Put([x EXCEPT !.entries = [i \in DOMAIN @ |-> MarshalLogEntry(@[i])]], ZeroAppendEntriesRequest)

(***************************************************************************)
(* UnmarshalProtoJSON of each message, into the object x.  The elements of *)
(* a repeated field are appended to those x already holds.                 *)
(***************************************************************************)
UnmarshalRequestVoteRequest(x, doc) == Take(x, doc)

UnmarshalRequestVoteReply(x, doc) == Take(x, doc)

UnmarshalAppendEntriesReply(x, doc) == Take(x, doc)

UnmarshalLogEntry(x, doc) == Take(x, doc)

\* Mutant of UnmarshalAppendEntriesRequest: no case for the repeated field.
UnmarshalNoEntries(x, doc) == [Take(x, doc) EXCEPT !.entries = x.entries]

UnmarshalAppendEntriesRequest(x, doc) ==
  LET new == IF "entries" \in DOMAIN doc
             THEN [i \in DOMAIN doc.entries |-> UnmarshalLogEntry(ZeroLogEntry, doc.entries[i])]
             ELSE <<>>
  IN  [Take(x, doc) EXCEPT !.entries = x.entries \o new]
=============================================================================
