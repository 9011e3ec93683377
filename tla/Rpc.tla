-------------------------------- MODULE Rpc --------------------------------
(***************************************************************************)
(* The remote calls of internal/rpc over an MQTT broker, one RPCClient per *)
(* member of Client, with the start-up order of setupRaftNode in           *)
(* pkg/app/app.go: the Raft node may call before the client is started,    *)
(* and requests may arrive before the handlers are registered.             *)
(*                                                                         *)
(* A step is a critical section of pendingMux, one operation on a channel, *)
(* or one exchange with the broker.  Contexts expire at any moment.  A     *)
(* message in flight may wait for ever, which loses it, and messages       *)
(* overtake each other; QOS 2 keeps the broker from duplicating them.  The *)
(* callbacks of one client run one at a time, as the paho library does by  *)
(* default.  A panic or a fatal error of the Go runtime ends the client.   *)
(***************************************************************************)
EXTENDS ProtoJSON, FiniteSets

CONSTANTS
  Client,     \* the ids of the clients
  Id,         \* request ids, what uuid.New draws from
  Everyone,   \* the target of a broadcast
  None,       \* no record
  Requests,   \* the [method, params] that are sent, params as decoded
  Replies,    \* Replies[m]: what the handler of method m may answer
  ChanCap,    \* capacity of a response channel (10 in the code)
  MaxFaults   \* bound: how many broker operations fail and clients leave

ASSUME TargetAssumption == Everyone \notin Client
ASSUME RpcBounds == ChanCap \in Nat \ {0} /\ MaxFaults \in Nat

\* What req holds of a request.
Question ==
  [from : Client, to : Client \cup {Everyone}, method : {q.method : q \in Requests},
   params : {q.params : q \in Requests}]

ASSUME NoneAssumption == None \notin Question \cup [from : Client, to : Client \cup {Everyone}]

VARIABLES
  setup,      \* how far setupRaftNode is: what it does next
  online,     \* Disconnect has not been called
  started,    \* subscribed to rpc/broadcast and rpc/<id>
  object,     \* object[c][m]: the request object its handler of m decodes into
  req,        \* req[r]: the request sent under id r
  pc,         \* where the call with id r is
  expired,    \* ids whose context is done
  pending,    \* the keys of the pending map of each client
  chan,       \* the responses queued in the channel of a call
  closed,     \* ids whose channel has been closed
  subscribed, \* ids whose response topic is subscribed
  inbox,      \* messages the broker holds for clients
  taken,      \* taken[c]: handleResponse between its unlock and its send
  panicked,   \* panicked[c]: what ended the client, or "no"
  faults,
  got, served, early   \* history: responses read, handler runs, calls made
                       \* before Start

setupVars == <<setup, online, started>>
callVars  == <<req, pc, expired, got>>
mapVars   == <<pending, chan, closed>>
vars == <<setupVars, object, callVars, mapVars, subscribed, inbox, taken,
          panicked, faults, served, early>>

RequestVote   == "raft.RequestVote"
AppendEntries == "raft.AppendEntries"
Method == {RequestVote, AppendEntries}

NoParams == None

ZeroRequest(m) ==
  IF m = RequestVote THEN ZeroRequestVoteRequest ELSE ZeroAppendEntriesRequest

\* The fields of the messages of a method, as the generated structs type them.
RequestOf(m) ==
  IF m = RequestVote
  THEN [term : Nat, candidateId : STRING, lastLogIndex : Nat, lastLogTerm : Nat,
        isLogStored : BOOLEAN]
  ELSE [term : Nat, leaderId : STRING, prevLogIndex : Nat, prevLogTerm : Nat,
        entries : Seq([command : STRING, term : Nat]), leaderCommit : Nat,
        followerHasEntries : BOOLEAN, leaderHasComitted : BOOLEAN]

ReplyOf(m) ==
  IF m = RequestVote THEN [term : Nat, voteGranted : BOOLEAN]
                     ELSE [term : Nat, success : BOOLEAN, matchIndex : Nat]

ASSUME MessageAssumption ==
  /\ \A q \in Requests :
       q.method \in Method /\ q.params \in RequestOf(q.method) \cup {NoParams}
  /\ \A m \in Method : Replies[m] \subseteq ReplyOf(m) /\ None \notin RequestOf(m)

\* A truth of TLA+ that the provers do not know: the zero value is a string.
ASSUME StringAssumption == "" \in STRING

Up(c) == panicked[c] = "no"
Panic(c, why) == panicked' = [panicked EXCEPT ![c] = why]
Broadcast(r) == req[r].to = Everyone
Set(r, phase) == pc' = [pc EXCEPT ![r] = phase]

\* A broker operation may fail, and does when the client has disconnected.
Fault == faults < MaxFaults /\ faults' = faults + 1
Fails(c) == IF online[c] THEN Fault ELSE UNCHANGED faults
Works(c) == online[c] /\ UNCHANGED faults

\* The clients of S have been set up, the others are about to be.
InitWith(S) ==
  /\ setup = [c \in Client |-> IF c \in S THEN "done" ELSE "Start"]
  /\ online = [c \in Client |-> TRUE]
  /\ started = S
  /\ object = [c \in Client |-> [m \in Method |-> ZeroRequest(m)]]
  /\ req = [r \in Id |-> None]
  /\ pc = [r \in Id |-> "unused"]
  /\ got = [r \in Id |-> <<>>]
  /\ expired = {}
  /\ pending = [c \in Client |-> {}]
  /\ chan = [r \in Id |-> <<>>]
  /\ closed = {} /\ subscribed = {} /\ inbox = {}
  /\ taken = [c \in Client |-> None]
  /\ panicked = [c \in Client |-> "no"]
  /\ faults = 0
  /\ served = {} /\ early = {}

Init == InitWith({})

-----------------------------------------------------------------------------
(* setupRaftNode: Start, then one RegisterProtoHandler for each method.    *)

\* Start closes and forgets every pending channel, then subscribes; the error
\* of a failed subscription is ignored by setupRaftNode.
Start(c) ==
  /\ Up(c) /\ setup[c] = "Start"
  /\ closed' = closed \cup pending[c]
  /\ pending' = [pending EXCEPT ![c] = {}]
  /\ \/ Works(c) /\ started' = started \cup {c}
     \/ Fails(c) /\ UNCHANGED started
  /\ setup' = [setup EXCEPT ![c] = RequestVote]
  /\ UNCHANGED <<online, object, callVars, chan, subscribed, inbox, taken,
                 panicked, served, early>>

RegisterProtoHandler(c) ==
  /\ Up(c) /\ setup[c] \in Method
  /\ setup' = [setup EXCEPT ![c] = IF @ = RequestVote THEN AppendEntries ELSE "done"]
  /\ UNCHANGED <<online, started, object, callVars, mapVars, subscribed, inbox,
                 taken, panicked, faults, served, early>>

\* The handler Get finds.
Registered(c, m) ==
  \/ setup[c] = "done"
  \/ setup[c] = AppendEntries /\ m = RequestVote

Disconnect(c) ==
  /\ Up(c) /\ online[c] /\ Fault
  /\ online' = [online EXCEPT ![c] = FALSE]
  /\ UNCHANGED <<setup, started, object, callVars, mapVars, subscribed, inbox,
                 taken, panicked, served, early>>

-----------------------------------------------------------------------------
(* CallRPC and BroadcastRPC.                                               *)

\* The first half of both: a fresh id and its channel enter the pending map.
\* The Raft node broadcasts its vote requests and calls AppendEntries.
Begin(c, r) ==
  /\ Up(c) /\ pc[r] = "unused"
  /\ \E q \in Requests :
       \E to \in IF q.method = RequestVote THEN {Everyone} ELSE Client \ {c} :
         req' = [req EXCEPT ![r] = [from |-> c, to |-> to, method |-> q.method,
                                    params |-> q.params]]
  /\ Set(r, "subscribing")
  /\ pending' = [pending EXCEPT ![c] = @ \cup {r}]
  /\ early' = IF setup[c] = "Start" THEN early \cup {r} ELSE early
  /\ UNCHANGED <<setupVars, object, expired, got, chan, closed, subscribed,
                 inbox, taken, panicked, faults, served>>

\* subscribeResponses; on failure the call returns and stays pending.
SubscribeResponses(r) ==
  LET c == req[r].from IN
  /\ pc[r] = "subscribing" /\ Up(c)
  /\ \/ Works(c) /\ Set(r, "publishing") /\ subscribed' = subscribed \cup {r}
     \/ Fails(c) /\ Set(r, "failed") /\ UNCHANGED subscribed
  /\ UNCHANGED <<setupVars, object, req, expired, got, mapVars, inbox, taken,
                 panicked, served, early>>

\* Mutant of Receivers: a call goes to the topic of a broadcast.
ReceiversAll(q) == started

\* Who the broker hands a request to.
Receivers(q) == started \cap (IF q.to = Everyone THEN Client ELSE {q.to})

\* Mutant of Cleanup: the channel is forgotten but not closed.
CleanupNoClose(r) ==
  /\ pending' = [pending EXCEPT ![req[r].from] = @ \ {r}]
  /\ UNCHANGED <<chan, closed>>

Cleanup(r) ==
  LET c == req[r].from IN
  /\ closed' = IF r \in pending[c] THEN closed \cup {r} ELSE closed
  /\ pending' = [pending EXCEPT ![c] = @ \ {r}]
  /\ UNCHANGED chan

\* On failure CallRPC returns and stays pending, BroadcastRPC cleans up.
PublishRequest(r) ==
  LET c == req[r].from IN
  /\ pc[r] = "publishing" /\ Up(c)
  /\ \/ /\ Works(c)
        /\ Set(r, IF Broadcast(r) THEN "returned" ELSE "waiting")
        /\ inbox' = inbox \cup {[to |-> x, id |-> r, body |-> None] : x \in Receivers(req[r])}
        /\ UNCHANGED mapVars
     \/ /\ Fails(c) /\ Set(r, "failed")
        /\ IF Broadcast(r) THEN Cleanup(r) ELSE UNCHANGED mapVars
        /\ UNCHANGED inbox
  /\ UNCHANGED <<setupVars, object, req, expired, got, subscribed, taken,
                 panicked, served, early>>

\* The select of CallRPC takes a response, and leaves the call pending.  A
\* channel that Start closed yields a nil response, and its Error() panics.
ReceiveAnswer(r) ==
  LET c == req[r].from IN
  /\ pc[r] = "waiting" /\ Up(c)
  /\ \/ /\ chan[r] # <<>>
        /\ got' = [got EXCEPT ![r] = <<Head(chan[r])>>]
        /\ chan' = [chan EXCEPT ![r] = Tail(@)]
        /\ Set(r, "returned")
        /\ UNCHANGED panicked
     \/ /\ chan[r] = <<>> /\ r \in closed
        /\ Panic(c, "nil response")
        /\ UNCHANGED <<got, chan, pc>>
  /\ UNCHANGED <<setupVars, object, req, expired, pending, closed, subscribed,
                 inbox, taken, faults, served, early>>

\* Mutants of CallTimesOut: the select has no case for the context; the case is
\* taken before the context is done.
CallNeverTimesOut(r) == pc[r] = "waiting" /\ FALSE /\ UNCHANGED vars

CallTimesOutEarly(r) ==
  /\ pc[r] = "waiting" /\ Up(req[r].from) /\ r \in pending[req[r].from]
  /\ Cleanup(r) /\ Set(r, "expired")
  /\ UNCHANGED <<setupVars, object, req, expired, got, subscribed, inbox,
                 taken, panicked, faults, served, early>>

\* The select of CallRPC sees its context done.  If Start has emptied the
\* pending map, what it closes is a nil channel.
CallTimesOut(r) ==
  LET c == req[r].from IN
  /\ pc[r] = "waiting" /\ Up(c) /\ r \in expired
  /\ IF r \in pending[c]
     THEN Cleanup(r) /\ Set(r, "expired") /\ UNCHANGED panicked
     ELSE Panic(c, "close of nil channel") /\ UNCHANGED <<mapVars, pc>>
  /\ UNCHANGED <<setupVars, object, req, expired, got, subscribed, inbox,
                 taken, faults, served, early>>

\* The caller of BroadcastRPC reads from the channel it was given.
ReadBroadcast(r) ==
  /\ pc[r] = "returned" /\ Broadcast(r) /\ Up(req[r].from)
  /\ chan[r] # <<>>
  /\ got' = [got EXCEPT ![r] = Append(@, Head(chan[r]))]
  /\ chan' = [chan EXCEPT ![r] = Tail(@)]
  /\ UNCHANGED <<setupVars, object, req, pc, expired, pending, closed,
                 subscribed, inbox, taken, panicked, faults, served, early>>

\* The timeout of the context, or the caller's cancel.
Expire(r) ==
  /\ pc[r] # "unused" /\ r \notin expired
  /\ expired' = expired \cup {r}
  /\ UNCHANGED <<setupVars, object, req, pc, got, mapVars, subscribed, inbox,
                 taken, panicked, faults, served, early>>

\* The goroutine of BroadcastRPC that waits for the context.
CleanupBroadcast(r) ==
  /\ pc[r] = "returned" /\ Broadcast(r) /\ Up(req[r].from)
  /\ r \in expired /\ r \in pending[req[r].from]
  /\ Cleanup(r)
  /\ UNCHANGED <<setupVars, object, callVars, subscribed, inbox, taken,
                 panicked, faults, served, early>>

\* Mutant of Unsubscribe: only a call that is still pending is unsubscribed.
UnsubscribePending(r) ==
  /\ r \in subscribed /\ r \in expired /\ r \in pending[req[r].from]
  /\ subscribed' = subscribed \ {r}
  /\ UNCHANGED <<setupVars, object, callVars, mapVars, inbox, taken, panicked,
                 faults, served, early>>

\* The goroutine of subscribeResponses that waits for the context.
Unsubscribe(r) ==
  /\ r \in subscribed /\ r \in expired /\ Up(req[r].from)
  /\ subscribed' = subscribed \ {r}
  /\ UNCHANGED <<setupVars, object, callVars, mapVars, inbox, taken, panicked,
                 faults, served, early>>

-----------------------------------------------------------------------------
(* handleRequest, the callback of the two request topics.                  *)

UnmarshalParams(m, x, params) ==
  IF m = RequestVote
  THEN UnmarshalRequestVoteRequest(x, MarshalRequestVoteRequest(params))
  ELSE UnmarshalAppendEntriesRequest(x, MarshalAppendEntriesRequest(params))

MarshalReply(m, rep) ==
  IF m = RequestVote THEN MarshalRequestVoteReply(rep) ELSE MarshalAppendEntriesReply(rep)

\* startElection and sendLeaderHeartbeats decode a result into a new object.
UnmarshalReply(m, doc) ==
  IF m = RequestVote THEN UnmarshalRequestVoteReply(ZeroRequestVoteReply, doc)
                     ELSE UnmarshalAppendEntriesReply(ZeroAppendEntriesReply, doc)

Response(c, code, result) == [from |-> c, code |-> code, result |-> result]

\* makeProtoRPCHandler: the parameters are decoded into the one object of the
\* method, and a handler that fails answers nothing.
Handler(c, r, answer) ==
  LET m == req[r].method
      args == UnmarshalParams(m, object[c][m], req[r].params)
  IN  /\ object' = [object EXCEPT ![c][m] = args]
      /\ \E rep \in Replies[m] \cup {None} :
           /\ answer = IF rep = None THEN None ELSE Response(c, 0, MarshalReply(m, rep))
           /\ served' = served \cup {[id |-> r, by |-> c, saw |-> args, answer |-> answer]}

Refuse(c, r, answer) ==
  /\ served' = served \cup {[id |-> r, by |-> c, saw |-> None, answer |-> answer]}
  /\ UNCHANGED object

Answers(c) ==
  {None, Response(c, 404, None), Response(c, 400, None)}
    \cup UNION {{Response(c, 0, MarshalReply(m, rep)) : rep \in Replies[m]} : m \in Method}

\* Its own broadcast is dropped.  The response goes to whoever subscribes to
\* rpc/response/<id>, and a failure to publish it is only printed.
HandleRequest(c) ==
  \E m \in inbox, answer \in Answers(c) :
    LET r == m.id
        reply == [to |-> req[r].from, id |-> r, body |-> answer]
    IN
    /\ Up(c) /\ online[c] /\ taken[c] = None
    /\ m.to = c /\ m.body = None
    /\ IF req[r].from = c THEN answer = None /\ UNCHANGED <<object, served>>
       ELSE IF ~Registered(c, req[r].method)
            THEN answer = Response(c, 404, None) /\ Refuse(c, r, answer)
       ELSE IF req[r].params = NoParams
            THEN answer = Response(c, 400, None) /\ Refuse(c, r, answer)
       ELSE Handler(c, r, answer)
    /\ \/ /\ Works(c)
          /\ inbox' = (inbox \ {m}) \cup
               (IF answer # None /\ r \in subscribed THEN {reply} ELSE {})
       \/ answer # None /\ Fault /\ inbox' = inbox \ {m}
    /\ UNCHANGED <<setupVars, callVars, mapVars, subscribed, taken, panicked, early>>

\* Get reads the map of handlers without a lock while setupRaftNode may be
\* writing to it: the Go runtime may then stop the program.
RegistryRace(c) ==
  /\ Up(c) /\ online[c] /\ taken[c] = None /\ setup[c] \in Method
  /\ \E m \in inbox : m.to = c /\ m.body = None /\ req[m.id].from # c
  /\ Panic(c, "concurrent map access")
  /\ UNCHANGED <<setupVars, object, callVars, mapVars, subscribed, inbox,
                 taken, faults, served, early>>

-----------------------------------------------------------------------------
(* handleResponse, the callback of a response topic.                       *)

\* Up to the unlock: the channel is looked up.  It is used after the unlock.
LookupPending(c) ==
  \E m \in inbox :
    /\ Up(c) /\ online[c] /\ taken[c] = None
    /\ m.to = c /\ m.body # None
    /\ inbox' = inbox \ {m}
    /\ taken' = [taken EXCEPT ![c] = IF m.id \in pending[c] THEN m ELSE None]
    /\ UNCHANGED <<setupVars, object, callVars, mapVars, subscribed, panicked,
                   faults, served, early>>

\* An error waits for room in the channel, a result is dropped when it is full.
SendResponse(c) ==
  /\ Up(c) /\ taken[c] # None
  /\ LET r == taken[c].id
         room == Len(chan[r]) < ChanCap
     IN  \/ r \in closed /\ Panic(c, "send on closed channel") /\ UNCHANGED <<chan, taken>>
         \/ /\ r \notin closed /\ (room \/ taken[c].body.code = 0)
            /\ chan' = IF room THEN [chan EXCEPT ![r] = Append(@, taken[c].body)] ELSE chan
            /\ taken' = [taken EXCEPT ![c] = None]
            /\ UNCHANGED panicked
  /\ UNCHANGED <<setupVars, object, callVars, pending, closed, subscribed,
                 inbox, faults, served, early>>

-----------------------------------------------------------------------------
ClientStep(c) ==
  \/ Start(c) \/ RegisterProtoHandler(c) \/ Disconnect(c)
  \/ HandleRequest(c) \/ RegistryRace(c)
  \/ LookupPending(c) \/ SendResponse(c)
  \/ \E r \in Id : Begin(c, r)

CallStep(r) ==
  \/ SubscribeResponses(r) \/ PublishRequest(r)
  \/ ReceiveAnswer(r) \/ CallTimesOut(r) \/ ReadBroadcast(r)
  \/ Expire(r) \/ CleanupBroadcast(r) \/ Unsubscribe(r)

Next == (\E c \in Client : ClientStep(c)) \/ (\E r \in Id : CallStep(r))

\* Goroutines keep running and a context has a timeout; calls are not forced,
\* and neither is the caller of BroadcastRPC to read its channel.
Fairness ==
  /\ \A r \in Id :
       /\ WF_vars(SubscribeResponses(r) \/ PublishRequest(r)
                    \/ ReceiveAnswer(r) \/ CallTimesOut(r))
       /\ WF_vars(Expire(r)) /\ WF_vars(CleanupBroadcast(r)) /\ WF_vars(Unsubscribe(r))
  /\ \A c \in Client : WF_vars(SendResponse(c))

Spec == Init /\ [][Next]_vars /\ Fairness
=============================================================================
