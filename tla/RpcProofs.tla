----------------------------- MODULE RpcProofs -----------------------------
(***************************************************************************)
(* The remote calls over MQTT keep the promise of module RpcCalls, for     *)
(* any number of clients and calls and whatever is lost, delayed,          *)
(* reordered or times out.  The proof follows a response on its way: it    *)
(* is with the broker, in the hands of handleResponse, in the channel of   *)
(* its call or read, in one place at a time, and a request that is still   *)
(* with the broker has not been handled by its receiver.                   *)
(*                                                                         *)
(* Three sections follow: what a client dies of (PanicInv), what encoding  *)
(* and decoding a message does to its fields, and what handlers and        *)
(* callers therefore see (DataInv).                                        *)
(***************************************************************************)
EXTENDS RpcProperties, SequenceTheorems, TLAPS

\* Zenon proves the steps without arithmetic; the others cite SMT.
USE Zenon

Fresh == {"unused", "subscribing", "publishing"}

Body == UNION {Answers(c) : c \in Client}

\* Client c was done with request r.
Served(r, c) == \E s \in served : s.id = r /\ s.by = c

\* Response e was given to request r.
Given(r, e) ==
  /\ e # None
  /\ \E s \in served : s.id = r /\ s.by = e.from /\ s.answer = e

\* Requests and the progress of their calls.
CallInv ==
  /\ req \in [Id -> Question \cup {None}]
  /\ pc \in [Id -> Phase]
  /\ started \subseteq Client
  /\ \A r \in Id :
       /\ pc[r] = "unused" <=> req[r] = None
       /\ pc[r] = "waiting" => ~Broadcast(r)
       /\ pc[r] \in Fresh \cup {"waiting"} => got[r] = <<>>

\* A request is handled at most once by each client.
ServedInv ==
  /\ \A s \in served :
       /\ s.id \in Id /\ s.by \in Client /\ s.answer \in Answers(s.by)
       /\ pc[s.id] \notin Fresh
  /\ \A s \in served, t \in served : s.id = t.id /\ s.by = t.by => s = t

\* What the broker holds: requests that were not handled yet, and responses.
InboxInv ==
  \A m \in inbox :
    /\ m = [to |-> m.to, id |-> m.id, body |-> m.body]
    /\ m.id \in Id /\ pc[m.id] \notin Fresh
    /\ IF m.body = None
       THEN req[m.id].to \in {m.to, Everyone} /\ ~Served(m.id, m.to)
       ELSE m.to = req[m.id].from /\ Given(m.id, m.body)

TakenInv ==
  /\ taken = [c \in Client |-> taken[c]]
  /\ \A c \in Client :
       taken[c] # None =>
         /\ taken[c].id \in Id /\ Given(taken[c].id, taken[c].body)
         /\ req[taken[c].id].from = c

\* The responses in the channel of r, and those that were read.
ReadInv ==
  /\ chan \in [Id -> Seq(Body)] /\ got \in [Id -> Seq(Body)]
  /\ \A r \in Id :
       /\ \A i \in 1..Len(chan[r]) : Given(r, chan[r][i])
       /\ \A i \in 1..Len(got[r]) : Given(r, got[r][i])

\* No response of client c to request r is in the channel of r, or was read.
Unsent(r, c) ==
  /\ \A i \in 1..Len(chan[r]) : chan[r][i].from # c
  /\ \A i \in 1..Len(got[r]) : got[r][i].from # c

\* A response is in one place.
PlaceInv ==
  /\ \A m \in inbox :
       m.body # None =>
         /\ Unsent(m.id, m.body.from)
         /\ \A c \in Client : taken[c] # None /\ taken[c].id = m.id =>
              taken[c].body.from # m.body.from
  /\ \A c \in Client : taken[c] # None => Unsent(taken[c].id, taken[c].body.from)
  /\ \A r \in Id :
       /\ \A i \in 1..Len(chan[r]), j \in 1..Len(chan[r]) :
            chan[r][i].from = chan[r][j].from => i = j
       /\ \A i \in 1..Len(got[r]), j \in 1..Len(chan[r]) :
            got[r][i].from # chan[r][j].from

Inv == CallInv /\ ServedInv /\ InboxInv /\ TakenInv /\ ReadInv /\ PlaceInv

-----------------------------------------------------------------------------
LEMMA InitInv == Init => Inv
<1> SUFFICES ASSUME Init PROVE Inv
  OBVIOUS
<1> USE DEF Init, InitWith
<1>1. CallInv BY SMT DEF CallInv, Phase, Fresh
<1>2. ServedInv BY DEF ServedInv
<1>3. InboxInv BY DEF InboxInv
<1>4. TakenInv BY SMT DEF TakenInv
<1>5. ReadInv BY SMT DEF ReadInv
<1>6. PlaceInv BY SMT DEF PlaceInv
<1>7. QED BY <1>1, <1>2, <1>3, <1>4, <1>5, <1>6 DEF Inv

-----------------------------------------------------------------------------
(* Facts about responses.                                                  *)

\* A response names the client that gave it.
LEMMA AnswerFrom ==
  ASSUME NEW c \in Client, NEW e \in Answers(c), e # None
  PROVE  e \in Body /\ e.from = c
<1>1. e \in Body BY DEF Body
<1>2. CASE e \in {Response(c, 404, None), Response(c, 400, None)}
  BY <1>1, <1>2, SMT DEF Response
<1>3. CASE \E m \in Method : \E rep \in Replies[m] : e = Response(c, 0, MarshalReply(m, rep))
  <2>1. PICK x : e = Response(c, 0, x) BY <1>3
  <2>2. QED BY <1>1, <2>1, SMT DEF Response
<1>4. \/ e \in {Response(c, 404, None), Response(c, 400, None)}
      \/ e \in UNION {{Response(c, 0, MarshalReply(m, rep)) : rep \in Replies[m]} :
                      m \in Method}
  BY DEF Answers
<1>5. QED
  <2>1. ASSUME NEW S \in {{Response(c, 0, MarshalReply(m, rep)) : rep \in Replies[m]} :
                          m \in Method}, e \in S
        PROVE  e.from = c
    BY <1>3, <2>1
  <2>2. QED BY <1>1, <1>2, <1>4, <2>1

\* A response that was given stays given while handlers only add to served.
LEMMA GivenKept ==
  ASSUME served \subseteq served'
  PROVE  \A r, e : Given(r, e) => Given(r, e)'
BY DEF Given

\* The call of a response that was given has been published.
LEMMA GivenIsServed ==
  ASSUME ServedInv, NEW r, NEW e, Given(r, e)
  PROVE  /\ r \in Id /\ pc[r] \notin Fresh /\ e.from \in Client /\ Served(r, e.from)
         /\ e \in Body
BY DEF ServedInv, Given, Served, Body

\* A client gives one response to a request.
LEMMA GivenOnce ==
  ASSUME ServedInv, NEW r, NEW e, NEW f, Given(r, e), Given(r, f), e.from = f.from
  PROVE  e = f
BY DEF ServedInv, Given

-----------------------------------------------------------------------------
(* What the steps do to the variables of the invariant.                    *)

coreVars == <<req, pc, inbox, taken, chan, got, served>>

\* The steps that change none of these.
Quiet ==
  \/ \E c \in Client : Start(c) \/ RegisterProtoHandler(c) \/ Disconnect(c) \/ RegistryRace(c)
  \/ \E r \in Id : Expire(r) \/ CleanupBroadcast(r) \/ Unsubscribe(r)
  \/ UNCHANGED vars

LEMMA QuietSteps ==
  ASSUME Quiet
  PROVE  UNCHANGED coreVars /\ (started \subseteq Client => started' \subseteq Client)
<1> USE DEF coreVars, callVars, mapVars, setupVars
<1>1. ASSUME NEW c \in Client,
             Start(c) \/ RegisterProtoHandler(c) \/ Disconnect(c) \/ RegistryRace(c)
      PROVE  UNCHANGED coreVars /\ started' \in {started, started \cup {c}}
  BY <1>1 DEF Start, RegisterProtoHandler, Disconnect, RegistryRace
<1>2. ASSUME NEW r \in Id, Expire(r) \/ CleanupBroadcast(r) \/ Unsubscribe(r)
      PROVE  UNCHANGED coreVars /\ UNCHANGED started
  BY <1>2 DEF Expire, CleanupBroadcast, Unsubscribe, Cleanup
<1>3. CASE UNCHANGED vars BY <1>3 DEF vars
<1>4. QED BY <1>1, <1>2, <1>3 DEF Quiet

LEMMA StepCases ==
  ASSUME [Next]_vars
  PROVE  \/ Quiet
         \/ \E c \in Client : \/ \E r \in Id : Begin(c, r)
                              \/ HandleRequest(c) \/ LookupPending(c) \/ SendResponse(c)
         \/ \E r \in Id : \/ SubscribeResponses(r) \/ CallTimesOut(r) \/ PublishRequest(r)
                          \/ ReceiveAnswer(r) \/ ReadBroadcast(r)
<1>1. ASSUME NEW c \in Client, ClientStep(c)
      PROVE  \/ Quiet \/ \E r \in Id : Begin(c, r)
             \/ HandleRequest(c) \/ LookupPending(c) \/ SendResponse(c)
  BY <1>1 DEF ClientStep, Quiet
<1>2. ASSUME NEW r \in Id, CallStep(r)
      PROVE  \/ Quiet \/ SubscribeResponses(r) \/ CallTimesOut(r) \/ PublishRequest(r)
             \/ ReceiveAnswer(r) \/ ReadBroadcast(r)
  BY <1>2 DEF CallStep, Quiet
<1>3. QED BY <1>1, <1>2 DEF Next, Quiet

LEMMA SubscribeSteps ==
  ASSUME NEW r \in Id, SubscribeResponses(r)
  PROVE  /\ UNCHANGED <<started, req, inbox, taken, chan, got, served>>
         /\ pc[r] = "subscribing"
         /\ pc' = [pc EXCEPT ![r] = "publishing"] \/ pc' = [pc EXCEPT ![r] = "failed"]
BY DEF SubscribeResponses, Set, mapVars, setupVars

LEMMA TimeOutSteps ==
  ASSUME NEW r \in Id, CallTimesOut(r)
  PROVE  /\ UNCHANGED <<started, req, inbox, taken, chan, got, served>>
         /\ pc[r] = "waiting"
         /\ pc' = [pc EXCEPT ![r] = "expired"] \/ pc' = pc
BY DEF CallTimesOut, Set, Cleanup, mapVars, setupVars

LEMMA PublishSteps ==
  ASSUME NEW r \in Id, PublishRequest(r)
  PROVE  /\ UNCHANGED <<started, req, taken, chan, got, served>>
         /\ pc[r] = "publishing"
         /\ \/ pc' = [pc EXCEPT ![r] = "failed"] /\ UNCHANGED inbox
            \/ /\ pc' = [pc EXCEPT ![r] = IF Broadcast(r) THEN "returned" ELSE "waiting"]
               /\ inbox' = inbox \cup
                    {[to |-> x, id |-> r, body |-> None] : x \in Receivers(req[r])}
<1>1. /\ UNCHANGED <<setupVars, req, got, taken, served>> /\ pc[r] = "publishing"
  BY DEF PublishRequest
<1>2. CASE Set(r, "failed") /\ UNCHANGED inbox /\ (Cleanup(r) \/ UNCHANGED mapVars)
  BY <1>1, <1>2 DEF Set, Cleanup, mapVars, setupVars
<1>3. CASE /\ Set(r, IF Broadcast(r) THEN "returned" ELSE "waiting") /\ UNCHANGED mapVars
           /\ inbox' = inbox \cup
                {[to |-> x, id |-> r, body |-> None] : x \in Receivers(req[r])}
  BY <1>1, <1>3 DEF Set, mapVars, setupVars
<1>4. QED BY <1>2, <1>3 DEF PublishRequest

\* ReceiveAnswer and ReadBroadcast take the head of the channel.
LEMMA ReadSteps ==
  ASSUME Inv, NEW r \in Id, ReceiveAnswer(r) \/ ReadBroadcast(r)
  PROVE  /\ UNCHANGED <<started, req, inbox, taken, served>>
         /\ \/ UNCHANGED <<pc, chan, got>>
            \/ /\ pc' = [pc EXCEPT ![r] = "returned"] \/ UNCHANGED pc
               /\ pc[r] = "waiting" \/ (pc[r] = "returned" /\ Broadcast(r))
               /\ pc'[r] = "returned"
               /\ pc[r] = "waiting" => got[r] = <<>>
               /\ chan[r] # <<>> /\ chan' = [chan EXCEPT ![r] = Tail(chan[r])]
               /\ got' = [got EXCEPT ![r] = Append(got[r], Head(chan[r]))]
<1> USE DEF setupVars
<1>1. pc \in [Id -> Phase] /\ (pc[r] = "waiting" => got[r] = <<>>)
  BY DEF Inv, CallInv
<1>2. CASE ReadBroadcast(r) BY <1>1, <1>2 DEF ReadBroadcast
<1>3. CASE ReceiveAnswer(r)
  <2>1. UNCHANGED <<started, req, inbox, taken, served>> /\ pc[r] = "waiting"
    BY <1>3 DEF ReceiveAnswer
  <2>2. \/ UNCHANGED <<pc, chan, got>>
        \/ /\ chan[r] # <<>> /\ chan' = [chan EXCEPT ![r] = Tail(chan[r])]
           /\ got' = [got EXCEPT ![r] = <<Head(chan[r])>>]
           /\ pc' = [pc EXCEPT ![r] = "returned"]
    BY <1>3 DEF ReceiveAnswer, Set
  <2>3. got[r] = <<>> BY <1>1, <2>1
  <2>4. Append(got[r], Head(chan[r])) = <<Head(chan[r])>> BY <2>3, SMT
  <2>5. pc' = [pc EXCEPT ![r] = "returned"] => pc'[r] = "returned" BY <1>1
  <2>6. CASE UNCHANGED <<pc, chan, got>> BY <2>1, <2>6
  <2>7. CASE ~UNCHANGED <<pc, chan, got>>
    <3>1. got' = [got EXCEPT ![r] = Append(got[r], Head(chan[r]))]
      BY <2>2, <2>4, <2>7
    <3>2. /\ chan[r] # <<>> /\ chan' = [chan EXCEPT ![r] = Tail(chan[r])]
          /\ pc' = [pc EXCEPT ![r] = "returned"] /\ pc'[r] = "returned"
      BY <2>2, <2>5, <2>7
    <3>3. QED BY <1>1, <2>1, <3>1, <3>2
  <2>8. QED BY <2>6, <2>7
<1>4. QED BY <1>2, <1>3

\* Client c drops message m, or is done with it and answers a.
Handles(c, m, a) ==
  /\ m.to = c /\ m.body = None
  /\ \/ UNCHANGED served /\ inbox' = inbox \ {m}
     \/ /\ req[m.id].from # c
        /\ \E x : served' = served \cup
             {[id |-> m.id, by |-> c, saw |-> x, answer |-> a]}
        /\ \/ inbox' = inbox \ {m}
           \/ /\ a # None
              /\ inbox' = (inbox \ {m}) \cup
                   {[to |-> req[m.id].from, id |-> m.id, body |-> a]}

LEMMA HandleSteps ==
  ASSUME NEW c \in Client, HandleRequest(c)
  PROVE  /\ UNCHANGED <<started, req, pc, taken, chan, got>>
         /\ \E m \in inbox, a \in Answers(c) : Handles(c, m, a)
<1>1. PICK m \in inbox, a \in Answers(c) :
        /\ m.to = c /\ m.body = None
        /\ IF req[m.id].from = c THEN a = None /\ UNCHANGED <<object, served>>
           ELSE IF ~Registered(c, req[m.id].method)
                THEN a = Response(c, 404, None) /\ Refuse(c, m.id, a)
           ELSE IF req[m.id].params = NoParams
                THEN a = Response(c, 400, None) /\ Refuse(c, m.id, a)
           ELSE Handler(c, m.id, a)
        /\ \/ /\ Works(c)
              /\ inbox' = (inbox \ {m}) \cup
                   (IF a # None /\ m.id \in subscribed
                    THEN {[to |-> req[m.id].from, id |-> m.id, body |-> a]} ELSE {})
           \/ a # None /\ Fault /\ inbox' = inbox \ {m}
        /\ UNCHANGED <<setupVars, callVars, mapVars, taken>>
  BY DEF HandleRequest
<1>2. UNCHANGED <<started, req, pc, taken, chan, got>>
  BY <1>1 DEF setupVars, callVars, mapVars
<1>3. \/ inbox' = inbox \ {m}
      \/ /\ a # None
         /\ inbox' = (inbox \ {m}) \cup
              {[to |-> req[m.id].from, id |-> m.id, body |-> a]}
  BY <1>1
<1>4. CASE req[m.id].from = c
  <2>1. a = None /\ UNCHANGED served BY <1>1, <1>4
  <2>2. QED BY <1>1, <1>2, <1>3, <2>1 DEF Handles
<1>5. CASE req[m.id].from # c
  <2>1. Refuse(c, m.id, a) \/ Handler(c, m.id, a) BY <1>1, <1>5
  <2>2. \E x : served' = served \cup {[id |-> m.id, by |-> c, saw |-> x, answer |-> a]}
    BY <2>1 DEF Refuse, Handler
  <2>3. QED BY <1>1, <1>2, <1>3, <1>5, <2>2 DEF Handles
<1>6. QED BY <1>4, <1>5

LEMMA LookupSteps ==
  ASSUME NEW c \in Client, LookupPending(c)
  PROVE  /\ UNCHANGED <<started, req, pc, chan, got, served>> /\ taken[c] = None
         /\ \E m \in inbox :
              /\ m.to = c /\ m.body # None /\ inbox' = inbox \ {m}
              /\ \E x \in {m, None} : taken' = [taken EXCEPT ![c] = x]
BY DEF LookupPending, setupVars, callVars, mapVars

LEMMA SendSteps ==
  ASSUME NEW c \in Client, SendResponse(c)
  PROVE  /\ UNCHANGED <<started, req, pc, inbox, got, served>> /\ taken[c] # None
         /\ \/ UNCHANGED <<chan, taken>>
            \/ /\ taken' = [taken EXCEPT ![c] = None]
               /\ \/ UNCHANGED chan
                  \/ chan' = [chan EXCEPT ![taken[c].id] =
                                Append(chan[taken[c].id], taken[c].body)]
BY DEF SendResponse, setupVars, callVars


-----------------------------------------------------------------------------
(* The calls, and what was served.                                         *)

LEMMA BeginSteps ==
  ASSUME NEW c \in Client, NEW r \in Id, Begin(c, r)
  PROVE  /\ UNCHANGED <<started, inbox, taken, chan, got, served>>
         /\ pc[r] = "unused" /\ pc' = [pc EXCEPT ![r] = "subscribing"]
         /\ \E q \in Question :
              /\ q.from = c /\ q.to \in (Client \ {c}) \cup {Everyone}
              /\ req' = [req EXCEPT ![r] = q]
<1>1. PICK q \in Requests :
        \E to \in IF q.method = RequestVote THEN {Everyone} ELSE Client \ {c} :
          req' = [req EXCEPT ![r] = [from |-> c, to |-> to, method |-> q.method,
                                     params |-> q.params]]
  BY DEF Begin
<1>2. PICK to \in (Client \ {c}) \cup {Everyone} :
        req' = [req EXCEPT ![r] = [from |-> c, to |-> to, method |-> q.method,
                                   params |-> q.params]]
  BY <1>1
<1> DEFINE x == [from |-> c, to |-> to, method |-> q.method, params |-> q.params]
<1>3. x \in Question /\ x.from = c /\ x.to = to BY SMT DEF Question
<1>4. UNCHANGED <<started, inbox, taken, chan, got, served>> /\ pc[r] = "unused"
      /\ pc' = [pc EXCEPT ![r] = "subscribing"]
  BY DEF Begin, Set, setupVars
<1>5. QED BY <1>2, <1>3, <1>4

LEMMA CallKept == ASSUME Inv, [Next]_vars PROVE CallInv'
<1>0. CallInv /\ ReadInv /\ None \notin Question BY NoneAssumption DEF Inv
<1>1. CASE Quiet
  BY <1>0, <1>1, QuietSteps, SMT DEF CallInv, coreVars, Broadcast
<1>2. ASSUME NEW c \in Client, NEW r \in Id, Begin(c, r) PROVE CallInv'
  <2>1. PICK q \in Question : /\ q.from = c /\ q.to \in (Client \ {c}) \cup {Everyone}
                              /\ req' = [req EXCEPT ![r] = q]
    BY <1>2, BeginSteps, SMT
  <2>2. UNCHANGED <<started, got>> /\ pc[r] = "unused"
        /\ pc' = [pc EXCEPT ![r] = "subscribing"]
    BY <1>2, BeginSteps
  <2>3. QED BY <1>0, <2>1, <2>2, SMT DEF CallInv, Broadcast, Fresh, Phase
<1>3. ASSUME NEW r \in Id, SubscribeResponses(r) PROVE CallInv'
  BY <1>0, <1>3, SubscribeSteps, SMT DEF CallInv, Broadcast, Fresh, Phase
<1>4. ASSUME NEW r \in Id, CallTimesOut(r) PROVE CallInv'
  BY <1>0, <1>4, TimeOutSteps, SMT DEF CallInv, Broadcast, Fresh, Phase
<1>5. ASSUME NEW r \in Id, PublishRequest(r) PROVE CallInv'
  <2>1. PICK p \in {"failed", "returned", "waiting"} :
          pc' = [pc EXCEPT ![r] = p] /\ (p = "waiting" => ~Broadcast(r))
    BY <1>5, PublishSteps
  <2>2. UNCHANGED <<started, req, got>> /\ pc[r] = "publishing" BY <1>5, PublishSteps
  <2>3. QED BY <1>0, <2>1, <2>2, SMT DEF CallInv, Broadcast, Fresh, Phase
<1>6. ASSUME NEW r \in Id, ReceiveAnswer(r) \/ ReadBroadcast(r) PROVE CallInv'
  <2>1. UNCHANGED <<started, req>> BY <1>6, ReadSteps
  <2>2. CASE UNCHANGED <<pc, got>> BY <1>0, <2>1, <2>2, SMT DEF CallInv, Broadcast
  <2>3. CASE ~UNCHANGED <<pc, got>>
    <3>1. /\ pc' = [pc EXCEPT ![r] = "returned"] \/ UNCHANGED pc
          /\ pc[r] \in {"waiting", "returned"} /\ pc'[r] = "returned"
          /\ got' = [got EXCEPT ![r] = Append(got[r], Head(chan[r]))]
      BY <1>6, <2>3, ReadSteps
    <3>2. \A q \in Id \ {r} : got'[q] = got[q] /\ pc'[q] = pc[q]
      BY <1>0, <3>1, SMT DEF CallInv, ReadInv
    <3>3. QED BY <1>0, <2>1, <3>1, <3>2, SMT DEF CallInv, Broadcast, Fresh, Phase
  <2>4. QED BY <2>2, <2>3
<1>7. ASSUME NEW c \in Client, HandleRequest(c) \/ LookupPending(c) \/ SendResponse(c)
      PROVE  CallInv'
  <2>1. UNCHANGED <<started, req, pc, got>>
    BY <1>7, HandleSteps, LookupSteps, SendSteps
  <2>2. QED BY <1>0, <2>1, SMT DEF CallInv, Broadcast
<1>8. QED BY <1>1, <1>2, <1>3, <1>4, <1>5, <1>6, <1>7, StepCases

\* No published call becomes fresh again, and no request changes.
LEMMA CallsGoOn ==
  ASSUME Inv, [Next]_vars, NEW r \in Id, pc[r] \notin Fresh
  PROVE  pc'[r] \notin Fresh /\ req'[r] = req[r] /\ req[r] # None
<1>0. CallInv /\ req[r] # None BY SMT DEF Inv, CallInv, Fresh
<1>1. CASE Quiet BY <1>0, <1>1, QuietSteps DEF coreVars
<1>2. ASSUME NEW c \in Client, NEW q \in Id, Begin(c, q)
      PROVE  pc'[r] \notin Fresh /\ req'[r] = req[r]
  BY <1>0, <1>2, BeginSteps, SMT DEF CallInv, Fresh
<1>3. ASSUME NEW q \in Id, SubscribeResponses(q)
      PROVE  pc'[r] \notin Fresh /\ req'[r] = req[r]
  BY <1>0, <1>3, SubscribeSteps, SMT DEF CallInv, Fresh
<1>4. ASSUME NEW q \in Id, CallTimesOut(q)
      PROVE  pc'[r] \notin Fresh /\ req'[r] = req[r]
  BY <1>0, <1>4, TimeOutSteps, SMT DEF CallInv, Fresh
<1>5. ASSUME NEW q \in Id, PublishRequest(q)
      PROVE  pc'[r] \notin Fresh /\ req'[r] = req[r]
  <2>1. req' = req /\ pc[q] = "publishing" BY <1>5, PublishSteps
  <2>2. \E p : pc' = [pc EXCEPT ![q] = p] BY <1>5, PublishSteps
  <2>3. QED BY <1>0, <2>1, <2>2, SMT DEF CallInv, Fresh
<1>6. ASSUME NEW q \in Id, ReceiveAnswer(q) \/ ReadBroadcast(q)
      PROVE  pc'[r] \notin Fresh /\ req'[r] = req[r]
  <2>1. req' = req /\ (pc' = [pc EXCEPT ![q] = "returned"] \/ pc' = pc)
    BY <1>6, ReadSteps
  <2>2. QED BY <1>0, <2>1, SMT DEF CallInv, Fresh
<1>7. ASSUME NEW c \in Client, HandleRequest(c) \/ LookupPending(c) \/ SendResponse(c)
      PROVE  pc'[r] \notin Fresh /\ req'[r] = req[r]
  BY <1>7, HandleSteps, LookupSteps, SendSteps
<1>8. QED BY <1>0, <1>1, <1>2, <1>3, <1>4, <1>5, <1>6, <1>7, StepCases

\* Only HandleRequest adds to served, and what it adds is new.
LEMMA ServedSteps ==
  ASSUME Inv, [Next]_vars
  PROVE  \/ UNCHANGED served
         \/ \E c \in Client : HandleRequest(c)
<1>1. CASE Quiet BY <1>1, QuietSteps DEF coreVars
<1>2. ASSUME NEW c \in Client, NEW r \in Id, Begin(c, r) PROVE UNCHANGED served
  BY <1>2, BeginSteps
<1>3. ASSUME NEW r \in Id, \/ SubscribeResponses(r) \/ CallTimesOut(r) \/ PublishRequest(r)
                           \/ ReceiveAnswer(r) \/ ReadBroadcast(r)
      PROVE  UNCHANGED served
  BY <1>3, SubscribeSteps, TimeOutSteps, PublishSteps, ReadSteps
<1>4. ASSUME NEW c \in Client, LookupPending(c) \/ SendResponse(c) PROVE UNCHANGED served
  BY <1>4, LookupSteps, SendSteps
<1>5. QED BY <1>1, <1>2, <1>3, <1>4, StepCases

LEMMA ServedGrows == ASSUME Inv, [Next]_vars PROVE served \subseteq served'
BY ServedSteps, HandleSteps DEF Handles

LEMMA ServedKept == ASSUME Inv, [Next]_vars PROVE ServedInv'
<1>0. ServedInv /\ InboxInv BY DEF Inv
<1>1. CASE UNCHANGED served
  <2>1. \A s \in served : pc'[s.id] \notin Fresh BY <1>0, CallsGoOn DEF ServedInv
  <2>2. \A s \in served' : /\ s.id \in Id /\ s.by \in Client /\ s.answer \in Answers(s.by)
                           /\ pc'[s.id] \notin Fresh
    BY <1>0, <1>1, <2>1 DEF ServedInv
  <2>3. \A s \in served', t \in served' : s.id = t.id /\ s.by = t.by => s = t
    BY <1>0, <1>1 DEF ServedInv
  <2>4. QED BY <2>2, <2>3 DEF ServedInv, Answers
<1>2. ASSUME NEW c \in Client, HandleRequest(c) PROVE ServedInv'
  <2>1. PICK m \in inbox, a \in Answers(c) : Handles(c, m, a) BY <1>2, HandleSteps
  <2>2. CASE \E x : served' = served \cup
               {[id |-> m.id, by |-> c, saw |-> x, answer |-> a]}
    <3>1. PICK x : served' = served \cup
                     {[id |-> m.id, by |-> c, saw |-> x, answer |-> a]}
      BY <2>2
    <3> DEFINE h == [id |-> m.id, by |-> c, saw |-> x, answer |-> a]
    <3>2. h.id = m.id /\ h.by = c /\ h.answer = a /\ served' = served \cup {h}
      BY <3>1, SMT
    <3>3. m.id \in Id /\ pc[m.id] \notin Fresh /\ ~Served(m.id, c)
      BY <1>0, <2>1 DEF InboxInv, Handles
    <3> HIDE DEF h
    <3>4. \A s \in served' : /\ s.id \in Id /\ s.by \in Client /\ s.answer \in Answers(s.by)
                             /\ pc'[s.id] \notin Fresh
      BY <1>0, <3>2, <3>3, CallsGoOn DEF ServedInv
    <3>5. \A s \in served', t \in served' : s.id = t.id /\ s.by = t.by => s = t
      <4>1. \A s \in served : ~(s.id = h.id /\ s.by = h.by) BY <3>2, <3>3 DEF Served
      <4>2. \A s \in served, t \in served : s.id = t.id /\ s.by = t.by => s = t
        BY <1>0 DEF ServedInv
      <4>3. QED BY <3>2, <4>1, <4>2
    <3>6. QED BY <3>4, <3>5 DEF ServedInv, Answers
  <2>3. QED BY <1>1, <2>1, <2>2 DEF Handles
<1>3. QED BY <1>1, <1>2, ServedSteps

-----------------------------------------------------------------------------
(* The messages.                                                           *)

\* What holds of the call of a message, or of a response, keeps holding.
LEMMA CallOfKept ==
  ASSUME Inv, [Next]_vars
  PROVE  /\ \A r \in Id : pc[r] \notin Fresh => pc'[r] \notin Fresh /\ req'[r] = req[r]
         /\ \A r, e : Given(r, e) => Given(r, e)' /\ r \in Id /\ req'[r] = req[r]
<1>1. \A r \in Id : pc[r] \notin Fresh => pc'[r] \notin Fresh /\ req'[r] = req[r]
  BY CallsGoOn
<1>2. \A r, e : Given(r, e) => Given(r, e)' BY ServedGrows, GivenKept
<1>3. \A r, e : Given(r, e) => r \in Id /\ pc[r] \notin Fresh
  BY GivenIsServed DEF Inv
<1>4. QED BY <1>1, <1>2, <1>3

\* One message of the broker is as InboxInv says.
InboxOK(m) ==
  /\ m = [to |-> m.to, id |-> m.id, body |-> m.body]
  /\ m.id \in Id /\ pc[m.id] \notin Fresh
  /\ m.body = None => req[m.id].to \in {m.to, Everyone} /\ ~Served(m.id, m.to)
  /\ m.body # None => m.to = req[m.id].from /\ Given(m.id, m.body)

LEMMA InboxByMessage == InboxInv <=> \A m \in inbox : InboxOK(m)
BY DEF InboxInv, InboxOK

\* A message stays so unless its receiver handles it.
LEMMA MessageKept ==
  ASSUME Inv, [Next]_vars, NEW m \in inbox,
         m.body = None => UNCHANGED served \/ ~Served(m.id, m.to)'
  PROVE  InboxOK(m)'
<1>1. InboxOK(m) BY InboxByMessage DEF Inv
<1>2. /\ m.id \in Id /\ pc'[m.id] \notin Fresh /\ req'[m.id] = req[m.id]
      /\ m.body # None => Given(m.id, m.body)'
  BY <1>1, CallOfKept DEF InboxOK
<1>3. m.body = None => ~Served(m.id, m.to)'
  BY <1>1 DEF InboxOK, Served
<1>4. QED BY <1>1, <1>2, <1>3 DEF InboxOK

\* Which steps add to the inbox.
LEMMA InboxSteps ==
  ASSUME Inv, [Next]_vars
  PROVE  \/ inbox' \subseteq inbox /\ UNCHANGED served
         \/ \E r \in Id : PublishRequest(r)
         \/ \E c \in Client : HandleRequest(c)
<1>1. CASE Quiet BY <1>1, QuietSteps DEF coreVars
<1>2. ASSUME NEW c \in Client, NEW r \in Id, Begin(c, r) PROVE UNCHANGED <<inbox, served>>
  BY <1>2, BeginSteps
<1>3. ASSUME NEW r \in Id, \/ SubscribeResponses(r) \/ CallTimesOut(r)
                           \/ ReceiveAnswer(r) \/ ReadBroadcast(r)
      PROVE  UNCHANGED <<inbox, served>>
  BY <1>3, SubscribeSteps, TimeOutSteps, ReadSteps
<1>4. ASSUME NEW c \in Client, LookupPending(c) \/ SendResponse(c)
      PROVE  inbox' \subseteq inbox /\ UNCHANGED served
  BY <1>4, LookupSteps, SendSteps
<1>5. QED BY <1>1, <1>2, <1>3, <1>4, StepCases

LEMMA InboxKept == ASSUME Inv, [Next]_vars PROVE InboxInv'
<1>0. InboxInv /\ ServedInv /\ CallInv BY DEF Inv
<1> SUFFICES ASSUME NEW m \in inbox' PROVE InboxOK(m)'
  BY DEF InboxInv, InboxOK
<1>1. CASE inbox' \subseteq inbox /\ UNCHANGED served BY <1>1, MessageKept
\* What is published was handled by nobody.
<1>2. ASSUME NEW r \in Id, PublishRequest(r) PROVE InboxOK(m)'
  <2>1. CASE m \in inbox BY <1>2, <2>1, PublishSteps, MessageKept
  <2>2. CASE m \notin inbox
    <3>0. inbox' = inbox \cup {[to |-> x, id |-> r, body |-> None] : x \in Receivers(req[r])}
      BY <1>2, <2>2, PublishSteps
    <3>1. PICK x \in Receivers(req[r]) : m = [to |-> x, id |-> r, body |-> None]
      BY <2>2, <3>0
    <3>2. m.to = x /\ m.id = r /\ m.body = None BY <3>1, SMT
    <3>3. /\ UNCHANGED <<req, served>> /\ pc[r] = "publishing"
          /\ \E p \in {"failed", "returned", "waiting"} : pc' = [pc EXCEPT ![r] = p]
      BY <1>2, PublishSteps
    <3>4. pc[r] \in Fresh /\ pc'[r] \notin Fresh BY <1>0, <3>3, SMT DEF CallInv, Fresh
    <3>5. ~Served(r, x) BY <1>0, <3>4 DEF ServedInv, Served
    <3>6. req[r].to \in {x, Everyone} BY <3>1 DEF Receivers
    <3>7. ~Served(m.id, m.to)' BY <3>2, <3>3, <3>5 DEF Served
    <3>8. QED BY <3>1, <3>2, <3>3, <3>4, <3>6, <3>7 DEF InboxOK
  <2>3. QED BY <2>1, <2>2
\* A request leaves the inbox when it is handled; its response is the new one.
<1>3. ASSUME NEW c \in Client, HandleRequest(c) PROVE InboxOK(m)'
  <2>1. PICK o \in inbox, a \in Answers(c) : Handles(c, o, a) BY <1>3, HandleSteps
  <2>2. UNCHANGED <<req, pc>> BY <1>3, HandleSteps
  <2>3. InboxOK(o) BY <1>0, InboxByMessage
  <2>4. CASE UNCHANGED served /\ inbox' = inbox \ {o} BY <2>4, MessageKept
  <2>5. CASE ~(UNCHANGED served /\ inbox' = inbox \ {o})
    <3>1. PICK x : served' = served \cup {[id |-> o.id, by |-> c, saw |-> x, answer |-> a]}
      BY <2>1, <2>5 DEF Handles
    <3> DEFINE h == [id |-> o.id, by |-> c, saw |-> x, answer |-> a]
               y == [to |-> req[o.id].from, id |-> o.id, body |-> a]
    <3>2. h.id = o.id /\ h.by = c /\ h.answer = a /\ served' = served \cup {h}
      BY <3>1, SMT
    <3>3. y.to = req[o.id].from /\ y.id = o.id /\ y.body = a BY SMT
    <3>4. m \in inbox \ {o} \/ (a # None /\ m = y) BY <2>1, <2>5 DEF Handles
    <3> HIDE DEF h
    <3>5. CASE m \in inbox \ {o}
      <4>1. InboxOK(m) BY <1>0, <3>5, InboxByMessage
      <4>2. m.body = None => ~(m.id = o.id /\ m.to = c)
        BY <2>1, <2>3, <3>5, <4>1 DEF InboxOK, Handles
      <4>3. m.body = None => ~Served(m.id, m.to)'
        BY <3>2, <4>1, <4>2 DEF InboxOK, Served
      <4>4. QED BY <3>5, <4>3, MessageKept
    <3>6. CASE a # None /\ m = y
      <4>1. a \in Body /\ a.from = c BY <3>6, AnswerFrom
      <4>2. Given(o.id, a)' BY <3>2, <3>6, <4>1 DEF Given
      <4>3. m = [to |-> m.to, id |-> m.id, body |-> m.body] BY <3>3, <3>6
      <4> HIDE DEF y
      <4>4. m.id = o.id /\ m.body = a /\ m.to = req[o.id].from BY <3>3, <3>6
      <4>5. QED BY <2>2, <2>3, <3>6, <4>2, <4>3, <4>4 DEF InboxOK
    <3>7. QED BY <3>4, <3>5, <3>6
  <2>6. QED BY <2>4, <2>5
<1>4. QED BY <1>1, <1>2, <1>3, InboxSteps

-----------------------------------------------------------------------------
(* Responses on their way to the caller.                                   *)

LEMMA TakenSteps ==
  ASSUME Inv, [Next]_vars
  PROVE  \/ UNCHANGED taken
         \/ \E c \in Client : LookupPending(c) \/ SendResponse(c)
<1>1. CASE Quiet BY <1>1, QuietSteps DEF coreVars
<1>2. ASSUME NEW c \in Client, NEW r \in Id, Begin(c, r) PROVE UNCHANGED taken
  BY <1>2, BeginSteps
<1>3. ASSUME NEW r \in Id, \/ SubscribeResponses(r) \/ CallTimesOut(r) \/ PublishRequest(r)
                           \/ ReceiveAnswer(r) \/ ReadBroadcast(r)
      PROVE  UNCHANGED taken
  BY <1>3, SubscribeSteps, TimeOutSteps, PublishSteps, ReadSteps
<1>4. ASSUME NEW c \in Client, HandleRequest(c) PROVE UNCHANGED taken
  BY <1>4, HandleSteps
<1>5. QED BY <1>1, <1>2, <1>3, <1>4, StepCases

LEMMA TakenKept == ASSUME Inv, [Next]_vars PROVE TakenInv'
<1>0. TakenInv /\ InboxInv BY DEF Inv
<1>1. ASSUME NEW d \in Client, taken'[d] # None, taken'[d] = taken[d]
      PROVE  /\ taken'[d].id \in Id /\ Given(taken[d].id, taken[d].body)'
             /\ req'[taken'[d].id].from = d
  <2>1. /\ taken[d].id \in Id /\ Given(taken[d].id, taken[d].body)
        /\ req[taken[d].id].from = d
    BY <1>0, <1>1 DEF TakenInv
  <2>2. Given(taken[d].id, taken[d].body)'
    <3> DEFINE i == taken[d].id
               e == taken[d].body
    <3>1. i' = i /\ e' = e BY <1>1
    <3>2. Given(i, e) => (\E s \in served' : s.id = i /\ s.by = e.from /\ s.answer = e)
                         /\ e # None
      BY ServedGrows DEF Given
    <3>3. QED BY <2>1, <3>1, <3>2 DEF Given
  <2>3. QED BY <1>1, <2>1, <2>2, CallOfKept
<1>2. CASE UNCHANGED taken
  BY <1>0, <1>1, <1>2 DEF TakenInv
<1>3. ASSUME NEW c \in Client, LookupPending(c) PROVE TakenInv'
  <2>1. PICK m \in inbox : /\ m.to = c /\ m.body # None /\ inbox' = inbox \ {m}
                           /\ \E x \in {m, None} : taken' = [taken EXCEPT ![c] = x]
    BY <1>3, LookupSteps, SMT
  <2>2. UNCHANGED <<req, served>> BY <1>3, LookupSteps
  <2>3. m.id \in Id /\ Given(m.id, m.body) /\ req[m.id].from = c
    BY <1>0, <2>1 DEF InboxInv
  <2>4. PICK x \in {m, None} : taken' = [taken EXCEPT ![c] = x] BY <2>1
  <2>5. /\ taken' = [d \in Client |-> taken'[d]] /\ taken'[c] = x
        /\ \A d \in Client \ {c} : taken'[d] = taken[d]
    BY <1>0, <2>4, SMT DEF TakenInv
  <2>6. taken'[c] # None =>
          /\ taken'[c].id \in Id /\ Given(taken[c].id, taken[c].body)'
          /\ req'[taken'[c].id].from = c
    <3> SUFFICES ASSUME taken'[c] # None
                 PROVE  /\ taken'[c].id \in Id /\ Given(taken[c].id, taken[c].body)'
                        /\ req'[taken'[c].id].from = c
      OBVIOUS
    <3>1. taken'[c] = m BY <2>4, <2>5
    <3>2. m.body # None /\ \E s \in served' : s.id = m.id /\ s.by = m.body.from
                                               /\ s.answer = m.body
      BY <2>2, <2>3 DEF Given
    <3>3. Given(taken[c].id, taken[c].body)' BY <3>1, <3>2 DEF Given
    <3>4. QED BY <2>2, <2>3, <3>1, <3>3
  <2>7. QED BY <1>1, <2>5, <2>6 DEF TakenInv
<1>4. ASSUME NEW c \in Client, SendResponse(c) PROVE TakenInv'
  <2>1. taken' = taken \/ taken' = [taken EXCEPT ![c] = None] BY <1>4, SendSteps
  <2>2. /\ taken' = [d \in Client |-> taken'[d]]
        /\ \A d \in Client : taken'[d] # None => taken'[d] = taken[d]
    BY <1>0, <2>1, SMT DEF TakenInv
  <2>3. QED BY <1>1, <2>2 DEF TakenInv
<1>5. QED BY <1>2, <1>3, <1>4, TakenSteps

LEMMA ReadVarsSteps ==
  ASSUME Inv, [Next]_vars
  PROVE  \/ UNCHANGED <<chan, got>>
         \/ \E r \in Id : ReceiveAnswer(r) \/ ReadBroadcast(r)
         \/ \E c \in Client : SendResponse(c)
<1>1. CASE Quiet BY <1>1, QuietSteps DEF coreVars
<1>2. ASSUME NEW c \in Client, NEW r \in Id, Begin(c, r) PROVE UNCHANGED <<chan, got>>
  BY <1>2, BeginSteps
<1>3. ASSUME NEW r \in Id, SubscribeResponses(r) \/ CallTimesOut(r) \/ PublishRequest(r)
      PROVE  UNCHANGED <<chan, got>>
  BY <1>3, SubscribeSteps, TimeOutSteps, PublishSteps
<1>4. ASSUME NEW c \in Client, HandleRequest(c) \/ LookupPending(c)
      PROVE  UNCHANGED <<chan, got>>
  BY <1>4, HandleSteps, LookupSteps
<1>5. QED BY <1>1, <1>2, <1>3, <1>4, StepCases

\* Reading moves the head of the channel of r to what was read.
Moves(r) ==
  /\ chan' \in [Id -> Seq(Body)] /\ got' \in [Id -> Seq(Body)]
  /\ \A q \in Id \ {r} : chan'[q] = chan[q] /\ got'[q] = got[q]
  /\ Len(chan[r]) \in Nat \ {0} /\ Len(chan'[r]) = Len(chan[r]) - 1
  /\ \A i \in 1..Len(chan'[r]) : i + 1 \in 1..Len(chan[r]) /\ chan'[r][i] = chan[r][i + 1]
  /\ Len(got[r]) \in Nat /\ Len(got'[r]) = Len(got[r]) + 1
  /\ \A i \in 1..Len(got[r]) : got'[r][i] = got[r][i]
  /\ got'[r][Len(got[r]) + 1] = chan[r][1]
  /\ UNCHANGED <<inbox, taken, served>>

LEMMA ReadMoves ==
  ASSUME Inv, NEW r \in Id, ReceiveAnswer(r) \/ ReadBroadcast(r)
  PROVE  UNCHANGED <<chan, got, inbox, taken, served>> \/ Moves(r)
<1> SUFFICES ASSUME ~UNCHANGED <<chan, got, inbox, taken, served>> PROVE Moves(r)
  OBVIOUS
<1>1. /\ UNCHANGED <<inbox, taken, served>>
      /\ chan[r] # <<>> /\ chan' = [chan EXCEPT ![r] = Tail(chan[r])]
      /\ got' = [got EXCEPT ![r] = Append(got[r], Head(chan[r]))]
  BY ReadSteps
<1>2. /\ chan \in [Id -> Seq(Body)] /\ got \in [Id -> Seq(Body)]
      /\ chan[r] \in Seq(Body) /\ got[r] \in Seq(Body)
  BY DEF Inv, ReadInv
<1>3. /\ Head(chan[r]) \in Body /\ Head(chan[r]) = chan[r][1]
      /\ Tail(chan[r]) \in Seq(Body) /\ Len(chan[r]) \in Nat \ {0}
      /\ Len(Tail(chan[r])) = Len(chan[r]) - 1
      /\ \A i \in 1..(Len(chan[r]) - 1) : Tail(chan[r])[i] = chan[r][i + 1]
  BY <1>1, <1>2, HeadTailProperties, LenProperties, EmptySeq, SMT
<1>4. /\ Append(got[r], Head(chan[r])) \in Seq(Body) /\ Len(got[r]) \in Nat
      /\ Len(Append(got[r], Head(chan[r]))) = Len(got[r]) + 1
      /\ \A i \in 1..Len(got[r]) : Append(got[r], Head(chan[r]))[i] = got[r][i]
      /\ Append(got[r], Head(chan[r]))[Len(got[r]) + 1] = Head(chan[r])
  BY <1>2, <1>3, AppendProperties, LenProperties, SMT
<1>5. /\ chan' \in [Id -> Seq(Body)] /\ chan'[r] = Tail(chan[r])
      /\ \A q \in Id \ {r} : chan'[q] = chan[q]
  <2>1. ASSUME NEW t \in Seq(Body), chan' = [chan EXCEPT ![r] = t]
        PROVE  /\ chan' \in [Id -> Seq(Body)] /\ chan'[r] = t
               /\ \A q \in Id \ {r} : chan'[q] = chan[q]
    BY <1>2, <2>1
  <2>2. QED BY <1>1, <1>3, <2>1
<1>6. /\ got' \in [Id -> Seq(Body)] /\ got'[r] = Append(got[r], Head(chan[r]))
      /\ \A q \in Id \ {r} : got'[q] = got[q]
  BY <1>1, <1>2, <1>4, SMT
<1>7. \A i \in 1..Len(chan'[r]) : i + 1 \in 1..Len(chan[r]) /\ chan'[r][i] = chan[r][i + 1]
  BY <1>3, <1>5, SMT
<1>8. QED BY <1>1, <1>3, <1>4, <1>5, <1>6, <1>7 DEF Moves

\* SendResponse drops the response it holds, or puts it into the channel of r.
Queues(c, r) ==
  /\ r \in Id /\ taken[c] # None /\ r = taken[c].id
  /\ taken' = [taken EXCEPT ![c] = None]
  /\ chan' \in [Id -> Seq(Body)]
  /\ \A q \in Id \ {r} : chan'[q] = chan[q]
  /\ Len(chan[r]) \in Nat /\ Len(chan'[r]) = Len(chan[r]) + 1
  /\ \A i \in 1..Len(chan[r]) : chan'[r][i] = chan[r][i]
  /\ chan'[r][Len(chan[r]) + 1] = taken[c].body
  /\ UNCHANGED <<inbox, got, served>>

LEMMA SendQueues ==
  ASSUME Inv, NEW c \in Client, SendResponse(c)
  PROVE  \/ /\ UNCHANGED <<chan, got, inbox, served>>
            /\ taken' = taken \/ taken' = [taken EXCEPT ![c] = None]
         \/ \E r \in Id : Queues(c, r)
<1>1. UNCHANGED <<inbox, got, served>> /\ taken[c] # None BY SendSteps
<1> DEFINE r == taken[c].id
           e == taken[c].body
<1>2. r \in Id /\ e \in Body
  <2>1. Given(r, e) BY <1>1 DEF Inv, TakenInv
  <2>2. QED BY <2>1, GivenIsServed DEF Inv
<1>3. chan \in [Id -> Seq(Body)] /\ chan[r] \in Seq(Body) BY <1>2 DEF Inv, ReadInv
<1>4. CASE taken' = [taken EXCEPT ![c] = None] /\ chan' = [chan EXCEPT ![r] = Append(chan[r], e)]
  <2>1. /\ Append(chan[r], e) \in Seq(Body) /\ Len(chan[r]) \in Nat
        /\ Len(Append(chan[r], e)) = Len(chan[r]) + 1
        /\ \A i \in 1..Len(chan[r]) : Append(chan[r], e)[i] = chan[r][i]
        /\ Append(chan[r], e)[Len(chan[r]) + 1] = e
    <3> HIDE DEF r, e
    <3>1. QED BY <1>2, <1>3, AppendProperties, LenProperties, SMT
  <2>2. ASSUME NEW t \in Seq(Body), chan' = [chan EXCEPT ![r] = t]
        PROVE  /\ chan' \in [Id -> Seq(Body)] /\ chan'[r] = t
               /\ \A q \in Id \ {r} : chan'[q] = chan[q]
    <3> HIDE DEF r
    <3>1. QED BY <1>2, <1>3, <2>2
  <2>3. /\ chan' \in [Id -> Seq(Body)] /\ chan'[r] = Append(chan[r], e)
        /\ \A q \in Id \ {r} : chan'[q] = chan[q]
    BY <1>4, <2>1, <2>2
  <2>4. Queues(c, r) BY <1>1, <1>2, <1>4, <2>1, <2>3 DEF Queues
  <2>5. QED BY <1>2, <2>4
<1>5. QED BY <1>1, <1>4, SendSteps

LEMMA ReadKept == ASSUME Inv, [Next]_vars PROVE ReadInv'
<1>0. ReadInv /\ TakenInv BY DEF Inv
<1>2. ASSUME NEW q \in Id, chan'[q] = chan[q]
      PROVE  \A i \in 1..Len(chan'[q]) : Given(q, chan[q][i])'
  <2> SUFFICES ASSUME NEW i \in 1..Len(chan'[q]) PROVE Given(q, chan[q][i])'
    OBVIOUS
  <2>1. Given(q, chan[q][i]) /\ chan'[q][i] = chan[q][i] BY <1>0, <1>2 DEF ReadInv
  <2>2. QED BY <2>1, ServedGrows DEF Given
<1>3. ASSUME NEW q \in Id, got'[q] = got[q]
      PROVE  \A i \in 1..Len(got'[q]) : Given(q, got[q][i])'
  <2> SUFFICES ASSUME NEW i \in 1..Len(got'[q]) PROVE Given(q, got[q][i])'
    OBVIOUS
  <2>1. Given(q, got[q][i]) /\ got'[q][i] = got[q][i] BY <1>0, <1>3 DEF ReadInv
  <2>2. QED BY <2>1, ServedGrows DEF Given
<1>4. CASE UNCHANGED <<chan, got>>
  BY <1>0, <1>2, <1>3, <1>4 DEF ReadInv, Body, Answers
<1>5. ASSUME NEW r \in Id, Moves(r) PROVE ReadInv'
  <2>1. \A q \in Id \ {r} : chan'[q] = chan[q] /\ got'[q] = got[q] BY <1>5 DEF Moves
  <2>2. \A i \in 1..Len(chan'[r]) : Given(r, chan[r][i])'
    <3> SUFFICES ASSUME NEW i \in 1..Len(chan'[r]) PROVE Given(r, chan[r][i])'
      OBVIOUS
    <3>1. i + 1 \in 1..Len(chan[r]) /\ chan'[r][i] = chan[r][i + 1] BY <1>5 DEF Moves
    <3>2. Given(r, chan[r][i + 1]) BY <1>0, <3>1 DEF ReadInv
    <3>3. QED BY <1>5, <3>1, <3>2 DEF Moves, Given
  <2>3. \A i \in 1..Len(got'[r]) : Given(r, got[r][i])'
    <3> SUFFICES ASSUME NEW i \in 1..Len(got'[r]) PROVE Given(r, got[r][i])'
      OBVIOUS
    <3>1. (i \in 1..Len(got[r]) /\ got'[r][i] = got[r][i])
          \/ (1 \in 1..Len(chan[r]) /\ got'[r][i] = chan[r][1])
      BY <1>5, SMT DEF Moves
    <3>2. CASE i \in 1..Len(got[r]) /\ got'[r][i] = got[r][i]
      <4>1. Given(r, got[r][i]) BY <1>0, <3>2 DEF ReadInv
      <4>2. QED BY <1>5, <3>2, <4>1 DEF Moves, Given
    <3>3. CASE 1 \in 1..Len(chan[r]) /\ got'[r][i] = chan[r][1]
      <4>1. Given(r, chan[r][1]) BY <1>0, <3>3 DEF ReadInv
      <4>2. QED BY <1>5, <3>3, <4>1 DEF Moves, Given
    <3>4. QED BY <3>1, <3>2, <3>3
  <2>4. chan' \in [Id -> Seq(Body)] /\ got' \in [Id -> Seq(Body)] BY <1>5 DEF Moves
  <2>5. QED BY <1>2, <1>3, <2>1, <2>2, <2>3, <2>4 DEF ReadInv, Body, Answers
<1>6. ASSUME NEW c \in Client, NEW r \in Id, Queues(c, r) PROVE ReadInv'
  <2>1. /\ \A q \in Id \ {r} : chan'[q] = chan[q]
        /\ \A q \in Id : got'[q] = got[q]
    BY <1>6 DEF Queues
  <2>2. Given(r, taken[c].body) BY <1>0, <1>6 DEF Queues, TakenInv
  <2>3. \A i \in 1..Len(chan'[r]) : Given(r, chan[r][i])'
    <3> SUFFICES ASSUME NEW i \in 1..Len(chan'[r]) PROVE Given(r, chan[r][i])'
      OBVIOUS
    <3>1. (i \in 1..Len(chan[r]) /\ chan'[r][i] = chan[r][i]) \/ chan'[r][i] = taken[c].body
      BY <1>6, SMT DEF Queues
    <3>2. CASE i \in 1..Len(chan[r]) /\ chan'[r][i] = chan[r][i]
      <4>1. Given(r, chan[r][i]) BY <1>0, <3>2 DEF ReadInv
      <4>2. QED BY <1>6, <3>2, <4>1 DEF Queues, Given
    <3>3. CASE chan'[r][i] = taken[c].body
      BY <1>6, <2>2, <3>3 DEF Queues, Given
    <3>4. QED BY <3>1, <3>2, <3>3
  <2>4. chan' \in [Id -> Seq(Body)] /\ got' \in [Id -> Seq(Body)]
    BY <1>0, <1>6 DEF Queues, ReadInv
  <2>5. QED BY <1>2, <1>3, <2>1, <2>3, <2>4 DEF ReadInv, Body, Answers
<1>7. QED BY <1>4, <1>5, <1>6, ReadVarsSteps, ReadMoves, SendQueues

-----------------------------------------------------------------------------
(* A response is in one place.                                             *)

\* A step that moves no response, other than by losing it.
Calm ==
  /\ UNCHANGED <<chan, got>>
  /\ \A m \in inbox' : m.body # None => m \in inbox
  /\ \A c \in Client : taken'[c] # None => taken'[c] = taken[c]

\* Client c answers a to message m.
AnswersTo(c, m, a) ==
  /\ m.to = c /\ m.body = None /\ a # None
  /\ inbox' = (inbox \ {m}) \cup {[to |-> req[m.id].from, id |-> m.id, body |-> a]}
  /\ UNCHANGED <<chan, got, taken>>

\* handleResponse of client c takes message m.
Takes(c, m) ==
  /\ m.to = c /\ m.body # None /\ taken[c] = None
  /\ inbox' = inbox \ {m} /\ taken' = [taken EXCEPT ![c] = m]
  /\ UNCHANGED <<chan, got>>

LEMMA PlaceSteps ==
  ASSUME Inv, [Next]_vars
  PROVE  \/ Calm
         \/ \E c \in Client : \E m \in inbox, a \in Answers(c) : AnswersTo(c, m, a)
         \/ \E c \in Client : \E m \in inbox : Takes(c, m)
         \/ \E r \in Id : Moves(r)
         \/ \E c \in Client : \E r \in Id : Queues(c, r)
<1>1. UNCHANGED <<chan, got, inbox, taken>> => Calm BY DEF Calm
<1>2. CASE Quiet BY <1>1, <1>2, QuietSteps DEF coreVars
<1>3. ASSUME NEW c \in Client, NEW r \in Id, Begin(c, r) PROVE Calm
  BY <1>1, <1>3, BeginSteps
<1>4. ASSUME NEW r \in Id, SubscribeResponses(r) \/ CallTimesOut(r) PROVE Calm
  BY <1>1, <1>4, SubscribeSteps, TimeOutSteps
<1>5. ASSUME NEW r \in Id, PublishRequest(r) PROVE Calm
  <2>1. UNCHANGED <<chan, got, taken>> BY <1>5, PublishSteps
  <2>2. \/ UNCHANGED inbox
        \/ inbox' = inbox \cup {[to |-> x, id |-> r, body |-> None] : x \in Receivers(req[r])}
    BY <1>5, PublishSteps
  <2>3. \A x : [to |-> x, id |-> r, body |-> None].body = None BY SMT
  <2>4. \A m \in inbox' : m.body # None => m \in inbox BY <2>2, <2>3
  <2>5. QED BY <2>1, <2>4 DEF Calm
<1>6. ASSUME NEW r \in Id, ReceiveAnswer(r) \/ ReadBroadcast(r) PROVE Calm \/ Moves(r)
  BY <1>1, <1>6, ReadMoves
<1>7. ASSUME NEW c \in Client, SendResponse(c)
      PROVE  Calm \/ \E r \in Id : Queues(c, r)
  <2>1. CASE /\ UNCHANGED <<chan, got, inbox>>
             /\ taken' = taken \/ taken' = [taken EXCEPT ![c] = None]
    <3>1. \A d \in Client : taken'[d] # None => taken'[d] = taken[d]
      BY <2>1, SMT DEF Inv, TakenInv
    <3>2. QED BY <2>1, <3>1 DEF Calm
  <2>2. QED BY <1>7, <2>1, SendQueues
<1>8. ASSUME NEW c \in Client, LookupPending(c)
      PROVE  Calm \/ \E m \in inbox : Takes(c, m)
  <2>1. PICK m \in inbox : /\ m.to = c /\ m.body # None /\ inbox' = inbox \ {m}
                           /\ \E x \in {m, None} : taken' = [taken EXCEPT ![c] = x]
    BY <1>8, LookupSteps, SMT
  <2>2. UNCHANGED <<chan, got>> /\ taken[c] = None BY <1>8, LookupSteps
  <2>3. CASE taken' = [taken EXCEPT ![c] = m] BY <2>1, <2>2, <2>3 DEF Takes
  <2>4. CASE taken' = [taken EXCEPT ![c] = None]
    <3>1. \A d \in Client : taken'[d] # None => taken'[d] = taken[d]
      BY <2>4, SMT DEF Inv, TakenInv
    <3>2. QED BY <2>1, <2>2, <3>1 DEF Calm
  <2>5. QED BY <2>1, <2>3, <2>4
<1>9. ASSUME NEW c \in Client, HandleRequest(c)
      PROVE  Calm \/ \E m \in inbox, a \in Answers(c) : AnswersTo(c, m, a)
  <2>1. PICK m \in inbox, a \in Answers(c) : Handles(c, m, a) BY <1>9, HandleSteps
  <2>2. UNCHANGED <<chan, got, taken>> BY <1>9, HandleSteps
  <2>3. CASE inbox' = inbox \ {m} BY <2>2, <2>3 DEF Calm
  <2>4. CASE inbox' # inbox \ {m}
    <3>1. AnswersTo(c, m, a) BY <2>1, <2>2, <2>4 DEF Handles, AnswersTo
    <3>2. QED BY <3>1
  <2>5. QED BY <2>3, <2>4
<1>10. QED BY <1>2, <1>3, <1>4, <1>5, <1>6, <1>7, <1>8, <1>9, StepCases

\* PlaceInv, for one message, one client and one call.
InboxPlace(m) ==
  m.body # None =>
    /\ Unsent(m.id, m.body.from)
    /\ \A c \in Client : taken[c] # None /\ taken[c].id = m.id =>
         taken[c].body.from # m.body.from

TakenPlace(c) == taken[c] # None => Unsent(taken[c].id, taken[c].body.from)

Apart(r) ==
  /\ \A i \in 1..Len(chan[r]), j \in 1..Len(chan[r]) :
       chan[r][i].from = chan[r][j].from => i = j
  /\ \A i \in 1..Len(got[r]), j \in 1..Len(chan[r]) :
       got[r][i].from # chan[r][j].from

LEMMA PlaceByParts ==
  PlaceInv <=> /\ \A m \in inbox : InboxPlace(m)
               /\ \A c \in Client : TakenPlace(c)
               /\ \A r \in Id : Apart(r)
BY DEF PlaceInv, InboxPlace, TakenPlace, Apart

LEMMA QueuesIndex ==
  ASSUME NEW c \in Client, NEW r \in Id, Queues(c, r), NEW i \in 1..Len(chan'[r])
  PROVE  \/ i \in 1..Len(chan[r]) /\ chan'[r][i] = chan[r][i]
         \/ i = Len(chan[r]) + 1 /\ chan'[r][i] = taken[c].body
<1>1. /\ Len(chan[r]) \in Nat /\ Len(chan'[r]) = Len(chan[r]) + 1
      /\ \A k \in 1..Len(chan[r]) : chan'[r][k] = chan[r][k]
      /\ chan'[r][Len(chan[r]) + 1] = taken[c].body
  BY DEF Queues
<1>2. i \in 1..Len(chan[r]) \/ i = Len(chan[r]) + 1 BY <1>1, SMT
<1>3. QED BY <1>1, <1>2

LEMMA MovesIndex ==
  ASSUME NEW r \in Id, Moves(r), NEW i \in 1..Len(got'[r])
  PROVE  \/ i \in 1..Len(got[r]) /\ got'[r][i] = got[r][i]
         \/ 1 \in 1..Len(chan[r]) /\ got'[r][i] = chan[r][1]
<1>1. /\ Len(got[r]) \in Nat /\ Len(got'[r]) = Len(got[r]) + 1
      /\ Len(chan[r]) \in Nat \ {0}
      /\ \A k \in 1..Len(got[r]) : got'[r][k] = got[r][k]
      /\ got'[r][Len(got[r]) + 1] = chan[r][1]
  BY DEF Moves
<1>2. (i \in 1..Len(got[r]) \/ i = Len(got[r]) + 1) /\ 1 \in 1..Len(chan[r])
  BY <1>1, SMT
<1>3. QED BY <1>1, <1>2

\* Unsent of a response that is still held.
LEMMA UnsentAt ==
  ASSUME NEW d, taken'[d] = taken[d], Unsent(taken[d].id, taken[d].body.from),
         \A q, f : q = taken[d].id /\ f = taken[d].body.from /\ Unsent(q, f) => Unsent(q, f)'
  PROVE  Unsent(taken[d].id, taken[d].body.from)'
<1>1. PICK q, f : q = taken[d].id /\ f = taken[d].body.from OBVIOUS
<1>2. Unsent(q, f)' BY <1>1
<1>3. QED BY <1>1, <1>2 DEF Unsent

LEMMA UnsentMoves ==
  ASSUME NEW r \in Id, Moves(r), NEW q \in Id, NEW f, Unsent(q, f)
  PROVE  Unsent(q, f)'
<1>1. CASE q # r
  <2>1. chan'[q] = chan[q] /\ got'[q] = got[q] BY <1>1 DEF Moves
  <2>2. QED BY <2>1 DEF Unsent
<1>2. CASE q = r
  <2>1. ASSUME NEW i \in 1..Len(chan'[r]) PROVE chan'[r][i].from # f
    <3>1. i + 1 \in 1..Len(chan[r]) /\ chan'[r][i] = chan[r][i + 1] BY DEF Moves
    <3>2. QED BY <1>2, <3>1 DEF Unsent
  <2>2. ASSUME NEW i \in 1..Len(got'[r]) PROVE got'[r][i].from # f
    BY <1>2, <2>2, MovesIndex DEF Unsent
  <2>3. QED BY <1>2, <2>1, <2>2 DEF Unsent
<1>3. QED BY <1>1, <1>2

LEMMA UnsentQueues ==
  ASSUME NEW c \in Client, NEW r \in Id, Queues(c, r), NEW q \in Id, NEW f, Unsent(q, f),
         q = r => taken[c].body.from # f
  PROVE  Unsent(q, f)'
<1>1. CASE q # r
  <2>1. chan'[q] = chan[q] /\ got'[q] = got[q] BY <1>1 DEF Queues
  <2>2. QED BY <2>1 DEF Unsent
<1>2. CASE q = r
  <2>1. ASSUME NEW i \in 1..Len(chan'[r]) PROVE chan'[r][i].from # f
    BY <1>2, <2>1, QueuesIndex DEF Unsent
  <2>2. \A i \in 1..Len(got'[r]) : got'[r][i].from # f BY <1>2 DEF Queues, Unsent
  <2>3. QED BY <1>2, <2>1, <2>2 DEF Unsent
<1>3. QED BY <1>1, <1>2

\* What was given has not been sent on twice: a client that is about to answer a
\* request has no response under way.
LEMMA UnservedIsUnsent ==
  ASSUME Inv, NEW r \in Id, NEW c \in Client, ~Served(r, c)
  PROVE  /\ Unsent(r, c)
         /\ \A d \in Client : taken[d] # None /\ taken[d].id = r => taken[d].body.from # c
<1>0. ServedInv /\ ReadInv /\ TakenInv BY DEF Inv
<1>1. \A e : Given(r, e) => e.from # c BY <1>0, GivenIsServed
<1>2. QED BY <1>0, <1>1 DEF ReadInv, TakenInv, Unsent

LEMMA CalmKept == ASSUME PlaceInv, Calm PROVE PlaceInv'
<1>1. ASSUME NEW m \in inbox' PROVE InboxPlace(m)'
  <2> SUFFICES ASSUME m.body # None PROVE InboxPlace(m)'
    BY DEF InboxPlace
  <2>1. InboxPlace(m) BY PlaceByParts DEF Calm
  <2>2. Unsent(m.id, m.body.from)' BY <2>1 DEF InboxPlace, Unsent, Calm
  <2>3. \A c \in Client : taken'[c] # None /\ taken'[c].id = m.id =>
          taken'[c].body.from # m.body.from
    BY <2>1 DEF InboxPlace, Calm
  <2>4. QED BY <2>2, <2>3 DEF InboxPlace
<1>2. ASSUME NEW c \in Client PROVE TakenPlace(c)'
  <2> SUFFICES ASSUME taken'[c] # None PROVE Unsent(taken[c].id, taken[c].body.from)'
    BY DEF TakenPlace
  <2>1. taken'[c] = taken[c] BY DEF Calm
  <2>2. Unsent(taken[c].id, taken[c].body.from) BY <2>1, PlaceByParts DEF TakenPlace
  <2>3. \A q, f : Unsent(q, f) => Unsent(q, f)' BY DEF Calm, Unsent
  <2>4. QED BY <2>1, <2>2, <2>3, UnsentAt
<1>3. ASSUME NEW r \in Id PROVE Apart(r)'
  <2>1. Apart(r) BY PlaceByParts
  <2>2. QED BY <2>1 DEF Apart, Calm
<1>4. QED BY <1>1, <1>2, <1>3 DEF PlaceInv, InboxPlace, TakenPlace, Apart

LEMMA PlaceKept == ASSUME Inv, [Next]_vars PROVE PlaceInv'
<1>0. /\ PlaceInv /\ ServedInv /\ InboxInv /\ TakenInv /\ ReadInv
      /\ \A m \in inbox : InboxPlace(m)
      /\ \A c \in Client : TakenPlace(c)
      /\ \A r \in Id : Apart(r)
  BY PlaceByParts DEF Inv
<1>1. CASE Calm BY <1>0, <1>1, CalmKept
\* A new response is the first of its client.
<1>2. ASSUME NEW c \in Client, NEW o \in inbox, NEW a \in Answers(c), AnswersTo(c, o, a)
      PROVE  PlaceInv'
  <2>1. UNCHANGED <<chan, got, taken>> BY <1>2 DEF AnswersTo
  <2>2. o.id \in Id /\ ~Served(o.id, c) BY <1>0, <1>2 DEF InboxInv, AnswersTo
  <2>3. a.from = c BY <1>2, AnswerFrom DEF AnswersTo
  <2> DEFINE y == [to |-> req[o.id].from, id |-> o.id, body |-> a]
  <2>4. y.id = o.id /\ y.body = a BY SMT
  <2>5. InboxPlace(y) BY <2>2, <2>3, <2>4, UnservedIsUnsent DEF InboxPlace
  <2>6. inbox' = (inbox \ {o}) \cup {y} BY <1>2 DEF AnswersTo
  <2> HIDE DEF y
  <2>7. ASSUME NEW m \in inbox' PROVE InboxPlace(m)'
    <3>1. InboxPlace(m) BY <1>0, <2>5, <2>6
    <3>2. QED BY <2>1, <3>1 DEF InboxPlace, Unsent
  <2>8. ASSUME NEW d \in Client PROVE TakenPlace(d)'
    BY <1>0, <2>1 DEF TakenPlace, Unsent
  <2>9. ASSUME NEW r \in Id PROVE Apart(r)' BY <1>0, <2>1 DEF Apart
  <2>10. QED BY <2>7, <2>8, <2>9 DEF PlaceInv, InboxPlace, TakenPlace, Apart
\* The message that is taken leaves the broker, and no other carries the same.
<1>3. ASSUME NEW c \in Client, NEW o \in inbox, Takes(c, o) PROVE PlaceInv'
  <2>1. /\ UNCHANGED <<chan, got>> /\ inbox' = inbox \ {o} /\ o.body # None
        /\ taken' = [taken EXCEPT ![c] = o]
    BY <1>3 DEF Takes
  <2>2. taken'[c] = o /\ \A d \in Client \ {c} : taken'[d] = taken[d]
    BY <1>0, <2>1, SMT DEF TakenInv
  <2>3. ASSUME NEW m \in inbox \ {o}, m.body # None, m.id = o.id
        PROVE  o.body.from # m.body.from
    <3>1. /\ m = [to |-> m.to, id |-> m.id, body |-> m.body]
          /\ o = [to |-> o.to, id |-> o.id, body |-> o.body]
          /\ m.to = o.to /\ Given(o.id, m.body) /\ Given(o.id, o.body)
      BY <1>0, <2>1, <2>3 DEF InboxInv
    <3>2. m.body # o.body BY <2>3, <3>1
    <3>3. QED BY <1>0, <3>1, <3>2, GivenOnce
  <2>4. ASSUME NEW m \in inbox' PROVE InboxPlace(m)'
    <3> SUFFICES ASSUME m.body # None PROVE InboxPlace(m)'
      BY DEF InboxPlace
    <3>1. InboxPlace(m) /\ m \in inbox \ {o} BY <1>0, <2>1
    <3>2. Unsent(m.id, m.body.from)' BY <2>1, <3>1 DEF InboxPlace, Unsent
    <3>3. ASSUME NEW d \in Client, taken'[d] # None, taken'[d].id = m.id
          PROVE  taken'[d].body.from # m.body.from
      BY <2>2, <2>3, <3>1, <3>3 DEF InboxPlace
    <3>4. QED BY <3>2, <3>3 DEF InboxPlace
  <2>5. ASSUME NEW d \in Client PROVE TakenPlace(d)'
    <3>1. CASE d = c
      <4>1. Unsent(o.id, o.body.from) BY <1>0, <2>1 DEF InboxPlace
      <4>2. \A i \in 1..Len(chan'[o.id]) : chan'[o.id][i].from # o.body.from
        BY <2>1, <4>1 DEF Unsent
      <4>3. \A i \in 1..Len(got'[o.id]) : got'[o.id][i].from # o.body.from
        BY <2>1, <4>1 DEF Unsent
      <4>4. QED BY <2>2, <3>1, <4>2, <4>3 DEF TakenPlace, Unsent
    <3>2. CASE d # c
      <4> SUFFICES ASSUME taken'[d] # None PROVE Unsent(taken[d].id, taken[d].body.from)'
        BY DEF TakenPlace
      <4>1. taken'[d] = taken[d] BY <2>2, <3>2
      <4>2. Unsent(taken[d].id, taken[d].body.from) BY <1>0, <4>1 DEF TakenPlace
      <4>3. \A q, f : Unsent(q, f) => Unsent(q, f)' BY <2>1 DEF Unsent
      <4>4. QED BY <4>1, <4>2, <4>3, UnsentAt
    <3>3. QED BY <3>1, <3>2
  <2>6. ASSUME NEW r \in Id PROVE Apart(r)' BY <1>0, <2>1 DEF Apart
  <2>7. QED BY <2>4, <2>5, <2>6 DEF PlaceInv, InboxPlace, TakenPlace, Apart
\* The head of the channel goes to what was read.
<1>4. ASSUME NEW r \in Id, Moves(r) PROVE PlaceInv'
  <2>1. UNCHANGED <<inbox, taken>> BY <1>4 DEF Moves
  <2>2. ASSUME NEW m \in inbox' PROVE InboxPlace(m)'
    <3> SUFFICES ASSUME m.body # None PROVE InboxPlace(m)'
      BY DEF InboxPlace
    <3>1. InboxPlace(m) /\ m.id \in Id BY <1>0, <2>1 DEF InboxInv
    <3>2. Unsent(m.id, m.body.from)' BY <1>4, <3>1, UnsentMoves DEF InboxPlace
    <3>3. QED BY <2>1, <3>1, <3>2 DEF InboxPlace
  <2>3. ASSUME NEW d \in Client PROVE TakenPlace(d)'
    <3> SUFFICES ASSUME taken[d] # None PROVE Unsent(taken[d].id, taken[d].body.from)'
      BY <2>1 DEF TakenPlace
    <3>1. \A q \in Id : \A f : Unsent(q, f) => Unsent(q, f)' BY <1>4, UnsentMoves
    <3>2. Unsent(taken[d].id, taken[d].body.from) /\ taken[d].id \in Id
      BY <1>0 DEF TakenPlace, TakenInv
    <3>3. QED BY <2>1, <3>1, <3>2, UnsentAt
  <2>4. ASSUME NEW q \in Id PROVE Apart(q)'
    <3>1. CASE q # r
      <4>1. chan'[q] = chan[q] /\ got'[q] = got[q] BY <1>4, <3>1 DEF Moves
      <4>2. Apart(q) BY <1>0
      <4>3. QED BY <4>1, <4>2 DEF Apart
    <3>2. CASE q = r
      <4>1. Apart(r) BY <1>0
      <4>2. \A i \in 1..Len(chan'[r]), j \in 1..Len(chan'[r]) :
              chan'[r][i].from = chan'[r][j].from => i = j
        <5> SUFFICES ASSUME NEW i \in 1..Len(chan'[r]), NEW j \in 1..Len(chan'[r]),
                            chan'[r][i].from = chan'[r][j].from
                     PROVE  i = j
          OBVIOUS
        <5>1. /\ i + 1 \in 1..Len(chan[r]) /\ chan'[r][i] = chan[r][i + 1]
              /\ j + 1 \in 1..Len(chan[r]) /\ chan'[r][j] = chan[r][j + 1]
          BY <1>4 DEF Moves
        <5>2. i + 1 = j + 1 BY <4>1, <5>1 DEF Apart
        <5>3. QED BY <5>2, SMT
      <4>3. ASSUME NEW i \in 1..Len(got'[r]), NEW j \in 1..Len(chan'[r])
            PROVE  got'[r][i].from # chan'[r][j].from
        <5>1. /\ j + 1 \in 1..Len(chan[r]) /\ chan'[r][j] = chan[r][j + 1]
              /\ 1 \in 1..Len(chan[r]) /\ j + 1 # 1
          <6>1. j + 1 \in 1..Len(chan[r]) /\ chan'[r][j] = chan[r][j + 1]
                /\ Len(chan[r]) \in Nat \ {0}
            BY <1>4 DEF Moves
          <6>2. QED BY <6>1, SMT
        <5>2. (i \in 1..Len(got[r]) /\ got'[r][i] = got[r][i]) \/ got'[r][i] = chan[r][1]
          BY <1>4, <4>3, MovesIndex
        <5>3. QED BY <4>1, <5>1, <5>2 DEF Apart
      <4>4. QED BY <3>2, <4>2, <4>3 DEF Apart
    <3>3. QED BY <3>1, <3>2
  <2>5. QED BY <2>2, <2>3, <2>4 DEF PlaceInv, InboxPlace, TakenPlace, Apart
\* The response that was taken goes into the channel of its call.
<1>5. ASSUME NEW c \in Client, NEW r \in Id, Queues(c, r) PROVE PlaceInv'
  <2>1. UNCHANGED <<inbox, got>> /\ taken' = [taken EXCEPT ![c] = None]
        /\ taken[c] # None /\ r = taken[c].id
    BY <1>5 DEF Queues
  <2>2. /\ taken'[c] = None /\ \A d \in Client \ {c} : taken'[d] = taken[d]
        /\ req[r].from = c
    BY <1>0, <2>1, SMT DEF TakenInv
  <2>3. ASSUME NEW m \in inbox' PROVE InboxPlace(m)'
    <3> SUFFICES ASSUME m.body # None PROVE InboxPlace(m)'
      BY DEF InboxPlace
    <3>1. InboxPlace(m) /\ m.id \in Id BY <1>0, <2>1 DEF InboxInv
    <3>2. m.id = r => taken[c].body.from # m.body.from BY <2>1, <3>1 DEF InboxPlace
    <3>3. Unsent(m.id, m.body.from)'
      <4>1. Unsent(m.id, m.body.from) BY <3>1 DEF InboxPlace
      <4>2. \A q \in Id : \A f : Unsent(q, f) /\ (q = r => taken[c].body.from # f)
              => Unsent(q, f)'
        BY <1>5, UnsentQueues
      <4>3. QED BY <3>1, <3>2, <4>1, <4>2
    <3>4. \A d \in Client : taken'[d] # None /\ taken'[d].id = m.id =>
            taken'[d].body.from # m.body.from
      BY <2>2, <3>1 DEF InboxPlace
    <3>5. QED BY <3>3, <3>4 DEF InboxPlace
  <2>4. ASSUME NEW d \in Client PROVE TakenPlace(d)'
    <3> SUFFICES ASSUME taken'[d] # None PROVE Unsent(taken[d].id, taken[d].body.from)'
      BY DEF TakenPlace
    <3>1. d # c /\ taken'[d] = taken[d] BY <2>2
    <3>2. /\ Unsent(taken[d].id, taken[d].body.from) /\ taken[d].id \in Id
          /\ req[taken[d].id].from = d
      BY <1>0, <3>1 DEF TakenPlace, TakenInv
    <3>3. taken[d].id # r BY <2>2, <3>1, <3>2
    <3>4. \A q \in Id \ {r} : \A f : Unsent(q, f) => Unsent(q, f)' BY <1>5, UnsentQueues
    <3>5. QED BY <3>1, <3>2, <3>3, <3>4, UnsentAt
  <2>5. ASSUME NEW q \in Id PROVE Apart(q)'
    <3>1. CASE q # r
      <4>1. chan'[q] = chan[q] /\ got'[q] = got[q] BY <1>5, <3>1 DEF Queues
      <4>2. Apart(q) BY <1>0
      <4>3. QED BY <4>1, <4>2 DEF Apart
    <3>2. CASE q = r
      <4>1. Apart(r) /\ Unsent(r, taken[c].body.from) BY <1>0, <2>1 DEF TakenPlace
      <4>2. ASSUME NEW i \in 1..Len(chan'[r])
            PROVE  \/ i \in 1..Len(chan[r]) /\ chan'[r][i] = chan[r][i]
                   \/ i = Len(chan[r]) + 1 /\ chan'[r][i] = taken[c].body
        BY <1>5, <4>2, QueuesIndex
      <4>3. \A i \in 1..Len(chan'[r]), j \in 1..Len(chan'[r]) :
              chan'[r][i].from = chan'[r][j].from => i = j
        BY <4>1, <4>2 DEF Apart, Unsent
      <4>4. \A i \in 1..Len(got'[r]), j \in 1..Len(chan'[r]) :
              got'[r][i].from # chan'[r][j].from
        <5>1. got'[r] = got[r] BY <2>1
        <5> SUFFICES ASSUME NEW i \in 1..Len(got'[r]), NEW j \in 1..Len(chan'[r])
                     PROVE  got'[r][i].from # chan'[r][j].from
          OBVIOUS
        <5>2. \/ j \in 1..Len(chan[r]) /\ chan'[r][j] = chan[r][j]
              \/ chan'[r][j] = taken[c].body
          BY <4>2
        <5>3. QED BY <4>1, <5>1, <5>2 DEF Apart, Unsent
      <4>5. QED BY <3>2, <4>3, <4>4 DEF Apart
    <3>3. QED BY <3>1, <3>2
  <2>6. QED BY <2>3, <2>4, <2>5 DEF PlaceInv, InboxPlace, TakenPlace, Apart
<1>6. QED BY <1>1, <1>2, <1>3, <1>4, <1>5, PlaceSteps

-----------------------------------------------------------------------------
(* The theorems.                                                           *)

\* The invariant holds in every reachable state.
THEOREM RpcInvariant == Spec => []Inv
<1>1. Inv /\ [Next]_vars => Inv'
  BY CallKept, ServedKept, InboxKept, TakenKept, ReadKept, PlaceKept DEF Inv
<1>2. QED BY InitInv, <1>1, PTL DEF Spec

\* A client that answers, or keeps silent, takes the step Handle.
LEMMA HandleRefines ==
  ASSUME Inv, NEW c \in Client, HandleRequest(c)
  PROVE  Calls!Next \/ UNCHANGED Calls!vars
<1>1. PICK m \in inbox, a \in Answers(c) : Handles(c, m, a) BY HandleSteps
<1>2. UNCHANGED <<req, got>> BY HandleSteps
<1>3. CASE UNCHANGED served BY <1>2, <1>3 DEF Calls!vars
<1>4. CASE ~UNCHANGED served
  <2>1. PICK x : served' = served \cup {[id |-> m.id, by |-> c, saw |-> x, answer |-> a]}
    BY <1>1, <1>4 DEF Handles
  <2> DEFINE s == [id |-> m.id, by |-> c, saw |-> x, answer |-> a]
             h == [id |-> m.id, by |-> c, answer |-> a]
             H == {[id |-> t.id, by |-> t.by, answer |-> t.answer] : t \in served}
             asked == [r \in Id |-> IF req[r] = None THEN None
                                    ELSE [from |-> req[r].from, to |-> req[r].to]]
  <2>2. /\ m.id \in Id /\ pc[m.id] \notin Fresh /\ ~Served(m.id, c)
        /\ req[m.id].to \in {c, Everyone} /\ req[m.id].from # c
    BY <1>1, <1>4 DEF Inv, InboxInv, Handles
  <2>3. req[m.id] # None BY <2>2, SMT DEF Inv, CallInv, Fresh
  <2>4. asked[m.id] # None /\ asked[m.id].from # c /\ asked[m.id].to \in {c, Everyone}
    <3>1. asked[m.id] = [from |-> req[m.id].from, to |-> req[m.id].to]
      BY <2>2, <2>3
    <3>2. req[m.id] \in Question BY <2>2, <2>3, SMT DEF Inv, CallInv
    <3>3. asked[m.id] \in [from : Client, to : Client \cup {Everyone}]
      BY <3>1, <3>2, SMT DEF Question
    <3>4. asked[m.id] # None BY <3>3, NoneAssumption
    <3>5. asked[m.id].from = req[m.id].from /\ asked[m.id].to = req[m.id].to
      BY <3>1, SMT
    <3>6. QED BY <2>2, <3>4, <3>5
  <2>5. h.id = m.id /\ h.by = c /\ h.answer = a BY SMT
  <2>6. H' = H \cup {h}
    <3>1. s.id = m.id /\ s.by = c /\ s.answer = a /\ served' = served \cup {s}
      BY <2>1, SMT
    <3> HIDE DEF s
    <3>2. QED BY <3>1
  <2>7. \A t \in H : ~(t.id = m.id /\ t.by = c)
    <3>1. ASSUME NEW u \in served, NEW t, t = [id |-> u.id, by |-> u.by, answer |-> u.answer]
          PROVE  ~(t.id = m.id /\ t.by = c)
      <4>1. t.id = u.id /\ t.by = u.by BY <3>1, SMT
      <4>2. QED BY <2>2, <4>1 DEF Served
    <3>2. QED BY <3>1
  <2>8. a # None => a.from = c BY AnswerFrom
  <2>9. Calls!Handle(m.id, c)
    BY <1>2, <2>4, <2>5, <2>6, <2>7, <2>8 DEF Calls!Handle
  <2>10. QED BY <2>2, <2>9 DEF Calls!Next
<1>5. QED BY <1>3, <1>4

\* The caller that takes the head of its channel takes the step Read.
LEMMA ReadRefines ==
  ASSUME Inv, NEW r \in Id, ReceiveAnswer(r) \/ ReadBroadcast(r)
  PROVE  Calls!Next \/ UNCHANGED Calls!vars
<1>1. UNCHANGED <<req, served>> BY ReadSteps
<1>2. CASE UNCHANGED got BY <1>1, <1>2 DEF Calls!vars
<1>3. CASE ~UNCHANGED got
  <2>1. /\ chan[r] # <<>> /\ got' = [got EXCEPT ![r] = Append(got[r], Head(chan[r]))]
        /\ pc[r] = "waiting" \/ (pc[r] = "returned" /\ Broadcast(r))
        /\ pc[r] = "waiting" => got[r] = <<>>
    BY <1>3, ReadSteps
  <2>2. /\ chan[r] \in Seq(Body) /\ got[r] \in Seq(Body)
        /\ \A i \in 1..Len(chan[r]) : Given(r, chan[r][i])
    BY DEF Inv, ReadInv
  <2>3. 1 \in 1..Len(chan[r]) /\ Head(chan[r]) = chan[r][1] /\ DOMAIN got[r] = 1..Len(got[r])
    BY <2>1, <2>2, HeadTailProperties, LenProperties, EmptySeq, SMT
  <2> DEFINE e == chan[r][1]
             h == [id |-> r, by |-> e.from, answer |-> e]
             H == {[id |-> t.id, by |-> t.by, answer |-> t.answer] : t \in served}
             asked == [q \in Id |-> IF req[q] = None THEN None
                                    ELSE [from |-> req[q].from, to |-> req[q].to]]
  <2>4. Given(r, e) BY <2>2, <2>3
  <2>5. h \in H BY <2>4 DEF Given
  <2>6. h.id = r /\ h.by = e.from /\ h.answer = e BY SMT
  <2>7. e # None BY <2>4 DEF Given
  <2>8. \A i \in DOMAIN got[r] : got[r][i].from # e.from
    BY <2>3 DEF Inv, PlaceInv
  <2>9. req[r] \in Question /\ req[r] # None
    BY <2>1, NoneAssumption, SMT DEF Inv, CallInv
  <2>10. asked[r] # None /\ asked[r].to = req[r].to
    <3>1. asked[r] = [from |-> req[r].from, to |-> req[r].to] BY <2>9
    <3>2. asked[r] \in [from : Client, to : Client \cup {Everyone}]
      BY <2>9, <3>1, SMT DEF Question
    <3>3. asked[r] # None BY <3>2, NoneAssumption
    <3>4. asked[r].to = req[r].to BY <3>1, SMT
    <3>5. QED BY <3>3, <3>4
  <2>11. asked[r].to # Everyone => got[r] = <<>> BY <2>1, <2>10 DEF Broadcast
  <2>12. got' = [got EXCEPT ![r] = Append(got[r], h.answer)] BY <2>1, <2>3, <2>6
  <2> HIDE DEF h, e
  <2>13. Calls!Read(r)
    BY <1>1, <2>5, <2>6, <2>7, <2>8, <2>10, <2>11, <2>12 DEF Calls!Read
  <2>14. QED BY <2>13 DEF Calls!Next
<1>4. QED BY <1>2, <1>3

\* A call takes the step Ask when it enters the pending map.
LEMMA BeginRefines ==
  ASSUME Inv, NEW c \in Client, NEW r \in Id, Begin(c, r)
  PROVE  Calls!Next
<1>1. UNCHANGED <<got, served>> /\ pc[r] = "unused" BY BeginSteps
<1>2. PICK q \in Question : /\ q.from = c /\ q.to \in (Client \ {c}) \cup {Everyone}
                            /\ req' = [req EXCEPT ![r] = q]
  BY BeginSteps, SMT
<1>3. req[r] = None /\ req \in [Id -> Question \cup {None}] BY <1>1 DEF Inv, CallInv
<1> DEFINE asked == [p \in Id |-> IF req[p] = None THEN None
                                  ELSE [from |-> req[p].from, to |-> req[p].to]]
<1>4. asked[r] = None BY <1>3
<1>5. asked' = [asked EXCEPT ![r] = [from |-> c, to |-> q.to]]
  <2>1. q # None /\ req'[r] = q /\ \A p \in Id \ {r} : req'[p] = req[p]
    BY <1>2, <1>3, NoneAssumption
  <2>2. asked' = [p \in Id |-> IF req'[p] = None THEN None
                               ELSE [from |-> req'[p].from, to |-> req'[p].to]]
    OBVIOUS
  <2>3. asked = [p \in Id |-> asked[p]] OBVIOUS
  <2>4. asked'[r] = [from |-> c, to |-> q.to] BY <1>2, <2>1, <2>2
  <2>5. \A p \in Id \ {r} : asked'[p] = asked[p] BY <2>1, <2>2
  <2>6. asked' = [p \in Id |-> asked'[p]] BY <2>2
  <2> HIDE DEF asked
  <2>7. QED BY <2>3, <2>4, <2>5, <2>6, SMT
<1>6. Calls!Ask(r) BY <1>1, <1>2, <1>4, <1>5 DEF Calls!Ask
<1>7. QED BY <1>6 DEF Calls!Next

\* Every step of the remote calls is a step of RpcCalls or changes nothing of it.
LEMMA StepRefines ==
  ASSUME Inv, [Next]_vars
  PROVE  [Calls!Next]_(Calls!vars)
<1>1. UNCHANGED <<req, served, got>> => UNCHANGED Calls!vars BY DEF Calls!vars
<1>2. CASE Quiet BY <1>1, <1>2, QuietSteps DEF coreVars
<1>3. ASSUME NEW r \in Id, SubscribeResponses(r) \/ CallTimesOut(r) \/ PublishRequest(r)
      PROVE  UNCHANGED Calls!vars
  BY <1>1, <1>3, SubscribeSteps, TimeOutSteps, PublishSteps
<1>4. ASSUME NEW c \in Client, LookupPending(c) \/ SendResponse(c)
      PROVE  UNCHANGED Calls!vars
  BY <1>1, <1>4, LookupSteps, SendSteps
<1>5. QED
  BY <1>2, <1>3, <1>4, BeginRefines, HandleRefines, ReadRefines, StepCases

\* CallRPC, BroadcastRPC, handleRequest and handleResponse keep the promise of
\* RpcCalls for any number of clients, calls, handlers and replies, and whatever
\* the broker loses, delays or reorders.
THEOREM RpcImplementsCalls == Spec => ImplementsRpcCalls
<1>1. Init => Calls!Init
  <2> SUFFICES ASSUME Init PROVE Calls!Init
    OBVIOUS
  <2>1. req = [r \in Id |-> None] /\ served = {} /\ got = [r \in Id |-> <<>>]
    BY DEF Init, InitWith
  <2>2. [r \in Id |-> IF req[r] = None THEN None
                      ELSE [from |-> req[r].from, to |-> req[r].to]] = [r \in Id |-> None]
    BY <2>1
  <2>3. QED BY <2>1, <2>2 DEF Calls!Init
<1>2. Inv /\ [Next]_vars => [Calls!Next]_(Calls!vars) BY StepRefines
<1>3. QED
  BY <1>1, <1>2, RpcInvariant, PTL DEF Spec, ImplementsRpcCalls, Calls!Spec

-----------------------------------------------------------------------------
(* What a client dies of.                                                  *)

Going == {"subscribing", "publishing", "waiting"}

\* The pending map holds calls of its own client.
PendingOK ==
  \A c \in Client : \A r \in pending[c] : r \in Id /\ req[r] # None /\ req[r].from = c

\* A channel is closed when its context is done, by Start, or where the request
\* of a broadcast could not be published.
ClosedOK ==
  \A r \in closed :
    r \in Id /\ req[r] # None /\ (r \in expired \cup early \/ pc[r] = "failed")

\* Nobody answers a request that was not published.
FailedOK ==
  /\ \A m \in inbox : pc[m.id] # "failed"
  /\ \A s \in served : pc[s.id] # "failed"

\* All calls of a client that is not started are early.
EarlyOK ==
  \A r \in Id : req[r] # None /\ setup[req[r].from] = "Start" => r \in early

\* A call under way is pending and its channel open, unless Start came after it.
GoingOK ==
  \A r \in Id :
    pc[r] \in Going => r \in early \/ (r \in pending[req[r].from] /\ r \notin closed)

\* A call of c had its context expire, or was made before Start.
Expired(c) == \E r \in Id : req[r] # None /\ req[r].from = c /\ r \in expired \cup early
Early(c) == \E r \in Id : req[r] # None /\ req[r].from = c /\ r \in early

Excused(c, why) ==
  /\ why = "send on closed channel" => Expired(c)
  /\ why \in {"nil response", "close of nil channel"} => Early(c)

PanicInv ==
  /\ setup = [c \in Client |-> setup[c]]
  /\ panicked = [c \in Client |-> panicked[c]]
  /\ pending = [c \in Client |-> pending[c]]
  /\ PendingOK /\ ClosedOK /\ FailedOK /\ EarlyOK /\ GoingOK
  /\ \A c \in Client : Excused(c, panicked[c])

\* Requests stay, contexts stay done, and no call fails once it was published.
LEMMA OnlyMore ==
  ASSUME Inv, [Next]_vars
  PROVE  /\ expired \subseteq expired' /\ early \subseteq early'
         /\ \A r \in Id : req[r] # None => req'[r] = req[r]
         /\ \A r \in Id : pc[r] = "failed" => pc'[r] = "failed"
         /\ \A r \in Id : pc'[r] = "failed" => pc[r] \in Fresh \cup {"failed"}
<1>0. CallInv BY DEF Inv
<1>1. expired \subseteq expired' /\ early \subseteq early'
  <2> USE DEF callVars
  <2>1. ASSUME NEW c \in Client, ClientStep(c) PROVE UNCHANGED expired /\ early \subseteq early'
    BY <2>1 DEF ClientStep, Start, RegisterProtoHandler, Disconnect, HandleRequest,
       RegistryRace, LookupPending, SendResponse, Begin
  <2>2. ASSUME NEW r \in Id, CallStep(r) PROVE expired \subseteq expired' /\ UNCHANGED early
    BY <2>2 DEF CallStep, SubscribeResponses, PublishRequest, ReceiveAnswer,
       CallTimesOut, ReadBroadcast, Expire, CleanupBroadcast, Unsubscribe
  <2>3. CASE UNCHANGED vars BY <2>3 DEF vars
  <2>4. QED BY <2>1, <2>2, <2>3 DEF Next
<1> DEFINE Goal == /\ \A r \in Id : req[r] # None => req'[r] = req[r]
                   /\ \A r \in Id : pc[r] = "failed" => pc'[r] = "failed"
                   /\ \A r \in Id : pc'[r] = "failed" => pc[r] \in Fresh \cup {"failed"}
<1>2. CASE Quiet
  <2>1. UNCHANGED <<req, pc>> BY <1>2, QuietSteps DEF coreVars
  <2>2. QED BY <1>1, <2>1
<1>3. ASSUME NEW c \in Client, NEW q \in Id, Begin(c, q) PROVE Goal
  BY <1>0, <1>3, BeginSteps, SMT DEF CallInv
<1>4. ASSUME NEW q \in Id, NEW p, UNCHANGED req, pc' = [pc EXCEPT ![q] = p],
             pc[q] # "failed", p = "failed" => pc[q] \in Fresh
      PROVE  Goal
  BY <1>0, <1>4, SMT DEF CallInv
<1>5. ASSUME NEW q \in Id, SubscribeResponses(q) PROVE Goal
  BY <1>4, <1>5, SubscribeSteps DEF Fresh
<1>6. ASSUME UNCHANGED <<req, pc>> PROVE Goal BY <1>6
<1>7. ASSUME NEW q \in Id, CallTimesOut(q) PROVE Goal
  BY <1>4, <1>6, <1>7, TimeOutSteps
<1>8. ASSUME NEW q \in Id, PublishRequest(q) PROVE Goal
  <2>1. PICK p : pc' = [pc EXCEPT ![q] = p] BY <1>8, PublishSteps
  <2>2. UNCHANGED req /\ pc[q] = "publishing" BY <1>8, PublishSteps
  <2>3. QED BY <1>4, <2>1, <2>2 DEF Fresh
<1>9. ASSUME NEW q \in Id, ReceiveAnswer(q) \/ ReadBroadcast(q) PROVE Goal
  <2>1. /\ UNCHANGED req
        /\ \/ UNCHANGED pc
           \/ /\ pc' = [pc EXCEPT ![q] = "returned"]
              /\ pc[q] \in {"waiting", "returned"}
    BY <1>9, ReadSteps
  <2>2. QED BY <1>4, <1>6, <2>1
<1>10. ASSUME NEW c \in Client, HandleRequest(c) \/ LookupPending(c) \/ SendResponse(c)
       PROVE  Goal
  BY <1>6, <1>10, HandleSteps, LookupSteps, SendSteps
<1>11. QED
  BY <1>1, <1>2, <1>3, <1>5, <1>7, <1>8, <1>9, <1>10, StepCases

\* Requests reach the broker when they are published, and only those are served.
LEMMA FailedKept ==
  ASSUME Inv, FailedOK, [Next]_vars
  PROVE  FailedOK'
<1>1. ASSUME NEW r \in Id, pc[r] # "failed", pc[r] \notin Fresh PROVE pc'[r] # "failed"
  BY <1>1, OnlyMore
<1>2. \A m \in inbox : pc'[m.id] # "failed"
  BY <1>1, InboxByMessage DEF FailedOK, Inv, InboxOK
<1>3. \A s \in served : pc'[s.id] # "failed"
  BY <1>1 DEF FailedOK, Inv, ServedInv
<1>4. CASE inbox' \subseteq inbox /\ UNCHANGED served
  BY <1>2, <1>3, <1>4 DEF FailedOK
<1>5. ASSUME NEW r \in Id, PublishRequest(r) PROVE FailedOK'
  <2>1. pc \in [Id -> Phase] BY DEF Inv, CallInv
  <2>2. UNCHANGED served BY <1>5, PublishSteps
  <2>3. CASE UNCHANGED inbox BY <1>2, <1>3, <2>2, <2>3 DEF FailedOK
  <2>4. CASE /\ pc' = [pc EXCEPT ![r] = IF Broadcast(r) THEN "returned" ELSE "waiting"]
             /\ inbox' = inbox \cup
                  {[to |-> x, id |-> r, body |-> None] : x \in Receivers(req[r])}
    <3>1. pc'[r] # "failed" BY <2>1, <2>4
    <3>2. ASSUME NEW m \in inbox', m \notin inbox PROVE pc'[m.id] # "failed"
      <4>1. PICK x \in Receivers(req[r]) : m = [to |-> x, id |-> r, body |-> None]
        BY <2>4, <3>2
      <4>2. m.id = r BY <4>1
      <4>3. QED BY <3>1, <4>2
    <3>3. QED BY <1>2, <1>3, <2>2, <3>2 DEF FailedOK
  <2>5. QED BY <1>5, <2>3, <2>4, PublishSteps
<1>6. ASSUME NEW c \in Client, HandleRequest(c) PROVE FailedOK'
  <2>1. PICK m \in inbox, a \in Answers(c) : Handles(c, m, a) BY <1>6, HandleSteps
  <2>2. \A n \in inbox' : n \in inbox \/ n.id = m.id
    <3> DEFINE n == [to |-> req[m.id].from, id |-> m.id, body |-> a]
    <3>1. inbox' \subseteq inbox \cup {n} BY <2>1 DEF Handles
    <3>2. n.id = m.id OBVIOUS
    <3>3. QED BY <3>1, <3>2
  <2>3. \A s \in served' : s \in served \/ s.id = m.id
    <3>1. PICK x : served' \subseteq served \cup
                     {[id |-> m.id, by |-> c, saw |-> x, answer |-> a]}
      BY <2>1 DEF Handles
    <3>2. [id |-> m.id, by |-> c, saw |-> x, answer |-> a].id = m.id OBVIOUS
    <3>3. QED BY <3>1, <3>2
  <2>4. QED BY <1>2, <1>3, <2>2, <2>3 DEF FailedOK
<1>7. QED BY <1>4, <1>5, <1>6, InboxSteps

\* What every step but Begin does to the maps, the channels and the panics.
Careful ==
  /\ UNCHANGED req
  /\ setup' = [c \in Client |-> setup'[c]]
  /\ panicked' = [c \in Client |-> panicked'[c]]
  /\ pending' = [c \in Client |-> pending'[c]]
  /\ \A c \in Client : /\ pending'[c] \subseteq pending[c]
                       /\ setup'[c] = "Start" => setup[c] = "Start"
                       /\ panicked'[c] = panicked[c] \/ Excused(c, panicked'[c])
  /\ \A r \in closed' \ closed :
       r \in Id /\ req[r] # None /\ (r \in expired' \cup early' \/ pc'[r] = "failed")
  /\ \A r \in Id :
       pc'[r] \in Going =>
         /\ pc[r] \in Going
         /\ \/ r \in early'
            \/ /\ r \in pending[req[r].from] => r \in pending'[req[r].from]
               /\ r \in closed' => r \in closed

LEMMA CarefulKeeps ==
  ASSUME Inv, PanicInv, [Next]_vars, Careful
  PROVE  PanicInv'
<1>0. /\ expired \subseteq expired' /\ early \subseteq early' /\ req' = req
      /\ \A r \in Id : pc[r] = "failed" => pc'[r] = "failed"
  BY OnlyMore DEF Careful
<1>1. PendingOK'
  <2>1. \A c \in Client : pending'[c] \subseteq pending[c] BY DEF Careful
  <2>2. PendingOK BY DEF PanicInv
  <2>3. QED BY <1>0, <2>1, <2>2 DEF PendingOK
<1>2. ClosedOK' BY <1>0 DEF PanicInv, Careful, ClosedOK
<1>3. FailedOK' BY FailedKept DEF PanicInv
<1>4. \A r \in Id : req[r] # None => req[r].from \in Client
  <2>1. \A r \in Id : req[r] # None => req[r] \in Question BY DEF Inv, CallInv
  <2>2. \A q \in Question : q.from \in Client BY SMT DEF Question
  <2>3. QED BY <2>1, <2>2
<1>5. EarlyOK' BY <1>0, <1>4 DEF PanicInv, Careful, EarlyOK
<1>6. GoingOK' BY <1>0 DEF PanicInv, Careful, GoingOK
<1>7. ASSUME NEW c \in Client PROVE Excused(c, panicked[c])'
  <2>1. (Expired(c) => Expired(c)') /\ (Early(c) => Early(c)')
    BY <1>0 DEF Expired, Early
  <2>2. Excused(c, panicked[c]) BY DEF PanicInv
  <2>3. \/ panicked'[c] = panicked[c]
        \/ Excused(c, panicked'[c])
    BY DEF Careful
  <2>4. QED BY <2>1, <2>2, <2>3 DEF Excused
<1>8. QED BY <1>1, <1>2, <1>3, <1>5, <1>6, <1>7 DEF PanicInv, Careful

\* The steps that touch neither the maps nor the channels.
LEMMA CalmIsCareful ==
  ASSUME PanicInv,
         UNCHANGED <<req, pending, closed, panicked>>,
         setup' = [c \in Client |-> setup'[c]],
         \A c \in Client : setup'[c] = "Start" => setup[c] = "Start",
         \A r \in Id : pc'[r] \in Going => pc[r] \in Going
  PROVE  Careful
BY DEF PanicInv, Careful

\* Cleanup of call r, whose context is done or which failed.
LEMMA CleanupIsCareful ==
  ASSUME Inv, PanicInv, NEW r \in Id, req[r] # None, Cleanup(r),
         UNCHANGED <<req, setup, panicked>>,
         r \in expired' \/ pc'[r] = "failed", pc'[r] \notin Going,
         \A q \in Id \ {r} : pc'[q] = pc[q]
  PROVE  Careful
<1>1. /\ closed' \subseteq closed \cup {r}
      /\ pending' = [pending EXCEPT ![req[r].from] = pending[req[r].from] \ {r}]
  BY DEF Cleanup
<1>2. req[r].from \in Client
  <2>1. req[r] \in Question BY DEF Inv, CallInv
  <2>2. QED BY <2>1, SMT DEF Question
<1>3. /\ pending' = [c \in Client |-> pending'[c]]
      /\ \A c \in Client : /\ pending'[c] \subseteq pending[c]
                           /\ pending[c] \ {r} \subseteq pending'[c]
  BY <1>1, <1>2 DEF PanicInv
<1>4. \A q \in Id : req[q] # None => req[q].from \in Client
  <2>1. \A q \in Id : req[q] # None => req[q] \in Question BY DEF Inv, CallInv
  <2>2. \A q \in Question : q.from \in Client BY SMT DEF Question
  <2>3. QED BY <2>1, <2>2
<1>5. ASSUME NEW q \in Id, pc'[q] \in Going
      PROVE  /\ pc[q] \in Going
             /\ q \in pending[req[q].from] => q \in pending'[req[q].from]
             /\ q \in closed' => q \in closed
  <2>1. q # r /\ pc'[q] = pc[q] BY <1>5
  <2>2. req[q] # None BY <1>5, <2>1 DEF Inv, CallInv, Going
  <2>3. req[q].from \in Client BY <1>4, <2>2
  <2>4. QED BY <1>1, <1>3, <1>5, <2>1, <2>3
<1>6. QED BY <1>1, <1>3, <1>5 DEF Careful, PanicInv

\* Start forgets calls made before it.
LEMMA StartIsCareful ==
  ASSUME Inv, PanicInv, NEW c \in Client, Start(c)
  PROVE  Careful
<1>1. /\ setup[c] = "Start" /\ setup' = [setup EXCEPT ![c] = RequestVote]
      /\ closed' = closed \cup pending[c]
      /\ pending' = [pending EXCEPT ![c] = {}]
      /\ UNCHANGED <<req, pc, panicked, early>>
  BY DEF Start, callVars
<1>2. RequestVote # "Start" BY DEF RequestVote
<1>3. /\ setup' = [d \in Client |-> setup'[d]]
      /\ \A d \in Client : setup'[d] = "Start" => setup[d] = "Start"
  BY <1>1, <1>2 DEF PanicInv
<1>4. /\ pending' = [d \in Client |-> pending'[d]]
      /\ \A d \in Client : pending'[d] = IF d = c THEN {} ELSE pending[d]
  BY <1>1 DEF PanicInv
<1>5. \A r \in pending[c] : r \in Id /\ req[r] # None /\ req[r].from = c /\ r \in early'
  BY <1>1 DEF PanicInv, PendingOK, EarlyOK
<1>6. \A r \in closed' \ closed : r \in Id /\ req[r] # None /\ r \in early'
  BY <1>1, <1>5
<1>7. ASSUME NEW r \in Id, pc'[r] \in Going
      PROVE  /\ pc[r] \in Going
             /\ \/ r \in early'
                \/ /\ r \in pending[req[r].from] => r \in pending'[req[r].from]
                   /\ r \in closed' => r \in closed
  <2>1. pc[r] \in Going /\ req[r] # None BY <1>1, <1>7 DEF Inv, CallInv, Going
  <2>2. req[r].from \in Client
    <3>1. req[r] \in Question BY <2>1 DEF Inv, CallInv
    <3>2. QED BY <3>1, SMT DEF Question
  <2>3. CASE req[r].from = c BY <1>1, <2>1, <2>3 DEF PanicInv, EarlyOK
  <2>4. CASE req[r].from # c
    <3>1. r \notin pending[c] BY <1>5, <2>4
    <3>2. QED BY <1>1, <1>4, <2>1, <2>2, <2>4, <3>1
  <2>5. QED BY <2>3, <2>4
<1>8. \A d \in Client : pending'[d] \subseteq pending[d] BY <1>4
<1>9. QED BY <1>1, <1>3, <1>4, <1>6, <1>7, <1>8 DEF Careful, PanicInv

\* A client that panics has a cause, and nothing else happens.
LEMMA PanicIsCareful ==
  ASSUME PanicInv, NEW c \in Client, NEW why, Panic(c, why), Excused(c, why),
         UNCHANGED <<req, pc, setup, pending, closed>>
  PROVE  Careful
<1>1. /\ panicked' = [d \in Client |-> panicked'[d]]
      /\ \A d \in Client : panicked'[d] = IF d = c THEN why ELSE panicked[d]
  BY DEF Panic, PanicInv
<1>2. QED BY <1>1 DEF Careful, PanicInv

\* The steps of the clients.
LEMMA ClientIsCareful ==
  ASSUME Inv, PanicInv, NEW c \in Client,
         \/ Start(c) \/ RegisterProtoHandler(c) \/ Disconnect(c)
         \/ HandleRequest(c) \/ RegistryRace(c)
         \/ LookupPending(c) \/ SendResponse(c)
  PROVE  Careful
<1> USE DEF setupVars, callVars, mapVars
<1>1. CASE RegisterProtoHandler(c)
  <2>1. UNCHANGED <<req, pc, pending, closed, panicked>> /\ setup[c] \in Method
        /\ setup' = [setup EXCEPT ![c] = IF setup[c] = RequestVote
                                         THEN AppendEntries ELSE "done"]
    BY <1>1 DEF RegisterProtoHandler
  <2>2. PICK x \in {AppendEntries, "done"} : setup' = [setup EXCEPT ![c] = x]
    BY <2>1
  <2>a. x # "Start" BY DEF AppendEntries
  <2>3. /\ setup' = [d \in Client |-> setup'[d]]
        /\ \A d \in Client : setup'[d] = "Start" => setup[d] = "Start"
    BY <2>2, <2>a DEF PanicInv
  <2>4. QED BY <2>1, <2>3, CalmIsCareful
<1>2. CASE Disconnect(c) \/ HandleRequest(c) \/ LookupPending(c)
  <2>1. UNCHANGED <<req, pc, pending, closed, panicked, setup>>
    BY <1>2 DEF Disconnect, HandleRequest, LookupPending
  <2>2. QED BY <2>1, CalmIsCareful DEF PanicInv
<1>3. CASE RegistryRace(c)
  <2>1. /\ UNCHANGED <<req, pc, setup, pending, closed>>
        /\ Panic(c, "concurrent map access")
    BY <1>3 DEF RegistryRace
  <2>2. Excused(c, "concurrent map access") BY DEF Excused
  <2>3. QED BY <2>1, <2>2, PanicIsCareful
<1>4. CASE SendResponse(c)
  <2>1. /\ UNCHANGED <<req, pc, setup, pending, closed>> /\ taken[c] # None
        /\ \/ UNCHANGED panicked
           \/ taken[c].id \in closed /\ Panic(c, "send on closed channel")
    BY <1>4 DEF SendResponse
  <2>2. CASE UNCHANGED panicked BY <2>1, <2>2, CalmIsCareful DEF PanicInv
  <2>3. CASE taken[c].id \in closed /\ Panic(c, "send on closed channel")
    <3>1. PICK r : r = taken[c].id OBVIOUS
    <3>2. /\ r \in Id /\ req[r].from = c /\ r \in closed
          /\ \E s \in served : s.id = r
      BY <2>1, <2>3, <3>1 DEF Inv, TakenInv, Given
    <3>3. pc[r] # "failed" BY <3>2 DEF PanicInv, FailedOK
    <3>4. req[r] # None /\ r \in expired \cup early
      BY <3>2, <3>3 DEF PanicInv, ClosedOK
    <3>5. Expired(c) BY <3>2, <3>4 DEF Expired
    <3>6. Excused(c, "send on closed channel") BY <3>5 DEF Excused
    <3>7. QED BY <2>1, <2>3, <3>6, PanicIsCareful
  <2>4. QED BY <2>1, <2>2, <2>3
<1>5. QED BY <1>1, <1>2, <1>3, <1>4, StartIsCareful

\* The steps of the calls.
LEMMA CallIsCareful ==
  ASSUME Inv, PanicInv, NEW r \in Id, CallStep(r)
  PROVE  Careful
<1> USE DEF setupVars, callVars, mapVars
<1>0. pc \in [Id -> Phase] /\ (pc[r] # "unused" => req[r] # None)
  BY DEF Inv, CallInv
<1>1. ASSUME pc[r] # "unused" PROVE req[r] # None /\ req[r].from \in Client
  <2>1. req[r] # None /\ req[r] \in Question BY <1>0, <1>1 DEF Inv, CallInv
  <2>2. QED BY <2>1, SMT DEF Question
<1>2. ASSUME UNCHANGED <<req, setup, pending, closed, panicked>>, NEW p,
             pc' = [pc EXCEPT ![r] = p], pc[r] \in Going
      PROVE  Careful
  <2>1. \A q \in Id : pc'[q] \in Going => pc[q] \in Going BY <1>0, <1>2
  <2>2. QED BY <1>2, <2>1, CalmIsCareful DEF PanicInv
<1>3. CASE SubscribeResponses(r)
  <2>1. UNCHANGED <<req, setup, pending, closed, panicked>>
    BY <1>3 DEF SubscribeResponses
  <2>2. QED BY <1>2, <1>3, <2>1, SubscribeSteps DEF Going
<1>4. CASE PublishRequest(r)
  <2>1. /\ UNCHANGED <<req, setup, panicked>> /\ pc[r] = "publishing"
        /\ \E p : pc' = [pc EXCEPT ![r] = p]
        /\ \/ UNCHANGED <<pending, closed>>
           \/ Cleanup(r) /\ pc' = [pc EXCEPT ![r] = "failed"]
    BY <1>4 DEF PublishRequest, Set
  <2>2. CASE UNCHANGED <<pending, closed>> BY <1>2, <2>1, <2>2 DEF Going
  <2>3. CASE Cleanup(r) /\ pc' = [pc EXCEPT ![r] = "failed"]
    <3>1. pc'[r] = "failed" /\ \A q \in Id \ {r} : pc'[q] = pc[q] BY <1>0, <2>3
    <3>2. QED BY <1>1, <2>1, <2>3, <3>1, CleanupIsCareful DEF Going
  <2>4. QED BY <2>1, <2>2, <2>3
<1>5. CASE ReceiveAnswer(r)
  <2>1. /\ UNCHANGED <<req, setup, pending, closed>> /\ pc[r] = "waiting"
        /\ \/ pc' = [pc EXCEPT ![r] = "returned"] /\ UNCHANGED panicked
           \/ /\ r \in closed /\ Panic(req[r].from, "nil response")
              /\ UNCHANGED pc
    BY <1>5 DEF ReceiveAnswer, Set
  <2>2. CASE pc' = [pc EXCEPT ![r] = "returned"] /\ UNCHANGED panicked
    BY <1>2, <2>1, <2>2 DEF Going
  <2>3. CASE r \in closed /\ Panic(req[r].from, "nil response") /\ UNCHANGED pc
    <3>1. r \in early BY <2>1, <2>3 DEF PanicInv, GoingOK, Going
    <3>2. Early(req[r].from) BY <1>1, <2>1, <3>1 DEF Early
    <3>3. Excused(req[r].from, "nil response") BY <3>2 DEF Excused
    <3>4. QED BY <1>1, <2>1, <2>3, <3>3, PanicIsCareful
  <2>4. QED BY <2>1, <2>2, <2>3
<1>6. CASE CallTimesOut(r)
  <2>1. /\ UNCHANGED <<req, setup, expired>> /\ pc[r] = "waiting" /\ r \in expired
        /\ \/ Cleanup(r) /\ pc' = [pc EXCEPT ![r] = "expired"] /\ UNCHANGED panicked
           \/ /\ r \notin pending[req[r].from]
              /\ Panic(req[r].from, "close of nil channel")
              /\ UNCHANGED <<pending, closed, pc>>
    BY <1>6 DEF CallTimesOut, Set
  <2>2. CASE Cleanup(r) /\ pc' = [pc EXCEPT ![r] = "expired"] /\ UNCHANGED panicked
    <3>1. pc'[r] = "expired" /\ \A q \in Id \ {r} : pc'[q] = pc[q] BY <1>0, <2>2
    <3>2. QED BY <1>1, <2>1, <2>2, <3>1, CleanupIsCareful DEF Going
  <2>3. CASE /\ r \notin pending[req[r].from]
             /\ Panic(req[r].from, "close of nil channel")
             /\ UNCHANGED <<pending, closed, pc>>
    <3>1. r \in early BY <2>1, <2>3 DEF PanicInv, GoingOK, Going
    <3>2. Early(req[r].from) BY <1>1, <2>1, <3>1 DEF Early
    <3>3. Excused(req[r].from, "close of nil channel") BY <3>2 DEF Excused
    <3>4. QED BY <1>1, <2>1, <2>3, <3>3, PanicIsCareful
  <2>4. QED BY <2>1, <2>2, <2>3
<1>7. CASE CleanupBroadcast(r)
  <2>1. /\ UNCHANGED <<req, setup, panicked, expired, pc>> /\ pc[r] = "returned"
        /\ r \in expired /\ Cleanup(r)
    BY <1>7 DEF CleanupBroadcast
  <2>2. QED BY <1>1, <2>1, CleanupIsCareful DEF Going
<1>8. CASE ReadBroadcast(r) \/ Expire(r) \/ Unsubscribe(r)
  <2>1. UNCHANGED <<req, pc, pending, closed, panicked, setup>>
    BY <1>8 DEF ReadBroadcast, Expire, Unsubscribe
  <2>2. QED BY <2>1, CalmIsCareful DEF PanicInv
<1>9. QED BY <1>3, <1>4, <1>5, <1>6, <1>7, <1>8 DEF CallStep

\* Begin makes a call pending, with a new channel.
LEMMA BeginKeepsPanic ==
  ASSUME Inv, PanicInv, [Next]_vars, NEW c \in Client, NEW r \in Id, Begin(c, r)
  PROVE  PanicInv'
<1>1. PICK q \in Question : q.from = c /\ req' = [req EXCEPT ![r] = q]
  BY BeginSteps, SMT
<1>2. /\ pc[r] = "unused" /\ pc' = [pc EXCEPT ![r] = "subscribing"]
      /\ pending' = [pending EXCEPT ![c] = pending[c] \cup {r}]
      /\ early' = IF setup[c] = "Start" THEN early \cup {r} ELSE early
      /\ UNCHANGED <<setup, expired, closed, panicked>>
  BY DEF Begin, Set, setupVars
<1>3. /\ req \in [Id -> Question \cup {None}] /\ pc \in [Id -> Phase] /\ req[r] = None
      /\ \A x \in Id : pc[x] \in Going => req[x] # None
  BY <1>2 DEF Inv, CallInv, Going
<1>4. /\ req'[r] = q /\ q # None /\ pc'[r] = "subscribing"
      /\ \A x \in Id \ {r} : req'[x] = req[x] /\ pc'[x] = pc[x]
  BY <1>1, <1>2, <1>3, NoneAssumption
<1>5. /\ pending' = [d \in Client |-> pending'[d]]
      /\ \A d \in Client : pending'[d] = IF d = c THEN pending[d] \cup {r} ELSE pending[d]
  BY <1>2 DEF PanicInv
<1>6. early \subseteq early' /\ (setup[c] = "Start" => r \in early') BY <1>2
<1>7. PendingOK'
  <2> SUFFICES ASSUME NEW d \in Client, NEW x \in pending'[d]
               PROVE  x \in Id /\ req'[x] # None /\ req'[x].from = d
    BY DEF PendingOK
  <2>1. CASE x \in pending[d]
    <3>1. x \in Id /\ req[x] # None /\ req[x].from = d BY <2>1 DEF PanicInv, PendingOK
    <3>2. QED BY <1>3, <1>4, <3>1
  <2>2. CASE x \notin pending[d]
    <3>1. d = c /\ x = r BY <1>5, <2>2
    <3>2. QED BY <1>1, <1>4, <3>1
  <2>3. QED BY <2>1, <2>2
<1>8. ClosedOK' BY <1>2, <1>3, <1>4, <1>6 DEF PanicInv, ClosedOK
<1>9. r \notin closed BY <1>3 DEF PanicInv, ClosedOK
<1>10. FailedOK' BY FailedKept DEF PanicInv
<1>11. EarlyOK' BY <1>1, <1>2, <1>4, <1>6 DEF PanicInv, EarlyOK
<1>12. GoingOK'
  <2> SUFFICES ASSUME NEW x \in Id, pc'[x] \in Going
               PROVE  x \in early' \/ (x \in pending'[req'[x].from] /\ x \notin closed')
    BY DEF GoingOK
  <2>1. CASE x = r BY <1>1, <1>2, <1>4, <1>5, <1>9, <2>1
  <2>2. CASE x # r
    <3>1. pc[x] \in Going /\ req[x] # None /\ req'[x] = req[x] BY <1>3, <1>4, <2>2
    <3>2. x \in early \/ (x \in pending[req[x].from] /\ x \notin closed)
      BY <3>1 DEF PanicInv, GoingOK
    <3>3. req[x] \in Question BY <1>3, <3>1
    <3>4. req[x].from \in Client BY <3>3, SMT DEF Question
    <3>5. QED BY <1>2, <1>5, <1>6, <3>1, <3>2, <3>4
  <2>3. QED BY <2>1, <2>2
<1>13. ASSUME NEW d \in Client PROVE Excused(d, panicked[d])'
  <2>1. \A x \in Id : req[x] # None => req'[x] = req[x] BY <1>3, <1>4
  <2>2. (Expired(d) => Expired(d)') /\ (Early(d) => Early(d)')
    BY <1>2, <1>6, <2>1 DEF Expired, Early
  <2>3. Excused(d, panicked[d]) BY DEF PanicInv
  <2>4. QED BY <1>2, <2>2, <2>3 DEF Excused
<1>14. QED
  BY <1>2, <1>5, <1>7, <1>8, <1>10, <1>11, <1>12, <1>13 DEF PanicInv

\* handleResponse, Start, CallRPC: for any number of clients, calls and faults,
\* a client dies of a channel only when a context of one of its calls expired or
\* when it called before Start; of a nil channel or response only in that case.
THEOREM PanicsHaveACause == Spec => []PanicNeedsExpiryOrEarlyCall
<1>1. Init => PanicInv
  <2> SUFFICES ASSUME Init PROVE PanicInv OBVIOUS
  <2> USE DEF Init, InitWith
  <2>1. PendingOK /\ ClosedOK /\ FailedOK BY DEF PendingOK, ClosedOK, FailedOK
  <2>2. EarlyOK /\ GoingOK BY DEF EarlyOK, GoingOK, Going
  <2>3. \A c \in Client : Excused(c, panicked[c]) BY DEF Excused
  <2>4. QED BY <2>1, <2>2, <2>3 DEF PanicInv
<1>2. Inv /\ PanicInv /\ [Next]_vars => PanicInv'
  <2> SUFFICES ASSUME Inv, PanicInv, [Next]_vars PROVE PanicInv' OBVIOUS
  <2>1. CASE UNCHANGED vars
    <3>1. UNCHANGED <<req, pc, pending, closed, panicked, setup>>
      BY <2>1 DEF vars, setupVars, callVars, mapVars
    <3>2. QED BY <3>1, CalmIsCareful, CarefulKeeps DEF PanicInv
  <2>2. ASSUME NEW c \in Client, ClientStep(c) PROVE PanicInv'
    BY <2>2, ClientIsCareful, BeginKeepsPanic, CarefulKeeps DEF ClientStep
  <2>3. ASSUME NEW r \in Id, CallStep(r) PROVE PanicInv'
    BY <2>3, CallIsCareful, CarefulKeeps
  <2>4. QED BY <2>1, <2>2, <2>3 DEF Next
<1>3. PanicInv => PanicNeedsExpiryOrEarlyCall
  <2> SUFFICES ASSUME PanicInv, NEW c \in Client
               PROVE  LET mine == {r \in Id : req[r] # None /\ req[r].from = c} IN
                      /\ panicked[c] = "send on closed channel" =>
                           mine \cap (expired \cup early) # {}
                      /\ panicked[c] \in {"nil response", "close of nil channel"} =>
                           mine \cap early # {}
    BY DEF PanicNeedsExpiryOrEarlyCall
  <2>1. Excused(c, panicked[c]) BY DEF PanicInv
  <2>2. QED BY <2>1 DEF Excused, Expired, Early
<1>4. QED BY <1>1, <1>2, <1>3, RpcInvariant, PTL DEF Spec

-----------------------------------------------------------------------------
(* What the JSON codec carries.                                            *)

\* The fields that x set, else those of y.
Merge(x, y, zero) == [f \in DOMAIN x |-> IF x[f] # zero[f] THEN x[f] ELSE y[f]]

\* Decoding into y what was encoded from x.
LEMMA TakePut ==
  ASSUME NEW x, NEW y, NEW zero, DOMAIN y = DOMAIN x
  PROVE  Take(y, Put(x, zero)) = Merge(x, y, zero)
<1> DEFINE doc == Put(x, zero)
<1>1. /\ DOMAIN doc = {f \in DOMAIN x : x[f] # zero[f]}
      /\ \A f \in DOMAIN doc : doc[f] = x[f]
  BY DEF Put
<1> HIDE DEF doc
<1>2. \A f \in DOMAIN x : (IF f \in DOMAIN doc THEN doc[f] ELSE y[f])
                            = (IF x[f] # zero[f] THEN x[f] ELSE y[f])
  BY <1>1
<1>3. Take(y, doc) = [f \in DOMAIN x |-> IF x[f] # zero[f] THEN x[f] ELSE y[f]]
  BY <1>2 DEF Take
<1>4. QED BY <1>3 DEF doc, Merge

\* A message decodes to itself when it is decoded into a new object.
LEMMA TakePutZero ==
  ASSUME NEW x, NEW zero, DOMAIN zero = DOMAIN x, x = [f \in DOMAIN x |-> x[f]]
  PROVE  Take(zero, Put(x, zero)) = x
<1>1. \A f \in DOMAIN x : (IF x[f] # zero[f] THEN x[f] ELSE zero[f]) = x[f]
  OBVIOUS
<1>2. Merge(x, zero, zero) = x BY <1>1 DEF Merge
<1>3. Take(zero, Put(x, zero)) = Merge(x, zero, zero) BY TakePut
<1>4. QED BY <1>2, <1>3

\* A reply does: startElection and sendLeaderHeartbeats decode into new ones.
LEMMA ReplyRoundTrip ==
  ASSUME NEW m \in Method, NEW rep \in ReplyOf(m)
  PROVE  UnmarshalReply(m, MarshalReply(m, rep)) = rep
<1>2. CASE m = RequestVote
  <2>1. rep \in [term : Nat, voteGranted : BOOLEAN] BY <1>2 DEF ReplyOf
  <2>2. DOMAIN rep = {"term", "voteGranted"} /\ rep = [f \in DOMAIN rep |-> rep[f]]
    BY <2>1, SMT
  <2>3. DOMAIN ZeroRequestVoteReply = DOMAIN rep BY <2>2, SMT DEF ZeroRequestVoteReply
  <2>4. QED
    BY <1>2, <2>2, <2>3, TakePutZero DEF UnmarshalReply, MarshalReply,
       UnmarshalRequestVoteReply, MarshalRequestVoteReply
<1>3. CASE m = AppendEntries
  <2>0. m # RequestVote BY <1>3 DEF RequestVote, AppendEntries
  <2>1. rep \in [term : Nat, success : BOOLEAN, matchIndex : Nat]
    BY <2>0 DEF ReplyOf
  <2>2. /\ DOMAIN rep = {"term", "success", "matchIndex"}
        /\ rep = [f \in DOMAIN rep |-> rep[f]]
    BY <2>1, SMT
  <2>3. DOMAIN ZeroAppendEntriesReply = DOMAIN rep
    BY <2>2, SMT DEF ZeroAppendEntriesReply
  <2>4. QED
    BY <2>0, <2>2, <2>3, TakePutZero DEF UnmarshalReply, MarshalReply,
       UnmarshalAppendEntriesReply, MarshalAppendEntriesReply
<1>4. QED BY <1>2, <1>3 DEF Method

\* So does an entry.
LEMMA EntryRoundTrip ==
  ASSUME NEW e \in [command : STRING, term : Nat]
  PROVE  UnmarshalLogEntry(ZeroLogEntry, MarshalLogEntry(e)) = e
<1>1. DOMAIN e = {"command", "term"} /\ e = [f \in DOMAIN e |-> e[f]] BY SMT
<1>2. DOMAIN ZeroLogEntry = DOMAIN e BY <1>1, SMT DEF ZeroLogEntry
<1>3. QED BY <1>1, <1>2, TakePutZero DEF UnmarshalLogEntry, MarshalLogEntry

\* Decoding a request into the object y of its method: entries are appended to
\* those of y, and of the other fields those at zero keep what y had.
VoteDecoded(y, x, u) ==
  /\ u \in RequestOf(RequestVote)
  /\ "entries" \notin DOMAIN x
  /\ \A f \in DOMAIN x : u[f] = IF x[f] # Zero(RequestVote, f) THEN x[f] ELSE y[f]

EntriesDecoded(y, x, u) ==
  /\ u \in RequestOf(AppendEntries)
  /\ u.entries = y.entries \o x.entries
  /\ x.entries \in Seq([command : STRING, term : Nat])
  /\ y.entries \in Seq([command : STRING, term : Nat])
  /\ \A f \in DOMAIN x \ {"entries"} :
       u[f] = IF x[f] # Zero(AppendEntries, f) THEN x[f] ELSE y[f]

LEMMA DecodeVote ==
  ASSUME NEW y \in RequestOf(RequestVote), NEW x \in RequestOf(RequestVote)
  PROVE  VoteDecoded(y, x, UnmarshalParams(RequestVote, y, x))
<1> DEFINE u == UnmarshalParams(RequestVote, y, x)
           F == {"term", "candidateId", "lastLogIndex", "lastLogTerm", "isLogStored"}
<1>1. /\ x \in [term : Nat, candidateId : STRING, lastLogIndex : Nat,
                lastLogTerm : Nat, isLogStored : BOOLEAN]
      /\ y \in [term : Nat, candidateId : STRING, lastLogIndex : Nat,
                lastLogTerm : Nat, isLogStored : BOOLEAN]
  BY DEF RequestOf
<1>2. DOMAIN x = F /\ DOMAIN y = F BY <1>1, SMT
<1>3. u = [f \in F |-> IF x[f] # ZeroRequestVoteRequest[f] THEN x[f] ELSE y[f]]
  <2>1. Take(y, Put(x, ZeroRequestVoteRequest)) = Merge(x, y, ZeroRequestVoteRequest)
    BY <1>2, TakePut
  <2>2. QED
    BY <1>2, <2>1
    DEF Merge, UnmarshalParams, UnmarshalRequestVoteRequest, MarshalRequestVoteRequest
<1>4. \A f \in F : u[f] = IF x[f] # Zero(RequestVote, f) THEN x[f] ELSE y[f]
  BY <1>3 DEF Zero, ZeroRequest
<1>5. /\ u.term \in Nat /\ u.candidateId \in STRING /\ u.lastLogIndex \in Nat
      /\ u.lastLogTerm \in Nat /\ u.isLogStored \in BOOLEAN
  BY <1>1, <1>3, SMT
<1>6. u \in RequestOf(RequestVote)
  <2>1. u = [f \in F |-> u[f]] BY <1>3
  <2> HIDE DEF u
  <2>2. u = [term |-> u.term, candidateId |-> u.candidateId,
             lastLogIndex |-> u.lastLogIndex, lastLogTerm |-> u.lastLogTerm,
             isLogStored |-> u.isLogStored]
    BY <2>1, SMT
  <2>3. QED BY <1>5, <2>2, SMT DEF RequestOf
<1> HIDE DEF u
<1>7. VoteDecoded(y, x, u) BY <1>2, <1>4, <1>6 DEF VoteDecoded
<1>8. QED BY <1>7 DEF u

LEMMA SeqFacts ==
  ASSUME NEW S, NEW s \in Seq(S), NEW t \in Seq(S)
  PROVE  /\ DOMAIN s = {} => s = <<>>
         /\ s \o t \in Seq(S) /\ Len(s) \in Nat /\ Len(s \o t) = Len(s) + Len(t)
         /\ SubSeq(s \o t, Len(s) + 1, Len(s \o t)) = t
<1>1. DOMAIN s = 1..Len(s) /\ Len(s) \in Nat /\ s \in [1..Len(s) -> S]
  BY LenProperties
<1>3. DOMAIN s = {} => s = <<>> BY <1>1, EmptySeq, SMT
<1>4. /\ s \o t \in Seq(S) /\ Len(s \o t) = Len(s) + Len(t)
      /\ \A i \in 1..(Len(s) + Len(t)) :
           (s \o t)[i] = IF i <= Len(s) THEN s[i] ELSE t[i - Len(s)]
  BY ConcatProperties, SMT
<1>5. SubSeq(s \o t, Len(s) + 1, Len(s \o t)) = t
  <2> DEFINE w == s \o t
             v == SubSeq(w, Len(s) + 1, Len(s) + Len(t))
  <2>1. t \in Seq(S) /\ Len(t) \in Nat /\ t \in [1..Len(t) -> S] BY LenProperties
  <2>2. /\ w \in Seq(S) /\ Len(w) = Len(s) + Len(t)
        /\ \A i \in 1..Len(t) : w[Len(s) + i] = t[i]
    BY <1>1, <1>4, <2>1, SMT
  <2> HIDE DEF w
  <2>3. /\ v \in Seq(S) /\ Len(v) = Len(t)
        /\ \A i \in 1..Len(t) : v[i] = w[Len(s) + i]
    BY <1>1, <2>1, <2>2, SMT
  <2> HIDE DEF v
  <2>4. v = t
    <3>1. \A i \in 1..Len(t) : v[i] = t[i] BY <2>2, <2>3
    <3>2. QED BY <2>1, <2>3, <3>1, SeqEqual
  <2>5. QED BY <1>4, <2>4 DEF v, w
<1>6. QED BY <1>1, <1>3, <1>4, <1>5

LEMMA DecodeEntries ==
  ASSUME NEW y \in RequestOf(AppendEntries), NEW x \in RequestOf(AppendEntries)
  PROVE  EntriesDecoded(y, x, UnmarshalParams(AppendEntries, y, x))
<1> DEFINE F == {"term", "leaderId", "prevLogIndex", "prevLogTerm", "entries",
                 "leaderCommit", "followerHasEntries", "leaderHasComitted"}
           Z == ZeroAppendEntriesRequest
           E == [i \in DOMAIN x.entries |-> MarshalLogEntry(x.entries[i])]
           x1 == [x EXCEPT !.entries = E]
           doc == Put(x1, Z)
           new == IF "entries" \in DOMAIN doc
                  THEN [i \in DOMAIN doc.entries |->
                          UnmarshalLogEntry(ZeroLogEntry, doc.entries[i])]
                  ELSE <<>>
           u == UnmarshalParams(AppendEntries, y, x)
<1>0. AppendEntries # RequestVote BY DEF AppendEntries, RequestVote
<1> DEFINE R == [term : Nat, leaderId : STRING, prevLogIndex : Nat, prevLogTerm : Nat,
                 entries : Seq([command : STRING, term : Nat]), leaderCommit : Nat,
                 followerHasEntries : BOOLEAN, leaderHasComitted : BOOLEAN]
<1>1. x \in R /\ y \in R BY <1>0 DEF RequestOf
<1>2. /\ DOMAIN x = F /\ DOMAIN y = F
      /\ x.entries \in Seq([command : STRING, term : Nat])
      /\ y.entries \in Seq([command : STRING, term : Nat])
  BY <1>1, SMT
<1>a. /\ x.entries = [i \in DOMAIN x.entries |-> x.entries[i]]
      /\ \A i \in DOMAIN x.entries : x.entries[i] \in [command : STRING, term : Nat]
      /\ DOMAIN x.entries = {} => x.entries = <<>>
      /\ y.entries \o x.entries \in Seq([command : STRING, term : Nat])
  <2> DEFINE L == [command : STRING, term : Nat]
  <2>1. PICK s : s = x.entries OBVIOUS
  <2>2. PICK t : t = y.entries OBVIOUS
  <2>3. s \in Seq(L) /\ t \in Seq(L) BY <1>2, <2>1, <2>2
  <2> HIDE DEF L
  <2>4. /\ s = [i \in DOMAIN s |-> s[i]] /\ \A i \in DOMAIN s : s[i] \in L
        /\ DOMAIN s = {} => s = <<>>
    <3>1. DOMAIN s = 1..Len(s) /\ s \in [1..Len(s) -> L] BY <2>3, LenProperties
    <3>2. DOMAIN s = {} => s = <<>> BY <2>3, SeqFacts
    <3>3. QED BY <3>1, <3>2
  <2>5. t \o s \in Seq(L) BY <2>3, SeqFacts
  <2>6. QED BY <2>1, <2>2, <2>4, <2>5 DEF L
<1>3. DOMAIN x1 = F /\ x1.entries = E /\ \A f \in F \ {"entries"} : x1[f] = x[f]
  BY <1>2
<1>4. u = [Take(y, doc) EXCEPT !.entries = y.entries \o new]
  BY <1>0 DEF UnmarshalParams, UnmarshalAppendEntriesRequest,
     MarshalAppendEntriesRequest
<1>5. new = x.entries
  <2>1. Z.entries = <<>> BY DEF ZeroAppendEntriesRequest
  <2>2. /\ "entries" \in DOMAIN doc <=> E # <<>>
        /\ "entries" \in DOMAIN doc => doc.entries = E
    BY <1>3, <2>1 DEF Put
  <2>4. \A i \in DOMAIN x.entries : UnmarshalLogEntry(ZeroLogEntry, E[i]) = x.entries[i]
    BY <1>a, EntryRoundTrip
  <2>5. DOMAIN E = DOMAIN x.entries OBVIOUS
  <2> HIDE DEF doc, E, Z
  <2>6. CASE "entries" \in DOMAIN doc
    <3>1. new = [i \in DOMAIN E |-> UnmarshalLogEntry(ZeroLogEntry, E[i])]
      BY <2>2, <2>6
    <3>2. QED BY <1>a, <2>4, <2>5, <3>1
  <2>7. CASE "entries" \notin DOMAIN doc
    <3>1. new = <<>> /\ E = <<>> BY <2>2, <2>7
    <3>2. DOMAIN x.entries = {} BY <2>5, <3>1, SMT
    <3>3. x.entries = <<>> BY <1>a, <3>2
    <3>4. QED BY <3>1, <3>3
  <2>8. QED BY <2>6, <2>7
<1>6. Take(y, doc) = Merge(x1, y, Z)
  <2> HIDE DEF x1, Z
  <2>1. QED BY <1>2, <1>3, TakePut
<1>7. /\ DOMAIN Take(y, doc) = F
      /\ \A f \in F \ {"entries"} :
           Take(y, doc)[f] = IF x[f] # Z[f] THEN x[f] ELSE y[f]
  <2> HIDE DEF x1, Z, doc
  <2>1. QED BY <1>3, <1>6 DEF Merge
<1>8. /\ u = [f \in F |-> u[f]] /\ u.entries = y.entries \o x.entries
      /\ \A f \in F \ {"entries"} : u[f] = IF x[f] # Z[f] THEN x[f] ELSE y[f]
  <2> DEFINE t == Take(y, doc)
             e == y.entries \o new
  <2>1. u = [t EXCEPT !.entries = e] BY <1>4
  <2>2. DOMAIN t = F BY <1>7
  <2>3. \A f \in F \ {"entries"} : t[f] = IF x[f] # Z[f] THEN x[f] ELSE y[f] BY <1>7
  <2> HIDE DEF new
  <2>4. e = y.entries \o x.entries BY <1>5
  <2> HIDE DEF t, e, u, Z
  <2>5. QED BY <2>1, <2>2, <2>3, <2>4
<1> HIDE DEF u, Z
<1>9. \A f \in F \ {"entries"} :
        u[f] = IF x[f] # Zero(AppendEntries, f) THEN x[f] ELSE y[f]
  BY <1>0, <1>8 DEF Zero, ZeroRequest, Z
<1>10. u.entries \in Seq([command : STRING, term : Nat])
  BY <1>8, <1>a
<1>11. /\ u.term \in Nat /\ u.leaderId \in STRING /\ u.prevLogIndex \in Nat
       /\ u.prevLogTerm \in Nat /\ u.leaderCommit \in Nat
       /\ u.followerHasEntries \in BOOLEAN /\ u.leaderHasComitted \in BOOLEAN
  <2>1. \A z \in R : /\ z.term \in Nat /\ z.leaderId \in STRING /\ z.prevLogIndex \in Nat
                     /\ z.prevLogTerm \in Nat /\ z.leaderCommit \in Nat
                     /\ z.followerHasEntries \in BOOLEAN
                     /\ z.leaderHasComitted \in BOOLEAN
    BY SMT
  <2> HIDE DEF R
  <2>2. \A f \in F \ {"entries"} : u[f] = x[f] \/ u[f] = y[f] BY <1>8
  <2>3. QED BY <1>1, <2>1, <2>2
<1>12. u \in RequestOf(AppendEntries)
  <2>1. u = [term |-> u.term, leaderId |-> u.leaderId, prevLogIndex |-> u.prevLogIndex,
             prevLogTerm |-> u.prevLogTerm, entries |-> u.entries,
             leaderCommit |-> u.leaderCommit,
             followerHasEntries |-> u.followerHasEntries,
             leaderHasComitted |-> u.leaderHasComitted]
    BY <1>8, SMT
  <2>2. u \in R BY <1>10, <1>11, <2>1, SMT
  <2>3. QED BY <1>0, <2>2 DEF RequestOf
<1>13. EntriesDecoded(y, x, u) BY <1>2, <1>8, <1>9, <1>12 DEF EntriesDecoded
<1>14. QED BY <1>13 DEF u

\* Message u of method m is what decoding x into y leaves.
Decoded(m, y, x, u) ==
  /\ u \in RequestOf(m)
  /\ \A f \in DOMAIN x \ {"entries"} : u[f] = IF x[f] # Zero(m, f) THEN x[f] ELSE y[f]
  /\ "entries" \in DOMAIN x =>
       \E k \in 0..Len(u.entries) :
         x.entries = SubSeq(u.entries, k + 1, Len(u.entries))

\* The two methods together.
LEMMA Decode ==
  ASSUME NEW m \in Method, NEW y \in RequestOf(m), NEW x \in RequestOf(m), NEW u,
         u = UnmarshalParams(m, y, x)
  PROVE  Decoded(m, y, x, u)
<1>1. CASE m = RequestVote
  <2>1. /\ u \in RequestOf(m) /\ "entries" \notin DOMAIN x
        /\ \A f \in DOMAIN x : u[f] = IF x[f] # Zero(m, f) THEN x[f] ELSE y[f]
    <3>1. VoteDecoded(y, x, u) BY <1>1, DecodeVote
    <3>2. QED BY <1>1, <3>1 DEF VoteDecoded
  <2>2. QED BY <2>1 DEF Decoded
<1>2. CASE m = AppendEntries
  <2>1. /\ u \in RequestOf(m) /\ u.entries = y.entries \o x.entries
        /\ x.entries \in Seq([command : STRING, term : Nat])
        /\ y.entries \in Seq([command : STRING, term : Nat])
        /\ \A f \in DOMAIN x \ {"entries"} :
             u[f] = IF x[f] # Zero(m, f) THEN x[f] ELSE y[f]
    <3>1. EntriesDecoded(y, x, u) BY <1>2, DecodeEntries
    <3>2. QED BY <1>2, <3>1 DEF EntriesDecoded
  <2>2. \E k \in 0..Len(u.entries) :
          x.entries = SubSeq(u.entries, k + 1, Len(u.entries))
    <3>0. PICK S : S = [command : STRING, term : Nat] OBVIOUS
    <3>1. PICK s \in Seq(S), t \in Seq(S) : s = y.entries /\ t = x.entries BY <2>1, <3>0
    <3>2. /\ Len(s) \in Nat /\ Len(t) \in Nat /\ Len(s \o t) = Len(s) + Len(t)
          /\ SubSeq(s \o t, Len(s) + 1, Len(s \o t)) = t
      <4>1. Len(t) \in Nat BY SeqFacts
      <4>2. QED BY <4>1, SeqFacts
    <3>3. Len(s) \in 0..Len(s \o t) BY <3>2, SMT
    <3>4. u.entries = s \o t BY <2>1, <3>1
    <3>5. QED BY <3>1, <3>2, <3>3, <3>4
  <2>3. QED BY <2>1, <2>2 DEF Decoded
<1>3. QED BY <1>1, <1>2 DEF Method

\* A request and the zero request of its method have the same fields.
LEMMA RequestFields ==
  ASSUME NEW m \in Method
  PROVE  /\ ZeroRequest(m) \in RequestOf(m)
         /\ \A x \in RequestOf(m) : DOMAIN x = DOMAIN ZeroRequest(m)
<1>1. CASE m = RequestVote
  <2>1. ZeroRequest(m) \in RequestOf(m)
    <3>1. "" \in STRING /\ 0 \in Nat /\ FALSE \in BOOLEAN BY StringAssumption
    <3>2. QED BY <1>1, <3>1 DEF ZeroRequest, RequestOf, ZeroRequestVoteRequest
  <2>2. \A x \in RequestOf(m) : DOMAIN x = {"term", "candidateId", "lastLogIndex",
                                            "lastLogTerm", "isLogStored"}
    BY <1>1, SMT DEF RequestOf
  <2>3. QED BY <2>1, <2>2
<1>2. CASE m = AppendEntries
  <2>0. m # RequestVote BY <1>2 DEF AppendEntries, RequestVote
  <2>1. ZeroRequest(m) \in RequestOf(m)
    <3>1. "" \in STRING /\ 0 \in Nat /\ FALSE \in BOOLEAN BY StringAssumption
    <3>2. <<>> \in Seq([command : STRING, term : Nat]) BY EmptySeq
    <3>3. QED BY <2>0, <3>1, <3>2 DEF ZeroRequest, RequestOf, ZeroAppendEntriesRequest
  <2>2. \A x \in RequestOf(m) :
          DOMAIN x = {"term", "leaderId", "prevLogIndex", "prevLogTerm", "entries",
                      "leaderCommit", "followerHasEntries", "leaderHasComitted"}
    BY <2>0, SMT DEF RequestOf
  <2>3. QED BY <2>1, <2>2
<1>3. QED BY <1>1, <1>2 DEF Method

-----------------------------------------------------------------------------
(* What handlers and callers see.                                          *)

\* A result is an encoded reply of the method that was called.
Replied(s) ==
  s.answer # None /\ s.answer.code = 0 =>
    \E rep \in Replies[req[s.id].method] :
      s.answer.result = MarshalReply(req[s.id].method, rep)

\* Field f of the object of method m is zero or was left by a request served.
Remembers(c, m, f) ==
  \/ object[c][m][f] = Zero(m, f)
  \/ \E o \in served : /\ o.by = c /\ o.saw # None /\ req[o.id].method = m
                       /\ object[c][m][f] = req[o.id].params[f]

\* A request is a message of its method.
Asked ==
  \A r \in Id :
    req[r] # None => /\ req[r].method \in Method
                     /\ req[r].params \in RequestOf(req[r].method) \cup {NoParams}

DataInv ==
  /\ Asked
  /\ object = [c \in Client |-> [m \in Method |-> object[c][m]]]
  /\ \A c \in Client, m \in Method :
       /\ object[c][m] \in RequestOf(m)
       /\ \A f \in DOMAIN ZeroRequest(m) \ {"entries"} : Remembers(c, m, f)
  /\ \A s \in served : (s.saw # None => Sees(s)) /\ Replied(s)

\* Only HandleRequest touches the objects.
LEMMA ObjectSteps ==
  ASSUME Inv, [Next]_vars
  PROVE  \/ UNCHANGED <<object, served>>
         \/ \E c \in Client : HandleRequest(c)
<1>1. UNCHANGED object \/ \E c \in Client : HandleRequest(c)
  <2>1. ASSUME NEW c \in Client, ClientStep(c) PROVE UNCHANGED object \/ HandleRequest(c)
    BY <2>1 DEF ClientStep, Start, RegisterProtoHandler, Disconnect, RegistryRace,
       LookupPending, SendResponse, Begin
  <2>2. ASSUME NEW r \in Id, CallStep(r) PROVE UNCHANGED object
    BY <2>2 DEF CallStep, SubscribeResponses, PublishRequest, ReceiveAnswer,
       CallTimesOut, ReadBroadcast, Expire, CleanupBroadcast, Unsubscribe
  <2>3. CASE UNCHANGED vars BY <2>3 DEF vars
  <2>4. QED BY <2>1, <2>2, <2>3 DEF Next
<1>2. QED BY <1>1, ServedSteps

LEMMA DataInit == Init => DataInv
<1> SUFFICES ASSUME Init PROVE DataInv
  OBVIOUS
<1>1. Asked BY DEF Init, InitWith, Asked
<1>2. object = [c \in Client |-> [m \in Method |-> ZeroRequest(m)]] BY DEF Init, InitWith
<1>3. \A c \in Client, m \in Method : object[c][m] = ZeroRequest(m) BY <1>2
<1>4. object = [c \in Client |-> [m \in Method |-> object[c][m]]] BY <1>2, <1>3
<1>5. \A c \in Client, m \in Method :
        /\ object[c][m] \in RequestOf(m)
        /\ \A f \in DOMAIN ZeroRequest(m) \ {"entries"} : Remembers(c, m, f)
  BY <1>3, RequestFields DEF Remembers, Zero
<1>6. \A s \in served : (s.saw # None => Sees(s)) /\ Replied(s) BY DEF Init, InitWith
<1>7. QED BY <1>1, <1>4, <1>5, <1>6 DEF DataInv

\* A call asks one of Requests, and what is asked is not changed.
LEMMA AskedKept == ASSUME Inv, Asked, [Next]_vars PROVE Asked'
<1>1. ASSUME NEW c \in Client, NEW r \in Id, Begin(c, r) PROVE Asked'
  <2>0. req \in [Id -> Question \cup {None}] BY DEF Inv, CallInv
  <2>1. PICK q \in Requests :
          \E to : req' = [req EXCEPT ![r] = [from |-> c, to |-> to, method |-> q.method,
                                             params |-> q.params]]
    BY <1>1 DEF Begin
  <2>a. PICK to : req' = [req EXCEPT ![r] = [from |-> c, to |-> to, method |-> q.method,
                                             params |-> q.params]]
    BY <2>1
  <2> DEFINE x == [from |-> c, to |-> to, method |-> q.method, params |-> q.params]
  <2>2. x.method = q.method /\ x.params = q.params OBVIOUS
  <2>3. x.method \in Method /\ x.params \in RequestOf(x.method) \cup {NoParams}
    BY <2>2, MessageAssumption
  <2>4. req'[r] = x /\ \A t \in Id \ {r} : req'[t] = req[t] BY <2>0, <2>a
  <2> HIDE DEF x
  <2>5. \A t \in Id : req'[t] # None =>
          req'[t].method \in Method /\ req'[t].params \in RequestOf(req'[t].method) \cup {NoParams}
    BY <2>3, <2>4 DEF Asked
  <2>6. QED BY <2>5 DEF Asked, RequestOf, NoParams
<1>2. UNCHANGED req \/ \E c \in Client, r \in Id : Begin(c, r)
  <2>1. ASSUME NEW c \in Client, ClientStep(c)
        PROVE  UNCHANGED req \/ \E r \in Id : Begin(c, r)
    BY <2>1 DEF ClientStep, Start, RegisterProtoHandler, Disconnect, RegistryRace,
       LookupPending, SendResponse, HandleRequest, callVars
  <2>2. ASSUME NEW r \in Id, CallStep(r) PROVE UNCHANGED req
    BY <2>2 DEF CallStep, SubscribeResponses, PublishRequest, ReceiveAnswer,
       CallTimesOut, ReadBroadcast, Expire, CleanupBroadcast, Unsubscribe, callVars
  <2>3. CASE UNCHANGED vars BY <2>3 DEF vars, callVars
  <2>4. QED BY <2>1, <2>2, <2>3 DEF Next
<1>3. CASE UNCHANGED req BY <1>3 DEF Asked, RequestOf, NoParams
<1>4. QED BY <1>1, <1>2, <1>3

\* What was served is not changed either.
LEMMA RunsKept ==
  ASSUME Inv, [Next]_vars
  PROVE  /\ \A s \in served : s \in served' /\ req'[s.id] = req[s.id]
         /\ \A s \in served : (Sees(s) => Sees(s)') /\ (Replied(s) => Replied(s)')
<1>1. \A s \in served : s \in served' /\ req'[s.id] = req[s.id]
  BY ServedGrows, CallOfKept DEF Inv, ServedInv
<1>2. \A c, m, r, f, v : Left(c, m, r, f, v) => Left(c, m, r, f, v)'
  BY <1>1 DEF Left
<1>3. ASSUME NEW s \in served, Sees(s) PROVE Sees(s)'
  <2>1. req'[s.id] = req[s.id] BY <1>1
  <2>2. QED BY <1>2, <1>3, <2>1 DEF Sees, Zero, ZeroRequest
<1>4. ASSUME NEW s \in served, Replied(s) PROVE Replied(s)'
  <2>1. req'[s.id] = req[s.id] BY <1>1
  <2>2. QED BY <1>4, <2>1 DEF Replied, MarshalReply
<1>5. QED BY <1>1, <1>3, <1>4

\* The object of a method remembers, whoever else is served.
LEMMA RemembersKept ==
  ASSUME Inv, [Next]_vars, NEW c \in Client, NEW m \in Method,
         object'[c][m] = object[c][m]
  PROVE  \A f : Remembers(c, m, f) => Remembers(c, m, f)'
<1>1. \A s \in served : s \in served' /\ req'[s.id] = req[s.id] BY RunsKept
<1>2. QED BY <1>1 DEF Remembers, Zero, ZeroRequest

\* A handler of client c that decoded request r, of parameters x, has args.
Handed(c, r, m, x, args) ==
  /\ m \in Method /\ x \in RequestOf(m) /\ args \in RequestOf(m)
  /\ DOMAIN x = DOMAIN ZeroRequest(m)
  /\ "entries" \in DOMAIN x =>
       \E k \in 0..Len(args.entries) :
         x.entries = SubSeq(args.entries, k + 1, Len(args.entries))
  /\ \A f \in DOMAIN x \ {"entries"} :
       /\ x[f] # Zero(m, f) => args[f] = x[f]
       /\ x[f] = Zero(m, f) =>
            args[f] = Zero(m, f) \/ Left(c, m, r, f, args[f])

LEMMA HandlerDecodes ==
  ASSUME Inv, DataInv, NEW c \in Client, NEW r \in Id, NEW m, NEW x, NEW args,
         req[r] # None, m = req[r].method, x = req[r].params, x # NoParams,
         ~Served(r, c), args = UnmarshalParams(m, object[c][m], x)
  PROVE  Handed(c, r, m, x, args)
<1>1. m \in Method /\ x \in RequestOf(m) BY DEF DataInv, Asked
<1>2. DOMAIN x = DOMAIN ZeroRequest(m) BY <1>1, RequestFields
<1>3. PICK y \in RequestOf(m) : y = object[c][m] BY <1>1 DEF DataInv
<1>4. args = UnmarshalParams(m, y, x) BY <1>3
<1>5. /\ args \in RequestOf(m)
      /\ \A f \in DOMAIN x \ {"entries"} :
           args[f] = IF x[f] # Zero(m, f) THEN x[f] ELSE y[f]
      /\ "entries" \in DOMAIN x =>
           \E k \in 0..Len(args.entries) :
             x.entries = SubSeq(args.entries, k + 1, Len(args.entries))
  <2>1. Decoded(m, y, x, args) BY <1>1, <1>4, Decode
  <2>2. QED BY <2>1 DEF Decoded
<1>6. \A f \in DOMAIN x \ {"entries"} : Remembers(c, m, f)
  BY <1>1, <1>2 DEF DataInv
<1>7. ASSUME NEW f \in DOMAIN x \ {"entries"}
      PROVE  /\ x[f] # Zero(m, f) => args[f] = x[f]
             /\ x[f] = Zero(m, f) =>
                  args[f] = Zero(m, f) \/ Left(c, m, r, f, args[f])
  <2>1. args[f] = IF x[f] # Zero(m, f) THEN x[f] ELSE y[f] BY <1>5
  <2>2. y[f] = Zero(m, f) \/ \E o \in served :
          /\ o.by = c /\ o.saw # None /\ req[o.id].method = m
          /\ y[f] = req[o.id].params[f]
    BY <1>3, <1>6 DEF Remembers
  <2>3. y[f] = Zero(m, f) \/ Left(c, m, r, f, y[f]) BY <2>2 DEF Served, Left
  <2>4. QED BY <2>1, <2>3
<1>8. QED BY <1>1, <1>2, <1>5, <1>7 DEF Handed

\* A handler keeps the invariant.
LEMMA HandlerKeepsData ==
  ASSUME Inv, DataInv, [Next]_vars, UNCHANGED req, NEW c \in Client, NEW r \in Id, NEW a,
         pc[r] \notin Fresh, ~Served(r, c), req[r].params # NoParams, Handler(c, r, a)
  PROVE  DataInv'
<1>0. PICK m, x : m = req[r].method /\ x = req[r].params OBVIOUS
<1>1. PICK args : args = UnmarshalParams(m, object[c][m], x) OBVIOUS
<1>2. PICK rep \in Replies[m] \cup {None} :
        /\ object' = [object EXCEPT ![c][m] = args]
        /\ a = IF rep = None THEN None ELSE Response(c, 0, MarshalReply(m, rep))
        /\ served' = served \cup {[id |-> r, by |-> c, saw |-> args, answer |-> a]}
  BY <1>0, <1>1 DEF Handler
<1>3. req[r] # None BY DEF Inv, CallInv, Fresh
<1>4. /\ m \in Method /\ x \in RequestOf(m) /\ args \in RequestOf(m)
      /\ DOMAIN x = DOMAIN ZeroRequest(m)
      /\ "entries" \in DOMAIN x =>
           \E k \in 0..Len(args.entries) :
             x.entries = SubSeq(args.entries, k + 1, Len(args.entries))
      /\ \A f \in DOMAIN x \ {"entries"} :
           /\ x[f] # Zero(m, f) => args[f] = x[f]
           /\ x[f] = Zero(m, f) =>
                args[f] = Zero(m, f) \/ Left(c, m, r, f, args[f])
  <2>1. Handed(c, r, m, x, args) BY <1>0, <1>1, <1>3, HandlerDecodes
  <2>2. QED BY <2>1 DEF Handed
<1> DEFINE h == [id |-> r, by |-> c, saw |-> args, answer |-> a]
<1>5. h.id = r /\ h.by = c /\ h.saw = args /\ h.answer = a OBVIOUS
<1>6. served' = served \cup {h} /\ args # None BY <1>2, <1>4, MessageAssumption
<1> HIDE DEF h
<1>7. \A s \in served : s \in served' /\ req'[s.id] = req[s.id] BY RunsKept
<1>8. Asked' BY AskedKept DEF DataInv
<1>9. /\ object'[c][m] = args
      /\ \A d \in Client, n \in Method :
           <<d, n>> # <<c, m>> => object'[d][n] = object[d][n]
      /\ object' = [d \in Client |-> [n \in Method |-> object'[d][n]]]
  <2>1. object = [d \in Client |-> [n \in Method |-> object[d][n]]] BY DEF DataInv
  <2>2. object' = [object EXCEPT ![c][m] = args] /\ c \in Client /\ m \in Method
    BY <1>2, <1>4
  <2>3. object'[c] = [object[c] EXCEPT ![m] = args] BY <2>1, <2>2
  <2>4. \A d \in Client : d # c => object'[d] = object[d] BY <2>1, <2>2
  <2>5. object[c] = [n \in Method |-> object[c][n]] BY <2>1
  <2>6. object'[c][m] = args /\ \A n \in Method : n # m => object'[c][n] = object[c][n]
    BY <2>2, <2>3, <2>5
  <2>7. object' = [d \in Client |-> [n \in Method |-> object'[d][n]]]
    <3>1. object' = [d \in Client |-> object'[d]] BY <2>1, <2>2
    <3>2. object'[c] = [n \in Method |-> object'[c][n]] BY <2>3, <2>5
    <3>3. \A d \in Client : object'[d] = [n \in Method |-> object'[d][n]]
      BY <2>1, <2>4, <3>2
    <3>4. QED BY <3>1, <3>3
  <2>8. QED BY <2>4, <2>6, <2>7
<1>10. Sees(h)'
  <2>1. req'[h.id].method = m /\ req'[h.id].params = x BY <1>0, <1>5
  <2>2. \A f, v : Left(c, m, r, f, v) => Left(c, m, r, f, v)' BY <1>7 DEF Left
  <2>3. QED BY <1>4, <1>5, <2>1, <2>2 DEF Sees, Zero, ZeroRequest
<1>11. Replied(h)'
  <2>1. CASE rep = None
    <3>1. h.answer = None BY <1>2, <1>5, <2>1
    <3>2. QED BY <3>1 DEF Replied
  <2>2. CASE rep # None
    <3>0. h.answer = Response(c, 0, MarshalReply(m, rep)) BY <1>2, <1>5, <2>2
    <3>a. \A v : Response(c, 0, v).result = v BY SMT DEF Response
    <3>1. h.answer.result = MarshalReply(m, rep) /\ rep \in Replies[m]
      BY <1>2, <2>2, <3>0, <3>a
    <3>2. req'[h.id].method = m BY <1>0, <1>5
    <3>3. QED BY <3>1, <3>2 DEF Replied, MarshalReply
  <2>3. QED BY <2>1, <2>2
<1>12. \A s \in served' : (s.saw # None => Sees(s)') /\ Replied(s)'
  <2>1. \A s \in served : (s.saw # None => Sees(s)') /\ Replied(s)'
    BY RunsKept DEF DataInv
  <2>2. QED BY <1>6, <1>10, <1>11, <2>1
<1>13. ASSUME NEW d \in Client, NEW n \in Method
       PROVE  /\ object'[d][n] \in RequestOf(n)
              /\ \A f \in DOMAIN ZeroRequest(n) \ {"entries"} : Remembers(d, n, f)'
  <2>1. CASE <<d, n>> # <<c, m>>
    <3>1. object'[d][n] = object[d][n] BY <1>9, <2>1
    <3>2. QED BY <3>1, RemembersKept DEF DataInv
  <2>2. CASE d = c /\ n = m
    <3>1. object'[d][n] \in RequestOf(n) BY <1>4, <1>9, <2>2
    <3>2. ASSUME NEW f \in DOMAIN ZeroRequest(n) \ {"entries"}
          PROVE  Remembers(d, n, f)'
      <4>1. CASE args[f] = Zero(m, f) BY <1>9, <2>2, <4>1 DEF Remembers, Zero, ZeroRequest
      <4>2. CASE args[f] = x[f]
        <5>1. req'[h.id].method = m /\ req'[h.id].params = x BY <1>0, <1>5
        <5>2. /\ h \in served' /\ h.by = c /\ h.saw # None
              /\ object'[c][m][f] = req'[h.id].params[f]
          BY <1>5, <1>6, <1>9, <4>2, <5>1
        <5>3. QED BY <2>2, <5>1, <5>2 DEF Remembers
      <4>3. CASE Left(c, m, r, f, args[f])
        <5>1. PICK o \in served : /\ o.by = c /\ o.saw # None /\ req[o.id].method = m
                                  /\ args[f] = req[o.id].params[f]
          BY <4>3 DEF Left
        <5>2. QED BY <1>7, <1>9, <2>2, <5>1 DEF Remembers
      <4>4. QED BY <1>4, <2>2, <4>1, <4>2, <4>3
    <3>3. QED BY <3>1, <3>2
  <2>3. QED BY <2>1, <2>2
<1>14. QED BY <1>8, <1>9, <1>12, <1>13 DEF DataInv, ZeroRequest, RequestOf

\* A step that neither decodes nor serves keeps it.
LEMMA IdleKeepsData ==
  ASSUME Inv, DataInv, [Next]_vars, UNCHANGED object,
         \A s \in served' \ served : s.saw = None /\ Replied(s)'
  PROVE  DataInv'
<1>1. Asked' BY AskedKept DEF DataInv
<1>2. object' = [c \in Client |-> [m \in Method |-> object'[c][m]]] BY DEF DataInv
<1>3. \A c \in Client, m \in Method :
        /\ object'[c][m] \in RequestOf(m)
        /\ \A f \in DOMAIN ZeroRequest(m) \ {"entries"} : Remembers(c, m, f)'
  BY RemembersKept DEF DataInv
<1>4. \A s \in served' : (s.saw # None => Sees(s)') /\ Replied(s)'
  BY RunsKept DEF DataInv
<1>5. QED BY <1>1, <1>2, <1>3, <1>4 DEF DataInv, ZeroRequest, RequestOf

LEMMA DataKept == ASSUME Inv, DataInv, [Next]_vars PROVE DataInv'
<1>1. CASE UNCHANGED <<object, served>> BY <1>1, IdleKeepsData
<1>2. ASSUME NEW c \in Client, HandleRequest(c) PROVE DataInv'
  <2>1. PICK m \in inbox, a \in Answers(c) :
          /\ m.to = c /\ m.body = None
          /\ \/ UNCHANGED <<object, served>>
             \/ \E k \in {404, 400} : a = Response(c, k, None) /\ Refuse(c, m.id, a)
             \/ req[m.id].params # NoParams /\ Handler(c, m.id, a)
    <3>1. PICK m \in inbox, a \in Answers(c) :
            /\ m.to = c /\ m.body = None
            /\ IF req[m.id].from = c THEN a = None /\ UNCHANGED <<object, served>>
               ELSE IF ~Registered(c, req[m.id].method)
                    THEN a = Response(c, 404, None) /\ Refuse(c, m.id, a)
               ELSE IF req[m.id].params = NoParams
                    THEN a = Response(c, 400, None) /\ Refuse(c, m.id, a)
               ELSE Handler(c, m.id, a)
      BY <1>2 DEF HandleRequest
    <3>2. \/ UNCHANGED <<object, served>>
          \/ \E k \in {404, 400} : a = Response(c, k, None) /\ Refuse(c, m.id, a)
          \/ req[m.id].params # NoParams /\ Handler(c, m.id, a)
      <4>1. CASE req[m.id].from = c BY <3>1, <4>1
      <4>2. CASE req[m.id].from # c /\ ~Registered(c, req[m.id].method) BY <3>1, <4>2
      <4>3. CASE /\ req[m.id].from # c /\ Registered(c, req[m.id].method)
                 /\ req[m.id].params = NoParams
        BY <3>1, <4>3
      <4>4. CASE /\ req[m.id].from # c /\ Registered(c, req[m.id].method)
                 /\ req[m.id].params # NoParams
        BY <3>1, <4>4
      <4>5. QED BY <4>1, <4>2, <4>3, <4>4
    <3>3. QED BY <3>1, <3>2
  <2>2. m.id \in Id /\ pc[m.id] \notin Fresh /\ ~Served(m.id, c)
    BY <2>1 DEF Inv, InboxInv
  <2>3. UNCHANGED req BY <1>2, HandleSteps
  <2>4. ASSUME NEW k, k # 0, a = Response(c, k, None), Refuse(c, m.id, a)
        PROVE  DataInv'
    <3> DEFINE h == [id |-> m.id, by |-> c, saw |-> None, answer |-> a]
    <3>1. h.saw = None /\ h.answer = a OBVIOUS
    <3>2. a.code = k BY <2>4 DEF Response
    <3>3. k # 0 BY <2>4
    <3>4. UNCHANGED object /\ served' = served \cup {h} BY <2>4 DEF Refuse
    <3> HIDE DEF h
    <3>5. Replied(h)' BY <3>1, <3>2, <3>3 DEF Replied
    <3>6. QED BY <3>1, <3>4, <3>5, IdleKeepsData
  <2>5. CASE req[m.id].params # NoParams /\ Handler(c, m.id, a)
    BY <2>2, <2>3, <2>5, HandlerKeepsData
  <2>6. CASE UNCHANGED <<object, served>> BY <1>1, <2>6
  <2>7. CASE \E k \in {404, 400} : a = Response(c, k, None) /\ Refuse(c, m.id, a)
    <3>1. PICK k \in {404, 400} : a = Response(c, k, None) /\ Refuse(c, m.id, a) BY <2>7
    <3>2. k # 0 BY <3>1, SMT
    <3>3. QED BY <2>4, <3>1, <3>2
  <2>8. QED BY <2>1, <2>5, <2>6, <2>7
<1>3. QED BY <1>1, <1>2, ObjectSteps

\* Requests are messages of their method, the objects hold what requests left in
\* them, handlers saw their requests and results are encoded replies.
THEOREM DataInvariant == Spec => []DataInv
<1>1. Init => DataInv BY DataInit
<1>2. Inv /\ DataInv /\ [Next]_vars => DataInv' BY DataKept
<1>3. QED BY <1>1, <1>2, RpcInvariant, PTL DEF Spec

\* makeProtoRPCHandler decodes into one object that nothing resets: a handler sees
\* every field its sender set, and at zero fields zero or what an earlier request
\* left there, for all messages, clients and interleavings.
THEOREM HandlersSeeTheirRequests == Spec => []HandlerSeesItsRequest
<1>1. DataInv => HandlerSeesItsRequest BY DEF DataInv, HandlerSeesItsRequest
<1>2. QED BY <1>1, DataInvariant, PTL

\* startElection and sendLeaderHeartbeats: a result that was read decodes to a reply
\* of a handler of the method that was called.
THEOREM CallersSeeReplies == Spec => []CallerSeesTheReply
<1>1. Inv /\ DataInv => CallerSeesTheReply
  <2> SUFFICES ASSUME Inv, DataInv, NEW r \in Id, NEW i \in DOMAIN got[r],
                      got[r][i].code = 0
               PROVE  UnmarshalReply(req[r].method, got[r][i].result)
                        \in Replies[req[r].method]
    BY DEF CallerSeesTheReply
  <2>1. got[r] \in Seq(Body) /\ \A j \in 1..Len(got[r]) : Given(r, got[r][j])
    BY DEF Inv, ReadInv
  <2>2. Given(r, got[r][i]) BY <2>1, LenProperties
  <2>3. PICK s \in served : s.id = r /\ s.answer = got[r][i] /\ s.answer # None
    BY <2>2 DEF Given
  <2>4. PICK m : m = req[r].method OBVIOUS
  <2>5. PICK rep \in Replies[m] : s.answer.result = MarshalReply(m, rep)
    BY <2>3, <2>4 DEF DataInv, Replied
  <2>6. m \in Method
    BY <2>3, <2>4 DEF Inv, ServedInv, CallInv, Fresh, DataInv, Asked
  <2>7. rep \in ReplyOf(m) BY <2>6, MessageAssumption
  <2>8. UnmarshalReply(m, MarshalReply(m, rep)) = rep BY <2>6, <2>7, ReplyRoundTrip
  <2>9. QED BY <2>3, <2>4, <2>5, <2>8
<1>2. QED BY <1>1, RpcInvariant, DataInvariant, PTL
=============================================================================
