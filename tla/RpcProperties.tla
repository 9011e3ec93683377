--------------------------- MODULE RpcProperties ---------------------------
(***************************************************************************)
(* What the remote calls of module Rpc guarantee.                          *)
(***************************************************************************)
EXTENDS Rpc

Phase == {"unused", "subscribing", "publishing", "waiting", "returned", "failed", "expired"}

Calls ==
  INSTANCE RpcCalls WITH
    asked <- [r \in Id |-> IF req[r] = None THEN None
                           ELSE [from |-> req[r].from, to |-> req[r].to]],
    handled <- {[id |-> s.id, by |-> s.by, answer |-> s.answer] : s \in served},
    read <- got

\* CallRPC, BroadcastRPC, handleRequest and handleResponse together: a request
\* is handled at most once by each of its targets, and what a caller reads is
\* what a target answered to that request, whatever is lost, delayed, reordered
\* or times out.
ImplementsRpcCalls == Calls!Spec

Zero(m, f) == ZeroRequest(m)[f]

\* Value v of field f was left by an earlier request of the method to client c,
\* other than request r.
Left(c, m, r, f, v) ==
  \E o \in served : /\ o.by = c /\ o.id # r /\ o.saw # None
                    /\ req[o.id].method = m /\ v = req[o.id].params[f]

\* The handler run s saw its request.
Sees(s) ==
  LET m == req[s.id].method
      sent == req[s.id].params
  IN  /\ "entries" \in DOMAIN sent =>
           \E k \in 0..Len(s.saw.entries) :
             sent.entries = SubSeq(s.saw.entries, k + 1, Len(s.saw.entries))
      /\ \A f \in DOMAIN sent \ {"entries"} :
           /\ sent[f] # Zero(m, f) => s.saw[f] = sent[f]
           /\ sent[f] = Zero(m, f) =>
                s.saw[f] = Zero(m, f) \/ Left(s.by, m, s.id, f, s.saw[f])

\* makeProtoRPCHandler decodes every request of a method into one object, which
\* nothing resets: a handler sees every field its sender set, entries at the end
\* of those it already held; a field the sender left at zero shows zero or what
\* an earlier request of the method had put there.
HandlerSeesItsRequest == \A s \in served : s.saw # None => Sees(s)

\* What startElection or sendLeaderHeartbeats decodes from a result is a reply of
\* a handler of the method it called.
CallerSeesTheReply ==
  \A r \in Id : \A i \in DOMAIN got[r] :
    got[r][i].code = 0 =>
      UnmarshalReply(req[r].method, got[r][i].result) \in Replies[req[r].method]

\* handleResponse uses a channel after unlocking pendingMux, and Start closes
\* the channels of calls in progress: a client dies of a channel only if a
\* context of one of its calls expired, or if it called before Start.
PanicNeedsExpiryOrEarlyCall ==
  \A c \in Client :
    LET mine == {r \in Id : req[r] # None /\ req[r].from = c} IN
    /\ panicked[c] = "send on closed channel" => mine \cap (expired \cup early) # {}
    /\ panicked[c] \in {"nil response", "close of nil channel"} => mine \cap early # {}

Gone(r) == req[r] # None /\ panicked[req[r].from] # "no"

\* CallRPC and BroadcastRPC return, with a response or an error, unless the
\* client panics: each context has a timeout, and no lock is held for ever.
EveryCallReturns ==
  \A r \in Id : pc[r] # "unused" ~> pc[r] \in {"returned", "failed", "expired"} \/ Gone(r)

\* handleResponse blocks on the full channel of an error response, and with it
\* every later message of the client: room, or the panic that the end of the
\* context brings, always ends the wait.
DispatcherIsNotStuck ==
  \A c \in Client : taken[c] # None ~> taken[c] = None \/ panicked[c] # "no"

\* Once the context of a call is done its response topic is unsubscribed and its
\* channel leaves the pending map, except that CallRPC forgets neither a call
\* that was answered nor one it could not subscribe or publish, and BroadcastRPC
\* not one it could not subscribe.
ExpiredCallsAreForgotten ==
  \A r \in Id :
    r \in expired ~>
      \/ Gone(r)
      \/ /\ r \notin subscribed
         /\ \/ \A c \in Client : r \notin pending[c]
            \/ pc[r] = "failed"
            \/ pc[r] = "returned" /\ ~Broadcast(r)
=============================================================================
