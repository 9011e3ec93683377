------------------------------ MODULE RpcCalls ------------------------------
(***************************************************************************)
(* What a remote call promises the Raft node: a request is handled at most *)
(* once by each client it is meant for and never by its sender, and every  *)
(* response its caller reads is one that such a client gave to this very   *)
(* request, read at most once.  Nothing is promised to arrive.             *)
(***************************************************************************)
EXTENDS Naturals, Sequences

CONSTANTS Client, Id, Everyone, None

VARIABLES
  asked,    \* asked[r]: who sent request r to whom, or None
  handled,  \* [id, by, answer]: client by was done with request id
  read      \* read[r]: the responses the caller of r has read

vars == <<asked, handled, read>>

Init == asked = [r \in Id |-> None] /\ handled = {} /\ read = [r \in Id |-> <<>>]

Ask(r) ==
  /\ asked[r] = None
  /\ \E c \in Client : \E to \in (Client \ {c}) \cup {Everyone} :
       asked' = [asked EXCEPT ![r] = [from |-> c, to |-> to]]
  /\ UNCHANGED <<handled, read>>

\* The answer is None when the client keeps silent.
Handle(r, c) ==
  /\ asked[r] # None /\ asked[r].from # c /\ asked[r].to \in {c, Everyone}
  /\ \A h \in handled : ~(h.id = r /\ h.by = c)
  /\ \E h \in handled' :
       /\ h.id = r /\ h.by = c
       /\ h.answer # None => h.answer.from = c
       /\ handled' = handled \cup {h}
  /\ UNCHANGED <<asked, read>>

Read(r) ==
  /\ asked[r] # None
  /\ asked[r].to # Everyone => read[r] = <<>>
  /\ \E h \in handled :
       /\ h.id = r /\ h.answer # None
       /\ \A i \in DOMAIN read[r] : read[r][i].from # h.by
       /\ read' = [read EXCEPT ![r] = Append(@, h.answer)]
  /\ UNCHANGED <<asked, handled>>

Next == \E r \in Id : Ask(r) \/ Read(r) \/ \E c \in Client : Handle(r, c)

Spec == Init /\ [][Next]_vars
=============================================================================
