-------------------------- MODULE MCFakeTransport --------------------------
(***************************************************************************)
(* Instances of module FakeTransport.                                      *)
(***************************************************************************)
EXTENDS FakeTransportProperties

\* Node 1 broadcasts while the harness works; or it calls node 2, and then calls
\* again, or node 2 calls it; or it commits an entry.  Node 2 may leak its mutex.
Plan ==
  LET used == {r \in Id : req[r] # None}
      Is(r, from, to) == req[r].from = from /\ req[r].to = to
  IN
  /\ used \in {{}, {1}, {1, 2}}
  /\ 1 \in used => Is(1, 1, Everyone) \/ Is(1, 1, 2)
  /\ 2 \in used => Is(1, 1, 2) /\ (Is(2, 1, 3) \/ Is(2, 2, 1))
  /\ leaked \subseteq {2}
  /\ unsent[2] + commits[2] + unsent[3] + commits[3] = 0
  /\ (unsent[1] + commits[1] > 0 => used = {})

MCSpec == Init /\ [][Next /\ Plan']_vars /\ Fairness
=============================================================================
