--------------------------- MODULE SlotAllocator ---------------------------
(* What the Steampipe service promises about its install-dirs: a slot      *)
(* serves one query at a time and a query has one slot.  Any number of     *)
(* slots may be given back at once, as when the service restarts.          *)
CONSTANTS Requests, Slots, NoRequest

VARIABLE owner   \* the query each slot serves

Holders == {owner[s] : s \in Slots} \ {NoRequest}

Init == owner = [s \in Slots |-> NoRequest]

Acquire(q, s) ==
  /\ owner[s] = NoRequest
  /\ q \notin Holders
  /\ owner' = [owner EXCEPT ![s] = q]

Release(S) == owner' = [s \in Slots |-> IF s \in S THEN NoRequest ELSE owner[s]]

Next ==
  \/ \E q \in Requests, s \in Slots : Acquire(q, s)
  \/ \E S \in SUBSET Slots : Release(S)

Spec == Init /\ [][Next]_owner
=============================================================================
