---------------------------- MODULE PageRequests ----------------------------
(***************************************************************************)
(* The requests a page of the browser has under way.  A page calls fetch   *)
(* and goes on when the answer comes, in whatever order the answers come;  *)
(* what it closed over when it called is what it still holds then.  A page *)
(* keeps them in a function from slots to calls, whose size bounds how     *)
(* many are under way at once.                                             *)
(***************************************************************************)
CONSTANT None  \* no call, nothing selected, nothing entered

Free(calls)    == {s \in DOMAIN calls : calls[s] = None}
Waiting(calls) == {s \in DOMAIN calls : calls[s] # None}

\* fetch: the call takes a free slot.
Send(calls, call) == [calls EXCEPT ![CHOOSE s \in DOMAIN calls : calls[s] = None] = call]

\* The answer to the call in slot s is here.
Answered(calls, s) == [calls EXCEPT ![s] = None]
=============================================================================
