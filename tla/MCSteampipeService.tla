------------------------- MODULE MCSteampipeService -------------------------
(* Three requests, one of them of an access-key account, and two slots.    *)
EXTENDS SteampipeService
CONSTANTS q1, q2, q3
MCRequests == {q1, q2, q3}
MCRoleRequests == {q1, q2}
=============================================================================
