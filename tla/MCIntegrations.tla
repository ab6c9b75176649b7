--------------------------- MODULE MCIntegrations ---------------------------
(* Credentials r1 and k1 are a role and a key pair of AWS account "one", r2 *)
(* a role of "two", and bad a role that AWS does not accept.               *)
EXTENDS Integrations, TLC
MCMethodOf == [c \in Creds |-> IF c = "k1" THEN "aws_keys" ELSE "aws_role"]
MCRealOf   == [c \in Creds |-> IF c = "r2" THEN "two" ELSE "one"]
MCHandlers == Permutations(Handlers)
=============================================================================
