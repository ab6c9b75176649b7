--------------------------- MODULE MCScanPipeline ---------------------------
(* Every resource is a type of its own, named for the finding it can give  *)
(* rise to: an unattached volume, an idle instance, an open security group.*)
EXTENDS ScanPipeline, TLC
MCTypeOf == [r \in Resources |-> r]
MCKindOf == [r \in Resources |->
  CASE r = "volume"   -> "orphaned"
    [] r = "instance" -> "rightsizing"
    [] OTHER          -> "security"]
\* The workers are interchangeable.
MCWorkers == Permutations(Workers)
=============================================================================
