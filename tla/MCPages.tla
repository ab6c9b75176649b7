------------------------------- MODULE MCPages -------------------------------
(* Pages on small catalogs, lists and menus.                               *)
EXTENDS Pages

\* A catalog of two services, one for each kind of column that is not text.
MCColumnTypes == [v \in Services |->
  IF v = "ec2" THEN [id |-> "string", cpu |-> "number"] ELSE [id |-> "string", open |-> "boolean"]]
MCFirstColumn == [v \in Services |-> "id"]
MCDefaultsOf  == [v \in Services |-> {"id"}]
MCOperators   == [string  |-> {"equals", "is_null"}, number |-> {"equals", "gt"},
                  boolean |-> {"is_true"}]
MCFirstOperator == [string |-> "equals", number |-> "equals", boolean |-> "is_true"]
MCRecipes == {[service |-> "sg", conditions |-> <<[column |-> "open", operator |-> "is_true"]>>]}

MCRoutes  == <<"dashboard", "integrations", "settings">>
MCMatches == [q \in Searches |->
  CASE q = "t" -> <<"integrations", "settings">> [] q = "d" -> <<"dashboard">> [] OTHER -> <<>>]
MCDemoScopes == <<[id |-> "x", status |-> "active"], [id |-> "y", status |-> "standby"]>>
=============================================================================
