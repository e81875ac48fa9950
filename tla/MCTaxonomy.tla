---- MODULE MCTaxonomy ----
(* An instance of Taxonomy: a fact of a custom type and one of a configured *)
(* type, one proposal of each kind about these two types, and two answers   *)
(* that make no sense: no type to rename, and an action there is none of.   *)
EXTENDS Taxonomy

MCFacts == {"f1", "f2"}
MCTypeOf == [f1 |-> "habit", f2 |-> "event"]
MCUnsure == {"f2"}
MCBase == [fact |-> <<"decision", "event">>, entity |-> <<"tool">>]
MCAnswers == {
  [action |-> "add", category |-> "fact", type |-> "habit", name |-> None],
  [action |-> "merge", category |-> "fact", type |-> "event", name |-> "habit"],
  [action |-> "rename", category |-> "fact", type |-> "event", name |-> "incident"],
  [action |-> "remove", category |-> "fact", type |-> "event", name |-> None],
  [action |-> "rename", category |-> "fact", type |-> None, name |-> "incident"],
  [action |-> "split", category |-> "fact", type |-> "event", name |-> None]}
====
