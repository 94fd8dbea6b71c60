------------------------------ MODULE LruTiers ------------------------------
(***************************************************************************)
(* What the template registry promises about tiers, apart from containers  *)
(* and Docker: a two-level LRU cache.  At most HotLimit templates are Hot  *)
(* and at most WarmLimit stay Warm; room is made by demoting the least     *)
(* recently used Hot template and dropping the least recently used Warm    *)
(* one, and only when the tier it leaves is full.                          *)
(***************************************************************************)
EXTENDS Naturals, Sequences, SequencesExt, FiniteSets

CONSTANTS Names, HotLimit, WarmLimit

VARIABLES
  tier,  \* "Cold", "Hot" or "Warm"
  order  \* use order of the templates that are not Cold, oldest first

Init ==
  /\ tier = [n \in Names |-> "Cold"]
  /\ order = <<>>

In(level) == {n \in Names : tier[n] = level}
HotRoom == IF HotLimit = 0 THEN 1 ELSE HotLimit

\* n is the least recently used template of its tier.
IsOldest(n) ==
  \E i \in 1..Len(order) :
    /\ order[i] = n
    /\ \A j \in 1..(i - 1) : tier[order[j]] # tier[n]

Use(n) == order' = Append(RemoveFirst(order, n), n)

\* A request for a Hot template.
Hit(n) ==
  /\ tier[n] = "Hot"
  /\ Use(n)
  /\ UNCHANGED tier

\* A request for another template, once there is room for it.
Admit(n) ==
  /\ tier[n] # "Hot"
  /\ Cardinality(In("Hot")) < HotRoom
  /\ tier' = [tier EXCEPT ![n] = "Hot"]
  /\ Use(n)

\* Room is made in the Hot tier ..
Demote(n) ==
  /\ tier[n] = "Hot"
  /\ Cardinality(In("Hot")) >= HotLimit
  /\ IsOldest(n)
  /\ tier' = [tier EXCEPT ![n] = "Warm"]
  /\ UNCHANGED order

\* .. and in the Warm tier, which may be one over its limit.
Drop(n) ==
  /\ tier[n] = "Warm"
  /\ Cardinality(In("Warm")) = WarmLimit + 1
  /\ IsOldest(n)
  /\ tier' = [tier EXCEPT ![n] = "Cold"]
  /\ order' = RemoveFirst(order, n)

Next == \E n \in Names : Hit(n) \/ Admit(n) \/ Demote(n) \/ Drop(n)

Spec == Init /\ [][Next]_<<tier, order>>
=============================================================================
