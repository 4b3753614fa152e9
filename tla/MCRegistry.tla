----------------------------- MODULE MCRegistry -----------------------------
(* Instances of Registry for TLC. *)
EXTENDS Registry

CONSTANTS den, custom   \* the entity with a name of its own in the configuration, and that name

SomeNamed == [e \in Entities |-> IF e = den THEN custom ELSE NoName]
=============================================================================
