-------------------------- MODULE MCDefinitionWrite --------------------------
(* Instances of DefinitionWrite for TLC: two contents per group of fields, *)
(* so that a rival's versions can mix into the submitted definition.       *)
EXTENDS DefinitionWrite

CONSTANTS old, new

MCValues == {old, new}
MCOurs   == [resource |-> new, version |-> new]
================================================================================
