----------------------------- MODULE MCStepGraph -----------------------------
(* An instance of StepGraph for TLC: bodies that call a step named "when", so *)
(* that its nodes and the node of a switch all ask for the same key.          *)
EXTENDS StepGraph, TLC

CONSTANT when

MCBase == when :> <<0>>
MCWhenBase == <<0>>
================================================================================
