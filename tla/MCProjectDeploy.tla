---------------------------- MODULE MCProjectDeploy ----------------------------
(* A project with a function, an app and three workflows that share a step *)
(* under two definitions (A, B, A); two of them use a step whose image is *)
(* built, which is written every time.                                     *)
EXTENDS ProjectDeploy

CONSTANTS f, s, b, w1, w2, w3, a, A, B

MCTargets   == {f, s, b, w1, w2, w3, a}
MCFunctions == <<f>>
MCWorkflows == <<w1, w2, w3>>
MCApps      == <<a>>
MCStepsOf   == [w \in {w1, w2, w3} |-> IF w = w1 THEN <<s>> ELSE <<b, s>>]
MCDefinitions == {A, B}
MCWanted    == [w \in {w1, w2, w3} |-> [x \in {s, b} |-> IF w = w2 THEN B ELSE A]]
MCBuilt     == {b}
================================================================================
