------------------------------- MODULE MCRender -------------------------------
(* Model-checking instances of Render: entities 1 and 2 are drawn with a   *)
(* look of their own, the others with the look of entity 2.  The layouts   *)
(* are those of gpu.h; OneShader draws both with one shader.               *)
EXTENDS Render, TLC

CONSTANTS m1, m2, s1, s2

Meshes == {m1, m2}
Shaders == {s1, s2}
Layouts == [m \in Meshes |-> IF m = m1 THEN "p444" ELSE "p444_c444"]
LookMesh == [e \in 1 .. 4 |-> IF e = 1 THEN m1 ELSE m2]
LookShader == [e \in 1 .. 4 |-> IF e = 1 THEN s1 ELSE s2]
TwoMesh == [e \in 1 .. 2 |-> IF e = 1 THEN m1 ELSE m2]
TwoShader == [e \in 1 .. 2 |-> IF e = 1 THEN s1 ELSE s2]
OneShader == [e \in 1 .. 2 |-> s1]
=============================================================================
