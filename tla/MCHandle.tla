------------------------------- MODULE MCHandle -------------------------------
(* Instances of Handle for TLC. *)
EXTENDS Handle

CONSTANTS k1, k2, k3, b1, b2, x1, x3, y3, t1, t2

\* Two built-in engines; callers bring x1 for a built-in key and x3, y3 for
\* a key of their own.
MCKeyOf == [e \in Engines |-> CASE e \in {b1, x1} -> k1 [] e = b2 -> k2 [] OTHER -> k3]

MCCatalog == <<b1, b2>>
==============================================================================
