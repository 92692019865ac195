------------------------------ MODULE MCGemmApi ------------------------------
(* Instances of GemmApi for TLC. *)
EXTENDS GemmApi

CONSTANTS kg, ko, bg, bo, t1, t2

\* The Gemm engine and that of another family.
MCKeyOf == [e \in Engines |-> IF e = bg THEN kg ELSE ko]

MCCatalog == <<bo, bg>>
==============================================================================
