--------------------------- MODULE MCGemmExecution ---------------------------
(* Instances of GemmExecution for TLC. *)
EXTENDS GemmExecution

Matrix(memory, rows, columns) ==
  [memory |-> memory, dims |-> <<rows, columns>>, type |-> Fp32, layout |-> Continuous,
   hasStrides |-> FALSE, strides |-> <<>>, host |-> FALSE]

Scalar(memory) == [Matrix(memory, 1, 1) EXCEPT !.dims = <<>>, !.host = TRUE]

Shaped(m, n, k) ==
  [computeType |-> Fp32,
   views |-> [a |-> Matrix(4, m, k), b |-> Matrix(8, k, n), c |-> Matrix(12, m, n),
              d |-> Matrix(16, m, n), alpha |-> Scalar(20), beta |-> Scalar(24)]]

\* Every shape up to one beyond what a word of bytes holds, in place and not.
Shapes == {Shaped(m, n, k) : m \in 0 .. 8, n \in 0 .. 8, k \in 0 .. 2}

InPlaceShapes == {[Shaped(m, n, 1) EXCEPT !.views.c.memory = 16] : m \in 1 .. 3, n \in 0 .. 7}

At(p, port, v) == [p EXCEPT !.views[port] = v]

\* One thing about one argument differs: its address, type, layout, place,
\* rank or a dimension.
Variants(p) ==
  UNION {LET v == View(p, Ports[n])
         IN  {At(p, Ports[n], [v EXCEPT !.memory = address]) : address \in {0, 5, 16, 28}}
               \cup {At(p, Ports[n], [v EXCEPT !.type = type]) : type \in {0, 8, 24}}
               \cup {At(p, Ports[n], [v EXCEPT !.layout = 0]), At(p, Ports[n], [v EXCEPT !.layout = 3]),
                     At(p, Ports[n], [v EXCEPT !.layout = 4]),
                     At(p, Ports[n], [v EXCEPT !.layout = 0, !.hasStrides = TRUE, !.strides = v.dims]),
                     At(p, Ports[n], [v EXCEPT !.hasStrides = TRUE, !.strides = v.dims]),
                     At(p, Ports[n], [v EXCEPT !.host = ~@]),
                     At(p, Ports[n], [v EXCEPT !.dims = <<2>>]),
                     At(p, Ports[n], [v EXCEPT !.dims = <<2, 2>>]),
                     At(p, Ports[n], [v EXCEPT !.dims = <<1, -1>>])} : n \in DOMAIN Ports}
    \cup {[p EXCEPT !.computeType = 8]}

MCProblems == Shapes \cup InPlaceShapes \cup Variants(Shaped(1, 2, 1)) \cup Variants(Shaped(1, 2, 0)) \cup Variants(Shaped(0, 2, 1))
===============================================================================
