------------------------------ MODULE MCMatcher ------------------------------
(* Instances of Matcher for TLC. *)
EXTENDS Matcher, Integers

Op(kind, inputs, outputs) == [kind |-> kind, inputs |-> inputs, outputs |-> outputs]

Builder(kinds, ops) == [kinds |-> kinds, ops |-> ops]

Tensors(n) == [x \in 1 .. n |-> "tensor"]

\* Operations that share their inputs around rings: next says whose first
\* input is an operation's second. Rings of different lengths have the same
\* colors, so only the search tells them apart. An operand of each kind is at
\* no port.
Ring(next) ==
  LET n == Len(next)
  IN  Builder(Tensors(2 * n) \o <<"list", "tensor">>,
              [o \in 1 .. n |-> Op("gemm", <<o, next[o]>>, <<n + o>>)])

\* Every way to arrange four operations in rings, one of four or two of two.
RingsOfFour ==
  <<Ring(<<2, 1, 4, 3>>), Ring(<<3, 4, 1, 2>>), Ring(<<4, 3, 2, 1>>),
    Ring(<<2, 3, 4, 1>>), Ring(<<2, 4, 1, 3>>), Ring(<<3, 1, 4, 2>>),
    Ring(<<3, 4, 2, 1>>), Ring(<<4, 1, 2, 3>>), Ring(<<4, 3, 1, 2>>)>>

\* Some of more operations, the same lengths in other orders among them.
LongRings ==
  <<Ring(<<2, 3, 4, 5, 1>>), Ring(<<2, 1, 4, 5, 3>>), Ring(<<2, 3, 1, 5, 4>>), Ring(<<3, 4, 5, 2, 1>>),
    Ring(<<2, 3, 1, 5, 6, 4>>), Ring(<<4, 3, 6, 2, 1, 5>>), Ring(<<2, 1, 4, 3, 6, 5>>)>>

\* An operation feeds the first of two, or the second: equal but for ports.
Fed(port) ==
  Builder(Tensors(5), <<Op("gemm", <<1, 2>>, <<4>>),
                        Op("gemm", IF port = 1 THEN <<4, 3>> ELSE <<3, 4>>, <<5>>)>>)

Small ==
  <<Builder(<<>>, <<>>),
    Builder(<<"tensor", "list">>, <<>>),
    Builder(<<"list", "tensor">>, <<>>),
    Builder(Tensors(2), <<>>),
    Builder(Tensors(3) \o <<"list">>, <<Op("gemm", <<1, 2>>, <<3>>)>>),
    Builder(<<"list">> \o Tensors(3), <<Op("gemm", <<4, 2>>, <<3>>)>>),
    Builder(Tensors(3) \o <<"list">>, <<Op("sum", <<1, 2>>, <<3>>)>>),
    Builder(Tensors(4), <<Op("gemm", <<1>>, <<2>>), Op("gemm", <<2>>, <<3>>), Op("gemm", <<3>>, <<4>>)>>),
    Builder(Tensors(4), <<Op("gemm", <<2>>, <<1>>), Op("gemm", <<4>>, <<3>>), Op("gemm", <<3>>, <<2>>)>>),
    Builder(Tensors(4), <<Op("gemm", <<1>>, <<2>>), Op("gemm", <<2>>, <<3>>), Op("gemm", <<2>>, <<4>>)>>),
    Fed(1), Fed(2)>>

\* Two operations on three sources, in every order of ports, and a third on
\* what they produce.
Joins ==
  LET ends == << <<4, 5>>, <<5, 4>>, <<1, 4>>, <<4, 1>> >>
      sources == << <<1, 2>>, <<2, 1>>, <<1, 3>>, <<3, 1>>, <<2, 3>>, <<3, 2>> >>
  IN  [i \in 1 .. 24 |->
         Builder(Tensors(6), <<Op("gemm", <<1, 2>>, <<4>>), Op("gemm", sources[((i - 1) \div 4) + 1], <<5>>),
                               Op("gemm", ends[((i - 1) % 4) + 1], <<6>>)>>)]

MCPatterns == Small \o Joins \o RingsOfFour \o LongRings
===============================================================================
