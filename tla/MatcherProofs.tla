----------------------------- MODULE MatcherProofs -----------------------------
(***************************************************************************)
(* Theorems about Matcher, for every sequence of patterns.                 *)
(*                                                                         *)
(* What makes a match an isomorphism is that both ways to one end in a     *)
(* bijection. The fast path pairs the members of each color by their rank, *)
(* which is a bijection because equal keys have as many of each color      *)
(* (PairingIsBijection). The search ends in an injection between as many   *)
(* operands and operations; that they are as many is the keys again.       *)
(* DirectionsAgree is the bookkeeping of rollback(): TrailInv.             *)
(*                                                                         *)
(* Why only exhaustion fails: what is bound is wired as it is in both      *)
(* patterns (WiredInv), so that the pairs bindOp() has left cannot stop    *)
(* fitting, and with all operations bound the open operands are isolated   *)
(* and, the colors being equal, as many of each kind on both sides.        *)
(*                                                                         *)
(* Why none is missed: let f and g be any correspondence of the patterns.  *)
(* A round of colors follows it (RoundFollows), for the signatures of a    *)
(* vertex and of its partner have the same colors in them; so the keys are *)
(* equal. From then on the search follows it, or some call on the stack    *)
(* has yet to try the operation f has for its own and has bound, in front  *)
(* of its checkpoints, only what f and g have (WayInv). Neither lets the   *)
(* outermost call run out of candidates.                                   *)
(***************************************************************************)
EXTENDS Matcher, TLAPS, FiniteSetTheorems, FunctionTheorems, WellFoundedInduction

\* What MatcherAssumption says of a pattern.
Sound(b) ==
  /\ Len(b.kinds) \in Nat /\ Operands(b) = 1 .. Len(b.kinds)
  /\ Len(b.ops) \in Nat /\ Ops(b) = 1 .. Len(b.ops)
  /\ \A o \in Ops(b) : b.ops[o].inputs \in Seq(Operands(b)) /\ b.ops[o].outputs \in Seq(Operands(b))

LEMMA PatternsAreSound == \A n \in DOMAIN Patterns : Sound(Patterns[n])
<1> SUFFICES ASSUME NEW n \in DOMAIN Patterns PROVE Sound(Patterns[n])
  OBVIOUS
<1> DEFINE b == Patterns[n]
<1>1. /\ b.kinds \in Seq({b.kinds[x] : x \in Operands(b)}) /\ b.ops \in Seq({b.ops[o] : o \in Ops(b)})
      /\ \A o \in Ops(b) : b.ops[o].inputs \in Seq(Operands(b)) /\ b.ops[o].outputs \in Seq(Operands(b))
  BY MatcherAssumption
<1> HIDE DEF b
<1>2. Sound(b)
  BY <1>1 DEF Sound, Operands, Ops
<1> QED BY <1>2 DEF b

-----------------------------------------------------------------------------
(* The pairing by color. *)

\* Where i stands among those of its color.
RankIn(c, i) == Cardinality({k \in DOMAIN c : k <= i /\ c[k] = c[i]})

Class(c, v) == {k \in DOMAIN c : c[k] = v}

\* The members of a class have the ranks 1, 2, ... in the order of their places.
LEMMA RanksOfClass ==
  ASSUME NEW n \in Nat, NEW c, DOMAIN c = 1 .. n, NEW v
  PROVE  /\ IsFiniteSet(Class(c, v)) /\ Cardinality(Class(c, v)) \in Nat
         /\ \A i \in Class(c, v) : RankIn(c, i) \in 1 .. Cardinality(Class(c, v))
         /\ \A i, j \in Class(c, v) : RankIn(c, i) = RankIn(c, j) => i = j
         /\ \A r \in 1 .. Cardinality(Class(c, v)) : \E i \in Class(c, v) : RankIn(c, i) = r
<1> DEFINE K == Class(c, v)
           Upto(i) == {k \in DOMAIN c : k <= i /\ c[k] = c[i]}
<1>1. IsFiniteSet(1 .. n)
  BY FS_Interval
<1>2. IsFiniteSet(K) /\ Cardinality(K) \in Nat
  <2>1. K \in SUBSET (1 .. n)
    BY DEF Class
  <2> QED BY <1>1, <2>1, FS_Subset, FS_CardinalityType
<1>3. ASSUME NEW i \in K
      PROVE  /\ Upto(i) \in SUBSET K /\ i \in Upto(i) /\ IsFiniteSet(Upto(i))
             /\ RankIn(c, i) = Cardinality(Upto(i)) /\ RankIn(c, i) \in 1 .. Cardinality(K)
  <2>1. i \in 1 .. n /\ c[i] = v
    BY DEF Class
  <2>2. Upto(i) \in SUBSET K /\ i \in Upto(i)
    BY <2>1 DEF Class
  <2>3. IsFiniteSet(Upto(i)) /\ Cardinality(Upto(i)) <= Cardinality(K)
    BY <1>2, <2>2, FS_Subset
  <2>4. Cardinality(Upto(i)) \in Nat /\ Cardinality(Upto(i)) # 0
    BY <2>2, <2>3, FS_CardinalityType, FS_EmptySet
  <2> HIDE DEF Upto, K
  <2>5. Cardinality(Upto(i)) \in 1 .. Cardinality(K)
    BY <1>2, <2>3, <2>4
  <2> QED BY <2>2, <2>3, <2>5 DEF RankIn, Upto
<1>4. ASSUME NEW i \in K, NEW j \in K, i < j PROVE RankIn(c, i) # RankIn(c, j)
  <2>1. i \in 1 .. n /\ j \in 1 .. n /\ c[i] = c[j]
    BY DEF Class
  <2>2. Upto(i) \in SUBSET Upto(j) /\ j \notin Upto(i)
    BY <1>4, <2>1
  <2>3. Cardinality(Upto(i)) # Cardinality(Upto(j))
    BY <1>3, <2>2, FS_Subset
  <2> QED BY <1>3, <2>3
<1>5. ASSUME NEW i \in K, NEW j \in K, RankIn(c, i) = RankIn(c, j) PROVE i = j
  <2>1. i \in Nat /\ j \in Nat
    BY DEF Class
  <2>2. ~(i < j) /\ ~(j < i)
    BY <1>4, <1>5
  <2> QED BY <2>1, <2>2
<1>6. ASSUME NEW r \in 1 .. Cardinality(K) PROVE \E i \in K : RankIn(c, i) = r
  <2> DEFINE rank == [i \in K |-> RankIn(c, i)]
  <2> HIDE DEF K
  <2>1. rank \in [K -> 1 .. Cardinality(K)] /\ \A i, j \in K : rank[i] = rank[j] => i = j
    BY <1>3, <1>5
  <2>2. rank \in Injection(K, 1 .. Cardinality(K))
    <3> HIDE DEF rank
    <3> QED BY <2>1, Fun_IsInj
  <2>3. IsFiniteSet(1 .. Cardinality(K)) /\ Cardinality(1 .. Cardinality(K)) = Cardinality(K)
    BY <1>2, FS_Interval
  <2>4. rank \in Surjection(K, 1 .. Cardinality(K))
    <3> HIDE DEF rank
    <3> QED BY <2>2, <2>3, FS_Injection
  <2>5. \E i \in K : rank[i] = r
    <3> HIDE DEF rank
    <3>1. \A q \in 1 .. Cardinality(K) : \E i \in K : rank[i] = q
      BY <2>4, Fun_SurjectionProperties
    <3> QED BY <1>6, <3>1
  <2> QED BY <2>5
<1> HIDE DEF K
<1>7. \A i \in K : RankIn(c, i) \in 1 .. Cardinality(K)
  BY <1>3
<1> QED BY <1>2, <1>5, <1>6, <1>7 DEF K

\* Equal bags have as many of each color.
LEMMA SameBagClasses ==
  ASSUME NEW left, NEW right, SameBag(left, right), NEW i \in DOMAIN left
  PROVE  /\ Cardinality(Class(left, left[i])) = Cardinality(Class(right, left[i]))
         /\ \E k \in DOMAIN right : right[k] = left[i]
<1> DEFINE bagL == [v \in {left[s] : s \in DOMAIN left} |-> Cardinality({s \in DOMAIN left : left[s] = v})]
           bagR == [v \in {right[s] : s \in DOMAIN right} |-> Cardinality({s \in DOMAIN right : right[s] = v})]
<1>1. bagL = bagR
  BY DEF SameBag, Bag
<1>2. left[i] \in DOMAIN bagL /\ DOMAIN bagR = {right[s] : s \in DOMAIN right}
  OBVIOUS
<1>3. left[i] \in {right[s] : s \in DOMAIN right}
  BY <1>1, <1>2
<1>4. bagL[left[i]] = Cardinality(Class(left, left[i])) /\ bagR[left[i]] = Cardinality(Class(right, left[i]))
  BY <1>3 DEF Class
<1> QED BY <1>1, <1>3, <1>4

LEMMA SameBagSymmetric ==
  ASSUME NEW left, NEW right, SameBag(left, right)
  PROVE  SameBag(right, left)
BY DEF SameBag

\* pair_by_color pairs all of both sides, one to one, each with one of its color.
LEMMA PairingIsBijection ==
  ASSUME NEW n \in Nat, NEW m \in Nat, NEW left, NEW right,
         DOMAIN left = 1 .. n, DOMAIN right = 1 .. m, SameBag(left, right)
  PROVE  /\ PairedByColor(left, right) \in Bijection(1 .. n, 1 .. m) /\ n = m
         /\ \A i \in 1 .. n : right[PairedByColor(left, right)[i]] = left[i]
<1> DEFINE pair == PairedByColor(left, right)
           Partner(i, k) == k \in DOMAIN right /\ right[k] = left[i] /\ RankIn(right, k) = RankIn(left, i)
<1>1. pair = [i \in 1 .. n |-> CHOOSE k \in DOMAIN right :
                                 right[k] = left[i] /\ RankIn(right, k) = RankIn(left, i)]
  BY DEF PairedByColor, RankIn
<1>2. ASSUME NEW i \in 1 .. n PROVE \E k \in 1 .. m : Partner(i, k)
  <2>1. i \in Class(left, left[i])
    BY DEF Class
  <2>2. RankIn(left, i) \in 1 .. Cardinality(Class(left, left[i]))
    BY <2>1, RanksOfClass
  <2>3. RankIn(left, i) \in 1 .. Cardinality(Class(right, left[i]))
    BY <2>2, SameBagClasses
  <2>4. PICK k \in Class(right, left[i]) : RankIn(right, k) = RankIn(left, i)
    BY <2>3, RanksOfClass
  <2> QED BY <2>4 DEF Class
<1>3. ASSUME NEW i \in 1 .. n PROVE pair[i] \in 1 .. m /\ Partner(i, pair[i])
  <2> HIDE DEF pair
  <2> QED BY <1>1, <1>2
<1>4. ASSUME NEW i \in 1 .. n, NEW j \in 1 .. n, pair[i] = pair[j] PROVE i = j
  <2> HIDE DEF pair
  <2>1. left[i] = left[j] /\ RankIn(left, i) = RankIn(left, j)
    BY <1>3, <1>4
  <2>2. i \in Class(left, left[i]) /\ j \in Class(left, left[i])
    BY <2>1 DEF Class
  <2> QED BY <2>1, <2>2, RanksOfClass
<1>5. ASSUME NEW k \in 1 .. m PROVE \E i \in 1 .. n : pair[i] = k
  <2>1. SameBag(right, left)
    BY SameBagSymmetric
  <2>2. k \in Class(right, right[k])
    BY DEF Class
  <2>3. RankIn(right, k) \in 1 .. Cardinality(Class(right, right[k]))
    BY <2>2, RanksOfClass
  <2>4. RankIn(right, k) \in 1 .. Cardinality(Class(left, right[k]))
    BY <2>1, <2>3, SameBagClasses
  <2>5. PICK i \in Class(left, right[k]) : RankIn(left, i) = RankIn(right, k)
    BY <2>4, RanksOfClass
  <2>6. i \in 1 .. n /\ left[i] = right[k]
    BY <2>5 DEF Class
  <2> HIDE DEF pair
  <2>7. pair[i] \in 1 .. m /\ right[pair[i]] = right[k] /\ RankIn(right, pair[i]) = RankIn(right, k)
    BY <1>3, <2>5, <2>6
  <2>8. pair[i] \in Class(right, right[k])
    BY <2>7 DEF Class
  <2> QED BY <2>2, <2>6, <2>7, <2>8, RanksOfClass
<1>6. pair \in [1 .. n -> 1 .. m]
  <2>1. pair = [i \in 1 .. n |-> pair[i]]
    BY <1>1
  <2> HIDE DEF pair
  <2> QED BY <1>3, <2>1
<1>7. pair \in Bijection(1 .. n, 1 .. m)
  <2> HIDE DEF pair
  <2> QED BY <1>4, <1>5, <1>6, Fun_IsBij
<1>8. n = m
  <2> HIDE DEF pair
  <2>1. ExistsBijection(1 .. n, 1 .. m)
    BY <1>7, Fun_ExistsBij
  <2>2. /\ IsFiniteSet(1 .. n) /\ Cardinality(1 .. n) = n
        /\ Cardinality(1 .. m) = m
    BY FS_Interval
  <2> QED BY <2>1, <2>2, FS_Bijection
<1> QED BY <1>3, <1>7, <1>8

-----------------------------------------------------------------------------
(* What a match is made of. *)

\* f and g take the operations and operands of b one to one to those of c, and
\* keep kinds and what is at every port.
Corresponds(b, c, f, g) ==
  /\ Len(b.ops) = Len(c.ops) /\ Len(b.kinds) = Len(c.kinds)
  /\ f \in [Ops(b) -> Ops(c)] /\ \A o, p \in Ops(b) : f[o] = f[p] => o = p
  /\ g \in [Operands(b) -> Operands(c)] /\ \A x, y \in Operands(b) : g[x] = g[y] => x = y
  /\ \A y \in Operands(b) : c.kinds[g[y]] = b.kinds[y]
  /\ \A o \in Ops(b) :
       /\ b.ops[o].kind = c.ops[f[o]].kind
       /\ Len(b.ops[o].inputs) = Len(c.ops[f[o]].inputs)
       /\ Len(b.ops[o].outputs) = Len(c.ops[f[o]].outputs)
       /\ \A i \in DOMAIN b.ops[o].inputs : c.ops[f[o]].inputs[i] = g[b.ops[o].inputs[i]]
       /\ \A i \in DOMAIN b.ops[o].outputs : c.ops[f[o]].outputs[i] = g[b.ops[o].outputs[i]]

LEMMA CorrespondenceIsIsomorphism ==
  ASSUME NEW b, NEW c, Sound(b), Sound(c), NEW f, NEW g, Corresponds(b, c, f, g)
  PROVE  /\ IsIsomorphism(b, c, f)
         /\ \A p \in PortPairs(b, c, f) : g[p[1]] = p[2]
<1>1. ASSUME NEW p \in PortPairs(b, c, f) PROVE p[1] \in Operands(b) /\ g[p[1]] = p[2]
  <2>1. CASE p \in {<<InputAt(b, q), InputAt(c, [q EXCEPT !.op = f[q.op]])>> : q \in InputPorts(b)}
    <3>1. PICK q \in InputPorts(b) : p = <<InputAt(b, q), InputAt(c, [q EXCEPT !.op = f[q.op]])>>
      BY <2>1
    <3>2. PICK o \in Ops(b) : \E i \in DOMAIN b.ops[o].inputs : q = [op |-> o, port |-> i]
      BY DEF InputPorts
    <3> PICK i \in DOMAIN b.ops[o].inputs : q = [op |-> o, port |-> i]
      BY <3>2
    <3>3. [q EXCEPT !.op = f[q.op]] = [op |-> f[o], port |-> i]
      OBVIOUS
    <3>4. p[1] = b.ops[o].inputs[i] /\ p[2] = c.ops[f[o]].inputs[i]
      BY <3>1, <3>3 DEF InputAt
    <3>5. b.ops[o].inputs[i] \in Operands(b)
      <4>1. b.ops[o].inputs \in Seq(Operands(b))
        BY DEF Sound
      <4> QED BY <4>1
    <3> QED BY <3>4, <3>5 DEF Corresponds
  <2>2. CASE p \in {<<OutputAt(b, q), OutputAt(c, [q EXCEPT !.op = f[q.op]])>> : q \in OutputPorts(b)}
    <3>1. PICK q \in OutputPorts(b) : p = <<OutputAt(b, q), OutputAt(c, [q EXCEPT !.op = f[q.op]])>>
      BY <2>2
    <3>2. PICK o \in Ops(b) : \E i \in DOMAIN b.ops[o].outputs : q = [op |-> o, port |-> i]
      BY DEF OutputPorts
    <3> PICK i \in DOMAIN b.ops[o].outputs : q = [op |-> o, port |-> i]
      BY <3>2
    <3>3. [q EXCEPT !.op = f[q.op]] = [op |-> f[o], port |-> i]
      OBVIOUS
    <3>4. p[1] = b.ops[o].outputs[i] /\ p[2] = c.ops[f[o]].outputs[i]
      BY <3>1, <3>3 DEF OutputAt
    <3>5. b.ops[o].outputs[i] \in Operands(b)
      <4>1. b.ops[o].outputs \in Seq(Operands(b))
        BY DEF Sound
      <4> QED BY <4>1
    <3> QED BY <3>4, <3>5 DEF Corresponds
  <2> QED BY <2>1, <2>2 DEF PortPairs
<1>2. \A p, r \in PortPairs(b, c, f) : p[1] = r[1] <=> p[2] = r[2]
  BY <1>1 DEF Corresponds
<1>3. \A p \in PortPairs(b, c, f) : b.kinds[p[1]] = c.kinds[p[2]]
  BY <1>1 DEF Corresponds
<1> QED BY <1>1, <1>2, <1>3 DEF IsIsomorphism, Corresponds

\* Equal keys are of patterns with as many operations and as many operands.
LEMMA KeysOfOneSize ==
  ASSUME Sound(U), Sound(S), SameKey
  PROVE  /\ Len(U.kinds) = Len(S.kinds) /\ Len(U.ops) = Len(S.ops)
         /\ OperandsPaired \in Bijection(Operands(U), Operands(S))
         /\ OpsPaired \in Bijection(Ops(U), Ops(S))
         /\ \A y \in Operands(U) :
              SupportedColors(colors).operands[OperandsPaired[y]] = UserColors(colors).operands[y]
<1> DEFINE uc == UserColors(colors)
           sc == SupportedColors(colors)
<1>1. /\ DOMAIN uc.operands = 1 .. Len(U.kinds) /\ DOMAIN uc.ops = 1 .. Len(U.ops)
      /\ DOMAIN sc.operands = 1 .. Len(S.kinds) /\ DOMAIN sc.ops = 1 .. Len(S.ops)
  BY DEF UserColors, SupportedColors, Sound
<1>2. SameBag(uc.operands, sc.operands) /\ SameBag(uc.ops, sc.ops)
  BY DEF SameKey
<1> HIDE DEF uc, sc
<1>3. Len(U.kinds) \in Nat /\ Len(S.kinds) \in Nat /\ Len(U.ops) \in Nat /\ Len(S.ops) \in Nat
  BY DEF Sound
<1>4. /\ PairedByColor(uc.operands, sc.operands) \in Bijection(1 .. Len(U.kinds), 1 .. Len(S.kinds))
      /\ Len(U.kinds) = Len(S.kinds)
      /\ \A y \in 1 .. Len(U.kinds) :
           sc.operands[PairedByColor(uc.operands, sc.operands)[y]] = uc.operands[y]
  BY <1>1, <1>2, <1>3, PairingIsBijection
<1>5. /\ PairedByColor(uc.ops, sc.ops) \in Bijection(1 .. Len(U.ops), 1 .. Len(S.ops))
      /\ Len(U.ops) = Len(S.ops)
  BY <1>1, <1>2, <1>3, PairingIsBijection
<1> QED BY <1>4, <1>5 DEF OperandsPaired, OpsPaired, uc, sc, Sound

\* The fast path: a verified pairing is a correspondence.
LEMMA VerifiedCorresponds ==
  ASSUME Sound(U), Sound(S), SameKey, Verified(OperandsPaired, OpsPaired)
  PROVE  Corresponds(U, S, OpsPaired, OperandsPaired)
<1> DEFINE f == OpsPaired
           g == OperandsPaired
<1>1. /\ f \in [Ops(U) -> Ops(S)] /\ \A o, p \in Ops(U) : f[o] = f[p] => o = p
      /\ g \in [Operands(U) -> Operands(S)] /\ \A x, y \in Operands(U) : g[x] = g[y] => x = y
      /\ Len(U.kinds) = Len(S.kinds) /\ Len(U.ops) = Len(S.ops)
  BY KeysOfOneSize, Fun_BijectionProperties
<1>2. \A y \in Operands(U) : S.kinds[g[y]] = U.kinds[y]
  BY DEF Verified
<1>3. ASSUME NEW v \in Ops(U)
      PROVE  /\ U.ops[v].kind = S.ops[f[v]].kind
             /\ [i \in DOMAIN U.ops[v].inputs |-> g[U.ops[v].inputs[i]]] = S.ops[f[v]].inputs
             /\ [i \in DOMAIN U.ops[v].outputs |-> g[U.ops[v].outputs[i]]] = S.ops[f[v]].outputs
  BY DEF Verified
<1> HIDE DEF f, g
<1>4. ASSUME NEW v \in Ops(U)
      PROVE  /\ Len(U.ops[v].inputs) = Len(S.ops[f[v]].inputs)
             /\ Len(U.ops[v].outputs) = Len(S.ops[f[v]].outputs)
             /\ \A i \in DOMAIN U.ops[v].inputs : S.ops[f[v]].inputs[i] = g[U.ops[v].inputs[i]]
             /\ \A i \in DOMAIN U.ops[v].outputs : S.ops[f[v]].outputs[i] = g[U.ops[v].outputs[i]]
  <2>1. /\ U.ops[v].inputs \in Seq(Operands(U)) /\ U.ops[v].outputs \in Seq(Operands(U))
        /\ S.ops[f[v]].inputs \in Seq(Operands(S)) /\ S.ops[f[v]].outputs \in Seq(Operands(S))
    BY <1>1 DEF Sound
  <2>2. DOMAIN U.ops[v].inputs = DOMAIN S.ops[f[v]].inputs /\ DOMAIN U.ops[v].outputs = DOMAIN S.ops[f[v]].outputs
    BY <1>3
  <2>3. Len(U.ops[v].inputs) = Len(S.ops[f[v]].inputs) /\ Len(U.ops[v].outputs) = Len(S.ops[f[v]].outputs)
    BY <2>1, <2>2
  <2> QED BY <1>3, <2>3
<1>5. Corresponds(U, S, f, g)
  BY <1>1, <1>2, <1>3, <1>4 DEF Corresponds
<1> QED BY <1>5 DEF f, g

LEMMA IntervalIsFinite == \A k \in Nat : IsFiniteSet(1 .. k)
BY FS_Interval

\* An injection of a finite set into itself is onto.
LEMMA InjectionIsOnto ==
  ASSUME NEW A, IsFiniteSet(A), NEW h \in [A -> A], \A i, j \in A : h[i] = h[j] => i = j
  PROVE  \A j \in A : \E i \in A : h[i] = j
<1>1. h \in Injection(A, A)
  BY Fun_IsInj
<1>2. h \in Surjection(A, A)
  BY <1>1, FS_Injection
<1> QED BY <1>2, Fun_SurjectionProperties

\* The maps are within the two patterns, or unmatched.
MapsInv ==
  /\ userOperandOf \in [Operands(S) -> Operands(U) \cup {Unmatched}]
  /\ supportedOperandOf \in [Operands(U) -> Operands(S) \cup {Unmatched}]
  /\ userOpOf \in [Ops(S) -> Ops(U) \cup {Unmatched}]
  /\ supportedOpOf \in [Ops(U) -> Ops(S) \cup {Unmatched}]

\* The search: a complete mapping is a correspondence.
LEMMA CompleteCorresponds ==
  ASSUME Sound(U), Sound(S), SameKey, MapsInv, Complete
  PROVE  Corresponds(U, S, supportedOpOf, supportedOperandOf)
<1> DEFINE f == supportedOpOf
           g == supportedOperandOf
           m == Len(U.kinds)
           n == Len(U.ops)
<1>1. /\ m \in Nat /\ n \in Nat /\ Len(S.kinds) = m /\ Len(S.ops) = n
      /\ Operands(U) = 1 .. m /\ Operands(S) = 1 .. m /\ Ops(U) = 1 .. n /\ Ops(S) = 1 .. n
  BY KeysOfOneSize DEF Sound
<1>2. ASSUME NEW x \in Operands(S)
      PROVE  /\ userOperandOf[x] \in Operands(U) /\ g[userOperandOf[x]] = x
             /\ S.kinds[x] = U.kinds[userOperandOf[x]]
  BY DEF Complete, MapsInv
<1>3. ASSUME NEW o \in Ops(S)
      PROVE  /\ userOpOf[o] \in Ops(U) /\ f[userOpOf[o]] = o
             /\ S.ops[o].kind = U.ops[userOpOf[o]].kind
             /\ [i \in DOMAIN S.ops[o].inputs |-> userOperandOf[S.ops[o].inputs[i]]] = U.ops[userOpOf[o]].inputs
             /\ [i \in DOMAIN S.ops[o].outputs |-> userOperandOf[S.ops[o].outputs[i]]] = U.ops[userOpOf[o]].outputs
  BY DEF Complete, MapsInv
<1>4. \A y \in Operands(U) : \E x \in Operands(S) : userOperandOf[x] = y
  <2>1. IsFiniteSet(Operands(U)) /\ Operands(S) = Operands(U)
    <3>1. IsFiniteSet(1 .. m)
      BY <1>1, IntervalIsFinite
    <3> QED BY <1>1, <3>1
  <2>2. userOperandOf \in [Operands(U) -> Operands(U)]
    BY <1>2, <2>1 DEF MapsInv
  <2>3. ASSUME NEW i \in Operands(U), NEW j \in Operands(U), userOperandOf[i] = userOperandOf[j] PROVE i = j
    <3>1. g[userOperandOf[i]] = i /\ g[userOperandOf[j]] = j
      BY <1>2, <2>1
    <3> QED BY <2>3, <3>1
  <2> QED BY <2>1, <2>2, <2>3, InjectionIsOnto
<1>5. \A v \in Ops(U) : \E o \in Ops(S) : userOpOf[o] = v
  <2>1. IsFiniteSet(Ops(U)) /\ Ops(S) = Ops(U)
    <3>1. IsFiniteSet(1 .. n)
      BY <1>1, IntervalIsFinite
    <3> QED BY <1>1, <3>1
  <2>2. userOpOf \in [Ops(U) -> Ops(U)]
    BY <1>3, <2>1 DEF MapsInv
  <2>3. ASSUME NEW i \in Ops(U), NEW j \in Ops(U), userOpOf[i] = userOpOf[j] PROVE i = j
    <3>1. f[userOpOf[i]] = i /\ f[userOpOf[j]] = j
      BY <1>3, <2>1
    <3> QED BY <2>3, <3>1
  <2> QED BY <2>1, <2>2, <2>3, InjectionIsOnto
<1>6. ASSUME NEW y \in Operands(U)
      PROVE  g[y] \in Operands(S) /\ userOperandOf[g[y]] = y /\ S.kinds[g[y]] = U.kinds[y]
  BY <1>2, <1>4
<1>7. ASSUME NEW v \in Ops(U) PROVE f[v] \in Ops(S) /\ userOpOf[f[v]] = v
  <2>1. PICK o \in Ops(S) : userOpOf[o] = v
    BY <1>5
  <2> QED BY <1>3, <2>1
<1>8. ASSUME NEW v \in Ops(U)
      PROVE  /\ U.ops[v].kind = S.ops[f[v]].kind
             /\ Len(U.ops[v].inputs) = Len(S.ops[f[v]].inputs)
             /\ Len(U.ops[v].outputs) = Len(S.ops[f[v]].outputs)
             /\ \A i \in DOMAIN U.ops[v].inputs : S.ops[f[v]].inputs[i] = g[U.ops[v].inputs[i]]
             /\ \A i \in DOMAIN U.ops[v].outputs : S.ops[f[v]].outputs[i] = g[U.ops[v].outputs[i]]
  <2>1. PICK o \in Ops(S) : o = f[v] /\ userOpOf[o] = v
    BY <1>7
  <2>2. /\ S.ops[o].kind = U.ops[v].kind
        /\ [i \in DOMAIN S.ops[o].inputs |-> userOperandOf[S.ops[o].inputs[i]]] = U.ops[v].inputs
        /\ [i \in DOMAIN S.ops[o].outputs |-> userOperandOf[S.ops[o].outputs[i]]] = U.ops[v].outputs
    BY <1>3, <2>1
  <2>3. /\ U.ops[v].inputs \in Seq(Operands(U)) /\ U.ops[v].outputs \in Seq(Operands(U))
        /\ S.ops[o].inputs \in Seq(Operands(S)) /\ S.ops[o].outputs \in Seq(Operands(S))
    BY DEF Sound
  <2>4. DOMAIN U.ops[v].inputs = DOMAIN S.ops[o].inputs /\ DOMAIN U.ops[v].outputs = DOMAIN S.ops[o].outputs
    BY <2>2
  <2>5. Len(U.ops[v].inputs) = Len(S.ops[o].inputs) /\ Len(U.ops[v].outputs) = Len(S.ops[o].outputs)
    BY <2>3, <2>4
  <2>6. ASSUME NEW i \in DOMAIN U.ops[v].inputs PROVE S.ops[o].inputs[i] = g[U.ops[v].inputs[i]]
    <3>1. U.ops[v].inputs[i] = userOperandOf[S.ops[o].inputs[i]] /\ S.ops[o].inputs[i] \in Operands(S)
      BY <2>2, <2>3, <2>4
    <3> QED BY <1>2, <3>1
  <2>7. ASSUME NEW i \in DOMAIN U.ops[v].outputs PROVE S.ops[o].outputs[i] = g[U.ops[v].outputs[i]]
    <3>1. U.ops[v].outputs[i] = userOperandOf[S.ops[o].outputs[i]] /\ S.ops[o].outputs[i] \in Operands(S)
      BY <2>2, <2>3, <2>4
    <3> QED BY <1>2, <3>1
  <2> QED BY <2>1, <2>2, <2>5, <2>6, <2>7
<1>9. f \in [Ops(U) -> Ops(S)] /\ g \in [Operands(U) -> Operands(S)]
  BY <1>6, <1>7 DEF MapsInv
<1>10. /\ \A v, w \in Ops(U) : f[v] = f[w] => v = w
       /\ \A y, z \in Operands(U) : g[y] = g[z] => y = z
  BY <1>6, <1>7
<1> QED BY <1>1, <1>6, <1>8, <1>9, <1>10 DEF Corresponds

-----------------------------------------------------------------------------
(* Binding and rolling back one direction with the other. *)

Converse(f, g) == \A x \in DOMAIN f, y \in DOMAIN g : f[x] = y <=> g[y] = x

\* The trail holds what f binds, once.
OnTrail(bound, f) ==
  /\ \A i, j \in DOMAIN bound : bound[i] = bound[j] => i = j
  /\ \A x \in DOMAIN f : f[x] # Unmatched <=> \E i \in DOMAIN bound : bound[i] = x

LEMMA BindKeeps ==
  ASSUME NEW n \in Nat, NEW m \in Nat,
         NEW f \in [1 .. n -> 1 .. m \cup {Unmatched}], NEW g \in [1 .. m -> 1 .. n \cup {Unmatched}],
         NEW bound \in Seq(1 .. n), NEW x \in 1 .. n, NEW y \in 1 .. m,
         Converse(f, g), OnTrail(bound, f), f[x] = Unmatched, g[y] = Unmatched
  PROVE  /\ [f EXCEPT ![x] = y] \in [1 .. n -> 1 .. m \cup {Unmatched}]
         /\ [g EXCEPT ![y] = x] \in [1 .. m -> 1 .. n \cup {Unmatched}]
         /\ Append(bound, x) \in Seq(1 .. n)
         /\ Converse([f EXCEPT ![x] = y], [g EXCEPT ![y] = x])
         /\ OnTrail(Append(bound, x), [f EXCEPT ![x] = y])
<1> DEFINE f2 == [f EXCEPT ![x] = y]
           g2 == [g EXCEPT ![y] = x]
           b2 == Append(bound, x)
<1>1. /\ f2 \in [1 .. n -> 1 .. m \cup {Unmatched}] /\ g2 \in [1 .. m -> 1 .. n \cup {Unmatched}]
      /\ f2[x] = y /\ \A z \in 1 .. n : z # x => f2[z] = f[z]
      /\ g2[y] = x /\ \A z \in 1 .. m : z # y => g2[z] = g[z]
  OBVIOUS
<1>2. /\ b2 \in Seq(1 .. n) /\ DOMAIN b2 = 1 .. Len(bound) + 1 /\ b2[Len(bound) + 1] = x
      /\ DOMAIN bound = 1 .. Len(bound) /\ Len(bound) \in Nat
      /\ \A i \in 1 .. Len(bound) : b2[i] = bound[i] /\ bound[i] \in 1 .. n
  OBVIOUS
<1>3. \A i \in 1 .. Len(bound) : bound[i] # x
  BY <1>2 DEF OnTrail
<1> HIDE DEF f2, g2, b2
<1>4. Converse(f2, g2)
  <2> SUFFICES ASSUME NEW u \in 1 .. n, NEW v \in 1 .. m PROVE f2[u] = v <=> g2[v] = u
    BY <1>1 DEF Converse
  <2>1. f[u] = v <=> g[v] = u
    BY DEF Converse
  <2>2. 0 \notin 1 .. n /\ 0 \notin 1 .. m
    OBVIOUS
  <2>3. CASE u = x /\ v = y
    BY <1>1, <2>3
  <2>4. CASE u = x /\ v # y
    BY <1>1, <2>1, <2>2, <2>4 DEF Unmatched
  <2>5. CASE u # x /\ v = y
    BY <1>1, <2>1, <2>2, <2>5 DEF Unmatched
  <2>6. CASE u # x /\ v # y
    BY <1>1, <2>1, <2>6
  <2> QED BY <2>3, <2>4, <2>5, <2>6
<1>5. ASSUME NEW i \in DOMAIN b2, NEW j \in DOMAIN b2, b2[i] = b2[j] PROVE i = j
  <2>1. \A k \in DOMAIN b2 : k \in 1 .. Len(bound) \/ k = Len(bound) + 1
    BY <1>2
  <2>2. CASE i \in 1 .. Len(bound) /\ j \in 1 .. Len(bound)
    BY <1>2, <1>5, <2>2 DEF OnTrail
  <2>3. CASE i = Len(bound) + 1 /\ j \in 1 .. Len(bound)
    BY <1>2, <1>3, <1>5, <2>3
  <2>4. CASE i \in 1 .. Len(bound) /\ j = Len(bound) + 1
    BY <1>2, <1>3, <1>5, <2>4
  <2> QED BY <2>1, <2>2, <2>3, <2>4
<1>6. ASSUME NEW z \in 1 .. n PROVE f2[z] # Unmatched <=> \E i \in DOMAIN b2 : b2[i] = z
  <2>1. CASE z = x
    <3>1. y # Unmatched /\ Len(bound) + 1 \in DOMAIN b2
      BY <1>2 DEF Unmatched
    <3> QED BY <1>1, <1>2, <2>1, <3>1
  <2>2. CASE z # x
    <3>1. ASSUME NEW i \in DOMAIN b2, b2[i] = z PROVE i \in DOMAIN bound /\ bound[i] = z
      <4>1. i # Len(bound) + 1
        BY <1>2, <2>2, <3>1
      <4>2. i \in 1 .. Len(bound)
        BY <1>2, <4>1
      <4> QED BY <1>2, <3>1, <4>2
    <3>2. ASSUME NEW i \in DOMAIN bound, bound[i] = z PROVE i \in DOMAIN b2 /\ b2[i] = z
      BY <1>2, <3>2
    <3> QED BY <1>1, <2>2, <3>1, <3>2 DEF OnTrail
  <2> QED BY <2>1, <2>2
<1>7. OnTrail(b2, f2)
  BY <1>1, <1>5, <1>6 DEF OnTrail
<1> QED BY <1>1, <1>2, <1>4, <1>7 DEF f2, g2, b2

\* Two directions of a mapping of 1 .. n to 1 .. m, and the trail of the first.
Bindings(n, m, f, g, bound) ==
  /\ f \in [1 .. n -> 1 .. m \cup {Unmatched}] /\ g \in [1 .. m -> 1 .. n \cup {Unmatched}]
  /\ bound \in Seq(1 .. n)
  /\ Converse(f, g) /\ OnTrail(bound, f)

\* What rollback() does to them.
RolledBack(c, f, g, bound, f2, g2, bound2) ==
  /\ f2 = Cleared(f, Dropped(bound, c))
  /\ g2 = Cleared(g, {f[x] : x \in Dropped(bound, c)})
  /\ bound2 = SubSeq(bound, 1, c)

LEMMA PrefixOf ==
  ASSUME NEW A, NEW s \in Seq(A), NEW c \in 0 .. Len(s)
  PROVE  /\ SubSeq(s, 1, c) \in Seq(A) /\ Len(SubSeq(s, 1, c)) = c /\ DOMAIN SubSeq(s, 1, c) = 1 .. c
         /\ \A i \in 1 .. c : SubSeq(s, 1, c)[i] = s[i]
OBVIOUS

LEMMA RollbackKeeps ==
  ASSUME NEW n \in Nat, NEW m \in Nat, NEW f, NEW g, NEW bound, Bindings(n, m, f, g, bound),
         NEW c \in 0 .. Len(bound),
         NEW f2, NEW g2, NEW b2, RolledBack(c, f, g, bound, f2, g2, b2)
  PROVE  /\ Bindings(n, m, f2, g2, b2)
         /\ Len(b2) = c /\ \A i \in 1 .. c : b2[i] = bound[i]
<1> USE DEF Bindings, RolledBack
<1> DEFINE D == Dropped(bound, c)
<1>1. /\ f2 \in [1 .. n -> 1 .. m \cup {Unmatched}]
      /\ \A z \in 1 .. n : f2[z] = IF z \in D THEN Unmatched ELSE f[z]
  BY DEF Cleared
<1>2. /\ g2 \in [1 .. m -> 1 .. n \cup {Unmatched}]
      /\ \A z \in 1 .. m : g2[z] = IF z \in {f[x] : x \in D} THEN Unmatched ELSE g[z]
  BY DEF Cleared
<1>3. /\ b2 \in Seq(1 .. n) /\ Len(b2) = c /\ DOMAIN b2 = 1 .. c
      /\ \A i \in 1 .. c : b2[i] = bound[i]
      /\ c \in Nat /\ Len(bound) \in Nat /\ c <= Len(bound) /\ DOMAIN bound = 1 .. Len(bound)
      /\ \A i \in 1 .. Len(bound) : bound[i] \in 1 .. n
  <2>1. bound \in Seq(1 .. n) /\ b2 = SubSeq(bound, 1, c)
    OBVIOUS
  <2>2. /\ b2 \in Seq(1 .. n) /\ Len(b2) = c /\ DOMAIN b2 = 1 .. c
        /\ \A i \in 1 .. c : b2[i] = bound[i]
    <3> HIDE DEF Bindings, RolledBack
    <3> QED BY <2>1, PrefixOf
  <2>3. Len(bound) \in Nat /\ DOMAIN bound = 1 .. Len(bound) /\ \A i \in 1 .. Len(bound) : bound[i] \in 1 .. n
    <3> HIDE DEF Bindings, RolledBack
    <3> QED BY <2>1
  <2>4. c \in Nat /\ c <= Len(bound)
    <3> HIDE DEF Bindings, RolledBack
    <3> QED BY <2>3
  <2> HIDE DEF Bindings, RolledBack
  <2> QED BY <2>2, <2>3, <2>4
<1>4. \A z : z \in D <=> \E i \in c + 1 .. Len(bound) : bound[i] = z
  BY DEF Dropped
<1>5. D \subseteq 1 .. n
  BY <1>3, <1>4
<1> HIDE DEF D
<1>6. Converse(f2, g2)
  <2> SUFFICES ASSUME NEW u \in 1 .. n, NEW v \in 1 .. m PROVE f2[u] = v <=> g2[v] = u
    BY <1>1, <1>2 DEF Converse
  <2>1. u # Unmatched /\ v # Unmatched
    BY DEF Unmatched
  <2>2. \A x \in 1 .. n : f[x] = v <=> g[v] = x
    BY DEF Converse
  <2>3. ASSUME f2[u] = v PROVE g2[v] = u
    <3>1. u \notin D /\ f[u] = v
      BY <1>1, <2>1, <2>3
    <3>2. v \notin {f[x] : x \in D}
      BY <1>5, <2>2, <3>1
    <3> QED BY <1>2, <2>2, <3>1, <3>2
  <2>4. ASSUME g2[v] = u PROVE f2[u] = v
    <3>1. v \notin {f[x] : x \in D} /\ g[v] = u
      BY <1>2, <2>1, <2>4
    <3>2. f[u] = v /\ u \notin D
      BY <2>2, <3>1
    <3> QED BY <1>1, <3>2
  <2> QED BY <2>3, <2>4
<1>7. \A i, j \in DOMAIN b2 : b2[i] = b2[j] => i = j
  <2> SUFFICES ASSUME NEW i \in 1 .. c, NEW j \in 1 .. c, b2[i] = b2[j] PROVE i = j
    BY <1>3
  <2>1. i \in DOMAIN bound /\ j \in DOMAIN bound /\ bound[i] = bound[j]
    BY <1>3
  <2> QED BY <2>1 DEF OnTrail
<1>8. ASSUME NEW z \in 1 .. n PROVE f2[z] # Unmatched <=> \E i \in DOMAIN b2 : b2[i] = z
  <2>1. f[z] # Unmatched <=> \E i \in DOMAIN bound : bound[i] = z
    BY DEF OnTrail
  <2>2. CASE z \in D
    <3>1. PICK k \in c + 1 .. Len(bound) : bound[k] = z
      BY <1>4, <2>2
    <3>2. \A i \in 1 .. c : bound[i] # z
      <4> SUFFICES ASSUME NEW i \in 1 .. c, bound[i] = z PROVE FALSE
        OBVIOUS
      <4>1. i \in DOMAIN bound /\ k \in DOMAIN bound /\ i # k
        BY <1>3, <3>1
      <4> QED BY <3>1, <4>1 DEF OnTrail
    <3> QED BY <1>1, <1>3, <2>2, <3>2
  <2>3. CASE z \notin D
    <3>1. ASSUME NEW i \in DOMAIN bound, bound[i] = z PROVE i \in 1 .. c
      <4>1. i \in 1 .. Len(bound) /\ i \notin c + 1 .. Len(bound)
        BY <1>3, <1>4, <2>3, <3>1
      <4> QED BY <1>3, <4>1
    <3>2. \A i \in 1 .. c : i \in DOMAIN bound
      BY <1>3
    <3> QED BY <1>1, <1>3, <2>1, <2>3, <3>1, <3>2
  <2> QED BY <2>2, <2>3
<1>9. OnTrail(b2, f2)
  BY <1>1, <1>7, <1>8 DEF OnTrail
<1> QED BY <1>1, <1>2, <1>3, <1>6, <1>9

\* A trail without repetitions holds an element once or not at all.
LEMMA TrailCounts ==
  ASSUME NEW bound, NEW f, OnTrail(bound, f), NEW x \in DOMAIN f
  PROVE  Cardinality({i \in DOMAIN bound : bound[i] = x}) = IF f[x] = Unmatched THEN 0 ELSE 1
<1> DEFINE At == {i \in DOMAIN bound : bound[i] = x}
<1>1. CASE f[x] = Unmatched
  <2>1. At = {}
    BY <1>1 DEF OnTrail
  <2> QED BY <1>1, <2>1, FS_EmptySet
<1>2. CASE f[x] # Unmatched
  <2>1. PICK i \in DOMAIN bound : bound[i] = x
    BY <1>2 DEF OnTrail
  <2>2. At = {i}
    BY <2>1 DEF OnTrail
  <2> QED BY <1>2, <2>2, FS_Singleton
<1> QED BY <1>1, <1>2

-----------------------------------------------------------------------------
(* The invariant. *)

Searching == {"select", "try", "bind", "undo", "rest", "validate"}

\* Past the comparison the keys are equal.
ControlInv ==
  /\ user \in DOMAIN Patterns /\ supported \in DOMAIN Patterns
  /\ pc \in {"color", "key", "pair", "done"} \cup Searching
  /\ pc = "done" <=> outcome # "none"
  /\ pc \in {"pair"} \cup Searching => SameKey
  /\ pc \in {"color", "key", "pair"} => frames = <<>>
  /\ pc \in Searching \ {"select"} => frames # <<>>

FrameType == [op : Ops(S) \cup {None}, tried : Nat, operands : Nat, ops : Nat]

StackType ==
  /\ boundOperands \in Seq(Operands(S)) /\ boundOps \in Seq(Ops(S))
  /\ frames \in Seq(FrameType)
  /\ todo \in Seq(Operands(S) \X Operands(U))

TrailInv ==
  outcome # "PAIRED" =>
    /\ Converse(userOperandOf, supportedOperandOf) /\ Converse(userOpOf, supportedOpOf)
    /\ OnTrail(boundOperands, userOperandOf) /\ OnTrail(boundOps, userOpOf)

\* Checkpoints grow from call to call, and the calls around the innermost one
\* have bound the operation they selected right behind theirs.
FramesInv ==
  /\ \A i \in DOMAIN frames :
       frames[i].operands <= Len(boundOperands) /\ frames[i].ops <= Len(boundOps)
  /\ \A i, j \in DOMAIN frames :
       i < j => /\ frames[i].op # None
                /\ frames[i].operands <= frames[j].operands /\ frames[i].ops < frames[j].ops
                /\ boundOps[frames[i].ops + 1] = frames[i].op

\* So has the innermost one, except before it takes its next candidate.
TopInv ==
  frames # <<>> =>
    /\ pc \in {"select", "try", "bind"} => Top.op # None
    /\ pc = "try" => userOpOf[Top.op] = Unmatched
    /\ pc \in {"select", "bind", "undo"} /\ Top.op # None =>
         Top.ops < Len(boundOps) /\ boundOps[Top.ops + 1] = Top.op
    /\ pc \in {"rest", "validate"} => Top.op = None

Inv ==
  ControlInv /\ MapsInv /\ StackType /\ TrailInv /\ FramesInv /\ TopInv /\ MatchIsIsomorphism

-----------------------------------------------------------------------------
(* The steps. *)

LEMMA SoundHere == ControlInv => Sound(U) /\ Sound(S)
BY PatternsAreSound DEF ControlInv, U, S

\* Nothing is bound, and no call is running.
LEMMA InitInv == Init => Inv
<1> SUFFICES ASSUME Init PROVE Inv
  OBVIOUS
<1>1. ControlInv
  BY DEF Init, ControlInv, Searching
<1>2. MapsInv /\ StackType
  BY DEF Init, MapsInv, StackType
<1>3. Sound(U) /\ Sound(S)
  BY <1>1, SoundHere
<1>4. TrailInv
  BY <1>3 DEF Init, TrailInv, Converse, OnTrail, Unmatched, Sound
<1>5. FramesInv /\ TopInv /\ MatchIsIsomorphism
  BY DEF Init, FramesInv, TopInv, MatchIsIsomorphism, Matched
<1> QED BY <1>1, <1>2, <1>4, <1>5 DEF Inv

\* A step that leaves the maps and the calls alone and does not match.
LEMMA QuietKeeps ==
  ASSUME Inv, pc # "done", UNCHANGED <<user, supported, maps, frames, todo>>, outcome' \notin {"PAIRED", "SEARCHED"}
  PROVE  MapsInv' /\ StackType' /\ TrailInv' /\ FramesInv' /\ MatchIsIsomorphism'
<1>1. U' = U /\ S' = S
  BY DEF U, S
<1>2. outcome = "none"
  BY DEF Inv, ControlInv
<1>3. MapsInv' /\ StackType'
  BY <1>1 DEF Inv, MapsInv, StackType, FrameType, maps
<1>4. TrailInv'
  BY <1>2 DEF Inv, TrailInv, maps
<1>5. FramesInv'
  BY DEF Inv, FramesInv, maps
<1>6. MatchIsIsomorphism'
  BY DEF MatchIsIsomorphism, Matched
<1> QED BY <1>3, <1>4, <1>5, <1>6

LEMMA SameKeyStays == UNCHANGED given => (SameKey' <=> SameKey) /\ U' = U /\ S' = S
BY DEF given, SameKey, UserColors, SupportedColors, U, S

LEMMA ColorBothKeeps ==
  ASSUME Inv, ColorBoth
  PROVE  Inv'
<1>1. /\ pc = "color" /\ UNCHANGED <<user, supported, maps, frames, todo>>
      /\ \/ pc' \in {"key", "color"} /\ outcome' = outcome
         \/ pc' = "done" /\ outcome' = "UNSUPPORTED"
  BY DEF ColorBoth, Goto, End
<1>2. outcome = "none"
  BY <1>1 DEF Inv, ControlInv
<1>3. MapsInv' /\ StackType' /\ TrailInv' /\ FramesInv' /\ MatchIsIsomorphism'
  BY <1>1, <1>2, QuietKeeps
<1>4. ControlInv' /\ TopInv'
  BY <1>1, <1>2 DEF Inv, ControlInv, TopInv, Searching
<1> QED BY <1>3, <1>4 DEF Inv

LEMMA CompareKeeps ==
  ASSUME Inv, Compare
  PROVE  Inv'
<1>1. /\ pc = "key" /\ UNCHANGED <<given, maps, frames, todo>>
      /\ \/ pc' = "pair" /\ outcome' = outcome /\ SameKey
         \/ pc' = "done" /\ outcome' = "UNSUPPORTED"
  BY DEF Compare, Goto, End
<1>2. outcome = "none" /\ (SameKey' <=> SameKey) /\ UNCHANGED <<user, supported>>
  BY <1>1, SameKeyStays DEF Inv, ControlInv, given
<1>3. MapsInv' /\ StackType' /\ TrailInv' /\ FramesInv' /\ MatchIsIsomorphism'
  BY <1>1, <1>2, QuietKeeps
<1>4. ControlInv'
  BY <1>1, <1>2 DEF Inv, ControlInv, Searching
<1>5. TopInv'
  BY <1>1 DEF TopInv
<1> QED BY <1>3, <1>4, <1>5 DEF Inv

LEMMA PairKeeps ==
  ASSUME Inv, Pair
  PROVE  Inv'
<1>1. pc = "pair" /\ UNCHANGED <<given, userOperandOf, userOpOf, boundOperands, boundOps, frames, todo>>
  BY DEF Pair
<1>2. /\ outcome = "none" /\ SameKey /\ (SameKey' <=> SameKey) /\ U' = U /\ S' = S
      /\ UNCHANGED <<user, supported>>
  BY <1>1, SameKeyStays DEF Inv, ControlInv, given
<1>3. Sound(U) /\ Sound(S)
  BY SoundHere DEF Inv
<1>4. CASE Verified(OperandsPaired, OpsPaired)
  <2>1. /\ supportedOperandOf' = OperandsPaired /\ supportedOpOf' = OpsPaired
        /\ pc' = "done" /\ outcome' = "PAIRED"
    BY <1>4 DEF Pair, End
  <2>2. Corresponds(U, S, OpsPaired, OperandsPaired)
    BY <1>2, <1>3, <1>4, VerifiedCorresponds
  <2>3. Corresponds(U, S, supportedOpOf, supportedOperandOf)'
    BY <1>2, <2>1, <2>2 DEF Corresponds
  <2>4. Sound(U)' /\ Sound(S)'
    BY <1>2, <1>3 DEF Sound
  <2>5. MatchIsIsomorphism'
    <3> HIDE DEF U, S
    <3>1. /\ IsIsomorphism(U, S, OpsPaired)
          /\ \A p \in PortPairs(U, S, OpsPaired) : OperandsPaired[p[1]] = p[2]
      BY <1>3, <2>2, CorrespondenceIsIsomorphism
    <3> QED BY <1>2, <2>1, <2>2, <3>1 DEF MatchIsIsomorphism, Corresponds
  <2>6. MapsInv' /\ StackType'
    BY <1>1, <1>2, <2>1, <2>2 DEF Inv, MapsInv, StackType, FrameType, Corresponds
  <2>7. TrailInv' /\ FramesInv' /\ TopInv'
    BY <1>1, <2>1 DEF Inv, TrailInv, FramesInv, TopInv
  <2>8. ControlInv'
    BY <1>1, <1>2, <2>1 DEF Inv, ControlInv, Searching
  <2> QED BY <2>5, <2>6, <2>7, <2>8 DEF Inv
<1>5. CASE ~Verified(OperandsPaired, OpsPaired)
  <2>1. pc' = "select" /\ outcome' = outcome /\ UNCHANGED maps
    BY <1>1, <1>5 DEF Pair, Goto, maps
  <2>2. MapsInv' /\ StackType' /\ TrailInv' /\ FramesInv' /\ MatchIsIsomorphism'
    BY <1>1, <1>2, <2>1, QuietKeeps
  <2>3. ControlInv' /\ TopInv'
    BY <1>1, <1>2, <2>1 DEF Inv, ControlInv, TopInv, Searching
  <2> QED BY <2>2, <2>3 DEF Inv
<1> QED BY <1>4, <1>5

\* What a step of the search may rely on.
LEMMA InSearch ==
  ASSUME Inv, pc \in Searching, UNCHANGED given
  PROVE  /\ U' = U /\ S' = S /\ SameKey /\ SameKey' /\ UNCHANGED <<user, supported>>
         /\ outcome = "none" /\ Sound(U) /\ Sound(S)
         /\ MapsInv /\ StackType /\ FramesInv /\ TopInv
         /\ Converse(userOperandOf, supportedOperandOf) /\ Converse(userOpOf, supportedOpOf)
         /\ OnTrail(boundOperands, userOperandOf) /\ OnTrail(boundOps, userOpOf)
         /\ Len(boundOperands) \in Nat /\ Len(boundOps) \in Nat
<1>1. outcome = "none" /\ SameKey
  BY DEF Inv, ControlInv, Searching
<1>2. U' = U /\ S' = S /\ SameKey' /\ UNCHANGED <<user, supported>>
  BY <1>1, SameKeyStays DEF given
<1>3. Len(boundOperands) \in Nat /\ Len(boundOps) \in Nat
  BY DEF Inv, StackType
<1> QED BY <1>1, <1>2, <1>3, SoundHere DEF Inv, TrailInv

\* The control part of a step of the search.
LEMMA SearchControl ==
  ASSUME Inv, pc \in Searching, UNCHANGED given,
         \/ pc' \in Searching /\ outcome' = outcome /\ (pc' # "select" => frames' # <<>>)
         \/ pc' = "done" /\ outcome' \in {"UNSUPPORTED", "SEARCHED"}
  PROVE  ControlInv'
<1>1. outcome = "none" /\ SameKey' /\ UNCHANGED <<user, supported>>
  BY InSearch
<1> QED BY <1>1 DEF Inv, ControlInv, Searching

LEMMA TopOf ==
  ASSUME StackType, frames # <<>>
  PROVE  /\ Len(frames) \in Nat /\ Len(frames) >= 1 /\ DOMAIN frames = 1 .. Len(frames)
         /\ Len(frames) \in DOMAIN frames /\ Top = frames[Len(frames)] /\ Top \in FrameType
         /\ \A i \in DOMAIN frames : frames[i] \in FrameType
BY DEF StackType, Top

\* A call selects an operation, or none is left.
LEMMA SelectKeeps ==
  ASSUME Inv, Select
  PROVE  Inv'
<1> DEFINE nOperands == Len(boundOperands)
           nOps == Len(boundOps)
<1>1. /\ pc = "select" /\ UNCHANGED <<given, maps, todo>> /\ outcome' = outcome
  BY DEF Select, Goto
<1>2. /\ U' = U /\ S' = S /\ outcome = "none" /\ StackType /\ MapsInv /\ FramesInv /\ TopInv
      /\ Sound(S) /\ nOperands \in Nat /\ nOps \in Nat
  BY <1>1, InSearch DEF Searching
<1>3. PICK op \in Ops(S) \cup {None} :
        /\ frames' = Append(frames, [op |-> op, tried |-> 0, operands |-> nOperands, ops |-> nOps])
        /\ \/ op = None /\ pc' = "rest"
           \/ op # None /\ pc' = "try" /\ userOpOf[op] = Unmatched
  <2>1. CASE OpenOps = {}
    BY <2>1 DEF Select, Frame, Goto
  <2>2. CASE OpenOps # {}
    <3>1. PICK o \in OpenOps : frames' = Append(frames, Frame(o, 0)) /\ pc' = "try"
      BY <2>2 DEF Select, Goto
    <3>2. o \in Ops(S) /\ o # None /\ userOpOf[o] = Unmatched
      BY <1>2, MatcherAssumption DEF OpenOps, Sound
    <3> QED BY <3>1, <3>2 DEF Frame
  <2> QED BY <2>1, <2>2
<1> DEFINE new == [op |-> op, tried |-> 0, operands |-> nOperands, ops |-> nOps]
           n == Len(frames)
<1>4. new \in FrameType
  BY <1>2 DEF FrameType
<1>5. /\ n \in Nat /\ frames' \in Seq(FrameType) /\ Len(frames') = n + 1 /\ frames'[n + 1] = new
      /\ DOMAIN frames' = 1 .. n + 1 /\ \A i \in 1 .. n : frames'[i] = frames[i]
      /\ DOMAIN frames = 1 .. n
  BY <1>2, <1>3, <1>4 DEF StackType
<1>6. MapsInv' /\ StackType'
  BY <1>1, <1>2, <1>5 DEF MapsInv, StackType, FrameType, maps
<1>7. TrailInv'
  BY <1>1 DEF Inv, TrailInv, maps
<1>8. FramesInv'
  <2> HIDE DEF new, n
  <2>1. /\ \A i \in 1 .. n : frames[i] \in FrameType
        /\ new.op = op /\ new.operands = nOperands /\ new.ops = nOps
    BY <1>2, <1>5 DEF StackType, new
  <2>2. boundOperands' = boundOperands /\ boundOps' = boundOps
    BY <1>1 DEF maps
  <2>3. ASSUME NEW i \in 1 .. n + 1
        PROVE  frames'[i].operands <= nOperands /\ frames'[i].ops <= nOps
    BY <1>2, <1>5, <2>1, <2>3 DEF FramesInv
  <2>4. ASSUME NEW i \in 1 .. n + 1, NEW j \in 1 .. n + 1, i < j
        PROVE  /\ frames'[i].op # None
               /\ frames'[i].operands <= frames'[j].operands /\ frames'[i].ops < frames'[j].ops
               /\ boundOps[frames'[i].ops + 1] = frames'[i].op
    <3>1. CASE j \in 1 .. n
      <4>1. i \in 1 .. n
        BY <1>5, <2>4, <3>1
      <4> QED BY <1>2, <1>5, <2>4, <3>1, <4>1 DEF FramesInv
    <3>2. CASE j = n + 1
      <4>1. i \in 1 .. n
        BY <1>5, <2>4, <3>2
      <4>2. frames # <<>> /\ Top = frames[n]
        BY <1>5, <4>1 DEF Top, n
      <4>3. Top.op # None /\ Top.ops < nOps /\ boundOps[Top.ops + 1] = Top.op
        BY <1>1, <1>2, <4>2 DEF TopInv
      <4>4. CASE i = n
        BY <1>2, <1>5, <2>1, <3>2, <4>2, <4>3, <4>4 DEF FramesInv
      <4>5. CASE i # n
        <5>1. n \in 1 .. n /\ i < n
          BY <1>5, <4>1, <4>5
        <5>2. /\ frames[i].op # None /\ frames[i].operands <= frames[n].operands
              /\ frames[i].ops < frames[n].ops /\ boundOps[frames[i].ops + 1] = frames[i].op
              /\ frames[n].operands <= nOperands /\ frames[n].ops <= nOps
          BY <1>2, <1>5, <4>1, <5>1 DEF FramesInv
        <5>3. /\ frames[i].operands \in Nat /\ frames[i].ops \in Nat
              /\ frames[n].operands \in Nat /\ frames[n].ops \in Nat
          BY <2>1, <4>1, <5>1 DEF FrameType
        <5>4. frames'[i] = frames[i] /\ frames'[j].operands = nOperands /\ frames'[j].ops = nOps
          BY <1>5, <2>1, <3>2, <4>1
        <5>5. frames[i].operands <= nOperands /\ frames[i].ops < nOps
          <6> HIDE DEF nOperands, nOps
          <6> QED BY <1>2, <5>2, <5>3
        <5> QED BY <5>2, <5>4, <5>5
      <4> QED BY <4>4, <4>5
    <3> QED BY <2>4, <3>1, <3>2, <1>5
  <2> QED BY <1>5, <2>2, <2>3, <2>4 DEF FramesInv
<1>9. TopInv'
  <2>1. Top' = new /\ new.op = op
    BY <1>5 DEF Top
  <2>2. userOpOf' = userOpOf
    BY <1>1 DEF maps
  <2> QED BY <1>3, <2>1, <2>2 DEF TopInv
<1>10. MatchIsIsomorphism'
  BY <1>1, <1>2 DEF MatchIsIsomorphism, Matched
<1>11. ControlInv'
  <2>1. frames' # <<>>
    BY <1>5
  <2> QED BY <1>1, <1>3, <2>1, SearchControl DEF Searching
<1> QED BY <1>6, <1>7, <1>8, <1>9, <1>10, <1>11 DEF Inv

LEMMA LongerIsNotEmpty == \A s : Len(s) \in Nat /\ Len(s) >= 1 => s # <<>>
<1>1. Len(<<>>) = 0
  OBVIOUS
<1> QED BY <1>1

\* A call that returns false takes its frame along.
LEMMA FailKeeps ==
  ASSUME StackType, FramesInv, frames # <<>>, Fail
  PROVE  LET n == Len(frames)
         IN  /\ frames' \in Seq(FrameType) /\ Len(frames') = n - 1 /\ DOMAIN frames' = 1 .. n - 1
             /\ \A i \in 1 .. n - 1 : frames'[i] = frames[i]
             /\ \/ n = 1 /\ frames' = <<>> /\ pc' = "done" /\ outcome' = "UNSUPPORTED"
                \/ n > 1 /\ frames' # <<>> /\ pc' = "undo" /\ outcome' = outcome
<1>1. Len(frames) \in Nat /\ Len(frames) >= 1 /\ frames' = SubSeq(frames, 1, Len(frames) - 1)
  BY TopOf DEF Fail
<1>2. /\ frames' \in Seq(FrameType) /\ Len(frames') = Len(frames) - 1
      /\ DOMAIN frames' = 1 .. Len(frames) - 1
      /\ \A i \in 1 .. Len(frames) - 1 : frames'[i] = frames[i]
  <2>1. Len(frames) - 1 \in 0 .. Len(frames) /\ frames \in Seq(FrameType)
    BY <1>1 DEF StackType
  <2> QED BY <1>1, <2>1, PrefixOf
<1>3. CASE Len(frames) = 1
  BY <1>2, <1>3 DEF Fail, End
<1>4. CASE Len(frames) # 1
  <2>1. Len(frames) > 1 /\ Len(frames') \in Nat /\ Len(frames') >= 1
    BY <1>1, <1>2, <1>4
  <2>2. frames' # <<>>
    BY <2>1, LongerIsNotEmpty
  <2> QED BY <1>1, <1>2, <1>4, <2>1, <2>2 DEF Fail, Goto
<1> QED BY <1>1, <1>2, <1>3, <1>4

LEMMA FacingType ==
  ASSUME NEW A, NEW B, NEW left \in Seq(A), NEW right \in Seq(B), Len(left) = Len(right)
  PROVE  Facing(left, right) \in Seq(A \X B)
BY DEF Facing

\* The next candidate, or none.
LEMMA TryKeeps ==
  ASSUME Inv, Try
  PROVE  Inv'
<1> DEFINE n == Len(frames)
           nOperands == Len(boundOperands)
           nOps == Len(boundOps)
<1>1. pc = "try" /\ UNCHANGED given
  BY DEF Try
<1>2. /\ U' = U /\ S' = S /\ outcome = "none" /\ StackType /\ MapsInv /\ FramesInv /\ TopInv
      /\ Sound(S) /\ Sound(U) /\ nOperands \in Nat /\ nOps \in Nat
      /\ Converse(userOpOf, supportedOpOf) /\ OnTrail(boundOps, userOpOf)
      /\ Converse(userOperandOf, supportedOperandOf) /\ OnTrail(boundOperands, userOperandOf)
  BY <1>1, InSearch DEF Searching
<1>3. frames # <<>>
  BY <1>1 DEF Inv, ControlInv, Searching
<1>4. /\ n \in Nat /\ n >= 1 /\ DOMAIN frames = 1 .. n /\ n \in DOMAIN frames
      /\ Top = frames[n] /\ Top \in FrameType /\ \A i \in DOMAIN frames : frames[i] \in FrameType
  BY <1>2, <1>3, TopOf
<1>5. /\ Top.op # None /\ Top.op \in Ops(S) /\ userOpOf[Top.op] = Unmatched
      /\ \A i \in 1 .. n : /\ frames[i].operands \in Nat /\ frames[i].ops \in Nat
                          /\ frames[i].operands <= nOperands /\ frames[i].ops <= nOps
  BY <1>1, <1>2, <1>3, <1>4 DEF TopInv, FrameType, FramesInv
<1>6. CASE Untried = {}
  <2>1. Fail /\ UNCHANGED <<maps, todo>>
    BY <1>6 DEF Try
  <2>2. /\ frames' \in Seq(FrameType) /\ Len(frames') = n - 1 /\ DOMAIN frames' = 1 .. n - 1
        /\ \A i \in 1 .. n - 1 : frames'[i] = frames[i]
        /\ \/ n = 1 /\ frames' = <<>> /\ pc' = "done" /\ outcome' = "UNSUPPORTED"
           \/ n > 1 /\ frames' # <<>> /\ pc' = "undo" /\ outcome' = outcome
    BY <1>2, <1>3, <2>1, FailKeeps
  <2>3. MapsInv' /\ StackType'
    BY <1>2, <2>1, <2>2 DEF MapsInv, StackType, FrameType, maps
  <2>4. TrailInv'
    BY <1>2, <2>1 DEF TrailInv, maps
  <2>5. FramesInv'
    <3>1. \A i \in 1 .. n - 1 : i \in DOMAIN frames
      BY <1>4
    <3> QED BY <1>2, <2>1, <2>2, <3>1 DEF FramesInv, maps
  <2>6. TopInv'
    <3>1. CASE n = 1
      BY <2>2, <3>1 DEF TopInv
    <3>2. CASE n > 1
      <4>1. Top' = frames[n - 1] /\ n - 1 \in 1 .. n - 1 /\ n - 1 \in DOMAIN frames /\ n - 1 < n
        BY <1>4, <2>2, <3>2 DEF Top
      <4>2. /\ frames[n - 1].op # None /\ boundOps[frames[n - 1].ops + 1] = frames[n - 1].op
            /\ frames[n - 1].ops < frames[n].ops /\ frames[n].ops <= nOps
            /\ frames[n - 1].ops \in Nat /\ frames[n].ops \in Nat
        BY <1>2, <1>4, <1>5, <4>1 DEF FramesInv
      <4>3. frames[n - 1].ops < Len(boundOps)
        BY <1>2, <4>2
      <4>4. pc' = "undo" /\ boundOps' = boundOps
        BY <2>1, <2>2, <3>2 DEF maps
      <4> QED BY <4>1, <4>2, <4>3, <4>4 DEF TopInv
    <3> QED BY <1>4, <3>1, <3>2
  <2>7. MatchIsIsomorphism'
    BY <1>2, <2>2 DEF MatchIsIsomorphism, Matched
  <2>8. ControlInv'
    BY <1>1, <2>2, SearchControl DEF Searching
  <2> QED BY <2>3, <2>4, <2>5, <2>6, <2>7, <2>8 DEF Inv
<1>7. CASE Untried # {}
  <2>1. PICK v \in Untried :
          /\ frames' = [frames EXCEPT ![n] = Frame(Top.op, v)]
          /\ userOpOf' = [userOpOf EXCEPT ![Top.op] = v]
          /\ supportedOpOf' = [supportedOpOf EXCEPT ![v] = Top.op]
          /\ boundOps' = Append(boundOps, Top.op)
          /\ todo' = PairsAtPorts(Top.op, v)
          /\ pc' = "bind" /\ outcome' = outcome
          /\ UNCHANGED <<userOperandOf, supportedOperandOf, boundOperands>>
    BY <1>7 DEF Try, Goto
  <2>2. v \in Ops(U) /\ supportedOpOf[v] = Unmatched /\ OpsCompatible(Top.op, v)
    BY DEF Untried, Candidates
  <2> DEFINE o == Top.op
             new == [op |-> o, tried |-> v, operands |-> nOperands, ops |-> nOps]
  <2>3. new \in FrameType
    BY <1>2, <1>5, <2>2 DEF FrameType, Sound
  <2>4. /\ frames' \in Seq(FrameType) /\ Len(frames') = n /\ DOMAIN frames' = 1 .. n /\ frames'[n] = new
        /\ \A i \in 1 .. n : i # n => frames'[i] = frames[i]
    BY <1>2, <1>4, <2>1, <2>3 DEF StackType, Frame
  <2>5. /\ userOpOf' \in [Ops(S) -> Ops(U) \cup {Unmatched}]
        /\ supportedOpOf' \in [Ops(U) -> Ops(S) \cup {Unmatched}]
        /\ boundOps' \in Seq(Ops(S))
        /\ Converse(userOpOf', supportedOpOf') /\ OnTrail(boundOps', userOpOf')
    <3> HIDE DEF o
    <3> DEFINE a == Len(S.ops)
               b == Len(U.ops)
    <3>1. /\ Ops(S) = 1 .. a /\ Ops(U) = 1 .. b /\ a \in Nat /\ b \in Nat
      BY <1>2 DEF Sound
    <3>2. /\ userOpOf \in [1 .. a -> 1 .. b \cup {Unmatched}]
          /\ supportedOpOf \in [1 .. b -> 1 .. a \cup {Unmatched}] /\ boundOps \in Seq(1 .. a)
          /\ o \in 1 .. a /\ v \in 1 .. b /\ userOpOf[o] = Unmatched
      BY <1>2, <1>5, <2>2, <3>1 DEF MapsInv, StackType, o
    <3>3. /\ userOpOf' = [userOpOf EXCEPT ![o] = v] /\ supportedOpOf' = [supportedOpOf EXCEPT ![v] = o]
          /\ boundOps' = Append(boundOps, o)
      BY <2>1 DEF o
    <3> HIDE DEF a, b
    <3>4. Converse(userOpOf, supportedOpOf) /\ OnTrail(boundOps, userOpOf) /\ supportedOpOf[v] = Unmatched
      BY <1>2, <2>2
    <3>5. /\ [userOpOf EXCEPT ![o] = v] \in [1 .. a -> 1 .. b \cup {Unmatched}]
          /\ [supportedOpOf EXCEPT ![v] = o] \in [1 .. b -> 1 .. a \cup {Unmatched}]
          /\ Append(boundOps, o) \in Seq(1 .. a)
          /\ Converse([userOpOf EXCEPT ![o] = v], [supportedOpOf EXCEPT ![v] = o])
          /\ OnTrail(Append(boundOps, o), [userOpOf EXCEPT ![o] = v])
      BY <3>1, <3>2, <3>4, BindKeeps
    <3> QED BY <3>1, <3>3, <3>5
  <2>6. PairsAtPorts(o, v) \in Seq(Operands(S) \X Operands(U))
    <3>1. /\ S.ops[o].inputs \in Seq(Operands(S)) /\ U.ops[v].inputs \in Seq(Operands(U))
          /\ S.ops[o].outputs \in Seq(Operands(S)) /\ U.ops[v].outputs \in Seq(Operands(U))
          /\ Len(S.ops[o].inputs) = Len(U.ops[v].inputs) /\ Len(S.ops[o].outputs) = Len(U.ops[v].outputs)
      BY <1>2, <1>5, <2>2 DEF Sound, OpsCompatible
    <3>2. /\ Facing(S.ops[o].inputs, U.ops[v].inputs) \in Seq(Operands(S) \X Operands(U))
          /\ Facing(S.ops[o].outputs, U.ops[v].outputs) \in Seq(Operands(S) \X Operands(U))
      BY <3>1, FacingType
    <3> QED BY <3>2 DEF PairsAtPorts
  <2>7. MapsInv' /\ StackType'
    BY <1>2, <2>1, <2>4, <2>5, <2>6 DEF MapsInv, StackType, FrameType
  <2>8. TrailInv'
    BY <1>2, <2>1, <2>5 DEF TrailInv
  <2>9. Len(boundOps') = nOps + 1 /\ boundOps'[nOps + 1] = o /\ \A i \in 1 .. nOps : boundOps'[i] = boundOps[i]
    BY <1>2, <1>5, <2>1 DEF StackType
  <2>10. FramesInv'
    <3> HIDE DEF new, n, o, nOps, nOperands
    <3>1. new.op = o /\ new.operands = nOperands /\ new.ops = nOps /\ boundOperands' = boundOperands
      BY <2>1 DEF new
    <3>2. ASSUME NEW i \in 1 .. n PROVE frames'[i].operands <= Len(boundOperands)' /\ frames'[i].ops <= Len(boundOps)'
      <4>1. frames'[i].operands <= nOperands /\ frames'[i].ops <= nOps /\ frames'[i].ops \in Nat
        BY <1>2, <1>5, <2>4, <3>1
      <4> QED BY <1>2, <2>9, <3>1, <4>1 DEF nOperands
    <3>3. ASSUME NEW i \in 1 .. n, NEW j \in 1 .. n, i < j
          PROVE  /\ frames'[i].op # None
                 /\ frames'[i].operands <= frames'[j].operands /\ frames'[i].ops < frames'[j].ops
                 /\ boundOps'[frames'[i].ops + 1] = frames'[i].op
      <4>1. frames'[i] = frames[i] /\ i # n
        BY <1>4, <2>4, <3>3
      <4>2. /\ frames[i].op # None /\ frames[i].operands <= frames[j].operands
            /\ frames[i].ops < frames[j].ops /\ boundOps[frames[i].ops + 1] = frames[i].op
        BY <1>2, <1>4, <3>3 DEF FramesInv
      <4>3. /\ frames[i].ops \in Nat /\ frames[i].operands \in Nat /\ frames[j].ops \in Nat
            /\ frames[j].operands \in Nat /\ frames[j].ops <= nOps /\ frames[j].operands <= nOperands
        BY <1>5
      <4>4. frames[i].ops + 1 \in 1 .. nOps /\ frames[i].operands <= nOperands /\ frames[i].ops < nOps
        BY <1>2, <4>2, <4>3
      <4>5. frames'[i].operands <= frames'[j].operands /\ frames'[i].ops < frames'[j].ops
        BY <2>4, <3>1, <4>1, <4>2, <4>4
      <4> QED BY <2>9, <4>1, <4>2, <4>4, <4>5
    <3> QED BY <2>4, <3>2, <3>3 DEF FramesInv
  <2>11. TopInv'
    <3>1. Top' = new
      BY <2>4 DEF Top
    <3> QED BY <1>2, <1>5, <2>1, <2>9, <3>1 DEF TopInv
  <2>12. MatchIsIsomorphism'
    BY <1>2, <2>1 DEF MatchIsIsomorphism, Matched
  <2>13. ControlInv'
    <3>1. frames' # <<>>
      BY <1>4, <2>4, LongerIsNotEmpty
    <3> QED BY <1>1, <2>1, <3>1, SearchControl DEF Searching
  <2> QED BY <2>7, <2>8, <2>10, <2>11, <2>12, <2>13 DEF Inv
<1> QED BY <1>6, <1>7

\* Two open operands are bound in both directions and on the trail.
LEMMA BindOperandKeeps ==
  ASSUME Inv, pc \in Searching, UNCHANGED <<given, frames>>,
         NEW x \in Operands(S), NEW y \in Operands(U),
         userOperandOf[x] = Unmatched, supportedOperandOf[y] = Unmatched, BindOperand(x, y),
         outcome' = outcome, todo' \in Seq(Operands(S) \X Operands(U))
  PROVE  MapsInv' /\ StackType' /\ TrailInv' /\ FramesInv' /\ MatchIsIsomorphism'
<1> DEFINE a == Len(S.kinds)
           b == Len(U.kinds)
<1>1. /\ U' = U /\ S' = S /\ outcome = "none" /\ StackType /\ MapsInv /\ FramesInv
      /\ Sound(S) /\ Sound(U) /\ Len(boundOperands) \in Nat /\ Len(boundOps) \in Nat
      /\ Converse(userOpOf, supportedOpOf) /\ OnTrail(boundOps, userOpOf)
      /\ Converse(userOperandOf, supportedOperandOf) /\ OnTrail(boundOperands, userOperandOf)
  BY InSearch
<1>2. Operands(S) = 1 .. a /\ Operands(U) = 1 .. b /\ a \in Nat /\ b \in Nat
  BY <1>1 DEF Sound
<1>3. /\ userOperandOf \in [1 .. a -> 1 .. b \cup {Unmatched}]
      /\ supportedOperandOf \in [1 .. b -> 1 .. a \cup {Unmatched}] /\ boundOperands \in Seq(1 .. a)
      /\ x \in 1 .. a /\ y \in 1 .. b
  BY <1>1, <1>2 DEF MapsInv, StackType
<1>4. /\ userOperandOf' = [userOperandOf EXCEPT ![x] = y]
      /\ supportedOperandOf' = [supportedOperandOf EXCEPT ![y] = x]
      /\ boundOperands' = Append(boundOperands, x)
      /\ UNCHANGED <<userOpOf, supportedOpOf, boundOps, frames>>
  BY DEF BindOperand
<1> HIDE DEF a, b
<1>5. /\ [userOperandOf EXCEPT ![x] = y] \in [1 .. a -> 1 .. b \cup {Unmatched}]
      /\ [supportedOperandOf EXCEPT ![y] = x] \in [1 .. b -> 1 .. a \cup {Unmatched}]
      /\ Append(boundOperands, x) \in Seq(1 .. a)
      /\ Converse([userOperandOf EXCEPT ![x] = y], [supportedOperandOf EXCEPT ![y] = x])
      /\ OnTrail(Append(boundOperands, x), [userOperandOf EXCEPT ![x] = y])
  BY <1>1, <1>2, <1>3, BindKeeps
<1>6. MapsInv' /\ StackType'
  BY <1>1, <1>2, <1>4, <1>5 DEF MapsInv, StackType, FrameType
<1>7. TrailInv'
  BY <1>1, <1>4, <1>5 DEF TrailInv
<1>8. FramesInv'
  <2>1. Len(boundOperands') = Len(boundOperands) + 1
    BY <1>3, <1>4
  <2>2. ASSUME NEW i \in DOMAIN frames PROVE frames[i].operands <= Len(boundOperands) + 1
    <3>1. frames[i] \in FrameType /\ frames[i].operands <= Len(boundOperands)
      BY <1>1 DEF StackType, FramesInv
    <3>2. frames[i].operands \in Nat
      BY <3>1 DEF FrameType
    <3> QED BY <1>1, <3>1, <3>2
  <2> QED BY <1>1, <1>4, <2>1, <2>2 DEF FramesInv
<1>9. MatchIsIsomorphism'
  BY <1>1 DEF MatchIsIsomorphism, Matched
<1> QED BY <1>6, <1>7, <1>8, <1>9

\* Compatible operands are each other's, or both open.
LEMMA CompatibleOperands ==
  ASSUME NEW x, NEW y, OperandsCompatible(x, y), userOperandOf[x] # y
  PROVE  userOperandOf[x] = Unmatched /\ supportedOperandOf[y] = Unmatched
BY DEF OperandsCompatible

\* A pair of operands at the ports, or the end of them.
LEMMA BindStepKeeps ==
  ASSUME Inv, Bind
  PROVE  Inv'
<1>1. pc = "bind" /\ UNCHANGED <<given, frames>> /\ outcome' = outcome
  BY DEF Bind, Goto
<1>2. /\ U' = U /\ S' = S /\ outcome = "none" /\ StackType /\ MapsInv /\ FramesInv /\ TopInv
      /\ frames # <<>> /\ UNCHANGED <<user, supported>>
  BY <1>1, InSearch DEF Searching, Inv, ControlInv
<1>3. pc' \in {"select", "bind", "undo"} /\ UNCHANGED <<userOpOf, boundOps>>
  BY DEF Bind, Goto, maps, BindOperand
<1>4. ControlInv'
  BY <1>1, <1>2, <1>3, SearchControl DEF Searching
<1>5. TopInv'
  BY <1>1, <1>2, <1>3 DEF TopInv, Top
<1>6. CASE UNCHANGED maps /\ todo' \in {todo, <<>>}
  <2>1. MapsInv' /\ StackType'
    <3>1. todo' \in Seq(Operands(S) \X Operands(U))
      <4>1. <<>> \in Seq(Operands(S) \X Operands(U)) /\ todo \in Seq(Operands(S) \X Operands(U))
        BY <1>2 DEF StackType
      <4> HIDE DEF U, S
      <4> QED BY <1>6, <4>1
    <3> QED BY <1>1, <1>2, <1>6, <3>1 DEF MapsInv, StackType, FrameType, maps
  <2>2. TrailInv' /\ FramesInv' /\ MatchIsIsomorphism'
    BY <1>1, <1>2, <1>6 DEF Inv, TrailInv, FramesInv, MatchIsIsomorphism, Matched, maps
  <2> QED BY <1>4, <1>5, <2>1, <2>2 DEF Inv
<1>7. CASE todo # <<>> /\ todo' = Tail(todo)
  <2> DEFINE x == Head(todo)[1]
             y == Head(todo)[2]
  <2>1. Tail(todo) \in Seq(Operands(S) \X Operands(U)) /\ x \in Operands(S) /\ y \in Operands(U)
    BY <1>2, <1>7 DEF StackType
  <2>2. CASE UNCHANGED maps
    <3>1. MapsInv' /\ StackType'
      BY <1>1, <1>2, <1>7, <2>1, <2>2 DEF MapsInv, StackType, FrameType, maps
    <3>2. TrailInv' /\ FramesInv' /\ MatchIsIsomorphism'
      BY <1>1, <1>2, <2>2 DEF Inv, TrailInv, FramesInv, MatchIsIsomorphism, Matched, maps
    <3> QED BY <1>4, <1>5, <3>1, <3>2 DEF Inv
  <2>3. CASE ~UNCHANGED maps
    <3>1. OperandsCompatible(x, y) /\ userOperandOf[x] # y /\ BindOperand(x, y)
      BY <1>7, <2>3 DEF Bind
    <3>2. userOperandOf[x] = Unmatched /\ supportedOperandOf[y] = Unmatched
      BY <3>1, CompatibleOperands
    <3> HIDE DEF x, y
    <3>3. MapsInv' /\ StackType' /\ TrailInv' /\ FramesInv' /\ MatchIsIsomorphism'
      BY <1>1, <1>7, <2>1, <3>1, <3>2, BindOperandKeeps DEF Searching
    <3> QED BY <1>4, <1>5, <3>3 DEF Inv
  <2> QED BY <2>2, <2>3
<1> QED BY <1>6, <1>7 DEF Bind

\* An operand at no port, or the end of them.
LEMMA RestKeeps ==
  ASSUME Inv, Rest
  PROVE  Inv'
<1>1. pc = "rest" /\ UNCHANGED <<given, frames, todo>> /\ outcome' = outcome
  BY DEF Rest, Goto
<1>2. /\ U' = U /\ S' = S /\ outcome = "none" /\ StackType /\ MapsInv /\ FramesInv /\ TopInv
      /\ frames # <<>> /\ UNCHANGED <<user, supported>>
  BY <1>1, InSearch DEF Searching, Inv, ControlInv
<1>3. pc' \in {"rest", "validate", "undo"} /\ UNCHANGED <<userOpOf, boundOps>>
  BY DEF Rest, Goto, maps, BindOperand
<1>4. ControlInv'
  BY <1>1, <1>2, <1>3, SearchControl DEF Searching
<1>5. TopInv'
  BY <1>1, <1>2, <1>3 DEF TopInv, Top
<1>6. CASE UNCHANGED maps
  <2>1. MapsInv' /\ StackType'
    BY <1>1, <1>2, <1>6 DEF MapsInv, StackType, FrameType, maps
  <2>2. TrailInv' /\ FramesInv' /\ MatchIsIsomorphism'
    BY <1>1, <1>2, <1>6 DEF Inv, TrailInv, FramesInv, MatchIsIsomorphism, Matched, maps
  <2> QED BY <1>4, <1>5, <2>1, <2>2 DEF Inv
<1>7. CASE ~UNCHANGED maps
  <2>1. PICK x \in OpenOperands : \E y \in Isolated(U) : OperandsCompatible(x, y) /\ BindOperand(x, y)
    BY <1>7 DEF Rest
  <2>2. PICK y \in Isolated(U) : OperandsCompatible(x, y) /\ BindOperand(x, y)
    BY <2>1
  <2>3. x \in Operands(S) /\ y \in Operands(U) /\ userOperandOf[x] = Unmatched
    BY DEF OpenOperands, Isolated
  <2>4. supportedOperandOf[y] = Unmatched
    BY <2>2, <2>3 DEF OperandsCompatible
  <2>5. todo' \in Seq(Operands(S) \X Operands(U))
    BY <1>1, <1>2 DEF StackType
  <2>6. MapsInv' /\ StackType' /\ TrailInv' /\ FramesInv' /\ MatchIsIsomorphism'
    BY <1>1, <2>2, <2>3, <2>4, <2>5, BindOperandKeeps DEF Searching
  <2> QED BY <1>4, <1>5, <2>6 DEF Inv
<1> QED BY <1>6, <1>7

\* What is validated is a correspondence.
LEMMA ValidateKeeps ==
  ASSUME Inv, Validate
  PROVE  Inv'
<1>1. /\ pc = "validate" /\ UNCHANGED <<given, maps, frames, todo>>
      /\ \/ pc' = "done" /\ outcome' = "SEARCHED" /\ Complete
         \/ pc' = "undo" /\ outcome' = outcome
  BY DEF Validate, Goto, End
<1>2. /\ U' = U /\ S' = S /\ outcome = "none" /\ StackType /\ MapsInv /\ FramesInv /\ TopInv
      /\ Sound(U) /\ Sound(S) /\ SameKey /\ frames # <<>> /\ UNCHANGED <<user, supported>>
  BY <1>1, InSearch DEF Searching, Inv, ControlInv
<1>3. MapsInv' /\ StackType'
  BY <1>1, <1>2 DEF MapsInv, StackType, FrameType, maps
<1>4. TrailInv' /\ FramesInv'
  BY <1>1, <1>2 DEF Inv, TrailInv, FramesInv, maps
<1>5. ControlInv' /\ TopInv'
  <2>1. ControlInv'
    BY <1>1, <1>2, SearchControl DEF Searching
  <2>2. TopInv'
    BY <1>1, <1>2 DEF TopInv, Top
  <2> QED BY <2>1, <2>2
<1>6. MatchIsIsomorphism'
  <2>1. CASE outcome' = outcome
    BY <1>2, <2>1 DEF MatchIsIsomorphism, Matched
  <2>2. CASE Complete
    <3>1. Corresponds(U, S, supportedOpOf, supportedOperandOf)
      BY <1>2, <2>2, CompleteCorresponds
    <3>2. /\ IsIsomorphism(U, S, supportedOpOf)
          /\ \A p \in PortPairs(U, S, supportedOpOf) : supportedOperandOf[p[1]] = p[2]
      BY <1>2, <3>1, CorrespondenceIsIsomorphism
    <3>3. supportedOpOf' = supportedOpOf /\ supportedOperandOf' = supportedOperandOf
      BY <1>1 DEF maps
    <3> QED BY <1>2, <3>1, <3>2, <3>3 DEF MatchIsIsomorphism, Corresponds
  <2> QED BY <1>1, <2>1, <2>2
<1> QED BY <1>3, <1>4, <1>5, <1>6 DEF Inv

\* The innermost call gives back what it bound.
LEMMA UndoKeeps ==
  ASSUME Inv, Undo
  PROVE  Inv'
<1> DEFINE n == Len(frames)
           a == Len(S.kinds)
           b == Len(U.kinds)
           c == Len(S.ops)
           d == Len(U.ops)
<1>1. pc = "undo" /\ UNCHANGED <<given, todo>> /\ Rollback(Top.operands, Top.ops)
  BY DEF Undo
<1>2. /\ U' = U /\ S' = S /\ outcome = "none" /\ StackType /\ MapsInv /\ FramesInv /\ TopInv
      /\ Sound(U) /\ Sound(S) /\ Len(boundOperands) \in Nat /\ Len(boundOps) \in Nat
      /\ Converse(userOpOf, supportedOpOf) /\ OnTrail(boundOps, userOpOf)
      /\ Converse(userOperandOf, supportedOperandOf) /\ OnTrail(boundOperands, userOperandOf)
      /\ frames # <<>> /\ UNCHANGED <<user, supported>>
  BY <1>1, InSearch DEF Searching, Inv, ControlInv
<1>3. /\ n \in Nat /\ n >= 1 /\ DOMAIN frames = 1 .. n /\ n \in DOMAIN frames
      /\ Top = frames[n] /\ \A i \in DOMAIN frames : frames[i] \in FrameType
  BY <1>2, TopOf
<1>4. \A i \in 1 .. n : /\ frames[i].operands \in Nat /\ frames[i].operands <= Len(boundOperands)
                        /\ frames[i].ops \in Nat /\ frames[i].ops <= Len(boundOps)
                        /\ frames[i].op \in Ops(S) \cup {None}
  BY <1>2, <1>3 DEF FrameType, FramesInv
<1>5. Top.operands \in 0 .. Len(boundOperands) /\ Top.ops \in 0 .. Len(boundOps)
  BY <1>2, <1>3, <1>4
<1>6. /\ Operands(S) = 1 .. a /\ Operands(U) = 1 .. b /\ a \in Nat /\ b \in Nat
      /\ Ops(S) = 1 .. c /\ Ops(U) = 1 .. d /\ c \in Nat /\ d \in Nat
  BY <1>2 DEF Sound
<1>7. /\ userOperandOf \in [1 .. a -> 1 .. b \cup {Unmatched}]
      /\ supportedOperandOf \in [1 .. b -> 1 .. a \cup {Unmatched}] /\ boundOperands \in Seq(1 .. a)
      /\ userOpOf \in [1 .. c -> 1 .. d \cup {Unmatched}]
      /\ supportedOpOf \in [1 .. d -> 1 .. c \cup {Unmatched}] /\ boundOps \in Seq(1 .. c)
  BY <1>2, <1>6 DEF MapsInv, StackType
<1>8. /\ RolledBack(Top.operands, userOperandOf, supportedOperandOf, boundOperands,
                 userOperandOf', supportedOperandOf', boundOperands')
      /\ RolledBack(Top.ops, userOpOf, supportedOpOf, boundOps, userOpOf', supportedOpOf', boundOps')
  BY <1>1 DEF Rollback, RolledBack
<1> HIDE DEF a, b, c, d
<1>9. /\ Bindings(a, b, userOperandOf', supportedOperandOf', boundOperands')
      /\ Len(boundOperands') = Top.operands
  <2>1. Bindings(a, b, userOperandOf, supportedOperandOf, boundOperands)
    BY <1>2, <1>7 DEF Bindings
  <2> QED BY <1>5, <1>6, <1>8, <2>1, RollbackKeeps
<1>10. /\ Bindings(c, d, userOpOf', supportedOpOf', boundOps')
       /\ Len(boundOps') = Top.ops /\ \A i \in 1 .. Top.ops : boundOps'[i] = boundOps[i]
  <2>1. Bindings(c, d, userOpOf, supportedOpOf, boundOps)
    BY <1>2, <1>7 DEF Bindings
  <2> QED BY <1>5, <1>6, <1>8, <2>1, RollbackKeeps
<1>11. /\ frames' \in Seq(FrameType) /\ DOMAIN frames' = 1 .. Len(frames') /\ Len(frames') <= n
       /\ Len(frames') \in Nat /\ \A i \in 1 .. Len(frames') : frames'[i] = frames[i]
       /\ \/ Top.op = None /\ Len(frames') = n - 1 /\ frames' = <<>> /\ pc' = "done" /\ outcome' = "UNSUPPORTED"
          \/ Top.op = None /\ Len(frames') = n - 1 /\ n > 1 /\ frames' # <<>> /\ pc' = "undo" /\ outcome' = outcome
          \/ Top.op # None /\ frames' = frames /\ pc' = "try" /\ outcome' = outcome
  <2>1. CASE Top.op = None
    <3>1. Fail
      BY <2>1 DEF Undo
    <3>2. /\ frames' \in Seq(FrameType) /\ Len(frames') = n - 1 /\ DOMAIN frames' = 1 .. n - 1
          /\ \A i \in 1 .. n - 1 : frames'[i] = frames[i]
          /\ \/ n = 1 /\ frames' = <<>> /\ pc' = "done" /\ outcome' = "UNSUPPORTED"
             \/ n > 1 /\ frames' # <<>> /\ pc' = "undo" /\ outcome' = outcome
      BY <1>2, <3>1, FailKeeps
    <3> QED BY <1>3, <2>1, <3>2
  <2>2. CASE Top.op # None
    <3>1. frames' = frames /\ pc' = "try" /\ outcome' = outcome
      BY <2>2 DEF Undo, Goto
    <3> QED BY <1>2, <1>3, <2>2, <3>1 DEF StackType
  <2> QED BY <2>1, <2>2
<1>12. MapsInv' /\ StackType'
  BY <1>1, <1>2, <1>6, <1>9, <1>10, <1>11 DEF MapsInv, StackType, FrameType, Bindings
<1>13. TrailInv'
  BY <1>9, <1>10 DEF TrailInv, Bindings
<1>14. FramesInv'
  <2> HIDE DEF n
  <2>1. ASSUME NEW i \in 1 .. n
        PROVE  frames[i].operands <= Top.operands /\ frames[i].ops <= Top.ops
    <3>1. CASE i = n
      BY <1>3, <1>4, <3>1
    <3>2. CASE i # n
      <4>1. i < n
        BY <1>3, <3>2
      <4>2. frames[i].operands <= frames[n].operands /\ frames[i].ops < frames[n].ops
        BY <1>2, <1>3, <4>1 DEF FramesInv
      <4> QED BY <1>3, <1>4, <4>2
    <3> QED BY <3>1, <3>2
  <2>2. ASSUME NEW i \in 1 .. n, NEW j \in 1 .. n, i < j
        PROVE  /\ frames[i].op # None
               /\ frames[i].operands <= frames[j].operands /\ frames[i].ops < frames[j].ops
               /\ boundOps'[frames[i].ops + 1] = frames[i].op
    <3>1. /\ frames[i].op # None
          /\ frames[i].operands <= frames[j].operands /\ frames[i].ops < frames[j].ops
          /\ boundOps[frames[i].ops + 1] = frames[i].op
      BY <1>2, <1>3, <2>2 DEF FramesInv
    <3>2. frames[i].ops \in Nat /\ frames[j].ops \in Nat /\ frames[j].ops <= Top.ops /\ Top.ops \in Nat
      BY <1>3, <1>4, <2>1
    <3>3. frames[i].ops + 1 \in 1 .. Top.ops
      BY <3>1, <3>2
    <3> QED BY <1>10, <3>1, <3>3
  <2>3. \A i \in DOMAIN frames' : i \in 1 .. n /\ frames'[i] = frames[i]
    BY <1>3, <1>11
  <2> QED BY <1>9, <1>10, <2>1, <2>2, <2>3 DEF FramesInv
<1>15. TopInv'
  <2>1. CASE pc' = "done"
    BY <2>1 DEF TopInv
  <2>2. CASE pc' = "undo"
    <3>1. n > 1 /\ Len(frames') = n - 1
      BY <1>11, <2>2
    <3>2. Top' = frames[n - 1] /\ n - 1 \in 1 .. n /\ n - 1 < n
      BY <1>3, <1>11, <3>1 DEF Top
    <3>3. /\ frames[n - 1].ops < frames[n].ops /\ boundOps[frames[n - 1].ops + 1] = frames[n - 1].op
          /\ frames[n - 1].ops \in Nat /\ frames[n].ops \in Nat
      BY <1>2, <1>3, <1>4, <3>2 DEF FramesInv
    <3>4. frames[n - 1].ops + 1 \in 1 .. Top.ops
      BY <1>3, <3>3
    <3>5. Top'.ops < Len(boundOps') /\ boundOps'[Top'.ops + 1] = Top'.op
      BY <1>3, <1>10, <3>2, <3>3, <3>4
    <3> QED BY <2>2, <3>5 DEF TopInv
  <2>3. CASE pc' = "try"
    <3>1. Top.op # None /\ frames' = frames /\ Top' = Top
      BY <1>11, <2>3 DEF Top
    <3>2. Top.ops < Len(boundOps) /\ boundOps[Top.ops + 1] = Top.op
      BY <1>1, <1>2, <3>1 DEF TopInv
    <3>3. Top.ops + 1 \in Top.ops + 1 .. Len(boundOps)
      BY <1>2, <1>5, <3>2
    <3>4. Top.op \in Dropped(boundOps, Top.ops)
      BY <3>2, <3>3 DEF Dropped
    <3>5. Top.op \in DOMAIN userOpOf
      BY <1>3, <1>4, <1>6, <1>7, <3>1
    <3>6. userOpOf'[Top.op] = Unmatched
      BY <1>8, <3>4, <3>5 DEF RolledBack, Cleared
    <3> QED BY <2>3, <3>1, <3>6 DEF TopInv
  <2> QED BY <1>11, <2>1, <2>2, <2>3
<1>16. MatchIsIsomorphism'
  BY <1>2, <1>11 DEF MatchIsIsomorphism, Matched
<1>17. ControlInv'
  BY <1>1, <1>2, <1>11, SearchControl DEF Searching
<1> QED BY <1>12, <1>13, <1>14, <1>15, <1>16, <1>17 DEF Inv

LEMMA NextInv == Inv /\ [Next]_vars => Inv'
<1> SUFFICES ASSUME Inv, [Next]_vars PROVE Inv'
  OBVIOUS
<1>1. CASE UNCHANGED vars
  <2>1. U' = U /\ S' = S /\ (SameKey' <=> SameKey)
    BY <1>1, SameKeyStays DEF vars, U, S
  <2> QED BY <1>1, <2>1
          DEF vars, given, maps, Inv, ControlInv, MapsInv, StackType, FrameType, TrailInv, FramesInv,
              TopInv, Top, MatchIsIsomorphism, Matched
<1>2. CASE Next
  BY <1>1, <1>2, ColorBothKeeps, CompareKeeps, PairKeeps, SelectKeeps, TryKeeps, BindStepKeeps,
     UndoKeeps, RestKeeps, ValidateKeeps DEF Next
<1> QED BY <1>1, <1>2

LEMMA Invariant == Spec => []Inv
BY InitInv, NextInv, PTL DEF Spec

-----------------------------------------------------------------------------
\* Whatever the patterns and however the colors tell their vertices apart, a
\* match is an isomorphism: one that pairs colors and one that was searched.
THEOREM MatchesAreIsomorphisms == Spec => []MatchIsIsomorphism
<1>1. Inv => MatchIsIsomorphism
  BY DEF Inv
<1> QED BY <1>1, Invariant, PTL

\* At every step of the search, also in the middle of bindOp() and after any
\* sequence of rollbacks, both directions and the trail agree.
THEOREM DirectionsAlwaysAgree == Spec => []DirectionsAgree
<1>1. Inv => DirectionsAgree
  <2> SUFFICES ASSUME Inv, outcome # "PAIRED" PROVE DirectionsAgree
    BY DEF DirectionsAgree
  <2>1. /\ DOMAIN userOperandOf = Operands(S) /\ DOMAIN supportedOperandOf = Operands(U)
        /\ DOMAIN userOpOf = Ops(S) /\ DOMAIN supportedOpOf = Ops(U)
    BY DEF Inv, MapsInv
  <2>2. /\ Converse(userOperandOf, supportedOperandOf) /\ Converse(userOpOf, supportedOpOf)
        /\ OnTrail(boundOperands, userOperandOf) /\ OnTrail(boundOps, userOpOf)
    BY DEF Inv, TrailInv
  <2>3. /\ \A x \in Operands(S), y \in Operands(U) : userOperandOf[x] = y <=> supportedOperandOf[y] = x
        /\ \A o \in Ops(S), v \in Ops(U) : userOpOf[o] = v <=> supportedOpOf[v] = o
    BY <2>1, <2>2 DEF Converse
  <2>4. /\ \A x \in Operands(S) :
             Cardinality({i \in DOMAIN boundOperands : boundOperands[i] = x})
               = IF userOperandOf[x] = Unmatched THEN 0 ELSE 1
        /\ \A o \in Ops(S) :
             Cardinality({i \in DOMAIN boundOps : boundOps[i] = o})
               = IF userOpOf[o] = Unmatched THEN 0 ELSE 1
    BY <2>1, <2>2, TrailCounts
  <2> QED BY <2>3, <2>4 DEF DirectionsAgree, Inv, FramesInv
<1> QED BY <1>1, Invariant, PTL

-----------------------------------------------------------------------------
(* Ports of a pattern that is found again in a larger one, or in another. *)

\* Where f takes a port.
Taken(f, q) == [op |-> f[q.op], port |-> q.port]

TakenAll(f, Q) == [q \in Q |-> Taken(f, q)]

\* f and g find b again in c: kinds and ports are kept, and operations of c that
\* are not found touch no operand that is.
Embeds(b, c, f, g) ==
  /\ f \in [Ops(b) -> Ops(c)] /\ \A o, p \in Ops(b) : f[o] = f[p] => o = p
  /\ g \in [Operands(b) -> Operands(c)] /\ \A x, y \in Operands(b) : g[x] = g[y] => x = y
  /\ \A y \in Operands(b) : c.kinds[g[y]] = b.kinds[y]
  /\ \A o \in Ops(b) :
       /\ b.ops[o].kind = c.ops[f[o]].kind
       /\ DOMAIN b.ops[o].inputs = DOMAIN c.ops[f[o]].inputs
       /\ DOMAIN b.ops[o].outputs = DOMAIN c.ops[f[o]].outputs
       /\ \A i \in DOMAIN b.ops[o].inputs : c.ops[f[o]].inputs[i] = g[b.ops[o].inputs[i]]
       /\ \A i \in DOMAIN b.ops[o].outputs : c.ops[f[o]].outputs[i] = g[b.ops[o].outputs[i]]
  /\ \A p \in Ops(c) :
       (\E o \in Ops(b) : f[o] = p)
         \/ \A y \in Operands(b) : /\ \A i \in DOMAIN c.ops[p].inputs : c.ops[p].inputs[i] # g[y]
                                  /\ \A i \in DOMAIN c.ops[p].outputs : c.ops[p].outputs[i] # g[y]

\* The ports that hold y, when s[o] is what is at the ports of o on one side.
Holders(V, s, y) == UNION {{[op |-> o, port |-> i] : i \in {j \in DOMAIN s[o] : s[o][j] = y}} : o \in V}

LEMMA HolderIs ==
  ASSUME NEW V, NEW s, NEW y, NEW q
  PROVE  q \in Holders(V, s, y)
           <=> \E o \in V : \E i \in DOMAIN s[o] : q = [op |-> o, port |-> i] /\ s[o][i] = y
BY DEF Holders

InputsOf(b) == [o \in Ops(b) |-> b.ops[o].inputs]

OutputsOf(b) == [o \in Ops(b) |-> b.ops[o].outputs]

LEMMA PortsAreHolders ==
  ASSUME NEW b, NEW y
  PROVE  /\ Consumers(b, y) = Holders(Ops(b), InputsOf(b), y)
         /\ Producers(b, y) = Holders(Ops(b), OutputsOf(b), y)
<1>1. Consumers(b, y) = Holders(Ops(b), InputsOf(b), y)
  <2>1. ASSUME NEW q \in Consumers(b, y) PROVE q \in Holders(Ops(b), InputsOf(b), y)
    <3>1. q \in InputPorts(b) /\ b.ops[q.op].inputs[q.port] = y
      BY DEF Consumers, InputAt
    <3>2. PICK o \in Ops(b) : \E i \in DOMAIN b.ops[o].inputs : q = [op |-> o, port |-> i]
      BY <3>1 DEF InputPorts
    <3> QED BY <3>1, <3>2, HolderIs DEF InputsOf
  <2>2. ASSUME NEW q \in Holders(Ops(b), InputsOf(b), y) PROVE q \in Consumers(b, y)
    <3>1. PICK o \in Ops(b) : \E i \in DOMAIN InputsOf(b)[o] : q = [op |-> o, port |-> i] /\ InputsOf(b)[o][i] = y
      BY HolderIs
    <3>2. PICK i \in DOMAIN b.ops[o].inputs : q = [op |-> o, port |-> i] /\ b.ops[o].inputs[i] = y
      BY <3>1 DEF InputsOf
    <3>3. q \in InputPorts(b)
      BY <3>2 DEF InputPorts
    <3> QED BY <3>2, <3>3 DEF Consumers, InputAt
  <2> QED BY <2>1, <2>2
<1>2. Producers(b, y) = Holders(Ops(b), OutputsOf(b), y)
  <2>1. ASSUME NEW q \in Producers(b, y) PROVE q \in Holders(Ops(b), OutputsOf(b), y)
    <3>1. q \in OutputPorts(b) /\ b.ops[q.op].outputs[q.port] = y
      BY DEF Producers, OutputAt
    <3>2. PICK o \in Ops(b) : \E i \in DOMAIN b.ops[o].outputs : q = [op |-> o, port |-> i]
      BY <3>1 DEF OutputPorts
    <3> QED BY <3>1, <3>2, HolderIs DEF OutputsOf
  <2>2. ASSUME NEW q \in Holders(Ops(b), OutputsOf(b), y) PROVE q \in Producers(b, y)
    <3>1. PICK o \in Ops(b) : \E i \in DOMAIN OutputsOf(b)[o] : q = [op |-> o, port |-> i] /\ OutputsOf(b)[o][i] = y
      BY HolderIs
    <3>2. PICK i \in DOMAIN b.ops[o].outputs : q = [op |-> o, port |-> i] /\ b.ops[o].outputs[i] = y
      BY <3>1 DEF OutputsOf
    <3>3. q \in OutputPorts(b)
      BY <3>2 DEF OutputPorts
    <3> QED BY <3>2, <3>3 DEF Producers, OutputAt
  <2> QED BY <2>1, <2>2
<1> QED BY <1>1, <1>2

\* One side of the ports of an operand goes one to one to that of another.
LEMMA HoldersTaken ==
  ASSUME NEW V, NEW W, NEW s, NEW t, NEW f, NEW g, NEW X,
         f \in [V -> W], \A o, p \in V : f[o] = f[p] => o = p,
         \A o \in V : /\ DOMAIN s[o] = DOMAIN t[f[o]]
                      /\ \A i \in DOMAIN s[o] : s[o][i] \in X /\ t[f[o]][i] = g[s[o][i]],
         \A x, y \in X : g[x] = g[y] => x = y,
         NEW y \in X,
         \A p \in W : (\E o \in V : f[o] = p) \/ \A i \in DOMAIN t[p] : t[p][i] # g[y]
  PROVE  TakenAll(f, Holders(V, s, y)) \in Bijection(Holders(V, s, y), Holders(W, t, g[y]))
<1> DEFINE Q == Holders(V, s, y)
           R == Holders(W, t, g[y])
           m == TakenAll(f, Q)
<1>1. ASSUME NEW q \in Q
      PROVE  q.op \in V /\ q = [op |-> q.op, port |-> q.port] /\ m[q] \in R
             /\ m[q].op = f[q.op] /\ m[q].port = q.port
  <2>1. PICK o \in V : \E i \in DOMAIN s[o] : q = [op |-> o, port |-> i] /\ s[o][i] = y
    BY HolderIs
  <2>2. PICK i \in DOMAIN s[o] : q = [op |-> o, port |-> i] /\ s[o][i] = y
    BY <2>1
  <2>3. m[q] = [op |-> f[o], port |-> i]
    BY <2>2 DEF TakenAll, Taken
  <2>4. f[o] \in W /\ i \in DOMAIN t[f[o]] /\ t[f[o]][i] = g[y]
    BY <2>2
  <2>5. m[q] \in R
    BY <2>3, <2>4, HolderIs
  <2> QED BY <2>2, <2>3, <2>5
<1>2. ASSUME NEW r \in R PROVE \E q \in Q : m[q] = r
  <2>1. PICK p \in W : \E i \in DOMAIN t[p] : r = [op |-> p, port |-> i] /\ t[p][i] = g[y]
    BY HolderIs
  <2>2. PICK i \in DOMAIN t[p] : r = [op |-> p, port |-> i] /\ t[p][i] = g[y]
    BY <2>1
  <2>3. PICK o \in V : f[o] = p
    BY <2>2
  <2>4. i \in DOMAIN s[o] /\ s[o][i] = y
    BY <2>2, <2>3
  <2> DEFINE q == [op |-> o, port |-> i]
  <2>5. q \in Q
    BY <2>4, HolderIs
  <2>6. m[q] = r
    BY <2>2, <2>3, <2>5 DEF TakenAll, Taken
  <2> QED BY <2>5, <2>6
<1>3. \A q, r \in Q : m[q] = m[r] => q = r
  <2> SUFFICES ASSUME NEW q \in Q, NEW r \in Q, m[q] = m[r] PROVE q = r
    OBVIOUS
  <2>1. f[q.op] = f[r.op] /\ q.port = r.port /\ q.op \in V /\ r.op \in V
    BY <1>1
  <2>2. q.op = r.op
    BY <2>1
  <2> QED BY <1>1, <2>1, <2>2
<1>4. m \in [Q -> R]
  <2>1. m = [q \in Q |-> m[q]]
    BY DEF TakenAll
  <2> HIDE DEF m, Q, R
  <2> QED BY <1>1, <2>1
<1> HIDE DEF m, Q, R
<1>5. m \in Bijection(Q, R)
  BY <1>2, <1>3, <1>4, Fun_IsBij
<1> QED BY <1>5 DEF m, Q, R

LEMMA EmbeddedPorts ==
  ASSUME NEW b, NEW c, NEW f, NEW g, Sound(b), Embeds(b, c, f, g), NEW y \in Operands(b)
  PROVE  /\ TakenAll(f, Consumers(b, y)) \in Bijection(Consumers(b, y), Consumers(c, g[y]))
         /\ TakenAll(f, Producers(b, y)) \in Bijection(Producers(b, y), Producers(c, g[y]))
<1>1. /\ f \in [Ops(b) -> Ops(c)] /\ \A o, p \in Ops(b) : f[o] = f[p] => o = p
      /\ \A x, z \in Operands(b) : g[x] = g[z] => x = z
  BY DEF Embeds
<1>2. \A o \in Ops(b) : /\ InputsOf(b)[o] = b.ops[o].inputs /\ InputsOf(c)[f[o]] = c.ops[f[o]].inputs
                        /\ OutputsOf(b)[o] = b.ops[o].outputs /\ OutputsOf(c)[f[o]] = c.ops[f[o]].outputs
  BY <1>1 DEF InputsOf, OutputsOf
<1>3. ASSUME NEW o \in Ops(b)
      PROVE  /\ \A i \in DOMAIN b.ops[o].inputs : b.ops[o].inputs[i] \in Operands(b)
             /\ \A i \in DOMAIN b.ops[o].outputs : b.ops[o].outputs[i] \in Operands(b)
  <2>1. b.ops[o].inputs \in Seq(Operands(b)) /\ b.ops[o].outputs \in Seq(Operands(b))
    BY DEF Sound
  <2> QED BY <2>1
<1>4. \A o \in Ops(b) : /\ DOMAIN InputsOf(b)[o] = DOMAIN InputsOf(c)[f[o]]
                        /\ \A i \in DOMAIN InputsOf(b)[o] : /\ InputsOf(b)[o][i] \in Operands(b)
                                                           /\ InputsOf(c)[f[o]][i] = g[InputsOf(b)[o][i]]
  BY <1>2, <1>3 DEF Embeds
<1>5. \A o \in Ops(b) : /\ DOMAIN OutputsOf(b)[o] = DOMAIN OutputsOf(c)[f[o]]
                        /\ \A i \in DOMAIN OutputsOf(b)[o] : /\ OutputsOf(b)[o][i] \in Operands(b)
                                                           /\ OutputsOf(c)[f[o]][i] = g[OutputsOf(b)[o][i]]
  BY <1>2, <1>3 DEF Embeds
<1>6. \A p \in Ops(c) :
        (\E o \in Ops(b) : f[o] = p)
          \/ /\ \A i \in DOMAIN InputsOf(c)[p] : InputsOf(c)[p][i] # g[y]
             /\ \A i \in DOMAIN OutputsOf(c)[p] : OutputsOf(c)[p][i] # g[y]
  BY DEF Embeds, InputsOf, OutputsOf
<1>7. TakenAll(f, Holders(Ops(b), InputsOf(b), y))
        \in Bijection(Holders(Ops(b), InputsOf(b), y), Holders(Ops(c), InputsOf(c), g[y]))
  BY <1>1, <1>4, <1>6, HoldersTaken
<1>8. TakenAll(f, Holders(Ops(b), OutputsOf(b), y))
        \in Bijection(Holders(Ops(b), OutputsOf(b), y), Holders(Ops(c), OutputsOf(c), g[y]))
  BY <1>1, <1>5, <1>6, HoldersTaken
<1> QED BY <1>7, <1>8, PortsAreHolders

-----------------------------------------------------------------------------
(* Bags. *)

AllValues(A, va) == {va[a] : a \in A}

BagOf(A, va) == [v \in AllValues(A, va) |-> Cardinality({a \in A : va[a] = v})]

\* A bijection that keeps values keeps the bag of them.
LEMMA BagsMatch ==
  ASSUME NEW A, NEW B, IsFiniteSet(A), NEW m \in Bijection(A, B),
         NEW va, NEW vb, \A a \in A : vb[m[a]] = va[a]
  PROVE  BagOf(A, va) = BagOf(B, vb) /\ AllValues(A, va) = AllValues(B, vb)
<1>1. m \in [A -> B] /\ (\A a, b \in A : m[a] = m[b] => a = b) /\ \A b \in B : \E a \in A : m[a] = b
  BY Fun_BijectionProperties
<1>2. AllValues(A, va) = AllValues(B, vb)
  BY <1>1 DEF AllValues
<1>3. ASSUME NEW v PROVE Cardinality({a \in A : va[a] = v}) = Cardinality({b \in B : vb[b] = v})
  <2> DEFINE P == {a \in A : va[a] = v}
             Q == {b \in B : vb[b] = v}
             h == [a \in P |-> m[a]]
  <2>1. P \subseteq A /\ IsFiniteSet(P)
    BY FS_Subset
  <2>2. h \in [P -> Q] /\ (\A a, b \in P : h[a] = h[b] => a = b) /\ \A b \in Q : \E a \in P : h[a] = b
    <3>1. \A a \in P : h[a] = m[a] /\ m[a] \in Q
      BY <1>1
    <3>2. \A b \in Q : \E a \in P : m[a] = b
      BY <1>1
    <3>3. h = [a \in P |-> h[a]]
      OBVIOUS
    <3>4. \A a, b \in P : m[a] = m[b] => a = b
      BY <1>1
    <3> HIDE DEF h, P, Q
    <3> QED BY <3>1, <3>2, <3>3, <3>4
  <2> HIDE DEF h, P, Q
  <2>3. h \in Bijection(P, Q)
    BY <2>2, Fun_IsBij
  <2>4. ExistsBijection(P, Q)
    BY <2>3, Fun_ExistsBij
  <2>5. Cardinality(P) = Cardinality(Q)
    BY <2>1, <2>4, FS_Bijection
  <2> QED BY <2>5 DEF P, Q
<1> QED BY <1>2, <1>3 DEF BagOf

-----------------------------------------------------------------------------
(* What an operand sees at its ports. *)

Views(w, Q) == [q \in Q |-> <<q.port, w[q.op]>>]

LEMMA PortsFinite ==
  ASSUME NEW b, Sound(b), WellFormed(b), NEW y
  PROVE  IsFiniteSet(Consumers(b, y)) /\ IsFiniteSet(Producers(b, y))
<1>1. ASSUME NEW Q, \A q \in Q : q.op \in Ops(b), \A q, r \in Q : q.op = r.op => q = r
      PROVE  IsFiniteSet(Q)
  <2> DEFINE e == [q \in Q |-> q.op]
  <2>1. e \in [Q -> Ops(b)] /\ \A q, r \in Q : e[q] = e[r] => q = r
    BY <1>1
  <2> HIDE DEF e
  <2>2. e \in Injection(Q, Ops(b))
    BY <2>1, Fun_IsInj
  <2>3. IsFiniteSet(1 .. Len(b.ops)) /\ Ops(b) = 1 .. Len(b.ops)
    BY IntervalIsFinite DEF Sound
  <2> QED BY <2>2, <2>3, FS_Injection
<1>2. \A q \in Consumers(b, y) : q.op \in Ops(b)
  BY DEF Consumers, InputPorts
<1>3. \A q, r \in Consumers(b, y) : q.op = r.op => q = r
  BY DEF Consumers, WellFormed
<1>4. \A q \in Producers(b, y) : q.op \in Ops(b)
  BY DEF Producers, OutputPorts
<1>5. \A q, r \in Producers(b, y) : q.op = r.op => q = r
  BY DEF Producers, WellFormed
<1> QED BY <1>1, <1>2, <1>3, <1>4, <1>5

\* An operand sees what the operand it is found as sees, where operations look
\* like the ones they are found as.
LEMMA EmbeddedViews ==
  ASSUME NEW b, NEW c, NEW f, NEW g, Sound(b), WellFormed(b), Embeds(b, c, f, g),
         NEW w, NEW z, \A o \in Ops(b) : z[f[o]] = w[o], NEW y \in Operands(b)
  PROVE  LET Q == Consumers(b, y)
             R == Consumers(c, g[y])
             P == Producers(b, y)
             T == Producers(c, g[y])
         IN  /\ BagOf(Q, Views(w, Q)) = BagOf(R, Views(z, R))
             /\ AllValues(P, Views(w, P)) = AllValues(T, Views(z, T))
<1>1. ASSUME NEW Q, NEW R, TakenAll(f, Q) \in Bijection(Q, R), \A q \in Q : q.op \in Ops(b)
      PROVE  \A q \in Q : Views(z, R)[TakenAll(f, Q)[q]] = Views(w, Q)[q]
  <2> TAKE q \in Q
  <2>1. TakenAll(f, Q)[q] \in R
    BY <1>1, Fun_BijectionProperties
  <2>2. TakenAll(f, Q)[q] = [op |-> f[q.op], port |-> q.port]
    BY DEF TakenAll, Taken
  <2>3. z[f[q.op]] = w[q.op]
    BY <1>1
  <2> QED BY <2>1, <2>2, <2>3 DEF Views
<1>2. \A q \in Consumers(b, y) \cup Producers(b, y) : q.op \in Ops(b)
  BY DEF Consumers, InputPorts, Producers, OutputPorts
<1> QED BY <1>1, <1>2, EmbeddedPorts, PortsFinite, BagsMatch

LEMMA SignatureOf ==
  ASSUME NEW b, NEW d, NEW y
  PROVE  OperandSignature(b, d, y)
           = <<d.operands[y], b.kinds[y],
               AllValues(Producers(b, y), Views(d.ops, Producers(b, y))),
               BagOf(Consumers(b, y), Views(d.ops, Consumers(b, y)))>>
<1> DEFINE P == Producers(b, y)
           Q == Consumers(b, y)
<1>1. {<<q.port, d.ops[q.op]>> : q \in P} = AllValues(P, Views(d.ops, P))
  BY DEF AllValues, Views
<1>2. {<<q.port, d.ops[q.op]>> : q \in Q} = AllValues(Q, Views(d.ops, Q))
  BY DEF AllValues, Views
<1>3. \A v : {q \in Q : <<q.port, d.ops[q.op]>> = v} = {q \in Q : Views(d.ops, Q)[q] = v}
  BY DEF Views
<1> HIDE DEF P, Q
<1>4. [v \in {<<q.port, d.ops[q.op]>> : q \in Q} |-> Cardinality({q \in Q : <<q.port, d.ops[q.op]>> = v})]
        = BagOf(Q, Views(d.ops, Q))
  BY <1>2, <1>3 DEF BagOf
<1> QED BY <1>1, <1>4 DEF OperandSignature, Bag, P, Q

\* So they have one signature, wherever they had one color.
LEMMA EmbeddedSignatures ==
  ASSUME NEW b, NEW c, NEW f, NEW g, Sound(b), WellFormed(b), Embeds(b, c, f, g),
         NEW d, NEW e,
         \A x \in Operands(b) : e.operands[g[x]] = d.operands[x],
         \A o \in Ops(b) : e.ops[f[o]] = d.ops[o]
  PROVE  /\ \A x \in Operands(b) : OperandSignature(c, e, g[x]) = OperandSignature(b, d, x)
         /\ \A o \in Ops(b) : OpSignature(c, e, f[o]) = OpSignature(b, d, o)
<1>1. ASSUME NEW x \in Operands(b) PROVE OperandSignature(c, e, g[x]) = OperandSignature(b, d, x)
  <2>1. /\ BagOf(Consumers(b, x), Views(d.ops, Consumers(b, x)))
             = BagOf(Consumers(c, g[x]), Views(e.ops, Consumers(c, g[x])))
        /\ AllValues(Producers(b, x), Views(d.ops, Producers(b, x)))
             = AllValues(Producers(c, g[x]), Views(e.ops, Producers(c, g[x])))
    BY EmbeddedViews
  <2>2. c.kinds[g[x]] = b.kinds[x]
    BY DEF Embeds
  <2> QED BY <2>1, <2>2, SignatureOf
<1>2. ASSUME NEW o \in Ops(b) PROVE OpSignature(c, e, f[o]) = OpSignature(b, d, o)
  <2> DEFINE p == f[o]
  <2>1. /\ b.ops[o].kind = c.ops[p].kind
        /\ DOMAIN b.ops[o].inputs = DOMAIN c.ops[p].inputs
        /\ DOMAIN b.ops[o].outputs = DOMAIN c.ops[p].outputs
    BY DEF Embeds
  <2>2. b.ops[o].inputs \in Seq(Operands(b)) /\ b.ops[o].outputs \in Seq(Operands(b))
    BY DEF Sound
  <2>3. ASSUME NEW i \in DOMAIN b.ops[o].inputs
        PROVE  e.operands[c.ops[p].inputs[i]] = d.operands[b.ops[o].inputs[i]]
    <3>1. b.ops[o].inputs[i] \in Operands(b) /\ c.ops[p].inputs[i] = g[b.ops[o].inputs[i]]
      BY <2>2 DEF Embeds
    <3> QED BY <3>1
  <2>4. ASSUME NEW i \in DOMAIN b.ops[o].outputs
        PROVE  e.operands[c.ops[p].outputs[i]] = d.operands[b.ops[o].outputs[i]]
    <3>1. b.ops[o].outputs[i] \in Operands(b) /\ c.ops[p].outputs[i] = g[b.ops[o].outputs[i]]
      BY <2>2 DEF Embeds
    <3> QED BY <3>1
  <2>5. e.ops[p] = d.ops[o]
    OBVIOUS
  <2> HIDE DEF p
  <2>6. [i \in DOMAIN c.ops[p].inputs |-> e.operands[c.ops[p].inputs[i]]]
          = [i \in DOMAIN b.ops[o].inputs |-> d.operands[b.ops[o].inputs[i]]]
    BY <2>1, <2>3
  <2>7. [i \in DOMAIN c.ops[p].outputs |-> e.operands[c.ops[p].outputs[i]]]
          = [i \in DOMAIN b.ops[o].outputs |-> d.operands[b.ops[o].outputs[i]]]
    BY <2>1, <2>4
  <2>8. OpSignature(c, e, p) = OpSignature(b, d, o)
    BY <2>1, <2>5, <2>6, <2>7 DEF OpSignature
  <2> QED BY <2>8 DEF p
<1> QED BY <1>1, <1>2

-----------------------------------------------------------------------------
(* A round of colors. *)

Alike(s, v) == {u \in DOMAIN s : s[u] = s[v]}

FirstOf(s, v) == CHOOSE u \in Alike(s, v) : \A w \in Alike(s, v) : u <= w

LEMMA SignedAlike ==
  ASSUME NEW s, NEW v \in DOMAIN s
  PROVE  LET signed == {<<s[u], u>> : u \in DOMAIN s}
         IN  {t[2] : t \in {t \in signed : <<t[1], v>> \in signed}} = Alike(s, v)
<1> DEFINE signed == {<<s[u], u>> : u \in DOMAIN s}
           A == {t[2] : t \in {t \in signed : <<t[1], v>> \in signed}}
<1>1. \A g, u : <<g, u>> \in signed <=> u \in DOMAIN s /\ g = s[u]
  OBVIOUS
<1>2. ASSUME NEW u \in Alike(s, v) PROVE u \in A
  <2> DEFINE t == <<s[u], u>>
  <2>1. t \in signed /\ <<t[1], v>> \in signed /\ t[2] = u
    BY <1>1 DEF Alike
  <2> QED BY <2>1
<1>3. ASSUME NEW u \in A PROVE u \in Alike(s, v)
  <2>1. PICK t \in signed : t[2] = u /\ <<t[1], v>> \in signed
    OBVIOUS
  <2>2. t = <<s[t[2]], t[2]>> /\ t[2] \in DOMAIN s /\ t[1] = s[v]
    BY <1>1, <2>1
  <2> QED BY <2>1, <2>2 DEF Alike
<1> HIDE DEF A, signed
<1>4. A = Alike(s, v)
  BY <1>2, <1>3
<1> QED BY <1>4 DEF A, signed

\* The signatures of a round as functions.
OperandSignatures(b, c) == [x \in Operands(b) |-> OperandSignature(b, c, x)]

OpSignatures(b, c) == [o \in Ops(b) |-> OpSignature(b, c, o)]

LEMMA RefinedColors ==
  ASSUME NEW b, NEW c
  PROVE  /\ \A x \in Operands(b) : Refine(b, c).operands[x] = FirstOf(OperandSignatures(b, c), x)
         /\ \A o \in Ops(b) : Refine(b, c).ops[o] = FirstOf(OpSignatures(b, c), o)
<1>1. ASSUME NEW x \in Operands(b)
      PROVE  Refine(b, c).operands[x] = FirstOf(OperandSignatures(b, c), x)
  <2> DEFINE s == OperandSignatures(b, c)
             signed == {<<OperandSignature(b, c, u), u>> : u \in Operands(b)}
             A == {t[2] : t \in {t \in signed : <<t[1], x>> \in signed}}
  <2>1. DOMAIN s = Operands(b) /\ \A u \in Operands(b) : s[u] = OperandSignature(b, c, u)
    BY DEF OperandSignatures
  <2>2. Refine(b, c).operands[x] = CHOOSE u \in A : \A w \in A : u <= w
    BY DEF Refine, FirstAlike
  <2> HIDE DEF s
  <2>3. signed = {<<s[u], u>> : u \in DOMAIN s}
    BY <2>1
  <2> HIDE DEF signed
  <2>4. A = Alike(s, x)
    BY <2>1, <2>3, SignedAlike
  <2> HIDE DEF A
  <2> QED BY <2>2, <2>4 DEF FirstOf, s
<1>2. ASSUME NEW o \in Ops(b)
      PROVE  Refine(b, c).ops[o] = FirstOf(OpSignatures(b, c), o)
  <2> DEFINE s == OpSignatures(b, c)
             signed == {<<OpSignature(b, c, u), u>> : u \in Ops(b)}
             A == {t[2] : t \in {t \in signed : <<t[1], o>> \in signed}}
  <2>1. DOMAIN s = Ops(b) /\ \A u \in Ops(b) : s[u] = OpSignature(b, c, u)
    BY DEF OpSignatures
  <2>2. Refine(b, c).ops[o] = CHOOSE u \in A : \A w \in A : u <= w
    BY DEF Refine, FirstAlike
  <2> HIDE DEF s
  <2>3. signed = {<<s[u], u>> : u \in DOMAIN s}
    BY <2>1
  <2> HIDE DEF signed
  <2>4. A = Alike(s, o)
    BY <2>1, <2>3, SignedAlike
  <2> HIDE DEF A
  <2> QED BY <2>2, <2>4 DEF FirstOf, s
<1> QED BY <1>1, <1>2

LEMMA LeastOf ==
  ASSUME NEW A, A \subseteq Nat, A # {}
  PROVE  \E m \in A : \A k \in A : m <= k
<1> DEFINE Less == {ss \in Nat \X Nat : ss[1] < ss[2]}
<1>1. IsWellFoundedOn(Less, Nat)
  BY NatLessThanWellFounded, Zenon DEF OpToRel
<1> HIDE DEF Less
<1>2. PICK m \in A : \A k \in A : ~(<<k, m>> \in Less)
  BY <1>1, WFMin
<1> USE DEF Less
<1>3. ASSUME NEW k \in A PROVE m <= k
  <2>1. k \in Nat /\ m \in Nat /\ ~(<<k, m>> \in Less)
    BY <1>2
  <2> QED BY <2>1
<1> QED BY <1>3

\* The first of those with a signature stands for the signature.
LEMMA FirstDecides ==
  ASSUME NEW s, DOMAIN s \subseteq Nat, NEW v \in DOMAIN s, NEW w \in DOMAIN s
  PROVE  FirstOf(s, v) = FirstOf(s, w) <=> s[v] = s[w]
<1>1. ASSUME NEW u \in DOMAIN s PROVE s[FirstOf(s, u)] = s[u]
  <2>1. Alike(s, u) \subseteq Nat /\ u \in Alike(s, u)
    BY DEF Alike
  <2>2. \E m \in Alike(s, u) : \A k \in Alike(s, u) : m <= k
    BY <2>1, LeastOf
  <2>3. FirstOf(s, u) \in Alike(s, u)
    BY <2>2 DEF FirstOf
  <2> QED BY <2>3 DEF Alike
<1>2. s[v] = s[w] => Alike(s, v) = Alike(s, w)
  BY DEF Alike
<1>3. s[v] = s[w] => FirstOf(s, v) = FirstOf(s, w)
  BY <1>2 DEF FirstOf
<1> QED BY <1>1, <1>3

\* After a round, two vertices have one color exactly if they had one signature.
LEMMA ColorsAreSignatures ==
  ASSUME NEW b, NEW c, Operands(b) \subseteq Nat, Ops(b) \subseteq Nat
  PROVE  /\ \A x, y \in Operands(b) :
              Refine(b, c).operands[x] = Refine(b, c).operands[y]
                <=> OperandSignature(b, c, x) = OperandSignature(b, c, y)
         /\ \A o, p \in Ops(b) :
              Refine(b, c).ops[o] = Refine(b, c).ops[p] <=> OpSignature(b, c, o) = OpSignature(b, c, p)
<1> DEFINE s == OperandSignatures(b, c)
           t == OpSignatures(b, c)
<1>1. /\ DOMAIN s = Operands(b) /\ \A x \in Operands(b) : s[x] = OperandSignature(b, c, x)
      /\ DOMAIN t = Ops(b) /\ \A o \in Ops(b) : t[o] = OpSignature(b, c, o)
  BY DEF OperandSignatures, OpSignatures
<1>2. /\ \A x \in Operands(b) : Refine(b, c).operands[x] = FirstOf(s, x)
      /\ \A o \in Ops(b) : Refine(b, c).ops[o] = FirstOf(t, o)
  BY RefinedColors
<1> HIDE DEF s, t
<1>3. \A x, y \in Operands(b) : FirstOf(s, x) = FirstOf(s, y) <=> s[x] = s[y]
  BY <1>1, FirstDecides
<1>4. \A o, p \in Ops(b) : FirstOf(t, o) = FirstOf(t, p) <=> t[o] = t[p]
  BY <1>1, FirstDecides
<1> QED BY <1>1, <1>2, <1>3, <1>4

-----------------------------------------------------------------------------
(* The two patterns in their union. *)

Recorded(b) ==
  /\ b.kinds \in Seq({b.kinds[x] : x \in Operands(b)})
  /\ b.ops \in Seq({b.ops[o] : o \in Ops(b)})

LEMMA PatternsHere == ControlInv => /\ Sound(U) /\ Recorded(U) /\ WellFormed(U)
                                    /\ Sound(S) /\ Recorded(S) /\ WellFormed(S)
<1>1. \A n \in DOMAIN Patterns : Recorded(Patterns[n]) /\ WellFormed(Patterns[n])
  BY MatcherAssumption DEF Recorded
<1> QED BY <1>1, SoundHere DEF ControlInv, U, S

LEMMA Concatenation ==
  ASSUME NEW A, NEW B, NEW s \in Seq(A), NEW t \in Seq(B)
  PROVE  /\ DOMAIN (s \o t) = 1 .. Len(s) + Len(t) /\ Len(s \o t) = Len(s) + Len(t)
         /\ \A i \in DOMAIN s : (s \o t)[i] = s[i]
         /\ \A i \in DOMAIN t : (s \o t)[i + Len(s)] = t[i]
<1> DEFINE C == A \cup B
<1>1. s \in Seq(C) /\ t \in Seq(C)
  OBVIOUS
<1> HIDE DEF C
<1> QED BY <1>1

LEMMA Behind == ASSUME NEW m \in Nat, NEW n \in Nat, NEW p \in 1 .. m + n, p \notin 1 .. m
                PROVE  \E o \in 1 .. n : p = o + m
<1> DEFINE o == p - m
<1>1. o \in 1 .. n /\ p = o + m
  OBVIOUS
<1> QED BY <1>1

Shift(n, k) == [i \in 1 .. k |-> i + n]

Here(k) == [i \in 1 .. k |-> i]

\* The supported pattern's operations with their operands moved behind the user's.
MovedOps ==
  [o \in Ops(S) |->
     [kind |-> S.ops[o].kind,
      inputs |-> [i \in DOMAIN S.ops[o].inputs |-> S.ops[o].inputs[i] + Len(U.kinds)],
      outputs |-> [i \in DOMAIN S.ops[o].outputs |-> S.ops[o].outputs[i] + Len(U.kinds)]]]

LEMMA JoinedParts ==
  ASSUME Sound(U), Sound(S), Recorded(U), Recorded(S)
  PROVE  /\ Operands(Joined) = 1 .. Len(U.kinds) + Len(S.kinds)
         /\ Ops(Joined) = 1 .. Len(U.ops) + Len(S.ops)
         /\ \A y \in Operands(U) : Joined.kinds[y] = U.kinds[y]
         /\ \A x \in Operands(S) : Joined.kinds[x + Len(U.kinds)] = S.kinds[x]
         /\ \A v \in Ops(U) : Joined.ops[v] = U.ops[v]
         /\ \A o \in Ops(S) : Joined.ops[o + Len(U.ops)] = MovedOps[o]
<1>1. Joined.kinds = U.kinds \o S.kinds
  BY DEF Joined
<1>2. Joined.ops = U.ops \o MovedOps
  BY DEF Joined, MovedOps
<1>3. MovedOps \in Seq({MovedOps[o] : o \in Ops(S)}) /\ Len(MovedOps) = Len(S.ops) /\ DOMAIN MovedOps = Ops(S)
  <2>1. Ops(S) = 1 .. Len(S.ops) /\ Len(S.ops) \in Nat
    BY DEF Sound
  <2>2. DOMAIN MovedOps = Ops(S) /\ MovedOps = [o \in Ops(S) |-> MovedOps[o]]
    BY DEF MovedOps
  <2> DEFINE s == MovedOps
             n == Len(S.ops)
  <2>3. s = [o \in 1 .. n |-> s[o]] /\ n \in Nat /\ DOMAIN s = 1 .. n
    BY <2>1, <2>2
  <2> HIDE DEF s, n
  <2>4. s \in Seq({s[o] : o \in 1 .. n}) /\ Len(s) = n
    BY <2>3
  <2> QED BY <2>1, <2>2, <2>4 DEF s, n
<1>4. U.kinds \in Seq({U.kinds[x] : x \in Operands(U)}) /\ S.kinds \in Seq({S.kinds[x] : x \in Operands(S)})
  BY DEF Recorded
<1>5. /\ DOMAIN Joined.kinds = 1 .. Len(U.kinds) + Len(S.kinds)
      /\ \A y \in Operands(U) : Joined.kinds[y] = U.kinds[y]
      /\ \A x \in Operands(S) : Joined.kinds[x + Len(U.kinds)] = S.kinds[x]
  <2> DEFINE s == U.kinds
             t == S.kinds
  <2> DEFINE A == {s[x] : x \in Operands(U)}
             B == {t[x] : x \in Operands(S)}
  <2>1. s \in Seq(A) /\ t \in Seq(B)
    BY <1>4
  <2>2. Operands(U) = DOMAIN s /\ Operands(S) = DOMAIN t
    BY DEF Operands
  <2> HIDE DEF A, B, s, t
  <2>3. /\ DOMAIN (s \o t) = 1 .. Len(s) + Len(t)
        /\ \A i \in DOMAIN s : (s \o t)[i] = s[i]
        /\ \A i \in DOMAIN t : (s \o t)[i + Len(s)] = t[i]
    BY <2>1, Concatenation
  <2> QED BY <1>1, <2>2, <2>3 DEF s, t
<1>6. U.ops \in Seq({U.ops[o] : o \in Ops(U)})
  BY DEF Recorded
<1>7. /\ DOMAIN Joined.ops = 1 .. Len(U.ops) + Len(S.ops)
      /\ \A v \in Ops(U) : Joined.ops[v] = U.ops[v]
      /\ \A o \in Ops(S) : Joined.ops[o + Len(U.ops)] = MovedOps[o]
  <2> DEFINE s == U.ops
             t == MovedOps
  <2> DEFINE A == {s[o] : o \in Ops(U)}
             B == {t[o] : o \in Ops(S)}
  <2>1. s \in Seq(A) /\ t \in Seq(B) /\ Len(t) = Len(S.ops)
    BY <1>3, <1>6
  <2>2. Ops(U) = DOMAIN s /\ Ops(S) = DOMAIN t /\ Joined.ops = s \o t
    BY <1>2, <1>3 DEF Ops
  <2> HIDE DEF A, B, s, t
  <2>3. /\ DOMAIN (s \o t) = 1 .. Len(s) + Len(t)
        /\ \A i \in DOMAIN s : (s \o t)[i] = s[i]
        /\ \A i \in DOMAIN t : (s \o t)[i + Len(s)] = t[i]
    <3>1. s \in Seq(A) /\ t \in Seq(B)
      BY <2>1
    <3> QED BY <3>1, Concatenation
  <2> QED BY <2>1, <2>2, <2>3 DEF s, t
<1> QED BY <1>5, <1>7 DEF Operands, Ops

LEMMA UserEmbeds ==
  ASSUME Sound(U), Sound(S), Recorded(U), Recorded(S)
  PROVE  Embeds(U, Joined, Here(Len(U.ops)), Here(Len(U.kinds)))
<1> DEFINE f == Here(Len(U.ops))
           g == Here(Len(U.kinds))
           m == Len(U.kinds)
           n == Len(U.ops)
<1>1. /\ Operands(U) = 1 .. m /\ Ops(U) = 1 .. n /\ m \in Nat /\ n \in Nat
      /\ Operands(S) = 1 .. Len(S.kinds) /\ Ops(S) = 1 .. Len(S.ops)
      /\ Len(S.kinds) \in Nat /\ Len(S.ops) \in Nat
  BY DEF Sound
<1>2. /\ \A v \in Ops(U) : f[v] = v /\ v \in Ops(Joined)
      /\ \A y \in Operands(U) : g[y] = y /\ y \in Operands(Joined)
      /\ DOMAIN f = Ops(U) /\ DOMAIN g = Operands(U)
      /\ f = [v \in Ops(U) |-> f[v]] /\ g = [y \in Operands(U) |-> g[y]]
  <2>1. DOMAIN f = 1 .. n /\ DOMAIN g = 1 .. m /\ (\A v \in 1 .. n : f[v] = v) /\ \A y \in 1 .. m : g[y] = y
    BY DEF Here
  <2>2. f = [v \in 1 .. n |-> f[v]] /\ g = [y \in 1 .. m |-> g[y]]
    BY DEF Here
  <2> HIDE DEF f, g, m, n
  <2>3. (\A v \in 1 .. n : v \in 1 .. n + Len(S.ops)) /\ \A y \in 1 .. m : y \in 1 .. m + Len(S.kinds)
    BY <1>1
  <2>4. Ops(Joined) = 1 .. n + Len(S.ops) /\ Operands(Joined) = 1 .. m + Len(S.kinds)
    BY JoinedParts DEF m, n
  <2> QED BY <1>1, <2>1, <2>2, <2>3, <2>4
<1>3. \A v \in Ops(U) : U.ops[v].inputs \in Seq(Operands(U)) /\ U.ops[v].outputs \in Seq(Operands(U))
  BY DEF Sound
<1>4. ASSUME NEW p \in Ops(Joined)
      PROVE  (\E v \in Ops(U) : f[v] = p)
               \/ \A y \in Operands(U) : /\ \A i \in DOMAIN Joined.ops[p].inputs : Joined.ops[p].inputs[i] # g[y]
                                        /\ \A i \in DOMAIN Joined.ops[p].outputs : Joined.ops[p].outputs[i] # g[y]
  <2>1. CASE p \in 1 .. n
    BY <1>1, <1>2, <2>1
  <2>2. CASE p \notin 1 .. n
    <3>1. PICK o \in Ops(S) : p = o + n
      <4>1. p \in 1 .. n + Len(S.ops)
        BY JoinedParts
      <4> HIDE DEF n
      <4>2. \E o \in 1 .. Len(S.ops) : p = o + n
        BY <1>1, <2>2, <4>1, Behind
      <4> QED BY <1>1, <4>2
    <3>2. Joined.ops[p] = MovedOps[o]
      BY <3>1, JoinedParts
    <3>3. S.ops[o].inputs \in Seq(Operands(S)) /\ S.ops[o].outputs \in Seq(Operands(S))
      BY DEF Sound
    <3>4. /\ \A i \in DOMAIN S.ops[o].inputs : S.ops[o].inputs[i] \in 1 .. Len(S.kinds)
          /\ \A i \in DOMAIN S.ops[o].outputs : S.ops[o].outputs[i] \in 1 .. Len(S.kinds)
      <4>1. \A A : \A s \in Seq(A) : \A i \in DOMAIN s : s[i] \in A
        OBVIOUS
      <4>2. /\ \A i \in DOMAIN S.ops[o].inputs : S.ops[o].inputs[i] \in Operands(S)
            /\ \A i \in DOMAIN S.ops[o].outputs : S.ops[o].outputs[i] \in Operands(S)
        BY <3>3, <4>1, Zenon
      <4> QED BY <1>1, <4>2, Zenon
    <3>5. /\ DOMAIN Joined.ops[p].inputs = DOMAIN S.ops[o].inputs
          /\ DOMAIN Joined.ops[p].outputs = DOMAIN S.ops[o].outputs
          /\ \A i \in DOMAIN S.ops[o].inputs : Joined.ops[p].inputs[i] = S.ops[o].inputs[i] + m
          /\ \A i \in DOMAIN S.ops[o].outputs : Joined.ops[p].outputs[i] = S.ops[o].outputs[i] + m
      BY <3>2 DEF MovedOps
    <3>6. \A y \in Operands(U) : g[y] = y /\ y \in 1 .. m
      BY <1>1, <1>2
    <3> HIDE DEF f, g, m, n
    <3>7. \A k \in 1 .. Len(S.kinds), y \in 1 .. m : k + m # y
      BY <1>1
    <3> QED BY <3>4, <3>5, <3>6, <3>7
  <2> QED BY <2>1, <2>2
<1>5. ASSUME NEW v \in Ops(U)
      PROVE  /\ U.ops[v].kind = Joined.ops[f[v]].kind
             /\ DOMAIN U.ops[v].inputs = DOMAIN Joined.ops[f[v]].inputs
             /\ DOMAIN U.ops[v].outputs = DOMAIN Joined.ops[f[v]].outputs
             /\ \A i \in DOMAIN U.ops[v].inputs : Joined.ops[f[v]].inputs[i] = g[U.ops[v].inputs[i]]
             /\ \A i \in DOMAIN U.ops[v].outputs : Joined.ops[f[v]].outputs[i] = g[U.ops[v].outputs[i]]
  <2>1. Joined.ops[f[v]] = U.ops[v]
    BY <1>2, JoinedParts
  <2>2. /\ \A i \in DOMAIN U.ops[v].inputs : U.ops[v].inputs[i] \in Operands(U)
        /\ \A i \in DOMAIN U.ops[v].outputs : U.ops[v].outputs[i] \in Operands(U)
    BY <1>3
  <2> HIDE DEF f, g
  <2> QED BY <1>2, <2>1, <2>2
<1> HIDE DEF f, g, m, n
<1>6. f \in [Ops(U) -> Ops(Joined)] /\ g \in [Operands(U) -> Operands(Joined)]
  BY <1>2
<1>7. Embeds(U, Joined, f, g)
  <2>1. \A o, p \in Ops(U) : f[o] = f[p] => o = p
    BY <1>2
  <2>2. \A x, y \in Operands(U) : g[x] = g[y] => x = y
    BY <1>2
  <2>3. \A y \in Operands(U) : Joined.kinds[g[y]] = U.kinds[y]
    BY <1>2, JoinedParts
  <2> QED BY <1>4, <1>5, <1>6, <2>1, <2>2, <2>3 DEF Embeds
<1> QED BY <1>7 DEF f, g

LEMMA SupportedEmbeds ==
  ASSUME Sound(U), Sound(S), Recorded(U), Recorded(S)
  PROVE  Embeds(S, Joined, Shift(Len(U.ops), Len(S.ops)), Shift(Len(U.kinds), Len(S.kinds)))
<1> DEFINE f == Shift(Len(U.ops), Len(S.ops))
           g == Shift(Len(U.kinds), Len(S.kinds))
           m == Len(U.kinds)
           n == Len(U.ops)
<1>1. /\ Operands(U) = 1 .. m /\ Ops(U) = 1 .. n /\ m \in Nat /\ n \in Nat
      /\ Operands(S) = 1 .. Len(S.kinds) /\ Ops(S) = 1 .. Len(S.ops)
      /\ Len(S.kinds) \in Nat /\ Len(S.ops) \in Nat
  BY DEF Sound
<1>2. /\ \A o \in Ops(S) : f[o] = o + n /\ o + n \in Ops(Joined)
      /\ \A x \in Operands(S) : g[x] = x + m /\ x + m \in Operands(Joined)
      /\ f = [o \in Ops(S) |-> f[o]] /\ g = [x \in Operands(S) |-> g[x]]
      /\ \A o, p \in Ops(S) : o + n = p + n => o = p
      /\ \A x, z \in Operands(S) : x + m = z + m => x = z
  <2>1. /\ DOMAIN f = 1 .. Len(S.ops) /\ DOMAIN g = 1 .. Len(S.kinds)
        /\ \A o \in 1 .. Len(S.ops) : f[o] = o + n
        /\ \A x \in 1 .. Len(S.kinds) : g[x] = x + m
        /\ f = [o \in 1 .. Len(S.ops) |-> f[o]] /\ g = [x \in 1 .. Len(S.kinds) |-> g[x]]
    BY DEF Shift
  <2>2. Ops(Joined) = 1 .. n + Len(S.ops) /\ Operands(Joined) = 1 .. m + Len(S.kinds)
    BY JoinedParts
  <2> HIDE DEF f, g, m, n
  <2>3. /\ \A o \in 1 .. Len(S.ops) : o + n \in 1 .. n + Len(S.ops)
        /\ \A x \in 1 .. Len(S.kinds) : x + m \in 1 .. m + Len(S.kinds)
        /\ \A o, p \in 1 .. Len(S.ops) : o + n = p + n => o = p
        /\ \A x, z \in 1 .. Len(S.kinds) : x + m = z + m => x = z
    BY <1>1
  <2> QED BY <1>1, <2>1, <2>2, <2>3
<1>3. ASSUME NEW p \in Ops(Joined)
      PROVE  (\E o \in Ops(S) : f[o] = p)
               \/ \A x \in Operands(S) : /\ \A i \in DOMAIN Joined.ops[p].inputs : Joined.ops[p].inputs[i] # g[x]
                                        /\ \A i \in DOMAIN Joined.ops[p].outputs : Joined.ops[p].outputs[i] # g[x]
  <2>1. CASE p \in 1 .. n
    <3>1. p \in Ops(U) /\ Joined.ops[p] = U.ops[p]
      BY <1>1, <2>1, JoinedParts
    <3>2. U.ops[p].inputs \in Seq(Operands(U)) /\ U.ops[p].outputs \in Seq(Operands(U))
      BY <3>1 DEF Sound
    <3>3. /\ \A i \in DOMAIN U.ops[p].inputs : U.ops[p].inputs[i] \in Operands(U)
          /\ \A i \in DOMAIN U.ops[p].outputs : U.ops[p].outputs[i] \in Operands(U)
      BY <3>2
    <3>4. \A x \in Operands(S) : g[x] = x + m /\ x \in 1 .. Len(S.kinds)
      BY <1>1, <1>2
    <3> HIDE DEF f, g, m, n
    <3>5. \A k \in 1 .. Len(S.kinds), y \in 1 .. m : k + m # y
      BY <1>1
    <3> QED BY <1>1, <3>1, <3>3, <3>4, <3>5
  <2>2. CASE p \notin 1 .. n
    <3>1. p \in 1 .. n + Len(S.ops)
      BY JoinedParts
    <3> HIDE DEF f, n
    <3>2. PICK o \in 1 .. Len(S.ops) : p = o + n
      BY <1>1, <2>2, <3>1, Behind
    <3> QED BY <1>1, <1>2, <3>2
  <2> QED BY <2>1, <2>2
<1>4. ASSUME NEW o \in Ops(S)
      PROVE  /\ S.ops[o].kind = Joined.ops[f[o]].kind
             /\ DOMAIN S.ops[o].inputs = DOMAIN Joined.ops[f[o]].inputs
             /\ DOMAIN S.ops[o].outputs = DOMAIN Joined.ops[f[o]].outputs
             /\ \A i \in DOMAIN S.ops[o].inputs : Joined.ops[f[o]].inputs[i] = g[S.ops[o].inputs[i]]
             /\ \A i \in DOMAIN S.ops[o].outputs : Joined.ops[f[o]].outputs[i] = g[S.ops[o].outputs[i]]
  <2>1. Joined.ops[f[o]] = MovedOps[o]
    BY <1>2, JoinedParts
  <2>2. S.ops[o].inputs \in Seq(Operands(S)) /\ S.ops[o].outputs \in Seq(Operands(S))
    BY DEF Sound
  <2>3. /\ \A i \in DOMAIN S.ops[o].inputs : S.ops[o].inputs[i] \in Operands(S)
        /\ \A i \in DOMAIN S.ops[o].outputs : S.ops[o].outputs[i] \in Operands(S)
    BY <2>2
  <2>4. /\ Joined.ops[f[o]].kind = S.ops[o].kind
        /\ DOMAIN Joined.ops[f[o]].inputs = DOMAIN S.ops[o].inputs
        /\ DOMAIN Joined.ops[f[o]].outputs = DOMAIN S.ops[o].outputs
        /\ \A i \in DOMAIN S.ops[o].inputs : Joined.ops[f[o]].inputs[i] = S.ops[o].inputs[i] + m
        /\ \A i \in DOMAIN S.ops[o].outputs : Joined.ops[f[o]].outputs[i] = S.ops[o].outputs[i] + m
    BY <2>1 DEF MovedOps
  <2> HIDE DEF f, g, m, n
  <2> QED BY <1>2, <2>3, <2>4
<1> HIDE DEF f, g, m, n
<1>5. /\ f \in [Ops(S) -> Ops(Joined)] /\ g \in [Operands(S) -> Operands(Joined)]
      /\ \A o, p \in Ops(S) : f[o] = f[p] => o = p
      /\ \A x, z \in Operands(S) : g[x] = g[z] => x = z
  BY <1>2
<1>6. \A x \in Operands(S) : Joined.kinds[g[x]] = S.kinds[x]
  BY <1>2, JoinedParts DEF m
<1>7. Embeds(S, Joined, f, g)
  BY <1>3, <1>4, <1>5, <1>6 DEF Embeds
<1> QED BY <1>7 DEF f, g

\* A correspondence finds one pattern in the other.
LEMMA CorrespondenceEmbeds ==
  ASSUME NEW b, NEW c, NEW f, NEW g, Sound(b), Sound(c), Corresponds(b, c, f, g)
  PROVE  /\ Embeds(b, c, f, g)
         /\ \A p \in Ops(c) : \E o \in Ops(b) : f[o] = p
         /\ \A x \in Operands(c) : \E y \in Operands(b) : g[y] = x
<1>1. /\ Ops(c) = Ops(b) /\ Operands(c) = Operands(b)
      /\ Ops(b) = 1 .. Len(b.ops) /\ Operands(b) = 1 .. Len(b.kinds)
      /\ Len(b.ops) \in Nat /\ Len(b.kinds) \in Nat
  BY DEF Corresponds, Sound
<1>2. IsFiniteSet(Ops(b)) /\ IsFiniteSet(Operands(b))
  BY <1>1, IntervalIsFinite
<1>3. /\ f \in [Ops(b) -> Ops(b)] /\ \A o, p \in Ops(b) : f[o] = f[p] => o = p
      /\ g \in [Operands(b) -> Operands(b)] /\ \A x, y \in Operands(b) : g[x] = g[y] => x = y
  BY <1>1 DEF Corresponds
<1>4. /\ \A p \in Ops(b) : \E o \in Ops(b) : f[o] = p
      /\ \A x \in Operands(b) : \E y \in Operands(b) : g[y] = x
  BY <1>2, <1>3, InjectionIsOnto
<1>5. ASSUME NEW o \in Ops(b)
      PROVE  /\ DOMAIN b.ops[o].inputs = DOMAIN c.ops[f[o]].inputs
             /\ DOMAIN b.ops[o].outputs = DOMAIN c.ops[f[o]].outputs
  <2>1. f[o] \in Ops(c)
    BY <1>1, <1>3
  <2>2. /\ b.ops[o].inputs \in Seq(Operands(b)) /\ b.ops[o].outputs \in Seq(Operands(b))
        /\ c.ops[f[o]].inputs \in Seq(Operands(c)) /\ c.ops[f[o]].outputs \in Seq(Operands(c))
    BY <2>1 DEF Sound
  <2>3. Len(b.ops[o].inputs) = Len(c.ops[f[o]].inputs) /\ Len(b.ops[o].outputs) = Len(c.ops[f[o]].outputs)
    BY DEF Corresponds
  <2> QED BY <2>2, <2>3
<1>6. Embeds(b, c, f, g)
  BY <1>1, <1>4, <1>5 DEF Embeds, Corresponds
<1> QED BY <1>1, <1>4, <1>6

-----------------------------------------------------------------------------
(* The colors of two patterns of one shape. *)

\* Equal colors are of operands of one kind.
KindsAgree ==
  pc \in {"key", "pair"} \cup Searching =>
    \A y \in Operands(U), x \in Operands(S) :
      UserColors(colors).operands[y] = SupportedColors(colors).operands[x] => U.kinds[y] = S.kinds[x]

\* The colors in both patterns follow the correspondence.
ColorsFollow(f, g, c) ==
  /\ \A y \in Operands(U) : SupportedColors(c).operands[g[y]] = UserColors(c).operands[y]
  /\ \A v \in Ops(U) : SupportedColors(c).ops[f[v]] = UserColors(c).ops[v]

\* The colors of either pattern are those of the union.
LEMMA ColorsInUnion ==
  ASSUME Sound(U), Sound(S), Recorded(U), Recorded(S), NEW c
  PROVE  /\ \A y \in Operands(U) : UserColors(c).operands[y] = c.operands[y] /\ y \in Operands(Joined)
         /\ \A v \in Ops(U) : UserColors(c).ops[v] = c.ops[v] /\ v \in Ops(Joined)
         /\ \A x \in Operands(S) : /\ SupportedColors(c).operands[x] = c.operands[x + Len(U.kinds)]
                                   /\ x + Len(U.kinds) \in Operands(Joined)
         /\ \A o \in Ops(S) : /\ SupportedColors(c).ops[o] = c.ops[o + Len(U.ops)]
                              /\ o + Len(U.ops) \in Ops(Joined)
<1> DEFINE m == Len(U.kinds)
           n == Len(U.ops)
           i == Len(S.kinds)
           j == Len(S.ops)
<1>1. /\ Operands(U) = 1 .. m /\ Ops(U) = 1 .. n /\ m \in Nat /\ n \in Nat
      /\ Operands(S) = 1 .. i /\ Ops(S) = 1 .. j /\ i \in Nat /\ j \in Nat
  BY DEF Sound
<1>2. Operands(Joined) = 1 .. m + i /\ Ops(Joined) = 1 .. n + j
  BY JoinedParts
<1>3. /\ \A y \in Operands(U) : UserColors(c).operands[y] = c.operands[y]
      /\ \A v \in Ops(U) : UserColors(c).ops[v] = c.ops[v]
      /\ \A x \in Operands(S) : SupportedColors(c).operands[x] = c.operands[x + Len(U.kinds)]
      /\ \A o \in Ops(S) : SupportedColors(c).ops[o] = c.ops[o + Len(U.ops)]
  BY DEF UserColors, SupportedColors
<1>4. /\ \A y \in 1 .. m : y \in 1 .. m + i
      /\ \A v \in 1 .. n : v \in 1 .. n + j
      /\ \A x \in 1 .. i : x + m \in 1 .. m + i
      /\ \A o \in 1 .. j : o + n \in 1 .. n + j
  <2> HIDE DEF m, n, i, j
  <2> QED BY <1>1
<1> QED BY <1>1, <1>2, <1>3, <1>4

\* A vertex has in the union the signature it has in its pattern.
LEMMA SignaturesInUnion ==
  ASSUME Sound(U), Sound(S), Recorded(U), Recorded(S), WellFormed(U), WellFormed(S), NEW c
  PROVE  /\ \A y \in Operands(U) : OperandSignature(Joined, c, y) = OperandSignature(U, UserColors(c), y)
         /\ \A v \in Ops(U) : OpSignature(Joined, c, v) = OpSignature(U, UserColors(c), v)
         /\ \A x \in Operands(S) : OperandSignature(Joined, c, x + Len(U.kinds))
                                     = OperandSignature(S, SupportedColors(c), x)
         /\ \A o \in Ops(S) : OpSignature(Joined, c, o + Len(U.ops)) = OpSignature(S, SupportedColors(c), o)
<1> DEFINE hf == Here(Len(U.ops))
           hg == Here(Len(U.kinds))
           sf == Shift(Len(U.ops), Len(S.ops))
           sg == Shift(Len(U.kinds), Len(S.kinds))
           d == UserColors(c)
           e == SupportedColors(c)
<1>1. /\ \A y \in Operands(U) : hg[y] = y
      /\ \A v \in Ops(U) : hf[v] = v
      /\ \A x \in Operands(S) : sg[x] = x + Len(U.kinds)
      /\ \A o \in Ops(S) : sf[o] = o + Len(U.ops)
  BY DEF Here, Shift, Sound
<1>2. Embeds(U, Joined, hf, hg) /\ Embeds(S, Joined, sf, sg)
  BY UserEmbeds, SupportedEmbeds
<1>3. /\ \A y \in Operands(U) : c.operands[hg[y]] = d.operands[y]
      /\ \A v \in Ops(U) : c.ops[hf[v]] = d.ops[v]
      /\ \A x \in Operands(S) : c.operands[sg[x]] = e.operands[x]
      /\ \A o \in Ops(S) : c.ops[sf[o]] = e.ops[o]
  <2> HIDE DEF hf, hg, sf, sg
  <2> QED BY <1>1, ColorsInUnion
<1> HIDE DEF hf, hg, sf, sg, d, e
<1>4. /\ \A y \in Operands(U) : OperandSignature(Joined, c, hg[y]) = OperandSignature(U, d, y)
      /\ \A v \in Ops(U) : OpSignature(Joined, c, hf[v]) = OpSignature(U, d, v)
  BY <1>2, <1>3, EmbeddedSignatures
<1>5. /\ \A x \in Operands(S) : OperandSignature(Joined, c, sg[x]) = OperandSignature(S, e, x)
      /\ \A o \in Ops(S) : OpSignature(Joined, c, sf[o]) = OpSignature(S, e, o)
  <2>1. Embeds(S, Joined, sf, sg) /\ Sound(S) /\ WellFormed(S)
    BY <1>2
  <2>2. (\A x \in Operands(S) : c.operands[sg[x]] = e.operands[x]) /\ \A o \in Ops(S) : c.ops[sf[o]] = e.ops[o]
    BY <1>3
  <2> QED BY <2>1, <2>2, EmbeddedSignatures
<1> QED BY <1>1, <1>4, <1>5 DEF d, e

\* A round keeps the colors along a correspondence, and tells kinds apart.
LEMMA RoundFollows ==
  ASSUME Sound(U), Sound(S), Recorded(U), Recorded(S), WellFormed(U), WellFormed(S),
         NEW c
  PROVE  /\ \A f, g : Corresponds(U, S, f, g) /\ ColorsFollow(f, g, c) => ColorsFollow(f, g, Refine(Joined, c))
         /\ \A y \in Operands(U), x \in Operands(S) :
              UserColors(Refine(Joined, c)).operands[y] = SupportedColors(Refine(Joined, c)).operands[x]
                => U.kinds[y] = S.kinds[x]
<1> DEFINE r == Refine(Joined, c)
           d == UserColors(c)
           e == SupportedColors(c)
           m == Len(U.kinds)
           n == Len(U.ops)
<1>1. /\ \A y \in Operands(U) : UserColors(r).operands[y] = r.operands[y] /\ y \in Operands(Joined)
      /\ \A v \in Ops(U) : UserColors(r).ops[v] = r.ops[v] /\ v \in Ops(Joined)
      /\ \A x \in Operands(S) : SupportedColors(r).operands[x] = r.operands[x + m] /\ x + m \in Operands(Joined)
      /\ \A o \in Ops(S) : SupportedColors(r).ops[o] = r.ops[o + n] /\ o + n \in Ops(Joined)
  BY ColorsInUnion
<1>2. Operands(Joined) \subseteq Nat /\ Ops(Joined) \subseteq Nat
  <2>1. Operands(Joined) = 1 .. Len(U.kinds) + Len(S.kinds) /\ Ops(Joined) = 1 .. Len(U.ops) + Len(S.ops)
    BY JoinedParts
  <2>2. Len(U.kinds) \in Nat /\ Len(S.kinds) \in Nat /\ Len(U.ops) \in Nat /\ Len(S.ops) \in Nat
    BY DEF Sound
  <2>3. \A j, k \in Nat : 1 .. j + k \subseteq Nat
    OBVIOUS
  <2> QED BY <2>1, <2>2, <2>3, Zenon
<1>3. /\ \A x, y \in Operands(Joined) :
           r.operands[x] = r.operands[y] <=> OperandSignature(Joined, c, x) = OperandSignature(Joined, c, y)
      /\ \A o, p \in Ops(Joined) :
           r.ops[o] = r.ops[p] <=> OpSignature(Joined, c, o) = OpSignature(Joined, c, p)
  BY <1>2, ColorsAreSignatures
<1>4. /\ \A y \in Operands(U) : OperandSignature(Joined, c, y) = OperandSignature(U, d, y)
      /\ \A v \in Ops(U) : OpSignature(Joined, c, v) = OpSignature(U, d, v)
      /\ \A x \in Operands(S) : OperandSignature(Joined, c, x + m) = OperandSignature(S, e, x)
      /\ \A o \in Ops(S) : OpSignature(Joined, c, o + n) = OpSignature(S, e, o)
  BY SignaturesInUnion
<1> HIDE DEF r, d, e, m, n
<1>5. ASSUME NEW f, NEW g, Corresponds(U, S, f, g), ColorsFollow(f, g, c) PROVE ColorsFollow(f, g, r)
  <2>1. Embeds(U, S, f, g)
    BY <1>5, CorrespondenceEmbeds
  <2>2. (\A y \in Operands(U) : e.operands[g[y]] = d.operands[y]) /\ \A v \in Ops(U) : e.ops[f[v]] = d.ops[v]
    BY <1>5 DEF ColorsFollow, d, e
  <2>3. /\ \A y \in Operands(U) : OperandSignature(S, e, g[y]) = OperandSignature(U, d, y)
        /\ \A v \in Ops(U) : OpSignature(S, e, f[v]) = OpSignature(U, d, v)
    BY <2>1, <2>2, EmbeddedSignatures
  <2>4. (\A y \in Operands(U) : g[y] \in Operands(S)) /\ \A v \in Ops(U) : f[v] \in Ops(S)
    BY <1>5 DEF Corresponds
  <2>5. ASSUME NEW y \in Operands(U) PROVE SupportedColors(r).operands[g[y]] = UserColors(r).operands[y]
    <3>1. OperandSignature(Joined, c, g[y] + m) = OperandSignature(Joined, c, y)
      BY <1>4, <2>3, <2>4
    <3> QED BY <1>1, <1>3, <2>4, <3>1
  <2>6. ASSUME NEW v \in Ops(U) PROVE SupportedColors(r).ops[f[v]] = UserColors(r).ops[v]
    <3>1. OpSignature(Joined, c, f[v] + n) = OpSignature(Joined, c, v)
      BY <1>4, <2>3, <2>4
    <3> QED BY <1>1, <1>3, <2>4, <3>1
  <2> QED BY <2>5, <2>6 DEF ColorsFollow
<1>6. ASSUME NEW y \in Operands(U), NEW x \in Operands(S),
             UserColors(r).operands[y] = SupportedColors(r).operands[x]
      PROVE  U.kinds[y] = S.kinds[x]
  <2>1. OperandSignature(Joined, c, y) = OperandSignature(Joined, c, x + m)
    BY <1>1, <1>3, <1>6
  <2>2. Joined.kinds[y] = Joined.kinds[x + m]
    BY <2>1, SignatureOf
  <2> QED BY <2>2, JoinedParts DEF m
<1> QED BY <1>5, <1>6 DEF r

\* So both patterns have as many colors, and equal keys.
LEMMA FollowedColors ==
  ASSUME Sound(U), Sound(S), NEW f, NEW g, NEW c, Corresponds(U, S, f, g), ColorsFollow(f, g, c)
  PROVE  /\ CountColors(U, UserColors(c)) = CountColors(S, SupportedColors(c))
         /\ SameBag(UserColors(c).operands, SupportedColors(c).operands)
         /\ SameBag(UserColors(c).ops, SupportedColors(c).ops)
<1> DEFINE d == UserColors(c)
           e == SupportedColors(c)
<1>1. /\ \A p \in Ops(S) : \E v \in Ops(U) : f[v] = p
      /\ \A x \in Operands(S) : \E y \in Operands(U) : g[y] = x
      /\ f \in [Ops(U) -> Ops(S)] /\ \A o, p \in Ops(U) : f[o] = f[p] => o = p
      /\ g \in [Operands(U) -> Operands(S)] /\ \A x, y \in Operands(U) : g[x] = g[y] => x = y
  <2>1. /\ \A p \in Ops(S) : \E v \in Ops(U) : f[v] = p
        /\ \A x \in Operands(S) : \E y \in Operands(U) : g[y] = x
    BY CorrespondenceEmbeds
  <2> QED BY <2>1 DEF Corresponds
<1>2. f \in Bijection(Ops(U), Ops(S)) /\ g \in Bijection(Operands(U), Operands(S))
  BY <1>1, Fun_IsBij
<1>3. IsFiniteSet(Ops(U)) /\ IsFiniteSet(Operands(U))
  BY IntervalIsFinite DEF Sound
<1>4. /\ DOMAIN d.operands = Operands(U) /\ DOMAIN e.operands = Operands(S)
      /\ DOMAIN d.ops = Ops(U) /\ DOMAIN e.ops = Ops(S)
  BY DEF UserColors, SupportedColors
<1>5. (\A y \in Operands(U) : e.operands[g[y]] = d.operands[y]) /\ \A v \in Ops(U) : e.ops[f[v]] = d.ops[v]
  BY DEF ColorsFollow
<1> HIDE DEF d, e
<1>6. /\ BagOf(Operands(U), d.operands) = BagOf(Operands(S), e.operands)
      /\ AllValues(Operands(U), d.operands) = AllValues(Operands(S), e.operands)
  BY <1>2, <1>3, <1>5, BagsMatch
<1>7. /\ BagOf(Ops(U), d.ops) = BagOf(Ops(S), e.ops)
      /\ AllValues(Ops(U), d.ops) = AllValues(Ops(S), e.ops)
  BY <1>2, <1>3, <1>5, BagsMatch
<1>8. CountColors(U, d) = CountColors(S, e)
  BY <1>6, <1>7 DEF CountColors, AllValues
<1>9. SameBag(d.operands, e.operands) /\ SameBag(d.ops, e.ops)
  BY <1>4, <1>6, <1>7 DEF SameBag, Bag, BagOf, AllValues
<1> QED BY <1>8, <1>9 DEF d, e

-----------------------------------------------------------------------------
(* The operands at the ports of two operations. *)

\* Supported x and user y are at the same port of o and v.
PortPair(o, v, x, y) ==
  \/ \E i \in DOMAIN S.ops[o].inputs : x = S.ops[o].inputs[i] /\ y = U.ops[v].inputs[i]
  \/ \E i \in DOMAIN S.ops[o].outputs : x = S.ops[o].outputs[i] /\ y = U.ops[v].outputs[i]

OfAKind(o, v) ==
  /\ S.ops[o].kind = U.ops[v].kind
  /\ Len(S.ops[o].inputs) = Len(U.ops[v].inputs) /\ Len(S.ops[o].outputs) = Len(U.ops[v].outputs)

\* No operand is in two pairs.
Apart(pairs) ==
  \A i, j \in DOMAIN pairs : i # j => pairs[i][1] # pairs[j][1] /\ pairs[i][2] # pairs[j][2]

\* An operation holds an operand at one port.
LEMMA HeldOnce ==
  ASSUME NEW b, WellFormed(b), NEW o \in Ops(b)
  PROVE  /\ \A i, j \in DOMAIN b.ops[o].inputs : b.ops[o].inputs[i] = b.ops[o].inputs[j] => i = j
         /\ \A i, j \in DOMAIN b.ops[o].outputs : b.ops[o].outputs[i] = b.ops[o].outputs[j] => i = j
         /\ \A i \in DOMAIN b.ops[o].inputs, j \in DOMAIN b.ops[o].outputs :
              b.ops[o].inputs[i] # b.ops[o].outputs[j]
<1>1. /\ \A i \in DOMAIN b.ops[o].inputs : [op |-> o, port |-> i] \in InputPorts(b)
      /\ \A i \in DOMAIN b.ops[o].outputs : [op |-> o, port |-> i] \in OutputPorts(b)
  BY DEF InputPorts, OutputPorts
<1>2. ASSUME NEW i \in DOMAIN b.ops[o].inputs, NEW j \in DOMAIN b.ops[o].inputs,
             b.ops[o].inputs[i] = b.ops[o].inputs[j]
      PROVE  i = j
  <2> DEFINE q == [op |-> o, port |-> i]
             r == [op |-> o, port |-> j]
  <2>1. q.op = r.op /\ InputAt(b, q) = InputAt(b, r)
    BY <1>2 DEF InputAt
  <2>2. q = r
    BY <1>1, <2>1 DEF WellFormed
  <2>3. q.port = r.port
    BY <2>2
  <2> QED BY <2>3
<1>3. ASSUME NEW i \in DOMAIN b.ops[o].outputs, NEW j \in DOMAIN b.ops[o].outputs,
             b.ops[o].outputs[i] = b.ops[o].outputs[j]
      PROVE  i = j
  <2> DEFINE q == [op |-> o, port |-> i]
             r == [op |-> o, port |-> j]
  <2>1. OutputAt(b, q) = OutputAt(b, r)
    BY <1>3 DEF OutputAt
  <2>2. q = r
    BY <1>1, <2>1 DEF WellFormed
  <2>3. q.port = r.port
    BY <2>2
  <2> QED BY <2>3
<1>4. ASSUME NEW i \in DOMAIN b.ops[o].inputs, NEW j \in DOMAIN b.ops[o].outputs
      PROVE  b.ops[o].inputs[i] # b.ops[o].outputs[j]
  <2> DEFINE q == [op |-> o, port |-> i]
             r == [op |-> o, port |-> j]
  <2>1. q.op = r.op /\ InputAt(b, q) = b.ops[o].inputs[i] /\ OutputAt(b, r) = b.ops[o].outputs[j]
    BY DEF InputAt, OutputAt
  <2>2. q \in InputPorts(b) /\ r \in OutputPorts(b)
    BY <1>1
  <2>3. q.op = r.op => InputAt(b, q) # OutputAt(b, r)
    BY <2>2 DEF WellFormed
  <2> QED BY <2>1, <2>3
<1> QED BY <1>2, <1>3, <1>4

\* The pairs bindOp() goes through are those at the ports, each once.
LEMMA PairsAre ==
  ASSUME Sound(U), Sound(S), WellFormed(U), WellFormed(S),
         NEW o \in Ops(S), NEW v \in Ops(U), OfAKind(o, v)
  PROVE  LET pairs == PairsAtPorts(o, v)
         IN  /\ \A i \in DOMAIN pairs : PortPair(o, v, pairs[i][1], pairs[i][2])
             /\ \A x, y : PortPair(o, v, x, y) => \E i \in DOMAIN pairs : pairs[i] = <<x, y>>
             /\ Apart(pairs)
<1> DEFINE si == S.ops[o].inputs
           so == S.ops[o].outputs
           ui == U.ops[v].inputs
           uo == U.ops[v].outputs
           l == Facing(si, ui)
           r == Facing(so, uo)
           n == Len(si)
           k == Len(so)
           pairs == PairsAtPorts(o, v)
<1>1. /\ si \in Seq(Operands(S)) /\ so \in Seq(Operands(S))
      /\ ui \in Seq(Operands(U)) /\ uo \in Seq(Operands(U)) /\ Len(ui) = n /\ Len(uo) = k
  BY DEF Sound, OfAKind
<1>2. /\ n \in Nat /\ k \in Nat /\ DOMAIN si = 1 .. n /\ DOMAIN so = 1 .. k
      /\ DOMAIN ui = 1 .. n /\ DOMAIN uo = 1 .. k
  <2> HIDE DEF si, so, ui, uo
  <2> QED BY <1>1
<1>3. /\ l \in Seq(Operands(S) \X Operands(U)) /\ Len(l) = n /\ DOMAIN l = 1 .. n
      /\ \A i \in 1 .. n : l[i] = <<si[i], ui[i]>>
  <2>1. DOMAIN l = 1 .. n /\ \A i \in 1 .. n : l[i] = <<si[i], ui[i]>>
    BY <1>2 DEF Facing
  <2> HIDE DEF si, so, ui, uo, n, k
  <2>2. l \in Seq(Operands(S) \X Operands(U))
    BY <1>1, FacingType DEF n, k
  <2> HIDE DEF l
  <2>3. Len(l) = n
    BY <1>2, <2>1, <2>2
  <2> QED BY <2>1, <2>2, <2>3
<1>4. /\ r \in Seq(Operands(S) \X Operands(U)) /\ Len(r) = k /\ DOMAIN r = 1 .. k
      /\ \A i \in 1 .. k : r[i] = <<so[i], uo[i]>>
  <2>1. DOMAIN r = 1 .. k /\ \A i \in 1 .. k : r[i] = <<so[i], uo[i]>>
    BY <1>2 DEF Facing
  <2> HIDE DEF si, so, ui, uo, n, k
  <2>2. r \in Seq(Operands(S) \X Operands(U))
    BY <1>1, FacingType DEF n, k
  <2> HIDE DEF r
  <2>3. Len(r) = k
    BY <1>2, <2>1, <2>2
  <2> QED BY <2>1, <2>2, <2>3
<1>5. pairs = l \o r
  BY DEF PairsAtPorts
<1>6. /\ \A i, j \in 1 .. n : (si[i] = si[j] => i = j) /\ (ui[i] = ui[j] => i = j)
      /\ \A i, j \in 1 .. k : (so[i] = so[j] => i = j) /\ (uo[i] = uo[j] => i = j)
      /\ \A i \in 1 .. n, j \in 1 .. k : si[i] # so[j] /\ ui[i] # uo[j]
  <2>1. /\ \A i, j \in DOMAIN si : si[i] = si[j] => i = j
        /\ \A i, j \in DOMAIN so : so[i] = so[j] => i = j
        /\ \A i \in DOMAIN si, j \in DOMAIN so : si[i] # so[j]
    BY HeldOnce
  <2>2. /\ \A i, j \in DOMAIN ui : ui[i] = ui[j] => i = j
        /\ \A i, j \in DOMAIN uo : uo[i] = uo[j] => i = j
        /\ \A i \in DOMAIN ui, j \in DOMAIN uo : ui[i] # uo[j]
    BY HeldOnce
  <2> HIDE DEF si, so, ui, uo, n, k
  <2> QED BY <1>2, <2>1, <2>2
<1>7. \A x, y : PortPair(o, v, x, y) <=> \/ \E i \in 1 .. n : x = si[i] /\ y = ui[i]
                                         \/ \E i \in 1 .. k : x = so[i] /\ y = uo[i]
  BY <1>2 DEF PortPair
<1> HIDE DEF si, so, ui, uo, l, r, n, k, pairs
<1>8. /\ DOMAIN pairs = 1 .. n + k
      /\ \A i \in 1 .. n : pairs[i] = l[i]
      /\ \A i \in 1 .. k : pairs[i + n] = r[i]
  <2>1. /\ DOMAIN (l \o r) = 1 .. Len(l) + Len(r)
        /\ \A i \in DOMAIN l : (l \o r)[i] = l[i]
        /\ \A i \in DOMAIN r : (l \o r)[i + Len(l)] = r[i]
    <3>1. l \in Seq(Operands(S) \X Operands(U)) /\ r \in Seq(Operands(S) \X Operands(U))
      BY <1>3, <1>4
    <3> QED BY <3>1, Concatenation
  <2> QED BY <1>3, <1>4, <1>5, <2>1
<1>9. \A p \in 1 .. n + k : p \in 1 .. n \/ \E i \in 1 .. k : p = i + n
  BY <1>2, Behind
<1>10. /\ \A i \in 1 .. n : i \in 1 .. n + k
       /\ \A i \in 1 .. k : i + n \in 1 .. n + k
  BY <1>2
<1>11. /\ \A i \in 1 .. n : pairs[i][1] = si[i] /\ pairs[i][2] = ui[i] /\ pairs[i] = <<si[i], ui[i]>>
       /\ \A i \in 1 .. k : /\ pairs[i + n][1] = so[i] /\ pairs[i + n][2] = uo[i]
                            /\ pairs[i + n] = <<so[i], uo[i]>>
  BY <1>3, <1>4, <1>8
<1>12. \A i \in DOMAIN pairs : PortPair(o, v, pairs[i][1], pairs[i][2])
  BY <1>7, <1>8, <1>9, <1>11
<1>13. ASSUME NEW x, NEW y, PortPair(o, v, x, y) PROVE \E i \in DOMAIN pairs : pairs[i] = <<x, y>>
  BY <1>7, <1>8, <1>10, <1>11, <1>13
<1>14. Apart(pairs)
  <2> SUFFICES ASSUME NEW p \in 1 .. n + k, NEW q \in 1 .. n + k, p # q
               PROVE  pairs[p][1] # pairs[q][1] /\ pairs[p][2] # pairs[q][2]
    BY <1>8 DEF Apart
  <2>1. CASE p \in 1 .. n /\ q \in 1 .. n
    BY <1>6, <1>11, <2>1
  <2>2. CASE p \in 1 .. n /\ q \notin 1 .. n
    BY <1>6, <1>9, <1>11, <2>2
  <2>3. CASE p \notin 1 .. n /\ q \in 1 .. n
    BY <1>6, <1>9, <1>11, <2>3
  <2>4. CASE p \notin 1 .. n /\ q \notin 1 .. n
    BY <1>6, <1>9, <1>11, <2>4
  <2> QED BY <2>1, <2>2, <2>3, <2>4
<1> QED BY <1>12, <1>13, <1>14 DEF pairs

\* A pair of operands at the ports of o and v: where o is a producer or a
\* consumer of x, v is one of y at the same port, and the other way around.
LEMMA PairedPorts ==
  ASSUME WellFormed(U), WellFormed(S), Sound(U), Sound(S),
         NEW o \in Ops(S), NEW v \in Ops(U), OfAKind(o, v), NEW x, NEW y, PortPair(o, v, x, y)
  PROVE  /\ \A q \in Consumers(S, x) : q.op = o => U.ops[v].inputs[q.port] = y
         /\ \A r \in Consumers(U, y) : r.op = v => S.ops[o].inputs[r.port] = x
         /\ \A q \in Producers(S, x), r \in Producers(U, y) : q.op = o <=> r.op = v
<1>1. /\ \A i, j \in DOMAIN S.ops[o].inputs : S.ops[o].inputs[i] = S.ops[o].inputs[j] => i = j
      /\ \A i, j \in DOMAIN S.ops[o].outputs : S.ops[o].outputs[i] = S.ops[o].outputs[j] => i = j
      /\ \A i \in DOMAIN S.ops[o].inputs, j \in DOMAIN S.ops[o].outputs : S.ops[o].inputs[i] # S.ops[o].outputs[j]
  BY HeldOnce
<1>2. /\ \A i, j \in DOMAIN U.ops[v].inputs : U.ops[v].inputs[i] = U.ops[v].inputs[j] => i = j
      /\ \A i, j \in DOMAIN U.ops[v].outputs : U.ops[v].outputs[i] = U.ops[v].outputs[j] => i = j
      /\ \A i \in DOMAIN U.ops[v].inputs, j \in DOMAIN U.ops[v].outputs : U.ops[v].inputs[i] # U.ops[v].outputs[j]
  BY HeldOnce
<1>3. DOMAIN S.ops[o].inputs = DOMAIN U.ops[v].inputs /\ DOMAIN S.ops[o].outputs = DOMAIN U.ops[v].outputs
  <2>1. /\ S.ops[o].inputs \in Seq(Operands(S)) /\ U.ops[v].inputs \in Seq(Operands(U))
        /\ S.ops[o].outputs \in Seq(Operands(S)) /\ U.ops[v].outputs \in Seq(Operands(U))
    BY DEF Sound
  <2> QED BY <2>1 DEF OfAKind
<1>4. ASSUME NEW b, NEW z, NEW q \in Consumers(b, z)
      PROVE  q.op \in Ops(b) /\ q.port \in DOMAIN b.ops[q.op].inputs /\ b.ops[q.op].inputs[q.port] = z
  BY DEF Consumers, InputPorts, InputAt
<1>5. ASSUME NEW b, NEW z, NEW q \in Producers(b, z)
      PROVE  q.op \in Ops(b) /\ q.port \in DOMAIN b.ops[q.op].outputs /\ b.ops[q.op].outputs[q.port] = z
             /\ q \in OutputPorts(b) /\ OutputAt(b, q) = z
  BY DEF Producers, OutputPorts, OutputAt
<1>6. ASSUME NEW q \in Consumers(S, x), q.op = o PROVE U.ops[v].inputs[q.port] = y
  BY <1>1, <1>3, <1>4, <1>6 DEF PortPair
<1>7. ASSUME NEW r \in Consumers(U, y), r.op = v PROVE S.ops[o].inputs[r.port] = x
  BY <1>2, <1>3, <1>4, <1>7 DEF PortPair
<1>8. ASSUME NEW q \in Producers(S, x), NEW r \in Producers(U, y), q.op = o PROVE r.op = v
  <2>1. PICK i \in DOMAIN S.ops[o].outputs : x = S.ops[o].outputs[i] /\ y = U.ops[v].outputs[i]
    BY <1>1, <1>5, <1>8 DEF PortPair
  <2> DEFINE t == [op |-> v, port |-> i]
  <2>2. t \in OutputPorts(U) /\ OutputAt(U, t) = y
    BY <1>3, <2>1 DEF OutputPorts, OutputAt
  <2>3. r = t
    BY <1>5, <2>2 DEF WellFormed
  <2> QED BY <2>3
<1>9. ASSUME NEW q \in Producers(S, x), NEW r \in Producers(U, y), r.op = v PROVE q.op = o
  <2>1. PICK i \in DOMAIN S.ops[o].outputs : x = S.ops[o].outputs[i] /\ y = U.ops[v].outputs[i]
    BY <1>2, <1>3, <1>5, <1>9 DEF PortPair
  <2> DEFINE t == [op |-> o, port |-> i]
  <2>2. t \in OutputPorts(S) /\ OutputAt(S, t) = x
    BY <2>1 DEF OutputPorts, OutputAt
  <2>3. q = t
    BY <1>5, <2>2 DEF WellFormed
  <2> QED BY <2>3
<1> QED BY <1>6, <1>7, <1>8, <1>9

-----------------------------------------------------------------------------
(* What is bound is wired. *)

PortsBound(o, v) ==
  \A x \in Operands(S), y \in Operands(U) : PortPair(o, v, x, y) => userOperandOf[x] = y

WiredOperands ==
  \A x \in Operands(S) : userOperandOf[x] # Unmatched => S.kinds[x] = U.kinds[userOperandOf[x]]

\* A bound operation has all its operands bound, but for the one bindOp() is at.
WiredOps ==
  \A o \in Ops(S), v \in Ops(U) :
    userOpOf[o] = v => OfAKind(o, v) /\ ((pc = "bind" /\ o = Top.op) \/ PortsBound(o, v))

\* The operands of the operations a checkpoint keeps, it keeps too.
WiredFrames ==
  \A i \in DOMAIN frames : \A j \in 1 .. frames[i].ops :
    \A o \in Ops(S), v \in Ops(U), x \in Operands(S), y \in Operands(U) :
      boundOps[j] = o /\ userOpOf[o] = v /\ PortPair(o, v, x, y)
        => \E k \in 1 .. frames[i].operands : boundOperands[k] = x

Pending(x, y) == \E j \in DOMAIN todo : todo[j] = <<x, y>>

\* What bindOp() has yet to bind can be bound.
BindingInv ==
  /\ userOpOf[Top.op] \in Ops(U)
  /\ \A o \in Ops(S), v \in Ops(U), x \in Operands(S), y \in Operands(U) :
       o = Top.op /\ userOpOf[o] = v =>
         /\ PortPair(o, v, x, y) => userOperandOf[x] = y \/ Pending(x, y)
         /\ Pending(x, y) => PortPair(o, v, x, y) /\ OperandsCompatible(x, y)
  /\ Apart(todo)

PhaseInv ==
  /\ pc = "try" => Len(boundOps) = Top.ops /\ Len(boundOperands) = Top.operands
  /\ pc = "undo" => Top.op # None
  /\ pc = "bind" => BindingInv
  /\ pc \in {"rest", "validate"} => OpenOps = {}
  /\ pc = "validate" => OpenOperands = {}

WiredInv == pc \in Searching => WiredOperands /\ WiredOps /\ WiredFrames /\ PhaseInv

LEMMA PortPairType ==
  ASSUME Sound(U), Sound(S), NEW o \in Ops(S), NEW v \in Ops(U), OfAKind(o, v), NEW x, NEW y, PortPair(o, v, x, y)
  PROVE  x \in Operands(S) /\ y \in Operands(U)
<1>1. /\ S.ops[o].inputs \in Seq(Operands(S)) /\ U.ops[v].inputs \in Seq(Operands(U))
      /\ S.ops[o].outputs \in Seq(Operands(S)) /\ U.ops[v].outputs \in Seq(Operands(U))
  BY DEF Sound
<1>2. DOMAIN S.ops[o].inputs = DOMAIN U.ops[v].inputs /\ DOMAIN S.ops[o].outputs = DOMAIN U.ops[v].outputs
  BY <1>1 DEF OfAKind
<1>3. CASE \E i \in DOMAIN S.ops[o].inputs : x = S.ops[o].inputs[i] /\ y = U.ops[v].inputs[i]
  BY <1>1, <1>2, <1>3
<1>4. CASE \E i \in DOMAIN S.ops[o].outputs : x = S.ops[o].outputs[i] /\ y = U.ops[v].outputs[i]
  BY <1>1, <1>2, <1>4
<1> QED BY <1>3, <1>4 DEF PortPair

LEMMA PatternsStay ==
  ASSUME U' = U, S' = S
  PROVE  /\ \A o, v : OfAKind(o, v)' <=> OfAKind(o, v)
         /\ \A o, v, x, y : PortPair(o, v, x, y)' <=> PortPair(o, v, x, y)
         /\ \A x : Producers(S, x)' = Producers(S, x) /\ Producers(U, x)' = Producers(U, x)
         /\ \A x : Consumers(S, x)' = Consumers(S, x) /\ Consumers(U, x)' = Consumers(U, x)
         /\ Operands(S)' = Operands(S) /\ Operands(U)' = Operands(U)
         /\ Ops(S)' = Ops(S) /\ Ops(U)' = Ops(U)
<1>1. \A o, v : OfAKind(o, v)' <=> OfAKind(o, v)
  BY DEF OfAKind
<1>2. \A o, v, x, y : PortPair(o, v, x, y)' <=> PortPair(o, v, x, y)
  BY DEF PortPair
<1> QED BY <1>1, <1>2

\* Operands that are compatible stay so when the operations they are at the same
\* port of are bound.
LEMMA CompatibleAtPorts ==
  ASSUME Sound(U), Sound(S), WellFormed(U), WellFormed(S), U' = U, S' = S, MapsInv,
         NEW o \in Ops(S), NEW v \in Ops(U), OfAKind(o, v),
         userOpOf[o] = Unmatched, supportedOpOf[v] = Unmatched,
         userOpOf' = [userOpOf EXCEPT ![o] = v], supportedOpOf' = [supportedOpOf EXCEPT ![v] = o],
         UNCHANGED <<userOperandOf, supportedOperandOf>>,
         NEW x, NEW y, PortPair(o, v, x, y), OperandsCompatible(x, y)
  PROVE  OperandsCompatible(x, y)'
<1>1. /\ DOMAIN userOpOf = Ops(S) /\ DOMAIN supportedOpOf = Ops(U)
      /\ userOpOf'[o] = v /\ \A p \in Ops(S) : p # o => userOpOf'[p] = userOpOf[p]
      /\ supportedOpOf'[v] = o /\ \A p \in Ops(U) : p # v => supportedOpOf'[p] = supportedOpOf[p]
  BY DEF MapsInv
<1>2. /\ \A q \in Consumers(S, x) : q.op = o => U.ops[v].inputs[q.port] = y
      /\ \A r \in Consumers(U, y) : r.op = v => S.ops[o].inputs[r.port] = x
      /\ \A q \in Producers(S, x), r \in Producers(U, y) : q.op = o <=> r.op = v
  BY PairedPorts
<1>3. /\ \A q \in Consumers(S, x) \cup Producers(S, x) : q.op \in Ops(S)
      /\ \A q \in Consumers(U, y) \cup Producers(U, y) : q.op \in Ops(U)
  BY DEF Consumers, Producers, InputPorts, OutputPorts
<1>4. /\ Producers(S, x)' = Producers(S, x) /\ Producers(U, y)' = Producers(U, y)
      /\ Consumers(S, x)' = Consumers(S, x) /\ Consumers(U, y)' = Consumers(U, y)
      /\ ProducerKinds(S, x)' = ProducerKinds(S, x) /\ ProducerKinds(U, y)' = ProducerKinds(U, y)
      /\ ConsumerKinds(S, x)' = ConsumerKinds(S, x) /\ ConsumerKinds(U, y)' = ConsumerKinds(U, y)
  OBVIOUS
<1>5. CASE userOperandOf[x] # Unmatched
  BY <1>5 DEF OperandsCompatible
<1>6. CASE userOperandOf[x] = Unmatched
  <2>1. /\ supportedOperandOf[y] = Unmatched /\ S.kinds[x] = U.kinds[y]
        /\ ProducerKinds(S, x) = ProducerKinds(U, y) /\ ConsumerKinds(S, x) = ConsumerKinds(U, y)
        /\ \A q \in Producers(S, x), r \in Producers(U, y) :
             userOpOf[q.op] \in {Unmatched, r.op} /\ supportedOpOf[r.op] \in {Unmatched, q.op}
        /\ \A q \in Consumers(S, x) :
             userOpOf[q.op] # Unmatched => U.ops[userOpOf[q.op]].inputs[q.port] = y
        /\ \A r \in Consumers(U, y) :
             supportedOpOf[r.op] # Unmatched => S.ops[supportedOpOf[r.op]].inputs[r.port] = x
    BY <1>6 DEF OperandsCompatible
  <2>2. \A q \in Producers(S, x), r \in Producers(U, y) :
          userOpOf'[q.op] \in {Unmatched, r.op} /\ supportedOpOf'[r.op] \in {Unmatched, q.op}
    BY <1>1, <1>2, <1>3, <2>1
  <2>3. \A q \in Consumers(S, x) :
          userOpOf'[q.op] # Unmatched => U.ops[userOpOf'[q.op]].inputs[q.port] = y
    BY <1>1, <1>2, <1>3, <2>1
  <2>4. \A r \in Consumers(U, y) :
          supportedOpOf'[r.op] # Unmatched => S.ops[supportedOpOf'[r.op]].inputs[r.port] = x
    BY <1>1, <1>2, <1>3, <2>1
  <2> QED BY <1>4, <2>1, <2>2, <2>3, <2>4 DEF OperandsCompatible
<1> QED BY <1>5, <1>6

\* What binding one pair of operands leaves as it was.
LEMMA BoundOperandKeeps ==
  ASSUME Sound(U), Sound(S), U' = U, S' = S, MapsInv, StackType, FramesInv, WiredOperands, WiredFrames,
         UNCHANGED frames, NEW x \in Operands(S), NEW y \in Operands(U),
         userOperandOf[x] = Unmatched, S.kinds[x] = U.kinds[y], BindOperand(x, y)
  PROVE  /\ userOperandOf'[x] = y
         /\ \A z \in Operands(S) : z # x => userOperandOf'[z] = userOperandOf[z]
         /\ \A z \in Operands(U) : z # y => supportedOperandOf'[z] = supportedOperandOf[z]
         /\ \A z \in Operands(S), w \in Operands(U) : userOperandOf[z] = w => userOperandOf'[z] = w
         /\ \A o, v : PortsBound(o, v) => PortsBound(o, v)'
         /\ WiredOperands' /\ WiredFrames'
<1>1. /\ userOperandOf'[x] = y /\ \A z \in Operands(S) : z # x => userOperandOf'[z] = userOperandOf[z]
      /\ \A z \in Operands(U) : z # y => supportedOperandOf'[z] = supportedOperandOf[z]
      /\ boundOperands' = Append(boundOperands, x) /\ UNCHANGED <<userOpOf, boundOps>>
  BY DEF BindOperand, MapsInv
<1>2. ASSUME NEW z \in Operands(S), NEW w \in Operands(U), userOperandOf[z] = w PROVE userOperandOf'[z] = w
  <2>1. w # Unmatched
    BY DEF Sound, Unmatched
  <2> QED BY <1>1, <1>2, <2>1
<1>3. ASSUME NEW o, NEW v, PortsBound(o, v) PROVE PortsBound(o, v)'
  <2>1. \A z, w : PortPair(o, v, z, w)' <=> PortPair(o, v, z, w)
    BY PatternsStay
  <2> QED BY <1>2, <1>3, <2>1 DEF PortsBound
<1>4. WiredOperands'
  BY <1>1 DEF WiredOperands
<1>5. WiredFrames'
  <2>1. /\ Len(boundOperands) \in Nat
        /\ \A k \in 1 .. Len(boundOperands) : boundOperands'[k] = boundOperands[k]
    BY <1>1 DEF StackType
  <2>2. \A i \in DOMAIN frames : frames[i].operands \in Nat /\ frames[i].operands <= Len(boundOperands)
    <3>1. \A i \in DOMAIN frames : frames[i] \in FrameType
      BY DEF StackType
    <3> QED BY <3>1 DEF FramesInv, FrameType
  <2>3. \A i \in DOMAIN frames : \A k \in 1 .. frames[i].operands : boundOperands'[k] = boundOperands[k]
    BY <2>1, <2>2
  <2>4. \A o, v, z, w : PortPair(o, v, z, w)' <=> PortPair(o, v, z, w)
    BY PatternsStay
  <2>5. ASSUME NEW i \in DOMAIN frames, NEW j \in 1 .. frames[i].ops, NEW o \in Ops(S), NEW v \in Ops(U),
               NEW z \in Operands(S), NEW w \in Operands(U),
               boundOps[j] = o, userOpOf[o] = v, PortPair(o, v, z, w)
        PROVE  \E k \in 1 .. frames[i].operands : boundOperands'[k] = z
    <3>1. \E k \in 1 .. frames[i].operands : boundOperands[k] = z
      BY <2>5 DEF WiredFrames
    <3> QED BY <2>3, <3>1
  <2>6. frames' = frames /\ userOpOf' = userOpOf /\ boundOps' = boundOps
    BY <1>1
  <2> QED BY <2>4, <2>5, <2>6 DEF WiredFrames
<1> QED BY <1>1, <1>2, <1>3, <1>4, <1>5

\* What the steps of the search rely on.
LEMMA SearchFacts ==
  ASSUME Inv, WiredInv, pc \in Searching, UNCHANGED given
  PROVE  /\ U' = U /\ S' = S /\ SameKey /\ outcome = "none"
         /\ Sound(U) /\ Sound(S) /\ WellFormed(U) /\ WellFormed(S)
         /\ MapsInv /\ StackType /\ FramesInv /\ TopInv
         /\ Converse(userOperandOf, supportedOperandOf) /\ Converse(userOpOf, supportedOpOf)
         /\ OnTrail(boundOperands, userOperandOf) /\ OnTrail(boundOps, userOpOf)
         /\ Len(boundOperands) \in Nat /\ Len(boundOps) \in Nat
         /\ DOMAIN boundOperands = 1 .. Len(boundOperands) /\ DOMAIN boundOps = 1 .. Len(boundOps)
         /\ WiredOperands /\ WiredOps /\ WiredFrames /\ PhaseInv
<1>1. WellFormed(U) /\ WellFormed(S)
  BY PatternsHere DEF Inv
<1>2. StackType
  BY InSearch
<1>3. DOMAIN boundOperands = 1 .. Len(boundOperands) /\ DOMAIN boundOps = 1 .. Len(boundOps)
  BY <1>2 DEF StackType
<1> QED BY <1>1, <1>3, InSearch DEF WiredInv

\* Where operations are wired, their operands are on the trail.
LEMMA WiredTrail ==
  ASSUME Sound(U), Sound(S), MapsInv, OnTrail(boundOperands, userOperandOf),
         NEW o \in Ops(S), NEW v \in Ops(U), PortsBound(o, v),
         NEW x \in Operands(S), NEW y \in Operands(U), PortPair(o, v, x, y)
  PROVE  \E k \in DOMAIN boundOperands : boundOperands[k] = x
<1>1. userOperandOf[x] = y /\ y # Unmatched /\ x \in DOMAIN userOperandOf
  BY DEF PortsBound, Sound, Unmatched, MapsInv
<1> QED BY <1>1 DEF OnTrail

\* An operation on the trail is bound.
LEMMA TrailBound ==
  ASSUME MapsInv, StackType, OnTrail(boundOps, userOpOf), NEW j \in 1 .. Len(boundOps)
  PROVE  boundOps[j] \in Ops(S) /\ userOpOf[boundOps[j]] # Unmatched /\ userOpOf[boundOps[j]] \in Ops(U)
<1>1. boundOps[j] \in Ops(S) /\ j \in DOMAIN boundOps
  BY DEF StackType
<1>2. userOpOf[boundOps[j]] # Unmatched
  BY <1>1 DEF OnTrail, MapsInv
<1> QED BY <1>1, <1>2 DEF MapsInv

\* Outside bindOp() every bound operation is wired.
LEMMA AllWired ==
  ASSUME Inv, WiredInv, pc \in Searching \ {"bind"}
  PROVE  \A o \in Ops(S), v \in Ops(U) : userOpOf[o] = v => OfAKind(o, v) /\ PortsBound(o, v)
<1>1. pc # "bind" /\ WiredOps
  BY DEF WiredInv, Searching
<1> QED BY <1>1 DEF WiredOps

LEMMA SelectWires ==
  ASSUME Inv, WiredInv, Select
  PROVE  WiredInv'
<1> DEFINE nOperands == Len(boundOperands)
           nOps == Len(boundOps)
           n == Len(frames)
<1>1. pc = "select" /\ UNCHANGED <<given, maps, todo>>
  BY DEF Select
<1>2. pc \in Searching \ {"bind"}
  BY <1>1 DEF Searching
<1>3. /\ U' = U /\ S' = S /\ Sound(U) /\ Sound(S) /\ MapsInv /\ StackType
      /\ OnTrail(boundOperands, userOperandOf) /\ OnTrail(boundOps, userOpOf)
      /\ nOperands \in Nat /\ nOps \in Nat
      /\ DOMAIN boundOperands = 1 .. nOperands /\ DOMAIN boundOps = 1 .. nOps
      /\ WiredOperands /\ WiredOps /\ WiredFrames
  BY <1>1, <1>2, SearchFacts
<1>4. PICK op \in Ops(S) \cup {None} :
        /\ frames' = Append(frames, [op |-> op, tried |-> 0, operands |-> nOperands, ops |-> nOps])
        /\ \/ pc' = "rest" /\ OpenOps = {}
           \/ pc' = "try"
  <2>1. CASE OpenOps = {}
    BY <2>1 DEF Select, Frame, Goto
  <2>2. CASE OpenOps # {}
    <3>1. PICK o \in OpenOps : frames' = Append(frames, Frame(o, 0)) /\ pc' = "try"
      BY <2>2 DEF Select, Goto
    <3> QED BY <3>1 DEF Frame, OpenOps
  <2> QED BY <2>1, <2>2
<1> DEFINE new == [op |-> op, tried |-> 0, operands |-> nOperands, ops |-> nOps]
<1>5. /\ n \in Nat /\ Len(frames') = n + 1 /\ frames'[n + 1] = new
      /\ DOMAIN frames' = 1 .. n + 1 /\ \A i \in 1 .. n : frames'[i] = frames[i]
      /\ DOMAIN frames = 1 .. n
  <2>1. new \in FrameType
    BY <1>3 DEF FrameType
  <2> QED BY <1>3, <1>4, <2>1 DEF StackType
<1>6. /\ userOperandOf' = userOperandOf /\ userOpOf' = userOpOf
      /\ boundOperands' = boundOperands /\ boundOps' = boundOps
  BY <1>1 DEF maps
<1>7. /\ \A o, v : OfAKind(o, v)' <=> OfAKind(o, v)
      /\ \A o, v, x, y : PortPair(o, v, x, y)' <=> PortPair(o, v, x, y)
  BY <1>3, PatternsStay
<1>8. WiredOperands'
  BY <1>3, <1>6 DEF WiredOperands
<1>9. \A o, v : PortsBound(o, v) => PortsBound(o, v)'
  BY <1>3, <1>6, <1>7 DEF PortsBound
<1>10. WiredOps'
  BY <1>2, <1>3, <1>6, <1>7, <1>9, AllWired DEF WiredOps
<1>11. WiredFrames'
  <2> SUFFICES ASSUME NEW i \in 1 .. n + 1, NEW j \in 1 .. frames'[i].ops, NEW o \in Ops(S), NEW v \in Ops(U),
                      NEW x \in Operands(S), NEW y \in Operands(U),
                      boundOps[j] = o, userOpOf[o] = v, PortPair(o, v, x, y)
               PROVE  \E k \in 1 .. frames'[i].operands : boundOperands[k] = x
    BY <1>3, <1>5, <1>6, <1>7 DEF WiredFrames
  <2>1. CASE i \in 1 .. n
    BY <1>3, <1>5, <2>1 DEF WiredFrames
  <2>2. CASE i = n + 1
    <3>1. frames'[i].ops = nOps /\ frames'[i].operands = nOperands
      BY <1>5, <2>2
    <3>2. PortsBound(o, v)
      BY <1>2, <2>2, AllWired
    <3> QED BY <1>3, <3>1, <3>2, WiredTrail
  <2> QED BY <1>5, <2>1, <2>2
<1>12. PhaseInv'
  <2>1. Top' = new
    BY <1>5 DEF Top
  <2>2. OpenOps' = OpenOps
    BY <1>3, <1>6 DEF OpenOps
  <2> QED BY <1>4, <1>6, <2>1, <2>2 DEF PhaseInv
<1> QED BY <1>8, <1>10, <1>11, <1>12 DEF WiredInv

LEMMA TryWires ==
  ASSUME Inv, WiredInv, Try
  PROVE  WiredInv'
<1> DEFINE n == Len(frames)
           nOperands == Len(boundOperands)
           nOps == Len(boundOps)
<1>1. pc = "try" /\ UNCHANGED given
  BY DEF Try
<1>2. pc \in Searching \ {"bind"}
  BY <1>1 DEF Searching
<1>3. /\ U' = U /\ S' = S /\ Sound(U) /\ Sound(S) /\ WellFormed(U) /\ WellFormed(S)
      /\ MapsInv /\ StackType /\ FramesInv /\ TopInv
      /\ OnTrail(boundOps, userOpOf) /\ nOperands \in Nat /\ nOps \in Nat
      /\ WiredOperands /\ WiredOps /\ WiredFrames /\ PhaseInv
  BY <1>1, <1>2, SearchFacts
<1>4. frames # <<>>
  BY <1>1 DEF Inv, ControlInv, Searching
<1>5. /\ n \in Nat /\ n >= 1 /\ DOMAIN frames = 1 .. n /\ n \in DOMAIN frames
      /\ Top = frames[n] /\ Top \in FrameType /\ \A i \in DOMAIN frames : frames[i] \in FrameType
  BY <1>3, <1>4, TopOf
<1>6. PICK o \in Ops(S) : o = Top.op /\ userOpOf[o] = Unmatched /\ nOps = Top.ops /\ nOperands = Top.operands
  BY <1>1, <1>3, <1>4, <1>5 DEF TopInv, FrameType, PhaseInv
<1>7. /\ \A p, v : OfAKind(p, v)' <=> OfAKind(p, v)
      /\ \A p, v, x, y : PortPair(p, v, x, y)' <=> PortPair(p, v, x, y)
  BY <1>3, PatternsStay
<1>8. CASE Untried = {}
  <2>1. Fail /\ UNCHANGED <<maps, todo>>
    BY <1>8 DEF Try
  <2>2. /\ Len(frames') = n - 1 /\ DOMAIN frames' = 1 .. n - 1
        /\ \A i \in 1 .. n - 1 : frames'[i] = frames[i]
        /\ \/ pc' = "done"
           \/ n > 1 /\ pc' = "undo"
    BY <1>3, <1>4, <2>1, FailKeeps
  <2>3. /\ userOperandOf' = userOperandOf /\ userOpOf' = userOpOf
        /\ boundOperands' = boundOperands /\ boundOps' = boundOps
    BY <2>1 DEF maps
  <2>4. WiredOperands'
    BY <1>3, <2>3 DEF WiredOperands
  <2>5. \A p, v : PortsBound(p, v) => PortsBound(p, v)'
    BY <1>3, <1>7, <2>3 DEF PortsBound
  <2>6. WiredOps'
    BY <1>2, <1>3, <1>7, <2>3, <2>5, AllWired DEF WiredOps
  <2>7. WiredFrames'
    <3>1. \A i \in DOMAIN frames' : i \in DOMAIN frames /\ frames'[i] = frames[i]
      BY <1>5, <2>2
    <3> QED BY <1>3, <1>7, <2>3, <3>1 DEF WiredFrames
  <2>8. ASSUME pc' = "undo" PROVE Top'.op # None
    <3>1. Top' = frames[n - 1] /\ n - 1 \in DOMAIN frames /\ n - 1 < n
      BY <1>5, <2>2, <2>8 DEF Top
    <3> QED BY <1>3, <1>5, <3>1 DEF FramesInv
  <2>9. pc' \in {"done", "undo"}
    BY <2>2
  <2>10. PhaseInv'
    BY <2>8, <2>9 DEF PhaseInv
  <2> QED BY <2>4, <2>6, <2>7, <2>10 DEF WiredInv
<1>9. CASE Untried # {}
  <2>1. PICK v \in Untried :
          /\ frames' = [frames EXCEPT ![n] = Frame(o, v)]
          /\ userOpOf' = [userOpOf EXCEPT ![o] = v]
          /\ supportedOpOf' = [supportedOpOf EXCEPT ![v] = o]
          /\ boundOps' = Append(boundOps, o)
          /\ todo' = PairsAtPorts(o, v)
          /\ pc' = "bind"
          /\ UNCHANGED <<userOperandOf, supportedOperandOf, boundOperands>>
    BY <1>6, <1>9 DEF Try, Goto
  <2>2. v \in Ops(U) /\ supportedOpOf[v] = Unmatched /\ OpsCompatible(o, v)
    BY <1>6 DEF Untried, Candidates
  <2> DEFINE pairs == PairsAtPorts(o, v)
             new == [op |-> o, tried |-> v, operands |-> nOperands, ops |-> nOps]
  <2>3. OfAKind(o, v)
    BY <2>2 DEF OpsCompatible, OfAKind
  <2>4. /\ DOMAIN frames' = 1 .. n /\ Len(frames') = n /\ frames'[n] = new
        /\ \A i \in 1 .. n : i # n => frames'[i] = frames[i]
    <3>1. new \in FrameType
      BY <1>3, <1>6, <2>2 DEF FrameType, Sound
    <3>2. frames' = [frames EXCEPT ![n] = new] /\ frames \in Seq(FrameType)
      BY <1>3, <2>1 DEF StackType, Frame
    <3> HIDE DEF new
    <3> QED BY <1>5, <3>1, <3>2
  <2>5. Top' = new
    BY <2>4 DEF Top
  <2>6. /\ userOpOf'[o] = v /\ v # Unmatched
        /\ \A p \in Ops(S) : p # o => userOpOf'[p] = userOpOf[p]
    BY <1>3, <1>6, <2>1, <2>2 DEF MapsInv, Sound, Unmatched
  <2>7. WiredOperands'
    BY <1>3, <2>1 DEF WiredOperands
  <2>8. \A p, w : PortsBound(p, w) => PortsBound(p, w)'
    BY <1>3, <1>7, <2>1 DEF PortsBound
  <2>9. WiredOps'
    <3> SUFFICES ASSUME NEW p \in Ops(S), NEW w \in Ops(U), userOpOf'[p] = w
                 PROVE  OfAKind(p, w)' /\ ((pc' = "bind" /\ p = Top'.op) \/ PortsBound(p, w)')
      BY <1>3 DEF WiredOps
    <3>1. CASE p = o
      <4>1. w = v /\ pc' = "bind" /\ p = Top'.op
        BY <2>1, <2>5, <2>6, <3>1
      <4> QED BY <1>7, <2>3, <3>1, <4>1
    <3>2. CASE p # o
      <4>1. userOpOf[p] = w
        BY <2>6, <3>2
      <4>2. OfAKind(p, w) /\ PortsBound(p, w)
        BY <1>2, <4>1, AllWired
      <4> QED BY <1>7, <2>8, <4>2
    <3> QED BY <3>1, <3>2
  <2>10. WiredFrames'
    <3>1. ASSUME NEW i \in DOMAIN frames', NEW j \in 1 .. frames'[i].ops, NEW p \in Ops(S), NEW w \in Ops(U),
                 NEW x \in Operands(S), NEW y \in Operands(U),
                 boundOps'[j] = p, userOpOf'[p] = w, PortPair(p, w, x, y)
          PROVE  \E k \in 1 .. frames'[i].operands : boundOperands[k] = x
      <4> i \in 1 .. n
        BY <2>4
      <4>1. frames'[i].ops = frames[i].ops /\ frames'[i].operands = frames[i].operands
        <5>1. CASE i = n
          <6>1. frames'[i] = new /\ frames[i] = Top
            BY <1>5, <2>4, <5>1
          <6>2. new.ops = nOps /\ new.operands = nOperands
            OBVIOUS
          <6> QED BY <1>6, <6>1, <6>2
        <5>2. CASE i # n
          BY <2>4, <5>2
        <5> QED BY <5>1, <5>2
      <4>2. j \in 1 .. nOps
        <5>1. frames[i].ops \in Nat /\ frames[i].ops <= nOps
          BY <1>3, <1>5 DEF FrameType, FramesInv
        <5> HIDE DEF nOps
        <5> QED BY <1>3, <4>1, <5>1
      <4>3. boundOps'[j] = boundOps[j]
        <5>1. boundOps \in Seq(Ops(S)) /\ boundOps' = Append(boundOps, o)
          BY <1>3, <2>1 DEF StackType
        <5> QED BY <4>2, <5>1
      <4>4. boundOps[j] \in Ops(S) /\ userOpOf[boundOps[j]] # Unmatched
        BY <1>3, <4>2, TrailBound
      <4>5. userOpOf[p] = w /\ boundOps[j] = p
        BY <1>6, <2>6, <3>1, <4>3, <4>4
      <4> QED BY <1>3, <1>5, <3>1, <4>1, <4>5 DEF WiredFrames
    <3>2. boundOperands' = boundOperands
      BY <2>1
    <3> QED BY <1>3, <1>7, <3>1, <3>2 DEF WiredFrames
  <2>11. BindingInv'
    <3>1. /\ \A i \in DOMAIN pairs : PortPair(o, v, pairs[i][1], pairs[i][2])
          /\ \A x, y : PortPair(o, v, x, y) => \E i \in DOMAIN pairs : pairs[i] = <<x, y>>
          /\ Apart(pairs)
      BY <1>3, <1>6, <2>2, <2>3, PairsAre
    <3>2. \A i \in DOMAIN pairs : OperandsCompatible(pairs[i][1], pairs[i][2])
      BY <2>2 DEF OpsCompatible
    <3>3. todo' = pairs /\ Top'.op = o /\ userOpOf'[o] = v
      BY <2>1, <2>5, <2>6
    <3> HIDE DEF pairs
    <3>4. ASSUME NEW x, NEW y, \E i \in DOMAIN pairs : pairs[i] = <<x, y>>
          PROVE  PortPair(o, v, x, y) /\ OperandsCompatible(x, y)'
      <4>1. PICK i \in DOMAIN pairs : pairs[i] = <<x, y>>
        BY <3>4
      <4>2. PortPair(o, v, x, y) /\ OperandsCompatible(x, y)
        BY <3>1, <3>2, <4>1
      <4>3. OperandsCompatible(x, y)'
        BY <1>3, <1>6, <2>1, <2>2, <2>3, <4>2, CompatibleAtPorts
      <4> QED BY <4>2, <4>3
    <3>5. Apart(todo)'
      BY <3>1, <3>3 DEF Apart
    <3>6. ASSUME NEW x, NEW y
          PROVE  /\ PortPair(o, v, x, y)' => Pending(x, y)'
                 /\ Pending(x, y)' => PortPair(o, v, x, y)' /\ OperandsCompatible(x, y)'
      <4>1. Pending(x, y)' <=> \E i \in DOMAIN pairs : pairs[i] = <<x, y>>
        BY <3>3 DEF Pending
      <4> QED BY <1>7, <3>1, <3>4, <4>1
    <3>7. ASSUME NEW p \in Ops(S), NEW w \in Ops(U), NEW x \in Operands(S), NEW y \in Operands(U),
                 p = Top'.op, userOpOf'[p] = w
          PROVE  /\ PortPair(p, w, x, y)' => Pending(x, y)'
                 /\ Pending(x, y)' => PortPair(p, w, x, y)' /\ OperandsCompatible(x, y)'
      <4>1. p = o /\ w = v
        BY <3>3, <3>7
      <4> QED BY <3>6, <4>1
    <3>8. userOpOf'[Top'.op] \in Ops(U')
      BY <1>3, <2>2, <3>3
    <3> QED BY <1>3, <3>5, <3>7, <3>8 DEF BindingInv
  <2>12. PhaseInv'
    BY <2>1, <2>11 DEF PhaseInv
  <2> QED BY <2>7, <2>9, <2>10, <2>12 DEF WiredInv
<1> QED BY <1>8, <1>9

\* What rollback() to c keeps of a trail is what is in front of c.
LEMMA KeptOnTrail ==
  ASSUME NEW bound, NEW f, OnTrail(bound, f), DOMAIN bound = 1 .. Len(bound), Len(bound) \in Nat,
         NEW c \in 0 .. Len(bound)
  PROVE  /\ \A k \in 1 .. c : bound[k] \notin Dropped(bound, c)
         /\ \A x \in DOMAIN f : f[x] # Unmatched /\ x \notin Dropped(bound, c) => \E k \in 1 .. c : bound[k] = x
<1> DEFINE n == Len(bound)
<1>1. \A z : z \in Dropped(bound, c) <=> \E i \in c + 1 .. n : bound[i] = z
  BY DEF Dropped
<1> HIDE DEF n
<1>2. /\ \A i \in 1 .. c : i \in 1 .. n
      /\ \A i \in c + 1 .. n : i \in 1 .. n
      /\ \A i \in 1 .. n : i \in 1 .. c \/ i \in c + 1 .. n
      /\ \A i \in 1 .. c, j \in c + 1 .. n : i # j
  BY DEF n
<1>3. /\ \A i, j \in 1 .. n : bound[i] = bound[j] => i = j
      /\ \A x \in DOMAIN f : f[x] # Unmatched => \E i \in 1 .. n : bound[i] = x
  BY DEF OnTrail, n
<1>4. ASSUME NEW k \in 1 .. c, bound[k] \in Dropped(bound, c) PROVE FALSE
  BY <1>1, <1>2, <1>3, <1>4
<1>5. ASSUME NEW x \in DOMAIN f, f[x] # Unmatched, x \notin Dropped(bound, c) PROVE \E k \in 1 .. c : bound[k] = x
  BY <1>1, <1>2, <1>3, <1>5
<1> QED BY <1>4, <1>5

LEMMA UndoWires ==
  ASSUME Inv, WiredInv, Undo
  PROVE  WiredInv' /\ Top.op # None
<1> DEFINE n == Len(frames)
           p == Top.operands
           q == Top.ops
           D == Dropped(boundOperands, p)
           E == Dropped(boundOps, q)
<1>1. pc = "undo" /\ UNCHANGED <<given, todo>> /\ Rollback(p, q)
  BY DEF Undo
<1>2. pc \in Searching \ {"bind"}
  BY <1>1 DEF Searching
<1>3. /\ U' = U /\ S' = S /\ Sound(U) /\ Sound(S) /\ MapsInv /\ StackType /\ FramesInv /\ TopInv
      /\ OnTrail(boundOperands, userOperandOf) /\ OnTrail(boundOps, userOpOf)
      /\ Len(boundOperands) \in Nat /\ Len(boundOps) \in Nat
      /\ DOMAIN boundOperands = 1 .. Len(boundOperands) /\ DOMAIN boundOps = 1 .. Len(boundOps)
      /\ WiredOperands /\ WiredOps /\ WiredFrames /\ PhaseInv
  BY <1>1, <1>2, SearchFacts
<1>4. frames # <<>>
  BY <1>1 DEF Inv, ControlInv, Searching
<1>5. /\ n \in Nat /\ n >= 1 /\ DOMAIN frames = 1 .. n /\ n \in DOMAIN frames
      /\ Top = frames[n] /\ \A i \in DOMAIN frames : frames[i] \in FrameType
  BY <1>3, <1>4, TopOf
<1>6. \A i \in 1 .. n : /\ frames[i].operands \in Nat /\ frames[i].operands <= Len(boundOperands)
                        /\ frames[i].ops \in Nat /\ frames[i].ops <= Len(boundOps)
  BY <1>3, <1>5 DEF FrameType, FramesInv
<1>7. p \in 0 .. Len(boundOperands) /\ q \in 0 .. Len(boundOps)
  BY <1>3, <1>5, <1>6
<1>8. Top.op # None /\ frames' = frames /\ pc' = "try" /\ Top' = Top
  BY <1>1, <1>3 DEF PhaseInv, Undo, Goto, Top
<1> HIDE DEF p, q
<1>9. /\ \A k \in 1 .. p : boundOperands[k] \notin D
      /\ \A k \in 1 .. q : boundOps[k] \notin E
      /\ \A o \in Ops(S) : userOpOf[o] # Unmatched /\ o \notin E => \E k \in 1 .. q : boundOps[k] = o
  BY <1>3, <1>7, KeptOnTrail DEF MapsInv
<1>10. /\ \A x \in Operands(S) : userOperandOf'[x] = IF x \in D THEN Unmatched ELSE userOperandOf[x]
       /\ \A o \in Ops(S) : userOpOf'[o] = IF o \in E THEN Unmatched ELSE userOpOf[o]
  BY <1>1, <1>3 DEF Rollback, Cleared, MapsInv
<1>11. /\ Len(boundOperands') = p /\ \A k \in 1 .. p : boundOperands'[k] = boundOperands[k]
       /\ Len(boundOps') = q /\ \A k \in 1 .. q : boundOps'[k] = boundOps[k]
  <2>1. boundOperands \in Seq(Operands(S)) /\ boundOps \in Seq(Ops(S))
    BY <1>3 DEF StackType
  <2>2. boundOperands' = SubSeq(boundOperands, 1, p) /\ boundOps' = SubSeq(boundOps, 1, q)
    BY <1>1 DEF Rollback
  <2> QED BY <1>7, <2>1, <2>2, PrefixOf
<1> HIDE DEF D, E
<1>12. \A i \in 1 .. n : frames[i].operands <= p /\ frames[i].ops <= q
  <2> TAKE i \in 1 .. n
  <2>1. CASE i = n
    BY <1>5, <1>6, <2>1 DEF p, q
  <2>2. CASE i # n
    <3>1. i < n
      <4>1. n \in Nat
        BY <1>5
      <4> HIDE DEF n
      <4> QED BY <2>2, <4>1
    <3>2. frames[i].operands <= frames[n].operands /\ frames[i].ops < frames[n].ops
      BY <1>3, <1>5, <3>1 DEF FramesInv
    <3> QED BY <1>5, <1>6, <3>2 DEF p, q
  <2> QED BY <2>1, <2>2
<1>13. \A i \in 1 .. n : /\ \A k \in 1 .. frames[i].operands : k \in 1 .. p
                         /\ \A k \in 1 .. frames[i].ops : k \in 1 .. q
  BY <1>6, <1>7, <1>12
<1>14. /\ \A o, v : OfAKind(o, v)' <=> OfAKind(o, v)
       /\ \A o, v, x, y : PortPair(o, v, x, y)' <=> PortPair(o, v, x, y)
  BY <1>3, PatternsStay
<1>15. \A v \in Ops(U) : v # Unmatched
  BY <1>3 DEF Sound, Unmatched
<1>16. WiredOperands'
  BY <1>3, <1>10 DEF WiredOperands
<1>17. ASSUME NEW o \in Ops(S), NEW v \in Ops(U), userOpOf'[o] = v
       PROVE  OfAKind(o, v) /\ PortsBound(o, v)' /\ userOpOf[o] = v
  <2>1. userOpOf[o] = v /\ o \notin E
    BY <1>10, <1>15, <1>17
  <2>2. OfAKind(o, v) /\ PortsBound(o, v)
    BY <1>2, <2>1, AllWired
  <2>3. PICK j \in 1 .. q : boundOps[j] = o
    BY <1>9, <1>15, <2>1
  <2>4. ASSUME NEW x \in Operands(S), NEW y \in Operands(U), PortPair(o, v, x, y)
        PROVE  userOperandOf'[x] = y
    <3>1. q = frames[n].ops /\ p = frames[n].operands
      BY <1>5 DEF p, q
    <3>2. PICK k \in 1 .. p : boundOperands[k] = x
      BY <1>3, <1>5, <2>1, <2>3, <2>4, <3>1 DEF WiredFrames
    <3>3. x \notin D /\ userOperandOf[x] = y
      BY <1>9, <2>2, <2>4, <3>2 DEF PortsBound
    <3> QED BY <1>10, <3>3
  <2>5. PortsBound(o, v)'
    BY <1>3, <1>14, <2>4 DEF PortsBound
  <2> QED BY <2>1, <2>2, <2>5
<1>18. WiredOps'
  BY <1>3, <1>14, <1>17 DEF WiredOps
<1>19. WiredFrames'
  <2>1. ASSUME NEW i \in DOMAIN frames, NEW j \in 1 .. frames[i].ops, NEW o \in Ops(S), NEW v \in Ops(U),
               NEW x \in Operands(S), NEW y \in Operands(U),
               boundOps'[j] = o, userOpOf'[o] = v, PortPair(o, v, x, y)
        PROVE  \E k \in 1 .. frames[i].operands : boundOperands'[k] = x
    <3>1. boundOps[j] = o /\ userOpOf[o] = v
      BY <1>5, <1>11, <1>13, <1>17, <2>1
    <3>2. \E k \in 1 .. frames[i].operands : boundOperands[k] = x
      BY <1>3, <2>1, <3>1 DEF WiredFrames
    <3> QED BY <1>5, <1>11, <1>13, <3>2
  <2> QED BY <1>3, <1>8, <1>14, <2>1 DEF WiredFrames
<1>20. PhaseInv'
  BY <1>8, <1>11 DEF PhaseInv, p, q
<1> QED BY <1>8, <1>16, <1>18, <1>19, <1>20 DEF WiredInv

\* Of the pairs s, the first is h, and those of t are left, none of which
\* shares an operand with h.
Leaves(s, h, t) ==
  /\ 1 \in DOMAIN s /\ s[1] = h
  /\ \A i \in DOMAIN t : \E j \in DOMAIN s : t[i] = s[j] /\ s[j][1] # h[1] /\ s[j][2] # h[2]
  /\ \A j \in DOMAIN s : s[j] = h \/ \E i \in DOMAIN t : t[i] = s[j]
  /\ Apart(t)

LEMMA BehindHead ==
  ASSUME NEW A, NEW B, NEW s \in Seq(A \X B), s # <<>>, Apart(s)
  PROVE  Head(s) \in A \X B /\ Leaves(s, Head(s), Tail(s))
<1> DEFINE n == Len(s)
           t == Tail(s)
<1>1. /\ n \in Nat /\ n >= 1 /\ DOMAIN s = 1 .. n /\ Head(s) = s[1] /\ Head(s) \in A \X B
      /\ DOMAIN t = 1 .. n - 1 /\ \A i \in 1 .. n - 1 : t[i] = s[i + 1]
  OBVIOUS
<1> HIDE DEF n, t
<1>2. /\ \A i \in 1 .. n - 1 : i + 1 \in 1 .. n /\ i + 1 # 1
      /\ \A i, j \in 1 .. n - 1 : i # j => i + 1 # j + 1
      /\ \A j \in 1 .. n : j = 1 \/ \E i \in 1 .. n - 1 : j = i + 1
      /\ 1 \in 1 .. n
  <2>1. ASSUME NEW j \in 1 .. n, j # 1 PROVE \E i \in 1 .. n - 1 : j = i + 1
    <3>1. j - 1 \in 1 .. n - 1 /\ j = (j - 1) + 1
      BY <1>1, <2>1
    <3> QED BY <3>1
  <2> QED BY <1>1, <2>1
<1>3. \A i, j \in 1 .. n : i # j => s[i][1] # s[j][1] /\ s[i][2] # s[j][2]
  BY <1>1 DEF Apart
<1>4. Apart(t)
  BY <1>1, <1>2, <1>3 DEF Apart
<1>5. \A i \in DOMAIN t : \E j \in DOMAIN s : t[i] = s[j] /\ s[j][1] # Head(s)[1] /\ s[j][2] # Head(s)[2]
  <2> TAKE i \in DOMAIN t
  <2>1. i + 1 \in DOMAIN s /\ t[i] = s[i + 1] /\ s[i + 1][1] # s[1][1] /\ s[i + 1][2] # s[1][2]
    BY <1>1, <1>2, <1>3
  <2> QED BY <1>1, <2>1
<1>6. \A j \in DOMAIN s : s[j] = Head(s) \/ \E i \in DOMAIN t : t[i] = s[j]
  <2> TAKE j \in DOMAIN s
  <2>1. CASE j = 1
    BY <1>1, <2>1
  <2>2. CASE j # 1
    <3>1. PICK i \in 1 .. n - 1 : j = i + 1
      BY <1>1, <1>2, <2>2
    <3>2. t[i] = s[j] /\ i \in DOMAIN t
      BY <1>1, <3>1
    <3> QED BY <3>2
  <2> QED BY <2>1, <2>2
<1>7. Leaves(s, Head(s), t)
  BY <1>1, <1>2, <1>4, <1>5, <1>6 DEF Leaves
<1> QED BY <1>1, <1>7 DEF t

\* Binding a pair does not touch whether two other operands are compatible.
LEMMA CompatibleElsewhere ==
  ASSUME U' = U, S' = S, UNCHANGED <<userOpOf, supportedOpOf>>, NEW z, NEW w,
         userOperandOf'[z] = userOperandOf[z], supportedOperandOf'[w] = supportedOperandOf[w],
         OperandsCompatible(z, w)
  PROVE  OperandsCompatible(z, w)'
<1>1. /\ Producers(S, z)' = Producers(S, z) /\ Producers(U, w)' = Producers(U, w)
      /\ Consumers(S, z)' = Consumers(S, z) /\ Consumers(U, w)' = Consumers(U, w)
      /\ ProducerKinds(S, z)' = ProducerKinds(S, z) /\ ProducerKinds(U, w)' = ProducerKinds(U, w)
      /\ ConsumerKinds(S, z)' = ConsumerKinds(S, z) /\ ConsumerKinds(U, w)' = ConsumerKinds(U, w)
  OBVIOUS
<1>2. CASE userOperandOf[z] # Unmatched
  BY <1>2 DEF OperandsCompatible
<1>3. CASE userOperandOf[z] = Unmatched
  <2>1. /\ supportedOperandOf[w] = Unmatched /\ S.kinds[z] = U.kinds[w]
        /\ ProducerKinds(S, z) = ProducerKinds(U, w) /\ ConsumerKinds(S, z) = ConsumerKinds(U, w)
        /\ \A q \in Producers(S, z), r \in Producers(U, w) :
             userOpOf[q.op] \in {Unmatched, r.op} /\ supportedOpOf[r.op] \in {Unmatched, q.op}
        /\ \A q \in Consumers(S, z) :
             userOpOf[q.op] # Unmatched => U.ops[userOpOf[q.op]].inputs[q.port] = w
        /\ \A r \in Consumers(U, w) :
             supportedOpOf[r.op] # Unmatched => S.ops[supportedOpOf[r.op]].inputs[r.port] = z
    BY <1>3 DEF OperandsCompatible
  <2> QED BY <1>1, <1>3, <2>1 DEF OperandsCompatible
<1> QED BY <1>2, <1>3

LEMMA BindWires ==
  ASSUME Inv, WiredInv, Bind
  PROVE  WiredInv' /\ pc' # "undo"
<1>1. pc = "bind" /\ UNCHANGED <<given, frames>>
  BY DEF Bind
<1>2. /\ U' = U /\ S' = S /\ Sound(U) /\ Sound(S) /\ MapsInv /\ StackType /\ FramesInv /\ TopInv
      /\ WiredOperands /\ WiredOps /\ WiredFrames /\ PhaseInv
  BY <1>1, SearchFacts DEF Searching
<1>3. frames # <<>> /\ BindingInv
  BY <1>1, <1>2 DEF Inv, ControlInv, Searching, PhaseInv
<1>4. PICK o \in Ops(S) : o = Top.op /\ Top' = Top
  <2>1. Top \in FrameType /\ Top.op # None
    BY <1>1, <1>2, <1>3, TopOf DEF TopInv
  <2> QED BY <1>1, <2>1 DEF FrameType, Top
<1>5. PICK v \in Ops(U) : userOpOf[o] = v
  BY <1>3, <1>4 DEF BindingInv
<1>6. /\ \A a, b : OfAKind(a, b)' <=> OfAKind(a, b)
      /\ \A a, b, x, y : PortPair(a, b, x, y)' <=> PortPair(a, b, x, y)
  BY <1>2, PatternsStay
<1>7. /\ \A x \in Operands(S), y \in Operands(U) :
           /\ PortPair(o, v, x, y) => userOperandOf[x] = y \/ Pending(x, y)
           /\ Pending(x, y) => PortPair(o, v, x, y) /\ OperandsCompatible(x, y)
      /\ Apart(todo)
  BY <1>3, <1>4, <1>5 DEF BindingInv
<1>8. \A p \in Ops(S), w \in Ops(U) : userOpOf[p] = w => OfAKind(p, w) /\ (p = o \/ PortsBound(p, w))
  BY <1>2, <1>4 DEF WiredOps
<1>9. CASE todo = <<>>
  <2>1. pc' = "select" /\ UNCHANGED <<maps, todo>>
    BY <1>9 DEF Bind, Goto
  <2>2. /\ userOperandOf' = userOperandOf /\ userOpOf' = userOpOf
        /\ boundOperands' = boundOperands /\ boundOps' = boundOps
    BY <2>1 DEF maps
  <2>3. PortsBound(o, v)
    <3>1. \A x, y : ~Pending(x, y)
      BY <1>9 DEF Pending
    <3> QED BY <1>7, <3>1 DEF PortsBound
  <2>4. \A p, w : PortsBound(p, w) => PortsBound(p, w)'
    BY <1>2, <1>6, <2>2 DEF PortsBound
  <2>5. WiredOperands' /\ WiredFrames'
    BY <1>1, <1>2, <1>6, <2>2 DEF WiredOperands, WiredFrames
  <2>6. WiredOps'
    <3>1. ASSUME NEW p \in Ops(S), NEW w \in Ops(U), userOpOf[p] = w PROVE OfAKind(p, w) /\ PortsBound(p, w)'
      BY <1>5, <1>8, <2>3, <2>4, <3>1
    <3> QED BY <1>2, <1>6, <2>2, <3>1 DEF WiredOps
  <2>7. PhaseInv'
    BY <2>1 DEF PhaseInv
  <2> QED BY <2>1, <2>5, <2>6, <2>7 DEF WiredInv
<1>10. CASE todo # <<>>
  <2>1. todo \in Seq(Operands(S) \X Operands(U))
    BY <1>2 DEF StackType
  <2>2. PICK x \in Operands(S), y \in Operands(U) : Head(todo) = <<x, y>>
    <3>1. Head(todo) \in Operands(S) \X Operands(U)
      BY <1>7, <1>10, <2>1, BehindHead
    <3> QED BY <3>1
  <2>3. Head(todo)[1] = x /\ Head(todo)[2] = y
    BY <2>2
  <2>4. /\ 1 \in DOMAIN todo /\ todo[1] = <<x, y>>
        /\ \A i \in DOMAIN Tail(todo) : \E j \in DOMAIN todo :
             Tail(todo)[i] = todo[j] /\ todo[j][1] # x /\ todo[j][2] # y
        /\ \A j \in DOMAIN todo : todo[j] = <<x, y>> \/ \E i \in DOMAIN Tail(todo) : Tail(todo)[i] = todo[j]
        /\ Apart(Tail(todo))
    <3>1. Leaves(todo, Head(todo), Tail(todo))
      BY <1>7, <1>10, <2>1, BehindHead
    <3> DEFINE h == Head(todo)
               t == Tail(todo)
    <3>2. Leaves(todo, h, t) /\ h = <<x, y>> /\ h[1] = x /\ h[2] = y
      BY <2>2, <3>1
    <3> HIDE DEF h, t
    <3>3. /\ 1 \in DOMAIN todo /\ todo[1] = <<x, y>>
          /\ \A i \in DOMAIN t : \E j \in DOMAIN todo : t[i] = todo[j] /\ todo[j][1] # x /\ todo[j][2] # y
          /\ \A j \in DOMAIN todo : todo[j] = <<x, y>> \/ \E i \in DOMAIN t : t[i] = todo[j]
          /\ Apart(t)
      BY <3>2 DEF Leaves
    <3> QED BY <3>3 DEF t
  <2>5. Pending(x, y)
    BY <2>4 DEF Pending
  <2>6. OperandsCompatible(x, y)
    BY <1>7, <2>5
  <2>7. /\ todo' = Tail(todo) /\ pc' = "bind"
        /\ IF userOperandOf[x] = y THEN UNCHANGED maps ELSE BindOperand(x, y)
    BY <1>10, <2>3, <2>6 DEF Bind, Goto
  <2>8. ASSUME NEW z, NEW w
        PROVE  /\ Pending(z, w)' => Pending(z, w) /\ z # x /\ w # y
               /\ Pending(z, w) => (z = x /\ w = y) \/ Pending(z, w)'
    <3>1. Pending(z, w)' <=> \E i \in DOMAIN Tail(todo) : Tail(todo)[i] = <<z, w>>
      BY <2>7 DEF Pending
    <3>2. ASSUME NEW i \in DOMAIN Tail(todo), Tail(todo)[i] = <<z, w>> PROVE Pending(z, w) /\ z # x /\ w # y
      <4>1. PICK j \in DOMAIN todo : Tail(todo)[i] = todo[j] /\ todo[j][1] # x /\ todo[j][2] # y
        BY <2>4
      <4>2. todo[j] = <<z, w>>
        BY <3>2, <4>1
      <4> QED BY <4>1, <4>2 DEF Pending
    <3>3. ASSUME NEW j \in DOMAIN todo, todo[j] = <<z, w>>
          PROVE  (z = x /\ w = y) \/ \E i \in DOMAIN Tail(todo) : Tail(todo)[i] = <<z, w>>
      BY <2>4, <3>3
    <3> QED BY <3>1, <3>2, <3>3 DEF Pending
  <2>9. /\ UNCHANGED <<userOpOf, supportedOpOf>> /\ userOperandOf'[x] = y
        /\ \A z \in Operands(S), w \in Operands(U) : userOperandOf[z] = w => userOperandOf'[z] = w
        /\ \A z \in Operands(S) : z # x => userOperandOf'[z] = userOperandOf[z]
        /\ \A z \in Operands(U) : z # y => supportedOperandOf'[z] = supportedOperandOf[z]
        /\ \A a, b : PortsBound(a, b) => PortsBound(a, b)'
        /\ WiredOperands' /\ WiredFrames'
    <3>1. CASE userOperandOf[x] = y
      <4>1. UNCHANGED <<userOperandOf, supportedOperandOf, userOpOf, supportedOpOf, boundOperands, boundOps>>
        BY <2>7, <3>1 DEF maps
      <4>2. \A a, b : PortsBound(a, b) => PortsBound(a, b)'
        BY <1>2, <1>6, <4>1 DEF PortsBound
      <4>3. WiredOperands' /\ WiredFrames'
        BY <1>1, <1>2, <1>6, <4>1 DEF WiredOperands, WiredFrames
      <4> QED BY <3>1, <4>1, <4>2, <4>3
    <3>2. CASE userOperandOf[x] # y
      <4>1. userOperandOf[x] = Unmatched /\ S.kinds[x] = U.kinds[y] /\ BindOperand(x, y)
        BY <2>6, <2>7, <3>2 DEF OperandsCompatible
      <4> QED BY <1>1, <1>2, <4>1, BoundOperandKeeps DEF BindOperand
    <3> QED BY <3>1, <3>2
  <2>10. WiredOps'
    <3>1. ASSUME NEW p \in Ops(S), NEW w \in Ops(U), userOpOf[p] = w
          PROVE  OfAKind(p, w) /\ (p = o \/ PortsBound(p, w)')
      BY <1>8, <2>9, <3>1
    <3>2. userOpOf' = userOpOf /\ Top'.op = o /\ pc' = "bind"
      BY <1>4, <2>7, <2>9
    <3> QED BY <1>2, <1>6, <3>1, <3>2 DEF WiredOps
  <2>11. ASSUME NEW z \in Operands(S), NEW w \in Operands(U)
         PROVE  /\ PortPair(o, v, z, w) => userOperandOf'[z] = w \/ Pending(z, w)'
                /\ Pending(z, w)' => PortPair(o, v, z, w) /\ OperandsCompatible(z, w)'
    <3>1. PortPair(o, v, z, w) => userOperandOf'[z] = w \/ Pending(z, w)'
      BY <1>7, <2>8, <2>9
    <3>2. ASSUME Pending(z, w)' PROVE PortPair(o, v, z, w) /\ OperandsCompatible(z, w)'
      <4>1. z # x /\ w # y /\ PortPair(o, v, z, w) /\ OperandsCompatible(z, w)
        BY <1>7, <2>8, <3>2
      <4>2. userOperandOf'[z] = userOperandOf[z] /\ supportedOperandOf'[w] = supportedOperandOf[w]
        BY <2>9, <4>1
      <4> QED BY <1>2, <2>9, <4>1, <4>2, CompatibleElsewhere
    <3> QED BY <3>1, <3>2
  <2>12. BindingInv'
    <3>1. Top'.op = o /\ userOpOf'[o] = v /\ Apart(todo)'
      BY <1>4, <1>5, <2>4, <2>7, <2>9 DEF Apart
    <3>2. ASSUME NEW p \in Ops(S), NEW w \in Ops(U), p = Top'.op, userOpOf'[p] = w PROVE p = o /\ w = v
      BY <3>1, <3>2
    <3>3. userOpOf'[Top'.op] \in Ops(U')
      BY <1>2, <3>1
    <3> QED BY <1>2, <1>6, <2>11, <3>1, <3>2, <3>3 DEF BindingInv
  <2>13. PhaseInv'
    BY <2>7, <2>12 DEF PhaseInv
  <2> QED BY <2>7, <2>9, <2>10, <2>13 DEF WiredInv
<1> QED BY <1>9, <1>10

LEMMA ValidateWires ==
  ASSUME Inv, WiredInv, Validate
  PROVE  pc' = "done"
<1>1. pc = "validate" /\ UNCHANGED given
  BY DEF Validate
<1>2. /\ Sound(U) /\ Sound(S) /\ MapsInv /\ WiredOperands /\ PhaseInv
      /\ Converse(userOperandOf, supportedOperandOf) /\ Converse(userOpOf, supportedOpOf)
  BY <1>1, SearchFacts DEF Searching
<1>3. \A o \in Ops(S), v \in Ops(U) : userOpOf[o] = v => OfAKind(o, v) /\ PortsBound(o, v)
  BY <1>1, AllWired DEF Searching
<1>4. ASSUME NEW x \in Operands(S)
      PROVE  /\ userOperandOf[x] # Unmatched /\ supportedOperandOf[userOperandOf[x]] = x
             /\ S.kinds[x] = U.kinds[userOperandOf[x]]
  <2>1. userOperandOf[x] # Unmatched
    BY <1>1, <1>2 DEF PhaseInv, OpenOperands
  <2> QED BY <1>2, <2>1 DEF Converse, MapsInv, WiredOperands
<1>5. ASSUME NEW o \in Ops(S)
      PROVE  LET v == userOpOf[o]
             IN  /\ v # Unmatched
                 /\ supportedOpOf[v] = o
                 /\ S.ops[o].kind = U.ops[v].kind
                 /\ [i \in DOMAIN S.ops[o].inputs |-> userOperandOf[S.ops[o].inputs[i]]] = U.ops[v].inputs
                 /\ [i \in DOMAIN S.ops[o].outputs |-> userOperandOf[S.ops[o].outputs[i]]] = U.ops[v].outputs
  <2>1. userOpOf[o] # Unmatched
    BY <1>1, <1>2 DEF PhaseInv, OpenOps
  <2>2. PICK v \in Ops(U) : userOpOf[o] = v
    BY <1>2, <2>1 DEF MapsInv
  <2>3. supportedOpOf[v] = o
    BY <1>2, <2>2 DEF Converse, MapsInv
  <2>4. OfAKind(o, v) /\ PortsBound(o, v)
    BY <1>3, <2>2
  <2> DEFINE si == S.ops[o].inputs
             so == S.ops[o].outputs
             ui == U.ops[v].inputs
             uo == U.ops[v].outputs
  <2>5. /\ si \in Seq(Operands(S)) /\ so \in Seq(Operands(S)) /\ ui \in Seq(Operands(U)) /\ uo \in Seq(Operands(U))
        /\ Len(si) = Len(ui) /\ Len(so) = Len(uo)
    BY <1>2, <2>4 DEF Sound, OfAKind
  <2>6. /\ \A i \in DOMAIN si : PortPair(o, v, si[i], ui[i])
        /\ \A i \in DOMAIN so : PortPair(o, v, so[i], uo[i])
    BY DEF PortPair
  <2> HIDE DEF si, so, ui, uo
  <2>7. /\ \A i \in DOMAIN si : si[i] \in Operands(S) /\ ui[i] \in Operands(U)
        /\ \A i \in DOMAIN so : so[i] \in Operands(S) /\ uo[i] \in Operands(U)
        /\ DOMAIN si = DOMAIN ui /\ DOMAIN so = DOMAIN uo
        /\ ui = [i \in DOMAIN ui |-> ui[i]] /\ uo = [i \in DOMAIN uo |-> uo[i]]
    BY <2>5
  <2>8. /\ \A i \in DOMAIN si : userOperandOf[si[i]] = ui[i]
        /\ \A i \in DOMAIN so : userOperandOf[so[i]] = uo[i]
    BY <2>4, <2>6, <2>7 DEF PortsBound
  <2>9. /\ [i \in DOMAIN si |-> userOperandOf[si[i]]] = ui
        /\ [i \in DOMAIN so |-> userOperandOf[so[i]]] = uo
    BY <2>7, <2>8
  <2> QED BY <2>1, <2>2, <2>3, <2>4, <2>9 DEF OfAKind, si, so, ui, uo
<1>6. Complete
  BY <1>4, <1>5 DEF Complete
<1> QED BY <1>6 DEF Validate, End

\* An injection of a finite set into one of its size is onto.
LEMMA InjectionIntoEqual ==
  ASSUME NEW A, NEW B, IsFiniteSet(A), NEW m \in Bijection(A, B),
         NEW h \in [A -> B], \A i, j \in A : h[i] = h[j] => i = j
  PROVE  \A j \in B : \E i \in A : h[i] = j
<1>1. h \in Injection(A, B)
  BY Fun_IsInj
<1>2. ExistsBijection(A, B)
  BY Fun_ExistsBij
<1>3. IsFiniteSet(B) /\ Cardinality(A) = Cardinality(B)
  BY <1>2, FS_Bijection
<1>4. h \in Surjection(A, B)
  BY <1>1, <1>3, FS_Injection
<1> QED BY <1>4, Fun_SurjectionProperties

\* While a supported operand is open, so is one of the user's of its kind.
LEMMA OpenPartner ==
  ASSUME Sound(U), Sound(S), SameKey, KindsAgree, pc \in Searching, MapsInv, WiredOperands,
         Converse(userOperandOf, supportedOperandOf), NEW x \in OpenOperands
  PROVE  \E y \in Operands(U) : supportedOperandOf[y] = Unmatched /\ U.kinds[y] = S.kinds[x]
<1> SUFFICES ASSUME \A y \in Operands(U) : U.kinds[y] = S.kinds[x] => supportedOperandOf[y] # Unmatched
             PROVE  FALSE
  OBVIOUS
<1> DEFINE P == {z \in Operands(S) : S.kinds[z] = S.kinds[x]}
           Q == {y \in Operands(U) : U.kinds[y] = S.kinds[x]}
           m == [y \in Q |-> OperandsPaired[y]]
           h == [y \in Q |-> supportedOperandOf[y]]
<1>1. x \in P /\ userOperandOf[x] = Unmatched
  BY DEF OpenOperands
<1>2. Q \subseteq Operands(U) /\ IsFiniteSet(Q)
  <2>1. IsFiniteSet(Operands(U))
    BY IntervalIsFinite DEF Sound
  <2> QED BY <2>1, FS_Subset
<1>3. /\ OperandsPaired \in [Operands(U) -> Operands(S)]
      /\ \A i, j \in Operands(U) : OperandsPaired[i] = OperandsPaired[j] => i = j
      /\ \A z \in Operands(S) : \E i \in Operands(U) : OperandsPaired[i] = z
      /\ \A y \in Operands(U) : U.kinds[y] = S.kinds[OperandsPaired[y]]
  <2>1. /\ OperandsPaired \in Bijection(Operands(U), Operands(S))
        /\ \A y \in Operands(U) :
             SupportedColors(colors).operands[OperandsPaired[y]] = UserColors(colors).operands[y]
    BY KeysOfOneSize
  <2>2. /\ OperandsPaired \in [Operands(U) -> Operands(S)]
        /\ \A i, j \in Operands(U) : OperandsPaired[i] = OperandsPaired[j] => i = j
        /\ \A z \in Operands(S) : \E i \in Operands(U) : OperandsPaired[i] = z
    BY <2>1, Fun_BijectionProperties
  <2>3. \A y \in Operands(U) : U.kinds[y] = S.kinds[OperandsPaired[y]]
    BY <2>1, <2>2 DEF KindsAgree
  <2> QED BY <2>2, <2>3
<1>4. m \in Bijection(Q, P)
  <2>1. \A y \in Q : m[y] = OperandsPaired[y] /\ m[y] \in P
    BY <1>3
  <2>2. \A z \in P : \E y \in Q : OperandsPaired[y] = z
    BY <1>3
  <2>3. \A i, j \in Q : OperandsPaired[i] = OperandsPaired[j] => i = j
    BY <1>3
  <2>4. m = [y \in Q |-> m[y]]
    OBVIOUS
  <2> HIDE DEF m, P, Q
  <2> QED BY <2>1, <2>2, <2>3, <2>4, Fun_IsBij
<1>5. ASSUME NEW y \in Q PROVE h[y] = supportedOperandOf[y] /\ h[y] \in P /\ userOperandOf[h[y]] = y
  <2>1. supportedOperandOf[y] \in Operands(S) /\ userOperandOf[supportedOperandOf[y]] = y
    BY DEF MapsInv, Converse
  <2>2. y # Unmatched
    BY DEF Sound, Unmatched
  <2> QED BY <2>1, <2>2 DEF WiredOperands
<1>6. h \in [Q -> P] /\ \A i, j \in Q : h[i] = h[j] => i = j
  <2>1. h = [y \in Q |-> h[y]]
    OBVIOUS
  <2> HIDE DEF h, P, Q
  <2> QED BY <1>5, <2>1
<1> HIDE DEF h, m, P, Q
<1>7. PICK y \in Q : h[y] = x
  BY <1>1, <1>2, <1>4, <1>6, InjectionIntoEqual
<1>8. userOperandOf[x] = y /\ y # Unmatched
  <2>1. y \in Operands(U)
    BY <1>2
  <2> QED BY <1>5, <1>7, <2>1 DEF Sound, Unmatched
<1> QED BY <1>1, <1>8

LEMMA SamePorts ==
  ASSUME Sound(U), Sound(S), NEW o \in Ops(S), NEW v \in Ops(U), OfAKind(o, v)
  PROVE  DOMAIN S.ops[o].inputs = DOMAIN U.ops[v].inputs /\ DOMAIN S.ops[o].outputs = DOMAIN U.ops[v].outputs
<1>1. /\ S.ops[o].inputs \in Seq(Operands(S)) /\ U.ops[v].inputs \in Seq(Operands(U))
      /\ S.ops[o].outputs \in Seq(Operands(S)) /\ U.ops[v].outputs \in Seq(Operands(U))
  BY DEF Sound
<1> QED BY <1>1 DEF OfAKind

\* With all operations bound, an operand at a port is bound.
LEMMA OpenAreIsolated ==
  ASSUME Inv, WiredInv, pc = "rest"
  PROVE  /\ \A x \in OpenOperands : x \in Isolated(S)
         /\ \A y \in Operands(U) : supportedOperandOf[y] = Unmatched => y \in Isolated(U)
<1>1. /\ Sound(U) /\ Sound(S) /\ WellFormed(U) /\ WellFormed(S) /\ SameKey /\ MapsInv /\ OpenOps = {}
      /\ Converse(userOperandOf, supportedOperandOf) /\ Converse(userOpOf, supportedOpOf)
  <2>1. SameKey /\ outcome = "none" /\ WellFormed(U) /\ WellFormed(S) /\ Sound(U) /\ Sound(S)
    BY PatternsHere DEF Inv, ControlInv, Searching
  <2> QED BY <2>1 DEF Inv, TrailInv, WiredInv, PhaseInv, Searching
<1>2. \A o \in Ops(S), v \in Ops(U) : userOpOf[o] = v => OfAKind(o, v) /\ PortsBound(o, v)
  BY AllWired DEF Searching
<1>3. \A o \in Ops(S) : userOpOf[o] \in Ops(U) /\ supportedOpOf[userOpOf[o]] = o
  BY <1>1 DEF OpenOps, MapsInv, Converse
<1>4. \A v \in Ops(U) : \E o \in Ops(S) : userOpOf[o] = v
  <2>1. Ops(S) = Ops(U) /\ IsFiniteSet(Ops(U))
    BY <1>1, KeysOfOneSize, IntervalIsFinite DEF Sound
  <2>2. userOpOf \in [Ops(U) -> Ops(U)] /\ \A i, j \in Ops(U) : userOpOf[i] = userOpOf[j] => i = j
    <3>1. \A i, j \in Ops(U) : userOpOf[i] = userOpOf[j] => i = j
      BY <1>3, <2>1
    <3> QED BY <1>1, <1>3, <2>1, <3>1 DEF MapsInv
  <2> QED BY <2>1, <2>2, InjectionIsOnto
<1>5. ASSUME NEW o \in Ops(S), NEW v \in Ops(U), userOpOf[o] = v, NEW x, NEW y, PortPair(o, v, x, y)
      PROVE  userOperandOf[x] # Unmatched /\ supportedOperandOf[y] # Unmatched
  <2>1. x \in Operands(S) /\ y \in Operands(U)
    BY <1>1, <1>2, <1>5, PortPairType
  <2>2. userOperandOf[x] = y
    BY <1>2, <1>5, <2>1 DEF PortsBound
  <2>3. x # Unmatched /\ y # Unmatched
    BY <1>1, <2>1 DEF Sound, Unmatched
  <2> QED BY <1>1, <2>1, <2>2, <2>3 DEF Converse, MapsInv
<1>6. ASSUME NEW o \in Ops(S), NEW v \in Ops(U), userOpOf[o] = v
      PROVE  DOMAIN S.ops[o].inputs = DOMAIN U.ops[v].inputs /\ DOMAIN S.ops[o].outputs = DOMAIN U.ops[v].outputs
  <2>1. OfAKind(o, v)
    BY <1>2, <1>6
  <2> QED BY <1>1, <2>1, SamePorts
<1>7. ASSUME NEW b, NEW z, NEW q \in Consumers(b, z)
      PROVE  q.op \in Ops(b) /\ q.port \in DOMAIN b.ops[q.op].inputs /\ b.ops[q.op].inputs[q.port] = z
  BY DEF Consumers, InputPorts, InputAt
<1>8. ASSUME NEW b, NEW z, NEW q \in Producers(b, z)
      PROVE  q.op \in Ops(b) /\ q.port \in DOMAIN b.ops[q.op].outputs /\ b.ops[q.op].outputs[q.port] = z
  BY DEF Producers, OutputPorts, OutputAt
<1>9. ASSUME NEW x \in OpenOperands PROVE x \in Isolated(S)
  <2>1. x \in Operands(S) /\ userOperandOf[x] = Unmatched
    BY DEF OpenOperands
  <2>2. ASSUME NEW q \in Consumers(S, x) PROVE FALSE
    <3>1. PICK v \in Ops(U) : userOpOf[q.op] = v
      BY <1>3, <1>7
    <3>2. PortPair(q.op, v, x, U.ops[v].inputs[q.port])
      BY <1>7 DEF PortPair
    <3> QED BY <1>5, <1>7, <2>1, <3>1, <3>2
  <2>3. ASSUME NEW q \in Producers(S, x) PROVE FALSE
    <3>1. PICK v \in Ops(U) : userOpOf[q.op] = v
      BY <1>3, <1>8
    <3>2. PortPair(q.op, v, x, U.ops[v].outputs[q.port])
      BY <1>8 DEF PortPair
    <3> QED BY <1>5, <1>8, <2>1, <3>1, <3>2
  <2> QED BY <2>1, <2>2, <2>3 DEF Isolated
<1>10. ASSUME NEW y \in Operands(U), supportedOperandOf[y] = Unmatched PROVE y \in Isolated(U)
  <2>2. ASSUME NEW r \in Consumers(U, y) PROVE FALSE
    <3>1. PICK o \in Ops(S) : userOpOf[o] = r.op
      BY <1>4, <1>7
    <3>2. PortPair(o, r.op, S.ops[o].inputs[r.port], y)
      BY <1>6, <1>7, <3>1 DEF PortPair
    <3> QED BY <1>5, <1>7, <1>10, <3>1, <3>2
  <2>3. ASSUME NEW r \in Producers(U, y) PROVE FALSE
    <3>1. PICK o \in Ops(S) : userOpOf[o] = r.op
      BY <1>4, <1>8
    <3>2. PortPair(o, r.op, S.ops[o].outputs[r.port], y)
      BY <1>6, <1>8, <3>1 DEF PortPair
    <3> QED BY <1>5, <1>8, <1>10, <3>1, <3>2
  <2> QED BY <2>2, <2>3 DEF Isolated
<1> QED BY <1>9, <1>10

\* Isolated operands of a kind that are both open are compatible.
LEMMA IsolatedCompatible ==
  ASSUME NEW x \in Isolated(S), NEW y \in Isolated(U), userOperandOf[x] = Unmatched,
         supportedOperandOf[y] = Unmatched, S.kinds[x] = U.kinds[y]
  PROVE  OperandsCompatible(x, y)
<1>1. Consumers(S, x) = {} /\ Producers(S, x) = {} /\ Consumers(U, y) = {} /\ Producers(U, y) = {}
  BY DEF Isolated
<1>2. ProducerKinds(S, x) = ProducerKinds(U, y)
  BY <1>1 DEF ProducerKinds
<1>3. ConsumerKinds(S, x) = ConsumerKinds(U, y)
  BY <1>1 DEF ConsumerKinds, Bag
<1> QED BY <1>1, <1>2, <1>3 DEF OperandsCompatible

LEMMA RestWires ==
  ASSUME Inv, WiredInv, KindsAgree, Rest
  PROVE  WiredInv' /\ pc' # "undo"
<1>1. pc = "rest" /\ UNCHANGED <<given, frames, todo>>
  BY DEF Rest
<1>2. /\ U' = U /\ S' = S /\ Sound(U) /\ Sound(S) /\ SameKey /\ MapsInv /\ StackType /\ FramesInv
      /\ Converse(userOperandOf, supportedOperandOf)
      /\ WiredOperands /\ WiredOps /\ WiredFrames /\ PhaseInv
  BY <1>1, SearchFacts DEF Searching
<1>3. /\ \A a, b : OfAKind(a, b)' <=> OfAKind(a, b)
      /\ \A a, b, x, y : PortPair(a, b, x, y)' <=> PortPair(a, b, x, y)
  BY <1>2, PatternsStay
<1>4. \A o \in Ops(S), v \in Ops(U) : userOpOf[o] = v => OfAKind(o, v) /\ PortsBound(o, v)
  BY <1>1, AllWired DEF Searching
<1>5. OpenOps = {}
  BY <1>1, <1>2 DEF PhaseInv
<1>6. CASE OpenOperands = {}
  <2>1. pc' = "validate" /\ UNCHANGED maps
    BY <1>6 DEF Rest, Goto
  <2>2. /\ userOperandOf' = userOperandOf /\ userOpOf' = userOpOf
        /\ boundOperands' = boundOperands /\ boundOps' = boundOps
    BY <2>1 DEF maps
  <2>3. \A a, b : PortsBound(a, b) => PortsBound(a, b)'
    BY <1>2, <1>3, <2>2 DEF PortsBound
  <2>4. WiredOperands' /\ WiredFrames'
    BY <1>1, <1>2, <1>3, <2>2 DEF WiredOperands, WiredFrames
  <2>5. WiredOps'
    <3>1. \A o \in Ops(S), v \in Ops(U) : userOpOf[o] = v => OfAKind(o, v)' /\ PortsBound(o, v)'
      BY <1>3, <1>4, <2>3
    <3> QED BY <1>2, <2>2, <3>1 DEF WiredOps
  <2>6. OpenOps' = {} /\ OpenOperands' = {}
    BY <1>2, <1>5, <1>6, <2>2 DEF OpenOps, OpenOperands
  <2>7. PhaseInv'
    BY <2>1, <2>6 DEF PhaseInv
  <2> QED BY <2>1, <2>4, <2>5, <2>7 DEF WiredInv
<1>7. CASE OpenOperands # {}
  <2>1. PICK x \in OpenOperands :
          LET partners == {y \in Isolated(U) : OperandsCompatible(x, y)}
          IN  IF x \notin Isolated(S) \/ partners = {} THEN pc' = "undo" /\ UNCHANGED maps
              ELSE (\E y \in partners : BindOperand(x, y)) /\ pc' = "rest"
    BY <1>7 DEF Rest, Goto
  <2>2. x \in Operands(S) /\ userOperandOf[x] = Unmatched
    BY DEF OpenOperands
  <2>3. x \in Isolated(S)
    BY <1>1, OpenAreIsolated
  <2>4. PICK z \in Operands(U) : supportedOperandOf[z] = Unmatched /\ U.kinds[z] = S.kinds[x]
    BY <1>1, <1>2, OpenPartner DEF Searching
  <2>5. z \in Isolated(U)
    BY <1>1, <2>4, OpenAreIsolated
  <2>6. OperandsCompatible(x, z)
    BY <2>2, <2>3, <2>4, <2>5, IsolatedCompatible
  <2>7. PICK y \in Isolated(U) : OperandsCompatible(x, y) /\ BindOperand(x, y) /\ pc' = "rest"
    BY <2>1, <2>3, <2>5, <2>6
  <2>8. y \in Operands(U) /\ S.kinds[x] = U.kinds[y]
    BY <2>2, <2>7 DEF Isolated, OperandsCompatible
  <2>9. UNCHANGED <<userOpOf, boundOps>>
    BY <2>7 DEF BindOperand
  <2>10. (\A a, b : PortsBound(a, b) => PortsBound(a, b)') /\ WiredOperands' /\ WiredFrames'
    BY <1>1, <1>2, <2>2, <2>7, <2>8, BoundOperandKeeps
  <2>11. WiredOps'
    <3>1. \A o \in Ops(S), v \in Ops(U) : userOpOf[o] = v => OfAKind(o, v)' /\ PortsBound(o, v)'
      BY <1>3, <1>4, <2>10
    <3> QED BY <1>2, <2>9, <3>1 DEF WiredOps
  <2>12. OpenOps' = {}
    BY <1>2, <1>5, <2>9 DEF OpenOps
  <2>13. PhaseInv'
    BY <2>7, <2>12 DEF PhaseInv
  <2> QED BY <2>7, <2>10, <2>11, <2>13 DEF WiredInv
<1> QED BY <1>6, <1>7

-----------------------------------------------------------------------------
(* The invariant of the search. *)

\* The search starts with nothing bound.
NothingBound == pc \in {"color", "key", "pair"} => boundOperands = <<>> /\ boundOps = <<>>

SearchInv == Inv /\ KindsAgree /\ NothingBound /\ WiredInv

LEMMA InitSearch == Init => SearchInv
<1> SUFFICES ASSUME Init PROVE KindsAgree /\ NothingBound /\ WiredInv
  BY InitInv DEF SearchInv
<1> QED BY DEF Init, KindsAgree, NothingBound, WiredInv, Searching

LEMMA ColorBothAgrees ==
  ASSUME Inv, NothingBound, ColorBoth
  PROVE  KindsAgree' /\ NothingBound' /\ WiredInv'
<1>1. /\ pc = "color" /\ UNCHANGED <<user, supported, maps>> /\ colors' = Refine(Joined, colors)
      /\ pc' \in {"key", "color", "done"}
  BY DEF ColorBoth, Goto, End
<1>2. NothingBound' /\ WiredInv'
  BY <1>1 DEF NothingBound, WiredInv, Searching, maps
<1>3. U' = U /\ S' = S
  BY <1>1 DEF U, S
<1>4. /\ Sound(U) /\ Sound(S) /\ Recorded(U) /\ Recorded(S) /\ WellFormed(U) /\ WellFormed(S)
  BY PatternsHere DEF Inv
<1>5. \A y \in Operands(U), x \in Operands(S) :
        UserColors(Refine(Joined, colors)).operands[y] = SupportedColors(Refine(Joined, colors)).operands[x]
          => U.kinds[y] = S.kinds[x]
  BY <1>4, RoundFollows
<1>6. /\ UserColors(colors)' = UserColors(Refine(Joined, colors))
      /\ SupportedColors(colors)' = SupportedColors(Refine(Joined, colors))
  BY <1>1, <1>3 DEF UserColors, SupportedColors
<1>7. KindsAgree'
  BY <1>3, <1>5, <1>6 DEF KindsAgree
<1> QED BY <1>2, <1>7

\* The colors stay when they have been compared.
LEMMA KindsStillAgree ==
  ASSUME KindsAgree, UNCHANGED given, pc \in {"key", "pair"} \cup Searching
  PROVE  KindsAgree'
<1>1. U' = U /\ S' = S
  BY DEF given, U, S
<1>2. UserColors(colors)' = UserColors(colors) /\ SupportedColors(colors)' = SupportedColors(colors)
  BY <1>1 DEF given, UserColors, SupportedColors
<1> QED BY <1>1, <1>2 DEF KindsAgree

LEMMA PairWires ==
  ASSUME Inv, KindsAgree, NothingBound, Pair
  PROVE  KindsAgree' /\ NothingBound' /\ WiredInv'
<1>1. pc = "pair" /\ UNCHANGED <<given, userOperandOf, userOpOf, boundOperands, boundOps, frames>>
      /\ pc' \in {"done", "select"}
  BY DEF Pair, Goto, End
<1>2. KindsAgree' /\ NothingBound'
  BY <1>1, KindsStillAgree DEF NothingBound
<1>3. U' = U /\ S' = S
  BY <1>1 DEF given, U, S
<1>4. /\ Sound(U) /\ Sound(S) /\ MapsInv /\ frames = <<>> /\ boundOperands = <<>> /\ boundOps = <<>>
      /\ OnTrail(boundOperands, userOperandOf) /\ OnTrail(boundOps, userOpOf)
  BY <1>1, SoundHere DEF Inv, ControlInv, TrailInv, NothingBound
<1>5. /\ \A x \in Operands(S) : userOperandOf[x] = Unmatched
      /\ \A o \in Ops(S), v \in Ops(U) : userOpOf[o] # v
  BY <1>4 DEF OnTrail, MapsInv, Sound, Unmatched
<1>6. WiredOperands' /\ WiredOps' /\ WiredFrames'
  BY <1>1, <1>3, <1>4, <1>5 DEF WiredOperands, WiredOps, WiredFrames
<1>7. WiredInv'
  BY <1>1, <1>6 DEF WiredInv, PhaseInv, Searching
<1> QED BY <1>2, <1>7

\* A step of the search, and what makes it roll back.
LEMMA NextSearch ==
  ASSUME SearchInv, [Next]_vars
  PROVE  SearchInv' /\ (pc' = "undo" => pc \in {"try", "undo"})
<1> USE DEF SearchInv
<1>1. Inv'
  BY NextInv
<1>2. CASE UNCHANGED vars
  <2>1. U' = U /\ S' = S /\ UNCHANGED given /\ pc' = pc /\ UNCHANGED <<maps, frames, todo>>
    BY <1>2 DEF vars, given, U, S
  <2>2. KindsAgree'
    <3>1. UserColors(colors)' = UserColors(colors) /\ SupportedColors(colors)' = SupportedColors(colors)
      BY <2>1 DEF given, UserColors, SupportedColors
    <3> QED BY <2>1, <3>1 DEF KindsAgree
  <2>3. NothingBound'
    BY <2>1 DEF NothingBound, maps
  <2>4. WiredInv'
    <3>1. /\ \A a, b : OfAKind(a, b)' <=> OfAKind(a, b)
          /\ \A a, b, x, y : PortPair(a, b, x, y)' <=> PortPair(a, b, x, y)
      BY <2>1, PatternsStay
    <3>2. UNCHANGED <<userOperandOf, supportedOperandOf, userOpOf, supportedOpOf, boundOperands, boundOps>>
      BY <2>1 DEF maps
    <3>3. \A a, b : PortsBound(a, b)' <=> PortsBound(a, b)
      BY <2>1, <3>1, <3>2 DEF PortsBound
    <3>4. (WiredOperands' <=> WiredOperands) /\ (WiredFrames' <=> WiredFrames) /\ Top' = Top
      BY <2>1, <3>1, <3>2 DEF WiredOperands, WiredFrames, Top
    <3>5. WiredOps' <=> WiredOps
      BY <2>1, <3>1, <3>2, <3>3, <3>4 DEF WiredOps
    <3>6. \A x, y : (Pending(x, y)' <=> Pending(x, y)) /\ (OperandsCompatible(x, y)' <=> OperandsCompatible(x, y))
      <4> TAKE x, y
      <4>1. Pending(x, y)' <=> Pending(x, y)
        BY <2>1 DEF Pending
      <4>2. OperandsCompatible(x, y)' <=> OperandsCompatible(x, y)
        BY <2>1, <3>2 DEF OperandsCompatible
      <4> QED BY <4>1, <4>2
    <3>7. Apart(todo)' <=> Apart(todo)
      BY <2>1 DEF Apart
    <3>8. BindingInv => BindingInv'
      BY <2>1, <3>1, <3>2, <3>4, <3>6, <3>7 DEF BindingInv
    <3>9. OpenOps' = OpenOps /\ OpenOperands' = OpenOperands
      BY <2>1, <3>2 DEF OpenOps, OpenOperands
    <3>10. PhaseInv => PhaseInv'
      BY <2>1, <3>2, <3>4, <3>8, <3>9 DEF PhaseInv
    <3> QED BY <2>1, <3>4, <3>5, <3>10 DEF WiredInv
  <2>5. pc' = "undo" => pc \in {"undo"}
    BY <2>1
  <2> QED BY <1>1, <2>2, <2>3, <2>4, <2>5
<1>3. CASE ColorBoth
  <2>1. pc' # "undo"
    BY <1>3 DEF ColorBoth, Goto, End
  <2> QED BY <1>1, <1>3, <2>1, ColorBothAgrees
<1>4. CASE Compare
  <2>1. pc = "key" /\ UNCHANGED <<given, maps>> /\ pc' \in {"pair", "done"}
    BY <1>4 DEF Compare, Goto, End
  <2>2. KindsAgree'
    BY <2>1, KindsStillAgree
  <2> QED BY <1>1, <2>1, <2>2 DEF NothingBound, WiredInv, Searching, maps
<1>5. CASE Pair
  <2>1. pc' # "undo"
    BY <1>5 DEF Pair, Goto, End
  <2> QED BY <1>1, <1>5, <2>1, PairWires
<1>6. ASSUME Select \/ Try \/ Bind \/ Undo \/ Rest \/ Validate
      PROVE  KindsAgree' /\ NothingBound' /\ pc \in Searching
  <2>1. pc \in Searching /\ UNCHANGED given
    BY <1>6 DEF Select, Try, Bind, Undo, Rest, Validate, Searching
  <2>2. pc' \in Searching \cup {"done"}
    BY <1>6 DEF Select, Try, Bind, Undo, Rest, Validate, Fail, Goto, End, Searching
  <2>3. NothingBound'
    BY <2>2 DEF NothingBound, Searching
  <2> QED BY <2>1, <2>3, KindsStillAgree
<1>7. CASE Select
  <2>1. pc' # "undo"
    BY <1>7 DEF Select, Goto
  <2> QED BY <1>1, <1>6, <1>7, <2>1, SelectWires
<1>8. CASE Try
  <2>1. pc = "try"
    BY <1>8 DEF Try
  <2> QED BY <1>1, <1>6, <1>8, <2>1, TryWires
<1>9. CASE Bind
  BY <1>1, <1>6, <1>9, BindWires
<1>10. CASE Undo
  <2>1. pc = "undo"
    BY <1>10 DEF Undo
  <2> QED BY <1>1, <1>6, <1>10, <2>1, UndoWires
<1>11. CASE Rest
  BY <1>1, <1>6, <1>11, RestWires
<1>12. CASE Validate
  <2>1. pc' = "done"
    BY <1>12, ValidateWires
  <2>2. WiredInv'
    BY <2>1 DEF WiredInv, Searching
  <2> QED BY <1>1, <1>6, <1>12, <2>1, <2>2
<1> QED BY <1>2, <1>3, <1>4, <1>5, <1>7, <1>8, <1>9, <1>10, <1>11, <1>12 DEF Next

LEMMA SearchInvariant == Spec => []SearchInv
<1>1. SearchInv /\ [Next]_vars => SearchInv'
  BY NextSearch
<1> QED BY <1>1, InitSearch, PTL DEF Spec

\* Only running out of candidates makes a call of searchOps() fail.
THEOREM OnlyExhaustionMakesItFail == Spec => OnlyExhaustionFails
<1>1. SearchInv /\ [Next]_vars => [pc' = "undo" => pc \in {"try", "undo"}]_vars
  BY NextSearch
<1> QED BY <1>1, SearchInvariant, PTL DEF Spec, OnlyExhaustionFails

-----------------------------------------------------------------------------
(* A search that follows a correspondence f, g. *)

\* Everything bound is bound as f and g have it.
Follows(f, g) ==
  /\ \A o \in Ops(S), v \in Ops(U) : userOpOf[o] = v => f[v] = o
  /\ \A x \in Operands(S), y \in Operands(U) : userOperandOf[x] = y => g[y] = x

\* So is what the i-th call found bound, ...
FollowsBefore(f, g, i) ==
  /\ \A j \in 1 .. frames[i].ops : \A o \in Ops(S), v \in Ops(U) :
       boundOps[j] = o /\ userOpOf[o] = v => f[v] = o
  /\ \A j \in 1 .. frames[i].operands : \A x \in Operands(S), y \in Operands(U) :
       boundOperands[j] = x /\ userOperandOf[x] = y => g[y] = x

\* ... and it has yet to try what f has for its operation.
Ahead(f, g, i) ==
  /\ FollowsBefore(f, g, i)
  /\ \E v \in Ops(U) : f[v] = frames[i].op /\ v > frames[i].tried

\* The search cannot miss the correspondence any more, or is on its way to it.
OnTheWay(f, g) ==
  /\ outcome # "UNSUPPORTED"
  /\ pc \in {"color", "key"} => ColorsFollow(f, g, colors) /\ counts.user = counts.supported
  /\ pc \in Searching =>
       \/ pc \in {"rest", "validate"}
       \/ pc \in {"select", "bind"} /\ Follows(f, g)
       \/ \E i \in DOMAIN frames : Ahead(f, g, i)

WayInv == \A f, g : Corresponds(U, S, f, g) => OnTheWay(f, g)

\* What is seen at the ports, by kinds.
LEMMA KindsSeen ==
  ASSUME NEW b, NEW k, NEW x,
         \A q \in Consumers(b, x) \cup Producers(b, x) : k[q.op] = b.ops[q.op].kind
  PROVE  /\ ProducerKinds(b, x) = AllValues(Producers(b, x), Views(k, Producers(b, x)))
         /\ ConsumerKinds(b, x) = BagOf(Consumers(b, x), Views(k, Consumers(b, x)))
<1>1. ASSUME NEW Q, \A q \in Q : k[q.op] = b.ops[q.op].kind
      PROVE  /\ {<<q.port, b.ops[q.op].kind>> : q \in Q} = AllValues(Q, Views(k, Q))
             /\ [v \in {<<q.port, b.ops[q.op].kind>> : q \in Q} |->
                   Cardinality({q \in Q : <<q.port, b.ops[q.op].kind>> = v})] = BagOf(Q, Views(k, Q))
  <2>1. \A q \in Q : Views(k, Q)[q] = <<q.port, b.ops[q.op].kind>>
    BY <1>1 DEF Views
  <2>2. {<<q.port, b.ops[q.op].kind>> : q \in Q} = AllValues(Q, Views(k, Q))
    BY <2>1 DEF AllValues
  <2>3. \A v : {q \in Q : <<q.port, b.ops[q.op].kind>> = v} = {q \in Q : Views(k, Q)[q] = v}
    BY <2>1
  <2> QED BY <2>2, <2>3 DEF BagOf
<1> DEFINE P == Producers(b, x)
           C == Consumers(b, x)
<1>2. ProducerKinds(b, x) = {<<q.port, b.ops[q.op].kind>> : q \in P}
  BY DEF ProducerKinds
<1>3. ConsumerKinds(b, x) = [v \in {<<q.port, b.ops[q.op].kind>> : q \in C} |->
                               Cardinality({q \in C : <<q.port, b.ops[q.op].kind>> = v})]
  BY DEF ConsumerKinds, Bag
<1>4. (\A q \in P : k[q.op] = b.ops[q.op].kind) /\ \A q \in C : k[q.op] = b.ops[q.op].kind
  OBVIOUS
<1> HIDE DEF P, C
<1>5. ProducerKinds(b, x) = AllValues(P, Views(k, P)) /\ ConsumerKinds(b, x) = BagOf(C, Views(k, C))
  BY <1>1, <1>2, <1>3, <1>4
<1> QED BY <1>5 DEF P, C

\* What an operand sees of kinds, its partner sees.
LEMMA PartnersAlike ==
  ASSUME Sound(U), Sound(S), WellFormed(U), NEW f, NEW g, Corresponds(U, S, f, g), NEW y \in Operands(U)
  PROVE  /\ ProducerKinds(S, g[y]) = ProducerKinds(U, y)
         /\ ConsumerKinds(S, g[y]) = ConsumerKinds(U, y)
<1> DEFINE w == [v \in Ops(U) |-> U.ops[v].kind]
           z == [o \in Ops(S) |-> S.ops[o].kind]
<1>1. Embeds(U, S, f, g)
  BY CorrespondenceEmbeds
<1>2. \A v \in Ops(U) : z[f[v]] = w[v]
  BY DEF Corresponds
<1> HIDE DEF w, z
<1>3. /\ BagOf(Consumers(U, y), Views(w, Consumers(U, y)))
           = BagOf(Consumers(S, g[y]), Views(z, Consumers(S, g[y])))
      /\ AllValues(Producers(U, y), Views(w, Producers(U, y)))
           = AllValues(Producers(S, g[y]), Views(z, Producers(S, g[y])))
  BY <1>1, <1>2, EmbeddedViews
<1>5. /\ \A q \in Consumers(U, y) \cup Producers(U, y) : w[q.op] = U.ops[q.op].kind
      /\ \A q \in Consumers(S, g[y]) \cup Producers(S, g[y]) : z[q.op] = S.ops[q.op].kind
  BY DEF Consumers, Producers, InputPorts, OutputPorts, w, z
<1>6. ProducerKinds(S, g[y]) = ProducerKinds(U, y)
  <2>1. /\ ProducerKinds(U, y) = AllValues(Producers(U, y), Views(w, Producers(U, y)))
        /\ ProducerKinds(S, g[y]) = AllValues(Producers(S, g[y]), Views(z, Producers(S, g[y])))
    BY <1>5, KindsSeen
  <2> QED BY <1>3, <2>1
<1>7. ConsumerKinds(S, g[y]) = ConsumerKinds(U, y)
  <2>1. /\ ConsumerKinds(U, y) = BagOf(Consumers(U, y), Views(w, Consumers(U, y)))
        /\ ConsumerKinds(S, g[y]) = BagOf(Consumers(S, g[y]), Views(z, Consumers(S, g[y])))
    BY <1>5, KindsSeen
  <2> QED BY <1>3, <2>1
<1> QED BY <1>6, <1>7

\* Partners are compatible while all that is bound follows.
LEMMA PartnersCompatible ==
  ASSUME Sound(U), Sound(S), WellFormed(U), WellFormed(S), MapsInv,
         Converse(userOperandOf, supportedOperandOf), Converse(userOpOf, supportedOpOf),
         NEW f, NEW g, Corresponds(U, S, f, g), Follows(f, g), NEW y \in Operands(U), NEW x, x = g[y]
  PROVE  OperandsCompatible(x, y)
<1>1. x \in Operands(S) /\ S.kinds[x] = U.kinds[y] /\ \A z \in Operands(U) : g[z] = x => z = y
  BY DEF Corresponds
<1>2. \A v, w \in Ops(U) : f[v] = f[w] => v = w
  BY DEF Corresponds
<1>3. /\ \A o \in Ops(S) : userOpOf[o] # Unmatched => userOpOf[o] \in Ops(U) /\ f[userOpOf[o]] = o
      /\ \A v \in Ops(U) : supportedOpOf[v] # Unmatched => supportedOpOf[v] \in Ops(S) /\ f[v] = supportedOpOf[v]
  BY DEF MapsInv, Follows, Converse
<1>4. /\ userOperandOf[x] # Unmatched => userOperandOf[x] = y
      /\ userOperandOf[x] = Unmatched => supportedOperandOf[y] = Unmatched
  <2>1. ASSUME userOperandOf[x] # Unmatched PROVE userOperandOf[x] = y
    <3>1. userOperandOf[x] \in Operands(U)
      BY <1>1, <2>1 DEF MapsInv
    <3> QED BY <1>1, <3>1 DEF Follows
  <2>2. ASSUME supportedOperandOf[y] # Unmatched PROVE userOperandOf[x] # Unmatched
    <3>1. supportedOperandOf[y] \in Operands(S)
      BY <2>2 DEF MapsInv
    <3>2. userOperandOf[supportedOperandOf[y]] = y
      BY <3>1 DEF Converse, MapsInv
    <3>3. supportedOperandOf[y] = x /\ y # Unmatched
      BY <3>1, <3>2 DEF Follows, Sound, Unmatched
    <3> QED BY <3>2, <3>3
  <2> QED BY <2>1, <2>2
<1>5. CASE userOperandOf[x] # Unmatched
  BY <1>4, <1>5 DEF OperandsCompatible
<1>6. CASE userOperandOf[x] = Unmatched
  <2>1. ProducerKinds(S, x) = ProducerKinds(U, y) /\ ConsumerKinds(S, x) = ConsumerKinds(U, y)
    BY PartnersAlike
  <2>2. Embeds(U, S, f, g)
    BY CorrespondenceEmbeds
  <2>3. /\ TakenAll(f, Consumers(U, y)) \in Bijection(Consumers(U, y), Consumers(S, x))
        /\ TakenAll(f, Producers(U, y)) \in Bijection(Producers(U, y), Producers(S, x))
    BY <2>2, EmbeddedPorts
  <2>4. /\ \A q \in Consumers(S, x) : \E r \in Consumers(U, y) : TakenAll(f, Consumers(U, y))[r] = q
        /\ \A q \in Producers(S, x) : \E r \in Producers(U, y) : TakenAll(f, Producers(U, y))[r] = q
        /\ \A r \in Consumers(U, y) : TakenAll(f, Consumers(U, y))[r] \in Consumers(S, x)
    BY <2>3, Fun_BijectionProperties
  <2>5. /\ \A q \in Consumers(S, x) : \E r \in Consumers(U, y) : Taken(f, r) = q
        /\ \A q \in Producers(S, x) : \E r \in Producers(U, y) : Taken(f, r) = q
        /\ \A r \in Consumers(U, y) : Taken(f, r) \in Consumers(S, x)
    BY <2>4 DEF TakenAll
  <2>6. /\ \A q \in Consumers(S, x) : q.op \in Ops(S) /\ S.ops[q.op].inputs[q.port] = x
        /\ \A r \in Consumers(U, y) : r.op \in Ops(U) /\ U.ops[r.op].inputs[r.port] = y
        /\ \A q \in Producers(S, x) : q.op \in Ops(S)
        /\ \A r \in Producers(U, y) : r.op \in Ops(U)
    BY DEF Consumers, InputPorts, InputAt, Producers, OutputPorts
  <2>7. ASSUME NEW q \in Producers(S, x), NEW r \in Producers(U, y) PROVE q.op = f[r.op]
    <3>1. PICK t \in Producers(U, y) : Taken(f, t) = q
      BY <2>5
    <3>2. t = r
      BY DEF Producers, WellFormed
    <3> QED BY <3>1, <3>2 DEF Taken
  <2>8. \A q \in Producers(S, x), r \in Producers(U, y) :
          userOpOf[q.op] \in {Unmatched, r.op} /\ supportedOpOf[r.op] \in {Unmatched, q.op}
    BY <1>2, <1>3, <2>6, <2>7
  <2>9. ASSUME NEW q \in Consumers(S, x), userOpOf[q.op] # Unmatched
        PROVE  U.ops[userOpOf[q.op]].inputs[q.port] = y
    <3>1. PICK r \in Consumers(U, y) : Taken(f, r) = q
      BY <2>5
    <3>2. q.op = f[r.op] /\ q.port = r.port
      BY <3>1 DEF Taken
    <3>3. userOpOf[q.op] = r.op
      BY <1>2, <1>3, <2>6, <2>9, <3>2
    <3> QED BY <2>6, <3>2, <3>3
  <2>10. ASSUME NEW r \in Consumers(U, y), supportedOpOf[r.op] # Unmatched
         PROVE  S.ops[supportedOpOf[r.op]].inputs[r.port] = x
    <3>1. supportedOpOf[r.op] = f[r.op]
      BY <1>3, <2>6, <2>10
    <3>2. Taken(f, r) \in Consumers(S, x) /\ Taken(f, r).op = f[r.op] /\ Taken(f, r).port = r.port
      BY <2>5 DEF Taken
    <3> QED BY <2>6, <3>1, <3>2
  <2> QED BY <1>1, <1>4, <1>6, <2>1, <2>8, <2>9, <2>10 DEF OperandsCompatible
<1> QED BY <1>5, <1>6

\* So are the operations, unless they are bound.
LEMMA PartnerIsCandidate ==
  ASSUME Sound(U), Sound(S), WellFormed(U), WellFormed(S), MapsInv,
         Converse(userOperandOf, supportedOperandOf), Converse(userOpOf, supportedOpOf),
         NEW f, NEW g, Corresponds(U, S, f, g), Follows(f, g),
         NEW v \in Ops(U), NEW o \in Ops(S), f[v] = o, userOpOf[o] = Unmatched
  PROVE  v \in Candidates(o)
<1>1. OfAKind(o, v)
  BY DEF Corresponds, OfAKind
<1>2. supportedOpOf[v] = Unmatched
  <2>1. ASSUME supportedOpOf[v] # Unmatched PROVE FALSE
    <3>1. supportedOpOf[v] \in Ops(S)
      BY <2>1 DEF MapsInv
    <3>2. userOpOf[supportedOpOf[v]] = v
      BY <3>1 DEF Converse, MapsInv
    <3>3. supportedOpOf[v] = o
      BY <3>1, <3>2 DEF Follows
    <3> QED BY <3>2, <3>3 DEF Sound, Unmatched
  <2> QED BY <2>1
<1> DEFINE pairs == PairsAtPorts(o, v)
<1>3. \A i \in DOMAIN pairs : PortPair(o, v, pairs[i][1], pairs[i][2])
  BY <1>1, PairsAre
<1>4. ASSUME NEW x, NEW y, PortPair(o, v, x, y) PROVE y \in Operands(U) /\ x = g[y]
  <2>1. y \in Operands(U)
    BY <1>1, <1>4, PortPairType
  <2>2. DOMAIN S.ops[o].inputs = DOMAIN U.ops[v].inputs /\ DOMAIN S.ops[o].outputs = DOMAIN U.ops[v].outputs
    BY <1>1, SamePorts
  <2> QED BY <1>4, <2>1, <2>2 DEF PortPair, Corresponds
<1> HIDE DEF pairs
<1>5. \A i \in DOMAIN pairs : OperandsCompatible(pairs[i][1], pairs[i][2])
  BY <1>3, <1>4, PartnersCompatible
<1> QED BY <1>1, <1>2, <1>5 DEF Candidates, OpsCompatible, OfAKind, pairs

LEMMA CorrespondsStays ==
  ASSUME U' = U, S' = S
  PROVE  \A f, g : Corresponds(U, S, f, g)' <=> Corresponds(U, S, f, g)
BY DEF Corresponds

\* A call that is ahead stays so where its frame stays, and nothing else is bound
\* in front of its checkpoints.
LEMMA AheadStays ==
  ASSUME U' = U, S' = S, NEW f, NEW g, NEW i, Ahead(f, g, i), frames'[i] = frames[i],
         \A j \in 1 .. frames[i].ops :
           boundOps'[j] = boundOps[j] /\ \A o \in Ops(S), v \in Ops(U) :
             boundOps[j] = o /\ userOpOf'[o] = v => userOpOf[o] = v,
         \A j \in 1 .. frames[i].operands :
           boundOperands'[j] = boundOperands[j] /\ \A x \in Operands(S), y \in Operands(U) :
             boundOperands[j] = x /\ userOperandOf'[x] = y => userOperandOf[x] = y
  PROVE  Ahead(f, g, i)'
<1>1. ASSUME NEW j \in 1 .. frames[i].ops, NEW o \in Ops(S), NEW v \in Ops(U), boundOps'[j] = o, userOpOf'[o] = v
      PROVE  f[v] = o
  <2>1. boundOps[j] = o /\ userOpOf[o] = v
    BY <1>1
  <2> QED BY <2>1 DEF Ahead, FollowsBefore
<1>2. ASSUME NEW j \in 1 .. frames[i].operands, NEW x \in Operands(S), NEW y \in Operands(U),
             boundOperands'[j] = x, userOperandOf'[x] = y
      PROVE  g[y] = x
  <2>1. boundOperands[j] = x /\ userOperandOf[x] = y
    BY <1>2
  <2> QED BY <2>1 DEF Ahead, FollowsBefore
<1>3. FollowsBefore(f, g, i)'
  BY <1>1, <1>2 DEF FollowsBefore
<1> QED BY <1>3 DEF Ahead

\* What a search that follows has bound so far, it has bound at every checkpoint.
LEMMA FollowsStays ==
  ASSUME U' = U, S' = S, NEW f, NEW g, Follows(f, g),
         \A o \in Ops(S), v \in Ops(U) : userOpOf'[o] = v => f[v] = o,
         \A x \in Operands(S), y \in Operands(U) : userOperandOf'[x] = y => g[y] = x
  PROVE  Follows(f, g)'
BY DEF Follows

\* The calls' checkpoints are inside the trails.
LEMMA InsideTrails ==
  ASSUME StackType, FramesInv, NEW i \in DOMAIN frames
  PROVE  /\ \A j \in 1 .. frames[i].ops : j \in DOMAIN boundOps /\ boundOps[j] \in Ops(S)
         /\ \A j \in 1 .. frames[i].operands : j \in DOMAIN boundOperands /\ boundOperands[j] \in Operands(S)
<1>1. frames[i] \in FrameType
  BY DEF StackType
<1>2. frames[i].ops \in Nat /\ frames[i].operands \in Nat
  BY <1>1 DEF FrameType
<1>3. frames[i].operands <= Len(boundOperands) /\ frames[i].ops <= Len(boundOps)
  BY DEF FramesInv
<1>4. boundOperands \in Seq(Operands(S)) /\ boundOps \in Seq(Ops(S))
  BY DEF StackType
<1> QED BY <1>2, <1>3, <1>4

LEMMA InitWay == Init => WayInv
<1> SUFFICES ASSUME Init, NEW f, NEW g, Corresponds(U, S, f, g) PROVE OnTheWay(f, g)
  BY DEF WayInv
<1>1. Sound(U) /\ Sound(S) /\ Recorded(U) /\ Recorded(S)
  BY InitInv, PatternsHere DEF Inv
<1>2. (\A y \in Operands(U) : g[y] \in Operands(S)) /\ \A v \in Ops(U) : f[v] \in Ops(S)
  BY DEF Corresponds
<1>3. ColorsFollow(f, g, colors)
  <2>1. /\ \A x \in Operands(Joined) : colors.operands[x] = 0
        /\ \A o \in Ops(Joined) : colors.ops[o] = 0
    BY DEF Init, Uncolored
  <2>2. /\ \A y \in Operands(U) : UserColors(colors).operands[y] = 0
        /\ \A v \in Ops(U) : UserColors(colors).ops[v] = 0
        /\ \A x \in Operands(S) : SupportedColors(colors).operands[x] = 0
        /\ \A o \in Ops(S) : SupportedColors(colors).ops[o] = 0
    BY <1>1, <2>1, ColorsInUnion
  <2> QED BY <1>2, <2>2 DEF ColorsFollow
<1> QED BY <1>3 DEF Init, OnTheWay, Searching

LEMMA ColorBothOnTheWay ==
  ASSUME Inv, ColorBoth, NEW f, NEW g, Corresponds(U, S, f, g), OnTheWay(f, g)
  PROVE  OnTheWay(f, g)'
<1> DEFINE r == Refine(Joined, colors)
           inUser == CountColors(U, UserColors(r))
           inSupported == CountColors(S, SupportedColors(r))
           userEnds == Settled(U, counts.user, inUser)
           supportedEnds == Settled(S, counts.supported, inSupported)
<1>1. /\ pc = "color" /\ UNCHANGED <<user, supported>> /\ colors' = r
      /\ counts' = [user |-> inUser, supported |-> inSupported]
      /\ IF userEnds = supportedEnds THEN Goto(IF userEnds THEN "key" ELSE "color") ELSE End("UNSUPPORTED")
  BY DEF ColorBoth
<1>2. U' = U /\ S' = S
  BY <1>1 DEF U, S
<1>3. /\ Sound(U) /\ Sound(S) /\ Recorded(U) /\ Recorded(S) /\ WellFormed(U) /\ WellFormed(S)
  BY PatternsHere DEF Inv
<1>4. ColorsFollow(f, g, colors) /\ counts.user = counts.supported /\ outcome # "UNSUPPORTED"
  BY <1>1 DEF OnTheWay
<1>5. ColorsFollow(f, g, r)
  BY <1>3, <1>4, RoundFollows
<1> HIDE DEF r
<1>6. inUser = inSupported
  BY <1>3, <1>5, FollowedColors
<1>7. NumVertices(U) = NumVertices(S)
  BY DEF Corresponds, NumVertices
<1>8. userEnds = supportedEnds
  BY <1>4, <1>6, <1>7 DEF Settled
<1> HIDE DEF userEnds, supportedEnds, inUser, inSupported
<1>9. pc' \in {"key", "color"} /\ outcome' = outcome
  BY <1>1, <1>8 DEF Goto
<1>10. counts'.user = counts'.supported
  BY <1>1, <1>6
<1>11. ColorsFollow(f, g, colors)'
  <2>1. /\ UserColors(colors)' = UserColors(r) /\ SupportedColors(colors)' = SupportedColors(r)
    BY <1>1, <1>2 DEF UserColors, SupportedColors
  <2> QED BY <1>2, <1>5, <2>1 DEF ColorsFollow
<1> QED BY <1>4, <1>9, <1>10, <1>11 DEF OnTheWay, Searching

LEMMA CompareOnTheWay ==
  ASSUME Inv, Compare, NEW f, NEW g, Corresponds(U, S, f, g), OnTheWay(f, g)
  PROVE  OnTheWay(f, g)'
<1>1. pc = "key" /\ ColorsFollow(f, g, colors) /\ outcome # "UNSUPPORTED"
  BY DEF Compare, OnTheWay
<1>2. Sound(U) /\ Sound(S)
  BY PatternsHere DEF Inv
<1>3. SameKey
  BY <1>1, <1>2, FollowedColors DEF SameKey
<1>4. pc' = "pair" /\ outcome' = outcome
  BY <1>3 DEF Compare, Goto
<1> QED BY <1>1, <1>4 DEF OnTheWay, Searching

LEMMA PairOnTheWay ==
  ASSUME Inv, NothingBound, Pair, NEW f, NEW g, Corresponds(U, S, f, g), OnTheWay(f, g)
  PROVE  OnTheWay(f, g)'
<1>1. /\ pc = "pair" /\ UNCHANGED <<given, userOperandOf, userOpOf>>
      /\ \/ pc' = "done" /\ outcome' = "PAIRED"
         \/ pc' = "select" /\ outcome' = outcome
  BY DEF Pair, Goto, End
<1>2. outcome # "UNSUPPORTED"
  BY DEF OnTheWay
<1>3. U' = U /\ S' = S
  BY <1>1 DEF given, U, S
<1>4. Sound(U) /\ MapsInv /\ outcome = "none"
  BY <1>1, SoundHere DEF Inv, ControlInv
<1>5. /\ boundOperands = <<>> /\ boundOps = <<>>
      /\ OnTrail(boundOperands, userOperandOf) /\ OnTrail(boundOps, userOpOf)
  BY <1>1, <1>4 DEF NothingBound, Inv, TrailInv
<1>6. /\ \A x \in Operands(S), y \in Operands(U) : userOperandOf[x] # y
      /\ \A o \in Ops(S), v \in Ops(U) : userOpOf[o] # v
  BY <1>4, <1>5 DEF OnTrail, MapsInv, Sound, Unmatched
<1>7. Follows(f, g)'
  BY <1>1, <1>3, <1>6 DEF Follows
<1> QED BY <1>1, <1>2, <1>7 DEF OnTheWay, Searching

LEMMA SelectOnTheWay ==
  ASSUME Inv, WiredInv, Select, NEW f, NEW g, Corresponds(U, S, f, g), OnTheWay(f, g)
  PROVE  OnTheWay(f, g)'
<1> DEFINE n == Len(frames)
           nOperands == Len(boundOperands)
           nOps == Len(boundOps)
<1>1. pc = "select" /\ pc \in Searching /\ UNCHANGED <<given, maps, todo>>
  BY DEF Select, Searching
<1>2. /\ U' = U /\ S' = S /\ Sound(U) /\ Sound(S) /\ StackType /\ FramesInv /\ outcome = "none"
      /\ nOperands \in Nat /\ nOps \in Nat
  BY <1>1, SearchFacts
<1>3. outcome' = outcome
  BY DEF Select, Goto
<1>4. CASE OpenOps = {}
  <2>1. pc' = "rest"
    BY <1>4 DEF Select, Goto
  <2> QED BY <1>2, <1>3, <2>1 DEF OnTheWay
<1>5. CASE OpenOps # {}
  <2>1. PICK o \in OpenOps : frames' = Append(frames, Frame(o, 0)) /\ pc' = "try"
    BY <1>5 DEF Select, Goto
  <2> DEFINE new == [op |-> o, tried |-> 0, operands |-> nOperands, ops |-> nOps]
  <2>2. o \in Ops(S)
    BY DEF OpenOps
  <2>3. /\ n \in Nat /\ frames'[n + 1] = new /\ DOMAIN frames' = 1 .. n + 1 /\ DOMAIN frames = 1 .. n
        /\ \A i \in 1 .. n : frames'[i] = frames[i]
    <3>1. new \in FrameType /\ frames' = Append(frames, new)
      BY <1>2, <2>1, <2>2 DEF FrameType, Frame
    <3> HIDE DEF new
    <3> QED BY <1>2, <3>1 DEF StackType
  <2>4. /\ userOperandOf' = userOperandOf /\ userOpOf' = userOpOf
        /\ boundOperands' = boundOperands /\ boundOps' = boundOps
    BY <1>1 DEF maps
  <2>5. CASE Follows(f, g)
    <3> PICK k : k = n + 1
      OBVIOUS
    <3>1. FollowsBefore(f, g, k)'
      BY <1>2, <2>4, <2>5 DEF Follows, FollowsBefore
    <3>2. PICK v \in Ops(U) : f[v] = o
      BY <1>2, <2>2, CorrespondenceEmbeds
    <3>3. v > 0
      BY <1>2 DEF Sound
    <3>4. frames'[k].op = o /\ frames'[k].tried = 0
      BY <2>3
    <3>5. \E w \in Ops(U) : f[w] = frames'[k].op /\ w > frames'[k].tried
      BY <3>2, <3>3, <3>4
    <3>6. Ahead(f, g, k)'
      BY <1>2, <3>1, <3>5 DEF Ahead
    <3>7. k \in DOMAIN frames'
      BY <2>3
    <3> QED BY <1>2, <1>3, <2>1, <3>6, <3>7 DEF OnTheWay, Searching
  <2>6. CASE \E i \in DOMAIN frames : Ahead(f, g, i)
    <3>1. PICK i \in DOMAIN frames : Ahead(f, g, i)
      BY <2>6
    <3>2. Ahead(f, g, i)'
      BY <1>2, <2>3, <2>4, <3>1, AheadStays
    <3>3. i \in DOMAIN frames'
      BY <2>3
    <3> QED BY <1>2, <1>3, <2>1, <3>2, <3>3 DEF OnTheWay, Searching
  <2> QED BY <1>1, <2>5, <2>6 DEF OnTheWay
<1> QED BY <1>4, <1>5

\* Of the user's operations, the loop takes the one that f has, or one in front
\* of it.
LEMMA TryOnTheWay ==
  ASSUME Inv, WiredInv, Try, NEW f, NEW g, Corresponds(U, S, f, g), OnTheWay(f, g)
  PROVE  OnTheWay(f, g)'
<1> DEFINE n == Len(frames)
<1>1. pc = "try" /\ pc \in Searching /\ UNCHANGED given
  BY DEF Try, Searching
<1>2. /\ U' = U /\ S' = S /\ Sound(U) /\ Sound(S) /\ WellFormed(U) /\ WellFormed(S)
      /\ MapsInv /\ StackType /\ FramesInv /\ TopInv /\ PhaseInv /\ outcome = "none"
      /\ Converse(userOperandOf, supportedOperandOf) /\ Converse(userOpOf, supportedOpOf)
      /\ OnTrail(boundOperands, userOperandOf) /\ OnTrail(boundOps, userOpOf)
      /\ Len(boundOperands) \in Nat /\ Len(boundOps) \in Nat
      /\ DOMAIN boundOperands = 1 .. Len(boundOperands) /\ DOMAIN boundOps = 1 .. Len(boundOps)
  BY <1>1, SearchFacts
<1>3. frames # <<>>
  BY <1>1 DEF Inv, ControlInv, Searching
<1>4. /\ n \in Nat /\ n >= 1 /\ DOMAIN frames = 1 .. n /\ n \in DOMAIN frames
      /\ Top = frames[n] /\ Top \in FrameType /\ \A i \in DOMAIN frames : frames[i] \in FrameType
  BY <1>2, <1>3, TopOf
<1>5. PICK o \in Ops(S) : o = Top.op /\ userOpOf[o] = Unmatched
  BY <1>1, <1>2, <1>3, <1>4 DEF TopInv, FrameType
<1>6. Len(boundOps) = Top.ops /\ Len(boundOperands) = Top.operands
  BY <1>1, <1>2 DEF PhaseInv
<1>7. PICK i \in DOMAIN frames : Ahead(f, g, i)
  BY <1>1 DEF OnTheWay
\* Where it is the innermost call that is ahead, everything follows.
<1>8. ASSUME i = n
      PROVE  Follows(f, g) /\ \E v \in Untried : f[v] = o
  <2>1. frames[i] = Top
    BY <1>4, <1>8
  <2>2. Follows(f, g)
    <3>1. ASSUME NEW p \in Ops(S), NEW v \in Ops(U), userOpOf[p] = v PROVE f[v] = p
      <4>1. v # Unmatched
        BY <1>2 DEF Sound, Unmatched
      <4>2. PICK j \in 1 .. Len(boundOps) : boundOps[j] = p
        BY <1>2, <3>1, <4>1 DEF OnTrail, MapsInv
      <4>3. j \in 1 .. frames[i].ops
        BY <1>6, <2>1
      <4> QED BY <1>7, <3>1, <4>2, <4>3 DEF Ahead, FollowsBefore
    <3>2. ASSUME NEW x \in Operands(S), NEW y \in Operands(U), userOperandOf[x] = y PROVE g[y] = x
      <4>1. y # Unmatched
        BY <1>2 DEF Sound, Unmatched
      <4>2. PICK j \in 1 .. Len(boundOperands) : boundOperands[j] = x
        BY <1>2, <3>2, <4>1 DEF OnTrail, MapsInv
      <4>3. j \in 1 .. frames[i].operands
        BY <1>6, <2>1
      <4> QED BY <1>7, <3>2, <4>2, <4>3 DEF Ahead, FollowsBefore
    <3> QED BY <3>1, <3>2 DEF Follows
  <2>3. PICK v \in Ops(U) : f[v] = o /\ v > Top.tried
    BY <1>5, <1>7, <2>1 DEF Ahead
  <2>4. v \in Candidates(o)
    BY <1>2, <1>5, <2>2, <2>3, PartnerIsCandidate
  <2>5. v \in Untried
    BY <1>5, <2>3, <2>4 DEF Untried
  <2> QED BY <2>2, <2>3, <2>5
<1>9. CASE Untried = {}
  <2>1. Fail /\ UNCHANGED <<maps, todo>>
    BY <1>9 DEF Try
  <2>2. /\ DOMAIN frames' = 1 .. n - 1
        /\ \A k \in 1 .. n - 1 : frames'[k] = frames[k]
    BY <1>2, <1>3, <2>1, FailKeeps
  <2>3. /\ userOperandOf' = userOperandOf /\ userOpOf' = userOpOf
        /\ boundOperands' = boundOperands /\ boundOps' = boundOps
    BY <2>1 DEF maps
  <2>4. i \in 1 .. n - 1 /\ n # 1
    BY <1>4, <1>8, <1>9
  <2>5. pc' = "undo" /\ outcome' = outcome
    BY <2>1, <2>4 DEF Fail, Goto
  <2>6. Ahead(f, g, i)'
    BY <1>2, <1>7, <2>2, <2>3, <2>4, AheadStays
  <2>7. i \in DOMAIN frames'
    BY <2>2, <2>4
  <2> QED BY <1>2, <2>5, <2>6, <2>7 DEF OnTheWay, Searching
<1>10. CASE Untried # {}
  <2>1. PICK v \in Untried :
          /\ \A w \in Untried : v <= w
          /\ frames' = [frames EXCEPT ![n] = Frame(o, v)]
          /\ userOpOf' = [userOpOf EXCEPT ![o] = v]
          /\ boundOps' = Append(boundOps, o)
          /\ pc' = "bind" /\ outcome' = outcome
          /\ UNCHANGED <<userOperandOf, boundOperands>>
    BY <1>5, <1>10 DEF Try, Goto
  <2>2. v \in Ops(U) /\ v \in Nat
    BY <1>2 DEF Untried, Candidates, Sound
  <2> DEFINE new == [op |-> o, tried |-> v, operands |-> Len(boundOperands), ops |-> Len(boundOps)]
  <2>3. /\ DOMAIN frames' = 1 .. n /\ frames'[n] = new
        /\ \A k \in 1 .. n : k # n => frames'[k] = frames[k]
    <3>1. new \in FrameType
      BY <1>2, <2>2 DEF FrameType
    <3>2. frames' = [frames EXCEPT ![n] = new] /\ frames \in Seq(FrameType)
      BY <1>2, <2>1 DEF StackType, Frame
    <3> HIDE DEF new
    <3> QED BY <1>4, <3>1, <3>2
  <2>4. \A j \in 1 .. Len(boundOps) : boundOps'[j] = boundOps[j] /\ boundOps[j] # o
    <3>1. boundOps \in Seq(Ops(S))
      BY <1>2 DEF StackType
    <3>2. \A j \in 1 .. Len(boundOps) : boundOps[j] # o
      BY <1>2, <1>5, TrailBound
    <3> QED BY <2>1, <3>1, <3>2
  <2>5. userOpOf'[o] = v /\ \A p \in Ops(S) : p # o => userOpOf'[p] = userOpOf[p]
    BY <1>2, <2>1 DEF MapsInv
  <2>6. CASE i # n
    <3>1. /\ \A j \in 1 .. frames[i].ops : j \in 1 .. Len(boundOps)
      BY <1>2, InsideTrails
    <3>2. Ahead(f, g, i)'
      <4>1. frames'[i] = frames[i]
        BY <1>4, <2>3, <2>6
      <4>2. \A j \in 1 .. frames[i].ops :
              boundOps'[j] = boundOps[j] /\ \A p \in Ops(S), w \in Ops(U) :
                boundOps[j] = p /\ userOpOf'[p] = w => userOpOf[p] = w
        BY <2>4, <2>5, <3>1
      <4>3. userOperandOf' = userOperandOf /\ boundOperands' = boundOperands
        BY <2>1
      <4> QED BY <1>2, <1>7, <4>1, <4>2, <4>3, AheadStays
    <3>3. i \in DOMAIN frames'
      BY <1>4, <2>3
    <3> QED BY <1>2, <2>1, <3>2, <3>3 DEF OnTheWay, Searching
  <2>7. CASE i = n /\ f[v] = o
    <3>1. ASSUME NEW p \in Ops(S), NEW w \in Ops(U), userOpOf'[p] = w PROVE f[w] = p
      BY <1>8, <2>5, <2>7, <3>1 DEF Follows
    <3>2. ASSUME NEW x \in Operands(S), NEW y \in Operands(U), userOperandOf'[x] = y PROVE g[y] = x
      BY <1>8, <2>1, <2>7, <3>2 DEF Follows
    <3>3. Follows(f, g)'
      BY <1>2, <1>8, <2>7, <3>1, <3>2, FollowsStays
    <3> QED BY <1>2, <2>1, <3>3 DEF OnTheWay, Searching
  <2>8. CASE i = n /\ f[v] # o
    <3>1. PICK w \in Untried : f[w] = o
      BY <1>8, <2>8
    <3>2. w \in Ops(U) /\ w > v
      <4>1. w \in Ops(U) /\ v <= w /\ v # w
        BY <2>1, <2>8, <3>1 DEF Untried, Candidates
      <4>2. w \in Nat
        BY <1>2, <4>1 DEF Sound
      <4> QED BY <2>2, <4>1, <4>2
    <3>3. frames'[i] = new /\ new.op = o /\ new.tried = v /\ new.ops = Len(boundOps)
          /\ new.operands = Len(boundOperands)
      BY <2>3, <2>8
    <3>4. frames'[i].op = o /\ frames'[i].tried = v /\ frames'[i].ops = Len(boundOps)
          /\ frames'[i].operands = Len(boundOperands)
      BY <3>3
    <3>5. \E z \in Ops(U) : f[z] = frames'[i].op /\ z > frames'[i].tried
      BY <3>1, <3>2, <3>4
    <3>6. ASSUME NEW j \in 1 .. frames'[i].ops, NEW p \in Ops(S), NEW z \in Ops(U), boundOps'[j] = p, userOpOf'[p] = z
          PROVE  f[z] = p
      <4>1. p # o
        BY <2>4, <3>4, <3>6
      <4> QED BY <1>8, <2>5, <2>8, <3>6, <4>1 DEF Follows
    <3>7. ASSUME NEW j \in 1 .. frames'[i].operands, NEW x \in Operands(S), NEW y \in Operands(U),
                 boundOperands'[j] = x, userOperandOf'[x] = y
          PROVE  g[y] = x
      BY <1>8, <2>1, <2>8, <3>7 DEF Follows
    <3>8. FollowsBefore(f, g, i)'
      BY <1>2, <3>6, <3>7 DEF FollowsBefore
    <3>9. Ahead(f, g, i)'
      BY <1>2, <3>5, <3>8 DEF Ahead
    <3>10. i \in DOMAIN frames'
      BY <1>4, <2>3
    <3> QED BY <1>2, <2>1, <3>9, <3>10 DEF OnTheWay, Searching
  <2> QED BY <2>6, <2>7, <2>8
<1> QED BY <1>9, <1>10

LEMMA BindOnTheWay ==
  ASSUME Inv, WiredInv, Bind, NEW f, NEW g, Corresponds(U, S, f, g), OnTheWay(f, g)
  PROVE  OnTheWay(f, g)'
<1>1. pc = "bind" /\ pc \in Searching /\ UNCHANGED <<given, frames>>
  BY DEF Bind, Searching
<1>2. /\ U' = U /\ S' = S /\ Sound(U) /\ Sound(S) /\ MapsInv /\ StackType /\ FramesInv /\ TopInv
      /\ OnTrail(boundOperands, userOperandOf) /\ PhaseInv /\ outcome = "none" /\ WiredOps
  BY <1>1, SearchFacts
<1>3. frames # <<>> /\ BindingInv
  BY <1>1, <1>2 DEF Inv, ControlInv, Searching, PhaseInv
<1>4. pc' # "undo"
  BY BindWires
<1>5. \/ pc' = "select" /\ outcome' = outcome /\ UNCHANGED maps
      \/ /\ todo # <<>> /\ pc' = "bind" /\ outcome' = outcome
         /\ IF userOperandOf[Head(todo)[1]] = Head(todo)[2] THEN UNCHANGED maps
            ELSE BindOperand(Head(todo)[1], Head(todo)[2]) /\ OperandsCompatible(Head(todo)[1], Head(todo)[2])
  BY <1>4 DEF Bind, Goto
<1>6. pc' \in {"select", "bind"} /\ outcome' = outcome
  BY <1>5
<1>7. Follows(f, g) \/ \E i \in DOMAIN frames : Ahead(f, g, i)
  BY <1>1 DEF OnTheWay
<1>8. CASE UNCHANGED maps
  <2>1. /\ userOperandOf' = userOperandOf /\ userOpOf' = userOpOf
        /\ boundOperands' = boundOperands /\ boundOps' = boundOps
    BY <1>8 DEF maps
  <2>2. CASE Follows(f, g)
    <3>1. Follows(f, g)'
      BY <1>2, <2>1, <2>2 DEF Follows
    <3> QED BY <1>2, <1>6, <3>1 DEF OnTheWay, Searching
  <2>3. CASE \E i \in DOMAIN frames : Ahead(f, g, i)
    <3>1. PICK i \in DOMAIN frames : Ahead(f, g, i)
      BY <2>3
    <3>2. Ahead(f, g, i)' /\ i \in DOMAIN frames'
      BY <1>1, <1>2, <2>1, <3>1, AheadStays
    <3> QED BY <1>2, <1>6, <3>2 DEF OnTheWay, Searching
  <2> QED BY <1>7, <2>2, <2>3
<1>9. CASE ~UNCHANGED maps
  <2>1. todo # <<>> /\ todo \in Seq(Operands(S) \X Operands(U)) /\ Apart(todo)
    BY <1>2, <1>3, <1>5, <1>9 DEF StackType, BindingInv
  <2>2. Head(todo) \in Operands(S) \X Operands(U) /\ Leaves(todo, Head(todo), Tail(todo))
    BY <2>1, BehindHead
  <2>3. PICK x \in Operands(S), y \in Operands(U) : Head(todo) = <<x, y>>
    BY <2>2
  <2>4. Head(todo)[1] = x /\ Head(todo)[2] = y
    BY <2>3
  <2>5. userOperandOf[x] = Unmatched /\ BindOperand(x, y)
    BY <1>5, <1>9, <2>4 DEF OperandsCompatible
  <2>6. Pending(x, y)
    BY <2>2, <2>3 DEF Leaves, Pending
  <2>7. PICK o \in Ops(S) : o = Top.op
    <3>1. Top \in FrameType /\ Top.op # None
      BY <1>1, <1>2, <1>3, TopOf DEF TopInv
    <3> QED BY <3>1 DEF FrameType
  <2>8. PICK v \in Ops(U) : userOpOf[o] = v
    BY <1>3, <2>7 DEF BindingInv
  <2>9. PortPair(o, v, x, y) /\ OfAKind(o, v)
    BY <1>2, <1>3, <2>6, <2>7, <2>8 DEF BindingInv, WiredOps
  <2>10. /\ userOperandOf'[x] = y /\ \A z \in Operands(S) : z # x => userOperandOf'[z] = userOperandOf[z]
         /\ boundOperands' = Append(boundOperands, x) /\ userOpOf' = userOpOf /\ boundOps' = boundOps
    BY <1>2, <2>5 DEF BindOperand, MapsInv
  <2>11. CASE Follows(f, g)
    <3>1. f[v] = o
      BY <2>8, <2>11 DEF Follows
    <3>2. DOMAIN S.ops[o].inputs = DOMAIN U.ops[v].inputs /\ DOMAIN S.ops[o].outputs = DOMAIN U.ops[v].outputs
      BY <1>2, <2>9, SamePorts
    <3>3. g[y] = x
      BY <2>9, <3>1, <3>2 DEF PortPair, Corresponds
    <3>4. \A a \in Operands(S), b \in Operands(U) : userOperandOf'[a] = b => g[b] = a
      BY <2>10, <2>11, <3>3 DEF Follows
    <3>5. \A p \in Ops(S), w \in Ops(U) : userOpOf'[p] = w => f[w] = p
      BY <2>10, <2>11 DEF Follows
    <3>6. Follows(f, g)'
      BY <1>2, <2>11, <3>4, <3>5, FollowsStays
    <3> QED BY <1>2, <1>6, <3>6 DEF OnTheWay, Searching
  <2>12. CASE \E i \in DOMAIN frames : Ahead(f, g, i)
    <3>1. PICK i \in DOMAIN frames : Ahead(f, g, i)
      BY <2>12
    <3>2. \A j \in 1 .. frames[i].operands : j \in DOMAIN boundOperands /\ boundOperands[j] \in Operands(S)
      BY <1>2, InsideTrails
    <3>3. \A j \in DOMAIN boundOperands : boundOperands[j] # x
      BY <1>2, <2>5 DEF OnTrail, MapsInv
    <3>4. \A j \in DOMAIN boundOperands : boundOperands'[j] = boundOperands[j]
      <4>1. boundOperands \in Seq(Operands(S))
        BY <1>2 DEF StackType
      <4> QED BY <2>10, <4>1
    <3>5. \A j \in 1 .. frames[i].operands :
            boundOperands'[j] = boundOperands[j] /\ \A a \in Operands(S), b \in Operands(U) :
              boundOperands[j] = a /\ userOperandOf'[a] = b => userOperandOf[a] = b
      BY <2>10, <3>2, <3>3, <3>4
    <3>6. Ahead(f, g, i)'
      BY <1>1, <1>2, <2>10, <3>1, <3>5, AheadStays
    <3> QED BY <1>1, <1>2, <1>6, <3>6 DEF OnTheWay, Searching
  <2> QED BY <1>7, <2>11, <2>12
<1> QED BY <1>8, <1>9

LEMMA UndoOnTheWay ==
  ASSUME Inv, WiredInv, Undo, NEW f, NEW g, Corresponds(U, S, f, g), OnTheWay(f, g)
  PROVE  OnTheWay(f, g)'
<1> DEFINE n == Len(frames)
           p == Top.operands
           q == Top.ops
<1>1. pc = "undo" /\ pc \in Searching /\ UNCHANGED <<given, todo>> /\ Rollback(p, q)
  BY DEF Undo, Searching
<1>2. /\ U' = U /\ S' = S /\ Sound(U) /\ Sound(S) /\ MapsInv /\ StackType /\ FramesInv /\ outcome = "none"
      /\ Len(boundOperands) \in Nat /\ Len(boundOps) \in Nat
  BY <1>1, SearchFacts
<1>3. frames # <<>>
  BY <1>1 DEF Inv, ControlInv, Searching
<1>4. /\ n \in Nat /\ n >= 1 /\ DOMAIN frames = 1 .. n /\ n \in DOMAIN frames
      /\ Top = frames[n] /\ \A i \in DOMAIN frames : frames[i] \in FrameType
  BY <1>2, <1>3, TopOf
<1>5. Top.op # None
  BY UndoWires
<1>6. frames' = frames /\ pc' = "try" /\ outcome' = outcome
  BY <1>5 DEF Undo, Goto
<1>7. PICK i \in DOMAIN frames : Ahead(f, g, i)
  BY <1>1 DEF OnTheWay
<1>8. \A k \in 1 .. n : /\ frames[k].operands \in Nat /\ frames[k].operands <= Len(boundOperands)
                        /\ frames[k].ops \in Nat /\ frames[k].ops <= Len(boundOps)
  BY <1>2, <1>4 DEF FrameType, FramesInv
<1>9. frames[i].operands <= p /\ frames[i].ops <= q
  <2>1. CASE i = n
    BY <1>4, <1>8, <2>1
  <2>2. CASE i # n
    <3>1. i < n
      <4> HIDE DEF n
      <4> QED BY <1>4, <2>2
    <3>2. frames[i].operands <= frames[n].operands /\ frames[i].ops < frames[n].ops
      BY <1>2, <1>4, <3>1 DEF FramesInv
    <3> QED BY <1>4, <1>8, <3>2
  <2> QED BY <2>1, <2>2
<1>10. p \in 0 .. Len(boundOperands) /\ q \in 0 .. Len(boundOps)
  BY <1>2, <1>4, <1>8
<1>11. /\ \A k \in 1 .. frames[i].operands : k \in 1 .. p
       /\ \A k \in 1 .. frames[i].ops : k \in 1 .. q
  <2>1. frames[i].operands \in Nat /\ frames[i].ops \in Nat
    BY <1>4, <1>8
  <2>2. p \in Nat /\ q \in Nat
    BY <1>4, <1>8
  <2>3. \A a, b \in Nat : a <= b => \A k \in 1 .. a : k \in 1 .. b
    OBVIOUS
  <2> QED BY <1>9, <2>1, <2>2, <2>3, Zenon
<1> HIDE DEF p, q
<1>12. /\ \A x \in Operands(S), y \in Operands(U) : userOperandOf'[x] = y => userOperandOf[x] = y
       /\ \A o \in Ops(S), v \in Ops(U) : userOpOf'[o] = v => userOpOf[o] = v
  <2>1. (\A y \in Operands(U) : y # Unmatched) /\ \A v \in Ops(U) : v # Unmatched
    BY <1>2 DEF Sound, Unmatched
  <2> QED BY <1>1, <1>2, <2>1 DEF Rollback, Cleared, MapsInv
<1>13. /\ \A k \in 1 .. p : boundOperands'[k] = boundOperands[k]
       /\ \A k \in 1 .. q : boundOps'[k] = boundOps[k]
  <2>1. boundOperands \in Seq(Operands(S)) /\ boundOps \in Seq(Ops(S))
    BY <1>2 DEF StackType
  <2>2. boundOperands' = SubSeq(boundOperands, 1, p) /\ boundOps' = SubSeq(boundOps, 1, q)
    BY <1>1 DEF Rollback
  <2> QED BY <1>10, <2>1, <2>2, PrefixOf
<1>14. Ahead(f, g, i)'
  BY <1>2, <1>6, <1>7, <1>11, <1>12, <1>13, AheadStays
<1> QED BY <1>2, <1>6, <1>7, <1>14 DEF OnTheWay, Searching

LEMMA RestOnTheWay ==
  ASSUME Inv, WiredInv, KindsAgree, Rest, NEW f, NEW g, OnTheWay(f, g)
  PROVE  OnTheWay(f, g)'
<1>1. pc' # "undo"
  BY RestWires
<1>2. pc' \in {"rest", "validate"} /\ outcome' = outcome
  BY <1>1 DEF Rest, Goto
<1> QED BY <1>2 DEF OnTheWay, Searching

LEMMA ValidateOnTheWay ==
  ASSUME Inv, WiredInv, Validate, NEW f, NEW g
  PROVE  OnTheWay(f, g)'
<1>1. pc' = "done"
  BY ValidateWires
<1>2. outcome' = "SEARCHED"
  BY <1>1 DEF Validate, Goto, End
<1> QED BY <1>1, <1>2 DEF OnTheWay, Searching

\* The search keeps to its way, whatever the correspondence.
LEMMA NextWay == SearchInv /\ WayInv /\ [Next]_vars => WayInv'
<1> SUFFICES ASSUME SearchInv, WayInv, [Next]_vars PROVE WayInv'
  OBVIOUS
<1> USE DEF SearchInv
<1>1. U' = U /\ S' = S
  <2>1. UNCHANGED <<user, supported>>
    BY DEF Next, vars, given, ColorBoth, Compare, Pair, Select, Try, Bind, Undo, Rest, Validate
  <2> QED BY <2>1 DEF U, S
<1>2. ASSUME NEW f, NEW g, Corresponds(U, S, f, g) PROVE OnTheWay(f, g)'
  <2>1. OnTheWay(f, g)
    BY <1>2 DEF WayInv
  <2>2. CASE UNCHANGED vars
    <3>1. pc' = pc /\ outcome' = outcome /\ counts' = counts /\ frames' = frames
      BY <2>2 DEF vars, given
    <3>2. /\ userOperandOf' = userOperandOf /\ userOpOf' = userOpOf
          /\ boundOperands' = boundOperands /\ boundOps' = boundOps
      BY <2>2 DEF vars, maps
    <3>3. ColorsFollow(f, g, colors) => ColorsFollow(f, g, colors)'
      <4>1. UserColors(colors)' = UserColors(colors) /\ SupportedColors(colors)' = SupportedColors(colors)
        BY <1>1, <2>2 DEF vars, given, UserColors, SupportedColors
      <4> QED BY <1>1, <4>1 DEF ColorsFollow
    <3>4. Follows(f, g) => Follows(f, g)'
      BY <1>1, <3>2 DEF Follows
    <3>5. \A i : Ahead(f, g, i) => Ahead(f, g, i)'
      BY <1>1, <3>1, <3>2, AheadStays
    <3> QED BY <2>1, <3>1, <3>3, <3>4, <3>5 DEF OnTheWay
  <2>3. CASE ColorBoth
    BY <1>2, <2>1, <2>3, ColorBothOnTheWay
  <2>4. CASE Compare
    BY <1>2, <2>1, <2>4, CompareOnTheWay
  <2>5. CASE Pair
    BY <1>2, <2>1, <2>5, PairOnTheWay
  <2>6. CASE Select
    BY <1>2, <2>1, <2>6, SelectOnTheWay
  <2>7. CASE Try
    BY <1>2, <2>1, <2>7, TryOnTheWay
  <2>8. CASE Bind
    BY <1>2, <2>1, <2>8, BindOnTheWay
  <2>9. CASE Undo
    BY <1>2, <2>1, <2>9, UndoOnTheWay
  <2>10. CASE Rest
    BY <2>1, <2>10, RestOnTheWay
  <2>11. CASE Validate
    BY <2>1, <2>11, ValidateOnTheWay
  <2>12. CASE pc = "done" /\ UNCHANGED vars
    BY <2>2, <2>12
  <2> QED BY <2>2, <2>3, <2>4, <2>5, <2>6, <2>7, <2>8, <2>9, <2>10, <2>11, <2>12 DEF Next
<1>3. \A f, g : Corresponds(U, S, f, g)' <=> Corresponds(U, S, f, g)
  BY <1>1, CorrespondsStays
<1> QED BY <1>2, <1>3 DEF WayInv

LEMMA WayInvariant == Spec => []WayInv
<1>1. SearchInv /\ WayInv /\ [Next]_vars => WayInv'
  BY NextWay
<1> QED BY <1>1, InitWay, SearchInvariant, PTL DEF Spec

-----------------------------------------------------------------------------
(* Patterns of one shape correspond. *)

\* Every operand with its kind, those at no port apart from the others.
Tagged(b) == [x \in Operands(b) |-> IF x \in Isolated(b) THEN <<1, b.kinds[x]>> ELSE <<0, b.kinds[x]>>]

LEMMA TaggedClass ==
  ASSUME NEW b, NEW k
  PROVE  Class(Tagged(b), <<1, k>>) = {x \in Isolated(b) : b.kinds[x] = k}
<1>1. ASSUME NEW x PROVE x \in Class(Tagged(b), <<1, k>>) <=> x \in {z \in Isolated(b) : b.kinds[z] = k}
  BY DEF Class, Tagged, Isolated
<1> QED BY <1>1

\* Those at no port can be given partners of their kind, each one of its own.
LEMMA IsolatedPartners ==
  ASSUME NEW b, NEW c, Sound(b), Sound(c), SameShape(b, c)
  PROVE  \E h : /\ \A y \in Isolated(b) : h[y] \in Isolated(c) /\ c.kinds[h[y]] = b.kinds[y]
                /\ \A y, z \in Isolated(b) : h[y] = h[z] => y = z
<1> DEFINE tb == Tagged(b)
           tc == Tagged(c)
           h == [y \in Isolated(b) |-> CHOOSE x \in Class(tc, <<1, b.kinds[y]>>) : RankIn(tc, x) = RankIn(tb, y)]
<1>1. /\ Len(b.kinds) \in Nat /\ DOMAIN tb = 1 .. Len(b.kinds)
      /\ Len(c.kinds) \in Nat /\ DOMAIN tc = 1 .. Len(c.kinds)
  BY DEF Sound, Tagged
<1>2. \A k : Class(tb, <<1, k>>) = {x \in Isolated(b) : b.kinds[x] = k}
             /\ Class(tc, <<1, k>>) = {x \in Isolated(c) : c.kinds[x] = k}
  BY TaggedClass
<1> HIDE DEF tb, tc
<1>3. ASSUME NEW y \in Isolated(b)
      PROVE  /\ h[y] \in Isolated(c) /\ c.kinds[h[y]] = b.kinds[y] /\ RankIn(tc, h[y]) = RankIn(tb, y)
             /\ y \in Class(tb, <<1, b.kinds[y]>>)
  <2> DEFINE k == b.kinds[y]
  <2>1. y \in Operands(b) /\ y \in Class(tb, <<1, k>>)
    BY <1>2 DEF Isolated
  <2>2. Cardinality(Class(tb, <<1, k>>)) = Cardinality(Class(tc, <<1, k>>))
    BY <1>2, <2>1 DEF SameShape
  <2>3. RankIn(tb, y) \in 1 .. Cardinality(Class(tb, <<1, k>>))
    BY <1>1, <2>1, RanksOfClass
  <2>4. \E x \in Class(tc, <<1, k>>) : RankIn(tc, x) = RankIn(tb, y)
    BY <1>1, <2>2, <2>3, RanksOfClass
  <2>5. h[y] \in Class(tc, <<1, k>>) /\ RankIn(tc, h[y]) = RankIn(tb, y)
    BY <2>4
  <2> HIDE DEF h
  <2> QED BY <1>2, <2>1, <2>5
<1> HIDE DEF h
<1>4. ASSUME NEW y \in Isolated(b), NEW z \in Isolated(b), h[y] = h[z] PROVE y = z
  <2>1. b.kinds[y] = b.kinds[z] /\ RankIn(tb, y) = RankIn(tb, z)
    BY <1>3, <1>4
  <2>2. y \in Class(tb, <<1, b.kinds[y]>>) /\ z \in Class(tb, <<1, b.kinds[y]>>)
    BY <1>3, <2>1
  <2> QED BY <1>1, <2>1, <2>2, RanksOfClass
<1> QED BY <1>3, <1>4

\* The pairs at the ports are of operands at ports, and each of those is in one.
LEMMA PortPairsAre ==
  ASSUME NEW b, NEW c, Sound(b), Sound(c), NEW f \in [Ops(b) -> Ops(c)], IsIsomorphism(b, c, f)
  PROVE  /\ \A o \in Ops(b) :
              /\ \A i \in DOMAIN b.ops[o].inputs :
                   <<b.ops[o].inputs[i], c.ops[f[o]].inputs[i]>> \in PortPairs(b, c, f)
              /\ \A i \in DOMAIN b.ops[o].outputs :
                   <<b.ops[o].outputs[i], c.ops[f[o]].outputs[i]>> \in PortPairs(b, c, f)
         /\ \A p \in PortPairs(b, c, f) : /\ p = <<p[1], p[2]>>
                                          /\ p[2] \in Operands(c) /\ p[2] \notin Isolated(c)
                                          /\ p[1] \notin Isolated(b)
         /\ \A y \in Operands(b) : y \notin Isolated(b) => \E p \in PortPairs(b, c, f) : p[1] = y
<1> DEFINE Moved(q) == [q EXCEPT !.op = f[q.op]]
<1>1. /\ \A o \in Ops(b) : \A i \in DOMAIN b.ops[o].inputs :
           /\ [op |-> o, port |-> i] \in InputPorts(b) /\ Moved([op |-> o, port |-> i]) = [op |-> f[o], port |-> i]
      /\ \A o \in Ops(b) : \A i \in DOMAIN b.ops[o].outputs :
           /\ [op |-> o, port |-> i] \in OutputPorts(b) /\ Moved([op |-> o, port |-> i]) = [op |-> f[o], port |-> i]
  BY DEF InputPorts, OutputPorts
<1>2. /\ \A q \in InputPorts(b) : q = [op |-> q.op, port |-> q.port] /\ q.op \in Ops(b) /\ q.port \in DOMAIN b.ops[q.op].inputs
      /\ \A q \in OutputPorts(b) : q = [op |-> q.op, port |-> q.port] /\ q.op \in Ops(b) /\ q.port \in DOMAIN b.ops[q.op].outputs
  BY DEF InputPorts, OutputPorts
<1>3. ASSUME NEW o \in Ops(b)
      PROVE  /\ f[o] \in Ops(c)
             /\ DOMAIN b.ops[o].inputs = DOMAIN c.ops[f[o]].inputs
             /\ DOMAIN b.ops[o].outputs = DOMAIN c.ops[f[o]].outputs
             /\ \A i \in DOMAIN c.ops[f[o]].inputs : c.ops[f[o]].inputs[i] \in Operands(c)
             /\ \A i \in DOMAIN c.ops[f[o]].outputs : c.ops[f[o]].outputs[i] \in Operands(c)
  <2>1. /\ b.ops[o].inputs \in Seq(Operands(b)) /\ b.ops[o].outputs \in Seq(Operands(b))
        /\ c.ops[f[o]].inputs \in Seq(Operands(c)) /\ c.ops[f[o]].outputs \in Seq(Operands(c))
    BY DEF Sound
  <2>2. Len(b.ops[o].inputs) = Len(c.ops[f[o]].inputs) /\ Len(b.ops[o].outputs) = Len(c.ops[f[o]].outputs)
    BY DEF IsIsomorphism
  <2> QED BY <2>1, <2>2
<1>4. ASSUME NEW d, NEW o \in Ops(d)
      PROVE  /\ \A i \in DOMAIN d.ops[o].inputs : d.ops[o].inputs[i] \notin Isolated(d)
             /\ \A i \in DOMAIN d.ops[o].outputs : d.ops[o].outputs[i] \notin Isolated(d)
  <2>1. /\ \A i \in DOMAIN d.ops[o].inputs : [op |-> o, port |-> i] \in Consumers(d, d.ops[o].inputs[i])
        /\ \A i \in DOMAIN d.ops[o].outputs : [op |-> o, port |-> i] \in Producers(d, d.ops[o].outputs[i])
    BY DEF Consumers, Producers, InputPorts, OutputPorts, InputAt, OutputAt
  <2> QED BY <2>1 DEF Isolated
<1>5. ASSUME NEW o \in Ops(b)
      PROVE  /\ \A i \in DOMAIN b.ops[o].inputs :
                  <<b.ops[o].inputs[i], c.ops[f[o]].inputs[i]>> \in PortPairs(b, c, f)
             /\ \A i \in DOMAIN b.ops[o].outputs :
                  <<b.ops[o].outputs[i], c.ops[f[o]].outputs[i]>> \in PortPairs(b, c, f)
  <2>1. ASSUME NEW i \in DOMAIN b.ops[o].inputs
        PROVE  <<b.ops[o].inputs[i], c.ops[f[o]].inputs[i]>> \in PortPairs(b, c, f)
    <3> DEFINE q == [op |-> o, port |-> i]
    <3>1. q \in InputPorts(b) /\ Moved(q) = [op |-> f[o], port |-> i]
      BY <1>1
    <3>2. InputAt(b, q) = b.ops[o].inputs[i] /\ InputAt(c, Moved(q)) = c.ops[f[o]].inputs[i]
      BY <3>1 DEF InputAt
    <3> HIDE DEF q
    <3> QED BY <3>1, <3>2 DEF PortPairs
  <2>2. ASSUME NEW i \in DOMAIN b.ops[o].outputs
        PROVE  <<b.ops[o].outputs[i], c.ops[f[o]].outputs[i]>> \in PortPairs(b, c, f)
    <3> DEFINE q == [op |-> o, port |-> i]
    <3>1. q \in OutputPorts(b) /\ Moved(q) = [op |-> f[o], port |-> i]
      BY <1>1
    <3>2. OutputAt(b, q) = b.ops[o].outputs[i] /\ OutputAt(c, Moved(q)) = c.ops[f[o]].outputs[i]
      BY <3>1 DEF OutputAt
    <3> HIDE DEF q
    <3> QED BY <3>1, <3>2 DEF PortPairs
  <2> QED BY <2>1, <2>2
<1>6. ASSUME NEW p \in PortPairs(b, c, f)
      PROVE  \E o \in Ops(b) :
               \/ \E i \in DOMAIN b.ops[o].inputs : p = <<b.ops[o].inputs[i], c.ops[f[o]].inputs[i]>>
               \/ \E i \in DOMAIN b.ops[o].outputs : p = <<b.ops[o].outputs[i], c.ops[f[o]].outputs[i]>>
  <2>1. CASE p \in {<<InputAt(b, q), InputAt(c, [q EXCEPT !.op = f[q.op]])>> : q \in InputPorts(b)}
    <3>1. PICK q \in InputPorts(b) : p = <<InputAt(b, q), InputAt(c, Moved(q))>>
      BY <2>1
    <3>2. PICK o \in Ops(b), i \in DOMAIN b.ops[q.op].inputs : o = q.op /\ q = [op |-> o, port |-> i]
      BY <1>2
    <3>3. i \in DOMAIN b.ops[o].inputs /\ Moved(q) = [op |-> f[o], port |-> i]
      BY <1>1, <3>2
    <3>4. InputAt(b, q) = b.ops[o].inputs[i] /\ InputAt(c, Moved(q)) = c.ops[f[o]].inputs[i]
      BY <3>2, <3>3 DEF InputAt
    <3> QED BY <3>1, <3>3, <3>4
  <2>2. CASE p \in {<<OutputAt(b, q), OutputAt(c, [q EXCEPT !.op = f[q.op]])>> : q \in OutputPorts(b)}
    <3>1. PICK q \in OutputPorts(b) : p = <<OutputAt(b, q), OutputAt(c, Moved(q))>>
      BY <2>2
    <3>2. PICK o \in Ops(b), i \in DOMAIN b.ops[q.op].outputs : o = q.op /\ q = [op |-> o, port |-> i]
      BY <1>2
    <3>3. i \in DOMAIN b.ops[o].outputs /\ Moved(q) = [op |-> f[o], port |-> i]
      BY <1>1, <3>2
    <3>4. OutputAt(b, q) = b.ops[o].outputs[i] /\ OutputAt(c, Moved(q)) = c.ops[f[o]].outputs[i]
      BY <3>2, <3>3 DEF OutputAt
    <3> QED BY <3>1, <3>3, <3>4
  <2> QED BY <2>1, <2>2 DEF PortPairs
<1>7. ASSUME NEW p \in PortPairs(b, c, f)
      PROVE  p = <<p[1], p[2]>> /\ p[2] \in Operands(c) /\ p[2] \notin Isolated(c) /\ p[1] \notin Isolated(b)
  BY <1>3, <1>4, <1>6
<1>8. ASSUME NEW y \in Operands(b), y \notin Isolated(b) PROVE \E p \in PortPairs(b, c, f) : p[1] = y
  <2>1. (\E q \in InputPorts(b) : InputAt(b, q) = y) \/ \E q \in OutputPorts(b) : OutputAt(b, q) = y
    BY <1>8 DEF Isolated, Consumers, Producers
  <2>2. \E o \in Ops(b) : (\E i \in DOMAIN b.ops[o].inputs : b.ops[o].inputs[i] = y)
                          \/ \E i \in DOMAIN b.ops[o].outputs : b.ops[o].outputs[i] = y
    BY <1>2, <2>1 DEF InputAt, OutputAt
  <2> QED BY <1>5, <2>2
<1> QED BY <1>5, <1>7, <1>8

LEMMA ShapesCorrespond ==
  ASSUME NEW b, NEW c, Sound(b), Sound(c), SameShape(b, c)
  PROVE  \E f, g : Corresponds(b, c, f, g)
<1>1. PICK f \in [Ops(b) -> Ops(c)] : IsIsomorphism(b, c, f)
  BY DEF SameShape
<1>2. PICK h : /\ \A y \in Isolated(b) : h[y] \in Isolated(c) /\ c.kinds[h[y]] = b.kinds[y]
               /\ \A y, z \in Isolated(b) : h[y] = h[z] => y = z
  BY IsolatedPartners
<1> DEFINE P == PortPairs(b, c, f)
           g == [y \in Operands(b) |-> IF y \in Isolated(b) THEN h[y] ELSE CHOOSE x : <<y, x>> \in P]
<1>3. /\ \A o \in Ops(b) :
           /\ \A i \in DOMAIN b.ops[o].inputs : <<b.ops[o].inputs[i], c.ops[f[o]].inputs[i]>> \in P
           /\ \A i \in DOMAIN b.ops[o].outputs : <<b.ops[o].outputs[i], c.ops[f[o]].outputs[i]>> \in P
      /\ \A p \in P : /\ p = <<p[1], p[2]>> /\ p[2] \in Operands(c) /\ p[2] \notin Isolated(c)
                      /\ p[1] \notin Isolated(b)
      /\ \A y \in Operands(b) : y \notin Isolated(b) => \E p \in P : p[1] = y
  <2>1. \A o \in Ops(b) :
          /\ \A i \in DOMAIN b.ops[o].inputs :
               <<b.ops[o].inputs[i], c.ops[f[o]].inputs[i]>> \in PortPairs(b, c, f)
          /\ \A i \in DOMAIN b.ops[o].outputs :
               <<b.ops[o].outputs[i], c.ops[f[o]].outputs[i]>> \in PortPairs(b, c, f)
    BY <1>1, PortPairsAre
  <2>2. \A p \in PortPairs(b, c, f) : /\ p = <<p[1], p[2]>>
                                      /\ p[2] \in Operands(c) /\ p[2] \notin Isolated(c)
                                      /\ p[1] \notin Isolated(b)
    BY <1>1, PortPairsAre
  <2>3. \A y \in Operands(b) : y \notin Isolated(b) => \E p \in PortPairs(b, c, f) : p[1] = y
    BY <1>1, PortPairsAre
  <2> QED BY <2>1, <2>2, <2>3
<1>4. (\A p, r \in P : p[1] = r[1] <=> p[2] = r[2]) /\ \A p \in P : b.kinds[p[1]] = c.kinds[p[2]]
  BY <1>1 DEF IsIsomorphism
<1> HIDE DEF P
<1>5. ASSUME NEW y \in Operands(b), y \in Isolated(b) PROVE g[y] = h[y]
  BY <1>5
<1>6. ASSUME NEW y \in Operands(b), y \notin Isolated(b) PROVE <<y, g[y]>> \in P
  <2>1. PICK p \in P : p[1] = y
    BY <1>3, <1>6
  <2>2. <<y, p[2]>> \in P
    BY <1>3, <2>1
  <2> QED BY <1>6, <2>2
<1>7. DOMAIN g = Operands(b) /\ g = [y \in Operands(b) |-> g[y]]
  OBVIOUS
<1> HIDE DEF g
<1>8. ASSUME NEW y \in Operands(b)
      PROVE  /\ g[y] \in Operands(c) /\ c.kinds[g[y]] = b.kinds[y]
             /\ g[y] \in Isolated(c) <=> y \in Isolated(b)
  <2>1. CASE y \in Isolated(b)
    BY <1>2, <1>5, <2>1 DEF Isolated
  <2>2. CASE y \notin Isolated(b)
    <3> DEFINE p == <<y, g[y]>>
    <3>1. p \in P /\ p[1] = y /\ p[2] = g[y]
      BY <1>6, <2>2
    <3> HIDE DEF p
    <3> QED BY <1>3, <1>4, <2>2, <3>1
  <2> QED BY <2>1, <2>2
<1>9. ASSUME NEW y \in Operands(b), NEW z \in Operands(b), g[y] = g[z] PROVE y = z
  <2>1. CASE y \in Isolated(b)
    <3>1. z \in Isolated(b)
      BY <1>8, <1>9, <2>1
    <3> QED BY <1>2, <1>5, <1>9, <2>1, <3>1
  <2>2. CASE y \notin Isolated(b)
    <3>1. z \notin Isolated(b)
      BY <1>8, <1>9, <2>2
    <3>2. <<y, g[y]>> \in P /\ <<z, g[z]>> \in P
      BY <1>6, <2>2, <3>1
    <3> DEFINE p == <<y, g[y]>>
               r == <<z, g[z]>>
    <3>3. p \in P /\ r \in P /\ p[1] = y /\ p[2] = g[y] /\ r[1] = z /\ r[2] = g[z]
      BY <3>2
    <3> HIDE DEF p, r
    <3> QED BY <1>4, <1>9, <3>3
  <2> QED BY <2>1, <2>2
<1>10. ASSUME NEW x, NEW y, <<y, x>> \in P PROVE y \in Operands(b) => x = g[y]
  <2> HAVE y \in Operands(b)
  <2> DEFINE p == <<y, x>>
             r == <<y, g[y]>>
  <2>1. p \in P /\ p[1] = y /\ p[2] = x
    BY <1>10
  <2>2. y \notin Isolated(b)
    <3> HIDE DEF p
    <3> QED BY <1>3, <2>1
  <2>3. r \in P /\ r[1] = y /\ r[2] = g[y]
    BY <1>6, <2>2
  <2> HIDE DEF p, r
  <2> QED BY <1>4, <2>1, <2>3
<1>11. ASSUME NEW o \in Ops(b)
       PROVE  /\ \A i \in DOMAIN b.ops[o].inputs : c.ops[f[o]].inputs[i] = g[b.ops[o].inputs[i]]
              /\ \A i \in DOMAIN b.ops[o].outputs : c.ops[f[o]].outputs[i] = g[b.ops[o].outputs[i]]
  <2>1. /\ \A i \in DOMAIN b.ops[o].inputs : b.ops[o].inputs[i] \in Operands(b)
        /\ \A i \in DOMAIN b.ops[o].outputs : b.ops[o].outputs[i] \in Operands(b)
    <3>1. b.ops[o].inputs \in Seq(Operands(b)) /\ b.ops[o].outputs \in Seq(Operands(b))
      BY DEF Sound
    <3> QED BY <3>1
  <2> QED BY <1>3, <1>10, <2>1
<1>12. g \in [Operands(b) -> Operands(c)]
  BY <1>7, <1>8
<1>13. Len(b.ops) = Len(c.ops) /\ Len(b.kinds) = Len(c.kinds)
  BY DEF SameShape
<1>14. /\ \A o, p \in Ops(b) : f[o] = f[p] => o = p
       /\ \A o \in Ops(b) : /\ b.ops[o].kind = c.ops[f[o]].kind
                            /\ Len(b.ops[o].inputs) = Len(c.ops[f[o]].inputs)
                            /\ Len(b.ops[o].outputs) = Len(c.ops[f[o]].outputs)
  BY <1>1 DEF IsIsomorphism
<1>15. Corresponds(b, c, f, g)
  BY <1>1, <1>8, <1>9, <1>11, <1>12, <1>13, <1>14 DEF Corresponds
<1> QED BY <1>15

\* Patterns of one shape are never told apart: the colors follow a correspondence
\* of the two, and the search takes the candidates it has in turn.
THEOREM NoneAreMissed == Spec => []NoneMissed
<1>1. SearchInv /\ WayInv => NoneMissed
  <2> SUFFICES ASSUME SearchInv, WayInv, outcome = "UNSUPPORTED", SameShape(U, S) PROVE FALSE
    BY DEF NoneMissed
  <2>1. Sound(U) /\ Sound(S)
    BY PatternsHere DEF SearchInv, Inv
  <2>2. PICK f, g : Corresponds(U, S, f, g)
    BY <2>1, ShapesCorrespond
  <2> QED BY <2>2 DEF WayInv, OnTheWay
<1> QED BY <1>1, SearchInvariant, WayInvariant, PTL

\* Patterns that correspond are of one shape.
LEMMA CorrespondentsAreAlike ==
  ASSUME NEW b, NEW c, Sound(b), Sound(c), NEW f, NEW g, Corresponds(b, c, f, g)
  PROVE  SameShape(b, c)
<1>1. IsIsomorphism(b, c, f)
  BY CorrespondenceIsIsomorphism
<1>2. Embeds(b, c, f, g) /\ \A x \in Operands(c) : \E y \in Operands(b) : g[y] = x
  BY CorrespondenceEmbeds
<1>3. /\ g \in [Operands(b) -> Operands(c)] /\ \A x, y \in Operands(b) : g[x] = g[y] => x = y
      /\ \A y \in Operands(b) : c.kinds[g[y]] = b.kinds[y]
      /\ Len(b.ops) = Len(c.ops) /\ Len(b.kinds) = Len(c.kinds) /\ f \in [Ops(b) -> Ops(c)]
  BY DEF Corresponds
<1>4. ASSUME NEW y \in Operands(b) PROVE g[y] \in Isolated(c) <=> y \in Isolated(b)
  <2>1. /\ TakenAll(f, Consumers(b, y)) \in Bijection(Consumers(b, y), Consumers(c, g[y]))
        /\ TakenAll(f, Producers(b, y)) \in Bijection(Producers(b, y), Producers(c, g[y]))
    BY <1>2, EmbeddedPorts
  <2>2. /\ Consumers(b, y) = {} <=> Consumers(c, g[y]) = {}
        /\ Producers(b, y) = {} <=> Producers(c, g[y]) = {}
    BY <2>1, Fun_BijectionProperties
  <2> QED BY <1>3, <2>2 DEF Isolated
<1>5. IsFiniteSet(Operands(b))
  BY IntervalIsFinite DEF Sound
<1>6. ASSUME NEW k
      PROVE  Cardinality({y \in Isolated(b) : b.kinds[y] = k}) = Cardinality({y \in Isolated(c) : c.kinds[y] = k})
  <2> DEFINE A == {y \in Isolated(b) : b.kinds[y] = k}
             B == {y \in Isolated(c) : c.kinds[y] = k}
             h == [y \in A |-> g[y]]
  <2>1. \A y \in A : y \in Operands(b) /\ y \in Isolated(b) /\ b.kinds[y] = k
    BY DEF Isolated
  <2>2. \A x \in B : x \in Operands(c) /\ x \in Isolated(c) /\ c.kinds[x] = k
    BY DEF Isolated
  <2>3. h \in [A -> B] /\ \A x, y \in A : h[x] = h[y] => x = y
    BY <1>3, <1>4, <2>1
  <2>4. \A x \in B : \E y \in A : h[y] = x
    <3> SUFFICES ASSUME NEW x \in B PROVE \E y \in A : h[y] = x
      OBVIOUS
    <3>1. PICK y \in Operands(b) : g[y] = x
      BY <1>2, <2>2
    <3>2. y \in A
      BY <1>3, <1>4, <2>2, <3>1
    <3> QED BY <3>1, <3>2
  <2>5. IsFiniteSet(A)
    BY <1>5, <2>1, FS_Subset
  <2> HIDE DEF A, B, h
  <2>6. h \in Bijection(A, B)
    BY <2>3, <2>4, Fun_IsBij
  <2>7. ExistsBijection(A, B)
    BY <2>6, Fun_ExistsBij
  <2>8. Cardinality(B) = Cardinality(A)
    BY <2>5, <2>7, FS_Bijection, Zenon
  <2> QED BY <2>8 DEF A, B
<1>7. \E e \in [Ops(b) -> Ops(c)] : IsIsomorphism(b, c, e)
  BY <1>1, <1>3
<1>8. \A x \in Operands(b) :
        Cardinality({y \in Isolated(b) : b.kinds[y] = b.kinds[x]})
          = Cardinality({y \in Isolated(c) : c.kinds[y] = b.kinds[x]})
  BY <1>6
<1>9. Len(b.ops) = Len(c.ops) /\ Len(b.kinds) = Len(c.kinds)
  BY <1>3
<1> QED BY <1>7, <1>8, <1>9 DEF SameShape

LEMMA SameShapeStays ==
  ASSUME U' = U, S' = S
  PROVE  SameShape(U, S)' <=> SameShape(U, S)
<1> HIDE DEF U, S
<1> QED OBVIOUS

Outcomes == {"none", "PAIRED", "SEARCHED", "UNSUPPORTED"}

\* What a constructor that has matched two patterns knows of them.
ShapeInv == outcome \in Outcomes /\ (Matched => SameShape(U, S))

LEMMA NextShape == SearchInv /\ ShapeInv /\ [Next]_vars => ShapeInv'
<1> SUFFICES ASSUME SearchInv, ShapeInv, [Next]_vars PROVE ShapeInv'
  OBVIOUS
<1>1. U' = U /\ S' = S
  <2>1. UNCHANGED <<user, supported>>
    BY DEF Next, vars, given, ColorBoth, Compare, Pair, Select, Try, Bind, Undo, Rest, Validate
  <2> QED BY <2>1 DEF U, S
<1>2. Sound(U) /\ Sound(S)
  BY PatternsHere DEF SearchInv, Inv
<1>3. \/ outcome' \in {outcome, "UNSUPPORTED"}
      \/ Pair /\ outcome' = "PAIRED"
      \/ Validate /\ outcome' = "SEARCHED"
  BY DEF Next, vars, ColorBoth, Compare, Pair, Select, Try, Bind, Undo, Rest, Validate, Fail, Goto, End
<1>4. outcome' \in Outcomes
  BY <1>3 DEF ShapeInv, Outcomes
<1>5. ASSUME Matched' PROVE SameShape(U, S)
  <2>1. CASE outcome' \in {outcome, "UNSUPPORTED"}
    BY <1>5, <2>1 DEF ShapeInv, Matched
  <2>2. CASE Pair /\ outcome' = "PAIRED" /\ outcome # "PAIRED"
    <3>1. SameKey /\ Verified(OperandsPaired, OpsPaired)
      BY <2>2 DEF SearchInv, Inv, ControlInv, Pair, Goto
    <3>2. Corresponds(U, S, OpsPaired, OperandsPaired)
      BY <1>2, <3>1, VerifiedCorresponds
    <3> QED BY <1>2, <3>2, CorrespondentsAreAlike
  <2>3. CASE Validate /\ outcome' = "SEARCHED" /\ outcome # "SEARCHED"
    <3>1. SameKey /\ Complete /\ MapsInv
      BY <2>3 DEF SearchInv, Inv, ControlInv, Validate, Goto, Searching
    <3>2. Corresponds(U, S, supportedOpOf, supportedOperandOf)
      BY <1>2, <3>1, CompleteCorresponds
    <3> QED BY <1>2, <3>2, CorrespondentsAreAlike
  <2> QED BY <1>3, <2>1, <2>2, <2>3
<1> QED BY <1>1, <1>4, <1>5, SameShapeStays DEF ShapeInv

\* The constructor of Ops decides whether two patterns are of one shape.
DecidesShape == pc = "done" => (Matched <=> SameShape(U, S))

\* When it has returned, Ops holds a mapping exactly if there is one.
THEOREM ShapeIsDecided == Spec => []DecidesShape
<1>1. Init => ShapeInv
  BY DEF Init, ShapeInv, Outcomes, Matched
<1>2. SearchInv /\ ShapeInv /\ [Next]_vars => ShapeInv'
  BY NextShape
<1>3. SearchInv /\ ShapeInv /\ NoneMissed => DecidesShape
  BY DEF SearchInv, Inv, ControlInv, ShapeInv, Outcomes, Matched, NoneMissed, DecidesShape
<1> QED BY <1>1, <1>2, <1>3, SearchInvariant, NoneAreMissed, PTL DEF Spec
===============================================================================
