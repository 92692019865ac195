------------------------- MODULE GemmExecutionProofs -------------------------
(***************************************************************************)
(* Theorems about GemmExecution, for every set of problems, every width of *)
(* a word and every grid.                                                  *)
(*                                                                         *)
(* Three arguments meet in ExecutionInv. What follows a field of the       *)
(* selection key can be told from the field, so that equal keys have equal *)
(* answers of isApplicable() (KeyTells). The divisions of the size checks  *)
(* are exact, so that no product wraps (AcceptedFits). And a thread of the *)
(* grid walks the indices of one rest modulo the number of threads, what   *)
(* is behind it is written and what is ahead is not (Spread, Written).     *)
(***************************************************************************)
EXTENDS GemmExecution, SequenceTheorems, TLAPS

(* Products and rests of natural numbers. *)

LEMMA TimesMono ==
  ASSUME NEW a \in Int, NEW b \in Int, NEW c \in Nat, a <= b
  PROVE  a * c <= b * c
OBVIOUS

LEMMA DivMod ==
  ASSUME NEW a \in Nat, NEW t \in Nat \ {0}
  PROVE  /\ a \div t \in Nat /\ a % t \in 0 .. t - 1
         /\ (a \div t) * t \in Nat /\ (a \div t) * t + (a % t) = a
<1>1. a % t \in 0 .. t - 1
  OBVIOUS
<1>2. a % t = a - t * (a \div t)
  OBVIOUS
<1>3. a \div t \in Nat
  OBVIOUS
<1> DEFINE q == a \div t
<1>4. q * t = t * q /\ q * t \in Nat
  <2>1. q \in Nat /\ t \in Nat
    BY <1>3
  <2> HIDE DEF q
  <2> QED BY <2>1
<1> HIDE DEF q
<1>5. a % t = a - q * t /\ a % t \in Nat
  BY <1>1, <1>2, <1>4 DEF q
<1>6. q * t + (a % t) = a
  <2> DEFINE r == a % t
             x == q * t
  <2>1. r = a - x /\ x \in Nat /\ r \in Nat
    BY <1>4, <1>5
  <2> HIDE DEF r, x
  <2>2. x + r = a
    BY <2>1
  <2> QED BY <2>2 DEF r, x
<1> QED BY <1>1, <1>3, <1>4, <1>6 DEF q

LEMMA DivBound ==
  ASSUME NEW n \in Nat, NEW k \in Nat \ {0}, NEW m \in Nat, m <= n \div k
  PROVE  m * k <= n
<1> DEFINE q == n \div k
<1>1. q \in Nat /\ n % k \in Nat /\ q * k + (n % k) = n
  BY DivMod
<1> HIDE DEF q
<1>2. m * k <= q * k
  BY <1>1, TimesMono DEF q
<1>3. q * k \in Nat /\ m * k \in Nat
  BY <1>1
<1> QED BY <1>1, <1>2, <1>3

LEMMA SmallMultiple ==
  ASSUME NEW d \in Int, NEW t \in Nat \ {0}, 0 <= d * t, d * t < t
  PROVE  d = 0
<1>1. CASE d >= 1
  BY <1>1, TimesMono
<1>2. CASE d <= -1
  <2>1. d * t <= (-1) * t
    BY <1>2, TimesMono
  <2> QED BY <2>1
<1> QED BY <1>1, <1>2

LEMMA Differ ==
  ASSUME NEW p \in Nat, NEW q \in Nat, NEW t \in Nat
  PROVE  /\ p * t \in Nat /\ q * t \in Nat
         /\ (q - p) * t = q * t - p * t /\ (q - p - 1) * t = q * t - p * t - t
OBVIOUS

\* Of a division only this is used.
LEMMA Divided ==
  ASSUME NEW a \in Nat, NEW t \in Nat \ {0}
  PROVE  \E q, x, r \in Nat : x = q * t /\ r = a % t /\ r < t /\ a = x + r
<1> DEFINE q == a \div t
           r == a % t
           x == q * t
<1>1. q \in Nat /\ r \in 0 .. t - 1 /\ x \in Nat /\ a = x + r
  BY DivMod
<1> HIDE DEF q, r, x
<1>2. r \in Nat /\ r < t
  BY <1>1
<1>3. x = q * t /\ r = a % t
  BY DEF x, r
<1> QED BY <1>1, <1>2, <1>3

\* Two numbers of the same rest less than t apart are equal.
LEMMA SameRest ==
  ASSUME NEW t \in Nat \ {0}, NEW a \in Nat, NEW b \in Nat, a % t = b % t, a <= b, b < a + t
  PROVE  a = b
<1>1. PICK p, x, r \in Nat : x = p * t /\ r = a % t /\ r < t /\ a = x + r
  BY Divided
<1>2. PICK q, y, s \in Nat : y = q * t /\ s = b % t /\ s < t /\ b = y + s
  BY Divided
<1>3. r = s
  BY <1>1, <1>2
<1>4. (q - p) * t = y - x
  BY <1>1, <1>2, Differ
<1>5. a = x + r /\ b = y + r
  BY <1>1, <1>2, <1>3
<1>6. 0 <= y - x /\ y - x < t
  BY <1>5
<1>7. q - p = 0
  BY <1>4, <1>6, SmallMultiple
<1>8. y - x = 0
  BY <1>4, <1>7
<1> QED BY <1>5, <1>8

LEMMA NextRest ==
  ASSUME NEW t \in Nat \ {0}, NEW a \in Nat
  PROVE  (a + t) % t = a % t
<1>1. PICK p, x, r \in Nat : x = p * t /\ r = a % t /\ r < t /\ a = x + r
  BY Divided
<1> DEFINE b == a + t
<1>2. b \in Nat /\ b = a + t
  OBVIOUS
<1> HIDE DEF b
<1>3. PICK q, y, s \in Nat : y = q * t /\ s = b % t /\ s < t /\ b = y + s
  BY <1>2, Divided
<1>4. x + r + t = y + s /\ r < t /\ s < t
  BY <1>1, <1>2, <1>3
<1>5. (q - p - 1) * t = y - x - t
  BY <1>1, <1>3, Differ
<1>6. (p + 1 - q) * t = x + t - y
  <2>1. (p + 1 - q) * t = p * t + t - q * t
    OBVIOUS
  <2> QED BY <1>1, <1>3, <2>1
<1>7. r = s
  <2>1. CASE r >= s
    <3>1. 0 <= y - x - t /\ y - x - t < t
      BY <1>4, <2>1
    <3>2. q - p - 1 = 0
      BY <1>5, <3>1, SmallMultiple
    <3>3. y - x - t = 0
      BY <1>5, <3>2
    <3> QED BY <1>4, <3>3
  <2>2. CASE r < s
    <3>1. 0 <= x + t - y /\ x + t - y < t
      BY <1>4, <2>2
    <3>2. p + 1 - q = 0
      BY <1>6, <3>1, SmallMultiple
    <3>3. x + t - y = 0
      BY <1>6, <3>2
    <3> QED BY <1>4, <3>3
  <2> QED BY <2>1, <2>2
<1> QED BY <1>1, <1>3, <1>7 DEF b

LEMMA SmallRest ==
  ASSUME NEW t \in Nat \ {0}, NEW a \in Nat, a < t
  PROVE  a % t = a
<1>1. PICK p, x, r \in Nat : x = p * t /\ r = a % t /\ r < t /\ a = x + r
  BY Divided
<1>2. 0 <= p * t /\ p * t < t
  BY <1>1
<1>3. p = 0
  BY <1>2, SmallMultiple
<1>4. x = 0
  BY <1>1, <1>3
<1> QED BY <1>1, <1>4

-----------------------------------------------------------------------------
(* The key says all that isApplicable() asks about. *)

\* Concatenation by its name, so that only these lemmas look into it.
Cat(a, b) == a \o b

LEMMA CatTyped ==
  ASSUME NEW a \in Seq(Int), NEW b \in Seq(Int)
  PROVE  Cat(a, b) \in Seq(Int)
BY ConcatProperties, Zenon DEF Cat

LEMMA CatParts ==
  ASSUME NEW a \in Seq(Int), NEW b \in Seq(Int)
  PROVE  /\ Len(a) \in Nat /\ Len(b) \in Nat /\ Len(Cat(a, b)) = Len(a) + Len(b)
         /\ \A i \in 1 .. Len(a) + Len(b) :
              Cat(a, b)[i] = IF i <= Len(a) THEN a[i] ELSE b[i - Len(a)]
BY ConcatProperties, LenProperties, Zenon DEF Cat

LEMMA CatAssociates ==
  ASSUME NEW a \in Seq(Int), NEW b \in Seq(Int), NEW c \in Seq(Int)
  PROVE  Cat(Cat(a, b), c) = Cat(a, Cat(b, c))
<1>1. (a \o b) \o c = a \o (b \o c)
  BY ConcatAssociative
<1> QED BY <1>1 DEF Cat

\* Concatenations are read from the left and taken apart from there too.
LEMMA Regroup ==
  ASSUME NEW a \in Seq(Int), NEW b \in Seq(Int), NEW c \in Seq(Int),
         NEW d \in Seq(Int), NEW e \in Seq(Int), NEW f \in Seq(Int)
  PROVE  Cat(Cat(Cat(Cat(Cat(a, b), c), d), e), f) = Cat(a, Cat(b, Cat(c, Cat(d, Cat(e, f)))))
<1>1. /\ Cat(a, b) \in Seq(Int) /\ Cat(Cat(a, b), c) \in Seq(Int)
      /\ Cat(Cat(Cat(a, b), c), d) \in Seq(Int)
  BY CatTyped, Zenon
<1>2. /\ Cat(e, f) \in Seq(Int) /\ Cat(d, Cat(e, f)) \in Seq(Int)
      /\ Cat(c, Cat(d, Cat(e, f))) \in Seq(Int)
  BY CatTyped, Zenon
<1>3. Cat(Cat(Cat(Cat(Cat(a, b), c), d), e), f) = Cat(Cat(Cat(Cat(a, b), c), d), Cat(e, f))
  BY <1>1, CatAssociates
<1>4. Cat(Cat(Cat(Cat(a, b), c), d), Cat(e, f)) = Cat(Cat(Cat(a, b), c), Cat(d, Cat(e, f)))
  BY <1>1, <1>2, CatAssociates
<1>5. Cat(Cat(Cat(a, b), c), Cat(d, Cat(e, f))) = Cat(Cat(a, b), Cat(c, Cat(d, Cat(e, f))))
  BY <1>1, <1>2, CatAssociates
<1>6. Cat(Cat(a, b), Cat(c, Cat(d, Cat(e, f)))) = Cat(a, Cat(b, Cat(c, Cat(d, Cat(e, f)))))
  BY <1>2, CatAssociates
<1> QED BY <1>3, <1>4, <1>5, <1>6, Zenon

LEMMA CatCancels ==
  ASSUME NEW a \in Seq(Int), NEW b \in Seq(Int), NEW x \in Seq(Int), NEW y \in Seq(Int),
         Len(a) = Len(b), Cat(a, x) = Cat(b, y)
  PROVE  a = b /\ x = y
<1>1. Len(a) \in Nat /\ Len(x) \in Nat /\ Len(y) \in Nat
  BY CatParts
<1>2. Len(Cat(a, x)) = Len(a) + Len(x) /\ Len(Cat(b, y)) = Len(b) + Len(y)
  BY CatParts
<1>3. Len(x) = Len(y)
  BY <1>1, <1>2
<1>4. ASSUME NEW i \in 1 .. Len(a) PROVE a[i] = b[i]
  <2>1. i \in 1 .. Len(a) + Len(x) /\ i \in 1 .. Len(b) + Len(y) /\ i <= Len(a) /\ i <= Len(b)
    BY <1>1, <1>3
  <2>2. Cat(a, x)[i] = a[i]
    BY <2>1, CatParts, Zenon
  <2>3. Cat(b, y)[i] = b[i]
    BY <2>1, CatParts, Zenon
  <2> QED BY <2>2, <2>3
<1>5. ASSUME NEW i \in 1 .. Len(x) PROVE x[i] = y[i]
  <2> DEFINE j == Len(a) + i
  <2>1. /\ j \in 1 .. Len(a) + Len(x) /\ j \in 1 .. Len(b) + Len(y)
        /\ ~(j <= Len(a)) /\ ~(j <= Len(b)) /\ j - Len(a) = i /\ j - Len(b) = i
    BY <1>1, <1>3
  <2> HIDE DEF j
  <2>2. Cat(a, x)[j] = x[i]
    BY <2>1, CatParts, Zenon
  <2>3. Cat(b, y)[j] = y[i]
    BY <2>1, CatParts, Zenon
  <2> QED BY <2>2, <2>3
<1>6. a = b
  BY <1>4, SeqEqual, Zenon
<1>7. x = y
  BY <1>3, <1>5, SeqEqual, Zenon
<1> QED BY <1>6, <1>7

\* What a port contributes, and its parts.
PortHead(n, v) ==
  LET field(i) == 6 * (n - 1) + i
  IN  <<field(1), v.type, field(2), v.layout, field(3), Flag(v.memory # Null), field(4), Alignment(v)>>

DimsHead(n, v) == <<6 * (n - 1) + 5, Len(v.dims)>>

StridesHead(n, v) == <<6 * (n - 1) + 6, Len(v.strides)>>

\* Views that isApplicable() cannot tell apart.
Alike(v, w) ==
  /\ v.type = w.type /\ v.layout = w.layout
  /\ v.memory # Null <=> w.memory # Null
  /\ Alignment(v) = Alignment(w) /\ v.dims = w.dims

LEMMA PortType ==
  ASSUME NEW p \in Problems, NEW n \in 1 .. 6
  PROVE  View(p, Ports[n]) \in Views
BY ExecutionAssumption DEF Ports, View

LEMMA PartsTyped ==
  ASSUME NEW n \in 1 .. 6, NEW v \in Views
  PROVE  /\ PortHead(n, v) \in Seq(Int) /\ Len(PortHead(n, v)) = 8
         /\ DimsHead(n, v) \in Seq(Int) /\ Len(DimsHead(n, v)) = 2
         /\ StridesHead(n, v) \in Seq(Int) /\ Len(StridesHead(n, v)) = 2
         /\ v.dims \in Seq(Int) /\ v.strides \in Seq(Int)
<1>1. v.type \in Int /\ v.layout \in Int /\ v.memory \in Nat /\ v.dims \in Seq(Int) /\ v.strides \in Seq(Int)
  BY DEF Views
<1>2. Flag(v.memory # Null) \in Int /\ Alignment(v) \in Int
  BY <1>1 DEF Flag, Alignment, FloatBytes
<1>3. Len(v.dims) \in Int /\ Len(v.strides) \in Int
  BY <1>1
<1> QED BY <1>1, <1>2, <1>3 DEF PortHead, DimsHead, StridesHead

\* A port's numbers, followed by s.
PortKey(n, v, s) ==
  Cat(PortHead(n, v), Cat(DimsHead(n, v), Cat(v.dims, Cat(StridesHead(n, v), Cat(v.strides, s)))))

LEMMA PortKeyTyped ==
  ASSUME NEW n \in 1 .. 6, NEW v \in Views, NEW s \in Seq(Int)
  PROVE  PortKey(n, v, s) \in Seq(Int)
BY PartsTyped, CatTyped, Zenon DEF PortKey

LEMMA ViewKeyIsPortKey ==
  ASSUME NEW p \in Problems, NEW n \in 1 .. 6, NEW s \in Seq(Int)
  PROVE  ViewKey(p, n) \in Seq(Int) /\ Cat(ViewKey(p, n), s) = PortKey(n, View(p, Ports[n]), s)
<1> DEFINE v == View(p, Ports[n])
           a == PortHead(n, v)
           b == DimsHead(n, v)
           c == v.dims
           d == StridesHead(n, v)
           e == v.strides
<1>1. ViewKey(p, n) = Cat(Cat(Cat(Cat(a, b), c), d), e)
  BY Zenon DEF ViewKey, PortHead, DimsHead, StridesHead, Cat
<1>2. v \in Views
  BY PortType
<1>3. PortKey(n, v, s) = Cat(a, Cat(b, Cat(c, Cat(d, Cat(e, s)))))
  BY Zenon DEF PortKey
<1> HIDE DEF v
<1>4. a \in Seq(Int) /\ b \in Seq(Int) /\ c \in Seq(Int) /\ d \in Seq(Int) /\ e \in Seq(Int)
  BY <1>2, PartsTyped, Zenon
<1> HIDE DEF a, b, c, d, e
<1>5. /\ Cat(a, b) \in Seq(Int) /\ Cat(Cat(a, b), c) \in Seq(Int)
      /\ Cat(Cat(Cat(a, b), c), d) \in Seq(Int) /\ Cat(Cat(Cat(Cat(a, b), c), d), e) \in Seq(Int)
  BY <1>4, CatTyped, Zenon
<1>6. Cat(Cat(Cat(Cat(Cat(a, b), c), d), e), s) = Cat(a, Cat(b, Cat(c, Cat(d, Cat(e, s)))))
  BY <1>4, Regroup
<1>7. ViewKey(p, n) \in Seq(Int)
  BY <1>1, <1>5, Zenon
<1>8. Cat(ViewKey(p, n), s) = PortKey(n, v, s)
  BY <1>1, <1>3, <1>6, Zenon
<1> QED BY <1>7, <1>8 DEF v

\* What follows a port's numbers can be told from them: they say how many they are.
LEMMA PortKeyTells ==
  ASSUME NEW n \in 1 .. 6, NEW v \in Views, NEW w \in Views,
         NEW s \in Seq(Int), NEW t \in Seq(Int), PortKey(n, v, s) = PortKey(n, w, t)
  PROVE  Alike(v, w) /\ s = t
<1> DEFINE e == Cat(v.strides, s)
           f == Cat(w.strides, t)
           d == Cat(StridesHead(n, v), e)
           g == Cat(StridesHead(n, w), f)
           c == Cat(v.dims, d)
           h == Cat(w.dims, g)
           b == Cat(DimsHead(n, v), c)
           k == Cat(DimsHead(n, w), h)
<1>1. Cat(PortHead(n, v), b) = Cat(PortHead(n, w), k)
  BY DEF PortKey
<1>2. /\ PortHead(n, v) \in Seq(Int) /\ PortHead(n, w) \in Seq(Int)
      /\ DimsHead(n, v) \in Seq(Int) /\ DimsHead(n, w) \in Seq(Int)
      /\ StridesHead(n, v) \in Seq(Int) /\ StridesHead(n, w) \in Seq(Int)
      /\ v.dims \in Seq(Int) /\ w.dims \in Seq(Int) /\ v.strides \in Seq(Int) /\ w.strides \in Seq(Int)
  BY PartsTyped, Zenon
<1>3. /\ Len(PortHead(n, v)) = Len(PortHead(n, w)) /\ Len(DimsHead(n, v)) = Len(DimsHead(n, w))
      /\ Len(StridesHead(n, v)) = Len(StridesHead(n, w))
  BY PartsTyped, Zenon
<1>4. e \in Seq(Int) /\ f \in Seq(Int)
  BY <1>2, CatTyped, Zenon
<1>5. d \in Seq(Int) /\ g \in Seq(Int)
  BY <1>2, <1>4, CatTyped, Zenon
<1>6. c \in Seq(Int) /\ h \in Seq(Int)
  BY <1>2, <1>5, CatTyped, Zenon
<1>7. b \in Seq(Int) /\ k \in Seq(Int)
  BY <1>2, <1>6, CatTyped, Zenon
<1>8. PortHead(n, v) = PortHead(n, w) /\ b = k
  <2> HIDE DEF b, k
  <2> QED BY <1>1, <1>2, <1>3, <1>7, CatCancels
<1>9. DimsHead(n, v) = DimsHead(n, w) /\ c = h
  <2>1. Cat(DimsHead(n, v), c) = Cat(DimsHead(n, w), h)
    BY <1>8
  <2> HIDE DEF b, k, c, h
  <2> QED BY <1>2, <1>3, <1>6, <2>1, CatCancels
<1>10. Len(v.dims) = Len(w.dims)
  BY <1>9, Zenon DEF DimsHead
<1>11. v.dims = w.dims /\ d = g
  <2>1. Cat(v.dims, d) = Cat(w.dims, g)
    BY <1>9
  <2> HIDE DEF b, k, c, h, d, g
  <2> QED BY <1>2, <1>5, <1>10, <2>1, CatCancels
<1>12. StridesHead(n, v) = StridesHead(n, w) /\ e = f
  <2>1. Cat(StridesHead(n, v), e) = Cat(StridesHead(n, w), f)
    BY <1>11
  <2> HIDE DEF b, k, c, h, d, g, e, f
  <2> QED BY <1>2, <1>3, <1>4, <2>1, CatCancels
<1>13. Len(v.strides) = Len(w.strides)
  BY <1>12, Zenon DEF StridesHead
<1>14. s = t
  <2>1. Cat(v.strides, s) = Cat(w.strides, t)
    BY <1>12
  <2> HIDE DEF b, k, c, h, d, g, e, f
  <2> QED BY <1>2, <1>13, <2>1, CatCancels
<1>15. /\ v.type = w.type /\ v.layout = w.layout /\ Alignment(v) = Alignment(w)
       /\ Flag(v.memory # Null) = Flag(w.memory # Null)
  <2> HIDE DEF b, k, c, h, d, g, e, f
  <2> QED BY <1>8 DEF PortHead
<1>16. v.memory # Null <=> w.memory # Null
  BY <1>15 DEF Flag
<1> HIDE DEF b, k, c, h, d, g, e, f
<1> QED BY <1>11, <1>14, <1>15, <1>16 DEF Alike

KeyTail(p) == <<37, p.computeType, 38, Flag(InPlace(p))>>

\* The numbers of the ports from n on.
KeyFrom6(p) == PortKey(6, View(p, Ports[6]), KeyTail(p))
KeyFrom5(p) == PortKey(5, View(p, Ports[5]), KeyFrom6(p))
KeyFrom4(p) == PortKey(4, View(p, Ports[4]), KeyFrom5(p))
KeyFrom3(p) == PortKey(3, View(p, Ports[3]), KeyFrom4(p))
KeyFrom2(p) == PortKey(2, View(p, Ports[2]), KeyFrom3(p))

LEMMA KeyTyped ==
  ASSUME NEW p \in Problems
  PROVE  /\ KeyTail(p) \in Seq(Int) /\ KeyFrom6(p) \in Seq(Int) /\ KeyFrom5(p) \in Seq(Int)
         /\ KeyFrom4(p) \in Seq(Int) /\ KeyFrom3(p) \in Seq(Int) /\ KeyFrom2(p) \in Seq(Int)
<1>1. KeyTail(p) \in Seq(Int)
  <2>1. p.computeType \in Int /\ Flag(InPlace(p)) \in Int
    BY ExecutionAssumption DEF Flag
  <2> QED BY <2>1 DEF KeyTail
<1>2. \A n \in 1 .. 6 : View(p, Ports[n]) \in Views
  BY PortType
<1>3. 2 \in 1 .. 6 /\ 3 \in 1 .. 6 /\ 4 \in 1 .. 6 /\ 5 \in 1 .. 6 /\ 6 \in 1 .. 6
  OBVIOUS
<1>4. KeyFrom6(p) \in Seq(Int)
  BY <1>1, <1>2, <1>3, PortKeyTyped, Zenon DEF KeyFrom6
<1>5. KeyFrom5(p) \in Seq(Int)
  BY <1>2, <1>3, <1>4, PortKeyTyped, Zenon DEF KeyFrom5
<1>6. KeyFrom4(p) \in Seq(Int)
  BY <1>2, <1>3, <1>5, PortKeyTyped, Zenon DEF KeyFrom4
<1>7. KeyFrom3(p) \in Seq(Int)
  BY <1>2, <1>3, <1>6, PortKeyTyped, Zenon DEF KeyFrom3
<1>8. KeyFrom2(p) \in Seq(Int)
  BY <1>2, <1>3, <1>7, PortKeyTyped, Zenon DEF KeyFrom2
<1> QED BY <1>1, <1>4, <1>5, <1>6, <1>7, <1>8

LEMMA KeyUnfolds ==
  ASSUME NEW p \in Problems
  PROVE  ProblemKey(p) = PortKey(1, View(p, Ports[1]), KeyFrom2(p))
<1> DEFINE k1 == ViewKey(p, 1)
           k2 == ViewKey(p, 2)
           k3 == ViewKey(p, 3)
           k4 == ViewKey(p, 4)
           k5 == ViewKey(p, 5)
           k6 == ViewKey(p, 6)
           l == KeyTail(p)
<1>1. ProblemKey(p) = Cat(Cat(Cat(Cat(Cat(Cat(k1, k2), k3), k4), k5), k6), l)
  BY Zenon DEF ProblemKey, KeyTail, Cat
<1>2. /\ 1 \in 1 .. 6 /\ 2 \in 1 .. 6 /\ 3 \in 1 .. 6 /\ 4 \in 1 .. 6 /\ 5 \in 1 .. 6 /\ 6 \in 1 .. 6
  OBVIOUS
<1>3. l \in Seq(Int)
  BY KeyTyped
<1>4. /\ k1 \in Seq(Int) /\ k2 \in Seq(Int) /\ k3 \in Seq(Int)
      /\ k4 \in Seq(Int) /\ k5 \in Seq(Int) /\ k6 \in Seq(Int)
  BY <1>2, <1>3, ViewKeyIsPortKey, Zenon
<1>5. Cat(k6, l) = KeyFrom6(p)
  BY <1>2, <1>3, ViewKeyIsPortKey, Zenon DEF KeyFrom6
<1>6. Cat(k5, KeyFrom6(p)) = KeyFrom5(p)
  BY <1>2, KeyTyped, ViewKeyIsPortKey, Zenon DEF KeyFrom5
<1>7. Cat(k4, KeyFrom5(p)) = KeyFrom4(p)
  BY <1>2, KeyTyped, ViewKeyIsPortKey, Zenon DEF KeyFrom4
<1>8. Cat(k3, KeyFrom4(p)) = KeyFrom3(p)
  BY <1>2, KeyTyped, ViewKeyIsPortKey, Zenon DEF KeyFrom3
<1>9. Cat(k2, KeyFrom3(p)) = KeyFrom2(p)
  BY <1>2, KeyTyped, ViewKeyIsPortKey, Zenon DEF KeyFrom2
<1>10. Cat(k1, KeyFrom2(p)) = PortKey(1, View(p, Ports[1]), KeyFrom2(p))
  BY <1>2, KeyTyped, ViewKeyIsPortKey, Zenon
<1> HIDE DEF k1, k2, k3, k4, k5, k6, l
<1>11. /\ Cat(k1, k2) \in Seq(Int) /\ Cat(Cat(k1, k2), k3) \in Seq(Int)
       /\ Cat(Cat(Cat(k1, k2), k3), k4) \in Seq(Int)
       /\ Cat(Cat(Cat(Cat(k1, k2), k3), k4), k5) \in Seq(Int)
  BY <1>4, CatTyped, Zenon
<1>12. ProblemKey(p) = Cat(Cat(Cat(Cat(Cat(k1, k2), k3), k4), k5), Cat(k6, l))
  BY <1>1, <1>3, <1>4, <1>11, CatAssociates
<1>13. Cat(k6, l) \in Seq(Int)
  BY <1>3, <1>4, CatTyped, Zenon
<1>14. ProblemKey(p) = Cat(k1, Cat(k2, Cat(k3, Cat(k4, Cat(k5, Cat(k6, l))))))
  BY <1>4, <1>12, <1>13, Regroup
<1> QED BY <1>5, <1>6, <1>7, <1>8, <1>9, <1>10, <1>14, Zenon

\* Problems of one key differ in nothing isApplicable() looks at.
LEMMA KeyTells ==
  ASSUME NEW p \in Problems, NEW q \in Problems, ProblemKey(p) = ProblemKey(q)
  PROVE  p.computeType = q.computeType /\ \A n \in 1 .. 6 : Alike(View(p, Ports[n]), View(q, Ports[n]))
<1>1. /\ 1 \in 1 .. 6 /\ 2 \in 1 .. 6 /\ 3 \in 1 .. 6 /\ 4 \in 1 .. 6 /\ 5 \in 1 .. 6 /\ 6 \in 1 .. 6
  OBVIOUS
<1>2. \A n \in 1 .. 6 : View(p, Ports[n]) \in Views /\ View(q, Ports[n]) \in Views
  BY PortType
<1>3. PortKey(1, View(p, Ports[1]), KeyFrom2(p)) = PortKey(1, View(q, Ports[1]), KeyFrom2(q))
  BY KeyUnfolds, Zenon
<1>4. Alike(View(p, Ports[1]), View(q, Ports[1])) /\ KeyFrom2(p) = KeyFrom2(q)
  BY <1>1, <1>2, <1>3, KeyTyped, PortKeyTells
<1>5. Alike(View(p, Ports[2]), View(q, Ports[2])) /\ KeyFrom3(p) = KeyFrom3(q)
  BY <1>1, <1>2, <1>4, KeyTyped, PortKeyTells DEF KeyFrom2
<1>6. Alike(View(p, Ports[3]), View(q, Ports[3])) /\ KeyFrom4(p) = KeyFrom4(q)
  BY <1>1, <1>2, <1>5, KeyTyped, PortKeyTells DEF KeyFrom3
<1>7. Alike(View(p, Ports[4]), View(q, Ports[4])) /\ KeyFrom5(p) = KeyFrom5(q)
  BY <1>1, <1>2, <1>6, KeyTyped, PortKeyTells DEF KeyFrom4
<1>8. Alike(View(p, Ports[5]), View(q, Ports[5])) /\ KeyFrom6(p) = KeyFrom6(q)
  BY <1>1, <1>2, <1>7, KeyTyped, PortKeyTells DEF KeyFrom5
<1>9. Alike(View(p, Ports[6]), View(q, Ports[6])) /\ KeyTail(p) = KeyTail(q)
  BY <1>1, <1>2, <1>8, KeyTyped, PortKeyTells DEF KeyFrom6
<1>10. p.computeType = q.computeType
  BY <1>9 DEF KeyTail
<1>11. \A n \in 1 .. 6 : n = 1 \/ n = 2 \/ n = 3 \/ n = 4 \/ n = 5 \/ n = 6
  OBVIOUS
<1> QED BY <1>4, <1>5, <1>6, <1>7, <1>8, <1>9, <1>10, <1>11, Zenon

LEMMA PortsAre ==
  /\ DOMAIN Ports = 1 .. 6
  /\ Ports[1] = "a" /\ Ports[2] = "b" /\ Ports[3] = "c" /\ Ports[4] = "d"
BY DEF Ports

\* So a key found in the cache is as good as the check.
LEMMA ApplicableByKey ==
  ASSUME NEW p \in Problems, NEW q \in Problems, ProblemKey(p) = ProblemKey(q), Applicable(q)
  PROVE  Applicable(p)
<1>1. /\ Alike(View(p, "a"), View(q, "a")) /\ Alike(View(p, "b"), View(q, "b"))
      /\ Alike(View(p, "d"), View(q, "d"))
  <2>1. 1 \in 1 .. 6 /\ 2 \in 1 .. 6 /\ 4 \in 1 .. 6
    OBVIOUS
  <2> QED BY <2>1, KeyTells, PortsAre
<1>2. M(p) = M(q) /\ K(p) = K(q) /\ N(p) = N(q) /\ NumOutputs(p) = NumOutputs(q)
  BY <1>1 DEF Alike, M, K, N, NumOutputs
<1>3. p.computeType = q.computeType
  BY KeyTells
<1>4. \A n \in DOMAIN Ports :
        /\ View(p, Ports[n]).type = View(q, Ports[n]).type
        /\ View(p, Ports[n]).layout = View(q, Ports[n]).layout
        /\ Alignment(View(p, Ports[n])) = Alignment(View(q, Ports[n]))
  BY KeyTells, PortsAre DEF Alike
<1>5. /\ View(p, "a").memory # Null <=> View(q, "a").memory # Null
      /\ View(p, "b").memory # Null <=> View(q, "b").memory # Null
      /\ View(p, "d").memory # Null <=> View(q, "d").memory # Null
  BY <1>1 DEF Alike
<1> QED BY <1>2, <1>3, <1>4, <1>5 DEF Applicable

-----------------------------------------------------------------------------
(* What GemmProblem accepts. *)

LEMMA Constants ==
  /\ MaxWord \in Nat /\ ThreadsPerBlock \in Nat \ {0} /\ MaxBlocks \in Nat \ {0}
  /\ MaxElements \in Nat /\ MaxElements * 4 <= MaxWord /\ ThreadsPerBlock * 2 <= MaxWord
<1>1. MaxWord \in Nat /\ ThreadsPerBlock \in Nat \ {0} /\ MaxBlocks \in Nat \ {0}
      /\ ThreadsPerBlock <= MaxWord \div 2
  BY ExecutionAssumption
<1>2. MaxElements = MaxWord \div 4
  BY DEF MaxElements, FloatBytes
<1>3. MaxElements \in Nat
  BY <1>1, <1>2, DivMod
<1>4. MaxElements * 4 <= MaxWord
  BY <1>1, <1>2, <1>3, DivBound
<1>5. ThreadsPerBlock * 2 <= MaxWord
  BY <1>1, DivBound
<1> QED BY <1>1, <1>3, <1>4, <1>5

LEMMA ProductFits ==
  ASSUME NEW m \in Nat, NEW k \in Nat, ~(k # 0 /\ m > MaxElements \div k)
  PROVE  m * k \in 0 .. MaxElements /\ m * k * FloatBytes <= MaxWord
<1>1. m * k \in Nat
  OBVIOUS
<1>2. m * k <= MaxElements
  <2>1. CASE k = 0
    BY <2>1, Constants
  <2>2. CASE k # 0
    <3>1. MaxElements \div k \in Nat
      BY <2>2, Constants, DivMod
    <3>2. m <= MaxElements \div k
      BY <2>2, <3>1
    <3> QED BY <2>2, <3>2, Constants, DivBound
  <2> QED BY <2>1, <2>2
<1> DEFINE x == m * k
<1> HIDE DEF x
<1>3. x \in Nat /\ x <= MaxElements
  BY <1>1, <1>2 DEF x
<1>4. x * FloatBytes <= MaxWord
  BY <1>3, Constants DEF FloatBytes
<1> QED BY <1>3, <1>4 DEF x

Valid(p) == \A n \in DOMAIN Ports : ValidView(View(p, Ports[n]))

Sized(p) ==
  /\ M(p) \in Nat /\ N(p) \in Nat
  /\ M(p) * N(p) \in 0 .. MaxElements /\ NumOutputs(p) = M(p) * N(p)

Fits(p) ==
  \A x \in Matrices : View(p, x).dims[1] * View(p, x).dims[2] * FloatBytes <= MaxWord

LEMMA AcceptedFits ==
  ASSUME NEW p \in Problems, Valid(p), WellShaped(p), ~TooLarge(p)
  PROVE  Sized(p) /\ Fits(p)
<1>1. /\ View(p, "a") \in Views /\ View(p, "b") \in Views
      /\ ValidView(View(p, "a")) /\ ValidView(View(p, "b"))
  <2>1. 1 \in 1 .. 6 /\ 2 \in 1 .. 6
    OBVIOUS
  <2> QED BY <2>1, PortType, PortsAre, Zenon DEF Valid
<1>2. Len(View(p, "a").dims) = 2 /\ Len(View(p, "b").dims) = 2
  BY DEF WellShaped, Matrices
<1>3. /\ View(p, "a").dims \in Seq(Int) /\ View(p, "b").dims \in Seq(Int)
      /\ DOMAIN View(p, "a").dims = 1 .. 2 /\ DOMAIN View(p, "b").dims = 1 .. 2
  BY <1>1, <1>2, LenProperties DEF Views
<1>4. M(p) \in Nat /\ K(p) \in Nat /\ N(p) \in Nat
  <2>1. \A i \in 1 .. 2 : View(p, "a").dims[i] \in Int /\ View(p, "b").dims[i] \in Int
    BY <1>2, <1>3, ElementOfSeq
  <2>2. \A i \in 1 .. 2 : View(p, "a").dims[i] >= 0 /\ View(p, "b").dims[i] >= 0
    BY <1>1, <1>3 DEF ValidView
  <2> QED BY <2>1, <2>2 DEF M, K, N
<1>5. /\ ~(K(p) # 0 /\ M(p) > MaxElements \div K(p))
      /\ ~(N(p) # 0 /\ K(p) > MaxElements \div N(p))
      /\ ~(N(p) # 0 /\ M(p) > MaxElements \div N(p))
  BY DEF TooLarge
<1>6. M(p) * K(p) * FloatBytes <= MaxWord
  BY <1>4, <1>5, ProductFits
<1>7. K(p) * N(p) * FloatBytes <= MaxWord
  BY <1>4, <1>5, ProductFits
<1>8. M(p) * N(p) \in 0 .. MaxElements /\ M(p) * N(p) * FloatBytes <= MaxWord
  BY <1>4, <1>5, ProductFits
<1>9. /\ View(p, "a").dims[1] = M(p) /\ View(p, "a").dims[2] = K(p)
      /\ View(p, "b").dims[1] = K(p) /\ View(p, "b").dims[2] = N(p)
      /\ View(p, "c").dims[1] = M(p) /\ View(p, "c").dims[2] = N(p)
      /\ View(p, "d").dims[1] = M(p) /\ View(p, "d").dims[2] = N(p)
  BY DEF WellShaped, M, K, N
<1>10. Fits(p)
  BY <1>6, <1>7, <1>8, <1>9, Zenon DEF Fits, Matrices
<1>11. NumOutputs(p) = M(p) * N(p)
  <2> DEFINE x == M(p) * N(p)
  <2>1. x \in Nat /\ x < MaxWord + 1 /\ MaxWord + 1 \in Nat \ {0}
    <3>1. x \in 0 .. MaxElements
      BY <1>8
    <3> HIDE DEF x
    <3> QED BY <3>1, Constants
  <2> HIDE DEF x
  <2>2. x % (MaxWord + 1) = x
    BY <2>1, SmallRest
  <2> QED BY <2>2 DEF NumOutputs, Word, x
<1> QED BY <1>4, <1>8, <1>10, <1>11 DEF Sized

-----------------------------------------------------------------------------
(* The grid. *)

\* A launch has threads, no more than a grid holds, and none wraps around.
LEMMA GridFits ==
  ASSUME NEW n \in 1 .. MaxElements
  PROVE  /\ BlockCount(n) * ThreadsPerBlock \in Nat \ {0}
         /\ BlockCount(n) * ThreadsPerBlock <= ThreadsPerBlock * MaxBlocks
         /\ \A a \in 0 .. n - 1 : a + BlockCount(n) * ThreadsPerBlock < MaxWord + 1
<1> DEFINE q == (n - 1) \div ThreadsPerBlock
           b == BlockCount(n)
           t == ThreadsPerBlock
           x == q * t
           y == b * t
<1>1. t \in Nat \ {0} /\ n - 1 \in Nat /\ n \in Nat /\ n <= MaxElements
  BY Constants
<1>2. q \in Nat /\ (n - 1) % t \in Nat /\ x \in Nat /\ x + ((n - 1) % t) = n - 1
  <2>1. \A m \in Nat : /\ m \div t \in Nat /\ m % t \in Nat /\ (m \div t) * t \in Nat
                     /\ (m \div t) * t + (m % t) = m
    <3> SUFFICES ASSUME NEW m \in Nat
                 PROVE  /\ m \div t \in Nat /\ m % t \in Nat /\ (m \div t) * t \in Nat
                        /\ (m \div t) * t + (m % t) = m
      OBVIOUS
    <3>1. m % t \in 0 .. t - 1 => m % t \in Nat
      BY <1>1
    <3> QED BY <1>1, <3>1, DivMod
  <2> QED BY <1>1, <2>1, Zenon
<1>3. x <= n - 1
  <2> DEFINE r == (n - 1) % t
  <2>1. x + r = n - 1 /\ r \in Nat /\ x \in Nat
    BY <1>2
  <2> HIDE DEF r, x
  <2> QED BY <2>1, <1>1
<1>4. b \in Nat \ {0} /\ b <= q + 1 /\ b <= MaxBlocks
  <2>1. b = IF q + 1 < MaxBlocks THEN q + 1 ELSE MaxBlocks
    BY DEF BlockCount
  <2> HIDE DEF b, q
  <2> QED BY <1>2, <2>1, Constants
<1> HIDE DEF b, q, t
<1>5. y \in Nat /\ y <= (q + 1) * t
  BY <1>1, <1>2, <1>4, TimesMono
<1>6. (q + 1) * t = x + t
  BY <1>1, <1>2
<1>7. y <= MaxBlocks * t
  BY <1>1, <1>4, Constants, TimesMono
<1>8. 1 * t <= y
  BY <1>1, <1>4, TimesMono
<1>9. MaxBlocks * t = t * MaxBlocks
  BY <1>1, Constants
<1>10. y \in Nat /\ y >= t /\ y <= x + t
  BY <1>1, <1>5, <1>6, <1>8
<1> HIDE DEF x, y
<1>11. y \in Nat \ {0}
  BY <1>1, <1>10
<1>12. t * 2 <= MaxWord
  BY Constants DEF t
<1>13. \A a \in 0 .. n - 1 : a + y < MaxWord + 1
  BY <1>1, <1>3, <1>10, <1>12, <1>2, Constants
<1> QED BY <1>7, <1>9, <1>11, <1>13 DEF y, b, t

\* Each thread of the launch walks the indices of its rest ...
Spread(T, pos) ==
  \A t \in Threads : IF t < T THEN pos[t] \in Nat /\ pos[t] % T = t ELSE pos[t] = NoThread

\* ... and behind it the outputs are written.
Written(n, T, pos, out) ==
  \A i \in Cells : out[i] = IF i < n /\ i < pos[i % T] THEN "new" ELSE "old"

LEMMA RestIsThread ==
  ASSUME NEW T \in Nat \ {0}, T <= ThreadsPerBlock * MaxBlocks, NEW i \in Nat
  PROVE  i % T \in Threads /\ i % T < T /\ i % T \in Nat
<1>1. i % T \in 0 .. T - 1
  BY DivMod
<1>2. ThreadsPerBlock * MaxBlocks \in Nat
  BY Constants
<1> DEFINE r == i % T
           s == ThreadsPerBlock * MaxBlocks
<1>3. r \in 0 .. T - 1 /\ s \in Nat /\ T <= s /\ Threads = 0 .. s - 1
  BY <1>1, <1>2 DEF Threads
<1> HIDE DEF r, s
<1>4. r \in Threads /\ r < T /\ r \in Nat
  BY <1>3
<1> QED BY <1>4 DEF r

LEMMA CellsAre == Cells \subseteq Nat /\ \A n \in 0 .. MaxElements : 0 .. n - 1 \subseteq Cells
BY Constants DEF Cells

\* What a working thread has ahead is old: only it comes here.
LEMMA AheadIsOld ==
  ASSUME NEW T \in Nat \ {0}, T <= ThreadsPerBlock * MaxBlocks, NEW n \in 0 .. MaxElements,
         NEW pos, NEW out, Spread(T, pos), Written(n, T, pos, out),
         NEW t \in Threads, pos[t] \in 0 .. n - 1
  PROVE  t < T /\ pos[t] % T = t /\ pos[t] \in Cells /\ out[pos[t]] = "old"
<1>1. pos[t] \in Nat /\ pos[t] # NoThread
  BY DEF NoThread
<1>2. t < T /\ pos[t] % T = t
  BY <1>1 DEF Spread
<1>3. pos[t] \in Cells
  BY CellsAre
<1>4. ~(pos[t] < pos[pos[t] % T])
  BY <1>1, <1>2
<1>5. out[pos[t]] = "old"
  BY <1>3, <1>4 DEF Written
<1> QED BY <1>2, <1>3, <1>5

LEMMA StoreKeeps ==
  ASSUME NEW T \in Nat \ {0}, T <= ThreadsPerBlock * MaxBlocks, NEW n \in 0 .. MaxElements,
         NEW pos, DOMAIN pos = Threads, NEW out, DOMAIN out = Cells,
         Spread(T, pos), Written(n, T, pos, out),
         NEW t \in Threads, pos[t] \in 0 .. n - 1
  PROVE  /\ Spread(T, [pos EXCEPT ![t] = pos[t] + T])
         /\ Written(n, T, [pos EXCEPT ![t] = pos[t] + T], [out EXCEPT ![pos[t]] = "new"])
<1> DEFINE p == pos[t]
           q == p + T
           new == [pos EXCEPT ![t] = q]
           done == [out EXCEPT ![p] = "new"]
<1>1. t < T /\ p % T = t /\ p \in Cells
  BY AheadIsOld
<1>2. p \in Nat /\ p < n
  OBVIOUS
<1>3. q \in Nat /\ p < q
  <2> HIDE DEF p
  <2> QED BY <1>2
<1>4. q % T = t
  BY <1>1, <1>2, NextRest
<1>5. new[t] = q /\ \A s \in Threads : s # t => new[s] = pos[s]
  OBVIOUS
<1>6. done[p] = "new" /\ \A i \in Cells : i # p => done[i] = out[i]
  BY <1>1
<1>7. Spread(T, new)
  <2> SUFFICES ASSUME NEW s \in Threads
               PROVE  IF s < T THEN new[s] \in Nat /\ new[s] % T = s ELSE new[s] = NoThread
    BY DEF Spread
  <2>1. CASE s = t
    <3> HIDE DEF new, q
    <3> QED BY <1>1, <1>3, <1>4, <1>5, <2>1
  <2>2. CASE s # t
    <3>1. new[s] = pos[s]
      BY <1>5, <2>2
    <3> HIDE DEF new
    <3> QED BY <3>1 DEF Spread
  <2> QED BY <2>1, <2>2
<1>8. Written(n, T, new, done)
  <2> SUFFICES ASSUME NEW i \in Cells
               PROVE  done[i] = IF i < n /\ i < new[i % T] THEN "new" ELSE "old"
    BY DEF Written
  <2>1. i \in Nat
    BY CellsAre
  <2>2. i % T \in Threads /\ i % T < T
    BY <2>1, RestIsThread
  <2>3. out[i] = IF i < n /\ i < pos[i % T] THEN "new" ELSE "old"
    BY DEF Written
  <2> HIDE DEF new, done, q, p
  <2>4. CASE i = p
    BY <1>1, <1>2, <1>3, <1>5, <1>6, <2>4
  <2>5. CASE i # p /\ i % T # t
    BY <1>5, <1>6, <2>2, <2>3, <2>5
  <2>6. CASE i # p /\ i % T = t
    <3>1. i < q <=> i < p
      <4> SUFFICES ASSUME i < q, ~(i < p) PROVE FALSE
        BY <1>2, <1>3, <2>1
      <4>1. p <= i /\ i < p + T /\ p % T = i % T
        BY <1>1, <1>2, <2>1, <2>6 DEF q
      <4> QED BY <1>2, <2>1, <2>6, <4>1, SameRest
    <3>2. done[i] = out[i] /\ new[i % T] = q /\ pos[i % T] = p
      BY <1>5, <1>6, <2>6 DEF p
    <3> QED BY <2>3, <3>1, <3>2
  <2> QED BY <2>4, <2>5, <2>6
<1> QED BY <1>7, <1>8

-----------------------------------------------------------------------------
(* What a call knows at each step, and the grid between two. *)

CallInv ==
  /\ problem \in Problems
  /\ pc \in {"bind", "check", "select", "execute", "run", "done"}
  /\ pc \in {"check", "select", "execute", "run"} => Valid(problem)
  /\ pc \in {"select", "execute", "run"} => WellShaped(problem) /\ ~TooLarge(problem)
  /\ pc \in {"execute", "run"} => Applicable(problem)
  /\ pc = "run" => NumOutputs(problem) # 0

CachedInv == \A k \in cached : \E q \in Problems : k = ProblemKey(q) /\ Applicable(q)

Untouched == [i \in Cells |-> "old"]

GridInv ==
  /\ DOMAIN position = Threads /\ DOMAIN output = Cells
  /\ DOMAIN loaded = Threads
  /\ \A t \in Threads : loaded[t] = "none" \/ (loaded[t] = "old" /\ Working(t))
  /\ pc \in {"bind", "check", "select", "execute"} => output = Untouched
  /\ pc = "run" => /\ Spread(ThreadCount, position)
                   /\ Written(NumOutputs(problem), ThreadCount, position, output)

ExecutionInv == CallInv /\ CachedInv /\ GridInv /\ OutputsExact

LEMMA InitHolds == Init => ExecutionInv
<1> SUFFICES ASSUME Init PROVE ExecutionInv
  OBVIOUS
<1>1. CallInv
  BY DEF Init, CallInv
<1>2. CachedInv
  BY DEF Init, CachedInv
<1>3. GridInv
  BY DEF Init, GridInv, Untouched
<1>4. OutputsExact
  BY DEF Init, OutputsExact
<1> QED BY <1>1, <1>2, <1>3, <1>4 DEF ExecutionInv

\* Of the launch a kernel runs in.
LEMMA RunningFits ==
  ASSUME CallInv, pc \in {"execute", "run"}, NumOutputs(problem) # 0
  PROVE  /\ NumOutputs(problem) \in 1 .. MaxElements
         /\ NumOutputs(problem) = M(problem) * N(problem)
         /\ ThreadCount \in Nat \ {0} /\ ThreadCount <= ThreadsPerBlock * MaxBlocks
         /\ \A a \in 0 .. NumOutputs(problem) - 1 : a + ThreadCount < MaxWord + 1
<1>1. Sized(problem)
  BY AcceptedFits DEF CallInv
<1>2. NumOutputs(problem) \in 0 .. MaxElements /\ NumOutputs(problem) = M(problem) * N(problem)
  BY <1>1, Zenon DEF Sized
<1> DEFINE n == NumOutputs(problem)
<1>3. n \in 1 .. MaxElements
  <2>1. n \in 0 .. MaxElements /\ n # 0
    BY <1>2
  <2> HIDE DEF n
  <2> QED BY <2>1, Constants
<1> QED BY <1>2, <1>3, GridFits, Zenon DEF ThreadCount

LEMMA Quiet ==
  ASSUME GridInv, pc # "run"
  PROVE  \A t \in Threads : loaded[t] = "none"
BY DEF GridInv, Working

LEMMA StepKeepsCall ==
  ASSUME CallInv, CachedInv, GridInv, [Next]_vars
  PROVE  CallInv'
<1>1. CASE Bind
  BY <1>1 DEF CallInv, Bind, End, Goto, Valid
<1>2. CASE Check
  BY <1>2 DEF CallInv, Check, End, Goto, Valid
<1>3. CASE Select
  <2>1. ProblemKey(problem) \in cached => Applicable(problem)
    BY ApplicableByKey DEF CallInv, CachedInv
  <2>2. UNCHANGED problem /\ pc = "select" /\ (pc' = "done" \/ (pc' = "execute" /\ Applicable(problem)))
    BY <1>3, <2>1 DEF Select, End, Goto
  <2> QED BY <2>2 DEF CallInv
<1>4. CASE Execute
  <2>1. UNCHANGED problem /\ pc = "execute"
        /\ (pc' = "done" \/ (pc' = "run" /\ NumOutputs(problem) # 0))
    BY <1>4 DEF Execute, End, Goto
  <2> QED BY <2>1 DEF CallInv
<1>5. CASE \E t \in Threads : Load(t) \/ Store(t)
  <2>1. UNCHANGED <<problem, pc>>
    BY <1>5 DEF Load, Store
  <2> QED BY <2>1 DEF CallInv
<1>6. CASE Complete
  BY <1>6 DEF CallInv, Complete, End
<1>7. CASE NextCall
  BY <1>7 DEF CallInv, NextCall
<1>8. CASE UNCHANGED vars
  BY <1>8 DEF CallInv, vars
<1> QED BY <1>1, <1>2, <1>3, <1>4, <1>5, <1>6, <1>7, <1>8 DEF Next

LEMMA StepKeepsCached ==
  ASSUME CallInv, CachedInv, [Next]_vars
  PROVE  CachedInv'
<1>1. CASE Select
  <2>1. \A k \in cached' : k \in cached \/ (k = ProblemKey(problem) /\ Applicable(problem))
    BY <1>1 DEF Select
  <2> QED BY <2>1 DEF CallInv, CachedInv
<1>2. CASE UNCHANGED cached
  BY <1>2 DEF CachedInv
<1>3. CASE ~Select
  <2>1. UNCHANGED cached
    BY <1>3 DEF Next, vars, Bind, Check, Execute, Load, Store, Complete, NextCall
  <2> QED BY <1>2, <2>1
<1> QED BY <1>1, <1>3

LEMMA LaunchKeepsGrid ==
  ASSUME CallInv, GridInv, Execute
  PROVE  GridInv' /\ OutputsExact'
<1>1. /\ UNCHANGED <<problem, loaded, output>> /\ pc = "execute" /\ output = Untouched
      /\ \A t \in Threads : loaded[t] = "none"
  BY Quiet DEF Execute, GridInv
<1>2. CASE pc' = "done" /\ UNCHANGED position /\ (status' = "SUCCESS" => NumOutputs(problem) = 0)
  <2>1. GridInv'
    BY <1>1, <1>2 DEF GridInv, Working
  <2>2. OutputsExact'
    <3> SUFFICES ASSUME status' = "SUCCESS", NEW i \in Cells
                 PROVE  output[i] = IF i < M(problem) * N(problem) THEN "new" ELSE "old"
      BY <1>1, <1>2 DEF OutputsExact
    <3>1. Sized(problem)
      BY <1>1, AcceptedFits DEF CallInv
    <3>2. M(problem) * N(problem) = 0
      BY <1>2, <3>1 DEF Sized
    <3>3. i \in Nat
      BY CellsAre
    <3>4. ~(i < 0)
      BY <3>3
    <3>5. output[i] = "old"
      BY <1>1 DEF Untouched
    <3> QED BY <3>2, <3>4, <3>5
  <2> QED BY <2>1, <2>2
<1>3. CASE /\ pc' = "run" /\ NumOutputs(problem) # 0
           /\ position' = [t \in Threads |-> IF t < ThreadCount THEN t ELSE NoThread]
  <2> DEFINE T == ThreadCount
             n == NumOutputs(problem)
  <2>1. T \in Nat \ {0} /\ T <= ThreadsPerBlock * MaxBlocks /\ n \in 1 .. MaxElements
    BY <1>1, <1>3, RunningFits
  <2>2. T' = T /\ n' = n
    BY <1>1 DEF ThreadCount
  <2>3. Threads \subseteq Nat
    BY Constants DEF Threads
  <2>4. position' = [t \in Threads |-> IF t < T THEN t ELSE NoThread]
    BY <1>3
  <2> HIDE DEF T, n
  <2>5. Spread(T, position')
    <3> SUFFICES ASSUME NEW t \in Threads
                 PROVE  IF t < T THEN position'[t] \in Nat /\ position'[t] % T = t
                                 ELSE position'[t] = NoThread
      BY DEF Spread
    <3>1. CASE t < T
      <4>1. t \in Nat /\ t % T = t /\ position'[t] = t
        BY <2>1, <2>3, <2>4, <3>1, SmallRest
      <4> QED BY <3>1, <4>1
    <3>2. CASE ~(t < T)
      BY <2>4, <3>2
    <3> QED BY <3>1, <3>2
  <2>6. Written(n, T, position', output')
    <3> SUFFICES ASSUME NEW i \in Cells
                 PROVE  output'[i] = IF i < n /\ i < position'[i % T] THEN "new" ELSE "old"
      BY DEF Written
    <3>1. i \in Nat
      BY CellsAre
    <3>2. i % T \in Threads /\ i % T < T /\ i % T \in Nat
      BY <2>1, <3>1, RestIsThread
    <3>3. position'[i % T] = i % T
      BY <2>4, <3>2
    <3>4. ~(i < i % T)
      <4>1. PICK q, x, r \in Nat : x = q * T /\ r = i % T /\ r < T /\ i = x + r
        BY <2>1, <3>1, Divided
      <4>2. ~(i < r)
        BY <4>1
      <4> QED BY <4>1, <4>2
    <3>5. output'[i] = "old"
      BY <1>1 DEF Untouched
    <3> QED BY <3>3, <3>4, <3>5
  <2>7. DOMAIN position' = Threads /\ DOMAIN output' = Cells /\ DOMAIN loaded' = Threads
    BY <1>1, <2>4 DEF GridInv
  <2>8. Spread(ThreadCount', position') /\ Written(NumOutputs(problem)', ThreadCount', position', output')
    BY <2>2, <2>5, <2>6 DEF T, n
  <2>9. GridInv'
    BY <1>1, <1>3, <2>7, <2>8 DEF GridInv
  <2>10. OutputsExact'
    BY <1>3 DEF OutputsExact
  <2> QED BY <2>9, <2>10
<1> QED BY <1>2, <1>3 DEF Execute, End, Goto

LEMMA LoadKeepsGrid ==
  ASSUME CallInv, GridInv, NEW t \in Threads, Load(t)
  PROVE  GridInv' /\ OutputsExact'
<1>1. /\ UNCHANGED <<problem, pc, status, position, output>> /\ pc = "run"
      /\ position[t] \in 0 .. NumOutputs(problem) - 1
      /\ loaded' = [loaded EXCEPT ![t] = IF InPlace(problem) THEN output[position[t]] ELSE "old"]
  BY DEF Load, Working
<1>2. /\ NumOutputs(problem) \in 0 .. MaxElements
      /\ ThreadCount \in Nat \ {0} /\ ThreadCount <= ThreadsPerBlock * MaxBlocks
  <2>1. NumOutputs(problem) # 0
    BY <1>1 DEF CallInv
  <2> QED BY <1>1, <2>1, RunningFits
<1>3. output[position[t]] = "old"
  BY <1>1, <1>2, AheadIsOld DEF GridInv
<1>4. loaded' = [loaded EXCEPT ![t] = "old"]
  BY <1>1, <1>3
<1>5. \A s \in Threads : Working(s)' <=> Working(s)
  BY <1>1 DEF Working
<1>6. \A s \in Threads : loaded'[s] = "none" \/ (loaded'[s] = "old" /\ Working(s)')
  <2> SUFFICES ASSUME NEW s \in Threads
               PROVE  loaded'[s] = "none" \/ (loaded'[s] = "old" /\ Working(s)')
    OBVIOUS
  <2>1. CASE s = t
    BY <1>4, <1>5, <2>1 DEF GridInv, Load
  <2>2. CASE s # t
    BY <1>4, <1>5, <2>2 DEF GridInv
  <2> QED BY <2>1, <2>2
<1>7. ThreadCount' = ThreadCount /\ NumOutputs(problem)' = NumOutputs(problem)
  BY <1>1 DEF ThreadCount
<1>8. GridInv'
  BY <1>1, <1>4, <1>6, <1>7 DEF GridInv
<1>9. OutputsExact'
  BY <1>1 DEF OutputsExact
<1> QED BY <1>8, <1>9

LEMMA StoreKeepsGrid ==
  ASSUME CallInv, GridInv, NEW t \in Threads, Store(t)
  PROVE  GridInv' /\ OutputsExact'
<1> DEFINE T == ThreadCount
           n == NumOutputs(problem)
<1>1. /\ UNCHANGED <<problem, pc, status>> /\ pc = "run"
      /\ position[t] \in 0 .. n - 1 /\ loaded[t] # "none"
      /\ output' = [output EXCEPT ![position[t]] = IF loaded[t] = "old" THEN "new" ELSE "wrong"]
      /\ loaded' = [loaded EXCEPT ![t] = "none"]
      /\ position' = [position EXCEPT ![t] = Word(position[t] + T)]
  BY DEF Store, Working
<1>2. n \in 0 .. MaxElements /\ T \in Nat \ {0} /\ T <= ThreadsPerBlock * MaxBlocks
      /\ \A a \in 0 .. n - 1 : a + T < MaxWord + 1
  <2>1. n # 0
    BY <1>1 DEF CallInv
  <2> QED BY <1>1, <2>1, RunningFits
<1>3. T' = T /\ n' = n
  BY <1>1 DEF ThreadCount
<1>4. Spread(T, position) /\ Written(n, T, position, output)
  BY <1>1 DEF GridInv
<1>5. DOMAIN position = Threads /\ DOMAIN output = Cells /\ DOMAIN loaded = Threads
  BY DEF GridInv
<1>6. loaded[t] = "old"
  BY <1>1 DEF GridInv
<1> HIDE DEF T, n
<1>7. Word(position[t] + T) = position[t] + T
  <2>1. position[t] + T < MaxWord + 1 /\ position[t] + T \in Nat /\ MaxWord + 1 \in Nat \ {0}
    BY <1>1, <1>2, Constants
  <2> QED BY <2>1, SmallRest DEF Word
<1>8. /\ output' = [output EXCEPT ![position[t]] = "new"]
      /\ position' = [position EXCEPT ![t] = position[t] + T]
  BY <1>1, <1>6, <1>7
<1>9. Spread(T, position') /\ Written(n, T, position', output')
  <2>1. position[t] \in 0 .. n - 1
    BY <1>1
  <2>2. /\ Spread(T, [position EXCEPT ![t] = position[t] + T])
        /\ Written(n, T, [position EXCEPT ![t] = position[t] + T], [output EXCEPT ![position[t]] = "new"])
    BY <1>2, <1>4, <1>5, <2>1, StoreKeeps
  <2> QED BY <1>8, <2>2, Zenon
<1>10. DOMAIN position' = Threads /\ DOMAIN output' = Cells /\ DOMAIN loaded' = Threads
  BY <1>1, <1>5
<1>11. \A s \in Threads : loaded'[s] = "none" \/ (loaded'[s] = "old" /\ Working(s)')
  <2> SUFFICES ASSUME NEW s \in Threads
               PROVE  loaded'[s] = "none" \/ (loaded'[s] = "old" /\ Working(s)')
    OBVIOUS
  <2>1. CASE s = t
    BY <1>1, <1>5, <2>1
  <2>2. CASE s # t
    <3>1. loaded'[s] = loaded[s] /\ position'[s] = position[s]
      BY <1>1, <2>2
    <3>2. Working(s) => Working(s)'
      BY <1>1, <3>1 DEF Working
    <3> QED BY <3>1, <3>2 DEF GridInv
  <2> QED BY <2>1, <2>2
<1>12. Spread(ThreadCount', position') /\ Written(NumOutputs(problem)', ThreadCount', position', output')
  BY <1>3, <1>9 DEF T, n
<1>13. pc' = "run"
  BY <1>1
<1>14. GridInv'
  BY <1>10, <1>11, <1>12, <1>13 DEF GridInv
<1>15. OutputsExact'
  BY <1>13 DEF OutputsExact
<1> QED BY <1>14, <1>15

\* When no thread works any more, each has passed the last output.
LEMMA CompleteKeepsGrid ==
  ASSUME CallInv, GridInv, Complete
  PROVE  GridInv' /\ OutputsExact'
<1> DEFINE T == ThreadCount
           n == NumOutputs(problem)
<1>1. /\ UNCHANGED <<problem, position, loaded, output>> /\ pc = "run" /\ pc' = "done"
      /\ \A t \in Threads : position[t] \notin 0 .. n - 1
  BY DEF Complete, End, grid, Working
<1>2. \A t \in Threads : loaded[t] = "none"
  BY DEF GridInv, Complete
<1>3. GridInv'
  BY <1>1, <1>2 DEF GridInv
<1>4. n \in 0 .. MaxElements /\ n = M(problem) * N(problem)
      /\ T \in Nat \ {0} /\ T <= ThreadsPerBlock * MaxBlocks
  <2>1. n # 0
    BY <1>1 DEF CallInv
  <2> QED BY <1>1, <2>1, RunningFits
<1>5. Spread(T, position) /\ Written(n, T, position, output)
  BY <1>1 DEF GridInv
<1> HIDE DEF T, n
<1>6. ASSUME NEW i \in Cells
      PROVE  output[i] = IF i < n THEN "new" ELSE "old"
  <2>1. i \in Nat
    BY CellsAre
  <2>2. i % T \in Threads /\ i % T < T
    BY <1>4, <2>1, RestIsThread
  <2>3. position[i % T] \in Nat
    BY <1>5, <2>2 DEF Spread
  <2>4. ~(position[i % T] < n)
    BY <1>1, <1>4, <2>2, <2>3
  <2>5. i < n => i < position[i % T]
    BY <1>4, <2>1, <2>3, <2>4
  <2> QED BY <1>5, <2>5 DEF Written
<1>7. OutputsExact'
  BY <1>1, <1>4, <1>6 DEF OutputsExact
<1> QED BY <1>3, <1>7

LEMMA StepKeepsGrid ==
  ASSUME CallInv, GridInv, OutputsExact, [Next]_vars
  PROVE  GridInv' /\ OutputsExact'
<1>1. CASE Bind \/ Check \/ Select
  <2>1. /\ UNCHANGED <<problem, position, loaded, output>> /\ pc \in {"bind", "check", "select"}
        /\ (pc' \in {"check", "select", "execute"} \/ (pc' = "done" /\ status' # "SUCCESS"))
    BY <1>1 DEF Bind, Check, Select, End, Goto, grid
  <2>2. GridInv'
    BY <2>1, Quiet DEF GridInv
  <2>3. OutputsExact'
    BY <2>1 DEF OutputsExact
  <2> QED BY <2>2, <2>3
<1>2. CASE Execute
  BY <1>2, LaunchKeepsGrid
<1>3. CASE \E t \in Threads : Load(t) \/ Store(t)
  BY <1>3, LoadKeepsGrid, StoreKeepsGrid
<1>4. CASE Complete
  BY <1>4, CompleteKeepsGrid
<1>5. CASE NextCall
  <2>1. /\ pc = "done" /\ pc' = "bind" /\ UNCHANGED loaded
        /\ position' = [t \in Threads |-> NoThread] /\ output' = Untouched
    BY <1>5 DEF NextCall, Untouched
  <2>2. GridInv'
    BY <2>1, Quiet DEF GridInv, Untouched
  <2>3. OutputsExact'
    BY <2>1 DEF OutputsExact
  <2> QED BY <2>2, <2>3
<1>6. CASE UNCHANGED vars
  <2>1. UNCHANGED <<problem, pc, status, position, loaded, output>>
    BY <1>6 DEF vars
  <2>2. GridInv'
    BY <2>1 DEF GridInv, Working, ThreadCount
  <2>3. OutputsExact'
    BY <2>1 DEF OutputsExact
  <2> QED BY <2>2, <2>3
<1> QED BY <1>1, <1>2, <1>3, <1>4, <1>5, <1>6 DEF Next

LEMMA InvariantHolds == Spec => []ExecutionInv
<1>1. ExecutionInv /\ [Next]_vars => ExecutionInv'
  BY StepKeepsCall, StepKeepsCached, StepKeepsGrid DEF ExecutionInv
<1> QED BY InitHolds, <1>1, PTL DEF Spec

-----------------------------------------------------------------------------
\* A kernel is launched on what it can compute, also on a cached selection's word.
THEOREM KernelAlwaysReadsMemory == Spec => []KernelReadsMemory
<1>1. ExecutionInv => KernelReadsMemory
  <2> SUFFICES ASSUME ExecutionInv, pc = "run" PROVE KernelReadsMemory
    BY DEF KernelReadsMemory
  <2>1. Applicable(problem) /\ NumOutputs(problem) # 0
    BY DEF ExecutionInv, CallInv
  <2>2. K(problem) > 0 => K(problem) # 0
    OBVIOUS
  <2> QED BY <2>1, <2>2 DEF KernelReadsMemory, Applicable, Alignment
<1> QED BY InvariantHolds, <1>1, PTL

\* The bytes of every matrix of an accepted problem fit in a word (problem.cpp:48-49).
THEOREM SizesAlwaysFit == Spec => []SizesFit
<1>1. ExecutionInv => SizesFit
  <2> SUFFICES ASSUME ExecutionInv, pc \in {"select", "execute", "run"} PROVE Fits(problem)
    BY DEF SizesFit, Fits
  <2> QED BY AcceptedFits DEF ExecutionInv, CallInv
<1> QED BY InvariantHolds, <1>1, PTL

\* However the threads of the grid interleave, each output is computed once, from c's own element.
THEOREM OutputsAlwaysExact == Spec => []OutputsExact
<1>1. ExecutionInv => OutputsExact
  BY DEF ExecutionInv
<1> QED BY InvariantHolds, <1>1, PTL
==============================================================================
