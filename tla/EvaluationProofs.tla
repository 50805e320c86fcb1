--------------------------- MODULE EvaluationProofs ---------------------------
(***************************************************************************)
(* Lemmas about the evaluation of operators (Evaluation), for integer      *)
(* types of every width: it agrees with C (CRules).  They rest on          *)
(* induction over the natural numbers, which is stated for sets, because   *)
(* the provers do not instantiate a theorem whose parameter is an          *)
(* operator.                                                               *)
(***************************************************************************)
EXTENDS CRules, WellFoundedInduction, TLAPS

-----------------------------------------------------------------------------
(* Induction *)

(* A set of natural numbers that is not empty has a least one. *)
LEMMA LeastNatural ==
  ASSUME NEW T \in SUBSET Nat, T # {}
  PROVE  \E x \in T : \A y \in T : x <= y
<1>. DEFINE R == OpToRel(<, Nat)
<1>1. PICK x \in T : \A y \in T : <<y, x>> \notin R
  <2>1. IsWellFoundedOn(R, Nat)
    BY NatLessThanWellFounded
  <2>. HIDE DEF R
  <2>. QED BY <2>1, WFMin
<1>2. \A y \in T : y < x => <<y, x>> \in R
  BY DEF OpToRel
<1>. HIDE DEF R
<1>3. \A y \in T : ~(y < x)
  BY <1>1, <1>2
<1>. QED BY <1>3

(* A set that holds zero and what follows its elements holds every natural *)
(* number.                                                                 *)
LEMMA NaturalInduction ==
  ASSUME NEW T \in SUBSET Nat, 0 \in T, \A n \in T : n + 1 \in T
  PROVE  T = Nat
<1>. SUFFICES ASSUME Nat \ T # {} PROVE FALSE OBVIOUS
<1>1. PICK x \in Nat \ T : \A y \in Nat \ T : x <= y
  BY LeastNatural
<1>2. x # 0 /\ x - 1 \in Nat /\ x - 1 \notin Nat \ T
  BY <1>1
<1>. QED BY <1>2

(* A function on the natural numbers can be defined by its value at zero   *)
(* and a step, which is a function itself.                                 *)
Iterates(f, start, step) == f[0] = start /\ \A n \in Nat : f[n + 1] = step[n][f[n]]

LEMMA Iteration ==
  ASSUME NEW S, NEW start \in S, NEW step \in [Nat -> [S -> S]]
  PROVE  \E f \in [Nat -> S] : Iterates(f, start, step)
<1>. DEFINE Upto(g, k) == /\ g \in [0..k -> S]
                          /\ g[0] = start
                          /\ \A i \in 0..(k - 1) : g[i + 1] = step[i][g[i]]
<1>1. \A k \in Nat : \E g : Upto(g, k)
  <2>. DEFINE T == {k \in Nat : \E g : Upto(g, k)}
  <2>1. 0 \in T
    <3>1. Upto([i \in 0..0 |-> start], 0)
      OBVIOUS
    <3>. QED BY <3>1
  <2>2. ASSUME NEW k \in T PROVE k + 1 \in T
    <3>1. PICK g : Upto(g, k) OBVIOUS
    <3>. DEFINE h == [i \in 0..(k + 1) |-> IF i = k + 1 THEN step[k][g[k]] ELSE g[i]]
    <3>2. h \in [0..(k + 1) -> S] /\ h[0] = start
      BY <3>1
    <3>3. ASSUME NEW i \in 0..k PROVE h[i + 1] = step[i][h[i]]
      <4>1. CASE i = k BY <4>1, <3>1
      <4>2. CASE i # k BY <4>2, <3>1
      <4>. QED BY <4>1, <4>2
    <3>. HIDE DEF h
    <3>4. Upto(h, k + 1)
      <4>1. 0..((k + 1) - 1) = 0..k OBVIOUS
      <4>. QED BY <3>2, <3>3, <4>1
    <3>5. k + 1 \in Nat OBVIOUS
    <3>. HIDE DEF Upto
    <3>. QED BY <3>4, <3>5
  <2>. HIDE DEF T
  <2>3. T = Nat BY <2>1, <2>2, NaturalInduction DEF T
  <2>. QED BY <2>3 DEF T
<1>2. \A k \in Nat : \A a, b \in Nat : \A g, h :
        Upto(g, a) /\ Upto(h, b) /\ k <= a /\ k <= b => g[k] = h[k]
  <2>. DEFINE T == {k \in Nat : \A a, b \in Nat : \A g, h :
                      Upto(g, a) /\ Upto(h, b) /\ k <= a /\ k <= b => g[k] = h[k]}
  <2>1. 0 \in T OBVIOUS
  <2>2. ASSUME NEW k \in T PROVE k + 1 \in T
    <3>. HIDE DEF Upto
    <3>. SUFFICES ASSUME NEW a \in Nat, NEW b \in Nat, NEW g, NEW h,
                         Upto(g, a), Upto(h, b), k + 1 <= a, k + 1 <= b
                  PROVE  g[k + 1] = h[k + 1]
      OBVIOUS
    <3>1. g[k] = h[k]
      <4>1. k <= a /\ k <= b OBVIOUS
      <4>. QED BY <4>1
    <3>2. k \in 0..(a - 1) /\ k \in 0..(b - 1)
      OBVIOUS
    <3>. QED BY <3>1, <3>2 DEF Upto
  <2>. HIDE DEF T
  <2>3. T = Nat BY <2>1, <2>2, NaturalInduction DEF T
  <2>. HIDE DEF Upto
  <2>. QED BY <2>3 DEF T
<1>. DEFINE G(k) == CHOOSE g : Upto(g, k)
            f == [n \in Nat |-> G(n)[n]]
<1>. HIDE DEF Upto
<1>3. \A k \in Nat : Upto(G(k), k)
  BY <1>1
<1>. HIDE DEF G
<1>4. \A n \in Nat : f[n] = G(n)[n] OBVIOUS
<1>5. f \in [Nat -> S]
  BY <1>3 DEF Upto
<1>6. f[0] = start
  BY <1>3 DEF Upto
<1>7. ASSUME NEW n \in Nat PROVE f[n + 1] = step[n][f[n]]
  <2>1. G(n + 1)[n + 1] = step[n][G(n + 1)[n]]
    BY <1>3 DEF Upto
  <2>2. G(n + 1)[n] = G(n)[n]
    BY <1>2, <1>3
  <2>. QED BY <2>1, <2>2
<1>. QED BY <1>5, <1>6, <1>7 DEF Iterates

-----------------------------------------------------------------------------
(* Powers of two *)

(* The equation of the recursive definition. *)
LEMMA TwoToEquation ==
  /\ TwoTo = [n \in Nat |-> IF n = 0 THEN 1 ELSE 2 * TwoTo[n - 1]]
  /\ TwoTo \in [Nat -> Nat]
<1>. DEFINE step == [n \in Nat |-> [s \in Nat |-> 2 * s]]
<1>1. step \in [Nat -> [Nat -> Nat]]
  OBVIOUS
<1>. HIDE DEF step
<1>2. PICK f \in [Nat -> Nat] : Iterates(f, 1, step)
  BY <1>1, Iteration
<1>3. \A n \in Nat : f[n + 1] = 2 * f[n]
  BY <1>2 DEF step, Iterates
<1>4. f = [n \in Nat |-> IF n = 0 THEN 1 ELSE 2 * f[n - 1]]
  <2>1. ASSUME NEW n \in Nat PROVE f[n] = IF n = 0 THEN 1 ELSE 2 * f[n - 1]
    <3>1. CASE n = 0 BY <3>1, <1>2 DEF Iterates
    <3>2. CASE n # 0
      <4>1. n - 1 \in Nat /\ (n - 1) + 1 = n BY <3>2
      <4>. QED BY <4>1, <3>2, <1>3
    <3>. QED BY <3>1, <3>2
  <2>. QED BY <2>1, Zenon
<1>5. TwoTo = [n \in Nat |-> IF n = 0 THEN 1 ELSE 2 * TwoTo[n - 1]]
  BY <1>4, Zenon DEF TwoTo
<1>6. TwoTo \in [Nat -> Nat]
  <2>. DEFINE T == {n \in Nat : TwoTo[n] \in Nat}
  <2>1. 0 \in T BY <1>5
  <2>2. ASSUME NEW n \in T PROVE n + 1 \in T
    <3>1. TwoTo[n + 1] = 2 * TwoTo[n]
      BY <1>5
    <3>. QED BY <3>1
  <2>. HIDE DEF T
  <2>3. T = Nat BY <2>1, <2>2, NaturalInduction DEF T
  <2>4. \A n \in Nat : TwoTo[n] \in Nat BY <2>3 DEF T
  <2>. QED BY <2>4, <1>5
<1>. QED BY <1>5, <1>6

LEMMA TwoToStep ==
  /\ TwoTo[0] = 1
  /\ \A n \in Nat : TwoTo[n] \in Nat /\ TwoTo[n + 1] = 2 * TwoTo[n]
<1>1. ASSUME NEW n \in Nat PROVE TwoTo[n + 1] = 2 * TwoTo[n]
  BY TwoToEquation
<1>. QED BY <1>1, TwoToEquation

(* They are positive, and grow. *)
LEMMA TwoToGrows ==
  \A m, n \in Nat : /\ TwoTo[n] >= 1 /\ TwoTo[n] > n
                    /\ m < n => 2 * TwoTo[m] <= TwoTo[n]
<1>1. \A n \in Nat : TwoTo[n] > n
  <2>. DEFINE T == {n \in Nat : TwoTo[n] > n}
  <2>1. 0 \in T BY TwoToStep
  <2>2. ASSUME NEW n \in T PROVE n + 1 \in T BY TwoToStep
  <2>. HIDE DEF T
  <2>3. T = Nat BY <2>1, <2>2, NaturalInduction DEF T
  <2>. QED BY <2>3 DEF T
<1>2. \A m, n \in Nat : m < n => 2 * TwoTo[m] <= TwoTo[n]
  <2>. SUFFICES ASSUME NEW m \in Nat PROVE \A n \in Nat : m < n => 2 * TwoTo[m] <= TwoTo[n]
    OBVIOUS
  <2>. DEFINE T == {n \in Nat : m < n => 2 * TwoTo[m] <= TwoTo[n]}
  <2>1. 0 \in T OBVIOUS
  <2>2. ASSUME NEW n \in T PROVE n + 1 \in T
    <3>1. CASE m < n BY <3>1, <1>1, TwoToStep
    <3>2. CASE m = n BY <3>2, TwoToStep
    <3>3. CASE m > n BY <3>3
    <3>. QED BY <3>1, <3>2, <3>3
  <2>. HIDE DEF T
  <2>3. T = Nat BY <2>1, <2>2, NaturalInduction DEF T
  <2>. QED BY <2>3 DEF T
<1>. QED
  <2>. SUFFICES ASSUME NEW m \in Nat, NEW n \in Nat
                PROVE  TwoTo[n] >= 1 /\ TwoTo[n] > n /\ (m < n => 2 * TwoTo[m] <= TwoTo[n])
    OBVIOUS
  <2>. QED BY <1>1, <1>2, TwoToStep

-----------------------------------------------------------------------------
(* Division with a remainder *)

(* A multiple of m between -m and m is zero. *)
LEMMA SmallMultiple ==
  ASSUME NEW m \in Nat \ {0}, NEW k \in Int, -m < k * m, k * m < m
  PROVE  k = 0
<1>1. k >= 1 => k * m >= m
  <2>. SUFFICES ASSUME k >= 1 PROVE k * m >= m OBVIOUS
  <2>1. k - 1 \in Nat OBVIOUS
  <2>2. (k - 1) * m >= 0 BY <2>1
  <2>. QED BY <2>2
<1>2. k <= -1 => k * m <= -m
  <2>. SUFFICES ASSUME k <= -1 PROVE k * m <= -m OBVIOUS
  <2>1. -k - 1 \in Nat OBVIOUS
  <2>2. (-k - 1) * m >= 0 BY <2>1
  <2>. QED BY <2>2
<1>. QED BY <1>1, <1>2

(* There is one remainder. *)
LEMMA Remainder ==
  ASSUME NEW n \in Int, NEW m \in Nat \ {0}
  PROVE  /\ n % m \in 0..(m - 1)
         /\ n \div m \in Int
         /\ n = m * (n \div m) + (n % m)
  OBVIOUS

LEMMA OneRemainder ==
  ASSUME NEW m \in Nat \ {0}, NEW q \in Int, NEW r \in 0..(m - 1), NEW n \in Int, n = q * m + r
  PROVE  n % m = r
<1>. DEFINE k == q - (n \div m)
<1>1. n % m \in 0..(m - 1) /\ n \div m \in Int /\ n = m * (n \div m) + (n % m)
  BY Remainder
<1>2. k \in Int /\ k * m = (n % m) - r
  BY <1>1
<1>. HIDE DEF k
<1>3. k = 0
  BY <1>1, <1>2, SmallMultiple
<1>. QED BY <1>1, <1>2, <1>3

-----------------------------------------------------------------------------
(* Types and their values *)

LEMMA Widths ==
  ASSUME NEW ty \in IntegerTypes
  PROVE  Bits(ty) \in Nat \ {0} /\ Bits(ty) - 1 \in Nat /\ (ty \in Ranked => Bits(ty) >= 2)
  BY WidthsAssumption DEF IntegerTypes, Ranked, Bits

(* A type of width w has 2^w values, zero among them. *)
LEMMA Ranges ==
  ASSUME NEW ty \in IntegerTypes
  PROVE  /\ Lowest(ty) \in Int /\ Highest(ty) \in Int
         /\ TwoTo[Bits(ty)] \in Nat /\ TwoTo[Bits(ty)] >= 2
         /\ Highest(ty) = Lowest(ty) + TwoTo[Bits(ty)] - 1
         /\ Lowest(ty) <= 0 /\ Highest(ty) >= 0
         /\ ty \in Ranked => Highest(ty) >= 1
         /\ ~IsSigned(ty) => Lowest(ty) = 0
         /\ IsSigned(ty) => Lowest(ty) = -Highest(ty) - 1
<1>1. Bits(ty) \in Nat /\ Bits(ty) - 1 \in Nat /\ (Bits(ty) - 1) + 1 = Bits(ty)
      /\ (ty \in Ranked => Bits(ty) >= 2)
  BY Widths
<1>2. TwoTo[Bits(ty)] \in Nat /\ TwoTo[Bits(ty) - 1] \in Nat /\ TwoTo[Bits(ty)] = 2 * TwoTo[Bits(ty) - 1]
  BY <1>1, TwoToStep
<1>3. TwoTo[Bits(ty) - 1] >= 1 /\ (ty \in Ranked => TwoTo[Bits(ty) - 1] > 1)
  <2>1. TwoTo[Bits(ty) - 1] >= 1 /\ TwoTo[Bits(ty) - 1] > Bits(ty) - 1
    BY <1>1, TwoToGrows
  <2>. QED BY <1>1, <1>2, <2>1
<1>. QED BY <1>1, <1>2, <1>3 DEF Lowest, Highest

LEMMA WrapsIntoRange ==
  ASSUME NEW ty \in IntegerTypes, NEW n \in Int
  PROVE  /\ Wrapped(ty, n) \in Int /\ InRange(ty, Wrapped(ty, n))
         /\ \E k \in Int : Wrapped(ty, n) = n + k * TwoTo[Bits(ty)]
<1>. DEFINE m == TwoTo[Bits(ty)]
            d == n - Lowest(ty)
<1>1. m \in Nat \ {0} /\ d \in Int /\ Lowest(ty) \in Int /\ Highest(ty) = Lowest(ty) + m - 1
      /\ n = d + Lowest(ty)
  BY Ranges
<1>2. Wrapped(ty, n) = Lowest(ty) + (d % m)
  BY DEF Wrapped
<1>. HIDE DEF m, d
<1>3. d % m \in 0..(m - 1) /\ d \div m \in Int /\ d = m * (d \div m) + (d % m)
  BY <1>1, Remainder
<1>4. Wrapped(ty, n) = n + (-(d \div m)) * m
  BY <1>1, <1>2, <1>3
<1>5. -(d \div m) \in Int BY <1>3
<1>6. \E k \in Int : Wrapped(ty, n) = n + k * m
  BY <1>4, <1>5
<1>7. Wrapped(ty, n) \in Int /\ InRange(ty, Wrapped(ty, n))
  BY <1>1, <1>2, <1>3 DEF InRange
<1>. QED BY <1>6, <1>7 DEF m

(* Conversion keeps the value modulo 2^w, and there is one such value. *)
LEMMA OneWrapped ==
  ASSUME NEW ty \in IntegerTypes, NEW n \in Int, NEW k \in Int, NEW v \in Int,
         InRange(ty, v), v = n + k * TwoTo[Bits(ty)]
  PROVE  Wrapped(ty, n) = v
<1>. DEFINE m == TwoTo[Bits(ty)]
<1>1. m \in Nat \ {0} /\ Lowest(ty) \in Int /\ Highest(ty) = Lowest(ty) + m - 1
  BY Ranges
<1>2. v = n + k * m /\ Wrapped(ty, n) = Lowest(ty) + ((n - Lowest(ty)) % m)
  BY DEF Wrapped
<1>. HIDE DEF m
<1>3. v - Lowest(ty) \in 0..(m - 1)
  BY <1>1 DEF InRange
<1>. DEFINE q == -k
            r == v - Lowest(ty)
            d == n - Lowest(ty)
<1>4. d = q * m + r /\ q \in Int /\ d \in Int /\ r \in 0..(m - 1)
  BY <1>1, <1>2, <1>3
<1>. HIDE DEF q, r, d
<1>5. d % m = r
  BY <1>1, <1>4, OneRemainder
<1>. QED BY <1>1, <1>2, <1>5 DEF r, d

LEMMA WrapsToItself ==
  ASSUME NEW ty \in IntegerTypes, NEW n \in Int, InRange(ty, n)
  PROVE  Wrapped(ty, n) = n
<1>1. n = n + 0 * TwoTo[Bits(ty)] BY Ranges
<1>. QED BY <1>1, OneWrapped

LEMMA WrapsUnsigned ==
  ASSUME NEW ty \in IntegerTypes, NEW n \in Int, ~IsSigned(ty)
  PROVE  Wrapped(ty, n) = n % TwoTo[Bits(ty)]
<1>1. Lowest(ty) = 0 BY Ranges
<1>2. TwoTo[Bits(ty)] \in Nat \ {0} BY Ranges
<1>3. n % TwoTo[Bits(ty)] \in Int BY <1>2, Remainder
<1>. QED BY <1>1, <1>3 DEF Wrapped

-----------------------------------------------------------------------------
(* Values *)

(* A value has an integer type, and is in its range. *)
IsValue(x) == /\ x = Value(x.ty, x.v) /\ x.ty \in IntegerTypes
              /\ x.v \in Int /\ InRange(x.ty, x.v)
IsOutcome(x) == x = Undefined \/ IsValue(x)

LEMMA ValueParts ==
  ASSUME NEW ty, NEW n
  PROVE  Value(ty, n).ty = ty /\ Value(ty, n).v = n
  BY DEF Value

LEMMA ValueInRange ==
  ASSUME NEW ty \in IntegerTypes, NEW n \in Int, InRange(ty, n)
  PROVE  IsValue(Value(ty, n))
  BY ValueParts DEF IsValue

LEMMA UndefinedIsNone ==
  /\ Undefined.ty \notin IntegerTypes /\ Undefined.v = 0
  /\ \A x : IsValue(x) => x # Undefined
  /\ \A ty \in IntegerTypes : \A n : Value(ty, n) # Undefined
<1>1. Undefined.ty = "undefined" /\ Undefined.v = 0
  BY ValueParts DEF Undefined
<1>2. "undefined" \notin IntegerTypes
  BY DEF IntegerTypes, Ranked
<1>3. ASSUME NEW ty \in IntegerTypes, NEW n PROVE Value(ty, n) # Undefined
  BY <1>1, <1>2, ValueParts
<1>. QED BY <1>1, <1>2, <1>3 DEF IsValue

LEMMA ZeroAndOne ==
  ASSUME NEW ty \in IntegerTypes
  PROVE  InRange(ty, 0) /\ InRange(ty, 1)
<1>1. Lowest(ty) <= 0 /\ Highest(ty) >= 0 /\ Lowest(ty) \in Int /\ Highest(ty) \in Int
  BY Ranges
<1>2. Highest(ty) >= 1
  <2>1. CASE IsSigned(ty)
    <3>1. Bits(ty) - 1 \in Nat /\ Bits(ty) - 1 >= 1
      BY <2>1, WidthsAssumption DEF IsSigned, Bits
    <3>2. TwoTo[Bits(ty) - 1] > Bits(ty) - 1 /\ TwoTo[Bits(ty) - 1] \in Nat
      BY <3>1, TwoToGrows, TwoToStep
    <3>. QED BY <2>1, <3>1, <3>2 DEF Highest
  <2>2. CASE ~IsSigned(ty)
    <3>1. TwoTo[Bits(ty)] \in Nat /\ TwoTo[Bits(ty)] >= 2
      BY Ranges
    <3>. QED BY <2>2, <3>1 DEF Highest
  <2>. QED BY <2>1, <2>2
<1>. QED BY <1>1, <1>2 DEF InRange

(* Promotion keeps the value, and makes a type that has a rank of the other *)
(* ones.                                                                    *)
LEMMA PromotedIsValue ==
  ASSUME NEW x, IsValue(x)
  PROVE  /\ IsValue(Promoted(x)) /\ Promoted(x).ty \in Ranked /\ Promoted(x).v = x.v
         /\ x.ty \in Ranked => Promoted(x) = x
<1>1. CASE x.ty \in {"BOOL", "CHAR"}
  <2>1. Promoted(x) = Value("INT", x.v) BY <1>1 DEF Promoted
  <2>2. Lowest("INT") <= x.v /\ x.v <= Highest("INT")
    <3>1. /\ IntBits - 1 \in Nat /\ Bits(x.ty) \in Nat /\ Bits(x.ty) <= IntBits - 1
          /\ Bits(x.ty) - 1 \in Nat /\ Bits(x.ty) - 1 < Bits(x.ty)
      BY <1>1, WidthsAssumption DEF Bits
    <3>2. /\ TwoTo[Bits(x.ty)] <= TwoTo[IntBits - 1]
          /\ TwoTo[Bits(x.ty) - 1] <= TwoTo[Bits(x.ty)]
          /\ TwoTo[Bits(x.ty)] \in Nat /\ TwoTo[IntBits - 1] \in Nat /\ TwoTo[Bits(x.ty) - 1] \in Nat
      <4>1. \A m, n \in Nat : m <= n => TwoTo[m] <= TwoTo[n]
        BY TwoToGrows, TwoToStep
      <4>. QED BY <3>1, <4>1, TwoToStep
    <3>3. Lowest("INT") = -TwoTo[IntBits - 1] /\ Highest("INT") = TwoTo[IntBits - 1] - 1
      BY DEF Lowest, Highest, IsSigned, Bits
    <3>. QED BY <3>2, <3>3 DEF IsValue, InRange, Lowest, Highest
  <2>3. "INT" \in Ranked /\ "INT" \in IntegerTypes /\ x.ty \notin Ranked
    BY <1>1 DEF Ranked, IntegerTypes
  <2>4. IsValue(Value("INT", x.v))
    BY <2>2, <2>3, ValueInRange DEF IsValue, InRange
  <2>. QED BY <2>1, <2>3, <2>4, ValueParts
<1>2. CASE x.ty \notin {"BOOL", "CHAR"}
  BY <1>2 DEF Promoted, IsValue, IntegerTypes
<1>. QED BY <1>1, <1>2

LEMMA CastIsValue ==
  ASSUME NEW x, x.v \in Int, NEW ty \in IntegerTypes
  PROVE  /\ IsValue(Cast(x, ty)) /\ Cast(x, ty).ty = ty /\ Cast(x, ty).v = Wrapped(ty, x.v)
         /\ IsValue(x) /\ x.ty = ty => Cast(x, ty) = x
  BY WrapsIntoRange, WrapsToItself, ValueInRange, ValueParts DEF Cast, IsValue

-----------------------------------------------------------------------------
(* Results *)

(* The result of an operation is the one C gives it. *)
LEMMA ResultIsExact ==
  ASSUME NEW ty \in IntegerTypes, NEW n \in Int
  PROVE  /\ Result(ty, n) = Exactly(ty, n)
         /\ IsOutcome(Result(ty, n))
         /\ Result(ty, n) # Undefined => Result(ty, n).ty = ty
         /\ InRange(ty, n) => Result(ty, n) = Value(ty, n)
         /\ Result(ty, n) = Undefined <=> IsSigned(ty) /\ ~InRange(ty, n)
<1>1. Wrapped(ty, n) \in Int /\ InRange(ty, Wrapped(ty, n))
  BY WrapsIntoRange
<1>2. InRange(ty, n) => Wrapped(ty, n) = n
  BY WrapsToItself
<1>3. ~IsSigned(ty) => Wrapped(ty, n) = n % TwoTo[Bits(ty)]
  BY WrapsUnsigned
<1>4. IsValue(Value(ty, Wrapped(ty, n))) /\ (InRange(ty, n) => IsValue(Value(ty, n)))
  BY <1>1, ValueInRange
<1>. QED BY <1>2, <1>3, <1>4, UndefinedIsNone, ValueParts DEF Result, Exactly, IsOutcome

(* The quotient of C. *)
LEMMA QuotientIsExact ==
  ASSUME NEW a \in Int, NEW b \in Int, b # 0
  PROVE  Quotient(a, b) = CQuotient(a, b) /\ Quotient(a, b) \in Int
<1>1. Abs(a) \in Nat /\ Abs(b) \in Nat \ {0}
  BY DEF Abs
<1>. DEFINE q == Abs(a) \div Abs(b)
<1>2. q \in Int BY <1>1, Remainder
<1>3. Quotient(a, b) = Sign(a) * Sign(b) * q
  BY DEF Quotient
<1>4. CQuotient(a, b) = IF (a < 0) = (b < 0) THEN q ELSE -q
  BY DEF CQuotient
<1>. HIDE DEF q
<1>5. Sign(a) * Sign(b) = IF (a < 0) = (b < 0) THEN 1 ELSE -1
  BY DEF Sign
<1>. QED BY <1>2, <1>3, <1>4, <1>5

LEMMA QuotientIsLess ==
  ASSUME NEW a \in Nat, NEW b \in Nat, b # 0
  PROVE  Quotient(a, b) \in 0..a
<1>. DEFINE q == a \div b
<1>1. Quotient(a, b) = 1 * 1 * q
  BY DEF Quotient, Sign, Abs
<1>2. a % b \in 0..(b - 1) /\ q \in Int /\ a = b * q + (a % b)
  BY Remainder
<1>. HIDE DEF q
<1>3. q >= 0
  <2>. SUFFICES ASSUME q <= -1 PROVE FALSE BY <1>2
  <2>1. -1 - q \in Nat BY <1>2
  <2>2. b * (-1 - q) >= 0 BY <2>1
  <2>. QED BY <1>2, <2>2
<1>4. b * q >= q
  <2>1. b - 1 \in Nat OBVIOUS
  <2>2. (b - 1) * q >= 0 BY <1>2, <1>3, <2>1
  <2>. QED BY <1>2, <2>2
<1>. QED BY <1>1, <1>2, <1>3, <1>4

-----------------------------------------------------------------------------
(* Operators of two values of one type *)

(* The bits of a bitwise operator make a number. *)
LEMMA BitwiseIsInRange ==
  ASSUME NEW ty \in IntegerTypes, NEW op, NEW a, NEW b
  PROVE  Bitwise(op, ty, a, b) \in Int /\ InRange(ty, Bitwise(op, ty, a, b))
<1>. DEFINE lowest[n \in Nat] ==
              IF n = 0 THEN 0
              ELSE lowest[n - 1] + (IF BitOf(op, a, b, n - 1) THEN TwoTo[n - 1] ELSE 0)
            step == [n \in Nat |-> [s \in Nat |->
                      s + (IF BitOf(op, a, b, n) THEN TwoTo[n] ELSE 0)]]
<1>1. step \in [Nat -> [Nat -> Nat]]
  BY TwoToStep
<1>2. \A n, s \in Nat : step[n][s] = s + (IF BitOf(op, a, b, n) THEN TwoTo[n] ELSE 0)
  OBVIOUS
<1>. HIDE DEF step
<1>3. PICK f \in [Nat -> Nat] : Iterates(f, 0, step)
  BY <1>1, Iteration
<1>4. f = [n \in Nat |->
            IF n = 0 THEN 0
            ELSE f[n - 1] + (IF BitOf(op, a, b, n - 1) THEN TwoTo[n - 1] ELSE 0)]
  <2>1. ASSUME NEW n \in Nat
        PROVE  f[n] = IF n = 0 THEN 0
                      ELSE f[n - 1] + (IF BitOf(op, a, b, n - 1) THEN TwoTo[n - 1] ELSE 0)
    <3>1. CASE n = 0 BY <3>1, <1>3 DEF Iterates
    <3>2. CASE n # 0
      <4>1. n - 1 \in Nat /\ (n - 1) + 1 = n BY <3>2
      <4>2. f[(n - 1) + 1] = step[n - 1][f[n - 1]] BY <4>1, <1>3 DEF Iterates
      <4>3. step[n - 1][f[n - 1]]
              = f[n - 1] + (IF BitOf(op, a, b, n - 1) THEN TwoTo[n - 1] ELSE 0)
        BY <1>2, <4>1
      <4>. QED BY <3>2, <4>1, <4>2, <4>3
    <3>. QED BY <3>1, <3>2
  <2>. QED BY <2>1, Zenon
<1>5. lowest = [n \in Nat |->
                 IF n = 0 THEN 0
                 ELSE lowest[n - 1] + (IF BitOf(op, a, b, n - 1) THEN TwoTo[n - 1] ELSE 0)]
  BY <1>4, Zenon
<1>6. Bitwise(op, ty, a, b) = Wrapped(ty, lowest[Bits(ty)])
  BY Zenon DEF Bitwise
<1>. HIDE DEF lowest
<1>7. \A n \in Nat : lowest[n] \in Nat
  <2>. DEFINE T == {n \in Nat : lowest[n] \in Nat}
  <2>1. 0 \in T BY <1>5
  <2>2. ASSUME NEW n \in T PROVE n + 1 \in T
    <3>1. lowest[n + 1] = lowest[n] + (IF BitOf(op, a, b, n) THEN TwoTo[n] ELSE 0)
      <4>1. n + 1 \in Nat /\ n + 1 # 0 /\ (n + 1) - 1 = n OBVIOUS
      <4>. QED BY <1>5, <4>1
    <3>2. TwoTo[n] \in Nat BY TwoToStep
    <3>. QED BY <3>1, <3>2
  <2>. HIDE DEF T
  <2>3. T = Nat BY <2>1, <2>2, NaturalInduction DEF T
  <2>. QED BY <2>3 DEF T
<1>8. lowest[Bits(ty)] \in Int
  BY <1>7, Widths
<1>. QED BY <1>6, <1>8, WrapsIntoRange

(* Two operands of one type: the operator of the code is that of C. *)
LEMMA ArithIsExact ==
  ASSUME NEW ty \in Ranked, NEW a \in Int, NEW b \in Int, InRange(ty, a), InRange(ty, b),
         NEW op \in Arithmetic
  PROVE  /\ Arith(op, ty, a, b) = CArithmetic(op, ty, a, b)
         /\ IsOutcome(Arith(op, ty, a, b))
         /\ Arith(op, ty, a, b) # Undefined => Arith(op, ty, a, b).ty = ty
<1>. ty \in IntegerTypes BY DEF IntegerTypes
<1>1. CASE op \in {"+", "-", "*"}
  <2>1. a + b \in Int /\ a - b \in Int /\ a * b \in Int OBVIOUS
  <2>2. \A n \in Int : /\ Result(ty, n) = Exactly(ty, n)
                       /\ IsOutcome(Result(ty, n))
                       /\ Result(ty, n) # Undefined => Result(ty, n).ty = ty
    BY ResultIsExact
  <2>. QED BY <1>1, <2>1, <2>2 DEF Arith, CArithmetic
<1>2. CASE op = "/" \/ op = "%"
  <2>1. CASE b = 0
    BY <1>2, <2>1 DEF Arith, CArithmetic, IsOutcome
  <2>2. CASE b # 0
    <3>. DEFINE q == Quotient(a, b)
    <3>1. q \in Int /\ CQuotient(a, b) = q BY <2>2, QuotientIsExact
    <3>2. Arith("/", ty, a, b) = Result(ty, q)
          /\ CArithmetic("/", ty, a, b) = Exactly(ty, q)
      BY <2>2, <3>1 DEF Arith, CArithmetic
    <3>3. /\ Arith("%", ty, a, b) = IF ~InRange(ty, q) THEN Undefined
                                    ELSE Result(ty, a - b * q)
          /\ CArithmetic("%", ty, a, b) = IF Exactly(ty, q) = Undefined THEN Undefined
                                          ELSE Exactly(ty, a - q * b)
      BY <2>2, <3>1 DEF Arith, CArithmetic
    <3>4. ~IsSigned(ty) => InRange(ty, q)
      <4>. SUFFICES ASSUME ~IsSigned(ty) PROVE InRange(ty, q) OBVIOUS
      <4>1. Lowest(ty) = 0 /\ Highest(ty) \in Int BY Ranges
      <4>2. a \in Nat /\ b \in Nat /\ a <= Highest(ty) BY <4>1 DEF InRange
      <4>3. q \in 0..a BY <4>2, <2>2, QuotientIsLess
      <4>. HIDE DEF q
      <4>. QED BY <4>1, <4>2, <4>3 DEF InRange
    <3>. HIDE DEF q
    <3>5. a - b * q = a - q * b /\ a - b * q \in Int BY <3>1
    <3>6. /\ Result(ty, q) = Exactly(ty, q)
          /\ IsOutcome(Result(ty, q))
          /\ Result(ty, q) # Undefined => Result(ty, q).ty = ty
          /\ Result(ty, q) = Undefined <=> IsSigned(ty) /\ ~InRange(ty, q)
      BY <3>1, ResultIsExact
    <3>7. /\ Result(ty, a - b * q) = Exactly(ty, a - b * q)
          /\ IsOutcome(Result(ty, a - b * q))
          /\ Result(ty, a - b * q) # Undefined => Result(ty, a - b * q).ty = ty
      BY <3>5, ResultIsExact
    <3>. QED BY <1>2, <3>2, <3>3, <3>4, <3>5, <3>6, <3>7 DEF IsOutcome
  <2>. QED BY <2>1, <2>2
<1>3. CASE op \in {"&", "|", "^"}
  <2>1. Bitwise(op, ty, a, b) \in Int /\ InRange(ty, Bitwise(op, ty, a, b))
    BY BitwiseIsInRange
  <2>2. IsValue(Value(ty, Bitwise(op, ty, a, b)))
    BY <2>1, ValueInRange
  <2>3. Arith(op, ty, a, b) = Value(ty, Bitwise(op, ty, a, b))
        /\ CArithmetic(op, ty, a, b) = Value(ty, Bitwise(op, ty, a, b))
    BY <1>3 DEF Arith, CArithmetic
  <2>. QED BY <2>2, <2>3, ValueParts DEF IsOutcome
<1>. QED BY <1>1, <1>2, <1>3 DEF Arithmetic

LEMMA CompareIsExact ==
  ASSUME NEW ty, NEW a, NEW b, NEW op \in Comparisons
  PROVE  /\ Compare(op, a, b) \in BOOLEAN
         /\ CArithmetic(op, ty, a, b) = CInt(Compare(op, a, b))
<1>1. CASE op = "==" BY <1>1 DEF Compare, CArithmetic
<1>2. CASE op = "!=" BY <1>2 DEF Compare, CArithmetic
<1>3. CASE op = "<" BY <1>3 DEF Compare, CArithmetic
<1>4. CASE op = ">" BY <1>4 DEF Compare, CArithmetic
<1>5. CASE op = "<=" BY <1>5 DEF Compare, CArithmetic
<1>6. CASE op = ">=" BY <1>6 DEF Compare, CArithmetic
<1>. QED BY <1>1, <1>2, <1>3, <1>4, <1>5, <1>6 DEF Comparisons

(* A truth value is an int once it is promoted. *)
LEMMA TruthIsInt ==
  ASSUME NEW b \in BOOLEAN
  PROVE  IsValue(Truth(b)) /\ IsValue(CInt(b)) /\ Promoted(Truth(b)) = CInt(b)
<1>1. InRange("BOOL", 0) /\ InRange("BOOL", 1) /\ InRange("INT", 0) /\ InRange("INT", 1)
  BY ZeroAndOne DEF IntegerTypes, Ranked
<1>2. IsValue(Truth(b)) /\ IsValue(CInt(b))
  BY <1>1, ValueInRange DEF Truth, CInt, IntegerTypes, Ranked
<1>. QED BY <1>2, ValueParts DEF Promoted, Truth, CInt

-----------------------------------------------------------------------------
(* Conversions *)

(* Whether a signed type holds the values of another type. *)
LEMMA HighestOrder ==
  ASSUME NEW a \in Ranked, NEW b \in Ranked
  PROVE  /\ IsSigned(a) = IsSigned(b) /\ Bits(a) <= Bits(b) => Highest(a) <= Highest(b)
         /\ ~IsSigned(a) /\ IsSigned(b) => (Highest(a) <= Highest(b) <=> Bits(a) < Bits(b))
         /\ IsSigned(a) /\ ~IsSigned(b) /\ Bits(a) <= Bits(b) => Highest(a) <= Highest(b)
<1>. a \in IntegerTypes /\ b \in IntegerTypes BY DEF IntegerTypes
<1>1. /\ Bits(a) \in Nat /\ Bits(a) - 1 \in Nat /\ (Bits(a) - 1) + 1 = Bits(a)
      /\ Bits(b) \in Nat /\ Bits(b) - 1 \in Nat /\ (Bits(b) - 1) + 1 = Bits(b)
  BY Widths
<1>2. /\ TwoTo[Bits(a)] = 2 * TwoTo[Bits(a) - 1] /\ TwoTo[Bits(a) - 1] \in Nat
      /\ TwoTo[Bits(b)] = 2 * TwoTo[Bits(b) - 1] /\ TwoTo[Bits(b) - 1] \in Nat
      /\ TwoTo[Bits(a) - 1] >= 1 /\ TwoTo[Bits(b) - 1] >= 1
  BY <1>1, TwoToStep, TwoToGrows
<1>3. /\ Bits(a) < Bits(b) => 2 * TwoTo[Bits(a) - 1] <= TwoTo[Bits(b) - 1]
      /\ Bits(b) < Bits(a) => 2 * TwoTo[Bits(b) - 1] <= TwoTo[Bits(a) - 1]
  <2>1. \A m, n \in Nat : m < n => 2 * TwoTo[m] <= TwoTo[n] BY TwoToGrows
  <2>2. Bits(a) < Bits(b) => Bits(a) - 1 < Bits(b) - 1 BY <1>1
  <2>3. Bits(b) < Bits(a) => Bits(b) - 1 < Bits(a) - 1 BY <1>1
  <2>. QED BY <1>1, <2>1, <2>2, <2>3
<1>4. Bits(a) = Bits(b) => TwoTo[Bits(a) - 1] = TwoTo[Bits(b) - 1]
  OBVIOUS
<1>. QED BY <1>1, <1>2, <1>3, <1>4 DEF Highest

(* The types of each rank, the signed one first. *)
LEMMA OrderOfTypes ==
  /\ DOMAIN Order = 1..6
  /\ \A i \in 1..6 : Order[i] \in Ranked /\ Bits(Order[i]) \in Nat
  /\ Order[1] = "INT" /\ Order[2] = "UINT" /\ Order[3] = "LONG"
  /\ Order[4] = "ULONG" /\ Order[5] = "LLONG" /\ Order[6] = "ULLONG"
  /\ Bits("INT") = Bits("UINT") /\ Bits("LONG") = Bits("ULONG") /\ Bits("LLONG") = Bits("ULLONG")
  /\ Bits("INT") <= Bits("LONG") /\ Bits("LONG") <= Bits("LLONG")
  /\ Bits("INT") \in Nat /\ Bits("LONG") \in Nat /\ Bits("LLONG") \in Nat
  /\ Rank("INT") = 0 /\ Rank("UINT") = 0 /\ Rank("LONG") = 1 /\ Rank("ULONG") = 1
  /\ Rank("LLONG") = 2 /\ Rank("ULLONG") = 2
  /\ IsSigned("INT") /\ IsSigned("LONG") /\ IsSigned("LLONG")
  /\ ~IsSigned("UINT") /\ ~IsSigned("ULONG") /\ ~IsSigned("ULLONG")
  /\ UnsignedOf("INT") = "UINT" /\ UnsignedOf("LONG") = "ULONG" /\ UnsignedOf("LLONG") = "ULLONG"
<1>1. DOMAIN Order = 1..6 /\ \A i \in 1..6 : Order[i] \in Ranked
  BY DEF Order, Ranked
<1>2. \A i \in 1..6 : Bits(Order[i]) \in Nat
  BY <1>1, Widths DEF IntegerTypes
<1>. QED BY <1>1, <1>2, WidthsAssumption DEF Order, Bits, Rank, IsSigned, UnsignedOf

LEMMA CommonTypeIsFirst ==
  ASSUME NEW a, NEW b, NEW i \in 1..6, Holds(Order[i], a, b),
         \A j \in 1..(i - 1) : ~Holds(Order[j], a, b)
  PROVE  CommonType(a, b) = Order[i]
<1>. DEFINE P(k) == Holds(Order[k], a, b) /\ \A j \in 1..(k - 1) : ~Holds(Order[j], a, b)
<1>1. DOMAIN Order = 1..6 BY OrderOfTypes
<1>2. P(i) OBVIOUS
<1>3. ASSUME NEW k \in 1..6, P(k) PROVE k = i
  <2>1. ~(k < i) BY <1>3
  <2>2. ~(i < k) BY <1>3
  <2>. QED BY <2>1, <2>2
<1>4. (CHOOSE k \in DOMAIN Order : P(k)) = i
  <2>. HIDE DEF P
  <2>. QED BY <1>1, <1>2, <1>3
<1>. QED BY <1>4, Zenon DEF CommonType

(* The type the code converts both operands to, when the second has no     *)
(* higher rank.                                                            *)
LowerType(a, b) ==
  IF IsSigned(a) /\ ~IsSigned(b) /\ Bits(a) <= Bits(b) THEN UnsignedOf(a) ELSE a

LEMMA LowerTypeIsCommon ==
  ASSUME NEW a \in Ranked, NEW b \in Ranked, Rank(b) <= Rank(a)
  PROVE  LowerType(a, b) = CommonType(a, b) /\ LowerType(a, b) = CommonType(b, a)
<1>. DEFINE t == LowerType(a, b)
<1>1. /\ Rank(a) \in Nat /\ Rank(b) \in Nat /\ Rank(t) = Rank(a) /\ t \in Ranked
      /\ Bits(b) <= Bits(a) /\ Bits(a) \in Nat /\ Bits(b) \in Nat /\ Bits(t) = Bits(a)
      /\ IsSigned(t) => IsSigned(a) /\ (IsSigned(b) \/ Bits(b) < Bits(a))
      /\ IsSigned(t) => t = a
  BY OrderOfTypes DEF LowerType, Ranked
<1>2. Holds(t, a, b) /\ Holds(t, b, a)
  <2>1. IsSigned(t) => Highest(b) <= Highest(t) /\ Highest(a) <= Highest(t)
    <3>1. Highest(a) \in Int BY Ranges DEF IntegerTypes
    <3>2. IsSigned(t) => Highest(b) <= Highest(a)
      BY <1>1, HighestOrder
    <3>. QED BY <1>1, <3>1, <3>2
  <2>. QED BY <1>1, <2>1 DEF Holds
<1>3. ASSUME NEW s \in Ranked, Rank(s) < Rank(a) \/ (Rank(s) = Rank(a) /\ IsSigned(s) /\ ~IsSigned(t))
      PROVE  ~Holds(s, a, b) /\ ~Holds(s, b, a)
  <2>1. CASE Rank(s) < Rank(a)
    <3>1. Rank(s) \in Nat BY OrderOfTypes DEF Ranked
    <3>. QED BY <2>1, <3>1, <1>1 DEF Holds
  <2>2. CASE Rank(s) = Rank(a) /\ IsSigned(s) /\ ~IsSigned(t)
    <3>1. Bits(s) = Bits(a) /\ (IsSigned(a) => s = a)
      BY <2>2, OrderOfTypes DEF Ranked
    <3>2. CASE ~IsSigned(a)
      <4>1. ~(Highest(a) <= Highest(s))
        BY <3>1, <3>2, <2>2, <1>1, HighestOrder
      <4>. QED BY <4>1, <2>2 DEF Holds
    <3>3. CASE IsSigned(a)
      <4>1. s = a BY <3>1, <3>3
      <4>2. ~IsSigned(b) /\ Bits(a) <= Bits(b)
        BY <3>3, <2>2 DEF LowerType
      <4>3. ~(Highest(b) <= Highest(s))
        BY <4>1, <4>2, <3>3, <1>1, HighestOrder
      <4>. QED BY <4>3, <2>2 DEF Holds
    <3>. QED BY <3>2, <3>3
  <2>. QED BY <1>3, <2>1, <2>2
<1>. HIDE DEF t
<1>4. PICK i \in 1..6 : Order[i] = t
  BY <1>1, OrderOfTypes DEF Ranked
<1>5. ASSUME NEW j \in 1..(i - 1)
      PROVE  /\ Order[j] \in Ranked
             /\ Rank(Order[j]) < Rank(a) \/ (Rank(Order[j]) = Rank(a) /\ IsSigned(Order[j]) /\ ~IsSigned(t))
  <2>1. i \in {1, 2, 3, 4, 5, 6} /\ j \in {1, 2, 3, 4, 5} /\ j < i OBVIOUS
  <2>2. /\ Rank(Order[j]) < Rank(Order[i])
           \/ (Rank(Order[j]) = Rank(Order[i]) /\ IsSigned(Order[j]) /\ ~IsSigned(Order[i]))
    BY <2>1, OrderOfTypes
  <2>3. Order[j] \in Ranked BY <2>1, OrderOfTypes
  <2>. QED BY <2>2, <2>3, <1>1, <1>4
<1>6. \A j \in 1..(i - 1) : ~Holds(Order[j], a, b) /\ ~Holds(Order[j], b, a)
  BY <1>3, <1>5
<1>. QED BY <1>2, <1>4, <1>6, CommonTypeIsFirst DEF t

LEMMA SameCommonType ==
  ASSUME NEW a \in Ranked
  PROVE  CommonType(a, a) = a
<1>1. Rank(a) <= Rank(a) BY OrderOfTypes DEF Ranked
<1>2. LowerType(a, a) = a BY DEF LowerType
<1>. QED BY <1>1, <1>2, LowerTypeIsCommon

(* The code converts both operands to the type C chooses. *)
LEMMA ConvertLowerIsCommon ==
  ASSUME NEW l, NEW r, IsValue(l), IsValue(r), l.ty \in Ranked, r.ty \in Ranked,
         Rank(r.ty) <= Rank(l.ty)
  PROVE  ConvertLower(l, r) = <<Cast(l, LowerType(l.ty, r.ty)), Cast(r, LowerType(l.ty, r.ty))>>
<1>1. Cast(l, l.ty) = l
  BY CastIsValue DEF IsValue
<1>2. CASE IsSigned(l.ty) = IsSigned(r.ty) \/ IsSigned(r.ty)
  <2>1. LowerType(l.ty, r.ty) = l.ty BY <1>2 DEF LowerType
  <2>. QED BY <1>1, <1>2, <2>1 DEF ConvertLower
<1>3. CASE IsSigned(l.ty) /\ ~IsSigned(r.ty)
  <2>1. Bits(l.ty) \in Nat /\ Bits(r.ty) \in Nat
    BY Widths DEF IsValue
  <2>2. Bits(r.ty) < Bits(l.ty) =>
          l.ty \in {"LLONG", "LONG"} /\ r.ty \in {"ULONG", "UINT"}
    BY <1>3, OrderOfTypes DEF Ranked
  <2>3. CASE Bits(r.ty) < Bits(l.ty)
    <3>1. LowerType(l.ty, r.ty) = l.ty BY <2>1, <2>3 DEF LowerType
    <3>2. ConvertLower(l, r) = <<l, Cast(r, l.ty)>>
      BY <1>3, <2>2, <2>3 DEF ConvertLower
    <3>. QED BY <1>1, <3>1, <3>2
  <2>4. CASE ~(Bits(r.ty) < Bits(l.ty))
    <3>1. LowerType(l.ty, r.ty) = UnsignedOf(l.ty) BY <1>3, <2>1, <2>4 DEF LowerType
    <3>2. ConvertLower(l, r) = <<Cast(l, UnsignedOf(l.ty)), Cast(r, UnsignedOf(l.ty))>>
      BY <1>3, <2>4 DEF ConvertLower
    <3>. QED BY <3>1, <3>2
  <2>. QED BY <2>3, <2>4
<1>. QED BY <1>2, <1>3 DEF IsSigned

LEMMA ConvertBinIsCommon ==
  ASSUME NEW l, NEW r, IsValue(l), IsValue(r), l.ty \in Ranked, r.ty \in Ranked
  PROVE  /\ ConvertBin(l, r) = <<Cast(l, CommonType(l.ty, r.ty)), Cast(r, CommonType(l.ty, r.ty))>>
         /\ CommonType(l.ty, r.ty) \in Ranked
<1>1. Rank(l.ty) \in Nat /\ Rank(r.ty) \in Nat /\ \A a, b \in Ranked : LowerType(a, b) \in Ranked
  BY OrderOfTypes DEF Ranked, LowerType
<1>2. CASE l.ty = r.ty
  <2>1. CommonType(l.ty, r.ty) = l.ty BY <1>2, SameCommonType
  <2>2. Cast(l, l.ty) = l /\ Cast(r, l.ty) = r
    BY <1>2, CastIsValue DEF IsValue
  <2>. QED BY <1>2, <2>1, <2>2 DEF ConvertBin
<1>3. CASE l.ty # r.ty /\ Rank(r.ty) <= Rank(l.ty)
  <2>1. ConvertBin(l, r) = ConvertLower(l, r) BY <1>3 DEF ConvertBin
  <2>. QED BY <1>1, <1>3, <2>1, ConvertLowerIsCommon, LowerTypeIsCommon
<1>4. CASE l.ty # r.ty /\ ~(Rank(r.ty) <= Rank(l.ty))
  <2>. DEFINE t == LowerType(r.ty, l.ty)
  <2>1. Rank(l.ty) <= Rank(r.ty) BY <1>1, <1>4
  <2>2. ConvertLower(r, l) = <<Cast(r, t), Cast(l, t)>>
    BY <2>1, ConvertLowerIsCommon
  <2>3. t = CommonType(l.ty, r.ty) /\ t \in Ranked
    BY <1>1, <2>1, LowerTypeIsCommon
  <2>. HIDE DEF t
  <2>4. ConvertBin(l, r) = <<Cast(l, t), Cast(r, t)>>
    BY <1>4, <2>2 DEF ConvertBin
  <2>. QED BY <2>3, <2>4
<1>. QED BY <1>2, <1>3, <1>4

-----------------------------------------------------------------------------
(* Operators *)

LEMMA PromotedOutcome ==
  ASSUME NEW x, IsOutcome(x)
  PROVE  /\ IsOutcome(Promoted(x)) /\ Promoted(Undefined) = Undefined
         /\ Promoted(x) = Undefined <=> x = Undefined
<1>1. Promoted(Undefined) = Undefined
  <2>1. Undefined.ty \notin {"BOOL", "CHAR"}
    BY UndefinedIsNone DEF IntegerTypes
  <2>. QED BY <2>1 DEF Promoted
<1>2. IsValue(x) => IsValue(Promoted(x)) /\ Promoted(x) # Undefined
  BY PromotedIsValue, UndefinedIsNone
<1>. QED BY <1>1, <1>2, UndefinedIsNone DEF IsOutcome

(* An operator of converted operands, on two promoted values. *)
LEMMA BinaryIsExact ==
  ASSUME NEW x, NEW y, IsValue(x), IsValue(y), NEW op \in Arithmetic \cup Comparisons
  PROVE  /\ IsOutcome(EvalBinary(op, x, y))
         /\ IsOutcome(CBinary(op, Promoted(x), Promoted(y)))
         /\ CBinary(op, Promoted(x), Promoted(y)).ty \in Ranked
              \/ CBinary(op, Promoted(x), Promoted(y)) = Undefined
         /\ Promoted(EvalBinary(op, x, y)) = CBinary(op, Promoted(x), Promoted(y))
<1>. DEFINE l == Promoted(x)
            r == Promoted(y)
            t == CommonType(l.ty, r.ty)
            a == Wrapped(t, l.v)
            b == Wrapped(t, r.v)
<1>1. IsValue(l) /\ IsValue(r) /\ l.ty \in Ranked /\ r.ty \in Ranked
  BY PromotedIsValue
<1>. HIDE DEF l, r
<1>2. ConvertBin(l, r) = <<Cast(l, t), Cast(r, t)>> /\ t \in Ranked
  BY <1>1, ConvertBinIsCommon
<1>3. /\ Cast(l, t).ty = t /\ Cast(l, t).v = a /\ Cast(r, t).v = b
      /\ a \in Int /\ b \in Int /\ InRange(t, a) /\ InRange(t, b)
  <2>1. l.v \in Int /\ r.v \in Int BY <1>1 DEF IsValue
  <2>2. t \in IntegerTypes BY <1>2 DEF IntegerTypes
  <2>. QED BY <2>1, <2>2, CastIsValue, WrapsIntoRange
<1>4. op \notin Logical /\ op \notin Shifts
  BY DEF Logical, Shifts, Arithmetic, Comparisons
<1>5. CBinary(op, l, r) = CArithmetic(op, t, a, b)
  BY DEF CBinary, CConverted
<1>6. EvalBinary(op, x, y) = IF op \in Comparisons THEN Truth(Compare(op, a, b))
                             ELSE Arith(op, t, a, b)
  BY <1>2, <1>3, <1>4 DEF EvalBinary, l, r
<1>. HIDE DEF t, a, b
<1>7. CASE op \in Comparisons
  <2>1. Compare(op, a, b) \in BOOLEAN /\ CBinary(op, l, r) = CInt(Compare(op, a, b))
    BY <1>5, <1>7, CompareIsExact
  <2>2. CInt(Compare(op, a, b)).ty \in Ranked
    BY ValueParts DEF CInt, Ranked
  <2>. QED BY <1>6, <1>7, <2>1, <2>2, TruthIsInt DEF l, r, IsOutcome
<1>8. CASE op \notin Comparisons
  <2>1. /\ EvalBinary(op, x, y) = CBinary(op, l, r)
        /\ IsOutcome(EvalBinary(op, x, y))
        /\ EvalBinary(op, x, y) # Undefined => EvalBinary(op, x, y).ty \in Ranked
    BY <1>2, <1>3, <1>5, <1>6, <1>8, ArithIsExact
  <2>2. Promoted(EvalBinary(op, x, y)) = EvalBinary(op, x, y)
    BY <2>1, PromotedIsValue, PromotedOutcome DEF IsOutcome
  <2>. QED BY <2>1, <2>2 DEF l, r
<1>. QED BY <1>7, <1>8

(* A shift that C defines; the count is read as unsigned int. *)
LEMMA ShiftIsExact ==
  ASSUME NEW x, NEW y, IsValue(x), IsValue(y), x.ty \in Ranked, y.ty \in Ranked, NEW op \in Shifts
  PROVE  /\ IsOutcome(Shift(op, x, y)) /\ IsOutcome(CShift(op, x, y))
         /\ Shift(op, x, y) # Undefined => Shift(op, x, y).ty \in Ranked
         /\ CShift(op, x, y) # Undefined => CShift(op, x, y) = Shift(op, x, y)
                                            /\ CShift(op, x, y).ty \in Ranked
<1>. DEFINE ty == x.ty
            n == IF y.ty = "ULONG" THEN Wrapped("UINT", y.v) ELSE y.v
            m == TwoTo[Bits(ty)]
<1>1. /\ ty \in IntegerTypes /\ ty \in Ranked /\ x.v \in Int /\ InRange(ty, x.v) /\ y.v \in Int
      /\ Bits(ty) \in Nat /\ "UINT" \in IntegerTypes /\ m \in Nat /\ m >= 2
  BY Widths, Ranges DEF IsValue, IntegerTypes, Ranked
<1>2. n \in Int BY <1>1, WrapsIntoRange
<1>3. y.v >= 0 /\ y.v < Bits(ty) => n = y.v
  <2>. SUFFICES ASSUME y.v >= 0, y.v < Bits(ty) PROVE Wrapped("UINT", y.v) = y.v
    OBVIOUS
  <2>1. Bits(ty) <= TwoTo[IntBits] /\ TwoTo[IntBits] \in Nat
    <3>1. TwoTo[IntBits] \in Nat BY WidthsAssumption, TwoToStep
    <3>. QED BY <3>1, <1>1, WidthsAssumption DEF Bits, Ranked
  <2>2. Lowest("UINT") = 0 /\ Highest("UINT") = TwoTo[IntBits] - 1
    BY DEF Lowest, Highest, IsSigned, Bits
  <2>3. InRange("UINT", y.v) BY <1>1, <2>1, <2>2 DEF InRange
  <2>. QED BY <1>1, <2>3, WrapsToItself
<1>4. ASSUME NEW k \in Nat
      PROVE  /\ IsOutcome(ShiftLeft(ty, x.v, k)) /\ IsOutcome(ShiftRight(ty, x.v, k))
             /\ ShiftLeft(ty, x.v, k) # Undefined => ShiftLeft(ty, x.v, k).ty = ty
             /\ ShiftRight(ty, x.v, k) # Undefined => ShiftRight(ty, x.v, k).ty = ty
  <2>1. TwoTo[k] \in Nat /\ TwoTo[k] >= 1 BY TwoToStep, TwoToGrows
  <2>2. x.v * TwoTo[k] \in Int BY <1>1, <2>1
  <2>3. IsValue(Value(ty, Wrapped(ty, x.v * TwoTo[k])))
    BY <1>1, <2>2, WrapsIntoRange, ValueInRange
  <2>4. IsValue(Value(ty, x.v \div TwoTo[k]))
    <3>. DEFINE p == TwoTo[k]
                q == x.v \div p
    <3>1. p \in Nat \ {0} /\ p >= 1 BY <2>1
    <3>. HIDE DEF p
    <3>2. x.v % p \in 0..(p - 1) /\ q \in Int /\ x.v = p * q + (x.v % p)
      BY <1>1, <3>1, Remainder
    <3>. HIDE DEF q
    <3>3. q >= 0 => q <= x.v
      <4>1. q >= 0 => (p - 1) * q >= 0 BY <3>1, <3>2
      <4>. QED BY <1>1, <3>1, <3>2, <4>1
    <3>4. q < 0 => x.v < 0 /\ x.v <= q
      <4>. SUFFICES ASSUME q < 0 PROVE x.v < 0 /\ x.v <= q OBVIOUS
      <4>1. p - 1 \in Nat /\ -1 - q \in Nat BY <3>1, <3>2
      <4>2. (p - 1) * (-1 - q) >= 0 BY <4>1
      <4>3. p * q <= q - p + 1 BY <3>1, <3>2, <4>1, <4>2
      <4>. QED BY <1>1, <3>1, <3>2, <4>3
    <3>5. Lowest(ty) <= 0 /\ Highest(ty) >= 0 /\ Lowest(ty) \in Int /\ Highest(ty) \in Int
      BY <1>1, Ranges
    <3>6. InRange(ty, q)
      BY <1>1, <3>2, <3>3, <3>4, <3>5 DEF InRange
    <3>7. IsValue(Value(ty, q)) BY <1>1, <3>2, <3>6, ValueInRange
    <3>. QED BY <3>7 DEF p, q
  <2>. QED BY <2>3, <2>4, ValueParts DEF ShiftLeft, ShiftRight, IsOutcome
<1>5. Abs(n) \in Nat /\ (n >= 0 => Abs(n) = n)
  BY <1>2 DEF Abs
<1>6. Shift(op, x, y) = IF (op = "<<") = (n >= 0) THEN ShiftLeft(ty, x.v, Abs(n))
                        ELSE ShiftRight(ty, x.v, Abs(n))
  BY DEF Shift
<1>7. /\ IsOutcome(Shift(op, x, y))
      /\ Shift(op, x, y) # Undefined => Shift(op, x, y).ty \in Ranked
  BY <1>1, <1>4, <1>5, <1>6
<1>8. CASE y.v < 0 \/ y.v >= Bits(ty)
  <2>1. CShift(op, x, y) = Undefined BY <1>8 DEF CShift
  <2>. QED BY <1>7, <2>1 DEF IsOutcome
<1>9. CASE y.v >= 0 /\ y.v < Bits(ty)
  <2>. DEFINE p == TwoTo[y.v]
  <2>1. n = y.v /\ Abs(n) = n /\ n >= 0 /\ y.v \in Nat BY <1>1, <1>3, <1>5, <1>9
  <2>2. p \in Nat /\ p >= 1 BY <2>1, TwoToStep, TwoToGrows
  <2>. HIDE DEF n
  <2>3. CASE op = ">>"
    <3>1. Shift(op, x, y) = Value(ty, x.v \div p)
      BY <1>1, <1>6, <1>9, <2>1, <2>3 DEF ShiftRight
    <3>2. CShift(op, x, y) = Value(ty, x.v \div p)
      BY <1>1, <1>9, <2>3 DEF CShift
    <3>. QED BY <1>1, <1>7, <3>1, <3>2, ValueParts
  <2>4. CASE op = "<<"
    <3>1. Shift(op, x, y) = ShiftLeft(ty, x.v, y.v)
      BY <1>6, <2>1, <2>4
    <3>2. x.v * p \in Int /\ (x.v >= 0 => x.v * p >= 0) BY <1>1, <2>2
    <3>3. CASE ~IsSigned(ty)
      <4>1. x.v >= 0
        BY <1>1, <3>3, Ranges DEF InRange
      <4>2. Shift(op, x, y) = Value(ty, Wrapped(ty, x.v * p))
        BY <1>1, <1>9, <3>1, <3>3, <4>1 DEF ShiftLeft
      <4>3. CShift(op, x, y) = Value(ty, (x.v * p) % m)
        BY <1>1, <1>9, <2>4, <3>3 DEF CShift
      <4>4. Wrapped(ty, x.v * p) = (x.v * p) % m
        BY <1>1, <3>2, <3>3, WrapsUnsigned
      <4>5. CShift(op, x, y) = Shift(op, x, y) BY <4>2, <4>3, <4>4
      <4>6. Shift(op, x, y).ty = ty BY <4>2, ValueParts
      <4>. QED BY <1>1, <1>7, <4>5, <4>6
    <3>4. CASE IsSigned(ty) /\ x.v >= 0 /\ InRange(ty, x.v * p)
      <4>1. x.v * p < m
        BY <1>1, <3>2, <3>4, Ranges DEF InRange
      <4>2. Wrapped(ty, x.v * p) = x.v * p
        BY <1>1, <3>2, <3>4, WrapsToItself
      <4>3. Shift(op, x, y) = Value(ty, x.v * p)
        BY <1>1, <1>9, <3>1, <3>2, <3>4, <4>1, <4>2 DEF ShiftLeft
      <4>4. CShift(op, x, y) = Value(ty, x.v * p)
        BY <1>1, <1>9, <2>4, <3>4 DEF CShift
      <4>. QED BY <1>1, <1>7, <4>3, <4>4, ValueParts
    <3>5. CASE IsSigned(ty) /\ ~(x.v >= 0 /\ InRange(ty, x.v * p))
      <4>1. CShift(op, x, y) = Undefined
        BY <1>1, <1>9, <2>4, <3>5 DEF CShift
      <4>. QED BY <1>7, <4>1 DEF IsOutcome
    <3>. QED BY <3>3, <3>4, <3>5
  <2>. QED BY <2>3, <2>4 DEF Shifts
<1>. QED BY <1>1, <1>8, <1>9

(* The unary operators; ! is left out of the comparison, as it keeps the   *)
(* type of its operand.                                                    *)
LEMMA UnaryIsExact ==
  ASSUME NEW x, IsValue(x), NEW op \in UnaryOps
  PROVE  /\ IsOutcome(EvalUnary(op, x))
         /\ op # "!" => /\ Promoted(EvalUnary(op, x)) = CUnary(op, Promoted(x))
                        /\ EvalUnary(op, x) = CUnary(op, Promoted(x))
                        /\ IsOutcome(CUnary(op, Promoted(x)))
                        /\ CUnary(op, Promoted(x)) # Undefined => CUnary(op, Promoted(x)).ty \in Ranked
<1>. DEFINE p == Promoted(x)
            ty == p.ty
            v == p.v
<1>1. IsValue(p) /\ ty \in Ranked /\ ty \in IntegerTypes /\ v \in Int /\ InRange(ty, v)
  BY PromotedIsValue DEF IsValue
<1>. HIDE DEF p
<1>2. ASSUME NEW a \in Int, NEW b \in Int, InRange(ty, a), InRange(ty, b)
      PROVE  /\ \A y, z : y.ty = ty /\ z.ty = ty /\ y.v = a /\ z.v = b =>
                            CBinary("-", y, z) = Exactly(ty, a - b)
             /\ Exactly(ty, a - b) = Result(ty, a - b)
             /\ IsOutcome(Result(ty, a - b))
             /\ Result(ty, a - b) # Undefined => Result(ty, a - b).ty = ty
  <2>1. Wrapped(ty, a) = a /\ Wrapped(ty, b) = b BY <1>1, <1>2, WrapsToItself
  <2>2. CommonType(ty, ty) = ty BY <1>1, SameCommonType
  <2>3. CArithmetic("-", ty, a, b) = Exactly(ty, a - b) BY DEF CArithmetic
  <2>4. a - b \in Int OBVIOUS
  <2>. QED BY <1>1, <2>1, <2>2, <2>3, <2>4, ResultIsExact DEF CBinary, CConverted
<1>3. InRange(ty, 0) /\ InRange(ty, 1) BY <1>1, ZeroAndOne
<1>4. ASSUME NEW e, IsOutcome(e), e # Undefined => e.ty = ty
      PROVE  Promoted(e) = e
  BY <1>1, <1>4, PromotedIsValue, PromotedOutcome DEF IsOutcome
<1>5. CASE op = "+"
  <2>1. EvalUnary(op, x) = p /\ CUnary(op, p) = p BY <1>5 DEF EvalUnary, CUnary, p
  <2>. QED BY <1>1, <2>1, <1>4 DEF p, IsOutcome
<1>6. CASE op = "-"
  <2>1. EvalUnary(op, x) = Result(ty, -v) /\ CUnary(op, p) = CBinary("-", Value(ty, 0), p)
    BY <1>6 DEF EvalUnary, CUnary, p
  <2>2. 0 - v = -v BY <1>1
  <2>3. CBinary("-", Value(ty, 0), p) = Result(ty, -v)
        /\ IsOutcome(Result(ty, -v)) /\ (Result(ty, -v) # Undefined => Result(ty, -v).ty = ty)
    BY <1>1, <1>2, <1>3, <2>2, ValueParts
  <2>. QED BY <1>1, <1>4, <2>1, <2>3 DEF p
<1>7. CASE op = "!"
  <2>1. x.ty \in IntegerTypes BY DEF IsValue
  <2>2. EvalUnary(op, x) \in {Value(x.ty, 0), Value(x.ty, 1)}
    BY <1>7 DEF EvalUnary
  <2>3. IsValue(Value(x.ty, 0)) /\ IsValue(Value(x.ty, 1))
    BY <2>1, ZeroAndOne, ValueInRange
  <2>. QED BY <1>7, <2>2, <2>3 DEF IsOutcome
<1>8. CASE op = "~"
  <2>. DEFINE w == Wrapped(ty, -v - 1)
              one == CBinary("-", Value(ty, 0), Value(ty, 1))
              m == TwoTo[Bits(ty)]
  <2>1. EvalUnary(op, x) = Value(ty, w) /\ CUnary(op, p) = CBinary("-", one, p)
    BY <1>8 DEF EvalUnary, CUnary, p
  <2>2. IsValue(Value(ty, w)) /\ w \in Int /\ InRange(ty, w)
    BY <1>1, WrapsIntoRange, ValueInRange
  <2>3. 0 - 1 = -1 OBVIOUS
  <2>4. one = Result(ty, -1)
    BY <1>1, <1>2, <1>3, <2>3, ValueParts
  <2>5. /\ Lowest(ty) \in Int /\ Highest(ty) \in Int /\ m \in Nat /\ m >= 2
        /\ Highest(ty) = Lowest(ty) + m - 1
        /\ ~IsSigned(ty) => Lowest(ty) = 0
        /\ IsSigned(ty) => Lowest(ty) = -Highest(ty) - 1
        /\ Lowest(ty) <= 0 /\ Highest(ty) >= 0
    BY <1>1, Ranges
  <2>6. CASE IsSigned(ty)
    <3>1. InRange(ty, -1) /\ InRange(ty, -1 - v) /\ -1 - v = -v - 1 /\ -v - 1 \in Int
      BY <1>1, <2>5, <2>6 DEF InRange
    <3>2. w = -v - 1 BY <1>1, <3>1, WrapsToItself
    <3>3. one = Value(ty, -1) BY <1>1, <2>4, <3>1, ResultIsExact
    <3>. HIDE DEF one, w
    <3>4. one.ty = ty /\ one.v = -1 BY <3>3, ValueParts
    <3>5. CBinary("-", one, p) = Result(ty, -1 - v)
      BY <1>1, <1>2, <3>1, <3>4
    <3>6. Result(ty, -1 - v) = Value(ty, w)
      BY <1>1, <3>1, <3>2, ResultIsExact
    <3>. QED BY <1>1, <1>4, <2>1, <2>2, <3>5, <3>6, ValueParts DEF p, IsOutcome
  <2>7. CASE ~IsSigned(ty)
    <3>. DEFINE u == -v - 1
                i == -1
    <3>0. ASSUME NEW a \in Int, NEW c \in Int, InRange(ty, c), c = a + m
          PROVE  Wrapped(ty, a) = c
      <4>. DEFINE k == 1
      <4>1. c = a + k * m /\ k \in Int BY <2>5, <3>0
      <4>. HIDE DEF k
      <4>. QED BY <1>1, <3>0, <4>1, OneWrapped
    <3>1. m - 1 \in Int /\ InRange(ty, m - 1) /\ m - 1 = i + m /\ i \in Int
      BY <1>1, <2>5, <2>7 DEF InRange
    <3>2. Wrapped(ty, -1) = m - 1
      <4>. HIDE DEF i
      <4>1. Wrapped(ty, i) = m - 1 BY <3>0, <3>1
      <4>. QED BY <4>1 DEF i
    <3>3. ~InRange(ty, -1) BY <2>5, <2>7 DEF InRange
    <3>4. one = Value(ty, m - 1) BY <2>4, <2>7, <3>2 DEF Result
    <3>5. (m - 1) - v \in Int /\ InRange(ty, (m - 1) - v) /\ (m - 1) - v = u + m /\ u \in Int
      BY <1>1, <2>5, <2>7 DEF InRange
    <3>6. w = (m - 1) - v
      <4>. HIDE DEF u
      <4>1. Wrapped(ty, u) = (m - 1) - v BY <3>0, <3>5
      <4>. QED BY <4>1 DEF u
    <3>. HIDE DEF one, w, m
    <3>7. one.ty = ty /\ one.v = m - 1 BY <3>4, ValueParts
    <3>8. CBinary("-", one, p) = Result(ty, (m - 1) - v)
      BY <1>1, <1>2, <3>1, <3>7
    <3>9. Result(ty, (m - 1) - v) = Value(ty, w)
      BY <1>1, <3>5, <3>6, ResultIsExact
    <3>. QED BY <1>1, <1>4, <2>1, <2>2, <3>8, <3>9, ValueParts DEF p, IsOutcome
  <2>. QED BY <2>6, <2>7
<1>. QED BY <1>5, <1>6, <1>7, <1>8 DEF UnaryOps

(* Both operands of && and || are evaluated. *)
LEMMA LogicalIsExact ==
  ASSUME NEW x, NEW y, IsValue(x), IsValue(y), NEW op \in Logical,
         NEW z, z = Undefined \/ z = Promoted(y)
  PROVE  /\ IsValue(EvalBinary(op, x, y))
         /\ CLogical(op, Promoted(x), z) # Undefined =>
              Promoted(EvalBinary(op, x, y)) = CLogical(op, Promoted(x), z)
         /\ CLogical(op, Promoted(x), z) = Undefined => z = Undefined
<1>. DEFINE b == IF op = "&&" THEN x.v # 0 /\ y.v # 0 ELSE x.v # 0 \/ y.v # 0
<1>1. EvalBinary(op, x, y) = Truth(b) /\ b \in BOOLEAN
  <2>1. b \in BOOLEAN BY Zenon DEF Logical
  <2>2. EvalBinary(op, x, y) = Truth(b) BY Zenon DEF EvalBinary
  <2>. QED BY <2>1, <2>2
<1>2. Promoted(x).v = x.v /\ Promoted(y).v = y.v /\ Promoted(y) # Undefined
  BY PromotedIsValue, UndefinedIsNone
<1>3. IsValue(Truth(b)) /\ Promoted(Truth(b)) = CInt(b)
  BY <1>1, TruthIsInt
<1>4. \A c \in BOOLEAN : CInt(c) # Undefined
  <2>1. ASSUME NEW c \in BOOLEAN PROVE IsValue(CInt(c)) BY TruthIsInt
  <2>. QED BY <2>1, UndefinedIsNone
<1>5. CLogical(op, Promoted(x), z) = CInt(b)
        \/ (CLogical(op, Promoted(x), z) = Undefined /\ z = Undefined)
  <2>1. CASE op = "&&" BY <1>2, <2>1 DEF CLogical
  <2>2. CASE op = "||" BY <1>2, <2>2 DEF CLogical
  <2>. QED BY <2>1, <2>2 DEF Logical
<1>. HIDE DEF b
<1>. QED BY <1>1, <1>3, <1>4, <1>5
=============================================================================
