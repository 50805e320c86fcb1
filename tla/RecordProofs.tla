---------------------------- MODULE RecordProofs ----------------------------
(***************************************************************************)
(* The layout of records (RecordLayout), for builtin types of every size   *)
(* and alignment, records with any number of fields, and any nesting.  The *)
(* lemmas on induction and on division are those of EvaluationProofs.      *)
(***************************************************************************)
EXTENDS Initializer, EvaluationProofs, SequenceTheorems

-----------------------------------------------------------------------------
(* Multiples *)

LEMMA MultipleIs ==
  ASSUME NEW n \in Int, NEW a \in Nat \ {0}
  PROVE  /\ n % a = 0 => n \div a \in Int /\ n = (n \div a) * a
         /\ \A q \in Int : n = q * a => n % a = 0
<1>1. n % a = 0 => n \div a \in Int /\ n = (n \div a) * a
  BY Remainder
<1>2. ASSUME NEW q \in Int, n = q * a PROVE n % a = 0
  <2>1. 0 \in 0..(a - 1) /\ n = q * a + 0 BY <1>2
  <2>. QED BY <2>1, OneRemainder
<1>. QED BY <1>1, <1>2

LEMMA MultiplesAdd ==
  ASSUME NEW m \in Int, NEW n \in Int, NEW a \in Nat \ {0}, m % a = 0, n % a = 0
  PROVE  (m + n) % a = 0 /\ (m - n) % a = 0
<1>1. PICK p \in Int : m = p * a BY MultipleIs
<1>2. PICK q \in Int : n = q * a BY MultipleIs
<1>3. m + n = (p + q) * a /\ m - n = (p - q) * a BY <1>1, <1>2
<1>4. p + q \in Int /\ p - q \in Int /\ m + n \in Int /\ m - n \in Int OBVIOUS
<1>. QED BY <1>3, <1>4, MultipleIs

(* Two multiples that are less than one apart are the same. *)
LEMMA MultiplesApart ==
  ASSUME NEW m \in Int, NEW n \in Int, NEW a \in Nat \ {0}, m % a = 0, n % a = 0, m < n
  PROVE  m + a <= n
<1>. DEFINE d == n - m
            k == d \div a
<1>1. d \in Int /\ d > 0 /\ d % a = 0
  <2>1. (n - m) % a = 0 BY MultiplesAdd
  <2>. QED BY <2>1
<1>2. k \in Int /\ d = k * a BY <1>1, MultipleIs
<1>3. k # 0 BY <1>1, <1>2
<1>. HIDE DEF k
<1>4. k * a >= a \/ k * a < 0
  BY <1>1, <1>2, <1>3, SmallMultiple
<1>5. d >= a BY <1>1, <1>2, <1>4
<1>. QED BY <1>5

LEMMA MultipleOfMultiple ==
  ASSUME NEW n \in Int, NEW b \in Nat \ {0}, NEW a \in Nat \ {0}, n % b = 0, b % a = 0
  PROVE  n % a = 0
<1>. DEFINE p == n \div b
            q == b \div a
<1>1. p \in Int /\ n = p * b BY MultipleIs
<1>2. q \in Int /\ b = q * a BY MultipleIs
<1>. HIDE DEF p, q
<1>3. p * q \in Int BY <1>1, <1>2
<1>4. n = (p * q) * a BY <1>1, <1>2
<1>. QED BY <1>3, <1>4, MultipleIs

LEMMA MultipleRepeated ==
  ASSUME NEW m \in Nat, NEW n \in Nat, NEW a \in Nat \ {0}, m % a = 0
  PROVE  m * n \in Nat /\ (m * n) % a = 0
<1>. DEFINE p == m \div a
            x == m * n
<1>1. p \in Int /\ m = p * a BY MultipleIs
<1>. HIDE DEF p
<1>2. x \in Nat OBVIOUS
<1>3. p * n \in Int /\ x = (p * n) * a BY <1>1
<1>. HIDE DEF x
<1>4. x % a = 0 BY <1>2, <1>3, MultipleIs
<1>. QED BY <1>2, <1>4 DEF x

(* The next multiple is what rounding up gives. *)
LEMMA RoundUpIsNext ==
  ASSUME NEW n \in Nat, NEW a \in Nat \ {0}
  PROVE  /\ RoundUp(n, a) \in Nat /\ RoundUp(n, a) % a = 0
         /\ n <= RoundUp(n, a) /\ RoundUp(n, a) < n + a
         /\ \A m \in Int : n <= m /\ m < n + a /\ m % a = 0 => m = RoundUp(n, a)
         /\ NextMultiple(n, a) = RoundUp(n, a)
<1>. DEFINE u == RoundUp(n, a)
            m0 == n + a - 1
            q == m0 \div a
            r == m0 % a
<1>1. m0 \in Nat OBVIOUS
<1>2. u = q * a BY DEF RoundUp
<1>. HIDE DEF u, m0
<1>3. q \in Int /\ r \in 0..(a - 1) /\ m0 = a * q + r
  BY <1>1, Remainder
<1>. HIDE DEF q, r
<1>4. u \in Nat /\ n <= u /\ u < n + a
  <2>1. u = m0 - r BY <1>1, <1>2, <1>3
  <2>. QED BY <1>1, <1>3, <2>1 DEF m0
<1>5. u % a = 0 BY <1>2, <1>3, <1>4, MultipleIs
<1>6. ASSUME NEW m \in Int, n <= m, m < n + a, m % a = 0 PROVE m = u
  <2>1. u \in Int BY <1>4
  <2>2. CASE m < u
    <3>1. m + a <= u BY <2>1, <2>2, <1>5, <1>6, MultiplesApart
    <3>. QED BY <3>1, <1>4, <1>6
  <2>3. CASE u < m
    <3>1. u + a <= m BY <2>1, <2>3, <1>5, <1>6, MultiplesApart
    <3>. QED BY <3>1, <1>4, <1>6
  <2>. QED BY <2>1, <2>2, <2>3
<1>7. NextMultiple(n, a) = u
  <2>1. \E m \in n..(n + a - 1) : m % a = 0 BY <1>4, <1>5
  <2>2. NextMultiple(n, a) \in n..(n + a - 1) /\ NextMultiple(n, a) % a = 0
    BY <2>1 DEF NextMultiple
  <2>. QED BY <2>2, <1>6
<1>. QED BY <1>4, <1>5, <1>6, <1>7 DEF u

LEMMA NextIs ==
  ASSUME NEW n \in Nat, NEW a \in Nat \ {0}, NEW m \in Int, n <= m, m < n + a, m % a = 0
  PROVE  NextMultiple(n, a) = m
  BY RoundUpIsNext

LEMMA RoundUpMultiple ==
  ASSUME NEW n \in Nat, NEW a \in Nat \ {0}, n % a = 0
  PROVE  RoundUp(n, a) = n
  BY RoundUpIsNext

(* It is the least multiple that is not below. *)
LEMMA RoundUpIsLeast ==
  ASSUME NEW n \in Nat, NEW a \in Nat \ {0}, NEW m \in Int, n <= m, m % a = 0
  PROVE  RoundUp(n, a) <= m
<1>. DEFINE u == RoundUp(n, a)
<1>1. u \in Nat /\ u % a = 0 /\ u < n + a BY RoundUpIsNext
<1>. HIDE DEF u
<1>2. CASE m < u
  <2>1. u \in Int BY <1>1
  <2>2. m + a <= u BY <1>1, <1>2, <2>1, MultiplesApart
  <2>. QED BY <1>1, <2>2
<1>. QED BY <1>1, <1>2 DEF u

(* Rounding up twice, to a multiple of the first alignment. *)
LEMMA RoundUpTwice ==
  ASSUME NEW n \in Nat, NEW a \in Nat \ {0}, NEW b \in Nat \ {0}, b % a = 0
  PROVE  RoundUp(RoundUp(n, a), b) = RoundUp(n, b)
<1>. DEFINE u == RoundUp(n, a)
            v == RoundUp(u, b)
            w == RoundUp(n, b)
<1>1. u \in Nat /\ n <= u BY RoundUpIsNext
<1>. HIDE DEF u
<1>2. v \in Nat /\ v % b = 0 /\ u <= v BY <1>1, RoundUpIsNext
<1>3. w \in Nat /\ w % b = 0 /\ n <= w BY RoundUpIsNext
<1>4. w % a = 0 BY <1>3, MultipleOfMultiple
<1>. HIDE DEF v, w
<1>5. u <= w BY <1>3, <1>4, RoundUpIsLeast DEF u
<1>6. v <= w BY <1>1, <1>3, <1>5, RoundUpIsLeast DEF v
<1>7. w <= v BY <1>1, <1>2, RoundUpIsLeast DEF w
<1>. QED BY <1>2, <1>3, <1>6, <1>7 DEF u, v, w

-----------------------------------------------------------------------------
(* Functions that are defined from one number to the next *)

LEMMA UptoInduction ==
  ASSUME NEW n \in Nat, NEW T \in SUBSET (0..n), 0 \in T, \A k \in T : k < n => k + 1 \in T
  PROVE  T = 0..n
<1>. DEFINE U == {k \in Nat : k <= n => k \in T}
<1>1. 0 \in U OBVIOUS
<1>2. \A k \in U : k + 1 \in U OBVIOUS
<1>. HIDE DEF U
<1>3. U = Nat BY <1>1, <1>2, NaturalInduction DEF U
<1>4. \A k \in 0..n : k \in T
  <2>. SUFFICES ASSUME NEW k \in 0..n PROVE k \in T OBVIOUS
  <2>1. k \in Nat /\ k <= n OBVIOUS
  <2>. QED BY <1>3, <2>1 DEF U
<1>. QED BY <1>4

IsRecursion(f, start, step, n) ==
  f = [k \in 0..n |-> IF k = 0 THEN start ELSE step[k - 1][f[k - 1]]]

LEMMA Recursion ==
  ASSUME NEW S, NEW start \in S, NEW step \in [Nat -> [S -> S]], NEW n \in Nat
  PROVE  \E f \in [0..n -> S] : IsRecursion(f, start, step, n)
<1>1. PICK g \in [Nat -> S] : Iterates(g, start, step) BY Iteration
<1>. DEFINE f == [k \in 0..n |-> g[k]]
<1>2. f \in [0..n -> S] OBVIOUS
<1>3. \A k \in 0..n : g[k] = IF k = 0 THEN start ELSE step[k - 1][f[k - 1]]
  <2>. SUFFICES ASSUME NEW k \in 0..n, k # 0 PROVE g[k] = step[k - 1][f[k - 1]]
    BY <1>1 DEF Iterates
  <2>1. k - 1 \in Nat /\ k - 1 \in 0..n /\ (k - 1) + 1 = k OBVIOUS
  <2>2. g[(k - 1) + 1] = step[k - 1][g[k - 1]] BY <1>1, <2>1 DEF Iterates
  <2>. QED BY <2>1, <2>2
<1>4. f = [k \in 0..n |-> IF k = 0 THEN start ELSE step[k - 1][f[k - 1]]] BY <1>3
<1>. QED BY <1>2, <1>4 DEF IsRecursion

-----------------------------------------------------------------------------
(* Alignments *)

Alignments == {s.align : s \in Scalars}

LEMMA AlignmentsDivide ==
  /\ Alignments \subseteq Nat \ {0}
  /\ \A a, b \in Alignments : a <= b => b % a = 0
<1>1. Alignments \subseteq Nat \ {0} BY ScalarsAssumption DEF Alignments
<1>2. ASSUME NEW a \in Alignments, NEW b \in Alignments, a <= b PROVE b % a = 0
  <2>1. a % b = 0 \/ b % a = 0 BY ScalarsAssumption DEF Alignments
  <2>2. a \in Nat \ {0} /\ b \in Nat \ {0} BY <1>1
  <2>3. CASE a % b = 0
    <3>1. 0 % b = 0 /\ 0 \in Int /\ a \in Int /\ 0 < a
      <4>1. 0 = 0 * b BY <2>2
      <4>. QED BY <2>2, <4>1, MultipleIs
    <3>2. 0 + b <= a BY <2>2, <2>3, <3>1, MultiplesApart
    <3>3. a = b BY <1>2, <2>2, <3>2
    <3>. QED BY <2>3, <3>3
  <2>. QED BY <2>1, <2>3
<1>. QED BY <1>1, <1>2

-----------------------------------------------------------------------------
(* The ffi_type of a type, and that of a record while it grows *)

Ffis == [size : Nat, align : Nat]

IsLibffi(f) ==
  /\ f \in Ffis /\ f.size > 0 /\ f.align \in Alignments
  /\ f.size % f.align = 0

IsBase(b) == IsLibffi(b.ffi) /\ b.n \in Nat

LEMMA FfiParts ==
  ASSUME NEW size, NEW align
  PROVE  /\ Ffi(size, align).size = size /\ Ffi(size, align).align = align
         /\ size \in Nat /\ align \in Nat => Ffi(size, align) \in Ffis
  BY DEF Ffi, Ffis

(* One element after another fits without a gap. *)
LEMMA AddElementsIs ==
  ASSUME NEW s \in Ffis, NEW b, IsBase(b)
  PROVE  AddElements(s, b) =
           IF b.n = 0 THEN s
           ELSE Ffi(RoundUp(s.size, b.ffi.align) + b.ffi.size * b.n, Larger(s.align, b.ffi.align))
<1>. DEFINE n == b.n
            z == b.ffi.size
            a == b.ffi.align
            u == RoundUp(s.size, a)
            step == [j \in Nat |-> [x \in Ffis |-> AddElement(x, b.ffi)]]
            after[j \in 0..n] == IF j = 0 THEN s ELSE AddElement(after[j - 1], b.ffi)
<1>1. n \in Nat /\ z \in Nat \ {0} /\ a \in Nat \ {0} /\ z % a = 0
  BY AlignmentsDivide DEF IsBase, IsLibffi, Ffis
<1>2. s.size \in Nat /\ s.align \in Nat BY DEF Ffis
<1>3. u \in Nat /\ u % a = 0 BY <1>1, <1>2, RoundUpIsNext
<1>4. \A x \in Ffis : AddElement(x, b.ffi) \in Ffis
  <2>. SUFFICES ASSUME NEW x \in Ffis PROVE AddElement(x, b.ffi) \in Ffis OBVIOUS
  <2>1. x.size \in Nat /\ x.align \in Nat BY DEF Ffis
  <2>2. RoundUp(x.size, a) \in Nat BY <1>1, <2>1, RoundUpIsNext
  <2>. HIDE DEF a, z
  <2>3. RoundUp(x.size, a) + z \in Nat /\ Larger(x.align, a) \in Nat
    BY <1>1, <2>1, <2>2 DEF Larger
  <2>. QED BY <2>3, FfiParts DEF AddElement, a, z
<1>5. after = [j \in 0..n |-> IF j = 0 THEN s ELSE AddElement(after[j - 1], b.ffi)]
  <2>. HIDE DEF n
  <2>1. step \in [Nat -> [Ffis -> Ffis]] BY <1>4
  <2>2. \A j \in Nat : \A x \in Ffis : step[j][x] = AddElement(x, b.ffi) OBVIOUS
  <2>. HIDE DEF step
  <2>3. PICK f \in [0..n -> Ffis] : IsRecursion(f, s, step, n)
    BY <1>1, <2>1, Recursion
  <2>4. \A j \in 0..n : j # 0 => step[j - 1][f[j - 1]] = AddElement(f[j - 1], b.ffi)
    <3>. SUFFICES ASSUME NEW j \in 0..n, j # 0 PROVE step[j - 1][f[j - 1]] = AddElement(f[j - 1], b.ffi)
      OBVIOUS
    <3>1. j - 1 \in Nat /\ j - 1 \in 0..n BY <1>1
    <3>. QED BY <2>2, <2>3, <3>1
  <2>5. f = [j \in 0..n |-> IF j = 0 THEN s ELSE AddElement(f[j - 1], b.ffi)]
    BY <2>3, <2>4, Zenon DEF IsRecursion
  <2>. QED BY <2>5, Zenon
<1>. HIDE DEF after
<1>. DEFINE Closed(j) == IF j = 0 THEN s ELSE Ffi(u + z * j, Larger(s.align, a))
            T == {j \in 0..n : after[j] = Closed(j)}
<1>6. 0 \in T BY <1>1, <1>5
<1>7. ASSUME NEW j \in T, j < n PROVE j + 1 \in T
  <2>1. j \in 0..n /\ j + 1 \in 0..n /\ j + 1 # 0 /\ (j + 1) - 1 = j BY <1>1, <1>7
  <2>2. after[j + 1] = AddElement(after[j], b.ffi) BY <1>5, <2>1
  <2>3. after[j] = Closed(j) OBVIOUS
  <2>. HIDE DEF after, u, z, a, n, T
  <2>4. CASE j = 0
    <3>1. after[j] = s BY <2>3, <2>4
    <3>2. z * (j + 1) = z BY <1>1, <2>4
    <3>3. AddElement(s, b.ffi) = Ffi(u + z, Larger(s.align, a)) BY DEF AddElement, u, a, z
    <3>. QED BY <2>1, <2>2, <3>1, <3>2, <3>3 DEF T
  <2>5. CASE j # 0
    <3>. DEFINE p == u + z * j
    <3>1. after[j] = Ffi(p, Larger(s.align, a)) BY <2>3, <2>5
    <3>2. j \in Nat /\ z \in Nat BY <1>1, <2>1
    <3>3. z * j \in Nat /\ (z * j) % a = 0 BY <1>1, <3>2, MultipleRepeated
    <3>4. p \in Nat /\ p % a = 0
      <4>. DEFINE w == z * j
      <4>1. w \in Nat /\ w % a = 0 BY <3>3
      <4>. HIDE DEF w
      <4>2. u \in Int /\ w \in Int /\ u + w \in Nat BY <1>3, <4>1
      <4>3. (u + w) % a = 0 BY <1>1, <1>3, <4>1, <4>2, MultiplesAdd
      <4>. QED BY <4>2, <4>3 DEF w
    <3>5. p + z = u + z * (j + 1) BY <1>1, <1>3, <3>2
    <3>. HIDE DEF p
    <3>6. RoundUp(p, a) = p BY <1>1, <3>4, RoundUpMultiple
    <3>7. Larger(Larger(s.align, a), a) = Larger(s.align, a) BY <1>1, <1>2 DEF Larger
    <3>8. AddElement(Ffi(p, Larger(s.align, a)), b.ffi) = Ffi(p + z, Larger(s.align, a))
      BY <3>6, <3>7, FfiParts DEF AddElement, a, z
    <3>. QED BY <2>1, <2>2, <3>1, <3>5, <3>8 DEF T
  <2>. QED BY <2>4, <2>5
<1>8. T = 0..n
  <2>. HIDE DEF n, T
  <2>1. T \in SUBSET (0..n) BY DEF T
  <2>. QED BY <1>1, <1>6, <1>7, <2>1, UptoInduction
<1>9. AddElements(s, b) = after[n] BY DEF AddElements, after
<1>. QED BY <1>1, <1>8, <1>9

Measured(fields) ==
  Len(fields) \in Nat /\ \A i \in 1..Len(fields) : IsBase(fields[i].type.base)

LEMMA BaseParts ==
  ASSUME NEW b, IsBase(b)
  PROVE  /\ b.n \in Nat /\ b.ffi.size \in Nat \ {0}
         /\ b.ffi.align \in Nat \ {0} /\ b.ffi.align \in Alignments
         /\ b.ffi.size % b.ffi.align = 0
         /\ b.ffi.size * b.n \in Nat /\ (b.ffi.size * b.n) % b.ffi.align = 0
         /\ (b.n # 0 => b.ffi.size * b.n > 0)
<1>. DEFINE z == b.ffi.size
            a == b.ffi.align
            n == b.n
<1>1. n \in Nat /\ z \in Nat \ {0} /\ a \in Nat \ {0} /\ a \in Alignments /\ z % a = 0
  BY AlignmentsDivide DEF IsBase, IsLibffi, Ffis
<1>. HIDE DEF z, a, n
<1>2. z * n \in Nat /\ (z * n) % a = 0 BY <1>1, MultipleRepeated
<1>3. n # 0 => z * n > 0
  <2>. SUFFICES ASSUME n # 0 PROVE z * n > 0 OBVIOUS
  <2>1. z \in Nat /\ n - 1 \in Nat BY <1>1
  <2>2. z * (n - 1) >= 0 BY <2>1
  <2>. QED BY <1>1, <2>1, <2>2
<1>. QED BY <1>1, <1>2, <1>3 DEF z, a, n

(* One member more. *)
Grow(uni, s, b) == IF uni THEN Cover(s, b) ELSE AddElements(s, b)

LEMMA GrowTyped ==
  ASSUME NEW uni \in BOOLEAN, NEW s \in Ffis, NEW b, IsBase(b)
  PROVE  /\ Grow(uni, s, b) \in Ffis
         /\ uni => Grow(uni, s, b) = Ffi(Larger(s.size, b.ffi.size * b.n), Larger(s.align, b.ffi.align))
         /\ ~uni /\ b.n = 0 => Grow(uni, s, b) = s
         /\ ~uni /\ b.n # 0 => Grow(uni, s, b) = Ffi(RoundUp(s.size, b.ffi.align) + b.ffi.size * b.n,
                                                    Larger(s.align, b.ffi.align))
<1>. DEFINE z == b.ffi.size * b.n
            a == b.ffi.align
            u == RoundUp(s.size, a)
<1>1. s.size \in Nat /\ s.align \in Nat BY DEF Ffis
<1>2. z \in Nat /\ a \in Nat \ {0} BY BaseParts
<1>3. u \in Nat BY <1>1, <1>2, RoundUpIsNext
<1>. HIDE DEF z, a, u
<1>4. Larger(s.size, z) \in Nat /\ Larger(s.align, a) \in Nat /\ u + z \in Nat
  BY <1>1, <1>2, <1>3 DEF Larger
<1>5. CASE uni
  <2>1. Grow(uni, s, b) = Ffi(Larger(s.size, z), Larger(s.align, a)) BY <1>5 DEF Grow, Cover, z, a
  <2>2. Grow(uni, s, b) \in Ffis BY <1>4, <2>1, FfiParts
  <2>. QED BY <1>5, <2>1, <2>2 DEF z, a
<1>6. CASE ~uni
  <2>1. Grow(uni, s, b) = IF b.n = 0 THEN s ELSE Ffi(u + z, Larger(s.align, a))
    BY <1>6, AddElementsIs DEF Grow, z, a, u
  <2>. QED BY <1>4, <1>6, <2>1, FfiParts DEF z, a, u
<1>. QED BY <1>5, <1>6

LEMMA GrownIs ==
  ASSUME NEW uni \in BOOLEAN, NEW fields, Measured(fields)
  PROVE  /\ Grown(uni, fields, 0) = Ffi(0, 0)
         /\ \A i \in 0..Len(fields) : Grown(uni, fields, i) \in Ffis
         /\ \A i \in 1..Len(fields) :
              Grown(uni, fields, i) = Grow(uni, Grown(uni, fields, i - 1), fields[i].type.base)
<1>. DEFINE n == Len(fields)
            B(k) == fields[k].type.base
            step == [k \in Nat |-> [s \in Ffis |-> IF k < n THEN Grow(uni, s, B(k + 1)) ELSE s]]
            after[k \in 0..n] ==
              IF k = 0 THEN Ffi(0, 0)
              ELSE IF uni THEN Cover(after[k - 1], fields[k].type.base)
              ELSE AddElements(after[k - 1], fields[k].type.base)
<1>1. n \in Nat /\ \A k \in 1..n : IsBase(B(k)) BY DEF Measured
<1>2. Ffi(0, 0) \in Ffis BY FfiParts
<1>. HIDE DEF n, B
<1>3. after = [k \in 0..n |-> IF k = 0 THEN Ffi(0, 0) ELSE Grow(uni, after[k - 1], B(k))]
  <2>1. step \in [Nat -> [Ffis -> Ffis]]
    <3>1. ASSUME NEW k \in Nat, NEW s \in Ffis, k < n PROVE Grow(uni, s, B(k + 1)) \in Ffis
      <4>1. k + 1 \in 1..n BY <1>1, <3>1
      <4>. QED BY <1>1, <4>1, GrowTyped
    <3>. QED BY <3>1
  <2>2. \A k \in Nat : \A s \in Ffis : k < n => step[k][s] = Grow(uni, s, B(k + 1)) OBVIOUS
  <2>. HIDE DEF step
  <2>3. PICK f \in [0..n -> Ffis] : IsRecursion(f, Ffi(0, 0), step, n)
    BY <1>1, <1>2, <2>1, Recursion
  <2>4. \A k \in 0..n : k # 0 => step[k - 1][f[k - 1]] = Grow(uni, f[k - 1], B(k))
    <3>. SUFFICES ASSUME NEW k \in 0..n, k # 0 PROVE step[k - 1][f[k - 1]] = Grow(uni, f[k - 1], B(k))
      OBVIOUS
    <3>1. k - 1 \in Nat /\ k - 1 \in 0..n /\ k - 1 < n /\ (k - 1) + 1 = k BY <1>1
    <3>. QED BY <2>2, <2>3, <3>1
  <2>5. f = [k \in 0..n |-> IF k = 0 THEN Ffi(0, 0) ELSE Grow(uni, f[k - 1], B(k))]
    BY <2>3, <2>4, Zenon DEF IsRecursion
  <2>6. f = [k \in 0..n |-> IF k = 0 THEN Ffi(0, 0) ELSE IF uni THEN Cover(f[k - 1], fields[k].type.base)
                            ELSE AddElements(f[k - 1], fields[k].type.base)]
    BY <2>5, Zenon DEF Grow, B
  <2>7. after = [k \in 0..n |-> IF k = 0 THEN Ffi(0, 0) ELSE IF uni THEN Cover(after[k - 1], fields[k].type.base)
                            ELSE AddElements(after[k - 1], fields[k].type.base)]
    BY <2>6, Zenon
  <2>. HIDE DEF after
  <2>. QED BY <2>7, Zenon DEF Grow, B
<1>. HIDE DEF after
<1>4. \A k \in 1..n : k - 1 \in 0..n /\ k \in 0..n /\ k # 0 BY <1>1
<1>5. after[0] = Ffi(0, 0) /\ \A k \in 1..n : after[k] = Grow(uni, after[k - 1], B(k))
  BY <1>1, <1>3, <1>4
<1>6. \A k \in 0..n : after[k] \in Ffis
  <2>. DEFINE T == {k \in 0..n : after[k] \in Ffis}
  <2>1. 0 \in T BY <1>1, <1>2, <1>5
  <2>2. ASSUME NEW k \in T, k < n PROVE k + 1 \in T
    <3>1. k + 1 \in 1..n /\ (k + 1) - 1 = k BY <1>1, <2>2
    <3>2. after[k + 1] = Grow(uni, after[k], B(k + 1)) BY <1>5, <3>1
    <3>3. after[k + 1] \in Ffis BY <1>1, <3>1, <3>2, GrowTyped
    <3>. QED BY <3>1, <3>3
  <2>3. T \in SUBSET (0..n) OBVIOUS
  <2>. HIDE DEF T
  <2>4. T = 0..n BY <1>1, <2>1, <2>2, <2>3, UptoInduction
  <2>. QED BY <2>4 DEF T
<1>7. \A k : Grown(uni, fields, k) = after[k] BY DEF Grown, after, n
<1>. QED BY <1>4, <1>5, <1>6, <1>7 DEF n, B

(* Where a record ends after some of its members, in the code and in C *)
Follow(uni, from, b) ==
  IF uni THEN RoundUp(from, b.ffi.align) ELSE RoundUp(from, b.ffi.align) + b.ffi.size * b.n

LEMMA FollowTyped ==
  ASSUME NEW uni \in BOOLEAN, NEW from \in Nat, NEW b, IsBase(b)
  PROVE  /\ Follow(uni, from, b) \in Nat /\ RoundUp(from, b.ffi.align) \in Nat
         /\ NextMultiple(from, b.ffi.align) = RoundUp(from, b.ffi.align)
<1>. DEFINE z == b.ffi.size * b.n
            u == RoundUp(from, b.ffi.align)
<1>1. z \in Nat BY BaseParts
<1>2. b.ffi.align \in Nat \ {0} BY BaseParts
<1>3. u \in Nat /\ NextMultiple(from, b.ffi.align) = u BY <1>2, RoundUpIsNext
<1>. HIDE DEF z, u
<1>4. u + z \in Nat BY <1>1, <1>3
<1>. QED BY <1>3, <1>4 DEF Follow, z, u

IsFollowed(f, uni, fields) ==
  f = [k \in 0..Len(fields) |-> IF k = 0 THEN 0 ELSE Follow(uni, f[k - 1], fields[k].type.base)]

LEMMA FollowRecursion ==
  ASSUME NEW uni \in BOOLEAN, NEW fields, Measured(fields)
  PROVE  \E f \in [0..Len(fields) -> Nat] : IsFollowed(f, uni, fields)
<1>. DEFINE n == Len(fields)
            B(k) == fields[k].type.base
            step == [k \in Nat |-> [x \in Nat |-> IF k < n THEN Follow(uni, x, B(k + 1)) ELSE x]]
<1>1. n \in Nat /\ \A k \in 1..n : IsBase(B(k)) BY DEF Measured
<1>. HIDE DEF n, B
<1>2. step \in [Nat -> [Nat -> Nat]]
  <2>1. ASSUME NEW k \in Nat, NEW x \in Nat, k < n PROVE Follow(uni, x, B(k + 1)) \in Nat
    <3>1. k + 1 \in 1..n BY <1>1, <2>1
    <3>. QED BY <1>1, <3>1, FollowTyped
  <2>. QED BY <2>1
<1>3. \A k \in Nat : \A x \in Nat : k < n => step[k][x] = Follow(uni, x, B(k + 1)) OBVIOUS
<1>. HIDE DEF step
<1>4. PICK f \in [0..n -> Nat] : IsRecursion(f, 0, step, n) BY <1>1, <1>2, Recursion
<1>5. \A k \in 0..n : k # 0 => step[k - 1][f[k - 1]] = Follow(uni, f[k - 1], B(k))
  <2>. SUFFICES ASSUME NEW k \in 0..n, k # 0 PROVE step[k - 1][f[k - 1]] = Follow(uni, f[k - 1], B(k))
    OBVIOUS
  <2>1. k - 1 \in Nat /\ k - 1 \in 0..n /\ k - 1 < n /\ (k - 1) + 1 = k BY <1>1
  <2>. QED BY <1>3, <1>4, <2>1
<1>6. f = [k \in 0..n |-> IF k = 0 THEN 0 ELSE Follow(uni, f[k - 1], B(k))]
  BY <1>4, <1>5, Zenon DEF IsRecursion
<1>. QED BY <1>6, Zenon DEF IsFollowed, n, B

LEMMA FollowUnique ==
  ASSUME NEW uni \in BOOLEAN, NEW fields, Measured(fields), NEW f, IsFollowed(f, uni, fields)
  PROVE  /\ f[0] = 0 /\ \A k \in 0..Len(fields) : f[k] \in Nat
         /\ \A k \in 1..Len(fields) : f[k] = Follow(uni, f[k - 1], fields[k].type.base)
<1>. DEFINE n == Len(fields)
            B(k) == fields[k].type.base
            T == {k \in 0..n : f[k] \in Nat}
<1>1. n \in Nat /\ \A k \in 1..n : IsBase(B(k)) BY DEF Measured
<1>2. \A k \in 1..n : k - 1 \in 0..n /\ k \in 0..n /\ k # 0 BY <1>1
<1>3. f[0] = 0 /\ \A k \in 1..n : f[k] = Follow(uni, f[k - 1], B(k))
  BY <1>1, <1>2 DEF IsFollowed
<1>. HIDE DEF n, B
<1>4. 0 \in T BY <1>1, <1>3
<1>5. ASSUME NEW k \in T, k < n PROVE k + 1 \in T
  <2>1. k + 1 \in 1..n /\ (k + 1) - 1 = k BY <1>1, <1>5
  <2>2. f[k + 1] = Follow(uni, f[k], B(k + 1)) BY <1>3, <2>1
  <2>3. f[k + 1] \in Nat BY <1>1, <2>1, <2>2, FollowTyped
  <2>. QED BY <2>1, <2>3
<1>6. T \in SUBSET (0..n) OBVIOUS
<1>. HIDE DEF T
<1>7. T = 0..n BY <1>1, <1>4, <1>5, <1>6, UptoInduction
<1>. QED BY <1>3, <1>7 DEF T, n, B

LEMMA BaseAfterIs ==
  ASSUME NEW uni \in BOOLEAN, NEW fields, Measured(fields)
  PROVE  /\ BaseAfter(uni, fields, 0) = 0
         /\ \A i \in 0..Len(fields) : BaseAfter(uni, fields, i) \in Nat
         /\ \A i \in 1..Len(fields) :
              BaseAfter(uni, fields, i) = Follow(uni, BaseAfter(uni, fields, i - 1), fields[i].type.base)
<1>. DEFINE after[k \in 0..Len(fields)] ==
              IF k = 0 THEN 0
              ELSE LET b == fields[k].type.base
                       base == RoundUp(after[k - 1], b.ffi.align)
                   IN  IF uni THEN base ELSE base + b.ffi.size * b.n
<1>1. PICK f : IsFollowed(f, uni, fields)
  BY FollowRecursion
<1>2. IsFollowed(after, uni, fields)
  BY <1>1, Zenon DEF Follow, IsFollowed
<1>3. \A k : BaseAfter(uni, fields, k) = after[k] BY DEF BaseAfter
<1>. HIDE DEF after
<1>4. /\ after[0] = 0 /\ \A k \in 0..Len(fields) : after[k] \in Nat
      /\ \A k \in 1..Len(fields) : after[k] = Follow(uni, after[k - 1], fields[k].type.base)
  BY <1>2, FollowUnique
<1>. QED BY <1>3, <1>4

LEMMA CEndIs ==
  ASSUME NEW r, Measured(r.fields)
  PROVE  /\ CEnd(r, 0) = 0
         /\ \A i \in 0..Len(r.fields) : CEnd(r, i) \in Nat
         /\ \A i \in 1..Len(r.fields) : CEnd(r, i) = Follow(FALSE, CEnd(r, i - 1), r.fields[i].type.base)
<1>. DEFINE fields == r.fields
            n == Len(fields)
            C(x, k) == NextMultiple(x, Align(fields[k].type)) + Size(fields[k].type)
            F(x, k) == Follow(FALSE, x, fields[k].type.base)
            end[k \in 0..n] == IF k = 0 THEN 0 ELSE C(end[k - 1], k)
<1>1. n \in Nat /\ \A k \in 1..n : IsBase(fields[k].type.base) BY DEF Measured
<1>2. \A k \in 1..n : \A x \in Nat : C(x, k) = F(x, k)
  <2>. SUFFICES ASSUME NEW k \in 1..n, NEW x \in Nat PROVE C(x, k) = F(x, k) OBVIOUS
  <2>1. NextMultiple(x, fields[k].type.base.ffi.align) = RoundUp(x, fields[k].type.base.ffi.align)
    BY <1>1, FollowTyped
  <2>. QED BY <2>1 DEF Follow, Align, Size
<1>3. PICK f \in [0..n -> Nat] : f = [k \in 0..n |-> IF k = 0 THEN 0 ELSE F(f[k - 1], k)]
  BY FollowRecursion DEF IsFollowed
<1>. HIDE DEF C, F
<1>4. f = [k \in 0..n |-> IF k = 0 THEN 0 ELSE C(f[k - 1], k)]
  <2>1. \A k \in 0..n : k # 0 => C(f[k - 1], k) = F(f[k - 1], k)
    <3>. SUFFICES ASSUME NEW k \in 0..n, k # 0 PROVE C(f[k - 1], k) = F(f[k - 1], k) OBVIOUS
    <3>1. k \in 1..n /\ k - 1 \in 0..n BY <1>1
    <3>. QED BY <1>2, <1>3, <3>1
  <2>. QED BY <1>3, <2>1, Zenon
<1>5. end = [k \in 0..n |-> IF k = 0 THEN 0 ELSE C(end[k - 1], k)] BY <1>4, Zenon
<1>6. \A k : CEnd(r, k) = end[k] BY DEF CEnd, C
<1>. HIDE DEF end, n
<1>7. end[0] = 0 /\ \A k \in 1..n : end[k] = C(end[k - 1], k)
  <2>1. \A k \in 1..n : k - 1 \in 0..n /\ k \in 0..n /\ k # 0 BY <1>1
  <2>. QED BY <1>1, <1>5, <2>1
<1>8. \A k \in 0..n : end[k] \in Nat
  <2>. DEFINE T == {k \in 0..n : end[k] \in Nat}
  <2>1. 0 \in T BY <1>1, <1>7
  <2>2. ASSUME NEW k \in T, k < n PROVE k + 1 \in T
    <3>1. k + 1 \in 1..n /\ (k + 1) - 1 = k BY <1>1, <2>2
    <3>2. end[k + 1] = F(end[k], k + 1) BY <1>2, <1>7, <3>1
    <3>3. end[k + 1] \in Nat BY <1>1, <3>1, <3>2, FollowTyped DEF F
    <3>. QED BY <3>1, <3>3
  <2>3. T \in SUBSET (0..n) OBVIOUS
  <2>. HIDE DEF T
  <2>4. T = 0..n BY <1>1, <2>1, <2>2, <2>3, UptoInduction
  <2>. QED BY <2>4 DEF T
<1>9. \A k \in 1..n : end[k] = F(end[k - 1], k)
  <2>1. \A k \in 1..n : k - 1 \in 0..n BY <1>1
  <2>. QED BY <1>2, <1>7, <1>8, <2>1
<1>. QED BY <1>6, <1>7, <1>8, <1>9 DEF n, F

(* In a structure the code and C go on together. *)
LEMMA CEndIsBaseAfter ==
  ASSUME NEW r, Measured(r.fields)
  PROVE  \A i \in 0..Len(r.fields) : CEnd(r, i) = BaseAfter(FALSE, r.fields, i)
<1>. DEFINE n == Len(r.fields)
            C(i) == CEnd(r, i)
            L(i) == BaseAfter(FALSE, r.fields, i)
            T == {i \in 0..n : C(i) = L(i)}
<1>1. n \in Nat BY DEF Measured
<1>2. C(0) = 0 /\ \A i \in 1..n : C(i) = Follow(FALSE, C(i - 1), r.fields[i].type.base)
  BY CEndIs
<1>3. L(0) = 0 /\ \A i \in 1..n : L(i) = Follow(FALSE, L(i - 1), r.fields[i].type.base)
  BY BaseAfterIs
<1>. HIDE DEF n, C, L
<1>4. 0 \in T BY <1>1, <1>2, <1>3
<1>5. ASSUME NEW k \in T, k < n PROVE k + 1 \in T
  <2>1. k + 1 \in 1..n /\ k + 1 \in 0..n /\ (k + 1) - 1 = k BY <1>1, <1>5
  <2>. QED BY <2>1, <1>2, <1>3
<1>6. T \in SUBSET (0..n) OBVIOUS
<1>. HIDE DEF T
<1>7. T = 0..n BY <1>1, <1>4, <1>5, <1>6, UptoInduction
<1>. QED BY <1>7 DEF T, n, C, L

-----------------------------------------------------------------------------
(* What a record has grown to *)

(* Its alignment is one of a builtin type as soon as it has a size. *)
LEMMA GrownAligned ==
  ASSUME NEW uni \in BOOLEAN, NEW fields, Measured(fields), NEW k \in 0..Len(fields)
  PROVE  /\ Grown(uni, fields, k).size \in Nat
         /\ Grown(uni, fields, k).align \in Alignments \cup {0}
         /\ (\E i \in 1..k : fields[i].type.base.n # 0)
              => Grown(uni, fields, k).size > 0 /\ Grown(uni, fields, k).align \in Alignments
<1>. DEFINE n == Len(fields)
            B(i) == fields[i].type.base
            G(i) == Grown(uni, fields, i)
            Ok(i) == /\ G(i).align \in Alignments \cup {0}
                     /\ (\E j \in 1..i : B(j).n # 0) => G(i).size > 0 /\ G(i).align \in Alignments
            T == {i \in 0..n : Ok(i)}
<1>1. n \in Nat /\ \A i \in 1..n : IsBase(B(i)) BY DEF Measured
<1>2. /\ G(0) = Ffi(0, 0) /\ \A i \in 0..n : G(i) \in Ffis
      /\ \A i \in 1..n : G(i) = Grow(uni, G(i - 1), B(i))
  BY GrownIs
<1>. HIDE DEF n, B, G
<1>3. 0 \in T
  <2>1. G(0).align = 0 BY <1>2, FfiParts
  <2>. QED BY <1>1, <2>1
<1>4. ASSUME NEW i \in T, i < n PROVE i + 1 \in T
  <2>. DEFINE b == B(i + 1)
              s == G(i)
              g == G(i + 1)
  <2>1. i + 1 \in 1..n /\ i + 1 \in 0..n /\ (i + 1) - 1 = i /\ i \in 0..n BY <1>1, <1>4
  <2>2. g = Grow(uni, s, b) BY <1>2, <2>1
  <2>3. IsBase(b) BY <1>1, <2>1
  <2>4. s \in Ffis /\ s.size \in Nat /\ s.align \in Nat BY <1>2, <2>1 DEF Ffis
  <2>5. Ok(i) OBVIOUS
  <2>6. \A j \in 1..(i + 1) : j \in 1..i \/ j = i + 1 BY <2>1, <1>1
  <2>. DEFINE z == b.ffi.size * b.n
              a == b.ffi.align
  <2>7. b.n \in Nat /\ z \in Nat /\ (b.n # 0 => z > 0) /\ a \in Nat \ {0} /\ a \in Alignments
    BY <2>3, BaseParts
  <2>. HIDE DEF T, b
  <2>8. CASE ~uni /\ b.n = 0
    <3>1. g = s BY <2>2, <2>3, <2>4, <2>8, GrowTyped
    <3>2. (\E j \in 1..(i + 1) : B(j).n # 0) => \E j \in 1..i : B(j).n # 0 BY <2>6, <2>8 DEF b
    <3>3. Ok(i + 1) BY <2>5, <3>1, <3>2
    <3>. QED BY <2>1, <3>3 DEF T
  <2>9. CASE uni \/ b.n # 0
    <3>. DEFINE top == IF uni THEN Larger(s.size, z) ELSE RoundUp(s.size, a) + z
    <3>1. g = Ffi(top, Larger(s.align, a)) BY <2>2, <2>3, <2>4, <2>9, GrowTyped
    <3>2. g.size = top /\ g.align = Larger(s.align, a) BY <3>1, FfiParts
    <3>3. RoundUp(s.size, a) \in Nat BY <2>4, <2>7, RoundUpIsNext
    <3>. HIDE DEF z, a
    <3>4. Larger(s.align, a) \in Alignments BY <2>4, <2>5, <2>7 DEF Larger
    <3>5. b.n # 0 => top > 0 BY <2>4, <2>7, <3>3 DEF Larger
    <3>6. uni /\ s.size > 0 => top > 0 BY <2>4, <2>7 DEF Larger
    <3>7. (\E j \in 1..(i + 1) : B(j).n # 0) => top > 0
      <4>. SUFFICES ASSUME NEW j \in 1..(i + 1), B(j).n # 0 PROVE top > 0 OBVIOUS
      <4>. HIDE DEF top
      <4>1. CASE j \in 1..i BY <2>5, <2>9, <3>5, <3>6, <4>1
      <4>2. CASE j = i + 1 BY <3>5, <4>2 DEF b
      <4>. QED BY <2>6, <4>1, <4>2
    <3>. HIDE DEF top
    <3>8. Ok(i + 1) BY <3>2, <3>4, <3>7
    <3>. QED BY <2>1, <3>8 DEF T
  <2>. QED BY <2>8, <2>9
<1>5. T \in SUBSET (0..n) OBVIOUS
<1>. HIDE DEF Ok, T
<1>6. T = 0..n BY <1>1, <1>3, <1>4, <1>5, UptoInduction
<1>7. k \in 0..n BY DEF n
<1>8. Ok(k) BY <1>6, <1>7 DEF T
<1>9. G(k).size \in Nat BY <1>2, <1>7 DEF Ffis
<1>. QED BY <1>8, <1>9 DEF Ok, G, B

(* When all members of a structure have elements: its alignment is the     *)
(* strictest of theirs, it ends where the last one ends; and a union is as *)
(* large as the largest.                                                   *)
LEMMA GrownExact ==
  ASSUME NEW uni \in BOOLEAN, NEW fields, Measured(fields), NEW k \in 0..Len(fields),
         \A i \in 1..k : uni \/ fields[i].type.base.n # 0
  PROVE  /\ \A i \in 1..k : Align(fields[i].type) <= Grown(uni, fields, k).align
         /\ \A i \in 1..k : uni => Size(fields[i].type) <= Grown(uni, fields, k).size
         /\ k > 0 => \E i \in 1..k : Grown(uni, fields, k).align = Align(fields[i].type)
         /\ k > 0 /\ uni => \E i \in 1..k : Grown(uni, fields, k).size = Size(fields[i].type)
         /\ ~uni => Grown(uni, fields, k).size = BaseAfter(uni, fields, k)
<1>. DEFINE n == Len(fields)
            B(i) == fields[i].type.base
            Z(i) == Size(fields[i].type)
            A(i) == Align(fields[i].type)
            G(i) == Grown(uni, fields, i)
            E(i) == BaseAfter(uni, fields, i)
            Ok(i) == /\ \A j \in 1..i : A(j) <= G(i).align
                     /\ \A j \in 1..i : uni => Z(j) <= G(i).size
                     /\ i > 0 => \E j \in 1..i : G(i).align = A(j)
                     /\ i > 0 /\ uni => \E j \in 1..i : G(i).size = Z(j)
                     /\ ~uni => G(i).size = E(i)
            T == {i \in 0..k : Ok(i)}
<1>1. n \in Nat /\ k \in Nat /\ \A i \in 1..k : i \in 1..n /\ IsBase(B(i)) BY DEF Measured
<1>2. /\ G(0) = Ffi(0, 0) /\ \A i \in 0..n : G(i) \in Ffis
      /\ \A i \in 1..n : G(i) = Grow(uni, G(i - 1), B(i))
  BY GrownIs
<1>3. E(0) = 0 /\ \A i \in 1..n : E(i) = Follow(uni, E(i - 1), B(i))
  BY BaseAfterIs
<1>4. \A i \in 1..k : /\ Z(i) = B(i).ffi.size * B(i).n /\ A(i) = B(i).ffi.align
                      /\ Z(i) \in Nat /\ A(i) \in Nat \ {0}
  <2>. SUFFICES ASSUME NEW i \in 1..k
                PROVE  /\ Z(i) = B(i).ffi.size * B(i).n /\ A(i) = B(i).ffi.align
                       /\ Z(i) \in Nat /\ A(i) \in Nat \ {0}
    OBVIOUS
  <2>1. B(i).ffi.size * B(i).n \in Nat /\ B(i).ffi.align \in Nat \ {0} BY <1>1, BaseParts
  <2>. QED BY <2>1 DEF Size, Align
<1>5. \A i \in 1..k : uni \/ B(i).n # 0 OBVIOUS
<1>6. k <= n BY <1>1
<1>. HIDE DEF n, B, Z, A, G, E
<1>7. 0 \in T
  <2>1. G(0).size = 0 BY <1>2, FfiParts
  <2>. QED BY <1>1, <1>3, <2>1
<1>8. ASSUME NEW i \in T, i < k PROVE i + 1 \in T
  <2>. DEFINE b == B(i + 1)
              z == Z(i + 1)
              a == A(i + 1)
              s == G(i)
              g == G(i + 1)
              top == IF uni THEN Larger(s.size, z) ELSE RoundUp(s.size, a) + z
  <2>1. i + 1 \in 1..k /\ i + 1 \in 1..n /\ (i + 1) - 1 = i /\ i \in 0..n /\ i \in Nat BY <1>1, <1>6, <1>8
  <2>2. g = Grow(uni, s, b) /\ E(i + 1) = Follow(uni, E(i), b) BY <1>2, <1>3, <2>1
  <2>3. IsBase(b) /\ z = b.ffi.size * b.n /\ a = b.ffi.align /\ z \in Nat /\ a \in Nat \ {0}
        /\ (uni \/ b.n # 0)
    BY <1>1, <1>4, <1>5, <2>1
  <2>4. s \in Ffis /\ s.size \in Nat /\ s.align \in Nat BY <1>2, <2>1 DEF Ffis
  <2>5. Ok(i) OBVIOUS
  <2>6. \A j \in 1..(i + 1) : j \in 1..i \/ j = i + 1 BY <2>1
  <2>7. \A j \in 1..i : j \in 1..(i + 1) BY <2>1
  <2>8. i + 1 \in 1..(i + 1) BY <2>1
  <2>. HIDE DEF T, b
  <2>9. g = Ffi(top, Larger(s.align, a))
    <3>. HIDE DEF g, s, z, a
    <3>. QED BY <2>2, <2>3, <2>4, GrowTyped
  <2>10. g.size = top /\ g.align = Larger(s.align, a) BY <2>9, FfiParts
  <2>11. Ok(i + 1)
    <3>1. \A j \in 1..i : A(j) \in Nat /\ Z(j) \in Nat
      <4>1. \A j \in 1..i : j \in 1..k BY <1>1, <2>1
      <4>. QED BY <1>4, <4>1
    <3>2. \A j \in 1..(i + 1) : A(j) <= g.align
      <4>1. s.align <= Larger(s.align, a) /\ a <= Larger(s.align, a) /\ Larger(s.align, a) \in Nat
        BY <2>3, <2>4 DEF Larger
      <4>. QED BY <2>3, <2>4, <2>5, <2>6, <2>10, <3>1, <4>1
    <3>3. \A j \in 1..(i + 1) : uni => Z(j) <= g.size
      <4>1. s.size <= Larger(s.size, z) /\ z <= Larger(s.size, z) /\ Larger(s.size, z) \in Nat
        BY <2>3, <2>4 DEF Larger
      <4>. QED BY <2>3, <2>4, <2>5, <2>6, <2>10, <3>1, <4>1
    <3>4. \E j \in 1..(i + 1) : g.align = A(j)
      <4>1. CASE i = 0
        <5>1. s.align = 0 BY <1>2, <4>1, FfiParts
        <5>2. Larger(s.align, a) = a BY <2>3, <5>1 DEF Larger
        <5>. QED BY <2>8, <2>10, <5>2
      <4>2. CASE i # 0
        <5>1. PICK j \in 1..i : s.align = A(j) BY <2>1, <2>5, <4>2
        <5>2. Larger(s.align, a) = a \/ Larger(s.align, a) = s.align BY DEF Larger
        <5>. QED BY <2>7, <2>8, <2>10, <5>1, <5>2
      <4>. QED BY <4>1, <4>2
    <3>5. uni => \E j \in 1..(i + 1) : g.size = Z(j)
      <4>. SUFFICES ASSUME uni PROVE \E j \in 1..(i + 1) : g.size = Z(j) OBVIOUS
      <4>1. CASE i = 0
        <5>1. s.size = 0 BY <1>2, <4>1, FfiParts
        <5>2. Larger(s.size, z) = z BY <2>3, <5>1 DEF Larger
        <5>. QED BY <2>8, <2>10, <5>2
      <4>2. CASE i # 0
        <5>1. PICK j \in 1..i : s.size = Z(j) BY <2>1, <2>5, <4>2
        <5>2. Larger(s.size, z) = z \/ Larger(s.size, z) = s.size BY DEF Larger
        <5>. QED BY <2>7, <2>8, <2>10, <5>1, <5>2
      <4>. QED BY <4>1, <4>2
    <3>6. ~uni => g.size = E(i + 1)
      <4>. SUFFICES ASSUME ~uni PROVE g.size = E(i + 1) OBVIOUS
      <4>1. s.size = E(i) BY <2>5
      <4>2. E(i + 1) = RoundUp(E(i), a) + z BY <2>2, <2>3 DEF Follow
      <4>. QED BY <2>10, <4>1, <4>2
    <3>. HIDE DEF top
    <3>. QED BY <3>2, <3>3, <3>4, <3>5, <3>6
  <2>. QED BY <2>1, <2>11 DEF T
<1>9. T \in SUBSET (0..k) OBVIOUS
<1>. HIDE DEF Ok, T
<1>10. T = 0..k BY <1>1, <1>7, <1>8, <1>9, UptoInduction
<1>11. Ok(k) BY <1>1, <1>10 DEF T
<1>. QED BY <1>11 DEF Ok, G, A, Z, E

(* Padding before a flexible member rounds up to its alignment. *)
LEMMA PaddedIs ==
  ASSUME NEW f, IsLibffi(f), NEW a \in Alignments
  PROVE  /\ Padded(f, a) = Ffi(RoundUp(f.size, a), f.align)
         /\ IsLibffi(Padded(f, a))
<1>. DEFINE n == f.size
            b == f.align
            q == n \div a
            r == n % a
            x == n + a - r
<1>1. n \in Nat /\ n > 0 /\ b \in Alignments /\ n % b = 0 /\ f = Ffi(n, b)
  BY DEF IsLibffi, Ffis, Ffi
<1>2. a \in Nat \ {0} /\ b \in Nat \ {0} BY <1>1, AlignmentsDivide
<1>. HIDE DEF n, b
<1>3. q \in Int /\ r \in 0..(a - 1) /\ n = a * q + r BY <1>1, <1>2, Remainder
<1>4. CASE r = 0
  <2>1. Padded(f, a) = f BY <1>4 DEF Padded, n
  <2>2. RoundUp(n, a) = n BY <1>1, <1>2, <1>4, RoundUpMultiple
  <2>. QED BY <1>1, <2>1, <2>2 DEF n, b
<1>5. CASE r # 0
  <2>1. Padded(f, a) = Ffi(x, b) BY <1>5 DEF Padded, n, b
  <2>2. x = (q + 1) * a /\ q + 1 \in Int
    <3>. HIDE DEF q, r
    <3>. QED BY <1>2, <1>3
  <2>3. x \in Nat /\ n <= x /\ x < n + a /\ x > 0
    <3>. HIDE DEF q, r
    <3>. QED BY <1>1, <1>2, <1>3, <1>5
  <2>. HIDE DEF x
  <2>4. x \in Int /\ x % a = 0 BY <1>2, <2>2, <2>3, MultipleIs
  <2>5. RoundUp(n, a) = x BY <1>1, <1>2, <2>3, <2>4, RoundUpIsNext
  <2>6. b <= a
    <3>1. CASE a < b
      <4>1. b % a = 0 BY <1>1, <1>2, <3>1, AlignmentsDivide
      <4>2. n % a = 0 BY <1>1, <1>2, <4>1, MultipleOfMultiple
      <4>. QED BY <1>5, <4>2
    <3>. QED BY <1>2, <3>1
  <2>7. a % b = 0 BY <1>1, <2>6, AlignmentsDivide
  <2>8. x % b = 0 BY <1>2, <2>4, <2>7, MultipleOfMultiple
  <2>9. IsLibffi(Ffi(x, b)) BY <1>1, <1>2, <2>3, <2>8, FfiParts DEF IsLibffi
  <2>. QED BY <2>1, <2>5, <2>9 DEF n, b
<1>. QED BY <1>4, <1>5

AreFields(fields, T) ==
  /\ fields \in Seq([unnamed : BOOLEAN, type : T])
  /\ \A i \in 1..Len(fields) : fields[i].unnamed => fields[i].type.k = "record"
  /\ \A i \in 1..Len(fields) : i # Len(fields) => ~IsFlex(fields[i].type)

(* What is known of every type by itself. *)
IsSized(t) ==
  /\ IsBase(t.base)
  /\ t.k = "array" => IsBase(t.of.base) /\ t.base = Repeated(t.of.base.ffi, t.n * t.of.base.n)
  /\ t.k = "record" => t.base.n = 1

SomeSize(uni, fields) == \E i \in 1..FixedLen(uni, fields) : Size(fields[i].type) > 0

(* The strictest alignment, that of a flexible member included *)
Strictest(uni, fields) ==
  LET align == Grown(uni, fields, FixedLen(uni, fields)).align
  IN  IF Open(uni, fields) THEN Larger(align, LibffiType(fields[Len(fields)].type.of).align) ELSE align

LEMMA FieldsMeasured ==
  ASSUME NEW T, \A t \in T : IsSized(t), NEW fields, AreFields(fields, T), NEW uni \in BOOLEAN
  PROVE  /\ Measured(fields) /\ \A i \in 1..Len(fields) : fields[i].type \in T
         /\ FixedLen(uni, fields) \in 0..Len(fields)
         /\ Open(uni, fields) => /\ Len(fields) > 0 /\ FixedLen(uni, fields) = Len(fields) - 1
                                /\ LibffiType(fields[Len(fields)].type.of).align \in Alignments
<1>1. Len(fields) \in Nat /\ \A i \in 1..Len(fields) : fields[i].type \in T
  <2>. DEFINE F == [unnamed : BOOLEAN, type : T]
  <2>1. \A f \in F : f.type \in T OBVIOUS
  <2>2. fields \in Seq(F) BY DEF AreFields
  <2>. HIDE DEF F
  <2>3. Len(fields) \in Nat /\ \A i \in 1..Len(fields) : fields[i] \in F BY <2>2
  <2>. QED BY <2>1, <2>3
<1>2. Measured(fields) BY <1>1 DEF Measured, IsSized
<1>3. ASSUME Open(uni, fields)
      PROVE  /\ Len(fields) > 0 /\ FixedLen(uni, fields) = Len(fields) - 1
             /\ LibffiType(fields[Len(fields)].type.of).align \in Alignments
  <2>1. Len(fields) > 0 BY <1>3 DEF AreFields, Open, EndsFlex
  <2>2. fields[Len(fields)].type \in T BY <1>1, <2>1
  <2>3. IsBase(fields[Len(fields)].type.of.base) BY <1>3, <2>2 DEF IsSized, Open, EndsFlex, IsFlex
  <2>4. fields[Len(fields)].type.of.base.ffi.align \in Alignments BY <2>3, BaseParts
  <2>5. Pointer.align \in Alignments BY ScalarsAssumption DEF Alignments
  <2>. QED BY <1>3, <2>1, <2>4, <2>5 DEF LibffiType, FixedLen
<1>4. FixedLen(uni, fields) \in 0..Len(fields) BY <1>1, <1>3 DEF FixedLen
<1>. QED BY <1>1, <1>2, <1>3, <1>4

(* A record is rounded up to the strictest alignment. *)
LEMMA SetFieldsIs ==
  ASSUME NEW T, \A t \in T : IsSized(t), NEW fields, AreFields(fields, T), NEW uni \in BOOLEAN,
         SomeSize(uni, fields)
  PROVE  /\ IsLibffi(SetFields(uni, fields))
         /\ Strictest(uni, fields) \in Nat \ {0}
         /\ SetFields(uni, fields).align = Grown(uni, fields, FixedLen(uni, fields)).align
         /\ SetFields(uni, fields).size
              = RoundUp(Grown(uni, fields, FixedLen(uni, fields)).size, Strictest(uni, fields))
<1>. DEFINE k == FixedLen(uni, fields)
            g == Grown(uni, fields, k)
            n == g.size
            b == g.align
            u == RoundUp(n, b)
            body == Ffi(u, b)
            a == LibffiType(fields[Len(fields)].type.of).align
<1>1. k \in 0..Len(fields) /\ Measured(fields) /\ \A i \in 1..Len(fields) : fields[i].type \in T
  BY FieldsMeasured
<1>2. \E i \in 1..k : fields[i].type.base.n # 0
  <2>1. PICK i \in 1..k : Size(fields[i].type) > 0 BY DEF SomeSize
  <2>2. i \in 1..Len(fields) BY <1>1 DEF Measured
  <2>3. IsBase(fields[i].type.base) BY <2>2, <1>1 DEF Measured
  <2>4. fields[i].type.base.ffi.size \in Nat BY <2>3, BaseParts
  <2>5. fields[i].type.base.n # 0 BY <2>1, <2>4 DEF Size
  <2>. QED BY <2>5
<1>3. n \in Nat /\ n > 0 /\ b \in Alignments /\ b \in Nat \ {0}
  <2>. HIDE DEF k
  <2>1. n \in Nat /\ n > 0 /\ b \in Alignments BY <1>1, <1>2, GrownAligned
  <2>. QED BY <2>1, AlignmentsDivide
<1>4. u \in Nat /\ n <= u /\ u % b = 0
  <2>. HIDE DEF n, b
  <2>. QED BY <1>3, RoundUpIsNext
<1>5. Rounded(g) = body BY DEF Rounded
<1>6. IsLibffi(body)
  <2>. HIDE DEF n, b, u
  <2>. QED BY <1>3, <1>4, FfiParts DEF IsLibffi
<1>7. body.size = u /\ body.align = b BY FfiParts
<1>8. CASE ~Open(uni, fields)
  <2>1. SetFields(uni, fields) = body /\ Strictest(uni, fields) = b
    BY <1>5, <1>8 DEF SetFields, Strictest
  <2>. QED BY <1>3, <1>6, <1>7, <2>1
<1>9. CASE Open(uni, fields)
  <2>1. SetFields(uni, fields) = Padded(body, a) /\ Strictest(uni, fields) = Larger(b, a)
    BY <1>5, <1>9 DEF SetFields, Strictest
  <2>2. a \in Alignments /\ a \in Nat \ {0}
    <3>1. a \in Alignments BY <1>9, FieldsMeasured
    <3>. QED BY <3>1, AlignmentsDivide
  <2>. HIDE DEF n, b, u, a, body
  <2>3. Padded(body, a) = Ffi(RoundUp(u, a), b) /\ IsLibffi(Padded(body, a))
    BY <1>6, <1>7, <2>2, PaddedIs
  <2>4. RoundUp(u, a) = RoundUp(n, Larger(b, a))
    <3>1. CASE b <= a
      <4>1. a % b = 0 BY <1>3, <2>2, <3>1, AlignmentsDivide
      <4>2. Larger(b, a) = a BY <1>3, <2>2, <3>1 DEF Larger
      <4>. QED BY <1>3, <2>2, <4>1, <4>2, RoundUpTwice DEF u
    <3>2. CASE a < b
      <4>1. b % a = 0 BY <1>3, <2>2, <3>2, AlignmentsDivide
      <4>2. Larger(b, a) = b BY <1>3, <2>2, <3>2 DEF Larger
      <4>3. u \in Int BY <1>4
      <4>4. u % a = 0 BY <1>3, <1>4, <2>2, <4>1, <4>3, MultipleOfMultiple
      <4>. QED BY <1>4, <2>2, <4>2, <4>4, RoundUpMultiple DEF u
    <3>. QED BY <1>3, <2>2, <3>1, <3>2
  <2>5. Larger(b, a) \in Nat \ {0} BY <1>3, <2>2 DEF Larger
  <2>6. SetFields(uni, fields).size = RoundUp(n, Larger(b, a)) /\ SetFields(uni, fields).align = b
    BY <2>1, <2>3, <2>4, FfiParts
  <2>. QED BY <2>1, <2>3, <2>5, <2>6 DEF n, b
<1>. QED BY <1>8, <1>9

-----------------------------------------------------------------------------
(* The members of a record *)

MembersOf(T) == [name : Seq(Nat) \ {<<>>}, type : T, offset : Nat]

HasMembers(t, T) == t.k = "record" => t.members \in Seq(MembersOf(T))

Elements(s) == {s[j] : j \in 1..Len(s)}

LEMMA InnerIs ==
  ASSUME NEW T, NEW m \in MembersOf(T), NEW i \in Nat, NEW base \in Nat
  PROVE  /\ Inner(m, i, base) \in MembersOf(T)
         /\ Inner(m, i, base).name = <<i>> \o m.name /\ Inner(m, i, base).type = m.type
         /\ Inner(m, i, base).name[1] = i
         /\ Len(m.name) \in Nat \ {0} /\ Len(Inner(m, i, base).name) = Len(m.name) + 1
         /\ Inner(m, i, base).offset = IF Len(m.name) = 1 THEN base + m.offset ELSE m.offset
<1>. DEFINE s == m.name
            x == <<i>> \o s
<1>1. s \in Seq(Nat) /\ s # <<>> /\ m.type \in T /\ m.offset \in Nat BY DEF MembersOf
<1>2. Inner(m, i, base) = [name |-> x, type |-> m.type, offset |-> IF Len(s) = 1 THEN base + m.offset ELSE m.offset]
  BY DEF Inner
<1>3. <<i>> \in Seq(Nat) /\ Len(<<i>>) = 1 /\ <<i>>[1] = i OBVIOUS
<1>. HIDE DEF s
<1>4. Len(s) \in Nat \ {0} BY <1>1, EmptySeq
<1>5. x \in Seq(Nat) /\ Len(x) = Len(s) + 1 /\ x[1] = i
  <2>1. /\ x \in Seq(Nat) /\ Len(x) = Len(<<i>>) + Len(s)
        /\ \A j \in 1..(Len(<<i>>) + Len(s)) : x[j] = IF j <= Len(<<i>>) THEN <<i>>[j] ELSE s[j - Len(<<i>>)]
    BY <1>1, <1>3, ConcatProperties, Zenon
  <2>. HIDE DEF x
  <2>2. 1 \in 1..(Len(<<i>>) + Len(s)) /\ 1 <= Len(<<i>>) BY <1>3, <1>4
  <2>3. x[1] = <<i>>[1] BY <2>1, <2>2
  <2>. QED BY <1>3, <1>4, <2>1, <2>3
<1>. HIDE DEF x
<1>6. x # <<>> BY <1>4, <1>5
<1>7. [name |-> x, type |-> m.type, offset |-> IF Len(s) = 1 THEN base + m.offset ELSE m.offset] \in MembersOf(T)
  BY <1>1, <1>5, <1>6 DEF MembersOf
<1>. QED BY <1>2, <1>4, <1>5, <1>7 DEF s, x

LEMMA FieldMembersIs ==
  ASSUME NEW T, NEW f, f.type \in T, f.unnamed => f.type.k = "record", HasMembers(f.type, T),
         NEW i \in Nat, NEW base \in Nat
  PROVE  /\ FieldMembers(f, i, base) \in Seq(MembersOf(T))
         /\ f.unnamed => Elements(FieldMembers(f, i, base))
                            = {Inner(m, i, base) : m \in Elements(f.type.members)}
         /\ ~f.unnamed => Elements(FieldMembers(f, i, base)) = {[name |-> <<i>>, type |-> f.type, offset |-> base]}
<1>. DEFINE s == f.type.members
            n == Len(s)
            p == [j \in DOMAIN s |-> Inner(s[j], i, base)]
            M == MembersOf(T)
            one == [name |-> <<i>>, type |-> f.type, offset |-> base]
<1>1. CASE f.unnamed
  <2>1. s \in Seq(M) BY <1>1 DEF HasMembers
  <2>2. FieldMembers(f, i, base) = p BY <1>1 DEF FieldMembers
  <2>3. \A m \in M : Inner(m, i, base) \in M BY InnerIs
  <2>. HIDE DEF s, M
  <2>4. n \in Nat /\ DOMAIN s = 1..n /\ \A j \in 1..n : s[j] \in M BY <2>1
  <2>. HIDE DEF n
  <2>5. p \in [1..n -> M] BY <2>3, <2>4
  <2>6. p \in Seq(M) /\ Len(p) = n BY <2>4, <2>5
  <2>7. \A j \in 1..n : p[j] = Inner(s[j], i, base) BY <2>4
  <2>. HIDE DEF p
  <2>8. Elements(p) = {p[j] : j \in 1..n} BY <2>6 DEF Elements
  <2>9. Elements(p) = {Inner(m, i, base) : m \in Elements(s)} BY <2>7, <2>8 DEF Elements, n
  <2>. QED BY <1>1, <2>2, <2>6, <2>9 DEF s, M
<1>2. CASE ~f.unnamed
  <2>1. FieldMembers(f, i, base) = <<one>> BY <1>2 DEF FieldMembers
  <2>2. one \in M
    <3>1. <<i>> \in Seq(Nat) /\ <<i>> # <<>> OBVIOUS
    <3>. QED BY <3>1 DEF MembersOf
  <2>. HIDE DEF one, M
  <2>3. <<one>> \in Seq(M) /\ Len(<<one>>) = 1 /\ <<one>>[1] = one BY <2>2
  <2>4. Elements(<<one>>) = {one} BY <2>3 DEF Elements
  <2>. QED BY <1>2, <2>1, <2>3, <2>4 DEF one, M
<1>. QED BY <1>1, <1>2

LEMMA FieldBaseIs ==
  ASSUME NEW T, \A t \in T : IsSized(t), NEW fields, AreFields(fields, T), NEW uni \in BOOLEAN,
         SomeSize(uni, fields), NEW i \in 1..Len(fields)
  PROVE  /\ FieldBase(uni, fields, i) \in Nat
         /\ i \in 1..FixedLen(uni, fields) =>
              /\ FieldBase(uni, fields, i) = RoundUp(BaseAfter(uni, fields, i - 1), Align(fields[i].type))
              /\ BaseAfter(uni, fields, i - 1) \in Nat /\ IsBase(fields[i].type.base)
         /\ i \notin 1..FixedLen(uni, fields) =>
              /\ Open(uni, fields) /\ i = Len(fields)
              /\ FieldBase(uni, fields, i) = SetFields(uni, fields).size
<1>1. /\ Measured(fields) /\ Len(fields) \in Nat
      /\ Open(uni, fields) => Len(fields) > 0 /\ FixedLen(uni, fields) = Len(fields) - 1
      /\ ~Open(uni, fields) => FixedLen(uni, fields) = Len(fields)
  BY FieldsMeasured DEF Measured, FixedLen
<1>2. CASE i \in 1..FixedLen(uni, fields)
  <2>1. FieldBase(uni, fields, i) = RoundUp(BaseAfter(uni, fields, i - 1), Align(fields[i].type))
    BY <1>1, <1>2 DEF FieldBase, Align
  <2>2. IsBase(fields[i].type.base) BY <1>1 DEF Measured
  <2>3. i - 1 \in 0..Len(fields) BY <1>1
  <2>4. BaseAfter(uni, fields, i - 1) \in Nat BY <1>1, <2>3, BaseAfterIs
  <2>5. RoundUp(BaseAfter(uni, fields, i - 1), fields[i].type.base.ffi.align) \in Nat
    BY <2>2, <2>4, FollowTyped
  <2>. QED BY <1>2, <2>1, <2>2, <2>4, <2>5 DEF Align
<1>3. CASE i \notin 1..FixedLen(uni, fields)
  <2>1. Open(uni, fields) /\ i = Len(fields) BY <1>1, <1>3
  <2>2. FieldBase(uni, fields, i) = SetFields(uni, fields).size BY <2>1 DEF FieldBase
  <2>3. SetFields(uni, fields).size \in Nat BY SetFieldsIs DEF IsLibffi, Ffis
  <2>. QED BY <1>3, <2>1, <2>2, <2>3
<1>. QED BY <1>2, <1>3

(* The members that field i brings. *)
Brought(uni, fields, i) == FieldMembers(fields[i], i, FieldBase(uni, fields, i))

AreBrought(T, uni, fields, i) ==
  LET f == fields[i]
      base == FieldBase(uni, fields, i)
      brought == Elements(Brought(uni, fields, i))
  IN  /\ Brought(uni, fields, i) \in Seq(MembersOf(T)) /\ f.type \in T
      /\ f.unnamed => /\ brought = {Inner(m, i, base) : m \in Elements(f.type.members)}
                      /\ Elements(f.type.members) \subseteq MembersOf(T) /\ f.type.k = "record"
      /\ ~f.unnamed => brought = {[name |-> <<i>>, type |-> f.type, offset |-> base]}

LEMMA BroughtIs ==
  ASSUME NEW T, \A t \in T : IsSized(t) /\ HasMembers(t, T), NEW fields, AreFields(fields, T),
         NEW uni \in BOOLEAN, SomeSize(uni, fields), NEW i \in 1..Len(fields)
  PROVE  AreBrought(T, uni, fields, i)
<1>. DEFINE f == fields[i]
            base == FieldBase(uni, fields, i)
<1>1. f.type \in T /\ i \in Nat
  <2>1. \A t \in T : IsSized(t) OBVIOUS
  <2>2. Len(fields) \in Nat /\ f.type \in T BY <2>1, FieldsMeasured DEF Measured
  <2>. QED BY <2>2
<1>2. f.unnamed => f.type.k = "record" BY DEF AreFields
<1>3. base \in Nat BY FieldBaseIs
<1>4. HasMembers(f.type, T) BY <1>1
<1>5. f.unnamed => Elements(f.type.members) \subseteq MembersOf(T)
  <2>. SUFFICES ASSUME f.unnamed PROVE Elements(f.type.members) \subseteq MembersOf(T) OBVIOUS
  <2>1. f.type.members \in Seq(MembersOf(T)) BY <1>2, <1>4 DEF HasMembers
  <2>. DEFINE s == f.type.members
              M == MembersOf(T)
  <2>. HIDE DEF s, M
  <2>2. \A j \in 1..Len(s) : s[j] \in M BY <2>1 DEF s, M
  <2>. QED BY <2>2 DEF Elements, s, M
<1>. HIDE DEF f, base
<1>6. /\ FieldMembers(f, i, base) \in Seq(MembersOf(T))
      /\ f.unnamed => Elements(FieldMembers(f, i, base)) = {Inner(m, i, base) : m \in Elements(f.type.members)}
      /\ ~f.unnamed => Elements(FieldMembers(f, i, base)) = {[name |-> <<i>>, type |-> f.type, offset |-> base]}
  BY <1>1, <1>2, <1>3, <1>4, FieldMembersIs
<1>. QED BY <1>1, <1>2, <1>5, <1>6 DEF AreBrought, Brought, f, base

LEMMA ElementsOfConcat ==
  ASSUME NEW S, NEW s \in Seq(S), NEW t \in Seq(S)
  PROVE  s \o t \in Seq(S) /\ Elements(s \o t) = Elements(s) \cup Elements(t)
<1>. DEFINE c == s \o t
            m == Len(s)
            n == Len(t)
<1>1. m \in Nat /\ n \in Nat BY LenProperties
<1>2. /\ c \in Seq(S) /\ Len(c) = m + n
      /\ \A i \in 1..(m + n) : c[i] = IF i <= m THEN s[i] ELSE t[i - m]
  BY ConcatProperties
<1>. HIDE DEF c, m, n
<1>3. \A i \in 1..m : i \in 1..(m + n) /\ c[i] = s[i] BY <1>1, <1>2
<1>4. \A i \in 1..n : m + i \in 1..(m + n) /\ c[m + i] = t[i] BY <1>1, <1>2
<1>5. \A i \in 1..(m + n) : (i \in 1..m /\ c[i] = s[i]) \/ (i - m \in 1..n /\ c[i] = t[i - m])
  BY <1>1, <1>2
<1>6. Elements(c) = {c[i] : i \in 1..(m + n)} BY <1>2 DEF Elements
<1>7. Elements(s) = {s[i] : i \in 1..m} /\ Elements(t) = {t[i] : i \in 1..n} BY DEF Elements, m, n
<1>8. Elements(c) = Elements(s) \cup Elements(t) BY <1>3, <1>4, <1>5, <1>6, <1>7
<1>. QED BY <1>2, <1>8 DEF c

LEMMA MembersAre ==
  ASSUME NEW T, \A t \in T : IsSized(t) /\ HasMembers(t, T), NEW fields, AreFields(fields, T),
         NEW uni \in BOOLEAN, SomeSize(uni, fields)
  PROVE  /\ Members(uni, fields) \in Seq(MembersOf(T))
         /\ Elements(Members(uni, fields)) = UNION {Elements(Brought(uni, fields, i)) : i \in 1..Len(fields)}
<1>. DEFINE n == Len(fields)
            S == Seq(MembersOf(T))
            P(i) == Brought(uni, fields, i)
            step == [k \in Nat |-> [x \in S |-> IF k < n THEN x \o P(k + 1) ELSE x]]
            upto[i \in 0..n] ==
              IF i = 0 THEN <<>> ELSE upto[i - 1] \o FieldMembers(fields[i], i, FieldBase(uni, fields, i))
<1>1. n \in Nat BY FieldsMeasured DEF Measured
<1>2. \A i \in 1..n : P(i) \in S BY BroughtIs DEF AreBrought
<1>3. <<>> \in S /\ Elements(<<>>) = {} BY DEF Elements
<1>4. \A x, y \in S : x \o y \in S /\ Elements(x \o y) = Elements(x) \cup Elements(y)
  BY ElementsOfConcat
<1>. HIDE DEF n, S, P
<1>5. upto = [i \in 0..n |-> IF i = 0 THEN <<>> ELSE upto[i - 1] \o P(i)]
  <2>1. step \in [Nat -> [S -> S]]
    <3>1. ASSUME NEW k \in Nat, NEW x \in S, k < n PROVE x \o P(k + 1) \in S
      <4>1. k + 1 \in 1..n BY <1>1, <3>1
      <4>. QED BY <1>2, <1>4, <4>1
    <3>. QED BY <3>1
  <2>2. \A k \in Nat : \A x \in S : k < n => step[k][x] = x \o P(k + 1) OBVIOUS
  <2>. HIDE DEF step
  <2>3. PICK f \in [0..n -> S] : IsRecursion(f, <<>>, step, n)
    BY <1>1, <1>3, <2>1, Recursion
  <2>4. \A k \in 0..n : k # 0 => step[k - 1][f[k - 1]] = f[k - 1] \o P(k)
    <3>. SUFFICES ASSUME NEW k \in 0..n, k # 0 PROVE step[k - 1][f[k - 1]] = f[k - 1] \o P(k)
      OBVIOUS
    <3>1. k - 1 \in Nat /\ k - 1 \in 0..n /\ k - 1 < n /\ (k - 1) + 1 = k BY <1>1
    <3>. QED BY <2>2, <2>3, <3>1
  <2>5. f = [k \in 0..n |-> IF k = 0 THEN <<>> ELSE f[k - 1] \o P(k)]
    BY <2>3, <2>4, Zenon DEF IsRecursion
  <2>. QED BY <2>5, Zenon DEF P, Brought
<1>6. Members(uni, fields) = upto[n] BY DEF Members, n
<1>. HIDE DEF upto
<1>7. upto[0] = <<>> /\ \A k \in 1..n : upto[k] = upto[k - 1] \o P(k)
  <2>1. \A k \in 1..n : k \in 0..n /\ k # 0 BY <1>1
  <2>2. 0 \in 0..n BY <1>1
  <2>3. upto[0] = <<>> BY <1>5, <2>2, Zenon
  <2>4. \A k \in 1..n : upto[k] = upto[k - 1] \o P(k) BY <1>5, <2>1, Zenon
  <2>. QED BY <2>3, <2>4
<1>. DEFINE Ok(k) == /\ upto[k] \in S
                     /\ \A m : m \in Elements(upto[k]) <=> \E i \in 1..k : m \in Elements(P(i))
            U == {k \in 0..n : Ok(k)}
<1>8. 0 \in U BY <1>1, <1>3, <1>7
<1>9. ASSUME NEW k \in U, k < n PROVE k + 1 \in U
  <2>1. k \in 0..n /\ k + 1 \in 1..n /\ k + 1 \in 0..n /\ (k + 1) - 1 = k BY <1>1, <1>9
  <2>2. upto[k + 1] = upto[k] \o P(k + 1) BY <1>7, <2>1
  <2>3. Ok(k) OBVIOUS
  <2>4. \A i : i \in 1..(k + 1) <=> i \in 1..k \/ i = k + 1 BY <1>1, <2>1
  <2>5. upto[k + 1] \in S /\ Elements(upto[k + 1]) = Elements(upto[k]) \cup Elements(P(k + 1))
    BY <1>2, <1>4, <2>1, <2>2, <2>3
  <2>6. ASSUME NEW m
        PROVE  m \in Elements(upto[k + 1]) <=> \E i \in 1..(k + 1) : m \in Elements(P(i))
    BY <2>3, <2>4, <2>5
  <2>. QED BY <2>1, <2>5, <2>6
<1>10. U \in SUBSET (0..n) OBVIOUS
<1>. HIDE DEF Ok, U
<1>11. U = 0..n BY <1>1, <1>8, <1>9, <1>10, UptoInduction
<1>12. Ok(n) BY <1>1, <1>11 DEF U
<1>13. Elements(upto[n]) = UNION {Elements(P(i)) : i \in 1..n} BY <1>12 DEF Ok
<1>. QED BY <1>6, <1>12, <1>13 DEF Ok, S, P, n

-----------------------------------------------------------------------------
(* A record is laid out as in C *)

IsRecord(r, T) ==
  /\ r = Record(r.uni, r.fields) /\ r.uni \in BOOLEAN
  /\ AreFields(r.fields, T) /\ SomeSize(r.uni, r.fields)

LEMMA RecordParts ==
  ASSUME NEW uni, NEW fields
  PROVE  LET r == Record(uni, fields)
         IN  /\ r.k = "record" /\ r.uni = uni /\ r.fields = fields /\ r.members = Members(uni, fields)
             /\ r.base.ffi = SetFields(uni, fields) /\ r.base.n = 1
  BY DEF Record, Repeated

LEMMA GreatestIs ==
  ASSUME NEW S \in SUBSET Int, NEW n \in S, \A m \in S : m <= n
  PROVE  Greatest(S) = n
<1>1. Greatest(S) \in S /\ \A m \in S : m <= Greatest(S) BY DEF Greatest
<1>2. n <= Greatest(S) /\ Greatest(S) <= n BY <1>1
<1>3. n \in Int /\ Greatest(S) \in Int BY <1>1
<1>. QED BY <1>2, <1>3

(* All that is placed in a union is at its beginning. *)
LEMMA UnionBase ==
  ASSUME NEW fields, Measured(fields)
  PROVE  \A i \in 0..Len(fields) : BaseAfter(TRUE, fields, i) = 0
<1>. DEFINE n == Len(fields)
            E(i) == BaseAfter(TRUE, fields, i)
            T == {i \in 0..n : E(i) = 0}
<1>1. n \in Nat /\ \A i \in 1..n : IsBase(fields[i].type.base) BY DEF Measured
<1>2. E(0) = 0 /\ \A i \in 1..n : E(i) = Follow(TRUE, E(i - 1), fields[i].type.base) BY BaseAfterIs
<1>. HIDE DEF n, E
<1>3. 0 \in T BY <1>1, <1>2
<1>4. ASSUME NEW k \in T, k < n PROVE k + 1 \in T
  <2>. DEFINE a == fields[k + 1].type.base.ffi.align
  <2>1. k + 1 \in 1..n /\ k + 1 \in 0..n /\ (k + 1) - 1 = k BY <1>1, <1>4
  <2>2. E(k + 1) = RoundUp(0, a) BY <1>2, <2>1 DEF Follow
  <2>3. a \in Nat \ {0} BY <1>1, <2>1, BaseParts
  <2>. HIDE DEF a
  <2>4. 0 % a = 0
    <3>1. 0 = 0 * a /\ 0 \in Int BY <2>3
    <3>. QED BY <2>3, <3>1, MultipleIs
  <2>5. RoundUp(0, a) = 0 BY <2>3, <2>4, RoundUpMultiple
  <2>. QED BY <2>1, <2>2, <2>5
<1>5. T \in SUBSET (0..n) OBVIOUS
<1>. HIDE DEF T
<1>6. T = 0..n BY <1>1, <1>3, <1>4, <1>5, UptoInduction
<1>. QED BY <1>6 DEF T, n, E

(* Its size and its alignment *)
LEMMA SizeIsC ==
  ASSUME NEW T, \A t \in T : IsSized(t), NEW r, IsRecord(r, T), Regular(r)
  PROVE  /\ Size(r) = CSize(r) /\ (Align(r) = CAlign(r) \/ StrictEnd(r))
         /\ CAlign(r) \in Nat \ {0}
         /\ \A i \in 1..Len(r.fields) : CAlign(r) % Align(r.fields[i].type) = 0
<1>. DEFINE uni == r.uni
            fields == r.fields
            n == Len(fields)
            k == FixedLen(uni, fields)
            g == Grown(uni, fields, k)
            last == fields[n].type
            s == Strictest(uni, fields)
            sizes == {Size(fields[i].type) : i \in 1..n}
            aligns == {Align(fields[i].type) : i \in 1..n}
<1>1. /\ uni \in BOOLEAN /\ AreFields(fields, T) /\ SomeSize(uni, fields)
      /\ r = Record(uni, fields)
  BY DEF IsRecord
<1>2. r.base.ffi = SetFields(uni, fields) /\ r.base.n = 1 BY <1>1, RecordParts
<1>. HIDE DEF uni, fields
<1>3. /\ k \in 0..Len(fields) /\ Measured(fields) /\ Len(fields) \in Nat
      /\ \A i \in 1..Len(fields) : fields[i].type \in T
      /\ Open(uni, fields) => n > 0 /\ k = n - 1
      /\ ~Open(uni, fields) => k = n
      /\ DOMAIN fields = 1..n
  <2>1. fields \in Seq([unnamed : BOOLEAN, type : T]) BY <1>1 DEF AreFields
  <2>2. DOMAIN fields = 1..n BY <2>1, LenProperties
  <2>. QED BY <1>1, <2>2, FieldsMeasured DEF Measured, FixedLen
<1>4. \A i \in 1..k : /\ i \in 1..Len(fields) /\ IsBase(fields[i].type.base)
                      /\ fields[i].type.base.n # 0
  <2>. SUFFICES ASSUME NEW i \in 1..k
                PROVE  i \in 1..Len(fields) /\ IsBase(fields[i].type.base) /\ fields[i].type.base.n # 0
    OBVIOUS
  <2>1. i \in 1..Len(fields) BY <1>3
  <2>2. IsBase(fields[i].type.base) BY <1>3, <2>1 DEF Measured
  <2>3. fields[i].type.base.ffi.size \in Nat BY <2>2, BaseParts
  <2>4. Size(fields[i].type) # 0 BY DEF Regular, Fixed, uni, fields
  <2>5. fields[i].type.base.n # 0 BY <2>3, <2>4 DEF Size
  <2>. QED BY <2>1, <2>2, <2>5
<1>5. \A i \in 1..n : /\ Align(fields[i].type) \in Nat /\ Align(fields[i].type) \in Alignments
                      /\ Size(fields[i].type) \in Nat
  <2>. SUFFICES ASSUME NEW i \in 1..n
                PROVE  /\ Align(fields[i].type) \in Nat /\ Align(fields[i].type) \in Alignments
                       /\ Size(fields[i].type) \in Nat
    OBVIOUS
  <2>1. IsBase(fields[i].type.base) BY <1>3 DEF Measured
  <2>. QED BY <2>1, BaseParts DEF Align, Size
<1>6. k > 0 BY <1>1, <1>3 DEF SomeSize
<1>7. g.size \in Nat /\ g.align \in Nat BY <1>1, <1>3, GrownIs DEF Ffis
<1>. HIDE DEF k
<1>8. /\ \A i \in 1..k : Align(fields[i].type) <= g.align
      /\ \A i \in 1..k : uni => Size(fields[i].type) <= g.size
      /\ \E i \in 1..k : g.align = Align(fields[i].type)
      /\ uni => \E i \in 1..k : g.size = Size(fields[i].type)
      /\ ~uni => g.size = BaseAfter(uni, fields, k)
  BY <1>1, <1>3, <1>4, <1>6, GrownExact
<1>. HIDE DEF g
<1>9. /\ SetFields(uni, fields).align = g.align
      /\ SetFields(uni, fields).size = RoundUp(g.size, s)
      /\ s \in Nat \ {0}
      /\ SetFields(uni, fields).size \in Nat
  BY <1>1, SetFieldsIs DEF IsLibffi, Ffis, g, k
<1>10. s = IF Open(uni, fields) THEN Larger(g.align, Align(last)) ELSE g.align
  <2>1. CASE Open(uni, fields)
    <3>1. last \in T BY <1>3, <2>1
    <3>2. last.k = "array" BY <2>1 DEF Open, EndsFlex, IsFlex
    <3>3. last.of.k # "array" BY <2>1 DEF Regular, uni, fields
    <3>4. last.base = Repeated(last.of.base.ffi, last.n * last.of.base.n)
      <4>. HIDE DEF last
      <4>. QED BY <3>1, <3>2 DEF IsSized
    <3>5. LibffiType(last.of).align = Align(last)
      <4>. HIDE DEF last
      <4>. QED BY <3>3, <3>4 DEF LibffiType, Align, Repeated
    <3>. QED BY <2>1, <3>5 DEF Strictest, g, k
  <2>2. CASE ~Open(uni, fields) BY <2>2 DEF Strictest, g, k
  <2>. QED BY <2>1, <2>2
<1>. HIDE DEF s, last
(* The strictest of all members, the open one included *)
<1>11. s \in aligns /\ \A m \in aligns : m <= s
  <2>1. PICK i \in 1..k : g.align = Align(fields[i].type) BY <1>8
  <2>2. g.align \in aligns BY <1>4, <2>1
  <2>3. CASE Open(uni, fields)
    <3>1. n \in 1..n /\ last = fields[n].type BY <1>3, <2>3 DEF last
    <3>2. Align(last) \in aligns /\ Align(last) \in Nat BY <1>5, <3>1
    <3>3. s = Larger(g.align, Align(last)) BY <1>10, <2>3
    <3>4. g.align <= s /\ Align(last) <= s /\ s \in {g.align, Align(last)}
      BY <1>7, <3>2, <3>3 DEF Larger
    <3>5. ASSUME NEW j \in 1..n PROVE Align(fields[j].type) <= s
      <4>1. CASE j \in 1..k
        <5>1. Align(fields[j].type) <= g.align BY <1>8, <4>1
        <5>. QED BY <1>5, <1>7, <1>9, <3>4, <5>1
      <4>2. CASE j \notin 1..k
        <5>1. j = n BY <1>3, <2>3, <4>2
        <5>. QED BY <3>1, <3>4, <5>1
      <4>. QED BY <4>1, <4>2
    <3>. QED BY <2>2, <3>2, <3>4, <3>5
  <2>4. CASE ~Open(uni, fields)
    <3>1. s = g.align /\ k = n BY <1>3, <1>10, <2>4
    <3>. QED BY <1>8, <2>2, <3>1
  <2>. QED BY <2>3, <2>4
<1>12. CAlign(r) = s
  <2>1. aligns \in SUBSET Int BY <1>5
  <2>2. CAlign(r) = Greatest(aligns) BY <1>3 DEF CAlign, fields, n
  <2>. HIDE DEF aligns
  <2>. QED BY <1>11, <2>1, <2>2, GreatestIs
<1>13. \A i \in 1..n : CAlign(r) % Align(fields[i].type) = 0
  <2>1. s \in Alignments BY <1>5, <1>11
  <2>. QED BY <1>5, <1>11, <1>12, <2>1, AlignmentsDivide
<1>14. Align(r) = SetFields(uni, fields).align /\ Size(r) = SetFields(uni, fields).size
  BY <1>2, <1>9 DEF Size, Align
<1>15. Align(r) = CAlign(r) \/ StrictEnd(r)
  <2>1. CASE ~Open(uni, fields) BY <1>9, <1>10, <1>12, <1>14, <2>1
  <2>2. CASE Open(uni, fields) /\ ~StrictEnd(r)
    <3>1. last = fields[n].type /\ Align(last) \in Nat BY <1>3, <1>5, <2>2 DEF last
    <3>2. PICK i \in 1..k : ~(Align(fields[i].type) < Align(last))
      BY <2>2, <3>1 DEF StrictEnd, Fixed, uni, fields, k, n
    <3>3. Align(fields[i].type) \in Nat /\ Align(fields[i].type) <= g.align BY <1>4, <1>5, <1>8
    <3>4. Larger(g.align, Align(last)) = g.align BY <1>7, <3>1, <3>2, <3>3 DEF Larger
    <3>. QED BY <1>9, <1>10, <1>12, <1>14, <2>2, <3>4
  <2>. QED BY <2>1, <2>2
<1>16. CSize(r) = NextMultiple(g.size, CAlign(r))
  <2>1. CASE uni
    <3>1. k = n BY <1>3, <2>1 DEF Open
    <3>2. sizes \in SUBSET Int BY <1>5
    <3>3. g.size \in sizes /\ \A m \in sizes : m <= g.size BY <1>8, <2>1, <3>1
    <3>4. CSize(r) = NextMultiple(Greatest(sizes), CAlign(r)) BY <1>3, <2>1 DEF CSize, uni, fields, n
    <3>. HIDE DEF sizes
    <3>5. Greatest(sizes) = g.size BY <3>2, <3>3, GreatestIs
    <3>. QED BY <3>4, <3>5
  <2>2. CASE ~uni
    <3>1. uni = FALSE BY <1>1, <2>2
    <3>2. CEnd(r, k) = BaseAfter(FALSE, fields, k) BY <1>3, CEndIsBaseAfter DEF fields
    <3>3. CEnd(r, k) = g.size BY <1>8, <2>2, <3>1, <3>2
    <3>. QED BY <2>2, <3>3 DEF CSize, uni, fields, k
  <2>. QED BY <2>1, <2>2
<1>17. NextMultiple(g.size, s) = RoundUp(g.size, s)
  BY <1>7, <1>9, RoundUpIsNext
<1>. QED BY <1>9, <1>12, <1>13, <1>14, <1>15, <1>16, <1>17 DEF fields, n

(* Where its fields are *)
LEMMA PlaceIsC ==
  ASSUME NEW T, \A t \in T : IsSized(t), NEW r, IsRecord(r, T), Regular(r), NEW i \in 1..Len(r.fields)
  PROVE  /\ CPlace(r, i) \in Nat /\ FieldBase(r.uni, r.fields, i) \in Nat
         /\ i \in Fixed(r) => FieldBase(r.uni, r.fields, i) = CPlace(r, i)
         /\ i \notin Fixed(r) => FieldBase(r.uni, r.fields, i) >= CPlace(r, i)
<1>. DEFINE uni == r.uni
            fields == r.fields
            k == FixedLen(uni, fields)
            b == fields[i].type.base
            a == Align(fields[i].type)
<1>1. /\ uni \in BOOLEAN /\ AreFields(fields, T) /\ SomeSize(uni, fields)
      /\ r = Record(uni, fields)
  BY DEF IsRecord
<1>2. r.base.ffi = SetFields(uni, fields) /\ r.base.n = 1 BY <1>1, RecordParts
<1>3. Fixed(r) = 1..k BY DEF Fixed
<1>. HIDE DEF uni, fields
<1>4. Measured(fields) /\ Len(fields) \in Nat BY <1>1, FieldsMeasured DEF Measured
<1>5. i \in 1..Len(fields) BY DEF fields
<1>6. FieldBase(uni, fields, i) \in Nat BY <1>1, <1>5, FieldBaseIs
<1>7. CASE i \notin 1..k
  <2>1. FieldBase(uni, fields, i) = SetFields(uni, fields).size BY <1>1, <1>5, <1>7, FieldBaseIs
  <2>2. SetFields(uni, fields).size \in Nat BY <2>1, <1>6
  <2>3. SetFields(uni, fields).size = Size(r) BY <1>2, <2>2 DEF Size
  <2>4. /\ Size(r) = CSize(r) /\ CAlign(r) \in Nat \ {0} /\ CAlign(r) % a = 0
    BY <1>5, SizeIsC DEF fields
  <2>5. Open(uni, fields) /\ i = Len(fields) /\ k = i - 1 /\ ~uni
    BY <1>1, <1>5, <1>7, FieldsMeasured, FieldBaseIs DEF Open
  <2>. DEFINE e == CEnd(r, i - 1)
              c == CAlign(r)
  <2>6. e \in Nat
    <3>1. i - 1 \in 0..Len(r.fields) BY <1>4, <1>5 DEF fields
    <3>. QED BY <1>4, <3>1, CEndIs DEF fields
  <2>7. a \in Nat \ {0}
    <3>1. IsBase(b) BY <1>4, <1>5 DEF Measured
    <3>. QED BY <3>1, BaseParts DEF Align
  <2>8. CPlace(r, i) = NextMultiple(e, a) BY <2>5 DEF CPlace, uni, fields
  <2>9. CSize(r) = NextMultiple(e, c) BY <2>5 DEF CSize, uni, fields, k
  <2>. HIDE DEF e, a, c
  <2>10. CPlace(r, i) = RoundUp(e, a) /\ RoundUp(e, a) \in Nat
    BY <2>6, <2>7, <2>8, RoundUpIsNext
  <2>11. /\ CSize(r) = RoundUp(e, c) /\ RoundUp(e, c) \in Nat
         /\ RoundUp(e, c) % c = 0 /\ e <= RoundUp(e, c)
    BY <2>4, <2>6, <2>9, RoundUpIsNext DEF c
  <2>12. RoundUp(e, c) % a = 0 BY <2>4, <2>7, <2>11, MultipleOfMultiple DEF c
  <2>13. RoundUp(e, a) <= RoundUp(e, c) BY <2>6, <2>7, <2>11, <2>12, RoundUpIsLeast
  <2>. QED BY <1>3, <1>6, <1>7, <2>1, <2>3, <2>4, <2>10, <2>11, <2>13 DEF uni, fields
<1>8. CASE i \in 1..k
  <2>1. /\ FieldBase(uni, fields, i) = RoundUp(BaseAfter(uni, fields, i - 1), a)
        /\ BaseAfter(uni, fields, i - 1) \in Nat /\ IsBase(b)
    BY <1>1, <1>5, <1>8, FieldBaseIs
  <2>2. a \in Nat \ {0} BY <2>1, BaseParts DEF Align
  <2>3. i - 1 \in 0..Len(fields) BY <1>4, <1>5
  <2>4. CASE uni
    <3>1. uni = TRUE BY <1>1, <2>4
    <3>2. BaseAfter(uni, fields, i - 1) = 0 BY <1>4, <2>3, <3>1, UnionBase
    <3>3. 0 % a = 0
      <4>. HIDE DEF a
      <4>1. 0 = 0 * a /\ 0 \in Int BY <2>2
      <4>. QED BY <2>2, <4>1, MultipleIs
    <3>4. RoundUp(0, a) = 0
      <4>. HIDE DEF a
      <4>. QED BY <2>2, <3>3, RoundUpMultiple
    <3>5. CPlace(r, i) = 0 BY <1>3, <1>8, <2>4 DEF CPlace, uni
    <3>. QED BY <1>3, <1>8, <2>1, <3>2, <3>4, <3>5 DEF uni, fields
  <2>5. CASE ~uni
    <3>1. uni = FALSE BY <1>1, <2>5
    <3>2. CEnd(r, i - 1) = BaseAfter(FALSE, fields, i - 1) BY <1>4, <2>3, CEndIsBaseAfter DEF fields
    <3>3. NextMultiple(BaseAfter(uni, fields, i - 1), a) = RoundUp(BaseAfter(uni, fields, i - 1), a)
      <4>. HIDE DEF a
      <4>. QED BY <2>1, <2>2, RoundUpIsNext
    <3>4. CPlace(r, i) = NextMultiple(CEnd(r, i - 1), a) BY <1>3, <1>8, <2>5 DEF CPlace, uni, fields
    <3>5. CPlace(r, i) = FieldBase(uni, fields, i) BY <2>1, <3>1, <3>2, <3>3, <3>4
    <3>. QED BY <1>3, <1>6, <1>8, <3>5 DEF uni, fields
  <2>. QED BY <2>4, <2>5
<1>. QED BY <1>7, <1>8

(* Its members: those that have a size differ from those of C only where a *)
(* transparent record is below another one that does not come first; one   *)
(* that is left open is not in front of that of C.                         *)
LEMMA MembersAreCs ==
  ASSUME NEW T, \A t \in T : IsSized(t) /\ HasMembers(t, T), NEW r, IsRecord(r, T), Regular(r)
  PROVE  /\ Shallow(r, WithSize(r, Found(r))) = Shallow(r, WithSize(r, CMembers(r)))
         /\ \A i \in DOMAIN r.fields \ Fixed(r) :
              \E m \in Found(r) : m.name = <<i>> /\ m.offset >= CPlace(r, i)
<1>. DEFINE uni == r.uni
            fields == r.fields
            n == Len(fields)
            P(i) == Elements(Brought(uni, fields, i))
            C(i) == CFieldMembers(fields[i], i, CPlace(r, i))
            Near(m) == Len(m.name) <= 2 \/ CPlace(r, m.name[1]) = 0
            M == MembersOf(T)
            CInner(m, i) == [name |-> <<i>> \o m.name, type |-> m.type, offset |-> CPlace(r, i) + m.offset]
<1>1. /\ uni \in BOOLEAN /\ AreFields(fields, T) /\ SomeSize(uni, fields)
      /\ r = Record(uni, fields) /\ \A t \in T : IsSized(t)
  BY DEF IsRecord
<1>2. r.members = Members(uni, fields) BY <1>1, RecordParts
<1>3. Members(uni, fields) \in Seq(M) /\ Elements(Members(uni, fields)) = UNION {P(i) : i \in 1..n}
  BY <1>1, MembersAre
<1>4. DOMAIN Members(uni, fields) = 1..Len(Members(uni, fields))
  <2>. HIDE DEF M, uni, fields
  <2>. QED BY <1>3, LenProperties
<1>5. Found(r) = UNION {P(i) : i \in 1..n} BY <1>2, <1>3, <1>4 DEF Found, Elements
<1>6. DOMAIN fields = 1..n
  <2>1. fields \in Seq([unnamed : BOOLEAN, type : T]) BY <1>1 DEF AreFields
  <2>. HIDE DEF fields
  <2>. QED BY <2>1, LenProperties
<1>7. CMembers(r) = UNION {C(i) : i \in 1..n} BY <1>6 DEF CMembers
<1>8. \A i \in 1..n : i \in Nat
  <2>1. Len(fields) \in Nat BY <1>1, FieldsMeasured DEF Measured
  <2>. QED BY <2>1
<1>9. ASSUME NEW i \in 1..n, i \in Fixed(r), NEW m, Near(m) PROVE m \in P(i) <=> m \in C(i)
  <2>. DEFINE at == FieldBase(uni, fields, i)
              f == fields[i]
              ms == f.type.members
  <2>1. at = CPlace(r, i) /\ at \in Nat /\ i \in Nat
    <3>1. i \in 1..Len(r.fields) OBVIOUS
    <3>. QED BY <1>1, <1>9, <1>8, <3>1, PlaceIsC
  <2>2. /\ f.unnamed => /\ P(i) = {Inner(x, i, at) : x \in Elements(ms)} /\ Elements(ms) \subseteq M
                        /\ f.type.k = "record"
        /\ ~f.unnamed => P(i) = {[name |-> <<i>>, type |-> f.type, offset |-> at]}
        /\ f.type \in T
    <3>. HIDE DEF uni, fields
    <3>1. AreBrought(T, uni, fields, i) BY <1>1, BroughtIs
    <3>. QED BY <3>1 DEF AreBrought
  <2>. HIDE DEF at
  <2>3. CASE ~f.unnamed BY <2>1, <2>2, <2>3 DEF CFieldMembers
  <2>4. CASE f.unnamed
    <3>1. DOMAIN ms = 1..Len(ms)
      <4>1. HasMembers(f.type, T) BY <2>2
      <4>2. ms \in Seq(M) BY <2>2, <2>4, <4>1 DEF HasMembers
      <4>. HIDE DEF ms, M
      <4>. QED BY <4>2, LenProperties
    <3>2. C(i) = {CInner(x, i) : x \in Elements(ms)} BY <2>4, <3>1 DEF CFieldMembers, Elements
    <3>3. ASSUME NEW x \in Elements(ms)
          PROVE  Near(Inner(x, i, at)) \/ Near(CInner(x, i)) => Inner(x, i, at) = CInner(x, i)
      <4>. DEFINE y == Inner(x, i, at)
                  z == CInner(x, i)
      <4>1. x \in M BY <2>2, <2>4
      <4>2. /\ y.name = <<i>> \o x.name /\ y.name[1] = i /\ y.type = x.type
            /\ Len(x.name) \in Nat \ {0} /\ Len(y.name) = Len(x.name) + 1
        <5>. HIDE DEF C, P, Near, CInner, fields, uni
        <5>. QED BY <2>1, <4>1, InnerIs
      <4>3. z.name = y.name /\ z.name = <<i>> \o x.name BY <4>2
      <4>4. x.offset \in Nat BY <4>1 DEF MembersOf
      <4>5. Len(x.name) = 1 \/ at = 0 => y = z
        <5>1. at = 0 => at + x.offset = x.offset BY <4>4
        <5>. QED BY <2>1, <5>1 DEF Inner
      <4>. HIDE DEF y, z
      <4>6. Near(y) \/ Near(z) => Len(x.name) = 1 \/ at = 0
        <5>1. Near(y) <=> Near(z) BY <4>3
        <5>2. Near(y) => Len(y.name) <= 2 \/ at = 0 BY <2>1, <4>2
        <5>3. Len(y.name) <= 2 => Len(x.name) = 1
          <6>. DEFINE p == Len(y.name)
                      q == Len(x.name)
          <6>1. q \in Nat \ {0} /\ p = q + 1 BY <4>2
          <6>. HIDE DEF p, q
          <6>2. p <= 2 => q = 1 BY <6>1
          <6>. QED BY <6>2 DEF p, q
        <5>. HIDE DEF Near
        <5>. QED BY <5>1, <5>2, <5>3
      <4>. HIDE DEF Near, CInner
      <4>. QED BY <4>5, <4>6, Zenon DEF y, z
    <3>. HIDE DEF CInner, Near, at, C, P
    <3>4. m \in P(i) => m \in C(i)
      <4>. SUFFICES ASSUME m \in P(i) PROVE m \in C(i) OBVIOUS
      <4>1. PICK x \in Elements(ms) : m = Inner(x, i, at) BY <2>2, <2>4
      <4>. QED BY <1>9, <3>2, <3>3, <4>1
    <3>5. m \in C(i) => m \in P(i)
      <4>. SUFFICES ASSUME m \in C(i) PROVE m \in P(i) OBVIOUS
      <4>1. PICK x \in Elements(ms) : m = CInner(x, i) BY <3>2
      <4>2. m = Inner(x, i, at) BY <1>9, <3>3, <4>1
      <4>. QED BY <2>2, <2>4, <4>2
    <3>. QED BY <3>4, <3>5
  <2>. QED BY <2>3, <2>4
<1>10. ASSUME NEW i \in 1..n, NEW m, m \in P(i) \/ m \in C(i) PROVE m.name[1] = i
  <2>. DEFINE at == FieldBase(uni, fields, i)
              f == fields[i]
              ms == f.type.members
  <2>1. at \in Nat /\ i \in Nat
    <3>1. i \in 1..Len(r.fields) OBVIOUS
    <3>. QED BY <1>1, <1>8, <3>1, PlaceIsC
  <2>2. /\ f.unnamed => /\ P(i) = {Inner(x, i, at) : x \in Elements(ms)} /\ Elements(ms) \subseteq M
                        /\ f.type.k = "record"
        /\ ~f.unnamed => P(i) = {[name |-> <<i>>, type |-> f.type, offset |-> at]}
        /\ f.type \in T
    <3>. HIDE DEF uni, fields
    <3>1. AreBrought(T, uni, fields, i) BY <1>1, BroughtIs
    <3>. QED BY <3>1 DEF AreBrought
  <2>. HIDE DEF at
  <2>3. CASE ~f.unnamed
    <3>1. m.name = <<i>> BY <1>10, <2>2, <2>3 DEF CFieldMembers
    <3>. QED BY <3>1
  <2>4. CASE f.unnamed
    <3>1. DOMAIN ms = 1..Len(ms)
      <4>1. HasMembers(f.type, T) BY <2>2
      <4>2. ms \in Seq(M) BY <2>2, <2>4, <4>1 DEF HasMembers
      <4>. HIDE DEF ms, M
      <4>. QED BY <4>2, LenProperties
    <3>2. C(i) = {CInner(x, i) : x \in Elements(ms)} BY <2>4, <3>1 DEF CFieldMembers, Elements
    <3>3. PICK x \in Elements(ms) : m = Inner(x, i, at) \/ m = CInner(x, i) BY <1>10, <2>2, <2>4, <3>2
    <3>4. x \in M BY <2>2, <2>4
    <3>5. Inner(x, i, at).name = <<i>> \o x.name /\ Inner(x, i, at).name[1] = i
      <4>1. x \in MembersOf(T) BY <3>4
      <4>. HIDE DEF C, P, Near, CInner, fields, uni, f, ms, M, n
      <4>2. \A y \in MembersOf(T), b \in Nat :
               Inner(y, i, b).name = <<i>> \o y.name /\ Inner(y, i, b).name[1] = i
        BY <2>1, InnerIs
      <4>. QED BY <2>1, <4>1, <4>2, Zenon
    <3>6. CInner(x, i).name = <<i>> \o x.name OBVIOUS
    <3>. QED BY <3>3, <3>5, <3>6
  <2>. QED BY <2>3, <2>4
<1>11. ASSUME NEW i \in DOMAIN fields \ Fixed(r)
       PROVE  \E m \in Found(r) : m.name = <<i>> /\ m.offset >= CPlace(r, i)
  <2>. DEFINE at == FieldBase(uni, fields, i)
              m == [name |-> <<i>>, type |-> fields[i].type, offset |-> at]
  <2>1. i \in 1..n /\ i \in 1..Len(r.fields) BY <1>6
  <2>2. at >= CPlace(r, i) BY <1>1, <2>1, PlaceIsC
  <2>3. ~fields[i].unnamed
    <3>. HIDE DEF uni, fields
    <3>1. i \notin 1..FixedLen(uni, fields) BY DEF Fixed, uni, fields
    <3>2. Open(uni, fields) /\ i = Len(fields) BY <1>1, <2>1, <3>1, FieldBaseIs
    <3>3. fields[i].type.k # "record" BY <3>2 DEF Open, EndsFlex, IsFlex
    <3>. QED BY <1>1, <2>1, <3>3 DEF AreFields
  <2>4. m \in P(i)
    <3>. HIDE DEF uni, fields
    <3>1. AreBrought(T, uni, fields, i) BY <1>1, <2>1, BroughtIs
    <3>. QED BY <2>3, <3>1 DEF AreBrought
  <2>. HIDE DEF at, P
  <2>5. m \in Found(r) BY <1>5, <2>1, <2>4
  <2>. QED BY <2>2, <2>5
<1>. HIDE DEF P, C
<1>12. \A m : Near(m) /\ m.name[1] \in Fixed(r) => (m \in Found(r) <=> m \in CMembers(r))
  BY <1>5, <1>7, <1>9, <1>10
<1>13. \A ms : Shallow(r, WithSize(r, ms)) = {m \in ms : Near(m) /\ m.name[1] \in Fixed(r)}
  BY DEF Shallow, WithSize
<1>. HIDE DEF Near
<1>14. Shallow(r, WithSize(r, Found(r))) = Shallow(r, WithSize(r, CMembers(r))) BY <1>12, <1>13
<1>. QED BY <1>11, <1>14

-----------------------------------------------------------------------------
(* Members stay inside of their records *)

(* What later records rely on, too: the alignment of a member divides that *)
(* of its record.                                                          *)
FitsIn(m, r) ==
  ~IsFlex(m.type) => /\ m.offset + Size(m.type) <= Size(r)
                     /\ m.offset % Align(m.type) = 0
                     /\ Align(m.type) <= Align(r)

KeepsInside(r) == r.k = "record" => \A m \in Elements(r.members) : FitsIn(m, r)

LEMMA EndsGrow ==
  ASSUME NEW fields, Measured(fields), NEW k \in 0..Len(fields)
  PROVE  \A i \in 0..k : BaseAfter(FALSE, fields, i) <= BaseAfter(FALSE, fields, k)
<1>. DEFINE n == Len(fields)
            E(i) == BaseAfter(FALSE, fields, i)
            T == {j \in 0..k : \A i \in 0..j : E(i) <= E(j)}
<1>1. n \in Nat /\ \A i \in 1..n : IsBase(fields[i].type.base) BY DEF Measured
<1>2. \A i \in 0..n : E(i) \in Nat BY BaseAfterIs
<1>3. \A i \in 1..n : E(i) = Follow(FALSE, E(i - 1), fields[i].type.base) BY BaseAfterIs
<1>4. k \in Nat /\ k <= n BY <1>1
<1>. HIDE DEF n, E
<1>5. 0 \in T BY <1>1, <1>2, <1>4
<1>6. ASSUME NEW j \in T, j < k PROVE j + 1 \in T
  <2>. DEFINE a == fields[j + 1].type.base.ffi.align
              z == fields[j + 1].type.base.ffi.size * fields[j + 1].type.base.n
  <2>1. j + 1 \in 1..n /\ j + 1 \in 0..k /\ (j + 1) - 1 = j /\ j \in 0..n BY <1>4, <1>6, <1>1
  <2>2. E(j + 1) = RoundUp(E(j), a) + z BY <1>3, <2>1 DEF Follow
  <2>3. a \in Nat \ {0} /\ z \in Nat BY <1>1, <2>1, BaseParts
  <2>. HIDE DEF a, z
  <2>4. RoundUp(E(j), a) \in Nat /\ E(j) <= RoundUp(E(j), a) BY <1>2, <2>1, <2>3, RoundUpIsNext
  <2>5. E(j) <= E(j + 1) BY <1>2, <2>1, <2>2, <2>3, <2>4
  <2>6. \A i \in 0..j : i \in 0..n /\ E(i) <= E(j) BY <1>1, <2>1
  <2>7. \A i \in 0..j : E(i) <= E(j + 1) BY <1>2, <2>1, <2>5, <2>6
  <2>8. \A i \in 0..(j + 1) : i \in 0..j \/ i = j + 1 BY <2>1, <1>1
  <2>9. E(j + 1) <= E(j + 1) BY <1>2, <2>1
  <2>10. \A i \in 0..(j + 1) : E(i) <= E(j + 1) BY <2>7, <2>8, <2>9
  <2>. QED BY <2>1, <2>10
<1>7. T \in SUBSET (0..k) OBVIOUS
<1>. HIDE DEF T
<1>8. T = 0..k BY <1>4, <1>5, <1>6, <1>7, UptoInduction
<1>9. k \in T BY <1>4, <1>8
<1>. QED BY <1>9 DEF T, E

(* A field that is part of the record, as a whole *)
LEMMA FieldFits ==
  ASSUME NEW T, \A t \in T : IsSized(t) /\ (~IsFlex(t) => t.base.n # 0),
         NEW fields, AreFields(fields, T), NEW uni \in BOOLEAN, SomeSize(uni, fields),
         NEW i \in 1..FixedLen(uni, fields)
  PROVE  /\ FieldBase(uni, fields, i) \in Nat
         /\ FieldBase(uni, fields, i) % Align(fields[i].type) = 0
         /\ FieldBase(uni, fields, i) + Size(fields[i].type) <= SetFields(uni, fields).size
         /\ Align(fields[i].type) <= SetFields(uni, fields).align
<1>. DEFINE k == FixedLen(uni, fields)
            n == Len(fields)
            t == fields[i].type
            base == FieldBase(uni, fields, i)
            g == Grown(uni, fields, k)
            size == SetFields(uni, fields).size
<1>0. \A x \in T : IsSized(x) OBVIOUS
<1>1. /\ Measured(fields) /\ n \in Nat /\ k \in 0..n /\ \A j \in 1..n : fields[j].type \in T
      /\ (Open(uni, fields) => k = n - 1)
  BY <1>0, FieldsMeasured DEF Measured
<1>2. i \in 1..n BY <1>1
<1>3. \A j \in 1..k : uni \/ fields[j].type.base.n # 0
  <2>. SUFFICES ASSUME NEW j \in 1..k, ~uni PROVE fields[j].type.base.n # 0 OBVIOUS
  <2>1. j \in 1..n BY <1>1
  <2>2. ~IsFlex(fields[j].type)
    <3>1. CASE j # n BY <2>1, <3>1 DEF AreFields
    <3>2. CASE j = n
      <4>1. ~Open(uni, fields) BY <1>1, <3>2
      <4>2. fields # <<>>
        <5>1. n # 0 BY <1>1, <2>1
        <5>. QED BY <5>1
      <4>. QED BY <3>2, <4>1, <4>2 DEF Open, EndsFlex
    <3>. QED BY <3>1, <3>2
  <2>. QED BY <1>1, <2>1, <2>2
<1>4. /\ base = RoundUp(BaseAfter(uni, fields, i - 1), Align(t)) /\ base \in Nat
      /\ BaseAfter(uni, fields, i - 1) \in Nat /\ IsBase(t.base)
  BY <1>0, <1>2, FieldBaseIs
<1>5. Align(t) \in Nat \ {0} /\ Size(t) \in Nat BY <1>4, BaseParts DEF Align, Size
<1>6. base % Align(t) = 0
  <2>. DEFINE a == Align(t)
  <2>1. a \in Nat \ {0} BY <1>5
  <2>. HIDE DEF a, base
  <2>2. base = RoundUp(BaseAfter(uni, fields, i - 1), a) BY <1>4 DEF a
  <2>3. base % a = 0 BY <1>4, <2>1, <2>2, RoundUpIsNext
  <2>. QED BY <2>3 DEF a
<1>7. /\ Align(t) <= g.align
      /\ uni => Size(t) <= g.size
      /\ ~uni => g.size = BaseAfter(uni, fields, k)
  <2>. HIDE DEF k, n
  <2>. QED BY <1>1, <1>3, GrownExact DEF n, k
<1>8. /\ SetFields(uni, fields).align = g.align /\ Strictest(uni, fields) \in Nat \ {0}
      /\ size = RoundUp(g.size, Strictest(uni, fields))
  BY <1>0, SetFieldsIs
<1>9. g.size \in Nat BY <1>1, GrownIs DEF Ffis
<1>. HIDE DEF g, size, base, t, n
<1>10. size \in Nat /\ g.size <= size BY <1>8, <1>9, RoundUpIsNext
<1>11. base + Size(t) <= g.size
  <2>1. CASE uni
    <3>1. uni = TRUE BY <2>1
    <3>2. i - 1 \in 0..n BY <1>1, <1>2
    <3>3. BaseAfter(uni, fields, i - 1) = 0 BY <1>1, <3>1, <3>2, UnionBase DEF n
    <3>4. RoundUp(0, Align(t)) = 0
      <4>. DEFINE a == Align(t)
      <4>1. a \in Nat \ {0} BY <1>5
      <4>. HIDE DEF a
      <4>2. 0 = 0 * a /\ 0 \in Int BY <4>1
      <4>3. 0 % a = 0 BY <4>1, <4>2, MultipleIs
      <4>4. RoundUp(0, a) = 0 BY <4>1, <4>3, RoundUpMultiple
      <4>. QED BY <4>4 DEF a
    <3>5. base = 0 BY <1>4, <3>3, <3>4
    <3>. QED BY <1>5, <1>7, <1>9, <2>1, <3>5
  <2>2. CASE ~uni
    <3>1. uni = FALSE BY <2>2
    <3>2. BaseAfter(FALSE, fields, i) = Follow(FALSE, BaseAfter(FALSE, fields, i - 1), t.base)
      BY <1>1, <1>2, BaseAfterIs DEF t, n
    <3>3. BaseAfter(FALSE, fields, i) = base + Size(t)
      BY <1>4, <3>1, <3>2 DEF Follow, Size, Align
    <3>4. i \in 0..k /\ k \in 0..Len(fields) BY <1>1 DEF n
    <3>. HIDE DEF k
    <3>5. BaseAfter(FALSE, fields, i) <= BaseAfter(FALSE, fields, k) BY <1>1, <3>4, EndsGrow
    <3>. QED BY <1>7, <2>2, <3>1, <3>3, <3>5
  <2>. QED BY <2>1, <2>2
<1>12. base + Size(t) <= size BY <1>4, <1>5, <1>9, <1>10, <1>11
<1>. QED BY <1>4, <1>6, <1>7, <1>8, <1>12 DEF base, t, size

LEMMA RecordKeepsInside ==
  ASSUME NEW T, \A t \in T : IsSized(t) /\ HasMembers(t, T) /\ (~IsFlex(t) => t.base.n # 0) /\ KeepsInside(t),
         NEW r, IsRecord(r, T)
  PROVE  KeepsInside(r)
<1>. DEFINE uni == r.uni
            fields == r.fields
            k == FixedLen(uni, fields)
            M == MembersOf(T)
<1>1. uni \in BOOLEAN /\ AreFields(fields, T) /\ SomeSize(uni, fields)
  BY DEF IsRecord
<1>2. r.members = Members(uni, fields) /\ r.base.ffi = SetFields(uni, fields) /\ r.base.n = 1
  BY RecordParts DEF IsRecord
<1>. HIDE DEF uni, fields
<1>3. \A t \in T : IsSized(t) /\ HasMembers(t, T) OBVIOUS
<1>4. \A t \in T : IsSized(t) /\ (~IsFlex(t) => t.base.n # 0) OBVIOUS
<1>5. \A t \in T : IsSized(t) OBVIOUS
<1>6. \A t \in T : KeepsInside(t) OBVIOUS
<1>7. SetFields(uni, fields).size \in Nat /\ SetFields(uni, fields).align \in Nat /\ IsLibffi(SetFields(uni, fields))
  BY <1>1, <1>5, SetFieldsIs DEF IsLibffi, Ffis
<1>8. Size(r) = SetFields(uni, fields).size /\ Align(r) = SetFields(uni, fields).align
  BY <1>2, <1>7 DEF Size, Align
<1>9. Elements(r.members) = UNION {Elements(Brought(uni, fields, i)) : i \in 1..Len(fields)}
  BY <1>1, <1>2, <1>3, MembersAre
<1>10. Len(fields) \in Nat BY <1>1, <1>5, FieldsMeasured DEF Measured
<1>11. ASSUME NEW i \in 1..Len(fields), NEW m \in Elements(Brought(uni, fields, i)), ~IsFlex(m.type)
      PROVE  FitsIn(m, r)
  <2>. DEFINE f == fields[i]
              t == f.type
              ms == t.members
              base == FieldBase(uni, fields, i)
  <2>1. /\ t \in T
        /\ f.unnamed => /\ Elements(Brought(uni, fields, i)) = {Inner(x, i, base) : x \in Elements(ms)}
                        /\ Elements(ms) \subseteq M /\ t.k = "record"
        /\ ~f.unnamed => Elements(Brought(uni, fields, i)) = {[name |-> <<i>>, type |-> t, offset |-> base]}
    <3>1. AreBrought(T, uni, fields, i) BY <1>1, <1>3, BroughtIs
    <3>. QED BY <3>1 DEF AreBrought
  <2>. HIDE DEF base
  <2>2. IsBase(t.base) BY <1>5, <2>1 DEF IsSized
  <2>3. Align(t) \in Alignments /\ Align(t) \in Nat \ {0} /\ Size(t) \in Nat
    BY <2>2, BaseParts DEF Align, Size
  <2>4. i \in 1..k
    <3>1. CASE i \notin 1..k
      <4>1. Open(uni, fields) /\ i = Len(fields) BY <1>1, <1>5, <3>1, FieldBaseIs
      <4>2. IsFlex(t) BY <4>1 DEF Open, EndsFlex
      <4>3. t.k # "record" BY <4>2 DEF IsFlex
      <4>4. m.type = t BY <2>1, <4>3
      <4>. QED BY <1>11, <4>2, <4>4
    <3>. QED BY <3>1
  <2>5. /\ base \in Nat /\ base % Align(t) = 0
        /\ base + Size(t) <= Size(r) /\ Align(t) <= Align(r)
    BY <1>1, <1>8, <1>4, <2>4, FieldFits DEF base, k
  <2>. HIDE DEF t, ms
  <2>6. CASE ~f.unnamed
    <3>1. m.offset = base /\ m.type = t BY <2>1, <2>6
    <3>. QED BY <2>5, <3>1 DEF FitsIn
  <2>7. CASE f.unnamed
    <3>1. PICK x \in Elements(ms) : m = Inner(x, i, base) BY <2>1, <2>7
    <3>2. x \in M /\ i \in Nat BY <1>10, <2>1, <2>7
    <3>3. m.type = x.type /\ (m.offset = base + x.offset \/ m.offset = x.offset)
      BY <3>1 DEF Inner
    <3>4. x.type \in T /\ x.offset \in Nat BY <3>2 DEF MembersOf
    <3>5. FitsIn(x, t) BY <1>6, <2>1, <2>7, <3>1 DEF KeepsInside, ms
    <3>. DEFINE a == Align(x.type)
                z == Size(x.type)
    <3>6. a \in Alignments /\ a \in Nat \ {0} /\ z \in Nat
      <4>1. IsBase(x.type.base) BY <1>5, <3>4 DEF IsSized
      <4>. QED BY <4>1, BaseParts DEF Align, Size
    <3>7. x.offset + z <= Size(t) /\ x.offset % a = 0 /\ a <= Align(t)
      BY <1>11, <3>3, <3>5 DEF FitsIn
    <3>. HIDE DEF a, z
    <3>8. base % a = 0
      <4>1. Align(t) % a = 0 BY <2>3, <3>6, <3>7, AlignmentsDivide
      <4>. DEFINE b == Align(t)
      <4>2. b \in Nat \ {0} /\ base % b = 0 /\ b % a = 0 BY <2>3, <2>5, <4>1
      <4>. HIDE DEF b
      <4>3. base \in Int BY <2>5
      <4>. QED BY <3>6, <4>2, <4>3, MultipleOfMultiple
    <3>9. m.offset % a = 0
      <4>. DEFINE o == x.offset
      <4>1. o \in Int /\ base \in Int /\ o % a = 0 BY <2>5, <3>4, <3>7
      <4>. HIDE DEF o
      <4>2. (base + o) % a = 0 BY <3>6, <3>8, <4>1, MultiplesAdd
      <4>. QED BY <3>3, <4>1, <4>2 DEF o
    <3>10. m.offset + z <= Size(r)
      <4>1. Size(r) \in Nat BY <1>7, <1>8
      <4>. QED BY <2>3, <2>5, <3>3, <3>4, <3>6, <3>7, <4>1
    <3>11. a <= Align(r)
      <4>1. Align(r) \in Nat BY <1>7, <1>8
      <4>. QED BY <2>3, <2>5, <3>6, <3>7, <4>1
    <3>. QED BY <3>3, <3>9, <3>10, <3>11 DEF FitsIn, a, z
  <2>. QED BY <2>6, <2>7
<1>12. \A m : IsFlex(m.type) => FitsIn(m, r) BY DEF FitsIn
<1>. QED BY <1>9, <1>11, <1>12 DEF KeepsInside

-----------------------------------------------------------------------------
(* The invariant: every type is made of types that are there already, and  *)
(* so is every body that is open.                                          *)
IsTyped(t, T) ==
  /\ IsSized(t) /\ HasMembers(t, T)
  /\ t.k = "array" => t.n \in Nat /\ Align(t) = Align(t.of) /\ Size(t) = t.n * Size(t.of)
  /\ t.k = "record" => IsRecord(t, T)

Body(T) == [uni : BOOLEAN, fields : Seq([unnamed : BOOLEAN, type : T])]

RecordInv ==
  /\ \A t \in types : IsTyped(t, types)
  /\ bodies \in Seq(Body(types))
  /\ \A i \in 1..Len(bodies) : AreFields(bodies[i].fields, types)

(* Where arrays have elements, so has every type that is not flexible.     *)
InsideInv == \A t \in types : (~IsFlex(t) => t.base.n # 0) /\ KeepsInside(t)

LEMMA FieldsMonotone ==
  ASSUME NEW T, NEW U, T \subseteq U, NEW fields, AreFields(fields, T)
  PROVE  AreFields(fields, U)
<1>. DEFINE F(S) == [unnamed : BOOLEAN, type : S]
<1>1. fields \in Seq(F(T)) BY DEF AreFields
<1>2. F(T) \subseteq F(U) OBVIOUS
<1>. HIDE DEF F
<1>3. fields \in Seq(F(U)) BY <1>1, <1>2, SeqMonotonic
<1>. QED BY <1>3 DEF AreFields, F

LEMMA TypedMonotone ==
  ASSUME NEW T, NEW U, T \subseteq U, NEW t, IsTyped(t, T)
  PROVE  IsTyped(t, U)
<1>1. HasMembers(t, U)
  <2>. SUFFICES ASSUME t.k = "record" PROVE t.members \in Seq(MembersOf(U)) BY DEF HasMembers
  <2>1. t.members \in Seq(MembersOf(T)) BY DEF IsTyped, HasMembers
  <2>2. MembersOf(T) \subseteq MembersOf(U) BY DEF MembersOf
  <2>. QED BY <2>1, <2>2, SeqMonotonic
<1>2. t.k = "record" => IsRecord(t, U) BY FieldsMonotone DEF IsTyped, IsRecord
<1>. QED BY <1>1, <1>2 DEF IsTyped

LEMMA ScalarTyped ==
  ASSUME NEW s \in Scalars, NEW T
  PROVE  /\ IsTyped(Scalar(s), T) /\ Scalar(s).k = "scalar" /\ Scalar(s).base.n = 1
         /\ KeepsInside(Scalar(s)) /\ ~IsFlex(Scalar(s))
<1>. DEFINE t == Scalar(s)
<1>1. t.k = "scalar" /\ t.base.ffi = s /\ t.base.n = 1 BY DEF Scalar, Repeated
<1>2. s.size \in Nat \ {0} /\ s.align \in Nat /\ s.size % s.align = 0 /\ s = Ffi(s.size, s.align)
      /\ s.align \in Alignments
  BY ScalarsAssumption DEF Alignments
<1>3. s \in Ffis BY <1>2, FfiParts
<1>4. IsBase(t.base) BY <1>1, <1>2, <1>3 DEF IsBase, IsLibffi
<1>. HIDE DEF t
<1>5. IsTyped(t, T) BY <1>1, <1>4 DEF IsTyped, IsSized, HasMembers
<1>. QED BY <1>1, <1>5 DEF KeepsInside, IsFlex, t

LEMMA ArrayTyped ==
  ASSUME NEW T, NEW t \in T, IsTyped(t, T), NEW n \in Nat, NEW flex \in BOOLEAN
  PROVE  LET a == ArrayOf(t, n, flex)
         IN  /\ IsTyped(a, T) /\ a.k = "array" /\ a.base.n = n * t.base.n
             /\ KeepsInside(a) /\ (IsFlex(a) <=> flex)
<1>. DEFINE a == ArrayOf(t, n, flex)
            z == t.base.ffi.size
            m == t.base.n
<1>1. /\ a.k = "array" /\ a.of = t /\ a.n = n /\ a.flex = flex
      /\ a.base.ffi = t.base.ffi /\ a.base.n = n * m
      /\ a.base = Repeated(t.base.ffi, n * t.base.n)
  BY DEF ArrayOf, Repeated
<1>2. IsBase(t.base) BY DEF IsTyped, IsSized
<1>3. z \in Nat /\ m \in Nat /\ IsLibffi(t.base.ffi) BY <1>2, BaseParts DEF IsBase
<1>4. n * m \in Nat /\ z * (n * m) = n * (z * m)
  <2>. HIDE DEF z, m
  <2>. QED BY <1>3
<1>5. IsBase(a.base)
  <2>. HIDE DEF a, m
  <2>. QED BY <1>1, <1>3, <1>4 DEF IsBase
<1>6. Align(a) = Align(t) /\ Size(a) = n * Size(t) BY <1>1, <1>4 DEF Align, Size
<1>. HIDE DEF a
<1>7. IsTyped(a, T) BY <1>1, <1>2, <1>5, <1>6 DEF IsTyped, IsSized, HasMembers
<1>. QED BY <1>1, <1>7 DEF KeepsInside, IsFlex, a

LEMMA RecordTyped ==
  ASSUME NEW T, \A t \in T : IsTyped(t, T), NEW fields, AreFields(fields, T),
         NEW uni \in BOOLEAN, SomeSize(uni, fields)
  PROVE  LET r == Record(uni, fields)
         IN  /\ IsTyped(r, T) /\ r.k = "record" /\ r.base.n = 1 /\ IsRecord(r, T) /\ ~IsFlex(r)
<1>. DEFINE r == Record(uni, fields)
<1>1. /\ r.k = "record" /\ r.uni = uni /\ r.fields = fields /\ r.members = Members(uni, fields)
      /\ r.base.ffi = SetFields(uni, fields) /\ r.base.n = 1
  BY RecordParts
<1>2. \A t \in T : IsSized(t) BY DEF IsTyped
<1>3. \A t \in T : IsSized(t) /\ HasMembers(t, T) BY DEF IsTyped
<1>4. IsLibffi(SetFields(uni, fields)) BY <1>2, SetFieldsIs
<1>5. Members(uni, fields) \in Seq(MembersOf(T)) BY <1>3, MembersAre
<1>6. r = Record(r.uni, r.fields) BY <1>1
<1>. HIDE DEF r
<1>7. IsSized(r) BY <1>1, <1>4 DEF IsSized, IsBase
<1>8. HasMembers(r, T) BY <1>1, <1>5 DEF HasMembers
<1>9. IsRecord(r, T) BY <1>1, <1>6 DEF IsRecord
<1>10. IsTyped(r, T) BY <1>1, <1>7, <1>8, <1>9 DEF IsTyped
<1>. QED BY <1>1, <1>9, <1>10 DEF IsFlex, r

(* A field more in a body *)
LEMMA BodyTyped ==
  ASSUME NEW T, NEW body \in Body(T), AreFields(body.fields, T), ~EndsFlex(body.fields),
         NEW t \in T, NEW unnamed \in BOOLEAN, unnamed => t.k = "record"
  PROVE  /\ WithField(body, Field(unnamed, t)) \in Body(T)
         /\ AreFields(WithField(body, Field(unnamed, t)).fields, T)
<1>. DEFINE F == [unnamed : BOOLEAN, type : T]
            s == body.fields
            f == Field(unnamed, t)
            a == Append(s, f)
            n == Len(s)
<1>1. body.uni \in BOOLEAN /\ s \in Seq(F) /\ body = [uni |-> body.uni, fields |-> s] BY DEF Body
<1>2. f \in F /\ f.unnamed = unnamed /\ f.type = t BY DEF Field
<1>3. WithField(body, f) = [uni |-> body.uni, fields |-> a] BY <1>1 DEF WithField
<1>4. /\ \A i \in 1..n : s[i].unnamed => s[i].type.k = "record"
      /\ \A i \in 1..n : i # n => ~IsFlex(s[i].type)
  BY DEF AreFields
<1>5. s # <<>> => ~IsFlex(s[n].type) BY DEF EndsFlex
<1>. HIDE DEF F, s, f
<1>6. n \in Nat /\ a \in Seq(F) /\ Len(a) = n + 1 /\ a[n + 1] = f /\ \A i \in 1..n : a[i] = s[i]
  BY <1>1, <1>2
<1>7. \A i \in 1..n : ~IsFlex(s[i].type)
  <2>. SUFFICES ASSUME NEW i \in 1..n, i = n PROVE ~IsFlex(s[n].type) BY <1>4
  <2>1. s # <<>> BY <1>6
  <2>. QED BY <1>5, <2>1
<1>. HIDE DEF a, n
<1>8. \A i \in 1..(n + 1) : i \in 1..n \/ i = n + 1 BY <1>6
<1>9. \A i \in 1..(n + 1) : a[i].unnamed => a[i].type.k = "record"
  BY <1>2, <1>4, <1>6, <1>8
<1>10. \A i \in 1..(n + 1) : i # n + 1 => ~IsFlex(a[i].type)
  BY <1>6, <1>7, <1>8
<1>11. AreFields(a, T) BY <1>6, <1>9, <1>10 DEF AreFields, F
<1>12. [uni |-> body.uni, fields |-> a] \in Body(T) BY <1>1, <1>6 DEF Body, F
<1>. QED BY <1>3, <1>11, <1>12 DEF f

-----------------------------------------------------------------------------
(* The steps *)

LEMMA RecordInvInit == RecordInit => RecordInv
<1>. SUFFICES ASSUME RecordInit PROVE RecordInv OBVIOUS
<1>1. \A t \in types : IsTyped(t, types) BY ScalarTyped DEF RecordInit
<1>2. bodies \in Seq(Body(types)) /\ Len(bodies) = 0 BY DEF RecordInit
<1>. QED BY <1>1, <1>2 DEF RecordInv

(* Bodies that are open stay what they are when there are more types. *)
LEMMA BodiesMonotone ==
  ASSUME NEW T, NEW U, T \subseteq U, NEW s \in Seq(Body(T)), \A i \in 1..Len(s) : AreFields(s[i].fields, T)
  PROVE  s \in Seq(Body(U)) /\ \A i \in 1..Len(s) : AreFields(s[i].fields, U)
<1>1. ASSUME NEW b \in Body(T) PROVE b \in Body(U)
  <2>. DEFINE F(S) == [unnamed : BOOLEAN, type : S]
  <2>1. b.uni \in BOOLEAN /\ b.fields \in Seq(F(T)) /\ b = [uni |-> b.uni, fields |-> b.fields] BY DEF Body
  <2>2. F(T) \subseteq F(U) OBVIOUS
  <2>. HIDE DEF F
  <2>3. b.fields \in Seq(F(U)) BY <2>1, <2>2, SeqMonotonic
  <2>. QED BY <2>1, <2>3 DEF Body, F
<1>2. Body(T) \subseteq Body(U) BY <1>1
<1>3. s \in Seq(Body(U)) BY <1>2, SeqMonotonic
<1>4. \A i \in 1..Len(s) : AreFields(s[i].fields, U) BY FieldsMonotone
<1>. QED BY <1>3, <1>4

LEMMA MoreTypes ==
  ASSUME RecordInv, NEW t, IsTyped(t, types)
  PROVE  LET more == types \cup {t}
         IN  /\ \A x \in more : IsTyped(x, more)
             /\ bodies \in Seq(Body(more)) /\ \A i \in 1..Len(bodies) : AreFields(bodies[i].fields, more)
<1>. DEFINE more == types \cup {t}
<1>1. types \subseteq more OBVIOUS
<1>2. \A x \in more : IsTyped(x, types) BY DEF RecordInv
<1>. HIDE DEF more
<1>3. \A x \in more : IsTyped(x, more) BY <1>1, <1>2, TypedMonotone
<1>4. bodies \in Seq(Body(more)) /\ \A i \in 1..Len(bodies) : AreFields(bodies[i].fields, more)
  BY <1>1, BodiesMonotone DEF RecordInv
<1>. QED BY <1>3, <1>4 DEF more

(* The last of the bodies, and the others *)
LEMMA LastBody ==
  ASSUME NEW T, NEW s \in Seq(Body(T)), s # <<>>, \A i \in 1..Len(s) : AreFields(s[i].fields, T)
  PROVE  LET n == Len(s)
             outer == SubSeq(s, 1, n - 1)
         IN  /\ n \in Nat \ {0} /\ s[n] \in Body(T) /\ AreFields(s[n].fields, T)
             /\ outer \in Seq(Body(T)) /\ \A i \in 1..Len(outer) : AreFields(outer[i].fields, T)
<1>. DEFINE n == Len(s)
            outer == SubSeq(s, 1, n - 1)
            B == Body(T)
<1>. HIDE DEF B
<1>1. s \in Seq(B) BY DEF B
<1>2. n \in Nat \ {0} BY <1>1, EmptySeq
<1>3. n \in 1..n /\ \A i \in 1..n : s[i] \in B BY <1>1, <1>2, ElementOfSeq
<1>4. /\ outer \in Seq(B) /\ Len(outer) = IF 1 <= n - 1 THEN (n - 1) - 1 + 1 ELSE 0
      /\ \A i \in 1..((n - 1) - 1 + 1) : outer[i] = s[1 + i - 1]
  <2>. HIDE DEF n
  <2>1. 1 \in Int /\ n - 1 \in Int /\ \A i \in 1..(n - 1) : s[i] \in B BY <1>2, <1>3
  <2>. QED BY <2>1, SubSeqProperties
<1>. HIDE DEF outer, n
<1>5. \A i \in 1..Len(outer) : i \in 1..n /\ outer[i] = s[i] BY <1>2, <1>4
<1>6. \A i \in 1..n : AreFields(s[i].fields, T) BY DEF n
<1>7. AreFields(s[n].fields, T) /\ \A i \in 1..Len(outer) : AreFields(outer[i].fields, T)
  BY <1>3, <1>5, <1>6
<1>. QED BY <1>2, <1>3, <1>4, <1>7 DEF B, n, outer

(* A field more in the last of the bodies *)
LEMMA LastBodyGrows ==
  ASSUME NEW T, NEW s \in Seq(Body(T)), s # <<>>, \A i \in 1..Len(s) : AreFields(s[i].fields, T),
         ~EndsFlex(s[Len(s)].fields), NEW t \in T, NEW unnamed \in BOOLEAN, unnamed => t.k = "record"
  PROVE  LET grown == [s EXCEPT ![Len(s)] = WithField(@, Field(unnamed, t))]
         IN  grown \in Seq(Body(T)) /\ \A i \in 1..Len(grown) : AreFields(grown[i].fields, T)
<1>. DEFINE n == Len(s)
            b == WithField(s[n], Field(unnamed, t))
            grown == [s EXCEPT ![n] = b]
            B == Body(T)
<1>1. n \in Nat \ {0} /\ s[n] \in B /\ AreFields(s[n].fields, T) BY LastBody
<1>2. b \in B /\ AreFields(b.fields, T) BY <1>1, BodyTyped
<1>3. s \in Seq(B) OBVIOUS
<1>4. \A i \in 1..n : AreFields(s[i].fields, T) OBVIOUS
<1>. HIDE DEF b, B
<1>5. n \in 1..n BY <1>1
<1>6. grown \in Seq(B) /\ Len(grown) = n /\ \A i \in 1..n : grown[i] = IF i = n THEN b ELSE s[i]
  BY <1>2, <1>3, <1>5, ExceptSeq
<1>. HIDE DEF grown, n
<1>7. \A i \in 1..n : AreFields(grown[i].fields, T) BY <1>2, <1>4, <1>6
<1>. QED BY <1>6, <1>7 DEF B, b, grown, n

LEMMA RecordInvNext == RecordInv /\ [RecordNext]_recordVars => RecordInv'
<1>. SUFFICES ASSUME RecordInv, [RecordNext]_recordVars PROVE RecordInv' OBVIOUS
<1>1. ASSUME NEW t \in types, NEW n \in Nat, NEW flex \in BOOLEAN, DeclareArray(t, n, flex) PROVE RecordInv'
  <2>1. IsTyped(ArrayOf(t, n, flex), types) BY ArrayTyped DEF RecordInv
  <2>2. types' = types \cup {ArrayOf(t, n, flex)} /\ bodies' = bodies BY <1>1 DEF DeclareArray
  <2>. QED BY <2>1, <2>2, MoreTypes DEF RecordInv
<1>2. ASSUME NEW uni \in BOOLEAN, OpenBody(uni) PROVE RecordInv'
  <2>. DEFINE b == [uni |-> uni, fields |-> <<>>]
              n == Len(bodies)
  <2>1. types' = types /\ bodies' = Append(bodies, b) BY <1>2 DEF OpenBody
  <2>2. b \in Body(types) BY DEF Body
  <2>3. AreFields(b.fields, types) BY DEF AreFields
  <2>4. bodies \in Seq(Body(types)) /\ \A i \in 1..n : AreFields(bodies[i].fields, types) BY DEF RecordInv
  <2>. HIDE DEF b
  <2>5. /\ bodies' \in Seq(Body(types)) /\ n \in Nat /\ Len(bodies') = n + 1
        /\ bodies'[n + 1] = b /\ \A i \in 1..n : bodies'[i] = bodies[i]
    BY <2>1, <2>2, <2>4
  <2>6. \A i \in 1..(n + 1) : i \in 1..n \/ i = n + 1 BY <2>5
  <2>. HIDE DEF n
  <2>7. \A i \in 1..(n + 1) : AreFields(bodies'[i].fields, types) BY <2>3, <2>4, <2>5, <2>6
  <2>. QED BY <2>1, <2>5, <2>7 DEF RecordInv
<1>3. ASSUME NEW t \in types, AddField(t) PROVE RecordInv'
  <2>1. /\ bodies # <<>> /\ ~EndsFlex(bodies[Len(bodies)].fields) /\ types' = types
        /\ bodies' = [bodies EXCEPT ![Len(bodies)] = WithField(@, Field(FALSE, t))]
    BY <1>3 DEF AddField
  <2>2. bodies' \in Seq(Body(types)) /\ \A i \in 1..Len(bodies') : AreFields(bodies'[i].fields, types)
    BY <2>1, LastBodyGrows DEF RecordInv
  <2>. QED BY <2>1, <2>2 DEF RecordInv
<1>4. ASSUME NEW transparent \in BOOLEAN, CloseBody(transparent) PROVE RecordInv'
  <2>. DEFINE body == bodies[Len(bodies)]
              r == Record(body.uni, body.fields)
              more == types \cup {r}
  <2>1. /\ bodies # <<>> /\ HasSize(body) /\ types' = more
        /\ IF transparent
             THEN /\ Outer # <<>> /\ ~EndsFlex(Outer[Len(Outer)].fields)
                  /\ bodies' = [Outer EXCEPT ![Len(Outer)] = WithField(@, Field(TRUE, r))]
             ELSE bodies' = Outer
    BY <1>4 DEF CloseBody
  <2>2. body \in Body(types) /\ AreFields(body.fields, types)
    BY <2>1, LastBody DEF RecordInv
  <2>3. body.uni \in BOOLEAN BY <2>2 DEF Body
  <2>4. SomeSize(body.uni, body.fields) BY <2>1 DEF HasSize, SomeSize
  <2>5. \A t \in types : IsTyped(t, types) BY DEF RecordInv
  <2>. HIDE DEF body
  <2>6. IsTyped(r, types) /\ r.k = "record" BY <2>2, <2>3, <2>4, <2>5, RecordTyped
  <2>. HIDE DEF r
  <2>7. /\ \A x \in more : IsTyped(x, more)
        /\ bodies \in Seq(Body(more)) /\ \A i \in 1..Len(bodies) : AreFields(bodies[i].fields, more)
    BY <2>6, MoreTypes
  <2>8. r \in more OBVIOUS
  <2>. HIDE DEF more
  <2>9. Outer \in Seq(Body(more)) /\ \A i \in 1..Len(Outer) : AreFields(Outer[i].fields, more)
    BY <2>1, <2>7, LastBody DEF Outer
  <2>10. bodies' \in Seq(Body(more)) /\ \A i \in 1..Len(bodies') : AreFields(bodies'[i].fields, more)
    <3>1. CASE transparent
      <4>1. /\ Outer # <<>> /\ ~EndsFlex(Outer[Len(Outer)].fields)
            /\ bodies' = [Outer EXCEPT ![Len(Outer)] = WithField(@, Field(TRUE, r))]
        BY <2>1, <3>1
      <4>. QED BY <2>6, <2>8, <2>9, <4>1, LastBodyGrows
    <3>2. CASE ~transparent BY <2>1, <2>9, <3>2
    <3>. QED BY <3>1, <3>2
  <2>. QED BY <2>1, <2>7, <2>10 DEF RecordInv
<1>5. CASE UNCHANGED recordVars BY <1>5 DEF recordVars, RecordInv
<1>6. Counts \subseteq Nat /\ 0 \in Nat BY ScalarsAssumption
<1>. QED BY <1>1, <1>2, <1>3, <1>4, <1>5, <1>6 DEF RecordNext

(***************************************************************************)
(* Every type is made of types that are complete, its size is a multiple   *)
(* of its alignment, and the fields and members of a record are what its   *)
(* size and offsets were computed from (parse_record, set_fields).         *)
(***************************************************************************)
THEOREM RecordsInvariant == RecordSpec => []RecordInv
<1>1. RecordInit => RecordInv BY RecordInvInit
<1>2. RecordInv /\ [RecordNext]_recordVars => RecordInv' BY RecordInvNext
<1>. QED BY <1>1, <1>2, PTL DEF RecordSpec

(***************************************************************************)
(* For builtin types of any sizes and alignments, and any number of        *)
(* fields, arrays and records inside one another, what set_fields() and    *)
(* iter_fields() compute is what C has: sizes always, offsets but for two  *)
(* kinds of members and alignments but for one kind of record, which are   *)
(* named at LayoutAsInC; and what is left out there.                       *)
(***************************************************************************)
THEOREM RecordsLieAsInC == RecordSpec => []LayoutAsInC
<1>. DEFINE AsInC(t) ==
              /\ Size(t) = CSize(t)
              /\ Align(t) = CAlign(t) \/ StrictEnd(t)
              /\ Shallow(t, WithSize(t, Found(t))) = Shallow(t, WithSize(t, CMembers(t)))
              /\ \A i \in DOMAIN t.fields \ Fixed(t) :
                   \E m \in Found(t) : m.name = <<i>> /\ m.offset >= CPlace(t, i)
<1>1. RecordInv => LayoutAsInC
  <2>. SUFFICES ASSUME RecordInv, NEW t \in types
                PROVE  /\ t.k = "array" => Size(t) = t.n * Size(t.of) /\ Align(t) = Align(t.of)
                       /\ t.k = "record" /\ Regular(t) => AsInC(t)
    BY Zenon DEF LayoutAsInC
  <2>1. IsTyped(t, types) BY DEF RecordInv
  <2>2. \A x \in types : IsSized(x) BY DEF RecordInv, IsTyped
  <2>3. \A x \in types : IsSized(x) /\ HasMembers(x, types) BY DEF RecordInv, IsTyped
  <2>4. CASE t.k = "array" BY <2>1, <2>4 DEF IsTyped
  <2>5. ASSUME t.k = "record", Regular(t) PROVE AsInC(t)
    <3>1. IsRecord(t, types) BY <2>1, <2>5 DEF IsTyped
    <3>2. Size(t) = CSize(t) /\ (Align(t) = CAlign(t) \/ StrictEnd(t)) BY <2>2, <2>5, <3>1, SizeIsC
    <3>3. /\ Shallow(t, WithSize(t, Found(t))) = Shallow(t, WithSize(t, CMembers(t)))
          /\ \A i \in DOMAIN t.fields \ Fixed(t) :
               \E m \in Found(t) : m.name = <<i>> /\ m.offset >= CPlace(t, i)
      BY <2>3, <2>5, <3>1, MembersAreCs
    <3>. QED BY <3>2, <3>3
  <2>. QED BY <2>4, <2>5
<1>. QED BY <1>1, RecordsInvariant, PTL

LEMMA InsideInit == RecordInit => InsideInv
<1>. SUFFICES ASSUME RecordInit, NEW t \in types PROVE (~IsFlex(t) => t.base.n # 0) /\ KeepsInside(t)
  BY DEF InsideInv
<1>1. PICK s \in Scalars : t = Scalar(s) BY DEF RecordInit
<1>. QED BY <1>1, ScalarTyped

LEMMA InsideNext ==
  ASSUME 0 \notin Counts
  PROVE  RecordInv /\ InsideInv /\ [RecordNext]_recordVars => InsideInv'
<1>. SUFFICES ASSUME RecordInv, InsideInv, [RecordNext]_recordVars PROVE InsideInv' OBVIOUS
<1>. DEFINE Good(t) == (~IsFlex(t) => t.base.n # 0) /\ KeepsInside(t)
<1>1. \A t \in types : Good(t) BY DEF InsideInv
<1>2. \A t \in types : IsTyped(t, types) BY DEF RecordInv
<1>3. ASSUME NEW t \in types, NEW n \in Nat, NEW flex \in BOOLEAN, flex \/ n # 0, DeclareArray(t, n, flex)
      PROVE  InsideInv'
  <2>. DEFINE a == ArrayOf(t, n, flex)
              m == t.base.n
  <2>1. /\ IsTyped(t, types) /\ a.k = "array" /\ a.base.n = n * m
        /\ KeepsInside(a) /\ (IsFlex(a) <=> flex)
    BY <1>2, ArrayTyped
  <2>2. types' = types \cup {a} /\ ~IsFlex(t) BY <1>3 DEF DeclareArray
  <2>3. m \in Nat /\ m # 0 BY <1>1, <2>1, <2>2, BaseParts DEF IsTyped, IsSized
  <2>. HIDE DEF a, m
  <2>4. ~IsFlex(a) => a.base.n # 0
    <3>1. n # 0 => n * m # 0
      <4>1. n # 0 => n >= 1 /\ m >= 1 BY <2>3
      <4>2. n # 0 => n * m >= 1 BY <2>3, <4>1
      <4>. QED BY <4>2
    <3>. QED BY <1>3, <2>1, <3>1
  <2>. QED BY <1>1, <2>1, <2>2, <2>4 DEF InsideInv
<1>4. ASSUME NEW transparent \in BOOLEAN, CloseBody(transparent) PROVE InsideInv'
  <2>. DEFINE body == bodies[Len(bodies)]
              r == Record(body.uni, body.fields)
  <2>1. bodies # <<>> /\ HasSize(body) /\ types' = types \cup {r} BY <1>4 DEF CloseBody
  <2>2. body \in Body(types) /\ AreFields(body.fields, types) BY <2>1, LastBody DEF RecordInv
  <2>3. body.uni \in BOOLEAN /\ SomeSize(body.uni, body.fields)
    BY <2>1, <2>2 DEF Body, HasSize, SomeSize
  <2>. HIDE DEF body
  <2>4. r.base.n = 1 /\ IsRecord(r, types) BY <1>2, <2>2, <2>3, RecordTyped
  <2>. HIDE DEF r
  <2>5. \A t \in types : IsSized(t) /\ HasMembers(t, types) /\ (~IsFlex(t) => t.base.n # 0) /\ KeepsInside(t)
    BY <1>1, <1>2 DEF IsTyped
  <2>6. KeepsInside(r) BY <2>4, <2>5, RecordKeepsInside
  <2>. QED BY <1>1, <2>1, <2>4, <2>6 DEF InsideInv
<1>5. CASE types' = types BY <1>5 DEF InsideInv
<1>6. Counts \subseteq Nat /\ 0 \in Nat /\ 0 \notin Counts BY ScalarsAssumption
<1>7. \A uni \in BOOLEAN : OpenBody(uni) => types' = types BY DEF OpenBody
<1>8. \A t \in types : AddField(t) => types' = types BY DEF AddField
<1>9. UNCHANGED recordVars => types' = types BY DEF recordVars
<1>. QED BY <1>3, <1>4, <1>5, <1>6, <1>7, <1>8, <1>9 DEF RecordNext

(***************************************************************************)
(* Where every array has elements, no member reaches beyond its record, or *)
(* is anywhere but at a multiple of its alignment: that of a transparent   *)
(* record below another one, whose offset is not the one of C, neither.    *)
(* (iter_fields)                                                           *)
(***************************************************************************)
THEOREM MembersStayInside ==
  ASSUME 0 \notin Counts
  PROVE  RecordSpec => []MembersInside
<1>1. RecordInit => RecordInv /\ InsideInv BY RecordInvInit, InsideInit
<1>2. RecordInv /\ InsideInv /\ [RecordNext]_recordVars => (RecordInv /\ InsideInv)'
  BY RecordInvNext, InsideNext
<1>3. RecordInv /\ InsideInv => MembersInside
  <2>. SUFFICES ASSUME RecordInv, InsideInv, NEW r \in types, r.k = "record", NEW j \in DOMAIN r.members,
                       ~IsFlex(r.members[j].type)
                PROVE  /\ r.members[j].offset + Size(r.members[j].type) <= Size(r)
                       /\ r.members[j].offset % Align(r.members[j].type) = 0
    BY DEF MembersInside
  <2>1. r.members \in Seq(MembersOf(types)) BY DEF RecordInv, IsTyped, HasMembers
  <2>2. j \in 1..Len(r.members) BY <2>1, LenProperties
  <2>3. r.members[j] \in Elements(r.members) BY <2>2 DEF Elements
  <2>4. FitsIn(r.members[j], r) BY <2>3 DEF InsideInv, KeepsInside
  <2>. QED BY <2>4 DEF FitsIn
<1>. QED BY <1>1, <1>2, <1>3, PTL DEF RecordSpec

-----------------------------------------------------------------------------
(* Initialization (Initializer).  First, what it needs of types: what an   *)
(* array consists of, and what an open member consists of, are types.      *)
PartsInv ==
  \A t \in types :
    /\ t.k \in {"scalar", "array", "record"}
    /\ t.k = "array" => t.of \in types /\ ~IsFlex(t.of) /\ (t.flex => t.n = 0)
    /\ t.k = "record" => t.flexible \subseteq types

LEMMA PartsInit == RecordInit => PartsInv
<1>. SUFFICES ASSUME RecordInit, NEW t \in types PROVE t.k = "scalar"
  BY DEF PartsInv
<1>1. PICK s \in Scalars : t = Scalar(s) BY DEF RecordInit
<1>. QED BY <1>1 DEF Scalar

LEMMA FlexibleIs ==
  ASSUME PartsInv, NEW fields, AreFields(fields, types)
  PROVE  Flexible(fields) \subseteq types
<1>. SUFFICES ASSUME fields # <<>> PROVE Flexible(fields) \subseteq types
  BY DEF Flexible
<1>. DEFINE F == [unnamed : BOOLEAN, type : types]
            last == fields[Len(fields)].type
<1>1. fields \in Seq(F) BY DEF AreFields
<1>2. \A f \in F : f.type \in types OBVIOUS
<1>. HIDE DEF F
<1>3. Len(fields) \in 1..Len(fields) BY <1>1, EmptySeq
<1>4. last \in types BY <1>1, <1>2, <1>3, ElementOfSeq
<1>. HIDE DEF last
<1>5. last.k = "record" => last.flexible \subseteq types BY <1>4 DEF PartsInv
<1>6. IsFlex(last) => last.of \in types BY <1>4 DEF PartsInv, IsFlex
<1>. QED BY <1>5, <1>6 DEF Flexible, last

LEMMA PartsNext == RecordInv /\ PartsInv /\ [RecordNext]_recordVars => PartsInv'
<1>. SUFFICES ASSUME RecordInv, PartsInv, [RecordNext]_recordVars PROVE PartsInv' OBVIOUS
<1>. DEFINE Good(t, T) ==
              /\ t.k \in {"scalar", "array", "record"}
              /\ t.k = "array" => t.of \in T /\ ~IsFlex(t.of) /\ (t.flex => t.n = 0)
              /\ t.k = "record" => t.flexible \subseteq T
<1>1. \A t \in types : Good(t, types) BY DEF PartsInv
<1>2. ASSUME NEW a, Good(a, types), types' = types \cup {a} PROVE PartsInv'
  BY <1>1, <1>2 DEF PartsInv
<1>3. ASSUME NEW t \in types, NEW n \in Nat, NEW flex \in BOOLEAN, flex => n = 0, DeclareArray(t, n, flex)
      PROVE  PartsInv'
  <2>1. types' = types \cup {ArrayOf(t, n, flex)} /\ ~IsFlex(t) BY <1>3 DEF DeclareArray
  <2>2. /\ ArrayOf(t, n, flex).k = "array" /\ ArrayOf(t, n, flex).of = t
        /\ ArrayOf(t, n, flex).flex = flex /\ ArrayOf(t, n, flex).n = n
    BY DEF ArrayOf
  <2>3. Good(ArrayOf(t, n, flex), types) BY <1>3, <2>1, <2>2
  <2>. QED BY <1>2, <2>1, <2>3
<1>4. ASSUME NEW transparent \in BOOLEAN, CloseBody(transparent) PROVE PartsInv'
  <2>. DEFINE body == bodies[Len(bodies)]
              r == Record(body.uni, body.fields)
  <2>1. bodies # <<>> /\ types' = types \cup {r} BY <1>4 DEF CloseBody
  <2>2. AreFields(body.fields, types) BY <2>1, LastBody DEF RecordInv
  <2>3. r.k = "record" /\ r.flexible = Flexible(body.fields) BY DEF Record
  <2>4. Flexible(body.fields) \subseteq types BY <2>2, FlexibleIs
  <2>. HIDE DEF body, r
  <2>5. Good(r, types) BY <2>3, <2>4
  <2>. QED BY <1>2, <2>1, <2>5
<1>5. CASE types' = types BY <1>5 DEF PartsInv
<1>6. Counts \subseteq Nat /\ 0 \in Nat BY ScalarsAssumption
<1>7. \A uni \in BOOLEAN : OpenBody(uni) => types' = types BY DEF OpenBody
<1>8. \A t \in types : AddField(t) => types' = types BY DEF AddField
<1>9. UNCHANGED recordVars => types' = types BY DEF recordVars
<1>. QED BY <1>3, <1>4, <1>5, <1>6, <1>7, <1>8, <1>9 DEF RecordNext

TypesInv == RecordInv /\ InsideInv /\ PartsInv

(* The sizes of a type and of what it consists of *)
LEMMA SizesAre ==
  ASSUME TypesInv, NEW t \in types
  PROVE  /\ Size(t) \in Nat /\ (~IsFlex(t) => Size(t) > 0) /\ (IsFlex(t) => t.k = "array" /\ Size(t) = 0)
         /\ t.k = "array" => t.of \in types /\ Size(t.of) \in Nat \ {0}
         /\ t.k = "record" => /\ ~IsFlex(t) /\ Size(t) > 0
                              /\ \A of \in t.flexible : Size(of) \in Nat
<1>1. ASSUME NEW x \in types PROVE Size(x) \in Nat /\ (~IsFlex(x) => Size(x) > 0)
  <2>1. IsBase(x.base) /\ (~IsFlex(x) => x.base.n # 0)
    BY DEF TypesInv, RecordInv, InsideInv, IsTyped, IsSized
  <2>. QED BY <2>1, BaseParts DEF Size
<1>2. t.k = "array" => t.of \in types /\ ~IsFlex(t.of) BY DEF TypesInv, PartsInv
<1>3. t.k = "record" => ~IsFlex(t) /\ t.flexible \subseteq types BY DEF TypesInv, PartsInv, IsFlex
<1>4. ASSUME IsFlex(t) PROVE t.k = "array" /\ Size(t) = 0
  <2>1. t.k = "array" /\ t.n = 0 BY <1>4 DEF TypesInv, PartsInv, IsFlex
  <2>2. Size(t) = t.n * Size(t.of) BY <2>1 DEF TypesInv, RecordInv, IsTyped
  <2>3. Size(t.of) \in Nat BY <1>1, <1>2, <2>1
  <2>. QED BY <2>1, <2>2, <2>3
<1>. QED BY <1>1, <1>2, <1>3, <1>4

(* A member is a type, and one that has a size is inside its record. *)
LEMMA MemberIs ==
  ASSUME TypesInv, NEW t \in types, t.k = "record"
  PROVE  /\ Len(t.members) \in Nat
         /\ \A j \in 1..Len(t.members) :
              LET m == t.members[j]
              IN  /\ m.type \in types /\ m.offset \in Nat
                  /\ ~IsFlex(m.type) => m.offset + Size(m.type) <= Size(t)
<1>. DEFINE M == MembersOf(types)
<1>1. t.members \in Seq(M) BY DEF TypesInv, RecordInv, IsTyped, HasMembers
<1>2. \A m \in M : m.type \in types /\ m.offset \in Nat BY DEF MembersOf
<1>. HIDE DEF M
<1>3. Len(t.members) \in Nat /\ \A j \in 1..Len(t.members) : t.members[j] \in M BY <1>1
<1>4. \A j \in 1..Len(t.members) : t.members[j] \in Elements(t.members) BY DEF Elements
<1>5. KeepsInside(t) BY DEF TypesInv, InsideInv
<1>6. \A j \in 1..Len(t.members) : FitsIn(t.members[j], t) BY <1>4, <1>5 DEF KeepsInside
<1>. QED BY <1>2, <1>3, <1>6 DEF FitsIn

-----------------------------------------------------------------------------
(* The memory, and what is written to it *)

IsObject(o) ==
  /\ o = [bytes |-> o.bytes, size |-> o.size, beyond |-> o.beyond, overfull |-> o.overfull, ok |-> o.ok]
  /\ o.size \in Nat /\ o.overfull \in BOOLEAN
  /\ ~o.overfull => ~o.beyond

(* What a step does to the memory where it lets the calls be *)
Later(o, p) == IsObject(p) /\ p.size = o.size /\ (o.overfull => p.overfull)

LEMMA PutLater ==
  ASSUME NEW o, IsObject(o), NEW i \in Nat, NEW n \in Nat, NEW content,
         ~o.overfull /\ n > 0 => i + n <= o.size
  PROVE  Later(o, Put(o, i, n, content))
<1>. DEFINE p == Put(o, i, n, content)
            bytes == [j \in DOMAIN o.bytes |-> IF i <= j /\ j < i + n THEN content[j - i] ELSE o.bytes[j]]
            beyond == o.beyond \/ (n > 0 /\ i + n > o.size)
<1>1. o = [bytes |-> o.bytes, size |-> o.size, beyond |-> o.beyond, overfull |-> o.overfull, ok |-> o.ok]
  BY DEF IsObject
<1>2. p = [o EXCEPT !.bytes = bytes, !.beyond = beyond] BY DEF Put
<1>. HIDE DEF p, bytes, beyond
<1>3. p = [bytes |-> bytes, size |-> o.size, beyond |-> beyond, overfull |-> o.overfull, ok |-> o.ok]
  BY <1>1, <1>2
<1>4. o.size \in Nat /\ o.overfull \in BOOLEAN /\ (~o.overfull => ~o.beyond) BY DEF IsObject
<1>5. ~o.overfull => ~beyond BY <1>4 DEF beyond
<1>6. /\ p.size = o.size /\ p.overfull = o.overfull /\ p.beyond = beyond
      /\ p = [bytes |-> p.bytes, size |-> p.size, beyond |-> p.beyond, overfull |-> p.overfull, ok |-> p.ok]
  BY <1>3
<1>. QED BY <1>4, <1>5, <1>6 DEF Later, IsObject, p

LEMMA FillLater ==
  ASSUME NEW o, IsObject(o), NEW i \in Nat, NEW n \in Nat, NEW byte,
         ~o.overfull /\ n > 0 => i + n <= o.size
  PROVE  Later(o, Fill(o, i, n, byte))
  BY PutLater DEF Fill

LEMMA CopyLater ==
  ASSUME NEW o, IsObject(o), NEW i \in Nat, NEW room \in Nat, NEW init, init.len \in Nat,
         ~o.overfull /\ room > 0 => i + room <= o.size
  PROVE  Later(o, Copy(o, i, room, init))
<1>. DEFINE n == Shortest(init.len + 1, room)
<1>1. n \in Nat /\ n <= room BY DEF Shortest
<1>2. ~o.overfull /\ n > 0 => i + n <= o.size BY <1>1 DEF IsObject
<1>. HIDE DEF n
<1>3. Later(o, Put(o, i, n, Chars(init))) BY <1>1, <1>2, PutLater
<1>. QED BY <1>3 DEF Copy, n

-----------------------------------------------------------------------------
(* Calls: there is memory for what each writes, unless a list was longer   *)
(* than the memory there is for it.  A record has at least its size, also  *)
(* when its open member has more; a list is no longer than its array.      *)
IsCall(o, c) ==
  /\ c \in [t : types, at : Nat, rsz : Nat, list : Seq(Initializers), named : {c.named},
            next : Nat \ {0}, filled : BOOLEAN]
  /\ c.t.k # "scalar" /\ \A e \in DOMAIN c.named : c.named[e] \in Initializers
  /\ c.t.k = "record" => Size(c.t) <= c.rsz
  /\ ~o.overfull => /\ c.rsz > 0 => c.at + c.rsz <= o.size
                    /\ c.t.k = "array" => Len(c.list) * Size(c.t.of) <= c.rsz

AreCalls(o, s) == \E S : s \in Seq(S) /\ \A c \in S : IsCall(o, c)

ObjectInv == TypesInv /\ IsObject(object) /\ AreCalls(object, stack)

LEMMA NoCalls == ASSUME NEW o PROVE AreCalls(o, <<>>)
<1>. DEFINE S == {}
<1>1. <<>> \in Seq(S) OBVIOUS
<1>2. \A c \in S : IsCall(o, c) OBVIOUS
<1>. HIDE DEF S
<1>. QED BY <1>1, <1>2 DEF AreCalls

LEMMA CallsLater ==
  ASSUME NEW o, NEW p, Later(o, p), NEW s, AreCalls(o, s)
  PROVE  AreCalls(p, s)
<1>1. PICK S : s \in Seq(S) /\ \A c \in S : IsCall(o, c) BY DEF AreCalls
<1>2. \A c \in S : IsCall(p, c) BY <1>1 DEF IsCall, Later
<1>. QED BY <1>1, <1>2 DEF AreCalls

LEMMA CallMore ==
  ASSUME NEW o, NEW s, AreCalls(o, s), NEW c, IsCall(o, c)
  PROVE  AreCalls(o, Append(s, c))
<1>1. PICK S : s \in Seq(S) /\ \A d \in S : IsCall(o, d) BY DEF AreCalls
<1>. DEFINE U == S \cup {c}
<1>2. \A d \in U : IsCall(o, d) BY <1>1
<1>3. S \subseteq U /\ c \in U OBVIOUS
<1>. HIDE DEF U
<1>4. s \in Seq(U) BY <1>1, <1>3, SeqMonotonic
<1>5. Append(s, c) \in Seq(U) BY <1>3, <1>4
<1>. QED BY <1>2, <1>5 DEF AreCalls

LEMMA TopAndBelow ==
  ASSUME NEW o, AreCalls(o, stack), stack # <<>>
  PROVE  IsCall(o, Top) /\ AreCalls(o, Below)
<1>1. PICK S : stack \in Seq(S) /\ \A c \in S : IsCall(o, c) BY DEF AreCalls
<1>. DEFINE n == Len(stack)
<1>2. n \in 1..n BY <1>1, EmptySeq
<1>3. \A i \in 1..n : stack[i] \in S BY <1>1, ElementOfSeq
<1>4. SubSeq(stack, 1, n - 1) \in Seq(S)
  <2>. HIDE DEF n
  <2>1. 1 \in Int /\ n - 1 \in Int /\ \A i \in 1..(n - 1) : stack[i] \in S BY <1>2, <1>3
  <2>. QED BY <2>1, SubSeqProperties
<1>. QED BY <1>1, <1>2, <1>3, <1>4 DEF Top, Below, AreCalls

(* What a call is when it begins *)
LEMMA CallIs ==
  ASSUME NEW o, NEW t \in types, t.k # "scalar", NEW at \in Nat, NEW rsz \in Nat,
         NEW list \in Seq(Initializers), NEW named, \A e \in DOMAIN named : named[e] \in Initializers,
         t.k = "record" => Size(t) <= rsz,
         ~o.overfull => (rsz > 0 => at + rsz <= o.size) /\ (t.k = "array" => Len(list) * Size(t.of) <= rsz)
  PROVE  IsCall(o, Call(t, at, rsz, list, named))
  BY DEF IsCall, Call

(* A call that goes on to what is next *)
LEMMA CallExcept ==
  ASSUME NEW T, NEW I, NEW d, NEW n \in Nat \ {0}, NEW b \in BOOLEAN,
         NEW c \in [t : T, at : Nat, rsz : Nat, list : I, named : {d}, next : Nat \ {0}, filled : BOOLEAN]
  PROVE  LET e == [c EXCEPT !.next = n]
             f == [c EXCEPT !.filled = b]
         IN  /\ e \in [t : T, at : Nat, rsz : Nat, list : I, named : {d}, next : Nat \ {0}, filled : BOOLEAN]
             /\ f \in [t : T, at : Nat, rsz : Nat, list : I, named : {d}, next : Nat \ {0}, filled : BOOLEAN]
             /\ e.t = c.t /\ e.at = c.at /\ e.rsz = c.rsz /\ e.list = c.list /\ e.named = c.named
             /\ f.t = c.t /\ f.at = c.at /\ f.rsz = c.rsz /\ f.list = c.list /\ f.named = c.named
  OBVIOUS

LEMMA CallGoesOn ==
  ASSUME NEW o, NEW c, IsCall(o, c), NEW n \in Nat \ {0}, NEW b \in BOOLEAN
  PROVE  IsCall(o, [c EXCEPT !.next = n]) /\ IsCall(o, [c EXCEPT !.filled = b])
<1>. DEFINE e == [c EXCEPT !.next = n]
            f == [c EXCEPT !.filled = b]
            R(d) == [t : types, at : Nat, rsz : Nat, list : Seq(Initializers), named : {d},
                     next : Nat \ {0}, filled : BOOLEAN]
<1>1. c \in R(c.named) BY DEF IsCall
<1>2. /\ e \in R(c.named) /\ f \in R(c.named)
      /\ e.t = c.t /\ e.at = c.at /\ e.rsz = c.rsz /\ e.list = c.list /\ e.named = c.named
      /\ f.t = c.t /\ f.at = c.at /\ f.rsz = c.rsz /\ f.list = c.list /\ f.named = c.named
  BY <1>1, CallExcept
<1>. HIDE DEF e, f
<1>3. e \in R(e.named) /\ f \in R(f.named) BY <1>2
<1>4. IsCall(o, e) BY <1>2, <1>3 DEF IsCall
<1>5. IsCall(o, f) BY <1>2, <1>3 DEF IsCall
<1>. QED BY <1>4, <1>5 DEF e, f

LEMMA RoomIs ==
  ASSUME NEW rsz \in Nat, NEW z \in Nat \ {0}
  PROVE  rsz \div z \in Nat /\ (rsz \div z) * z <= rsz
<1>. DEFINE q == rsz \div z
<1>1. q \in Int /\ rsz % z \in 0..(z - 1) /\ rsz = z * q + (rsz % z) BY Remainder
<1>2. q >= 0
  <2>. SUFFICES ASSUME q < 0 PROVE FALSE BY <1>1
  <2>. HIDE DEF q
  <2>1. -1 - q \in Nat BY <1>1
  <2>2. z * (-1 - q) >= 0 BY <2>1
  <2>3. z * q <= -z BY <1>1, <2>2
  <2>. QED BY <1>1, <2>3
<1>. HIDE DEF q
<1>3. q * z <= rsz BY <1>1
<1>. QED BY <1>1, <1>2, <1>3 DEF q

(* One more list that is longer than the memory for it *)
LEMMA OverfullLater ==
  ASSUME NEW o, IsObject(o), NEW more \in BOOLEAN
  PROVE  LET p == [o EXCEPT !.overfull = @ \/ more]
         IN  Later(o, p) /\ (p.overfull <=> o.overfull \/ more)
<1>. DEFINE b == o.overfull \/ more
            p == [o EXCEPT !.overfull = b]
<1>1. o = [bytes |-> o.bytes, size |-> o.size, beyond |-> o.beyond, overfull |-> o.overfull, ok |-> o.ok]
  BY DEF IsObject
<1>2. o.size \in Nat /\ o.overfull \in BOOLEAN /\ (~o.overfull => ~o.beyond) BY DEF IsObject
<1>3. b \in BOOLEAN /\ (o.overfull => b) /\ (b <=> o.overfull \/ more) BY <1>2
<1>. HIDE DEF b
<1>4. p = [bytes |-> o.bytes, size |-> o.size, beyond |-> o.beyond, overfull |-> b, ok |-> o.ok]
  BY <1>1
<1>. HIDE DEF p
<1>5. /\ p.size = o.size /\ p.overfull = b /\ p.beyond = o.beyond
      /\ p = [bytes |-> p.bytes, size |-> p.size, beyond |-> p.beyond, overfull |-> p.overfull, ok |-> p.ok]
  BY <1>4
<1>. QED BY <1>2, <1>3, <1>5 DEF Later, IsObject, p, b

-----------------------------------------------------------------------------
(* The steps keep the memory and the calls what they are. *)

LEMMA EnterArrayKeeps ==
  ASSUME TypesInv, NEW o, IsObject(o), NEW callers, AreCalls(o, callers),
         NEW t \in types, t.k = "array", NEW at \in Nat, NEW rsz \in Nat, NEW list \in Seq(Initializers),
         ~o.overfull /\ rsz > 0 => at + rsz <= o.size,
         Fits(t, Room(t, rsz), list), EnterArray(o, callers, t, at, rsz, list)
  PROVE  IsObject(object') /\ AreCalls(object', stack')
<1>. DEFINE z == Size(t.of)
            room == Room(t, rsz)
            over == IsFlex(t) /\ Len(list) > room
<1>1. z \in Nat \ {0} BY SizesAre
<1>2. room \in Nat /\ room * z <= rsz BY <1>1, RoomIs DEF Room
<1>3. CASE list = <<>> /\ object' = Fill(o, at, rsz, Zero) /\ stack' = callers
  <2>1. Later(o, object') BY <1>3, FillLater
  <2>. QED BY <1>3, <2>1, CallsLater DEF Later
<1>4. CASE /\ object' = [o EXCEPT !.overfull = @ \/ over]
           /\ stack' = Append(callers, Call(t, at, rsz, list, <<>>))
  <2>1. over \in BOOLEAN BY DEF IsFlex
  <2>2. Len(list) \in Nat /\ (~over => Len(list) <= room) BY <1>2 DEF Fits
  <2>. HIDE DEF z, room, over
  <2>3. Later(o, object') /\ (object'.overfull <=> o.overfull \/ over) BY <1>4, <2>1, OverfullLater
  <2>4. ~over => Len(list) * z <= rsz
    <3>. SUFFICES ASSUME ~over PROVE Len(list) * z <= rsz OBVIOUS
    <3>. DEFINE d == room - Len(list)
    <3>1. d \in Nat BY <1>2, <2>2
    <3>. HIDE DEF d
    <3>2. d * z >= 0 BY <1>1, <3>1
    <3>3. d * z = room * z - Len(list) * z BY <1>1, <1>2, <2>2 DEF d
    <3>4. Len(list) * z \in Int /\ room * z \in Int BY <1>1, <1>2, <2>2
    <3>. QED BY <1>2, <3>2, <3>3, <3>4
  <2>5. AreCalls(object', callers) BY <2>3, CallsLater
  <2>6. \A e \in DOMAIN <<>> : <<>>[e] \in Initializers OBVIOUS
  <2>7. /\ t.k # "scalar" /\ t.k # "record"
        /\ ~object'.overfull => (rsz > 0 => at + rsz <= object'.size) /\ (t.k = "array" => Len(list) * Size(t.of) <= rsz)
    BY <2>3, <2>4 DEF Later, z
  <2>8. IsCall(object', Call(t, at, rsz, list, <<>>)) BY <2>6, <2>7, CallIs
  <2>. QED BY <1>4, <2>3, <2>5, <2>8, CallMore DEF Later
<1>. QED BY <1>3, <1>4 DEF EnterArray

LEMMA FailsKeeps ==
  ASSUME NEW o, IsObject(o), Fails(o)
  PROVE  IsObject(object') /\ AreCalls(object', stack')
<1>1. object' = [o EXCEPT !.ok = FALSE] /\ stack' = <<>> BY DEF Fails
<1>2. o = [bytes |-> o.bytes, size |-> o.size, beyond |-> o.beyond, overfull |-> o.overfull, ok |-> o.ok]
  BY DEF IsObject
<1>3. object' = [bytes |-> o.bytes, size |-> o.size, beyond |-> o.beyond, overfull |-> o.overfull, ok |-> FALSE]
  BY <1>1, <1>2
<1>4. /\ object'.size = o.size /\ object'.beyond = o.beyond /\ object'.overfull = o.overfull
      /\ object' = [bytes |-> object'.bytes, size |-> object'.size, beyond |-> object'.beyond,
                    overfull |-> object'.overfull, ok |-> object'.ok]
  BY <1>3
<1>5. IsObject(object') BY <1>4 DEF IsObject
<1>. QED BY <1>1, <1>5, NoCalls

LEMMA EnterKeeps ==
  ASSUME TypesInv, NEW o, IsObject(o), NEW callers, AreCalls(o, callers),
         NEW t \in types, NEW at \in Nat, NEW rsz \in Nat, NEW list \in Seq(Initializers),
         NEW named, \A e \in DOMAIN named : named[e] \in Initializers,
         ~o.overfull /\ rsz > 0 => at + rsz <= o.size,
         t.k = "record" => Size(t) <= rsz, Enter(o, callers, t, at, rsz, list, named)
  PROVE  IsObject(object') /\ AreCalls(object', stack')
<1>1. CASE Fails(o) BY <1>1, FailsKeeps
<1>2. CASE t.k = "array" /\ Fits(t, Room(t, rsz), list) /\ EnterArray(o, callers, t, at, rsz, list)
  BY <1>2, EnterArrayKeeps
<1>3. CASE t.k = "record" /\ object' = o /\ stack' = Append(callers, Call(t, at, rsz, list, named))
  <2>1. IsCall(o, Call(t, at, rsz, list, named)) BY <1>3, CallIs
  <2>. QED BY <1>3, <2>1, CallMore
<1>. QED BY <1>1, <1>2, <1>3 DEF Enter

(* What a number, a string and a table are *)
LEMMA InitializerIs ==
  ASSUME NEW x \in Initializers
  PROVE  /\ x.k = "string" => x.len \in Nat
         /\ x.k = "table" => x.list \in Seq(Initializers) /\ \A e \in DOMAIN x.named : x.named[e] \in Initializers
  BY InitializersAssumption

LEMMA GiveKeeps ==
  ASSUME TypesInv, IsObject(object), NEW callers, AreCalls(object, callers),
         NEW t \in types, NEW at \in Nat, NEW init \in Initializers,
         ~object.overfull /\ Size(t) > 0 => at + Size(t) <= object.size,
         Give(callers, t, at, init)
  PROVE  IsObject(object') /\ AreCalls(object', stack')
<1>1. Size(t) \in Nat BY SizesAre
<1>2. CASE Fails(object) BY <1>2, FailsKeeps
<1>3. CASE object' = Fill(object, at, Size(t), init.n) /\ stack' = callers
  <2>1. Later(object, object') BY <1>1, <1>3, FillLater
  <2>. QED BY <1>3, <2>1, CallsLater DEF Later
<1>4. CASE init.k = "string" /\ object' = Copy(object, at, Size(t), init) /\ stack' = callers
  <2>1. init.len \in Nat BY <1>4, InitializerIs
  <2>2. Later(object, object') BY <1>1, <1>4, <2>1, CopyLater
  <2>. QED BY <1>4, <2>2, CallsLater DEF Later
<1>5. CASE init.k = "table" /\ Enter(object, callers, t, at, Size(t), init.list, init.named)
  <2>1. init.list \in Seq(Initializers) /\ \A e \in DOMAIN init.named : init.named[e] \in Initializers
    BY <1>5, InitializerIs
  <2>2. Size(t) <= Size(t) BY <1>1
  <2>. QED BY <1>1, <1>5, <2>1, <2>2, EnterKeeps
<1>. QED BY <1>2, <1>3, <1>4, <1>5 DEF Give

LEMMA CallParts ==
  ASSUME NEW o, NEW c, IsCall(o, c)
  PROVE  /\ c.t \in types /\ c.at \in Nat /\ c.rsz \in Nat /\ c.next \in Nat \ {0}
         /\ c.list \in Seq(Initializers) /\ Len(c.list) \in Nat
         /\ \A e \in DOMAIN c.named : c.named[e] \in Initializers
         /\ c.t.k = "record" => Size(c.t) <= c.rsz
         /\ ~o.overfull => /\ c.rsz > 0 => c.at + c.rsz <= o.size
                           /\ c.t.k = "array" => Len(c.list) * Size(c.t.of) <= c.rsz
<1>. DEFINE R(d) == [t : types, at : Nat, rsz : Nat, list : Seq(Initializers), named : {d},
                     next : Nat \ {0}, filled : BOOLEAN]
<1>1. c \in R(c.named) BY DEF IsCall
<1>2. /\ c.t \in types /\ c.at \in Nat /\ c.rsz \in Nat /\ c.next \in Nat \ {0}
      /\ c.list \in Seq(Initializers)
  BY <1>1
<1>3. Len(c.list) \in Nat BY <1>2
<1>. QED BY <1>2, <1>3 DEF IsCall

LEMMA ElementEnds ==
  ASSUME NEW k \in Nat \ {0}, NEW n \in Nat, k <= n, NEW z \in Nat \ {0}
  PROVE  /\ (k - 1) * z \in Nat /\ k * z \in Nat /\ n * z \in Nat
         /\ (k - 1) * z + z = k * z /\ k * z <= n * z /\ k * z > 0
<1>. DEFINE j == k - 1
            d == n - k
<1>1. j \in Nat /\ d \in Nat /\ k = j + 1 /\ n = k + d OBVIOUS
<1>. HIDE DEF j, d
<1>2. j * z \in Nat /\ d * z \in Nat BY <1>1
<1>3. k * z = j * z + z BY <1>1
<1>4. n * z = k * z + d * z BY <1>1
<1>5. k * z \in Nat /\ n * z \in Nat OBVIOUS
<1>6. k * z <= n * z /\ k * z > 0 BY <1>2, <1>3, <1>4, <1>5
<1>. QED BY <1>2, <1>3, <1>5, <1>6 DEF j

LEMMA NextElementKeeps ==
  ASSUME ObjectInv, NextElement
  PROVE  IsObject(object') /\ AreCalls(object', stack')
<1>. DEFINE c == Top
            z == Size(c.t.of)
            at == c.at + (c.next - 1) * z
            goesOn == [c EXCEPT !.next = c.next + 1]
<1>1. /\ stack # <<>> /\ c.t.k = "array" /\ c.next <= Len(c.list)
      /\ Give(Append(Below, goesOn), c.t.of, at, c.list[c.next])
  BY DEF NextElement
<1>2. TypesInv /\ IsObject(object) /\ IsCall(object, c) /\ AreCalls(object, Below)
  BY <1>1, TopAndBelow DEF ObjectInv
<1>. HIDE DEF c
<1>3. /\ c.t \in types /\ c.at \in Nat /\ c.rsz \in Nat /\ c.next \in Nat \ {0}
      /\ c.list \in Seq(Initializers) /\ Len(c.list) \in Nat
      /\ ~object.overfull => /\ c.rsz > 0 => c.at + c.rsz <= object.size
                             /\ Len(c.list) * Size(c.t.of) <= c.rsz
  BY <1>1, <1>2, CallParts
<1>4. c.t.of \in types /\ z \in Nat \ {0} BY <1>1, <1>2, <1>3, SizesAre
<1>5. c.list[c.next] \in Initializers
  <2>1. c.next \in 1..Len(c.list) BY <1>1, <1>3
  <2>. QED BY <1>3, <2>1, ElementOfSeq
<1>6. object.size \in Nat BY <1>2 DEF IsObject
<1>7. AreCalls(object, Append(Below, goesOn))
  <2>1. c.next + 1 \in Nat \ {0} BY <1>3
  <2>2. IsCall(object, goesOn) BY <1>2, <2>1, CallGoesOn
  <2>. QED BY <1>2, <2>2, CallMore
<1>8. at \in Nat /\ at + z = c.at + c.next * z /\ c.next * z <= Len(c.list) * z /\ c.next * z > 0
  <2>. HIDE DEF z
  <2>1. /\ (c.next - 1) * z \in Nat /\ (c.next - 1) * z + z = c.next * z
        /\ c.next * z <= Len(c.list) * z /\ c.next * z > 0 /\ c.next * z \in Nat
    BY <1>1, <1>3, <1>4, ElementEnds
  <2>. DEFINE y == (c.next - 1) * z
              x == c.next * z
              a == c.at
  <2>2. y \in Nat /\ x \in Nat /\ y + z = x /\ a \in Nat /\ z \in Nat BY <1>3, <1>4, <2>1
  <2>. HIDE DEF x, y, a
  <2>3. a + y \in Nat /\ (a + y) + z = a + x BY <2>2
  <2>. QED BY <2>1, <2>3 DEF x, y, a
<1>9. ~object.overfull /\ z > 0 => at + z <= object.size
  <2>. HIDE DEF z, at
  <2>. DEFINE k == c.next * z
              n == Len(c.list) * z
  <2>1. k \in Nat /\ n \in Nat BY <1>3, <1>4
  <2>2. at \in Nat /\ at + z = c.at + k /\ k <= n /\ k > 0 BY <1>8
  <2>3. ~object.overfull => (c.rsz > 0 => c.at + c.rsz <= object.size) /\ n <= c.rsz BY <1>3 DEF z
  <2>. HIDE DEF k, n
  <2>. QED BY <1>3, <1>4, <1>6, <2>1, <2>2, <2>3
<1>. HIDE DEF at, goesOn
<1>. QED BY <1>1, <1>2, <1>4, <1>5, <1>7, <1>8, <1>9, GiveKeeps DEF z

LEMMA EndElementsKeeps ==
  ASSUME ObjectInv, EndElements
  PROVE  IsObject(object') /\ AreCalls(object', stack')
<1>. DEFINE c == Top
            z == Size(c.t.of)
            n == Room(c.t, c.rsz)
            l == Len(c.list)
<1>1. stack # <<>> /\ c.t.k = "array" /\ object' = FillRest(object, c) /\ stack' = Below
  BY DEF EndElements
<1>2. TypesInv /\ IsObject(object) /\ IsCall(object, c) /\ AreCalls(object, Below)
  BY <1>1, TopAndBelow DEF ObjectInv
<1>. HIDE DEF c
<1>3. /\ c.t \in types /\ c.at \in Nat /\ c.rsz \in Nat /\ l \in Nat
      /\ ~object.overfull => (c.rsz > 0 => c.at + c.rsz <= object.size)
  BY <1>1, <1>2, CallParts
<1>4. z \in Nat \ {0} BY <1>1, <1>2, <1>3, SizesAre
<1>5. n \in Nat /\ n * z <= c.rsz BY <1>3, <1>4, RoomIs DEF Room
<1>6. object.size \in Nat BY <1>2 DEF IsObject
<1>7. n * z \in Nat /\ (~object.overfull /\ n * z > 0 => c.at + n * z <= object.size)
  <2>. HIDE DEF z, n
  <2>. DEFINE k == n * z
  <2>1. k \in Nat /\ k <= c.rsz BY <1>4, <1>5
  <2>. HIDE DEF k
  <2>2. ~object.overfull /\ k > 0 => c.at + k <= object.size BY <1>3, <1>6, <2>1
  <2>. QED BY <2>1, <2>2 DEF k
<1>8. CASE object' = Replicate(object, c.at, z, n)
  <2>. HIDE DEF z, n
  <2>1. Later(object, object') BY <1>2, <1>3, <1>7, <1>8, PutLater DEF Replicate
  <2>. QED BY <1>1, <1>2, <2>1, CallsLater DEF Later
<1>9. CASE l < n /\ object' = Fill(object, c.at + l * z, (n - l) * z, Zero)
  <2>. HIDE DEF z, n, l
  <2>. DEFINE before == l * z
              after == (n - l) * z
  <2>1. n - l \in Nat BY <1>3, <1>5, <1>9
  <2>2. before \in Nat /\ after \in Nat BY <1>3, <1>4, <2>1
  <2>3. before + after = n * z BY <1>3, <1>4, <1>5
  <2>. HIDE DEF before, after
  <2>4. c.at + before \in Nat BY <1>3, <2>2
  <2>5. ~object.overfull /\ after > 0 => (c.at + before) + after <= object.size
    BY <1>3, <1>6, <1>7, <2>2, <2>3
  <2>6. Later(object, Fill(object, c.at + before, after, Zero)) BY <1>2, <2>2, <2>4, <2>5, FillLater
  <2>7. Later(object, object') BY <1>9, <2>6 DEF before, after
  <2>. QED BY <1>1, <1>2, <2>7, CallsLater DEF Later
<1>10. CASE object' = object BY <1>1, <1>2, <1>10
<1>. QED BY <1>1, <1>8, <1>9, <1>10 DEF FillRest

(* The calls that a record goes on with *)
LEMMA RecordGoesOn ==
  ASSUME TypesInv, NEW o, NEW c, IsCall(o, c), c.t.k = "record", NEW m
  PROVE  IsCall(o, Ended(c)) /\ IsCall(o, After(c)) /\ IsCall(o, PassedBy(c, m))
<1>1. c.t \in types /\ c.next \in Nat \ {0} BY CallParts
<1>2. Len(c.t.members) \in Nat BY <1>1, MemberIs
<1>3. Len(c.t.members) + 1 \in Nat \ {0} /\ c.next + 1 \in Nat \ {0} /\ TRUE \in BOOLEAN BY <1>1, <1>2
<1>4. IsCall(o, Ended(c)) BY <1>3, CallGoesOn DEF Ended
<1>5. IsCall(o, [Ended(c) EXCEPT !.filled = TRUE]) BY <1>3, <1>4, CallGoesOn
<1>6. IsCall(o, [c EXCEPT !.next = c.next + 1]) BY <1>3, CallGoesOn
<1>7. IsCall(o, [[c EXCEPT !.next = c.next + 1] EXCEPT !.filled = TRUE])
  <2>. DEFINE d == [c EXCEPT !.next = c.next + 1]
  <2>1. IsCall(o, d) BY <1>6
  <2>. HIDE DEF d
  <2>2. IsCall(o, [d EXCEPT !.filled = TRUE]) BY <1>3, <2>1, CallGoesOn
  <2>. QED BY <2>2 DEF d
<1>8. [c EXCEPT !.next = c.next + 1, !.filled = TRUE] = [[c EXCEPT !.next = c.next + 1] EXCEPT !.filled = TRUE]
  <2>. DEFINE R(d) == [t : types, at : Nat, rsz : Nat, list : Seq(Initializers), named : {d},
                       next : Nat \ {0}, filled : BOOLEAN]
  <2>1. c \in R(c.named) BY DEF IsCall
  <2>. QED BY <1>3, <2>1
<1>. QED BY <1>4, <1>5, <1>6, <1>7, <1>8 DEF After, PassedBy

LEMMA NextMemberKeeps ==
  ASSUME ObjectInv, NextMember
  PROVE  IsObject(object') /\ AreCalls(object', stack')
<1>. DEFINE c == Top
            m == c.t.members[c.next]
            z == Size(c.t)
<1>1. /\ stack # <<>> /\ c.t.k = "record" /\ c.next <= Len(c.t.members)
      /\ \/ stack' = Append(Below, PassedBy(c, m)) /\ object' = object
         \/ IsGiven(c, m.name) /\ IsOpen(c, m) /\ OpenMember(c, m)
         \/ IsGiven(c, m.name) /\ FixedMember(c, m)
  BY DEF NextMember
<1>2. TypesInv /\ IsObject(object) /\ IsCall(object, c) /\ AreCalls(object, Below)
  BY <1>1, TopAndBelow DEF ObjectInv
<1>. HIDE DEF c
<1>3. /\ c.t \in types /\ c.at \in Nat /\ c.rsz \in Nat /\ c.next \in Nat \ {0}
      /\ c.list \in Seq(Initializers) /\ Len(c.list) \in Nat
      /\ \A e \in DOMAIN c.named : c.named[e] \in Initializers
      /\ z <= c.rsz
      /\ ~object.overfull => (c.rsz > 0 => c.at + c.rsz <= object.size)
  BY <1>1, <1>2, CallParts
<1>4. z \in Nat /\ z > 0 BY <1>1, <1>2, <1>3, SizesAre
<1>5. m.type \in types /\ m.offset \in Nat /\ (~IsFlex(m.type) => m.offset + Size(m.type) <= z)
  <2>1. Len(c.t.members) \in Nat BY <1>1, <1>2, <1>3, MemberIs
  <2>2. c.next \in 1..Len(c.t.members) BY <1>1, <1>3, <2>1
  <2>. QED BY <1>1, <1>2, <1>3, <2>2, MemberIs
<1>6. Size(m.type) \in Nat /\ (IsFlex(m.type) => m.type.k = "array" /\ Size(m.type) = 0)
  BY <1>2, <1>5, SizesAre
<1>7. object.size \in Nat BY <1>2 DEF IsObject
<1>8. IsCall(object, Ended(c)) /\ IsCall(object, After(c)) /\ IsCall(object, PassedBy(c, m))
  BY <1>1, <1>2, RecordGoesOn
<1>. HIDE DEF m, z
<1>9. IsGiven(c, m.name) => Given(c, m.name) \in Initializers
  <2>1. CASE ByName(c) BY <1>3, <2>1 DEF IsGiven, Given
  <2>2. CASE ~ByName(c) /\ c.next <= Len(c.list)
    <3>1. c.next \in 1..Len(c.list) BY <1>3, <2>2
    <3>2. c.list[c.next] \in Initializers BY <1>3, <3>1, ElementOfSeq
    <3>. QED BY <2>2, <3>2 DEF Given
  <2>. QED BY <2>1, <2>2 DEF IsGiven
<1>10. CASE stack' = Append(Below, PassedBy(c, m)) /\ object' = object
  BY <1>2, <1>8, <1>10, CallMore
<1>11. CASE IsGiven(c, m.name) /\ IsOpen(c, m) /\ OpenMember(c, m)
  <2>. DEFINE g == Given(c, m.name)
              list == Left(c, m.name)
              at == c.at + z
              rsz == c.rsz - z
  <2>1. g \in Initializers BY <1>9, <1>11
  <2>2. list \in Seq(Initializers)
    <3>1. CASE g.k = "table" BY <2>1, <3>1, InitializerIs DEF Left
    <3>2. CASE g.k # "table"
      <4>. DEFINE n == Len(c.list)
      <4>1. n \in Nat /\ c.next \in Int BY <1>3
      <4>2. \A i \in c.next..n : c.list[i] \in Initializers
        <5>. SUFFICES ASSUME NEW i \in c.next..n PROVE c.list[i] \in Initializers OBVIOUS
        <5>1. i \in 1..n BY <1>3, <4>1
        <5>. QED BY <1>3, <5>1, ElementOfSeq
      <4>. HIDE DEF n
      <4>3. SubSeq(c.list, c.next, n) \in Seq(Initializers) BY <4>1, <4>2, SubSeqProperties
      <4>. QED BY <3>2, <4>3 DEF Left, n
    <3>. QED BY <3>1, <3>2
  <2>3. IsFlex(m.type) /\ m.type.k = "array" BY <1>6, <1>11 DEF IsOpen
  <2>4. EnterArray(object, Append(Below, Ended(c)), m.type, at, rsz, list)
    BY <1>11 DEF OpenMember, z
  <2>. HIDE DEF list
  <2>5. at \in Nat /\ rsz \in Nat BY <1>3, <1>4
  <2>6. ~object.overfull /\ rsz > 0 => at + rsz <= object.size BY <1>3, <1>4, <1>7
  <2>. HIDE DEF at, rsz
  <2>7. AreCalls(object, Append(Below, Ended(c))) BY <1>2, <1>8, CallMore
  <2>8. Fits(m.type, Room(m.type, rsz), list) BY <2>3 DEF Fits
  <2>. QED BY <1>2, <1>5, <2>2, <2>3, <2>4, <2>5, <2>6, <2>7, <2>8, EnterArrayKeeps
<1>12. CASE IsGiven(c, m.name) /\ FixedMember(c, m)
  <2>. DEFINE at == c.at + m.offset
  <2>1. Given(c, m.name) \in Initializers BY <1>9, <1>12
  <2>2. at \in Nat BY <1>3, <1>5
  <2>3. ~object.overfull /\ Size(m.type) > 0 => at + Size(m.type) <= object.size
    BY <1>3, <1>4, <1>5, <1>6, <1>7
  <2>4. AreCalls(object, Append(Below, After(c))) BY <1>2, <1>8, CallMore
  <2>5. Give(Append(Below, After(c)), m.type, at, Given(c, m.name)) BY <1>12 DEF FixedMember
  <2>. HIDE DEF at
  <2>. QED BY <1>2, <1>5, <2>1, <2>2, <2>3, <2>4, <2>5, GiveKeeps
<1>. QED BY <1>1, <1>10, <1>11, <1>12

LEMMA EndMembersKeeps ==
  ASSUME ObjectInv, EndMembers
  PROVE  IsObject(object') /\ AreCalls(object', stack')
<1>. DEFINE c == Top
<1>1. /\ stack # <<>> /\ stack' = Below
      /\ object' = Fill(object, c.at, c.rsz, Zero) \/ object' = object
  BY DEF EndMembers
<1>2. IsObject(object) /\ IsCall(object, c) /\ AreCalls(object, Below)
  BY <1>1, TopAndBelow DEF ObjectInv
<1>. HIDE DEF c
<1>3. /\ c.at \in Nat /\ c.rsz \in Nat
      /\ ~object.overfull => (c.rsz > 0 => c.at + c.rsz <= object.size)
  BY <1>2, CallParts
<1>4. CASE object' = Fill(object, c.at, c.rsz, Zero)
  <2>1. Later(object, object') BY <1>2, <1>3, <1>4, FillLater
  <2>. QED BY <1>1, <1>2, <2>1, CallsLater DEF Later
<1>. QED BY <1>1, <1>2, <1>4

-----------------------------------------------------------------------------
(* New objects and those that are there *)

LEMMA NewSizeIs ==
  ASSUME TypesInv, NEW t \in types, NEW n \in Nat
  PROVE  NewSize(t, n) \in Nat /\ Size(t) <= NewSize(t, n)
<1>. DEFINE of == CHOOSE x \in OpenElements(t) : TRUE
<1>1. Size(t) \in Nat BY SizesAre
<1>2. CASE OpenElements(t) = {} BY <1>1, <1>2 DEF NewSize
<1>3. CASE OpenElements(t) # {}
  <2>1. of \in OpenElements(t) BY <1>3
  <2>2. \A x \in OpenElements(t) : Size(x) \in Nat BY SizesAre DEF OpenElements, IsFlex
  <2>3. Size(of) \in Nat BY <2>1, <2>2
  <2>4. NewSize(t, n) = Size(t) + n * Size(of) BY <1>3 DEF NewSize
  <2>. DEFINE more == n * Size(of)
  <2>. HIDE DEF of
  <2>5. more \in Nat BY <2>3
  <2>. HIDE DEF more
  <2>6. Size(t) + more \in Nat /\ Size(t) <= Size(t) + more BY <1>1, <2>5
  <2>. QED BY <2>4, <2>6 DEF more
<1>. QED BY <1>2, <1>3

LEMMA MemoryIs ==
  ASSUME NEW size \in Nat, NEW byte
  PROVE  IsObject(Memory(size, byte)) /\ Memory(size, byte).size = size
  BY DEF IsObject, Memory

LEMMA InitializeKeeps ==
  ASSUME TypesInv, NEW o, IsObject(o), NEW t \in types, Size(t) <= o.size,
         NEW inits \in Seq(Initializers), inits # <<>>, Initialize(o, t, inits)
  PROVE  IsObject(object') /\ AreCalls(object', stack')
<1>. DEFINE table == Len(inits) = 1 /\ inits[1].k = "table"
            list == IF table THEN inits[1].list ELSE inits
            named == IF table THEN inits[1].named ELSE <<>>
<1>1. /\ inits[1] \in Initializers
  <2>1. 1 \in 1..Len(inits) BY EmptySeq
  <2>. QED BY <2>1, ElementOfSeq
<1>2. o.size \in Nat BY DEF IsObject
<1>3. CASE inits[1].k = "string" /\ object' = Copy(o, 0, o.size, inits[1]) /\ stack' = <<>>
  <2>1. inits[1].len \in Nat BY <1>1, <1>3, InitializerIs
  <2>2. Later(o, object') BY <1>2, <1>3, <2>1, CopyLater
  <2>. QED BY <1>3, <2>2, NoCalls DEF Later
<1>4. CASE Enter(o, <<>>, t, 0, o.size, list, named)
  <2>1. list \in Seq(Initializers) /\ \A e \in DOMAIN named : named[e] \in Initializers
    <3>1. CASE table BY <1>1, <3>1, InitializerIs
    <3>2. CASE ~table BY <3>2
    <3>. QED BY <3>1, <3>2
  <2>. HIDE DEF list, named
  <2>2. AreCalls(o, <<>>) BY NoCalls
  <2>3. 0 \in Nat /\ 0 + o.size <= o.size BY <1>2
  <2>. QED BY <1>2, <1>4, <2>1, <2>2, <2>3, EnterKeeps
<1>. QED BY <1>3, <1>4 DEF Initialize

LEMMA NewKeeps ==
  ASSUME ObjectInv, NEW t \in types, NEW n \in Nat, NEW inits \in Seq(Initializers), New(t, n, inits)
  PROVE  IsObject(object') /\ AreCalls(object', stack')
<1>. DEFINE o == Memory(NewSize(t, n), Zero)
<1>1. TypesInv BY DEF ObjectInv
<1>2. IsObject(o) /\ Size(t) <= o.size BY <1>1, NewSizeIs, MemoryIs
<1>. HIDE DEF o
<1>3. CASE object' = o /\ UNCHANGED stack
  <2>1. stack' = <<>> BY <1>3 DEF New, Idle
  <2>. QED BY <1>2, <1>3, <2>1, NoCalls
<1>4. CASE inits # <<>> /\ Initialize(o, t, inits)
  BY <1>1, <1>2, <1>4, InitializeKeeps
<1>. QED BY <1>3, <1>4 DEF New, o

LEMMA AssignKeeps ==
  ASSUME ObjectInv, NEW t \in types, NEW byte, NEW init \in Initializers, Assign(t, byte, init)
  PROVE  IsObject(object') /\ AreCalls(object', stack')
<1>. DEFINE o == Memory(Size(t), byte)
            inits == <<init>>
<1>1. TypesInv BY DEF ObjectInv
<1>2. Size(t) \in Nat BY <1>1, SizesAre
<1>3. IsObject(o) /\ Size(t) <= o.size BY <1>2, MemoryIs
<1>4. inits \in Seq(Initializers) /\ inits # <<>> OBVIOUS
<1>5. Initialize(o, t, inits) BY DEF Assign
<1>. HIDE DEF o, inits
<1>. QED BY <1>1, <1>3, <1>4, <1>5, InitializeKeeps

-----------------------------------------------------------------------------
(* The invariant *)

LEMMA TypesInvNext ==
  ASSUME 0 \notin Counts
  PROVE  TypesInv /\ [RecordNext]_recordVars => TypesInv' /\ types \subseteq types'
<1>. SUFFICES ASSUME TypesInv, [RecordNext]_recordVars PROVE TypesInv' /\ types \subseteq types' OBVIOUS
<1>1. TypesInv' BY RecordInvNext, InsideNext, PartsNext DEF TypesInv
<1>2. types \subseteq types'
  BY DEF RecordNext, DeclareArray, OpenBody, AddField, CloseBody, recordVars
<1>. QED BY <1>1, <1>2

LEMMA ObjectInvInit == ObjectInit => ObjectInv
<1>. SUFFICES ASSUME ObjectInit PROVE ObjectInv OBVIOUS
<1>1. TypesInv BY RecordInvInit, InsideInit, PartsInit DEF ObjectInit, TypesInv
<1>2. object = Memory(0, Zero) /\ stack = <<>> BY DEF ObjectInit
<1>3. IsObject(Memory(0, Zero)) BY MemoryIs
<1>. QED BY <1>1, <1>2, <1>3, NoCalls DEF ObjectInv

LEMMA ObjectInvNext ==
  ASSUME 0 \notin Counts
  PROVE  ObjectInv /\ [ObjectNext]_<<recordVars, initVars>> => ObjectInv'
<1>. SUFFICES ASSUME ObjectInv, [ObjectNext]_<<recordVars, initVars>> PROVE ObjectInv' OBVIOUS
<1>1. CASE UNCHANGED initVars /\ [RecordNext]_recordVars
  <2>1. TypesInv' /\ types \subseteq types' BY <1>1, TypesInvNext DEF ObjectInv
  <2>2. object' = object /\ stack' = stack BY <1>1 DEF initVars
  <2>3. PICK S : stack \in Seq(S) /\ \A c \in S : IsCall(object, c) BY DEF ObjectInv, AreCalls
  <2>4. \A c \in S : IsCall(object, c)'
    <3>. SUFFICES ASSUME NEW c \in S PROVE IsCall(object, c)' OBVIOUS
    <3>. DEFINE R(T) == [t : T, at : Nat, rsz : Nat, list : Seq(Initializers), named : {c.named},
                         next : Nat \ {0}, filled : BOOLEAN]
    <3>1. c \in R(types) BY <2>3 DEF IsCall
    <3>2. c \in R(types') BY <2>1, <3>1
    <3>. QED BY <2>2, <2>3, <3>2 DEF IsCall
  <2>5. AreCalls(object, stack)' BY <2>2, <2>3, <2>4 DEF AreCalls
  <2>6. IsObject(object)' BY <2>2 DEF ObjectInv, IsObject
  <2>. QED BY <2>1, <2>5, <2>6 DEF ObjectInv
<1>2. ASSUME UNCHANGED recordVars, IsObject(object'), AreCalls(object', stack') PROVE ObjectInv'
  <2>1. TypesInv' BY <1>2 DEF recordVars, ObjectInv, TypesInv, RecordInv, InsideInv, PartsInv
  <2>2. types' = types BY <1>2 DEF recordVars
  <2>3. AreCalls(object, stack)' BY <1>2, <2>2 DEF AreCalls, IsCall
  <2>4. IsObject(object)' BY <1>2 DEF IsObject
  <2>. QED BY <2>1, <2>3, <2>4 DEF ObjectInv
<1>3. CASE InitNext /\ UNCHANGED recordVars
  BY <1>2, <1>3, NextElementKeeps, EndElementsKeeps, NextMemberKeeps, EndMembersKeeps DEF InitNext
<1>4. ASSUME NEW t \in types, NEW n \in Nat, NEW inits \in Seq(Initializers), New(t, n, inits),
             UNCHANGED recordVars
      PROVE  ObjectInv'
  BY <1>2, <1>4, NewKeeps
<1>5. ASSUME NEW t \in types, NEW byte \in Contents, NEW init \in Initializers, Assign(t, byte, init),
             UNCHANGED recordVars
      PROVE  ObjectInv'
  BY <1>2, <1>5, AssignKeeps
<1>6. CASE UNCHANGED <<recordVars, initVars>> BY <1>1, <1>6
<1>. QED BY <1>1, <1>3, <1>4, <1>5, <1>6 DEF ObjectNext

(***************************************************************************)
(* Nothing is written outside an object, whatever records a program        *)
(* declares, however deep they are inside one another, and whatever it     *)
(* initializes them with, unless a list is longer than the memory there is *)
(* for the member whose size is left open: where arrays have elements      *)
(* (from_lua_table, from_lua_table_record, from_lua_str).                  *)
(***************************************************************************)
THEOREM InitializersAlwaysInside ==
  ASSUME 0 \notin Counts
  PROVE  ObjectSpec => []InitializersStayInside
<1>1. ObjectInit => ObjectInv BY ObjectInvInit
<1>2. ObjectInv /\ [ObjectNext]_<<recordVars, initVars>> => ObjectInv' BY ObjectInvNext
<1>3. ObjectInv => InitializersStayInside BY DEF ObjectInv, IsObject, InitializersStayInside
<1>. QED BY <1>1, <1>2, <1>3, PTL DEF ObjectSpec
=============================================================================
