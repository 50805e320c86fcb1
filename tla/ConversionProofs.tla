--------------------------- MODULE ConversionProofs ---------------------------
(***************************************************************************)
(* Proofs about the conversion of values (Conversion), for every set of    *)
(* types.                                                                  *)
(***************************************************************************)
EXTENDS Conversion, EvaluationProofs

-----------------------------------------------------------------------------
(* Recursion *)

(* A function on elements that have a rank can be defined by what each     *)
(* step makes of the function for the elements of lower rank.              *)
IsRecursion(S, V, v, rank, step) ==
  /\ v \in V /\ rank \in [S -> Nat] /\ step \in [[S -> V] -> [S -> V]]
  /\ \A f, g \in [S -> V] : \A x \in S :
       (\A y \in S : rank[y] < rank[x] => f[y] = g[y]) => step[f][x] = step[g][x]

LEMMA WellFoundedRecursion ==
  ASSUME NEW S, NEW V, NEW v, NEW rank, NEW step, IsRecursion(S, V, v, rank, step)
  PROVE  \E f \in [S -> V] : f = step[f]
<1>0. v \in V /\ rank \in [S -> Nat] /\ step \in [[S -> V] -> [S -> V]]
  BY DEF IsRecursion
<1>. DEFINE start == [x \in S |-> v]
            steps == [n \in Nat |-> step]
<1>1. start \in [S -> V] /\ steps \in [Nat -> [[S -> V] -> [S -> V]]]
  BY <1>0
<1>2. PICK h \in [Nat -> [S -> V]] : Iterates(h, start, steps)
  <2>. HIDE DEF start, steps
  <2>. QED BY <1>1, Iteration
<1>3. \A n \in Nat : h[n + 1] = step[h[n]] /\ h[n] \in [S -> V]
  BY <1>2 DEF Iterates
<1>. HIDE DEF start, steps
<1>4. \A n \in Nat : \A x \in S : rank[x] < n => h[n + 1][x] = h[n][x]
  <2>. DEFINE T == {n \in Nat : \A x \in S : rank[x] < n => h[n + 1][x] = h[n][x]}
  <2>1. 0 \in T BY <1>0
  <2>2. ASSUME NEW n \in T PROVE n + 1 \in T
    <3>1. n \in Nat /\ n + 1 \in Nat OBVIOUS
    <3>2. ASSUME NEW x \in S, rank[x] < n + 1 PROVE h[(n + 1) + 1][x] = h[n + 1][x]
      <4>1. \A y \in S : rank[y] < rank[x] => h[n + 1][y] = h[n][y]
        BY <3>1, <3>2, <1>0
      <4>2. step[h[n + 1]][x] = step[h[n]][x]
        <5>1. h[n + 1] \in [S -> V] /\ h[n] \in [S -> V] BY <1>3, <3>1
        <5>. QED BY <4>1, <5>1 DEF IsRecursion
      <4>. QED BY <1>3, <3>1, <4>2
    <3>. QED BY <3>1, <3>2
  <2>. HIDE DEF T
  <2>3. T = Nat BY <2>1, <2>2, NaturalInduction DEF T
  <2>. QED BY <2>3 DEF T
<1>5. \A n \in Nat : \A x \in S : rank[x] < n => h[n][x] = h[rank[x] + 1][x]
  <2>. DEFINE T == {n \in Nat : \A x \in S : rank[x] < n => h[n][x] = h[rank[x] + 1][x]}
  <2>1. 0 \in T BY <1>0
  <2>2. ASSUME NEW n \in T PROVE n + 1 \in T
    <3>1. n \in Nat /\ n + 1 \in Nat OBVIOUS
    <3>2. ASSUME NEW x \in S, rank[x] < n + 1 PROVE h[n + 1][x] = h[rank[x] + 1][x]
      <4>1. rank[x] < n => h[n + 1][x] = h[n][x] /\ h[n][x] = h[rank[x] + 1][x] BY <1>4, <3>1
      <4>2. CASE rank[x] < n BY <4>1, <4>2
      <4>3. CASE ~(rank[x] < n)
        <5>1. rank[x] \in Nat BY <1>0
        <5>2. \A a, b \in Nat : a < b + 1 /\ ~(a < b) => a = b OBVIOUS
        <5>3. rank[x] = n BY <3>1, <3>2, <4>3, <5>1, <5>2, Zenon
        <5>. QED BY <5>3, Zenon
      <4>. QED BY <4>2, <4>3
    <3>. QED BY <3>1, <3>2
  <2>. HIDE DEF T
  <2>3. T = Nat BY <2>1, <2>2, NaturalInduction DEF T
  <2>. QED BY <2>3 DEF T
<1>. DEFINE f == [x \in S |-> h[rank[x] + 1][x]]
<1>6. f \in [S -> V] BY <1>0, <1>3
<1>7. ASSUME NEW x \in S PROVE f[x] = step[f][x]
  <2>1. rank[x] \in Nat /\ h[rank[x]] \in [S -> V] BY <1>0, <1>3
  <2>2. \A y \in S : rank[y] < rank[x] => f[y] = h[rank[x]][y] BY <1>0, <1>5, <2>1
  <2>. HIDE DEF f
  <2>3. step[f][x] = step[h[rank[x]]][x] BY <1>6, <2>1, <2>2 DEF IsRecursion
  <2>4. step[h[rank[x]]] = h[rank[x] + 1] BY <1>3, <2>1
  <2>. QED BY <2>3, <2>4 DEF f
<1>. HIDE DEF f
<1>8. step[f] \in [S -> V] BY <1>0, <1>6
<1>9. f = step[f] BY <1>6, <1>7, <1>8
<1>. QED BY <1>6, <1>9
(* What holds of an element if it holds of those of lower rank holds of    *)
(* every element.                                                          *)
LEMMA RankInduction ==
  ASSUME NEW S, NEW rank \in [S -> Nat], NEW T \in SUBSET S,
         \A x \in S : (\A y \in S : rank[y] < rank[x] => y \in T) => x \in T
  PROVE  T = S
<1>. DEFINE R == {n \in Nat : \E x \in S \ T : rank[x] = n}
<1>1. SUFFICES ASSUME NEW z \in S \ T PROVE FALSE OBVIOUS
<1>2. rank[z] \in R OBVIOUS
<1>3. PICK n \in R : \A m \in R : n <= m
  <2>1. R \in SUBSET Nat /\ R # {} BY <1>2
  <2>. HIDE DEF R
  <2>. QED BY <2>1, LeastNatural
<1>4. PICK x \in S \ T : rank[x] = n BY <1>3
<1>5. PICK y \in S : rank[y] < rank[x] /\ y \notin T BY <1>4
<1>6. rank[y] \in R BY <1>5
<1>7. rank[y] \in Nat /\ rank[x] \in Nat OBVIOUS
<1>8. rank[x] <= rank[y] BY <1>3, <1>4, <1>6
<1>. QED BY <1>5, <1>7, <1>8

-----------------------------------------------------------------------------
(* Types *)

LEMMA TypeParts ==
  ASSUME NEW t \in Types
  PROVE  /\ Nesting[t] \in Nat /\ IsType(t) /\ Unref(t) \in Types
         /\ t.k \in {"base", "ptr", "array", "func"}
         /\ t.k # "base" => t.to \in Types /\ Nesting[t.to] < Nesting[t] /\ Nesting[t.to] \in Nat
         /\ t.k = "func" =>
              /\ t.params \in Seq(Types)
              /\ \A i \in DOMAIN t.params :
                   t.params[i] \in Types /\ Nesting[t.params[i]] < Nesting[t] /\ Nesting[t.params[i]] \in Nat
<1>1. /\ Nesting \in [Types -> Nat] /\ IsType(t) /\ Unref(t) \in Types
      /\ \A u \in MadeOf(t) : u \in Types /\ Nesting[u] < Nesting[t]
  BY TypesAssumption
<1>2. t.k \in {"base", "ptr", "array", "func"} BY <1>1 DEF IsType
<1>3. t.k # "base" => t.to \in MadeOf(t) BY DEF MadeOf
<1>4. t.k = "func" => t.params \in Seq(Types) /\ \A i \in DOMAIN t.params : t.params[i] \in MadeOf(t)
  BY <1>1 DEF MadeOf, IsType
<1>. QED BY <1>1, <1>2, <1>3, <1>4

-----------------------------------------------------------------------------
(* Comparison *)

(* The arguments of Same, and what it makes of the answers for others *)
SameArgs == Types \X Types \X BOOLEAN \X BOOLEAN
SameStep(answers, x) ==
  LET a == x[1]
      b == x[2]
      ignoreRef == x[4]
      same(f, g) == answers[<<f, g, FALSE, FALSE>>]
  IN  IF Unlike(a, b, x[3], ignoreRef) THEN {FALSE}
      ELSE IF a.k = "base" THEN {b.k = "base" /\ a.name = b.name}
      ELSE IF a.k = "func" /\ b.k = "ptr"
        THEN IF b.to.k = "func" THEN answers[<<a, b.to, FALSE, ignoreRef>>] ELSE {FALSE}
      ELSE IF a.k = "ptr" /\ b.k = "func"
        THEN IF a.to.k = "func" THEN same(a.to, b) ELSE {FALSE}
      ELSE IF a.k # b.k \/ (a.k = "array" /\ a.size # b.size) THEN {FALSE}
      ELSE IF a.k # "func" THEN same(a.to, b.to)
      ELSE IF Len(a.params) # Len(b.params) THEN {FALSE}
      ELSE {FALSE} \cup {result \in same(a.to, b.to) :
                            \A i \in DOMAIN a.params : TRUE \in same(a.params[i], b.params[i])}

ArgsRank == [x \in SameArgs |-> Nesting[x[1]] + Nesting[x[2]]]
Answers == [SameArgs -> SUBSET BOOLEAN]

LEMMA ArgsParts ==
  /\ ArgsRank \in [SameArgs -> Nat]
  /\ \A a, b \in Types : \A c, r \in BOOLEAN :
       <<a, b, c, r>> \in SameArgs /\ ArgsRank[<<a, b, c, r>>] = Nesting[a] + Nesting[b]
<1>1. \A t \in Types : Nesting[t] \in Nat BY TypeParts
<1>. QED BY <1>1 DEF ArgsRank, SameArgs

(* A step asks for the answers for types that are nested less deeply. *)
LEMMA SameStepParts ==
  ASSUME NEW f, NEW g \in Answers, NEW x \in SameArgs,
         \A y \in SameArgs : ArgsRank[y] < ArgsRank[x] => f[y] = g[y]
  PROVE  SameStep(f, x) = SameStep(g, x) /\ SameStep(g, x) \in SUBSET BOOLEAN
<1>. DEFINE a == x[1]
            b == x[2]
<1>1. a \in Types /\ b \in Types /\ x[3] \in BOOLEAN /\ x[4] \in BOOLEAN /\ x = <<a, b, x[3], x[4]>>
  BY DEF SameArgs
<1>. HIDE DEF a, b
<1>2. \A t \in Types : Nesting[t] \in Nat BY TypeParts
<1>3. ASSUME NEW c \in Types, NEW d \in Types, NEW p \in BOOLEAN, NEW q \in BOOLEAN,
             Nesting[c] + Nesting[d] < Nesting[a] + Nesting[b]
      PROVE  f[<<c, d, p, q>>] = g[<<c, d, p, q>>] /\ g[<<c, d, p, q>>] \in SUBSET BOOLEAN
  <2>1. <<c, d, p, q>> \in SameArgs BY DEF SameArgs
  <2>2. ArgsRank[<<c, d, p, q>>] < ArgsRank[x] BY <1>1, <1>3, ArgsParts
  <2>. QED BY <2>1, <2>2 DEF Answers
<1>4. ASSUME a.k = "func", b.k = "ptr"
      PROVE  /\ f[<<a, b.to, FALSE, x[4]>>] = g[<<a, b.to, FALSE, x[4]>>]
             /\ g[<<a, b.to, FALSE, x[4]>>] \in SUBSET BOOLEAN
  <2>1. b.to \in Types /\ Nesting[b.to] < Nesting[b] /\ Nesting[b.to] \in Nat BY <1>1, <1>4, TypeParts
  <2>2. Nesting[a] + Nesting[b.to] < Nesting[a] + Nesting[b] BY <1>1, <1>2, <2>1
  <2>3. FALSE \in BOOLEAN /\ x[4] \in BOOLEAN /\ a \in Types BY <1>1
  <2>. QED BY <1>3, <2>1, <2>2, <2>3, Zenon
<1>5. ASSUME a.k = "ptr", b.k = "func"
      PROVE  /\ f[<<a.to, b, FALSE, FALSE>>] = g[<<a.to, b, FALSE, FALSE>>]
             /\ g[<<a.to, b, FALSE, FALSE>>] \in SUBSET BOOLEAN
  <2>1. a.to \in Types /\ Nesting[a.to] < Nesting[a] /\ Nesting[a.to] \in Nat BY <1>1, <1>5, TypeParts
  <2>2. Nesting[a.to] + Nesting[b] < Nesting[a] + Nesting[b] BY <1>1, <1>2, <2>1
  <2>. QED BY <1>1, <1>3, <2>1, <2>2
<1>6. ASSUME a.k # "base", a.k = b.k
      PROVE  /\ f[<<a.to, b.to, FALSE, FALSE>>] = g[<<a.to, b.to, FALSE, FALSE>>]
             /\ g[<<a.to, b.to, FALSE, FALSE>>] \in SUBSET BOOLEAN
  <2>1. a.to \in Types /\ Nesting[a.to] < Nesting[a] /\ Nesting[a.to] \in Nat BY <1>1, <1>6, TypeParts
  <2>2. b.to \in Types /\ Nesting[b.to] < Nesting[b] /\ Nesting[b.to] \in Nat BY <1>1, <1>6, TypeParts
  <2>3. Nesting[a.to] + Nesting[b.to] < Nesting[a] + Nesting[b] BY <1>1, <1>2, <2>1, <2>2
  <2>. QED BY <1>1, <1>3, <2>1, <2>2, <2>3
<1>7. ASSUME a.k = "func", b.k = "func", Len(a.params) = Len(b.params), NEW i \in DOMAIN a.params
      PROVE  f[<<a.params[i], b.params[i], FALSE, FALSE>>] = g[<<a.params[i], b.params[i], FALSE, FALSE>>]
  <2>1. a.params \in Seq(Types) /\ b.params \in Seq(Types) BY <1>1, <1>7, TypeParts
  <2>2. i \in DOMAIN b.params BY <1>7, <2>1
  <2>3. /\ a.params[i] \in Types /\ Nesting[a.params[i]] < Nesting[a] /\ Nesting[a.params[i]] \in Nat
        /\ b.params[i] \in Types /\ Nesting[b.params[i]] < Nesting[b] /\ Nesting[b.params[i]] \in Nat
    BY <1>1, <1>7, <2>2, TypeParts
  <2>4. Nesting[a.params[i]] + Nesting[b.params[i]] < Nesting[a] + Nesting[b] BY <1>1, <1>2, <2>3
  <2>. QED BY <1>3, <2>3, <2>4
<1>8. a.k # "base" /\ a.k = b.k /\ a.k # "func" => a.k \in {"ptr", "array"} BY <1>1, TypeParts
<1>9. ASSUME a.k = "func", b.k = "func", Len(a.params) = Len(b.params)
      PROVE  {r \in f[<<a.to, b.to, FALSE, FALSE>>] :
                \A i \in DOMAIN a.params : TRUE \in f[<<a.params[i], b.params[i], FALSE, FALSE>>]}
             = {r \in g[<<a.to, b.to, FALSE, FALSE>>] :
                \A i \in DOMAIN a.params : TRUE \in g[<<a.params[i], b.params[i], FALSE, FALSE>>]}
  BY <1>6, <1>7, <1>9
<1>. QED
  BY <1>4, <1>5, <1>6, <1>9 DEF SameStep, a, b

LEMMA SameEquation ==
  SameOf \in Answers /\ \A x \in SameArgs : SameOf[x] = SameStep(SameOf, x)
<1>. DEFINE step == [f \in Answers |-> [x \in SameArgs |-> SameStep(f, x)]]
<1>1. step \in [Answers -> Answers] BY SameStepParts DEF Answers
<1>2. \A f, g \in Answers : \A x \in SameArgs :
        (\A y \in SameArgs : ArgsRank[y] < ArgsRank[x] => f[y] = g[y]) => step[f][x] = step[g][x]
  BY SameStepParts
<1>3. \A f \in Answers : step[f] = [x \in SameArgs |-> SameStep(f, x)] OBVIOUS
<1>. HIDE DEF step
<1>4. PICK f \in Answers : f = step[f]
  <2>. DEFINE V == SUBSET BOOLEAN
  <2>1. {} \in V /\ ArgsRank \in [SameArgs -> Nat] /\ Answers = [SameArgs -> V] BY ArgsParts DEF Answers
  <2>. HIDE DEF V
  <2>2. IsRecursion(SameArgs, V, {}, ArgsRank, step)
    BY <1>1, <1>2, <2>1, Zenon DEF IsRecursion
  <2>3. \E f \in [SameArgs -> V] : f = step[f] BY <2>2, WellFoundedRecursion
  <2>. QED BY <2>1, <2>3, Zenon
<1>5. f = [x \in SameArgs |-> SameStep(f, x)] BY <1>3, <1>4
<1>6. SameOf = [x \in SameArgs |-> SameStep(SameOf, x)]
  BY <1>5, Zenon DEF SameOf, SameStep, SameArgs
<1>7. {x \in SameArgs : SameOf[x] = f[x]} = SameArgs
  <2>. DEFINE T == {x \in SameArgs : SameOf[x] = f[x]}
  <2>1. ASSUME NEW x \in SameArgs, \A y \in SameArgs : ArgsRank[y] < ArgsRank[x] => y \in T
        PROVE  x \in T
    <3>1. SameStep(SameOf, x) = SameStep(f, x) BY <2>1, SameStepParts
    <3>2. f[x] = SameStep(f, x) BY <1>5, Zenon
    <3>3. SameOf[x] = SameStep(SameOf, x) BY <1>6, Zenon
    <3>4. SameOf[x] = f[x] BY <3>1, <3>2, <3>3, Zenon
    <3>. QED BY <3>4
  <2>2. T \in SUBSET SameArgs /\ ArgsRank \in [SameArgs -> Nat] BY ArgsParts
  <2>. HIDE DEF T
  <2>3. T = SameArgs BY <2>1, <2>2, RankInduction
  <2>. QED BY <2>3 DEF T
<1>8. SameOf = f BY <1>5, <1>6, <1>7
<1>. QED BY <1>6, <1>8

-----------------------------------------------------------------------------
(* Pointers *)

ConvertsArgs == Pointers \X PointerLike
ConvertsStep(answers, x) ==
  LET f == Target(x[1])
      t == Target(x[2])
  IN  IF ~CvConvertible(f, t) THEN {FALSE}
      ELSE IF IsVoid(f) \/ IsVoid(t) THEN {TRUE}
      ELSE IF f.k = "ptr" /\ t.k = "ptr" THEN answers[<<f, t>>]
      ELSE Same(f, t, TRUE, TRUE)

(* What a pointer leads to is no reference. *)
LEMMA PointeeParts ==
  ASSUME NEW t \in Types, t.k \in {"ptr", "array"}
  PROVE  /\ t.to \in Types /\ Nesting[t.to] < Nesting[t] /\ ~t.to.ref
         /\ t.to.k = "ptr" => t.to \in Pointers /\ t.to \in PointerLike
<1>1. IsType(t) /\ t.to \in Types /\ Nesting[t.to] < Nesting[t] BY TypeParts
<1>2. ~t.to.ref BY <1>1 DEF IsType
<1>. QED BY <1>1, <1>2 DEF Pointers, PointerLike

LEMMA TargetParts ==
  ASSUME NEW t \in PointerLike
  PROVE  Target(t) \in Types /\ (Target(t).k = "ptr" => Target(t) \in PointerLike)
<1>1. t \in Types /\ (t.ref \/ t.k \in {"ptr", "array"}) BY DEF PointerLike
<1>2. CASE t.ref BY <1>1, <1>2 DEF Target
<1>3. CASE ~t.ref BY <1>1, <1>3, PointeeParts DEF Target
<1>. QED BY <1>2, <1>3

LEMMA PointerParts ==
  ASSUME NEW t \in Pointers
  PROVE  /\ t \in Types /\ t \in PointerLike /\ Target(t) = t.to /\ t.to \in Types
         /\ Nesting[t.to] < Nesting[t] /\ ~t.to.ref /\ (t.to.k = "ptr" => t.to \in Pointers)
<1>1. t \in Types /\ t.k = "ptr" /\ ~t.ref BY DEF Pointers
<1>. QED BY <1>1, PointeeParts DEF PointerLike, Target

LEMMA SameIsBoolean ==
  ASSUME NEW a \in Types, NEW b \in Types, NEW c \in BOOLEAN, NEW r \in BOOLEAN
  PROVE  Same(a, b, c, r) \in SUBSET BOOLEAN
<1>1. <<a, b, c, r>> \in SameArgs BY ArgsParts
<1>. QED BY <1>1, SameEquation DEF Same, Answers

(* A step asks for the answer for what the pointer leads to. *)
LEMMA ConvertsStepParts ==
  ASSUME NEW f, NEW g \in [ConvertsArgs -> SUBSET BOOLEAN], NEW x \in ConvertsArgs,
         \A y \in ConvertsArgs : Nesting[y[1]] < Nesting[x[1]] => f[y] = g[y]
  PROVE  ConvertsStep(f, x) = ConvertsStep(g, x) /\ ConvertsStep(g, x) \in SUBSET BOOLEAN
<1>. DEFINE a == Target(x[1])
            b == Target(x[2])
<1>1. x[1] \in Pointers /\ x[2] \in PointerLike BY DEF ConvertsArgs
<1>2. a \in Types /\ Nesting[a] < Nesting[x[1]] /\ (a.k = "ptr" => a \in Pointers)
  BY <1>1, PointerParts
<1>3. b \in Types /\ (b.k = "ptr" => b \in PointerLike) BY <1>1, TargetParts
<1>. HIDE DEF a, b
<1>4. Same(a, b, TRUE, TRUE) \in SUBSET BOOLEAN BY <1>2, <1>3, SameIsBoolean
<1>5. ASSUME a.k = "ptr", b.k = "ptr"
      PROVE  f[<<a, b>>] = g[<<a, b>>] /\ g[<<a, b>>] \in SUBSET BOOLEAN
  <2>1. <<a, b>> \in ConvertsArgs /\ <<a, b>>[1] = a BY <1>2, <1>3, <1>5 DEF ConvertsArgs
  <2>. QED BY <1>2, <2>1
<1>. QED BY <1>4, <1>5 DEF ConvertsStep, a, b

LEMMA ConvertsEquation ==
  /\ Converts \in [ConvertsArgs -> SUBSET BOOLEAN]
  /\ \A x \in ConvertsArgs : Converts[x] = ConvertsStep(Converts, x)
<1>. DEFINE S == [ConvertsArgs -> SUBSET BOOLEAN]
            rank == [x \in ConvertsArgs |-> Nesting[x[1]]]
            step == [f \in S |-> [x \in ConvertsArgs |-> ConvertsStep(f, x)]]
<1>0. rank \in [ConvertsArgs -> Nat]
  <2>1. \A x \in ConvertsArgs : x[1] \in Types BY PointerParts DEF ConvertsArgs
  <2>. QED BY <2>1, TypeParts
<1>1. step \in [S -> S] BY ConvertsStepParts
<1>2. \A f, g \in S : \A x \in ConvertsArgs :
        (\A y \in ConvertsArgs : rank[y] < rank[x] => f[y] = g[y]) => step[f][x] = step[g][x]
  BY ConvertsStepParts
<1>3. \A f \in S : step[f] = [x \in ConvertsArgs |-> ConvertsStep(f, x)] OBVIOUS
<1>3a. \A x \in ConvertsArgs : rank[x] = Nesting[x[1]] OBVIOUS
<1>. HIDE DEF step, rank
<1>4. PICK f \in S : f = step[f]
  <2>. DEFINE V == SUBSET BOOLEAN
  <2>1. {} \in V /\ S = [ConvertsArgs -> V] OBVIOUS
  <2>. HIDE DEF V, S
  <2>2. IsRecursion(ConvertsArgs, V, {}, rank, step)
    BY <1>0, <1>1, <1>2, <2>1, Zenon DEF IsRecursion
  <2>3. \E f \in [ConvertsArgs -> V] : f = step[f] BY <2>2, WellFoundedRecursion
  <2>. QED BY <2>1, <2>3, Zenon
<1>5. f = [x \in ConvertsArgs |-> ConvertsStep(f, x)] BY <1>3, <1>4
<1>6. Converts = [x \in ConvertsArgs |-> ConvertsStep(Converts, x)]
  BY <1>5, Zenon DEF Converts, ConvertsStep, ConvertsArgs
<1>7. {x \in ConvertsArgs : Converts[x] = f[x]} = ConvertsArgs
  <2>. DEFINE T == {x \in ConvertsArgs : Converts[x] = f[x]}
  <2>1. ASSUME NEW x \in ConvertsArgs, \A y \in ConvertsArgs : rank[y] < rank[x] => y \in T
        PROVE  x \in T
    <3>1. ConvertsStep(Converts, x) = ConvertsStep(f, x) BY <1>3a, <2>1, ConvertsStepParts
    <3>2. f[x] = ConvertsStep(f, x) BY <1>5, Zenon
    <3>3. Converts[x] = ConvertsStep(Converts, x) BY <1>6, Zenon
    <3>4. Converts[x] = f[x] BY <3>1, <3>2, <3>3, Zenon
    <3>. QED BY <3>4
  <2>2. T \in SUBSET ConvertsArgs OBVIOUS
  <2>. HIDE DEF T
  <2>3. T = ConvertsArgs BY <1>0, <2>1, <2>2, RankInduction
  <2>. QED BY <2>3 DEF T
<1>8. Converts = f BY <1>5, <1>6, <1>7
<1>. QED BY <1>6, <1>8

-----------------------------------------------------------------------------
(* What types point to *)

Pairs == Types \X Types
PairRank == [x \in Pairs |-> Nesting[x[1]]]
PointsStep(answers, x) ==
  LET f == x[1]
      t == x[2]
  IN  /\ f.cv \subseteq t.cv
      /\ \/ IsVoid(f) \/ IsVoid(t)
         \/ f.k = "func" /\ t.k = "func"
         \/ f.k = "ptr" /\ t.k = "ptr" /\ answers[<<f.to, t.to>>]
         \/ Alike(f, t)

LEMMA PointsStepParts ==
  ASSUME NEW f, NEW g, NEW x \in Pairs,
         \A y \in Pairs : PairRank[y] < PairRank[x] => f[y] = g[y]
  PROVE  PointsStep(f, x) = PointsStep(g, x)
<1>1. x[1] \in Types /\ x[2] \in Types BY DEF Pairs
<1>2. ASSUME x[1].k = "ptr", x[2].k = "ptr" PROVE f[<<x[1].to, x[2].to>>] = g[<<x[1].to, x[2].to>>]
  <2>1. /\ x[1].to \in Types /\ Nesting[x[1].to] < Nesting[x[1]]
        /\ x[2].to \in Types
    BY <1>1, <1>2, PointeeParts
  <2>2. <<x[1].to, x[2].to>> \in Pairs BY <2>1 DEF Pairs
  <2>. QED BY <1>1, <2>1, <2>2 DEF PairRank
<1>. QED BY <1>2, Zenon DEF PointsStep

LEMMA PointsEquation ==
  \A x \in Pairs : PointsAs[x] = PointsStep(PointsAs, x)
<1>. DEFINE S == [Pairs -> BOOLEAN]
            step == [f \in S |-> [x \in Pairs |-> PointsStep(f, x)]]
<1>0. PairRank \in [Pairs -> Nat]
  BY TypeParts DEF PairRank, Pairs
<1>1. step \in [S -> S]
  <2>1. \A f : \A x \in Pairs : PointsStep(f, x) \in BOOLEAN BY Zenon DEF PointsStep
  <2>. QED BY <2>1, Zenon
<1>2. \A f, g \in S : \A x \in Pairs :
        (\A y \in Pairs : PairRank[y] < PairRank[x] => f[y] = g[y]) => step[f][x] = step[g][x]
  <2>. TAKE f, g \in S
  <2>. TAKE x \in Pairs
  <2>. HAVE \A y \in Pairs : PairRank[y] < PairRank[x] => f[y] = g[y]
  <2>1. PointsStep(f, x) = PointsStep(g, x) BY PointsStepParts
  <2>. QED BY <2>1, Zenon
<1>3. \A f \in S : step[f] = [x \in Pairs |-> PointsStep(f, x)] OBVIOUS
<1>. HIDE DEF step
<1>4. PICK f \in S : f = step[f]
  <2>. DEFINE V == BOOLEAN
              v == TRUE
  <2>1. v \in V /\ S = [Pairs -> V] OBVIOUS
  <2>. HIDE DEF V, S, v
  <2>2. IsRecursion(Pairs, V, v, PairRank, step)
    BY <1>0, <1>1, <1>2, <2>1, Zenon DEF IsRecursion
  <2>3. \E f \in [Pairs -> V] : f = step[f] BY <2>2, WellFoundedRecursion
  <2>. QED BY <2>1, <2>3, Zenon
<1>5. f = [x \in Pairs |-> PointsStep(f, x)] BY <1>3, <1>4, Zenon
<1>6. PointsAs = [x \in Pairs |-> PointsStep(PointsAs, x)]
  BY <1>5, Zenon DEF PointsAs, PointsStep, Pairs
<1>. QED BY <1>6, Zenon

LEMMA LeadsEquation ==
  \A t \in Types : LeadsToFunction[t] <=> t.k = "func" \/ (t.k # "base" /\ LeadsToFunction[t.to])
<1>. DEFINE Step(f, t) == t.k = "func" \/ (t.k # "base" /\ f[t.to])
            S == [Types -> BOOLEAN]
            step == [f \in S |-> [t \in Types |-> Step(f, t)]]
<1>0. Nesting \in [Types -> Nat] BY TypesAssumption
<1>1. step \in [S -> S] BY Zenon
<1>2. \A f, g \in S : \A x \in Types :
        (\A y \in Types : Nesting[y] < Nesting[x] => f[y] = g[y]) => step[f][x] = step[g][x]
  <2>. TAKE f, g \in S
  <2>. TAKE x \in Types
  <2>. HAVE \A y \in Types : Nesting[y] < Nesting[x] => f[y] = g[y]
  <2>1. x.k # "base" => f[x.to] = g[x.to] BY TypeParts
  <2>2. Step(f, x) = Step(g, x) BY <2>1, Zenon
  <2>. QED BY <2>2, Zenon
<1>3. \A f \in S : step[f] = [t \in Types |-> Step(f, t)] OBVIOUS
<1>. HIDE DEF step
<1>4. PICK f \in S : f = step[f]
  <2>. DEFINE V == BOOLEAN
              v == TRUE
  <2>1. v \in V /\ S = [Types -> V] OBVIOUS
  <2>. HIDE DEF V, S, v
  <2>2. IsRecursion(Types, V, v, Nesting, step)
    BY <1>0, <1>1, <1>2, <2>1, Zenon DEF IsRecursion
  <2>3. \E f \in [Types -> V] : f = step[f] BY <2>2, WellFoundedRecursion
  <2>. QED BY <2>1, <2>3, Zenon
<1>5. f = [t \in Types |-> Step(f, t)] BY <1>3, <1>4, Zenon
<1>6. LeadsToFunction = [t \in Types |-> Step(LeadsToFunction, t)]
  BY <1>5, Zenon DEF LeadsToFunction
<1>. QED BY <1>6, Zenon

-----------------------------------------------------------------------------
(* What is taken for the same object *)

LooseStep(l, t) ==
  IF t.k = "base" THEN t
  ELSE IF t.k = "ptr" THEN IF l[t.to].k = "func" THEN l[t.to] ELSE [t EXCEPT !.to = l[t.to]]
  ELSE IF t.k = "array" THEN [t EXCEPT !.to = l[t.to], !.flag = "none"]
  ELSE Func(l[t.to], [i \in DOMAIN t.params |-> l[t.params[i]]], FALSE, "default")

(* The types that are nested less deeply than some depth, and the function *)
(* for these                                                               *)
Shallow(n) == {t \in Types : Nesting[t] < n}
IsLoosely(l, n) == l = [t \in Shallow(n) |-> LooseStep(l, t)]

LEMMA LooseStepParts ==
  ASSUME NEW l, NEW m, NEW t \in Types,
         \A u \in Types : Nesting[u] < Nesting[t] => l[u] = m[u]
  PROVE  LooseStep(l, t) = LooseStep(m, t)
<1>1. t.k \in {"base", "ptr", "array", "func"} BY TypeParts
<1>2. t.k # "base" => l[t.to] = m[t.to] BY TypeParts
<1>3. ASSUME t.k = "func"
      PROVE  [i \in DOMAIN t.params |-> l[t.params[i]]] = [i \in DOMAIN t.params |-> m[t.params[i]]]
  <2>1. \A i \in DOMAIN t.params : l[t.params[i]] = m[t.params[i]] BY <1>3, TypeParts
  <2>. QED BY <2>1
<1>4. CASE t.k = "base" BY <1>4 DEF LooseStep
<1>5. CASE t.k = "ptr" BY <1>2, <1>5 DEF LooseStep
<1>6. CASE t.k = "array" BY <1>2, <1>6 DEF LooseStep
<1>7. CASE t.k = "func" BY <1>2, <1>3, <1>7 DEF LooseStep
<1>. QED BY <1>1, <1>4, <1>5, <1>6, <1>7

LEMMA LooselyDefinition ==
  ASSUME NEW l, l = [t \in Types |-> LooseStep(l, t)]
  PROVE  Loosely = [t \in Types |-> LooseStep(Loosely, t)]
BY Zenon DEF Loosely, LooseStep

LEMMA LooselyUpto ==
  \A n \in Nat : \E l : IsLoosely(l, n)
<1>. DEFINE T == {n \in Nat : \E l : IsLoosely(l, n)}
<1>1. 0 \in T
  <2>1. Shallow(0) = {}
    <3>1. \A t \in Types : Nesting[t] \in Nat BY TypeParts
    <3>. QED BY <3>1 DEF Shallow
  <2>2. IsLoosely([t \in Shallow(0) |-> t], 0) BY <2>1 DEF IsLoosely
  <2>. QED BY <2>2
<1>2. ASSUME NEW n \in T PROVE n + 1 \in T
  <2>1. n \in Nat /\ n + 1 \in Nat OBVIOUS
  <2>2. PICK l : IsLoosely(l, n) OBVIOUS
  <2>. DEFINE m == [t \in Shallow(n + 1) |-> LooseStep(l, t)]
  <2>3. \A t \in Shallow(n) : t \in Shallow(n + 1) BY <2>1, TypeParts DEF Shallow
  <2>4. \A t \in Shallow(n) : l[t] = m[t] BY <2>2, <2>3 DEF IsLoosely
  <2>5. ASSUME NEW t \in Shallow(n + 1) PROVE LooseStep(l, t) = LooseStep(m, t)
    <3>1. t \in Types /\ Nesting[t] \in Nat /\ Nesting[t] < n + 1 BY TypeParts DEF Shallow
    <3>2. ASSUME NEW u \in Types, Nesting[u] < Nesting[t] PROVE u \in Shallow(n)
      <4>1. Nesting[u] \in Nat BY TypeParts
      <4>2. Nesting[u] < n BY <2>1, <3>1, <3>2, <4>1
      <4>. QED BY <4>2 DEF Shallow
    <3>. HIDE DEF m
    <3>3. \A u \in Types : Nesting[u] < Nesting[t] => l[u] = m[u] BY <2>4, <3>2
    <3>. QED BY <3>1, <3>3, LooseStepParts
  <2>6. IsLoosely(m, n + 1)
    <3>1. m = [t \in Shallow(n + 1) |-> LooseStep(l, t)] OBVIOUS
    <3>. HIDE DEF m
    <3>2. [t \in Shallow(n + 1) |-> LooseStep(l, t)] = [t \in Shallow(n + 1) |-> LooseStep(m, t)] BY <2>5
    <3>. QED BY <3>1, <3>2 DEF IsLoosely
  <2>. HIDE DEF m
  <2>. QED BY <2>1, <2>6
<1>. HIDE DEF T
<1>3. T = Nat BY <1>1, <1>2, NaturalInduction DEF T
<1>. QED BY <1>3 DEF T

(* Two of these functions agree. *)
LEMMA LooselyAgree ==
  ASSUME NEW n \in Nat, NEW k \in Nat, NEW l, NEW m, IsLoosely(l, n), IsLoosely(m, k),
         NEW t \in Types, Nesting[t] < n, Nesting[t] < k
  PROVE  l[t] = m[t]
<1>. DEFINE T == {u \in Types : Nesting[u] < n /\ Nesting[u] < k => l[u] = m[u]}
<1>1. ASSUME NEW u \in Types, \A w \in Types : Nesting[w] < Nesting[u] => w \in T
      PROVE  u \in T
  <2>. SUFFICES ASSUME Nesting[u] < n, Nesting[u] < k PROVE l[u] = m[u] OBVIOUS
  <2>1. ASSUME NEW w \in Types, Nesting[w] < Nesting[u] PROVE l[w] = m[w]
    <3>1. Nesting[w] \in Nat /\ Nesting[u] \in Nat BY TypeParts
    <3>2. Nesting[w] < n /\ Nesting[w] < k BY <2>1, <3>1
    <3>. QED BY <1>1, <2>1, <3>2
  <2>2. LooseStep(l, u) = LooseStep(m, u) BY <2>1, LooseStepParts
  <2>3. u \in Shallow(n) /\ u \in Shallow(k) BY DEF Shallow
  <2>4. l[u] = LooseStep(l, u) /\ m[u] = LooseStep(m, u) BY <2>3, Zenon DEF IsLoosely
  <2>. QED BY <2>2, <2>4
<1>2. T \in SUBSET Types /\ Nesting \in [Types -> Nat] BY TypesAssumption
<1>. HIDE DEF T
<1>3. T = Types BY <1>1, <1>2, RankInduction
<1>. QED BY <1>3 DEF T

LEMMA LooselyEquation ==
  \A t \in Types : Loosely[t] = LooseStep(Loosely, t)
<1>. DEFINE some == [n \in Nat |-> CHOOSE l : IsLoosely(l, n)]
            l == [t \in Types |-> some[Nesting[t] + 1][t]]
<1>1. \A n \in Nat : IsLoosely(some[n], n) BY LooselyUpto
<1>2. ASSUME NEW t \in Types PROVE l[t] = LooseStep(l, t)
  <2>1. Nesting[t] \in Nat /\ Nesting[t] + 1 \in Nat /\ Nesting[t] < Nesting[t] + 1 BY TypeParts
  <2>. DEFINE m == some[Nesting[t] + 1]
  <2>2. IsLoosely(m, Nesting[t] + 1) BY <1>1, <2>1
  <2>3. l[t] = m[t] OBVIOUS
  <2>4. \A u \in Types : l[u] = some[Nesting[u] + 1][u] OBVIOUS
  <2>. HIDE DEF m, some, l
  <2>5. m[t] = LooseStep(m, t)
    <3>1. t \in Shallow(Nesting[t] + 1) BY <2>1 DEF Shallow
    <3>. QED BY <2>2, <3>1, Zenon DEF IsLoosely
  <2>6. ASSUME NEW u \in Types, Nesting[u] < Nesting[t] PROVE l[u] = m[u]
    <3>1. Nesting[u] \in Nat /\ Nesting[u] + 1 \in Nat /\ Nesting[u] < Nesting[u] + 1 BY TypeParts
    <3>2. Nesting[u] < Nesting[t] + 1 BY <2>1, <2>6, <3>1
    <3>3. IsLoosely(some[Nesting[u] + 1], Nesting[u] + 1) BY <1>1, <3>1
    <3>4. some[Nesting[u] + 1][u] = m[u] BY <2>1, <2>2, <3>1, <3>2, <3>3, LooselyAgree
    <3>. QED BY <2>4, <3>4
  <2>. QED BY <2>3, <2>5, <2>6, LooseStepParts
<1>3. l = [t \in Types |-> LooseStep(l, t)]
  <2>1. l = [t \in Types |-> l[t]] OBVIOUS
  <2>. HIDE DEF l
  <2>. QED BY <1>2, <2>1
<1>. HIDE DEF l
<1>. QED BY <1>3, LooselyDefinition, Zenon

(* Records with the same fields are the same. *)
LEMMA SameFields ==
  ASSUME NEW r, NEW s, r = [x \in DOMAIN r |-> r[x]], s = [x \in DOMAIN s |-> s[x]],
         DOMAIN r = DOMAIN s, \A x \in DOMAIN s : r[x] = s[x]
  PROVE  r = s
OBVIOUS

(* References to types, and types without their qualifiers *)
LEMMA BaseReference ==
  ASSUME NEW n, NEW c
  PROVE  AddRef(Base(n, c)) = [k |-> "base", name |-> n, cv |-> c, ref |-> TRUE]
<1>. DEFINE r == AddRef(Base(n, c))
            s == [k |-> "base", name |-> n, cv |-> c, ref |-> TRUE]
<1>1. DOMAIN r = {"k", "name", "cv", "ref"} /\ DOMAIN s = {"k", "name", "cv", "ref"}
  BY DEF AddRef, Base
<1>2. r.k = s.k /\ r.name = s.name /\ r.cv = s.cv /\ r.ref = s.ref
  BY DEF AddRef, Base
<1>3. r = [x \in DOMAIN r |-> r[x]] /\ s = [x \in DOMAIN s |-> s[x]] BY DEF AddRef, Base
<1>. HIDE DEF r, s
<1>4. \A x \in DOMAIN s : r[x] = s[x] BY <1>1, <1>2
<1>5. r = s BY <1>1, <1>3, <1>4, SameFields
<1>. QED BY <1>5 DEF r, s

LEMMA BaseBare ==
  ASSUME NEW n, NEW c, NEW b
  PROVE  Bare([k |-> "base", name |-> n, cv |-> c, ref |-> b]) = Base(n, {})
<1>. DEFINE r == Bare([k |-> "base", name |-> n, cv |-> c, ref |-> b])
            s == Base(n, {})
<1>1. DOMAIN r = {"k", "name", "cv", "ref"} /\ DOMAIN s = {"k", "name", "cv", "ref"}
  BY DEF Bare, Base
<1>2. r.k = s.k /\ r.name = s.name /\ r.cv = s.cv /\ r.ref = s.ref
  BY DEF Bare, Base
<1>3. r = [x \in DOMAIN r |-> r[x]] /\ s = [x \in DOMAIN s |-> s[x]] BY DEF Bare, Base
<1>. HIDE DEF r, s
<1>4. \A x \in DOMAIN s : r[x] = s[x] BY <1>1, <1>2
<1>5. r = s BY <1>1, <1>3, <1>4, SameFields
<1>. QED BY <1>5 DEF r, s

LEMMA PtrReference ==
  ASSUME NEW u, NEW c
  PROVE  AddRef(Ptr(u, c)) = [k |-> "ptr", to |-> u, cv |-> c, ref |-> TRUE]
<1>. DEFINE r == AddRef(Ptr(u, c))
            s == [k |-> "ptr", to |-> u, cv |-> c, ref |-> TRUE]
<1>1. DOMAIN r = {"k", "to", "cv", "ref"} /\ DOMAIN s = {"k", "to", "cv", "ref"}
  BY DEF AddRef, Ptr
<1>2. r.k = s.k /\ r.to = s.to /\ r.cv = s.cv /\ r.ref = s.ref
  BY DEF AddRef, Ptr
<1>3. r = [x \in DOMAIN r |-> r[x]] /\ s = [x \in DOMAIN s |-> s[x]] BY DEF AddRef, Ptr
<1>. HIDE DEF r, s
<1>4. \A x \in DOMAIN s : r[x] = s[x] BY <1>1, <1>2
<1>5. r = s BY <1>1, <1>3, <1>4, SameFields
<1>. QED BY <1>5 DEF r, s

LEMMA PtrBare ==
  ASSUME NEW u, NEW c, NEW b
  PROVE  Bare([k |-> "ptr", to |-> u, cv |-> c, ref |-> b]) = Ptr(u, {})
<1>. DEFINE r == Bare([k |-> "ptr", to |-> u, cv |-> c, ref |-> b])
            s == Ptr(u, {})
<1>1. DOMAIN r = {"k", "to", "cv", "ref"} /\ DOMAIN s = {"k", "to", "cv", "ref"}
  BY DEF Bare, Ptr
<1>2. r.k = s.k /\ r.to = s.to /\ r.cv = s.cv /\ r.ref = s.ref
  BY DEF Bare, Ptr
<1>3. r = [x \in DOMAIN r |-> r[x]] /\ s = [x \in DOMAIN s |-> s[x]] BY DEF Bare, Ptr
<1>. HIDE DEF r, s
<1>4. \A x \in DOMAIN s : r[x] = s[x] BY <1>1, <1>2
<1>5. r = s BY <1>1, <1>3, <1>4, SameFields
<1>. QED BY <1>5 DEF r, s

LEMMA ArrayReference ==
  ASSUME NEW u, NEW c, NEW n, NEW f
  PROVE  AddRef(Array(u, c, n, f)) = [k |-> "array", to |-> u, size |-> n, flag |-> f, cv |-> c, ref |-> TRUE]
<1>. DEFINE r == AddRef(Array(u, c, n, f))
            s == [k |-> "array", to |-> u, size |-> n, flag |-> f, cv |-> c, ref |-> TRUE]
<1>1. DOMAIN r = {"k", "to", "size", "flag", "cv", "ref"} /\ DOMAIN s = {"k", "to", "size", "flag", "cv", "ref"}
  BY DEF AddRef, Array
<1>2. r.k = s.k /\ r.to = s.to /\ r.size = s.size /\ r.flag = s.flag /\ r.cv = s.cv /\ r.ref = s.ref
  BY DEF AddRef, Array
<1>3. r = [x \in DOMAIN r |-> r[x]] /\ s = [x \in DOMAIN s |-> s[x]] BY DEF AddRef, Array
<1>. HIDE DEF r, s
<1>4. \A x \in DOMAIN s : r[x] = s[x] BY <1>1, <1>2
<1>5. r = s BY <1>1, <1>3, <1>4, SameFields
<1>. QED BY <1>5 DEF r, s

LEMMA ArrayBare ==
  ASSUME NEW u, NEW c, NEW n, NEW f, NEW b
  PROVE  Bare([k |-> "array", to |-> u, size |-> n, flag |-> f, cv |-> c, ref |-> b]) = Array(u, {}, n, f)
<1>. DEFINE r == Bare([k |-> "array", to |-> u, size |-> n, flag |-> f, cv |-> c, ref |-> b])
            s == Array(u, {}, n, f)
<1>1. DOMAIN r = {"k", "to", "size", "flag", "cv", "ref"} /\ DOMAIN s = {"k", "to", "size", "flag", "cv", "ref"}
  BY DEF Bare, Array
<1>2. r.k = s.k /\ r.to = s.to /\ r.size = s.size /\ r.flag = s.flag /\ r.cv = s.cv /\ r.ref = s.ref
  BY DEF Bare, Array
<1>3. r = [x \in DOMAIN r |-> r[x]] /\ s = [x \in DOMAIN s |-> s[x]] BY DEF Bare, Array
<1>. HIDE DEF r, s
<1>4. \A x \in DOMAIN s : r[x] = s[x] BY <1>1, <1>2
<1>5. r = s BY <1>1, <1>3, <1>4, SameFields
<1>. QED BY <1>5 DEF r, s

LEMMA FuncReference ==
  ASSUME NEW u, NEW p, NEW v, NEW c
  PROVE  AddRef(Func(u, p, v, c)) = [k |-> "func", to |-> u, params |-> p, variadic |-> v, conv |-> c, cv |-> {}, ref |-> TRUE]
<1>. DEFINE r == AddRef(Func(u, p, v, c))
            s == [k |-> "func", to |-> u, params |-> p, variadic |-> v, conv |-> c, cv |-> {}, ref |-> TRUE]
<1>1. DOMAIN r = {"k", "to", "params", "variadic", "conv", "cv", "ref"} /\ DOMAIN s = {"k", "to", "params", "variadic", "conv", "cv", "ref"}
  BY DEF AddRef, Func
<1>2. r.k = s.k /\ r.to = s.to /\ r.params = s.params /\ r.variadic = s.variadic /\ r.conv = s.conv /\ r.cv = s.cv /\ r.ref = s.ref
  BY DEF AddRef, Func
<1>3. r = [x \in DOMAIN r |-> r[x]] /\ s = [x \in DOMAIN s |-> s[x]] BY DEF AddRef, Func
<1>. HIDE DEF r, s
<1>4. \A x \in DOMAIN s : r[x] = s[x] BY <1>1, <1>2
<1>5. r = s BY <1>1, <1>3, <1>4, SameFields
<1>. QED BY <1>5 DEF r, s

LEMMA FuncBare ==
  ASSUME NEW u, NEW p, NEW v, NEW c
  PROVE  Bare(Func(u, p, v, c)) = Func(u, p, v, c)
<1>. DEFINE r == Bare(Func(u, p, v, c))
            s == Func(u, p, v, c)
<1>1. DOMAIN r = {"k", "to", "params", "variadic", "conv", "cv", "ref"} /\ DOMAIN s = {"k", "to", "params", "variadic", "conv", "cv", "ref"}
  BY DEF Bare, Func
<1>2. r.k = s.k /\ r.to = s.to /\ r.params = s.params /\ r.variadic = s.variadic /\ r.conv = s.conv /\ r.cv = s.cv /\ r.ref = s.ref
  BY DEF Bare, Func
<1>3. r = [x \in DOMAIN r |-> r[x]] /\ s = [x \in DOMAIN s |-> s[x]] BY DEF Bare, Func
<1>. HIDE DEF r, s
<1>4. \A x \in DOMAIN s : r[x] = s[x] BY <1>1, <1>2
<1>5. r = s BY <1>1, <1>3, <1>4, SameFields
<1>. QED BY <1>5 DEF r, s

(* What a type is, field by field *)
LEMMA TypeShape ==
  ASSUME NEW t \in Types
  PROVE  /\ t.ref \in BOOLEAN
         /\ t.k = "base" => t.name \in ScalarNames /\ t = [k |-> "base", name |-> t.name, cv |-> t.cv, ref |-> t.ref]
         /\ t.k = "ptr" => t = [k |-> "ptr", to |-> t.to, cv |-> t.cv, ref |-> t.ref]
         /\ t.k = "array" =>
              t = [k |-> "array", to |-> t.to, size |-> t.size, flag |-> t.flag, cv |-> t.cv, ref |-> t.ref]
         /\ t.k = "func" =>
              t = [k |-> "func", to |-> t.to, params |-> t.params, variadic |-> t.variadic, conv |-> t.conv,
                   cv |-> {}, ref |-> t.ref]
<1>1. IsType(t) BY TypeParts
<1>2. CASE t.k = "base"
  <2>1. t = Base(t.name, t.cv) \/ t = AddRef(Base(t.name, t.cv))
    BY <1>1, <1>2, Zenon DEF IsType, OrReference
  <2>2. CASE t = Base(t.name, t.cv)
    <3>1. t.ref = FALSE BY <2>2 DEF Base
    <3>. QED BY <1>1, <1>2, <2>2, <3>1, Zenon DEF Base, IsType
  <2>3. CASE t = AddRef(Base(t.name, t.cv))
    <3>1. t.ref = TRUE BY <2>3, BaseReference
    <3>. QED BY <1>1, <1>2, <2>3, <3>1, BaseReference, Zenon DEF IsType
  <2>. QED BY <2>1, <2>2, <2>3
<1>3. CASE t.k = "ptr"
  <2>1. t = Ptr(t.to, t.cv) \/ t = AddRef(Ptr(t.to, t.cv))
    BY <1>1, <1>3, Zenon DEF IsType, OrReference
  <2>2. CASE t = Ptr(t.to, t.cv)
    <3>1. t.ref = FALSE BY <2>2 DEF Ptr
    <3>. QED BY <1>1, <1>3, <2>2, <3>1, Zenon DEF Ptr, IsType
  <2>3. CASE t = AddRef(Ptr(t.to, t.cv))
    <3>1. t.ref = TRUE BY <2>3, PtrReference
    <3>. QED BY <1>1, <1>3, <2>3, <3>1, PtrReference, Zenon DEF IsType
  <2>. QED BY <2>1, <2>2, <2>3
<1>4. CASE t.k = "array"
  <2>1. t = Array(t.to, t.cv, t.size, t.flag) \/ t = AddRef(Array(t.to, t.cv, t.size, t.flag))
    BY <1>1, <1>4, Zenon DEF IsType, OrReference
  <2>2. CASE t = Array(t.to, t.cv, t.size, t.flag)
    <3>1. t.ref = FALSE BY <2>2 DEF Array
    <3>. QED BY <1>1, <1>4, <2>2, <3>1, Zenon DEF Array, IsType
  <2>3. CASE t = AddRef(Array(t.to, t.cv, t.size, t.flag))
    <3>1. AddRef(Array(t.to, t.cv, t.size, t.flag))
          = [k |-> "array", to |-> t.to, size |-> t.size, flag |-> t.flag, cv |-> t.cv, ref |-> TRUE]
      BY ArrayReference
    <3>2. t = [k |-> "array", to |-> t.to, size |-> t.size, flag |-> t.flag, cv |-> t.cv, ref |-> TRUE]
      BY <2>3, <3>1, Zenon
    <3>3. t.ref = TRUE BY <3>2
    <3>. QED BY <1>4, <3>2, <3>3, Zenon
  <2>. QED BY <2>1, <2>2, <2>3
<1>5. CASE t.k = "func"
  <2>1. t = Func(t.to, t.params, t.variadic, t.conv) \/ t = AddRef(Func(t.to, t.params, t.variadic, t.conv))
    BY <1>1, <1>5, Zenon DEF IsType, OrReference
  <2>2. CASE t = Func(t.to, t.params, t.variadic, t.conv)
    <3>1. t.ref = FALSE BY <2>2 DEF Func
    <3>. QED BY <1>1, <1>5, <2>2, <3>1, Zenon DEF Func, IsType
  <2>3. CASE t = AddRef(Func(t.to, t.params, t.variadic, t.conv))
    <3>1. AddRef(Func(t.to, t.params, t.variadic, t.conv))
          = [k |-> "func", to |-> t.to, params |-> t.params, variadic |-> t.variadic, conv |-> t.conv,
               cv |-> {}, ref |-> TRUE]
      BY FuncReference
    <3>2. t = [k |-> "func", to |-> t.to, params |-> t.params, variadic |-> t.variadic, conv |-> t.conv,
               cv |-> {}, ref |-> TRUE]
      BY <2>3, <3>1, Zenon
    <3>3. t.ref = TRUE BY <3>2
    <3>. QED BY <1>5, <3>2, <3>3, Zenon
  <2>. QED BY <2>1, <2>2, <2>3
<1>. QED BY <1>2, <1>3, <1>4, <1>5, TypeParts

LEMMA LooselyParts ==
  ASSUME NEW t \in Types
  PROVE  /\ t.k = "base" => Loosely[t] = t
         /\ t.k = "ptr" /\ Loosely[t.to].k = "func" => Loosely[t] = Loosely[t.to]
         /\ t.k = "ptr" /\ Loosely[t.to].k # "func" =>
              Loosely[t] = [k |-> "ptr", to |-> Loosely[t.to], cv |-> t.cv, ref |-> t.ref]
         /\ t.k = "array" =>
              Loosely[t] = [k |-> "array", to |-> Loosely[t.to], size |-> t.size, flag |-> "none",
                            cv |-> t.cv, ref |-> t.ref]
         /\ t.k = "func" =>
              Loosely[t] = Func(Loosely[t.to], [i \in DOMAIN t.params |-> Loosely[t.params[i]]], FALSE, "default")
<1>1. Loosely[t] = LooseStep(Loosely, t) BY LooselyEquation
<1>2. CASE t.k = "base" BY <1>1, <1>2 DEF LooseStep
<1>3. CASE t.k = "ptr" BY <1>1, <1>3, TypeShape DEF LooseStep
<1>4. CASE t.k = "array" BY <1>1, <1>4, TypeShape DEF LooseStep
<1>5. CASE t.k = "func" BY <1>1, <1>5 DEF LooseStep
<1>. QED BY <1>2, <1>3, <1>4, <1>5, TypeParts

LEMMA FunctionIsBare ==
  ASSUME NEW t \in Types, Loosely[t].k = "func"
  PROVE  Bare(Loosely[t]) = Loosely[t]
<1>. DEFINE T == {u \in Types : Loosely[u].k = "func" => Bare(Loosely[u]) = Loosely[u]}
<1>1. ASSUME NEW u \in Types, \A w \in Types : Nesting[w] < Nesting[u] => w \in T
      PROVE  u \in T
  <2>0. SUFFICES ASSUME Loosely[u].k = "func" PROVE Bare(Loosely[u]) = Loosely[u] OBVIOUS
  <2>1. CASE u.k = "func"
    <3>1. Loosely[u] = Func(Loosely[u.to], [i \in DOMAIN u.params |-> Loosely[u.params[i]]], FALSE, "default")
      BY <2>1, LooselyParts, Zenon
    <3>2. Bare(Func(Loosely[u.to], [i \in DOMAIN u.params |-> Loosely[u.params[i]]], FALSE, "default"))
          = Func(Loosely[u.to], [i \in DOMAIN u.params |-> Loosely[u.params[i]]], FALSE, "default")
      BY FuncBare
    <3>. QED BY <3>1, <3>2, Zenon
  <2>2. CASE u.k = "ptr"
    <3>1. u.to \in Types /\ Nesting[u.to] < Nesting[u] BY <2>2, TypeParts
    <3>2. CASE Loosely[u.to].k = "func"
      <4>1. Loosely[u] = Loosely[u.to] BY <2>2, <3>2, LooselyParts, Zenon
      <4>2. u.to \in T BY <1>1, <3>1
      <4>. QED BY <3>2, <4>1, <4>2
    <3>3. CASE Loosely[u.to].k # "func"
      <4>1. Loosely[u] = [k |-> "ptr", to |-> Loosely[u.to], cv |-> u.cv, ref |-> u.ref]
        BY <2>2, <3>3, LooselyParts, Zenon
      <4>2. Loosely[u].k = "ptr" BY <4>1
      <4>. QED BY <2>0, <4>2
    <3>. QED BY <3>2, <3>3
  <2>3. CASE u.k = "base" BY <2>0, <2>3, LooselyParts
  <2>4. CASE u.k = "array"
    <3>1. Loosely[u] = [k |-> "array", to |-> Loosely[u.to], size |-> u.size, flag |-> "none",
                        cv |-> u.cv, ref |-> u.ref] BY <2>4, LooselyParts, Zenon
    <3>2. Loosely[u].k = "array" BY <3>1
    <3>. QED BY <2>0, <3>2
  <2>. QED BY <2>1, <2>2, <2>3, <2>4, TypeParts
<1>2. T \in SUBSET Types /\ Nesting \in [Types -> Nat] BY TypesAssumption
<1>. HIDE DEF T
<1>3. T = Types BY <1>1, <1>2, RankInduction
<1>. QED BY <1>3 DEF T

LEMMA BareParts ==
  ASSUME NEW t \in Types
  PROVE  /\ t.k = "base" => Bare(Loosely[t]) = Base(t.name, {})
         /\ t.k = "ptr" /\ Loosely[t.to].k = "func" => Bare(Loosely[t]) = Loosely[t.to]
         /\ t.k = "ptr" /\ Loosely[t.to].k # "func" => Bare(Loosely[t]) = Ptr(Loosely[t.to], {})
         /\ t.k = "array" => Bare(Loosely[t]) = Array(Loosely[t.to], {}, t.size, "none")
         /\ t.k = "func" =>
              /\ Loosely[t].k = "func" /\ Bare(Loosely[t]) = Loosely[t]
              /\ Loosely[t] = Func(Loosely[t.to], [i \in DOMAIN t.params |-> Loosely[t.params[i]]], FALSE, "default")
<1>1. CASE t.k = "base"
  <2>1. Loosely[t] = [k |-> "base", name |-> t.name, cv |-> t.cv, ref |-> t.ref]
    BY <1>1, LooselyParts, TypeShape, Zenon
  <2>2. Bare([k |-> "base", name |-> t.name, cv |-> t.cv, ref |-> t.ref]) = Base(t.name, {}) BY BaseBare
  <2>. QED BY <1>1, <2>1, <2>2
<1>2. CASE t.k = "ptr"
  <2>1. Bare([k |-> "ptr", to |-> Loosely[t.to], cv |-> t.cv, ref |-> t.ref]) = Ptr(Loosely[t.to], {}) BY PtrBare
  <2>2. Loosely[t.to].k # "func" => Bare(Loosely[t]) = Ptr(Loosely[t.to], {})
    BY <1>2, <2>1, LooselyParts, Zenon
  <2>3. t.to \in Types BY <1>2, TypeParts
  <2>4. Loosely[t.to].k = "func" => Bare(Loosely[t]) = Loosely[t.to]
    BY <1>2, <2>3, LooselyParts, FunctionIsBare, Zenon
  <2>. QED BY <1>2, <2>2, <2>4
<1>3. CASE t.k = "array"
  <2>1. Bare([k |-> "array", to |-> Loosely[t.to], size |-> t.size, flag |-> "none", cv |-> t.cv, ref |-> t.ref])
        = Array(Loosely[t.to], {}, t.size, "none") BY ArrayBare
  <2>2. Bare(Loosely[t]) = Array(Loosely[t.to], {}, t.size, "none")
    BY <1>3, <2>1, LooselyParts, Zenon
  <2>. QED BY <1>3, <2>2
<1>4. CASE t.k = "func"
  <2>1. Loosely[t] = Func(Loosely[t.to], [i \in DOMAIN t.params |-> Loosely[t.params[i]]], FALSE, "default")
    BY <1>4, LooselyParts, Zenon
  <2>2. Loosely[t].k = "func" BY <2>1 DEF Func
  <2>. QED BY <1>4, <2>1, <2>2, FunctionIsBare
<1>. QED BY <1>1, <1>2, <1>3, <1>4, TypeParts

(* Types that are found the same are taken for the same. *)
FoundSame(x) == TRUE \in SameOf[x]
LEMMA SameCases ==
  ASSUME NEW a \in Types, NEW b \in Types, NEW c \in BOOLEAN, NEW r \in BOOLEAN,
         FoundSame(<<a, b, c, r>>)
  PROVE  /\ c \/ a.cv = b.cv
         /\ r \/ a.ref = b.ref
         /\ \/ a.k = "base" /\ b.k = "base" /\ a.name = b.name
            \/ a.k = "func" /\ b.k = "ptr" /\ b.to.k = "func" /\ FoundSame(<<a, b.to, FALSE, r>>)
            \/ a.k = "ptr" /\ b.k = "func" /\ a.to.k = "func" /\ FoundSame(<<a.to, b, FALSE, FALSE>>)
            \/ a.k = "ptr" /\ b.k = "ptr" /\ FoundSame(<<a.to, b.to, FALSE, FALSE>>)
            \/ a.k = "array" /\ b.k = "array" /\ a.size = b.size /\ FoundSame(<<a.to, b.to, FALSE, FALSE>>)
            \/ /\ a.k = "func" /\ b.k = "func" /\ FoundSame(<<a.to, b.to, FALSE, FALSE>>)
               /\ Len(a.params) = Len(b.params)
               /\ \A i \in DOMAIN a.params : FoundSame(<<a.params[i], b.params[i], FALSE, FALSE>>)
<1>1. TRUE \in SameStep(SameOf, <<a, b, c, r>>)
  BY ArgsParts, SameEquation DEF FoundSame
<1>2. a.k \in {"base", "ptr", "array", "func"} BY TypeParts
<1>3. ~Unlike(a, b, c, r) BY <1>1 DEF SameStep
<1>4. (c \/ a.cv = b.cv) /\ (r \/ a.ref = b.ref) BY <1>3 DEF Unlike
<1>5. CASE a.k = "base" BY <1>1, <1>3, <1>4, <1>5 DEF SameStep
<1>6. CASE a.k = "ptr" BY <1>1, <1>3, <1>4, <1>6 DEF SameStep, FoundSame
<1>7. CASE a.k = "array" BY <1>1, <1>3, <1>4, <1>7 DEF SameStep, FoundSame
<1>8. CASE a.k = "func" BY <1>1, <1>3, <1>4, <1>8 DEF SameStep, FoundSame
<1>. QED BY <1>2, <1>5, <1>6, <1>7, <1>8

SameLevel(x) ==
  /\ Bare(Loosely[x[1]]) = Bare(Loosely[x[2]])
  /\ ~x[3] /\ ~x[4] => Loosely[x[1]] = Loosely[x[2]]

LEMMA SameLevelParts ==
  ASSUME NEW a \in Types, NEW b \in Types, NEW c \in BOOLEAN, NEW r \in BOOLEAN,
         FoundSame(<<a, b, c, r>>),
         \A d, e \in Types : \A p, q \in BOOLEAN :
           Nesting[d] + Nesting[e] < Nesting[a] + Nesting[b] /\ FoundSame(<<d, e, p, q>>) => SameLevel(<<d, e, p, q>>)
  PROVE  SameLevel(<<a, b, c, r>>)
<1>1. /\ c \/ a.cv = b.cv
      /\ r \/ a.ref = b.ref
  BY SameCases
<1>2. \A t \in Types : Nesting[t] \in Nat BY TypeParts
<1>3. ASSUME NEW d \in Types, NEW e \in Types, FoundSame(<<d, e, FALSE, FALSE>>),
             Nesting[d] + Nesting[e] < Nesting[a] + Nesting[b]
      PROVE  Loosely[d] = Loosely[e]
  <2>1. SameLevel(<<d, e, FALSE, FALSE>>) BY <1>3
  <2>. QED BY <2>1 DEF SameLevel
<1>. SUFFICES /\ Bare(Loosely[a]) = Bare(Loosely[b])
              /\ ~c /\ ~r => Loosely[a] = Loosely[b]
  BY DEF SameLevel
<1>4. CASE a.k = "base" /\ b.k = "base" /\ a.name = b.name
  <2>1. Bare(Loosely[a]) = Bare(Loosely[b]) BY <1>4, BareParts
  <2>2. ~c /\ ~r => a = b BY <1>1, <1>4, TypeShape, Zenon
  <2>. QED BY <1>4, <2>1, <2>2, LooselyParts
<1>5. CASE a.k = "func" /\ b.k = "ptr" /\ b.to.k = "func" /\ FoundSame(<<a, b.to, FALSE, r>>)
  <2>1. b.to \in Types /\ Nesting[b.to] < Nesting[b] BY <1>5, TypeParts
  <2>2. Nesting[a] + Nesting[b.to] < Nesting[a] + Nesting[b] BY <1>2, <2>1
  <2>3. FALSE \in BOOLEAN OBVIOUS
  <2>4. SameLevel(<<a, b.to, FALSE, r>>) BY <1>5, <2>1, <2>2, <2>3
  <2>5. Bare(Loosely[a]) = Bare(Loosely[b.to]) BY <2>4 DEF SameLevel
  <2>6. Loosely[b.to].k = "func" /\ Bare(Loosely[b.to]) = Loosely[b.to] BY <1>5, <2>1, BareParts
  <2>7. Loosely[b] = Loosely[b.to] /\ Bare(Loosely[b]) = Loosely[b.to]
    BY <1>5, <2>6, BareParts, LooselyParts, Zenon
  <2>8. Bare(Loosely[a]) = Loosely[a] BY <1>5, BareParts
  <2>. QED BY <2>5, <2>6, <2>7, <2>8, Zenon
<1>6. CASE a.k = "ptr" /\ b.k = "func" /\ a.to.k = "func" /\ FoundSame(<<a.to, b, FALSE, FALSE>>)
  <2>1. a.to \in Types /\ Nesting[a.to] < Nesting[a] BY <1>6, TypeParts
  <2>2. Nesting[a.to] + Nesting[b] < Nesting[a] + Nesting[b] BY <1>2, <2>1
  <2>3. Loosely[a.to] = Loosely[b] BY <1>3, <1>6, <2>1, <2>2
  <2>4. Loosely[a.to].k = "func" BY <1>6, <2>1, BareParts
  <2>5. Loosely[a] = Loosely[a.to] BY <1>6, <2>4, LooselyParts, Zenon
  <2>. QED BY <2>3, <2>5
<1>7. CASE a.k = "ptr" /\ b.k = "ptr" /\ FoundSame(<<a.to, b.to, FALSE, FALSE>>)
  <2>1. /\ a.to \in Types /\ Nesting[a.to] < Nesting[a]
        /\ b.to \in Types /\ Nesting[b.to] < Nesting[b]
    BY <1>7, TypeParts
  <2>2. Nesting[a.to] + Nesting[b.to] < Nesting[a] + Nesting[b] BY <1>2, <2>1
  <2>3. Loosely[a.to] = Loosely[b.to] BY <1>3, <1>7, <2>1, <2>2
  <2>4. CASE Loosely[a.to].k = "func"
    <3>1. Loosely[a] = Loosely[a.to] /\ Loosely[b] = Loosely[b.to]
      BY <1>7, <2>3, <2>4, LooselyParts, Zenon
    <3>. QED BY <2>3, <3>1
  <2>5. CASE Loosely[a.to].k # "func"
    <3>1. Bare(Loosely[a]) = Ptr(Loosely[a.to], {}) /\ Bare(Loosely[b]) = Ptr(Loosely[b.to], {})
      BY <1>7, <2>3, <2>5, BareParts, Zenon
    <3>2. /\ Loosely[a] = [k |-> "ptr", to |-> Loosely[a.to], cv |-> a.cv, ref |-> a.ref]
          /\ Loosely[b] = [k |-> "ptr", to |-> Loosely[b.to], cv |-> b.cv, ref |-> b.ref]
      BY <1>7, <2>3, <2>5, LooselyParts, Zenon
    <3>3. ~c /\ ~r => Loosely[a] = Loosely[b] BY <1>1, <2>3, <3>2, Zenon
    <3>. QED BY <2>3, <3>1, <3>3
  <2>. QED BY <2>4, <2>5
<1>8. CASE a.k = "array" /\ b.k = "array" /\ a.size = b.size /\ FoundSame(<<a.to, b.to, FALSE, FALSE>>)
  <2>1. /\ a.to \in Types /\ Nesting[a.to] < Nesting[a]
        /\ b.to \in Types /\ Nesting[b.to] < Nesting[b]
    BY <1>8, TypeParts
  <2>2. Nesting[a.to] + Nesting[b.to] < Nesting[a] + Nesting[b] BY <1>2, <2>1
  <2>3. Loosely[a.to] = Loosely[b.to] BY <1>3, <1>8, <2>1, <2>2
  <2>4. /\ Bare(Loosely[a]) = Array(Loosely[a.to], {}, a.size, "none")
        /\ Bare(Loosely[b]) = Array(Loosely[b.to], {}, b.size, "none")
    BY <1>8, BareParts
  <2>5. /\ Loosely[a] = [k |-> "array", to |-> Loosely[a.to], size |-> a.size, flag |-> "none",
                         cv |-> a.cv, ref |-> a.ref]
        /\ Loosely[b] = [k |-> "array", to |-> Loosely[b.to], size |-> b.size, flag |-> "none",
                         cv |-> b.cv, ref |-> b.ref]
    BY <1>8, LooselyParts, Zenon
  <2>6. ~c /\ ~r => Loosely[a] = Loosely[b] BY <1>1, <1>8, <2>3, <2>5, Zenon
  <2>. QED BY <1>8, <2>3, <2>4, <2>6
<1>9. CASE /\ a.k = "func" /\ b.k = "func" /\ FoundSame(<<a.to, b.to, FALSE, FALSE>>)
           /\ Len(a.params) = Len(b.params)
           /\ \A i \in DOMAIN a.params : FoundSame(<<a.params[i], b.params[i], FALSE, FALSE>>)
  <2>1. /\ a.to \in Types /\ Nesting[a.to] < Nesting[a]
        /\ b.to \in Types /\ Nesting[b.to] < Nesting[b]
        /\ a.params \in Seq(Types) /\ b.params \in Seq(Types)
    BY <1>9, TypeParts
  <2>2. Nesting[a.to] + Nesting[b.to] < Nesting[a] + Nesting[b] BY <1>2, <2>1
  <2>3. Loosely[a.to] = Loosely[b.to] BY <1>3, <1>9, <2>1, <2>2
  <2>4. DOMAIN a.params = DOMAIN b.params BY <1>9, <2>1
  <2>5. ASSUME NEW i \in DOMAIN a.params
        PROVE  Loosely[a.params[i]] = Loosely[b.params[i]]
    <3>1. /\ a.params[i] \in Types /\ Nesting[a.params[i]] < Nesting[a]
          /\ b.params[i] \in Types /\ Nesting[b.params[i]] < Nesting[b]
      BY <1>9, <2>4, TypeParts
    <3>2. Nesting[a.params[i]] + Nesting[b.params[i]] < Nesting[a] + Nesting[b] BY <1>2, <3>1
    <3>. QED BY <1>3, <1>9, <3>1, <3>2
  <2>6. [i \in DOMAIN a.params |-> Loosely[a.params[i]]] = [i \in DOMAIN b.params |-> Loosely[b.params[i]]]
    BY <2>4, <2>5
  <2>7. Loosely[a] = Loosely[b] BY <1>9, <2>3, <2>6, BareParts
  <2>. QED BY <2>7
<1>10. \/ a.k = "base" /\ b.k = "base" /\ a.name = b.name
       \/ a.k = "func" /\ b.k = "ptr" /\ b.to.k = "func" /\ FoundSame(<<a, b.to, FALSE, r>>)
       \/ a.k = "ptr" /\ b.k = "func" /\ a.to.k = "func" /\ FoundSame(<<a.to, b, FALSE, FALSE>>)
       \/ a.k = "ptr" /\ b.k = "ptr" /\ FoundSame(<<a.to, b.to, FALSE, FALSE>>)
       \/ a.k = "array" /\ b.k = "array" /\ a.size = b.size /\ FoundSame(<<a.to, b.to, FALSE, FALSE>>)
       \/ /\ a.k = "func" /\ b.k = "func" /\ FoundSame(<<a.to, b.to, FALSE, FALSE>>)
          /\ Len(a.params) = Len(b.params)
          /\ \A i \in DOMAIN a.params : FoundSame(<<a.params[i], b.params[i], FALSE, FALSE>>)
  BY SameCases
<1>. QED BY <1>4, <1>5, <1>6, <1>7, <1>8, <1>9, <1>10, Zenon

LEMMA SameLoosely ==
  ASSUME NEW a \in Types, NEW b \in Types, NEW c \in BOOLEAN, NEW r \in BOOLEAN,
         FoundSame(<<a, b, c, r>>)
  PROVE  SameLevel(<<a, b, c, r>>)
<1>. DEFINE T == {x \in SameArgs : FoundSame(x) => SameLevel(x)}
<1>1. ASSUME NEW x \in SameArgs, \A y \in SameArgs : ArgsRank[y] < ArgsRank[x] => y \in T
      PROVE  x \in T
  <2>1. /\ x[1] \in Types /\ x[2] \in Types /\ x[3] \in BOOLEAN /\ x[4] \in BOOLEAN
        /\ x = <<x[1], x[2], x[3], x[4]>>
    BY DEF SameArgs
  <2>2. ArgsRank[x] = Nesting[x[1]] + Nesting[x[2]] BY DEF ArgsRank
  <2>3. ASSUME NEW d \in Types, NEW e \in Types, NEW p \in BOOLEAN, NEW q \in BOOLEAN,
               Nesting[d] + Nesting[e] < Nesting[x[1]] + Nesting[x[2]], FoundSame(<<d, e, p, q>>)
        PROVE  SameLevel(<<d, e, p, q>>)
    <3>1. <<d, e, p, q>> \in SameArgs /\ ArgsRank[<<d, e, p, q>>] = Nesting[d] + Nesting[e] BY <2>3, ArgsParts
    <3>2. <<d, e, p, q>> \in T BY <1>1, <2>2, <2>3, <3>1
    <3>. QED BY <2>3, <3>2, Zenon
  <2>4. FoundSame(x) => SameLevel(x)
    <3>1. SUFFICES ASSUME FoundSame(x) PROVE SameLevel(x) OBVIOUS
    <3>2. FoundSame(<<x[1], x[2], x[3], x[4]>>) BY <2>1, <3>1, Zenon
    <3>3. SameLevel(<<x[1], x[2], x[3], x[4]>>) BY <2>1, <2>3, <3>2, SameLevelParts
    <3>. QED BY <2>1, <3>3, Zenon
  <2>. QED BY <2>4
<1>2. T \in SUBSET SameArgs /\ ArgsRank \in [SameArgs -> Nat] BY ArgsParts
<1>3. <<a, b, c, r>> \in SameArgs BY ArgsParts, Zenon
<1>. HIDE DEF T
<1>4. T = SameArgs BY <1>1, <1>2, RankInduction
<1>5. <<a, b, c, r>> \in T BY <1>3, <1>4
<1>. QED BY <1>5, Zenon DEF T

-----------------------------------------------------------------------------
(* What is referred to, and what an array is taken for *)

LEMMA UnrefParts ==
  ASSUME NEW t \in Types
  PROVE  /\ Unref(t) \in Types /\ ~Unref(t).ref /\ Unref(t).k = t.k /\ Unref(t).cv = t.cv
         /\ t.k = "base" => Unref(t).name = t.name
         /\ t.k # "base" => Unref(t).to = t.to
         /\ t.k = "array" => Unref(t).size = t.size
         /\ t.k = "func" => Unref(t).params = t.params
<1>1. Unref(t) \in Types BY TypeParts
<1>2. CASE t.k = "base"
  <2>1. DOMAIN t = {"k", "name", "cv", "ref"} BY <1>2, TypeShape
  <2>. QED BY <1>1, <1>2, <2>1 DEF Unref
<1>3. CASE t.k = "ptr"
  <2>1. DOMAIN t = {"k", "to", "cv", "ref"} BY <1>3, TypeShape
  <2>. QED BY <1>1, <1>3, <2>1 DEF Unref
<1>4. CASE t.k = "array"
  <2>1. DOMAIN t = {"k", "to", "size", "flag", "cv", "ref"} BY <1>4, TypeShape
  <2>. QED BY <1>1, <1>4, <2>1 DEF Unref
<1>5. CASE t.k = "func"
  <2>1. DOMAIN t = {"k", "to", "params", "variadic", "conv", "cv", "ref"} BY <1>5, TypeShape
  <2>. QED BY <1>1, <1>5, <2>1 DEF Unref
<1>. QED BY <1>2, <1>3, <1>4, <1>5, TypeParts

LEMMA BareUnref ==
  ASSUME NEW t \in Types
  PROVE  Bare(Loosely[Unref(t)]) = Bare(Loosely[t])
<1>1. Unref(t) \in Types /\ Unref(t).k = t.k BY UnrefParts
<1>2. CASE t.k = "base"
  <2>1. Unref(t).name = t.name BY <1>2, UnrefParts
  <2>2. Bare(Loosely[t]) = Base(t.name, {}) BY <1>2, BareParts, Zenon
  <2>3. Bare(Loosely[Unref(t)]) = Base(t.name, {}) BY <1>1, <1>2, <2>1, BareParts, Zenon
  <2>. QED BY <2>2, <2>3
<1>3. CASE t.k = "ptr"
  <2>1. Unref(t).to = t.to BY <1>3, UnrefParts
  <2>. QED BY <1>1, <1>3, <2>1, BareParts
<1>4. CASE t.k = "array"
  <2>1. Unref(t).to = t.to /\ Unref(t).size = t.size BY <1>4, UnrefParts
  <2>. QED BY <1>1, <1>4, <2>1, BareParts
<1>5. CASE t.k = "func"
  <2>1. Unref(t).to = t.to /\ Unref(t).params = t.params BY <1>5, UnrefParts
  <2>2. Bare(Loosely[t]) = Func(Loosely[t.to], [i \in DOMAIN t.params |-> Loosely[t.params[i]]], FALSE, "default")
    BY <1>5, BareParts, Zenon
  <2>3. Bare(Loosely[Unref(t)])
        = Func(Loosely[t.to], [i \in DOMAIN t.params |-> Loosely[t.params[i]]], FALSE, "default")
    BY <1>1, <1>5, <2>1, BareParts, Zenon
  <2>. QED BY <2>2, <2>3
<1>. QED BY <1>2, <1>3, <1>4, <1>5, TypeParts

LEMMA AsPtrParts ==
  ASSUME NEW t \in Types, t.k = "array"
  PROVE  /\ AsPtr(t) \in Types /\ AsPtr(t).k = "ptr" /\ AsPtr(t).to = t.to
         /\ AsPtr(t).cv = t.cv /\ AsPtr(t).ref = t.ref
<1>1. AsPtr(t) \in Types BY TypesAssumption
<1>. QED BY <1>1 DEF AsPtr, Ptr

LEMMA DecayedParts ==
  ASSUME NEW t \in Types
  PROVE  /\ Decayed(t) \in Types /\ ~Decayed(t).ref /\ Decayed(t).cv = t.cv
         /\ t.k = "array" => Decayed(t).k = "ptr"
         /\ t.k # "array" => Decayed(t).k = t.k
         /\ t.k = "base" => Decayed(t).name = t.name
         /\ t.k # "base" => Decayed(t).to = t.to
<1>1. CASE t.k = "array"
  <2>1. Decayed(t) = Unref(AsPtr(t)) BY <1>1 DEF Decayed
  <2>. QED BY <1>1, <2>1, AsPtrParts, UnrefParts
<1>2. CASE t.k # "array"
  <2>1. Decayed(t) = Unref(t) BY <1>2 DEF Decayed
  <2>. QED BY <1>2, <2>1, UnrefParts
<1>. QED BY <1>1, <1>2

(* An object that a reference or pointer leads to *)
LEMMA PointsToParts ==
  ASSUME NEW t \in Types, t.ref \/ t.k \in {"ptr", "array"}
  PROVE  /\ PointsTo(t) \in Types /\ PointsTo(t).k = Target(t).k /\ PointsTo(t).cv = Target(t).cv
         /\ Target(t) \in Types /\ Bare(Loosely[PointsTo(t)]) = Bare(Loosely[Target(t)])
         /\ IsVoid(Target(t)) => IsVoid(PointsTo(t))
<1>1. CASE t.ref
  <2>1. PointsTo(t) = Unref(t) /\ Target(t) = t BY <1>1 DEF PointsTo, Target
  <2>. QED BY <2>1, UnrefParts, BareUnref DEF IsVoid
<1>2. CASE ~t.ref
  <2>1. PointsTo(t) = t.to /\ Target(t) = t.to BY <1>2 DEF PointsTo, Target
  <2>. QED BY <1>2, <2>1, PointeeParts
<1>. QED BY <1>1, <1>2

-----------------------------------------------------------------------------
(* What is pointed to *)

LEMMA PointsParts ==
  ASSUME NEW f \in Types, NEW t \in Types, f.cv \subseteq t.cv,
         \/ IsVoid(f) \/ IsVoid(t)
         \/ f.k = "func" /\ t.k = "func"
         \/ f.k = "ptr" /\ t.k = "ptr" /\ PointsAs[<<f.to, t.to>>]
         \/ Alike(f, t)
  PROVE  PointsAs[<<f, t>>]
<1>1. <<f, t>> \in Pairs BY DEF Pairs
<1>2. PointsAs[<<f, t>>] = PointsStep(PointsAs, <<f, t>>) BY <1>1, PointsEquation
<1>3. PointsStep(PointsAs, <<f, t>>) BY DEF PointsStep
<1>. QED BY <1>2, <1>3

LEMMA FoundAlike ==
  ASSUME NEW a \in Types, NEW b \in Types, NEW c \in BOOLEAN, NEW r \in BOOLEAN,
         TRUE \in Same(a, b, c, r)
  PROVE  Alike(a, b)
<1>1. FoundSame(<<a, b, c, r>>) BY DEF FoundSame, Same
<1>2. SameLevel(<<a, b, c, r>>) BY <1>1, SameLoosely
<1>. QED BY <1>2 DEF SameLevel, Alike

LEMMA ConvertsCases ==
  ASSUME NEW p \in Pointers, NEW q \in PointerLike, TRUE \in Converts[<<p, q>>]
  PROVE  /\ p.to.cv \subseteq Target(q).cv
         /\ \/ IsVoid(p.to) \/ IsVoid(Target(q))
            \/ p.to.k = "ptr" /\ Target(q).k = "ptr" /\ TRUE \in Converts[<<p.to, Target(q)>>]
            \/ Alike(p.to, Target(q))
<1>1. <<p, q>> \in ConvertsArgs BY DEF ConvertsArgs
<1>2. TRUE \in ConvertsStep(Converts, <<p, q>>) BY <1>1, ConvertsEquation
<1>3. Target(p) = p.to /\ p.to \in Types BY PointerParts
<1>4. Target(q) \in Types BY TargetParts
<1>5. p.to.cv \subseteq Target(q).cv BY <1>2, <1>3 DEF ConvertsStep, CvConvertible
<1>6. TRUE \in Same(p.to, Target(q), TRUE, TRUE) => Alike(p.to, Target(q))
  BY <1>3, <1>4, FoundAlike
<1>. QED BY <1>2, <1>3, <1>5, <1>6 DEF ConvertsStep

(* A pointer that converts to a pointer that is no reference points to     *)
(* what may be pointed to as what the other one points to.                 *)
LEMMA ConvertsPointsAs ==
  ASSUME NEW p \in Pointers
  PROVE  \A q \in PointerLike : ~q.ref /\ TRUE \in Converts[<<p, q>>] => PointsAs[<<p.to, q.to>>]
<1>. DEFINE Claim(a) == \A q \in PointerLike : ~q.ref /\ TRUE \in Converts[<<a, q>>] => PointsAs[<<a.to, q.to>>]
            T == {a \in Pointers : Claim(a)}
            rank == [a \in Pointers |-> Nesting[a]]
<1>1. ASSUME NEW a \in Pointers, \A b \in Pointers : rank[b] < rank[a] => b \in T
      PROVE  a \in T
  <2>1. ASSUME NEW q \in PointerLike, ~q.ref, TRUE \in Converts[<<a, q>>]
        PROVE  PointsAs[<<a.to, q.to>>]
    <3>1. /\ a.to \in Types /\ Nesting[a.to] < Nesting[a]
          /\ a.to.k = "ptr" => a.to \in Pointers
      BY PointerParts
    <3>2. q \in Types /\ q.k \in {"ptr", "array"} BY <2>1 DEF PointerLike
    <3>3. Target(q) = q.to BY <2>1 DEF Target
    <3>4. q.to \in Types /\ ~q.to.ref /\ (q.to.k = "ptr" => q.to \in PointerLike)
      BY <3>2, PointeeParts
    <3>5. ASSUME a.to.k = "ptr", q.to.k = "ptr", TRUE \in Converts[<<a.to, q.to>>]
          PROVE  PointsAs[<<a.to.to, q.to.to>>]
      <4>1. a.to \in T BY <1>1, <3>1, <3>5
      <4>. QED BY <3>4, <3>5, <4>1
    <3>6. /\ a.to.cv \subseteq q.to.cv
          /\ \/ IsVoid(a.to) \/ IsVoid(q.to)
             \/ a.to.k = "ptr" /\ q.to.k = "ptr" /\ TRUE \in Converts[<<a.to, q.to>>]
             \/ Alike(a.to, q.to)
      BY <2>1, <3>3, ConvertsCases
    <3>. QED BY <3>1, <3>4, <3>5, <3>6, PointsParts
  <2>. QED BY <2>1
<1>2. T \in SUBSET Pointers /\ rank \in [Pointers -> Nat]
  <2>1. \A a \in Pointers : Nesting[a] \in Nat BY PointerParts, TypeParts
  <2>. QED BY <2>1
<1>. HIDE DEF T, rank
<1>3. T = Pointers BY <1>1, <1>2, RankInduction
<1>4. p \in T BY <1>3
<1>. QED BY <1>4 DEF T

-----------------------------------------------------------------------------
(* What a conversion stores fits *)

(* Addresses are the only ones with an object. *)
LEMMA AcceptParts ==
  ASSUME NEW answers \in SUBSET BOOLEAN, NEW result, NEW r \in Accept(answers, result)
  PROVE  r = Error \/ (r = result /\ TRUE \in answers)
BY DEF Accept

LEMMA AddressSuits ==
  ASSUME NEW t \in Types, t.ref \/ t.k \in {"ptr", "array"}, NEW u,
         \/ IsRecord(u) /\ u.cv \subseteq PointsTo(t).cv
         \/ PointsAs[<<u, PointsTo(t)>>]
  PROVE  Suits(t, Address(u))
BY DEF Suits, Address

LEMMA ErrorSuits == \A t : Suits(t, Error)
BY DEF Suits, Error

LEMMA BitsSuit ==
  ASSUME NEW t, ~t.ref, t.k = "base"
  PROVE  Suits(t, BitsOf(t.name))
BY DEF Suits, BitsOf

LEMMA UnknownSuits ==
  ASSUME NEW t, t.ref \/ t.k \in {"ptr", "array"}
  PROVE  Suits(t, Null) /\ Suits(t, Unknown)
BY DEF Suits, Null, Unknown, Address

(* What is pointed to as what is referred to, or what a pointer is to *)
LEMMA PointsAsTarget ==
  ASSUME NEW u \in Types, NEW t \in Types, t.ref \/ t.k \in {"ptr", "array"},
         u.cv \subseteq Target(t).cv,
         \/ IsVoid(u) \/ IsVoid(Target(t))
         \/ u.k = "func" /\ Target(t).k = "func"
         \/ Alike(u, Target(t))
  PROVE  Suits(t, Address(u))
<1>1. /\ PointsTo(t) \in Types /\ PointsTo(t).k = Target(t).k /\ PointsTo(t).cv = Target(t).cv
      /\ Bare(Loosely[PointsTo(t)]) = Bare(Loosely[Target(t)])
      /\ IsVoid(Target(t)) => IsVoid(PointsTo(t))
  BY PointsToParts
<1>2. Alike(u, Target(t)) => Alike(u, PointsTo(t)) BY <1>1 DEF Alike
<1>3. PointsAs[<<u, PointsTo(t)>>] BY <1>1, <1>2, PointsParts
<1>. QED BY <1>3, AddressSuits

LEMMA ReferentFits ==
  ASSUME NEW cd \in Types, NEW t \in Types, t.ref, NEW r \in FromReferent(cd, t)
  PROVE  Suits(t, r)
<1>1. CASE r = Error BY <1>1, ErrorSuits
<1>2. CASE r # Error
  <2>1. CvConvertible(cd, t) /\ r \in Accept(Same(cd, t, TRUE, TRUE), Address(cd))
    BY <1>2 DEF FromReferent
  <2>2. Same(cd, t, TRUE, TRUE) \in SUBSET BOOLEAN BY SameIsBoolean
  <2>3. r = Address(cd) /\ TRUE \in Same(cd, t, TRUE, TRUE) BY <1>2, <2>1, <2>2, AcceptParts
  <2>4. Alike(cd, t) BY <2>3, FoundAlike
  <2>5. Target(t) = t BY DEF Target
  <2>6. Suits(t, Address(cd)) BY <2>1, <2>4, <2>5, PointsAsTarget DEF CvConvertible
  <2>. QED BY <2>3, <2>6
<1>. QED BY <1>1, <1>2

LEMMA PtrFits ==
  ASSUME NEW cd \in Pointers, NEW t \in Types, NEW rule \in {"conv", "pass"}, NEW r \in FromPtr(cd, t, rule),
         ~(t.ref /\ t.k = "ptr" /\ cd.to.k = "ptr")
  PROVE  Suits(t, r)
<1>. DEFINE pointer == t.ref \/ t.k = "ptr" \/ (t.k = "array" /\ rule = "pass")
            function == cd.to.k = "func" /\ FuncConvertible(cd.to, Target(t))
<1>0. cd.to \in Types /\ cd \in Types /\ (cd.to.k = "func" => cd.to.cv = {})
  <2>1. cd.to \in Types BY PointerParts
  <2>. QED BY <2>1, PointerParts, TypeShape
<1>1. CASE ~pointer
  <2>1. r \in Accept({FALSE}, Address(cd.to)) BY <1>1 DEF FromPtr
  <2>. QED BY <2>1, ErrorSuits DEF Accept
<1>2. CASE pointer /\ Target(t).k = "func"
  <2>1. r \in Accept({function}, Address(cd.to)) BY <1>2 DEF FromPtr
  <2>2. CASE r = Error BY <2>2, ErrorSuits
  <2>3. CASE r # Error
    <3>1. r = Address(cd.to) /\ cd.to.k = "func" BY <2>1, <2>3 DEF Accept
    <3>2. Suits(t, Address(cd.to)) BY <1>0, <1>2, <3>1, PointsAsTarget
    <3>. QED BY <3>1, <3>2
  <2>. QED BY <2>2, <2>3
<1>3. CASE pointer /\ Target(t).k # "func"
  <2>1. r \in Accept(Converts[<<cd, t>>], Address(cd.to)) BY <1>3 DEF FromPtr, PtrConvertible
  <2>2. t \in PointerLike /\ <<cd, t>> \in ConvertsArgs BY <1>3 DEF PointerLike, ConvertsArgs
  <2>3. Converts[<<cd, t>>] \in SUBSET BOOLEAN BY <2>2, ConvertsEquation
  <2>4. CASE r = Error BY <2>4, ErrorSuits
  <2>5. CASE r # Error
    <3>1. r = Address(cd.to) /\ TRUE \in Converts[<<cd, t>>] BY <2>1, <2>3, <2>5, AcceptParts
    <3>2. CASE t.ref
      <4>1. Target(t) = t BY <3>2 DEF Target
      <4>2. ~(cd.to.k = "ptr" /\ Target(t).k = "ptr") BY <3>2, <4>1
      <4>3. cd.to.cv \subseteq Target(t).cv /\ (IsVoid(cd.to) \/ IsVoid(Target(t)) \/ Alike(cd.to, Target(t)))
        BY <2>2, <3>1, <4>2, ConvertsCases
      <4>4. Suits(t, Address(cd.to)) BY <1>0, <3>2, <4>3, PointsAsTarget
      <4>. QED BY <3>1, <4>4
    <3>3. CASE ~t.ref
      <4>1. PointsAs[<<cd.to, t.to>>] BY <2>2, <3>1, <3>3, ConvertsPointsAs
      <4>2. PointsTo(t) = t.to BY <3>3 DEF PointsTo
      <4>3. Suits(t, Address(cd.to)) BY <1>3, <4>1, <4>2, AddressSuits
      <4>. QED BY <3>1, <4>3
    <3>. QED BY <3>2, <3>3
  <2>. QED BY <2>4, <2>5
<1>. QED BY <1>1, <1>2, <1>3

LEMMA FuncFits ==
  ASSUME NEW cd \in Types, cd.k = "func", NEW t \in Types, NEW rule \in {"conv", "pass"},
         NEW r \in FromFunc(cd, t, rule)
  PROVE  Suits(t, r)
<1>1. CASE r = Error BY <1>1, ErrorSuits
<1>2. CASE r # Error
  <2>1. r = Address(cd) /\ (t.k = "ptr" \/ t.ref) /\ Target(t).k = "func"
    BY <1>2 DEF FromFunc, Accept
  <2>2. cd.cv = {} BY TypeShape
  <2>3. Suits(t, Address(cd)) BY <2>1, <2>2, PointsAsTarget
  <2>. QED BY <2>1, <2>3
<1>. QED BY <1>1, <1>2

LEMMA RecordFits ==
  ASSUME NEW cd \in Types, IsRecord(cd), NEW t \in Types, NEW rule \in {"conv", "pass"},
         NEW r \in FromRecord(cd, t, rule)
  PROVE  Suits(t, r)
<1>1. CASE r = Error BY <1>1, ErrorSuits
<1>2. CASE r # Error /\ t.k # "ptr" /\ ~t.ref
  <2>1. r \in Accept(Same(cd, t, TRUE, FALSE), BitsOf(cd.name)) BY <1>2 DEF FromRecord
  <2>2. Same(cd, t, TRUE, FALSE) \in SUBSET BOOLEAN BY SameIsBoolean
  <2>3. r = BitsOf(cd.name) /\ TRUE \in Same(cd, t, TRUE, FALSE) BY <1>2, <2>1, <2>2, AcceptParts
  <2>4. FoundSame(<<cd, t, TRUE, FALSE>>) BY <2>3 DEF FoundSame, Same
  <2>5. cd.k = "base" BY DEF IsRecord
  <2>6. t.k = "base" /\ cd.name = t.name BY <2>4, <2>5, SameCases
  <2>. QED BY <1>2, <2>3, <2>6, BitsSuit
<1>3. CASE r # Error /\ (t.k = "ptr" \/ t.ref)
  <2>1. r = Address(cd) /\ cd.cv \subseteq Target(t).cv
    BY <1>3 DEF FromRecord, Accept, CvConvertible
  <2>2. PointsTo(t).cv = Target(t).cv BY <1>3, PointsToParts
  <2>. QED BY <1>3, <2>1, <2>2, AddressSuits
<1>. QED BY <1>1, <1>2, <1>3

LEMMA NumberFits ==
  ASSUME NEW cd, NEW t \in Types, NEW rule \in {"conv", "pass"}, NEW r \in FromNumber(cd, t, rule)
  PROVE  Suits(t, r)
<1>1. CASE r = Error BY <1>1, ErrorSuits
<1>2. CASE r # Error
  <2>1. ~t.ref /\ t.k = "base" /\ r = BitsOf(t.name)
    BY <1>2 DEF FromNumber, Accept, IsNumeric
  <2>. QED BY <2>1, BitsSuit
<1>. QED BY <1>1, <1>2

LEMMA LuaNumberFits ==
  ASSUME NEW t \in Types, ~t.ref, NEW rule \in {"conv", "pass"}
  PROVE  Suits(t, FromLuaNumber(t, rule))
<1>1. CASE IsNumeric(t)
  <2>1. FromLuaNumber(t, rule) = BitsOf(t.name) BY <1>1 DEF FromLuaNumber
  <2>2. t.k = "base" BY <1>1 DEF IsNumeric
  <2>. QED BY <2>1, <2>2, BitsSuit
<1>2. CASE ~IsNumeric(t)
  <2>1. FromLuaNumber(t, rule) = Error BY <1>2 DEF FromLuaNumber
  <2>. QED BY <2>1, ErrorSuits
<1>. QED BY <1>1, <1>2

(* A string is taken for one of constant characters, or of anything. *)
LEMMA StringFits ==
  ASSUME NEW t \in Types, ~t.ref, t.k = "ptr", t.to.k = "base", t.to.name \in {"char", "void"},
         "const" \in t.to.cv
  PROVE  Suits(t, Address(ConstChar))
<1>1. ConstChar \in Types /\ t.to \in Types BY TypesAssumption, TypeParts
<1>2. Target(t) = t.to BY DEF Target
<1>3. ConstChar.k = "base" /\ ConstChar.name = "char" /\ ConstChar.cv = {"const"} BY DEF ConstChar, Base
<1>4. t.to.name = "char" => Alike(ConstChar, t.to)
  <2>1. Bare(Loosely[ConstChar]) = Base("char", {}) BY <1>1, <1>3, BareParts, Zenon
  <2>2. Bare(Loosely[t.to]) = Base(t.to.name, {}) BY <1>1, BareParts, Zenon
  <2>. QED BY <2>1, <2>2 DEF Alike
<1>5. ConstChar.cv \subseteq Target(t).cv BY <1>2, <1>3
<1>6. IsVoid(Target(t)) \/ Alike(ConstChar, Target(t)) BY <1>2, <1>4 DEF IsVoid
<1>. QED BY <1>1, <1>5, <1>6, PointsAsTarget

LEMMA LuaPointerFits ==
  ASSUME NEW t \in Types, NEW kd \in {"nil", "string", "file", "userdata", "lightuserdata"},
         kd = "nil" \/ ~t.ref, NEW rule \in {"conv", "pass"}
  PROVE  Suits(t, FromLuaPointer(kd, t, rule))
<1>1. CASE kd = "nil"
  <2>1. CASE t.ref \/ t.k = "ptr"
    <3>1. FromLuaPointer(kd, t, rule) = Null BY <1>1, <2>1 DEF FromLuaPointer
    <3>. QED BY <2>1, <3>1, UnknownSuits
  <2>2. CASE ~(t.ref \/ t.k = "ptr")
    <3>1. FromLuaPointer(kd, t, rule) = Error BY <1>1, <2>2 DEF FromLuaPointer
    <3>. QED BY <3>1, ErrorSuits
  <2>. QED BY <2>1, <2>2
<1>2. CASE kd = "string"
  <2>. DEFINE takes == t.k = "ptr" /\ t.to.k = "base" /\ t.to.name \in {"char", "void"} /\ "const" \in t.to.cv
  <2>1. CASE takes
    <3>1. FromLuaPointer(kd, t, rule) = Address(ConstChar) BY <1>2, <2>1 DEF FromLuaPointer
    <3>. QED BY <1>2, <2>1, <3>1, StringFits
  <2>2. CASE ~takes
    <3>1. FromLuaPointer(kd, t, rule) = Error BY <1>2, <2>2 DEF FromLuaPointer
    <3>. QED BY <3>1, ErrorSuits
  <2>. QED BY <2>1, <2>2
<1>3. CASE kd \in {"file", "userdata", "lightuserdata"}
  <2>1. CASE t.k = "ptr"
    <3>1. FromLuaPointer(kd, t, rule) \in {Error, Unknown} BY <1>3 DEF FromLuaPointer
    <3>. QED BY <2>1, <3>1, ErrorSuits, UnknownSuits
  <2>2. CASE t.k # "ptr"
    <3>1. FromLuaPointer(kd, t, rule) = Error BY <1>3, <2>2 DEF FromLuaPointer
    <3>. QED BY <3>1, ErrorSuits
  <2>. QED BY <2>1, <2>2
<1>. QED BY <1>1, <1>2, <1>3

(* A value of Lua is of one of its kinds, or a cdata of a type. *)
LEMMA LuaParts ==
  ASSUME NEW v \in LuaValues
  PROVE  /\ v.lua \in LuaKinds \cup {"cdata"}
         /\ v.lua = "cdata" => v.type \in Types
BY DEF LuaValues, Lua, Cdata, LuaKinds

LEMMA CdataFits ==
  ASSUME NEW u \in Types, NEW t \in Types, NEW rule \in {"conv", "pass"}, NEW r \in FromCdata(u, t, rule),
         ~(t.ref /\ rule # "pass" /\ t.k = "ptr" /\ u.k \in {"ptr", "array"} /\ u.to.k = "ptr")
  PROVE  Suits(t, r)
<1>. DEFINE cd == Decayed(u)
<1>0. /\ cd \in Types /\ ~cd.ref
      /\ cd.k = "ptr" => u.k \in {"ptr", "array"} /\ cd.to = u.to
  <2>1. u.k \in {"base", "ptr", "array", "func"} BY TypeParts
  <2>. QED BY <2>1, DecayedParts
<1>1. CASE rule = "pass" /\ t.ref
  <2>1. r \in FromReferent(cd, t) BY <1>1 DEF FromCdata
  <2>. HIDE DEF cd
  <2>. QED BY <1>0, <1>1, <2>1, ReferentFits
<1>2. CASE ~(rule = "pass" /\ t.ref)
  <2>1. r \in CASE cd.k = "ptr"  -> FromPtr(cd, t, rule)
                [] cd.k = "func" -> FromFunc(cd, t, rule)
                [] IsRecord(cd)  -> FromRecord(cd, t, rule)
                [] IsNumeric(cd) -> FromNumber(cd, t, rule)
                [] OTHER         -> {Error}
    BY <1>2, Zenon DEF FromCdata
  <2>. HIDE DEF cd
  <2>2. CASE cd.k = "ptr"
    <3>1. r \in FromPtr(cd, t, rule) BY <2>1, <2>2 DEF IsRecord, IsNumeric
    <3>2. cd \in Pointers BY <1>0, <2>2 DEF Pointers
    <3>3. ~(t.ref /\ t.k = "ptr" /\ cd.to.k = "ptr") BY <1>0, <1>2, <2>2
    <3>. QED BY <3>1, <3>2, <3>3, PtrFits
  <2>3. CASE cd.k = "func"
    <3>1. r \in FromFunc(cd, t, rule) BY <2>1, <2>3 DEF IsRecord, IsNumeric
    <3>. QED BY <1>0, <2>3, <3>1, FuncFits
  <2>4. CASE IsRecord(cd)
    <3>1. cd.k = "base" /\ ~IsNumeric(cd) BY <2>4 DEF IsRecord, IsNumeric, Records, Numeric, Integral
    <3>2. r \in FromRecord(cd, t, rule) BY <2>1, <2>4, <3>1
    <3>. QED BY <1>0, <2>4, <3>2, RecordFits
  <2>5. CASE IsNumeric(cd)
    <3>1. cd.k = "base" /\ ~IsRecord(cd) BY <2>5 DEF IsRecord, IsNumeric, Records, Numeric, Integral
    <3>2. r \in FromNumber(cd, t, rule) BY <2>1, <2>5, <3>1
    <3>. QED BY <3>2, NumberFits
  <2>6. CASE cd.k \notin {"ptr", "func"} /\ ~IsRecord(cd) /\ ~IsNumeric(cd)
    <3>1. r = Error BY <2>1, <2>6
    <3>. QED BY <3>1, ErrorSuits
  <2>. QED BY <2>2, <2>3, <2>4, <2>5, <2>6
<1>. QED BY <1>1, <1>2

LEMMA FromLuaFits ==
  ASSUME NEW v \in LuaValues, NEW t \in Types, NEW rule \in {"conv", "pass"}, NEW r \in FromLua(v, t, rule),
         ~Misread(v, t, rule)
  PROVE  Suits(t, r)
<1>0. v.lua \in LuaKinds \cup {"cdata"} /\ (v.lua = "cdata" => v.type \in Types) BY LuaParts
<1>1. CASE Refused(t, rule)
  <2>1. r = Error BY <1>1 DEF FromLua
  <2>. QED BY <2>1, ErrorSuits
<1>2. CASE ~Refused(t, rule) /\ v.lua = "cdata"
  <2>1. r \in FromCdata(v.type, t, rule) BY <1>2 DEF FromLua
  <2>2. ~(t.ref /\ rule # "pass" /\ t.k = "ptr" /\ v.type.k \in {"ptr", "array"} /\ v.type.to.k = "ptr")
    BY <1>2 DEF Misread
  <2>. QED BY <1>0, <1>2, <2>1, <2>2, CdataFits
<1>3. CASE ~Refused(t, rule) /\ v.lua \in {"number", "boolean"}
  <2>1. r = FromLuaNumber(t, rule) BY <1>3 DEF FromLua
  <2>2. ~t.ref BY <1>3 DEF Misread
  <2>. QED BY <2>1, <2>2, LuaNumberFits
<1>4. CASE ~Refused(t, rule) /\ v.lua = "function"
  <2>1. r = IF Callable(t) THEN Closure ELSE Error BY <1>4 DEF FromLua
  <2>2. Callable(t) => Suits(t, Closure) BY DEF Suits, Closure
  <2>. QED BY <2>1, <2>2, ErrorSuits
<1>5. CASE ~Refused(t, rule) /\ v.lua = "table"
  <2>1. r = Error BY <1>5 DEF FromLua
  <2>. QED BY <2>1, ErrorSuits
<1>6. CASE ~Refused(t, rule) /\ v.lua \in {"nil", "string", "file", "userdata", "lightuserdata"}
  <2>1. r = FromLuaPointer(v.lua, t, rule) BY <1>6 DEF FromLua
  <2>2. v.lua = "nil" \/ ~t.ref BY <1>6 DEF Misread
  <2>. QED BY <1>6, <2>1, <2>2, LuaPointerFits
<1>. QED BY <1>0, <1>1, <1>2, <1>3, <1>4, <1>5, <1>6 DEF LuaKinds

(* What is copied is alike, or both are bytes. *)
LEMMA CopyFits ==
  ASSUME NEW v \in LuaValues, NEW t \in Types, "copy" \in Aggregate(t, v)
  PROVE  Suits(t, [gives |-> "copy", of |-> v.type])
<1>. DEFINE bytes == OfBytes(v.type) /\ OfBytes(t)
<1>1. v.lua = "cdata" => v.type \in Types BY LuaParts
<1>2. \/ v.lua = "cdata" /\ TRUE \in Same(v.type, t, TRUE, TRUE)
      \/ bytes
  BY DEF Aggregate, OfBytes
<1>3. Alike(v.type, t) \/ bytes BY <1>1, <1>2, FoundAlike
<1>. QED BY <1>3 DEF Suits

LEMMA StoreFits ==
  ASSUME NEW v \in LuaValues, NEW t \in Types, NEW r \in Store(t, v), ~Misread(v, t, "store")
  PROVE  Suits(t, r)
<1>1. CASE "const" \in t.cv
  <2>1. r = Error BY <1>1 DEF Store
  <2>. QED BY <2>1, ErrorSuits
<1>2. CASE "const" \notin t.cv
  <2>1. PICK how \in Aggregate(t, v) :
          r \in IF how = "plain" THEN FromLua(v, t, "conv") ELSE {[gives |-> how, of |-> v.type]}
    BY <1>2 DEF Store
  <2>2. CASE how = "plain"
    <3>1. ~Misread(v, t, "conv") BY DEF Misread
    <3>. QED BY <2>1, <2>2, <3>1, FromLuaFits
  <2>3. CASE how # "plain"
    <3>1. r = [gives |-> how, of |-> v.type] BY <2>1, <2>3
    <3>2. how \in {"copy", "string", "elements", "undefined"} BY <2>1, <2>3 DEF Aggregate
    <3>3. CASE how = "copy" BY <2>1, <3>1, <3>3, CopyFits
    <3>4. CASE how # "copy"
      <4>1. r.gives = how BY <3>1
      <4>. QED BY <3>2, <3>4, <4>1 DEF Suits
    <3>. QED BY <3>3, <3>4
  <2>. QED BY <2>2, <2>3
<1>. QED BY <1>1, <1>2

-----------------------------------------------------------------------------
(* What is read of an object is a value of Lua. *)

LEMMA UnrefIdle ==
  ASSUME NEW t \in Types, ~t.ref
  PROVE  Unref(t) = t
<1>1. t = [x \in DOMAIN t |-> t[x]] BY TypeShape, TypeParts
<1>2. t.ref = FALSE BY TypeShape
<1>3. Unref(t) = [x \in DOMAIN Unref(t) |-> Unref(t)[x]] /\ DOMAIN Unref(t) = DOMAIN t BY DEF Unref
<1>4. \A x \in DOMAIN t : Unref(t)[x] = t[x] BY <1>2 DEF Unref
<1>. QED BY <1>1, <1>3, <1>4, SameFields

LEMMA ReadIsValue ==
  ASSUME NEW t \in Types, NEW rule \in {"conv", "pass"}
  PROVE  ~t.ref => ReadValue(t, rule) \in LuaValues
<1>. SUFFICES ASSUME ~t.ref PROVE ReadValue(t, rule) \in LuaValues OBVIOUS
<1>1. \A u \in Types : Cdata(u) \in LuaValues BY DEF LuaValues
<1>2. Lua("boolean") \in LuaValues /\ Lua("number") \in LuaValues BY DEF LuaValues, LuaKinds
<1>3. ASSUME NEW u \in Types, u.k = "func", ~u.ref PROVE Ptr(u, {}) \in Types
  <2>1. Ptr(Unref(u), {}) \in Types BY <1>3, TypesAssumption
  <2>2. Unref(u) = u BY <1>3, UnrefIdle
  <2>. QED BY <2>1, <2>2
<1>4. CASE t.k = "func"
  <2>1. ReadValue(t, rule) = Cdata(Ptr(t, {})) BY <1>4 DEF ReadValue, IsRecord
  <2>. QED BY <1>1, <1>3, <1>4, <2>1
<1>5. CASE t.k = "ptr"
  <2>1. ReadValue(t, rule) = Cdata(IF t.to.k = "func" THEN Ptr(t.to, {}) ELSE t) BY <1>5 DEF ReadValue, IsRecord
  <2>2. t.to \in Types /\ ~t.to.ref BY <1>5, PointeeParts
  <2>. QED BY <1>1, <1>3, <2>1, <2>2
<1>6. CASE t.k = "array"
  <2>1. ReadValue(t, rule) = Cdata(IF rule = "pass" THEN AsPtr(t) ELSE AddRef(t)) BY <1>6 DEF ReadValue, IsRecord
  <2>2. AsPtr(t) \in Types /\ AddRef(t) \in Types BY <1>6, TypesAssumption
  <2>. QED BY <1>1, <2>1, <2>2
<1>7. CASE t.k = "base" /\ IsRecord(t)
  <2>1. ReadValue(t, rule) = Cdata(IF rule = "conv" THEN AddRef(t) ELSE t) BY <1>7 DEF ReadValue
  <2>2. AddRef(t) \in Types BY <1>7, TypesAssumption
  <2>. QED BY <1>1, <2>1, <2>2
<1>8. CASE t.k = "base" /\ ~IsRecord(t)
  <2>1. ReadValue(t, rule) \in {Lua("boolean"), Cdata(t), Lua("number")} BY <1>8 DEF ReadValue
  <2>. QED BY <1>1, <1>2, <2>1
<1>. QED BY <1>4, <1>5, <1>6, <1>7, <1>8, TypeParts

LEMMA ToLuaIsValue ==
  ASSUME NEW t \in Types, NEW rule \in {"conv", "pass"}
  PROVE  ToLua(t, rule) \in LuaValues
<1>1. \A u \in Types : Cdata(u) \in LuaValues BY DEF LuaValues
<1>2. Unref(t) \in Types /\ ~Unref(t).ref BY UnrefParts
<1>3. CASE ~t.ref BY <1>3, ReadIsValue DEF ToLua
<1>4. CASE t.ref /\ t.k = "func"
  <2>1. Ptr(Unref(t), {}) \in Types BY <1>4, TypesAssumption
  <2>. QED BY <1>1, <1>2, <1>4, <2>1 DEF ToLua
<1>5. CASE t.ref /\ t.k # "func" /\ rule = "conv" BY <1>2, <1>5, ReadIsValue DEF ToLua
<1>6. CASE t.ref /\ t.k # "func" /\ rule # "conv" BY <1>1, <1>6 DEF ToLua
<1>. QED BY <1>3, <1>4, <1>5, <1>6

-----------------------------------------------------------------------------
(* What is proved to be preserved *)
ConversionInv == value \in LuaValues /\ ConversionsFit

(***************************************************************************)
(* Whatever values a program makes or reads, and whatever it converts or   *)
(* assigns them to, what is stored is what its place is to hold: no        *)
(* address is taken for one of an object of another type or with fewer     *)
(* qualifiers, whatever the types are and however deeply they are nested,  *)
(* with the exceptions that ConversionsFit names. (from_lua)               *)
(***************************************************************************)
THEOREM ConversionsAlwaysFit == ConversionSpec => []ConversionsFit
<1>1. ConversionInit => ConversionInv
  <2>1. Lua("nil") \in LuaValues BY DEF LuaValues, LuaKinds
  <2>2. Suits(Nowhere.type, Error) BY ErrorSuits
  <2>. QED BY <2>1, <2>2 DEF ConversionInit, ConversionInv, ConversionsFit, Nowhere
<1>2. ConversionInv /\ [ConversionNext]_conversionVars => ConversionInv'
  <2>. SUFFICES ASSUME ConversionInv, [ConversionNext]_conversionVars PROVE ConversionInv' OBVIOUS
  <2>1. value \in LuaValues BY DEF ConversionInv
  <2>2. place' = Nowhere => ConversionsFit'
    <3>1. Suits(Nowhere.type, Error) BY ErrorSuits
    <3>. QED BY <3>1 DEF ConversionsFit, Nowhere
  <2>3. ASSUME NEW v \in LuaValues, Make(v) PROVE ConversionInv'
    BY <2>2, <2>3 DEF Make, ConversionInv
  <2>4. ASSUME NEW t \in Types, NEW rule \in {"conv", "pass"}, Read(t, rule) PROVE ConversionInv'
    BY <2>2, <2>4, ToLuaIsValue DEF Read, ConversionInv
  <2>5. ASSUME NEW t \in Types, NEW rule \in {"conv", "pass", "cast"}, Convert(t, rule) PROVE ConversionInv'
    <3>1. PICK r \in FromLua(value, t, rule) :
            place' = [type |-> t, rule |-> rule, holds |-> r] /\ value' = value
      BY <2>5 DEF Convert
    <3>2. rule # "cast" => Misread(value, t, rule) \/ Suits(t, r)
      <4>1. rule # "cast" => rule \in {"conv", "pass"} OBVIOUS
      <4>. QED BY <2>1, <4>1, FromLuaFits
    <3>3. place'.rule = rule /\ place'.type = t /\ place'.holds = r BY <3>1
    <3>. QED BY <2>1, <3>1, <3>2, <3>3 DEF ConversionInv, ConversionsFit
  <2>6. ASSUME NEW t \in Types, AssignTo(t) PROVE ConversionInv'
    <3>1. PICK r \in Store(t, value) :
            place' = [type |-> t, rule |-> "store", holds |-> r] /\ value' = value
      BY <2>6 DEF AssignTo
    <3>2. Misread(value, t, "store") \/ Suits(t, r) BY <2>1, StoreFits
    <3>3. place'.rule = "store" /\ place'.type = t /\ place'.holds = r BY <3>1
    <3>. QED BY <2>1, <3>1, <3>2, <3>3 DEF ConversionInv, ConversionsFit
  <2>7. CASE UNCHANGED conversionVars
    BY <2>7 DEF conversionVars, ConversionInv, ConversionsFit
  <2>. QED BY <2>3, <2>4, <2>5, <2>6, <2>7 DEF ConversionNext
<1>3. ConversionInv => ConversionsFit BY DEF ConversionInv
<1>. QED BY <1>1, <1>2, <1>3, PTL DEF ConversionSpec

-----------------------------------------------------------------------------
(* What is read is taken back *)

(* A type that leads to no function is the same as itself, and what it is  *)
(* made of is such a type.                                                 *)
Plain(t) == ~LeadsToFunction[t]

LEMMA PlainParts ==
  ASSUME NEW t \in Types, Plain(t)
  PROVE  t.k # "func" /\ (t.k # "base" => Plain(t.to) /\ t.to.k # "func")
<1>1. t.k # "func" /\ (t.k # "base" => ~LeadsToFunction[t.to]) BY LeadsEquation DEF Plain
<1>2. t.k # "base" => t.to \in Types BY TypeParts
<1>. QED BY <1>1, <1>2, LeadsEquation DEF Plain

MadeOfSame(a) == a.k = "base" \/ Same(a.to, a.to, FALSE, FALSE) = {TRUE}
LEMMA SameStepItself ==
  ASSUME NEW a \in Types, NEW b \in Types, NEW c \in BOOLEAN, NEW r \in BOOLEAN,
         Unref(a) = Unref(b), Plain(a), ~Unlike(a, b, c, r), MadeOfSame(a)
  PROVE  Same(a, b, c, r) = {TRUE}
<1>1. Same(a, b, c, r) = SameStep(SameOf, <<a, b, c, r>>) BY ArgsParts, SameEquation DEF Same
<1>2. /\ a.k = b.k
      /\ a.k = "base" => a.name = b.name
      /\ a.k # "base" => a.to = b.to
      /\ a.k = "array" => a.size = b.size
  <2>1. a.k = b.k BY UnrefParts
  <2>2. CASE a.k = "base" BY <2>1, <2>2, UnrefParts
  <2>3. CASE a.k = "array" BY <2>1, <2>3, UnrefParts
  <2>4. CASE a.k \notin {"base", "array"} BY <2>1, <2>4, UnrefParts
  <2>. QED BY <2>1, <2>2, <2>3, <2>4
<1>3. a.k # "func" BY PlainParts
<1>4. CASE a.k = "base" BY <1>1, <1>2, <1>4 DEF SameStep
<1>5. CASE a.k # "base"
  <2>1. SameOf[<<a.to, b.to, FALSE, FALSE>>] = {TRUE} BY <1>2, <1>5 DEF Same, MadeOfSame
  <2>. QED BY <1>1, <1>2, <1>3, <1>5, <2>1 DEF SameStep
<1>. QED BY <1>4, <1>5

LEMMA SameItself ==
  ASSUME NEW t \in Types, Plain(t)
  PROVE  Same(t, t, FALSE, FALSE) = {TRUE}
<1>. DEFINE T == {u \in Types : Plain(u) => Same(u, u, FALSE, FALSE) = {TRUE}}
<1>1. ASSUME NEW u \in Types, \A w \in Types : Nesting[w] < Nesting[u] => w \in T
      PROVE  u \in T
  <2>1. ASSUME Plain(u) PROVE Same(u, u, FALSE, FALSE) = {TRUE}
    <3>1. ~Unlike(u, u, FALSE, FALSE) BY DEF Unlike
    <3>2. CASE u.k # "base"
      <4>1. u.to \in Types /\ Nesting[u.to] < Nesting[u] BY <3>2, TypeParts
      <4>2. Plain(u.to) BY <2>1, <3>2, PlainParts
      <4>3. Same(u.to, u.to, FALSE, FALSE) = {TRUE} BY <1>1, <4>1, <4>2
      <4>4. MadeOfSame(u) BY <4>3 DEF MadeOfSame
      <4>. QED BY <2>1, <3>1, <4>4, SameStepItself
    <3>3. CASE u.k = "base"
      <4>1. MadeOfSame(u) BY <3>3 DEF MadeOfSame
      <4>. QED BY <2>1, <3>1, <4>1, SameStepItself
    <3>. QED BY <3>2, <3>3
  <2>. QED BY <2>1
<1>2. T \in SUBSET Types /\ Nesting \in [Types -> Nat] BY TypesAssumption
<1>. HIDE DEF T
<1>3. T = Types BY <1>1, <1>2, RankInduction
<1>4. t \in T BY <1>3
<1>. QED BY <1>4 DEF T

(* ... and as a reference to it, if references are not told apart. *)
LEMMA SameReferent ==
  ASSUME NEW a \in Types, NEW b \in Types, NEW c \in BOOLEAN, NEW r \in BOOLEAN,
         Unref(a) = Unref(b), Plain(a), r \/ a.ref = b.ref
  PROVE  Same(a, b, c, r) = {TRUE}
<1>1. a.cv = b.cv BY UnrefParts
<1>2. ~Unlike(a, b, c, r) BY <1>1 DEF Unlike
<1>3. MadeOfSame(a)
  <2>. SUFFICES ASSUME a.k # "base" PROVE Same(a.to, a.to, FALSE, FALSE) = {TRUE} BY DEF MadeOfSame
  <2>1. a.to \in Types BY TypeParts
  <2>2. Plain(a.to) BY PlainParts
  <2>. QED BY <2>1, <2>2, SameItself
<1>. QED BY <1>2, <1>3, SameStepItself

(* A pointer converts to one to the same object. *)
LEMMA ConvertsItself ==
  ASSUME NEW p \in Pointers, Plain(p)
  PROVE  \A q \in PointerLike : ~q.ref /\ q.to = p.to => Converts[<<p, q>>] = {TRUE}
<1>. DEFINE Claim(a) == Plain(a) =>
              \A q \in PointerLike : ~q.ref /\ q.to = a.to => Converts[<<a, q>>] = {TRUE}
            T == {a \in Pointers : Claim(a)}
            rank == [a \in Pointers |-> Nesting[a]]
<1>1. ASSUME NEW a \in Pointers, \A b \in Pointers : rank[b] < rank[a] => b \in T
      PROVE  a \in T
  <2>1. ASSUME Plain(a), NEW q \in PointerLike, ~q.ref, q.to = a.to
        PROVE  Converts[<<a, q>>] = {TRUE}
    <3>1. /\ a \in Types /\ a.k = "ptr" /\ Target(a) = a.to /\ a.to \in Types /\ Nesting[a.to] < Nesting[a]
          /\ ~a.to.ref /\ a.to.k = "ptr" => a.to \in Pointers
      BY PointerParts DEF Pointers
    <3>2. Target(q) = a.to BY <2>1 DEF Target
    <3>3. Plain(a.to) BY <2>1, <3>1, PlainParts
    <3>4. <<a, q>> \in ConvertsArgs BY DEF ConvertsArgs
    <3>5. Converts[<<a, q>>] = ConvertsStep(Converts, <<a, q>>) BY <3>4, ConvertsEquation
    <3>6. Same(a.to, a.to, TRUE, TRUE) = {TRUE} BY <3>1, <3>3, SameReferent
    <3>7. ASSUME a.to.k = "ptr" PROVE Converts[<<a.to, a.to>>] = {TRUE}
      <4>1. a.to \in Pointers BY <3>7, PointerParts
      <4>2. a.to \in PointerLike /\ ~a.to.ref BY <4>1, PointerParts
      <4>3. a.to \in T BY <1>1, <3>1, <4>1
      <4>. QED BY <3>3, <4>2, <4>3
    <3>8. CvConvertible(a.to, a.to) BY DEF CvConvertible
    <3>. QED BY <3>1, <3>2, <3>5, <3>6, <3>7, <3>8 DEF ConvertsStep
  <2>. QED BY <2>1
<1>2. T \in SUBSET Pointers /\ rank \in [Pointers -> Nat]
  <2>1. \A a \in Pointers : Nesting[a] \in Nat BY PointerParts, TypeParts
  <2>. QED BY <2>1
<1>. HIDE DEF T, rank
<1>3. T = Pointers BY <1>1, <1>2, RankInduction
<1>4. p \in T BY <1>3
<1>. QED BY <1>4 DEF T

LEMMA Accepted ==
  /\ \A result : Accept({TRUE}, result) = {result}
  /\ \A u : Address(u) # Error /\ BitsOf(u) # Error
<1>1. \A result : Accept({TRUE}, result) = {result} BY DEF Accept
<1>2. ASSUME NEW u PROVE Address(u) # Error /\ BitsOf(u) # Error
  <2>1. Address(u).gives = "address" /\ BitsOf(u).gives = "bits" /\ Error.gives = "error"
    BY DEF Address, BitsOf, Error
  <2>. QED BY <2>1
<1>. QED BY <1>1, <1>2

(* A pointer, and what an array is passed as *)
LEMMA PtrReturns ==
  ASSUME NEW u \in Types, NEW t \in Types, NEW rule \in {"conv", "pass"}, Plain(t), ~t.ref, ~u.ref,
         u.k = "ptr", u.to = t.to, t.k = "ptr" \/ (t.k = "array" /\ rule = "pass"),
         NEW r \in FromLua(Cdata(u), t, rule)
  PROVE  r # Error
<1>1. ~Refused(t, rule) BY DEF Refused, IsVoid, IsRecord
<1>2. r \in FromCdata(u, t, rule) BY <1>1 DEF FromLua, Cdata
<1>3. Decayed(u) = u BY UnrefIdle DEF Decayed
<1>4. r \in FromPtr(u, t, rule)
  <2>1. r \in CASE u.k = "ptr"  -> FromPtr(u, t, rule)
                [] u.k = "func" -> FromFunc(u, t, rule)
                [] IsRecord(u)  -> FromRecord(u, t, rule)
                [] IsNumeric(u) -> FromNumber(u, t, rule)
                [] OTHER        -> {Error}
    BY <1>2, <1>3 DEF FromCdata
  <2>. QED BY <2>1 DEF IsRecord, IsNumeric
<1>5. Target(t) = t.to /\ t.to.k # "func" BY PlainParts DEF Target
<1>6. u \in Pointers /\ t \in PointerLike BY DEF Pointers, PointerLike
<1>7. Plain(u)
  <2>1. Plain(t.to) /\ t.to \in Types BY PlainParts, TypeParts
  <2>. QED BY <2>1, LeadsEquation DEF Plain
<1>8. PtrConvertible(u, t) = {TRUE} BY <1>6, <1>7, ConvertsItself DEF PtrConvertible
<1>9. r \in Accept({TRUE}, Address(u.to)) BY <1>4, <1>5, <1>8 DEF FromPtr
<1>. QED BY <1>9, Accepted

(* A number *)
LEMMA NumberReturns ==
  ASSUME NEW t \in Types, NEW rule \in {"conv", "pass"}, ~t.ref, IsNumeric(t),
         NEW r \in FromLua(ReadValue(t, rule), t, rule)
  PROVE  r # Error
<1>1. /\ t.k = "base" /\ ~IsRecord(t) /\ ~IsVoid(t)
  BY DEF IsNumeric, IsRecord, IsVoid, Numeric, Integral, Records
<1>2. ~Refused(t, rule) BY <1>1 DEF Refused
<1>3. ReadValue(t, rule) \in {Lua("boolean"), Cdata(t), Lua("number")} BY <1>1 DEF ReadValue
<1>4. CASE ReadValue(t, rule) \in {Lua("boolean"), Lua("number")}
  <2>1. ReadValue(t, rule).lua \in {"number", "boolean"} BY <1>4 DEF Lua
  <2>2. r = FromLuaNumber(t, rule) BY <1>2, <2>1 DEF FromLua
  <2>3. r = BitsOf(t.name) BY <2>2 DEF FromLuaNumber
  <2>. QED BY <2>3, Accepted
<1>5. CASE ReadValue(t, rule) = Cdata(t)
  <2>1. r \in FromCdata(t, t, rule) BY <1>2, <1>5 DEF FromLua, Cdata
  <2>2. Decayed(t) = t BY <1>1, UnrefIdle DEF Decayed
  <2>3. r \in CASE t.k = "ptr"  -> FromPtr(t, t, rule)
                [] t.k = "func" -> FromFunc(t, t, rule)
                [] IsRecord(t)  -> FromRecord(t, t, rule)
                [] IsNumeric(t) -> FromNumber(t, t, rule)
                [] OTHER        -> {Error}
    BY <2>1, <2>2 DEF FromCdata
  <2>4. r \in FromNumber(t, t, rule) BY <1>1, <2>3
  <2>5. r \in Accept({TRUE}, BitsOf(t.name)) BY <1>1, <2>4 DEF FromNumber
  <2>. QED BY <2>5, Accepted
<1>. QED BY <1>3, <1>4, <1>5

(* A record that is passed *)
LEMMA RecordReturns ==
  ASSUME NEW t \in Types, ~t.ref, IsRecord(t), NEW r \in FromLua(Cdata(t), t, "pass")
  PROVE  r # Error
<1>1. t.k = "base" /\ ~IsVoid(t) /\ ~IsNumeric(t)
  BY DEF IsNumeric, IsRecord, IsVoid, Numeric, Integral, Records
<1>2. ~Refused(t, "pass") BY <1>1 DEF Refused
<1>3. r \in FromCdata(t, t, "pass") BY <1>2 DEF FromLua, Cdata
<1>4. Decayed(t) = t BY <1>1, UnrefIdle DEF Decayed
<1>5. r \in CASE t.k = "ptr"  -> FromPtr(t, t, "pass")
               [] t.k = "func" -> FromFunc(t, t, "pass")
               [] IsRecord(t)  -> FromRecord(t, t, "pass")
               [] IsNumeric(t) -> FromNumber(t, t, "pass")
               [] OTHER        -> {Error}
  BY <1>3, <1>4 DEF FromCdata
<1>6. r \in FromRecord(t, t, "pass") BY <1>1, <1>5
<1>7. Plain(t) BY <1>1, LeadsEquation DEF Plain
<1>8. Same(t, t, TRUE, FALSE) = {TRUE} BY <1>7, SameReferent
<1>9. r \in Accept({TRUE}, BitsOf(t.name)) BY <1>1, <1>6, <1>8 DEF FromRecord
<1>. QED BY <1>9, Accepted

(* What refers to an object *)
LEMMA ReferenceReturns ==
  ASSUME NEW t \in Types, t.ref, Plain(t), t.k # "array", ~IsVoid(t), NEW r \in FromLua(Cdata(t), t, "pass")
  PROVE  r # Error
<1>1. t.k # "func" BY PlainParts
<1>2. ~Refused(t, "pass") BY <1>1 DEF Refused
<1>3. r \in FromCdata(t, t, "pass") BY <1>2 DEF FromLua, Cdata
<1>4. Decayed(t) = Unref(t) BY DEF Decayed
<1>5. r \in FromReferent(Unref(t), t) BY <1>3, <1>4 DEF FromCdata
<1>6. /\ Unref(t) \in Types /\ Unref(t).cv = t.cv /\ Unref(t).k = t.k /\ ~Unref(t).ref
      /\ t.k # "base" => Unref(t).to = t.to
  BY UnrefParts
<1>7. Plain(Unref(t))
  <2>1. LeadsToFunction[Unref(t)] <=> LeadsToFunction[t] BY <1>6, LeadsEquation
  <2>. QED BY <2>1 DEF Plain
<1>8. Unref(Unref(t)) = Unref(t) BY <1>6, UnrefIdle
<1>9. Same(Unref(t), t, TRUE, TRUE) = {TRUE} BY <1>6, <1>7, <1>8, SameReferent
<1>10. r \in Accept({TRUE}, Address(Unref(t))) BY <1>5, <1>6, <1>9 DEF FromReferent, CvConvertible
<1>. QED BY <1>10, Accepted

(* A pointer to a function *)
LEMMA FunctionReturns ==
  ASSUME NEW t \in Types, NEW rule \in {"conv", "pass"}, FunctionPointer(t), NEW r \in FromLua(ToLua(t, rule), t, rule)
  PROVE  r # Error
<1>. DEFINE u == Ptr(t.to, {})
<1>1. t.k = "ptr" /\ ~t.ref /\ t.to.k = "func" BY DEF FunctionPointer
<1>2. u.k = "ptr" /\ u.to = t.to /\ ~u.ref BY DEF Ptr
<1>3. ToLua(t, rule) = Cdata(u) BY <1>1 DEF ToLua, ReadValue, IsRecord
<1>4. u \in Types
  <2>1. t.to \in Types /\ ~t.to.ref BY <1>1, PointeeParts
  <2>2. Unref(t.to) = t.to BY <2>1, UnrefIdle
  <2>. QED BY <1>1, <2>1, <2>2, TypesAssumption
<1>. HIDE DEF u
<1>5. Decayed(u) = u BY <1>2, <1>4, UnrefIdle DEF Decayed
<1>6. ~Refused(t, rule) BY <1>1 DEF Refused, IsVoid, IsRecord
<1>7. r \in FromCdata(u, t, rule) BY <1>3, <1>6 DEF FromLua, Cdata
<1>8. r \in FromPtr(u, t, rule)
  <2>1. r \in CASE u.k = "ptr"  -> FromPtr(u, t, rule)
                [] u.k = "func" -> FromFunc(u, t, rule)
                [] IsRecord(u)  -> FromRecord(u, t, rule)
                [] IsNumeric(u) -> FromNumber(u, t, rule)
                [] OTHER        -> {Error}
    <3>1. ~(rule = "pass" /\ t.ref) BY <1>1
    <3>. QED BY <1>5, <1>7, <3>1 DEF FromCdata
  <2>. QED BY <1>2, <2>1 DEF IsRecord, IsNumeric
<1>9. r \in Accept({TRUE}, Address(u.to)) BY <1>1, <1>2, <1>8 DEF FromPtr, Target, FuncConvertible
<1>. QED BY <1>9, Accepted

(* What a callback is given can be passed on. *)
LEMMA PassReturns ==
  ASSUME NEW t \in Objects, Plain(t), ~(t.ref /\ t.k = "array"), NEW r \in FromLua(ToLua(t, "pass"), t, "pass")
  PROVE  r # Error
<1>1. t \in Types /\ ~IsVoid(t) BY DEF Objects
<1>2. t.k # "func" /\ (t.k # "base" => t.to.k # "func") BY <1>1, PlainParts
<1>3. CASE t.ref
  <2>1. ToLua(t, "pass") = Cdata(t) BY <1>2, <1>3 DEF ToLua
  <2>. QED BY <1>1, <1>3, <2>1, ReferenceReturns
<1>4. CASE ~t.ref /\ t.k = "ptr"
  <2>1. ToLua(t, "pass") = Cdata(t) BY <1>2, <1>4 DEF ToLua, ReadValue, IsRecord
  <2>. QED BY <1>1, <1>4, <2>1, PtrReturns
<1>5. CASE ~t.ref /\ t.k = "array"
  <2>1. ToLua(t, "pass") = Cdata(AsPtr(t)) BY <1>5 DEF ToLua, ReadValue, IsRecord
  <2>2. AsPtr(t) \in Types /\ AsPtr(t).k = "ptr" /\ AsPtr(t).to = t.to /\ ~AsPtr(t).ref
    BY <1>1, <1>5, AsPtrParts
  <2>3. r \in FromLua(Cdata(AsPtr(t)), t, "pass") BY <2>1
  <2>. HIDE DEF AsPtr
  <2>. QED BY <1>1, <1>5, <2>2, <2>3, PtrReturns
<1>6. CASE ~t.ref /\ IsRecord(t)
  <2>1. ToLua(t, "pass") = Cdata(t) BY <1>6 DEF ToLua, ReadValue, IsRecord
  <2>. QED BY <1>1, <1>6, <2>1, RecordReturns
<1>7. CASE ~t.ref /\ IsNumeric(t)
  <2>1. ToLua(t, "pass") = ReadValue(t, "pass") BY <1>7 DEF ToLua
  <2>. QED BY <1>1, <1>7, <2>1, NumberReturns
<1>8. t.k \in {"ptr", "array"} \/ IsRecord(t) \/ IsNumeric(t)
  <2>1. t.k = "base" => t.name \in ScalarNames BY <1>1, TypeShape
  <2>. QED BY <1>1, <1>2, <2>1, TypeParts DEF IsVoid, IsRecord, IsNumeric, ScalarNames
<1>. QED BY <1>3, <1>4, <1>5, <1>6, <1>7, <1>8

(* What is read can be stored again. *)
LEMMA StoreReturns ==
  ASSUME NEW t \in Objects, Plain(t), ~t.ref, ~Flex(t), "const" \notin t.cv, NEW r \in Store(t, ToLua(t, "conv"))
  PROVE  IF IsRecord(t) \/ t.k = "array" THEN r.gives = "copy" ELSE r # Error
<1>. DEFINE v == ToLua(t, "conv")
<1>1. t \in Types /\ ~IsVoid(t) BY DEF Objects
<1>2. t.k # "func" /\ (t.k # "base" => t.to.k # "func") BY <1>1, PlainParts
<1>3. PICK how \in Aggregate(t, v) :
        r \in IF how = "plain" THEN FromLua(v, t, "conv") ELSE {[gives |-> how, of |-> v.type]}
  BY DEF Store
<1>4. CASE t.k = "array" \/ IsRecord(t)
  <2>1. v = Cdata(AddRef(t)) BY <1>1, <1>4 DEF ToLua, ReadValue, IsRecord
  <2>2. AddRef(t) \in Types BY <1>1, <1>4, TypesAssumption
  <2>3. Unref(AddRef(t)) = Unref(t) BY DEF AddRef, Unref
  <2>4. Plain(AddRef(t))
    <3>1. /\ AddRef(t).k = t.k
          /\ t.k # "base" => AddRef(t).to = t.to
      BY <1>1, <2>2, <2>3, UnrefParts
    <3>2. LeadsToFunction[AddRef(t)] <=> LeadsToFunction[t] BY <1>1, <2>2, <3>1, LeadsEquation
    <3>. QED BY <3>2 DEF Plain
  <2>5. Same(AddRef(t), t, TRUE, TRUE) = {TRUE} BY <1>1, <2>2, <2>3, <2>4, SameReferent
  <2>6. v.lua = "cdata" /\ v.type = AddRef(t) BY <2>1 DEF Cdata
  <2>. HIDE DEF v
  <2>7. CASE IsRecord(t)
    <3>1. Aggregate(t, v) = {IF x THEN "copy" ELSE "elements" : x \in {TRUE}}
      BY <2>5, <2>6, <2>7 DEF Aggregate
    <3>2. how = "copy" BY <1>3, <3>1
    <3>3. r = [gives |-> "copy", of |-> v.type] BY <1>3, <3>2
    <3>. QED BY <2>7, <3>3
  <2>8. CASE t.k = "array"
    <3>1. t.flag # "vla" /\ ~IsRecord(t) BY <2>8 DEF Flex, IsRecord
    <3>. DEFINE bytes == t.k = "array" /\ IsByte(t.to)
                alike == /\ v.lua = "cdata" /\ bytes /\ v.type.k \in {"ptr", "array"} /\ IsByte(v.type.to)
                         /\ (IF v.type.k = "array" THEN v.type.size ELSE 0) = t.size
                outcome(x) == IF x \/ alike THEN "copy"
                              ELSE IF v.lua = "cdata" /\ bytes /\ v.type.k \notin {"ptr", "array"} THEN "undefined"
                              ELSE "elements"
    <3>2. Aggregate(t, v) = {outcome(x) : x \in {TRUE}} BY <2>5, <2>6, <2>8, <3>1, Zenon DEF Aggregate
    <3>3. how = outcome(TRUE) BY <1>3, <3>2, Zenon
    <3>4. how = "copy" BY <3>3
    <3>5. r = [gives |-> "copy", of |-> v.type] BY <1>3, <3>4
    <3>. QED BY <2>8, <3>5
  <2>. QED BY <1>4, <2>7, <2>8
<1>5. CASE t.k = "ptr"
  <2>1. v = Cdata(t) BY <1>2, <1>5 DEF ToLua, ReadValue, IsRecord
  <2>. HIDE DEF v
  <2>2. ~IsRecord(t) BY <1>5 DEF IsRecord
  <2>3. how = "plain" BY <1>3, <1>5, <2>2 DEF Aggregate
  <2>4. r \in FromLua(Cdata(t), t, "conv") BY <1>3, <2>1, <2>3
  <2>. QED BY <1>1, <1>5, <2>2, <2>4, PtrReturns
<1>6. CASE t.k = "base" /\ ~IsRecord(t)
  <2>1. v = ReadValue(t, "conv") BY <1>6 DEF ToLua
  <2>. HIDE DEF v
  <2>2. how = "plain" BY <1>3, <1>6 DEF Aggregate
  <2>3. r \in FromLua(ReadValue(t, "conv"), t, "conv") BY <1>3, <2>1, <2>2
  <2>4. IsNumeric(t)
    <3>1. t.name \in ScalarNames BY <1>1, <1>6, TypeShape
    <3>. QED BY <1>1, <1>6, <3>1 DEF IsVoid, IsRecord, IsNumeric, ScalarNames
  <2>. QED BY <1>1, <1>6, <2>3, <2>4, NumberReturns
<1>. QED BY <1>1, <1>2, <1>4, <1>5, <1>6, TypeParts

(* A value that was read is still the one that was read, and the place     *)
(* holds what became of the value.                                         *)
OriginKnown ==
  \/ origin = Unread
  \/ /\ origin.type \in Objects /\ origin.rule \in {"conv", "pass"}
     /\ value = ToLua(origin.type, origin.rule)
PlaceKnown ==
  \/ place = Nowhere
  \/ place.rule = "store" /\ place.holds \in Store(place.type, value)
  \/ place.rule \in {"conv", "pass", "cast"} /\ place.holds \in FromLua(value, place.type, place.rule)

LEMMA KnownReturns == OriginKnown /\ PlaceKnown => ValuesReturn
<1>. DEFINE t == place.type
            rule == IF place.rule = "pass" THEN "pass" ELSE "conv"
<1>. SUFFICES ASSUME OriginKnown, PlaceKnown, Back(t, place.rule)
              PROVE  IF place.rule = "store" /\ (IsRecord(t) \/ t.k = "array")
                       THEN place.holds.gives = "copy" ELSE place.holds # Error
  BY DEF ValuesReturn
<1>1. origin = [type |-> t, rule |-> rule] /\ (Plain(t) \/ FunctionPointer(t))
  BY DEF Back, MayBeUnlike, Plain
<1>2. origin.type = t /\ origin.rule = rule BY <1>1
<1>3. origin # Unread
  <2>1. Unread.rule = "none" BY DEF Unread
  <2>. QED BY <1>2, <2>1
<1>4. t \in Objects /\ value = ToLua(t, rule) BY <1>2, <1>3 DEF OriginKnown
<1>5. CASE FunctionPointer(t)
  <2>1. ~IsRecord(t) /\ t.k # "array" /\ t \in Types BY <1>4, <1>5 DEF FunctionPointer, IsRecord, Objects
  <2>2. place.rule \in {"pass", "store"} BY DEF Back
  <2>3. place # Nowhere
    <3>1. Nowhere.rule = "none" BY DEF Nowhere
    <3>. QED BY <2>2, <3>1
  <2>4. place.holds \in FromLua(value, t, rule)
    <3>1. CASE place.rule = "pass" BY <2>3, <3>1 DEF PlaceKnown
    <3>2. CASE place.rule = "store"
      <4>1. place.holds \in Store(t, value) BY <2>3, <3>2 DEF PlaceKnown
      <4>. HIDE DEF t
      <4>2. Aggregate(t, value) = {"plain"} BY <2>1 DEF Aggregate
      <4>3. "const" \notin t.cv BY <3>2 DEF Back, t
      <4>4. place.holds \in FromLua(value, t, "conv") BY <4>1, <4>2, <4>3 DEF Store
      <4>. QED BY <3>2, <4>4
    <3>. QED BY <2>2, <3>1, <3>2
  <2>. HIDE DEF t, rule
  <2>5. rule \in {"conv", "pass"} BY DEF rule
  <2>6. place.holds # Error BY <1>4, <1>5, <2>1, <2>4, <2>5, FunctionReturns
  <2>. QED BY <2>1, <2>6
<1>6. CASE Plain(t) /\ place.rule = "pass" /\ ~(t.ref /\ t.k = "array")
  <2>1. place # Nowhere
    <3>1. Nowhere.rule = "none" BY DEF Nowhere
    <3>. QED BY <1>6, <3>1
  <2>2. place.holds \in FromLua(ToLua(t, "pass"), t, "pass") BY <1>4, <1>6, <2>1 DEF PlaceKnown
  <2>. HIDE DEF t
  <2>3. place.holds # Error BY <1>4, <1>6, <2>2, PassReturns
  <2>. QED BY <1>6, <2>3
<1>7. CASE Plain(t) /\ place.rule = "store" /\ ~t.ref /\ ~Flex(t) /\ "const" \notin t.cv
  <2>1. place # Nowhere
    <3>1. Nowhere.rule = "none" BY DEF Nowhere
    <3>. QED BY <1>7, <3>1
  <2>2. place.holds \in Store(t, ToLua(t, "conv")) BY <1>4, <1>7, <2>1 DEF PlaceKnown
  <2>. HIDE DEF t
  <2>. QED BY <1>4, <1>7, <2>2, StoreReturns
<1>. QED BY <1>1, <1>5, <1>6, <1>7 DEF Back

(***************************************************************************)
(* What a callback is given for a parameter can be passed on as such a     *)
(* parameter, and what is read from a place can be stored there again,     *)
(* whatever the types are: those that lead to no function and those that   *)
(* point to one, with the exceptions that Back names.                      *)
(* (to_lua, from_lua)                                                      *)
(***************************************************************************)
THEOREM ValuesAlwaysReturn == ConversionSpec => []ValuesReturn
<1>1. ConversionInit => OriginKnown /\ PlaceKnown
  BY DEF ConversionInit, OriginKnown, PlaceKnown
<1>2. OriginKnown /\ PlaceKnown /\ [ConversionNext]_conversionVars => (OriginKnown /\ PlaceKnown)'
  <2>. SUFFICES ASSUME OriginKnown, PlaceKnown, [ConversionNext]_conversionVars
                PROVE  (OriginKnown /\ PlaceKnown)'
    OBVIOUS
  <2>1. ASSUME NEW v \in LuaValues, Make(v) PROVE (OriginKnown /\ PlaceKnown)'
    BY <2>1 DEF Make, OriginKnown, PlaceKnown
  <2>2. ASSUME NEW t \in Types, NEW rule \in {"conv", "pass"}, Read(t, rule)
        PROVE  (OriginKnown /\ PlaceKnown)'
    <3>1. t \in Objects /\ value' = ToLua(t, rule) /\ origin'.type = t /\ origin'.rule = rule /\ place' = Nowhere
      BY <2>2 DEF Read
    <3>. QED BY <3>1 DEF OriginKnown, PlaceKnown
  <2>3. ASSUME NEW t \in Types, NEW rule \in {"conv", "pass", "cast"}, Convert(t, rule)
        PROVE  (OriginKnown /\ PlaceKnown)'
    <3>1. PICK r \in FromLua(value, t, rule) :
            place' = [type |-> t, rule |-> rule, holds |-> r] /\ value' = value /\ origin' = origin
      BY <2>3 DEF Convert
    <3>2. place'.rule = rule /\ place'.type = t /\ place'.holds = r BY <3>1
    <3>3. OriginKnown' BY <3>1 DEF OriginKnown
    <3>4. PlaceKnown' BY <3>1, <3>2 DEF PlaceKnown
    <3>. QED BY <3>3, <3>4
  <2>4. ASSUME NEW t \in Types, AssignTo(t) PROVE (OriginKnown /\ PlaceKnown)'
    <3>1. PICK r \in Store(t, value) :
            place' = [type |-> t, rule |-> "store", holds |-> r] /\ value' = value /\ origin' = origin
      BY <2>4 DEF AssignTo
    <3>2. place'.rule = "store" /\ place'.type = t /\ place'.holds = r BY <3>1
    <3>3. OriginKnown' BY <3>1 DEF OriginKnown
    <3>4. PlaceKnown' BY <3>1, <3>2 DEF PlaceKnown
    <3>. QED BY <3>3, <3>4
  <2>5. CASE UNCHANGED conversionVars
    BY <2>5 DEF conversionVars, OriginKnown, PlaceKnown
  <2>. QED BY <2>1, <2>2, <2>3, <2>4, <2>5 DEF ConversionNext
<1>3. OriginKnown /\ PlaceKnown => ValuesReturn BY KnownReturns
<1>. QED BY <1>1, <1>2, <1>3, PTL DEF ConversionSpec
=============================================================================
