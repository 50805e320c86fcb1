-------------------------- MODULE ArithmeticProofs --------------------------
(***************************************************************************)
(* Constant expressions, enumerators and array sizes (Constants), for      *)
(* integer types of every width, expressions of every size and enums of    *)
(* every length; and the operators of cdata (OperatorCalls), for integer   *)
(* types of every width, all operands and all record types.                *)
(***************************************************************************)
EXTENDS Constants, OperatorCalls, EvaluationProofs

-----------------------------------------------------------------------------
(***************************************************************************)
(* The invariant.  What waits on the stack of parts agrees with C, and so  *)
(* do the expressions enumerators have their values from.                  *)
(***************************************************************************)
Outcomes == {Undefined} \cup [ty : IntegerTypes, v : Int]
PartSet == [x : Outcomes, leaf : BOOLEAN, c : Outcomes, used : SUBSET Special]

PartOK(e) ==
  /\ IsOutcome(e.x) /\ IsOutcome(e.c) /\ (e.c # Undefined => e.c.ty \in Ranked)
  /\ e.used \cap {"!", "?"} = {} => AsInC(e)
Parts == {e \in PartSet : PartOK(e)}
Enumerators == [x : Outcomes, from : Parts \cup {NoPart}]

ConstantsInv ==
  /\ parts \in Seq(Parts) /\ enums \in Seq(Enumerators)
  /\ EnumeratorsCount

-----------------------------------------------------------------------------
(* Parts of an expression *)

LEMMA OutcomeType ==
  ASSUME NEW x, IsOutcome(x)
  PROVE  x \in Outcomes
<1>1. ASSUME NEW ty \in IntegerTypes, NEW n \in Int PROVE Value(ty, n) \in [ty : IntegerTypes, v : Int]
  BY DEF Value
<1>. QED BY <1>1 DEF Outcomes, IsOutcome, IsValue

LEMMA NewPart ==
  ASSUME NEW x, NEW leaf \in BOOLEAN, NEW c, NEW used \in SUBSET Special,
         IsOutcome(x), IsOutcome(c), c # Undefined => c.ty \in Ranked,
         used \cap {"!", "?"} = {} =>
           /\ x # Undefined /\ c # Undefined => Promoted(x) = c
           /\ x = Undefined /\ c # Undefined => used \cap Logical # {}
           /\ x # Undefined /\ c = Undefined => used \cap Shifts # {}
  PROVE  Part(x, leaf, c, used) \in Parts
<1>. DEFINE e == Part(x, leaf, c, used)
<1>1. e \in PartSet /\ e.x = x /\ e.c = c /\ e.used = used
  BY OutcomeType DEF Part, PartSet
<1>. HIDE DEF e
<1>2. PartOK(e) BY <1>1 DEF PartOK, AsInC
<1>. QED BY <1>1, <1>2 DEF e, Parts

LEMMA OperandPart ==
  ASSUME NEW x \in Operands
  PROVE  Part(x, TRUE, Promoted(x), {}) \in Parts
<1>1. IsValue(x) BY OperandsAssumption DEF IsValue
<1>2. IsValue(Promoted(x)) /\ Promoted(x).ty \in Ranked BY <1>1, PromotedIsValue
<1>. QED BY <1>1, <1>2, NewPart, UndefinedIsNone DEF IsOutcome

LEMMA UnaryPart ==
  ASSUME NEW e \in Parts, NEW op \in UnaryOps
  PROVE  Part(Known(e.x, EvalUnary(op, e.x)), FALSE,
              IF op = "!" THEN Undefined ELSE CUnaryValue(op, e.c),
              e.used \cup ({op} \cap Special)) \in Parts
<1>. DEFINE x == Known(e.x, EvalUnary(op, e.x))
            c == IF op = "!" THEN Undefined ELSE CUnaryValue(op, e.c)
            used == e.used \cup ({op} \cap Special)
<1>1. IsOutcome(e.x) /\ IsOutcome(e.c) /\ (e.c # Undefined => e.c.ty \in Ranked)
      /\ (e.used \cap {"!", "?"} = {} => AsInC(e)) /\ e.used \subseteq Special
  BY DEF Parts, PartOK, PartSet
<1>2. e.x # Undefined => /\ x = EvalUnary(op, e.x) /\ IsOutcome(x)
                         /\ op # "!" => Promoted(x) = CUnary(op, Promoted(e.x))
                                        /\ x = CUnary(op, Promoted(e.x))
  BY <1>1, UnaryIsExact DEF IsOutcome, Known
<1>3. e.x = Undefined => x = Undefined
  BY DEF Known
<1>4. e.c # Undefined => Promoted(e.c) = e.c
  BY <1>1, PromotedIsValue DEF IsOutcome
<1>5. op # "!" /\ e.c # Undefined => /\ c = CUnary(op, e.c) /\ IsOutcome(c)
                                     /\ c # Undefined => c.ty \in Ranked
  BY <1>1, <1>4, UnaryIsExact DEF IsOutcome, CUnaryValue
<1>6. op = "!" \/ e.c = Undefined => c = Undefined
  BY DEF CUnaryValue
<1>7. used \in SUBSET Special /\ e.used \subseteq used /\ ("!" = op => "!" \in used)
  BY <1>1 DEF Special
<1>. HIDE DEF x, c, used
<1>8. ASSUME used \cap {"!", "?"} = {}
      PROVE  /\ x # Undefined /\ c # Undefined => Promoted(x) = c
             /\ x = Undefined /\ c # Undefined => used \cap Logical # {}
             /\ x # Undefined /\ c = Undefined => used \cap Shifts # {}
  <2>1. op # "!" /\ AsInC(e) BY <1>1, <1>7, <1>8
  <2>2. CASE e.x # Undefined /\ e.c # Undefined
    <3>1. Promoted(e.x) = e.c BY <2>1, <2>2 DEF AsInC
    <3>. QED BY <1>2, <1>5, <2>1, <2>2, <3>1
  <2>3. CASE e.x = Undefined
    BY <1>3, <1>6, <1>7, <2>1, <2>3 DEF AsInC
  <2>4. CASE e.x # Undefined /\ e.c = Undefined
    BY <1>6, <1>7, <2>1, <2>4 DEF AsInC
  <2>. QED BY <2>2, <2>3, <2>4
<1>9. IsOutcome(x) /\ IsOutcome(c) /\ (c # Undefined => c.ty \in Ranked)
  BY <1>2, <1>3, <1>5, <1>6 DEF IsOutcome
<1>10. Part(x, FALSE, c, used) \in Parts
  BY <1>7, <1>8, <1>9, NewPart
<1>. QED BY <1>10 DEF x, c, used

(* What C gives the operator of two promoted operands. *)
LEMMA CBinaryOutcome ==
  ASSUME NEW a, NEW b, IsOutcome(a), IsOutcome(b), NEW op \in BinaryOps,
         a # Undefined => a.ty \in Ranked, b # Undefined => b.ty \in Ranked
  PROVE  /\ IsOutcome(CBinaryValue(op, a, b))
         /\ CBinaryValue(op, a, b) # Undefined => CBinaryValue(op, a, b).ty \in Ranked
<1>1. CASE a = Undefined
  BY <1>1 DEF CBinaryValue, IsOutcome
<1>2. CASE a # Undefined /\ op \in Logical
  <2>1. \A t \in BOOLEAN : IsValue(CInt(t)) /\ CInt(t).ty \in Ranked
    BY TruthIsInt, ValueParts DEF CInt, Ranked
  <2>2. CBinaryValue(op, a, b) = CLogical(op, a, b)
    BY <1>2 DEF CBinaryValue
  <2>3. CLogical(op, a, b) \in {CInt(TRUE), CInt(FALSE), Undefined}
    BY DEF CLogical
  <2>. QED BY <2>1, <2>2, <2>3 DEF IsOutcome
<1>3. CASE a # Undefined /\ op \notin Logical /\ b = Undefined
  BY <1>3 DEF CBinaryValue, IsOutcome
<1>4. CASE a # Undefined /\ op \notin Logical /\ b # Undefined
  <2>1. IsValue(a) /\ IsValue(b) /\ Promoted(a) = a /\ Promoted(b) = b
    BY <1>4, PromotedIsValue DEF IsOutcome
  <2>2. CASE op \in Shifts
    <3>1. CBinaryValue(op, a, b) = CShift(op, a, b)
      BY <1>4, <2>2 DEF CBinaryValue
    <3>. QED BY <1>4, <2>1, <2>2, <3>1, ShiftIsExact
  <2>3. CASE op \notin Shifts
    <3>1. CBinaryValue(op, a, b) = CBinary(op, a, b)
      BY <1>4, <2>3 DEF CBinaryValue
    <3>2. op \in Arithmetic \cup Comparisons BY <1>4, <2>3 DEF BinaryOps
    <3>. QED BY <2>1, <3>1, <3>2, BinaryIsExact
  <2>. QED BY <2>2, <2>3
<1>. QED BY <1>1, <1>2, <1>3, <1>4

(* An operator of values that agree with C. *)
LEMMA BinaryAgrees ==
  ASSUME NEW x, NEW y, IsValue(x), IsValue(y), NEW op \in BinaryOps,
         NEW b, b = Undefined \/ b = Promoted(y)
  PROVE  /\ IsOutcome(EvalBinary(op, x, y))
         /\ EvalBinary(op, x, y) # Undefined /\ CBinaryValue(op, Promoted(x), b) # Undefined =>
              Promoted(EvalBinary(op, x, y)) = CBinaryValue(op, Promoted(x), b)
         /\ EvalBinary(op, x, y) = Undefined => CBinaryValue(op, Promoted(x), b) = Undefined
         /\ EvalBinary(op, x, y) # Undefined /\ CBinaryValue(op, Promoted(x), b) = Undefined =>
              op \in Shifts \/ b = Undefined
<1>. DEFINE a == Promoted(x)
<1>1. /\ a # Undefined /\ IsValue(a) /\ a.ty \in Ranked
      /\ Promoted(y) # Undefined /\ IsValue(Promoted(y)) /\ Promoted(y).ty \in Ranked
  BY PromotedIsValue, UndefinedIsNone
<1>2. CASE op \in Logical
  <2>1. CBinaryValue(op, a, b) = CLogical(op, a, b)
    BY <1>1, <1>2 DEF CBinaryValue
  <2>2. IsValue(EvalBinary(op, x, y)) /\ EvalBinary(op, x, y) # Undefined
    BY <1>2, LogicalIsExact, UndefinedIsNone
  <2>3. /\ CLogical(op, a, b) # Undefined => Promoted(EvalBinary(op, x, y)) = CLogical(op, a, b)
        /\ CLogical(op, a, b) = Undefined => b = Undefined
    BY <1>2, LogicalIsExact
  <2>. QED BY <2>1, <2>2, <2>3 DEF IsOutcome
<1>3. CASE op \in Shifts
  <2>1. op \notin Logical BY <1>3 DEF Shifts, Logical
  <2>2. EvalBinary(op, x, y) = Shift(op, a, Promoted(y))
    BY <1>3, <2>1 DEF EvalBinary
  <2>3. CBinaryValue(op, a, b) = IF b = Undefined THEN Undefined ELSE CShift(op, a, b)
    BY <1>1, <1>3, <2>1 DEF CBinaryValue
  <2>4. /\ IsOutcome(Shift(op, a, Promoted(y)))
        /\ Shift(op, a, Promoted(y)) # Undefined => Shift(op, a, Promoted(y)).ty \in Ranked
        /\ CShift(op, a, Promoted(y)) # Undefined =>
             CShift(op, a, Promoted(y)) = Shift(op, a, Promoted(y))
    BY <1>1, <1>3, ShiftIsExact
  <2>5. Shift(op, a, Promoted(y)) # Undefined => Promoted(Shift(op, a, Promoted(y))) = Shift(op, a, Promoted(y))
    BY <2>4, PromotedIsValue DEF IsOutcome
  <2>. QED BY <1>3, <2>2, <2>3, <2>4, <2>5
<1>4. CASE op \notin Logical /\ op \notin Shifts
  <2>1. op \in Arithmetic \cup Comparisons BY <1>4 DEF BinaryOps
  <2>2. CBinaryValue(op, a, b) = IF b = Undefined THEN Undefined ELSE CBinary(op, a, b)
    BY <1>1, <1>4 DEF CBinaryValue
  <2>3. IsOutcome(EvalBinary(op, x, y))
        /\ Promoted(EvalBinary(op, x, y)) = CBinary(op, a, Promoted(y))
    BY <2>1, BinaryIsExact
  <2>4. Promoted(EvalBinary(op, x, y)) = Undefined <=> EvalBinary(op, x, y) = Undefined
    BY <2>3, PromotedOutcome
  <2>. QED BY <2>2, <2>3, <2>4
<1>. QED BY <1>2, <1>3, <1>4

LEMMA BinaryPart ==
  ASSUME NEW l \in Parts, NEW r \in Parts, NEW op \in BinaryOps
  PROVE  Part(Known(l.x, Known(r.x, EvalBinary(op, l.x, r.x))), FALSE,
              CBinaryValue(op, l.c, r.c), l.used \cup r.used \cup ({op} \cap Special)) \in Parts
<1>. DEFINE x == Known(l.x, Known(r.x, EvalBinary(op, l.x, r.x)))
            c == CBinaryValue(op, l.c, r.c)
            used == l.used \cup r.used \cup ({op} \cap Special)
<1>1. /\ IsOutcome(l.x) /\ IsOutcome(l.c) /\ (l.c # Undefined => l.c.ty \in Ranked)
      /\ l.used \cap {"!", "?"} = {} => AsInC(l)
      /\ IsOutcome(r.x) /\ IsOutcome(r.c) /\ (r.c # Undefined => r.c.ty \in Ranked)
      /\ r.used \cap {"!", "?"} = {} => AsInC(r)
      /\ l.used \subseteq Special /\ r.used \subseteq Special
  BY DEF Parts, PartOK, PartSet
<1>2. l.x = Undefined \/ r.x = Undefined => x = Undefined
  BY DEF Known
<1>3. l.x # Undefined /\ r.x # Undefined =>
        x = EvalBinary(op, l.x, r.x) /\ IsValue(l.x) /\ IsValue(r.x) /\ IsOutcome(x)
  <2>1. r.x = Undefined \/ r.x = Promoted(r.x) \/ TRUE OBVIOUS
  <2>2. l.x # Undefined /\ r.x # Undefined => IsOutcome(EvalBinary(op, l.x, r.x))
    BY <1>1, BinaryAgrees DEF IsOutcome
  <2>. QED BY <1>1, <2>2 DEF Known, IsOutcome
<1>4. IsOutcome(c) /\ (c # Undefined => c.ty \in Ranked)
  BY <1>1, CBinaryOutcome
<1>5. /\ used \in SUBSET Special /\ l.used \subseteq used /\ r.used \subseteq used
      /\ op \in Logical => used \cap Logical # {}
      /\ op \in Shifts => used \cap Shifts # {}
  BY <1>1 DEF Special
<1>6. /\ l.c = Undefined => c = Undefined
      /\ r.c = Undefined /\ c # Undefined => op \in Logical
  BY DEF CBinaryValue
<1>7. IsOutcome(x) BY <1>2, <1>3 DEF IsOutcome
<1>8. ASSUME used \cap {"!", "?"} = {}
      PROVE  /\ x # Undefined /\ c # Undefined => Promoted(x) = c
             /\ x = Undefined /\ c # Undefined => used \cap Logical # {}
             /\ x # Undefined /\ c = Undefined => used \cap Shifts # {}
  <2>. HIDE DEF used
  <2>1. AsInC(l) /\ AsInC(r) BY <1>1, <1>5, <1>8
  <2>2. CASE l.x # Undefined /\ r.x # Undefined /\ l.c # Undefined
    <3>1. l.c = Promoted(l.x) /\ (r.c = Undefined \/ r.c = Promoted(r.x))
      BY <2>1, <2>2 DEF AsInC
    <3>2. /\ x # Undefined /\ c # Undefined => Promoted(x) = c
          /\ x = Undefined => c = Undefined
          /\ x # Undefined /\ c = Undefined => op \in Shifts \/ r.c = Undefined
      BY <1>3, <2>2, <3>1, BinaryAgrees
    <3>. HIDE DEF x, c
    <3>3. r.c = Undefined => used \cap Shifts # {}
      BY <1>5, <2>1, <2>2 DEF AsInC
    <3>. QED BY <1>5, <3>2, <3>3
  <2>3. CASE l.x = Undefined \/ r.x = Undefined
    <3>. HIDE DEF x, c
    <3>1. x = Undefined BY <1>2, <2>3
    <3>2. c # Undefined => l.c # Undefined /\ (r.c # Undefined \/ op \in Logical)
      BY <1>6
    <3>. QED BY <1>5, <2>1, <2>3, <3>1, <3>2 DEF AsInC
  <2>4. CASE l.x # Undefined /\ r.x # Undefined /\ l.c = Undefined
    <3>. HIDE DEF x, c
    <3>. QED BY <1>5, <1>6, <2>1, <2>4 DEF AsInC
  <2>. QED BY <2>2, <2>3, <2>4
<1>. HIDE DEF x, c, used
<1>9. Part(x, FALSE, c, used) \in Parts
  BY <1>4, <1>5, <1>7, <1>8, NewPart
<1>. QED BY <1>9 DEF x, c, used

LEMMA EvaluatedPart ==
  ASSUME NEW e \in Parts
  PROVE  /\ IsOutcome(Evaluated(e)) /\ Evaluated(e).v = e.x.v
         /\ Evaluated(e).ty \in Ranked => e.x # Undefined
<1>1. IsOutcome(e.x) BY DEF Parts, PartOK
<1>2. CASE e.x = Undefined
  <2>1. Evaluated(e) = Undefined BY <1>2, PromotedOutcome DEF Evaluated, IsOutcome
  <2>. QED BY <1>2, <2>1, UndefinedIsNone DEF IsOutcome, IntegerTypes
<1>3. CASE e.x # Undefined
  BY <1>1, <1>3, PromotedIsValue DEF Evaluated, IsOutcome
<1>. QED BY <1>2, <1>3

LEMMA ConditionalPart ==
  ASSUME NEW t \in Parts, NEW l \in Parts, NEW r \in Parts
  PROVE  Part(Known(t.x, Evaluated(IF t.x.v # 0 THEN l ELSE r)), FALSE, Undefined,
              t.used \cup l.used \cup r.used \cup {"?"}) \in Parts
<1>. DEFINE branch == IF t.x.v # 0 THEN l ELSE r
            x == Known(t.x, Evaluated(branch))
            used == t.used \cup l.used \cup r.used \cup {"?"}
<1>1. branch \in Parts OBVIOUS
<1>2. IsOutcome(x)
  <2>. HIDE DEF branch
  <2>. QED BY <1>1, EvaluatedPart DEF Known, IsOutcome
<1>3. used \in SUBSET Special /\ used \cap {"!", "?"} # {}
  BY DEF Parts, PartSet, Special
<1>. HIDE DEF x, used
<1>4. Part(x, FALSE, Undefined, used) \in Parts
  BY <1>2, <1>3, NewPart DEF IsOutcome
<1>. QED BY <1>4 DEF x, used

-----------------------------------------------------------------------------
(* The invariant *)

LEMMA LatestIsIn ==
  ASSUME NEW n \in Nat, NEW S \in SUBSET (1..n), S # {}
  PROVE  Latest(S) \in S /\ \A k \in S : k <= Latest(S)
<1>. DEFINE T == {n - k : k \in S}
<1>1. T \in SUBSET Nat /\ T # {}
  <2>1. PICK k \in S : TRUE OBVIOUS
  <2>2. n - k \in T OBVIOUS
  <2>3. \A j \in S : n - j \in Nat OBVIOUS
  <2>. QED BY <2>2, <2>3
<1>. HIDE DEF T
<1>2. PICK t \in T : \A y \in T : t <= y BY <1>1, LeastNatural
<1>3. PICK j \in S : t = n - j BY <1>2 DEF T
<1>4. \A k \in S : k <= j
  <2>. SUFFICES ASSUME NEW k \in S PROVE k <= j OBVIOUS
  <2>1. n - k \in T BY DEF T
  <2>. QED BY <1>2, <1>3, <2>1
<1>. QED BY <1>3, <1>4 DEF Latest

(* An enumerator with a value has the value of its expression. *)
LEMMA PlainValue ==
  ASSUME NEW e \in Parts, PlainPart(e), InRange("INT", e.c.v)
  PROVE  EnumValue(Evaluated(e)) = Value("INT", e.c.v) /\ e.c.v \in Int
<1>1. IsOutcome(e.x) /\ IsOutcome(e.c) /\ AsInC(e)
  BY DEF Parts, PartOK, PlainPart, Special
<1>2. e.x # Undefined /\ e.c # Undefined /\ IsValue(e.x)
  BY <1>1, EvaluatedPart DEF PlainPart, IsOutcome
<1>3. Promoted(e.x) = e.c BY <1>1, <1>2 DEF AsInC
<1>4. Evaluated(e).v = e.c.v /\ e.c.v \in Int
  BY <1>2, <1>3, EvaluatedPart, PromotedIsValue DEF IsValue
<1>5. EnumValue(Evaluated(e)) = Cast(Evaluated(e), "INT")
  BY DEF EnumValue, PlainPart
<1>6. Cast(Evaluated(e), "INT") = Value("INT", e.c.v)
  BY <1>4, WrapsToItself DEF Cast, IntegerTypes, Ranked
<1>. QED BY <1>4, <1>5, <1>6

(* What the enumerators before it make of an enumerator does not change.   *)
Listed(s, i) == {j \in 1..i : s[j].from # NoPart}
Due(s, i) == IF Listed(s, i) = {} THEN i - 1
             ELSE s[Latest(Listed(s, i))].from.c.v + i - Latest(Listed(s, i))
Ordinary(s, i) == \A j \in 1..i : /\ s[j].from # NoPart => PlainPart(s[j].from)
                                  /\ InRange("INT", Due(s, j))

LEMMA EnumeratorsCountIs ==
  EnumeratorsCount <=> \A i \in DOMAIN enums : Ordinary(enums, i) => enums[i].x = Value("INT", Due(enums, i))
<1>1. \A i : Listed(enums, i) = Valued(i) BY DEF Listed, Valued
<1>2. \A i : Due(enums, i) = Wanted(i) BY <1>1 DEF Due, Wanted
<1>. QED BY <1>2 DEF EnumeratorsCount, Ordinary

LEMMA DueKept ==
  ASSUME NEW s \in Seq(Enumerators), NEW e \in Enumerators, NEW i \in 1..Len(s)
  PROVE  /\ Due(Append(s, e), i) = Due(s, i)
         /\ Ordinary(Append(s, e), i) <=> Ordinary(s, i)
         /\ Append(s, e)[i] = s[i]
<1>. DEFINE z == Append(s, e)
<1>1. \A j \in 1..Len(s) : z[j] = s[j] OBVIOUS
<1>. HIDE DEF z
<1>2. ASSUME NEW j \in 1..Len(s) PROVE Due(z, j) = Due(s, j)
  <2>1. Listed(z, j) = Listed(s, j) BY <1>1 DEF Listed
  <2>2. CASE Listed(s, j) = {} BY <2>1, <2>2 DEF Due
  <2>3. CASE Listed(s, j) # {}
    <3>1. Listed(s, j) \in SUBSET (1..j) /\ j \in Nat BY DEF Listed
    <3>2. Latest(Listed(s, j)) \in 1..Len(s)
      <4>1. Latest(Listed(s, j)) \in Listed(s, j) BY <2>3, <3>1, LatestIsIn
      <4>2. 1..j \subseteq 1..Len(s) OBVIOUS
      <4>. QED BY <3>1, <4>1, <4>2
    <3>. QED BY <1>1, <2>1, <2>3, <3>2 DEF Due
  <2>. QED BY <2>2, <2>3
<1>3. Ordinary(z, i) <=> Ordinary(s, i)
  <2>1. \A j \in 1..i : j \in 1..Len(s) OBVIOUS
  <2>. QED BY <1>1, <1>2, <2>1 DEF Ordinary
<1>. QED BY <1>1, <1>2, <1>3 DEF z

(* An enumerator without a value is one more than the last. *)
LEMMA DueCounts ==
  ASSUME NEW s \in Seq(Enumerators), NEW x \in Outcomes, NEW i, i = Len(s) + 1,
         Ordinary(Append(s, Enumerator(x, NoPart)), i)
  PROVE  LET z == Append(s, Enumerator(x, NoPart)) IN
         /\ i = 1 => Due(z, i) = 0
         /\ i # 1 => /\ Due(z, i) = Due(s, i - 1) + 1 /\ Due(s, i - 1) \in Int
                     /\ Ordinary(s, i - 1)
         /\ InRange("INT", Due(z, i))
<1>. DEFINE z == Append(s, Enumerator(x, NoPart))
<1>1. /\ Len(s) \in Nat /\ \A j \in 1..Len(s) : z[j] = s[j]
      /\ z[i].from = NoPart /\ Enumerator(x, NoPart) \in Enumerators
  BY DEF Enumerator, Enumerators
<1>2. Listed(z, i) = Listed(s, i - 1)
  BY <1>1 DEF Listed
<1>3. \A j \in 1..i : InRange("INT", Due(z, j)) /\ (z[j].from # NoPart => PlainPart(z[j].from))
  BY DEF Ordinary
<1>. DEFINE S == Listed(s, i - 1)
<1>4. i \in Nat /\ i - 1 = Len(s) /\ S \in SUBSET (1..(i - 1))
  BY <1>1 DEF Listed
<1>5. CASE i = 1
  <2>1. S = {} BY <1>4, <1>5
  <2>. HIDE DEF S
  <2>2. Due(z, i) = 0 BY <1>2, <1>5, <2>1 DEF Due, S
  <2>. HIDE DEF z
  <2>. QED BY <1>3, <1>4, <1>5, <2>2 DEF z
<1>6. CASE i # 1
  <2>1. i - 1 \in 1..Len(s) /\ i \in 1..i BY <1>4, <1>6
  <2>2. Ordinary(s, i - 1)
    <3>1. Ordinary(z, i - 1)
      <4>1. \A j \in 1..(i - 1) : j \in 1..i BY <1>4
      <4>. HIDE DEF z
      <4>. QED BY <1>3, <4>1 DEF Ordinary
    <3>. QED BY <1>1, <2>1, <3>1, DueKept
  <2>3. Due(z, i) = Due(s, i - 1) + 1 /\ Due(s, i - 1) \in Int
    <3>1. CASE S = {}
      <4>. HIDE DEF S, z
      <4>. QED BY <1>2, <1>4, <3>1 DEF Due, S
    <3>2. CASE S # {}
      <4>. DEFINE l == Latest(S)
      <4>1. l \in S /\ l \in 1..(i - 1)
        <5>. HIDE DEF S
        <5>1. i - 1 \in Nat /\ S \in SUBSET (1..(i - 1)) BY <1>1, <1>4
        <5>2. Latest(S) \in S BY <3>2, <5>1, LatestIsIn
        <5>. QED BY <5>1, <5>2
      <4>2. s[l].from # NoPart BY <4>1 DEF Listed
      <4>3. PlainPart(s[l].from) /\ s[l].from \in Parts
        <5>. HIDE DEF S, l
        <5>1. s[l] \in Enumerators BY <1>4, <4>1
        <5>. QED BY <2>2, <4>1, <4>2, <5>1 DEF Ordinary, Enumerators
      <4>. HIDE DEF S, l
      <4>4. s[l].from.c.v \in Int
        BY <4>3 DEF PlainPart, Parts, PartOK, IsOutcome, IsValue
      <4>5. z[l] = s[l] BY <1>1, <1>4, <4>1
      <4>. HIDE DEF z
      <4>6. Due(s, i - 1) = s[l].from.c.v + (i - 1) - l
        BY <3>2 DEF Due, S, l
      <4>7. Due(z, i) = s[l].from.c.v + i - l
        BY <1>2, <3>2, <4>5 DEF Due, S, l
      <4>. QED BY <1>4, <4>1, <4>4, <4>6, <4>7
    <3>. QED BY <3>1, <3>2
  <2>. HIDE DEF z
  <2>. QED BY <1>3, <1>6, <2>1, <2>2, <2>3 DEF z
<1>. QED BY <1>5, <1>6

(* An expression is not the mark of an enumerator that has none. *)
LEMMA PartsAreMarked ==
  NoPart \notin Parts
<1>1. NoPart.used = {"none"} BY DEF NoPart, Part
<1>2. "none" \notin Special BY DEF Special, Logical, Shifts
<1>. QED BY <1>1, <1>2 DEF Parts, PartSet

(* An enumerator with a value counts from itself. *)
LEMMA DueValue ==
  ASSUME NEW s \in Seq(Enumerators), NEW x \in Outcomes, NEW e \in Parts, NEW i, i = Len(s) + 1,
         Ordinary(Append(s, Enumerator(x, e)), i)
  PROVE  /\ Due(Append(s, Enumerator(x, e)), i) = e.c.v
         /\ PlainPart(e) /\ InRange("INT", e.c.v)
<1>. DEFINE z == Append(s, Enumerator(x, e))
<1>1. i \in Nat /\ i \in 1..i /\ z[i].from = e BY DEF Enumerator
<1>2. PlainPart(e) /\ InRange("INT", Due(z, i))
  <2>1. e # NoPart BY PartsAreMarked
  <2>. HIDE DEF z
  <2>. QED BY <1>1, <2>1 DEF Ordinary, z
<1>3. e.c.v \in Int
  BY <1>2 DEF PlainPart, Parts, PartOK, IsOutcome, IsValue
<1>. DEFINE S == Listed(z, i)
<1>4. i \in S /\ S \in SUBSET (1..i)
  <2>1. e # NoPart BY PartsAreMarked
  <2>. HIDE DEF z
  <2>. QED BY <1>1, <2>1 DEF Listed
<1>5. Latest(S) = i
  <2>. HIDE DEF S
  <2>1. i \in Nat /\ S # {} BY <1>1, <1>4
  <2>2. Latest(S) \in S /\ \A k \in S : k <= Latest(S) BY <1>4, <2>1, LatestIsIn, Zenon
  <2>. DEFINE l == Latest(S)
  <2>3. l \in 1..i /\ i <= l BY <1>4, <2>2
  <2>. HIDE DEF l
  <2>4. l = i BY <1>1, <2>3
  <2>. QED BY <2>4 DEF l
<1>6. Due(z, i) = e.c.v
  <2>1. S # {} BY <1>4
  <2>2. z[Latest(S)].from = e BY <1>1, <1>5
  <2>. HIDE DEF z
  <2>3. Due(z, i) = z[Latest(S)].from.c.v + i - Latest(S) BY <2>1 DEF Due
  <2>. HIDE DEF S
  <2>. QED BY <1>1, <1>3, <1>5, <2>2, <2>3
<1>. QED BY <1>2, <1>6

(* Only the last enumerator is new. *)
LEMMA EnumeratorAdded ==
  ASSUME ConstantsInv, NEW e \in Enumerators, enums' = Append(enums, e),
         Ordinary(enums', Len(enums) + 1) => e.x = Value("INT", Due(enums', Len(enums) + 1))
  PROVE  enums' \in Seq(Enumerators) /\ EnumeratorsCount'
<1>1. enums \in Seq(Enumerators) /\ enums' \in Seq(Enumerators)
      /\ DOMAIN enums = 1..Len(enums) /\ DOMAIN enums' = 1..(Len(enums) + 1)
      /\ enums'[Len(enums) + 1] = e /\ Len(enums) \in Nat
  BY DEF ConstantsInv
<1>2. ASSUME NEW i \in DOMAIN enums', Ordinary(enums', i)
      PROVE  enums'[i].x = Value("INT", Due(enums', i))
  <2>1. CASE i = Len(enums) + 1 BY <1>1, <1>2, <2>1
  <2>2. CASE i # Len(enums) + 1
    <3>1. i \in 1..Len(enums) BY <1>1, <2>2
    <3>2. /\ Due(enums', i) = Due(enums, i) /\ Ordinary(enums, i) /\ enums'[i] = enums[i]
      BY <1>1, <1>2, <3>1, DueKept
    <3>. QED BY <1>1, <3>1, <3>2, EnumeratorsCountIs DEF ConstantsInv
  <2>. QED BY <2>1, <2>2
<1>3. EnumeratorsCount' <=> \A i \in DOMAIN enums' :
                              Ordinary(enums', i) => enums'[i].x = Value("INT", Due(enums', i))
  <2>1. \A i : Listed(enums', i) = Valued(i)' BY DEF Listed, Valued
  <2>2. \A i : Due(enums', i) = Wanted(i)' BY <2>1 DEF Due, Wanted
  <2>. QED BY <2>2 DEF EnumeratorsCount, Ordinary
<1>. QED BY <1>1, <1>2, <1>3

LEMMA InvInit == ConstInit => ConstantsInv
  BY DEF ConstInit, ConstantsInv, EnumeratorsCount

(* A step on the stack of parts. *)
LEMMA PartAdded ==
  ASSUME ConstantsInv, NEW n \in 0..Len(parts), NEW e \in Parts,
         parts' = Append(SubSeq(parts, 1, Len(parts) - n), e), UNCHANGED enums
  PROVE  ConstantsInv'
<1>1. parts \in Seq(Parts) /\ Len(parts) \in Nat BY DEF ConstantsInv
<1>2. SubSeq(parts, 1, Len(parts) - n) \in Seq(Parts) BY <1>1
<1>3. parts' \in Seq(Parts) BY <1>2
<1>4. EnumeratorsCount' BY DEF ConstantsInv, EnumeratorsCount, Valued, Wanted
<1>. QED BY <1>3, <1>4 DEF ConstantsInv

LEMMA TopIsPart ==
  ASSUME ConstantsInv, NEW n \in Nat, n < Len(parts)
  PROVE  Top(n) \in Parts
<1>1. parts \in Seq(Parts) /\ Len(parts) - n \in 1..Len(parts) BY DEF ConstantsInv
<1>. QED BY <1>1 DEF Top

LEMMA InvOperand ==
  ASSUME ConstantsInv, NEW x \in Operands, Operand(x)
  PROVE  ConstantsInv'
<1>1. Part(x, TRUE, Promoted(x), {}) \in Parts BY OperandPart
<1>. DEFINE e == Part(x, TRUE, Promoted(x), {})
<1>2. parts' \in Seq(Parts)
  <2>1. parts' = Append(parts, e) /\ parts \in Seq(Parts) BY DEF Operand, ConstantsInv
  <2>. HIDE DEF e
  <2>2. e \in Parts BY <1>1 DEF e
  <2>. QED BY <2>1, <2>2
<1>3. EnumeratorsCount' BY DEF ConstantsInv, EnumeratorsCount, Valued, Wanted, Operand
<1>. QED BY <1>2, <1>3 DEF Operand, ConstantsInv

LEMMA InvUnary ==
  ASSUME ConstantsInv, NEW op \in UnaryOps, Unary(op)
  PROVE  ConstantsInv'
<1>1. Len(parts) \in Nat /\ Len(parts) >= 1 /\ UNCHANGED enums BY DEF ConstantsInv, Unary
<1>2. Top(0) \in Parts BY <1>1, TopIsPart
<1>. DEFINE e == Part(Known(Top(0).x, EvalUnary(op, Top(0).x)), FALSE,
                      IF op = "!" THEN Undefined ELSE CUnaryValue(op, Top(0).c),
                      Top(0).used \cup ({op} \cap Special))
<1>3. e \in Parts BY <1>2, UnaryPart
<1>4. 1 \in 0..Len(parts) BY <1>1
<1>5. parts' = Append(SubSeq(parts, 1, Len(parts) - 1), e) BY DEF Unary, Below
<1>. HIDE DEF e
<1>. QED BY <1>1, <1>3, <1>4, <1>5, PartAdded

LEMMA InvBinary ==
  ASSUME ConstantsInv, NEW op \in BinaryOps, Binary(op)
  PROVE  ConstantsInv'
<1>1. Len(parts) \in Nat /\ Len(parts) >= 2 /\ UNCHANGED enums BY DEF ConstantsInv, Binary
<1>2. Top(0) \in Parts /\ Top(1) \in Parts BY <1>1, TopIsPart
<1>. DEFINE e == Part(Known(Top(1).x, Known(Top(0).x, EvalBinary(op, Top(1).x, Top(0).x))), FALSE,
                      CBinaryValue(op, Top(1).c, Top(0).c),
                      Top(1).used \cup Top(0).used \cup ({op} \cap Special))
<1>3. e \in Parts BY <1>2, BinaryPart
<1>4. 2 \in 0..Len(parts) BY <1>1
<1>5. parts' = Append(SubSeq(parts, 1, Len(parts) - 2), e) BY DEF Binary, Below
<1>. HIDE DEF e
<1>. QED BY <1>1, <1>3, <1>4, <1>5, PartAdded

LEMMA InvConditional ==
  ASSUME ConstantsInv, Conditional
  PROVE  ConstantsInv'
<1>1. Len(parts) \in Nat /\ Len(parts) >= 3 /\ UNCHANGED enums BY DEF ConstantsInv, Conditional
<1>2. Top(0) \in Parts /\ Top(1) \in Parts /\ Top(2) \in Parts BY <1>1, TopIsPart
<1>. DEFINE e == Part(Known(Top(2).x, Evaluated(IF Top(2).x.v # 0 THEN Top(1) ELSE Top(0))),
                      FALSE, Undefined,
                      Top(2).used \cup Top(1).used \cup Top(0).used \cup {"?"})
<1>3. e \in Parts BY <1>2, ConditionalPart
<1>4. 3 \in 0..Len(parts) BY <1>1
<1>5. parts' = Append(SubSeq(parts, 1, Len(parts) - 3), e) BY DEF Conditional, Below
<1>. HIDE DEF e
<1>. QED BY <1>1, <1>3, <1>4, <1>5, PartAdded

LEMMA InvValuedEnumerator ==
  ASSUME ConstantsInv, ValuedEnumerator
  PROVE  ConstantsInv'
<1>. DEFINE e == Top(0)
            x == EnumValue(Evaluated(e))
<1>1. e \in Parts BY TopIsPart DEF ValuedEnumerator
<1>. HIDE DEF e
<1>2. x \in Outcomes
  <2>1. IsOutcome(Evaluated(e)) BY <1>1, EvaluatedPart
  <2>2. Evaluated(e).ty \in Ranked => Evaluated(e).v \in Int
    BY <2>1, UndefinedIsNone DEF IsOutcome, IsValue
  <2>3. Evaluated(e).ty \in Ranked => IsOutcome(Cast(Evaluated(e), "INT"))
    BY <2>2, CastIsValue DEF IntegerTypes, Ranked, IsOutcome
  <2>4. IsOutcome(x) BY <2>3 DEF EnumValue, IsOutcome
  <2>. QED BY <2>4, OutcomeType
<1>3. Enumerator(x, e) \in Enumerators
  BY <1>1, <1>2 DEF Enumerator, Enumerators
<1>4. enums' = Append(enums, Enumerator(x, e)) /\ parts' = <<>>
  BY DEF ValuedEnumerator, e
<1>5. Ordinary(enums', Len(enums) + 1) =>
        Enumerator(x, e).x = Value("INT", Due(enums', Len(enums) + 1))
  <2>. SUFFICES ASSUME Ordinary(enums', Len(enums) + 1)
                PROVE  x = Value("INT", Due(enums', Len(enums) + 1))
    BY DEF Enumerator
  <2>1. enums \in Seq(Enumerators) BY DEF ConstantsInv
  <2>. HIDE DEF x
  <2>2. Due(enums', Len(enums) + 1) = e.c.v /\ PlainPart(e) /\ InRange("INT", e.c.v)
    BY <1>1, <1>2, <1>4, <2>1, DueValue
  <2>. QED BY <1>1, <2>2, PlainValue DEF x
<1>. HIDE DEF x
<1>. QED BY <1>3, <1>4, <1>5, EnumeratorAdded DEF ConstantsInv

LEMMA InvCountedEnumerator ==
  ASSUME ConstantsInv, CountedEnumerator
  PROVE  ConstantsInv'
<1>. DEFINE x == Following(enums)
            e == Enumerator(x, NoPart)
            n == Len(enums)
<1>1. enums \in Seq(Enumerators) /\ n \in Nat BY DEF ConstantsInv
<1>2. "INT" \in IntegerTypes BY DEF IntegerTypes, Ranked
<1>3. CASE enums = <<>>
  <2>1. x = Value("INT", 0) /\ n = 0 BY <1>3 DEF Following
  <2>2. IsOutcome(x) BY <1>2, <2>1, ZeroAndOne, ValueInRange DEF IsOutcome
  <2>. HIDE DEF x
  <2>3. x \in Outcomes BY <2>2, OutcomeType
  <2>4. e \in Enumerators BY <2>3 DEF Enumerator, Enumerators
  <2>5. enums' = Append(enums, e) /\ parts' = parts BY DEF CountedEnumerator, x
  <2>6. Ordinary(enums', n + 1) => e.x = Value("INT", Due(enums', n + 1))
    <3>. SUFFICES ASSUME Ordinary(enums', n + 1) PROVE x = Value("INT", Due(enums', n + 1))
      BY DEF Enumerator
    <3>1. n + 1 = 1 BY <2>1
    <3>2. Due(enums', n + 1) = 0 BY <1>1, <2>3, <2>5, <3>1, DueCounts
    <3>. QED BY <2>1, <3>2 DEF x
  <2>. HIDE DEF e
  <2>. QED BY <2>4, <2>5, <2>6, EnumeratorAdded DEF ConstantsInv
<1>4. CASE enums # <<>>
  <2>. DEFINE last == enums[n].x
  <2>1. n >= 1 /\ n \in DOMAIN enums /\ enums[n] \in Enumerators BY <1>1, <1>4
  <2>2. last \in Outcomes /\ x = Known(last, Result("INT", last.v + 1))
    BY <1>4, <2>1 DEF Following, Enumerators
  <2>. HIDE DEF last, x
  <2>3. last = Undefined \/ last.v \in Int BY <2>2 DEF Outcomes
  <2>4. IsOutcome(x)
    <3>1. CASE last = Undefined BY <2>2, <3>1 DEF Known, IsOutcome
    <3>2. CASE last # Undefined BY <1>2, <2>2, <2>3, <3>2, ResultIsExact DEF Known
    <3>. QED BY <3>1, <3>2
  <2>5. x \in Outcomes BY <2>4, OutcomeType
  <2>6. e \in Enumerators BY <2>5 DEF Enumerator, Enumerators
  <2>7. enums' = Append(enums, e) /\ parts' = parts BY DEF CountedEnumerator, x
  <2>8. ASSUME Ordinary(enums', n + 1) PROVE x = Value("INT", Due(enums', n + 1))
    <3>. DEFINE d == Due(enums, n)
    <3>1. /\ Due(enums', n + 1) = d + 1 /\ d \in Int /\ Ordinary(enums, n)
          /\ InRange("INT", Due(enums', n + 1))
      <4>1. (n + 1) - 1 = n /\ n + 1 # 1 BY <1>1, <2>1
      <4>. QED BY <1>1, <2>5, <2>7, <2>8, <4>1, DueCounts
    <3>2. last = Value("INT", d)
      BY <2>1, <3>1, EnumeratorsCountIs DEF ConstantsInv, last
    <3>. HIDE DEF d
    <3>3. last # Undefined /\ last.v = d BY <1>2, <3>2, UndefinedIsNone, ValueParts
    <3>4. Result("INT", d + 1) = Value("INT", d + 1)
      BY <1>2, <3>1, ResultIsExact
    <3>. QED BY <2>2, <3>1, <3>3, <3>4 DEF Known
  <2>9. Ordinary(enums', n + 1) => e.x = Value("INT", Due(enums', n + 1))
    BY <2>8 DEF Enumerator
  <2>. HIDE DEF e
  <2>. QED BY <2>6, <2>7, <2>9, EnumeratorAdded DEF ConstantsInv
<1>. QED BY <1>3, <1>4

(* Nothing a declaration is evaluated to differs from C (ConstantsInv). *)
THEOREM ConstantsInvariant == ConstSpec => []ConstantsInv
<1>1. ConstInit => ConstantsInv
  BY InvInit
<1>2. ConstantsInv /\ [ConstNext]_constVars => ConstantsInv'
  <2>. SUFFICES ASSUME ConstantsInv, [ConstNext]_constVars PROVE ConstantsInv'
    OBVIOUS
  <2>1. CASE \E x \in Operands : Operand(x) BY <2>1, InvOperand
  <2>2. CASE \E op \in UnaryOps : Unary(op) BY <2>2, InvUnary
  <2>3. CASE \E op \in BinaryOps : Binary(op) BY <2>3, InvBinary
  <2>4. CASE Conditional BY <2>4, InvConditional
  <2>5. CASE ValuedEnumerator BY <2>5, InvValuedEnumerator
  <2>6. CASE CountedEnumerator BY <2>6, InvCountedEnumerator
  <2>7. CASE UNCHANGED constVars
    BY <2>7 DEF constVars, ConstantsInv, EnumeratorsCount, Valued, Wanted
  <2>. QED BY <2>1, <2>2, <2>3, <2>4, <2>5, <2>6, <2>7 DEF ConstNext
<1>. QED BY <1>1, <1>2, PTL DEF ConstSpec

(* Whatever an expression is made of, it has the type and the value C      *)
(* gives it wherever the code means to evaluate as C does (c_expr::eval).  *)
THEOREM ConstantExpressionsAreCs == ConstSpec => []EvaluatesLikeC
<1>1. ConstantsInv => EvaluatesLikeC
  <2>. SUFFICES ASSUME ConstantsInv, NEW i \in DOMAIN parts, parts[i].used \cap {"!", "?"} = {}
                PROVE  AsInC(parts[i])
    BY DEF EvaluatesLikeC
  <2>1. parts[i] \in Parts BY DEF ConstantsInv
  <2>. QED BY <2>1 DEF Parts, PartOK
<1>. QED BY <1>1, ConstantsInvariant, PTL

(* No array has a size its expression does not have (get_arrsize), and     *)
(* enumerators count up from the last one that has a value (parse_enum).   *)
THEOREM ConstantsAreKept == ConstSpec => []ConstantsKeepValues
<1>1. ConstantsInv => ArraySizesAreValues
  <2>. SUFFICES ASSUME ConstantsInv, NEW i \in DOMAIN parts,
                       parts[i].used \cap {"!", "?"} = {},
                       ArraySize(Evaluated(parts[i])) # NoSize, parts[i].c # Undefined
                PROVE  ArraySize(Evaluated(parts[i])) = parts[i].c.v
    BY DEF ArraySizesAreValues
  <2>. DEFINE e == parts[i]
  <2>1. e \in Parts BY DEF ConstantsInv
  <2>2. IsOutcome(e.x) /\ AsInC(e) BY <2>1 DEF Parts, PartOK
  <2>3. Evaluated(e).ty \in Ranked /\ ArraySize(Evaluated(e)) = Evaluated(e).v
    BY DEF ArraySize
  <2>4. e.x # Undefined /\ Evaluated(e).v = e.x.v BY <2>1, <2>3, EvaluatedPart
  <2>5. Promoted(e.x) = e.c BY <2>2, <2>4 DEF AsInC
  <2>6. Promoted(e.x).v = e.x.v BY <2>2, <2>4, PromotedIsValue DEF IsOutcome
  <2>. QED BY <2>3, <2>4, <2>5, <2>6
<1>2. ConstantsInv => ConstantsKeepValues
  BY <1>1 DEF ConstantsInv, ConstantsKeepValues
<1>. QED BY <1>2, ConstantsInvariant, PTL

-----------------------------------------------------------------------------
(* Operands *)

(* A number has an integer type or is a float; its metatype is not asked.  *)
LEMMA Numbers ==
  ASSUME NEW x, IsOperand(x), Numeric(x)
  PROVE  /\ x.v \in Int /\ (x.ty = "DOUBLE" \/ (x.ty \in IntegerTypes /\ InRange(x.ty, x.v)))
         /\ IsArith(x) /\ ~PtrLike(x) /\ ~IsRecordPtr(x) /\ Metas(x) = {}
<1>. "LONG" \in IntegerTypes BY DEF IntegerTypes, Ranked
<1>. QED BY DEF IsOperand, Numeric, IsArith, PtrLike, IsRecordPtr, Metas

LEMMA OperandPromotes ==
  ASSUME NEW x, IsOperand(x), Numeric(x)
  PROVE  /\ ArithOperand(x).v = x.v /\ x.v \in Int
         /\ x.ty = "DOUBLE" => ArithOperand(x).ty = "DOUBLE"
         /\ x.ty # "DOUBLE" => IsValue(ArithOperand(x)) /\ ArithOperand(x).ty \in Ranked
         /\ x.ty \in Ranked => ArithOperand(x).ty = x.ty
         /\ x.ty \in {"BOOL", "CHAR"} => ArithOperand(x).ty = "INT"
<1>. DEFINE u == Value(x.ty, x.v)
<1>1. u.ty = x.ty /\ u.v = x.v BY ValueParts
<1>2. ArithOperand(x) = Promoted(u)
  BY <1>1 DEF ArithOperand, Promoted
<1>3. CASE x.ty = "DOUBLE"
  BY <1>3, Numbers, ValueParts DEF ArithOperand, Ranked
<1>4. CASE x.ty # "DOUBLE"
  <2>1. IsValue(u) BY <1>4, Numbers, ValueInRange
  <2>2. IsValue(Promoted(u)) /\ Promoted(u).ty \in Ranked /\ Promoted(u).v = u.v
        /\ (u.ty \in Ranked => Promoted(u) = u)
    BY <2>1, PromotedIsValue
  <2>3. x.ty \in {"BOOL", "CHAR"} => ArithOperand(x).ty = "INT"
    BY ValueParts DEF ArithOperand
  <2>. HIDE DEF u
  <2>. QED BY <1>1, <1>2, <1>4, <2>2, <2>3, Numbers
<1>. QED BY <1>3, <1>4

(* Operands, once long is long long where it is as wide. *)
LEMMA LongPromotes ==
  ASSUME NEW x, IsOperand(x), Numeric(x)
  PROVE  /\ PromoteLong(ArithOperand(x)).v = x.v /\ x.v \in Int
         /\ PromoteLong(ArithOperand(x)).ty = "ULLONG" <=> Unsigned64(x)
         /\ PromoteLong(ArithOperand(x)).ty = "DOUBLE" <=> x.ty = "DOUBLE"
<1>. DEFINE p == ArithOperand(x)
<1>1. p.v = x.v /\ x.v \in Int /\ (p.ty = "DOUBLE" <=> x.ty = "DOUBLE")
  BY OperandPromotes DEF Ranked
<1>2. PromoteLong(p).v = p.v /\ (PromoteLong(p).ty = "DOUBLE" <=> p.ty = "DOUBLE")
      /\ (PromoteLong(p).ty = "ULLONG" <=> p.ty = "ULLONG" \/ (p.ty = "ULONG" /\ LongBits = LLongBits))
  BY ValueParts DEF PromoteLong
<1>3. Unsigned64(x) <=> x.ty = "ULLONG" \/ (x.ty = "ULONG" /\ LongBits = LLongBits)
  <2>1. IntBits # LLongBits /\ IntBits \in Nat /\ LLongBits \in Nat
    BY OperandAssumption, WidthsAssumption
  <2>. QED BY <2>1 DEF Unsigned64, Ranked, IsSigned, Bits
<1>4. p.ty = "ULLONG" <=> x.ty = "ULLONG"
  BY OperandPromotes, Numbers DEF Ranked, IntegerTypes
<1>5. p.ty = "ULONG" <=> x.ty = "ULONG"
  BY OperandPromotes, Numbers DEF Ranked, IntegerTypes
<1>. QED BY <1>1, <1>2, <1>3, <1>4, <1>5

LEMMA Value64Is ==
  ASSUME NEW x, IsOperand(x), Numeric(x), NEW ty \in {"LLONG", "ULLONG"}
  PROVE  /\ IsOutcome(Value64(ty, x)) /\ ty \in Ranked /\ ty \in IntegerTypes
         /\ Value64(ty, x) # Undefined => Value64(ty, x).ty = ty /\ InRange(ty, Value64(ty, x).v)
         /\ x.ty # "DOUBLE" => Value64(ty, x) # Undefined
         /\ To64bit(PromoteLong(ArithOperand(x)), ty) = Value64(ty, x)
<1>1. ty \in Ranked /\ ty \in IntegerTypes BY DEF Ranked, IntegerTypes
<1>2. x.v \in Int BY Numbers
<1>3. IsValue(Value(ty, Wrapped(ty, x.v))) BY <1>1, <1>2, WrapsIntoRange, ValueInRange
<1>4. To64bit(PromoteLong(ArithOperand(x)), ty) = Value64(ty, x)
  BY LongPromotes DEF To64bit, Value64, Cast
<1>. QED BY <1>1, <1>3, <1>4, ValueParts, UndefinedIsNone DEF Value64, IsOutcome, IsValue

LEMMA SidesAre ==
  ASSUME NEW x, NEW y, IsOperand(x), IsOperand(y), Numeric(x), Numeric(y)
  PROVE  /\ Sides(x, y) = <<Value64(Type64(<<x, y>>), x), Value64(Type64(<<x, y>>), y)>>
         /\ Type64(<<x, y>>) \in {"LLONG", "ULLONG"}
<1>. DEFINE l == PromoteLong(ArithOperand(x))
            r == PromoteLong(ArithOperand(y))
            ty == Type64(<<x, y>>)
<1>1. ty = PromotedType(l, r)
  <2>1. l.ty = "ULLONG" <=> Unsigned64(x) BY LongPromotes
  <2>2. r.ty = "ULLONG" <=> Unsigned64(y) BY LongPromotes
  <2>3. Unsigned64(x) \/ Unsigned64(y) <=> \E i \in DOMAIN <<x, y>> : Unsigned64(<<x, y>>[i])
    <3>1. DOMAIN <<x, y>> = {1, 2} /\ <<x, y>>[1] = x /\ <<x, y>>[2] = y OBVIOUS
    <3>. QED BY <3>1
  <2>. QED BY <2>1, <2>2, <2>3 DEF Type64, PromotedType
<1>2. ty \in {"LLONG", "ULLONG"} BY DEF Type64
<1>3. To64bit(l, ty) = Value64(ty, x) /\ To64bit(r, ty) = Value64(ty, y)
  BY <1>2, Value64Is
<1>4. Sides(x, y) = <<To64bit(l, ty), To64bit(r, ty)>>
  BY <1>1 DEF Sides, PromoteSides
<1>. QED BY <1>2, <1>3, <1>4

LEMMA OneSide ==
  ASSUME NEW x, IsOperand(x), Numeric(x)
  PROVE  Promoted64(x) = Value64(Type64(<<x>>), x) /\ Type64(<<x>>) \in {"LLONG", "ULLONG"}
<1>. DEFINE p == PromoteLong(ArithOperand(x))
            ty == Type64(<<x>>)
<1>1. ty \in {"LLONG", "ULLONG"} /\ (ty = "ULLONG" <=> Unsigned64(x))
  <2>1. Unsigned64(x) <=> \E i \in DOMAIN <<x>> : Unsigned64(<<x>>[i])
    <3>1. DOMAIN <<x>> = {1} /\ <<x>>[1] = x OBVIOUS
    <3>. QED BY <3>1
  <2>. QED BY <2>1 DEF Type64
<1>2. p.ty = "ULLONG" <=> Unsigned64(x) BY LongPromotes
<1>3. To64bit(p, ty) = Value64(ty, x) BY <1>1, Value64Is
<1>4. p.ty = "ULLONG" => p = To64bit(p, "ULLONG")
  <2>. SUFFICES ASSUME p.ty = "ULLONG" PROVE p = To64bit(p, "ULLONG") OBVIOUS
  <2>1. x.ty # "DOUBLE" /\ p.ty # "DOUBLE" BY LongPromotes
  <2>2. IsValue(p)
    <3>1. IsValue(ArithOperand(x)) BY <2>1, OperandPromotes
    <3>2. CASE p = ArithOperand(x) BY <3>1, <3>2
    <3>3. CASE p # ArithOperand(x)
      <4>1. ArithOperand(x).ty = "ULONG" /\ LongBits = LLongBits
            /\ p = Value("ULLONG", ArithOperand(x).v)
        BY <3>3, ValueParts DEF PromoteLong
      <4>2. Lowest("ULONG") = Lowest("ULLONG") /\ Highest("ULONG") = Highest("ULLONG")
        BY <4>1 DEF Lowest, Highest, IsSigned, Bits
      <4>3. InRange("ULLONG", ArithOperand(x).v) /\ ArithOperand(x).v \in Int
        BY <3>1, <4>1, <4>2 DEF IsValue, InRange
      <4>. QED BY <4>1, <4>3, ValueInRange DEF IntegerTypes, Ranked
    <3>. QED BY <3>2, <3>3
  <2>3. Cast(p, "ULLONG") = p BY <2>2, CastIsValue DEF IsValue
  <2>. QED BY <2>1, <2>3 DEF To64bit
<1>5. Promoted64(x) = IF p.ty = "ULLONG" THEN p ELSE To64bit(p, "LLONG")
  BY DEF Promoted64
<1>. QED BY <1>1, <1>2, <1>3, <1>4, <1>5

-----------------------------------------------------------------------------
(* Numbers *)

(* An operator of two values of one 64-bit type. *)
LEMMA SameTypeIsExact ==
  ASSUME NEW a, NEW b, IsValue(a), IsValue(b), NEW ty \in Ranked, a.ty = ty, b.ty = ty
  PROVE  /\ \A op \in Arithmetic : EvalBinary(op, a, b) = CArithmetic(op, ty, a.v, b.v)
         /\ \A op \in Comparisons : /\ IsValue(EvalBinary(op, a, b))
                                    /\ CArithmetic(op, ty, a.v, b.v) # Undefined
                                    /\ EvalBinary(op, a, b).v = CArithmetic(op, ty, a.v, b.v).v
<1>. ty \in IntegerTypes BY DEF IntegerTypes
<1>1. Promoted(a) = a /\ Promoted(b) = b /\ CommonType(ty, ty) = ty
  BY PromotedIsValue, SameCommonType
<1>2. Wrapped(ty, a.v) = a.v /\ Wrapped(ty, b.v) = b.v
  BY WrapsToItself DEF IsValue
<1>3. \A op : CBinary(op, a, b) = CArithmetic(op, ty, a.v, b.v)
  BY <1>1, <1>2 DEF CBinary, CConverted
<1>4. ASSUME NEW op \in Arithmetic
      PROVE  EvalBinary(op, a, b) = CArithmetic(op, ty, a.v, b.v)
  <2>1. ConvertBin(a, b) = <<a, b>> BY DEF ConvertBin
  <2>2. op \notin Logical /\ op \notin Shifts /\ op \notin Comparisons
    BY DEF Logical, Shifts, Comparisons, Arithmetic
  <2>3. EvalBinary(op, a, b) = Arith(op, ty, a.v, b.v)
    BY <1>1, <2>1, <2>2 DEF EvalBinary
  <2>. QED BY <2>3, ArithIsExact DEF IsValue
<1>5. ASSUME NEW op \in Comparisons
      PROVE  /\ IsValue(EvalBinary(op, a, b))
             /\ CArithmetic(op, ty, a.v, b.v) # Undefined
             /\ EvalBinary(op, a, b).v = CArithmetic(op, ty, a.v, b.v).v
  <2>1. ConvertBin(a, b) = <<a, b>> BY DEF ConvertBin
  <2>2. op \notin Logical /\ op \notin Shifts
    BY DEF Logical, Shifts, Comparisons
  <2>. DEFINE t == Compare(op, a.v, b.v)
  <2>3. EvalBinary(op, a, b) = Truth(t)
    BY <1>1, <2>1, <2>2 DEF EvalBinary
  <2>4. t \in BOOLEAN /\ CArithmetic(op, ty, a.v, b.v) = CInt(t) BY CompareIsExact
  <2>. HIDE DEF t
  <2>5. IsValue(Truth(t)) /\ IsValue(CInt(t)) /\ Truth(t).v = CInt(t).v
    BY <2>4, TruthIsInt, ValueParts DEF Truth, CInt
  <2>. QED BY <2>3, <2>4, <2>5, UndefinedIsNone
<1>. QED BY <1>4, <1>5

(* What the code and the rule make of the operands of a binary operator. *)
LEMMA BinarySides ==
  ASSUME NEW x, NEW y, IsOperand(x), IsOperand(y), Numeric(x), Numeric(y)
  PROVE  LET ty == Type64(<<x, y>>)
             a == Value64(ty, x)
             b == Value64(ty, y)
         IN  /\ Undefined \in {a, b} => \A cop : Arith64bit(cop, Sides(x, y)) = Undefined
             /\ Undefined \notin {a, b} =>
                  /\ \A cop \in Arithmetic :
                       Arith64bit(cop, Sides(x, y)) = CArithmetic(cop, ty, a.v, b.v)
                  /\ \A cop \in Comparisons :
                       /\ IsValue(Arith64bit(cop, Sides(x, y)))
                       /\ CArithmetic(cop, ty, a.v, b.v) # Undefined
                       /\ Arith64bit(cop, Sides(x, y)).v = CArithmetic(cop, ty, a.v, b.v).v
<1>. DEFINE ty == Type64(<<x, y>>)
            a == Value64(ty, x)
            b == Value64(ty, y)
<1>1. Sides(x, y) = <<a, b>> /\ ty \in {"LLONG", "ULLONG"} BY SidesAre
<1>2. /\ IsOutcome(a) /\ IsOutcome(b) /\ ty \in Ranked
      /\ a # Undefined => a.ty = ty
      /\ b # Undefined => b.ty = ty
  BY <1>1, Value64Is
<1>. HIDE DEF ty, a, b
<1>3. \A cop : Arith64bit(cop, Sides(x, y)) =
                 IF Undefined \in {a, b} THEN Undefined ELSE EvalBinary(cop, a, b)
  BY <1>1 DEF Arith64bit
<1>4. Undefined \notin {a, b} =>
        /\ \A cop \in Arithmetic : EvalBinary(cop, a, b) = CArithmetic(cop, ty, a.v, b.v)
        /\ \A cop \in Comparisons : /\ IsValue(EvalBinary(cop, a, b))
                                    /\ CArithmetic(cop, ty, a.v, b.v) # Undefined
                                    /\ EvalBinary(cop, a, b).v = CArithmetic(cop, ty, a.v, b.v).v
  BY <1>2, SameTypeIsExact DEF IsOutcome
<1>5. /\ Undefined \in {a, b} => \A cop : Arith64bit(cop, Sides(x, y)) = Undefined
      /\ Undefined \notin {a, b} =>
           /\ \A cop \in Arithmetic :
                Arith64bit(cop, Sides(x, y)) = CArithmetic(cop, ty, a.v, b.v)
           /\ \A cop \in Comparisons :
                /\ IsValue(Arith64bit(cop, Sides(x, y)))
                /\ CArithmetic(cop, ty, a.v, b.v) # Undefined
                /\ Arith64bit(cop, Sides(x, y)).v = CArithmetic(cop, ty, a.v, b.v).v
  BY <1>3, <1>4
<1>. QED BY <1>5 DEF ty, a, b

(* The operator of each metamethod. *)
LEMMA OperatorKinds ==
  /\ DOMAIN ArithOps = {"mul", "div", "idiv", "mod", "band", "bor", "bxor"}
  /\ DOMAIN UnaryMetas = {"unm", "bnot"}
  /\ DOMAIN ShiftOps = {"shl", "shr"}
  BY DEF ArithOps, UnaryMetas, ShiftOps

LEMMA OperatorCases ==
  ASSUME NEW x, NEW y
  PROVE  /\ Operator("add", x, y) = Add(x, y) /\ Operator("sub", x, y) = Sub(x, y)
         /\ Operator("pow", x, y) = Pow(x, y) /\ Operator("eq", x, y) = Eq(x, y)
         /\ Operator("lt", x, y) = Lt(x, y) /\ Operator("le", x, y) = Le(x, y)
         /\ Operator("index", x, y) = Index(x, y)
         /\ Operator("concat", x, y) = Meta("__concat", x, y, Raises)
         /\ Operator("len", x, y) = TryMeta("__len", x, x, TRUE, FALSE, FALSE, Raises)
         /\ \A op \in DOMAIN ArithOps :
              Operator(op, x, y) = Meta(ArithOps[op][1], x, y, ArithBin(ArithOps[op][2], x, y))
         /\ \A op \in DOMAIN UnaryMetas :
              Operator(op, x, y) = ArithUn(UnaryMetas[op][1], UnaryMetas[op][2], x)
         /\ \A op \in DOMAIN ShiftOps :
              Operator(op, x, y) = ShiftBin(ShiftOps[op][1], ShiftOps[op][2], x, y)
<1>1. Operator("add", x, y) = Add(x, y)
  BY OperatorKinds DEF Operator
<1>2. Operator("sub", x, y) = Sub(x, y)
  BY OperatorKinds DEF Operator
<1>3. Operator("pow", x, y) = Pow(x, y)
  BY OperatorKinds DEF Operator
<1>4. Operator("eq", x, y) = Eq(x, y)
  BY OperatorKinds DEF Operator
<1>5. Operator("lt", x, y) = Lt(x, y)
  BY OperatorKinds DEF Operator
<1>6. Operator("le", x, y) = Le(x, y)
  BY OperatorKinds DEF Operator
<1>7. Operator("index", x, y) = Index(x, y)
  BY OperatorKinds DEF Operator
<1>8. Operator("concat", x, y) = Meta("__concat", x, y, Raises)
  BY OperatorKinds DEF Operator
<1>9. Operator("len", x, y) = TryMeta("__len", x, x, TRUE, FALSE, FALSE, Raises)
  BY OperatorKinds DEF Operator
<1>10. ASSUME NEW op \in DOMAIN ArithOps PROVE Operator(op, x, y) = Meta(ArithOps[op][1], x, y, ArithBin(ArithOps[op][2], x, y))
  <2>1. op \notin {"add", "sub", "pow", "eq", "lt", "le", "index", "concat", "len"}
        /\ op \notin DOMAIN UnaryMetas /\ op \notin DOMAIN ShiftOps
    BY OperatorKinds
  <2>. QED BY <2>1, Zenon DEF Operator
<1>11. ASSUME NEW op \in DOMAIN UnaryMetas PROVE Operator(op, x, y) = ArithUn(UnaryMetas[op][1], UnaryMetas[op][2], x)
  <2>1. op \notin {"add", "sub", "pow", "eq", "lt", "le", "index", "concat", "len"}
        /\ op \notin DOMAIN ArithOps /\ op \notin DOMAIN ShiftOps
    BY OperatorKinds
  <2>. QED BY <2>1, Zenon DEF Operator
<1>12. ASSUME NEW op \in DOMAIN ShiftOps PROVE Operator(op, x, y) = ShiftBin(ShiftOps[op][1], ShiftOps[op][2], x, y)
  <2>1. op \notin {"add", "sub", "pow", "eq", "lt", "le", "index", "concat", "len"}
        /\ op \notin DOMAIN ArithOps /\ op \notin DOMAIN UnaryMetas
    BY OperatorKinds
  <2>. QED BY <2>1, Zenon DEF Operator
<1>. QED BY <1>1, <1>2, <1>3, <1>4, <1>5, <1>6, <1>7, <1>8, <1>9, <1>10, <1>11, <1>12

(* The operator itself, for two numbers. *)
LEMMA NumbersAreComputed ==
  ASSUME NEW x, NEW y, IsOperand(x), IsOperand(y), Numeric(x), Numeric(y), Callable("add", x, y)
  PROVE  /\ \A m, o : Meta(m, x, y, o) = o
         /\ \A m, o : IsCdata(x) => TryMeta(m, x, x, TRUE, FALSE, FALSE, o) = o
         /\ \A op \in DOMAIN Binary2C \ Comparing : Operator(op, x, y) = ArithBin(Binary2C[op], x, y)
         /\ \A op \in {"lt", "le"} : Operator(op, x, y) = ArithCmp(Binary2C[op], x, y)
         /\ IsCdata(x) /\ IsCdata(y) => Operator("eq", x, y) = ArithCmp("==", x, y)
         /\ Operator("pow", x, y) = Boxed(Power(Sides(x, y)))
         /\ \A op \in DOMAIN Shift2C :
              Operator(op, x, y) = ShiftSides(Shift2C[op], Promoted64(x), ArithOperand(y))
         /\ \A op \in DOMAIN Unary2C : IsCdata(x) =>
              Operator(op, x, x) = IF Promoted64(x) = Undefined THEN Unspecified
                                   ELSE Boxed(EvalUnary(Unary2C[op], Promoted64(x)))
<1>1. /\ IsArith(x) /\ IsArith(y) /\ ~PtrLike(x) /\ ~PtrLike(y)
      /\ ~IsRecordPtr(x) /\ ~IsRecordPtr(y)
  BY Numbers
<1>2. \A m : ~HasMeta(x, m) /\ ~HasMeta(y, m) BY <1>1 DEF HasMeta
<1>3. \A m, o : Meta(m, x, y, o) = o BY <1>2 DEF Meta, TryMeta
<1>4. \A m, o : IsCdata(x) => TryMeta(m, x, x, TRUE, FALSE, FALSE, o) = o
  BY <1>2 DEF TryMeta
<1>5. /\ Operator("add", x, y) = ArithBin("+", x, y)
      /\ Operator("sub", x, y) = ArithBin("-", x, y)
  <2>1. Add(x, y) = Meta("__add", x, y, ArithBin("+", x, y)) BY <1>1 DEF Add
  <2>2. Sub(x, y) = Meta("__sub", x, y, ArithBin("-", x, y)) BY <1>1 DEF Sub
  <2>3. Operator("add", x, y) = Add(x, y) /\ Operator("sub", x, y) = Sub(x, y) BY OperatorCases
  <2>. QED BY <1>3, <2>1, <2>2, <2>3
<1>6. ASSUME NEW op \in DOMAIN ArithOps
      PROVE  Operator(op, x, y) = ArithBin(ArithOps[op][2], x, y)
  <2>1. Operator(op, x, y) = Meta(ArithOps[op][1], x, y, ArithBin(ArithOps[op][2], x, y))
    BY OperatorCases
  <2>. QED BY <1>3, <2>1
<1>7. \A op \in DOMAIN Binary2C \ Comparing : Operator(op, x, y) = ArithBin(Binary2C[op], x, y)
  <2>1. DOMAIN Binary2C \ Comparing = {"add", "sub"} \cup DOMAIN ArithOps
    BY OperatorKinds DEF Binary2C, Comparing
  <2>2. \A op \in DOMAIN ArithOps : ArithOps[op][2] = Binary2C[op]
    BY OperatorKinds DEF Binary2C, ArithOps
  <2>3. Binary2C["add"] = "+" /\ Binary2C["sub"] = "-"
    BY DEF Binary2C
  <2>. QED BY <1>5, <1>6, <2>1, <2>2, <2>3
<1>8. \A op \in {"lt", "le"} : Operator(op, x, y) = ArithCmp(Binary2C[op], x, y)
  <2>1. Lt(x, y) = ArithCmp("<", x, y) BY <1>1 DEF Lt, CmpBase
  <2>2. Le(x, y) = ArithCmp("<=", x, y) BY <1>1 DEF Le, CmpBase
  <2>3. Binary2C["lt"] = "<" /\ Binary2C["le"] = "<=" BY DEF Binary2C
  <2>. QED BY <2>1, <2>2, <2>3, OperatorCases
<1>9. IsCdata(x) /\ IsCdata(y) => Operator("eq", x, y) = ArithCmp("==", x, y)
  <2>1. IsCdata(x) /\ IsCdata(y) => Eq(x, y) = Meta("__eq", x, y, ArithCmp("==", x, y))
    BY <1>1 DEF Eq
  <2>2. Operator("eq", x, y) = Eq(x, y) BY OperatorCases
  <2>. QED BY <1>3, <2>1, <2>2
<1>10. Operator("pow", x, y) = Boxed(Power(Sides(x, y)))
  <2>1. Pow(x, y) = Meta("__pow", x, y, Boxed(Power(Sides(x, y)))) BY <1>1 DEF Pow
  <2>2. Operator("pow", x, y) = Pow(x, y) BY OperatorCases
  <2>. QED BY <1>3, <2>1, <2>2
<1>11. ASSUME NEW op \in DOMAIN Shift2C
       PROVE  Operator(op, x, y) = ShiftSides(Shift2C[op], Promoted64(x), ArithOperand(y))
  <2>1. op \in DOMAIN ShiftOps /\ ShiftOps[op][2] = Shift2C[op]
    BY DEF ShiftOps, Shift2C
  <2>2. Operator(op, x, y) = ShiftBin(ShiftOps[op][1], ShiftOps[op][2], x, y)
    BY <2>1, OperatorCases
  <2>. QED BY <1>1, <1>3, <2>1, <2>2 DEF ShiftBin
<1>12. ASSUME NEW op \in DOMAIN Unary2C, IsCdata(x)
       PROVE  Operator(op, x, x) = IF Promoted64(x) = Undefined THEN Unspecified
                                   ELSE Boxed(EvalUnary(Unary2C[op], Promoted64(x)))
  <2>1. op \in DOMAIN UnaryMetas /\ UnaryMetas[op][2] = Unary2C[op]
    BY DEF UnaryMetas, Unary2C
  <2>2. Operator(op, x, x) = ArithUn(UnaryMetas[op][1], UnaryMetas[op][2], x)
    BY <2>1, OperatorCases
  <2>. DEFINE v == Boxed(IF Promoted64(x) = Undefined THEN Promoted64(x)
                         ELSE EvalUnary(Unary2C[op], Promoted64(x)))
  <2>3. Operator(op, x, x) = TryMeta(UnaryMetas[op][1], x, x, TRUE, FALSE, FALSE, v)
    BY <1>1, <2>1, <2>2 DEF ArithUn
  <2>4. Operator(op, x, x) = v BY <1>4, <1>12, <2>3
  <2>. QED BY <2>4 DEF Boxed
<1>. QED BY <1>3, <1>4, <1>7, <1>8, <1>9, <1>10, <1>11, <1>12

-----------------------------------------------------------------------------
(* Powers *)

(* What comes of multiplying: a value of the type, if one is defined. *)
Products(ty) == {Undefined} \cup {Value(ty, n) : n \in {k \in Int : InRange(ty, k)}}

LEMMA ProductParts ==
  ASSUME NEW ty \in IntegerTypes
  PROVE  /\ \A s \in Products(ty) : s # Undefined => s = Value(ty, s.v) /\ InRange(ty, s.v)
         /\ \A s \in Products(ty) : s.v \in Int /\ IsOutcome(s)
         /\ \A n \in Int : Result(ty, n) \in Products(ty) /\ Exactly(ty, n) = Result(ty, n)
         /\ Value(ty, 1) \in Products(ty)
<1>1. ASSUME NEW s \in Products(ty), s # Undefined
      PROVE  s = Value(ty, s.v) /\ InRange(ty, s.v) /\ s.v \in Int /\ IsValue(s)
  <2>1. PICK n \in {k \in Int : InRange(ty, k)} : s = Value(ty, n) BY <1>1 DEF Products
  <2>. QED BY <2>1, ValueParts, ValueInRange
<1>2. ASSUME NEW s \in Products(ty) PROVE s.v \in Int /\ IsOutcome(s)
  BY <1>1, UndefinedIsNone DEF IsOutcome
<1>3. ASSUME NEW n \in Int, InRange(ty, n) PROVE Value(ty, n) \in Products(ty)
  BY <1>3 DEF Products
<1>4. ASSUME NEW n \in Int PROVE Result(ty, n) \in Products(ty) /\ Exactly(ty, n) = Result(ty, n)
  <2>1. Wrapped(ty, n) \in Int /\ InRange(ty, Wrapped(ty, n)) BY WrapsIntoRange
  <2>2. Undefined \in Products(ty) BY DEF Products
  <2>. QED BY <1>3, <2>1, <2>2, ResultIsExact DEF Result
<1>5. Value(ty, 1) \in Products(ty)
  BY <1>3, ZeroAndOne
<1>. QED BY <1>1, <1>2, <1>4, <1>5

(* The powers that C computes, one product after the other. *)
Powers(P, ty, a) ==
  /\ P \in [Nat -> Products(ty)] /\ P[0] = Value(ty, 1)
  /\ \A n \in Nat : P[n + 1] = IF P[n] = Undefined THEN Undefined ELSE Result(ty, P[n].v * a)

LEMMA PowersExist ==
  ASSUME NEW ty \in IntegerTypes, NEW a \in Int
  PROVE  \E P : Powers(P, ty, a) /\ \A b \in Nat : CPower(ty, a, b) = P[b]
<1>. DEFINE S == Products(ty)
            power[n \in Nat] ==
              IF n = 0 THEN Value(ty, 1)
              ELSE IF power[n - 1] = Undefined THEN Undefined
              ELSE CArithmetic("*", ty, power[n - 1].v, a)
            Times(s) == IF s = Undefined THEN Undefined ELSE CArithmetic("*", ty, s.v, a)
            step == [n \in Nat |-> [s \in S |-> Times(s)]]
<1>1. \A s \in S : /\ Times(s) = IF s = Undefined THEN Undefined ELSE Result(ty, s.v * a)
                   /\ Times(s) \in S
  <2>1. \A n \in Int : CArithmetic("*", ty, n, a) = Exactly(ty, n * a)
    BY DEF CArithmetic
  <2>2. \A s \in S : s.v \in Int /\ s.v * a \in Int BY ProductParts
  <2>3. Undefined \in S BY DEF Products
  <2>. QED BY <2>1, <2>2, <2>3, ProductParts
<1>2. Value(ty, 1) \in S BY ProductParts
<1>. HIDE DEF S
<1>3. step \in [Nat -> [S -> S]]
  BY <1>1
<1>4. \A n \in Nat, s \in S : step[n][s] = Times(s)
  OBVIOUS
<1>. HIDE DEF step
<1>5. PICK f \in [Nat -> S] : Iterates(f, Value(ty, 1), step)
  BY <1>2, <1>3, Iteration
<1>6. \A n \in Nat : f[n + 1] = Times(f[n])
  BY <1>4, <1>5 DEF Iterates
<1>7. f = [n \in Nat |-> IF n = 0 THEN Value(ty, 1)
                         ELSE IF f[n - 1] = Undefined THEN Undefined
                         ELSE CArithmetic("*", ty, f[n - 1].v, a)]
  <2>1. ASSUME NEW n \in Nat PROVE f[n] = IF n = 0 THEN Value(ty, 1) ELSE Times(f[n - 1])
    <3>. HIDE DEF Times
    <3>1. CASE n = 0 BY <3>1, <1>5 DEF Iterates
    <3>2. CASE n # 0
      <4>1. n - 1 \in Nat /\ (n - 1) + 1 = n BY <3>2
      <4>2. f[(n - 1) + 1] = Times(f[n - 1]) BY <4>1, <1>6
      <4>. QED BY <4>1, <4>2, <3>2
    <3>. QED BY <3>1, <3>2
  <2>. QED BY <2>1, Zenon
<1>8. power = [n \in Nat |-> IF n = 0 THEN Value(ty, 1)
                             ELSE IF power[n - 1] = Undefined THEN Undefined
                             ELSE CArithmetic("*", ty, power[n - 1].v, a)]
  BY <1>7, Zenon
<1>9. \A b : CPower(ty, a, b) = power[b]
  BY Zenon DEF CPower
<1>. HIDE DEF power
<1>10. power[0] = Value(ty, 1) /\ \A n \in Nat : power[n + 1] = Times(power[n])
  <2>1. ASSUME NEW n \in Nat PROVE power[n + 1] = Times(power[n])
    <3>1. n + 1 \in Nat /\ n + 1 # 0 /\ (n + 1) - 1 = n OBVIOUS
    <3>. QED BY <1>8, <3>1, Zenon
  <2>. QED BY <2>1, <1>8
<1>. HIDE DEF Times
<1>11. \A n \in Nat : power[n] \in S
  <2>. DEFINE T == {n \in Nat : power[n] \in S}
  <2>1. 0 \in T BY <1>2, <1>10
  <2>2. ASSUME NEW n \in T PROVE n + 1 \in T
    BY <1>1, <1>10
  <2>. HIDE DEF T
  <2>3. T = Nat BY <2>1, <2>2, NaturalInduction DEF T
  <2>. QED BY <2>3 DEF T
<1>12. power \in [Nat -> S]
  BY <1>8, <1>11
<1>13. \A n \in Nat : power[n + 1] = IF power[n] = Undefined THEN Undefined ELSE Result(ty, power[n].v * a)
  BY <1>1, <1>10, <1>11
<1>. QED BY <1>9, <1>10, <1>12, <1>13 DEF Powers, S

(* The result of an operation is a value that differs from it by a multiple *)
(* of the number of values, of zero if the type is signed.                  *)
LEMMA ResultDiffers ==
  ASSUME NEW ty \in IntegerTypes, NEW n \in Int, Result(ty, n) # Undefined
  PROVE  /\ Result(ty, n).v \in Int /\ InRange(ty, Result(ty, n).v)
         /\ Result(ty, n) = Value(ty, Result(ty, n).v)
         /\ \E k \in Int : Result(ty, n).v = n + k * TwoTo[Bits(ty)] /\ (IsSigned(ty) => k = 0)
<1>. DEFINE M == TwoTo[Bits(ty)]
<1>1. M \in Int BY Ranges
<1>2. CASE IsSigned(ty)
  <2>1. InRange(ty, n) /\ Result(ty, n) = Value(ty, n) BY <1>2, ResultIsExact
  <2>. HIDE DEF M
  <2>2. n = n + 0 * M BY <1>1
  <2>. QED BY <2>1, <2>2, ValueParts DEF M
<1>3. CASE ~IsSigned(ty)
  <2>1. Result(ty, n) = Value(ty, Wrapped(ty, n)) BY <1>3 DEF Result
  <2>. QED BY <1>3, <2>1, WrapsIntoRange, ValueParts
<1>. QED BY <1>2, <1>3

LEMMA ResultOfEqual ==
  ASSUME NEW ty \in IntegerTypes, NEW n \in Int, NEW v \in Int, InRange(ty, v),
         NEW k \in Int, v = n + k * TwoTo[Bits(ty)], IsSigned(ty) => k = 0
  PROVE  Result(ty, n) = Value(ty, v)
<1>1. CASE IsSigned(ty)
  <2>1. v = n
    <3>. DEFINE M == TwoTo[Bits(ty)]
    <3>1. M \in Int BY Ranges
    <3>. HIDE DEF M
    <3>2. v = n + 0 * M BY <1>1 DEF M
    <3>. QED BY <3>1, <3>2
  <2>. QED BY <2>1, ResultIsExact
<1>2. CASE ~IsSigned(ty)
  <2>1. Wrapped(ty, n) = v BY OneWrapped
  <2>. QED BY <1>2, <2>1 DEF Result
<1>. QED BY <1>1, <1>2

(* Where a power is defined, so are those before it, and it is the product *)
(* of any two of them.                                                     *)
LEMMA EarlierPowers ==
  ASSUME NEW ty, NEW a, NEW P, Powers(P, ty, a), NEW m \in Nat
  PROVE  \A n \in Nat : P[m + n] # Undefined => P[m] # Undefined
<1>. DEFINE T == {n \in Nat : P[m + n] # Undefined => P[m] # Undefined}
<1>1. 0 \in T OBVIOUS
<1>2. ASSUME NEW n \in T PROVE n + 1 \in T
  <2>1. P[(m + n) + 1] # Undefined => P[m + n] # Undefined
    BY DEF Powers
  <2>. QED BY <2>1
<1>. HIDE DEF T
<1>3. T = Nat BY <1>1, <1>2, NaturalInduction DEF T
<1>. QED BY <1>3 DEF T

LEMMA PowerIsProduct ==
  ASSUME NEW ty \in IntegerTypes, NEW a \in Int, NEW P, Powers(P, ty, a), NEW m \in Nat
  PROVE  \A n \in Nat : P[m + n] # Undefined =>
           P[m] # Undefined /\ P[n] # Undefined /\ P[m + n] = Result(ty, P[m].v * P[n].v)
<1>. DEFINE M == TwoTo[Bits(ty)]
            T == {n \in Nat : P[m + n] # Undefined =>
                    P[m] # Undefined /\ P[n] # Undefined /\ P[m + n] = Result(ty, P[m].v * P[n].v)}
<1>1. \A n \in Nat : /\ P[n] \in Products(ty) /\ P[n].v \in Int
                     /\ P[n] # Undefined => P[n] = Value(ty, P[n].v)
  BY ProductParts DEF Powers
<1>2. P[0] = Value(ty, 1) /\ Value(ty, 1) # Undefined /\ P[0].v = 1
  BY UndefinedIsNone, ValueParts DEF Powers
<1>3. ASSUME NEW n \in Nat, P[n + 1] # Undefined
      PROVE  P[n] # Undefined /\ P[n + 1] = Result(ty, P[n].v * a)
  BY <1>3 DEF Powers
<1>4. ASSUME NEW n \in Nat, P[n] # Undefined PROVE InRange(ty, P[n].v)
  BY <1>4, <1>1, ProductParts
<1>5. 0 \in T
  <2>1. P[m] # Undefined => P[m] = Result(ty, P[m].v * 1)
    <3>. SUFFICES ASSUME P[m] # Undefined PROVE P[m] = Result(ty, P[m].v * 1) OBVIOUS
    <3>1. P[m].v \in Int /\ P[m].v * 1 = P[m].v BY <1>1
    <3>. QED BY <1>1, <1>4, <3>1, ResultIsExact
  <2>. QED BY <1>2, <2>1
<1>6. ASSUME NEW n \in T PROVE n + 1 \in T
  <2>. SUFFICES ASSUME P[(m + n) + 1] # Undefined
                PROVE  /\ P[m] # Undefined /\ P[n + 1] # Undefined
                       /\ P[(m + n) + 1] = Result(ty, P[m].v * P[n + 1].v)
    OBVIOUS
  <2>1. m + n \in Nat /\ (m + n) + 1 \in Nat /\ P[m + n] # Undefined
        /\ P[(m + n) + 1] = Result(ty, P[m + n].v * a)
    BY <1>3
  <2>2. P[m] # Undefined /\ P[m + n] = Result(ty, P[m].v * P[n].v) BY <2>1
  <2>3. P[n + 1] # Undefined
    <3>1. P[(n + 1) + m] # Undefined
      <4>1. (n + 1) + m = (m + n) + 1 OBVIOUS
      <4>. QED BY <4>1
    <3>. QED BY <3>1, EarlierPowers
  <2>4. P[n + 1] = Result(ty, P[n].v * a) BY <1>3, <2>3
  <2>. DEFINE p == P[m].v
              q == P[n].v
              r == P[m + n].v
              q1 == P[n + 1].v
              r1 == P[(m + n) + 1].v
  <2>5. p \in Int /\ q \in Int /\ r \in Int /\ q1 \in Int /\ r1 \in Int
    BY <1>1, <2>1
  <2>6. p * q \in Int /\ q * a \in Int /\ r * a \in Int /\ p * q1 \in Int /\ M \in Int
    BY <2>5, Ranges
  <2>7. PICK i \in Int : r = p * q + i * M /\ (IsSigned(ty) => i = 0)
    BY <2>1, <2>2, <2>6, ResultDiffers
  <2>8. PICK j \in Int : q1 = q * a + j * M /\ (IsSigned(ty) => j = 0)
    BY <2>3, <2>4, <2>6, ResultDiffers
  <2>9. PICK k \in Int : r1 = r * a + k * M /\ (IsSigned(ty) => k = 0)
    BY <2>1, <2>6, ResultDiffers
  <2>10. InRange(ty, r1) /\ P[(m + n) + 1] = Value(ty, r1)
    BY <1>1, <1>4, <2>1
  <2>. HIDE DEF p, q, r, q1, r1, M
  <2>11. r1 = p * q1 + (k + i * a - p * j) * M
    <3>1. r * a = (p * q) * a + (i * a) * M
      BY <2>5, <2>6, <2>7
    <3>2. p * q1 = (p * q) * a + (p * j) * M
      BY <2>5, <2>6, <2>8
    <3>3. (k + i * a - p * j) * M = k * M + (i * a) * M - (p * j) * M
      BY <2>5, <2>6
    <3>. QED BY <2>5, <2>6, <2>9, <3>1, <3>2, <3>3
  <2>12. k + i * a - p * j \in Int BY <2>5
  <2>13. IsSigned(ty) => k + i * a - p * j = 0
    BY <2>5, <2>7, <2>8, <2>9
  <2>14. Result(ty, p * q1) = Value(ty, r1)
    BY <2>5, <2>6, <2>10, <2>11, <2>12, <2>13, ResultOfEqual DEF M
  <2>. QED BY <2>2, <2>3, <2>10, <2>14 DEF p, q1, r1
<1>. HIDE DEF T
<1>7. T = Nat BY <1>5, <1>6, NaturalInduction DEF T
<1>. QED BY <1>7 DEF T

(* One round of the loop: what is left of the exponent, times the square   *)
(* the base is at, and what the result has of it make up the exponent.     *)
PowerStates(ty) == [base : Int, exp : Nat, ret : Products(ty)]
Halfway(P, ty, b, i, s) ==
  \E r \in Nat : /\ b = s.exp * TwoTo[i] + r /\ s.ret = P[r]
                 /\ s.exp # 0 => P[TwoTo[i]] = Value(ty, s.base)

LEMMA PowStepKeeps ==
  ASSUME NEW ty \in IntegerTypes, NEW a \in Int, NEW P, Powers(P, ty, a), NEW b \in Nat,
         P[b] # Undefined, NEW i \in Nat, NEW s \in PowerStates(ty), Halfway(P, ty, b, i, s)
  PROVE  /\ Halfway(P, ty, b, i + 1, PowStep(ty, s))
         /\ PowStep(ty, s).exp \in Nat
         /\ s.exp = 0 => PowStep(ty, s).exp = 0
         /\ PowStep(ty, s).exp <= s.exp \div 2
<1>. DEFINE e == s.exp
            t == TwoTo[i]
            next == IF e % 2 = 1 THEN Result(ty, s.ret.v * s.base) ELSE s.ret
            rest == e \div 2
            square == Result(ty, s.base * s.base)
            u == PowStep(ty, s)
<1>1. e \in Nat /\ s.base \in Int /\ t \in Nat /\ t >= 1 /\ TwoTo[i + 1] = 2 * t
  BY TwoToStep, TwoToGrows DEF PowerStates
<1>2. PICK r \in Nat : b = e * t + r /\ s.ret = P[r] /\ (e # 0 => P[t] = Value(ty, s.base))
  BY DEF Halfway
<1>3. rest \in Nat /\ (e = 2 * rest \/ e = 2 * rest + 1) /\ (e % 2 = 1 => e = 2 * rest + 1)
      /\ (e % 2 # 1 => e = 2 * rest)
  BY <1>1
<1>4. \A m, n, k \in Nat : m + n + k = b => P[m + n] # Undefined
  <2>1. ASSUME NEW m \in Nat, NEW n \in Nat, NEW k \in Nat, m + n + k = b PROVE P[m + n] # Undefined
    <3>1. m + n \in Nat /\ (m + n) + k = b BY <2>1
    <3>. QED BY <3>1, EarlierPowers
  <2>. QED BY <2>1
<1>5. PowStep(ty, s) =
        IF e = 0 THEN s
        ELSE IF next = Undefined \/ rest = 0 THEN [s EXCEPT !.exp = 0, !.ret = next]
        ELSE IF square = Undefined THEN [s EXCEPT !.exp = 0, !.ret = Undefined]
        ELSE [base |-> square.v, exp |-> rest, ret |-> next]
  BY DEF PowStep
<1>6. CASE e = 0
  <2>1. u = s BY <1>5, <1>6
  <2>2. b = 0 * (2 * t) + r
    BY <1>1, <1>2, <1>6
  <2>3. Halfway(P, ty, b, i + 1, s)
    BY <1>1, <1>2, <1>6, <2>2 DEF Halfway
  <2>. QED BY <1>6, <2>1, <2>3
<1>7. CASE e # 0
  <2>. DEFINE q == IF e % 2 = 1 THEN r + t ELSE r
  <2>1. q \in Nat /\ b = rest * (2 * t) + q
    <3>1. CASE e % 2 = 1
      <4>1. e * t = rest * (2 * t) + t
        <5>1. (2 * rest + 1) * t = rest * (2 * t) + t BY <1>1, <1>3
        <5>. QED BY <1>3, <3>1, <5>1
      <4>. HIDE DEF e, t, rest
      <4>. QED BY <1>1, <1>2, <1>3, <3>1, <4>1
    <3>2. CASE e % 2 # 1
      <4>1. e * t = rest * (2 * t)
        <5>1. (2 * rest) * t = rest * (2 * t) BY <1>1, <1>3
        <5>. QED BY <1>3, <3>2, <5>1
      <4>. HIDE DEF e, t, rest
      <4>. QED BY <1>1, <1>2, <1>3, <3>2, <4>1
    <3>. QED BY <3>1, <3>2
  <2>2. P[t] = Value(ty, s.base) /\ P[t].v = s.base
    BY <1>2, <1>7, ValueParts
  <2>3. rest * (2 * t) \in Nat BY <1>1, <1>3
  <2>4. next = P[q] /\ next # Undefined
    <3>1. CASE e % 2 = 1
      <4>1. r + t + rest * (2 * t) = b BY <1>1, <2>1, <2>3, <3>1
      <4>2. P[r + t] # Undefined BY <1>1, <1>4, <2>3, <4>1
      <4>3. P[r + t] = Result(ty, P[r].v * P[t].v) BY <1>1, <4>2, PowerIsProduct
      <4>. QED BY <1>2, <2>2, <3>1, <4>2, <4>3
    <3>2. CASE e % 2 # 1
      <4>1. r + 0 + rest * (2 * t) = b /\ r + 0 = r BY <1>1, <2>1, <2>3, <3>2
      <4>2. P[r + 0] # Undefined BY <1>4, <2>3, <4>1
      <4>. QED BY <1>2, <3>2, <4>1, <4>2
    <3>. QED BY <3>1, <3>2
  <2>5. CASE rest = 0
    <3>1. u = [s EXCEPT !.exp = 0, !.ret = next] BY <1>5, <1>7, <2>5
    <3>2. u.exp = 0 /\ u.ret = next BY <3>1 DEF PowerStates
    <3>3. b = 0 * (2 * t) + q BY <1>1, <2>1, <2>5
    <3>. HIDE DEF u, q, next, t, rest
    <3>4. Halfway(P, ty, b, i + 1, u)
      BY <1>1, <2>1, <2>4, <3>2, <3>3 DEF Halfway
    <3>5. 0 <= rest BY <1>3
    <3>. QED BY <1>7, <3>2, <3>4, <3>5 DEF u, rest
  <2>6. CASE rest # 0
    <3>1. \E k \in Nat : t + t + k = b
      <4>1. (rest - 1) * (2 * t) \in Nat /\ rest * (2 * t) = (rest - 1) * (2 * t) + 2 * t
        BY <1>1, <1>3, <2>6
      <4>. DEFINE k == (rest - 1) * (2 * t) + q
      <4>2. k \in Nat /\ t + t + k = b BY <1>1, <2>1, <4>1
      <4>. QED BY <4>2
    <3>2. P[t + t] # Undefined BY <1>1, <1>4, <3>1
    <3>3. P[t + t] = square BY <1>1, <2>2, <3>2, PowerIsProduct
    <3>4. P[2 * t] = square /\ square # Undefined
      <4>1. t + t = 2 * t BY <1>1
      <4>. QED BY <3>2, <3>3, <4>1
    <3>5. u = [base |-> square.v, exp |-> rest, ret |-> next]
      BY <1>5, <1>7, <2>4, <2>6, <3>4
    <3>6. u.base = square.v /\ u.exp = rest /\ u.ret = next BY <3>5
    <3>7. square = Value(ty, square.v)
      <4>1. square \in Products(ty) BY <1>1, <3>4 DEF Powers
      <4>. QED BY <3>4, <4>1, ProductParts
    <3>. HIDE DEF u, q, next, t, rest, square
    <3>8. Halfway(P, ty, b, i + 1, u)
      BY <1>1, <2>1, <2>4, <3>4, <3>6, <3>7 DEF Halfway
    <3>9. rest <= rest BY <1>3
    <3>. QED BY <1>3, <1>7, <3>6, <3>8, <3>9 DEF u, rest
  <2>. QED BY <2>5, <2>6
<1>. QED BY <1>6, <1>7

(* The rounds of the loop. *)
LEMMA LoopRuns ==
  ASSUME NEW ty \in IntegerTypes, NEW a \in Int, NEW b \in Nat
  PROVE  \E f : /\ \A n \in Nat : f[n] \in PowerStates(ty) /\ f[n + 1] = PowStep(ty, f[n])
               /\ f[0] = [base |-> a, exp |-> b, ret |-> Value(ty, 1)]
               /\ PowLoop(ty, a, b) = f[Bits(ty)].ret
<1>. DEFINE S == PowerStates(ty)
            start == [base |-> a, exp |-> b, ret |-> Value(ty, 1)]
            after[i \in Nat] == IF i = 0 THEN start ELSE PowStep(ty, after[i - 1])
            step == [n \in Nat |-> [s \in S |-> PowStep(ty, s)]]
<1>1. start \in S BY ProductParts DEF PowerStates
<1>2. \A s \in S : PowStep(ty, s) \in S
  <2>. SUFFICES ASSUME NEW s \in S PROVE PowStep(ty, s) \in S OBVIOUS
  <2>1. s.base \in Int /\ s.exp \in Nat /\ s.ret \in Products(ty) BY DEF PowerStates
  <2>2. s.base * s.base \in Int /\ s.ret.v \in Int BY <2>1, ProductParts
  <2>3. s.ret.v * s.base \in Int BY <2>1, <2>2
  <2>. DEFINE next == IF s.exp % 2 = 1 THEN Result(ty, s.ret.v * s.base) ELSE s.ret
              rest == s.exp \div 2
              square == Result(ty, s.base * s.base)
  <2>4. next \in Products(ty) /\ square \in Products(ty) /\ square.v \in Int /\ rest \in Nat
        /\ Undefined \in Products(ty)
    <3>1. Undefined \in Products(ty) BY DEF Products
    <3>. QED BY <2>1, <2>2, <2>3, <3>1, ProductParts
  <2>5. PowStep(ty, s) =
          IF s.exp = 0 THEN s
          ELSE IF next = Undefined \/ rest = 0 THEN [s EXCEPT !.exp = 0, !.ret = next]
          ELSE IF square = Undefined THEN [s EXCEPT !.exp = 0, !.ret = Undefined]
          ELSE [base |-> square.v, exp |-> rest, ret |-> next]
    BY DEF PowStep
  <2>6. \A p \in Products(ty) : [s EXCEPT !.exp = 0, !.ret = p] \in PowerStates(ty)
    BY DEF PowerStates
  <2>7. \A n \in Int, e \in Nat, p \in Products(ty) :
          [base |-> n, exp |-> e, ret |-> p] \in PowerStates(ty)
    BY DEF PowerStates
  <2>. HIDE DEF next, rest, square
  <2>. QED BY <2>4, <2>5, <2>6, <2>7
<1>. HIDE DEF S, start
<1>3. step \in [Nat -> [S -> S]] /\ \A n \in Nat, s \in S : step[n][s] = PowStep(ty, s)
  BY <1>2
<1>. HIDE DEF step
<1>4. PICK f \in [Nat -> S] : Iterates(f, start, step)
  BY <1>1, <1>3, Iteration
<1>5. f = [i \in Nat |-> IF i = 0 THEN start ELSE PowStep(ty, f[i - 1])]
  <2>1. ASSUME NEW n \in Nat PROVE f[n] = IF n = 0 THEN start ELSE PowStep(ty, f[n - 1])
    <3>1. CASE n = 0 BY <3>1, <1>4 DEF Iterates
    <3>2. CASE n # 0
      <4>1. n - 1 \in Nat /\ (n - 1) + 1 = n BY <3>2
      <4>2. f[(n - 1) + 1] = step[n - 1][f[n - 1]] BY <4>1, <1>4 DEF Iterates
      <4>. QED BY <4>1, <4>2, <3>2, <1>3
    <3>. QED BY <3>1, <3>2
  <2>. QED BY <2>1, Zenon
<1>6. after = [i \in Nat |-> IF i = 0 THEN start ELSE PowStep(ty, after[i - 1])]
  BY <1>5, Zenon
<1>7. PowLoop(ty, a, b) = after[Bits(ty)].ret
  BY Zenon DEF PowLoop, start
<1>. HIDE DEF after
<1>8. after[0] = start /\ \A n \in Nat : after[n + 1] = PowStep(ty, after[n])
  <2>1. ASSUME NEW n \in Nat PROVE after[n + 1] = PowStep(ty, after[n])
    <3>1. n + 1 \in Nat /\ n + 1 # 0 /\ (n + 1) - 1 = n OBVIOUS
    <3>. QED BY <1>6, <3>1, Zenon
  <2>. QED BY <2>1, <1>6
<1>9. \A n \in Nat : after[n] \in S
  <2>. DEFINE T == {n \in Nat : after[n] \in S}
  <2>1. 0 \in T BY <1>1, <1>8
  <2>2. ASSUME NEW n \in T PROVE n + 1 \in T
    BY <1>2, <1>8
  <2>. HIDE DEF T
  <2>3. T = Nat BY <2>1, <2>2, NaturalInduction DEF T
  <2>. QED BY <2>3 DEF T
<1>. QED BY <1>7, <1>8, <1>9 DEF S, start

LEMMA PowLoopIsOutcome ==
  ASSUME NEW ty \in IntegerTypes, NEW a \in Int, NEW b \in Nat
  PROVE  IsOutcome(PowLoop(ty, a, b))
<1>1. PICK f : /\ \A n \in Nat : f[n] \in PowerStates(ty)
               /\ PowLoop(ty, a, b) = f[Bits(ty)].ret
  BY LoopRuns
<1>2. f[Bits(ty)] \in PowerStates(ty) BY <1>1, Widths
<1>. QED BY <1>1, <1>2, ProductParts DEF PowerStates

(* The loop computes the power of C, where C has one. *)
LEMMA PowLoopIsPower ==
  ASSUME NEW ty \in IntegerTypes, NEW a \in Int, InRange(ty, a), NEW b \in Nat, InRange(ty, b),
         CPower(ty, a, b) # Undefined
  PROVE  PowLoop(ty, a, b) = CPower(ty, a, b)
<1>1. PICK P : Powers(P, ty, a) /\ \A n \in Nat : CPower(ty, a, n) = P[n]
  BY PowersExist
<1>. DEFINE S == PowerStates(ty)
            start == [base |-> a, exp |-> b, ret |-> Value(ty, 1)]
<1>2. PICK after : /\ \A n \in Nat : after[n] \in S /\ after[n + 1] = PowStep(ty, after[n])
                   /\ after[0] = start
                   /\ PowLoop(ty, a, b) = after[Bits(ty)].ret
  BY LoopRuns
<1>. HIDE DEF S, start
<1>3. P[b] # Undefined BY <1>1
<1>4. Halfway(P, ty, b, 0, start)
  <2>1. P[1] = Value(ty, a)
    <3>1. P[0 + 1] = Result(ty, P[0].v * a) BY <1>1, UndefinedIsNone DEF Powers
    <3>2. P[0].v = 1 /\ 1 * a = a BY <1>1, ValueParts DEF Powers
    <3>. QED BY <3>1, <3>2, ResultIsExact
  <2>2. TwoTo[0] = 1 /\ b = b * 1 + 0 BY TwoToStep
  <2>3. P[0] = Value(ty, 1) BY <1>1 DEF Powers
  <2>. QED BY <2>1, <2>2, <2>3 DEF Halfway, start
<1>5. \A n \in Nat : after[n] \in S /\ Halfway(P, ty, b, n, after[n])
  <2>. DEFINE T == {n \in Nat : after[n] \in S /\ Halfway(P, ty, b, n, after[n])}
  <2>1. 0 \in T BY <1>2, <1>4
  <2>2. ASSUME NEW n \in T PROVE n + 1 \in T
    <3>1. Halfway(P, ty, b, n + 1, PowStep(ty, after[n]))
      BY <1>1, <1>3, PowStepKeeps DEF S
    <3>. QED BY <1>2, <3>1
  <2>. HIDE DEF T
  <2>3. T = Nat BY <2>1, <2>2, NaturalInduction DEF T
  <2>. QED BY <2>3 DEF T
<1>. DEFINE w == Bits(ty)
            s == after[w]
            t == TwoTo[w]
<1>6. w \in Nat /\ t \in Nat /\ b < t
  <2>1. Bits(ty) \in Nat BY Widths
  <2>2. b <= Highest(ty) BY DEF InRange
  <2>. QED BY <2>1, <2>2, Ranges
<1>7. s \in S /\ s.exp \in Nat BY <1>5, <1>6 DEF S, PowerStates
<1>8. PICK r \in Nat : b = s.exp * t + r /\ s.ret = P[r]
  BY <1>5, <1>6 DEF Halfway
<1>9. s.exp = 0
  <2>. SUFFICES ASSUME s.exp # 0 PROVE FALSE OBVIOUS
  <2>. DEFINE e == s.exp
  <2>1. e \in Nat /\ e >= 1 BY <1>7
  <2>. HIDE DEF e, t
  <2>2. e * t >= t BY <1>6, <2>1
  <2>3. e * t \in Nat BY <1>6, <2>1
  <2>4. b = e * t + r BY <1>8 DEF e, t
  <2>. QED BY <1>6, <2>2, <2>3, <2>4
<1>10. r = b
  <2>. HIDE DEF t
  <2>1. 0 * t = 0 BY <1>6
  <2>. QED BY <1>8, <1>9, <2>1 DEF t
<1>. QED BY <1>1, <1>2, <1>8, <1>10

-----------------------------------------------------------------------------
(* Operators on numbers *)

LEMMA OutcomeKinds ==
  /\ \A v : Boxed(v) = Unspecified <=> v = Undefined
  /\ \A b : Boolean(b) # Unspecified
  /\ Boxed(Undefined) = Unspecified
<1>1. \A v : v # Undefined => Boxed(v).k = "boxed"
  BY DEF Boxed
<1>2. Unspecified.k = "undefined" /\ Boxed(Undefined) = Unspecified
  BY DEF Unspecified, Boxed
<1>3. \A b : Boolean(b).k = "boolean"
  BY DEF Boolean
<1>. QED BY <1>1, <1>2, <1>3

LEMMA RuleKinds ==
  /\ DOMAIN Binary2C = {"add", "sub", "mul", "div", "idiv", "mod", "band", "bor", "bxor", "lt", "le", "eq"}
  /\ DOMAIN Unary2C = {"unm", "bnot"} /\ DOMAIN Shift2C = {"shl", "shr"}
  /\ Comparing = {"eq", "lt", "le"}
  /\ \A op \in DOMAIN Binary2C \ Comparing : Binary2C[op] \in Arithmetic
  /\ \A op \in Comparing : Binary2C[op] \in Comparisons
  /\ \A op \in DOMAIN Unary2C : Unary2C[op] \in UnaryOps /\ Unary2C[op] # "!"
  /\ \A op \in DOMAIN Shift2C : Shift2C[op] \in Shifts
<1>1. DOMAIN Binary2C = {"add", "sub", "mul", "div", "idiv", "mod", "band", "bor", "bxor", "lt", "le", "eq"}
  BY DEF Binary2C
<1>2. /\ DOMAIN Unary2C = {"unm", "bnot"} /\ DOMAIN Shift2C = {"shl", "shr"}
      /\ Comparing = {"eq", "lt", "le"}
  BY DEF Unary2C, Shift2C, Comparing
<1>3. \A op \in DOMAIN Binary2C \ Comparing : Binary2C[op] \in Arithmetic
  BY <1>1, <1>2 DEF Binary2C, Arithmetic
<1>4. \A op \in Comparing : Binary2C[op] \in Comparisons
  BY <1>2 DEF Binary2C, Comparisons
<1>5. \A op \in DOMAIN Unary2C : Unary2C[op] \in UnaryOps /\ Unary2C[op] # "!"
  BY <1>2 DEF Unary2C, UnaryOps
<1>6. \A op \in DOMAIN Shift2C : Shift2C[op] \in Shifts
  BY <1>2 DEF Shift2C, Shifts
<1>. QED BY <1>1, <1>2, <1>3, <1>4, <1>5, <1>6

LEMMA BinariesCompute ==
  ASSUME NEW x, NEW y, IsOperand(x), IsOperand(y), Numeric(x), Numeric(y), Callable("add", x, y),
         NEW op \in DOMAIN Binary2C, op = "eq" => IsCdata(x) /\ IsCdata(y)
  PROVE  SameValue(op, Operator(op, x, y), Rule64(op, x, y))
<1>. DEFINE ty == Type64(<<x, y>>)
            a == Value64(ty, x)
            b == Value64(ty, y)
            cop == Binary2C[op]
            r == Arith64bit(cop, Sides(x, y))
            rule == Rule64(op, x, y)
            got == Operator(op, x, y)
<1>1. op # "pow" /\ op \notin DOMAIN Shift2C /\ op \notin DOMAIN Unary2C
  BY RuleKinds
<1>2. rule = IF a = Undefined \/ b = Undefined THEN Undefined ELSE CArithmetic(cop, ty, a.v, b.v)
  BY <1>1 DEF Rule64
<1>3. /\ Undefined \in {a, b} => r = Undefined
      /\ Undefined \notin {a, b} =>
           /\ cop \in Arithmetic => r = CArithmetic(cop, ty, a.v, b.v)
           /\ cop \in Comparisons => /\ IsValue(r) /\ CArithmetic(cop, ty, a.v, b.v) # Undefined
                                     /\ r.v = CArithmetic(cop, ty, a.v, b.v).v
  BY BinarySides
<1>4. IsArith(x) /\ IsArith(y) BY Numbers
<1>5. CASE op \notin Comparing
  <2>1. cop \in Arithmetic BY <1>5, RuleKinds
  <2>2. got = Boxed(r)
    <3>1. got = ArithBin(cop, x, y) BY <1>5, NumbersAreComputed
    <3>. QED BY <1>4, <3>1 DEF ArithBin
  <2>. HIDE DEF ty, a, b, cop, r, rule, got
  <2>3. r = rule BY <1>2, <1>3, <2>1
  <2>. QED BY <1>5, <2>2, <2>3, OutcomeKinds DEF SameValue, rule, got
<1>6. CASE op \in Comparing
  <2>1. cop \in Comparisons BY <1>6, RuleKinds
  <2>2. got = IF r = Undefined THEN Unspecified ELSE Boolean(r.v # 0)
    <3>1. got = ArithCmp(cop, x, y)
      <4>1. Binary2C["eq"] = "==" BY DEF Binary2C
      <4>2. op \in {"lt", "le"} \/ op = "eq" BY <1>6 DEF Comparing
      <4>. QED BY <4>1, <4>2, NumbersAreComputed
    <3>. QED BY <1>4, <3>1 DEF ArithCmp
  <2>. HIDE DEF ty, a, b, cop, r, rule, got
  <2>3. (r = Undefined <=> rule = Undefined) /\ (rule # Undefined => r.v = rule.v)
    BY <1>2, <1>3, <2>1, UndefinedIsNone
  <2>4. rule # Undefined => got = Boolean(rule.v # 0)
    BY <2>2, <2>3
  <2>5. rule = Undefined <=> got = Unspecified
    BY <2>2, <2>3, OutcomeKinds
  <2>. QED BY <1>6, <2>4, <2>5 DEF SameValue, rule, got
<1>. QED BY <1>5, <1>6

LEMMA UnariesCompute ==
  ASSUME NEW x, IsOperand(x), Numeric(x), IsCdata(x), NEW op \in DOMAIN Unary2C
  PROVE  SameValue(op, Operator(op, x, x), Rule64(op, x, x))
<1>. DEFINE ty == Type64(<<x>>)
            a == Value64(ty, x)
            rule == Rule64(op, x, x)
            got == Operator(op, x, x)
<1>1. op # "pow" /\ op \notin DOMAIN Shift2C /\ op \notin DOMAIN Binary2C /\ op \notin Comparing
  BY RuleKinds
<1>2. rule = IF a = Undefined THEN Undefined ELSE CUnary(Unary2C[op], a)
  BY <1>1 DEF Rule64
<1>3. Promoted64(x) = a /\ ty \in {"LLONG", "ULLONG"} BY OneSide
<1>4. got = IF a = Undefined THEN Unspecified ELSE Boxed(EvalUnary(Unary2C[op], a))
  <2>1. Callable("add", x, x) BY DEF Callable
  <2>. QED BY <1>3, <2>1, NumbersAreComputed
<1>5. a # Undefined => IsValue(a) /\ Promoted(a) = a
  <2>1. a # Undefined => IsValue(a) /\ a.ty \in Ranked
    BY <1>3, Value64Is DEF IsOutcome
  <2>. QED BY <2>1, PromotedIsValue
<1>. HIDE DEF ty, a
<1>6. a # Undefined => EvalUnary(Unary2C[op], a) = CUnary(Unary2C[op], a)
  BY <1>5, RuleKinds, UnaryIsExact
<1>7. got = Boxed(rule)
  BY <1>2, <1>4, <1>6, OutcomeKinds
<1>. QED BY <1>1, <1>7, OutcomeKinds DEF SameValue

LEMMA ShiftsCompute ==
  ASSUME NEW x, NEW y, IsOperand(x), IsOperand(y), Numeric(x), Numeric(y), Callable("add", x, y),
         NEW op \in DOMAIN Shift2C, y.ty # "DOUBLE"
  PROVE  SameValue(op, Operator(op, x, y), Rule64(op, x, y))
<1>. DEFINE ty == Type64(<<x>>)
            a == Value64(ty, x)
            c == ArithOperand(y)
            cop == Shift2C[op]
            rule == Rule64(op, x, y)
            got == Operator(op, x, y)
<1>1. op # "pow" /\ op \notin DOMAIN Unary2C /\ op \notin DOMAIN Binary2C /\ op \notin Comparing
      /\ cop \in Shifts
  BY RuleKinds
<1>2. rule # Undefined => a # Undefined /\ rule = CShift(cop, a, y)
  BY <1>1 DEF Rule64
<1>3. Promoted64(x) = a /\ ty \in {"LLONG", "ULLONG"} BY OneSide
<1>4. IsValue(c) /\ c.ty \in Ranked /\ c.v = y.v /\ Promoted(c) = c /\ c.ty # "DOUBLE"
  BY OperandPromotes, PromotedIsValue DEF Ranked
<1>5. got = ShiftSides(cop, a, c)
  BY <1>3, NumbersAreComputed
<1>6. a # Undefined => IsValue(a) /\ Promoted(a) = a /\ a.ty \in Ranked
  <2>1. a # Undefined => IsValue(a) /\ a.ty \in Ranked
    BY <1>3, Value64Is DEF IsOutcome
  <2>. QED BY <2>1, PromotedIsValue
<1>. HIDE DEF ty, a, c, cop, rule, got
<1>7. CShift(cop, a, c) = CShift(cop, a, y)
  BY <1>4 DEF CShift
<1>8. a # Undefined => EvalBinary(cop, a, c) = Shift(cop, a, c)
  <2>1. cop \notin Logical BY <1>1 DEF Shifts, Logical
  <2>. QED BY <1>1, <1>4, <1>6, <2>1 DEF EvalBinary
<1>9. rule # Undefined => Shift(cop, a, c) = rule
  BY <1>1, <1>2, <1>4, <1>6, <1>7, ShiftIsExact
<1>10. rule # Undefined => got = Boxed(rule)
  BY <1>2, <1>4, <1>5, <1>8, <1>9 DEF ShiftSides
<1>. QED BY <1>1, <1>10 DEF SameValue, rule, got

LEMMA PowersCompute ==
  ASSUME NEW x, NEW y, IsOperand(x), IsOperand(y), Numeric(x), Numeric(y), Callable("add", x, y)
  PROVE  SameValue("pow", Operator("pow", x, y), Rule64("pow", x, y))
<1>. DEFINE ty == Type64(<<x, y>>)
            a == Value64(ty, x)
            b == Value64(ty, y)
            rule == Rule64("pow", x, y)
            got == Operator("pow", x, y)
<1>1. "pow" \notin DOMAIN Unary2C /\ "pow" \notin DOMAIN Shift2C /\ "pow" \notin Comparing
  BY RuleKinds
<1>2. rule # Undefined => a # Undefined /\ b # Undefined /\ ~(b.v < 0) /\ rule = CPower(ty, a.v, b.v)
  BY <1>1 DEF Rule64
<1>3. ty \in {"LLONG", "ULLONG"} /\ Sides(x, y) = <<a, b>> BY SidesAre
<1>4. /\ a # Undefined => a.ty = ty /\ IsValue(a)
      /\ b # Undefined => b.ty = ty /\ IsValue(b)
      /\ ty \in IntegerTypes
  BY <1>3, Value64Is DEF IsOutcome
<1>5. got = Boxed(Power(<<a, b>>))
  BY <1>3, NumbersAreComputed
<1>. HIDE DEF ty, a, b, rule, got
<1>6. rule # Undefined => Power(<<a, b>>) = PowLoop(ty, a.v, b.v)
  BY <1>2, <1>4 DEF Power
<1>7. rule # Undefined => PowLoop(ty, a.v, b.v) = rule
  <2>1. rule # Undefined => b.v \in Nat BY <1>2, <1>4 DEF IsValue
  <2>. QED BY <1>2, <1>4, <2>1, PowLoopIsPower DEF IsValue
<1>. QED BY <1>1, <1>5, <1>6, <1>7 DEF SameValue, rule, got

-----------------------------------------------------------------------------
(* What an operator makes is a value of its type, or a pointer to an address. *)
Typed(got) ==
  /\ got.k = "boxed" => IsValue(got.x)
  /\ got.k \in {"ptr", "array"} => IsOperand(got)
  /\ got.k = "integer" => got.n \in Int

LEMMA TypedOutcomes ==
  /\ Typed(Raises) /\ Typed(BadAccess) /\ Typed(Unspecified)
  /\ \A m, i, negate : Typed(Calls(m, i, negate))
  /\ \A b : Typed(Boolean(b))
  /\ \A a : Typed(PlaceAt(a))
  /\ \A n \in Int : Typed(Number(n))
  /\ \A v : IsOutcome(v) => Typed(Boxed(v))
<1>1. Typed(Raises) /\ Typed(BadAccess) /\ Typed(Unspecified)
  BY DEF Typed, Raises, BadAccess, Unspecified
<1>2. \A m, i, negate : Typed(Calls(m, i, negate))
  BY DEF Typed, Calls
<1>3. \A b : Typed(Boolean(b))
  BY DEF Typed, Boolean
<1>4. \A a : Typed(PlaceAt(a))
  BY DEF Typed, PlaceAt
<1>5. \A n \in Int : Typed(Number(n))
  BY DEF Typed, Number
<1>6. ASSUME NEW v, IsOutcome(v) PROVE Typed(Boxed(v))
  <2>1. CASE v = Undefined BY <1>1, <2>1, OutcomeKinds
  <2>2. CASE v # Undefined
    <3>1. Boxed(v) = [k |-> "boxed", x |-> v] /\ IsValue(v) BY <1>6, <2>2 DEF Boxed, IsOutcome
    <3>2. Boxed(v).k = "boxed" /\ Boxed(v).x = v BY <3>1
    <3>. QED BY <3>1, <3>2 DEF Typed
  <2>. QED BY <2>1, <2>2
<1>. QED BY <1>1, <1>2, <1>3, <1>4, <1>5, <1>6

LEMMA TypedMeta ==
  ASSUME NEW m, NEW x, NEW y, NEW o, Typed(o)
  PROVE  /\ \A asksX, asksY, negate : Typed(TryMeta(m, x, y, asksX, asksY, negate, o))
         /\ Typed(Meta(m, x, y, o))
<1>1. ASSUME NEW asksX, NEW asksY, NEW negate PROVE Typed(TryMeta(m, x, y, asksX, asksY, negate, o))
  BY TypedOutcomes DEF TryMeta
<1>. QED BY <1>1 DEF Meta

LEMMA AddressWraps ==
  ASSUME NEW n \in Int
  PROVE  Wrap(n) \in 0..(TwoTo[PtrBits] - 1)
<1>. DEFINE m == TwoTo[PtrBits]
<1>1. PtrBits \in Nat BY WidthsAssumption
<1>2. m \in Nat BY <1>1, TwoToStep
<1>3. m >= 1 BY <1>1, TwoToGrows
<1>. HIDE DEF m
<1>4. m \in Nat \ {0} BY <1>2, <1>3
<1>. QED BY <1>4, Remainder DEF Wrap, m

LEMMA AddressParts ==
  ASSUME NEW x, IsOperand(x), PtrLike(x) \/ x.k = "record"
  PROVE  /\ x.a \in Int /\ IsType(x.to) /\ x.to.size \in Nat
         /\ x.k = "func" => x.to.size = 0
         /\ ~IsArith(x) /\ ~Numeric(x) /\ IsCdata(x)
<1>1. x.k \in {"record", "ptr", "array", "func"}
  BY DEF PtrLike
<1>2. IsType(x.to) /\ x.a \in 0..(TwoTo[PtrBits] - 1) /\ (x.k = "func" => x.to.size = 0)
  BY <1>1 DEF IsOperand
<1>3. TwoTo[PtrBits] \in Nat BY WidthsAssumption, TwoToStep
<1>4. x.a \in Int BY <1>2, <1>3
<1>. QED BY <1>1, <1>2, <1>4 DEF IsType, IsArith, Numeric, IsCdata

LEMMA TypedPointer ==
  ASSUME NEW k \in {"ptr", "array"}, NEW to, IsType(to), NEW n \in Int
  PROVE  /\ IsOperand(Object(k, to, Wrap(n))) /\ Typed(Object(k, to, Wrap(n)))
<1>. DEFINE a == Wrap(n)
<1>1. a \in 0..(TwoTo[PtrBits] - 1) BY AddressWraps
<1>. HIDE DEF a
<1>2. Object(k, to, a).k = k /\ Object(k, to, a).to = to /\ Object(k, to, a).a = a
  BY DEF Object
<1>3. IsOperand(Object(k, to, a)) BY <1>1, <1>2 DEF IsOperand
<1>. QED BY <1>2, <1>3 DEF Typed, a

(* Operators on numbers *)
LEMMA SideIsOutcome ==
  ASSUME NEW x, IsOperand(x), IsArith(x)
  PROVE  /\ Numeric(x) /\ IsOutcome(Promoted64(x)) 
         /\ Promoted64(x) # Undefined => Promoted64(x).ty \in Ranked
<1>1. Numeric(x) BY DEF Numeric, IsArith
<1>. QED BY <1>1, OneSide, Value64Is

LEMMA TypedArith ==
  ASSUME NEW x, NEW y, IsOperand(x), IsOperand(y)
  PROVE  /\ \A op \in Arithmetic : Typed(ArithBin(op, x, y))
         /\ \A op : Typed(ArithCmp(op, x, y))
         /\ IsArith(x) /\ IsArith(y) => Typed(Boxed(Power(Sides(x, y))))
<1>1. \A op : Typed(ArithCmp(op, x, y))
  <2>. SUFFICES ASSUME NEW op PROVE Typed(ArithCmp(op, x, y)) OBVIOUS
  <2>. DEFINE r == Arith64bit(op, Sides(x, y))
  <2>. HIDE DEF r
  <2>1. ArithCmp(op, x, y) = IF ~(IsArith(x) /\ IsArith(y)) THEN Raises
                             ELSE IF r = Undefined THEN Unspecified ELSE Boolean(r.v # 0)
    BY DEF ArithCmp, r
  <2>. QED BY <2>1, TypedOutcomes
<1>2. CASE ~(IsArith(x) /\ IsArith(y))
  BY <1>1, <1>2, TypedOutcomes DEF ArithBin
<1>3. CASE IsArith(x) /\ IsArith(y)
  <2>1. Numeric(x) /\ Numeric(y) BY <1>3, SideIsOutcome
  <2>. DEFINE ty == Type64(<<x, y>>)
              a == Value64(ty, x)
              b == Value64(ty, y)
  <2>2. Sides(x, y) = <<a, b>> /\ IsOutcome(a) /\ IsOutcome(b) /\ ty \in IntegerTypes
        /\ (a # Undefined => a.ty = ty)
    BY <2>1, SidesAre, Value64Is
  <2>. HIDE DEF ty, a, b
  <2>3. ASSUME NEW op \in Arithmetic PROVE Typed(ArithBin(op, x, y))
    <3>1. IsOutcome(Arith64bit(op, Sides(x, y)))
      BY <2>2, BinaryIsExact DEF Arith64bit, IsOutcome
    <3>. QED BY <1>3, <3>1, TypedOutcomes DEF ArithBin
  <2>4. IsOutcome(Power(<<a, b>>))
    <3>1. CASE Undefined \in {a, b} BY <3>1 DEF Power, IsOutcome
    <3>2. CASE Undefined \notin {a, b}
      <4>1. a.v \in Int /\ b.v \in Int /\ a.ty = ty BY <2>2, <3>2 DEF IsOutcome, IsValue
      <4>2. Power(<<a, b>>) = IF b.v < 0 THEN Value(ty, 0) ELSE PowLoop(ty, a.v, b.v)
        BY <3>2, <4>1 DEF Power
      <4>3. IsOutcome(Value(ty, 0)) BY <2>2, ZeroAndOne, ValueInRange DEF IsOutcome
      <4>4. ~(b.v < 0) => b.v \in Nat BY <4>1
      <4>. QED BY <2>2, <4>1, <4>2, <4>3, <4>4, PowLoopIsOutcome
    <3>. QED BY <3>1, <3>2
  <2>. QED BY <1>1, <2>2, <2>3, <2>4, TypedOutcomes
<1>. QED BY <1>2, <1>3

LEMMA TypedUnary ==
  ASSUME NEW m, NEW op \in UnaryOps, NEW x, IsOperand(x)
  PROVE  Typed(ArithUn(m, op, x))
<1>. DEFINE p == Promoted64(x)
            v == IF p = Undefined THEN p ELSE EvalUnary(op, p)
            o == IF ~IsArith(x) THEN Raises ELSE Boxed(v)
<1>1. IsArith(x) => IsOutcome(v)
  BY SideIsOutcome, UnaryIsExact DEF IsOutcome
<1>2. ArithUn(m, op, x) = TryMeta(m, x, x, TRUE, FALSE, FALSE, o)
  BY DEF ArithUn
<1>. HIDE DEF v, p
<1>3. Typed(o) BY <1>1, TypedOutcomes
<1>. HIDE DEF o
<1>. QED BY <1>2, <1>3, TypedMeta

LEMMA TypedShift ==
  ASSUME NEW m, NEW op \in Shifts, NEW x, NEW y, IsOperand(x), IsOperand(y)
  PROVE  Typed(ShiftBin(m, op, x, y))
<1>. DEFINE l == Promoted64(x)
            r == ArithOperand(y)
            v == IF l = Undefined THEN l ELSE EvalBinary(op, l, r)
            s == IF r.ty = "DOUBLE" THEN Raises ELSE Boxed(v)
            o == IF IsArith(x) /\ IsArith(y) THEN s ELSE Raises
<1>1. IsArith(x) /\ IsArith(y) /\ r.ty # "DOUBLE" => IsOutcome(v)
  <2>. SUFFICES ASSUME IsArith(x), IsArith(y), r.ty # "DOUBLE" PROVE IsOutcome(v) OBVIOUS
  <2>1. IsOutcome(l) /\ (l # Undefined => l.ty \in Ranked) /\ Numeric(y) BY SideIsOutcome
  <2>2. IsValue(r) /\ r.ty \in Ranked BY <2>1, OperandPromotes
  <2>3. Promoted(r) = r BY <2>2, PromotedIsValue
  <2>4. l # Undefined => IsValue(l) /\ Promoted(l) = l BY <2>1, PromotedIsValue DEF IsOutcome
  <2>5. op \notin Logical BY DEF Shifts, Logical
  <2>6. l # Undefined => EvalBinary(op, l, r) = Shift(op, l, r)
    BY <2>3, <2>4, <2>5 DEF EvalBinary
  <2>. HIDE DEF l, r
  <2>. QED BY <2>1, <2>2, <2>4, <2>6, ShiftIsExact
<1>2. ShiftBin(m, op, x, y) = Meta(m, x, y, o)
  BY DEF ShiftBin, ShiftSides
<1>. HIDE DEF v, l, r
<1>3. Typed(o) BY <1>1, TypedOutcomes
<1>. HIDE DEF o
<1>. QED BY <1>2, <1>3, TypedMeta

(* Operators on pointers *)
LEMMA TypedAddTo ==
  ASSUME NEW p, NEW n, NEW x, NEW y, IsOperand(p), IsOperand(n), PtrLike(p)
  PROVE  Typed(AddTo(p, n, x, y))
<1>1. CASE p.k = "func" \/ p.to.size = 0 \/ ~IsArith(n)
  BY <1>1, TypedOutcomes, TypedMeta DEF AddTo
<1>2. CASE ~(p.k = "func" \/ p.to.size = 0 \/ ~IsArith(n))
  <2>1. n.v \in Int /\ p.a \in Int /\ p.to.size \in Int /\ IsType(p.to)
    BY <1>2, SideIsOutcome, Numbers, AddressParts
  <2>. DEFINE d == p.a + Offset(n) * p.to.size
  <2>2. d \in Int
    <3>1. Offset(n) \in Int BY <2>1 DEF Offset
    <3>2. Offset(n) * p.to.size \in Int BY <2>1, <3>1
    <3>. QED BY <2>1, <3>2
  <2>3. AddTo(p, n, x, y) = IF CastDefined(n, DiffRange) THEN Object("ptr", p.to, Wrap(d))
                            ELSE Unspecified
    BY <1>2 DEF AddTo, Moved, Pointer
  <2>. HIDE DEF d
  <2>. QED BY <2>1, <2>2, <2>3, TypedPointer, TypedOutcomes
<1>. QED BY <1>1, <1>2

LEMMA TypedSub ==
  ASSUME NEW x, NEW y, IsOperand(x), IsOperand(y)
  PROVE  Typed(Sub(x, y))
<1>1. CASE ~PtrLike(x)
  <2>1. Typed(ArithBin("-", x, y)) BY TypedArith DEF Arithmetic
  <2>. QED BY <1>1, <2>1, TypedMeta DEF Sub
<1>2. CASE PtrLike(x) /\ (x.k = "func" \/ x.to.size = 0 \/ y.k = "func")
  BY <1>2, TypedOutcomes, TypedMeta DEF Sub
<1>3. CASE PtrLike(x) /\ ~(x.k = "func" \/ x.to.size = 0 \/ y.k = "func")
  <2>1. x.a \in Int /\ IsType(x.to) /\ x.to.size \in Nat \ {0} /\ x.k \in {"ptr", "array"}
    BY <1>3, AddressParts DEF PtrLike
  <2>2. CASE PtrLike(y)
    <3>1. y.a \in Int BY <2>2, AddressParts
    <3>2. Typed(Difference(x, y))
      <4>. DEFINE d == Signed(x.a) - Signed(y.a)
                  q == Wrap(d) \div x.to.size
      <4>1. TwoTo[PtrBits] \in Nat BY WidthsAssumption, TwoToStep
      <4>2. Signed(x.a) \in Int /\ Signed(y.a) \in Int BY <2>1, <3>1, <4>1 DEF Signed
      <4>3. Wrap(d) \in Nat BY <4>2, AddressWraps
      <4>4. q \in Int BY <2>1, <4>3
      <4>5. "LLONG" \in IntegerTypes BY DEF IntegerTypes, Ranked
      <4>6. Difference(x, y) = IF Signed(Wrap(d)) # d THEN Unspecified ELSE Number(Wrapped("LLONG", q))
        BY DEF Difference
      <4>. HIDE DEF d, q
      <4>7. Wrapped("LLONG", q) \in Int BY <4>4, <4>5, WrapsIntoRange
      <4>. QED BY <4>6, <4>7, TypedOutcomes
    <3>3. Typed(Meta("__sub", x, y, Raises)) BY TypedOutcomes, TypedMeta
    <3>. QED BY <1>3, <2>2, <3>2, <3>3 DEF Sub
  <2>3. CASE ~PtrLike(y) /\ ~IsArith(y)
    BY <1>3, <2>3, TypedOutcomes, TypedMeta DEF Sub
  <2>4. CASE ~PtrLike(y) /\ IsArith(y)
    <3>1. y.v \in Int BY <2>4, SideIsOutcome, Numbers
    <3>2. x.a + Offset(y) \in Int BY <2>1, <3>1 DEF Offset
    <3>3. Sub(x, y) = IF CastDefined(y, DiffRange) THEN Object(x.k, x.to, Wrap(x.a + Offset(y)))
                      ELSE Unspecified
      BY <1>3, <2>4 DEF Sub
    <3>. QED BY <2>1, <3>2, <3>3, TypedPointer, TypedOutcomes
  <2>. QED BY <2>2, <2>3, <2>4
<1>. QED BY <1>1, <1>2, <1>3

(* The other operators *)
LEMMA TypedOthers ==
  ASSUME NEW x, NEW y, IsOperand(x), IsOperand(y)
  PROVE  /\ Typed(Eq(x, y)) /\ Typed(Lt(x, y)) /\ Typed(Le(x, y)) /\ Typed(Index(x, y))
         /\ Typed(Pow(x, y))
<1>1. \A op : Typed(ArithCmp(op, x, y)) BY TypedArith
<1>2. Typed(Eq(x, y))
  <2>. DEFINE o == IF IsArith(x) /\ IsArith(y) THEN ArithCmp("==", x, y) ELSE Boolean(SameAddress(x, y))
  <2>1. Typed(o) BY <1>1, TypedOutcomes
  <2>2. Eq(x, y) = IF ~IsCdata(x) \/ ~IsCdata(y) THEN Boolean(FALSE)
                   ELSE IF PtrLike(x) /\ PtrLike(y) THEN Boolean(x.a = y.a)
                   ELSE Meta("__eq", x, y, o)
    BY DEF Eq
  <2>. HIDE DEF o
  <2>. QED BY <2>1, <2>2, TypedOutcomes, TypedMeta
<1>3. \A op, m1, m2 : Typed(CmpBase(op, x, y, m1, m2))
  <2>. SUFFICES ASSUME NEW op, NEW m1, NEW m2 PROVE Typed(CmpBase(op, x, y, m1, m2)) OBVIOUS
  <2>. DEFINE o == IF ComparableTo(x, y) THEN Boolean(Compare(op, x.a, y.a)) ELSE Raises
              o2 == IF m1 = m2 THEN o ELSE TryMeta(m2, x, y, IsCdata(y), IsCdata(x), TRUE, o)
  <2>1. Typed(o) BY TypedOutcomes
  <2>2. CmpBase(op, x, y, m1, m2) = IF IsArith(x) /\ IsArith(y) THEN ArithCmp(op, x, y)
                                    ELSE TryMeta(m1, x, y, IsCdata(x), IsCdata(y), FALSE, o2)
    BY DEF CmpBase, ByMeta
  <2>. HIDE DEF o
  <2>3. Typed(o2) BY <2>1, TypedMeta
  <2>. HIDE DEF o2
  <2>. QED BY <1>1, <2>2, <2>3, TypedMeta
<1>4. Typed(Index(x, y))
  <2>1. \A key : Typed(IndexMember(x, key))
    <3>. SUFFICES ASSUME NEW key PROVE Typed(IndexMember(x, key)) OBVIOUS
    <3>1. Typed(TryMeta("__index", x, x, TRUE, FALSE, FALSE, Raises)) BY TypedOutcomes, TypedMeta
    <3>. QED BY <3>1, TypedOutcomes DEF IndexMember
  <2>2. Typed(IndexElement(x, y)) BY TypedOutcomes DEF IndexElement
  <2>3. Index(x, y) \in {IndexMember(x, y.key), IndexMember(x, ""), IndexElement(x, y), Raises}
    BY DEF Index
  <2>. QED BY <2>1, <2>2, <2>3, TypedOutcomes
<1>5. Typed(Pow(x, y))
  <2>. DEFINE o == IF IsArith(x) /\ IsArith(y) THEN Boxed(Power(Sides(x, y))) ELSE Raises
  <2>1. Typed(o) BY TypedArith, TypedOutcomes
  <2>2. Pow(x, y) = Meta("__pow", x, y, o) BY DEF Pow
  <2>. HIDE DEF o
  <2>. QED BY <2>1, <2>2, TypedMeta
<1>. QED BY <1>2, <1>3, <1>4, <1>5 DEF Lt, Le

LEMMA OperatorsByKind ==
  /\ Operations = {"add", "sub", "pow", "eq", "lt", "le", "index", "concat", "len"}
                    \cup DOMAIN ArithOps \cup DOMAIN UnaryMetas \cup DOMAIN ShiftOps
  /\ \A op \in DOMAIN ArithOps : ArithOps[op][2] \in Arithmetic
  /\ \A op \in DOMAIN UnaryMetas : UnaryMetas[op][2] \in UnaryOps
  /\ \A op \in DOMAIN ShiftOps : ShiftOps[op][2] \in Shifts
<1>1. Operations = {"add", "sub", "pow", "eq", "lt", "le", "index", "concat", "len"}
                     \cup DOMAIN ArithOps \cup DOMAIN UnaryMetas \cup DOMAIN ShiftOps
  BY OperatorKinds DEF Operations, MetaOf
<1>2. \A op \in DOMAIN ArithOps : ArithOps[op][2] \in Arithmetic
  BY OperatorKinds DEF ArithOps, Arithmetic
<1>3. \A op \in DOMAIN UnaryMetas : UnaryMetas[op][2] \in UnaryOps
  BY OperatorKinds DEF UnaryMetas, UnaryOps
<1>4. \A op \in DOMAIN ShiftOps : ShiftOps[op][2] \in Shifts
  BY OperatorKinds DEF ShiftOps, Shifts
<1>. QED BY <1>1, <1>2, <1>3, <1>4

LEMMA OperatorIsTyped ==
  ASSUME NEW x, NEW y, IsOperand(x), IsOperand(y), NEW op \in Operations
  PROVE  Typed(Operator(op, x, y))
<1>1. CASE op \in DOMAIN ArithOps
  <2>1. Operator(op, x, y) = Meta(ArithOps[op][1], x, y, ArithBin(ArithOps[op][2], x, y))
    BY <1>1, OperatorCases
  <2>2. Typed(ArithBin(ArithOps[op][2], x, y)) BY <1>1, OperatorsByKind, TypedArith
  <2>. QED BY <2>1, <2>2, TypedMeta
<1>2. CASE op \in DOMAIN UnaryMetas
  <2>1. Operator(op, x, y) = ArithUn(UnaryMetas[op][1], UnaryMetas[op][2], x)
    BY <1>2, OperatorCases
  <2>. QED BY <1>2, <2>1, OperatorsByKind, TypedUnary
<1>3. CASE op \in DOMAIN ShiftOps
  <2>1. Operator(op, x, y) = ShiftBin(ShiftOps[op][1], ShiftOps[op][2], x, y)
    BY <1>3, OperatorCases
  <2>. QED BY <1>3, <2>1, OperatorsByKind, TypedShift
<1>4. CASE op = "add"
  <2>1. Operator("add", x, y) = Add(x, y) BY OperatorCases
  <2>2. Typed(Meta("__add", x, y, ArithBin("+", x, y)))
    <3>1. Typed(ArithBin("+", x, y)) BY TypedArith DEF Arithmetic
    <3>. QED BY <3>1, TypedMeta
  <2>3. PtrLike(x) => Typed(AddTo(x, y, x, y)) BY TypedAddTo
  <2>4. PtrLike(y) => Typed(AddTo(y, x, x, y)) BY TypedAddTo
  <2>. QED BY <1>4, <2>1, <2>2, <2>3, <2>4 DEF Add
<1>5. CASE op = "sub"
  <2>1. Operator("sub", x, y) = Sub(x, y) BY OperatorCases
  <2>. QED BY <1>5, <2>1, TypedSub
<1>6. CASE op \in {"pow", "eq", "lt", "le", "index"}
  <2>1. Operator(op, x, y) \in {Pow(x, y), Eq(x, y), Lt(x, y), Le(x, y), Index(x, y)}
    BY <1>6, OperatorCases
  <2>. QED BY <2>1, TypedOthers
<1>7. CASE op \in {"concat", "len"}
  <2>1. Operator(op, x, y) \in {Meta("__concat", x, y, Raises),
                                TryMeta("__len", x, x, TRUE, FALSE, FALSE, Raises)}
    BY <1>7, OperatorCases
  <2>2. Typed(Meta("__concat", x, y, Raises)) BY TypedOutcomes, TypedMeta
  <2>3. Typed(TryMeta("__len", x, x, TRUE, FALSE, FALSE, Raises)) BY TypedOutcomes, TypedMeta
  <2>. QED BY <2>1, <2>2, <2>3
<1>. QED BY <1>1, <1>2, <1>3, <1>4, <1>5, <1>6, <1>7, OperatorsByKind

-----------------------------------------------------------------------------
(* The program *)

(***************************************************************************)
(* What a program computes stays a value of its type, and an address an    *)
(* address, whatever it is computed from; and it is operators of its       *)
(* metatable that Lua calls, with a cdata among the operands.              *)
(***************************************************************************)
TypeOK ==
  /\ IsOperand(held)
  /\ Applied => /\ call[1] \in Operations /\ IsOperand(call[2]) /\ IsOperand(call[3])
                /\ Callable(call[1], call[2], call[3])
                /\ call[1] \in OneOperand => call[2] = call[3]

LEMMA ReturnIsTyped ==
  ASSUME NEW got, Typed(got), IsOperand(held), NEW x \in Returned(got)
  PROVE  IsOperand(x)
<1>1. CASE got.k = "boxed"
  <2>1. IsValue(got.x) /\ x = Scalar(got.x.ty, got.x.v)
    BY <1>1 DEF Typed, Returned
  <2>2. x.k = "scalar" /\ x.ty = got.x.ty /\ x.v = got.x.v BY <2>1 DEF Scalar
  <2>. QED BY <2>1, <2>2 DEF IsOperand, IsValue
<1>2. CASE got.k \in {"ptr", "array"}
  BY <1>2 DEF Typed, Returned
<1>3. CASE got.k = "integer"
  <2>1. got.n \in Int /\ x = LuaInteger(Wrapped("LONG", got.n))
    BY <1>3 DEF Typed, Returned
  <2>. DEFINE v == Wrapped("LONG", got.n)
  <2>2. v \in Int /\ InRange("LONG", v)
    BY <2>1, WrapsIntoRange DEF IntegerTypes, Ranked
  <2>. HIDE DEF v
  <2>3. x.k = "number" /\ x.ty = "LONG" /\ x.v = v BY <2>1 DEF LuaInteger, v
  <2>. QED BY <2>2, <2>3 DEF IsOperand
<1>4. CASE got.k = "boolean"
  <2>1. x = LuaOther BY <1>4 DEF Returned
  <2>. QED BY <2>1 DEF IsOperand, LuaOther
<1>5. CASE got.k \in {"place", "call"}
  BY <1>5, OperandAssumption DEF Returned
<1>6. CASE got.k = "error"
  BY <1>6 DEF Returned
<1>7. CASE got.k \notin {"boxed", "ptr", "array", "integer", "boolean", "place", "call", "error"}
  BY <1>7 DEF Returned
<1>. QED BY <1>1, <1>2, <1>3, <1>4, <1>5, <1>6, <1>7

(* What a program computes stays a value of its type: the invariant the    *)
(* other theorems rest on.                                                 *)
THEOREM OperandsStayTyped == CallSpec => []TypeOK
<1>1. CallInit => TypeOK
  BY OperandAssumption DEF CallInit, TypeOK, Applied
<1>2. TypeOK /\ [CallNext]_callVars => TypeOK'
  <2>. SUFFICES ASSUME TypeOK, [CallNext]_callVars PROVE TypeOK' OBVIOUS
  <2>1. ASSUME NEW op \in Operations, NEW x, NEW y, IsOperand(x), IsOperand(y), Apply(op, x, y),
               op \in OneOperand => x = y
        PROVE  TypeOK'
    <3>1. call' = <<op, x, y>> /\ held' = held /\ Callable(op, x, y) BY <2>1 DEF Apply
    <3>2. call'[1] = op /\ call'[2] = x /\ call'[3] = y BY <3>1
    <3>. QED BY <2>1, <3>1, <3>2 DEF TypeOK, Applied
  <2>2. CASE ApplyLeft
    <3>1. PICK op \in Operations \ OneOperand, y \in Given : Apply(op, held, y)
      BY <2>2 DEF ApplyLeft
    <3>. QED BY <2>1, <3>1, OperandAssumption DEF TypeOK
  <2>3. CASE ApplyRight
    <3>1. PICK op \in Operations \ OneOperand, x \in Given : Apply(op, x, held)
      BY <2>3 DEF ApplyRight
    <3>. QED BY <2>1, <3>1, OperandAssumption DEF TypeOK
  <2>4. CASE ApplyAlone
    <3>1. PICK op \in OneOperand : Apply(op, held, held)
      BY <2>4 DEF ApplyAlone
    <3>2. op \in Operations BY DEF OneOperand, Operations, MetaOf
    <3>. QED BY <2>1, <3>1, <3>2 DEF TypeOK
  <2>5. CASE Return
    <3>1. Applied /\ held' \in Returned(Outcome) /\ call' = <<>> BY <2>5 DEF Return
    <3>2. Typed(Outcome)
      BY <3>1, OperatorIsTyped DEF TypeOK, Outcome
    <3>3. IsOperand(held') BY <3>1, <3>2, ReturnIsTyped DEF TypeOK
    <3>. QED BY <3>1, <3>3 DEF TypeOK, Applied
  <2>6. CASE UNCHANGED callVars
    BY <2>6 DEF callVars, TypeOK, Applied
  <2>. QED BY <2>2, <2>3, <2>4, <2>5, <2>6 DEF CallNext
<1>. QED BY <1>1, <1>2, PTL DEF CallSpec

(***************************************************************************)
(* For integer types of every width, an operator on two numbers has the    *)
(* value docs/semantics.md gives it, and is undefined where C is.          *)
(***************************************************************************)
THEOREM NumbersComputeAsDocumented == CallSpec => []BoxedArithmetic
<1>1. TypeOK => BoxedArithmetic
  <2>. SUFFICES ASSUME TypeOK, Applied,
                       call[1] \notin {"len", "concat", "index"}, Numeric(call[2]), Numeric(call[3]),
                       call[1] \in DOMAIN Shift2C => call[3].ty # "DOUBLE"
                PROVE  SameValue(call[1], Outcome, Rule64(call[1], call[2], call[3]))
    BY DEF BoxedArithmetic
  <2>. DEFINE op == call[1]
              x == call[2]
              y == call[3]
  <2>1. op \in Operations /\ IsOperand(x) /\ IsOperand(y) /\ Callable(op, x, y)
        /\ (op \in OneOperand => x = y)
    BY DEF TypeOK
  <2>2. Callable("add", x, y) /\ (op = "eq" => IsCdata(x) /\ IsCdata(y))
    BY <2>1 DEF Callable
  <2>3. op \in DOMAIN Binary2C \cup DOMAIN Unary2C \cup DOMAIN Shift2C \cup {"pow"}
    BY <2>1, RuleKinds DEF Operations, MetaOf
  <2>4. Outcome = Operator(op, x, y) BY DEF Outcome
  <2>. HIDE DEF op, x, y
  <2>5. SameValue(op, Operator(op, x, y), Rule64(op, x, y))
    <3>1. CASE op \in DOMAIN Binary2C
      BY <2>1, <2>2, <3>1, BinariesCompute DEF x, y
    <3>2. CASE op \in DOMAIN Unary2C
      <4>1. x = y BY <2>1, <3>2, RuleKinds DEF OneOperand
      <4>2. IsCdata(x) BY <2>2, <4>1 DEF Callable
      <4>3. Numeric(x) BY DEF x
      <4>4. SameValue(op, Operator(op, x, x), Rule64(op, x, x))
        BY <2>1, <3>2, <4>2, <4>3, UnariesCompute
      <4>. QED BY <4>1, <4>4
    <3>3. CASE op \in DOMAIN Shift2C
      BY <2>1, <2>2, <3>3, ShiftsCompute DEF op, x, y
    <3>4. CASE op = "pow"
      BY <2>1, <2>2, <3>4, PowersCompute DEF x, y
    <3>. QED BY <2>3, <3>1, <3>2, <3>3, <3>4
  <2>. QED BY <2>4, <2>5 DEF op, x, y
<1>. QED BY <1>1, OperandsStayTyped, PTL

-----------------------------------------------------------------------------
(* Metamethods *)

(* Which operand a metamethod is asked of. *)
MetaFrom(m, x, y, o) ==
  IF m \in Metas(x) THEN Calls(m, 1, FALSE) ELSE IF m \in Metas(y) THEN Calls(m, 2, FALSE) ELSE o

LEMMA MetaIs ==
  ASSUME NEW x, NEW y, NEW m
  PROVE  \A o : Meta(m, x, y, o) = MetaFrom(m, x, y, o)
<1>1. \A z : HasMeta(z, m) <=> m \in Metas(z)
  BY DEF HasMeta, Metas, IsRecordPtr
<1>2. \A z : m \in Metas(z) => IsCdata(z)
  BY DEF Metas, IsCdata
<1>. QED BY <1>1, <1>2 DEF Meta, TryMeta, MetaFrom

LEMMA MetaOfOne ==
  ASSUME NEW x, IsCdata(x), NEW m, NEW o
  PROVE  TryMeta(m, x, x, TRUE, FALSE, FALSE, o) = MetaFrom(m, x, x, o)
<1>1. HasMeta(x, m) <=> m \in Metas(x)
  BY DEF HasMeta, Metas, IsRecordPtr
<1>. QED BY <1>1 DEF TryMeta, MetaFrom

Forbidden == {"call", "error", "bad access"}

LEMMA DispatchKinds ==
  /\ Raises.k = "error" /\ \A b : Boolean(b).k = "boolean" /\ \A a : PlaceAt(a).k = "place"
  /\ \A v : Boxed(v).k \notin Forbidden
  /\ Unspecified.k \notin Forbidden /\ \A n : Number(n).k \notin Forbidden
  /\ \A k, to, a : Object(k, to, a).k = k /\ Object(k, to, a).a = a
  /\ \A a : PlaceAt(a).a = a
<1>1. Raises.k = "error" /\ Unspecified.k \notin Forbidden
  BY DEF Raises, Unspecified, Forbidden
<1>2. /\ \A b : Boolean(b).k = "boolean"
      /\ \A a : PlaceAt(a).k = "place" /\ PlaceAt(a).a = a
  BY DEF Boolean, PlaceAt
<1>3. \A v : Boxed(v).k \notin Forbidden
  BY DEF Boxed, Unspecified, Forbidden
<1>4. \A n : Number(n).k \notin Forbidden
  BY DEF Number, Forbidden
<1>5. \A k, to, a : Object(k, to, a).k = k /\ Object(k, to, a).a = a
  BY DEF Object
<1>. QED BY <1>1, <1>2, <1>3, <1>4, <1>5

(* An operator that is defined for operands without metamethods, and asks  *)
(* for one otherwise.                                                      *)
LEMMA DispatchesByMeta ==
  ASSUME NEW op, op # "index", NEW x, NEW y, NEW o, NEW got, got = MetaFrom(MetaOf[op], x, y, o),
         Predefined(op, x, y) => Metas(x) = {} /\ Metas(y) = {} /\ o.k \notin Forbidden,
         ~Predefined(op, x, y) => o.k = IF op = "eq" THEN "boolean" ELSE "error"
  PROVE  Dispatches(op, x, y, got)
<1>1. CASE Predefined(op, x, y)
  <2>1. got = o BY <1>1 DEF MetaFrom
  <2>. QED BY <1>1, <2>1 DEF Dispatches, PlacesAsAdded, Forbidden
<1>2. CASE ~Predefined(op, x, y)
  BY <1>2 DEF Dispatches, HasOwner, Owner, MetaFrom
<1>. QED BY <1>1, <1>2

LEMMA DispatchesAtOnce ==
  ASSUME NEW op, op # "index", NEW x, NEW y, NEW got, Predefined(op, x, y), got.k \notin Forbidden
  PROVE  Dispatches(op, x, y, got)
  BY DEF Dispatches, PlacesAsAdded, Forbidden

LEMMA NumericParts ==
  ASSUME NEW x
  PROVE  /\ IsArith(x) <=> Numeric(x)
         /\ Numeric(x) => Metas(x) = {} /\ ~PtrLike(x) /\ ~Addressed(x)
         /\ PtrLike(x) <=> Addressed(x) \/ x.k = "func"
         /\ x.k # "func" => (PtrLike(x) <=> Addressed(x))
         /\ Addressed(x) => IsCdata(x) /\ ~Numeric(x)
  BY DEF IsArith, Numeric, Metas, PtrLike, Addressed, IsCdata

(* What is defined of each operator. *)
LEMMA PredefinedOf ==
  ASSUME NEW x, NEW y
  PROVE  /\ ~Predefined("concat", x, y) /\ ~Predefined("len", x, y)
         /\ \A op \in DOMAIN UnaryMetas : Predefined(op, x, y) <=> Numeric(x)
         /\ \A op \in DOMAIN ArithOps \cup DOMAIN ShiftOps \cup {"pow"} :
              Predefined(op, x, y) <=> Numeric(x) /\ Numeric(y)
         /\ Predefined("add", x, y) <=> \/ Numeric(x) /\ Numeric(y)
                                        \/ Addressed(x) /\ Numeric(y) /\ Sized(x)
         /\ Predefined("sub", x, y) <=> \/ Numeric(x) /\ Numeric(y)
                                        \/ Addressed(x) /\ Numeric(y) /\ Sized(x)
                                        \/ Addressed(x) /\ Addressed(y) /\ Compatible(x, y) /\ Sized(x)
         /\ \A op \in {"lt", "le"} :
              Predefined(op, x, y) <=> \/ Numeric(x) /\ Numeric(y)
                                       \/ Addressed(x) /\ Addressed(y) /\ Compatible(x, y)
         /\ Predefined("eq", x, y) <=> \/ Numeric(x) /\ Numeric(y)
                                       \/ PtrLike(x) /\ PtrLike(y)
                                       \/ ~IsCdata(x) \/ ~IsCdata(y)
         /\ Predefined("index", x, y) <=>
              \/ Addressed(x) /\ Numeric(y) /\ Sized(x)
              \/ IsRecordPtr(x) /\ y.k = "name" /\ y.key \in DOMAIN x.to.members
<1>1. ~Predefined("concat", x, y) /\ ~Predefined("len", x, y)
  BY RuleKinds DEF Predefined
<1>2. \A op \in DOMAIN UnaryMetas : Predefined(op, x, y) <=> Numeric(x)
  BY RuleKinds, OperatorKinds DEF Predefined
<1>3. ASSUME NEW op \in DOMAIN ArithOps \cup DOMAIN ShiftOps \cup {"pow"}
      PROVE  Predefined(op, x, y) <=> Numeric(x) /\ Numeric(y)
  <2>1. op \notin {"concat", "len", "eq", "index", "add", "sub", "lt", "le"} /\ op \notin DOMAIN Unary2C
    BY RuleKinds, OperatorKinds
  <2>. QED BY <2>1 DEF Predefined
<1>4. Predefined("add", x, y) <=> \/ Numeric(x) /\ Numeric(y)
                                  \/ Addressed(x) /\ Numeric(y) /\ Sized(x)
  BY RuleKinds DEF Predefined
<1>5. Predefined("sub", x, y) <=> \/ Numeric(x) /\ Numeric(y)
                                  \/ Addressed(x) /\ Numeric(y) /\ Sized(x)
                                  \/ Addressed(x) /\ Addressed(y) /\ Compatible(x, y) /\ Sized(x)
  BY RuleKinds DEF Predefined
<1>6. ASSUME NEW op \in {"lt", "le"}
      PROVE  Predefined(op, x, y) <=> \/ Numeric(x) /\ Numeric(y)
                                      \/ Addressed(x) /\ Addressed(y) /\ Compatible(x, y)
  <2>1. op \notin {"concat", "len", "eq", "index", "add", "sub"} /\ op \notin DOMAIN Unary2C
    BY RuleKinds
  <2>. QED BY <2>1 DEF Predefined
<1>7. Predefined("eq", x, y) <=> \/ Numeric(x) /\ Numeric(y)
                                 \/ PtrLike(x) /\ PtrLike(y)
                                 \/ ~IsCdata(x)
                                 \/ ~IsCdata(y)
  BY RuleKinds DEF Predefined
<1>8. Predefined("index", x, y) <=>
        \/ Addressed(x) /\ Numeric(y) /\ Sized(x)
        \/ IsRecordPtr(x) /\ y.k = "name" /\ y.key \in DOMAIN x.to.members
  BY RuleKinds DEF Predefined
<1>. QED BY <1>1, <1>2, <1>3, <1>4, <1>5, <1>6, <1>7, <1>8

(* Operators on numbers, by the tables of the metatable *)
LEMMA ArithDispatches ==
  ASSUME NEW x, NEW y, NEW op \in DOMAIN ArithOps
  PROVE  Dispatches(op, x, y, Operator(op, x, y))
<1>. DEFINE o == ArithBin(ArithOps[op][2], x, y)
<1>1. Operator(op, x, y) = MetaFrom(MetaOf[op], x, y, o)
  <2>1. ArithOps[op][1] = MetaOf[op] BY OperatorKinds DEF ArithOps, MetaOf
  <2>2. Operator(op, x, y) = Meta(ArithOps[op][1], x, y, o) BY OperatorCases
  <2>. HIDE DEF o
  <2>. QED BY <2>1, <2>2, MetaIs
<1>2. op \notin {"index", "eq"} BY OperatorKinds
<1>3. Predefined(op, x, y) <=> Numeric(x) /\ Numeric(y) BY PredefinedOf
<1>4. /\ Numeric(x) /\ Numeric(y) => o.k \notin Forbidden
      /\ ~(Numeric(x) /\ Numeric(y)) => o.k = "error"
  BY NumericParts, DispatchKinds DEF ArithBin
<1>. HIDE DEF o
<1>. QED BY <1>1, <1>2, <1>3, <1>4, NumericParts, DispatchesByMeta

LEMMA PowDispatches ==
  ASSUME NEW x, NEW y
  PROVE  Dispatches("pow", x, y, Operator("pow", x, y))
<1>. DEFINE o == IF IsArith(x) /\ IsArith(y) THEN Boxed(Power(Sides(x, y))) ELSE Raises
<1>1. Operator("pow", x, y) = MetaFrom(MetaOf["pow"], x, y, o)
  <2>1. MetaOf["pow"] = "__pow" BY DEF MetaOf
  <2>2. Operator("pow", x, y) = Pow(x, y) BY OperatorCases
  <2>. QED BY <2>1, <2>2, MetaIs DEF Pow
<1>2. Predefined("pow", x, y) <=> Numeric(x) /\ Numeric(y) BY PredefinedOf
<1>3. /\ Numeric(x) /\ Numeric(y) => o.k \notin Forbidden
      /\ ~(Numeric(x) /\ Numeric(y)) => o.k = "error"
  BY NumericParts, DispatchKinds
<1>. HIDE DEF o
<1>. QED BY <1>1, <1>2, <1>3, NumericParts, DispatchesByMeta

LEMMA ShiftDispatches ==
  ASSUME NEW x, NEW y, NEW op \in DOMAIN ShiftOps, ~(Numeric(y) /\ y.ty = "DOUBLE")
  PROVE  Dispatches(op, x, y, Operator(op, x, y))
<1>. DEFINE cop == ShiftOps[op][2]
            s == ShiftSides(cop, Promoted64(x), ArithOperand(y))
            o == IF IsArith(x) /\ IsArith(y) THEN s ELSE Raises
<1>1. Operator(op, x, y) = MetaFrom(MetaOf[op], x, y, o)
  <2>1. ShiftOps[op][1] = MetaOf[op] BY OperatorKinds DEF ShiftOps, MetaOf
  <2>2. Operator(op, x, y) = ShiftBin(ShiftOps[op][1], cop, x, y) BY OperatorCases
  <2>. QED BY <2>1, <2>2, MetaIs DEF ShiftBin
<1>2. op \notin {"index", "eq"} BY OperatorKinds
<1>3. Predefined(op, x, y) <=> Numeric(x) /\ Numeric(y) BY PredefinedOf
<1>4. Numeric(y) => s.k \notin Forbidden
  <2>1. Numeric(y) => ArithOperand(y).ty # "DOUBLE" BY ValueParts DEF ArithOperand
  <2>. QED BY <2>1, DispatchKinds DEF ShiftSides
<1>. HIDE DEF s
<1>5. /\ Numeric(x) /\ Numeric(y) => o.k \notin Forbidden
      /\ ~(Numeric(x) /\ Numeric(y)) => o.k = "error"
  BY <1>4, NumericParts, DispatchKinds
<1>. HIDE DEF o
<1>. QED BY <1>1, <1>2, <1>3, <1>5, NumericParts, DispatchesByMeta

LEMMA OneOperandDispatches ==
  ASSUME NEW x, IsCdata(x), NEW op \in OneOperand
  PROVE  Dispatches(op, x, x, Operator(op, x, x))
<1>1. ASSUME NEW o, Operator(op, x, x) = TryMeta(MetaOf[op], x, x, TRUE, FALSE, FALSE, o)
      PROVE  Operator(op, x, x) = MetaFrom(MetaOf[op], x, x, o)
  BY <1>1, MetaOfOne
<1>2. op \notin {"index", "eq"} BY DEF OneOperand
<1>3. CASE op = "len"
  <2>1. MetaOf["len"] = "__len" BY DEF MetaOf
  <2>2. Operator(op, x, x) = TryMeta("__len", x, x, TRUE, FALSE, FALSE, Raises)
    BY <1>3, OperatorCases
  <2>3. ~Predefined(op, x, x) BY <1>3, PredefinedOf
  <2>4. Operator(op, x, x) = MetaFrom(MetaOf[op], x, x, Raises) BY <1>1, <1>3, <2>1, <2>2
  <2>. QED BY <1>2, <2>3, <2>4, DispatchKinds, DispatchesByMeta
<1>4. CASE op # "len"
  <2>1. op \in DOMAIN UnaryMetas BY <1>4, OperatorKinds DEF OneOperand
  <2>2. UnaryMetas[op][1] = MetaOf[op] BY <2>1, OperatorKinds DEF UnaryMetas, MetaOf
  <2>. DEFINE cop == UnaryMetas[op][2]
              p == Promoted64(x)
              v == IF p = Undefined THEN p ELSE EvalUnary(cop, p)
              o == IF ~IsArith(x) THEN Raises ELSE Boxed(v)
  <2>3. Operator(op, x, x) = TryMeta(MetaOf[op], x, x, TRUE, FALSE, FALSE, o)
    <3>1. Operator(op, x, x) = ArithUn(UnaryMetas[op][1], cop, x) BY <2>1, OperatorCases
    <3>. QED BY <2>2, <3>1 DEF ArithUn
  <2>4. Predefined(op, x, x) <=> Numeric(x) BY <2>1, PredefinedOf
  <2>. HIDE DEF v
  <2>5. (Numeric(x) => o.k \notin Forbidden) /\ (~Numeric(x) => o.k = "error")
    BY NumericParts, DispatchKinds
  <2>. HIDE DEF o
  <2>. QED BY <1>1, <1>2, <2>3, <2>4, <2>5, NumericParts, DispatchesByMeta
<1>. QED BY <1>3, <1>4

LEMMA ConcatDispatches ==
  ASSUME NEW x, NEW y
  PROVE  Dispatches("concat", x, y, Operator("concat", x, y))
<1>1. MetaOf["concat"] = "__concat" BY DEF MetaOf
<1>2. Operator("concat", x, y) = MetaFrom(MetaOf["concat"], x, y, Raises)
  <2>1. Operator("concat", x, y) = Meta("__concat", x, y, Raises) BY OperatorCases
  <2>. QED BY <1>1, <2>1, MetaIs
<1>3. ~Predefined("concat", x, y) BY PredefinedOf
<1>. QED BY <1>2, <1>3, DispatchKinds, DispatchesByMeta

(* Operators on pointers *)
LEMMA AddDispatches ==
  ASSUME NEW x, NEW y, "func" \notin {x.k, y.k},
         ~(Numeric(x) /\ Addressed(y) /\ Sized(y))
  PROVE  Dispatches("add", x, y, Operator("add", x, y))
<1>. DEFINE got == Operator("add", x, y)
            Both == Numeric(x) /\ Numeric(y)
            Left == Addressed(x) /\ Numeric(y) /\ Sized(x)
<1>1. /\ \A o : Meta("__add", x, y, o) = MetaFrom(MetaOf["add"], x, y, o)
  <2>1. MetaOf["add"] = "__add" BY DEF MetaOf
  <2>. QED BY <2>1, MetaIs
<1>2. Predefined("add", x, y) <=> Both \/ Left
  BY PredefinedOf
<1>3. got = Add(x, y) BY OperatorCases
<1>4. \A p, n : Moved(p, n).k \notin Forbidden
  <2>1. \A p, n : Moved(p, n).k = "ptr" \/ Moved(p, n).k \notin Forbidden
    BY DispatchKinds DEF Moved, Pointer
  <2>. QED BY <2>1 DEF Forbidden
<1>5. /\ IsArith(x) <=> Numeric(x)
      /\ IsArith(y) <=> Numeric(y)
      /\ PtrLike(x) <=> Addressed(x)
      /\ PtrLike(y) <=> Addressed(y)
      /\ Numeric(x) => ~Addressed(x) /\ Metas(x) = {}
      /\ Numeric(y) => ~Addressed(y) /\ Metas(y) = {}
  BY NumericParts
<1>. HIDE DEF got
<1>6. CASE Left
  <2>1. got = Moved(x, y)
    BY <1>3, <1>5, <1>6 DEF Add, AddTo, Sized
  <2>. QED BY <1>2, <1>4, <1>6, <2>1, DispatchesAtOnce DEF got
<1>7. CASE ~Left /\ (Addressed(x) \/ Addressed(y))
  <2>1. got = Meta("__add", x, y, Raises)
    BY <1>3, <1>5, <1>7 DEF Add, AddTo, Sized
  <2>2. ~Predefined("add", x, y) BY <1>2, <1>5, <1>7
  <2>3. got = MetaFrom(MetaOf["add"], x, y, Raises) BY <1>1, <2>1
  <2>. QED BY <2>2, <2>3, DispatchKinds, DispatchesByMeta DEF got
<1>8. CASE ~Addressed(x) /\ ~Addressed(y)
  <2>. DEFINE o == ArithBin("+", x, y)
  <2>1. got = Meta("__add", x, y, o)
    BY <1>3, <1>5, <1>8 DEF Add
  <2>2. (Both => o.k \notin Forbidden) /\ (~Both => o.k = "error")
    BY <1>5, DispatchKinds DEF ArithBin
  <2>. HIDE DEF o
  <2>3. got = MetaFrom(MetaOf["add"], x, y, o) BY <1>1, <2>1
  <2>4. Predefined("add", x, y) <=> Both BY <1>2, <1>8
  <2>. QED BY <1>5, <2>2, <2>3, <2>4, DispatchesByMeta DEF got
<1>. QED BY <1>6, <1>7, <1>8 DEF got

LEMMA SubDispatches ==
  ASSUME NEW x, NEW y, "func" \notin {x.k, y.k},
         ~(Addressed(x) /\ Sized(x) /\ ~Numeric(y) /\ ~Addressed(y))
  PROVE  Dispatches("sub", x, y, Operator("sub", x, y))
<1>. DEFINE got == Operator("sub", x, y)
            Both == Numeric(x) /\ Numeric(y)
            Left == Addressed(x) /\ Numeric(y) /\ Sized(x)
            Pair == Addressed(x) /\ Addressed(y) /\ Compatible(x, y) /\ Sized(x)
<1>1. \A o : Meta("__sub", x, y, o) = MetaFrom(MetaOf["sub"], x, y, o)
  <2>1. MetaOf["sub"] = "__sub" BY DEF MetaOf
  <2>. QED BY <2>1, MetaIs
<1>2. Predefined("sub", x, y) <=> Both \/ Left \/ Pair
  BY PredefinedOf
<1>3. got = Sub(x, y) BY OperatorCases
<1>4. /\ IsArith(x) <=> Numeric(x)
      /\ IsArith(y) <=> Numeric(y)
      /\ PtrLike(x) <=> Addressed(x)
      /\ PtrLike(y) <=> Addressed(y)
      /\ Numeric(x) => ~Addressed(x) /\ Metas(x) = {}
      /\ Numeric(y) => ~Addressed(y) /\ Metas(y) = {}
  BY NumericParts
<1>. HIDE DEF got
<1>5. CASE Left
  <2>1. got = IF CastDefined(y, DiffRange) THEN Object(x.k, x.to, Wrap(x.a + Offset(y)))
              ELSE Unspecified
    BY <1>3, <1>4, <1>5 DEF Sub, Sized
  <2>2. got.k \notin Forbidden
    <3>1. got.k = x.k \/ got.k \notin Forbidden BY <2>1, DispatchKinds
    <3>. QED BY <1>5, <3>1 DEF Addressed, Forbidden
  <2>. QED BY <1>2, <1>5, <2>2, DispatchesAtOnce DEF got
<1>6. CASE Pair
  <2>1. got = Difference(x, y)
    BY <1>3, <1>4, <1>6 DEF Sub, Sized, Compatible
  <2>2. got.k \notin Forbidden
    BY <2>1, DispatchKinds DEF Difference
  <2>. QED BY <1>2, <1>6, <2>2, DispatchesAtOnce DEF got
<1>7. CASE Addressed(x) /\ ~(Left \/ Pair)
  <2>1. got = Meta("__sub", x, y, Raises)
    BY <1>3, <1>4, <1>7 DEF Sub, Sized, Compatible
  <2>2. ~Predefined("sub", x, y) BY <1>2, <1>4, <1>7
  <2>3. got = MetaFrom(MetaOf["sub"], x, y, Raises) BY <1>1, <2>1
  <2>. QED BY <2>2, <2>3, DispatchKinds, DispatchesByMeta DEF got
<1>8. CASE ~Addressed(x)
  <2>. DEFINE o == ArithBin("-", x, y)
  <2>1. got = Meta("__sub", x, y, o)
    BY <1>3, <1>4, <1>8 DEF Sub
  <2>2. (Both => o.k \notin Forbidden) /\ (~Both => o.k = "error")
    BY <1>4, DispatchKinds DEF ArithBin
  <2>. HIDE DEF o
  <2>3. got = MetaFrom(MetaOf["sub"], x, y, o) BY <1>1, <2>1
  <2>4. Predefined("sub", x, y) <=> Both BY <1>2, <1>8
  <2>. QED BY <1>4, <2>2, <2>3, <2>4, DispatchesByMeta DEF got
<1>. QED BY <1>5, <1>6, <1>7, <1>8 DEF got

(* Comparisons *)
LEMMA ArithCmpKind ==
  ASSUME NEW op, NEW x, NEW y
  PROVE  ArithCmp(op, x, y).k \notin {"call", "bad access"}
         /\ (Numeric(x) /\ Numeric(y) => ArithCmp(op, x, y).k \notin Forbidden)
<1>. DEFINE r == Arith64bit(op, Sides(x, y))
<1>. HIDE DEF r
<1>1. ArithCmp(op, x, y) = IF ~(IsArith(x) /\ IsArith(y)) THEN Raises
                           ELSE IF r = Undefined THEN Unspecified ELSE Boolean(r.v # 0)
  BY DEF ArithCmp, r
<1>. QED BY <1>1, NumericParts, DispatchKinds DEF Forbidden

LEMMA EqDispatches ==
  ASSUME NEW x, NEW y, IsCdata(x), IsCdata(y)
  PROVE  Dispatches("eq", x, y, Operator("eq", x, y))
<1>. DEFINE o == IF IsArith(x) /\ IsArith(y) THEN ArithCmp("==", x, y) ELSE Boolean(SameAddress(x, y))
            Both == Numeric(x) /\ Numeric(y)
            Pair == PtrLike(x) /\ PtrLike(y)
            got == Operator("eq", x, y)
<1>1. got = IF Pair THEN Boolean(x.a = y.a) ELSE MetaFrom(MetaOf["eq"], x, y, o)
  <2>1. MetaOf["eq"] = "__eq" BY DEF MetaOf
  <2>2. got = Eq(x, y) BY OperatorCases
  <2>3. Eq(x, y) = IF Pair THEN Boolean(x.a = y.a) ELSE Meta("__eq", x, y, o)
    BY DEF Eq
  <2>. HIDE DEF o
  <2>. QED BY <2>1, <2>2, <2>3, MetaIs
<1>2. Predefined("eq", x, y) <=> Both \/ Pair BY PredefinedOf
<1>3. (Both => o.k \notin Forbidden) /\ (~Both => o.k = "boolean")
  BY NumericParts, ArithCmpKind, DispatchKinds
<1>. HIDE DEF o, got
<1>4. CASE Pair
  <2>1. got.k \notin Forbidden BY <1>1, <1>4, DispatchKinds DEF Forbidden
  <2>. QED BY <1>2, <1>4, <2>1, DispatchesAtOnce DEF got
<1>5. CASE ~Pair
  <2>1. got = MetaFrom(MetaOf["eq"], x, y, o) BY <1>1, <1>5
  <2>2. Predefined("eq", x, y) <=> Both BY <1>2, <1>5
  <2>3. Both => Metas(x) = {} /\ Metas(y) = {} BY NumericParts
  <2>. QED BY <1>3, <2>1, <2>2, <2>3, DispatchesByMeta DEF got
<1>. QED BY <1>4, <1>5 DEF got

LEMMA OrderDispatches ==
  ASSUME NEW x, NEW y, NEW op \in {"lt", "le"}, ~Otherwise(op, x, y)
  PROVE  Dispatches(op, x, y, Operator(op, x, y))
<1>. DEFINE cop == IF op = "lt" THEN "<" ELSE "<="
            Both == Numeric(x) /\ Numeric(y)
            Pair == Addressed(x) /\ Addressed(y) /\ Compatible(x, y)
            o == IF ComparableTo(x, y) THEN Boolean(Compare(cop, x.a, y.a)) ELSE Raises
            other == IF op = "lt" THEN o
                     ELSE TryMeta("__lt", x, y, IsCdata(y), IsCdata(x), TRUE, o)
            got == Operator(op, x, y)
<1>1. got = IF Both THEN ArithCmp(cop, x, y) ELSE MetaFrom(MetaOf[op], x, y, other)
  <2>1. MetaOf["lt"] = "__lt" /\ MetaOf["le"] = "__le" BY DEF MetaOf
  <2>2. got = CmpBase(cop, x, y, MetaOf[op], "__lt")
    <3>1. Operator("lt", x, y) = Lt(x, y) /\ Operator("le", x, y) = Le(x, y) BY OperatorCases
    <3>. QED BY <2>1, <3>1 DEF Lt, Le
  <2>3. MetaOf[op] = "__lt" <=> op = "lt" BY <2>1
  <2>4. CmpBase(cop, x, y, MetaOf[op], "__lt") =
          IF Both THEN ArithCmp(cop, x, y) ELSE Meta(MetaOf[op], x, y, other)
    <3>. DEFINE m == MetaOf[op]
    <3>1. m = "__lt" <=> op = "lt" BY <2>3
    <3>. HIDE DEF m, cop
    <3>2. CmpBase(cop, x, y, m, "__lt") =
            IF Both THEN ArithCmp(cop, x, y) ELSE Meta(m, x, y, other)
      BY <3>1, NumericParts DEF CmpBase, ByMeta, Meta
    <3>. QED BY <3>2 DEF m
  <2>. HIDE DEF other
  <2>. QED BY <2>2, <2>4, MetaIs
<1>2. Predefined(op, x, y) <=> Both \/ Pair BY PredefinedOf
<1>3. CASE Both
  <2>1. got.k \notin Forbidden BY <1>1, <1>3, ArithCmpKind
  <2>. QED BY <1>2, <1>3, <2>1, DispatchesAtOnce
<1>4. CASE ~Both
  <2>1. got = MetaFrom(MetaOf[op], x, y, other) BY <1>1, <1>4
  <2>2. Pair => /\ x.k = "ptr" /\ y.k = "ptr" /\ Metas(x) = {} /\ Metas(y) = {}
                /\ ComparableTo(x, y)
    <3>1. Pair => "array" \notin {x.k, y.k} /\ Metas(x) \cup Metas(y) = {}
      BY <1>2 DEF Otherwise
    <3>. QED BY <3>1 DEF Addressed, ComparableTo, Compatible
  <2>3. ComparableTo(x, y) => Pair
    BY DEF ComparableTo, Addressed, Compatible
  <2>4. o.k = IF Pair THEN "boolean" ELSE "error"
    BY <2>2, <2>3, DispatchKinds
  <2>5. \A z, m : HasMeta(z, m) <=> m \in Metas(z)
    BY DEF HasMeta, Metas, IsRecordPtr
  <2>6. op = "le" /\ ~Pair /\ "__le" \notin Metas(x) \cup Metas(y) =>
          IsCdata(x) /\ IsCdata(y) /\ "__lt" \notin Metas(x) \cup Metas(y)
    BY <1>2, <1>4 DEF Otherwise
  <2>7. Pair => IsCdata(x) /\ IsCdata(y) BY NumericParts
  <2>8. Pair => other = o
    BY <2>2, <2>5, <2>7 DEF TryMeta
  <2>9. ~Pair /\ MetaOf[op] \notin Metas(x) \cup Metas(y) => other = o
    <3>1. MetaOf["le"] = "__le" BY DEF MetaOf
    <3>2. op = "le" /\ ~Pair /\ "__le" \notin Metas(x) \cup Metas(y) => other = o
      BY <2>5, <2>6 DEF TryMeta
    <3>. QED BY <3>1, <3>2
  <2>. HIDE DEF other, o, got, cop
  <2>10. got = MetaFrom(MetaOf[op], x, y, o)
    BY <2>1, <2>8, <2>9 DEF MetaFrom
  <2>11. Predefined(op, x, y) <=> Pair BY <1>2, <1>4
  <2>12. Pair => o.k \notin Forbidden BY <2>4 DEF Forbidden
  <2>. HIDE DEF Pair
  <2>. QED BY <2>2, <2>4, <2>10, <2>11, <2>12, DispatchesByMeta DEF got
<1>. QED BY <1>3, <1>4

(* Indexing *)
LEMMA IndexDispatches ==
  ASSUME NEW x, NEW y, IsOperand(x), IsOperand(y), IsCdata(x)
  PROVE  Dispatches("index", x, y, Operator("index", x, y))
<1>. DEFINE got == Operator("index", x, y)
            Element == Addressed(x) /\ Numeric(y) /\ Sized(x)
            Member == IsRecordPtr(x) /\ y.k = "name" /\ y.key \in DOMAIN x.to.members
            Asked == "__index" \in Metas(x) /\ Indexable(x, y)
<1>1. Predefined("index", x, y) <=> Element \/ Member BY PredefinedOf
<1>2. MetaOf["index"] = "__index" BY DEF MetaOf
<1>3. SUFFICES /\ Element \/ Member => got.k \notin Forbidden /\ PlacesAsAdded("index", x, y, got)
               /\ ~(Element \/ Member) /\ Asked => got = Calls("__index", 1, FALSE)
               /\ ~(Element \/ Member) /\ ~Asked => got.k = "error"
  BY <1>1, <1>2 DEF Dispatches, HasOwner, Owner, Forbidden
<1>4. got = Index(x, y) BY OperatorCases
<1>5. \A key : IndexMember(x, key) =
         IF key \in DOMAIN x.to.members THEN PlaceAt(Wrap(x.a + x.to.members[key]))
         ELSE IF "__index" \in Metas(x) THEN Calls("__index", 1, FALSE) ELSE Raises
  <2>1. TryMeta("__index", x, x, TRUE, FALSE, FALSE, Raises)
          = MetaFrom("__index", x, x, Raises)
    BY MetaOfOne
  <2>. QED BY <2>1 DEF IndexMember, MetaFrom
<1>. HIDE DEF got
<1>6. CASE x.k = "record" /\ y.k = "name"
  <2>1. got = IndexMember(x, y.key) BY <1>4, <1>6 DEF Index
  <2>2. ~Addressed(x) /\ IsRecordPtr(x) /\ Indexable(x, y)
    BY <1>6 DEF Addressed, IsRecordPtr, Indexable
  <2>. QED BY <1>5, <1>6, <2>1, <2>2, DispatchKinds DEF PlacesAsAdded, Forbidden
<1>7. CASE x.k = "record" /\ y.k # "name"
  <2>1. got = IF IsNumber(y) THEN IndexMember(x, "") ELSE Raises BY <1>4, <1>7 DEF Index
  <2>2. IsType(x.to) BY <1>7, AddressParts
  <2>3. "" \notin DOMAIN x.to.members BY <2>2 DEF IsType
  <2>4. ~Addressed(x) /\ (Indexable(x, y) <=> IsNumber(y))
    BY <1>7 DEF Addressed, Indexable, IsNumber
  <2>. QED BY <1>5, <1>7, <2>1, <2>3, <2>4, DispatchKinds
<1>8. CASE x.k = "ptr" /\ y.k = "name"
  <2>1. got = IF x.to.record THEN IndexMember(x, y.key) ELSE Raises BY <1>4, <1>8 DEF Index
  <2>2. IsType(x.to) BY <1>8, AddressParts DEF PtrLike
  <2>3. ~x.to.record => DOMAIN x.to.members = {} /\ Metas(x) = {}
    BY <1>8, <2>2 DEF IsType, Metas
  <2>4. ~Numeric(y) /\ IsRecordPtr(x) /\ Indexable(x, y)
    BY <1>8 DEF Numeric, IsRecordPtr, Indexable
  <2>. QED BY <1>5, <1>8, <2>1, <2>3, <2>4, DispatchKinds DEF PlacesAsAdded, Forbidden
<1>9. CASE x.k \in {"ptr", "array"} /\ y.k # "name"
  <2>1. got = IF x.to.size = 0 \/ ~IsArith(y) THEN Raises
              ELSE IF CastDefined(y, SizeRange) THEN PlaceAt(Wrap(x.a + Offset(y) * x.to.size))
              ELSE Unspecified
    BY <1>4, <1>9 DEF Index, IndexElement
  <2>2. Addressed(x) /\ (IsArith(y) <=> Numeric(y)) /\ ~Member /\ PtrLike(x)
    BY <1>9, NumericParts DEF Addressed
  <2>3. ~Asked
    BY <1>9 DEF Indexable, Metas
  <2>4. Element => PlacesAsAdded("index", x, y, got)
    <3>. SUFFICES ASSUME Element, IsOffset(y) PROVE got.a = Operator("add", x, y).a
      BY <1>9 DEF PlacesAsAdded
    <3>1. Operator("add", x, y) = Moved(x, y)
      <4>1. Operator("add", x, y) = Add(x, y) BY OperatorCases
      <4>. QED BY <1>9, <2>2, <4>1 DEF Add, AddTo, Sized
    <3>2. Operator("add", x, y).a = Wrap(x.a + Offset(y) * x.to.size)
      BY <3>1, DispatchKinds DEF Moved, Pointer, IsOffset
    <3>3. got.a = Wrap(x.a + Offset(y) * x.to.size)
      BY <2>1, <2>2, DispatchKinds DEF Sized, IsOffset
    <3>. QED BY <3>2, <3>3
  <2>5. Element => got.k \notin Forbidden
    BY <2>1, <2>2, DispatchKinds DEF Sized, Forbidden
  <2>6. ~Element => got.k = "error"
    BY <2>1, <2>2, DispatchKinds DEF Sized
  <2>. QED BY <2>2, <2>3, <2>4, <2>5, <2>6
<1>10. CASE x.k \in {"scalar", "func"} \/ (x.k = "array" /\ y.k = "name")
  <2>1. got = Raises BY <1>4, <1>10 DEF Index
  <2>2. Metas(x) = {} /\ ~IsRecordPtr(x) /\ ~(Addressed(x) /\ Numeric(y))
    BY <1>10 DEF Metas, IsRecordPtr, Addressed, Numeric
  <2>. QED BY <2>1, <2>2, DispatchKinds
<1>. QED BY <1>6, <1>7, <1>8, <1>9, <1>10 DEF IsCdata

(***************************************************************************)
(* For every type, whatever metamethods, members and size it has, an       *)
(* operator does the predefined operation where there is one, else calls   *)
(* its metamethod of the left operand, else of the right one, else raises  *)
(* an error: but for the cases listed in Otherwise.                        *)
(***************************************************************************)
THEOREM OperatorsDispatchAsDocumented == CallSpec => []OperatorsDispatch
<1>1. TypeOK => OperatorsDispatch
  <2>. SUFFICES ASSUME TypeOK, Applied, ~Otherwise(call[1], call[2], call[3])
                PROVE  Dispatches(call[1], call[2], call[3], Outcome)
    BY DEF OperatorsDispatch
  <2>. DEFINE op == call[1]
              x == call[2]
              y == call[3]
  <2>1. op \in Operations /\ IsOperand(x) /\ IsOperand(y) /\ Callable(op, x, y)
        /\ (op \in OneOperand => x = y)
    BY DEF TypeOK
  <2>2. Outcome = Operator(op, x, y) BY DEF Outcome
  <2>3. ~Otherwise(op, x, y) OBVIOUS
  <2>. HIDE DEF op, x, y
  <2>4. Dispatches(op, x, y, Operator(op, x, y))
    <3>1. CASE op \in DOMAIN ArithOps BY <3>1, ArithDispatches
    <3>2. CASE op = "pow" BY <3>2, PowDispatches
    <3>3. CASE op = "concat" BY <3>3, ConcatDispatches
    <3>4. CASE op \in DOMAIN ShiftOps
      <4>1. ~(Numeric(y) /\ y.ty = "DOUBLE")
        BY <2>3, <3>4, RuleKinds, OperatorKinds DEF Otherwise
      <4>. QED BY <3>4, <4>1, ShiftDispatches
    <3>5. CASE op \in OneOperand
      <4>1. x = y /\ IsCdata(x) BY <2>1, <3>5 DEF Callable
      <4>2. Dispatches(op, x, x, Operator(op, x, x)) BY <3>5, <4>1, OneOperandDispatches
      <4>. QED BY <4>1, <4>2
    <3>6. CASE op = "add"
      <4>1. "func" \notin {x.k, y.k} /\ ~(Numeric(x) /\ Addressed(y) /\ Sized(y))
        BY <2>3, <3>6 DEF Otherwise
      <4>. QED BY <3>6, <4>1, AddDispatches
    <3>7. CASE op = "sub"
      <4>1. "func" \notin {x.k, y.k} /\ ~(Addressed(x) /\ Sized(x) /\ ~Numeric(y) /\ ~Addressed(y))
        BY <2>3, <3>7 DEF Otherwise
      <4>. QED BY <3>7, <4>1, SubDispatches
    <3>8. CASE op = "eq"
      <4>1. IsCdata(x) /\ IsCdata(y) BY <2>1, <3>8 DEF Callable
      <4>. QED BY <3>8, <4>1, EqDispatches
    <3>9. CASE op \in {"lt", "le"} BY <2>3, <3>9, OrderDispatches
    <3>10. CASE op = "index"
      <4>1. IsCdata(x) BY <2>1, <3>10 DEF Callable
      <4>. QED BY <2>1, <3>10, <4>1, IndexDispatches
    <3>. QED BY <2>1, <3>1, <3>2, <3>3, <3>4, <3>5, <3>6, <3>7, <3>8, <3>9, <3>10,
                OperatorsByKind, OperatorKinds DEF OneOperand
  <2>. QED BY <2>2, <2>4 DEF op, x, y
<1>. QED BY <1>1, OperandsStayTyped, PTL
=============================================================================
