---------------------------- MODULE MCOperators ----------------------------
(***************************************************************************)
(* Operands for TLC: numbers of every type at the limits of their types    *)
(* and around zero, and pointers, arrays and records of types with all     *)
(* metamethods but one, with few, and with none.                           *)
(***************************************************************************)
EXTENDS OperatorCalls

Type(name, size, record, has, members) ==
  [name |-> name, size |-> size, record |-> record, has |-> has, members |-> members]
PlainTypes == {Type("int", 2, FALSE, {}, <<>>), Type("void", 0, FALSE, {}, <<>>)}
RecordTypes == {Type("s", 4, TRUE, {MetaOf[op] : op \in Operations \ {"le"}}, [x |-> 0, y |-> 2]),
                Type("t", 3, TRUE, {"__le", "__add"}, [x |-> 0]),
                Type("opaque", 0, TRUE, {"__index", "__sub"}, <<>>)}
FuncType == Type("func", 0, FALSE, {}, <<>>)

Extremes(ty) == {Lowest(ty), Highest(ty)}
MCGiven ==
  UNION {{Scalar(ty, n) : n \in Extremes(ty)} : ty \in {"INT", "UINT", "LLONG", "ULLONG"}}
    \cup {Scalar("CHAR", -1), Scalar("BOOL", 1), Scalar("LLONG", 3), Scalar("DOUBLE", -2), Scalar("DOUBLE", 20)}
    \cup {LuaInteger(n) : n \in {-1, 0, 2}} \cup {LuaFloat(2), LuaFloat(20), LuaOther, LuaName("y")}
    \cup {Object("ptr", t, 3) : t \in PlainTypes \cup RecordTypes}
    \cup {Object("ptr", t, 13) : t \in {t \in PlainTypes : t.size # 0}}
    \cup {Object("array", t, 3) : t \in PlainTypes \cup RecordTypes}
    \cup {Object("record", t, 9) : t \in {t \in RecordTypes : t.size # 0}}
    \cup {Object("func", FuncType, 9)}
=============================================================================
