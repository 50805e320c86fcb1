---------------------------- MODULE MCConstants ----------------------------
(***************************************************************************)
(* Constants for TLC: operands of every type, at the limits of the types,  *)
(* and next to zero.                                                       *)
(***************************************************************************)
EXTENDS Constants

Limits(ty) == {Lowest(ty), Highest(ty)}
MCOperands == UNION {{Value(ty, n) : n \in Limits(ty)} : ty \in Ranked \ {"ULONG"}}
                \cup {Value("INT", n) : n \in {-1, 1, 2}}
                \cup {Value("ULONG", Highest("ULONG")), Value("CHAR", -1), Value("BOOL", 1)}
=============================================================================
