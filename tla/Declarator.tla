----------------------------- MODULE Declarator -----------------------------
(***************************************************************************)
(* Types and declarators of a cdef (src/parser.cc, parse_cv to             *)
(* parse_type_ptr and parse_decl), over a sequence of tokens.  An integer  *)
(* expression is one token, and so is a calling convention, written the    *)
(* way of MSVC or as an attribute.                                         *)
(*                                                                         *)
(* The queue of levels and the stack of array dimensions live as long as   *)
(* the Lua state, and a declaration that fails leaves its entries in them; *)
(* so they go through every operator, in p:                                *)
(*   at     the next token         queue   type_level_queue()              *)
(*   ok     no error so far        dims    array_dim_stack()               *)
(*   type   the type read last     name    the name read last              *)
(***************************************************************************)
EXTENDS CTypes, SequencesExt

Sizes == [w \in {"2", "3"} |-> IF w = "2" THEN 2 ELSE 3]
Qualifiers == {"const", "volatile"}
MsConv == {"__fastcall"}
AttribConv == {"__attribute__((fastcall))"}
BaseNames == {"int", "void", "struct s", "struct opaque"}
Names == {"x", "f"}

Tok(s, i) == IF i \in DOMAIN s THEN s[i] ELSE "end"
Skip(p) == [p EXCEPT !.at = @ + 1]
Fail(p) == [p EXCEPT !.ok = FALSE]
Expect(s, p, w) == IF p.ok /\ Tok(s, p.at) = w THEN Skip(p) ELSE Fail(p)
(* One thing is read after another, up to the first error. *)
Then(p, Step(_)) == IF p.ok THEN Step(p) ELSE p

Level(term, ref, cv) ==
  [term |-> term, ref |-> ref, cv |-> cv, func |-> FALSE, params |-> <<>>, variadic |-> FALSE,
   conv |-> "default", ndims |-> 0, flag |-> "none"]

(* parse_cv(): p.type is the set of qualifiers. *)
RECURSIVE ReadCv(_, _, _)
ReadCv(s, p, got) ==
  LET w == Tok(s, p.at)
  IN  IF w \notin Qualifiers THEN [p EXCEPT !.cv = got]
      ELSE IF w \in got THEN Fail(p)
      ELSE ReadCv(s, Skip(p), got \cup {w})

(* parse_callconv_ms(), parse_callconv_attrib() *)
ReadConv(s, p, words) ==
  IF Tok(s, p.at) \in words THEN [Skip(p) EXCEPT !.conv = "fastcall"]
  ELSE [p EXCEPT !.conv = "default"]

(* What parse_type_ptr() does with the '*' and '&' of a level. *)
RECURSIVE ReadPointers(_, _)
ReadPointers(s, p) ==
  CASE Tok(s, p.at) = "*" ->
         Then(ReadCv(s, Skip(p), {}),
              LAMBDA q : ReadPointers(s, [q EXCEPT !.queue = Append(@, Level(FALSE, FALSE, q.cv))]))
    [] Tok(s, p.at) = "&" -> [Skip(p) EXCEPT !.queue = Append(@, Level(FALSE, TRUE, {}))]
    [] OTHER -> p

(* The levels of a declarator, from the outside in; a "(" begins one only  *)
(* if it cannot begin a list of parameters.                                *)
OpensLevel(s, i) == Tok(s, i) = "(" /\ Tok(s, i + 1) \in MsConv \cup {"*", "&", "("}

ReadLevel(s, p) ==
  ReadPointers(s, [p EXCEPT !.queue = Append(@, [Level(TRUE, FALSE, {}) EXCEPT !.conv = p.conv])])

RECURSIVE ReadLevels(_, _, _)
ReadLevels(s, p, implicit) ==
  Then(ReadLevel(s, IF implicit THEN [p EXCEPT !.conv = "default"] ELSE ReadConv(s, Skip(p), MsConv)),
       LAMBDA q : IF OpensLevel(s, q.at) THEN ReadLevels(s, q, FALSE) ELSE q)

(* parse_array(): only the first bound may be left open. *)
ReadBound(s, p, first) ==
  Then(ReadCv(s, Skip(p), {}), LAMBDA q :
    LET w == Tok(s, q.at)
        dim(n) == [Skip(q) EXCEPT !.dims = Append(@, [size |-> n, cv |-> q.cv])]
    IN  CASE first /\ w = "]" -> [dim(0) EXCEPT !.flag = "nosize"]
          [] first /\ w = "?" -> [Expect(s, dim(0), "]") EXCEPT !.flag = "vla"]
          [] w \in DOMAIN Sizes -> Expect(s, dim(Sizes[w]), "]")
          [] OTHER -> Fail(q))

RECURSIVE ReadBounds(_, _)
ReadBounds(s, p) ==
  IF p.ok /\ Tok(s, p.at) = "[" THEN ReadBounds(s, ReadBound(s, p, FALSE)) ELSE p

ReadArray(s, p) == ReadBounds(s, ReadBound(s, [p EXCEPT !.flag = "none"], TRUE))

(* parse_typebase() *)
NamedType(p, w) == IF w \in BaseNames THEN Base(w, {}) ELSE p.typedefs[w]

ReadBase(s, p) ==
  Then(ReadCv(s, p, {}), LAMBDA q :
    IF Tok(s, q.at) \notin BaseNames \cup DOMAIN p.typedefs THEN Fail(q)
    ELSE Then(ReadCv(s, Skip(q), {}), LAMBDA r :
           [r EXCEPT !.type = AddCv(NamedType(p, Tok(s, q.at)), q.cv \cup r.cv)]))

(* The dimensions of a level, taken back from the stack; the outermost,    *)
(* which alone may be open, comes last.                                    *)
(* mutant: the open bound is given to the last dimension *)
RECURSIVE BindBoundsLast(_, _, _)
BindBoundsLast(p, n, flag) ==
  IF n = 0 THEN p
  ELSE LET d == Last(p.dims)
       IN  BindBoundsLast([p EXCEPT !.dims = Front(@), !.type = Array(@, d.cv, d.size, flag)], n - 1, "none")

RECURSIVE BindBounds(_, _, _)
BindBounds(p, n, flag) ==
  IF n = 0 THEN p
  ELSE LET d == Last(p.dims)
       IN  BindBounds([p EXCEPT !.dims = Front(@),
                                !.type = Array(@, d.cv, d.size, IF n = 1 THEN flag ELSE "none")],
                      n - 1, flag)

BindLevel(p, lev) ==
  IF lev.func
    THEN IF p.type.k = "array" \/ (~IsVoid(p.type) /\ ~Passable(p.type)) THEN Fail(p)
         ELSE [p EXCEPT !.type = Func(@, lev.params, lev.variadic, lev.conv)]
  ELSE IF lev.ndims # 0
    THEN IF Flex(p.type) THEN Fail(p) ELSE BindBounds(p, lev.ndims, lev.flag)
  ELSE p

BindPointer(p, lev) ==
  IF p.type.ref THEN Fail(p)
  ELSE [p EXCEPT !.type = IF lev.ref THEN AddRef(@) ELSE Ptr(@, lev.cv)]

(* Binds p.queue[i..]; outer is the level whose parameters or bounds come  *)
(* once its pointers are bound.                                            *)
RECURSIVE Bind(_, _, _)
Bind(p, i, outer) ==
  IF ~p.ok THEN p
  ELSE IF i > Len(p.queue) THEN BindLevel(p, p.queue[outer])
  ELSE IF p.queue[i].term THEN Bind(BindLevel(p, p.queue[outer]), i + 1, i)
  ELSE Bind(BindPointer(p, p.queue[i]), i + 1, outer)

RECURSIVE ReadParams(_, _, _), ReadSuffixes(_, _, _, _, _), ReadDeclarator(_, _, _)

(* parse_paramlist(); q.params is what it read. *)
ReadParams(s, p, params) ==
  LET end(q, ps, dots) == [Expect(s, q, ")") EXCEPT !.params = ps, !.variadic = dots]
      next(q, ps) == IF Tok(s, q.at) = "," THEN ReadParams(s, Skip(q), ps) ELSE end(q, ps, FALSE)
  IN  IF params = <<>> /\ Tok(s, p.at) = "void" /\ Tok(s, p.at + 1) = ")" THEN end(Skip(p), <<>>, FALSE)
      ELSE IF params = <<>> /\ Tok(s, p.at) = ")" THEN end(p, <<>>, FALSE)
      ELSE IF Tok(s, p.at) = "..." THEN end(Skip(p), params, TRUE)
      ELSE Then(ReadBase(s, p), LAMBDA b :
             Then(ReadDeclarator(s, b, "maybe"), LAMBDA q :
               IF Passable(q.type) THEN next(q, Append(params, q.type)) ELSE Fail(q)))

(* What follows one level: its parameters and calling convention, which    *)
(* may stand inside the level, or its bounds.                              *)
ReadSuffix(s, p, level, inner) ==
  CASE Tok(s, p.at) = "(" ->
         Then(ReadParams(s, Skip(p), <<>>), LAMBDA a :
           LET c == ReadConv(s, a, AttribConv)
           IN  [c EXCEPT !.queue[level].func = TRUE, !.queue[level].params = a.params,
                         !.queue[level].variadic = a.variadic,
                         !.queue[level].conv = IF c.conv = "default" THEN inner ELSE c.conv])
    [] Tok(s, p.at) = "[" ->
         Then(ReadArray(s, p), LAMBDA b :
           [b EXCEPT !.queue[level].ndims = Len(b.dims) - Len(p.dims), !.queue[level].flag = b.flag])
    [] OTHER -> p

(* The suffixes of all levels, the innermost first; inner is the calling   *)
(* convention of the level inside.                                         *)
ReadSuffixes(s, p, own, level, inner) ==
  LET outer == {i \in own : i < level}
  IN  Then(ReadSuffix(s, p, level, inner), LAMBDA q :
        IF ~q.queue[level].func /\ inner # "default" THEN Fail(q)
        ELSE IF outer = {} THEN q
        ELSE Then(Expect(s, q, ")"), LAMBDA r :
               ReadSuffixes(s, r, own, Max(outer), q.queue[level].conv)))

(* mutant: the boundary of the call is forgotten *)
AllLevels(queue, n) == {i \in 1..Len(queue) : queue[i].term}

(* The levels that a call added to a queue of n entries. *)
OwnLevels(queue, n) == {i \in (n + 1)..Len(queue) : queue[i].term}

(* A calling convention before the name of a plain function. *)
ReadPlainConv(s, p, level) ==
  LET q == ReadConv(s, p, MsConv \cup AttribConv)
  IN  [q EXCEPT !.queue[level].conv = q.conv]

(* The name: it must be there, it may be there, or it cannot. *)
ReadName(s, p, named) ==
  IF named # "no" /\ Tok(s, p.at) \in Names THEN [Skip(p) EXCEPT !.name = Tok(s, p.at)]
  ELSE IF named = "must" THEN Fail(p)
  ELSE [p EXCEPT !.name = "?"]

(* parse_type_ptr() *)
ReadDeclarator(s, p, named) ==
  LET n == Len(p.queue)
      own(q) == OwnLevels(q.queue, n)
      plain(q) == IF Cardinality(own(q)) = 1 THEN ReadPlainConv(s, q, n + 1) ELSE q
  IN  Then(ReadLevels(s, p, TRUE), LAMBDA q :
        Then(ReadName(s, plain(q), named), LAMBDA d :
          Then(ReadSuffixes(s, d, own(d), Max(own(d)), "default"), LAMBDA r :
            Then(Bind([r EXCEPT !.type = p.type], n + 2, n + 1), LAMBDA t :
              IF t.mode = "cdef" /\ IsVoid(t.type) THEN Fail(t)
              ELSE [t EXCEPT !.queue = SubSeq(@, 1, n), !.name = d.name]))))

(* parse_type(), the whole of what cffi.typeof() is given *)
ReadType(s, p) ==
  Then(ReadBase(s, p), LAMBDA b :
    Then(ReadDeclarator(s, b, "no"), LAMBDA q :
      IF Tok(s, q.at) = "end" THEN q ELSE Fail(q)))

(* mutant: a calling convention is written into the typedef's function     *)
(* whatever the declarator made of it                                      *)
SharesAnything(p, word, type) == word \in DOMAIN p.typedefs

(* Whether a declarator left a typedef's function as it is, so that the    *)
(* type still shares it.                                                   *)
SharesFunction(p, word, type) ==
  /\ word \in DOMAIN p.typedefs
  /\ type.k = "func" /\ [type EXCEPT !.cv = {}, !.ref = FALSE] = p.typedefs[word]

(* parse_decl(), for a single declarator.  A calling convention that comes *)
(* first is written into the function, which a typedef may share.          *)
ReadDecl(s, p) ==
  LET c == ReadConv(s, p, AttribConv)
      word == IF Tok(s, c.at) \in Qualifiers THEN Tok(s, c.at + 1) ELSE Tok(s, c.at)
  IN  Then(ReadBase(s, c), LAMBDA b :
        Then(ReadDeclarator(s, b, "maybe"), LAMBDA q :
          IF c.conv = "default" THEN q
          ELSE IF q.type.k # "func" THEN Fail(q)
          ELSE [q EXCEPT !.type.conv = c.conv,
                         !.typedefs = IF SharesFunction(p, word, q.type)
                                        THEN [@ EXCEPT ![word].conv = c.conv] ELSE @]))

Parser(queue, dims, mode, typedefs) ==
  [at |-> 1, ok |-> TRUE, queue |-> queue, dims |-> dims, mode |-> mode, typedefs |-> typedefs,
   type |-> Base("void", {}), name |-> "?", cv |-> {}, conv |-> "default",
   params |-> <<>>, variadic |-> FALSE, flag |-> "none"]
=============================================================================
