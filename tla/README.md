# A verification project for cffi-lua

cffi-lua lets Lua programs call C: `cffi.cdef` reads C declarations, and the
library builds values of the declared types ("cdata"), calls C functions through
libffi, and turns Lua functions into C function pointers. This directory holds a
TLA+ model of its core, configurations for TLC, and proofs checked by TLAPS.
Paths such as `src/ffi.cc` are those of the repository.

## Inventory

| Component | Code | State | Operations | What makes it correct | Modelled by |
|---|---|---|---|---|---|
| Declaration store | `decl_store` in `src/ast.cc`, `src/ast.hh` | a list of owned objects and a map by name, for the main store and, during a parse, for a staging store over it; a name counter each | add, lookup, commit, drop, request_name | list and map agree; a parse is all or nothing; a definition never changes; types never point at deleted objects; generated names are new | `DeclStore` |
| Declaration parser | `src/parser.cc` | the staging store, the bodies being parsed, the mode; a queue of levels and a stack of dimensions that outlive a parse | parse, parse_type, parse_type_ptr and the recursive descent below them | every error exit leaves the main store alone; a declarator is the type that is written | `DeclStore`, `Declarator` (partly) |
| Lexer, constant expressions | `src/parser.cc`, `c_expr::eval` in `src/ast.cc` | the token, one token of lookahead | lex, parse_cexpr, eval, get_arrsize | values and types are those of C, at every width | `Lexer`, `ConstExpr`, `Evaluation`, `Constants` |
| Types, serialization | `c_type`, `c_function` | immutable, shared by reference counts | copy, compare, print | equal types are told from others; a printed type reads back | `CTypes`, `TypeNames`, `Conversion` (partly) |
| Record layout | `c_record` in `src/ast.cc` | fields, libffi type | set_fields, resolve_union, iter_fields | offsets and sizes are those of the C ABI | `RecordLayout` |
| Value conversion | `from_lua*`, `to_lua*`, `make_cdata` in `src/ffi.cc` | the memory of a new object, while nested tables are read into it | one per pair of types and per rule (convert, pass, cast), initializers | what is stored is what C reads; every byte of a new object is accounted for | `Conversion`, `Initializer` (partly) |
| Function cdata and callbacks | `make_cdata_func`, `cb_bind`, `destroy_closure` in `src/ffi.cc`; `call`, `cb_free`, `cb_set` in `src/ffilib.cc` | handles (garbage collected), closures (freed by hand), registry slots, addresses held by C | create by cast, by new, by storing or passing a Lua function, copy, call from Lua, call from C, set, free | a call runs the function last set; nothing that is gone is used; nothing is leaked | `Callback` |
| Variadic calls | `prepare_cif_var`, `call_cif`, `lua_to_vararg` | room for a result and an argument buffer, kept between calls | call | the buffer is laid out for this call; a result is not overwritten before it is read | `ArgBuffer`, `Calls` |
| Finalizers, metatypes | `destroy_cdata` in `src/ffi.cc`, `gc_f`, `metatype_f` in `src/ffilib.cc` | `gc_ref` of each cdata, a registry slot; the metatype of each record | cffi.gc, cffi.metatype, collection, lua_close | the last finalizer runs once; closing the state ends | `Finalizer` (partly) |
| Operators | `cdata_meta` in `src/ffilib.cc` | none | arithmetic, comparison, bitwise, indexing, metamethods | 64-bit results as documented; the right metamethod of the right operand | `Operators`, `OperatorCalls` (partly) |
| Shared libraries | `src/lib.cc` | handle and symbol table of each namespace | load, get_sym, close | a symbol is of a loaded library | `Library` |
| Containers | `src/util.hh` | `rc_obj`, `vector`, `strbuf`, `map` | the usual ones | they are a counter, a sequence, a function | - |
| Glue | `src/main.cc`, `src/lua.hh`, `src/platform.hh`, `src/libffi.hh` | none | - | - | - |

How they interact. A Lua program calls into `src/ffilib.cc`. Strings go to the
parser, which reads and writes the declaration store; types point into the
store. Values go through the conversions; a converted Lua function asks for a
callback. A call of a function cdata enters C through libffi. C enters Lua again
through a trampoline (`cb_bind`), so Lua and C frames alternate on one stack, and
the garbage collector may run whenever Lua code does. Lua's registry is shared:
finalizers, callbacks, metatypes and symbol caches all take slots in it with
`luaL_ref` and give them back with `luaL_unref`.

What is hard. There are no threads, no files and no messages; what is hard is
memory with different lifetimes that point at each other (handles, closures,
registry slots, libraries, C's copies of addresses), re-entry through callbacks
and finalizers, storage that is reused from one call to the next, parses that
fail half way, and arithmetic and syntax that have to be those of C. The list of
hazards, each at its line, is in `PROJECT.json`.

## Modules

Parts that keep state, each with what it promises, a model of the code, and proofs:

| Module | What it is |
|---|---|
| `Namespace` | what `cffi.cdef` promises: calls that add declarations or change nothing |
| `DeclStore` | the declaration store and the parser driving it; implements `Namespace` under the condition given below |
| `CallbackTable` | what callbacks promise: a table from callbacks to functions |
| `Callback` | handles, closures, registry, C locations, the stack; implements `CallbackTable` |
| `FinalizerTable` | what `cffi.gc` promises: a table from cdata to finalizers |
| `Finalizer` | cdata, registry, finalizers in progress, the collector, `lua_close`; implements `FinalizerTable` |
| `Library` | namespaces, their tables of addresses, the dynamic linker |
| `ArgBuffer` | the words of an argument buffer and what a call writes to them |
| `Calls` | function cdata and calls in progress; composes `Library` and `ArgBuffer` |
| `Constants` | the constants of a declaration: expressions evaluated from their operands up, enumerators, sizes of arrays; over `Evaluation`, beside `CRules` |
| `RecordLayout` | the bodies `parse_record` has open, and the types it has laid out with `set_fields`, `resolve_union` and `iter_fields` over libffi's layout; beside the layout of C |
| `Initializer` | the memory of an object and the calls of `from_lua_table` that fill it, one inside the other; over `RecordLayout`; beside what docs/semantics.md says each byte shows (`MCValues`) |
| `OperatorCalls` | a program that applies operators to cdata, one after the other; over `Operators`, beside `OperatorRules` |
| `Conversion` | a value of Lua, what it was read from, and the place it was converted to; `to_lua`, `from_lua` and below, over `CTypes`; beside what a place of a type may hold |
| `DeclStoreProofs`, `CallbackProofs`, `FinalizerProofs`, `CallsProofs`, `EvaluationProofs`, `ArithmeticProofs` (`Constants` and `OperatorCalls`), `RecordProofs`, `ConversionProofs` | the theorems, and the lemmas they rest on |
| `MCDeclStore`, `MCCallback`, `MCFinalizer`, `MCCalls`, `MCConstants`, `MCOperators`, `MCRecords` | constants and symmetry for TLC |

Parts that compute, as operators, compared with a reference written from the
documents of the repository or from the C standard they refer to:

| Module | What it is | Compared with |
|---|---|---|
| `CArith` | integer types of any width, ranks, wrapping | - |
| `Evaluation` | `convert_bin`, `eval_unary`, `eval_binary`: operators on integers | `CRules` |
| `Lexer` | `lex_state`: characters to tokens | `CStandard` |
| `ConstExpr` | the precedence parser | `CStandard` |
| `Operators` | the metamethods of cdata: numbers, pointers, metatypes | `OperatorRules` |
| `CTypes` | `c_type`: construction | - |
| `TypeNames` | `do_serialize`: the text that names a type | reading the text back |
| `Declarator` | `parse_type_ptr` and its parts, `parse_decl` | the text of a type in C (`MCTypes`) |
| `MCCdef`, `MCTypes`, `MCValues` | the samples: each step makes the input longer, or the type deeper, so that every input up to a bound is a state; `MCCdef` also has `Constants` and `OperatorCalls` as two kinds of its own, `MCTypes` has `RecordLayout`, `MCValues` has `Conversion` and `Initializer` | |

### DeclStore

`heap` maps addresses to declarations and `store` says which list owns each
address ("staged", "base", or "deleted" afterwards). `base` and `staged` are the
maps of the two stores, `baseCtr` and `stagedCtr` their counters. `frames` is the
recursion of `parse_record` and `parse_enum`: one entry per body whose brace is
open. `refs` of a declaration is the set of records and enums its type points at
with plain pointers.

Actions follow the code that changes state: `Begin` (a `lex_state` is made),
`DeclareOpaque`, `OpenNamed`, `OpenAnon`, `AddField`, `Enumerator`, `CloseNew`,
`CloseOpaque`, `CloseRedefined` (the paths of `parse_record` and `parse_enum`),
`Declare` (`parse_decl`), `Commit`, and `SyntaxError` for every error the token
level can raise at any point. Every error path drops the staging store in the
same step (`Abort`), as the destructor does. What is read is nondeterministic:
every input that the grammar admits, and every place it can break, is a
behaviour. Names are sets of atoms; the number given to an anonymous type is the
number `request_name` computes.

Assumption: names written in the input are not numbers (`NamesAssumption`). A
parameterized name may be any string, a number too; the model leaves that misuse
out. `was` is a history variable: the completed definitions the main store had
when the parse began.

`CleanSpec` restricts the behaviours: a parse that completed an opaque
declaration of the main store does not fail afterwards. Without it the code does
leak partial declarations (run `decl_partial`) and can leave dangling pointers.

### Callback

`handle` has an entry per cdata: its kind (callback or other function pointer),
`cd` (fdata.cd), `sym` (fdata.sym, named by the closure whose trampoline it is)
and whether the program can still reach it. `closure` has closure_data: alive or
freed, the owner (the handle whose address the trampoline was given), and
`fref`. `registry` is the slots that hold functions for callbacks; `luaL_ref`
picks any free slot, `luaL_unref` frees one. `place` is C memory that holds
function pointers. `stack` is the calls of `cb_bind` in progress, with the handle
that the Lua side keeps alive if it made the call (`via`). A step that reads
memory that is gone sets `fault` to what was read, and nothing happens after it,
since anything could.

`Null` stands for a null pointer, and for the fref of a callback that was created
without a function: `LUA_REFNIL`, or the 0 that `make_cdata` copies from an
untouched buffer. Neither names a function. Addresses are not used again once
freed or collected, so that a use of one is seen.

What a Lua program does beyond the careful use is given by the constant `Liberty`:
copying a handle by conversion, storing a function in a C location, passing a
function as an argument, losing a handle, freeing a callback that is in use; and
"fail", which makes closure setup fail. A careful program has none of these: it
makes callbacks with `cffi.cast` or `cffi.new`, keeps the handle until it has
freed the callback, and frees it when C no longer has the address. Each run says
which liberties it grants.

### Finalizer

`cdata` has an entry per cdata: whether it is live, dying (its finalizer runs) or
destroyed (the destructor of its type was run), `gcRef` (gc_ref) and whether a
Lua variable holds it. `registry` is the slots of the Lua registry with the
function in each; a function has the set of cdata it refers to, which is what
the collector follows (`Reachable`). `others` is the slots that callbacks have.
`finalizing` is the calls of `destroy_cdata` in progress.

`New` is `newcdata` and the end of `make_cdata`, which takes the `__gc` of a
metatype; `GcSet` and `GcClear` are `gc_f`. `destroy_cdata` is two actions, since
the finalizer it calls is Lua code that may do anything in between:
`BeginDestroy`, up to the call, and `EndDestroy`, after it. `Collect` is the
garbage collector calling `cdata_meta::gc` for a cdata that is not reachable, and
`CloseNext` is `lua_close` calling it for each cdata that is left. Lua calls the
`__gc` of a userdata once, so a destroyed cdata stays destroyed.

A step that finds a destroyed cdata (`Use`), or gives its slot back again, sets
`fault`. What a program does beyond careful use is again the constant `Liberty`:
replacing a finalizer, resurrecting a cdata from its finalizer, closing the state.
Registry slots belong to finalizers and to callbacks here, and to callbacks in
`Callback`: `CallbacksUntouched` here says that finalizers do what `Callback`
assumes of the rest of the registry.

### Library, ArgBuffer and Calls

`space` has an entry per namespace (open, closed; the object it opened; the table
of addresses it found), `object` and `scope` are the dynamic linker: how often an
object was opened, how often it was mapped, and which objects are searched for
`cffi.C`. An address is an object together with the number of the mapping it was
found in, so that one into an earlier mapping is seen. `GetGlobal` and
`AccessGlobal` are `get_global` and `set_global`; `Close` is the finalizer of a
namespace, with the collector free to run it once the program has lost the
namespace, whatever function cdata were found through it.

`fdata` has an entry per function cdata: where its address was found, the value in
the room for a result (`rarg`), the number of arguments a variadic one has a
buffer for (`aux`), and whether what follows the room for a result is still what
it was (`intact`). `stack` is the calls in progress. A call is `Invoke`, up to
where C runs, `CReturns`, and, for results that are copied to a new cdata, `Copy`:
between the last two the collector may run finalizers, which may make calls.
`InvokeFails` is a call that fails while its arguments are converted, `Raise` an
error of Lua code that C has called. `ArgBuffer` says which word of the buffer each
argument's value, type and pointer have, and what libffi then reads:
`ArgumentsArrive` is that this is the argument, for every call that could be made
in any state.

### Lexer, ConstExpr, Constants

Characters and tokens are taken from small sets chosen for each part of the code:
comments, numbers, punctuation, attributes, strings; operators, nesting, constants. A
text that ends or breaks anywhere is a state too. `ConstExpr` makes the tree of an
expression, `Constants` gives it its value.

`Constants` keeps in `parts` what `eval` has evaluated and what waits for the rest of
the expression, as the calls of `eval` return: `Operand`, `Unary`, `Binary` and
`Conditional` take their operands off the top and leave their value there. `enums` is
the enumerators so far, `ValuedEnumerator` and `CountedEnumerator` the two ways
through the loop of `parse_enum`. Beside its value, a part has two that no action
looks at: `c`, the value C gives it by `CRules`, and `used`, those of its operators
on which the code is known not to do what C does. Widths are constants (`IntBits`
and the others), so that every value of a type and every overflow is met. What C
leaves undefined is `Undefined`, which a comparison does not look behind.

### Operators and OperatorCalls

`Operators` has an operand for each kind of value: numbers of Lua and of C,
pointers, arrays, records and functions, of types with any metamethods. Addresses
are numbers of `PtrBits` bits. An operator makes a boxed integer, a pointer, a
number or a place, calls a metamethod, raises an error, or does what C leaves
undefined. A number that moves a pointer is cast to `ptrdiff_t`, one that is an index to
`size_t` (`CastDefined`, `Offset`): a floating point cdata out of the range of that type is
undefined behaviour, a Lua float that no integer of Lua can hold counts as zero, any other value wraps
around.

`OperatorCalls` is a program: `held` is the value it has, `call` the operator that is
applied to it and another one, on either side, if Lua would call a metamethod of
cdata for them. `Return` makes what came of it the next value. A metamethod, and
memory that is read, may give any value of `Given`; an error is caught; after
undefined behaviour nothing follows. `Otherwise` names the operands for which the
code is known not to do what the document says (see below); `OperatorsDispatch` is
about all others.

### RecordLayout

`types` is the types that are complete, `bodies` the bodies of records whose brace is
open, the innermost last. `DeclareArray` makes an array of a type, `OpenBody` is
`parse_record` up to the brace, `AddField` one turn of its loop, and `CloseBody` its end,
where `set_fields` computes what the record will be: its size and alignment, by giving
libffi every element of every field (`AddElements`), and, by `iter_fields`, the place of
every member, that of a transparent record handed on to the record around it
(`Inner`). A transparent record is a field of the body that was open around it. Sizes
and alignments of builtin types are constants: of two alignments one divides the
other. Records of size zero are left out, since an assertion in `set_fields` refuses them
(`HasSize`).

### Initializer

`object` is the memory that is initialized: what each byte holds, whether anything was
written behind the last one (`beyond`), whether an error was raised. `stack` is the
calls of `from_lua_table` and `from_lua_table_record` in progress, each with its
type, the place and the size of the memory it was given (`at`, `rsz`), the list or the
entries it reads, and the element or member whose turn it is. `New` is `make_cdata`
and `Assign` is `from_lua` to memory that is there, both up to `from_lua_aggreg`;
`NextElement` and `NextMember` are one turn of each of the two loops, and what a turn does
with its initializer (`Give`) is to store a number, copy a string with as much of its
terminator as there is room for, or begin a call for a table inside the table; `EndElements` zeroes or
repeats, `EndMembers` zeroes a union that got nothing. The types are those that
`RecordLayout` has laid out, so offsets and sizes are what the code computed.
`overfull` is a history: a list was read into the open end of a record (or into an
array whose size is left open) that is longer than the memory there.

A number is what each byte of a scalar that holds it shows, so that bytes tell which
initializer they came from. Tables have a list or entries by name, which is what the code
looks at (index 0 is the start of a list in Lua's or C's manner and makes no
difference to the list). `Assign` is there for what it may overwrite (InitializersStayInside); what
the document says each byte shows (InitializersShow) it says of new objects.

### CTypes, TypeNames, Declarator

A type is a tree; `MCTypes` grows every tree up to a depth, writes it as C does
and gives the text to `ReadDecl`, which must declare that type. `stale` starts with
what a declaration that failed may leave in the two lists that outlive a parse,
and the calling convention is put in each place it may have.

### Conversion

`value` is the value of Lua that a program has: one of Lua's own, or a cdata and its
type. `Make` is `make_cdata` for a type that has objects, `Read` is `to_lua`, for an argument
of a callback or for what is in a place; `origin` keeps which. `Convert` is `from_lua` for a
result, an argument or a cast, `AssignTo` for a variable, an element or a member, and
`place` is the type, the rule and what is stored there: an address and of
what, bits, a record, nothing. A number's digits are left to the C compiler.

`Types` is any set of types with what they are made of and what conversions make of
them (`TypesAssumption`), and `Nesting` says that they are finitely deep; `is_same` and
`ptr_convertible` call themselves, and are recursive functions on these. `is_same` of
functions reads a member that is never set (`ast.cc:1041`), so its answer, and that of
everything that asks it, is a set.

## Runs

| Run | Bounds | Shows |
|---|---|---|
| `decl_store` | 1 struct tag, 1 enum tag, 1 identifier, 2 declarations, bodies 3 deep | TypeOK; list and map agree (StoresAgree); a completed definition never changes (FirstDefinitionStays); names of anonymous types are new (AnonFresh) |
| `decl_clean` | 1 tag, 1 identifier, 3 declarations, CleanSpec | NoDangling; `Namespace` is implemented (ImplementsNamespace) |
| `decl_partial` | the same, Spec | violated: a failed cdef leaves an opaque struct completed (NoPartialDeclarations) |
| `callback_careful` | 4 handles, 2 closures, 2 slots, 2 functions, 1 place, calls 2 deep, no liberty | TypeOK; no access to what is gone (NoFault); slots are held only by callbacks that are not freed (NothingLeaked) |
| `callback_table` | 3 handles, calls 1 deep, every liberty | slots are owned by one callback each (RefsOwned); `CallbackTable` is implemented |
| `finalizer_safe` | 3 cdata, 2 slots, 1 function, finalizers 2 deep, no liberty | TypeOK; Lua code finds no destroyed cdata (NoFault); slots are held only by callbacks and cdata not destroyed (NothingLeaked); callbacks keep their functions (CallbacksUntouched) |
| `finalizer_table` | 2 cdata, 2 slots, every liberty, FairSpec | slots are owned by one cdata each (RefsOwned); `FinalizerTable` is implemented; a state that is being closed destroys every cdata (StateCloses) |
| `calls` | `cffi.C` and 2 namespaces, 1 object mapped twice, 2 cdata, 2 values, 2 arguments, calls 2 deep, places of 2 words; a function that returns a record of 4 words, a variadic one, a variable | TypeOK; what an open namespace gave out is there (OpenNamespacesServe); tables of addresses change nothing (CacheInvisible); the linker's count is that of open namespaces (OpensCounted); C gets its arguments (ArgumentsArrive); a waiting result is the right one (ResultsWait); only large results overwrite what follows (StorageHolds) |
| `cdef_text` | texts of 5 characters, expressions of 5 tokens (in brackets and conditionals 7); int 3, long and long long 4, char 2, pointers 4 bits; declarations of 3 operands and unary operators, 16 operands, 2 enumerators; programs over 34 values and what comes of them | trees (ParsesLikeC), values and types (EvaluatesLikeC), array sizes and enumerators (ConstantsKeepValues), comments, literals are those of C; operators on numbers are those of C on 64 bits (BoxedArithmetic); metamethods are called as documented (OperatorsDispatch) |
| `pointer_arithmetic` | the same programs | violated: a number taken from a pointer is added to it, in bytes (PointersMoveAsInC) |
| `types` | types 3 derivations deep (2 for conversions, to and from which a value of each kind and of each type that is like them or nearly so is converted, and what is read of them), 3 builtin types and 3 others, in records of 3 fields; records to initialize built in 2 steps, with up to 2 elements in an open end, and arrays of 2 or 3; lists for every member and one too many, two entries by name, strings of 1 and 3, tables 3 deep; functions with 3 of 6 parameter lists | declarators (DeclaresAsWritten), typedefs (TypedefsStay), printed types (NamesReadBack), layout (LayoutAsInC, with the exceptions for flexible members and transparent records below), what conversions store (ConversionsFit), and whether it can go back (ValuesReturn), every byte of a new object (InitializersShow), none outside it but where an open end gets more than it has room for (InitializersStayInside) |
| `nested_offsets` | 3 builtin types, 3 others, 3 fields | violated: a member two unnamed structs deep has the wrong offset (TransparentMembers) |

Why the bounds are enough. In `DeclStore` a declaration in the main store and one
staged are enough for every combination of add, lookup, completion and abort,
since each step looks up one name; `decl_clean` has a third for a pointer from one
to another; the proofs cover the rest. Two
closures are needed for one callback to harm another, three handles for a copy
and a bystander, two slots so that a slot can pass from one callback to the
other, two functions to tell them apart, and two calls deep for a callback that
is called, freed or set from within a call of itself. Three cdata allow one whose
finalizer refers to another, and a third that is collected meanwhile; functions
differ in the cdata they refer to, so one code is enough to tell them apart.
In `Calls` two namespaces share one object, which may be unmapped and mapped
again once; a call with one argument more than an earlier one needs a larger buffer;
two calls deep is one that is made while another waits. `Few` bounds namespaces
and cdata taken together. Five characters are a whole comment with one
character inside, a three-digit number with both suffixes, or a character
constant with an escape and what follows. Five tokens are two operators with their
operands, and so every pair of precedences, seven are a conditional in brackets or
in a branch of another. With int one bit narrower than long, and long as wide as
long long, types differ in width, and in rank alone, and every one is exceeded by a
sum of two of its values; operands are the limits of each type and what is near
zero. Three operands are two operators, one applied to what the other made. A
program goes on with what it computed, so its values are not only those given.
Three derivations are every nesting of an array, a function and a
pointer or reference. Three types that are not builtin are three records, each inside the
next and two of them transparent, or a record after an array of arrays; three fields
are one at each level, or two around one that needs padding.

Deadlock is checked except where the model stops for a reason of its own: in
`decl_clean`, when the bounded heap is used up inside a parse that may not fail,
in `callback_table`, `finalizer_table` and `calls` after a bad access or
the end of `lua_close`, in `finalizer_safe` when the program has
dropped everything and finalizers that refer to their own cdata keep all of it, and in
the runs over samples when a sample has its full size or the program did what C
leaves undefined.

Fairness. Nothing in this code waits: a parse ends because its input does, and
whether the program frees a callback or the collector runs is up to them. The one
thing that has to end is `lua_close()`, which calls `__gc` of every cdata there
is and does not return before. `FairSpec` is weakly fair to the next such call, and
to the end of a finalizer that runs (finalizers are assumed to return). It is not
fair to anything else; `StateCloses` then says that every cdata is destroyed,
though finalizers may set, replace and clear the finalizers of others meanwhile.

## What is proved

All theorems hold for every value of the constants: any names, number of
objects, handles, closures, slots, functions, places, namespaces, signatures, widths
of integers, operands, types, and any nesting.

`DeclStoreProofs`
- `TypeCorrect`: TypeOK, which includes that types point only at records and enums.
- `StoresAlwaysAgree`: StoresAgree is inductive together with TypeOK.
- `AnonymousNamesFresh`: AnonFresh needs the strengthening AnonInv: every number in
  use in the main store is below `baseCtr`, and every number in use in the staging
  store or in an open body is below the sum of the counters, open bodies having
  different ones.
- `FirstDefinitionAlwaysStays`: each step, given TypeOK and StoresAgree.
- `CleanNeverDangles` and `RefinesNamespace`: of CleanSpec, by an invariant that says
  that what the main store had completed before the parse still points into the
  main store only.

`CallbackProofs`
- `TypeCorrect`: TypeOK, including that addresses are those of closures that were made.
- `RefsAlwaysOwned`: whatever the program does.
- `ImplementsTable`: every step is a step of `CallbackTable` or leaves the table alone.
- `CarefulIsSafe`: with no liberties, NoFault, and that a freed handle raises an error
  (FreedHandleRaises). Neither is inductive:
  `CarefulInv` adds that a callback handle that is not freed is the owner of its
  closure, that the owner of a live closure is held by the program, and that
  the closures of all calls in progress are live.
- `NoLeaks`: NothingLeaked, which is inductive with TypeOK, unless a function is passed
  as an argument or closure setup fails; these two do leak.

`FinalizerProofs`, from one inductive invariant `IInv`: TypeOK, RefsOwned, finalizers
in progress are those of distinct dying cdata (`Frames`), a cdata that was not
made has no slot and nothing refers to it (`Born`), and the slots of callbacks are
not empty (`OthersFull`). TypeOK is not inductive without RefsOwned, since what
`destroy_cdata` reads must be a function.
- `TypeCorrect`, `RefsAlwaysOwned`, `CallbacksKept`: whatever the program does.
- `ImplementsTable`: every step of every program, also under `lua_close`, is a step of
  `FinalizerTable` or leaves the table alone.
- `SafePrograms`: NoFault when Liberty is at most replace; `SafeInv` adds that
  everything a variable, a slot or a running finalizer refers to is live, which
  holds because the slot is given back after the finalizer has returned.
- `NoLeaks`: NothingLeaked when nothing is replaced either.

`CallsProofs`, from one inductive invariant `IInv`. `LibraryInv` says that the linker
counts the open namespaces of each object, that open objects are mapped and only
these are searched (`Linked`), and that a table holds addresses in its own
object as it is mapped now (`Caches`); with the count right, the object of an open
namespace cannot be unmapped. To it are added TypeOK, that cdata in use or in a call are live
(`Handles`), and that the address in a cdata is that of its namespace as long as it
is open (`Origins`), without which OpenNamespacesServe says nothing of a cdata that outlives
the table it came from.
- `TypeCorrect`, `Counted`, `TablesInvisible`, `Serving`, `Waiting`, `Holding`: the invariants
  of the run `calls`.
- `Arriving`: ArgumentsArrive, since the buffer that is kept has room for the call
  (`RoomForAll`), and by `RoomDelivers`.
- `RoomDelivers`: a buffer with room for the arguments of a call delivers all of them,
  whatever it held. Words written for different uses or different arguments are
  different words (`WordsApart`) inside the buffer (`WordsInside`), since the places of values end
  where the types begin (`PlaceBefore`); so each word holds the one thing that
  was written to it (`OnlyWrite`).

`EvaluationProofs` has lemmas only, and begins with those on induction over the natural
numbers: the provers do not instantiate a theorem whose parameter is an operator, so
`NaturalInduction` is stated for a set of numbers, and `Iteration` says that a function
that is defined from a start by a step exists, which gives the equations of `TwoTo`,
`Bitwise`, powers and loops. From the powers of two follow the ranges of types, that
`Wrapped` is the one value in range that differs by a multiple of the modulus
(`OneWrapped`), that `convert_bin` finds C's common type (`ConvertBinIsCommon`, with the
swap of its operands and the test of widths), and that every operator is C's
(`BinaryIsExact`, `ShiftIsExact`, `UnaryIsExact`). They need of the widths
only `WidthsAssumption`: char is narrower than int, the others are ordered by rank, and a shift
count fits an int.

`ArithmeticProofs`, of `Constants` from the inductive invariant `ConstantsInv` (`ConstantsInvariant`): each
part that waits, and each part an enumerator came from, is a value in the range of its type
or `Undefined`, and agrees with C unless it used an operator that does not; and
EnumeratorsCount. The parts of enumerators are in it because the value of the
next enumerator is computed from the last, cast to int, while C computes it from the
written one.
- `ConstantExpressionsAreCs`: EvaluatesLikeC, for expressions of any size.
- `ConstantsAreKept`: ConstantsKeepValues, for enums of any length.

and of `OperatorCalls`, with int narrower than long long and operands that are values of
their types (`OperandAssumption`):
- `OperandsStayTyped`: TypeOK, that what a program computes is again an operand; the
  theorems below rest on it.
- `NumbersComputeAsDocumented`: BoxedArithmetic. The power is computed by squaring in the
  code and is a repeated product in C: the invariant of the loop (`Halfway`) is that
  what is left of the exponent, times the square the base is at, and what the result has
  of it make up the exponent, and products agree with powers modulo the width
  (`PowerIsProduct`). That no square overflows where the power does not is part of it.
- `OperatorsDispatchAsDocumented`: OperatorsDispatch, one lemma for each group of operators.

`RecordProofs`, from the inductive invariant `RecordInv` (`RecordsInvariant`): every type is
made of types that are complete, its size is a multiple of its alignment, an array has the size of
its elements, and a record was made by `Record` from fields that were in a body. What the code
reaches element by element and C by one rule is compared in closed form, by induction over the
number of fields (`UptoInduction`): libffi's end after a member that is repeated is the next multiple
of its alignment plus its size (`AddElementsIs`, where a size that is a multiple of its alignment leaves
no padding between elements), the end after all is that of C (`GrownExact`), and so is the place of
each (`BaseAfterIs`, `CEndIsBaseAfter`). Every alignment is one of a builtin type, which divide each
other, so that the strictest is a multiple of all.
- `RecordsLieAsInC`: LayoutAsInC. The reference (`CSize`, `CAlign`, `CPlace`) is C's own, also for
  flexible members, so the theorem has to say where the two part: the size of a record is that of C
  (`SizeIsC`), its alignment too unless a flexible member is the strictest (`StrictEnd`), members
  with a size are at the offsets of C (`PlaceIsC`, `MembersAreCs`) but for those below two
  transparent records, and a flexible member is where it is in C or behind that.
- `MembersStayInside`: where every array has elements, every member lies within its
  record, at a multiple of its alignment, those that `nested_offsets` finds at the wrong offset too:
  what they lose is the place of the record they are in, which is a multiple of their alignment.
  `MembersInside` is in no configuration; with the bounds of `nested_offsets` it holds.

- `InitializersAlwaysInside`: InitializersStayInside, for objects of every type a program
  declares, tables of any depth and lists of any length. The inductive invariant
`ObjectInv` is: types are as above, and elements, members and open ends are types
  that are laid out (`TypesInv`); nothing was written beyond the object unless
  `overfull` (`IsObject`); and the memory of each call in progress is large enough for its type
  and, unless `overfull`, lies inside the object and has room for the whole list (`AreCalls`). A step leaves the calls below the innermost alone
  (`CallExcept`), so one lemma for each kind of step suffices: an element is at a place below
  the end because a list that was let in is no longer than there is room (`RoomIs`), a
  member because of what `MembersStayInside` says of it (`MemberIs`).

`ConversionProofs`, for every set of types that `TypesAssumption` allows. The functions that are recursive in
a type get their equations from `WellFoundedRecursion` (elements have a rank, and a step asks only for
lower ones), and facts about them by `RankInduction`; `Loosely`, whose values are in no set that is
known beforehand, from functions that agree on all types up to a depth (`LooselyUpto`).
- `ConversionsAlwaysFit`: ConversionsFit, which is inductive once the value is known to be a value of Lua;
  that is what `ToLuaIsValue` says of one that is read. Types that `is_same` finds the same are
  taken for the same object in C (`SameLoosely`): this has to be stronger one level down, where
  qualifiers and references count, than at the top, where they may be ignored (`SameLevel`). What
  `ptr_convertible` lets through loses no qualifier at any level of pointers (`ConvertsPointsAs`). There is one lemma for
  each function that `from_lua` calls.
- `ValuesAlwaysReturn`: ValuesReturn, with a lemma for each kind of type, pointers to functions among
  them (`FunctionReturns`). The invariant is that the value is still what `to_lua` made of its origin
  (`OriginKnown`) and the place holds what became of the value (`PlaceKnown`). A type that leads to no function is the same
  as itself and as a reference to it, whichever way p_variadic is read (`SameReferent`), and a
  pointer converts to one to the same object (`ConvertsItself`).

The assumptions are the named ASSUMEs of the modules; TLC evaluates them in every
run, and `0 \notin Counts` of `MembersStayInside` and `InitializersAlwaysInside` holds in the configurations. Only
model-checked: what works on texts, or is compared with a recursive definition (ParsesLikeC, CommentsLikeC and LiteralsLikeC of the
lexer and the parser of expressions, DeclaresAsWritten and TypedefsStay of declarators, NamesReadBack of the names of types,
InitializersShow of what the bytes of an object show), and the liveness property StateCloses.
Liveness, ENABLED and what a RECURSIVE operator computes are outside what the installed prover
does.

## What disagrees with the documents

Three runs find a behaviour that a document of the repository rules out; `findings` in
`PROJECT.json` quotes the lines: `decl_partial`, `pointer_arithmetic`, `nested_offsets`.

Three more statements of the documents are definitions of `Callback` that
hold in no run with the liberty they are about, and are left out of the
configurations: CallbacksPermanent ("drop": a callback whose handle was collected,
docs/semantics.md:497), CopiedHandleCallable ("copy": the copy of a handle has a null
address), PassedFunctionCallable ("pass": a Lua function passed as an argument has no
value to pass).

Properties that hold with an exception name it in their comment. The exceptions are
what the code is known to do:

- Text: the operand of a unary operator takes in a multiplication that follows
  (`parser.cc:1072`); `!` keeps the type of its operand, `?:` converts to no common type,
  `&&` and `||` evaluate both sides; a comment that ends in an even run of stars goes on
  (`parser.cc:702`); `0u`, `0L` and `10LU` are not one literal; a literal that does not fit its first type
  keeps it if it is signed (`parser.cc:446`).
- Types: a calling convention before a name is lost, one inside brackets goes to the
  level outside them (`parser.cc:1865`); one before a typedef's declaration changes the typedef
  (`parser.cc:2607`); the printed form of arrays of pointers and of arrays of arrays
  does not read back.
- Records: a flexible member follows the whole record (`c` of `struct {int a; char b; char c[];}` is
  at 8, in C at 5), and its alignment does not count in the
  record's own (`ast.cc:1359`; `struct {char a; int b[];}` is aligned to 1, in C to 4), where
  docs/semantics.md:331 says that a field's address is computed "like in C"; if it is an array of arrays it counts as aligned like a pointer
  (`ast.cc:1360`); an array without elements is not given to libffi, and leaves no trace in the
  alignment; a member below two transparent records has the offset it has in the inner one
  (`nested_offsets`).
- Values: a Lua value that a reference is to hold is stored as a value; a reference to a pointer
  that is no argument is compared at every level with what a cdata points to (`ffi.cc:720`); a record's
  address converts to a pointer to anything; a type that leads to a function, but
  a pointer to one, may be found unlike itself (`ast.cc:1041`); more elements than a flexible member was
  made for are written beyond the object (`ffi.cc:1280`); a record takes more
  initializers than it has members, as a list, where docs/semantics.md:278 says "Excess initializers
  raise an error" (and 306 makes an exception of tables); a table
  is also taken when it is assigned to an array or a record that is there (`ffi.cc:1417`), where
  docs/semantics.md:212 says "Table initializers are allowed in `cffi.new` but nowhere else": members
  it does not name then keep their bytes, and are not filled with zero as line 300 says.
- Calls: a record in the variable part leaves its pointer unset (`ffi.cc:374`); `cffi.C` keeps
  addresses of libraries that were unloaded (`lib.cc:373`); a result larger than the room for
  it overwrites what follows (`ffi.hh:219`).
- Operators: a number is also added to a pointer on its right (`ffilib.cc:552`, and `3 + a` in
  tests/scalar.lua:32), where docs/semantics.md:369 says "The number must be on the right hand side";
  `-` looks for `__add` (`ffilib.cc:614`); without `__le`, `__lt` is called with the
  operands unchanged and negated (`ffilib.cc:770`, against the comment at 826); arrays are not compared,
  and pointers to records ask their metamethod first; functions are read as pointers.

## What is not modelled

- Declaration parser: the bodies of records at the level of tokens (what they do to
  the store is in `DeclStore`, their layout in `RecordLayout`); attributes other than calling
  conventions; `static_assert`.
- Types: which of the builtin types a name of several words is, and the sizes of
  builtin types, which are tables.
- Types: arrays of references, which the parser accepts and C does not have: `ptr_convertible`
  (`ffi.cc:702`) does not end where both sides are arrays of references to pointers; `IsType` and
  `Comparable` (`MCTypes`) leave arrays of references out.
- Values: digits of numbers; `va_list`; enumerations, which are converted as int.
- Finalizers and metatypes: `cffi.metatype` itself, which stores a table and a set of flags once.
- Operators: `addressof`, `tostring`, `pairs`, `close`, operators on ctypes; references, which are
  followed first.
- Shared libraries: paths and linker scripts, which are I/O; the Windows loader.
- Callbacks: more than one Lua thread.
- Containers: data structures used by one thread, with no order of events to explore. The
  modules have sequences, functions and sets in their place; of a vector that is
  read after it is emptied, as the declarator's lists are, `Declarator` has what is left in it.
- Glue: compile-time switches, wrappers of headers, registration; nothing with a state.
- Running out of memory anywhere.
