------------------------------- MODULE LuaTable -------------------------------
(***************************************************************************)
(* LuaFile_Tool::setParamsFromLuaTable (src/include/greensocs/gsutils/     *)
(* luafile_tool.h, lines 399-558) and its call from config(): the walk of  *)
(* the Lua global table that turns every scalar reachable from _G into a   *)
(* CCI preset value named by its dotted key path.                          *)
(*                                                                         *)
(* The walk is recursive and works on the Lua stack through relative       *)
(* indices, so the model keeps the Lua stack itself (a sequence of Lua     *)
(* values), the C call stack of the recursion (one frame per call: its t,  *)
(* its level in static_key and where it is), and lua_next over the order   *)
(* Lua happens to give each table, which the code cannot rely on.  The     *)
(* key buffer static_key is the dotted name built so far; its size is      *)
(* MAX_NAME_SIZE bytes.                                                    *)
(***************************************************************************)
EXTENDS Integers, Sequences, SequencesExt, TLC

CONSTANTS
    TableIds,       \* the Lua tables of the configuration; G is _G
    G,
    Heaps,          \* the configurations: [TableIds -> [keys -> values]]
    MAX_NAME_SIZE,  \* the size of static_key (1000 in the code)
    W               \* the width of the CCI integer types (64 in the code)

ASSUME LuaTableAssumption ==
    /\ G \in TableIds
    /\ MAX_NAME_SIZE \in Nat \ {0} /\ W \in Nat \ {0}

\* Lua values.  A number is its integral part toward zero and whether it
\* has a fractional part.
LuaNil == [type |-> "nil"]
Num(n, frac) == [type |-> "number", n |-> n, frac |-> frac]
Str(s) == [type |-> "string", s |-> s]
Bool(b) == [type |-> "boolean", b |-> b]
Tab(id) == [type |-> "table", id |-> id]
Fun == [type |-> "function"]

\* The CCI value a Lua number becomes (lines 473-483): uint64 for an
\* integer in [0, 2^64), int64 for an integer in [-2^63, 2^63), else double.
NumValue(v) ==
    IF ~v.frac /\ 0 <= v.n /\ v.n < 2^W THEN <<"uint", v.n>>
    ELSE IF ~v.frac /\ -(2^(W-1)) <= v.n /\ v.n < 2^(W-1) THEN <<"int", v.n>>
    ELSE <<"double", v.n, v.frac>>

CciValue(v) ==
    CASE v.type = "number" -> NumValue(v)
      [] v.type = "boolean" -> <<"bool", v.b>>
      [] v.type = "string" -> <<"string", v.s>>

\* The key component a table key writes at level (lines 439-462): a number
\* is truncated and made 0-based, a string is copied; any other key is an
\* error.
KeyName(k) == IF k.type = "number" THEN ToString(k.n - 1) ELSE k.s

ValidKey(k) == k.type \in {"number", "string"}

\* The names that are not set (lines 468, 505-506) and the tables that are
\* not walked (line 522).
IgnoredNum == {"math.huge", "math.pi"}
IgnoredStr == {"_VERSION", "package.cpath", "package.config", "package.path"}
NoRecurse(name, comp) == name \in {"_G", "package.loaded"} \/ comp = "__index"

VARIABLES
    heap,      \* the tables
    ord,       \* the order lua_next visits each table in
    stack,     \* the Lua stack
    frames,    \* the active calls of setParamsFromLuaTable, innermost last
    presets,   \* the set_preset_cci_value calls: name and value, in order
    cpc,       \* config(): "walk", "ret", "panic" (Lua error outside any
               \* protected call) or "overrun" (a write past static_key)
    result     \* the value the outermost call returned

vars == <<heap, ord, stack, frames, presets, cpc, result>>

Frame(t, level) == [t |-> t, level |-> level, pc |-> "start", cnt |-> 0]

\* config() pushes _G (lua_getglobal) and calls the walk with t = lua_gettop
\* and level = NULL, so that level is the start of static_key.
Init ==
    /\ heap \in Heaps
    /\ LET orders == [x \in TableIds |-> SetToSeqs(DOMAIN heap[x])]
       IN ord \in {o \in [TableIds -> UNION {orders[x] : x \in TableIds}] :
                     \A x \in TableIds : o[x] \in orders[x]}
    /\ stack = <<Tab(G)>>
    /\ frames = <<Frame(1, "")>>
    /\ presets = <<>>
    /\ cpc = "walk"
    /\ result = 0

Top == frames[Len(frames)]

\* The stack slot a valid index refers to.
Abs(t) == IF t > 0 THEN t ELSE Len(stack) + 1 + t

SetTop(f) == frames' = [frames EXCEPT ![Len(frames)] = f]

\* A call returns r: its frame is popped; the caller (line 531) resumes at
\* its lua_pop, or config() receives r.
Return(r) ==
    /\ frames' = Front(frames)
    /\ IF Len(frames) = 1 THEN cpc' = "ret" /\ result' = r
                         ELSE UNCHANGED <<cpc, result>>

-----------------------------------------------------------------------------

\* Mutant: the relative index is not adjusted after lua_pushnil.
Start_NoAdjust ==
    /\ cpc = "walk" /\ Top.pc = "start"
    /\ IF stack[Abs(Top.t)].type # "table"
       THEN Return(-1) /\ UNCHANGED stack
       ELSE /\ stack' = Append(stack, LuaNil)
            /\ SetTop([Top EXCEPT !.pc = "next"])
            /\ UNCHANGED <<cpc, result>>
    /\ UNCHANGED <<heap, ord, presets>>

\* Lines 401-432: the overflow test only logs, and it comes after the
\* write it tests for (a write past static_key is cpc = "overrun" here, so
\* it never fires); a non-table argument returns -1; lua_pushnil, and a
\* relative t is moved down past the nil.
Start ==
    /\ cpc = "walk" /\ Top.pc = "start"
    /\ IF stack[Abs(Top.t)].type # "table"
       THEN Return(-1) /\ UNCHANGED stack
       ELSE /\ stack' = Append(stack, LuaNil)
            /\ SetTop([Top EXCEPT !.pc = "next", !.t = IF @ < 0 THEN @ - 1 ELSE @])
            /\ UNCHANGED <<cpc, result>>
    /\ UNCHANGED <<heap, ord, presets>>

\* lua_next(L, t) (line 434): pops the key on top and pushes the next key
\* and its value, or pushes nothing at the end of the table.  A key that is
\* not in the table, or t not naming a table, raises a Lua error; config()
\* runs the walk outside lua_pcall, so the error is a panic.
LuaNext ==
    /\ cpc = "walk" /\ Top.pc = "next"
    /\ LET tv == stack[Abs(Top.t)]
           k == Last(stack)
       IN IF tv.type # "table" \/ (k # LuaNil /\ ~\E j \in DOMAIN ord[tv.id] : ord[tv.id][j] = k)
          THEN cpc' = "panic" /\ UNCHANGED <<stack, frames, result>>
          ELSE LET o == ord[tv.id]
                   j == IF k = LuaNil THEN 1 ELSE 1 + CHOOSE x \in DOMAIN o : o[x] = k
               IN IF j > Len(o)
                  THEN stack' = Front(stack) /\ Return(Top.cnt)
                  ELSE /\ stack' = Append(Append(Front(stack), o[j]), heap[tv.id][o[j]])
                       /\ SetTop([Top EXCEPT !.pc = "body"])
                       /\ UNCHANGED <<cpc, result>>
    /\ UNCHANGED <<heap, ord, presets>>

\* Mutant: the number key is not made 0-based.
Name_OneBased(f, k) == f.level \o (IF k.type = "number" THEN ToString(k.n) ELSE k.s)

\* The name the key component makes when written at level; with its NUL
\* it needs Len + 1 bytes.
Name(f, k) == f.level \o KeyName(k)

\* What static_key holds then: strcpy writes a string key whole, while
\* snprintf (line 447) truncates a number key to the bytes left, and
\* next_level still points past the whole name.
StoredKey(f, k) ==
    IF k.type = "number" /\ Len(Name(f, k)) >= MAX_NAME_SIZE
    THEN SubSeq(Name(f, k), 1, MAX_NAME_SIZE - 1)
    ELSE Name(f, k)

\* One iteration of the loop body (lines 436-554) for the key at -2 and
\* the value at -1: an invalid key returns -1 with both left on the stack;
\* a string key that does not fit in static_key is a write past it, and so
\* is the '.' written after a truncated number key (line 525); a scalar is
\* set unless ignored and counted if its key is a number; a table is
\* walked with level past the '.' unless it is one of those skipped; then
\* lua_pop(L, 1) removes the value, which for a table is done once the
\* recursive call has returned.
Body ==
    /\ cpc = "walk" /\ Top.pc = "body"
    /\ LET k == stack[Len(stack) - 1]
           v == Last(stack)
           name == StoredKey(Top, k)
           isNum == k.type = "number"
           fits == Len(Name(Top, k)) < MAX_NAME_SIZE
           set == \/ v.type = "boolean"
                  \/ v.type = "number" /\ name \notin IgnoredNum
                  \/ v.type = "string" /\ name \notin IgnoredStr
           walk == v.type = "table"
                   /\ ~NoRecurse(name, SubSeq(name, Len(Top.level) + 1, Len(name)))
       IN IF ~ValidKey(k) THEN Return(-1) /\ UNCHANGED <<stack, presets>>
          ELSE IF ~fits /\ (~isNum \/ walk)
          THEN cpc' = "overrun" /\ UNCHANGED <<stack, frames, presets, result>>
          ELSE /\ presets' = IF set THEN Append(presets, <<name, CciValue(v)>>) ELSE presets
               /\ IF walk
                  THEN frames' = Append([frames EXCEPT ![Len(frames)].pc = "callret"],
                                        Frame(-1, name \o "."))
                       /\ UNCHANGED stack
                  ELSE /\ stack' = Front(stack)
                       /\ SetTop([Top EXCEPT !.pc = "next",
                                             !.cnt = IF set /\ isNum THEN @ + 1 ELSE @])
               /\ UNCHANGED <<cpc, result>>
    /\ UNCHANGED <<heap, ord>>

\* After the recursive call (line 531) its result is dropped and the loop
\* pops what it takes to be the table value.
CallRet ==
    /\ cpc = "walk" /\ Top.pc = "callret"
    /\ stack' = Front(stack)
    /\ SetTop([Top EXCEPT !.pc = "next"])
    /\ UNCHANGED <<heap, ord, presets, cpc, result>>

Done == cpc # "walk" /\ UNCHANGED vars

Next == Start \/ LuaNext \/ Body \/ CallRet \/ Done

Spec == Init /\ [][Next]_vars

-----------------------------------------------------------------------------
(* The reference: the flattening of the configuration.                     *)

\* The entries the walk visits from table id with key prefix prefix, to a
\* depth of d tables: every entry with a valid key of a walked table.
RECURSIVE Entries(_, _, _)
Entries(id, prefix, d) ==
    IF d = 0 THEN {}
    ELSE LET own == {[name |-> prefix \o KeyName(k), key |-> k, val |-> heap[id][k]] :
                     k \in {k \in DOMAIN heap[id] : ValidKey(k)}}
             sub == {e \in own : e.val.type = "table" /\ ~NoRecurse(e.name, KeyName(e.key))}
         IN own \cup UNION {Entries(e.val.id, e.name \o ".", d - 1) : e \in sub}

\* Every level adds at least one byte to the key, so deeper levels cannot
\* fit in static_key.
Reached == Entries(G, "", MAX_NAME_SIZE)

WalkedTables ==
    {G} \cup {e.val.id : e \in {e \in Reached :
                 e.val.type = "table" /\ ~NoRecurse(e.name, KeyName(e.key))}}

\* Every key of every walked table is a number or a string.
KeysValid == \A x \in WalkedTables : \A k \in DOMAIN heap[x] : ValidKey(k)

\* Every key path fits in static_key.
NamesFit == \A e \in Reached : Len(e.name) < MAX_NAME_SIZE

Expected ==
    {<<e.name, CciValue(e.val)>> :
        e \in {e \in Reached :
                 \/ e.val.type = "boolean"
                 \/ e.val.type = "number" /\ e.name \notin IgnoredNum
                 \/ e.val.type = "string" /\ e.name \notin IgnoredStr}}

-----------------------------------------------------------------------------
(* Properties.                                                             *)

\* A configuration whose keys are numbers and strings and whose key paths
\* fit is walked without a Lua error, and when the walk returns to config()
\* it has set exactly the flattening of _G (dotted names, 0-based indices,
\* the ignore lists), returned no error and left the Lua stack as config()
\* had it, with _G alone on it.  The relative index t, the lua_pop of
\* every iteration and the key buffer shared by the recursion must all be
\* right, for every order lua_next visits the tables in.
WalkSetsFlattening ==
    cpc # "walk" /\ KeysValid /\ NamesFit =>
        /\ cpc = "ret"
        /\ Range(presets) = Expected
        /\ result >= 0
        /\ stack = <<Tab(G)>>

\* "Error loading lua file: invalid key" (line 460) and config()'s
\* "if (error < 0)" (line 201): a walked table with a key that is neither
\* a number nor a string fails the load with an error.
InvalidKeyFails ==
    cpc # "walk" /\ ~KeysValid /\ NamesFit => cpc = "ret" /\ result < 0

\* "test for overflow" (line 414): the walk never writes past static_key.
NoKeyOverrun == cpc # "overrun"

====
