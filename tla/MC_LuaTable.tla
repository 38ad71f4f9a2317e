------------------------------ MODULE MC_LuaTable ------------------------------
EXTENDS LuaTable

CONSTANTS g, t1

MCTableIds == {g, t1}

\* The scalars a configuration may hold: a uint, an int, a double (with
\* W = 4, 20 fits neither integer type), a boolean, a string, a function.
Scalars == {Num(3, FALSE), Num(-1, FALSE), Num(20, FALSE), Bool(TRUE), Str("s"), Fun}

\* _G holds itself under "_G" (as every Lua state does), a nested table
\* "a", an array element, and an ignored Lua constant; "a" holds a
\* scalar, an array element and an "__index" back to _G.
MCHeaps ==
    {g :> ((Str("_G") :> Tab(g)) @@ (Str("a") :> Tab(t1)) @@ (Num(1, FALSE) :> x)
           @@ (Str("_VERSION") :> Str("Lua")))
     @@ t1 :> ((Str("b") :> y) @@ (Num(2, TRUE) :> z) @@ (Str("__index") :> Tab(g))) :
        x \in Scalars, y \in Scalars, z \in {Bool(FALSE), Tab(t1)}}

\* The same shapes with a key that is no number or string, at the top and
\* nested.
MCBadHeaps ==
    {g :> ((Str("_G") :> Tab(g)) @@ (Str("a") :> Tab(t1)) @@ (kg :> Num(3, FALSE)))
     @@ t1 :> ((Str("b") :> Num(3, FALSE)) @@ (kt :> Bool(FALSE))) :
        kg \in {Str("c"), Bool(TRUE)}, kt \in {Num(1, FALSE), Tab(g)}}

====
