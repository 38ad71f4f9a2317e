--------------------------- MODULE MC_LuaFileCmdLine ---------------------------
EXTENDS LuaFileCmdLine, TLC

CONSTANTS f1, d1, d2

MCFiles == {f1}

MCDirs == {d1, d2}

====
