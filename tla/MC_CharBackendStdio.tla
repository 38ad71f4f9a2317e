------------------------- MODULE MC_CharBackendStdio -------------------------
EXTENDS CharBackendStdio, TLC

CONSTANTS a, b, ctrlc

MCChars == {a, b}
====
