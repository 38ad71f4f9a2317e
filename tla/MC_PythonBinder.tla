---------------------------- MODULE MC_PythonBinder ----------------------------
EXTENDS PythonBinder, TLC

CONSTANTS t1

MCOneThread == {t1}

====
