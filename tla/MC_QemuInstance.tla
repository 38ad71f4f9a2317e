---------------------------- MODULE MC_QemuInstance ----------------------------
EXTENDS QemuInstance, TLC

CONSTANTS c1, c2

MCCpus == {c1, c2}

\* ss << m_icount_mips << ",nosleep": the shift printed in decimal.
MCShiftText(s) == ToString(s) \o ",nosleep"

MCSymmetry == Permutations(MCCpus)

====
