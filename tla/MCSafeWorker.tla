---------------------------- MODULE MCSafeWorker ----------------------------
\* Four requests with two keys and two bodies, and a signer who can pay one or two Safes.
EXTENDS SafeWorker, TLC

CONSTANTS c1, c2, c3, c4, plain, other, bad

MCCalls == {c1, c2, c3, c4}
MCBodies == {plain, other, bad}
MCBad == {bad}
MCKeys == {"k1", "k2"}
MCSymmetry == Permutations(MCCalls)
=============================================================================
