----------------------------- MODULE MCWorkspaces -----------------------------
\* The workspace commands on a small instance.
EXTENDS Workspaces, TLC

CONSTANTS a, b, m1, absent, broken, noFile, torn

MCNames == {a, b}
MCItems == {m1}
MCSymmetry == Permutations(MCNames)
=============================================================================
