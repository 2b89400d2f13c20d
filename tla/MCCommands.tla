------------------------------ MODULE MCCommands ------------------------------
\* The commands of two actors on a small instance: threads of one process, or
\* each a process of its own.
EXTENDS Commands

CONSTANTS one, two, ann, bob, noText, noFile, nobody

MCActors == {one, two}
MCValues == {ann, bob}
OneProcess(x) == one
OwnProcess(x) == x
=============================================================================
