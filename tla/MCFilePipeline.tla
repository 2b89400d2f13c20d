---------------------------- MODULE MCFilePipeline ----------------------------
EXTENDS FilePipeline, TLC
CONSTANTS person, column, PERSON, COLA, ann, ANN, bob, annNorm, bobNorm, p1, p2, m1, m2
MCPrefixOf == [n \in Namespaces |-> IF n = person THEN PERSON ELSE COLA]
\* A column headed like the token prefix of an entity type.
MCCollidingPrefix == [n \in Namespaces |-> PERSON]
MCFileName == [p \in Paths |-> p]
MCNorm == [n \in Namespaces |-> [v \in Values |-> IF v = bob THEN bobNorm ELSE annNorm]]
Item(n, v) == [ns |-> n, val |-> v]
Text1 == <<Item(person, ANN)>>
Text2 == <<Item(person, bob), Item(column, ann)>>
MCTexts == {Text1, Text2}
Request(t, m, f) == [text |-> t, mode |-> m, force |-> f]
MCRequests ==
  {Request(Text1, {person}, FALSE), Request(Text2, {person, column}, FALSE),
   Request(Text1, {column}, TRUE)}
Symmetry == Permutations(Paths) \union Permutations(Models)
=============================================================================
