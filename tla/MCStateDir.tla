----------------------------- MODULE MCStateDir -----------------------------
(* Instances of StateDir for TLC. *)
EXTENDS StateDir

TwoTexts == {"a", "b"}
A == File("a", TRUE)
B == File("b", TRUE)
Free == <<Absent, Absent, Absent>>
Begin(s, l, d) == [src |-> s, aside |-> l, dst |-> d]
\* Two that differ and one alike; two alike; a place aside that is taken, and a
\* target that is there.
Several == {Begin(<<A, B, A>>, Free, Absent),
            Begin(<<A, Absent, A>>, Free, Absent),
            Begin(<<A, Absent, B>>, <<B, Absent, Absent>>, B)}
OneReport == {Begin(<<A, Absent, Absent>>, Free, Absent)}
OfFirst == [r \in 1..Rows |-> IF r = 1 THEN {1} ELSE {}]
OnePrompt == {1}
Off == {FALSE}
Either == {FALSE, TRUE}
=============================================================================
