--------------------------- MODULE MCQualityLoop ---------------------------
(* Instances of QualityLoop for TLC: versions are numbers, 0 for what is    *)
(* shipped, which at an ignored path is no file.                            *)
EXTENDS QualityLoop

Rewritten(v) == [p \in Paths |-> v]
Kept(v) == [p \in Paths |-> IF p \in Ignored THEN 0 ELSE v]

\* The first package has a file that may be rewritten in two ways; to the second
\* a change comes with a file that git ignores, and a kill may part them.
Rewrites == <<{Kept(1), Kept(2)}, {Rewritten(1)}>>

\* Any change of any files.
AllContents == [t \in Tasks |-> Contents]
=============================================================================
