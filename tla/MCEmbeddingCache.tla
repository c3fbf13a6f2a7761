-------------------------- MODULE MCEmbeddingCache --------------------------
(* Small instances of EmbeddingCache for TLC. *)
EXTENDS EmbeddingCache, TLC

CONSTANTS t1, t2, p1, p2, m1, m2, x, y, z

\* Two threads of one process, or one thread in each of two processes.
OneProc == [t \in {t1, t2} |-> p1]
TwoProcs == (t1 :> p1) @@ (t2 :> p2)

\* Short lists of texts: empty, single, a repeated text, different texts.
UpToTwo == BoundedSeq(Texts, 2)
NoneToPair == {<<>>, <<y>>, <<x, y>>}

\* The file of one of the two texts is in other hands, or hard to read.
SecondKey == {<<m1, y>>}
NoKeys == {}

\* Texts are interchangeable when neither Touched, Unreadable nor Requests
\* names one.
TextSymmetry == Permutations(Texts)
ThreadSymmetry == Permutations({t1, t2})
BothSymmetry == TextSymmetry \cup ThreadSymmetry
=============================================================================
