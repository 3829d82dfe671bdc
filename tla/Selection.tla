------------------------------- MODULE Selection -------------------------------
\* A loop that appends some of the elements of a slice to another one.
EXTENDS Naturals, Sequences, SequencesExt

\* The elements of s at the indices of I, in order.
Picked(s, I) == FlattenSeq([i \in DOMAIN s |-> IF i \in I THEN <<s[i]>> ELSE <<>>])
=============================================================================
