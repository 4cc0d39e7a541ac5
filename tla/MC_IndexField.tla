---------------------------- MODULE MC_IndexField ----------------------------
EXTENDS IndexField

\* Three elements; byte strings over "a" (97). The delimiter "\n" (10) is
\* met only as the separator Join puts between array elements.
MCDocs == {"d1", "d2", "d3"}
MCStrs == {<<>>, <<97>>, <<97, 97>>}

\* int64 values on both sides of a byte boundary, all non-negative.
MCIntVals == {0, 1, 255, 256}

\* A negative value next to zero.
MCSignedVals == {-1, 0, 1}

\* Arrays whose joins differ: one element, two elements, and the element
\* that is their concatenation.
MCStrArrays == {<<<<97>>>>, <<<<97>>, <<97>>>>, <<<<97, 97>>>>}
MCIntArrays == {<<>>, <<0>>, <<0, 1>>}
====
