-------------------------- MODULE MCAnnotationReview --------------------------
\* Pages, and annotation values, are interchangeable.
EXTENDS AnnotationReview, TLC

ReviewSymmetry == Permutations(Browsers) \cup Permutations(Values)
=============================================================================
