------------------------- MODULE MCSurfaceCallback -------------------------
EXTENDS SurfaceCallback, TLC

\* The kernel's numbers are interchangeable.
Symmetry == Permutations(Numbers)
=============================================================================
