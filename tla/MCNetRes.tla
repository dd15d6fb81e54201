------------------------------ MODULE MCNetRes ------------------------------
EXTENDS NetRes, TLC
CONSTANTS src, a, b
LoaderSymmetry == Permutations({a, b})
LoaderLink == {{a, b}}
Mesh == {{src, a}, {src, b}, {a, b}}
ToSource == {{src, a}}
==============================================================================
