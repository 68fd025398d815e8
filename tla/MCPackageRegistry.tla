------------------------- MODULE MCPackageRegistry --------------------------
(* PackageRegistry on a small instance.                                    *)
EXTENDS PackageRegistry, TLC

(* The two handler threads are interchangeable, and so are the archives.   *)
Symmetry == Permutations(Publishers) \cup Permutations(Archives)
=============================================================================
