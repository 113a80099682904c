---------------------------- MODULE MCPackageRun ----------------------------
(* A package of a changed pair p1 and a pair p2 of equal scripts; a build   *)
(* of another environment has p1 only.                                      *)
EXTENDS PackageRun

CONSTANTS p1, p2

MCBuilds == {{p1, p2}, {p1}}
=============================================================================
