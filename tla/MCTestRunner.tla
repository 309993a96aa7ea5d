---------------------------- MODULE MCTestRunner ----------------------------
(* TestRunner on small instances.                                             *)
EXTENDS TestRunner
=============================================================================
