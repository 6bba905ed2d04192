------------------------------ MODULE MCSession ------------------------------
(***************************************************************************)
(* Instances of Session for TLC: registers that user mode may read, may    *)
(* not read, that the table's sentinel names and that have no row, with    *)
(* one memory-mapped register.                                             *)
(***************************************************************************)
EXTENDS Session

CONSTANTS ctr, midr, fpsid, null, mmfr4, gicd
=============================================================================
