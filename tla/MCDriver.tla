------------------------------ MODULE MCDriver ------------------------------
(***************************************************************************)
(* Instances of Driver for TLC: two clients, two or three CPUs, one        *)
(* register that every CPU has (midr), one that only the last has (fpsid), *)
(* the sentinel row, a code without a row, and two GIC blocks of which the *)
(* device tree gave one.                                                   *)
(***************************************************************************)
EXTENDS Driver, TLC

CONSTANTS c1, c2, midr, fpsid, null, mmfr4, gicd, gich

Nobody == {}
OnlyLastCpu == {fpsid} \X (CPUs \ {MS_MAX_CPUS - 1})
Symmetry == Permutations(Clients)
=============================================================================
