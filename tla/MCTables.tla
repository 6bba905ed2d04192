------------------------------ MODULE MCTables ------------------------------
(***************************************************************************)
(* Tables on four boards of one CPU, each of a processor with a table of   *)
(* its own.  Every register name of the tables is asked for on its own, as *)
(* the program's --register does, once to be read and once with a value    *)
(* supplied.  The program exits after the call.                            *)
(*                                                                         *)
(* TLC keeps the value of a definition, but not that of one that a cfg     *)
(* substitutes: so the constants are given twice, the second time in a LET *)
(* (otherwise its coverage statistics walk the tables at each use).        *)
(***************************************************************************)
EXTENDS Tables

CONSTANTS all, nothing, nocpu, norequest

McRows == LET rows == read_tables_to_memory IN rows

McPart ==
    [b \in {"A7", "A15", "A53", "A57"} |-> [c \in CPUs |->
        CASE b = "A7" -> IMPL_CORTEX_A7 [] b = "A15" -> IMPL_CORTEX_A15
          [] b = "A53" -> IMPL_CORTEX_A53 [] b = "A57" -> IMPL_CORTEX_A57]]

AllGic == GicTargets
McMapped == LET value == AllGic IN value
McHandled == LET value == WithReader IN value
WithUserRow == {Target(i) : i \in {i \in Indices : "NS_PL0" \in Rows[i].ppl}}
McUserReads == LET value == WithUserRow \cap WithReader IN value
McUndefined == {}

\* (@@ <<>> has TLC evaluate the functions here.)
AllOnes ==
    [b \in Boards |-> [v \in Targets \X CPUs |->
        IF v[1][1] # NotGic THEN 0 .. 31
        ELSE Delivered(get_arch_from_midr(Part[b][v[2]]), MS_SYSREG[v[1][2]])] @@ <<>>]
    @@ <<>>
McContents == LET value == AllOnes IN value

Names(arch) ==
    {Rows[i].name : i \in {i \in Indices :
        \/ Rows[i].type = "TYPE_MM"
        \/ arch \in {Rows[i].uid.part, get_arch_from_impl(Rows[i].uid.part)}}}

Ask(arch, name, calc) ==
    [uid |-> NoUid, group |-> NoGroup, name |-> name,
     arch |-> IF arch = ARCH_ARMV7A THEN "armv7a" ELSE "armv8a", impl |-> "all",
     cpu |-> all, pl |-> {"PREFERRED_PL"}, noparse |-> FALSE, dev |-> TRUE,
     calc |-> calc, value |-> IF calc THEN Bits \ {TopBit} ELSE {}]

EveryName ==
    UNION {{Ask(arch, n, calc) : n \in Names(arch), calc \in BOOLEAN} : arch \in Arches}
McRequests == LET value == EveryName IN value

OneCall == Init /\ [][(ret = "none" /\ Find) \/ Library \/ breakout_call_driver]_vars
=============================================================================
