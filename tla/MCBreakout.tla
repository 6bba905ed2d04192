----------------------------- MODULE MCBreakout -----------------------------
(***************************************************************************)
(* Breakout on small tables, and on two boards: two CPUs of different      *)
(* parts that share an architecture, or one known and one not.  Register 1 *)
(* has rows in both implementations' tables, 2 has rows that prefer        *)
(* different levels, 3 has no reader and 4 may be read at either level;    *)
(* the GIC has a block that is mapped and one that is not.                 *)
(*                                                                         *)
(* TLC keeps the value of a definition, but not that of one that a cfg     *)
(* substitutes: so the large constants are given twice.                    *)
(***************************************************************************)
EXTENDS Breakout, TLC

CONSTANTS all, nothing, nocpu, norequest

R(type, part, reg, n, ppl, shift, width, group, name) ==
    [type |-> type, uid |-> MSCODE(part, reg, n),
     reg |-> IF type = "TYPE_MM" THEN MSCODE(part, reg, reg) ELSE MSCODE(0, 0, reg),
     ppl |-> ppl, shift |-> shift, width |-> width,
     group |-> group, name |-> <<name, -1>>]

K == {"NS_PL1"}
U == {"NS_PL0"}
B == Levels

SmallTables ==
    << R("TYPE_IMPL", IMPL_CORTEX_A7, 1, 0, K, 0, 1, "other", "ACTLR"),
       R("TYPE_IMPL", IMPL_CORTEX_A15, 1, 0, K, 1, 2, "other", "ACTLR"),
       R("TYPE_IMPL", IMPL_CORTEX_A57, 4, 0, K, 0, 3, "virtmem", "TCR"),
       R("TYPE_ARCH", ARCH_ARMV7A, 1, 0, K, 0, 3, "other", "ACTLR"),
       R("TYPE_ARCH", ARCH_ARMV7A, 2, 0, U, 0, 1, "psr", "CPSR"),
       R("TYPE_ARCH", ARCH_ARMV7A, 2, 1, B, 1, 2, "psr", "CPSR"),
       R("TYPE_ARCH", ARCH_ARMV7A, 3, 0, U, 0, 3, "perfmon", "SPSR"),
       R("TYPE_ARCH", ARCH_ARMV7A, 4, 0, B, 0, 2, "other", "CTR"),
       R("TYPE_ARCH", ARCH_ARMV8A, 4, 0, B, 0, 4, "other", "CTR"),
       R("TYPE_ARCH", ARCH_ARMV7A, 5, 0, {"S_PL1"}, 0, 2, "secext", "SDER"),
       R("TYPE_MM", GICC_V2, 0, 0, K, 0, 2, "gicc", "GICC_CTLR"),
       R("TYPE_MM", GICC_V2, 4096, 0, K, 0, 2, "gicc", "GICC_DIR") >>

McRows == SmallTables

GicMapped == {<<GICC_V2, 0>>}
Read == {<<NotGic, 1>>, <<NotGic, 2>>, <<NotGic, 4>>, <<NotGic, 5>>}
Readable == {<<NotGic, 4>>}
Trapping == {<<<<NotGic, 2>>, 1>>}

Other == 99   \* a processor that the library does not know
McPart ==
    [b \in {"v7", "v8"} |-> [c \in CPUs |->
        IF b = "v7" THEN (IF c = 0 THEN IMPL_CORTEX_A15 ELSE IMPL_CORTEX_A7)
        ELSE (IF c = 0 THEN IMPL_CORTEX_A57 ELSE Other)]]
Held ==
    [b \in {"v7", "v8"} |->
        [v \in Targets \X CPUs |-> IF v[2] = 0 THEN {0, 1} ELSE {1, 2}] @@ <<>>] @@ <<>>
McContents == Held

Ask0 == [uid |-> NoUid, group |-> NoGroup, name |-> NoName, arch |-> "armv7a",
         impl |-> "all", cpu |-> all, pl |-> {"PREFERRED_PL"}, noparse |-> FALSE,
         dev |-> TRUE, calc |-> FALSE, value |-> {}]

Finds == [Ask0 EXCEPT !.group = "other"]
Small ==
    {[Ask0 EXCEPT !.name = <<n, -1>>, !.pl = l, !.noparse = p, !.cpu = c] :
        n \in {"ACTLR", "CPSR", "CTR", "SPSR"}, l \in {{"PREFERRED_PL"}, U, B},
        p \in BOOLEAN, c \in {all, 1}}
Calc ==
    {[Ask0 EXCEPT !.name = <<n, -1>>, !.calc = TRUE, !.value = v, !.noparse = p] :
        n \in {"ACTLR", "CTR", "none"}, v \in {{0, 2}, {1, 3}}, p \in BOOLEAN}

Calls ==
    {Finds, [Finds EXCEPT !.noparse = TRUE],
     [Finds EXCEPT !.impl = "cortex-a7"], [Finds EXCEPT !.impl = "cortex-a9"],
     [Ask0 EXCEPT !.arch = "armv8a", !.group = "virtmem"],
     [Ask0 EXCEPT !.arch = "armv6", !.group = "virtmem"],
     [Ask0 EXCEPT !.group = "gicc"], [Ask0 EXCEPT !.group = "gicc", !.dev = FALSE],
     [Ask0 EXCEPT !.group = "gicc", !.pl = U], [Ask0 EXCEPT !.group = "secext"],
     [Ask0 EXCEPT !.uid = MSCODE(IMPL_CORTEX_A7, 1, 0)]}
    \cup Small \cup Calc
McRequests == Calls
=============================================================================
