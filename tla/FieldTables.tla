----------------------------- MODULE FieldTables -----------------------------
(***************************************************************************)
(* The tables that say which fields each register has                      *)
(* (src/lib/src/bitfields), a functional group of a table to a definition. *)
(*                                                                         *)
(* An entry stands for the consecutive rows of a register: the levels that *)
(* are preferred for reading it, the register's code, and the rows as      *)
(* <<uid, first bit, number of bits>>.  Most registers are split from bit  *)
(* 0 upwards into fields that are numbered from 0, and only the widths are *)
(* given; At gives the rows of those that are not.  The register's name is *)
(* that of its code, or else Named; an array of GIC registers is Ranged.   *)
(* The names and descriptions of the fields are left out.                  *)
(***************************************************************************)
EXTENDS Integers, Sequences

PL0 == {"NS_PL0"}
PL1 == {"NS_PL1"}
NS_ALL == {"NS_PL0", "NS_PL1", "NS_PL2"}
S_ALL == {"S_PL0", "S_PL1"}

Widths(w) ==
    LET first[n \in 1 .. Len(w)] == IF n = 1 THEN 0 ELSE first[n - 1] + w[n - 1]
    IN [n \in 1 .. Len(w) |-> <<n - 1, first[n], w[n]>>]
Each(n, width) == [k \in 1 .. n |-> width]

At(levels, register, rows) ==
    [register |-> register, name |-> register, ppl |-> levels, range |-> 1,
     rows |-> rows, group |-> "none"]
K(register, widths) == At(PL1, register, Widths(widths))
U(register, widths) == At(PL0, register, Widths(widths))
B(register, widths) == At(PL0 \cup PL1, register, Widths(widths))
NS(register, widths) == At(NS_ALL, register, Widths(widths))
SEC(register, widths) == At(S_ALL, register, Widths(widths))
ANY(register, widths) == At(NS_ALL \cup S_ALL, register, Widths(widths))

Named(name, entry) ==
    [register |-> entry.register, name |-> name, ppl |-> entry.ppl,
     range |-> entry.range, rows |-> entry.rows, group |-> entry.group]
Ranged(range, entry) == [entry EXCEPT !.range = range]
Group(group, entries) ==
    [k \in 1 .. Len(entries) |-> [entries[k] EXCEPT !.group = group]]
-----------------------------------------------------------------------------
a7_ident == Group("ident", <<
    K("REVIDR", <<32>>), K("MPIDR", <<2, 6, 4, 12, 1, 5, 1, 1>>)>>)

a7_other == Group("other", <<
    K("ACTLR", <<6, 1, 3, 1, 1, 1, 2, 1, 12, 1, 3>>)>>)

a7_secext == Group("secext", <<
    K("NSACR", <<10, 1, 1, 2, 1, 1, 1, 1, 1, 1, 12>>)>>)

a7_impl_def == Group("impl_def", <<
    K("L2CTLR", <<1, 22, 1, 2, 6>>), K("L2ECTLR", <<29, 1, 2>>),
    K("CBAR", <<8, 7, 16>>)>>)

a15_ident == Group("ident", <<
    K("REVIDR", <<32>>), K("MPIDR", <<2, 6, 4, 12, 1, 5, 1, 1>>)>>)

a15_other == Group("other", <<
    K("ACTLR", <<1, 1, 1, 1, 1, 1, 1, 1, 1, 1, 1, 1, 1, 1, 1, 1, 1, 1, 1, 1,
        1, 1, 1, 1, 1, 2, 2, 1, 1, 1>>)>>)

a15_secext == Group("secext", <<
    K("NSACR", <<10, 1, 1, 3, 1, 1, 1, 1, 1, 12>>)>>)

a15_fault == Group("fault", <<
    K("ADFSR", <<18, 5, 1, 7, 1>>)>>)

a15_impl_def_1 == Group("impl_def", <<
    K("L2CTLR", <<3, 2, 1, 3, 1, 2, 1, 8, 1, 1, 1, 2, 5, 1>>),
    K("IL1DATA0", <<32>>), At(PL1, "IL1DATA1", <<<<1, 0, 32>>>>),
    At(PL1, "IL1DATA2", <<<<2, 0, 32>>>>),
    At(PL1, "IL1DATA3", <<<<3, 0, 32>>>>), K("DL1DATA0", <<32>>),
    At(PL1, "DL1DATA1", <<<<1, 0, 32>>>>),
    At(PL1, "DL1DATA2", <<<<2, 0, 32>>>>),
    At(PL1, "DL1DATA3", <<<<3, 0, 32>>>>)>>)

a15_impl_def_2 == Group("impl_def", <<
    K("L2ACTLR", <<1, 1, 1, 1, 1, 1, 1, 1, 1, 1, 1, 1, 1, 1, 1, 1, 1, 8, 1, 1,
        1, 1, 3>>),
    K("L2PFR", <<4, 2, 1, 2, 1, 1, 1, 1, 19>>), K("ACTLR2", <<1, 30, 1>>),
    K("CBAR", <<8, 7, 16>>),
    At(PL1, "CPUMERRSR", <<<<0, 0, 18>>, <<1, 18, 5>>, <<2, 23, 1>>,
        <<3, 24, 7>>, <<4, 31, 1>>, <<5, 32, 38>>, <<6, 40, 8>>,
        <<7, 48, 14>>, <<8, 63, 1>>>>),
    At(PL1, "L2MERRSR", <<<<0, 0, 18>>, <<1, 18, 5>>, <<2, 23, 1>>,
        <<3, 24, 7>>, <<4, 31, 1>>, <<5, 32, 38>>, <<6, 40, 8>>,
        <<7, 48, 14>>, <<8, 63, 1>>>>)>>)

a53_impl_def_1 == Group("impl_def", <<
    K("L2CTLR", <<1, 4, 1, 15, 1, 1, 1, 2, 6>>),
    K("L2ECTLR", <<3, 26, 1, 1, 1>>),
    K("L2ACTLR", <<3, 1, 10, 1, 9, 1, 4, 1, 2>>)>>)

a53_addrtrans == Group("addrtrans", <<
    K("PAR", <<1, 6, 2, 1, 1, 1, 36, 8, 4, 4>>)>>)

a53_impl_def_2 == Group("impl_def", <<
    K("CPUACTLR", <<6, 1, 3, 1, 2, 3, 1, 1, 1, 2, 1, 1, 1, 1, 2, 2, 1, 1, 13,
        1, 19>>),
    K("CPUECTLR", <<3, 3, 1, 57>>),
    K("CPUMERRSR", <<12, 6, 3, 3, 7, 1, 8, 8, 15, 1>>),
    K("L2MERRSR", <<3, 14, 1, 4, 2, 7, 1, 8, 8, 15, 1>>),
    At(PL1, "CBAR", <<<<0, 0, 18>>, <<1, 18, 32>>, <<2, 40, 24>>>>)>>)

a53_virtmem == Group("virtmem", <<
    K("SCTLR", <<1, 1, 1, 1, 1, 1, 1, 1, 1, 1, 1, 1, 1, 1, 1, 1, 1, 1, 1, 1,
        1, 1, 2, 1, 1, 1, 1, 2, 2>>)>>)

a53_fault == Group("fault", <<
    Named("ESR", K("DFSR", <<24, 1, 1, 5>>))>>)

a57_ident == Group("ident", <<
    K("MPIDR", <<2, 6, 8, 8, 1, 5, 1, 1, 32>>)>>)

a57_virtmem == Group("virtmem", <<
    K("SCTLR", <<1, 1, 1, 1, 1, 1, 1, 1, 1, 1, 1, 1, 1, 1, 1, 1, 1, 1, 1, 1,
        1, 1, 2, 1, 1, 1, 1, 2, 2>>),
    K("TTBR0", <<10, 38, 16>>), K("TTBR1", <<10, 38, 16>>)>>)

a57_fault == Group("fault", <<
    Named("ESR", K("DFSR", <<6, 1, 1, 1, 1, 15, 1, 6>>))>>)

a57_addrtrans == Group("addrtrans", <<
    K("PAR", <<1, 6, 2, 1, 1, 1, 36, 8, 4, 4>>)>>)

a57_impl_def_1 == Group("impl_def", <<
    K("L2CTLR", <<3, 2, 1, 3, 1, 2, 1, 1, 6, 1, 1, 1, 1, 2, 5, 1>>),
    K("L2ECTLR", <<3, 26, 1, 1, 1>>),
    K("L2ACTLR", <<1, 1, 1, 1, 1, 1, 1, 1, 1, 1, 1, 1, 1, 1, 1, 1, 1, 1, 2, 2,
        1, 1, 1, 1, 1, 1, 1, 3>>)>>)

a57_impl_def_2 == Group("impl_def", <<
    K("CPUACTLR", Each(25, 1) \o <<2, 2>> \o Each(11, 1) \o <<4, 1, 2>> \o Each(13, 1)
        \o <<3, 1>>),
    K("CPUMERRSR", <<18, 5, 1, 7, 1, 8, 8, 15, 1>>),
    K("L2MERRSR", <<18, 4, 2, 7, 1, 8, 8, 15, 1>>),
    At(PL1, "CBAR", <<<<0, 0, 18>>, <<1, 18, 32>>, <<2, 40, 24>>>>),
    K("CPUECTLR", <<3, 3, 1, 25, 2, 1, 2, 1, 1, 25>>)>>)

armv7a_ident_1 == Group("ident", <<
    K("PFR0", <<4, 4, 4, 4, 16>>), K("PFR1", <<4, 4, 4, 4, 4, 12>>),
    K("DFR0", Each(8, 4)), K("AFR0", <<4, 4, 4, 4, 16>>),
    K("MMFR0", Each(8, 4)), K("MMFR1", Each(8, 4)), K("MMFR2", Each(8, 4)),
    K("MMFR3", Each(8, 4))>>)

armv7a_ident_2 == Group("ident", <<
    K("ISAR0", Each(8, 4)), K("ISAR1", Each(8, 4)),
    K("ISAR2", Each(8, 4)), K("ISAR3", Each(8, 4)), K("ISAR4", Each(8, 4)),
    K("ISAR5", <<32>>), K("REVIDR", <<32>>), K("TLBTR", <<1, 31>>),
    K("CCSIDR", <<3, 10, 15, 1, 1, 1, 1>>), K("TCMTR", <<29, 3>>),
    K("AIDR", <<32>>), K("CLIDR", <<3, 3, 3, 3, 3, 3, 3, 3, 3, 3, 2>>),
    K("CSSELR", <<1, 3, 28>>), K("CTR", <<4, 10, 2, 4, 4, 4, 1, 3>>),
    K("MIDR", <<4, 12, 4, 4, 8>>), K("MPIDR", <<8, 8, 8, 1, 5, 1, 1>>)>>)

armv7a_fp == Group("fp", <<
    At(PL1, "FPSID", <<<<0, 0, 4>>, <<1, 4, 4>>, <<2, 8, 8>>, <<3, 16, 6>>,
        <<4, 23, 1>>, <<5, 24, 8>>>>),
    K("FPSCR", <<1, 1, 1, 1, 1, 2, 1, 1, 1, 1, 1, 1, 2, 1, 3, 1, 2, 2, 1, 1,
        1, 1, 1, 1, 1, 1>>),
    At(PL1, "FPEXC", <<<<0, 0, 29>>, <<1, 30, 1>>, <<2, 31, 1>>>>),
    K("MVFR0", Each(8, 4)), K("MVFR1", Each(8, 4))>>)

armv7a_secext == Group("secext", <<
    SEC("SCR", <<1, 1, 1, 1, 1, 1, 1, 1, 1, 1, 22>>),
    K("ISR", <<6, 1, 1, 1, 23>>), SEC("MVBAR", <<5, 27>>),
    K("NSACR", <<1, 1, 1, 1, 1, 1, 1, 1, 1, 1, 1, 1, 1, 1, 1, 1, 3, 1, 1,
        11>>),
    SEC("SDER", <<1, 1, 30>>), K("VBAR", <<5, 27>>)>>)

armv7a_debug == Group("debug", <<
    K("DBGDIDR", <<4, 4, 4, 1, 1, 1, 1, 4, 4, 4, 4>>),
    K("DBGAUTHSTATUS", <<1, 1, 1, 1, 1, 1, 1, 1, 24>>),
    K("DBGDRAR", <<2, 10, 28, 24>>),
    K("DBGDSCR", <<1, 1, 4, 1, 1, 1, 1, 1, 1, 1, 1, 1, 1, 1, 1, 1, 1, 2, 2, 1,
        1, 1, 1, 1, 1, 1, 1>>)>>)

armv7a_virtmem == Group("virtmem", <<
    K("NMRR", Each(16, 2)),
    K("PRRR", <<2, 2, 2, 2, 2, 2, 2, 2, 1, 1, 1, 1, 4, 1, 1, 1, 1, 1, 1, 1,
        1>>),
    K("SCTLR", <<1, 1, 1, 2, 1, 1, 1, 2, 1, 1, 1, 1, 1, 1, 1, 1, 1, 1, 1, 1,
        1, 1, 1, 1, 1, 1, 1, 1, 1, 1>>),
    K("TTBCR", <<3, 1, 1, 1, 25, 1>>), K("TTBR0", <<1, 1, 1, 2, 1, 1, 25>>),
    Named("TTBR0", K("TTBR0LPAE", <<64>>)),
    K("TTBR1", <<1, 1, 1, 2, 1, 1, 25>>),
    Named("TTBR1", K("TTBR1LPAE", <<64>>)),
    At(PL1, "CONTEXTIDR", <<<<1, 0, 32>>, <<2, 0, 8>>, <<3, 8, 24>>>>),
    K("AMAIR0", <<32>>), K("AMAIR1", <<32>>), K("DACR", Each(16, 2)),
    K("MAIR0", <<8, 8, 8, 8>>), K("MAIR1", <<8, 8, 8, 8>>)>>)

armv7a_perfmon == Group("perfmon", <<
    K("PMCCNTR", <<32>>), K("PMCEID0", Each(32, 1)), K("PMCEID1", <<32>>),
    K("PMCNTENCLR", <<32>>), K("PMCNTENSET", <<32>>), K("PMINTENSET", <<32>>),
    K("PMINTENCLR", <<32>>), K("PMOVSR", <<32>>), K("PMOVSSET", <<32>>),
    K("PMSELR", <<5, 27>>), K("PMSWINC", <<32>>), K("PMUSERENR", <<1, 31>>),
    K("PMXEVCNTR", <<32>>), K("PMXEVTYPER", <<8, 19, 1, 1, 1, 1, 1>>),
    NS("PMCR", <<1, 1, 1, 1, 1, 1, 5, 5, 8, 8>>)>>)

armv7a_other == Group("other", <<
    K("ACTLR", <<32>>),
    K("CPACR", <<2, 2, 2, 2, 2, 2, 2, 2, 2, 2, 2, 2, 2, 2, 1, 1, 1, 1>>),
    K("FCSEIDR", <<25, 8>>)>>)

armv7a_fault == Group("fault", <<
    K("IFAR", <<32>>), K("IFSR", <<4, 5, 1, 1, 1, 1, 19>>),
    K("ADFSR", <<32>>), K("AIFSR", <<32>>), K("DFAR", <<32>>),
    K("DFSR", <<4, 4, 1, 1, 1, 1, 1, 1, 18>>)>>)

armv7a_jazelle == Group("jazelle", <<
    K("JIDR", <<12, 8, 8, 4>>), K("JMCR", <<1, 31>>), K("JOSCR", <<1, 1, 30>>)>>)

armv7a_thumb == Group("thumb", <<
    NS("TEECR", <<1, 31>>), NS("TEEHBR", <<2, 30>>)>>)

armv7a_misc == Group("misc", <<
    K("TPIDRPRW", <<32>>), U("TPIDRURO", <<32>>), ANY("TPIDRURW", <<32>>)>>)

armv7a_addrtrans == Group("addrtrans", <<
    At(PL1, "PAR", <<<<0, 0, 1>>, <<1, 1, 1>>, <<2, 2, 1>>, <<3, 4, 3>>,
        <<4, 7, 1>>, <<5, 8, 1>>, <<6, 9, 1>>, <<7, 10, 1>>, <<8, 11, 1>>,
        <<9, 12, 20>>>>)>>)

armv7a_psr == Group("psr", <<
    B("APSR", <<16, 4, 4, 3, 1, 1, 1, 1, 1>>),
    K("CPSR", <<5, 1, 1, 1, 1, 1, 6>>),
    At(PL0, "CPSR", <<<<7, 16, 4>>, <<8, 20, 4>>, <<9, 24, 1>>>>),
    At(PL1, "CPSR", <<<<10, 25, 2>>>>),
    At(PL0, "CPSR", <<<<11, 27, 1>>, <<12, 28, 1>>, <<13, 29, 1>>,
        <<14, 30, 1>>, <<15, 31, 1>>>>)>>)

armv8a_ident_1 == Group("ident", <<
    K("PFR0", <<4, 4, 4, 4, 16>>), K("PFR1", Each(8, 4)),
    K("AA64PFR0", <<4, 4, 4, 4, 4, 4, 4, 36>>), K("AA64PFR1", <<64>>),
    K("DFR0", Each(8, 4)), K("AFR0", <<4, 4, 4, 4, 16>>),
    K("AA64AFR0", <<4, 4, 4, 4, 4, 4, 4, 4, 32>>), K("AA64AFR1", <<64>>),
    K("AA64DFR0", <<4, 4, 4, 4, 4, 4, 4, 4, 32>>), K("AA64DFR1", <<64>>),
    K("MMFR0", Each(8, 4)), K("MMFR1", Each(8, 4)), K("MMFR2", Each(8, 4)),
    K("MMFR3", Each(8, 4)),
    At(PL1, "MMFR4", <<<<0, 0, 4>>, <<1, 0, 4>>, <<2, 0, 4>>, <<3, 0, 4>>,
        <<4, 0, 4>>, <<5, 0, 4>>, <<6, 0, 4>>, <<7, 0, 4>>>>),
    K("AA64MMFR0", <<4, 4, 4, 4, 4, 4, 4, 4, 32>>), K("AA64MMFR1", <<64>>)>>)

armv8a_ident_2 == Group("ident", <<
    K("ISAR0", Each(8, 4)), K("ISAR1", Each(8, 4)), K("ISAR2", Each(8, 4)),
    K("ISAR3", Each(8, 4)), K("ISAR4", Each(8, 4)),
    K("ISAR5", <<4, 4, 4, 4, 4, 12>>), K("AA64ISAR0", <<4, 4, 4, 4, 4, 44>>),
    K("AA64ISAR1", <<64>>), K("REVIDR", <<32>>), K("TLBTR", <<1, 31>>),
    K("CCSIDR", <<3, 10, 15, 1, 1, 1, 1>>), K("TCMTR", <<29, 3>>),
    K("AIDR", <<32>>), K("CLIDR", <<3, 3, 3, 3, 3, 3, 3, 3, 3, 3, 2, 32>>),
    K("CSSELR", <<1, 3, 28>>), U("CTR", <<4, 10, 2, 4, 4, 4, 3, 1>>),
    K("MIDR", <<4, 12, 4, 4, 8>>), K("MPIDR", <<8, 8, 8, 1, 5, 1, 1, 8, 24>>)>>)

armv8a_fp == Group("fp", <<
    At(PL1, "FPSID", <<<<0, 0, 4>>, <<1, 4, 4>>, <<2, 8, 8>>, <<3, 16, 6>>,
        <<4, 23, 1>>, <<5, 24, 8>>>>),
    K("FPSCR", <<1, 1, 1, 1, 1, 2, 1, 1, 1, 1, 1, 1, 2, 1, 3, 1, 2, 2, 1, 1,
        1, 1, 1, 1, 1, 1>>),
    At(PL1, "FPEXC", <<<<0, 0, 29>>, <<1, 30, 1>>, <<2, 31, 1>>>>),
    K("MVFR0", Each(8, 4)), K("MVFR1", Each(8, 4)), K("MVFR2", <<4, 4, 16>>)>>)

armv8a_secext == Group("secext", <<
    SEC("SCR", <<1, 1, 1, 1, 1, 1, 1, 1, 1, 1, 22>>),
    K("ISR", <<6, 1, 1, 1, 23>>), SEC("SDER", <<1, 1, 30>>),
    K("VBAR", <<11, 53>>)>>)

armv8a_debug == Group("debug", <<
    K("DBGDIDR", <<4, 4, 4, 1, 1, 1, 1, 4, 4, 4, 4>>),
    K("DBGAUTHSTATUS", <<1, 1, 1, 1, 1, 1, 1, 1, 24>>),
    K("DBGDRAR", <<2, 10, 36, 16>>),
    K("DBGDSCR", <<1, 5, 1, 5, 1, 1, 1, 1, 3, 2, 1, 2, 2, 1, 1, 1, 1, 1, 1>>)>>)

armv8a_virtmem == Group("virtmem", <<
    K("MAIR", Each(8, 8)),
    K("SCTLR", <<1, 1, 1, 1, 1, 1, 1, 1, 1, 1, 1, 1, 1, 1, 1, 1, 1, 1, 1, 1,
        1, 1, 2, 1, 1, 1, 1, 2, 2>>),
    At(PL1, "CONTEXTIDR", <<<<0, 0, 32>>, <<1, 0, 8>>, <<2, 8, 24>>>>),
    K("AMAIR", <<64>>), U("DCZID", <<4, 1, 27>>),
    Named("TCR", K("TTBCR", <<6, 1, 1, 2, 2, 2, 2, 6, 1, 1, 2, 2, 2, 2, 3, 1,
        1, 1, 1, 25>>)),
    Named("TTBR0", K("TTBR1", <<48, 16>>)),
    Named("TTBR1", K("TTBR0", <<48, 16>>))>>)

armv8a_perfmon == Group("perfmon", <<
    NS("PMCR", <<1, 1, 1, 1, 1, 1, 1, 4, 5, 8, 8>>),
    NS("PMCCFILTR", <<26, 1, 1, 1, 1, 1, 1>>), NS("PMCCNTR", <<64>>),
    NS("PMCEID0", <<32>>), NS("PMCEID1", <<32>>), NS("PMCNTENCLR", <<31, 1>>),
    NS("PMCNTENSET", <<31, 1>>), K("PMINTENCLR", <<31, 1>>),
    K("PMINTENSET", <<31, 1>>), NS("PMOVSCLR", <<31, 1>>),
    NS("PMOVSSET", <<31, 1>>), NS("PMSELR", <<5, 27>>),
    NS("PMSWINC", <<31, 1>>), NS("PMUSERENR", <<1, 1, 1, 1, 28>>),
    NS("PMXEVCNTR", <<32>>), NS("PMXEVTYPER", <<32>>)>>)

armv8a_other_1 == Group("other", <<
    K("ACTLR", <<64>>),
    At(PL1, "CPACR", <<<<0, 0, 19>>, <<1, 20, 2>>, <<2, 22, 6>>, <<3, 28, 1>>,
        <<4, 29, 3>>>>),
    K("RMR", <<1, 1, 30>>), K("RVBAR", <<64>>)>>)

armv8a_fault == Group("fault", <<
    K("FAR", <<64>>), Named("ESR", K("DFSR", <<25, 1, 6>>)),
    Named("AFSR0", K("ADFSR", <<32>>)), Named("AFSR1", K("AIFSR", <<32>>))>>)

armv8a_thumb == Group("thumb", <<
    NS("TEECR", <<1, 31>>), NS("TEEHBR", <<2, 30>>)>>)

armv8a_misc == Group("misc", <<
    Named("TPIDR", K("TPIDRPRW", <<64>>)),
    Named("TPIDRRO", U("TPIDRURO", <<64>>)),
    Named("TPIDR", U("TPIDRURW", <<64>>))>>)

armv8a_addrtrans == Group("addrtrans", <<
    K("PAR", <<1, 6, 2, 1, 1, 1, 36, 8, 8>>)>>)

armv8a_other_2 == Group("other", <<
    K("CURRENTEL", <<2, 2, 28>>), B("DAIF", <<6, 1, 1, 1, 1, 22>>),
    B("FPCR", <<8, 1, 1, 1, 1, 1, 2, 1, 3, 1, 2, 2, 1, 1, 1, 5>>),
    B("FPSR", <<1, 1, 1, 1, 1, 2, 1, 19, 1, 1, 1, 1, 1>>),
    B("NZCV", <<28, 1, 1, 1, 1>>), K("SPSEL", <<1, 31>>)>>)

giccv2_gicc_1 == Group("gicc", <<
    K("GICC_CTLR", <<1, 4, 1, 1, 2, 1, 22>>), K("GICC_PMR", <<8, 24>>),
    K("GICC_BPR", <<3, 29>>), K("GICC_IAR", <<10, 3, 19>>),
    K("GICC_EOIR", <<10, 3, 19>>), K("GICC_RPR", <<8, 24>>),
    K("GICC_HPPIR", <<10, 3, 19>>), K("GICC_ABPR", <<3, 29>>),
    K("GICC_AIAR", <<10, 3, 19>>), K("GICC_AEOIR", <<10, 3, 19>>),
    K("GICC_AHPPIR", <<10, 3, 19>>)>>)

giccv2_gicc_2 == Group("gicc", <<
    Ranged(4, Named("GICC_RESERVED", K("GICC_RESERVED_00", <<32>>))),
    Ranged(24, Named("GICC_IMPL_DEF", K("GICC_IMPL_DEF_00", <<32>>))),
    Ranged(4, K("GICC_APR", <<32>>)), Ranged(4, K("GICC_NSAPR", <<32>>)),
    Ranged(3, Named("GICC_RESERVED", K("GICC_RESERVED_01", <<32>>))),
    K("GICC_IIDR", <<12, 4, 4, 12>>), K("GICC_DIR", <<10, 3, 19>>)>>)

gicdv2_gicd == Group("gicd", <<
    K("GICD_CTLR", <<1, 31>>), K("GICD_TYPER", <<5, 3, 2, 1, 5, 16>>),
    K("GICD_IIDR", <<12, 4, 4, 4, 8>>),
    Ranged(5, K("GICD_RESERVED_00", <<32>>)),
    Ranged(8, K("GICD_IMP_DEF_00", <<32>>)),
    Ranged(16, K("GICD_RESERVED_01", <<32>>)),
    Ranged(32, K("GICD_IGROUPR", <<32>>)),
    Ranged(32, K("GICD_ISENABLER", <<32>>)),
    Ranged(32, K("GICD_ISPENDR", <<32>>)),
    Ranged(32, K("GICD_ICPENDR", <<32>>)),
    Ranged(32, K("GICD_ISACTIVER", <<32>>)),
    Ranged(32, K("GICD_ICACTIVER", <<32>>)),
    Ranged(256, K("GICD_IPRIORITYR", <<8, 8, 8, 8>>)),
    K("GICD_RESERVED_02", <<32>>),
    Ranged(64, K("GICD_ITARGETSR", <<8, 8, 8, 8>>)),
    K("GICD_RESERVED_03", <<32>>), Ranged(128, K("GICD_ICFGR", Each(16, 2))),
    Ranged(32, K("GICD_IMP_DEF_01", <<32>>)),
    Ranged(64, K("GICD_NSACR", Each(16, 2))),
    K("GICD_SGIR", <<4, 11, 1, 8, 2, 6>>),
    Ranged(3, K("GICD_RESERVED_04", <<4>>)),
    Ranged(4, K("GICD_CPENDSGIR", <<8, 8, 8, 8>>)),
    Ranged(4, K("GICD_SPENDSGIR", <<8, 8, 8, 8>>)),
    Ranged(40, K("GICD_RESERVED_05", <<32>>)),
    Ranged(12, K("GICD_IDENT", <<32>>)), K("GICD_ICPIDR2", <<4, 4, 24>>)>>)
=============================================================================
