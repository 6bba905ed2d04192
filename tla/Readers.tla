------------------------------- MODULE Readers -------------------------------
(***************************************************************************)
(* The codes of the registers (src/common/parse.h), the functions that     *)
(* read the system registers (src/common) and the table that says how they *)
(* are called (src/common/jumptable.c).                                    *)
(***************************************************************************)
EXTENDS Integers, Sequences, FiniteSets

\* The codes of the system registers count from 1.
MS_SYSREG ==
    <<"PFR0", "PFR1", "DFR0", "AFR0", "MMFR0", "MMFR1", "MMFR2", "MMFR3",
     "MMFR4", "ISAR0", "ISAR1", "ISAR2", "ISAR3", "ISAR4", "ISAR5", "REVIDR",
     "TLBTR", "CCSIDR", "TCMTR", "AIDR", "CLIDR", "CSSELR", "CTR", "MIDR",
     "MPIDR", "AA64AFR0", "AA64AFR1", "AA64DFR0", "AA64DFR1", "AA64ISAR0",
     "AA64ISAR1", "AA64MMFR0", "AA64MMFR1", "AA64PFR0", "AA64PFR1", "ISR",
     "MVBAR", "NSACR", "SCR", "SDER", "VBAR", "NMRR", "PRRR", "SCTLR",
     "TTBCR", "TTBR0", "TTBR0LPAE", "TTBR1", "TTBR1LPAE", "CONTEXTIDR",
     "AMAIR", "AMAIR0", "AMAIR1", "AMAIR2", "DACR", "MAIR", "MAIR0", "MAIR1",
     "DCZID", "TCR", "ACTLR", "CPACR", "FCSEIDR", "RMR", "RVBAR", "PMCCFILTR",
     "PMCR", "PMCCNTR", "PMCEID0", "PMCEID1", "PMCNTENSET", "PMCNTENCLR",
     "PMINTENSET", "PMINTENCLR", "PMOVSCLR", "PMOVSR", "PMOVSSET", "PMSELR",
     "PMSWINC", "PMUSERENR", "PMXEVCNTR", "PMXEVTYPER", "IFAR", "IFSR",
     "ADFSR", "AIFSR", "DFAR", "DFSR", "AFSR0", "AFSR1", "ESR", "FAR", "PAR",
     "FPEXC", "FPSCR", "FPSID", "MVFR0", "MVFR1", "MVFR2", "DBGDIDR",
     "DBGAUTHSTATUS", "DBGBCR", "DBGBVR", "DBGBXVR", "DBGCID0", "DBGCID1",
     "DBGCID2", "DBGCID3", "DBGCIDSR", "DBGCLAIMCLR", "DBGCLAIMSET",
     "DBGDEVID", "DBGDEVID1", "DBGDEVTYPE", "DBGDRAR", "DBGDRCR", "DBGDSAR",
     "DBGDSCCR", "DBGDSCR", "DBGDSMCR", "DBGDTRRX", "DBGDTRTX", "DBGEACR",
     "DBGECR", "DBGITCTRL", "DBGITR", "DBGLAR", "DBGLSR", "DBGOSDLR",
     "DBGOSLSR", "DBGOSSRR", "DBGPCSR", "DBGPID0", "DBGPID1", "DBGPID2",
     "DBGPID3", "DBGPID4", "DBGPRCR", "DBGPRSR", "DBGVCR", "DBGVIDSR",
     "DBGWCR", "DBGWFAR", "DBGWVR", "JIDR", "JMCR", "JOSCR", "TEECR",
     "TEEHBR", "CPUMERRSR", "L2MERRSR", "IL1DATA0", "IL1DATA1", "IL1DATA2",
     "IL1DATA3", "DL1DATA0", "DL1DATA1", "DL1DATA2", "DL1DATA3", "L2ACTLR",
     "L2CTLR", "L2ECTLR", "L2PFR", "ACTLR2", "CDBGDR0", "CDBGDR1", "CDBGDR2",
     "CDBGDCT", "CDBGICT", "CDBGDCD", "CDBGICD", "CDBGTD", "CBAR", "CPUACTLR",
     "CPUECTLR", "NOP01", "NOP02", "TPIDRPRW", "TPIDRURO", "TPIDRURW",
     "HTPIDR", "APSR", "CPSR", "SPSR", "CURRENTEL", "DAIF", "FPCR", "FPSR",
     "NZCV", "SPSEL">>

\* Those of the GIC registers are offsets.
MS_GIC_GICC ==
    [GICC_CTLR |-> 0, GICC_PMR |-> 4, GICC_BPR |-> 8, GICC_IAR |-> 12,
     GICC_EOIR |-> 16, GICC_RPR |-> 20, GICC_HPPIR |-> 24, GICC_ABPR |-> 28,
     GICC_AIAR |-> 32, GICC_AEOIR |-> 36, GICC_AHPPIR |-> 40,
     GICC_RESERVED_00 |-> 44, GICC_IMPL_DEF_00 |-> 64, GICC_APR |-> 208,
     GICC_NSAPR |-> 224, GICC_RESERVED_01 |-> 240, GICC_IIDR |-> 252,
     GICC_DIR |-> 4096]
MS_GIC_GICD ==
    [GICD_CTLR |-> 0, GICD_TYPER |-> 4, GICD_IIDR |-> 8,
     GICD_RESERVED_00 |-> 12, GICD_IMP_DEF_00 |-> 32, GICD_RESERVED_01 |-> 64,
     GICD_IGROUPR |-> 128, GICD_ISENABLER |-> 256, GICD_ISPENDR |-> 512,
     GICD_ICPENDR |-> 640, GICD_ISACTIVER |-> 768, GICD_ICACTIVER |-> 896,
     GICD_IPRIORITYR |-> 1024, GICD_RESERVED_02 |-> 2044,
     GICD_ITARGETSR |-> 2048, GICD_RESERVED_03 |-> 3068, GICD_ICFGR |-> 3072,
     GICD_IMP_DEF_01 |-> 3328, GICD_NSACR |-> 3584, GICD_SGIR |-> 3840,
     GICD_RESERVED_04 |-> 3844, GICD_CPENDSGIR |-> 3856,
     GICD_SPENDSGIR |-> 3872, GICD_RESERVED_05 |-> 3888, GICD_IDENT |-> 4048,
     GICD_ICPIDR2 |-> 4072]

\* Mutant: the enumeration that is compiled in has one register more.
CodeOf_next(n) ==
    1 + ((CHOOSE k \in 1 .. Len(MS_SYSREG) : MS_SYSREG[k] = n) % Len(MS_SYSREG))

CodeOf(n) ==
    LET names == MS_SYSREG IN CHOOSE k \in 1 .. Len(names) : names[k] = n
-----------------------------------------------------------------------------
\* A reader: the register, the type of what it writes, the operands of its
\* instruction on AArch32 (coprocessor, opcode, registers) and the register
\* that it names on AArch64.  "none" is an empty body.  The operand that each
\* function takes is its only assignment.

ident_c ==
    {<<"MIDR", "u32", "p15_0_c0_c0_0", "MIDR_EL1">>,
     <<"CTR", "u32", "p15_0_c0_c0_1", "CTR_EL0">>,
     <<"TCMTR", "u32", "p15_0_c0_c0_2", "none">>,
     <<"TLBTR", "u32", "p15_0_c0_c0_3", "none">>,
     <<"MPIDR", "u32", "p15_0_c0_c0_5", "MPIDR_EL1">>,
     <<"REVIDR", "u32", "p15_0_c0_c0_6", "REVIDR_EL1">>,
     <<"AFR0", "u32", "p15_0_c0_c1_3", "ID_AFR0_EL1">>,
     <<"MMFR0", "arch", "p15_0_c0_c1_4", "ID_MMFR0_EL1">>,
     <<"MMFR1", "u32", "p15_0_c0_c1_5", "ID_MMFR1_EL1">>,
     <<"MMFR2", "u32", "p15_0_c0_c1_6", "ID_MMFR2_EL1">>,
     <<"MMFR3", "u32", "p15_0_c0_c1_7", "ID_MMFR3_EL1">>,
     <<"PFR0", "u32", "p15_0_c0_c1_0", "ID_PFR0_EL1">>,
     <<"PFR1", "u32", "p15_0_c0_c1_1", "ID_PFR1_EL1">>,
     <<"ISAR0", "u32", "p15_0_c0_c2_0", "ID_ISAR0_EL1">>,
     <<"ISAR1", "u32", "p15_0_c0_c2_1", "ID_ISAR1_EL1">>,
     <<"ISAR2", "u32", "p15_0_c0_c2_2", "ID_ISAR2_EL1">>,
     <<"ISAR3", "u32", "p15_0_c0_c2_3", "ID_ISAR3_EL1">>,
     <<"ISAR4", "u32", "p15_0_c0_c2_4", "ID_ISAR4_EL1">>,
     <<"ISAR5", "u32", "p15_0_c0_c2_5", "ID_ISAR5_EL1">>,
     <<"CLIDR", "arch", "p15_1_c0_c0_1", "CLIDR_EL1">>,
     <<"AIDR", "u32", "p15_1_c0_c0_7", "AIDR_EL1">>,
     <<"CSSELR", "u32", "p15_2_c0_c0_0", "CSSELR_EL1">>,
     <<"DFR0", "u32", "p15_0_c0_c1_2", "ID_DFR0_EL1">>,
     <<"CCSIDR", "u32", "p15_1_c0_c0_0", "CCSIDR_EL1">>}

virtmem_c ==
    {<<"SCTLR", "u32", "p15_0_c1_c0_0", "SCTLR_EL1">>,
     <<"PRRR", "u32", "p15_0_c10_c2_0", "none">>,
     <<"MAIR", "u64", "none", "MAIR_EL1">>,
     <<"MAIR0", "u32", "p15_0_c10_c2_0", "none">>,
     <<"MAIR1", "u32", "p15_0_c10_c2_1", "none">>,
     <<"NMRR", "u32", "p15_0_c10_c2_1", "none">>,
     <<"TTBCR", "arch", "p15_0_c2_c0_2", "TCR_EL1">>,
     <<"TTBR0", "arch", "p15_0_c2_c0_0", "TTBR0_EL1">>,
     <<"TTBR0LPAE", "u32_u32", "p15_0_c2", "none">>,
     <<"TTBR1", "arch", "p15_0_c2_c0_1", "TTBR1_EL1">>,
     <<"TTBR1LPAE", "u32_u32", "p15_1_c2", "none">>,
     <<"CONTEXTIDR", "u32", "p15_0_c13_c0_1", "CONTEXTIDR_EL1">>,
     <<"AMAIR0", "u32", "p15_0_c10_c3_0", "none">>,
     <<"AMAIR1", "u32", "p15_0_c10_c3_1", "none">>,
     <<"AMAIR", "u64", "none", "AMAIR_EL1">>,
     <<"DACR", "u32", "p15_0_c3_c0_0", "none">>,
     <<"DCZID", "u32", "none", "DCZID_EL0">>}

fault_c ==
    {<<"IFAR", "u32", "p15_0_c6_c0_2", "none">>,
     <<"IFSR", "u32", "p15_0_c5_c0_1", "none">>,
     <<"ADFSR", "u32", "p15_0_c5_c1_0", "AFSR0_EL1">>,
     <<"AIFSR", "u32", "p15_0_c5_c1_1", "AFSR1_EL1">>,
     <<"DFAR", "u32", "p15_0_c6_c0_0", "none">>,
     <<"DFSR", "u32", "p15_0_c5_c0_0", "ESR_EL1">>,
     <<"FAR", "u64", "none", "FAR_EL1">>}

perfmon_c ==
    {<<"PMCCFILTR", "u32", "none", "PMCCFILTR_EL0">>,
     <<"PMCR", "u32", "p15_0_c9_c12_0", "PMCR_EL0">>,
     <<"PMCCNTR", "arch", "p15_0_c9_c13_0", "PMCCNTR_EL0">>,
     <<"PMCEID0", "u32", "p15_0_c9_c12_6", "PMCEID0_EL0">>,
     <<"PMCEID1", "u32", "p15_0_c9_c12_7", "PMCEID1_EL0">>,
     <<"PMCNTENCLR", "u32", "p15_0_c9_c12_2", "PMCNTENCLR_EL0">>,
     <<"PMCNTENSET", "u32", "p15_0_c9_c12_1", "PMCNTENSET_EL0">>,
     <<"PMINTENCLR", "u32", "p15_0_c9_c14_1", "PMINTENCLR_EL1">>,
     <<"PMINTENSET", "u32", "p15_0_c9_c14_1", "PMINTENSET_EL1">>,
     <<"PMOVSR", "u32", "p15_0_c9_c12_3", "none">>,
     <<"PMOVSCLR", "u32", "none", "PMOVSCLR_EL0">>,
     <<"PMOVSSET", "u32", "p15_0_c9_c14_3", "PMOVSSET_EL0">>,
     <<"PMSELR", "u32", "p15_0_c9_c12_5", "PMSELR_EL0">>,
     <<"PMSWINC", "u32", "p15_0_c9_c12_4", "PMSWINC_EL0">>,
     <<"PMUSERENR", "u32", "p15_0_c9_c14_0", "PMUSERENR_EL0">>,
     <<"PMXEVCNTR", "u32", "p15_0_c9_c13_1", "PMXEVCNTR_EL0">>,
     <<"PMXEVTYPER", "u32", "p15_0_c9_c13_2", "PMXEVTYPER_EL0">>}

secext_c ==
    {<<"VBAR", "arch", "p15_0_c12_c0_0", "VBAR_EL1">>,
     <<"ISR", "u32", "p15_0_c12_c1_0", "ISR_EL1">>,
     <<"MVBAR", "arch", "p15_0_c12_c0_1", "none">>,
     <<"NSACR", "u32", "p15_0_c1_c1_2", "none">>,
     <<"SCR", "u32", "p15_0_c1_c1_0", "none">>,
     <<"SDER", "u32", "p15_0_c1_c1_1", "none">>}

other_c ==
    {<<"CPACR", "u32", "p15_0_c1_c0_2", "CPACR_EL1">>,
     <<"FCSEIDR", "u32", "p15_0_c13_c0_0", "none">>,
     <<"RMR", "u32", "none", "RMR_EL1">>,
     <<"RVBAR", "u32", "none", "RVBAR_EL1">>}

addrtrans_c ==
    {<<"PAR", "arch", "p15_0_c7_c4_0", "PAR_EL1">>}

fp_c ==
    {<<"FPEXC", "arch", "FPEXC", "none">>,
     <<"FPSCR", "arch", "FPSCR", "none">>,
     <<"FPSID", "arch", "FPSID", "none">>,
     <<"MVFR0", "u32", "MVFR0", "MVFR0_EL1">>,
     <<"MVFR1", "u32", "MVFR1", "MVFR1_EL1">>,
     <<"MVFR2", "u32", "none", "MVFR2_EL1">>}

debug_c ==
    {<<"DBGDIDR", "u32", "p14_0_c0_c0_0", "none">>,
     <<"DBGAUTHSTATUS", "u32", "p14_0_c7_c14_6", "DBGAUTHSTATUS_EL1">>,
     <<"DBGDRAR", "u64", "p14_0_c1_c0_0", "MDRAR_EL1">>,
     <<"DBGDSCR", "u32", "p14_0_c1_c0_0", "MDSCR_EL1">>}

misc_c ==
    {<<"TPIDRPRW", "arch", "p15_0_c13_c0_4", "TPIDR_EL1">>,
     <<"TPIDRURO", "arch", "p15_0_c13_c0_3", "TPIDRRO_EL0">>,
     <<"TPIDRURW", "arch", "p15_0_c13_c0_2", "TPIDR_EL0">>}

jazelle_c ==
    {<<"JIDR", "arch", "p14_7_c0_c0_0", "none">>,
     <<"JMCR", "arch", "p14_7_c2_c0_0", "none">>,
     <<"JOSCR", "arch", "p14_7_c1_c0_0", "none">>}

thumb_c ==
    {<<"TEECR", "u32", "p14_0_c0_c0_0", "none">>,
     <<"TEEHBR", "u32", "p14_6_c1_c0_0", "none">>}

impl_def_c ==
    {<<"CPUMERRSR", "arch_u32", "p15_0_c15", "S3_1_C15_C2_2">>,
     <<"L2MERRSR", "arch_u32", "p15_1_c15", "S3_1_C15_C2_3">>,
     <<"L2ACTLR", "u32", "p15_1_c15_c0_0", "S3_1_C15_C0_0">>,
     <<"ACTLR", "arch", "p15_0_c1_c0_1", "ACTLR_EL1">>,
     <<"ACTLR2", "u32", "p15_1_c15_c0_4", "none">>,
     <<"CPUACTLR", "u64", "none", "S3_1_C15_C2_0">>,
     <<"L2PFR", "u32", "p15_1_c15_c0_3", "none">>,
     <<"L2CTLR", "u32", "p15_1_c9_c0_2", "S3_1_C11_C0_2">>,
     <<"L2ECTLR", "u32", "p15_1_c9_c0_3", "S3_1_C11_C0_3">>,
     <<"CPUECTLR", "u64", "none", "S3_1_C15_C2_1">>,
     <<"IL1DATA0", "u32", "p15_0_c15_c0_0", "none">>,
     <<"IL1DATA1", "u32", "p15_0_c15_c0_1", "none">>,
     <<"IL1DATA2", "u32", "p15_0_c15_c0_2", "none">>,
     <<"IL1DATA3", "u32", "p15_0_c15_c0_3", "none">>,
     <<"DL1DATA0", "u32", "p15_0_c15_c1_0", "none">>,
     <<"DL1DATA1", "u32", "p15_0_c15_c1_1", "none">>,
     <<"DL1DATA2", "u32", "p15_0_c15_c1_2", "none">>,
     <<"DL1DATA3", "u32", "p15_0_c15_c1_3", "none">>,
     <<"CBAR", "arch", "p15_4_c15_c0_0", "S3_1_C15_C3_0">>}

aarch64_c ==
    {<<"AA64AFR0", "u64", "none", "ID_AA64AFR0_EL1">>,
     <<"AA64AFR1", "u64", "none", "ID_AA64AFR1_EL1">>,
     <<"AA64DFR0", "u64", "none", "ID_AA64DFR0_EL1">>,
     <<"AA64DFR1", "u64", "none", "ID_AA64DFR1_EL1">>,
     <<"AA64ISAR0", "u64", "none", "ID_AA64ISAR0_EL1">>,
     <<"AA64ISAR1", "u64", "none", "ID_AA64ISAR1_EL1">>,
     <<"AA64MMFR0", "u64", "none", "ID_AA64MMFR0_EL1">>,
     <<"AA64MMFR1", "u64", "none", "ID_AA64MMFR1_EL1">>,
     <<"AA64PFR0", "u64", "none", "ID_AA64PFR0_EL1">>,
     <<"AA64PFR1", "u64", "none", "ID_AA64PFR1_EL1">>,
     <<"CURRENTEL", "u32", "none", "CurrentEL">>,
     <<"DAIF", "u32", "none", "DAIF">>,
     <<"FPCR", "u32", "none", "FPCR">>,
     <<"FPSR", "u32", "none", "FPSR">>,
     <<"NZCV", "u32", "none", "NZCV">>,
     <<"SPSEL", "u32", "none", "SPSEL">>}

psr_c ==
    {<<"APSR", "u32", "APSR", "none">>,
     <<"CPSR", "u32", "CPSR", "none">>,
     <<"SPSR", "u32", "SPSR", "none">>}

Readers ==
    ident_c \cup virtmem_c \cup fault_c \cup perfmon_c \cup secext_c \cup other_c
    \cup addrtrans_c \cup fp_c \cup debug_c \cup misc_c \cup jazelle_c \cup thumb_c
    \cup impl_def_c \cup aarch64_c \cup psr_c
-----------------------------------------------------------------------------
\* func_table, by the prototype and the size it gives.
Out1_32 ==
    {"MIDR", "CTR", "TCMTR", "TLBTR", "REVIDR", "AFR0", "MMFR0", "MMFR1",
     "MMFR2", "MMFR3", "PFR0", "PFR1", "ISAR0", "ISAR1", "ISAR2", "ISAR3",
     "ISAR4", "ISAR5", "AIDR", "CSSELR", "DFR0", "CCSIDR", "SCTLR", "PRRR",
     "MAIR0", "MAIR1", "NMRR", "CONTEXTIDR", "AMAIR0", "AMAIR1", "DACR",
     "DCZID", "IFAR", "IFSR", "ADFSR", "AIFSR", "DFAR", "DFSR", "PMCCFILTR",
     "PMCR", "PMCEID0", "PMCEID1", "PMCNTENCLR", "PMCNTENSET", "PMINTENCLR",
     "PMINTENSET", "PMOVSR", "PMOVSCLR", "PMOVSSET", "PMSELR", "PMSWINC",
     "PMUSERENR", "PMXEVCNTR", "PMXEVTYPER", "ISR", "MVBAR", "NSACR", "SCR",
     "SDER", "CPACR", "FCSEIDR", "RMR", "RVBAR", "FPEXC", "FPSCR", "FPSID",
     "MVFR0", "MVFR1", "MVFR2", "DBGDIDR", "DBGAUTHSTATUS", "DBGDSCR", "JIDR",
     "JMCR", "JOSCR", "TEECR", "TEEHBR", "L2ACTLR", "ACTLR", "ACTLR2",
     "L2PFR", "L2CTLR", "L2ECTLR", "IL1DATA0", "IL1DATA1", "IL1DATA2",
     "IL1DATA3", "DL1DATA0", "DL1DATA1", "DL1DATA2", "DL1DATA3", "CURRENTEL",
     "DAIF", "FPCR", "FPSR", "NZCV", "SPSEL", "APSR", "CPSR", "SPSR"}
Out1_64 ==
    {"MAIR", "AMAIR", "FAR", "DBGDRAR", "CPUACTLR", "CPUECTLR", "AA64AFR0",
     "AA64AFR1", "AA64DFR0", "AA64DFR1", "AA64ISAR0", "AA64ISAR1",
     "AA64MMFR0", "AA64MMFR1", "AA64PFR0", "AA64PFR1"}
Out1_arch == {"MPIDR", "CLIDR", "TTBCR", "TTBR0", "TTBR1", "PMCCNTR", "VBAR", "PAR",
     "TPIDRPRW", "TPIDRURO", "TPIDRURW", "CBAR"}
Out2_32 == {"TTBR0LPAE", "TTBR1LPAE"}
Out2_arch == {"CPUMERRSR", "L2MERRSR"}
func_table == Out1_32 \cup Out1_64 \cup Out1_arch \cup Out2_32 \cup Out2_arch
=============================================================================
