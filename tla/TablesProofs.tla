---------------------------- MODULE TablesProofs ----------------------------
(***************************************************************************)
(* With the program's own tables and readers, for any board, requests and  *)
(* number of CPUs: each field that is shown was read by its register's own *)
(* instruction, within the caller's variables, and is shown under its      *)
(* register's name. What the entries of the tables say is carried over     *)
(* what read_tables_to_memory makes of them to the rows that a find call   *)
(* matches.                                                                *)
(***************************************************************************)
EXTENDS Tables, BreakoutServiceProofs

-----------------------------------------------------------------------------
(***************************************************************************)
(* The sequences that the heap is made with.                               *)
(***************************************************************************)
\* A set of numbers that has 0, and each number after one that it has.
LEMMA Induction ==
  ASSUME NEW P, 0 \in P, \A m \in Nat : m \in P => m + 1 \in P
  PROVE  Nat \subseteq P
  <1> SUFFICES ASSUME Nat \ P # {} PROVE FALSE
    OBVIOUS
  <1> DEFINE m == First(Nat \ P)
  <1>1. m \in Nat \ P /\ \A j \in Nat \ P : m <= j
    BY FirstProperties
  <1> HIDE DEF m
  <1>2. m - 1 \in Nat /\ m - 1 \notin Nat \ P
    BY <1>1
  <1> QED BY <1>1, <1>2

\* FlattenSeq puts the sequences one behind the other.
LEMMA FlattenedSteps ==
  ASSUME NEW S, NEW ss \in Seq(Seq(S))
  PROVE  \E f \in [1 .. Len(ss) -> Seq(S)] :
            /\ FlattenSeq(ss) = IF Len(ss) = 0 THEN ss ELSE f[Len(ss)]
            /\ \A i \in 1 .. Len(ss) : f[i] = IF i = 1 THEN ss[i] ELSE f[i - 1] \o ss[i]
  <1> DEFINE N == Len(ss)
             Step(f, i) == IF i = 1 THEN ss[i] ELSE f[i - 1] \o ss[i]
             Upto(m) == {f \in [1 .. m -> Seq(S)] : \A i \in 1 .. m : f[i] = Step(f, i)}
             P == {m \in Nat : m <= N => Upto(m) # {}}
             flatten == CHOOSE f :
                 f = [i \in 1 .. N |-> IF i = 1 THEN ss[i] ELSE f[i - 1] \o ss[i]]
  <1>0. N \in Nat /\ \A i \in 1 .. N : ss[i] \in Seq(S)
    BY ElementOfSeq, LenProperties
  <1> HIDE DEF N
  <1>1. 0 \in P
    <2>1. [i \in 1 .. 0 |-> <<>>] \in Upto(0)
      OBVIOUS
    <2> QED BY <2>1
  <1>2. ASSUME NEW m \in Nat, m \in P
        PROVE  m + 1 \in P
    <2>1. ASSUME m + 1 <= N PROVE Upto(m + 1) # {}
      <3>1. Upto(m) # {}
        <4> HIDE DEF Upto
        <4> QED BY <1>0, <1>2, <2>1
      <3>2. PICK f \in [1 .. m -> Seq(S)] : \A i \in 1 .. m : f[i] = Step(f, i)
        <4> HIDE DEF Step
        <4> QED BY <3>1
      <3> DEFINE g == [i \in 1 .. m + 1 |-> IF i = m + 1 THEN Step(f, i) ELSE f[i]]
      <3>3. Step(f, m + 1) \in Seq(S)
        <4>1. ss[m + 1] \in Seq(S)
          BY <1>0, <2>1
        <4>2. CASE m # 0
          <5>1. f[m] \in Seq(S)
            BY <4>2
          <5> QED BY <4>1, <4>2, <5>1, ConcatProperties
        <4> QED BY <4>1, <4>2
      <3>4. g \in [1 .. m + 1 -> Seq(S)]
        <4> HIDE DEF Step
        <4> QED BY <3>2, <3>3
      <3>5. ASSUME NEW i \in 1 .. m + 1 PROVE g[i] = Step(g, i)
        <4>1. CASE i = m + 1
          BY <4>1
        <4>2. CASE i \in 1 .. m
          <5>1. g[i] = f[i] /\ (i # 1 => g[i - 1] = f[i - 1])
            <6> HIDE DEF Step
            <6> QED BY <4>2
          <5>2. Step(g, i) = Step(f, i)
            <6> HIDE DEF g
            <6> QED BY <5>1
          <5> HIDE DEF g, Step
          <5> QED BY <3>2, <4>2, <5>1, <5>2
        <4> QED BY <4>1, <4>2
      <3> HIDE DEF g, Step
      <3> QED BY <3>4, <3>5
    <2> HIDE DEF Upto
    <2> QED BY <2>1
  <1> HIDE DEF P
  <1>3. N \in P
    BY <1>0, <1>1, <1>2, Induction
  <1>4. PICK f \in [1 .. N -> Seq(S)] : \A i \in 1 .. N : f[i] = Step(f, i)
    <2> HIDE DEF Step
    <2> QED BY <1>0, <1>3 DEF P
  <1>5. f = [i \in 1 .. N |-> IF i = 1 THEN ss[i] ELSE f[i - 1] \o ss[i]]
    BY <1>4
  <1>6. flatten = [i \in 1 .. N |-> IF i = 1 THEN ss[i] ELSE flatten[i - 1] \o ss[i]]
    BY <1>5
  <1>7. FlattenSeq(ss) = IF N = 0 THEN ss ELSE flatten[N]
    BY DEF FlattenSeq, N
  <1> HIDE DEF flatten
  <1>8. \A i \in 1 .. N : flatten[i] = IF i = 1 THEN ss[i] ELSE flatten[i - 1] \o ss[i]
    BY <1>6
  <1>9. \A i \in 1 .. N : flatten[i] \in Seq(S)
    <2> DEFINE Q == {m \in Nat : m \in 1 .. N => flatten[m] \in Seq(S)}
    <2>1. 0 \in Q
      OBVIOUS
    <2>2. ASSUME NEW m \in Nat, m \in Q PROVE m + 1 \in Q
      <3> SUFFICES ASSUME m + 1 \in 1 .. N PROVE flatten[m + 1] \in Seq(S)
        OBVIOUS
      <3>1. ss[m + 1] \in Seq(S)
        BY <1>0
      <3>2. CASE m = 0
        BY <1>8, <3>1, <3>2
      <3>3. CASE m # 0
        <4>1. flatten[m] \in Seq(S)
          BY <1>0, <2>2, <3>3
        <4>2. flatten[m + 1] = flatten[m] \o ss[m + 1]
          <5>1. m + 1 # 1 /\ (m + 1) - 1 = m
            BY <3>3
          <5> QED BY <1>8, <5>1
        <4> QED BY <3>1, <4>1, <4>2, ConcatProperties
      <3> QED BY <3>2, <3>3
    <2> HIDE DEF Q
    <2>3. Nat \subseteq Q
      BY <2>1, <2>2, Induction
    <2> QED BY <1>0, <2>3 DEF Q
  <1>10. flatten \in [1 .. N -> Seq(S)]
    BY <1>6, <1>9
  <1> QED BY <1>7, <1>8, <1>10 DEF N

\* What it puts together are elements of them.
LEMMA Flattened ==
  ASSUME NEW S, NEW ss \in Seq(Seq(S))
  PROVE  FlattenSeq(ss) \in Seq(S)
  <1>1. PICK f \in [1 .. Len(ss) -> Seq(S)] :
            FlattenSeq(ss) = IF Len(ss) = 0 THEN ss ELSE f[Len(ss)]
    BY FlattenedSteps
  <1>2. Len(ss) \in Nat
    BY LenProperties
  <1>3. CASE Len(ss) = 0
    <2>1. ss = <<>>
      BY <1>3, EmptySeq
    <2> QED BY <1>1, <1>3, <2>1
  <1>4. CASE Len(ss) # 0
    <2>1. Len(ss) \in 1 .. Len(ss)
      BY <1>2, <1>4
    <2> QED BY <1>1, <1>4, <2>1
  <1> QED BY <1>3, <1>4

-----------------------------------------------------------------------------
(***************************************************************************)
(* The readers.                                                            *)
(***************************************************************************)
\* The instruction of a reader on an architecture.
InstructionOf(arch, r) == IF arch = ARCH_ARMV7A THEN r[3] ELSE r[4]

\* What a register is read by is the instruction of its reader.
LEMMA ReadsReader ==
  ASSUME NEW arch, NEW n, Reads(arch, n) # "none"
  PROVE  /\ Reader(n) \in Readers /\ Reader(n)[1] = n
         /\ Reads(arch, n) = InstructionOf(arch, Reader(n))
  BY DEF Reads, HasReader, Reader, InstructionOf

\* The variables that a reader writes are no wider than those that func_table
\* has the caller pass, but for two.
LEMMA ReadersFit ==
  ASSUME NEW arch \in Arches, NEW n \in func_table, Reads(arch, n) # "none"
  PROVE  \/ WritesBits(arch, n) <= FuncBits(arch, n)
         \/ arch = ARCH_ARMV8A /\ n \in {"ACTLR", "MMFR0"}
  <1>1. PICK r \in Readers : r = Reader(n) /\ r[1] = n /\ InstructionOf(arch, r) # "none"
    BY ReadsReader
  <1> QED BY <1>1, SMTT(120) DEF WritesBits, FuncBits, retdatatype, InstructionOf, func_table,
             Out1_32, Out1_64, Out1_arch, Out2_32, Out2_arch, Arches, ARCH_ARMV7A, ARCH_ARMV8A,
             Readers, ident_c, virtmem_c, fault_c, perfmon_c, secext_c, other_c, addrtrans_c,
             fp_c, debug_c, misc_c, jazelle_c, thumb_c, impl_def_c, aarch64_c, psr_c

\* On AArch32 two registers have readers with the same operands only if they
\* are one register or a reader has those of another.
LEMMA OwnOperands ==
  ASSUME NEW r \in Readers, NEW s \in Readers, r[3] # "none", r[3] = s[3], r[1] # s[1]
  PROVE  {r[1], s[1]} \in Aliases \cup Confused
  BY SMTT(120) DEF Aliases, Confused, Readers, ident_c, virtmem_c, fault_c, perfmon_c, secext_c,
     other_c, addrtrans_c, fp_c, debug_c, misc_c, jazelle_c, thumb_c, impl_def_c, aarch64_c, psr_c

\* On AArch64 no two do.
LEMMA OwnNames ==
  ASSUME NEW r \in Readers, NEW s \in Readers, r[4] # "none", r[4] = s[4]
  PROVE  r[1] = s[1]
  BY SMTT(120) DEF Readers, ident_c, virtmem_c, fault_c, perfmon_c, secext_c,
     other_c, addrtrans_c, fp_c, debug_c, misc_c, jazelle_c, thumb_c, impl_def_c, aarch64_c, psr_c

\* func_table has no register without a reader (src/common/jumptable.c).
LEMMA AllHaveReaders ==
  ASSUME NEW n \in func_table
  PROVE  HasReader(n)
  <1>1. SUFFICES \E r \in Readers : r[1] = n
    BY DEF HasReader
  <1>2. CASE n \in Out1_32
    BY <1>2, SMTT(120) DEF Out1_32, Readers,
       ident_c, virtmem_c, fault_c, perfmon_c, secext_c, other_c, addrtrans_c, fp_c, debug_c,
       misc_c, jazelle_c, thumb_c, impl_def_c, aarch64_c, psr_c
  <1>3. CASE n \in Out1_64 \cup Out1_arch
    BY <1>3, SMTT(120) DEF Out1_64, Out1_arch, Readers,
       ident_c, virtmem_c, fault_c, perfmon_c, secext_c, other_c, addrtrans_c, fp_c, debug_c,
       misc_c, jazelle_c, thumb_c, impl_def_c, aarch64_c, psr_c
  <1>4. CASE n \in Out2_32 \cup Out2_arch
    BY <1>4, SMTT(120) DEF Out2_32, Out2_arch, Readers,
       ident_c, virtmem_c, fault_c, perfmon_c, secext_c, other_c, addrtrans_c, fp_c, debug_c,
       misc_c, jazelle_c, thumb_c, impl_def_c, aarch64_c, psr_c
  <1> QED BY <1>2, <1>3, <1>4 DEF func_table

-----------------------------------------------------------------------------
(***************************************************************************)
(* What the entries of the tables name.                                    *)
(***************************************************************************)
\* The registers that the tables of ARMv7-A and its processors name.
V7Registers ==
    {"REVIDR", "MPIDR", "ACTLR", "NSACR", "L2CTLR", "L2ECTLR", "CBAR", "ADFSR",
     "IL1DATA0", "IL1DATA1", "IL1DATA2", "IL1DATA3", "DL1DATA0", "DL1DATA1", "DL1DATA2",
     "DL1DATA3", "L2ACTLR", "L2PFR", "ACTLR2", "CPUMERRSR", "L2MERRSR", "PFR0", "PFR1",
     "DFR0", "AFR0", "MMFR0", "MMFR1", "MMFR2", "MMFR3", "ISAR0", "ISAR1", "ISAR2",
     "ISAR3", "ISAR4", "ISAR5"}
    \cup {"TLBTR", "CCSIDR", "TCMTR", "AIDR", "CLIDR", "CSSELR", "CTR", "MIDR", "FPSID",
     "FPSCR", "FPEXC", "MVFR0", "MVFR1", "SCR", "ISR", "MVBAR", "SDER", "VBAR",
     "DBGDIDR", "DBGAUTHSTATUS", "DBGDRAR", "DBGDSCR", "NMRR", "PRRR", "SCTLR", "TTBCR",
     "TTBR0", "TTBR0LPAE", "TTBR1", "TTBR1LPAE", "CONTEXTIDR", "AMAIR0", "AMAIR1",
     "DACR", "MAIR0"}
    \cup {"MAIR1", "PMCCNTR", "PMCEID0", "PMCEID1", "PMCNTENCLR", "PMCNTENSET", "PMINTENSET",
     "PMINTENCLR", "PMOVSR", "PMOVSSET", "PMSELR", "PMSWINC", "PMUSERENR", "PMXEVCNTR",
     "PMXEVTYPER", "PMCR", "CPACR", "FCSEIDR", "IFAR", "IFSR", "AIFSR", "DFAR", "DFSR",
     "JIDR", "JMCR", "JOSCR", "TEECR", "TEEHBR", "TPIDRPRW", "TPIDRURO", "TPIDRURW",
     "PAR", "APSR", "CPSR"}

\* The registers that the tables of ARMv8-A and its processors name.
V8Registers ==
    {"L2CTLR", "L2ECTLR", "L2ACTLR", "PAR", "CPUACTLR", "CPUECTLR", "CPUMERRSR",
     "L2MERRSR", "CBAR", "SCTLR", "DFSR", "MPIDR", "TTBR0", "TTBR1", "PFR0", "PFR1",
     "AA64PFR0", "AA64PFR1", "DFR0", "AFR0", "AA64AFR0", "AA64AFR1", "AA64DFR0",
     "AA64DFR1", "MMFR0", "MMFR1", "MMFR2", "MMFR3", "MMFR4", "AA64MMFR0", "AA64MMFR1",
     "ISAR0", "ISAR1", "ISAR2"}
    \cup {"ISAR3", "ISAR4", "ISAR5", "AA64ISAR0", "AA64ISAR1", "REVIDR", "TLBTR", "CCSIDR",
     "TCMTR", "AIDR", "CLIDR", "CSSELR", "CTR", "MIDR", "FPSID", "FPSCR", "FPEXC",
     "MVFR0", "MVFR1", "MVFR2", "SCR", "ISR", "SDER", "VBAR", "DBGDIDR",
     "DBGAUTHSTATUS", "DBGDRAR", "DBGDSCR", "MAIR", "CONTEXTIDR", "AMAIR", "DCZID",
     "TTBCR", "PMCR"}
    \cup {"PMCCFILTR", "PMCCNTR", "PMCEID0", "PMCEID1", "PMCNTENCLR", "PMCNTENSET",
     "PMINTENCLR", "PMINTENSET", "PMOVSCLR", "PMOVSSET", "PMSELR", "PMSWINC",
     "PMUSERENR", "PMXEVCNTR", "PMXEVTYPER", "ACTLR", "CPACR", "RMR", "RVBAR", "FAR",
     "ADFSR", "AIFSR", "TEECR", "TEEHBR", "TPIDRPRW", "TPIDRURO", "TPIDRURW",
     "CURRENTEL", "DAIF", "FPCR", "FPSR", "NZCV", "SPSEL"}

\* The registers that have a code.
Registers == {MS_SYSREG[k] : k \in 1 .. Len(MS_SYSREG)}

\* Names that no register has by its code.
NewNames == {"ESR", "TCR", "AFSR0", "AFSR1", "TPIDR", "TPIDRRO"}

\* The architecture of the processors that a table is for.
ArchOfPart(part) == IF part \in Arches THEN part ELSE get_arch_from_impl(part)

\* The reader has a body on the architecture, or is known to have none.
HasBody(a, n) ==
    \A r \in Readers : r[1] = n /\ InstructionOf(a, r) = "none" => a = ARCH_ARMV8A /\ n \in Unread

\* What an entry of a table may name: a register, with a body, by its own name.
Plain(part) == {n \in Registers \ NewNames : HasBody(ArchOfPart(part), n)}

\* The architecture that each table is for (get_arch_from_impl).
LEMMA PartArches ==
  /\ ArchOfPart(IMPL_CORTEX_A7) = ARCH_ARMV7A /\ ArchOfPart(IMPL_CORTEX_A15) = ARCH_ARMV7A
  /\ ArchOfPart(IMPL_CORTEX_A53) = ARCH_ARMV8A /\ ArchOfPart(IMPL_CORTEX_A57) = ARCH_ARMV8A
  /\ ArchOfPart(ARCH_ARMV7A) = ARCH_ARMV7A /\ ArchOfPart(ARCH_ARMV8A) = ARCH_ARMV8A
  BY DEF ArchOfPart, get_arch_from_impl, Arches, ARCH_ARMV7A, ARCH_ARMV8A, IMPL_CORTEX_A7,
         IMPL_CORTEX_A9, IMPL_CORTEX_A15, IMPL_CORTEX_A53, IMPL_CORTEX_A57

\* The registers of ARMv7-A have readers with a body.
LEMMA V7Plain ==
  \A part \in {IMPL_CORTEX_A7, IMPL_CORTEX_A15, ARCH_ARMV7A} :
      V7Registers \subseteq Plain(part)
  <1>1. \A n \in V7Registers : n \in Registers \ NewNames
    BY SMTT(120) DEF V7Registers, Registers, NewNames, MS_SYSREG
  <1>2. ASSUME NEW r \in Readers, r[1] \in V7Registers PROVE r[3] # "none"
    BY <1>2, SMTT(120) DEF V7Registers,
             Readers, ident_c, virtmem_c, fault_c, perfmon_c, secext_c, other_c, addrtrans_c,
             fp_c, debug_c, misc_c, jazelle_c, thumb_c, impl_def_c, aarch64_c, psr_c
  <1> QED BY <1>1, <1>2, PartArches DEF Plain, HasBody, InstructionOf

\* Those of ARMv8-A have readers with a body, or are known not to.
LEMMA V8Plain ==
  \A part \in {IMPL_CORTEX_A53, IMPL_CORTEX_A57, ARCH_ARMV8A} :
      V8Registers \subseteq Plain(part)
  <1>1. \A n \in V8Registers : n \in Registers \ NewNames
    BY SMTT(120) DEF V8Registers, Registers, NewNames, MS_SYSREG
  <1>2. ASSUME NEW r \in Readers, r[1] \in V8Registers PROVE r[4] # "none" \/ r[1] \in Unread
    BY <1>2, SMTT(120) DEF V8Registers, Unread,
             Readers, ident_c, virtmem_c, fault_c, perfmon_c, secext_c, other_c, addrtrans_c,
             fp_c, debug_c, misc_c, jazelle_c, thumb_c, impl_def_c, aarch64_c, psr_c
  <1> QED BY <1>1, <1>2, PartArches DEF Plain, HasBody, InstructionOf, ARCH_ARMV7A, ARCH_ARMV8A

\* The entries whose name is not that of their register.
Renamed ==
    {<<ARCH_ARMV7A, "TTBR0", "TTBR0LPAE">>, <<ARCH_ARMV7A, "TTBR1", "TTBR1LPAE">>,
     <<IMPL_CORTEX_A53, "ESR", "DFSR">>, <<IMPL_CORTEX_A57, "ESR", "DFSR">>,
     <<ARCH_ARMV8A, "ESR", "DFSR">>, <<ARCH_ARMV8A, "TCR", "TTBCR">>,
     <<ARCH_ARMV8A, "AFSR0", "ADFSR">>, <<ARCH_ARMV8A, "AFSR1", "AIFSR">>,
     <<ARCH_ARMV8A, "TPIDR", "TPIDRPRW">>, <<ARCH_ARMV8A, "TPIDRRO", "TPIDRURO">>,
     <<ARCH_ARMV8A, "TPIDR", "TPIDRURW">>,
     <<ARCH_ARMV8A, "TTBR0", "TTBR1">>, <<ARCH_ARMV8A, "TTBR1", "TTBR0">>}

\* What all entries of the processors' tables and the architectures' have in common.
SystemEntry(part, e) ==
    /\ e.register \in Plain(part) /\ e.range = 1 /\ Len(e.rows) \in Nat
    /\ e.name = e.register \/ <<part, e.name, e.register>> \in Renamed
SystemTable(part, table) ==
    \E S : table \in Seq(S) /\ \A e \in S : SystemEntry(part, e)

\* What the tables say of the GIC registers: name, code, offset and number.
GiccEntries ==
    {<<"GICC_CTLR", "GICC_CTLR", 0, 1>>, <<"GICC_PMR", "GICC_PMR", 4, 1>>,
     <<"GICC_BPR", "GICC_BPR", 8, 1>>, <<"GICC_IAR", "GICC_IAR", 12, 1>>,
     <<"GICC_EOIR", "GICC_EOIR", 16, 1>>, <<"GICC_RPR", "GICC_RPR", 20, 1>>,
     <<"GICC_HPPIR", "GICC_HPPIR", 24, 1>>, <<"GICC_ABPR", "GICC_ABPR", 28, 1>>,
     <<"GICC_AIAR", "GICC_AIAR", 32, 1>>, <<"GICC_AEOIR", "GICC_AEOIR", 36, 1>>,
     <<"GICC_AHPPIR", "GICC_AHPPIR", 40, 1>>,
     <<"GICC_RESERVED", "GICC_RESERVED_00", 44, 4>>,
     <<"GICC_IMPL_DEF", "GICC_IMPL_DEF_00", 64, 24>>, <<"GICC_APR", "GICC_APR", 208, 4>>,
     <<"GICC_NSAPR", "GICC_NSAPR", 224, 4>>,
     <<"GICC_RESERVED", "GICC_RESERVED_01", 240, 3>>, <<"GICC_IIDR", "GICC_IIDR", 252, 1>>,
     <<"GICC_DIR", "GICC_DIR", 4096, 1>>}
GicdEntries ==
    {<<"GICD_CTLR", "GICD_CTLR", 0, 1>>, <<"GICD_TYPER", "GICD_TYPER", 4, 1>>,
     <<"GICD_IIDR", "GICD_IIDR", 8, 1>>, <<"GICD_RESERVED_00", "GICD_RESERVED_00", 12, 5>>,
     <<"GICD_IMP_DEF_00", "GICD_IMP_DEF_00", 32, 8>>,
     <<"GICD_RESERVED_01", "GICD_RESERVED_01", 64, 16>>,
     <<"GICD_IGROUPR", "GICD_IGROUPR", 128, 32>>,
     <<"GICD_ISENABLER", "GICD_ISENABLER", 256, 32>>,
     <<"GICD_ISPENDR", "GICD_ISPENDR", 512, 32>>,
     <<"GICD_ICPENDR", "GICD_ICPENDR", 640, 32>>,
     <<"GICD_ISACTIVER", "GICD_ISACTIVER", 768, 32>>,
     <<"GICD_ICACTIVER", "GICD_ICACTIVER", 896, 32>>,
     <<"GICD_IPRIORITYR", "GICD_IPRIORITYR", 1024, 256>>,
     <<"GICD_RESERVED_02", "GICD_RESERVED_02", 2044, 1>>,
     <<"GICD_ITARGETSR", "GICD_ITARGETSR", 2048, 64>>,
     <<"GICD_RESERVED_03", "GICD_RESERVED_03", 3068, 1>>,
     <<"GICD_ICFGR", "GICD_ICFGR", 3072, 128>>,
     <<"GICD_IMP_DEF_01", "GICD_IMP_DEF_01", 3328, 32>>,
     <<"GICD_NSACR", "GICD_NSACR", 3584, 64>>, <<"GICD_SGIR", "GICD_SGIR", 3840, 1>>,
     <<"GICD_RESERVED_04", "GICD_RESERVED_04", 3844, 3>>,
     <<"GICD_CPENDSGIR", "GICD_CPENDSGIR", 3856, 4>>,
     <<"GICD_SPENDSGIR", "GICD_SPENDSGIR", 3872, 4>>,
     <<"GICD_RESERVED_05", "GICD_RESERVED_05", 3888, 40>>,
     <<"GICD_IDENT", "GICD_IDENT", 4048, 12>>, <<"GICD_ICPIDR2", "GICD_ICPIDR2", 4072, 1>>}
GicEntries(part) == IF part = GICC_V2 THEN GiccEntries ELSE GicdEntries

\* An entry of a GIC table is one of those.
DeviceEntry(part, e) ==
    /\ \E offset : <<e.name, e.register, offset, e.range>> \in GicEntries(part)
    /\ Len(e.rows) \in Nat
DeviceTable(part, table) ==
    \E S : table \in Seq(S) /\ \A e \in S : DeviceEntry(part, e)

\* The numbers of the entries of a group, for the provers to try one by one.
LEMMA Numbers ==
  \A k \in 1 .. 26 : k \in {1, 2, 3, 4, 5, 6, 7, 8, 9, 10, 11, 12, 13, 14, 15, 16, 17, 18, 19,
                            20, 21, 22, 23, 24, 25, 26}
  OBVIOUS

\* Widths keeps the number of rows.
LEMMA LenWidths == \A w : Len(w) \in Nat => Len(Widths(w)) \in Nat
  BY DEF Widths

\* A group is a table if each of its entries is sound.
LEMMA EntriesTable ==
  ASSUME NEW n \in Nat, NEW t, t = [k \in 1 .. n |-> t[k]], NEW part,
         \A k \in 1 .. n : SystemEntry(part, t[k])
  PROVE  SystemTable(part, t)
  <1> DEFINE S == {t[k] : k \in 1 .. n}
  <1>1. t \in [1 .. n -> S]
    OBVIOUS
  <1>2. t \in Seq(S)
    <2> HIDE DEF S
    <2> QED BY <1>1
  <1>3. \A e \in S : SystemEntry(part, e)
    OBVIOUS
  <1> HIDE DEF S
  <1> QED BY <1>2, <1>3 DEF SystemTable

\* Two groups, one behind the other, are a table.
LEMMA BothTables ==
  ASSUME NEW part, NEW s, NEW t, SystemTable(part, s), SystemTable(part, t)
  PROVE  SystemTable(part, s \o t)
  <1>1. PICK S, T : s \in Seq(S) /\ t \in Seq(T) /\ (\A e \in S \cup T : SystemEntry(part, e))
    BY DEF SystemTable
  <1>2. s \o t \in Seq(S \cup T)
    <2>1. s \in Seq(S \cup T) /\ t \in Seq(S \cup T)
      BY <1>1
    <2> QED BY <2>1, ConcatProperties
  <1> QED BY <1>1, <1>2 DEF SystemTable

\* The same of the GIC.
LEMMA DeviceEntriesTable ==
  ASSUME NEW part, NEW n \in Nat, NEW t, t = [k \in 1 .. n |-> t[k]],
         \A k \in 1 .. n : DeviceEntry(part, t[k])
  PROVE  DeviceTable(part, t)
  <1> DEFINE S == {t[k] : k \in 1 .. n}
  <1>1. t \in [1 .. n -> S]
    OBVIOUS
  <1>2. t \in Seq(S)
    <2> HIDE DEF S
    <2> QED BY <1>1
  <1>3. \A e \in S : DeviceEntry(part, e)
    OBVIOUS
  <1> HIDE DEF S
  <1> QED BY <1>2, <1>3 DEF DeviceTable

LEMMA BothDeviceTables ==
  ASSUME NEW part, NEW s, NEW t, DeviceTable(part, s), DeviceTable(part, t)
  PROVE  DeviceTable(part, s \o t)
  <1>1. PICK S, T : s \in Seq(S) /\ t \in Seq(T) /\ (\A e \in S \cup T : DeviceEntry(part, e))
    BY DEF DeviceTable
  <1>2. s \o t \in Seq(S \cup T)
    <2>1. s \in Seq(S \cup T) /\ t \in Seq(S \cup T)
      BY <1>1
    <2> QED BY <2>1, ConcatProperties
  <1> QED BY <1>1, <1>2 DEF DeviceTable

\* The table of the CPU interface (bitfield_giccv2_table).
LEMMA Gicc == DeviceTable(GICC_V2, giccv2_gicc_1 \o giccv2_gicc_2)
  <1>1. DeviceTable(GICC_V2, giccv2_gicc_1)
    <2>1. giccv2_gicc_1 = [k \in 1 .. 11 |-> giccv2_gicc_1[k]]
      BY DEF giccv2_gicc_1, Group
    <2>2. \A k \in 1 .. 11 :
             \E o : <<giccv2_gicc_1[k].name, giccv2_gicc_1[k].register, o,
                    giccv2_gicc_1[k].range>> \in GiccEntries
      BY Numbers, SMTT(120) DEF giccv2_gicc_1, Group, At, K, GiccEntries
    <2>3. \A k \in 1 .. 11 : Len(giccv2_gicc_1[k].rows) \in Nat
      BY Numbers, LenWidths, SMTT(120) DEF giccv2_gicc_1, Group, At, K
    <2> QED BY <2>1, <2>2, <2>3, DeviceEntriesTable DEF DeviceEntry, GicEntries
  <1>2. DeviceTable(GICC_V2, giccv2_gicc_2)
    <2>1. giccv2_gicc_2 = [k \in 1 .. 7 |-> giccv2_gicc_2[k]]
      BY DEF giccv2_gicc_2, Group
    <2>2. \A k \in 1 .. 7 :
             \E o : <<giccv2_gicc_2[k].name, giccv2_gicc_2[k].register, o,
                    giccv2_gicc_2[k].range>> \in GiccEntries
      BY Numbers, SMTT(120) DEF giccv2_gicc_2, Group, At, K, Named, Ranged, GiccEntries
    <2>3. \A k \in 1 .. 7 : Len(giccv2_gicc_2[k].rows) \in Nat
      BY Numbers, LenWidths, SMTT(120) DEF giccv2_gicc_2, Group, At, K, Named, Ranged
    <2> QED BY <2>1, <2>2, <2>3, DeviceEntriesTable DEF DeviceEntry, GicEntries
  <1> QED BY <1>1, <1>2, BothDeviceTables

\* The table of the distributor (bitfield_gicdv2_table).
LEMMA Gicd == DeviceTable(GICD_V2, gicdv2_gicd)
  <1>1. gicdv2_gicd = [k \in 1 .. 26 |-> gicdv2_gicd[k]]
    BY DEF gicdv2_gicd, Group
  <1>2. \A k \in 1 .. 26 :
           \E o : <<gicdv2_gicd[k].name, gicdv2_gicd[k].register, o,
                  gicdv2_gicd[k].range>> \in GicdEntries
    BY Numbers, SMTT(120) DEF gicdv2_gicd, Group, At, K, Ranged, Each, GicdEntries
  <1>3. \A k \in 1 .. 26 : Len(gicdv2_gicd[k].rows) \in Nat
    BY Numbers, LenWidths, SMTT(120) DEF gicdv2_gicd, Group, At, K, Ranged, Each
  <1>4. GicEntries(GICD_V2) = GicdEntries
    BY DEF GicEntries, GICC_V2, GICD_V2
  <1>5. \A k \in 1 .. 26 : DeviceEntry(GICD_V2, gicdv2_gicd[k])
    <2> HIDE DEF GicdEntries
    <2> QED BY <1>2, <1>3, <1>4 DEF DeviceEntry
  <1> QED BY <1>1, <1>5, DeviceEntriesTable

\* The offsets are those of the enumerations in src/common/parse.h.
LEMMA Offsets ==
  /\ \A n, r, o, c : <<n, r, o, c>> \in GiccEntries => MS_GIC(GICC_V2, r) = o
  /\ \A n, r, o, c : <<n, r, o, c>> \in GicdEntries => MS_GIC(GICD_V2, r) = o
  <1>1. \A n, r, o, c : <<n, r, o, c>> \in GiccEntries => MS_GIC(GICC_V2, r) = o
    BY SMTT(120) DEF GiccEntries, MS_GIC, MS_GIC_GICC, GICC_V2, GICD_V2
  <1>2. \A n, r, o, c : <<n, r, o, c>> \in GicdEntries => MS_GIC(GICD_V2, r) = o
    BY SMTT(120) DEF GicdEntries, MS_GIC, MS_GIC_GICD, GICC_V2, GICD_V2
  <1> QED BY <1>1, <1>2

\* No two entries of the GIC have one name, but for GICC_RESERVED.
LEMMA GicNames ==
  /\ \A n, r, o, c, s, p, d :
        <<n, r, o, c>> \in GiccEntries /\ <<n, s, p, d>> \in GiccEntries =>
            (o = p /\ c = d) \/ n = "GICC_RESERVED"
  /\ \A n, r, o, c, s, p, d :
        <<n, r, o, c>> \in GicdEntries /\ <<n, s, p, d>> \in GicdEntries => o = p /\ c = d
  /\ \A n, r, o, c, s, p, d :
        ~ (<<n, r, o, c>> \in GiccEntries /\ <<n, s, p, d>> \in GicdEntries)
  <1>1. \A n, r, o, c, s, p, d :
          <<n, r, o, c>> \in GiccEntries /\ <<n, s, p, d>> \in GiccEntries =>
              (o = p /\ c = d) \/ n = "GICC_RESERVED"
    BY SMTT(120) DEF GiccEntries
  <1>2. \A n, r, o, c, s, p, d :
          <<n, r, o, c>> \in GicdEntries /\ <<n, s, p, d>> \in GicdEntries => o = p /\ c = d
    BY SMTT(120) DEF GicdEntries
  <1>3. \A n, r, o, c, s, p, d :
          ~ (<<n, r, o, c>> \in GiccEntries /\ <<n, s, p, d>> \in GicdEntries)
    BY SMTT(120) DEF GiccEntries, GicdEntries
  <1> QED BY <1>1, <1>2, <1>3

\* No two arrays of registers share a word, but for those named in Twice.
LEMMA GicApart ==
  /\ \A n, r, o, c, m, s, p, d :
        <<n, r, o, c>> \in GiccEntries /\ <<m, s, p, d>> \in GiccEntries =>
            n = m \/ o + 4 * c <= p \/ p + 4 * d <= o
  /\ \A n, r, o, c, m, s, p, d :
        <<n, r, o, c>> \in GicdEntries /\ <<m, s, p, d>> \in GicdEntries =>
            n \in Twice \/ m \in Twice \/ n = m \/ o + 4 * c <= p \/ p + 4 * d <= o
  <1>1. \A n, r, o, c, m, s, p, d :
          <<n, r, o, c>> \in GiccEntries /\ <<m, s, p, d>> \in GiccEntries =>
              n = m \/ o + 4 * c <= p \/ p + 4 * d <= o
    BY SMTT(120) DEF GiccEntries
  <1>2. \A n, r, o, c, m, s, p, d :
          <<n, r, o, c>> \in GicdEntries /\ <<m, s, p, d>> \in GicdEntries =>
              n \in Twice \/ m \in Twice \/ n = m \/ o + 4 * c <= p \/ p + 4 * d <= o
    BY SMTT(120) DEF GicdEntries, Twice
  <1> QED BY <1>1, <1>2

\* Where the GIC's registers lie, and how many an entry has.
LEMMA GicNumbers ==
  /\ \A n, r, o, c : <<n, r, o, c>> \in GiccEntries =>
        /\ o \in Nat /\ c \in 1 .. 256 /\ o + 4 * c <= 65536
        /\ o < 2048 \/ o = 4096
  /\ \A n, r, o, c : <<n, r, o, c>> \in GicdEntries =>
        /\ o \in Nat /\ c \in 1 .. 256 /\ o + 4 * c <= 65536
        /\ o < 4096
  <1>1. \A n, r, o, c : <<n, r, o, c>> \in GiccEntries =>
          /\ o \in Nat /\ c \in 1 .. 256 /\ o + 4 * c <= 65536
          /\ o < 2048 \/ o = 4096
    BY SMTT(120) DEF GiccEntries
  <1>2. \A n, r, o, c : <<n, r, o, c>> \in GicdEntries =>
          /\ o \in Nat /\ c \in 1 .. 256 /\ o + 4 * c <= 65536
          /\ o < 4096
    BY SMTT(120) DEF GicdEntries
  <1> QED BY <1>1, <1>2

-----------------------------------------------------------------------------
(***************************************************************************)
(* The groups of the tables, entry by entry. A group is a literal          *)
(* sequence, so the provers evaluate its entries one by one; from here on  *)
(* only what SystemEntry and DeviceEntry say of an entry is used.          *)
(***************************************************************************)
\* One lemma per group: all of its entries are sound.
LEMMA A7Ident == SystemTable(IMPL_CORTEX_A7, a7_ident)
  <1>1. a7_ident = [k \in 1 .. 2 |-> a7_ident[k]]
    BY DEF a7_ident, Group
  <1>2. \A k \in 1 .. 2 : SystemEntry(IMPL_CORTEX_A7, a7_ident[k])
    BY Numbers, LenWidths, V7Plain, SMTT(120) DEF SystemEntry, V7Registers, a7_ident, Group, At, K
  <1> QED BY <1>1, <1>2, EntriesTable

LEMMA A7Other == SystemTable(IMPL_CORTEX_A7, a7_other)
  <1>1. a7_other = [k \in 1 .. 1 |-> a7_other[k]]
    BY DEF a7_other, Group
  <1>2. \A k \in 1 .. 1 : SystemEntry(IMPL_CORTEX_A7, a7_other[k])
    BY Numbers, LenWidths, V7Plain, SMTT(120) DEF SystemEntry, V7Registers, a7_other, Group, At, K
  <1> QED BY <1>1, <1>2, EntriesTable

LEMMA A7Secext == SystemTable(IMPL_CORTEX_A7, a7_secext)
  <1>1. a7_secext = [k \in 1 .. 1 |-> a7_secext[k]]
    BY DEF a7_secext, Group
  <1>2. \A k \in 1 .. 1 : SystemEntry(IMPL_CORTEX_A7, a7_secext[k])
    BY Numbers, LenWidths, V7Plain, SMTT(120) DEF SystemEntry, V7Registers, a7_secext, Group, At, K
  <1> QED BY <1>1, <1>2, EntriesTable

LEMMA A7ImplDef == SystemTable(IMPL_CORTEX_A7, a7_impl_def)
  <1>1. a7_impl_def = [k \in 1 .. 3 |-> a7_impl_def[k]]
    BY DEF a7_impl_def, Group
  <1>2. \A k \in 1 .. 3 : SystemEntry(IMPL_CORTEX_A7, a7_impl_def[k])
    BY Numbers, LenWidths, V7Plain, SMTT(120) DEF SystemEntry, V7Registers, a7_impl_def, Group,
       At, K
  <1> QED BY <1>1, <1>2, EntriesTable

LEMMA A15Ident == SystemTable(IMPL_CORTEX_A15, a15_ident)
  <1>1. a15_ident = [k \in 1 .. 2 |-> a15_ident[k]]
    BY DEF a15_ident, Group
  <1>2. \A k \in 1 .. 2 : SystemEntry(IMPL_CORTEX_A15, a15_ident[k])
    BY Numbers, LenWidths, V7Plain, SMTT(120) DEF SystemEntry, V7Registers, a15_ident, Group, At, K
  <1> QED BY <1>1, <1>2, EntriesTable

LEMMA A15Other == SystemTable(IMPL_CORTEX_A15, a15_other)
  <1>1. a15_other = [k \in 1 .. 1 |-> a15_other[k]]
    BY DEF a15_other, Group
  <1>2. \A k \in 1 .. 1 : a15_other[k].register \in V7Registers /\ a15_other[k].range = 1
    BY Numbers, SMTT(120) DEF V7Registers, a15_other, Group, At, K
  <1>3. \A k \in 1 .. 1 : a15_other[k].name = a15_other[k].register
    BY Numbers, SMTT(120) DEF a15_other, Group, At, K
  <1>4. \A k \in 1 .. 1 : Len(a15_other[k].rows) \in Nat
    BY Numbers, LenWidths, SMTT(120) DEF a15_other, Group, At, K
  <1>5. \A k \in 1 .. 1 : SystemEntry(IMPL_CORTEX_A15, a15_other[k])
    BY <1>2, <1>3, <1>4, V7Plain DEF SystemEntry
  <1> QED BY <1>1, <1>5, EntriesTable

LEMMA A15Secext == SystemTable(IMPL_CORTEX_A15, a15_secext)
  <1>1. a15_secext = [k \in 1 .. 1 |-> a15_secext[k]]
    BY DEF a15_secext, Group
  <1>2. \A k \in 1 .. 1 : SystemEntry(IMPL_CORTEX_A15, a15_secext[k])
    BY Numbers, LenWidths, V7Plain, SMTT(120) DEF SystemEntry, V7Registers, a15_secext, Group, At, K
  <1> QED BY <1>1, <1>2, EntriesTable

LEMMA A15Fault == SystemTable(IMPL_CORTEX_A15, a15_fault)
  <1>1. a15_fault = [k \in 1 .. 1 |-> a15_fault[k]]
    BY DEF a15_fault, Group
  <1>2. \A k \in 1 .. 1 : SystemEntry(IMPL_CORTEX_A15, a15_fault[k])
    BY Numbers, LenWidths, V7Plain, SMTT(120) DEF SystemEntry, V7Registers, a15_fault, Group, At, K
  <1> QED BY <1>1, <1>2, EntriesTable

LEMMA A15ImplDef1 == SystemTable(IMPL_CORTEX_A15, a15_impl_def_1)
  <1>1. a15_impl_def_1 = [k \in 1 .. 9 |-> a15_impl_def_1[k]]
    BY DEF a15_impl_def_1, Group
  <1>2. \A k \in 1 .. 9 :
          a15_impl_def_1[k].register \in V7Registers /\ a15_impl_def_1[k].range = 1
    BY Numbers, SMTT(120) DEF V7Registers, a15_impl_def_1, Group, At, K
  <1>3. \A k \in 1 .. 9 : a15_impl_def_1[k].name = a15_impl_def_1[k].register
    BY Numbers, SMTT(120) DEF a15_impl_def_1, Group, At, K
  <1>4. \A k \in 1 .. 9 : Len(a15_impl_def_1[k].rows) \in Nat
    BY Numbers, LenWidths, SMTT(120) DEF a15_impl_def_1, Group, At, K
  <1>5. \A k \in 1 .. 9 : SystemEntry(IMPL_CORTEX_A15, a15_impl_def_1[k])
    BY <1>2, <1>3, <1>4, V7Plain DEF SystemEntry
  <1> QED BY <1>1, <1>5, EntriesTable

LEMMA A15ImplDef2 == SystemTable(IMPL_CORTEX_A15, a15_impl_def_2)
  <1>1. a15_impl_def_2 = [k \in 1 .. 6 |-> a15_impl_def_2[k]]
    BY DEF a15_impl_def_2, Group
  <1>2. \A k \in 1 .. 6 :
          a15_impl_def_2[k].register \in V7Registers /\ a15_impl_def_2[k].range = 1
    BY Numbers, SMTT(120) DEF V7Registers, a15_impl_def_2, Group, At, K
  <1>3. \A k \in 1 .. 6 : a15_impl_def_2[k].name = a15_impl_def_2[k].register
    BY Numbers, SMTT(120) DEF a15_impl_def_2, Group, At, K
  <1>4. \A k \in 1 .. 6 : Len(a15_impl_def_2[k].rows) \in Nat
    BY Numbers, LenWidths, SMTT(120) DEF a15_impl_def_2, Group, At, K
  <1>5. \A k \in 1 .. 6 : SystemEntry(IMPL_CORTEX_A15, a15_impl_def_2[k])
    BY <1>2, <1>3, <1>4, V7Plain DEF SystemEntry
  <1> QED BY <1>1, <1>5, EntriesTable

LEMMA A53ImplDef1 == SystemTable(IMPL_CORTEX_A53, a53_impl_def_1)
  <1>1. a53_impl_def_1 = [k \in 1 .. 3 |-> a53_impl_def_1[k]]
    BY DEF a53_impl_def_1, Group
  <1>2. \A k \in 1 .. 3 : SystemEntry(IMPL_CORTEX_A53, a53_impl_def_1[k])
    BY Numbers, LenWidths, V8Plain, SMTT(120) DEF SystemEntry, V8Registers, a53_impl_def_1,
       Group, At, K
  <1> QED BY <1>1, <1>2, EntriesTable

LEMMA A53Addrtrans == SystemTable(IMPL_CORTEX_A53, a53_addrtrans)
  <1>1. a53_addrtrans = [k \in 1 .. 1 |-> a53_addrtrans[k]]
    BY DEF a53_addrtrans, Group
  <1>2. \A k \in 1 .. 1 : SystemEntry(IMPL_CORTEX_A53, a53_addrtrans[k])
    BY Numbers, LenWidths, V8Plain, SMTT(120) DEF SystemEntry, V8Registers, a53_addrtrans, Group,
       At, K
  <1> QED BY <1>1, <1>2, EntriesTable

LEMMA A53ImplDef2 == SystemTable(IMPL_CORTEX_A53, a53_impl_def_2)
  <1>1. a53_impl_def_2 = [k \in 1 .. 5 |-> a53_impl_def_2[k]]
    BY DEF a53_impl_def_2, Group
  <1>2. \A k \in 1 .. 5 :
          a53_impl_def_2[k].register \in V8Registers /\ a53_impl_def_2[k].range = 1
    BY Numbers, SMTT(120) DEF V8Registers, a53_impl_def_2, Group, At, K
  <1>3. \A k \in 1 .. 5 : a53_impl_def_2[k].name = a53_impl_def_2[k].register
    BY Numbers, SMTT(120) DEF a53_impl_def_2, Group, At, K
  <1>4. \A k \in 1 .. 5 : Len(a53_impl_def_2[k].rows) \in Nat
    BY Numbers, LenWidths, SMTT(120) DEF a53_impl_def_2, Group, At, K
  <1>5. \A k \in 1 .. 5 : SystemEntry(IMPL_CORTEX_A53, a53_impl_def_2[k])
    BY <1>2, <1>3, <1>4, V8Plain DEF SystemEntry
  <1> QED BY <1>1, <1>5, EntriesTable

LEMMA A53Virtmem == SystemTable(IMPL_CORTEX_A53, a53_virtmem)
  <1>1. a53_virtmem = [k \in 1 .. 1 |-> a53_virtmem[k]]
    BY DEF a53_virtmem, Group
  <1>2. \A k \in 1 .. 1 : SystemEntry(IMPL_CORTEX_A53, a53_virtmem[k])
    BY Numbers, LenWidths, V8Plain, SMTT(120) DEF SystemEntry, V8Registers, a53_virtmem, Group,
       At, K
  <1> QED BY <1>1, <1>2, EntriesTable

LEMMA A53Fault == SystemTable(IMPL_CORTEX_A53, a53_fault)
  <1>1. a53_fault = [k \in 1 .. 1 |-> a53_fault[k]]
    BY DEF a53_fault, Group
  <1>2. \A k \in 1 .. 1 : SystemEntry(IMPL_CORTEX_A53, a53_fault[k])
    BY Numbers, LenWidths, V8Plain, SMTT(120) DEF SystemEntry, V8Registers, a53_fault, Group, At,
       K, Named, Renamed
  <1> QED BY <1>1, <1>2, EntriesTable

LEMMA A57Ident == SystemTable(IMPL_CORTEX_A57, a57_ident)
  <1>1. a57_ident = [k \in 1 .. 1 |-> a57_ident[k]]
    BY DEF a57_ident, Group
  <1>2. \A k \in 1 .. 1 : SystemEntry(IMPL_CORTEX_A57, a57_ident[k])
    BY Numbers, LenWidths, V8Plain, SMTT(120) DEF SystemEntry, V8Registers, a57_ident, Group, At, K
  <1> QED BY <1>1, <1>2, EntriesTable

LEMMA A57Virtmem == SystemTable(IMPL_CORTEX_A57, a57_virtmem)
  <1>1. a57_virtmem = [k \in 1 .. 3 |-> a57_virtmem[k]]
    BY DEF a57_virtmem, Group
  <1>2. \A k \in 1 .. 3 : a57_virtmem[k].register \in V8Registers /\ a57_virtmem[k].range = 1
    BY Numbers, SMTT(120) DEF V8Registers, a57_virtmem, Group, At, K
  <1>3. \A k \in 1 .. 3 : a57_virtmem[k].name = a57_virtmem[k].register
    BY Numbers, SMTT(120) DEF a57_virtmem, Group, At, K
  <1>4. \A k \in 1 .. 3 : Len(a57_virtmem[k].rows) \in Nat
    BY Numbers, LenWidths, SMTT(120) DEF a57_virtmem, Group, At, K
  <1>5. \A k \in 1 .. 3 : SystemEntry(IMPL_CORTEX_A57, a57_virtmem[k])
    BY <1>2, <1>3, <1>4, V8Plain DEF SystemEntry
  <1> QED BY <1>1, <1>5, EntriesTable

LEMMA A57Fault == SystemTable(IMPL_CORTEX_A57, a57_fault)
  <1>1. a57_fault = [k \in 1 .. 1 |-> a57_fault[k]]
    BY DEF a57_fault, Group
  <1>2. \A k \in 1 .. 1 : SystemEntry(IMPL_CORTEX_A57, a57_fault[k])
    BY Numbers, LenWidths, V8Plain, SMTT(120) DEF SystemEntry, V8Registers, a57_fault, Group, At,
       K, Named, Renamed
  <1> QED BY <1>1, <1>2, EntriesTable

LEMMA A57Addrtrans == SystemTable(IMPL_CORTEX_A57, a57_addrtrans)
  <1>1. a57_addrtrans = [k \in 1 .. 1 |-> a57_addrtrans[k]]
    BY DEF a57_addrtrans, Group
  <1>2. \A k \in 1 .. 1 : SystemEntry(IMPL_CORTEX_A57, a57_addrtrans[k])
    BY Numbers, LenWidths, V8Plain, SMTT(120) DEF SystemEntry, V8Registers, a57_addrtrans, Group,
       At, K
  <1> QED BY <1>1, <1>2, EntriesTable

LEMMA A57ImplDef1 == SystemTable(IMPL_CORTEX_A57, a57_impl_def_1)
  <1>1. a57_impl_def_1 = [k \in 1 .. 3 |-> a57_impl_def_1[k]]
    BY DEF a57_impl_def_1, Group
  <1>2. \A k \in 1 .. 3 :
          a57_impl_def_1[k].register \in V8Registers /\ a57_impl_def_1[k].range = 1
    BY Numbers, SMTT(120) DEF V8Registers, a57_impl_def_1, Group, At, K
  <1>3. \A k \in 1 .. 3 : a57_impl_def_1[k].name = a57_impl_def_1[k].register
    BY Numbers, SMTT(120) DEF a57_impl_def_1, Group, At, K
  <1>4. \A k \in 1 .. 3 : Len(a57_impl_def_1[k].rows) \in Nat
    BY Numbers, LenWidths, SMTT(120) DEF a57_impl_def_1, Group, At, K
  <1>5. \A k \in 1 .. 3 : SystemEntry(IMPL_CORTEX_A57, a57_impl_def_1[k])
    BY <1>2, <1>3, <1>4, V8Plain DEF SystemEntry
  <1> QED BY <1>1, <1>5, EntriesTable

LEMMA A57ImplDef2 == SystemTable(IMPL_CORTEX_A57, a57_impl_def_2)
  <1>1. a57_impl_def_2 = [k \in 1 .. 5 |-> a57_impl_def_2[k]]
    BY DEF a57_impl_def_2, Group
  <1>2. \A k \in 1 .. 5 :
          a57_impl_def_2[k].register \in V8Registers /\ a57_impl_def_2[k].range = 1
    BY Numbers, SMTT(120) DEF V8Registers, a57_impl_def_2, Group, At, K, Each
  <1>3. \A k \in 1 .. 5 : a57_impl_def_2[k].name = a57_impl_def_2[k].register
    BY Numbers, SMTT(120) DEF a57_impl_def_2, Group, At, K, Each
  <1>4. \A k \in 1 .. 5 : Len(a57_impl_def_2[k].rows) \in Nat
    BY Numbers, LenWidths, SMTT(120) DEF a57_impl_def_2, Group, At, K, Each
  <1>5. \A k \in 1 .. 5 : SystemEntry(IMPL_CORTEX_A57, a57_impl_def_2[k])
    BY <1>2, <1>3, <1>4, V8Plain DEF SystemEntry
  <1> QED BY <1>1, <1>5, EntriesTable

LEMMA Armv7AIdent1 == SystemTable(ARCH_ARMV7A, armv7a_ident_1)
  <1>1. armv7a_ident_1 = [k \in 1 .. 8 |-> armv7a_ident_1[k]]
    BY DEF armv7a_ident_1, Group
  <1>2. \A k \in 1 .. 8 : SystemEntry(ARCH_ARMV7A, armv7a_ident_1[k])
    BY Numbers, LenWidths, V7Plain, SMTT(120) DEF SystemEntry, V7Registers, armv7a_ident_1,
       Group, At, K, Each
  <1> QED BY <1>1, <1>2, EntriesTable

LEMMA Armv7AIdent2 == SystemTable(ARCH_ARMV7A, armv7a_ident_2)
  <1>1. armv7a_ident_2 = [k \in 1 .. 16 |-> armv7a_ident_2[k]]
    BY DEF armv7a_ident_2, Group
  <1>2. \A k \in 1 .. 16 :
          armv7a_ident_2[k].register \in V7Registers /\ armv7a_ident_2[k].range = 1
    BY Numbers, SMTT(120) DEF V7Registers, armv7a_ident_2, Group, At, K, Each
  <1>3. \A k \in 1 .. 16 : armv7a_ident_2[k].name = armv7a_ident_2[k].register
    BY Numbers, SMTT(120) DEF armv7a_ident_2, Group, At, K, Each
  <1>4. \A k \in 1 .. 16 : Len(armv7a_ident_2[k].rows) \in Nat
    BY Numbers, LenWidths, SMTT(120) DEF armv7a_ident_2, Group, At, K, Each
  <1>5. \A k \in 1 .. 16 : SystemEntry(ARCH_ARMV7A, armv7a_ident_2[k])
    BY <1>2, <1>3, <1>4, V7Plain DEF SystemEntry
  <1> QED BY <1>1, <1>5, EntriesTable

LEMMA Armv7AFp == SystemTable(ARCH_ARMV7A, armv7a_fp)
  <1>1. armv7a_fp = [k \in 1 .. 5 |-> armv7a_fp[k]]
    BY DEF armv7a_fp, Group
  <1>2. \A k \in 1 .. 5 : armv7a_fp[k].register \in V7Registers /\ armv7a_fp[k].range = 1
    BY Numbers, SMTT(120) DEF V7Registers, armv7a_fp, Group, At, K, Each
  <1>3. \A k \in 1 .. 5 : armv7a_fp[k].name = armv7a_fp[k].register
    BY Numbers, SMTT(120) DEF armv7a_fp, Group, At, K, Each
  <1>4. \A k \in 1 .. 5 : Len(armv7a_fp[k].rows) \in Nat
    BY Numbers, LenWidths, SMTT(120) DEF armv7a_fp, Group, At, K, Each
  <1>5. \A k \in 1 .. 5 : SystemEntry(ARCH_ARMV7A, armv7a_fp[k])
    BY <1>2, <1>3, <1>4, V7Plain DEF SystemEntry
  <1> QED BY <1>1, <1>5, EntriesTable

LEMMA Armv7ASecext == SystemTable(ARCH_ARMV7A, armv7a_secext)
  <1>1. armv7a_secext = [k \in 1 .. 6 |-> armv7a_secext[k]]
    BY DEF armv7a_secext, Group
  <1>2. \A k \in 1 .. 6 :
          armv7a_secext[k].register \in V7Registers /\ armv7a_secext[k].range = 1
    BY Numbers, SMTT(120) DEF V7Registers, armv7a_secext, Group, At, K, SEC
  <1>3. \A k \in 1 .. 6 : armv7a_secext[k].name = armv7a_secext[k].register
    BY Numbers, SMTT(120) DEF armv7a_secext, Group, At, K, SEC
  <1>4. \A k \in 1 .. 6 : Len(armv7a_secext[k].rows) \in Nat
    BY Numbers, LenWidths, SMTT(120) DEF armv7a_secext, Group, At, K, SEC
  <1>5. \A k \in 1 .. 6 : SystemEntry(ARCH_ARMV7A, armv7a_secext[k])
    BY <1>2, <1>3, <1>4, V7Plain DEF SystemEntry
  <1> QED BY <1>1, <1>5, EntriesTable

LEMMA Armv7ADebug == SystemTable(ARCH_ARMV7A, armv7a_debug)
  <1>1. armv7a_debug = [k \in 1 .. 4 |-> armv7a_debug[k]]
    BY DEF armv7a_debug, Group
  <1>2. \A k \in 1 .. 4 : armv7a_debug[k].register \in V7Registers /\ armv7a_debug[k].range = 1
    BY Numbers, SMTT(120) DEF V7Registers, armv7a_debug, Group, At, K
  <1>3. \A k \in 1 .. 4 : armv7a_debug[k].name = armv7a_debug[k].register
    BY Numbers, SMTT(120) DEF armv7a_debug, Group, At, K
  <1>4. \A k \in 1 .. 4 : Len(armv7a_debug[k].rows) \in Nat
    BY Numbers, LenWidths, SMTT(120) DEF armv7a_debug, Group, At, K
  <1>5. \A k \in 1 .. 4 : SystemEntry(ARCH_ARMV7A, armv7a_debug[k])
    BY <1>2, <1>3, <1>4, V7Plain DEF SystemEntry
  <1> QED BY <1>1, <1>5, EntriesTable

LEMMA Armv7AVirtmem == SystemTable(ARCH_ARMV7A, armv7a_virtmem)
  <1>1. armv7a_virtmem = [k \in 1 .. 14 |-> armv7a_virtmem[k]]
    BY DEF armv7a_virtmem, Group
  <1>2. \A k \in 1 .. 14 :
          armv7a_virtmem[k].register \in V7Registers /\ armv7a_virtmem[k].range = 1
    BY Numbers, SMTT(120) DEF V7Registers, armv7a_virtmem, Group, At, K, Named, Each
  <1>3. \A k \in 1 .. 14 :
          armv7a_virtmem[k].name = armv7a_virtmem[k].register
          \/ <<ARCH_ARMV7A, armv7a_virtmem[k].name, armv7a_virtmem[k].register>> \in Renamed
    BY Numbers, SMTT(120) DEF armv7a_virtmem, Group, At, K, Named, Each, Renamed
  <1>4. \A k \in 1 .. 14 : Len(armv7a_virtmem[k].rows) \in Nat
    BY Numbers, LenWidths, SMTT(120) DEF armv7a_virtmem, Group, At, K, Named, Each
  <1>5. \A k \in 1 .. 14 : SystemEntry(ARCH_ARMV7A, armv7a_virtmem[k])
    BY <1>2, <1>3, <1>4, V7Plain DEF SystemEntry
  <1> QED BY <1>1, <1>5, EntriesTable

LEMMA Armv7APerfmon == SystemTable(ARCH_ARMV7A, armv7a_perfmon)
  <1>1. armv7a_perfmon = [k \in 1 .. 15 |-> armv7a_perfmon[k]]
    BY DEF armv7a_perfmon, Group
  <1>2. \A k \in 1 .. 15 :
          armv7a_perfmon[k].register \in V7Registers /\ armv7a_perfmon[k].range = 1
    BY Numbers, SMTT(120) DEF V7Registers, armv7a_perfmon, Group, At, K, NS, Each
  <1>3. \A k \in 1 .. 15 : armv7a_perfmon[k].name = armv7a_perfmon[k].register
    BY Numbers, SMTT(120) DEF armv7a_perfmon, Group, At, K, NS, Each
  <1>4. \A k \in 1 .. 15 : Len(armv7a_perfmon[k].rows) \in Nat
    BY Numbers, LenWidths, SMTT(120) DEF armv7a_perfmon, Group, At, K, NS, Each
  <1>5. \A k \in 1 .. 15 : SystemEntry(ARCH_ARMV7A, armv7a_perfmon[k])
    BY <1>2, <1>3, <1>4, V7Plain DEF SystemEntry
  <1> QED BY <1>1, <1>5, EntriesTable

LEMMA Armv7AOther == SystemTable(ARCH_ARMV7A, armv7a_other)
  <1>1. armv7a_other = [k \in 1 .. 3 |-> armv7a_other[k]]
    BY DEF armv7a_other, Group
  <1>2. \A k \in 1 .. 3 : armv7a_other[k].register \in V7Registers /\ armv7a_other[k].range = 1
    BY Numbers, SMTT(120) DEF V7Registers, armv7a_other, Group, At, K
  <1>3. \A k \in 1 .. 3 : armv7a_other[k].name = armv7a_other[k].register
    BY Numbers, SMTT(120) DEF armv7a_other, Group, At, K
  <1>4. \A k \in 1 .. 3 : Len(armv7a_other[k].rows) \in Nat
    BY Numbers, LenWidths, SMTT(120) DEF armv7a_other, Group, At, K
  <1>5. \A k \in 1 .. 3 : SystemEntry(ARCH_ARMV7A, armv7a_other[k])
    BY <1>2, <1>3, <1>4, V7Plain DEF SystemEntry
  <1> QED BY <1>1, <1>5, EntriesTable

LEMMA Armv7AFault == SystemTable(ARCH_ARMV7A, armv7a_fault)
  <1>1. armv7a_fault = [k \in 1 .. 6 |-> armv7a_fault[k]]
    BY DEF armv7a_fault, Group
  <1>2. \A k \in 1 .. 6 : SystemEntry(ARCH_ARMV7A, armv7a_fault[k])
    BY Numbers, LenWidths, V7Plain, SMTT(120) DEF SystemEntry, V7Registers, armv7a_fault, Group,
       At, K
  <1> QED BY <1>1, <1>2, EntriesTable

LEMMA Armv7AJazelle == SystemTable(ARCH_ARMV7A, armv7a_jazelle)
  <1>1. armv7a_jazelle = [k \in 1 .. 3 |-> armv7a_jazelle[k]]
    BY DEF armv7a_jazelle, Group
  <1>2. \A k \in 1 .. 3 : SystemEntry(ARCH_ARMV7A, armv7a_jazelle[k])
    BY Numbers, LenWidths, V7Plain, SMTT(120) DEF SystemEntry, V7Registers, armv7a_jazelle,
       Group, At, K
  <1> QED BY <1>1, <1>2, EntriesTable

LEMMA Armv7AThumb == SystemTable(ARCH_ARMV7A, armv7a_thumb)
  <1>1. armv7a_thumb = [k \in 1 .. 2 |-> armv7a_thumb[k]]
    BY DEF armv7a_thumb, Group
  <1>2. \A k \in 1 .. 2 : SystemEntry(ARCH_ARMV7A, armv7a_thumb[k])
    BY Numbers, LenWidths, V7Plain, SMTT(120) DEF SystemEntry, V7Registers, armv7a_thumb, Group,
       At, NS
  <1> QED BY <1>1, <1>2, EntriesTable

LEMMA Armv7AMisc == SystemTable(ARCH_ARMV7A, armv7a_misc)
  <1>1. armv7a_misc = [k \in 1 .. 3 |-> armv7a_misc[k]]
    BY DEF armv7a_misc, Group
  <1>2. \A k \in 1 .. 3 : SystemEntry(ARCH_ARMV7A, armv7a_misc[k])
    BY Numbers, LenWidths, V7Plain, SMTT(120) DEF SystemEntry, V7Registers, armv7a_misc, Group,
       At, K, U, ANY
  <1> QED BY <1>1, <1>2, EntriesTable

LEMMA Armv7AAddrtrans == SystemTable(ARCH_ARMV7A, armv7a_addrtrans)
  <1>1. armv7a_addrtrans = [k \in 1 .. 1 |-> armv7a_addrtrans[k]]
    BY DEF armv7a_addrtrans, Group
  <1>2. \A k \in 1 .. 1 : SystemEntry(ARCH_ARMV7A, armv7a_addrtrans[k])
    BY Numbers, LenWidths, V7Plain, SMTT(120) DEF SystemEntry, V7Registers, armv7a_addrtrans,
       Group, At
  <1> QED BY <1>1, <1>2, EntriesTable

LEMMA Armv7APsr == SystemTable(ARCH_ARMV7A, armv7a_psr)
  <1>1. armv7a_psr = [k \in 1 .. 5 |-> armv7a_psr[k]]
    BY DEF armv7a_psr, Group
  <1>2. \A k \in 1 .. 5 : armv7a_psr[k].register \in V7Registers /\ armv7a_psr[k].range = 1
    BY Numbers, SMTT(120) DEF V7Registers, armv7a_psr, Group, At, K, B
  <1>3. \A k \in 1 .. 5 : armv7a_psr[k].name = armv7a_psr[k].register
    BY Numbers, SMTT(120) DEF armv7a_psr, Group, At, K, B
  <1>4. \A k \in 1 .. 5 : Len(armv7a_psr[k].rows) \in Nat
    BY Numbers, LenWidths, SMTT(120) DEF armv7a_psr, Group, At, K, B
  <1>5. \A k \in 1 .. 5 : SystemEntry(ARCH_ARMV7A, armv7a_psr[k])
    BY <1>2, <1>3, <1>4, V7Plain DEF SystemEntry
  <1> QED BY <1>1, <1>5, EntriesTable

LEMMA Armv8AIdent1 == SystemTable(ARCH_ARMV8A, armv8a_ident_1)
  <1>1. armv8a_ident_1 = [k \in 1 .. 17 |-> armv8a_ident_1[k]]
    BY DEF armv8a_ident_1, Group
  <1>2. \A k \in 1 .. 17 :
          armv8a_ident_1[k].register \in V8Registers /\ armv8a_ident_1[k].range = 1
    BY Numbers, SMTT(120) DEF V8Registers, armv8a_ident_1, Group, At, K, Each
  <1>3. \A k \in 1 .. 17 : armv8a_ident_1[k].name = armv8a_ident_1[k].register
    BY Numbers, SMTT(120) DEF armv8a_ident_1, Group, At, K, Each
  <1>4. \A k \in 1 .. 17 : Len(armv8a_ident_1[k].rows) \in Nat
    BY Numbers, LenWidths, SMTT(120) DEF armv8a_ident_1, Group, At, K, Each
  <1>5. \A k \in 1 .. 17 : SystemEntry(ARCH_ARMV8A, armv8a_ident_1[k])
    BY <1>2, <1>3, <1>4, V8Plain DEF SystemEntry
  <1> QED BY <1>1, <1>5, EntriesTable

LEMMA Armv8AIdent2 == SystemTable(ARCH_ARMV8A, armv8a_ident_2)
  <1>1. armv8a_ident_2 = [k \in 1 .. 18 |-> armv8a_ident_2[k]]
    BY DEF armv8a_ident_2, Group
  <1>2. \A k \in 1 .. 18 :
          armv8a_ident_2[k].register \in V8Registers /\ armv8a_ident_2[k].range = 1
    BY Numbers, SMTT(120) DEF V8Registers, armv8a_ident_2, Group, At, K, U, Each
  <1>3. \A k \in 1 .. 18 : armv8a_ident_2[k].name = armv8a_ident_2[k].register
    BY Numbers, SMTT(120) DEF armv8a_ident_2, Group, At, K, U, Each
  <1>4. \A k \in 1 .. 18 : Len(armv8a_ident_2[k].rows) \in Nat
    BY Numbers, LenWidths, SMTT(120) DEF armv8a_ident_2, Group, At, K, U, Each
  <1>5. \A k \in 1 .. 18 : SystemEntry(ARCH_ARMV8A, armv8a_ident_2[k])
    BY <1>2, <1>3, <1>4, V8Plain DEF SystemEntry
  <1> QED BY <1>1, <1>5, EntriesTable

LEMMA Armv8AFp == SystemTable(ARCH_ARMV8A, armv8a_fp)
  <1>1. armv8a_fp = [k \in 1 .. 6 |-> armv8a_fp[k]]
    BY DEF armv8a_fp, Group
  <1>2. \A k \in 1 .. 6 : armv8a_fp[k].register \in V8Registers /\ armv8a_fp[k].range = 1
    BY Numbers, SMTT(120) DEF V8Registers, armv8a_fp, Group, At, K, Each
  <1>3. \A k \in 1 .. 6 : armv8a_fp[k].name = armv8a_fp[k].register
    BY Numbers, SMTT(120) DEF armv8a_fp, Group, At, K, Each
  <1>4. \A k \in 1 .. 6 : Len(armv8a_fp[k].rows) \in Nat
    BY Numbers, LenWidths, SMTT(120) DEF armv8a_fp, Group, At, K, Each
  <1>5. \A k \in 1 .. 6 : SystemEntry(ARCH_ARMV8A, armv8a_fp[k])
    BY <1>2, <1>3, <1>4, V8Plain DEF SystemEntry
  <1> QED BY <1>1, <1>5, EntriesTable

LEMMA Armv8ASecext == SystemTable(ARCH_ARMV8A, armv8a_secext)
  <1>1. armv8a_secext = [k \in 1 .. 4 |-> armv8a_secext[k]]
    BY DEF armv8a_secext, Group
  <1>2. \A k \in 1 .. 4 : SystemEntry(ARCH_ARMV8A, armv8a_secext[k])
    BY Numbers, LenWidths, V8Plain, SMTT(120) DEF SystemEntry, V8Registers, armv8a_secext, Group,
       At, K, SEC
  <1> QED BY <1>1, <1>2, EntriesTable

LEMMA Armv8ADebug == SystemTable(ARCH_ARMV8A, armv8a_debug)
  <1>1. armv8a_debug = [k \in 1 .. 4 |-> armv8a_debug[k]]
    BY DEF armv8a_debug, Group
  <1>2. \A k \in 1 .. 4 : armv8a_debug[k].register \in V8Registers /\ armv8a_debug[k].range = 1
    BY Numbers, SMTT(120) DEF V8Registers, armv8a_debug, Group, At, K
  <1>3. \A k \in 1 .. 4 : armv8a_debug[k].name = armv8a_debug[k].register
    BY Numbers, SMTT(120) DEF armv8a_debug, Group, At, K
  <1>4. \A k \in 1 .. 4 : Len(armv8a_debug[k].rows) \in Nat
    BY Numbers, LenWidths, SMTT(120) DEF armv8a_debug, Group, At, K
  <1>5. \A k \in 1 .. 4 : SystemEntry(ARCH_ARMV8A, armv8a_debug[k])
    BY <1>2, <1>3, <1>4, V8Plain DEF SystemEntry
  <1> QED BY <1>1, <1>5, EntriesTable

LEMMA Armv8AVirtmem == SystemTable(ARCH_ARMV8A, armv8a_virtmem)
  <1>1. armv8a_virtmem = [k \in 1 .. 8 |-> armv8a_virtmem[k]]
    BY DEF armv8a_virtmem, Group
  <1>2. \A k \in 1 .. 8 :
          armv8a_virtmem[k].register \in V8Registers /\ armv8a_virtmem[k].range = 1
    BY Numbers, SMTT(120) DEF V8Registers, armv8a_virtmem, Group, At, K, U, Named, Each
  <1>3. \A k \in 1 .. 8 :
          armv8a_virtmem[k].name = armv8a_virtmem[k].register
          \/ <<ARCH_ARMV8A, armv8a_virtmem[k].name, armv8a_virtmem[k].register>> \in Renamed
    BY Numbers, SMTT(120) DEF armv8a_virtmem, Group, At, K, U, Named, Each, Renamed
  <1>4. \A k \in 1 .. 8 : Len(armv8a_virtmem[k].rows) \in Nat
    BY Numbers, LenWidths, SMTT(120) DEF armv8a_virtmem, Group, At, K, U, Named, Each
  <1>5. \A k \in 1 .. 8 : SystemEntry(ARCH_ARMV8A, armv8a_virtmem[k])
    BY <1>2, <1>3, <1>4, V8Plain DEF SystemEntry
  <1> QED BY <1>1, <1>5, EntriesTable

LEMMA Armv8APerfmon == SystemTable(ARCH_ARMV8A, armv8a_perfmon)
  <1>1. armv8a_perfmon = [k \in 1 .. 16 |-> armv8a_perfmon[k]]
    BY DEF armv8a_perfmon, Group
  <1>2. \A k \in 1 .. 16 :
          armv8a_perfmon[k].register \in V8Registers /\ armv8a_perfmon[k].range = 1
    BY Numbers, SMTT(120) DEF V8Registers, armv8a_perfmon, Group, At, K, NS
  <1>3. \A k \in 1 .. 16 : armv8a_perfmon[k].name = armv8a_perfmon[k].register
    BY Numbers, SMTT(120) DEF armv8a_perfmon, Group, At, K, NS
  <1>4. \A k \in 1 .. 16 : Len(armv8a_perfmon[k].rows) \in Nat
    BY Numbers, LenWidths, SMTT(120) DEF armv8a_perfmon, Group, At, K, NS
  <1>5. \A k \in 1 .. 16 : SystemEntry(ARCH_ARMV8A, armv8a_perfmon[k])
    BY <1>2, <1>3, <1>4, V8Plain DEF SystemEntry
  <1> QED BY <1>1, <1>5, EntriesTable

LEMMA Armv8AOther1 == SystemTable(ARCH_ARMV8A, armv8a_other_1)
  <1>1. armv8a_other_1 = [k \in 1 .. 4 |-> armv8a_other_1[k]]
    BY DEF armv8a_other_1, Group
  <1>2. \A k \in 1 .. 4 : SystemEntry(ARCH_ARMV8A, armv8a_other_1[k])
    BY Numbers, LenWidths, V8Plain, SMTT(120) DEF SystemEntry, V8Registers, armv8a_other_1,
       Group, At, K
  <1> QED BY <1>1, <1>2, EntriesTable

LEMMA Armv8AFault == SystemTable(ARCH_ARMV8A, armv8a_fault)
  <1>1. armv8a_fault = [k \in 1 .. 4 |-> armv8a_fault[k]]
    BY DEF armv8a_fault, Group
  <1>2. \A k \in 1 .. 4 : SystemEntry(ARCH_ARMV8A, armv8a_fault[k])
    BY Numbers, LenWidths, V8Plain, SMTT(120) DEF SystemEntry, V8Registers, armv8a_fault, Group,
       At, K, Named, Renamed
  <1> QED BY <1>1, <1>2, EntriesTable

LEMMA Armv8AThumb == SystemTable(ARCH_ARMV8A, armv8a_thumb)
  <1>1. armv8a_thumb = [k \in 1 .. 2 |-> armv8a_thumb[k]]
    BY DEF armv8a_thumb, Group
  <1>2. \A k \in 1 .. 2 : SystemEntry(ARCH_ARMV8A, armv8a_thumb[k])
    BY Numbers, LenWidths, V8Plain, SMTT(120) DEF SystemEntry, V8Registers, armv8a_thumb, Group,
       At, NS
  <1> QED BY <1>1, <1>2, EntriesTable

LEMMA Armv8AMisc == SystemTable(ARCH_ARMV8A, armv8a_misc)
  <1>1. armv8a_misc = [k \in 1 .. 3 |-> armv8a_misc[k]]
    BY DEF armv8a_misc, Group
  <1>2. \A k \in 1 .. 3 : SystemEntry(ARCH_ARMV8A, armv8a_misc[k])
    BY Numbers, LenWidths, V8Plain, SMTT(120) DEF SystemEntry, V8Registers, armv8a_misc, Group,
       At, K, U, Named, Renamed
  <1> QED BY <1>1, <1>2, EntriesTable

LEMMA Armv8AAddrtrans == SystemTable(ARCH_ARMV8A, armv8a_addrtrans)
  <1>1. armv8a_addrtrans = [k \in 1 .. 1 |-> armv8a_addrtrans[k]]
    BY DEF armv8a_addrtrans, Group
  <1>2. \A k \in 1 .. 1 : SystemEntry(ARCH_ARMV8A, armv8a_addrtrans[k])
    BY Numbers, LenWidths, V8Plain, SMTT(120) DEF SystemEntry, V8Registers, armv8a_addrtrans,
       Group, At, K
  <1> QED BY <1>1, <1>2, EntriesTable

LEMMA Armv8AOther2 == SystemTable(ARCH_ARMV8A, armv8a_other_2)
  <1>1. armv8a_other_2 = [k \in 1 .. 6 |-> armv8a_other_2[k]]
    BY DEF armv8a_other_2, Group
  <1>2. \A k \in 1 .. 6 : SystemEntry(ARCH_ARMV8A, armv8a_other_2[k])
    BY Numbers, LenWidths, V8Plain, SMTT(120) DEF SystemEntry, V8Registers, armv8a_other_2,
       Group, At, K, B
  <1> QED BY <1>1, <1>2, EntriesTable

\* The six tables are made of these groups.
LEMMA TableA7 == SystemTable(IMPL_CORTEX_A7, bitfield_table[1].table)
  BY BothTables, A7Ident, A7Other, A7Secext, A7ImplDef DEF bitfield_table

LEMMA TableA15 == SystemTable(IMPL_CORTEX_A15, bitfield_table[2].table)
  BY BothTables, A15Ident, A15Other, A15Secext, A15Fault, A15ImplDef1, A15ImplDef2
     DEF bitfield_table

LEMMA TableA53 == SystemTable(IMPL_CORTEX_A53, bitfield_table[3].table)
  BY BothTables, A53ImplDef1, A53Addrtrans, A53ImplDef2, A53Virtmem, A53Fault DEF bitfield_table

LEMMA TableA57 == SystemTable(IMPL_CORTEX_A57, bitfield_table[4].table)
  BY BothTables, A57Ident, A57Virtmem, A57Fault, A57Addrtrans, A57ImplDef1, A57ImplDef2
     DEF bitfield_table

LEMMA TableArmv7A == SystemTable(ARCH_ARMV7A, bitfield_table[5].table)
  BY BothTables, Armv7AIdent1, Armv7AIdent2, Armv7AFp, Armv7ASecext, Armv7ADebug, Armv7AVirtmem,
     Armv7APerfmon, Armv7AOther, Armv7AFault, Armv7AJazelle, Armv7AThumb, Armv7AMisc,
     Armv7AAddrtrans, Armv7APsr DEF bitfield_table

LEMMA TableArmv8A == SystemTable(ARCH_ARMV8A, bitfield_table[6].table)
  BY BothTables, Armv8AIdent1, Armv8AIdent2, Armv8AFp, Armv8ASecext, Armv8ADebug, Armv8AVirtmem,
     Armv8APerfmon, Armv8AOther1, Armv8AFault, Armv8AThumb, Armv8AMisc, Armv8AAddrtrans,
     Armv8AOther2 DEF bitfield_table

-----------------------------------------------------------------------------
(***************************************************************************)
(* The heap: what read_tables_to_memory makes of the tables.               *)
(***************************************************************************)
\* MS_SYSREG numbers the registers.
LEMMA CodeOfRegister ==
  ASSUME NEW n \in Registers
  PROVE  CodeOf(n) \in 1 .. 190 /\ MS_SYSREG[CodeOf(n)] = n
  <1>1. Len(MS_SYSREG) = 190
    BY DEF MS_SYSREG
  <1>2. PICK k \in 1 .. Len(MS_SYSREG) : MS_SYSREG[k] = n
    BY DEF Registers
  <1> QED BY <1>1, <1>2 DEF CodeOf

\* The parts of the tables, by number.
LEMMA TableParts ==
  /\ Len(bitfield_table) = 8
  /\ \A t \in 1 .. 6 :
        /\ bitfield_table[t].type \in {"TYPE_IMPL", "TYPE_ARCH"}
        /\ bitfield_table[t].part \in Arches \cup Cortexes
  /\ bitfield_table[7].type = "TYPE_MM" /\ bitfield_table[7].part = GICC_V2
  /\ bitfield_table[8].type = "TYPE_MM" /\ bitfield_table[8].part = GICD_V2
  <1>1. \A t \in 1 .. 6 : t \in {1, 2, 3, 4, 5, 6}
    OBVIOUS
  <1> QED BY <1>1 DEF bitfield_table, Arches, Cortexes

\* The first six tables are of system registers,
LEMMA SystemTables ==
  ASSUME NEW t \in 1 .. 6
  PROVE  SystemTable(bitfield_table[t].part, bitfield_table[t].table)
  <1>1. t \in {1, 2, 3, 4, 5, 6}
    OBVIOUS
  <1>2. /\ bitfield_table[1].part = IMPL_CORTEX_A7 /\ bitfield_table[2].part = IMPL_CORTEX_A15
        /\ bitfield_table[3].part = IMPL_CORTEX_A53 /\ bitfield_table[4].part = IMPL_CORTEX_A57
        /\ bitfield_table[5].part = ARCH_ARMV7A /\ bitfield_table[6].part = ARCH_ARMV8A
    BY DEF bitfield_table
  <1> QED BY <1>1, <1>2, TableA7, TableA15, TableA53, TableA57, TableArmv7A, TableArmv8A, Zenon

\* the last two of the GIC.
LEMMA DeviceTables ==
  ASSUME NEW t \in {7, 8}
  PROVE  DeviceTable(bitfield_table[t].part, bitfield_table[t].table)
  <1>1. /\ bitfield_table[7].part = GICC_V2 /\ bitfield_table[8].part = GICD_V2
        /\ bitfield_table[7].table = giccv2_gicc_1 \o giccv2_gicc_2
        /\ bitfield_table[8].table = gicdv2_gicd
    BY DEF bitfield_table
  <1> QED BY <1>1, Gicc, Gicd

\* An entry of a table, by number.
Entry(t, j) == bitfield_table[t].table[j]

\* Where the rows of the heap come from.
PlaceSet ==
    {p \in (1 .. 8) \X Nat \X Nat \X Nat :
        /\ p[2] \in 1 .. Len(bitfield_table[p[1]].table)
        /\ p[4] < Entry(p[1], p[2]).range}

\* An entry has a number of rows, and of registers.
LEMMA EntryNumbers ==
  ASSUME NEW t \in 1 .. 8
  PROVE  /\ Len(bitfield_table[t].table) \in Nat
         /\ \A j \in 1 .. Len(bitfield_table[t].table) :
               Len(Entry(t, j).rows) \in Nat /\ Entry(t, j).range \in 1 .. 256
  <1>1. \E S : /\ bitfield_table[t].table \in Seq(S)
               /\ \A e \in S : Len(e.rows) \in Nat /\ e.range \in 1 .. 256
    <2>1. CASE t \in 1 .. 6
      <3>1. PICK S : /\ bitfield_table[t].table \in Seq(S)
                     /\ \A e \in S : SystemEntry(bitfield_table[t].part, e)
        BY <2>1, SystemTables DEF SystemTable
      <3>2. \A e \in S : Len(e.rows) \in Nat /\ e.range = 1
        BY <3>1 DEF SystemEntry
      <3> QED BY <3>1, <3>2
    <2>2. CASE t \in {7, 8}
      <3>1. PICK S : /\ bitfield_table[t].table \in Seq(S)
                     /\ \A e \in S : DeviceEntry(bitfield_table[t].part, e)
        BY <2>2, DeviceTables DEF DeviceTable
      <3>2. \A n, r, o, c : <<n, r, o, c>> \in GicEntries(bitfield_table[t].part) => c \in 1 .. 256
        BY GicNumbers DEF GicEntries
      <3>3. \A e \in S : Len(e.rows) \in Nat /\ e.range \in 1 .. 256
        BY <3>1, <3>2 DEF DeviceEntry
      <3> QED BY <3>1, <3>3
    <2> QED BY <2>1, <2>2
  <1>2. PICK S : /\ bitfield_table[t].table \in Seq(S)
                 /\ \A e \in S : Len(e.rows) \in Nat /\ e.range \in 1 .. 256
    BY <1>1
  <1> DEFINE table == bitfield_table[t].table
  <1> HIDE DEF table
  <1>3. table \in Seq(S)
    BY <1>2 DEF table
  <1>4. Len(table) \in Nat /\ \A j \in 1 .. Len(table) : table[j] \in S
    BY <1>3, LenProperties, ElementOfSeq
  <1> QED BY <1>2, <1>4 DEF table, Entry

\* read_tables_to_memory goes through the tables and comes by no other entry.
LEMMA PlacesType == Places \in Seq(PlaceSet)
  <1> DEFINE tables == bitfield_table
             entry(t, j) == tables[t].table[j]
             OfEntry(t, j) ==
                 FlattenSeq([n \in 1 .. Len(entry(t, j).rows) |->
                     [k \in 1 .. Copies(entry(t, j).range) |-> <<t, j, n, k - 1>>]])
             OfTable(t) == FlattenSeq([j \in 1 .. Len(tables[t].table) |-> OfEntry(t, j)])
  <1>1. ASSUME NEW t \in 1 .. 8, NEW j \in 1 .. Len(bitfield_table[t].table)
        PROVE  OfEntry(t, j) \in Seq(PlaceSet)
    <2> DEFINE rows == Entry(t, j).rows
               range == Entry(t, j).range
               copies == Copies(range)
               Of(n) == [k \in 1 .. copies |-> <<t, j, n, k - 1>>]
    <2>1. Len(rows) \in Nat /\ range \in 1 .. 256 /\ Len(bitfield_table[t].table) \in Nat
      BY EntryNumbers
    <2>2. copies \in Nat /\ copies <= range
      <3> HIDE DEF range
      <3> QED BY <2>1, MaxRangeAssumption DEF Copies
    <2>3. ASSUME NEW n \in 1 .. Len(rows) PROVE Of(n) \in Seq(PlaceSet)
      <3>1. ASSUME NEW k \in 1 .. copies PROVE <<t, j, n, k - 1>> \in PlaceSet
        <4> HIDE DEF copies, rows, range
        <4>1. n \in Nat /\ j \in Nat /\ k - 1 \in Nat /\ k - 1 < range
          BY <2>1, <2>2
        <4> QED BY <4>1 DEF PlaceSet, range
      <3> HIDE DEF copies
      <3>2. Of(n) \in [1 .. copies -> PlaceSet]
        BY <3>1
      <3> HIDE DEF Of
      <3> QED BY <2>2, <3>2
    <2>4. [n \in 1 .. Len(rows) |-> Of(n)] \in Seq(Seq(PlaceSet))
      <3> HIDE DEF rows, Of
      <3>1. [n \in 1 .. Len(rows) |-> Of(n)] \in [1 .. Len(rows) -> Seq(PlaceSet)]
        BY <2>3
      <3> QED BY <2>1, <3>1
    <2>5. FlattenSeq([n \in 1 .. Len(rows) |-> Of(n)]) \in Seq(PlaceSet)
      <3> HIDE DEF rows, Of
      <3> QED BY <2>4, Flattened
    <2> QED BY <2>5 DEF Entry
  <1> HIDE DEF OfEntry
  <1>2. ASSUME NEW t \in 1 .. 8 PROVE OfTable(t) \in Seq(PlaceSet)
    <2> DEFINE n == Len(bitfield_table[t].table)
               ss == [j \in 1 .. n |-> OfEntry(t, j)]
    <2>1. n \in Nat
      BY EntryNumbers
    <2>2. ss \in [1 .. n -> Seq(PlaceSet)]
      BY <1>1
    <2>3. ss \in Seq(Seq(PlaceSet))
      <3> HIDE DEF n, ss
      <3> QED BY <2>1, <2>2
    <2>4. FlattenSeq(ss) \in Seq(PlaceSet)
      <3> HIDE DEF ss
      <3> QED BY <2>3, Flattened
    <2> QED BY <2>4
  <1> HIDE DEF OfTable
  <1>3. Len(tables) = 8
    BY TableParts
  <1>4. [t \in 1 .. Len(tables) |-> OfTable(t)] \in Seq(Seq(PlaceSet))
    <2>1. [t \in 1 .. 8 |-> OfTable(t)] \in [1 .. 8 -> Seq(PlaceSet)]
      BY <1>2
    <2>2. [t \in 1 .. 8 |-> OfTable(t)] \in Seq(Seq(PlaceSet))
      BY <2>1
    <2> HIDE DEF tables
    <2> QED BY <1>3, <2>2
  <1>5. Places = FlattenSeq([t \in 1 .. Len(tables) |-> OfTable(t)])
    BY DEF Places, OfTable, OfEntry
  <1> QED BY <1>4, <1>5, Flattened

\* A row of the heap is made from the entry that its place names.
LEMMA RowPlace ==
  ASSUME NEW i \in Indices
  PROVE  i \in Nat \ {0} /\ Places[i] \in PlaceSet /\ Rows[i] = HeapRow(Places[i], i - 1)
  <1> DEFINE n == Len(Places)
             f == [k \in 1 .. n |-> HeapRow(Places[k], k - 1)]
  <1>1. n \in Nat /\ \A k \in 1 .. n : Places[k] \in PlaceSet
    BY PlacesType, LenProperties, ElementOfSeq
  <1>2. Rows = f \o <<>>
    BY HeapAssumption DEF read_tables_to_memory
  <1>3. Rows = f
    <2> DEFINE T == {f[k] : k \in 1 .. n}
    <2>1. f \in [1 .. n -> T]
      OBVIOUS
    <2>2. f \in Seq(T)
      <3> HIDE DEF n, f, T
      <3> QED BY <1>1, <2>1
    <2> HIDE DEF f
    <2> QED BY <1>2, <2>2, ConcatEmptySeq
  <1>4. Len(f) = n
    <2> HIDE DEF n
    <2> QED BY <1>1
  <1>5. i \in 1 .. n
    <2> HIDE DEF n, f
    <2> QED BY <1>3, <1>4 DEF Indices
  <1> HIDE DEF n
  <1> QED BY <1>1, <1>3, <1>5

\* The part of a row is that of its table (MSCODE's |),
LEMMA OrZero ==
  ASSUME NEW p \in Parts
  PROVE  OrPart(p, 0) = p
  BY SMTT(120) DEF OrPart, BitOf, Parts

\* but for the one register of the CPU interface at 4096.
LEMMA OrOffsets == OrPart(GICC_V2, 0) = GICC_V2 /\ OrPart(GICC_V2, 2) = GICH_V2
                   /\ OrPart(GICD_V2, 0) = GICD_V2 /\ OrPart(GICD_V2, 1) = GICD_V2
  <1>1. OrPart(8, 0) = 8 /\ OrPart(8, 2) = 10
    BY SMTT(120) DEF OrPart, BitOf
  <1>2. OrPart(9, 0) = 9 /\ OrPart(9, 1) = 9
    BY SMTT(120) DEF OrPart, BitOf
  <1> QED BY <1>1, <1>2 DEF GICC_V2, GICD_V2, GICH_V2

\* What a row of the heap reads: a register by its code,
LEMMA SystemTarget ==
  ASSUME NEW i \in Indices, Rows[i].uid.part \in Arches \cup Cortexes
  PROVE  Target(i) = <<NotGic, Rows[i].reg.field>> /\ IsSystem(i)
  <1>1. Rows[i].uid.part \notin GicParts
    BY DEF Arches, Cortexes, GicParts, ARCH_ARMV7A, ARCH_ARMV8A, IMPL_CORTEX_A7,
           IMPL_CORTEX_A9, IMPL_CORTEX_A15, IMPL_CORTEX_A53, IMPL_CORTEX_A57,
           GICC_V2, GICD_V2, GICH_V2, GICV_V2
  <1> QED BY <1>1 DEF Target, IsSystem, GicTargets

\* or a word of the GIC by its offset.
LEMMA DeviceTarget ==
  ASSUME NEW i \in Indices, Rows[i].uid.part \in GicParts
  PROVE  Target(i) = <<Rows[i].uid.part, Rows[i].reg.field>> /\ ~IsSystem(i)
  <1>1. Target(i) = <<Rows[i].uid.part, Rows[i].reg.field>>
    BY DEF Target
  <1>2. Rows[i].uid.part # NotGic
    BY DEF GicParts, NotGic, GICC_V2, GICD_V2, GICH_V2, GICV_V2
  <1>3. Target(i) \in Targets
    BY RowType
  <1> QED BY <1>1, <1>2, <1>3 DEF IsSystem, GicTargets

\* A row of a processor's table or an architecture's.
OfEntry(i, e) ==
    /\ SystemEntry(Rows[i].uid.part, e)
    /\ Rows[i].type \in {"TYPE_IMPL", "TYPE_ARCH"}
    /\ Rows[i].uid.part \in Arches \cup Cortexes
    /\ Rows[i].reg = MSCODE(0, 0, CodeOf(e.register))
    /\ Rows[i].name = <<e.name, -1>>
    /\ IsSystem(i) /\ RegisterOf(i) = e.register

\* A row of the k-th register of an entry of a GIC table.
OfDevice(i, part, name, offset, range, k) ==
    /\ part \in {GICC_V2, GICD_V2}
    /\ \E register : <<name, register, offset, range>> \in GicEntries(part)
    /\ k \in 0 .. range - 1
    /\ Rows[i].type = "TYPE_MM"
    /\ Rows[i].uid.part = IF part = GICC_V2 /\ offset = 4096 THEN GICH_V2 ELSE part
    /\ Rows[i].reg = create_uid(part, offset, k)
    /\ Rows[i].name = <<name, IF range > 1 THEN k ELSE -1>>
    /\ ~IsSystem(i)
    /\ Target(i)[2] = offset + 4 * k

\* The heap's rows of the processors and architectures are what their entries say,
LEMMA SystemRows ==
  ASSUME NEW i \in Indices, Places[i][1] \in 1 .. 6
  PROVE  /\ OfEntry(i, Entry(Places[i][1], Places[i][2]))
         /\ Rows[i].uid.part = bitfield_table[Places[i][1]].part
  <1> DEFINE p == Places[i]
             t == bitfield_table[p[1]]
             e == Entry(p[1], p[2])
             code == CodeOf(e.register)
  <1>1. /\ p \in PlaceSet /\ Rows[i] = HeapRow(p, i - 1)
    BY RowPlace
  <1>2. p[2] \in 1 .. Len(t.table)
    BY <1>1 DEF PlaceSet
  <1>3. t.type \in {"TYPE_IMPL", "TYPE_ARCH"} /\ t.part \in Arches \cup Cortexes
    BY TableParts
  <1>4. Rows[i] = SystemRow(t, e, p[3])
    BY <1>1, <1>3 DEF HeapRow, Entry
  <1>5. SystemEntry(t.part, e)
    <2>1. PICK S : t.table \in Seq(S) /\ \A x \in S : SystemEntry(t.part, x)
      BY SystemTables DEF SystemTable
    <2> HIDE DEF t
    <2>2. t.table[p[2]] \in S
      BY <1>2, <2>1, ElementOfSeq
    <2> QED BY <2>1, <2>2 DEF t, Entry
  <1>6. code \in 1 .. 190 /\ MS_SYSREG[code] = e.register
    BY <1>5, CodeOfRegister DEF SystemEntry, Plain
  <1> HIDE DEF p, t, e
  <1>7. /\ Rows[i].type = t.type /\ Rows[i].uid.part = OrPart(t.part, code \div 2048)
        /\ Rows[i].reg = MSCODE(0, 0, code) /\ Rows[i].name = <<e.name, -1>>
    BY <1>4 DEF SystemRow, MSCODE, INSTRUCTION_RANGE
  <1>8. t.part \in Parts
    BY <1>3 DEF Parts, Arches, Cortexes, ARCH_ARMV7A, ARCH_ARMV8A, IMPL_CORTEX_A7,
           IMPL_CORTEX_A9, IMPL_CORTEX_A15, IMPL_CORTEX_A53, IMPL_CORTEX_A57
  <1>9. code \div 2048 = 0 /\ code % 65536 = code
    <2> HIDE DEF code
    <2> QED BY <1>6
  <1>10. Rows[i].uid.part = t.part
    BY <1>7, <1>8, <1>9, OrZero
  <1>11. MSCODE(0, 0, code).field = code
    BY <1>9 DEF MSCODE, FIELD_RANGE
  <1> HIDE DEF code
  <1>12. Target(i) = <<NotGic, code>> /\ IsSystem(i)
    BY <1>3, <1>7, <1>10, <1>11, SystemTarget
  <1>13. RegisterOf(i) = e.register
    BY <1>6, <1>12 DEF RegisterOf
  <1>14. OfEntry(i, e) /\ Rows[i].uid.part = t.part
    BY <1>3, <1>5, <1>7, <1>10, <1>12, <1>13 DEF OfEntry, code
  <1> QED BY <1>14 DEF p, t, e

\* and those of the GIC,
LEMMA DeviceRows ==
  ASSUME NEW i \in Indices, Places[i][1] \in {7, 8}
  PROVE  LET part == bitfield_table[Places[i][1]].part
             e == Entry(Places[i][1], Places[i][2])
         IN \E offset : /\ OfDevice(i, part, e.name, offset, e.range, Places[i][4])
                        /\ <<e.name, e.register, offset, e.range>> \in GicEntries(part)
  <1> DEFINE p == Places[i]
             t == bitfield_table[p[1]]
             part == t.part
             e == Entry(p[1], p[2])
             k == p[4]
             range == e.range
  <1>1. p \in PlaceSet /\ Rows[i] = HeapRow(p, i - 1)
    BY RowPlace
  <1>2. p[2] \in 1 .. Len(t.table) /\ k \in Nat /\ k < range
    BY <1>1 DEF PlaceSet
  <1>3. t.type = "TYPE_MM" /\ part \in {GICC_V2, GICD_V2} /\ GICC_V2 # GICD_V2
    BY TableParts DEF GICC_V2, GICD_V2
  <1>4. Rows[i] = DeviceRow(t, e, p[3], k, i - 1)
    BY <1>1, <1>3 DEF HeapRow, Entry
  <1>5. DeviceEntry(part, e)
    <2>1. PICK S : t.table \in Seq(S) /\ \A x \in S : DeviceEntry(part, x)
      BY DeviceTables DEF DeviceTable
    <2> HIDE DEF t
    <2>2. t.table[p[2]] \in S
      BY <1>2, <2>1, ElementOfSeq
    <2> QED BY <2>1, <2>2 DEF t, Entry
  <1> HIDE DEF p, t, e, k
  <1>6. PICK offset : <<e.name, e.register, offset, range>> \in GicEntries(part)
    BY <1>5 DEF DeviceEntry
  <1>7. MS_GIC(part, e.register) = offset
    BY <1>3, <1>6, Offsets DEF GicEntries
  <1>8. /\ Rows[i].type = "TYPE_MM" /\ Rows[i].uid.part = OrPart(part, offset \div 2048)
        /\ Rows[i].reg = create_uid(part, offset, k)
        /\ Rows[i].name = <<e.name, IF range > 1 THEN k ELSE -1>>
    BY <1>3, <1>4, <1>7 DEF DeviceRow, MSCODE, INSTRUCTION_RANGE
  <1>9. /\ offset \in Nat /\ range \in 1 .. 256 /\ offset + 4 * range <= 65536
        /\ part = GICC_V2 => offset < 2048 \/ offset = 4096
        /\ part = GICD_V2 => offset < 4096
    BY <1>3, <1>6, GicNumbers DEF GicEntries
  <1> HIDE DEF part, range
  <1>10. Rows[i].uid.part = IF part = GICC_V2 /\ offset = 4096 THEN GICH_V2 ELSE part
    <2>1. CASE part = GICC_V2 /\ offset < 2048
      <3>1. offset \div 2048 = 0
        BY <1>9, <2>1
      <3> QED BY <1>8, <1>9, <2>1, <3>1, OrOffsets
    <2>2. CASE part = GICC_V2 /\ offset = 4096
      <3>1. offset \div 2048 = 2
        BY <2>2
      <3> QED BY <1>8, <2>2, <3>1, OrOffsets
    <2>3. CASE part = GICD_V2
      <3>1. offset \div 2048 \in {0, 1}
        BY <1>9, <2>3
      <3> QED BY <1>3, <1>8, <2>3, <3>1, OrOffsets
    <2> QED BY <1>3, <1>9, <2>1, <2>2, <2>3
  <1>11. k \in 0 .. range - 1
    BY <1>2, <1>9
  <1>12. Rows[i].reg.field = offset + 4 * k
    <2>1. (offset + k * 4) % 65536 = offset + 4 * k
      BY <1>9, <1>11
    <2> QED BY <1>8, <2>1 DEF create_uid, MSCODE, FIELD_RANGE, MS_GICV2_ALIGNMENT
  <1>13. Rows[i].uid.part \in GicParts
    BY <1>3, <1>10 DEF GicParts
  <1>14. ~IsSystem(i) /\ Target(i)[2] = offset + 4 * k
    BY <1>12, <1>13, DeviceTarget
  <1>15. OfDevice(i, part, e.name, offset, range, k)
    <2>1. \E register : <<e.name, register, offset, range>> \in GicEntries(part)
      BY <1>6
    <2>2. part \in {GICC_V2, GICD_V2} /\ Rows[i].type = "TYPE_MM"
      BY <1>3, <1>8
    <2>3. Rows[i].reg = create_uid(part, offset, k)
      BY <1>8
    <2>4. Rows[i].name = <<e.name, IF range > 1 THEN k ELSE -1>>
      BY <1>8
    <2> QED BY <1>10, <1>11, <1>14, <2>1, <2>2, <2>3, <2>4 DEF OfDevice
  <1> QED BY <1>6, <1>15 DEF p, t, e, part, range, k

\* and there are no others.
LEMMA RowKinds ==
  ASSUME NEW i \in Indices
  PROVE  (\E e : OfEntry(i, e)) \/ (\E part, name, offset, range, k :
                                OfDevice(i, part, name, offset, range, k))
  <1>1. Places[i][1] \in 1 .. 8
    BY RowPlace DEF PlaceSet
  <1>2. Places[i][1] \in 1 .. 6 \/ Places[i][1] \in {7, 8}
    BY <1>1
  <1> QED BY <1>2, SystemRows, DeviceRows

-----------------------------------------------------------------------------
(***************************************************************************)
(* The invariants: what a find call knows of what it has read and matched. *)
(***************************************************************************)
\* What was read has a reader, or is of the GIC.
ReadableInv ==
    \A k \in 1 .. Len(results) :
        results[k].status = "SUCCESS" => Target(results[k].row) \in Handled \cup GicTargets

\* The matches are rows that were asked for and fit; a call with a value fails
\* without a match or with matches of two registers.
MatchInv ==
    /\ matches \subseteq {i \in Indices : Asked(i) /\ ForThisPart(i)}
    /\ pc \in {"match", "search"} => matches = {}
    /\ pc # "idle" => ret = "none"
    /\ call.calc /\ pc = "flatten" => list # {}
    /\ call.calc /\ ret = "fail" => matches = {} \/ ~OneRegister
TablesInv == ServiceInv /\ ReadableInv /\ MatchInv

\* The driver answers SUCCESS to a register with a row in func_table, and to the GIC.
LEMMA ReadableAnswer ==
  ASSUME NEW c \in CPUs, NEW old \in Slots, old.status = "NORESULT",
         NEW t \in Targets, NEW p \in PCpus,
         NEW a \in Svc!Slot([target |-> t, pcpu |-> p], c, old), a.status = "SUCCESS"
  PROVE  t \in Handled \cup GicTargets
  <1> SUFFICES ASSUME t \notin Handled, t \notin GicTargets PROVE FALSE
    OBVIOUS
  <1> DEFINE r == [target |-> t, pcpu |-> p]
  <1>1. old = [val |-> old.val, cpu |-> old.cpu, midr |-> old.midr, status |-> old.status]
    BY DEF Slots
  <1>2. r.target = t
    OBVIOUS
  <1> HIDE DEF r
  <1>3. \/ a = old
        \/ a \in Svc!Excuse(old)
        \/ a \in Svc!Truth(t, c, old)
    BY <1>2 DEF Svc!Slot, r
  <1>4. a # old
    OBVIOUS
  <1>5. a \notin Svc!Excuse(old)
    <2> SUFFICES ASSUME NEW s \in {"SMP", "SMP_SINGLE"}, a = [old EXCEPT !.status = s]
                 PROVE  FALSE
      BY DEF Svc!Excuse
    <2>1. a = [val |-> old.val, cpu |-> old.cpu, midr |-> old.midr, status |-> s]
      BY <1>1
    <2> QED BY <2>1
  <1>6. t # NoValue /\ t \notin Mapped
    BY ReadsAssumption
  <1>7. Svc!Truth(t, c, old) = {old}
    BY <1>6 DEF Svc!Truth
  <1> QED BY <1>3, <1>4, <1>5, <1>7

\* ReadableInv is kept by each step.
LEMMA ReadableStep ==
  ASSUME ServiceInv, ReadableInv, [Next]_vars
  PROVE  ReadableInv'
  <1>1. CASE Begins
    BY <1>1, EmptySeq DEF Begins, ReadableInv
  <1>2. CASE breakout_sort_ioctls \/ Quiet
    BY <1>2 DEF breakout_sort_ioctls, Quiet, ReadableInv, Target
  <1>3. CASE breakout_call_driver
    <2>0. PICK i, n : i = First(todo.driver) /\ n = Len(results)
      OBVIOUS
    <2>1. /\ i \in Indices /\ n \in Nat /\ CPUs = 0 .. MS_MAX_CPUS - 1 /\ MS_MAX_CPUS \in Nat
          /\ slots' \in [CPUs -> Slots] /\ Len(results') = n + MS_MAX_CPUS
          /\ \A k \in 1 .. n : results'[k] = results[k]
          /\ \A c \in CPUs : results'[n + 1 + c] = Result(i, slots'[c], "NS_PL1")
      BY <1>3, <2>0, DriverResults, AnswerAdds DEF ServiceInv, BreakoutInv, CPUs
    <2>2. ASSUME NEW c \in CPUs, slots'[c].status = "SUCCESS"
          PROVE  Target(i) \in Handled \cup GicTargets
      <3>1. /\ ask = [target |-> Target(i), pcpu |-> call.cpu] /\ slots[c].status = "NORESULT"
            /\ slots[c] \in Slots /\ call.cpu \in PCpus /\ Target(i) \in Targets
        BY <1>3, <2>0, <2>1, CallType, RowType
           DEF breakout_call_driver, ServiceInv, BreakoutInv, SlotsInv, TypeOK, ReadsTypeOK
      <3>2. slots'[c] \in Svc!Slot(ask, c, slots[c])
        BY <1>3 DEF breakout_call_driver, Answers
      <3> QED BY <2>2, <3>1, <3>2, ReadableAnswer
    <2>3. ASSUME NEW k \in 1 .. Len(results'), results'[k].status = "SUCCESS"
          PROVE  Target(results'[k].row) \in Handled \cup GicTargets
      <3>1. CASE k \in 1 .. n
        BY <2>0, <2>1, <2>3, <3>1 DEF ReadableInv
      <3>2. CASE k \notin 1 .. n
        <4>1. PICK c \in CPUs : k = n + 1 + c
          <5>1. k - (n + 1) \in CPUs
            BY <2>1, <3>2
          <5> QED BY <2>1, <5>1
        <4>2. results'[k].row = i /\ results'[k].status = slots'[c].status
          BY <2>1, <4>1, ResultType DEF Levels
        <4> QED BY <2>2, <2>3, <4>2
      <3> QED BY <3>1, <3>2
    <2> QED BY <2>3 DEF ReadableInv, Target
  <1>4. CASE breakout_call_usermode
    <2>0. PICK i, n : i = First(todo.user) /\ n = Len(results)
      OBVIOUS
    <2>1. CASE results' = results
      BY <2>1 DEF ReadableInv, Target
    <2>2. CASE results' # results
      <3>1. /\ n \in Nat /\ Len(results') = n + 1 /\ Target(i) \in Handled
            /\ \A k \in 1 .. n : results'[k] = results[k]
            /\ results'[n + 1].row = i
        BY <1>4, <2>0, <2>2, UserAdds
      <3>2. \A k \in 1 .. Len(results') : k \in 1 .. n \/ k = n + 1
        BY <3>1
      <3> QED BY <2>0, <3>1, <3>2 DEF ReadableInv, Target
    <2> QED BY <2>1, <2>2
  <1> QED BY <1>1, <1>2, <1>3, <1>4, StepKinds

\* MatchInv is kept by each step.
LEMMA MatchStep ==
  ASSUME ServiceInv, MatchInv, [Next]_vars
  PROVE  MatchInv'
  <1> USE DEF MatchInv
  <1>a. ASSUME UNCHANGED <<call, info, matches>>
        PROVE  (matches \subseteq {i \in Indices : Asked(i) /\ ForThisPart(i)})'
               /\ OneRegister' = OneRegister
    BY <1>a DEF Asked, ForThisPart, OneRegister
  <1>b. matches = {} => (matches' = matches =>
             (matches \subseteq {i \in Indices : Asked(i) /\ ForThisPart(i)})')
    OBVIOUS
  <1>1. CASE Find
    BY <1>1 DEF Find
  <1>2. CASE set_match_info
    BY <1>2 DEF set_match_info, reads
  <1>3. CASE set_match_info_unknown
    BY <1>a, <1>3 DEF set_match_info_unknown, Return
  <1>4. CASE breakout_search_table
    <2>1. \A i : Asked(i)' = Asked(i) /\ ForThisPart(i)' = ForThisPart(i)
      BY <1>4 DEF breakout_search_table, Asked, ForThisPart
    <2> QED BY <1>4, <2>1 DEF breakout_search_table
  <1>5. CASE breakout_sort_ioctls \/ driver_results \/ driver_done \/ user_done
             \/ breakout_parse_results \/ free_uninitialised \/ breakout_call_driver
             \/ breakout_call_usermode
    BY <1>a, <1>5 DEF breakout_sort_ioctls, driver_results, driver_done, user_done, reads,
       breakout_parse_results, free_uninitialised, breakout_call_driver, breakout_call_usermode
  <1>6. CASE parse_done
    BY <1>a, <1>6 DEF parse_done, reads, ServiceInv, BreakoutInv, FlowInv
  <1>7. CASE breakout_parse_results_value
    <2>1. matches # {}
      <3>1. matches = {} => {Rows[i].reg : i \in matches} = {}
        OBVIOUS
      <3> QED BY <1>7, <3>1, FS_EmptySet DEF breakout_parse_results_value, OneRegister
    <2>2. list' # {}
      <3>1. matches \in SUBSET Indices
        BY DEF ServiceInv, BreakoutInv, TypeOK, ReadsTypeOK
      <3>2. First(matches) \in matches
        BY <2>1, <3>1, FirstRow
      <3> QED BY <1>7, <2>1, <3>2 DEF breakout_parse_results_value
    <2> QED BY <1>a, <1>7, <2>2 DEF breakout_parse_results_value, reads
  <1>8. CASE breakout_value_validate_fails
    BY <1>a, <1>8 DEF breakout_value_validate_fails, Return
  <1>9. CASE flatten_results
    BY <1>a, <1>9 DEF flatten_results, Return
  <1>10. CASE UNCHANGED vars
    BY <1>a, <1>10 DEF vars, reads
  <1> QED BY <1>1, <1>2, <1>3, <1>4, <1>5, <1>6, <1>7, <1>8, <1>9, <1>10 DEF Next, Library

\* What was read can be read, matches were asked for, and a call with a value
\* fails only for want of one register (src/lib/src/parse_breakout.c).
THEOREM TablesInvariant == Spec => []TablesInv
  <1>1. Init => ReadableInv /\ MatchInv
    <2> SUFFICES ASSUME Init PROVE ReadableInv /\ MatchInv
      OBVIOUS
    <2>1. results = <<>> /\ Len(results) = 0 /\ pc = "idle" /\ matches = {} /\ ret = "none"
      BY EmptySeq DEF Init
    <2> QED BY <2>1 DEF ReadableInv, MatchInv
  <1>2. ServiceInv /\ ReadableInv /\ MatchInv /\ [Next]_vars => ReadableInv' /\ MatchInv'
    BY ReadableStep, MatchStep
  <1> QED BY <1>1, <1>2, ServiceInvariant, PTL DEF Spec, TablesInv

-----------------------------------------------------------------------------
(***************************************************************************)
(* The theorems.                                                           *)
(***************************************************************************)
\* A field that is shown is of a row that matched and was read.
LEMMA FoundRow ==
  ASSUME TablesInv, NEW e \in Found
  PROVE  /\ e.row \in Indices /\ e.row \in matches
         /\ ArchOf(e) = info.architecture /\ ArchOf(e) \in Arches
         /\ Target(e.row) \in Handled \cup GicTargets
  <1>1. /\ ServiceInv /\ BreakoutInv /\ e \in list /\ ~call.calc /\ e.status = "SUCCESS"
        /\ info.architecture = ArchOf(e) /\ info \in match_info
    BY DEF TablesInv, ServiceInv, Found, BreakoutInv, TypeOK, FlowTypeOK
  <1>2. /\ e.from \in 1 .. Len(results) /\ e.row \in Indices /\ e.row \in Kept(results[e.from])
        /\ results[e.from].status = "SUCCESS"
        /\ Target(e.row) = Target(results[e.from].row)
    BY <1>1, ListedResult
  <1>3. e.row \in matches
    BY <1>2 DEF Kept
  <1>4. info.architecture \in Arches
    BY <1>1 DEF match_info
  <1> QED BY <1>1, <1>2, <1>3, <1>4 DEF TablesInv, ReadableInv

\* A field of a system register is shown because its entry is in a table of
\* the architecture, and its register has a row in func_table.
LEMMA FoundEntry ==
  ASSUME TablesInv, NEW e \in FoundSystem
  PROVE  /\ e.row \in Indices /\ ArchOf(e) \in Arches
         /\ RegisterOf(e.row) \in func_table
         /\ \E x : OfEntry(e.row, x) /\ ArchOfPart(TableOf(e)) = ArchOf(e)
  <1>1. e \in Found /\ IsSystem(e.row)
    BY DEF FoundSystem
  <1>2. /\ e.row \in Indices /\ e.row \in matches /\ ArchOf(e) = info.architecture
        /\ ArchOf(e) \in Arches /\ Target(e.row) \in Handled \cup GicTargets
    BY <1>1, FoundRow
  <1>3. RegisterOf(e.row) \in func_table
    BY <1>1, <1>2, HandledAssumption DEF IsSystem, WithReader, RegisterOf
  <1>4. PICK x : OfEntry(e.row, x)
    BY <1>1, <1>2, RowKinds DEF OfDevice
  <1>5. ForThisPart(e.row)
    BY <1>2 DEF TablesInv, MatchInv
  <1>6. ArchOfPart(TableOf(e)) = ArchOf(e)
    <2> DEFINE part == Rows[e.row].uid.part
    <2>1. part \in Arches \cup Cortexes /\ Rows[e.row].type \in {"TYPE_IMPL", "TYPE_ARCH"}
      BY <1>4 DEF OfEntry
    <2>2. \/ Rows[e.row].type = "TYPE_IMPL" /\ ArchOf(e) = get_arch_from_impl(part)
          \/ Rows[e.row].type = "TYPE_ARCH" /\ ArchOf(e) = part
      BY <1>2, <1>5, <2>1 DEF ForThisPart
    <2>3. part \in Arches => get_arch_from_impl(part) \notin Arches
      BY DEF get_arch_from_impl, Arches, NoPart, ARCH_ARMV7A, ARCH_ARMV8A, IMPL_CORTEX_A7,
             IMPL_CORTEX_A9, IMPL_CORTEX_A15, IMPL_CORTEX_A53, IMPL_CORTEX_A57
    <2> QED BY <1>2, <2>1, <2>2, <2>3 DEF ArchOfPart, TableOf
  <1> QED BY <1>2, <1>3, <1>4, <1>6

\* No reader writes more than func_table has the caller pass, except two.
THEOREM ReadersStayInBounds == Spec => []NoOverrun
  <1>1. TablesInv => NoOverrun
    <2> SUFFICES ASSUME TablesInv, NEW e \in FoundSystem,
                        Reads(ArchOf(e), RegisterOf(e.row)) # "none"
                 PROVE  \/ WritesBits(ArchOf(e), RegisterOf(e.row))
                             <= FuncBits(ArchOf(e), RegisterOf(e.row))
                        \/ /\ ArchOf(e) = ARCH_ARMV8A
                           /\ RegisterOf(e.row) \in {"ACTLR", "MMFR0"}
      BY DEF NoOverrun
    <2> QED BY FoundEntry, ReadersFit
  <1> QED BY <1>1, TablesInvariant, PTL

\* A field that is shown was read by an instruction of its register's own,
\* but for the readers that the property names.
THEOREM RegistersHaveTheirInstruction == Spec => []OwnInstruction
  <1>1. TablesInv => OwnInstruction
    <2> SUFFICES ASSUME TablesInv, NEW e \in FoundSystem,
                        NEW arch, NEW n, NEW by, arch = ArchOf(e), n = RegisterOf(e.row),
                        by = Reads(arch, n)
                 PROVE  /\ by = "none" => arch = ARCH_ARMV8A /\ n \in Unread
                        /\ by # "none" =>
                             \A m \in ReadBy(arch, by) \ {n} :
                                \/ {m, n} \in Aliases
                                \/ arch = ARCH_ARMV7A /\ {m, n} \in Confused
      BY DEF OwnInstruction
    <2>1. PICK x : /\ OfEntry(e.row, x) /\ ArchOfPart(TableOf(e)) = arch
                   /\ n \in func_table /\ arch \in Arches
      BY FoundEntry
    <2>2. n = x.register /\ x.register \in Plain(TableOf(e))
      BY <2>1 DEF OfEntry, SystemEntry, TableOf
    <2>3. ASSUME by = "none" PROVE arch = ARCH_ARMV8A /\ n \in Unread
      <3>1. /\ HasReader(n) /\ Reader(n) \in Readers /\ Reader(n)[1] = n
        BY <2>1, AllHaveReaders DEF HasReader, Reader
      <3>2. InstructionOf(arch, Reader(n)) = "none"
        BY <2>3, <3>1 DEF Reads, InstructionOf
      <3> QED BY <2>1, <2>2, <3>1, <3>2 DEF Plain, HasBody
    <2>4. ASSUME by # "none", NEW m \in ReadBy(arch, by) \ {n}
          PROVE  {m, n} \in Aliases \/ (arch = ARCH_ARMV7A /\ {m, n} \in Confused)
      <3>1. Reader(n) \in Readers /\ Reader(n)[1] = n /\ by = InstructionOf(arch, Reader(n))
        BY <2>4, ReadsReader
      <3>2. PICK s \in Readers : s[1] = m /\ by = InstructionOf(arch, s)
        BY <2>4 DEF ReadBy, InstructionOf
      <3>3. CASE arch = ARCH_ARMV7A
        <4>1. {s[1], Reader(n)[1]} \in Aliases \cup Confused
          BY <2>4, <3>1, <3>2, <3>3, OwnOperands DEF InstructionOf
        <4> QED BY <3>1, <3>2, <3>3, <4>1
      <3>4. CASE arch # ARCH_ARMV7A
        <4>1. s[1] = Reader(n)[1]
          BY <2>4, <3>1, <3>2, <3>4, OwnNames DEF InstructionOf
        <4> QED BY <2>4, <3>1, <3>2, <4>1
      <3> QED BY <3>3, <3>4
    <2> QED BY <2>3, <2>4
  <1> QED BY <1>1, TablesInvariant, PTL

\* The registers of AArch64 that the tables give shorter names are read by
\* instructions that name the exception level.
LEMMA ShorterNames ==
  ASSUME NEW name, NEW n \in func_table, <<ARCH_ARMV8A, name, n>> \in Renamed
  PROVE  \/ <<name, Reads(ARCH_ARMV8A, n)>> \in ShortNames
         \/ <<name, n>> \in {<<"TTBR0", "TTBR1">>, <<"TTBR1", "TTBR0">>}
  <1>1. <<name, n>> \in {<<"ESR", "DFSR">>, <<"TCR", "TTBCR">>, <<"AFSR0", "ADFSR">>,
            <<"AFSR1", "AIFSR">>, <<"TPIDR", "TPIDRPRW">>, <<"TPIDRRO", "TPIDRURO">>,
            <<"TPIDR", "TPIDRURW">>, <<"TTBR0", "TTBR1">>, <<"TTBR1", "TTBR0">>}
    BY DEF Renamed, ARCH_ARMV7A, ARCH_ARMV8A, IMPL_CORTEX_A53, IMPL_CORTEX_A57
  <1>2. PICK r \in Readers : r[1] = n /\ Reads(ARCH_ARMV8A, n) = r[4]
    BY AllHaveReaders DEF HasReader, Reader, Reads, ARCH_ARMV7A, ARCH_ARMV8A
  <1>3. /\ r[1] = "DFSR" => r[4] = "ESR_EL1"
        /\ r[1] = "TTBCR" => r[4] = "TCR_EL1"
        /\ r[1] = "ADFSR" => r[4] = "AFSR0_EL1"
        /\ r[1] = "AIFSR" => r[4] = "AFSR1_EL1"
        /\ r[1] = "TPIDRPRW" => r[4] = "TPIDR_EL1"
        /\ r[1] = "TPIDRURO" => r[4] = "TPIDRRO_EL0"
        /\ r[1] = "TPIDRURW" => r[4] = "TPIDR_EL0"
    BY SMTT(120) DEF Readers, ident_c, virtmem_c, fault_c, perfmon_c, secext_c, other_c,
       addrtrans_c, fp_c, debug_c, misc_c, jazelle_c, thumb_c, impl_def_c, aarch64_c, psr_c
  <1> DEFINE by == Reads(ARCH_ARMV8A, n)
  <1>4. by = r[4] /\ n = r[1]
    BY <1>2
  <1> HIDE DEF by
  <1>5. <<name, by>> \in ShortNames
        \/ <<name, n>> \in {<<"TTBR0", "TTBR1">>, <<"TTBR1", "TTBR0">>}
    BY <1>1, <1>3, <1>4 DEF ShortNames
  <1> QED BY <1>5 DEF by

\* A field is shown under a name of the register that was read, but for the
\* two translation table bases of the ARMv8-A table.
THEOREM FieldsAreNamedTruly == Spec => []OtherNamesTrue
  <1>1. TablesInv => OtherNamesTrue
    <2> SUFFICES ASSUME TablesInv, NEW e \in FoundSystem
                 PROVE  \/ NamedTruly(e)
                        \/ /\ TableOf(e) = ARCH_ARMV8A
                           /\ RegisterOf(e.row) \in {"TTBR0", "TTBR1"}
      BY DEF OtherNamesTrue
    <2>1. PICK x : /\ OfEntry(e.row, x) /\ ArchOfPart(TableOf(e)) = ArchOf(e)
                   /\ RegisterOf(e.row) \in func_table
      BY FoundEntry
    <2>2. /\ RegisterOf(e.row) = x.register /\ Rows[e.row].name[1] = x.name
          /\ x.name = x.register \/ <<TableOf(e), x.name, x.register>> \in Renamed
      BY <2>1 DEF OfEntry, SystemEntry, TableOf
    <2>3. CASE x.name = x.register
      BY <2>2, <2>3 DEF NamedTruly, IsNameOf
    <2>4. CASE <<TableOf(e), x.name, x.register>> \in Renamed
      <3>1. CASE TableOf(e) = ARCH_ARMV7A
        <4>1. <<x.name, x.register>> \in {<<"TTBR0", "TTBR0LPAE">>, <<"TTBR1", "TTBR1LPAE">>}
          BY <2>4, <3>1 DEF Renamed, ARCH_ARMV7A, ARCH_ARMV8A, IMPL_CORTEX_A53, IMPL_CORTEX_A57
        <4> QED BY <2>2, <4>1 DEF NamedTruly, IsNameOf
      <3>2. CASE TableOf(e) = ARCH_ARMV8A
        <4>1. ArchOf(e) = ARCH_ARMV8A
          BY <2>1, <3>2 DEF ArchOfPart, Arches
        <4> QED BY <2>1, <2>2, <2>4, <3>2, <4>1, ShorterNames DEF NamedTruly, IsNameOf
      <3>3. CASE TableOf(e) \in {IMPL_CORTEX_A53, IMPL_CORTEX_A57}
        <4>1. ArchOf(e) = ARCH_ARMV8A
          BY <2>1, <3>3, PartArches
        <4>2. x.name = "ESR" /\ x.register = "DFSR"
          BY <2>4, <3>3 DEF Renamed, ARCH_ARMV7A, ARCH_ARMV8A, IMPL_CORTEX_A53, IMPL_CORTEX_A57
        <4>3. <<ARCH_ARMV8A, x.name, x.register>> \in Renamed
          BY <4>2 DEF Renamed
        <4>4. <<x.name, Reads(ARCH_ARMV8A, x.register)>> \in ShortNames
          BY <2>1, <2>2, <4>2, <4>3, ShorterNames
        <4> QED BY <2>2, <4>1, <4>4 DEF NamedTruly, IsNameOf
      <3> QED BY <2>4, <3>1, <3>2, <3>3 DEF Renamed
    <2> QED BY <2>2, <2>3, <2>4
  <1> QED BY <1>1, TablesInvariant, PTL

\* Rows of system registers with one name are of one register, unless it is
\* shared,
LEMMA OneNameOneEntry ==
  ASSUME NEW i \in Indices, NEW j \in Indices, Rows[i].name = Rows[j].name,
         Rows[i].name[1] \notin Shared, NEW x, NEW y, OfEntry(i, x), OfEntry(j, y)
  PROVE  Rows[i].reg = Rows[j].reg
  <1>a. Rows[i].name = <<x.name, -1>> /\ Rows[j].name = <<y.name, -1>>
    BY DEF OfEntry
  <1>b. <<x.name, -1>>[1] = x.name /\ <<y.name, -1>>[1] = y.name
    OBVIOUS
  <1>c. x.name \notin Shared /\ y.name = x.name
    BY <1>a, <1>b, Zenon
  <1>1. /\ x.register \notin NewNames /\ y.register \notin NewNames
        /\ x.name = x.register \/ <<Rows[i].uid.part, x.name, x.register>> \in Renamed
        /\ y.name = y.register \/ <<Rows[j].uid.part, y.name, y.register>> \in Renamed
    BY DEF OfEntry, SystemEntry, Plain
  <1>2. ASSUME NEW part, NEW name, NEW register, <<part, name, register>> \in Renamed,
               name \notin Shared
        PROVE  <<name, register>> \in {<<"ESR", "DFSR">>, <<"TCR", "TTBCR">>, <<"AFSR0", "ADFSR">>,
                   <<"AFSR1", "AIFSR">>, <<"TPIDRRO", "TPIDRURO">>}
    BY <1>2 DEF Renamed, Shared
  <1>3. x.register = y.register
    BY <1>c, <1>1, <1>2 DEF NewNames
  <1> QED BY <1>3 DEF OfEntry

\* and rows of the GIC.
LEMMA OneNameOneDevice ==
  ASSUME NEW i \in Indices, NEW j \in Indices, Rows[i].name = Rows[j].name,
         Rows[i].name[1] \notin Shared,
         NEW part, NEW name, NEW offset, NEW range, NEW k,
         OfDevice(i, part, name, offset, range, k),
         NEW p, NEW n, NEW o, NEW r, NEW l, OfDevice(j, p, n, o, r, l)
  PROVE  Rows[i].reg = Rows[j].reg
  <1>1. PICK s, t : /\ <<name, s, offset, range>> \in GicEntries(part)
                    /\ <<n, t, o, r>> \in GicEntries(p)
    <2>1. PICK s : <<name, s, offset, range>> \in GicEntries(part)
      BY DEF OfDevice
    <2>2. PICK t : <<n, t, o, r>> \in GicEntries(p)
      BY DEF OfDevice
    <2> QED BY <2>1, <2>2
  <1>2. /\ part \in {GICC_V2, GICD_V2} /\ p \in {GICC_V2, GICD_V2} /\ GICC_V2 # GICD_V2
        /\ k \in 0 .. range - 1 /\ l \in 0 .. r - 1
        /\ Rows[i].reg = create_uid(part, offset, k) /\ Rows[j].reg = create_uid(p, o, l)
    BY DEF OfDevice, GICC_V2, GICD_V2
  <1>3. /\ name = n /\ name # "GICC_RESERVED"
        /\ (IF range > 1 THEN k ELSE -1) = (IF r > 1 THEN l ELSE -1)
    <2> DEFINE a == IF range > 1 THEN k ELSE -1
               b == IF r > 1 THEN l ELSE -1
    <2>1. Rows[i].name = <<name, a>> /\ Rows[j].name = <<n, b>>
      BY DEF OfDevice
    <2> HIDE DEF a, b
    <2>2. /\ <<name, a>>[1] = name /\ <<n, b>>[1] = n
          /\ <<name, a>>[2] = a /\ <<n, b>>[2] = b
      OBVIOUS
    <2>3. name \notin Shared /\ name = n /\ a = b
      BY <2>1, <2>2, Zenon
    <2> QED BY <2>3 DEF Shared, a, b
  <1>4. part = p /\ offset = o /\ range = r
    BY <1>1, <1>2, <1>3, GicNames DEF GicEntries
  <1>5. range \in 1 .. 256
    BY <1>1, GicNumbers DEF GicEntries
  <1>6. k = l
    BY <1>2, <1>3, <1>4, <1>5
  <1> QED BY <1>2, <1>4, <1>6

\* A call that supplies a value for a register's name fails only if no row has
\* the name or if registers share it (find_breakout with calc).
THEOREM SuppliedNamesAreDecoded == Spec => []CalcWorks
  <1>1. TablesInv => CalcWorks
    <2> SUFFICES ASSUME TablesInv, call.calc, ret = "fail", call.name # NoName,
                        call.name[1] \notin Shared, matches # {}
                 PROVE  FALSE
      BY DEF CalcWorks
    <2>1. call \in Requests /\ matches \subseteq Indices /\ (\A i \in matches : Asked(i))
      BY DEF TablesInv, MatchInv, ServiceInv, BreakoutInv, TypeOK, FlowTypeOK, ReadsTypeOK
    <2>2. call.uid = NoUid /\ call.group = NoGroup
      BY <2>1, NamedAssumption
    <2>3. ASSUME NEW i \in matches PROVE Rows[i].name = call.name
      <3>1. Rows[i].uid # NoUid
        BY <2>1, <2>3, RowType DEF Row
      <3>2. Rows[i].group # NoGroup
        BY <2>1, <2>3, RowsAssumption
      <3> QED BY <2>1, <2>2, <3>1, <3>2 DEF Asked
    <2>4. ASSUME NEW i \in matches, NEW j \in matches PROVE Rows[i].reg = Rows[j].reg
      <3>1. Rows[i].name = Rows[j].name /\ Rows[i].name[1] \notin Shared
        BY <2>3
      <3>2. (Target(i) \in GicTargets) = (Target(j) \in GicTargets)
        BY <2>1, AllGicOrNone
      <3>3. CASE IsSystem(i)
        <4>1. (\E x : OfEntry(i, x)) /\ (\E y : OfEntry(j, y))
          BY <2>1, <3>2, <3>3, RowKinds DEF OfDevice, IsSystem
        <4> QED BY <2>1, <3>1, <4>1, OneNameOneEntry
      <3>4. CASE ~IsSystem(i)
        <4>1. ~IsSystem(j)
          BY <3>2, <3>4 DEF IsSystem
        <4>2. PICK part, name, offset, range, k : OfDevice(i, part, name, offset, range, k)
          BY <2>1, <3>4, RowKinds DEF OfEntry
        <4>3. PICK p, n, o, r, l : OfDevice(j, p, n, o, r, l)
          BY <2>1, <4>1, RowKinds DEF OfEntry
        <4> QED BY <2>1, <3>1, <4>2, <4>3, OneNameOneDevice
      <3> QED BY <3>3, <3>4
    <2>5. PICK i : i \in matches
      OBVIOUS
    <2>6. {Rows[j].reg : j \in matches} = {Rows[i].reg}
      BY <2>4, <2>5
    <2>7. OneRegister
      BY <2>6, FS_Singleton DEF OneRegister
    <2> QED BY <2>7 DEF TablesInv, MatchInv
  <1> QED BY <1>1, TablesInvariant, PTL

\* The entries of a GIC table do not overlap, but for those named.
LEMMA EntriesApart ==
  ASSUME NEW part \in {GICC_V2, GICD_V2},
         NEW n, NEW r, NEW o, NEW c, <<n, r, o, c>> \in GicEntries(part),
         NEW m, NEW s, NEW p, NEW d, <<m, s, p, d>> \in GicEntries(part),
         NEW k \in 0 .. c - 1, NEW l \in 0 .. d - 1, o + 4 * k = p + 4 * l
  PROVE  n = m \/ n \in Twice \/ m \in Twice
  <1>1. GICC_V2 # GICD_V2
    BY DEF GICC_V2, GICD_V2
  <1>2. o \in Nat /\ c \in 1 .. 256 /\ p \in Nat /\ d \in 1 .. 256
    BY GicNumbers DEF GicEntries
  <1>3. ~ (o + 4 * c <= p) /\ ~ (p + 4 * d <= o)
    BY <1>2
  <1> QED BY <1>1, <1>3, GicApart DEF GicEntries

\* The entries of a GIC table.
LEMMA DeviceEntryOf ==
  ASSUME NEW t \in DOMAIN bitfield_table, bitfield_table[t].part \in {GICC_V2, GICD_V2},
         NEW j \in DOMAIN bitfield_table[t].table
  PROVE  DeviceEntry(bitfield_table[t].part, Entry(t, j))
  <1>1. t \in 1 .. 8
    <2>1. DOMAIN bitfield_table = 1 .. 8
      BY DEF bitfield_table
    <2> QED BY <2>1
  <1>2. t \in {7, 8}
    <2>1. bitfield_table[t].part \notin Arches \cup Cortexes
      BY DEF Arches, Cortexes, ARCH_ARMV7A, ARCH_ARMV8A, IMPL_CORTEX_A7, IMPL_CORTEX_A9,
             IMPL_CORTEX_A15, IMPL_CORTEX_A53, IMPL_CORTEX_A57, GICC_V2, GICD_V2
    <2>2. t \notin 1 .. 6
      BY <2>1, TableParts
    <2> QED BY <1>1, <2>2
  <1>3. PICK S : /\ bitfield_table[t].table \in Seq(S)
                 /\ \A e \in S : DeviceEntry(bitfield_table[t].part, e)
    BY <1>2, DeviceTables DEF DeviceTable
  <1> DEFINE table == bitfield_table[t].table
  <1> HIDE DEF table
  <1>4. table \in Seq(S) /\ j \in DOMAIN table
    BY <1>3 DEF table
  <1>5. table[j] \in S
    BY <1>4, LenProperties, ElementOfSeq
  <1> QED BY <1>3, <1>5 DEF table, Entry

\* A GIC register that is shown is not in an array of another name, apart
\* from those that the distributor's map has twice.
THEOREM DevicesOverlapNowhereElse == Spec => []GicWordOnce
  <1>1. TablesInv => GicWordOnce
    <2> SUFFICES ASSUME TablesInv, NEW e \in Found \ FoundSystem,
                        NEW t \in DOMAIN bitfield_table, bitfield_table[t].part = TableOf(e),
                        NEW j \in DOMAIN bitfield_table[t].table,
                        Target(e.row)[2] \in Words(TableOf(e), Entry(t, j))
                 PROVE  \/ Entry(t, j).name = Rows[e.row].name[1]
                        \/ {Entry(t, j).name, Rows[e.row].name[1]} \cap Twice # {}
      BY Zenon DEF GicWordOnce, Entry
    <2> DEFINE other == Entry(t, j)
    <2>1. e.row \in Indices /\ ~IsSystem(e.row)
      BY FoundRow DEF FoundSystem
    <2>2. PICK part, name, offset, range, k : OfDevice(e.row, part, name, offset, range, k)
      BY <2>1, RowKinds DEF OfEntry
    <2>3. Rows[e.row].name[1] = name
      <3>1. Rows[e.row].name = <<name, IF range > 1 THEN k ELSE -1>>
        BY <2>2 DEF OfDevice
      <3> QED BY <3>1
    <2>4. /\ part \in {GICC_V2, GICD_V2} /\ k \in 0 .. range - 1
          /\ Target(e.row)[2] = offset + 4 * k
          /\ TableOf(e) \in {part, GICH_V2}
      BY <2>2 DEF OfDevice, TableOf
    <2>5. TableOf(e) = part
      <3>1. \A u \in DOMAIN bitfield_table : bitfield_table[u].part # GICH_V2
        <4>1. \A u \in 1 .. 8 : u \in 1 .. 6 \/ u = 7 \/ u = 8
          OBVIOUS
        <4>2. DOMAIN bitfield_table = 1 .. 8
          BY DEF bitfield_table
        <4> QED BY <4>1, <4>2, TableParts
              DEF Arches, Cortexes, ARCH_ARMV7A, ARCH_ARMV8A, IMPL_CORTEX_A7, IMPL_CORTEX_A9,
                  IMPL_CORTEX_A15, IMPL_CORTEX_A53, IMPL_CORTEX_A57, GICC_V2, GICD_V2, GICH_V2
      <3> QED BY <2>4, <3>1
    <2>6. PICK r : <<name, r, offset, range>> \in GicEntries(part)
      BY <2>2 DEF OfDevice
    <2>7. DeviceEntry(part, other)
      BY <2>4, <2>5, DeviceEntryOf
    <2> HIDE DEF other
    <2>8. PICK o : <<other.name, other.register, o, other.range>> \in GicEntries(part)
      BY <2>7 DEF DeviceEntry
    <2>9. MS_GIC(part, other.register) = o
      BY <2>4, <2>8, Offsets DEF GicEntries, GICC_V2, GICD_V2
    <2>10. PICK l \in 0 .. other.range - 1 : offset + 4 * k = o + l * 4
      BY <2>4, <2>5, <2>9 DEF Words, other, MS_GICV2_ALIGNMENT
    <2>11. o \in Nat /\ l \in Nat /\ offset + 4 * k = o + 4 * l
      <3>1. o \in Nat /\ other.range \in 1 .. 256
        BY <2>4, <2>8, GicNumbers DEF GicEntries
      <3> QED BY <2>10, <3>1
    <2>12. name = other.name \/ name \in Twice \/ other.name \in Twice
      <3>1. part \in {GICC_V2, GICD_V2} /\ k \in 0 .. range - 1
        BY <2>4
      <3> QED BY <3>1, <2>6, <2>8, <2>10, <2>11, EntriesApart, Zenon
    <2> QED BY <2>3, <2>12 DEF other
  <1> QED BY <1>1, TablesInvariant, PTL
=============================================================================
