------------------------------- MODULE Tables -------------------------------
(***************************************************************************)
(* Breakout with the tables, the readers and func_table of the program     *)
(* (TableHeap).  What a register holds is 1 in every bit that its reader   *)
(* can deliver, so that a bit that no field shows is missing.              *)
(***************************************************************************)
EXTENDS TableHeap, Breakout

\* The rows are those that the program makes of its tables.
ASSUME HeapAssumption == Rows = read_tables_to_memory

\* The registers with a row in func_table.
WithReader == {t \in Targets \ GicTargets : MS_SYSREG[t[2]] \in func_table}
ASSUME HandledAssumption == Handled = WithReader

\* The CPUs of a board are of one architecture, and what a register holds is
\* what its reader delivers there.
ASSUME BoardsAssumption ==
    \A b \in Boards : \E a \in Arches : \A c \in CPUs :
        /\ get_arch_from_midr(Part[b][c]) \in {a, NoPart}
        /\ \A t \in Targets : Contents[b][<<t, c>>] \subseteq
              IF t \in GicTargets THEN 0 .. 31 ELSE Delivered(a, MS_SYSREG[t[2]])

RegisterOf(i) == MS_SYSREG[Target(i)[2]]
IsSystem(i) == Target(i) \notin GicTargets
ArchOf(e) == get_arch_from_midr(Part[board][e.cpu])
TableOf(e) == Rows[e.row].uid.part

\* What a call that returned has read, if the user named the architecture of
\* the board.
Found ==
    {e \in list : /\ ret = "ok" /\ e.status = "SUCCESS" /\ ~call.calc
                  /\ info.architecture = ArchOf(e)}
FoundSystem == {e \in Found : IsSystem(e.row)}

\* Two names of one register.
Aliases == {{"PRRR", "MAIR0"}, {"NMRR", "MAIR1"}}
\* Readers with the instruction of another register (src/common/thumb.c:11,
\* debug.c, perfmon.c), on AArch32.
Confused == {{"TEECR", "DBGDIDR"}, {"DBGDSCR", "DBGDRAR"}, {"PMINTENCLR", "PMINTENSET"}}
\* Readers without a body on AArch64 of registers in its tables.
Unread == {"TLBTR", "TCMTR", "FPSID", "FPSCR", "FPEXC", "SCR", "SDER", "DBGDIDR",
           "TEECR", "TEEHBR"}

\* A field that is shown was read by an instruction, and by one that reads no
\* other register, except for the readers named above (the readers of
\* src/common behind func_table).
OwnInstruction ==
    \A v \in {<<ArchOf(e), RegisterOf(e.row)>> : e \in FoundSystem} :
        LET by == Reads(v[1], v[2]) IN
        /\ by = "none" => v[1] = ARCH_ARMV8A /\ v[2] \in Unread
        /\ by # "none" =>
             \A m \in ReadBy(v[1], by) \ {v[2]} :
                \/ {m, v[2]} \in Aliases
                \/ v[1] = ARCH_ARMV7A /\ {m, v[2]} \in Confused

\* AArch64 registers by their names without the exception level.
ShortNames ==
    {<<"ESR", "ESR_EL1">>, <<"TCR", "TCR_EL1">>, <<"AFSR0", "AFSR0_EL1">>,
     <<"AFSR1", "AFSR1_EL1">>, <<"TPIDR", "TPIDR_EL0">>, <<"TPIDR", "TPIDR_EL1">>,
     <<"TPIDRRO", "TPIDRRO_EL0">>}

\* The names by which a register may be shown: that of its code, or that of
\* the AArch64 register that is read; the 64-bit views of AArch32's
\* translation table bases go by the names of the registers.
IsNameOf(name, arch, n) ==
    \/ name = n
    \/ <<name, Reads(arch, n)>> \in ShortNames
    \/ <<name, n>> \in {<<"TTBR0", "TTBR0LPAE">>, <<"TTBR1", "TTBR1LPAE">>}
NamedTruly(e) == IsNameOf(Rows[e.row].name[1], ArchOf(e), RegisterOf(e.row))

\* A field is shown under a name of the register that was read (README: "the
\* ARMv7A name is used", or else that of AArch64).
NamesTrue ==
    \A e \in FoundSystem : NamedTruly(e)

\* The same but for the rows of the ARMv8-A table that have the two
\* translation table bases the wrong way round (bitfield_armv8a.c:464-468).
OtherNamesTrue ==
    \A e \in FoundSystem :
        \/ NamedTruly(e)
        \/ TableOf(e) = ARCH_ARMV8A /\ RegisterOf(e.row) \in {"TTBR0", "TTBR1"}

\* Rows that leave bits out or show them twice (src/lib/src/bitfields).
Irregular ==
    (Cortexes \X {"CBAR"}) \cup {<<IMPL_CORTEX_A15, r>> : r \in {"CPUMERRSR", "L2MERRSR"}}
    \cup {<<IMPL_CORTEX_A53, "DFSR">>, <<GICD_V2, "GICD_RESERVED_04">>}
    \cup {<<ARCH_ARMV7A, r>> : r \in {"CONTEXTIDR", "FPEXC", "FPSID", "PAR"}}
    \cup {<<ARCH_ARMV8A, r>> : r \in {"CONTEXTIDR", "CPACR", "MVFR2"}}

KeyOf(e) == <<TableOf(e), IF IsSystem(e.row) THEN RegisterOf(e.row) ELSE Rows[e.row].name[1]>>
ShownBits(e) == {Rows[e.row].shift + b : b \in e.value}

\* The fields that a call shows with e: those that e's table gives the register,
\* at the same level and of the same CPU.
With(e) ==
    {f \in Found : /\ f.epl = e.epl /\ f.cpu = e.cpu /\ TableOf(f) = TableOf(e)
                   /\ Target(f.row) = Target(e.row) /\ Rows[f.row].name = Rows[e.row].name}

\* Every bit of what was read of a register that a call asked for by name or
\* group is in exactly one of the fields that a table gives the register (in
\* the run each bit that a reader delivers is 1, so that one that is not shown
\* is missed).
EveryBitOnce ==
    ~call.noparse /\ call.uid = NoUid =>
        \A e \in {e \in Found : KeyOf(e) \notin Irregular} :
            /\ \E c \in CPUs :
                  /\ e.epl = "NS_PL1" => c = e.cpu
                  /\ ValueBits(<<Target(e.row), c>>) = UNION {ShownBits(f) : f \in With(e)}
            /\ \A f \in With(e) \ {e} : ShownBits(e) \cap ShownBits(f) = {}

\* Registers with more fields than their readers deliver: an unsigned int for
\* 64 bits on AArch64, or field widths that add up to too much on AArch32.
Short == [a \in Arches |-> IF a = ARCH_ARMV8A THEN {"ACTLR", "MPIDR", "RVBAR"} \cup Unread
                                              ELSE {"CPUMERRSR", "L2MERRSR", "FCSEIDR"}]

\* Otherwise no field has bits that the register's reader does not deliver.
FieldsFull ==
    ~call.noparse =>
        \A e \in FoundSystem :
            (\A c \in CPUs : ValueBits(<<Target(e.row), c>>)
                                = Delivered(ArchOf(e), RegisterOf(e.row))) =>
                \/ e.value = 0 .. Rows[e.row].width - 1
                \/ RegisterOf(e.row) \in Short[ArchOf(e)]

\* No reader writes more than func_table has the caller pass, except two that
\* write a long through a pointer to an unsigned int on AArch64
\* (src/common/impl_def.c:47, src/common/ident.c:230).
NoOverrun ==
    \A v \in {<<ArchOf(e), RegisterOf(e.row)>> : e \in FoundSystem} :
        Reads(v[1], v[2]) # "none" =>
            \/ WritesBits(v[1], v[2]) <= FuncBits(v[1], v[2])
            \/ v[1] = ARCH_ARMV8A /\ v[2] \in {"ACTLR", "MMFR0"}

\* Names that the tables give to two registers.
Shared == {"TTBR0", "TTBR1", "TPIDR", "GICC_RESERVED"}

\* A register's name with a value decodes the value (README:191 "Use with
\* --register"), unless it names two registers (breakout_value_validate).
CalcWorks ==
    /\ call.calc /\ ret = "fail"
    /\ call.name # NoName /\ call.name[1] \notin Shared
    => matches = {}

\* What the distributor's map has twice (src/common/parse.h:431, 435).
Twice == {"GICD_RESERVED_02", "GICD_IMP_DEF_01", "GICD_ICPIDR2"}

\* A GIC register that is shown is not also in an array of another name, over
\* its full range, apart from those.
GicWordOnce ==
    \A e \in Found \ FoundSystem :
        \A t \in {t \in DOMAIN bitfield_table : bitfield_table[t].part = TableOf(e)} :
            \A k \in DOMAIN bitfield_table[t].table :
                LET other == bitfield_table[t].table[k] IN
                \/ other.name = Rows[e.row].name[1]
                \/ Target(e.row)[2] \notin Words(TableOf(e), other)
                \/ {other.name, Rows[e.row].name[1]} \cap Twice # {}
=============================================================================
