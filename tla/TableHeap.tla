------------------------------ MODULE TableHeap ------------------------------
(***************************************************************************)
(* bitfield_table in src/lib/src/parse_breakout.c, what                    *)
(* read_tables_to_memory makes of it, and what the readers deliver.        *)
(*                                                                         *)
(* MaxRange bounds how many registers of a GIC array get rows.  It moves   *)
(* only the row numbers that make the uids of array rows unique.           *)
(***************************************************************************)
EXTENDS Codes, FieldTables, Readers, SequencesExt

CONSTANT MaxRange
ASSUME MaxRangeAssumption == MaxRange \in Nat \ {0, 1}

bitfield_table ==
    <<[type |-> "TYPE_IMPL", part |-> IMPL_CORTEX_A7,
       table |-> a7_ident \o a7_other \o a7_secext \o a7_impl_def],
      [type |-> "TYPE_IMPL", part |-> IMPL_CORTEX_A15,
       table |-> a15_ident \o a15_other \o a15_secext \o a15_fault \o a15_impl_def_1
                 \o a15_impl_def_2],
      [type |-> "TYPE_IMPL", part |-> IMPL_CORTEX_A53,
       table |-> a53_impl_def_1 \o a53_addrtrans \o a53_impl_def_2 \o a53_virtmem
                 \o a53_fault],
      [type |-> "TYPE_IMPL", part |-> IMPL_CORTEX_A57,
       table |-> a57_ident \o a57_virtmem \o a57_fault \o a57_addrtrans
                 \o a57_impl_def_1 \o a57_impl_def_2],
      [type |-> "TYPE_ARCH", part |-> ARCH_ARMV7A,
       table |-> armv7a_ident_1 \o armv7a_ident_2 \o armv7a_fp \o armv7a_secext \o armv7a_debug
                 \o armv7a_virtmem \o armv7a_perfmon \o armv7a_other \o armv7a_fault
                 \o armv7a_jazelle \o armv7a_thumb \o armv7a_misc
                 \o armv7a_addrtrans \o armv7a_psr],
      [type |-> "TYPE_ARCH", part |-> ARCH_ARMV8A,
       table |-> armv8a_ident_1 \o armv8a_ident_2 \o armv8a_fp \o armv8a_secext \o armv8a_debug
                 \o armv8a_virtmem \o armv8a_perfmon \o armv8a_other_1
                 \o armv8a_fault \o armv8a_thumb \o armv8a_misc
                 \o armv8a_addrtrans \o armv8a_other_2],
      [type |-> "TYPE_MM", part |-> GICC_V2, table |-> giccv2_gicc_1 \o giccv2_gicc_2],
      [type |-> "TYPE_MM", part |-> GICD_V2, table |-> gicdv2_gicd]>>

MS_GICV2_ALIGNMENT == 4
MS_GIC(part, n) == IF part = GICC_V2 THEN MS_GIC_GICC[n] ELSE MS_GIC_GICD[n]
Copies(range) == IF range < MaxRange THEN range ELSE MaxRange

\* Row n of entry e of table t in the heap: of a system register, or of the
\* k-th register of a GIC array, at a position.
SystemRow(t, e, n) ==
    [type |-> t.type,
     uid |-> MSCODE(t.part, CodeOf(e.register), e.rows[n][1]),
     reg |-> MSCODE(0, 0, CodeOf(e.register)),
     ppl |-> e.ppl, shift |-> e.rows[n][2], width |-> e.rows[n][3],
     group |-> e.group, name |-> <<e.name, -1>>]

\* Mutant: the registers of an array are counted from 1.
create_uid_from_1(part, offset, k) ==
    MSCODE(part, offset, offset + (k + 1) * MS_GICV2_ALIGNMENT)

create_uid(part, offset, k) == MSCODE(part, offset, offset + k * MS_GICV2_ALIGNMENT)

DeviceRow(t, e, n, k, position) ==
    LET offset == MS_GIC(t.part, e.register) IN
    [type |-> t.type,
     uid |-> MSCODE(t.part, offset, IF e.range > 1 THEN position ELSE e.rows[n][1]),
     reg |-> create_uid(t.part, offset, k),
     ppl |-> e.ppl, shift |-> e.rows[n][2], width |-> e.rows[n][3],
     group |-> e.group, name |-> <<e.name, IF e.range > 1 THEN k ELSE -1>>]

\* <<table, entry, row, copy>> of each row of the heap, in order.
Places ==
    LET tables == bitfield_table
        entry(t, j) == tables[t].table[j]
        OfEntry(t, j) ==
            FlattenSeq([n \in 1 .. Len(entry(t, j).rows) |->
                [k \in 1 .. Copies(entry(t, j).range) |-> <<t, j, n, k - 1>>]])
        OfTable(t) ==
            FlattenSeq([j \in 1 .. Len(tables[t].table) |-> OfEntry(t, j)])
    IN FlattenSeq([t \in 1 .. Len(tables) |-> OfTable(t)])

\* The offsets of all the registers of an entry.
Words(part, e) ==
    {MS_GIC(part, e.register) + k * MS_GICV2_ALIGNMENT : k \in 0 .. e.range - 1}

HeapRow(p, position) ==
    LET t == bitfield_table[p[1]]
        e == t.table[p[2]]
    IN IF t.type = "TYPE_MM" THEN DeviceRow(t, e, p[3], p[4], position)
                             ELSE SystemRow(t, e, p[3])

\* (\o <<>> has TLC evaluate the rows once.)
read_tables_to_memory ==
    [i \in 1 .. Len(Places) |-> HeapRow(Places[i], i - 1)] \o <<>>
-----------------------------------------------------------------------------
Reader(n) == CHOOSE r \in Readers : r[1] = n
HasReader(n) == \E r \in Readers : r[1] = n

\* Mutant: the instructions of the other architecture.
Reads_swapped(arch, n) ==
    CASE ~HasReader(n) -> "none"
      [] HasReader(n) /\ arch = ARCH_ARMV8A -> Reader(n)[3]
      [] OTHER -> Reader(n)[4]

\* The instruction that reads a register: "none" if there is none.
Reads(arch, n) ==
    CASE ~HasReader(n) -> "none"
      [] HasReader(n) /\ arch = ARCH_ARMV7A -> Reader(n)[3]
      [] OTHER -> Reader(n)[4]

ReadBy(arch, instruction) ==
    {r[1] : r \in {r \in Readers :
        instruction = IF arch = ARCH_ARMV7A THEN r[3] ELSE r[4]}} \cap func_table

retdatatype(arch) == IF arch = ARCH_ARMV7A THEN 32 ELSE 64

\* The bits of the variables that a reader's type writes.
WritesBits(arch, n) ==
    LET type == Reader(n)[2] IN
    CASE type = "u32" -> 32
      [] type = "u64" -> 64
      [] type = "arch" -> retdatatype(arch)
      [] type = "u32_u32" -> 64
      [] type = "arch_u32" -> retdatatype(arch) + 32

\* Mutant: the variables are always of 32 bits.
FuncBits_32(arch, n) == 32

\* The bits of the variables that func_table has the caller pass.
FuncBits(arch, n) ==
    CASE n \in Out1_32 -> 32
      [] n \in Out1_64 -> 64
      [] n \in Out1_arch -> retdatatype(arch)
      [] n \in Out2_32 -> 64
      [] n \in Out2_arch -> retdatatype(arch) + 32

Delivered(arch, n) ==
    IF n \notin func_table \/ Reads(arch, n) = "none" THEN {}
    ELSE {b \in 0 .. 63 : b < WritesBits(arch, n) /\ b < FuncBits(arch, n)}
=============================================================================
