---------------------------- MODULE FieldsProofs ----------------------------
(***************************************************************************)
(* With the program's own tables, for any board, requests and number of    *)
(* CPUs: the fields that a table gives a register show every bit that its  *)
(* reader delivers once, and have no bits that it does not deliver, but    *)
(* for the registers that the properties name. The widths of each entry    *)
(* are added up, and what that says of the bits of a register is carried   *)
(* over what read_tables_to_memory makes of the entries to the rows that a *)
(* find call shows together.                                               *)
(***************************************************************************)
EXTENDS TablesProofs

-----------------------------------------------------------------------------
(***************************************************************************)
(* Rows that split a register from bit 0 upwards.                          *)
(***************************************************************************)
\* The bits of a row <<uid, first bit, number of bits>>.
RowBits(row) == row[2] .. row[2] + row[3] - 1
RowEnd(row) == row[2] + row[3]

\* A bit is in a row from the row's first bit up to its end.
LEMMA RowNumbers ==
  \A row : row[2] \in Nat /\ row[3] \in Nat =>
      /\ RowEnd(row) \in Nat
      /\ \A b : b \in RowBits(row) <=> b \in Nat /\ row[2] <= b /\ b < RowEnd(row)
  <1> SUFFICES ASSUME NEW row, row[2] \in Nat, row[3] \in Nat
               PROVE  /\ RowEnd(row) \in Nat
                      /\ \A b : b \in RowBits(row) <=> b \in Nat /\ row[2] <= b /\ b < RowEnd(row)
    OBVIOUS
  <1>1. PICK s \in Nat, w \in Nat : s = row[2] /\ w = row[3]
    OBVIOUS
  <1>2. RowBits(row) = s .. s + w - 1 /\ RowEnd(row) = s + w
    BY <1>1 DEF RowBits, RowEnd
  <1> QED BY <1>1, <1>2

\* The rows begin at bit 0, each where the one before it ends, and end at T.
Spans(rows, T) ==
    /\ Len(rows) \in Nat \ {0} /\ rows[1][2] = 0
    /\ \A n \in 1 .. Len(rows) : rows[n][2] \in Nat /\ rows[n][3] \in Nat
    /\ \A n \in 1 .. Len(rows) - 1 : rows[n + 1][2] = RowEnd(rows[n])
    /\ RowEnd(rows[Len(rows)]) = T

\* A row ends before a later one begins.
LEMMA SpansInOrder ==
  ASSUME NEW rows, NEW T, Spans(rows, T),
         NEW m \in 1 .. Len(rows), NEW n \in 1 .. Len(rows), m < n
  PROVE  RowEnd(rows[m]) <= rows[n][2]
  <1> DEFINE P == {d \in Nat : m + d + 1 \in 1 .. Len(rows) =>
                                 RowEnd(rows[m]) <= rows[m + d + 1][2]}
  <1>0. Len(rows) \in Nat /\ m \in Nat /\ n \in Nat
    BY DEF Spans
  <1>1. 0 \in P
    <2> SUFFICES ASSUME m + 0 + 1 \in 1 .. Len(rows)
                 PROVE  RowEnd(rows[m]) <= rows[m + 0 + 1][2]
      OBVIOUS
    <2>1. m \in 1 .. Len(rows) - 1 /\ m + 0 + 1 = m + 1
      BY <1>0
    <2>2. rows[m + 1][2] = RowEnd(rows[m]) /\ rows[m + 1][2] \in Nat
      BY <1>0, <2>1 DEF Spans
    <2> QED BY <2>1, <2>2
  <1>2. ASSUME NEW d \in Nat, d \in P PROVE d + 1 \in P
    <2> SUFFICES ASSUME m + (d + 1) + 1 \in 1 .. Len(rows)
                 PROVE  RowEnd(rows[m]) <= rows[m + (d + 1) + 1][2]
      OBVIOUS
    <2> DEFINE l == m + d + 1
    <2>1. l \in 1 .. Len(rows) - 1 /\ l \in 1 .. Len(rows) /\ m + (d + 1) + 1 = l + 1
      BY <1>0
    <2>2. RowEnd(rows[m]) <= rows[l][2]
      BY <1>2, <2>1
    <2> HIDE DEF l
    <2>3. rows[l + 1][2] = rows[l][2] + rows[l][3]
      BY <2>1 DEF Spans, RowEnd
    <2>4. rows[l][2] \in Nat /\ rows[l][3] \in Nat /\ RowEnd(rows[m]) \in Nat
      BY <2>1 DEF Spans, RowEnd
    <2> QED BY <2>1, <2>2, <2>3, <2>4
  <1> HIDE DEF P
  <1>3. n - m - 1 \in P
    <2>1. n - m - 1 \in Nat
      BY <1>0
    <2> QED BY <1>1, <1>2, <2>1, Induction
  <1>4. m + (n - m - 1) + 1 = n
    BY <1>0
  <1> QED BY <1>3, <1>4 DEF P

\* The rows have no bit from T on,
LEMMA SpansWithin ==
  ASSUME NEW rows, NEW T, Spans(rows, T), NEW n \in 1 .. Len(rows)
  PROVE  RowEnd(rows[n]) <= T /\ T \in Nat
  <1> DEFINE l == Len(rows)
  <1>1. l \in Nat \ {0} /\ RowEnd(rows[l]) = T /\ l \in 1 .. l
    BY DEF Spans
  <1>2. \A k \in 1 .. l : rows[k][2] \in Nat /\ rows[k][3] \in Nat
    BY DEF Spans
  <1>3. CASE n = l
    BY <1>1, <1>2, <1>3 DEF RowEnd
  <1>4. CASE n # l
    <2>1. RowEnd(rows[n]) <= rows[l][2]
      <3>1. n < l
        BY <1>1, <1>4
      <3> QED BY <1>1, <3>1, SpansInOrder
    <2> QED BY <1>1, <1>2, <2>1 DEF RowEnd
  <1> QED BY <1>3, <1>4

\* and each bit below T in one row.
LEMMA SpansOnce ==
  ASSUME NEW rows, NEW T, Spans(rows, T), NEW b \in Nat, b < T
  PROVE  \E n \in 1 .. Len(rows) :
            /\ b \in RowBits(rows[n])
            /\ \A m \in 1 .. Len(rows) : b \in RowBits(rows[m]) => m = n
  <1> DEFINE l == Len(rows)
             After == {k \in 1 .. l : b < RowEnd(rows[k])}
  <1>1. l \in Nat \ {0} /\ RowEnd(rows[l]) = T /\ l \in 1 .. l
    BY DEF Spans
  <1>2. \A k \in 1 .. l : rows[k][2] \in Nat /\ rows[k][3] \in Nat
    BY DEF Spans
  <1>3. PICK n \in After : \A k \in After : n <= k
    <2>1. After # {} /\ After \in SUBSET Nat
      BY <1>1
    <2> QED BY <2>1, FirstProperties
  <1>4. n \in 1 .. l /\ b < RowEnd(rows[n])
    BY <1>3
  <1>5. rows[n][2] <= b
    <2>1. CASE n = 1
      BY <2>1 DEF Spans
    <2>2. CASE n # 1
      <3>1. n - 1 \in 1 .. l - 1 /\ n - 1 \in 1 .. l /\ (n - 1) + 1 = n /\ ~ (n <= n - 1)
        BY <1>1, <1>4, <2>2
      <3>2. rows[n][2] = RowEnd(rows[n - 1])
        BY <3>1 DEF Spans
      <3>3. ~ (b < RowEnd(rows[n - 1]))
        BY <1>3, <3>1
      <3>4. RowEnd(rows[n - 1]) \in Nat
        BY <1>2, <3>1 DEF RowEnd
      <3> QED BY <3>2, <3>3, <3>4
    <2> QED BY <2>1, <2>2
  <1>6. b \in RowBits(rows[n])
    BY <1>2, <1>4, <1>5 DEF RowBits, RowEnd
  <1>7. ASSUME NEW m \in 1 .. l, b \in RowBits(rows[m]) PROVE m = n
    <2>1. rows[m][2] <= b /\ b < RowEnd(rows[m]) /\ RowEnd(rows[m]) \in Nat
          /\ RowEnd(rows[n]) \in Nat
      BY <1>2, <1>4, <1>7, RowNumbers
    <2>2. ~ (m < n)
      <3>1. m < n => RowEnd(rows[m]) <= rows[n][2]
        BY <1>4, SpansInOrder
      <3> QED BY <1>2, <1>4, <1>5, <2>1, <3>1
    <2>3. ~ (n < m)
      <3>1. n < m => RowEnd(rows[n]) <= rows[m][2]
        BY <1>4, SpansInOrder
      <3> QED BY <1>2, <1>4, <2>1, <3>1
    <2> QED BY <1>1, <1>4, <2>2, <2>3
  <1> QED BY <1>4, <1>6, <1>7

-----------------------------------------------------------------------------
(***************************************************************************)
(* Widths: rows whose widths add up to T span T bits.                      *)
(***************************************************************************)
\* n widths.
AreWidths(w, n) == Len(w) = n /\ \A i \in 1 .. n : w[i] \in Nat

\* Widths has each row begin where the one before it ends.
LEMMA FirstBits ==
  ASSUME NEW n \in Nat \ {0}, NEW w, AreWidths(w, n)
  PROVE  \E first \in [1 .. n -> Nat] :
            /\ Widths(w) = [i \in 1 .. n |-> <<i - 1, first[i], w[i]>>]
            /\ \A i \in 1 .. n : first[i] = IF i = 1 THEN 0 ELSE first[i - 1] + w[i - 1]
  <1> DEFINE Step(f, i) == IF i = 1 THEN 0 ELSE f[i - 1] + w[i - 1]
             Upto(m) == {f \in [1 .. m -> Nat] : \A i \in 1 .. m : f[i] = Step(f, i)}
             P == {m \in Nat : m <= n => Upto(m) # {}}
             first == CHOOSE f :
                 f = [i \in 1 .. n |-> IF i = 1 THEN 0 ELSE f[i - 1] + w[i - 1]]
  <1>0. Len(w) = n /\ \A i \in 1 .. n : w[i] \in Nat
    BY DEF AreWidths
  <1>1. 0 \in P
    <2>1. [i \in 1 .. 0 |-> 0] \in Upto(0)
      OBVIOUS
    <2> QED BY <2>1
  <1>2. ASSUME NEW m \in Nat, m \in P PROVE m + 1 \in P
    <2> SUFFICES ASSUME m + 1 <= n PROVE Upto(m + 1) # {}
      OBVIOUS
    <2>1. Upto(m) # {}
      <3> HIDE DEF Upto
      <3> QED BY <1>2
    <2>2. PICK f \in [1 .. m -> Nat] : \A i \in 1 .. m : f[i] = Step(f, i)
      <3> HIDE DEF Step
      <3> QED BY <2>1
    <2> DEFINE g == [i \in 1 .. m + 1 |-> IF i = m + 1 THEN Step(f, i) ELSE f[i]]
    <2>3. Step(f, m + 1) \in Nat
      <3>1. CASE m # 0
        <4>1. f[m] \in Nat /\ w[m] \in Nat
          BY <1>0, <3>1
        <4> QED BY <3>1, <4>1
      <3> QED BY <3>1
    <2>4. g \in [1 .. m + 1 -> Nat]
      <3> HIDE DEF Step
      <3> QED BY <2>2, <2>3
    <2>5. ASSUME NEW i \in 1 .. m + 1 PROVE g[i] = Step(g, i)
      <3>1. (i # 1 => g[i - 1] = f[i - 1])
        <4> HIDE DEF Step
        <4> QED OBVIOUS
      <3>2. Step(g, i) = Step(f, i)
        <4> HIDE DEF g
        <4> QED BY <3>1
      <3> HIDE DEF Step
      <3> QED BY <2>2, <3>2
    <2> HIDE DEF g, Step
    <2> QED BY <2>4, <2>5
  <1> HIDE DEF P
  <1>3. n \in P
    BY <1>1, <1>2, Induction
  <1>4. PICK f \in [1 .. n -> Nat] : \A i \in 1 .. n : f[i] = Step(f, i)
    <2> HIDE DEF Step
    <2> QED BY <1>3 DEF P
  <1>5. f = [i \in 1 .. n |-> IF i = 1 THEN 0 ELSE f[i - 1] + w[i - 1]]
    BY <1>4
  <1>6. first = [i \in 1 .. n |-> IF i = 1 THEN 0 ELSE first[i - 1] + w[i - 1]]
    BY <1>5
  <1>7. Widths(w) = [i \in 1 .. n |-> <<i - 1, first[i], w[i]>>]
    BY <1>0 DEF Widths
  <1> HIDE DEF first
  <1>8. \A i \in 1 .. n : first[i] = IF i = 1 THEN 0 ELSE first[i - 1] + w[i - 1]
    BY <1>6
  <1>9. \A i \in 1 .. n : first[i] \in Nat
    <2> DEFINE Q == {m \in Nat : m + 1 \in 1 .. n => first[m + 1] \in Nat}
    <2>1. 0 \in Q
      BY <1>8
    <2>2. ASSUME NEW m \in Nat, m \in Q PROVE m + 1 \in Q
      <3> SUFFICES ASSUME m + 1 + 1 \in 1 .. n PROVE first[m + 1 + 1] \in Nat
        OBVIOUS
      <3>1. first[m + 1] \in Nat /\ w[m + 1] \in Nat
        BY <1>0, <2>2
      <3>2. m + 1 + 1 # 1 /\ (m + 1 + 1) - 1 = m + 1
        OBVIOUS
      <3>3. first[m + 1 + 1] = first[m + 1] + w[m + 1]
        BY <1>8, <3>2
      <3> QED BY <3>1, <3>3
    <2> HIDE DEF Q
    <2>3. Nat \subseteq Q
      BY <2>1, <2>2, Induction
    <2>4. ASSUME NEW i \in 1 .. n PROVE first[i] \in Nat
      <3>1. i - 1 \in Q /\ (i - 1) + 1 = i
        BY <2>3
      <3> QED BY <3>1 DEF Q
    <2> QED BY <2>4
  <1>10. first \in [1 .. n -> Nat]
    BY <1>6, <1>9
  <1> QED BY <1>7, <1>8, <1>10

\* f[i] is the sum of the first i widths, and the rows span f[n] bits.
Adds(f, w, n) ==
    /\ f[0] = 0 /\ \A i \in 1 .. n : w[i] \in Nat /\ f[i] = f[i - 1] + w[i]
    /\ Spans(Widths(w), f[n])
LEMMA Sums ==
  ASSUME NEW n \in Nat \ {0}, NEW w, AreWidths(w, n)
  PROVE  \E f : Adds(f, w, n)
  <1>1. PICK first \in [1 .. n -> Nat] :
            /\ Widths(w) = [i \in 1 .. n |-> <<i - 1, first[i], w[i]>>]
            /\ \A i \in 1 .. n : first[i] = IF i = 1 THEN 0 ELSE first[i - 1] + w[i - 1]
    BY FirstBits
  <1> DEFINE rows == Widths(w)
             f == [i \in 0 .. n |-> IF i = 0 THEN 0 ELSE first[i] + w[i]]
  <1>2. \A i \in 1 .. n : w[i] \in Nat
    BY DEF AreWidths
  <1>3. ASSUME NEW i \in 1 .. n PROVE f[i] = f[i - 1] + w[i]
    <2>1. i \in 0 .. n /\ i - 1 \in 0 .. n /\ i # 0
      OBVIOUS
    <2>2. f[i] = first[i] + w[i]
      BY <2>1
    <2>3. f[i - 1] = first[i]
      BY <1>1, <2>1
    <2> QED BY <2>2, <2>3
  <1>4. Spans(rows, f[n])
    <2>1. Len(rows) = n /\ n \in 1 .. n
      BY <1>1
    <2>2. ASSUME NEW i \in 1 .. n
          PROVE  rows[i][2] = first[i] /\ rows[i][3] = w[i] /\ first[i] \in Nat /\ w[i] \in Nat
      BY <1>1, <1>2
    <2>3. first[1] = 0
      BY <1>1
    <2>4. ASSUME NEW i \in 1 .. n - 1 PROVE first[i + 1] = first[i] + w[i]
      <3>1. i + 1 \in 1 .. n /\ i + 1 # 1 /\ (i + 1) - 1 = i
        OBVIOUS
      <3> QED BY <1>1, <3>1
    <2>5. f[n] = first[n] + w[n]
      OBVIOUS
    <2> HIDE DEF rows, f
    <2>6. \A i \in 1 .. n - 1 : i \in 1 .. n /\ i + 1 \in 1 .. n
      OBVIOUS
    <2>7. 1 \in 1 .. n
      OBVIOUS
    <2> QED BY <2>1, <2>2, <2>3, <2>4, <2>5, <2>6, <2>7 DEF Spans, RowEnd
  <1>5. f[0] = 0
    OBVIOUS
  <1> HIDE DEF f
  <1> QED BY <1>2, <1>3, <1>4, <1>5 DEF Adds

-----------------------------------------------------------------------------
(***************************************************************************)
(* How many bits the readers deliver.                                      *)
(***************************************************************************)
\* The registers whose readers deliver 64 bits; the others deliver 32.
Wide(arch) ==
    IF arch = ARCH_ARMV7A
      THEN {"TTBR0LPAE", "TTBR1LPAE", "DBGDRAR", "CPUMERRSR", "L2MERRSR"}
      ELSE {"CBAR", "CPUMERRSR", "L2MERRSR", "PAR", "CPUACTLR", "CPUECTLR", "TTBR0", "TTBR1",
            "CLIDR", "VBAR", "DBGDRAR", "TTBCR", "PMCCNTR", "TPIDRPRW", "TPIDRURO",
            "TPIDRURW", "MAIR", "AMAIR", "FAR", "AA64PFR0", "AA64PFR1", "AA64AFR0",
            "AA64AFR1", "AA64DFR0", "AA64DFR1", "AA64MMFR0", "AA64MMFR1", "AA64ISAR0",
            "AA64ISAR1"}

\* The registers of the tables that have no reader with a body.
Bodiless(arch) == IF arch = ARCH_ARMV8A THEN Unread \cup {"MMFR4"} ELSE {}

\* The number of bits that the reader of a register delivers.
Size(part, n) ==
    LET arch == ArchOfPart(part) IN
    IF n \in Bodiless(arch) THEN 0 ELSE IF n \in Wide(arch) THEN 64 ELSE 32

\* What a reader writes and what its caller keeps (Readers, func_table).
LEMMA ReadersBits ==
  ASSUME NEW arch \in Arches, NEW n \in func_table, NEW r \in Readers, r = Reader(n), r[1] = n
  PROVE  /\ WritesBits(arch, n) \in {32, 64, 96} /\ FuncBits(arch, n) \in {32, 64, 96}
         /\ InstructionOf(arch, r) # "none" =>
               IF n \in Wide(arch)
                 THEN WritesBits(arch, n) # 32 /\ FuncBits(arch, n) # 32
                 ELSE WritesBits(arch, n) = 32 \/ FuncBits(arch, n) = 32
         /\ n \in Bodiless(arch) => InstructionOf(arch, r) = "none"
  BY SMTT(200) DEF WritesBits, FuncBits, retdatatype, InstructionOf, Wide, Bodiless, Unread,
     func_table, Out1_32, Out1_64, Out1_arch, Out2_32, Out2_arch, Arches, ARCH_ARMV7A, ARCH_ARMV8A,
     Readers, ident_c, virtmem_c, fault_c, perfmon_c, secext_c, other_c, addrtrans_c,
     fp_c, debug_c, misc_c, jazelle_c, thumb_c, impl_def_c, aarch64_c, psr_c

\* A reader with a body delivers the bits from 0 up to the size.
LEMMA DeliveredBits ==
  ASSUME NEW part, ArchOfPart(part) \in Arches, NEW n \in func_table,
         HasBody(ArchOfPart(part), n)
  PROVE  Delivered(ArchOfPart(part), n) = 0 .. Size(part, n) - 1
  <1> DEFINE arch == ArchOfPart(part)
             w == WritesBits(arch, n)
             f == FuncBits(arch, n)
  <1>1. PICK r \in Readers : r = Reader(n) /\ r[1] = n
    BY AllHaveReaders DEF HasReader, Reader
  <1> HIDE DEF arch
  <1>2. arch \in Arches /\ Reads(arch, n) = InstructionOf(arch, r)
    BY <1>1, AllHaveReaders DEF Reads, InstructionOf, arch
  <1>3. InstructionOf(arch, r) = "none" => n \in Bodiless(arch)
    BY <1>1 DEF HasBody, Bodiless, arch
  <1>4. CASE n \in Bodiless(arch)
    BY <1>1, <1>2, <1>4, ReadersBits DEF Delivered, Size, arch
  <1>5. CASE n \notin Bodiless(arch)
    <2>1. /\ w \in {32, 64, 96} /\ f \in {32, 64, 96}
          /\ IF n \in Wide(arch) THEN w # 32 /\ f # 32 ELSE w = 32 \/ f = 32
      BY <1>1, <1>2, <1>3, <1>5, ReadersBits
    <2>2. Delivered(arch, n) = {b \in 0 .. 63 : b < w /\ b < f}
      BY <1>2, <1>3, <1>5 DEF Delivered
    <2>3. Size(part, n) = IF n \in Wide(arch) THEN 64 ELSE 32
      BY <1>5 DEF Size, arch
    <2> HIDE DEF w, f
    <2>4. {b \in 0 .. 63 : b < w /\ b < f} = 0 .. (IF n \in Wide(arch) THEN 64 ELSE 32) - 1
      BY <2>1
    <2> QED BY <2>2, <2>3, <2>4 DEF arch
  <1> QED BY <1>4, <1>5

-----------------------------------------------------------------------------
(***************************************************************************)
(* The fields of a register.                                               *)
(***************************************************************************)
\* Row n of entry j of a table gives register r a field with bit b.
Gives(table, r, b, j, n) ==
    /\ j \in 1 .. Len(table) /\ table[j].register = r
    /\ n \in 1 .. Len(table[j].rows) /\ b \in RowBits(table[j].rows[n])

\* One row of the table does.
GivesOnce(table, r, b) ==
    \E j, n : /\ Gives(table, r, b, j, n)
              /\ \A i, m : Gives(table, r, b, i, m) => i = j /\ m = n

\* No row of an entry goes on past the bits that are delivered, or the register
\* is one of those that FieldsFull excepts, or that nothing is read of.
Ends(part, e) ==
    \/ e.register \in Short[ArchOfPart(part)] \cup Bodiless(ArchOfPart(part))
    \/ \A n \in 1 .. Len(e.rows) : RowEnd(e.rows[n]) <= Size(part, e.register)

\* The rows of an entry have each of the bits that are delivered once, or the
\* register is one of those that EveryBitOnce excepts.
Covers(part, e) ==
    \/ <<part, e.register>> \in Irregular
    \/ Size(part, e.register) = 0
    \/ \E T : Size(part, e.register) <= T /\ Spans(e.rows, T)
Regular(part, e) == Ends(part, e) /\ Covers(part, e)

\* A table of registers R whose rows end in time and give each bit once.
FieldsTable(part, table, R) ==
    /\ \E S : table \in Seq(S)
    /\ \A j \in 1 .. Len(table) : table[j].register \in R /\ Ends(part, table[j])
    /\ \A i, j \in 1 .. Len(table) : table[i].register = table[j].register =>
          /\ table[i].name = table[j].name /\ table[i].range = table[j].range
          /\ table[i].group = table[j].group
    /\ \A r \in R : \/ <<part, r>> \in Irregular
                    \/ \A b \in 0 .. Size(part, r) - 1 : GivesOnce(table, r, b)

\* The sizes.
LEMMA SizeType == \A part, n : Size(part, n) \in {0, 32, 64}
  BY DEF Size

\* A bit that one row gives and no other.
LEMMA OneGives ==
  ASSUME NEW table, NEW r, NEW b, NEW j, NEW n, Gives(table, r, b, j, n),
         \A k, m : Gives(table, r, b, k, m) => k = j /\ m = n
  PROVE  GivesOnce(table, r, b)
  BY DEF GivesOnce

\* An entry whose rows span what is delivered is regular.
LEMMA SpansRegular ==
  ASSUME NEW part, NEW e, Spans(e.rows, Size(part, e.register))
  PROVE  Regular(part, e)
  <1>1. \A n \in 1 .. Len(e.rows) : RowEnd(e.rows[n]) <= Size(part, e.register)
    BY SpansWithin
  <1>2. Size(part, e.register) <= Size(part, e.register)
    BY SizeType
  <1> QED BY <1>1, <1>2 DEF Regular, Ends, Covers

\* A group that is listed by number is a sequence.
LEMMA GroupSequence ==
  ASSUME NEW n \in Nat, NEW t, t = [k \in 1 .. n |-> t[k]]
  PROVE  Len(t) = n /\ \E S : t \in Seq(S)
  <1> DEFINE S == {t[k] : k \in 1 .. n}
  <1>1. t \in [1 .. n -> S]
    OBVIOUS
  <1> HIDE DEF S
  <1>2. t \in Seq(S)
    BY <1>1
  <1> QED BY <1>2

\* A group of entries, each of a register of its own.
LEMMA EntriesFields ==
  ASSUME NEW part, NEW n \in Nat, NEW t, t = [k \in 1 .. n |-> t[k]], NEW R,
         \A r \in R : \E k \in 1 .. n : t[k].register = r,
         \A k, l \in 1 .. n : t[k].register = t[l].register => k = l,
         \A k \in 1 .. n : t[k].register \in R /\ Regular(part, t[k])
  PROVE  FieldsTable(part, t, R)
  <1>1. \E S : t \in Seq(S)
    BY GroupSequence
  <1>2. Len(t) = n
    BY GroupSequence
  <1>3. ASSUME NEW r \in R, <<part, r>> \notin Irregular, NEW b \in 0 .. Size(part, r) - 1
        PROVE  GivesOnce(t, r, b)
    <2>1. PICK j \in 1 .. n : t[j].register = r
      OBVIOUS
    <2>2. Size(part, r) \in {0, 32, 64}
      BY SizeType
    <2>3. PICK T : Size(part, r) <= T /\ Spans(t[j].rows, T)
      <3>1. Size(part, r) # 0
        BY <2>2
      <3> QED BY <1>3, <2>1, <3>1 DEF Regular, Covers
    <2>4. T \in Nat
      <3>1. 1 \in 1 .. Len(t[j].rows)
        BY <2>3 DEF Spans
      <3> QED BY <2>3, <3>1, SpansWithin
    <2>5. b \in Nat /\ b < T
      BY <2>2, <2>3, <2>4
    <2>6. PICK i \in 1 .. Len(t[j].rows) :
              /\ b \in RowBits(t[j].rows[i])
              /\ \A m \in 1 .. Len(t[j].rows) : b \in RowBits(t[j].rows[m]) => m = i
      BY <2>3, <2>5, SpansOnce
    <2>7. Gives(t, r, b, j, i)
      BY <1>2, <2>1, <2>6 DEF Gives
    <2>8. ASSUME NEW k, NEW m, Gives(t, r, b, k, m) PROVE k = j /\ m = i
      <3>1. k = j
        BY <1>2, <2>1, <2>8 DEF Gives
      <3> QED BY <2>6, <2>8, <3>1 DEF Gives
    <2>9. \A k, m : Gives(t, r, b, k, m) => k = j /\ m = i
      BY <2>8
    <2> QED BY <2>7, <2>9, OneGives
  <1>4. \A k \in 1 .. n : Ends(part, t[k])
    BY DEF Regular
  <1> QED BY <1>1, <1>2, <1>3, <1>4 DEF FieldsTable

\* Two groups without a register in common, one behind the other.
LEMMA BothFields ==
  ASSUME NEW part, NEW s, NEW t, NEW Q, NEW R,
         FieldsTable(part, s, Q), FieldsTable(part, t, R), Q \cap R = {}
  PROVE  FieldsTable(part, s \o t, Q \cup R)
  <1> DEFINE u == s \o t
             m == Len(s)
             n == Len(t)
  <1>1. PICK S, T : s \in Seq(S) /\ t \in Seq(T)
    BY DEF FieldsTable
  <1>2. s \in Seq(S \cup T) /\ t \in Seq(S \cup T) /\ m \in Nat /\ n \in Nat
    BY <1>1, LenProperties
  <1>3. /\ u \in Seq(S \cup T) /\ Len(u) = m + n
        /\ \A j \in 1 .. m : u[j] = s[j]
        /\ \A j \in 1 .. n : u[m + j] = t[j]
    <2>1. \A j \in 1 .. m + n : u[j] = IF j <= m THEN s[j] ELSE t[j - m]
      BY <1>2, ConcatProperties
    <2>2. \A j \in 1 .. n : m + j \in 1 .. m + n /\ ~ (m + j <= m) /\ (m + j) - m = j
      BY <1>2
    <2>3. \A j \in 1 .. m : j \in 1 .. m + n /\ j <= m
      BY <1>2
    <2> HIDE DEF u
    <2>4. u \in Seq(S \cup T) /\ Len(u) = m + n
      BY <1>2, ConcatProperties DEF u
    <2> QED BY <2>1, <2>2, <2>3, <2>4
  <1> HIDE DEF u
  <1>4. \A j \in 1 .. Len(u) : \/ j \in 1 .. m /\ u[j] = s[j]
                               \/ \E k \in 1 .. n : j = m + k /\ u[j] = t[k]
    <2> SUFFICES ASSUME NEW j \in 1 .. m + n, j \notin 1 .. m
                 PROVE  \E k \in 1 .. n : j = m + k
      BY <1>3
    <2>1. j - m \in 1 .. n /\ j = m + (j - m)
      BY <1>2
    <2> QED BY <2>1
  <1> HIDE DEF m, n
  <1>5. ASSUME NEW r, NEW b
        PROVE  /\ r \in Q => \A j, k : Gives(u, r, b, j, k) <=> Gives(s, r, b, j, k)
               /\ r \in R => \A j, k : Gives(u, r, b, j, k)
                                         <=> \E l : j = m + l /\ Gives(t, r, b, l, k)
    <2>1. (\A j \in 1 .. m : s[j].register \in Q) /\ (\A j \in 1 .. n : t[j].register \in R)
      BY DEF FieldsTable, m, n
    <2>2. ASSUME r \in Q, NEW j, NEW k PROVE Gives(u, r, b, j, k) <=> Gives(s, r, b, j, k)
      <3>1. ASSUME Gives(u, r, b, j, k) PROVE Gives(s, r, b, j, k)
        <4>1. j \in 1 .. m /\ u[j] = s[j]
          BY <1>4, <2>1, <2>2, <3>1 DEF Gives
        <4> QED BY <3>1, <4>1 DEF Gives, m
      <3>2. ASSUME Gives(s, r, b, j, k) PROVE Gives(u, r, b, j, k)
        <4>1. j \in 1 .. m /\ j \in 1 .. Len(u)
          BY <1>2, <1>3, <3>2 DEF Gives, m
        <4> QED BY <1>3, <3>2, <4>1 DEF Gives
      <3> QED BY <3>1, <3>2
    <2>3. ASSUME r \in R, NEW j, NEW k
          PROVE  Gives(u, r, b, j, k) <=> \E l : j = m + l /\ Gives(t, r, b, l, k)
      <3>1. ASSUME Gives(u, r, b, j, k) PROVE \E l : j = m + l /\ Gives(t, r, b, l, k)
        <4>1. PICK l \in 1 .. n : j = m + l /\ u[j] = t[l]
          BY <1>4, <2>1, <2>3, <3>1 DEF Gives
        <4> QED BY <3>1, <4>1 DEF Gives, n
      <3>2. ASSUME NEW l, j = m + l, Gives(t, r, b, l, k) PROVE Gives(u, r, b, j, k)
        <4>1. l \in 1 .. n /\ j \in 1 .. Len(u)
          <5>1. l \in 1 .. n
            BY <3>2 DEF Gives, n
          <5> QED BY <1>2, <1>3, <3>2, <5>1 DEF m, n
        <4> QED BY <1>3, <3>2, <4>1 DEF Gives
      <3> QED BY <3>1, <3>2
    <2> QED BY <2>2, <2>3
  <1>6. ASSUME NEW r \in Q \cup R, <<part, r>> \notin Irregular, NEW b \in 0 .. Size(part, r) - 1
        PROVE  GivesOnce(u, r, b)
    <2>1. CASE r \in Q
      <3>1. PICK j, k : /\ Gives(s, r, b, j, k)
                        /\ \A i, l : Gives(s, r, b, i, l) => i = j /\ l = k
        BY <1>6, <2>1 DEF FieldsTable, GivesOnce
      <3>2. Gives(u, r, b, j, k)
        BY <1>5, <2>1, <3>1
      <3>3. \A i, l : Gives(u, r, b, i, l) => i = j /\ l = k
        BY <1>5, <2>1, <3>1
      <3> QED BY <3>2, <3>3, OneGives
    <2>2. CASE r \in R
      <3>1. PICK j, k : /\ Gives(t, r, b, j, k)
                        /\ \A i, l : Gives(t, r, b, i, l) => i = j /\ l = k
        BY <1>6, <2>2 DEF FieldsTable, GivesOnce
      <3>2. Gives(u, r, b, m + j, k)
        BY <1>5, <2>2, <3>1
      <3>3. \A i, l : Gives(u, r, b, i, l) => i = m + j /\ l = k
        BY <1>5, <2>2, <3>1
      <3> QED BY <3>2, <3>3, OneGives
    <2> QED BY <2>1, <2>2
  <1>7. ASSUME NEW j \in 1 .. Len(u) PROVE u[j].register \in Q \cup R /\ Ends(part, u[j])
    BY <1>4 DEF FieldsTable, m, n
  <1>8. ASSUME NEW i \in 1 .. Len(u), NEW j \in 1 .. Len(u), u[i].register = u[j].register
        PROVE  u[i].name = u[j].name /\ u[i].range = u[j].range /\ u[i].group = u[j].group
    <2>1. (\A k \in 1 .. m : s[k].register \in Q) /\ (\A k \in 1 .. n : t[k].register \in R)
      BY DEF FieldsTable, m, n
    <2>2. CASE i \in 1 .. m /\ u[i] = s[i]
      <3>1. j \in 1 .. m /\ u[j] = s[j]
        BY <1>4, <1>8, <2>1, <2>2
      <3> QED BY <1>8, <2>2, <3>1 DEF FieldsTable, m
    <2>3. CASE \E k \in 1 .. n : i = m + k /\ u[i] = t[k]
      <3>1. PICK k \in 1 .. n : u[i] = t[k]
        BY <2>3
      <3>2. PICK l \in 1 .. n : u[j] = t[l]
        BY <1>4, <1>8, <2>1, <3>1
      <3> QED BY <1>8, <3>1, <3>2 DEF FieldsTable, n
    <2> QED BY <1>4, <2>2, <2>3
  <1> QED BY <1>3, <1>6, <1>7, <1>8 DEF FieldsTable, u

\* The entries of a group are of registers R, one each.
OneEach(t, n, R) ==
    /\ n \in Nat /\ t = [k \in 1 .. n |-> t[k]]
    /\ \A r \in R : \E k \in 1 .. n : t[k].register = r
    /\ \A k \in 1 .. n : t[k].register \in R
    /\ \A k, l \in 1 .. n : t[k].register = t[l].register => k = l

\* A group of regular entries, each of a register of its own.
LEMMA GroupFields ==
  ASSUME NEW part, NEW n, NEW t, NEW R, OneEach(t, n, R),
         \A k \in 1 .. n : Regular(part, t[k])
  PROVE  FieldsTable(part, t, R)
  <1>1. n \in Nat /\ t = [k \in 1 .. n |-> t[k]]
    BY DEF OneEach
  <1>2. /\ \A r \in R : \E k \in 1 .. n : t[k].register = r
        /\ \A k \in 1 .. n : t[k].register \in R
        /\ \A k, l \in 1 .. n : t[k].register = t[l].register => k = l
    BY DEF OneEach
  <1> QED BY <1>1, <1>2, EntriesFields

\* An entry of register r whose rows span T bits,
Made(e, r, T) == e.register = r /\ Spans(e.rows, T)
\* and one with no bits from T on.
Tops(e, r, T) == e.register = r /\ \A n \in 1 .. Len(e.rows) : RowEnd(e.rows[n]) <= T

\* An entry is regular if it spans what is delivered of the register,
LEMMA MadeRegular ==
  ASSUME NEW part, NEW e, NEW r, NEW T, Made(e, r, T), Size(part, r) = T
  PROVE  Regular(part, e)
  BY SpansRegular DEF Made

\* if it has too few bits and EveryBitOnce excepts the register,
LEMMA OddRegular ==
  ASSUME NEW part, NEW e, NEW r, NEW T, Made(e, r, T), <<part, r>> \in Irregular,
         T <= Size(part, r)
  PROVE  Regular(part, e)
  <1>1. Size(part, e.register) \in Nat
    BY SizeType
  <1>2. T \in Nat /\ \A n \in 1 .. Len(e.rows) : RowEnd(e.rows[n]) <= T
    <2>1. 1 \in 1 .. Len(e.rows)
      BY DEF Made, Spans
    <2> QED BY <2>1, SpansWithin DEF Made
  <1>3. \A n \in 1 .. Len(e.rows) : RowEnd(e.rows[n]) \in Nat
    BY RowNumbers DEF Made, Spans
  <1> QED BY <1>1, <1>2, <1>3 DEF Regular, Ends, Covers, Made

\* if it has the bits that are delivered, and more that FieldsFull excepts,
LEMMA LongRegular ==
  ASSUME NEW part, NEW e, NEW r, NEW T, Made(e, r, T), r \in Short[ArchOfPart(part)],
         Size(part, r) <= T
  PROVE  Regular(part, e)
  BY DEF Regular, Ends, Covers, Made

\* if it ends in time and EveryBitOnce excepts the register,
LEMMA TopsRegular ==
  ASSUME NEW part, NEW e, NEW r, NEW T, Tops(e, r, T), Size(part, r) = T,
         <<part, r>> \in Irregular
  PROVE  Regular(part, e)
  BY DEF Regular, Ends, Covers, Tops

\* if both properties except it,
LEMMA BothRegular ==
  ASSUME NEW part, NEW e, <<part, e.register>> \in Irregular,
         e.register \in Short[ArchOfPart(part)]
  PROVE  Regular(part, e)
  BY DEF Regular, Ends, Covers

\* or if nothing is read of it.
LEMMA UnreadRegular ==
  ASSUME NEW part, NEW e, e.register \in Bodiless(ArchOfPart(part))
  PROVE  Regular(part, e)
  BY DEF Regular, Ends, Covers, Size

\* The sums of so many widths.
LEMMA Sum1 ==
  ASSUME NEW w, AreWidths(w, 1)
  PROVE  Spans(Widths(w), w[1])
  <1>1. PICK f : Adds(f, w, 1)
    BY Sums
  <1> QED BY <1>1 DEF Adds

LEMMA Sum2 ==
  ASSUME NEW w, AreWidths(w, 2)
  PROVE  Spans(Widths(w), w[1] + w[2])
  <1>1. PICK f : Adds(f, w, 2)
    BY Sums
  <1> QED BY <1>1 DEF Adds

LEMMA Sum3 ==
  ASSUME NEW w, AreWidths(w, 3)
  PROVE  Spans(Widths(w), w[1] + w[2] + w[3])
  <1>1. PICK f : Adds(f, w, 3)
    BY Sums
  <1> QED BY <1>1 DEF Adds

LEMMA Sum4 ==
  ASSUME NEW w, AreWidths(w, 4)
  PROVE  Spans(Widths(w), w[1] + w[2] + w[3] + w[4])
  <1>1. PICK f : Adds(f, w, 4)
    BY Sums
  <1> QED BY <1>1 DEF Adds

LEMMA Sum5 ==
  ASSUME NEW w, AreWidths(w, 5)
  PROVE  Spans(Widths(w), w[1] + w[2] + w[3] + w[4] + w[5])
  <1>1. PICK f : Adds(f, w, 5)
    BY Sums
  <1> QED BY <1>1 DEF Adds

LEMMA Sum6 ==
  ASSUME NEW w, AreWidths(w, 6)
  PROVE  Spans(Widths(w), w[1] + w[2] + w[3] + w[4] + w[5] + w[6])
  <1>1. PICK f : Adds(f, w, 6)
    BY Sums
  <1> QED BY <1>1 DEF Adds

LEMMA Sum7 ==
  ASSUME NEW w, AreWidths(w, 7)
  PROVE  Spans(Widths(w), w[1] + w[2] + w[3] + w[4] + w[5] + w[6] + w[7])
  <1>1. PICK f : Adds(f, w, 7)
    BY Sums
  <1> QED BY <1>1 DEF Adds

LEMMA Sum8 ==
  ASSUME NEW w, AreWidths(w, 8)
  PROVE  Spans(Widths(w), w[1] + w[2] + w[3] + w[4] + w[5] + w[6] + w[7] + w[8])
  <1>1. PICK f : Adds(f, w, 8)
    BY Sums
  <1> QED BY <1>1 DEF Adds

LEMMA Sum9 ==
  ASSUME NEW w, AreWidths(w, 9)
  PROVE  Spans(Widths(w), w[1] + w[2] + w[3] + w[4] + w[5] + w[6] + w[7] + w[8] + w[9])
  <1>1. PICK f : Adds(f, w, 9)
    BY Sums
  <1> QED BY <1>1 DEF Adds

LEMMA Sum10 ==
  ASSUME NEW w, AreWidths(w, 10)
  PROVE  Spans(Widths(w), w[1] + w[2] + w[3] + w[4] + w[5] + w[6] + w[7] + w[8] + w[9] + w[10])
  <1>1. PICK f : Adds(f, w, 10)
    BY Sums
  <1> QED BY <1>1 DEF Adds

LEMMA Sum11 ==
  ASSUME NEW w, AreWidths(w, 11)
  PROVE  Spans(Widths(w), w[1] + w[2] + w[3] + w[4] + w[5] + w[6] + w[7] + w[8] + w[9] + w[10] +
            w[11])
  <1>1. PICK f : Adds(f, w, 11)
    BY Sums
  <1> QED BY <1>1 DEF Adds

LEMMA Sum12 ==
  ASSUME NEW w, AreWidths(w, 12)
  PROVE  Spans(Widths(w), w[1] + w[2] + w[3] + w[4] + w[5] + w[6] + w[7] + w[8] + w[9] + w[10] +
            w[11] + w[12])
  <1>1. PICK f : Adds(f, w, 12)
    BY Sums
  <1> QED BY <1>1 DEF Adds

LEMMA Sum13 ==
  ASSUME NEW w, AreWidths(w, 13)
  PROVE  Spans(Widths(w), w[1] + w[2] + w[3] + w[4] + w[5] + w[6] + w[7] + w[8] + w[9] + w[10] +
            w[11] + w[12] + w[13])
  <1>1. PICK f : Adds(f, w, 13)
    BY Sums
  <1> QED BY <1>1 DEF Adds

LEMMA Sum14 ==
  ASSUME NEW w, AreWidths(w, 14)
  PROVE  Spans(Widths(w), w[1] + w[2] + w[3] + w[4] + w[5] + w[6] + w[7] + w[8] + w[9] + w[10] +
            w[11] + w[12] + w[13] + w[14])
  <1>1. PICK f : Adds(f, w, 14)
    BY Sums
  <1> QED BY <1>1 DEF Adds

LEMMA Sum16 ==
  ASSUME NEW w, AreWidths(w, 16)
  PROVE  Spans(Widths(w), w[1] + w[2] + w[3] + w[4] + w[5] + w[6] + w[7] + w[8] + w[9] + w[10] +
            w[11] + w[12] + w[13] + w[14] + w[15] + w[16])
  <1>1. PICK f : Adds(f, w, 16)
    BY Sums
  <1> QED BY <1>1 DEF Adds

LEMMA Sum18 ==
  ASSUME NEW w, AreWidths(w, 18)
  PROVE  Spans(Widths(w), w[1] + w[2] + w[3] + w[4] + w[5] + w[6] + w[7] + w[8] + w[9] + w[10] +
            w[11] + w[12] + w[13] + w[14] + w[15] + w[16] + w[17] + w[18])
  <1>1. PICK f : Adds(f, w, 18)
    BY Sums
  <1> QED BY <1>1 DEF Adds

LEMMA Sum19 ==
  ASSUME NEW w, AreWidths(w, 19)
  PROVE  Spans(Widths(w), w[1] + w[2] + w[3] + w[4] + w[5] + w[6] + w[7] + w[8] + w[9] + w[10] +
            w[11] + w[12] + w[13] + w[14] + w[15] + w[16] + w[17] + w[18] + w[19])
  <1>1. PICK f : Adds(f, w, 19)
    BY Sums
  <1> QED BY <1>1 DEF Adds

LEMMA Sum20 ==
  ASSUME NEW w, AreWidths(w, 20)
  PROVE  Spans(Widths(w), w[1] + w[2] + w[3] + w[4] + w[5] + w[6] + w[7] + w[8] + w[9] + w[10] +
            w[11] + w[12] + w[13] + w[14] + w[15] + w[16] + w[17] + w[18] + w[19] + w[20])
  <1>1. PICK f : Adds(f, w, 20)
    BY Sums
  <1> QED BY <1>1 DEF Adds

LEMMA Sum21 ==
  ASSUME NEW w, AreWidths(w, 21)
  PROVE  Spans(Widths(w), w[1] + w[2] + w[3] + w[4] + w[5] + w[6] + w[7] + w[8] + w[9] + w[10] +
            w[11] + w[12] + w[13] + w[14] + w[15] + w[16] + w[17] + w[18] + w[19] + w[20] +
            w[21])
  <1>1. PICK f : Adds(f, w, 21)
    BY Sums
  <1> QED BY <1>1 DEF Adds

LEMMA Sum23 ==
  ASSUME NEW w, AreWidths(w, 23)
  PROVE  Spans(Widths(w), w[1] + w[2] + w[3] + w[4] + w[5] + w[6] + w[7] + w[8] + w[9] + w[10] +
            w[11] + w[12] + w[13] + w[14] + w[15] + w[16] + w[17] + w[18] + w[19] + w[20] + w[21]
            + w[22] + w[23])
  <1>1. PICK f : Adds(f, w, 23)
    BY Sums
  <1> QED BY <1>1 DEF Adds

LEMMA Sum26 ==
  ASSUME NEW w, AreWidths(w, 26)
  PROVE  Spans(Widths(w), w[1] + w[2] + w[3] + w[4] + w[5] + w[6] + w[7] + w[8] + w[9] + w[10] +
            w[11] + w[12] + w[13] + w[14] + w[15] + w[16] + w[17] + w[18] + w[19] + w[20] + w[21]
            + w[22] + w[23] + w[24] + w[25] + w[26])
  <1>1. PICK f : Adds(f, w, 26)
    BY Sums
  <1> QED BY <1>1 DEF Adds

LEMMA Sum27 ==
  ASSUME NEW w, AreWidths(w, 27)
  PROVE  Spans(Widths(w), w[1] + w[2] + w[3] + w[4] + w[5] + w[6] + w[7] + w[8] + w[9] + w[10] +
            w[11] + w[12] + w[13] + w[14] + w[15] + w[16] + w[17] + w[18] + w[19] + w[20] + w[21]
            + w[22] + w[23] + w[24] + w[25] + w[26] + w[27])
  <1>1. PICK f : Adds(f, w, 27)
    BY Sums
  <1> QED BY <1>1 DEF Adds

LEMMA Sum28 ==
  ASSUME NEW w, AreWidths(w, 28)
  PROVE  Spans(Widths(w), w[1] + w[2] + w[3] + w[4] + w[5] + w[6] + w[7] + w[8] + w[9] + w[10] +
            w[11] + w[12] + w[13] + w[14] + w[15] + w[16] + w[17] + w[18] + w[19] + w[20] + w[21]
            + w[22] + w[23] + w[24] + w[25] + w[26] + w[27] + w[28])
  <1>1. PICK f : Adds(f, w, 28)
    BY Sums
  <1> QED BY <1>1 DEF Adds

LEMMA Sum29 ==
  ASSUME NEW w, AreWidths(w, 29)
  PROVE  Spans(Widths(w), w[1] + w[2] + w[3] + w[4] + w[5] + w[6] + w[7] + w[8] + w[9] + w[10] +
            w[11] + w[12] + w[13] + w[14] + w[15] + w[16] + w[17] + w[18] + w[19] + w[20] + w[21]
            + w[22] + w[23] + w[24] + w[25] + w[26] + w[27] + w[28] + w[29])
  <1>1. PICK f : Adds(f, w, 29)
    BY Sums
  <1> QED BY <1>1 DEF Adds

LEMMA Sum30 ==
  ASSUME NEW w, AreWidths(w, 30)
  PROVE  Spans(Widths(w), w[1] + w[2] + w[3] + w[4] + w[5] + w[6] + w[7] + w[8] + w[9] + w[10] +
            w[11] + w[12] + w[13] + w[14] + w[15] + w[16] + w[17] + w[18] + w[19] + w[20] + w[21]
            + w[22] + w[23] + w[24] + w[25] + w[26] + w[27] + w[28] + w[29] + w[30])
  <1>1. PICK f : Adds(f, w, 30)
    BY Sums
  <1> QED BY <1>1 DEF Adds

LEMMA Sum32 ==
  ASSUME NEW w, AreWidths(w, 32)
  PROVE  Spans(Widths(w), w[1] + w[2] + w[3] + w[4] + w[5] + w[6] + w[7] + w[8] + w[9] + w[10] +
            w[11] + w[12] + w[13] + w[14] + w[15] + w[16] + w[17] + w[18] + w[19] + w[20] + w[21]
            + w[22] + w[23] + w[24] + w[25] + w[26] + w[27] + w[28] + w[29] + w[30] + w[31] +
            w[32])
  <1>1. PICK f : Adds(f, w, 32)
    BY Sums
  <1> QED BY <1>1 DEF Adds

\* Every width is the same.
LEMMA EachWidth ==
  ASSUME NEW n \in Nat, NEW x \in Nat
  PROVE  Each(n, x) \in Seq(Nat) /\ Len(Each(n, x)) = n /\ \A i \in 1 .. n : Each(n, x)[i] = x
  BY DEF Each

\* Widths s and then widths t.
Then(u, s, t) ==
    /\ u \in Seq(Nat) /\ Len(u) = Len(s) + Len(t)
    /\ \A i \in 1 .. Len(s) : u[i] = s[i]
    /\ \A i \in Len(s) + 1 .. Len(s) + Len(t) : u[i] = t[i - Len(s)]

\* Two lists of widths are put one behind the other by \o.
LEMMA ThenWidths ==
  ASSUME NEW s \in Seq(Nat), NEW t \in Seq(Nat)
  PROVE  Then(s \o t, s, t)
  <1> DEFINE u == s \o t
  <1>1. Len(s) \in Nat /\ Len(t) \in Nat
    BY LenProperties
  <1>2. \A i \in 1 .. Len(s) + Len(t) : u[i] = IF i <= Len(s) THEN s[i] ELSE t[i - Len(s)]
    BY ConcatProperties
  <1>3. u \in Seq(Nat) /\ Len(u) = Len(s) + Len(t)
    BY ConcatProperties
  <1> HIDE DEF u
  <1>4. PICK m \in Nat, n \in Nat : m = Len(s) /\ n = Len(t)
    BY <1>1
  <1>5. (\A i \in 1 .. m : u[i] = s[i]) /\ \A i \in m + 1 .. m + n : u[i] = t[i - m]
    BY <1>2, <1>4
  <1>6. Then(u, s, t)
    BY <1>3, <1>4, <1>5 DEF Then
  <1> QED BY <1>6 DEF u

\* A run of widths of 1.
Run(w, a, b) == \A i \in a + 1 .. b : w[i] = 1

\* Over such a run the first bits go up by one.
LEMMA Ones ==
  ASSUME NEW f, NEW w, NEW n \in Nat, Adds(f, w, n), NEW a \in Nat, NEW b \in Nat, a <= b, b <= n,
         f[a] \in Nat, Run(w, a, b)
  PROVE  f[b] = f[a] + (b - a)
  <1> DEFINE P == {d \in Nat : a + d <= b => f[a + d] = f[a] + d}
  <1>1. 0 \in P
    OBVIOUS
  <1>2. ASSUME NEW d \in Nat, d \in P PROVE d + 1 \in P
    <2> SUFFICES ASSUME a + (d + 1) <= b PROVE f[a + (d + 1)] = f[a] + (d + 1)
      OBVIOUS
    <2> DEFINE i == a + (d + 1)
    <2>1. i \in 1 .. n /\ i \in a + 1 .. b /\ i - 1 = a + d /\ a + d <= b
      OBVIOUS
    <2>2. f[a + d] = f[a] + d
      BY <1>2, <2>1
    <2> HIDE DEF i
    <2>3. f[i] = f[i - 1] + w[i] /\ w[i] = 1
      BY <2>1 DEF Adds, Run
    <2>4. f[i] = (f[a] + d) + 1
      BY <2>1, <2>2, <2>3
    <2> QED BY <2>4 DEF i
  <1> HIDE DEF P
  <1>3. b - a \in P /\ a + (b - a) = b
    <2>1. b - a \in Nat
      OBVIOUS
    <2> QED BY <1>1, <1>2, <2>1, Induction
  <1> QED BY <1>3 DEF P

\* CPUACTLR of the Cortex-A57, bit by bit for the most part.
LEMMA CpuactlrSpans ==
  Spans(Widths(Each(25, 1) \o <<2, 2>> \o Each(11, 1) \o <<4, 1, 2>> \o Each(13, 1)
            \o <<3, 1>>), 64)
  <1> DEFINE a == Each(25, 1) \o <<2, 2>>
             b == a \o Each(11, 1)
             c == b \o <<4, 1, 2>>
             d == c \o Each(13, 1)
             w == d \o <<3, 1>>
  <1>1. /\ a \in Seq(Nat) /\ Len(a) = 27
        /\ \A i \in 1 .. 25 : a[i] = 1
        /\ a[26] = 2 /\ a[27] = 2
    <2> DEFINE s == Each(25, 1)
               t == <<2, 2>>
    <2>1. s \in Seq(Nat) /\ Len(s) = 25 /\ \A i \in 1 .. 25 : s[i] = 1
      BY EachWidth
    <2>2. t \in Seq(Nat) /\ Len(t) = 2 /\ t[1] = 2 /\ t[2] = 2
      OBVIOUS
    <2> HIDE DEF s, t
    <2>3. Then(s \o t, s, t)
      BY <2>1, <2>2, ThenWidths
    <2>4. Then(a, s, t)
      BY <2>3 DEF s, t
    <2> HIDE DEF a
    <2> QED BY <2>1, <2>2, <2>4 DEF Then
  <1> HIDE DEF a
  <1>2. /\ b \in Seq(Nat) /\ Len(b) = 38
        /\ \A i \in 1 .. 27 : b[i] = a[i]
        /\ \A i \in 28 .. 38 : b[i] = 1
    <2> DEFINE t == Each(11, 1)
    <2>1. t \in Seq(Nat) /\ Len(t) = 11 /\ \A i \in 1 .. 11 : t[i] = 1
      BY EachWidth
    <2> HIDE DEF t
    <2>2. Then(a \o t, a, t)
      BY <1>1, <2>1, ThenWidths
    <2>3. Then(b, a, t)
      BY <2>2 DEF t
    <2> HIDE DEF b
    <2> QED BY <1>1, <2>1, <2>3 DEF Then
  <1> HIDE DEF b
  <1>3. /\ c \in Seq(Nat) /\ Len(c) = 41
        /\ \A i \in 1 .. 38 : c[i] = b[i]
        /\ c[39] = 4 /\ c[40] = 1 /\ c[41] = 2
    <2> DEFINE t == <<4, 1, 2>>
    <2>1. t \in Seq(Nat) /\ Len(t) = 3 /\ t[1] = 4 /\ t[2] = 1 /\ t[3] = 2
      OBVIOUS
    <2> HIDE DEF t
    <2>2. Then(b \o t, b, t)
      BY <1>2, <2>1, ThenWidths
    <2>3. Then(c, b, t)
      BY <2>2 DEF t
    <2> HIDE DEF c
    <2> QED BY <1>2, <2>1, <2>3 DEF Then
  <1> HIDE DEF c
  <1>4. /\ d \in Seq(Nat) /\ Len(d) = 54
        /\ \A i \in 1 .. 41 : d[i] = c[i]
        /\ \A i \in 42 .. 54 : d[i] = 1
    <2> DEFINE t == Each(13, 1)
    <2>1. t \in Seq(Nat) /\ Len(t) = 13 /\ \A i \in 1 .. 13 : t[i] = 1
      BY EachWidth
    <2> HIDE DEF t
    <2>2. Then(c \o t, c, t)
      BY <1>3, <2>1, ThenWidths
    <2>3. Then(d, c, t)
      BY <2>2 DEF t
    <2> HIDE DEF d
    <2> QED BY <1>3, <2>1, <2>3 DEF Then
  <1> HIDE DEF d
  <1>5. /\ w \in Seq(Nat) /\ Len(w) = 56
        /\ \A i \in 1 .. 54 : w[i] = d[i]
        /\ w[55] = 3 /\ w[56] = 1
    <2> DEFINE t == <<3, 1>>
    <2>1. t \in Seq(Nat) /\ Len(t) = 2 /\ t[1] = 3 /\ t[2] = 1
      OBVIOUS
    <2> HIDE DEF t
    <2>2. Then(d \o t, d, t)
      BY <1>4, <2>1, ThenWidths
    <2>3. Then(w, d, t)
      BY <2>2 DEF t
    <2> HIDE DEF w
    <2> QED BY <1>4, <2>1, <2>3 DEF Then
  <1> HIDE DEF w
  <1>6. PICK f : Adds(f, w, 56)
    <2>1. AreWidths(w, 56)
      BY <1>5, ElementOfSeq DEF AreWidths
    <2> QED BY <2>1, Sums
  <1>7. /\ \A i \in 1 .. 25 : w[i] = 1
        /\ w[26] = 2 /\ w[27] = 2
        /\ \A i \in 28 .. 38 : w[i] = 1
        /\ w[39] = 4 /\ w[40] = 1 /\ w[41] = 2
        /\ \A i \in 42 .. 54 : w[i] = 1
    BY <1>1, <1>2, <1>3, <1>4, <1>5
  <1>8. f[25] = 25
    <2>1. f[0] = 0
      BY <1>6 DEF Adds
    <2>2. Run(w, 0, 25)
      BY <1>7 DEF Run
    <2>3. f[25] = f[0] + (25 - 0)
      BY <1>6, <2>1, <2>2, Ones
    <2> QED BY <2>1, <2>3
  <1>9. f[27] = 29
    BY <1>6, <1>7, <1>8 DEF Adds
  <1>10. f[38] = 40
    <2>1. Run(w, 27, 38)
      BY <1>7 DEF Run
    <2>2. f[38] = f[27] + (38 - 27)
      BY <1>6, <1>9, <2>1, Ones
    <2> QED BY <1>9, <2>2
  <1>11. f[41] = 47
    BY <1>6, <1>7, <1>10 DEF Adds
  <1>12. f[54] = 60
    <2>1. Run(w, 41, 54)
      BY <1>7 DEF Run
    <2>2. f[54] = f[41] + (54 - 41)
      BY <1>6, <1>11, <2>1, Ones
    <2> QED BY <1>11, <2>2
  <1>13. f[56] = 64
    <2>1. f[55] = f[55 - 1] + w[55] /\ f[56] = f[56 - 1] + w[56]
      BY <1>6 DEF Adds
    <2> QED BY <1>5, <1>12, <2>1
  <1>14. Spans(Widths(w), 64)
    BY <1>6, <1>13 DEF Adds
  <1> QED BY <1>14 DEF w, d, c, b, a

-----------------------------------------------------------------------------
(***************************************************************************)
(* The groups of the tables, in the order of the source: what the widths   *)
(* of each entry add up to, and what the reader of its register delivers.  *)
(***************************************************************************)
LEMMA A7IdentFields ==
  FieldsTable(IMPL_CORTEX_A7, a7_ident, {"REVIDR", "MPIDR"})
  <1> DEFINE g == a7_ident
             part == IMPL_CORTEX_A7
  <1>1. Made(g[1], "REVIDR", 32)
    BY Sum1 DEF Made, AreWidths, a7_ident, Group, At, K
  <1>2. Made(g[2], "MPIDR", 32)
    BY Sum8 DEF Made, AreWidths, a7_ident, Group, At, K
  <1>3. \A r \in {"REVIDR", "MPIDR"} : Size(part, r) = 32
    BY PartArches DEF Size, Wide, Bodiless, Unread, ARCH_ARMV7A, ARCH_ARMV8A
  <1> HIDE DEF g, part
  <1>4. \A k \in 1 .. 2 : Regular(part, g[k])
    BY <1>1, <1>2, <1>3, MadeRegular, Numbers
  <1>5. OneEach(g, 2, {"REVIDR", "MPIDR"})
    <2>1. g = [k \in 1 .. 2 |-> g[k]]
      BY DEF g, a7_ident, Group
    <2> QED BY <2>1, <1>1, <1>2, Numbers DEF OneEach, Made
  <1> QED BY <1>4, <1>5, GroupFields DEF g, part

LEMMA A7OtherFields ==
  FieldsTable(IMPL_CORTEX_A7, a7_other, {"ACTLR"})
  <1> DEFINE g == a7_other
             part == IMPL_CORTEX_A7
  <1>1. Made(g[1], "ACTLR", 32)
    BY Sum11 DEF Made, AreWidths, a7_other, Group, At, K
  <1>2. \A r \in {"ACTLR"} : Size(part, r) = 32
    BY PartArches DEF Size, Wide, Bodiless, Unread, ARCH_ARMV7A, ARCH_ARMV8A
  <1> HIDE DEF g, part
  <1>3. \A k \in 1 .. 1 : Regular(part, g[k])
    BY <1>1, <1>2, MadeRegular
  <1>4. OneEach(g, 1, {"ACTLR"})
    <2>1. g = [k \in 1 .. 1 |-> g[k]]
      BY DEF g, a7_other, Group
    <2> QED BY <2>1, <1>1 DEF OneEach, Made
  <1> QED BY <1>3, <1>4, GroupFields DEF g, part

LEMMA A7SecextFields ==
  FieldsTable(IMPL_CORTEX_A7, a7_secext, {"NSACR"})
  <1> DEFINE g == a7_secext
             part == IMPL_CORTEX_A7
  <1>1. Made(g[1], "NSACR", 32)
    BY Sum11 DEF Made, AreWidths, a7_secext, Group, At, K
  <1>2. \A r \in {"NSACR"} : Size(part, r) = 32
    BY PartArches DEF Size, Wide, Bodiless, Unread, ARCH_ARMV7A, ARCH_ARMV8A
  <1> HIDE DEF g, part
  <1>3. \A k \in 1 .. 1 : Regular(part, g[k])
    BY <1>1, <1>2, MadeRegular
  <1>4. OneEach(g, 1, {"NSACR"})
    <2>1. g = [k \in 1 .. 1 |-> g[k]]
      BY DEF g, a7_secext, Group
    <2> QED BY <2>1, <1>1 DEF OneEach, Made
  <1> QED BY <1>3, <1>4, GroupFields DEF g, part

LEMMA A7ImplDefFields ==
  FieldsTable(IMPL_CORTEX_A7, a7_impl_def, {"L2CTLR", "L2ECTLR", "CBAR"})
  <1> DEFINE g == a7_impl_def
             part == IMPL_CORTEX_A7
  <1>1. Made(g[1], "L2CTLR", 32)
    BY Sum5 DEF Made, AreWidths, a7_impl_def, Group, At, K
  <1>2. Made(g[2], "L2ECTLR", 32)
    BY Sum3 DEF Made, AreWidths, a7_impl_def, Group, At, K
  <1>3. Made(g[3], "CBAR", 31)
    BY Sum3 DEF Made, AreWidths, a7_impl_def, Group, At, K
  <1>4. \A r \in {"L2CTLR", "L2ECTLR", "CBAR"} : Size(part, r) = 32
    BY PartArches DEF Size, Wide, Bodiless, Unread, ARCH_ARMV7A, ARCH_ARMV8A
  <1>5. \A r \in {"CBAR"} : <<part, r>> \in Irregular
    BY DEF Irregular, Cortexes
  <1> HIDE DEF g, part
  <1>6. \A k \in 1 .. 3 : Regular(part, g[k])
    BY <1>1, <1>2, <1>3, <1>4, <1>5, MadeRegular, OddRegular, Numbers
  <1>7. OneEach(g, 3, {"L2CTLR", "L2ECTLR", "CBAR"})
    <2>1. g = [k \in 1 .. 3 |-> g[k]]
      BY DEF g, a7_impl_def, Group
    <2> QED BY <2>1, <1>1, <1>2, <1>3, Numbers DEF OneEach, Made
  <1> QED BY <1>6, <1>7, GroupFields DEF g, part

LEMMA A15IdentFields ==
  FieldsTable(IMPL_CORTEX_A15, a15_ident, {"REVIDR", "MPIDR"})
  <1> DEFINE g == a15_ident
             part == IMPL_CORTEX_A15
  <1>1. Made(g[1], "REVIDR", 32)
    BY Sum1 DEF Made, AreWidths, a15_ident, Group, At, K
  <1>2. Made(g[2], "MPIDR", 32)
    BY Sum8 DEF Made, AreWidths, a15_ident, Group, At, K
  <1>3. \A r \in {"REVIDR", "MPIDR"} : Size(part, r) = 32
    BY PartArches DEF Size, Wide, Bodiless, Unread, ARCH_ARMV7A, ARCH_ARMV8A
  <1> HIDE DEF g, part
  <1>4. \A k \in 1 .. 2 : Regular(part, g[k])
    BY <1>1, <1>2, <1>3, MadeRegular, Numbers
  <1>5. OneEach(g, 2, {"REVIDR", "MPIDR"})
    <2>1. g = [k \in 1 .. 2 |-> g[k]]
      BY DEF g, a15_ident, Group
    <2> QED BY <2>1, <1>1, <1>2, Numbers DEF OneEach, Made
  <1> QED BY <1>4, <1>5, GroupFields DEF g, part

LEMMA A15OtherFields ==
  FieldsTable(IMPL_CORTEX_A15, a15_other, {"ACTLR"})
  <1> DEFINE g == a15_other
             part == IMPL_CORTEX_A15
  <1>1. Made(g[1], "ACTLR", 32)
    BY Sum30 DEF Made, AreWidths, a15_other, Group, At, K
  <1>2. \A r \in {"ACTLR"} : Size(part, r) = 32
    BY PartArches DEF Size, Wide, Bodiless, Unread, ARCH_ARMV7A, ARCH_ARMV8A
  <1> HIDE DEF g, part
  <1>3. \A k \in 1 .. 1 : Regular(part, g[k])
    BY <1>1, <1>2, MadeRegular
  <1>4. OneEach(g, 1, {"ACTLR"})
    <2>1. g = [k \in 1 .. 1 |-> g[k]]
      BY DEF g, a15_other, Group
    <2> QED BY <2>1, <1>1 DEF OneEach, Made
  <1> QED BY <1>3, <1>4, GroupFields DEF g, part

LEMMA A15SecextFields ==
  FieldsTable(IMPL_CORTEX_A15, a15_secext, {"NSACR"})
  <1> DEFINE g == a15_secext
             part == IMPL_CORTEX_A15
  <1>1. Made(g[1], "NSACR", 32)
    BY Sum10 DEF Made, AreWidths, a15_secext, Group, At, K
  <1>2. \A r \in {"NSACR"} : Size(part, r) = 32
    BY PartArches DEF Size, Wide, Bodiless, Unread, ARCH_ARMV7A, ARCH_ARMV8A
  <1> HIDE DEF g, part
  <1>3. \A k \in 1 .. 1 : Regular(part, g[k])
    BY <1>1, <1>2, MadeRegular
  <1>4. OneEach(g, 1, {"NSACR"})
    <2>1. g = [k \in 1 .. 1 |-> g[k]]
      BY DEF g, a15_secext, Group
    <2> QED BY <2>1, <1>1 DEF OneEach, Made
  <1> QED BY <1>3, <1>4, GroupFields DEF g, part

LEMMA A15FaultFields ==
  FieldsTable(IMPL_CORTEX_A15, a15_fault, {"ADFSR"})
  <1> DEFINE g == a15_fault
             part == IMPL_CORTEX_A15
  <1>1. Made(g[1], "ADFSR", 32)
    BY Sum5 DEF Made, AreWidths, a15_fault, Group, At, K
  <1>2. \A r \in {"ADFSR"} : Size(part, r) = 32
    BY PartArches DEF Size, Wide, Bodiless, Unread, ARCH_ARMV7A, ARCH_ARMV8A
  <1> HIDE DEF g, part
  <1>3. \A k \in 1 .. 1 : Regular(part, g[k])
    BY <1>1, <1>2, MadeRegular
  <1>4. OneEach(g, 1, {"ADFSR"})
    <2>1. g = [k \in 1 .. 1 |-> g[k]]
      BY DEF g, a15_fault, Group
    <2> QED BY <2>1, <1>1 DEF OneEach, Made
  <1> QED BY <1>3, <1>4, GroupFields DEF g, part

LEMMA A15ImplDef1Fields ==
  FieldsTable(IMPL_CORTEX_A15, a15_impl_def_1, {"L2CTLR", "IL1DATA0", "IL1DATA1", "IL1DATA2",
      "IL1DATA3", "DL1DATA0", "DL1DATA1", "DL1DATA2", "DL1DATA3"})
  <1> DEFINE g == a15_impl_def_1
             part == IMPL_CORTEX_A15
  <1>1. Made(g[1], "L2CTLR", 32)
    <2>1. g[1] = [K("L2CTLR", <<3, 2, 1, 3, 1, 2, 1, 8, 1, 1, 1, 2, 5, 1>>) EXCEPT !.group =
           "impl_def"]
      BY DEF a15_impl_def_1, Group
    <2> QED BY <2>1, Sum14 DEF Made, AreWidths, At, K
  <1>2. Made(g[2], "IL1DATA0", 32)
    <2>1. g[2] = [K("IL1DATA0", <<32>>) EXCEPT !.group = "impl_def"]
      BY DEF a15_impl_def_1, Group
    <2> QED BY <2>1, Sum1 DEF Made, AreWidths, At, K
  <1>3. Made(g[3], "IL1DATA1", 32)
    <2>1. g[3] = [At(PL1, "IL1DATA1", <<<<1, 0, 32>>>>) EXCEPT !.group = "impl_def"]
      BY DEF a15_impl_def_1, Group
    <2> QED BY <2>1, Numbers DEF Made, Spans, RowEnd, At
  <1>4. Made(g[4], "IL1DATA2", 32)
    <2>1. g[4] = [At(PL1, "IL1DATA2", <<<<2, 0, 32>>>>) EXCEPT !.group = "impl_def"]
      BY DEF a15_impl_def_1, Group
    <2> QED BY <2>1, Numbers DEF Made, Spans, RowEnd, At
  <1>5. Made(g[5], "IL1DATA3", 32)
    <2>1. g[5] = [At(PL1, "IL1DATA3", <<<<3, 0, 32>>>>) EXCEPT !.group = "impl_def"]
      BY DEF a15_impl_def_1, Group
    <2> QED BY <2>1, Numbers DEF Made, Spans, RowEnd, At
  <1>6. Made(g[6], "DL1DATA0", 32)
    <2>1. g[6] = [K("DL1DATA0", <<32>>) EXCEPT !.group = "impl_def"]
      BY DEF a15_impl_def_1, Group
    <2> QED BY <2>1, Sum1 DEF Made, AreWidths, At, K
  <1>7. Made(g[7], "DL1DATA1", 32)
    <2>1. g[7] = [At(PL1, "DL1DATA1", <<<<1, 0, 32>>>>) EXCEPT !.group = "impl_def"]
      BY DEF a15_impl_def_1, Group
    <2> QED BY <2>1, Numbers DEF Made, Spans, RowEnd, At
  <1>8. Made(g[8], "DL1DATA2", 32)
    <2>1. g[8] = [At(PL1, "DL1DATA2", <<<<2, 0, 32>>>>) EXCEPT !.group = "impl_def"]
      BY DEF a15_impl_def_1, Group
    <2> QED BY <2>1, Numbers DEF Made, Spans, RowEnd, At
  <1>9. Made(g[9], "DL1DATA3", 32)
    <2>1. g[9] = [At(PL1, "DL1DATA3", <<<<3, 0, 32>>>>) EXCEPT !.group = "impl_def"]
      BY DEF a15_impl_def_1, Group
    <2> QED BY <2>1, Numbers DEF Made, Spans, RowEnd, At
  <1>10. \A r \in {"L2CTLR", "IL1DATA0", "IL1DATA1", "IL1DATA2", "IL1DATA3", "DL1DATA0",
         "DL1DATA1", "DL1DATA2", "DL1DATA3"} : Size(part, r) = 32
    BY PartArches DEF Size, Wide, Bodiless, Unread, ARCH_ARMV7A, ARCH_ARMV8A
  <1> HIDE DEF g, part
  <1>11. \A k \in 1 .. 9 : Regular(part, g[k])
    BY <1>1, <1>2, <1>3, <1>4, <1>5, <1>6, <1>7, <1>8, <1>9, <1>10, MadeRegular, Numbers
  <1>12. OneEach(g, 9, {"L2CTLR", "IL1DATA0", "IL1DATA1", "IL1DATA2", "IL1DATA3", "DL1DATA0",
         "DL1DATA1", "DL1DATA2", "DL1DATA3"})
    <2>1. g = [k \in 1 .. 9 |-> g[k]]
      BY DEF g, a15_impl_def_1, Group
    <2> QED BY <2>1, <1>1, <1>2, <1>3, <1>4, <1>5, <1>6, <1>7, <1>8, <1>9, Numbers DEF OneEach,
       Made
  <1> QED BY <1>11, <1>12, GroupFields DEF g, part

LEMMA A15ImplDef2Fields ==
  FieldsTable(IMPL_CORTEX_A15, a15_impl_def_2, {"L2ACTLR", "L2PFR", "ACTLR2", "CBAR",
      "CPUMERRSR", "L2MERRSR"})
  <1> DEFINE g == a15_impl_def_2
             part == IMPL_CORTEX_A15
  <1>1. Made(g[1], "L2ACTLR", 32)
    <2>1. g[1] = [K("L2ACTLR", <<1, 1, 1, 1, 1, 1, 1, 1, 1, 1, 1, 1, 1, 1, 1, 1, 1, 8, 1, 1, 1,
           1, 3>>) EXCEPT !.group = "impl_def"]
      BY DEF a15_impl_def_2, Group
    <2> QED BY <2>1, Sum23 DEF Made, AreWidths, At, K
  <1>2. Made(g[2], "L2PFR", 32)
    <2>1. g[2] = [K("L2PFR", <<4, 2, 1, 2, 1, 1, 1, 1, 19>>) EXCEPT !.group = "impl_def"]
      BY DEF a15_impl_def_2, Group
    <2> QED BY <2>1, Sum9 DEF Made, AreWidths, At, K
  <1>3. Made(g[3], "ACTLR2", 32)
    <2>1. g[3] = [K("ACTLR2", <<1, 30, 1>>) EXCEPT !.group = "impl_def"]
      BY DEF a15_impl_def_2, Group
    <2> QED BY <2>1, Sum3 DEF Made, AreWidths, At, K
  <1>4. Made(g[4], "CBAR", 31)
    <2>1. g[4] = [K("CBAR", <<8, 7, 16>>) EXCEPT !.group = "impl_def"]
      BY DEF a15_impl_def_2, Group
    <2> QED BY <2>1, Sum3 DEF Made, AreWidths, At, K
  <1>5. g[5].register = "CPUMERRSR"
    BY DEF a15_impl_def_2, Group, At
  <1>6. g[6].register = "L2MERRSR"
    BY DEF a15_impl_def_2, Group, At
  <1>7. \A r \in {"L2ACTLR", "L2PFR", "ACTLR2", "CBAR"} : Size(part, r) = 32
    BY PartArches DEF Size, Wide, Bodiless, Unread, ARCH_ARMV7A, ARCH_ARMV8A
  <1>8. \A r \in {"CBAR", "CPUMERRSR", "L2MERRSR"} : <<part, r>> \in Irregular
    BY DEF Irregular, Cortexes
  <1>9. \A r \in {"CPUMERRSR", "L2MERRSR"} : r \in Short[ArchOfPart(part)]
    BY PartArches DEF Short, Unread, Arches, ARCH_ARMV7A, ARCH_ARMV8A
  <1> HIDE DEF g, part
  <1>10. \A k \in 1 .. 6 : Regular(part, g[k])
    BY <1>1, <1>2, <1>3, <1>4, <1>5, <1>6, <1>7, <1>8, <1>9, MadeRegular, OddRegular,
       BothRegular, Numbers
  <1>11. OneEach(g, 6, {"L2ACTLR", "L2PFR", "ACTLR2", "CBAR", "CPUMERRSR", "L2MERRSR"})
    <2>1. g = [k \in 1 .. 6 |-> g[k]]
      BY DEF g, a15_impl_def_2, Group
    <2> QED BY <2>1, <1>1, <1>2, <1>3, <1>4, <1>5, <1>6, Numbers DEF OneEach, Made
  <1> QED BY <1>10, <1>11, GroupFields DEF g, part

LEMMA A53ImplDef1Fields ==
  FieldsTable(IMPL_CORTEX_A53, a53_impl_def_1, {"L2CTLR", "L2ECTLR", "L2ACTLR"})
  <1> DEFINE g == a53_impl_def_1
             part == IMPL_CORTEX_A53
  <1>1. Made(g[1], "L2CTLR", 32)
    BY Sum9 DEF Made, AreWidths, a53_impl_def_1, Group, At, K
  <1>2. Made(g[2], "L2ECTLR", 32)
    BY Sum5 DEF Made, AreWidths, a53_impl_def_1, Group, At, K
  <1>3. Made(g[3], "L2ACTLR", 32)
    BY Sum9 DEF Made, AreWidths, a53_impl_def_1, Group, At, K
  <1>4. \A r \in {"L2CTLR", "L2ECTLR", "L2ACTLR"} : Size(part, r) = 32
    BY PartArches DEF Size, Wide, Bodiless, Unread, ARCH_ARMV7A, ARCH_ARMV8A
  <1> HIDE DEF g, part
  <1>5. \A k \in 1 .. 3 : Regular(part, g[k])
    BY <1>1, <1>2, <1>3, <1>4, MadeRegular, Numbers
  <1>6. OneEach(g, 3, {"L2CTLR", "L2ECTLR", "L2ACTLR"})
    <2>1. g = [k \in 1 .. 3 |-> g[k]]
      BY DEF g, a53_impl_def_1, Group
    <2> QED BY <2>1, <1>1, <1>2, <1>3, Numbers DEF OneEach, Made
  <1> QED BY <1>5, <1>6, GroupFields DEF g, part

LEMMA A53AddrtransFields ==
  FieldsTable(IMPL_CORTEX_A53, a53_addrtrans, {"PAR"})
  <1> DEFINE g == a53_addrtrans
             part == IMPL_CORTEX_A53
  <1>1. Made(g[1], "PAR", 64)
    BY Sum10 DEF Made, AreWidths, a53_addrtrans, Group, At, K
  <1>2. \A r \in {"PAR"} : Size(part, r) = 64
    BY PartArches DEF Size, Wide, Bodiless, Unread, ARCH_ARMV7A, ARCH_ARMV8A
  <1> HIDE DEF g, part
  <1>3. \A k \in 1 .. 1 : Regular(part, g[k])
    BY <1>1, <1>2, MadeRegular
  <1>4. OneEach(g, 1, {"PAR"})
    <2>1. g = [k \in 1 .. 1 |-> g[k]]
      BY DEF g, a53_addrtrans, Group
    <2> QED BY <2>1, <1>1 DEF OneEach, Made
  <1> QED BY <1>3, <1>4, GroupFields DEF g, part

LEMMA A53ImplDef2Fields ==
  FieldsTable(IMPL_CORTEX_A53, a53_impl_def_2, {"CPUACTLR", "CPUECTLR", "CPUMERRSR", "L2MERRSR",
      "CBAR"})
  <1> DEFINE g == a53_impl_def_2
             part == IMPL_CORTEX_A53
  <1>1. Made(g[1], "CPUACTLR", 64)
    <2>1. g[1] = [K("CPUACTLR", <<6, 1, 3, 1, 2, 3, 1, 1, 1, 2, 1, 1, 1, 1, 2, 2, 1, 1, 13, 1,
           19>>) EXCEPT !.group = "impl_def"]
      BY DEF a53_impl_def_2, Group
    <2> QED BY <2>1, Sum21 DEF Made, AreWidths, At, K
  <1>2. Made(g[2], "CPUECTLR", 64)
    <2>1. g[2] = [K("CPUECTLR", <<3, 3, 1, 57>>) EXCEPT !.group = "impl_def"]
      BY DEF a53_impl_def_2, Group
    <2> QED BY <2>1, Sum4 DEF Made, AreWidths, At, K
  <1>3. Made(g[3], "CPUMERRSR", 64)
    <2>1. g[3] = [K("CPUMERRSR", <<12, 6, 3, 3, 7, 1, 8, 8, 15, 1>>) EXCEPT !.group = "impl_def"]
      BY DEF a53_impl_def_2, Group
    <2> QED BY <2>1, Sum10 DEF Made, AreWidths, At, K
  <1>4. Made(g[4], "L2MERRSR", 64)
    <2>1. g[4] = [K("L2MERRSR", <<3, 14, 1, 4, 2, 7, 1, 8, 8, 15, 1>>) EXCEPT !.group =
           "impl_def"]
      BY DEF a53_impl_def_2, Group
    <2> QED BY <2>1, Sum11 DEF Made, AreWidths, At, K
  <1>5. Tops(g[5], "CBAR", 64)
    <2>1. g[5] = [At(PL1, "CBAR", <<<<0, 0, 18>>, <<1, 18, 32>>, <<2, 40, 24>>>>) EXCEPT !.group
           = "impl_def"]
      BY DEF a53_impl_def_2, Group
    <2> QED BY <2>1, Numbers DEF Tops, RowEnd, At
  <1>6. \A r \in {"CPUACTLR", "CPUECTLR", "CPUMERRSR", "L2MERRSR", "CBAR"} : Size(part, r) = 64
    BY PartArches DEF Size, Wide, Bodiless, Unread, ARCH_ARMV7A, ARCH_ARMV8A
  <1>7. \A r \in {"CBAR"} : <<part, r>> \in Irregular
    BY DEF Irregular, Cortexes
  <1> HIDE DEF g, part
  <1>8. \A k \in 1 .. 5 : Regular(part, g[k])
    BY <1>1, <1>2, <1>3, <1>4, <1>5, <1>6, <1>7, MadeRegular, TopsRegular, Numbers
  <1>9. OneEach(g, 5, {"CPUACTLR", "CPUECTLR", "CPUMERRSR", "L2MERRSR", "CBAR"})
    <2>1. g = [k \in 1 .. 5 |-> g[k]]
      BY DEF g, a53_impl_def_2, Group
    <2> QED BY <2>1, <1>1, <1>2, <1>3, <1>4, <1>5, Numbers DEF OneEach, Made, Tops
  <1> QED BY <1>8, <1>9, GroupFields DEF g, part

LEMMA A53VirtmemFields ==
  FieldsTable(IMPL_CORTEX_A53, a53_virtmem, {"SCTLR"})
  <1> DEFINE g == a53_virtmem
             part == IMPL_CORTEX_A53
  <1>1. Made(g[1], "SCTLR", 32)
    BY Sum29 DEF Made, AreWidths, a53_virtmem, Group, At, K
  <1>2. \A r \in {"SCTLR"} : Size(part, r) = 32
    BY PartArches DEF Size, Wide, Bodiless, Unread, ARCH_ARMV7A, ARCH_ARMV8A
  <1> HIDE DEF g, part
  <1>3. \A k \in 1 .. 1 : Regular(part, g[k])
    BY <1>1, <1>2, MadeRegular
  <1>4. OneEach(g, 1, {"SCTLR"})
    <2>1. g = [k \in 1 .. 1 |-> g[k]]
      BY DEF g, a53_virtmem, Group
    <2> QED BY <2>1, <1>1 DEF OneEach, Made
  <1> QED BY <1>3, <1>4, GroupFields DEF g, part

LEMMA A53FaultFields ==
  FieldsTable(IMPL_CORTEX_A53, a53_fault, {"DFSR"})
  <1> DEFINE g == a53_fault
             part == IMPL_CORTEX_A53
  <1>1. Made(g[1], "DFSR", 31)
    BY Sum4 DEF Made, AreWidths, a53_fault, Group, At, K, Named
  <1>2. \A r \in {"DFSR"} : Size(part, r) = 32
    BY PartArches DEF Size, Wide, Bodiless, Unread, ARCH_ARMV7A, ARCH_ARMV8A
  <1>3. \A r \in {"DFSR"} : <<part, r>> \in Irregular
    BY DEF Irregular, Cortexes
  <1> HIDE DEF g, part
  <1>4. \A k \in 1 .. 1 : Regular(part, g[k])
    BY <1>1, <1>2, <1>3, OddRegular
  <1>5. OneEach(g, 1, {"DFSR"})
    <2>1. g = [k \in 1 .. 1 |-> g[k]]
      BY DEF g, a53_fault, Group
    <2> QED BY <2>1, <1>1 DEF OneEach, Made
  <1> QED BY <1>4, <1>5, GroupFields DEF g, part

LEMMA A57IdentFields ==
  FieldsTable(IMPL_CORTEX_A57, a57_ident, {"MPIDR"})
  <1> DEFINE g == a57_ident
             part == IMPL_CORTEX_A57
  <1>1. Made(g[1], "MPIDR", 64)
    BY Sum9 DEF Made, AreWidths, a57_ident, Group, At, K
  <1>2. \A r \in {"MPIDR"} : Size(part, r) = 32
    BY PartArches DEF Size, Wide, Bodiless, Unread, ARCH_ARMV7A, ARCH_ARMV8A
  <1>3. \A r \in {"MPIDR"} : r \in Short[ArchOfPart(part)]
    BY PartArches DEF Short, Unread, Arches, ARCH_ARMV7A, ARCH_ARMV8A
  <1> HIDE DEF g, part
  <1>4. \A k \in 1 .. 1 : Regular(part, g[k])
    BY <1>1, <1>2, <1>3, LongRegular
  <1>5. OneEach(g, 1, {"MPIDR"})
    <2>1. g = [k \in 1 .. 1 |-> g[k]]
      BY DEF g, a57_ident, Group
    <2> QED BY <2>1, <1>1 DEF OneEach, Made
  <1> QED BY <1>4, <1>5, GroupFields DEF g, part

LEMMA A57VirtmemFields ==
  FieldsTable(IMPL_CORTEX_A57, a57_virtmem, {"SCTLR", "TTBR0", "TTBR1"})
  <1> DEFINE g == a57_virtmem
             part == IMPL_CORTEX_A57
  <1>1. Made(g[1], "SCTLR", 32)
    BY Sum29 DEF Made, AreWidths, a57_virtmem, Group, At, K
  <1>2. Made(g[2], "TTBR0", 64)
    BY Sum3 DEF Made, AreWidths, a57_virtmem, Group, At, K
  <1>3. Made(g[3], "TTBR1", 64)
    BY Sum3 DEF Made, AreWidths, a57_virtmem, Group, At, K
  <1>4. \A r \in {"SCTLR"} : Size(part, r) = 32
    BY PartArches DEF Size, Wide, Bodiless, Unread, ARCH_ARMV7A, ARCH_ARMV8A
  <1>5. \A r \in {"TTBR0", "TTBR1"} : Size(part, r) = 64
    BY PartArches DEF Size, Wide, Bodiless, Unread, ARCH_ARMV7A, ARCH_ARMV8A
  <1> HIDE DEF g, part
  <1>6. \A k \in 1 .. 3 : Regular(part, g[k])
    BY <1>1, <1>2, <1>3, <1>4, <1>5, MadeRegular, Numbers
  <1>7. OneEach(g, 3, {"SCTLR", "TTBR0", "TTBR1"})
    <2>1. g = [k \in 1 .. 3 |-> g[k]]
      BY DEF g, a57_virtmem, Group
    <2> QED BY <2>1, <1>1, <1>2, <1>3, Numbers DEF OneEach, Made
  <1> QED BY <1>6, <1>7, GroupFields DEF g, part

LEMMA A57FaultFields ==
  FieldsTable(IMPL_CORTEX_A57, a57_fault, {"DFSR"})
  <1> DEFINE g == a57_fault
             part == IMPL_CORTEX_A57
  <1>1. Made(g[1], "DFSR", 32)
    BY Sum8 DEF Made, AreWidths, a57_fault, Group, At, K, Named
  <1>2. \A r \in {"DFSR"} : Size(part, r) = 32
    BY PartArches DEF Size, Wide, Bodiless, Unread, ARCH_ARMV7A, ARCH_ARMV8A
  <1> HIDE DEF g, part
  <1>3. \A k \in 1 .. 1 : Regular(part, g[k])
    BY <1>1, <1>2, MadeRegular
  <1>4. OneEach(g, 1, {"DFSR"})
    <2>1. g = [k \in 1 .. 1 |-> g[k]]
      BY DEF g, a57_fault, Group
    <2> QED BY <2>1, <1>1 DEF OneEach, Made
  <1> QED BY <1>3, <1>4, GroupFields DEF g, part

LEMMA A57AddrtransFields ==
  FieldsTable(IMPL_CORTEX_A57, a57_addrtrans, {"PAR"})
  <1> DEFINE g == a57_addrtrans
             part == IMPL_CORTEX_A57
  <1>1. Made(g[1], "PAR", 64)
    BY Sum10 DEF Made, AreWidths, a57_addrtrans, Group, At, K
  <1>2. \A r \in {"PAR"} : Size(part, r) = 64
    BY PartArches DEF Size, Wide, Bodiless, Unread, ARCH_ARMV7A, ARCH_ARMV8A
  <1> HIDE DEF g, part
  <1>3. \A k \in 1 .. 1 : Regular(part, g[k])
    BY <1>1, <1>2, MadeRegular
  <1>4. OneEach(g, 1, {"PAR"})
    <2>1. g = [k \in 1 .. 1 |-> g[k]]
      BY DEF g, a57_addrtrans, Group
    <2> QED BY <2>1, <1>1 DEF OneEach, Made
  <1> QED BY <1>3, <1>4, GroupFields DEF g, part

LEMMA A57ImplDef1Fields ==
  FieldsTable(IMPL_CORTEX_A57, a57_impl_def_1, {"L2CTLR", "L2ECTLR", "L2ACTLR"})
  <1> DEFINE g == a57_impl_def_1
             part == IMPL_CORTEX_A57
  <1>1. Made(g[1], "L2CTLR", 32)
    BY Sum16 DEF Made, AreWidths, a57_impl_def_1, Group, At, K
  <1>2. Made(g[2], "L2ECTLR", 32)
    BY Sum5 DEF Made, AreWidths, a57_impl_def_1, Group, At, K
  <1>3. Made(g[3], "L2ACTLR", 32)
    BY Sum28 DEF Made, AreWidths, a57_impl_def_1, Group, At, K
  <1>4. \A r \in {"L2CTLR", "L2ECTLR", "L2ACTLR"} : Size(part, r) = 32
    BY PartArches DEF Size, Wide, Bodiless, Unread, ARCH_ARMV7A, ARCH_ARMV8A
  <1> HIDE DEF g, part
  <1>5. \A k \in 1 .. 3 : Regular(part, g[k])
    BY <1>1, <1>2, <1>3, <1>4, MadeRegular, Numbers
  <1>6. OneEach(g, 3, {"L2CTLR", "L2ECTLR", "L2ACTLR"})
    <2>1. g = [k \in 1 .. 3 |-> g[k]]
      BY DEF g, a57_impl_def_1, Group
    <2> QED BY <2>1, <1>1, <1>2, <1>3, Numbers DEF OneEach, Made
  <1> QED BY <1>5, <1>6, GroupFields DEF g, part

LEMMA A57ImplDef2Fields ==
  FieldsTable(IMPL_CORTEX_A57, a57_impl_def_2, {"CPUACTLR", "CPUMERRSR", "L2MERRSR", "CBAR",
      "CPUECTLR"})
  <1> DEFINE g == a57_impl_def_2
             part == IMPL_CORTEX_A57
  <1>1. Made(g[1], "CPUACTLR", 64)
    <2>1. g[1] = [K("CPUACTLR", Each(25, 1) \o <<2, 2>> \o Each(11, 1) \o <<4, 1, 2>> \o Each(13,
           1) \o <<3, 1>>) EXCEPT !.group = "impl_def"]
      BY DEF a57_impl_def_2, Group
    <2> QED BY <2>1, CpuactlrSpans DEF Made, At, K
  <1>2. Made(g[2], "CPUMERRSR", 64)
    <2>1. g[2] = [K("CPUMERRSR", <<18, 5, 1, 7, 1, 8, 8, 15, 1>>) EXCEPT !.group = "impl_def"]
      BY DEF a57_impl_def_2, Group
    <2> QED BY <2>1, Sum9 DEF Made, AreWidths, At, K
  <1>3. Made(g[3], "L2MERRSR", 64)
    <2>1. g[3] = [K("L2MERRSR", <<18, 4, 2, 7, 1, 8, 8, 15, 1>>) EXCEPT !.group = "impl_def"]
      BY DEF a57_impl_def_2, Group
    <2> QED BY <2>1, Sum9 DEF Made, AreWidths, At, K
  <1>4. Tops(g[4], "CBAR", 64)
    <2>1. g[4] = [At(PL1, "CBAR", <<<<0, 0, 18>>, <<1, 18, 32>>, <<2, 40, 24>>>>) EXCEPT !.group
           = "impl_def"]
      BY DEF a57_impl_def_2, Group
    <2> QED BY <2>1, Numbers DEF Tops, RowEnd, At
  <1>5. Made(g[5], "CPUECTLR", 64)
    <2>1. g[5] = [K("CPUECTLR", <<3, 3, 1, 25, 2, 1, 2, 1, 1, 25>>) EXCEPT !.group = "impl_def"]
      BY DEF a57_impl_def_2, Group
    <2> QED BY <2>1, Sum10 DEF Made, AreWidths, At, K
  <1>6. \A r \in {"CPUACTLR", "CPUMERRSR", "L2MERRSR", "CBAR", "CPUECTLR"} : Size(part, r) = 64
    BY PartArches DEF Size, Wide, Bodiless, Unread, ARCH_ARMV7A, ARCH_ARMV8A
  <1>7. \A r \in {"CBAR"} : <<part, r>> \in Irregular
    BY DEF Irregular, Cortexes
  <1> HIDE DEF g, part
  <1>8. \A k \in 1 .. 5 : Regular(part, g[k])
    BY <1>1, <1>2, <1>3, <1>4, <1>5, <1>6, <1>7, MadeRegular, TopsRegular, Numbers
  <1>9. OneEach(g, 5, {"CPUACTLR", "CPUMERRSR", "L2MERRSR", "CBAR", "CPUECTLR"})
    <2>1. g = [k \in 1 .. 5 |-> g[k]]
      BY DEF g, a57_impl_def_2, Group
    <2> QED BY <2>1, <1>1, <1>2, <1>3, <1>4, <1>5, Numbers DEF OneEach, Made, Tops
  <1> QED BY <1>8, <1>9, GroupFields DEF g, part

LEMMA Armv7AIdent1Fields ==
  FieldsTable(ARCH_ARMV7A, armv7a_ident_1, {"PFR0", "PFR1", "DFR0", "AFR0", "MMFR0", "MMFR1",
      "MMFR2", "MMFR3"})
  <1> DEFINE g == armv7a_ident_1
             part == ARCH_ARMV7A
  <1>1. Made(g[1], "PFR0", 32)
    BY Sum5 DEF Made, AreWidths, armv7a_ident_1, Group, At, K
  <1>2. Made(g[2], "PFR1", 32)
    BY Sum6 DEF Made, AreWidths, armv7a_ident_1, Group, At, K
  <1>3. Made(g[3], "DFR0", 32)
    BY Sum8 DEF Made, AreWidths, armv7a_ident_1, Group, At, K, Each
  <1>4. Made(g[4], "AFR0", 32)
    BY Sum5 DEF Made, AreWidths, armv7a_ident_1, Group, At, K
  <1>5. Made(g[5], "MMFR0", 32)
    BY Sum8 DEF Made, AreWidths, armv7a_ident_1, Group, At, K, Each
  <1>6. Made(g[6], "MMFR1", 32)
    BY Sum8 DEF Made, AreWidths, armv7a_ident_1, Group, At, K, Each
  <1>7. Made(g[7], "MMFR2", 32)
    BY Sum8 DEF Made, AreWidths, armv7a_ident_1, Group, At, K, Each
  <1>8. Made(g[8], "MMFR3", 32)
    BY Sum8 DEF Made, AreWidths, armv7a_ident_1, Group, At, K, Each
  <1>9. \A r \in {"PFR0", "PFR1", "DFR0", "AFR0", "MMFR0", "MMFR1", "MMFR2", "MMFR3"} :
         Size(part, r) = 32
    BY PartArches DEF Size, Wide, Bodiless, Unread, ARCH_ARMV7A, ARCH_ARMV8A
  <1> HIDE DEF g, part
  <1>10. \A k \in 1 .. 8 : Regular(part, g[k])
    BY <1>1, <1>2, <1>3, <1>4, <1>5, <1>6, <1>7, <1>8, <1>9, MadeRegular, Numbers
  <1>11. OneEach(g, 8, {"PFR0", "PFR1", "DFR0", "AFR0", "MMFR0", "MMFR1", "MMFR2", "MMFR3"})
    <2>1. g = [k \in 1 .. 8 |-> g[k]]
      BY DEF g, armv7a_ident_1, Group
    <2> QED BY <2>1, <1>1, <1>2, <1>3, <1>4, <1>5, <1>6, <1>7, <1>8, Numbers DEF OneEach, Made
  <1> QED BY <1>10, <1>11, GroupFields DEF g, part

LEMMA Armv7AIdent2Fields ==
  FieldsTable(ARCH_ARMV7A, armv7a_ident_2, {"ISAR0", "ISAR1", "ISAR2", "ISAR3", "ISAR4", "ISAR5",
      "REVIDR", "TLBTR", "CCSIDR", "TCMTR", "AIDR", "CLIDR", "CSSELR", "CTR", "MIDR", "MPIDR"})
  <1> DEFINE g == armv7a_ident_2
             part == ARCH_ARMV7A
  <1>1. Made(g[1], "ISAR0", 32)
    BY Sum8 DEF Made, AreWidths, armv7a_ident_2, Group, At, K, Each
  <1>2. Made(g[2], "ISAR1", 32)
    BY Sum8 DEF Made, AreWidths, armv7a_ident_2, Group, At, K, Each
  <1>3. Made(g[3], "ISAR2", 32)
    BY Sum8 DEF Made, AreWidths, armv7a_ident_2, Group, At, K, Each
  <1>4. Made(g[4], "ISAR3", 32)
    BY Sum8 DEF Made, AreWidths, armv7a_ident_2, Group, At, K, Each
  <1>5. Made(g[5], "ISAR4", 32)
    BY Sum8 DEF Made, AreWidths, armv7a_ident_2, Group, At, K, Each
  <1>6. Made(g[6], "ISAR5", 32)
    BY Sum1 DEF Made, AreWidths, armv7a_ident_2, Group, At, K
  <1>7. Made(g[7], "REVIDR", 32)
    BY Sum1 DEF Made, AreWidths, armv7a_ident_2, Group, At, K
  <1>8. Made(g[8], "TLBTR", 32)
    BY Sum2 DEF Made, AreWidths, armv7a_ident_2, Group, At, K
  <1>9. Made(g[9], "CCSIDR", 32)
    BY Sum7 DEF Made, AreWidths, armv7a_ident_2, Group, At, K
  <1>10. Made(g[10], "TCMTR", 32)
    BY Sum2 DEF Made, AreWidths, armv7a_ident_2, Group, At, K
  <1>11. Made(g[11], "AIDR", 32)
    BY Sum1 DEF Made, AreWidths, armv7a_ident_2, Group, At, K
  <1>12. Made(g[12], "CLIDR", 32)
    BY Sum11 DEF Made, AreWidths, armv7a_ident_2, Group, At, K
  <1>13. Made(g[13], "CSSELR", 32)
    BY Sum3 DEF Made, AreWidths, armv7a_ident_2, Group, At, K
  <1>14. Made(g[14], "CTR", 32)
    BY Sum8 DEF Made, AreWidths, armv7a_ident_2, Group, At, K
  <1>15. Made(g[15], "MIDR", 32)
    BY Sum5 DEF Made, AreWidths, armv7a_ident_2, Group, At, K
  <1>16. Made(g[16], "MPIDR", 32)
    BY Sum7 DEF Made, AreWidths, armv7a_ident_2, Group, At, K
  <1>17. \A r \in {"ISAR0", "ISAR1", "ISAR2", "ISAR3", "ISAR4", "ISAR5", "REVIDR", "TLBTR",
         "CCSIDR", "TCMTR", "AIDR", "CLIDR", "CSSELR", "CTR", "MIDR", "MPIDR"} : Size(part, r) =
         32
    BY PartArches DEF Size, Wide, Bodiless, Unread, ARCH_ARMV7A, ARCH_ARMV8A
  <1> HIDE DEF g, part
  <1>18. \A k \in 1 .. 16 : Regular(part, g[k])
    BY <1>1, <1>2, <1>3, <1>4, <1>5, <1>6, <1>7, <1>8, <1>9, <1>10, <1>11, <1>12, <1>13, <1>14,
       <1>15, <1>16, <1>17, MadeRegular, Numbers
  <1>19. OneEach(g, 16, {"ISAR0", "ISAR1", "ISAR2", "ISAR3", "ISAR4", "ISAR5", "REVIDR", "TLBTR",
         "CCSIDR", "TCMTR", "AIDR", "CLIDR", "CSSELR", "CTR", "MIDR", "MPIDR"})
    <2>1. g = [k \in 1 .. 16 |-> g[k]]
      BY DEF g, armv7a_ident_2, Group
    <2> QED BY <2>1, <1>1, <1>2, <1>3, <1>4, <1>5, <1>6, <1>7, <1>8, <1>9, <1>10, <1>11, <1>12,
       <1>13, <1>14, <1>15, <1>16, Numbers DEF OneEach, Made
  <1> QED BY <1>18, <1>19, GroupFields DEF g, part

LEMMA Armv7AFpFields ==
  FieldsTable(ARCH_ARMV7A, armv7a_fp, {"FPSID", "FPSCR", "FPEXC", "MVFR0", "MVFR1"})
  <1> DEFINE g == armv7a_fp
             part == ARCH_ARMV7A
  <1>1. Tops(g[1], "FPSID", 32)
    <2>1. g[1] = [At(PL1, "FPSID", <<<<0, 0, 4>>, <<1, 4, 4>>, <<2, 8, 8>>, <<3, 16, 6>>, <<4,
           23, 1>>, <<5, 24, 8>>>>) EXCEPT !.group = "fp"]
      BY DEF armv7a_fp, Group
    <2> QED BY <2>1, Numbers DEF Tops, RowEnd, At
  <1>2. Made(g[2], "FPSCR", 32)
    <2>1. g[2] = [K("FPSCR", <<1, 1, 1, 1, 1, 2, 1, 1, 1, 1, 1, 1, 2, 1, 3, 1, 2, 2, 1, 1, 1, 1,
           1, 1, 1, 1>>) EXCEPT !.group = "fp"]
      BY DEF armv7a_fp, Group
    <2> QED BY <2>1, Sum26 DEF Made, AreWidths, At, K
  <1>3. Tops(g[3], "FPEXC", 32)
    <2>1. g[3] = [At(PL1, "FPEXC", <<<<0, 0, 29>>, <<1, 30, 1>>, <<2, 31, 1>>>>) EXCEPT !.group =
           "fp"]
      BY DEF armv7a_fp, Group
    <2> QED BY <2>1, Numbers DEF Tops, RowEnd, At
  <1>4. Made(g[4], "MVFR0", 32)
    <2>1. g[4] = [K("MVFR0", Each(8, 4)) EXCEPT !.group = "fp"]
      BY DEF armv7a_fp, Group
    <2> QED BY <2>1, Sum8 DEF Made, AreWidths, At, K, Each
  <1>5. Made(g[5], "MVFR1", 32)
    <2>1. g[5] = [K("MVFR1", Each(8, 4)) EXCEPT !.group = "fp"]
      BY DEF armv7a_fp, Group
    <2> QED BY <2>1, Sum8 DEF Made, AreWidths, At, K, Each
  <1>6. \A r \in {"FPSID", "FPSCR", "FPEXC", "MVFR0", "MVFR1"} : Size(part, r) = 32
    BY PartArches DEF Size, Wide, Bodiless, Unread, ARCH_ARMV7A, ARCH_ARMV8A
  <1>7. \A r \in {"FPSID", "FPEXC"} : <<part, r>> \in Irregular
    BY DEF Irregular, Cortexes
  <1> HIDE DEF g, part
  <1>8. \A k \in 1 .. 5 : Regular(part, g[k])
    BY <1>1, <1>2, <1>3, <1>4, <1>5, <1>6, <1>7, MadeRegular, TopsRegular, Numbers
  <1>9. OneEach(g, 5, {"FPSID", "FPSCR", "FPEXC", "MVFR0", "MVFR1"})
    <2>1. g = [k \in 1 .. 5 |-> g[k]]
      BY DEF g, armv7a_fp, Group
    <2> QED BY <2>1, <1>1, <1>2, <1>3, <1>4, <1>5, Numbers DEF OneEach, Made, Tops
  <1> QED BY <1>8, <1>9, GroupFields DEF g, part

LEMMA Armv7ASecextFields ==
  FieldsTable(ARCH_ARMV7A, armv7a_secext, {"SCR", "ISR", "MVBAR", "NSACR", "SDER", "VBAR"})
  <1> DEFINE g == armv7a_secext
             part == ARCH_ARMV7A
  <1>1. Made(g[1], "SCR", 32)
    BY Sum11 DEF Made, AreWidths, armv7a_secext, Group, At, SEC
  <1>2. Made(g[2], "ISR", 32)
    BY Sum5 DEF Made, AreWidths, armv7a_secext, Group, At, K
  <1>3. Made(g[3], "MVBAR", 32)
    BY Sum2 DEF Made, AreWidths, armv7a_secext, Group, At, SEC
  <1>4. Made(g[4], "NSACR", 32)
    BY Sum20 DEF Made, AreWidths, armv7a_secext, Group, At, K
  <1>5. Made(g[5], "SDER", 32)
    BY Sum3 DEF Made, AreWidths, armv7a_secext, Group, At, SEC
  <1>6. Made(g[6], "VBAR", 32)
    BY Sum2 DEF Made, AreWidths, armv7a_secext, Group, At, K
  <1>7. \A r \in {"SCR", "ISR", "MVBAR", "NSACR", "SDER", "VBAR"} : Size(part, r) = 32
    BY PartArches DEF Size, Wide, Bodiless, Unread, ARCH_ARMV7A, ARCH_ARMV8A
  <1> HIDE DEF g, part
  <1>8. \A k \in 1 .. 6 : Regular(part, g[k])
    BY <1>1, <1>2, <1>3, <1>4, <1>5, <1>6, <1>7, MadeRegular, Numbers
  <1>9. OneEach(g, 6, {"SCR", "ISR", "MVBAR", "NSACR", "SDER", "VBAR"})
    <2>1. g = [k \in 1 .. 6 |-> g[k]]
      BY DEF g, armv7a_secext, Group
    <2> QED BY <2>1, <1>1, <1>2, <1>3, <1>4, <1>5, <1>6, Numbers DEF OneEach, Made
  <1> QED BY <1>8, <1>9, GroupFields DEF g, part

LEMMA Armv7ADebugFields ==
  FieldsTable(ARCH_ARMV7A, armv7a_debug, {"DBGDIDR", "DBGAUTHSTATUS", "DBGDRAR", "DBGDSCR"})
  <1> DEFINE g == armv7a_debug
             part == ARCH_ARMV7A
  <1>1. Made(g[1], "DBGDIDR", 32)
    BY Sum11 DEF Made, AreWidths, armv7a_debug, Group, At, K
  <1>2. Made(g[2], "DBGAUTHSTATUS", 32)
    BY Sum9 DEF Made, AreWidths, armv7a_debug, Group, At, K
  <1>3. Made(g[3], "DBGDRAR", 64)
    BY Sum4 DEF Made, AreWidths, armv7a_debug, Group, At, K
  <1>4. Made(g[4], "DBGDSCR", 32)
    BY Sum27 DEF Made, AreWidths, armv7a_debug, Group, At, K
  <1>5. \A r \in {"DBGDIDR", "DBGAUTHSTATUS", "DBGDSCR"} : Size(part, r) = 32
    BY PartArches DEF Size, Wide, Bodiless, Unread, ARCH_ARMV7A, ARCH_ARMV8A
  <1>6. \A r \in {"DBGDRAR"} : Size(part, r) = 64
    BY PartArches DEF Size, Wide, Bodiless, Unread, ARCH_ARMV7A, ARCH_ARMV8A
  <1> HIDE DEF g, part
  <1>7. \A k \in 1 .. 4 : Regular(part, g[k])
    BY <1>1, <1>2, <1>3, <1>4, <1>5, <1>6, MadeRegular, Numbers
  <1>8. OneEach(g, 4, {"DBGDIDR", "DBGAUTHSTATUS", "DBGDRAR", "DBGDSCR"})
    <2>1. g = [k \in 1 .. 4 |-> g[k]]
      BY DEF g, armv7a_debug, Group
    <2> QED BY <2>1, <1>1, <1>2, <1>3, <1>4, Numbers DEF OneEach, Made
  <1> QED BY <1>7, <1>8, GroupFields DEF g, part

LEMMA Armv7AVirtmemFields ==
  FieldsTable(ARCH_ARMV7A, armv7a_virtmem, {"NMRR", "PRRR", "SCTLR", "TTBCR", "TTBR0",
      "TTBR0LPAE", "TTBR1", "TTBR1LPAE", "CONTEXTIDR", "AMAIR0", "AMAIR1", "DACR", "MAIR0",
      "MAIR1"})
  <1> DEFINE g == armv7a_virtmem
             part == ARCH_ARMV7A
  <1>1. Made(g[1], "NMRR", 32)
    <2>1. g[1] = [K("NMRR", Each(16, 2)) EXCEPT !.group = "virtmem"]
      BY DEF armv7a_virtmem, Group
    <2> QED BY <2>1, Sum16 DEF Made, AreWidths, At, K, Each
  <1>2. Made(g[2], "PRRR", 32)
    <2>1. g[2] = [K("PRRR", <<2, 2, 2, 2, 2, 2, 2, 2, 1, 1, 1, 1, 4, 1, 1, 1, 1, 1, 1, 1, 1>>)
           EXCEPT !.group = "virtmem"]
      BY DEF armv7a_virtmem, Group
    <2> QED BY <2>1, Sum21 DEF Made, AreWidths, At, K
  <1>3. Made(g[3], "SCTLR", 32)
    <2>1. g[3] = [K("SCTLR", <<1, 1, 1, 2, 1, 1, 1, 2, 1, 1, 1, 1, 1, 1, 1, 1, 1, 1, 1, 1, 1, 1,
           1, 1, 1, 1, 1, 1, 1, 1>>) EXCEPT !.group = "virtmem"]
      BY DEF armv7a_virtmem, Group
    <2> QED BY <2>1, Sum30 DEF Made, AreWidths, At, K
  <1>4. Made(g[4], "TTBCR", 32)
    <2>1. g[4] = [K("TTBCR", <<3, 1, 1, 1, 25, 1>>) EXCEPT !.group = "virtmem"]
      BY DEF armv7a_virtmem, Group
    <2> QED BY <2>1, Sum6 DEF Made, AreWidths, At, K
  <1>5. Made(g[5], "TTBR0", 32)
    <2>1. g[5] = [K("TTBR0", <<1, 1, 1, 2, 1, 1, 25>>) EXCEPT !.group = "virtmem"]
      BY DEF armv7a_virtmem, Group
    <2> QED BY <2>1, Sum7 DEF Made, AreWidths, At, K
  <1>6. Made(g[6], "TTBR0LPAE", 64)
    <2>1. g[6] = [Named("TTBR0", K("TTBR0LPAE", <<64>>)) EXCEPT !.group = "virtmem"]
      BY DEF armv7a_virtmem, Group
    <2> QED BY <2>1, Sum1 DEF Made, AreWidths, At, K, Named
  <1>7. Made(g[7], "TTBR1", 32)
    <2>1. g[7] = [K("TTBR1", <<1, 1, 1, 2, 1, 1, 25>>) EXCEPT !.group = "virtmem"]
      BY DEF armv7a_virtmem, Group
    <2> QED BY <2>1, Sum7 DEF Made, AreWidths, At, K
  <1>8. Made(g[8], "TTBR1LPAE", 64)
    <2>1. g[8] = [Named("TTBR1", K("TTBR1LPAE", <<64>>)) EXCEPT !.group = "virtmem"]
      BY DEF armv7a_virtmem, Group
    <2> QED BY <2>1, Sum1 DEF Made, AreWidths, At, K, Named
  <1>9. Tops(g[9], "CONTEXTIDR", 32)
    <2>1. g[9] = [At(PL1, "CONTEXTIDR", <<<<1, 0, 32>>, <<2, 0, 8>>, <<3, 8, 24>>>>) EXCEPT
           !.group = "virtmem"]
      BY DEF armv7a_virtmem, Group
    <2> QED BY <2>1, Numbers DEF Tops, RowEnd, At
  <1>10. Made(g[10], "AMAIR0", 32)
    <2>1. g[10] = [K("AMAIR0", <<32>>) EXCEPT !.group = "virtmem"]
      BY DEF armv7a_virtmem, Group
    <2> QED BY <2>1, Sum1 DEF Made, AreWidths, At, K
  <1>11. Made(g[11], "AMAIR1", 32)
    <2>1. g[11] = [K("AMAIR1", <<32>>) EXCEPT !.group = "virtmem"]
      BY DEF armv7a_virtmem, Group
    <2> QED BY <2>1, Sum1 DEF Made, AreWidths, At, K
  <1>12. Made(g[12], "DACR", 32)
    <2>1. g[12] = [K("DACR", Each(16, 2)) EXCEPT !.group = "virtmem"]
      BY DEF armv7a_virtmem, Group
    <2> QED BY <2>1, Sum16 DEF Made, AreWidths, At, K, Each
  <1>13. Made(g[13], "MAIR0", 32)
    <2>1. g[13] = [K("MAIR0", <<8, 8, 8, 8>>) EXCEPT !.group = "virtmem"]
      BY DEF armv7a_virtmem, Group
    <2> QED BY <2>1, Sum4 DEF Made, AreWidths, At, K
  <1>14. Made(g[14], "MAIR1", 32)
    <2>1. g[14] = [K("MAIR1", <<8, 8, 8, 8>>) EXCEPT !.group = "virtmem"]
      BY DEF armv7a_virtmem, Group
    <2> QED BY <2>1, Sum4 DEF Made, AreWidths, At, K
  <1>15. \A r \in {"NMRR", "PRRR", "SCTLR", "TTBCR", "TTBR0", "TTBR1", "CONTEXTIDR", "AMAIR0",
         "AMAIR1", "DACR", "MAIR0", "MAIR1"} : Size(part, r) = 32
    BY PartArches DEF Size, Wide, Bodiless, Unread, ARCH_ARMV7A, ARCH_ARMV8A
  <1>16. \A r \in {"TTBR0LPAE", "TTBR1LPAE"} : Size(part, r) = 64
    BY PartArches DEF Size, Wide, Bodiless, Unread, ARCH_ARMV7A, ARCH_ARMV8A
  <1>17. \A r \in {"CONTEXTIDR"} : <<part, r>> \in Irregular
    BY DEF Irregular, Cortexes
  <1> HIDE DEF g, part
  <1>18. \A k \in 1 .. 14 : Regular(part, g[k])
    BY <1>1, <1>2, <1>3, <1>4, <1>5, <1>6, <1>7, <1>8, <1>9, <1>10, <1>11, <1>12, <1>13, <1>14,
       <1>15, <1>16, <1>17, MadeRegular, TopsRegular, Numbers
  <1>19. OneEach(g, 14, {"NMRR", "PRRR", "SCTLR", "TTBCR", "TTBR0", "TTBR0LPAE", "TTBR1",
         "TTBR1LPAE", "CONTEXTIDR", "AMAIR0", "AMAIR1", "DACR", "MAIR0", "MAIR1"})
    <2>1. g = [k \in 1 .. 14 |-> g[k]]
      BY DEF g, armv7a_virtmem, Group
    <2> QED BY <2>1, <1>1, <1>2, <1>3, <1>4, <1>5, <1>6, <1>7, <1>8, <1>9, <1>10, <1>11, <1>12,
       <1>13, <1>14, Numbers DEF OneEach, Made, Tops
  <1> QED BY <1>18, <1>19, GroupFields DEF g, part

LEMMA Armv7APerfmonFields ==
  FieldsTable(ARCH_ARMV7A, armv7a_perfmon, {"PMCCNTR", "PMCEID0", "PMCEID1", "PMCNTENCLR",
      "PMCNTENSET", "PMINTENSET", "PMINTENCLR", "PMOVSR", "PMOVSSET", "PMSELR", "PMSWINC",
      "PMUSERENR", "PMXEVCNTR", "PMXEVTYPER", "PMCR"})
  <1> DEFINE g == armv7a_perfmon
             part == ARCH_ARMV7A
  <1>1. Made(g[1], "PMCCNTR", 32)
    BY Sum1 DEF Made, AreWidths, armv7a_perfmon, Group, At, K
  <1>2. Made(g[2], "PMCEID0", 32)
    BY Sum32 DEF Made, AreWidths, armv7a_perfmon, Group, At, K, Each
  <1>3. Made(g[3], "PMCEID1", 32)
    BY Sum1 DEF Made, AreWidths, armv7a_perfmon, Group, At, K
  <1>4. Made(g[4], "PMCNTENCLR", 32)
    BY Sum1 DEF Made, AreWidths, armv7a_perfmon, Group, At, K
  <1>5. Made(g[5], "PMCNTENSET", 32)
    BY Sum1 DEF Made, AreWidths, armv7a_perfmon, Group, At, K
  <1>6. Made(g[6], "PMINTENSET", 32)
    BY Sum1 DEF Made, AreWidths, armv7a_perfmon, Group, At, K
  <1>7. Made(g[7], "PMINTENCLR", 32)
    BY Sum1 DEF Made, AreWidths, armv7a_perfmon, Group, At, K
  <1>8. Made(g[8], "PMOVSR", 32)
    BY Sum1 DEF Made, AreWidths, armv7a_perfmon, Group, At, K
  <1>9. Made(g[9], "PMOVSSET", 32)
    BY Sum1 DEF Made, AreWidths, armv7a_perfmon, Group, At, K
  <1>10. Made(g[10], "PMSELR", 32)
    BY Sum2 DEF Made, AreWidths, armv7a_perfmon, Group, At, K
  <1>11. Made(g[11], "PMSWINC", 32)
    BY Sum1 DEF Made, AreWidths, armv7a_perfmon, Group, At, K
  <1>12. Made(g[12], "PMUSERENR", 32)
    BY Sum2 DEF Made, AreWidths, armv7a_perfmon, Group, At, K
  <1>13. Made(g[13], "PMXEVCNTR", 32)
    BY Sum1 DEF Made, AreWidths, armv7a_perfmon, Group, At, K
  <1>14. Made(g[14], "PMXEVTYPER", 32)
    BY Sum7 DEF Made, AreWidths, armv7a_perfmon, Group, At, K
  <1>15. Made(g[15], "PMCR", 32)
    BY Sum10 DEF Made, AreWidths, armv7a_perfmon, Group, At, NS
  <1>16. \A r \in {"PMCCNTR", "PMCEID0", "PMCEID1", "PMCNTENCLR", "PMCNTENSET", "PMINTENSET",
         "PMINTENCLR", "PMOVSR", "PMOVSSET", "PMSELR", "PMSWINC", "PMUSERENR", "PMXEVCNTR",
         "PMXEVTYPER", "PMCR"} : Size(part, r) = 32
    BY PartArches DEF Size, Wide, Bodiless, Unread, ARCH_ARMV7A, ARCH_ARMV8A
  <1> HIDE DEF g, part
  <1>17. \A k \in 1 .. 15 : Regular(part, g[k])
    BY <1>1, <1>2, <1>3, <1>4, <1>5, <1>6, <1>7, <1>8, <1>9, <1>10, <1>11, <1>12, <1>13, <1>14,
       <1>15, <1>16, MadeRegular, Numbers
  <1>18. OneEach(g, 15, {"PMCCNTR", "PMCEID0", "PMCEID1", "PMCNTENCLR", "PMCNTENSET",
         "PMINTENSET", "PMINTENCLR", "PMOVSR", "PMOVSSET", "PMSELR", "PMSWINC", "PMUSERENR",
         "PMXEVCNTR", "PMXEVTYPER", "PMCR"})
    <2>1. g = [k \in 1 .. 15 |-> g[k]]
      BY DEF g, armv7a_perfmon, Group
    <2> QED BY <2>1, <1>1, <1>2, <1>3, <1>4, <1>5, <1>6, <1>7, <1>8, <1>9, <1>10, <1>11, <1>12,
       <1>13, <1>14, <1>15, Numbers DEF OneEach, Made
  <1> QED BY <1>17, <1>18, GroupFields DEF g, part

LEMMA Armv7AOtherFields ==
  FieldsTable(ARCH_ARMV7A, armv7a_other, {"ACTLR", "CPACR", "FCSEIDR"})
  <1> DEFINE g == armv7a_other
             part == ARCH_ARMV7A
  <1>1. Made(g[1], "ACTLR", 32)
    BY Sum1 DEF Made, AreWidths, armv7a_other, Group, At, K
  <1>2. Made(g[2], "CPACR", 32)
    BY Sum18 DEF Made, AreWidths, armv7a_other, Group, At, K
  <1>3. Made(g[3], "FCSEIDR", 33)
    BY Sum2 DEF Made, AreWidths, armv7a_other, Group, At, K
  <1>4. \A r \in {"ACTLR", "CPACR", "FCSEIDR"} : Size(part, r) = 32
    BY PartArches DEF Size, Wide, Bodiless, Unread, ARCH_ARMV7A, ARCH_ARMV8A
  <1>5. \A r \in {"FCSEIDR"} : r \in Short[ArchOfPart(part)]
    BY PartArches DEF Short, Unread, Arches, ARCH_ARMV7A, ARCH_ARMV8A
  <1> HIDE DEF g, part
  <1>6. \A k \in 1 .. 3 : Regular(part, g[k])
    BY <1>1, <1>2, <1>3, <1>4, <1>5, MadeRegular, LongRegular, Numbers
  <1>7. OneEach(g, 3, {"ACTLR", "CPACR", "FCSEIDR"})
    <2>1. g = [k \in 1 .. 3 |-> g[k]]
      BY DEF g, armv7a_other, Group
    <2> QED BY <2>1, <1>1, <1>2, <1>3, Numbers DEF OneEach, Made
  <1> QED BY <1>6, <1>7, GroupFields DEF g, part

LEMMA Armv7AFaultFields ==
  FieldsTable(ARCH_ARMV7A, armv7a_fault, {"IFAR", "IFSR", "ADFSR", "AIFSR", "DFAR", "DFSR"})
  <1> DEFINE g == armv7a_fault
             part == ARCH_ARMV7A
  <1>1. Made(g[1], "IFAR", 32)
    BY Sum1 DEF Made, AreWidths, armv7a_fault, Group, At, K
  <1>2. Made(g[2], "IFSR", 32)
    BY Sum7 DEF Made, AreWidths, armv7a_fault, Group, At, K
  <1>3. Made(g[3], "ADFSR", 32)
    BY Sum1 DEF Made, AreWidths, armv7a_fault, Group, At, K
  <1>4. Made(g[4], "AIFSR", 32)
    BY Sum1 DEF Made, AreWidths, armv7a_fault, Group, At, K
  <1>5. Made(g[5], "DFAR", 32)
    BY Sum1 DEF Made, AreWidths, armv7a_fault, Group, At, K
  <1>6. Made(g[6], "DFSR", 32)
    BY Sum9 DEF Made, AreWidths, armv7a_fault, Group, At, K
  <1>7. \A r \in {"IFAR", "IFSR", "ADFSR", "AIFSR", "DFAR", "DFSR"} : Size(part, r) = 32
    BY PartArches DEF Size, Wide, Bodiless, Unread, ARCH_ARMV7A, ARCH_ARMV8A
  <1> HIDE DEF g, part
  <1>8. \A k \in 1 .. 6 : Regular(part, g[k])
    BY <1>1, <1>2, <1>3, <1>4, <1>5, <1>6, <1>7, MadeRegular, Numbers
  <1>9. OneEach(g, 6, {"IFAR", "IFSR", "ADFSR", "AIFSR", "DFAR", "DFSR"})
    <2>1. g = [k \in 1 .. 6 |-> g[k]]
      BY DEF g, armv7a_fault, Group
    <2> QED BY <2>1, <1>1, <1>2, <1>3, <1>4, <1>5, <1>6, Numbers DEF OneEach, Made
  <1> QED BY <1>8, <1>9, GroupFields DEF g, part

LEMMA Armv7AJazelleFields ==
  FieldsTable(ARCH_ARMV7A, armv7a_jazelle, {"JIDR", "JMCR", "JOSCR"})
  <1> DEFINE g == armv7a_jazelle
             part == ARCH_ARMV7A
  <1>1. Made(g[1], "JIDR", 32)
    BY Sum4 DEF Made, AreWidths, armv7a_jazelle, Group, At, K
  <1>2. Made(g[2], "JMCR", 32)
    BY Sum2 DEF Made, AreWidths, armv7a_jazelle, Group, At, K
  <1>3. Made(g[3], "JOSCR", 32)
    BY Sum3 DEF Made, AreWidths, armv7a_jazelle, Group, At, K
  <1>4. \A r \in {"JIDR", "JMCR", "JOSCR"} : Size(part, r) = 32
    BY PartArches DEF Size, Wide, Bodiless, Unread, ARCH_ARMV7A, ARCH_ARMV8A
  <1> HIDE DEF g, part
  <1>5. \A k \in 1 .. 3 : Regular(part, g[k])
    BY <1>1, <1>2, <1>3, <1>4, MadeRegular, Numbers
  <1>6. OneEach(g, 3, {"JIDR", "JMCR", "JOSCR"})
    <2>1. g = [k \in 1 .. 3 |-> g[k]]
      BY DEF g, armv7a_jazelle, Group
    <2> QED BY <2>1, <1>1, <1>2, <1>3, Numbers DEF OneEach, Made
  <1> QED BY <1>5, <1>6, GroupFields DEF g, part

LEMMA Armv7AThumbFields ==
  FieldsTable(ARCH_ARMV7A, armv7a_thumb, {"TEECR", "TEEHBR"})
  <1> DEFINE g == armv7a_thumb
             part == ARCH_ARMV7A
  <1>1. Made(g[1], "TEECR", 32)
    BY Sum2 DEF Made, AreWidths, armv7a_thumb, Group, At, NS
  <1>2. Made(g[2], "TEEHBR", 32)
    BY Sum2 DEF Made, AreWidths, armv7a_thumb, Group, At, NS
  <1>3. \A r \in {"TEECR", "TEEHBR"} : Size(part, r) = 32
    BY PartArches DEF Size, Wide, Bodiless, Unread, ARCH_ARMV7A, ARCH_ARMV8A
  <1> HIDE DEF g, part
  <1>4. \A k \in 1 .. 2 : Regular(part, g[k])
    BY <1>1, <1>2, <1>3, MadeRegular, Numbers
  <1>5. OneEach(g, 2, {"TEECR", "TEEHBR"})
    <2>1. g = [k \in 1 .. 2 |-> g[k]]
      BY DEF g, armv7a_thumb, Group
    <2> QED BY <2>1, <1>1, <1>2, Numbers DEF OneEach, Made
  <1> QED BY <1>4, <1>5, GroupFields DEF g, part

LEMMA Armv7AMiscFields ==
  FieldsTable(ARCH_ARMV7A, armv7a_misc, {"TPIDRPRW", "TPIDRURO", "TPIDRURW"})
  <1> DEFINE g == armv7a_misc
             part == ARCH_ARMV7A
  <1>1. Made(g[1], "TPIDRPRW", 32)
    BY Sum1 DEF Made, AreWidths, armv7a_misc, Group, At, K
  <1>2. Made(g[2], "TPIDRURO", 32)
    BY Sum1 DEF Made, AreWidths, armv7a_misc, Group, At, U
  <1>3. Made(g[3], "TPIDRURW", 32)
    BY Sum1 DEF Made, AreWidths, armv7a_misc, Group, At, ANY
  <1>4. \A r \in {"TPIDRPRW", "TPIDRURO", "TPIDRURW"} : Size(part, r) = 32
    BY PartArches DEF Size, Wide, Bodiless, Unread, ARCH_ARMV7A, ARCH_ARMV8A
  <1> HIDE DEF g, part
  <1>5. \A k \in 1 .. 3 : Regular(part, g[k])
    BY <1>1, <1>2, <1>3, <1>4, MadeRegular, Numbers
  <1>6. OneEach(g, 3, {"TPIDRPRW", "TPIDRURO", "TPIDRURW"})
    <2>1. g = [k \in 1 .. 3 |-> g[k]]
      BY DEF g, armv7a_misc, Group
    <2> QED BY <2>1, <1>1, <1>2, <1>3, Numbers DEF OneEach, Made
  <1> QED BY <1>5, <1>6, GroupFields DEF g, part

LEMMA Armv7AAddrtransFields ==
  FieldsTable(ARCH_ARMV7A, armv7a_addrtrans, {"PAR"})
  <1> DEFINE g == armv7a_addrtrans
             part == ARCH_ARMV7A
  <1>1. Tops(g[1], "PAR", 32)
    <2>1. g[1] = [At(PL1, "PAR", <<<<0, 0, 1>>, <<1, 1, 1>>, <<2, 2, 1>>, <<3, 4, 3>>, <<4, 7,
           1>>, <<5, 8, 1>>, <<6, 9, 1>>, <<7, 10, 1>>, <<8, 11, 1>>, <<9, 12, 20>>>>) EXCEPT
           !.group = "addrtrans"]
      BY DEF armv7a_addrtrans, Group
    <2> QED BY <2>1, Numbers DEF Tops, RowEnd, At
  <1>2. \A r \in {"PAR"} : Size(part, r) = 32
    BY PartArches DEF Size, Wide, Bodiless, Unread, ARCH_ARMV7A, ARCH_ARMV8A
  <1>3. \A r \in {"PAR"} : <<part, r>> \in Irregular
    BY DEF Irregular, Cortexes
  <1> HIDE DEF g, part
  <1>4. \A k \in 1 .. 1 : Regular(part, g[k])
    BY <1>1, <1>2, <1>3, TopsRegular
  <1>5. OneEach(g, 1, {"PAR"})
    <2>1. g = [k \in 1 .. 1 |-> g[k]]
      BY DEF g, armv7a_addrtrans, Group
    <2> QED BY <2>1, <1>1 DEF OneEach, Tops
  <1> QED BY <1>4, <1>5, GroupFields DEF g, part

LEMMA Armv8AIdent1Fields ==
  FieldsTable(ARCH_ARMV8A, armv8a_ident_1, {"PFR0", "PFR1", "AA64PFR0", "AA64PFR1", "DFR0",
      "AFR0", "AA64AFR0", "AA64AFR1", "AA64DFR0", "AA64DFR1", "MMFR0", "MMFR1", "MMFR2", "MMFR3",
      "MMFR4", "AA64MMFR0", "AA64MMFR1"})
  <1> DEFINE g == armv8a_ident_1
             part == ARCH_ARMV8A
  <1>1. Made(g[1], "PFR0", 32)
    <2>1. g[1] = [K("PFR0", <<4, 4, 4, 4, 16>>) EXCEPT !.group = "ident"]
      BY DEF armv8a_ident_1, Group
    <2> QED BY <2>1, Sum5 DEF Made, AreWidths, At, K
  <1>2. Made(g[2], "PFR1", 32)
    <2>1. g[2] = [K("PFR1", Each(8, 4)) EXCEPT !.group = "ident"]
      BY DEF armv8a_ident_1, Group
    <2> QED BY <2>1, Sum8 DEF Made, AreWidths, At, K, Each
  <1>3. Made(g[3], "AA64PFR0", 64)
    <2>1. g[3] = [K("AA64PFR0", <<4, 4, 4, 4, 4, 4, 4, 36>>) EXCEPT !.group = "ident"]
      BY DEF armv8a_ident_1, Group
    <2> QED BY <2>1, Sum8 DEF Made, AreWidths, At, K
  <1>4. Made(g[4], "AA64PFR1", 64)
    <2>1. g[4] = [K("AA64PFR1", <<64>>) EXCEPT !.group = "ident"]
      BY DEF armv8a_ident_1, Group
    <2> QED BY <2>1, Sum1 DEF Made, AreWidths, At, K
  <1>5. Made(g[5], "DFR0", 32)
    <2>1. g[5] = [K("DFR0", Each(8, 4)) EXCEPT !.group = "ident"]
      BY DEF armv8a_ident_1, Group
    <2> QED BY <2>1, Sum8 DEF Made, AreWidths, At, K, Each
  <1>6. Made(g[6], "AFR0", 32)
    <2>1. g[6] = [K("AFR0", <<4, 4, 4, 4, 16>>) EXCEPT !.group = "ident"]
      BY DEF armv8a_ident_1, Group
    <2> QED BY <2>1, Sum5 DEF Made, AreWidths, At, K
  <1>7. Made(g[7], "AA64AFR0", 64)
    <2>1. g[7] = [K("AA64AFR0", <<4, 4, 4, 4, 4, 4, 4, 4, 32>>) EXCEPT !.group = "ident"]
      BY DEF armv8a_ident_1, Group
    <2> QED BY <2>1, Sum9 DEF Made, AreWidths, At, K
  <1>8. Made(g[8], "AA64AFR1", 64)
    <2>1. g[8] = [K("AA64AFR1", <<64>>) EXCEPT !.group = "ident"]
      BY DEF armv8a_ident_1, Group
    <2> QED BY <2>1, Sum1 DEF Made, AreWidths, At, K
  <1>9. Made(g[9], "AA64DFR0", 64)
    <2>1. g[9] = [K("AA64DFR0", <<4, 4, 4, 4, 4, 4, 4, 4, 32>>) EXCEPT !.group = "ident"]
      BY DEF armv8a_ident_1, Group
    <2> QED BY <2>1, Sum9 DEF Made, AreWidths, At, K
  <1>10. Made(g[10], "AA64DFR1", 64)
    <2>1. g[10] = [K("AA64DFR1", <<64>>) EXCEPT !.group = "ident"]
      BY DEF armv8a_ident_1, Group
    <2> QED BY <2>1, Sum1 DEF Made, AreWidths, At, K
  <1>11. Made(g[11], "MMFR0", 32)
    <2>1. g[11] = [K("MMFR0", Each(8, 4)) EXCEPT !.group = "ident"]
      BY DEF armv8a_ident_1, Group
    <2> QED BY <2>1, Sum8 DEF Made, AreWidths, At, K, Each
  <1>12. Made(g[12], "MMFR1", 32)
    <2>1. g[12] = [K("MMFR1", Each(8, 4)) EXCEPT !.group = "ident"]
      BY DEF armv8a_ident_1, Group
    <2> QED BY <2>1, Sum8 DEF Made, AreWidths, At, K, Each
  <1>13. Made(g[13], "MMFR2", 32)
    <2>1. g[13] = [K("MMFR2", Each(8, 4)) EXCEPT !.group = "ident"]
      BY DEF armv8a_ident_1, Group
    <2> QED BY <2>1, Sum8 DEF Made, AreWidths, At, K, Each
  <1>14. Made(g[14], "MMFR3", 32)
    <2>1. g[14] = [K("MMFR3", Each(8, 4)) EXCEPT !.group = "ident"]
      BY DEF armv8a_ident_1, Group
    <2> QED BY <2>1, Sum8 DEF Made, AreWidths, At, K, Each
  <1>15. g[15].register = "MMFR4"
    BY DEF armv8a_ident_1, Group, At
  <1>16. Made(g[16], "AA64MMFR0", 64)
    <2>1. g[16] = [K("AA64MMFR0", <<4, 4, 4, 4, 4, 4, 4, 4, 32>>) EXCEPT !.group = "ident"]
      BY DEF armv8a_ident_1, Group
    <2> QED BY <2>1, Sum9 DEF Made, AreWidths, At, K
  <1>17. Made(g[17], "AA64MMFR1", 64)
    <2>1. g[17] = [K("AA64MMFR1", <<64>>) EXCEPT !.group = "ident"]
      BY DEF armv8a_ident_1, Group
    <2> QED BY <2>1, Sum1 DEF Made, AreWidths, At, K
  <1>18. \A r \in {"PFR0", "PFR1", "DFR0", "AFR0", "MMFR0", "MMFR1", "MMFR2", "MMFR3"} :
         Size(part, r) = 32
    BY PartArches DEF Size, Wide, Bodiless, Unread, ARCH_ARMV7A, ARCH_ARMV8A
  <1>19. \A r \in {"AA64PFR0", "AA64PFR1", "AA64AFR0", "AA64AFR1", "AA64DFR0", "AA64DFR1",
         "AA64MMFR0", "AA64MMFR1"} : Size(part, r) = 64
    BY PartArches DEF Size, Wide, Bodiless, Unread, ARCH_ARMV7A, ARCH_ARMV8A
  <1>20. \A r \in {"MMFR4"} : r \in Bodiless(ArchOfPart(part))
    BY PartArches DEF Bodiless, Unread, ARCH_ARMV7A, ARCH_ARMV8A
  <1> HIDE DEF g, part
  <1>21. \A k \in 1 .. 17 : Regular(part, g[k])
    BY <1>1, <1>2, <1>3, <1>4, <1>5, <1>6, <1>7, <1>8, <1>9, <1>10, <1>11, <1>12, <1>13, <1>14,
       <1>15, <1>16, <1>17, <1>18, <1>19, <1>20, MadeRegular, UnreadRegular, Numbers
  <1>22. OneEach(g, 17, {"PFR0", "PFR1", "AA64PFR0", "AA64PFR1", "DFR0", "AFR0", "AA64AFR0",
         "AA64AFR1", "AA64DFR0", "AA64DFR1", "MMFR0", "MMFR1", "MMFR2", "MMFR3", "MMFR4",
         "AA64MMFR0", "AA64MMFR1"})
    <2>1. g = [k \in 1 .. 17 |-> g[k]]
      BY DEF g, armv8a_ident_1, Group
    <2> QED BY <2>1, <1>1, <1>2, <1>3, <1>4, <1>5, <1>6, <1>7, <1>8, <1>9, <1>10, <1>11, <1>12,
       <1>13, <1>14, <1>15, <1>16, <1>17, Numbers DEF OneEach, Made
  <1> QED BY <1>21, <1>22, GroupFields DEF g, part

LEMMA Armv8AIdent2Fields ==
  FieldsTable(ARCH_ARMV8A, armv8a_ident_2, {"ISAR0", "ISAR1", "ISAR2", "ISAR3", "ISAR4", "ISAR5",
      "AA64ISAR0", "AA64ISAR1", "REVIDR", "TLBTR", "CCSIDR", "TCMTR", "AIDR", "CLIDR", "CSSELR",
      "CTR", "MIDR", "MPIDR"})
  <1> DEFINE g == armv8a_ident_2
             part == ARCH_ARMV8A
  <1>1. Made(g[1], "ISAR0", 32)
    <2>1. g[1] = [K("ISAR0", Each(8, 4)) EXCEPT !.group = "ident"]
      BY DEF armv8a_ident_2, Group
    <2> QED BY <2>1, Sum8 DEF Made, AreWidths, At, K, Each
  <1>2. Made(g[2], "ISAR1", 32)
    <2>1. g[2] = [K("ISAR1", Each(8, 4)) EXCEPT !.group = "ident"]
      BY DEF armv8a_ident_2, Group
    <2> QED BY <2>1, Sum8 DEF Made, AreWidths, At, K, Each
  <1>3. Made(g[3], "ISAR2", 32)
    <2>1. g[3] = [K("ISAR2", Each(8, 4)) EXCEPT !.group = "ident"]
      BY DEF armv8a_ident_2, Group
    <2> QED BY <2>1, Sum8 DEF Made, AreWidths, At, K, Each
  <1>4. Made(g[4], "ISAR3", 32)
    <2>1. g[4] = [K("ISAR3", Each(8, 4)) EXCEPT !.group = "ident"]
      BY DEF armv8a_ident_2, Group
    <2> QED BY <2>1, Sum8 DEF Made, AreWidths, At, K, Each
  <1>5. Made(g[5], "ISAR4", 32)
    <2>1. g[5] = [K("ISAR4", Each(8, 4)) EXCEPT !.group = "ident"]
      BY DEF armv8a_ident_2, Group
    <2> QED BY <2>1, Sum8 DEF Made, AreWidths, At, K, Each
  <1>6. Made(g[6], "ISAR5", 32)
    <2>1. g[6] = [K("ISAR5", <<4, 4, 4, 4, 4, 12>>) EXCEPT !.group = "ident"]
      BY DEF armv8a_ident_2, Group
    <2> QED BY <2>1, Sum6 DEF Made, AreWidths, At, K
  <1>7. Made(g[7], "AA64ISAR0", 64)
    <2>1. g[7] = [K("AA64ISAR0", <<4, 4, 4, 4, 4, 44>>) EXCEPT !.group = "ident"]
      BY DEF armv8a_ident_2, Group
    <2> QED BY <2>1, Sum6 DEF Made, AreWidths, At, K
  <1>8. Made(g[8], "AA64ISAR1", 64)
    <2>1. g[8] = [K("AA64ISAR1", <<64>>) EXCEPT !.group = "ident"]
      BY DEF armv8a_ident_2, Group
    <2> QED BY <2>1, Sum1 DEF Made, AreWidths, At, K
  <1>9. Made(g[9], "REVIDR", 32)
    <2>1. g[9] = [K("REVIDR", <<32>>) EXCEPT !.group = "ident"]
      BY DEF armv8a_ident_2, Group
    <2> QED BY <2>1, Sum1 DEF Made, AreWidths, At, K
  <1>10. g[10].register = "TLBTR"
    BY DEF armv8a_ident_2, Group, At, K
  <1>11. Made(g[11], "CCSIDR", 32)
    <2>1. g[11] = [K("CCSIDR", <<3, 10, 15, 1, 1, 1, 1>>) EXCEPT !.group = "ident"]
      BY DEF armv8a_ident_2, Group
    <2> QED BY <2>1, Sum7 DEF Made, AreWidths, At, K
  <1>12. g[12].register = "TCMTR"
    BY DEF armv8a_ident_2, Group, At, K
  <1>13. Made(g[13], "AIDR", 32)
    <2>1. g[13] = [K("AIDR", <<32>>) EXCEPT !.group = "ident"]
      BY DEF armv8a_ident_2, Group
    <2> QED BY <2>1, Sum1 DEF Made, AreWidths, At, K
  <1>14. Made(g[14], "CLIDR", 64)
    <2>1. g[14] = [K("CLIDR", <<3, 3, 3, 3, 3, 3, 3, 3, 3, 3, 2, 32>>) EXCEPT !.group = "ident"]
      BY DEF armv8a_ident_2, Group
    <2> QED BY <2>1, Sum12 DEF Made, AreWidths, At, K
  <1>15. Made(g[15], "CSSELR", 32)
    <2>1. g[15] = [K("CSSELR", <<1, 3, 28>>) EXCEPT !.group = "ident"]
      BY DEF armv8a_ident_2, Group
    <2> QED BY <2>1, Sum3 DEF Made, AreWidths, At, K
  <1>16. Made(g[16], "CTR", 32)
    <2>1. g[16] = [U("CTR", <<4, 10, 2, 4, 4, 4, 3, 1>>) EXCEPT !.group = "ident"]
      BY DEF armv8a_ident_2, Group
    <2> QED BY <2>1, Sum8 DEF Made, AreWidths, At, U
  <1>17. Made(g[17], "MIDR", 32)
    <2>1. g[17] = [K("MIDR", <<4, 12, 4, 4, 8>>) EXCEPT !.group = "ident"]
      BY DEF armv8a_ident_2, Group
    <2> QED BY <2>1, Sum5 DEF Made, AreWidths, At, K
  <1>18. Made(g[18], "MPIDR", 64)
    <2>1. g[18] = [K("MPIDR", <<8, 8, 8, 1, 5, 1, 1, 8, 24>>) EXCEPT !.group = "ident"]
      BY DEF armv8a_ident_2, Group
    <2> QED BY <2>1, Sum9 DEF Made, AreWidths, At, K
  <1>19. \A r \in {"ISAR0", "ISAR1", "ISAR2", "ISAR3", "ISAR4", "ISAR5", "REVIDR", "CCSIDR",
         "AIDR", "CSSELR", "CTR", "MIDR", "MPIDR"} : Size(part, r) = 32
    BY PartArches DEF Size, Wide, Bodiless, Unread, ARCH_ARMV7A, ARCH_ARMV8A
  <1>20. \A r \in {"AA64ISAR0", "AA64ISAR1", "CLIDR"} : Size(part, r) = 64
    BY PartArches DEF Size, Wide, Bodiless, Unread, ARCH_ARMV7A, ARCH_ARMV8A
  <1>21. \A r \in {"MPIDR"} : r \in Short[ArchOfPart(part)]
    BY PartArches DEF Short, Unread, Arches, ARCH_ARMV7A, ARCH_ARMV8A
  <1>22. \A r \in {"TLBTR", "TCMTR"} : r \in Bodiless(ArchOfPart(part))
    BY PartArches DEF Bodiless, Unread, ARCH_ARMV7A, ARCH_ARMV8A
  <1> HIDE DEF g, part
  <1>23. \A k \in 1 .. 18 : Regular(part, g[k])
    BY <1>1, <1>2, <1>3, <1>4, <1>5, <1>6, <1>7, <1>8, <1>9, <1>10, <1>11, <1>12, <1>13, <1>14,
       <1>15, <1>16, <1>17, <1>18, <1>19, <1>20, <1>21, <1>22, MadeRegular, LongRegular,
       UnreadRegular, Numbers
  <1>24. OneEach(g, 18, {"ISAR0", "ISAR1", "ISAR2", "ISAR3", "ISAR4", "ISAR5", "AA64ISAR0",
         "AA64ISAR1", "REVIDR", "TLBTR", "CCSIDR", "TCMTR", "AIDR", "CLIDR", "CSSELR", "CTR",
         "MIDR", "MPIDR"})
    <2>1. g = [k \in 1 .. 18 |-> g[k]]
      BY DEF g, armv8a_ident_2, Group
    <2> QED BY <2>1, <1>1, <1>2, <1>3, <1>4, <1>5, <1>6, <1>7, <1>8, <1>9, <1>10, <1>11, <1>12,
       <1>13, <1>14, <1>15, <1>16, <1>17, <1>18, Numbers DEF OneEach, Made
  <1> QED BY <1>23, <1>24, GroupFields DEF g, part

LEMMA Armv8AFpFields ==
  FieldsTable(ARCH_ARMV8A, armv8a_fp, {"FPSID", "FPSCR", "FPEXC", "MVFR0", "MVFR1", "MVFR2"})
  <1> DEFINE g == armv8a_fp
             part == ARCH_ARMV8A
  <1>1. g[1].register = "FPSID"
    BY DEF armv8a_fp, Group, At
  <1>2. g[2].register = "FPSCR"
    BY DEF armv8a_fp, Group, At, K
  <1>3. g[3].register = "FPEXC"
    BY DEF armv8a_fp, Group, At
  <1>4. Made(g[4], "MVFR0", 32)
    BY Sum8 DEF Made, AreWidths, armv8a_fp, Group, At, K, Each
  <1>5. Made(g[5], "MVFR1", 32)
    BY Sum8 DEF Made, AreWidths, armv8a_fp, Group, At, K, Each
  <1>6. Made(g[6], "MVFR2", 24)
    BY Sum3 DEF Made, AreWidths, armv8a_fp, Group, At, K
  <1>7. \A r \in {"MVFR0", "MVFR1", "MVFR2"} : Size(part, r) = 32
    BY PartArches DEF Size, Wide, Bodiless, Unread, ARCH_ARMV7A, ARCH_ARMV8A
  <1>8. \A r \in {"MVFR2"} : <<part, r>> \in Irregular
    BY DEF Irregular, Cortexes
  <1>9. \A r \in {"FPSID", "FPSCR", "FPEXC"} : r \in Bodiless(ArchOfPart(part))
    BY PartArches DEF Bodiless, Unread, ARCH_ARMV7A, ARCH_ARMV8A
  <1> HIDE DEF g, part
  <1>10. \A k \in 1 .. 6 : Regular(part, g[k])
    BY <1>1, <1>2, <1>3, <1>4, <1>5, <1>6, <1>7, <1>8, <1>9, MadeRegular, OddRegular,
       UnreadRegular, Numbers
  <1>11. OneEach(g, 6, {"FPSID", "FPSCR", "FPEXC", "MVFR0", "MVFR1", "MVFR2"})
    <2>1. g = [k \in 1 .. 6 |-> g[k]]
      BY DEF g, armv8a_fp, Group
    <2> QED BY <2>1, <1>1, <1>2, <1>3, <1>4, <1>5, <1>6, Numbers DEF OneEach, Made
  <1> QED BY <1>10, <1>11, GroupFields DEF g, part

LEMMA Armv8ASecextFields ==
  FieldsTable(ARCH_ARMV8A, armv8a_secext, {"SCR", "ISR", "SDER", "VBAR"})
  <1> DEFINE g == armv8a_secext
             part == ARCH_ARMV8A
  <1>1. g[1].register = "SCR"
    BY DEF armv8a_secext, Group, At, SEC
  <1>2. Made(g[2], "ISR", 32)
    BY Sum5 DEF Made, AreWidths, armv8a_secext, Group, At, K
  <1>3. g[3].register = "SDER"
    BY DEF armv8a_secext, Group, At, SEC
  <1>4. Made(g[4], "VBAR", 64)
    BY Sum2 DEF Made, AreWidths, armv8a_secext, Group, At, K
  <1>5. \A r \in {"ISR"} : Size(part, r) = 32
    BY PartArches DEF Size, Wide, Bodiless, Unread, ARCH_ARMV7A, ARCH_ARMV8A
  <1>6. \A r \in {"VBAR"} : Size(part, r) = 64
    BY PartArches DEF Size, Wide, Bodiless, Unread, ARCH_ARMV7A, ARCH_ARMV8A
  <1>7. \A r \in {"SCR", "SDER"} : r \in Bodiless(ArchOfPart(part))
    BY PartArches DEF Bodiless, Unread, ARCH_ARMV7A, ARCH_ARMV8A
  <1> HIDE DEF g, part
  <1>8. \A k \in 1 .. 4 : Regular(part, g[k])
    BY <1>1, <1>2, <1>3, <1>4, <1>5, <1>6, <1>7, MadeRegular, UnreadRegular, Numbers
  <1>9. OneEach(g, 4, {"SCR", "ISR", "SDER", "VBAR"})
    <2>1. g = [k \in 1 .. 4 |-> g[k]]
      BY DEF g, armv8a_secext, Group
    <2> QED BY <2>1, <1>1, <1>2, <1>3, <1>4, Numbers DEF OneEach, Made
  <1> QED BY <1>8, <1>9, GroupFields DEF g, part

LEMMA Armv8ADebugFields ==
  FieldsTable(ARCH_ARMV8A, armv8a_debug, {"DBGDIDR", "DBGAUTHSTATUS", "DBGDRAR", "DBGDSCR"})
  <1> DEFINE g == armv8a_debug
             part == ARCH_ARMV8A
  <1>1. g[1].register = "DBGDIDR"
    BY DEF armv8a_debug, Group, At, K
  <1>2. Made(g[2], "DBGAUTHSTATUS", 32)
    BY Sum9 DEF Made, AreWidths, armv8a_debug, Group, At, K
  <1>3. Made(g[3], "DBGDRAR", 64)
    BY Sum4 DEF Made, AreWidths, armv8a_debug, Group, At, K
  <1>4. Made(g[4], "DBGDSCR", 32)
    BY Sum19 DEF Made, AreWidths, armv8a_debug, Group, At, K
  <1>5. \A r \in {"DBGAUTHSTATUS", "DBGDSCR"} : Size(part, r) = 32
    BY PartArches DEF Size, Wide, Bodiless, Unread, ARCH_ARMV7A, ARCH_ARMV8A
  <1>6. \A r \in {"DBGDRAR"} : Size(part, r) = 64
    BY PartArches DEF Size, Wide, Bodiless, Unread, ARCH_ARMV7A, ARCH_ARMV8A
  <1>7. \A r \in {"DBGDIDR"} : r \in Bodiless(ArchOfPart(part))
    BY PartArches DEF Bodiless, Unread, ARCH_ARMV7A, ARCH_ARMV8A
  <1> HIDE DEF g, part
  <1>8. \A k \in 1 .. 4 : Regular(part, g[k])
    BY <1>1, <1>2, <1>3, <1>4, <1>5, <1>6, <1>7, MadeRegular, UnreadRegular, Numbers
  <1>9. OneEach(g, 4, {"DBGDIDR", "DBGAUTHSTATUS", "DBGDRAR", "DBGDSCR"})
    <2>1. g = [k \in 1 .. 4 |-> g[k]]
      BY DEF g, armv8a_debug, Group
    <2> QED BY <2>1, <1>1, <1>2, <1>3, <1>4, Numbers DEF OneEach, Made
  <1> QED BY <1>8, <1>9, GroupFields DEF g, part

LEMMA Armv8AVirtmemFields ==
  FieldsTable(ARCH_ARMV8A, armv8a_virtmem, {"MAIR", "SCTLR", "CONTEXTIDR", "AMAIR", "DCZID",
      "TTBCR", "TTBR1", "TTBR0"})
  <1> DEFINE g == armv8a_virtmem
             part == ARCH_ARMV8A
  <1>1. Made(g[1], "MAIR", 64)
    <2>1. g[1] = [K("MAIR", Each(8, 8)) EXCEPT !.group = "virtmem"]
      BY DEF armv8a_virtmem, Group
    <2> QED BY <2>1, Sum8 DEF Made, AreWidths, At, K, Each
  <1>2. Made(g[2], "SCTLR", 32)
    <2>1. g[2] = [K("SCTLR", <<1, 1, 1, 1, 1, 1, 1, 1, 1, 1, 1, 1, 1, 1, 1, 1, 1, 1, 1, 1, 1, 1,
           2, 1, 1, 1, 1, 2, 2>>) EXCEPT !.group = "virtmem"]
      BY DEF armv8a_virtmem, Group
    <2> QED BY <2>1, Sum29 DEF Made, AreWidths, At, K
  <1>3. Tops(g[3], "CONTEXTIDR", 32)
    <2>1. g[3] = [At(PL1, "CONTEXTIDR", <<<<0, 0, 32>>, <<1, 0, 8>>, <<2, 8, 24>>>>) EXCEPT
           !.group = "virtmem"]
      BY DEF armv8a_virtmem, Group
    <2> QED BY <2>1, Numbers DEF Tops, RowEnd, At
  <1>4. Made(g[4], "AMAIR", 64)
    <2>1. g[4] = [K("AMAIR", <<64>>) EXCEPT !.group = "virtmem"]
      BY DEF armv8a_virtmem, Group
    <2> QED BY <2>1, Sum1 DEF Made, AreWidths, At, K
  <1>5. Made(g[5], "DCZID", 32)
    <2>1. g[5] = [U("DCZID", <<4, 1, 27>>) EXCEPT !.group = "virtmem"]
      BY DEF armv8a_virtmem, Group
    <2> QED BY <2>1, Sum3 DEF Made, AreWidths, At, U
  <1>6. Made(g[6], "TTBCR", 64)
    <2>1. g[6] = [Named("TCR", K("TTBCR", <<6, 1, 1, 2, 2, 2, 2, 6, 1, 1, 2, 2, 2, 2, 3, 1, 1, 1,
           1, 25>>)) EXCEPT !.group = "virtmem"]
      BY DEF armv8a_virtmem, Group
    <2> QED BY <2>1, Sum20 DEF Made, AreWidths, At, K, Named
  <1>7. Made(g[7], "TTBR1", 64)
    <2>1. g[7] = [Named("TTBR0", K("TTBR1", <<48, 16>>)) EXCEPT !.group = "virtmem"]
      BY DEF armv8a_virtmem, Group
    <2> QED BY <2>1, Sum2 DEF Made, AreWidths, At, K, Named
  <1>8. Made(g[8], "TTBR0", 64)
    <2>1. g[8] = [Named("TTBR1", K("TTBR0", <<48, 16>>)) EXCEPT !.group = "virtmem"]
      BY DEF armv8a_virtmem, Group
    <2> QED BY <2>1, Sum2 DEF Made, AreWidths, At, K, Named
  <1>9. \A r \in {"SCTLR", "CONTEXTIDR", "DCZID"} : Size(part, r) = 32
    BY PartArches DEF Size, Wide, Bodiless, Unread, ARCH_ARMV7A, ARCH_ARMV8A
  <1>10. \A r \in {"MAIR", "AMAIR", "TTBCR", "TTBR1", "TTBR0"} : Size(part, r) = 64
    BY PartArches DEF Size, Wide, Bodiless, Unread, ARCH_ARMV7A, ARCH_ARMV8A
  <1>11. \A r \in {"CONTEXTIDR"} : <<part, r>> \in Irregular
    BY DEF Irregular, Cortexes
  <1> HIDE DEF g, part
  <1>12. \A k \in 1 .. 8 : Regular(part, g[k])
    BY <1>1, <1>2, <1>3, <1>4, <1>5, <1>6, <1>7, <1>8, <1>9, <1>10, <1>11, MadeRegular,
       TopsRegular, Numbers
  <1>13. OneEach(g, 8, {"MAIR", "SCTLR", "CONTEXTIDR", "AMAIR", "DCZID", "TTBCR", "TTBR1",
         "TTBR0"})
    <2>1. g = [k \in 1 .. 8 |-> g[k]]
      BY DEF g, armv8a_virtmem, Group
    <2> QED BY <2>1, <1>1, <1>2, <1>3, <1>4, <1>5, <1>6, <1>7, <1>8, Numbers DEF OneEach, Made,
       Tops
  <1> QED BY <1>12, <1>13, GroupFields DEF g, part

LEMMA Armv8APerfmonFields ==
  FieldsTable(ARCH_ARMV8A, armv8a_perfmon, {"PMCR", "PMCCFILTR", "PMCCNTR", "PMCEID0", "PMCEID1",
      "PMCNTENCLR", "PMCNTENSET", "PMINTENCLR", "PMINTENSET", "PMOVSCLR", "PMOVSSET", "PMSELR",
      "PMSWINC", "PMUSERENR", "PMXEVCNTR", "PMXEVTYPER"})
  <1> DEFINE g == armv8a_perfmon
             part == ARCH_ARMV8A
  <1>1. Made(g[1], "PMCR", 32)
    BY Sum11 DEF Made, AreWidths, armv8a_perfmon, Group, At, NS
  <1>2. Made(g[2], "PMCCFILTR", 32)
    BY Sum7 DEF Made, AreWidths, armv8a_perfmon, Group, At, NS
  <1>3. Made(g[3], "PMCCNTR", 64)
    BY Sum1 DEF Made, AreWidths, armv8a_perfmon, Group, At, NS
  <1>4. Made(g[4], "PMCEID0", 32)
    BY Sum1 DEF Made, AreWidths, armv8a_perfmon, Group, At, NS
  <1>5. Made(g[5], "PMCEID1", 32)
    BY Sum1 DEF Made, AreWidths, armv8a_perfmon, Group, At, NS
  <1>6. Made(g[6], "PMCNTENCLR", 32)
    BY Sum2 DEF Made, AreWidths, armv8a_perfmon, Group, At, NS
  <1>7. Made(g[7], "PMCNTENSET", 32)
    BY Sum2 DEF Made, AreWidths, armv8a_perfmon, Group, At, NS
  <1>8. Made(g[8], "PMINTENCLR", 32)
    BY Sum2 DEF Made, AreWidths, armv8a_perfmon, Group, At, K
  <1>9. Made(g[9], "PMINTENSET", 32)
    BY Sum2 DEF Made, AreWidths, armv8a_perfmon, Group, At, K
  <1>10. Made(g[10], "PMOVSCLR", 32)
    BY Sum2 DEF Made, AreWidths, armv8a_perfmon, Group, At, NS
  <1>11. Made(g[11], "PMOVSSET", 32)
    BY Sum2 DEF Made, AreWidths, armv8a_perfmon, Group, At, NS
  <1>12. Made(g[12], "PMSELR", 32)
    BY Sum2 DEF Made, AreWidths, armv8a_perfmon, Group, At, NS
  <1>13. Made(g[13], "PMSWINC", 32)
    BY Sum2 DEF Made, AreWidths, armv8a_perfmon, Group, At, NS
  <1>14. Made(g[14], "PMUSERENR", 32)
    BY Sum5 DEF Made, AreWidths, armv8a_perfmon, Group, At, NS
  <1>15. Made(g[15], "PMXEVCNTR", 32)
    BY Sum1 DEF Made, AreWidths, armv8a_perfmon, Group, At, NS
  <1>16. Made(g[16], "PMXEVTYPER", 32)
    BY Sum1 DEF Made, AreWidths, armv8a_perfmon, Group, At, NS
  <1>17. \A r \in {"PMCR", "PMCCFILTR", "PMCEID0", "PMCEID1", "PMCNTENCLR", "PMCNTENSET",
         "PMINTENCLR", "PMINTENSET", "PMOVSCLR", "PMOVSSET", "PMSELR", "PMSWINC", "PMUSERENR",
         "PMXEVCNTR", "PMXEVTYPER"} : Size(part, r) = 32
    BY PartArches DEF Size, Wide, Bodiless, Unread, ARCH_ARMV7A, ARCH_ARMV8A
  <1>18. \A r \in {"PMCCNTR"} : Size(part, r) = 64
    BY PartArches DEF Size, Wide, Bodiless, Unread, ARCH_ARMV7A, ARCH_ARMV8A
  <1> HIDE DEF g, part
  <1>19. \A k \in 1 .. 16 : Regular(part, g[k])
    BY <1>1, <1>2, <1>3, <1>4, <1>5, <1>6, <1>7, <1>8, <1>9, <1>10, <1>11, <1>12, <1>13, <1>14,
       <1>15, <1>16, <1>17, <1>18, MadeRegular, Numbers
  <1>20. OneEach(g, 16, {"PMCR", "PMCCFILTR", "PMCCNTR", "PMCEID0", "PMCEID1", "PMCNTENCLR",
         "PMCNTENSET", "PMINTENCLR", "PMINTENSET", "PMOVSCLR", "PMOVSSET", "PMSELR", "PMSWINC",
         "PMUSERENR", "PMXEVCNTR", "PMXEVTYPER"})
    <2>1. g = [k \in 1 .. 16 |-> g[k]]
      BY DEF g, armv8a_perfmon, Group
    <2> QED BY <2>1, <1>1, <1>2, <1>3, <1>4, <1>5, <1>6, <1>7, <1>8, <1>9, <1>10, <1>11, <1>12,
       <1>13, <1>14, <1>15, <1>16, Numbers DEF OneEach, Made
  <1> QED BY <1>19, <1>20, GroupFields DEF g, part

LEMMA Armv8AOther1Fields ==
  FieldsTable(ARCH_ARMV8A, armv8a_other_1, {"ACTLR", "CPACR", "RMR", "RVBAR"})
  <1> DEFINE g == armv8a_other_1
             part == ARCH_ARMV8A
  <1>1. Made(g[1], "ACTLR", 64)
    <2>1. g[1] = [K("ACTLR", <<64>>) EXCEPT !.group = "other"]
      BY DEF armv8a_other_1, Group
    <2> QED BY <2>1, Sum1 DEF Made, AreWidths, At, K
  <1>2. Tops(g[2], "CPACR", 32)
    <2>1. g[2] = [At(PL1, "CPACR", <<<<0, 0, 19>>, <<1, 20, 2>>, <<2, 22, 6>>, <<3, 28, 1>>, <<4,
           29, 3>>>>) EXCEPT !.group = "other"]
      BY DEF armv8a_other_1, Group
    <2> QED BY <2>1, Numbers DEF Tops, RowEnd, At
  <1>3. Made(g[3], "RMR", 32)
    <2>1. g[3] = [K("RMR", <<1, 1, 30>>) EXCEPT !.group = "other"]
      BY DEF armv8a_other_1, Group
    <2> QED BY <2>1, Sum3 DEF Made, AreWidths, At, K
  <1>4. Made(g[4], "RVBAR", 64)
    <2>1. g[4] = [K("RVBAR", <<64>>) EXCEPT !.group = "other"]
      BY DEF armv8a_other_1, Group
    <2> QED BY <2>1, Sum1 DEF Made, AreWidths, At, K
  <1>5. \A r \in {"ACTLR", "CPACR", "RMR", "RVBAR"} : Size(part, r) = 32
    BY PartArches DEF Size, Wide, Bodiless, Unread, ARCH_ARMV7A, ARCH_ARMV8A
  <1>6. \A r \in {"CPACR"} : <<part, r>> \in Irregular
    BY DEF Irregular, Cortexes
  <1>7. \A r \in {"ACTLR", "RVBAR"} : r \in Short[ArchOfPart(part)]
    BY PartArches DEF Short, Unread, Arches, ARCH_ARMV7A, ARCH_ARMV8A
  <1> HIDE DEF g, part
  <1>8. \A k \in 1 .. 4 : Regular(part, g[k])
    BY <1>1, <1>2, <1>3, <1>4, <1>5, <1>6, <1>7, MadeRegular, LongRegular, TopsRegular, Numbers
  <1>9. OneEach(g, 4, {"ACTLR", "CPACR", "RMR", "RVBAR"})
    <2>1. g = [k \in 1 .. 4 |-> g[k]]
      BY DEF g, armv8a_other_1, Group
    <2> QED BY <2>1, <1>1, <1>2, <1>3, <1>4, Numbers DEF OneEach, Made, Tops
  <1> QED BY <1>8, <1>9, GroupFields DEF g, part

LEMMA Armv8AFaultFields ==
  FieldsTable(ARCH_ARMV8A, armv8a_fault, {"FAR", "DFSR", "ADFSR", "AIFSR"})
  <1> DEFINE g == armv8a_fault
             part == ARCH_ARMV8A
  <1>1. Made(g[1], "FAR", 64)
    BY Sum1 DEF Made, AreWidths, armv8a_fault, Group, At, K
  <1>2. Made(g[2], "DFSR", 32)
    BY Sum3 DEF Made, AreWidths, armv8a_fault, Group, At, K, Named
  <1>3. Made(g[3], "ADFSR", 32)
    BY Sum1 DEF Made, AreWidths, armv8a_fault, Group, At, K, Named
  <1>4. Made(g[4], "AIFSR", 32)
    BY Sum1 DEF Made, AreWidths, armv8a_fault, Group, At, K, Named
  <1>5. \A r \in {"DFSR", "ADFSR", "AIFSR"} : Size(part, r) = 32
    BY PartArches DEF Size, Wide, Bodiless, Unread, ARCH_ARMV7A, ARCH_ARMV8A
  <1>6. \A r \in {"FAR"} : Size(part, r) = 64
    BY PartArches DEF Size, Wide, Bodiless, Unread, ARCH_ARMV7A, ARCH_ARMV8A
  <1> HIDE DEF g, part
  <1>7. \A k \in 1 .. 4 : Regular(part, g[k])
    BY <1>1, <1>2, <1>3, <1>4, <1>5, <1>6, MadeRegular, Numbers
  <1>8. OneEach(g, 4, {"FAR", "DFSR", "ADFSR", "AIFSR"})
    <2>1. g = [k \in 1 .. 4 |-> g[k]]
      BY DEF g, armv8a_fault, Group
    <2> QED BY <2>1, <1>1, <1>2, <1>3, <1>4, Numbers DEF OneEach, Made
  <1> QED BY <1>7, <1>8, GroupFields DEF g, part

LEMMA Armv8AThumbFields ==
  FieldsTable(ARCH_ARMV8A, armv8a_thumb, {"TEECR", "TEEHBR"})
  <1> DEFINE g == armv8a_thumb
             part == ARCH_ARMV8A
  <1>1. g[1].register = "TEECR"
    BY DEF armv8a_thumb, Group, At, NS
  <1>2. g[2].register = "TEEHBR"
    BY DEF armv8a_thumb, Group, At, NS
  <1>3. \A r \in {"TEECR", "TEEHBR"} : r \in Bodiless(ArchOfPart(part))
    BY PartArches DEF Bodiless, Unread, ARCH_ARMV7A, ARCH_ARMV8A
  <1> HIDE DEF g, part
  <1>4. \A k \in 1 .. 2 : Regular(part, g[k])
    BY <1>1, <1>2, <1>3, UnreadRegular, Numbers
  <1>5. OneEach(g, 2, {"TEECR", "TEEHBR"})
    <2>1. g = [k \in 1 .. 2 |-> g[k]]
      BY DEF g, armv8a_thumb, Group
    <2> QED BY <2>1, <1>1, <1>2, Numbers DEF OneEach
  <1> QED BY <1>4, <1>5, GroupFields DEF g, part

LEMMA Armv8AMiscFields ==
  FieldsTable(ARCH_ARMV8A, armv8a_misc, {"TPIDRPRW", "TPIDRURO", "TPIDRURW"})
  <1> DEFINE g == armv8a_misc
             part == ARCH_ARMV8A
  <1>1. Made(g[1], "TPIDRPRW", 64)
    BY Sum1 DEF Made, AreWidths, armv8a_misc, Group, At, K, Named
  <1>2. Made(g[2], "TPIDRURO", 64)
    BY Sum1 DEF Made, AreWidths, armv8a_misc, Group, At, U, Named
  <1>3. Made(g[3], "TPIDRURW", 64)
    BY Sum1 DEF Made, AreWidths, armv8a_misc, Group, At, U, Named
  <1>4. \A r \in {"TPIDRPRW", "TPIDRURO", "TPIDRURW"} : Size(part, r) = 64
    BY PartArches DEF Size, Wide, Bodiless, Unread, ARCH_ARMV7A, ARCH_ARMV8A
  <1> HIDE DEF g, part
  <1>5. \A k \in 1 .. 3 : Regular(part, g[k])
    BY <1>1, <1>2, <1>3, <1>4, MadeRegular, Numbers
  <1>6. OneEach(g, 3, {"TPIDRPRW", "TPIDRURO", "TPIDRURW"})
    <2>1. g = [k \in 1 .. 3 |-> g[k]]
      BY DEF g, armv8a_misc, Group
    <2> QED BY <2>1, <1>1, <1>2, <1>3, Numbers DEF OneEach, Made
  <1> QED BY <1>5, <1>6, GroupFields DEF g, part

LEMMA Armv8AAddrtransFields ==
  FieldsTable(ARCH_ARMV8A, armv8a_addrtrans, {"PAR"})
  <1> DEFINE g == armv8a_addrtrans
             part == ARCH_ARMV8A
  <1>1. Made(g[1], "PAR", 64)
    BY Sum9 DEF Made, AreWidths, armv8a_addrtrans, Group, At, K
  <1>2. \A r \in {"PAR"} : Size(part, r) = 64
    BY PartArches DEF Size, Wide, Bodiless, Unread, ARCH_ARMV7A, ARCH_ARMV8A
  <1> HIDE DEF g, part
  <1>3. \A k \in 1 .. 1 : Regular(part, g[k])
    BY <1>1, <1>2, MadeRegular
  <1>4. OneEach(g, 1, {"PAR"})
    <2>1. g = [k \in 1 .. 1 |-> g[k]]
      BY DEF g, armv8a_addrtrans, Group
    <2> QED BY <2>1, <1>1 DEF OneEach, Made
  <1> QED BY <1>3, <1>4, GroupFields DEF g, part

LEMMA Armv8AOther2Fields ==
  FieldsTable(ARCH_ARMV8A, armv8a_other_2, {"CURRENTEL", "DAIF", "FPCR", "FPSR", "NZCV",
      "SPSEL"})
  <1> DEFINE g == armv8a_other_2
             part == ARCH_ARMV8A
  <1>1. Made(g[1], "CURRENTEL", 32)
    BY Sum3 DEF Made, AreWidths, armv8a_other_2, Group, At, K
  <1>2. Made(g[2], "DAIF", 32)
    BY Sum6 DEF Made, AreWidths, armv8a_other_2, Group, At, B
  <1>3. Made(g[3], "FPCR", 32)
    BY Sum16 DEF Made, AreWidths, armv8a_other_2, Group, At, B
  <1>4. Made(g[4], "FPSR", 32)
    BY Sum13 DEF Made, AreWidths, armv8a_other_2, Group, At, B
  <1>5. Made(g[5], "NZCV", 32)
    BY Sum5 DEF Made, AreWidths, armv8a_other_2, Group, At, B
  <1>6. Made(g[6], "SPSEL", 32)
    BY Sum2 DEF Made, AreWidths, armv8a_other_2, Group, At, K
  <1>7. \A r \in {"CURRENTEL", "DAIF", "FPCR", "FPSR", "NZCV", "SPSEL"} : Size(part, r) = 32
    BY PartArches DEF Size, Wide, Bodiless, Unread, ARCH_ARMV7A, ARCH_ARMV8A
  <1> HIDE DEF g, part
  <1>8. \A k \in 1 .. 6 : Regular(part, g[k])
    BY <1>1, <1>2, <1>3, <1>4, <1>5, <1>6, <1>7, MadeRegular, Numbers
  <1>9. OneEach(g, 6, {"CURRENTEL", "DAIF", "FPCR", "FPSR", "NZCV", "SPSEL"})
    <2>1. g = [k \in 1 .. 6 |-> g[k]]
      BY DEF g, armv8a_other_2, Group
    <2> QED BY <2>1, <1>1, <1>2, <1>3, <1>4, <1>5, <1>6, Numbers DEF OneEach, Made
  <1> QED BY <1>8, <1>9, GroupFields DEF g, part

LEMMA Giccv2Gicc1Fields ==
  FieldsTable(GICC_V2, giccv2_gicc_1, {"GICC_CTLR", "GICC_PMR", "GICC_BPR", "GICC_IAR",
      "GICC_EOIR", "GICC_RPR", "GICC_HPPIR", "GICC_ABPR", "GICC_AIAR", "GICC_AEOIR",
      "GICC_AHPPIR"})
  <1> DEFINE g == giccv2_gicc_1
             part == GICC_V2
  <1>1. Made(g[1], "GICC_CTLR", 32)
    BY Sum7 DEF Made, AreWidths, giccv2_gicc_1, Group, At, K
  <1>2. Made(g[2], "GICC_PMR", 32)
    BY Sum2 DEF Made, AreWidths, giccv2_gicc_1, Group, At, K
  <1>3. Made(g[3], "GICC_BPR", 32)
    BY Sum2 DEF Made, AreWidths, giccv2_gicc_1, Group, At, K
  <1>4. Made(g[4], "GICC_IAR", 32)
    BY Sum3 DEF Made, AreWidths, giccv2_gicc_1, Group, At, K
  <1>5. Made(g[5], "GICC_EOIR", 32)
    BY Sum3 DEF Made, AreWidths, giccv2_gicc_1, Group, At, K
  <1>6. Made(g[6], "GICC_RPR", 32)
    BY Sum2 DEF Made, AreWidths, giccv2_gicc_1, Group, At, K
  <1>7. Made(g[7], "GICC_HPPIR", 32)
    BY Sum3 DEF Made, AreWidths, giccv2_gicc_1, Group, At, K
  <1>8. Made(g[8], "GICC_ABPR", 32)
    BY Sum2 DEF Made, AreWidths, giccv2_gicc_1, Group, At, K
  <1>9. Made(g[9], "GICC_AIAR", 32)
    BY Sum3 DEF Made, AreWidths, giccv2_gicc_1, Group, At, K
  <1>10. Made(g[10], "GICC_AEOIR", 32)
    BY Sum3 DEF Made, AreWidths, giccv2_gicc_1, Group, At, K
  <1>11. Made(g[11], "GICC_AHPPIR", 32)
    BY Sum3 DEF Made, AreWidths, giccv2_gicc_1, Group, At, K
  <1>12. \A r \in {"GICC_CTLR", "GICC_PMR", "GICC_BPR", "GICC_IAR", "GICC_EOIR", "GICC_RPR",
         "GICC_HPPIR", "GICC_ABPR", "GICC_AIAR", "GICC_AEOIR", "GICC_AHPPIR"} : Size(part, r) =
         32
    BY PartArches DEF Size, Wide, Bodiless, Unread, ARCH_ARMV7A, ARCH_ARMV8A
  <1> HIDE DEF g, part
  <1>13. \A k \in 1 .. 11 : Regular(part, g[k])
    BY <1>1, <1>2, <1>3, <1>4, <1>5, <1>6, <1>7, <1>8, <1>9, <1>10, <1>11, <1>12, MadeRegular,
       Numbers
  <1>14. OneEach(g, 11, {"GICC_CTLR", "GICC_PMR", "GICC_BPR", "GICC_IAR", "GICC_EOIR",
         "GICC_RPR", "GICC_HPPIR", "GICC_ABPR", "GICC_AIAR", "GICC_AEOIR", "GICC_AHPPIR"})
    <2>1. g = [k \in 1 .. 11 |-> g[k]]
      BY DEF g, giccv2_gicc_1, Group
    <2> QED BY <2>1, <1>1, <1>2, <1>3, <1>4, <1>5, <1>6, <1>7, <1>8, <1>9, <1>10, <1>11, Numbers
       DEF OneEach, Made
  <1> QED BY <1>13, <1>14, GroupFields DEF g, part

LEMMA Giccv2Gicc2Fields ==
  FieldsTable(GICC_V2, giccv2_gicc_2, {"GICC_RESERVED_00", "GICC_IMPL_DEF_00", "GICC_APR",
      "GICC_NSAPR", "GICC_RESERVED_01", "GICC_IIDR", "GICC_DIR"})
  <1> DEFINE g == giccv2_gicc_2
             part == GICC_V2
  <1>1. Made(g[1], "GICC_RESERVED_00", 32)
    BY Sum1 DEF Made, AreWidths, giccv2_gicc_2, Group, At, K, Named, Ranged
  <1>2. Made(g[2], "GICC_IMPL_DEF_00", 32)
    BY Sum1 DEF Made, AreWidths, giccv2_gicc_2, Group, At, K, Named, Ranged
  <1>3. Made(g[3], "GICC_APR", 32)
    BY Sum1 DEF Made, AreWidths, giccv2_gicc_2, Group, At, K, Ranged
  <1>4. Made(g[4], "GICC_NSAPR", 32)
    BY Sum1 DEF Made, AreWidths, giccv2_gicc_2, Group, At, K, Ranged
  <1>5. Made(g[5], "GICC_RESERVED_01", 32)
    BY Sum1 DEF Made, AreWidths, giccv2_gicc_2, Group, At, K, Named, Ranged
  <1>6. Made(g[6], "GICC_IIDR", 32)
    BY Sum4 DEF Made, AreWidths, giccv2_gicc_2, Group, At, K
  <1>7. Made(g[7], "GICC_DIR", 32)
    BY Sum3 DEF Made, AreWidths, giccv2_gicc_2, Group, At, K
  <1>8. \A r \in {"GICC_RESERVED_00", "GICC_IMPL_DEF_00", "GICC_APR", "GICC_NSAPR",
         "GICC_RESERVED_01", "GICC_IIDR", "GICC_DIR"} : Size(part, r) = 32
    BY PartArches DEF Size, Wide, Bodiless, Unread, ARCH_ARMV7A, ARCH_ARMV8A
  <1> HIDE DEF g, part
  <1>9. \A k \in 1 .. 7 : Regular(part, g[k])
    BY <1>1, <1>2, <1>3, <1>4, <1>5, <1>6, <1>7, <1>8, MadeRegular, Numbers
  <1>10. OneEach(g, 7, {"GICC_RESERVED_00", "GICC_IMPL_DEF_00", "GICC_APR", "GICC_NSAPR",
         "GICC_RESERVED_01", "GICC_IIDR", "GICC_DIR"})
    <2>1. g = [k \in 1 .. 7 |-> g[k]]
      BY DEF g, giccv2_gicc_2, Group
    <2> QED BY <2>1, <1>1, <1>2, <1>3, <1>4, <1>5, <1>6, <1>7, Numbers DEF OneEach, Made
  <1> QED BY <1>9, <1>10, GroupFields DEF g, part

LEMMA Gicdv2GicdFields ==
  FieldsTable(GICD_V2, gicdv2_gicd, {"GICD_CTLR", "GICD_TYPER", "GICD_IIDR", "GICD_RESERVED_00",
      "GICD_IMP_DEF_00", "GICD_RESERVED_01", "GICD_IGROUPR", "GICD_ISENABLER", "GICD_ISPENDR",
      "GICD_ICPENDR", "GICD_ISACTIVER", "GICD_ICACTIVER", "GICD_IPRIORITYR", "GICD_RESERVED_02",
      "GICD_ITARGETSR", "GICD_RESERVED_03", "GICD_ICFGR", "GICD_IMP_DEF_01", "GICD_NSACR",
      "GICD_SGIR", "GICD_RESERVED_04", "GICD_CPENDSGIR", "GICD_SPENDSGIR", "GICD_RESERVED_05",
      "GICD_IDENT", "GICD_ICPIDR2"})
  <1> DEFINE g == gicdv2_gicd
             part == GICD_V2
  <1>1. Made(g[1], "GICD_CTLR", 32)
    <2>1. g[1] = [K("GICD_CTLR", <<1, 31>>) EXCEPT !.group = "gicd"]
      BY DEF gicdv2_gicd, Group
    <2> QED BY <2>1, Sum2 DEF Made, AreWidths, At, K
  <1>2. Made(g[2], "GICD_TYPER", 32)
    <2>1. g[2] = [K("GICD_TYPER", <<5, 3, 2, 1, 5, 16>>) EXCEPT !.group = "gicd"]
      BY DEF gicdv2_gicd, Group
    <2> QED BY <2>1, Sum6 DEF Made, AreWidths, At, K
  <1>3. Made(g[3], "GICD_IIDR", 32)
    <2>1. g[3] = [K("GICD_IIDR", <<12, 4, 4, 4, 8>>) EXCEPT !.group = "gicd"]
      BY DEF gicdv2_gicd, Group
    <2> QED BY <2>1, Sum5 DEF Made, AreWidths, At, K
  <1>4. Made(g[4], "GICD_RESERVED_00", 32)
    <2>1. g[4] = [Ranged(5, K("GICD_RESERVED_00", <<32>>)) EXCEPT !.group = "gicd"]
      BY DEF gicdv2_gicd, Group
    <2> QED BY <2>1, Sum1 DEF Made, AreWidths, At, K, Ranged
  <1>5. Made(g[5], "GICD_IMP_DEF_00", 32)
    <2>1. g[5] = [Ranged(8, K("GICD_IMP_DEF_00", <<32>>)) EXCEPT !.group = "gicd"]
      BY DEF gicdv2_gicd, Group
    <2> QED BY <2>1, Sum1 DEF Made, AreWidths, At, K, Ranged
  <1>6. Made(g[6], "GICD_RESERVED_01", 32)
    <2>1. g[6] = [Ranged(16, K("GICD_RESERVED_01", <<32>>)) EXCEPT !.group = "gicd"]
      BY DEF gicdv2_gicd, Group
    <2> QED BY <2>1, Sum1 DEF Made, AreWidths, At, K, Ranged
  <1>7. Made(g[7], "GICD_IGROUPR", 32)
    <2>1. g[7] = [Ranged(32, K("GICD_IGROUPR", <<32>>)) EXCEPT !.group = "gicd"]
      BY DEF gicdv2_gicd, Group
    <2> QED BY <2>1, Sum1 DEF Made, AreWidths, At, K, Ranged
  <1>8. Made(g[8], "GICD_ISENABLER", 32)
    <2>1. g[8] = [Ranged(32, K("GICD_ISENABLER", <<32>>)) EXCEPT !.group = "gicd"]
      BY DEF gicdv2_gicd, Group
    <2> QED BY <2>1, Sum1 DEF Made, AreWidths, At, K, Ranged
  <1>9. Made(g[9], "GICD_ISPENDR", 32)
    <2>1. g[9] = [Ranged(32, K("GICD_ISPENDR", <<32>>)) EXCEPT !.group = "gicd"]
      BY DEF gicdv2_gicd, Group
    <2> QED BY <2>1, Sum1 DEF Made, AreWidths, At, K, Ranged
  <1>10. Made(g[10], "GICD_ICPENDR", 32)
    <2>1. g[10] = [Ranged(32, K("GICD_ICPENDR", <<32>>)) EXCEPT !.group = "gicd"]
      BY DEF gicdv2_gicd, Group
    <2> QED BY <2>1, Sum1 DEF Made, AreWidths, At, K, Ranged
  <1>11. Made(g[11], "GICD_ISACTIVER", 32)
    <2>1. g[11] = [Ranged(32, K("GICD_ISACTIVER", <<32>>)) EXCEPT !.group = "gicd"]
      BY DEF gicdv2_gicd, Group
    <2> QED BY <2>1, Sum1 DEF Made, AreWidths, At, K, Ranged
  <1>12. Made(g[12], "GICD_ICACTIVER", 32)
    <2>1. g[12] = [Ranged(32, K("GICD_ICACTIVER", <<32>>)) EXCEPT !.group = "gicd"]
      BY DEF gicdv2_gicd, Group
    <2> QED BY <2>1, Sum1 DEF Made, AreWidths, At, K, Ranged
  <1>13. Made(g[13], "GICD_IPRIORITYR", 32)
    <2>1. g[13] = [Ranged(256, K("GICD_IPRIORITYR", <<8, 8, 8, 8>>)) EXCEPT !.group = "gicd"]
      BY DEF gicdv2_gicd, Group
    <2> QED BY <2>1, Sum4 DEF Made, AreWidths, At, K, Ranged
  <1>14. Made(g[14], "GICD_RESERVED_02", 32)
    <2>1. g[14] = [K("GICD_RESERVED_02", <<32>>) EXCEPT !.group = "gicd"]
      BY DEF gicdv2_gicd, Group
    <2> QED BY <2>1, Sum1 DEF Made, AreWidths, At, K
  <1>15. Made(g[15], "GICD_ITARGETSR", 32)
    <2>1. g[15] = [Ranged(64, K("GICD_ITARGETSR", <<8, 8, 8, 8>>)) EXCEPT !.group = "gicd"]
      BY DEF gicdv2_gicd, Group
    <2> QED BY <2>1, Sum4 DEF Made, AreWidths, At, K, Ranged
  <1>16. Made(g[16], "GICD_RESERVED_03", 32)
    <2>1. g[16] = [K("GICD_RESERVED_03", <<32>>) EXCEPT !.group = "gicd"]
      BY DEF gicdv2_gicd, Group
    <2> QED BY <2>1, Sum1 DEF Made, AreWidths, At, K
  <1>17. Made(g[17], "GICD_ICFGR", 32)
    <2>1. g[17] = [Ranged(128, K("GICD_ICFGR", Each(16, 2))) EXCEPT !.group = "gicd"]
      BY DEF gicdv2_gicd, Group
    <2> QED BY <2>1, Sum16 DEF Made, AreWidths, At, K, Ranged, Each
  <1>18. Made(g[18], "GICD_IMP_DEF_01", 32)
    <2>1. g[18] = [Ranged(32, K("GICD_IMP_DEF_01", <<32>>)) EXCEPT !.group = "gicd"]
      BY DEF gicdv2_gicd, Group
    <2> QED BY <2>1, Sum1 DEF Made, AreWidths, At, K, Ranged
  <1>19. Made(g[19], "GICD_NSACR", 32)
    <2>1. g[19] = [Ranged(64, K("GICD_NSACR", Each(16, 2))) EXCEPT !.group = "gicd"]
      BY DEF gicdv2_gicd, Group
    <2> QED BY <2>1, Sum16 DEF Made, AreWidths, At, K, Ranged, Each
  <1>20. Made(g[20], "GICD_SGIR", 32)
    <2>1. g[20] = [K("GICD_SGIR", <<4, 11, 1, 8, 2, 6>>) EXCEPT !.group = "gicd"]
      BY DEF gicdv2_gicd, Group
    <2> QED BY <2>1, Sum6 DEF Made, AreWidths, At, K
  <1>21. Made(g[21], "GICD_RESERVED_04", 4)
    <2>1. g[21] = [Ranged(3, K("GICD_RESERVED_04", <<4>>)) EXCEPT !.group = "gicd"]
      BY DEF gicdv2_gicd, Group
    <2> QED BY <2>1, Sum1 DEF Made, AreWidths, At, K, Ranged
  <1>22. Made(g[22], "GICD_CPENDSGIR", 32)
    <2>1. g[22] = [Ranged(4, K("GICD_CPENDSGIR", <<8, 8, 8, 8>>)) EXCEPT !.group = "gicd"]
      BY DEF gicdv2_gicd, Group
    <2> QED BY <2>1, Sum4 DEF Made, AreWidths, At, K, Ranged
  <1>23. Made(g[23], "GICD_SPENDSGIR", 32)
    <2>1. g[23] = [Ranged(4, K("GICD_SPENDSGIR", <<8, 8, 8, 8>>)) EXCEPT !.group = "gicd"]
      BY DEF gicdv2_gicd, Group
    <2> QED BY <2>1, Sum4 DEF Made, AreWidths, At, K, Ranged
  <1>24. Made(g[24], "GICD_RESERVED_05", 32)
    <2>1. g[24] = [Ranged(40, K("GICD_RESERVED_05", <<32>>)) EXCEPT !.group = "gicd"]
      BY DEF gicdv2_gicd, Group
    <2> QED BY <2>1, Sum1 DEF Made, AreWidths, At, K, Ranged
  <1>25. Made(g[25], "GICD_IDENT", 32)
    <2>1. g[25] = [Ranged(12, K("GICD_IDENT", <<32>>)) EXCEPT !.group = "gicd"]
      BY DEF gicdv2_gicd, Group
    <2> QED BY <2>1, Sum1 DEF Made, AreWidths, At, K, Ranged
  <1>26. Made(g[26], "GICD_ICPIDR2", 32)
    <2>1. g[26] = [K("GICD_ICPIDR2", <<4, 4, 24>>) EXCEPT !.group = "gicd"]
      BY DEF gicdv2_gicd, Group
    <2> QED BY <2>1, Sum3 DEF Made, AreWidths, At, K
  <1>27. \A r \in {"GICD_CTLR", "GICD_TYPER", "GICD_IIDR", "GICD_RESERVED_00", "GICD_IMP_DEF_00",
         "GICD_RESERVED_01", "GICD_IGROUPR", "GICD_ISENABLER", "GICD_ISPENDR", "GICD_ICPENDR",
         "GICD_ISACTIVER", "GICD_ICACTIVER", "GICD_IPRIORITYR", "GICD_RESERVED_02",
         "GICD_ITARGETSR", "GICD_RESERVED_03", "GICD_ICFGR", "GICD_IMP_DEF_01", "GICD_NSACR",
         "GICD_SGIR", "GICD_RESERVED_04", "GICD_CPENDSGIR", "GICD_SPENDSGIR", "GICD_RESERVED_05",
         "GICD_IDENT", "GICD_ICPIDR2"} : Size(part, r) = 32
    BY PartArches DEF Size, Wide, Bodiless, Unread, ARCH_ARMV7A, ARCH_ARMV8A
  <1>28. \A r \in {"GICD_RESERVED_04"} : <<part, r>> \in Irregular
    BY DEF Irregular, Cortexes
  <1> HIDE DEF g, part
  <1>29. \A k \in 1 .. 26 : Regular(part, g[k])
    BY <1>1, <1>2, <1>3, <1>4, <1>5, <1>6, <1>7, <1>8, <1>9, <1>10, <1>11, <1>12, <1>13, <1>14,
       <1>15, <1>16, <1>17, <1>18, <1>19, <1>20, <1>21, <1>22, <1>23, <1>24, <1>25, <1>26, <1>27,
       <1>28, MadeRegular, OddRegular, Numbers
  <1>30. OneEach(g, 26, {"GICD_CTLR", "GICD_TYPER", "GICD_IIDR", "GICD_RESERVED_00",
         "GICD_IMP_DEF_00", "GICD_RESERVED_01", "GICD_IGROUPR", "GICD_ISENABLER", "GICD_ISPENDR",
         "GICD_ICPENDR", "GICD_ISACTIVER", "GICD_ICACTIVER", "GICD_IPRIORITYR",
         "GICD_RESERVED_02", "GICD_ITARGETSR", "GICD_RESERVED_03", "GICD_ICFGR",
         "GICD_IMP_DEF_01", "GICD_NSACR", "GICD_SGIR", "GICD_RESERVED_04", "GICD_CPENDSGIR",
         "GICD_SPENDSGIR", "GICD_RESERVED_05", "GICD_IDENT", "GICD_ICPIDR2"})
    <2>1. g = [k \in 1 .. 26 |-> g[k]]
      BY DEF g, gicdv2_gicd, Group
    <2>2. \A k \in 1 .. 26 : g[k].register = <<"GICD_CTLR", "GICD_TYPER", "GICD_IIDR",
           "GICD_RESERVED_00", "GICD_IMP_DEF_00", "GICD_RESERVED_01", "GICD_IGROUPR",
           "GICD_ISENABLER", "GICD_ISPENDR", "GICD_ICPENDR", "GICD_ISACTIVER", "GICD_ICACTIVER",
           "GICD_IPRIORITYR", "GICD_RESERVED_02", "GICD_ITARGETSR", "GICD_RESERVED_03",
           "GICD_ICFGR", "GICD_IMP_DEF_01", "GICD_NSACR", "GICD_SGIR", "GICD_RESERVED_04",
           "GICD_CPENDSGIR", "GICD_SPENDSGIR", "GICD_RESERVED_05", "GICD_IDENT",
           "GICD_ICPIDR2">>[k]
      BY <1>1, <1>2, <1>3, <1>4, <1>5, <1>6, <1>7, <1>8, <1>9, <1>10, <1>11, <1>12, <1>13, <1>14,
         <1>15, <1>16, <1>17, <1>18, <1>19, <1>20, <1>21, <1>22, <1>23, <1>24, <1>25, <1>26,
         Numbers DEF Made
    <2>3. \A k, l \in 1 .. 26 : g[k].register = g[l].register => k = l
      BY <2>2, Numbers, SMTT(60)
    <2> QED BY <2>1, <2>2, <2>3, Numbers, SMTT(60) DEF OneEach
  <1> QED BY <1>29, <1>30, GroupFields DEF g, part

\* The entries of CPSR have its bits between them.
LEMMA Armv7APsrFields ==
  FieldsTable(ARCH_ARMV7A, armv7a_psr, {"APSR", "CPSR"})
  <1> DEFINE g == armv7a_psr
             part == ARCH_ARMV7A
  <1>1. Made(g[1], "APSR", 32)
    <2>1. g[1] = [B("APSR", <<16, 4, 4, 3, 1, 1, 1, 1, 1>>) EXCEPT !.group = "psr"]
      BY DEF armv7a_psr, Group
    <2> QED BY <2>1, Sum9 DEF Made, AreWidths, At, B
  <1>2. Made(g[2], "CPSR", 16)
    <2>1. g[2] = [K("CPSR", <<5, 1, 1, 1, 1, 1, 6>>) EXCEPT !.group = "psr"]
      BY DEF armv7a_psr, Group
    <2> QED BY <2>1, Sum7 DEF Made, AreWidths, At, K
  <1>3. /\ g[3].register = "CPSR" /\ g[4].register = "CPSR" /\ g[5].register = "CPSR"
        /\ g[3].rows = <<<<7, 16, 4>>, <<8, 20, 4>>, <<9, 24, 1>>>>
        /\ g[4].rows = <<<<10, 25, 2>>>>
        /\ g[5].rows = <<<<11, 27, 1>>, <<12, 28, 1>>, <<13, 29, 1>>, <<14, 30, 1>>,
                         <<15, 31, 1>>>>
    <2>1. g[3] = [At(PL0, "CPSR", <<<<7, 16, 4>>, <<8, 20, 4>>, <<9, 24, 1>>>>)
                      EXCEPT !.group = "psr"]
      BY DEF armv7a_psr, Group
    <2>2. g[4] = [At(PL1, "CPSR", <<<<10, 25, 2>>>>) EXCEPT !.group = "psr"]
      BY DEF armv7a_psr, Group
    <2>3. g[5] = [At(PL0, "CPSR", <<<<11, 27, 1>>, <<12, 28, 1>>, <<13, 29, 1>>,
                                    <<14, 30, 1>>, <<15, 31, 1>>>>) EXCEPT !.group = "psr"]
      BY DEF armv7a_psr, Group
    <2> QED BY <2>1, <2>2, <2>3 DEF At
  <1>4. /\ Len(g[3].rows) = 3 /\ Len(g[4].rows) = 1 /\ Len(g[5].rows) = 5
        /\ \A n \in 1 .. 3 : n = 1 \/ n = 2 \/ n = 3
        /\ RowBits(g[3].rows[1]) = 16 .. 19 /\ RowEnd(g[3].rows[1]) <= 32
        /\ RowBits(g[3].rows[2]) = 20 .. 23 /\ RowEnd(g[3].rows[2]) <= 32
        /\ RowBits(g[3].rows[3]) = 24 .. 24 /\ RowEnd(g[3].rows[3]) <= 32
        /\ RowBits(g[4].rows[1]) = 25 .. 26 /\ RowEnd(g[4].rows[1]) <= 32
        /\ \A n \in 1 .. 5 : RowBits(g[5].rows[n]) = 26 + n .. 26 + n /\ RowEnd(g[5].rows[n]) <= 32
    BY <1>3, Numbers DEF RowBits, RowEnd
  <1> DEFINE J(b) == IF b < 25 THEN 3 ELSE IF b < 27 THEN 4 ELSE 5
             M(b) == IF b < 20 THEN 1 ELSE IF b < 24 THEN 2 ELSE IF b < 25 THEN 3
                     ELSE IF b < 27 THEN 1 ELSE b - 26
  <1>5. Size(part, "APSR") = 32 /\ Size(part, "CPSR") = 32
    BY PartArches DEF Size, Wide, Bodiless, Unread, ARCH_ARMV7A, ARCH_ARMV8A
  <1>6. g = [k \in 1 .. 5 |-> g[k]]
    BY DEF armv7a_psr, Group
  <1>7. \A k \in 1 .. 5 : /\ g[k].name = g[k].register /\ g[k].range = 1 /\ g[k].group = "psr"
    BY Numbers DEF armv7a_psr, Group, At, B, K
  <1> HIDE DEF g, part, J, M
  <1>a. ASSUME NEW k \in 3 .. 5, NEW m \in 1 .. Len(g[k].rows), NEW b \in RowBits(g[k].rows[m])
         PROVE  b \in 16 .. 31 /\ k = J(b) /\ m = M(b)
    <2>1. CASE k = 3
      <3>1. m = 1 \/ m = 2 \/ m = 3
        <4>1. m \in 1 .. 3
          BY <1>4, <2>1
        <4> QED BY <1>4, <4>1
      <3>2. CASE m = 1
        <4>1. b \in 16 .. 19
          BY <1>4, <2>1, <3>2
        <4> QED BY <2>1, <3>2, <4>1 DEF J, M
      <3>3. CASE m = 2
        <4>1. b \in 20 .. 23
          BY <1>4, <2>1, <3>3
        <4> QED BY <2>1, <3>3, <4>1 DEF J, M
      <3>4. CASE m = 3
        <4>1. b \in 24 .. 24
          BY <1>4, <2>1, <3>4
        <4> QED BY <2>1, <3>4, <4>1 DEF J, M
      <3> QED BY <3>1, <3>2, <3>3, <3>4
    <2>2. CASE k = 4
      <3>1. m = 1 /\ b \in 25 .. 26
        BY <1>4, <2>2
      <3> QED BY <2>2, <3>1 DEF J, M
    <2>3. CASE k = 5
      <3>1. m \in 1 .. 5 /\ b \in 26 + m .. 26 + m
        BY <1>4, <2>3
      <3> QED BY <2>3, <3>1 DEF J, M
    <2> QED BY <2>1, <2>2, <2>3
  <1>b. ASSUME NEW b \in 16 .. 31
         PROVE  J(b) \in 3 .. 5 /\ M(b) \in 1 .. Len(g[J(b)].rows) /\ b \in RowBits(g[J(b)].rows[M(b)])
    <2>1. CASE b < 25
      <3>1. J(b) = 3 /\ \/ M(b) = 1 /\ b \in 16 .. 19
                        \/ M(b) = 2 /\ b \in 20 .. 23
                        \/ M(b) = 3 /\ b \in 24 .. 24
        BY <2>1 DEF J, M
      <3> QED BY <1>4, <3>1
    <2>2. CASE ~ (b < 25) /\ b < 27
      <3>1. J(b) = 4 /\ M(b) = 1 /\ b \in 25 .. 26
        BY <2>2 DEF J, M
      <3> QED BY <1>4, <3>1
    <2>3. CASE ~ (b < 27)
      <3>1. J(b) = 5 /\ M(b) \in 1 .. 5 /\ b \in 26 + M(b) .. 26 + M(b)
        BY <2>3 DEF J, M
      <3> QED BY <1>4, <3>1
    <2> QED BY <2>1, <2>2, <2>3
  <1>8. Len(g) = 5 /\ \E S : g \in Seq(S)
    BY <1>6, GroupSequence
  <1>9. \A k \in 1 .. 5 : k \in {1, 2, 3, 4, 5}
    OBVIOUS
  <1>10. ASSUME NEW n \in 1 .. Len(g[2].rows)
         PROVE  /\ RowEnd(g[2].rows[n]) <= 16 /\ RowEnd(g[2].rows[n]) \in Nat
                /\ \A b \in RowBits(g[2].rows[n]) : b < 16
    <2>1. g[2].rows[n][2] \in Nat /\ g[2].rows[n][3] \in Nat
      BY <1>2 DEF Made, Spans
    <2>2. RowEnd(g[2].rows[n]) <= 16
      BY <1>2, SpansWithin DEF Made
    <2> QED BY <2>1, <2>2, RowNumbers
  <1>11. \A k \in 1 .. 5 : g[k].register \in {"APSR", "CPSR"} /\ Ends(part, g[k])
    <2>1. Regular(part, g[1])
      BY <1>1, <1>5, MadeRegular
    <2>2. \A n \in 1 .. Len(g[2].rows) : RowEnd(g[2].rows[n]) <= 32
      BY <1>10
    <2>3. \A k \in 2 .. 5 : g[k].register = "CPSR"
      BY <1>2, <1>3, <1>9 DEF Made
    <2>4. \A k \in 2 .. 5 : Ends(part, g[k])
      <3>1. \A k \in 2 .. 5 : k = 2 \/ k = 3 \/ k = 4 \/ k = 5
        OBVIOUS
      <3>2. \A k \in 2 .. 5 : \A n \in 1 .. Len(g[k].rows) : RowEnd(g[k].rows[n]) <= 32
        <4>1. \A n \in 1 .. Len(g[3].rows) : RowEnd(g[3].rows[n]) <= 32
          BY <1>4
        <4>2. \A n \in 1 .. Len(g[4].rows) : RowEnd(g[4].rows[n]) <= 32
          BY <1>4
        <4>3. \A n \in 1 .. Len(g[5].rows) : RowEnd(g[5].rows[n]) <= 32
          BY <1>4
        <4> QED BY <2>2, <3>1, <4>1, <4>2, <4>3
      <3> QED BY <1>5, <2>3, <3>2 DEF Ends
    <2>5. \A k \in 1 .. 5 : k = 1 \/ k \in 2 .. 5
      OBVIOUS
    <2> QED BY <1>1, <2>1, <2>3, <2>4, <2>5 DEF Regular, Made
  <1>12. ASSUME NEW b \in 0 .. 31 PROVE GivesOnce(g, "APSR", b)
    <2>1. PICK n \in 1 .. Len(g[1].rows) :
              /\ b \in RowBits(g[1].rows[n])
              /\ \A m \in 1 .. Len(g[1].rows) : b \in RowBits(g[1].rows[m]) => m = n
      <3>1. Spans(g[1].rows, 32) /\ b \in Nat /\ b < 32
        BY <1>1 DEF Made
      <3> QED BY <3>1, SpansOnce
    <2>2. Gives(g, "APSR", b, 1, n)
      BY <1>1, <1>8, <2>1 DEF Gives, Made
    <2>3. \A k, m : Gives(g, "APSR", b, k, m) => k = 1 /\ m = n
      BY <1>2, <1>3, <1>8, <1>9, <2>1 DEF Gives, Made
    <2> QED BY <2>2, <2>3, OneGives
  <1>13. ASSUME NEW b \in 0 .. 31 PROVE GivesOnce(g, "CPSR", b)
    <2>1. CASE b < 16
      <3>1. PICK n \in 1 .. Len(g[2].rows) :
                /\ b \in RowBits(g[2].rows[n])
                /\ \A m \in 1 .. Len(g[2].rows) : b \in RowBits(g[2].rows[m]) => m = n
        <4>1. Spans(g[2].rows, 16) /\ b \in Nat /\ b < 16
          BY <1>2, <2>1 DEF Made
        <4> QED BY <4>1, SpansOnce
      <3>2. Gives(g, "CPSR", b, 2, n)
        BY <1>2, <1>8, <3>1 DEF Gives, Made
      <3>3. ASSUME NEW k, NEW m, Gives(g, "CPSR", b, k, m) PROVE k = 2 /\ m = n
        <4>1. k \in 1 .. 5 /\ k # 1 /\ m \in 1 .. Len(g[k].rows) /\ b \in RowBits(g[k].rows[m])
          BY <1>1, <1>8, <3>3 DEF Gives, Made
        <4>2. k = 2
          <5>1. k \in 3 .. 5 => b \in 16 .. 31
            BY <1>a, <4>1
          <5> QED BY <2>1, <4>1, <5>1
        <4> QED BY <3>1, <4>1, <4>2
      <3>4. \A k, m : Gives(g, "CPSR", b, k, m) => k = 2 /\ m = n
        BY <3>3
      <3> QED BY <3>2, <3>4, OneGives
    <2>2. CASE ~ (b < 16)
      <3>1. b \in 16 .. 31
        BY <2>2
      <3>2. Gives(g, "CPSR", b, J(b), M(b))
        <4>1. \A k \in 3 .. 5 : k \in 1 .. 5 /\ g[k].register = "CPSR"
          BY <1>3, <1>9
        <4> QED BY <1>8, <1>b, <3>1, <4>1 DEF Gives
      <3>3. ASSUME NEW k, NEW m, Gives(g, "CPSR", b, k, m) PROVE k = J(b) /\ m = M(b)
        <4>1. k \in 1 .. 5 /\ k # 1 /\ m \in 1 .. Len(g[k].rows) /\ b \in RowBits(g[k].rows[m])
          BY <1>1, <1>8, <3>3 DEF Gives, Made
        <4>2. k # 2
          BY <1>10, <2>2, <4>1
        <4>3. k \in 3 .. 5
          BY <4>1, <4>2
        <4> QED BY <1>a, <4>1, <4>3
      <3>4. \A k, m : Gives(g, "CPSR", b, k, m) => k = J(b) /\ m = M(b)
        BY <3>3
      <3> QED BY <3>2, <3>4, OneGives
    <2> QED BY <2>1, <2>2
  <1>14. \A i, j \in 1 .. Len(g) : g[i].register = g[j].register =>
            g[i].name = g[j].name /\ g[i].range = g[j].range /\ g[i].group = g[j].group
    BY <1>7, <1>8
  <1>15. \A r \in {"APSR", "CPSR"} : \A b \in 0 .. Size(part, r) - 1 : GivesOnce(g, r, b)
    BY <1>5, <1>12, <1>13
  <1>16. FieldsTable(part, g, {"APSR", "CPSR"})
    BY <1>8, <1>11, <1>14, <1>15 DEF FieldsTable
  <1> QED BY <1>16 DEF g, part

-----------------------------------------------------------------------------
(***************************************************************************)
(* The tables.                                                             *)
(***************************************************************************)
LEMMA A7TableFields ==
  \E R : FieldsTable(IMPL_CORTEX_A7, bitfield_table[1].table, R)
  <1> DEFINE Q1 == {"REVIDR", "MPIDR"}
             Q2 == {"ACTLR"}
             Q3 == {"NSACR"}
             Q4 == {"L2CTLR", "L2ECTLR", "CBAR"}
             U2 == Q1 \cup Q2
             U3 == U2 \cup Q3
             U4 == U3 \cup Q4
  <1>1. FieldsTable(IMPL_CORTEX_A7, a7_ident, Q1)
    BY A7IdentFields
  <1>2. FieldsTable(IMPL_CORTEX_A7, a7_other, Q2) /\ Q1 \cap Q2 = {}
    BY A7OtherFields
  <1>3. FieldsTable(IMPL_CORTEX_A7, a7_secext, Q3) /\ U2 \cap Q3 = {}
    BY A7SecextFields
  <1>4. FieldsTable(IMPL_CORTEX_A7, a7_impl_def, Q4) /\ U3 \cap Q4 = {}
    BY A7ImplDefFields
  <1> HIDE DEF Q1, Q2, Q3, Q4
  <1>5. FieldsTable(IMPL_CORTEX_A7, a7_ident \o a7_other, U2)
    BY <1>1, <1>2, BothFields
  <1>6. FieldsTable(IMPL_CORTEX_A7, a7_ident \o a7_other \o a7_secext, U3)
    BY <1>5, <1>3, BothFields
  <1>7. FieldsTable(IMPL_CORTEX_A7, a7_ident \o a7_other \o a7_secext \o a7_impl_def, U4)
    BY <1>6, <1>4, BothFields
  <1> HIDE DEF U4
  <1> QED BY <1>7 DEF bitfield_table

LEMMA A15TableFields ==
  \E R : FieldsTable(IMPL_CORTEX_A15, bitfield_table[2].table, R)
  <1> DEFINE Q1 == {"REVIDR", "MPIDR"}
             Q2 == {"ACTLR"}
             Q3 == {"NSACR"}
             Q4 == {"ADFSR"}
             Q5 == {"L2CTLR", "IL1DATA0", "IL1DATA1", "IL1DATA2", "IL1DATA3", "DL1DATA0",
                    "DL1DATA1", "DL1DATA2", "DL1DATA3"}
             Q6 == {"L2ACTLR", "L2PFR", "ACTLR2", "CBAR", "CPUMERRSR", "L2MERRSR"}
             U2 == Q1 \cup Q2
             U3 == U2 \cup Q3
             U4 == U3 \cup Q4
             U5 == U4 \cup Q5
             U6 == U5 \cup Q6
  <1>1. FieldsTable(IMPL_CORTEX_A15, a15_ident, Q1)
    BY A15IdentFields
  <1>2. FieldsTable(IMPL_CORTEX_A15, a15_other, Q2) /\ Q1 \cap Q2 = {}
    BY A15OtherFields
  <1>3. FieldsTable(IMPL_CORTEX_A15, a15_secext, Q3) /\ U2 \cap Q3 = {}
    BY A15SecextFields
  <1>4. FieldsTable(IMPL_CORTEX_A15, a15_fault, Q4) /\ U3 \cap Q4 = {}
    BY A15FaultFields
  <1>5. FieldsTable(IMPL_CORTEX_A15, a15_impl_def_1, Q5) /\ U4 \cap Q5 = {}
    BY A15ImplDef1Fields
  <1>6. FieldsTable(IMPL_CORTEX_A15, a15_impl_def_2, Q6) /\ U5 \cap Q6 = {}
    BY A15ImplDef2Fields
  <1> HIDE DEF Q1, Q2, Q3, Q4, Q5, Q6
  <1>7. FieldsTable(IMPL_CORTEX_A15, a15_ident \o a15_other, U2)
    BY <1>1, <1>2, BothFields
  <1>8. FieldsTable(IMPL_CORTEX_A15, a15_ident \o a15_other \o a15_secext, U3)
    BY <1>7, <1>3, BothFields
  <1>9. FieldsTable(IMPL_CORTEX_A15, a15_ident \o a15_other \o a15_secext \o a15_fault, U4)
    BY <1>8, <1>4, BothFields
  <1>10. FieldsTable(IMPL_CORTEX_A15, a15_ident \o a15_other \o a15_secext \o a15_fault \o
          a15_impl_def_1, U5)
    BY <1>9, <1>5, BothFields
  <1>11. FieldsTable(IMPL_CORTEX_A15, a15_ident \o a15_other \o a15_secext \o a15_fault \o
          a15_impl_def_1 \o a15_impl_def_2, U6)
    BY <1>10, <1>6, BothFields
  <1> HIDE DEF U6
  <1> QED BY <1>11 DEF bitfield_table

LEMMA A53TableFields ==
  \E R : FieldsTable(IMPL_CORTEX_A53, bitfield_table[3].table, R)
  <1> DEFINE Q1 == {"L2CTLR", "L2ECTLR", "L2ACTLR"}
             Q2 == {"PAR"}
             Q3 == {"CPUACTLR", "CPUECTLR", "CPUMERRSR", "L2MERRSR", "CBAR"}
             Q4 == {"SCTLR"}
             Q5 == {"DFSR"}
             U2 == Q1 \cup Q2
             U3 == U2 \cup Q3
             U4 == U3 \cup Q4
             U5 == U4 \cup Q5
  <1>1. FieldsTable(IMPL_CORTEX_A53, a53_impl_def_1, Q1)
    BY A53ImplDef1Fields
  <1>2. FieldsTable(IMPL_CORTEX_A53, a53_addrtrans, Q2) /\ Q1 \cap Q2 = {}
    BY A53AddrtransFields
  <1>3. FieldsTable(IMPL_CORTEX_A53, a53_impl_def_2, Q3) /\ U2 \cap Q3 = {}
    BY A53ImplDef2Fields
  <1>4. FieldsTable(IMPL_CORTEX_A53, a53_virtmem, Q4) /\ U3 \cap Q4 = {}
    BY A53VirtmemFields
  <1>5. FieldsTable(IMPL_CORTEX_A53, a53_fault, Q5) /\ U4 \cap Q5 = {}
    BY A53FaultFields
  <1> HIDE DEF Q1, Q2, Q3, Q4, Q5
  <1>6. FieldsTable(IMPL_CORTEX_A53, a53_impl_def_1 \o a53_addrtrans, U2)
    BY <1>1, <1>2, BothFields
  <1>7. FieldsTable(IMPL_CORTEX_A53, a53_impl_def_1 \o a53_addrtrans \o a53_impl_def_2, U3)
    BY <1>6, <1>3, BothFields
  <1>8. FieldsTable(IMPL_CORTEX_A53, a53_impl_def_1 \o a53_addrtrans \o a53_impl_def_2 \o
          a53_virtmem, U4)
    BY <1>7, <1>4, BothFields
  <1>9. FieldsTable(IMPL_CORTEX_A53, a53_impl_def_1 \o a53_addrtrans \o a53_impl_def_2 \o
          a53_virtmem \o a53_fault, U5)
    BY <1>8, <1>5, BothFields
  <1> HIDE DEF U5
  <1> QED BY <1>9 DEF bitfield_table

LEMMA A57TableFields ==
  \E R : FieldsTable(IMPL_CORTEX_A57, bitfield_table[4].table, R)
  <1> DEFINE Q1 == {"MPIDR"}
             Q2 == {"SCTLR", "TTBR0", "TTBR1"}
             Q3 == {"DFSR"}
             Q4 == {"PAR"}
             Q5 == {"L2CTLR", "L2ECTLR", "L2ACTLR"}
             Q6 == {"CPUACTLR", "CPUMERRSR", "L2MERRSR", "CBAR", "CPUECTLR"}
             U2 == Q1 \cup Q2
             U3 == U2 \cup Q3
             U4 == U3 \cup Q4
             U5 == U4 \cup Q5
             U6 == U5 \cup Q6
  <1>1. FieldsTable(IMPL_CORTEX_A57, a57_ident, Q1)
    BY A57IdentFields
  <1>2. FieldsTable(IMPL_CORTEX_A57, a57_virtmem, Q2) /\ Q1 \cap Q2 = {}
    BY A57VirtmemFields
  <1>3. FieldsTable(IMPL_CORTEX_A57, a57_fault, Q3) /\ U2 \cap Q3 = {}
    BY A57FaultFields
  <1>4. FieldsTable(IMPL_CORTEX_A57, a57_addrtrans, Q4) /\ U3 \cap Q4 = {}
    BY A57AddrtransFields
  <1>5. FieldsTable(IMPL_CORTEX_A57, a57_impl_def_1, Q5) /\ U4 \cap Q5 = {}
    BY A57ImplDef1Fields
  <1>6. FieldsTable(IMPL_CORTEX_A57, a57_impl_def_2, Q6) /\ U5 \cap Q6 = {}
    BY A57ImplDef2Fields
  <1> HIDE DEF Q1, Q2, Q3, Q4, Q5, Q6
  <1>7. FieldsTable(IMPL_CORTEX_A57, a57_ident \o a57_virtmem, U2)
    BY <1>1, <1>2, BothFields
  <1>8. FieldsTable(IMPL_CORTEX_A57, a57_ident \o a57_virtmem \o a57_fault, U3)
    BY <1>7, <1>3, BothFields
  <1>9. FieldsTable(IMPL_CORTEX_A57, a57_ident \o a57_virtmem \o a57_fault \o a57_addrtrans, U4)
    BY <1>8, <1>4, BothFields
  <1>10. FieldsTable(IMPL_CORTEX_A57, a57_ident \o a57_virtmem \o a57_fault \o a57_addrtrans \o
          a57_impl_def_1, U5)
    BY <1>9, <1>5, BothFields
  <1>11. FieldsTable(IMPL_CORTEX_A57, a57_ident \o a57_virtmem \o a57_fault \o a57_addrtrans \o
          a57_impl_def_1 \o a57_impl_def_2, U6)
    BY <1>10, <1>6, BothFields
  <1> HIDE DEF U6
  <1> QED BY <1>11 DEF bitfield_table

LEMMA Armv7ATableFields ==
  \E R : FieldsTable(ARCH_ARMV7A, bitfield_table[5].table, R)
  <1> DEFINE Q1 == {"PFR0", "PFR1", "DFR0", "AFR0", "MMFR0", "MMFR1", "MMFR2", "MMFR3"}
             Q2 == {"ISAR0", "ISAR1", "ISAR2", "ISAR3", "ISAR4", "ISAR5", "REVIDR", "TLBTR",
                    "CCSIDR", "TCMTR", "AIDR", "CLIDR", "CSSELR", "CTR", "MIDR", "MPIDR"}
             Q3 == {"FPSID", "FPSCR", "FPEXC", "MVFR0", "MVFR1"}
             Q4 == {"SCR", "ISR", "MVBAR", "NSACR", "SDER", "VBAR"}
             Q5 == {"DBGDIDR", "DBGAUTHSTATUS", "DBGDRAR", "DBGDSCR"}
             Q6 == {"NMRR", "PRRR", "SCTLR", "TTBCR", "TTBR0", "TTBR0LPAE", "TTBR1", "TTBR1LPAE",
                    "CONTEXTIDR", "AMAIR0", "AMAIR1", "DACR", "MAIR0", "MAIR1"}
             Q7 == {"PMCCNTR", "PMCEID0", "PMCEID1", "PMCNTENCLR", "PMCNTENSET", "PMINTENSET",
                    "PMINTENCLR", "PMOVSR", "PMOVSSET", "PMSELR", "PMSWINC", "PMUSERENR",
                    "PMXEVCNTR", "PMXEVTYPER", "PMCR"}
             Q8 == {"ACTLR", "CPACR", "FCSEIDR"}
             Q9 == {"IFAR", "IFSR", "ADFSR", "AIFSR", "DFAR", "DFSR"}
             Q10 == {"JIDR", "JMCR", "JOSCR"}
             Q11 == {"TEECR", "TEEHBR"}
             Q12 == {"TPIDRPRW", "TPIDRURO", "TPIDRURW"}
             Q13 == {"PAR"}
             Q14 == {"APSR", "CPSR"}
             U2 == Q1 \cup Q2
             U3 == U2 \cup Q3
             U4 == U3 \cup Q4
             U5 == U4 \cup Q5
             U6 == U5 \cup Q6
             U7 == U6 \cup Q7
             U8 == U7 \cup Q8
             U9 == U8 \cup Q9
             U10 == U9 \cup Q10
             U11 == U10 \cup Q11
             U12 == U11 \cup Q12
             U13 == U12 \cup Q13
             U14 == U13 \cup Q14
  <1>1. FieldsTable(ARCH_ARMV7A, armv7a_ident_1, Q1)
    BY Armv7AIdent1Fields
  <1>2. FieldsTable(ARCH_ARMV7A, armv7a_ident_2, Q2) /\ Q1 \cap Q2 = {}
    BY Armv7AIdent2Fields
  <1>3. FieldsTable(ARCH_ARMV7A, armv7a_fp, Q3) /\ U2 \cap Q3 = {}
    BY Armv7AFpFields
  <1>4. FieldsTable(ARCH_ARMV7A, armv7a_secext, Q4) /\ U3 \cap Q4 = {}
    BY Armv7ASecextFields
  <1>5. FieldsTable(ARCH_ARMV7A, armv7a_debug, Q5) /\ U4 \cap Q5 = {}
    BY Armv7ADebugFields
  <1>6. FieldsTable(ARCH_ARMV7A, armv7a_virtmem, Q6) /\ U5 \cap Q6 = {}
    BY Armv7AVirtmemFields
  <1>7. FieldsTable(ARCH_ARMV7A, armv7a_perfmon, Q7) /\ U6 \cap Q7 = {}
    BY Armv7APerfmonFields
  <1>8. FieldsTable(ARCH_ARMV7A, armv7a_other, Q8) /\ U7 \cap Q8 = {}
    BY Armv7AOtherFields
  <1>9. FieldsTable(ARCH_ARMV7A, armv7a_fault, Q9) /\ U8 \cap Q9 = {}
    BY Armv7AFaultFields
  <1>10. FieldsTable(ARCH_ARMV7A, armv7a_jazelle, Q10) /\ U9 \cap Q10 = {}
    BY Armv7AJazelleFields
  <1>11. FieldsTable(ARCH_ARMV7A, armv7a_thumb, Q11) /\ U10 \cap Q11 = {}
    BY Armv7AThumbFields
  <1>12. FieldsTable(ARCH_ARMV7A, armv7a_misc, Q12) /\ U11 \cap Q12 = {}
    BY Armv7AMiscFields
  <1>13. FieldsTable(ARCH_ARMV7A, armv7a_addrtrans, Q13) /\ U12 \cap Q13 = {}
    BY Armv7AAddrtransFields
  <1>14. FieldsTable(ARCH_ARMV7A, armv7a_psr, Q14) /\ U13 \cap Q14 = {}
    BY Armv7APsrFields
  <1> HIDE DEF Q1, Q2, Q3, Q4, Q5, Q6, Q7, Q8, Q9, Q10, Q11, Q12, Q13, Q14
  <1>15. FieldsTable(ARCH_ARMV7A, armv7a_ident_1 \o armv7a_ident_2, U2)
    BY <1>1, <1>2, BothFields
  <1>16. FieldsTable(ARCH_ARMV7A, armv7a_ident_1 \o armv7a_ident_2 \o armv7a_fp, U3)
    BY <1>15, <1>3, BothFields
  <1>17. FieldsTable(ARCH_ARMV7A, armv7a_ident_1 \o armv7a_ident_2 \o armv7a_fp \o armv7a_secext,
          U4)
    BY <1>16, <1>4, BothFields
  <1>18. FieldsTable(ARCH_ARMV7A, armv7a_ident_1 \o armv7a_ident_2 \o armv7a_fp \o armv7a_secext
          \o armv7a_debug, U5)
    BY <1>17, <1>5, BothFields
  <1>19. FieldsTable(ARCH_ARMV7A, armv7a_ident_1 \o armv7a_ident_2 \o armv7a_fp \o armv7a_secext
          \o armv7a_debug \o armv7a_virtmem, U6)
    BY <1>18, <1>6, BothFields
  <1>20. FieldsTable(ARCH_ARMV7A, armv7a_ident_1 \o armv7a_ident_2 \o armv7a_fp \o armv7a_secext
          \o armv7a_debug \o armv7a_virtmem \o armv7a_perfmon, U7)
    BY <1>19, <1>7, BothFields
  <1>21. FieldsTable(ARCH_ARMV7A, armv7a_ident_1 \o armv7a_ident_2 \o armv7a_fp \o armv7a_secext
          \o armv7a_debug \o armv7a_virtmem \o armv7a_perfmon \o armv7a_other, U8)
    BY <1>20, <1>8, BothFields
  <1>22. FieldsTable(ARCH_ARMV7A, armv7a_ident_1 \o armv7a_ident_2 \o armv7a_fp \o armv7a_secext
          \o armv7a_debug \o armv7a_virtmem \o armv7a_perfmon \o armv7a_other \o armv7a_fault,
          U9)
    BY <1>21, <1>9, BothFields
  <1>23. FieldsTable(ARCH_ARMV7A, armv7a_ident_1 \o armv7a_ident_2 \o armv7a_fp \o armv7a_secext
          \o armv7a_debug \o armv7a_virtmem \o armv7a_perfmon \o armv7a_other \o armv7a_fault \o
          armv7a_jazelle, U10)
    BY <1>22, <1>10, BothFields
  <1>24. FieldsTable(ARCH_ARMV7A, armv7a_ident_1 \o armv7a_ident_2 \o armv7a_fp \o armv7a_secext
          \o armv7a_debug \o armv7a_virtmem \o armv7a_perfmon \o armv7a_other \o armv7a_fault \o
          armv7a_jazelle \o armv7a_thumb, U11)
    BY <1>23, <1>11, BothFields
  <1>25. FieldsTable(ARCH_ARMV7A, armv7a_ident_1 \o armv7a_ident_2 \o armv7a_fp \o armv7a_secext
          \o armv7a_debug \o armv7a_virtmem \o armv7a_perfmon \o armv7a_other \o armv7a_fault \o
          armv7a_jazelle \o armv7a_thumb \o armv7a_misc, U12)
    BY <1>24, <1>12, BothFields
  <1>26. FieldsTable(ARCH_ARMV7A, armv7a_ident_1 \o armv7a_ident_2 \o armv7a_fp \o armv7a_secext
          \o armv7a_debug \o armv7a_virtmem \o armv7a_perfmon \o armv7a_other \o armv7a_fault \o
          armv7a_jazelle \o armv7a_thumb \o armv7a_misc \o armv7a_addrtrans, U13)
    BY <1>25, <1>13, BothFields
  <1>27. FieldsTable(ARCH_ARMV7A, armv7a_ident_1 \o armv7a_ident_2 \o armv7a_fp \o armv7a_secext
          \o armv7a_debug \o armv7a_virtmem \o armv7a_perfmon \o armv7a_other \o armv7a_fault \o
          armv7a_jazelle \o armv7a_thumb \o armv7a_misc \o armv7a_addrtrans \o armv7a_psr, U14)
    BY <1>26, <1>14, BothFields
  <1> HIDE DEF U14
  <1> QED BY <1>27 DEF bitfield_table

LEMMA Armv8ATableFields ==
  \E R : FieldsTable(ARCH_ARMV8A, bitfield_table[6].table, R)
  <1> DEFINE Q1 == {"PFR0", "PFR1", "AA64PFR0", "AA64PFR1", "DFR0", "AFR0", "AA64AFR0",
                    "AA64AFR1", "AA64DFR0", "AA64DFR1", "MMFR0", "MMFR1", "MMFR2", "MMFR3",
                    "MMFR4", "AA64MMFR0", "AA64MMFR1"}
             Q2 == {"ISAR0", "ISAR1", "ISAR2", "ISAR3", "ISAR4", "ISAR5", "AA64ISAR0",
                    "AA64ISAR1", "REVIDR", "TLBTR", "CCSIDR", "TCMTR", "AIDR", "CLIDR", "CSSELR",
                    "CTR", "MIDR", "MPIDR"}
             Q3 == {"FPSID", "FPSCR", "FPEXC", "MVFR0", "MVFR1", "MVFR2"}
             Q4 == {"SCR", "ISR", "SDER", "VBAR"}
             Q5 == {"DBGDIDR", "DBGAUTHSTATUS", "DBGDRAR", "DBGDSCR"}
             Q6 == {"MAIR", "SCTLR", "CONTEXTIDR", "AMAIR", "DCZID", "TTBCR", "TTBR1", "TTBR0"}
             Q7 == {"PMCR", "PMCCFILTR", "PMCCNTR", "PMCEID0", "PMCEID1", "PMCNTENCLR",
                    "PMCNTENSET", "PMINTENCLR", "PMINTENSET", "PMOVSCLR", "PMOVSSET", "PMSELR",
                    "PMSWINC", "PMUSERENR", "PMXEVCNTR", "PMXEVTYPER"}
             Q8 == {"ACTLR", "CPACR", "RMR", "RVBAR"}
             Q9 == {"FAR", "DFSR", "ADFSR", "AIFSR"}
             Q10 == {"TEECR", "TEEHBR"}
             Q11 == {"TPIDRPRW", "TPIDRURO", "TPIDRURW"}
             Q12 == {"PAR"}
             Q13 == {"CURRENTEL", "DAIF", "FPCR", "FPSR", "NZCV", "SPSEL"}
             U2 == Q1 \cup Q2
             U3 == U2 \cup Q3
             U4 == U3 \cup Q4
             U5 == U4 \cup Q5
             U6 == U5 \cup Q6
             U7 == U6 \cup Q7
             U8 == U7 \cup Q8
             U9 == U8 \cup Q9
             U10 == U9 \cup Q10
             U11 == U10 \cup Q11
             U12 == U11 \cup Q12
             U13 == U12 \cup Q13
  <1>1. FieldsTable(ARCH_ARMV8A, armv8a_ident_1, Q1)
    BY Armv8AIdent1Fields
  <1>2. FieldsTable(ARCH_ARMV8A, armv8a_ident_2, Q2) /\ Q1 \cap Q2 = {}
    BY Armv8AIdent2Fields
  <1>3. FieldsTable(ARCH_ARMV8A, armv8a_fp, Q3) /\ U2 \cap Q3 = {}
    BY Armv8AFpFields
  <1>4. FieldsTable(ARCH_ARMV8A, armv8a_secext, Q4) /\ U3 \cap Q4 = {}
    BY Armv8ASecextFields
  <1>5. FieldsTable(ARCH_ARMV8A, armv8a_debug, Q5) /\ U4 \cap Q5 = {}
    BY Armv8ADebugFields
  <1>6. FieldsTable(ARCH_ARMV8A, armv8a_virtmem, Q6) /\ U5 \cap Q6 = {}
    BY Armv8AVirtmemFields
  <1>7. FieldsTable(ARCH_ARMV8A, armv8a_perfmon, Q7) /\ U6 \cap Q7 = {}
    BY Armv8APerfmonFields
  <1>8. FieldsTable(ARCH_ARMV8A, armv8a_other_1, Q8) /\ U7 \cap Q8 = {}
    BY Armv8AOther1Fields
  <1>9. FieldsTable(ARCH_ARMV8A, armv8a_fault, Q9) /\ U8 \cap Q9 = {}
    BY Armv8AFaultFields
  <1>10. FieldsTable(ARCH_ARMV8A, armv8a_thumb, Q10) /\ U9 \cap Q10 = {}
    BY Armv8AThumbFields
  <1>11. FieldsTable(ARCH_ARMV8A, armv8a_misc, Q11) /\ U10 \cap Q11 = {}
    BY Armv8AMiscFields
  <1>12. FieldsTable(ARCH_ARMV8A, armv8a_addrtrans, Q12) /\ U11 \cap Q12 = {}
    BY Armv8AAddrtransFields
  <1>13. FieldsTable(ARCH_ARMV8A, armv8a_other_2, Q13) /\ U12 \cap Q13 = {}
    BY Armv8AOther2Fields
  <1> HIDE DEF Q1, Q2, Q3, Q4, Q5, Q6, Q7, Q8, Q9, Q10, Q11, Q12, Q13
  <1>14. FieldsTable(ARCH_ARMV8A, armv8a_ident_1 \o armv8a_ident_2, U2)
    BY <1>1, <1>2, BothFields
  <1>15. FieldsTable(ARCH_ARMV8A, armv8a_ident_1 \o armv8a_ident_2 \o armv8a_fp, U3)
    BY <1>14, <1>3, BothFields
  <1>16. FieldsTable(ARCH_ARMV8A, armv8a_ident_1 \o armv8a_ident_2 \o armv8a_fp \o armv8a_secext,
          U4)
    BY <1>15, <1>4, BothFields
  <1>17. FieldsTable(ARCH_ARMV8A, armv8a_ident_1 \o armv8a_ident_2 \o armv8a_fp \o armv8a_secext
          \o armv8a_debug, U5)
    BY <1>16, <1>5, BothFields
  <1>18. FieldsTable(ARCH_ARMV8A, armv8a_ident_1 \o armv8a_ident_2 \o armv8a_fp \o armv8a_secext
          \o armv8a_debug \o armv8a_virtmem, U6)
    BY <1>17, <1>6, BothFields
  <1>19. FieldsTable(ARCH_ARMV8A, armv8a_ident_1 \o armv8a_ident_2 \o armv8a_fp \o armv8a_secext
          \o armv8a_debug \o armv8a_virtmem \o armv8a_perfmon, U7)
    BY <1>18, <1>7, BothFields
  <1>20. FieldsTable(ARCH_ARMV8A, armv8a_ident_1 \o armv8a_ident_2 \o armv8a_fp \o armv8a_secext
          \o armv8a_debug \o armv8a_virtmem \o armv8a_perfmon \o armv8a_other_1, U8)
    BY <1>19, <1>8, BothFields
  <1>21. FieldsTable(ARCH_ARMV8A, armv8a_ident_1 \o armv8a_ident_2 \o armv8a_fp \o armv8a_secext
          \o armv8a_debug \o armv8a_virtmem \o armv8a_perfmon \o armv8a_other_1 \o armv8a_fault,
          U9)
    BY <1>20, <1>9, BothFields
  <1>22. FieldsTable(ARCH_ARMV8A, armv8a_ident_1 \o armv8a_ident_2 \o armv8a_fp \o armv8a_secext
          \o armv8a_debug \o armv8a_virtmem \o armv8a_perfmon \o armv8a_other_1 \o armv8a_fault
          \o armv8a_thumb, U10)
    BY <1>21, <1>10, BothFields
  <1>23. FieldsTable(ARCH_ARMV8A, armv8a_ident_1 \o armv8a_ident_2 \o armv8a_fp \o armv8a_secext
          \o armv8a_debug \o armv8a_virtmem \o armv8a_perfmon \o armv8a_other_1 \o armv8a_fault
          \o armv8a_thumb \o armv8a_misc, U11)
    BY <1>22, <1>11, BothFields
  <1>24. FieldsTable(ARCH_ARMV8A, armv8a_ident_1 \o armv8a_ident_2 \o armv8a_fp \o armv8a_secext
          \o armv8a_debug \o armv8a_virtmem \o armv8a_perfmon \o armv8a_other_1 \o armv8a_fault
          \o armv8a_thumb \o armv8a_misc \o armv8a_addrtrans, U12)
    BY <1>23, <1>12, BothFields
  <1>25. FieldsTable(ARCH_ARMV8A, armv8a_ident_1 \o armv8a_ident_2 \o armv8a_fp \o armv8a_secext
          \o armv8a_debug \o armv8a_virtmem \o armv8a_perfmon \o armv8a_other_1 \o armv8a_fault
          \o armv8a_thumb \o armv8a_misc \o armv8a_addrtrans \o armv8a_other_2, U13)
    BY <1>24, <1>13, BothFields
  <1> HIDE DEF U13
  <1> QED BY <1>25 DEF bitfield_table

LEMMA GiccTableFields ==
  \E R : FieldsTable(GICC_V2, bitfield_table[7].table, R)
  <1> DEFINE Q1 == {"GICC_CTLR", "GICC_PMR", "GICC_BPR", "GICC_IAR", "GICC_EOIR", "GICC_RPR",
                    "GICC_HPPIR", "GICC_ABPR", "GICC_AIAR", "GICC_AEOIR", "GICC_AHPPIR"}
             Q2 == {"GICC_RESERVED_00", "GICC_IMPL_DEF_00", "GICC_APR", "GICC_NSAPR",
                    "GICC_RESERVED_01", "GICC_IIDR", "GICC_DIR"}
             U2 == Q1 \cup Q2
  <1>1. FieldsTable(GICC_V2, giccv2_gicc_1, Q1)
    BY Giccv2Gicc1Fields
  <1>2. FieldsTable(GICC_V2, giccv2_gicc_2, Q2) /\ Q1 \cap Q2 = {}
    BY Giccv2Gicc2Fields
  <1> HIDE DEF Q1, Q2
  <1>3. FieldsTable(GICC_V2, giccv2_gicc_1 \o giccv2_gicc_2, U2)
    BY <1>1, <1>2, BothFields
  <1> HIDE DEF U2
  <1> QED BY <1>3 DEF bitfield_table

LEMMA GicdTableFields ==
  \E R : FieldsTable(GICD_V2, bitfield_table[8].table, R)
  BY Gicdv2GicdFields DEF bitfield_table

-----------------------------------------------------------------------------
(***************************************************************************)
(* The heap has each row of each entry once.                               *)
(***************************************************************************)
\* The eight tables are tables of fields.
LEMMA TablesFields ==
  ASSUME NEW t \in 1 .. 8
  PROVE  \E R : FieldsTable(bitfield_table[t].part, bitfield_table[t].table, R)
  <1>1. t \in {1, 2, 3, 4, 5, 6, 7, 8}
    OBVIOUS
  <1>2. /\ bitfield_table[1].part = IMPL_CORTEX_A7 /\ bitfield_table[2].part = IMPL_CORTEX_A15
        /\ bitfield_table[3].part = IMPL_CORTEX_A53 /\ bitfield_table[4].part = IMPL_CORTEX_A57
        /\ bitfield_table[5].part = ARCH_ARMV7A /\ bitfield_table[6].part = ARCH_ARMV8A
        /\ bitfield_table[7].part = GICC_V2 /\ bitfield_table[8].part = GICD_V2
    BY DEF bitfield_table
  <1> QED BY <1>1, <1>2, A7TableFields, A15TableFields, A53TableFields, A57TableFields,
             Armv7ATableFields, Armv8ATableFields, GiccTableFields, GicdTableFields, Zenon

\* A sequence with each element of a set once.
Lists(s, E) ==
    /\ s \in Seq(E) /\ Len(s) \in Nat
    /\ \A x \in E : \E i \in 1 .. Len(s) : s[i] = x
    /\ \A i, j \in 1 .. Len(s) : s[i] = s[j] => i = j

\* Two lists of sets without an element in common, one behind the other.
LEMMA ListsBoth ==
  ASSUME NEW s, NEW t, NEW D, NEW E, Lists(s, D), Lists(t, E), D \cap E = {}
  PROVE  Lists(s \o t, D \cup E)
  <1> DEFINE u == s \o t
             m == Len(s)
             n == Len(t)
  <1>1. s \in Seq(D \cup E) /\ t \in Seq(D \cup E) /\ m \in Nat /\ n \in Nat
    BY DEF Lists
  <1>2. /\ u \in Seq(D \cup E) /\ Len(u) = m + n
        /\ \A i \in 1 .. m + n : u[i] = IF i <= m THEN s[i] ELSE t[i - m]
    BY <1>1, ConcatProperties
  <1>3. (\A i \in 1 .. m : s[i] \in D) /\ (\A i \in 1 .. n : t[i] \in E)
    BY ElementOfSeq DEF Lists
  <1> HIDE DEF u, m, n
  <1>4. ASSUME NEW i \in 1 .. m + n
        PROVE  \/ i \in 1 .. m /\ u[i] = s[i] /\ u[i] \in D
               \/ i - m \in 1 .. n /\ u[i] = t[i - m] /\ u[i] \in E
    <2>1. CASE i <= m
      <3>1. i \in 1 .. m
        BY <1>1, <2>1
      <3> QED BY <1>2, <1>3, <2>1, <3>1
    <2>2. CASE ~ (i <= m)
      <3>1. i - m \in 1 .. n
        BY <1>1, <2>2
      <3> QED BY <1>2, <1>3, <2>2, <3>1
    <2> QED BY <2>1, <2>2
  <1>5. ASSUME NEW x \in D \cup E PROVE \E i \in 1 .. m + n : u[i] = x
    <2>1. CASE x \in D
      <3>1. PICK i \in 1 .. m : s[i] = x
        BY <2>1 DEF Lists, m
      <3>2. i \in 1 .. m + n /\ i <= m
        BY <1>1
      <3> QED BY <1>2, <3>1, <3>2
    <2>2. CASE x \in E
      <3>1. PICK i \in 1 .. n : t[i] = x
        BY <2>2 DEF Lists, n
      <3>2. m + i \in 1 .. m + n /\ ~ (m + i <= m) /\ (m + i) - m = i
        BY <1>1
      <3> QED BY <1>2, <3>1, <3>2
    <2> QED BY <2>1, <2>2
  <1>6. ASSUME NEW i \in 1 .. m + n, NEW j \in 1 .. m + n, u[i] = u[j] PROVE i = j
    <2>1. CASE i \in 1 .. m /\ u[i] = s[i] /\ u[i] \in D
      <3>1. j \in 1 .. m /\ u[j] = s[j]
        BY <1>4, <1>6, <2>1
      <3> QED BY <1>6, <2>1, <3>1 DEF Lists, m
    <2>2. CASE i - m \in 1 .. n /\ u[i] = t[i - m] /\ u[i] \in E
      <3>1. j - m \in 1 .. n /\ u[j] = t[j - m]
        BY <1>4, <1>6, <2>2
      <3>2. i - m = j - m
        BY <1>6, <2>2, <3>1 DEF Lists, n
      <3> QED BY <1>1, <3>2
    <2> QED BY <1>4, <2>1, <2>2
  <1>7. Len(u) \in Nat
    BY <1>1, <1>2
  <1> QED BY <1>2, <1>5, <1>6, <1>7 DEF Lists, u

\* A list that is given number by number.
Numbered(s, n) == s = [i \in 1 .. n |-> s[i]]

\* Lists of sets without an element in common, one behind the other.
LEMMA ListsAll ==
  ASSUME NEW n \in Nat, NEW ss, NEW E, Numbered(ss, n),
         \A i \in 1 .. n : Lists(ss[i], E[i]),
         \A i, j \in 1 .. n : i # j => E[i] \cap E[j] = {}
  PROVE  Lists(FlattenSeq(ss), UNION {E[i] : i \in 1 .. n})
  <1> DEFINE S == UNION {E[i] : i \in 1 .. n}
             Upto(m) == UNION {E[i] : i \in 1 .. m}
  <1>1. ASSUME NEW i \in 1 .. n PROVE ss[i] \in Seq(S)
    <2>1. ss[i] \in Seq(E[i]) /\ E[i] \subseteq S
      BY DEF Lists
    <2> QED BY <2>1
  <1> HIDE DEF S
  <1>2. ss \in Seq(Seq(S)) /\ Len(ss) = n
    <2>1. ss \in [1 .. n -> Seq(S)]
      BY <1>1 DEF Numbered
    <2> QED BY <2>1
  <1>3. PICK f \in [1 .. n -> Seq(S)] :
            /\ FlattenSeq(ss) = IF n = 0 THEN ss ELSE f[n]
            /\ \A i \in 1 .. n : f[i] = IF i = 1 THEN ss[i] ELSE f[i - 1] \o ss[i]
    <2>1. \E f \in [1 .. Len(ss) -> Seq(S)] :
            /\ FlattenSeq(ss) = IF Len(ss) = 0 THEN ss ELSE f[Len(ss)]
            /\ \A i \in 1 .. Len(ss) : f[i] = IF i = 1 THEN ss[i] ELSE f[i - 1] \o ss[i]
      BY <1>2, FlattenedSteps
    <2> QED BY <1>2, <2>1
  <1> DEFINE P == {m \in Nat : m \in 1 .. n => Lists(f[m], Upto(m))}
  <1>4. 0 \in P
    OBVIOUS
  <1>5. ASSUME NEW m \in Nat, m \in P PROVE m + 1 \in P
    <2> SUFFICES ASSUME m + 1 \in 1 .. n PROVE Lists(f[m + 1], Upto(m + 1))
      OBVIOUS
    <2>1. CASE m = 0
      <3>1. Upto(m + 1) = E[m + 1]
        BY <2>1
      <3>2. f[m + 1] = ss[m + 1]
        <4>1. m + 1 = 1 /\ 1 \in 1 .. n
          BY <2>1
        <4>2. f[1] = ss[1]
          BY <1>3, <4>1
        <4> QED BY <4>1, <4>2
      <3> HIDE DEF Upto
      <3> QED BY <3>1, <3>2
    <2>2. CASE m # 0
      <3>1. Upto(m + 1) = Upto(m) \cup E[m + 1]
        OBVIOUS
      <3>2. Upto(m) \cap E[m + 1] = {}
        <4>1. \A i \in 1 .. m : i \in 1 .. n /\ i # m + 1
          OBVIOUS
        <4>2. \A i \in 1 .. m : E[i] \cap E[m + 1] = {}
          BY <4>1
        <4> QED BY <4>2
      <3>3. m + 1 # 1 /\ (m + 1) - 1 = m /\ m \in 1 .. n
        BY <2>2
      <3> HIDE DEF Upto
      <3>4. f[m + 1] = f[m] \o ss[m + 1]
        BY <1>3, <3>3
      <3>5. Lists(f[m], Upto(m))
        BY <1>5, <3>3
      <3> QED BY <3>1, <3>2, <3>4, <3>5, ListsBoth
    <2> QED BY <2>1, <2>2
  <1> HIDE DEF P
  <1>6. Nat \subseteq P
    BY <1>4, <1>5, Induction
  <1>7. CASE n = 0
    <2>1. FlattenSeq(ss) = <<>> /\ S = {}
      BY <1>2, <1>3, <1>7, EmptySeq DEF S
    <2>2. <<>> \in Seq(S) /\ Len(<<>>) = 0
      OBVIOUS
    <2> QED BY <2>1, <2>2 DEF Lists, S
  <1>8. CASE n # 0
    <2>1. n \in 1 .. n
      BY <1>8
    <2>2. Lists(f[n], Upto(n))
      BY <1>6, <2>1 DEF P
    <2> QED BY <1>3, <1>8, <2>2
  <1> QED BY <1>7, <1>8

\* The rows that an entry of a table gets.
RowPlaces ==
    {p \in (1 .. 8) \X Nat \X Nat \X Nat :
        /\ p[2] \in 1 .. Len(bitfield_table[p[1]].table)
        /\ p[3] \in 1 .. Len(Entry(p[1], p[2]).rows)
        /\ p[4] < Copies(Entry(p[1], p[2]).range)}

\* read_tables_to_memory comes by each of them once.
LEMMA PlacesOnce == Lists(Places, RowPlaces)
  <1> DEFINE tables == bitfield_table
             entry(t, j) == tables[t].table[j]
             PlacesOf(t, j) ==
                 FlattenSeq([n \in 1 .. Len(entry(t, j).rows) |->
                     [k \in 1 .. Copies(entry(t, j).range) |-> <<t, j, n, k - 1>>]])
             OfTable(t) == FlattenSeq([j \in 1 .. Len(tables[t].table) |-> PlacesOf(t, j)])
             In(t, j) == {p \in RowPlaces : p[1] = t /\ p[2] = j}
             Of(t) == {p \in RowPlaces : p[1] = t}
  <1>1. ASSUME NEW t \in 1 .. 8, NEW j \in 1 .. Len(bitfield_table[t].table)
        PROVE  Lists(PlacesOf(t, j), In(t, j))
    <2> DEFINE rows == Entry(t, j).rows
               copies == Copies(Entry(t, j).range)
               R == [n \in 1 .. Len(rows) |-> {p \in RowPlaces : p[1] = t /\ p[2] = j /\ p[3] = n}]
               ss == [n \in 1 .. Len(rows) |-> [k \in 1 .. copies |-> <<t, j, n, k - 1>>]]
    <2>1. Len(rows) \in Nat /\ copies \in Nat /\ j \in Nat
      <3>1. Len(rows) \in Nat /\ Entry(t, j).range \in 1 .. 256
            /\ Len(bitfield_table[t].table) \in Nat
        BY EntryNumbers
      <3>2. \A c : c \in 1 .. 256 => Copies(c) \in Nat
        BY MaxRangeAssumption DEF Copies
      <3>3. copies \in Nat
        BY <3>1, <3>2
      <3> HIDE DEF rows, copies
      <3>4. j \in Nat
        BY <3>1
      <3> QED BY <3>1, <3>3, <3>4 DEF rows
    <2>2. ASSUME NEW n \in 1 .. Len(rows) PROVE Lists(ss[n], R[n])
      <3> DEFINE s == [k \in 1 .. copies |-> <<t, j, n, k - 1>>]
      <3> HIDE DEF copies, rows
      <3>0. n \in Nat
        BY <2>1
      <3>1. \A k \in 1 .. copies : k - 1 \in Nat /\ k - 1 < copies
        BY <2>1
      <3>2. \A k \in 1 .. copies : <<t, j, n, k - 1>> \in R[n]
        BY <2>1, <3>0, <3>1 DEF RowPlaces, copies, rows
      <3>3. ASSUME NEW p \in R[n] PROVE \E k \in 1 .. copies : s[k] = p
        <4>1. p = <<t, j, n, p[4]>> /\ p[4] \in Nat /\ p[4] < copies
          BY DEF RowPlaces, copies
        <4>2. p[4] + 1 \in 1 .. copies /\ (p[4] + 1) - 1 = p[4]
          BY <2>1, <4>1
        <4> QED BY <4>1, <4>2
      <3>4. \A k, l \in 1 .. copies : s[k] = s[l] => k = l
        <4>1. ASSUME NEW k \in 1 .. copies, NEW l \in 1 .. copies, s[k] = s[l] PROVE k = l
          <5>1. k - 1 = l - 1
            BY <4>1
          <5> QED BY <2>1, <5>1
        <4> QED BY <4>1
      <3>5. s \in [1 .. copies -> R[n]]
        BY <3>2
      <3> HIDE DEF R, s
      <3>6. s \in Seq(R[n]) /\ Len(s) = copies
        BY <2>1, <3>5
      <3>7. ss[n] = s
        BY DEF s, rows, copies
      <3> HIDE DEF ss
      <3>8. Lists(s, R[n])
        BY <2>1, <3>3, <3>4, <3>6 DEF Lists
      <3> QED BY <3>7, <3>8
    <2>3. \A m, n \in 1 .. Len(rows) : m # n => R[m] \cap R[n] = {}
      <3> HIDE DEF rows
      <3> QED OBVIOUS
    <2>4. Numbered(ss, Len(rows))
      <3> HIDE DEF rows
      <3> QED BY DEF Numbered
    <2>5. UNION {R[n] : n \in 1 .. Len(rows)} = In(t, j)
      <3>1. \A p \in RowPlaces : p[1] = t /\ p[2] = j => p[3] \in 1 .. Len(rows)
        BY DEF RowPlaces
      <3> HIDE DEF rows
      <3> QED BY <3>1
    <2> HIDE DEF R, In
    <2>6. Lists(FlattenSeq(ss), In(t, j))
      <3> HIDE DEF rows, copies, ss
      <3>1. PICK m \in Nat : m = Len(rows)
        BY <2>1
      <3>2. Numbered(ss, m) /\ \A n \in 1 .. m : Lists(ss[n], R[n])
        BY <2>2, <2>4, <3>1
      <3>3. \A i, n \in 1 .. m : i # n => R[i] \cap R[n] = {}
        BY <2>3, <3>1
      <3>4. Lists(FlattenSeq(ss), UNION {R[n] : n \in 1 .. m})
        BY <3>2, <3>3, ListsAll
      <3>5. UNION {R[n] : n \in 1 .. m} = In(t, j)
        BY <2>5, <3>1
      <3> QED BY <3>4, <3>5
    <2> QED BY <2>6 DEF Entry
  <1> HIDE DEF PlacesOf
  <1>2. ASSUME NEW t \in 1 .. 8 PROVE Lists(OfTable(t), Of(t))
    <2> DEFINE n == Len(bitfield_table[t].table)
               R == [j \in 1 .. n |-> In(t, j)]
               ss == [j \in 1 .. n |-> PlacesOf(t, j)]
    <2>1. n \in Nat
      BY EntryNumbers
    <2>2. \A j \in 1 .. n : Lists(ss[j], R[j])
      <3> HIDE DEF In
      <3> QED BY <1>1
    <2>3. \A i, j \in 1 .. n : i # j => R[i] \cap R[j] = {}
      <3> HIDE DEF n
      <3> QED OBVIOUS
    <2>4. Numbered(ss, n)
      <3> HIDE DEF n
      <3> QED BY DEF Numbered
    <2>5. UNION {R[j] : j \in 1 .. n} = Of(t)
      <3>1. \A p \in RowPlaces : p[1] = t => p[2] \in 1 .. n
        BY DEF RowPlaces
      <3> HIDE DEF n
      <3> QED BY <3>1
    <2> HIDE DEF R, Of
    <2>6. Lists(FlattenSeq(ss), Of(t))
      <3> HIDE DEF n, ss
      <3>1. Lists(FlattenSeq(ss), UNION {R[j] : j \in 1 .. n})
        BY <2>1, <2>2, <2>3, <2>4, ListsAll
      <3> QED BY <2>5, <3>1
    <2> QED BY <2>6
  <1> HIDE DEF OfTable
  <1>3. Len(tables) = 8
    BY TableParts
  <1> DEFINE R == [t \in 1 .. 8 |-> Of(t)]
             ss == [t \in 1 .. 8 |-> OfTable(t)]
  <1>4. \A t \in 1 .. 8 : Lists(ss[t], R[t])
    <2> HIDE DEF Of
    <2> QED BY <1>2
  <1>5. \A s, t \in 1 .. 8 : s # t => R[s] \cap R[t] = {}
    OBVIOUS
  <1>6. UNION {R[t] : t \in 1 .. 8} = RowPlaces
    <2>1. \A p \in RowPlaces : p[1] \in 1 .. 8
      BY DEF RowPlaces
    <2> QED BY <2>1
  <1>7. Places = FlattenSeq([t \in 1 .. Len(tables) |-> OfTable(t)])
    BY DEF Places, OfTable, PlacesOf
  <1>8. Places = FlattenSeq(ss)
    <2> HIDE DEF tables
    <2> QED BY <1>3, <1>7
  <1>9. Numbered(ss, 8)
    BY DEF Numbered
  <1> HIDE DEF R, ss
  <1>10. Lists(FlattenSeq(ss), UNION {R[t] : t \in 1 .. 8})
    <2>1. PICK n \in Nat : n = 8
      OBVIOUS
    <2>2. Numbered(ss, n) /\ \A t \in 1 .. n : Lists(ss[t], R[t])
      BY <1>4, <1>9, <2>1
    <2>3. \A s, t \in 1 .. n : s # t => R[s] \cap R[t] = {}
      BY <1>5, <2>1
    <2>4. Lists(FlattenSeq(ss), UNION {R[t] : t \in 1 .. n})
      BY <2>2, <2>3, ListsAll
    <2> QED BY <2>1, <2>4
  <1> QED BY <1>6, <1>8, <1>10

-----------------------------------------------------------------------------
(***************************************************************************)
(* The rows of one register.                                               *)
(***************************************************************************)
\* The table, the entry and the row of the entry that a row is made from.
TableAt(i) == bitfield_table[Places[i][1]]
EntryAt(i) == Entry(Places[i][1], Places[i][2])
RowAt(i) == EntryAt(i).rows[Places[i][3]]

\* The bits of a row of the heap.
RowRange(i) == Rows[i].shift .. Rows[i].shift + Rows[i].width - 1

\* Two rows that one table gives one register.
Kin(i, j) ==
    /\ Places[i][1] = Places[j][1] /\ Places[i][4] = Places[j][4]
    /\ EntryAt(i).register = EntryAt(j).register

\* The heap has a row for each place.
LEMMA HeapSize == Len(Rows) = Len(Places)
  <1> DEFINE n == Len(Places)
             f == [k \in 1 .. n |-> HeapRow(Places[k], k - 1)]
             T == {f[k] : k \in 1 .. n}
  <1>1. n \in Nat
    BY PlacesOnce DEF Lists
  <1>2. f \in [1 .. n -> T]
    OBVIOUS
  <1>3. f \in Seq(T) /\ Len(f) = n
    <2> HIDE DEF n, f, T
    <2>1. f \in Seq(T)
      BY <1>1, <1>2
    <2>2. DOMAIN f = 1 .. n
      BY <1>2
    <2> QED BY <1>1, <2>1, <2>2, LenProperties
  <1>4. Rows = f \o <<>>
    BY HeapAssumption DEF read_tables_to_memory
  <1> HIDE DEF f, n
  <1> QED BY <1>3, <1>4, ConcatEmptySeq DEF n

\* A row of the heap has the position and width of the row of an entry.
LEMMA PlaceOf ==
  ASSUME NEW i \in Indices
  PROVE  /\ i \in 1 .. Len(Places) /\ Places[i] \in RowPlaces
         /\ Rows[i] = HeapRow(Places[i], i - 1)
         /\ RowRange(i) = RowBits(RowAt(i)) /\ RowAt(i)[2] = Rows[i].shift
         /\ RowAt(i)[3] = Rows[i].width
         /\ RowAt(i)[2] \in Nat /\ RowAt(i)[3] \in Nat
  <1>1. Rows[i] = HeapRow(Places[i], i - 1)
    BY RowPlace
  <1>2. i \in 1 .. Len(Places)
    <2>1. Len(Rows) = Len(Places)
      BY HeapSize
    <2> QED BY <2>1 DEF Indices
  <1>3. Places[i] \in RowPlaces
    BY <1>2, PlacesOnce, ElementOfSeq DEF Lists
  <1>4. Rows[i].shift = RowAt(i)[2] /\ Rows[i].width = RowAt(i)[3]
    <2> DEFINE T == TableAt(i)
               e == EntryAt(i)
               n == Places[i][3]
    <2>1. \/ Rows[i] = DeviceRow(T, e, n, Places[i][4], i - 1)
          \/ Rows[i] = SystemRow(T, e, n)
      BY <1>1 DEF HeapRow, TableAt, EntryAt, Entry
    <2> HIDE DEF T, e, n
    <2>2. Rows[i].shift = e.rows[n][2] /\ Rows[i].width = e.rows[n][3]
      BY <2>1 DEF DeviceRow, SystemRow
    <2> QED BY <2>2 DEF RowAt, e, n
  <1>5. Rows[i].shift \in Nat /\ Rows[i].width \in Nat
    <2>1. Rows[i].shift \in 0 .. TopBit /\ Rows[i].width \in 1 .. TopBit + 1 /\ TopBit \in Nat
      BY RowType, ReadsAssumption DEF Bits
    <2> QED BY <2>1
  <1> QED BY <1>1, <1>2, <1>3, <1>4, <1>5 DEF RowRange, RowBits

\* They have the register, the group, the name and the part in common.
LEMMA KinRows ==
  ASSUME NEW i \in Indices, NEW j \in Indices, Kin(i, j)
  PROVE  /\ Rows[i].reg = Rows[j].reg /\ Rows[i].group = Rows[j].group
         /\ Rows[i].name = Rows[j].name /\ Rows[i].type = Rows[j].type
         /\ Rows[i].uid.part = Rows[j].uid.part
  <1>a. PICK t \in 1 .. 8 : t = Places[i][1] /\ t = Places[j][1]
    BY PlaceOf DEF Kin, RowPlaces
  <1>b. PICK k : k = Places[i][4] /\ k = Places[j][4]
    BY DEF Kin
  <1>1. /\ t = Places[i][1] /\ t = Places[j][1]
        /\ k = Places[i][4] /\ k = Places[j][4]
    BY <1>a, <1>b
  <1>2. PICK e, f : e = EntryAt(i) /\ f = EntryAt(j)
    OBVIOUS
  <1>3. /\ e.register = f.register /\ e.name = f.name /\ e.range = f.range
        /\ e.group = f.group
    <2>1. PICK R : FieldsTable(bitfield_table[t].part, bitfield_table[t].table, R)
      BY TablesFields
    <2>2. /\ Places[i][2] \in 1 .. Len(bitfield_table[t].table)
          /\ Places[j][2] \in 1 .. Len(bitfield_table[t].table)
      BY <1>1, PlaceOf DEF RowPlaces
    <2> DEFINE table == bitfield_table[t].table
    <2>3. e = table[Places[i][2]] /\ f = table[Places[j][2]]
      BY <1>1, <1>2 DEF EntryAt, Entry
    <2> HIDE DEF table
    <2>4. e.register = f.register
      BY <1>2 DEF Kin
    <2> QED BY <2>1, <2>2, <2>3, <2>4 DEF FieldsTable, table
  <1> DEFINE T == bitfield_table[t]
  <1>4. /\ Rows[i] = IF T.type = "TYPE_MM" THEN DeviceRow(T, e, Places[i][3], k, i - 1)
                                           ELSE SystemRow(T, e, Places[i][3])
        /\ Rows[j] = IF T.type = "TYPE_MM" THEN DeviceRow(T, f, Places[j][3], k, j - 1)
                                           ELSE SystemRow(T, f, Places[j][3])
    BY <1>1, <1>2, PlaceOf DEF HeapRow, EntryAt, Entry
  <1> HIDE DEF T
  <1>5. CASE T.type = "TYPE_MM"
    BY <1>3, <1>4, <1>5 DEF DeviceRow, MSCODE
  <1>6. CASE T.type # "TYPE_MM"
    BY <1>3, <1>4, <1>6 DEF SystemRow, MSCODE
  <1> QED BY <1>5, <1>6

\* A bit of a register that a table splits is in one row that the table gives it.
LEMMA BitOwner ==
  ASSUME NEW i \in Indices, <<TableAt(i).part, EntryAt(i).register>> \notin Irregular,
         NEW b \in 0 .. Size(TableAt(i).part, EntryAt(i).register) - 1
  PROVE  /\ \E j \in Indices : Kin(i, j) /\ b \in RowRange(j)
         /\ \A j, l \in Indices :
               /\ Kin(i, j) /\ b \in RowRange(j)
               /\ Kin(i, l) /\ b \in RowRange(l)
               => j = l
  <1>a. PICK t \in 1 .. 8 : t = Places[i][1]
    BY PlaceOf DEF RowPlaces
  <1>b. PICK k : k = Places[i][4]
    OBVIOUS
  <1>1. t = Places[i][1] /\ k = Places[i][4]
    BY <1>a, <1>b
  <1> DEFINE table == bitfield_table[t].table
             part == bitfield_table[t].part
             r == EntryAt(i).register
  <1>2. PICK R : FieldsTable(part, table, R)
    BY TablesFields
  <1>3. Places[i][2] \in 1 .. Len(table) /\ table[Places[i][2]].register = r
    BY <1>1, PlaceOf DEF RowPlaces, EntryAt, Entry
  <1>4. part = TableAt(i).part
    BY <1>1 DEF TableAt
  <1>5. GivesOnce(table, r, b)
    <2> HIDE DEF table, part, r
    <2>1. r \in R
      BY <1>2, <1>3 DEF FieldsTable
    <2> QED BY <1>2, <1>4, <2>1 DEF FieldsTable, r
  <1>6. ASSUME NEW j \in Indices
        PROVE  Kin(i, j) /\ b \in RowRange(j) <=>
                 /\ Places[j][1] = t /\ Places[j][4] = k
                 /\ Gives(table, r, b, Places[j][2], Places[j][3])
    <2>1. RowRange(j) = RowBits(RowAt(j)) /\ Places[j] \in RowPlaces
      BY PlaceOf
    <2>2. Places[j][1] = t => /\ RowAt(j) = table[Places[j][2]].rows[Places[j][3]]
                              /\ EntryAt(j) = table[Places[j][2]]
                              /\ Places[j][2] \in 1 .. Len(table)
                              /\ Places[j][3] \in 1 .. Len(table[Places[j][2]].rows)
      BY <2>1 DEF RowPlaces, RowAt, EntryAt, Entry
    <2> HIDE DEF table
    <2> QED BY <1>1, <2>1, <2>2 DEF Kin, Gives
  <1>7. PICK m, n : /\ Gives(table, r, b, m, n)
                    /\ \A l, q : Gives(table, r, b, l, q) => l = m /\ q = n
    <2> HIDE DEF table, r
    <2>1. \E m, n : /\ Gives(table, r, b, m, n)
                    /\ \A l, q : Gives(table, r, b, l, q) => m = l /\ q = n
      BY <1>5 DEF GivesOnce
    <2> QED BY <2>1
  <1>8. PICK j \in Indices : Places[j] = <<t, m, n, k>>
    <2>1. <<t, m, n, k>> \in RowPlaces
      <3>1. m \in 1 .. Len(table) /\ n \in 1 .. Len(table[m].rows) /\ table[m].register = r
        BY <1>7 DEF Gives
      <3>2. Len(table) \in Nat /\ \A l \in 1 .. Len(table) : Len(table[l].rows) \in Nat
        BY EntryNumbers DEF Entry
      <3>3. table[m].range = table[Places[i][2]].range
        <4> HIDE DEF table, part, r
        <4> QED BY <1>2, <1>3, <3>1 DEF FieldsTable
      <3>4. k \in Nat /\ k < Copies(table[Places[i][2]].range)
        BY <1>1, PlaceOf DEF RowPlaces, Entry
      <3>5. m \in Nat /\ n \in Nat
        <4> HIDE DEF table
        <4> QED BY <3>1, <3>2
      <3>6. Entry(t, m) = table[m]
        BY DEF Entry
      <3> HIDE DEF r
      <3>7. /\ m \in 1 .. Len(bitfield_table[t].table) /\ n \in 1 .. Len(Entry(t, m).rows)
            /\ k < Copies(Entry(t, m).range)
        BY <3>1, <3>3, <3>4, <3>6
      <3> QED BY <3>4, <3>5, <3>7 DEF RowPlaces
    <2>2. PICK j \in 1 .. Len(Places) : Places[j] = <<t, m, n, k>>
      BY <2>1, PlacesOnce DEF Lists
    <2>3. j \in Indices
      BY <2>2, HeapSize DEF Indices
    <2> QED BY <2>2, <2>3
  <1>9. Kin(i, j) /\ b \in RowRange(j)
    <2>1. Places[j][1] = t /\ Places[j][2] = m /\ Places[j][3] = n /\ Places[j][4] = k
      BY <1>8
    <2> HIDE DEF table, r
    <2> QED BY <1>6, <1>7, <2>1
  <1>10. ASSUME NEW l \in Indices, Kin(i, l), b \in RowRange(l) PROVE l = j
    <2> HIDE DEF table, r
    <2>1. Places[l][1] = t /\ Places[l][2] = m /\ Places[l][3] = n /\ Places[l][4] = k
      BY <1>6, <1>7, <1>10
    <2>2. Places[l] \in RowPlaces /\ Places[j] \in RowPlaces
      BY PlaceOf
    <2>3. Places[l] = Places[j]
      BY <1>8, <2>1, <2>2 DEF RowPlaces
    <2>4. l \in 1 .. Len(Places) /\ j \in 1 .. Len(Places)
      BY PlaceOf
    <2> QED BY <2>3, <2>4, PlacesOnce DEF Lists
  <1>11. ASSUME NEW q \in Indices, NEW l \in Indices, Kin(i, q), b \in RowRange(q),
                Kin(i, l), b \in RowRange(l)
         PROVE  q = l
    <2>1. q = j
      BY <1>10, <1>11
    <2>2. l = j
      BY <1>10, <1>11
    <2> QED BY <2>1, <2>2
  <1> QED BY <1>9, <1>11

\* The entries of the GIC: no two of one name share a word, and their
\* registers have 32 bits.
LEMMA GicRegisters ==
  /\ \A n, r, o, c, s, p, d :
        <<n, r, o, c>> \in GiccEntries /\ <<n, s, p, d>> \in GiccEntries =>
            (r = s /\ o = p) \/ o + 4 * c <= p \/ p + 4 * d <= o
  /\ \A n, r, o, c, s, p, d :
        <<n, r, o, c>> \in GicdEntries /\ <<n, s, p, d>> \in GicdEntries => r = s /\ o = p
  /\ \A n, r, o, c : <<n, r, o, c>> \in GiccEntries => Size(GICC_V2, r) = 32
  /\ \A n, r, o, c : <<n, r, o, c>> \in GicdEntries => n = r /\ Size(GICD_V2, r) = 32
  <1>1. \A n, r, o, c, s, p, d :
          <<n, r, o, c>> \in GiccEntries /\ <<n, s, p, d>> \in GiccEntries =>
              (r = s /\ o = p) \/ o + 4 * c <= p \/ p + 4 * d <= o
    BY SMTT(120) DEF GiccEntries
  <1>2. \A n, r, o, c, s, p, d :
          <<n, r, o, c>> \in GicdEntries /\ <<n, s, p, d>> \in GicdEntries => r = s /\ o = p
    BY SMTT(120) DEF GicdEntries
  <1>3. ArchOfPart(GICC_V2) = NoPart /\ ArchOfPart(GICD_V2) = NoPart
    BY DEF ArchOfPart, get_arch_from_impl, Arches, ARCH_ARMV7A, ARCH_ARMV8A, IMPL_CORTEX_A7,
           IMPL_CORTEX_A9, IMPL_CORTEX_A15, IMPL_CORTEX_A53, IMPL_CORTEX_A57, GICC_V2, GICD_V2
  <1>4. \A n, r, o, c : <<n, r, o, c>> \in GiccEntries => r \notin Wide(NoPart)
    BY SMTT(120) DEF GiccEntries, Wide, NoPart, ARCH_ARMV7A
  <1>5. \A n, r, o, c : <<n, r, o, c>> \in GicdEntries => n = r /\ r \notin Wide(NoPart)
    BY SMTT(120) DEF GicdEntries, Wide, NoPart, ARCH_ARMV7A
  <1>6. Bodiless(NoPart) = {}
    BY DEF Bodiless, NoPart, ARCH_ARMV8A
  <1>7. \A n, r, o, c : <<n, r, o, c>> \in GiccEntries => Size(GICC_V2, r) = 32
    BY <1>3, <1>4, <1>6 DEF Size
  <1>8. \A n, r, o, c : <<n, r, o, c>> \in GicdEntries => n = r /\ Size(GICD_V2, r) = 32
    BY <1>3, <1>5, <1>6 DEF Size
  <1> QED BY <1>1, <1>2, <1>7, <1>8

\* Which table a row is of shows in its part.
LEMMA TableShows ==
  ASSUME NEW i \in Indices, NEW j \in Indices, Rows[i].uid.part = Rows[j].uid.part
  PROVE  Places[i][1] = Places[j][1]
  <1>1. \A m \in Indices :
          \/ Places[m][1] \in 1 .. 6 /\ Rows[m].uid.part = bitfield_table[Places[m][1]].part
          \/ Places[m][1] = 7 /\ Rows[m].uid.part \in {GICC_V2, GICH_V2}
          \/ Places[m][1] = 8 /\ Rows[m].uid.part = GICD_V2
    <2> SUFFICES ASSUME NEW m \in Indices
                 PROVE  \/ /\ Places[m][1] \in 1 .. 6
                           /\ Rows[m].uid.part = bitfield_table[Places[m][1]].part
                        \/ Places[m][1] = 7 /\ Rows[m].uid.part \in {GICC_V2, GICH_V2}
                        \/ Places[m][1] = 8 /\ Rows[m].uid.part = GICD_V2
      OBVIOUS
    <2>1. Places[m][1] \in 1 .. 8
      BY RowPlace DEF PlaceSet
    <2>2. CASE Places[m][1] \in 1 .. 6
      BY <2>2, SystemRows
    <2>3. CASE Places[m][1] \in {7, 8}
      <3>1. PICK part, name, offset, range, k :
                /\ OfDevice(m, part, name, offset, range, k)
                /\ part = bitfield_table[Places[m][1]].part
        BY <2>3, DeviceRows
      <3>2. Rows[m].uid.part = IF part = GICC_V2 /\ offset = 4096 THEN GICH_V2 ELSE part
        BY <3>1 DEF OfDevice
      <3>3. part = IF Places[m][1] = 7 THEN GICC_V2 ELSE GICD_V2
        BY <2>3, <3>1, TableParts
      <3>4. GICC_V2 # GICD_V2
        BY DEF GICC_V2, GICD_V2
      <3> QED BY <2>3, <3>2, <3>3, <3>4
    <2>4. Places[m][1] \in 1 .. 6 \/ Places[m][1] \in {7, 8}
      BY <2>1
    <2> QED BY <2>2, <2>3, <2>4
  <1>2. \A s, t \in 1 .. 6 : bitfield_table[s].part = bitfield_table[t].part => s = t
    <2>1. /\ bitfield_table[1].part = 2 /\ bitfield_table[2].part = 4
          /\ bitfield_table[3].part = 5 /\ bitfield_table[4].part = 6
          /\ bitfield_table[5].part = 0 /\ bitfield_table[6].part = 1
      BY DEF bitfield_table, ARCH_ARMV7A, ARCH_ARMV8A, IMPL_CORTEX_A7, IMPL_CORTEX_A15,
             IMPL_CORTEX_A53, IMPL_CORTEX_A57
    <2>2. \A t \in 1 .. 6 : t \in {1, 2, 3, 4, 5, 6}
      OBVIOUS
    <2> QED BY <2>1, <2>2
  <1>3. \A t \in 1 .. 6 : bitfield_table[t].part \notin {GICC_V2, GICD_V2, GICH_V2}
    BY TableParts DEF Arches, Cortexes, ARCH_ARMV7A, ARCH_ARMV8A, IMPL_CORTEX_A7,
       IMPL_CORTEX_A9, IMPL_CORTEX_A15, IMPL_CORTEX_A53, IMPL_CORTEX_A57,
       GICC_V2, GICD_V2, GICH_V2
  <1>4. GICD_V2 \notin {GICC_V2, GICH_V2}
    BY DEF GICC_V2, GICD_V2, GICH_V2
  <1> QED BY <1>1, <1>2, <1>3, <1>4

\* The copy of a row that is not of an array is the first.
LEMMA FirstCopy ==
  ASSUME NEW i \in Indices, EntryAt(i).range = 1
  PROVE  Places[i][4] = 0
  <1>1. Copies(1) = 1
    BY MaxRangeAssumption DEF Copies
  <1>2. Places[i][4] \in Nat /\ Places[i][4] < 1
    BY <1>1, PlaceOf DEF RowPlaces, EntryAt
  <1> QED BY <1>2

\* Rows of one table with one target and one name are of one register.
LEMMA RowsKin ==
  ASSUME NEW i \in Indices, NEW j \in Indices, Rows[i].uid.part = Rows[j].uid.part,
         Target(i) = Target(j), Rows[i].name = Rows[j].name
  PROVE  Kin(i, j)
  <1>1. PICK t \in 1 .. 8 : t = Places[i][1] /\ t = Places[j][1]
    BY TableShows, RowPlace DEF PlaceSet
  <1>2. t \in 1 .. 6 \/ t \in {7, 8}
    OBVIOUS
  <1>3. PICK e, f, k, l : e = EntryAt(i) /\ f = EntryAt(j) /\ k = Places[i][4] /\ l = Places[j][4]
    OBVIOUS
  <1>4. CASE t \in 1 .. 6
    <2>1. OfEntry(i, e) /\ OfEntry(j, f)
      BY <1>1, <1>3, <1>4, SystemRows DEF EntryAt
    <2>2. e.register = f.register
      BY <2>1 DEF OfEntry, RegisterOf
    <2>3. e.range = 1 /\ f.range = 1
      BY <2>1 DEF OfEntry, SystemEntry
    <2>4. k = 0 /\ l = 0
      BY <1>3, <2>3, FirstCopy
    <2> QED BY <1>1, <1>3, <2>2, <2>4 DEF Kin
  <1>5. CASE t \in {7, 8}
    <2>1. PICK part, o, p :
              /\ part = bitfield_table[t].part
              /\ OfDevice(i, part, e.name, o, e.range, k)
              /\ <<e.name, e.register, o, e.range>> \in GicEntries(part)
              /\ OfDevice(j, part, f.name, p, f.range, l)
              /\ <<f.name, f.register, p, f.range>> \in GicEntries(part)
      <3>1. PICK o : /\ OfDevice(i, bitfield_table[t].part, e.name, o, e.range, k)
                     /\ <<e.name, e.register, o, e.range>> \in GicEntries(bitfield_table[t].part)
        BY <1>1, <1>3, <1>5, DeviceRows DEF EntryAt
      <3>2. PICK p : /\ OfDevice(j, bitfield_table[t].part, f.name, p, f.range, l)
                     /\ <<f.name, f.register, p, f.range>> \in GicEntries(bitfield_table[t].part)
        BY <1>1, <1>3, <1>5, DeviceRows DEF EntryAt
      <3> QED BY <3>1, <3>2
    <2>2. e.name = f.name
      <3> DEFINE a == IF e.range > 1 THEN k ELSE -1
                 b == IF f.range > 1 THEN l ELSE -1
      <3>1. Rows[i].name = <<e.name, a>> /\ Rows[j].name = <<f.name, b>>
        BY <2>1 DEF OfDevice
      <3> HIDE DEF a, b
      <3>2. <<e.name, a>>[1] = e.name /\ <<f.name, b>>[1] = f.name
        OBVIOUS
      <3> QED BY <3>1, <3>2, Zenon
    <2>3. /\ part \in {GICC_V2, GICD_V2} /\ GICC_V2 # GICD_V2
          /\ k \in 0 .. e.range - 1 /\ l \in 0 .. f.range - 1
          /\ o + 4 * k = p + 4 * l
      BY <2>1 DEF OfDevice, GICC_V2, GICD_V2
    <2>4. o \in Nat /\ p \in Nat /\ e.range \in 1 .. 256 /\ f.range \in 1 .. 256
      BY <2>1, <2>3, GicNumbers DEF GicEntries
    <2>5. ~ (o + 4 * e.range <= p) /\ ~ (p + 4 * f.range <= o)
      BY <2>3, <2>4
    <2>6. e.register = f.register /\ o = p
      BY <2>1, <2>2, <2>3, <2>5, GicRegisters DEF GicEntries
    <2>7. k = l
      BY <2>3, <2>4, <2>6
    <2> QED BY <1>1, <1>3, <2>6, <2>7 DEF Kin
  <1> QED BY <1>2, <1>4, <1>5

-----------------------------------------------------------------------------
(***************************************************************************)
(* What a find call shows of a register.                                   *)
(***************************************************************************)
\* A field that is shown of a system register: its entry, and what the reader
\* of its register delivers.
LEMMA SystemFound ==
  ASSUME TablesInv, NEW e \in FoundSystem
  PROVE  /\ Places[e.row][1] \in 1 .. 6 /\ OfEntry(e.row, EntryAt(e.row))
         /\ TableAt(e.row).part = TableOf(e) /\ EntryAt(e.row).register = RegisterOf(e.row)
         /\ ArchOfPart(TableOf(e)) = ArchOf(e) /\ RegisterOf(e.row) \in func_table
         /\ Delivered(ArchOf(e), RegisterOf(e.row)) = 0 .. Size(TableOf(e), RegisterOf(e.row)) - 1
  <1>1. /\ e.row \in Indices /\ ArchOf(e) \in Arches /\ RegisterOf(e.row) \in func_table
        /\ ArchOfPart(TableOf(e)) = ArchOf(e) /\ IsSystem(e.row)
    BY FoundEntry DEF FoundSystem
  <1>2. Places[e.row][1] \in 1 .. 6
    <2>1. Places[e.row][1] \in 1 .. 6 \/ Places[e.row][1] \in {7, 8}
      <3>1. Places[e.row][1] \in 1 .. 8
        BY <1>1, RowPlace DEF PlaceSet
      <3> QED BY <3>1
    <2>2. ASSUME Places[e.row][1] \in {7, 8} PROVE ~IsSystem(e.row)
      <3>1. PICK part, name, offset, range, k : OfDevice(e.row, part, name, offset, range, k)
        BY <1>1, <2>2, DeviceRows
      <3> QED BY <3>1 DEF OfDevice
    <2> QED BY <1>1, <2>1, <2>2
  <1>3. OfEntry(e.row, EntryAt(e.row)) /\ TableAt(e.row).part = TableOf(e)
    BY <1>1, <1>2, SystemRows DEF EntryAt, TableAt, TableOf
  <1>4. /\ EntryAt(e.row).register = RegisterOf(e.row)
        /\ HasBody(ArchOf(e), RegisterOf(e.row))
    BY <1>1, <1>3 DEF OfEntry, SystemEntry, Plain, TableOf
  <1>5. Delivered(ArchOf(e), RegisterOf(e.row)) = 0 .. Size(TableOf(e), RegisterOf(e.row)) - 1
    BY <1>1, <1>4, DeliveredBits
  <1> QED BY <1>1, <1>2, <1>3, <1>4, <1>5

\* A field that is shown has the bits of its row in what was read of its
\* register on a CPU.
LEMMA FoundBits ==
  ASSUME TablesInv, NEW e \in Found, ~call.noparse
  PROVE  \E c \in CPUs :
            /\ e.epl = "NS_PL1" => c = e.cpu
            /\ results[e.from].val = <<Target(e.row), c>>
            /\ e.value = FieldBits(e.row, ValueBits(<<Target(e.row), c>>))
  <1> DEFINE r == results[e.from]
  <1>1. /\ BreakoutInv /\ ~call.calc /\ e \in list /\ e.status = "SUCCESS"
    BY DEF TablesInv, ServiceInv, Found
  <1>2. /\ r \in ioctl_result /\ ResultOK(r, e.from) /\ e.cpu = r.cpu /\ e.status = r.status
        /\ e.epl = r.epl /\ e.value = Shown(e.row, ValueBits(r.val))
        /\ Target(e.row) = Target(r.row) /\ e.from \in 1 .. Len(results)
    BY <1>1, ListedResult
  <1>3. e.value = FieldBits(e.row, ValueBits(r.val))
    BY <1>2 DEF Shown
  <1>4. r.cpu \in CPUs /\ r.epl \in {"NS_PL0", "NS_PL1"}
    BY <1>2 DEF ioctl_result, Levels
  <1> HIDE DEF r
  <1>5. CASE r.epl = "NS_PL1"
    <2>1. r.cpu = (e.from - 1) % MS_MAX_CPUS /\ r.val = <<Target(r.row), r.cpu>>
      BY <1>1, <1>2, <1>5 DEF ResultOK, Valid
    <2> QED BY <1>2, <1>3, <1>4, <2>1 DEF r
  <1>6. CASE r.epl = "NS_PL0"
    <2>1. PICK c \in CPUs : r.val = <<Target(r.row), c>>
      BY <1>1, <1>2, <1>6 DEF ResultOK
    <2> QED BY <1>2, <1>3, <1>6, <2>1 DEF r
  <1> QED BY <1>4, <1>5, <1>6

\* What is read of a register are bits that its reader delivers.
LEMMA ReadBits ==
  ASSUME TablesInv, NEW e \in Found, NEW c \in CPUs
  PROVE  ValueBits(<<Target(e.row), c>>)
           \subseteq 0 .. Size(TableAt(e.row).part, EntryAt(e.row).register) - 1
  <1> DEFINE t == Target(e.row)
  <1>1. board \in Boards /\ e.row \in Indices /\ ArchOf(e) \in Arches
    BY FoundRow DEF TablesInv, ServiceInv, BreakoutInv, TypeOK, FlowTypeOK
  <1>2. t \in Targets
    BY <1>1, RowType
  <1>3. e.cpu \in CPUs
    <2>1. e \in bitfield_info_populated
      BY DEF TablesInv, ServiceInv, BreakoutInv, TypeOK, ListTypeOK, Found
    <2> QED BY <2>1 DEF bitfield_info_populated
  <1>4. PICK a \in Arches : \A d \in CPUs :
            /\ get_arch_from_midr(Part[board][d]) \in {a, NoPart}
            /\ \A u \in Targets : Contents[board][<<u, d>>] \subseteq
                  IF u \in GicTargets THEN 0 .. 31 ELSE Delivered(a, MS_SYSREG[u[2]])
    BY <1>1, BoardsAssumption
  <1>5. a = ArchOf(e)
    <2>1. ArchOf(e) \in {a, NoPart}
      BY <1>3, <1>4 DEF ArchOf
    <2>2. NoPart \notin Arches
      BY DEF NoPart, Arches, ARCH_ARMV7A, ARCH_ARMV8A
    <2> QED BY <1>1, <2>1, <2>2
  <1>6. <<t, c>> # NoValue
    BY <1>2, ReadsAssumption
  <1> HIDE DEF t
  <1>7. ValueBits(<<t, c>>) \subseteq IF t \in GicTargets THEN 0 .. 31
                                      ELSE Delivered(ArchOf(e), MS_SYSREG[t[2]])
    BY <1>2, <1>4, <1>5, <1>6 DEF ValueBits
  <1>8. CASE t \notin GicTargets
    <2>1. e \in FoundSystem
      BY <1>8 DEF FoundSystem, IsSystem, t
    <2>2. MS_SYSREG[t[2]] = RegisterOf(e.row)
      BY DEF RegisterOf, t
    <2> QED BY <1>7, <1>8, <2>1, <2>2, SystemFound DEF t
  <1>9. CASE t \in GicTargets
    <2>1. Size(TableAt(e.row).part, EntryAt(e.row).register) = 32
      <3>1. ~IsSystem(e.row)
        BY <1>9 DEF IsSystem, t
      <3>2. Places[e.row][1] \in {7, 8}
        <4>1. Places[e.row][1] \in 1 .. 8
          BY <1>1, RowPlace DEF PlaceSet
        <4>2. Places[e.row][1] \in 1 .. 6 => IsSystem(e.row)
          BY <1>1, SystemRows DEF OfEntry
        <4>3. Places[e.row][1] \in 1 .. 6 \/ Places[e.row][1] \in {7, 8}
          BY <4>1
        <4> QED BY <3>1, <4>2, <4>3
      <3>3. \E n, o, d : <<n, EntryAt(e.row).register, o, d>> \in GicEntries(TableAt(e.row).part)
        BY <1>1, <3>2, DeviceRows DEF EntryAt, TableAt
      <3>4. TableAt(e.row).part = GICC_V2 \/ TableAt(e.row).part = GICD_V2
        BY <3>2, TableParts DEF TableAt
      <3>5. GicEntries(GICC_V2) = GiccEntries /\ GicEntries(GICD_V2) = GicdEntries
        BY DEF GicEntries, GICC_V2, GICD_V2
      <3> QED BY <3>3, <3>4, <3>5, GicRegisters
    <2>2. 0 .. 31 = 0 .. 32 - 1
      OBVIOUS
    <2> QED BY <1>7, <1>9, <2>1, <2>2 DEF t
  <1> QED BY <1>8, <1>9

\* The fields of the register of a field have the bits of their rows.
LEMMA ShownRange ==
  ASSUME NEW e, e.row \in Indices, NEW v, v \subseteq Nat, e.value = FieldBits(e.row, v)
  PROVE  ShownBits(e) = RowRange(e.row) \cap v
  <1> DEFINE s == Rows[e.row].shift
             w == Rows[e.row].width
  <1>1. s \in Nat /\ w \in Nat
    BY PlaceOf
  <1>2. ShownBits(e) = {s + b : b \in {b \in 0 .. w - 1 : b + s \in v}}
    BY DEF ShownBits, FieldBits
  <1>3. RowRange(e.row) = s .. s + w - 1
    BY DEF RowRange
  <1> HIDE DEF s, w
  <1>4. ASSUME NEW x \in s .. s + w - 1, x \in v
        PROVE  x \in {s + b : b \in {b \in 0 .. w - 1 : b + s \in v}}
    <2>1. x - s \in 0 .. w - 1 /\ (x - s) + s = x /\ s + (x - s) = x
      BY <1>1
    <2> QED BY <1>4, <2>1
  <1>5. ASSUME NEW b \in 0 .. w - 1, b + s \in v PROVE s + b \in (s .. s + w - 1) \cap v
    BY <1>1, <1>5
  <1> QED BY <1>2, <1>3, <1>4, <1>5

\* The register of a field that EveryBitOnce speaks of is not one that a table
\* splits badly.
LEMMA RegularKey ==
  ASSUME TablesInv, NEW e \in Found, KeyOf(e) \notin Irregular
  PROVE  <<TableAt(e.row).part, EntryAt(e.row).register>> \notin Irregular
  <1>1. e.row \in Indices
    BY FoundRow
  <1>2. CASE IsSystem(e.row)
    <2>1. e \in FoundSystem
      BY <1>2 DEF FoundSystem
    <2> QED BY <1>2, <2>1, SystemFound DEF KeyOf
  <1>3. CASE ~IsSystem(e.row)
    <2>1. Places[e.row][1] \in {7, 8}
      <3>1. Places[e.row][1] \in 1 .. 8
        BY <1>1, RowPlace DEF PlaceSet
      <3>2. Places[e.row][1] \in 1 .. 6 => IsSystem(e.row)
        BY <1>1, SystemRows DEF OfEntry
      <3>3. Places[e.row][1] \in 1 .. 6 \/ Places[e.row][1] \in {7, 8}
        BY <3>1
      <3> QED BY <1>3, <3>2, <3>3
    <2>2. PICK part, x : part = TableAt(e.row).part /\ x = EntryAt(e.row)
      OBVIOUS
    <2>3. PICK o : /\ OfDevice(e.row, part, x.name, o, x.range, Places[e.row][4])
                   /\ <<x.name, x.register, o, x.range>> \in GicEntries(part)
      BY <1>1, <2>1, <2>2, DeviceRows DEF TableAt, EntryAt
    <2>4. /\ part \in {GICC_V2, GICD_V2} /\ GICC_V2 # GICD_V2 /\ GICC_V2 = 8 /\ GICD_V2 = 9
      BY <2>3 DEF OfDevice, GICC_V2, GICD_V2
    <2>5. KeyOf(e) = <<TableOf(e), x.name>>
      <3>1. Rows[e.row].name[1] = x.name
        <4>1. Rows[e.row].name = <<x.name, IF x.range > 1 THEN Places[e.row][4] ELSE -1>>
          BY <2>3 DEF OfDevice
        <4> QED BY <4>1
      <3> QED BY <1>3, <3>1 DEF KeyOf
    <2>6. ASSUME <<part, x.register>> \in Irregular PROVE FALSE
      <3>1. part = GICD_V2 /\ x.register = "GICD_RESERVED_04"
        BY <2>4, <2>6 DEF Irregular, Cortexes, ARCH_ARMV7A, ARCH_ARMV8A, IMPL_CORTEX_A7,
           IMPL_CORTEX_A9, IMPL_CORTEX_A15, IMPL_CORTEX_A53, IMPL_CORTEX_A57
      <3>2. x.name = x.register
        BY <2>3, <2>4, <3>1, GicRegisters DEF GicEntries
      <3>3. TableOf(e) = GICD_V2
        BY <2>3, <2>4, <3>1 DEF OfDevice, TableOf
      <3> QED BY <2>5, <3>1, <3>2, <3>3 DEF Irregular
    <2> QED BY <2>2, <2>6
  <1> QED BY <1>2, <1>3

\* The matches are all the rows that were asked for and fit.
AllMatched ==
    ret = "ok" \/ pc \notin {"idle", "match", "search"} =>
        matches = {i \in Indices : Asked(i) /\ ForThisPart(i)}
\* With what TablesProofs has shown, this is inductive.
FieldsInv == TablesInv /\ AllMatched

\* It is kept by each step (breakout_search_table goes through all the rows).
LEMMA AllMatchedStep ==
  ASSUME MatchInv, AllMatched, [Next]_vars
  PROVE  AllMatched'
  <1>a. ASSUME UNCHANGED <<call, info, matches>>, ret' = "ok" \/ pc' \notin {"idle", "match", "search"}
                   => ret = "ok" \/ pc \notin {"idle", "match", "search"}
        PROVE  AllMatched'
    BY <1>a DEF AllMatched, Asked, ForThisPart
  <1>1. CASE Find
    BY <1>1 DEF Find, AllMatched
  <1>2. CASE set_match_info
    BY <1>2 DEF set_match_info, AllMatched, MatchInv
  <1>3. CASE breakout_search_table
    <2>1. \A i : Asked(i)' = Asked(i) /\ ForThisPart(i)' = ForThisPart(i)
      BY <1>3 DEF breakout_search_table, Asked, ForThisPart
    <2> QED BY <1>3, <2>1 DEF breakout_search_table, AllMatched
  <1>4. CASE breakout_sort_ioctls \/ driver_results \/ driver_done \/ user_done \/ parse_done
             \/ breakout_parse_results \/ free_uninitialised \/ breakout_call_driver
             \/ breakout_call_usermode \/ breakout_parse_results_value
    BY <1>a, <1>4 DEF breakout_sort_ioctls, driver_results, driver_done, user_done, reads,
       breakout_parse_results, free_uninitialised, breakout_call_driver, parse_done,
       breakout_call_usermode, breakout_parse_results_value
  <1>5. CASE set_match_info_unknown \/ breakout_value_validate_fails \/ flatten_results
    BY <1>a, <1>5 DEF set_match_info_unknown, breakout_value_validate_fails, flatten_results,
       Return
  <1>6. CASE UNCHANGED vars
    BY <1>a, <1>6 DEF vars, reads
  <1> QED BY <1>1, <1>2, <1>3, <1>4, <1>5, <1>6 DEF Next, Library

\* A call that has matched has matched every row that it asked for
\* (breakout_search_table).
THEOREM EveryRowIsMatched == Spec => []FieldsInv
  <1>1. Init => AllMatched
    BY DEF Init, AllMatched
  <1>2. MatchInv /\ AllMatched /\ [Next]_vars => AllMatched'
    BY AllMatchedStep
  <1>3. TablesInv => MatchInv
    BY DEF TablesInv
  <1>4. FieldsInv <=> TablesInv /\ AllMatched
    BY DEF FieldsInv
  <1> QED BY <1>1, <1>2, <1>3, <1>4, TablesInvariant, PTL DEF Spec

\* What a call asks for by name or group are all the rows of a register: they
\* are in the list with what was read of it.
LEMMA AllKinFound ==
  ASSUME FieldsInv, ~call.noparse, call.uid = NoUid, NEW e \in Found,
         NEW j \in Indices, Kin(e.row, j)
  PROVE  \E f \in With(e) : f.row = j /\ f.from = e.from
  <1> DEFINE k == e.from
             r == results[k]
             i == e.row
             f == Element(j, r, k)
  <1>1. /\ ServiceInv /\ BreakoutInv /\ MatchInv /\ ~call.calc /\ e \in list
        /\ e.status = "SUCCESS" /\ ret = "ok" /\ info.architecture = ArchOf(e)
    BY DEF FieldsInv, TablesInv, ServiceInv, Found
  <1>2. /\ k \in 1 .. Len(results) /\ i \in Indices /\ i \in Kept(r)
        /\ r \in ioctl_result /\ e.cpu = r.cpu /\ e.status = r.status /\ e.epl = r.epl
    BY <1>1, ListedResult
  <1>3. k < next
    BY <1>1 DEF BreakoutInv, ElementsInv
  <1>4. /\ Rows[i].reg = Rows[j].reg /\ Rows[i].group = Rows[j].group
        /\ Rows[i].name = Rows[j].name /\ Rows[i].type = Rows[j].type
        /\ Rows[i].uid.part = Rows[j].uid.part
    BY <1>2, KinRows
  <1>5. i \in matches /\ Rows[i].reg = Rows[r.row].reg /\ Fits(i, r.midr)
    BY <1>2 DEF Kept
  <1>6. Asked(i) /\ ForThisPart(i)
    BY <1>1, <1>5 DEF MatchInv
  <1>7. Asked(j) /\ ForThisPart(j)
    <2>1. Rows[i].uid # NoUid
      BY <1>2, RowType DEF Row
    <2> QED BY <1>4, <1>6, <2>1 DEF Asked, ForThisPart
  <1>8. j \in matches
    BY <1>1, <1>7 DEF FieldsInv, AllMatched
  <1>9. Fits(j, r.midr)
    BY <1>4, <1>5 DEF Fits
  <1>10. j \in Kept(r)
    BY <1>4, <1>5, <1>8, <1>9 DEF Kept
  <1>11. f \in list
    <2>1. InList(r, k)
      BY <1>1, <1>2, <1>3 DEF ServiceInv, ListedInv
    <2> QED BY <1>10, <2>1 DEF InList
  <1>12. f.row = j /\ f.cpu = e.cpu /\ f.status = e.status /\ f.epl = e.epl /\ f.from = k
    BY <1>2 DEF Element
  <1> HIDE DEF f, k
  <1>13. f \in Found
    BY <1>1, <1>11, <1>12 DEF Found, ArchOf
  <1>14. Target(j) = Target(i)
    BY <1>2, <1>4, SameTarget
  <1>15. f \in With(e)
    BY <1>4, <1>12, <1>13, <1>14 DEF With, TableOf
  <1> QED BY <1>12, <1>15 DEF k

\* The fields that are shown with a field are those of its register's rows, of
\* the same answer.
LEMMA WithKin ==
  ASSUME FieldsInv, NoTwice, ~call.noparse, call.uid = NoUid, NEW e \in Found, NEW f \in With(e)
  PROVE  /\ f \in Found /\ f.row \in Indices /\ Kin(e.row, f.row)
         /\ f.from = e.from /\ Target(f.row) = Target(e.row)
  <1>1. /\ f \in Found /\ f.epl = e.epl /\ f.cpu = e.cpu /\ Target(f.row) = Target(e.row)
        /\ Rows[f.row].uid.part = Rows[e.row].uid.part /\ Rows[f.row].name = Rows[e.row].name
    BY DEF With, TableOf
  <1>2. e.row \in Indices /\ f.row \in Indices
    BY <1>1, FoundRow DEF FieldsInv
  <1>3. Kin(e.row, f.row)
    BY <1>1, <1>2, RowsKin
  <1>4. PICK g \in With(e) : g.row = f.row /\ g.from = e.from
    BY <1>2, <1>3, AllKinFound
  <1>5. g = f
    <2>1. /\ g \in list /\ f \in list /\ g.epl = f.epl /\ g.cpu = f.cpu
          /\ g.status = "SUCCESS" /\ f.status = "SUCCESS"
      BY <1>1 DEF With, Found
    <2> QED BY <1>4, <2>1 DEF NoTwice
  <1> QED BY <1>1, <1>2, <1>3, <1>4, <1>5

\* With a call by name or group, every bit of what was read of a register is
\* in exactly one of the fields that a table gives the register, but for the
\* rows in Irregular (the tables of src/lib/src/bitfields, through
\* read_tables_to_memory, breakout_search_table and breakout_filter_results).
THEOREM EachBitIsShownOnce == Spec => []EveryBitOnce
  <1>1. FieldsInv /\ NoTwice => EveryBitOnce
    <2> SUFFICES ASSUME FieldsInv, NoTwice, ~call.noparse, call.uid = NoUid,
                        NEW e \in Found, KeyOf(e) \notin Irregular
                 PROVE  /\ \E c \in CPUs :
                              /\ e.epl = "NS_PL1" => c = e.cpu
                              /\ ValueBits(<<Target(e.row), c>>)
                                   = UNION {ShownBits(f) : f \in With(e)}
                        /\ \A f \in With(e) \ {e} : ShownBits(e) \cap ShownBits(f) = {}
      BY DEF EveryBitOnce
    <2>1. TablesInv /\ e.row \in Indices
      BY FoundRow DEF FieldsInv
    <2>2. PICK c \in CPUs : /\ e.epl = "NS_PL1" => c = e.cpu
                            /\ results[e.from].val = <<Target(e.row), c>>
                            /\ e.value = FieldBits(e.row, ValueBits(<<Target(e.row), c>>))
      BY <2>1, FoundBits
    <2> DEFINE v == ValueBits(<<Target(e.row), c>>)
               size == Size(TableAt(e.row).part, EntryAt(e.row).register)
    <2>3. v \subseteq 0 .. size - 1 /\ v \subseteq Nat
      <3>1. v \subseteq 0 .. size - 1
        BY <2>1, ReadBits
      <3> HIDE DEF v, size
      <3> QED BY <3>1
    <2>4. ASSUME NEW f \in With(e) PROVE ShownBits(f) = RowRange(f.row) \cap v
      <3>1. /\ f \in Found /\ f.row \in Indices /\ f.from = e.from
            /\ Target(f.row) = Target(e.row)
        BY <2>4, WithKin
      <3>2. PICK d \in CPUs : /\ results[f.from].val = <<Target(f.row), d>>
                              /\ f.value = FieldBits(f.row, ValueBits(<<Target(f.row), d>>))
        BY <2>1, <3>1, FoundBits
      <3>3. d = c
        BY <2>2, <3>1, <3>2
      <3>4. f.value = FieldBits(f.row, v)
        BY <3>1, <3>2, <3>3
      <3> HIDE DEF v
      <3> QED BY <2>3, <3>1, <3>4, ShownRange
    <2>5. ShownBits(e) = RowRange(e.row) \cap v
      <3> HIDE DEF v
      <3> QED BY <2>1, <2>2, <2>3, ShownRange DEF v
    <2>6. <<TableAt(e.row).part, EntryAt(e.row).register>> \notin Irregular
      BY <2>1, RegularKey
    <2> HIDE DEF v
    <2>7. ASSUME NEW b \in v PROVE \E f \in With(e) : b \in ShownBits(f)
      <3>1. b \in 0 .. size - 1
        BY <2>3
      <3>2. PICK j \in Indices : Kin(e.row, j) /\ b \in RowRange(j)
        BY <2>1, <2>6, <3>1, BitOwner
      <3>3. PICK f \in With(e) : f.row = j
        BY <3>2, AllKinFound
      <3> QED BY <2>4, <3>2, <3>3
    <2>8. v = UNION {ShownBits(f) : f \in With(e)}
      <3>1. \A f \in With(e) : ShownBits(f) \subseteq v
        BY <2>4
      <3> QED BY <2>7, <3>1
    <2>9. ASSUME NEW f \in With(e) \ {e}, NEW b \in ShownBits(e) \cap ShownBits(f) PROVE FALSE
      <3>1. /\ f \in Found /\ f.row \in Indices /\ Kin(e.row, f.row) /\ Kin(e.row, e.row)
        BY <2>9, WithKin DEF Kin
      <3>2. b \in RowRange(e.row) /\ b \in RowRange(f.row) /\ b \in 0 .. size - 1
        BY <2>3, <2>4, <2>5, <2>9
      <3>3. e.row = f.row
        <4>1. \A j, l \in Indices :
                 /\ Kin(e.row, j) /\ b \in RowRange(j)
                 /\ Kin(e.row, l) /\ b \in RowRange(l)
                 => j = l
          BY <2>1, <2>6, <3>2, BitOwner
        <4> QED BY <2>1, <3>1, <3>2, <4>1
      <3>4. /\ e \in list /\ f \in list /\ f.epl = e.epl /\ f.cpu = e.cpu
            /\ e.status = "SUCCESS" /\ f.status = "SUCCESS"
        BY <2>9 DEF With, Found
      <3>5. e = f
        BY <3>3, <3>4 DEF NoTwice
      <3> QED BY <2>9, <3>5
    <2>10. \A f \in With(e) \ {e} : ShownBits(e) \cap ShownBits(f) = {}
      BY <2>9
    <2> QED BY <2>2, <2>8, <2>10 DEF v
  <1> QED BY <1>1, EveryRowIsMatched, NothingIsListedTwice, PTL

\* No field of a system register has bits that the register's reader does not
\* deliver, but for the registers in Short (the widths in src/lib/src/bitfields
\* and the types of the readers in src/common).
THEOREM FieldsAreDelivered == Spec => []FieldsFull
  <1>1. TablesInv => FieldsFull
    <2> SUFFICES ASSUME TablesInv, ~call.noparse, NEW e \in FoundSystem,
                        \A c \in CPUs : ValueBits(<<Target(e.row), c>>)
                                          = Delivered(ArchOf(e), RegisterOf(e.row)),
                        RegisterOf(e.row) \notin Short[ArchOf(e)]
                 PROVE  e.value = 0 .. Rows[e.row].width - 1
      BY DEF FieldsFull
    <2>1. e \in Found /\ e.row \in Indices
      BY FoundRow DEF FoundSystem
    <2> DEFINE n == RegisterOf(e.row)
               size == Size(TableOf(e), n)
    <2>2. /\ TableAt(e.row).part = TableOf(e) /\ EntryAt(e.row).register = n
          /\ ArchOfPart(TableOf(e)) = ArchOf(e) /\ n \in func_table
          /\ Delivered(ArchOf(e), n) = 0 .. size - 1
      BY SystemFound
    <2>3. PICK c \in CPUs : e.value = FieldBits(e.row, ValueBits(<<Target(e.row), c>>))
      BY <2>1, FoundBits
    <2>4. e.value = FieldBits(e.row, 0 .. size - 1)
      BY <2>2, <2>3
    <2>5. Ends(TableOf(e), EntryAt(e.row))
      <3>1. PICK t \in 1 .. 8 : t = Places[e.row][1]
        BY <2>1, PlaceOf DEF RowPlaces
      <3>2. PICK R : FieldsTable(bitfield_table[t].part, bitfield_table[t].table, R)
        BY TablesFields
      <3>3. Places[e.row][2] \in 1 .. Len(bitfield_table[t].table)
        BY <2>1, <3>1, PlaceOf DEF RowPlaces
      <3>4. EntryAt(e.row) = bitfield_table[t].table[Places[e.row][2]]
        BY <3>1 DEF EntryAt, Entry
      <3>5. bitfield_table[t].part = TableOf(e)
        BY <2>2, <3>1 DEF TableAt
      <3> QED BY <3>2, <3>3, <3>4, <3>5 DEF FieldsTable
    <2>6. n \notin Short[ArchOf(e)] \cup Bodiless(ArchOf(e))
      <3>1. ArchOf(e) \in Arches
        BY <2>1, FoundRow
      <3>2. "MMFR4" \notin func_table
        BY DEF func_table, Out1_32, Out1_64, Out1_arch, Out2_32, Out2_arch
      <3> QED BY <2>2, <3>1, <3>2 DEF Short, Bodiless
    <2>7. RowEnd(RowAt(e.row)) <= size
      <3>1. Places[e.row][3] \in 1 .. Len(EntryAt(e.row).rows)
        BY <2>1, PlaceOf DEF RowPlaces, EntryAt
      <3> HIDE DEF n
      <3> QED BY <2>2, <2>5, <2>6, <3>1 DEF Ends, RowAt, n
    <2> DEFINE s == Rows[e.row].shift
               w == Rows[e.row].width
    <2>8. s \in Nat /\ w \in Nat /\ s + w <= size /\ size \in Nat
      <3>1. s \in Nat /\ w \in Nat /\ RowEnd(RowAt(e.row)) = s + w
        BY <2>1, PlaceOf DEF RowEnd
      <3>2. size \in {0, 32, 64}
        BY SizeType
      <3> HIDE DEF size, s, w
      <3> QED BY <2>7, <3>1, <3>2
    <2> HIDE DEF size, s, w
    <2>9. {b \in 0 .. w - 1 : b + s \in 0 .. size - 1} = 0 .. w - 1
      BY <2>8
    <2> QED BY <2>4, <2>9 DEF FieldBits, s, w
  <1> QED BY <1>1, TablesInvariant, PTL
=============================================================================
