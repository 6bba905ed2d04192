-------------------------------- MODULE Codes --------------------------------
(***************************************************************************)
(* The numbers that name parts, registers and fields (src/common/parse.h   *)
(* and src/lib/include/maplesyrup.h), and what the library gets back out   *)
(* of them.  A code packs a part number (5 bits), an instruction (11 bits) *)
(* and a field (16 bits) by shifting and or-ing, without masking: an       *)
(* instruction that needs more than its 11 bits sets bits of the part.     *)
(***************************************************************************)
EXTENDS Integers

ARCH_ARMV7A == 0
ARCH_ARMV8A == 1
IMPL_CORTEX_A7 == 2
IMPL_CORTEX_A9 == 3
IMPL_CORTEX_A15 == 4
IMPL_CORTEX_A53 == 5
IMPL_CORTEX_A57 == 6
IMPL_ALL == 7
GICC_V2 == 8
GICD_V2 == 9
GICH_V2 == 10
GICV_V2 == 11

Arches == {ARCH_ARMV7A, ARCH_ARMV8A}
Cortexes == {IMPL_CORTEX_A7, IMPL_CORTEX_A9, IMPL_CORTEX_A15, IMPL_CORTEX_A53,
             IMPL_CORTEX_A57}
GicParts == {GICC_V2, GICD_V2, GICH_V2, GICV_V2}
Parts == 0 .. 31

NoPart == -1   \* what the functions return for a number they do not know
-----------------------------------------------------------------------------
BitOf(n, k) == (n \div 2^k) % 2

\* The bitwise or of two numbers of PARTNUMBER_BITS.
OrPart(a, b) ==
    LET bit(k) == IF BitOf(a, k) = 1 \/ BitOf(b, k) = 1 THEN 2^k ELSE 0
    IN bit(0) + bit(1) + bit(2) + bit(3) + bit(4)

INSTRUCTION_RANGE == 2048
FIELD_RANGE == 65536

MSCODE(part, instruction, field) ==
    [part |-> OrPart(part, instruction \div INSTRUCTION_RANGE),
     instruction |-> instruction % INSTRUCTION_RANGE,
     field |-> field % FIELD_RANGE]

MSCodes == [part: Parts, instruction: 0 .. INSTRUCTION_RANGE - 1,
            field: 0 .. FIELD_RANGE - 1]

get_arch_from_impl(impl) ==
    CASE impl \in {IMPL_CORTEX_A15, IMPL_CORTEX_A7, IMPL_CORTEX_A9} -> ARCH_ARMV7A
      [] impl \in {IMPL_CORTEX_A53, IMPL_CORTEX_A57} -> ARCH_ARMV8A
      [] OTHER -> NoPart

\* A MIDR is represented by the processor its part number names: one of
\* Cortexes, or one the library does not know.
get_impl_from_midr(midr) == IF midr \in Cortexes THEN midr ELSE NoPart
get_arch_from_midr(midr) == get_arch_from_impl(get_impl_from_midr(midr))
=============================================================================
