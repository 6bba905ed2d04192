----------------------------- MODULE ModuleLife -----------------------------
(***************************************************************************)
(* The kernel module from insmod to rmmod (src/module/entrypoint.c and     *)
(* device_tree.c): what it finds of the interrupt controller in the device *)
(* tree, which of its blocks it maps, the device through which clients     *)
(* read them, and what it gives back when it goes.  Loading goes on when   *)
(* the controller is missing or cannot be mapped, and fails without a      *)
(* place for the undefined-instruction hook or without the device.         *)
(***************************************************************************)
EXTENDS Naturals, Sequences

CONSTANTS
    Clients,   \* the programs that open the device
    Trees,     \* the blocks that the node of a device tree may describe
    NoNode,    \* a device tree without a supported controller
    Faults,    \* what may fail
    None, Null \* no request, and the NULL base address of a request

Blocks == {"gicd", "gicc", "gich", "gicv"}
\* What Faults is taken from.
AllFaults == {"no hook", "ioremap", "misc_register", "open"}

VARIABLES
    mod,     \* where insmod or rmmod is; "live" and "out" between them
    tree,    \* the node in the device tree; it does not change
    phys,    \* the blocks of gic_map with a physical address
    virt,    \* the blocks of gic_map with a virtual address
    next,    \* the block that is mapped or unmapped next
    mapped,  \* the blocks that this load mapped and that are still mapped
    lost,    \* the blocks that earlier loads left mapped
    refused, \* misc_register has failed
    open,    \* the clients with the device open
    base     \* base_addr of the GIC request of each client

gic_map == <<phys, virt>>
vars == <<mod, tree, gic_map, next, mapped, lost, refused, open, base>>
-----------------------------------------------------------------------------
Init ==
    /\ mod = "out"
    /\ tree \in Trees
    /\ phys = {} /\ virt = {}
    /\ next = 1
    /\ mapped = {} /\ lost = {} /\ refused = FALSE
    /\ open = {}
    /\ base = [c \in Clients |-> None]

\* insmod: the memory of the module is new, ms_init_dt_data clears gic_map.
maplesyrup_init ==
    /\ mod = "out"
    /\ mod' = "hook"
    /\ phys' = {} /\ virt' = {}
    /\ mapped' = {} /\ lost' = lost \cup mapped
    /\ UNCHANGED <<tree, next, refused, open, base>>

ms_find_undef_hook ==
    /\ mod = "hook"
    /\ \/ mod' = "find"
       \/ mod' = "out" /\ "no hook" \in Faults
    /\ UNCHANGED <<tree, gic_map, next, mapped, lost, refused, open, base>>

\* GICD and then GICC are needed, the others are not.
ms_find_gic_devices ==
    /\ mod = "find"
    /\ LET found == tree # NoNode /\ {"gicd", "gicc"} \subseteq tree
       IN /\ phys' = IF found THEN tree ELSE IF tree = NoNode THEN {} ELSE tree \cap {"gicd"}
          /\ mod' = IF found THEN "remap" ELSE "register"
    /\ next' = 1
    /\ UNCHANGED <<tree, virt, mapped, lost, refused, open, base>>

MapOrder == <<"gicd", "gicc", "gich", "gicv">>

\* Mutant: the addresses are saved when all blocks are mapped.
ms_remap_gic_late ==
    /\ mod = "remap"
    /\ LET b == MapOrder[next]
           step(m) == IF next = Len(MapOrder) THEN mod' = "register" /\ virt' = m /\ next' = next
                      ELSE mod' = mod /\ virt' = virt /\ next' = next + 1
       IN \/ b \in phys /\ mapped' = mapped \cup {b} /\ step(mapped')
          \/ b \in phys /\ "ioremap" \in Faults /\ mod' = "register"
             /\ UNCHANGED <<virt, next, mapped>>
          \/ b \notin phys /\ mapped' = mapped /\ step(mapped)
    /\ UNCHANGED <<tree, phys, lost, refused, open, base>>

\* One block; a block that cannot be mapped ends it, the earlier ones stay.
ms_remap_gic ==
    /\ mod = "remap"
    /\ LET b == MapOrder[next]
           step == IF next = Len(MapOrder) THEN mod' = "register" /\ next' = next
                   ELSE mod' = mod /\ next' = next + 1
       IN \/ b \in phys /\ mapped' = mapped \cup {b} /\ virt' = virt \cup {b} /\ step
          \/ b \in phys /\ "ioremap" \in Faults /\ mod' = "register"
             /\ UNCHANGED <<virt, next, mapped>>
          \/ b \notin phys /\ UNCHANGED <<virt, mapped>> /\ step
    /\ UNCHANGED <<tree, phys, lost, refused, open, base>>

\* On failure nobody calls ms_cleanup_dt_data.
misc_register ==
    /\ mod = "register"
    /\ \/ mod' = "live" /\ refused' = refused
       \/ mod' = "out" /\ refused' = TRUE /\ "misc_register" \in Faults
    /\ UNCHANGED <<tree, gic_map, next, mapped, lost, open, base>>
-----------------------------------------------------------------------------
\* Mutant: the owner of ms_ops is not named.
Pins_none == {}

\* The open files keep the module, because ms_ops names its owner.
Pins == open

\* The kernel's side of rmmod.
rmmod ==
    /\ mod = "live" /\ Pins = {}
    /\ mod' = "going"
    /\ UNCHANGED <<tree, gic_map, next, mapped, lost, refused, open, base>>

misc_deregister ==
    /\ mod = "going"
    /\ mod' = "cleanup" /\ next' = 1
    /\ UNCHANGED <<tree, gic_map, mapped, lost, refused, open, base>>

CleanupOrder == <<"gicc", "gicd", "gich", "gicv">>

\* One block.
ms_cleanup_gic ==
    /\ mod = "cleanup"
    /\ mapped' = mapped \ (virt \cap {CleanupOrder[next]})
    /\ IF next = Len(CleanupOrder) THEN mod' = "out" /\ next' = next
                                   ELSE mod' = mod /\ next' = next + 1
    /\ UNCHANGED <<tree, gic_map, lost, refused, open, base>>
-----------------------------------------------------------------------------
\* The kernel finds the device, takes the module and calls ms_open, which
\* may find no room for its hook.
ms_open(c) ==
    /\ mod = "live" /\ c \notin open
    /\ open' = open \cup {c}
    /\ UNCHANGED <<mod, tree, gic_map, next, mapped, lost, refused, base>>

\* Whether opening the device may fail.
CannotOpen == mod # "live" \/ "open" \in Faults

\* The base address is taken before the other CPUs are called.
gic_return_results(c, b) ==
    /\ c \in open /\ base[c] = None
    /\ base' = [base EXCEPT ![c] = IF b \in virt THEN b ELSE Null]
    /\ UNCHANGED <<mod, tree, gic_map, next, mapped, lost, refused, open>>

\* Every CPU has read the block, or found no base address.
gic_bar_read(c) ==
    /\ base[c] # None
    /\ base' = [base EXCEPT ![c] = None]
    /\ UNCHANGED <<mod, tree, gic_map, next, mapped, lost, refused, open>>

ms_release(c) ==
    /\ c \in open /\ base[c] = None
    /\ open' = open \ {c}
    /\ UNCHANGED <<mod, tree, gic_map, next, mapped, lost, refused, base>>

Kernel ==
    \/ maplesyrup_init \/ ms_find_undef_hook \/ ms_find_gic_devices \/ ms_remap_gic
    \/ misc_register \/ rmmod \/ misc_deregister \/ ms_cleanup_gic
    \/ \E c \in Clients : gic_bar_read(c)

Next ==
    \/ Kernel
    \/ \E c \in Clients : \/ ms_open(c) \/ ms_release(c)
                          \/ \E b \in Blocks : gic_return_results(c, b)

Spec == Init /\ [][Next]_vars
-----------------------------------------------------------------------------
TypeOK ==
    /\ mod \in {"out", "hook", "find", "remap", "register", "live", "going", "cleanup"}
    /\ tree \in Trees
    /\ phys \subseteq Blocks /\ virt \subseteq Blocks
    /\ next \in 1 .. 4
    /\ mapped \subseteq Blocks /\ lost \subseteq Blocks /\ refused \in BOOLEAN
    /\ open \subseteq Clients
    /\ base \in [Clients -> Blocks \cup {None, Null}]

\* No CPU reads a block that is not mapped: from the moment a request takes
\* its base address until the last CPU has read it, whatever happens to the
\* module (gic_return_results, ms_cleanup_gic, the owner in ms_ops).
ReadsMapped == \A c \in Clients : base[c] \in Blocks => base[c] \in mapped

\* What is mapped is given back: no block is left mapped by a module that is
\* out, even when only some could be mapped, unless misc_register failed; and
\* none is unmapped that is not mapped (ms_remap_gic, ms_cleanup_gic).
MappingsReturned ==
    /\ mod = "out" /\ ~refused => mapped \cup lost = {}
    /\ mod = "cleanup" => \A i \in next .. 4 :
                            CleanupOrder[i] \in virt => CleanupOrder[i] \in mapped
=============================================================================
