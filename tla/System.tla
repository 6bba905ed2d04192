------------------------------- MODULE System -------------------------------
(***************************************************************************)
(* The command and the kernel module together: the command may be run      *)
(* while the module is not there, is loading, or is on its way out, and    *)
(* another program may use the device as well.  A call that reads opens    *)
(* the device, has the driver read some GIC blocks and closes it; if the   *)
(* program is killed, the kernel closes it.                                *)
(***************************************************************************)
EXTENDS FrontEnd

CONSTANTS
    me, Others,   \* the command and the other clients of the device
    Trees, NoNode, Faults, None, Null

VARIABLES mod, tree, phys, virt, next, mapped, lost, refused, open, base

M == INSTANCE ModuleLife WITH Clients <- {me} \cup Others

ASSUME OthersAssumption == me \notin Others
ASSUME ModuleAssumption ==
    /\ \A t \in Trees \ {NoNode} : t \subseteq M!Blocks
    /\ Faults \subseteq M!AllFaults
    /\ None \notin M!Blocks /\ Null \notin M!Blocks /\ None # Null

module == <<mod, tree, phys, virt, next, mapped, lost, refused, open, base>>
-----------------------------------------------------------------------------
SysInit == Init /\ M!Init

Opens == start_test_opens /\ M!ms_open(me)
OpenFails == start_test_fails /\ M!CannotOpen /\ UNCHANGED module
Reads == pc = "opened" /\ UNCHANGED vars /\ \E b \in M!Blocks : M!gic_return_results(me, b)

\* Mutant: the device is not closed.
Closes_keeps == stop_test /\ UNCHANGED module

Closes == stop_test /\ M!ms_release(me)

\* The kernel ends the request of a killed program, and then closes its files.
Killed == killed /\ IF me \in open THEN M!ms_release(me) ELSE UNCHANGED module

Other(c) ==
    /\ \/ M!ms_open(c) \/ M!ms_release(c)
       \/ \E b \in M!Blocks : M!gic_return_results(c, b)
    /\ UNCHANGED vars

SysNext ==
    \/ Alone /\ UNCHANGED module
    \/ Opens \/ OpenFails \/ Reads \/ Closes \/ Killed
    \/ M!Kernel /\ UNCHANGED vars
    \/ \E c \in Others : Other(c)

SysSpec == SysInit /\ [][SysNext]_<<vars, module>>
-----------------------------------------------------------------------------
\* Both parts stay within their types, and the command has the device open
\* exactly during a call that reads.
SysTypeOK ==
    /\ TypeOK /\ M!TypeOK
    /\ me \in open <=> pc = "opened"

\* What each part promises holds of the two together.
ReadsMapped == M!ReadsMapped
MappingsReturned == M!MappingsReturned
=============================================================================
