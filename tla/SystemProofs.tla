---------------------------- MODULE SystemProofs ----------------------------
(***************************************************************************)
(* Theorems about System, for any command lines, groups, device trees,     *)
(* faults and other clients.  Every step of System is a step of the        *)
(* command or a stutter, and a step of the kernel module or a stutter, so  *)
(* the inductive invariant of each part is one of System.                  *)
(***************************************************************************)
EXTENDS System, SequenceTheorems, TLAPS

LEMMA StepsOfParts == [SysNext]_<<vars, module>> => [Next]_vars /\ [M!Next]_module
  <1> SUFFICES ASSUME [SysNext]_<<vars, module>> PROVE [Next]_vars /\ [M!Next]_module
    OBVIOUS
  <1>1. CASE Alone /\ UNCHANGED module
    BY <1>1 DEF Next
  <1>2. CASE Opens
    BY <1>2 DEF Opens, Next, M!Next
  <1>3. CASE OpenFails
    BY <1>3 DEF OpenFails, Next
  <1>4. CASE Reads
    BY <1>4 DEF Reads, M!Next
  <1>5. CASE Closes
    BY <1>5 DEF Closes, Next, M!Next
  <1>6. CASE Killed
    <2>1. M!ms_release(me) => M!Next
      BY DEF M!Next
    <2> QED BY <1>6, <2>1 DEF Killed, Next
  <1>7. CASE M!Kernel /\ UNCHANGED vars
    BY <1>7 DEF M!Next
  <1>8. CASE \E c \in Others : Other(c)
    BY <1>8 DEF Other, M!Next
  <1>9. CASE UNCHANGED <<vars, module>>
    BY <1>9
  <1> QED BY <1>1, <1>2, <1>3, <1>4, <1>5, <1>6, <1>7, <1>8, <1>9 DEF SysNext
-----------------------------------------------------------------------------
(***************************************************************************)
(* The kernel module.  A client with a request has the device open, an     *)
(* open device keeps the module in, and as long as the module is in, the   *)
(* addresses in gic_map are those of what is mapped.                       *)
(***************************************************************************)
OpenInv ==
    /\ \A c \in {me} \cup Others : base[c] # None => c \in open
    /\ open # {} => mod = "live"
    /\ \A c \in {me} \cup Others : base[c] \in M!Blocks => base[c] \in virt

MapInv ==
    /\ mod \in {"hook", "find"} => virt = {} /\ mapped = {}
    /\ mod \in {"remap", "register", "live", "going"} => virt = mapped
    /\ mod = "cleanup" => \A b \in M!Blocks :
                            b \in mapped <=> b \in virt /\ \E j \in next .. 4 : M!CleanupOrder[j] = b
    /\ mod = "out" /\ ~refused => mapped = {}
    /\ ~refused => lost = {}

ModuleInv == M!TypeOK /\ OpenInv /\ MapInv

LEMMA ModuleInit == M!Init => ModuleInv
  <1> SUFFICES ASSUME M!Init PROVE ModuleInv
    OBVIOUS
  <1>1. M!TypeOK
    <2>1. base \in [{me} \cup Others -> M!Blocks \cup {None, Null}]
      BY DEF M!Init
    <2>2. next \in 1 .. 4 /\ mod = "out" /\ tree \in Trees
      BY DEF M!Init
    <2>3. phys = {} /\ virt = {} /\ mapped = {} /\ lost = {} /\ open = {}
      BY DEF M!Init
    <2>4. refused \in BOOLEAN
      BY Zenon DEF M!Init
    <2> QED BY <2>1, <2>2, <2>3, <2>4 DEF M!TypeOK
  <1>2. OpenInv
    BY ModuleAssumption DEF M!Init, OpenInv
  <1>3. MapInv
    BY DEF M!Init, MapInv
  <1> QED BY <1>1, <1>2, <1>3 DEF ModuleInv

LEMMA Orders ==
    /\ \A j \in 1 .. 4 : M!MapOrder[j] \in M!Blocks
    /\ \A j \in 1 .. 4, k \in 1 .. 4 : j # k => M!CleanupOrder[j] # M!CleanupOrder[k]
    /\ M!Blocks = {M!CleanupOrder[j] : j \in 1 .. 4}
    /\ Len(M!MapOrder) = 4 /\ Len(M!CleanupOrder) = 4
  BY DEF M!MapOrder, M!CleanupOrder, M!Blocks

LEMMA ModuleStep == ModuleInv /\ [M!Next]_module => ModuleInv'
  <1> SUFFICES ASSUME ModuleInv, [M!Next]_module PROVE ModuleInv'
    OBVIOUS
  <1> USE ModuleAssumption DEF ModuleInv, M!TypeOK, OpenInv
  <1>1. CASE M!maplesyrup_init
    BY <1>1 DEF M!maplesyrup_init, M!gic_map, MapInv
  <1>2. CASE M!ms_find_undef_hook
    BY <1>2 DEF M!ms_find_undef_hook, M!gic_map, MapInv
  <1>3. CASE M!ms_find_gic_devices
    <2>1. phys' \subseteq M!Blocks
      BY <1>3 DEF M!ms_find_gic_devices, M!Blocks
    <2>2. mod' \in {"remap", "register"} /\ mod = "find" /\ next' = 1
      BY <1>3 DEF M!ms_find_gic_devices
    <2>3. UNCHANGED <<tree, virt, mapped, lost, refused, open, base>>
      BY <1>3 DEF M!ms_find_gic_devices
    <2>4. M!TypeOK'
      BY <2>1, <2>2, <2>3
    <2>5. OpenInv'
      BY <2>2, <2>3
    <2>6. MapInv'
      BY <2>2, <2>3 DEF MapInv
    <2> QED BY <2>4, <2>5, <2>6
  <1>4. CASE M!ms_remap_gic
    <2> DEFINE b == M!MapOrder[next]
    <2>1. b \in M!Blocks
      BY Orders
    <2>2. mod' \in {"remap", "register"} /\ mod = "remap" /\ next' \in 1 .. 4
      BY <1>4, Orders DEF M!ms_remap_gic
    <2>3. \/ mapped' = mapped \cup {b} /\ virt' = virt \cup {b}
          \/ mapped' = mapped /\ virt' = virt
      BY <1>4 DEF M!ms_remap_gic
    <2>4. UNCHANGED <<tree, phys, lost, refused, open, base>>
      BY <1>4 DEF M!ms_remap_gic
    <2> HIDE DEF b
    <2> QED BY <2>1, <2>2, <2>3, <2>4 DEF MapInv
  <1>5. CASE M!misc_register
    BY <1>5 DEF M!misc_register, M!gic_map, MapInv
  <1>6. CASE M!rmmod
    BY <1>6 DEF M!rmmod, M!Pins, M!gic_map, MapInv
  <1>7. CASE M!misc_deregister
    BY <1>7, Orders DEF M!misc_deregister, M!gic_map, MapInv
  <1>8. CASE M!ms_cleanup_gic
    <2> DEFINE b == M!CleanupOrder[next]
    <2>1. mapped' = mapped \ (virt \cap {b}) /\ virt' = virt
      BY <1>8 DEF M!ms_cleanup_gic, M!gic_map
    <2>2. \/ next = 4 /\ mod' = "out" /\ next' = next
          \/ next < 4 /\ mod' = mod /\ next' = next + 1
      BY <1>8, Orders DEF M!ms_cleanup_gic
    <2>3. mod = "cleanup" /\ UNCHANGED <<tree, phys, lost, refused, open, base>>
      BY <1>8 DEF M!ms_cleanup_gic, M!gic_map
    <2>4. M!TypeOK' /\ OpenInv'
      <3>1. M!TypeOK'
        BY <2>1, <2>2, <2>3
      <3>2. OpenInv'
        BY <2>1, <2>2, <2>3
      <3> QED BY <3>1, <3>2
    <2>5. CASE next = 4
      BY <2>1, <2>2, <2>3, <2>5, Orders DEF MapInv
    <2>6. CASE next < 4
      <3>1. \A d \in M!Blocks : d \in mapped' <=> d \in mapped /\ d # b
        BY <2>1, <2>3 DEF MapInv
      <3>2. \A d \in M!Blocks :
              (\E j \in next + 1 .. 4 : M!CleanupOrder[j] = d)
                <=> (\E j \in next .. 4 : M!CleanupOrder[j] = d) /\ d # b
        BY <2>6, Orders
      <3> QED BY <2>1, <2>2, <2>3, <2>4, <2>6, <3>1, <3>2 DEF MapInv
    <2> QED BY <2>4, <2>5, <2>6
  <1>9. ASSUME NEW c \in {me} \cup Others,
               M!gic_bar_read(c) \/ M!ms_open(c) \/ M!ms_release(c)
        PROVE ModuleInv'
    BY <1>9 DEF M!gic_bar_read, M!ms_open, M!ms_release, M!gic_map, MapInv
  <1>10. ASSUME NEW c \in {me} \cup Others, NEW b \in M!Blocks, M!gic_return_results(c, b)
         PROVE ModuleInv'
    BY <1>10 DEF M!gic_return_results, M!gic_map, MapInv
  <1>11. CASE UNCHANGED module
    BY <1>11 DEF module, MapInv
  <1> QED BY <1>1, <1>2, <1>3, <1>4, <1>5, <1>6, <1>7, <1>8, <1>9, <1>10, <1>11
          DEF M!Next, M!Kernel
-----------------------------------------------------------------------------
(***************************************************************************)
(* The command.  Its arrays: where main has none, where it has the list    *)
(* of groups, and where it has results.                                    *)
(***************************************************************************)
ArraysInv ==
    /\ heap.toshow = Free(toshow) /\ heap.output = Free(output)
    /\ pc \in {"exited", "info", "dispatch"} => toshow = NULL
    /\ pc \in {"exited", "info", "listed", "dispatch", "call", "opened", "loop"} => output = NULL
    /\ pc = "show_group" => output # NULL
    /\ pc \in {"call", "opened"} => IF Single THEN asking = <<>> ELSE toshow # NULL
    /\ pc \in {"loop", "show_group"} => ~Single
    /\ pc = "show_group" => toshow # NULL

\* What was asked for so far was asked in the order of the groups, and only
\* the last answer can be a failure.
InOrder ==
    /\ ~Single => \A k \in 1 .. Len(answers) : answers[k].asked = <<AllGroups[k]>>
    /\ \A k \in 1 .. Len(answers) - 1 : ~Fails(k)

NoneFails == \A k \in 1 .. Len(answers) : ~Fails(k)
ShownTo(n) == shown = {k \in 1 .. n : ToShow(k)}

\* How many answers there are, which of them are on the screen, and what is in
\* the array of results, at each place in main.
AnswersInv ==
    /\ pc \notin {"done", "exited"} => result = -1 /\ NoneFails
    /\ pc \in {"info", "listed", "dispatch"} => answers = <<>> /\ i = 1
    /\ pc \in {"call", "opened", "loop"} => IF Single THEN answers = <<>> ELSE Len(answers) = i - 1
    /\ pc \in {"call", "opened"} /\ ~Single =>
          i <= Len(AllGroups) /\ asking = <<AllGroups[i]>>
    /\ pc = "loop" => i <= Len(AllGroups) + 1 /\ (toshow = NULL => i = 1)
    /\ pc = "show_group" => Len(answers) = i /\ i <= Len(AllGroups)
    /\ pc = "show_group" \/ (pc = "show" /\ Single) =>
          /\ ShownTo(Len(answers) - 1)
          /\ output # NULL <=> answers # <<>>
          /\ output # NULL => output = answers[Len(answers)].outcome
          /\ Len(answers) <= 1 \/ ~Single
    /\ pc = "show" /\ ~Single =>
          output = NULL /\ Len(answers) \in {0, Len(AllGroups)} /\ ShownTo(Len(answers))
    /\ pc \notin {"show", "show_group"} => ShownTo(Len(answers))
    /\ pc \in {"done", "exited"} /\ (answers # <<>> \/ result = 0) =>
          /\ result = 0 <=> NoneFails
          /\ ~Single /\ result = 0 => Len(answers) \in {0, Len(AllGroups)}

CommandInv == TypeOK /\ ArraysInv /\ InOrder /\ AnswersInv

LEMMA GroupsAreNames == AllGroups \in Seq(STRING)
  <1>1. (IF "devices" \in line THEN DevGroups ELSE <<>>) \in Seq(STRING)
    BY GroupsAssumption, EmptySeq
  <1> QED BY <1>1, GroupsAssumption, ConcatProperties DEF AllGroups

AnswerRecords == [asked: Seq(STRING), outcome: Outcomes]
LEMMA AnswersAreRecords ==
    ASSUME TypeOK
    PROVE  /\ answers \in Seq(AnswerRecords) /\ Len(answers) \in Nat
           /\ \A k \in 1 .. Len(answers) : answers[k].outcome \in Outcomes
  <1>1. answers \in Seq(AnswerRecords)
    BY Zenon DEF TypeOK, AnswersTypeOK, AnswerRecords
  <1>2. Len(answers) \in Nat /\ \A k \in 1 .. Len(answers) : answers[k] \in AnswerRecords
    BY <1>1, LenProperties, ElementOfSeq
  <1> QED BY <1>1, <1>2 DEF AnswerRecords

LEMMA CommandInit == Init => CommandInv
  <1> SUFFICES ASSUME Init PROVE CommandInv
    OBVIOUS
  <1>1. TypeOK
    BY DEF Init, TypeOK, MainTypeOK, ArraysTypeOK, AnswersTypeOK
  <1>2. ArraysInv
    BY DEF Init, ArraysInv, Free
  <1>3. InOrder /\ AnswersInv
    BY DEF Init, InOrder, AnswersInv, NoneFails, ShownTo
  <1> QED BY <1>1, <1>2, <1>3 DEF CommandInv

\* What main does with the options, and what depends on them.
SameLine == line' = line /\ ppl' = ppl
LEMMA OptionsKept ==
    ASSUME SameLine
    PROVE  AllGroups' = AllGroups /\ Single' = Single
  BY DEF SameLine, AllGroups, Single

\* A step that asks nothing and prints nothing.
SameAnswers == answers' = answers /\ shown' = shown
LEMMA AnswersKept ==
    ASSUME SameLine, SameAnswers
    PROVE  /\ \A k : Fails(k)' = Fails(k) /\ ToShow(k)' = ToShow(k)
           /\ NoneFails' = NoneFails
           /\ \A n : ShownTo(n)' = ShownTo(n)
           /\ InOrder' = InOrder
  BY OptionsKept DEF SameLine, SameAnswers, Fails, ToShow, NoneFails, ShownTo, InOrder

LEMMA VerdictsKept ==
    ASSUME SameLine, answers' = answers
    PROVE  NoneFails' = NoneFails /\ InOrder' = InOrder
  BY OptionsKept DEF SameLine, Fails, NoneFails, InOrder

LEMMA Intervals ==
    ASSUME NEW n \in Nat \ {0}
    PROVE  \A k : k \in 1 .. n <=> k \in 1 .. n - 1 \/ k = n
  OBVIOUS

\* What show_results prints is the last answer, if there is one to show.
LEMMA PrintedLast ==
    ASSUME CommandInv, pc \in {"show", "show_group"}, SameLine, answers' = answers,
           shown' = Printed
    PROVE  ShownTo(Len(answers))'
  <1> USE DEF CommandInv
  <1>1. \A k : ToShow(k)' = ToShow(k)
    BY DEF ToShow, SameLine
  <1>2. Len(answers) \in Nat /\ NoneFails
    BY AnswersAreRecords DEF AnswersInv
  <1>3. CASE pc = "show" /\ ~Single
    <2>1. output = NULL /\ ShownTo(Len(answers))
      BY <1>3 DEF AnswersInv
    <2> QED BY <1>1, <2>1, GroupsAssumption DEF Printed, Shows, ShownTo, Arrays
  <1>4. CASE pc = "show_group" \/ Single
    <2> PICK n \in Nat : n = Len(answers)
      BY <1>2
    <2>1. ShownTo(n - 1) /\ (output # NULL <=> answers # <<>>)
          /\ (output # NULL => output = answers[n].outcome)
      BY <1>4 DEF AnswersInv
    <2>2. CASE answers = <<>>
      <3>1. Len(answers) = 0
        BY <2>2, EmptySeq
      <3>2. shown = {} /\ output = NULL
        <4>1. n - 1 = -1 /\ 1 .. n - 1 = {}
          BY <3>1
        <4> QED BY <2>1, <2>2, <4>1 DEF ShownTo
      <3>3. 1 .. Len(answers) = {}
        BY <3>1
      <3> QED BY <1>1, <3>2, <3>3, GroupsAssumption DEF Printed, Shows, ShownTo, Arrays
    <2>3. CASE answers # <<>>
      <3>1. n \in Nat \ {0}
        BY <2>3, AnswersAreRecords, EmptySeq
      <3>2. answers[n].outcome \in {"valid", "errors"}
        <4>1. answers[n].outcome \in Outcomes /\ ~Fails(n)
          BY <1>2, <3>1, AnswersAreRecords DEF NoneFails
        <4> QED BY ONLY <4>1 DEF Fails, Outcomes
      <3>3. Shows <=> ToShow(n)
        BY <2>1, <2>3, <3>2 DEF Shows, ToShow
      <3>4. shown = {k \in 1 .. n - 1 : ToShow(k)}
        BY <2>1 DEF ShownTo
      <3>5. \A k : k \in 1 .. n <=> k \in 1 .. n - 1 \/ k = n
        BY ONLY <3>1, Intervals
      <3>6. Printed = {k \in 1 .. n : ToShow(k)}
        BY <3>3, <3>4, <3>5 DEF Printed
      <3> QED BY <1>1, <3>6 DEF ShownTo
    <2> QED BY <2>2, <2>3
  <1> QED BY <1>3, <1>4

\* The library answers.
LEMMA AnswerStep ==
    ASSUME CommandInv, pc \in {"call", "opened"}, NEW o \in Outcomes, Answer(o)
    PROVE  CommandInv'
  <1> USE DEF CommandInv
  <1> DEFINE r == [asked |-> asking, outcome |-> o]
  <1> PICK n \in Nat : n = Len(answers)
    BY AnswersAreRecords
  <1>1. SameLine /\ UNCHANGED <<asking, i, toshow, shown, result>>
    BY DEF Answer, SameLine
  <1>2. /\ answers' \in Seq(AnswerRecords)
        /\ Len(answers') = n + 1
        /\ \A k \in 1 .. n : answers'[k] = answers[k]
        /\ answers'[n + 1] = r
    <2>1. r \in AnswerRecords
      BY DEF TypeOK, AnswersTypeOK, AnswerRecords
    <2>2. answers' = Append(answers, r)
      BY DEF Answer
    <2> QED BY <2>1, <2>2, AnswersAreRecords, AppendProperties
  <1>3. /\ o = "fail" => pc' = "done" /\ UNCHANGED <<output, heap>>
        /\ o # "fail" => /\ pc' = IF Single THEN "show" ELSE "show_group"
                        /\ output' = o
                        /\ heap' = [heap EXCEPT !.output = @ + 1]
    BY DEF Answer
  <1>4. \A k \in 1 .. n : Fails(k)' = Fails(k) /\ ToShow(k)' = ToShow(k)
    BY <1>1, <1>2 DEF Fails, ToShow, SameLine
  <1>5. Fails(n + 1)' <=> o = "fail"
    BY <1>2 DEF Fails
  <1>7. TypeOK'
    <2>2. answers' \in Seq([asked: Seq(STRING), outcome: Outcomes])
      BY <1>2, Zenon DEF AnswerRecords
    <2>3. ArraysTypeOK'
      BY <1>1, <1>3 DEF TypeOK, ArraysTypeOK, Outcomes
    <2>4. pc' \in {"done", "show", "show_group"}
      BY <1>3
    <2> QED BY <1>1, <2>2, <2>3, <2>4
      DEF TypeOK, MainTypeOK, ArraysTypeOK, AnswersTypeOK, SameLine
  <1>8. ArraysInv'
    <2>1. output = NULL
      BY DEF ArraysInv
    <2>2. o # "fail" => output' # NULL
      BY <1>3, GroupsAssumption DEF Arrays, Outcomes
    <2> QED BY <1>1, <1>3, <2>1, <2>2, OptionsKept DEF ArraysInv, Free, TypeOK, ArraysTypeOK
  <1>9. (\A k \in 1 .. n : ~Fails(k)) /\ (Single => n = 0)
    BY DEF AnswersInv, NoneFails
  <1>10. InOrder'
    <2>1. \A k \in 1 .. Len(answers') - 1 : ~Fails(k)'
      BY <1>2, <1>4, <1>9 DEF NoneFails
    <2>2. ~Single => \A k \in 1 .. Len(answers') : answers'[k].asked = <<AllGroups[k]>>
      <3>1. ~Single => n + 1 = i /\ asking = <<AllGroups[i]>>
        BY <1>2 DEF AnswersInv, TypeOK, MainTypeOK
      <3> QED BY <1>2, <3>1 DEF InOrder
    <2> QED BY <1>1, <2>1, <2>2, OptionsKept DEF InOrder
  <1>11. ShownTo(n) /\ \A k \in shown : k \in 1 .. n
    BY DEF AnswersInv, ShownTo
  <1>12. shown' = {k \in 1 .. n : ToShow(k)'}
    BY <1>1, <1>4, <1>11 DEF ShownTo
  <1>13. NoneFails' <=> o # "fail"
    BY <1>2, <1>4, <1>5, <1>9 DEF NoneFails
  <1>14. result = -1 /\ output = NULL
    BY DEF AnswersInv, ArraysInv
  <1>15. CASE o = "fail"
    <2>1. ~ToShow(n + 1)'
      BY <1>2, <1>15 DEF ToShow
    <2>2. shown' = {k \in 1 .. n + 1 : ToShow(k)'}
      BY <1>12, <2>1
    <2>3. ShownTo(Len(answers))'
      BY <1>2, <2>2 DEF ShownTo
    <2> QED BY <1>1, <1>2, <1>3, <1>7, <1>8, <1>10, <1>13, <1>14, <1>15, <2>3 DEF AnswersInv
  <1>16. CASE o # "fail"
    <2>1. ShownTo(Len(answers) - 1)'
      BY <1>2, <1>12 DEF ShownTo
    <2>2. output' # NULL /\ output' = answers'[Len(answers')].outcome
      BY <1>2, <1>3, <1>16, GroupsAssumption DEF Arrays, Outcomes
    <2>3. ~Single => Len(answers') = i /\ i <= Len(AllGroups)
      BY <1>2 DEF AnswersInv, TypeOK, MainTypeOK
    <2>4. Single => Len(answers') = 1
      BY <1>2, <1>9
    <2> QED BY <1>1, <1>2, <1>3, <1>7, <1>8, <1>10, <1>13, <1>14, <1>16, <2>1, <2>2, <2>3,
               <2>4, OptionsKept DEF AnswersInv
  <1> QED BY <1>15, <1>16

LEMMA AloneStep == CommandInv /\ Alone => CommandInv'
  <1> SUFFICES ASSUME CommandInv, Alone PROVE CommandInv'
    OBVIOUS
  <1> USE DEF CommandInv
  <1>1. CASE main
    <2>1. TypeOK'
      BY <1>1, CommandLinesAssumption
      DEF main, TypeOK, MainTypeOK, ArraysTypeOK, AnswersTypeOK, get_ppl_from_flag
    <2>2. ArraysInv'
      BY <1>1 DEF main, ArraysInv, Free
    <2>3. InOrder' /\ AnswersInv'
      BY <1>1 DEF main, InOrder, AnswersInv, NoneFails, ShownTo
    <2> QED BY <2>1, <2>2, <2>3
  <1>2. CASE ms_get_groups
    <2>1. SameLine /\ SameAnswers /\ pc = "info" /\ pc' = "listed" /\ UNCHANGED <<asking, i, output, result>>
      BY <1>2 DEF ms_get_groups, SameLine, SameAnswers
    <2>2. TypeOK'
      BY <1>2 DEF ms_get_groups, Listing, TypeOK, MainTypeOK, ArraysTypeOK, AnswersTypeOK
    <2>3. ArraysInv'
      BY <1>2, <2>1, OptionsKept, GroupsAssumption
      DEF Arrays, ms_get_groups, Listing, ArraysInv, Free, TypeOK, ArraysTypeOK
    <2>4. InOrder' /\ AnswersInv'
      BY <2>1, OptionsKept, AnswersKept DEF AnswersInv, SameAnswers
    <2> QED BY <2>2, <2>3, <2>4
  <1>3. CASE show_info
    <2>1. SameLine /\ SameAnswers /\ pc = "listed" /\ pc' = "done" /\ UNCHANGED <<asking, i, output, result>>
      BY <1>3 DEF show_info, SameLine, SameAnswers
    <2>2. TypeOK'
      <3>1. ArraysTypeOK'
        BY <1>3, <2>1 DEF show_info, TypeOK, ArraysTypeOK, Freed, Free
      <3> QED BY <1>3, <2>1, <3>1
              DEF show_info, TypeOK, MainTypeOK, AnswersTypeOK, SameLine, SameAnswers
    <2>3. ArraysInv'
      BY <1>3, <2>1, OptionsKept DEF show_info, ArraysInv, Free, Freed, TypeOK, ArraysTypeOK
    <2>4. InOrder' /\ AnswersInv'
      BY <2>1, OptionsKept, AnswersKept DEF AnswersInv, SameAnswers, TypeOK, MainTypeOK
    <2> QED BY <2>2, <2>3, <2>4
  <1>4. CASE search_named
    <2>1. SameLine /\ SameAnswers /\ pc = "dispatch" /\ pc' \in {"call", "show"}
          /\ Single /\ asking' = <<>> /\ UNCHANGED <<i, arrays, result>>
      BY <1>4 DEF search_named, SameLine, SameAnswers
    <2>2. TypeOK'
      BY <1>4 DEF search_named, TypeOK, MainTypeOK, ArraysTypeOK, AnswersTypeOK, arrays
    <2>3. ArraysInv'
      BY <2>1, OptionsKept DEF ArraysInv, Free, arrays
    <2>4. InOrder' /\ AnswersInv'
      BY <2>1, OptionsKept, AnswersKept
      DEF AnswersInv, ArraysInv, SameAnswers, TypeOK, MainTypeOK, arrays, ShownTo
    <2> QED BY <2>2, <2>3, <2>4
  <1>5. CASE search_all
    <2>1. SameLine /\ SameAnswers /\ pc = "dispatch" /\ pc' = "loop"
          /\ ~Single /\ UNCHANGED <<asking, i, output, result>>
      BY <1>5 DEF search_all, SameLine, SameAnswers
    <2>2. TypeOK'
      BY <1>5 DEF search_all, Listing, TypeOK, MainTypeOK, ArraysTypeOK, AnswersTypeOK
    <2>3. ArraysInv'
      BY <1>5, <2>1, OptionsKept, GroupsAssumption
      DEF Arrays, search_all, Listing, ArraysInv, Free, TypeOK, ArraysTypeOK
    <2>4. InOrder' /\ AnswersInv'
      BY <2>1, OptionsKept, AnswersKept, GroupsAreNames
      DEF AnswersInv, SameAnswers, TypeOK, MainTypeOK
    <2> QED BY <2>2, <2>3, <2>4
  <1>6. CASE search_nothing
    <2>1. SameLine /\ SameAnswers /\ pc = "dispatch" /\ pc' = "done"
          /\ UNCHANGED <<asking, i, arrays, result>>
      BY <1>6 DEF search_nothing, SameLine, SameAnswers
    <2>2. TypeOK'
      BY <1>6 DEF search_nothing, TypeOK, MainTypeOK, ArraysTypeOK, AnswersTypeOK, arrays
    <2>3. ArraysInv'
      BY <2>1, OptionsKept DEF ArraysInv, Free, arrays
    <2>4. InOrder' /\ AnswersInv'
      BY <2>1, OptionsKept, AnswersKept DEF AnswersInv, SameAnswers, TypeOK, MainTypeOK
    <2> QED BY <2>2, <2>3, <2>4
  <1>7. CASE calculate
    BY <1>7, AnswerStep DEF calculate
  <1>8. CASE find_group
    <2>1. SameLine /\ SameAnswers /\ pc = "loop" /\ pc' = "call" /\ i <= Len(AllGroups)
          /\ toshow # NULL /\ asking' = <<AllGroups[i]>> /\ UNCHANGED <<i, arrays, result>>
      BY <1>8 DEF find_group, SameLine, SameAnswers
    <2>2. AllGroups[i] \in STRING
      BY <2>1, GroupsAreNames DEF TypeOK, MainTypeOK
    <2>3. TypeOK'
      BY <2>1, <2>2
      DEF TypeOK, MainTypeOK, ArraysTypeOK, AnswersTypeOK, arrays, SameLine, SameAnswers
    <2>4. ArraysInv'
      BY <2>1, OptionsKept DEF ArraysInv, Free, arrays
    <2>5. InOrder' /\ AnswersInv'
      BY <2>1, OptionsKept, AnswersKept
      DEF AnswersInv, ArraysInv, SameAnswers, TypeOK, MainTypeOK
    <2> QED BY <2>3, <2>4, <2>5
  <1>9. CASE all_done
    <2>1. SameLine /\ SameAnswers /\ pc = "loop" /\ pc' = "show"
          /\ UNCHANGED <<asking, i, arrays, result>>
      BY <1>9 DEF all_done, SameLine, SameAnswers
    <2>2. TypeOK'
      BY <2>1
      DEF TypeOK, MainTypeOK, ArraysTypeOK, AnswersTypeOK, arrays, SameLine, SameAnswers
    <2>3. ArraysInv'
      BY <2>1, OptionsKept DEF ArraysInv, Free, arrays
    <2>4. InOrder' /\ AnswersInv'
      <3>1. Len(answers) \in {0, Len(AllGroups)}
        <4>1. Len(AllGroups) \in Nat
          BY GroupsAreNames, LenProperties
        <4> QED BY <1>9, <4>1 DEF all_done, AnswersInv, ArraysInv, TypeOK, MainTypeOK
      <3> QED BY <2>1, <3>1, OptionsKept, AnswersKept
              DEF AnswersInv, ArraysInv, SameAnswers, arrays
    <2> QED BY <2>2, <2>3, <2>4
  <1>10. CASE show_group
    <2>1. SameLine /\ answers' = answers /\ shown' = Printed /\ pc = "show_group"
          /\ pc' = "loop" /\ i' = i + 1 /\ output' = NULL /\ UNCHANGED <<asking, toshow, result>>
      BY <1>10 DEF show_group, SameLine, Freed
    <2>2. ShownTo(Len(answers))'
      BY <2>1, PrintedLast
    <2>3. TypeOK'
      BY <1>10, <2>1
      DEF TypeOK, MainTypeOK, ArraysTypeOK, AnswersTypeOK, show_group, SameLine, Free, Printed
    <2>4. ArraysInv'
      BY <1>10, <2>1, OptionsKept DEF ArraysInv, Free, TypeOK, ArraysTypeOK, show_group
    <2>5. InOrder' /\ AnswersInv'
      BY <2>1, <2>2, OptionsKept, VerdictsKept DEF AnswersInv, ArraysInv, TypeOK, MainTypeOK
    <2> QED BY <2>3, <2>4, <2>5
  <1>11. CASE show_results
    <2>1. SameLine /\ answers' = answers /\ shown' = Printed /\ pc = "show"
          /\ pc' = "done" /\ result' = 0 /\ UNCHANGED <<asking, i, arrays>>
      BY <1>11 DEF show_results, SameLine
    <2>2. ShownTo(Len(answers))'
      BY <2>1, PrintedLast
    <2>3. TypeOK'
      BY <2>1, AnswersAreRecords
      DEF TypeOK, MainTypeOK, ArraysTypeOK, AnswersTypeOK, SameLine, arrays, Printed
    <2>4. ArraysInv'
      BY <2>1, OptionsKept DEF ArraysInv, Free, arrays
    <2>5. InOrder' /\ AnswersInv'
      BY <2>1, <2>2, OptionsKept, VerdictsKept DEF AnswersInv
    <2> QED BY <2>3, <2>4, <2>5
  <1>12. CASE ms_free_result
    <2>1. SameLine /\ SameAnswers /\ pc = "done" /\ pc' = "exited" /\ output' = NULL
          /\ toshow' = NULL /\ UNCHANGED <<asking, i, result>>
      BY <1>12 DEF ms_free_result, SameLine, SameAnswers, Freed
    <2>2. TypeOK'
      BY <1>12, <2>1
      DEF TypeOK, MainTypeOK, ArraysTypeOK, AnswersTypeOK, SameLine, SameAnswers, ms_free_result, Free
    <2>3. ArraysInv'
      BY <1>12, <2>1, OptionsKept DEF ArraysInv, Free, ms_free_result, TypeOK, ArraysTypeOK
    <2>4. InOrder' /\ AnswersInv'
      BY <2>1, OptionsKept, AnswersKept DEF AnswersInv, SameAnswers
    <2> QED BY <2>2, <2>3, <2>4
  <1> QED BY <1>1, <1>2, <1>3, <1>4, <1>5, <1>6, <1>7, <1>8, <1>9, <1>10, <1>11, <1>12
          DEF Alone

LEMMA CommandStep == CommandInv /\ [Next]_vars => CommandInv'
  <1> SUFFICES ASSUME CommandInv, [Next]_vars PROVE CommandInv'
    OBVIOUS
  <1>1. CASE Alone
    BY <1>1, AloneStep
  <1>2. CASE start_test_opens
    <2>1. SameLine /\ SameAnswers /\ pc = "call" /\ pc' = "opened"
          /\ UNCHANGED <<asking, i, arrays, result>>
      BY <1>2 DEF start_test_opens, SameLine, SameAnswers
    <2>2. TypeOK'
      BY <2>1
      DEF CommandInv, TypeOK, MainTypeOK, ArraysTypeOK, AnswersTypeOK, arrays, SameLine, SameAnswers
    <2>3. ArraysInv'
      BY <2>1, OptionsKept DEF CommandInv, ArraysInv, Free, arrays
    <2>4. InOrder' /\ AnswersInv'
      BY <2>1, OptionsKept, AnswersKept DEF CommandInv, AnswersInv, SameAnswers
    <2> QED BY <2>2, <2>3, <2>4 DEF CommandInv
  <1>3. CASE start_test_fails \/ stop_test
    BY <1>3, AnswerStep DEF start_test_fails, stop_test, Outcomes
  <1>4. CASE killed
    <2>1. TypeOK'
      BY <1>4 DEF CommandInv, TypeOK, MainTypeOK, ArraysTypeOK, AnswersTypeOK, killed
    <2>2. ArraysInv'
      BY <1>4 DEF ArraysInv, killed, Free
    <2>3. InOrder' /\ AnswersInv'
      BY <1>4 DEF InOrder, AnswersInv, killed, NoneFails, ShownTo
    <2> QED BY <2>1, <2>2, <2>3 DEF CommandInv
  <1>5. CASE UNCHANGED vars
    <2>1. SameLine /\ SameAnswers /\ UNCHANGED <<pc, asking, i, arrays, result>>
      BY <1>5 DEF vars, SameLine, SameAnswers
    <2>2. TypeOK'
      BY <2>1
      DEF CommandInv, TypeOK, MainTypeOK, ArraysTypeOK, AnswersTypeOK, arrays, SameLine, SameAnswers
    <2>3. ArraysInv'
      BY <2>1, OptionsKept DEF CommandInv, ArraysInv, Free, arrays
    <2>4. InOrder' /\ AnswersInv'
      BY <2>1, OptionsKept, AnswersKept DEF CommandInv, AnswersInv, SameAnswers, arrays
    <2> QED BY <2>2, <2>3, <2>4 DEF CommandInv
  <1> QED BY <1>1, <1>2, <1>3, <1>4, <1>5 DEF Next

-----------------------------------------------------------------------------
(***************************************************************************)
(* Both together.                                                          *)
(***************************************************************************)
OpenInCalls == me \in open <=> pc = "opened"

LEMMA OpenStep == OpenInCalls /\ [SysNext]_<<vars, module>> => OpenInCalls'
  <1> SUFFICES ASSUME OpenInCalls, [SysNext]_<<vars, module>> PROVE OpenInCalls'
    OBVIOUS
  <1> USE DEF OpenInCalls
  <1>1. CASE Alone /\ UNCHANGED module
    <2>1. pc # "opened" /\ pc' # "opened"
      BY <1>1 DEF Alone, main, ms_get_groups, show_info, search_named, search_all,
         search_nothing, calculate, Answer, find_group, all_done, show_group,
         show_results, ms_free_result
    <2> QED BY <1>1, <2>1 DEF module
  <1>2. CASE Opens
    BY <1>2 DEF Opens, start_test_opens, M!ms_open
  <1>3. CASE OpenFails
    BY <1>3 DEF OpenFails, start_test_fails, Answer, module
  <1>4. CASE Reads
    BY <1>4 DEF Reads, M!gic_return_results, vars
  <1>5. CASE Closes
    BY <1>5 DEF Closes, stop_test, Answer, M!ms_release
  <1>6. CASE Killed
    BY <1>6 DEF Killed, killed, M!ms_release, module
  <1>7. CASE M!Kernel /\ UNCHANGED vars
    <2>1. UNCHANGED open
      BY <1>7 DEF M!Kernel, M!maplesyrup_init, M!ms_find_undef_hook,
         M!ms_find_gic_devices, M!ms_remap_gic, M!misc_register, M!rmmod,
         M!misc_deregister, M!ms_cleanup_gic, M!gic_bar_read
    <2> QED BY <1>7, <2>1 DEF vars
  <1>8. ASSUME NEW c \in Others, Other(c) PROVE OpenInCalls'
    BY <1>8, OthersAssumption DEF Other, M!ms_open, M!ms_release, M!gic_return_results, vars
  <1>9. CASE UNCHANGED <<vars, module>>
    BY <1>9 DEF vars, module
  <1> QED BY <1>1, <1>2, <1>3, <1>4, <1>5, <1>6, <1>7, <1>8, <1>9 DEF SysNext

SystemInv == ModuleInv /\ CommandInv /\ OpenInCalls

THEOREM SystemInvariant == SysSpec => []SystemInv
  <1>1. SysInit => SystemInv
    <2>1. SysInit => OpenInCalls
      BY DEF SysInit, Init, M!Init, OpenInCalls
    <2> QED BY <2>1, ModuleInit, CommandInit DEF SysInit, SystemInv
  <1>2. SystemInv /\ [SysNext]_<<vars, module>> => SystemInv'
    BY StepsOfParts, ModuleStep, CommandStep, OpenStep DEF SystemInv
  <1> QED BY <1>1, <1>2, PTL DEF SysSpec

\* Command and module stay within their types, and the command has the device
\* open exactly during a call that reads (start_test, stop_test).
THEOREM SystemTypeCorrect == SysSpec => []SysTypeOK
  <1>1. SystemInv => SysTypeOK
    BY DEF SystemInv, ModuleInv, CommandInv, OpenInCalls, SysTypeOK
  <1> QED BY <1>1, SystemInvariant, PTL

\* Whatever programs use the device and whenever the module is loaded and
\* unloaded, no CPU reads a GIC block that is not mapped (gic_return_results,
\* ms_cleanup_gic): an open file keeps the module, and while the module is in
\* gic_map names what is mapped.
THEOREM NoUnmappedRead == SysSpec => []ReadsMapped
  <1>1. SystemInv => ReadsMapped
    BY ModuleAssumption
    DEF SystemInv, ModuleInv, OpenInv, MapInv, ReadsMapped, M!ReadsMapped
  <1> QED BY <1>1, SystemInvariant, PTL

\* What a load maps is unmapped, once, however far the load came, unless
\* misc_register failed (ms_remap_gic, ms_cleanup_gic).
THEOREM MappingsAreReturned == SysSpec => []MappingsReturned
  <1>1. SystemInv => MappingsReturned
    <2> SUFFICES ASSUME SystemInv PROVE M!MappingsReturned
      BY DEF MappingsReturned
    <2>1. mod = "out" /\ ~refused => mapped \cup lost = {}
      BY DEF SystemInv, ModuleInv, MapInv
    <2>2. mod = "cleanup" => \A j \in next .. 4 : M!CleanupOrder[j] \in virt =>
                                                 M!CleanupOrder[j] \in mapped
      BY Orders DEF SystemInv, ModuleInv, MapInv, M!TypeOK
    <2> QED BY <2>1, <2>2 DEF M!MappingsReturned
  <1> QED BY <1>1, SystemInvariant, PTL

\* The command frees every array it gets, once, on every path, for any tables
\* and any command line (main, ms_free_result).
THEOREM ArraysAreFreed == SysSpec => []ArraysFreed
  <1>1. SystemInv => ArraysFreed
    BY DEF SystemInv, CommandInv, ArraysInv, ArraysFreed
  <1> QED BY <1>1, SystemInvariant, PTL

\* With --all every group is asked for in order up to the first that fails,
\* whatever was found is printed, and 0 means that nothing failed, for any
\* number of groups and also when the module goes between two calls (main).
THEOREM AllThatIsFoundIsShown == SysSpec => []EachShown
  <1>1. SystemInv => EachShown
    BY DEF SystemInv, CommandInv, InOrder, AnswersInv, NoneFails, ShownTo, EachShown
  <1> QED BY <1>1, SystemInvariant, PTL
=============================================================================
