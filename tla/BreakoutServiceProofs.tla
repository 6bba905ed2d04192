------------------------ MODULE BreakoutServiceProofs ------------------------
(***************************************************************************)
(* Theorems about Breakout, for any tables, boards, requests and CPUs:     *)
(* that each register is read once at each level that it should be read    *)
(* at, that nothing that was read is lost or listed twice, and that the    *)
(* driver is used as its service says.                                     *)
(***************************************************************************)
EXTENDS BreakoutProofs

Reading == {"driver", "answer", "user", "parse", "flatten", "crashed"}

\* The rows that have their register read at a level.
Deciders(level) == {i \in matches : Decides(i) /\ level \in ReadAt(i)}

\* What is still to be read.
TodoInv ==
    /\ todo.driver \subseteq Deciders("NS_PL1")
    /\ todo.user \subseteq Deciders("NS_PL0")
    /\ pc \in {"driver", "answer"} => todo.user = Deciders("NS_PL0")
    /\ pc \in {"user", "parse", "flatten", "crashed"} => todo.driver = {}
    /\ pc \in {"parse", "flatten", "crashed"} => todo.user = {}

\* Each result is of a register that was to be read, and is not any more.
SourceOK(r) ==
    /\ r.row \in Deciders(r.epl)
    /\ r.epl = "NS_PL1" => r.row \notin todo.driver
    /\ r.epl = "NS_PL0" => r.row \notin todo.user /\ Target(r.row) \in Handled
SourceInv ==
    \A k \in 1 .. Len(results) :
        /\ SourceOK(results[k])
        /\ pc \in {"driver", "answer"} => results[k].epl = "NS_PL1"

\* What was to be read and is not any more has a result.
HasResult(i, level) ==
    \E k \in 1 .. Len(results) : results[k].row = i /\ results[k].epl = level
CoverInv ==
    pc \in Reading /\ ~call.calc =>
        /\ \A i \in Deciders("NS_PL1") \ todo.driver : HasResult(i, "NS_PL1")
        /\ \A i \in Deciders("NS_PL0") \ todo.user :
              Target(i) \in Handled => HasResult(i, "NS_PL0")

\* The results of a register are those of one answer, or one of user mode;
\* the driver's come first.
UniqueInv ==
    \A k, l \in 1 .. Len(results) :
        /\ results[k].row = results[l].row /\ results[k].epl = results[l].epl =>
              /\ results[k].epl = "NS_PL0" => k = l
              /\ results[k].epl = "NS_PL1" => k - l < MS_MAX_CPUS
        /\ k < l /\ results[l].epl = "NS_PL1" => results[k].epl = "NS_PL1"

\* A call matches registers of the GIC only, or none: then no answer has a
\* MIDR.
GicInv ==
    /\ pc \in Reading \cup {"sort"} /\ ~call.calc => \A i \in matches : Asked(i)
    /\ \A i \in matches : Target(i) \in GicTargets =>
          /\ pc \in Reading => \A c \in CPUs : slots[c].midr = NoCpu
          /\ \A k \in 1 .. Len(results) : results[k].midr = NoCpu

\* A result that has been parsed is in the list.
InList(r, k) ==
    IF ~call.noparse THEN \A i \in Kept(r) : Element(i, r, k) \in list
    ELSE Kept(r) # {} =>
           \E e \in list : /\ Rows[e.row].reg = Rows[r.row].reg
                           /\ e.cpu = r.cpu /\ e.status = r.status
                           /\ r.epl = "NS_PL1" /\ r.status = "SUCCESS" => e.from = k
ListedInv ==
    /\ ~call.calc => \A k \in 1 .. Len(results) : k < next => InList(results[k], k)
    /\ pc \in {"flatten", "idle"} => next > Len(results)
    /\ pc = "crashed" => results = <<>>

ServiceInv ==
    /\ BreakoutInv /\ TodoInv /\ SourceInv /\ CoverInv /\ UniqueInv /\ GicInv /\ ListedInv

-----------------------------------------------------------------------------
(***************************************************************************)
(* Which row decides for a register.                                       *)
(***************************************************************************)
LEMMA SameDeciders ==
  ASSUME matches' = matches, call' = call
  PROVE  /\ \A level : Deciders(level)' = Deciders(level)
         /\ \A i : ReadAt(i)' = ReadAt(i)
  BY DEF Deciders, Decides, ReadAt

\* breakout_sort_ioctls takes one row of each register only.
LEMMA DeciderUnique ==
  ASSUME BreakoutInv, NEW l, NEW m, NEW i \in Deciders(l), NEW j \in Deciders(m),
         Rows[i].reg = Rows[j].reg
  PROVE  i = j
  <1>1. i \in Nat /\ j \in Nat /\ i \in matches /\ j \in matches /\ Decides(i) /\ Decides(j)
    BY RowType DEF Deciders, BreakoutInv, TypeOK, ReadsTypeOK
  <1>2. ~(i < j) /\ ~(j < i)
    BY <1>1 DEF Decides
  <1> QED BY <1>1, <1>2

\* The first of the rows of a register that name a level decides.
LEMMA FirstDecides ==
  ASSUME BreakoutInv, NEW i \in matches, ReadAt(i) # {}
  PROVE  \E d \in matches : Decides(d) /\ Rows[d].reg = Rows[i].reg
  <1> DEFINE S == {j \in matches : Rows[j].reg = Rows[i].reg /\ ReadAt(j) # {}}
             d == First(S)
  <1>1. S \subseteq Indices /\ S # {}
    BY DEF BreakoutInv, TypeOK, ReadsTypeOK
  <1>2. d \in S /\ \A j \in S : d <= j
    <2> HIDE DEF S
    <2> QED BY <1>1, FirstRow
  <1>3. \A j \in S : j \in Nat
    BY <1>1, RowType
  <1> HIDE DEF d
  <1>4. Decides(d)
    <2> SUFFICES ASSUME NEW j \in matches, j < d, Rows[j].reg = Rows[d].reg, ReadAt(j) # {}
                 PROVE  FALSE
      BY <1>2 DEF Decides
    <2>1. j \in S
      BY <1>2
    <2> HIDE DEF S
    <2> QED BY <1>2, <1>3, <2>1
  <1> QED BY <1>2, <1>4

\* Every row that decides does so at some level.
LEMMA DeciderLevel ==
  ASSUME NEW i
  PROVE  ReadAt(i) \subseteq Levels
  BY DEF ReadAt

-----------------------------------------------------------------------------
(***************************************************************************)
(* The parts of the invariant.                                             *)
(***************************************************************************)
LEMMA TodoStep ==
  ASSUME ServiceInv, [Next]_vars
  PROVE  TodoInv'
  <1> USE DEF ServiceInv, TodoInv
  <1>a. ASSUME matches' = matches, call' = call, todo' = todo,
               pc' = pc \/ pc' \notin {"driver", "answer", "user", "parse", "flatten", "crashed"}
        PROVE  TodoInv'
    BY <1>a, SameDeciders
  <1>b. ASSUME NothingToDo', pc' \notin {"driver", "answer"}
        PROVE  TodoInv'
    BY <1>b DEF NothingToDo
  <1>1. CASE Find
    BY <1>b, <1>1 DEF Find, FlowInv, BreakoutInv, NothingToDo
  <1>2. CASE set_match_info
    BY <1>a, <1>2 DEF set_match_info, reads
  <1>3. CASE set_match_info_unknown
    BY <1>b, <1>3, ReturnType DEF set_match_info_unknown, Return
  <1>4. CASE breakout_search_table
    BY <1>b, <1>4 DEF breakout_search_table, reads, FlowInv, BreakoutInv, NothingToDo
  <1>5. CASE breakout_sort_ioctls
    <2>1. matches' = matches /\ call' = call
      BY <1>5 DEF breakout_sort_ioctls
    <2>2. todo'.driver = Deciders("NS_PL1") /\ todo'.user = Deciders("NS_PL0") /\ pc' = "driver"
      BY <1>5 DEF breakout_sort_ioctls, Deciders
    <2> QED BY <2>1, <2>2, SameDeciders
  <1>6. CASE driver_results
    BY <1>6, SameDeciders DEF driver_results
  <1>7. CASE driver_done
    BY <1>7, SameDeciders DEF driver_done, reads
  <1>8. CASE breakout_call_usermode
    <2> DEFINE i == First(todo.user)
               n == Len(results)
    <2>1. n \in Nat
      BY LenProperties DEF BreakoutInv, TypeOK, ReadsTypeOK
    <2>2. todo' = [driver |-> todo.driver, user |-> todo.user \ {i}]
      BY <1>8, <2>1, UserResults DEF BreakoutInv
    <2> QED BY <1>8, <2>2, SameDeciders DEF breakout_call_usermode
  <1>9. CASE user_done
    BY <1>9, SameDeciders DEF user_done, reads
  <1>10. CASE breakout_parse_results
    BY <1>a, <1>10 DEF breakout_parse_results, reads
  <1>11. CASE parse_done
    BY <1>11, SameDeciders DEF parse_done, reads
  <1>12. CASE free_uninitialised
    BY <1>12, SameDeciders DEF free_uninitialised, reads
  <1>13. CASE breakout_parse_results_value
    BY <1>b, <1>13 DEF breakout_parse_results_value, reads, FlowInv, BreakoutInv, NothingToDo
  <1>14. CASE breakout_value_validate_fails
    BY <1>b, <1>14, ReturnType DEF breakout_value_validate_fails, Return
  <1>15. CASE flatten_results
    BY <1>b, <1>15, ReturnType DEF flatten_results, Return
  <1>16. CASE breakout_call_driver
    <2> DEFINE i == First(todo.driver)
               n == Len(results)
    <2>1. n \in Nat
      BY LenProperties DEF BreakoutInv, TypeOK, ReadsTypeOK
    <2>2. todo' = [driver |-> todo.driver \ {i}, user |-> todo.user]
      BY <1>16, <2>1, DriverResults DEF BreakoutInv
    <2> QED BY <1>16, <2>2, SameDeciders DEF breakout_call_driver
  <1>17. CASE UNCHANGED vars
    BY <1>a, <1>17 DEF vars, reads
  <1> QED BY <1>1, <1>2, <1>3, <1>4, <1>5, <1>6, <1>7, <1>8, <1>9, <1>10, <1>11, <1>12,
             <1>13, <1>14, <1>15, <1>16, <1>17 DEF Next, Library

\* A step that neither adds a result nor chooses what is read.
Quiet ==
    /\ matches' = matches /\ call' = call /\ results' = results
    /\ todo' = todo \/ (NothingToDo' /\ pc' \notin Reading)
    /\ pc' \in {"driver", "answer"} => pc \in {"driver", "answer"}
    /\ pc' = "sort" => pc = "sort"
    /\ pc' \in Reading =>
          /\ call.calc \/ pc \in Reading
          /\ \A c \in CPUs : slots'[c].midr = slots[c].midr

\* A step that begins the call: there is no result.
Begins ==
    /\ results' = <<>> /\ NothingToDo'
    /\ pc' \notin Reading
    /\ pc' = "sort" => \A i \in matches' : Asked(i)'

LEMMA StepKinds ==
  ASSUME ServiceInv, [Next]_vars
  PROVE  Begins \/ breakout_sort_ioctls \/ Quiet \/ breakout_call_driver
           \/ breakout_call_usermode
  <1> USE DEF ServiceInv, BreakoutInv, TypeOK, ReadsTypeOK
  <1>1. CASE Find
    BY <1>1 DEF Find, FlowInv, Begins, Reading, NothingToDo
  <1>2. CASE set_match_info
    BY <1>2 DEF set_match_info, reads, FlowInv, Begins, Reading, NothingToDo
  <1>3. CASE set_match_info_unknown
    BY <1>3, ReturnType DEF set_match_info_unknown, Return, FlowInv, Begins, Reading
  <1>4. CASE breakout_search_table
    <2>1. \A i : Asked(i)' = Asked(i)
      BY <1>4 DEF breakout_search_table, Asked
    <2>2. \A i \in matches' : Asked(i)
      BY <1>4 DEF breakout_search_table
    <2> QED BY <1>4, <2>1, <2>2 DEF breakout_search_table, reads, FlowInv, Begins, Reading,
               NothingToDo
  <1>6. CASE driver_results
    <2>1. \A c \in CPUs : slots'[c].midr = slots[c].midr
      <3> TAKE c \in CPUs
      <3>1. slots[c] = [val |-> slots[c].val, cpu |-> slots[c].cpu,
                        midr |-> slots[c].midr, status |-> slots[c].status]
        BY DEF Slots
      <3>2. slots'[c] = [slots[c] EXCEPT !.status = "NORESULT"]
        BY <1>6 DEF driver_results
      <3> QED BY <3>1, <3>2
    <2> QED BY <1>6, <2>1 DEF driver_results, Quiet, Reading
  <1>7. CASE driver_done
    BY <1>7 DEF driver_done, reads, Quiet, Reading
  <1>9. CASE user_done
    BY <1>9 DEF user_done, reads, Quiet, Reading
  <1>10. CASE breakout_parse_results
    BY <1>10 DEF breakout_parse_results, reads, Quiet, Reading
  <1>11. CASE parse_done
    BY <1>11 DEF parse_done, reads, Quiet, Reading
  <1>12. CASE free_uninitialised
    BY <1>12 DEF free_uninitialised, reads, Quiet, Reading
  <1>13. CASE breakout_parse_results_value
    BY <1>13 DEF breakout_parse_results_value, reads, Quiet, Reading, FlowInv
  <1>14. CASE breakout_value_validate_fails
    BY <1>14, ReturnType DEF breakout_value_validate_fails, Return, Quiet, Reading
  <1>15. CASE flatten_results
    BY <1>15, ReturnType DEF flatten_results, Return, Quiet, Reading
  <1>17. CASE UNCHANGED vars
    BY <1>17 DEF vars, reads, Quiet
  <1> QED BY <1>1, <1>2, <1>3, <1>4, <1>6, <1>7, <1>9, <1>10, <1>11, <1>12,
             <1>13, <1>14, <1>15, <1>17 DEF Next, Library

\* The driver's answer adds one result for each CPU, all of one row.
LEMMA AnswerAdds ==
  ASSUME ServiceInv, breakout_call_driver, NEW i, i = First(todo.driver)
  PROVE  /\ i \in todo.driver /\ i \in Indices /\ matches' = matches /\ call' = call
         /\ todo' = [driver |-> todo.driver \ {i}, user |-> todo.user]
         /\ Len(results) \in Nat /\ Len(results') = Len(results) + MS_MAX_CPUS
         /\ MS_MAX_CPUS \in Nat \ {0}
         /\ \A k \in 1 .. Len(results) : results'[k] = results[k]
         /\ \A k \in 1 .. Len(results') : k \in 1 .. Len(results) \/
               /\ results'[k].row = i /\ results'[k].epl = "NS_PL1"
               /\ \E c \in CPUs : results'[k].midr = slots'[c].midr
  <1> DEFINE n == Len(results)
  <1>0. n \in Nat /\ MS_MAX_CPUS \in Nat \ {0} /\ CPUs = 0 .. MS_MAX_CPUS - 1
    BY LenProperties, ReadsAssumption DEF ServiceInv, BreakoutInv, TypeOK, ReadsTypeOK, CPUs
  <1>1. /\ i \in todo.driver /\ i \in Indices /\ slots' \in [CPUs -> Slots]
        /\ todo' = [driver |-> todo.driver \ {i}, user |-> todo.user]
        /\ Len(results') = n + MS_MAX_CPUS
        /\ \A k \in 1 .. n : results'[k] = results[k]
        /\ \A c \in CPUs : results'[n + 1 + c] = Result(i, slots'[c], "NS_PL1")
    BY <1>0, DriverResults DEF ServiceInv, BreakoutInv
  <1> HIDE DEF n
  <1>2. ASSUME NEW k \in 1 .. Len(results'), k \notin 1 .. n
        PROVE  /\ results'[k].row = i /\ results'[k].epl = "NS_PL1"
               /\ \E c \in CPUs : results'[k].midr = slots'[c].midr
    <2> DEFINE c == k - (n + 1)
    <2>1. c \in CPUs /\ k = n + 1 + c
      BY <1>0, <1>1, <1>2
    <2>2. slots'[c] \in Slots /\ "NS_PL1" \in Levels
      BY <1>1, <2>1 DEF Levels
    <2>3. results'[k] = Result(i, slots'[c], "NS_PL1")
      BY <1>1, <2>1
    <2> HIDE DEF c
    <2> QED BY <1>1, <2>1, <2>2, <2>3, ResultType
  <1> QED BY <1>0, <1>1, <1>2 DEF n, breakout_call_driver

\* A read in user mode adds one result, or none.
LEMMA UserAdds ==
  ASSUME ServiceInv, breakout_call_usermode, NEW i, i = First(todo.user)
  PROVE  /\ i \in todo.user /\ i \in Indices /\ matches' = matches /\ call' = call
         /\ slots' = slots /\ pc = "user" /\ pc' = pc
         /\ todo' = [driver |-> todo.driver, user |-> todo.user \ {i}]
         /\ Len(results) \in Nat
         /\ \/ results' = results /\ Target(i) \notin Handled
            \/ /\ Len(results') = Len(results) + 1 /\ Target(i) \in Handled
               /\ \A k \in 1 .. Len(results) : results'[k] = results[k]
               /\ results'[Len(results) + 1].row = i
               /\ results'[Len(results) + 1].epl = "NS_PL0"
               /\ results'[Len(results) + 1].midr = NoCpu
  <1>1. Len(results) \in Nat
    BY LenProperties DEF ServiceInv, BreakoutInv, TypeOK, ReadsTypeOK
  <1> QED BY <1>1, UserResults DEF ServiceInv, BreakoutInv, ResultOK, breakout_call_usermode

LEMMA SourceStep ==
  ASSUME ServiceInv, [Next]_vars
  PROVE  SourceInv'
  <1> USE DEF ServiceInv
  <1>1. CASE Begins
    BY <1>1, EmptySeq DEF Begins, SourceInv
  <1>2. CASE breakout_sort_ioctls
    BY <1>2, EmptySeq DEF breakout_sort_ioctls, SourceInv, BreakoutInv, FlowInv
  <1>3. CASE Quiet
    BY <1>3, SameDeciders DEF Quiet, SourceInv, SourceOK, NothingToDo
  <1>4. CASE breakout_call_driver
    <2>0. PICK i : i = First(todo.driver)
      OBVIOUS
    <2>1. i \in Deciders("NS_PL1")
      BY <1>4, <2>0, AnswerAdds DEF TodoInv
    <2>2. \A level : Deciders(level)' = Deciders(level)
      BY <1>4, <2>0, AnswerAdds, SameDeciders
    <2>3. pc = "answer"
      BY <1>4 DEF breakout_call_driver
    <2>4. ASSUME NEW k \in 1 .. Len(results') PROVE SourceOK(results[k])' /\ results'[k].epl = "NS_PL1"
      <3>1. CASE k \in 1 .. Len(results)
        <4>1. results'[k] = results[k] /\ todo'.driver \subseteq todo.driver
              /\ todo'.user = todo.user
          BY <1>4, <2>0, <3>1, AnswerAdds
        <4> QED BY <2>2, <2>3, <3>1, <4>1 DEF SourceInv, SourceOK
      <3>2. CASE k \notin 1 .. Len(results)
        BY <1>4, <2>1, <2>2, <3>2, <2>0, AnswerAdds DEF SourceOK
      <3> QED BY <3>1, <3>2
    <2> QED BY <2>4 DEF SourceInv
  <1>5. CASE breakout_call_usermode
    <2>0. PICK i : i = First(todo.user)
      OBVIOUS
    <2>1. i \in Deciders("NS_PL0")
      BY <1>5, <2>0, UserAdds DEF TodoInv
    <2>2. \A level : Deciders(level)' = Deciders(level)
      BY <1>5, <2>0, UserAdds, SameDeciders
    <2>3. ASSUME NEW k \in 1 .. Len(results') PROVE SourceOK(results[k])'
      <3>1. CASE k \in 1 .. Len(results)
        BY <1>5, <2>2, <3>1, <2>0, UserAdds DEF SourceInv, SourceOK
      <3>2. CASE k \notin 1 .. Len(results)
        <4>1. k = Len(results) + 1 /\ Target(i) \in Handled /\ results'[k].row = i
              /\ results'[k].epl = "NS_PL0" /\ todo'.user = todo.user \ {i}
          BY <1>5, <3>2, <2>0, UserAdds
        <4> QED BY <2>1, <2>2, <4>1 DEF SourceOK
      <3> QED BY <3>1, <3>2
    <2>4. pc' = "user"
      BY <1>5, <2>0, UserAdds
    <2> QED BY <2>3, <2>4 DEF SourceInv
  <1> QED BY <1>1, <1>2, <1>3, <1>4, <1>5, StepKinds

LEMMA CoverStep ==
  ASSUME ServiceInv, [Next]_vars
  PROVE  CoverInv'
  <1> USE DEF ServiceInv
  <1>0. TodoInv'
    BY TodoStep
  <1>1. CASE Begins
    BY <1>1 DEF Begins, CoverInv
  <1>2. CASE breakout_sort_ioctls
    <2>1. todo'.driver = Deciders("NS_PL1") /\ todo'.user = Deciders("NS_PL0")
      BY <1>2 DEF breakout_sort_ioctls, Deciders
    <2>2. matches' = matches /\ call' = call
      BY <1>2 DEF breakout_sort_ioctls
    <2> QED BY <2>1, <2>2, SameDeciders DEF CoverInv
  <1>3. CASE Quiet
    BY <1>3, SameDeciders DEF Quiet, CoverInv, HasResult
  <1>4. CASE breakout_call_driver
    <2>0. PICK i, n : i = First(todo.driver) /\ n = Len(results)
      OBVIOUS
    <2>1. \A level : Deciders(level)' = Deciders(level)
      BY <1>4, <2>0, AnswerAdds, SameDeciders
    <2>2. \A j, level : HasResult(j, level) => HasResult(j, level)'
      BY <1>4, <2>0, AnswerAdds DEF HasResult
    <2>3. HasResult(i, "NS_PL1")'
      <3>1. n + 1 \in 1 .. Len(results') /\ n + 1 \notin 1 .. n
        BY <1>4, <2>0, AnswerAdds
      <3>2. results'[n + 1].row = i /\ results'[n + 1].epl = "NS_PL1"
        BY <1>4, <3>1, <2>0, AnswerAdds
      <3> QED BY <3>1, <3>2 DEF HasResult
    <2>4. todo' = [driver |-> todo.driver \ {i}, user |-> todo.user] /\ pc = "answer"
          /\ call' = call
      BY <1>4, <2>0, AnswerAdds DEF breakout_call_driver
    <2> QED BY <2>1, <2>2, <2>3, <2>4 DEF CoverInv, Reading
  <1>5. CASE breakout_call_usermode
    <2>0. PICK i, n : i = First(todo.user) /\ n = Len(results)
      OBVIOUS
    <2>1. \A level : Deciders(level)' = Deciders(level)
      BY <1>5, <2>0, UserAdds, SameDeciders
    <2>2. \A j, level : HasResult(j, level) => HasResult(j, level)'
      BY <1>5, <2>0, UserAdds DEF HasResult
    <2>3. Target(i) \in Handled => HasResult(i, "NS_PL0")'
      <3> SUFFICES ASSUME Target(i) \in Handled PROVE HasResult(i, "NS_PL0")'
        OBVIOUS
      <3>1. n + 1 \in 1 .. Len(results') /\ results'[n + 1].row = i
            /\ results'[n + 1].epl = "NS_PL0"
        BY <1>5, <2>0, UserAdds
      <3> QED BY <3>1 DEF HasResult
    <2>4. todo' = [driver |-> todo.driver, user |-> todo.user \ {i}] /\ pc = "user"
          /\ call' = call
      BY <1>5, <2>0, UserAdds
    <2> QED BY <2>1, <2>2, <2>3, <2>4 DEF CoverInv, Reading
  <1> QED BY <1>1, <1>2, <1>3, <1>4, <1>5, StepKinds

LEMMA UniqueStep ==
  ASSUME ServiceInv, [Next]_vars
  PROVE  UniqueInv'
  <1> USE DEF ServiceInv
  <1>1. CASE Begins
    BY <1>1, EmptySeq DEF Begins, UniqueInv
  <1>2. CASE breakout_sort_ioctls
    BY <1>2, EmptySeq DEF breakout_sort_ioctls, UniqueInv, BreakoutInv, FlowInv
  <1>3. CASE Quiet
    BY <1>3 DEF Quiet, UniqueInv
  <1>4. CASE breakout_call_driver
    <2>0. PICK i, n : i = First(todo.driver) /\ n = Len(results)
      OBVIOUS
    <2>1. /\ n \in Nat /\ MS_MAX_CPUS \in Nat \ {0} /\ Len(results') = n + MS_MAX_CPUS
          /\ i \in todo.driver
      BY <1>4, <2>0, AnswerAdds
    <2>2. \A k \in 1 .. n :
            /\ results'[k] = results[k] /\ results[k].epl = "NS_PL1"
            /\ results[k].row # i
      <3> TAKE k \in 1 .. n
      <3>1. results'[k] = results[k]
        BY <1>4, <2>0, AnswerAdds
      <3>2. results[k].epl = "NS_PL1" /\ SourceOK(results[k])
        BY <1>4, <2>0 DEF SourceInv, breakout_call_driver
      <3> QED BY <2>1, <3>1, <3>2 DEF SourceOK
    <2>3. \A k \in 1 .. Len(results') : k \notin 1 .. n =>
            results'[k].row = i /\ results'[k].epl = "NS_PL1"
      BY <1>4, <2>0, AnswerAdds
    <2>4. \A k, l \in 1 .. n : results[k].row = results[l].row => k - l < MS_MAX_CPUS
      BY <2>0, <2>2 DEF UniqueInv
    <2>5. ASSUME NEW k \in 1 .. Len(results'), NEW l \in 1 .. Len(results')
          PROVE  /\ results'[k].epl = "NS_PL1"
                 /\ results'[k].row = results'[l].row => k - l < MS_MAX_CPUS
      <3>1. CASE k \in 1 .. n /\ l \in 1 .. n
        BY <2>2, <2>4, <3>1
      <3>2. CASE k \in 1 .. n /\ l \notin 1 .. n
        BY <2>2, <2>3, <3>2
      <3>3. CASE k \notin 1 .. n /\ l \in 1 .. n
        BY <2>2, <2>3, <3>3
      <3>4. CASE k \notin 1 .. n /\ l \notin 1 .. n
        <4>1. k - l < MS_MAX_CPUS
          BY <2>1, <3>4
        <4> QED BY <2>3, <3>4, <4>1
      <3> QED BY <3>1, <3>2, <3>3, <3>4
    <2> QED BY <2>5 DEF UniqueInv
  <1>5. CASE breakout_call_usermode
    <2>0. PICK i, n : i = First(todo.user) /\ n = Len(results)
      OBVIOUS
    <2>1. CASE results' = results
      BY <2>1 DEF UniqueInv
    <2>2. CASE results' # results
      <3>1. /\ n \in Nat /\ Len(results') = n + 1 /\ i \in todo.user
            /\ \A k \in 1 .. n : results'[k] = results[k]
            /\ results'[n + 1].row = i /\ results'[n + 1].epl = "NS_PL0"
        BY <1>5, <2>0, <2>2, UserAdds
      <3>2. \A k \in 1 .. n : results[k].epl = "NS_PL0" => results[k].row # i
        BY <2>0, <3>1 DEF SourceInv, SourceOK
      <3>3. \A k \in 1 .. Len(results') : k \in 1 .. n \/ k = n + 1
        BY <3>1
      <3>4. \A k, l \in 1 .. n :
              /\ results[k].row = results[l].row /\ results[k].epl = results[l].epl =>
                    /\ results[k].epl = "NS_PL0" => k = l
                    /\ results[k].epl = "NS_PL1" => k - l < MS_MAX_CPUS
              /\ k < l /\ results[l].epl = "NS_PL1" => results[k].epl = "NS_PL1"
        BY <2>0 DEF UniqueInv
      <3>5. ASSUME NEW k \in 1 .. Len(results'), NEW l \in 1 .. Len(results')
            PROVE  /\ results'[k].row = results'[l].row /\ results'[k].epl = results'[l].epl =>
                        /\ results'[k].epl = "NS_PL0" => k = l
                        /\ results'[k].epl = "NS_PL1" => k - l < MS_MAX_CPUS
                   /\ k < l /\ results'[l].epl = "NS_PL1" => results'[k].epl = "NS_PL1"
        <4>1. CASE k \in 1 .. n /\ l \in 1 .. n
          BY <3>1, <3>4, <4>1
        <4>2. CASE k \in 1 .. n /\ l = n + 1
          BY <3>1, <3>2, <4>2
        <4>3. CASE k = n + 1 /\ l \in 1 .. n
          BY <3>1, <3>2, <4>3
        <4>4. CASE k = n + 1 /\ l = n + 1
          BY <3>1, <4>4
        <4> QED BY <3>3, <4>1, <4>2, <4>3, <4>4
      <3> QED BY <3>5 DEF UniqueInv
    <2> QED BY <2>1, <2>2
  <1> QED BY <1>1, <1>2, <1>3, <1>4, <1>5, StepKinds

\* What a call names is in the GIC, or is not.
LEMMA AllGicOrNone ==
  ASSUME call \in Requests, NEW i \in Indices, NEW j \in Indices, Asked(i), Asked(j),
         Target(i) \in GicTargets
  PROVE  Target(j) \in GicTargets
  <1> DEFINE gic == {k \in Indices : Target(k)[1] # NotGic}
  <1>1. Target(i)[1] # NotGic
    BY DEF GicTargets
  <1>2. Rows[i] \in Row /\ Rows[j] \in Row
    BY RowType
  <1>3. Rows[i].uid # NoUid /\ Rows[j].uid # NoUid
    BY <1>2 DEF Row
  <1>4. /\ Rows[i].name # NoName /\ Rows[i].group # NoGroup
        /\ Rows[j].name # NoName /\ Rows[j].group # NoGroup
    BY RowsAssumption
  <1>5. \A k \in gic, l \in Indices \ gic : Rows[k].name # Rows[l].name /\ Rows[k].group # Rows[l].group
    <2>1. /\ {Rows[m].name : m \in gic} \cap {Rows[m].name : m \in Indices \ gic} = {}
          /\ {Rows[m].group : m \in gic} \cap {Rows[m].group : m \in Indices \ gic} = {}
      BY RowsAssumption
    <2> QED BY <2>1
  <1>6. \/ Rows[i].uid = Rows[j].uid
        \/ Rows[i].group = Rows[j].group
        \/ Rows[i].name = Rows[j].name
    BY <1>3, <1>4, NamedAssumption DEF Asked
  <1>7. Target(j)[1] # NotGic
    <2>1. CASE Rows[i].uid = Rows[j].uid
      <3>1. Target(j)[1] = Target(i)[1]
        BY <2>1 DEF Target
      <3> QED BY <1>1, <3>1
    <2>2. CASE Rows[i].uid # Rows[j].uid
      <3>1. i \in gic
        BY <1>1
      <3> HIDE DEF gic
      <3>2. j \in gic
        BY <1>5, <1>6, <2>2, <3>1
      <3> QED BY <3>2 DEF gic
    <2> QED BY <2>1, <2>2
  <1>8. Target(j) \in Targets
    BY RowType
  <1> QED BY <1>7, <1>8 DEF GicTargets

LEMMA GicStep ==
  ASSUME ServiceInv, [Next]_vars
  PROVE  GicInv'
  <1> USE DEF ServiceInv
  <1>0. call \in Requests /\ matches \subseteq Indices
    BY DEF BreakoutInv, TypeOK, FlowTypeOK, ReadsTypeOK
  <1>a. ASSUME call' = call, NEW i PROVE Asked(i)' = Asked(i)
    BY <1>a DEF Asked
  <1>1. CASE Begins
    BY <1>1, EmptySeq DEF Begins, GicInv, Reading
  <1>3. CASE breakout_sort_ioctls
    <2>1. results' = <<>> /\ call' = call /\ matches' = matches /\ pc = "sort"
          /\ slots' = [c \in CPUs |-> Blank]
      BY <1>3 DEF breakout_sort_ioctls, BreakoutInv, FlowInv, Ready
    <2>2. Blank.midr = NoCpu
      BY DEF Blank
    <2>3. ~call.calc /\ \A i \in matches : Asked(i)
      BY <2>1 DEF BreakoutInv, FlowInv, GicInv
    <2> QED BY <1>a, <2>1, <2>2, <2>3, EmptySeq DEF GicInv
  <1>4. CASE breakout_call_driver
    <2>0. PICK i, n : i = First(todo.driver) /\ n = Len(results)
      OBVIOUS
    <2>1. pc = "answer" /\ pc' = "driver" /\ matches' = matches /\ call' = call /\ n \in Nat
          /\ i \in matches /\ ~call.calc
      BY <1>4, <2>0, AnswerAdds DEF breakout_call_driver, TodoInv, Deciders, BreakoutInv, FlowInv
    <2>2. \A j \in matches : Asked(j)
      BY <2>1 DEF GicInv, Reading
    <2>3. ASSUME NEW j \in matches, Target(j) \in GicTargets
          PROVE  /\ \A c \in CPUs : slots'[c].midr = NoCpu
                 /\ \A k \in 1 .. Len(results') : results'[k].midr = NoCpu
      <3>1. Target(i) \in GicTargets
        BY <1>0, <2>1, <2>2, <2>3, AllGicOrNone
      <3>2. \A c \in CPUs : slots'[c].midr = slots[c].midr
        BY <1>4, <2>0, <2>1, <3>1, DriverResults DEF BreakoutInv
      <3>3. /\ \A c \in CPUs : slots[c].midr = NoCpu
            /\ \A k \in 1 .. n : results[k].midr = NoCpu
        BY <2>0, <2>1, <2>3 DEF GicInv, Reading
      <3>4. \A k \in 1 .. Len(results') : \/ k \in 1 .. n /\ results'[k] = results[k]
                                          \/ \E c \in CPUs : results'[k].midr = slots'[c].midr
        BY <1>4, <2>0, AnswerAdds
      <3> QED BY <3>2, <3>3, <3>4
    <2> QED BY <1>a, <2>1, <2>2, <2>3 DEF GicInv
  <1>5. CASE breakout_call_usermode
    <2>0. PICK i, n : i = First(todo.user) /\ n = Len(results)
      OBVIOUS
    <2>1. /\ pc' = pc /\ matches' = matches /\ call' = call /\ slots' = slots
          /\ \A k \in 1 .. Len(results') : \/ k \in 1 .. Len(results) /\ results'[k] = results[k]
                                           \/ results'[k].midr = NoCpu
      <3>1. CASE results' = results
        BY <1>5, <2>0, <3>1, UserAdds
      <3>2. CASE results' # results
        <4>1. /\ n \in Nat /\ Len(results') = n + 1 /\ results'[n + 1].midr = NoCpu
              /\ \A k \in 1 .. n : results'[k] = results[k]
          BY <1>5, <2>0, <3>2, UserAdds
        <4>2. \A k \in 1 .. Len(results') : k \in 1 .. n \/ k = n + 1
          BY <4>1
        <4> QED BY <1>5, <2>0, <4>1, <4>2, UserAdds
      <3> QED BY <3>1, <3>2
    <2> QED BY <1>a, <2>1 DEF GicInv
  <1>6. CASE Quiet
    <2>1. CASE call.calc
      <3>1. call'.calc /\ results' = <<>> /\ slots' = [c \in CPUs |-> Blank]
        BY <1>6, <2>1, FlowStep DEF Quiet, FlowInv, Ready
      <3>2. Blank.midr = NoCpu
        BY DEF Blank
      <3> QED BY <3>1, <3>2, EmptySeq DEF GicInv
    <2>2. CASE ~call.calc
      BY <1>6, <1>a, <2>2 DEF Quiet, GicInv
    <2> QED BY <2>1, <2>2
  <1> QED BY <1>1, <1>3, <1>4, <1>5, <1>6, StepKinds

LEMMA SameRemainder ==
  ASSUME NEW a \in Nat, NEW b \in Nat, NEW N \in Nat, N > 0,
         a - b < N, b - a < N, a % N = b % N
  PROVE  a = b
  <1> DEFINE p == a \div N
             q == b \div N
             r == a % N
  <1>1. a = N * p + r /\ b = N * q + r /\ p \in Int /\ q \in Int /\ r \in Nat
    BY DivMod
  <1> HIDE DEF p, q, r
  <1>2. N * (p - q) = a - b
    BY <1>1
  <1>3. CASE p - q >= 1
    <2>1. N * (p - q) >= N
      BY <1>1, <1>3
    <2> QED BY <1>2, <2>1
  <1>4. CASE p - q <= -1
    <2>1. N * (p - q) <= -N
      BY <1>1, <1>4
    <2> QED BY <1>2, <2>1
  <1>5. CASE p = q
    BY <1>1, <1>5
  <1> QED BY <1>1, <1>3, <1>4, <1>5

\* A register is read successfully once on a CPU at a level.
LEMMA SameAnswer ==
  ASSUME ServiceInv, NEW k \in 1 .. Len(results), NEW l \in 1 .. Len(results),
         Rows[results[k].row].reg = Rows[results[l].row].reg,
         results[k].epl = results[l].epl
  PROVE  /\ results[k].row = results[l].row
         /\ results[k].epl = "NS_PL0" => k = l
         /\ k - l < MS_MAX_CPUS
         /\ /\ results[k].cpu = results[l].cpu
            /\ results[k].status = "SUCCESS" /\ results[l].status = "SUCCESS"
            => k = l
  <1> USE DEF ServiceInv
  <1>1. /\ k \in Nat /\ l \in Nat /\ k >= 1 /\ l >= 1
        /\ MS_MAX_CPUS \in Nat /\ MS_MAX_CPUS > 0
    BY LenProperties, ReadsAssumption DEF BreakoutInv, TypeOK, ReadsTypeOK
  <1>2. results[k].epl \in Levels
    <2>1. results[k] \in ioctl_result
      BY ElementOfSeq DEF BreakoutInv, TypeOK, ReadsTypeOK
    <2> QED BY <2>1 DEF ioctl_result
  <1>3. results[k].row = results[l].row
    BY DeciderUnique DEF SourceInv, SourceOK
  <1>4. /\ results[k].epl = "NS_PL0" => k = l
        /\ results[k].epl = "NS_PL1" => k - l < MS_MAX_CPUS /\ l - k < MS_MAX_CPUS
    BY <1>3 DEF UniqueInv
  <1>5. CASE results[k].epl = "NS_PL0"
    BY <1>1, <1>3, <1>4, <1>5
  <1>6. CASE results[k].epl = "NS_PL1"
    <2>1. ASSUME results[k].cpu = results[l].cpu,
                 results[k].status = "SUCCESS", results[l].status = "SUCCESS"
          PROVE  k = l
      <3>1. results[k].cpu = (k - 1) % MS_MAX_CPUS /\ results[l].cpu = (l - 1) % MS_MAX_CPUS
        BY <1>6, <2>1 DEF BreakoutInv, ResultsInv, ResultOK, Valid
      <3>2. k - 1 \in Nat /\ l - 1 \in Nat /\ (k - 1) - (l - 1) < MS_MAX_CPUS
            /\ (l - 1) - (k - 1) < MS_MAX_CPUS
        <4>1. k - l < MS_MAX_CPUS /\ l - k < MS_MAX_CPUS
          BY <1>4, <1>6
        <4>2. \A a, b, N \in Nat : a >= 1 /\ b >= 1 /\ a - b < N /\ b - a < N =>
                /\ a - 1 \in Nat /\ b - 1 \in Nat
                /\ (a - 1) - (b - 1) < N /\ (b - 1) - (a - 1) < N
          OBVIOUS
        <4> QED BY <1>1, <4>1, <4>2
      <3>3. k - 1 = l - 1
        BY <1>1, <2>1, <3>1, <3>2, SameRemainder
      <3> QED BY <1>1, <3>3
    <2> QED BY <1>3, <1>4, <1>6, <2>1
  <1> QED BY <1>2, <1>5, <1>6 DEF Levels

LEMMA StaysListed ==
  ASSUME UNCHANGED <<board, call, matches, results>>, list \subseteq list', NEW k,
         InList(results[k], k)
  PROVE  InList(results[k], k)'
  BY DEF InList, Kept, Fits, Element, Slice, ValueBits

\* What is parsed is put into the list, or was there.
LEMMA ParsedIsListed ==
  ASSUME ServiceInv, ~call.calc, next \in 1 .. Len(results),
         NEW r, r = results[next], NEW l, l = breakout_filter_results(r, next)
  PROVE  /\ list \subseteq l
         /\ IF ~call.noparse THEN \A i \in Kept(r) : Element(i, r, next) \in l
            ELSE Kept(r) # {} =>
                   \E e \in l : /\ Rows[e.row].reg = Rows[r.row].reg
                                /\ e.cpu = r.cpu /\ e.status = r.status
                                /\ r.epl = "NS_PL1" /\ r.status = "SUCCESS" => e.from = next
  <1> USE DEF ServiceInv
  <1>1. CASE ~call.noparse
    BY <1>1 DEF breakout_filter_results
  <1>2. CASE call.noparse /\ Kept(r) = {}
    BY <1>2 DEF breakout_filter_results
  <1>3. CASE call.noparse /\ Kept(r) # {} /\ Listed(r)
    <2>1. l = list
      BY <1>3 DEF breakout_filter_results
    <2>2. PICK e \in list : Rows[e.row].reg = Rows[r.row].reg /\ e.cpu = r.cpu
                            /\ e.status = r.status
      BY <1>3 DEF Listed
    <2>3. ~(r.epl = "NS_PL1" /\ r.status = "SUCCESS")
      <3> SUFFICES ASSUME r.epl = "NS_PL1", r.status = "SUCCESS" PROVE FALSE
        OBVIOUS
      <3> DEFINE k == e.from
      <3>1. /\ k \in 1 .. Len(results) /\ k < next
            /\ results[k].cpu = r.cpu /\ results[k].status = "SUCCESS"
            /\ e.row \in Kept(results[k])
        BY <2>2, ListedResult DEF BreakoutInv, ElementsInv
      <3>2. Rows[results[k].row].reg = Rows[r.row].reg
        BY <2>2, <3>1 DEF Kept
      <3> HIDE DEF k
      <3>3. results[k].epl = "NS_PL1"
        BY <3>1 DEF UniqueInv
      <3>4. k = next
        BY <3>1, <3>2, <3>3, SameAnswer
      <3>5. next \in Nat
        BY DEF BreakoutInv, TypeOK, ListTypeOK
      <3> QED BY <3>1, <3>4, <3>5
    <2> QED BY <1>3, <2>1, <2>2, <2>3
  <1>4. CASE call.noparse /\ Kept(r) # {} /\ ~Listed(r)
    <2> DEFINE i == First(Kept(r))
               e == Element(i, r, next)
    <2>1. l = list \cup {e}
      BY <1>4 DEF breakout_filter_results
    <2>2. Kept(r) \subseteq Indices
      BY DEF Kept, BreakoutInv, TypeOK, ReadsTypeOK
    <2>3. i \in Kept(r)
      BY <1>4, <2>2, FirstRow
    <2>4. Rows[i].reg = Rows[r.row].reg
      BY <2>3 DEF Kept
    <2>5. e.row = i /\ e.cpu = r.cpu /\ e.status = r.status /\ e.from = next
      BY DEF Element
    <2> HIDE DEF i, e
    <2> QED BY <1>4, <2>1, <2>4, <2>5
  <1> QED BY <1>1, <1>2, <1>3, <1>4

LEMMA ListedStep ==
  ASSUME ServiceInv, [Next]_vars
  PROVE  ListedInv'
  <1> USE DEF ServiceInv, BreakoutInv, FlowInv
  <1>0. \A k \in 1 .. Len(results) : ~(k < 1)
    BY LenProperties DEF TypeOK, ReadsTypeOK
  <1>1. CASE results' = <<>> /\ next' = 1
    BY <1>1, EmptySeq DEF ListedInv
  <1>2. CASE next' = 1 /\ pc' \notin {"flatten", "idle", "crashed"} /\ results' \in Seq(ioctl_result)
    <2>1. \A k \in 1 .. Len(results') : ~(k < next')
      BY <1>2, LenProperties
    <2> QED BY <1>2, <2>1 DEF ListedInv
  <1>3. CASE /\ UNCHANGED <<board, call, matches, results, next>> /\ list' = list
             /\ pc' = pc \/ (pc' = "idle" /\ pc = "flatten")
                         \/ (pc' = "flatten" /\ next > Len(results))
                         \/ (pc' = "crashed" /\ results = <<>>)
                         \/ pc' \notin {"flatten", "idle", "crashed"}
    BY <1>3, StaysListed DEF ListedInv
  <1>4. CASE Find
    BY <1>1, <1>4 DEF Find
  <1>5. CASE set_match_info \/ set_match_info_unknown \/ breakout_search_table
    BY <1>1, <1>5 DEF set_match_info, set_match_info_unknown, breakout_search_table, Return, reads
  <1>6. CASE breakout_sort_ioctls \/ driver_results \/ driver_done \/ breakout_call_usermode
             \/ breakout_call_driver \/ (user_done /\ next = 1)
    <2>1. next' = 1 /\ pc' \notin {"flatten", "idle", "crashed"}
      BY <1>6 DEF breakout_sort_ioctls, driver_results, driver_done, breakout_call_usermode,
                  breakout_call_driver, user_done
    <2>2. results' \in Seq(ioctl_result)
      BY ReadsTypeStep DEF ReadsTypeOK
    <2> QED BY <1>2, <2>1, <2>2
  <1>7. CASE user_done
    BY <1>6, <1>7 DEF user_done
  <1>8. CASE breakout_parse_results
    <2>0. /\ UNCHANGED <<board, call, matches, results>> /\ pc' = "parse" /\ ~call.calc
          /\ next \in 1 .. Len(results) /\ next' = next + 1
      BY <1>8 DEF breakout_parse_results, reads, TypeOK, ListTypeOK
    <2>1. PICK r, l : r = results[next] /\ l = list' /\ l = breakout_filter_results(r, next)
      BY <1>8 DEF breakout_parse_results
    <2>2. /\ list \subseteq l
          /\ IF ~call.noparse THEN \A i \in Kept(r) : Element(i, r, next) \in l
             ELSE Kept(r) # {} =>
                    \E e \in l : /\ Rows[e.row].reg = Rows[r.row].reg
                                 /\ e.cpu = r.cpu /\ e.status = r.status
                                 /\ r.epl = "NS_PL1" /\ r.status = "SUCCESS" => e.from = next
      BY <2>0, <2>1, ParsedIsListed
    <2>3. ASSUME NEW k \in 1 .. Len(results), k < next + 1 PROVE InList(results[k], k)'
      <3>1. CASE k < next
        BY <2>0, <2>1, <2>2, <3>1, StaysListed DEF ListedInv
      <3>2. CASE k = next
        <4>1. results'[k] = r /\ list' = l
          BY <2>0, <2>1, <3>2
        <4>2. Kept(results[k])' = Kept(r)
          BY <2>0, <4>1 DEF Kept, Fits
        <4>3. ASSUME NEW i PROVE Element(i, results[k], k)' = Element(i, r, next)
          BY <2>0, <4>1, <3>2 DEF Element, Slice, ValueBits
        <4> QED BY <2>0, <2>2, <3>2, <4>1, <4>2, <4>3 DEF InList
      <3>3. next \in Nat /\ k \in Nat
        BY LenProperties DEF TypeOK, ListTypeOK, ReadsTypeOK
      <3> QED BY <2>3, <3>1, <3>2, <3>3
    <2> QED BY <2>0, <2>3 DEF ListedInv
  <1>9. CASE parse_done \/ free_uninitialised
    BY <1>3, <1>9 DEF parse_done, free_uninitialised, reads
  <1>10. CASE breakout_parse_results_value \/ breakout_value_validate_fails
    BY <1>1, <1>10 DEF breakout_parse_results_value, breakout_value_validate_fails, Return, reads
  <1>11. CASE flatten_results
    BY <1>3, <1>11 DEF flatten_results, Return
  <1>12. CASE UNCHANGED vars
    BY <1>3, <1>12 DEF vars, reads
  <1> QED BY <1>4, <1>5, <1>6, <1>7, <1>8, <1>9, <1>10, <1>11, <1>12 DEF Next, Library

THEOREM ServiceInvariant == Spec => []ServiceInv
  <1>1. Init => ServiceInv
    <2> SUFFICES ASSUME Init PROVE ServiceInv
      OBVIOUS
    <2>1. results = <<>> /\ Len(results) = 0 /\ next = 1 /\ pc = "idle" /\ matches = {}
          /\ todo = [driver |-> {}, user |-> {}]
      BY EmptySeq DEF Init
    <2>2. BreakoutInv
      BY BreakoutInit
    <2> QED BY <2>1, <2>2 DEF ServiceInv, TodoInv, SourceInv, CoverInv, UniqueInv, GicInv,
                              ListedInv, Reading
  <1>2. ServiceInv /\ [Next]_vars => ServiceInv'
    <2> SUFFICES ASSUME ServiceInv, [Next]_vars PROVE ServiceInv'
      OBVIOUS
    <2>1. BreakoutInv /\ [Next]_vars => BreakoutInv'
      <3>1. BreakoutInv /\ [Next]_vars => FlowTypeOK'
        BY FlowTypeStep DEF BreakoutInv, TypeOK
      <3> QED BY <3>1, ReadsTypeStep, ListTypeStep, FlowStep, CalcStep, SlotsStep, ResultsStep,
                 ElementsStep DEF BreakoutInv, TypeOK
    <2> QED BY <2>1, TodoStep, SourceStep, CoverStep, UniqueStep, GicStep, ListedStep
            DEF ServiceInv
  <1> QED BY <1>1, <1>2, PTL DEF Spec

-----------------------------------------------------------------------------
(***************************************************************************)
(* What follows from it.                                                   *)
(***************************************************************************)
LEMMA CalcReadsNothing ==
  ASSUME ServiceInv, call.calc
  PROVE  Len(results) = 0
  BY EmptySeq DEF ServiceInv, BreakoutInv, FlowInv

\* However many fields of a register are asked for, it is read once at each
\* level (breakout_sort_ioctls).
THEOREM RegistersAreReadOnce == Spec => []OnceEach
  <1>1. ServiceInv => OnceEach
    BY SameAnswer DEF OnceEach
  <1> QED BY <1>1, ServiceInvariant, PTL

\* No field of a CPU is listed twice with a value for a level
\* (breakout_filter_results).
THEOREM NothingIsListedTwice == Spec => []NoTwice
  <1>1. ServiceInv => NoTwice
    <2> SUFFICES ASSUME ServiceInv, NEW e \in list, NEW f \in list,
                        e.row = f.row, e.cpu = f.cpu, e.epl = f.epl,
                        e.status = "SUCCESS", f.status = "SUCCESS"
                 PROVE  e = f
      BY DEF NoTwice
    <2>1. CASE call.calc
      BY <2>1 DEF ServiceInv, BreakoutInv, CalcInv
    <2>2. CASE ~call.calc
      <3> DEFINE k == e.from
                 l == f.from
      <3>1. /\ k \in 1 .. Len(results) /\ l \in 1 .. Len(results)
            /\ e.row \in Kept(results[k]) /\ f.row \in Kept(results[l])
            /\ e = Element(e.row, results[k], k) /\ f = Element(f.row, results[l], l)
            /\ e.cpu = results[k].cpu /\ f.cpu = results[l].cpu
            /\ e.status = results[k].status /\ f.status = results[l].status
            /\ e.epl = results[k].epl /\ f.epl = results[l].epl
        BY <2>2, ListedResult DEF ServiceInv
      <3> HIDE DEF k, l
      <3>2. Rows[results[k].row].reg = Rows[results[l].row].reg
        BY <3>1 DEF Kept
      <3>3. k = l
        BY <3>1, <3>2, SameAnswer
      <3> QED BY <3>1, <3>3
    <2> QED BY <2>1, <2>2
  <1> QED BY <1>1, ServiceInvariant, PTL

\* A requested row is read at the levels it names, unless an earlier row of
\* its register named others (breakout_sort_ioctls).
THEOREM RegistersAreReadWhereSaid == Spec => []ReadWhereSaid
  <1>1. ServiceInv => ReadWhereSaid
    <2> SUFFICES ASSUME ServiceInv, pc = "flatten", ~call.calc, NEW i \in matches,
                        \A j \in {j \in matches : Rows[j].reg = Rows[i].reg /\ ReadAt(j) # {}} :
                           ReadAt(j) = ReadAt(i)
                 PROVE  {results[k].epl :
                           k \in {n \in 1 .. Len(results) :
                                    Rows[results[n].row].reg = Rows[i].reg}}
                          = ReadAt(i) \ (IF Target(i) \in Handled THEN {} ELSE {"NS_PL0"})
      BY DEF ReadWhereSaid
    <2>1. matches \subseteq Indices /\ todo.driver = {} /\ todo.user = {}
      BY DEF ServiceInv, BreakoutInv, TypeOK, ReadsTypeOK, TodoInv
    <2>2. ASSUME NEW n \in 1 .. Len(results), Rows[results[n].row].reg = Rows[i].reg
          PROVE  /\ results[n].epl \in ReadAt(i)
                 /\ results[n].epl = "NS_PL0" => Target(i) \in Handled
      <3>1. results[n].row \in Deciders(results[n].epl) /\ SourceOK(results[n])
        BY DEF ServiceInv, SourceInv, SourceOK
      <3>2. results[n].row \in matches /\ results[n].epl \in ReadAt(results[n].row)
        BY <3>1 DEF Deciders
      <3>3. ReadAt(results[n].row) = ReadAt(i)
        BY <2>2, <3>2
      <3>4. Target(results[n].row) = Target(i)
        BY <2>1, <2>2, <3>2, SameTarget
      <3> QED BY <3>1, <3>2, <3>3, <3>4 DEF SourceOK
    <2>3. ASSUME NEW level \in ReadAt(i), level = "NS_PL0" => Target(i) \in Handled
          PROVE  \E n \in 1 .. Len(results) :
                    Rows[results[n].row].reg = Rows[i].reg /\ results[n].epl = level
      <3>1. PICK d \in matches : Decides(d) /\ Rows[d].reg = Rows[i].reg
        BY FirstDecides DEF ServiceInv
      <3>2. ReadAt(d) = ReadAt(i) /\ Target(d) = Target(i)
        BY <2>1, <3>1, SameTarget DEF Decides
      <3>3. d \in Deciders(level)
        BY <3>1, <3>2 DEF Deciders
      <3>4. level \in {"NS_PL0", "NS_PL1"}
        BY DeciderLevel DEF Levels
      <3>5. HasResult(d, level)
        BY <2>1, <2>3, <3>2, <3>3, <3>4 DEF ServiceInv, CoverInv, Reading
      <3> QED BY <3>1, <3>5 DEF HasResult
    <2>4. ASSUME NEW level
          PROVE  level \in {results[k].epl :
                               k \in {n \in 1 .. Len(results) :
                                        Rows[results[n].row].reg = Rows[i].reg}}
                 <=> level \in ReadAt(i) \ (IF Target(i) \in Handled THEN {} ELSE {"NS_PL0"})
      BY <2>2, <2>3
    <2> QED BY <2>4
  <1> QED BY <1>1, ServiceInvariant, PTL

\* The garbage lists are followed only when no row that decides can be read
\* (breakout_parse_results).
THEOREM OnlyUnreadCrashes == Spec => []CrashOnlyUnread
  <1>1. ServiceInv => CrashOnlyUnread
    <2> SUFFICES ASSUME ServiceInv, pc = "crashed", NEW i \in matches, Decides(i)
                 PROVE  ReadAt(i) = {"NS_PL0"} /\ Target(i) \notin Handled
      BY DEF CrashOnlyUnread
    <2>1. /\ results = <<>> /\ ~call.calc /\ todo.driver = {} /\ todo.user = {}
          /\ Len(results) = 0
      BY EmptySeq DEF ServiceInv, ListedInv, BreakoutInv, FlowInv, TodoInv
    <2>2. \A level : ~HasResult(i, level)
      BY <2>1 DEF HasResult
    <2>3. i \notin Deciders("NS_PL1") /\ (i \in Deciders("NS_PL0") => Target(i) \notin Handled)
      BY <2>1, <2>2 DEF ServiceInv, CoverInv, Reading
    <2>4. ReadAt(i) \subseteq {"NS_PL0", "NS_PL1"} /\ ReadAt(i) # {}
      BY DeciderLevel DEF Decides, Levels
    <2> QED BY <2>3, <2>4 DEF Deciders
  <1> QED BY <1>1, ServiceInvariant, PTL

\* A row of the tables that describe CPU c is kept for an answer of c.
LEMMA TablesFit ==
  ASSUME NEW i, NEW c, Rows[i].uid.part \in TablesOf(c)
  PROVE  Fits(i, c)
  <1>1. Part[board][c] \in Cortexes
    BY DEF TablesOf
  <1>2. /\ get_impl_from_midr(Part[board][c]) = Part[board][c]
        /\ get_arch_from_midr(Part[board][c]) = get_arch_from_impl(Part[board][c])
    BY <1>1 DEF get_impl_from_midr, get_arch_from_midr
  <1> QED BY <1>1, <1>2 DEF Fits, TablesOf

\* Nothing that was read and asked for is lost on the way into the list
\* (breakout_filter_results, breakout_add_noparse).
THEOREM NothingIsLost == Spec => []Complete
  <1>1. ServiceInv => Complete
    <2> SUFFICES ASSUME ServiceInv, pc = "idle", NEW k \in 1 .. Len(results), NEW i \in matches,
                        results[k].status = "SUCCESS",
                        Rows[i].reg = Rows[results[k].row].reg,
                        \/ results[k].epl = "NS_PL0" \/ Target(i) \in GicTargets
                        \/ Rows[i].uid.part \in TablesOf(results[k].cpu)
                 PROVE  \E e \in list :
                           /\ Rows[e.row].reg = Rows[i].reg /\ e.cpu = results[k].cpu
                           /\ e.status = "SUCCESS"
                           /\ \/ /\ e.epl = results[k].epl
                                 /\ e.value = Element(e.row, results[k], k).value
                              \/ call.noparse /\ results[k].epl = "NS_PL0"
                           /\ call.noparse \/ e.row = i
      BY DEF Complete
    <2>1. ~call.calc
      BY CalcReadsNothing
    <2>2. PICK r : r = results[k]
      OBVIOUS
    <2>3. r \in ioctl_result /\ r.epl \in {"NS_PL0", "NS_PL1"}
      <3>1. r \in ioctl_result
        BY <2>2, ElementOfSeq DEF ServiceInv, BreakoutInv, TypeOK, ReadsTypeOK
      <3> QED BY <3>1 DEF ioctl_result, Levels
    <2>4. Fits(i, r.midr)
      <3>1. CASE Target(i) \in GicTargets
        BY <2>2, <3>1 DEF ServiceInv, GicInv, Fits
      <3>2. CASE r.epl = "NS_PL0"
        BY <2>2, <3>2 DEF ServiceInv, BreakoutInv, ResultsInv, ResultOK, Fits
      <3>3. CASE r.epl = "NS_PL1" /\ Target(i) \notin GicTargets
        <4>1. Target(r.row) \notin GicTargets
          <5>1. i \in Indices /\ r.row \in Indices
            BY <2>3 DEF ServiceInv, BreakoutInv, TypeOK, ReadsTypeOK, ioctl_result
          <5> QED BY <2>2, <3>3, <5>1, SameTarget
        <4>2. r.midr = r.cpu
          BY <2>2, <3>3, <4>1 DEF ServiceInv, BreakoutInv, ResultsInv, ResultOK, Valid
        <4>3. Fits(i, r.cpu)
          BY <2>2, <3>3, TablesFit
        <4> QED BY <4>2, <4>3
      <3> QED BY <2>3, <3>1, <3>2, <3>3
    <2>5. i \in Kept(r) /\ InList(r, k)
      <3>1. k < next
        <4>1. k \in Nat /\ Len(results) \in Nat /\ next \in Nat /\ next > Len(results)
          BY LenProperties
          DEF ServiceInv, BreakoutInv, TypeOK, ReadsTypeOK, ListTypeOK, ListedInv
        <4> QED BY <4>1
      <3> QED BY <2>1, <2>2, <2>4, <3>1 DEF Kept, ServiceInv, ListedInv
    <2>6. CASE ~call.noparse
      <3>1. Element(i, r, k) \in list
        BY <2>5, <2>6 DEF InList
      <3>2. /\ Element(i, r, k).row = i /\ Element(i, r, k).cpu = r.cpu
            /\ Element(i, r, k).status = r.status /\ Element(i, r, k).epl = r.epl
        BY DEF Element
      <3> QED BY <2>2, <3>1, <3>2
    <2>7. CASE call.noparse
      <3>1. PICK e \in list : /\ Rows[e.row].reg = Rows[r.row].reg
                              /\ e.cpu = r.cpu /\ e.status = r.status
                              /\ r.epl = "NS_PL1" /\ r.status = "SUCCESS" => e.from = k
        BY <2>5, <2>7 DEF InList
      <3>2. r.epl = "NS_PL1" => e.epl = r.epl /\ e.value = Element(e.row, r, k).value
        BY <2>1, <2>2, <3>1, ListedResult DEF ServiceInv
      <3> QED BY <2>2, <2>3, <2>7, <3>1, <3>2
    <2> QED BY <2>6, <2>7
  <1> QED BY <1>1, ServiceInvariant, PTL

-----------------------------------------------------------------------------
(***************************************************************************)
(* The reads of a call as the steps of the service's client.               *)
(***************************************************************************)
\* What the service sees of the library.
Phase == IF pc = "idle" \/ call.calc THEN "closed"
         ELSE IF pc = "answer" THEN "busy" ELSE "idle"

LEMMA ServiceCpus == Svc!CPUs = CPUs
  BY DEF Svc!CPUs, CPUs

\* Steps that keep the phase, the request and the slots.
LEMMA UnseenStep ==
  ASSUME ask' = ask, slots' = slots, Phase' = Phase
  PROVE  UNCHANGED Svc!svars
  BY DEF Svc!svars, Phase

\* The call ends: the device is closed if it was opened.
LEMMA ReturnIsClose ==
  ASSUME BreakoutInv, NEW r, Return(r), call' = call,
         pc \in {"match", "value", "flatten"}
  PROVE  [Svc!Next]_(Svc!svars)
  <1>1. ask' = NoRequest /\ slots' = [c \in CPUs |-> Blank] /\ pc' = "idle"
    BY DEF Return
  <1>2. CASE call.calc
    <2>1. ask' = ask /\ slots' = slots
      BY <1>1, <1>2 DEF BreakoutInv, FlowInv, Ready
    <2>2. Phase' = Phase
      BY <1>2 DEF Phase
    <2> QED BY <2>1, <2>2, UnseenStep
  <1>3. CASE ~call.calc
    <2>1. Svc!Close(Me)
      BY <1>1, <1>3 DEF Svc!Close, ServiceCpus, Svc!CPUs, CPUs, Svc!Blank, Blank
    <2> QED BY <2>1 DEF Svc!Next
  <1> QED BY <1>2, <1>3

LEMMA ServiceStep ==
  ASSUME ServiceInv, [Next]_vars
  PROVE  [Svc!Next]_(Svc!svars)
  <1> USE DEF ServiceInv, BreakoutInv
  <1>1. CASE Find
    <2>1. ask' = NoRequest /\ slots' = [c \in CPUs |-> Blank] /\ ask' = ask /\ slots' = slots
          /\ pc = "idle" /\ pc' = "match"
      BY <1>1 DEF Find, FlowInv, Ready
    <2>2. CASE call'.calc
      <3>1. Phase' = Phase
        BY <2>1, <2>2 DEF Phase
      <3> QED BY <2>1, <3>1, UnseenStep
    <2>3. CASE ~call'.calc
      <3>1. Svc!Open(Me)
        BY <2>1, <2>3 DEF Svc!Open
      <3> QED BY <3>1 DEF Svc!Next
    <2> QED BY <2>2, <2>3
  <1>2. CASE set_match_info_unknown \/ breakout_value_validate_fails \/ flatten_results
    <2>1. PICK r : Return(r) /\ call' = call /\ pc \in {"match", "value", "flatten"}
      BY <1>2 DEF set_match_info_unknown, breakout_value_validate_fails, flatten_results
    <2> QED BY <2>1, ReturnIsClose
  <1>3. CASE set_match_info \/ breakout_search_table \/ breakout_sort_ioctls \/ driver_done
             \/ breakout_call_usermode \/ user_done \/ breakout_parse_results
             \/ parse_done \/ free_uninitialised \/ breakout_parse_results_value
             \/ UNCHANGED vars
    <2>1. ask' = ask /\ slots' = slots /\ call' = call
          /\ (pc' = pc \/ {pc, pc'} \cap {"idle", "answer"} = {})
      BY <1>3 DEF set_match_info, breakout_search_table, breakout_sort_ioctls, driver_done,
           breakout_call_usermode, user_done, breakout_parse_results, parse_done,
           free_uninitialised, breakout_parse_results_value, vars, reads
    <2>2. Phase' = Phase
      BY <2>1 DEF Phase
    <2> QED BY <2>1, <2>2, UnseenStep
  <1>4. CASE driver_results
    <2>0. PICK i : i = First(todo.driver)
      OBVIOUS
    <2>1. /\ ~call.calc /\ call' = call /\ pc = "driver" /\ pc' = "answer"
          /\ ask' = [target |-> Target(i), pcpu |-> call.cpu]
          /\ slots' = [c \in CPUs |-> [slots[c] EXCEPT !.status = "NORESULT"]]
      BY <1>4, <2>0 DEF driver_results, FlowInv
    <2>2. i \in Indices
      BY <1>4, <2>0, FirstRow DEF driver_results, TypeOK, ReadsTypeOK
    <2>3. ask' \in Svc!Request
      <3>1. Target(i) \in Handled \cup (Targets \ (Handled \cup GicTargets)) \cup GicTargets
        BY <2>2, RowType
      <3>2. call.cpu \in PCpus
        BY CallType DEF TypeOK, FlowTypeOK
      <3> QED BY <2>1, <3>1, <3>2 DEF Svc!Request
    <2>4. Svc!Ask(Me)
      BY <2>1, <2>3 DEF Svc!Ask, Svc!CPUs, CPUs
    <2> QED BY <2>4 DEF Svc!Next
  <1>5. CASE breakout_call_driver
    <2>1. /\ ~call.calc /\ call' = call /\ pc = "answer" /\ pc' = "driver"
          /\ ask' = ask /\ slots' \in Answers
      BY <1>5 DEF breakout_call_driver, FlowInv
    <2>2. /\ slots' = [c \in CPUs |-> slots'[c]]
          /\ \A c \in CPUs : slots'[c] \in Svc!Slot(ask, c, slots[c])
      BY <2>1 DEF Answers
    <2>3. Svc!Answer(Me)
      BY <2>1, <2>2 DEF Svc!Answer, Svc!CPUs, CPUs
    <2> QED BY <2>3 DEF Svc!Next
  <1> QED BY <1>1, <1>2, <1>3, <1>4, <1>5 DEF Next, Library

\* The library uses the driver as its service says: a request at a time, on an
\* open device, with the statuses preset (breakout_call_driver).
THEOREM LibraryUsesTheService == Spec => RegisterServiceSpec
  <1>1. Init => Svc!Init
    BY DEF Init, Svc!Init, Svc!CPUs, CPUs, Svc!Blank, Blank
  <1>2. ServiceInv /\ [Next]_vars => [Svc!Next]_(Svc!svars)
    BY ServiceStep
  <1> QED BY <1>1, <1>2, ServiceInvariant, PTL
          DEF Spec, RegisterServiceSpec, Svc!Spec
=============================================================================
