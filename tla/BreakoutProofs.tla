--------------------------- MODULE BreakoutProofs ---------------------------
(***************************************************************************)
(* Theorems about Breakout, for any tables, boards, requests and CPUs:     *)
(* that its variables keep their types, and that what it lists is true.    *)
(***************************************************************************)
EXTENDS Breakout, SequenceTheorems, FiniteSetTheorems, WellFoundedInduction, TLAPS

Ready == ask = NoRequest /\ slots = [c \in CPUs |-> Blank]
NothingToDo == todo = [driver |-> {}, user |-> {}]

\* Where a call with a value differs from one without, and what is empty when.
FlowInv ==
    /\ pc \in {"sort", "driver", "answer", "user", "parse", "crashed"} => ~call.calc
    /\ pc = "value" => call.calc
    /\ pc \in {"match", "search", "sort", "driver", "answer", "user", "value"} =>
          list = {} /\ next = 1
    /\ pc \in {"match", "search", "sort"} \/ call.calc => results = <<>>
    /\ pc \in {"idle", "match", "search", "sort"} \/ call.calc => NothingToDo /\ Ready
    /\ pc = "answer" => todo.driver # {}

\* The value that a call supplies.
CalcElement(i) ==
    [row |-> i, cpu |-> 0, midr |-> NoCpu, status |-> "SUCCESS", epl |-> "none",
     from |-> 0, value |-> IF call.noparse THEN info.value ELSE Slice(i, info.value)]
Supplied == info.value = call.value \/ (errno = "ERANGE" /\ info.value = Bits)
CalcInv ==
    /\ call.calc /\ pc \in {"search", "value", "flatten"} =>
          Supplied
    /\ call.calc => \A e \in list :
          /\ e = CalcElement(e.row)
          /\ Supplied

\* The slot of CPU c: filled by c, or by nobody yet.
Owned(s, c) == (s.cpu = c /\ s.midr \in {c, NoCpu}) \/ (s.cpu = 0 /\ s.midr = NoCpu)
Valid(s, t, c) ==
    s.status = "SUCCESS" =>
        s.cpu = c /\ s.val = <<t, c>> /\ (s.midr = c \/ t \in GicTargets)
SlotsInv ==
    /\ \A c \in CPUs : Owned(slots[c], c)
    /\ pc = "answer" =>
          /\ ask = [target |-> Target(First(todo.driver)), pcpu |-> call.cpu]
          /\ \A c \in CPUs : slots[c].status = "NORESULT"

\* The result k is of a slot of the driver's, or of a read in user mode.
ResultOK(r, k) ==
    /\ r.epl = "NS_PL1" =>
          LET c == (k - 1) % MS_MAX_CPUS IN Owned(r, c) /\ Valid(r, Target(r.row), c)
    /\ r.epl = "NS_PL0" =>
          /\ r.cpu = 0 /\ r.midr = NoCpu
          /\ r.status = "SUCCESS" => \E c \in CPUs : r.val = <<Target(r.row), c>>
ResultsInv ==
    /\ pc \in {"driver", "answer"} => Len(results) % MS_MAX_CPUS = 0
    /\ \A k \in 1 .. Len(results) : ResultOK(results[k], k)

\* What is listed is of a result that has been parsed.
ElementsInv ==
    ~call.calc => \A e \in list :
        /\ e.from \in 1 .. Len(results) /\ e.from < next
        /\ e.row \in Kept(results[e.from])
        /\ e = Element(e.row, results[e.from], e.from)

BreakoutInv == TypeOK /\ FlowInv /\ CalcInv /\ SlotsInv /\ ResultsInv /\ ElementsInv

-----------------------------------------------------------------------------
(***************************************************************************)
(* Arithmetic, and the constants.                                          *)
(***************************************************************************)
\* breakout_search_table and the lists walk the rows in order: the first of
\* a set of rows is its least.
LEMMA FirstProperties ==
  ASSUME NEW S \in SUBSET Nat, S # {}
  PROVE  First(S) \in S /\ \A j \in S : First(S) <= j
  <1> DEFINE R == OpToRel(<, Nat)
  <1>1. IsWellFoundedOn(R, Nat)
    BY NatLessThanWellFounded
  <1>2. PICK x \in S : \A y \in S : ~ (<<y, x>> \in R)
    <2> HIDE DEF R
    <2> QED BY <1>1, WFMin, Zenon
  <1>3. \A y \in S : ~ (y < x)
    BY <1>2 DEF OpToRel
  <1>4. \A y \in S : x <= y
    BY <1>3
  <1> QED BY <1>4 DEF First

LEMMA DivMod ==
  ASSUME NEW a \in Nat, NEW N \in Nat, N > 0
  PROVE  a = N * (a \div N) + (a % N) /\ a % N \in 0 .. N - 1 /\ a \div N \in Int
  OBVIOUS

LEMMA RemainderUnique ==
  ASSUME NEW m \in Int, NEW q \in Int, NEW N \in Nat,
         NEW r \in 0 .. N - 1, NEW s \in 0 .. N - 1, N * m + r = N * q + s
  PROVE  r = s
  <1>1. N * (m - q) = s - r
    OBVIOUS
  <1>2. CASE m - q >= 1
    <2>1. N * (m - q) >= N
      BY <1>2
    <2> QED BY <2>1, <1>1
  <1>3. CASE m - q <= -1
    <2>1. N * (m - q) <= -N
      BY <1>3
    <2> QED BY <2>1, <1>1
  <1>4. CASE m = q
    BY <1>4
  <1> QED BY <1>2, <1>3, <1>4

\* The slot of a result that is r behind the end of whole answers.
LEMMA SlotOfResult ==
  ASSUME NEW n \in Nat, NEW N \in Nat, N > 0, NEW r \in 0 .. N - 1, n % N = 0
  PROVE  (n + r) % N = r
  <1>1. n = N * (n \div N) /\ n \div N \in Int
    BY DivMod
  <1>2. /\ n + r = N * ((n + r) \div N) + ((n + r) % N)
        /\ (n + r) % N \in 0 .. N - 1 /\ (n + r) \div N \in Int
    <2>1. n + r \in Nat
      OBVIOUS
    <2> QED BY <2>1, DivMod
  <1> QED BY <1>1, <1>2, RemainderUnique

LEMMA WholeAnswers ==
  ASSUME NEW n \in Nat, NEW N \in Nat, N > 0, n % N = 0
  PROVE  (n + N) % N = 0
  <1>1. n = N * (n \div N) /\ n \div N \in Int
    BY DivMod
  <1>2. /\ n + N = N * ((n + N) \div N) + ((n + N) % N)
        /\ (n + N) % N \in 0 .. N - 1 /\ (n + N) \div N \in Int
    <2>1. n + N \in Nat
      OBVIOUS
    <2> QED BY <2>1, DivMod
  <1> DEFINE m == n \div N
             q == (n + N) \div N
             s == (n + N) % N
  <1>3. N * (m + 1) + 0 = N * q + s
    BY <1>1, <1>2
  <1>4. m + 1 \in Int /\ q \in Int /\ s \in 0 .. N - 1 /\ 0 \in 0 .. N - 1
    BY <1>1, <1>2
  <1> HIDE DEF m, q, s
  <1>5. 0 = s
    BY ONLY <1>3, <1>4, RemainderUnique, N \in Nat
  <1> QED BY <1>5 DEF s

LEMMA RowType ==
  ASSUME NEW i \in Indices
  PROVE  /\ Rows[i] \in Row /\ i \in Nat
         /\ Rows[i].shift \in Bits /\ Rows[i].width \in 1 .. TopBit + 1
         /\ Rows[i].uid.part \in 0 .. 31
         /\ Target(i) \in Targets
  <1>1. Rows[i] \in Row
    BY RowsAssumption, ElementOfSeq DEF Indices
  <1>2. i \in Nat
    BY DEF Indices
  <1>3. Target(i) \in Targets
    BY DEF Targets
  <1>4. Rows[i].uid \in MSCodes /\ Rows[i].shift \in Bits /\ Rows[i].width \in 1 .. TopBit + 1
    BY <1>1 DEF Row
  <1>5. Rows[i].uid.part \in 0 .. 31
    BY <1>4 DEF MSCodes, Parts
  <1> QED BY <1>1, <1>2, <1>3, <1>4, <1>5

LEMMA SameTarget ==
  ASSUME NEW i \in Indices, NEW j \in Indices, Rows[i].reg = Rows[j].reg
  PROVE  Target(i) = Target(j)
  BY RowsAssumption

LEMMA FirstRow ==
  ASSUME NEW S \in SUBSET Indices, S # {}
  PROVE  First(S) \in S /\ \A j \in S : First(S) <= j
  <1>1. S \in SUBSET Nat
    BY DEF Indices
  <1> QED BY <1>1, FirstProperties

\* Shifting and masking a value leaves the bits of the field.
LEMMA SliceIsFieldBits ==
  ASSUME NEW i \in Indices, NEW v \in SUBSET Bits
  PROVE  Slice(i, v) = FieldBits(i, v) /\ Slice(i, v) \in SUBSET Bits
  <1> DEFINE start == Rows[i].shift
             bits == Rows[i].width
  <1>1. start \in 0 .. TopBit /\ bits \in 1 .. TopBit + 1 /\ TopBit \in Nat
    BY RowType, ReadsAssumption DEF Bits
  <1>2. get_mask(bits) = 0 .. bits - 1
    BY <1>1 DEF get_mask, MASK_MAX_BITS
  <1> HIDE DEF start, bits
  <1>3. {b - start : b \in {b \in v : b >= start}} \cap (0 .. bits - 1)
          = {b \in 0 .. bits - 1 : b + start \in v}
    BY <1>1 DEF Bits
  <1>4. Slice(i, v) = FieldBits(i, v)
    BY <1>2, <1>3 DEF Slice, FieldBits, breakout_applymask, start, bits
  <1>5. FieldBits(i, v) \in SUBSET Bits
    BY <1>1 DEF FieldBits, Bits, start, bits
  <1> QED BY <1>4, <1>5


LEMMA ContentsType ==
  ASSUME board \in Boards, NEW v \in Values
  PROVE  ValueBits(v) \in SUBSET Bits
  BY ReadsAssumption DEF ValueBits, Values

-----------------------------------------------------------------------------
(***************************************************************************)
(* An answer of the driver, as RegisterService promises it.                *)
(***************************************************************************)
LEMMA AnswerSlot ==
  ASSUME NEW c \in CPUs, NEW old \in Slots, old.status = "NORESULT", Owned(old, c),
         NEW t \in Targets, NEW p \in PCpus,
         NEW a \in Svc!Slot([target |-> t, pcpu |-> p], c, old)
  PROVE  /\ a \in Slots /\ Owned(a, c) /\ Valid(a, t, c)
         /\ t \in GicTargets => a.midr = old.midr
  <1> DEFINE r == [target |-> t, pcpu |-> p]
  <1>1. /\ old.val \in Values /\ old.cpu \in CPUs /\ old.midr \in CPUs \cup {NoCpu}
        /\ old = [val |-> old.val, cpu |-> old.cpu, midr |-> old.midr, status |-> old.status]
    BY DEF Slots
  <1>2. r.target = t
    OBVIOUS
  <1> HIDE DEF r
  <1>3. \/ a = old
        \/ a \in Svc!Excuse(old)
        \/ a \in Svc!Truth(t, c, old)
    BY <1>2 DEF Svc!Slot, r
  <1>4. CASE a = old
    BY <1>4 DEF Valid
  <1>5. CASE a \in Svc!Excuse(old)
    <2>1. PICK s \in {"SMP", "SMP_SINGLE"} : a = [old EXCEPT !.status = s]
      BY <1>5 DEF Svc!Excuse
    <2>2. a = [val |-> old.val, cpu |-> old.cpu, midr |-> old.midr, status |-> s]
      BY <2>1, <1>1
    <2> QED BY <2>2, <1>1 DEF Slots, Owned, Valid, Statuses
  <1>6. CASE a \in Svc!Truth(t, c, old)
    <2>1. t # NoValue
      BY ReadsAssumption
    <2>2. CASE t \in Handled
      <3>1. t \notin GicTargets /\ t \notin Mapped
        BY <2>2, ReadsAssumption
      <3>2. CASE <<t, c>> \in Undefined
        <4>1. a = Svc!Seen(c, NoValue, "UNDEFINST")
          BY <1>6, <2>1, <2>2, <3>1, <3>2 DEF Svc!Truth
        <4> QED BY <3>1, <4>1 DEF Slots, Owned, Valid, Statuses, Values, Svc!Seen
      <3>3. CASE <<t, c>> \notin Undefined
        <4>1. a = Svc!Seen(c, <<t, c>>, "SUCCESS")
          BY <1>6, <2>1, <2>2, <3>1, <3>3 DEF Svc!Truth
        <4> QED BY <3>1, <4>1 DEF Slots, Owned, Valid, Statuses, Values, Svc!Seen
      <3> QED BY <3>2, <3>3
    <2>3. CASE t \in Mapped
      <3>1. t \in GicTargets /\ t \notin Handled
        BY <2>3, ReadsAssumption
      <3>2. a = [val |-> <<t, c>>, cpu |-> c, midr |-> old.midr, status |-> "SUCCESS"]
        BY <1>6, <2>1, <2>3, <3>1 DEF Svc!Truth
      <3>3. old.midr \in {c, NoCpu}
        BY DEF Owned
      <3> QED BY <3>1, <3>2, <3>3, <1>1 DEF Slots, Owned, Valid, Statuses, Values
    <2>4. CASE t \notin Handled /\ t \notin Mapped
      BY <1>6, <2>1, <2>4, <1>4 DEF Svc!Truth
    <2> QED BY <2>2, <2>3, <2>4
  <1> QED BY <1>3, <1>4, <1>5, <1>6

LEMMA ResultType ==
  ASSUME NEW i \in Indices, NEW s \in Slots, NEW level \in Levels
  PROVE  /\ Result(i, s, level) \in ioctl_result
         /\ Result(i, s, level).row = i /\ Result(i, s, level).val = s.val
         /\ Result(i, s, level).cpu = s.cpu /\ Result(i, s, level).midr = s.midr
         /\ Result(i, s, level).status = s.status /\ Result(i, s, level).epl = level
  BY DEF Result, Slots, ioctl_result

LEMMA ElementType ==
  ASSUME board \in Boards, NEW i \in Indices, NEW r \in ioctl_result, NEW k \in Nat
  PROVE  /\ Element(i, r, k) \in bitfield_info_populated
         /\ Element(i, r, k).row = i /\ Element(i, r, k).from = k
         /\ Element(i, r, k).cpu = r.cpu /\ Element(i, r, k).midr = r.midr
         /\ Element(i, r, k).status = r.status /\ Element(i, r, k).epl = r.epl
         /\ Element(i, r, k).value = Shown(i, ValueBits(r.val))
  <1>1. /\ r.val \in Values /\ r.cpu \in CPUs /\ r.midr \in CPUs \cup {NoCpu}
        /\ r.status \in Statuses /\ r.epl \in Levels
    BY DEF ioctl_result
  <1>2. ValueBits(r.val) \in SUBSET Bits
    BY <1>1, ContentsType
  <1>3. Slice(i, ValueBits(r.val)) = FieldBits(i, ValueBits(r.val))
        /\ Slice(i, ValueBits(r.val)) \in SUBSET Bits
    BY <1>2, SliceIsFieldBits
  <1> DEFINE v == IF call.noparse THEN ValueBits(r.val) ELSE Slice(i, ValueBits(r.val))
  <1>4. v \in SUBSET Bits /\ v = Shown(i, ValueBits(r.val))
    BY <1>2, <1>3 DEF Shown
  <1>5. Element(i, r, k) = [row |-> i, cpu |-> r.cpu, midr |-> r.midr, status |-> r.status,
                            epl |-> r.epl, from |-> k, value |-> v]
    BY DEF Element
  <1> HIDE DEF v
  <1> QED BY <1>1, <1>4, <1>5 DEF bitfield_info_populated


-----------------------------------------------------------------------------
(***************************************************************************)
(* Types.                                                                  *)
(***************************************************************************)
LEMMA BlankType == Blank \in Slots
  <1>1. MS_MAX_CPUS \in Nat \ {0}
    BY ReadsAssumption
  <1> QED BY <1>1 DEF Blank, Slots, Values, Statuses, CPUs

LEMMA CallType ==
  ASSUME FlowTypeOK
  PROVE  /\ call.value \in SUBSET Bits /\ call.cpu \in PCpus /\ call.pl \subseteq AllLevels
         /\ call.noparse \in BOOLEAN /\ call.calc \in BOOLEAN /\ call.dev \in BOOLEAN
  BY RequestsAssumption, Zenon DEF FlowTypeOK, Request

LEMMA InfoType ==
  ASSUME FlowTypeOK, set_match_info
  PROVE  info' \in match_info /\ errno' \in {"none", "ERANGE"}
  <1>1. ArchNamed[call.arch] \in Arches
    BY DEF set_match_info, Known, ArchNamed, Arches
  <1>2. ImplNamed[call.impl] \in {0, IMPL_ALL} \cup Cortexes
    <2>1. call.impl \in ImplNames
      BY DEF set_match_info, Known
    <2> QED BY <2>1 DEF ImplNamed, ImplNames, Cortexes
  <1>3. errno' \in {"none", "ERANGE"}
    BY DEF set_match_info, FlowTypeOK
  <1> DEFINE v == IF call.calc /\ errno' = "ERANGE" THEN Bits ELSE call.value
  <1>4. v \in SUBSET Bits
    BY CallType
  <1>5. info' = [architecture |-> ArchNamed[call.arch],
                 implementation |-> ImplNamed[call.impl], value |-> v]
    BY DEF set_match_info
  <1> HIDE DEF v
  <1> QED BY <1>1, <1>2, <1>3, <1>4, <1>5 DEF match_info

LEMMA FlowTypeStep ==
  ASSUME FlowTypeOK, [Next]_vars
  PROVE  FlowTypeOK'
  <1> USE DEF FlowTypeOK
  <1>1. CASE Find
    BY <1>1 DEF Find, NoInfo, match_info, Arches, ARCH_ARMV7A
  <1>2. CASE set_match_info
    BY <1>2, InfoType DEF set_match_info
  <1>3. CASE set_match_info_unknown
    BY <1>3 DEF set_match_info_unknown, Return
  <1>4. CASE breakout_search_table
    BY <1>4 DEF breakout_search_table
  <1>5. CASE breakout_sort_ioctls
    BY <1>5 DEF breakout_sort_ioctls
  <1>6. CASE driver_results
    BY <1>6 DEF driver_results
  <1>7. CASE driver_done
    BY <1>7 DEF driver_done
  <1>8. CASE breakout_call_usermode
    BY <1>8 DEF breakout_call_usermode
  <1>9. CASE user_done
    BY <1>9 DEF user_done
  <1>10. CASE breakout_parse_results
    BY <1>10 DEF breakout_parse_results
  <1>11. CASE parse_done
    BY <1>11 DEF parse_done
  <1>12. CASE free_uninitialised
    BY <1>12 DEF free_uninitialised
  <1>13. CASE breakout_parse_results_value
    BY <1>13 DEF breakout_parse_results_value
  <1>14. CASE breakout_value_validate_fails
    BY <1>14 DEF breakout_value_validate_fails, Return
  <1>15. CASE flatten_results
    BY <1>15 DEF flatten_results, Return
  <1>16. CASE breakout_call_driver
    BY <1>16 DEF breakout_call_driver
  <1>17. CASE UNCHANGED vars
    BY <1>17 DEF vars
  <1> QED BY <1>1, <1>2, <1>3, <1>4, <1>5, <1>6, <1>7, <1>8, <1>9, <1>10, <1>11, <1>12,
             <1>13, <1>14, <1>15, <1>16, <1>17 DEF Next, Library


-----------------------------------------------------------------------------
(***************************************************************************)
(* The two steps that add to the results.                                  *)
(***************************************************************************)
LEMMA DriverResults ==
  ASSUME TypeOK, FlowInv, SlotsInv, breakout_call_driver,
         NEW i, i = First(todo.driver), NEW n \in Nat, n = Len(results)
  PROVE  /\ i \in todo.driver /\ i \in Indices
         /\ slots' \in [CPUs -> Slots]
         /\ \A c \in CPUs : /\ Owned(slots'[c], c) /\ Valid(slots'[c], Target(i), c)
                            /\ Target(i) \in GicTargets => slots'[c].midr = slots[c].midr
         /\ results' \in Seq(ioctl_result) /\ Len(results') = n + MS_MAX_CPUS
         /\ \A k \in 1 .. n : results'[k] = results[k]
         /\ \A c \in CPUs : results'[n + 1 + c] = Result(i, slots'[c], "NS_PL1")
         /\ todo' = [driver |-> todo.driver \ {i}, user |-> todo.user]
         /\ todo' \in [driver: SUBSET Indices, user: SUBSET Indices]
  <1> USE DEF TypeOK, ReadsTypeOK
  <1>1. i \in todo.driver /\ i \in Indices
    BY FirstRow DEF FlowInv, breakout_call_driver
  <1>2. MS_MAX_CPUS \in Nat \ {0} /\ CPUs = 0 .. MS_MAX_CPUS - 1
    BY ReadsAssumption DEF CPUs
  <1>3. ask = [target |-> Target(i), pcpu |-> call.cpu] /\ Target(i) \in Targets
        /\ call.cpu \in PCpus
    BY <1>1, RowType, CallType DEF SlotsInv, breakout_call_driver
  <1>4. \A c \in CPUs : slots'[c] \in Svc!Slot(ask, c, slots[c])
    BY DEF breakout_call_driver, Answers
  <1>5. ASSUME NEW c \in CPUs
        PROVE  /\ slots'[c] \in Slots /\ Owned(slots'[c], c) /\ Valid(slots'[c], Target(i), c)
               /\ Target(i) \in GicTargets => slots'[c].midr = slots[c].midr
    <2>1. slots[c] \in Slots /\ slots[c].status = "NORESULT" /\ Owned(slots[c], c)
      BY DEF SlotsInv, breakout_call_driver
    <2>2. slots'[c] \in Svc!Slot([target |-> Target(i), pcpu |-> call.cpu], c, slots[c])
      BY <1>3, <1>4
    <2> QED BY <1>3, <2>1, <2>2, AnswerSlot
  <1>6. slots' \in [CPUs -> Slots]
    <2>1. PICK U : slots' \in [CPUs -> U]
      BY DEF breakout_call_driver, Answers
    <2> QED BY <2>1, <1>5
  <1> DEFINE new == [k \in 1 .. MS_MAX_CPUS |-> Result(i, slots'[k - 1], "NS_PL1")]
  <1>7. results' = results \o new /\ todo' = [todo EXCEPT !.driver = @ \ {i}]
    BY DEF breakout_call_driver
  <1>8. \A k \in 1 .. MS_MAX_CPUS : new[k] \in ioctl_result
    <2> TAKE k \in 1 .. MS_MAX_CPUS
    <2>1. k - 1 \in CPUs
      BY <1>2
    <2> QED BY <2>1, <1>1, <1>6, ResultType DEF Levels
  <1>9. new \in Seq(ioctl_result) /\ Len(new) = MS_MAX_CPUS
    <2> HIDE DEF new
    <2>1. new \in [1 .. MS_MAX_CPUS -> ioctl_result]
      BY <1>8 DEF new
    <2> QED BY <2>1, <1>2
  <1>10. \A c \in CPUs : c + 1 \in 1 .. MS_MAX_CPUS /\ new[c + 1] = Result(i, slots'[c], "NS_PL1")
    BY <1>2
  <1> HIDE DEF new
  <1>11. results' \in Seq(ioctl_result) /\ Len(results') = n + MS_MAX_CPUS
    BY <1>7, <1>9, ConcatProperties
  <1>12. \A k \in 1 .. n : results'[k] = results[k]
    BY <1>2, <1>7, <1>9, ConcatProperties
  <1>13. \A c \in CPUs : results'[n + 1 + c] = Result(i, slots'[c], "NS_PL1")
    <2> TAKE c \in CPUs
    <2>1. n + 1 + c \in 1 .. n + MS_MAX_CPUS /\ ~(n + 1 + c <= n) /\ (n + 1 + c) - n = c + 1
      BY <1>2
    <2>2. results'[n + 1 + c] = new[(n + 1 + c) - n]
      BY <2>1, <1>7, <1>9, ConcatProperties
    <2> QED BY <2>1, <2>2, <1>10
  <1>14. /\ todo' = [driver |-> todo.driver \ {i}, user |-> todo.user]
         /\ todo' \in [driver: SUBSET Indices, user: SUBSET Indices]
    BY <1>7
  <1> QED BY <1>1, <1>5, <1>6, <1>11, <1>12, <1>13, <1>14

LEMMA UserResults ==
  ASSUME TypeOK, breakout_call_usermode,
         NEW i, i = First(todo.user), NEW n \in Nat, n = Len(results)
  PROVE  /\ i \in todo.user /\ i \in Indices
         /\ \/ results' = results /\ Target(i) \notin Handled
            \/ /\ Target(i) \in Handled
               /\ results' \in Seq(ioctl_result) /\ Len(results') = n + 1
               /\ \A k \in 1 .. n : results'[k] = results[k]
               /\ results'[n + 1].row = i /\ results'[n + 1].epl = "NS_PL0"
               /\ ResultOK(results'[n + 1], n + 1)
         /\ todo' = [driver |-> todo.driver, user |-> todo.user \ {i}]
         /\ todo' \in [driver: SUBSET Indices, user: SUBSET Indices]
  <1> USE DEF TypeOK, ReadsTypeOK
  <1> DEFINE t == Target(i)
             slot(v, s) == [val |-> v, cpu |-> 0, midr |-> NoCpu, status |-> s]
  <1>1. i \in todo.user /\ i \in Indices
    BY FirstRow DEF breakout_call_usermode
  <1>2. /\ todo' = [driver |-> todo.driver, user |-> todo.user \ {i}]
        /\ todo' \in [driver: SUBSET Indices, user: SUBSET Indices]
    BY DEF breakout_call_usermode
  <1>3. t \in Targets /\ UserReads \subseteq Handled
    BY <1>1, RowType, ReadsAssumption
  <1>4. \/ results' = results /\ t \notin Handled
        \/ t \in Handled /\ \E here \in CPUs :
              results' = Append(results, Result(i, slot(<<t, here>>, "SUCCESS"), "NS_PL0"))
        \/ t \in Handled /\ results' = Append(results, Result(i, slot(NoValue, "ILLINST"), "NS_PL0"))
    <2>1. CASE t \in UserReads
      BY <1>3, <2>1, Zenon DEF breakout_call_usermode
    <2>2. CASE t \in Handled \ UserReads
      BY <2>2 DEF breakout_call_usermode
    <2>3. CASE t \notin Handled
      BY <1>3, <2>3 DEF breakout_call_usermode
    <2> QED BY <2>1, <2>2, <2>3
  <1>5. ASSUME NEW r \in ioctl_result, results' = Append(results, r), r.row = i, r.epl = "NS_PL0",
               ResultOK(r, n + 1), t \in Handled
        PROVE  /\ results' \in Seq(ioctl_result) /\ Len(results') = n + 1
               /\ \A k \in 1 .. n : results'[k] = results[k]
               /\ results'[n + 1].row = i /\ results'[n + 1].epl = "NS_PL0"
               /\ ResultOK(results'[n + 1], n + 1)
    <2>1. /\ results' \in Seq(ioctl_result) /\ Len(results') = n + 1
          /\ \A k \in 1 .. n : results'[k] = results[k]
          /\ results'[n + 1] = r
      BY <1>5, AppendProperties
    <2> QED BY <2>1, <1>5
  <1>6. ASSUME NEW here \in CPUs
        PROVE  /\ Result(i, slot(<<t, here>>, "SUCCESS"), "NS_PL0") \in ioctl_result
               /\ Result(i, slot(<<t, here>>, "SUCCESS"), "NS_PL0").row = i
               /\ Result(i, slot(<<t, here>>, "SUCCESS"), "NS_PL0").epl = "NS_PL0"
               /\ ResultOK(Result(i, slot(<<t, here>>, "SUCCESS"), "NS_PL0"), n + 1)
    <2>1. slot(<<t, here>>, "SUCCESS") \in Slots
      BY <1>3, BlankType DEF Slots, Values, Statuses, Blank
    <2>2. "NS_PL0" \in Levels
      BY DEF Levels
    <2> QED BY <2>1, <2>2, <1>1, ResultType DEF ResultOK
  <1>7. /\ Result(i, slot(NoValue, "ILLINST"), "NS_PL0") \in ioctl_result
        /\ Result(i, slot(NoValue, "ILLINST"), "NS_PL0").row = i
        /\ Result(i, slot(NoValue, "ILLINST"), "NS_PL0").epl = "NS_PL0"
        /\ ResultOK(Result(i, slot(NoValue, "ILLINST"), "NS_PL0"), n + 1)
    <2>1. slot(NoValue, "ILLINST") \in Slots
      BY BlankType DEF Slots, Values, Statuses, Blank
    <2>2. "NS_PL0" \in Levels
      BY DEF Levels
    <2> QED BY <2>1, <2>2, <1>1, ResultType DEF ResultOK
  <1> HIDE DEF slot
  <1> QED BY <1>1, <1>2, <1>4, <1>5, <1>6, <1>7


-----------------------------------------------------------------------------
(***************************************************************************)
(* The inductive invariant.  Each lemma treats one of its parts.           *)
(***************************************************************************)
LEMMA ReturnType ==
  ASSUME NEW r, Return(r)
  PROVE  /\ todo' \in [driver: SUBSET Indices, user: SUBSET Indices]
         /\ ask' \in [target: Targets, pcpu: PCpus] \cup {NoRequest}
         /\ slots' \in [CPUs -> Slots]
         /\ NothingToDo' /\ Ready'
  BY BlankType DEF Return, NothingToDo, Ready

LEMMA ReadsTypeStep ==
  ASSUME BreakoutInv, [Next]_vars
  PROVE  ReadsTypeOK'
  <1> USE DEF BreakoutInv, TypeOK, ReadsTypeOK
  <1>1. CASE Find
    BY <1>1 DEF Find
  <1>2. CASE set_match_info
    BY <1>2 DEF set_match_info, reads
  <1>3. CASE set_match_info_unknown
    BY <1>3, ReturnType DEF set_match_info_unknown
  <1>4. CASE breakout_search_table
    BY <1>4 DEF breakout_search_table, reads
  <1>5. CASE breakout_sort_ioctls
    BY <1>5 DEF breakout_sort_ioctls
  <1>6. CASE driver_results
    <2> DEFINE i == First(todo.driver)
    <2>1. i \in Indices /\ Target(i) \in Targets
      BY <1>6, FirstRow, RowType DEF driver_results
    <2>2. call.cpu \in PCpus
      BY CallType
    <2>3. ask' \in [target: Targets, pcpu: PCpus]
      BY <1>6, <2>1, <2>2 DEF driver_results
    <2>4. \A c \in CPUs : [slots[c] EXCEPT !.status = "NORESULT"] \in Slots
      BY DEF Slots, Statuses
    <2>5. slots' \in [CPUs -> Slots]
      BY <1>6, <2>4 DEF driver_results
    <2> QED BY <1>6, <2>3, <2>5 DEF driver_results
  <1>7. CASE driver_done
    BY <1>7 DEF driver_done, reads
  <1>8. CASE breakout_call_usermode
    <2> DEFINE i == First(todo.user)
               n == Len(results)
    <2>1. n \in Nat
      BY LenProperties
    <2> HIDE DEF i, n
    <2>2. /\ todo' \in [driver: SUBSET Indices, user: SUBSET Indices]
          /\ results' = results \/ results' \in Seq(ioctl_result)
      BY <1>8, <2>1, UserResults DEF i, n
    <2> QED BY <1>8, <2>2 DEF breakout_call_usermode
  <1>9. CASE user_done
    BY <1>9 DEF user_done, reads
  <1>10. CASE breakout_parse_results
    BY <1>10 DEF breakout_parse_results, reads
  <1>11. CASE parse_done
    BY <1>11 DEF parse_done, reads
  <1>12. CASE free_uninitialised
    BY <1>12 DEF free_uninitialised, reads
  <1>13. CASE breakout_parse_results_value
    BY <1>13 DEF breakout_parse_results_value, reads
  <1>14. CASE breakout_value_validate_fails
    BY <1>14, ReturnType DEF breakout_value_validate_fails
  <1>15. CASE flatten_results
    BY <1>15, ReturnType DEF flatten_results
  <1>16. CASE breakout_call_driver
    <2> DEFINE i == First(todo.driver)
               n == Len(results)
    <2>1. n \in Nat
      BY LenProperties
    <2> HIDE DEF i, n
    <2>2. /\ todo' \in [driver: SUBSET Indices, user: SUBSET Indices]
          /\ results' \in Seq(ioctl_result) /\ slots' \in [CPUs -> Slots]
      BY <1>16, <2>1, DriverResults DEF i, n
    <2> QED BY <1>16, <2>2 DEF breakout_call_driver
  <1>17. CASE UNCHANGED vars
    BY <1>17 DEF vars, reads
  <1> QED BY <1>1, <1>2, <1>3, <1>4, <1>5, <1>6, <1>7, <1>8, <1>9, <1>10, <1>11, <1>12,
             <1>13, <1>14, <1>15, <1>16, <1>17 DEF Next, Library

LEMMA FlowStep ==
  ASSUME BreakoutInv, [Next]_vars
  PROVE  FlowInv'
  <1> USE DEF BreakoutInv, FlowInv
  <1>1. CASE Find
    BY <1>1 DEF Find, NothingToDo, Ready
  <1>2. CASE set_match_info
    BY <1>2 DEF set_match_info, reads, NothingToDo, Ready
  <1>3. CASE set_match_info_unknown
    BY <1>3, ReturnType DEF set_match_info_unknown, Return
  <1>4. CASE breakout_search_table
    BY <1>4 DEF breakout_search_table, reads, NothingToDo, Ready
  <1>5. CASE breakout_sort_ioctls
    BY <1>5 DEF breakout_sort_ioctls
  <1>6. CASE driver_results
    BY <1>6 DEF driver_results
  <1>7. CASE driver_done
    BY <1>7 DEF driver_done, reads
  <1>8. CASE breakout_call_usermode
    BY <1>8 DEF breakout_call_usermode
  <1>9. CASE user_done
    BY <1>9 DEF user_done, reads
  <1>10. CASE breakout_parse_results
    BY <1>10 DEF breakout_parse_results, reads
  <1>11. CASE parse_done
    BY <1>11 DEF parse_done, reads
  <1>12. CASE free_uninitialised
    BY <1>12 DEF free_uninitialised, reads
  <1>13. CASE breakout_parse_results_value
    BY <1>13 DEF breakout_parse_results_value, reads, NothingToDo, Ready
  <1>14. CASE breakout_value_validate_fails
    BY <1>14, ReturnType DEF breakout_value_validate_fails, Return
  <1>15. CASE flatten_results
    BY <1>15, ReturnType DEF flatten_results, Return
  <1>16. CASE breakout_call_driver
    BY <1>16 DEF breakout_call_driver
  <1>17. CASE UNCHANGED vars
    BY <1>17 DEF vars, reads, NothingToDo, Ready
  <1> QED BY <1>1, <1>2, <1>3, <1>4, <1>5, <1>6, <1>7, <1>8, <1>9, <1>10, <1>11, <1>12,
             <1>13, <1>14, <1>15, <1>16, <1>17 DEF Next, Library


\* breakout_filter_results adds rows of the result that it is given.
LEMMA Filtered ==
  ASSUME TypeOK, NEW r, NEW k
  PROVE  /\ \A e \in breakout_filter_results(r, k) :
               e \in list \/ \E i \in Kept(r) : e = Element(i, r, k)
         /\ list \subseteq breakout_filter_results(r, k)
         /\ Kept(r) \subseteq matches /\ Kept(r) \subseteq Indices
  <1>1. Kept(r) \subseteq matches /\ Kept(r) \subseteq Indices
    BY DEF Kept, TypeOK, ReadsTypeOK
  <1>2. Kept(r) # {} => First(Kept(r)) \in Kept(r)
    BY <1>1, FirstRow
  <1> QED BY <1>1, <1>2 DEF breakout_filter_results

LEMMA CalcElementType ==
  ASSUME TypeOK, NEW i \in Indices
  PROVE  /\ CalcElement(i) \in bitfield_info_populated
         /\ CalcElement(i).row = i /\ CalcElement(i).epl = "none"
         /\ CalcElement(i).value = Shown(i, info.value)
  <1>1. info.value \in SUBSET Bits
    BY DEF TypeOK, FlowTypeOK, match_info
  <1> DEFINE v == IF call.noparse THEN info.value ELSE Slice(i, info.value)
  <1>2. v \in SUBSET Bits /\ v = Shown(i, info.value)
    BY <1>1, SliceIsFieldBits DEF Shown
  <1>3. CalcElement(i) = [row |-> i, cpu |-> 0, midr |-> NoCpu, status |-> "SUCCESS",
                          epl |-> "none", from |-> 0, value |-> v]
    BY DEF CalcElement
  <1>4. 0 \in CPUs
    BY ReadsAssumption DEF CPUs
  <1> HIDE DEF v
  <1> QED BY <1>2, <1>3, <1>4 DEF bitfield_info_populated, Statuses

LEMMA CalcList ==
  ASSUME TypeOK, breakout_parse_results_value
  PROVE  \A e \in list' : e.row \in matches /\ e = CalcElement(e.row)
  <1>1. matches # {} /\ matches \subseteq Indices
    <2>1. Cardinality({}) = 0
      BY FS_EmptySet
    <2>2. matches # {}
      <3> SUFFICES ASSUME matches = {} PROVE FALSE
        OBVIOUS
      <3>1. {Rows[i].reg : i \in matches} = {}
        OBVIOUS
      <3> QED BY <3>1, <2>1 DEF breakout_parse_results_value, OneRegister
    <2> QED BY <2>2 DEF TypeOK, ReadsTypeOK
  <1>2. First(matches) \in matches
    BY <1>1, FirstRow
  <1>3. list' = {CalcElement(i) : i \in IF call.noparse THEN {First(matches)} ELSE matches}
    BY DEF breakout_parse_results_value, CalcElement
  <1>4. \A i \in matches : CalcElement(i).row = i
    BY <1>1, CalcElementType
  <1> QED BY <1>2, <1>3, <1>4

LEMMA ListTypeStep ==
  ASSUME BreakoutInv, [Next]_vars
  PROVE  ListTypeOK'
  <1> USE DEF BreakoutInv, TypeOK, ReadsTypeOK, ListTypeOK
  <1>0. Len(results) \in Nat
    BY LenProperties
  <1>1. CASE Find
    BY <1>1, EmptySeq DEF Find
  <1>2. CASE set_match_info
    BY <1>2 DEF set_match_info, reads
  <1>3. CASE set_match_info_unknown
    BY <1>3 DEF set_match_info_unknown
  <1>4. CASE breakout_search_table
    BY <1>4 DEF breakout_search_table, reads
  <1>5. CASE breakout_sort_ioctls
    BY <1>5 DEF breakout_sort_ioctls
  <1>6. CASE driver_results
    BY <1>6 DEF driver_results
  <1>7. CASE driver_done
    BY <1>7 DEF driver_done, reads
  <1>8. CASE breakout_call_usermode
    <2> DEFINE i == First(todo.user)
               n == Len(results)
    <2> HIDE DEF i, n
    <2>1. results' = results \/ Len(results') = n + 1
      BY <1>0, <1>8, UserResults DEF i, n
    <2> QED BY <1>0, <1>8, <2>1 DEF breakout_call_usermode, n
  <1>9. CASE user_done
    BY <1>9 DEF user_done, reads
  <1>10. CASE breakout_parse_results
    <2>1. next \in 1 .. Len(results) /\ results[next] \in ioctl_result
      BY <1>0, <1>10, ElementOfSeq DEF breakout_parse_results
    <2>2. ASSUME NEW e \in list'
          PROVE  e \in bitfield_info_populated
      <3>1. e \in list \/ \E i \in Kept(results[next]) : e = Element(i, results[next], next)
        BY <1>10, Filtered DEF breakout_parse_results
      <3>2. ASSUME NEW i \in Kept(results[next]), e = Element(i, results[next], next)
            PROVE  e \in bitfield_info_populated
        BY <2>1, <3>2, Filtered, ElementType DEF FlowTypeOK
      <3> QED BY <3>1, <3>2
    <2>3. next' = next + 1 /\ results' = results
      BY <1>10 DEF breakout_parse_results, reads
    <2> QED BY <1>0, <2>1, <2>2, <2>3
  <1>11. CASE parse_done
    BY <1>11 DEF parse_done, reads
  <1>12. CASE free_uninitialised
    BY <1>12 DEF free_uninitialised, reads
  <1>13. CASE breakout_parse_results_value
    <2>1. \A e \in list' : e \in bitfield_info_populated
      BY <1>13, CalcList, CalcElementType
    <2> QED BY <1>13, <2>1 DEF breakout_parse_results_value, reads
  <1>14. CASE breakout_value_validate_fails
    BY <1>14 DEF breakout_value_validate_fails
  <1>15. CASE flatten_results
    BY <1>15 DEF flatten_results
  <1>16. CASE breakout_call_driver
    <2> DEFINE i == First(todo.driver)
               n == Len(results)
    <2> HIDE DEF i, n
    <2>1. Len(results') = n + MS_MAX_CPUS /\ MS_MAX_CPUS \in Nat
      BY <1>0, <1>16, DriverResults, ReadsAssumption DEF i, n
    <2> QED BY <1>0, <1>16, <2>1 DEF breakout_call_driver, n
  <1>17. CASE UNCHANGED vars
    BY <1>17 DEF vars, reads
  <1> QED BY <1>1, <1>2, <1>3, <1>4, <1>5, <1>6, <1>7, <1>8, <1>9, <1>10, <1>11, <1>12,
             <1>13, <1>14, <1>15, <1>16, <1>17 DEF Next, Library


LEMMA CalcStep ==
  ASSUME BreakoutInv, [Next]_vars
  PROVE  CalcInv'
  <1> USE DEF BreakoutInv, CalcInv, CalcElement, Supplied
  <1>1. CASE Find
    BY <1>1 DEF Find
  <1>2. CASE set_match_info
    <2>1. list = {}
      BY <1>2 DEF set_match_info, FlowInv
    <2> QED BY <1>2, <2>1 DEF set_match_info
  <1>3. CASE set_match_info_unknown
    BY <1>3 DEF set_match_info_unknown, Return
  <1>4. CASE breakout_search_table
    BY <1>4 DEF breakout_search_table
  <1>5. CASE breakout_sort_ioctls
    BY <1>5 DEF breakout_sort_ioctls
  <1>6. CASE driver_results
    BY <1>6 DEF driver_results
  <1>7. CASE driver_done
    BY <1>7 DEF driver_done
  <1>8. CASE breakout_call_usermode
    BY <1>8 DEF breakout_call_usermode
  <1>9. CASE user_done
    BY <1>9 DEF user_done
  <1>10. CASE breakout_parse_results
    BY <1>10 DEF breakout_parse_results, FlowInv
  <1>11. CASE parse_done
    BY <1>11 DEF parse_done, FlowInv
  <1>12. CASE free_uninitialised
    BY <1>12 DEF free_uninitialised
  <1>13. CASE breakout_parse_results_value
    <2>1. \A e \in list' : e = CalcElement(e.row)
      BY <1>13, CalcList
    <2>2. Supplied /\ call.calc
      BY <1>13 DEF breakout_parse_results_value, FlowInv
    <2> QED BY <1>13, <2>1, <2>2 DEF breakout_parse_results_value
  <1>14. CASE breakout_value_validate_fails
    BY <1>14 DEF breakout_value_validate_fails, Return
  <1>15. CASE flatten_results
    BY <1>15 DEF flatten_results, Return
  <1>16. CASE breakout_call_driver
    BY <1>16 DEF breakout_call_driver
  <1>17. CASE UNCHANGED vars
    BY <1>17 DEF vars
  <1> QED BY <1>1, <1>2, <1>3, <1>4, <1>5, <1>6, <1>7, <1>8, <1>9, <1>10, <1>11, <1>12,
             <1>13, <1>14, <1>15, <1>16, <1>17 DEF Next, Library

LEMMA SlotsStep ==
  ASSUME BreakoutInv, [Next]_vars
  PROVE  SlotsInv'
  <1> USE DEF BreakoutInv, SlotsInv
  <1>0. ASSUME pc' # "answer", slots' = slots \/ Ready'
        PROVE  SlotsInv'
    BY <1>0 DEF Owned, Ready, Blank
  <1>1. CASE Find
    BY <1>0, <1>1 DEF Find
  <1>2. CASE set_match_info
    BY <1>0, <1>2 DEF set_match_info, reads
  <1>3. CASE set_match_info_unknown
    BY <1>0, <1>3, ReturnType DEF set_match_info_unknown, Return
  <1>4. CASE breakout_search_table
    BY <1>0, <1>4 DEF breakout_search_table, reads
  <1>5. CASE breakout_sort_ioctls
    BY <1>0, <1>5 DEF breakout_sort_ioctls
  <1>6. CASE driver_results
    <2>1. ASSUME NEW c \in CPUs
          PROVE  Owned(slots'[c], c) /\ slots'[c].status = "NORESULT"
      <3>1. slots[c] \in Slots
        BY DEF TypeOK, ReadsTypeOK
      <3>2. slots'[c] = [val |-> slots[c].val, cpu |-> slots[c].cpu, midr |-> slots[c].midr,
                         status |-> "NORESULT"]
        BY <1>6, <3>1 DEF driver_results, Slots
      <3> QED BY <3>2 DEF Owned
    <2> QED BY <1>6, <2>1 DEF driver_results
  <1>7. CASE driver_done
    BY <1>0, <1>7 DEF driver_done, reads
  <1>8. CASE breakout_call_usermode
    BY <1>0, <1>8 DEF breakout_call_usermode
  <1>9. CASE user_done
    BY <1>0, <1>9 DEF user_done, reads
  <1>10. CASE breakout_parse_results
    BY <1>0, <1>10 DEF breakout_parse_results, reads
  <1>11. CASE parse_done
    BY <1>0, <1>11 DEF parse_done, reads
  <1>12. CASE free_uninitialised
    BY <1>0, <1>12 DEF free_uninitialised, reads
  <1>13. CASE breakout_parse_results_value
    BY <1>0, <1>13 DEF breakout_parse_results_value, reads
  <1>14. CASE breakout_value_validate_fails
    BY <1>0, <1>14, ReturnType DEF breakout_value_validate_fails, Return
  <1>15. CASE flatten_results
    BY <1>0, <1>15, ReturnType DEF flatten_results, Return
  <1>16. CASE breakout_call_driver
    <2>1. Len(results) \in Nat
      BY LenProperties DEF TypeOK, ReadsTypeOK
    <2>2. \A c \in CPUs : Owned(slots'[c], c)
      BY <1>16, <2>1, DriverResults
    <2> QED BY <1>16, <2>2 DEF breakout_call_driver
  <1>17. CASE UNCHANGED vars
    BY <1>17 DEF vars, reads
  <1> QED BY <1>1, <1>2, <1>3, <1>4, <1>5, <1>6, <1>7, <1>8, <1>9, <1>10, <1>11, <1>12,
             <1>13, <1>14, <1>15, <1>16, <1>17 DEF Next, Library


LEMMA ResultsStep ==
  ASSUME BreakoutInv, [Next]_vars
  PROVE  ResultsInv'
  <1> USE DEF BreakoutInv, TypeOK, ReadsTypeOK
  <1> DEFINE n == Len(results)
             N == MS_MAX_CPUS
  <1>0. n \in Nat /\ N \in Nat /\ N > 0 /\ CPUs = 0 .. N - 1
    BY LenProperties, ReadsAssumption DEF CPUs
  <1>a. ASSUME results' = results, pc' \in {"driver", "answer"} => pc \in {"driver", "answer"}
        PROVE  ResultsInv'
    BY <1>a DEF ResultsInv
  <1>b. ASSUME results' = <<>>
        PROVE  ResultsInv'
    <2>1. Len(results') = 0
      BY <1>b, EmptySeq
    <2>2. 0 % N = 0
      <3>1. 0 = N * (0 \div N) + (0 % N) /\ 0 % N \in 0 .. N - 1 /\ 0 \div N \in Int
        BY <1>0, DivMod
      <3>2. N * 0 + 0 = N * (0 \div N) + (0 % N) /\ 0 \in 0 .. N - 1
        BY <1>0, <3>1
      <3> QED BY <1>0, <3>1, <3>2, RemainderUnique
    <2> QED BY <2>1, <2>2 DEF ResultsInv
  <1>1. CASE Find
    BY <1>b, <1>1 DEF Find
  <1>2. CASE set_match_info
    BY <1>a, <1>2 DEF set_match_info, reads
  <1>3. CASE set_match_info_unknown
    BY <1>a, <1>3 DEF set_match_info_unknown, Return
  <1>4. CASE breakout_search_table
    BY <1>a, <1>4 DEF breakout_search_table, reads
  <1>5. CASE breakout_sort_ioctls
    BY <1>b, <1>5 DEF breakout_sort_ioctls, FlowInv
  <1>6. CASE driver_results
    BY <1>a, <1>6 DEF driver_results
  <1>7. CASE driver_done
    BY <1>a, <1>7 DEF driver_done, reads
  <1>8. CASE breakout_call_usermode
    <2> DEFINE i == First(todo.user)
    <2>1. pc' = "user"
      BY <1>8 DEF breakout_call_usermode
    <2>2. CASE results' = results
      BY <1>a, <2>1, <2>2
    <2>3. CASE results' # results
      <3>1. /\ Len(results') = n + 1
            /\ \A k \in 1 .. n : results'[k] = results[k]
            /\ ResultOK(results'[n + 1], n + 1)
        BY <1>0, <1>8, <2>3, UserResults
      <3>2. ASSUME NEW k \in 1 .. Len(results')
            PROVE  ResultOK(results'[k], k)
        <4>1. k \in 1 .. n \/ k = n + 1
          BY <1>0, <3>1
        <4> QED BY <3>1, <4>1 DEF ResultsInv
      <3> QED BY <2>1, <3>2 DEF ResultsInv
    <2> QED BY <2>2, <2>3
  <1>9. CASE user_done
    BY <1>a, <1>9 DEF user_done, reads
  <1>10. CASE breakout_parse_results
    BY <1>a, <1>10 DEF breakout_parse_results, reads
  <1>11. CASE parse_done
    BY <1>a, <1>11 DEF parse_done, reads
  <1>12. CASE free_uninitialised
    BY <1>a, <1>12 DEF free_uninitialised, reads
  <1>13. CASE breakout_parse_results_value
    BY <1>a, <1>13 DEF breakout_parse_results_value, reads
  <1>14. CASE breakout_value_validate_fails
    BY <1>a, <1>14 DEF breakout_value_validate_fails, Return
  <1>15. CASE flatten_results
    BY <1>a, <1>15 DEF flatten_results, Return
  <1>16. CASE breakout_call_driver
    <2> DEFINE i == First(todo.driver)
    <2>1. /\ slots' \in [CPUs -> Slots] /\ i \in Indices
          /\ \A c \in CPUs : Owned(slots'[c], c) /\ Valid(slots'[c], Target(i), c)
          /\ Len(results') = n + N
          /\ \A k \in 1 .. n : results'[k] = results[k]
          /\ \A c \in CPUs : results'[n + 1 + c] = Result(i, slots'[c], "NS_PL1")
      BY <1>0, <1>16, DriverResults
    <2>2. n % N = 0
      BY <1>16 DEF ResultsInv, breakout_call_driver
    <2>3. Len(results') % N = 0
      <3>1. (n + N) % N = 0
        <4> HIDE DEF n, N
        <4> QED BY <1>0, <2>2, WholeAnswers
      <3> QED BY <2>1, <3>1
    <2> HIDE DEF i
    <2>4. ASSUME NEW c \in CPUs
          PROVE  ResultOK(results'[n + 1 + c], n + 1 + c)
      <3>1. (n + c) % N = c
        BY <1>0, <2>2, SlotOfResult
      <3>2. n + c = (n + 1 + c) - 1
        BY <1>0
      <3>3. slots'[c] \in Slots /\ "NS_PL1" \in Levels
        BY <2>1 DEF Levels
      <3> DEFINE r == Result(i, slots'[c], "NS_PL1")
      <3>4. /\ r.row = i /\ r.val = slots'[c].val /\ r.cpu = slots'[c].cpu
            /\ r.midr = slots'[c].midr /\ r.status = slots'[c].status /\ r.epl = "NS_PL1"
        BY <2>1, <3>3, ResultType
      <3> HIDE DEF r
      <3>5. Owned(r, c) /\ Valid(r, Target(r.row), c)
        BY <2>1, <3>4 DEF Owned, Valid
      <3>6. ResultOK(r, n + 1 + c)
        BY <3>1, <3>2, <3>4, <3>5 DEF ResultOK
      <3> QED BY <2>1, <3>6 DEF r
    <2>5. ASSUME NEW k \in 1 .. Len(results')
          PROVE  ResultOK(results'[k], k)
      <3>1. CASE k \in 1 .. n
        BY <2>1, <3>1 DEF ResultsInv
      <3>2. CASE k \notin 1 .. n
        <4>1. k - (n + 1) \in CPUs /\ k = n + 1 + (k - (n + 1))
          BY <1>0, <2>1, <3>2
        <4> QED BY <2>4, <4>1
      <3> QED BY <3>1, <3>2
    <2> QED BY <2>3, <2>5 DEF ResultsInv
  <1>17. CASE UNCHANGED vars
    BY <1>a, <1>17 DEF vars, reads
  <1> QED BY <1>1, <1>2, <1>3, <1>4, <1>5, <1>6, <1>7, <1>8, <1>9, <1>10, <1>11, <1>12,
             <1>13, <1>14, <1>15, <1>16, <1>17 DEF Next, Library

LEMMA ElementsStep ==
  ASSUME BreakoutInv, [Next]_vars
  PROVE  ElementsInv'
  <1> USE DEF BreakoutInv
  <1>a. ASSUME UNCHANGED <<board, call, matches, results, list, next>>
        PROVE  ElementsInv'
    BY <1>a DEF ElementsInv, Element, Kept, Fits, ValueBits
  <1>b. ASSUME list' = {}
        PROVE  ElementsInv'
    BY <1>b DEF ElementsInv
  <1>1. CASE Find
    BY <1>b, <1>1 DEF Find
  <1>2. CASE set_match_info
    BY <1>a, <1>2 DEF set_match_info, reads
  <1>3. CASE set_match_info_unknown
    BY <1>a, <1>3 DEF set_match_info_unknown
  <1>4. CASE breakout_search_table
    BY <1>b, <1>4 DEF breakout_search_table, FlowInv
  <1>5. CASE breakout_sort_ioctls
    BY <1>a, <1>5 DEF breakout_sort_ioctls
  <1>6. CASE driver_results
    BY <1>a, <1>6 DEF driver_results
  <1>7. CASE driver_done
    BY <1>a, <1>7 DEF driver_done, reads
  <1>8. CASE breakout_call_usermode
    BY <1>b, <1>8 DEF breakout_call_usermode, FlowInv
  <1>9. CASE user_done
    BY <1>a, <1>9 DEF user_done, reads
  <1>10. CASE breakout_parse_results
    <2>1. UNCHANGED <<board, call, matches, results>> /\ next' = next + 1
          /\ next \in 1 .. Len(results) /\ next \in Nat
          /\ list' = breakout_filter_results(results[next], next)
      BY <1>10 DEF breakout_parse_results, reads, TypeOK, ListTypeOK
    <2>3. results[next] \in ioctl_result
      BY <2>1, ElementOfSeq DEF TypeOK, ReadsTypeOK
    <2>4. ASSUME NEW e \in list', ~call.calc
          PROVE  /\ e.from \in 1 .. Len(results) /\ e.from < next + 1
                 /\ e.row \in Kept(results[e.from])
                 /\ e = Element(e.row, results[e.from], e.from)
      <3>1. e \in list \/ \E i \in Kept(results[next]) : e = Element(i, results[next], next)
        BY <2>1, Filtered
      <3>2. CASE e \in list
        BY <2>1, <2>4, <3>2 DEF ElementsInv
      <3>3. ASSUME NEW i \in Kept(results[next]), e = Element(i, results[next], next)
            PROVE  /\ e.from \in 1 .. Len(results) /\ e.from < next + 1
                   /\ e.row \in Kept(results[e.from])
                   /\ e = Element(e.row, results[e.from], e.from)
        <4>1. i \in Indices
          BY Filtered
        <4>2. e.row = i /\ e.from = next
          BY <2>1, <2>3, <3>3, <4>1, ElementType DEF TypeOK, FlowTypeOK
        <4> QED BY <2>1, <3>3, <4>2
      <3> QED BY <3>1, <3>2, <3>3
    <2>6. ASSUME NEW e \in list', ~call'.calc
          PROVE  /\ e.from \in 1 .. Len(results') /\ e.from < next'
                 /\ e.row \in Kept(results[e.from])'
                 /\ e = Element(e.row, results[e.from], e.from)'
      BY <2>1, <2>4, <2>6 DEF Element, ValueBits, Kept, Fits
    <2> QED BY <2>6 DEF ElementsInv
  <1>11. CASE parse_done
    BY <1>a, <1>11 DEF parse_done, reads
  <1>12. CASE free_uninitialised
    BY <1>a, <1>12 DEF free_uninitialised, reads
  <1>13. CASE breakout_parse_results_value
    BY <1>13 DEF breakout_parse_results_value, FlowInv, ElementsInv
  <1>14. CASE breakout_value_validate_fails
    BY <1>a, <1>14 DEF breakout_value_validate_fails
  <1>15. CASE flatten_results
    BY <1>a, <1>15 DEF flatten_results
  <1>16. CASE breakout_call_driver
    BY <1>b, <1>16 DEF breakout_call_driver, FlowInv
  <1>17. CASE UNCHANGED vars
    BY <1>a, <1>17 DEF vars, reads
  <1> QED BY <1>1, <1>2, <1>3, <1>4, <1>5, <1>6, <1>7, <1>8, <1>9, <1>10, <1>11, <1>12,
             <1>13, <1>14, <1>15, <1>16, <1>17 DEF Next, Library


LEMMA BreakoutInit == Init => BreakoutInv
  <1> SUFFICES ASSUME Init PROVE BreakoutInv
    OBVIOUS
  <1>1. FlowTypeOK
    <2>1. call \in Requests
      BY RequestsAssumption DEF Init
    <2>2. info \in match_info
      BY DEF Init, NoInfo, match_info, Arches, ARCH_ARMV7A
    <2> QED BY <2>1, <2>2 DEF Init, FlowTypeOK
  <1>2. ReadsTypeOK
    <2>1. slots \in [CPUs -> Slots]
      BY BlankType DEF Init
    <2>2. results \in Seq(ioctl_result)
      BY EmptySeq DEF Init
    <2> QED BY <2>1, <2>2 DEF Init, ReadsTypeOK
  <1>3. results = <<>> /\ Len(results) = 0 /\ next = 1 /\ list = {} /\ pc = "idle"
    BY EmptySeq DEF Init
  <1>4. ListTypeOK
    BY <1>3 DEF ListTypeOK
  <1>5. FlowInv
    BY <1>3 DEF Init, FlowInv, NothingToDo, Ready
  <1>6. SlotsInv
    BY DEF Init, SlotsInv, Owned, Blank
  <1>7. CalcInv /\ ResultsInv /\ ElementsInv
    BY <1>3 DEF CalcInv, ResultsInv, ElementsInv
  <1> QED BY <1>1, <1>2, <1>4, <1>5, <1>6, <1>7 DEF BreakoutInv, TypeOK

\* The types, and the parts they rest on, hold always.
THEOREM BreakoutInvariant == Spec => []BreakoutInv
  <1>1. BreakoutInv /\ [Next]_vars => BreakoutInv'
    <2> SUFFICES ASSUME BreakoutInv, [Next]_vars PROVE BreakoutInv'
      OBVIOUS
    <2>1. FlowTypeOK'
      BY FlowTypeStep DEF BreakoutInv, TypeOK
    <2> QED BY <2>1, ReadsTypeStep, ListTypeStep, FlowStep, CalcStep, SlotsStep, ResultsStep,
               ElementsStep DEF BreakoutInv, TypeOK
  <1> QED BY BreakoutInit, <1>1, PTL DEF Spec

-----------------------------------------------------------------------------
(***************************************************************************)
(* What follows from it.                                                   *)
(***************************************************************************)
\* Every variable stays within its type (all of Breakout).
THEOREM BreakoutTypeCorrect == Spec => []TypeOK
  <1>1. BreakoutInv => TypeOK
    BY DEF BreakoutInv
  <1> QED BY <1>1, BreakoutInvariant, PTL

LEMMA ListedResult ==
  ASSUME BreakoutInv, ~call.calc, NEW e \in list
  PROVE  /\ e.from \in 1 .. Len(results) /\ e.row \in Indices /\ e.row \in Kept(results[e.from])
         /\ results[e.from] \in ioctl_result /\ ResultOK(results[e.from], e.from)
         /\ e = Element(e.row, results[e.from], e.from)
         /\ e.cpu = results[e.from].cpu /\ e.midr = results[e.from].midr
         /\ e.status = results[e.from].status /\ e.epl = results[e.from].epl
         /\ e.value = Shown(e.row, ValueBits(results[e.from].val))
         /\ Target(e.row) = Target(results[e.from].row)
  <1> DEFINE k == e.from
             r == results[k]
  <1>1. k \in 1 .. Len(results) /\ e.row \in Kept(r) /\ e = Element(e.row, r, k)
    BY DEF BreakoutInv, ElementsInv
  <1>2. r \in ioctl_result /\ r.row \in Indices
    <2>1. r \in ioctl_result
      BY <1>1, ElementOfSeq DEF BreakoutInv, TypeOK, ReadsTypeOK
    <2> QED BY <2>1 DEF ioctl_result
  <1>3. e.row \in Indices /\ Rows[e.row].reg = Rows[r.row].reg
    BY <1>1 DEF Kept, BreakoutInv, TypeOK, ReadsTypeOK
  <1>4. Target(e.row) = Target(r.row)
    BY <1>2, <1>3, SameTarget
  <1>5. ResultOK(r, k)
    BY <1>1 DEF BreakoutInv, ResultsInv
  <1>6. k \in Nat
    BY <1>1, LenProperties DEF BreakoutInv, TypeOK, ReadsTypeOK
  <1> HIDE DEF r, k
  <1>7. /\ Element(e.row, r, k).cpu = r.cpu /\ Element(e.row, r, k).midr = r.midr
        /\ Element(e.row, r, k).status = r.status /\ Element(e.row, r, k).epl = r.epl
        /\ Element(e.row, r, k).value = Shown(e.row, ValueBits(r.val))
    BY <1>2, <1>3, <1>6, ElementType DEF BreakoutInv, TypeOK, FlowTypeOK
  <1>8. /\ e.cpu = r.cpu /\ e.midr = r.midr /\ e.status = r.status /\ e.epl = r.epl
        /\ e.value = Shown(e.row, ValueBits(r.val))
    BY <1>1, <1>7
  <1> QED BY <1>1, <1>2, <1>3, <1>4, <1>5, <1>8 DEF r, k

\* With a value supplied its bits are shown, unless strtoll has ever failed
\* (set_match_info).
THEOREM SuppliedValueIsShown == Spec => []CalcTrue
  <1>1. BreakoutInv => CalcTrue
    <2> SUFFICES ASSUME BreakoutInv, NEW e \in list, call.calc
                 PROVE  \/ e.value = Shown(e.row, call.value)
                        \/ errno = "ERANGE" /\ e.value = Shown(e.row, Bits)
      BY DEF CalcTrue
    <2>1. e = CalcElement(e.row) /\ Supplied
      BY DEF BreakoutInv, CalcInv
    <2>2. e.row \in Indices
      BY DEF BreakoutInv, TypeOK, ListTypeOK, bitfield_info_populated
    <2>3. e.value = Shown(e.row, info.value)
      BY <2>1, <2>2, CalcElementType DEF BreakoutInv
    <2> QED BY <2>1, <2>3 DEF Supplied
  <1> QED BY <1>1, BreakoutInvariant, PTL

\* What the list says of a CPU comes from that CPU's slot
\* (breakout_call_driver).
THEOREM SlotsAreTheirOwn == Spec => []OwnSlot
  <1>1. BreakoutInv => OwnSlot
    <2> SUFFICES ASSUME BreakoutInv, NEW e \in list, e.epl = "NS_PL1"
                 PROVE  LET c == (e.from - 1) % MS_MAX_CPUS IN
                        \/ e.cpu = c /\ e.midr \in {c, NoCpu}
                        \/ e.cpu = 0 /\ e.midr = NoCpu /\ e.status # "SUCCESS"
      BY DEF OwnSlot
    <2>1. ~call.calc
      <3> SUFFICES ASSUME call.calc PROVE FALSE
        OBVIOUS
      <3>1. e.row \in Indices /\ e = CalcElement(e.row)
        BY DEF BreakoutInv, CalcInv, TypeOK, ListTypeOK, bitfield_info_populated
      <3> QED BY <3>1, CalcElementType DEF BreakoutInv
    <2> DEFINE c == (e.from - 1) % MS_MAX_CPUS
    <2>2. Owned(results[e.from], c) /\ Valid(results[e.from], Target(results[e.from].row), c)
      BY <2>1, ListedResult DEF ResultOK
    <2> HIDE DEF c
    <2>3. \/ e.cpu = c /\ e.midr \in {c, NoCpu}
          \/ e.cpu = 0 /\ e.midr = NoCpu /\ e.status # "SUCCESS"
      BY <2>1, <2>2, ListedResult DEF Owned, Valid
    <2> QED BY <2>3 DEF c
  <1> QED BY <1>1, BreakoutInvariant, PTL

\* A field that is shown holds what its register has on the CPU it is labelled
\* with, and its row is of a table of that CPU (breakout_filter_results).
THEOREM FieldsAreTrue == Spec => []FieldsTrue
  <1>1. BreakoutInv => FieldsTrue
    <2> SUFFICES ASSUME BreakoutInv, NEW e \in list, ~call.calc, e.status = "SUCCESS"
                 PROVE  \E c \in CPUs :
                          /\ e.value = Shown(e.row, Contents[board][<<Target(e.row), c>>])
                          /\ e.epl = "NS_PL1" =>
                                /\ e.cpu = c
                                /\ \/ Target(e.row) \in GicTargets
                                   \/ Rows[e.row].uid.part \in TablesOf(c)
      BY DEF FieldsTrue
    <2> DEFINE k == e.from
               r == results[k]
               t == Target(e.row)
    <2>1. /\ k \in 1 .. Len(results) /\ e.row \in Indices /\ e.row \in Kept(r)
          /\ r \in ioctl_result /\ ResultOK(r, k) /\ e.cpu = r.cpu /\ e.midr = r.midr
          /\ r.status = "SUCCESS" /\ e.epl = r.epl /\ e.value = Shown(e.row, ValueBits(r.val))
          /\ t = Target(r.row)
      BY ListedResult
    <2>2. t \in Targets
      BY <2>1, RowType
    <2> HIDE DEF r, k, t
    <2>3. \A c \in CPUs : ValueBits(<<t, c>>) = Contents[board][<<t, c>>]
      BY <2>2, ReadsAssumption DEF ValueBits
    <2>4. CASE r.epl = "NS_PL1"
      <3> DEFINE c == (k - 1) % MS_MAX_CPUS
      <3>1. c \in CPUs
        <4>1. MS_MAX_CPUS \in Nat /\ MS_MAX_CPUS > 0 /\ k - 1 \in Nat
          BY <2>1, ReadsAssumption, LenProperties DEF BreakoutInv, TypeOK, ReadsTypeOK
        <4> QED BY <4>1, DivMod DEF CPUs
      <3>2. Owned(r, c) /\ Valid(r, t, c)
        BY <2>1, <2>4 DEF ResultOK
      <3> HIDE DEF c
      <3>3. r.cpu = c /\ r.val = <<t, c>> /\ (r.midr = c \/ t \in GicTargets)
        BY <2>1, <3>2 DEF Valid
      <3>4. t \in GicTargets \/ Rows[e.row].uid.part \in TablesOf(c)
        <4> SUFFICES ASSUME r.midr = c PROVE Rows[e.row].uid.part \in TablesOf(c)
          BY <3>3
        <4>1. c # NoCpu
          BY <3>1, ReadsAssumption
        <4>2. Rows[e.row].uid.part \in
                {get_impl_from_midr(Part[board][c]), get_arch_from_midr(Part[board][c])}
          BY <2>1, <4>1 DEF Kept, Fits
        <4>3. Rows[e.row].uid.part # NoPart
          <5>1. Rows[e.row].uid.part \in 0 .. 31
            BY <2>1, RowType
          <5> QED BY <5>1 DEF NoPart
        <4>4. CASE Part[board][c] \in Cortexes
          BY <4>2, <4>3, <4>4 DEF TablesOf, get_impl_from_midr, get_arch_from_midr
        <4>5. CASE Part[board][c] \notin Cortexes
          BY <4>2, <4>3, <4>5 DEF get_impl_from_midr, get_arch_from_midr, get_arch_from_impl,
               NoPart, IMPL_CORTEX_A7, IMPL_CORTEX_A9, IMPL_CORTEX_A15, IMPL_CORTEX_A53,
               IMPL_CORTEX_A57
        <4> QED BY <4>4, <4>5
      <3> QED BY <2>1, <2>3, <3>1, <3>3, <3>4 DEF t
    <2>5. CASE r.epl = "NS_PL0"
      <3>1. PICK c \in CPUs : r.val = <<t, c>>
        BY <2>1, <2>5 DEF ResultOK
      <3> QED BY <2>1, <2>3, <2>5, <3>1 DEF t
    <2>6. r.epl \in Levels
      BY <2>1 DEF ioctl_result
    <2> QED BY <2>4, <2>5, <2>6 DEF Levels
  <1> QED BY <1>1, BreakoutInvariant, PTL
=============================================================================
