--------------------------- MODULE SessionProofs ---------------------------
(***************************************************************************)
(* Theorems about Session, for any tables and any set of mishaps: what the *)
(* program gets back, what is left behind, and what the results say.       *)
(***************************************************************************)
EXTENDS Session, TLAPS

\* Where the device is open in a call that reads registers, and where only such a
\* call gets.
Answering == {"driver", "user", "read", "status", "parse"}
Working == {"match", "table", "search", "flatten"} \cup Answering
FindOnly == {"register", "open", "stop"} \cup Answering

\* The register being read has a row and is still to be read.
CurInv == pc \in {"read", "status"} => cur \in todo \ (NoRow \cup {NullRow})
TypeInv == TypeOK /\ CurInv

\* The device is open exactly while a call that reads registers is at work.
FlowInv ==
    /\ pc \in FindOnly => call.kind = "find"
    /\ fd => call.kind = "find" /\ pc \in Working \cup {"stop"}
    /\ call.kind = "find" /\ pc \in Working => fd

\* An open device means that the library's handler is installed; unless a device
\* did not open, the handler to put back is then the program's.
SignalInv ==
    /\ fd \/ pc = "open" => sig = "ms" /\ regd
    /\ ~blocked
    /\ pc = "read" <=> jmp = "live"
    /\ "no device" \notin struck =>
         IF sig = "ms" THEN saved = own /\ (fd \/ pc = "open") ELSE sig = own

\* The flag of a fault is up only until its own read is judged.
FaultInv ==
    /\ pc = "read" => val = NoCode
    /\ illsig = 1 <=> pc = "status" /\ cur \in Faulting
    /\ pc = "status" => val = IF cur \in Faulting THEN NoCode ELSE cur

GoodResult(g) ==
    CASE g.status = "SUCCESS" -> g.val = g.reg /\ g.reg \notin Faulting
      [] g.status = "ILLINST" -> g.val = NoCode /\ g.reg \in Faulting
      [] g.status = "TABLE" -> g.reg = NullRow

Answered == {g.reg : g \in got}

ResultInv ==
    /\ \A g \in got : GoodResult(g)
    /\ pc \in {"register", "open", "match", "table", "search", "driver"} => got = {}
    /\ pc = "driver" => todo = asked
    /\ pc \in {"user", "read", "status", "parse"} => Answered = asked \ (todo \cup NoRow)
    /\ pc = "parse" => todo = {}

\* What only a mishap brings about.
LuckInv ==
    /\ pc = "idle" => heap = {}
    /\ pc = "search" /\ struck = {} => heap # {}
    /\ pc \in Answering /\ struck = {} => driven \/ ~(asked \subseteq NoRow)
    /\ struck = {} => list # "garbage" /\ prog = "ok"

SessionInv == TypeInv /\ FlowInv /\ SignalInv /\ FaultInv /\ ResultInv /\ LuckInv
-----------------------------------------------------------------------------
LEMMA SessionInvInit == Init => SessionInv
  <1> SUFFICES ASSUME Init PROVE SessionInv
    OBVIOUS
  <1> USE CodesAssumption, MishapsAssumption DEF Init
  <1>1. TypeInv
    BY DEF TypeInv, TypeOK, CallTypeOK, SignalTypeOK, DeviceTypeOK, ReadTypeOK,
             CurInv,
           Pcs, Kinds, Actions
  <1>2. FlowInv /\ SignalInv /\ FaultInv /\ LuckInv
    BY DEF FlowInv, SignalInv, FaultInv, LuckInv, Working, FindOnly, Answering
  <1>3. ResultInv
    BY DEF ResultInv, Answered
  <1> QED BY <1>1, <1>2, <1>3 DEF SessionInv

\* Types.
LEMMA TypeInvStep ==
    ASSUME TypeInv, [Next]_vars
    PROVE  TypeInv'
  <1> USE CodesAssumption, MishapsAssumption DEF TypeInv, TypeOK, CallTypeOK,
           SignalTypeOK, DeviceTypeOK, ReadTypeOK,
             CurInv, Pcs, Kinds, Actions, tables, signals, reads, rest
  <1>1. CASE register_signal_handlers
    BY <1>1 DEF register_signal_handlers
  <1>2. CASE start_test
    <2>11. CallTypeOK'
      BY <1>2 DEF start_test, Strikes
    <2>12. SignalTypeOK'
      BY <1>2 DEF start_test, Strikes
    <2>13. DeviceTypeOK'
      BY <1>2 DEF start_test, Strikes
    <2>14. ReadTypeOK'
      BY <1>2 DEF start_test, Strikes
    <2>15. CurInv'
      BY <1>2 DEF start_test, Strikes
    <2> QED BY <2>11, <2>12, <2>13, <2>14, <2>15
  <1>3. CASE set_match_info
    BY <1>3 DEF set_match_info, CleanUp
  <1>4. CASE read_tables_to_memory
    <2>11. CallTypeOK'
      BY <1>4 DEF read_tables_to_memory, Strikes, Rows, Codes
    <2>12. SignalTypeOK'
      BY <1>4 DEF read_tables_to_memory, Strikes, Rows, Codes
    <2>13. DeviceTypeOK'
      BY <1>4 DEF read_tables_to_memory, Strikes, Rows, Codes
    <2>14. ReadTypeOK'
      BY <1>4 DEF read_tables_to_memory, Strikes, Rows, Codes
    <2>15. CurInv'
      BY <1>4 DEF read_tables_to_memory, Strikes, Rows, Codes
    <2> QED BY <2>11, <2>12, <2>13, <2>14, <2>15
  <1>5. CASE SearchNull
    BY <1>5 DEF SearchNull
  <1>6. CASE SearchOnly
    BY <1>6 DEF SearchOnly
  <1>7. CASE breakout_search_table
    <2>11. CallTypeOK'
      BY <1>7 DEF breakout_search_table, Strikes
    <2>12. SignalTypeOK'
      BY <1>7 DEF breakout_search_table, Strikes
    <2>13. DeviceTypeOK'
      BY <1>7 DEF breakout_search_table, Strikes
    <2>14. ReadTypeOK'
      BY <1>7 DEF breakout_search_table, Strikes
    <2>15. CurInv'
      BY <1>7 DEF breakout_search_table, Strikes
    <2> QED BY <2>11, <2>12, <2>13, <2>14, <2>15
  <1>8. CASE breakout_call_driver
    BY <1>8 DEF breakout_call_driver
  <1>9. CASE \E c \in Codes : usermode_no_row(c)
    <2> PICK c \in Codes : usermode_no_row(c)
      BY <1>9
    <2> QED BY DEF usermode_no_row
  <1>10. CASE \E c \in Codes : usermode_table(c)
    <2> PICK c \in Codes : usermode_table(c)
      BY <1>10
    <2> QED BY DEF usermode_table, Result
  <1>11. CASE \E c \in Codes : try_command(c)
    <2> PICK c \in Codes : try_command(c)
      BY <1>11
    <2> QED BY DEF try_command
  <1>12. CASE ReadReturns
    BY <1>12 DEF ReadReturns
  <1>13. CASE ms_signal_handler
    <2>11. CallTypeOK'
      BY <1>13 DEF ms_signal_handler
    <2>12. SignalTypeOK'
      BY <1>13 DEF ms_signal_handler
    <2>13. DeviceTypeOK'
      BY <1>13 DEF ms_signal_handler
    <2>14. ReadTypeOK'
      BY <1>13 DEF ms_signal_handler
    <2>15. CurInv'
      BY <1>13 DEF ms_signal_handler
    <2> QED BY <2>11, <2>12, <2>13, <2>14, <2>15
  <1>14. CASE KilledBySigill
    BY <1>14 DEF KilledBySigill
  <1>15. CASE set_status_flag
    BY <1>15 DEF set_status_flag, Result
  <1>16. CASE usermode_done
    BY <1>16 DEF usermode_done
  <1>17. CASE breakout_parse_results
    BY <1>17 DEF breakout_parse_results, FreeGarbage
  <1>18. CASE flatten_results
    <2>11. CallTypeOK'
      BY <1>18 DEF flatten_results, Strikes, CleanUp
    <2>12. SignalTypeOK'
      BY <1>18 DEF flatten_results, Strikes, CleanUp
    <2>13. DeviceTypeOK'
      BY <1>18 DEF flatten_results, Strikes, CleanUp
    <2>14. ReadTypeOK'
      BY <1>18 DEF flatten_results, Strikes, CleanUp
    <2>15. CurInv'
      BY <1>18 DEF flatten_results, Strikes, CleanUp
    <2> QED BY <2>11, <2>12, <2>13, <2>14, <2>15
  <1>19. CASE stop_test
    <2>11. CallTypeOK'
      BY <1>19 DEF stop_test
    <2>12. SignalTypeOK'
      BY <1>19 DEF stop_test
    <2>13. DeviceTypeOK'
      BY <1>19 DEF stop_test
    <2>14. ReadTypeOK'
      BY <1>19 DEF stop_test
    <2>15. CurInv'
      BY <1>19 DEF stop_test
    <2> QED BY <2>11, <2>12, <2>13, <2>14, <2>15
  <1>20. CASE ms_list_free
    BY <1>20 DEF ms_list_free, FreeGarbage
  <1>21. CASE erase_tables
    BY <1>21 DEF erase_tables
  <1>22. CASE \E kind \in Kinds, dev, null \in BOOLEAN : ApiCall(kind, dev, null)
    <2> PICK kind \in Kinds, dev, null \in BOOLEAN : ApiCall(kind, dev, null)
      BY <1>22
    <2>1. \/ null /\ kind = "find" /\ pc' = "stop"
          \/ null /\ kind # "find" /\ pc' = "free"
          \/ ~null /\ kind = "find" /\ pc' = "register"
          \/ ~null /\ kind = "calc" /\ pc' = "match"
          \/ ~null /\ kind = "get" /\ pc' = "table"
      BY DEF ApiCall, CleanUp, Kinds
    <2>11. CallTypeOK'
      BY <2>1 DEF ApiCall, Strikes
    <2>12. SignalTypeOK'
      BY <2>1 DEF ApiCall, Strikes
    <2>13. DeviceTypeOK'
      BY <2>1 DEF ApiCall, Strikes
    <2>14. ReadTypeOK'
      BY <2>1 DEF ApiCall, Strikes
    <2>15. CurInv'
      BY <2>1 DEF ApiCall, Strikes
    <2> QED BY <2>11, <2>12, <2>13, <2>14, <2>15
  <1>23. CASE \E a \in {"default", "program"} : ProgramSigaction(a)
    BY <1>23 DEF ProgramSigaction
  <1>24. CASE ProgramTrap
    BY <1>24 DEF ProgramTrap
  <1>25. CASE UNCHANGED vars
    BY <1>25 DEF vars
  <1> QED BY <1>1, <1>2, <1>3, <1>4, <1>5, <1>6, <1>7, <1>8, <1>9, <1>10, <1>11,
           <1>12, <1>13, <1>14, <1>15, <1>16, <1>17, <1>18, <1>19, <1>20, <1>21,
           <1>22, <1>23, <1>24, <1>25 DEF Next, Library, Program

\* Only start_test opens the device, and the way out of a call that opened it leads
\* through stop_test.
LEMMA FlowInvStep ==
    ASSUME TypeInv, FlowInv, [Next]_vars
    PROVE  FlowInv'
  <1> USE CodesAssumption, MishapsAssumption DEF TypeInv, TypeOK, CallTypeOK,
           DeviceTypeOK, Kinds, FlowInv, Working, FindOnly,
             Answering, tables, signals, reads, rest
  <1>1. CASE register_signal_handlers
    BY <1>1 DEF register_signal_handlers
  <1>2. CASE start_test
    BY <1>2 DEF start_test, Strikes
  <1>3. CASE set_match_info
    BY <1>3 DEF set_match_info, CleanUp
  <1>4. CASE read_tables_to_memory
    BY <1>4 DEF read_tables_to_memory, Strikes, Rows
  <1>5. CASE SearchNull
    BY <1>5 DEF SearchNull
  <1>6. CASE SearchOnly
    BY <1>6 DEF SearchOnly
  <1>7. CASE breakout_search_table
    BY <1>7 DEF breakout_search_table, Strikes
  <1>8. CASE breakout_call_driver
    BY <1>8 DEF breakout_call_driver
  <1>9. CASE \E c \in Codes : usermode_no_row(c)
    <2> PICK c \in Codes : usermode_no_row(c)
      BY <1>9
    <2> QED BY DEF usermode_no_row
  <1>10. CASE \E c \in Codes : usermode_table(c)
    <2> PICK c \in Codes : usermode_table(c)
      BY <1>10
    <2> QED BY DEF usermode_table, Result
  <1>11. CASE \E c \in Codes : try_command(c)
    <2> PICK c \in Codes : try_command(c)
      BY <1>11
    <2> QED BY DEF try_command
  <1>12. CASE ReadReturns
    BY <1>12 DEF ReadReturns
  <1>13. CASE ms_signal_handler
    BY <1>13 DEF ms_signal_handler
  <1>14. CASE KilledBySigill
    BY <1>14 DEF KilledBySigill
  <1>15. CASE set_status_flag
    BY <1>15 DEF set_status_flag, Result
  <1>16. CASE usermode_done
    BY <1>16 DEF usermode_done
  <1>17. CASE breakout_parse_results
    BY <1>17 DEF breakout_parse_results, FreeGarbage
  <1>18. CASE flatten_results
    BY <1>18 DEF flatten_results, Strikes, CleanUp
  <1>19. CASE stop_test
    BY <1>19 DEF stop_test
  <1>20. CASE ms_list_free
    BY <1>20 DEF ms_list_free, FreeGarbage
  <1>21. CASE erase_tables
    BY <1>21 DEF erase_tables
  <1>22. CASE \E kind \in Kinds, dev, null \in BOOLEAN : ApiCall(kind, dev, null)
    <2> PICK kind \in Kinds, dev, null \in BOOLEAN : ApiCall(kind, dev, null)
      BY <1>22
    <2>1. \/ null /\ kind = "find" /\ pc' = "stop"
          \/ null /\ kind # "find" /\ pc' = "free"
          \/ ~null /\ kind = "find" /\ pc' = "register"
          \/ ~null /\ kind = "calc" /\ pc' = "match"
          \/ ~null /\ kind = "get" /\ pc' = "table"
      BY DEF ApiCall, CleanUp, Kinds
    <2>2. fd' = fd /\ call' = [kind |-> kind, dev |-> dev] /\ pc = "idle"
      BY DEF ApiCall
    <2> QED BY <2>1, <2>2
  <1>23. CASE \E a \in {"default", "program"} : ProgramSigaction(a)
    BY <1>23 DEF ProgramSigaction
  <1>24. CASE ProgramTrap
    BY <1>24 DEF ProgramTrap
  <1>25. CASE UNCHANGED vars
    BY <1>25 DEF vars
  <1> QED BY <1>1, <1>2, <1>3, <1>4, <1>5, <1>6, <1>7, <1>8, <1>9, <1>10, <1>11,
           <1>12, <1>13, <1>14, <1>15, <1>16, <1>17, <1>18, <1>19, <1>20, <1>21,
           <1>22, <1>23, <1>24, <1>25 DEF Next, Library, Program

\* The SIGILL action changes hands in register_signal_handlers and stop_test.
LEMMA SignalInvStep ==
    ASSUME TypeInv, FlowInv, SignalInv, [Next]_vars
    PROVE  SignalInv'
  <1> USE CodesAssumption, MishapsAssumption DEF TypeInv, TypeOK, SignalTypeOK,
           DeviceTypeOK, Actions, FlowInv, Working,
             FindOnly, Answering, SignalInv, tables, signals, reads, rest
  <1>1. CASE register_signal_handlers
    BY <1>1 DEF register_signal_handlers
  <1>2. CASE start_test
    BY <1>2 DEF start_test, Strikes
  <1>3. CASE set_match_info
    BY <1>3 DEF set_match_info, CleanUp
  <1>4. CASE read_tables_to_memory
    BY <1>4 DEF read_tables_to_memory, Strikes, Rows
  <1>5. CASE SearchNull
    BY <1>5 DEF SearchNull
  <1>6. CASE SearchOnly
    BY <1>6 DEF SearchOnly
  <1>7. CASE breakout_search_table
    BY <1>7 DEF breakout_search_table, Strikes
  <1>8. CASE breakout_call_driver
    BY <1>8 DEF breakout_call_driver
  <1>9. CASE \E c \in Codes : usermode_no_row(c)
    <2> PICK c \in Codes : usermode_no_row(c)
      BY <1>9
    <2> QED BY DEF usermode_no_row
  <1>10. CASE \E c \in Codes : usermode_table(c)
    <2> PICK c \in Codes : usermode_table(c)
      BY <1>10
    <2> QED BY DEF usermode_table, Result
  <1>11. CASE \E c \in Codes : try_command(c)
    <2> PICK c \in Codes : try_command(c)
      BY <1>11
    <2> QED BY DEF try_command
  <1>12. CASE ReadReturns
    BY <1>12 DEF ReadReturns
  <1>13. CASE ms_signal_handler
    BY <1>13 DEF ms_signal_handler
  <1>14. CASE KilledBySigill
    BY <1>14 DEF KilledBySigill
  <1>15. CASE set_status_flag
    BY <1>15 DEF set_status_flag, Result
  <1>16. CASE usermode_done
    BY <1>16 DEF usermode_done
  <1>17. CASE breakout_parse_results
    BY <1>17 DEF breakout_parse_results, FreeGarbage
  <1>18. CASE flatten_results
    BY <1>18 DEF flatten_results, Strikes, CleanUp
  <1>19. CASE stop_test
    BY <1>19 DEF stop_test
  <1>20. CASE ms_list_free
    BY <1>20 DEF ms_list_free, FreeGarbage
  <1>21. CASE erase_tables
    BY <1>21 DEF erase_tables
  <1>22. CASE \E kind \in Kinds, dev, null \in BOOLEAN : ApiCall(kind, dev, null)
    <2> PICK kind \in Kinds, dev, null \in BOOLEAN : ApiCall(kind, dev, null)
      BY <1>22
    <2>1. \/ null /\ kind = "find" /\ pc' = "stop"
          \/ null /\ kind # "find" /\ pc' = "free"
          \/ ~null /\ kind = "find" /\ pc' = "register"
          \/ ~null /\ kind = "calc" /\ pc' = "match"
          \/ ~null /\ kind = "get" /\ pc' = "table"
      BY DEF ApiCall, CleanUp, Kinds
    <2>2. UNCHANGED <<signals, fd>> /\ pc = "idle" /\ struck \subseteq struck'
      BY DEF ApiCall, Strikes
    <2> QED BY <2>1, <2>2
  <1>23. CASE \E a \in {"default", "program"} : ProgramSigaction(a)
    <2> PICK a \in {"default", "program"} : ProgramSigaction(a)
      BY <1>23
    <2> QED BY DEF ProgramSigaction
  <1>24. CASE ProgramTrap
    BY <1>24 DEF ProgramTrap
  <1>25. CASE UNCHANGED vars
    BY <1>25 DEF vars
  <1> QED BY <1>1, <1>2, <1>3, <1>4, <1>5, <1>6, <1>7, <1>8, <1>9, <1>10, <1>11,
           <1>12, <1>13, <1>14, <1>15, <1>16, <1>17, <1>18, <1>19, <1>20, <1>21,
           <1>22, <1>23, <1>24, <1>25 DEF Next, Library, Program

\* The handler raises the flag, set_status_flag lowers it.
LEMMA FaultInvStep ==
    ASSUME TypeInv, SignalInv, FaultInv, [Next]_vars
    PROVE  FaultInv'
  <1> USE CodesAssumption, MishapsAssumption DEF TypeInv, TypeOK, SignalTypeOK,
           CurInv, SignalInv, FaultInv, tables, signals, reads, rest
  <1>1. CASE register_signal_handlers
    BY <1>1 DEF register_signal_handlers
  <1>2. CASE start_test
    BY <1>2 DEF start_test, Strikes
  <1>3. CASE set_match_info
    BY <1>3 DEF set_match_info, CleanUp
  <1>4. CASE read_tables_to_memory
    BY <1>4 DEF read_tables_to_memory, Strikes, Rows
  <1>5. CASE SearchNull
    BY <1>5 DEF SearchNull
  <1>6. CASE SearchOnly
    BY <1>6 DEF SearchOnly
  <1>7. CASE breakout_search_table
    BY <1>7 DEF breakout_search_table, Strikes
  <1>8. CASE breakout_call_driver
    BY <1>8 DEF breakout_call_driver
  <1>9. CASE \E c \in Codes : usermode_no_row(c)
    <2> PICK c \in Codes : usermode_no_row(c)
      BY <1>9
    <2> QED BY DEF usermode_no_row
  <1>10. CASE \E c \in Codes : usermode_table(c)
    <2> PICK c \in Codes : usermode_table(c)
      BY <1>10
    <2> QED BY DEF usermode_table, Result
  <1>11. CASE \E c \in Codes : try_command(c)
    <2> PICK c \in Codes : try_command(c)
      BY <1>11
    <2> QED BY DEF try_command
  <1>12. CASE ReadReturns
    BY <1>12 DEF ReadReturns
  <1>13. CASE ms_signal_handler
    BY <1>13 DEF ms_signal_handler
  <1>14. CASE KilledBySigill
    BY <1>14 DEF KilledBySigill
  <1>15. CASE set_status_flag
    <2>1. pc' = "user" /\ illsig' = 0 /\ cur' = cur /\ val' = val
      BY <1>15 DEF set_status_flag
    <2>2. ~(illsig' = 1) /\ ~(pc' \in {"read", "status"})
      BY ONLY <2>1
    <2> QED BY <2>2
  <1>16. CASE usermode_done
    BY <1>16 DEF usermode_done
  <1>17. CASE breakout_parse_results
    BY <1>17 DEF breakout_parse_results, FreeGarbage
  <1>18. CASE flatten_results
    BY <1>18 DEF flatten_results, Strikes, CleanUp
  <1>19. CASE stop_test
    BY <1>19 DEF stop_test
  <1>20. CASE ms_list_free
    BY <1>20 DEF ms_list_free, FreeGarbage
  <1>21. CASE erase_tables
    BY <1>21 DEF erase_tables
  <1>22. CASE \E kind \in Kinds, dev, null \in BOOLEAN : ApiCall(kind, dev, null)
    <2> PICK kind \in Kinds, dev, null \in BOOLEAN : ApiCall(kind, dev, null)
      BY <1>22
    <2>1. UNCHANGED <<signals, tables, fd, prog>> /\ call' = [kind |-> kind, dev |-> dev]
      BY DEF ApiCall
    <2> QED BY <2>1 DEF ApiCall, Strikes, CleanUp
  <1>23. CASE \E a \in {"default", "program"} : ProgramSigaction(a)
    BY <1>23 DEF ProgramSigaction
  <1>24. CASE ProgramTrap
    BY <1>24 DEF ProgramTrap
  <1>25. CASE UNCHANGED vars
    BY <1>25 DEF vars
  <1> QED BY <1>1, <1>2, <1>3, <1>4, <1>5, <1>6, <1>7, <1>8, <1>9, <1>10, <1>11,
           <1>12, <1>13, <1>14, <1>15, <1>16, <1>17, <1>18, <1>19, <1>20, <1>21,
           <1>22, <1>23, <1>24, <1>25 DEF Next, Library, Program

\* A register leaves the list of those to be read together with its result.
LEMMA ResultInvStep ==
    ASSUME TypeInv, FaultInv, ResultInv, [Next]_vars
    PROVE  ResultInv'
  <1> USE CodesAssumption, MishapsAssumption DEF TypeInv, TypeOK, ReadTypeOK,
           SignalTypeOK, CurInv, FaultInv, ResultInv, Answered,
             GoodResult, tables, signals, reads, rest
  <1>1. CASE register_signal_handlers
    BY <1>1 DEF register_signal_handlers
  <1>2. CASE start_test
    BY <1>2 DEF start_test, Strikes
  <1>3. CASE set_match_info
    BY <1>3 DEF set_match_info, CleanUp
  <1>4. CASE read_tables_to_memory
    BY <1>4 DEF read_tables_to_memory, Strikes, Rows
  <1>5. CASE SearchNull
    BY <1>5 DEF SearchNull
  <1>6. CASE SearchOnly
    BY <1>6 DEF SearchOnly
  <1>7. CASE breakout_search_table
    BY <1>7 DEF breakout_search_table, Strikes
  <1>8. CASE breakout_call_driver
    BY <1>8 DEF breakout_call_driver
  <1>9. CASE \E c \in Codes : usermode_no_row(c)
    <2> PICK c \in Codes : usermode_no_row(c)
      BY <1>9
    <2> QED BY DEF usermode_no_row
  <1>10. CASE \E c \in Codes : usermode_table(c)
    <2> PICK c \in Codes : usermode_table(c)
      BY <1>10
    <2>1. got' = got \cup {Result(c, NoCode, "TABLE")} /\ GoodResult(Result(c, NoCode, "TABLE"))
      BY DEF usermode_table, Result
    <2>2. Answered' = Answered \cup {c} /\ \A g \in got' : GoodResult(g)
      BY <2>1 DEF Result
    <2>3. pc = "user" /\ pc' = pc /\ asked' = asked /\ todo' = todo \ {c} /\ c \in todo \ NoRow
      BY DEF usermode_table
    <2> QED BY <2>2, <2>3
  <1>11. CASE \E c \in Codes : try_command(c)
    <2> PICK c \in Codes : try_command(c)
      BY <1>11
    <2> QED BY DEF try_command
  <1>12. CASE ReadReturns
    BY <1>12 DEF ReadReturns
  <1>13. CASE ms_signal_handler
    BY <1>13 DEF ms_signal_handler
  <1>14. CASE KilledBySigill
    BY <1>14 DEF KilledBySigill
  <1>15. CASE set_status_flag
    <2> DEFINE s == IF illsig >= 1 THEN "ILLINST" ELSE "SUCCESS"
               g == Result(cur, val, s)
    <2>1. pc = "status" /\ pc' = "user" /\ asked' = asked /\ todo' = todo \ {cur}
          /\ got' = got \cup {g}
      BY <1>15 DEF set_status_flag
    <2>2. s = (IF cur \in Faulting THEN "ILLINST" ELSE "SUCCESS")
          /\ val = (IF cur \in Faulting THEN NoCode ELSE cur)
      <3>1. illsig = 1 <=> cur \in Faulting
        BY <2>1
      <3>2. illsig \in {0, 1}
        OBVIOUS
      <3>3. s = (IF cur \in Faulting THEN "ILLINST" ELSE "SUCCESS")
        BY ONLY <3>1, <3>2
      <3> QED BY <3>3, <2>1
    <2>3. g.reg = cur /\ g.val = val /\ g.status = s
      BY DEF Result
    <2> HIDE DEF g, s
    <2>4. GoodResult(g)
      BY ONLY <2>2, <2>3 DEF GoodResult
    <2>5. \A h \in got' : GoodResult(h)
      BY <2>1, <2>4
    <2>6. Answered' = Answered \cup {cur}
      BY ONLY <2>1, <2>3 DEF Answered
    <2>7. cur \in todo \ NoRow /\ todo \subseteq asked /\ Answered = asked \ (todo \cup NoRow)
      BY <2>1
    <2> QED BY ONLY <2>1, <2>5, <2>6, <2>7 DEF ResultInv
  <1>16. CASE usermode_done
    BY <1>16 DEF usermode_done
  <1>17. CASE breakout_parse_results
    BY <1>17 DEF breakout_parse_results, FreeGarbage
  <1>18. CASE flatten_results
    BY <1>18 DEF flatten_results, Strikes, CleanUp
  <1>19. CASE stop_test
    BY <1>19 DEF stop_test
  <1>20. CASE ms_list_free
    BY <1>20 DEF ms_list_free, FreeGarbage
  <1>21. CASE erase_tables
    BY <1>21 DEF erase_tables
  <1>22. CASE \E kind \in Kinds, dev, null \in BOOLEAN : ApiCall(kind, dev, null)
    <2> PICK kind \in Kinds, dev, null \in BOOLEAN : ApiCall(kind, dev, null)
      BY <1>22
    <2>1. UNCHANGED <<signals, tables, fd, prog>> /\ call' = [kind |-> kind, dev |-> dev]
      BY DEF ApiCall
    <2> QED BY <2>1 DEF ApiCall, Strikes, CleanUp
  <1>23. CASE \E a \in {"default", "program"} : ProgramSigaction(a)
    BY <1>23 DEF ProgramSigaction
  <1>24. CASE ProgramTrap
    BY <1>24 DEF ProgramTrap
  <1>25. CASE UNCHANGED vars
    BY <1>25 DEF vars
  <1> QED BY <1>1, <1>2, <1>3, <1>4, <1>5, <1>6, <1>7, <1>8, <1>9, <1>10, <1>11,
           <1>12, <1>13, <1>14, <1>15, <1>16, <1>17, <1>18, <1>19, <1>20, <1>21,
           <1>22, <1>23, <1>24, <1>25 DEF Next, Library, Program

\* Without a mishap nothing is freed uninitialised and every fault is caught.
LEMMA LuckInvStep ==
    ASSUME SessionInv, [Next]_vars
    PROVE  LuckInv'
  <1> USE CodesAssumption, MishapsAssumption DEF SessionInv, TypeInv, TypeOK,
           CallTypeOK, DeviceTypeOK, CurInv, FlowInv, SignalInv,
             ResultInv, Answered, LuckInv, Working, FindOnly, Answering, tables,
                      signals, reads, rest
  <1>1. CASE register_signal_handlers
    BY <1>1 DEF register_signal_handlers
  <1>2. CASE start_test
    BY <1>2 DEF start_test, Strikes
  <1>3. CASE set_match_info
    BY <1>3 DEF set_match_info, CleanUp
  <1>4. CASE read_tables_to_memory
    BY <1>4 DEF read_tables_to_memory, Strikes, Rows
  <1>5. CASE SearchNull
    BY <1>5 DEF SearchNull
  <1>6. CASE SearchOnly
    BY <1>6 DEF SearchOnly
  <1>7. CASE breakout_search_table
    BY <1>7 DEF breakout_search_table, Strikes
  <1>8. CASE breakout_call_driver
    BY <1>8 DEF breakout_call_driver
  <1>9. CASE \E c \in Codes : usermode_no_row(c)
    <2> PICK c \in Codes : usermode_no_row(c)
      BY <1>9
    <2> QED BY DEF usermode_no_row
  <1>10. CASE \E c \in Codes : usermode_table(c)
    <2> PICK c \in Codes : usermode_table(c)
      BY <1>10
    <2> QED BY DEF usermode_table, Result
  <1>11. CASE \E c \in Codes : try_command(c)
    <2> PICK c \in Codes : try_command(c)
      BY <1>11
    <2> QED BY DEF try_command
  <1>12. CASE ReadReturns
    BY <1>12 DEF ReadReturns
  <1>13. CASE ms_signal_handler
    BY <1>13 DEF ms_signal_handler
  <1>14. CASE KilledBySigill
    BY <1>14 DEF KilledBySigill
  <1>15. CASE set_status_flag
    BY <1>15 DEF set_status_flag, Result
  <1>16. CASE usermode_done
    BY <1>16 DEF usermode_done
  <1>17. CASE breakout_parse_results
    BY <1>17 DEF breakout_parse_results, FreeGarbage
  <1>18. CASE flatten_results
    BY <1>18 DEF flatten_results, Strikes, CleanUp
  <1>19. CASE stop_test
    BY <1>19 DEF stop_test
  <1>20. CASE ms_list_free
    BY <1>20 DEF ms_list_free, FreeGarbage
  <1>21. CASE erase_tables
    BY <1>21 DEF erase_tables
  <1>22. CASE \E kind \in Kinds, dev, null \in BOOLEAN : ApiCall(kind, dev, null)
    <2> PICK kind \in Kinds, dev, null \in BOOLEAN : ApiCall(kind, dev, null)
      BY <1>22
    <2>1. \/ null /\ kind = "find" /\ pc' = "stop"
          \/ null /\ kind # "find" /\ pc' = "free"
          \/ ~null /\ kind = "find" /\ pc' = "register"
          \/ ~null /\ kind = "calc" /\ pc' = "match"
          \/ ~null /\ kind = "get" /\ pc' = "table"
      BY DEF ApiCall, CleanUp, Kinds
    <2>2. heap' = heap /\ pc = "idle" /\ prog' = prog /\ struck \subseteq struck'
      BY DEF ApiCall, Strikes
    <2>3. struck' = {} => list' # "garbage"
      BY DEF ApiCall, Strikes
    <2> QED BY <2>1, <2>2, <2>3
  <1>23. CASE \E a \in {"default", "program"} : ProgramSigaction(a)
    BY <1>23 DEF ProgramSigaction
  <1>24. CASE ProgramTrap
    BY <1>24 DEF ProgramTrap
  <1>25. CASE UNCHANGED vars
    BY <1>25 DEF vars
  <1> QED BY <1>1, <1>2, <1>3, <1>4, <1>5, <1>6, <1>7, <1>8, <1>9, <1>10, <1>11,
           <1>12, <1>13, <1>14, <1>15, <1>16, <1>17, <1>18, <1>19, <1>20, <1>21,
           <1>22, <1>23, <1>24, <1>25 DEF Next, Library, Program

LEMMA SessionInvStep == SessionInv /\ [Next]_vars => SessionInv'
  BY TypeInvStep, FlowInvStep, SignalInvStep, FaultInvStep, ResultInvStep, LuckInvStep
     DEF SessionInv

LEMMA SessionInvariant == Spec => []SessionInv
  BY SessionInvInit, SessionInvStep, PTL DEF Spec
-----------------------------------------------------------------------------
\* Whatever calls the program makes and whatever goes wrong, every variable stays
\* within its type.
THEOREM SessionTypeCorrect == Spec => []TypeOK
  <1>1. SessionInv => TypeOK
    BY DEF SessionInv, TypeInv
  <1> QED BY <1>1, SessionInvariant, PTL

\* The program finds its own SIGILL action installed between calls, as long as
\* every open of the device succeeded (stop_test, restore_signal_handlers).
THEOREM HandlerGivenBack == Spec => []RestoredIfOpened
  <1>1. SessionInv => RestoredIfOpened
    BY DEF SessionInv, FlowInv, SignalInv, RestoredIfOpened, Working, Answering
  <1> QED BY <1>1, SessionInvariant, PTL

\* Where the device always opens, the program's SIGILL action is installed between
\* any two calls (restore_signal_handlers).
THEOREM HandlerAlwaysRestored ==
    ASSUME "no device" \notin Mishaps
    PROVE  Spec => []HandlerRestored
  <1>1. SessionInv => HandlerRestored
    BY DEF SessionInv, TypeInv, TypeOK, CallTypeOK, FlowInv, SignalInv,
             HandlerRestored,
           Working, Answering
  <1> QED BY <1>1, SessionInvariant, PTL

\* A read runs only under the library's handler, with SIGILL unblocked and a live
\* frame to jump to (try_command_1_32, ms_signal_handler).
THEOREM ReadsGuarded == Spec => []GuardedRead
  <1>1. SessionInv => GuardedRead
    BY DEF SessionInv, FlowInv, SignalInv, GuardedRead, Working,
           FindOnly, Answering
  <1> QED BY <1>1, SessionInvariant, PTL

\* Each register read in user mode has its own verdict: a success is a value read,
\* a fault is its own (set_status_flag).
THEOREM VerdictsAreOwn == Spec => []UserVerdicts
  <1>1. SessionInv => UserVerdicts
    BY DEF SessionInv, ResultInv, Answered, GoodResult, UserVerdicts
  <1> QED BY <1>1, SessionInvariant, PTL

\* After every call the device is closed, the table freed and no fault left over,
\* on every path that failed (the label done of ms_find_by_register).
THEOREM NothingLeftOver == Spec => []Tidy
  <1>1. SessionInv => Tidy
    BY DEF SessionInv, TypeInv, TypeOK, SignalTypeOK, FlowInv, SignalInv, FaultInv,
           LuckInv, Tidy, Working, Answering
  <1> QED BY <1>1, SessionInvariant, PTL

\* A fault of a user-mode read never ends the program, nor does anything else
\* before something else has gone wrong (ms_signal_handler, breakout_parse_results).
THEOREM FaultsSurvived == Spec => []OnlyMishapsKill
  <1>1. SessionInv => OnlyMishapsKill
    BY DEF SessionInv, LuckInv, OnlyMishapsKill
  <1> QED BY <1>1, SessionInvariant, PTL
=============================================================================
