------------------------- MODULE GlobalLoggerProofs -------------------------
(***************************************************************************)
(* The proofs about GlobalLogger, for every number of threads, strings and *)
(* files.                                                                  *)
(***************************************************************************)
EXTENDS GlobalLogger, SequenceTheorems, FiniteSetTheorems, TLAPS

\* A record that is written is one.
LEMMA RecordType ==
  ASSUME TypeOK, NEW t \in Loggers, logged[t] # 0
  PROVE  <<t, logged[t]>> \in Records /\ <<t, logged[t]>> \in Lines
<1>1. logged[t] \in 0 .. MaxLogs
  BY DEF TypeOK, Threads
<1>2. logged[t] \in 1 .. MaxLogs
  BY <1>1, GlobalLoggerAssumption
<1> QED BY <1>2 DEF Records, Lines

\* A thread writes only what it has logged, and is setting a target only with
\* one to set.
Busy ==
  /\ \A t \in Threads : pc[t] \notin {"idle", "setting"} => logged[t] # 0
  /\ \A t \in Threads : pc[t] = "appending" => goesTo[t] \in Strings
  /\ \A t \in Threads : pc[t] = "writing" => goesTo[t] \in Fds
  /\ \A t \in Threads : pc[t] = "setting" <=> arg[t] \in Targets
  /\ \A t \in Threads : stores[t] # {} => pc[t] = "setting"

LoggerInv == TypeOK /\ Busy

LEMMA LoggerInit == Init => LoggerInv
<1> SUFFICES ASSUME Init PROVE LoggerInv
  OBVIOUS
<1> USE GlobalLoggerAssumption DEF Init
<1>1. <<>> \in Seq(Lines)
  BY EmptySeq
<1>2. TypeOK
  <2>1. bIsStringTarget \in BOOLEAN
    OBVIOUS
  <2>2. 0 \in 0 .. MaxLogs
    OBVIOUS
  <2>3. logged \in [Threads -> 0 .. MaxLogs]
    BY <2>2
  <2>4. StartFd \in Targets
    BY DEF Targets
  <2> QED BY <1>1, <2>1, <2>3, <2>4 DEF TypeOK, Places
<1>3. Busy
  BY DEF Busy
<1> QED BY <1>2, <1>3 DEF LoggerInv

\* A thread inside Log() that goes on, not to an append, stays busy.
LEMMA BusyStays ==
  ASSUME Busy, NEW t \in Threads,
         pc[t] \notin {"idle", "setting"}, pc'[t] \notin {"setting", "appending", "writing"},
         \A u \in Threads \ {t} : pc'[u] = pc[u] /\ goesTo'[u] = goesTo[u],
         UNCHANGED <<logged, arg, stores>>
  PROVE  Busy'
<1>1. \A u \in Threads : pc'[u] \notin {"idle", "setting"} => logged'[u] # 0
  BY DEF Busy
<1>2. \A u \in Threads : /\ pc'[u] = "appending" => goesTo'[u] \in Strings
                         /\ pc'[u] = "writing" => goesTo'[u] \in Fds
  BY DEF Busy
<1>3. \A u \in Threads : pc'[u] = "setting" <=> arg'[u] \in Targets
  BY DEF Busy
<1>4. \A u \in Threads : stores'[u] # {} => pc'[u] = "setting"
  BY DEF Busy
<1> QED
  BY <1>1, <1>2, <1>3, <1>4 DEF Busy

\* LOG and the steps of Log() keep the types.
LEMMA LoggerLogs ==
  ASSUME LoggerInv, NEW t \in Loggers, Log(t) \/ \E level \in Levels : LOG(t, level)
  PROVE  LoggerInv'
<1> USE GlobalLoggerAssumption DEF LoggerInv, Goes, logger, setting, logging
<1>1. t \in Threads
  BY DEF Threads
<1>2. ASSUME NEW level \in Levels, LOG(t, level) PROVE LoggerInv'
  <2>1. logged'[t] = logged[t] + 1 /\ logged' \in [Threads -> 0 .. MaxLogs] /\ logged[t] \in Nat
    BY <1>1, <1>2 DEF LOG, TypeOK
  <2>2. <<t, logged[t] + 1>> \in Records
    BY <1>1, <1>2, <2>1 DEF LOG, TypeOK, Records
  <2>4. TypeOK'
    <3>1. pc' \in [Threads -> Places] /\ accepted' \subseteq Records
      BY <1>2, <2>2 DEF LOG, TypeOK, Places
    <3>2. UNCHANGED <<logger, mLevel, mFileMutex, setting, base, goesTo, content, living, seen>>
      BY <1>2 DEF LOG
    <3> QED BY <2>1, <3>1, <3>2 DEF TypeOK
  <2>5. Busy'
    <3>1. pc \in [Threads -> Places] /\ logged \in [Threads -> 0 .. MaxLogs]
      BY DEF TypeOK
    <3>2. UNCHANGED <<goesTo, arg, stores>>
      BY <1>2 DEF LOG
    <3>3. /\ pc[t] = "idle" /\ pc'[t] \in {"idle", "waiting"}
          /\ \A u \in Threads \ {t} : pc'[u] = pc[u] /\ logged'[u] = logged[u]
      BY <1>1, <1>2, <3>1 DEF LOG
    <3>4. logged'[t] # 0
      BY <2>1
    <3> QED BY <1>1, <3>2, <3>3, <3>4 DEF Busy
  <2> QED BY <2>4, <2>5
<1>3. CASE Lock(t)
  <2>1. TypeOK'
    BY <1>3 DEF Lock, TypeOK, Places
  <2> QED BY <1>3, <1>1, <2>1 DEF Lock, TypeOK, Busy
<1>4. CASE ReadsFlag(t)
  <2>1. seen' \in [Threads -> SUBSET Targets]
    <3>1. AskedFor \subseteq Targets
      BY DEF AskedFor, TypeOK
    <3> QED BY <1>4, <3>1 DEF ReadsFlag, TypeOK
  <2>2. TypeOK'
    BY <1>4, <2>1 DEF ReadsFlag, TypeOK, Places
  <2> QED BY <1>4, <1>1, <2>2 DEF ReadsFlag, TypeOK, Busy
<1>5. CASE AppendBegins(t)
  <2>1. /\ pc \in [Threads -> Places] /\ pc[t] = "toString"
        /\ pc' = [pc EXCEPT ![t] = "appending"] \/ pc' = [pc EXCEPT ![t] = "wild"]
    BY <1>5 DEF AppendBegins, TypeOK
  <2>2. UNCHANGED <<logger, mLevel, mFileMutex, setting, logged, accepted, content, living>>
    BY <1>5 DEF AppendBegins
  <2>6. seen' \in [Threads -> SUBSET Targets]
    BY <1>5 DEF AppendBegins, TypeOK
  <2>3. pc' \in [Threads -> Places]
    BY <2>1 DEF Places
  <2>4. CASE mStringTarget \in living
    <3>1. /\ pc' = [pc EXCEPT ![t] = "appending"]
          /\ base' = [base EXCEPT ![t] = content[mStringTarget]]
          /\ goesTo' = [goesTo EXCEPT ![t] = mStringTarget]
      BY <1>5, <2>4 DEF AppendBegins
    <3>2. mStringTarget \in Strings /\ mStringTarget \in Targets
      BY <2>4 DEF TypeOK, Targets
    <3>3. content[mStringTarget] \in Seq(Lines)
      BY <3>2 DEF TypeOK
    <3>4. TypeOK'
      BY <2>2, <2>3, <2>6, <3>1, <3>2, <3>3 DEF TypeOK
    <3>5. goesTo \in [Threads -> Targets \cup {NoTarget}]
      BY DEF TypeOK
    <3> QED BY <1>1, <2>1, <2>2, <3>1, <3>2, <3>4, <3>5 DEF Busy
  <2>5. CASE mStringTarget \notin living
    <3>1. pc' = [pc EXCEPT ![t] = "wild"] /\ UNCHANGED <<base, goesTo>>
      BY <1>5, <2>5 DEF AppendBegins
    <3>2. TypeOK'
      BY <2>2, <2>3, <2>6, <3>1 DEF TypeOK
    <3> QED BY <1>1, <2>1, <2>2, <3>1, <3>2 DEF Busy
  <2> QED BY <2>4, <2>5
<1>6. CASE AppendEnds(t)
  <2>1. <<t, logged[t]>> \in Lines
    BY <1>1, <1>6, RecordType DEF AppendEnds, Busy
  <2>2. base[t] \in Seq(Lines) /\ <<>> \in Seq(Lines)
    BY <1>1, EmptySeq DEF TypeOK
  <2>3. Append(base[t], <<t, logged[t]>>) \in Seq(Lines)
    BY <2>1, <2>2, AppendProperties
  <2>4. TypeOK'
    <3>1. content' \in [Targets -> Seq(Lines)]
      <4>1. content \in [Targets -> Seq(Lines)]
        BY DEF TypeOK
      <4>2. \/ content' = [content EXCEPT ![goesTo[t]] = Append(base[t], <<t, logged[t]>>)]
            \/ content' = content
        BY <1>6 DEF AppendEnds
      <4> QED BY <2>3, <4>1, <4>2
    <3>2. pc' \in [Threads -> Places]
      BY <1>6 DEF AppendEnds, TypeOK, Places
    <3>3. base' \in [Threads -> Seq(Lines)]
      BY <1>6, <2>2 DEF AppendEnds, TypeOK
    <3>4. UNCHANGED <<logger, mLevel, mFileMutex, setting, logged, goesTo, accepted, living, seen>>
      BY <1>6 DEF AppendEnds
    <3> QED BY <3>1, <3>2, <3>3, <3>4 DEF TypeOK
  <2>5. pc \in [Threads -> Places]
    BY DEF TypeOK
  <2>6. /\ pc[t] = "appending" /\ pc'[t] \in {"written", "wild"}
        /\ \A u \in Threads \ {t} : pc'[u] = pc[u]
    BY <1>1, <1>6, <2>5 DEF AppendEnds
  <2>7. UNCHANGED <<logged, arg, stores, goesTo>>
    BY <1>6 DEF AppendEnds
  <2> QED BY <1>1, <2>4, <2>6, <2>7, BusyStays
<1>7. CASE Writes(t)
  <2>1. <<t, logged[t]>> \in Lines /\ goesTo[t] \in Targets
    BY <1>1, <1>7, RecordType DEF Writes, Busy, Targets
  <2>2. content[goesTo[t]] \in Seq(Lines)
    BY <2>1 DEF TypeOK
  <2>3. Append(content[goesTo[t]], <<t, logged[t]>>) \in Seq(Lines)
    BY <2>1, <2>2, AppendProperties
  <2>4. TypeOK'
    <3>1. content' \in [Targets -> Seq(Lines)]
      BY <1>7, <2>3 DEF Writes, TypeOK
    <3>2. pc' \in [Threads -> Places]
      BY <1>7 DEF Writes, TypeOK, Places
    <3>3. accepted' \subseteq Records
      BY <1>7 DEF Writes, TypeOK
    <3>4. UNCHANGED <<logger, mLevel, mFileMutex, setting, logged, base, goesTo, living, seen>>
      BY <1>7 DEF Writes
    <3> QED BY <3>1, <3>2, <3>3, <3>4 DEF TypeOK
  <2>5. pc \in [Threads -> Places]
    BY DEF TypeOK
  <2>6. \A u \in Threads \ {t} : pc'[u] = pc[u]
    BY <1>1, <1>7, <2>5 DEF Writes
  <2>7. pc[t] = "writing" /\ pc'[t] = "written" /\ UNCHANGED <<logged, arg, stores, goesTo>>
    BY <1>1, <1>7, <2>5 DEF Writes
  <2> QED BY <1>1, <2>4, <2>6, <2>7, BusyStays
<1>8. CASE Unlock(t)
  <2>1. TypeOK'
    BY <1>8 DEF Unlock, TypeOK, Places
  <2> QED BY <1>8, <1>1, <2>1 DEF Unlock, TypeOK, Busy
<1>9. CASE ReadsPlace(t)
  <2>1. mFDTarget \in Fds /\ mFDTarget \in Targets
    BY DEF TypeOK, Targets
  <2>2. TypeOK'
    BY <1>9, <2>1 DEF ReadsPlace, TypeOK, Places
  <2> QED BY <1>9, <1>1, <2>1, <2>2 DEF ReadsPlace, TypeOK, Busy
<1> QED BY <1>2, <1>3, <1>4, <1>5, <1>6, <1>7, <1>8, <1>9 DEF Log

\* So do SetTarget and SetLevel.
LEMMA LoggerSets ==
  ASSUME LoggerInv, NEW t \in Setters,
         \/ \E x \in Targets : SetTarget(t, x)
         \/ \E level \in Levels : SetLevel(t, level)
         \/ SetTargetStep(t)
  PROVE  LoggerInv'
<1> USE GlobalLoggerAssumption DEF LoggerInv, Goes, logger, setting, logging
<1>1. t \in Threads
  BY DEF Threads
<1>2. ASSUME NEW x \in Targets, SetTarget(t, x) PROVE LoggerInv'
  <2>1. content' \in [Targets -> Seq(Lines)]
    <3>1. StartFd \in Targets /\ Warning \in Lines
      BY DEF Targets, Lines
    <3>2. content[StartFd] \in Seq(Lines)
      BY <3>1 DEF TypeOK
    <3>3. Append(content[StartFd], Warning) \in Seq(Lines)
      BY <3>1, <3>2, AppendProperties
    <3> QED BY <1>2, <3>3 DEF SetTarget, Warns, TypeOK
  <2>2. /\ pc' \in [Threads -> Places] /\ arg' \in [Threads -> Targets \cup {NoTarget}]
        /\ stores' \in [Threads -> SUBSET {"place", "flag"}]
        /\ older' \in [Threads -> SUBSET Threads] /\ seen' \in [Threads -> SUBSET Targets]
    BY <1>2 DEF SetTarget, TypeOK, Places
  <2>3. UNCHANGED <<logger, mLevel, mFileMutex, logging, living, latest>>
    BY <1>2 DEF SetTarget
  <2>4. TypeOK'
    BY <2>1, <2>2, <2>3 DEF TypeOK
  <2> QED BY <1>1, <1>2, <2>4 DEF SetTarget, TypeOK, Busy
<1>3. ASSUME NEW level \in Levels, SetLevel(t, level) PROVE LoggerInv'
  <2>1. TypeOK'
    BY <1>3 DEF SetLevel, TypeOK, Places
  <2> QED BY <1>1, <1>3, <2>1 DEF SetLevel, TypeOK, Busy
<1>4. ASSUME NEW what \in {"place", "flag"}, Stores(t, what) PROVE LoggerInv'
  <2>1. arg[t] \in Targets /\ pc[t] = "setting"
    BY <1>1, <1>4 DEF Stores, Busy
  <2>2. /\ bIsStringTarget' \in BOOLEAN
        /\ mStringTarget' \in Strings \cup {Null} /\ mFDTarget' \in Fds
    <3>1. CASE StorePlace(t)
      BY <3>1, <2>1 DEF StorePlace, TypeOK, Targets
    <3>2. CASE StoreFlag(t)
      <4>1. bIsStringTarget' \in BOOLEAN
        BY <3>2 DEF StoreFlag
      <4> QED BY <3>2, <4>1 DEF StoreFlag, TypeOK
    <3> QED BY <1>4, <3>1, <3>2 DEF Stores
  <2>3. stores' \in [Threads -> SUBSET {"place", "flag"}]
    BY <1>1, <1>4 DEF Stores, TypeOK
  <2>4. UNCHANGED <<pc, mLevel, mFileMutex, arg, latest, older, logging, content, living, seen>>
    BY <1>4 DEF Stores
  <2>5. TypeOK'
    BY <2>2, <2>3, <2>4 DEF TypeOK
  <2>6. \A u \in Threads : stores'[u] # {} => stores[u] # {}
    BY <1>1, <1>4 DEF Stores, TypeOK
  <2> QED BY <2>4, <2>5, <2>6 DEF Busy
<1>5. CASE SetTargetReturns(t)
  <2>1. arg[t] \in Targets
    BY <1>1, <1>5 DEF SetTargetReturns, Busy
  <2>2. latest' \in [Threads -> Targets \cup {NoTarget}]
    BY <1>5, <2>1 DEF SetTargetReturns, TypeOK
  <2>3. older' \in [Threads -> SUBSET Threads]
    BY <1>5 DEF SetTargetReturns, TypeOK
  <2>4. pc' \in [Threads -> Places] /\ arg' \in [Threads -> Targets \cup {NoTarget}]
    BY <1>5 DEF SetTargetReturns, TypeOK, Places
  <2>5. UNCHANGED <<logger, mLevel, mFileMutex, stores, logging, content, living, seen>>
    BY <1>5 DEF SetTargetReturns
  <2>6. TypeOK'
    BY <2>2, <2>3, <2>4, <2>5 DEF TypeOK
  <2> QED BY <1>1, <1>5, <2>6 DEF SetTargetReturns, TypeOK, Busy
<1> QED BY <1>2, <1>3, <1>4, <1>5 DEF SetTargetStep

LEMMA LoggerNext == LoggerInv /\ [Next]_vars => LoggerInv'
<1> SUFFICES ASSUME LoggerInv, [Next]_vars PROVE LoggerInv'
  OBVIOUS
<1>1. ASSUME NEW s \in Strings, DestroyString(s) PROVE LoggerInv'
  BY <1>1 DEF DestroyString, LoggerInv, TypeOK, Busy, logger, setting, logging
<1>2. CASE UNCHANGED vars
  BY <1>2 DEF vars, LoggerInv, TypeOK, Busy, logger, setting, logging
<1> QED BY <1>1, <1>2, LoggerLogs, LoggerSets DEF Next

\* Every variable keeps its type.
THEOREM LoggerTypeCorrect == Spec => []TypeOK
<1>1. LoggerInv => TypeOK
  BY DEF LoggerInv
<1> QED BY <1>1, LoggerInit, LoggerNext, PTL DEF Spec
-----------------------------------------------------------------------------
(* The pointer to the string is set before the flag says so.               *)

PointerSet ==
  /\ bIsStringTarget => mStringTarget # Null
  /\ \A t \in Threads : pc[t] \in {"toString", "appending", "wild"} => mStringTarget # Null
  /\ \A t \in Threads :
       pc[t] = "setting" /\ arg[t] \in Strings /\ "place" \notin stores[t] => mStringTarget # Null

\* No step of LOG stores the pointer or the flag, and a step to the append or
\* beyond it comes after the flag was seen set.
LEMMA PointerLogs ==
  ASSUME LoggerInv, PointerSet, NEW t \in Loggers, Log(t) \/ \E level \in Levels : LOG(t, level)
  PROVE  PointerSet'
<1>1. t \in Threads /\ pc \in [Threads -> Places]
  BY DEF Threads, LoggerInv, TypeOK
<1>2. UNCHANGED <<bIsStringTarget, mStringTarget, arg, stores>>
  BY DEF Log, LOG, Lock, ReadsFlag, AppendBegins, AppendEnds, ReadsPlace, Writes, Unlock, logger, setting
<1>3. \A u \in Threads \ {t} : pc'[u] = pc[u]
  BY <1>1 DEF Log, LOG, Lock, ReadsFlag, AppendBegins, AppendEnds, ReadsPlace, Writes, Unlock, Goes
<1>4. pc'[t] # "setting"
  BY <1>1 DEF Log, LOG, Lock, ReadsFlag, AppendBegins, AppendEnds, ReadsPlace, Writes, Unlock, Goes
<1>5. pc'[t] \in {"toString", "appending", "wild"} => mStringTarget # Null
  <2>1. CASE ReadsFlag(t)
    BY <1>1, <2>1 DEF ReadsFlag, Goes, PointerSet
  <2>2. CASE AppendBegins(t)
    BY <1>1, <2>2 DEF AppendBegins, Goes, PointerSet
  <2>3. CASE AppendEnds(t)
    BY <1>1, <2>3 DEF AppendEnds, Goes, PointerSet
  <2>4. CASE Lock(t) \/ ReadsPlace(t) \/ Writes(t) \/ Unlock(t) \/ \E level \in Levels : LOG(t, level)
    BY <1>1, <2>4 DEF Lock, ReadsPlace, Writes, Unlock, LOG, Goes
  <2> QED BY <2>1, <2>2, <2>3, <2>4 DEF Log
<1> QED BY <1>1, <1>2, <1>3, <1>4, <1>5 DEF PointerSet

\* SetTarget stores the pointer first.
LEMMA PointerSets ==
  ASSUME InOrder, LoggerInv, PointerSet, NEW t \in Setters,
         \/ \E x \in Targets : SetTarget(t, x)
         \/ \E level \in Levels : SetLevel(t, level)
         \/ SetTargetStep(t)
  PROVE  PointerSet'
<1>1. t \in Threads /\ pc \in [Threads -> Places]
  BY DEF Threads, LoggerInv, TypeOK
<1>2. /\ arg \in [Threads -> Targets \cup {NoTarget}]
      /\ stores \in [Threads -> SUBSET {"place", "flag"}]
  BY DEF LoggerInv, TypeOK
<1>3. ASSUME NEW x \in Targets, SetTarget(t, x) PROVE PointerSet'
  BY <1>1, <1>2, <1>3 DEF SetTarget, Goes, PointerSet, logger
<1>4. ASSUME NEW level \in Levels, SetLevel(t, level) PROVE PointerSet'
  BY <1>1, <1>4 DEF SetLevel, Goes, PointerSet, logger, setting
<1>5. CASE Stores(t, "place")
  <2>1. /\ pc[t] = "setting" /\ UNCHANGED <<pc, arg, bIsStringTarget>>
        /\ \/ arg[t] \in Strings /\ mStringTarget' = arg[t]
           \/ arg[t] \in Fds /\ mStringTarget' = mStringTarget
        /\ \A u \in Threads \ {t} : stores'[u] = stores[u]
    BY <1>1, <1>2, <1>5 DEF Stores, StorePlace, StoreFlag
  <2>2. mStringTarget # Null => mStringTarget' # Null
    BY <2>1, GlobalLoggerAssumption
  <2>3. arg[t] \in Strings => mStringTarget' # Null
    BY <2>1, GlobalLoggerAssumption
  <2> QED BY <2>1, <2>2, <2>3 DEF PointerSet
<1>6. CASE Stores(t, "flag")
  <2>1. /\ pc[t] = "setting" /\ "place" \notin stores[t]
        /\ UNCHANGED <<pc, arg, mStringTarget>>
        /\ bIsStringTarget' = (arg[t] \in Strings)
        /\ \A u \in Threads : "place" \in stores'[u] <=> "place" \in stores[u]
    BY <1>1, <1>2, <1>6 DEF Stores, StorePlace, StoreFlag
  <2>2. bIsStringTarget' => mStringTarget' # Null
    BY <1>1, <2>1 DEF PointerSet
  <2> QED BY <2>1, <2>2 DEF PointerSet
<1>7. CASE SetTargetReturns(t)
  BY <1>1, <1>2, <1>7 DEF SetTargetReturns, Goes, PointerSet, logger
<1> QED BY <1>3, <1>4, <1>5, <1>6, <1>7 DEF SetTargetStep

\* Where the stores of SetTarget are seen in program order, no LOG appends
\* through NULL, however many threads set targets.
THEOREM NeverThroughNullCorrect == InOrder => (Spec => []NeverThroughNull)
<1> SUFFICES ASSUME InOrder PROVE Spec => []NeverThroughNull
  OBVIOUS
<1>1. Init => PointerSet
  BY DEF Init, PointerSet
<1>2. LoggerInv /\ PointerSet /\ [Next]_vars => PointerSet'
  <2> SUFFICES ASSUME LoggerInv, PointerSet, [Next]_vars PROVE PointerSet'
    OBVIOUS
  <2>1. ASSUME NEW s \in Strings, DestroyString(s) PROVE PointerSet'
    BY <2>1 DEF DestroyString, PointerSet, logger, setting
  <2>2. CASE UNCHANGED vars
    BY <2>2 DEF vars, PointerSet, logger, setting
  <2> QED BY <2>1, <2>2, PointerLogs, PointerSets DEF Next
<1>3. PointerSet => NeverThroughNull
  BY DEF PointerSet, NeverThroughNull
<1> QED BY <1>1, <1>2, <1>3, LoggerInit, LoggerNext, PTL DEF Spec
-----------------------------------------------------------------------------
(* With one thread that sets targets, a record goes where it was told.     *)

OneSetter == \A u, v \in Setters : u = v

\* Where a Log() would write if it looked now.
Current == IF bIsStringTarget THEN mStringTarget ELSE mFDTarget

\* What a running SetTarget has stored is its target.
StoresArg ==
  \A u \in Threads : pc[u] = "setting" =>
    /\ u \in Setters
    /\ "place" \notin stores[u] => arg[u] \in {mStringTarget, mFDTarget}
    /\ "flag" \notin stores[u] => bIsStringTarget = (arg[u] \in Strings)

\* What a LOG that has looked at the flag may still write to was asked for since
\* then.
Aimed(t) ==
  /\ pc[t] = "toString" => mStringTarget \in seen[t]
  /\ pc[t] = "toFile" => mFDTarget \in seen[t]
  /\ Choosing(t) => \A u \in Threads : arg[u] # NoTarget => arg[u] \in seen[t]

Told == StoresArg /\ Current \in AskedFor /\ \A t \in Threads : Aimed(t)

\* A LOG takes with it all that is asked for when it looks at the flag.
LEMMA ToldLogs ==
  ASSUME LoggerInv, Told, NEW t \in Loggers, Log(t) \/ \E level \in Levels : LOG(t, level)
  PROVE  Told'
<1>1. t \in Threads /\ pc \in [Threads -> Places] /\ seen \in [Threads -> SUBSET Targets]
  BY DEF Threads, LoggerInv, TypeOK
<1>2. UNCHANGED <<bIsStringTarget, mStringTarget, mFDTarget, arg, stores, latest>>
  BY DEF Log, LOG, Lock, ReadsFlag, AppendBegins, AppendEnds, ReadsPlace, Writes, Unlock, logger, setting
<1>3. /\ \A u \in Threads \ {t} : pc'[u] = pc[u] /\ seen'[u] = seen[u]
      /\ pc'[t] # "setting"
  BY <1>1 DEF Log, LOG, Lock, ReadsFlag, AppendBegins, AppendEnds, ReadsPlace, Writes, Unlock, Goes
<1>4. Current' = Current /\ AskedFor' = AskedFor
  BY <1>2 DEF Current, AskedFor
<1>5. StoresArg'
  BY <1>1, <1>2, <1>3 DEF StoresArg, Told
<1>6. \A u \in Threads \ {t} : Aimed(u)'
  BY <1>2, <1>3, <1>4 DEF Aimed, Choosing, Told
<1>7. Aimed(t)'
  <2>1. CASE ReadsFlag(t)
    <3>1. pc'[t] = (IF bIsStringTarget THEN "toString" ELSE "toFile") /\ seen'[t] = AskedFor
      BY <1>1, <2>1 DEF ReadsFlag, Goes
    <3>2. \A u \in Threads : arg[u] # NoTarget => arg[u] \in AskedFor
      BY DEF AskedFor
    <3> QED BY <1>2, <3>1, <3>2 DEF Aimed, Current, Told
  <2>2. CASE ~ReadsFlag(t)
    <3>1. ~Choosing(t)'
      BY <1>1, <2>2 DEF Log, LOG, Lock, AppendBegins, AppendEnds, ReadsPlace, Writes, Unlock, Goes,
         Choosing
    <3> QED BY <3>1 DEF Aimed, Choosing
  <2> QED BY <2>1, <2>2
<1> QED BY <1>4, <1>5, <1>6, <1>7 DEF Told

\* SetTarget tells every LOG that has looked at the flag before it stores
\* anything.
LEMMA ToldSets ==
  ASSUME InOrder, OneSetter, LoggerInv, Told, NEW t \in Setters,
         \/ \E x \in Targets : SetTarget(t, x)
         \/ \E level \in Levels : SetLevel(t, level)
         \/ SetTargetStep(t)
  PROVE  Told'
<1>1. t \in Threads /\ pc \in [Threads -> Places] /\ seen \in [Threads -> SUBSET Targets]
  BY DEF Threads, LoggerInv, TypeOK
<1>2. /\ arg \in [Threads -> Targets \cup {NoTarget}]
      /\ stores \in [Threads -> SUBSET {"place", "flag"}]
      /\ latest \in [Threads -> Targets \cup {NoTarget}]
  BY DEF LoggerInv, TypeOK
<1>3. \A u \in Threads : pc[u] = "setting" => u = t
  BY DEF Told, StoresArg, OneSetter
<1>4. ASSUME NEW x \in Targets, SetTarget(t, x) PROVE Told'
  <2>1. /\ UNCHANGED <<bIsStringTarget, mStringTarget, mFDTarget, latest>>
        /\ pc[t] = "idle" /\ pc' = [pc EXCEPT ![t] = "setting"]
        /\ arg' = [arg EXCEPT ![t] = x]
        /\ stores'[t] = {"place", "flag"}
        /\ \A u \in Threads : seen'[u] = IF Choosing(u) THEN seen[u] \cup {x} ELSE {}
    BY <1>1, <1>2, <1>4 DEF SetTarget, Goes, logger
  <2>2. arg[t] = NoTarget
    BY <1>1, <1>2, <2>1 DEF LoggerInv, Busy
  <2>3. AskedFor \subseteq AskedFor'
    BY <1>1, <1>2, <2>1, <2>2 DEF AskedFor
  <2>4. Current' = Current
    BY <2>1 DEF Current
  <2>5. StoresArg'
    BY <1>1, <1>3, <2>1 DEF StoresArg
  <2>6. ASSUME NEW u \in Threads PROVE Aimed(u)'
    <3>1. pc'[u] = IF u = t THEN "setting" ELSE pc[u]
      BY <1>1, <2>1
    <3>2. \A v \in Threads : arg'[v] = IF v = t THEN x ELSE arg[v]
      BY <1>1, <1>2, <2>1
    <3>3. Aimed(u)
      BY DEF Told
    <3>4. Choosing(u)' => Choosing(u) /\ pc'[u] = pc[u]
      BY <3>1 DEF Choosing
    <3>5. Choosing(u) => seen[u] \subseteq seen'[u] /\ x \in seen'[u]
      BY <2>1
    <3> QED BY <2>1, <3>2, <3>3, <3>4, <3>5 DEF Aimed, Choosing
  <2> QED BY <2>3, <2>4, <2>5, <2>6 DEF Told
<1>5. ASSUME NEW level \in Levels, SetLevel(t, level) PROVE Told'
  <2>1. /\ UNCHANGED <<bIsStringTarget, mStringTarget, mFDTarget, latest, arg, stores, seen>>
        /\ pc' = pc
    BY <1>1, <1>5 DEF SetLevel, Goes, logger, logging, setting
  <2> QED BY <2>1 DEF Told, StoresArg, Current, AskedFor, Aimed, Choosing
<1>6. CASE Stores(t, "place")
  <2>1. /\ pc[t] = "setting" /\ UNCHANGED <<pc, arg, latest, seen, bIsStringTarget>>
        /\ "place" \in stores[t] /\ stores' = [stores EXCEPT ![t] = @ \ {"place"}]
        /\ \/ arg[t] \in Strings /\ mStringTarget' = arg[t] /\ mFDTarget' = mFDTarget
           \/ arg[t] \in Fds /\ mFDTarget' = arg[t] /\ mStringTarget' = mStringTarget
    BY <1>1, <1>2, <1>6 DEF Stores, StorePlace, StoreFlag, logging
  <2>2. arg[t] # NoTarget /\ arg[t] \in AskedFor
    BY <1>1, <2>1, GlobalLoggerAssumption DEF AskedFor, Targets
  <2>3. AskedFor' = AskedFor
    BY <2>1 DEF AskedFor
  <2>4. mStringTarget' \in {mStringTarget, arg[t]} /\ mFDTarget' \in {mFDTarget, arg[t]}
    BY <2>1
  <2>5. Current' \in {Current, arg[t]}
    BY <2>1, <2>4 DEF Current
  <2>6. StoresArg'
    <3>1. "flag" \notin stores'[t] => bIsStringTarget' = (arg'[t] \in Strings)
      <4>1. "flag" \in stores'[t] <=> "flag" \in stores[t]
        BY <1>1, <1>2, <2>1
      <4>2. CASE "flag" \notin stores[t]
        <5>1. bIsStringTarget = (arg[t] \in Strings)
          BY <1>1, <2>1, <4>2 DEF Told, StoresArg
        <5> QED BY <2>1, <5>1
      <4> QED BY <4>1, <4>2
    <3>2. arg'[t] \in {mStringTarget', mFDTarget'}
      BY <2>1
    <3> QED BY <1>3, <2>1, <3>1, <3>2 DEF StoresArg
  <2>7. ASSUME NEW u \in Threads PROVE Aimed(u)'
    <3>1. Aimed(u)
      BY DEF Told
    <3>2. Choosing(u) => arg[t] \in seen[u]
      BY <1>1, <2>2, <3>1 DEF Aimed
    <3> QED BY <2>1, <2>4, <2>5, <3>1, <3>2 DEF Aimed, Choosing
  <2> QED BY <2>2, <2>3, <2>5, <2>6, <2>7 DEF Told
<1>7. CASE Stores(t, "flag")
  <2>1. /\ pc[t] = "setting" /\ UNCHANGED <<pc, arg, latest, seen, mStringTarget, mFDTarget>>
        /\ "place" \notin stores[t] /\ stores' = [stores EXCEPT ![t] = @ \ {"flag"}]
        /\ bIsStringTarget' = (arg[t] \in Strings)
    BY <1>1, <1>2, <1>7 DEF Stores, StorePlace, StoreFlag, logging
  <2>2. arg[t] \in Targets /\ arg[t] \in AskedFor
    BY <1>1, <2>1, GlobalLoggerAssumption DEF AskedFor, LoggerInv, Busy
  <2>3. AskedFor' = AskedFor
    BY <2>1 DEF AskedFor
  <2>4. Current' = arg[t]
    <3>1. arg[t] \in {mStringTarget, mFDTarget}
      BY <1>1, <2>1 DEF Told, StoresArg
    <3>2. mStringTarget \in Strings \cup {Null} /\ mFDTarget \in Fds
      BY DEF LoggerInv, TypeOK
    <3>3. CASE arg[t] \in Strings
      <4>1. arg[t] = mStringTarget
        BY <3>1, <3>2, <3>3, GlobalLoggerAssumption
      <4>2. bIsStringTarget'
        BY <2>1, <3>3
      <4> QED BY <2>1, <4>1, <4>2 DEF Current
    <3>4. CASE arg[t] \notin Strings
      <4>1. arg[t] = mFDTarget
        BY <2>2, <3>1, <3>2, <3>4, GlobalLoggerAssumption DEF Targets
      <4>2. ~bIsStringTarget'
        BY <2>1, <3>4
      <4> QED BY <2>1, <4>1, <4>2 DEF Current
    <3> QED BY <3>3, <3>4
  <2>5. StoresArg'
    <3>1. arg'[t] \in {mStringTarget', mFDTarget'}
      BY <1>1, <2>1 DEF Told, StoresArg
    <3> QED BY <1>3, <2>1, <3>1 DEF StoresArg, Told
  <2>6. ASSUME NEW u \in Threads PROVE Aimed(u)'
    <3>1. Aimed(u)
      BY DEF Told
    <3>2. Choosing(u) => arg[t] \in seen[u]
      BY <1>1, <2>2, <3>1, GlobalLoggerAssumption DEF Aimed
    <3> QED BY <2>1, <2>4, <3>1, <3>2 DEF Aimed, Choosing
  <2> QED BY <2>2, <2>3, <2>4, <2>5, <2>6 DEF Told
<1>8. CASE SetTargetReturns(t)
  <2>1. /\ UNCHANGED <<bIsStringTarget, mStringTarget, mFDTarget, seen, stores>>
        /\ stores[t] = {} /\ pc[t] = "setting" /\ pc' = [pc EXCEPT ![t] = "idle"]
        /\ arg' = [arg EXCEPT ![t] = NoTarget] /\ latest'[t] = arg[t]
    BY <1>1, <1>8 DEF SetTargetReturns, Goes, logger, logging
  <2>2. arg[t] \in Targets
    BY <1>1, <2>1 DEF LoggerInv, Busy
  <2>3. Current' = arg[t]
    <3>1. arg[t] \in {mStringTarget, mFDTarget} /\ bIsStringTarget = (arg[t] \in Strings)
      BY <1>1, <2>1 DEF Told, StoresArg
    <3>2. mStringTarget \in Strings \cup {Null} /\ mFDTarget \in Fds
      BY DEF LoggerInv, TypeOK
    <3>3. CASE arg[t] \in Strings
      <4>1. arg[t] = mStringTarget
        BY <3>1, <3>2, <3>3, GlobalLoggerAssumption
      <4>2. bIsStringTarget
        BY <3>1, <3>3
      <4> QED BY <2>1, <4>1, <4>2 DEF Current
    <3>4. CASE arg[t] \notin Strings
      <4>1. arg[t] = mFDTarget
        BY <2>2, <3>1, <3>2, <3>4, GlobalLoggerAssumption DEF Targets
      <4>2. ~bIsStringTarget
        BY <3>1, <3>4
      <4> QED BY <2>1, <4>1, <4>2 DEF Current
    <3> QED BY <3>3, <3>4
  <2>4. Current' \in AskedFor'
    BY <1>1, <2>1, <2>2, <2>3, GlobalLoggerAssumption DEF AskedFor
  <2>5. StoresArg'
    BY <1>1, <1>3, <2>1 DEF StoresArg
  <2>6. ASSUME NEW u \in Threads PROVE Aimed(u)'
    <3>1. Aimed(u)
      BY DEF Told
    <3>2. Choosing(u)' => Choosing(u) /\ pc'[u] = pc[u]
      BY <1>1, <2>1 DEF Choosing
    <3>3. \A v \in Threads : arg'[v] # NoTarget => arg'[v] = arg[v]
      BY <1>1, <1>2, <2>1
    <3>4. Current' = Current
      BY <2>1 DEF Current
    <3> QED BY <2>1, <3>1, <3>2, <3>3, <3>4 DEF Aimed, Choosing
  <2> QED BY <2>4, <2>5, <2>6 DEF Told
<1> QED BY <1>4, <1>5, <1>6, <1>7, <1>8 DEF SetTargetStep

\* Where one thread sets targets, and its stores are seen in program order, a
\* record goes to a target that was set or being set between the two looks of its
\* LOG.
THEOREM RecordsGoWhereToldCorrect == InOrder /\ OneSetter => (Spec => RecordsGoWhereTold)
<1> SUFFICES ASSUME InOrder, OneSetter PROVE Spec => RecordsGoWhereTold
  OBVIOUS
<1> DEFINE SomeTold == Threads # {} => Told
<1>1. Init => SomeTold
  BY GlobalLoggerAssumption DEF Init, Told, StoresArg, Current, AskedFor, Aimed, Choosing, Targets
<1>2. LoggerInv /\ SomeTold /\ [Next]_vars => SomeTold'
  <2> SUFFICES ASSUME LoggerInv, Told, [Next]_vars PROVE Told'
    OBVIOUS
  <2>1. CASE \/ \E s \in Strings : DestroyString(s)
             \/ UNCHANGED vars
    <3>1. UNCHANGED <<bIsStringTarget, mStringTarget, mFDTarget, pc, arg, stores, latest, seen>>
      BY <2>1 DEF DestroyString, vars, logger, setting, logging
    <3> QED BY <3>1 DEF Told, StoresArg, Current, AskedFor, Aimed, Choosing
  <2> QED BY <2>1, ToldLogs, ToldSets DEF Next
<1>3. LoggerInv /\ SomeTold /\ [Next]_vars =>
        [\A t \in Threads :
           goesTo'[t] \notin {goesTo[t], NoTarget} => goesTo'[t] \in seen[t]]_vars
  <2> SUFFICES ASSUME LoggerInv, Told, [Next]_vars, NEW t \in Threads,
                      goesTo'[t] \notin {goesTo[t], NoTarget}
               PROVE  goesTo'[t] \in seen[t]
    OBVIOUS
  <2>1. goesTo' # goesTo /\ goesTo \in [Threads -> Targets \cup {NoTarget}]
    BY DEF LoggerInv, TypeOK
  <2>2. PICK u \in Loggers : Log(u)
    BY <2>1 DEF Next, LOG, SetTarget, SetLevel, SetTargetStep, Stores, SetTargetReturns, DestroyString,
       vars, logging
  <2>3. AppendBegins(u) \/ ReadsPlace(u) \/ Unlock(u)
    BY <2>1, <2>2 DEF Log, Lock, ReadsFlag, AppendEnds, Writes, logging
  <2>4. \/ u = t /\ pc[t] = "toString" /\ goesTo'[t] = mStringTarget
        \/ u = t /\ pc[t] = "toFile" /\ goesTo'[t] = mFDTarget
    BY <2>1, <2>3 DEF AppendBegins, ReadsPlace, Unlock, Goes
  <2> QED BY <2>4 DEF Told, Aimed
<1> HIDE DEF SomeTold
<1> QED BY <1>1, <1>2, <1>3, LoggerInit, LoggerNext, PTL DEF Spec, RecordsGoWhereTold
-----------------------------------------------------------------------------
(* A record is kept once: the mutex keeps every append whole.              *)

\* The thread has a record on its way.
OnItsWay(t) == pc[t] \in {"waiting", "locked", "toString", "appending", "toFile", "writing", "wild"}

Newest(r) == OnItsWay(r[1]) /\ r[2] = logged[r[1]]

Once(r) ==
  \E x \in Targets :
    /\ \E i : Copies(r, x) = {i}
    /\ \A y \in Targets \ {x} : Copies(r, y) = {}

\* One thread at a time is between lock and unlock, and what it read of the
\* string is what the string still holds.
Whole ==
  /\ \A t \in Threads :
       pc[t] \in {"locked", "toString", "appending", "toFile", "writing", "written"} => mFileMutex = t
  /\ \A t \in Threads : pc[t] = "appending" => base[t] = content[goesTo[t]]

\* No record is held before it is written, and none is lost or doubled after.
Kept ==
  \A r \in Records :
    /\ Newest(r) \/ r[2] > logged[r[1]] => \A x \in Targets : Copies(r, x) = {}
    /\ r \in accepted => Newest(r) \/ Once(r)
    /\ r \in accepted => r[2] <= logged[r[1]]

OnceInv == Whole /\ Kept

LEMMA AppendedAt ==
  ASSUME NEW old \in Seq(Lines), NEW q \in Lines, NEW r \in Records
  PROVE  {i \in DOMAIN Append(old, q) : Append(old, q)[i] = r}
         = {i \in DOMAIN old : old[i] = r} \cup (IF r = q THEN {Len(old) + 1} ELSE {})
<1>1. /\ Append(old, q) \in Seq(Lines) /\ Len(Append(old, q)) = Len(old) + 1
      /\ \A i \in 1 .. Len(old) : Append(old, q)[i] = old[i]
      /\ Append(old, q)[Len(old) + 1] = q
  BY AppendProperties
<1>2. DOMAIN Append(old, q) = 1 .. Len(old) + 1 /\ DOMAIN old = 1 .. Len(old) /\ Len(old) \in Nat
  BY <1>1, LenProperties
<1> QED BY <1>1, <1>2

\* The thread that holds the mutex adds its record to one target.
LEMMA KeptByAppend ==
  ASSUME LoggerInv, Kept, NEW t \in Threads, OnItsWay(t), <<t, logged[t]>> \in Records,
         NEW x \in Targets,
         content' = [content EXCEPT ![x] = Append(content[x], <<t, logged[t]>>)],
         pc' = [pc EXCEPT ![t] = "written"], logged' = logged, accepted' = accepted
  PROVE  Kept'
<1> DEFINE q == <<t, logged[t]>>
<1>1. /\ pc \in [Threads -> Places] /\ logged \in [Threads -> 0 .. MaxLogs]
      /\ content \in [Targets -> Seq(Lines)] /\ TypeOK
  BY DEF LoggerInv, TypeOK
<1>2. q \in Records /\ q \in Lines /\ q[1] = t /\ q[2] = logged[t]
  BY DEF Lines
<1>3. \A y \in Targets : Copies(q, y) = {}
  BY <1>2 DEF Kept, Newest
<1>4. \A r \in Records : r[1] \in Threads /\ r[2] \in Nat
  BY GlobalLoggerAssumption DEF Records, Threads
<1>5. \A r \in Records : r # q => (Newest(r)' <=> Newest(r))
  <2> SUFFICES ASSUME NEW r \in Records, r # q PROVE Newest(r)' <=> Newest(r)
    OBVIOUS
  <2>1. CASE r[1] = t
    <3>1. r[2] # logged[t]
      BY <2>1, <1>2 DEF Records
    <3> QED BY <2>1, <3>1 DEF Newest
  <2>2. CASE r[1] # t
    BY <2>2, <1>1, <1>4 DEF Newest, OnItsWay
  <2> QED BY <2>1, <2>2
<1>a. ASSUME NEW r \in Records, NEW y \in Targets
      PROVE  Copies(r, y)' = Copies(r, y) \cup (IF r = q /\ y = x THEN {Len(content[x]) + 1} ELSE {})
  <2>1. CASE y = x
    <3>1. content[x] \in Seq(Lines) /\ content'[x] = Append(content[x], q)
      BY <1>1
    <3> HIDE DEF q
    <3> DEFINE at(f) == {i \in DOMAIN f : f[i] = r}
    <3>2. at(Append(content[x], q)) = at(content[x]) \cup (IF r = q THEN {Len(content[x]) + 1} ELSE {})
      BY <1>2, <3>1, AppendedAt
    <3>3. at(content'[x]) = at(Append(content[x], q))
      BY <3>1
    <3>4. at(content'[x]) = at(content[x]) \cup (IF r = q THEN {Len(content[x]) + 1} ELSE {})
      BY <3>2, <3>3
    <3> QED BY <2>1, <3>4 DEF Copies
  <2>2. CASE y # x
    <3>1. content'[y] = content[y]
      BY <1>1, <2>2
    <3> QED BY <2>2, <3>1 DEF Copies
  <2> QED BY <2>1, <2>2
<1>6. \A r \in Records, y \in Targets : r # q => Copies(r, y)' = Copies(r, y)
  BY <1>a
<1>7. /\ Copies(q, x)' = {Len(content[x]) + 1}
      /\ \A y \in Targets \ {x} : Copies(q, y)' = {}
  <2>1. Copies(q, x)' = Copies(q, x) \cup {Len(content[x]) + 1}
    BY <1>2, <1>a
  <2>2. \A y \in Targets \ {x} : Copies(q, y)' = Copies(q, y)
    BY <1>2, <1>a
  <2> QED BY <1>3, <2>1, <2>2
<1>8. ~Newest(q)' /\ ~(q[2] > logged'[q[1]])
  BY <1>1, <1>2 DEF Newest, OnItsWay
<1>9. Once(q)'
  BY <1>7 DEF Once
<1>10. ASSUME NEW r \in Records, r # q
       PROVE  /\ Newest(r)' \/ r[2] > logged'[r[1]] => \A y \in Targets : Copies(r, y)' = {}
              /\ r \in accepted' => Newest(r)' \/ Once(r)'
              /\ r \in accepted' => r[2] <= logged'[r[1]]
  <2>1. Newest(r)' <=> Newest(r)
    BY <1>5, <1>10
  <2>2. Once(r) => Once(r)'
    BY <1>6, <1>10 DEF Once
  <2> QED BY <2>1, <2>2, <1>6, <1>10 DEF Kept
<1>11. q[2] <= logged'[q[1]]
  BY <1>1, <1>2
<1> QED BY <1>8, <1>9, <1>10, <1>11 DEF Kept

\* A warning is no record.
LEMMA CopiesStay ==
  ASSUME TypeOK, UNCHANGED content \/ Warns, NEW r \in Records, NEW x \in Targets
  PROVE  Copies(r, x)' = Copies(r, x)
<1>1. CASE UNCHANGED content
  BY <1>1 DEF Copies
<1>2. CASE Warns /\ x = StartFd
  <2>1. content[x] \in Seq(Lines) /\ content'[x] = Append(content[x], Warning)
    BY <1>2 DEF TypeOK, Warns
  <2>2. Warning \in Lines /\ r # Warning
    BY GlobalLoggerAssumption DEF Lines
  <2> DEFINE at(f) == {i \in DOMAIN f : f[i] = r}
  <2>3. at(Append(content[x], Warning)) = at(content[x])
    BY <2>1, <2>2, AppendedAt
  <2>4. at(content'[x]) = at(Append(content[x], Warning))
    BY <2>1
  <2>5. at(content'[x]) = at(content[x])
    BY <2>3, <2>4
  <2> QED BY <2>5 DEF Copies
<1>3. CASE Warns /\ x # StartFd
  <2>1. content'[x] = content[x]
    BY <1>3 DEF TypeOK, Warns
  <2> QED BY <2>1 DEF Copies
<1> QED BY <1>1, <1>2, <1>3

\* A step that writes no record and ends no LOG.
LEMMA KeptQuietly ==
  ASSUME Kept, TypeOK, UNCHANGED content \/ Warns, UNCHANGED <<logged, accepted>>,
         \A t \in Threads : OnItsWay(t)' <=> OnItsWay(t)
  PROVE  Kept'
<1>1. \A r \in Records : r[1] \in Threads
  BY DEF Records, Threads
<1>2. \A r \in Records, x \in Targets : Copies(r, x)' = Copies(r, x)
  BY CopiesStay
<1>3. \A r \in Records : (Newest(r)' <=> Newest(r)) /\ (Once(r)' <=> Once(r))
  BY <1>1, <1>2 DEF Newest, Once
<1> QED BY <1>2, <1>3 DEF Kept

LEMMA OnceLogs ==
  ASSUME LoggerInv, OnceInv, NEW t \in Loggers, Log(t)
  PROVE  OnceInv'
<1> USE DEF OnceInv
<1>1. t \in Threads /\ pc \in [Threads -> Places] /\ t # Nobody
  BY GlobalLoggerAssumption DEF Threads, LoggerInv, TypeOK
<1>2. /\ base \in [Threads -> Seq(Lines)] /\ goesTo \in [Threads -> Targets \cup {NoTarget}]
      /\ content \in [Targets -> Seq(Lines)] /\ mFDTarget \in Targets /\ TypeOK
  BY DEF LoggerInv, TypeOK, Targets
<1>3. ASSUME pc[t] \in {"locked", "toString", "appending", "toFile", "writing", "written"}
      PROVE  \A u \in Threads \ {t} :
               pc[u] \notin {"locked", "toString", "appending", "toFile", "writing", "written"}
  BY <1>1, <1>3 DEF Whole
<1>4. CASE Lock(t)
  <2>1. /\ mFileMutex = Nobody /\ mFileMutex' = t /\ pc[t] = "waiting"
        /\ pc' = [pc EXCEPT ![t] = "locked"]
        /\ UNCHANGED <<content, logged, accepted, base, goesTo>>
    BY <1>4 DEF Lock, Goes, logging
  <2>2. Whole'
    <3>1. \A u \in Threads : pc[u] \notin {"locked", "toString", "appending", "toFile", "writing", "written"}
      BY <2>1, GlobalLoggerAssumption DEF Whole
    <3> QED BY <1>1, <2>1, <3>1 DEF Whole
  <2> QED BY <1>1, <1>2, <2>1, <2>2, KeptQuietly DEF OnItsWay
<1>5. CASE ReadsFlag(t)
  <2>1. /\ pc[t] = "locked" /\ pc' = [pc EXCEPT ![t] = IF bIsStringTarget THEN "toString" ELSE "toFile"]
        /\ UNCHANGED <<mFileMutex, content, logged, accepted, base, goesTo>>
    BY <1>5 DEF ReadsFlag, Goes, logging
  <2>2. Whole'
    BY <1>1, <2>1 DEF Whole
  <2> QED BY <1>1, <1>2, <2>1, <2>2, KeptQuietly DEF OnItsWay
<1>6. CASE AppendBegins(t)
  <2>1. /\ pc[t] = "toString" /\ UNCHANGED <<mFileMutex, content, logged, accepted>>
        /\ \/ /\ mStringTarget \in living /\ pc' = [pc EXCEPT ![t] = "appending"]
              /\ base' = [base EXCEPT ![t] = content[mStringTarget]]
              /\ goesTo' = [goesTo EXCEPT ![t] = mStringTarget]
           \/ pc' = [pc EXCEPT ![t] = "wild"] /\ UNCHANGED <<base, goesTo>>
    BY <1>6 DEF AppendBegins, Goes
  <2>2. Whole'
    BY <1>1, <1>2, <2>1 DEF Whole
  <2> QED BY <1>1, <1>2, <2>1, <2>2, KeptQuietly DEF OnItsWay
<1>7. CASE AppendEnds(t)
  <2>1. /\ pc[t] = "appending" /\ UNCHANGED <<mFileMutex, logged, accepted, goesTo>>
        /\ base' = [base EXCEPT ![t] = <<>>]
        /\ \/ /\ pc' = [pc EXCEPT ![t] = "written"]
              /\ content' = [content EXCEPT ![goesTo[t]] = Append(base[t], <<t, logged[t]>>)]
           \/ pc' = [pc EXCEPT ![t] = "wild"] /\ content' = content
    BY <1>7 DEF AppendEnds, Goes
  <2>2. Whole'
    BY <1>1, <1>2, <1>3, <2>1 DEF Whole
  <2>3. /\ <<t, logged[t]>> \in Records /\ goesTo[t] \in Targets
        /\ base[t] = content[goesTo[t]]
    BY <1>1, <2>1, RecordType DEF LoggerInv, Busy, Whole, Targets
  <2>4. CASE content' = content /\ pc' = [pc EXCEPT ![t] = "wild"]
    BY <1>1, <1>2, <2>1, <2>2, <2>4, KeptQuietly DEF OnItsWay
  <2>5. CASE /\ pc' = [pc EXCEPT ![t] = "written"]
             /\ content' = [content EXCEPT ![goesTo[t]] = Append(base[t], <<t, logged[t]>>)]
    <3>1. OnItsWay(t)
      BY <2>1 DEF OnItsWay
    <3>2. Kept'
      BY <1>1, <2>1, <2>3, <2>5, <3>1, KeptByAppend
    <3> QED BY <2>2, <3>2
  <2> QED BY <2>1, <2>4, <2>5
<1>8. CASE Writes(t)
  <2>1. /\ pc[t] = "writing" /\ pc' = [pc EXCEPT ![t] = "written"]
        /\ UNCHANGED <<mFileMutex, logged, base, goesTo>>
        /\ \/ /\ content' = [content EXCEPT ![goesTo[t]] = Append(@, <<t, logged[t]>>)]
              /\ accepted' = accepted
           \/ accepted' = accepted \ {<<t, logged[t]>>} /\ content' = content
    BY <1>8 DEF Writes, Goes
  <2>2. Whole'
    BY <1>1, <1>2, <1>3, <2>1 DEF Whole
  <2>3. <<t, logged[t]>> \in Records /\ OnItsWay(t) /\ goesTo[t] \in Targets
    BY <1>1, <2>1, RecordType DEF LoggerInv, Busy, OnItsWay, Targets
  <2>4. CASE accepted' = accepted /\ content' = [content EXCEPT ![goesTo[t]] = Append(@, <<t, logged[t]>>)]
    BY <1>1, <1>2, <2>1, <2>2, <2>3, <2>4, KeptByAppend
  <2>5. CASE accepted' = accepted \ {<<t, logged[t]>>} /\ content' = content
    <3>1. \A r \in Records : Newest(r)' => Newest(r)
      BY <1>1, <2>1 DEF Newest, OnItsWay, Records, Threads
    <3>2. \A r \in Records : Newest(r) /\ r # <<t, logged[t]>> => Newest(r)'
      BY <1>1, <2>1 DEF Newest, OnItsWay, Records, Threads
    <3>3. \A r \in Records : Once(r)' <=> Once(r)
      BY <2>5 DEF Once, Copies
    <3>4. \A r \in Records, x \in Targets : Copies(r, x)' = Copies(r, x)
      BY <2>5 DEF Copies
    <3>5. Kept'
      BY <2>1, <2>5, <3>1, <3>2, <3>3, <3>4 DEF Kept
    <3> QED BY <2>2, <3>5
  <2> QED BY <2>1, <2>4, <2>5
<1>9. CASE Unlock(t)
  <2>1. /\ pc[t] = "written" /\ pc' = [pc EXCEPT ![t] = "idle"]
        /\ goesTo' = [goesTo EXCEPT ![t] = NoTarget]
        /\ UNCHANGED <<content, logged, accepted, base>>
    BY <1>9 DEF Unlock, Goes
  <2>2. Whole'
    BY <1>1, <1>3, <2>1 DEF Whole
  <2> QED BY <1>1, <1>2, <2>1, <2>2, KeptQuietly DEF OnItsWay
<1>10. CASE ReadsPlace(t)
  <2>1. /\ pc[t] = "toFile" /\ pc' = [pc EXCEPT ![t] = "writing"]
        /\ goesTo' = [goesTo EXCEPT ![t] = mFDTarget]
        /\ UNCHANGED <<mFileMutex, content, logged, accepted, base>>
    BY <1>10 DEF ReadsPlace, Goes
  <2>2. Whole'
    BY <1>1, <1>2, <1>3, <2>1 DEF Whole
  <2> QED BY <1>1, <1>2, <2>1, <2>2, KeptQuietly DEF OnItsWay
<1> QED BY <1>4, <1>5, <1>6, <1>7, <1>8, <1>9, <1>10 DEF Log

LEMMA OnceBegins ==
  ASSUME LoggerInv, OnceInv, NEW t \in Loggers, NEW level \in Levels, LOG(t, level)
  PROVE  OnceInv'
<1>1. t \in Threads /\ pc \in [Threads -> Places] /\ logged \in [Threads -> 0 .. MaxLogs]
  BY DEF Threads, LoggerInv, TypeOK
<1>2. /\ pc[t] = "idle" /\ logged' = [logged EXCEPT ![t] = @ + 1]
      /\ UNCHANGED <<mFileMutex, base, goesTo, content>>
      /\ \/ pc' = [pc EXCEPT ![t] = "waiting"] /\ accepted' = accepted \cup {<<t, logged[t] + 1>>}
         \/ pc' = [pc EXCEPT ![t] = "idle"] /\ accepted' = accepted
  BY DEF LOG, Goes
<1>3. Whole'
  BY <1>1, <1>2 DEF OnceInv, Whole
<1>4. ASSUME NEW r \in Records
      PROVE  /\ Newest(r)' \/ r[2] > logged'[r[1]] => \A x \in Targets : Copies(r, x)' = {}
             /\ r \in accepted' => Newest(r)' \/ Once(r)'
             /\ r \in accepted' => r[2] <= logged'[r[1]]
  <2>1. r[1] \in Threads /\ r[2] \in Nat /\ logged[r[1]] \in Nat
    BY <1>1, GlobalLoggerAssumption DEF Records, Threads
  <2>2. (Once(r)' <=> Once(r)) /\ \A x \in Targets : Copies(r, x)' = Copies(r, x)
    BY <1>2 DEF Once, Copies
  <2>3. CASE r[1] = t
    <3>1. ~Newest(r) /\ logged'[r[1]] = logged[t] + 1
      BY <1>1, <1>2, <2>3 DEF Newest, OnItsWay
    <3>2. Newest(r)' \/ r[2] > logged'[r[1]] => r[2] > logged[r[1]]
      BY <2>1, <2>3, <3>1 DEF Newest
    <3>3. r \in accepted' /\ r \notin accepted => Newest(r)' /\ r[2] = logged'[r[1]]
      BY <1>1, <1>2, <2>3, <3>1 DEF Newest, OnItsWay
    <3>4. r \in accepted => Once(r) /\ r[2] <= logged'[r[1]]
      BY <2>1, <2>3, <3>1 DEF OnceInv, Kept
    <3>5. r[2] > logged[r[1]] => \A x \in Targets : Copies(r, x) = {}
      BY DEF OnceInv, Kept
    <3>6. r \in accepted' => r[2] <= logged'[r[1]]
      BY <2>1, <3>3, <3>4
    <3> QED BY <2>2, <3>2, <3>3, <3>4, <3>5, <3>6
  <2>4. CASE r[1] # t
    <3>1. (Newest(r)' <=> Newest(r)) /\ logged'[r[1]] = logged[r[1]]
      BY <1>1, <1>2, <2>1, <2>4 DEF Newest, OnItsWay
    <3>2. r \in accepted' <=> r \in accepted
      BY <1>2, <2>4
    <3> QED BY <2>2, <3>1, <3>2 DEF OnceInv, Kept
  <2> QED BY <2>3, <2>4
<1> QED BY <1>3, <1>4 DEF OnceInv, Kept

LEMMA OnceInit == Init => OnceInv
<1> SUFFICES ASSUME Init PROVE OnceInv
  OBVIOUS
<1>1. Whole
  BY DEF Init, Whole
<1>2. \A r \in Records, x \in Targets : Copies(r, x) = {}
  BY DEF Init, Copies
<1>3. Kept
  BY <1>2 DEF Init, Kept
<1> QED BY <1>1, <1>3 DEF OnceInv

LEMMA OnceNext == LoggerInv /\ OnceInv /\ [Next]_vars => OnceInv'
<1> SUFFICES ASSUME LoggerInv, OnceInv, [Next]_vars PROVE OnceInv'
  OBVIOUS
<1>1. ASSUME NEW t \in Setters,
             \/ \E x \in Targets : SetTarget(t, x)
             \/ \E level \in Levels : SetLevel(t, level)
             \/ SetTargetStep(t)
      PROVE  OnceInv'
  <2>1. UNCHANGED <<mFileMutex, logged, accepted, base, goesTo>> /\ (UNCHANGED content \/ Warns)
    BY <1>1 DEF SetTarget, SetLevel, SetTargetStep, Stores, SetTargetReturns, logging
  <2>2. t \in Threads /\ pc \in [Threads -> Places] /\ TypeOK
    BY DEF Threads, LoggerInv, TypeOK
  <2>3. \/ pc' = pc
        \/ pc[t] \in {"idle", "setting"} /\ \E to \in {"idle", "setting"} : pc' = [pc EXCEPT ![t] = to]
    BY <1>1 DEF SetTarget, SetLevel, SetTargetStep, Stores, SetTargetReturns, Goes
  <2>4. Whole'
    <3>1. ASSUME NEW u \in Threads, pc[u] = "appending" PROVE content'[goesTo[u]] = content[goesTo[u]]
      <4>1. goesTo[u] \in Targets /\ goesTo[u] # StartFd
        BY <3>1, GlobalLoggerAssumption DEF LoggerInv, Busy, Targets
      <4> QED BY <2>1, <2>2, <4>1 DEF Warns, TypeOK
    <3>2. \A u \in Threads : pc'[u] = pc[u] \/ pc'[u] \in {"idle", "setting"}
      BY <2>2, <2>3
    <3> QED BY <2>1, <3>1, <3>2 DEF OnceInv, Whole
  <2>5. \A u \in Threads : OnItsWay(u)' <=> OnItsWay(u)
    BY <2>2, <2>3 DEF OnItsWay
  <2> QED BY <2>1, <2>2, <2>4, <2>5, KeptQuietly DEF OnceInv
<1>2. CASE \/ \E s \in Strings : DestroyString(s)
           \/ UNCHANGED vars
  <2>1. UNCHANGED <<mFileMutex, content, logged, accepted, base, goesTo, pc>>
    BY <1>2 DEF DestroyString, vars, logging
  <2>2. Whole'
    BY <2>1 DEF OnceInv, Whole
  <2>3. \A u \in Threads : OnItsWay(u)' <=> OnItsWay(u)
    BY <2>1 DEF OnItsWay
  <2> QED BY <2>1, <2>2, <2>3, KeptQuietly DEF OnceInv, LoggerInv
<1> QED BY <1>1, <1>2, OnceLogs, OnceBegins DEF Next

\* Every record that was accepted is held once, in one target, when its LOG has
\* returned, whatever the other threads do.
THEOREM EveryRecordOnceCorrect == Spec => []EveryRecordOnce
<1>1. LoggerInv /\ OnceInv => EveryRecordOnce
  <2> SUFFICES ASSUME LoggerInv, OnceInv, NEW r \in accepted, ~IsWriting(r)
               PROVE  \E x \in Targets :
                        /\ Cardinality(Copies(r, x)) = 1
                        /\ \A y \in Targets \ {x} : Copies(r, y) = {}
    BY DEF EveryRecordOnce
  <2>1. r \in Records
    BY DEF LoggerInv, TypeOK
  <2>2. Once(r)
    BY <2>1 DEF OnceInv, Kept, Newest, OnItsWay, IsWriting
  <2> QED BY <2>2, FS_Singleton DEF Once
<1> QED BY <1>1, OnceInit, OnceNext, LoggerInit, LoggerNext, PTL DEF Spec
-----------------------------------------------------------------------------
(* LOG is atomic.                                                          *)

\* What a thread tells of itself in LogJournal.
Logged == [t \in Loggers |-> logged[t]]
Inside == [t \in Loggers |-> pc[t] \notin {"idle", "setting"}]
Owes   == [t \in Loggers |-> pc[t] \notin {"idle", "setting", "written"}]

\* A thread that goes from one place to another changes only that.
LEMMA Moves ==
  ASSUME LoggerInv, NEW t \in Loggers, NEW to, pc' = [pc EXCEPT ![t] = to]
  PROVE  /\ Inside' = [Inside EXCEPT ![t] = Inside'[t]]
         /\ Owes' = [Owes EXCEPT ![t] = Owes'[t]]
         /\ Inside[t] = IF pc[t] \in {"idle", "setting"} THEN FALSE ELSE TRUE
         /\ Inside'[t] = IF to \in {"idle", "setting"} THEN FALSE ELSE TRUE
         /\ Owes[t] = IF pc[t] \in {"idle", "setting", "written"} THEN FALSE ELSE TRUE
         /\ Owes'[t] = IF to \in {"idle", "setting", "written"} THEN FALSE ELSE TRUE
<1>1. pc \in [Threads -> Places] /\ Loggers \subseteq Threads
  BY DEF LoggerInv, TypeOK, Threads
<1>2. pc'[t] = to /\ \A u \in Loggers \ {t} : pc'[u] = pc[u]
  BY <1>1
<1>3. /\ Inside[t] = IF pc[t] \in {"idle", "setting"} THEN FALSE ELSE TRUE
      /\ Inside'[t] = IF to \in {"idle", "setting"} THEN FALSE ELSE TRUE
  BY <1>2 DEF Inside
<1>4. /\ Owes[t] = IF pc[t] \in {"idle", "setting", "written"} THEN FALSE ELSE TRUE
      /\ Owes'[t] = IF to \in {"idle", "setting", "written"} THEN FALSE ELSE TRUE
  BY <1>2 DEF Owes
<1>5. Inside' = [Inside EXCEPT ![t] = Inside'[t]]
  BY <1>2 DEF Inside
<1>6. Owes' = [Owes EXCEPT ![t] = Owes'[t]]
  BY <1>2 DEF Owes
<1> QED BY <1>3, <1>4, <1>5, <1>6

\* The steps of Log() that only its own thread can see.
LEMMA MovesUnseen ==
  ASSUME LoggerInv, NEW t \in Loggers, NEW from, NEW to, Goes(t, from, to),
         {from, to} \cap {"idle", "setting", "written"} = {}
  PROVE  UNCHANGED <<Inside, Owes>>
<1>1. /\ Inside' = [Inside EXCEPT ![t] = TRUE] /\ Inside[t] = TRUE
      /\ Owes' = [Owes EXCEPT ![t] = TRUE] /\ Owes[t] = TRUE
  BY Moves DEF Goes
<1>2. Inside \in [Loggers -> BOOLEAN] /\ Owes \in [Loggers -> BOOLEAN]
  BY DEF Inside, Owes
<1> QED BY <1>1, <1>2

LEMMA JournalLogs ==
  ASSUME LoggerInv, OnceInv, NEW t \in Loggers, Log(t)
  PROVE  \/ Journal!Add(t) \/ Journal!Refuse(t) \/ Journal!Return(t)
         \/ UNCHANGED <<Logged, Owes, Inside, content>>
<1>1. t \in Threads /\ logged' = logged /\ Logged' = Logged /\ Logged[t] = logged[t]
  BY DEF Log, Lock, ReadsFlag, AppendBegins, AppendEnds, ReadsPlace, Writes, Unlock, logging, Threads, Logged
<1>2. content \in [Targets -> Seq(Lines)]
  BY DEF LoggerInv, TypeOK
<1>3. CASE Lock(t)
  <2>1. Goes(t, "waiting", "locked") /\ content' = content
    BY <1>3 DEF Lock
  <2> QED BY <1>1, <2>1, MovesUnseen
<1>4. CASE ReadsFlag(t)
  <2>1. PICK to \in {"toString", "toFile"} : Goes(t, "locked", to) /\ content' = content
    BY <1>4 DEF ReadsFlag
  <2> QED BY <1>1, <2>1, MovesUnseen
<1>5. CASE AppendBegins(t)
  <2>1. PICK to \in {"appending", "wild"} : Goes(t, "toString", to) /\ content' = content
    BY <1>5 DEF AppendBegins
  <2> QED BY <1>1, <2>1, MovesUnseen
<1>6. CASE AppendEnds(t)
  <2>1. CASE Goes(t, "appending", "wild") /\ content' = content
    BY <1>1, <2>1, MovesUnseen
  <2>2. CASE /\ Goes(t, "appending", "written")
             /\ content' = [content EXCEPT ![goesTo[t]] = Append(base[t], <<t, logged[t]>>)]
    <3>1. base[t] = content[goesTo[t]] /\ goesTo[t] \in Targets
      BY <1>1, <2>2 DEF LoggerInv, Busy, OnceInv, Whole, Goes, Targets
    <3>2. /\ Owes[t] /\ Owes' = [Owes EXCEPT ![t] = FALSE]
          /\ Inside' = [Inside EXCEPT ![t] = TRUE] /\ Inside[t] = TRUE
      BY <2>2, Moves DEF Goes
    <3>3. Inside' = Inside
      BY <3>2 DEF Inside
    <3>4. content' = [content EXCEPT ![goesTo[t]] = Append(@, <<t, Logged[t]>>)]
      BY <1>1, <2>2, <3>1
    <3> QED BY <1>1, <3>1, <3>2, <3>3, <3>4 DEF Journal!Add, Logged, Owes, Inside
  <2> QED BY <1>6, <2>1, <2>2 DEF AppendEnds
<1>7. CASE Writes(t)
  <2>1. Goes(t, "writing", "written")
    BY <1>7 DEF Writes
  <2>2. /\ Owes[t] /\ Owes' = [Owes EXCEPT ![t] = FALSE]
        /\ Inside' = [Inside EXCEPT ![t] = TRUE] /\ Inside[t] = TRUE
    BY <2>1, Moves DEF Goes
  <2>3. Inside' = Inside
    BY <2>2 DEF Inside
  <2>4. CASE content' = content
    BY <1>1, <2>2, <2>3, <2>4 DEF Journal!Refuse, Logged, Owes, Inside
  <2>5. CASE content' = [content EXCEPT ![goesTo[t]] = Append(@, <<t, logged[t]>>)]
    <3>1. goesTo[t] \in Targets
      BY <1>1, <2>1 DEF LoggerInv, Busy, Goes, Targets
    <3>2. content' = [content EXCEPT ![goesTo[t]] = Append(@, <<t, Logged[t]>>)]
      BY <1>1, <2>5
    <3> QED BY <1>1, <2>2, <2>3, <3>1, <3>2 DEF Journal!Add, Logged, Owes, Inside
  <2> QED BY <1>7, <2>4, <2>5 DEF Writes
<1>8. CASE Unlock(t)
  <2>1. Goes(t, "written", "idle") /\ content' = content
    BY <1>8 DEF Unlock
  <2>2. /\ Inside[t] /\ Inside' = [Inside EXCEPT ![t] = FALSE]
        /\ ~Owes[t] /\ Owes' = [Owes EXCEPT ![t] = FALSE] /\ Owes[t] = FALSE
    BY <2>1, Moves DEF Goes
  <2>3. Owes' = Owes
    BY <2>2 DEF Owes
  <2> QED BY <1>1, <2>1, <2>2, <2>3 DEF Journal!Return, Logged, Owes, Inside
<1>9. CASE ReadsPlace(t)
  <2>1. Goes(t, "toFile", "writing") /\ content' = content
    BY <1>9 DEF ReadsPlace
  <2> QED BY <1>1, <2>1, MovesUnseen
<1> QED BY <1>3, <1>4, <1>5, <1>6, <1>7, <1>8, <1>9 DEF Log

LEMMA JournalBegins ==
  ASSUME LoggerInv, NEW t \in Loggers, NEW level \in Levels, LOG(t, level)
  PROVE  Journal!Begin(t)
<1>1. t \in Threads /\ logged \in [Threads -> 0 .. MaxLogs] /\ Loggers \subseteq Threads
  BY DEF LoggerInv, TypeOK, Threads
<1>2. logged' = [logged EXCEPT ![t] = @ + 1] /\ content' = content
  BY DEF LOG
<1>3. Logged' = [Logged EXCEPT ![t] = @ + 1]
  BY <1>1, <1>2 DEF Logged
<1>4. CASE Goes(t, "idle", "waiting")
  <2>1. pc[t] = "idle" /\ pc' = [pc EXCEPT ![t] = "waiting"]
    BY <1>4 DEF Goes
  <2>2. /\ Inside[t] = FALSE /\ Inside' = [Inside EXCEPT ![t] = TRUE]
        /\ Owes' = [Owes EXCEPT ![t] = TRUE]
    <3>1. Inside[t] = IF pc[t] \in {"idle", "setting"} THEN FALSE ELSE TRUE
      BY <2>1, Moves
    <3>2. Inside' = [Inside EXCEPT ![t] = IF "waiting" \in {"idle", "setting"} THEN FALSE ELSE TRUE]
      BY <2>1, Moves
    <3>3. Owes' = [Owes EXCEPT ![t] = IF "waiting" \in {"idle", "setting", "written"} THEN FALSE ELSE TRUE]
      BY <2>1, Moves
    <3> QED BY <2>1, <3>1, <3>2, <3>3
  <2> QED BY <1>2, <1>3, <2>2 DEF Journal!Begin, Logged, Owes, Inside
<1>5. CASE Goes(t, "idle", "idle")
  <2>1. /\ ~Inside[t] /\ Inside' = [Inside EXCEPT ![t] = FALSE] /\ Inside[t] = FALSE
        /\ Owes' = [Owes EXCEPT ![t] = FALSE] /\ Owes[t] = FALSE
    BY <1>5, Moves DEF Goes
  <2>2. Inside' = Inside /\ Owes' = Owes
    BY <2>1 DEF Inside, Owes
  <2> QED BY <1>2, <1>3, <2>1, <2>2 DEF Journal!Begin, Logged, Owes, Inside
<1> QED BY <1>4, <1>5 DEF LOG

\* To the threads that log, and to all who read a target, a LOG is one step: it
\* adds its record whole behind the others, or not at all, whatever other
\* threads log and whatever targets are set in the meantime.
THEOREM JournalImplemented == Spec => ImplementsJournal
<1>1. Init => Journal!Init
  <2> SUFFICES ASSUME Init PROVE Journal!Init
    OBVIOUS
  <2> QED BY DEF Init, Journal!Init, Threads
<1>2. LoggerInv /\ OnceInv /\ [Next]_vars => [Journal!Next]_(Journal!journalVars)
  <2> SUFFICES ASSUME LoggerInv, OnceInv, [Next]_vars
               PROVE  Journal!Next \/ UNCHANGED <<Logged, Owes, Inside, content>>
    BY DEF Journal!journalVars, Logged, Owes, Inside
  <2>1. ASSUME NEW t \in Loggers, Log(t) \/ \E level \in Levels : LOG(t, level)
        PROVE  Journal!Next \/ UNCHANGED <<Logged, Owes, Inside, content>>
    BY <2>1, JournalLogs, JournalBegins DEF Journal!Next
  <2>2. ASSUME NEW t \in Setters,
               \/ \E x \in Targets : SetTarget(t, x)
               \/ \E level \in Levels : SetLevel(t, level)
               \/ SetTargetStep(t)
        PROVE  Journal!AddOther \/ UNCHANGED <<Logged, Owes, Inside, content>>
    <3>1. logged' = logged /\ (UNCHANGED content \/ Warns)
      BY <2>2 DEF SetTarget, SetLevel, SetTargetStep, Stores, SetTargetReturns, logging
    <3>2. \/ pc' = pc
          \/ pc[t] \in {"idle", "setting"} /\ \E to \in {"idle", "setting"} : pc' = [pc EXCEPT ![t] = to]
      BY <2>2 DEF SetTarget, SetLevel, SetTargetStep, Stores, SetTargetReturns, Goes
    <3>3. pc \in [Threads -> Places] /\ t \in Threads /\ Loggers \subseteq Threads
      BY DEF Threads, LoggerInv, TypeOK
    <3>4. \A u \in Loggers : /\ pc'[u] \in {"idle", "setting"} <=> pc[u] \in {"idle", "setting"}
                             /\ pc'[u] = "written" <=> pc[u] = "written"
      BY <3>2, <3>3
    <3>5. UNCHANGED <<Logged, Owes, Inside>>
      BY <3>1, <3>4 DEF Logged, Owes, Inside
    <3>6. Warns => Journal!AddOther
      <4>1. StartFd \in Targets
        BY GlobalLoggerAssumption DEF Targets
      <4> QED BY <3>5, <4>1 DEF Warns, Journal!AddOther, Logged, Owes, Inside
    <3> QED BY <3>1, <3>5, <3>6
  <2>3. CASE \/ \E s \in Strings : DestroyString(s)
             \/ UNCHANGED vars
    <3>1. UNCHANGED <<content, logged, pc>>
      BY <2>3 DEF DestroyString, vars, logging
    <3> QED BY <3>1 DEF Logged, Owes, Inside
  <2> QED BY <2>1, <2>2, <2>3 DEF Next, Journal!Next
<1> QED
  BY <1>1, <1>2, LoggerInit, LoggerNext, OnceInit, OnceNext, PTL
     DEF Spec, ImplementsJournal, Journal!Spec
=============================================================================
