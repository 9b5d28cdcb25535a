-------------------------- MODULE RbmqLoggerProofs --------------------------
(***************************************************************************)
(* Proofs about RbmqLogger: the bound on the lines of a message, the       *)
(* window in which a message may be suppressed, and the one case in which  *)
(* a backup is replaced, for any threshold, window, file size and set of   *)
(* messages.                                                               *)
(***************************************************************************)
EXTENDS RbmqLogger, TLAPS

Entry == [first_time : -1 .. MaxTime, count : Nat]

Limit == IF LogThreshold > 0 THEN LogThreshold ELSE 1

\* No more lines than calls, and no more than the threshold; the window of an
\* entry is that of its message.
LinesAreCounted ==
  \A m \in Messages :
    /\ written[m] <= Limit
    /\ LogMap[m].count > 0 => written[m] <= LogMap[m].count /\ since[m] = LogMap[m].first_time

\* A message has no entry only if its window is over.
NoEntryNoWindow ==
  \A m \in Messages : LogMap[m].count = 0 => now - since[m] > LogTimeWindow

\* The first call of a window writes a line, or loses it.
FirstIsTried ==
  \A m \in Messages : LogMap[m].count > 0 =>
    LogMap[m].first_time \in 0 .. now /\ LogMap[m].first_time <= lastTry[m]

\* After a backup in this second the file has only lines of this second, if the
\* local time shows it for the first time.
FileIsOfThisSecond == wall \in backups /\ wall > replayed => file <= burst

IInv == TypeOK /\ LinesAreCounted /\ NoEntryNoWindow /\ FirstIsTried /\ FileIsOfThisSecond

-----------------------------------------------------------------------------

LEMMA InitIInv == Init => IInv
<1> SUFFICES ASSUME Init PROVE IInv
  OBVIOUS
<1> USE LoggerAssumption DEF Init
<1>1. TypeOK
  BY DEF TypeOK, NoEntry, Never, LatestShown
<1>2. \A m \in Messages : LogMap[m].count = 0 /\ written[m] = 0 /\ since[m] = Never
  BY DEF NoEntry
<1>3. LinesAreCounted /\ FirstIsTried /\ FileIsOfThisSecond
  BY <1>2 DEF LinesAreCounted, FirstIsTried, FileIsOfThisSecond, Limit
<1>4. NoEntryNoWindow
  BY <1>2 DEF NoEntryNoWindow, Never
<1> QED BY <1>1, <1>3, <1>4 DEF IInv

\* An entry that is left by the clean-up is as it was, and within the window.
LEMMA CleanedEntry ==
  ASSUME TypeOK, NEW m \in Messages
  PROVE  /\ cleanupExpiredLogs[m] \in Entry
         /\ \/ /\ cleanupExpiredLogs[m].count = 0
               /\ LogMap[m].count = 0 \/ Expired(LogMap[m])
            \/ /\ cleanupExpiredLogs[m] = LogMap[m] /\ LogMap[m].count > 0
               /\ now - LogMap[m].first_time <= LogTimeWindow
<1>1. LogMap[m] \in Entry /\ NoEntry \in Entry /\ NoEntry.count = 0 /\ now \in Int
  BY LoggerAssumption DEF TypeOK, Entry, NoEntry
<1>2. cleanupExpiredLogs[m] = IF Expired(LogMap[m]) THEN NoEntry ELSE LogMap[m]
  BY DEF cleanupExpiredLogs
<1>3. LogMap[m].count \in Nat /\ LogMap[m].first_time \in Int
  BY <1>1 DEF Entry
<1>4. CASE Expired(LogMap[m])
  BY <1>1, <1>2, <1>4
<1>5. CASE ~Expired(LogMap[m])
  BY LoggerAssumption, <1>1, <1>2, <1>3, <1>5 DEF Expired
<1> QED BY <1>4, <1>5

\* A call begins a window or is one more call in the window of its message.
LEMMA CountedCases ==
  ASSUME TypeOK, NEW m \in Messages
  PROVE  /\ Counted(m) \in Entry
         /\ \/ /\ Counted(m).count = 1 /\ Counted(m).first_time = now
               /\ LogMap[m].count = 0 \/ Expired(LogMap[m])
            \/ /\ LogMap[m].count > 0 /\ Counted(m).count = LogMap[m].count + 1
               /\ Counted(m).first_time = LogMap[m].first_time
               /\ now - LogMap[m].first_time <= LogTimeWindow
<1> DEFINE e == cleanupExpiredLogs[m]
<1>1. e \in Entry
  BY CleanedEntry
<1>2. CASE e.count = 0
  <2>1. Counted(m) = [first_time |-> now, count |-> 1]
    BY <1>2 DEF Counted
  <2>2. LogMap[m].count = 0 \/ Expired(LogMap[m])
    BY <1>2, CleanedEntry
  <2> QED BY <2>1, <2>2, LoggerAssumption DEF TypeOK, Entry
<1>3. CASE e.count # 0
  <2>1. /\ e = LogMap[m] /\ LogMap[m].count > 0
        /\ now - LogMap[m].first_time <= LogTimeWindow
    BY <1>3, CleanedEntry
  <2>2. Counted(m) = [e EXCEPT !.count = e.count + 1]
    BY <1>3 DEF Counted
  <2> HIDE DEF e
  <2>3. Counted(m) \in Entry /\ Counted(m).count = e.count + 1
        /\ Counted(m).first_time = e.first_time
    BY <1>1, <2>2 DEF Entry
  <2> QED BY <2>1, <2>3
<1> QED BY <1>2, <1>3

\* The window that begins with the call is the one that its entry has.
LEMMA WindowIsThatOfEntry ==
  ASSUME IInv, NEW m \in Messages, NEW k \in Nat, InWindow(m, k)
  PROVE  /\ since' \in [Messages -> {Never} \cup 0 .. MaxTime]
         /\ written' \in [Messages -> Nat]
         /\ \A n \in Messages \ {m} : since'[n] = since[n] /\ written'[n] = written[n]
         /\ since'[m] = Counted(m).first_time
         /\ \/ Counted(m).count = 1 /\ written'[m] = k
            \/ /\ LogMap[m].count > 0 /\ Counted(m).count = LogMap[m].count + 1
               /\ written'[m] = written[m] + k
<1> DEFINE over == now - since[m] > LogTimeWindow
<1>1. /\ now \in 0 .. MaxTime /\ written \in [Messages -> Nat] /\ TypeOK
      /\ since \in [Messages -> {Never} \cup 0 .. MaxTime] /\ LogMap[m] \in Entry
  BY DEF IInv, TypeOK, Entry
<1>2. /\ since' = [since EXCEPT ![m] = IF over THEN now ELSE since[m]]
      /\ written' = [written EXCEPT ![m] = (IF over THEN 0 ELSE written[m]) + k]
  BY DEF InWindow
<1> HIDE DEF over
<1>3. /\ since' \in [Messages -> {Never} \cup 0 .. MaxTime]
      /\ written' \in [Messages -> Nat]
      /\ \A n \in Messages \ {m} : since'[n] = since[n] /\ written'[n] = written[n]
      /\ since'[m] = (IF over THEN now ELSE since[m])
      /\ written'[m] = (IF over THEN 0 ELSE written[m]) + k
  BY <1>1, <1>2
<1>4. CASE /\ Counted(m).count = 1 /\ Counted(m).first_time = now
           /\ LogMap[m].count = 0 \/ Expired(LogMap[m])
  <2>1. LogMap[m].count = 0 => over
    BY DEF IInv, NoEntryNoWindow, over
  <2>2. Expired(LogMap[m]) => over
    BY DEF IInv, LinesAreCounted, Expired, over
  <2>3. over
    BY <1>4, <2>1, <2>2
  <2> QED BY <1>3, <1>4, <2>3
<1>5. CASE /\ LogMap[m].count > 0 /\ Counted(m).count = LogMap[m].count + 1
           /\ Counted(m).first_time = LogMap[m].first_time
           /\ now - LogMap[m].first_time <= LogTimeWindow
  <2>1. since[m] = LogMap[m].first_time
    BY <1>5 DEF IInv, LinesAreCounted
  <2>2. ~over
    BY <1>1, <1>5, <2>1, LoggerAssumption DEF over, Entry
  <2> QED BY <1>3, <1>5, <2>1, <2>2
<1> QED BY <1>1, <1>4, <1>5, CountedCases

\* The map after a call of m: its own entry, and what is left of the others.
LEMMA MapAfter ==
  ASSUME TypeOK, NEW m \in Messages, LogMap' = LogMapAfter(m)
  PROVE  /\ LogMap' \in [Messages -> Entry]
         /\ LogMap'[m] = Counted(m)
         /\ \A n \in Messages \ {m} : 
              \/ LogMap'[n] = LogMap[n]
              \/ LogMap'[n].count = 0 /\ Expired(LogMap[n])
<1>1. \A n \in Messages : cleanupExpiredLogs[n] \in Entry
  BY CleanedEntry
<1>2. cleanupExpiredLogs \in [Messages -> Entry]
  BY <1>1 DEF cleanupExpiredLogs
<1>3. Counted(m) \in Entry
  BY CountedCases
<1>4. LogMap' = [cleanupExpiredLogs EXCEPT ![m] = Counted(m)]
  BY DEF LogMapAfter
<1>5. /\ LogMap' \in [Messages -> Entry] /\ LogMap'[m] = Counted(m)
      /\ \A n \in Messages \ {m} : LogMap'[n] = cleanupExpiredLogs[n]
  BY <1>2, <1>3, <1>4
<1>6. \A n \in Messages : cleanupExpiredLogs[n] = IF Expired(LogMap[n]) THEN NoEntry ELSE LogMap[n]
  BY DEF cleanupExpiredLogs
<1> QED BY <1>5, <1>6 DEF NoEntry

\* What every call does to the entries, whatever becomes of its k lines.
LEMMA CallKeepsEntries ==
  ASSUME IInv, NEW m \in Messages, LogMap' = LogMapAfter(m), now' = now,
         NEW k \in 0 .. 1, InWindow(m, k), k = 1 => ~Suppressed(m),
         \A n \in Messages \ {m} : lastTry'[n] = lastTry[n],
         \/ lastTry'[m] = now
         \/ lastTry'[m] = lastTry[m] /\ Counted(m).count > 1
  PROVE  LinesAreCounted' /\ NoEntryNoWindow' /\ FirstIsTried'
<1>1. /\ TypeOK /\ now \in Nat /\ now <= MaxTime /\ Limit' = Limit
      /\ LogThreshold \in Nat /\ written[m] \in Nat /\ LogMap[m].count \in Nat
      /\ since \in [Messages -> Int] /\ LogTimeWindow \in Nat
  BY LoggerAssumption DEF IInv, TypeOK, Limit, Never
<1>2. /\ LogMap'[m] = Counted(m) /\ Counted(m) \in Entry
      /\ \A n \in Messages \ {m} : \/ LogMap'[n] = LogMap[n]
                                   \/ LogMap'[n].count = 0 /\ Expired(LogMap[n])
  BY <1>1, MapAfter, CountedCases
<1>3. /\ \A n \in Messages \ {m} : since'[n] = since[n] /\ written'[n] = written[n]
      /\ since'[m] = Counted(m).first_time
      /\ \/ Counted(m).count = 1 /\ written'[m] = k
         \/ /\ LogMap[m].count > 0 /\ Counted(m).count = LogMap[m].count + 1
            /\ written'[m] = written[m] + k
  BY WindowIsThatOfEntry
<1> DEFINE P(n) == /\ written'[n] <= Limit
                   /\ LogMap'[n].count > 0 =>
                        /\ written'[n] <= LogMap'[n].count
                        /\ since'[n] = LogMap'[n].first_time
                        /\ LogMap'[n].first_time \in 0 .. now
                        /\ LogMap'[n].first_time <= lastTry'[n]
                   /\ LogMap'[n].count = 0 => now - since'[n] > LogTimeWindow
<1>4. ASSUME NEW n \in Messages \ {m}
      PROVE  P(n)
  <2>1. since'[n] = since[n] /\ written'[n] = written[n] /\ lastTry'[n] = lastTry[n]
    BY <1>3
  <2>2. CASE LogMap'[n] = LogMap[n]
    BY <2>1, <2>2 DEF IInv, LinesAreCounted, NoEntryNoWindow, FirstIsTried
  <2>3. CASE LogMap'[n].count = 0 /\ Expired(LogMap[n])
    <3>1. now - since[n] > LogTimeWindow
      BY <2>3 DEF Expired, IInv, LinesAreCounted
    <3>2. written[n] <= Limit
      BY DEF IInv, LinesAreCounted
    <3> QED BY <2>1, <2>3, <3>1, <3>2
  <2> QED BY <1>2, <2>2, <2>3
<1>5. Counted(m).first_time \in 0 .. now /\ Counted(m).first_time <= lastTry'[m]
  <2>1. CASE Counted(m).count = 1 /\ Counted(m).first_time = now
    <3>1. lastTry'[m] = now
      BY <2>1
    <3> QED BY <1>1, <2>1, <3>1
  <2>2. CASE LogMap[m].count > 0 /\ Counted(m).first_time = LogMap[m].first_time
    <3>1. LogMap[m].first_time \in 0 .. now /\ LogMap[m].first_time <= lastTry[m]
      BY <2>2 DEF IInv, FirstIsTried
    <3> QED BY <1>1, <2>2, <3>1
  <2> QED BY <1>1, <2>1, <2>2, CountedCases
<1>6. written'[m] <= Limit /\ written'[m] <= Counted(m).count /\ Counted(m).count > 0
  <2>1. CASE Counted(m).count = 1 /\ written'[m] = k
    BY <1>1, <2>1 DEF Limit
  <2>2. CASE /\ LogMap[m].count > 0 /\ Counted(m).count = LogMap[m].count + 1
             /\ written'[m] = written[m] + k
    <3>1. written[m] <= Limit /\ written[m] <= LogMap[m].count
      BY <2>2 DEF IInv, LinesAreCounted
    <3>2. k = 1 => Counted(m).count < LogThreshold
      BY <1>1, <2>2 DEF Suppressed
    <3> QED BY <1>1, <2>2, <3>1, <3>2 DEF Limit
  <2> QED BY <1>3, <2>1, <2>2
<1>7. P(m)
  <2>1. LogMap'[m].count # 0
    BY <1>2, <1>6
  <2> QED BY <1>2, <1>3, <1>5, <1>6, <2>1
<1>8. \A n \in Messages : P(n)
  BY <1>4, <1>7
<1> QED BY <1>1, <1>8 DEF LinesAreCounted, NoEntryNoWindow, FirstIsTried

LEMMA LogSuppressedKeeps ==
  ASSUME IInv, NEW m \in Messages, LogSuppressed(m)
  PROVE  IInv'
<1> USE DEF LogSuppressed
<1>1. /\ TypeOK /\ Counted(m).count > 1 /\ InWindow(m, 0) /\ 0 \in Nat
      /\ since' \in [Messages -> {Never} \cup 0 .. MaxTime] /\ written' \in [Messages -> Nat]
  BY WindowIsThatOfEntry DEF IInv, Suppressed
<1>2. TypeOK'
  BY <1>1, MapAfter DEF TypeOK, Entry, LatestShown, Never
<1>3. LinesAreCounted' /\ NoEntryNoWindow' /\ FirstIsTried'
  BY <1>1, CallKeepsEntries
<1>4. FileIsOfThisSecond'
  BY DEF IInv, FileIsOfThisSecond
<1> QED BY <1>2, <1>3, <1>4 DEF IInv

LEMMA LogWrittenKeeps ==
  ASSUME IInv, NEW m \in Messages, LogWritten(m)
  PROVE  IInv'
<1>1. /\ TypeOK /\ ~Suppressed(m) /\ LogMap' = LogMapAfter(m)
      /\ InWindow(m, 1) /\ 1 \in Nat
      /\ lastTry' = [lastTry EXCEPT ![m] = now]
      /\ burst' = burst + 1 /\ WriteLine /\ UNCHANGED <<now, wall, replayed>>
  BY DEF LogWritten, IInv
<1>2. since' \in [Messages -> {Never} \cup 0 .. MaxTime] /\ written' \in [Messages -> Nat]
  BY <1>1, WindowIsThatOfEntry
<1>3. /\ now \in 0 .. MaxTime /\ wall \in 0 .. MaxTime /\ replayed \in -1 .. MaxTime
      /\ MaxTime \in Nat /\ file \in 0 .. MaxLogSize
      /\ MaxLogSize \in Nat \ {0} /\ burst \in Nat /\ backups \subseteq 0 .. LatestShown
      /\ lastTry \in [Messages -> {Never} \cup 0 .. MaxTime]
  BY <1>1, LoggerAssumption DEF TypeOK
<1>4. LatestShown' = LatestShown /\ wall \in 0 .. LatestShown
  BY <1>1, <1>3 DEF LatestShown
<1>5. /\ file' \in 0 .. MaxLogSize /\ backups' \subseteq 0 .. LatestShown
      /\ FileIsOfThisSecond'
  <2>1. CASE file' = 1 /\ backups' = backups \cup {wall}
    <3>1. file' \in 0 .. MaxLogSize /\ file' <= burst'
      BY <1>1, <1>3, <2>1
    <3>2. backups' \subseteq 0 .. LatestShown
      BY <1>3, <1>4, <2>1
    <3> QED BY <3>1, <3>2 DEF FileIsOfThisSecond
  <2>2. CASE file < MaxLogSize /\ file' = file + 1 /\ backups' = backups
    <3>1. file' \in 0 .. MaxLogSize /\ (file <= burst => file' <= burst')
      BY <1>1, <1>3, <2>2
    <3> QED BY <1>1, <1>3, <2>2, <3>1 DEF IInv, FileIsOfThisSecond
  <2>3. file >= MaxLogSize \/ file < MaxLogSize
    BY <1>3
  <2> QED BY <1>1, <2>1, <2>2, <2>3 DEF WriteLine, TooLarge
<1>6. LogMap' \in [Messages -> Entry]
  BY <1>1, MapAfter
<1>7. TypeOK'
  BY <1>1, <1>2, <1>3, <1>4, <1>5, <1>6 DEF TypeOK, Entry, Never
<1>8. /\ lastTry'[m] = now
      /\ \A n \in Messages \ {m} : lastTry'[n] = lastTry[n]
  BY <1>1, <1>3
<1>9. LinesAreCounted' /\ NoEntryNoWindow' /\ FirstIsTried'
  BY <1>1, <1>8, CallKeepsEntries
<1> QED BY <1>5, <1>7, <1>9 DEF IInv

LEMMA LogLostKeeps ==
  ASSUME IInv, NEW m \in Messages, LogLost(m)
  PROVE  IInv'
<1>1. /\ TypeOK /\ LogMap' = LogMapAfter(m)
      /\ InWindow(m, 0) /\ 0 \in Nat
      /\ lastTry' = [lastTry EXCEPT ![m] = now]
      /\ Rotate \/ UNCHANGED <<file, backups>>
      /\ UNCHANGED <<now, wall, burst, replayed>>
  BY DEF LogLost, IInv
<1>2. since' \in [Messages -> {Never} \cup 0 .. MaxTime] /\ written' \in [Messages -> Nat]
  BY <1>1, WindowIsThatOfEntry
<1>3. /\ now \in 0 .. MaxTime /\ wall \in 0 .. MaxTime /\ replayed \in -1 .. MaxTime
      /\ MaxTime \in Nat /\ file \in 0 .. MaxLogSize
      /\ MaxLogSize \in Nat \ {0} /\ burst \in Nat /\ backups \subseteq 0 .. LatestShown
      /\ lastTry \in [Messages -> {Never} \cup 0 .. MaxTime]
  BY <1>1, LoggerAssumption DEF TypeOK
<1>4. LatestShown' = LatestShown /\ wall \in 0 .. LatestShown
  BY <1>1, <1>3 DEF LatestShown
<1>5. /\ file' \in 0 .. MaxLogSize /\ backups' \subseteq 0 .. LatestShown
      /\ FileIsOfThisSecond'
  <2>1. CASE file' = 0 /\ backups' = backups \cup {wall}
    <3>1. file' \in 0 .. MaxLogSize /\ file' <= burst'
      BY <1>1, <1>3, <2>1
    <3>2. backups' \subseteq 0 .. LatestShown
      BY <1>3, <1>4, <2>1
    <3> QED BY <3>1, <3>2 DEF FileIsOfThisSecond
  <2>2. CASE UNCHANGED <<file, backups>>
    BY <1>1, <1>3, <2>2 DEF IInv, FileIsOfThisSecond
  <2> QED BY <1>1, <2>1, <2>2 DEF Rotate
<1>6. LogMap' \in [Messages -> Entry]
  BY <1>1, MapAfter
<1>7. TypeOK'
  BY <1>1, <1>2, <1>3, <1>4, <1>5, <1>6 DEF TypeOK, Entry, Never
<1>8. /\ lastTry'[m] = now
      /\ \A n \in Messages \ {m} : lastTry'[n] = lastTry[n]
  BY <1>1, <1>3
<1>9. LinesAreCounted' /\ NoEntryNoWindow' /\ FirstIsTried'
  BY <1>1, <1>8, CallKeepsEntries
<1> QED BY <1>5, <1>7, <1>9 DEF IInv

LEMMA TickKeeps ==
  ASSUME IInv, Tick
  PROVE  IInv'
<1>1. /\ TypeOK /\ now < MaxTime /\ now' = now + 1 /\ wall < MaxTime /\ wall' = wall + 1
      /\ burst' = 0 /\ UNCHANGED <<LogMap, file, backups, windows, replayed>>
      /\ now \in Nat /\ wall \in Nat /\ MaxTime \in Nat /\ replayed \in Int
  BY LoggerAssumption DEF Tick, IInv, TypeOK
<1>2. LatestShown \in Int /\ LatestShown' \in Int /\ LatestShown <= LatestShown'
  BY <1>1 DEF LatestShown
<1>3. TypeOK'
  <2>1. backups' \subseteq 0 .. LatestShown'
    BY <1>1, <1>2 DEF TypeOK
  <2> QED BY <1>1, <2>1 DEF TypeOK, windows, Never
<1>4. FileIsOfThisSecond'
  <2>1. wall' > replayed' => wall' \notin backups
    BY <1>1 DEF TypeOK, LatestShown
  <2> QED BY <1>1, <2>1 DEF FileIsOfThisSecond
<1>5. LinesAreCounted' /\ FirstIsTried'
  BY <1>1 DEF IInv, LinesAreCounted, FirstIsTried, Limit, windows
<1>6. NoEntryNoWindow'
  <2>1. since \in [Messages -> Int] /\ LogTimeWindow \in Nat
    BY <1>1, LoggerAssumption DEF TypeOK, Never
  <2> QED BY <1>1, <2>1 DEF IInv, NoEntryNoWindow, windows
<1> QED BY <1>3, <1>4, <1>5, <1>6 DEF IInv

LEMMA SetClockKeeps ==
  ASSUME IInv, SetClock
  PROVE  IInv'
<1>1. /\ TypeOK /\ wall' \in 0 .. MaxTime /\ replayed' = LatestShown /\ burst' = 0
      /\ UNCHANGED <<now, LogMap, file, backups, windows>>
      /\ wall \in 0 .. MaxTime /\ MaxTime \in Nat /\ replayed \in -1 .. MaxTime
  BY LoggerAssumption DEF SetClock, IInv, TypeOK
<1>2. LatestShown \in 0 .. MaxTime /\ LatestShown' \in Int /\ LatestShown <= LatestShown'
  BY <1>1 DEF LatestShown
<1>3. TypeOK'
  <2>1. backups' \subseteq 0 .. LatestShown'
    BY <1>1, <1>2 DEF TypeOK
  <2> QED BY <1>1, <1>2, <2>1 DEF TypeOK, windows, Never
<1>4. FileIsOfThisSecond'
  <2>1. wall' > replayed' => wall' \notin backups
    BY <1>1, <1>2 DEF TypeOK
  <2> QED BY <1>1, <2>1 DEF FileIsOfThisSecond
<1>5. LinesAreCounted' /\ FirstIsTried' /\ NoEntryNoWindow'
  BY <1>1 DEF IInv, LinesAreCounted, FirstIsTried, NoEntryNoWindow, Limit, windows
<1> QED BY <1>3, <1>4, <1>5 DEF IInv

LEMMA NextKeeps == IInv /\ [Next]_vars => IInv'
<1> SUFFICES ASSUME IInv, [Next]_vars PROVE IInv'
  OBVIOUS
<1>1. ASSUME NEW m \in Messages, Log(m) PROVE IInv'
  BY <1>1, LogSuppressedKeeps, LogWrittenKeeps, LogLostKeeps DEF Log
<1>2. CASE Tick
  BY <1>2, TickKeeps
<1>3. CASE SetClock
  BY <1>3, SetClockKeeps
<1>4. CASE UNCHANGED vars
  BY <1>4 DEF vars, windows, IInv, TypeOK, LinesAreCounted, NoEntryNoWindow, FirstIsTried,
              FileIsOfThisSecond, Limit, LatestShown, Never
<1> QED BY <1>1, <1>2, <1>3, <1>4 DEF Next

-----------------------------------------------------------------------------
\* The theorems.

\* The invariant holds in every reachable state of the logger.
THEOREM Invariance == Spec => []IInv
BY InitIInv, NextKeeps, PTL DEF Spec

\* Type correctness: the file never exceeds its limit (lines have size 1), and
\* backups have names of seconds that the local time has shown.
THEOREM TypeCorrect == Spec => []TypeOK
<1>1. IInv => TypeOK
  BY DEF IInv
<1> QED BY <1>1, Invariance, PTL

\* At most log_threshold lines of a message in one window, whatever the disk and
\* the other messages do (Log, rbloger.cpp:7).
THEOREM FloodIsBoundedHolds == Spec => []FloodIsBounded
<1>1. IInv => FloodIsBounded
  BY DEF IInv, LinesAreCounted, FloodIsBounded, Limit
<1> QED BY <1>1, Invariance, PTL

\* A message is suppressed only within log_time_window seconds of a line.
THEOREM SuppressionIsRecentHolds == Spec => SuppressionIsRecent
<1> DEFINE A == \A m \in Messages :
       LogMap'[m].count > 1 /\ LogMap'[m] # LogMap[m] /\ file' = file /\ lastTry'[m] = lastTry[m]
         => now - lastTry[m] <= LogTimeWindow
<1>1. IInv /\ [Next]_vars => [A]_vars
  <2> SUFFICES ASSUME IInv, Next, NEW n \in Messages,
                      LogMap'[n].count > 1, LogMap'[n] # LogMap[n], lastTry'[n] = lastTry[n]
               PROVE  now - lastTry[n] <= LogTimeWindow
    OBVIOUS
  <2>1. PICK m \in Messages : Log(m)
    BY DEF Next, Tick, SetClock
  <2>2. TypeOK /\ LogMap' = LogMapAfter(m)
    BY <2>1 DEF IInv, Log, LogSuppressed, LogWritten, LogLost
  <2>3. n = m
    BY <2>2, MapAfter
  <2>4. now \in Nat /\ LogTimeWindow \in Nat /\ lastTry \in [Messages -> {Never} \cup 0 .. MaxTime]
    BY <2>2, LoggerAssumption DEF TypeOK
  <2>5. CASE lastTry'[m] = now
    BY <2>3, <2>4, <2>5
  <2>6. CASE lastTry'[m] # now
    <3>1. LogSuppressed(m)
      BY <2>1, <2>4, <2>6 DEF Log, LogWritten, LogLost
    <3>2. LogMap[m].count > 0 /\ now - LogMap[m].first_time <= LogTimeWindow
      BY <2>2, <3>1, CountedCases DEF LogSuppressed, Suppressed
    <3>3. LogMap[m].first_time <= lastTry[m] /\ LogMap[m].first_time \in 0 .. now
      BY <3>2 DEF IInv, FirstIsTried
    <3>4. lastTry[m] \in Int
      BY <2>4, LoggerAssumption DEF Never
    <3> QED BY <2>3, <2>4, <3>2, <3>3, <3>4
  <2> QED BY <2>5, <2>6
<1> QED BY <1>1, Invariance, PTL DEF Spec, SuppressionIsRecent

\* A backup is replaced only by the messages of a second that fill a whole file,
\* or in a second that the local time shows again.
THEOREM BackupLostOnlyInBurstHolds == Spec => BackupLostOnlyInBurst
<1>1. IInv /\ [Next]_vars =>
        [file' < file /\ wall \in backups => burst >= MaxLogSize \/ wall <= replayed]_vars
  <2> SUFFICES ASSUME IInv, Next, file' < file, wall \in backups, ~(wall <= replayed)
               PROVE  burst >= MaxLogSize
    OBVIOUS
  <2>1. /\ file \in Nat /\ burst \in Nat /\ MaxLogSize \in Nat
        /\ wall \in Int /\ replayed \in Int
    BY LoggerAssumption DEF IInv, TypeOK
  <2>2. file <= burst
    BY <2>1 DEF IInv, FileIsOfThisSecond
  <2>3. TooLarge
    <3>1. ~Tick /\ ~SetClock
      BY <2>1 DEF Tick, SetClock
    <3>2. PICK m \in Messages : Log(m)
      BY <3>1 DEF Next
    <3>3. file' # file /\ file' # file + 1
      BY <2>1
    <3> QED BY <3>2, <3>3 DEF Log, LogSuppressed, LogWritten, LogLost, WriteLine, Rotate
  <2> QED BY <2>1, <2>2, <2>3 DEF TooLarge
<1> QED BY <1>1, Invariance, PTL DEF Spec, BackupLostOnlyInBurst
=============================================================================
