----------------------------- MODULE RbmqLogger -----------------------------
(***************************************************************************)
(* The logger: repeated messages are suppressed, and the file is moved     *)
(* away when it has grown too large.                                       *)
(*                                                                         *)
(* Log holds mutex_ from beginning to end, so a call is one step whichever *)
(* thread makes it; its three outcomes are three actions.  LogMap is keyed *)
(* by the hash of the message, here by the message.  A line has size 1.    *)
(*                                                                         *)
(* Two clocks: entries live by the steady one, backups are named after the *)
(* second that the local time shows, which may be set, also back (as it is *)
(* when daylight saving ends).  setThreshold does not take the lock, but   *)
(* nothing in src/ calls it.                                               *)
(***************************************************************************)
EXTENDS Integers

CONSTANTS
  Messages,
  LogThreshold,   \* log_threshold
  LogTimeWindow,  \* log_time_window, in seconds
  MaxLogSize,     \* max_log_size, in lines
  MaxTime         \* bound: seconds the clocks are followed

ASSUME LoggerAssumption ==
  /\ LogThreshold \in Nat /\ LogTimeWindow \in Nat /\ MaxLogSize \in Nat \ {0}
  /\ MaxTime \in Nat

VARIABLES
  now,        \* the steady clock, in seconds
  wall,       \* the local time, in seconds
  LogMap,     \* per message: the time of its first call and the count
  file,       \* lines in the log file
  backups,    \* the names in logbak/: seconds
  since,      \* history: when the present window of a message began
  written,    \* history: lines written of a message in its present window
  lastTry,    \* history: when a line of the message was last written, or lost
  burst,      \* history: lines written while the local time shows this second
  replayed    \* history: the latest second shown before the local time was set

windows == <<since, written, lastTry>>
vars == <<now, wall, LogMap, file, backups, windows, burst, replayed>>

NoEntry == [first_time |-> -1, count |-> 0]
Never == -(LogTimeWindow + 1)

\* The latest second that the local time has shown.
LatestShown == IF wall > replayed THEN wall ELSE replayed

\* The bound of the file holds as a line has size 1: the code looks at the size
\* before it writes, so the last line may reach beyond the limit.
TypeOK ==
  /\ now \in 0 .. MaxTime /\ wall \in 0 .. MaxTime
  /\ replayed \in -1 .. MaxTime
  /\ LogMap \in [Messages -> [first_time : -1 .. MaxTime, count : Nat]]
  /\ file \in 0 .. MaxLogSize
  /\ backups \subseteq 0 .. LatestShown
  /\ burst \in Nat
  /\ since \in [Messages -> {Never} \cup 0 .. MaxTime]
  /\ written \in [Messages -> Nat]
  /\ lastTry \in [Messages -> {Never} \cup 0 .. MaxTime]

\* The file may be there already, from an earlier process.
Init ==
  /\ now = 0 /\ wall = 0 /\ replayed = -1
  /\ LogMap = [m \in Messages |-> NoEntry]
  /\ file \in 0 .. MaxLogSize
  /\ backups = {}
  /\ since = [m \in Messages |-> Never]
  /\ written = [m \in Messages |-> 0]
  /\ lastTry = [m \in Messages |-> Never]
  /\ burst = 0

-----------------------------------------------------------------------------

Expired(e) == e.count > 0 /\ now - e.first_time > LogTimeWindow

\* Variant: entries never expire.
cleanupExpiredLogs_None == LogMap

\* The map without the entries that are older than the window.
cleanupExpiredLogs ==
  [m \in Messages |-> IF Expired(LogMap[m]) THEN NoEntry ELSE LogMap[m]]

\* Variant: a repetition begins the entry anew.
Counted_Restarted(m) == [first_time |-> now, count |-> 1]

\* The entry of m after a call: a new one, or one more repetition.  (The code
\* also restarts an entry outside the window, but none is left by then.)
Counted(m) ==
  LET e == cleanupExpiredLogs[m]
  IN  IF e.count = 0 THEN [first_time |-> now, count |-> 1]
                     ELSE [e EXCEPT !.count = @ + 1]

\* A repetition that reaches the threshold is not written.
Suppressed(m) == Counted(m).count > 1 /\ Counted(m).count >= LogThreshold

LogMapAfter(m) == [cleanupExpiredLogs EXCEPT ![m] = Counted(m)]

\* History: a call of m writes n lines.  The call begins a window of m if the
\* last one is over; this does not look at the entries.
InWindow(m, n) ==
  LET over == now - since[m] > LogTimeWindow
  IN  /\ since' = [since EXCEPT ![m] = IF over THEN now ELSE @]
      /\ written' = [written EXCEPT ![m] = (IF over THEN 0 ELSE @) + n]

LogSuppressed(m) ==
  /\ Suppressed(m)
  /\ LogMap' = LogMapAfter(m)
  /\ InWindow(m, 0)
  /\ UNCHANGED <<now, wall, file, backups, lastTry, burst, replayed>>

\* Variant: the size is not looked at.
TooLarge_Never == FALSE

\* Variant: the file is moved before it is full.
TooLarge_Early == file >= MaxLogSize - 1

TooLarge == file >= MaxLogSize

\* A file that is too large is renamed to a backup, which replaces one that has
\* the same name.
Rotate ==
  IF TooLarge THEN file' = 0 /\ backups' = backups \cup {wall}
              ELSE UNCHANGED <<file, backups>>

\* The line goes to the file, or to a new one.
WriteLine ==
  IF TooLarge THEN file' = 1 /\ backups' = backups \cup {wall}
              ELSE file' = file + 1 /\ UNCHANGED backups

LogWritten(m) ==
  /\ ~Suppressed(m)
  /\ LogMap' = LogMapAfter(m)
  /\ WriteLine
  /\ InWindow(m, 1)
  /\ lastTry' = [lastTry EXCEPT ![m] = now]
  /\ burst' = burst + 1
  /\ UNCHANGED <<now, wall, replayed>>

\* The backup directory cannot be made, the file cannot be renamed, or not be
\* opened after the renaming: the line is lost, but has been counted.
LogLost(m) ==
  /\ ~Suppressed(m)
  /\ LogMap' = LogMapAfter(m)
  /\ Rotate \/ UNCHANGED <<file, backups>>
  /\ InWindow(m, 0)
  /\ lastTry' = [lastTry EXCEPT ![m] = now]
  /\ UNCHANGED <<now, wall, burst, replayed>>

Tick ==
  /\ now < MaxTime /\ wall < MaxTime
  /\ now' = now + 1
  /\ wall' = wall + 1
  /\ burst' = 0
  /\ UNCHANGED <<LogMap, file, backups, windows, replayed>>

\* The local time is set, back or forward; the steady clock goes on.
SetClock ==
  /\ wall' \in (0 .. MaxTime) \ {wall}
  /\ replayed' = LatestShown
  /\ burst' = 0
  /\ UNCHANGED <<now, LogMap, file, backups, windows>>

\* Bound: a message is not counted far beyond the threshold.
Log(m) ==
  /\ Counted(m).count <= LogThreshold + 2
  /\ LogSuppressed(m) \/ LogWritten(m) \/ LogLost(m)

Next == Tick \/ SetClock \/ \E m \in Messages : Log(m)

Spec == Init /\ [][Next]_vars

-----------------------------------------------------------------------------
\* Properties.

\* However fast a message repeats, whatever other messages clean up in between
\* and however the disk fails, a window of log_time_window seconds sees at most
\* log_threshold lines of it (rbloger.cpp:7), and a threshold of 0 lets one pass.
FloodIsBounded ==
  \A m \in Messages : written[m] <= (IF LogThreshold > 0 THEN LogThreshold ELSE 1)

\* A call is suppressed only if at most log_time_window seconds ago a line with
\* the message was written, or refused by the disk: repetition never hides a
\* message for longer than the window.
SuppressionIsRecent ==
  [][\A m \in Messages :
       LogMap'[m].count > 1 /\ LogMap'[m] # LogMap[m] /\ file' = file /\ lastTry'[m] = lastTry[m]
         => now - lastTry[m] <= LogTimeWindow]_vars

\* A backup is replaced by another one of the same name only if the messages of
\* one second fill a whole file (4 MiB), or if the local time has been set and
\* shows a second that is not later than all it showed before.
BackupLostOnlyInBurst ==
  [][file' < file /\ wall \in backups => burst >= MaxLogSize \/ wall <= replayed]_vars
=============================================================================
