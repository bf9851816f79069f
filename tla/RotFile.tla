------------------------------ MODULE RotFile -------------------------------
(***************************************************************************)
(* The rotating log file of logger/logger.go, RotFile_t: Write holds r.mu  *)
(* and reopens the file by way of reset, which takes r.mu itself; Close    *)
(* sets errDummy after reset has released it.                              *)
(***************************************************************************)
EXTENDS Integers

CONSTANTS
  Writers,    \* goroutines that write to the file or close it
  Nobody,   \* r.mu is free
  Lengths,  \* lengths of the messages written
  Size,     \* r.size, 0 for no limit
  Line,     \* r.line, 0 for no limit
  Dated,    \* r.format holds a date, so that openFile sets r.nextTime
  MaxTotal  \* bound: bytes and lines counted in one file

ASSUME LimitsAssumption == Size \in Nat /\ Line \in Nat /\ Lengths \subseteq Nat /\ MaxTotal \in Nat

VARIABLES
  mu,        \* who holds r.mu
  open,      \* r.file is not nil
  curSize, curLine,
  errDummy,
  retryAt,   \* r.errTryTime is still to come
  openNext,
  nextTime,  \* r.nextTime is set
  rotpc,        \* "idle", "relock" in reset, "closing" between reset and errDummy
  bytes,     \* history: bytes handed to the open file
  lines      \* history: writes to the open file

rotFile == <<open, curSize, curLine, errDummy, retryAt, openNext, nextTime>>
rotVars == <<mu, rotFile, rotpc, bytes, lines>>

\* Types; r.mu is held outside a step only by a Write that reopens the file.
RotTypeOK ==
  /\ mu \in Writers \cup {Nobody}
  /\ open \in BOOLEAN /\ errDummy \in BOOLEAN /\ retryAt \in BOOLEAN /\ openNext \in BOOLEAN
  /\ nextTime \in BOOLEAN
  /\ curSize \in 0..MaxTotal /\ curLine \in 0..MaxTotal
  /\ bytes \in 0..MaxTotal /\ lines \in 0..MaxTotal
  /\ rotpc \in [Writers -> {"idle", "relock", "closing"}]
  /\ mu # Nobody <=> \E p \in Writers : rotpc[p] = "relock"

\* NewRotFile: nobody else has r yet, so reset gets r.mu; the file opens or not.
RotInit ==
  /\ mu = Nobody
  /\ open \in BOOLEAN
  /\ curSize = 0 /\ curLine = 0
  /\ errDummy = ~open /\ retryAt = ~open
  /\ openNext = FALSE /\ nextTime = Dated
  /\ rotpc = [p \in Writers |-> "idle"]
  /\ bytes = 0 /\ lines = 0

Free(p) == mu = Nobody /\ rotpc[p] = "idle"

Full ==
  \/ Size > 0 /\ curSize >= Size
  \/ Line > 0 /\ curLine >= Line

\* Write has to open the next file: after an error whose retry time has come,
\* after a date change (due), or when the file is full.
MustOpen(due) == errDummy \/ openNext \/ (nextTime /\ due) \/ Full

\* Plausible fault, not used by RotNext: Write counts only what it wrote without
\* an error.
WriteFileCountLate(p, n, m, due, ok) ==
  /\ Free(p) /\ ~MustOpen(due)
  /\ (ok => open /\ m = n) /\ (~open => m = 0)
  /\ curSize + n <= MaxTotal /\ curLine < MaxTotal /\ bytes + m <= MaxTotal
  /\ curSize' = (IF ok THEN curSize + n ELSE curSize)
  /\ curLine' = curLine + 1
  /\ errDummy' = ~ok
  /\ retryAt' = (IF ok THEN retryAt ELSE TRUE)
  /\ bytes' = bytes + m
  /\ lines' = (IF ok THEN lines + 1 ELSE lines)
  /\ UNCHANGED <<mu, open, openNext, nextTime, rotpc>>

\* Before the retry time a message is dropped.
WriteDummy(p) ==
  /\ Free(p) /\ errDummy /\ retryAt
  /\ UNCHANGED rotVars

\* Time passes.
RetryTime == errDummy /\ retryAt /\ retryAt' = FALSE
             /\ UNCHANGED <<mu, open, curSize, curLine, errDummy, openNext, nextTime, rotpc, bytes, lines>>

\* openFile calls reset, which waits for the r.mu its caller holds.
WriteReopen(p, due) ==
  /\ Free(p) /\ ~(errDummy /\ retryAt) /\ MustOpen(due)
  /\ mu' = p
  /\ rotpc' = [rotpc EXCEPT ![p] = "relock"]
  /\ errDummy' = FALSE /\ openNext' = TRUE
  /\ UNCHANGED <<open, curSize, curLine, retryAt, nextTime, bytes, lines>>

\* A message of n bytes, m of which get into the file; a closed file (nil)
\* fails the write, an open one may.
WriteFile(p, n, m, due, ok) ==
  /\ Free(p) /\ ~MustOpen(due)
  /\ (ok => open /\ m = n) /\ (~open => m = 0)
  /\ curSize + n <= MaxTotal /\ curLine < MaxTotal
  /\ curSize' = curSize + n /\ curLine' = curLine + 1
  /\ errDummy' = ~ok
  /\ retryAt' = (IF ok THEN retryAt ELSE TRUE)
  /\ bytes' = bytes + m
  /\ lines' = (IF ok THEN lines + 1 ELSE lines)
  /\ UNCHANGED <<mu, open, openNext, nextTime, rotpc>>

\* Close: reset, then errDummy.
CloseReset(p) ==
  /\ Free(p)
  /\ open' = FALSE /\ curSize' = 0 /\ curLine' = 0 /\ nextTime' = FALSE
  /\ bytes' = 0 /\ lines' = 0
  /\ rotpc' = [rotpc EXCEPT ![p] = "closing"]
  /\ UNCHANGED <<mu, errDummy, retryAt, openNext>>

CloseDone(p) ==
  /\ rotpc[p] = "closing"
  /\ errDummy' = TRUE
  /\ rotpc' = [rotpc EXCEPT ![p] = "idle"]
  /\ UNCHANGED <<mu, open, curSize, curLine, retryAt, openNext, nextTime, bytes, lines>>

RotNext ==
  \/ RetryTime
  \/ \E p \in Writers :
       \/ WriteDummy(p) \/ CloseReset(p) \/ CloseDone(p)
       \/ \E due \in BOOLEAN : WriteReopen(p, due)
       \/ \E due, ok \in BOOLEAN, n \in Lengths :
            \E m \in 0..n : WriteFile(p, n, m, due, ok)

RotSpec == RotInit /\ [][RotNext]_rotVars

-----------------------------------------------------------------------------
\* The counters never run behind the file, however writes, errors and closes
\* interleave.
CountersCover == bytes <= curSize /\ lines <= curLine

\* So no limit is overlooked: a file gets no message once it has Size bytes or
\* Line lines, and is at most one message over the size.
Bounded ==
  /\ CountersCover
  /\ Size > 0 => \E n \in Lengths \cup {0} : bytes < Size + n \/ bytes = 0
  /\ Line > 0 => lines <= Line

\* logger.go:704 "call by Write or NewRotFile, caller is threadsafe": openFile
\* does not wait for a lock its own caller holds.
OpenFileReturns == \A p \in Writers : ~(rotpc[p] = "relock" /\ mu = p)
=============================================================================
