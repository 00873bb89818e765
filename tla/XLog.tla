--------------------------------- MODULE XLog ---------------------------------
(***************************************************************************)
(* src/src/xdebug.c, the log: where its messages go (xlogfile), which ones *)
(* (xloglevel), and how a file that has reached its limit (xlogfsize) is   *)
(* renamed to a swap file, whose former contents go.  One thread.          *)
(*                                                                         *)
(* A message is its number and its length, with mark and time stamp.       *)
(***************************************************************************)
EXTENDS Integers, Sequences, SequencesExt

CONSTANTS
  LogFiles,      \* the names of log files
  LogSizes,      \* the limits that xlogfsize is called with; 0 is none
  LineLengths,   \* how long a message may be in its file
  LeastSize,     \* the 512 bytes of xlogfsize
  DefaultSize,   \* XLOG_LIMIT_SIZE
  Levels,        \* LOG_EMERG .. LOG_DEBUG
  StderrIsFull,  \* standard error is a file that has reached any limit
  MaxMessages    \* bound

ASSUME LogAssumption ==
  /\ LineLengths \subseteq Nat \ {0}
  /\ LogSizes \subseteq Nat /\ LeastSize \in Nat /\ DefaultSize \in Nat
  /\ Levels \subseteq Nat /\ Levels # {}
  /\ StderrIsFull \in BOOLEAN /\ MaxMessages \in Nat
  /\ LogFiles \cap {"syslog", "stdout", "stderr"} = {}

VARIABLES
  file,      \* xlogctl.file
  fp,        \* xlogctl.fp: "NULL", "stdout", "stderr" or "file"
  fsize,     \* xlogctl.fsize
  level,     \* xlogctl.level
  toSyslog,  \* xlogctl.syslog
  disk,      \* the messages in every log file
  swap,      \* the messages in its swap file
  size,      \* st_size of every log file
  logged,    \* all that were written to it (a ghost)
  message,   \* the number of the last message
  crashed    \* fprintf was called with NULL

logVars == <<file, fp, fsize, level, toSyslog, disk, swap, size, logged, message, crashed>>

Names == LogFiles \cup {"syslog"}
Greatest(S) == CHOOSE n \in S : \A m \in S : m <= n

LogInit ==
  /\ file = "syslog" /\ fp = "NULL" /\ toSyslog = TRUE
  /\ fsize = DefaultSize /\ level = Greatest(Levels)
  /\ disk = [f \in Names |-> <<>>] /\ swap = disk /\ logged = disk
  /\ size = [f \in Names |-> 0]
  /\ message = 0 /\ crashed = FALSE

-----------------------------------------------------------------------------
(* xlogfile.  A former log file is closed; fp stays if it is a stream of   *)
(* the program, and file keeps the last log file.                          *)

AfterClose(p) == IF p = "file" THEN "NULL" ELSE p

\* The part of xlogfile behind the copy of the name, for a name and an fopen
\* that succeeds or not: what file, fp and toSyslog become.
Redirected(name, opened) ==
  CASE name = "syslog" -> [file |-> file, fp |-> AfterClose(fp), toSyslog |-> TRUE]
    [] name \in {"stdout", "stderr"} -> [file |-> file, fp |-> name, toSyslog |-> FALSE]
    [] OTHER -> [file |-> name, fp |-> IF opened THEN "file" ELSE "NULL", toSyslog |-> FALSE]

Redirect(name, opened) ==
  /\ file' = Redirected(name, opened).file
  /\ fp' = Redirected(name, opened).fp
  /\ toSyslog' = Redirected(name, opened).toSyslog

SetFile(name, opened) ==
  /\ ~ crashed
  /\ Redirect(name, opened)
  /\ UNCHANGED <<fsize, level, disk, swap, size, logged, message, crashed>>

\* xlogfile(NULL) closes a log file and changes nothing else.
SetNoFile ==
  /\ ~ crashed
  /\ fp' = AfterClose(fp)
  /\ UNCHANGED <<file, fsize, level, toSyslog, disk, swap, size, logged, message, crashed>>

SetLevel(l) ==
  /\ ~ crashed
  /\ level' = l
  /\ UNCHANGED <<file, fp, fsize, toSyslog, disk, swap, size, logged, message, crashed>>

\* The limit that is compared with 512 is the former one.
SetSize(n) ==
  /\ ~ crashed
  /\ fsize >= LeastSize
  /\ fsize' = n
  /\ UNCHANGED <<file, fp, level, toSyslog, disk, swap, size, logged, message, crashed>>

-----------------------------------------------------------------------------
(* _xsyslog *)

\* Mutant: > for >=.
IsFullLate ==
  /\ fsize # 0
  /\ \/ fp = "file" /\ size[file] > fsize
     \/ fp = "stderr" /\ StderrIsFull

\* xlogswap: fp is at the limit.  (stdout is tested twice, and stderr never.)
IsFullFile ==
  /\ fsize # 0
  /\ \/ fp = "file" /\ size[file] >= fsize
     \/ fp = "stderr" /\ StderrIsFull

Accepted(priority) ==
  ~ crashed /\ priority <= level /\ (toSyslog \/ fp # "NULL") /\ message < MaxMessages

\* A message is added to a file whatever is left to its limit, which was
\* compared with the size before.
WriteTo(before, line) ==
  IF fp' = "file" THEN [before EXCEPT ![file'] = Append(@, line)] ELSE before

WriteMessage(before, sizes, len) ==
  LET line == [no |-> message + 1, len |-> len]
  IN /\ disk' = WriteTo(before, line)
     /\ size' = IF fp' = "file" THEN [sizes EXCEPT ![file'] = @ + len] ELSE sizes
     /\ logged' = WriteTo(logged, line)
     /\ message' = message + 1

\* To syslog, to a stream, or to a file with room.
Log(priority, len) ==
  /\ Accepted(priority) /\ ~ IsFullFile
  /\ UNCHANGED <<file, fp, toSyslog>>
  /\ WriteMessage(disk, size, len)
  /\ UNCHANGED <<fsize, level, swap, crashed>>

\* unlink and rename.
Swapped == [swap EXCEPT ![file] = disk[file]]
EmptyDisk == [disk EXCEPT ![file] = <<>>]
EmptySize == [size EXCEPT ![file] = 0]

\* The file is swapped for a new one first.  Standard error that is full
\* counts for the file: its log goes there from now on.
LogSwapping(priority, len) ==
  /\ Accepted(priority) /\ IsFullFile
  /\ swap' = Swapped
  /\ Redirect(file, TRUE)
  /\ WriteMessage(EmptyDisk, EmptySize, len)
  /\ UNCHANGED <<fsize, level, crashed>>

\* The new one cannot be opened: fp is NULL when it is written to.
LogCrashing(priority) ==
  /\ Accepted(priority) /\ IsFullFile
  /\ file # "syslog"
  /\ swap' = Swapped /\ disk' = EmptyDisk /\ size' = EmptySize
  /\ Redirect(file, FALSE)
  /\ crashed' = TRUE
  /\ UNCHANGED <<fsize, level, logged, message>>

LogNext ==
  \/ \E name \in LogFiles \cup {"syslog", "stdout", "stderr"}, opened \in BOOLEAN :
       SetFile(name, opened)
  \/ SetNoFile
  \/ \E l \in Levels :
       \/ SetLevel(l) \/ LogCrashing(l)
       \/ \E len \in LineLengths : Log(l, len) \/ LogSwapping(l, len)
  \/ \E n \in LogSizes : SetSize(n)

LogSpec == LogInit /\ [][LogNext]_logVars

-----------------------------------------------------------------------------
(* Properties *)

\* A log and its swap file have the latest messages without a gap: wherever
\* messages were directed in between, and whatever the limits were.
KeepsTheLatest ==
  \A f \in LogFiles : IsSuffix(swap[f] \o disk[f], logged[f])

\* A log with a limit passes it by less than one message, however long: what
\* it had before its last one was below the limit that held when that came.
PassesLimitOnce ==
  [][\A f \in LogFiles :
       disk'[f] \notin {disk[f], <<>>} /\ fsize # 0
         => size'[f] - Last(disk'[f]).len < fsize]_logVars

\* The log keeps the latest messages, and no more than its limit and the one
\* that passes it (xdebug.c:41-44, 321-355, 493-498).
LogIsKept == []KeepsTheLatest /\ PassesLimitOnce

=============================================================================
