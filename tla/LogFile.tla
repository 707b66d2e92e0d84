------------------------------ MODULE LogFile -------------------------------
(***************************************************************************)
(* base/LogFile and FileUtil::AppendFile: a log in files that are rolled   *)
(* by size and by period.  A LogFile is a record; its operations, which    *)
(* LogFile does under its mutex or leaves to one thread, are functions.    *)
(* A file is known by the second it was opened in, which is in its name;   *)
(* it is opened for appending.  disk is what all files hold for sure,      *)
(* unflushed what is still in the buffer of the open one.  fwrite() is     *)
(* taken to succeed, and the clock to be read once in a call.              *)
(***************************************************************************)
EXTENDS Integers, Sequences

CONSTANTS rollSize,         \* bytes after which a file is rolled
          flushInterval,    \* seconds
          checkEveryN,      \* appends between two looks at the clock
          kRollPerSeconds   \* a day in the code

ASSUME LogFileAssumption ==
  /\ rollSize \in Nat
  /\ flushInterval \in Nat
  /\ checkEveryN \in Nat \ {0}
  /\ kRollPerSeconds \in Nat \ {0}

\* The start of the period that a second falls into.
Period(now) == (now \div kRollPerSeconds) * kRollPerSeconds

\* AppendFile::flush().
Flush(f) == [f EXCEPT !.disk[f.lastRoll] = @ \o f.unflushed, !.unflushed = <<>>]

\* Fault: what is in the buffer of the old file is lost.
rollFileUnflushed(f, now) ==
  IF now > f.lastRoll
  THEN [f EXCEPT !.lastRoll = now, !.lastFlush = now, !.unflushed = <<>>,
                 !.startOfPeriod = Period(now), !.written = 0]
  ELSE f

\* rollFile(), at most once in a second.  Closing the old file flushes it.
rollFile(f, now) ==
  IF now > f.lastRoll
  THEN [Flush(f) EXCEPT !.lastRoll = now, !.lastFlush = now,
                        !.startOfPeriod = Period(now), !.written = 0]
  ELSE f

\* No file is open, those on the disk are disk.
NoLogFile(disk) ==
  [count |-> 0, startOfPeriod |-> 0, lastRoll |-> 0, lastFlush |-> 0,
   written |-> 0, unflushed |-> <<>>, disk |-> disk]

\* LogFile::LogFile().
NewLogFile(disk, now) == rollFile(NoLogFile(disk), now)

\* AppendFile::append() of len bytes that make up some lines.
AppendFile_append(f, lines, len) ==
  [f EXCEPT !.unflushed = @ \o lines, !.written = @ + len]

\* ++count_, back to 0 at checkEveryN_.
countUp(f) == [f EXCEPT !.count = (@ + 1) % checkEveryN]

\* Fault: the size is looked at with the clock only.
append_unlockedSeldom(f, lines, len, now) ==
  LET c == countUp(AppendFile_append(f, lines, len))
  IN IF c.count # 0                                                THEN c
     ELSE IF c.written > rollSize \/ Period(now) # c.startOfPeriod  THEN rollFile(c, now)
     ELSE IF now - c.lastFlush > flushInterval THEN Flush([c EXCEPT !.lastFlush = now])
     ELSE c

\* append_unlocked().
append_unlocked(f, lines, len, now) ==
  LET a == AppendFile_append(f, lines, len)
      c == countUp(a)
  IN IF a.written > rollSize                   THEN rollFile(a, now)
     ELSE IF c.count # 0                       THEN c
     ELSE IF Period(now) # c.startOfPeriod     THEN rollFile(c, now)
     ELSE IF now - c.lastFlush > flushInterval THEN Flush([c EXCEPT !.lastFlush = now])
     ELSE c
=============================================================================
