------------------------------ MODULE Logging -------------------------------
(***************************************************************************)
(* A program that logs: Logger's lines go to g_output, which hands them to *)
(* an AsyncLogging, whose backend writes them with a LogFile of its own,   *)
(* or straight to a LogFile that the threads share.                        *)
(***************************************************************************)
EXTENDS AsyncLogging, LogStream, LogFile

CONSTANTS Statements,   \* the statements a program may log: [errno, items]
          MaxTime,      \* bound: seconds
          MaxSteps      \* bound: how often the clock is set back

ASSUME TimeAssumption == MaxTime \in Nat \ {0} /\ MaxSteps \in Nat

ASSUME SmallBufferAssumption == kSmallBuffer \in Nat \ {0} /\ kMaxNumericSize \in Nat

\* A statement inserts texts, and numbers that are not too long.
ASSUME StatementsAssumption ==
  \A st \in Statements :
    /\ st.items \in Seq(Range(st.items))
    /\ \A item \in Range(Pieces(st)) : IsItem(item)

VARIABLES sink,         \* g_output: "AsyncLogging" or "LogFile"
          line,         \* the length of the lines the program logs
          file,         \* the LogFile
          now,          \* time(NULL)
          setBack,      \* history: how often the clock was set back
          late          \* history: appends since flushing was due

allVars == <<vars, sink, line, file, now, setBack, late>>

NoFiles == [t \in 0 .. MaxTime |-> <<>>]

LoggingInit ==
  /\ Init
  /\ sink \in {"AsyncLogging", "LogFile"}
  /\ line \in {Len(LoggerLine(st)) : st \in Statements}
  /\ \/ \A st \in Statements : line <= Len(LoggerLine(st))
     \/ \A st \in Statements : line >= Len(LoggerLine(st))
  /\ now = 1
  /\ file = IF sink = "LogFile" THEN NewLogFile(NoFiles, now) ELSE NoLogFile(NoFiles)
  /\ setBack = 0
  /\ late = 0

\* The bytes of some lines.
Size(lines) == Len(lines) * line

\* How many appends have been made since flushing was due (at the time of t).
LateAfter(f) ==
  IF f.unflushed = <<>> THEN 0 ELSE IF now - file.lastFlush > flushInterval THEN late + 1 ELSE late

-----------------------------------------------------------------------------
(* g_output is AsyncLogging::append().                                     *)

Async(step) ==
  /\ sink = "AsyncLogging"
  /\ step
  /\ UNCHANGED <<sink, line, now, setBack>>

\* All steps of AsyncLogging's that do not touch the file.
AsyncStep ==
  /\ Async(append \/ OwnerStep \/ Wait \/ Collect)
  /\ UNCHANGED <<file, late>>

\* The backend's LogFile is a local of threadFunc().
BackendOpens ==
  /\ Async(BeginThread)
  /\ file' = NewLogFile(file.disk, now)
  /\ late' = 0

\* The last flush, and the LogFile is destroyed.
BackendChecks ==
  /\ Async(CheckRunning)
  /\ file' = IF running THEN file ELSE Flush(file)
  /\ late' = 0

\* The loop over the buffers: the LogFile that was f after each of them.
output(f, bs) ==
  LET after[i \in 0 .. Len(bs)] ==
        IF i = 0 THEN f ELSE append_unlocked(after[i - 1], bs[i], Size(bs[i]), now)
  IN after[Len(bs)]

\* The message that some buffers were dropped, the length of which does not matter.
notice(f) == IF kept(toWrite) = toWrite THEN f ELSE append_unlocked(f, <<>>, 1, now)

\* The buffers, behind a message if some were dropped, and a flush.
BackendWrites ==
  /\ Async(Write)
  /\ file' = Flush(output(notice(file), kept(toWrite)))
  /\ late' = 0

-----------------------------------------------------------------------------
(* g_output is LogFile::append() of a LogFile with a mutex.                *)

FileAppend ==
  /\ sink = "LogFile"
  /\ appended < MaxLines
  /\ appended' = appended + 1
  /\ written' = Append(written, appended')
  /\ file' = append_unlocked(file, <<appended'>>, Size(<<appended'>>), now)
  /\ late' = LateAfter(file')
  /\ UNCHANGED <<running, latch, current, next, buffers, backVars, user, starts, failed,
                 dropped, sink, line, now, setBack>>

\* LogFile::flush(), from any thread.
FileFlush ==
  /\ sink = "LogFile"
  /\ file' = Flush(file)
  /\ late' = 0
  /\ UNCHANGED <<vars, sink, line, now, setBack>>

-----------------------------------------------------------------------------
\* The clock goes on, or is set back.
Tick ==
  /\ \/ now < MaxTime /\ now' = now + 1 /\ UNCHANGED setBack
     \/ now > 1 /\ setBack < MaxSteps /\ now' = now - 1 /\ setBack' = setBack + 1
  /\ UNCHANGED <<vars, sink, line, file, late>>

LoggingNext ==
  /\ failed = None
  /\ AsyncStep \/ BackendOpens \/ BackendChecks \/ BackendWrites \/ FileAppend \/ FileFlush \/ Tick

\* The backend is scheduled and its wait_for() times out; start() and stop()
\* return when what they wait for has happened.
LoggingSpec ==
  /\ LoggingInit /\ [][LoggingNext]_allVars
  /\ WF_allVars(failed = None /\ Async(Wait \/ Collect) /\ UNCHANGED <<file, late>>)
  /\ WF_allVars(failed = None /\ (BackendOpens \/ BackendChecks \/ BackendWrites))
  /\ WF_allVars(failed = None /\ Async(StartReturns \/ StopReturns) /\ UNCHANGED <<file, late>>)

-----------------------------------------------------------------------------
(* Properties.                                                             *)

\* Every statement becomes a line that is whole (a fact about LogStream alone,
\* which is evaluated before anything is logged).
LinesAreWhole == appended = 0 /\ starts = 0 /\ now = 1 => \A st \in Statements : WholeLine(st)

\* Nothing is lost or doubled on the way to the files, whenever they are
\* rolled, and between two rounds of the backend nothing is left unflushed. If
\* the clock was never set back the files, taken by name, hold the lines in
\* order.
FilesAreTheLog ==
  LET all == FlattenSeq([t \in 1 .. MaxTime |-> file.disk[t]]) \o file.unflushed
  IN /\ Len(all) = Len(written) /\ Range(all) = Range(written)
     /\ setBack = 0 => all = written
     /\ sink = "AsyncLogging" => file.unflushed = <<>>

\* The lines of the next append to the file: one line, the first buffer, or none
\* if that is the message that some were dropped.
NextAppend ==
  IF sink = "LogFile" THEN <<appended + 1>> ELSE IF kept(toWrite) = toWrite THEN toWrite[1] ELSE <<>>

\* The first append in a later second to a file that has outgrown rollSize (which
\* its own second did not let rollFile() close) still goes to that file, since
\* append_unlocked() appends before it rolls; but it is the last: it closes the
\* file, and what is written in the same step goes to the file of now.  A LogFile
\* goes to files with later names only; and what is due to be flushed waits for
\* less than checkEveryN more appends if the clock was never set back.
FilesAreRolled ==
  [][/\ file.written > rollSize /\ now > file.lastRoll /\ written' # written =>
          /\ file'.lastRoll = now
          /\ file'.disk[file.lastRoll] = file.disk[file.lastRoll] \o file.unflushed \o NextAppend
     /\ file'.lastRoll >= file.lastRoll \/ pc = "created"
     /\ setBack = 0 => late' < checkEveryN]_allVars
=============================================================================
