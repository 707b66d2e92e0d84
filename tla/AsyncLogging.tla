---------------------------- MODULE AsyncLogging ----------------------------
(***************************************************************************)
(* base/AsyncLogging: threads append log lines to a current buffer, a      *)
(* backend thread collects the buffers and writes them to the log file.    *)
(* append() and the backend's critical section exclude each other by       *)
(* mutex_, so that each is one step; between the two the backend works on  *)
(* buffers of its own.                                                     *)
(***************************************************************************)
EXTENDS Integers, Sequences, SequencesExt

CONSTANTS MaxLines,       \* bound: lines ever appended, numbered in order
          LinesPerBuffer, \* lines that fit into a buffer (kLargeBuffer bytes)
          MaxBuffers,     \* 25 in the code: more are cut down to two
          MaxStarts       \* bound: calls of start()

ASSUME LinesAssumption == MaxLines \in Nat /\ LinesPerBuffer \in Nat \ {0}
ASSUME BuffersAssumption == MaxBuffers \in Nat /\ MaxBuffers >= 2
ASSUME StartsAssumption == MaxStarts \in Nat

VARIABLES running,    \* running_
          latch,      \* latch_'s count
          current,    \* *currentBuffer_, as the lines in it
          next,       \* is there a nextBuffer_?  (it is empty)
          buffers,    \* buffers_: the full buffers
          pc,         \* the backend thread
          newBuffer1, newBuffer2,  \* does the backend hold its spare buffers?
          toWrite,    \* buffersToWrite
          user,       \* the owner: "off", "starting", "on" or "stopping"
          starts,     \* calls of start() so far
          appended,   \* history: how many lines were appended
          written,    \* history: the lines in the log file
          dropped,    \* history: lines thrown away
          failed      \* the assertion that aborted the program, or "none"

frontVars == <<current, next, buffers, appended>>
backVars == <<pc, newBuffer1, newBuffer2, toWrite>>
fileVars == <<written, dropped>>
vars == <<running, latch, frontVars, backVars, user, starts, fileVars, failed>>

None == "none"

Init ==
  /\ running = FALSE
  /\ latch = 1
  /\ current = <<>>
  /\ next = TRUE
  /\ buffers = <<>>
  /\ pc = "none"
  /\ newBuffer1 = FALSE /\ newBuffer2 = FALSE
  /\ toWrite = <<>>
  /\ user = "off"
  /\ starts = 0
  /\ appended = 0
  /\ written = <<>>
  /\ dropped = {}
  /\ failed = None

-----------------------------------------------------------------------------
(* append(), from any thread at any time.                                  *)

\* Fault: the line that does not fit is not appended to the fresh buffer.
appendLosesLine ==
  /\ appended < MaxLines
  /\ appended' = appended + 1
  /\ IF Len(current) < LinesPerBuffer
     THEN /\ current' = Append(current, appended')
          /\ UNCHANGED <<next, buffers>>
     ELSE /\ buffers' = Append(buffers, current)
          /\ current' = <<>>
          /\ next' = FALSE
  /\ UNCHANGED <<running, latch, backVars, user, starts, fileVars, failed>>

\* append().  (Notifying the backend changes nothing that lasts: its wait
\* also ends by itself.)
append ==
  /\ appended < MaxLines
  /\ appended' = appended + 1
  /\ IF Len(current) < LinesPerBuffer
     THEN /\ current' = Append(current, appended')
          /\ UNCHANGED <<next, buffers>>
     ELSE /\ buffers' = Append(buffers, current)
          /\ current' = <<appended'>>
          /\ next' = FALSE
  /\ UNCHANGED <<running, latch, backVars, user, starts, fileVars, failed>>

-----------------------------------------------------------------------------
(* start() and stop(), called by the owner.                                *)

\* start() up to latch_.wait().
Start ==
  /\ user = "off"
  /\ starts < MaxStarts
  /\ starts' = starts + 1
  /\ running' = TRUE
  /\ user' = "starting"
  /\ pc' = "created"
  /\ UNCHANGED <<latch, frontVars, newBuffer1, newBuffer2, toWrite, fileVars, failed>>

\* latch_.wait() returns.
StartReturns ==
  /\ user = "starting"
  /\ latch <= 0
  /\ user' = "on"
  /\ UNCHANGED <<running, latch, frontVars, backVars, starts, fileVars, failed>>

\* stop() up to join().
Stop ==
  /\ user = "on"
  /\ running' = FALSE
  /\ user' = "stopping"
  /\ UNCHANGED <<latch, frontVars, backVars, starts, fileVars, failed>>

\* join() returns.
StopReturns ==
  /\ user = "stopping"
  /\ pc = "done"
  /\ pc' = "none"
  /\ user' = "off"
  /\ UNCHANGED <<running, latch, frontVars, newBuffer1, newBuffer2, toWrite, starts,
                 fileVars, failed>>

-----------------------------------------------------------------------------
(* threadFunc(), the backend thread.                                       *)

\* CountDownLatch::countDown(), which may go below zero.
countDown == latch - 1

\* Its assertion, latch_.countDown() and the two spare buffers.
BeginThread ==
  /\ pc = "created"
  /\ failed' = IF running THEN None ELSE "running_ == true"
  /\ latch' = countDown
  /\ newBuffer1' = TRUE /\ newBuffer2' = TRUE
  /\ pc' = "check"
  /\ UNCHANGED <<running, frontVars, toWrite, user, starts, fileVars>>

\* while (running_).
CheckRunning ==
  /\ pc = "check"
  /\ pc' = IF running THEN "lock" ELSE "done"
  /\ UNCHANGED <<running, latch, frontVars, newBuffer1, newBuffer2, toWrite, user, starts,
                 fileVars, failed>>

\* Nothing is full: cond_.wait_for(), once.
Wait ==
  /\ pc = "lock"
  /\ buffers = <<>>
  /\ pc' = "waiting"
  /\ UNCHANGED <<running, latch, frontVars, newBuffer1, newBuffer2, toWrite, user, starts,
                 fileVars, failed>>

\* Fault: the backend waits until a buffer is full.
CollectWhenFull ==
  /\ pc \in {"waiting", "lock"} /\ buffers # <<>>
  /\ pc' = "write"
  /\ toWrite' = Append(buffers, current)
  /\ buffers' = <<>>
  /\ current' = <<>>
  /\ newBuffer1' = FALSE
  /\ newBuffer2' = next
  /\ next' = TRUE
  /\ UNCHANGED <<running, latch, appended, user, starts, fileVars, failed>>

\* Fault: nextBuffer_ is not replaced.
CollectNoRefill ==
  /\ pc = "waiting" \/ (pc = "lock" /\ buffers # <<>>)
  /\ pc' = "write"
  /\ toWrite' = Append(buffers, current)
  /\ buffers' = <<>>
  /\ current' = <<>>
  /\ newBuffer1' = FALSE
  /\ newBuffer2' = next
  /\ UNCHANGED <<next, running, latch, appended, user, starts, fileVars, failed>>

\* The rest of the critical section: by timeout, notification or spurious
\* wakeup the wait may end at any time.
Collect ==
  /\ pc = "waiting" \/ (pc = "lock" /\ buffers # <<>>)
  /\ pc' = "write"
  /\ toWrite' = Append(buffers, current)
  /\ buffers' = <<>>
  /\ current' = <<>>
  /\ newBuffer1' = FALSE
  /\ newBuffer2' = next
  /\ next' = TRUE
  /\ UNCHANGED <<running, latch, appended, user, starts, fileVars, failed>>

\* Too many buffers: all but the first two are thrown away.
kept(bs) == IF Len(bs) > MaxBuffers THEN SubSeq(bs, 1, 2) ELSE bs

\* The buffers are written, and spare ones taken from the first two.
Write ==
  LET ws    == kept(toWrite)
      spare == IF Len(ws) > 2 THEN 2 ELSE Len(ws)
      need  == (IF newBuffer1 THEN 0 ELSE 1) + (IF newBuffer2 THEN 0 ELSE 1)
  IN /\ pc = "write"
     /\ written' = written \o FlattenSeq(ws)
     /\ dropped' = dropped \union (Range(FlattenSeq(toWrite)) \ Range(FlattenSeq(ws)))
     /\ failed' = IF spare < need THEN "!buffersToWrite.empty()" ELSE None
     /\ newBuffer1' = TRUE /\ newBuffer2' = TRUE
     /\ toWrite' = <<>>
     /\ pc' = "check"
     /\ UNCHANGED <<running, latch, frontVars, user, starts>>

-----------------------------------------------------------------------------
BackendStep == BeginThread \/ CheckRunning \/ Wait \/ Collect \/ Write

OwnerStep == Start \/ StartReturns \/ Stop \/ StopReturns

\* An assertion that fails ends the program.
Next == failed = None /\ (append \/ OwnerStep \/ BackendStep)

Spec == Init /\ [][Next]_vars

-----------------------------------------------------------------------------
(* Properties.                                                             *)

TypeOK ==
  /\ running \in BOOLEAN
  /\ latch \in (1 - MaxStarts) .. 1
  /\ current \in Seq(1 .. appended)
  /\ next \in BOOLEAN
  /\ buffers \in Seq(Seq(1 .. appended))
  /\ pc \in {"none", "created", "check", "lock", "waiting", "write", "done"}
  /\ newBuffer1 \in BOOLEAN /\ newBuffer2 \in BOOLEAN
  /\ toWrite \in Seq(Seq(1 .. appended))
  /\ user \in {"off", "starting", "on", "stopping"}
  /\ starts \in 0 .. MaxStarts
  /\ appended \in 0 .. MaxLines
  /\ written \in Seq(1 .. appended)
  /\ dropped \subseteq 1 .. appended
  /\ failed \in {None, "running_ == true", "!buffersToWrite.empty()"}

\* A missing nextBuffer_ was handed to append(), which then left a full buffer
\* in buffers_: this is why the backend always finds two buffers to keep when
\* it has given two away.
BuffersInv ==
  /\ ~next => buffers # <<>>
  /\ pc = "write" => Len(toWrite) >= (IF newBuffer2 THEN 1 ELSE 2)
  /\ pc \in {"check", "lock", "waiting"} => newBuffer1 /\ newBuffer2
  /\ pc # "write" => toWrite = <<>>
  /\ user = "off" => pc = "none"

\* The assertions of AsyncLogging.cc:45-47, 84 and 91 hold: the backend always
\* has its spare buffers and never allocates another.
SpareBuffersSuffice ==
  /\ failed # "!buffersToWrite.empty()"
  /\ pc = "lock" => newBuffer1 /\ newBuffer2 /\ toWrite = <<>>

\* The log: the lines in the file, and behind them those on their way to it.
log == written \o FlattenSeq(toWrite) \o FlattenSeq(buffers) \o current

\* Lines reach the file in the order of their append(), none is lost or
\* doubled on the way through the buffers, except those dropped on purpose.
LogIsInOrder ==
  /\ \A i, j \in DOMAIN log : i < j => log[i] < log[j]
  /\ Range(log) = (1 .. appended) \ dropped

\* Every line is written or dropped on purpose, unless the log is stopped or
\* was not started.
LinesAreWritten ==
  \A i \in 1 .. MaxLines :
    (i <= appended /\ user = "on") ~> (i \in Range(written) \union dropped \/ user # "on")
=============================================================================
