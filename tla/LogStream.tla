----------------------------- MODULE LogStream ------------------------------
(***************************************************************************)
(* base/LogStream and base/Logging: how a log statement becomes a line.    *)
(* A Logger lives on the stack of the thread that logs, so that a          *)
(* statement is a function of what is inserted.  A line is a sequence of   *)
(* characters in a FixedBuffer of kSmallBuffer bytes; what does not fit is *)
(* left out, what comes later may fit again.                               *)
(***************************************************************************)
EXTENDS Integers, Sequences, SequencesExt

CONSTANTS kSmallBuffer,      \* 4000 in the code
          kMaxNumericSize    \* 32 in the code: more than the longest number takes

\* FixedBuffer::avail().
avail(buf) == kSmallBuffer - Len(buf)

\* Fault: a text that fills the buffer to the last byte is appended.
appendTextFull(buf, chars) == IF avail(buf) >= Len(chars) THEN buf \o chars ELSE buf

\* FixedBuffer::append(): one byte is always left.
appendText(buf, chars) == IF avail(buf) > Len(chars) THEN buf \o chars ELSE buf

\* detail::convert(): the digits from the last to the first, then the sign,
\* reversed.  % and / truncate as in C, so that a negative value has negative
\* remainders, which the table of digits is indexed by.
digits == <<"9", "8", "7", "6", "5", "4", "3", "2", "1", "0",
            "1", "2", "3", "4", "5", "6", "7", "8", "9">>

Truncated(i, n) == IF i < 0 THEN -((-i) \div n) ELSE i \div n

convert(value) ==
  LET Backwards[i \in Int] ==
        LET last == <<digits[i - 10 * Truncated(i, 10) + 10]>>
        IN IF Truncated(i, 10) = 0 THEN last ELSE last \o Backwards[Truncated(i, 10)]
  IN Reverse(Backwards[value] \o IF value < 0 THEN <<"-">> ELSE <<>>)

\* detail::convertHex().
digitsHex == <<"0", "1", "2", "3", "4", "5", "6", "7", "8", "9", "A", "B", "C", "D", "E", "F">>

convertHex(value) ==
  LET Backwards[i \in Nat] ==
        LET last == <<digitsHex[(i % 16) + 1]>>
        IN IF i \div 16 = 0 THEN last ELSE last \o Backwards[i \div 16]
  IN Reverse(Backwards[value])

\* formatInteger(), and the same for a pointer: there has to be room for the
\* longest number.
formatInteger(buf, chars) == IF avail(buf) >= kMaxNumericSize THEN buf \o chars ELSE buf

Text(chars) == [is |-> "text", chars |-> chars]
Number(value) == [is |-> "number", value |-> value]
Pointer(value) == [is |-> "pointer", value |-> value]

\* What an item is when it is inserted whole.
Chars(item) ==
  CASE item.is = "text"    -> item.chars
    [] item.is = "number"  -> convert(item.value)
    [] item.is = "pointer" -> <<"0", "x">> \o convertHex(item.value)

\* What can be inserted; staticCheck(): a number takes less than kMaxNumericSize.
IsItem(item) ==
  \/ item.is = "text" /\ item.chars \in Seq(Range(item.chars))
  \/ item.is = "number" /\ item.value \in Int /\ Len(Chars(item)) < kMaxNumericSize
  \/ item.is = "pointer" /\ item.value \in Nat /\ Len(Chars(item)) < kMaxNumericSize

\* operator<<.
Insert(buf, item) ==
  IF item.is = "text" THEN appendText(buf, Chars(item)) ELSE formatInteger(buf, Chars(item))

\* Logger::Impl::Impl(): the time, the thread's id and the level; and what
\* LOG_SYSERR adds of errno.
Impl(savedErrno) ==
  <<Text(<<"time">>), Text(<<"us">>), Text(<<"tid">>), Text(<<"level">>)>>
  \o IF savedErrno = 0 THEN <<>>
     ELSE <<Text(<<"strerror">>), Text(<<"(errno=">>), Number(savedErrno), Text(<<")">>)>>

\* finish(): the file, the line, and the end of the line.
finish == <<Text(<<"-">>), Text(<<"file">>), Text(<<":">>), Number(42), Text(<<"newline">>)>>

\* All that a statement inserts: [errno, items].
Pieces(st) == Impl(st.errno) \o st.items \o finish

\* The line when the first pieces have been inserted.
Inserted(pieces) ==
  LET after[i \in 0 .. Len(pieces)] ==
        IF i = 0 THEN <<>> ELSE Insert(after[i - 1], pieces[i])
  IN after[Len(pieces)]

\* What ~Logger() hands to g_output, at a level below FATAL.
LoggerLine(st) == Inserted(Pieces(st))

-----------------------------------------------------------------------------
\* What a digit stands for, and digits read from the left: table has the digits
\* of a base.
Digit(char, base, table) == CHOOSE d \in 0 .. base - 1 : table[d] = char

Read(chars, base, table) ==
  LET n[i \in 0 .. Len(chars)] ==
        IF i = 0 THEN 0 ELSE base * n[i - 1] + Digit(chars[i], base, table)
  IN n[Len(chars)]

\* The same with a sign.
Value(chars) ==
  LET table == [d \in 0 .. 9 |-> digits[d + 10]]
  IN IF chars[1] = "-" THEN -Read(Tail(chars), 10, table) ELSE Read(chars, 10, table)

HexValue(chars) == Read(chars, 16, [d \in 0 .. 15 |-> digitsHex[d + 1]])

\* A line stays within its buffer, every item is in it whole, in its place, or
\* not at all; a number is what was inserted; and the line is ended unless
\* there was no room for a single character more.
WholeLine(st) ==
  LET line == LoggerLine(st)
      ps   == Pieces(st)
  IN /\ Len(line) < kSmallBuffer
     /\ \A i \in DOMAIN ps :
          LET before == Inserted(SubSeq(ps, 1, i - 1))
          IN Inserted(SubSeq(ps, 1, i)) \in {before, before \o Chars(ps[i])}
     /\ \A i \in DOMAIN ps :
          /\ ps[i].is = "number" => Value(convert(ps[i].value)) = ps[i].value
          /\ ps[i].is = "pointer" => HexValue(convertHex(ps[i].value)) = ps[i].value
     /\ Len(line) < kSmallBuffer - 1 => Last(line) = "newline"
=============================================================================
