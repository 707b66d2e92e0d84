----------------------------- MODULE ByteQueue ------------------------------
(***************************************************************************)
(* What Buffer promises: a queue of bytes with room in front.  Bytes are   *)
(* appended behind, retrieved (or prepended) in front, and nothing else    *)
(* changes what is readable.                                               *)
(***************************************************************************)
EXTENDS Naturals, Sequences

CONSTANT Data       \* the byte strings users append and prepend
VARIABLE content    \* what is readable

AppendData(d) == content' = content \o d

PrependData(d) == content' = d \o content

\* Retrieving more than there is empties the queue.
Retrieve(n) ==
  content' = IF n < Len(content) THEN SubSeq(content, n + 1, Len(content)) ELSE <<>>

Init == content = <<>>

Next ==
  \/ \E d \in Data : AppendData(d) \/ PrependData(d)
  \/ \E n \in 0 .. Len(content) : Retrieve(n)

Spec == Init /\ [][Next]_content
=============================================================================
