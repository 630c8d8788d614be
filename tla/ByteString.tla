----------------------------- MODULE ByteString -----------------------------
(***************************************************************************)
(* What a cBuffer promises its callers (buffer.h): a string of bytes that  *)
(* can be cleared, replaced, extended, cut and edited, whatever memory it  *)
(* is kept in.                                                             *)
(***************************************************************************)
EXTENDS Integers, Sequences

CONSTANTS
    Data,       \* the byte strings callers write
    Patterns    \* the byte strings callers look for

VARIABLE content

\* d stands in s from position i on (positions count from 0, as in the code).
OccursAt(s, d, i) == i + Len(d) <= Len(s) /\ SubSeq(s, i + 1, i + Len(d)) = d

Occurrences(s, d) == {i \in 0 .. Len(s) : OccursAt(s, d, i)}

\* The least occurrence, or -1.
First(s, d) ==
    IF Occurrences(s, d) = {} THEN -1
    ELSE CHOOSE i \in Occurrences(s, d) : \A j \in Occurrences(s, d) : i <= j

Init == content = <<>>

Assign(d) == content' = d

AppendData(d) == content' = content \o d

Insert(i, d) ==
    /\ i <= Len(content)
    /\ content' = SubSeq(content, 1, i) \o d \o SubSeq(content, i + 1, Len(content))

Remove(i, n) ==
    /\ i + n <= Len(content)
    /\ content' = SubSeq(content, 1, i) \o SubSeq(content, i + n + 1, Len(content))

Replace(p, w) ==
    \E i \in Occurrences(content, p) :
        content' = SubSeq(content, 1, i) \o w
                    \o SubSeq(content, i + Len(p) + 1, Len(content))

Next ==
    \/ Assign(<<>>)
    \/ \E d \in Data : Assign(d) \/ AppendData(d)
    \/ \E d \in Data, i \in 0 .. Len(content) : Insert(i, d)
    \/ \E i, n \in 0 .. Len(content) : Remove(i, n)
    \/ \E p \in Patterns, w \in Data : Replace(p, w)

Spec == Init /\ [][Next]_content
=============================================================================
