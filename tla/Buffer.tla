------------------------------- MODULE Buffer -------------------------------
(***************************************************************************)
(* cBuffer (buffer.cpp): a block of memory m_pBuffer of m_iBufferSize      *)
(* bytes of which the first m_iTail are the content.  Every byte of the    *)
(* block is kept, those behind the content too: what they were before, or  *)
(* what malloc left there, is what the searches may run into.              *)
(***************************************************************************)
EXTENDS Integers, Sequences

CONSTANTS
    Byte,          \* the values of a byte
    Nul,           \* the byte 0
    Beyond,        \* what happens to lie behind the block
    Data,          \* the byte strings callers write
    Patterns,      \* the byte strings callers look for
    MinAlloc,      \* m_minAlloc
    MidAlloc,      \* m_midAlloc
    LongSize,      \* sizeof(long)
    MaxDatagram,   \* MAX_DGRAM_SIZE (udpserver.cpp)
    MaxCount       \* bound: how long the content may get

ASSUME BufferAssumption ==
    /\ Nul \in Byte /\ Beyond \in Byte
    /\ Data \subseteq Seq(Byte) /\ Patterns \subseteq Seq(Byte \ {Nul})
    /\ MinAlloc \in Nat /\ MidAlloc \in Nat /\ LongSize \in Nat \ {0}
    /\ MaxDatagram \in Nat /\ MaxCount \in Nat

VARIABLE buffer

Buffer(p, size, tail) == [m_pBuffer |-> p, m_iBufferSize |-> size, m_iTail |-> tail]

NoBuffer == Buffer(<<>>, 0, 0)

BufferInit == buffer = NoBuffer

Room(b) == 0 .. b.m_iBufferSize - 1

\* A buffer without memory has size 0: m_pBuffer is a null pointer.
Exists(b) == b.m_iBufferSize # 0

-----------------------------------------------------------------------------
(* Memory. *)

AdjustSize(iSize) ==
    LET s == iSize + LongSize
    IN CASE s <= MinAlloc                 -> MinAlloc
         [] s > MinAlloc /\ s < MidAlloc  -> (3 * s) \div 2
         [] s > MinAlloc /\ s >= MidAlloc -> s

\* The old block in front, and behind it what malloc left.
Grown(b, n, junk) == [i \in 0 .. n - 1 |-> IF i \in Room(b) THEN b.m_pBuffer[i] ELSE junk[i]]

\* The buffers that a new block of n bytes can make of b.
Reallocated(b, n) ==
    {Buffer(Grown(b, n, junk), n, b.m_iTail) : junk \in [b.m_iBufferSize .. n - 1 -> Byte]}

SetBufferSize(b, iSize) ==
    IF Exists(b) /\ iSize < b.m_iBufferSize THEN {b} ELSE Reallocated(b, AdjustSize(iSize))

\* The block holds other bytes.
Holding(b, p) == Buffer(p, b.m_iBufferSize, b.m_iTail)

\* memcpy of d to m_pBuffer[at].
Copied(b, at, d) == Holding(b,
    [i \in Room(b) |-> IF i \in at .. at + Len(d) - 1 THEN d[i - at + 1] ELSE b.m_pBuffer[i]])

\* The end of the content becomes t, without a terminator ...
Ending(b, t) == Buffer(b.m_pBuffer, b.m_iBufferSize, t)

\* ... which MakeString, cstr and GetBuffer write.
MakeString(b) ==
    IF Exists(b)
    THEN Holding(b, [i \in Room(b) |-> IF i = b.m_iTail THEN Nul ELSE b.m_pBuffer[i]])
    ELSE b

Emptied(b) == Ending(b, 0)

-----------------------------------------------------------------------------
(* Searching. *)

At(b, i) == IF i \in Room(b) THEN b.m_pBuffer[i] ELSE Beyond

Stands(b, p, i) == \A j \in 1 .. Len(p) : At(b, i + j - 1) = p[j]

LeastOf(S) == IF S = {} THEN -1 ELSE CHOOSE i \in S : \A j \in S : i <= j

\* strlen of the block.
StrLen(b) == LeastOf({i \in Room(b) : b.m_pBuffer[i] = Nul})

Find_Unterminated(b, p) == LeastOf({i \in 0 .. StrLen(b) - Len(p) : Stands(b, p, i)})

\* Find(p, 0): strstr, which ends at the first zero.
Find(b, p) ==
    LET s == MakeString(b)
    IN IF b.m_iTail = 0 THEN -1
       ELSE LeastOf({i \in 0 .. StrLen(s) - Len(p) : Stands(s, p, i)})

-----------------------------------------------------------------------------
(* Editing. *)

Full_Exactly(b, d) == Len(d) > b.m_iBufferSize - b.m_iTail

\* No room for d and the terminator.
Full(b, d) == Len(d) >= b.m_iBufferSize - b.m_iTail

Appended(b, d) ==
    IF d = <<>> THEN {b}
    ELSE {MakeString(Ending(Copied(m, b.m_iTail, d), b.m_iTail + Len(d))) :
            m \in IF Full(b, d) THEN SetBufferSize(b, b.m_iTail + Len(d)) ELSE {b}}

ReplacedWith(b, d) == Appended(Emptied(b), d)

Shifted_Early(b, i, n) ==
    Holding(b, [j \in Room(b) |->
        IF j \in i + n .. b.m_iTail + n - 1 THEN b.m_pBuffer[j - n + 1] ELSE b.m_pBuffer[j]])

\* memmove of the content from i on by n bytes.
Shifted(b, i, n) ==
    Holding(b, [j \in Room(b) |->
        IF j \in i + n .. b.m_iTail + n - 1 THEN b.m_pBuffer[j - n] ELSE b.m_pBuffer[j]])

\* Insert allocates a block of its own if there is no room, and copies the three parts.
Inserted(b, i, d) ==
    LET n == Len(d) + b.m_iTail + 1
    IN {MakeString(Ending(Copied(Shifted(m, i, Len(d)), i, d), b.m_iTail + Len(d))) :
            m \in IF n > b.m_iBufferSize THEN Reallocated(b, AdjustSize(n)) ELSE {b}}

\* Remove checks its region against the block, and writes no terminator.
Removed(b, i, n) ==
    LET len == IF n > b.m_iBufferSize THEN b.m_iBufferSize ELSE n
    IN IF b.m_iTail = 0 \/ len = 0 \/ len + i > b.m_iBufferSize THEN b
       ELSE Buffer([j \in Room(b) |-> IF j \in i .. b.m_iTail - len - 1
                                      THEN b.m_pBuffer[j + len] ELSE b.m_pBuffer[j]],
                   b.m_iBufferSize, b.m_iTail - len)

-----------------------------------------------------------------------------
(* The operations, as their callers use them. *)

Fits(n) == n <= MaxCount

AppendData(d) == Fits(buffer.m_iTail + Len(d)) /\ buffer' \in Appended(buffer, d)

ReplaceWith(d) == Fits(Len(d)) /\ buffer' \in ReplacedWith(buffer, d)

\* A place for the data is always one in the content, or its end; Prepend's is 0.
Insert(i, d) == Fits(buffer.m_iTail + Len(d)) /\ buffer' \in Inserted(buffer, i, d)

Remove(i, n) == i + n <= buffer.m_iTail /\ buffer' = Removed(buffer, i, n)

\* At the place where Find finds p, if it does.
Replace(p, w) ==
    \E i \in 0 .. buffer.m_iTail - Len(p) :
        /\ Find(buffer, p) = i
        /\ Fits(buffer.m_iTail - Len(p) + Len(w))
        /\ buffer' \in Inserted(Removed(MakeString(buffer), i, Len(p)), i, w)

\* The UDP server has recvfrom write into the raw buffer, and then sets the length.
ReceiveDatagram(d) ==
    \E room \in SetBufferSize(buffer, MaxDatagram) :
        \E b \in SetBufferSize(Copied(room, 0, d), Len(d)) : buffer' = Ending(b, Len(d))

\* Sprintf of a text shorter than the size given; ReleaseBuffer measures it.
Sprintf(n, text) ==
    /\ Len(text) < n
    /\ \E m \in SetBufferSize(buffer, n) :
        LET b == MakeString(Ending(Copied(MakeString(m), 0, text), Len(text)))
        IN buffer' = MakeString(Ending(b, StrLen(b)))

Clear == buffer' = Emptied(buffer)

Flush_KeepsTail == buffer' = Buffer(<<>>, 0, buffer.m_iTail)

Flush == buffer' = NoBuffer

Texts == Data \cap Seq(Byte \ {Nul})

BufferNext ==
    \/ \E d \in Data : AppendData(d) \/ ReplaceWith(d)
    \/ \E d \in Data, i \in 0 .. buffer.m_iTail : Insert(i, d)
    \/ \E i, n \in 0 .. buffer.m_iTail : Remove(i, n)
    \/ \E p \in Patterns, w \in Data : Replace(p, w)
    \/ \E d \in Data : Len(d) \in 1 .. MaxDatagram /\ ReceiveDatagram(d)
    \/ \E text \in Texts : Sprintf(MaxCount, text)
    \/ Clear \/ Flush

BufferSpec == BufferInit /\ [][BufferNext]_buffer

-----------------------------------------------------------------------------
\* The type invariant: the block has the size it is said to have, and holds
\* the content.
BufferTypeOK ==
    /\ buffer.m_iBufferSize \in Nat
    /\ buffer.m_iTail \in 0 .. buffer.m_iBufferSize
    /\ buffer.m_pBuffer \in [Room(buffer) -> Byte]

\* There is always room for the terminator that MakeString, cstr and GetBuffer write
\* behind the content without a test (buffer.cpp:185).
TerminatorFits == Exists(buffer) => buffer.m_iTail < buffer.m_iBufferSize

\* The content, as a sequence, and the string it begins with.
Content == [i \in 1 .. buffer.m_iTail |-> buffer.m_pBuffer[i - 1]]

Text ==
    LET zeros == {i \in 1 .. buffer.m_iTail : Content[i] = Nul}
    IN IF zeros = {} THEN Content ELSE SubSeq(Content, 1, LeastOf(zeros) - 1)

Bytes == INSTANCE ByteString WITH content <- Content

\* The content is the byte string the operations describe: no reallocation, overlapping
\* move or terminator ever changes a byte of it (buffer.cpp:291).
IsByteString == Bytes!Spec

\* Find finds the first place in the text the content begins with, whatever older bytes
\* follow the content in the block (buffer.cpp:424).  An empty buffer is not searched:
\* not even the empty pattern is found in it.
FindExact == \A p \in Patterns : p # <<>> => Find(buffer, p) = Bytes!First(Text, p)
=============================================================================
