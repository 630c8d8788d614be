---------------------------- MODULE BufferProofs ----------------------------
(***************************************************************************)
(* For every block size, every way of allocating that BufferAssumption     *)
(* allows and every string a caller writes: the block has the size it is   *)
(* said to have and room for the terminator, Find finds the first place of *)
(* a pattern in the text, and the content is the byte string ByteString.   *)
(***************************************************************************)
EXTENDS Buffer, SequenceTheorems, NaturalsInduction, WellFoundedInduction, TLAPS

\* A buffer whose block is as large as it is said to be, and holds the content.
Typed(b) ==
    /\ b.m_iBufferSize \in Nat
    /\ b.m_iTail \in 0 .. b.m_iBufferSize
    /\ b.m_pBuffer \in [Room(b) -> Byte]

\* Two buffers of the same size, with the same content's length.
SameShape(b, c) == c.m_iBufferSize = b.m_iBufferSize /\ c.m_iTail = b.m_iTail

\* The inductive invariant: the content also leaves room for the terminator.
Sound(b) == Typed(b) /\ (Exists(b) => b.m_iTail < b.m_iBufferSize)

\* A size is always adjusted upwards (buffer.cpp:688).
LEMMA AdjustGrows ==
    ASSUME NEW n \in Nat
    PROVE  AdjustSize(n) \in Nat /\ AdjustSize(n) > n
  <1> DEFINE s == n + LongSize
  <1>1. s \in Nat /\ s > n
    BY BufferAssumption
  <1>2. CASE s <= MinAlloc
    BY <1>1, <1>2, BufferAssumption DEF AdjustSize
  <1>3. CASE s > MinAlloc /\ s < MidAlloc
    <2>1. AdjustSize(n) = (3 * s) \div 2
      BY <1>1, <1>3, BufferAssumption DEF AdjustSize
    <2>2. (3 * s) \div 2 \in Nat /\ (3 * s) \div 2 >= s
      <3> HIDE DEF s
      <3> QED BY <1>1
    <2> QED BY <1>1, <2>1, <2>2
  <1>4. CASE s > MinAlloc /\ s >= MidAlloc
    BY <1>1, <1>4, BufferAssumption DEF AdjustSize
  <1> QED BY <1>1, <1>2, <1>3, <1>4, BufferAssumption

\* A larger block keeps the content (buffer.cpp:83).
LEMMA ReallocatedTyped ==
    ASSUME NEW b, Typed(b), NEW n \in Nat, n >= b.m_iBufferSize, NEW c \in Reallocated(b, n)
    PROVE  Typed(c) /\ c.m_iBufferSize = n /\ c.m_iTail = b.m_iTail
  <1>1. PICK junk \in [b.m_iBufferSize .. n - 1 -> Byte] : c = Buffer(Grown(b, n, junk), n, b.m_iTail)
    BY DEF Reallocated
  <1>2. Grown(b, n, junk) \in [0 .. n - 1 -> Byte]
    BY DEF Typed, Room, Grown
  <1> QED BY <1>1, <1>2 DEF Typed, Room, Buffer

\* SetBufferSize leaves more room than it is asked for (buffer.cpp:73).
LEMMA SetBufferSizeTyped ==
    ASSUME NEW b, Typed(b), NEW n \in Nat, NEW c \in SetBufferSize(b, n)
    PROVE  Typed(c) /\ c.m_iBufferSize > n /\ c.m_iTail = b.m_iTail
  <1>1. CASE Exists(b) /\ n < b.m_iBufferSize
    BY <1>1 DEF SetBufferSize, Typed
  <1>2. CASE ~ (Exists(b) /\ n < b.m_iBufferSize)
    <2>1. AdjustSize(n) \in Nat /\ AdjustSize(n) > n
      BY AdjustGrows
    <2>2. AdjustSize(n) >= b.m_iBufferSize
      BY <1>2, <2>1 DEF Typed, Exists
    <2>3. c \in Reallocated(b, AdjustSize(n))
      BY <1>2 DEF SetBufferSize
    <2> QED BY <2>1, <2>2, <2>3, ReallocatedTyped
  <1> QED BY <1>1, <1>2

\* Writing data changes bytes only.
LEMMA CopiedTyped ==
    ASSUME NEW b, Typed(b), NEW at \in Nat, NEW d \in Seq(Byte)
    PROVE  Typed(Copied(b, at, d)) /\ SameShape(b, Copied(b, at, d))
  <1> DEFINE new == [i \in Room(b) |->
        IF i \in at .. at + Len(d) - 1 THEN d[i - at + 1] ELSE b.m_pBuffer[i]]
  <1>1. Copied(b, at, d) = Buffer(new, b.m_iBufferSize, b.m_iTail)
    BY DEF Copied, Holding
  <1>2. ASSUME NEW i \in at .. at + Len(d) - 1 PROVE d[i - at + 1] \in Byte
    <2>1. i - at + 1 \in 1 .. Len(d)
      BY <1>2
    <2> QED BY <2>1, ElementOfSeq
  <1>3. new \in [Room(b) -> Byte]
    BY <1>2 DEF Typed
  <1> QED BY <1>1, <1>3 DEF Typed, SameShape, Room, Buffer

LEMMA EndingTyped ==
    ASSUME NEW b, Typed(b), NEW t \in 0 .. b.m_iBufferSize
    PROVE  Typed(Ending(b, t)) /\ Ending(b, t).m_iBufferSize = b.m_iBufferSize
                               /\ Ending(b, t).m_iTail = t
  BY DEF Ending, Typed, Room, Buffer

LEMMA MakeStringTyped ==
    ASSUME NEW b, Typed(b)
    PROVE  Typed(MakeString(b)) /\ SameShape(b, MakeString(b))
  <1>1. CASE ~ Exists(b)
    BY <1>1 DEF MakeString, SameShape
  <1>2. CASE Exists(b)
    <2> DEFINE new == [i \in Room(b) |-> IF i = b.m_iTail THEN Nul ELSE b.m_pBuffer[i]]
    <2>1. MakeString(b) = Buffer(new, b.m_iBufferSize, b.m_iTail)
      BY <1>2 DEF MakeString, Holding
    <2>2. new \in [Room(b) -> Byte]
      BY BufferAssumption DEF Typed
    <2> QED BY <2>1, <2>2 DEF Typed, SameShape, Room, Buffer
  <1> QED BY <1>1, <1>2

LEMMA ShiftedTyped ==
    ASSUME NEW b, Typed(b), NEW i \in Nat, NEW n \in Nat
    PROVE  Typed(Shifted(b, i, n)) /\ SameShape(b, Shifted(b, i, n))
  <1> DEFINE new == [j \in Room(b) |->
        IF j \in i + n .. b.m_iTail + n - 1 THEN b.m_pBuffer[j - n] ELSE b.m_pBuffer[j]]
  <1>1. Shifted(b, i, n) = Buffer(new, b.m_iBufferSize, b.m_iTail)
    BY DEF Shifted, Holding
  <1>2. ASSUME NEW j \in i + n .. b.m_iTail + n - 1 PROVE b.m_pBuffer[j - n] \in Byte
    <2>1. j - n \in Room(b)
      BY <1>2 DEF Typed, Room
    <2> QED BY <2>1 DEF Typed
  <1>3. new \in [Room(b) -> Byte]
    BY <1>2 DEF Typed
  <1> QED BY <1>1, <1>3 DEF Typed, SameShape, Room, Buffer

-----------------------------------------------------------------------------
(* The editing operations. *)

\* Append never leaves the content without room for the terminator (buffer.cpp:364).
LEMMA AppendedSound ==
    ASSUME NEW b, Sound(b), NEW d \in Seq(Byte), NEW c \in Appended(b, d)
    PROVE  Sound(c)
  <1>1. CASE d = <<>>
    BY <1>1 DEF Appended
  <1>2. CASE d # <<>>
    <2> DEFINE t == b.m_iTail + Len(d)
    <2>0. Len(d) \in Nat /\ t \in Nat
      BY DEF Sound, Typed
    <2>1. PICK m \in (IF Full(b, d) THEN SetBufferSize(b, t) ELSE {b}) :
                c = MakeString(Ending(Copied(m, b.m_iTail, d), t))
      BY <1>2 DEF Appended
    <2>2. Typed(m) /\ m.m_iBufferSize > t /\ m.m_iTail = b.m_iTail
      <3>1. CASE Full(b, d)
        BY <3>1, <2>0, <2>1, SetBufferSizeTyped DEF Sound
      <3>2. CASE ~ Full(b, d)
        BY <3>2, <2>0, <2>1 DEF Full, Sound, Typed
      <3> QED BY <3>1, <3>2
    <2>3. b.m_iTail \in Nat
      BY DEF Sound, Typed
    <2>4. Typed(Copied(m, b.m_iTail, d)) /\ SameShape(m, Copied(m, b.m_iTail, d))
      BY <2>2, <2>3, CopiedTyped
    <2> DEFINE e == Ending(Copied(m, b.m_iTail, d), t)
    <2>5. t \in 0 .. m.m_iBufferSize
      BY <2>0, <2>2 DEF Typed
    <2>6. Typed(e) /\ e.m_iBufferSize = m.m_iBufferSize /\ e.m_iTail = t
      BY <2>4, <2>5, EndingTyped DEF SameShape
    <2>7. Typed(c) /\ SameShape(e, c)
      BY <2>1, <2>6, MakeStringTyped
    <2> QED BY <2>2, <2>6, <2>7 DEF Sound, SameShape
  <1> QED BY <1>1, <1>2

\* Nor does Insert, which allocates on its own (buffer.cpp:318).
LEMMA InsertedSound ==
    ASSUME NEW b, Sound(b), NEW i \in Nat, NEW d \in Seq(Byte), NEW c \in Inserted(b, i, d)
    PROVE  Sound(c)
  <1> DEFINE n == Len(d) + b.m_iTail + 1
             t == b.m_iTail + Len(d)
  <1>0. Len(d) \in Nat /\ t \in Nat /\ n \in Nat /\ n = t + 1 /\ b.m_iTail \in Nat
    BY DEF Sound, Typed
  <1>1. PICK m \in (IF n > b.m_iBufferSize THEN Reallocated(b, AdjustSize(n)) ELSE {b}) :
            c = MakeString(Ending(Copied(Shifted(m, i, Len(d)), i, d), t))
    BY DEF Inserted
  <1>2. Typed(m) /\ m.m_iBufferSize > t
    <2>1. CASE n > b.m_iBufferSize
      <3>1. AdjustSize(n) \in Nat /\ AdjustSize(n) > n
        BY <1>0, AdjustGrows
      <3>2. AdjustSize(n) >= b.m_iBufferSize
        BY <2>1, <3>1, <1>0 DEF Sound, Typed
      <3> QED BY <1>0, <1>1, <2>1, <3>1, <3>2, ReallocatedTyped DEF Sound
    <2>2. CASE ~ (n > b.m_iBufferSize)
      BY <1>0, <1>1, <2>2 DEF Sound, Typed
    <2> QED BY <2>1, <2>2
  <1> DEFINE s == Shifted(m, i, Len(d))
             k == Copied(s, i, d)
             e == Ending(k, t)
  <1>3. Typed(s) /\ SameShape(m, s)
    BY <1>0, <1>2, ShiftedTyped
  <1>4. Typed(k) /\ SameShape(s, k)
    BY <1>3, CopiedTyped
  <1>5. t \in 0 .. k.m_iBufferSize
    BY <1>0, <1>2, <1>3, <1>4 DEF Typed, SameShape
  <1>6. Typed(e) /\ e.m_iBufferSize = k.m_iBufferSize /\ e.m_iTail = t
    BY <1>4, <1>5, EndingTyped
  <1>7. Typed(c) /\ SameShape(e, c)
    BY <1>1, <1>6, MakeStringTyped
  <1> QED BY <1>2, <1>3, <1>4, <1>6, <1>7 DEF Sound, SameShape

\* A removed region of the content leaves the rest of it (buffer.cpp:276).
LEMMA RemovedSound ==
    ASSUME NEW b, Sound(b), NEW i \in Nat, NEW n \in Nat, i + n <= b.m_iTail
    PROVE  Sound(Removed(b, i, n))
  <1>1. n <= b.m_iBufferSize /\ n + i <= b.m_iBufferSize
    BY DEF Sound, Typed
  <1>2. CASE b.m_iTail = 0 \/ n = 0
    BY <1>1, <1>2 DEF Removed, Sound, Typed
  <1>3. CASE b.m_iTail # 0 /\ n # 0
    <2> DEFINE new == [j \in Room(b) |->
                        IF j \in i .. b.m_iTail - n - 1 THEN b.m_pBuffer[j + n]
                        ELSE b.m_pBuffer[j]]
    <2>1. Removed(b, i, n) = Buffer(new, b.m_iBufferSize, b.m_iTail - n)
      BY <1>1, <1>3 DEF Removed, Sound, Typed
    <2>2. ASSUME NEW j \in i .. b.m_iTail - n - 1 PROVE b.m_pBuffer[j + n] \in Byte
      <3>1. j + n \in Room(b)
        BY <2>2 DEF Sound, Typed, Room
      <3> QED BY <3>1 DEF Sound, Typed
    <2>3. new \in [Room(b) -> Byte]
      BY <2>2 DEF Sound, Typed
    <2>4. b.m_iTail - n \in 0 .. b.m_iBufferSize
      BY DEF Sound, Typed
    <2> QED BY <2>1, <2>3, <2>4 DEF Sound, Typed, Exists, Room, Buffer
  <1> QED BY <1>2, <1>3
-----------------------------------------------------------------------------
(* The operations, as steps of the specification. *)

LEMMA ReceiveSound ==
    ASSUME Sound(buffer), NEW d \in Seq(Byte), ReceiveDatagram(d)
    PROVE  Sound(buffer')
  <1>0. Len(d) \in Nat /\ MaxDatagram \in Nat
    BY BufferAssumption
  <1>1. PICK room \in SetBufferSize(buffer, MaxDatagram) :
            \E b \in SetBufferSize(Copied(room, 0, d), Len(d)) : buffer' = Ending(b, Len(d))
    BY DEF ReceiveDatagram
  <1>2. Typed(room)
    BY <1>0, SetBufferSizeTyped DEF Sound
  <1>3. Typed(Copied(room, 0, d))
    BY <1>2, CopiedTyped
  <1>4. PICK b \in SetBufferSize(Copied(room, 0, d), Len(d)) : buffer' = Ending(b, Len(d))
    BY <1>1
  <1>5. Typed(b) /\ b.m_iBufferSize > Len(d)
    BY <1>0, <1>3, SetBufferSizeTyped
  <1>6. Len(d) \in 0 .. b.m_iBufferSize
    BY <1>0, <1>5 DEF Typed
  <1> QED BY <1>4, <1>5, <1>6, EndingTyped DEF Sound

\* ReleaseBuffer finds the terminator it has just seen written.
LEMMA StrLenAtEnd ==
    ASSUME NEW b, NEW n \in Room(b), b.m_iBufferSize \in Nat, b.m_pBuffer[n] = Nul,
           \A i \in 0 .. n - 1 : b.m_pBuffer[i] # Nul
    PROVE  StrLen(b) = n
  <1> DEFINE Z == {i \in Room(b) : b.m_pBuffer[i] = Nul}
  <1>1. n \in Z
    OBVIOUS
  <1>2. \A i \in Z : i \in Int /\ n <= i
    BY DEF Room
  <1>3. \A m \in Z : (\A j \in Z : m <= j) => m = n
    BY <1>1, <1>2
  <1>4. LeastOf(Z) = n
    <2> HIDE DEF Z
    <2>1. Z # {} /\ n \in Z /\ \A j \in Z : n <= j
      BY <1>1, <1>2
    <2> DEFINE c == CHOOSE i \in Z : \A j \in Z : i <= j
    <2>2. c \in Z /\ \A j \in Z : c <= j
      BY <2>1
    <2> QED BY <1>3, <2>1, <2>2 DEF LeastOf
  <1> QED BY <1>4 DEF StrLen

LEMMA SprintfSound ==
    ASSUME Sound(buffer), NEW n \in Nat, NEW text \in Seq(Byte \ {Nul}), Sprintf(n, text)
    PROVE  /\ Sound(buffer')
           /\ \E m : /\ Typed(m) /\ m.m_iBufferSize > Len(text)
                    /\ buffer' = MakeString(Ending(MakeString(
                                    Ending(Copied(m, 0, text), Len(text))), Len(text)))
  <1> DEFINE l == Len(text)
  <1>0. l \in Nat /\ l < n /\ text \in Seq(Byte)
    <2>1. \A i \in 1 .. Len(text) : text[i] \in Byte
      BY ElementOfSeq
    <2> QED BY <2>1 DEF Sprintf
  <1>1. PICK m \in SetBufferSize(buffer, n) :
            LET b == MakeString(Ending(Copied(MakeString(m), 0, text), Len(text)))
            IN buffer' = MakeString(Ending(b, StrLen(b)))
    BY DEF Sprintf
  <1> DEFINE k == Copied(MakeString(m), 0, text)
             e == Ending(k, l)
             b == MakeString(e)
  <1>2. Typed(m) /\ m.m_iBufferSize > n
    BY SetBufferSizeTyped DEF Sound
  <1>3. Typed(MakeString(m)) /\ MakeString(m).m_iBufferSize = m.m_iBufferSize
    BY <1>2, MakeStringTyped DEF SameShape
  <1>4. Typed(k) /\ k.m_iBufferSize = m.m_iBufferSize
    BY <1>0, <1>3, CopiedTyped DEF SameShape
  <1>5. l \in 0 .. k.m_iBufferSize /\ l < k.m_iBufferSize
    BY <1>0, <1>2, <1>4 DEF Typed
  <1>6. Typed(e) /\ e.m_iBufferSize = k.m_iBufferSize /\ e.m_iTail = l
    BY <1>4, <1>5, EndingTyped
  <1>7. Typed(b) /\ b.m_iBufferSize = e.m_iBufferSize
    BY <1>6, MakeStringTyped DEF SameShape
  <1>8. StrLen(b) = l
    <2>1. l \in Room(b)
      BY <1>0, <1>5, <1>6, <1>7 DEF Room, Typed
    <2>0. e.m_pBuffer = k.m_pBuffer
      BY DEF Ending, Buffer
    <2>1a. k.m_pBuffer = [i \in Room(MakeString(m)) |->
                IF i \in 0 .. 0 + Len(text) - 1 THEN text[i - 0 + 1] ELSE MakeString(m).m_pBuffer[i]]
      BY DEF Copied, Holding, Buffer
    <2> HIDE DEF k
    <2>1b. Exists(e)
      BY <1>0, <1>5, <1>6 DEF Exists
    <2>2. b.m_pBuffer = [i \in Room(e) |-> IF i = e.m_iTail THEN Nul ELSE e.m_pBuffer[i]]
      BY <2>1b DEF MakeString, Holding, Buffer
    <2> HIDE DEF e, b
    <2>3. /\ Room(e) = Room(b) /\ Room(k) = Room(b) /\ Room(MakeString(m)) = Room(b)
          /\ 0 .. l - 1 \subseteq Room(b)
      BY <1>0, <1>3, <1>4, <1>5, <1>6, <1>7 DEF Room, Typed
    <2>4. b.m_pBuffer[l] = Nul
      BY <1>6, <2>1, <2>2, <2>3
    <2>5. ASSUME NEW i \in 0 .. l - 1 PROVE b.m_pBuffer[i] # Nul
      <3>1. i \in Room(b) /\ i # l
        BY <1>0, <2>3, <2>5
      <3>2. b.m_pBuffer[i] = e.m_pBuffer[i]
        BY <1>6, <2>2, <2>3, <3>1
      <3>3. e.m_pBuffer = k.m_pBuffer
        BY <2>0
      <3>4. i \in 0 .. 0 + Len(text) - 1 /\ i \in Room(MakeString(m))
        BY <1>0, <2>3, <2>5, <3>1
      <3>5. k.m_pBuffer[i] = text[i - 0 + 1]
        BY <2>1a, <3>4
      <3>6. i - 0 + 1 \in 1 .. Len(text)
        BY <1>0, <2>5
      <3>7. text[i - 0 + 1] \in Byte \ {Nul}
        BY <3>6, ElementOfSeq
      <3> QED BY <3>2, <3>3, <3>5, <3>7
    <2> QED BY <1>7, <2>1, <2>4, <2>5, StrLenAtEnd DEF Typed
  <1>9. Typed(Ending(b, l)) /\ Ending(b, l).m_iBufferSize = m.m_iBufferSize /\ Ending(b, l).m_iTail = l
    BY <1>4, <1>5, <1>6, <1>7, EndingTyped
  <1>10. Typed(MakeString(Ending(b, l))) /\ SameShape(Ending(b, l), MakeString(Ending(b, l)))
    BY <1>9, MakeStringTyped
  <1>11. buffer' = MakeString(Ending(b, l))
    BY <1>1, <1>8
  <1>12. Typed(MakeString(m)) /\ MakeString(m).m_iBufferSize > Len(text)
    BY <1>3, <1>4, <1>5
  <1> QED BY <1>4, <1>5, <1>9, <1>10, <1>11, <1>12 DEF Sound, SameShape

LEMMA ReplaceSound ==
    ASSUME Sound(buffer), NEW p \in Seq(Byte), NEW w \in Seq(Byte), Replace(p, w)
    PROVE  Sound(buffer')
  <1>0. Len(p) \in Nat /\ buffer.m_iTail \in Nat
    BY DEF Sound, Typed
  <1>1. PICK i \in 0 .. buffer.m_iTail - Len(p) :
            buffer' \in Inserted(Removed(MakeString(buffer), i, Len(p)), i, w)
    BY DEF Replace
  <1> DEFINE b == MakeString(buffer)
  <1>2. Typed(b) /\ SameShape(buffer, b)
    BY MakeStringTyped DEF Sound
  <1>3. Sound(b)
    BY <1>2 DEF Sound, SameShape, Exists
  <1>4. i \in Nat /\ i + Len(p) <= b.m_iTail
    BY <1>0, <1>2 DEF SameShape
  <1> HIDE DEF b
  <1>5. Sound(Removed(b, i, Len(p)))
    BY <1>0, <1>3, <1>4, RemovedSound
  <1> QED BY <1>1, <1>4, <1>5, InsertedSound DEF b

LEMMA Strings == Data \subseteq Seq(Byte) /\ Patterns \subseteq Seq(Byte)
  <1>1. ASSUME NEW p \in Patterns PROVE p \in Seq(Byte)
    <2>1. p \in Seq(Byte \ {Nul})
      BY BufferAssumption
    <2>2. \A i \in 1 .. Len(p) : p[i] \in Byte
      BY <2>1, ElementOfSeq
    <2> QED BY <2>1, <2>2
  <1> QED BY <1>1, BufferAssumption

-----------------------------------------------------------------------------
IInv == Sound(buffer)

\* Every buffer is sound: the invariant of all four theorems.
LEMMA SoundInvariant == BufferSpec => []IInv
  <1>1. BufferInit => IInv
    BY DEF IInv, BufferInit, NoBuffer, Sound, Typed, Buffer, Room, Exists
  <1>2. IInv /\ [BufferNext]_buffer => IInv'
    <2> SUFFICES ASSUME Sound(buffer), [BufferNext]_buffer PROVE Sound(buffer')
      BY DEF IInv
    <2>0. buffer.m_iTail \in Nat /\ Sound(Emptied(buffer))
      BY EndingTyped DEF Sound, Typed, Emptied, Ending, Buffer, Room, Exists
    <2>1. ASSUME NEW d \in Data, AppendData(d) PROVE Sound(buffer')
      BY <2>1, Strings, AppendedSound DEF AppendData
    <2>2. ASSUME NEW d \in Data, ReplaceWith(d) PROVE Sound(buffer')
      BY <2>0, <2>2, Strings, AppendedSound DEF ReplaceWith, ReplacedWith
    <2>3. ASSUME NEW d \in Data, NEW i \in 0 .. buffer.m_iTail, Insert(i, d)
          PROVE  Sound(buffer')
      BY <2>0, <2>3, Strings, InsertedSound DEF Insert
    <2>4. ASSUME NEW i \in 0 .. buffer.m_iTail, NEW n \in 0 .. buffer.m_iTail, Remove(i, n)
          PROVE  Sound(buffer')
      BY <2>0, <2>4, RemovedSound DEF Remove
    <2>5. ASSUME NEW p \in Patterns, NEW w \in Data, Replace(p, w) PROVE Sound(buffer')
      BY <2>5, Strings, ReplaceSound
    <2>6. ASSUME NEW d \in Data, ReceiveDatagram(d) PROVE Sound(buffer')
      BY <2>6, Strings, ReceiveSound
    <2>7. ASSUME NEW text \in Texts, Sprintf(MaxCount, text) PROVE Sound(buffer')
      BY <2>7, BufferAssumption, SprintfSound DEF Texts
    <2>8. CASE Clear
      BY <2>0, <2>8 DEF Clear
    <2>9. CASE Flush
      BY <2>9 DEF Flush, NoBuffer, Sound, Typed, Buffer, Room, Exists
    <2>10. CASE UNCHANGED buffer
      BY <2>10
    <2> QED BY <2>1, <2>2, <2>3, <2>4, <2>5, <2>6, <2>7, <2>8, <2>9, <2>10 DEF BufferNext
  <1> QED BY <1>1, <1>2, PTL DEF BufferSpec

\* The block has the size it is said to have, and holds the content (buffer.cpp:67).
THEOREM TypeCorrect == BufferSpec => []BufferTypeOK
  <1>1. IInv => BufferTypeOK
    BY DEF IInv, Sound, Typed, BufferTypeOK
  <1> QED BY <1>1, SoundInvariant, PTL

\* The terminator that MakeString writes without a test is always in the block
\* (buffer.cpp:495).
THEOREM AlwaysTerminated == BufferSpec => []TerminatorFits
  <1>1. IInv => TerminatorFits
    BY DEF IInv, Sound, TerminatorFits
  <1> QED BY <1>1, SoundInvariant, PTL

-----------------------------------------------------------------------------
(* What the operations do to the content. *)

\* The content of a buffer, as Buffer!Content.
Str(b) == [i \in 1 .. b.m_iTail |-> b.m_pBuffer[i - 1]]

LEMMA StrIsSeq ==
    ASSUME NEW b, Typed(b)
    PROVE  /\ Str(b) \in Seq(Byte) /\ Len(Str(b)) = b.m_iTail
           /\ \A i \in 1 .. b.m_iTail : Str(b)[i] = b.m_pBuffer[i - 1]
  <1>1. b.m_iTail \in Nat
    BY DEF Typed
  <1>2. \A i \in 1 .. b.m_iTail : i - 1 \in Room(b) /\ b.m_pBuffer[i - 1] \in Byte
    BY DEF Typed, Room
  <1>3. Str(b) \in [1 .. b.m_iTail -> Byte]
    BY <1>2 DEF Str
  <1>4. \A i \in 1 .. b.m_iTail : Str(b)[i] = b.m_pBuffer[i - 1]
    BY DEF Str
  <1> QED BY <1>1, <1>3, <1>4

\* A content is known by its bytes.
LEMMA SameStr ==
    ASSUME NEW b, Typed(b), NEW s \in Seq(Byte), b.m_iTail = Len(s),
           \A i \in 1 .. Len(s) : b.m_pBuffer[i - 1] = s[i]
    PROVE  Str(b) = s
  BY StrIsSeq, SeqEqual

LEMMA ReallocatedBytes ==
    ASSUME NEW b, Typed(b), NEW n \in Nat, n >= b.m_iBufferSize, NEW c \in Reallocated(b, n)
    PROVE  \A i \in Room(b) : c.m_pBuffer[i] = b.m_pBuffer[i]
  <1>1. PICK junk \in [b.m_iBufferSize .. n - 1 -> Byte] : c = Buffer(Grown(b, n, junk), n, b.m_iTail)
    BY DEF Reallocated
  <1>2. c.m_pBuffer = Grown(b, n, junk)
    BY <1>1 DEF Buffer
  <1>3. \A i \in Room(b) : i \in 0 .. n - 1
    BY DEF Typed, Room
  <1> QED BY <1>2, <1>3 DEF Grown

LEMMA SetBufferSizeBytes ==
    ASSUME NEW b, Typed(b), NEW n \in Nat, NEW c \in SetBufferSize(b, n)
    PROVE  \A i \in Room(b) : c.m_pBuffer[i] = b.m_pBuffer[i]
  <1>1. CASE Exists(b) /\ n < b.m_iBufferSize
    BY <1>1 DEF SetBufferSize
  <1>2. CASE ~ (Exists(b) /\ n < b.m_iBufferSize)
    <2>1. AdjustSize(n) \in Nat /\ AdjustSize(n) > n
      BY AdjustGrows
    <2>2. AdjustSize(n) >= b.m_iBufferSize
      BY <1>2, <2>1 DEF Typed, Exists
    <2>3. c \in Reallocated(b, AdjustSize(n))
      BY <1>2 DEF SetBufferSize
    <2> QED BY <2>1, <2>2, <2>3, ReallocatedBytes
  <1> QED BY <1>1, <1>2

LEMMA CopiedBytes ==
    ASSUME NEW b, NEW at, NEW d, NEW i \in Room(b)
    PROVE  Copied(b, at, d).m_pBuffer[i] =
             IF i \in at .. at + Len(d) - 1 THEN d[i - at + 1] ELSE b.m_pBuffer[i]
  <1>1. Copied(b, at, d).m_pBuffer = [j \in Room(b) |->
             IF j \in at .. at + Len(d) - 1 THEN d[j - at + 1] ELSE b.m_pBuffer[j]]
    BY DEF Copied, Holding, Buffer
  <1> QED BY <1>1

LEMMA ShiftedBytes ==
    ASSUME NEW b, NEW at, NEW n, NEW i \in Room(b)
    PROVE  Shifted(b, at, n).m_pBuffer[i] =
             IF i \in at + n .. b.m_iTail + n - 1 THEN b.m_pBuffer[i - n] ELSE b.m_pBuffer[i]
  <1>1. Shifted(b, at, n).m_pBuffer = [j \in Room(b) |->
             IF j \in at + n .. b.m_iTail + n - 1 THEN b.m_pBuffer[j - n] ELSE b.m_pBuffer[j]]
    BY DEF Shifted, Holding, Buffer
  <1> QED BY <1>1

LEMMA EndingBytes == ASSUME NEW b, NEW t PROVE Ending(b, t).m_pBuffer = b.m_pBuffer
  BY DEF Ending, Buffer

\* MakeString writes behind the content, and nowhere else.
LEMMA MakeStringBytes ==
    ASSUME NEW b, NEW i \in Room(b)
    PROVE  /\ i # b.m_iTail => MakeString(b).m_pBuffer[i] = b.m_pBuffer[i]
           /\ i = b.m_iTail /\ Exists(b) => MakeString(b).m_pBuffer[i] = Nul
  <1>1. CASE Exists(b)
    <2>1. MakeString(b).m_pBuffer =
            [j \in Room(b) |-> IF j = b.m_iTail THEN Nul ELSE b.m_pBuffer[j]]
      BY <1>1 DEF MakeString, Holding, Buffer
    <2> QED BY <2>1
  <1>2. CASE ~ Exists(b)
    BY <1>2 DEF MakeString
  <1> QED BY <1>1, <1>2

LEMMA MakeStringStr ==
    ASSUME NEW b, Typed(b)
    PROVE  Str(MakeString(b)) = Str(b)
  <1> DEFINE c == MakeString(b)
  <1>1. Typed(c) /\ c.m_iTail = b.m_iTail
    BY MakeStringTyped DEF SameShape
  <1>2. ASSUME NEW i \in 1 .. b.m_iTail PROVE c.m_pBuffer[i - 1] = Str(b)[i]
    <2>1. i - 1 \in Room(b) /\ i - 1 # b.m_iTail
      BY DEF Typed, Room
    <2> QED BY <2>1, MakeStringBytes, StrIsSeq
  <1> HIDE DEF c
  <1>3. Str(b) \in Seq(Byte) /\ Len(Str(b)) = b.m_iTail
    BY StrIsSeq
  <1>4. Str(c) = Str(b)
    BY <1>1, <1>2, <1>3, SameStr
  <1> QED BY <1>4 DEF c

\* Data copied behind the first part of a content, which then ends.
LEMMA WrittenStr ==
    ASSUME NEW m, Typed(m), NEW at \in Nat, NEW d \in Seq(Byte), NEW s \in Seq(Byte),
           at + Len(d) <= m.m_iBufferSize, Len(s) = at,
           \A i \in 1 .. at : m.m_pBuffer[i - 1] = s[i]
    PROVE  LET e == Ending(Copied(m, at, d), at + Len(d))
           IN Typed(e) /\ Str(MakeString(e)) = s \o d
  <1> DEFINE k == Copied(m, at, d)
             e == Ending(k, at + Len(d))
  <1>0. Len(d) \in Nat
    OBVIOUS
  <1>1. Typed(k) /\ k.m_iBufferSize = m.m_iBufferSize
    BY CopiedTyped DEF SameShape
  <1>2. Typed(e) /\ e.m_iTail = at + Len(d) /\ e.m_pBuffer = k.m_pBuffer
    BY <1>0, <1>1, EndingTyped, EndingBytes
  <1>3. s \o d \in Seq(Byte) /\ Len(s \o d) = at + Len(d)
    BY ConcatProperties
  <1>4. ASSUME NEW i \in 1 .. at + Len(d) PROVE e.m_pBuffer[i - 1] = (s \o d)[i]
    <2>1. i - 1 \in Room(m)
      BY <1>0 DEF Room, Typed
    <2>2. k.m_pBuffer[i - 1] = IF i - 1 \in at .. at + Len(d) - 1 THEN d[i - 1 - at + 1]
                               ELSE m.m_pBuffer[i - 1]
      <3> DEFINE x == i - 1
      <3>1. x \in Room(m)
        BY <2>1
      <3> HIDE DEF x
      <3>2. k.m_pBuffer[x] = IF x \in at .. at + Len(d) - 1 THEN d[x - at + 1]
                             ELSE m.m_pBuffer[x]
        BY <3>1, CopiedBytes
      <3> QED BY <3>2 DEF x
    <2>3. (s \o d)[i] = IF i <= Len(s) THEN s[i] ELSE d[i - Len(s)]
      BY <1>0, ConcatProperties
    <2> HIDE DEF k, e
    <2>4. CASE i <= at
      BY <1>0, <1>2, <2>2, <2>3, <2>4
    <2>5. CASE i > at
      <3>1. i - 1 \in at .. at + Len(d) - 1 /\ i - 1 - at + 1 = i - Len(s)
        BY <1>0, <2>5
      <3> QED BY <1>2, <2>2, <2>3, <2>5, <3>1
    <2> QED BY <2>4, <2>5
  <1> HIDE DEF k, e
  <1>5. Str(e) = s \o d
    BY <1>2, <1>3, <1>4, SameStr
  <1>6. Str(MakeString(e)) = s \o d
    BY <1>2, <1>5, MakeStringStr
  <1> QED BY <1>2, <1>6 DEF e, k

\* Append puts the data behind the content (buffer.cpp:364).
LEMMA AppendedStr ==
    ASSUME NEW b, Sound(b), NEW d \in Seq(Byte), NEW c \in Appended(b, d)
    PROVE  Str(c) = Str(b) \o d
  <1>0. Str(b) \in Seq(Byte) /\ Len(Str(b)) = b.m_iTail
        /\ \A i \in 1 .. b.m_iTail : Str(b)[i] = b.m_pBuffer[i - 1]
    BY StrIsSeq DEF Sound
  <1>1. CASE d = <<>>
    BY <1>0, <1>1, ConcatEmptySeq DEF Appended
  <1>2. CASE d # <<>>
    <2> DEFINE t == b.m_iTail + Len(d)
    <2>0. Len(d) \in Nat /\ t \in Nat /\ b.m_iTail \in Nat
      BY DEF Sound, Typed
    <2>1. PICK m \in (IF Full(b, d) THEN SetBufferSize(b, t) ELSE {b}) :
                c = MakeString(Ending(Copied(m, b.m_iTail, d), t))
      BY <1>2 DEF Appended
    <2>2. /\ Typed(m) /\ m.m_iBufferSize > t
          /\ \A i \in Room(b) : m.m_pBuffer[i] = b.m_pBuffer[i]
      <3>1. CASE Full(b, d)
        <4>1. m \in SetBufferSize(b, t) /\ Typed(b)
          BY <2>1, <3>1 DEF Sound
        <4> QED BY <2>0, <4>1, SetBufferSizeTyped, SetBufferSizeBytes
      <3>2. CASE ~ Full(b, d)
        BY <3>2, <2>0, <2>1 DEF Full, Sound, Typed
      <3> QED BY <3>1, <3>2
    <2>3. \A i \in 1 .. b.m_iTail : m.m_pBuffer[i - 1] = Str(b)[i]
      <3>1. \A i \in 1 .. b.m_iTail : i - 1 \in Room(b)
        BY DEF Sound, Typed, Room
      <3> QED BY <1>0, <2>2, <3>1
    <2>4. b.m_iTail + Len(d) <= m.m_iBufferSize
      BY <2>0, <2>2 DEF Typed
    <2>5. Str(MakeString(Ending(Copied(m, b.m_iTail, d), b.m_iTail + Len(d)))) = Str(b) \o d
      BY <1>0, <2>0, <2>2, <2>3, <2>4, WrittenStr
    <2> QED BY <2>1, <2>5
  <1> QED BY <1>1, <1>2

\* A piece of a byte string.
LEMMA PieceProperties ==
    ASSUME NEW s \in Seq(Byte), NEW i \in Nat, NEW n \in Nat, i + n <= Len(s)
    PROVE  /\ SubSeq(s, i + 1, i + n) \in Seq(Byte) /\ Len(SubSeq(s, i + 1, i + n)) = n
           /\ \A j \in 1 .. n : SubSeq(s, i + 1, i + n)[j] = s[i + j]
  <1> DEFINE x == i + 1
             z == i + n
             u == SubSeq(s, x, z)
  <1>1. x \in 1 .. Len(s) + 1 /\ z \in x - 1 .. Len(s)
    OBVIOUS
  <1>2. \A j \in 1 .. Len(s) : s[j] \in Byte
    BY ElementOfSeq
  <1>3. \A j \in x .. z : s[j] \in Byte
    BY <1>1, <1>2
  <1>4. z - x + 1 = n /\ (x <= z <=> n # 0) /\ \A j \in 1 .. n : x + j - 1 = i + j
    OBVIOUS
  <1> HIDE DEF x, z
  <1>5. /\ u \in Seq(Byte) /\ Len(u) = IF x <= z THEN z - x + 1 ELSE 0
        /\ \A j \in 1 .. z - x + 1 : u[j] = s[x + j - 1]
    BY <1>1, <1>3, SubSeqProperties, SMTT(30)
  <1> HIDE DEF u
  <1>6. Len(u) = n
    BY <1>4, <1>5
  <1>7. \A j \in 1 .. n : u[j] = s[i + j]
    BY <1>4, <1>5
  <1> QED BY <1>5, <1>6, <1>7 DEF u, x, z

\* Pieces of byte strings that agree.
LEMMA SameSubSeq ==
    ASSUME NEW s \in Seq(Byte), NEW t \in Seq(Byte), NEW i \in Nat, NEW n \in Nat,
           i + n <= Len(s), i + n <= Len(t), \A j \in 1 .. i + n : s[j] = t[j]
    PROVE  SubSeq(s, i + 1, i + n) = SubSeq(t, i + 1, i + n)
  <1> DEFINE u == SubSeq(s, i + 1, i + n)
             v == SubSeq(t, i + 1, i + n)
  <1>1. u \in Seq(Byte) /\ Len(u) = n /\ \A j \in 1 .. n : u[j] = s[i + j]
    BY PieceProperties
  <1>2. v \in Seq(Byte) /\ Len(v) = n /\ \A j \in 1 .. n : v[j] = t[i + j]
    BY PieceProperties
  <1> HIDE DEF u, v
  <1>3. \A j \in 1 .. n : i + j \in 1 .. i + n
    OBVIOUS
  <1>4. \A j \in 1 .. n : u[j] = v[j]
    BY <1>1, <1>2, <1>3
  <1>5. u = v
    BY <1>1, <1>2, <1>4, SeqEqual
  <1> QED BY <1>5 DEF u, v

\* What Insert and Remove make of a byte string.
InsertedIn(s, i, d) == SubSeq(s, 1, i) \o d \o SubSeq(s, i + 1, Len(s))

RemovedFrom(s, i, n) == SubSeq(s, 1, i) \o SubSeq(s, i + n + 1, Len(s))

LEMMA InsertedInProperties ==
    ASSUME NEW s \in Seq(Byte), NEW i \in 0 .. Len(s), NEW d \in Seq(Byte)
    PROVE  /\ InsertedIn(s, i, d) \in Seq(Byte)
           /\ Len(InsertedIn(s, i, d)) = Len(s) + Len(d)
           /\ \A j \in 1 .. Len(s) + Len(d) :
                InsertedIn(s, i, d)[j] = IF j <= i THEN s[j]
                                         ELSE IF j <= i + Len(d) THEN d[j - i]
                                         ELSE s[j - Len(d)]
  <1> DEFINE l == SubSeq(s, 1, i)
             r == SubSeq(s, i + 1, Len(s))
  <1>0. Len(s) \in Nat /\ Len(d) \in Nat /\ \A j \in 1 .. Len(s) : s[j] \in Byte
    BY ElementOfSeq
  <1>1. l \in Seq(Byte) /\ Len(l) = i /\ \A j \in 1 .. i : l[j] = s[j]
    BY <1>0, SubSeqProperties
  <1>2. r \in Seq(Byte) /\ Len(r) = Len(s) - i /\ \A j \in 1 .. Len(s) - i : r[j] = s[i + j]
    BY <1>0, SubSeqProperties
  <1> HIDE DEF l, r
  <1> DEFINE ld == l \o d
  <1>3. /\ ld \in Seq(Byte) /\ Len(ld) = i + Len(d)
        /\ \A j \in 1 .. i + Len(d) : ld[j] = IF j <= i THEN l[j] ELSE d[j - i]
    BY <1>0, <1>1, ConcatProperties
  <1> HIDE DEF ld
  <1> DEFINE ldr == ld \o r
  <1>4. /\ ldr \in Seq(Byte) /\ Len(ldr) = Len(s) + Len(d)
        /\ \A j \in 1 .. Len(s) + Len(d) :
             ldr[j] = IF j <= i + Len(d) THEN ld[j] ELSE r[j - (i + Len(d))]
    <2>1. /\ ldr \in Seq(Byte) /\ Len(ldr) = Len(ld) + Len(r)
          /\ \A j \in 1 .. Len(ld) + Len(r) :
               ldr[j] = IF j <= Len(ld) THEN ld[j] ELSE r[j - Len(ld)]
      BY <1>2, <1>3, ConcatProperties
    <2>2. Len(ld) + Len(r) = Len(s) + Len(d) /\ Len(ld) = i + Len(d)
      BY <1>0, <1>2, <1>3
    <2> QED BY <2>1, <2>2
  <1> HIDE DEF ldr
  <1>5. ASSUME NEW j \in 1 .. Len(s) + Len(d)
        PROVE  ldr[j] = IF j <= i THEN s[j] ELSE IF j <= i + Len(d) THEN d[j - i]
                        ELSE s[j - Len(d)]
    <2>1. CASE j <= i
      BY <1>0, <1>1, <1>3, <1>4, <2>1
    <2>2. CASE j > i /\ j <= i + Len(d)
      BY <1>0, <1>3, <1>4, <2>2
    <2>3. CASE j > i + Len(d)
      <3>1. j - (i + Len(d)) \in 1 .. Len(s) - i /\ i + (j - (i + Len(d))) = j - Len(d)
        BY <1>0, <2>3
      <3> QED BY <1>0, <1>2, <1>4, <2>3, <3>1
    <2> QED BY <1>0, <2>1, <2>2, <2>3
  <1> QED BY <1>4, <1>5 DEF InsertedIn, ldr, ld, l, r

LEMMA RemovedFromProperties ==
    ASSUME NEW s \in Seq(Byte), NEW i \in Nat, NEW n \in Nat, i + n <= Len(s)
    PROVE  /\ RemovedFrom(s, i, n) \in Seq(Byte)
           /\ Len(RemovedFrom(s, i, n)) = Len(s) - n
           /\ \A j \in 1 .. Len(s) - n :
                RemovedFrom(s, i, n)[j] = IF j <= i THEN s[j] ELSE s[j + n]
  <1> DEFINE l == SubSeq(s, 1, i)
             r == SubSeq(s, i + n + 1, Len(s))
  <1>0. Len(s) \in Nat /\ \A j \in 1 .. Len(s) : s[j] \in Byte
    BY ElementOfSeq
  <1>1. l \in Seq(Byte) /\ Len(l) = i /\ \A j \in 1 .. i : l[j] = s[j]
    BY <1>0, SubSeqProperties
  <1>2. /\ r \in Seq(Byte) /\ Len(r) = Len(s) - (i + n)
        /\ \A j \in 1 .. Len(s) - (i + n) : r[j] = s[i + n + j]
    BY <1>0, SubSeqProperties
  <1> HIDE DEF l, r
  <1> DEFINE lr == l \o r
  <1>3. /\ lr \in Seq(Byte) /\ Len(lr) = Len(l) + Len(r)
        /\ \A j \in 1 .. Len(l) + Len(r) : lr[j] = IF j <= Len(l) THEN l[j] ELSE r[j - Len(l)]
    BY <1>1, <1>2, ConcatProperties
  <1>4. Len(l) + Len(r) = Len(s) - n /\ Len(l) = i
    BY <1>0, <1>1, <1>2
  <1> HIDE DEF lr
  <1>5. ASSUME NEW j \in 1 .. Len(s) - n PROVE lr[j] = IF j <= i THEN s[j] ELSE s[j + n]
    <2>1. CASE j <= i
      BY <1>0, <1>1, <1>3, <1>4, <2>1
    <2>2. CASE j > i
      <3>1. j - i \in 1 .. Len(s) - (i + n) /\ i + n + (j - i) = j + n
        BY <1>0, <2>2
      <3> QED BY <1>0, <1>2, <1>3, <1>4, <2>2, <3>1
    <2> QED BY <1>0, <2>1, <2>2
  <1> QED BY <1>3, <1>4, <1>5 DEF RemovedFrom, lr, l, r

\* Data put where a piece was taken from.
LEMMA InsertedWhereRemoved ==
    ASSUME NEW s \in Seq(Byte), NEW i \in Nat, NEW n \in Nat, i + n <= Len(s),
           NEW d \in Seq(Byte)
    PROVE  InsertedIn(RemovedFrom(s, i, n), i, d) =
             SubSeq(s, 1, i) \o d \o SubSeq(s, i + n + 1, Len(s))
  <1> DEFINE q == RemovedFrom(s, i, n)
             l == SubSeq(s, 1, i)
             r == SubSeq(s, i + n + 1, Len(s))
  <1>0. Len(s) \in Nat /\ \A j \in 1 .. Len(s) : s[j] \in Byte
    BY ElementOfSeq
  <1>1. l \in Seq(Byte) /\ Len(l) = i /\ \A j \in 1 .. i : l[j] = s[j]
    BY <1>0, SubSeqProperties
  <1>2. /\ r \in Seq(Byte) /\ Len(r) = Len(s) - (i + n)
        /\ \A j \in 1 .. Len(s) - (i + n) : r[j] = s[i + n + j]
    BY <1>0, SubSeqProperties
  <1>3. /\ q \in Seq(Byte) /\ Len(q) = Len(s) - n
        /\ \A j \in 1 .. Len(s) - n : q[j] = IF j <= i THEN s[j] ELSE s[j + n]
    BY RemovedFromProperties
  <1> HIDE DEF l, r, q
  <1>4. \A j \in 1 .. Len(q) : q[j] \in Byte
    BY <1>3, ElementOfSeq
  <1> DEFINE ql == SubSeq(q, 1, i)
             qr == SubSeq(q, i + 1, Len(q))
  <1>5. ql \in Seq(Byte) /\ Len(ql) = i /\ \A j \in 1 .. i : ql[j] = q[j]
    BY <1>0, <1>3, <1>4, SubSeqProperties
  <1>6. /\ qr \in Seq(Byte) /\ Len(qr) = Len(q) - i
        /\ \A j \in 1 .. Len(q) - i : qr[j] = q[i + j]
    <2> DEFINE lq == Len(q)
    <2>1. lq \in Nat /\ i <= lq /\ \A j \in i + 1 .. lq : q[j] \in Byte
      BY <1>0, <1>3, <1>4
    <2> HIDE DEF lq
    <2>2. /\ SubSeq(q, i + 1, lq) \in Seq(Byte)
          /\ Len(SubSeq(q, i + 1, lq)) = IF i + 1 <= lq THEN lq - (i + 1) + 1 ELSE 0
          /\ \A j \in 1 .. lq - (i + 1) + 1 : SubSeq(q, i + 1, lq)[j] = q[i + 1 + j - 1]
      BY <2>1, SubSeqProperties
    <2> QED BY <2>1, <2>2 DEF lq
  <1> HIDE DEF ql, qr
  <1>7. ql = l
    <2>1. ASSUME NEW j \in 1 .. i PROVE ql[j] = l[j]
      BY <1>0, <1>1, <1>3, <1>5
    <2> QED BY <1>1, <1>5, <2>1, SeqEqual
  <1>8. qr = r
    <2>1. ASSUME NEW j \in 1 .. Len(q) - i PROVE qr[j] = r[j]
      <3>1. j \in 1 .. Len(s) - (i + n) /\ i + j \in 1 .. Len(s) - n /\ i + j + n = i + n + j
            /\ ~ (i + j <= i)
        BY <1>0, <1>3
      <3> QED BY <1>2, <1>3, <1>6, <3>1
    <2>2. Len(r) = Len(q) - i
      BY <1>0, <1>2, <1>3
    <2> QED BY <1>2, <1>6, <2>1, <2>2, SeqEqual
  <1> QED BY <1>7, <1>8 DEF InsertedIn, l, r, q, ql, qr

\* Insert makes room at the place, and puts the data there (buffer.cpp:318).
LEMMA InsertedStr ==
    ASSUME NEW b, Sound(b), NEW i \in 0 .. b.m_iTail, NEW d \in Seq(Byte),
           NEW c \in Inserted(b, i, d)
    PROVE  Str(c) = InsertedIn(Str(b), i, d)
  <1> DEFINE n == Len(d) + b.m_iTail + 1
             t == b.m_iTail + Len(d)
             new == InsertedIn(Str(b), i, d)
  <1>0. Len(d) \in Nat /\ t \in Nat /\ n \in Nat /\ n = t + 1 /\ b.m_iTail \in Nat /\ i \in Nat
    BY DEF Sound, Typed
  <1>1. PICK m \in (IF n > b.m_iBufferSize THEN Reallocated(b, AdjustSize(n)) ELSE {b}) :
            c = MakeString(Ending(Copied(Shifted(m, i, Len(d)), i, d), t))
    BY DEF Inserted
  <1>2. /\ Typed(m) /\ m.m_iBufferSize > t /\ m.m_iTail = b.m_iTail
        /\ \A x \in Room(b) : m.m_pBuffer[x] = b.m_pBuffer[x]
    <2>1. CASE n > b.m_iBufferSize
      <3>1. AdjustSize(n) \in Nat /\ AdjustSize(n) > n
        BY <1>0, AdjustGrows
      <3>2. AdjustSize(n) >= b.m_iBufferSize
        BY <2>1, <3>1, <1>0 DEF Sound, Typed
      <3>3. Typed(b) /\ m \in Reallocated(b, AdjustSize(n))
        BY <1>1, <2>1 DEF Sound
      <3> HIDE DEF n
      <3>4. Typed(m) /\ m.m_iBufferSize = AdjustSize(n) /\ m.m_iTail = b.m_iTail
        BY <3>1, <3>2, <3>3, ReallocatedTyped
      <3>5. \A x \in Room(b) : m.m_pBuffer[x] = b.m_pBuffer[x]
        BY <3>1, <3>2, <3>3, ReallocatedBytes
      <3> QED BY <1>0, <3>1, <3>4, <3>5
    <2>2. CASE ~ (n > b.m_iBufferSize)
      BY <1>0, <1>1, <2>2 DEF Sound, Typed
    <2> QED BY <2>1, <2>2
  <1>3. /\ Str(b) \in Seq(Byte) /\ Len(Str(b)) = b.m_iTail
        /\ \A j \in 1 .. b.m_iTail : Str(b)[j] = b.m_pBuffer[j - 1]
    BY StrIsSeq DEF Sound
  <1>4. \A x \in 0 .. b.m_iTail - 1 : m.m_pBuffer[x] = Str(b)[x + 1]
    <2>1. ASSUME NEW x \in 0 .. b.m_iTail - 1 PROVE m.m_pBuffer[x] = Str(b)[x + 1]
      <3>1. x \in Room(b) /\ x + 1 \in 1 .. b.m_iTail /\ x + 1 - 1 = x
        BY <1>0, SMTT(30) DEF Sound, Typed, Room
      <3> QED BY <1>2, <1>3, <3>1
    <2> QED BY <2>1
  <1> DEFINE s == Shifted(m, i, Len(d))
             k == Copied(s, i, d)
             e == Ending(k, t)
  <1>5. Typed(s) /\ s.m_iBufferSize = m.m_iBufferSize
    BY <1>0, <1>2, ShiftedTyped DEF SameShape
  <1>6. Typed(k) /\ k.m_iBufferSize = m.m_iBufferSize
    BY <1>0, <1>5, CopiedTyped DEF SameShape
  <1>7. Typed(e) /\ e.m_iTail = t /\ e.m_pBuffer = k.m_pBuffer
    <2> HIDE DEF k, t
    <2>1. t \in 0 .. k.m_iBufferSize
      BY <1>0, <1>2, <1>6 DEF Typed
    <2> QED BY <1>6, <2>1, EndingTyped, EndingBytes
  <1>8. \A x \in 0 .. t - 1 :
          /\ s.m_pBuffer[x] = IF x \in i + Len(d) .. b.m_iTail + Len(d) - 1
                              THEN m.m_pBuffer[x - Len(d)] ELSE m.m_pBuffer[x]
          /\ k.m_pBuffer[x] = IF x \in i .. i + Len(d) - 1 THEN d[x - i + 1] ELSE s.m_pBuffer[x]
    <2>1. ASSUME NEW x \in 0 .. t - 1 PROVE x \in Room(m) /\ x \in Room(s)
      BY <1>0, <1>2, <1>5 DEF Room, Typed
    <2>2. ASSUME NEW x \in 0 .. t - 1
          PROVE  s.m_pBuffer[x] = IF x \in i + Len(d) .. b.m_iTail + Len(d) - 1
                                  THEN m.m_pBuffer[x - Len(d)] ELSE m.m_pBuffer[x]
      BY <1>2, <2>1, ShiftedBytes
    <2> HIDE DEF s, t
    <2>3. ASSUME NEW x \in 0 .. t - 1
          PROVE  k.m_pBuffer[x] = IF x \in i .. i + Len(d) - 1 THEN d[x - i + 1]
                                  ELSE s.m_pBuffer[x]
      <3>1. k.m_pBuffer = [y \in Room(s) |-> IF y \in i .. i + Len(d) - 1 THEN d[y - i + 1]
                                             ELSE s.m_pBuffer[y]]
        BY DEF Copied, Holding, Buffer
      <3> HIDE DEF k
      <3> QED BY <2>1, <3>1
    <2> QED BY <2>2, <2>3
  <1>9. /\ new \in Seq(Byte) /\ Len(new) = t
        /\ \A j \in 1 .. t : new[j] = IF j <= i THEN Str(b)[j]
                                      ELSE IF j <= i + Len(d) THEN d[j - i]
                                      ELSE Str(b)[j - Len(d)]
    <2> DEFINE q == Str(b)
    <2>1. q \in Seq(Byte) /\ i \in 0 .. Len(q)
      BY <1>3
    <2> HIDE DEF q
    <2>2. /\ InsertedIn(q, i, d) \in Seq(Byte)
          /\ Len(InsertedIn(q, i, d)) = Len(q) + Len(d)
          /\ \A j \in 1 .. Len(q) + Len(d) :
               InsertedIn(q, i, d)[j] = IF j <= i THEN q[j]
                                        ELSE IF j <= i + Len(d) THEN d[j - i]
                                        ELSE q[j - Len(d)]
      BY <2>1, InsertedInProperties
    <2> QED BY <1>3, <2>2 DEF q
  <1> HIDE DEF s, k, e, new
  <1>10. ASSUME NEW j \in 1 .. Len(new) PROVE e.m_pBuffer[j - 1] = new[j]
    <2> DEFINE x == j - 1
    <2>0. x \in 0 .. t - 1 /\ x + 1 = j /\ j \in 1 .. t
      BY <1>0, <1>9
    <2> HIDE DEF x
    <2>1. CASE j <= i
      <3>1. /\ ~ x \in i .. i + Len(d) - 1 /\ ~ x \in i + Len(d) .. b.m_iTail + Len(d) - 1
            /\ x \in 0 .. b.m_iTail - 1
        BY <1>0, <2>0, <2>1, SMTT(30)
      <3> QED BY <1>4, <1>7, <1>8, <1>9, <2>0, <2>1, <3>1 DEF x
    <2>2. CASE j > i /\ j <= i + Len(d)
      <3>1. x \in i .. i + Len(d) - 1 /\ x - i + 1 = j - i /\ ~ (j <= i)
        BY <1>0, <2>0, <2>2
      <3> QED BY <1>7, <1>8, <1>9, <2>0, <2>2, <3>1 DEF x
    <2>3. CASE j > i + Len(d)
      <3>0. x \in Int /\ j \in Int /\ x = j - 1 /\ x <= b.m_iTail + Len(d) - 1
        BY <1>0, <2>0, SMTT(30)
      <3>1. /\ ~ x \in i .. i + Len(d) - 1 /\ x \in i + Len(d) .. b.m_iTail + Len(d) - 1
            /\ x - Len(d) \in 0 .. b.m_iTail - 1 /\ x - Len(d) + 1 = j - Len(d)
            /\ ~ (j <= i) /\ ~ (j <= i + Len(d))
        BY <1>0, <2>3, <3>0, SMTT(30)
      <3>2. m.m_pBuffer[x - Len(d)] = Str(b)[j - Len(d)]
        BY <1>4, <3>1
      <3> QED BY <1>7, <1>8, <1>9, <2>0, <3>1, <3>2 DEF x
    <2> QED BY <1>0, <2>0, <2>1, <2>2, <2>3
  <1>11. Str(e) = new
    BY <1>7, <1>9, <1>10, SameStr
  <1>12. Str(MakeString(e)) = new
    BY <1>7, <1>11, MakeStringStr
  <1> QED BY <1>1, <1>12 DEF new, e, k, s

\* Remove closes the gap (buffer.cpp:276).
LEMMA RemovedStr ==
    ASSUME NEW b, Sound(b), NEW i \in Nat, NEW n \in Nat, i + n <= b.m_iTail
    PROVE  /\ Str(Removed(b, i, n)) = RemovedFrom(Str(b), i, n)
           /\ Removed(b, i, n).m_iTail = b.m_iTail - n
  <1> DEFINE new == RemovedFrom(Str(b), i, n)
             c == Removed(b, i, n)
  <1>0. /\ b.m_iTail \in Nat /\ b.m_iBufferSize \in Nat
        /\ n <= b.m_iBufferSize /\ n + i <= b.m_iBufferSize
    BY DEF Sound, Typed
  <1>1. /\ Str(b) \in Seq(Byte) /\ Len(Str(b)) = b.m_iTail
        /\ \A j \in 1 .. b.m_iTail : Str(b)[j] = b.m_pBuffer[j - 1]
    BY StrIsSeq DEF Sound
  <1>2. /\ new \in Seq(Byte) /\ Len(new) = b.m_iTail - n
        /\ \A j \in 1 .. b.m_iTail - n : new[j] = IF j <= i THEN Str(b)[j] ELSE Str(b)[j + n]
    <2> DEFINE q == Str(b)
    <2>1. q \in Seq(Byte)
      BY <1>1
    <2>2. i + n <= Len(q)
      BY <1>1
    <2>3. RemovedFrom(q, i, n) \in Seq(Byte)
      BY <2>1, <2>2, RemovedFromProperties
    <2>4. Len(RemovedFrom(q, i, n)) = Len(q) - n
      BY <2>1, <2>2, RemovedFromProperties
    <2>5. \A j \in 1 .. Len(q) - n :
             RemovedFrom(q, i, n)[j] = IF j <= i THEN q[j] ELSE q[j + n]
      BY <2>1, <2>2, RemovedFromProperties
    <2> QED BY <1>1, <2>3, <2>4, <2>5 DEF q
  <1>3. Sound(c)
    BY RemovedSound
  <1>4. n = 0 => c = b
    <2>1. CASE n = 0
      <3>1. (IF n > b.m_iBufferSize THEN b.m_iBufferSize ELSE n) = 0
        BY <1>0, <2>1
      <3> QED BY <3>1 DEF Removed
    <2> QED BY <2>1
  <1>5. n # 0 => c = Buffer([y \in Room(b) |-> IF y \in i .. b.m_iTail - n - 1
                                              THEN b.m_pBuffer[y + n] ELSE b.m_pBuffer[y]],
                           b.m_iBufferSize, b.m_iTail - n)
    <2>1. CASE n # 0
      <3>1. b.m_iTail # 0 /\ ~ (n > b.m_iBufferSize) /\ ~ (n + i > b.m_iBufferSize)
        BY <1>0, <2>1 DEF Sound, Typed
      <3> QED BY <2>1, <3>1 DEF Removed
    <2> QED BY <2>1
  <1> HIDE DEF c
  <1>6. Typed(c) /\ c.m_iTail = b.m_iTail - n
    BY <1>0, <1>3, <1>4, <1>5 DEF Sound, Buffer
  <1> HIDE DEF new
  <1>7. ASSUME NEW j \in 1 .. b.m_iTail - n PROVE c.m_pBuffer[j - 1] = new[j]
    <2>1. CASE n = 0
      <3>1. c = b
        BY <1>4, <2>1
      <3>2. new[j] = Str(b)[j]
        BY <1>0, <1>2, <2>1
      <3>3. j \in 1 .. b.m_iTail
        BY <1>0, <2>1
      <3> QED BY <1>1, <3>1, <3>2, <3>3
    <2>2. CASE n # 0
      <3>1. c.m_pBuffer = [y \in Room(b) |-> IF y \in i .. b.m_iTail - n - 1
                                             THEN b.m_pBuffer[y + n] ELSE b.m_pBuffer[y]]
        BY <1>5, <2>2 DEF Buffer
      <3>2. j - 1 \in Room(b)
        BY <1>0 DEF Room, Sound, Typed
      <3>3. CASE j <= i
        <4>1. ~ j - 1 \in i .. b.m_iTail - n - 1 /\ j \in 1 .. b.m_iTail
          BY <1>0, <3>3
        <4> QED BY <1>1, <1>2, <3>1, <3>2, <3>3, <4>1
      <3>4. CASE j > i
        <4>1. /\ j - 1 \in i .. b.m_iTail - n - 1 /\ j + n \in 1 .. b.m_iTail
              /\ j - 1 + n = j + n - 1 /\ ~ (j <= i)
          BY <1>0, <3>4
        <4>2. c.m_pBuffer[j - 1] = b.m_pBuffer[j + n - 1]
          BY <3>1, <3>2, <4>1
        <4>3. new[j] = Str(b)[j + n]
          BY <1>2, <4>1
        <4>4. Str(b)[j + n] = b.m_pBuffer[j + n - 1]
          BY <1>1, <4>1
        <4> QED BY <4>2, <4>3, <4>4
      <3> QED BY <3>3, <3>4
    <2> QED BY <2>1, <2>2
  <1>8. Str(c) = new
    BY <1>2, <1>6, <1>7, SameStr
  <1> QED BY <1>6, <1>8 DEF c, new

-----------------------------------------------------------------------------
(* What Find finds. *)

LEMMA LeastProperties ==
    ASSUME NEW S \in SUBSET Nat, S # {}
    PROVE  LeastOf(S) \in S /\ \A y \in S : LeastOf(S) <= y
  <1>1. IsWellFoundedOn(OpToRel(<, Nat), Nat)
    BY NatLessThanWellFounded
  <1>2. PICK x \in S : \A y \in S : ~ (<<y, x>> \in OpToRel(<, Nat))
    BY <1>1, WFMin
  <1>3. ASSUME NEW y \in S, y < x PROVE FALSE
    <2>1. <<y, x>> \in Nat \X Nat /\ <<y, x>>[1] = y /\ <<y, x>>[2] = x
      OBVIOUS
    <2>2. <<y, x>> \in OpToRel(<, Nat)
      BY <1>3, <2>1, Zenon DEF OpToRel
    <2> QED BY <1>2, <2>2
  <1>4. \A y \in S : x <= y
    BY <1>3
  <1> DEFINE c == CHOOSE i \in S : \A j \in S : i <= j
  <1>5. c \in S /\ \A j \in S : c <= j
    BY <1>4
  <1>6. LeastOf(S) = c
    BY DEF LeastOf
  <1> HIDE DEF c
  <1> QED BY <1>5, <1>6

\* Buffer!Text as a function of the content.
TextOf(s) ==
    LET zeros == {i \in 1 .. Len(s) : s[i] = Nul}
    IN IF zeros = {} THEN s ELSE SubSeq(s, 1, LeastOf(zeros) - 1)

\* strlen of a buffer that cstr has ended is the length of the text in it.
LEMMA StrLenIsText ==
    ASSUME NEW b, Sound(b), Exists(b)
    PROVE  LET m == MakeString(b)
           IN /\ StrLen(m) \in 0 .. b.m_iTail /\ TextOf(Str(b)) \in Seq(Byte)
              /\ Len(TextOf(Str(b))) = StrLen(m)
              /\ \A j \in 1 .. StrLen(m) : /\ TextOf(Str(b))[j] = m.m_pBuffer[j - 1]
                                           /\ j - 1 \in Room(m)
  <1> DEFINE m == MakeString(b)
             s == Str(b)
             zeros == {i \in 1 .. Len(s) : s[i] = Nul}
  <1>1. Typed(m) /\ m.m_iBufferSize = b.m_iBufferSize /\ m.m_iTail = b.m_iTail
    BY MakeStringTyped DEF Sound, SameShape
  <1>2. /\ s \in Seq(Byte) /\ Len(s) = b.m_iTail
        /\ \A i \in 1 .. b.m_iTail : s[i] \in Byte
    BY StrIsSeq, ElementOfSeq DEF Sound
  <1>3. /\ b.m_iTail \in Nat /\ m.m_iBufferSize \in Nat /\ b.m_iTail < m.m_iBufferSize
        /\ b.m_iTail \in Room(b)
    BY <1>1 DEF Sound, Typed, Room
  <1>4. \A i \in 1 .. b.m_iTail : m.m_pBuffer[i - 1] = s[i] /\ i - 1 \in Room(m)
    <2>1. Str(m) = s
      BY MakeStringStr DEF Sound
    <2> HIDE DEF m, s
    <2>2. \A i \in 1 .. b.m_iTail : m.m_pBuffer[i - 1] = s[i]
      BY <1>1, <2>1, StrIsSeq
    <2> QED BY <1>3, <2>2 DEF Room
  <1>5. m.m_pBuffer[b.m_iTail] = Nul
    BY <1>3, MakeStringBytes
  <1> HIDE DEF m
  <1>6. CASE zeros = {}
    <2>1. \A i \in 0 .. b.m_iTail - 1 : m.m_pBuffer[i] # Nul
      <3>1. ASSUME NEW i \in 0 .. b.m_iTail - 1 PROVE m.m_pBuffer[i] # Nul
        <4>1. i + 1 \in 1 .. b.m_iTail /\ i + 1 - 1 = i
          BY <1>3
        <4>2. s[i + 1] # Nul
          BY <1>2, <1>6, <4>1
        <4>3. m.m_pBuffer[i + 1 - 1] = s[i + 1]
          BY <1>4, <4>1
        <4> QED BY <4>1, <4>2, <4>3
      <3> QED BY <3>1
    <2>2. b.m_iTail \in Room(m)
      BY <1>3 DEF Room
    <2>3. StrLen(m) = b.m_iTail
      BY <1>3, <1>5, <2>1, <2>2, StrLenAtEnd
    <2>4. TextOf(s) = s
      BY <1>6 DEF TextOf
    <2> HIDE DEF s
    <2> QED BY <1>2, <1>3, <1>4, <2>3, <2>4 DEF m, s
  <1>7. CASE zeros # {}
    <2> DEFINE z == LeastOf(zeros)
    <2>1. z \in zeros /\ \A y \in zeros : z <= y
      <3>1. zeros \in SUBSET Nat
        BY <1>2
      <3> HIDE DEF zeros
      <3> QED BY <1>7, <3>1, LeastProperties
    <2>2. TextOf(s) = SubSeq(s, 1, z - 1)
      BY <1>7 DEF TextOf
    <2> HIDE DEF z
    <2>3. z \in 1 .. b.m_iTail /\ s[z] = Nul /\ \A y \in 1 .. z - 1 : s[y] # Nul
      BY <1>2, <1>3, <2>1
    <2>4. \A i \in 0 .. z - 1 - 1 : m.m_pBuffer[i] # Nul
      <3>1. ASSUME NEW i \in 0 .. z - 1 - 1 PROVE m.m_pBuffer[i] # Nul
        <4>1. i + 1 \in 1 .. b.m_iTail /\ i + 1 - 1 = i /\ i + 1 \in 1 .. z - 1
          BY <1>3, <2>3
        <4>2. m.m_pBuffer[i + 1 - 1] = s[i + 1] /\ s[i + 1] # Nul
          BY <1>4, <2>3, <4>1
        <4> QED BY <4>1, <4>2
      <3> QED BY <3>1
    <2>5. z - 1 \in Room(m) /\ m.m_pBuffer[z - 1] = Nul
      BY <1>4, <2>3
    <2>6. StrLen(m) = z - 1
      <3> DEFINE k == z - 1
      <3>1. /\ k \in Room(m) /\ m.m_pBuffer[k] = Nul
            /\ \A i \in 0 .. k - 1 : m.m_pBuffer[i] # Nul
        BY <2>4, <2>5
      <3> HIDE DEF k
      <3>2. StrLen(m) = k
        BY <1>3, <3>1, StrLenAtEnd
      <3> QED BY <3>2 DEF k
    <2> HIDE DEF s
    <2>7. /\ TextOf(s) \in Seq(Byte) /\ Len(TextOf(s)) = z - 1
          /\ \A j \in 1 .. z - 1 : TextOf(s)[j] = s[j]
      BY <1>2, <1>3, <2>2, <2>3, SubSeqProperties
    <2>8. \A j \in 1 .. z - 1 : j \in 1 .. b.m_iTail
      BY <1>3, <2>3
    <2> QED BY <1>3, <1>4, <2>3, <2>6, <2>7, <2>8 DEF m, s
  <1> QED BY <1>6, <1>7

\* A place where the text of the block has the pattern is one where the byte string has it.
LEMMA StandsWhereOccurs ==
    ASSUME NEW b, Sound(b), Exists(b), NEW p \in Seq(Byte)
    PROVE  {i \in 0 .. StrLen(MakeString(b)) - Len(p) : Stands(MakeString(b), p, i)}
             = Bytes!Occurrences(TextOf(Str(b)), p)
  <1> DEFINE m == MakeString(b)
             t == TextOf(Str(b))
             L == StrLen(m)
  <1>1. /\ L \in Nat /\ t \in Seq(Byte) /\ Len(t) = L
        /\ \A j \in 1 .. L : t[j] = m.m_pBuffer[j - 1] /\ j - 1 \in Room(m)
    <2>1. b.m_iTail \in Nat
      BY DEF Sound, Typed
    <2> QED BY <2>1, StrLenIsText
  <1>2. Len(p) \in Nat
    OBVIOUS
  <1> HIDE DEF m, t, L
  <1>3. ASSUME NEW i \in Nat, i + Len(p) <= L
        PROVE  Stands(m, p, i) <=> SubSeq(t, i + 1, i + Len(p)) = p
    <2> DEFINE u == SubSeq(t, i + 1, i + Len(p))
    <2>1. u \in Seq(Byte) /\ Len(u) = Len(p) /\ \A j \in 1 .. Len(p) : u[j] = t[i + j]
      BY <1>1, <1>2, <1>3, PieceProperties
    <2> HIDE DEF u
    <2>2. ASSUME NEW j \in 1 .. Len(p) PROVE At(m, i + j - 1) = u[j]
      <3>1. i + j \in 1 .. L
        BY <1>1, <1>2, <1>3
      <3>2. i + j - 1 \in Room(m) /\ t[i + j] = m.m_pBuffer[i + j - 1]
        BY <1>1, <3>1
      <3> QED BY <2>1, <3>2 DEF At
    <2>3. Stands(m, p, i) <=> \A j \in 1 .. Len(p) : u[j] = p[j]
      BY <2>2 DEF Stands
    <2>4. (\A j \in 1 .. Len(p) : u[j] = p[j]) <=> u = p
      BY <2>1, SeqEqual
    <2> QED BY <2>3, <2>4 DEF u
  <1>4. ASSUME NEW i
        PROVE  i \in 0 .. L - Len(p) /\ Stands(m, p, i)
                 <=> i \in 0 .. Len(t) /\ Bytes!OccursAt(t, p, i)
    <2>1. i \in 0 .. L - Len(p) <=> i \in 0 .. Len(t) /\ i + Len(p) <= Len(t)
      BY <1>1, <1>2
    <2>2. i \in 0 .. L - Len(p) => i \in Nat /\ i + Len(p) <= L
      BY <1>1, <1>2
    <2>3. i \in 0 .. L - Len(p) => (Stands(m, p, i) <=> SubSeq(t, i + 1, i + Len(p)) = p)
      BY <1>3, <2>2
    <2> QED BY <2>1, <2>3 DEF Bytes!OccursAt
  <1>5. {i \in 0 .. L - Len(p) : Stands(m, p, i)} = {i \in 0 .. Len(t) : Bytes!OccursAt(t, p, i)}
    BY <1>4
  <1> QED BY <1>5 DEF Bytes!Occurrences, m, t, L

LEMMA FirstIsLeast == \A s, p : Bytes!First(s, p) = LeastOf(Bytes!Occurrences(s, p))
  BY DEF Bytes!First, LeastOf

\* Find finds the first place of a pattern in the text of any sound buffer.
LEMMA FindIsFirst ==
    ASSUME NEW b, Sound(b), NEW p \in Seq(Byte), p # <<>>
    PROVE  Find(b, p) = Bytes!First(TextOf(Str(b)), p)
  <1>1. CASE b.m_iTail = 0
    <2>1. Str(b) \in Seq(Byte) /\ Len(Str(b)) = 0
      BY <1>1, StrIsSeq DEF Sound
    <2>2. TextOf(Str(b)) = Str(b)
      BY <2>1 DEF TextOf
    <2>3. Len(p) \in Nat /\ Len(p) # 0
      BY EmptySeq
    <2>4. Bytes!Occurrences(TextOf(Str(b)), p) = {}
      BY <2>1, <2>2, <2>3 DEF Bytes!Occurrences, Bytes!OccursAt
    <2> QED BY <1>1, <2>4 DEF Find, Bytes!First
  <1>2. CASE b.m_iTail # 0
    <2>1. Exists(b)
      BY <1>2 DEF Sound, Typed, Exists
    <2>2. Find(b, p) = LeastOf({i \in 0 .. StrLen(MakeString(b)) - Len(p) :
                                  Stands(MakeString(b), p, i)})
      BY <1>2 DEF Find
    <2> QED BY <2>1, <2>2, StandsWhereOccurs, FirstIsLeast
  <1> QED BY <1>1, <1>2

-----------------------------------------------------------------------------
(* The byte string of the operations that set it anew. *)

LEMMA ReceivedStr ==
    ASSUME Sound(buffer), NEW d \in Seq(Byte), Len(d) <= MaxDatagram, ReceiveDatagram(d)
    PROVE  Str(buffer') = d
  <1>0. Len(d) \in Nat /\ MaxDatagram \in Nat
    BY BufferAssumption
  <1>1. PICK room \in SetBufferSize(buffer, MaxDatagram) :
            \E b \in SetBufferSize(Copied(room, 0, d), Len(d)) : buffer' = Ending(b, Len(d))
    BY DEF ReceiveDatagram
  <1>2. Typed(room) /\ room.m_iBufferSize > MaxDatagram
    BY <1>0, SetBufferSizeTyped DEF Sound
  <1> DEFINE k == Copied(room, 0, d)
  <1>3. Typed(k) /\ k.m_iBufferSize = room.m_iBufferSize
    BY <1>2, CopiedTyped DEF SameShape
  <1>4. k.m_pBuffer = [i \in Room(room) |->
             IF i \in 0 .. 0 + Len(d) - 1 THEN d[i - 0 + 1] ELSE room.m_pBuffer[i]]
    BY DEF Copied, Holding, Buffer
  <1>5. PICK b \in SetBufferSize(k, Len(d)) : buffer' = Ending(b, Len(d))
    BY <1>1
  <1> HIDE DEF k
  <1>6. Typed(b) /\ b.m_iBufferSize > Len(d) /\ \A i \in Room(k) : b.m_pBuffer[i] = k.m_pBuffer[i]
    BY <1>0, <1>3, SetBufferSizeTyped, SetBufferSizeBytes
  <1> DEFINE e == Ending(b, Len(d))
  <1>7. Typed(e) /\ e.m_iTail = Len(d) /\ e.m_pBuffer = b.m_pBuffer
    <2>1. Len(d) \in 0 .. b.m_iBufferSize
      BY <1>0, <1>6 DEF Typed
    <2> QED BY <1>6, <2>1, EndingTyped, EndingBytes
  <1> HIDE DEF e
  <1>8. ASSUME NEW i \in 1 .. Len(d) PROVE e.m_pBuffer[i - 1] = d[i]
    <2>1. /\ i - 1 \in Room(room) /\ i - 1 \in Room(k)
          /\ i - 1 \in 0 .. 0 + Len(d) - 1 /\ i - 1 - 0 + 1 = i
      BY <1>0, <1>2, <1>3 DEF Room, Typed
    <2>2. b.m_pBuffer[i - 1] = k.m_pBuffer[i - 1]
      BY <1>6, <2>1
    <2>3. k.m_pBuffer[i - 1] = d[i - 1 - 0 + 1]
      BY <1>4, <2>1
    <2> QED BY <1>7, <2>1, <2>2, <2>3
  <1>9. Str(e) = d
    BY <1>7, <1>8, SameStr
  <1> QED BY <1>5, <1>9 DEF e

LEMMA SprintfStr ==
    ASSUME Sound(buffer), NEW n \in Nat, NEW text \in Seq(Byte \ {Nul}), Sprintf(n, text)
    PROVE  Str(buffer') = text
  <1>0. Len(text) \in Nat /\ text \in Seq(Byte)
    <2>1. \A i \in 1 .. Len(text) : text[i] \in Byte
      BY ElementOfSeq
    <2> QED BY <2>1
  <1>1. PICK m : /\ Typed(m) /\ m.m_iBufferSize > Len(text)
                 /\ buffer' = MakeString(Ending(MakeString(
                                 Ending(Copied(m, 0, text), Len(text))), Len(text)))
    BY SprintfSound
  <1> DEFINE e == Ending(Copied(m, 0, text), Len(text))
             b == MakeString(e)
             c == Ending(b, Len(text))
  <1>2. Typed(e) /\ Str(b) = text
    <2>1. <<>> \in Seq(Byte) /\ Len(<<>>) = 0 /\ 0 + Len(text) = Len(text) /\ <<>> \o text = text
      BY <1>0, ConcatEmptySeq
    <2>2. 0 + Len(text) <= m.m_iBufferSize
      BY <1>0, <1>1 DEF Typed
    <2> DEFINE f == Ending(Copied(m, 0, text), 0 + Len(text))
    <2>3. Typed(f) /\ Str(MakeString(f)) = <<>> \o text
      <3>1. PICK at \in Nat, s \in Seq(Byte) : at = 0 /\ s = <<>>
        BY <2>1
      <3>2. /\ at + Len(text) <= m.m_iBufferSize /\ Len(s) = at
            /\ \A i \in 1 .. at : m.m_pBuffer[i - 1] = s[i]
        BY <2>1, <2>2, <3>1
      <3> DEFINE g == Ending(Copied(m, at, text), at + Len(text))
      <3>3. Typed(g) /\ Str(MakeString(g)) = s \o text
        BY <1>0, <1>1, <3>2, WrittenStr
      <3> QED BY <3>1, <3>3
    <2>4. f = e
      BY <2>1
    <2> HIDE DEF f, e
    <2> QED BY <2>1, <2>3, <2>4
  <1>3. e.m_iTail = Len(text)
    BY DEF Ending, Buffer
  <1> HIDE DEF e
  <1>4. Typed(b) /\ b.m_iTail = Len(text)
    BY <1>2, <1>3, MakeStringTyped DEF SameShape
  <1> HIDE DEF b
  <1>5. Typed(c) /\ c.m_iTail = b.m_iTail /\ c.m_pBuffer = b.m_pBuffer
    <2>1. Len(text) \in 0 .. b.m_iBufferSize
      BY <1>4 DEF Typed
    <2> QED BY <1>4, <2>1, EndingTyped, EndingBytes
  <1>6. Str(c) = text
    BY <1>2, <1>5 DEF Str
  <1> HIDE DEF c
  <1>7. Str(MakeString(c)) = text
    BY <1>5, <1>6, MakeStringStr
  <1> QED BY <1>1, <1>7 DEF c, b, e

LEMMA EmptyStr == ASSUME NEW b, b.m_iTail = 0 PROVE Str(b) = <<>>
  <1>1. Str(b) \in [1 .. 0 -> Byte]
    BY DEF Str
  <1> QED BY <1>1

\* Replace edits the byte string at a place where it has the pattern (buffer.cpp:296).
LEMMA ReplacedStr ==
    ASSUME Sound(buffer), NEW p \in Seq(Byte), NEW w \in Seq(Byte), Replace(p, w)
    PROVE  \E i \in Bytes!Occurrences(Str(buffer), p) :
              Str(buffer') = SubSeq(Str(buffer), 1, i) \o w
                               \o SubSeq(Str(buffer), i + Len(p) + 1, Len(Str(buffer)))
  <1> DEFINE m == MakeString(buffer)
             s == Str(buffer)
             t == TextOf(s)
  <1>0. Len(p) \in Nat /\ buffer.m_iTail \in Nat
    BY DEF Sound, Typed
  <1>1. PICK i \in 0 .. buffer.m_iTail - Len(p) :
            /\ Find(buffer, p) = i
            /\ buffer' \in Inserted(Removed(m, i, Len(p)), i, w)
    BY DEF Replace
  <1>2. /\ s \in Seq(Byte) /\ Len(s) = buffer.m_iTail
        /\ \A j \in 1 .. buffer.m_iTail : s[j] = buffer.m_pBuffer[j - 1] /\ s[j] \in Byte
    BY StrIsSeq, ElementOfSeq DEF Sound
  <1>3. buffer.m_iTail # 0 /\ Exists(buffer)
    BY <1>0, <1>1 DEF Find, Sound, Typed, Exists
  <1>4. i \in Bytes!Occurrences(t, p)
    <2> DEFINE S == {x \in 0 .. StrLen(m) - Len(p) : Stands(m, p, x)}
    <2>1. LeastOf(S) = i
      BY <1>1, <1>3 DEF Find
    <2>2. StrLen(m) \in Nat
      BY <1>0, <1>3, StrLenIsText
    <2>3. S \in SUBSET Nat
      BY <1>0, <2>2
    <2>4. S = Bytes!Occurrences(t, p)
      BY <1>3, StandsWhereOccurs
    <2> HIDE DEF S
    <2>5. S # {}
      BY <1>0, <1>1, <2>1 DEF LeastOf
    <2> QED BY <2>1, <2>3, <2>4, <2>5, LeastProperties
  <1>5. /\ t \in Seq(Byte) /\ Len(t) \in 0 .. buffer.m_iTail
        /\ \A j \in 1 .. Len(t) : t[j] = s[j]
    <2>1. /\ StrLen(m) \in 0 .. buffer.m_iTail /\ t \in Seq(Byte) /\ Len(t) = StrLen(m)
          /\ \A j \in 1 .. StrLen(m) : t[j] = m.m_pBuffer[j - 1] /\ j - 1 \in Room(m)
      BY <1>3, StrLenIsText
    <2>2. ASSUME NEW j \in 1 .. Len(t) PROVE t[j] = s[j]
      <3>1. j \in 1 .. StrLen(m) /\ j \in 1 .. buffer.m_iTail
        BY <1>0, <2>1
      <3>2. j - 1 \in Room(buffer) /\ j - 1 # buffer.m_iTail
        BY <1>0, <3>1 DEF Room, Sound, Typed
      <3>3. m.m_pBuffer[j - 1] = buffer.m_pBuffer[j - 1]
        BY <3>2, MakeStringBytes
      <3>4. t[j] = m.m_pBuffer[j - 1]
        BY <2>1, <3>1
      <3>5. s[j] = buffer.m_pBuffer[j - 1]
        BY <1>2, <3>1
      <3> QED BY <3>3, <3>4, <3>5
    <2> QED BY <2>1, <2>2
  <1>6. Sound(m) /\ m.m_iTail = buffer.m_iTail /\ Str(m) = s
    BY MakeStringTyped, MakeStringStr DEF Sound, SameShape, Exists
  <1> HIDE DEF m, s, t
  <1>7. i \in Bytes!Occurrences(s, p)
    <2>1. i \in Nat /\ i + Len(p) <= Len(t) /\ SubSeq(t, i + 1, i + Len(p)) = p
      BY <1>0, <1>4, <1>5 DEF Bytes!Occurrences, Bytes!OccursAt
    <2>2. i + Len(p) <= Len(s) /\ i \in 0 .. Len(s)
      BY <1>0, <1>2, <1>5, <2>1
    <2>3. SubSeq(s, i + 1, i + Len(p)) = SubSeq(t, i + 1, i + Len(p))
      BY <1>0, <1>2, <1>5, <2>1, <2>2, SameSubSeq
    <2> QED BY <2>1, <2>2, <2>3 DEF Bytes!Occurrences, Bytes!OccursAt
  <1>8. Str(buffer') = SubSeq(s, 1, i) \o w \o SubSeq(s, i + Len(p) + 1, Len(s))
    <2> DEFINE c == Removed(m, i, Len(p))
    <2>1. i \in Nat /\ i + Len(p) <= m.m_iTail /\ i + Len(p) <= Len(s)
      BY <1>0, <1>1, <1>2, <1>6
    <2>2. Sound(c) /\ Str(c) = RemovedFrom(s, i, Len(p))
      BY <1>0, <1>6, <2>1, RemovedSound, RemovedStr
    <2>3. c.m_iTail = m.m_iTail - Len(p)
      BY <1>0, <1>6, <2>1, RemovedStr
    <2> HIDE DEF c
    <2>4. c.m_iTail = Len(s) - Len(p)
      BY <1>2, <1>6, <2>3
    <2>5. i \in 0 .. c.m_iTail
      BY <1>0, <1>2, <2>1, <2>4
    <2>6. Str(buffer') = InsertedIn(Str(c), i, w)
      BY <1>1, <2>2, <2>5, InsertedStr DEF c
    <2> DEFINE n == Len(p)
    <2>7. n \in Nat /\ i + n <= Len(s) /\ s \in Seq(Byte) /\ i \in Nat
      BY <1>0, <1>2, <2>1
    <2> HIDE DEF n
    <2>8. InsertedIn(RemovedFrom(s, i, n), i, w) =
            SubSeq(s, 1, i) \o w \o SubSeq(s, i + n + 1, Len(s))
      BY <2>7, InsertedWhereRemoved
    <2> QED BY <2>2, <2>6, <2>8 DEF n
  <1> QED BY <1>7, <1>8 DEF s

-----------------------------------------------------------------------------
\* What a search of any buffer of the specification finds is the first place of the
\* pattern in the text the content begins with, whatever the block holds behind the
\* content (buffer.cpp:424).
THEOREM FindsFirst == BufferSpec => []FindExact
  <1>1. IInv => FindExact
    <2> SUFFICES ASSUME Sound(buffer), NEW p \in Patterns, p # <<>>
                 PROVE  Find(buffer, p) = Bytes!First(Text, p)
      BY DEF IInv, FindExact
    <2>1. p \in Seq(Byte)
      BY Strings
    <2>2. Len(Str(buffer)) = buffer.m_iTail
      BY StrIsSeq DEF Sound
    <2>3. Text = TextOf(Str(buffer))
      BY <2>2 DEF Text, Content, Str, TextOf
    <2> QED BY <2>1, <2>3, FindIsFirst
  <1> QED BY <1>1, SoundInvariant, PTL

LEMMA ContentIsStr == Content = Str(buffer) /\ Content' = Str(buffer')
  BY DEF Content, Str

\* Every step of a buffer is one of its byte string, or leaves it as it is.
LEMMA StepOfBytes ==
    ASSUME IInv, [BufferNext]_buffer
    PROVE  [Bytes!Next]_Content
  <1>0. /\ Sound(buffer) /\ buffer.m_iTail \in Nat
        /\ Content = Str(buffer) /\ Content' = Str(buffer')
        /\ Content \in Seq(Byte) /\ Len(Content) = buffer.m_iTail
    BY ContentIsStr, StrIsSeq DEF IInv, Sound, Typed
  <1>1. ASSUME NEW d \in Data, AppendData(d) PROVE Bytes!Next
    <2>1. Content' = Content \o d
      BY <1>0, <1>1, Strings, AppendedStr DEF AppendData
    <2> QED BY <2>1, Zenon DEF Bytes!Next, Bytes!AppendData
  <1>2. ASSUME NEW d \in Data, ReplaceWith(d) PROVE Bytes!Next
    <2> DEFINE e == Emptied(buffer)
    <2>1. Sound(e) /\ e.m_iTail = 0
      BY <1>0, EndingTyped DEF Sound, Typed, Emptied, Ending, Buffer, Room, Exists
    <2>2. buffer' \in Appended(e, d) /\ d \in Seq(Byte)
      BY <1>2, Strings DEF ReplaceWith, ReplacedWith
    <2> HIDE DEF e
    <2>3. Str(e) = <<>> /\ <<>> \o d = d
      BY <2>1, <2>2, EmptyStr, ConcatEmptySeq
    <2>4. Content' = d
      BY <1>0, <2>1, <2>2, <2>3, AppendedStr
    <2> QED BY <2>4, Zenon DEF Bytes!Next, Bytes!Assign
  <1>3. ASSUME NEW d \in Data, NEW i \in 0 .. buffer.m_iTail, Insert(i, d) PROVE Bytes!Next
    <2>1. i \in 0 .. Len(Content) /\ i <= Len(Content)
      BY <1>0
    <2>2. Content' = InsertedIn(Content, i, d)
      BY <1>0, <1>3, Strings, InsertedStr DEF Insert
    <2>3. Bytes!Insert(i, d)
      BY <2>1, <2>2 DEF Bytes!Insert, InsertedIn
    <2> QED BY <2>1, <2>3, Zenon DEF Bytes!Next
  <1>4. ASSUME NEW i \in 0 .. buffer.m_iTail, NEW n \in 0 .. buffer.m_iTail, Remove(i, n)
        PROVE  Bytes!Next
    <2>1. /\ i \in 0 .. Len(Content) /\ n \in 0 .. Len(Content) /\ i + n <= Len(Content)
          /\ i \in Nat /\ n \in Nat
      BY <1>0, <1>4 DEF Remove
    <2>2. Content' = RemovedFrom(Content, i, n)
      BY <1>0, <1>4, <2>1, RemovedStr DEF Remove
    <2>3. Bytes!Remove(i, n)
      BY <2>1, <2>2 DEF Bytes!Remove, RemovedFrom
    <2> QED BY <2>1, <2>3, Zenon DEF Bytes!Next
  <1>5. ASSUME NEW p \in Patterns, NEW w \in Data, Replace(p, w) PROVE Bytes!Next
    <2>1. PICK i \in Bytes!Occurrences(Str(buffer), p) :
              Str(buffer') = SubSeq(Str(buffer), 1, i) \o w
                               \o SubSeq(Str(buffer), i + Len(p) + 1, Len(Str(buffer)))
      BY <1>0, <1>5, Strings, ReplacedStr
    <2>2. Bytes!Replace(p, w)
      BY <1>0, <2>1 DEF Bytes!Replace
    <2> QED BY <2>2, Zenon DEF Bytes!Next
  <1>6. ASSUME NEW d \in Data, Len(d) \in 1 .. MaxDatagram, ReceiveDatagram(d)
        PROVE  Bytes!Next
    <2>1. Len(d) <= MaxDatagram
      BY <1>6, BufferAssumption
    <2>2. Content' = d
      BY <1>0, <1>6, <2>1, Strings, ReceivedStr
    <2> QED BY <2>2, Zenon DEF Bytes!Next, Bytes!Assign
  <1>7. ASSUME NEW text \in Texts, Sprintf(MaxCount, text) PROVE Bytes!Next
    <2>1. text \in Data /\ text \in Seq(Byte \ {Nul}) /\ MaxCount \in Nat
      BY BufferAssumption DEF Texts
    <2>2. Content' = text
      BY <1>0, <1>7, <2>1, SprintfStr
    <2> QED BY <2>1, <2>2, Zenon DEF Bytes!Next, Bytes!Assign
  <1>8. ASSUME buffer'.m_iTail = 0 PROVE Bytes!Next
    <2>1. Content' = <<>>
      BY <1>0, <1>8, EmptyStr
    <2> QED BY <2>1, Zenon DEF Bytes!Next, Bytes!Assign
  <1>9. CASE Clear
    BY <1>8, <1>9 DEF Clear, Emptied, Ending, Buffer
  <1>10. CASE Flush
    BY <1>8, <1>10 DEF Flush, NoBuffer, Buffer
  <1>11. CASE UNCHANGED buffer
    BY <1>11 DEF Content
  <1> QED BY <1>1, <1>2, <1>3, <1>4, <1>5, <1>6, <1>7, <1>9, <1>10, <1>11, Zenon DEF BufferNext

\* Whatever a buffer reallocates, moves or terminates, its content is the byte string that
\* the operations describe: cBuffer implements ByteString (buffer.cpp:291).
THEOREM ImplementsByteString == BufferSpec => IsByteString
  <1>1. BufferInit => Bytes!Init
    <2> SUFFICES ASSUME BufferInit PROVE Content = <<>>
      BY DEF Bytes!Init
    <2>1. buffer.m_iTail = 0
      BY DEF BufferInit, NoBuffer, Buffer
    <2> QED BY <2>1, EmptyStr, ContentIsStr
  <1>2. IInv /\ [BufferNext]_buffer => [Bytes!Next]_Content
    BY StepOfBytes
  <1>3. BufferSpec => Bytes!Spec
    BY <1>1, <1>2, SoundInvariant, PTL DEF BufferSpec, Bytes!Spec
  <1> QED BY <1>3 DEF IsByteString
=============================================================================
