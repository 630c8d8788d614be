--------------------------- MODULE ConnectionsProofs ---------------------------
(***************************************************************************)
(* Proofs about Connections.                                               *)
(***************************************************************************)
EXTENDS Connections, SequenceTheorems, WellFoundedInduction, FiniteSetTheorems, TLAPS

-----------------------------------------------------------------------------
\* Numbers and sequences

\* Min of a set of numbers is its least member.
LEMMA MinProperties ==
    ASSUME NEW S \in SUBSET Nat, S # {}
    PROVE  /\ Min(S) \in S
           /\ \A y \in S : Min(S) <= y
<1>1. IsWellFoundedOn(OpToRel(<, Nat), Nat)
  BY NatLessThanWellFounded
<1>2. PICK x \in S : \A y \in S : ~(<<y, x>> \in OpToRel(<, Nat))
  BY <1>1, WFMin
<1>3. ASSUME NEW y \in S, y < x
      PROVE  FALSE
  <2>1. <<y, x>> \in Nat \X Nat /\ <<y, x>>[1] = y /\ <<y, x>>[2] = x
    OBVIOUS
  <2>2. <<y, x>> \in OpToRel(<, Nat)
    BY <1>3, <2>1, Zenon DEF OpToRel
  <2>3. QED
    BY <1>2, <2>2
<1>4. \A y \in S : x <= y
  BY <1>3
<1>5. QED
  BY <1>4 DEF Min

\* Max of a bounded set of numbers is its greatest member.
LEMMA MaxProperties ==
    ASSUME NEW n \in Nat, NEW S \in SUBSET (0 .. n), S # {}
    PROVE  /\ Max(S) \in S
           /\ \A y \in S : y <= Max(S)
<1> DEFINE T == {n - x : x \in S}
<1>1. T \in SUBSET Nat /\ T # {}
  <2>1. \A x \in S : n - x \in Nat
    OBVIOUS
  <2>2. QED
    BY <2>1
<1>2. Min(T) \in T /\ \A y \in T : Min(T) <= y
  BY <1>1, MinProperties
<1>3. PICK x \in S : Min(T) = n - x
  BY <1>2
<1>4. \A y \in S : y <= x
  BY <1>2, <1>3
<1>5. QED
  BY <1>4 DEF Max

\* What RemoveAt leaves.
LEMMA RemoveAtProperties ==
    ASSUME NEW S, NEW s \in Seq(S), NEW i \in 1 .. Len(s)
    PROVE  /\ RemoveAt(s, i) \in Seq(S)
           /\ Len(RemoveAt(s, i)) = Len(s) - 1
           /\ \A j \in 1 .. Len(s) - 1 :
                RemoveAt(s, i)[j] = IF j < i THEN s[j] ELSE s[j + 1]
<1> DEFINE a == SubSeq(s, 1, i - 1)
           b == SubSeq(s, i + 1, Len(s))
<1>1. Len(s) \in Nat /\ \A j \in 1 .. Len(s) : s[j] \in S
  BY ElementOfSeq
<1>2. /\ a \in Seq(S)
      /\ Len(a) = i - 1
      /\ \A j \in 1 .. i - 1 : a[j] = s[j]
  <2>1. \A j \in 1 .. i - 1 : s[j] \in S
    BY <1>1
  <2>2. QED
    BY <1>1, <2>1, SubSeqProperties
<1>3. /\ b \in Seq(S)
      /\ Len(b) = Len(s) - i
      /\ \A j \in 1 .. Len(s) - i : b[j] = s[j + i]
  <2>1. \A j \in i + 1 .. Len(s) : s[j] \in S
    BY <1>1
  <2>2. /\ b \in Seq(S)
        /\ Len(b) = IF i + 1 <= Len(s) THEN Len(s) - (i + 1) + 1 ELSE 0
        /\ \A j \in 1 .. Len(s) - (i + 1) + 1 : b[j] = s[i + 1 + j - 1]
    BY <1>1, <2>1, SubSeqProperties
  <2>3. QED
    BY <1>1, <2>2
<1>4. RemoveAt(s, i) = a \o b
  BY DEF RemoveAt
<1> HIDE DEF a, b
<1>5. /\ a \o b \in Seq(S)
      /\ Len(a \o b) = Len(a) + Len(b)
      /\ \A j \in 1 .. Len(a) + Len(b) : (a \o b)[j] = IF j <= Len(a) THEN a[j] ELSE b[j - Len(a)]
  BY <1>2, <1>3, ConcatProperties
<1>6. QED
  BY <1>1, <1>2, <1>3, <1>4, <1>5

\* The elements of a sequence.
LEMMA InRange ==
    ASSUME NEW S, NEW s \in Seq(S)
    PROVE  \A x : x \in Range(s) <=> \E i \in 1 .. Len(s) : s[i] = x
<1>1. DOMAIN s = 1 .. Len(s)
  BY LenProperties
<1>2. QED
  BY <1>1 DEF Range

LEMMA RangeOfRemoveAt ==
    ASSUME NEW S, NEW s \in Seq(S), NEW i \in 1 .. Len(s)
    PROVE  /\ \A x : x # s[i] => (x \in Range(RemoveAt(s, i)) <=> x \in Range(s))
           /\ IsInjective(s) => /\ IsInjective(RemoveAt(s, i))
                                /\ s[i] \notin Range(RemoveAt(s, i))
<1> DEFINE r == RemoveAt(s, i)
<1>1. /\ r \in Seq(S) /\ Len(r) = Len(s) - 1 /\ Len(s) \in Nat
      /\ \A j \in 1 .. Len(s) - 1 : r[j] = IF j < i THEN s[j] ELSE s[j + 1]
  BY RemoveAtProperties
<1>2. DOMAIN r = 1 .. Len(s) - 1 /\ DOMAIN s = 1 .. Len(s)
  BY <1>1, LenProperties
<1> HIDE DEF r
<1>3. ASSUME NEW x, x # s[i]
      PROVE  x \in Range(r) <=> x \in Range(s)
  <2>1. ASSUME NEW j \in 1 .. Len(s), s[j] = x
        PROVE  \E k \in 1 .. Len(s) - 1 : r[k] = x
    <3>1. CASE j < i
      BY <1>1, <2>1, <3>1
    <3>2. CASE j > i
      <4>1. j - 1 \in 1 .. Len(s) - 1 /\ r[j - 1] = s[j]
        BY <1>1, <3>2
      <4>2. QED
        BY <2>1, <4>1
    <3>3. QED
      BY <1>1, <1>3, <2>1, <3>1, <3>2
  <2>2. ASSUME NEW k \in 1 .. Len(s) - 1
        PROVE  \E j \in 1 .. Len(s) : s[j] = r[k]
    BY <1>1
  <2>3. QED
    BY <1>2, <2>1, <2>2 DEF Range
<1>4. ASSUME IsInjective(s)
      PROVE  IsInjective(r) /\ s[i] \notin Range(r)
  <2>1. \A a, b \in 1 .. Len(s) : s[a] = s[b] => a = b
    BY <1>2, <1>4 DEF IsInjective
  <2>2. \A a, b \in 1 .. Len(s) - 1 : r[a] = r[b] => a = b
    BY <1>1, <2>1
  <2>3. \A k \in 1 .. Len(s) - 1 : r[k] # s[i]
    BY <1>1, <2>1
  <2>4. QED
    BY <1>2, <2>2, <2>3 DEF IsInjective, Range
<1>5. QED
  BY <1>3, <1>4 DEF r

-----------------------------------------------------------------------------
\* Records and tokens

LEMMA FreeRecordType == \A S : FreeRecord \in
    [State : {"FREE", "WAITING"}, pendingwrite : BOOLEAN, listed : BOOLEAN,
     old : BOOLEAN, buffer : Seq(S)]
BY DEF FreeRecord

\* Setting a field of a record to a value of its type.
LEMMA SetRecord ==
    ASSUME NEW r \in Records
    PROVE  /\ \A v \in BOOLEAN : [r EXCEPT !.pendingwrite = v] \in Records
           /\ \A v \in BOOLEAN : [r EXCEPT !.old = v] \in Records
           /\ \A v \in Seq(Tokens) : [r EXCEPT !.buffer = v] \in Records
BY DEF Records

LEMMA FreedRecordType ==
    ASSUME NEW r \in Records
    PROVE  [FreeRecord EXCEPT !.buffer = r.buffer] \in Records
<1>1. r.buffer \in Seq(Tokens)
  BY DEF Records
<1>2. FreeRecord \in Records
  BY FreeRecordType DEF Records
<1>3. QED
  BY <1>1, <1>2, SetRecord

LEMMA TokenParts ==
    ASSUME NEW t \in Tokens
    PROVE  /\ t[1] \in Clients
           /\ t[2] \in Nat
           /\ t[3] \in {"head", "tail"}
           /\ t = <<t[1], t[2], t[3]>>
BY DEF Tokens

\* The scenario never changes, nor what may be in a buffer.
LEMMA SameTokens ==
    ASSUME UNCHANGED scenario
    PROVE  Tokens' = Tokens /\ Records' = Records /\ Orderly' = Orderly
BY DEF Tokens, Records, Orderly

-----------------------------------------------------------------------------
\* Closing sockets and freeing records

LEMMA Closing ==
    ASSUME TypeOK, NEW S \in SUBSET Fds, CloseSockets(S)
    PROVE  /\ owner' \in [Fds -> Clients \cup {NoClient, Server}]
           /\ conn' \in [Clients -> {"new", "open", "left", "reset", "closed"}]
           /\ \A fd \in Fds : owner'[fd] = IF fd \in S THEN NoClient ELSE owner[fd]
           /\ \A c \in Clients : conn'[c] = IF \E fd \in S : owner[fd] = c THEN "closed"
                                            ELSE conn[c]
BY DEF TypeOK, CloseSockets

LEMMA PlaceOfProperties ==
    ASSUME NEW fd \in Fds, m_ActiveConnectionList \in Seq(Fds), fd \in Range(m_ActiveConnectionList)
    PROVE  /\ PlaceOf(fd) \in 1 .. Len(m_ActiveConnectionList)
           /\ m_ActiveConnectionList[PlaceOf(fd)] = fd
<1> DEFINE n == Len(m_ActiveConnectionList)
           places == {i \in DOMAIN m_ActiveConnectionList : m_ActiveConnectionList[i] = fd}
<1>1. DOMAIN m_ActiveConnectionList = 1 .. n /\ n \in Nat
  BY LenProperties
<1>2. \E i \in 1 .. n : m_ActiveConnectionList[i] = fd
  BY InRange
<1>3. places \in SUBSET (0 .. n) /\ places # {}
  BY <1>1, <1>2
<1>4. Max(places) \in places
  BY <1>1, <1>3, MaxProperties
<1>5. QED
  BY <1>1, <1>4 DEF PlaceOf

LEMMA ShiftedType ==
    ASSUME NEW it \in Nat \cup {Invalid}, NEW pos \in Nat
    PROVE  Shifted(it, pos) \in Nat \cup {Invalid}
BY DEF Shifted, Invalid

\* FreeConnection of a record, when the records are map.
LEMMA Freeing ==
    ASSUME TypeOK, UNCHANGED scenario,
           NEW map \in [Fds -> Records], NEW it \in Nat \cup {Invalid}, NEW fd \in Fds,
           map[fd].listed => fd \in Range(m_ActiveConnectionList),
           FreeConnection(map, it, fd)
    PROVE  /\ m_ConnectionMap' \in [Fds -> Records]
           /\ m_ActiveConnectionList' \in Seq(Fds)
           /\ m_it' \in Nat \cup {Invalid}
           /\ m_itIncompleteMarker' \in Nat \cup {Invalid}
           /\ \A f \in Fds \ {fd} : m_ConnectionMap'[f] = map[f]
           /\ m_ConnectionMap'[fd] = [FreeRecord EXCEPT !.buffer = map[fd].buffer]
           /\ \A f \in Fds \ {fd} : f \in Range(m_ActiveConnectionList')
                                      <=> f \in Range(m_ActiveConnectionList)
           /\ IsInjective(m_ActiveConnectionList) =>
                /\ IsInjective(m_ActiveConnectionList')
                /\ map[fd].listed => fd \notin Range(m_ActiveConnectionList')
           /\ ~map[fd].listed => UNCHANGED m_ActiveConnectionList
<1>1. [FreeRecord EXCEPT !.buffer = map[fd].buffer] \in Records
  BY FreedRecordType
<1>2. m_ConnectionMap' = [map EXCEPT ![fd] = [FreeRecord EXCEPT !.buffer = map[fd].buffer]]
  BY DEF FreeConnection
<1>3. /\ m_ConnectionMap' \in [Fds -> Records]
      /\ \A f \in Fds \ {fd} : m_ConnectionMap'[f] = map[f]
      /\ m_ConnectionMap'[fd] = [FreeRecord EXCEPT !.buffer = map[fd].buffer]
  BY <1>1, <1>2
<1>4. m_ActiveConnectionList \in Seq(Fds) /\ m_itIncompleteMarker \in Nat \cup {Invalid}
  BY DEF TypeOK
<1>5. CASE map[fd].listed
  <2> DEFINE pos == PlaceOf(fd)
  <2>1. pos \in 1 .. Len(m_ActiveConnectionList) /\ m_ActiveConnectionList[pos] = fd
    BY <1>4, <1>5, PlaceOfProperties
  <2>2. pos \in Nat
    BY <1>4, <2>1
  <2>3. /\ m_ActiveConnectionList' = RemoveAt(m_ActiveConnectionList, pos)
        /\ m_it' = Shifted(it, pos)
        /\ m_itIncompleteMarker' = Shifted(m_itIncompleteMarker, pos)
    BY <1>5 DEF FreeConnection
  <2>4. m_it' \in Nat \cup {Invalid} /\ m_itIncompleteMarker' \in Nat \cup {Invalid}
    BY <1>4, <2>2, <2>3, ShiftedType
  <2> HIDE DEF pos
  <2>5. m_ActiveConnectionList' \in Seq(Fds)
    BY <1>4, <2>1, <2>3, RemoveAtProperties
  <2>6. /\ \A f : f # fd => (f \in Range(m_ActiveConnectionList')
                               <=> f \in Range(m_ActiveConnectionList))
        /\ IsInjective(m_ActiveConnectionList) => /\ IsInjective(m_ActiveConnectionList')
                                                  /\ fd \notin Range(m_ActiveConnectionList')
    BY <1>4, <2>1, <2>3, RangeOfRemoveAt
  <2>7. QED
    BY <1>3, <1>5, <2>4, <2>5, <2>6
<1>6. CASE ~map[fd].listed
  <2>1. m_it' = it /\ UNCHANGED <<m_ActiveConnectionList, m_itIncompleteMarker>>
    BY <1>6 DEF FreeConnection
  <2>2. QED
    BY <1>3, <1>4, <1>6, <2>1
<1>7. QED
  BY <1>5, <1>6

\* A freed record is not on the list.
LEMMA FreeingListed ==
    ASSUME TypeOK, ListedThere, UNCHANGED scenario,
           NEW map \in [Fds -> Records], NEW it \in Nat \cup {Invalid}, NEW fd \in Fds,
           \A f \in Fds : map[f].listed = m_ConnectionMap[f].listed,
           FreeConnection(map, it, fd)
    PROVE  /\ m_ConnectionMap' \in [Fds -> Records]
           /\ m_ActiveConnectionList' \in Seq(Fds)
           /\ m_it' \in Nat \cup {Invalid}
           /\ m_itIncompleteMarker' \in Nat \cup {Invalid}
           /\ owner' \in [Fds -> Clients \cup {NoClient, Server}]
           /\ conn' \in [Clients -> {"new", "open", "left", "reset", "closed"}]
           /\ ListedThere'
<1>1. map[fd].listed => fd \in Range(m_ActiveConnectionList)
  BY DEF ListedThere
<1>2. /\ m_ConnectionMap' \in [Fds -> Records]
      /\ m_ActiveConnectionList' \in Seq(Fds)
      /\ m_it' \in Nat \cup {Invalid}
      /\ m_itIncompleteMarker' \in Nat \cup {Invalid}
      /\ \A f \in Fds \ {fd} : m_ConnectionMap'[f] = map[f]
      /\ m_ConnectionMap'[fd] = [FreeRecord EXCEPT !.buffer = map[fd].buffer]
      /\ \A f \in Fds \ {fd} : f \in Range(m_ActiveConnectionList')
                                 <=> f \in Range(m_ActiveConnectionList)
  BY <1>1, Freeing
<1>3. CloseSockets({fd})
  BY DEF FreeConnection
<1>4. /\ owner' \in [Fds -> Clients \cup {NoClient, Server}]
      /\ conn' \in [Clients -> {"new", "open", "left", "reset", "closed"}]
  BY <1>3, Closing
<1>5. ~m_ConnectionMap'[fd].listed
  BY <1>2 DEF FreeRecord
<1>6. ListedThere'
  BY <1>2, <1>5 DEF ListedThere
<1>7. QED
  BY <1>2, <1>4, <1>6

-----------------------------------------------------------------------------
\* What is received

LEMMA ReceivedType ==
    ASSUME TypeOK, NEW fd \in Fds
    PROVE  /\ Received(fd) \in Seq(Tokens)
           /\ m_ConnectionMap[fd].buffer \in Seq(Tokens)
           /\ Filled(fd) \in Seq(Tokens)
<1>1. m_ConnectionMap[fd].buffer \in Seq(Tokens)
  BY DEF TypeOK, Records
<1>2. <<>> \in Seq(Tokens)
  BY EmptySeq
<1>3. Received(fd) \in Seq(Tokens)
  BY <1>2 DEF Received, TypeOK, IsClient
<1>4. QED
  BY <1>1, <1>3, ConcatProperties DEF Filled

\* m_msgSize is where the first tail is.
LEMMA MsgSize ==
    ASSUME NEW buffer \in Seq(Tokens)
    PROVE  /\ m_msgSize(buffer) \in 0 .. Len(buffer)
           /\ m_msgSize(buffer) = 0 <=> \A i \in 1 .. Len(buffer) : buffer[i][3] # "tail"
           /\ m_msgSize(buffer) # 0 => buffer[m_msgSize(buffer)][3] = "tail"
           /\ \A i \in 1 .. Len(buffer) : i < m_msgSize(buffer) => buffer[i][3] # "tail"
<1> DEFINE ends == {i \in DOMAIN buffer : buffer[i][3] = "tail"}
<1>1. DOMAIN buffer = 1 .. Len(buffer) /\ Len(buffer) \in Nat
  BY LenProperties
<1>2. m_msgSize(buffer) = IF ends = {} THEN 0 ELSE Min(ends)
  BY DEF m_msgSize
<1>3. CASE ends = {}
  BY <1>1, <1>2, <1>3
<1>4. CASE ends # {}
  <2>1. ends \in SUBSET Nat
    BY <1>1
  <2>2. Min(ends) \in ends /\ \A y \in ends : Min(ends) <= y
    BY <1>4, <2>1, MinProperties
  <2>3. m_msgSize(buffer) = Min(ends)
    BY <1>2, <1>4
  <2>4. Min(ends) \in 1 .. Len(buffer) /\ buffer[Min(ends)][3] = "tail"
    BY <1>1, <2>2
  <2>5. ASSUME NEW i \in 1 .. Len(buffer), i < Min(ends), buffer[i][3] = "tail"
        PROVE  FALSE
    <3>1. i \in ends
      BY <1>1, <2>5
    <3> HIDE DEF ends
    <3>2. QED
      BY <1>1, <2>2, <2>4, <2>5, <3>1
  <2>6. QED
    BY <1>1, <2>3, <2>4, <2>5
<1>5. QED
  BY <1>3, <1>4

LEMMA TakenType ==
    ASSUME TypeOK, NEW fd \in Fds, NEW size \in 0 .. Len(Filled(fd))
    PROVE  /\ Taken(fd, size) \in [Fds -> Records]
           /\ SubSeq(Filled(fd), size + 1, Len(Filled(fd))) \in Seq(Tokens)
           /\ Taken(fd, size)[fd].buffer = SubSeq(Filled(fd), size + 1, Len(Filled(fd)))
           /\ Taken(fd, size)[fd].old = (m_ConnectionMap[fd].old /\ Received(fd) = <<>>)
           /\ Taken(fd, size)[fd].State = m_ConnectionMap[fd].State
           /\ Taken(fd, size)[fd].pendingwrite = m_ConnectionMap[fd].pendingwrite
           /\ \A f \in Fds \ {fd} : Taken(fd, size)[f] = m_ConnectionMap[f]
           /\ \A f \in Fds : Taken(fd, size)[f].listed = m_ConnectionMap[f].listed
<1> DEFINE rest == SubSeq(Filled(fd), size + 1, Len(Filled(fd)))
           r == m_ConnectionMap[fd]
           r1 == [r EXCEPT !.buffer = rest]
           r2 == [r1 EXCEPT !.old = r.old /\ Received(fd) = <<>>]
<1>1. Filled(fd) \in Seq(Tokens) /\ Len(Filled(fd)) \in Nat
  BY ReceivedType, LenProperties
<1>2. rest \in Seq(Tokens)
  <2>1. \A i \in size + 1 .. Len(Filled(fd)) : Filled(fd)[i] \in Tokens
    BY <1>1, ElementOfSeq
  <2>2. QED
    BY <1>1, <2>1, SubSeqProperties
<1>3. r \in Records /\ m_ConnectionMap \in [Fds -> Records]
  BY DEF TypeOK
<1> HIDE DEF rest
<1>4. r1 \in Records
  BY <1>2, <1>3, SetRecord
<1>5. r2 \in Records
  <2>1. (r.old /\ Received(fd) = <<>>) \in BOOLEAN
    BY <1>3 DEF Records
  <2>2. QED
    BY <1>4, <2>1, SetRecord
<1>6. r2 = [r EXCEPT !.buffer = rest, !.old = @ /\ Received(fd) = <<>>]
  BY <1>3 DEF Records
<1>7. Taken(fd, size) = [m_ConnectionMap EXCEPT ![fd] = r2]
  BY <1>3, <1>6 DEF Taken, rest
<1>8. /\ r2.buffer = rest
      /\ r2.old = (r.old /\ Received(fd) = <<>>)
      /\ r2.State = r.State /\ r2.pendingwrite = r.pendingwrite /\ r2.listed = r.listed
  BY <1>3 DEF Records
<1> HIDE DEF r2
<1>9. QED
  BY <1>2, <1>3, <1>5, <1>6, <1>7, <1>8 DEF rest

LEMMA MessageOfType ==
    ASSUME TypeOK, NEW fd \in Fds, NEW buffer \in Seq(Tokens), m_msgSize(buffer) # 0,
           NEW keep \in KeepAlive
    PROVE  MessageOf(fd, buffer, keep) \in Requests
<1>1. m_msgSize(buffer) \in 1 .. Len(buffer)
  BY MsgSize, LenProperties
<1>2. buffer[m_msgSize(buffer)] \in Tokens
  BY <1>1, ElementOfSeq
<1>3. QED
  BY <1>2, TokenParts, ConnectionAssumption DEF MessageOf, Requests

-----------------------------------------------------------------------------
\* Type correctness

LEMMA WrittenType ==
    ASSUME TypeOK, NEW fd \in Fds, NEW sent \in BOOLEAN
    PROVE  /\ Written(fd, sent) \in [Fds -> Records]
           /\ Written(fd, sent)[fd].State = m_ConnectionMap[fd].State
           /\ Written(fd, sent)[fd].buffer = m_ConnectionMap[fd].buffer
           /\ \A f \in Fds \ {fd} : Written(fd, sent)[f] = m_ConnectionMap[f]
           /\ \A f \in Fds : Written(fd, sent)[f].listed = m_ConnectionMap[f].listed
<1>1. m_ConnectionMap \in [Fds -> Records]
  BY DEF TypeOK
<1>2. [m_ConnectionMap[fd] EXCEPT !.pendingwrite = FALSE, !.old = @ /\ ~sent] \in Records
  BY <1>1 DEF Records
<1>3. m_ConnectionMap[fd] \in Records
  BY <1>1
<1>4. LET r == [m_ConnectionMap[fd] EXCEPT !.pendingwrite = FALSE, !.old = @ /\ ~sent]
      IN  /\ r.listed = m_ConnectionMap[fd].listed
          /\ r.State = m_ConnectionMap[fd].State
          /\ r.buffer = m_ConnectionMap[fd].buffer
  BY <1>3 DEF Records
<1>5. QED
  BY <1>1, <1>2, <1>4 DEF Written

LEMMA ClientType ==
    ASSUME TypeOK, ListedThere, UNCHANGED scenario, NEW c \in Clients,
           SendHead(c) \/ SendTail(c) \/ Leave(c) \/ \E fd \in Fds : Accept(c, fd)
    PROVE  TypeOK' /\ ListedThere'
<1>1. Tokens' = Tokens /\ Records' = Records
  BY SameTokens
<1>2. scenario.requests \in Nat
  BY ConnectionAssumption DEF TypeOK
<1>3. ListedThere'
  BY DEF ListedThere, SendHead, SendTail, Leave, Accept, cacheVars, listVars
<1>4. CASE SendHead(c)
  <2>1. asked[c] + 1 \in 1 .. scenario.requests
    BY <1>2, <1>4 DEF SendHead, TypeOK
  <2>2. <<c, asked[c] + 1, "head">> \in Tokens
    BY <2>1 DEF Tokens
  <2>3. unread[c] \in Seq(Tokens)
    BY DEF TypeOK
  <2>4. Append(unread[c], <<c, asked[c] + 1, "head">>) \in Seq(Tokens)
    BY <2>2, <2>3, AppendProperties
  <2>5. unread' \in [Clients -> Seq(Tokens)]
    BY <1>4, <2>4 DEF SendHead, TypeOK
  <2>6. asked' \in [Clients -> 0 .. scenario.requests]
    BY <1>4, <2>1 DEF SendHead, TypeOK
  <2>7. QED
    BY <1>1, <1>3, <1>4, <2>5, <2>6
       DEF SendHead, TypeOK, queueVars, cacheVars, listVars
<1>5. CASE SendTail(c)
  <2>1. asked[c] \in 1 .. scenario.requests
    <3>1. PICK fd \in Fds : LET sent == Kept(fd) \o unread[c]
                            IN  sent # <<>> /\ Last(sent) = <<c, asked[c], "head">>
      BY <1>5 DEF SendTail, Half
    <3>2. Kept(fd) \in Seq(Tokens) /\ unread[c] \in Seq(Tokens)
      BY ReceivedType, EmptySeq DEF Kept, TypeOK
    <3>3. Kept(fd) \o unread[c] \in Seq(Tokens)
      BY <3>2, ConcatProperties
    <3>4. Last(Kept(fd) \o unread[c]) \in Tokens
      <4> DEFINE s == Kept(fd) \o unread[c]
      <4>1. s \in Seq(Tokens) /\ s # <<>>
        BY <3>1, <3>3
      <4> HIDE DEF s
      <4>2. Len(s) \in 1 .. Len(s)
        BY <4>1, EmptySeq
      <4>3. s[Len(s)] \in Tokens
        BY <4>1, <4>2, ElementOfSeq
      <4>4. QED
        BY <4>3 DEF Last, s
    <3>5. <<c, asked[c], "head">> \in Clients \X (1 .. scenario.requests) \X {"head", "tail"}
      BY <3>1, <3>4 DEF Tokens
    <3>6. QED
      BY <3>5
  <2>2. <<c, asked[c], "tail">> \in Tokens
    BY <2>1 DEF Tokens
  <2>3. unread[c] \in Seq(Tokens)
    BY DEF TypeOK
  <2>4. Append(unread[c], <<c, asked[c], "tail">>) \in Seq(Tokens)
    BY <2>2, <2>3, AppendProperties
  <2>5. unread' \in [Clients -> Seq(Tokens)]
    BY <1>5, <2>4 DEF SendTail, TypeOK
  <2>6. QED
    BY <1>1, <1>3, <1>5, <2>5
       DEF SendTail, TypeOK, clientVars, queueVars, cacheVars, listVars
<1>6. CASE Leave(c)
  BY <1>1, <1>3, <1>6
     DEF Leave, TypeOK, clientVars, queueVars, cacheVars, listVars
<1>7. ASSUME NEW fd \in Fds, Accept(c, fd)
      PROVE  TypeOK'
  <2>1. owner' \in [Fds -> Clients \cup {NoClient, Server}]
    BY <1>7 DEF Accept, TypeOK
  <2>2. conn' \in [Clients -> {"new", "open", "left", "reset", "closed"}]
    BY <1>7 DEF Accept, TypeOK
  <2>3. accepted' \in Fds \cup {NoFd}
    BY <1>7 DEF Accept, TypeOK
  <2>4. UNCHANGED <<unread, clientVars, queueVars, m_PreQueue, cacheVars, m_stReadfds, qpc>>
    BY <1>7 DEF Accept
  <2>5. QED
    BY <1>1, <2>1, <2>2, <2>3, <2>4 DEF TypeOK, clientVars, queueVars, cacheVars, listVars
<1>8. QED
  BY <1>3, <1>4, <1>5, <1>6, <1>7

LEMMA OtherThreadsType ==
    ASSUME TypeOK, ListedThere, UNCHANGED scenario,
           \/ PreQueue \/ SendOut
           \/ \E m \in inProcess : SendMsg(m)
           \/ \E fd \in Fds : Age(fd)
    PROVE  TypeOK' /\ ListedThere'
<1>1. Tokens' = Tokens /\ Records' = Records
  BY SameTokens
<1>2. CASE PreQueue
  <2>1. m_PreQueue' \in Seq(Fds)
    BY <1>2, AppendProperties DEF PreQueue, TypeOK
  <2>2. QED
    BY <1>1, <1>2, <2>1
       DEF PreQueue, TypeOK, ListedThere, kernelVars, clientVars, queueVars, cacheVars, listVars
<1>3. CASE SendOut
  <2>1. m_outbound_priority_queue' \subseteq Messages /\ dialled' \in 0 .. scenario.dials
    BY <1>3, ConnectionAssumption DEF SendOut, TypeOK, Messages
  <2>2. QED
    BY <1>1, <1>3, <2>1
       DEF SendOut, TypeOK, ListedThere, kernelVars, clientVars, cacheVars, listVars
<1>4. ASSUME NEW m \in inProcess, SendMsg(m)
      PROVE  TypeOK' /\ ListedThere'
  <2>1. m \in Requests /\ m.fd \in Fds
    BY DEF TypeOK, Requests
  <2>2. m.fd # NoFd
    BY <2>1, ConnectionAssumption
  <2>3. m_ConnectionMap' = [m_ConnectionMap EXCEPT ![m.fd] =
                              [m_ConnectionMap[m.fd] EXCEPT !.pendingwrite = TRUE]]
    BY <1>4, <2>2 DEF SendMsg, MarkPendingWrite
  <2>4. m_ConnectionMap[m.fd] \in Records /\ m_ConnectionMap \in [Fds -> Records]
    BY <2>1 DEF TypeOK
  <2>5. [m_ConnectionMap[m.fd] EXCEPT !.pendingwrite = TRUE] \in Records
    BY <2>4, SetRecord
  <2>6. m_ConnectionMap' \in [Fds -> Records]
    BY <2>3, <2>4, <2>5
  <2>7. \A f \in Fds : m_ConnectionMap'[f].listed = m_ConnectionMap[f].listed
    BY <2>3, <2>4 DEF Records
  <2>8. inProcess' \subseteq Requests /\ m_outbound_priority_queue' \subseteq Messages
    BY <1>4, <2>1 DEF SendMsg, TypeOK, Messages
  <2>9. QED
    BY <1>1, <1>4, <2>6, <2>7, <2>8
       DEF SendMsg, TypeOK, ListedThere, kernelVars, clientVars, listVars
<1>5. ASSUME NEW fd \in Fds, Age(fd)
      PROVE  TypeOK' /\ ListedThere'
  <2>1. m_ConnectionMap' = [m_ConnectionMap EXCEPT ![fd] =
                              [m_ConnectionMap[fd] EXCEPT !.old = TRUE]]
    BY <1>5 DEF Age
  <2>2. m_ConnectionMap[fd] \in Records /\ m_ConnectionMap \in [Fds -> Records]
    BY DEF TypeOK
  <2>3. [m_ConnectionMap[fd] EXCEPT !.old = TRUE] \in Records
    BY <2>2, SetRecord
  <2>4. m_ConnectionMap' \in [Fds -> Records]
    BY <2>1, <2>2, <2>3
  <2>5. \A f \in Fds : m_ConnectionMap'[f].listed = m_ConnectionMap[f].listed
    BY <2>1, <2>2 DEF Records
  <2>6. QED
    BY <1>1, <1>5, <2>4, <2>5
       DEF Age, TypeOK, ListedThere, kernelVars, clientVars, queueVars, listVars
<1>6. QED
  BY <1>2, <1>3, <1>4, <1>5

LEMMA AddPreQueuedType ==
    ASSUME TypeOK, ListedThere, UNCHANGED scenario, AddPreQueued
    PROVE  TypeOK' /\ ListedThere'
<1>1. Tokens' = Tokens /\ Records' = Records
  BY SameTokens
<1>2. /\ m_PreQueue \in Seq(Fds) /\ m_ActiveConnectionList \in Seq(Fds)
      /\ m_ConnectionMap \in [Fds -> Records]
  BY DEF TypeOK
<1>3. m_ActiveConnectionList' \in Seq(Fds)
  BY <1>2, ConcatProperties DEF AddPreQueued, AddConnections
<1>4. m_PreQueue' \in Seq(Fds)
  BY EmptySeq DEF AddPreQueued, PreQueueAfter
<1>5. <<>> \in Seq(Tokens)
  BY EmptySeq
<1>6. [State |-> "WAITING", pendingwrite |-> FALSE, listed |-> TRUE, old |-> FALSE,
       buffer |-> <<>>] \in Records
  BY <1>5 DEF Records
<1>7. m_ConnectionMap' \in [Fds -> Records]
  BY <1>2, <1>6 DEF AddPreQueued, AddConnections, BufferOfNew
<1>8. \A x : x \in Range(m_ActiveConnectionList')
               <=> x \in Range(m_ActiveConnectionList) \/ x \in Range(m_PreQueue)
  BY <1>2, RangeConcatenation DEF AddPreQueued, AddConnections
<1>9. ListedThere'
  BY <1>8 DEF ListedThere, AddPreQueued, AddConnections
<1>10. QED
  BY <1>1, <1>3, <1>4, <1>7, <1>9
     DEF AddPreQueued, AddConnections, TypeOK, kernelVars, clientVars, queueVars

LEMMA PollType ==
    ASSUME TypeOK, ListedThere, UNCHANGED scenario, Poll
    PROVE  TypeOK' /\ ListedThere'
<1>1. Tokens' = Tokens /\ Records' = Records
  BY SameTokens
<1>2. m_ActiveConnectionList \in Seq(Fds) /\ Len(m_ActiveConnectionList) \in Nat
  BY LenProperties DEF TypeOK
<1>3. DOMAIN m_ActiveConnectionList = 1 .. Len(m_ActiveConnectionList)
  BY <1>2, LenProperties
<1>4. Batch \in SUBSET (1 .. Len(m_ActiveConnectionList))
  BY <1>3 DEF Batch
<1>5. m_stReadfds' \subseteq Fds
  <2>1. {m_ActiveConnectionList[i] : i \in Batch} \subseteq Fds
    BY <1>2, <1>4, ElementOfSeq
  <2>2. QED
    BY <2>1 DEF Poll, Selected
<1>6. m_itIncompleteMarker' \in Nat
  <2>1. CASE Cardinality(Batch) = FD_SETSIZE
    <3>1. Batch # {}
      BY <2>1, FS_EmptySet, ConnectionAssumption
    <3>2. Batch \in SUBSET (0 .. Len(m_ActiveConnectionList))
      BY <1>4
    <3>3. Max(Batch) \in Batch
      BY <1>2, <3>1, <3>2, MaxProperties
    <3>4. Max(Batch) \in 1 .. Len(m_ActiveConnectionList)
      BY <1>4, <3>3
    <3>5. MarkerAfter(Max(Batch)) \in Nat
      BY <1>2, <3>4 DEF MarkerAfter, End
    <3>6. QED
      BY <2>1, <3>5 DEF Poll, SetActiveConnections
  <2>2. CASE Cardinality(Batch) # FD_SETSIZE
    BY <2>2 DEF Poll, SetActiveConnections, End
  <2>3. QED
    BY <2>1, <2>2
<1>7. QED
  BY <1>1, <1>5, <1>6 DEF Poll, TypeOK, ListedThere, kernelVars, clientVars, queueVars

\* The place the enumerator comes to.
LEMMA PlaceType ==
    ASSUME TypeOK, NEW i \in DOMAIN m_ActiveConnectionList
    PROVE  i \in Nat /\ m_ActiveConnectionList[i] \in Fds
           /\ m_ActiveConnectionList[i] \in Range(m_ActiveConnectionList)
<1>1. m_ActiveConnectionList \in Seq(Fds)
  BY DEF TypeOK
<1>2. i \in 1 .. Len(m_ActiveConnectionList)
  BY <1>1, LenProperties
<1>3. QED
  BY <1>1, <1>2, ElementOfSeq, LenProperties DEF Range

LEMMA ReceiveType ==
    ASSUME TypeOK, ListedThere, UNCHANGED scenario,
           NEW i \in DOMAIN m_ActiveConnectionList, ReceiveFrom(i),
           UNCHANGED <<clientVars, m_outbound_priority_queue, dialled, m_bSocketCreated,
                       accepted, m_PreQueue, m_stReadfds, qpc>>
    PROVE  TypeOK' /\ ListedThere'
<1> DEFINE fd == m_ActiveConnectionList[i]
           size == m_msgSize(Filled(fd))
<1>1. Tokens' = Tokens /\ Records' = Records
  BY SameTokens
<1>2. i \in Nat /\ fd \in Fds
  BY PlaceType
<1>3. Filled(fd) \in Seq(Tokens)
  BY <1>2, ReceivedType
<1>4. size \in 0 .. Len(Filled(fd))
  BY <1>3, MsgSize
<1>5. unread' \in [Clients -> Seq(Tokens)]
  <2>1. <<>> \in Seq(Tokens)
    BY EmptySeq
  <2>2. QED
    BY <2>1 DEF ReceiveFrom, TypeOK
<1>6. inProcess' \subseteq Requests
  <2>1. \A keep \in KeepAlive : size # 0 => MessageOf(fd, Filled(fd), keep) \in Requests
    BY <1>2, <1>3, MessageOfType
  <2>2. QED
    BY <2>1 DEF ReceiveFrom, TypeOK
<1>7. /\ Taken(fd, size) \in [Fds -> Records]
      /\ \A f \in Fds : Taken(fd, size)[f].listed = m_ConnectionMap[f].listed
  BY <1>2, <1>4, TakenType
<1>8. /\ m_ConnectionMap' \in [Fds -> Records]
      /\ m_ActiveConnectionList' \in Seq(Fds)
      /\ m_it' \in Nat \cup {Invalid}
      /\ m_itIncompleteMarker' \in Nat \cup {Invalid}
      /\ owner' \in [Fds -> Clients \cup {NoClient, Server}]
      /\ conn' \in [Clients -> {"new", "open", "left", "reset", "closed"}]
      /\ ListedThere'
  <2>1. CASE FreeConnection(Taken(fd, size), i + 1, fd)
    <3>1. i + 1 \in Nat
      BY <1>2
    <3>2. QED
      BY <1>2, <1>7, <2>1, <3>1, FreeingListed
  <2>2. CASE /\ m_ConnectionMap' = Taken(fd, size)
             /\ m_it' = i + 1
             /\ UNCHANGED <<m_ActiveConnectionList, m_itIncompleteMarker, owner, conn>>
    <3>1. /\ m_ActiveConnectionList \in Seq(Fds) /\ i \in Nat
          /\ m_itIncompleteMarker \in Nat \cup {Invalid}
          /\ owner \in [Fds -> Clients \cup {NoClient, Server}]
          /\ conn \in [Clients -> {"new", "open", "left", "reset", "closed"}]
      BY DEF TypeOK
    <3>2. i + 1 \in Nat
      BY <3>1
    <3>3. ListedThere'
      BY <1>7, <2>2 DEF ListedThere
    <3>4. QED
      BY <1>7, <2>2, <3>1, <3>2, <3>3
  <2>3. \/ FreeConnection(Taken(fd, size), i + 1, fd)
        \/ /\ m_ConnectionMap' = Taken(fd, size)
           /\ m_it' = i + 1
           /\ UNCHANGED <<m_ActiveConnectionList, m_itIncompleteMarker, owner, conn>>
    BY DEF ReceiveFrom
  <2>4. QED
    BY <2>1, <2>2, <2>3
<1> HIDE DEF fd, size
<1>9. QED
  BY <1>1, <1>5, <1>6, <1>8 DEF TypeOK, clientVars

LEMMA TransmitType ==
    ASSUME TypeOK, ListedThere, UNCHANGED scenario, NEW m \in Requests, NEW sent \in BOOLEAN,
           m \in m_outbound_priority_queue, Transmit(m, sent)
    PROVE  /\ m_ConnectionMap' \in [Fds -> Records]
           /\ m_ActiveConnectionList' \in Seq(Fds)
           /\ m_it' \in Nat \cup {Invalid}
           /\ m_itIncompleteMarker' \in Nat \cup {Invalid}
           /\ owner' \in [Fds -> Clients \cup {NoClient, Server}]
           /\ conn' \in [Clients -> {"new", "open", "left", "reset", "closed"}]
           /\ ListedThere'
           /\ asked' = asked /\ answered' \in [Clients -> Nat] /\ strayed' \in BOOLEAN
           /\ inProcess' \subseteq Requests
           /\ m_bSocketCreated' \in BOOLEAN
<1>1. m.fd \in Fds
  BY DEF Requests
<1>2. /\ Written(m.fd, sent) \in [Fds -> Records]
      /\ \A f \in Fds : Written(m.fd, sent)[f].listed = m_ConnectionMap[f].listed
  BY <1>1, WrittenType
<1>3. asked' = asked /\ answered' \in [Clients -> Nat] /\ strayed' \in BOOLEAN
  <2>1. CASE Deliver(m, m.fd)
    <3>1. \A c \in Clients : answered[c] + 1 \in Nat /\ answered[c] \in Nat
      BY DEF TypeOK
    <3>2. answered' \in [Clients -> Nat]
      BY <2>1, <3>1 DEF Deliver
    <3>3. QED
      BY <2>1, <3>2 DEF Deliver, TypeOK
  <2>2. CASE UNCHANGED clientVars
    BY <2>2 DEF TypeOK, clientVars
  <2>3. QED
    BY <2>1, <2>2 DEF Transmit
<1>4. inProcess' \subseteq Requests /\ m_bSocketCreated' \in BOOLEAN
  BY DEF Transmit, TypeOK
<1>5. CASE FreeConnection(Written(m.fd, sent), m_it, m.fd)
  <2>1. m_it \in Nat \cup {Invalid}
    BY DEF TypeOK
  <2>2. QED
    BY <1>1, <1>2, <1>3, <1>4, <1>5, <2>1, FreeingListed
<1>6. CASE /\ m_ConnectionMap' = Written(m.fd, sent)
           /\ CloseSockets(IF sent THEN {} ELSE {m.fd})
           /\ UNCHANGED listVars
  <2>1. /\ owner' \in [Fds -> Clients \cup {NoClient, Server}]
        /\ conn' \in [Clients -> {"new", "open", "left", "reset", "closed"}]
    BY <1>1, <1>6, Closing
  <2>2. ListedThere'
    BY <1>2, <1>6 DEF ListedThere, listVars
  <2>3. QED
    BY <1>2, <1>3, <1>4, <1>6, <2>1, <2>2 DEF TypeOK, listVars
<1>7. QED
  BY <1>5, <1>6 DEF Transmit

LEMMA OpenTCPType ==
    ASSUME TypeOK, ListedThere, UNCHANGED scenario, NEW m, OpenTCP(m)
    PROVE  /\ m_ConnectionMap' \in [Fds -> Records]
           /\ m_ActiveConnectionList' \in Seq(Fds)
           /\ m_it' \in Nat \cup {Invalid}
           /\ m_itIncompleteMarker' \in Nat \cup {Invalid}
           /\ owner' \in [Fds -> Clients \cup {NoClient, Server}]
           /\ conn' \in [Clients -> {"new", "open", "left", "reset", "closed"}]
           /\ ListedThere'
           /\ m_bSocketCreated' \in BOOLEAN
           /\ UNCHANGED <<clientVars, inProcess>>
<1>1. UNCHANGED <<clientVars, inProcess>>
  BY DEF OpenTCP
<1>2. m_bSocketCreated' \in BOOLEAN
  BY DEF OpenTCP, TypeOK
<1>3. CASE /\ UNCHANGED <<conn, cacheVars>>
           /\ owner' = owner \/ \E fd \in FreeFds : owner' = [owner EXCEPT ![fd] = Server]
  <2>1. owner' \in [Fds -> Clients \cup {NoClient, Server}]
    BY <1>3 DEF TypeOK, FreeFds
  <2>2. QED
    BY <1>1, <1>2, <1>3, <2>1 DEF TypeOK, ListedThere, cacheVars, listVars
<1>4. CASE \E fd \in FreeFds : FreeConnection(m_ConnectionMap, m_it, fd)
  <2>1. PICK fd \in Fds : FreeConnection(m_ConnectionMap, m_it, fd)
    BY <1>4 DEF FreeFds
  <2>2. m_it \in Nat \cup {Invalid} /\ m_ConnectionMap \in [Fds -> Records]
    BY DEF TypeOK
  <2>3. QED
    BY <1>1, <1>2, <2>1, <2>2, FreeingListed
<1>5. QED
  BY <1>3, <1>4 DEF OpenTCP

LEMMA ProcessOutboundType ==
    ASSUME TypeOK, ListedThere, UNCHANGED scenario,
           NEW m \in m_outbound_priority_queue, ProcessOutboundTask(m)
    PROVE  TypeOK' /\ ListedThere'
<1>1. Tokens' = Tokens /\ Records' = Records
  BY SameTokens
<1>2. m_outbound_priority_queue' \subseteq Messages
  BY DEF ProcessOutboundTask, Popped, TypeOK
<1>3. CASE m.fd = NoFd
  <2>1. OpenTCP(m)
    BY <1>3 DEF ProcessOutboundTask
  <2>2. /\ m_ConnectionMap' \in [Fds -> Records]
        /\ m_ActiveConnectionList' \in Seq(Fds)
        /\ m_it' \in Nat \cup {Invalid}
        /\ m_itIncompleteMarker' \in Nat \cup {Invalid}
        /\ owner' \in [Fds -> Clients \cup {NoClient, Server}]
        /\ conn' \in [Clients -> {"new", "open", "left", "reset", "closed"}]
        /\ ListedThere'
        /\ m_bSocketCreated' \in BOOLEAN
        /\ UNCHANGED <<clientVars, inProcess>>
    BY <2>1, OpenTCPType
  <2>3. QED
    BY <1>1, <1>2, <2>2 DEF ProcessOutboundTask, TypeOK, clientVars
<1>4. CASE m.fd # NoFd
  <2>1. PICK sent \in SendOutcomes(m.fd) : Transmit(m, sent)
    BY <1>4 DEF ProcessOutboundTask
  <2>2. m \in Requests
    BY <1>4 DEF TypeOK, Messages
  <2>4. SendOutcomes(m.fd) \subseteq BOOLEAN
    BY DEF SendOutcomes
  <2>5. /\ m_ConnectionMap' \in [Fds -> Records]
        /\ m_ActiveConnectionList' \in Seq(Fds)
        /\ m_it' \in Nat \cup {Invalid}
        /\ m_itIncompleteMarker' \in Nat \cup {Invalid}
        /\ owner' \in [Fds -> Clients \cup {NoClient, Server}]
        /\ conn' \in [Clients -> {"new", "open", "left", "reset", "closed"}]
        /\ ListedThere'
        /\ asked' = asked /\ answered' \in [Clients -> Nat] /\ strayed' \in BOOLEAN
        /\ inProcess' \subseteq Requests
        /\ m_bSocketCreated' \in BOOLEAN
    BY <2>1, <2>2, <2>4, TransmitType
  <2>6. QED
    BY <1>1, <1>2, <2>5 DEF ProcessOutboundTask, TypeOK
<1>5. QED
  BY <1>3, <1>4

LEMMA TypeStep ==
    ASSUME TypeOK, ListedThere, [Next]_vars
    PROVE  TypeOK' /\ ListedThere'
<1>1. CASE UNCHANGED vars
  <2>1. Tokens' = Tokens /\ Records' = Records
    BY <1>1, SameTokens DEF vars
  <2>2. QED
    BY <1>1, <2>1 DEF TypeOK, ListedThere, vars, kernelVars, clientVars, queueVars, cacheVars,
                      listVars
<1> SUFFICES ASSUME Step, UNCHANGED scenario
             PROVE  TypeOK' /\ ListedThere'
  BY <1>1 DEF Next
<1>2. Tokens' = Tokens /\ Records' = Records
  BY SameTokens
<1>3. CASE Lock \/ EndTimeouts \/ CheckPreQueue \/ EndInbound \/ Unlock
  BY <1>2, <1>3 DEF Lock, EndTimeouts, CheckPreQueue, EndInbound, Unlock, TypeOK, ListedThere,
     kernelVars, clientVars, queueVars, cacheVars, listVars
<1>4. CASE TimeoutConnection
  <2>1. PICK i \in DOMAIN m_ActiveConnectionList :
               FreeConnection(m_ConnectionMap, End, m_ActiveConnectionList[i])
    BY <1>4 DEF TimeoutConnection, TimedOut
  <2>2. m_ActiveConnectionList[i] \in Fds
    BY PlaceType
  <2>3. End \in Nat \cup {Invalid} /\ m_ConnectionMap \in [Fds -> Records]
    BY DEF End, TypeOK
  <2>4. /\ m_ConnectionMap' \in [Fds -> Records]
        /\ m_ActiveConnectionList' \in Seq(Fds)
        /\ m_it' \in Nat \cup {Invalid}
        /\ m_itIncompleteMarker' \in Nat \cup {Invalid}
        /\ owner' \in [Fds -> Clients \cup {NoClient, Server}]
        /\ conn' \in [Clients -> {"new", "open", "left", "reset", "closed"}]
        /\ ListedThere'
    BY <2>1, <2>2, <2>3, FreeingListed
  <2>5. QED
    BY <1>2, <1>4, <2>4 DEF TimeoutConnection, TypeOK, clientVars, queueVars
<1>5. CASE AddPreQueued \/ Poll
  BY <1>5, AddPreQueuedType, PollType
<1>6. CASE ProcessInboundTask
  <2>1. PICK i \in DOMAIN m_ActiveConnectionList : ReceiveFrom(i)
    BY <1>6 DEF ProcessInboundTask, SetRecords
  <2>2. UNCHANGED <<clientVars, m_outbound_priority_queue, dialled, m_bSocketCreated,
                    accepted, m_PreQueue, m_stReadfds, qpc>>
    BY <1>6 DEF ProcessInboundTask
  <2>3. QED
    BY <2>1, <2>2, ReceiveType
<1>7. QED
  BY <1>3, <1>4, <1>5, <1>6, ClientType, OtherThreadsType, ProcessOutboundType DEF Step, Run

LEMMA InitType == Init => TypeOK /\ ListedThere
<1> SUFFICES ASSUME Init
             PROVE  TypeOK /\ ListedThere
  OBVIOUS
<1>1. <<>> \in Seq(Tokens) /\ <<>> \in Seq(Fds)
  BY EmptySeq
<1>2. FreeRecord \in Records
  BY FreeRecordType DEF Records
<1>3. scenario.requests \in Nat /\ scenario.dials \in Nat
  BY ConnectionAssumption DEF Init
<1>4. /\ owner \in [Fds -> Clients \cup {NoClient, Server}]
      /\ conn \in [Clients -> {"new", "open", "left", "reset", "closed"}]
      /\ unread \in [Clients -> Seq(Tokens)]
      /\ asked \in [Clients -> 0 .. scenario.requests] /\ answered \in [Clients -> Nat]
  BY <1>1, <1>3 DEF Init
<1>5. /\ m_ConnectionMap \in [Fds -> Records]
      /\ \A fd \in Fds : ~m_ConnectionMap[fd].listed
  <2>1. m_ConnectionMap = [fd \in Fds |-> FreeRecord]
    BY DEF Init
  <2>2. ~FreeRecord.listed
    BY DEF FreeRecord
  <2>3. QED
    BY <1>2, <2>1, <2>2
<1>6. /\ scenario \in Scenarios /\ strayed = FALSE /\ m_bSocketCreated = FALSE
      /\ accepted = NoFd /\ m_PreQueue = <<>> /\ m_ActiveConnectionList = <<>>
      /\ m_it = 0 /\ m_itIncompleteMarker = 0
      /\ m_outbound_priority_queue = {} /\ inProcess = {} /\ dialled = 0
      /\ m_stReadfds = {} /\ qpc = "unlocked"
  BY DEF Init, End
<1>7. TypeOK
  <2>1. m_PreQueue \in Seq(Fds) /\ m_ActiveConnectionList \in Seq(Fds)
    BY <1>1, <1>6, Zenon
  <2>2. m_it \in Nat /\ m_itIncompleteMarker \in Nat /\ dialled \in 0 .. scenario.dials
    BY <1>3, <1>6
  <2>3. QED
    BY <1>3, <1>4, <1>5, <1>6, <2>1, <2>2, Zenon DEF TypeOK
<1>8. QED
  BY <1>5, <1>7 DEF ListedThere

-----------------------------------------------------------------------------
\* What freeing a record does, whatever the action

\* The record of fd was freed and its socket closed; the others are as before.
Freed(fd) ==
    /\ \A f \in Fds \ {fd} : /\ m_ConnectionMap'[f] = m_ConnectionMap[f]
                             /\ owner'[f] = owner[f]
                             /\ f \in Range(m_ActiveConnectionList')
                                  <=> f \in Range(m_ActiveConnectionList)
    /\ m_ConnectionMap'[fd].State = "FREE" /\ m_ConnectionMap'[fd].listed = FALSE
    /\ owner'[fd] = NoClient
    /\ \A c \in Clients : conn'[c] = IF owner[fd] = c THEN "closed" ELSE conn[c]
    /\ IsInjective(m_ActiveConnectionList) =>
         /\ IsInjective(m_ActiveConnectionList')
         /\ m_ConnectionMap[fd].listed => fd \notin Range(m_ActiveConnectionList')
    /\ ~m_ConnectionMap[fd].listed => UNCHANGED m_ActiveConnectionList

LEMMA FreeConnectionFrees ==
    ASSUME TypeOK, ListedThere, UNCHANGED scenario,
           NEW map \in [Fds -> Records], NEW it \in Nat \cup {Invalid}, NEW fd \in Fds,
           \A f \in Fds \ {fd} : map[f] = m_ConnectionMap[f],
           map[fd].listed = m_ConnectionMap[fd].listed,
           FreeConnection(map, it, fd)
    PROVE  Freed(fd)
<1>1. map[fd].listed => fd \in Range(m_ActiveConnectionList)
  BY DEF ListedThere
<1>2. /\ \A f \in Fds \ {fd} : m_ConnectionMap'[f] = map[f]
      /\ m_ConnectionMap'[fd] = [FreeRecord EXCEPT !.buffer = map[fd].buffer]
      /\ \A f \in Fds \ {fd} : f \in Range(m_ActiveConnectionList')
                                 <=> f \in Range(m_ActiveConnectionList)
      /\ IsInjective(m_ActiveConnectionList) =>
           /\ IsInjective(m_ActiveConnectionList')
           /\ map[fd].listed => fd \notin Range(m_ActiveConnectionList')
      /\ ~map[fd].listed => UNCHANGED m_ActiveConnectionList
  BY <1>1, Freeing
<1>3. CloseSockets({fd})
  BY DEF FreeConnection
<1>4. /\ \A f \in Fds : owner'[f] = IF f \in {fd} THEN NoClient ELSE owner[f]
      /\ \A c \in Clients : conn'[c] = IF \E f \in {fd} : owner[f] = c THEN "closed" ELSE conn[c]
  BY <1>3, Closing
<1>5. m_ConnectionMap'[fd].State = "FREE" /\ m_ConnectionMap'[fd].listed = FALSE
  BY <1>2 DEF FreeRecord
<1>6. QED
  BY <1>2, <1>4, <1>5 DEF Freed

LEMMA TimeoutFrees ==
    ASSUME TypeOK, ListedThere, UNCHANGED scenario, TimeoutConnection
    PROVE  \E fd \in Fds : /\ Freed(fd)
                           /\ fd \in Range(m_ActiveConnectionList)
                           /\ ~m_ConnectionMap[fd].pendingwrite
                           /\ m_ConnectionMap[fd].old
<1>1. PICK i \in TimedOut : FreeConnection(m_ConnectionMap, End, m_ActiveConnectionList[i])
  BY DEF TimeoutConnection
<1>2. i \in DOMAIN m_ActiveConnectionList
  BY DEF TimedOut
<1> DEFINE fd == m_ActiveConnectionList[i]
<1>3. fd \in Fds /\ fd \in Range(m_ActiveConnectionList)
  BY <1>2, PlaceType
<1>4. ~m_ConnectionMap[fd].pendingwrite /\ m_ConnectionMap[fd].old
  BY DEF TimedOut
<1>5. End \in Nat \cup {Invalid} /\ m_ConnectionMap \in [Fds -> Records]
  BY DEF End, TypeOK
<1> HIDE DEF fd
<1>6. Freed(fd)
  BY <1>1, <1>3, <1>5, FreeConnectionFrees DEF fd
<1>7. QED
  BY <1>3, <1>4, <1>6

\* Closing the connection that was read from.
LEMMA CloseFrees ==
    ASSUME TypeOK, ListedThere, UNCHANGED scenario,
           NEW i \in Nat, NEW fd \in Fds, NEW size, size = m_msgSize(Filled(fd)),
           FreeConnection(Taken(fd, size), i + 1, fd)
    PROVE  Freed(fd)
<1>1. size \in 0 .. Len(Filled(fd))
  BY ReceivedType, MsgSize
<1>2. /\ Taken(fd, size) \in [Fds -> Records]
      /\ \A f \in Fds \ {fd} : Taken(fd, size)[f] = m_ConnectionMap[f]
      /\ Taken(fd, size)[fd].listed = m_ConnectionMap[fd].listed
  BY <1>1, TakenType
<1>3. i + 1 \in Nat \cup {Invalid}
  OBVIOUS
<1>4. QED
  BY <1>2, <1>3, FreeConnectionFrees

\* Reading from a record frees it or leaves what is left of its buffer.
LEMMA ReceiveFreesOrStays ==
    ASSUME TypeOK, ListedThere, UNCHANGED scenario,
           NEW i \in DOMAIN m_ActiveConnectionList, ReceiveFrom(i)
    PROVE  LET fd == m_ActiveConnectionList[i]
           IN  \/ Freed(fd)
               \/ /\ m_ConnectionMap' = Taken(fd, m_msgSize(Filled(fd)))
                  /\ ~SocketFails(fd)
                  /\ UNCHANGED <<m_ActiveConnectionList, owner, conn>>
<1> DEFINE fd == m_ActiveConnectionList[i]
           size == m_msgSize(Filled(fd))
<1>1. i \in Nat /\ fd \in Fds
  BY PlaceType
<1>2. CASE FreeConnection(Taken(fd, size), i + 1, fd)
  <2> HIDE DEF fd
  <2>1. Freed(fd)
    BY <1>1, <1>2, CloseFrees
  <2>2. QED
    BY <2>1 DEF fd
<1>3. CASE /\ m_ConnectionMap' = Taken(fd, size)
           /\ ~SocketFails(fd)
           /\ UNCHANGED <<m_ActiveConnectionList, owner, conn>>
  BY <1>3
<1>4. QED
  BY <1>2, <1>3 DEF ReceiveFrom

LEMMA TransmitFreesOrStays ==
    ASSUME TypeOK, ListedThere, UNCHANGED scenario, NEW m \in Requests, NEW sent \in BOOLEAN,
           Transmit(m, sent)
    PROVE  \/ Freed(m.fd)
           \/ /\ m_ConnectionMap' = Written(m.fd, sent)
              /\ CloseSockets(IF sent THEN {} ELSE {m.fd})
              /\ UNCHANGED m_ActiveConnectionList
              /\ sent \/ m_bSocketCreated
<1>1. m.fd \in Fds
  BY DEF Requests
<1>2. CASE ClosesAfter(m, sent)
  <2>1. /\ Written(m.fd, sent) \in [Fds -> Records]
        /\ \A f \in Fds \ {m.fd} : Written(m.fd, sent)[f] = m_ConnectionMap[f]
        /\ Written(m.fd, sent)[m.fd].listed = m_ConnectionMap[m.fd].listed
    BY <1>1, WrittenType
  <2>2. m_it \in Nat \cup {Invalid} /\ FreeConnection(Written(m.fd, sent), m_it, m.fd)
    BY <1>2 DEF Transmit, TypeOK
  <2>3. QED
    BY <1>1, <2>1, <2>2, FreeConnectionFrees
<1>3. CASE ~ClosesAfter(m, sent)
  BY <1>3 DEF Transmit, ClosesAfter, listVars
<1>4. QED
  BY <1>2, <1>3

LEMMA OpenTCPEffect ==
    ASSUME TypeOK, ListedThere, UNCHANGED scenario, NEW m, OpenTCP(m)
    PROVE  \/ \E fd \in FreeFds : Freed(fd)
           \/ /\ UNCHANGED <<conn, cacheVars>>
              /\ owner' = owner \/ \E fd \in FreeFds : owner' = [owner EXCEPT ![fd] = Server]
<1>1. ASSUME NEW fd \in FreeFds, FreeConnection(m_ConnectionMap, m_it, fd)
      PROVE  Freed(fd)
  <2>1. m_it \in Nat \cup {Invalid} /\ m_ConnectionMap \in [Fds -> Records] /\ fd \in Fds
    BY DEF TypeOK, FreeFds
  <2>2. QED
    BY <1>1, <2>1, FreeConnectionFrees
<1>2. QED
  BY <1>1 DEF OpenTCP

-----------------------------------------------------------------------------
\* TimeoutConnections and the replies that are queued

LEMMA RequestSockets ==
    ASSUME TypeOK
    PROVE  /\ \A m \in inProcess : m \in Requests /\ m.fd \in Fds /\ m.fd # NoFd
           /\ \A m \in m_outbound_priority_queue : m.fd # NoFd <=> m \in Requests
           /\ \A m \in Requests : m.fd \in Fds /\ m.from \in Clients
BY ConnectionAssumption DEF TypeOK, Messages, Requests

LEMMA PendingStep ==
    ASSUME TypeOK, ListedThere, PendingMarked, [Next]_vars
    PROVE  PendingMarked'
<1>1. CASE UNCHANGED vars
  BY <1>1 DEF PendingMarked, vars, queueVars, cacheVars
<1> SUFFICES ASSUME Step, UNCHANGED scenario
             PROVE  PendingMarked'
  BY <1>1 DEF Next
<1>2. CASE \/ PreQueue
           \/ \E c \in Clients : \/ SendHead(c) \/ SendTail(c) \/ Leave(c)
                                 \/ \E fd \in Fds : Accept(c, fd)
  BY <1>2 DEF PreQueue, SendHead, SendTail, Leave, Accept, PendingMarked, queueVars, cacheVars
<1>3. CASE SendOut
  <2>1. m_outbound_priority_queue' \cap Requests = m_outbound_priority_queue \cap Requests
    BY <1>3, ConnectionAssumption DEF SendOut, Requests
  <2>2. QED
    BY <1>3, <2>1 DEF SendOut, PendingMarked, cacheVars
<1>4. ASSUME NEW m \in inProcess, SendMsg(m)
      PROVE  PendingMarked'
  <2>1. m_ConnectionMap \in [Fds -> Records] /\ m.fd \in Fds /\ m.fd # NoFd
    BY RequestSockets DEF TypeOK
  <2>2. \A f \in Fds : m_ConnectionMap'[f].pendingwrite
                         = (m_ConnectionMap[f].pendingwrite \/ f = m.fd)
    BY <1>4, <2>1 DEF SendMsg, MarkPendingWrite, Records
  <2>3. QED
    BY <1>4, <2>2, RequestSockets DEF SendMsg, PendingMarked
<1>5. ASSUME NEW fd \in Fds, Age(fd)
      PROVE  PendingMarked'
  <2>1. m_ConnectionMap \in [Fds -> Records]
    BY DEF TypeOK
  <2>2. \A f \in Fds : m_ConnectionMap'[f].pendingwrite = m_ConnectionMap[f].pendingwrite
    BY <1>5, <2>1 DEF Age, Records
  <2>3. QED
    BY <1>5, <2>2, RequestSockets DEF Age, PendingMarked, queueVars
<1>6. CASE Lock
  BY <1>6 DEF Lock, PendingMarked, queueVars, cacheVars
<1>7. CASE TimeoutConnection
  <2>1. PICK fd \in Fds : Freed(fd) /\ ~m_ConnectionMap[fd].pendingwrite
    BY <1>7, TimeoutFrees
  <2>2. \A m \in m_outbound_priority_queue \cap Requests : m.fd \in Fds \ {fd}
    BY <1>7, <2>1, RequestSockets DEF TimeoutConnection, PendingMarked
  <2>3. QED
    BY <1>7, <2>1, <2>2 DEF TimeoutConnection, PendingMarked, queueVars, Freed
<1>8. CASE Unlock
  BY <1>8 DEF Unlock, PendingMarked, queueVars
<1>9. ASSUME qpc' \notin {"unlocked", "timeout"}
      PROVE  PendingMarked'
  BY <1>9 DEF PendingMarked
<1>10. QED
  BY <1>2, <1>3, <1>4, <1>5, <1>6, <1>7, <1>8, <1>9
     DEF Step, Run, EndTimeouts, CheckPreQueue, AddPreQueued, Poll, ProcessInboundTask,
         EndInbound,
         ProcessOutboundTask

\* No reply is queued whose record TimeoutConnections frees.
LEMMA SparesStep ==
    ASSUME TypeOK, ListedThere, PendingMarked, [Next]_vars, qpc = "timeout",
           NEW m \in m_outbound_priority_queue, m.fd # NoFd
    PROVE  m_ConnectionMap'[m.fd].State = m_ConnectionMap[m.fd].State
<1>1. CASE TimeoutConnection /\ UNCHANGED scenario
  <2>1. PICK fd \in Fds : Freed(fd) /\ ~m_ConnectionMap[fd].pendingwrite
    BY <1>1, TimeoutFrees
  <2>2. m.fd \in Fds \ {fd}
    BY <2>1, RequestSockets DEF PendingMarked
  <2>3. QED
    BY <2>1, <2>2 DEF Freed
<1>2. CASE UNCHANGED m_ConnectionMap
  BY <1>2
<1>3. QED
  BY <1>1, <1>2
     DEF Next, Step, Run, PreQueue, SendOut, SendMsg, SendHead, SendTail, Leave, Accept, Age,
         Lock, EndTimeouts, CheckPreQueue, AddPreQueued, Poll, ProcessInboundTask, EndInbound,
         ProcessOutboundTask, Unlock, vars, cacheVars

-----------------------------------------------------------------------------
\* Clients, their sockets and what they sent

\* Closing sockets, whatever becomes of what was sent through them.
LEMMA ClosingOneSocket ==
    ASSUME TypeOK, OneSocket, NEW S \in SUBSET Fds,
           \A f \in Fds : owner'[f] = IF f \in S THEN NoClient ELSE owner[f],
           \A c \in Clients : conn'[c] = IF \E f \in S : owner[f] = c THEN "closed" ELSE conn[c],
           \A c \in Clients : unread'[c] = unread[c] \/ unread'[c] = <<>>
    PROVE  OneSocket'
BY ConnectionAssumption DEF OneSocket

LEMMA FreedOneSocket ==
    ASSUME TypeOK, OneSocket, NEW fd \in Fds, Freed(fd),
           \A c \in Clients : unread'[c] = unread[c] \/ unread'[c] = <<>>
    PROVE  OneSocket'
<1>1. /\ \A f \in Fds : owner'[f] = IF f \in {fd} THEN NoClient ELSE owner[f]
      /\ \A c \in Clients : conn'[c] = IF \E f \in {fd} : owner[f] = c THEN "closed" ELSE conn[c]
  BY DEF Freed
<1>2. QED
  BY <1>1, ClosingOneSocket

\* A socket of this server.
LEMMA ServerSocket ==
    ASSUME TypeOK, OneSocket, NEW fd \in FreeFds, owner' = [owner EXCEPT ![fd] = Server],
           UNCHANGED <<conn, unread>>
    PROVE  OneSocket'
<1>1. \A f \in Fds : owner'[f] = IF f = fd THEN Server ELSE owner[f]
  BY DEF TypeOK
<1>2. owner[fd] = NoClient /\ NoClient \notin Clients /\ Server \notin Clients
  BY ConnectionAssumption DEF FreeFds
<1>3. QED
  BY <1>1, <1>2 DEF OneSocket

LEMMA OneSocketStep ==
    ASSUME TypeOK, ListedThere, OneSocket, [Next]_vars
    PROVE  OneSocket'
<1>1. CASE UNCHANGED <<owner, conn, unread>>
  BY <1>1 DEF OneSocket
<1>2. CASE UNCHANGED vars
  BY <1>1, <1>2 DEF vars, kernelVars
<1> SUFFICES ASSUME Step, UNCHANGED scenario
             PROVE  OneSocket'
  BY <1>2 DEF Next
<1>3. ASSUME NEW c \in Clients, SendHead(c) \/ SendTail(c)
      PROVE  OneSocket'
  <2>1. conn[c] = "open" /\ UNCHANGED <<owner, conn>>
    BY <1>3 DEF SendHead, SendTail
  <2>2. \A d \in Clients \ {c} : unread'[d] = unread[d]
    BY <1>3 DEF SendHead, SendTail, TypeOK
  <2>3. QED
    BY <2>1, <2>2 DEF OneSocket
<1>4. ASSUME NEW c \in Clients, Leave(c)
      PROVE  OneSocket'
  <2>1. \A d \in Clients : conn'[d] = conn[d] \/ (d = c /\ conn[c] = "open"
                                                  /\ conn'[c] \in {"left", "reset"})
    BY <1>4 DEF Leave, TypeOK
  <2>2. UNCHANGED <<owner, unread>>
    BY <1>4 DEF Leave
  <2>3. QED
    BY <2>1, <2>2 DEF OneSocket
<1>5. ASSUME NEW c \in Clients, NEW fd \in Fds, Accept(c, fd)
      PROVE  OneSocket'
  <2>1. conn[c] = "new" /\ owner[fd] = NoClient /\ UNCHANGED unread
    BY <1>5 DEF Accept, FreeFds
  <2>2. CASE owner' = [owner EXCEPT ![fd] = c] /\ conn' = [conn EXCEPT ![c] = "open"]
    <3>1. /\ \A f \in Fds : owner'[f] = IF f = fd THEN c ELSE owner[f]
          /\ \A d \in Clients : conn'[d] = IF d = c THEN "open" ELSE conn[d]
      BY <2>2 DEF TypeOK
    <3>2. QED
      BY <2>1, <3>1, ConnectionAssumption DEF OneSocket
  <2>3. CASE conn' = [conn EXCEPT ![c] = "closed"] /\ UNCHANGED owner
    <3>1. \A d \in Clients : conn'[d] = IF d = c THEN "closed" ELSE conn[d]
      BY <2>3 DEF TypeOK
    <3>2. QED
      BY <2>1, <2>3, <3>1 DEF OneSocket
  <2>4. QED
    BY <1>5, <2>2, <2>3 DEF Accept
<1>6. CASE TimeoutConnection
  <2>1. PICK fd \in Fds : Freed(fd)
    BY <1>6, TimeoutFrees
  <2>2. UNCHANGED unread
    BY <1>6 DEF TimeoutConnection
  <2>3. QED
    BY <2>1, <2>2, FreedOneSocket
<1>7. CASE ProcessInboundTask
  <2>1. PICK i \in DOMAIN m_ActiveConnectionList : ReceiveFrom(i)
    BY <1>7 DEF ProcessInboundTask, SetRecords
  <2> DEFINE fd == m_ActiveConnectionList[i]
  <2>2. \A c \in Clients : unread'[c] = unread[c] \/ unread'[c] = <<>>
    BY <2>1 DEF ReceiveFrom
  <2>3. fd \in Fds
    BY PlaceType
  <2>4. Freed(fd) \/ UNCHANGED <<owner, conn>>
    BY <2>1, ReceiveFreesOrStays
  <2>5. CASE UNCHANGED <<owner, conn>>
    BY <2>2, <2>5 DEF OneSocket
  <2> HIDE DEF fd
  <2>6. QED
    BY <2>2, <2>3, <2>4, <2>5, FreedOneSocket
<1>8. ASSUME NEW m \in m_outbound_priority_queue, ProcessOutboundTask(m)
      PROVE  OneSocket'
  <2>1. UNCHANGED unread
    BY <1>8 DEF ProcessOutboundTask
  <2>2. CASE m.fd = NoFd
    <3>1. OpenTCP(m)
      BY <1>8, <2>2 DEF ProcessOutboundTask
    <3>2. CASE \E fd \in FreeFds : Freed(fd)
      BY <2>1, <3>2, FreedOneSocket DEF FreeFds
    <3>3. CASE UNCHANGED conn /\ \E fd \in FreeFds : owner' = [owner EXCEPT ![fd] = Server]
      BY <2>1, <3>3, ServerSocket
    <3>4. QED
      BY <1>1, <2>1, <3>1, <3>2, <3>3, OpenTCPEffect
  <2>3. CASE m.fd # NoFd
    <3>1. PICK sent \in BOOLEAN : Transmit(m, sent)
      BY <1>8, <2>3 DEF ProcessOutboundTask, SendOutcomes
    <3>2. m \in Requests /\ m.fd \in Fds
      BY <2>3, RequestSockets
    <3>3. CASE Freed(m.fd)
      BY <2>1, <3>2, <3>3, FreedOneSocket
    <3>4. CASE CloseSockets(IF sent THEN {} ELSE {m.fd})
      <4> DEFINE S == IF sent THEN {} ELSE {m.fd}
      <4>1. S \in SUBSET Fds
        BY <3>2
      <4> HIDE DEF S
      <4>2. /\ \A f \in Fds : owner'[f] = IF f \in S THEN NoClient ELSE owner[f]
            /\ \A c \in Clients : conn'[c] = IF \E f \in S : owner[f] = c THEN "closed"
                                             ELSE conn[c]
        BY <3>4, <4>1, Closing DEF S
      <4>3. QED
        BY <2>1, <4>1, <4>2, ClosingOneSocket
    <3>5. QED
      BY <3>1, <3>2, <3>3, <3>4, TransmitFreesOrStays
  <2>4. QED
    BY <2>2, <2>3
<1>9. QED
  BY <1>1, <1>3, <1>4, <1>5, <1>6, <1>7, <1>8
     DEF Step, Run, PreQueue, SendOut, SendMsg, Age, Lock, EndTimeouts, CheckPreQueue,
         AddPreQueued, Poll,
         EndInbound, Unlock, kernelVars

-----------------------------------------------------------------------------
\* Data of the client it is kept for

OwnSeq(s, c) == \A i \in 1 .. Len(s) : s[i][1] = c

LEMMA OwnConcat ==
    ASSUME NEW s \in Seq(Tokens), NEW t \in Seq(Tokens), NEW c, OwnSeq(s, c), OwnSeq(t, c)
    PROVE  OwnSeq(s \o t, c)
<1>1. /\ Len(s \o t) = Len(s) + Len(t) /\ Len(s) \in Nat /\ Len(t) \in Nat
      /\ \A i \in 1 .. Len(s) + Len(t) :
           (s \o t)[i] = IF i <= Len(s) THEN s[i] ELSE t[i - Len(s)]
  BY ConcatProperties, LenProperties
<1>2. QED
  BY <1>1 DEF OwnSeq

LEMMA OwnSubSeq ==
    ASSUME NEW s \in Seq(Tokens), NEW c, OwnSeq(s, c), NEW n \in 0 .. Len(s)
    PROVE  OwnSeq(SubSeq(s, n + 1, Len(s)), c)
<1>1. Len(s) \in Nat /\ \A i \in n + 1 .. Len(s) : s[i] \in Tokens
  BY ElementOfSeq, LenProperties
<1>2. /\ Len(SubSeq(s, n + 1, Len(s))) = IF n + 1 <= Len(s) THEN Len(s) - (n + 1) + 1 ELSE 0
      /\ \A i \in 1 .. Len(s) - (n + 1) + 1 : SubSeq(s, n + 1, Len(s))[i] = s[n + 1 + i - 1]
  BY <1>1, SubSeqProperties
<1>3. QED
  BY <1>1, <1>2 DEF OwnSeq

LEMMA OwnEmpty == \A c : OwnSeq(<<>>, c)
BY DEF OwnSeq

\* What is kept for nobody is nothing.
LEMMA NobodyEmpty ==
    ASSUME NEW s \in Seq(Tokens), NEW c, c \notin Clients, OwnSeq(s, c)
    PROVE  s = <<>>
<1>1. SUFFICES ASSUME s # <<>> PROVE FALSE
  OBVIOUS
<1>2. Len(s) \in Nat \ {0}
  BY <1>1, EmptySeq
<1>3. 1 \in 1 .. Len(s)
  BY <1>2
<1>4. s[1] \in Tokens /\ s[1][1] = c
  BY <1>3, ElementOfSeq DEF OwnSeq
<1>5. QED
  BY <1>4, TokenParts

LEMMA KeptType ==
    ASSUME TypeOK, NEW fd \in Fds
    PROVE  Kept(fd) \in Seq(Tokens) /\ DOMAIN Kept(fd) = 1 .. Len(Kept(fd))
<1>1. Kept(fd) \in Seq(Tokens)
  BY ReceivedType, EmptySeq DEF Kept
<1>2. QED
  BY <1>1, LenProperties

LEMMA OwnUnreadStep ==
    ASSUME TypeOK, ListedThere, OwnUnread, [Next]_vars
    PROVE  OwnUnread'
<1>1. TypeOK'
  BY TypeStep
<1>2. /\ \A c \in Clients : unread[c] \in Seq(Tokens) /\ DOMAIN unread[c] = 1 .. Len(unread[c])
      /\ \A c \in Clients : unread'[c] \in Seq(Tokens')
                            /\ DOMAIN unread'[c] = 1 .. Len(unread'[c])
  BY <1>1, LenProperties DEF TypeOK
<1>3. \A c \in Clients : OwnSeq(unread[c], c)
  BY <1>2 DEF OwnUnread, OwnSeq
<1>4. SUFFICES \A c \in Clients : OwnSeq(unread'[c], c)
  BY <1>2 DEF OwnUnread, OwnSeq
<1>5. CASE UNCHANGED unread
  BY <1>3, <1>5
<1>6. ASSUME NEW c \in Clients, SendHead(c) \/ SendTail(c), UNCHANGED scenario
      PROVE  \A d \in Clients : OwnSeq(unread'[d], d)
  <2>1. PICK t \in {<<c, asked[c] + 1, "head">>, <<c, asked[c], "tail">>} :
               t[1] = c /\ unread' = [unread EXCEPT ![c] = Append(@, t)]
    BY <1>6 DEF SendHead, SendTail
  <2>2. unread'[c] = Append(unread[c], t) /\ \A d \in Clients \ {c} : unread'[d] = unread[d]
    BY <2>1 DEF TypeOK
  <2>3. OwnSeq(unread'[c], c)
    <3>1. Len(Append(unread[c], t)) = Len(unread[c]) + 1
          /\ \A i \in 1 .. Len(unread[c]) + 1 :
               Append(unread[c], t)[i] = IF i <= Len(unread[c]) THEN unread[c][i] ELSE t
      <4>1. unread[c] \in Seq(Tokens \cup {t})
        BY <1>2, SeqMonotonic
      <4>2. QED
        BY <4>1, AppendProperties
    <3>2. QED
      BY <1>2, <1>3, <2>1, <2>2, <3>1 DEF OwnSeq
  <2>4. QED
    BY <1>3, <2>2, <2>3
<1>7. CASE ProcessInboundTask
  <2>1. \A c \in Clients : unread'[c] = unread[c] \/ unread'[c] = <<>>
    BY <1>7 DEF ProcessInboundTask, ReceiveFrom
  <2>2. QED
    BY <1>3, <2>1, OwnEmpty
<1>8. QED
  BY <1>5, <1>6, <1>7
     DEF Next, Step, Run, PreQueue, SendOut, SendMsg, Leave, Accept, Age, Lock,
         TimeoutConnection, EndTimeouts, CheckPreQueue, AddPreQueued, Poll, EndInbound,
         ProcessOutboundTask,
         Unlock, vars, kernelVars

\* OwnData of clients that keep no order.
OwnKept == \A fd \in Fds : OwnSeq(Kept(fd), owner[fd])

LEMMA OwnKeptMeaning ==
    ASSUME TypeOK
    PROVE  OwnKept <=> \A fd \in Fds : \A i \in DOMAIN Kept(fd) : Kept(fd)[i][1] = owner[fd]
BY KeptType DEF OwnKept, OwnSeq

\* A socket changes hands only while nothing is kept for it.
LEMMA OwnKeptNewOwner ==
    ASSUME TypeOK, OwnKept, UNCHANGED m_ConnectionMap,
           NEW fd \in FreeFds, \A f \in Fds \ {fd} : owner'[f] = owner[f]
    PROVE  OwnKept'
<1>1. owner[fd] = NoClient /\ fd \in Fds
  BY DEF FreeFds
<1>2. Kept(fd) = <<>>
  BY <1>1, NobodyEmpty, KeptType, ConnectionAssumption DEF OwnKept
<1>3. \A f \in Fds : Kept(f)' = Kept(f)
  BY DEF Kept
<1>4. QED
  BY <1>2, <1>3, OwnEmpty DEF OwnKept

LEMMA FreedOwnKept ==
    ASSUME OwnKept, NEW fd \in Fds, Freed(fd)
    PROVE  OwnKept'
<1>1. Kept(fd)' = <<>>
  BY DEF Freed, Kept
<1>2. \A f \in Fds \ {fd} : Kept(f)' = Kept(f) /\ owner'[f] = owner[f]
  BY DEF Freed, Kept
<1>3. QED
  BY <1>1, <1>2, OwnEmpty DEF OwnKept

\* Nothing changes in what is kept, or for whom.
LEMMA SameOwnKept ==
    ASSUME OwnKept, UNCHANGED owner,
           \A f \in Fds : /\ m_ConnectionMap'[f].State = m_ConnectionMap[f].State
                          /\ m_ConnectionMap'[f].buffer = m_ConnectionMap[f].buffer
    PROVE  OwnKept'
BY DEF OwnKept, Kept

LEMMA ReceivedOwn ==
    ASSUME TypeOK, OwnUnread, OwnKept, NEW fd \in Fds, m_ConnectionMap[fd].State = "WAITING"
    PROVE  OwnSeq(Filled(fd), owner[fd])
<1>1. OwnSeq(m_ConnectionMap[fd].buffer, owner[fd])
  BY DEF OwnKept, Kept
<1>2. OwnSeq(Received(fd), owner[fd])
  <2>1. CASE IsClient(fd) /\ ~SocketFails(fd)
    <3>1. owner[fd] \in Clients /\ Received(fd) = unread[owner[fd]]
      BY <2>1 DEF IsClient, Received
    <3>2. DOMAIN unread[owner[fd]] = 1 .. Len(unread[owner[fd]])
      BY <3>1, LenProperties DEF TypeOK
    <3>3. QED
      BY <3>1, <3>2 DEF OwnUnread, OwnSeq
  <2>2. CASE ~(IsClient(fd) /\ ~SocketFails(fd))
    BY <2>2, OwnEmpty DEF Received
  <2>3. QED
    BY <2>1, <2>2
<1>3. QED
  BY <1>1, <1>2, OwnConcat, ReceivedType DEF Filled

\* Reading from a record, with what is kept for the others.
LEMMA StayOwnKept ==
    ASSUME TypeOK, OwnUnread, OwnKept, NEW fd \in Fds, m_ConnectionMap[fd].State = "WAITING",
           m_ConnectionMap' = Taken(fd, m_msgSize(Filled(fd))), UNCHANGED owner
    PROVE  OwnKept'
<1> DEFINE size == m_msgSize(Filled(fd))
<1>1. Filled(fd) \in Seq(Tokens) /\ OwnSeq(Filled(fd), owner[fd])
  BY ReceivedOwn, ReceivedType
<1>2. size \in 0 .. Len(Filled(fd))
  BY <1>1, MsgSize
<1>3. OwnSeq(SubSeq(Filled(fd), size + 1, Len(Filled(fd))), owner[fd])
  BY <1>1, <1>2, OwnSubSeq
<1> HIDE DEF size
<1>4. /\ m_ConnectionMap'[fd].buffer = SubSeq(Filled(fd), size + 1, Len(Filled(fd)))
      /\ m_ConnectionMap'[fd].State = m_ConnectionMap[fd].State
      /\ \A f \in Fds \ {fd} : m_ConnectionMap'[f] = m_ConnectionMap[f]
  BY <1>2, TakenType DEF size
<1>5. /\ Kept(fd)' = SubSeq(Filled(fd), size + 1, Len(Filled(fd)))
      /\ \A f \in Fds \ {fd} : Kept(f)' = Kept(f)
  BY <1>4 DEF Kept
<1>6. QED
  BY <1>3, <1>5 DEF OwnKept

\* The socket m_bSocketCreated speaks of was made by OpenTCP, once and for all.
LEMMA SocketCreatedStep ==
    ASSUME [Next]_vars, m_bSocketCreated
    PROVE  m_bSocketCreated'
BY DEF Next, Step, Run, PreQueue, SendOut, SendMsg, SendHead, SendTail, Leave, Accept, Age,
       Lock, TimeoutConnection, EndTimeouts, CheckPreQueue, AddPreQueued, Poll,
       ProcessInboundTask,
       EndInbound, ProcessOutboundTask, OpenTCP, Transmit, Unlock, vars, queueVars

LEMMA OwnKeptStep ==
    ASSUME TypeOK, ListedThere, OwnUnread, OwnKept, ~m_bSocketCreated', [Next]_vars
    PROVE  OwnKept'
<1>1. CASE UNCHANGED <<owner, m_ConnectionMap>>
  BY <1>1 DEF OwnKept, Kept
<1>2. CASE UNCHANGED vars
  BY <1>1, <1>2 DEF vars, kernelVars, cacheVars
<1> SUFFICES ASSUME Step, UNCHANGED scenario
             PROVE  OwnKept'
  BY <1>2 DEF Next
<1>3. ASSUME NEW c \in Clients, NEW fd \in Fds, Accept(c, fd)
      PROVE  OwnKept'
  <2>1. fd \in FreeFds /\ UNCHANGED m_ConnectionMap
    BY <1>3 DEF Accept, cacheVars
  <2>2. \A f \in Fds \ {fd} : owner'[f] = owner[f]
    BY <1>3 DEF Accept, TypeOK
  <2>3. QED
    BY <2>1, <2>2, OwnKeptNewOwner
<1>4. ASSUME NEW m \in inProcess, SendMsg(m)
      PROVE  OwnKept'
  <2>1. m_ConnectionMap \in [Fds -> Records]
    BY DEF TypeOK
  <2>2. \A f \in Fds : /\ m_ConnectionMap'[f].State = m_ConnectionMap[f].State
                       /\ m_ConnectionMap'[f].buffer = m_ConnectionMap[f].buffer
    BY <1>4, <2>1 DEF SendMsg, MarkPendingWrite, Records
  <2>3. UNCHANGED owner
    BY <1>4 DEF SendMsg, kernelVars
  <2>4. QED
    BY <2>2, <2>3, SameOwnKept
<1>5. ASSUME NEW fd \in Fds, Age(fd)
      PROVE  OwnKept'
  <2>1. m_ConnectionMap \in [Fds -> Records]
    BY DEF TypeOK
  <2>2. \A f \in Fds : /\ m_ConnectionMap'[f].State = m_ConnectionMap[f].State
                       /\ m_ConnectionMap'[f].buffer = m_ConnectionMap[f].buffer
    BY <1>5, <2>1 DEF Age, Records
  <2>3. UNCHANGED owner
    BY <1>5 DEF Age, kernelVars
  <2>4. QED
    BY <2>2, <2>3, SameOwnKept
<1>6. CASE TimeoutConnection
  BY <1>6, TimeoutFrees, FreedOwnKept
<1>7. CASE AddPreQueued
  <2>1. \A f \in Fds : Kept(f)' = Kept(f) \/ Kept(f)' = <<>>
    BY <1>7 DEF AddPreQueued, AddConnections, BufferOfNew, Kept
  <2>2. UNCHANGED owner
    BY <1>7 DEF AddPreQueued, kernelVars
  <2>3. QED
    BY <2>1, <2>2, OwnEmpty DEF OwnKept
<1>8. CASE ProcessInboundTask
  <2>1. PICK i \in SetRecords : ReceiveFrom(i)
    BY <1>8 DEF ProcessInboundTask
  <2> DEFINE fd == m_ActiveConnectionList[i]
  <2>2. i \in DOMAIN m_ActiveConnectionList /\ m_ConnectionMap[fd].State = "WAITING"
    BY DEF SetRecords
  <2>3. fd \in Fds
    BY <2>2, PlaceType
  <2>4. \/ Freed(fd)
        \/ m_ConnectionMap' = Taken(fd, m_msgSize(Filled(fd))) /\ UNCHANGED owner
    BY <2>1, <2>2, ReceiveFreesOrStays
  <2> HIDE DEF fd
  <2>5. QED
    BY <2>2, <2>3, <2>4, FreedOwnKept, StayOwnKept
<1>9. ASSUME NEW m \in m_outbound_priority_queue, ProcessOutboundTask(m)
      PROVE  OwnKept'
  <2>1. ~m_bSocketCreated
    BY SocketCreatedStep
  <2>2. CASE m.fd = NoFd
    <3>1. OpenTCP(m)
      BY <1>9, <2>2 DEF ProcessOutboundTask
    <3>2. CASE \E fd \in FreeFds : Freed(fd)
      BY <3>2, FreedOwnKept DEF FreeFds
    <3>3. ASSUME NEW fd \in FreeFds, owner' = [owner EXCEPT ![fd] = Server],
                 UNCHANGED m_ConnectionMap
          PROVE  OwnKept'
      <4>1. \A f \in Fds \ {fd} : owner'[f] = owner[f]
        BY <3>3 DEF TypeOK
      <4>2. QED
        BY <3>3, <4>1, OwnKeptNewOwner
    <3>4. QED
      BY <1>1, <3>1, <3>2, <3>3, OpenTCPEffect DEF cacheVars
  <2>3. CASE m.fd # NoFd
    <3>1. PICK sent \in BOOLEAN : Transmit(m, sent)
      BY <1>9, <2>3 DEF ProcessOutboundTask, SendOutcomes
    <3>2. m \in Requests /\ m.fd \in Fds
      BY <2>3, RequestSockets
    <3>3. CASE Freed(m.fd)
      BY <3>2, <3>3, FreedOwnKept
    <3>4. CASE m_ConnectionMap' = Written(m.fd, sent) /\ sent /\ CloseSockets({})
      <4>1. \A f \in Fds : /\ m_ConnectionMap'[f].State = m_ConnectionMap[f].State
                           /\ m_ConnectionMap'[f].buffer = m_ConnectionMap[f].buffer
        BY <3>2, <3>4, WrittenType
      <4>2. UNCHANGED owner
        BY <3>4 DEF CloseSockets, TypeOK
      <4>3. QED
        BY <4>1, <4>2, SameOwnKept
    <3>5. QED
      BY <2>1, <3>1, <3>2, <3>3, <3>4, TransmitFreesOrStays
  <2>4. QED
    BY <2>2, <2>3
<1>10. QED
  BY <1>1, <1>3, <1>4, <1>5, <1>6, <1>7, <1>8, <1>9
     DEF Step, Run, PreQueue, SendOut, SendHead, SendTail, Leave, Lock, EndTimeouts,
         CheckPreQueue, Poll,
         EndInbound, Unlock, kernelVars, cacheVars

-----------------------------------------------------------------------------
\* Orderly clients: where their sockets are

LEMMA SameAccounted ==
    ASSUME Accounted, UNCHANGED <<accepted, m_PreQueue, m_ActiveConnectionList>>,
           \A f \in Fds : /\ m_ConnectionMap'[f].State = m_ConnectionMap[f].State
                          /\ m_ConnectionMap'[f].listed = m_ConnectionMap[f].listed
                          /\ owner'[f] \in Clients <=> owner[f] \in Clients
    PROVE  Accounted'
BY DEF Accounted, Places, IsClient

\* Where a socket is, in words that do not need Places.
LEMMA PlacesMeaning ==
    ASSUME NEW fd \in Fds
    PROVE  /\ Places(fd) = {} <=> /\ accepted # fd
                                  /\ fd \notin Range(m_PreQueue)
                                  /\ fd \notin Range(m_ActiveConnectionList)
           /\ Places(fd) = {"server"} <=> /\ accepted = fd
                                          /\ fd \notin Range(m_PreQueue)
                                          /\ fd \notin Range(m_ActiveConnectionList)
           /\ Places(fd) = {"prequeue"} <=> /\ accepted # fd
                                            /\ fd \in Range(m_PreQueue)
                                            /\ fd \notin Range(m_ActiveConnectionList)
           /\ Places(fd) = {"cache"} <=> /\ accepted # fd
                                         /\ fd \notin Range(m_PreQueue)
                                         /\ fd \in Range(m_ActiveConnectionList)
<1>1. /\ "server" \in Places(fd) <=> accepted = fd
      /\ "prequeue" \in Places(fd) <=> fd \in Range(m_PreQueue)
      /\ "cache" \in Places(fd) <=> fd \in Range(m_ActiveConnectionList)
      /\ Places(fd) \subseteq {"server", "prequeue", "cache"}
  BY DEF Places
<1>2. QED
  BY <1>1

\* What Accounted says of one socket.
LEMMA AccountedMeaning ==
    ASSUME Accounted, NEW fd \in Fds
    PROVE  /\ IsClient(fd) <=> \/ accepted = fd
                               \/ fd \in Range(m_PreQueue)
                               \/ fd \in Range(m_ActiveConnectionList)
           /\ accepted = fd => /\ fd \notin Range(m_PreQueue)
                               /\ fd \notin Range(m_ActiveConnectionList)
           /\ fd \in Range(m_PreQueue) => fd \notin Range(m_ActiveConnectionList)
           /\ m_ConnectionMap[fd].State = "WAITING" <=> fd \in Range(m_ActiveConnectionList)
           /\ m_ConnectionMap[fd].listed = (fd \in Range(m_ActiveConnectionList))
<1>1. IF IsClient(fd) THEN Places(fd) \in {{"server"}, {"prequeue"}, {"cache"}}
                      ELSE Places(fd) = {}
  BY DEF Accounted
<1>2. QED
  BY <1>1, PlacesMeaning DEF Accounted

\* The other way round.
LEMMA AccountedIf ==
    ASSUME IsInjective(m_PreQueue'), IsInjective(m_ActiveConnectionList'),
           \A fd \in Fds :
             LET r == m_ConnectionMap'[fd]
             IN  /\ owner'[fd] \in Clients => \/ Places(fd)' = {"server"}
                                              \/ Places(fd)' = {"prequeue"}
                                              \/ Places(fd)' = {"cache"}
                 /\ owner'[fd] \notin Clients => Places(fd)' = {}
                 /\ r.listed = (fd \in Range(m_ActiveConnectionList'))
                 /\ r.listed = (r.State = "WAITING")
    PROVE  Accounted'
BY DEF Accounted, IsClient

LEMMA FreedAccounted ==
    ASSUME TypeOK, Accounted, NEW fd \in Fds, Freed(fd),
           fd \in Range(m_ActiveConnectionList) \/ owner[fd] = NoClient,
           UNCHANGED <<accepted, m_PreQueue>>
    PROVE  Accounted'
<1>1. /\ IsInjective(m_PreQueue) /\ IsInjective(m_ActiveConnectionList)
      /\ \A f \in Fds : m_ConnectionMap[f].listed = (f \in Range(m_ActiveConnectionList))
      /\ \A f \in Fds : m_ConnectionMap[f].listed = (m_ConnectionMap[f].State = "WAITING")
  BY DEF Accounted
<1>2. IsInjective(m_PreQueue') /\ IsInjective(m_ActiveConnectionList')
  BY <1>1 DEF Freed
<1>3. accepted # fd /\ fd \notin Range(m_PreQueue)
  BY AccountedMeaning, ConnectionAssumption DEF IsClient
<1>4. fd \notin Range(m_ActiveConnectionList')
  BY <1>1 DEF Freed
<1>5. accepted' # fd /\ fd \notin Range(m_PreQueue')
  BY <1>3
<1>6. Places(fd)' = {}
  BY <1>4, <1>5 DEF Places
<1>7. ASSUME NEW f \in Fds \ {fd}
      PROVE  Places(f)' = Places(f)
  BY DEF Freed, Places
<1>8. QED
  <2>1. /\ owner'[fd] \notin Clients
        /\ m_ConnectionMap'[fd].listed = (fd \in Range(m_ActiveConnectionList'))
        /\ m_ConnectionMap'[fd].listed = (m_ConnectionMap'[fd].State = "WAITING")
    <3>1. owner'[fd] \notin Clients
      BY ConnectionAssumption DEF Freed
    <3>2. m_ConnectionMap'[fd].State = "FREE" /\ m_ConnectionMap'[fd].listed = FALSE
      BY DEF Freed
    <3>3. (fd \in Range(m_ActiveConnectionList')) = FALSE
      BY <1>4
    <3>4. (m_ConnectionMap'[fd].State = "WAITING") = FALSE
      BY <3>2
    <3>5. QED
      BY <3>1, <3>2, <3>3, <3>4, Zenon
  <2>2. ASSUME NEW f \in Fds \ {fd}
        PROVE  /\ owner'[f] \in Clients => \/ Places(f)' = {"server"}
                                           \/ Places(f)' = {"prequeue"}
                                           \/ Places(f)' = {"cache"}
               /\ owner'[f] \notin Clients => Places(f)' = {}
               /\ m_ConnectionMap'[f].listed = (f \in Range(m_ActiveConnectionList'))
               /\ m_ConnectionMap'[f].listed = (m_ConnectionMap'[f].State = "WAITING")
    BY <1>1, <1>7 DEF Freed, Accounted, IsClient
  <2>3. \A f \in Fds :
             LET r == m_ConnectionMap'[f]
             IN  /\ owner'[f] \in Clients => \/ Places(f)' = {"server"}
                                             \/ Places(f)' = {"prequeue"}
                                             \/ Places(f)' = {"cache"}
                 /\ owner'[f] \notin Clients => Places(f)' = {}
                 /\ r.listed = (f \in Range(m_ActiveConnectionList'))
                 /\ r.listed = (r.State = "WAITING")
    BY <1>6, <2>1, <2>2
  <2>4. QED
    BY <1>2, <2>3, AccountedIf

-----------------------------------------------------------------------------
\* Orderly clients: what has arrived from them

\* Nothing that concerns this client has changed.
SameClient(c) ==
    /\ unread'[c] = unread[c] /\ asked'[c] = asked[c]
    /\ answered'[c] = answered[c] /\ conn'[c] = conn[c]

LEMMA SameInTurn ==
    ASSUME NEW fd \in Fds, NEW c \in Clients, InTurn(fd, c), SameClient(c), Kept(fd)' = Kept(fd)
    PROVE  InTurn(fd, c)'
BY DEF InTurn, SameClient, Due

LEMMA DataInTurnIf ==
    ASSUME DataInTurn,
           \A f \in Fds, c \in Clients :
             owner'[f] = c => \/ InTurn(f, c)'
                              \/ owner[f] = c /\ SameClient(c) /\ Kept(f)' = Kept(f)
    PROVE  DataInTurn'
BY SameInTurn DEF DataInTurn

LEMMA FreedInTurn ==
    ASSUME TypeOK, OneSocket, DataInTurn, NEW fd \in Fds, Freed(fd), UNCHANGED asked,
           \A c \in Clients : c # owner[fd] => /\ unread'[c] = unread[c]
                                               /\ answered'[c] = answered[c]
    PROVE  DataInTurn'
<1>1. ASSUME NEW f \in Fds, NEW c \in Clients, owner'[f] = c
      PROVE  owner[f] = c /\ SameClient(c) /\ Kept(f)' = Kept(f)
  <2>1. f # fd
    BY <1>1, ConnectionAssumption DEF Freed
  <2>2. owner[f] = c /\ Kept(f)' = Kept(f)
    BY <1>1, <2>1 DEF Freed, Kept
  <2>3. c # owner[fd]
    BY <2>1, <2>2 DEF OneSocket
  <2>4. conn'[c] = conn[c]
    BY <2>3 DEF Freed
  <2>5. QED
    BY <2>2, <2>3, <2>4 DEF SameClient
<1>2. QED
  BY <1>1, DataInTurnIf

\* Sequences of one or two tokens.
LEMMA ShortSeqs ==
    ASSUME NEW a, NEW b
    PROVE  /\ <<>> \o <<>> = <<>> /\ <<>> \o <<a>> = <<a>> /\ <<>> \o <<a, b>> = <<a, b>>
           /\ <<a>> \o <<>> = <<a>> /\ <<a>> \o <<b>> = <<a, b>>
           /\ Len(<<>>) = 0 /\ Len(<<a>>) = 1 /\ Len(<<a, b>>) = 2
           /\ <<a>>[1] = a /\ <<a, b>>[1] = a /\ <<a, b>>[2] = b
           /\ SubSeq(<<>>, 1, 0) = <<>> /\ SubSeq(<<a>>, 1, 1) = <<a>>
           /\ SubSeq(<<a, b>>, 3, 2) = <<>>
           /\ Append(<<>>, a) = <<a>> /\ Append(<<a>>, b) = <<a, b>>
           /\ <<a>> # <<>> /\ <<a, b>> # <<>> /\ <<a, b>> # <<a>>
<1>1. /\ <<>> \o <<>> = <<>> /\ <<>> \o <<a>> = <<a>> /\ <<>> \o <<a, b>> = <<a, b>>
      /\ <<a>> \o <<>> = <<a>>
  OBVIOUS
<1>2. /\ Len(<<>>) = 0 /\ Len(<<a>>) = 1 /\ Len(<<a, b>>) = 2
      /\ <<a>>[1] = a /\ <<a, b>>[1] = a /\ <<a, b>>[2] = b
  OBVIOUS
<1>3. /\ SubSeq(<<>>, 1, 0) = <<>> /\ SubSeq(<<a, b>>, 3, 2) = <<>>
  OBVIOUS
<1>4. <<a>> # <<>> /\ <<a, b>> # <<>> /\ <<a, b>> # <<a>> /\ Append(<<>>, a) = <<a>>
  OBVIOUS
<1> DEFINE S == {a, b}
<1>5. <<a>> \in Seq(S) /\ <<b>> \in Seq(S) /\ <<a, b>> \in Seq(S) /\ a \in S /\ b \in S
  OBVIOUS
<1> HIDE DEF S
<1>6. <<a>> \o <<b>> = <<a, b>>
  <2>1. /\ <<a>> \o <<b>> \in Seq(S) /\ Len(<<a>> \o <<b>>) = 2
        /\ (<<a>> \o <<b>>)[1] = a /\ (<<a>> \o <<b>>)[2] = b
    BY <1>5, ConcatProperties
  <2>2. \A i \in 1 .. 2 : (<<a>> \o <<b>>)[i] = <<a, b>>[i]
    BY <1>2, <2>1
  <2>3. QED
    BY <1>2, <1>5, <2>1, <2>2, SeqEqual
<1>7. Append(<<a>>, b) = <<a, b>>
  <2>1. /\ Append(<<a>>, b) \in Seq(S) /\ Len(Append(<<a>>, b)) = 2
        /\ Append(<<a>>, b)[1] = a /\ Append(<<a>>, b)[2] = b
    BY <1>5, AppendProperties
  <2>2. \A i \in 1 .. 2 : Append(<<a>>, b)[i] = <<a, b>>[i]
    BY <1>2, <2>1
  <2>3. QED
    BY <1>2, <1>5, <2>1, <2>2, SeqEqual
<1>8. SubSeq(<<a>>, 1, 1) = <<a>>
  BY <1>2, <1>5, SubSeqFull
<1>9. QED
  BY <1>1, <1>2, <1>3, <1>4, <1>6, <1>7, <1>8

\* Of a client that sends in turn, what a receive makes of the buffer: nothing,
\* the head of its last request, or all of it.
LEMMA FilledInTurn ==
    ASSUME TypeOK, NEW fd \in Fds, NEW c \in Clients, owner[fd] = c, InTurn(fd, c),
           ~SocketFails(fd), m_ConnectionMap[fd].State = "WAITING"
    PROVE  LET head == <<c, asked[c], "head">>
               tail == <<c, asked[c], "tail">>
               filled == Filled(fd)
               size == m_msgSize(filled)
           IN  /\ \/ filled = <<>> /\ size = 0 /\ Received(fd) = <<>>
                  \/ filled = <<head>> /\ size = 0
                  \/ filled = <<head, tail>> /\ size = 2 /\ Received(fd) # <<>>
               /\ filled # <<>> => Due(c) /\ conn[c] = "open"
               /\ SubSeq(filled, size + 1, Len(filled)) = IF size = 0 THEN filled ELSE <<>>
               /\ filled = <<>> <=> Kept(fd) = <<>> /\ unread[c] = <<>>
               /\ Received(fd) = unread[c]
<1> DEFINE head == <<c, asked[c], "head">>
           tail == <<c, asked[c], "tail">>
           filled == Filled(fd)
           size == m_msgSize(filled)
<1>1. Received(fd) = unread[c] /\ Filled(fd) = Kept(fd) \o unread[c]
  BY DEF Received, Filled, Kept, IsClient
<1>2. head[3] = "head" /\ tail[3] = "tail"
  OBVIOUS
<1>3. filled \in Seq(Tokens)
  BY ReceivedType
<1>4. /\ size \in 0 .. Len(filled)
      /\ size = 0 <=> (\A i \in 1 .. Len(filled) : filled[i][3] # "tail")
      /\ size # 0 => filled[size][3] = "tail"
  BY <1>3, MsgSize
<1>5. \/ Kept(fd) = <<>> /\ unread[c] \in {<<>>, <<head>>, <<head, tail>>}
      \/ Kept(fd) = <<head>> /\ unread[c] \in {<<>>, <<tail>>}
  BY DEF InTurn
<1> HIDE DEF head, tail
<1>6. \/ filled = <<>> /\ Kept(fd) = <<>> /\ unread[c] = <<>>
      \/ filled = <<head>> /\ (Kept(fd) # <<>> \/ unread[c] # <<>>)
      \/ filled = <<head, tail>> /\ unread[c] # <<>>
  <2>1. filled = Kept(fd) \o unread[c]
    BY <1>1
  <2>2. CASE Kept(fd) = <<>> /\ unread[c] = <<>>
    BY <2>1, <2>2, ShortSeqs
  <2>3. CASE Kept(fd) = <<>> /\ unread[c] = <<head>>
    BY <2>1, <2>3, ShortSeqs
  <2>4. CASE Kept(fd) = <<>> /\ unread[c] = <<head, tail>>
    BY <2>1, <2>4, ShortSeqs
  <2>5. CASE Kept(fd) = <<head>> /\ unread[c] = <<>>
    BY <2>1, <2>5, ShortSeqs
  <2>6. CASE Kept(fd) = <<head>> /\ unread[c] = <<tail>>
    <3>1. <<head>> \o <<tail>> = <<head, tail>> /\ <<tail>> # <<>>
      BY ShortSeqs, Zenon
    <3>2. QED
      BY <2>1, <2>6, <3>1
  <2>7. QED
    BY <1>5, <2>2, <2>3, <2>4, <2>5, <2>6
<1> HIDE DEF filled, size
<1>7. CASE filled = <<>>
  <2>1. Len(filled) = 0
    BY <1>7, ShortSeqs
  <2>2. size = 0
    BY <1>4, <2>1
  <2>3. QED
    BY <1>1, <1>6, <1>7, <2>1, <2>2, ShortSeqs DEF filled, size, head, tail
<1>8. CASE filled = <<head>>
  <2>1. Len(filled) = 1 /\ filled[1] = head
    BY <1>8, ShortSeqs
  <2>2. size = 0
    BY <1>2, <1>4, <2>1
  <2>3. SubSeq(filled, size + 1, Len(filled)) = filled
    BY <1>8, <2>1, <2>2, ShortSeqs
  <2>4. filled # <<>> /\ (Kept(fd) # <<>> \/ unread[c] # <<>>)
    BY <1>6, <1>8, ShortSeqs
  <2>5. Due(c) /\ conn[c] = "open"
    BY <2>4 DEF InTurn
  <2>6. QED
    BY <1>1, <1>8, <2>2, <2>3, <2>4, <2>5 DEF filled, size, head, tail
<1>9. CASE filled = <<head, tail>>
  <2>1. Len(filled) = 2 /\ filled[1] = head /\ filled[2] = tail
    BY <1>9, ShortSeqs
  <2>2. size = 2
    BY <1>2, <1>4, <2>1
  <2>3. SubSeq(filled, size + 1, Len(filled)) = <<>>
    BY <1>9, <2>1, <2>2, ShortSeqs
  <2>4. filled # <<>> /\ unread[c] # <<>>
    BY <1>6, <1>9, ShortSeqs
  <2>5. Due(c) /\ conn[c] = "open"
    BY <2>4 DEF InTurn
  <2>6. QED
    BY <1>1, <1>9, <2>2, <2>3, <2>4, <2>5 DEF filled, size, head, tail
<1>10. QED
  BY <1>6, <1>7, <1>8, <1>9

-----------------------------------------------------------------------------
\* Orderly clients: what the messages are about

\* A message keeps its meaning when nothing changes that concerns it, and no
\* other message comes by its socket.
LEMMA StillMeant ==
    ASSUME NEW m, Meant(m), SameClient(m.from), owner'[m.fd] = owner[m.fd],
           m_ConnectionMap'[m.fd].State = m_ConnectionMap[m.fd].State,
           m_ConnectionMap'[m.fd].buffer = m_ConnectionMap[m.fd].buffer,
           m_ConnectionMap'[m.fd].old => m_ConnectionMap[m.fd].old \/ m \notin inProcess',
           m_ConnectionMap[m.fd].pendingwrite => m_ConnectionMap'[m.fd].pendingwrite,
           m \in inProcess' => m \in inProcess,
           m \in m_outbound_priority_queue' => m \in m_outbound_priority_queue,
           \A k \in Unanswered' : k.fd = m.fd => k \in Unanswered
    PROVE  Meant(m)'
<1>1. /\ owner'[m.fd] = m.from /\ conn'[m.from] = "open"
      /\ m.n = asked'[m.from] /\ Due(m.from)'
      /\ m_ConnectionMap'[m.fd].State = "WAITING" /\ m_ConnectionMap'[m.fd].buffer = <<>>
      /\ unread'[m.from] = <<>>
  BY DEF Meant, SameClient, Due
<1>2. m \in inProcess' => ~m_ConnectionMap'[m.fd].old /\ m \notin m_outbound_priority_queue'
  BY DEF Meant
<1>3. m \in m_outbound_priority_queue' => m_ConnectionMap'[m.fd].pendingwrite
  BY DEF Meant
<1>4. \A k \in Unanswered' : k.fd = m.fd => k = m
  BY DEF Meant
<1>5. QED
  BY <1>1, <1>2, <1>3, <1>4 DEF Meant

\* Everything a message is about is as it was, and so are the messages.
LEMMA SameMeant ==
    ASSUME TypeOK, MessagesMeant,
           inProcess' \subseteq inProcess,
           m_outbound_priority_queue' \cap Requests \subseteq m_outbound_priority_queue,
           \A m \in Unanswered' : m \in Requests \/ m.fd = NoFd,
           UNCHANGED Requests,
           \A m \in Unanswered' \cap Requests :
             /\ SameClient(m.from) /\ owner'[m.fd] = owner[m.fd]
             /\ m_ConnectionMap'[m.fd].State = m_ConnectionMap[m.fd].State
             /\ m_ConnectionMap'[m.fd].buffer = m_ConnectionMap[m.fd].buffer
             /\ m_ConnectionMap'[m.fd].old => \/ m_ConnectionMap[m.fd].old
                                              \/ m \notin inProcess'
             /\ m_ConnectionMap[m.fd].pendingwrite => m_ConnectionMap'[m.fd].pendingwrite
    PROVE  MessagesMeant'
<1> SUFFICES ASSUME NEW m \in Unanswered' \cap Requests
             PROVE  Meant(m)'
  BY DEF MessagesMeant
<1>1. m \in Unanswered /\ (m \in inProcess' => m \in inProcess)
      /\ (m \in m_outbound_priority_queue' => m \in m_outbound_priority_queue)
  BY DEF Unanswered
<1>2. Meant(m)
  BY <1>1 DEF MessagesMeant
<1>3. m.fd \in Fds
  BY RequestSockets
<1>4. \A k \in Unanswered' : k.fd = m.fd => k \in Unanswered
  BY <1>3, ConnectionAssumption DEF Unanswered
<1>5. QED
  BY <1>1, <1>2, <1>4, StillMeant

\* The messages about the client of a socket are those that came by it.
LEMMA OneMessage ==
    ASSUME TypeOK, OneSocket, MessagesMeant, NEW fd \in Fds, owner[fd] \in Clients,
           NEW m \in Unanswered \cap Requests
    PROVE  m.fd = fd <=> m.from = owner[fd]
<1>1. owner[m.fd] = m.from /\ m.fd \in Fds
  BY RequestSockets DEF MessagesMeant, Meant
<1>2. QED
  BY <1>1 DEF OneSocket

\* A message may only be about a client when all that the client sent was taken.
LEMMA NoMessage ==
    ASSUME TypeOK, OneSocket, MessagesMeant, NEW fd \in Fds, NEW c \in Clients, owner[fd] = c,
           \/ ~Due(c) \/ Kept(fd) # <<>> \/ unread[c] # <<>> \/ conn[c] # "open"
           \/ m_ConnectionMap[fd].State # "WAITING"
           \/ m_ConnectionMap[fd].old /\ ~m_ConnectionMap[fd].pendingwrite
    PROVE  \A m \in Unanswered \cap Requests : m.fd # fd /\ m.from # c
<1> SUFFICES ASSUME NEW m \in Unanswered \cap Requests, m.fd = fd
             PROVE  FALSE
  BY OneMessage
<1>1. Meant(m)
  BY DEF MessagesMeant
<1>2. /\ Due(c) /\ Kept(fd) = <<>> /\ unread[c] = <<>> /\ conn[c] = "open"
      /\ m_ConnectionMap[fd].State = "WAITING"
  BY <1>1 DEF Meant, Kept
<1>3. m \in inProcess => ~m_ConnectionMap[fd].old
  BY <1>1 DEF Meant
<1>4. m \in m_outbound_priority_queue => m_ConnectionMap[fd].pendingwrite
  BY <1>1 DEF Meant
<1>5. QED
  BY <1>2, <1>3, <1>4 DEF Unanswered

LEMMA FreedMeant ==
    ASSUME TypeOK, OneSocket, MessagesMeant, NEW fd \in Fds, Freed(fd),
           UNCHANGED <<asked, Requests>>,
           \A c \in Clients : c # owner[fd] => /\ unread'[c] = unread[c]
                                               /\ answered'[c] = answered[c],
           inProcess' \subseteq inProcess,
           m_outbound_priority_queue' \cap Requests \subseteq m_outbound_priority_queue,
           \A m \in Unanswered' : m \in Requests \/ m.fd = NoFd,
           \A m \in Unanswered' \cap Requests : m.fd # fd
    PROVE  MessagesMeant'
<1>1. ASSUME NEW m \in Unanswered' \cap Requests
      PROVE  /\ SameClient(m.from) /\ owner'[m.fd] = owner[m.fd]
             /\ m_ConnectionMap'[m.fd] = m_ConnectionMap[m.fd]
  <2>1. m \in Unanswered \cap Requests
    BY DEF Unanswered
  <2>2. m.fd \in Fds \ {fd} /\ owner[m.fd] = m.from /\ m.from \in Clients
    BY <2>1, RequestSockets DEF MessagesMeant, Meant
  <2>3. m.from # owner[fd]
    BY <2>2 DEF OneSocket
  <2>4. QED
    BY <2>2, <2>3 DEF Freed, SameClient
<1>2. QED
  BY <1>1, SameMeant

-----------------------------------------------------------------------------
\* Orderly clients: every step

Ordered == Accounted /\ DataInTurn /\ MessagesMeant /\ RepliesAsked /\ ~strayed

LEMMA SameOrdered ==
    ASSUME Ordered, UNCHANGED <<owner, conn, unread, asked, answered, strayed, m_ConnectionMap,
                                m_ActiveConnectionList, accepted, m_PreQueue, inProcess,
                                m_outbound_priority_queue>>
    PROVE  Ordered'
<1>1. Accounted'
  BY SameAccounted DEF Ordered
<1>2. DataInTurn'
  <2>1. \A f \in Fds : Kept(f)' = Kept(f)
    BY DEF Kept
  <2>2. \A c \in Clients : SameClient(c)
    BY DEF SameClient
  <2>3. QED
    BY <2>1, <2>2, DataInTurnIf DEF Ordered
<1>3. MessagesMeant' /\ RepliesAsked' /\ ~strayed'
  BY DEF Ordered, MessagesMeant, RepliesAsked, Meant, Due, Unanswered
<1>4. QED
  BY <1>1, <1>2, <1>3 DEF Ordered

\* A client does something that concerns no message, and nothing the server knows.
LEMMA ClientMeant ==
    ASSUME TypeOK, OneSocket, MessagesMeant, NEW c \in Clients,
           \A m \in Unanswered \cap Requests : m.from # c,
           \A d \in Clients \ {c} : SameClient(d),
           \A f \in Fds : owner[f] \in Clients => owner'[f] = owner[f],
           UNCHANGED <<m_ConnectionMap, inProcess, m_outbound_priority_queue, Requests>>
    PROVE  MessagesMeant'
<1>1. Unanswered' = Unanswered
  BY DEF Unanswered
<1>2. \A m \in Unanswered \cap Requests : /\ m.from \in Clients \ {c} /\ m.fd \in Fds
                                          /\ owner[m.fd] = m.from
  BY RequestSockets DEF MessagesMeant, Meant
<1>3. \A m \in Unanswered : m \in Requests \/ m.fd = NoFd
  BY RequestSockets DEF Unanswered
<1> HIDE DEF Unanswered
<1>4. QED
  BY <1>1, <1>2, <1>3, SameMeant

LEMMA SendHeadOrdered ==
    ASSUME TypeOK, OneSocket, Ordered, Orderly, UNCHANGED scenario,
           NEW c \in Clients, SendHead(c)
    PROVE  Ordered'
<1>1. /\ conn[c] = "open" /\ ~Due(c)
      /\ unread' = [unread EXCEPT ![c] = Append(@, <<c, asked[c] + 1, "head">>)]
      /\ asked' = [asked EXCEPT ![c] = @ + 1]
      /\ UNCHANGED <<owner, conn, answered, strayed, m_ConnectionMap, m_ActiveConnectionList,
                     accepted, m_PreQueue, inProcess, m_outbound_priority_queue>>
  BY DEF SendHead, Orderly, queueVars, cacheVars, listVars
<1>2. /\ unread'[c] = Append(unread[c], <<c, asked[c] + 1, "head">>)
      /\ asked'[c] = asked[c] + 1 /\ asked[c] \in Nat /\ answered[c] \in Nat
      /\ \A d \in Clients \ {c} : unread'[d] = unread[d] /\ asked'[d] = asked[d]
  <2>1. scenario.requests \in Nat
    BY ConnectionAssumption DEF TypeOK
  <2>2. QED
    BY <1>1, <2>1 DEF TypeOK
<1>3. PICK fd \in Fds : owner[fd] = c
  BY <1>1 DEF OneSocket
<1>4. Kept(fd) = <<>> /\ unread[c] = <<>>
  BY <1>1, <1>3 DEF Ordered, DataInTurn, InTurn
<1>5. unread'[c] = <<<<c, asked'[c], "head">>>>
  BY <1>2, <1>4, ShortSeqs
<1>6. answered[c] = asked[c] /\ Due(c)'
  BY <1>1, <1>2 DEF Due, Ordered, RepliesAsked
<1>7. \A f \in Fds : Kept(f)' = Kept(f)
  BY <1>1 DEF Kept
<1>8. \A d \in Clients \ {c} : SameClient(d)
  BY <1>1, <1>2 DEF SameClient
<1>9. Accounted'
  BY <1>1, SameAccounted DEF Ordered
<1>10. DataInTurn'
  <2>1. InTurn(fd, c)'
    BY <1>1, <1>4, <1>5, <1>6, <1>7 DEF InTurn
  <2>2. \A f \in Fds : owner'[f] = c => f = fd
    BY <1>1, <1>3 DEF OneSocket
  <2>3. QED
    BY <1>1, <1>7, <1>8, <2>1, <2>2, DataInTurnIf DEF Ordered
<1>11. MessagesMeant'
  <2>1. \A m \in Unanswered \cap Requests : m.from # c
    BY <1>1, <1>3, NoMessage DEF Ordered
  <2>2. QED
    BY <1>1, <1>8, <2>1, ClientMeant DEF Ordered
<1>12. RepliesAsked'
  BY <1>1, <1>2, <1>6 DEF Ordered, RepliesAsked
<1>13. QED
  BY <1>1, <1>9, <1>10, <1>11, <1>12 DEF Ordered

LEMMA SendTailOrdered ==
    ASSUME TypeOK, OneSocket, Ordered, UNCHANGED scenario, NEW c \in Clients, SendTail(c)
    PROVE  Ordered'
<1> DEFINE head == <<c, asked[c], "head">>
           tail == <<c, asked[c], "tail">>
<1>1. /\ unread' = [unread EXCEPT ![c] = Append(@, tail)]
      /\ UNCHANGED <<owner, conn, asked, answered, strayed, m_ConnectionMap,
                     m_ActiveConnectionList, accepted, m_PreQueue, inProcess,
                     m_outbound_priority_queue>>
  BY DEF SendTail, queueVars, clientVars, cacheVars, listVars
<1>2. PICK fd \in Fds : /\ owner[fd] = c /\ Kept(fd) \o unread[c] # <<>>
                        /\ Last(Kept(fd) \o unread[c]) = head
  BY DEF SendTail, Half
<1>3. /\ unread'[c] = Append(unread[c], tail)
      /\ \A d \in Clients \ {c} : unread'[d] = unread[d]
  BY <1>1 DEF TypeOK
<1>4. InTurn(fd, c)
  BY <1>2 DEF Ordered, DataInTurn
<1>5. head # tail
  OBVIOUS
<1>6. \/ Kept(fd) = <<>> /\ unread[c] \in {<<>>, <<head>>, <<head, tail>>}
      \/ Kept(fd) = <<head>> /\ unread[c] \in {<<>>, <<tail>>}
  BY <1>4 DEF InTurn
<1> HIDE DEF head, tail
<1>7. \/ Kept(fd) = <<>> /\ unread[c] = <<head>>
      \/ Kept(fd) = <<head>> /\ unread[c] = <<>>
  <2>1. Kept(fd) \o unread[c] # <<head, tail>>
    <3>1. Last(<<head, tail>>) = tail
      BY ShortSeqs DEF Last
    <3>2. QED
      BY <1>2, <1>5, <3>1
  <2>2. /\ <<>> \o <<head, tail>> = <<head, tail>> /\ <<head>> \o <<tail>> = <<head, tail>>
        /\ <<>> \o <<>> = <<>>
    BY ShortSeqs, Zenon
  <2>3. QED
    BY <1>2, <1>6, <2>1, <2>2
<1>8. \/ Kept(fd) = <<>> /\ unread'[c] = <<head, tail>>
      \/ Kept(fd) = <<head>> /\ unread'[c] = <<tail>>
  <2>1. Append(<<head>>, tail) = <<head, tail>> /\ Append(<<>>, tail) = <<tail>>
    BY ShortSeqs, Zenon
  <2>2. QED
    BY <1>3, <1>7, <2>1
<1>9. Kept(fd) # <<>> \/ unread[c] # <<>>
  BY <1>7, ShortSeqs
<1>10. Due(c) /\ conn[c] = "open"
  BY <1>4, <1>9 DEF InTurn
<1>11. \A f \in Fds : Kept(f)' = Kept(f)
  BY <1>1 DEF Kept
<1>12. \A d \in Clients \ {c} : SameClient(d)
  BY <1>1, <1>3 DEF SameClient
<1>13. Accounted'
  BY <1>1, SameAccounted DEF Ordered
<1>14. DataInTurn'
  <2>1. InTurn(fd, c)'
    BY <1>1, <1>8, <1>10, <1>11 DEF InTurn, Due, head, tail
  <2>2. \A f \in Fds : owner'[f] = c => f = fd
    BY <1>1, <1>2 DEF OneSocket
  <2>3. QED
    BY <1>1, <1>11, <1>12, <2>1, <2>2, DataInTurnIf DEF Ordered
<1>15. MessagesMeant'
  <2>1. \A m \in Unanswered \cap Requests : m.from # c
    BY <1>2, <1>9, NoMessage DEF Ordered
  <2>2. QED
    BY <1>1, <1>12, <2>1, ClientMeant DEF Ordered
<1>16. RepliesAsked'
  BY <1>1 DEF Ordered, RepliesAsked
<1>17. QED
  BY <1>1, <1>13, <1>14, <1>15, <1>16 DEF Ordered

LEMMA LeaveOrdered ==
    ASSUME TypeOK, OneSocket, Ordered, Orderly, UNCHANGED scenario, NEW c \in Clients, Leave(c)
    PROVE  Ordered'
<1>1. /\ conn[c] = "open" /\ ~Due(c)
      /\ \E s \in {"left", "reset"} : conn' = [conn EXCEPT ![c] = s]
      /\ UNCHANGED <<owner, unread, asked, answered, strayed, m_ConnectionMap,
                     m_ActiveConnectionList, accepted, m_PreQueue, inProcess,
                     m_outbound_priority_queue>>
  BY DEF Leave, Orderly, queueVars, clientVars, cacheVars, listVars
<1>2. PICK fd \in Fds : owner[fd] = c
  BY <1>1 DEF OneSocket
<1>3. InTurn(fd, c) /\ Kept(fd) = <<>> /\ unread[c] = <<>>
  BY <1>1, <1>2 DEF Ordered, DataInTurn, InTurn
<1>4. \A f \in Fds : Kept(f)' = Kept(f)
  BY <1>1 DEF Kept
<1>5. \A d \in Clients \ {c} : SameClient(d)
  BY <1>1 DEF SameClient, TypeOK
<1>6. Accounted'
  BY <1>1, SameAccounted DEF Ordered
<1>7. DataInTurn'
  <2>1. InTurn(fd, c)'
    BY <1>1, <1>3, <1>4 DEF InTurn
  <2>2. \A f \in Fds : owner'[f] = c => f = fd
    BY <1>1, <1>2 DEF OneSocket
  <2>3. QED
    BY <1>1, <1>4, <1>5, <2>1, <2>2, DataInTurnIf DEF Ordered
<1>8. MessagesMeant'
  <2>1. \A m \in Unanswered \cap Requests : m.from # c
    BY <1>1, <1>2, NoMessage DEF Ordered
  <2>2. QED
    BY <1>1, <1>5, <2>1, ClientMeant DEF Ordered
<1>9. RepliesAsked'
  BY <1>1 DEF Ordered, RepliesAsked
<1>10. QED
  BY <1>1, <1>6, <1>7, <1>8, <1>9 DEF Ordered

LEMMA AcceptOrdered ==
    ASSUME TypeOK, OneSocket, Ordered, UNCHANGED scenario,
           NEW c \in Clients, NEW fd \in Fds, Accept(c, fd)
    PROVE  Ordered'
<1>1. /\ accepted = NoFd /\ conn[c] = "new" /\ owner[fd] = NoClient
      /\ UNCHANGED <<unread, asked, answered, strayed, m_ConnectionMap,
                     m_ActiveConnectionList, m_PreQueue, inProcess, m_outbound_priority_queue>>
  BY DEF Accept, FreeFds, queueVars, clientVars, cacheVars, listVars
<1>2. unread[c] = <<>> /\ \A f \in Fds : owner[f] # c
  BY <1>1 DEF OneSocket
<1>3. \A f \in Fds : Kept(f)' = Kept(f)
  BY <1>1 DEF Kept
<1>4. \A d \in Clients \ {c} : SameClient(d)
  BY <1>1 DEF Accept, SameClient, TypeOK
<1>5. \A m \in Unanswered \cap Requests : m.from # c
  BY <1>2, RequestSockets DEF Ordered, MessagesMeant, Meant
<1>6. RepliesAsked' /\ ~strayed'
  BY <1>1 DEF Ordered, RepliesAsked
<1>7. \A f \in Fds : owner[f] \in Clients => owner'[f] = owner[f]
  BY <1>1, ConnectionAssumption DEF Accept, TypeOK
<1>8. MessagesMeant'
  BY <1>1, <1>4, <1>5, <1>7, ClientMeant DEF Ordered
<1>9. CASE owner' = [owner EXCEPT ![fd] = c] /\ accepted' = fd
  <2>1. owner'[fd] = c /\ \A f \in Fds \ {fd} : owner'[f] = owner[f]
    BY <1>9 DEF TypeOK
  <2>2. ~IsClient(fd)
    BY <1>1, ConnectionAssumption DEF IsClient
  <2>3. /\ fd \notin Range(m_PreQueue) /\ fd \notin Range(m_ActiveConnectionList)
        /\ m_ConnectionMap[fd].State # "WAITING"
    BY <2>2, AccountedMeaning DEF Ordered
  <2>4. Accounted'
    <3>1. Places(fd)' = {"server"}
      BY <1>1, <1>9, <2>3 DEF Places
    <3>2. \A f \in Fds \ {fd} : Places(f)' = Places(f)
      BY <1>1, <1>9, ConnectionAssumption DEF Places
    <3>3. IsInjective(m_PreQueue') /\ IsInjective(m_ActiveConnectionList')
      BY <1>1 DEF Ordered, Accounted
    <3>4. \A f \in Fds : /\ m_ConnectionMap'[f].listed = (f \in Range(m_ActiveConnectionList'))
                         /\ m_ConnectionMap'[f].listed = (m_ConnectionMap'[f].State = "WAITING")
      BY <1>1 DEF Ordered, Accounted
    <3>5. \A f \in Fds : /\ owner'[f] \in Clients => \/ Places(f)' = {"server"}
                                                     \/ Places(f)' = {"prequeue"}
                                                     \/ Places(f)' = {"cache"}
                         /\ owner'[f] \notin Clients => Places(f)' = {}
      BY <2>1, <3>1, <3>2 DEF Ordered, Accounted, IsClient
    <3>6. QED
      BY <3>3, <3>4, <3>5, AccountedIf
  <2>5. DataInTurn'
    <3>1. Kept(fd)' = <<>>
      BY <1>3, <2>3 DEF Kept
    <3>2. InTurn(fd, c)'
      BY <1>1, <1>2, <3>1 DEF InTurn
    <3>3. QED
      BY <1>2, <1>3, <1>4, <2>1, <3>2, DataInTurnIf DEF Ordered
  <2>6. QED
    BY <1>6, <1>8, <2>4, <2>5 DEF Ordered
<1>10. CASE UNCHANGED <<owner, accepted>>
  <2>1. Accounted'
    BY <1>1, <1>10, SameAccounted DEF Ordered
  <2>2. DataInTurn'
    BY <1>2, <1>3, <1>4, <1>10, DataInTurnIf DEF Ordered
  <2>3. QED
    BY <1>6, <1>8, <2>1, <2>2 DEF Ordered
<1>11. QED
  BY <1>9, <1>10 DEF Accept

LEMMA PreQueueOrdered ==
    ASSUME TypeOK, Ordered, UNCHANGED scenario, PreQueue
    PROVE  Ordered'
<1>1. /\ accepted \in Fds /\ m_PreQueue' = Append(m_PreQueue, accepted) /\ accepted' = NoFd
      /\ UNCHANGED <<owner, conn, unread, asked, answered, strayed, m_ConnectionMap,
                     m_ActiveConnectionList, inProcess, m_outbound_priority_queue>>
  BY DEF PreQueue, TypeOK, kernelVars, clientVars, queueVars, cacheVars, listVars
<1>2. /\ accepted \notin Range(m_PreQueue) /\ accepted \notin Range(m_ActiveConnectionList)
      /\ IsClient(accepted)
  BY <1>1, AccountedMeaning DEF Ordered
<1>3. m_PreQueue \in Seq(Fds) /\ Len(m_PreQueue) \in Nat
  BY LenProperties DEF TypeOK
<1>4. /\ m_PreQueue' \in Seq(Fds) /\ Len(m_PreQueue') = Len(m_PreQueue) + 1
      /\ \A i \in 1 .. Len(m_PreQueue) : m_PreQueue'[i] = m_PreQueue[i]
      /\ m_PreQueue'[Len(m_PreQueue) + 1] = accepted
  BY <1>1, <1>3, AppendProperties
<1>5. \A x : x \in Range(m_PreQueue') <=> x \in Range(m_PreQueue) \/ x = accepted
  <2>1. \A x : x \in Range(m_PreQueue') <=> \E i \in 1 .. Len(m_PreQueue) + 1 : m_PreQueue'[i] = x
    BY <1>4, InRange
  <2>2. \A x : x \in Range(m_PreQueue) <=> \E i \in 1 .. Len(m_PreQueue) : m_PreQueue[i] = x
    BY <1>3, InRange
  <2>3. \A i \in 1 .. Len(m_PreQueue) + 1 : i \in 1 .. Len(m_PreQueue) \/ i = Len(m_PreQueue) + 1
    BY <1>3
  <2>4. \A i \in 1 .. Len(m_PreQueue) : i \in 1 .. Len(m_PreQueue) + 1
    BY <1>3
  <2>5. Len(m_PreQueue) + 1 \in 1 .. Len(m_PreQueue) + 1
    BY <1>3
  <2>6. QED
    BY <1>4, <2>1, <2>2, <2>3, <2>4, <2>5
<1>6. IsInjective(m_PreQueue')
  <2>1. DOMAIN m_PreQueue = 1 .. Len(m_PreQueue) /\ DOMAIN m_PreQueue' = 1 .. Len(m_PreQueue) + 1
    BY <1>3, <1>4, LenProperties
  <2>2. \A a, b \in 1 .. Len(m_PreQueue) : m_PreQueue[a] = m_PreQueue[b] => a = b
    BY <2>1 DEF Ordered, Accounted, IsInjective
  <2>3. \A a \in 1 .. Len(m_PreQueue) : m_PreQueue[a] # accepted
    BY <1>2, <1>3, InRange
  <2>4. \A a, b \in 1 .. Len(m_PreQueue) + 1 : m_PreQueue'[a] = m_PreQueue'[b] => a = b
    BY <1>3, <1>4, <2>2, <2>3
  <2>5. QED
    BY <2>1, <2>4 DEF IsInjective
<1>7. Accounted'
  <2> PICK fd \in Fds : fd = accepted
    BY <1>1
  <2>1. Places(fd)' = {"prequeue"}
    <3>1. accepted' # fd
      BY <1>1, ConnectionAssumption
    <3>2. fd \in Range(m_PreQueue') /\ fd \notin Range(m_ActiveConnectionList')
      BY <1>1, <1>2, <1>5
    <3>3. QED
      BY <3>1, <3>2 DEF Places
  <2>2. ASSUME NEW f \in Fds, f # accepted
        PROVE  Places(f)' = Places(f)
    <3>1. accepted' # f
      BY <1>1, ConnectionAssumption
    <3>2. f \in Range(m_PreQueue') <=> f \in Range(m_PreQueue)
      BY <1>5, <2>2
    <3>3. QED
      BY <1>1, <2>2, <3>1, <3>2 DEF Places
  <2>3. IsInjective(m_ActiveConnectionList')
    BY <1>1 DEF Ordered, Accounted
  <2>4. \A f \in Fds : /\ m_ConnectionMap'[f].listed = (f \in Range(m_ActiveConnectionList'))
                       /\ m_ConnectionMap'[f].listed = (m_ConnectionMap'[f].State = "WAITING")
    BY <1>1 DEF Ordered, Accounted
  <2>5. \A f \in Fds : /\ owner'[f] \in Clients => \/ Places(f)' = {"server"}
                                                   \/ Places(f)' = {"prequeue"}
                                                   \/ Places(f)' = {"cache"}
                       /\ owner'[f] \notin Clients => Places(f)' = {}
    BY <1>1, <1>2, <2>1, <2>2 DEF Ordered, Accounted, IsClient
  <2>6. QED
    BY <1>6, <2>3, <2>4, <2>5, AccountedIf
<1>8. DataInTurn' /\ MessagesMeant' /\ RepliesAsked' /\ ~strayed'
  BY <1>1 DEF Ordered, DataInTurn, InTurn, Kept, MessagesMeant, RepliesAsked, Meant, Due, Unanswered
<1>9. QED
  BY <1>7, <1>8 DEF Ordered

\* Two sequences without repetitions and with nothing in common, one after the
\* other.
LEMMA InjectiveConcat ==
    ASSUME NEW S, NEW s \in Seq(S), NEW t \in Seq(S), IsInjective(s), IsInjective(t),
           \A x \in S : x \in Range(s) => x \notin Range(t)
    PROVE  IsInjective(s \o t)
<1>1. /\ s \o t \in Seq(S) /\ Len(s \o t) = Len(s) + Len(t)
      /\ Len(s) \in Nat /\ Len(t) \in Nat
      /\ \A i \in 1 .. Len(s) + Len(t) :
           (s \o t)[i] = IF i <= Len(s) THEN s[i] ELSE t[i - Len(s)]
  BY ConcatProperties, LenProperties
<1>2. /\ DOMAIN s = 1 .. Len(s) /\ DOMAIN t = 1 .. Len(t)
      /\ DOMAIN (s \o t) = 1 .. Len(s) + Len(t)
  BY <1>1, LenProperties
<1>3. \A a, b \in 1 .. Len(s) : s[a] = s[b] => a = b
  BY <1>2 DEF IsInjective
<1>4. \A a, b \in 1 .. Len(t) : t[a] = t[b] => a = b
  BY <1>2 DEF IsInjective
<1>5. \A a \in 1 .. Len(s), b \in 1 .. Len(t) : s[a] # t[b]
  <2>1. \A a \in 1 .. Len(s) : s[a] \in S /\ s[a] \in Range(s)
    BY <1>2, ElementOfSeq DEF Range
  <2>2. \A b \in 1 .. Len(t) : t[b] \in Range(t)
    BY <1>2 DEF Range
  <2>3. QED
    BY <2>1, <2>2
<1>6. ASSUME NEW a \in 1 .. Len(s) + Len(t), NEW b \in 1 .. Len(s) + Len(t),
             (s \o t)[a] = (s \o t)[b]
      PROVE  a = b
  <2>1. CASE a <= Len(s) /\ b <= Len(s)
    BY <1>1, <1>3, <1>6, <2>1
  <2>2. CASE a > Len(s) /\ b > Len(s)
    <3>1. a - Len(s) \in 1 .. Len(t) /\ b - Len(s) \in 1 .. Len(t)
      BY <1>1, <2>2
    <3>2. t[a - Len(s)] = t[b - Len(s)]
      BY <1>1, <1>6, <2>2
    <3>3. a - Len(s) = b - Len(s)
      BY <1>4, <3>1, <3>2
    <3>4. QED
      BY <1>1, <3>3
  <2>3. CASE a <= Len(s) /\ b > Len(s)
    <3>1. a \in 1 .. Len(s) /\ b - Len(s) \in 1 .. Len(t) /\ s[a] = t[b - Len(s)]
      BY <1>1, <1>6, <2>3
    <3>2. QED
      BY <1>5, <3>1
  <2>4. CASE a > Len(s) /\ b <= Len(s)
    <3>1. b \in 1 .. Len(s) /\ a - Len(s) \in 1 .. Len(t) /\ s[b] = t[a - Len(s)]
      BY <1>1, <1>6, <2>4
    <3>2. QED
      BY <1>5, <3>1
  <2>5. QED
    BY <1>1, <2>1, <2>2, <2>3, <2>4
<1>7. QED
  BY <1>2, <1>6 DEF IsInjective

LEMMA AddPreQueuedOrdered ==
    ASSUME TypeOK, Ordered, UNCHANGED scenario, AddPreQueued
    PROVE  Ordered'
<1>1. /\ m_ActiveConnectionList' = m_ActiveConnectionList \o m_PreQueue
      /\ m_PreQueue' = <<>>
      /\ UNCHANGED <<owner, conn, unread, asked, answered, strayed, accepted, inProcess,
                     m_outbound_priority_queue>>
  BY DEF AddPreQueued, AddConnections, PreQueueAfter, kernelVars, clientVars, queueVars
<1>2. \A f \in Fds : IF f \in Range(m_PreQueue)
                     THEN /\ m_ConnectionMap'[f].State = "WAITING"
                          /\ m_ConnectionMap'[f].listed = TRUE
                          /\ m_ConnectionMap'[f].buffer = <<>>
                     ELSE m_ConnectionMap'[f] = m_ConnectionMap[f]
  BY DEF AddPreQueued, AddConnections, BufferOfNew
<1>3. m_PreQueue \in Seq(Fds) /\ m_ActiveConnectionList \in Seq(Fds)
  BY DEF TypeOK
<1>4. \A x : x \in Range(m_ActiveConnectionList')
               <=> x \in Range(m_ActiveConnectionList) \/ x \in Range(m_PreQueue)
  BY <1>1, <1>3, RangeConcatenation
<1>5. \A f \in Fds : f \in Range(m_PreQueue) => /\ f \notin Range(m_ActiveConnectionList)
                                                /\ IsClient(f) /\ accepted # f
                                                /\ m_ConnectionMap[f].State # "WAITING"
  BY AccountedMeaning DEF Ordered
<1>6. \A f \in Fds : f \notin Range(m_PreQueue')
  BY <1>1 DEF Range
<1>7. Accounted'
  <2>1. IsInjective(m_PreQueue') /\ IsInjective(m_ActiveConnectionList')
    <3>1. IsInjective(m_PreQueue) /\ IsInjective(m_ActiveConnectionList)
      BY DEF Ordered, Accounted
    <3>2. IsInjective(m_PreQueue')
      BY <1>1 DEF IsInjective
    <3>3. QED
      BY <1>1, <1>3, <1>5, <3>1, <3>2, InjectiveConcat
  <2>2. ASSUME NEW f \in Fds, f \in Range(m_PreQueue)
        PROVE  /\ Places(f)' = {"cache"} /\ owner'[f] \in Clients
               /\ m_ConnectionMap'[f].listed = (f \in Range(m_ActiveConnectionList'))
               /\ m_ConnectionMap'[f].listed = (m_ConnectionMap'[f].State = "WAITING")
    <3>1. f \in Range(m_ActiveConnectionList') /\ f \notin Range(m_PreQueue') /\ accepted' # f
      BY <1>1, <1>4, <1>5, <1>6, <2>2
    <3>2. Places(f)' = {"cache"}
      BY <3>1 DEF Places
    <3>3. owner'[f] \in Clients
      BY <1>1, <1>5, <2>2 DEF IsClient
    <3>4. (f \in Range(m_ActiveConnectionList')) = TRUE
          /\ (m_ConnectionMap'[f].State = "WAITING") = TRUE
      BY <1>2, <2>2, <3>1
    <3>5. m_ConnectionMap'[f].listed = TRUE
      BY <1>2, <2>2
    <3>6. QED
      BY <3>2, <3>3, <3>4, <3>5, Zenon
  <2>3. ASSUME NEW f \in Fds, f \notin Range(m_PreQueue)
        PROVE  /\ Places(f)' = Places(f) /\ owner'[f] = owner[f]
               /\ m_ConnectionMap'[f].listed = (f \in Range(m_ActiveConnectionList'))
               /\ m_ConnectionMap'[f].listed = (m_ConnectionMap'[f].State = "WAITING")
    <3>1. f \in Range(m_ActiveConnectionList') <=> f \in Range(m_ActiveConnectionList)
      BY <1>4, <2>3
    <3>2. (f \in Range(m_ActiveConnectionList')) = (f \in Range(m_ActiveConnectionList))
      BY <3>1
    <3>3. Places(f)' = Places(f)
      BY <1>1, <1>6, <2>3, <3>1 DEF Places
    <3>4. m_ConnectionMap'[f] = m_ConnectionMap[f]
      BY <1>2, <2>3
    <3>5. /\ m_ConnectionMap[f].listed = (f \in Range(m_ActiveConnectionList))
          /\ m_ConnectionMap[f].listed = (m_ConnectionMap[f].State = "WAITING")
      BY DEF Ordered, Accounted
    <3>6. QED
      BY <1>1, <3>2, <3>3, <3>4, <3>5, Zenon
  <2>4. \A f \in Fds : /\ owner'[f] \in Clients => \/ Places(f)' = {"server"}
                                                   \/ Places(f)' = {"prequeue"}
                                                   \/ Places(f)' = {"cache"}
                       /\ owner'[f] \notin Clients => Places(f)' = {}
    BY <2>2, <2>3 DEF Ordered, Accounted, IsClient
  <2>5. QED
    BY <2>1, <2>2, <2>3, <2>4, AccountedIf
<1>8. \A f \in Fds : Kept(f)' = Kept(f)
  BY <1>2, <1>5 DEF Kept
<1>9. \A c \in Clients : SameClient(c)
  BY <1>1 DEF SameClient
<1>10. DataInTurn'
  BY <1>1, <1>8, <1>9, DataInTurnIf DEF Ordered
<1>11. MessagesMeant'
  <2>1. Unanswered' = Unanswered /\ \A m \in Unanswered : m \in Requests \/ m.fd = NoFd
    BY <1>1, RequestSockets DEF Unanswered
  <2>2. ASSUME NEW m \in Unanswered \cap Requests
        PROVE  m.fd \in Fds /\ m.from \in Clients /\ m_ConnectionMap'[m.fd] = m_ConnectionMap[m.fd]
    <3>1. m.fd \in Fds /\ m.from \in Clients /\ m_ConnectionMap[m.fd].State = "WAITING"
      BY RequestSockets DEF Ordered, MessagesMeant, Meant
    <3>2. QED
      BY <1>2, <1>5, <3>1
  <2> HIDE DEF Unanswered
  <2>3. QED
    BY <1>1, <1>9, <2>1, <2>2, SameMeant DEF Ordered
<1>12. RepliesAsked' /\ ~strayed'
  BY <1>1 DEF Ordered, RepliesAsked
<1>13. QED
  BY <1>7, <1>10, <1>11, <1>12 DEF Ordered

LEMMA SendMsgOrdered ==
    ASSUME TypeOK, OneSocket, Ordered, UNCHANGED scenario, NEW m \in inProcess, SendMsg(m)
    PROVE  Ordered'
<1>1. /\ inProcess' = inProcess \ {m}
      /\ m_outbound_priority_queue' = m_outbound_priority_queue \cup {m}
      /\ UNCHANGED <<owner, conn, unread, asked, answered, strayed, accepted, m_PreQueue,
                     m_ActiveConnectionList>>
  BY DEF SendMsg, kernelVars, clientVars, listVars
<1>2. m \in Unanswered \cap Requests /\ m.fd \in Fds /\ m.fd # NoFd
  BY RequestSockets DEF Unanswered
<1>3. m_ConnectionMap \in [Fds -> Records]
  BY DEF TypeOK
<1>4. /\ \A f \in Fds : /\ m_ConnectionMap'[f].State = m_ConnectionMap[f].State
                        /\ m_ConnectionMap'[f].listed = m_ConnectionMap[f].listed
                        /\ m_ConnectionMap'[f].buffer = m_ConnectionMap[f].buffer
                        /\ m_ConnectionMap'[f].old = m_ConnectionMap[f].old
                        /\ m_ConnectionMap[f].pendingwrite => m_ConnectionMap'[f].pendingwrite
      /\ m_ConnectionMap'[m.fd].pendingwrite
  BY <1>2, <1>3 DEF SendMsg, MarkPendingWrite, Records
<1>5. Accounted'
  BY <1>1, <1>4, SameAccounted DEF Ordered
<1>6. \A c \in Clients : SameClient(c)
  BY <1>1 DEF SameClient
<1>7. DataInTurn'
  <2>1. \A f \in Fds : Kept(f)' = Kept(f)
    BY <1>4 DEF Kept
  <2>2. QED
    BY <1>1, <1>6, <2>1, DataInTurnIf DEF Ordered
<1>8. MessagesMeant'
  <2> SUFFICES ASSUME NEW k \in Unanswered' \cap Requests
               PROVE  Meant(k)'
    BY DEF MessagesMeant
  <2>1. Unanswered' = Unanswered
    BY <1>1 DEF Unanswered
  <2>2. Meant(k) /\ k.fd \in Fds /\ k.from \in Clients
    BY <2>1, RequestSockets DEF Ordered, MessagesMeant
  <2>3. CASE k = m
    <3>1. /\ owner'[m.fd] = m.from /\ conn'[m.from] = "open"
          /\ m.n = asked'[m.from] /\ Due(m.from)'
          /\ m_ConnectionMap'[m.fd].State = "WAITING" /\ m_ConnectionMap'[m.fd].buffer = <<>>
          /\ unread'[m.from] = <<>>
          /\ \A j \in Unanswered : j.fd = m.fd => j = m
      BY <1>1, <1>2, <1>4, <2>2, <2>3 DEF Meant, Due
    <3>2. m \notin inProcess'
      BY <1>1
    <3>3. QED
      BY <1>4, <2>1, <2>3, <3>1, <3>2 DEF Meant
  <2>4. CASE k # m
    <3>1. (k \in inProcess' => k \in inProcess)
          /\ (k \in m_outbound_priority_queue' => k \in m_outbound_priority_queue)
      BY <1>1, <2>4
    <3>2. QED
      BY <1>1, <1>4, <1>6, <2>1, <2>2, <3>1, StillMeant
  <2>5. QED
    BY <2>3, <2>4
<1>9. RepliesAsked' /\ ~strayed'
  BY <1>1 DEF Ordered, RepliesAsked
<1>10. QED
  BY <1>5, <1>7, <1>8, <1>9 DEF Ordered

\* The messages that came by a socket are those there were, and records differ in
\* nothing they rest on.
LEMMA RecordsOrdered ==
    ASSUME TypeOK, Ordered,
           UNCHANGED <<owner, conn, unread, asked, answered, strayed, accepted, m_PreQueue,
                       m_ActiveConnectionList, inProcess>>,
           m_outbound_priority_queue' \cap Requests \subseteq m_outbound_priority_queue,
           \A m \in m_outbound_priority_queue' : m \in Requests \/ m.fd = NoFd,
           \A f \in Fds : /\ m_ConnectionMap'[f].State = m_ConnectionMap[f].State
                          /\ m_ConnectionMap'[f].listed = m_ConnectionMap[f].listed
                          /\ m_ConnectionMap'[f].buffer = m_ConnectionMap[f].buffer
                          /\ m_ConnectionMap'[f].pendingwrite = m_ConnectionMap[f].pendingwrite
                          /\ m_ConnectionMap'[f].old => \/ m_ConnectionMap[f].old
                                                        \/ \A m \in inProcess : m.fd # f
    PROVE  Ordered'
<1>1. Accounted'
  BY SameAccounted DEF Ordered
<1>2. \A c \in Clients : SameClient(c)
  BY DEF SameClient
<1>3. DataInTurn'
  <2>1. \A f \in Fds : Kept(f)' = Kept(f)
    BY DEF Kept
  <2>2. QED
    BY <1>2, <2>1, DataInTurnIf DEF Ordered
<1>4. MessagesMeant'
  <2>1. \A m \in Unanswered' : m \in Requests \/ m.fd = NoFd
    BY RequestSockets DEF Unanswered
  <2>2. \A m \in Requests : m.fd \in Fds /\ m.from \in Clients
    BY RequestSockets
  <2>3. QED
    BY <1>2, <2>1, <2>2, SameMeant DEF Ordered
<1>5. RepliesAsked' /\ ~strayed'
  BY DEF Ordered, RepliesAsked
<1>6. QED
  BY <1>1, <1>3, <1>4, <1>5 DEF Ordered

LEMMA SendOutOrdered ==
    ASSUME TypeOK, Ordered, UNCHANGED scenario, SendOut
    PROVE  Ordered'
<1>1. UNCHANGED <<owner, conn, unread, asked, answered, strayed, accepted, m_PreQueue,
                  m_ConnectionMap, m_ActiveConnectionList, inProcess>>
  BY DEF SendOut, kernelVars, clientVars, cacheVars, listVars
<1>2. \A m \in m_outbound_priority_queue' : m \in m_outbound_priority_queue \/ m.fd = NoFd
  BY DEF SendOut
<1>3. /\ m_outbound_priority_queue' \cap Requests \subseteq m_outbound_priority_queue
      /\ \A m \in m_outbound_priority_queue' : m \in Requests \/ m.fd = NoFd
  BY <1>2, RequestSockets, ConnectionAssumption
<1>4. QED
  BY <1>1, <1>3, RecordsOrdered

LEMMA AgeOrdered ==
    ASSUME TypeOK, Ordered, Orderly, UNCHANGED scenario, NEW fd \in Fds, Age(fd)
    PROVE  Ordered'
<1>1. /\ UNCHANGED <<owner, conn, unread, asked, answered, strayed, accepted, m_PreQueue,
                     m_ActiveConnectionList, inProcess, m_outbound_priority_queue>>
      /\ \A m \in inProcess : m.fd # fd
  BY DEF Age, Orderly, kernelVars, clientVars, queueVars, listVars
<1>2. m_ConnectionMap' = [m_ConnectionMap EXCEPT ![fd] =
                            [m_ConnectionMap[fd] EXCEPT !.old = TRUE]]
  BY DEF Age
<1>3. m_ConnectionMap \in [Fds -> Records]
  BY DEF TypeOK
<1>4. \A f \in Fds : /\ m_ConnectionMap'[f].State = m_ConnectionMap[f].State
                     /\ m_ConnectionMap'[f].listed = m_ConnectionMap[f].listed
                     /\ m_ConnectionMap'[f].buffer = m_ConnectionMap[f].buffer
                     /\ m_ConnectionMap'[f].pendingwrite = m_ConnectionMap[f].pendingwrite
                     /\ f # fd => m_ConnectionMap'[f].old = m_ConnectionMap[f].old
  BY <1>2, <1>3 DEF Records
<1>5. QED
  BY <1>1, <1>4, RequestSockets, RecordsOrdered

LEMMA TimeoutOrdered ==
    ASSUME TypeOK, ListedThere, OneSocket, Ordered, UNCHANGED scenario, TimeoutConnection
    PROVE  Ordered'
<1>1. PICK fd \in Fds : /\ Freed(fd) /\ fd \in Range(m_ActiveConnectionList)
                        /\ ~m_ConnectionMap[fd].pendingwrite /\ m_ConnectionMap[fd].old
  BY TimeoutFrees
<1>2. UNCHANGED <<unread, asked, answered, strayed, accepted, m_PreQueue, inProcess,
                  m_outbound_priority_queue>>
  BY DEF TimeoutConnection, clientVars, queueVars
<1>3. owner[fd] \in Clients
  BY <1>1, AccountedMeaning DEF Ordered, IsClient
<1>4. \A m \in Unanswered \cap Requests : m.fd # fd
  BY <1>1, <1>3, NoMessage DEF Ordered
<1>5. Accounted'
  BY <1>1, <1>2, FreedAccounted DEF Ordered
<1>6. DataInTurn'
  BY <1>1, <1>2, FreedInTurn DEF Ordered
<1>7. MessagesMeant'
  <2>1. Unanswered' = Unanswered /\ \A m \in Unanswered : m \in Requests \/ m.fd = NoFd
    BY <1>2, RequestSockets DEF Unanswered
  <2> HIDE DEF Unanswered
  <2>2. QED
    BY <1>1, <1>2, <1>4, <2>1, FreedMeant DEF Ordered
<1>8. RepliesAsked' /\ ~strayed'
  BY <1>2 DEF Ordered, RepliesAsked
<1>9. QED
  BY <1>5, <1>6, <1>7, <1>8 DEF Ordered

\* A connection that is closed as data is received has no message.
LEMMA ReceiveClosesOrdered ==
    ASSUME TypeOK, OneSocket, Ordered, NEW fd \in Fds, fd \in Range(m_ActiveConnectionList),
           Freed(fd), m_msgSize(Filled(fd)) # 0 \/ SocketFails(fd),
           \A c \in Clients : c # owner[fd] => unread'[c] = unread[c],
           inProcess' \subseteq inProcess,
           UNCHANGED <<asked, answered, strayed, accepted, m_PreQueue,
                       m_outbound_priority_queue>>
    PROVE  Ordered'
<1>1. owner[fd] \in Clients /\ m_ConnectionMap[fd].State = "WAITING"
  BY AccountedMeaning DEF Ordered, IsClient
<1>2. PICK c \in Clients : owner[fd] = c
  BY <1>1
<1>3. InTurn(fd, c)
  BY <1>2 DEF Ordered, DataInTurn
<1>4. \A m \in Unanswered \cap Requests : m.fd # fd
  <2>1. CASE SocketFails(fd)
    <3>1. conn[c] # "open"
      BY <1>2, <2>1, ConnectionAssumption DEF SocketFails
    <3>2. QED
      BY <1>2, <3>1, NoMessage DEF Ordered
  <2>2. CASE ~SocketFails(fd)
    <3>1. m_msgSize(Filled(fd)) # 0
      BY <2>2
    <3>2. Kept(fd) # <<>> \/ unread[c] # <<>>
      BY <1>1, <1>2, <1>3, <2>2, <3>1, FilledInTurn
    <3>3. QED
      BY <1>2, <3>2, NoMessage DEF Ordered
  <2>3. QED
    BY <2>1, <2>2
<1>5. Accounted'
  BY FreedAccounted DEF Ordered
<1>6. DataInTurn'
  BY FreedInTurn DEF Ordered
<1>7. MessagesMeant'
  <2>1. \A m \in Unanswered' : m \in Unanswered /\ (m \in Requests \/ m.fd = NoFd)
    BY RequestSockets DEF Unanswered
  <2> HIDE DEF Unanswered
  <2>2. QED
    BY <1>4, <2>1, FreedMeant DEF Ordered
<1>8. RepliesAsked' /\ ~strayed'
  BY DEF Ordered, RepliesAsked
<1>9. QED
  BY <1>5, <1>6, <1>7, <1>8 DEF Ordered

\* Data is received, and the connection stays: what there is of a request is kept,
\* or a complete one becomes a message.
LEMMA ReceiveStaysOrdered ==
    ASSUME TypeOK, OneSocket, Ordered, NEW fd \in Fds, fd \in Range(m_ActiveConnectionList),
           ~SocketFails(fd), m_ConnectionMap' = Taken(fd, m_msgSize(Filled(fd))),
           UNCHANGED <<owner, conn, m_ActiveConnectionList>>,
           unread' = [c \in Clients |->
                        IF c = owner[fd] /\ Received(fd) # <<>> THEN <<>> ELSE unread[c]],
           \/ m_msgSize(Filled(fd)) = 0 /\ inProcess' = inProcess
           \/ /\ m_msgSize(Filled(fd)) # 0
              /\ \E keep \in KeepAlive :
                   inProcess' = inProcess \cup {MessageOf(fd, Filled(fd), keep)},
           UNCHANGED <<asked, answered, strayed, accepted, m_PreQueue,
                       m_outbound_priority_queue>>
    PROVE  Ordered'
<1> DEFINE size == m_msgSize(Filled(fd))
           rest == SubSeq(Filled(fd), size + 1, Len(Filled(fd)))
<1>1. owner[fd] \in Clients /\ m_ConnectionMap[fd].State = "WAITING"
  BY AccountedMeaning DEF Ordered, IsClient
<1>2. PICK c \in Clients : owner[fd] = c
  BY <1>1
<1> DEFINE head == <<c, asked[c], "head">>
           tail == <<c, asked[c], "tail">>
<1>3. InTurn(fd, c)
  BY <1>2 DEF Ordered, DataInTurn
<1>4. /\ \/ Filled(fd) = <<>> /\ size = 0 /\ Received(fd) = <<>>
         \/ Filled(fd) = <<head>> /\ size = 0
         \/ Filled(fd) = <<head, tail>> /\ size = 2 /\ Received(fd) # <<>>
      /\ Filled(fd) # <<>> => Due(c) /\ conn[c] = "open"
      /\ rest = IF size = 0 THEN Filled(fd) ELSE <<>>
      /\ Filled(fd) = <<>> <=> Kept(fd) = <<>> /\ unread[c] = <<>>
      /\ Received(fd) = unread[c]
  BY <1>1, <1>2, <1>3, FilledInTurn
<1>5. size \in 0 .. Len(Filled(fd))
  BY ReceivedType, MsgSize
<1> HIDE DEF size
<1>6. /\ \A f \in Fds : /\ m_ConnectionMap'[f].State = m_ConnectionMap[f].State
                        /\ m_ConnectionMap'[f].listed = m_ConnectionMap[f].listed
                        /\ m_ConnectionMap'[f].pendingwrite = m_ConnectionMap[f].pendingwrite
                        /\ m_ConnectionMap'[f].old => m_ConnectionMap[f].old
                        /\ f # fd => m_ConnectionMap'[f] = m_ConnectionMap[f]
      /\ m_ConnectionMap'[fd].buffer = rest
      /\ m_ConnectionMap'[fd].old => Received(fd) = <<>>
  <2>1. m_ConnectionMap' = Taken(fd, size)
    BY DEF size
  <2>2. /\ \A f \in Fds \ {fd} : m_ConnectionMap'[f] = m_ConnectionMap[f]
        /\ m_ConnectionMap'[fd].State = m_ConnectionMap[fd].State
        /\ m_ConnectionMap'[fd].pendingwrite = m_ConnectionMap[fd].pendingwrite
        /\ m_ConnectionMap'[fd].old = (m_ConnectionMap[fd].old /\ Received(fd) = <<>>)
        /\ m_ConnectionMap'[fd].buffer = rest
    <3> HIDE DEF rest
    <3>1. QED
      BY <1>5, <2>1, TakenType DEF rest
  <2>3. \A f \in Fds : m_ConnectionMap'[f].listed = m_ConnectionMap[f].listed
    BY <1>5, <2>1, TakenType
  <2>4. m_ConnectionMap'[fd].old => m_ConnectionMap[fd].old /\ Received(fd) = <<>>
    BY <2>2
  <2> HIDE DEF rest
  <2>5. QED
    BY <2>2, <2>3, <2>4
<1> HIDE DEF rest, head, tail
<1>7. /\ unread'[c] = <<>>
      /\ \A d \in Clients \ {c} : SameClient(d)
  BY <1>2, <1>4 DEF SameClient
<1>8. /\ Kept(fd)' = rest
      /\ \A f \in Fds \ {fd} : Kept(f)' = Kept(f)
  BY <1>1, <1>6 DEF Kept
<1>9. \A f \in Fds : owner'[f] = c => f = fd
  BY <1>2 DEF OneSocket
<1>10. Accounted'
  BY <1>6, SameAccounted DEF Ordered
<1>11. DataInTurn'
  <2>1. InTurn(fd, c)'
    <3>1. rest = <<>> \/ rest = <<head>>
      BY <1>4
    <3>2. rest # <<>> => Due(c) /\ conn[c] = "open"
      BY <1>4
    <3>3. QED
      BY <1>7, <1>8, <3>1, <3>2 DEF InTurn, Due, head, tail
  <2>2. QED
    BY <1>2, <1>7, <1>8, <1>9, <2>1, DataInTurnIf DEF Ordered
<1>12. RepliesAsked' /\ ~strayed'
  BY DEF Ordered, RepliesAsked
<1>13. Filled(fd) # <<>> => \A m \in Unanswered \cap Requests : m.fd # fd
  BY <1>2, <1>4, NoMessage DEF Ordered
<1>14. ASSUME NEW m \in Unanswered \cap Requests
       PROVE  /\ m.fd \in Fds /\ owner'[m.fd] = owner[m.fd] /\ SameClient(m.from)
              /\ m_ConnectionMap'[m.fd].buffer = m_ConnectionMap[m.fd].buffer
              /\ Meant(m)
  <2>1. m.fd \in Fds /\ owner[m.fd] = m.from /\ m.from \in Clients /\ Meant(m)
    BY RequestSockets DEF Ordered, MessagesMeant, Meant
  <2>2. CASE m.fd = fd
    <3>1. Filled(fd) = <<>>
      BY <1>13, <2>2
    <3>2. rest = <<>> /\ unread[c] = <<>> /\ Kept(fd) = <<>> /\ m.from = c
      BY <1>2, <1>4, <2>1, <2>2, <3>1
    <3>3. SameClient(c)
      BY <1>7, <3>2 DEF SameClient
    <3>4. QED
      BY <1>1, <1>6, <2>1, <2>2, <3>2, <3>3 DEF Kept
  <2>3. CASE m.fd # fd
    <3>1. m.from # c
      BY <1>9, <2>1, <2>3
    <3>2. QED
      BY <1>6, <1>7, <2>1, <2>3, <3>1
  <2>4. QED
    BY <2>2, <2>3
<1>15. CASE size = 0
  <2>1. inProcess' = inProcess
    BY <1>15 DEF size
  <2>2. Unanswered' = Unanswered /\ \A m \in Unanswered : m \in Requests \/ m.fd = NoFd
    BY <2>1, RequestSockets DEF Unanswered
  <2> HIDE DEF Unanswered
  <2>3. MessagesMeant'
    BY <1>6, <1>14, <2>1, <2>2, SameMeant DEF Ordered
  <2>4. QED
    BY <1>10, <1>11, <1>12, <2>3 DEF Ordered
<1>16. CASE size # 0
  <2>1. PICK keep \in KeepAlive : inProcess' = inProcess \cup {MessageOf(fd, Filled(fd), keep)}
    BY <1>16 DEF size
  <2> PICK new : new = MessageOf(fd, Filled(fd), keep)
    OBVIOUS
  <2>2. Filled(fd) = <<head, tail>> /\ size = 2 /\ Received(fd) # <<>>
    BY <1>4, <1>16
  <2>3. Filled(fd) # <<>> /\ rest = <<>>
    BY <1>4, <1>16, <2>2, ShortSeqs
  <2>4. new.fd = fd /\ new.from = c /\ new.n = asked[c]
    <3>1. Filled(fd)[size] = tail
      BY <2>2, ShortSeqs
    <3>2. tail[1] = c /\ tail[2] = asked[c]
      BY DEF tail
    <3>3. QED
      BY <3>1, <3>2 DEF MessageOf, size
  <2>5. /\ Unanswered' = Unanswered \cup {new}
        /\ \A m \in Unanswered : m \in Requests \/ m.fd = NoFd
    BY <2>1, RequestSockets DEF Unanswered
  <2>6. \A k \in Unanswered : k.fd # fd
    BY <1>13, <2>3, <2>5, ConnectionAssumption
  <2>7. Meant(new)'
    <3>1. /\ owner'[fd] = c /\ conn'[c] = "open" /\ Due(c)'
          /\ m_ConnectionMap'[fd].State = "WAITING" /\ m_ConnectionMap'[fd].buffer = <<>>
          /\ unread'[c] = <<>> /\ ~m_ConnectionMap'[fd].old
      BY <1>1, <1>2, <1>4, <1>6, <1>7, <2>2, <2>3 DEF Due
    <3>2. new \notin m_outbound_priority_queue'
      BY <2>4, <2>6 DEF Unanswered
    <3>3. \A k \in Unanswered' : k.fd = fd => k = new
      BY <2>5, <2>6
    <3>4. QED
      BY <2>4, <3>1, <3>2, <3>3 DEF Meant
  <2>8. ASSUME NEW m \in Unanswered \cap Requests
        PROVE  Meant(m)'
    <3>1. m.fd # new.fd
      BY <2>4, <2>6
    <3>2. \A k \in Unanswered' : k.fd = m.fd => k \in Unanswered
      BY <2>5, <3>1
    <3>3. m \in inProcess' => m \in inProcess
      BY <2>1, <3>1
    <3>4. QED
      BY <1>6, <1>14, <3>2, <3>3, StillMeant
  <2>9. MessagesMeant'
    BY <2>5, <2>7, <2>8 DEF MessagesMeant
  <2>10. QED
    BY <1>10, <1>11, <1>12, <2>9 DEF Ordered
<1>17. QED
  BY <1>15, <1>16

LEMMA ReceiveOrdered ==
    ASSUME TypeOK, ListedThere, OneSocket, Ordered, UNCHANGED scenario, ProcessInboundTask
    PROVE  Ordered'
<1>1. PICK i \in SetRecords : ReceiveFrom(i)
  BY DEF ProcessInboundTask
<1>2. PICK fd : fd = m_ActiveConnectionList[i]
  OBVIOUS
<1>3. PICK size : size = m_msgSize(Filled(fd))
  OBVIOUS
<1>4. /\ i \in Nat /\ fd \in Fds /\ fd \in Range(m_ActiveConnectionList)
      /\ m_ConnectionMap[fd].State = "WAITING"
  BY <1>2, PlaceType DEF SetRecords
<1>5. UNCHANGED <<asked, answered, strayed, accepted, m_PreQueue, m_outbound_priority_queue>>
  BY DEF ProcessInboundTask, clientVars
<1> DEFINE stay == /\ m_ConnectionMap' = Taken(fd, size)
                   /\ UNCHANGED <<m_ActiveConnectionList, owner, conn>>
           close == FreeConnection(Taken(fd, size), i + 1, fd)
<1>6. /\ unread' = [c \in Clients |->
                      IF c = owner[fd] /\ Received(fd) # <<>> THEN <<>> ELSE unread[c]]
      /\ \/ /\ size # 0
            /\ \E keep \in KeepAlive :
                 inProcess' = inProcess \cup {MessageOf(fd, Filled(fd), keep)}
            /\ IF SocketFails(fd) THEN close ELSE stay
         \/ size # 0 /\ close /\ UNCHANGED inProcess
         \/ size = 0 /\ (IF SocketFails(fd) THEN close ELSE stay) /\ UNCHANGED inProcess
  BY <1>1, <1>2, <1>3 DEF ReceiveFrom
<1> HIDE DEF stay, close
<1>7. close => Freed(fd)
  BY <1>3, <1>4, CloseFrees DEF close
<1>8. SocketFails(fd) => size = 0
  <2> SUFFICES ASSUME SocketFails(fd)
               PROVE  size = 0
    OBVIOUS
  <2>1. PICK c \in Clients : owner[fd] = c
    BY <1>4, AccountedMeaning DEF Ordered, IsClient
  <2>2. conn[c] = "reset" /\ Received(fd) = <<>>
    BY <2>1, ConnectionAssumption DEF SocketFails, Received
  <2>3. Kept(fd) = <<>>
    <3>1. InTurn(fd, c)
      BY <1>4, <2>1 DEF Ordered, DataInTurn
    <3>2. QED
      BY <2>2, <3>1 DEF InTurn
  <2>4. Filled(fd) = <<>>
    BY <1>4, <2>2, <2>3, ShortSeqs DEF Filled, Kept
  <2>5. <<>> \in Seq(Tokens) /\ Len(<<>>) = 0
    BY EmptySeq
  <2>6. m_msgSize(<<>>) \in 0 .. Len(<<>>)
    BY <2>5, MsgSize, Zenon
  <2>7. m_msgSize(<<>>) = 0
    BY <2>5, <2>6
  <2>8. QED
    BY <1>3, <2>4, <2>7, Zenon
<1>9. \A c \in Clients : c # owner[fd] => unread'[c] = unread[c]
  BY <1>6
<1>10. CASE SocketFails(fd) \/ (close /\ UNCHANGED inProcess /\ size # 0)
  <2>1. Freed(fd) /\ UNCHANGED inProcess /\ (size # 0 \/ SocketFails(fd))
    BY <1>6, <1>7, <1>8, <1>10
  <2>2. QED
    BY <1>3, <1>4, <1>5, <1>9, <2>1, ReceiveClosesOrdered
<1>11. CASE ~SocketFails(fd) /\ stay
  <2>1. /\ m_ConnectionMap' = Taken(fd, m_msgSize(Filled(fd)))
        /\ UNCHANGED <<owner, conn, m_ActiveConnectionList>>
    BY <1>3, <1>11 DEF stay
  <2>2. close => FALSE
    <3>1. owner'[fd] = owner[fd] /\ owner[fd] \in Clients
      BY <1>4, <2>1, AccountedMeaning DEF Ordered, IsClient
    <3>2. QED
      BY <1>7, <3>1, ConnectionAssumption DEF Freed
  <2>3. \/ m_msgSize(Filled(fd)) = 0 /\ inProcess' = inProcess
        \/ /\ m_msgSize(Filled(fd)) # 0
           /\ \E keep \in KeepAlive :
                inProcess' = inProcess \cup {MessageOf(fd, Filled(fd), keep)}
    BY <1>3, <1>6, <2>2
  <2>4. QED
    BY <1>4, <1>5, <1>6, <1>11, <2>1, <2>3, ReceiveStaysOrdered
<1>12. QED
  BY <1>6, <1>10, <1>11

\* A reply to an orderly client is sent to the client that asked, and its socket
\* is closed or waits for the next request.
LEMMA TransmitOrdered ==
    ASSUME TypeOK, ListedThere, OneSocket, Ordered, UNCHANGED scenario,
           NEW m \in m_outbound_priority_queue, m.fd # NoFd, ProcessOutboundTask(m)
    PROVE  Ordered'
<1>1. PICK sent \in SendOutcomes(m.fd) : Transmit(m, sent)
  BY DEF ProcessOutboundTask
<1>2. m \in Requests /\ m.fd \in Fds /\ m.from \in Clients /\ m \in Unanswered \cap Requests
  BY RequestSockets DEF Unanswered
<1>3. PICK fd \in Fds : fd = m.fd
  BY <1>2
<1>4. PICK c \in Clients : c = m.from
  BY <1>2
<1>5. Meant(m)
  BY <1>2 DEF Ordered, MessagesMeant
<1>6. /\ owner[fd] = c /\ conn[c] = "open" /\ Due(c) /\ Kept(fd) = <<>> /\ unread[c] = <<>>
      /\ m_ConnectionMap[fd].State = "WAITING"
      /\ \A k \in Unanswered : k.fd = fd => k = m
      /\ m \notin inProcess
  BY <1>3, <1>4, <1>5 DEF Meant, Kept
<1>7. sent = TRUE
  <2>1. ~SocketFails(fd)
    BY <1>6, ConnectionAssumption DEF SocketFails, IsClient
  <2>2. QED
    BY <1>1, <1>3, <1>6, <2>1 DEF SendOutcomes, IsClient
<1>8. /\ UNCHANGED <<unread, accepted, m_PreQueue, asked, inProcess>>
      /\ m_outbound_priority_queue' = m_outbound_priority_queue \ {m}
      /\ answered' = [d \in Clients |-> IF d = m.from /\ owner[fd] = d
                                        THEN answered[d] + 1 ELSE answered[d]]
      /\ strayed' = (strayed \/ owner[fd] # m.from)
  BY <1>1, <1>3, <1>7 DEF ProcessOutboundTask, Popped, Transmit, Deliver
<1>9. ~strayed'
  BY <1>4, <1>6, <1>8 DEF Ordered
<1>10. RepliesAsked'
  <2>1. \A d \in Clients : answered[d] \in Nat /\ asked[d] \in Nat
    BY ConnectionAssumption DEF TypeOK
  <2>2. answered[c] + 1 <= asked[c]
    BY <1>6, <2>1 DEF Due
  <2>3. QED
    BY <1>4, <1>6, <1>8, <2>2 DEF Ordered, RepliesAsked
<1>11. /\ \A k \in Unanswered' : k \in Unanswered /\ k.fd # fd
                                 /\ (k \in Requests \/ k.fd = NoFd)
  <2>1. \A k \in Unanswered' : k \in Unanswered /\ k # m
    BY <1>6, <1>8 DEF Unanswered
  <2>2. \A k \in Unanswered : k \in Requests \/ k.fd = NoFd
    BY RequestSockets DEF Unanswered
  <2>3. QED
    BY <1>6, <2>1, <2>2
<1>12. \A d \in Clients : d # c => unread'[d] = unread[d] /\ answered'[d] = answered[d]
  BY <1>4, <1>8
<1>13. fd \in Range(m_ActiveConnectionList)
  BY <1>6, AccountedMeaning DEF Ordered
<1>14. CASE Freed(fd)
  <2>1. Accounted'
    BY <1>8, <1>13, <1>14, FreedAccounted DEF Ordered
  <2>2. DataInTurn'
    BY <1>6, <1>8, <1>12, <1>14, FreedInTurn DEF Ordered
  <2>3. MessagesMeant'
    BY <1>6, <1>8, <1>11, <1>12, <1>14, FreedMeant DEF Ordered
  <2>4. QED
    BY <1>9, <1>10, <2>1, <2>2, <2>3 DEF Ordered
<1>15. CASE /\ m_ConnectionMap' = Written(fd, TRUE) /\ CloseSockets({})
            /\ UNCHANGED m_ActiveConnectionList
  <2>1. /\ \A f \in Fds : owner'[f] = owner[f]
        /\ \A d \in Clients : conn'[d] = conn[d]
    BY <1>15, Closing
  <2>2. /\ m_ConnectionMap'[fd].State = m_ConnectionMap[fd].State
        /\ m_ConnectionMap'[fd].buffer = m_ConnectionMap[fd].buffer
        /\ \A f \in Fds \ {fd} : m_ConnectionMap'[f] = m_ConnectionMap[f]
        /\ \A f \in Fds : m_ConnectionMap'[f].listed = m_ConnectionMap[f].listed
    BY <1>15, WrittenType
  <2>3. \A f \in Fds : Kept(f)' = Kept(f)
    BY <2>2 DEF Kept
  <2>4. \A d \in Clients \ {c} : SameClient(d)
    BY <1>8, <1>12, <2>1 DEF SameClient
  <2>5. Accounted'
    BY <1>8, <1>15, <2>1, <2>2, SameAccounted DEF Ordered
  <2>6. DataInTurn'
    <3>1. InTurn(fd, c)'
      BY <1>6, <1>8, <2>3 DEF InTurn
    <3>2. \A f \in Fds : owner'[f] = c => f = fd
      BY <1>6, <2>1 DEF OneSocket
    <3>3. QED
      BY <1>6, <2>1, <2>3, <2>4, <3>1, <3>2, DataInTurnIf DEF Ordered
  <2>7. MessagesMeant'
    <3>1. ASSUME NEW k \in Unanswered' \cap Requests
          PROVE  /\ SameClient(k.from) /\ owner'[k.fd] = owner[k.fd]
                 /\ m_ConnectionMap'[k.fd] = m_ConnectionMap[k.fd]
      <4>1. k \in Unanswered \cap Requests /\ k.fd # fd /\ k.fd \in Fds /\ k.from \in Clients
        BY <1>11, RequestSockets
      <4>2. k.from # c
        BY <1>6, <4>1, OneMessage DEF Ordered
      <4>3. QED
        BY <2>1, <2>2, <2>4, <4>1, <4>2
    <3>2. QED
      BY <1>8, <1>11, <3>1, SameMeant DEF Ordered
  <2>8. QED
    BY <1>9, <1>10, <2>5, <2>6, <2>7 DEF Ordered
<1>16. QED
  BY <1>1, <1>2, <1>3, <1>7, <1>14, <1>15, TransmitFreesOrStays

\* A connection of the server's own, and the message it was for, concern no
\* client.
LEMMA OpenTCPOrdered ==
    ASSUME TypeOK, ListedThere, OneSocket, Ordered, UNCHANGED scenario,
           NEW m \in m_outbound_priority_queue, m.fd = NoFd, ProcessOutboundTask(m)
    PROVE  Ordered'
<1>1. OpenTCP(m)
  BY DEF ProcessOutboundTask
<1>2. /\ UNCHANGED <<unread, asked, answered, strayed, accepted, m_PreQueue, inProcess>>
      /\ m_outbound_priority_queue' \subseteq m_outbound_priority_queue
  BY <1>1 DEF ProcessOutboundTask, OpenTCP, Popped, clientVars
<1>3. \A k \in Unanswered' : k \in Unanswered /\ (k \in Requests \/ k.fd = NoFd)
  BY <1>2, RequestSockets DEF Unanswered
<1>4. \A k \in Unanswered \cap Requests : /\ k.fd \in Fds /\ k.from \in Clients
                                          /\ owner[k.fd] = k.from
  BY RequestSockets DEF Ordered, MessagesMeant, Meant
<1>5. RepliesAsked' /\ ~strayed'
  BY <1>2 DEF Ordered, RepliesAsked
<1>6. ASSUME NEW fd \in FreeFds, Freed(fd)
      PROVE  Ordered'
  <2>1. fd \in Fds /\ owner[fd] = NoClient
    BY DEF FreeFds
  <2>2. Accounted'
    BY <1>2, <1>6, <2>1, FreedAccounted DEF Ordered
  <2>3. DataInTurn'
    BY <1>2, <1>6, <2>1, FreedInTurn DEF Ordered
  <2>4. \A k \in Unanswered' \cap Requests : k.fd # fd
    BY <1>3, <1>4, <2>1, ConnectionAssumption
  <2>5. MessagesMeant'
    BY <1>2, <1>3, <1>6, <2>1, <2>4, FreedMeant DEF Ordered
  <2>6. QED
    BY <1>5, <2>2, <2>3, <2>5 DEF Ordered
<1>7. ASSUME UNCHANGED <<conn, cacheVars>>,
             \A f \in Fds : owner'[f] = owner[f] \/ (owner[f] = NoClient /\ owner'[f] = Server)
      PROVE  Ordered'
  <2>1. UNCHANGED <<m_ConnectionMap, m_ActiveConnectionList>>
    BY <1>7 DEF cacheVars, listVars
  <2>2. \A f \in Fds : owner'[f] \in Clients <=> owner[f] \in Clients
    BY <1>7, ConnectionAssumption
  <2>3. Accounted'
    BY <1>2, <2>1, <2>2, SameAccounted DEF Ordered
  <2>4. \A c \in Clients : SameClient(c)
    BY <1>2, <1>7 DEF SameClient
  <2>5. \A f \in Fds : Kept(f)' = Kept(f)
    BY <2>1 DEF Kept
  <2>6. DataInTurn'
    BY <1>7, <2>4, <2>5, DataInTurnIf, ConnectionAssumption DEF Ordered
  <2>7. MessagesMeant'
    <3>1. \A k \in Unanswered' \cap Requests : /\ SameClient(k.from)
                                               /\ owner'[k.fd] = owner[k.fd]
      BY <1>3, <1>4, <1>7, <2>4, ConnectionAssumption
    <3>2. QED
      BY <1>2, <1>3, <2>1, <3>1, SameMeant DEF Ordered
  <2>8. QED
    BY <1>5, <2>3, <2>6, <2>7 DEF Ordered
<1>8. ASSUME NEW fd \in FreeFds, owner' = [owner EXCEPT ![fd] = Server]
      PROVE  \A f \in Fds : owner'[f] = owner[f] \/ (owner[f] = NoClient /\ owner'[f] = Server)
  BY <1>8 DEF FreeFds, TypeOK
<1>9. QED
  BY <1>1, <1>6, <1>7, <1>8, OpenTCPEffect

LEMMA OrderedStep ==
    ASSUME TypeOK, ListedThere, OneSocket, Ordered, Orderly, [Next]_vars
    PROVE  Ordered'
<1>1. CASE UNCHANGED vars
  BY <1>1, SameOrdered DEF vars, kernelVars, clientVars, queueVars, cacheVars, listVars
<1> SUFFICES ASSUME Step, UNCHANGED scenario
             PROVE  Ordered'
  BY <1>1 DEF Next
<1>2. CASE Lock \/ EndTimeouts \/ CheckPreQueue \/ EndInbound \/ Unlock
  BY <1>2, SameOrdered DEF Lock, EndTimeouts, CheckPreQueue, EndInbound, Unlock,
        kernelVars, clientVars,
                           queueVars, cacheVars, listVars
<1>3. CASE Poll
  BY <1>3, SameOrdered DEF Poll, kernelVars, clientVars, queueVars
<1>4. ASSUME NEW c \in Clients,
             \/ SendHead(c) \/ SendTail(c) \/ Leave(c)
             \/ \E fd \in Fds : Accept(c, fd)
      PROVE  Ordered'
  BY <1>4, SendHeadOrdered, SendTailOrdered, LeaveOrdered, AcceptOrdered
<1>5. CASE PreQueue \/ SendOut \/ AddPreQueued
  BY <1>5, PreQueueOrdered, SendOutOrdered, AddPreQueuedOrdered
<1>6. CASE \/ \E m \in inProcess : SendMsg(m)
           \/ \E fd \in Fds : Age(fd)
  BY <1>6, SendMsgOrdered, AgeOrdered
<1>7. CASE TimeoutConnection \/ ProcessInboundTask
  BY <1>7, TimeoutOrdered, ReceiveOrdered
<1>8. CASE \E m \in m_outbound_priority_queue : ProcessOutboundTask(m)
  BY <1>8, TransmitOrdered, OpenTCPOrdered
<1>9. QED
  BY <1>2, <1>3, <1>4, <1>5, <1>6, <1>7, <1>8 DEF Step, Run

-----------------------------------------------------------------------------
\* The inductive invariant

\* What is kept for an orderly client is the head of its last request.
LEMMA OrderedOwn == TypeOK /\ Ordered => OwnKept
<1> SUFFICES ASSUME TypeOK, Ordered, NEW fd \in Fds
             PROVE  OwnSeq(Kept(fd), owner[fd])
  BY DEF OwnKept
<1>1. CASE owner[fd] \in Clients
  <2>1. PICK c \in Clients : owner[fd] = c
    BY <1>1
  <2>2. InTurn(fd, c)
    BY <2>1 DEF Ordered, DataInTurn
  <2>3. Kept(fd) = <<>> \/ Kept(fd) = <<<<c, asked[c], "head">>>>
    BY <2>2 DEF InTurn
  <2>4. OwnSeq(<<<<c, asked[c], "head">>>>, c)
    BY ShortSeqs DEF OwnSeq
  <2>5. QED
    BY <2>1, <2>3, <2>4, OwnEmpty
<1>2. CASE owner[fd] \notin Clients
  <2>1. m_ConnectionMap[fd].State # "WAITING"
    BY <1>2, AccountedMeaning DEF Ordered, IsClient
  <2>2. QED
    BY <2>1, OwnEmpty DEF Kept
<1>3. QED
  BY <1>1, <1>2

LEMMA OwnDataMeaning == TypeOK => (OwnData <=> (Orderly \/ ~m_bSocketCreated => OwnKept))
BY OwnKeptMeaning DEF OwnData

LEMMA InvariantMeaning ==
    TypeOK => (CacheInv <=> /\ ListedThere /\ OneSocket /\ OwnUnread /\ PendingMarked
                            /\ ~Orderly /\ ~m_bSocketCreated => OwnKept
                            /\ Orderly => Ordered)
<1> SUFFICES ASSUME TypeOK
             PROVE  CacheInv <=> /\ ListedThere /\ OneSocket /\ OwnUnread /\ PendingMarked
                                 /\ ~Orderly /\ ~m_bSocketCreated => OwnKept
                                 /\ Orderly => Ordered
  OBVIOUS
<1>1. OwnData <=> (Orderly \/ ~m_bSocketCreated => OwnKept)
  BY OwnDataMeaning
<1>2. Ordered => OwnKept
  BY OrderedOwn
<1>3. QED
  BY <1>1, <1>2 DEF CacheInv, Ordered

LEMMA InvariantStep == CacheInv /\ [Next]_vars => CacheInv'
<1> SUFFICES ASSUME CacheInv, [Next]_vars
             PROVE  CacheInv'
  OBVIOUS
<1>1. /\ TypeOK /\ ListedThere /\ OneSocket /\ OwnUnread /\ PendingMarked
      /\ ~Orderly /\ ~m_bSocketCreated => OwnKept
      /\ Orderly => Ordered
  BY InvariantMeaning DEF CacheInv
<1>2. TypeOK' /\ ListedThere'
  BY <1>1, TypeStep
<1>3. OneSocket' /\ OwnUnread' /\ PendingMarked'
  BY <1>1, OneSocketStep, OwnUnreadStep, PendingStep
<1>4. Orderly' = Orderly
  BY SameTokens DEF Next, vars
<1>5. ~Orderly' /\ ~m_bSocketCreated' => OwnKept'
  BY <1>1, <1>4, SocketCreatedStep, OwnKeptStep
<1>6. Orderly' => Ordered'
  BY <1>1, <1>4, OrderedStep
<1>7. QED
  BY <1>2, <1>3, <1>5, <1>6, InvariantMeaning, PTL

LEMMA InvariantInit == Init => CacheInv
<1> SUFFICES ASSUME Init
             PROVE  CacheInv
  OBVIOUS
<1>1. TypeOK /\ ListedThere
  BY InitType
<1>2. /\ \A c \in Clients : /\ unread[c] = <<>> /\ asked[c] = 0 /\ answered[c] = 0
                            /\ conn[c] \in {"new", "closed"}
      /\ \A fd \in Fds : owner[fd] = NoClient
      /\ strayed = FALSE /\ accepted = NoFd
      /\ m_PreQueue = <<>> /\ m_ActiveConnectionList = <<>>
      /\ m_outbound_priority_queue = {} /\ inProcess = {}
  BY DEF Init
<1>3. \A fd \in Fds : m_ConnectionMap[fd].State = "FREE" /\ m_ConnectionMap[fd].listed = FALSE
  BY DEF Init, FreeRecord
<1>4. OneSocket
  BY <1>2, ConnectionAssumption DEF OneSocket
<1>5. OwnUnread
  BY <1>2 DEF OwnUnread
<1>6. PendingMarked
  BY <1>2 DEF PendingMarked
<1>7. \A fd \in Fds : Kept(fd) = <<>>
  BY <1>3 DEF Kept
<1>8. OwnKept
  BY <1>7, OwnEmpty DEF OwnKept
<1>9. Ordered
  <2>1. Accounted
    <3>1. IsInjective(m_PreQueue) /\ IsInjective(m_ActiveConnectionList)
      BY <1>2 DEF IsInjective
    <3>2. \A fd \in Fds : fd \notin Range(m_PreQueue) /\ fd \notin Range(m_ActiveConnectionList)
      BY <1>2 DEF Range
    <3>3. \A fd \in Fds : Places(fd) = {} /\ ~IsClient(fd)
      BY <1>2, <3>2, ConnectionAssumption DEF Places, IsClient
    <3>4. \A fd \in Fds :
            /\ m_ConnectionMap[fd].listed = (fd \in Range(m_ActiveConnectionList))
            /\ m_ConnectionMap[fd].listed = (m_ConnectionMap[fd].State = "WAITING")
      <4>1. \A fd \in Fds : /\ (fd \in Range(m_ActiveConnectionList)) = FALSE
                            /\ (m_ConnectionMap[fd].State = "WAITING") = FALSE
        BY <1>3, <3>2
      <4>2. QED
        BY <1>3, <4>1, Zenon
    <3>5. QED
      BY <3>1, <3>3, <3>4 DEF Accounted
  <2>2. DataInTurn
    BY <1>2, ConnectionAssumption DEF DataInTurn
  <2>3. MessagesMeant /\ RepliesAsked /\ ~strayed
    BY <1>2 DEF MessagesMeant, Unanswered, RepliesAsked
  <2>4. QED
    BY <2>1, <2>2, <2>3 DEF Ordered
<1>10. QED
  BY <1>1, <1>4, <1>5, <1>6, <1>8, <1>9, InvariantMeaning

\* What the cache, the pre-queue and the queue keep has its type and belongs
\* together at every step: whoever reads is on the list, what waits to be sent is
\* marked, and among orderly clients every socket is in one place and every
\* message is about the client at the other end of its socket.
THEOREM InductiveInvariant == Spec => []CacheInv
<1>1. Init => CacheInv
  BY InvariantInit
<1>2. CacheInv /\ [Next]_vars => CacheInv'
  BY InvariantStep
<1>3. QED
  BY <1>1, <1>2, PTL DEF Spec

\* No request is put together of what two clients sent through sockets of the
\* same number (cConnectionCache::AddConnection resets the buffer,
\* FreeConnection ends the record's use).
THEOREM DataOfOneClient == Spec => []OwnData
<1>1. CacheInv => OwnData
  BY DEF CacheInv
<1>2. QED
  BY <1>1, InductiveInvariant, PTL

\* TimeoutConnections closes no connection whose reply is queued, whatever the
\* clients do (MarkPendingWrite).
THEOREM RepliesSpared == Spec => TimeoutSparesReplies
<1>1. CacheInv /\ [Next]_vars =>
        [qpc = "timeout" =>
           \A m \in m_outbound_priority_queue :
              m.fd # NoFd => m_ConnectionMap'[m.fd].State = m_ConnectionMap[m.fd].State]_vars
  BY SparesStep DEF CacheInv
<1>2. QED
  BY <1>1, InductiveInvariant, PTL DEF Spec, TimeoutSparesReplies
=============================================================================
