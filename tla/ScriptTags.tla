------------------------------ MODULE ScriptTags -------------------------------
(***************************************************************************)
(* cWebRequestHandler::ProcessServerSideScripts: the {{MC_ tags of a page   *)
(* are replaced, in the buffer, before it is sent.  A step is one turn of   *)
(* the loop.  A character of a tag is the tag's kind and its place in it;   *)
(* the block is modelled with what lies behind the content, because the     *)
(* loop may look there.                                                     *)
(***************************************************************************)
EXTENDS Integers, Sequences, FiniteSetsExt

CONSTANTS
    Pages,      \* sequences of [kind, size]: tags, and "text" of some length
    TagSize,    \* of each kind of tag, the unknown one included: its length
    ValueSize,  \* of each known kind: the length of what replaces it
    Mark,       \* the length of "{{MC_", with which every tag begins: less than a tag's
    LongSize    \* a block is this much, 1 at least, larger than what was read into it

Kinds == <<"SERVERADDR", "SERVERTIME", "PAGETIME">>

VARIABLES
    page,       \* the page, as it was written
    block,      \* m_pBuffer of m_Response, from 0
    m_iTail,
    offset,
    at          \* "loop", "done", or "lost" when it looks behind the block

pageVars == <<page, block, m_iTail, offset, at>>

Cell(kind, place) == [kind |-> kind, place |-> place]
Nul == Cell("nul", 0)
Size == Cardinality(DOMAIN block)

RECURSIVE Cells(_)
Cells(p) ==
    IF p = <<>> THEN <<>>
    ELSE [i \in 1 .. Head(p).size |-> Cell(Head(p).kind, i)] \o Cells(Tail(p))

\* ProcessServerSideScripts is called with a page in m_Response.
BeginPage(p) ==
    /\ page = p
    /\ m_iTail = Len(Cells(p))
    /\ LET text == Cells(p)
       IN block = [i \in 0 .. m_iTail + LongSize - 1 |->
                      IF i < m_iTail THEN text[i + 1] ELSE Nul]
    /\ offset = 0
    /\ at = "loop"

PageInit == \E p \in Pages : BeginPage(p)

-----------------------------------------------------------------------------
(* The parts of cBuffer the loop calls; Buffer.tla has them all. *)

\* strstr from a place on, up to the terminator, for the first n characters of a tag
\* of one of these kinds.
Find(kinds, n, from) ==
    LET nul == {i \in from .. Size - 1 : block[i] = Nul \/ i = m_iTail}
        end == IF nul = {} THEN Size ELSE Min(nul)
        hits == {i \in from .. end - n : \E k \in kinds :
                    \A j \in 1 .. n : block[i + j - 1] = Cell(k, j)}
    IN IF hits = {} THEN -1 ELSE Min(hits)

FindTag(from) == Find(DOMAIN TagSize, Mark, from)

\* What malloc left in a larger block is taken to be zeros.
Room(tail) == Max({Size, tail + LongSize})

\* Remove of n characters and Insert of a value: the block grows when it has to, and
\* what was behind the content stays there.
Replaced(index, n, kind) ==
    LET v == ValueSize[kind]
        tail == m_iTail - n + v
        shift == v - n
        cell(i) == CASE i < index -> block[i]
                     [] i \in index .. index + v - 1 -> Cell("value of " \o kind, i - index + 1)
                     [] i \in index + v .. tail - 1 -> block[i - shift]
                     [] i = tail -> Nul
                     [] i > tail /\ i < Size -> block[i]
                     [] OTHER -> Nul
    IN [i \in 0 .. Room(tail) - 1 |-> cell(i)]

-----------------------------------------------------------------------------
Loops == at = "loop" /\ offset < Size

\* The kind the loop takes the tag for: the first that is anywhere behind it.
TakenFor(index) ==
    {Kinds[i] : i \in {j \in DOMAIN Kinds :
        /\ Find({Kinds[j]}, TagSize[Kinds[j]], index) # -1
        /\ \A h \in 1 .. j - 1 : Find({Kinds[h]}, TagSize[Kinds[h]], index) = -1}}

\* The loop goes on where the tag would have ended.
Behind(index, kind) == index + TagSize[kind]

\* It goes on here behind a tag it does not know.
Skipped(index) == offset + index

ReplaceTag ==
    /\ Loops
    /\ \E index \in {FindTag(offset)} \ {-1} : \E kind \in TakenFor(index) :
          /\ block' = Replaced(index, TagSize[kind], kind)
          /\ m_iTail' = m_iTail - TagSize[kind] + ValueSize[kind]
          /\ offset' = Behind(index, kind)
    /\ UNCHANGED <<page, at>>

\* A tag of no known kind, with none behind it.
SkipTag ==
    /\ Loops
    /\ \E index \in {FindTag(offset)} \ {-1} :
          /\ TakenFor(index) = {}
          /\ offset' = Skipped(index)
    /\ UNCHANGED <<page, block, m_iTail, at>>

NoTagLeft ==
    /\ Loops /\ FindTag(offset) = -1
    /\ at' = "done"
    /\ UNCHANGED <<page, block, m_iTail, offset>>

LookOutside ==
    /\ at = "loop" /\ offset >= Size
    /\ at' = "lost"
    /\ UNCHANGED <<page, block, m_iTail, offset>>

PageNext == ReplaceTag \/ SkipTag \/ NoTagLeft \/ LookOutside

PageFairness == WF_pageVars(PageNext)
PageSpec == PageInit /\ [][PageNext]_pageVars /\ PageFairness

-----------------------------------------------------------------------------
\* What a page is to become: each tag of a known kind is its value, and the rest as it was.
WithValues(p) ==
    [i \in DOMAIN p |-> IF p[i].kind \in DOMAIN ValueSize
                        THEN [kind |-> "value of " \o p[i].kind, size |-> ValueSize[p[i].kind]]
                        ELSE p[i]]

\* webrequesthandler.cpp:574: "Post process special tags".  The loop over a page ends, and
\* then every tag is replaced by its own value.
TagsProcessed ==
    <>(at = "done" /\ [i \in 1 .. m_iTail |-> block[i - 1]] = Cells(WithValues(page)))
=============================================================================
