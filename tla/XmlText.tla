-------------------------------- MODULE XmlText --------------------------------
(***************************************************************************)
(* The text side of cXMLLiteParser (xmlliteparser.cpp): from the           *)
(* characters of a document to the flat list of elements that Config       *)
(* reads.  The parser looks at one character at a time and remembers where *)
(* the tag, its next attribute and the text behind it began.               *)
(*                                                                         *)
(* A text is a sequence of symbols: the characters that mean something, a  *)
(* name or word as one symbol, and so each entity and each of the marks    *)
(* <!-- --> <![CDATA[ ]]>.  Positions count from 1 and 0 is no position.   *)
(* How large the working buffer is, is left out.                           *)
(***************************************************************************)
EXTENDS Integers, SequencesExt

CONSTANTS
    Documents,   \* trees [tag, attrs, value, kids, short, cdata]: attrs is a
                 \* sequence of <<name, value>>; values are texts
    Layouts      \* how they are written: see Render

VARIABLES
    doc, layout,       \* what was written, and how
    pszData,           \* the text
    idx,               \* the character looked at
    iState,            \* "TagScan", "TagProcess", or "end"
    inQoute,
    iTagMarkStart, iAttribMarkStart, iScanMarkStart,
    wiped,             \* a comment has put a 0 at the start of the working buffer
    m_xmlElements      \* [name, value, attrs, cdata], the last being pElement

input == <<doc, layout, pszData>>
xmlVars == <<input, idx, iState, inQoute, iTagMarkStart, iAttribMarkStart, iScanMarkStart,
          wiped, m_xmlElements>>

-----------------------------------------------------------------------------
(* Texts *)

Whites == {" ", "\n", "\r", "\t"}
Quotes == {"\"", "'"}

Places(s, symbols) == {i \in DOMAIN s : s[i] \in symbols}

\* The text before the first such symbol.
TerminateAtChar(s, symbol) ==
    IF Places(s, {symbol}) = {} THEN s ELSE SubSeq(s, 1, Min(Places(s, {symbol})) - 1)

\* The text without such symbols at its ends.
Strip(s, symbols) ==
    LET kept == DOMAIN s \ Places(s, symbols)
    IN IF kept = {} THEN <<>> ELSE SubSeq(s, Min(kept), Max(kept))

\* Without the characters that cannot be part of a name or value, and without
\* the question marks that are not quoted.
StripChars(s) ==
    LET quoted(i) == Cardinality({j \in 1 .. i : s[j] \in Quotes}) % 2 = 1
        kept == SelectSeq([i \in DOMAIN s |-> i],
                    LAMBDA i : /\ s[i] \notin {"<", ">", "\r", "\n", "\t"}
                               /\ s[i] = "?" => quoted(i))
    IN <<>> \o [k \in DOMAIN kept |-> s[kept[k]]]

\* Without the first quotation mark, and without the last one and what follows
\* it; nothing is left of a text with only one.
StripBeginningAndEndingQoutes(s) ==
    LET q == Places(s, Quotes)
    IN IF q = {} THEN s
       ELSE IF Min(q) = Max(q) THEN <<>>
       ELSE SubSeq(s, 1, Min(q) - 1) \o SubSeq(s, Min(q) + 1, Max(q) - 1)

\* The element of a set of one: TLC evaluates what binds it only once.
The(S) == CHOOSE x \in S : TRUE

CleanInput(s) ==
    The({StripBeginningAndEndingQoutes(t) : t \in {Strip(u, {" "}) : u \in {StripChars(s)}}})

Entities == [e \in {"&lt;", "&gt;", "&amp;", "&apos;", "&quot;"} |->
                CASE e = "&lt;" -> "<" [] e = "&gt;" -> ">" [] e = "&amp;" -> "&"
                  [] e = "&apos;" -> "'" [] e = "&quot;" -> "\""]

\* One pass: what an entity stands for is not looked at again.
TransformXMLEntities(s) ==
    [i \in DOMAIN s |-> IF s[i] \in DOMAIN Entities THEN Entities[s[i]] ELSE s[i]]

\* The attributes that a piece of a tag adds: one, or none if it has no `=' or
\* nothing before it.
SplitParam(s) ==
    IF Places(s, {"="}) \ {1} = {} \/ s[1] = "=" THEN <<>>
    ELSE LET eq == Min(Places(s, {"="}))
             from == IF eq < Len(s) /\ s[eq + 1] = " " THEN eq + 2 ELSE eq + 1
         IN << <<SubSeq(s, 1, eq - 1), TransformXMLEntities(SubSeq(s, from, Len(s)))>> >>

-----------------------------------------------------------------------------
(* How a document is written: before every tag but the first stands the     *)
(* layout's gap, before an attribute its space, before the end of a tag its *)
(* tail, and around a value its pad.                                        *)

RenderAttrs(n, l) ==
    FlattenSeq([i \in DOMAIN n.attrs |->
        l.space \o <<n.attrs[i][1], "=", "\"">> \o n.attrs[i][2] \o <<"\"">>]) \o l.tail

RECURSIVE Render(_, _)
Render(n, l) ==
    <<"<", n.tag>> \o RenderAttrs(n, l)
    \o IF n.short THEN <<"/", ">">>
       ELSE <<">">>
            \o (IF n.value = <<>> THEN <<>> ELSE l.pad \o n.value \o l.pad)
            \o (IF n.cdata = <<>> THEN <<>> ELSE <<"<![CDATA[">> \o n.cdata \o <<"]]>", "\r", "\n">>)
            \o FlattenSeq([i \in DOMAIN n.kids |-> l.gap \o Render(n.kids[i], l)])
            \o (IF n.kids = <<>> THEN <<>> ELSE l.gap)
            \o <<"<", "/", n.tag>> \o l.tail \o <<">">>

\* Parse is called with a text.
BeginWith(d, l) ==
    /\ doc = d /\ layout = l
    /\ pszData = l.prolog \o Render(d, l)
    /\ idx = 1
    /\ iState = "TagScan"
    /\ inQoute = FALSE
    /\ iTagMarkStart = 1 /\ iAttribMarkStart = 0 /\ iScanMarkStart = 0
    /\ wiped = FALSE
    /\ m_xmlElements = <<>>

XmlInit == \E d \in Documents, l \in Layouts : BeginWith(d, l)

-----------------------------------------------------------------------------
(* cXMLLiteParser::Parse *)

More == iState # "end" /\ idx <= Len(pszData)
Ch == pszData[idx]
Slice(from) == SubSeq(pszData, from, idx)

\* Where the symbol stands from here on (strstr).
AheadOf(symbol) == {i \in idx .. Len(pszData) : pszData[i] = symbol}

GetNewEntry(name) == [name |-> name, value |-> <<>>, attrs |-> <<>>, cdata |-> <<>>]

\* pElement with the attributes of the piece of the tag since iAttribMarkStart.
WithParam(e) ==
    [e EXCEPT !.attrs = @ \o The({SplitParam(p) : p \in {CleanInput(Slice(iAttribMarkStart))}})]

OnLast(elements, e) == [elements EXCEPT ![Len(elements)] = e]
pElement == m_xmlElements[Len(m_xmlElements)]

Comment ==
    /\ More /\ Ch = "<!--" /\ AheadOf("-->") # {}
    /\ idx' = Min(AheadOf("-->")) + 1
    /\ iState' = "TagScan"
    /\ wiped' = TRUE
    /\ UNCHANGED <<input, inQoute, iTagMarkStart, iAttribMarkStart, iScanMarkStart, m_xmlElements>>

\* It goes on at the first tag that begins two characters behind the block's end,
\* and leaves the text before it out.
CDATA ==
    /\ More /\ Ch = "<![CDATA[" /\ m_xmlElements # <<>> /\ AheadOf("]]>") # {}
    /\ LET end == Min(AheadOf("]]>"))
       IN /\ m_xmlElements' = OnLast(m_xmlElements,
                [pElement EXCEPT !.cdata = SubSeq(pszData, idx + 1, end - 1)])
          /\ idx' = Min({i \in AheadOf("<") : i > end + 2})
    /\ iState' = "TagBegin"
    /\ UNCHANGED <<input, inQoute, iTagMarkStart, iAttribMarkStart, iScanMarkStart, wiped>>

\* There is text between the last tag and this one.
Scanned == iScanMarkStart > 0 /\ iState = "TagScan" /\ ~wiped

ValueText == TransformXMLEntities(Strip(SubSeq(pszData, iScanMarkStart, idx - 1), Whites))

TagBegin ==
    /\ More /\ Ch = "<"
    /\ m_xmlElements' =
          Append(IF Scanned /\ ValueText # <<>>
                 THEN OnLast(m_xmlElements, [pElement EXCEPT !.value = ValueText])
                 ELSE m_xmlElements,
                 GetNewEntry(<<>>))
    /\ iScanMarkStart' = 0 /\ iTagMarkStart' = idx
    /\ iState' = "TagProcess" /\ idx' = idx + 1
    /\ UNCHANGED <<input, inQoute, iAttribMarkStart, wiped>>

InTag == More /\ iState = "TagProcess" /\ Ch \notin {"<", ">", "<!--", "<![CDATA["}

AttributeBegins == InTag /\ Ch = " " /\ iAttribMarkStart = 0

EndsAttribute_Quoted == Ch \in {" ", "\t"} /\ ~AttributeBegins

\* A space behind an attribute, and not in its value.
EndsAttribute == Ch \in {" ", "\t"} /\ ~AttributeBegins /\ ~inQoute

TagProcess ==
    /\ InTag
    /\ inQoute' = IF Ch = "\"" THEN ~inQoute ELSE inQoute
    /\ iAttribMarkStart' = IF AttributeBegins \/ EndsAttribute THEN idx ELSE iAttribMarkStart
    /\ m_xmlElements' = IF EndsAttribute THEN OnLast(m_xmlElements, WithParam(pElement))
                        ELSE m_xmlElements
    /\ idx' = idx + 1
    /\ UNCHANGED <<input, iState, iTagMarkStart, iScanMarkStart, wiped>>

HasShortTerminator == idx > 1 /\ pszData[idx - 1] = "/"

NameOf(s) ==
    IF HasShortTerminator THEN TerminateAtChar(TerminateAtChar(s, " "), "/")
    ELSE TerminateAtChar(s, " ")

\* The element that stands for the end of a short tag.
Closing == IF HasShortTerminator THEN <<GetNewEntry(<<"/", ">">>)>> ELSE <<>>

\* The mark behind a tag: its attributes are done.
NoMark == 0

\* (A text with a > before its first < is left out.)
TagEnd ==
    /\ More /\ Ch = ">" /\ m_xmlElements # <<>>
    /\ LET named == [pElement EXCEPT !.name = The({NameOf(n) : n \in {CleanInput(Slice(iTagMarkStart))}})]
       IN m_xmlElements' =
             OnLast(m_xmlElements, IF iAttribMarkStart = 0 THEN named ELSE WithParam(named))
             \o Closing
    /\ iAttribMarkStart' = NoMark /\ iTagMarkStart' = 1
    /\ iState' = "TagScan" /\ iScanMarkStart' = idx + 1
    /\ wiped' = FALSE
    /\ idx' = idx + 1
    /\ UNCHANGED <<input, inQoute>>

TagScan ==
    /\ More /\ iState = "TagScan" /\ Ch \notin {"<", ">", "<!--", "<![CDATA["}
    /\ idx' = idx + 1
    /\ UNCHANGED <<input, iState, inQoute, iTagMarkStart, iAttribMarkStart, iScanMarkStart,
                   wiped, m_xmlElements>>

ParseEnds ==
    /\ iState # "end" /\ idx > Len(pszData)
    /\ iState' = "end"
    /\ UNCHANGED <<input, idx, inQoute, iTagMarkStart, iAttribMarkStart, iScanMarkStart,
                   wiped, m_xmlElements>>

Done == iState = "end" /\ UNCHANGED xmlVars

XmlNext == Comment \/ CDATA \/ TagBegin \/ TagProcess \/ TagEnd \/ TagScan \/ ParseEnds \/ Done

XmlSpec == XmlInit /\ [][XmlNext]_xmlVars

-----------------------------------------------------------------------------
XmlTypeOK ==
    /\ idx \in 1 .. Len(pszData) + 1
    /\ iState \in {"TagScan", "TagBegin", "TagProcess", "end"}
    /\ iTagMarkStart \in 1 .. Len(pszData)
    /\ iAttribMarkStart \in 0 .. Len(pszData) /\ (iAttribMarkStart # 0 => iState = "TagProcess")
    /\ iScanMarkStart \in 0 .. Len(pszData) + 1
    /\ inQoute => iState = "TagProcess"

\* The list that the document stands for: each tag, and its end.
RECURSIVE Written(_)
Written(n) ==
    <<[name |-> <<n.tag>>, value |-> TransformXMLEntities(n.value), cdata |-> n.cdata,
       attrs |-> [i \in DOMAIN n.attrs |->
                     <<(<<n.attrs[i][1]>>), TransformXMLEntities(n.attrs[i][2])>>]]>>
    \o FlattenSeq([i \in DOMAIN n.kids |-> Written(n.kids[i])])
    \o <<GetNewEntry(IF n.short THEN <<"/", ">">> ELSE <<"/", n.tag>>)>>

\* The same document gives the same elements, names, attributes and values, however
\* it is laid out: with spaces, new lines and comments between its tags, spaces in
\* its values, and tags written short (xmlliteparser.cpp:642).
ParsedAsWritten == iState = "end" => m_xmlElements = layout.first \o Written(doc)
=============================================================================
