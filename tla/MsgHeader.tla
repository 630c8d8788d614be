------------------------------- MODULE MsgHeader -------------------------------
(***************************************************************************)
(* What a message says, from the header a client writes to the answer it   *)
(* reads (cHeaderExtract, cRoutingTag, cMsg::Parse, CreateMessageReply and *)
(* cConnectionHandlerOutbound::TransmitMsg).  MsgFlow has the states a     *)
(* message goes through and Connections the sockets; here the fields are   *)
(* followed from one message object to the next, and the objects and the   *)
(* outbound handler are used again for every request.                      *)
(*                                                                         *)
(* Text is a sequence of words, in which "@", ":" and " " stand alone.  The *)
(* peer that reads an answer is another node that runs the same code.      *)
(***************************************************************************)
EXTENDS Integers, Sequences, SequencesExt

CONSTANTS
    Requests,   \* what clients send: [via, lines, wrote]; wrote is what they
                \* mean by the lines, and no definition but a property reads it
    Errands,    \* what the node sends on its own account: [via, to, ip, port]
    Bodies,     \* the lengths of the answers handlers give
    Dotted,     \* the words with a dot in them
    Numbers,    \* the words that are numbers
    ThisNode    \* this node's own tag

\* The text is a whole tag: a name, an address and a port, and the signs between them.
IsTag(text, ip, port) ==
    /\ text = <<text[1], "@", ip, ":", port>>
    /\ {text[1], ip, port} \cap {"@", ":"} = {}
    /\ port \in Numbers

\* The text is a name of one word, or none.
IsName(text) == text = <<>> \/ (text = <<text[1]>> /\ text[1] \notin {"@", ":"})

\* Whoever gives an address gives a whole tag, once it is read; another one has a
\* name of one word, or none.
ASSUME HeaderAssumption ==
    /\ Requests \cap Errands = {}
    /\ \A r \in Requests :
          /\ r.via \in {"TCP", "UDP", "GET", "POST"}
          /\ IF r.wrote.ip # "" THEN IsTag(r.wrote.from, r.wrote.ip, r.wrote.port)
             ELSE IsName(r.wrote.from)
    /\ \A e \in Errands :
          /\ e.via \in {"OB_TCP", "OB_UDP"}
          /\ IF e.ip # "" THEN IsTag(e.to, e.ip, e.port) ELSE IsName(e.to)
    /\ IsTag(ThisNode, ThisNode[3], ThisNode[5])

VARIABLES
    msg,        \* two objects of the pool
    serving,    \* the one that has the request; the other is sent
    stage,      \* "idle", "asked", "made", "wire"
    asked,      \* what is being served: a request, an errand, or Nobody
    m_ServerAddr, m_ServerPort,     \* of the outbound connection handler
    sent,       \* the message on its way: [to, via, lines]
    peer        \* the object in which the peer read the last one

headerVars == <<msg, serving, stage, asked, m_ServerAddr, m_ServerPort, sent, peer>>

Objects == 1 .. 2
Other(o) == 3 - o

-----------------------------------------------------------------------------
(* Finding in text.  Places count from 0 and npos is -1, as in the code. *)

IndexOf(text, word) == SelectInSeq(text, LAMBDA w : w = word) - 1

substr(text, from, n) == SubSeq(text, from + 1, from + n)
Rest(text, from) == SubSeq(text, from + 1, Len(text))

(* cRoutingTag *)

BuildFullTag(name, ip, port) == name \o <<"@">> \o ip \o <<":">> \o port

TagName(tag) ==
    IF IndexOf(tag, "@") > 0 THEN substr(tag, 0, IndexOf(tag, "@")) ELSE <<"unknown">>

TagPort(tag) ==
    IF IndexOf(tag, ":") > 0 THEN Rest(tag, IndexOf(tag, ":") + 1) ELSE <<"0000">>

\* iplen is an int: without a colon it is negative.
TagIPAddr(tag) ==
    LET at == IndexOf(tag, "@")
        iplen == IndexOf(tag, ":") - at - 1
    IN IF iplen > 0 THEN substr(tag, at + 1, iplen)
       ELSE IF Range(tag) \cap Dotted # {} THEN tag ELSE <<"0.0.0.0">>

SetTag(tag) ==
    IF IndexOf(tag, "@") = -1 /\ IndexOf(tag, ":") = -1 THEN tag
    ELSE BuildFullTag(TagName(tag), TagIPAddr(tag), TagPort(tag))

(* cHeaderExtract: a line is a name and a value around its first colon.  The *)
(* last line of a name counts.                                               *)

NameIn(line) == substr(line, 0, IndexOf(line, ":"))
ValueIn(line) ==
    LET split == IndexOf(line, ":")
        blank == split + 1 < Len(line) /\ line[split + 2] = " "
    IN Rest(line, split + (IF blank THEN 2 ELSE 1))

GetValue(lines, name) ==
    LET own == {i \in DOMAIN lines : IndexOf(lines[i], ":") # -1 /\ NameIn(lines[i]) = <<name>>}
    IN IF own = {} THEN <<>> ELSE ValueIn(lines[Max(own)])

-----------------------------------------------------------------------------
(* cMsg.  A handle is TRUE when it is the socket of the request and FALSE when *)
(* it is -1.  "new" is the number an object has from the id provider.          *)

Fields(keepAlive) ==
    [MsgID |-> <<"new">>, MsgCommand |-> <<>>, MsgTo |-> <<>>, MsgFrom |-> <<>>,
     MsgPriority |-> "priority-mid", MsgReplyActionType |-> "reply-none",
     MsgNotifyActionType |-> "notify-no", MsgConnectionType |-> "NOTSET",
     MsgFormat |-> "NOTSET", MsgProtocolType |-> "UNKNOWN",
     MsgContentType |-> <<>>, MsgContentLength |-> 0, m_pPayload |-> "none",
     TCPSocketHandle |-> FALSE, UDPSocketHandle |-> FALSE, m_bKeepAlive |-> keepAlive]

ResetMsg(old) == Fields(TRUE)

\* The payload begins where the message's own buffer does: for a message that
\* came in this is its header, for an answer the content.
SetContentPayload(m, what, length) ==
    [m EXCEPT !.m_pPayload = what, !.MsgContentLength = length]

\* find: an option is also found in a longer one that begins with it.
Longer == {<<"priority-low", "priority-lowest">>, <<"priority-high", "priority-highest">>}
HasOption(options, word) ==
    \E i \in DOMAIN options : options[i] = word \/ <<word, options[i]>> \in Longer

\* The first of these words that is found among the options, or else the default.
Option(words, options, default) ==
    LET i == SelectInSeq(words, LAMBDA w : HasOption(options, w))
    IN IF i = 0 THEN default ELSE words[i]

PriorityWords_Rising(options) ==
    Option(<<"priority-low", "priority-lowest", "priority-mid", "priority-high",
             "priority-highest">>, options, "priority-lowest")

Priority(options) ==
    Option(<<"priority-lowest", "priority-low", "priority-mid", "priority-highest",
             "priority-high">>, options, "priority-lowest")
ReplyAction(options, ct) ==
    Option(<<"reply-none", "reply-wait", "reply-nowait">>, options,
           IF ct = "IB_UDP" THEN "reply-nowait" ELSE "reply-wait")
NotifyAction(options) == Option(<<"notify-yes", "notify-no">>, options, "notify-no")

atoi(text) == IF text # <<>> /\ text[1] \in Numbers THEN text[1] ELSE "0"
Value(number) == CHOOSE n \in 0 .. 9999 : ToString(n) = number

\* The length of an answer is read as it is written.
ASSUME LengthAssumption ==
    /\ "0" \in Numbers
    /\ \A n \in Bodies : n \in Nat /\ ToString(n) \in Numbers /\ Value(ToString(n)) = n

PriorityWords == {"priority-lowest", "priority-low", "priority-mid", "priority-high",
                  "priority-highest"}
ReplyWords == {"reply-none", "reply-wait", "reply-nowait"}

\* What a client means is what its lines give: at most one word of a kind is among its
\* options, next to any others, and without one the priority is the lowest.
ASSUME WrittenAssumption ==
    \A r \in Requests :
        LET w == r.wrote
            options == GetValue(r.lines, "Options")
            length == GetValue(r.lines, "Content-Length")
        IN /\ SetTag(GetValue(r.lines, "From")) = w.from
           /\ GetValue(r.lines, "MsgID") = w.id /\ (w.id = <<>> \/ w.id = <<w.id[1]>>)
           /\ w.close = (GetValue(r.lines, "Connection") \in {<<"close">>, <<"Close">>})
           /\ w.length \in Nat /\ w.length = IF length = <<>> THEN 0 ELSE Value(atoi(length))
           /\ r.via \in {"TCP", "UDP"} =>
                 /\ \/ Range(options) \cap PriorityWords = {w.priority}
                    \/ Range(options) \cap PriorityWords = {} /\ w.priority = "priority-lowest"
                 /\ \/ Range(options) \cap ReplyWords = {w.reply}
                    \/ Range(options) \cap ReplyWords = {} /\ w.reply \notin ReplyWords

Parse(m, ct, lines) ==
    LET id == GetValue(lines, "MsgID")
        options == GetValue(lines, "Options")
        length == GetValue(lines, "Content-Length")
    IN [m EXCEPT !.MsgCommand = substr(lines[1], 0, IndexOf(lines[1], " ")),
                 !.MsgConnectionType = ct,
                 !.MsgFormat = "REQ",
                 !.m_bKeepAlive = @ /\ GetValue(lines, "Connection") \notin
                                           {<<"close">>, <<"Close">>},
                 !.MsgID = IF id \in {<<>>, <<"0">>} THEN <<"new">> ELSE id,
                 !.MsgTo = SetTag(GetValue(lines, "To")),
                 !.MsgFrom = SetTag(GetValue(lines, "From")),
                 !.MsgPriority = Priority(options),
                 !.MsgReplyActionType = ReplyAction(options, ct),
                 !.MsgNotifyActionType = NotifyAction(options),
                 !.MsgContentType = GetValue(lines, "Content-Type"),
                 !.MsgContentLength = IF length = <<>> THEN 0 ELSE Value(atoi(length)),
                 !.m_pPayload = IF length = <<>> THEN @ ELSE "content"]

\* An object of the pool and the socket a client's message came on.
CreateMessage(o, via) ==
    [ResetMsg(o) EXCEPT !.TCPSocketHandle = via # "UDP",
                        !.MsgConnectionType = IF via = "UDP" THEN "NOTSET" ELSE "IB_TCP",
                        !.MsgProtocolType = IF via = "TCP" THEN "MCP" ELSE via]

\* cConnectionHandlerInbound::ProcessMCP
ProcessMCP(o, r) ==
    Parse(SetContentPayload(CreateMessage(o, "TCP"), "start", 1), "IB_TCP", r.lines)

\* cConnectionHandlerInbound::ProcessHTTP: the options of the header do not count.
ProcessHTTP(o, r) ==
    [Parse(SetContentPayload(CreateMessage(o, r.via), "start", 1), "IB_TCP", r.lines) EXCEPT
        !.MsgID = <<"new">>,
        !.MsgPriority = "priority-high",
        !.MsgNotifyActionType = "notify-no",
        !.MsgReplyActionType = "reply-wait"]

\* cUDPServer: the socket is only kept for a client that waits.
ReceiveUDP(o, r) ==
    LET m == Parse(CreateMessage(o, "UDP"), "IB_UDP", r.lines)
    IN [m EXCEPT !.MsgProtocolType = "MCP",
                 !.UDPSocketHandle = m.MsgReplyActionType = "reply-wait"]

Received(o, r) ==
    CASE r.via = "TCP" -> ProcessMCP(o, r)
      [] r.via = "UDP" -> ReceiveUDP(o, r)
      [] OTHER -> ProcessHTTP(o, r)

OutOf(ct) == IF ct = "IB_UDP" THEN "OB_UDP" ELSE "OB_TCP"

\* cMsgQueue::CreateMessageReply
CreateMessageReply(o, m) ==
    [ResetMsg(o) EXCEPT !.TCPSocketHandle = m.TCPSocketHandle,
                        !.m_bKeepAlive = m.m_bKeepAlive,
                        !.MsgConnectionType = OutOf(m.MsgConnectionType),
                        !.MsgID = m.MsgID,
                        !.MsgFormat = "RES",
                        !.MsgTo = m.MsgFrom,
                        !.MsgPriority = m.MsgPriority,
                        !.MsgReplyActionType = m.MsgReplyActionType,
                        !.MsgNotifyActionType = m.MsgNotifyActionType,
                        !.UDPSocketHandle = m.UDPSocketHandle,
                        !.MsgProtocolType = m.MsgProtocolType]

\* cMsgQueue::PostNotifyMessage
NotifyMessage(o, m) ==
    [ResetMsg(o) EXCEPT !.TCPSocketHandle = m.TCPSocketHandle,
                        !.MsgConnectionType = OutOf(m.MsgConnectionType),
                        !.MsgID = m.MsgID,
                        !.MsgFormat = "NOTIFY",
                        !.MsgTo = m.MsgFrom,
                        !.MsgPriority = "priority-highest + 1000",
                        !.MsgReplyActionType = "reply-nowait",
                        !.MsgProtocolType = "MCP",
                        !.MsgNotifyActionType = "notify-yes"]

\* cMsg::DispatchMsg: who gets a datagram has no connection to answer on.
Dispatched(m) == IF m.MsgConnectionType = "OB_UDP" THEN [m EXCEPT !.MsgFrom = ThisNode] ELSE m

-----------------------------------------------------------------------------
(* cConnectionHandlerOutbound::TransmitMsg *)

Line(name, text) == <<name, ":", " ">> \o text
Connection(m) == Line("Connection", IF m.m_bKeepAlive THEN <<"keep-alive">> ELSE <<"close">>)
Content_Swapped(m) == <<Line("Content-Type", <<ToString(m.MsgContentLength)>>),
                        Line("Content-Length", m.MsgContentType)>>
Content(m) == <<Line("Content-Type", m.MsgContentType),
                Line("Content-Length", <<ToString(m.MsgContentLength)>>)>>

ResponseLines(m) ==
    LET status == <<"MCP/1.0", " ", IF m.MsgFormat = "NOTIFY" THEN "Notify" ELSE "Reply">>
        id == Line("MsgID", m.MsgID)
        to == Line("To", m.MsgTo)
        from == Line("From", m.MsgFrom)
    IN IF m.MsgContentLength = 0
       THEN <<status, id, Connection(m)>> \o (IF m.MsgTo = <<>> THEN <<>> ELSE <<to>>) \o <<from>>
       ELSE <<status, id, to, from>> \o Content(m) \o <<Connection(m)>>

RequestLines(m) ==
    <<m.MsgCommand \o <<" ", "MCP/1.0">>, Line("MsgID", m.MsgID), Line("To", m.MsgTo),
      Line("From", m.MsgFrom)>>
    \o (IF m.MsgContentLength > 0 THEN Content(m) ELSE <<>>) \o <<Connection(m)>>

\* A handler's answer to a browser has a header of its own, or is given one.
WebLines(m) == <<<<"HTTP/1.1", " ", "200">>, Connection(m)>>

\* ReplaceWith takes a length of -1, of a text with neither sign, as all of it.
AddrIn(to) ==
    LET length == IndexOf(to, ":") - IndexOf(to, "@") - 1
    IN substr(to, IndexOf(to, "@") + 1, IF length = -1 THEN Len(to) ELSE length)
PortIn(to) == atoi(Rest(to, IndexOf(to, ":") + 1))

\* Where a message goes: to the socket it has, or to the address in the handler.
Socket == [addr |-> <<"socket">>, port |-> "0"]
Nobody == [via |-> "none"]
Nothing == [to |-> Socket, via |-> "none", lines |-> <<>>]
HasSocket(m) == IF m.MsgConnectionType = "OB_UDP" THEN m.UDPSocketHandle ELSE m.TCPSocketHandle

SetsAddress_Once(m) == m.MsgTo # <<>> /\ m_ServerAddr = <<>>
SetsAddress(m) == m.MsgTo # <<>>

TransmitMCP(m) ==
    /\ m.MsgProtocolType = "MCP"
    /\ IF SetsAddress(m)
       THEN m_ServerAddr' = AddrIn(m.MsgTo) /\ m_ServerPort' = PortIn(m.MsgTo)
       ELSE UNCHANGED <<m_ServerAddr, m_ServerPort>>
    /\ sent' = [to |-> IF HasSocket(m) THEN Socket
                       ELSE [addr |-> m_ServerAddr', port |-> m_ServerPort'],
                via |-> m.MsgConnectionType,
                lines |-> IF m.MsgFormat \in {"RES", "NOTIFY"} THEN ResponseLines(m)
                          ELSE RequestLines(m)]
    /\ stage' = "wire" /\ UNCHANGED asked

\* A browser is answered on its socket, if the handler gave the answer a payload.
TransmitHTTP(m) ==
    /\ m.MsgProtocolType \in {"GET", "POST"}
    /\ IF m.m_pPayload = "none"
       THEN stage' = "idle" /\ asked' = Nobody /\ UNCHANGED sent
       ELSE /\ stage' = "wire" /\ UNCHANGED asked
            /\ sent' = [to |-> Socket, via |-> "HTTP", lines |-> WebLines(m)]
    /\ UNCHANGED <<m_ServerAddr, m_ServerPort>>

TransmitMsg ==
    /\ stage = "made"
    /\ TransmitMCP(msg[Other(serving)]) \/ TransmitHTTP(msg[Other(serving)])
    /\ UNCHANGED <<msg, serving, peer>>

-----------------------------------------------------------------------------
HeaderInit ==
    /\ msg = [o \in Objects |-> Fields(TRUE)]
    /\ serving = 1
    /\ stage = "idle"
    /\ asked = Nobody
    /\ m_ServerAddr = <<>> /\ m_ServerPort = "0"
    /\ sent = Nothing
    /\ peer = Fields(TRUE)

Receive(o, r) ==
    /\ stage = "idle"
    /\ stage' = "asked" /\ asked' = r /\ serving' = o
    /\ msg' = [msg EXCEPT ![o] = Received(@, r)]
    /\ UNCHANGED <<m_ServerAddr, m_ServerPort, sent, peer>>

\* cMsgQueue::ProcessInboundMessage
PostNotifyMessage ==
    /\ stage = "asked" /\ msg[serving].MsgNotifyActionType = "notify-yes"
    /\ stage' = "made"
    /\ msg' = [msg EXCEPT ![serving].MsgNotifyActionType = "notify-no",
                          ![Other(serving)] = Dispatched(NotifyMessage(@, msg[serving]))]
    /\ UNCHANGED <<serving, asked, m_ServerAddr, m_ServerPort, sent, peer>>

\* A handler answers the request it was given: with a payload, or with none.
Answer(length) ==
    /\ stage = "asked" /\ msg[serving].MsgNotifyActionType = "notify-no"
    /\ stage' = "made"
    /\ LET m == CreateMessageReply(msg[Other(serving)], msg[serving])
       IN msg' = [msg EXCEPT ![Other(serving)] =
              IF length = 0 THEN Dispatched(m)
              ELSE Dispatched(SetContentPayload([m EXCEPT !.MsgContentType = <<"text/html">>],
                                                "content", length))]
    /\ UNCHANGED <<serving, asked, m_ServerAddr, m_ServerPort, sent, peer>>

\* A handler sends a message of its own.
Ask(o, e) ==
    /\ stage = "idle"
    /\ stage' = "made" /\ asked' = e /\ serving' = Other(o)
    /\ msg' = [msg EXCEPT ![o] = Dispatched([ResetMsg(@) EXCEPT
           !.MsgCommand = <<"ECHO">>, !.MsgTo = e.to, !.MsgProtocolType = "MCP",
           !.MsgConnectionType = e.via])]
    /\ UNCHANGED <<m_ServerAddr, m_ServerPort, sent, peer>>

\* The peer reads what was sent.
Arrive ==
    /\ stage = "wire"
    /\ stage' = IF msg[Other(serving)].MsgFormat = "NOTIFY" THEN "asked" ELSE "idle"
    /\ peer' = IF sent.via = "HTTP" THEN peer
               ELSE Received(peer, [via |-> IF sent.via = "OB_UDP" THEN "UDP" ELSE "TCP",
                                    lines |-> sent.lines])
    /\ sent' = Nothing
    /\ asked' = IF stage' = "idle" THEN Nobody ELSE asked
    /\ UNCHANGED <<msg, serving, m_ServerAddr, m_ServerPort>>

HeaderNext ==
    \/ \E o \in Objects, r \in Requests : Receive(o, r)
    \/ \E o \in Objects, e \in Errands : Ask(o, e)
    \/ \E length \in Bodies : Answer(length)
    \/ PostNotifyMessage
    \/ TransmitMsg
    \/ Arrive

HeaderSpec == HeaderInit /\ [][HeaderNext]_headerVars

-----------------------------------------------------------------------------
HeaderTypeOK ==
    /\ serving \in Objects
    /\ stage \in {"idle", "asked", "made", "wire"}
    /\ asked \in Requests \cup Errands \cup {Nobody}
    /\ m_ServerPort \in Numbers
    /\ \A m \in {msg[1], msg[2], peer} :
          /\ m.MsgContentLength \in Nat
          /\ m.MsgContentLength > 0 => m.m_pPayload = "content"
          /\ m.m_bKeepAlive \in BOOLEAN /\ m.TCPSocketHandle \in BOOLEAN

\* The message m says what the client of r wrote.
SaysWritten(m, r) ==
    LET w == r.wrote
        web == r.via \in {"GET", "POST"}
    IN /\ m.MsgFrom = w.from
       /\ m.MsgID = IF web \/ w.id \in {<<>>, <<"0">>} THEN <<"new">> ELSE w.id
       /\ m.m_bKeepAlive = ~w.close
       /\ m.MsgContentLength = w.length
       /\ m.MsgPriority = IF web THEN "priority-high" ELSE w.priority
       /\ m.MsgReplyActionType =
              CASE web -> "reply-wait"
                [] ~web /\ w.reply \in ReplyWords -> w.reply
                [] OTHER -> IF r.via = "UDP" THEN "reply-nowait" ELSE "reply-wait"

\* A request that has been read says what its client wrote, and nothing of what the
\* object said before: cMsg::Parse leaves some fields as ResetMsg left them, and
\* finds an option inside a longer one (msg.cpp:140).
AsWritten ==
    (stage = "asked" /\ asked \in Requests) => SaysWritten(msg[serving], asked)

\* What is sent goes to the socket of the client it is for or to the address this
\* client gave, though the handler still has the address of the message before
\* (connectionhandleroutbound.cpp:281).  Nothing
\* can be said of what goes to a client that gave none and does not wait on its
\* socket, or of the notification that its request has come.
SentWhereMeant ==
    stage = "wire" =>
        LET w == IF asked \in Errands THEN asked ELSE asked.wrote
        IN \/ asked \in Requests /\ sent.to = Socket
           \/ w.ip # "" /\ sent.to = [addr |-> <<w.ip>>, port |-> w.port]
           \/ w.ip = "" /\ asked \in Errands
           \/ /\ w.ip = "" /\ asked.via = "UDP"
              /\ w.reply = "reply-wait" => msg[Other(serving)].MsgFormat = "NOTIFY"

\* The peer reads in an answer the number of its request, its own tag as this node
\* understood it, the length of the payload and whether the connection is kept:
\* the lines of connectionhandleroutbound.cpp:167-211 say to msg.cpp:91-190 what
\* CreateMessageReply copied.
AnswerMatchesRequest ==
    [][(stage = "wire" /\ sent.via \in {"OB_TCP", "OB_UDP"} /\ asked \in Requests) =>
        LET m == msg[Other(serving)]
        IN /\ peer'.MsgID = msg[serving].MsgID
           /\ peer'.MsgTo = asked.wrote.from
           /\ peer'.MsgContentLength = m.MsgContentLength
           /\ peer'.MsgContentType = m.MsgContentType
           /\ stage' = "idle" => peer'.m_bKeepAlive = ~asked.wrote.close]_headerVars
=============================================================================
