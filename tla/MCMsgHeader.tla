------------------------------ MODULE MCMsgHeader ------------------------------
(* Clients that give their tag in every form, with each option, by each way in. *)
EXTENDS MsgHeader

Tag(written, read, ip, port) == [written |-> written, read |-> read, ip |-> ip, port |-> port]

\* A tag as the client writes it, as it is to be read, and the address in it.
Tags ==
    {Tag(<<>>, <<>>, "", "0"),
     Tag(<<"pete">>, <<"pete">>, "", "0"),
     Tag(<<"pete", "@", "10.1.1.1", ":", "3400">>,
         <<"pete", "@", "10.1.1.1", ":", "3400">>, "10.1.1.1", "3400"),
     Tag(<<"10.2.2.2", ":", "3401">>,
         <<"unknown", "@", "10.2.2.2", ":", "3401">>, "10.2.2.2", "3401")}

Optional(name, text) == IF text = <<>> THEN <<>> ELSE <<Line(name, text)>>

Request(via, tag, options, priority, reply, id, close, length) ==
    [via |-> via,
     lines |-> <<<<IF via \in {"GET", "POST"} THEN via ELSE "ECHO", " ", "MCP/1.0">>>>
               \o Optional("MsgID", id) \o Optional("From", tag.written)
               \o Optional("Options", options)
               \o (IF length = 0 THEN <<>>
                   ELSE <<<<"Content-Length", ":", ToString(length)>>>>)
               \o (IF close THEN <<Line("Connection", <<"close">>)>> ELSE <<>>),
     wrote |-> [from |-> tag.read, ip |-> tag.ip, port |-> tag.port, id |-> id,
                close |-> close, length |-> length, priority |-> priority,
                reply |-> reply]]

MCRequests ==
    {Request(via, tag, <<>>, "priority-lowest", "", <<"7">>, FALSE, 0) :
        via \in {"TCP", "UDP"}, tag \in Tags}
    \cup {Request(via, tag, <<"priority-high", "reply-wait", "notify-yes">>,
                  "priority-high", "reply-wait", <<"7">>, TRUE, 2) :
        via \in {"TCP", "UDP"}, tag \in {t \in Tags : t.ip # ""}}
    \cup {Request("TCP", Tag(<<>>, <<>>, "", "0"), <<p, "notify-yes">>, p, "", <<>>, FALSE, 0) :
        p \in PriorityWords}
    \cup {Request("UDP", tag, <<"reply-wait">>, "priority-lowest", "reply-wait", <<"0">>, FALSE, 0) :
        tag \in {t \in Tags : t.ip = ""}}
    \cup {Request(via, Tag(<<>>, <<>>, "", "0"), <<"notify-yes">>, "", "", <<>>, TRUE, 2) :
        via \in {"GET", "POST"}}

MCErrands ==
    {[via |-> via, to |-> tag.written, ip |-> tag.ip, port |-> tag.port] :
        via \in {"OB_TCP", "OB_UDP"}, tag \in {t \in Tags : t.written = t.read}}

MCDotted == {"10.1.1.1", "10.2.2.2", "10.3.3.3", "0.0.0.0"}
MCNumbers == {"0", "0000", "2", "3400", "3401", "3402"}

\* The tag of this node, which is none of its clients'.
MCNode == <<"node", "@", "10.3.3.3", ":", "3402">>
=============================================================================
