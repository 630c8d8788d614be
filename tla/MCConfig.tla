------------------------------- MODULE MCConfig --------------------------------
(* Documents whose sections stand in every order, each missing or one of a few. *)
EXTENDS Config

E == NoAttributes
TagOf(tag, attrs, kids) ==
    [tag |-> tag, value |-> "", attrs |-> attrs, kids |-> kids, short |-> FALSE]
ShortTag(tag, attrs) == [TagOf(tag, attrs, <<>>) EXCEPT !.short = TRUE]
ValueTag(tag, value) == [TagOf(tag, E, <<>>) EXCEPT !.value = value]

Dir(tag, addr, dir) == ShortTag(tag, [addr |-> addr, directory |-> dir])
Port(addr) == ShortTag("port", [addr |-> addr])
TCP == {TagOf("tcp_servers", E, <<TagOf("web", E, kids)>>) : kids \in
          {<<>>, <<Port("1")>>,
           <<Dir("host", "a", "d1"), Dir("port", "1", "d2"), Port("2"), Dir("port", "2", "d3")>>,
           <<Dir("port", "1", "d2"), Dir("port", "1", "d3")>>}}
UDP == {TagOf("udp_servers", E, <<>>), TagOf("udp_servers", E, <<Port("1"), Port("3")>>)}

AllowTag == TagOf("allow", E, <<ValueTag("addr", "x"), ValueTag("addr", "y")>>)
BlockTag == TagOf("block", E, <<ValueTag("addr", "y"), ValueTag("addr", "z")>>)
Connections == {TagOf("connections", E, kids) : kids \in
    {<<>>, <<AllowTag>>, <<BlockTag>>, <<AllowTag, BlockTag>>,
     <<TagOf("allow", E, <<ValueTag("addr", "")>>)>>, <<TagOf("block", E, <<ValueTag("addr", "")>>)>>}}

If(attrs) == ShortTag("if", attrs)
Status == If([op |-> "contains", location |-> "status", value |-> "GET "])
Like == If([op |-> "match", location |-> "header", variance |-> "1", value |-> ""])
RouteTo(name, ifs) == TagOf("route", [name |-> name, to |-> "MCWS"], ifs)
HandlerSections == {TagOf("handlers", E, kids) : kids \in
    {<<>>, <<RouteTo("r", <<Status, Like>>), RouteTo("s", <<>>), RouteTo("t", <<Status>>)>>,
     <<TagOf("route", [name |-> "r"], <<Status>>)>>,
     <<RouteTo("r", <<If([op |-> "contains"]), Status>>)>>}}
\* The sections of a document, in every order of those that are there.
Trees(sections) ==
    {TagOf("msgcourier", E, kids) : kids \in UNION {
        {[i \in 1 .. n |-> choice[i]] : choice \in
            {c \in [1 .. n -> UNION {sections[k] : k \in DOMAIN sections}] :
                \A i, j \in 1 .. n : i # j => c[i].tag # c[j].tag}}
        : n \in 0 .. Len(sections)}}

MCFiles ==
    Trees(<<TCP, UDP, Connections, HandlerSections>>)
    \cup {TagOf("msgcourier", E, <<ValueTag("server_listen_addr", "")>>),
          TagOf("msgcourier", E, <<ValueTag("connectiontimeout", "")>>),
          TagOf("msgcourier", E, <<ValueTag("connectiontimeout", "5"), ValueTag("server_primary_addr", "a")>>)}
=============================================================================
