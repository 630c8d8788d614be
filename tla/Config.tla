-------------------------------- MODULE Config ---------------------------------
(***************************************************************************)
(* Reading the configuration file: cCore::LoadConfig and                   *)
(* cCore::DoPostProcesses (core.cpp) over the element list that            *)
(* cXMLLiteParser makes of the document (xmlliteparser.cpp).               *)
(*                                                                         *)
(* The parser does not keep the tree: every tag, the closing ones          *)
(* included, becomes an element of one flat list, and the readers move a   *)
(* position along it, from a tag they look for to one they stop at.  What  *)
(* they read is compared with the tree that was written.                   *)
(*                                                                         *)
(* A step is one FindTag or FindNextTag and what is done with its result.  *)
(* The two functions parse the same file; here it does not change between  *)
(* them.                                                                   *)
(***************************************************************************)
EXTENDS Integers, SequencesExt

CONSTANTS
    Files             \* trees [tag, value, attrs, kids, short]: attrs is a
                      \* function, kids a sequence, short says it is written <x/>

VARIABLES
    file,              \* the document that was written
    elements,          \* the parser's list: [tag, value, attrs]
    m_pCurrent,        \* its position
    pc,                \* where the main thread is
    settings,         \* the values read by name
    m_TCPServers, m_UDPServers,   \* the ports
    m_VirtualDirectoryMap,  \* the virtual directories
    ipRules,          \* the rules given to m_IPAccess: [sign, addr]
    route,            \* the position of the <route> being read
    Location, OperationType,      \* of the last <if>
    rules             \* the rules given to the router

list == <<file, elements>>
loaded == <<settings, m_TCPServers, m_UDPServers, m_VirtualDirectoryMap>>
routing == <<route, Location, OperationType, rules>>
configVars == <<list, m_pCurrent, pc, loaded, ipRules, routing>>

-----------------------------------------------------------------------------
(* cXMLLiteParser *)

Element(tag, value, attrs) == [tag |-> tag, value |-> value, attrs |-> attrs]
NoAttributes == [a \in {} |-> ""]

\* The elements ParseXML makes: a short tag is followed by one named "/>".
RECURSIVE ParseXML(_)
ParseXML(n) ==
    <<Element(n.tag, n.value, n.attrs)>>
    \o FlattenSeq([i \in DOMAIN n.kids |-> ParseXML(n.kids[i])])
    \o <<Element(IF n.short THEN "/>" ELSE "/" \o n.tag, "", NoAttributes)>>

\* The value of an element that has none is a null pointer.
Null == ""
GetElementValue(i) == elements[i].value

GetAttributeValue(i, name) ==
    IF name \in DOMAIN elements[i].attrs THEN elements[i].attrs[name] ELSE ""

\* From the head of the list; the position stays when there is no such tag.
FindTag(tag) ==
    LET hits == {i \in DOMAIN elements : elements[i].tag = tag}
    IN IF hits = {} THEN [at |-> m_pCurrent, found |-> FALSE]
       ELSE [at |-> Min(hits), found |-> TRUE]

FindNextTag_NoStop(tag, pNot) ==
    LET hits == {i \in DOMAIN elements : i > m_pCurrent /\ elements[i].tag = tag}
    IN IF hits = {} THEN [at |-> m_pCurrent, found |-> FALSE]
       ELSE [at |-> Min(hits), found |-> TRUE]

\* From behind the position on.  At pNot it stops and stays there; at the end of
\* the list it goes back to where it was.
FindNextTag(tag, pNot) ==
    LET hits == {i \in DOMAIN elements :
                    i > m_pCurrent /\ elements[i].tag \in {tag, pNot}}
    IN IF hits = {} THEN [at |-> m_pCurrent, found |-> FALSE]
       ELSE [at |-> Min(hits), found |-> elements[Min(hits)].tag # pNot]

NoStop == ""

MoveTo(search, next) == m_pCurrent' = search.at /\ pc' = next

\* LoadConfig has the parser's list of a file.
LoadFile(f) ==
    /\ file = f
    /\ elements = ParseXML(f)
    /\ m_pCurrent = 1
    /\ pc = "addresses"
    /\ settings = [s \in {} |-> ""]
    /\ m_TCPServers = {} /\ m_UDPServers = {}
    /\ m_VirtualDirectoryMap = [d \in {} |-> ""]
    /\ ipRules = <<>>
    /\ route = 0
    /\ Location = "notset" /\ OperationType = "notset"
    /\ rules = <<>>

ConfigInit == \E f \in Files : LoadFile(f)

-----------------------------------------------------------------------------
(* cCore::LoadConfig *)

\* The setting's value, or its default.
Setting(tag, default) ==
    IF FindTag(tag).found THEN GetElementValue(FindTag(tag).at) ELSE default

Detected == "detected"
ServerAddresses ==
    [server_listen_addr |-> Setting("server_listen_addr", "0.0.0.0"),
     server_primary_addr |-> Setting("server_primary_addr", Detected),
     server_secondary_addr |-> Setting("server_secondary_addr", Detected),
     server_max_cache_size |-> Setting("server_max_cache_size", "10000")]
Limits == [connectiontimeout |-> Setting("connectiontimeout", "30"),
           max_webserver_threads |-> Setting("max_webserver_threads", "16")]

\* A std::string made from a null pointer.
ReadsNull(values) == \E s \in DOMAIN values : values[s] = Null

\* The process ends.
End ==
    /\ pc' = "ended"
    /\ UNCHANGED <<list, m_pCurrent, loaded, ipRules, routing>>

ReadAddresses ==
    /\ pc = "addresses" /\ ~ReadsNull(ServerAddresses)
    /\ settings' = ServerAddresses
    /\ MoveTo(FindTag("tcp_servers"), IF FindTag("tcp_servers").found THEN "hosts" ELSE "udp")
    /\ m_TCPServers' = IF FindTag("tcp_servers").found THEN {} ELSE {"3400"}
    /\ UNCHANGED <<list, m_UDPServers, m_VirtualDirectoryMap, ipRules, routing>>

NullAddress == pc = "addresses" /\ ReadsNull(ServerAddresses) /\ End

\* cVirtualDirectoryMap::MapVirtualDirectory: the first directory of a name stays.
Mapped(name, directory) ==
    IF directory = "" THEN m_VirtualDirectoryMap ELSE m_VirtualDirectoryMap @@ (name :> directory)

ReadHost ==
    LET next == FindNextTag("host", "/web") IN
    /\ pc = "hosts" /\ next.found
    /\ m_VirtualDirectoryMap' = Mapped(<<"host", GetAttributeValue(next.at, "addr")>>,
                       GetAttributeValue(next.at, "directory"))
    /\ MoveTo(next, "hosts")
    /\ UNCHANGED <<list, settings, m_TCPServers, m_UDPServers, ipRules, routing>>

HostsRead ==
    /\ pc = "hosts" /\ ~FindNextTag("host", "/web").found
    /\ MoveTo(FindTag("tcp_servers"), "ports")
    /\ UNCHANGED <<list, loaded, ipRules, routing>>

ReadPort ==
    LET next == FindNextTag("port", "/web") IN
    /\ pc = "ports" /\ next.found
    /\ m_TCPServers' = m_TCPServers \cup {GetAttributeValue(next.at, "addr")}
    /\ m_VirtualDirectoryMap' = Mapped(<<"port", GetAttributeValue(next.at, "addr")>>,
                       GetAttributeValue(next.at, "directory"))
    /\ MoveTo(next, "ports")
    /\ UNCHANGED <<list, settings, m_UDPServers, ipRules, routing>>

PortsRead ==
    /\ pc = "ports" /\ ~FindNextTag("port", "/web").found
    /\ MoveTo(FindNextTag("port", "/web"), "udp")
    /\ UNCHANGED <<list, loaded, ipRules, routing>>

FindUDPServers ==
    /\ pc = "udp"
    /\ MoveTo(FindTag("udp_servers"), IF FindTag("udp_servers").found THEN "udp_ports" ELSE "limits")
    /\ m_UDPServers' = IF FindTag("udp_servers").found THEN {} ELSE {"3401"}
    /\ UNCHANGED <<list, settings, m_TCPServers, m_VirtualDirectoryMap, ipRules, routing>>

ReadUDPPort ==
    LET next == FindNextTag("port", "/udp_servers") IN
    /\ pc = "udp_ports" /\ next.found
    /\ m_UDPServers' = m_UDPServers \cup {GetAttributeValue(next.at, "addr")}
    /\ MoveTo(next, "udp_ports")
    /\ UNCHANGED <<list, settings, m_TCPServers, m_VirtualDirectoryMap, ipRules, routing>>

UDPPortsRead ==
    /\ pc = "udp_ports" /\ ~FindNextTag("port", "/udp_servers").found
    /\ MoveTo(FindNextTag("port", "/udp_servers"), "limits")
    /\ UNCHANGED <<list, loaded, ipRules, routing>>

\* The primary address is the detected one in the end, whatever was written.
\* DoPostProcesses then parses again, and starts at the head.
ReadLimits ==
    /\ pc = "limits" /\ ~ReadsNull(Limits)
    /\ settings' = Limits @@ [settings EXCEPT !.server_primary_addr = Detected]
    /\ m_pCurrent' = 1 /\ pc' = "connections"
    /\ UNCHANGED <<list, m_TCPServers, m_UDPServers, m_VirtualDirectoryMap, ipRules, routing>>

NullLimit == pc = "limits" /\ ReadsNull(Limits) /\ End

-----------------------------------------------------------------------------
(* cCore::ProcessIPRules *)

Subnet == [sign |-> "+", addr |-> "subnet"]

FindConnections ==
    LET next == FindTag("connections") IN
    /\ pc = "connections"
    /\ IF next.found THEN MoveTo(next, "find_allow") ELSE MoveTo(next, "handlers")
    /\ ipRules' = IF next.found THEN <<>> ELSE <<Subnet>>
    /\ UNCHANGED <<list, loaded, routing>>

FindAllow ==
    LET next == FindNextTag("allow", NoStop) IN
    /\ pc = "find_allow"
    /\ MoveTo(next, IF next.found THEN "allow" ELSE "find_block")
    /\ UNCHANGED <<list, loaded, ipRules, routing>>

FindBlock ==
    LET next == FindNextTag("block", NoStop) IN
    /\ pc = "find_block"
    /\ MoveTo(next, IF next.found THEN "block" ELSE "handlers")
    /\ UNCHANGED <<list, loaded, ipRules, routing>>

\* The addresses in one of the two lists, with its sign.
ReadAddr(in, sign, stop, after) ==
    LET next == FindNextTag("addr", stop) IN
    /\ pc = in
    /\ next.found => GetElementValue(next.at) # Null
    /\ MoveTo(next, IF next.found THEN in ELSE after)
    /\ ipRules' = IF next.found
                     THEN Append(ipRules, [sign |-> sign, addr |-> GetElementValue(next.at)])
                     ELSE ipRules
    /\ UNCHANGED <<list, loaded, routing>>

NullAddr(in, stop) ==
    LET next == FindNextTag("addr", stop) IN
    pc = in /\ next.found /\ GetElementValue(next.at) = Null /\ End

AllowRules == ReadAddr("allow", "+", "/allow", "find_block")
BlockRules == ReadAddr("block", "-", "/block", "handlers")
NullRule == NullAddr("allow", "/allow") \/ NullAddr("block", "/block")

-----------------------------------------------------------------------------
(* cCore::ProcessHandlers *)

Routed(name, to, location, op, value) ==
    [name |-> name, to |-> to, location |-> location, op |-> op, value |-> value]

DefaultRules ==
    << Routed("MC", "MC", "status", "contains", "MC "),
       Routed("HTTP_GET", "MCWS", "status", "contains", "GET "),
       Routed("HTTP_POST", "MCWS", "status", "contains", "POST ") >>

FindHandlers ==
    LET next == FindTag("handlers") IN
    /\ pc = "handlers"
    /\ MoveTo(next, IF next.found THEN "route" ELSE "done")
    /\ rules' = IF next.found THEN <<>> ELSE DefaultRules
    /\ UNCHANGED <<list, loaded, ipRules, route, Location, OperationType>>

Lacks(i, names) == \E a \in names : GetAttributeValue(i, a) = ""

\* Where the search for a route's next <if> stops.
EndOfRoute == "/route"

ReadRoute ==
    LET next == FindNextTag("route", "/handlers") IN
    /\ pc = "route"
    /\ next.found => ~Lacks(next.at, {"name", "to"})
    /\ MoveTo(next, IF next.found THEN "if" ELSE "done")
    /\ route' = IF next.found THEN next.at ELSE route
    /\ UNCHANGED <<list, loaded, ipRules, Location, OperationType, rules>>

\* A location or an operation that is not known leaves that of the <if> before.
LocationOf(i) ==
    IF GetAttributeValue(i, "location") \in {"status", "header", "payload"}
    THEN GetAttributeValue(i, "location") ELSE Location

OperationOf(i) ==
    IF GetAttributeValue(i, "op") = "match" /\ GetAttributeValue(i, "variance") # "" THEN "like"
    ELSE IF GetAttributeValue(i, "op") \in {"match", "contains"} THEN GetAttributeValue(i, "op")
    ELSE OperationType

ReadIf ==
    LET next == FindNextTag("if", EndOfRoute) IN
    /\ pc = "if" /\ next.found /\ ~Lacks(next.at, {"op", "location"})
    /\ Location' = LocationOf(next.at)
    /\ OperationType' = OperationOf(next.at)
    /\ rules' = Append(rules, Routed(GetAttributeValue(route, "name"), GetAttributeValue(route, "to"),
                                     Location', OperationType', GetAttributeValue(next.at, "value")))
    /\ MoveTo(next, "if")
    /\ UNCHANGED <<list, loaded, ipRules, route>>

IfsRead ==
    LET next == FindNextTag("if", EndOfRoute) IN
    /\ pc = "if" /\ ~next.found
    /\ MoveTo(next, "route")
    /\ UNCHANGED <<list, loaded, ipRules, routing>>

\* THROW: the exception passes through Init, and ends the process.
MissingField ==
    /\ \/ LET next == FindNextTag("route", "/handlers")
          IN pc = "route" /\ next.found /\ Lacks(next.at, {"name", "to"})
       \/ LET next == FindNextTag("if", EndOfRoute)
          IN pc = "if" /\ next.found /\ Lacks(next.at, {"op", "location"})
    /\ End

Stopped == pc \in {"done", "ended"} /\ UNCHANGED configVars

ConfigNext ==
    \/ ReadAddresses \/ NullAddress
    \/ ReadHost \/ HostsRead \/ ReadPort \/ PortsRead
    \/ FindUDPServers \/ ReadUDPPort \/ UDPPortsRead
    \/ ReadLimits \/ NullLimit
    \/ FindConnections \/ FindAllow \/ FindBlock \/ AllowRules \/ BlockRules \/ NullRule
    \/ FindHandlers \/ ReadRoute \/ ReadIf \/ IfsRead \/ MissingField
    \/ Stopped

ConfigSpec == ConfigInit /\ [][ConfigNext]_configVars /\ WF_configVars(ConfigNext)

-----------------------------------------------------------------------------
(* What was written: the same things, read off the tree. *)

Kids(n, tag) == SelectSeq(n.kids, LAMBDA k : k.tag = tag)
IsWritten(tag) == Kids(file, tag) # <<>>
Section(tag) == Kids(file, tag)[1]
Attr(n, a) == IF a \in DOMAIN n.attrs THEN n.attrs[a] ELSE ""
PortsIn(n) == {Attr(Kids(n, "port")[i], "addr") : i \in DOMAIN Kids(n, "port")}

TCPWritten == IF IsWritten("tcp_servers") THEN PortsIn(Kids(Section("tcp_servers"), "web")[1]) ELSE {"3400"}
UDPWritten == IF IsWritten("udp_servers") THEN PortsIn(Section("udp_servers")) ELSE {"3401"}

AddrsIn(n, tag, sign) ==
    FlattenSeq([i \in DOMAIN Kids(n, tag) |->
        [j \in DOMAIN Kids(n, tag)[i].kids |->
            [sign |-> sign, addr |-> Kids(n, tag)[i].kids[j].value]]])

RulesWritten ==
    IF IsWritten("connections")
    THEN AddrsIn(Section("connections"), "allow", "+") \o AddrsIn(Section("connections"), "block", "-")
    ELSE <<Subnet>>

RuleWritten(r, f) ==
    Routed(Attr(r, "name"), Attr(r, "to"), Attr(f, "location"),
           IF Attr(f, "variance") # "" /\ Attr(f, "op") = "match" THEN "like" ELSE Attr(f, "op"),
           Attr(f, "value"))
RoutesWritten ==
    IF IsWritten("handlers")
    THEN LET routes == Kids(Section("handlers"), "route")
         IN FlattenSeq([i \in DOMAIN routes |->
               [j \in DOMAIN routes[i].kids |-> RuleWritten(routes[i], routes[i].kids[j])]])
    ELSE DefaultRules

-----------------------------------------------------------------------------
ConfigTypeOK ==
    /\ m_pCurrent \in DOMAIN elements
    /\ pc \in {"addresses", "hosts", "ports", "udp", "udp_ports", "limits", "connections",
               "find_allow", "allow", "find_block", "block", "handlers", "route", "if",
               "done", "ended"}
    /\ pc = "if" => elements[route].tag = "route"
    /\ \A i \in DOMAIN rules : rules[i].location # "notset" /\ rules[i].op # "notset"

\* The servers listen on the ports of their own section and on no others, in
\* whatever order the sections stand and whichever are missing, although the
\* list has no nesting and both kinds of port are <port> (core.cpp:391, 417).
PortsAsWritten ==
    pc = "done" => m_TCPServers = TCPWritten /\ m_UDPServers = UDPWritten

\* A host's or port's directory is the first that was written for it, and no
\* route's or other section's attribute is taken for one (core.cpp:386).
DirectoriesAsWritten ==
    pc = "done" =>
        LET web(tag) == IF IsWritten("tcp_servers")
                        THEN Kids(Kids(Section("tcp_servers"), "web")[1], tag) ELSE <<>>
            dirs(tag, a) == SelectSeq(web(tag),
                                LAMBDA k : Attr(k, "addr") = a /\ Attr(k, "directory") # "")
        IN m_VirtualDirectoryMap = [n \in {p \in {"host", "port"} \X {"a", "1", "2", "3"} : dirs(p[1], p[2]) # <<>>}
                      |-> Attr(dirs(n[1], n[2])[1], "directory")]

\* The rules for clients are the addresses of <allow> and <block>, each with its
\* sign (core.cpp:520, 532).
RulesAsWritten == pc = "done" => ipRules = RulesWritten

\* Every <if> becomes a rule of the <route> around it and of no other, in the
\* order written (core.cpp:594).
RoutesAsWritten == pc = "done" => rules = RoutesWritten

\* Each reader takes what its own section says and nothing of another's, though
\* they all move one position along one list (core.cpp:391).
ReadAsWritten == PortsAsWritten /\ DirectoriesAsWritten /\ RulesAsWritten /\ RoutesAsWritten

=============================================================================
