------------------------------- MODULE MCRouter --------------------------------
(* Two sets whose rules stand apart, of which the first needs two parts of a    *)
(* message, a set that begins with a "match", and one that has a later "match". *)
EXTENDS Router

Name(base) == [base |-> base, ext |-> ""]
RouteRule(name, to, location, op, value) ==
    [name |-> name, to |-> to, location |-> location, op |-> op, value |-> value]

MCRules == <<
    RouteRule("a", Name("MCWS"), "status", "contains", "get"),
    RouteRule("m", Name("other"), "status", "match", "get"),
    RouteRule("a", Name("other"), "payload", "contains", "x"),
    RouteRule("b", [base |-> "MCWS", ext |-> "b"], "header", "contains", "get"),
    RouteRule("b", [base |-> "MCWS", ext |-> "b"], "status", "match", "x"),
    RouteRule("a", Name("other"), "header", "contains", "x") >>

MCRegistrations == <<Name("MCWS")>>

PartValues == {"get", "x"}
MCMessages ==
    {m \in [command : {Name("MCWS"), Name("none")}, start : {"get", "MCP/"},
            status : SUBSET PartValues, header : SUBSET PartValues, payload : SUBSET PartValues] :
        /\ m.start \in PartValues => m.start \in m.status
        /\ m.status \subseteq m.header}
=============================================================================
