-------------------------------- MODULE Router ---------------------------------
(***************************************************************************)
(* Routing a message to a handler (msgrouterrulesengine.cpp,               *)
(* msgrouterruleset.cpp, commandhandlerfactory.cpp and                     *)
(* cMsgQueue::ProcessInboundMessage).  The main thread registers the web   *)
(* server and then adds the rules of the configuration one by one; the     *)
(* message queue's thread searches them for every message it takes, and    *)
(* neither holds a lock.  A step of the search is one comparison of an     *)
(* iterator with the end of its vector, or one test of a message.          *)
(*                                                                         *)
(* When a vector has moved to a larger block since an iterator into it was *)
(* taken, or a set's first rule is read before it has one, C++ says        *)
(* nothing of what follows: the process is lost, and the model stops.      *)
(***************************************************************************)
EXTENDS Integers, Sequences, FiniteSets

CONSTANTS
    RouteRules,     \* the rules of <handlers>: a sequence of
                    \* [name, to, location, op, value]
    Registrations,  \* the names of the handlers that Init registers, in order:
                    \* no two with the same base, which would end the process
    Messages        \* [command, start, status, header, payload]: the last three
                    \* are the sets of values in these parts (the status line is
                    \* part of the header), start is the one at index 0

\* A message begins with something.
ASSUME RouterAssumption ==
    /\ RouteRules \in Seq([name : STRING, to : [base : STRING, ext : STRING],
                     location : STRING, op : STRING, value : STRING])
    /\ Registrations \in Seq([base : STRING, ext : STRING])
    /\ \A m \in Messages : m.start # ""

VARIABLES
    m_CommandMap,   \* the names of the registered handlers
    m_RuleSets,     \* the rule sets: [name, to, rules]
    left,           \* the rules and registrations Init still has to make
    madeSet,        \* AddRule has made the set, but not added the rule
    pMsg,           \* the message being routed, or NoMessage
    at,             \* the search: "idle", "set", "test", "next", "lookup", "lost"
    set, rule,      \* m_RuleSetsIterator and m_RuleSetIterator
    setBlock, ruleBlock,   \* the sizes of the blocks they point into
    found           \* Match, or NoMatch

engine == <<m_CommandMap, m_RuleSets, left, madeSet>>
searchVars == <<pMsg, at, set, rule, setBlock, ruleBlock, found>>
routerVars == <<engine, searchVars>>

NoMatch == [base |-> "", ext |-> ""]
NoMessage == [command |-> NoMatch, start |-> "", status |-> {}, header |-> {}, payload |-> {}]

RouterInit ==
    /\ m_CommandMap = {}
    /\ m_RuleSets = <<>>
    /\ left = [names |-> Registrations, rules |-> RouteRules]
    /\ madeSet = FALSE
    /\ pMsg = NoMessage
    /\ at = "idle"
    /\ set = 0 /\ rule = 0 /\ setBlock = 0 /\ ruleBlock = 0
    /\ found = NoMatch

\* The block of a vector of n elements, which push_back doubles when it is full.
BlockSize(n) == IF n = 0 THEN 0
            ELSE CHOOSE b \in {2 ^ k : k \in 0 .. n} :
                    b >= n /\ (b = 1 \/ b \div 2 < n)

-----------------------------------------------------------------------------
(* cCommandHandlerFactory: a handler is found by its name up to the first dot. *)

Found(name) == [base |-> name.base, ext |-> ""] \in m_CommandMap

RegisterCommandHandler ==
    /\ left.names # <<>> /\ ~Found(Head(left.names))
    /\ m_CommandMap' = m_CommandMap \cup {Head(left.names)}
    /\ left' = [left EXCEPT !.names = Tail(@)]
    /\ UNCHANGED <<m_RuleSets, madeSet, searchVars>>

(* cMsgRouterRulesEngine::AddRule: the first rule of a name makes its set, *)
(* and its `to' is the set's.                                              *)

\* Where the set of this name is in m_RuleSets, or would be.
SetOf(name) ==
    IF \E i \in DOMAIN m_RuleSets : m_RuleSets[i].name = name
    THEN CHOOSE i \in DOMAIN m_RuleSets : m_RuleSets[i].name = name
    ELSE Len(m_RuleSets) + 1

MakeSet ==
    /\ left.names = <<>> /\ left.rules # <<>>
    /\ SetOf(Head(left.rules).name) \notin DOMAIN m_RuleSets
    /\ m_RuleSets' = Append(m_RuleSets, [name |-> Head(left.rules).name,
                                         to |-> Head(left.rules).to, rules |-> <<>>])
    /\ madeSet' = TRUE
    /\ UNCHANGED <<m_CommandMap, left, searchVars>>

AddRule ==
    /\ left.names = <<>> /\ left.rules # <<>>
    /\ SetOf(Head(left.rules).name) \in DOMAIN m_RuleSets
    /\ m_RuleSets' = [m_RuleSets EXCEPT ![SetOf(Head(left.rules).name)].rules =
                         Append(@, Head(left.rules))]
    /\ left' = [left EXCEPT !.rules = Tail(@)]
    /\ madeSet' = FALSE
    /\ UNCHANGED <<m_CommandMap, searchVars>>

-----------------------------------------------------------------------------
(* cMsgRouterRulesEngine::Search *)

\* Find looks through the whole buffer for the first occurrence: one at index 0
\* does not count, and hides those behind it.
TestContains(m, r) ==
    \/ r.location = "status" /\ r.value \in m.status
    \/ r.location = "header" /\ r.value \in m.header /\ r.value # m.start
    \/ r.location = "payload" /\ r.value \in m.payload

Fails_Never(m, r) == FALSE

\* bTests is FALSE when a set's first rule is tested and TRUE afterwards, and
\* only a "contains" rule changes it.
Fails(m, r) ==
    IF r.op = "contains" THEN ~TestContains(m, r) ELSE rule = 1

SetMoved == setBlock # BlockSize(Len(m_RuleSets))
LastRule == rule = Len(m_RuleSets[set].rules)

RuleMoved == ruleBlock # BlockSize(Len(m_RuleSets[set].rules))

Lose ==
    /\ at' = "lost"
    /\ UNCHANGED <<engine, pMsg, set, rule, setBlock, ruleBlock, found>>

\* A message that begins with MCP/ is a reply, for which no rule is searched.
TakeMessage(m) ==
    /\ at = "idle"
    /\ pMsg' = m
    /\ found' = NoMatch
    /\ IF m.start = "MCP/" THEN at' = "lookup" ELSE at' = "set"
    /\ set' = 1 /\ setBlock' = BlockSize(Len(m_RuleSets))
    /\ UNCHANGED <<engine, rule, ruleBlock>>

NoSetLeft ==
    /\ at = "set" /\ ~SetMoved /\ set = Len(m_RuleSets) + 1
    /\ at' = "lookup"
    /\ UNCHANGED <<engine, pMsg, set, rule, setBlock, ruleBlock, found>>

GetFirstRule ==
    /\ at = "set" /\ ~SetMoved /\ set \in DOMAIN m_RuleSets
    /\ m_RuleSets[set].rules # <<>>
    /\ at' = "test"
    /\ rule' = 1 /\ ruleBlock' = BlockSize(Len(m_RuleSets[set].rules))
    /\ UNCHANGED <<engine, pMsg, set, setBlock, found>>

\* *begin() of a set without a rule, or an iterator of a vector that has moved.
ReadsNothing ==
    /\ at = "set"
    /\ SetMoved \/ (set \in DOMAIN m_RuleSets /\ m_RuleSets[set].rules = <<>>)
    /\ Lose

RuleFails ==
    /\ at = "test" /\ Fails(pMsg, m_RuleSets[set].rules[rule])
    /\ at' = "set" /\ set' = set + 1
    /\ UNCHANGED <<engine, pMsg, rule, setBlock, ruleBlock, found>>

RuleHolds ==
    /\ at = "test" /\ ~Fails(pMsg, m_RuleSets[set].rules[rule])
    /\ at' = "next"
    /\ UNCHANGED <<engine, pMsg, set, rule, setBlock, ruleBlock, found>>

GetNextRule ==
    /\ at = "next" /\ ~RuleMoved /\ ~LastRule
    /\ at' = "test" /\ rule' = rule + 1
    /\ UNCHANGED <<engine, pMsg, set, setBlock, ruleBlock, found>>

AllRulesHold ==
    /\ at = "next" /\ ~RuleMoved /\ LastRule
    /\ at' = "lookup" /\ found' = m_RuleSets[set].to
    /\ UNCHANGED <<engine, pMsg, set, rule, setBlock, ruleBlock>>

RuleVectorMoved == at = "next" /\ RuleMoved /\ Lose

(* cMsgQueue::ProcessInboundMessage, after the search *)

Target ==
    IF pMsg.start = "MCP/" THEN [base |-> "MC", ext |-> ""]
    ELSE IF found # NoMatch THEN found ELSE pMsg.command

HandleMessage ==
    /\ at = "lookup" /\ Found(Target)
    /\ at' = "idle" /\ pMsg' = NoMessage
    /\ UNCHANGED <<engine, set, rule, setBlock, ruleBlock, found>>

\* GetCommandHandler returns null, and OnProcess is called through it.
NullHandler == at = "lookup" /\ ~Found(Target) /\ Lose

RouterNext ==
    \/ RegisterCommandHandler \/ MakeSet \/ AddRule
    \/ \E m \in Messages : TakeMessage(m)
    \/ NoSetLeft \/ GetFirstRule \/ ReadsNothing
    \/ RuleFails \/ RuleHolds
    \/ GetNextRule \/ AllRulesHold \/ RuleVectorMoved
    \/ HandleMessage \/ NullHandler

RouterSpec == RouterInit /\ [][RouterNext]_routerVars

-----------------------------------------------------------------------------
RouterTypeOK ==
    /\ m_CommandMap \subseteq {Registrations[i] : i \in DOMAIN Registrations}
    /\ \A i \in DOMAIN m_RuleSets :
          \A j \in DOMAIN m_RuleSets[i].rules : m_RuleSets[i].rules[j].name = m_RuleSets[i].name
    /\ pMsg \in Messages \cup {NoMessage}
    /\ at \in {"idle", "set", "test", "next", "lookup", "lost"}
    /\ (pMsg = NoMessage) = (at = "idle")
    /\ set \in 0 .. Len(m_RuleSets) + 1
    /\ at \in {"test", "next"} => rule \in DOMAIN m_RuleSets[set].rules

\* What a rule set is for: all its "contains" rules hold of the message.  One that
\* begins with another kind of rule never matches, as these are not implemented.
SetMatches(s, m) ==
    /\ s.rules # <<>>
    /\ s.rules[1].op = "contains"
    /\ \A i \in DOMAIN s.rules : s.rules[i].op = "contains" => TestContains(m, s.rules[i])

\* Where a message should go: to the first set that matches.
Wanted(m) ==
    IF \E i \in DOMAIN m_RuleSets : SetMatches(m_RuleSets[i], m)
    THEN m_RuleSets[CHOOSE i \in DOMAIN m_RuleSets :
             /\ SetMatches(m_RuleSets[i], m)
             /\ \A j \in 1 .. i - 1 : ~SetMatches(m_RuleSets[j], m)].to
    ELSE NoMatch

\* Unless the process is lost, the search answers with the first set that matches
\* at the moment it ends, although rules were added while it ran: a set that
\* failed a test earlier cannot match later (msgrouterrulesengine.cpp:100).
AnswerIsCurrent ==
    [][(at \in {"set", "next"} /\ at' = "lookup") => found' = Wanted(pMsg)]_routerVars
=============================================================================
