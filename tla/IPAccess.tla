------------------------------ MODULE IPAccess -------------------------------
(***************************************************************************)
(* Who may connect (cIPAccess, ipaccess.cpp), as cCore::ProcessIPRules     *)
(* fills the list of rules, one <addr> at a time, while the servers        *)
(* already ask for verdicts.  Validate's loop holds m_mutex, which Add     *)
(* does not take: a rule may be added between any two steps of a search,   *)
(* and push_back may move the list's block away under it.                  *)
(*                                                                         *)
(* An octet of a rule's text is a number or "*", which is read as -1; the  *)
(* code has four of them.  A client's address comes from inet_ntoa: its    *)
(* octets are numbers below 256.                                           *)
(***************************************************************************)
EXTENDS Integers, Sequences

CONSTANTS
    Octets,       \* the positions of an address's octets, 1 .. 4 in the code
    Addresses,    \* the addresses of clients
    RuleTexts,    \* addresses as they are written in rules, "*" as Star
    MaxAddrs      \* bound: how many addresses <allow> and <block> list

\* ParseIP's value of "*": it matches every octet.
Star == -1

ASSUME IPAccessAssumption ==
    /\ Addresses \subseteq [Octets -> 0 .. 255] /\ Addresses # {}
    /\ RuleTexts \subseteq [Octets -> Int]
    /\ MaxAddrs \in Nat

\* What <allow> and <block> may list.
Lists == UNION {[1 .. n -> RuleTexts] : n \in 0 .. MaxAddrs}

VARIABLES
    m_rulelist,   \* the rules: [type, octant]
    allow,        \* addresses of <allow> that ProcessIPRules has still to add
    block,        \* addresses of <block> that it has still to add
    search,       \* Validate's variables: where it is, the address it was called with,
                  \* its next rule, whether the block it is about to read was freed,
                  \* and what it returned last
    admitted      \* ghost: every address that was let in

listVars == <<m_rulelist, allow, block>>
ipVars == <<listVars, search, admitted>>

\* cIPAccess::ParseIP refuses an octet that is too large, and nothing else.
Parses(text) == \A o \in Octets : text[o] <= 255

Rule(type, text) == [type |-> type, octant |-> text]
Rules == [type : {"INCLUSION", "EXCLUSION"}, octant : {t \in RuleTexts : Parses(t)}]

SomeAddress == CHOOSE a \in Addresses : TRUE

IPInit ==
    /\ m_rulelist = <<>>
    /\ allow \in Lists
    /\ block \in Lists
    /\ search = [at |-> "idle", addr |-> SomeAddress, i |-> 1, moved |-> FALSE,
                 verdict |-> "none"]
    /\ admitted = {}

-----------------------------------------------------------------------------
(* The rules *)

Pushed_First(rules, rule) == <<rule>> \o rules

\* m_rulelist.push_back
Pushed(rules, rule) == Append(rules, rule)

\* cIPAccess::Add: a rule that cannot be parsed is logged and left out.
Add(type, text) ==
    /\ m_rulelist' = IF Parses(text) THEN Pushed(m_rulelist, Rule(type, text)) ELSE m_rulelist
    /\ search' \in IF Parses(text) /\ search.at = "entry"
                   THEN {search, [search EXCEPT !.moved = TRUE]} ELSE {search}
    /\ UNCHANGED admitted

\* ProcessIPRules: first the addresses of <allow>, ...
AddAllowed ==
    /\ allow # <<>>
    /\ Add("INCLUSION", Head(allow))
    /\ allow' = Tail(allow)
    /\ UNCHANGED block

\* ... then those of <block>.
AddBlocked ==
    /\ allow = <<>> /\ block # <<>>
    /\ Add("EXCLUSION", Head(block))
    /\ block' = Tail(block)
    /\ UNCHANGED allow

-----------------------------------------------------------------------------
(* cIPAccess::Validate, one call at a time: m_mutex *)

Validate(a) ==
    /\ search.at = "idle"
    /\ search' = [search EXCEPT !.at = "loop", !.addr = a, !.i = 1]
    /\ UNCHANGED <<listVars, admitted>>

Answer(v) ==
    /\ search' = [search EXCEPT !.at = "idle", !.moved = FALSE, !.verdict = v]
    /\ admitted' = IF v = "OK" THEN admitted \cup {search.addr} ELSE admitted
    /\ UNCHANGED listVars

Default_OK == "OK"

\* What Validate returns when no rule matches.
Default == "DENY"

EndOfList ==
    /\ search.at = "loop" /\ search.i > Len(m_rulelist)
    /\ Answer(Default)

\* m_rulelist[i], up to where its block is.
NextRule ==
    /\ search.at = "loop" /\ search.i <= Len(m_rulelist)
    /\ search' = [search EXCEPT !.at = "entry"]
    /\ UNCHANGED <<listVars, admitted>>

\* The tests of the octets, all passed.
Matches(rule, a) == \A o \in Octets : rule.octant[o] \in {Star, a[o]}

\* The rule that was read.  In a block that was freed it may still be there.
Decide ==
    LET rule == m_rulelist[search.i]
    IN /\ search.at = "entry" /\ Matches(rule, search.addr)
       /\ Answer(IF rule.type = "INCLUSION" THEN "OK" ELSE "DENY")

After_Skips(k) == k + 2

\* i++
After(k) == k + 1

Continue ==
    /\ search.at = "entry" /\ ~Matches(m_rulelist[search.i], search.addr)
    /\ search' = [search EXCEPT !.at = "loop", !.i = After(@), !.moved = FALSE]
    /\ UNCHANGED <<listVars, admitted>>

\* It may as well hold anything: the process is lost.
ReadFreed ==
    /\ search.at = "entry" /\ search.moved
    /\ search' = [search EXCEPT !.at = "lost"]
    /\ UNCHANGED <<listVars, admitted>>

IPNext ==
    /\ search.at # "lost"
    /\ \/ AddAllowed \/ AddBlocked
       \/ \E a \in Addresses : Validate(a)
       \/ EndOfList \/ NextRule \/ Decide \/ Continue \/ ReadFreed

IPSpec == IPInit /\ [][IPNext]_ipVars

-----------------------------------------------------------------------------
Searches == [at : {"idle", "loop", "entry", "lost"}, addr : Addresses, i : Nat \ {0},
             moved : BOOLEAN, verdict : {"none", "OK", "DENY"}]

IPTypeOK ==
    /\ m_rulelist \in Seq(Rules)
    /\ allow \in Seq(RuleTexts)
    /\ block \in Seq(RuleTexts)
    /\ search \in Searches
    /\ admitted \subseteq Addresses

Deciding(a) == {k \in DOMAIN m_rulelist : Matches(m_rulelist[k], a)}

\* Whether the first rule of the list that matches an address is one of <allow>.
LetIn(a) ==
    \E k \in Deciding(a) : m_rulelist[k].type = "INCLUSION" /\ \A h \in Deciding(a) : k <= h

Returns == search.at \in {"loop", "entry"} /\ search'.at = "idle"

\* Although rules are added during a search, no verdict is of a list that never was:
\* it is that of the list as it is when the search returns (ipaccess.cpp:88, 119).
VerdictOfList == [][Returns => (search'.verdict = "OK" <=> LetIn(search.addr))]_ipVars

\* While the list is filled, servers already let clients in: whoever was let in once is
\* let in ever after, whichever rules came in between and whenever, because the first
\* one that matches decides and rules are added at the end (ipaccess.cpp:119,
\* core.cpp:528).
NeverWithdrawn == [][(Returns /\ search.addr \in admitted) => search'.verdict = "OK"]_ipVars
=============================================================================
