---------------------------- MODULE RouterProofs -----------------------------
(***************************************************************************)
(* The search for a message's handler answers with the rules as they are   *)
(* when it ends, for any rules, registrations and messages, although the   *)
(* main thread adds rules while it runs.                                   *)
(***************************************************************************)
EXTENDS Router, SequenceTheorems, TLAPS

Names == [base : STRING, ext : STRING]
RuleType == [name : STRING, to : Names, location : STRING, op : STRING, value : STRING]
SetType == [name : STRING, to : Names, rules : Seq(RuleType)]

\* A set that this message has failed, and will fail whatever rules are added to it.
Failed(rules, m) ==
    /\ rules # <<>>
    /\ \/ rules[1].op # "contains"
       \/ \E i \in DOMAIN rules : rules[i].op = "contains" /\ ~TestContains(m, rules[i])

\* A rule that does not end the search of its set.
Holds(rules, i, m) ==
    /\ rules[i].op = "contains" => TestContains(m, rules[i])
    /\ i = 1 => rules[i].op = "contains"

EngineTyped ==
    /\ m_RuleSets \in Seq(SetType)
    /\ left \in [names : Seq(Names), rules : Seq(RuleType)]
    /\ \A i \in DOMAIN left.names : \E j \in DOMAIN Registrations : left.names[i] = Registrations[j]

\* The search is in a set, and has passed the sets before it and the rules before its own.
SearchSound ==
    /\ at = "set" => set >= 1
    /\ at \in {"test", "next"} => set \in DOMAIN m_RuleSets
    /\ at \in {"set", "test", "next"} =>
          /\ found = NoMatch
          /\ \A j \in 1 .. set - 1 : Failed(m_RuleSets[j].rules, pMsg)
    /\ at \in {"test", "next"} =>
          \A i \in 1 .. rule - 1 : Holds(m_RuleSets[set].rules, i, pMsg)
    /\ at = "next" => Holds(m_RuleSets[set].rules, rule, pMsg)

IInv == RouterTypeOK /\ EngineTyped /\ SearchSound

LEMMA InitHolds == RouterInit => IInv
<1> SUFFICES ASSUME RouterInit PROVE IInv
  OBVIOUS
<1>1. EngineTyped
  <2>1. m_RuleSets \in Seq(SetType)
    BY DEF RouterInit
  <2>2. left \in [names : Seq(Names), rules : Seq(RuleType)] /\ left.names = Registrations
    BY RouterAssumption DEF RouterInit, Names, RuleType
  <2> QED
    BY <2>1, <2>2 DEF EngineTyped
<1>2. RouterTypeOK
  BY DEF RouterInit, RouterTypeOK
<1>3. SearchSound
  BY DEF RouterInit, SearchSound
<1> QED
  BY <1>1, <1>2, <1>3 DEF IInv

\* A rule added to a set changes nothing of those it has.
LEMMA RulesGrow ==
  ASSUME NEW rules \in Seq(RuleType), NEW r \in RuleType, NEW m
  PROVE  /\ Failed(rules, m) => Failed(Append(rules, r), m)
         /\ \A i \in DOMAIN rules :
                /\ i \in DOMAIN Append(rules, r)
                /\ Holds(rules, i, m) => Holds(Append(rules, r), i, m)
<1> DEFINE longer == Append(rules, r)
<1>1. /\ DOMAIN rules = 1 .. Len(rules) /\ Len(rules) \in Nat
      /\ DOMAIN longer = 1 .. Len(rules) + 1
      /\ \A i \in DOMAIN rules : longer[i] = rules[i]
  OBVIOUS
<1>2. rules # <<>> => longer # <<>> /\ 1 \in DOMAIN rules
  BY <1>1
<1> HIDE DEF longer
<1>3. Failed(rules, m) => Failed(longer, m)
  BY <1>1, <1>2 DEF Failed
<1>4. ASSUME NEW i \in DOMAIN rules
      PROVE  i \in DOMAIN longer /\ (Holds(rules, i, m) => Holds(longer, i, m))
  BY <1>1 DEF Holds
<1> QED
  BY <1>3, <1>4 DEF longer

\* Where AddRule finds a set it has the rule's name.
LEMMA SetFound ==
  ASSUME NEW name, SetOf(name) \in DOMAIN m_RuleSets, m_RuleSets \in Seq(SetType)
  PROVE  m_RuleSets[SetOf(name)].name = name
BY DEF SetOf

\* The sets after AddRule: one of them has a rule more.
LEMMA SetsAfterAddRule ==
  ASSUME IInv, AddRule
  PROVE  \E k \in DOMAIN m_RuleSets, r \in RuleType :
            /\ m_RuleSets[k].name = r.name
            /\ m_RuleSets' \in Seq(SetType)
            /\ DOMAIN m_RuleSets' = DOMAIN m_RuleSets /\ Len(m_RuleSets') = Len(m_RuleSets)
            /\ \A j \in DOMAIN m_RuleSets :
                  /\ m_RuleSets'[j].name = m_RuleSets[j].name
                  /\ m_RuleSets'[j].to = m_RuleSets[j].to
                  /\ m_RuleSets'[j].rules = IF j = k THEN Append(m_RuleSets[j].rules, r)
                                            ELSE m_RuleSets[j].rules
<1> DEFINE r == Head(left.rules)
           k == SetOf(r.name)
<1>1. m_RuleSets \in Seq(SetType) /\ left.rules \in Seq(RuleType) /\ left.rules # <<>>
  BY DEF IInv, EngineTyped, AddRule
<1>2. r \in RuleType
  BY <1>1
<1>3. k \in DOMAIN m_RuleSets /\ m_RuleSets[k].name = r.name
  BY <1>1, SetFound DEF AddRule
<1>4. m_RuleSets' = [m_RuleSets EXCEPT ![k].rules = Append(@, r)]
  BY DEF AddRule
<1> HIDE DEF r, k
<1> DEFINE more == [m_RuleSets[k] EXCEPT !.rules = Append(@, r)]
<1>5. m_RuleSets[k] \in SetType /\ m_RuleSets[k].rules \in Seq(RuleType)
  <2>1. m_RuleSets[k] \in SetType
    BY <1>1, <1>3
  <2> QED
    BY <2>1 DEF SetType
<1>6. Append(m_RuleSets[k].rules, r) \in Seq(RuleType)
  BY <1>2, <1>5
<1>7. /\ more \in SetType /\ more.name = m_RuleSets[k].name /\ more.to = m_RuleSets[k].to
      /\ more.rules = Append(m_RuleSets[k].rules, r)
  BY <1>5, <1>6 DEF SetType
<1>8. m_RuleSets' = [m_RuleSets EXCEPT ![k] = more]
  BY <1>4
<1> HIDE DEF more
<1>9. /\ m_RuleSets' \in Seq(SetType) /\ Len(m_RuleSets') = Len(m_RuleSets)
      /\ DOMAIN m_RuleSets' = DOMAIN m_RuleSets
      /\ \A j \in DOMAIN m_RuleSets : m_RuleSets'[j] = IF j = k THEN more ELSE m_RuleSets[j]
  BY <1>1, <1>3, <1>7, <1>8, ExceptSeq
<1>10. ASSUME NEW j \in DOMAIN m_RuleSets
       PROVE  /\ m_RuleSets'[j].name = m_RuleSets[j].name
              /\ m_RuleSets'[j].to = m_RuleSets[j].to
              /\ m_RuleSets'[j].rules = IF j = k THEN Append(m_RuleSets[j].rules, r)
                                        ELSE m_RuleSets[j].rules
  BY <1>7, <1>9
<1>11. k \in DOMAIN m_RuleSets /\ r \in RuleType
  BY <1>2, <1>3
<1> QED
  BY <1>3, <1>9, <1>10, <1>11, Zenon

\* The engine's steps keep the types, whatever is searched meanwhile.
LEMMA RegisterKeeps ==
  ASSUME IInv, RegisterCommandHandler PROVE IInv'
<1>1. left.names \in Seq(Names) /\ left.names # <<>> /\ left.rules \in Seq(RuleType)
  BY DEF IInv, EngineTyped, RegisterCommandHandler
<1>2. /\ Tail(left.names) \in Seq(Names) /\ 1 \in DOMAIN left.names
      /\ \A i \in DOMAIN Tail(left.names) : /\ i + 1 \in DOMAIN left.names
                                            /\ Tail(left.names)[i] = left.names[i + 1]
      /\ Head(left.names) = left.names[1]
  BY <1>1
<1>3. left'.names = Tail(left.names) /\ left'.rules = left.rules
      /\ left' \in [names : Seq(Names), rules : Seq(RuleType)]
  BY <1>1, <1>2 DEF RegisterCommandHandler, IInv, EngineTyped
<1>4. EngineTyped'
  <2>1. m_RuleSets' \in Seq(SetType)
    BY DEF RegisterCommandHandler, IInv, EngineTyped
  <2>2. \A i \in DOMAIN left'.names : \E j \in DOMAIN Registrations :
            left'.names[i] = Registrations[j]
    BY <1>2, <1>3 DEF IInv, EngineTyped
  <2> QED
    BY <1>3, <2>1, <2>2 DEF EngineTyped
<1>5. m_CommandMap' \subseteq {Registrations[i] : i \in DOMAIN Registrations}
  BY <1>2 DEF RegisterCommandHandler, IInv, EngineTyped, RouterTypeOK
<1>6. RouterTypeOK'
  BY <1>5 DEF RegisterCommandHandler, searchVars, IInv, RouterTypeOK
<1>7. SearchSound'
  BY DEF RegisterCommandHandler, searchVars, IInv, SearchSound, Failed, Holds, TestContains
<1> QED
  BY <1>4, <1>6, <1>7 DEF IInv

\* A set without a rule is added behind the others: the search has not come to it.
LEMMA MakeSetKeeps ==
  ASSUME IInv, MakeSet PROVE IInv'
<1> DEFINE new == [name |-> Head(left.rules).name, to |-> Head(left.rules).to, rules |-> <<>>]
<1>1. m_RuleSets \in Seq(SetType) /\ left.rules \in Seq(RuleType) /\ left.rules # <<>>
  BY DEF IInv, EngineTyped, MakeSet
<1>2. Head(left.rules) \in RuleType
  BY <1>1
<1>3. new \in SetType /\ new.rules = <<>>
  BY <1>2 DEF SetType, RuleType
<1>4. m_RuleSets' = Append(m_RuleSets, new)
  BY DEF MakeSet
<1> HIDE DEF new
<1>5. /\ m_RuleSets' \in Seq(SetType) /\ Len(m_RuleSets') = Len(m_RuleSets) + 1
      /\ DOMAIN m_RuleSets = 1 .. Len(m_RuleSets) /\ Len(m_RuleSets) \in Nat
      /\ DOMAIN m_RuleSets' = 1 .. Len(m_RuleSets) + 1
      /\ \A j \in DOMAIN m_RuleSets : m_RuleSets'[j] = m_RuleSets[j]
      /\ m_RuleSets'[Len(m_RuleSets) + 1] = new
  BY <1>1, <1>3, <1>4
<1>6. EngineTyped'
  BY <1>5 DEF MakeSet, IInv, EngineTyped
<1>7. UNCHANGED <<m_CommandMap, pMsg, at, set, rule, found>>
  BY DEF MakeSet, searchVars
<1>8. RouterTypeOK'
  <2>1. \A i \in DOMAIN m_RuleSets' : \A j \in DOMAIN m_RuleSets'[i].rules :
            m_RuleSets'[i].rules[j].name = m_RuleSets'[i].name
    <3>1. ASSUME NEW i \in DOMAIN m_RuleSets'
          PROVE  \A j \in DOMAIN m_RuleSets'[i].rules :
                    m_RuleSets'[i].rules[j].name = m_RuleSets'[i].name
      <4>1. CASE i \in DOMAIN m_RuleSets
        BY <1>5, <4>1 DEF IInv, RouterTypeOK
      <4>2. CASE i = Len(m_RuleSets) + 1
        BY <1>3, <1>5, <4>2
      <4> QED
        BY <1>5, <3>1, <4>1, <4>2
    <3> QED
      BY <3>1
  <2>2. set \in 0 .. Len(m_RuleSets) + 1 /\ (at \in {"test", "next"} => set \in DOMAIN m_RuleSets)
    BY DEF IInv, RouterTypeOK, SearchSound
  <2>3. set' \in 0 .. Len(m_RuleSets') + 1
    BY <1>5, <1>7, <2>2
  <2>4. at' \in {"test", "next"} => rule' \in DOMAIN m_RuleSets'[set'].rules
    BY <1>5, <1>7, <2>2 DEF IInv, RouterTypeOK
  <2> QED
    BY <1>7, <2>1, <2>3, <2>4 DEF IInv, RouterTypeOK
<1>9. SearchSound'
  <2>1. set \in 0 .. Len(m_RuleSets) + 1
    BY DEF IInv, RouterTypeOK
  <2>2. ASSUME at \in {"set", "test", "next"}, NEW j \in 1 .. set - 1
        PROVE  Failed(m_RuleSets'[j].rules, pMsg)
    BY <1>5, <2>1, <2>2 DEF IInv, SearchSound
  <2>3. at \in {"test", "next"} => /\ set \in DOMAIN m_RuleSets /\ set \in DOMAIN m_RuleSets'
                                   /\ m_RuleSets'[set] = m_RuleSets[set]
    BY <1>5 DEF IInv, SearchSound
  <2>4. at \in {"test", "next"} =>
            \A i \in 1 .. rule - 1 : Holds(m_RuleSets'[set].rules, i, pMsg)
    BY <2>3 DEF IInv, SearchSound
  <2>5. at = "next" => Holds(m_RuleSets'[set].rules, rule, pMsg)
    BY <2>3 DEF IInv, SearchSound
  <2>6. /\ at = "set" => set >= 1
        /\ at \in {"set", "test", "next"} => found = NoMatch
    BY DEF IInv, SearchSound
  <2> QED
    BY <1>7, <2>2, <2>3, <2>4, <2>5, <2>6 DEF SearchSound
<1> QED
  BY <1>6, <1>8, <1>9 DEF IInv

\* A rule is added to a set before, at or behind the one that is searched.
LEMMA AddRuleKeeps ==
  ASSUME IInv, AddRule PROVE IInv'
<1>1. PICK k \in DOMAIN m_RuleSets, r \in RuleType :
            /\ m_RuleSets[k].name = r.name
            /\ m_RuleSets' \in Seq(SetType)
            /\ DOMAIN m_RuleSets' = DOMAIN m_RuleSets /\ Len(m_RuleSets') = Len(m_RuleSets)
            /\ \A j \in DOMAIN m_RuleSets :
                  /\ m_RuleSets'[j].name = m_RuleSets[j].name
                  /\ m_RuleSets'[j].to = m_RuleSets[j].to
                  /\ m_RuleSets'[j].rules = IF j = k THEN Append(m_RuleSets[j].rules, r)
                                            ELSE m_RuleSets[j].rules
  BY SetsAfterAddRule
<1>2. \A j \in DOMAIN m_RuleSets : m_RuleSets[j].rules \in Seq(RuleType)
  <2>1. \A j \in DOMAIN m_RuleSets : m_RuleSets[j] \in SetType
    BY DEF IInv, EngineTyped
  <2> QED
    BY <2>1 DEF SetType
<1>3. UNCHANGED <<m_CommandMap, pMsg, at, set, rule, found>>
  BY DEF AddRule, searchVars
<1>4. EngineTyped'
  <2>1. left.rules \in Seq(RuleType) /\ left.rules # <<>> /\ left.names \in Seq(Names)
    BY DEF AddRule, IInv, EngineTyped
  <2>2. Tail(left.rules) \in Seq(RuleType)
    BY <2>1
  <2>3. left' \in [names : Seq(Names), rules : Seq(RuleType)] /\ left'.names = left.names
    BY <2>1, <2>2 DEF AddRule, IInv, EngineTyped
  <2> QED
    BY <1>1, <2>3 DEF IInv, EngineTyped
<1>5. ASSUME NEW j \in DOMAIN m_RuleSets, NEW m
      PROVE  /\ Failed(m_RuleSets[j].rules, m) => Failed(m_RuleSets'[j].rules, m)
             /\ \A i \in DOMAIN m_RuleSets[j].rules :
                    /\ i \in DOMAIN m_RuleSets'[j].rules
                    /\ Holds(m_RuleSets[j].rules, i, m) => Holds(m_RuleSets'[j].rules, i, m)
  <2>1. m_RuleSets[j].rules \in Seq(RuleType)
    BY <1>2
  <2>2. CASE j = k
    BY <1>1, <2>1, <2>2, RulesGrow
  <2>3. CASE j # k
    BY <1>1, <2>3
  <2> QED
    BY <2>2, <2>3
<1>6. set \in 0 .. Len(m_RuleSets) + 1 /\ (at \in {"test", "next"} => set \in DOMAIN m_RuleSets)
      /\ m_RuleSets \in Seq(SetType)
      /\ (at \in {"test", "next"} => rule \in DOMAIN m_RuleSets[set].rules)
  BY DEF IInv, RouterTypeOK, SearchSound, EngineTyped
<1>7. RouterTypeOK'
  <2>1. ASSUME NEW i \in DOMAIN m_RuleSets', NEW j \in DOMAIN m_RuleSets'[i].rules
        PROVE  m_RuleSets'[i].rules[j].name = m_RuleSets'[i].name
    <3>1. \A n \in DOMAIN m_RuleSets[i].rules : m_RuleSets[i].rules[n].name = m_RuleSets[i].name
      BY <1>1, <2>1 DEF IInv, RouterTypeOK
    <3>2. CASE i = k
      <4> DEFINE rules == m_RuleSets[i].rules
      <4>1. rules \in Seq(RuleType) /\ m_RuleSets'[i].rules = Append(rules, r)
        BY <1>1, <1>2, <3>2
      <4> HIDE DEF rules
      <4>2. Append(rules, r)[j] = r \/ (j \in DOMAIN rules /\ Append(rules, r)[j] = rules[j])
        BY <2>1, <4>1
      <4> QED
        BY <1>1, <3>1, <3>2, <4>1, <4>2 DEF rules
    <3>3. CASE i # k
      BY <1>1, <2>1, <3>1, <3>3
    <3> QED
      BY <3>2, <3>3
  <2>2. set' \in 0 .. Len(m_RuleSets') + 1
    BY <1>1, <1>3, <1>6
  <2>3. at' \in {"test", "next"} => rule' \in DOMAIN m_RuleSets'[set'].rules
    BY <1>3, <1>5, <1>6
  <2> QED
    BY <1>3, <2>1, <2>2, <2>3 DEF IInv, RouterTypeOK
<1>8. SearchSound'
  <2>1. ASSUME at \in {"set", "test", "next"}, NEW j \in 1 .. set - 1
        PROVE  Failed(m_RuleSets'[j].rules, pMsg)
    <3>1. j \in DOMAIN m_RuleSets
      BY <1>6
    <3> QED
      BY <1>5, <2>1, <3>1 DEF IInv, SearchSound
  <2>2. ASSUME at \in {"test", "next"}, NEW i \in 1 .. rule - 1
        PROVE  Holds(m_RuleSets'[set].rules, i, pMsg)
    <3>1. set \in DOMAIN m_RuleSets /\ rule \in DOMAIN m_RuleSets[set].rules
          /\ m_RuleSets[set].rules \in Seq(RuleType)
      BY <1>2, <1>6, <2>2
    <3>2. i \in DOMAIN m_RuleSets[set].rules
      BY <3>1
    <3>3. Holds(m_RuleSets[set].rules, i, pMsg)
      BY <2>2 DEF IInv, SearchSound
    <3> QED
      BY <1>5, <3>1, <3>2, <3>3
  <2>3. ASSUME at = "next"
        PROVE  Holds(m_RuleSets'[set].rules, rule, pMsg)
    BY <1>5, <1>6, <2>3 DEF IInv, SearchSound
  <2>4. /\ at = "set" => set >= 1
        /\ at \in {"set", "test", "next"} => found = NoMatch
    BY DEF IInv, SearchSound
  <2>5. at \in {"test", "next"} => set \in DOMAIN m_RuleSets'
    BY <1>1, <1>6
  <2> QED
    BY <1>3, <2>1, <2>2, <2>3, <2>4, <2>5 DEF SearchSound
<1> QED
  BY <1>4, <1>7, <1>8 DEF IInv

\* A step of the search leaves the rules alone.
LEMMA SearchTyped ==
  ASSUME IInv, UNCHANGED engine,
         pMsg' \in Messages \cup {NoMessage},
         at' \in {"idle", "set", "test", "next", "lookup", "lost"},
         pMsg' = NoMessage <=> at' = "idle",
         set' \in 0 .. Len(m_RuleSets) + 1,
         at' \in {"test", "next"} => rule' \in DOMAIN m_RuleSets[set'].rules
  PROVE  EngineTyped' /\ RouterTypeOK'
<1>1. EngineTyped'
  BY DEF IInv, EngineTyped, engine
<1>2. (pMsg' = NoMessage) = (at' = "idle")
  OBVIOUS
<1>3. RouterTypeOK'
  BY <1>2 DEF IInv, RouterTypeOK, engine
<1> QED
  BY <1>1, <1>3

LEMMA TakeMessageKeeps ==
  ASSUME IInv, NEW m \in Messages, TakeMessage(m) PROVE IInv'
<1>1. m # NoMessage
  <2>1. m.start # ""
    BY RouterAssumption
  <2>2. NoMessage.start = ""
    BY DEF NoMessage
  <2> QED
    BY <2>1, <2>2
<1>2. m_RuleSets \in Seq(SetType)
  BY DEF IInv, EngineTyped
<1>3. pMsg' = m /\ at' \in {"set", "lookup"} /\ set' = 1 /\ found' = NoMatch /\ UNCHANGED engine
  BY DEF TakeMessage
<1>4. set' \in 0 .. Len(m_RuleSets) + 1
  BY <1>2, <1>3
<1>5. EngineTyped' /\ RouterTypeOK'
  BY <1>1, <1>3, <1>4, SearchTyped
<1>6. SearchSound'
  BY <1>3 DEF SearchSound
<1> QED
  BY <1>5, <1>6 DEF IInv

\* What is known of the search in a state with a message.
LEMMA Searching ==
  ASSUME IInv, at \in {"set", "test", "next", "lookup"}
  PROVE  /\ pMsg \in Messages /\ pMsg # NoMessage
         /\ m_RuleSets \in Seq(SetType) /\ Len(m_RuleSets) \in Nat
         /\ DOMAIN m_RuleSets = 1 .. Len(m_RuleSets)
         /\ set \in 0 .. Len(m_RuleSets) + 1
         /\ at = "set" => set >= 1
         /\ at \in {"test", "next"} =>
               /\ set \in DOMAIN m_RuleSets /\ rule \in DOMAIN m_RuleSets[set].rules
               /\ m_RuleSets[set].rules \in Seq(RuleType)
               /\ DOMAIN m_RuleSets[set].rules = 1 .. Len(m_RuleSets[set].rules)
               /\ Len(m_RuleSets[set].rules) \in Nat
<1>1. pMsg \in Messages /\ pMsg # NoMessage
  BY DEF IInv, RouterTypeOK
<1>2. m_RuleSets \in Seq(SetType) /\ set \in 0 .. Len(m_RuleSets) + 1 /\ (at = "set" => set >= 1)
  BY DEF IInv, EngineTyped, RouterTypeOK, SearchSound
<1>3. ASSUME at \in {"test", "next"}
      PROVE  /\ set \in DOMAIN m_RuleSets /\ rule \in DOMAIN m_RuleSets[set].rules
             /\ m_RuleSets[set].rules \in Seq(RuleType)
  <2>1. set \in DOMAIN m_RuleSets /\ rule \in DOMAIN m_RuleSets[set].rules
    BY <1>3 DEF IInv, RouterTypeOK, SearchSound
  <2>2. m_RuleSets[set] \in SetType
    BY <1>2, <2>1
  <2> QED
    BY <2>1, <2>2 DEF SetType
<1> QED
  BY <1>1, <1>2, <1>3

LEMMA GetFirstRuleKeeps ==
  ASSUME IInv, GetFirstRule PROVE IInv'
<1>1. /\ at = "set" /\ at' = "test" /\ set \in DOMAIN m_RuleSets /\ m_RuleSets[set].rules # <<>>
      /\ rule' = 1 /\ UNCHANGED <<engine, pMsg, set, found>>
  BY DEF GetFirstRule
<1>2. m_RuleSets[set] \in SetType
  BY <1>1, Searching
<1>3. m_RuleSets[set].rules \in Seq(RuleType)
  BY <1>2 DEF SetType
<1>4. 1 \in DOMAIN m_RuleSets[set].rules
  BY <1>1, <1>3
<1>5. EngineTyped' /\ RouterTypeOK'
  BY <1>1, <1>4, Searching, SearchTyped
<1>6. UNCHANGED m_RuleSets
  BY <1>1 DEF engine
<1>7. SearchSound'
  BY <1>1, <1>6 DEF IInv, SearchSound
<1> QED
  BY <1>5, <1>7 DEF IInv

\* The set in which a test fails is one that this message has failed.
LEMMA RuleFailsKeeps ==
  ASSUME IInv, RuleFails PROVE IInv'
<1>1. /\ at = "test" /\ at' = "set" /\ set' = set + 1
      /\ Fails(pMsg, m_RuleSets[set].rules[rule]) /\ UNCHANGED <<engine, pMsg, rule, found>>
  BY DEF RuleFails
<1> DEFINE rules == m_RuleSets[set].rules
<1>2. /\ set \in DOMAIN m_RuleSets /\ DOMAIN m_RuleSets = 1 .. Len(m_RuleSets)
      /\ Len(m_RuleSets) \in Nat
      /\ rule \in DOMAIN rules /\ rules \in Seq(RuleType) /\ pMsg \in Messages /\ pMsg # NoMessage
  BY <1>1, Searching
<1>3. UNCHANGED m_RuleSets
  BY <1>1 DEF engine
<1>4. Failed(rules, pMsg)
  <2>1. rules # <<>>
    BY <1>2
  <2>2. Fails(pMsg, rules[rule])
    BY <1>1
  <2> HIDE DEF rules
  <2> QED
    BY <1>2, <2>1, <2>2 DEF Fails, Failed
<1>5. set' \in 0 .. Len(m_RuleSets) + 1 /\ set' >= 1
  BY <1>1, <1>2
<1>6. EngineTyped' /\ RouterTypeOK'
  BY <1>1, <1>2, <1>5, SearchTyped
<1>7. ASSUME NEW j \in 1 .. set' - 1 PROVE Failed(m_RuleSets[j].rules, pMsg)
  <2>1. CASE j = set
    BY <1>4, <2>1
  <2>2. CASE j # set
    <3>1. j \in 1 .. set - 1
      BY <1>1, <1>2, <2>2
    <3> QED
      BY <1>1, <3>1 DEF IInv, SearchSound
  <2> QED
    BY <2>1, <2>2
<1>8. found' = NoMatch
  BY <1>1 DEF IInv, SearchSound
<1>9. SearchSound'
  BY <1>1, <1>3, <1>5, <1>7, <1>8 DEF SearchSound
<1> QED
  BY <1>6, <1>9 DEF IInv

LEMMA RuleHoldsKeeps ==
  ASSUME IInv, RuleHolds PROVE IInv'
<1>1. /\ at = "test" /\ at' = "next"
      /\ ~Fails(pMsg, m_RuleSets[set].rules[rule]) /\ UNCHANGED <<engine, pMsg, set, rule, found>>
  BY DEF RuleHolds
<1>2. EngineTyped' /\ RouterTypeOK'
  BY <1>1, Searching, SearchTyped
<1>3. Holds(m_RuleSets[set].rules, rule, pMsg)
  BY <1>1 DEF Fails, Holds
<1>4. UNCHANGED m_RuleSets
  BY <1>1 DEF engine
<1>5. SearchSound'
  BY <1>1, <1>3, <1>4 DEF IInv, SearchSound
<1> QED
  BY <1>2, <1>5 DEF IInv

LEMMA GetNextRuleKeeps ==
  ASSUME IInv, GetNextRule PROVE IInv'
<1>1. /\ at = "next" /\ at' = "test" /\ rule # Len(m_RuleSets[set].rules) /\ rule' = rule + 1
      /\ UNCHANGED <<engine, pMsg, set, found>>
  BY DEF GetNextRule, LastRule
<1>2. /\ set \in DOMAIN m_RuleSets /\ rule \in 1 .. Len(m_RuleSets[set].rules)
      /\ Len(m_RuleSets[set].rules) \in Nat
      /\ DOMAIN m_RuleSets[set].rules = 1 .. Len(m_RuleSets[set].rules)
  BY <1>1, Searching
<1>3. rule' \in DOMAIN m_RuleSets[set].rules
  BY <1>1, <1>2
<1>4. EngineTyped' /\ RouterTypeOK'
  BY <1>1, <1>3, Searching, SearchTyped
<1>5. UNCHANGED m_RuleSets
  BY <1>1 DEF engine
<1>6. ASSUME NEW i \in 1 .. rule' - 1 PROVE Holds(m_RuleSets[set].rules, i, pMsg)
  <2>1. i = rule \/ i \in 1 .. rule - 1
    BY <1>1, <1>2
  <2> QED
    BY <1>1, <2>1 DEF IInv, SearchSound
<1>7. /\ found = NoMatch
      /\ \A j \in 1 .. set - 1 : Failed(m_RuleSets[j].rules, pMsg)
  BY <1>1 DEF IInv, SearchSound
<1>8. SearchSound'
  BY <1>1, <1>2, <1>5, <1>6, <1>7 DEF SearchSound
<1> QED
  BY <1>4, <1>8 DEF IInv

\* The steps that end the search, and the process.
LEMMA EndKeeps ==
  ASSUME IInv, UNCHANGED <<engine, set>>,
         \/ at \in {"set", "next"} /\ at' = "lookup" /\ UNCHANGED pMsg
         \/ at = "lookup" /\ at' = "idle" /\ pMsg' = NoMessage
         \/ at \in {"set", "next", "lookup"} /\ at' = "lost" /\ UNCHANGED pMsg
  PROVE  IInv'
<1>1. at \in {"set", "next", "lookup"} /\ at' \in {"lookup", "idle", "lost"}
  OBVIOUS
<1>2. /\ pMsg \in Messages /\ pMsg # NoMessage
      /\ set \in 0 .. Len(m_RuleSets) + 1
  BY <1>1, Searching
<1>3. EngineTyped' /\ RouterTypeOK'
  BY <1>1, <1>2, SearchTyped
<1>4. SearchSound'
  BY <1>1 DEF SearchSound
<1> QED
  BY <1>3, <1>4 DEF IInv

LEMMA StepKeeps == IInv /\ [RouterNext]_routerVars => IInv'
<1> SUFFICES ASSUME IInv, [RouterNext]_routerVars PROVE IInv'
  OBVIOUS
<1>1. CASE RegisterCommandHandler
  BY <1>1, RegisterKeeps
<1>2. CASE MakeSet
  BY <1>2, MakeSetKeeps
<1>3. CASE AddRule
  BY <1>3, AddRuleKeeps
<1>4. ASSUME NEW m \in Messages, TakeMessage(m) PROVE IInv'
  BY <1>4, TakeMessageKeeps
<1>5. CASE NoSetLeft
  BY <1>5, EndKeeps DEF NoSetLeft
<1>6. CASE GetFirstRule
  BY <1>6, GetFirstRuleKeeps
<1>7. CASE ReadsNothing
  BY <1>7, EndKeeps DEF ReadsNothing, Lose
<1>8. CASE RuleFails
  BY <1>8, RuleFailsKeeps
<1>9. CASE RuleHolds
  BY <1>9, RuleHoldsKeeps
<1>10. CASE GetNextRule
  BY <1>10, GetNextRuleKeeps
<1>11. CASE AllRulesHold
  BY <1>11, EndKeeps DEF AllRulesHold
<1>12. CASE RuleVectorMoved
  BY <1>12, EndKeeps DEF RuleVectorMoved, Lose
<1>13. CASE HandleMessage
  BY <1>13, EndKeeps DEF HandleMessage
<1>14. CASE NullHandler
  BY <1>14, EndKeeps DEF NullHandler, Lose
<1>15. CASE UNCHANGED routerVars
  <2>1. UNCHANGED <<m_CommandMap, m_RuleSets, left, pMsg, at, set, rule, found>>
    BY <1>15 DEF routerVars, engine, searchVars
  <2>2. EngineTyped'
    BY <2>1 DEF IInv, EngineTyped
  <2>3. RouterTypeOK'
    BY <2>1 DEF IInv, RouterTypeOK
  <2>4. SearchSound'
    BY <2>1 DEF IInv, SearchSound
  <2> QED
    BY <2>2, <2>3, <2>4 DEF IInv
<1> QED
  BY <1>1, <1>2, <1>3, <1>4, <1>5, <1>6, <1>7, <1>8, <1>9, <1>10, <1>11, <1>12, <1>13, <1>14,
     <1>15 DEF RouterNext

\* A set that a message has failed does not match it.
LEMMA FailedIsNoMatch ==
  ASSUME NEW s, NEW m, Failed(s.rules, m) PROVE ~SetMatches(s, m)
BY DEF Failed, SetMatches

\* Behind the last set there is no match.
LEMMA NoneWanted ==
  ASSUME IInv, NoSetLeft PROVE Wanted(pMsg) = NoMatch
<1>1. at = "set" /\ set = Len(m_RuleSets) + 1 /\ Len(m_RuleSets) \in Nat
      /\ DOMAIN m_RuleSets = 1 .. Len(m_RuleSets)
  BY Searching DEF NoSetLeft
<1>2. \A j \in DOMAIN m_RuleSets : Failed(m_RuleSets[j].rules, pMsg)
  BY <1>1 DEF IInv, SearchSound
<1>3. \A j \in DOMAIN m_RuleSets : ~SetMatches(m_RuleSets[j], pMsg)
  BY <1>2, FailedIsNoMatch
<1> QED
  BY <1>3 DEF Wanted

\* The set whose last rule holds is the first that matches.
LEMMA FirstWanted ==
  ASSUME IInv, AllRulesHold PROVE Wanted(pMsg) = m_RuleSets[set].to
<1> DEFINE rules == m_RuleSets[set].rules
           First(i) == /\ SetMatches(m_RuleSets[i], pMsg)
                       /\ \A j \in 1 .. i - 1 : ~SetMatches(m_RuleSets[j], pMsg)
           first == CHOOSE i \in DOMAIN m_RuleSets : First(i)
<1>1. /\ at = "next" /\ rule = Len(rules)
      /\ set \in DOMAIN m_RuleSets /\ DOMAIN m_RuleSets = 1 .. Len(m_RuleSets)
      /\ Len(m_RuleSets) \in Nat
      /\ rule \in DOMAIN rules /\ DOMAIN rules = 1 .. Len(rules) /\ Len(rules) \in Nat
      /\ rules \in Seq(RuleType)
  BY Searching DEF AllRulesHold, LastRule
<1>2. \A i \in DOMAIN rules : Holds(rules, i, pMsg)
  BY <1>1 DEF IInv, SearchSound
<1>3. SetMatches(m_RuleSets[set], pMsg)
  <2>1. rules # <<>> /\ 1 \in DOMAIN rules
    BY <1>1
  <2>2. rules[1].op = "contains"
    BY <1>2, <2>1 DEF Holds
  <2>3. \A i \in DOMAIN rules : rules[i].op = "contains" => TestContains(pMsg, rules[i])
    BY <1>2 DEF Holds
  <2> QED
    BY <2>1, <2>2, <2>3 DEF SetMatches
<1>4. ASSUME NEW j \in 1 .. set - 1 PROVE ~SetMatches(m_RuleSets[j], pMsg)
  <2>1. Failed(m_RuleSets[j].rules, pMsg)
    BY <1>1 DEF IInv, SearchSound
  <2> QED
    BY <2>1, FailedIsNoMatch
<1>5. First(set)
  BY <1>3, <1>4
<1>6. first \in DOMAIN m_RuleSets /\ First(first)
  BY <1>1, <1>5
<1> HIDE DEF first
<1>7. first = set
  <2>1. ~(first < set)
    BY <1>1, <1>4, <1>6
  <2>2. ~(set < first)
    BY <1>1, <1>3, <1>6
  <2> QED
    BY <1>1, <1>6, <2>1, <2>2
<1> QED
  BY <1>1, <1>3, <1>7 DEF Wanted, first

\* The search, which no lock keeps from the rules that are added, stays sound.
THEOREM SearchIsSound == RouterSpec => []IInv
BY InitHolds, StepKeeps, PTL DEF RouterSpec

\* The parts of the factory, the rules and the search keep their types.
THEOREM TypeCorrect == RouterSpec => []RouterTypeOK
<1>1. IInv => RouterTypeOK
  BY DEF IInv
<1> QED
  BY <1>1, SearchIsSound, PTL

\* The search answers with the first rule set that matches when it ends, although
\* rules were added while it ran (msgrouterrulesengine.cpp:100).
THEOREM CurrentAnswer == RouterSpec => AnswerIsCurrent
<1> DEFINE Answers == (at \in {"set", "next"} /\ at' = "lookup") => found' = Wanted(pMsg)
<1>1. IInv /\ [RouterNext]_routerVars => [Answers]_routerVars
  <2> SUFFICES ASSUME IInv, RouterNext, at \in {"set", "next"}, at' = "lookup"
               PROVE  found' = Wanted(pMsg)
    OBVIOUS
  <2>1. NoSetLeft \/ AllRulesHold
    BY DEF RouterNext, RegisterCommandHandler, MakeSet, AddRule, searchVars, TakeMessage, GetFirstRule,
           ReadsNothing, Lose, RuleFails, RuleHolds, GetNextRule, RuleVectorMoved, HandleMessage,
           NullHandler
  <2>2. CASE NoSetLeft
    <3>1. found' = NoMatch
      BY <2>2 DEF NoSetLeft, IInv, SearchSound
    <3> QED
      BY <2>2, <3>1, NoneWanted
  <2>3. CASE AllRulesHold
    <3>1. found' = m_RuleSets[set].to
      BY <2>3 DEF AllRulesHold
    <3> QED
      BY <2>3, <3>1, FirstWanted
  <2> QED
    BY <2>1, <2>2, <2>3
<1> QED
  BY <1>1, SearchIsSound, PTL DEF RouterSpec, AnswerIsCurrent
=============================================================================
