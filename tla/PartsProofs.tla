----------------------------- MODULE PartsProofs -----------------------------
(***************************************************************************)
(* The parts of the server that share no state: the list of addresses, the *)
(* unique ids, the client side of the inter-process calls and, with what   *)
(* BufferProofs shows of it, the buffer.  Each is proved alone, for any    *)
(* rules, pools, contents and delays; at the end, that they keep what they *)
(* promise side by side.                                                   *)
(***************************************************************************)
EXTENDS MCParts, BufferProofs, SequenceTheorems, TLAPS

-----------------------------------------------------------------------------
(* IPAccess: a verdict is that of the list as it is when the search returns, *)
(* whatever is added meanwhile, and who was let in stays let in.             *)

\* The rules a search has passed do not match, and whoever was let in is one whom the
\* list lets in.
Passed ==
    /\ search.at \in {"loop", "entry"} => search.i <= Len(m_rulelist) + 1
    /\ search.at = "entry" => search.i <= Len(m_rulelist)
    /\ search.at \in {"loop", "entry"} =>
         \A k \in DOMAIN m_rulelist : k < search.i => ~Matches(m_rulelist[k], search.addr)

AdmittedLetIn == \A a \in admitted : LetIn(a)

SearchInv == IPTypeOK /\ Passed /\ AdmittedLetIn

LEMMA RulesInit == IPInit => SearchInv
<1> SUFFICES ASSUME IPInit PROVE SearchInv
  OBVIOUS
<1>1. \A l \in Lists : l \in Seq(RuleTexts)
  BY DEF Lists
<1>2. SomeAddress \in Addresses
  BY IPAccessAssumption DEF SomeAddress
<1>3. allow \in Seq(RuleTexts) /\ block \in Seq(RuleTexts) /\ m_rulelist \in Seq(Rules)
  BY <1>1 DEF IPInit
<1> QED
  BY <1>2, <1>3 DEF IPInit, SearchInv, IPTypeOK, Searches, Passed, AdmittedLetIn

\* A longer list lets in whom the shorter one lets in, and what a search has passed of
\* the shorter it has passed of the longer.
LEMMA LongerKeeps ==
  ASSUME m_rulelist \in Seq(Rules), NEW r, m_rulelist' = Append(m_rulelist, r),
         NEW a, LetIn(a)
  PROVE  LetIn(a)'
<1>1. PICK k \in Deciding(a) : /\ m_rulelist[k].type = "INCLUSION"
                               /\ \A h \in Deciding(a) : k <= h
  BY DEF LetIn
<1>2. /\ k \in DOMAIN m_rulelist /\ k \in 1 .. Len(m_rulelist)
      /\ Matches(m_rulelist[k], a)
  BY DEF Deciding
<1>3. \A h \in 1 .. Len(m_rulelist) : m_rulelist'[h] = m_rulelist[h]
  OBVIOUS
<1>4. DOMAIN m_rulelist' = 1 .. Len(m_rulelist) + 1 /\ DOMAIN m_rulelist = 1 .. Len(m_rulelist)
  OBVIOUS
<1>5. k \in Deciding(a)'
  BY <1>2, <1>3, <1>4 DEF Deciding
<1>6. ASSUME NEW h \in Deciding(a)' PROVE k <= h
  <2>1. h \in DOMAIN m_rulelist' /\ Matches(m_rulelist'[h], a)
    BY <1>6 DEF Deciding
  <2>2. CASE h \in 1 .. Len(m_rulelist)
    <3>1. h \in Deciding(a)
      BY <2>1, <2>2, <1>3, <1>4 DEF Deciding
    <3> QED
      BY <3>1, <1>1
  <2>3. CASE h = Len(m_rulelist) + 1
    BY <2>3, <1>2
  <2> QED
    BY <2>1, <2>2, <2>3, <1>4
<1>7. m_rulelist'[k].type = "INCLUSION"
  BY <1>1, <1>2, <1>3
<1> QED
  BY <1>5, <1>6, <1>7 DEF LetIn

\* The first rule that matches decides.
LEMMA FirstDecides ==
  ASSUME m_rulelist \in Seq(Rules), NEW a, NEW k \in DOMAIN m_rulelist,
         Matches(m_rulelist[k], a),
         \A h \in DOMAIN m_rulelist : h < k => ~Matches(m_rulelist[h], a)
  PROVE  LetIn(a) <=> m_rulelist[k].type = "INCLUSION"
<1>1. DOMAIN m_rulelist \subseteq Nat
  OBVIOUS
<1>2. k \in Deciding(a) /\ Deciding(a) \subseteq DOMAIN m_rulelist
  BY DEF Deciding
<1>3. \A h \in Deciding(a) : k <= h
  BY <1>1 DEF Deciding
<1>4. ASSUME NEW h \in Deciding(a), h <= k PROVE h = k
  BY <1>1, <1>2, <1>3, <1>4
<1> QED
  BY <1>2, <1>3, <1>4 DEF LetIn

\* A rule is added.
LEMMA AddKeeps ==
  ASSUME SearchInv, NEW type \in {"INCLUSION", "EXCLUSION"}, NEW text \in RuleTexts,
         Add(type, text)
  PROVE  /\ m_rulelist' \in Seq(Rules) /\ Passed' /\ AdmittedLetIn'
         /\ search' \in Searches
         /\ search'.at = search.at /\ admitted' = admitted
<1>1. m_rulelist \in Seq(Rules) /\ search \in Searches
  BY DEF SearchInv, IPTypeOK
<1>2. search' = search \/ search' = [search EXCEPT !.moved = TRUE]
  BY DEF Add
<1>3. /\ search' \in Searches /\ search'.at = search.at /\ search'.addr = search.addr
      /\ search'.i = search.i
  BY <1>1, <1>2 DEF Searches
<1>4. admitted' = admitted
  BY DEF Add
<1>5. CASE m_rulelist' = m_rulelist
  <2>1. Passed'
    BY <1>3, <1>5 DEF SearchInv, Passed, Matches
  <2>2. AdmittedLetIn'
    BY <1>4, <1>5 DEF SearchInv, AdmittedLetIn, LetIn, Deciding, Matches
  <2> QED
    BY <1>1, <1>3, <1>4, <1>5, <2>1, <2>2
<1>6. CASE Parses(text) /\ m_rulelist' = Append(m_rulelist, Rule(type, text))
  <2>1. Rule(type, text) \in Rules
    BY <1>6 DEF Rule, Rules
  <2>2. m_rulelist' \in Seq(Rules)
    BY <1>1, <1>6, <2>1
  <2>3. \A h \in 1 .. Len(m_rulelist) : m_rulelist'[h] = m_rulelist[h]
    BY <1>1, <1>6
  <2>4. /\ DOMAIN m_rulelist' = 1 .. Len(m_rulelist) + 1
        /\ DOMAIN m_rulelist = 1 .. Len(m_rulelist)
        /\ Len(m_rulelist') = Len(m_rulelist) + 1 /\ Len(m_rulelist) \in Nat
    BY <1>1, <1>6
  <2>5. search.i \in Nat
    BY <1>1 DEF Searches
  <2>6. Passed'
    <3>1. search'.at \in {"loop", "entry"} => search'.i <= Len(m_rulelist') + 1
      BY <1>3, <2>4, <2>5 DEF SearchInv, Passed
    <3>2. search'.at = "entry" => search'.i <= Len(m_rulelist')
      BY <1>3, <2>4, <2>5 DEF SearchInv, Passed
    <3>3. ASSUME search'.at \in {"loop", "entry"}, NEW k \in DOMAIN m_rulelist',
                 k < search'.i
          PROVE  ~Matches(m_rulelist'[k], search'.addr)
      <4>1. search.i <= Len(m_rulelist) + 1
        BY <1>3, <3>3 DEF SearchInv, Passed
      <4>2. k \in 1 .. Len(m_rulelist)
        BY <4>1, <3>3, <1>3, <2>4, <2>5
      <4>3. ~Matches(m_rulelist[k], search.addr)
        BY <4>2, <3>3, <1>3, <2>4 DEF SearchInv, Passed
      <4> QED
        BY <4>2, <4>3, <2>3, <1>3
    <3>4. (\A k \in DOMAIN m_rulelist : k < search.i => ~Matches(m_rulelist[k], search.addr))'
            \/ search'.at \notin {"loop", "entry"}
      BY <3>3 DEF Matches
    <3> QED
      BY <3>1, <3>2, <3>4 DEF Passed
  <2>7. AdmittedLetIn'
    <3>1. ASSUME NEW a \in admitted PROVE LetIn(a)'
      BY <1>1, <1>6, LongerKeeps DEF SearchInv, AdmittedLetIn
    <3> QED
      BY <3>1, <1>4 DEF AdmittedLetIn
  <2> QED
    BY <1>3, <1>4, <2>2, <2>6, <2>7
<1> QED
  BY <1>5, <1>6 DEF Add, Pushed

\* Adding rules changes neither what Validate is doing nor whom it has let in.
LEMMA AddingKeeps ==
  ASSUME SearchInv, AddAllowed \/ AddBlocked
  PROVE  SearchInv' /\ search'.at = search.at
<1>1. CASE AddAllowed
  <2>1. Head(allow) \in RuleTexts /\ Tail(allow) \in Seq(RuleTexts) /\ admitted \subseteq Addresses
    BY <1>1 DEF AddAllowed, SearchInv, IPTypeOK
  <2>2. Add("INCLUSION", Head(allow)) /\ allow' = Tail(allow) /\ block' = block
    BY <1>1 DEF AddAllowed
  <2> QED
    BY <2>1, <2>2, AddKeeps DEF SearchInv, IPTypeOK
<1>2. CASE AddBlocked
  <2>1. Head(block) \in RuleTexts /\ Tail(block) \in Seq(RuleTexts) /\ admitted \subseteq Addresses
    BY <1>2 DEF AddBlocked, SearchInv, IPTypeOK
  <2>2. Add("EXCLUSION", Head(block)) /\ block' = Tail(block) /\ allow' = allow
    BY <1>2 DEF AddBlocked
  <2> QED
    BY <2>1, <2>2, AddKeeps DEF SearchInv, IPTypeOK
<1> QED
  BY <1>1, <1>2

\* The list is the same in a step of a search.
LEMMA SameList ==
  ASSUME SearchInv, UNCHANGED listVars
  PROVE  \A a : LetIn(a)' <=> LetIn(a)
BY DEF listVars, LetIn, Deciding, Matches

\* A search that returns gives the list's verdict.
LEMMA ReturnKeeps ==
  ASSUME SearchInv, NEW v \in {"OK", "DENY"}, Answer(v), v = "OK" <=> LetIn(search.addr)
  PROVE  SearchInv' /\ (search'.verdict = "OK" <=> LetIn(search.addr))
<1>1. /\ search' = [search EXCEPT !.at = "idle", !.moved = FALSE, !.verdict = v]
      /\ UNCHANGED listVars
  BY DEF Answer
<1>2. search'.at = "idle" /\ search'.verdict = v
  BY <1>1 DEF SearchInv, IPTypeOK, Searches
<1>3. \A a \in admitted' : a \in admitted \/ (a = search.addr /\ v = "OK")
  BY DEF Answer
<1>4. search.addr \in Addresses /\ admitted \subseteq Addresses
  BY DEF SearchInv, IPTypeOK, Searches
<1>5. AdmittedLetIn'
  BY <1>1, <1>3, SameList DEF SearchInv, AdmittedLetIn
<1>6. Passed'
  BY <1>2 DEF Passed
<1>7. admitted' \subseteq Addresses
  BY <1>3, <1>4
<1>8. IPTypeOK'
  BY <1>1, <1>7 DEF SearchInv, IPTypeOK, Searches, listVars
<1> QED
  BY <1>2, <1>5, <1>6, <1>8 DEF SearchInv

LEMMA SearchStep ==
  ASSUME SearchInv, [IPNext]_ipVars
  PROVE  SearchInv' /\ (Returns => (search'.verdict = "OK" <=> LetIn(search.addr)))
<1>1. /\ m_rulelist \in Seq(Rules) /\ search.i \in Nat \ {0}
      /\ Len(m_rulelist) \in Nat /\ DOMAIN m_rulelist = 1 .. Len(m_rulelist)
  BY DEF SearchInv, IPTypeOK, Searches
<1>2. CASE AddAllowed \/ AddBlocked
  <2>1. SearchInv' /\ search'.at = search.at
    BY <1>2, AddingKeeps
  <2>2. ~Returns
    BY <2>1 DEF Returns
  <2> QED
    BY <2>1, <2>2
<1>3. ASSUME NEW a \in Addresses, Validate(a)
      PROVE  SearchInv' /\ ~Returns
  <2>1. /\ search.at = "idle" /\ search' = [search EXCEPT !.at = "loop", !.addr = a, !.i = 1]
        /\ UNCHANGED listVars /\ admitted' = admitted
    BY <1>3 DEF Validate
  <2>2. IPTypeOK'
    <3>1. search \in Searches
      BY DEF SearchInv, IPTypeOK
    <3>2. [search EXCEPT !.at = "loop"] \in Searches
      BY <3>1 DEF Searches
    <3> DEFINE s == [[search EXCEPT !.at = "loop"] EXCEPT !.addr = a]
    <3>3. s \in Searches
      BY <3>2 DEF Searches
    <3>4. 1 \in Nat \ {0}
      OBVIOUS
    <3>5. \A t \in Searches, k \in Nat \ {0} : [t EXCEPT !.i = k] \in Searches
      BY DEF Searches
    <3>6. search' = [s EXCEPT !.i = 1]
      BY <2>1
    <3> HIDE DEF s
    <3>7. search' \in Searches
      BY <3>3, <3>4, <3>5, <3>6
    <3> QED
      BY <2>1, <3>7 DEF SearchInv, IPTypeOK, listVars
  <2>3. search'.at = "loop" /\ search'.i = 1 /\ m_rulelist' = m_rulelist
    BY <2>1 DEF SearchInv, IPTypeOK, Searches, listVars
  <2>4. Passed'
    BY <2>3, <1>1 DEF Passed
  <2>5. AdmittedLetIn'
    BY <2>1, SameList DEF SearchInv, AdmittedLetIn
  <2> QED
    BY <2>1, <2>2, <2>4, <2>5 DEF SearchInv, Returns
<1>4. CASE EndOfList
  <2>1. search.at = "loop" /\ search.i > Len(m_rulelist) /\ Answer("DENY")
    BY <1>4 DEF EndOfList, Default
  <2>2. Deciding(search.addr) = {}
    BY <2>1, <1>1 DEF SearchInv, Passed, Deciding
  <2>3. ~LetIn(search.addr)
    BY <2>2 DEF LetIn
  <2> QED
    BY <2>1, <2>3, ReturnKeeps
<1>5. CASE NextRule
  <2>1. /\ search.at = "loop" /\ search.i <= Len(m_rulelist)
        /\ search' = [search EXCEPT !.at = "entry"]
        /\ UNCHANGED listVars /\ admitted' = admitted
    BY <1>5 DEF NextRule
  <2>2. IPTypeOK'
    BY <2>1 DEF SearchInv, IPTypeOK, Searches, listVars
  <2>3. /\ search'.at = "entry" /\ search'.i = search.i /\ search'.addr = search.addr
        /\ m_rulelist' = m_rulelist
    BY <2>1 DEF SearchInv, IPTypeOK, Searches, listVars
  <2>4. Passed'
    BY <2>1, <2>3, <1>1 DEF SearchInv, Passed, Matches
  <2>5. AdmittedLetIn'
    BY <2>1, SameList DEF SearchInv, AdmittedLetIn
  <2> QED
    BY <2>2, <2>3, <2>4, <2>5 DEF SearchInv, Returns
<1>6. CASE Decide
  <2> DEFINE rule == m_rulelist[search.i]
             v == IF rule.type = "INCLUSION" THEN "OK" ELSE "DENY"
  <2>1. search.at = "entry" /\ Matches(rule, search.addr) /\ Answer(v)
    BY <1>6 DEF Decide
  <2>2. search.i \in DOMAIN m_rulelist
    BY <2>1, <1>1 DEF SearchInv, Passed
  <2>3. \A k \in DOMAIN m_rulelist : k < search.i => ~Matches(m_rulelist[k], search.addr)
    BY <2>1 DEF SearchInv, Passed
  <2>4. LetIn(search.addr) <=> rule.type = "INCLUSION"
    BY <2>1, <2>2, <2>3, <1>1, FirstDecides
  <2>5. v \in {"OK", "DENY"} /\ (v = "OK" <=> rule.type = "INCLUSION")
    OBVIOUS
  <2> HIDE DEF v
  <2> QED
    BY <2>1, <2>4, <2>5, ReturnKeeps
<1>7. CASE Continue
  <2>1. /\ search.at = "entry" /\ ~Matches(m_rulelist[search.i], search.addr)
        /\ search' = [search EXCEPT !.at = "loop", !.i = search.i + 1, !.moved = FALSE]
        /\ UNCHANGED listVars /\ admitted' = admitted
    BY <1>7 DEF Continue, After
  <2>2. search.i <= Len(m_rulelist)
    BY <2>1 DEF SearchInv, Passed
  <2>3. /\ search'.at = "loop" /\ search'.i = search.i + 1 /\ search'.addr = search.addr
        /\ m_rulelist' = m_rulelist
    BY <2>1 DEF SearchInv, IPTypeOK, Searches, listVars
  <2>4. IPTypeOK'
    <3>1. search \in Searches /\ search.i + 1 \in Nat \ {0}
      BY <1>1 DEF SearchInv, IPTypeOK
    <3>2. [search EXCEPT !.at = "loop"] \in Searches
      BY <3>1 DEF Searches
    <3>3. [[search EXCEPT !.at = "loop"] EXCEPT !.i = search.i + 1] \in Searches
      BY <3>1, <3>2 DEF Searches
    <3>4. search' \in Searches
      BY <2>1, <3>3 DEF Searches
    <3> QED
      BY <2>1, <3>4 DEF SearchInv, IPTypeOK, listVars
  <2>5. ASSUME NEW k \in DOMAIN m_rulelist, k < search.i + 1
        PROVE  ~Matches(m_rulelist[k], search.addr)
    <3>1. k = search.i \/ k < search.i
      BY <2>5, <1>1
    <3> QED
      BY <3>1, <2>1 DEF SearchInv, Passed
  <2>6. Passed'
    BY <2>2, <2>3, <2>5, <1>1 DEF Passed, Matches
  <2>7. AdmittedLetIn'
    BY <2>1, SameList DEF SearchInv, AdmittedLetIn
  <2> QED
    BY <2>3, <2>4, <2>6, <2>7 DEF SearchInv, Returns
<1>8. CASE ReadFreed
  <2>1. /\ search' = [search EXCEPT !.at = "lost"]
        /\ UNCHANGED listVars /\ admitted' = admitted
    BY <1>8 DEF ReadFreed
  <2>2. IPTypeOK'
    BY <2>1 DEF SearchInv, IPTypeOK, Searches, listVars
  <2>3. search'.at = "lost"
    BY <2>1 DEF SearchInv, IPTypeOK, Searches
  <2>4. AdmittedLetIn'
    BY <2>1, SameList DEF SearchInv, AdmittedLetIn
  <2> QED
    BY <2>2, <2>3, <2>4 DEF SearchInv, Passed, Returns
<1>9. CASE UNCHANGED ipVars
  <2>1. UNCHANGED listVars /\ search' = search /\ admitted' = admitted
    BY <1>9 DEF ipVars
  <2>2. IPTypeOK' /\ Passed'
    BY <2>1 DEF SearchInv, IPTypeOK, Passed, Matches, listVars
  <2>3. AdmittedLetIn'
    BY <2>1, SameList DEF SearchInv, AdmittedLetIn
  <2> QED
    BY <2>1, <2>2, <2>3 DEF SearchInv, Returns
<1> QED
  BY <1>2, <1>3, <1>4, <1>5, <1>6, <1>7, <1>8, <1>9 DEF IPNext

LEMMA SearchInvHolds == IPSpec => []SearchInv
<1>1. SearchInv /\ [IPNext]_ipVars => SearchInv'
  BY SearchStep
<1> QED
  BY <1>1, RulesInit, PTL DEF IPSpec

\* The list holds rules that were parsed, and a search is where it may be.
THEOREM RulesParsed == IPSpec => []IPTypeOK
<1>1. SearchInv => IPTypeOK
  BY DEF SearchInv
<1> QED
  BY <1>1, SearchInvHolds, PTL

\* Every verdict is that of the list as it is when the search returns, for every list
\* of rules, every client and every rule that comes in between.
THEOREM VerdictIsCurrent == IPSpec => VerdictOfList
<1> DEFINE Current == Returns => (search'.verdict = "OK" <=> LetIn(search.addr))
<1>1. SearchInv /\ [IPNext]_ipVars => [Current]_ipVars
  BY SearchStep
<1> QED
  BY <1>1, SearchInvHolds, PTL DEF IPSpec, VerdictOfList

\* A client that was let in once is let in whenever it comes back: in particular, no
\* rule of <block> ever shuts out whom a rule of <allow> has let in.
THEOREM Withdrawn == IPSpec => NeverWithdrawn
<1> DEFINE Keeps == (Returns /\ search.addr \in admitted) => search'.verdict = "OK"
<1>1. SearchInv /\ [IPNext]_ipVars => [Keeps]_ipVars
  BY SearchStep DEF SearchInv, AdmittedLetIn
<1> QED
  BY <1>1, SearchInvHolds, PTL DEF IPSpec, NeverWithdrawn

-----------------------------------------------------------------------------
(* UniqueIds: no id is handed out twice. *)

IdInv == IdTypeOK /\ NoIdTwice /\ InOnePlace

LEMMA IdInitHolds == IdInit => IdInv
BY UniqueIdsAssumption DEF IdInit, IdInv, IdTypeOK, NoIdTwice, InOnePlace, Indices, Empty

LEMMA Elements ==
  ASSUME NEW m \in Nat, NEW s \in Seq(1 .. m)
  PROVE  \A j \in DOMAIN s : s[j] # Empty
<1>1. \A j \in DOMAIN s : s[j] \in 1 .. m
  OBVIOUS
<1> QED
  BY <1>1 DEF Empty

\* Handing out an id that is in no other place keeps the ids handed out distinct.
LEMMA Given ==
  ASSUME IdInv, NEW id \in Nat, id # Empty, NEW m \in Nat, id <= m, made <= m,
         \A j \in DOMAIN handedOut : handedOut[j] # id
  PROVE  /\ Append(handedOut, id) \in Seq(1 .. m)
         /\ \A i, j \in DOMAIN Append(handedOut, id) :
                Append(handedOut, id)[i] = Append(handedOut, id)[j] => i = j
<1> DEFINE longer == Append(handedOut, id)
<1>1. handedOut \in Seq(Nat) /\ made \in Nat /\ \A i \in DOMAIN handedOut : handedOut[i] \in 1 .. made
  BY DEF IdInv, IdTypeOK
<1>2. /\ DOMAIN handedOut = 1 .. Len(handedOut) /\ Len(handedOut) \in Nat
      /\ longer \in Seq(Nat)
      /\ DOMAIN longer = 1 .. Len(handedOut) + 1
      /\ \A i \in DOMAIN handedOut : longer[i] = handedOut[i]
      /\ longer[Len(handedOut) + 1] = id
  BY <1>1
<1>3. longer \in Seq(1 .. m)
  <2>1. 1 .. made \subseteq 1 .. m /\ id \in 1 .. m
    BY <1>1 DEF Empty
  <2>2. handedOut \in Seq(1 .. m)
    BY <2>1 DEF IdInv, IdTypeOK
  <2> QED
    BY <2>1, <2>2
<1>4. \A i, j \in DOMAIN longer : longer[i] = longer[j] => i = j
  <2> SUFFICES ASSUME NEW i \in DOMAIN longer, NEW j \in DOMAIN longer,
                      longer[i] = longer[j]
               PROVE  i = j
    OBVIOUS
  <2>1. CASE i \in DOMAIN handedOut /\ j \in DOMAIN handedOut
    BY <1>2, <2>1 DEF IdInv, NoIdTwice
  <2>2. CASE ~(i \in DOMAIN handedOut /\ j \in DOMAIN handedOut)
    BY <1>2, <2>2
  <2> QED
    BY <2>1, <2>2
<1> QED
  BY <1>3, <1>4

LEMMA GetIDKeeps ==
  ASSUME IdInv, NEW i \in Indices, GetID(i) PROVE IdInv'
<1>1. m_vector[i] \in Nat /\ m_vector[i] # Empty /\ m_vector[i] <= made /\ made \in Nat
  BY DEF GetID, HasId, IdInv, IdTypeOK
<1>2. \A j \in DOMAIN handedOut : handedOut[j] # m_vector[i]
  BY DEF IdInv, InOnePlace
<1>3. handedOut' \in Seq(1 .. made) /\ NoIdTwice'
  BY <1>1, <1>2, Given DEF GetID, NoIdTwice
<1>4. m_vector' \in [Indices -> 0 .. made] /\ made' = made
  BY <1>1 DEF GetID, Taken, IdInv, IdTypeOK, Empty
<1>5. \A k \in Indices : m_vector'[k] = IF k = i THEN Empty ELSE m_vector[k]
  BY DEF GetID, Taken, IdInv, IdTypeOK
<1>6. \A j \in DOMAIN handedOut' : handedOut'[j] = m_vector[i] \/ (j \in DOMAIN handedOut /\ handedOut'[j] = handedOut[j])
  BY <1>1 DEF GetID, IdInv, IdTypeOK
<1>7. \A j \in DOMAIN handedOut' : handedOut'[j] # Empty
  BY <1>1, <1>3, Elements
<1>8. InOnePlace'
  BY <1>1, <1>5, <1>6, <1>7 DEF IdInv, InOnePlace
<1> QED
  BY <1>3, <1>4, <1>8 DEF IdInv, IdTypeOK

LEMMA GetNewIDKeeps ==
  ASSUME IdInv, GetNewID PROVE IdInv'
<1>1. made \in Nat /\ \A j \in DOMAIN handedOut : handedOut[j] \in 1 .. made
  BY DEF IdInv, IdTypeOK
<1>2. handedOut' \in Seq(1 .. made') /\ NoIdTwice'
  <2> DEFINE id == made + 1
  <2>1. /\ id \in Nat /\ id # Empty /\ made <= id
        /\ \A j \in DOMAIN handedOut : handedOut[j] # id
    BY <1>1 DEF Empty
  <2>2. made' = id /\ handedOut' = Append(handedOut, id)
    BY DEF GetNewID
  <2> HIDE DEF id
  <2>3. /\ Append(handedOut, id) \in Seq(1 .. id)
        /\ \A i, j \in DOMAIN Append(handedOut, id) :
               Append(handedOut, id)[i] = Append(handedOut, id)[j] => i = j
    BY <2>1, Given
  <2> QED
    BY <2>2, <2>3 DEF NoIdTwice
<1>3. m_vector' = m_vector /\ \A k \in Indices : m_vector'[k] = Empty
  BY DEF GetNewID
<1>4. \A j \in DOMAIN handedOut' : handedOut'[j] # Empty
  <2>1. made' \in Nat
    BY <1>1 DEF GetNewID
  <2> QED
    BY <1>2, <2>1, Elements
<1>5. InOnePlace'
  BY <1>3, <1>4 DEF InOnePlace
<1>6. m_vector' \in [Indices -> 0 .. made'] /\ made' \in Nat
  BY <1>1, <1>3 DEF GetNewID, IdInv, IdTypeOK
<1> QED
  BY <1>2, <1>5, <1>6 DEF IdInv, IdTypeOK

LEMMA RunKeeps ==
  ASSUME IdInv, Run PROVE IdInv'
<1>1. /\ made \in Nat /\ MAX_UNIQUE_IDS \in Nat /\ Indices \subseteq Nat
      /\ \A i \in Indices : i <= MAX_UNIQUE_IDS /\ i >= 1
      /\ \A i \in Indices : m_vector[i] \in 0 .. made
      /\ \A j \in DOMAIN handedOut : handedOut[j] \in 1 .. made
  BY UniqueIdsAssumption DEF IdInv, IdTypeOK, Indices
<1>2. \A i \in Indices : m_vector'[i] = IF m_vector[i] = Empty THEN made + i ELSE m_vector[i]
  BY DEF Run
<1>3. made' = made + MAX_UNIQUE_IDS /\ handedOut' = handedOut
  BY DEF Run
<1>4. m_vector' \in [Indices -> 0 .. made'] /\ made' \in Nat
  BY <1>1, <1>3 DEF Run
<1>5. handedOut' \in Seq(1 .. made')
  <2>1. 1 .. made \subseteq 1 .. made'
    BY <1>1, <1>3
  <2> QED
    BY <1>1, <1>3, <2>1 DEF IdInv, IdTypeOK
<1>6. NoIdTwice'
  BY <1>3 DEF IdInv, NoIdTwice
<1>7. InOnePlace'
  BY <1>1, <1>2, <1>3 DEF IdInv, InOnePlace, Empty
<1> QED
  BY <1>4, <1>5, <1>6, <1>7 DEF IdInv, IdTypeOK

LEMMA IdInvHolds == IdSpec => []IdInv
<1>1. IdInv /\ [IdNext]_idVars => IdInv'
  <2>1. IdInv /\ UNCHANGED idVars => IdInv'
    BY DEF IdInv, IdTypeOK, NoIdTwice, InOnePlace, idVars
  <2> QED
    BY <2>1, GetIDKeeps, GetNewIDKeeps, RunKeeps DEF IdNext
<1> QED
  BY <1>1, IdInitHolds, PTL DEF IdSpec

\* The pool holds ids that were made, and only such ids are handed out.
THEOREM IdsTypeCorrect == IdSpec => []IdTypeOK
<1>1. IdInv => IdTypeOK
  BY DEF IdInv
<1> QED
  BY <1>1, IdInvHolds, PTL

\* No id is handed out twice, for a pool of any size and any number of callers.
THEOREM UniqueGiven == IdSpec => []NoIdTwice
<1>1. IdInv => NoIdTwice
  BY DEF IdInv
<1> QED
  BY <1>1, IdInvHolds, PTL

-----------------------------------------------------------------------------
(* ServerIPC: what a caller reads is what its peer sent, and the object loses *)
(* no socket.                                                                 *)

\* The part of ServerIPC!TypeOK that the invariants rest on.
IPCTyped ==
    /\ opened \in Nat
    /\ kernel \subseteq 1 .. opened
    /\ m_buffer \in Seq(Nat) /\ wire \in Seq(Nat) /\ given \in Seq(Nat)
    /\ pieces \in Nat

\* The buffer and the wire are the first pieces given, and all of them as long as the
\* peer may send.
IPCPieces ==
    /\ Len(m_buffer) + Len(wire) <= Len(given)
    /\ closed = "no" => Len(m_buffer) + Len(wire) = Len(given)
    /\ \A i \in 1 .. Len(m_buffer) : m_buffer[i] = given[i]
    /\ \A i \in 1 .. Len(wire) : wire[i] = given[Len(m_buffer) + i]

IPCInv == IPCTyped /\ NoSocketLost /\ IPCPieces

LEMMA IPCInitHolds == IPCInit => IPCInv
BY DEF IPCInit, IPCInv, IPCTyped, NoSocketLost, IPCPieces

\* Receiving takes pieces from the front of the wire to the end of the buffer.
LEMMA Moved ==
  ASSUME NEW b \in Seq(Nat), NEW w \in Seq(Nat), NEW n \in 1 .. Len(w)
  PROVE  /\ b \o SubSeq(w, 1, n) \in Seq(Nat)
         /\ SubSeq(w, n + 1, Len(w)) \in Seq(Nat)
         /\ Len(b \o SubSeq(w, 1, n)) = Len(b) + n
         /\ Len(SubSeq(w, n + 1, Len(w))) = Len(w) - n
         /\ \A i \in 1 .. Len(b) + n :
               (b \o SubSeq(w, 1, n))[i] = IF i <= Len(b) THEN b[i] ELSE w[i - Len(b)]
         /\ \A i \in 1 .. Len(w) - n : SubSeq(w, n + 1, Len(w))[i] = w[n + i]
<1>1. /\ SubSeq(w, 1, n) \in Seq(Nat) /\ Len(SubSeq(w, 1, n)) = n
      /\ \A i \in 1 .. n : SubSeq(w, 1, n)[i] = w[i]
  OBVIOUS
<1>2. /\ SubSeq(w, n + 1, Len(w)) \in Seq(Nat)
      /\ Len(SubSeq(w, n + 1, Len(w))) = Len(w) - n
      /\ \A i \in 1 .. Len(w) - n : SubSeq(w, n + 1, Len(w))[i] = w[n + i]
  OBVIOUS
<1> DEFINE front == SubSeq(w, 1, n)
<1>3. /\ b \o front \in Seq(Nat) /\ Len(b \o front) = Len(b) + n
      /\ \A i \in 1 .. Len(b) + n :
            (b \o front)[i] = IF i <= Len(b) THEN b[i] ELSE front[i - Len(b)]
  BY <1>1, ConcatProperties
<1>4. ASSUME NEW i \in 1 .. Len(b) + n
      PROVE  (b \o front)[i] = IF i <= Len(b) THEN b[i] ELSE w[i - Len(b)]
  BY <1>1, <1>3
<1> QED
  BY <1>2, <1>3, <1>4

LEMMA ReceiveKeeps ==
  ASSUME IPCInv, NEW n \in 1 .. Len(wire), Receive(n) PROVE IPCInv'
<1> DEFINE b == m_buffer \o SubSeq(wire, 1, n)
           w == SubSeq(wire, n + 1, Len(wire))
<1>1. /\ m_buffer' = b /\ wire' = w
      /\ UNCHANGED <<m_Socketfd, opened, kernel, closed, given, pieces>>
  BY DEF Receive
<1>2. m_buffer \in Seq(Nat) /\ wire \in Seq(Nat) /\ given \in Seq(Nat)
  BY DEF IPCInv, IPCTyped
<1>3. /\ b \in Seq(Nat) /\ w \in Seq(Nat)
      /\ Len(b) = Len(m_buffer) + n /\ Len(w) = Len(wire) - n
      /\ \A i \in 1 .. Len(m_buffer) + n :
            b[i] = IF i <= Len(m_buffer) THEN m_buffer[i] ELSE wire[i - Len(m_buffer)]
      /\ \A i \in 1 .. Len(wire) - n : w[i] = wire[n + i]
  <2>1. b \in Seq(Nat) /\ w \in Seq(Nat)
    BY <1>2, Moved
  <2>2. Len(b) = Len(m_buffer) + n /\ Len(w) = Len(wire) - n
    BY <1>2, Moved
  <2>3. \A i \in 1 .. Len(m_buffer) + n :
            b[i] = IF i <= Len(m_buffer) THEN m_buffer[i] ELSE wire[i - Len(m_buffer)]
    BY <1>2, Moved
  <2>4. \A i \in 1 .. Len(wire) - n : w[i] = wire[n + i]
    BY <1>2, Moved
  <2> QED
    BY <2>1, <2>2, <2>3, <2>4
<1> HIDE DEF b, w
<1>4. \A i \in 1 .. Len(b) : b[i] = given[i]
  <2> SUFFICES ASSUME NEW i \in 1 .. Len(b) PROVE b[i] = given[i]
    OBVIOUS
  <2>1. CASE i <= Len(m_buffer)
    <3>1. i \in 1 .. Len(m_buffer) + n /\ i \in 1 .. Len(m_buffer)
      <4>1. i \in Nat /\ i >= 1 /\ i <= Len(m_buffer) + n
        BY <1>2, <1>3
      <4> QED
        BY <2>1, <4>1
    <3>2. b[i] = m_buffer[i]
      BY <1>3, <2>1, <3>1
    <3> QED
      BY <3>1, <3>2 DEF IPCInv, IPCPieces
  <2>2. CASE ~(i <= Len(m_buffer))
    <3> DEFINE k == i - Len(m_buffer)
    <3>1. k \in 1 .. Len(wire)
      <4>1. Len(b) = Len(m_buffer) + n /\ Len(w) = Len(wire) - n
        BY <1>3
      <4>2. w \in Seq(Nat)
        BY <1>3
      <4>3. Len(m_buffer) \in Nat /\ Len(wire) \in Nat /\ Len(w) \in Nat
        BY <1>2, <4>2
      <4> QED
        BY <2>2, <4>1, <4>3
    <3>2. Len(m_buffer) + k = i
      BY <1>2
    <3>3. b[i] = wire[k]
      BY <1>2, <1>3, <2>2
    <3> HIDE DEF k
    <3>4. wire[k] = given[Len(m_buffer) + k]
      BY <3>1 DEF IPCInv, IPCPieces
    <3> QED
      BY <3>2, <3>3, <3>4
  <2> QED
    BY <2>1, <2>2
<1>5. \A i \in 1 .. Len(w) : w[i] = given[Len(b) + i]
  <2> SUFFICES ASSUME NEW i \in 1 .. Len(w) PROVE w[i] = given[Len(b) + i]
    OBVIOUS
  <2>1. w[i] = wire[n + i] /\ n + i \in 1 .. Len(wire)
    <3>1. Len(w) = Len(wire) - n /\ Len(wire) \in Nat /\ n \in Nat
      BY <1>2, <1>3
    <3>2. i \in 1 .. Len(wire) - n
      BY <3>1
    <3> QED
      BY <1>3, <3>1, <3>2
  <2>2. wire[n + i] = given[Len(m_buffer) + (n + i)]
    BY <2>1 DEF IPCInv, IPCPieces
  <2> QED
    BY <1>2, <1>3, <2>1, <2>2
<1>6. Len(b) + Len(w) = Len(m_buffer) + Len(wire)
  BY <1>2, <1>3
<1>7. IPCPieces'
  BY <1>1, <1>4, <1>5, <1>6 DEF IPCInv, IPCPieces
<1> QED
  BY <1>1, <1>3, <1>7 DEF IPCInv, IPCTyped, NoSocketLost

LEMMA PeerSendsKeeps == ASSUME IPCInv, PeerSends PROVE IPCInv'
<1> DEFINE w == Append(wire, pieces + 1)
           g == Append(given, pieces + 1)
<1>1. /\ wire' = w /\ given' = g /\ pieces' = pieces + 1 /\ closed = "no"
      /\ UNCHANGED <<m_Socketfd, m_buffer, opened, kernel, closed>>
  BY DEF PeerSends, object
<1>2. m_buffer \in Seq(Nat) /\ wire \in Seq(Nat) /\ given \in Seq(Nat) /\ pieces \in Nat
  BY DEF IPCInv, IPCTyped
<1>3. /\ w \in Seq(Nat) /\ Len(w) = Len(wire) + 1 /\ w[Len(wire) + 1] = pieces + 1
      /\ \A i \in 1 .. Len(wire) : w[i] = wire[i]
  BY <1>2
<1>4. /\ g \in Seq(Nat) /\ Len(g) = Len(given) + 1 /\ g[Len(given) + 1] = pieces + 1
      /\ \A i \in 1 .. Len(given) : g[i] = given[i]
  BY <1>2
<1>5. Len(m_buffer) + Len(wire) = Len(given)
  BY <1>1 DEF IPCInv, IPCPieces
<1> HIDE DEF w, g
<1>6. \A i \in 1 .. Len(m_buffer) : m_buffer[i] = g[i]
  BY <1>2, <1>4, <1>5 DEF IPCInv, IPCPieces
<1>7. \A i \in 1 .. Len(w) : w[i] = g[Len(m_buffer) + i]
  <2> SUFFICES ASSUME NEW i \in 1 .. Len(w) PROVE w[i] = g[Len(m_buffer) + i]
    OBVIOUS
  <2>1. CASE i = Len(wire) + 1
    BY <1>2, <1>3, <1>4, <1>5, <2>1
  <2>2. CASE i \in 1 .. Len(wire)
    <3>1. Len(m_buffer) + i \in 1 .. Len(given)
      BY <1>2, <1>5, <2>2
    <3> QED
      BY <1>3, <1>4, <2>2, <3>1 DEF IPCInv, IPCPieces
  <2> QED
    BY <1>2, <1>3, <2>1, <2>2
<1>8. IPCPieces'
  BY <1>1, <1>2, <1>3, <1>4, <1>5, <1>6, <1>7 DEF IPCPieces
<1> QED
  BY <1>1, <1>2, <1>3, <1>4, <1>8 DEF IPCInv, IPCTyped, NoSocketLost

LEMMA IPCNextKeeps == ASSUME IPCInv, [IPCNext]_ipcVars PROVE IPCInv'
<1>1. CASE Close
  BY <1>1 DEF Close, Closed, AfterClose, IPCInv, IPCTyped, NoSocketLost, IPCPieces
<1>2. ASSUME NEW o \in Outcomes, Open(o) PROVE IPCInv'
  <2>1. /\ m_buffer' = <<>> /\ wire' = <<>> /\ given' = <<>> /\ pieces' = pieces
    BY <1>2 DEF Open, AfterClose
  <2>2. IPCPieces'
    BY <2>1 DEF IPCPieces
  <2>3. opened' \in Nat /\ kernel' \subseteq 1 .. opened' /\ NoSocketLost'
    <3>1. /\ opened \in Nat /\ Closed \subseteq 1 .. opened /\ Closed = {}
      BY DEF Closed, IPCInv, IPCTyped, NoSocketLost
    <3>2. CASE /\ opened' = opened + 1 /\ m_Socketfd' = opened + 1
               /\ kernel' = Closed \cup {opened + 1}
      <4>1. kernel' = {opened + 1} /\ opened + 1 \in 1 .. opened + 1
        BY <3>1, <3>2
      <4> QED
        BY <3>1, <3>2, <4>1 DEF NoSocketLost
    <3>3. CASE kernel' = Closed /\ UNCHANGED opened
      BY <3>1, <3>3 DEF NoSocketLost
    <3> QED
      BY <1>2, <3>2, <3>3 DEF Open
  <2> QED
    BY <2>1, <2>2, <2>3 DEF IPCInv, IPCTyped
<1>3. CASE Reset
  BY <1>3 DEF Reset, IPCInv, IPCTyped, NoSocketLost, IPCPieces
<1>4. CASE PeerSends
  BY <1>4, PeerSendsKeeps
<1>5. CASE PeerCloses
  <2>1. /\ wire' = wire \/ wire' = <<>>
        /\ closed' # "no" /\ UNCHANGED <<m_Socketfd, m_buffer, opened, kernel, given, pieces>>
    BY <1>5 DEF PeerCloses, object
  <2>2. m_buffer \in Seq(Nat) /\ wire \in Seq(Nat) /\ given \in Seq(Nat)
    BY DEF IPCInv, IPCTyped
  <2>3. CASE wire' = wire
    BY <2>1, <2>3 DEF IPCInv, IPCTyped, NoSocketLost, IPCPieces
  <2>4. CASE wire' = <<>>
    <3>1. Len(m_buffer) + Len(wire') <= Len(given) /\ Len(wire') = 0
      BY <2>2, <2>4 DEF IPCInv, IPCPieces
    <3>2. IPCPieces'
      BY <2>1, <2>4, <3>1 DEF IPCInv, IPCPieces
    <3>3. wire' \in Seq(Nat)
      BY <2>4
    <3> QED
      BY <2>1, <3>2, <3>3 DEF IPCInv, IPCTyped, NoSocketLost
  <2> QED
    BY <2>1, <2>3, <2>4
<1>6. ASSUME NEW n \in 1 .. Len(wire), Receive(n) PROVE IPCInv'
  BY <1>6, ReceiveKeeps
<1>7. CASE UNCHANGED <<object, opened, kernel, net>>
  BY <1>7 DEF object, net, IPCInv, IPCTyped, NoSocketLost, IPCPieces
<1>8. CASE Check
  <2>1. (\E n \in 1 .. Len(wire) : Receive(n)) \/ UNCHANGED <<object, opened, kernel, net>>
    BY <1>8 DEF Check, CheckTimesOut, NotReady, WaitMore, PeerHasClosed, NotConnected, Return
  <2> QED
    BY <1>6, <1>7, <2>1
<1>9. CASE SendEnds \/ SendFails
  BY <1>7, <1>9 DEF SendEnds, SendFails
<1>10. CASE \E n \in 0 .. MaxSize : StartSend(n) \/ SendSome(n)
  BY <1>7, <1>10 DEF StartSend, SendSome
<1>11. CASE \E d \in -1 .. MaxDelay : StartCheck(d)
  BY <1>7, <1>11 DEF StartCheck
<1>12. CASE UNCHANGED ipcVars
  BY <1>7, <1>12 DEF ipcVars, net
<1> QED
  BY <1>1, <1>2, <1>3, <1>4, <1>5, <1>8, <1>9, <1>10, <1>11, <1>12 DEF IPCNext

LEMMA IPCInvHolds == IPCSpec => []IPCInv
<1>1. IPCInit => IPCInv
  BY IPCInitHolds
<1>2. IPCInv /\ [IPCNext]_ipcVars => IPCInv'
  BY IPCNextKeeps
<1> QED
  BY <1>1, <1>2, PTL DEF IPCSpec

\* However Open fails, the object knows every socket it has (cServerIPC::Open).
THEOREM SocketsKnown == IPCSpec => []NoSocketLost
<1>1. IPCInv => NoSocketLost
  BY DEF IPCInv
<1> QED
  BY <1>1, IPCInvHolds, PTL

\* The caller reads what the peer sent on this connection since Reset, in order and
\* from the first piece on (cServerIPC::CheckForResponse).
THEOREM ReadsInOrder == IPCSpec => []ResponseInOrder
<1>1. IPCInv => ResponseInOrder
  <2> SUFFICES ASSUME IPCInv PROVE ResponseInOrder
    OBVIOUS
  <2> DEFINE s == m_buffer \o wire
  <2>1. m_buffer \in Seq(Nat) /\ wire \in Seq(Nat) /\ given \in Seq(Nat)
    BY DEF IPCInv, IPCTyped
  <2>2. /\ s \in Seq(Nat) /\ Len(s) = Len(m_buffer) + Len(wire)
        /\ \A i \in 1 .. Len(s) :
              s[i] = IF i <= Len(m_buffer) THEN m_buffer[i] ELSE wire[i - Len(m_buffer)]
    BY <2>1
  <2> HIDE DEF s
  <2>3. \A i \in 1 .. Len(s) : s[i] = given[i]
    <3> SUFFICES ASSUME NEW i \in 1 .. Len(s) PROVE s[i] = given[i]
      OBVIOUS
    <3>1. CASE i <= Len(m_buffer)
      <4>1. i \in 1 .. Len(m_buffer) /\ s[i] = m_buffer[i]
        BY <2>1, <2>2, <3>1
      <4> QED
        BY <4>1 DEF IPCInv, IPCPieces
    <3>2. CASE ~(i <= Len(m_buffer))
      <4>1. i - Len(m_buffer) \in 1 .. Len(wire) /\ Len(m_buffer) + (i - Len(m_buffer)) = i
        BY <2>1, <2>2, <3>2
      <4> QED
        BY <2>2, <3>2, <4>1 DEF IPCInv, IPCPieces
    <3> QED
      BY <3>1, <3>2
  <2>4. Len(s) <= Len(given)
    BY <2>2 DEF IPCInv, IPCPieces
  <2>5. SubSeq(s, 1, Len(s)) = SubSeq(given, 1, Len(s))
    BY <2>1, <2>2, <2>3, <2>4
  <2> QED
    BY <2>4, <2>5 DEF ResponseInOrder, s
<1> QED
  BY <1>1, IPCInvHolds, PTL

-----------------------------------------------------------------------------
(* The types of ServerIPC, and the parts side by side. *)

\* A call of the caller's, as it is made or as it ended.
Operations == {"none", "Close", "Open", "Reset", "Send", "sent", "CheckForResponse", "checked"}
Results == Outcomes \cup {"SENDDATA_FAILED", "TIMEDOUT", "NOT_READY", "CONNECTION_CLOSED"}
Calls == [op : Operations, size : Nat, status : Nat, delay : Int, end : Nat, anything : Int,
          rc : Results]
CallTyped(c) == c \in Calls /\ c.status <= c.size /\ c.end <= MaxDelay

\* What ServerIPC!TypeOK rests on, beside the invariants above.
IPCBounded ==
    /\ opened \in 0 .. MaxOpens /\ m_Socketfd \in -1 .. MaxOpens
    /\ Len(given) <= pieces /\ pieces <= MaxPieces
    /\ CallTyped(call)

LEMMA IdleTyped ==
  ASSUME NEW op \in Operations, NEW rc \in Results
  PROVE  CallTyped(Idle(op, rc))
<1>1. MaxDelay \in Nat
  BY ServerIPCAssumption
<1> QED
  BY <1>1 DEF CallTyped, Calls, Idle

\* A field of a call that is set to what it can be.
LEMMA SetField ==
  ASSUME NEW c, CallTyped(c)
  PROVE  /\ \A n \in Nat : n >= c.status => CallTyped([c EXCEPT !.size = n])
         /\ \A n \in Nat : n <= c.size => CallTyped([c EXCEPT !.status = n])
         /\ \A d \in Int : CallTyped([c EXCEPT !.delay = d])
         /\ \A n \in Int : CallTyped([c EXCEPT !.anything = n])
         /\ \A e \in Nat : e <= MaxDelay => CallTyped([c EXCEPT !.end = e])
<1>0. c \in Calls /\ c.status <= c.size /\ c.end <= MaxDelay
  BY DEF CallTyped
<1>1. ASSUME NEW n \in Nat, n >= c.status PROVE CallTyped([c EXCEPT !.size = n])
  BY <1>0, <1>1 DEF CallTyped, Calls
<1>2. ASSUME NEW n \in Nat, n <= c.size PROVE CallTyped([c EXCEPT !.status = n])
  BY <1>0, <1>2 DEF CallTyped, Calls
<1>3. ASSUME NEW d \in Int PROVE CallTyped([c EXCEPT !.delay = d])
  BY <1>0 DEF CallTyped, Calls
<1>4. ASSUME NEW n \in Int PROVE CallTyped([c EXCEPT !.anything = n])
  BY <1>0 DEF CallTyped, Calls
<1>5. ASSUME NEW e \in Nat, e <= MaxDelay PROVE CallTyped([c EXCEPT !.end = e])
  BY <1>0, <1>5 DEF CallTyped, Calls
<1> QED
  BY <1>1, <1>2, <1>3, <1>4, <1>5

LEMMA LaterTyped ==
  ASSUME CallTyped(call), NEW end \in Later
  PROVE  end \in Nat /\ end <= MaxDelay
<1>1. call.end \in Nat /\ call.end <= MaxDelay /\ MaxDelay \in Nat
  BY ServerIPCAssumption DEF CallTyped, Calls
<1> QED
  BY <1>1 DEF Later

\* A call only ends, goes on in time, or has sent more of what it has to send.
LEMMA CallStep ==
  ASSUME IPCBounded, wire \in Seq(Nat), [IPCNext]_ipcVars
  PROVE  CallTyped(call')
<1>0. CallTyped(call) /\ call \in Calls
  BY DEF IPCBounded, CallTyped
<1>1. /\ CallTyped(Idle("Close", "SUCCESS")) /\ CallTyped(Idle("Reset", "SUCCESS"))
      /\ CallTyped(Idle("Send", "SUCCESS")) /\ CallTyped(Idle("sent", "SUCCESS"))
      /\ CallTyped(Idle("sent", "SENDDATA_FAILED"))
      /\ CallTyped(Idle("CheckForResponse", "SUCCESS"))
  BY IdleTyped DEF Operations, Results, Outcomes
<1>2. CASE Close
  BY <1>1, <1>2 DEF Close
<1>3. CASE Reset
  BY <1>1, <1>3 DEF Reset
<1>4. ASSUME NEW o \in Outcomes, Open(o) PROVE CallTyped(call')
  <2>1. "Open" \in Operations /\ o \in Results /\ call' = Idle("Open", o)
    BY <1>4 DEF Open, Operations, Results
  <2> QED
    BY <2>1, IdleTyped
<1>5. ASSUME NEW n \in 0 .. MaxSize, StartSend(n) PROVE CallTyped(call')
  <2> DEFINE c == Idle("Send", "SUCCESS")
  <2>1. n \in Nat /\ c.status = 0 /\ CallTyped(c)
    BY <1>1, ServerIPCAssumption DEF Idle
  <2>2. call' = [c EXCEPT !.size = n]
    BY <1>5 DEF StartSend
  <2> HIDE DEF c
  <2> QED
    BY <2>1, <2>2, SetField
<1>6. ASSUME NEW n, SendSome(n) PROVE CallTyped(call')
  <2>1. call.size \in Nat /\ call.status \in Nat /\ n \in 1 .. call.size - call.status
    BY <1>0, <1>6 DEF SendSome, Left, Calls
  <2>2. call.status + n \in Nat /\ call.status + n <= call.size
    BY <2>1
  <2>3. call' = [call EXCEPT !.status = call.status + n]
    BY <1>6 DEF SendSome
  <2> QED
    BY <1>0, <2>2, <2>3, SetField
<1>7. CASE SendEnds \/ SendFails
  BY <1>1, <1>7 DEF SendEnds, SendFails
<1>8. ASSUME NEW d \in -1 .. MaxDelay, StartCheck(d) PROVE CallTyped(call')
  <2> DEFINE c == Idle("CheckForResponse", "SUCCESS")
  <2>1. d \in Int /\ call' = [c EXCEPT !.delay = d]
    BY <1>8, ServerIPCAssumption DEF StartCheck
  <2> QED
    BY <1>1, <2>1, SetField
<1>9. ASSUME NEW rc \in Results, Return(rc) PROVE CallTyped(call')
  <2> DEFINE c == [Idle("checked", rc) EXCEPT !.delay = call.delay]
  <2>1. call.delay \in Int /\ call.anything \in Int /\ "checked" \in Operations
    BY <1>0 DEF Calls, Operations
  <2>2. CallTyped(c)
    BY <2>1, IdleTyped, SetField
  <2>3. call' = [c EXCEPT !.anything = call.anything]
    BY <1>9 DEF Return
  <2> HIDE DEF c
  <2> QED
    BY <2>1, <2>2, <2>3, SetField
<1>10. ASSUME NEW n \in 1 .. Len(wire), Receive(n) PROVE CallTyped(call')
  <2>1. PICK end \in Later : call' = [call EXCEPT !.anything = n, !.end = end]
    BY <1>10 DEF Receive
  <2> DEFINE c == [call EXCEPT !.anything = n]
  <2>2. end \in Nat /\ end <= MaxDelay /\ n \in Int
    BY <1>0, LaterTyped
  <2>3. CallTyped(c)
    BY <1>0, <2>2, SetField
  <2>4. call' = [c EXCEPT !.end = end]
    BY <2>1
  <2> HIDE DEF c
  <2> QED
    BY <2>2, <2>3, <2>4, SetField
<1>11. CASE WaitMore
  <2>1. PICK end \in Later : call' = [call EXCEPT !.end = end]
    BY <1>11 DEF WaitMore, Waits
  <2>2. end \in Nat /\ end <= MaxDelay
    BY <1>0, LaterTyped
  <2> QED
    BY <1>0, <2>1, <2>2, SetField
<1>12. CASE CheckTimesOut \/ NotReady \/ PeerHasClosed \/ NotConnected
  <2>1. Return("SUCCESS") \/ Return("TIMEDOUT") \/ Return("NOT_READY")
        \/ Return("CONNECTION_CLOSED")
    BY <1>12 DEF CheckTimesOut, NotReady, PeerHasClosed, NotConnected
  <2> QED
    BY <1>9, <2>1 DEF Results, Outcomes
<1>13. CASE UNCHANGED call
  BY <1>0, <1>13
<1> QED
  BY <1>2, <1>3, <1>4, <1>5, <1>6, <1>7, <1>8, <1>10, <1>11, <1>12, <1>13
     DEF IPCNext, Check, PeerSends, PeerCloses, ipcVars

\* A socket is opened only while the kernel gives one.
LEMMA SocketStep ==
  ASSUME IPCBounded, [IPCNext]_ipcVars
  PROVE  opened' \in 0 .. MaxOpens /\ m_Socketfd' \in -1 .. MaxOpens
<1>0. /\ opened \in 0 .. MaxOpens /\ m_Socketfd \in -1 .. MaxOpens /\ MaxOpens \in Nat
  BY ServerIPCAssumption DEF IPCBounded
<1>1. CASE Close
  BY <1>0, <1>1 DEF Close
<1>2. ASSUME NEW o, Open(o) PROVE opened' \in 0 .. MaxOpens /\ m_Socketfd' \in -1 .. MaxOpens
  BY <1>0, <1>2 DEF Open
<1>3. CASE UNCHANGED <<m_Socketfd, opened>>
  BY <1>0, <1>3
<1> QED
  BY <1>1, <1>2, <1>3
     DEF IPCNext, Reset, StartSend, SendSome, SendEnds, SendFails, StartCheck, Check, CheckTimesOut,
         Receive, NotReady, WaitMore, PeerHasClosed, NotConnected, Return, PeerSends, PeerCloses,
         ipcVars, object

\* Nothing is given that the peer did not send.
LEMMA GivenStep ==
  ASSUME IPCInv, IPCBounded, [IPCNext]_ipcVars
  PROVE  Len(given') <= pieces' /\ pieces' <= MaxPieces
<1>0. /\ given \in Seq(Nat) /\ wire \in Seq(Nat) /\ m_buffer \in Seq(Nat)
      /\ pieces \in Nat /\ MaxPieces \in Nat /\ pieces <= MaxPieces /\ Len(given) <= pieces
      /\ Len(m_buffer) + Len(wire) <= Len(given)
  BY ServerIPCAssumption DEF IPCInv, IPCTyped, IPCPieces, IPCBounded
<1>1. CASE given' = <<>> /\ UNCHANGED pieces
  BY <1>0, <1>1
<1>2. CASE Reset
  <2>1. given' = wire /\ UNCHANGED pieces
    BY <1>2 DEF Reset
  <2> QED
    BY <1>0, <2>1
<1>3. CASE PeerSends
  <2>1. given' = Append(given, pieces + 1) /\ pieces' = pieces + 1 /\ pieces < MaxPieces
    BY <1>3 DEF PeerSends
  <2> QED
    BY <1>0, <2>1
<1>4. CASE UNCHANGED <<given, pieces>>
  BY <1>0, <1>4
<1> QED
  BY <1>1, <1>2, <1>3, <1>4
     DEF IPCNext, Close, Open, StartSend, SendSome, SendEnds, SendFails, StartCheck, Check,
         CheckTimesOut, Receive, NotReady, WaitMore, PeerHasClosed, NotConnected, Return,
         PeerCloses, ipcVars, net

LEMMA Bounded == IPCSpec => []IPCBounded
<1>1. IPCInit => IPCBounded
  <2> SUFFICES ASSUME IPCInit PROVE IPCBounded
    OBVIOUS
  <2>1. CallTyped(call)
    BY IdleTyped DEF IPCInit, Operations, Results, Outcomes
  <2> QED
    BY <2>1, ServerIPCAssumption DEF IPCInit, IPCBounded
<1>2. IPCInv /\ IPCBounded /\ [IPCNext]_ipcVars => IPCBounded'
  <2> SUFFICES ASSUME IPCInv, IPCBounded, [IPCNext]_ipcVars PROVE IPCBounded'
    OBVIOUS
  <2>1. wire \in Seq(Nat)
    BY DEF IPCInv, IPCTyped
  <2>2. CallTyped(call')
    BY <2>1, CallStep
  <2> QED
    BY <2>2, SocketStep, GivenStep DEF IPCBounded, CallTyped
<1> QED
  BY <1>1, <1>2, IPCInvHolds, PTL DEF IPCSpec

\* The object, the call and what the peer gave keep their types and bounds.
THEOREM IPCTypeCorrect == IPCSpec => []IPCTypeOK
<1>1. IPCInv /\ IPCBounded => IPCTypeOK
  <2> SUFFICES ASSUME IPCInv, IPCBounded PROVE IPCTypeOK
    OBVIOUS
  <2>1. call.status \in 0 .. call.size /\ call.end \in 0 .. MaxDelay
    BY ServerIPCAssumption DEF IPCBounded, CallTyped, Calls
  <2> QED
    BY <2>1 DEF IPCInv, IPCTyped, IPCBounded, IPCTypeOK
<1> QED
  BY <1>1, IPCInvHolds, Bounded, PTL

\* Side by side each part does what it does alone: a step of another part is one in
\* which it rests.
THEOREM EachAlone == Spec => IPSpec /\ BufferSpec /\ IdSpec /\ IPCSpec
<1>1. Init => IPInit /\ BufferInit /\ IdInit /\ IPCInit
  BY DEF Init
<1>2. [Next]_vars => /\ [IPNext]_ipVars /\ [BufferNext]_buffer /\ [IdNext]_idVars
                     /\ [IPCNext]_ipcVars
  BY DEF Next, vars, AccessPart, BufferPart, IdPart, IPCPart
<1> QED
  BY <1>1, <1>2, PTL DEF Spec, IPSpec, BufferSpec, IdSpec, IPCSpec

\* Every part keeps its types in the composition.
THEOREM PartsTypeCorrect == Spec => []TypeOK
<1>1. IPTypeOK /\ BufferTypeOK /\ IdTypeOK /\ IPCTypeOK => TypeOK
  BY DEF TypeOK
<1> QED
  BY <1>1, EachAlone, RulesParsed, TypeCorrect, IdsTypeCorrect, IPCTypeCorrect, PTL
=============================================================================
