------------------------------ MODULE UniqueIds ------------------------------
(***************************************************************************)
(* Handing out unique ids (cUniqueIDProvider, uniqueidprovider.cpp): a     *)
(* pool of ids made beforehand, from which any thread may take one and     *)
(* which the provider's own thread fills up again.  Both hold the lock for *)
(* their whole pass over the pool, so each is one step.                    *)
(*                                                                         *)
(* The ids come from the system's UUID library, which never makes the same *)
(* one twice; here they are numbers, in the order they are made.           *)
(***************************************************************************)
EXTENDS Integers, Sequences

CONSTANTS
    MAX_UNIQUE_IDS,   \* the size of the pool
    MaxHandedOut          \* bound: how many ids are asked for

ASSUME UniqueIdsAssumption == MAX_UNIQUE_IDS \in Nat /\ MaxHandedOut \in Nat

VARIABLES
    m_vector,   \* the pool: an id, or Empty, at each index
    made,       \* every id made so far is at most this
    handedOut       \* the ids handed out, in order

idVars == <<m_vector, made, handedOut>>

\* The empty string in place of an id.
Empty == 0

Indices == 1 .. MAX_UNIQUE_IDS

\* The constructor makes the pool's first ids.
IdInit ==
    /\ m_vector = [i \in Indices |-> i]
    /\ made = MAX_UNIQUE_IDS
    /\ handedOut = <<>>

Taken_Kept(i) == m_vector

\* The pool after the id at i was taken.
Taken(i) == [m_vector EXCEPT ![i] = Empty]

\* GetID's test of an entry.
HasId(i) == m_vector[i] # Empty

\* cUniqueIDProvider::GetID: the first id in the pool, ...
GetID(i) ==
    /\ Len(handedOut) < MaxHandedOut
    /\ HasId(i)
    /\ \A j \in Indices : j < i => ~HasId(j)
    /\ handedOut' = Append(handedOut, m_vector[i])
    /\ m_vector' = Taken(i)
    /\ UNCHANGED made

\* ... or a new one if there is none.
GetNewID ==
    /\ Len(handedOut) < MaxHandedOut
    /\ \A i \in Indices : m_vector[i] = Empty
    /\ made' = made + 1
    /\ handedOut' = Append(handedOut, made + 1)
    /\ UNCHANGED m_vector

\* One pass of cUniqueIDProvider::Run: new ids where there are none.
Run ==
    /\ \E i \in Indices : m_vector[i] = Empty
    /\ m_vector' = [i \in Indices |->
                       IF m_vector[i] = Empty THEN made + i ELSE m_vector[i]]
    /\ made' = made + MAX_UNIQUE_IDS
    /\ UNCHANGED handedOut

IdNext == (\E i \in Indices : GetID(i)) \/ GetNewID \/ Run

IdSpec == IdInit /\ [][IdNext]_idVars

-----------------------------------------------------------------------------
IdTypeOK ==
    /\ m_vector \in [Indices -> 0 .. made]
    /\ made \in Nat
    /\ handedOut \in Seq(1 .. made)

\* No two callers get the same id, however their calls fall between the passes
\* that fill the pool, and when the pool is empty (uniqueidprovider.cpp:118).
NoIdTwice == \A i, j \in DOMAIN handedOut : handedOut[i] = handedOut[j] => i = j

\* Why: an id is in one place of the pool, or was handed out, never both.
InOnePlace ==
    /\ \A i, j \in Indices : m_vector[i] = m_vector[j] /\ m_vector[i] # Empty => i = j
    /\ \A i \in Indices, j \in DOMAIN handedOut : m_vector[i] # handedOut[j]
=============================================================================
