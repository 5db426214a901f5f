---------------------------- MODULE StoreProofs ----------------------------
(***************************************************************************)
(* The stores of the process and its life, for any number of the things    *)
(* they keep and of the goroutines that use them.                          *)
(***************************************************************************)
EXTENDS SessionStore, Billing, Learning, AdminState, Lifecycle, RuleAdmin,
        FiniteSetTheorems, SequenceTheorems, WellFoundedInduction, TLAPS

-----------------------------------------------------------------------------
(***************************************************************************)
(* The sessions and their indexes, for any number of IDs, addresses, users *)
(* and goroutines, and for any sequence of operations, dumps, restores and *)
(* restarts.                                                               *)
(***************************************************************************)
Dumped == {id \in SessionIDs : dump[id] # NoSession}
Capped(s) == s.risk = IF s.total > 100 THEN 100 ELSE s.total

\* Both indexes and the dump only know IDs that were given out, so a new session starts
\* unlisted.
IssuedInv ==
    /\ Live \subseteq issued /\ Dumped \subseteq issued
    /\ \A ip \in Addresses, id \in SessionIDs : byIP[ip][id] > 0 => id \in issued

\* An ID has one address for ever: the list it is on, the live session and the dumped
\* one agree on it.  That is why a restore into a store in use, which leaves IDs behind
\* in byIP, does not make GetByIP return a session of another address.
AddressInv ==
    /\ \A ip \in Addresses, id \in SessionIDs : byIP[ip][id] > 0 =>
           /\ id \in Live => sessions[id].ip = ip
           /\ id \in Dumped => dump[id].ip = ip
    /\ \A id \in Live : byIP[sessions[id].ip][id] > 0
    /\ \A id \in Live \cap Dumped : sessions[id].ip = dump[id].ip

RiskInv ==
    /\ \A id \in Live : Capped(sessions[id])
    /\ \A id \in Dumped : Capped(dump[id])

SessionInv == SessionTypeOK /\ IssuedInv /\ AddressInv /\ RiskInv /\ IndexesExact

\* The invariant gives the property: GetByIP lists the live sessions of the address.
LEMMA InvConsistent == SessionInv => SessionsConsistent
<1> SUFFICES ASSUME SessionInv PROVE SessionsConsistent
  OBVIOUS
<1>1. ByIPFindsAll
  <2> SUFFICES ASSUME NEW ip \in Addresses
               PROVE  GetByIP(ip) = {id \in Live : sessions[id].ip = ip}
    BY DEF ByIPFindsAll
  <2>1. \A id \in Live : byIP[ip][id] > 0 <=> sessions[id].ip = ip
    BY DEF SessionInv, AddressInv, Live
  <2> QED
    BY <2>1 DEF GetByIP
<1>2. RiskIsCappedSum
  BY DEF SessionInv, RiskInv, Capped, RiskIsCappedSum
<1> QED
  BY <1>1, <1>2 DEF SessionInv, SessionsConsistent

\* NewStore
LEMMA InitSession == SessionInit => SessionInv
<1> SUFFICES ASSUME SessionInit PROVE SessionInv
  OBVIOUS
<1> USE DEF SessionInit, EmptyStore, NoAddresses
<1>1. Live = {} /\ Dumped = {}
  BY DEF Live, Dumped
<1>2. \A ip \in Addresses, id \in SessionIDs : byIP[ip][id] = 0
  OBVIOUS
<1>3. SessionTypeOK
  BY DEF SessionTypeOK
<1> QED
  BY <1>1, <1>2, <1>3 DEF SessionInv, IssuedInv, AddressInv, RiskInv, IndexesExact

\* generateID returns an ID that was not given out.
LEMMA FreshID ==
    ASSUME issued # SessionIDs, issued \subseteq SessionIDs
    PROVE  generateID \in SessionIDs \ issued
<1> DEFINE S == SessionIDs \ issued
<1>1. S # {} /\ S \subseteq Nat
  BY SessionAssumption
<1> HIDE DEF S
<1>2. PICK k \in S : \A j \in S : <<j, k>> \notin OpToRel(<, Nat)
  BY <1>1, NatLessThanWellFounded, WFMin
<1>3. ASSUME NEW j \in S PROVE k <= j
  <2>1. j \in Nat /\ k \in Nat /\ ~(j < k)
    BY <1>1, <1>2 DEF OpToRel
  <2> QED
    BY <2>1
<1> QED
  BY <1>3 DEF generateID, S

\* An operation on one live session that leaves its address alone, names a user only
\* where there was none and keeps score and decisions together.
LEMMA Touch ==
    ASSUME SessionInv, NEW id \in Live, NEW r \in SessionSet,
           sessions' = [sessions EXCEPT ![id] = r],
           r.ip = sessions[id].ip, Capped(r),
           sessions[id].user = Nobody \/ r.user = sessions[id].user,
           UNCHANGED <<byIP, byUser, sessionTime, dump, issued, era, mixed>>
    PROVE  SessionInv'
<1>1. /\ id \in SessionIDs /\ r # NoSession /\ sessions'[id] = r
      /\ \A j \in SessionIDs : j # id => sessions'[j] = sessions[j]
      /\ sessions' \in [SessionIDs -> SessionSet \cup {NoSession}]
  BY SessionAssumption DEF SessionInv, SessionTypeOK, Live
<1>2. Live' = Live /\ Dumped' = Dumped
  BY <1>1 DEF Live, Dumped
<1>3. SessionTypeOK'
  BY <1>1 DEF SessionInv, SessionTypeOK
<1>4. IssuedInv'
  BY <1>2 DEF SessionInv, IssuedInv
<1>5. \A j \in Live : sessions'[j].ip = sessions[j].ip
  BY <1>1 DEF Live
<1>6. AddressInv'
  BY <1>2, <1>5 DEF SessionInv, AddressInv
<1>7. RiskInv'
  BY <1>1, <1>2 DEF SessionInv, RiskInv, Live, Capped
<1>8. IndexesExact'
  <2> SUFFICES ASSUME ~mixed PROVE IndexesExact'
    BY DEF IndexesExact
  <2>1. ASSUME NEW u \in Users, byUser[u] # NoSession
        PROVE  GetByUser(u)' # NoSession /\ GetByUser(u)'.user = u
    <3>1. /\ byUser[u] \in SessionIDs /\ sessions[byUser[u]] # NoSession
          /\ sessions[byUser[u]].user = u /\ u # Nobody
      BY <2>1, SessionAssumption DEF SessionInv, SessionTypeOK, IndexesExact, GetByUser
    <3> QED
      BY <1>1, <3>1 DEF GetByUser
  <2> QED
    BY <1>2, <1>5, <2>1 DEF SessionInv, IndexesExact
<1> QED
  BY <1>3, <1>4, <1>6, <1>7, <1>8 DEF SessionInv

\* Create lists the new ID once, under its address.
LEMMA StepCreate ==
    ASSUME SessionInv, NEW ip \in Addresses, Create(ip) PROVE SessionInv'
<1> DEFINE id == generateID
           s == [ip |-> ip, user |-> Nobody, seen |-> sessionTime, risk |-> 0,
                 total |-> 0, decisions |-> 0, era |-> era]
<1>1. id \in SessionIDs \ issued
  BY FreshID DEF SessionInv, SessionTypeOK, Create
<1>2. s \in SessionSet /\ s # NoSession /\ s.ip = ip /\ Capped(s)
  BY SessionAssumption DEF SessionInv, SessionTypeOK, SessionSet, Capped
<1>3. /\ sessions' = [sessions EXCEPT ![id] = s] /\ issued' = issued \cup {id}
      /\ byIP' = [byIP EXCEPT ![ip] = [byIP[ip] EXCEPT ![id] = byIP[ip][id] + 1]]
      /\ UNCHANGED <<byUser, sessionTime, dump, era, mixed>>
  BY DEF Create
<1> HIDE DEF id, s
<1>4. /\ sessions'[id] = s /\ \A j \in SessionIDs : j # id => sessions'[j] = sessions[j]
      /\ sessions' \in [SessionIDs -> SessionSet \cup {NoSession}]
  BY <1>1, <1>2, <1>3 DEF SessionInv, SessionTypeOK
<1>5. /\ sessions[id] = NoSession /\ dump[id] = NoSession
      /\ \A a \in Addresses : byIP[a][id] = 0
  BY <1>1 DEF SessionInv, IssuedInv, SessionTypeOK, Live, Dumped
<1>6. /\ byIP' \in [Addresses -> [SessionIDs -> Nat]]
      /\ byIP'[ip][id] = 1
      /\ \A a \in Addresses, j \in SessionIDs : a # ip \/ j # id => byIP'[a][j] = byIP[a][j]
  BY <1>1, <1>3, <1>5 DEF SessionInv, SessionTypeOK
<1>7. Live' = Live \cup {id} /\ Dumped' = Dumped /\ id \notin Live /\ id \notin Dumped
  BY <1>1, <1>2, <1>3, <1>4, <1>5 DEF Live, Dumped
<1>8. SessionTypeOK'
  BY <1>1, <1>3, <1>4, <1>6 DEF SessionInv, SessionTypeOK
<1>9. IssuedInv'
  BY <1>1, <1>3, <1>6, <1>7 DEF SessionInv, IssuedInv
<1>10. AddressInv'
  <2>1. \A j \in Live : j # id /\ j \in SessionIDs /\ sessions[j].ip \in Addresses
    BY <1>7, SessionAssumption DEF Live, SessionInv, SessionTypeOK, SessionSet
  <2>2. ASSUME NEW a \in Addresses, NEW j \in SessionIDs, byIP'[a][j] > 0
        PROVE  (j \in Live' => sessions'[j].ip = a) /\ (j \in Dumped => dump[j].ip = a)
    BY <1>2, <1>4, <1>5, <1>6, <1>7, <2>2 DEF SessionInv, AddressInv
  <2>3. \A j \in Live' : byIP'[sessions'[j].ip][j] > 0
    BY <1>2, <1>4, <1>6, <1>7, <2>1 DEF SessionInv, AddressInv
  <2>4. \A j \in Live' \cap Dumped : sessions'[j].ip = dump[j].ip
    BY <1>4, <1>7, <2>1 DEF SessionInv, AddressInv
  <2> QED
    BY <1>3, <1>7, <2>2, <2>3, <2>4 DEF AddressInv
<1>11. RiskInv'
  BY <1>2, <1>3, <1>4, <1>7 DEF SessionInv, RiskInv, Live, Capped
<1>12. IndexesExact'
  <2> SUFFICES ASSUME ~mixed PROVE IndexesExact'
    BY <1>3 DEF IndexesExact
  <2>1. ASSUME NEW a \in Addresses, NEW j \in SessionIDs
        PROVE  byIP'[a][j] = IF j \in Live' /\ sessions'[j].ip = a THEN 1 ELSE 0
    BY <1>2, <1>4, <1>5, <1>6, <1>7 DEF SessionInv, IndexesExact
  <2>2. ASSUME NEW u \in Users, byUser[u] # NoSession
        PROVE  GetByUser(u)' # NoSession /\ GetByUser(u)'.user = u
    <3>1. /\ byUser[u] \in SessionIDs /\ sessions[byUser[u]] # NoSession
          /\ sessions[byUser[u]].user = u
      BY <2>2 DEF SessionInv, SessionTypeOK, IndexesExact, GetByUser
    <3>2. byUser[u] # id
      BY <1>5, <3>1
    <3> QED
      BY <1>3, <1>4, <3>1, <3>2 DEF GetByUser
  <2> QED
    BY <1>3, <2>1, <2>2 DEF IndexesExact
<1> QED
  BY <1>8, <1>9, <1>10, <1>11, <1>12 DEF SessionInv

\* Delete and cleanup take a session and what the indexes say of it away together.
LEMMA StepRemove ==
    ASSUME SessionInv, NEW gone \in SUBSET Live, RemoveSessions(gone) PROVE SessionInv'
<1>1. /\ sessions' \in [SessionIDs -> SessionSet \cup {NoSession}]
      /\ \A j \in SessionIDs : sessions'[j] = IF j \in gone THEN NoSession ELSE sessions[j]
  BY DEF RemoveSessions, SessionInv, SessionTypeOK
<1>2. \A a \in Addresses, j \in SessionIDs :
          byIP'[a][j] = IF j \in gone /\ sessions[j].ip = a THEN 0 ELSE byIP[a][j]
  BY DEF RemoveSessions
<1>3. byIP' \in [Addresses -> [SessionIDs -> Nat]]
  BY DEF RemoveSessions, SessionInv, SessionTypeOK
<1>4. /\ byUser' \in [Users -> SessionIDs \cup {NoSession}]
      /\ \A u \in Users : byUser'[u] =
             IF byUser[u] \in gone /\ sessions[byUser[u]].user = u THEN NoSession ELSE byUser[u]
  BY DEF RemoveSessions, SessionInv, SessionTypeOK
<1>5. UNCHANGED <<sessionTime, held, dump, issued, era, mixed>>
  BY DEF RemoveSessions
<1>6. Live' = Live \ gone /\ Dumped' = Dumped /\ gone \subseteq SessionIDs
  BY <1>1, <1>5 DEF Live, Dumped
<1>7. SessionTypeOK'
  BY <1>1, <1>3, <1>4, <1>5 DEF SessionInv, SessionTypeOK
<1>8. IssuedInv'
  BY <1>2, <1>5, <1>6 DEF SessionInv, IssuedInv
<1>9. AddressInv'
  <2>1. \A j \in Live : j \in SessionIDs /\ sessions[j].ip \in Addresses
    BY SessionAssumption DEF Live, SessionInv, SessionTypeOK, SessionSet
  <2>2. ASSUME NEW a \in Addresses, NEW j \in SessionIDs, byIP'[a][j] > 0
        PROVE  (j \in Live' => sessions'[j].ip = a) /\ (j \in Dumped => dump[j].ip = a)
    BY <1>1, <1>2, <1>6, <2>2 DEF SessionInv, AddressInv
  <2>3. \A j \in Live' : byIP'[sessions'[j].ip][j] > 0
    BY <1>1, <1>2, <1>6, <2>1 DEF SessionInv, AddressInv
  <2>4. \A j \in Live' \cap Dumped : sessions'[j].ip = dump[j].ip
    BY <1>1, <1>6, <2>1 DEF SessionInv, AddressInv
  <2> QED
    BY <1>5, <1>6, <2>2, <2>3, <2>4 DEF AddressInv
<1>10. RiskInv'
  BY <1>1, <1>5, <1>6 DEF SessionInv, RiskInv, Live, Capped
<1>11. IndexesExact'
  <2> SUFFICES ASSUME ~mixed PROVE IndexesExact'
    BY <1>5 DEF IndexesExact
  <2>1. ASSUME NEW a \in Addresses, NEW j \in SessionIDs
        PROVE  byIP'[a][j] = IF j \in Live' /\ sessions'[j].ip = a THEN 1 ELSE 0
    BY <1>1, <1>2, <1>6 DEF SessionInv, IndexesExact
  <2>2. ASSUME NEW u \in Users, byUser'[u] # NoSession
        PROVE  GetByUser(u)' # NoSession /\ GetByUser(u)'.user = u
    <3>1. byUser'[u] = byUser[u] /\ byUser[u] # NoSession
      BY <1>4, <2>2
    <3>2. /\ byUser[u] \in SessionIDs /\ sessions[byUser[u]] # NoSession
          /\ sessions[byUser[u]].user = u
      BY <3>1 DEF SessionInv, SessionTypeOK, IndexesExact, GetByUser
    <3>3. byUser[u] \notin gone
      BY <1>4, <2>2, <3>2
    <3> QED
      BY <1>1, <3>1, <3>2, <3>3 DEF GetByUser
  <2> QED
    BY <1>5, <2>1, <2>2 DEF IndexesExact
<1> QED
  BY <1>7, <1>8, <1>9, <1>10, <1>11 DEF SessionInv

\* Deserialize adds the dumped sessions to whatever the indexes hold.
LEMMA StepDeserialize == ASSUME SessionInv, Deserialize PROVE SessionInv'
<1>1. /\ \A j \in SessionIDs : sessions'[j] =
             IF j \in Dumped THEN [dump[j] EXCEPT !.era = era + 1] ELSE NoSession
      /\ sessions' = [j \in SessionIDs |-> sessions'[j]]
  BY DEF Deserialize, Dumped
<1>2. ASSUME NEW j \in Dumped
      PROVE  /\ sessions'[j] \in SessionSet /\ sessions'[j] # NoSession
             /\ dump[j] \in SessionSet /\ dump[j].ip \in Addresses
             /\ sessions'[j].ip = dump[j].ip /\ sessions'[j].user = dump[j].user
             /\ sessions'[j].risk = dump[j].risk /\ sessions'[j].total = dump[j].total
  <2>1. PICK r \in SessionSet, e \in Nat : r = dump[j] /\ e = era + 1
    BY DEF SessionInv, SessionTypeOK, Dumped
  <2>2. sessions'[j] = [r EXCEPT !.era = e]
    BY <1>1, <2>1 DEF Dumped
  <2>3. /\ [r EXCEPT !.era = e] \in SessionSet /\ r.ip \in Addresses
        /\ [r EXCEPT !.era = e].ip = r.ip /\ [r EXCEPT !.era = e].user = r.user
        /\ [r EXCEPT !.era = e].risk = r.risk /\ [r EXCEPT !.era = e].total = r.total
    BY DEF SessionSet
  <2> QED
    BY <2>1, <2>2, <2>3, SessionAssumption
<1>3. Live' = Dumped /\ Dumped' = Dumped
  BY <1>1, <1>2 DEF Live, Dumped, Deserialize
<1>4. /\ \A a \in Addresses, j \in SessionIDs : byIP'[a][j] =
             byIP[a][j] + (IF j \in Dumped /\ dump[j].ip = a THEN 1 ELSE 0)
      /\ byIP' \in [Addresses -> [SessionIDs -> Nat]]
  BY DEF Deserialize, Dumped, SessionInv, SessionTypeOK
<1>5. /\ byUser' \in [Users -> SessionIDs \cup {NoSession}]
      /\ \A u \in Users : \/ byUser'[u] = byUser[u]
                          \/ byUser'[u] \in Dumped /\ dump[byUser'[u]].user = u
      /\ mixed' = (mixed \/ byIP # NoAddresses \/ \E u \in Users : byUser[u] # NoSession)
      /\ era' = era + 1 /\ UNCHANGED <<sessionTime, held, dump, issued>>
  BY DEF Deserialize, Dumped
<1>6. SessionTypeOK'
  BY <1>1, <1>2, <1>4, <1>5 DEF SessionInv, SessionTypeOK
<1>7. IssuedInv'
  BY <1>3, <1>4, <1>5 DEF SessionInv, IssuedInv, SessionTypeOK
<1>8. AddressInv'
  <2>1. ASSUME NEW a \in Addresses, NEW j \in SessionIDs, byIP'[a][j] > 0, j \in Dumped
        PROVE  dump[j].ip = a
    <3>1. CASE byIP[a][j] > 0
      BY <2>1, <3>1 DEF SessionInv, AddressInv
    <3>2. CASE ~(byIP[a][j] > 0)
      BY <1>4, <2>1, <3>2 DEF SessionInv, SessionTypeOK
    <3> QED
      BY <3>1, <3>2
  <2>2. ASSUME NEW j \in Dumped PROVE byIP'[dump[j].ip][j] > 0
    <3>1. j \in SessionIDs /\ dump[j].ip \in Addresses /\ byIP[dump[j].ip][j] \in Nat
      BY <1>2 DEF Dumped, SessionInv, SessionTypeOK
    <3> QED
      BY <1>4, <3>1
  <2> QED
    BY <1>2, <1>3, <1>5, <2>1, <2>2 DEF AddressInv
<1>9. RiskInv'
  BY <1>2, <1>3, <1>5 DEF SessionInv, RiskInv, Capped
<1>10. IndexesExact'
  <2> SUFFICES ASSUME ~mixed' PROVE IndexesExact'
    BY DEF IndexesExact
  <2>1. byIP = NoAddresses /\ \A u \in Users : byUser[u] = NoSession
    BY <1>5
  <2>2. ASSUME NEW a \in Addresses, NEW j \in SessionIDs
        PROVE  byIP'[a][j] = IF j \in Live' /\ sessions'[j].ip = a THEN 1 ELSE 0
    <3>1. byIP[a][j] = 0
      BY <2>1 DEF NoAddresses
    <3> QED
      BY <1>2, <1>3, <1>4, <3>1
  <2>3. ASSUME NEW u \in Users, byUser'[u] # NoSession
        PROVE  GetByUser(u)' # NoSession /\ GetByUser(u)'.user = u
    <3>1. byUser'[u] \in Dumped /\ dump[byUser'[u]].user = u
      BY <1>5, <2>1, <2>3
    <3> QED
      BY <1>2, <3>1 DEF GetByUser, Dumped
  <2> QED
    BY <2>2, <2>3 DEF IndexesExact
<1> QED
  BY <1>6, <1>7, <1>8, <1>9, <1>10 DEF SessionInv

\* Every operation of the store keeps the invariant.
LEMMA StepSession == SessionInv /\ [SessionNext]_sessionVars => SessionInv'
<1> SUFFICES ASSUME SessionInv, [SessionNext]_sessionVars PROVE SessionInv'
  OBVIOUS
<1>s. ASSUME UNCHANGED <<sessions, byIP, byUser, dump, issued, era, mixed>>,
             sessionTime' \in Nat
      PROVE  SessionInv'
  BY <1>s DEF SessionInv, SessionTypeOK, IssuedInv, AddressInv, RiskInv, IndexesExact,
              Live, Dumped, Capped, GetByUser
<1>t. sessionTime \in Nat /\ \A id \in Live : id \in SessionIDs /\ sessions[id] \in SessionSet
  BY DEF SessionInv, SessionTypeOK, Live
<1>1. ASSUME NEW ip \in Addresses, Create(ip) PROVE SessionInv'
  BY <1>1, StepCreate
<1>2. ASSUME NEW c \in Finders, NEW id \in SessionIDs, GetOrCreateFind(c, id)
      PROVE  SessionInv'
  BY <1>2, <1>s, <1>t DEF GetOrCreateFind
<1>3. ASSUME NEW id \in SessionIDs, NEW u \in Users, Update(id, u) PROVE SessionInv'
  <2>1. PICK s \in SessionSet, now \in Nat : s = sessions[id] /\ now = sessionTime
    BY <1>3, <1>t DEF Update
  <2> DEFINE r == [s EXCEPT !.user = u, !.seen = now]
  <2>2. r \in SessionSet /\ r.ip = s.ip /\ r.risk = s.risk /\ r.total = s.total
    BY DEF SessionSet
  <2>3. sessions' = [sessions EXCEPT ![id] = r]
    BY <1>3, <2>1 DEF Update
  <2> HIDE DEF r
  <2>4. Capped(r) /\ id \in Live /\ sessions[id].user = Nobody
    BY <1>3, <2>1, <2>2 DEF Update, SessionInv, RiskInv, Capped
  <2> QED
    BY <1>3, <2>1, <2>2, <2>3, <2>4, Touch DEF Update
<1>4. ASSUME NEW id \in SessionIDs, NEW n \in Scores, AddRiskScore(id, n) PROVE SessionInv'
  <2>1. PICK s \in SessionSet, k \in Nat : s = sessions[id] /\ k = n
    BY <1>4, <1>t, SessionAssumption DEF AddRiskScore
  <2>a. s.risk \in Nat /\ s.total \in Nat /\ s.decisions \in Nat
    BY DEF SessionSet
  <2>b. PICK risk \in Nat, total \in Nat, count \in Nat :
          /\ risk = (IF s.risk + k > 100 THEN 100 ELSE s.risk + k)
          /\ total = s.total + k /\ count = s.decisions + 1
    <3> DEFINE capped == IF s.risk + k > 100 THEN 100 ELSE s.risk + k
    <3>1. capped \in Nat /\ s.total + k \in Nat /\ s.decisions + 1 \in Nat
      BY <2>a
    <3> QED
      BY <3>1
  <2> DEFINE r == [s EXCEPT !.risk = risk, !.total = total, !.decisions = count]
  <2>2. /\ r \in SessionSet /\ r.ip = s.ip /\ r.user = s.user
        /\ r.risk = risk /\ r.total = total
    BY DEF SessionSet
  <2>3. sessions' = [sessions EXCEPT ![id] = r]
    BY <1>4, <2>1, <2>b DEF AddRiskScore
  <2> HIDE DEF r
  <2>4. id \in Live /\ Capped(s)
    BY <1>4, <2>1 DEF AddRiskScore, SessionInv, RiskInv
  <2>5. Capped(r)
    BY <2>a, <2>b, <2>2, <2>4 DEF Capped
  <2> QED
    BY <1>4, <2>1, <2>2, <2>3, <2>4, <2>5, Touch DEF AddRiskScore
<1>5. ASSUME NEW c \in Finders, updateLastSeen(c) PROVE SessionInv'
  <2> DEFINE id == held[c].id
  <2>1. CASE id \in Live /\ sessions[id].era = held[c].era
    <3>1. PICK s \in SessionSet, now \in Nat : s = sessions[id] /\ now = sessionTime
      BY <1>t, <2>1
    <3> DEFINE r == [s EXCEPT !.seen = now]
    <3>2. /\ r \in SessionSet /\ r.ip = s.ip /\ r.risk = s.risk /\ r.total = s.total
          /\ r.user = s.user
      BY DEF SessionSet
    <3>3. sessions' = [sessions EXCEPT ![id] = r]
      BY <1>5, <2>1, <3>1 DEF updateLastSeen
    <3> HIDE DEF r
    <3>4. Capped(r)
      BY <2>1, <3>1, <3>2 DEF SessionInv, RiskInv, Capped
    <3> QED
      BY <1>5, <2>1, <3>1, <3>2, <3>3, <3>4, Touch DEF updateLastSeen
  <2>2. CASE ~(id \in Live /\ sessions[id].era = held[c].era)
    BY <1>5, <1>s, <1>t, <2>2 DEF updateLastSeen
  <2> QED
    BY <2>1, <2>2
<1>6. ASSUME NEW id \in SessionIDs, Delete(id) PROVE SessionInv'
  BY <1>6, StepRemove DEF Delete
<1>7. CASE cleanupLoop
  BY <1>7, StepRemove DEF cleanupLoop, Stale
<1>8. CASE Serialize
  <2>1. Live' = Live /\ Dumped' = Live
    BY <1>8 DEF Serialize, Live, Dumped
  <2> QED
    BY <1>8, <2>1
    DEF Serialize, SessionInv, SessionTypeOK, IssuedInv, AddressInv, RiskInv, IndexesExact,
        Capped, GetByUser
<1>9. CASE Deserialize
  BY <1>9, StepDeserialize
<1>10. CASE Restart
  <2>1. Live' = {} /\ Dumped' = Dumped
    BY <1>10 DEF Restart, EmptyStore, Live, Dumped
  <2>2. \A ip \in Addresses, id \in SessionIDs : byIP'[ip][id] = 0
    BY <1>10 DEF Restart, NoAddresses
  <2>3. SessionTypeOK'
    BY <1>10 DEF Restart, EmptyStore, NoAddresses, SessionInv, SessionTypeOK
  <2>4. \A u \in Users : byUser'[u] = NoSession
    BY <1>10 DEF Restart
  <2> QED
    BY <1>10, <2>1, <2>2, <2>3, <2>4
    DEF Restart, SessionInv, IssuedInv, AddressInv, RiskInv, IndexesExact, Capped
<1>11. CASE SessionTick
  BY <1>11, <1>s, <1>t DEF SessionTick
<1>12. CASE UNCHANGED sessionVars
  BY <1>12, <1>s, <1>t DEF sessionVars
<1> QED
  BY <1>1, <1>2, <1>3, <1>4, <1>5, <1>6, <1>7, <1>8, <1>9, <1>10, <1>11, <1>12
  DEF SessionNext

\* Sessions, indexes and scores agree after every operation, across dumps, restores and
\* restarts, and whatever GetOrCreate still holds.
THEOREM SessionsAgree == SessionSpec => []SessionsConsistent
BY InitSession, StepSession, InvConsistent, PTL DEF SessionSpec

-----------------------------------------------------------------------------
(***************************************************************************)
(* The day's counts and the end of a subscription, for any number of       *)
(* tenants, clients and subscriptions.                                     *)
(***************************************************************************)
Counter == [today : Nat, blocks : Nat, dayStart : Nat]

\* The clients that were admitted for a tenant and have not recorded their request yet.
Pending(t) == {c \in Clients : admitted[c] = t}

UsageTypeOK ==
    /\ usage \in [Tenants -> Counter \cup {NoRecord}]
    /\ copied \in [Tenants -> Counter \cup {NoRecord}]
    /\ limits \in [Tenants -> Nat] /\ highest \in [Tenants -> Nat]
    /\ admitted \in [Clients -> Tenants \cup {NoRecord}]
    /\ usageTime \in Nat

\* A limit is never above the highest one recorded for its tenant, and the copy is as
\* consistent as the counters it was taken from: a merge adds the two.
UsageInv ==
    /\ UsageTypeOK
    /\ \A t \in Tenants : highest[t] # 0 => 0 < limits[t] /\ limits[t] <= highest[t]
    /\ \A t \in Tenants : copied[t] # NoRecord => copied[t].blocks <= copied[t].today
    /\ BlocksWithinRequests
    /\ OverrunBounded

\* A set of pending clients is no larger than the set of all clients, and each check
\* or record changes it by one.
LEMMA PendingBounded ==
    ASSUME NEW S, S \subseteq Clients
    PROVE  /\ IsFiniteSet(S) /\ Cardinality(S) \in Nat /\ Cardinality(Clients) \in Nat
           /\ Cardinality(S) <= Cardinality(Clients)
           /\ \A c \in S : Cardinality(S \ {c}) = Cardinality(S) - 1
BY BillingAssumption, FS_Subset, FS_CardinalityType, FS_RemoveElement

\* The assignment the steps make, as an operator.
WithCounts(r, a, b) == [r EXCEPT !.today = a, !.blocks = b]

\* Assigning two fields of a counter keeps it a counter.
LEMMA CounterUpdate ==
    \A r \in Counter : \A a, b \in Nat :
        /\ WithCounts(r, a, b) \in Counter
        /\ WithCounts(r, a, b).today = a /\ WithCounts(r, a, b).blocks = b
BY DEF Counter, WithCounts

\* Every tenant starts with a limit and without a counter.
LEMMA InitUsage == BillingInit => UsageInv
<1> SUFFICES ASSUME BillingInit PROVE UsageInv
  OBVIOUS
<1>1. limits \in [Tenants -> Nat \ {0}]
  BY BillingAssumption DEF BillingInit
<1>2. \A t \in Tenants : usage[t] = NoRecord /\ copied[t] = NoRecord
  BY DEF BillingInit
<1>3. UsageTypeOK
  BY <1>1 DEF BillingInit, UsageTypeOK
<1> QED
  BY <1>1, <1>2, <1>3 DEF BillingInit, UsageInv, BlocksWithinRequests, OverrunBounded

\* A request that finds no counter, or that of another day, finds a fresh one.
LEMMA CurrentType ==
    ASSUME UsageInv, NEW t \in Tenants
    PROVE  /\ Current(t) \in Counter /\ Current(t).blocks <= Current(t).today
           /\ Current(t) = usage[t] \/ Current(t).today = 0
           /\ usage[t] = NoRecord => Current(t).today = 0
BY BillingAssumption
DEF UsageInv, UsageTypeOK, Current, FreshUsage, Counter, BlocksWithinRequests

\* No check, record, rollover, reset, removal, copy or merge breaks the invariant.
LEMMA StepUsage == UsageInv /\ [UsageNext]_usageVars => UsageInv'
<1> SUFFICES ASSUME UsageInv, [UsageNext]_usageVars PROVE UsageInv'
  OBVIOUS
<1> USE DEF UsageInv, BlocksWithinRequests, OverrunBounded
<1>p. ASSUME NEW t \in Tenants
      PROVE  /\ Cardinality(Pending(t)) \in Nat /\ Cardinality(Clients) \in Nat
             /\ Cardinality(Pending(t)) <= Cardinality(Clients)
             /\ \A c \in Pending(t) :
                   Cardinality(Pending(t) \ {c}) = Cardinality(Pending(t)) - 1
  BY PendingBounded DEF Pending
<1>q. ASSUME NEW t \in Tenants
      PROVE  Cardinality({c \in Clients : admitted'[c] = t}) \in Nat
             /\ Cardinality({c \in Clients : admitted'[c] = t}) <= Cardinality(Clients)
  BY PendingBounded
<1>1. ASSUME NEW t \in Tenants, NEW n \in Limits, SetLimit(t, n) PROVE UsageInv'
  <2>1. n \in Nat \ {0}
    BY BillingAssumption
  <2>2. UsageTypeOK'
    BY <1>1, <2>1 DEF SetLimit, UsageTypeOK
  <2>3. \A u \in Tenants : highest'[u] # 0 =>
            0 < limits'[u] /\ limits'[u] <= highest'[u] /\ highest[u] # 0
            /\ highest[u] <= highest'[u]
    BY <1>1, <2>1 DEF SetLimit, UsageTypeOK
  <2>4. OverrunBounded'
    <3> SUFFICES ASSUME NEW u \in Tenants, usage[u] # NoRecord, highest'[u] # 0
                 PROVE  usage[u].today + Cardinality(Pending(u))
                            <= highest'[u] + Cardinality(Clients) - 1
      BY <1>1 DEF SetLimit, Pending
    <3>1. usage[u].today + Cardinality(Pending(u)) <= highest[u] + Cardinality(Clients) - 1
      BY <2>3 DEF Pending
    <3>2. usage[u].today \in Nat
      BY DEF UsageTypeOK, Counter
    <3> QED
      BY <1>p, <2>2, <2>3, <3>1, <3>2 DEF UsageTypeOK
  <2> QED
    BY <1>1, <2>2, <2>3, <2>4 DEF SetLimit
<1>2. ASSUME NEW t \in Tenants, NEW c \in Clients, CheckLimit(c, t) PROVE UsageInv'
  <2>1. UsageTypeOK'
    BY <1>2 DEF CheckLimit, UsageTypeOK
  <2>2. OverrunBounded'
    <3> SUFFICES ASSUME NEW u \in Tenants, usage[u] # NoRecord, highest[u] # 0
                 PROVE  usage[u].today + Cardinality({d \in Clients : admitted'[d] = u})
                            <= highest[u] + Cardinality(Clients) - 1
      BY <1>2 DEF CheckLimit
    <3>1. usage[u].today \in Nat /\ limits[u] \in Nat /\ highest[u] \in Nat
      BY DEF UsageTypeOK, Counter
    <3>2. CASE u = t
      <4>1. usage[u].today < limits[u] /\ limits[u] <= highest[u]
        BY <1>2, <3>2 DEF CheckLimit, WithinLimit
      <4> QED
        BY <1>p, <1>q, <3>1, <4>1
    <3>3. CASE u # t
      <4>1. {d \in Clients : admitted'[d] = u} = Pending(u)
        BY <1>2, <3>3, BillingAssumption DEF CheckLimit, UsageTypeOK, Pending
      <4> QED
        BY <4>1 DEF Pending
    <3> QED
      BY <3>2, <3>3
  <2> QED
    BY <1>2, <2>1, <2>2 DEF CheckLimit
<1>3. ASSUME NEW t \in Tenants, ResetDaily(t) \/ RemoveTenant(t) PROVE UsageInv'
  <2>1. UsageTypeOK'
    BY <1>3 DEF ResetDaily, RemoveTenant, UsageTypeOK, Counter
  <2>2. /\ \A u \in Tenants : usage'[u] # NoRecord => usage[u] # NoRecord
        /\ \A u \in Tenants : usage'[u] # NoRecord =>
               usage'[u] = usage[u] \/ (usage'[u].today = 0 /\ usage'[u].blocks = 0)
        /\ \A u \in Tenants : highest'[u] # 0 =>
               highest'[u] = highest[u] /\ limits'[u] = limits[u]
        /\ copied' = copied /\ admitted' = admitted
    BY <1>3 DEF ResetDaily, RemoveTenant, UsageTypeOK, Counter
  <2>3. OverrunBounded'
    <3> SUFFICES ASSUME NEW u \in Tenants, usage'[u] # NoRecord, highest'[u] # 0
                 PROVE  usage'[u].today + Cardinality(Pending(u))
                            <= highest'[u] + Cardinality(Clients) - 1
      BY <2>2 DEF Pending
    <3>1. usage[u].today \in Nat /\ usage'[u].today \in Nat /\ highest[u] \in Nat
      BY <2>1, <2>2 DEF UsageTypeOK, Counter
    <3>2. usage[u].today + Cardinality(Pending(u)) <= highest[u] + Cardinality(Clients) - 1
      BY <2>2 DEF Pending
    <3> QED
      BY <1>p, <2>2, <3>1, <3>2
  <2> QED
    BY <2>1, <2>2, <2>3 DEF UsageTypeOK
<1>4. ASSUME NEW c \in Clients, NEW blocked \in BOOLEAN, RecordRequest(c, blocked)
      PROVE  UsageInv'
  <2> DEFINE t == admitted[c]
  <2>1. t \in Tenants
    BY <1>4 DEF RecordRequest, UsageTypeOK
  <2>2. /\ Current(t) \in Counter /\ Current(t).blocks <= Current(t).today
        /\ Current(t) = usage[t] \/ Current(t).today = 0
        /\ usage[t] = NoRecord => Current(t).today = 0
    BY <2>1, CurrentType
  <2>3. /\ usage'[t] \in Counter
        /\ usage'[t].today = Current(t).today + 1
        /\ usage'[t].blocks <= usage'[t].today
    <3>1. PICK r \in Counter, a \in Nat, b \in Nat :
              /\ r = Current(t) /\ a = r.today + 1
              /\ b = IF blocked THEN r.blocks + 1 ELSE r.blocks
      BY <2>2 DEF Counter
    <3>2. usage'[t] = WithCounts(r, a, b)
      BY <1>4, <2>1, <3>1 DEF RecordRequest, UsageTypeOK, WithCounts
    <3>3. b <= a
      BY <2>2, <3>1 DEF Counter
    <3>4. /\ WithCounts(r, a, b) \in Counter
          /\ WithCounts(r, a, b).today = a /\ WithCounts(r, a, b).blocks = b
      BY CounterUpdate
    <3> QED
      BY <3>1, <3>2, <3>3, <3>4
  <2>4. /\ \A u \in Tenants : u # t => usage'[u] = usage[u]
        /\ usage' \in [Tenants -> Counter \cup {NoRecord}]
    BY <1>4, <2>1, <2>3 DEF RecordRequest, UsageTypeOK
  <2>5. UsageTypeOK'
    BY <1>4, <2>4 DEF RecordRequest, UsageTypeOK
  <2>6. OverrunBounded'
    <3> SUFFICES ASSUME NEW u \in Tenants, usage'[u] # NoRecord, highest[u] # 0
                 PROVE  usage'[u].today + Cardinality({d \in Clients : admitted'[d] = u})
                            <= highest[u] + Cardinality(Clients) - 1
      BY <1>4 DEF RecordRequest
    <3>1. highest[u] \in Nat \ {0}
      BY DEF UsageTypeOK
    <3>2. CASE u = t
      <4>1. {d \in Clients : admitted'[d] = u} = Pending(u) \ {c} /\ c \in Pending(u)
        BY <1>4, <2>1, <3>2, BillingAssumption DEF RecordRequest, UsageTypeOK, Pending
      <4>2. Cardinality({d \in Clients : admitted'[d] = u}) = Cardinality(Pending(u)) - 1
        BY <1>p, <4>1
      <4>3. CASE Current(t).today = 0
        BY <1>p, <2>3, <3>1, <3>2, <4>2, <4>3
      <4>4. CASE Current(t) = usage[t] /\ usage[t] # NoRecord
        <5>1. usage[u].today + Cardinality(Pending(u)) <= highest[u] + Cardinality(Clients) - 1
          BY <3>2, <4>4 DEF Pending
        <5>2. usage[u].today \in Nat /\ usage'[u].today = usage[u].today + 1
          BY <2>2, <2>3, <3>2, <4>4 DEF Counter
        <5> QED
          BY <1>p, <3>1, <4>2, <5>1, <5>2
      <4> QED
        BY <2>2, <4>3, <4>4
    <3>3. CASE u # t
      <4>1. {d \in Clients : admitted'[d] = u} = Pending(u)
        BY <1>4, <3>3, BillingAssumption, SMTT(30) DEF RecordRequest, UsageTypeOK, Pending
      <4> QED
        BY <2>4, <3>3, <4>1 DEF Pending
    <3> QED
      BY <3>2, <3>3
  <2> QED
    BY <1>4, <2>3, <2>4, <2>5, <2>6 DEF RecordRequest
<1>5. CASE MergeCounters
  <2>1. ASSUME NEW t \in Tenants
        PROVE  /\ usage'[t] \in Counter \cup {NoRecord}
               /\ usage'[t] # NoRecord => usage'[t].blocks <= usage'[t].today
               /\ highest'[t] \in Nat
               /\ highest'[t] # 0 => highest'[t] = highest[t] /\ usage'[t] = usage[t]
    <3>1. CASE copied[t] = NoRecord
      BY <1>5, <3>1 DEF MergeCounters, UsageTypeOK
    <3>2. CASE copied[t] # NoRecord /\ usage[t] = NoRecord
      BY <1>5, <3>2 DEF MergeCounters, UsageTypeOK
    <3>3. CASE copied[t] # NoRecord /\ usage[t] # NoRecord
      <4>1. PICK r \in Counter, q \in Counter : r = usage[t] /\ q = copied[t]
        BY <3>3 DEF UsageTypeOK
      <4>2. PICK a \in Nat, b \in Nat : a = r.today + q.today /\ b = r.blocks + q.blocks
        BY DEF Counter
      <4>3. usage'[t] = WithCounts(r, a, b) /\ highest'[t] = 0
        BY <1>5, <3>3, <4>1, <4>2 DEF MergeCounters, WithCounts
      <4>4. b <= a
        BY <3>3, <4>1, <4>2 DEF Counter
      <4>5. /\ WithCounts(r, a, b) \in Counter
            /\ WithCounts(r, a, b).today = a /\ WithCounts(r, a, b).blocks = b
        BY CounterUpdate
      <4> QED
        BY <4>3, <4>4, <4>5
    <3> QED
      BY <3>1, <3>2, <3>3
  <2>2. UsageTypeOK'
    BY <1>5, <2>1 DEF MergeCounters, UsageTypeOK
  <2> QED
    BY <1>5, <2>1, <2>2 DEF MergeCounters
<1>6. CASE CopyCounters \/ UsageTick \/ UNCHANGED usageVars
  BY <1>6 DEF CopyCounters, UsageTick, usageVars, UsageTypeOK
<1> QED
  BY <1>1, <1>2, <1>3, <1>4, <1>5, <1>6 DEF UsageNext

\* What a snapshot shows as remaining is what CheckLimit decides by, of any counter.
LEMMA SnapshotAgrees == UsageInv => RemainingAgrees
<1> SUFFICES ASSUME UsageInv, NEW t \in Tenants
             PROVE  RemainingRequests(t) # 0 <=> WithinLimit(t)
  BY DEF RemainingAgrees
<1>1. limits[t] \in Nat /\ (usage[t] # NoRecord => usage[t].today \in Nat)
  BY DEF UsageInv, UsageTypeOK, Counter
<1> QED
  BY <1>1 DEF RemainingRequests, WithinLimit

\* For any number of clients and tenants: together the clients overrun a limit by less
\* than their number, and the day's counts agree with each other and with CheckLimit.
THEOREM UsageBounded == UsageSpec => []UsageConsistent
<1>1. UsageInv => UsageConsistent
  BY SnapshotAgrees DEF UsageInv, UsageConsistent
<1> QED
  BY <1>1, InitUsage, StepUsage, PTL DEF UsageSpec

-----------------------------------------------------------------------------
(* stripe.go                                                               *)

Statuses == {"active", "past_due", "canceled", "expired"}
EventTask == [kind : Reviving \cup {"deleted", "cancel"}, sub : Subscriptions, status : Statuses,
              step : {"subscription", "lookup", "licence"}]

EndTypeOK ==
    /\ subs \in [Subscriptions -> Statuses \cup {NoRecord}]
    /\ licences \in [Subscriptions -> Statuses \cup {NoRecord}]
    /\ hook \in [Hooks -> EventTask \cup {NoRecord}]
    /\ ended \subseteq Subscriptions

\* Nothing that is being handled for an ended subscription lets it go on, nothing but
\* deletions and cancellations runs beside a deletion that counts, and from its write on
\* such a deletion finds what it has written.
EndInv ==
    /\ EndTypeOK
    /\ EndIsFinal
    /\ \A w \in Hooks : hook[w] # NoRecord =>
         /\ hook[w].kind \notin Reviving => hook[w].status = "canceled"
         /\ hook[w].step # "subscription" => hook[w].kind \in {"created", "deleted", "paid"}
         /\ hook[w].kind \in Reviving => hook[w].sub \notin ended
         /\ hook[w].kind = "deleted" /\ w \notin unclean =>
              /\ hook[w].step # "subscription" => subs[hook[w].sub] = "canceled"
              /\ \A v \in Hooks : hook[v] # NoRecord /\ hook[v].sub = hook[w].sub =>
                    hook[v].kind \notin Reviving

\* An event that begins.
LEMMA BeginEnd ==
    ASSUME EndInv, NEW w \in Hooks, NEW s \in Subscriptions,
           NEW kind \in Reviving \cup {"deleted", "cancel"}, NEW status \in Statuses,
           HandleEvent(w, s, kind, status),
           kind \notin Reviving => status = "canceled",
           kind = "paid" => subs[s] = "past_due"
    PROVE  EndInv'
<1> DEFINE new == [kind |-> kind, sub |-> s, status |-> status, step |-> "subscription"]
<1>1. new \in EventTask /\ new.kind = kind /\ new.sub = s /\ new.status = status
      /\ new.step = "subscription"
  BY DEF EventTask
<1>2. /\ hook' = [hook EXCEPT ![w] = new] /\ subs' = subs /\ licences' = licences
      /\ ended' \subseteq ended
      /\ kind \in {"created", "updated"} => s \notin ended'
      /\ hook \in [Hooks -> EventTask \cup {NoRecord}]
  BY DEF HandleEvent, EndInv, EndTypeOK
<1>3. EndTypeOK' /\ EndIsFinal'
  BY <1>1, <1>2 DEF EndInv, EndTypeOK, EndIsFinal
<1>4. kind \in Reviving => s \notin ended'
  <2>1. kind = "paid" => s \notin ended
    BY DEF EndInv, EndIsFinal
  <2> QED
    BY <1>2, <2>1 DEF Reviving
<1> HIDE DEF new
<1>5. hook'[w] = new /\ \A v \in Hooks : v # w => hook'[v] = hook[v]
  BY <1>2
<1> SUFFICES ASSUME NEW u \in Hooks, hook'[u] # NoRecord
             PROVE  /\ hook'[u].kind \notin Reviving => hook'[u].status = "canceled"
                    /\ hook'[u].step # "subscription" => hook'[u].kind \in {"created", "deleted", "paid"}
                    /\ hook'[u].kind \in Reviving => hook'[u].sub \notin ended'
                    /\ hook'[u].kind = "deleted" /\ u \notin unclean' =>
                         /\ hook'[u].step # "subscription" => subs'[hook'[u].sub] = "canceled"
                         /\ \A v \in Hooks : hook'[v] # NoRecord /\ hook'[v].sub = hook'[u].sub =>
                               hook'[v].kind \notin Reviving
  BY <1>3 DEF EndInv
<1>6. CASE u = w
  <2>1. kind = "deleted" /\ w \notin unclean' => Handling(s, Reviving) = {}
    BY DEF HandleEvent, Reviving
  <2>2. ASSUME kind = "deleted", w \notin unclean', NEW v \in Hooks, hook'[v] # NoRecord, hook'[v].sub = s
        PROVE  hook'[v].kind \notin Reviving
    <3>1. CASE v = w
      BY <1>1, <1>5, <2>2, <3>1 DEF Reviving
    <3>2. CASE v # w
      BY <1>5, <2>1, <2>2, <3>2 DEF Handling
    <3> QED
      BY <3>1, <3>2
  <2> QED
    BY <1>1, <1>4, <1>5, <1>6, <2>2 DEF Reviving
<1>7. CASE u # w
  <2>1. hook'[u] = hook[u]
    BY <1>5, <1>7
  <2>2. ASSUME hook[u].kind = "deleted", u \notin unclean' PROVE u \notin unclean
    BY <1>7, <2>2 DEF HandleEvent
  <2>3. ASSUME hook[u].kind = "deleted", u \notin unclean', hook[u].sub = s PROVE kind \notin Reviving
    BY <2>1, <2>3 DEF HandleEvent, Handling
  <2>4. ASSUME hook[u].kind = "deleted", u \notin unclean', NEW v \in Hooks, hook'[v] # NoRecord,
               hook'[v].sub = hook[u].sub
        PROVE  hook'[v].kind \notin Reviving
    <3>1. CASE v = w
      BY <1>1, <1>5, <2>3, <2>4, <3>1
    <3>2. CASE v # w
      BY <1>5, <2>1, <2>2, <2>4, <3>2 DEF EndInv
    <3> QED
      BY <3>1, <3>2
  <2> QED
    BY <1>2, <2>1, <2>2, <2>4 DEF EndInv
<1> QED
  BY <1>6, <1>7

\* A call of the database other than the first.
LEMMA CallEnd ==
    ASSUME EndInv, NEW w \in Hooks, NEW done \in BOOLEAN,
           PutSubscription(w, done) \/ GetLicenseByOrg(w, done) \/ PutLicense(w, done)
    PROVE  EndInv'
<1>1. hook[w] # NoRecord /\ hook[w] \in EventTask
  BY DEF PutSubscription, GetLicenseByOrg, PutLicense, EndInv, EndTypeOK
<1>2. PICK r \in EventTask : r = hook[w]
  BY <1>1
<1>3. /\ r.sub \in Subscriptions /\ r.status \in Statuses
      /\ r.kind \in Reviving \cup {"deleted", "cancel"}
  BY DEF EventTask
<1>4. \E t \in {"lookup", "licence"} :
         \/ hook' = [hook EXCEPT ![w] = NoRecord]
         \/ hook' = [hook EXCEPT ![w].step = t] /\ r.kind \in {"created", "deleted", "paid"}
  BY <1>1, <1>2, <1>3 DEF PutSubscription, GetLicenseByOrg, PutLicense, Finish, EndInv, Reviving
<1>5. /\ \A v \in Hooks : v # w => hook'[v] = hook[v]
      /\ hook' \in [Hooks -> EventTask \cup {NoRecord}]
      /\ hook'[w] # NoRecord => /\ hook'[w].kind = r.kind /\ hook'[w].sub = r.sub
                               /\ hook'[w].status = r.status
                               /\ hook'[w].step # "subscription"
                               /\ r.kind \in {"created", "deleted", "paid"}
  <2>1. PICK t \in {"lookup", "licence"} :
           \/ hook' = [hook EXCEPT ![w] = NoRecord]
           \/ hook' = [hook EXCEPT ![w].step = t] /\ r.kind \in {"created", "deleted", "paid"}
    BY <1>4
  <2>2. hook \in [Hooks -> EventTask \cup {NoRecord}]
    BY DEF EndInv, EndTypeOK
  <2>3. PICK q \in EventTask : /\ q = [r EXCEPT !.step = t]
                              /\ q.kind = r.kind /\ q.sub = r.sub /\ q.status = r.status /\ q.step = t
    <3>1. [r EXCEPT !.step = t] \in EventTask
      BY DEF EventTask
    <3>2. /\ [r EXCEPT !.step = t].kind = r.kind /\ [r EXCEPT !.step = t].sub = r.sub
          /\ [r EXCEPT !.step = t].status = r.status /\ [r EXCEPT !.step = t].step = t
      BY DEF EventTask
    <3> QED
      BY <3>1, <3>2
  <2>4. hook' = [hook EXCEPT ![w] = NoRecord] \/ hook' = [hook EXCEPT ![w] = q]
    BY <1>2, <2>1, <2>2, <2>3
  <2>5. hook'[w] = NoRecord \/ (hook'[w] = q /\ r.kind \in {"created", "deleted", "paid"})
    BY <1>2, <2>1, <2>2, <2>3
  <2> QED
    BY <2>2, <2>3, <2>4, <2>5
<1>6. unclean \subseteq unclean'
  BY DEF PutSubscription, GetLicenseByOrg, PutLicense, Finish
<1>7. \/ subs' = subs
      \/ subs' = [subs EXCEPT ![r.sub] = r.status]
  BY <1>2 DEF PutSubscription, GetLicenseByOrg, PutLicense
<1>8. \/ licences' = licences
      \/ licences' = [licences EXCEPT ![r.sub] = "expired"]
      \/ licences' = [licences EXCEPT ![r.sub] = "active"] /\ r.kind \in Reviving
  <2>1. PutLicense(w, done) => r.kind \in {"created", "deleted", "paid"}
    BY <1>1, <1>2 DEF PutLicense, EndInv
  <2> QED
    BY <1>2, <2>1 DEF PutSubscription, GetLicenseByOrg, PutLicense, Reviving
<1>9. \/ ended' = ended
      \/ /\ ended' = ended \cup {r.sub} /\ r.kind = "deleted" /\ w \notin unclean
         /\ subs' = subs /\ subs[r.sub] = "canceled"
         /\ hook'[w] = NoRecord
         /\ licences'[r.sub] \in {NoRecord, "expired"}
  <2>0. hook \in [Hooks -> EventTask \cup {NoRecord}] /\ licences \in [Subscriptions -> Statuses \cup {NoRecord}]
    BY DEF EndInv, EndTypeOK
  <2>1. CASE PutSubscription(w, done)
    BY <2>1, <1>2 DEF PutSubscription, Finish
  <2>2. CASE GetLicenseByOrg(w, done)
    BY <2>0, <2>2, <1>1, <1>2, <1>3 DEF GetLicenseByOrg, Finish, EndInv
  <2>3. CASE PutLicense(w, done)
    <3>1. (r.kind = "deleted" /\ w \notin unclean) => subs[r.sub] = "canceled"
      BY <2>3, <1>1, <1>2 DEF PutLicense, EndInv
    <3>2. (r.kind = "deleted" /\ done) => licences'[r.sub] = "expired"
      BY <2>0, <2>3, <1>2, <1>3 DEF PutLicense
    <3>3. hook'[w] = NoRecord /\ subs' = subs
      BY <2>0, <2>3 DEF PutLicense, Finish
    <3> QED
      BY <2>3, <3>1, <3>2, <3>3, <1>2 DEF PutLicense, Finish
  <2> QED
    BY <2>1, <2>2, <2>3
<1>10. EndTypeOK'
  BY <1>3, <1>5, <1>7, <1>8, <1>9 DEF EndInv, EndTypeOK, Statuses
<1>11. /\ r.kind \notin Reviving => r.status = "canceled"
       /\ r.kind \in Reviving => r.sub \notin ended
  BY <1>1, <1>2 DEF EndInv
<1>12. \A s \in ended : subs'[s] = "canceled" /\ licences'[s] \in {NoRecord, "expired"}
  <2>1. /\ subs \in [Subscriptions -> Statuses \cup {NoRecord}]
        /\ licences \in [Subscriptions -> Statuses \cup {NoRecord}] /\ ended \subseteq Subscriptions
        /\ \A s \in ended : subs[s] = "canceled" /\ licences[s] \in {NoRecord, "expired"}
    BY DEF EndInv, EndTypeOK, EndIsFinal
  <2>2. \A s \in ended : subs'[s] = "canceled"
    BY <2>1, <1>7, <1>11
  <2>3. \A s \in ended : licences'[s] \in {NoRecord, "expired"}
    BY <2>1, <1>8, <1>11
  <2> QED
    BY <2>2, <2>3
<1>13. EndIsFinal'
  <2>1. CASE ended' = ended
    BY <2>1, <1>12 DEF EndIsFinal
  <2>2. CASE ended' = ended \cup {r.sub} /\ subs' = subs /\ subs[r.sub] = "canceled"
             /\ licences'[r.sub] \in {NoRecord, "expired"}
    BY <2>2, <1>12 DEF EndIsFinal
  <2> QED
    BY <2>1, <2>2, <1>9
<1>14. \A u \in Hooks : hook'[u] # NoRecord =>
          /\ hook[u] # NoRecord /\ hook'[u].kind = hook[u].kind
          /\ hook'[u].sub = hook[u].sub /\ hook'[u].status = hook[u].status
  BY <1>1, <1>2, <1>5
<1> SUFFICES ASSUME NEW u \in Hooks, hook'[u] # NoRecord
             PROVE  /\ hook'[u].kind \notin Reviving => hook'[u].status = "canceled"
                    /\ hook'[u].step # "subscription" => hook'[u].kind \in {"created", "deleted", "paid"}
                    /\ hook'[u].kind \in Reviving => hook'[u].sub \notin ended'
                    /\ hook'[u].kind = "deleted" /\ u \notin unclean' =>
                         /\ hook'[u].step # "subscription" => subs'[hook'[u].sub] = "canceled"
                         /\ \A v \in Hooks : hook'[v] # NoRecord /\ hook'[v].sub = hook'[u].sub =>
                               hook'[v].kind \notin Reviving
  BY <1>10, <1>13 DEF EndInv
<1>15. hook'[u].kind \notin Reviving => hook'[u].status = "canceled"
  BY <1>14 DEF EndInv
<1>16. hook'[u].step # "subscription" => hook'[u].kind \in {"created", "deleted", "paid"}
  <2>1. CASE u = w
    BY <2>1, <1>5
  <2>2. CASE u # w
    BY <2>2, <1>5 DEF EndInv
  <2> QED
    BY <2>1, <2>2
<1>17. hook'[u].kind \in Reviving => hook'[u].sub \notin ended'
  <2>1. hook[u].kind \in Reviving => hook[u].sub \notin ended
    BY <1>14 DEF EndInv
  <2>2. (r.kind = "deleted" /\ w \notin unclean /\ hook[u].sub = r.sub) => hook[u].kind \notin Reviving
    BY <1>1, <1>2, <1>14 DEF EndInv
  <2> QED
    BY <2>1, <2>2, <1>9, <1>14
<1>18. ASSUME hook'[u].kind = "deleted", u \notin unclean', NEW v \in Hooks, hook'[v] # NoRecord,
              hook'[v].sub = hook'[u].sub
       PROVE  hook'[v].kind \notin Reviving
  <2>1. u \notin unclean /\ hook[u].kind = "deleted"
    BY <1>6, <1>14, <1>18
  <2>2. hook[v] # NoRecord /\ hook[v].kind = hook'[v].kind /\ hook[v].sub = hook[u].sub
    BY <1>14, <1>18
  <2> QED
    BY <2>1, <2>2, <1>14 DEF EndInv
<1>19. ASSUME hook'[u].kind = "deleted", u \notin unclean', hook'[u].step # "subscription"
       PROVE  subs'[hook'[u].sub] = "canceled"
  <2>0. /\ subs \in [Subscriptions -> Statuses \cup {NoRecord}]
        /\ hook[u] \in EventTask
    BY <1>14 DEF EndInv, EndTypeOK
  <2>1. PICK s \in Subscriptions : s = hook[u].sub
    BY <2>0 DEF EventTask
  <2>2. u \notin unclean /\ hook[u].kind = "deleted" /\ hook'[u].sub = s
    BY <1>6, <1>14, <1>19, <2>1
  <2>3. CASE u # w
    <3>1. subs[s] = "canceled"
      BY <1>5, <1>14, <1>19, <2>1, <2>2, <2>3 DEF EndInv
    <3>2. r.sub = s => r.kind \notin Reviving
      BY <1>1, <1>2, <1>14, <2>1, <2>2 DEF EndInv
    <3> QED
      BY <1>7, <1>11, <2>0, <2>2, <3>1, <3>2
  <2>4. CASE u = w
    <3>1. r.kind = "deleted" /\ r.sub = s
      BY <1>2, <2>1, <2>2, <2>4
    <3>2. CASE PutSubscription(w, done)
      <4>1. done
        BY <1>2, <1>19, <2>4, <3>1, <3>2 DEF PutSubscription
      <4>2. r.status = "canceled"
        BY <1>11, <3>1 DEF Reviving
      <4> QED
        BY <1>2, <2>0, <2>2, <3>1, <3>2, <4>1, <4>2 DEF PutSubscription
    <3>3. CASE GetLicenseByOrg(w, done) \/ PutLicense(w, done)
      <4>1. hook[w].step # "subscription" /\ subs' = subs
        BY <3>3 DEF GetLicenseByOrg, PutLicense
      <4>2. subs[s] = "canceled"
        BY <1>14, <2>1, <2>2, <2>4, <4>1 DEF EndInv
      <4> QED
        BY <2>2, <4>1, <4>2
    <3> QED
      BY <3>2, <3>3
  <2> QED
    BY <2>3, <2>4
<1> QED
  BY <1>15, <1>16, <1>17, <1>18, <1>19

\* No order, repetition, overlap or failure of the webhook events breaks the invariant.
LEMMA StepEnd == EndInv /\ [StripeNext]_stripeVars => EndInv'
<1> SUFFICES ASSUME EndInv, [StripeNext]_stripeVars PROVE EndInv'
  OBVIOUS
<1>1. ASSUME NEW w \in Hooks, NEW s \in Subscriptions, NEW status \in {"active", "past_due", "canceled"},
             handleSubscriptionCreated(w, s, status) \/ handleSubscriptionUpdated(w, s, status)
      PROVE  EndInv'
  <2>1. PICK kind \in {"created", "updated"} : HandleEvent(w, s, kind, status)
    BY <1>1 DEF handleSubscriptionCreated, handleSubscriptionUpdated
  <2>2. /\ status \in Statuses /\ kind \in Reviving /\ kind \in Reviving \cup {"deleted", "cancel"}
        /\ kind # "paid"
    BY DEF Statuses, Reviving
  <2> QED
    BY <2>1, <2>2, BeginEnd
<1>2. ASSUME NEW w \in Hooks, NEW s \in Subscriptions, handleInvoicePaid(w, s) PROVE EndInv'
  <2>1. HandleEvent(w, s, "paid", "active") /\ subs[s] = "past_due"
    BY <1>2 DEF handleInvoicePaid
  <2>2. "active" \in Statuses /\ "paid" \in Reviving
    BY DEF Statuses, Reviving
  <2> QED
    BY <2>1, <2>2, BeginEnd
<1>3. ASSUME NEW w \in Hooks, NEW s \in Subscriptions,
             handleSubscriptionDeleted(w, s) \/ CancelSubscription(w, s)
      PROVE  EndInv'
  <2>1. PICK kind \in {"deleted", "cancel"} : HandleEvent(w, s, kind, "canceled")
    BY <1>3 DEF handleSubscriptionDeleted, CancelSubscription
  <2>2. "canceled" \in Statuses /\ kind # "paid"
    BY DEF Statuses
  <2> QED
    BY <2>1, <2>2, BeginEnd
<1>4. CASE UNCHANGED stripeVars
  <2>1. subs' = subs /\ licences' = licences /\ hook' = hook /\ ended' = ended /\ unclean' = unclean
    BY <1>4 DEF stripeVars
  <2> QED
    BY <2>1 DEF EndInv, EndTypeOK, EndIsFinal
<1> QED
  BY <1>1, <1>2, <1>3, <1>4, CallEnd DEF StripeNext

\* Whatever Stripe delivers late, twice, out of order or at the same time, and whichever
\* writes the database loses: once a deletion has been handled undisturbed, only a
\* creation or an update brings the subscription or its licence back.
THEOREM EndStays == StripeSpec => []EndIsFinal
<1>1. BillingInit => EndInv
  BY DEF BillingInit, EndInv, EndTypeOK, EndIsFinal
<1>2. EndInv => EndIsFinal
  BY DEF EndInv
<1> QED
  BY <1>1, <1>2, StepEnd, PTL DEF StripeSpec

-----------------------------------------------------------------------------
(***************************************************************************)
(* Learning mode, for any number of paths and rules and any thresholds.    *)
(***************************************************************************)
Baseline == [total : Nat, allowed : Nat, seen : Nat]

\* A baseline counts exactly the decisions recorded since the path was last forgotten.
CountsInv ==
    /\ baselines \in [Paths -> Baseline \cup {Absent}]
    /\ whitelist \in [Paths -> Nat \cup {Absent}]
    /\ learnTime \in Nat
    /\ records \in [Paths -> [allowed : Nat, other : Nat]]
    /\ \A p \in Paths :
         LET n == IF baselines[p] = Absent THEN [total |-> 0, allowed |-> 0, seen |-> 0] ELSE baselines[p]
         IN  n.total = records[p].allowed + records[p].other /\ n.allowed = records[p].allowed

\* The base of a rule that was confirmed b times and never wrong.
Earned(b) == Least(Hundredths(99), Hundredths(85) + Hundredths(b))

\* Hundredths, without the product.
LEMMA HundredthsAdd ==
    /\ \A n \in Nat : Hundredths(n) \in Nat /\ Hundredths(n + 1) = Hundredths(n) + Hundredths(1)
    /\ \A m, n \in Nat : m <= n => Hundredths(m) <= Hundredths(n)
    /\ Hundredths(0) = 0
<1>1. Cent \in Nat
  BY LearningAssumption
<1>2. ASSUME NEW n \in Nat PROVE n * Cent \in Nat /\ (n + 1) * Cent = n * Cent + 1 * Cent
  BY <1>1
<1>3. ASSUME NEW m \in Nat, NEW n \in Nat, m <= n PROVE m * Cent <= n * Cent
  BY <1>1, <1>3
<1> QED
  BY <1>1, <1>2, <1>3 DEF Hundredths

\* The confidences the code names.
LEMMA Levels ==
    /\ Hundredths(50) \in Nat /\ Hundredths(85) \in Nat /\ Hundredths(99) \in Nat
    /\ Hundredths(1) \in Nat /\ Hundredths(20) \in Nat
    /\ Hundredths(50) <= Hundredths(85) /\ Hundredths(85) <= Hundredths(99)
BY LearningAssumption DEF Hundredths

\* What is earned grows with the confirmations, a hundredth for each up to 0.99.
LEMMA EarnedGrows ==
    /\ Earned(0) = Hundredths(85)
    /\ \A b \in Nat : /\ Earned(b) \in Nat
                      /\ Hundredths(85) <= Earned(b) /\ Earned(b) <= Hundredths(99)
                      /\ Earned(b + 1) = Least(Hundredths(99), Earned(b) + Hundredths(1))
    /\ \A a, b \in Nat : a <= b => Earned(a) <= Earned(b)
<1>2. ASSUME NEW b \in Nat
      PROVE  /\ Earned(b) \in Nat
             /\ Hundredths(85) <= Earned(b) /\ Earned(b) <= Hundredths(99)
             /\ Earned(b + 1) = Least(Hundredths(99), Earned(b) + Hundredths(1))
  <2>1. Hundredths(b) \in Nat /\ Hundredths(b + 1) = Hundredths(b) + Hundredths(1)
    BY HundredthsAdd
  <2> QED
    BY <2>1, Levels DEF Earned, Least
<1>3. ASSUME NEW a \in Nat, NEW b \in Nat, a <= b PROVE Earned(a) <= Earned(b)
  <2>1. Hundredths(a) \in Nat /\ Hundredths(b) \in Nat /\ Hundredths(a) <= Hundredths(b)
    BY <1>3, HundredthsAdd
  <2> QED
    BY <2>1, Levels DEF Earned, Least
<1>4. Earned(0) = Hundredths(85)
  BY LearningAssumption DEF Earned, Least, Hundredths
<1> QED
  BY <1>2, <1>3, <1>4

\* A confirmation raises the base by a hundredth up to 0.99, and a false positive only
\* lowers it, so no rule with as many confirmations has a higher base than one that was
\* never wrong.
TrustInv ==
    /\ stability \in [RuleNames -> [bad : Nat, false : Nat, base : Int]]
    /\ \A r \in RuleNames :
         /\ stability[r].base >= Hundredths(50)
         /\ stability[r].base <= Earned(stability[r].bad)
         /\ stability[r].false = 0 =>
                stability[r].base = Earned(stability[r].bad)

LearnInv == CountsInv /\ TrustInv

\* Nothing was learnt yet.
LEMMA InitLearn == LearnInit => LearnInv
<1> SUFFICES ASSUME LearnInit PROVE LearnInv
  OBVIOUS
<1>1. CountsInv
  BY LearningAssumption DEF LearnInit, CountsInv
<1>2. TrustInv
  <2>1. Hundredths(85) \in Int /\ Hundredths(85) >= Hundredths(50) /\ Earned(0) = Hundredths(85)
    BY EarnedGrows, Levels
  <2> QED
    BY <2>1 DEF LearnInit, TrustInv
<1> QED
  BY <1>1, <1>2 DEF LearnInv

\* Nine tenths with the code's integer division is nine tenths.
LEMMA NineTenths ==
    ASSUME NEW a \in Nat, NEW n \in Nat, a > (n * 90) \div 100
    PROVE  10 * a > 9 * n
OBVIOUS

\* RecordDecision counts the decision and lists the path only if its count earns it.
LEMMA RecordStep ==
    ASSUME CountsInv, NEW p \in Paths, NEW ok \in BOOLEAN, Record(p, ok)
    PROVE  /\ CountsInv'
           /\ whitelist' # whitelist =>
                 /\ whitelist[p] = Absent
                 /\ whitelist' = [whitelist EXCEPT ![p] = learnTime + WhitelistTTL]
                 /\ LET n == records'[p].allowed + records'[p].other
                    IN  n > MinRecords /\ 10 * records'[p].allowed > 9 * n
<1> DEFINE add == IF ok THEN 1 ELSE 0
<1>1. PICK o \in Baseline, m \in Nat, k \in Nat :
          /\ o = IF baselines[p] = Absent THEN [total |-> 0, allowed |-> 0, seen |-> 0] ELSE baselines[p]
          /\ m = o.total + 1 /\ k = o.allowed + add
  <2>1. PICK o \in Baseline : o = IF baselines[p] = Absent THEN [total |-> 0, allowed |-> 0, seen |-> 0] ELSE baselines[p]
    BY DEF CountsInv, Baseline
  <2>2. o.total + 1 \in Nat /\ o.allowed + add \in Nat
    BY DEF Baseline
  <2> QED
    BY <2>1, <2>2
<1>2. PICK r \in [allowed : Nat, other : Nat] : r = records[p]
  BY DEF CountsInv
<1>3. o.total = r.allowed + r.other /\ o.allowed = r.allowed
  BY <1>1, <1>2 DEF CountsInv
<1> DEFINE new == [total |-> m, seen |-> learnTime, allowed |-> k]
<1>4. /\ new \in Baseline /\ new.total = o.total + 1 /\ new.allowed = o.allowed + add /\ add \in 0 .. 1
  BY <1>1 DEF CountsInv, Baseline
<1>5. /\ baselines' = [baselines EXCEPT ![p] = new]
      /\ whitelist' = autoWhitelist(p, new)
      /\ learnTime' = learnTime
  BY <1>1 DEF Record
<1>6. /\ records' \in [Paths -> [allowed : Nat, other : Nat]]
      /\ records'[p].allowed = r.allowed + add
      /\ records'[p].other = r.other + 1 - add
      /\ \A q \in Paths \ {p} : records'[q] = records[q]
  <2>1. PICK a \in Nat, c \in Nat : a = r.allowed + 1 /\ c = r.other + 1
    OBVIOUS
  <2>2. CASE ok
    <3>1. records' = [records EXCEPT ![p] = [r EXCEPT !.allowed = a]]
      BY <1>2, <2>1, <2>2 DEF Record, CountsInv
    <3>2. /\ [r EXCEPT !.allowed = a] \in [allowed : Nat, other : Nat]
          /\ [r EXCEPT !.allowed = a].allowed = a /\ [r EXCEPT !.allowed = a].other = r.other
      OBVIOUS
    <3> QED
      BY <1>2, <2>1, <2>2, <3>1, <3>2 DEF CountsInv
  <2>3. CASE ~ok
    <3>1. records' = [records EXCEPT ![p] = [r EXCEPT !.other = c]]
      BY <1>2, <2>1, <2>3 DEF Record, CountsInv
    <3>2. /\ [r EXCEPT !.other = c] \in [allowed : Nat, other : Nat]
          /\ [r EXCEPT !.other = c].other = c /\ [r EXCEPT !.other = c].allowed = r.allowed
      OBVIOUS
    <3> QED
      BY <1>2, <2>1, <2>3, <3>1, <3>2 DEF CountsInv
  <2> QED
    BY <2>2, <2>3
<1> HIDE DEF new, add
<1>7. whitelist' \in [Paths -> Nat \cup {Absent}]
  <2>1. learnTime + WhitelistTTL \in Nat /\ whitelist \in [Paths -> Nat \cup {Absent}]
    BY LearningAssumption DEF CountsInv
  <2> QED
    BY <1>5, <2>1 DEF autoWhitelist
<1>8. CountsInv'
  <2> SUFFICES ASSUME NEW q \in Paths
               PROVE  (LET n == IF baselines[q] = Absent THEN [total |-> 0, allowed |-> 0, seen |-> 0] ELSE baselines[q]
                       IN  n.total = records[q].allowed + records[q].other /\ n.allowed = records[q].allowed)'
    BY <1>4, <1>5, <1>6, <1>7 DEF CountsInv
  <2>1. CASE q = p
    <3>1. baselines'[p] = new /\ new # Absent
      BY <1>4, <1>5, LearningAssumption DEF CountsInv, Baseline
    <3>2. o.total \in Nat /\ o.allowed \in Nat /\ r.allowed \in Nat /\ r.other \in Nat
      BY DEF Baseline
    <3>3. new.total = records'[p].allowed + records'[p].other /\ new.allowed = records'[p].allowed
      BY <1>3, <1>4, <1>6, <3>2
    <3> QED
      BY <2>1, <3>1, <3>3
  <2>2. CASE q # p
    <3>1. baselines'[q] = baselines[q] /\ records'[q] = records[q]
      BY <1>5, <1>6, <2>2 DEF CountsInv
    <3> QED
      BY <3>1 DEF CountsInv
  <2> QED
    BY <2>1, <2>2
<1>9. ASSUME whitelist' # whitelist
      PROVE  /\ whitelist[p] = Absent
             /\ whitelist' = [whitelist EXCEPT ![p] = learnTime + WhitelistTTL]
             /\ LET n == records'[p].allowed + records'[p].other
                IN  n > MinRecords /\ 10 * records'[p].allowed > 9 * n
  <2>1. Enough(new) /\ whitelist[p] = Absent /\ whitelist' = [whitelist EXCEPT ![p] = learnTime + WhitelistTTL]
    BY <1>5, <1>9 DEF autoWhitelist
  <2>2. /\ records'[p].allowed + records'[p].other = new.total
        /\ records'[p].allowed = new.allowed
        /\ new.total \in Nat /\ new.allowed \in Nat
    <3>1. new.total \in Nat /\ new.allowed \in Nat /\ o.total \in Nat /\ o.allowed \in Nat
      BY <1>4 DEF Baseline
    <3>2. PICK a \in Nat, c \in Nat : a = r.allowed /\ c = r.other
      OBVIOUS
    <3> QED
      BY <1>3, <1>4, <1>6, <3>1, <3>2
  <2>3. new.total > MinRecords /\ 10 * new.allowed > 9 * new.total
    BY <2>1, <2>2, NineTenths DEF Enough
  <2> QED
    BY <2>1, <2>2, <2>3
<1> QED
  BY <1>8, <1>9

\* cleanup forgets baselines and lapsed entries, and lists nothing.
LEMMA CleanupStep ==
    ASSUME CountsInv, LearnCleanup
    PROVE  /\ CountsInv'
           /\ \A p \in Paths : whitelist'[p] # whitelist[p] =>
                 whitelist'[p] = Absent /\ ~IsWhitelisted(p)
<1> DEFINE idle(p) == baselines[p] # Absent /\ learnTime > baselines[p].seen + BaselineTTL
<1>1. /\ \A p \in Paths : whitelist'[p] =
              IF whitelist[p] # Absent /\ learnTime > whitelist[p] THEN Absent ELSE whitelist[p]
      /\ baselines' = [p \in Paths |-> IF idle(p) THEN Absent ELSE baselines[p]]
      /\ records' = [p \in Paths |->
              IF idle(p) THEN [allowed |-> 0, other |-> 0] ELSE records[p]]
      /\ learnTime' = learnTime
      /\ whitelist' \in [Paths -> Nat \cup {Absent}]
  BY DEF LearnCleanup, CountsInv
<1>2. \A p \in Paths : whitelist'[p] # whitelist[p] => whitelist'[p] = Absent /\ ~IsWhitelisted(p)
  <2> TAKE p \in Paths
  <2> HAVE whitelist'[p] # whitelist[p]
  <2>1. whitelist[p] # Absent /\ learnTime > whitelist[p] /\ whitelist'[p] = Absent
    BY <1>1
  <2>2. whitelist[p] \in Nat /\ learnTime \in Nat
    BY <2>1 DEF CountsInv
  <2> QED
    BY <2>1, <2>2 DEF IsWhitelisted
<1>3. baselines' \in [Paths -> Baseline \cup {Absent}]
  BY <1>1 DEF CountsInv
<1>4. records' \in [Paths -> [allowed : Nat, other : Nat]]
  BY <1>1 DEF CountsInv
<1>5. ASSUME NEW p \in Paths
      PROVE  (LET n == IF baselines[p] = Absent THEN [total |-> 0, allowed |-> 0, seen |-> 0] ELSE baselines[p]
              IN  n.total = records[p].allowed + records[p].other /\ n.allowed = records[p].allowed)'
  <2>1. CASE idle(p)
    BY <1>1, <2>1
  <2>2. CASE ~idle(p)
    BY <1>1, <2>2 DEF CountsInv
  <2> QED
    BY <2>1, <2>2
<1> QED
  BY <1>1, <1>2, <1>3, <1>4, <1>5 DEF CountsInv

\* Integer division of naturals gives a natural.
LEMMA Quotient == \A x \in Nat, y \in Nat \ {0} : x \div y \in Nat
OBVIOUS

\* Feedback moves the base of a confidence no further than its history says.
LEMMA ConfidenceStep == TrustInv /\ ConfidenceNext => TrustInv'
<1> SUFFICES ASSUME TrustInv, NEW r \in RuleNames, RecordTruePositive(r) \/ RecordFalsePositive(r)
             PROVE  TrustInv'
  BY DEF ConfidenceNext
<1>1. PICK s \in [bad : Nat, false : Nat, base : Int] : s = stability[r]
  BY DEF TrustInv
<1>2. /\ s.base >= Hundredths(50)
      /\ s.base <= Earned(s.bad)
      /\ s.false = 0 => s.base = Earned(s.bad)
  BY <1>1 DEF TrustInv
<1>3. PICK t \in [bad : Nat, false : Nat, base : Int] :
          /\ stability' = [stability EXCEPT ![r] = t]
          /\ t.base >= Hundredths(50)
          /\ t.base <= Earned(t.bad)
          /\ t.false = 0 => t.base = Earned(t.bad)
  <2>1. CASE RecordTruePositive(r)
    <3>1. PICK b \in Nat, e \in Int : b = s.bad + 1 /\ e = Least(Hundredths(99), s.base + Hundredths(1))
      BY Levels DEF Least
    <3> DEFINE t == [s EXCEPT !.bad = b, !.base = e]
    <3>2. stability' = [stability EXCEPT ![r] = t]
      BY <1>1, <2>1, <3>1 DEF RecordTruePositive, TrustInv
    <3>3. t \in [bad : Nat, false : Nat, base : Int] /\ t.bad = b /\ t.base = e /\ t.false = s.false
      OBVIOUS
    <3> HIDE DEF t
    <3>5. /\ t.base >= Hundredths(50)
          /\ t.base <= Earned(t.bad)
          /\ t.false = 0 => t.base = Earned(t.bad)
      <4>1. /\ Earned(b) = Least(Hundredths(99), Earned(s.bad) + Hundredths(1))
            /\ Earned(s.bad) \in Nat
        BY <3>1, EarnedGrows
      <4> QED
        BY <1>2, <3>1, <3>3, <4>1, Levels DEF Least
    <3> QED
      BY <3>1, <3>2, <3>3, <3>5
  <2>2. CASE RecordFalsePositive(r)
    <3> DEFINE cut == (Hundredths(20) * (s.false + 1)) \div (s.bad + s.false + 1)
    <3>1. cut \in Nat
      <4>1. Hundredths(20) * (s.false + 1) \in Nat
        BY Levels
      <4> QED
        BY <4>1, Quotient
    <3>2. PICK b \in Nat, e \in Int : b = s.false + 1 /\ e = Most(Hundredths(50), s.base - cut)
      BY <3>1, Levels DEF Most
    <3> DEFINE t == [s EXCEPT !.false = b, !.base = e]
    <3>3. stability' = [stability EXCEPT ![r] = t]
      BY <1>1, <2>2, <3>2 DEF RecordFalsePositive, TrustInv, Feedback
    <3>4. t \in [bad : Nat, false : Nat, base : Int] /\ t.false = b /\ t.base = e /\ t.bad = s.bad
      OBVIOUS
    <3> HIDE DEF cut, t
    <3>5. /\ t.base >= Hundredths(50)
          /\ t.base <= Earned(t.bad)
          /\ t.false = 0 => t.base = Earned(t.bad)
      <4>1. Hundredths(50) \in Nat /\ Earned(s.bad) \in Int /\ Hundredths(50) <= Earned(s.bad)
        BY EarnedGrows, Levels
      <4> QED
        BY <1>2, <3>1, <3>2, <3>4, <4>1 DEF Most
    <3> QED
      BY <3>1, <3>2, <3>3, <3>4, <3>5
  <2> QED
    BY <2>1, <2>2
<1> QED
  BY <1>3 DEF TrustInv

\* What each step does, for the action properties.
LEMMA StepLearn ==
    ASSUME LearnInv, [LearnNext \/ ConfidenceNext]_learnVars
    PROVE  /\ LearnInv'
           /\ \A p \in Paths : whitelist[p] = Absent /\ whitelist'[p] # Absent =>
                 LET n == records'[p].allowed + records'[p].other
                 IN  n > MinRecords /\ 10 * records'[p].allowed > 9 * n
           /\ \A p \in Paths : whitelist[p] # Absent /\ whitelist'[p] # whitelist[p] =>
                 whitelist'[p] = Absent /\ ~IsWhitelisted(p)
<1>1. CountsInv /\ TrustInv
  BY DEF LearnInv
<1>2. ASSUME NEW p \in Paths, NEW ok \in BOOLEAN, Record(p, ok)
      PROVE  /\ LearnInv'
             /\ \A q \in Paths : whitelist[q] = Absent /\ whitelist'[q] # Absent =>
                   LET n == records'[q].allowed + records'[q].other
                   IN  n > MinRecords /\ 10 * records'[q].allowed > 9 * n
             /\ \A q \in Paths : whitelist[q] # Absent => whitelist'[q] = whitelist[q]
  <2>1. TrustInv'
    BY <1>1, <1>2 DEF Record, TrustInv
  <2>2. \A q \in Paths : whitelist'[q] # whitelist[q] => q = p
    BY <1>1, <1>2, RecordStep, SMTT(30) DEF CountsInv
  <2> QED
    BY <1>1, <1>2, <2>1, <2>2, RecordStep DEF LearnInv
<1>3. ASSUME LearnCleanup
      PROVE  /\ LearnInv'
             /\ \A p \in Paths : whitelist'[p] # whitelist[p] =>
                   whitelist'[p] = Absent /\ ~IsWhitelisted(p)
  <2>1. TrustInv'
    BY <1>1, <1>3 DEF LearnCleanup, TrustInv
  <2> QED
    BY <1>1, <1>3, <2>1, CleanupStep DEF LearnInv
<1>4. ASSUME LearnTick \/ UNCHANGED learnVars PROVE LearnInv' /\ whitelist' = whitelist
  BY <1>1, <1>4 DEF LearnTick, learnVars, LearnInv, CountsInv, TrustInv
<1>5. ASSUME ConfidenceNext PROVE LearnInv' /\ whitelist' = whitelist
  <2>1. CountsInv' /\ whitelist' = whitelist
    BY <1>1, <1>5 DEF ConfidenceNext, RecordTruePositive, RecordFalsePositive, CountsInv
  <2> QED
    BY <1>1, <1>5, <2>1, ConfidenceStep DEF LearnInv
<1> QED
  BY <1>2, <1>3, <1>4, <1>5 DEF LearnNext

\* Of two rules with as much feedback, one that was never wrong is trusted no less.
LEMMA InvTrusted == TrustInv => RightRulesTrusted
<1> SUFFICES ASSUME TrustInv PROVE RightRulesTrusted
  OBVIOUS
<1>1. \A r \in RuleNames : stability[r].base \in Hundredths(50) .. Hundredths(99)
  <2>1. ASSUME NEW r \in RuleNames
        PROVE  /\ stability[r].base \in Int /\ stability[r].bad \in Nat
               /\ stability[r].base >= Hundredths(50) /\ stability[r].base <= Earned(stability[r].bad)
    BY DEF TrustInv
  <2>2. ASSUME NEW r \in RuleNames PROVE stability[r].base \in Hundredths(50) .. Hundredths(99)
    <3>1. Earned(stability[r].bad) \in Nat /\ Earned(stability[r].bad) <= Hundredths(99)
      BY <2>1, EarnedGrows
    <3> QED
      BY <2>1, <3>1, Levels
  <2> QED
    BY <2>2
<1>2. ASSUME NEW r \in RuleNames, NEW s \in RuleNames, Feedback(r) = Feedback(s), stability[r].false = 0
      PROVE  GetConfidence(r) >= GetConfidence(s)
  <2>1. PICK a \in Nat, b \in Nat, c \in Nat, d \in Nat, e \in Nat :
            /\ a = stability[r].base /\ b = stability[r].bad
            /\ c = stability[s].base /\ d = stability[s].bad /\ e = stability[s].false
    <3>1. /\ stability[r].base \in Nat /\ stability[r].bad \in Nat
          /\ stability[s].base \in Nat /\ stability[s].bad \in Nat /\ stability[s].false \in Nat
      BY Levels DEF TrustInv
    <3> QED
      BY <3>1
  <2>2. /\ b = d + e
        /\ a = Earned(b) /\ c <= Earned(d)
        /\ e = 0 => c = Earned(d)
    <3>1. Feedback(r) = b /\ Feedback(s) = d + e
      BY <1>2, <2>1 DEF Feedback
    <3>2. /\ a = Earned(b)
          /\ c <= Earned(d)
          /\ e = 0 => c = Earned(d)
      BY <1>2, <2>1 DEF TrustInv
    <3>3. b = d + e
      BY <1>2, <3>1
    <3> QED
      BY <3>2, <3>3
  <2>3. c <= a /\ d <= b
    <3>1. d <= b
      BY <2>2
    <3>2. Earned(d) <= Earned(b) /\ Earned(d) \in Nat /\ Earned(b) \in Nat
      BY <3>1, EarnedGrows
    <3> QED
      BY <2>2, <3>1, <3>2
  <2>4. c * d <= a * b
    <3>1. c * d <= a * d
      BY <2>3
    <3>2. a * d <= a * b
      BY <2>3
    <3> QED
      BY <3>1, <3>2
  <2>5. CASE b = 0
    <3>1. d = 0 /\ e = 0 /\ a = c
      BY <2>2, <2>5
    <3>2. Feedback(r) = 0 /\ Feedback(s) = 0
      BY <1>2, <2>1, <2>5, <3>1 DEF Feedback
    <3> QED
      BY <2>1, <3>1, <3>2 DEF GetConfidence
  <2>6. CASE b # 0
    BY <1>2, <2>1, <2>2, <2>4, <2>6 DEF Feedback, GetConfidence
  <2> QED
    BY <2>5, <2>6
<1> QED
  BY <1>1, <1>2 DEF RightRulesTrusted

\* Whatever is recorded and whenever cleanup runs, a path gets on the whitelist only on
\* enough fresh evidence, stays no longer than the time of its grant, and a rule that
\* was never wrong is trusted no less than another with as many reports.
THEOREM TrustEarned == LearnSpec => LearningSound
<1>1. LearnInv => TrustInv
  BY DEF LearnInv
<1>2. LearnInv /\ [LearnNext \/ ConfidenceNext]_learnVars => LearnInv'
  BY StepLearn
<1>3. LearnInv /\ [LearnNext \/ ConfidenceNext]_learnVars =>
        [\A p \in Paths : whitelist[p] = Absent /\ whitelist'[p] # Absent =>
           LET n == records'[p].allowed + records'[p].other
           IN  n > MinRecords /\ 10 * records'[p].allowed > 9 * n]_learnVars
  BY StepLearn
<1>4. LearnInv /\ [LearnNext \/ ConfidenceNext]_learnVars =>
        [\A p \in Paths : whitelist[p] # Absent /\ whitelist'[p] # whitelist[p] =>
           whitelist'[p] = Absent /\ ~IsWhitelisted(p)]_learnVars
  BY StepLearn
<1>5. LearnSpec => []LearnInv
  BY InitLearn, <1>2, PTL DEF LearnSpec
<1>6. LearnSpec => WhitelistEarned
  BY <1>3, <1>5, PTL DEF LearnSpec, WhitelistEarned
<1>7. LearnSpec => GrantNotProlonged
  BY <1>4, <1>5, PTL DEF LearnSpec, GrantNotProlonged
<1>8. LearnSpec => []RightRulesTrusted
  BY <1>1, <1>5, InvTrusted, PTL
<1> QED
  BY <1>6, <1>7, <1>8 DEF LearningSound

-----------------------------------------------------------------------------
(***************************************************************************)
(* The admin tokens and records, for any number of them and of requests.   *)
(***************************************************************************)
LEMMA LeastNat ==
    ASSUME NEW S, S \subseteq Nat, S # {}
    PROVE  \E k \in S : \A j \in S : k <= j
<1>1. PICK k \in S : \A j \in S : <<j, k>> \notin OpToRel(<, Nat)
  BY NatLessThanWellFounded, WFMin
<1>2. ASSUME NEW j \in S PROVE k <= j
  <2>1. j \in Nat /\ k \in Nat /\ ~(j < k)
    BY <1>1 DEF OpToRel
  <2> QED
    BY <2>1
<1> QED
  BY <1>2

-----------------------------------------------------------------------------
(* The admin API, for any number of requests and records.                  *)

AccessInv == keys \in KeyLists /\ LoginTokenWorks

Tenant == [id : Nat, name : TenantNames, renamed : BOOLEAN]
Alert == [at : Nat, placed : Nat, acked : BOOLEAN]

TenantInv == tenants \in Seq(Tenant) /\ TenantNamesUnique

\* The list is in the order in which alerts entered it, and each read the clock before it
\* entered; what was dropped had entered before all that is listed.
AlertInv ==
    /\ registered \in Nat
    /\ creating \in [Calls -> Nat \cup {NoCall}]
    /\ \A c \in Calls : creating[c] # NoCall => creating[c] < registered
    /\ alerts \in Seq(Alert)
    /\ Len(alerts) <= AlertCap
    /\ \A i \in 1 .. Len(alerts) : alerts[i].at < alerts[i].placed /\ alerts[i].placed < registered
    /\ \A i, j \in 1 .. Len(alerts) : i < j => alerts[i].placed > alerts[j].placed
    /\ dropped \subseteq Nat
    /\ \A at \in dropped : at < registered /\ \A i \in 1 .. Len(alerts) : alerts[i].placed > at

RecordInv == TenantInv /\ AlertInv

\* Nobody has logged in and no record is made yet.
LEMMA InitAdmin == AdminInit => AccessInv /\ RecordInv
<1> SUFFICES ASSUME AdminInit PROVE AccessInv /\ RecordInv
  OBVIOUS
<1>1. AccessInv
  BY DEF AdminInit, AccessInv, LoginTokenWorks
<1>2. TenantInv
  BY DEF AdminInit, TenantInv, TenantNamesUnique
<1>3. AlertInv
  BY AdminAssumption DEF AdminInit, AlertInv
<1> QED
  BY <1>1, <1>2, <1>3 DEF RecordInv

\* A login hands out a key, and a reload takes back what it handed out.
LEMMA AccessStep == AccessInv /\ AccessNext => AccessInv'
<1> SUFFICES ASSUME AccessInv, AccessNext PROVE AccessInv'
  OBVIOUS
<1>1. ASSUME NEW email \in Secrets, NEW password \in Secrets, handleAuthLogin(email, password)
      PROVE  AccessInv'
  <2>1. keys \in Seq(Secrets) /\ keys # <<>> /\ keys' = keys /\ lastLogin' = keys[1]
    BY <1>1, AdminAssumption DEF AccessInv, handleAuthLogin
  <2>2. keys[1] \in ToSet(keys)
    BY <2>1 DEF ToSet
  <2> QED
    BY <2>1, <2>2 DEF AccessInv, LoginTokenWorks, adminAuthMiddleware
<1>2. ASSUME NEW new \in KeyLists, KeysReloaded(new) PROVE AccessInv'
  BY <1>2 DEF KeysReloaded, AccessInv, LoginTokenWorks
<1> QED
  BY <1>1, <1>2 DEF AccessNext

\* The entries before i stay, those after it move up by one.
LEMMA Removed ==
    ASSUME NEW S, NEW s \in Seq(S), NEW i \in 1 .. Len(s)
    PROVE  /\ RemoveAt(s, i) \in Seq(S) /\ Len(RemoveAt(s, i)) = Len(s) - 1
           /\ \A j \in 1 .. Len(s) - 1 : RemoveAt(s, i)[j] = s[IF j < i THEN j ELSE j + 1]
<1> DEFINE a == SubSeq(s, 1, i - 1)
           b == SubSeq(s, i + 1, Len(s))
<1>1. a \in Seq(S) /\ Len(a) = i - 1 /\ \A j \in 1 .. i - 1 : a[j] = s[j]
  OBVIOUS
<1>2. b \in Seq(S) /\ Len(b) = Len(s) - i /\ \A j \in 1 .. Len(s) - i : b[j] = s[i + j]
  <2>1. /\ b \in Seq(S) /\ Len(b) = IF i + 1 <= Len(s) THEN Len(s) - (i + 1) + 1 ELSE 0
        /\ \A j \in 1 .. Len(s) - (i + 1) + 1 : b[j] = s[i + 1 + j - 1]
    BY SubSeqProperties
  <2> QED
    BY <2>1
<1> HIDE DEF a, b
<1>3. a \o b \in Seq(S) /\ Len(a \o b) = Len(s) - 1
  <2>1. a \o b \in Seq(S) /\ Len(a \o b) = Len(a) + Len(b)
    BY <1>1, <1>2, ConcatProperties
  <2> QED
    BY <1>1, <1>2, <2>1
<1>4. ASSUME NEW j \in 1 .. Len(s) - 1 PROVE (a \o b)[j] = s[IF j < i THEN j ELSE j + 1]
  BY <1>1, <1>2
<1> QED
  BY <1>3, <1>4 DEF RemoveAt, a, b

\* Creating, renaming and deleting tenants keep the names apart but for renamed ones.
LEMMA TenantStep ==
    ASSUME TenantInv, registered \in Nat, RecordNext PROVE TenantInv'
<1> USE DEF TenantInv
<1>1. ASSUME NEW name \in TenantNames, CreateTenant(name) PROVE TenantInv'
  <2> DEFINE new == [id |-> registered, name |-> name, renamed |-> FALSE]
  <2>1. new \in Tenant /\ new.name = name
    BY DEF Tenant
  <2>2. /\ tenants' = Append(tenants, new)
        /\ \A i \in 1 .. Len(tenants) : tenants[i].name # name
    BY <1>1 DEF CreateTenant
  <2> HIDE DEF new
  <2>3. /\ tenants' \in Seq(Tenant) /\ Len(tenants') = Len(tenants) + 1
        /\ tenants'[Len(tenants) + 1] = new
        /\ \A i \in 1 .. Len(tenants) : tenants'[i] = tenants[i]
    BY <2>1, <2>2
  <2>4. TenantNamesUnique'
    <3> SUFFICES ASSUME NEW i \in 1 .. Len(tenants) + 1, NEW j \in 1 .. Len(tenants) + 1,
                        tenants'[i].name = tenants'[j].name
                 PROVE  i = j \/ tenants'[i].renamed \/ tenants'[j].renamed
      BY <2>2, <2>3 DEF TenantNamesUnique
    <3> QED
      BY <2>1, <2>2, <2>3 DEF TenantNamesUnique
  <2> QED
    BY <2>3, <2>4
<1>2. ASSUME NEW name \in TenantNames, NEW i \in DOMAIN tenants, UpdateTenant(i, name) PROVE TenantInv'
  <2>1. PICK r \in Tenant : r = tenants[i]
    OBVIOUS
  <2>2. PICK q \in Tenant : q = [r EXCEPT !.name = name, !.renamed = TRUE] /\ q.renamed
    <3>1. /\ [r EXCEPT !.name = name, !.renamed = TRUE] \in Tenant
          /\ [r EXCEPT !.name = name, !.renamed = TRUE].renamed
      BY DEF Tenant
    <3> QED
      BY <3>1
  <2>3. tenants' = [tenants EXCEPT ![i] = q]
    BY <1>2, <2>1, <2>2 DEF UpdateTenant
  <2>4. /\ tenants' \in Seq(Tenant) /\ DOMAIN tenants' = DOMAIN tenants
        /\ tenants'[i] = q /\ \A j \in DOMAIN tenants : j # i => tenants'[j] = tenants[j]
    BY <2>2, <2>3
  <2> QED
    BY <2>2, <2>4 DEF TenantNamesUnique
<1>3. ASSUME NEW i \in DOMAIN tenants, DeleteTenant(i) PROVE TenantInv'
  <2>1. /\ tenants' \in Seq(Tenant) /\ Len(tenants') = Len(tenants) - 1
        /\ \A j \in 1 .. Len(tenants) - 1 : tenants'[j] = tenants[IF j < i THEN j ELSE j + 1]
    <3>1. i \in 1 .. Len(tenants) /\ tenants' = RemoveAt(tenants, i)
      BY <1>3 DEF DeleteTenant
    <3> QED
      BY <3>1, Removed
  <2>2. TenantNamesUnique'
    <3> SUFFICES ASSUME NEW j \in 1 .. Len(tenants) - 1, NEW k \in 1 .. Len(tenants) - 1,
                        tenants'[j].name = tenants'[k].name
                 PROVE  j = k \/ tenants'[j].renamed \/ tenants'[k].renamed
      BY <1>3, <2>1 DEF DeleteTenant, TenantNamesUnique
    <3> DEFINE a == IF j < i THEN j ELSE j + 1
               b == IF k < i THEN k ELSE k + 1
    <3>0. PICK m \in Nat : m = Len(tenants) /\ DOMAIN tenants = 1 .. m
      OBVIOUS
    <3>1. a \in 1 .. Len(tenants) /\ b \in 1 .. Len(tenants)
      BY <3>0
    <3>3. tenants'[j] = tenants[a] /\ tenants'[k] = tenants[b]
      BY <2>1
    <3> HIDE DEF a, b
    <3>2. a = b \/ tenants[a].renamed \/ tenants[b].renamed
      BY <3>1, <3>3 DEF TenantNamesUnique
    <3> QED
      BY <3>2, <3>3 DEF a, b
  <2> QED
    BY <2>1, <2>2
<1>4. CASE tenants' = tenants
  BY <1>4, SMTT(30) DEF TenantNamesUnique
<1> QED
  BY <1>1, <1>2, <1>3, <1>4 DEF RecordNext, CreateAlert, AddAlert, UpdateAlert, CreateAlertChannel, DeleteAlertChannel

\* Alerts stay in the order in which they entered, and within the cap.
LEMMA AlertStep == AlertInv /\ RecordNext => AlertInv'
<1> SUFFICES ASSUME AlertInv, RecordNext PROVE AlertInv'
  OBVIOUS
<1> USE DEF AlertInv
<1>0. \A a \in Alert : a.at \in Nat /\ a.placed \in Nat
  BY DEF Alert
<1>1. ASSUME NEW c \in Calls, AddAlert(c) PROVE AlertInv'
  <2> DEFINE new == NewAlert(c)
             all == <<new>> \o alerts
  <2>1. /\ new \in Alert /\ new.at < new.placed /\ new.placed = registered
        /\ creating' = [creating EXCEPT ![c] = NoCall] /\ registered' = registered + 1
    BY <1>1 DEF AddAlert, NewAlert, Numbered, Alert
  <2>2. /\ alerts' = IF Len(all) > AlertCap THEN SubSeq(all, 1, AlertCap) ELSE all
        /\ dropped' = IF Len(all) > AlertCap THEN dropped \cup {all[Len(all)].at} ELSE dropped
    BY <1>1 DEF AddAlert, Trimmed
  <2> HIDE DEF new
  <2>3. /\ all \in Seq(Alert) /\ Len(all) = Len(alerts) + 1
        /\ all[1] = new /\ \A i \in 2 .. Len(all) : all[i] = alerts[i - 1]
    BY <2>1
  <2> HIDE DEF all
  <2>4. PICK m \in Nat : /\ m <= Len(all) /\ m <= AlertCap /\ alerts' \in Seq(Alert)
                         /\ Len(alerts') = m /\ \A i \in 1 .. m : alerts'[i] = all[i]
                         /\ \/ dropped' = dropped
                            \/ m < Len(all) /\ dropped' = dropped \cup {all[Len(all)].at}
    <3>0. AlertCap \in Nat
      BY AdminAssumption
    <3>1. CASE Len(all) > AlertCap
      <4>1. /\ SubSeq(all, 1, AlertCap) \in Seq(Alert) /\ Len(SubSeq(all, 1, AlertCap)) = AlertCap
            /\ \A i \in 1 .. AlertCap : SubSeq(all, 1, AlertCap)[i] = all[i]
        BY <2>3, <3>0, <3>1
      <4>2. alerts' = SubSeq(all, 1, AlertCap)
        BY <2>2, <3>1
      <4>3. /\ AlertCap < Len(all) /\ alerts' \in Seq(Alert) /\ Len(alerts') = AlertCap
            /\ \A i \in 1 .. AlertCap : alerts'[i] = all[i]
            /\ dropped' = dropped \cup {all[Len(all)].at}
        BY <2>2, <2>3, <3>0, <3>1, <4>1, <4>2
      <4> QED
        BY <2>3, <3>0, <4>3
    <3>2. CASE ~(Len(all) > AlertCap)
      BY <2>2, <2>3, <3>0, <3>2
    <3> QED
      BY <3>1, <3>2
  <2>6. ASSUME NEW i \in 1 .. Len(all)
        PROVE  /\ all[i].at < all[i].placed /\ all[i].placed < registered + 1
               /\ all[i].at \in Nat /\ all[i].placed \in Nat
               /\ \A at \in dropped : all[i].placed > at
    <3>1. CASE i = 1
      <4>1. all[i] = new
        BY <2>3, <3>1
      <4>2. new.at \in Nat /\ new.placed \in Nat /\ registered \in Nat
        BY <1>0, <2>1
      <4>3. ASSUME NEW at \in dropped PROVE new.placed > at
        <5>1. at \in Nat /\ at < registered
          OBVIOUS
        <5> QED
          BY ONLY <2>1, <4>2, <5>1
      <4>4. new.at < new.placed /\ new.placed < registered + 1
        BY ONLY <2>1, <4>2
      <4> QED
        BY ONLY <4>1, <4>2, <4>3, <4>4
    <3>2. CASE i # 1
      <4>0. i \in 2 .. Len(all) /\ Len(alerts) \in Nat
        BY <2>3, <3>2
      <4>1. i - 1 \in 1 .. Len(alerts) /\ all[i] = alerts[i - 1]
        BY <2>3, <4>0
      <4>2. alerts[i - 1].placed < registered /\ alerts[i - 1].at < alerts[i - 1].placed
        BY <4>1
      <4>3. alerts[i - 1].placed \in Nat /\ alerts[i - 1].at \in Nat
        BY <1>0, <4>1
      <4>4. \A at \in dropped : alerts[i - 1].placed > at
        BY <4>1
      <4> QED
        BY <4>1, <4>2, <4>3, <4>4
    <3> QED
      BY <3>1, <3>2
  <2>7. ASSUME NEW i \in 1 .. Len(all), NEW j \in 1 .. Len(all), i < j PROVE all[i].placed > all[j].placed
    <3>1. j - 1 \in 1 .. Len(alerts) /\ all[j] = alerts[j - 1]
      BY <2>3, <2>7
    <3>2. CASE i = 1
      BY <2>1, <2>3, <3>1, <3>2
    <3>3. CASE i # 1
      <4>1. i - 1 \in 1 .. Len(alerts) /\ all[i] = alerts[i - 1] /\ i - 1 < j - 1
        BY <2>3, <2>7, <3>3
      <4> QED
        BY <3>1, <4>1
    <3> QED
      BY <3>2, <3>3
  <2>8. /\ \A i \in 1 .. Len(alerts') : alerts'[i].at < alerts'[i].placed /\ alerts'[i].placed < registered'
        /\ \A i, j \in 1 .. Len(alerts') : i < j => alerts'[i].placed > alerts'[j].placed
    BY <2>1, <2>3, <2>4, <2>6, <2>7, SMTT(30)
  <2>9. \A c2 \in Calls : creating'[c2] # NoCall => creating'[c2] < registered'
    BY <2>1
  <2>10. ASSUME NEW at \in dropped'
         PROVE  /\ at \in Nat /\ at < registered'
                /\ \A i \in 1 .. Len(alerts') : alerts'[i].placed > at
    <3>1. CASE at \in dropped
      <4>1. at \in Nat /\ at < registered /\ registered' = registered + 1
        BY <2>1, <3>1
      <4>2. ASSUME NEW i \in 1 .. Len(alerts') PROVE alerts'[i].placed > at
        <5>1. i \in 1 .. Len(all) /\ alerts'[i] = all[i]
          BY <2>3, <2>4, <4>2
        <5> QED
          BY <2>6, <3>1, <5>1
      <4> QED
        BY <4>1, <4>2
    <3>2. CASE at \notin dropped
      <4>1. at = all[Len(all)].at /\ m < Len(all)
        BY <2>4, <2>10, <3>2
      <4>2. PICK n \in 1 .. Len(all) : n = Len(all)
        BY <2>3, <2>4, <4>1
      <4>3. /\ all[n].at < all[n].placed /\ all[n].placed < registered + 1
            /\ all[n].at \in Nat /\ all[n].placed \in Nat
        BY <2>6
      <4>4. ASSUME NEW i \in 1 .. Len(alerts') PROVE alerts'[i].placed > at
        <5>1. i \in 1 .. Len(all) /\ i < n /\ alerts'[i] = all[i]
          BY <2>4, <4>1, <4>2, <4>4
        <5>2. all[i].placed > all[n].placed /\ all[i].placed \in Nat
          BY <2>6, <2>7, <5>1
        <5> QED
          BY <4>1, <4>2, <4>3, <5>1, <5>2
      <4> QED
        BY <2>1, <4>1, <4>2, <4>3, <4>4
    <3> QED
      BY <3>1, <3>2
  <2>11. registered' \in Nat /\ creating' \in [Calls -> Nat \cup {NoCall}] /\ Len(alerts') <= AlertCap
         /\ alerts' \in Seq(Alert)
    BY <2>1, <2>4
  <2>12. dropped' \subseteq Nat
    BY <2>10
  <2> QED
    BY <2>8, <2>9, <2>10, <2>11, <2>12
<1>2. ASSUME NEW i \in DOMAIN alerts, NEW acked \in BOOLEAN, UpdateAlert(i, acked) PROVE AlertInv'
  <2>1. PICK r \in Alert : r = alerts[i]
    OBVIOUS
  <2>2. /\ [r EXCEPT !.acked = acked] \in Alert /\ [r EXCEPT !.acked = acked].at = r.at
        /\ [r EXCEPT !.acked = acked].placed = r.placed
    BY DEF Alert
  <2>3. alerts' = [alerts EXCEPT ![i] = [r EXCEPT !.acked = acked]]
    BY <1>2, <2>1 DEF UpdateAlert
  <2>4. /\ alerts' \in Seq(Alert) /\ Len(alerts') = Len(alerts)
        /\ \A j \in 1 .. Len(alerts) : alerts'[j].at = alerts[j].at /\ alerts'[j].placed = alerts[j].placed
    BY <2>1, <2>2, <2>3
  <2>5. registered' = registered /\ creating' = creating /\ dropped' = dropped
    BY <1>2 DEF UpdateAlert
  <2> QED
    BY <2>4, <2>5
<1>3. ASSUME alerts' = alerts, dropped' = dropped, registered' \in {registered, registered + 1},
             creating' = creating \/ \E c \in Calls : CreateAlert(c)
      PROVE  AlertInv'
  <2>1. \A i \in 1 .. Len(alerts) : alerts[i].placed < registered'
    BY <1>0, <1>3
  <2>2. /\ creating' \in [Calls -> Nat \cup {NoCall}]
        /\ \A c \in Calls : creating'[c] # NoCall => creating'[c] < registered'
    <3>1. CASE creating' = creating
      BY <1>3, <3>1
    <3>2. ASSUME NEW c \in Calls, CreateAlert(c)
          PROVE  /\ creating' \in [Calls -> Nat \cup {NoCall}]
                 /\ \A d \in Calls : creating'[d] # NoCall => creating'[d] < registered'
      BY <3>2 DEF CreateAlert, Numbered
    <3> QED
      BY <1>3, <3>1, <3>2
  <2> QED
    BY <1>3, <2>1, <2>2
<1> QED
  BY <1>1, <1>2, <1>3 DEF RecordNext, CreateTenant, UpdateTenant, DeleteTenant, CreateAlert,
                          CreateAlertChannel, DeleteAlertChannel, Numbered

\* Of the alerts that pass a filter the first one is shown, and it entered last.
LEMMA NewestShown == AlertInv => AlertsNewestFirst
<1> SUFFICES ASSUME AlertInv PROVE AlertsNewestFirst
  OBVIOUS
<1>1. /\ alerts \in Seq(Alert) /\ DOMAIN alerts = 1 .. Len(alerts)
      /\ \A i \in 1 .. Len(alerts) : alerts[i].at \in Nat /\ alerts[i].placed \in Nat
  <2>1. \A a \in Alert : a.at \in Nat /\ a.placed \in Nat
    BY DEF Alert
  <2> QED
    BY <2>1 DEF AlertInv
<1>2. ASSUME NEW acked \in BOOLEAN, NEW i \in DOMAIN alerts, alerts[i].acked = acked
      PROVE  \E a \in ListAlerts(acked, 1) : a.placed > alerts[i].at
  <2> DEFINE P == {j \in DOMAIN alerts : alerts[j].acked = acked}
  <2>1. P \subseteq Nat /\ i \in P
    BY <1>1, <1>2
  <2>2. PICK k \in P : \A j \in P : k <= j
    BY <2>1, LeastNat
  <2>3. {j \in P : j < k} = {}
    <3>1. k \in Nat /\ \A j \in P : j \in Nat
      BY <2>1
    <3> HIDE DEF P
    <3>2. \A j \in P : ~(j < k)
      BY <2>2, <3>1
    <3> QED
      BY <3>2, Zenon
  <2>4. Cardinality({j \in P : j < k}) < 1
    <3>1. Cardinality({}) = 0
      BY FS_EmptySet, Zenon
    <3>2. Cardinality({j \in P : j < k}) = 0
      BY <2>3, <3>1, Zenon
    <3> HIDE DEF P
    <3> QED
      BY <3>2
  <2>5. alerts[k] \in ListAlerts(acked, 1)
    BY <2>4 DEF ListAlerts
  <2>6. alerts[k].placed > alerts[i].at
    <3>1. k \in 1 .. Len(alerts) /\ i \in 1 .. Len(alerts) /\ k <= i
      BY <1>1, <1>2, <2>1, <2>2
    <3>2. /\ k < i => alerts[k].placed > alerts[i].placed
          /\ alerts[i].placed > alerts[i].at
      BY <1>1, <3>1 DEF AlertInv
    <3>3. k < i \/ k = i
      BY <3>1
    <3> QED
      BY <1>1, <3>1, <3>2, <3>3
  <2> QED
    BY <2>5, <2>6
<1>3. \A i, j \in 1 .. Len(alerts) : i < j => alerts[i].placed > alerts[j].at
  BY <1>1 DEF AlertInv
<1> QED
  BY <1>1, <1>2, <1>3 DEF AlertsNewestFirst, AlertInv

\* However the requests interleave: a login hands out a token that opens the routes, no
\* two requests create the same tenant, and an alert that comes after another has been
\* added is listed before it and outlasts it.
THEOREM AdminRight == AdminSpec => []AdminConsistent
<1>1. AccessInv /\ RecordInv => AdminConsistent
  <2> SUFFICES ASSUME AccessInv, RecordInv PROVE AdminConsistent
    OBVIOUS
  <2> QED
    BY NewestShown DEF AccessInv, RecordInv, TenantInv, AdminConsistent
<1>2. AccessInv /\ UNCHANGED accessVars => AccessInv'
  BY DEF accessVars, AccessInv, LoginTokenWorks, adminAuthMiddleware
<1>3. RecordInv /\ UNCHANGED recordVars => RecordInv'
  BY DEF recordVars, RecordInv, TenantInv, AlertInv, TenantNamesUnique
<1>4. AccessInv /\ RecordInv /\ [AdminNext]_<<accessVars, recordVars>> => (AccessInv /\ RecordInv)'
  <2>1. RecordInv /\ RecordNext => RecordInv'
    BY TenantStep, AlertStep DEF RecordInv, AlertInv
  <2> QED
    BY <1>2, <1>3, <2>1, AccessStep DEF AdminNext
<1> QED
  BY <1>1, <1>4, InitAdmin, PTL DEF AdminSpec

-----------------------------------------------------------------------------
(***************************************************************************)
(* The life of the process, for any number of servers and of requests.     *)
(***************************************************************************)
\* main's goroutines run once it serves, and a server whose Shutdown has drained it
\* has no request and gets none: it listens no more.  Only a signal cancels the context.
LifeInv ==
    /\ mainAt \in {"load", "serving", "draining", "stopped", "exit"}
    /\ listener \in [Servers -> {"none", "starting", "listening", "returned"}]
    /\ shut \in [Servers -> {"none", "draining", "drained", "timed_out"}]
    /\ conn \in [Conns -> [server : Servers, state : {"none", "active", "served", "aborted"}]]
    /\ mainAt \in {"serving", "draining"} => \A s \in Servers : listener[s] # "none"
    /\ \A s \in Servers : shut[s] = "drained" => Active(s) = {}
    /\ ctxDone => signalled
    /\ \A r \in Conns : conn[r].state = "aborted" => signalled
    /\ mainAt = "stopped" => \A s \in Servers : /\ listener[s] = "returned"
                                                /\ shut[s] \in {"drained", "timed_out"}

\* main loads its configuration first, and nothing listens.
LEMMA InitLife == LifeInit => LifeInv
BY LifeAssumption DEF LifeInit, LifeInv, Active

\* Every step of main, its servers, their requests and the signal keeps the invariant.
LEMMA StepLife == LifeInv /\ [LifeNext]_lifeVars => LifeInv'
<1> SUFFICES ASSUME LifeInv, [LifeNext]_lifeVars PROVE LifeInv'
  OBVIOUS
<1> USE DEF LifeInv, Active
<1>1. ASSUME NEW ok \in BOOLEAN, LoadConfig(ok) PROVE LifeInv'
  BY <1>1 DEF LoadConfig
<1>2. ASSUME NEW s \in Servers, Running,
             Listen(s) \/ ServerFails(s) \/ ServerClosed(s)
      PROVE  LifeInv'
  BY <1>2 DEF Listen, ServerFails, ServerClosed, MayReturn, Running
<1>3. ASSUME NEW s \in Servers, BeginShutdown(s) PROVE LifeInv'
  BY <1>3 DEF BeginShutdown, MayBegin
<1>4. ASSUME NEW s \in Servers, NEW how \in {"drained", "timed_out"}, Running, EndShutdown(s, how)
      PROVE  LifeInv'
  BY <1>4 DEF EndShutdown, MayEnd, Running
<1>5. CASE Selected \/ Stop \/ Signalled
  BY <1>5 DEF Selected, MaySelect, Stop, MayStop, Signalled
<1>6. ASSUME NEW s \in Servers, NEW r \in Conns, Accept(r, s) PROVE LifeInv'
  <2>1. \A q \in Servers : shut[q] = "drained" => Active(q)' = {}
    BY <1>6 DEF Accept
  <2> QED
    BY <1>6, <2>1 DEF Accept
<1>7. ASSUME NEW r \in Conns, NEW how \in {"served", "aborted"}, Respond(r, how) PROVE LifeInv'
  <2>1. conn' \in [Conns -> [server : Servers, state : {"none", "active", "served", "aborted"}]]
    BY <1>7 DEF Respond
  <2>2. \A q \in Servers : Active(q)' \subseteq Active(q)
    BY <1>7 DEF Respond
  <2> QED
    BY <1>7, <2>1, <2>2 DEF Respond
<1>8. CASE UNCHANGED lifeVars
  BY <1>8 DEF lifeVars
<1> QED
  BY <1>1, <1>2, <1>3, <1>4, <1>5, <1>6, <1>7, <1>8 DEF LifeNext, ProcessNext

\* The shutdown of main, after a signal or a failed server, never waits for something
\* that only a client could do; without a signal every request accepted by then gets its
\* answer or its server's time runs out, and with one none is left in progress before.
THEOREM ShutdownRight == LifeSpec => []ShutdownComplete
<1>1. LifeInv => ShutdownComplete
  <2> SUFFICES ASSUME LifeInv PROVE ShutdownComplete
    OBVIOUS
  <2> USE DEF LifeInv
  <2>1. NeverStuck
    <3> SUFFICES ASSUME mainAt = "draining" PROVE ProcessCanStep
      BY DEF NeverStuck, Running, ProcessCanStep, MaySelect
    <3>1. CASE \E s \in Servers : shut[s] = "none"
      BY <3>1 DEF ProcessCanStep, MayBegin
    <3>2. CASE \E s \in Servers : shut[s] = "draining"
      BY <3>2 DEF ProcessCanStep, MayEnd
    <3>3. CASE \A s \in Servers : shut[s] \in {"drained", "timed_out"}
      BY <3>3 DEF ProcessCanStep, MayReturn, MayStop
    <3> QED
      BY <3>1, <3>2, <3>3
  <2>2. StopsDrained
    BY DEF StopsDrained, Active, CutOff
  <2> QED
    BY <2>1, <2>2 DEF ShutdownComplete
<1> QED
  BY <1>1, InitLife, StepLife, PTL DEF LifeSpec
-----------------------------------------------------------------------------
(***************************************************************************)
(* The rules, for any number of admins, patches and requests, any          *)
(* priorities and any table of what a condition accepts.  First the        *)
(* operators: filtering a list, sorting it, and the index that points into *)
(* it or into arrays it has left; then one lemma per handler.              *)
(***************************************************************************)
\* The positions of a finite set are numbered by their rank, without gaps and in order.
LEMMA RankNumbers ==
    ASSUME NEW n \in Nat, NEW keep \in SUBSET (1 .. n)
    PROVE  /\ IsFiniteSet(keep) /\ Cardinality(keep) \in Nat /\ Cardinality(keep) <= n
           /\ \A k, l \in keep : k < l => Rank(keep, k) < Rank(keep, l)
           /\ \A i \in 1 .. Cardinality(keep) : \E k \in keep : Rank(keep, k) = i
<1> DEFINE upto(k) == {j \in keep : j <= k}
           m == Cardinality(keep)
           rank == [k \in keep |-> Rank(keep, k)]
<1>1. IsFiniteSet(keep) /\ m \in Nat /\ m <= n
  <2>1. IsFiniteSet(1 .. n) /\ Cardinality(1 .. n) = n
    BY FS_Interval
  <2> QED
    BY <2>1, FS_Subset, FS_CardinalityType
<1>2. ASSUME NEW k \in keep
      PROVE  IsFiniteSet(upto(k)) /\ Rank(keep, k) = Cardinality(upto(k)) /\ Rank(keep, k) \in 1 .. m
  <2>1. upto(k) \in SUBSET keep /\ k \in upto(k)
    OBVIOUS
  <2>2. IsFiniteSet(upto(k)) /\ Cardinality(upto(k)) <= m /\ Cardinality(upto(k)) \in Nat
    BY <1>1, <2>1, FS_Subset, FS_CardinalityType
  <2>3. Cardinality(upto(k)) # 0
    BY <2>1, <2>2, FS_EmptySet
  <2>4. Rank(keep, k) = Cardinality(upto(k))
    BY DEF Rank
  <2> HIDE DEF upto, m
  <2> QED
    BY <1>1, <2>2, <2>3, <2>4 DEF m
<1>3. ASSUME NEW k \in keep, NEW l \in keep, k < l PROVE Rank(keep, k) < Rank(keep, l)
  <2>1. upto(k) \in SUBSET upto(l) /\ l \in upto(l) /\ l \notin upto(k)
    <3>1. k \in Nat /\ l \in Nat /\ \A j \in keep : j \in Nat
      OBVIOUS
    <3>2. \A j \in keep : j <= k => j <= l
      BY <1>3, <3>1
    <3>3. ~(l <= k) /\ l <= l
      BY <1>3, <3>1
    <3> QED
      BY <3>1, <3>2, <3>3
  <2>2. IsFiniteSet(upto(l)) /\ IsFiniteSet(upto(k))
    BY <1>2
  <2>3. /\ Cardinality(upto(k)) <= Cardinality(upto(l))
        /\ Cardinality(upto(k)) # Cardinality(upto(l))
    BY <2>1, <2>2, FS_Subset
  <2>4. /\ Rank(keep, k) = Cardinality(upto(k)) /\ Rank(keep, l) = Cardinality(upto(l))
        /\ Rank(keep, k) \in Nat /\ Rank(keep, l) \in Nat
    BY <1>1, <1>2
  <2> HIDE DEF upto
  <2> QED
    BY <2>3, <2>4
<1>4. rank \in [keep -> 1 .. m]
  BY <1>2
<1>5. ASSUME NEW k \in keep, NEW l \in keep, rank[k] = rank[l] PROVE k = l
  <2>1. k \in Nat /\ l \in Nat /\ Rank(keep, k) \in Nat /\ Rank(keep, l) \in Nat
    <3>1. Rank(keep, k) \in 1 .. m /\ Rank(keep, l) \in 1 .. m
      BY <1>2
    <3> HIDE DEF m
    <3> QED
      BY <1>1, <3>1
  <2>2. Rank(keep, k) = Rank(keep, l)
    BY <1>5
  <2> QED
    BY <1>3, <2>1, <2>2
<1>6. rank \in Injection(keep, 1 .. m)
  <2> HIDE DEF rank
  <2> QED
    BY <1>4, <1>5 DEF Injection, IsInjective
<1>7. IsFiniteSet(1 .. m) /\ Cardinality(1 .. m) = m
  BY <1>1, FS_Interval
<1>8. rank \in Surjection(keep, 1 .. m)
  <2> HIDE DEF rank
  <2> QED
    BY <1>1, <1>6, <1>7, FS_Injection
<1>9. \A i \in 1 .. m : \E k \in keep : rank[k] = i
  BY <1>8 DEF Surjection
<1> QED
  BY <1>1, <1>3, <1>9

\* Kept takes its entries from the given positions, in their order.
LEMMA KeptEntries ==
    ASSUME NEW S, NEW s \in Seq(S), NEW keep \in SUBSET DOMAIN s
    PROVE  /\ Kept(s, keep) \in Seq(S) /\ Len(Kept(s, keep)) <= Len(s)
           /\ \E at \in [1 .. Len(Kept(s, keep)) -> keep] :
                 \A i, j \in 1 .. Len(Kept(s, keep)) :
                     Kept(s, keep)[i] = s[at[i]] /\ (i < j => at[i] < at[j])
<1> DEFINE m == Cardinality(keep)
           at == [i \in 1 .. m |-> CHOOSE k \in keep : Rank(keep, k) = i]
<1>1. Len(s) \in Nat /\ keep \in SUBSET (1 .. Len(s))
  OBVIOUS
<1>2. m \in Nat /\ m <= Len(s)
  BY <1>1, RankNumbers
<1>3. ASSUME NEW i \in 1 .. m PROVE at[i] \in keep /\ Rank(keep, at[i]) = i
  <2>1. \E k \in keep : Rank(keep, k) = i
    BY <1>1, RankNumbers
  <2> QED
    BY <2>1
<1>4. at \in [1 .. m -> keep]
  <2>1. at = [i \in 1 .. m |-> at[i]]
    OBVIOUS
  <2> HIDE DEF at
  <2> QED
    BY <1>3, <2>1
<1>5. Kept(s, keep) = [i \in 1 .. m |-> s[at[i]]]
  BY DEF Kept
<1> HIDE DEF at, m
<1>6. \A i \in 1 .. m : s[at[i]] \in S /\ at[i] \in 1 .. Len(s)
  BY <1>1, <1>4
<1>7. Kept(s, keep) \in [1 .. m -> S]
  BY <1>5, <1>6
<1>8. Kept(s, keep) \in Seq(S) /\ Len(Kept(s, keep)) = m
  BY <1>2, <1>7
<1>9. ASSUME NEW i \in 1 .. m, NEW j \in 1 .. m, i < j PROVE at[i] < at[j]
  <2>1. at[i] \in keep /\ at[j] \in keep /\ Rank(keep, at[i]) = i /\ Rank(keep, at[j]) = j
    BY <1>3
  <2>2. at[i] \in Nat /\ at[j] \in Nat /\ i \in Nat /\ j \in Nat
    BY <1>1, <1>2, <2>1
  <2>3. at[j] < at[i] => Rank(keep, at[j]) < Rank(keep, at[i])
    BY <1>1, <2>1, RankNumbers
  <2> QED
    BY <1>9, <2>1, <2>2, <2>3
<1> QED
  BY <1>2, <1>4, <1>5, <1>8, <1>9

\* sortRules permutes the list: what it may leave is sorted and has the same rules.
LEMMA Sorted ==
    ASSUME NEW list \in Seq(RuleSet), NEW t \in sortRules(list)
    PROVE  /\ t \in Seq(RuleSet) /\ Len(t) = Len(list) /\ DOMAIN t = DOMAIN list
           /\ \A i, j \in DOMAIN t : i < j => Before(t[i], t[j])
           /\ \A i \in DOMAIN t : \E j \in DOMAIN list : t[i] = list[j]
<1> DEFINE D == DOMAIN list
<1>1. PICK p \in Bijection(D, D) : t = [i \in D |-> list[p[i]]]
  BY DEF sortRules
<1>2. p \in [D -> D]
  BY DEF Bijection, Injection
<1>3. D = 1 .. Len(list) /\ Len(list) \in Nat
  OBVIOUS
<1>4. t \in [1 .. Len(list) -> RuleSet]
  BY <1>1, <1>2, <1>3
<1>5. t \in Seq(RuleSet) /\ Len(t) = Len(list) /\ DOMAIN t = D
  BY <1>3, <1>4
<1>6. \A i, j \in DOMAIN t : i < j => Before(t[i], t[j])
  BY DEF sortRules
<1>7. \A i \in DOMAIN t : t[i] = list[p[i]] /\ p[i] \in D
  BY <1>1, <1>2, <1>5
<1> QED
  BY <1>5, <1>6, <1>7

\* A pointer of the index leads to a slot of the list or to a copy of a rule.
PointerOK(q, n) == q.slot \in 1 .. n \/ (q.slot = 0 /\ q.copy \in RuleSet)

\* An index over the given IDs, into a list of n rules
IndexOK(byID, ids, n) ==
    /\ ids \subseteq RuleIDs
    /\ DOMAIN byID = ids /\ byID = [id \in ids |-> byID[id]]
    /\ \A id \in ids : PointerOK(byID[id], n)

\* The list is sorted, fits its array, and the index knows every ID in it.
EngineOK(e) ==
    /\ e = [list |-> e.list, cap |-> e.cap, byID |-> e.byID]
    /\ e.list \in Seq(RuleSet) /\ e.cap \in Nat /\ Len(e.list) <= e.cap
    /\ IndexOK(e.byID, DOMAIN e.byID, Len(e.list))
    /\ \A i, j \in DOMAIN e.list : i < j => Before(e.list[i], e.list[j])
    /\ IDsOf(e.list) \subseteq DOMAIN e.byID

\* sortRules turns any list whose IDs are indexed into a proper engine.
LEMMA SortedEngine ==
    ASSUME NEW list \in Seq(RuleSet), NEW t \in sortRules(list),
           NEW cap \in Nat, Len(list) <= cap,
           NEW byID, IndexOK(byID, DOMAIN byID, Len(list)), IDsOf(list) \subseteq DOMAIN byID
    PROVE  EngineOK([list |-> t, cap |-> cap, byID |-> byID])
<1> DEFINE e == [list |-> t, cap |-> cap, byID |-> byID]
<1>1. e.list = t /\ e.cap = cap /\ e.byID = byID
  OBVIOUS
<1>2. e = [list |-> e.list, cap |-> e.cap, byID |-> e.byID]
  OBVIOUS
<1>3. /\ t \in Seq(RuleSet) /\ Len(t) = Len(list) /\ DOMAIN t = DOMAIN list
      /\ \A i, j \in DOMAIN t : i < j => Before(t[i], t[j])
      /\ \A i \in DOMAIN t : \E j \in DOMAIN list : t[i] = list[j]
  BY Sorted
<1>4. IDsOf(t) \subseteq IDsOf(list)
  BY <1>3 DEF IDsOf
<1> HIDE DEF e
<1> QED
  BY <1>1, <1>2, <1>3, <1>4 DEF EngineOK, e

\* The last rule with an ID, where LoadRules leaves its index, is one with the ID.
LEMMA LastFound ==
    ASSUME NEW rs \in Seq(RuleSet), NEW id \in IDsOf(rs)
    PROVE  LastAt(rs, id) \in DOMAIN rs /\ rs[LastAt(rs, id)].id = id
<1> DEFINE n == Len(rs)
           S == {n - i : i \in {j \in DOMAIN rs : rs[j].id = id}}
<1>1. n \in Nat /\ DOMAIN rs = 1 .. n
  OBVIOUS
<1>2. S \subseteq Nat
  BY <1>1
<1>3. S # {}
  BY DEF IDsOf
<1>4. PICK k \in S : \A j \in S : k <= j
  <2> HIDE DEF S
  <2> QED
    BY <1>2, <1>3, LeastNat
<1>5. PICK i \in DOMAIN rs : rs[i].id = id /\ k = n - i
  OBVIOUS
<1>6. ASSUME NEW j \in DOMAIN rs, rs[j].id = id PROVE j <= i
  <2>1. n - j \in S
    BY <1>6
  <2>2. n - i <= n - j
    BY <1>4, <1>5, <2>1
  <2> QED
    BY <1>1, <2>2
<1>7. \E x \in DOMAIN rs : rs[x].id = id /\ \A j \in DOMAIN rs : rs[j].id = id => j <= x
  BY <1>5, <1>6
<1> QED
  BY <1>7 DEF LastAt

\* HasRule finds what FirstAt, the loop of Config.GetRule, then stops at.
LEMMA FirstFound ==
    ASSUME cfgRules \in Seq(RuleSet), NEW id \in RuleIDs, HasRule(id)
    PROVE  FirstAt(id) \in DOMAIN cfgRules /\ cfgRules[FirstAt(id)].id = id
<1> DEFINE S == {j \in DOMAIN cfgRules : cfgRules[j].id = id}
<1>1. DOMAIN cfgRules = 1 .. Len(cfgRules) /\ Len(cfgRules) \in Nat
  OBVIOUS
<1>2. S \subseteq Nat /\ S # {}
  BY <1>1 DEF HasRule, IDsOf
<1>3. PICK i \in S : \A j \in S : i <= j
  <2> HIDE DEF S
  <2> QED
    BY <1>2, LeastNat
<1>4. ASSUME NEW j \in 1 .. i - 1 PROVE cfgRules[j].id # id
  <2>1. i \in 1 .. Len(cfgRules) /\ j \in Nat
    BY <1>1
  <2>2. j \in DOMAIN cfgRules /\ ~(i <= j)
    BY <1>1, <2>1
  <2> QED
    BY <1>3, <2>2
<1>5. \E x \in DOMAIN cfgRules : cfgRules[x].id = id /\ \A j \in 1 .. x - 1 : cfgRules[j].id # id
  BY <1>3, <1>4
<1> QED
  BY <1>5 DEF FirstAt

\* A slot and a copy are pointers.
LEMMA Pointers ==
    /\ \A n \in Nat : \A i \in 1 .. n : PointerOK(Slot(i), n) /\ Slot(i).slot = i
    /\ \A n \in Nat, r \in RuleSet : PointerOK(Copy(r), n) /\ Copy(r).slot = 0 /\ Copy(r).copy = r
BY DEF PointerOK, Slot, Copy

\* Once the list has a new array, every pointer is to a copy.
LEMMA LeftArray ==
    ASSUME NEW e, EngineOK(e), NEW n \in Nat
    PROVE  IndexOK(LeaveArray(e), DOMAIN e.byID, n)
<1> DEFINE b == LeaveArray(e)
<1>1. /\ e.list \in Seq(RuleSet) /\ DOMAIN e.byID \subseteq RuleIDs
      /\ \A id \in DOMAIN e.byID : PointerOK(e.byID[id], Len(e.list))
  BY DEF EngineOK, IndexOK
<1>2. DOMAIN b = DOMAIN e.byID /\ b = [id \in DOMAIN e.byID |-> b[id]]
  BY DEF LeaveArray
<1>3. ASSUME NEW id \in DOMAIN e.byID PROVE PointerOK(b[id], n)
  <2>1. b[id] = IF e.byID[id].slot = 0 THEN e.byID[id] ELSE Copy(e.list[e.byID[id].slot])
    BY DEF LeaveArray
  <2>2. CASE e.byID[id].slot = 0
    <3>1. Len(e.list) \in Nat
      BY <1>1
    <3> QED
      BY <1>1, <2>1, <2>2, <3>1 DEF PointerOK
  <2>3. CASE e.byID[id].slot # 0
    <3>1. e.byID[id].slot \in DOMAIN e.list
      BY <1>1, <2>3 DEF PointerOK
    <3>2. e.list[e.byID[id].slot] \in RuleSet
      BY <1>1, <3>1
    <3> QED
      BY <2>1, <2>3, <3>2, Pointers
  <2> QED
    BY <2>2, <2>3
<1> QED
  BY <1>1, <1>2, <1>3 DEF IndexOK

\* GetRule follows a pointer to a rule.
LEMMA PointsAtRule ==
    ASSUME NEW e, EngineOK(e), NEW id \in DOMAIN e.byID
    PROVE  /\ GetRule(e, id) \in RuleSet
           /\ e.byID[id].slot # 0 => /\ e.byID[id].slot \in DOMAIN e.list
                                     /\ GetRule(e, id) = e.list[e.byID[id].slot]
<1>1. e.list \in Seq(RuleSet) /\ PointerOK(e.byID[id], Len(e.list)) /\ Len(e.list) \in Nat
  BY DEF EngineOK, IndexOK
<1>2. CASE e.byID[id].slot = 0
  BY <1>1, <1>2 DEF GetRule, PointerOK
<1>3. CASE e.byID[id].slot # 0
  <2>1. e.byID[id].slot \in DOMAIN e.list
    BY <1>1, <1>3 DEF PointerOK
  <2> QED
    BY <1>1, <1>3, <2>1 DEF GetRule
<1> QED
  BY <1>2, <1>3

\* AddRule appends, in the same array or in a new one, indexes the rule and sorts.
LEMMA Added ==
    ASSUME NEW e, EngineOK(e), NEW r \in RuleSet, NEW f \in AddRule(e, r)
    PROVE  EngineOK(f)
<1>1. CASE r.id \in DOMAIN e.byID \/ Invalid(r)
  BY <1>1 DEF AddRule
<1>2. CASE ~(r.id \in DOMAIN e.byID \/ Invalid(r))
  <2> DEFINE n == Len(e.list)
             full == n = e.cap
             cap == IF ~full THEN e.cap ELSE IF e.cap = 0 THEN 1 ELSE 2 * e.cap
             list == Append(e.list, r)
             ids == DOMAIN e.byID \cup {r.id}
             byID == [id \in ids |-> IF id = r.id THEN Slot(n + 1)
                                     ELSE IF full THEN LeaveArray(e)[id] ELSE e.byID[id]]
  <2>1. PICK t \in sortRules(list) : f = [list |-> t, cap |-> cap, byID |-> byID]
    BY <1>2 DEF AddRule
  <2>2. /\ e.list \in Seq(RuleSet) /\ e.cap \in Nat /\ n <= e.cap /\ n \in Nat
        /\ DOMAIN e.byID \subseteq RuleIDs
        /\ \A id \in DOMAIN e.byID : PointerOK(e.byID[id], n)
        /\ IDsOf(e.list) \subseteq DOMAIN e.byID
    BY DEF EngineOK, IndexOK
  <2>3. list \in Seq(RuleSet) /\ Len(list) = n + 1
    BY <2>2
  <2>4. cap \in Nat /\ Len(list) <= cap
    BY <2>2, <2>3
  <2>5. IndexOK(LeaveArray(e), DOMAIN e.byID, n + 1)
    BY <2>2, LeftArray
  <2>6. ids \subseteq RuleIDs
    BY <2>2 DEF RuleSet
  <2>7. ASSUME NEW id \in ids PROVE PointerOK(byID[id], n + 1)
    <3>1. CASE id = r.id
      BY <2>2, <3>1, Pointers
    <3>2. CASE id # r.id
      <4>1. id \in DOMAIN e.byID
        BY <3>2
      <4>2. PointerOK(e.byID[id], n + 1)
        BY <2>2, <4>1 DEF PointerOK
      <4>3. PointerOK(LeaveArray(e)[id], n + 1)
        BY <2>5, <4>1 DEF IndexOK
      <4>4. byID[id] = IF full THEN LeaveArray(e)[id] ELSE e.byID[id]
        BY <3>2
      <4> QED
        BY <4>2, <4>3, <4>4
    <3> QED
      BY <3>1, <3>2
  <2>8. DOMAIN byID = ids /\ byID = [id \in ids |-> byID[id]]
    OBVIOUS
  <2>9. IDsOf(list) \subseteq ids
    <3>1. ASSUME NEW i \in DOMAIN list PROVE list[i].id \in ids
      <4>1. i \in 1 .. n => list[i] = e.list[i] /\ i \in DOMAIN e.list
        BY <2>2, <2>3
      <4>2. i \notin 1 .. n => list[i] = r
        BY <2>2, <2>3
      <4> QED
        BY <2>2, <4>1, <4>2 DEF IDsOf
    <3> QED
      BY <3>1 DEF IDsOf
  <2> HIDE DEF byID, ids, list, cap, n
  <2>10. IndexOK(byID, DOMAIN byID, Len(list))
    BY <2>3, <2>6, <2>7, <2>8 DEF IndexOK
  <2> QED
    BY <2>1, <2>3, <2>4, <2>8, <2>9, <2>10, SortedEngine
<1> QED
  BY <1>1, <1>2

\* Writing through a pointer leaves a proper engine if what it puts into the list has a
\* known ID.
LEMMA Assigned ==
    ASSUME NEW e, EngineOK(e), NEW id \in DOMAIN e.byID, NEW r \in RuleSet,
           e.byID[id].slot # 0 => r.id \in DOMAIN e.byID,
           NEW f \in Assign(e, id, r)
    PROVE  EngineOK(f)
<1>1. /\ e = [list |-> e.list, cap |-> e.cap, byID |-> e.byID]
      /\ e.list \in Seq(RuleSet) /\ e.cap \in Nat /\ Len(e.list) <= e.cap /\ Len(e.list) \in Nat
      /\ IndexOK(e.byID, DOMAIN e.byID, Len(e.list))
      /\ IDsOf(e.list) \subseteq DOMAIN e.byID
  BY DEF EngineOK
<1>2. CASE e.byID[id].slot = 0
  <2> DEFINE byID == [e.byID EXCEPT ![id] = Copy(r)]
  <2>1. PICK t \in sortRules(e.list) : f = [e EXCEPT !.list = t, !.byID[id] = Copy(r)]
    BY <1>2 DEF Assign
  <2>2. f = [list |-> t, cap |-> e.cap, byID |-> byID]
    BY <1>1, <2>1
  <2>3. DOMAIN byID = DOMAIN e.byID /\ byID = [i \in DOMAIN e.byID |-> byID[i]]
    BY <1>1 DEF IndexOK
  <2>4. ASSUME NEW i \in DOMAIN e.byID PROVE PointerOK(byID[i], Len(e.list))
    <3>1. PointerOK(Copy(r), Len(e.list))
      BY <1>1, Pointers
    <3>2. PointerOK(e.byID[i], Len(e.list))
      BY <1>1 DEF IndexOK
    <3> QED
      BY <3>1, <3>2
  <2> HIDE DEF byID
  <2>5. IndexOK(byID, DOMAIN byID, Len(e.list))
    BY <1>1, <2>3, <2>4 DEF IndexOK
  <2> QED
    BY <1>1, <2>2, <2>3, <2>5, SortedEngine
<1>3. CASE e.byID[id].slot # 0
  <2> DEFINE k == e.byID[id].slot
             list == [e.list EXCEPT ![k] = r]
  <2>1. PICK t \in sortRules(list) : f = [e EXCEPT !.list = t]
    BY <1>3 DEF Assign
  <2>2. f = [list |-> t, cap |-> e.cap, byID |-> e.byID]
    BY <1>1, <2>1
  <2>3. list \in Seq(RuleSet) /\ Len(list) = Len(e.list) /\ DOMAIN list = DOMAIN e.list
    <3>1. e.list \in [1 .. Len(e.list) -> RuleSet]
      BY <1>1
    <3>2. list \in [1 .. Len(e.list) -> RuleSet]
      BY <3>1
    <3> HIDE DEF list
    <3> QED
      BY <1>1, <3>2
  <2>4. IDsOf(list) \subseteq DOMAIN e.byID
    <3>1. ASSUME NEW i \in DOMAIN e.list PROVE list[i].id \in DOMAIN e.byID
      <4>1. list[i] = r \/ list[i] = e.list[i]
        BY <1>1
      <4> QED
        BY <1>1, <1>3, <4>1 DEF IDsOf
    <3> HIDE DEF list
    <3> QED
      BY <2>3, <3>1 DEF IDsOf
  <2> HIDE DEF list
  <2> QED
    BY <1>1, <2>1, <2>2, <2>3, <2>4, SortedEngine
<1> QED
  BY <1>2, <1>3

\* DeleteRule filters the list into a new array, which keeps the order.
LEMMA Deleted ==
    ASSUME NEW e, EngineOK(e), NEW id
    PROVE  EngineOK(DeleteRule(e, id))
<1>1. CASE id \notin DOMAIN e.byID
  BY <1>1 DEF DeleteRule
<1>2. CASE id \in DOMAIN e.byID
  <2> DEFINE keep == {i \in DOMAIN e.list : e.list[i].id # id}
             list == Kept(e.list, keep)
             ids == DOMAIN e.byID \ {id}
             byID == [i \in ids |-> LeaveArray(e)[i]]
             f == [list |-> list, cap |-> Len(e.list), byID |-> byID]
  <2>1. DeleteRule(e, id) = f
    BY <1>2 DEF DeleteRule
  <2>2. /\ e.list \in Seq(RuleSet) /\ Len(e.list) \in Nat
        /\ DOMAIN e.byID \subseteq RuleIDs
        /\ \A i, j \in DOMAIN e.list : i < j => Before(e.list[i], e.list[j])
        /\ IDsOf(e.list) \subseteq DOMAIN e.byID
    BY DEF EngineOK, IndexOK
  <2>3. keep \in SUBSET DOMAIN e.list
    OBVIOUS
  <2>4. /\ list \in Seq(RuleSet) /\ Len(list) <= Len(e.list)
        /\ \E at \in [1 .. Len(list) -> keep] : \A i, j \in 1 .. Len(list) :
               list[i] = e.list[at[i]] /\ (i < j => at[i] < at[j])
    BY <2>2, <2>3, KeptEntries
  <2>5. PICK at \in [1 .. Len(list) -> keep] : \A i, j \in 1 .. Len(list) :
               list[i] = e.list[at[i]] /\ (i < j => at[i] < at[j])
    BY <2>4
  <2>6. DOMAIN list = 1 .. Len(list) /\ Len(list) \in Nat
    <3> HIDE DEF list
    <3> QED
      BY <2>4
  <2>7. IndexOK(LeaveArray(e), DOMAIN e.byID, Len(list))
    BY <2>6, LeftArray
  <2>8. DOMAIN byID = ids /\ byID = [i \in ids |-> byID[i]] /\ ids \subseteq RuleIDs
    BY <2>2
  <2>9. \A i \in ids : PointerOK(byID[i], Len(list))
    <3> SUFFICES ASSUME NEW i \in ids PROVE PointerOK(byID[i], Len(list))
      OBVIOUS
    <3> HIDE DEF list
    <3> QED
      BY <2>7 DEF IndexOK
  <2>10. f.list = list /\ f.cap = Len(e.list) /\ f.byID = byID
         /\ f = [list |-> f.list, cap |-> f.cap, byID |-> f.byID]
    OBVIOUS
  <2>11. \A i \in DOMAIN e.list : e.list[i].id \in DOMAIN e.byID
    BY <2>2 DEF IDsOf
  <2>12. \A i \in 1 .. Len(list) : at[i] \in DOMAIN e.list /\ e.list[at[i]].id # id
    <3> HIDE DEF list
    <3> QED
      BY <2>5
  <2> HIDE DEF f, byID, list, keep
  <2>13. IDsOf(list) \subseteq ids
    BY <2>5, <2>6, <2>11, <2>12 DEF IDsOf
  <2>14. \A i, j \in DOMAIN list : i < j => Before(list[i], list[j])
    BY <2>2, <2>5, <2>6, <2>12
  <2>15. IndexOK(byID, DOMAIN byID, Len(list))
    BY <2>8, <2>9 DEF IndexOK
  <2> HIDE DEF ids
  <2>16. EngineOK(f)
    BY <2>2, <2>4, <2>8, <2>10, <2>13, <2>14, <2>15 DEF EngineOK
  <2> QED
    BY <2>1, <2>16
<1> QED
  BY <1>1, <1>2

\* LoadRules indexes the last rule of each ID.
LEMMA Loaded ==
    ASSUME NEW rs \in Seq(RuleSet), NEW f \in LoadRules(rs)
    PROVE  EngineOK(f)
<1> DEFINE byID == [id \in IDsOf(rs) |-> Slot(LastAt(rs, id))]
<1>1. PICK t \in sortRules(rs) : f = [list |-> t, cap |-> Len(rs), byID |-> byID]
  BY DEF LoadRules
<1>2. Len(rs) \in Nat /\ Len(rs) <= Len(rs) /\ DOMAIN rs = 1 .. Len(rs)
  OBVIOUS
<1>3. DOMAIN byID = IDsOf(rs) /\ byID = [id \in IDsOf(rs) |-> byID[id]]
  OBVIOUS
<1>4. IDsOf(rs) \subseteq RuleIDs
  <2>1. \A r \in RuleSet : r.id \in RuleIDs
    BY DEF RuleSet
  <2>2. \A i \in DOMAIN rs : rs[i] \in RuleSet
    OBVIOUS
  <2> QED
    BY <2>1, <2>2 DEF IDsOf
<1>5. ASSUME NEW id \in IDsOf(rs) PROVE PointerOK(byID[id], Len(rs))
  <2>1. LastAt(rs, id) \in 1 .. Len(rs)
    BY <1>2, LastFound
  <2> QED
    BY <1>2, <2>1, Pointers
<1> HIDE DEF byID
<1>6. IndexOK(byID, DOMAIN byID, Len(rs))
  BY <1>3, <1>4, <1>5 DEF IndexOK
<1> QED
  BY <1>1, <1>2, <1>3, <1>6, SortedEngine

\* A new engine has nothing in it.
LEMMA NewEngineOK == EngineOK(NewEngine)
<1>1. /\ NewEngine.list = <<>> /\ NewEngine.cap = 0 /\ NewEngine.byID = << >>
      /\ NewEngine = [list |-> NewEngine.list, cap |-> NewEngine.cap, byID |-> NewEngine.byID]
  BY DEF NewEngine
<1>2. DOMAIN << >> = {} /\ << >> = [id \in {} |-> << >>[id]]
  OBVIOUS
<1>3. IndexOK(NewEngine.byID, DOMAIN NewEngine.byID, Len(NewEngine.list))
  BY <1>1, <1>2 DEF IndexOK
<1> QED
  BY <1>1, <1>2, <1>3 DEF EngineOK, IDsOf

\* A sorted list decides a request as its priorities say: two rules that are each
\* before the other share priority and ID.
LEMMA SortedDecides ==
    ASSUME NEW e, EngineOK(e), NEW q,
           NEW matching, matching = {r \in ToSet(e.list) : r.enabled /\ evaluateRule(r, q)}
    PROVE  InspectRules(e.list, q) =
              IF matching = {} \/ DryRun THEN Allow
              ELSE (CHOOSE r \in matching : \A s \in matching : Before(r, s)).id
<1> DEFINE hits == {i \in DOMAIN e.list : e.list[i].enabled /\ evaluateRule(e.list[i], q)}
<1>1. /\ e.list \in Seq(RuleSet)
      /\ \A i, j \in DOMAIN e.list : i < j => Before(e.list[i], e.list[j])
  BY DEF EngineOK
<1>2. InspectRules(e.list, q) = IF DryRun \/ hits = {} THEN Allow
                                ELSE e.list[CHOOSE i \in hits : \A j \in hits : i <= j].id
  BY DEF InspectRules
<1>3. matching = {e.list[i] : i \in hits}
  BY DEF ToSet
<1>4. \A r \in RuleSet : r.id \in Nat /\ r.priority \in Nat
  BY RuleAssumption DEF RuleSet
<1>5. DOMAIN e.list = 1 .. Len(e.list) /\ Len(e.list) \in Nat
  BY <1>1
<1>6. hits \subseteq Nat /\ hits \subseteq DOMAIN e.list
  BY <1>5
<1>7. \A i \in hits : e.list[i].id \in Nat /\ e.list[i].priority \in Nat
  BY <1>1, <1>4, <1>6
<1> HIDE DEF hits
<1>8. CASE hits = {}
  BY <1>2, <1>3, <1>8
<1>9. CASE hits # {} /\ ~DryRun
  <2> DEFINE i == CHOOSE k \in hits : \A j \in hits : k <= j
             c == CHOOSE r \in matching : \A s \in matching : Before(r, s)
  <2>1. i \in hits /\ \A j \in hits : i <= j
    BY <1>6, <1>9, LeastNat
  <2>2. ASSUME NEW s \in matching PROVE Before(e.list[i], s)
    <3>1. PICK j \in hits : s = e.list[j]
      BY <1>3
    <3> HIDE DEF i
    <3>2. CASE i < j
      BY <1>1, <1>6, <2>1, <3>1, <3>2
    <3>3. CASE i = j
      BY <1>7, <2>1, <3>1, <3>3 DEF Before
    <3>4. i \in Nat /\ j \in Nat /\ i <= j
      BY <1>6, <2>1, <3>1
    <3> QED
      BY <3>2, <3>3, <3>4
  <2>3. e.list[i] \in matching
    BY <1>3, <2>1
  <2>4. c \in matching /\ \A s \in matching : Before(c, s)
    BY <2>2, <2>3
  <2>5. matching # {}
    BY <2>3
  <2>6. InspectRules(e.list, q) = e.list[i].id
    BY <1>2, <1>9
  <2> HIDE DEF i, c
  <2>7. Before(c, e.list[i]) /\ Before(e.list[i], c)
    BY <2>2, <2>3, <2>4
  <2>8. PICK j \in hits : c = e.list[j]
    BY <1>3, <2>4
  <2>9. c.id = e.list[i].id
    BY <1>7, <2>1, <2>7, <2>8 DEF Before
  <2> QED
    BY <1>9, <2>5, <2>6, <2>9 DEF c
<1>10. CASE DryRun
  BY <1>2, <1>10
<1> QED
  BY <1>8, <1>9, <1>10

\* The changes of a rule leave a rule with its ID.
LEMMA ChangedRule ==
    ASSUME NEW r \in RuleSet
    PROVE  /\ \A b \in BOOLEAN : [r EXCEPT !.enabled = b] \in RuleSet
                                 /\ [r EXCEPT !.enabled = b].id = r.id
           /\ \A p \in Priorities : [r EXCEPT !.priority = p] \in RuleSet
                                    /\ [r EXCEPT !.priority = p].id = r.id
           /\ \A req \in RuleSet : Edited(r, req) \in RuleSet /\ Edited(r, req).id = r.id
<1>1. ASSUME NEW req \in RuleSet PROVE Edited(r, req) \in RuleSet /\ Edited(r, req).id = r.id
  <2>1. req.priority \in Priorities /\ req.cond \in Conditions
    BY DEF RuleSet
  <2>2. r.priority \in Priorities
    BY DEF RuleSet
  <2> DEFINE p == IF req.priority = 0 THEN r.priority ELSE req.priority
  <2>3. p \in Priorities
    BY <2>1, <2>2
  <2>4. Edited(r, req) = [[r EXCEPT !.priority = p] EXCEPT !.cond = req.cond]
    BY DEF Edited, RuleSet
  <2> HIDE DEF p
  <2>5. [r EXCEPT !.priority = p] \in RuleSet /\ [r EXCEPT !.priority = p].id = r.id
    BY <2>3 DEF RuleSet
  <2> QED
    BY <2>1, <2>4, <2>5 DEF RuleSet
<1> QED
  BY <1>1 DEF RuleSet

\* Appending a list, as CreateRule and ApplyPatch do, brings its IDs and no others.
LEMMA JoinedIDs ==
    ASSUME NEW s \in Seq(RuleSet), NEW t \in Seq(RuleSet)
    PROVE  s \o t \in Seq(RuleSet) /\ IDsOf(s \o t) \subseteq IDsOf(s) \cup IDsOf(t)
<1>1. s \o t \in Seq(RuleSet) /\ DOMAIN (s \o t) = 1 .. Len(s) + Len(t)
  OBVIOUS
<1>2. ASSUME NEW i \in DOMAIN (s \o t) PROVE (s \o t)[i].id \in IDsOf(s) \cup IDsOf(t)
  <2>1. CASE i <= Len(s)
    <3>1. (s \o t)[i] = s[i] /\ i \in DOMAIN s
      BY <1>1, <2>1
    <3> QED
      BY <3>1 DEF IDsOf
  <2>2. CASE ~(i <= Len(s))
    <3>1. (s \o t)[i] = t[i - Len(s)] /\ i - Len(s) \in DOMAIN t
      BY <1>1, <2>2
    <3> QED
      BY <3>1 DEF IDsOf
  <2> QED
    BY <2>1, <2>2
<1>3. \A id \in IDsOf(s \o t) : \E i \in DOMAIN (s \o t) : id = (s \o t)[i].id
  BY DEF IDsOf
<1> QED
  BY <1>1, <1>2, <1>3

\* Removing the entry at a position, as the handler of DeleteRule does, brings no ID.
LEMMA RemovedIDs ==
    ASSUME NEW s \in Seq(RuleSet), NEW k \in DOMAIN s
    PROVE  RemoveAt(s, k) \in Seq(RuleSet) /\ IDsOf(RemoveAt(s, k)) \subseteq IDsOf(s)
<1> DEFINE u == SubSeq(s, 1, k - 1)
           v == SubSeq(s, k + 1, Len(s))
<1>1. RemoveAt(s, k) = u \o v
  BY DEF RemoveAt
<1>2. k \in 1 .. Len(s) /\ Len(s) \in Nat
  OBVIOUS
<1>3. /\ u \in Seq(RuleSet) /\ v \in Seq(RuleSet)
      /\ \A i \in DOMAIN u : i \in DOMAIN s /\ u[i] = s[i]
      /\ \A i \in DOMAIN v : k + i \in DOMAIN s /\ v[i] = s[k + i]
  <2>1. u \in Seq(RuleSet) /\ \A i \in DOMAIN u : i \in DOMAIN s /\ u[i] = s[i]
    BY <1>2
  <2>2. v \in Seq(RuleSet)
    BY <1>2
  <2>3. \A i \in DOMAIN v : k + i \in DOMAIN s /\ v[i] = s[k + i]
    BY <1>2, SMTT(30)
  <2> QED
    BY <2>1, <2>2, <2>3
<1> HIDE DEF u, v
<1>4. IDsOf(u) \subseteq IDsOf(s) /\ IDsOf(v) \subseteq IDsOf(s)
  BY <1>3 DEF IDsOf
<1> QED
  BY <1>1, <1>3, <1>4, JoinedIDs

\* Filtering, as RevokePatch does, keeps the IDs of the kept positions only.
LEMMA KeptIDs ==
    ASSUME NEW s \in Seq(RuleSet), NEW keep \in SUBSET DOMAIN s
    PROVE  Kept(s, keep) \in Seq(RuleSet) /\ IDsOf(Kept(s, keep)) \subseteq {s[i].id : i \in keep}
<1> DEFINE t == Kept(s, keep)
<1>1. PICK at \in [1 .. Len(t) -> keep] :
          \A i, j \in 1 .. Len(t) : t[i] = s[at[i]] /\ (i < j => at[i] < at[j])
  BY KeptEntries
<1>2. t \in Seq(RuleSet)
  BY KeptEntries
<1> HIDE DEF t
<1>3. DOMAIN t = 1 .. Len(t)
  BY <1>2
<1>4. IDsOf(t) \subseteq {s[i].id : i \in keep}
  BY <1>1, <1>3 DEF IDsOf
<1> QED
  BY <1>2, <1>4 DEF t

\* A list changed entry by entry has the IDs of its new entries.
LEMMA MappedIDs ==
    ASSUME NEW s \in Seq(RuleSet), NEW ids, NEW t, DOMAIN t = DOMAIN s,
           t = [i \in DOMAIN s |-> t[i]],
           \A i \in DOMAIN s : t[i] \in RuleSet /\ t[i].id \in ids
    PROVE  t \in Seq(RuleSet) /\ Len(t) = Len(s) /\ IDsOf(t) \subseteq ids
<1>1. DOMAIN s = 1 .. Len(s) /\ Len(s) \in Nat
  OBVIOUS
<1>2. t \in [1 .. Len(s) -> RuleSet]
  BY <1>1
<1>3. t \in Seq(RuleSet) /\ Len(t) = Len(s)
  BY <1>1, <1>2
<1> QED
  BY <1>3 DEF IDsOf

\* BulkRules brings no ID but those of its list.
LEMMA BulkIDs ==
    ASSUME cfgRules \in Seq(RuleSet), NEW list \in Seq(RuleSet)
    PROVE  /\ BulkApply(list) \in Seq(RuleSet)
           /\ IDsOf(BulkApply(list)) \subseteq IDsOf(cfgRules) \cup IDsOf(list)
<1> DEFINE new == {j \in DOMAIN list : ~HasRule(list[j].id)}
           old == [i \in DOMAIN cfgRules |->
                      IF cfgRules[i].id \in IDsOf(list) /\ i = LastAt(cfgRules, cfgRules[i].id)
                      THEN list[LastAt(list, cfgRules[i].id)] ELSE cfgRules[i]]
<1>1. BulkApply(list) = old \o Kept(list, new)
  BY DEF BulkApply
<1>2. ASSUME NEW i \in DOMAIN cfgRules
      PROVE  old[i] \in RuleSet /\ old[i].id \in IDsOf(cfgRules)
  <2>1. cfgRules[i] \in RuleSet /\ cfgRules[i].id \in IDsOf(cfgRules)
    BY DEF IDsOf
  <2>2. CASE cfgRules[i].id \in IDsOf(list) /\ i = LastAt(cfgRules, cfgRules[i].id)
    <3>1. /\ LastAt(list, cfgRules[i].id) \in DOMAIN list
          /\ list[LastAt(list, cfgRules[i].id)].id = cfgRules[i].id
      BY <2>2, LastFound
    <3>2. old[i] = list[LastAt(list, cfgRules[i].id)]
      BY <2>2
    <3>3. old[i] \in RuleSet
      BY <3>1, <3>2
    <3> QED
      BY <2>1, <3>1, <3>2, <3>3
  <2>3. CASE ~(cfgRules[i].id \in IDsOf(list) /\ i = LastAt(cfgRules, cfgRules[i].id))
    <3>1. old[i] = cfgRules[i]
      BY <2>3
    <3> QED
      BY <2>1, <3>1
  <2> QED
    BY <2>2, <2>3
<1>3. DOMAIN old = DOMAIN cfgRules /\ old = [i \in DOMAIN cfgRules |-> old[i]]
  OBVIOUS
<1> HIDE DEF old
<1>4. old \in Seq(RuleSet) /\ IDsOf(old) \subseteq IDsOf(cfgRules)
  BY <1>2, <1>3, MappedIDs
<1>5. Kept(list, new) \in Seq(RuleSet) /\ IDsOf(Kept(list, new)) \subseteq IDsOf(list)
  <2>1. new \in SUBSET DOMAIN list
    OBVIOUS
  <2>2. {list[i].id : i \in new} \subseteq IDsOf(list)
    BY <2>1 DEF IDsOf
  <2> HIDE DEF new
  <2> QED
    BY <2>1, <2>2, KeptIDs
<1> HIDE DEF new
<1>6. IDsOf(old \o Kept(list, new)) \subseteq IDsOf(old) \cup IDsOf(Kept(list, new))
      /\ old \o Kept(list, new) \in Seq(RuleSet)
  BY <1>4, <1>5, JoinedIDs
<1> QED
  BY <1>1, <1>4, <1>5, <1>6

\* Operators brought the ID, or a patch that is deployed.
Traced(id) ==
    \/ id \in OperatorIDs
    \/ \E p \in Patches : patches[p] = "deployed" /\ id \in IDsOf(PatchRules[p])

\* The file is the live list until a save fails or a reload installs an old list: that is
\* why a reload that nobody overtakes brings no rule of a revoked patch back.
RuleConfigInv ==
    /\ cfgRules \in Seq(RuleSet) /\ fileRules \in Seq(RuleSet) /\ drifted \in BOOLEAN
    /\ ~drifted => fileRules = cfgRules /\ \A id \in IDsOf(cfgRules) : Traced(id)

\* What a request that has begun will write: a rule to create is an operator's, and the
\* rule that was read back for an ID has that ID, so that the engine's list only ever
\* gets rules whose ID its index knows.
TaskOK(t) ==
    /\ t.step \in {"create", "add"} =>
           /\ t.rules = <<t.rules[1]>> /\ t.rules[1] \in RuleSet
           /\ t.rules[1].id \in OperatorIDs
    /\ t.step \in {"read", "write"} => t.ids \in Seq(RuleIDs) /\ t.ids # <<>>
    /\ t.step = "write" => t.rules[1] \in RuleSet /\ t.rules[1].id = Head(t.ids)
    /\ t.step \in {"loaded", "swap"} => t.rules \in Seq(RuleSet)

TasksInv == DOMAIN ruleTask = Admins /\ \A a \in Admins : TaskOK(ruleTask[a])

PatchesInv == patches \in [Patches -> {"none", "draft", "deployed", "revoked"}]

RuleInv == EngineOK(engine) /\ RuleConfigInv /\ PatchesInv /\ TasksInv

\* A request goes on with its next step.
LEMMA NextTask ==
    ASSUME TasksInv, NEW a \in Admins, NEW step, NEW ids, NEW rs, Then(a, step, ids, rs),
           TaskOK([step |-> step, ids |-> ids, rules |-> rs])
    PROVE  TasksInv'
<1> DEFINE t == [step |-> step, ids |-> ids, rules |-> rs]
<1>1. ruleTask' = [ruleTask EXCEPT ![a] = t]
  BY DEF Then
<1>2. TaskOK(t) /\ DOMAIN ruleTask = Admins /\ \A b \in Admins : TaskOK(ruleTask[b])
  BY DEF TasksInv
<1> HIDE DEF t
<1>3. DOMAIN ruleTask' = Admins /\ \A b \in Admins : ruleTask'[b] = t \/ ruleTask'[b] = ruleTask[b]
  BY <1>1, <1>2
<1>4. \A b \in Admins : TaskOK(ruleTask'[b])
  BY <1>2, <1>3
<1> QED
  BY <1>3, <1>4 DEF TasksInv

\* The steps that ask nothing of what they carry, and the next ID to synchronise.
LEMMA EasyTasks ==
    /\ \A ids, rs : /\ TaskOK([step |-> "idle", ids |-> ids, rules |-> rs])
                    /\ TaskOK([step |-> "delete", ids |-> ids, rules |-> rs])
                    /\ TaskOK([step |-> "reloaded", ids |-> ids, rules |-> rs])
    /\ \A ids, rs :
           ids \in Seq(RuleIDs) /\ ids # <<>> => TaskOK([step |-> "read", ids |-> ids, rules |-> rs])
    /\ \A ids, rs : rs \in Seq(RuleSet) => /\ TaskOK([step |-> "swap", ids |-> ids, rules |-> rs])
                                            /\ TaskOK([step |-> "loaded", ids |-> ids, rules |-> rs])
BY DEF TaskOK

\* The list that UpdateConfig makes live, saved or not.
LEMMA ConfigUpdated ==
    ASSUME RuleConfigInv, NEW list \in Seq(RuleSet), NEW saved \in BOOLEAN,
           UpdateConfig(list, saved),
           ~drifted /\ saved => \A id \in IDsOf(list) : Traced(id)'
    PROVE  RuleConfigInv'
<1>1. /\ cfgRules' = list /\ fileRules' = IF saved THEN list ELSE fileRules
      /\ drifted' = (drifted \/ ~saved)
  BY DEF UpdateConfig
<1>2. cfgRules' \in Seq(RuleSet) /\ fileRules' \in Seq(RuleSet) /\ drifted' \in BOOLEAN
  BY <1>1 DEF RuleConfigInv
<1>3. ~drifted' => ~drifted /\ saved
  BY <1>1
<1>4. ~drifted' => fileRules' = cfgRules' /\ \A id \in IDsOf(list) : Traced(id)'
  BY <1>1, <1>3
<1>5. IDsOf(cfgRules)' = IDsOf(list)
  BY <1>1 DEF IDsOf
<1> QED
  BY <1>2, <1>4, <1>5 DEF RuleConfigInv

\* As long as the patches stay, so does where the IDs come from.
LEMMA SamePatches ==
    ASSUME UNCHANGED patches, NEW id PROVE Traced(id)' = Traced(id)
BY DEF Traced

\* A step that leaves the configuration alone keeps what is known of it.
LEMMA SameConfig ==
    ASSUME RuleConfigInv, Unsaved, \A id \in RuleIDs : Traced(id) => Traced(id)'
    PROVE  RuleConfigInv'
<1>1. cfgRules' = cfgRules /\ fileRules' = fileRules /\ drifted' = drifted
  BY DEF Unsaved
<1>2. IDsOf(cfgRules)' = IDsOf(cfgRules) /\ IDsOf(cfgRules) \subseteq RuleIDs
  <2>1. \A r \in RuleSet : r.id \in RuleIDs
    BY DEF RuleSet
  <2>2. \A i \in DOMAIN cfgRules : cfgRules[i] \in RuleSet
    BY DEF RuleConfigInv
  <2> QED
    BY <1>1, <2>1, <2>2 DEF IDsOf
<1>3. ~drifted' => \A id \in IDsOf(cfgRules) : Traced(id)'
  BY <1>1, <1>2 DEF RuleConfigInv
<1> QED
  BY <1>1, <1>2, <1>3 DEF RuleConfigInv

\* An engine and a configuration without rules, and no request yet
LEMMA InitRules == RulesInit => RuleInv
<1> SUFFICES ASSUME RulesInit PROVE RuleInv
  OBVIOUS
<1>1. EngineOK(engine)
  BY NewEngineOK DEF RulesInit
<1>2. RuleConfigInv
  <2>1. IDsOf(cfgRules) = {}
    BY DEF RulesInit, IDsOf
  <2>2. \A id \in IDsOf(cfgRules) : Traced(id)
    BY <2>1
  <2>3. cfgRules \in Seq(RuleSet) /\ fileRules \in Seq(RuleSet) /\ fileRules = cfgRules
    BY DEF RulesInit
  <2>4. drifted = FALSE
    BY DEF RulesInit
  <2> QED
    BY <2>2, <2>3, <2>4 DEF RuleConfigInv
<1>3. PatchesInv
  BY DEF RulesInit, PatchesInv
<1>4. TasksInv
  <2>1. TaskOK(Idle)
    BY EasyTasks DEF Idle
  <2> QED
    BY <2>1 DEF RulesInit, TasksInv
<1> QED
  BY <1>1, <1>2, <1>3, <1>4 DEF RuleInv

\* CreateRule
LEMMA StepCreateRule ==
    ASSUME RuleInv, NEW a \in Admins,
           (\E r \in OwnRules : CreateRuleCheck(a, r)) \/ CreateRuleSave(a) \/ CreateRuleAdd(a)
    PROVE  RuleInv'
<1>0. EngineOK(engine) /\ RuleConfigInv /\ PatchesInv /\ TasksInv /\ TaskOK(ruleTask[a])
  BY DEF RuleInv, TasksInv
<1>1. ASSUME NEW r \in OwnRules, CreateRuleCheck(a, r) PROVE RuleInv'
  <2> DEFINE new == [r EXCEPT !.enabled = FALSE]
  <2>1. r \in RuleSet /\ r.id \in OperatorIDs
    BY RuleAdminAssumption DEF OperatorIDs
  <2>2. new \in RuleSet /\ new.id \in OperatorIDs
    BY <2>1, ChangedRule
  <2>3. /\ Then(a, "create", <<>>, <<new>>) /\ UNCHANGED engine /\ UNCHANGED patches /\ Unsaved
    BY <1>1 DEF CreateRuleCheck
  <2> HIDE DEF new
  <2>4. TaskOK([step |-> "create", ids |-> <<>>, rules |-> <<new>>])
    BY <2>2 DEF TaskOK
  <2>5. TasksInv'
    BY <1>0, <2>3, <2>4, NextTask
  <2>6. RuleConfigInv'
    BY <1>0, <2>3, SameConfig, SamePatches
  <2> QED
    BY <1>0, <2>3, <2>5, <2>6 DEF RuleInv, PatchesInv
<1>2. CASE CreateRuleSave(a)
  <2>1. PICK saved \in BOOLEAN :
          /\ UpdateConfig(cfgRules \o ruleTask[a].rules, saved)
          /\ IF saved THEN Then(a, "add", <<>>, ruleTask[a].rules) ELSE Then(a, "idle", <<>>, <<>>)
    BY <1>2 DEF CreateRuleSave
  <2>2. PICK r \in RuleSet : ruleTask[a].rules = <<r>> /\ r.id \in OperatorIDs
    BY <1>0, <1>2 DEF CreateRuleSave, TaskOK
  <2>3. UNCHANGED engine /\ UNCHANGED patches
    BY <1>2 DEF CreateRuleSave
  <2>4. TasksInv'
    <3>1. TaskOK([step |-> "add", ids |-> <<>>, rules |-> <<r>>])
      BY <2>2 DEF TaskOK
    <3>2. CASE saved
      BY <1>0, <2>1, <2>2, <3>1, <3>2, NextTask
    <3>3. CASE ~saved
      BY <1>0, <2>1, <3>3, EasyTasks, NextTask
    <3> QED
      BY <3>2, <3>3
  <2>5. <<r>> \in Seq(RuleSet) /\ IDsOf(<<r>>) = {r.id}
    <3>1. DOMAIN <<r>> = {1} /\ <<r>>[1] = r
      OBVIOUS
    <3> QED
      BY <3>1 DEF IDsOf
  <2>6. cfgRules \in Seq(RuleSet)
    BY <1>0 DEF RuleConfigInv
  <2>7. /\ cfgRules \o <<r>> \in Seq(RuleSet)
        /\ IDsOf(cfgRules \o <<r>>) \subseteq IDsOf(cfgRules) \cup {r.id}
    BY <2>5, <2>6, JoinedIDs
  <2>8. ~drifted => \A id \in IDsOf(cfgRules \o <<r>>) : Traced(id)'
    <3>1. Traced(r.id)
      BY <2>2 DEF Traced
    <3>2. ~drifted => \A id \in IDsOf(cfgRules \o <<r>>) : Traced(id)
      BY <1>0, <2>7, <3>1 DEF RuleConfigInv
    <3> QED
      BY <2>3, <3>2, SamePatches
  <2>9. RuleConfigInv'
    BY <1>0, <2>1, <2>2, <2>7, <2>8, ConfigUpdated
  <2> QED
    BY <1>0, <2>3, <2>4, <2>9 DEF RuleInv, PatchesInv
<1>3. CASE CreateRuleAdd(a)
  <2>1. /\ ruleTask[a].rules[1] \in RuleSet /\ engine' \in AddRule(engine, ruleTask[a].rules[1])
        /\ Then(a, "idle", <<>>, <<>>) /\ UNCHANGED patches /\ Unsaved
    BY <1>0, <1>3 DEF CreateRuleAdd, TaskOK
  <2>2. EngineOK(engine')
    BY <1>0, <2>1, Added
  <2>3. TasksInv'
    BY <1>0, <2>1, EasyTasks, NextTask
  <2>4. RuleConfigInv'
    BY <1>0, <2>1, SameConfig, SamePatches
  <2> QED
    BY <1>0, <2>1, <2>2, <2>3, <2>4 DEF RuleInv, PatchesInv
<1> QED
  BY <1>1, <1>2, <1>3

\* UpdateRule, EnableRule and DisableRule keep the ID of the rule that they change.
LEMMA StepChangeRule ==
    ASSUME RuleInv, NEW a \in Admins, NEW id \in RuleIDs, NEW new \in RuleSet, new.id = id,
           ChangeRule(a, id, new)
    PROVE  RuleInv'
<1>1. EngineOK(engine) /\ RuleConfigInv /\ PatchesInv /\ TasksInv
  BY DEF RuleInv
<1>2. HasRule(id) /\ UNCHANGED engine /\ UNCHANGED patches /\ cfgRules \in Seq(RuleSet)
  BY <1>1 DEF ChangeRule, RuleConfigInv
<1>3. PICK k \in DOMAIN cfgRules : k = FirstAt(id) /\ cfgRules[k].id = id
  BY <1>2, FirstFound
<1> DEFINE list == [cfgRules EXCEPT ![k] = new]
<1>4. PICK saved \in BOOLEAN :
        /\ UpdateConfig(list, saved)
        /\ IF saved THEN Then(a, "read", <<id>>, <<>>) ELSE Then(a, "idle", <<>>, <<>>)
  BY <1>3 DEF ChangeRule
<1>5. TasksInv'
  <2>1. <<id>> \in Seq(RuleIDs) /\ <<id>> # <<>>
    OBVIOUS
  <2>2. CASE saved
    BY <1>1, <1>4, <2>1, <2>2, EasyTasks, NextTask
  <2>3. CASE ~saved
    BY <1>1, <1>4, <2>3, EasyTasks, NextTask
  <2> QED
    BY <2>2, <2>3
<1>6. /\ DOMAIN list = DOMAIN cfgRules /\ list = [i \in DOMAIN cfgRules |-> list[i]]
      /\ \A i \in DOMAIN cfgRules : list[i] \in RuleSet /\ list[i].id \in IDsOf(cfgRules)
  <2>1. DOMAIN list = DOMAIN cfgRules /\ list = [i \in DOMAIN cfgRules |-> list[i]]
    BY <1>2
  <2>2. \A i \in DOMAIN cfgRules : list[i] = new \/ list[i] = cfgRules[i]
    BY <1>2
  <2>3. \A i \in DOMAIN cfgRules : cfgRules[i] \in RuleSet /\ cfgRules[i].id \in IDsOf(cfgRules)
    BY <1>2 DEF IDsOf
  <2>4. new.id \in IDsOf(cfgRules)
    BY <1>2 DEF HasRule
  <2> HIDE DEF list
  <2> QED
    BY <2>1, <2>2, <2>3, <2>4
<1> HIDE DEF list
<1>7. list \in Seq(RuleSet) /\ IDsOf(list) \subseteq IDsOf(cfgRules)
  BY <1>2, <1>6, MappedIDs
<1>8. ~drifted => \A i \in IDsOf(list) : Traced(i)'
  BY <1>1, <1>2, <1>7, SamePatches DEF RuleConfigInv
<1>9. RuleConfigInv'
  BY <1>1, <1>4, <1>7, <1>8, ConfigUpdated
<1> QED
  BY <1>1, <1>2, <1>5, <1>9 DEF RuleInv, PatchesInv

\* syncRuleToEngine: what it writes for an ID is the rule it read, which has the ID.
LEMMA StepSync ==
    ASSUME RuleInv, NEW a \in Admins, SyncRead(a) \/ SyncWrite(a)
    PROVE  RuleInv'
<1> DEFINE ids == ruleTask[a].ids
<1>1. EngineOK(engine) /\ RuleConfigInv /\ PatchesInv /\ TasksInv /\ TaskOK(ruleTask[a])
  BY DEF RuleInv, TasksInv
<1>2. UNCHANGED patches /\ Unsaved /\ ids \in Seq(RuleIDs) /\ ids # <<>>
  BY <1>1 DEF SyncRead, SyncWrite, TaskOK
<1>3. RuleConfigInv'
  BY <1>1, <1>2, SameConfig, SamePatches
<1>4. PICK rest : rest = ids /\ rest \in Seq(RuleIDs) /\ rest # <<>>
  BY <1>2
<1>5. Head(rest) \in RuleIDs /\ Tail(rest) \in Seq(RuleIDs) /\ (Len(rest) # 1 => Tail(rest) # <<>>)
  <2>1. Len(rest) \in Nat /\ Len(rest) # 0 /\ Head(rest) \in RuleIDs
    BY <1>4
  <2>2. Tail(rest) \in Seq(RuleIDs) /\ Len(Tail(rest)) = Len(rest) - 1
    BY <1>4, <2>1
  <2>3. Len(rest) # 1 => Len(Tail(rest)) # 0
    BY <2>1, <2>2
  <2>4. Len(<<>>) = 0
    OBVIOUS
  <2> QED
    BY <2>1, <2>2, <2>3, <2>4
<1>6. TaskOK([step |-> IF Len(rest) = 1 THEN "idle" ELSE "read", ids |-> Tail(rest), rules |-> <<>>])
  <2>1. CASE Len(rest) = 1
    BY <2>1, EasyTasks
  <2>2. CASE Len(rest) # 1
    BY <1>5, <2>2, EasyTasks
  <2> QED
    BY <2>1, <2>2
<1>7. CASE SyncRead(a)
  <2>1. UNCHANGED engine
    BY <1>7 DEF SyncRead
  <2>2. CASE HasRule(Head(rest))
    <3>1. PICK r \in RuleSet : r = cfgRules[FirstAt(Head(rest))] /\ r.id = Head(rest)
      <4>1. cfgRules \in Seq(RuleSet)
        BY <1>1 DEF RuleConfigInv
      <4>2. /\ FirstAt(Head(rest)) \in DOMAIN cfgRules
            /\ cfgRules[FirstAt(Head(rest))].id = Head(rest)
        BY <1>5, <2>2, <4>1, FirstFound
      <4> QED
        BY <4>1, <4>2
    <3>2. Then(a, "write", rest, <<r>>)
      BY <1>4, <1>7, <2>2, <3>1 DEF SyncRead
    <3>3. TaskOK([step |-> "write", ids |-> rest, rules |-> <<r>>])
      BY <1>4, <3>1 DEF TaskOK
    <3>4. TasksInv'
      BY <1>1, <3>2, <3>3, NextTask
    <3> QED
      BY <1>1, <1>2, <1>3, <2>1, <3>4 DEF RuleInv, PatchesInv
  <2>3. CASE ~HasRule(Head(rest))
    <3>1. Then(a, IF Len(rest) = 1 THEN "idle" ELSE "read", Tail(rest), <<>>)
      BY <1>4, <1>7, <2>3 DEF SyncRead
    <3>2. TasksInv'
      BY <1>1, <1>6, <3>1, NextTask
    <3> QED
      BY <1>1, <1>2, <1>3, <2>1, <3>2 DEF RuleInv, PatchesInv
  <2> QED
    BY <2>2, <2>3
<1>8. CASE SyncWrite(a)
  <2>1. Then(a, IF Len(rest) = 1 THEN "idle" ELSE "read", Tail(rest), <<>>)
    BY <1>4, <1>8 DEF SyncWrite
  <2>2. TasksInv'
    BY <1>1, <1>6, <2>1, NextTask
  <2>3. PICK r \in RuleSet : r = ruleTask[a].rules[1] /\ r.id = Head(rest)
    BY <1>1, <1>4, <1>8 DEF SyncWrite, TaskOK
  <2>4. engine' \in UpdateRule(engine, Head(rest), r)
    BY <1>4, <1>8, <2>3 DEF SyncWrite
  <2>5. EngineOK(engine')
    <3>1. CASE Head(rest) \in DOMAIN engine.byID
      BY <1>1, <2>3, <2>4, <3>1, Assigned DEF UpdateRule
    <3>2. CASE Head(rest) \notin DOMAIN engine.byID
      BY <1>1, <2>4, <3>2 DEF UpdateRule
    <3> QED
      BY <3>1, <3>2
  <2> QED
    BY <1>1, <1>2, <1>3, <2>2, <2>5 DEF RuleInv, PatchesInv
<1> QED
  BY <1>7, <1>8

\* DeleteRule
LEMMA StepDeleteRule ==
    ASSUME RuleInv, NEW a \in Admins,
           (\E id \in RuleIDs : DeleteRuleSave(a, id)) \/ DeleteRuleDrop(a)
    PROVE  RuleInv'
<1>1. EngineOK(engine) /\ RuleConfigInv /\ PatchesInv /\ TasksInv
  BY DEF RuleInv
<1>2. ASSUME NEW id \in RuleIDs, DeleteRuleSave(a, id) PROVE RuleInv'
  <2>1. HasRule(id) /\ UNCHANGED engine /\ UNCHANGED patches /\ cfgRules \in Seq(RuleSet)
    BY <1>1, <1>2 DEF DeleteRuleSave, RuleConfigInv
  <2>2. PICK k \in DOMAIN cfgRules : k = FirstAt(id)
    BY <2>1, FirstFound
  <2>3. PICK list : list = RemoveAt(cfgRules, k)
    OBVIOUS
  <2>4. PICK saved \in BOOLEAN :
          /\ UpdateConfig(list, saved)
          /\ IF saved THEN Then(a, "delete", <<id>>, <<>>) ELSE Then(a, "idle", <<>>, <<>>)
    BY <1>2, <2>2, <2>3 DEF DeleteRuleSave
  <2>5. TasksInv'
    <3>1. CASE saved
      BY <1>1, <2>4, <3>1, EasyTasks, NextTask
    <3>2. CASE ~saved
      BY <1>1, <2>4, <3>2, EasyTasks, NextTask
    <3> QED
      BY <3>1, <3>2
  <2>6. list \in Seq(RuleSet) /\ IDsOf(list) \subseteq IDsOf(cfgRules)
    BY <2>1, <2>3, RemovedIDs
  <2>7. ~drifted => \A i \in IDsOf(list) : Traced(i)'
    BY <1>1, <2>1, <2>6, SamePatches DEF RuleConfigInv
  <2>8. RuleConfigInv'
    BY <1>1, <2>4, <2>6, <2>7, ConfigUpdated
  <2> QED
    BY <1>1, <2>1, <2>5, <2>8 DEF RuleInv, PatchesInv
<1>3. CASE DeleteRuleDrop(a)
  <2>1. /\ engine' = DeleteRule(engine, ruleTask[a].ids[1])
        /\ Then(a, "idle", <<>>, <<>>) /\ UNCHANGED patches /\ Unsaved
    BY <1>3 DEF DeleteRuleDrop
  <2>2. EngineOK(engine')
    BY <1>1, <2>1, Deleted
  <2>3. TasksInv'
    BY <1>1, <2>1, EasyTasks, NextTask
  <2>4. RuleConfigInv'
    BY <1>1, <2>1, SameConfig, SamePatches
  <2> QED
    BY <1>1, <2>1, <2>2, <2>3, <2>4 DEF RuleInv, PatchesInv
<1> QED
  BY <1>2, <1>3

\* BulkRules
LEMMA StepBulkRules ==
    ASSUME RuleInv, NEW a \in Admins, NEW list \in BulkLists, BulkRules(a, list)
    PROVE  RuleInv'
<1>1. EngineOK(engine) /\ RuleConfigInv /\ PatchesInv /\ TasksInv
  BY DEF RuleInv
<1>2. /\ UNCHANGED engine /\ UNCHANGED patches /\ cfgRules \in Seq(RuleSet)
      /\ list \in Seq(RuleSet) /\ list # <<>>
  BY <1>1, RuleAdminAssumption DEF BulkRules, RuleConfigInv
<1> DEFINE off == [i \in DOMAIN list |-> [list[i] EXCEPT !.enabled = FALSE]]
           ids == [i \in DOMAIN list |-> list[i].id]
<1>3. \A i \in DOMAIN list : off[i] \in RuleSet /\ off[i].id \in IDsOf(list)
  <2> SUFFICES ASSUME NEW i \in DOMAIN list PROVE off[i] \in RuleSet /\ off[i].id \in IDsOf(list)
    OBVIOUS
  <2>1. list[i] \in RuleSet /\ off[i] = [list[i] EXCEPT !.enabled = FALSE]
    BY <1>2
  <2>2. off[i] \in RuleSet /\ off[i].id = list[i].id
    BY <2>1, ChangedRule
  <2> QED
    BY <2>2 DEF IDsOf
<1>4. DOMAIN off = DOMAIN list /\ off = [i \in DOMAIN list |-> off[i]]
  OBVIOUS
<1>5. ids \in Seq(RuleIDs) /\ ids # <<>>
  <2>1. \A r \in RuleSet : r.id \in RuleIDs
    BY DEF RuleSet
  <2>2. \A i \in DOMAIN list : list[i].id \in RuleIDs
    BY <1>2, <2>1
  <2>3. DOMAIN list = 1 .. Len(list) /\ Len(list) \in Nat /\ Len(list) # 0
    BY <1>2
  <2>4. ids \in [1 .. Len(list) -> RuleIDs]
    BY <2>2, <2>3
  <2> HIDE DEF ids
  <2>5. ids \in Seq(RuleIDs) /\ Len(ids) = Len(list)
    BY <2>3, <2>4
  <2> QED
    BY <2>3, <2>5
<1>6. PICK saved \in BOOLEAN :
        /\ UpdateConfig(BulkApply(off), saved)
        /\ IF saved THEN Then(a, "read", ids, <<>>) ELSE Then(a, "idle", <<>>, <<>>)
  BY DEF BulkRules
<1> HIDE DEF off, ids
<1>7. off \in Seq(RuleSet) /\ IDsOf(off) \subseteq IDsOf(list)
  BY <1>2, <1>3, <1>4, MappedIDs
<1>8. TasksInv'
  <2>1. CASE saved
    BY <1>1, <1>5, <1>6, <2>1, EasyTasks, NextTask
  <2>2. CASE ~saved
    BY <1>1, <1>6, <2>2, EasyTasks, NextTask
  <2> QED
    BY <2>1, <2>2
<1>9. PICK new : new = BulkApply(off)
  OBVIOUS
<1>10. new \in Seq(RuleSet) /\ IDsOf(new) \subseteq IDsOf(cfgRules) \cup IDsOf(off)
  BY <1>2, <1>7, <1>9, BulkIDs
<1>11. ~drifted => \A i \in IDsOf(new) : Traced(i)'
  <2>1. IDsOf(list) \subseteq OperatorIDs
    BY DEF OperatorIDs
  <2>2. \A i \in OperatorIDs : Traced(i)
    BY DEF Traced
  <2>3. ~drifted => \A i \in IDsOf(new) : Traced(i)
    BY <1>1, <1>7, <1>10, <2>1, <2>2 DEF RuleConfigInv
  <2> QED
    BY <1>2, <2>3, SamePatches
<1>12. RuleConfigInv'
  BY <1>1, <1>6, <1>9, <1>10, <1>11, ConfigUpdated
<1> QED
  BY <1>1, <1>2, <1>8, <1>12 DEF RuleInv, PatchesInv

\* ReorderRule writes back the rule that the index leads to, with another priority.  Its
\* ID need not be the one asked for, but the index knows it if it is in the list.
LEMMA StepReorder ==
    ASSUME RuleInv, NEW a \in Admins, NEW id \in RuleIDs, NEW p \in Priorities,
           HandleReorderRule(a, id, p)
    PROVE  RuleInv'
<1>1. EngineOK(engine) /\ RuleConfigInv /\ PatchesInv /\ TasksInv
  BY DEF RuleInv
<1>2. /\ engine' \in ReorderRule(engine, id, p)
      /\ UNCHANGED patches /\ UNCHANGED ruleTask /\ Unsaved
  BY DEF HandleReorderRule
<1>3. EngineOK(engine')
  <2>1. CASE id \notin DOMAIN engine.byID
    BY <1>1, <1>2, <2>1 DEF ReorderRule
  <2>2. CASE id \in DOMAIN engine.byID
    <3>1. PICK e : e = engine
      OBVIOUS
    <3>2. PICK r \in RuleSet : r = GetRule(e, id)
      BY <1>1, <2>2, <3>1, PointsAtRule
    <3>3. PICK new : new = [r EXCEPT !.priority = p]
      OBVIOUS
    <3>4. new \in RuleSet /\ new.id = r.id
      BY <3>3, ChangedRule
    <3>5. engine' \in Assign(e, id, new)
      BY <1>2, <2>2, <3>1, <3>2, <3>3 DEF ReorderRule
    <3>6. e.byID[id].slot # 0 => new.id \in DOMAIN e.byID
      <4>1. IDsOf(e.list) \subseteq DOMAIN e.byID
        BY <1>1, <3>1 DEF EngineOK
      <4>2. e.byID[id].slot # 0 => /\ e.byID[id].slot \in DOMAIN e.list
                                   /\ r = e.list[e.byID[id].slot]
        BY <1>1, <2>2, <3>1, <3>2, PointsAtRule
      <4> QED
        BY <3>4, <4>1, <4>2 DEF IDsOf
    <3> QED
      BY <1>1, <2>2, <3>1, <3>4, <3>5, <3>6, Assigned
  <2> QED
    BY <2>1, <2>2
<1>4. RuleConfigInv'
  BY <1>1, <1>2, SameConfig, SamePatches
<1> QED
  BY <1>1, <1>2, <1>3, <1>4 DEF RuleInv, PatchesInv, TasksInv

\* The patches: deploying one traces the IDs it brings, and revoking it takes every rule
\* with one of them away, those another deployed patch brought included.
LEMMA StepPatches ==
    ASSUME RuleInv, NEW a \in Admins, NEW p \in Patches,
           CreatePatch(a, p) \/ ApplyPatch(a, p) \/ RevokePatch(a, p) \/ DeletePatch(a, p)
    PROVE  RuleInv'
<1>1. EngineOK(engine) /\ RuleConfigInv /\ PatchesInv /\ TasksInv
  BY DEF RuleInv
<1>2. UNCHANGED engine /\ UNCHANGED ruleTask
  BY DEF CreatePatch, ApplyPatch, RevokePatch, DeletePatch
<1>3. cfgRules \in Seq(RuleSet) /\ PatchRules[p] \in Seq(RuleSet)
  BY <1>1, RuleAdminAssumption DEF RuleConfigInv
<1>4. PatchesInv'
  BY <1>1 DEF PatchesInv, CreatePatch, ApplyPatch, RevokePatch, DeletePatch
<1>5. CASE CreatePatch(a, p) \/ DeletePatch(a, p)
  <2>1. Unsaved /\ patches[p] # "deployed" /\ \A q \in Patches : q # p => patches'[q] = patches[q]
    BY <1>1, <1>5 DEF CreatePatch, DeletePatch, PatchesInv
  <2>2. \A id \in RuleIDs : Traced(id) => Traced(id)'
    BY <2>1 DEF Traced
  <2>3. RuleConfigInv'
    BY <1>1, <2>1, <2>2, SameConfig
  <2> QED
    BY <1>1, <1>2, <1>4, <2>3 DEF RuleInv, TasksInv
<1>6. CASE ApplyPatch(a, p)
  <2>1. PICK saved \in BOOLEAN :
          /\ UpdateConfig(cfgRules \o PatchRules[p], saved)
          /\ patches' = IF saved THEN [patches EXCEPT ![p] = "deployed"] ELSE patches
    BY <1>6 DEF ApplyPatch
  <2>2. PICK list : list = cfgRules \o PatchRules[p]
    OBVIOUS
  <2>3. list \in Seq(RuleSet) /\ IDsOf(list) \subseteq IDsOf(cfgRules) \cup IDsOf(PatchRules[p])
    BY <1>3, <2>2, JoinedIDs
  <2>4. saved => patches'[p] = "deployed" /\ \A q \in Patches : q # p => patches'[q] = patches[q]
    BY <1>1, <2>1 DEF PatchesInv
  <2>5. ~drifted /\ saved => \A id \in IDsOf(list) : Traced(id)'
    <3>1. saved => \A id \in IDsOf(PatchRules[p]) : Traced(id)'
      BY <2>4 DEF Traced
    <3>2. saved => \A id : Traced(id) => Traced(id)'
      BY <2>4 DEF Traced
    <3>3. ~drifted => \A id \in IDsOf(cfgRules) : Traced(id)
      BY <1>1 DEF RuleConfigInv
    <3> QED
      BY <2>3, <3>1, <3>2, <3>3
  <2>6. RuleConfigInv'
    BY <1>1, <2>1, <2>2, <2>3, <2>5, ConfigUpdated
  <2> QED
    BY <1>1, <1>2, <1>4, <2>6 DEF RuleInv, TasksInv
<1>7. CASE RevokePatch(a, p)
  <2> DEFINE ids == IDsOf(PatchRules[p])
             keep == {i \in DOMAIN cfgRules : cfgRules[i].id \notin ids}
  <2>1. PICK saved \in BOOLEAN :
          /\ UpdateConfig(Kept(cfgRules, keep), saved)
          /\ patches' = IF saved THEN [patches EXCEPT ![p] = "revoked"] ELSE patches
    BY <1>7 DEF RevokePatch
  <2>2. PICK list : list = Kept(cfgRules, keep)
    OBVIOUS
  <2>3. keep \in SUBSET DOMAIN cfgRules
    OBVIOUS
  <2>4. {cfgRules[i].id : i \in keep} = IDsOf(cfgRules) \ ids
    BY DEF IDsOf
  <2> HIDE DEF keep, ids
  <2>5. list \in Seq(RuleSet) /\ IDsOf(list) \subseteq IDsOf(cfgRules) \ ids
    BY <1>3, <2>2, <2>3, <2>4, KeptIDs
  <2>6. saved => \A q \in Patches : q # p => patches'[q] = patches[q]
    BY <1>1, <2>1 DEF PatchesInv
  <2>7. ~drifted /\ saved => \A id \in IDsOf(list) : Traced(id)'
    <3>1. saved => \A id : id \notin ids /\ Traced(id) => Traced(id)'
      BY <2>6 DEF Traced, ids
    <3>2. ~drifted => \A id \in IDsOf(cfgRules) : Traced(id)
      BY <1>1 DEF RuleConfigInv
    <3> QED
      BY <2>5, <3>1, <3>2
  <2>8. RuleConfigInv'
    BY <1>1, <2>1, <2>2, <2>5, <2>7, ConfigUpdated
  <2> QED
    BY <1>1, <1>2, <1>4, <2>8 DEF RuleInv, TasksInv
<1> QED
  BY <1>5, <1>6, <1>7

\* Whole configurations: an import, and a reload with its swap
LEMMA StepWhole ==
    ASSUME RuleInv, NEW a \in Admins,
           \/ \E list \in BulkLists : ImportConfig(a, list)
           \/ AdminReload(a) \/ AdminReloadInstall(a) \/ AdminReloadRead(a) \/ AdminReloadSwap(a)
    PROVE  RuleInv'
<1>1. EngineOK(engine) /\ RuleConfigInv /\ PatchesInv /\ TasksInv /\ TaskOK(ruleTask[a])
  BY DEF RuleInv, TasksInv
<1>2. UNCHANGED patches
  BY DEF ImportConfig, AdminReload, AdminReloadInstall, AdminReloadRead, AdminReloadSwap
<1>3. ASSUME NEW list \in BulkLists, ImportConfig(a, list) PROVE RuleInv'
  <2>1. PICK saved \in BOOLEAN : UpdateConfig(list, saved)
    BY <1>3 DEF ImportConfig
  <2>2. list \in Seq(RuleSet) /\ UNCHANGED engine /\ UNCHANGED ruleTask
    BY <1>3, RuleAdminAssumption DEF ImportConfig
  <2>3. \A id \in IDsOf(list) : Traced(id)'
    <3>1. \A id \in IDsOf(list) : Traced(id)
      BY DEF Traced, OperatorIDs
    <3> QED
      BY <1>2, <3>1, SamePatches
  <2>4. RuleConfigInv'
    BY <1>1, <2>1, <2>2, <2>3, ConfigUpdated
  <2> QED
    BY <1>1, <1>2, <2>2, <2>4 DEF RuleInv, PatchesInv, TasksInv
<1>4. CASE AdminReload(a)
  <2>1. Then(a, "loaded", <<>>, fileRules) /\ UNCHANGED engine /\ Unsaved
    BY <1>4 DEF AdminReload
  <2>2. PICK list \in Seq(RuleSet) : list = fileRules
    BY <1>1 DEF RuleConfigInv
  <2>3. TasksInv'
    BY <1>1, <2>1, <2>2, EasyTasks, NextTask
  <2>4. RuleConfigInv'
    BY <1>1, <1>2, <2>1, SameConfig, SamePatches
  <2> QED
    BY <1>1, <1>2, <2>1, <2>3, <2>4 DEF RuleInv, PatchesInv
<1>4a. CASE AdminReloadInstall(a)
  <2>0. PICK list \in Seq(RuleSet) : list = ruleTask[a].rules
    BY <1>1, <1>4a DEF AdminReloadInstall, TaskOK
  <2>1. /\ cfgRules' = list /\ fileRules' = fileRules /\ drifted' = (drifted \/ list # fileRules)
        /\ Then(a, "reloaded", <<>>, <<>>) /\ UNCHANGED engine
    BY <1>4a, <2>0 DEF AdminReloadInstall
  <2>2. TasksInv'
    BY <1>1, <2>1, EasyTasks, NextTask
  <2>3. IDsOf(cfgRules)' = IDsOf(list)
    BY <2>1 DEF IDsOf
  <2>4. ~drifted' => ~drifted /\ list = fileRules /\ fileRules = cfgRules
    BY <1>1, <2>1 DEF RuleConfigInv
  <2>5. ~drifted' => \A id \in IDsOf(list) : Traced(id)'
    BY <1>1, <1>2, <2>4, SamePatches DEF RuleConfigInv
  <2>6. RuleConfigInv'
    BY <1>1, <2>1, <2>3, <2>4, <2>5 DEF RuleConfigInv
  <2> QED
    BY <1>1, <1>2, <2>1, <2>2, <2>6 DEF RuleInv, PatchesInv
<1>5. CASE AdminReloadRead(a)
  <2>1. Then(a, "swap", <<>>, cfgRules) /\ UNCHANGED engine /\ Unsaved
    BY <1>5 DEF AdminReloadRead
  <2>2. PICK list \in Seq(RuleSet) : list = cfgRules
    BY <1>1 DEF RuleConfigInv
  <2>3. TasksInv'
    BY <1>1, <2>1, <2>2, EasyTasks, NextTask
  <2>4. RuleConfigInv'
    BY <1>1, <1>2, <2>1, SameConfig, SamePatches
  <2> QED
    BY <1>1, <1>2, <2>1, <2>3, <2>4 DEF RuleInv, PatchesInv
<1>6. CASE AdminReloadSwap(a)
  <2>1. Then(a, "idle", <<>>, <<>>) /\ Unsaved
    BY <1>6 DEF AdminReloadSwap
  <2>2. PICK list \in Seq(RuleSet) : list = ruleTask[a].rules
    BY <1>1, <1>6 DEF AdminReloadSwap, TaskOK
  <2>3. EngineOK(engine')
    BY <1>6, <2>2, Loaded DEF AdminReloadSwap
  <2>4. TasksInv'
    BY <1>1, <2>1, EasyTasks, NextTask
  <2>5. RuleConfigInv'
    BY <1>1, <1>2, <2>1, SameConfig, SamePatches
  <2> QED
    BY <1>1, <1>2, <2>3, <2>4, <2>5 DEF RuleInv, PatchesInv
<1> QED
  BY <1>3, <1>4, <1>4a, <1>5, <1>6

\* Every step of every handler keeps the invariant.
LEMMA StepRules == RuleInv /\ [RulesNext]_ruleVars => RuleInv'
<1> SUFFICES ASSUME RuleInv, [RulesNext]_ruleVars PROVE RuleInv'
  OBVIOUS
<1>1. CASE UNCHANGED ruleVars
  <2>1. UNCHANGED engine /\ UNCHANGED patches /\ UNCHANGED ruleTask /\ Unsaved
    BY <1>1 DEF ruleVars, Unsaved
  <2>2. RuleConfigInv'
    BY <2>1, SameConfig, SamePatches DEF RuleInv
  <2> QED
    BY <2>1, <2>2 DEF RuleInv, PatchesInv, TasksInv
<1>2. ASSUME NEW a \in Admins, NEW id \in RuleIDs,
             \/ \E req \in OwnRules : HandleUpdateRule(a, id, req)
             \/ EnableRule(a, id) \/ DisableRule(a, id)
      PROVE  RuleInv'
  <2>1. HasRule(id) /\ cfgRules \in Seq(RuleSet)
    BY <1>2 DEF HandleUpdateRule, EnableRule, DisableRule, RuleInv, RuleConfigInv
  <2>2. PICK r \in RuleSet : r = cfgRules[FirstAt(id)] /\ r.id = id
    BY <2>1, FirstFound
  <2>3. PICK new \in RuleSet : new.id = id /\ ChangeRule(a, id, new)
    <3>1. ASSUME NEW req \in OwnRules, HandleUpdateRule(a, id, req)
          PROVE  \E new \in RuleSet : new.id = id /\ ChangeRule(a, id, new)
      <4>1. req \in RuleSet
        BY RuleAdminAssumption
      <4> QED
        BY <2>2, <3>1, <4>1, ChangedRule DEF HandleUpdateRule
    <3>2. CASE EnableRule(a, id)
      BY <2>2, <3>2, ChangedRule DEF EnableRule
    <3>3. CASE DisableRule(a, id)
      BY <2>2, <3>3, ChangedRule DEF DisableRule
    <3> QED
      BY <1>2, <3>1, <3>2, <3>3
  <2> QED
    BY <2>3, StepChangeRule
<1> QED
  BY <1>1, <1>2, StepCreateRule, StepDeleteRule, StepReorder, StepSync, StepBulkRules,
     StepWhole, StepPatches DEF RulesNext, RuleRequest, PatchRequest

\* However the requests of the admins interleave, whichever saves fail and whatever way
\* ties are sorted, the engine's list is ordered and indexed, it decides every request as
\* the priorities say, and a revoked patch leaves no rule behind, as long as no save fails
\* and no reload is overtaken between its load and its installation.
THEOREM RulesAgree == RulesSpec => []RulesConsistent
<1>1. RuleInv => RulesConsistent
  <2> SUFFICES ASSUME RuleInv PROVE RulesConsistent
    OBVIOUS
  <2>1. EngineOK(engine) /\ RuleConfigInv /\ PatchesInv
    BY DEF RuleInv
  <2>2. RulesTypeOK
    <3>1. engine.list \in Seq(RuleSet) /\ Len(engine.list) <= engine.cap
          /\ DOMAIN engine.byID \subseteq RuleIDs
      BY <2>1 DEF EngineOK, IndexOK
    <3>2. \A id \in DOMAIN engine.byID : GetRule(engine, id) \in RuleSet
      BY <2>1, PointsAtRule
    <3> QED
      BY <2>1, <3>1, <3>2 DEF RulesTypeOK, RuleConfigInv, PatchesInv
  <2>3. FirstMatchWins
    BY <2>1, SortedDecides DEF FirstMatchWins
  <2>4. ListedIsIndexed
    BY <2>1 DEF ListedIsIndexed, EngineOK, IDsOf, ToSet
  <2>5. NoOrphanPatchRules
    BY <2>1 DEF NoOrphanPatchRules, RuleConfigInv, Traced
  <2> QED
    BY <2>2, <2>3, <2>4, <2>5 DEF RulesConsistent
<1> QED
  BY <1>1, InitRules, StepRules, PTL DEF RulesSpec
=============================================================================
