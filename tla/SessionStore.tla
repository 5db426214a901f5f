----------------------------- MODULE SessionStore -----------------------------
(***************************************************************************)
(* internal/session/session.go: the sessions, the index by address and the *)
(* index by user.  Every operation holds s.mu throughout, except           *)
(* GetOrCreate, which looks a session up under one lock and touches it     *)
(* under another, through a pointer that Delete, cleanup or Deserialize    *)
(* may have taken out of the store in between.                             *)
(*                                                                         *)
(* byIP keeps, for each address, how often an ID is in its list.  A        *)
(* session is its address, user, time of last use, risk score and the sum  *)
(* of the scores in its Decisions; era tells the objects of one ID apart.  *)
(* Metadata, tags and counters that nothing reads are left out.            *)
(***************************************************************************)
EXTENDS Integers, FiniteSets

CONSTANTS SessionIDs, Addresses, Users,
          Finders,       \* goroutines in GetOrCreate
          Scores,        \* the scores AddRiskScore is called with
          SessionTTL,    \* s.ttl, in ticks
          MaxSessionTime, MaxRestores, MaxDecisions, \* bounds
          NoSession, Nobody

SessionSet == [ip : Addresses, user : Users \cup {Nobody}, seen : Nat,
               risk : Nat, total : Nat, decisions : Nat, era : Nat]

ASSUME SessionAssumption ==
    /\ SessionIDs \subseteq Nat /\ NoSession \notin SessionIDs
    /\ NoSession \notin SessionSet /\ Nobody \notin Users
    /\ Scores \subseteq Nat /\ SessionTTL \in Nat
    /\ MaxSessionTime \in Nat /\ MaxRestores \in Nat /\ MaxDecisions \in Nat

VARIABLES
    sessions,     \* s.sessions: ID -> session, or NoSession
    byIP,         \* s.byIP: address -> (ID -> occurrences)
    byUser,       \* s.byUser: user -> ID, or NoSession
    sessionTime,  \* time.Now
    held,         \* the session GetOrCreate has found: [id, era], or NoSession
    dump,         \* what Serialize has returned last
    issued,       \* history: the IDs given out
    era,          \* history: how often Deserialize has run
    mixed         \* history: Deserialize has met a store that was in use

sessionVars == <<sessions, byIP, byUser, sessionTime, held, dump, issued, era, mixed>>

Live == {id \in SessionIDs : sessions[id] # NoSession}
EmptyStore == [id \in SessionIDs |-> NoSession]
NoAddresses == [ip \in Addresses |-> [id \in SessionIDs |-> 0]]

\* NewStore
SessionInit ==
    /\ sessions = EmptyStore
    /\ byIP = NoAddresses
    /\ byUser = [u \in Users |-> NoSession]
    /\ sessionTime = 0
    /\ held = [c \in Finders |-> NoSession]
    /\ dump = EmptyStore
    /\ issued = {} /\ era = 0 /\ mixed = FALSE

\* generateID never returns an ID twice; the IDs are random, so any order will do
generateID == CHOOSE id \in SessionIDs \ issued :
                  \A other \in SessionIDs \ issued : id <= other

Create(ip) ==
    LET id == generateID IN
        /\ issued # SessionIDs
        /\ issued' = issued \cup {id}
        /\ sessions' = [sessions EXCEPT ![id] =
               [ip |-> ip, user |-> Nobody, seen |-> sessionTime, risk |-> 0,
                total |-> 0, decisions |-> 0, era |-> era]]
        /\ byIP' = [byIP EXCEPT ![ip][id] = @ + 1]
        /\ UNCHANGED <<byUser, sessionTime, held, dump, era, mixed>>

\* GetOrCreate of an ID in the store; of any other it is Create
GetOrCreateFind(c, id) ==
    /\ held[c] = NoSession
    /\ id \in Live
    /\ held' = [held EXCEPT ![c] = [id |-> id, era |-> sessions[id].era]]
    /\ UNCHANGED <<sessions, byIP, byUser, sessionTime, dump, issued, era, mixed>>

\* updateLastSeen writes to the object it was given, in the store or not
updateLastSeen(c) ==
    /\ held[c] # NoSession
    /\ held' = [held EXCEPT ![c] = NoSession]
    /\ sessions' = IF held[c].id \in Live /\ sessions[held[c].id].era = held[c].era
                   THEN [sessions EXCEPT ![held[c].id].seen = sessionTime] ELSE sessions
    /\ UNCHANGED <<byIP, byUser, sessionTime, dump, issued, era, mixed>>

\* Update, with an fn that logs an anonymous session in; byUser is not told
Update(id, u) ==
    /\ id \in Live /\ sessions[id].user = Nobody
    /\ sessions' = [sessions EXCEPT ![id].user = u, ![id].seen = sessionTime]
    /\ UNCHANGED <<byIP, byUser, sessionTime, held, dump, issued, era, mixed>>

\* the decisions recorded in the live sessions, up to the bound
Recorded == {p \in Live \X (1 .. MaxDecisions) : p[2] <= sessions[p[1]].decisions}

\* Mutant: a score that would pass 100 is dropped.
AddRiskScoreDropped(id, score) ==
    /\ id \in Live /\ Cardinality(Recorded) < MaxDecisions
    /\ sessions' = [sessions EXCEPT
           ![id].risk = IF @ + score > 100 THEN @ ELSE @ + score,
           ![id].total = @ + score, ![id].decisions = @ + 1]
    /\ UNCHANGED <<byIP, byUser, sessionTime, held, dump, issued, era, mixed>>

AddRiskScore(id, score) ==
    /\ id \in Live /\ Cardinality(Recorded) < MaxDecisions
    /\ sessions' = [sessions EXCEPT
           ![id].risk = IF @ + score > 100 THEN 100 ELSE @ + score,
           ![id].total = @ + score, ![id].decisions = @ + 1]
    /\ UNCHANGED <<byIP, byUser, sessionTime, held, dump, issued, era, mixed>>

\* Mutant: the ID is taken off the lists of all addresses.
RemoveEverywhere(gone) ==
    /\ sessions' = [id \in SessionIDs |-> IF id \in gone THEN NoSession ELSE sessions[id]]
    /\ byIP' = [ip \in Addresses |-> [id \in SessionIDs |->
           IF id \in gone THEN byIP[ip][id] - 1 ELSE byIP[ip][id]]]
    /\ UNCHANGED <<byUser, sessionTime, held, dump, issued, era, mixed>>

\* Mutant: the whole list of the address is deleted.
RemoveAddress(gone) ==
    /\ sessions' = [id \in SessionIDs |-> IF id \in gone THEN NoSession ELSE sessions[id]]
    /\ byIP' = [ip \in Addresses |->
           IF \E id \in gone : sessions[id].ip = ip THEN [id \in SessionIDs |-> 0] ELSE byIP[ip]]
    /\ UNCHANGED <<byUser, sessionTime, held, dump, issued, era, mixed>>

\* Delete of one ID, and cleanup of all that are stale: the sessions and what the
\* two indexes say of them, under their present address and user
RemoveSessions(gone) ==
    /\ sessions' = [id \in SessionIDs |-> IF id \in gone THEN NoSession ELSE sessions[id]]
    /\ byIP' = [ip \in Addresses |-> [id \in SessionIDs |->
           IF id \in gone /\ sessions[id].ip = ip THEN 0 ELSE byIP[ip][id]]]
    /\ byUser' = [u \in Users |->
           IF byUser[u] \in gone /\ sessions[byUser[u]].user = u THEN NoSession ELSE byUser[u]]
    /\ UNCHANGED <<sessionTime, held, dump, issued, era, mixed>>

Delete(id) == id \in Live /\ RemoveSessions({id})

Stale == {id \in Live : sessionTime - sessions[id].seen > SessionTTL}

\* Mutant: the indexes keep what has expired.
cleanupSessionsOnly ==
    /\ Stale # {}
    /\ sessions' = [id \in SessionIDs |-> IF id \in Stale THEN NoSession ELSE sessions[id]]
    /\ UNCHANGED <<byIP, byUser, sessionTime, held, dump, issued, era, mixed>>

cleanupLoop == Stale # {} /\ RemoveSessions(Stale)

Serialize ==
    /\ dump' = sessions
    /\ UNCHANGED <<sessions, byIP, byUser, sessionTime, held, issued, era, mixed>>

\* Deserialize of the last dump: new objects, and both indexes added to, not
\* replaced; of two sessions of one user, map order decides which is indexed
Deserialize ==
    LET dumped == {id \in SessionIDs : dump[id] # NoSession}
        of(u) == {id \in dumped : dump[id].user = u}
    IN  /\ era < MaxRestores
        /\ era' = era + 1
        /\ sessions' = [id \in SessionIDs |->
               IF id \in dumped THEN [dump[id] EXCEPT !.era = era + 1] ELSE NoSession]
        /\ byIP' = [ip \in Addresses |-> [id \in SessionIDs |->
               byIP[ip][id] + (IF id \in dumped /\ dump[id].ip = ip THEN 1 ELSE 0)]]
        /\ byUser' \in [Users -> SessionIDs \cup {NoSession}]
        /\ \A u \in Users : IF of(u) = {} THEN byUser'[u] = byUser[u]
                                          ELSE byUser'[u] \in of(u)
        /\ mixed' = (mixed \/ byIP # NoAddresses \/ \E u \in Users : byUser[u] # NoSession)
        /\ UNCHANGED <<sessionTime, held, dump, issued>>

\* the process is restarted with an empty store; dump is on disk
Restart ==
    /\ sessions' = EmptyStore /\ byIP' = NoAddresses
    /\ byUser' = [u \in Users |-> NoSession]
    /\ held' = [c \in Finders |-> NoSession]
    /\ mixed' = FALSE
    /\ UNCHANGED <<sessionTime, dump, issued, era>>

SessionTick ==
    /\ sessionTime < MaxSessionTime
    /\ sessionTime' = sessionTime + 1
    /\ UNCHANGED <<sessions, byIP, byUser, held, dump, issued, era, mixed>>

\* GetByUser and GetByIP
GetByUser(u) == IF byUser[u] \in SessionIDs THEN sessions[byUser[u]] ELSE NoSession
GetByIP(ip) == {id \in Live : byIP[ip][id] > 0}

SessionNext ==
    \/ \E ip \in Addresses : Create(ip)
    \/ \E id \in SessionIDs : \/ \E c \in Finders : GetOrCreateFind(c, id)
                              \/ \E u \in Users : Update(id, u)
                              \/ \E s \in Scores : AddRiskScore(id, s)
                              \/ Delete(id)
    \/ \E c \in Finders : updateLastSeen(c)
    \/ cleanupLoop \/ Serialize \/ Deserialize \/ Restart \/ SessionTick

SessionSpec == SessionInit /\ [][SessionNext]_sessionVars

-----------------------------------------------------------------------------
(* Properties *)

\* The maps and the values in them have the types the code declares.
SessionTypeOK ==
    /\ sessions \in [SessionIDs -> SessionSet \cup {NoSession}]
    /\ dump \in [SessionIDs -> SessionSet \cup {NoSession}]
    /\ byIP \in [Addresses -> [SessionIDs -> Nat]]
    /\ byUser \in [Users -> SessionIDs \cup {NoSession}]
    /\ sessionTime \in Nat /\ era \in Nat /\ mixed \in BOOLEAN
    /\ issued \subseteq SessionIDs

\* GetByIP finds every session of an address and no session of another, through any
\* sequence of deletions, expiries, restores and restarts.
ByIPFindsAll ==
    \A ip \in Addresses : GetByIP(ip) = {id \in Live : sessions[id].ip = ip}

\* Restores into an empty store keep the indexes exact: an ID is listed once, under
\* its own address, as long as it lives and no longer, and a user's entry leads to a
\* session of that user.
IndexesExact ==
    ~mixed =>
        /\ \A ip \in Addresses, id \in SessionIDs :
               byIP[ip][id] = IF id \in Live /\ sessions[id].ip = ip THEN 1 ELSE 0
        /\ \A u \in Users : byUser[u] # NoSession =>
               GetByUser(u) # NoSession /\ GetByUser(u).user = u

\* The risk score is the sum of the recorded decisions, cut at 100: the cut after
\* each decision loses nothing, and a restore keeps score and decisions together.
RiskIsCappedSum ==
    \A id \in Live :
        sessions[id].risk = IF sessions[id].total > 100 THEN 100 ELSE sessions[id].total

\* Sessions, their two indexes and their scores agree, across deletion, expiry, a
\* dump and a restore.
SessionsConsistent == SessionTypeOK /\ ByIPFindsAll /\ IndexesExact /\ RiskIsCappedSum
=============================================================================
