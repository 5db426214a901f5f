------------------------- MODULE ConfigManagerProofs -------------------------
(***************************************************************************)
(* Theorems about ConfigManager for any number of reloaders, clients,      *)
(* edits and updates.                                                      *)
(***************************************************************************)
EXTENDS ConfigManager, SequenceTheorems, TLAPS

\* No goroutine both reloads and serves a site handler.
LEMMA Disjoint == \A p \in Reloaders : p \notin Clients
BY WatcherAssumption, ClientsAssumption DEF Reloaders

\* The initial configuration has a first site.
LEMMA InitialSite == Initial[1] \in Sites
<1>1. Initial \in Seq(Sites) /\ Initial # <<>>
  BY FilesAssumption DEF Validate, Configs
<1>2. Len(Initial) \in Nat /\ DOMAIN Initial = 1 .. Len(Initial)
  BY <1>1
<1>3. Len(Initial) # 0
  BY <1>1, EmptySeq
<1>4. 1 \in DOMAIN Initial
  BY <1>2, <1>3
<1> QED
  BY <1>1, <1>4, ElementOfSeq

\* The update functions map configurations to configurations.
LEMMA ChangedType ==
    ASSUME NEW c \in Configs, NEW chg \in Changes
    PROVE  Changed(c, chg) \in Configs
<1> DEFINE s == chg.site
<1>s. s \in Sites
  BY DEF Changes
<1>1. CASE chg.op = "create"
  <2>1. Changed(c, chg) = Append(c, s)
    BY <1>1 DEF Changed
  <2> QED
    BY <1>s, <2>1 DEF Configs
<1>2. CASE chg.op = "update" /\ HasSite(c, s.name)
  <2> DEFINE k == First(c, s.name)
  <2>1. Changed(c, chg) = [c EXCEPT ![k] = s]
    BY <1>2 DEF Changed
  <2> HIDE DEF k, s
  <2>2. c \in Seq(Sites) /\ s \in Sites
    BY <1>s DEF Configs
  <2>3. [c EXCEPT ![k] = s] \in Seq(Sites)
    <3>1. CASE k \in 1 .. Len(c)
      BY <2>2, <3>1, ExceptSeq
    <3>2. CASE k \notin 1 .. Len(c)
      <4>1. DOMAIN c = 1 .. Len(c)
        BY <2>2
      <4>2. [c EXCEPT ![k] = s] = c
        BY <2>2, <3>2, <4>1
      <4> QED
        BY <2>2, <4>2
    <3> QED
      BY <3>1, <3>2
  <2> QED
    BY <2>1, <2>3 DEF Configs
<1>3. CASE chg.op = "delete" /\ HasSite(c, s.name)
  <2> DEFINE k == First(c, s.name)
             w == [i \in 1 .. Len(c) - 1 |-> IF i < k THEN c[i] ELSE c[i + 1]]
  <2>1. Changed(c, chg) = w
    BY <1>3 DEF Changed, Without
  <2>2. PICK j \in DOMAIN c : c[j].name = s.name
    BY <1>3 DEF HasSite
  <2>3. Len(c) \in Nat \ {0} /\ Len(c) - 1 \in Nat
    BY <2>2 DEF Configs
  <2> HIDE DEF k
  <2>4. \A i \in 1 .. Len(c) - 1 : c[i] \in Sites /\ c[i + 1] \in Sites
    BY <2>3 DEF Configs
  <2>5. w \in Seq(Sites)
    BY <2>3, <2>4
  <2> QED
    BY <2>1, <2>5 DEF Configs
<1>4. CASE ~(\/ chg.op = "create"
             \/ chg.op = "update" /\ HasSite(c, s.name)
             \/ chg.op = "delete" /\ HasSite(c, s.name))
  <2>1. Changed(c, chg) = c
    BY <1>4 DEF Changed
  <2> QED
    BY <2>1
<1> QED
  BY <1>1, <1>2, <1>3, <1>4

\* What a broken-off write leaves in the file is a list of sites.
LEMMA TornType ==
    ASSUME NEW c \in Configs, NEW k \in 0 .. Len(c) - 1, NEW cut \in BOOLEAN
    PROVE  Torn(c, k, cut) \in Configs
<1> DEFINE n == IF cut THEN k + 1 ELSE k
<1>1. Len(c) \in Nat /\ DOMAIN c = 1 .. Len(c) /\ n \in Nat /\ n <= Len(c)
  BY DEF Configs
<1>2. \A i \in 1 .. n : c[i] \in Sites /\ [c[i] EXCEPT !.upstream = ""] \in Sites
  <2> TAKE i \in 1 .. n
  <2>1. c[i] \in Sites
    BY <1>1 DEF Configs
  <2> QED
    BY <2>1 DEF Sites
<1> DEFINE t == [i \in 1 .. n |->
                    IF i = k + 1 THEN [c[i] EXCEPT !.upstream = ""] ELSE c[i]]
<1>3. Torn(c, k, cut) = t
  BY DEF Torn
<1>5. \A i \in 1 .. n :
          (IF i = k + 1 THEN [c[i] EXCEPT !.upstream = ""] ELSE c[i]) \in Sites
  BY <1>2
<1> HIDE DEF n
<1>4. t \in Seq(Sites)
  <2>1. t \in [1 .. n -> Sites]
    BY <1>5
  <2> HIDE DEF t
  <2> QED
    BY <1>1, <2>1
<1> QED
  BY <1>3, <1>4 DEF Configs

-----------------------------------------------------------------------------
(* The inductive invariant                                                 *)

\* What a Reload carries from Load to Swap has been validated.
LoadedValid ==
    \A p \in Reloaders : pc[p] = "swap" => Validate(loaded[p])

\* A handler that is about to write the file holds the lock, and what it is
\* about to write has been validated and cannot be swapped away.
SavingValid ==
    \A p \in Clients : pc[p] \in {"save", "write"} => mu = p /\ Validate(config)

FileInv ==
    TypeOK /\ LoadedValid /\ SavingValid /\ FileStaysLoadable /\ LiveConfigValid

\* The program starts with a valid file and nobody writing it.
LEMMA InitFile == Init => FileInv
<1> SUFFICES ASSUME Init PROVE FileInv
  OBVIOUS
<1>0. Initial \in Configs /\ Validate(Initial) /\ Initial[1] \in Sites
  BY InitialSite, FilesAssumption
<1>1. TypeOK
  <2>1. [op |-> "none", site |-> Initial[1]] \in Changes
    BY <1>0 DEF Changes
  <2>2. change \in [Clients -> Changes] /\ loaded \in [Reloaders -> Configs]
    BY <1>0, <2>1 DEF Init
  <2>3. /\ pc \in [Procs -> ReloadPCs \cup UpdatePCs]
        /\ \A p \in Reloaders : pc[p] \in ReloadPCs
        /\ \A p \in Clients : pc[p] \in UpdatePCs
    BY DEF Init, ReloadPCs, UpdatePCs, Procs
  <2>4. edits \in 0 .. MaxEdits /\ requests \in 0 .. MaxRequests
    BY MaxAssumption DEF Init
  <2> QED
    BY <1>0, <2>2, <2>3, <2>4 DEF Init, TypeOK
<1>2. LoadedValid /\ SavingValid /\ FileStaysLoadable /\ LiveConfigValid
  BY <1>0 DEF Init, LoadedValid, SavingValid, FileStaysLoadable, LiveConfigValid,
              Procs
<1> QED
  BY <1>1, <1>2 DEF FileInv

\* Every step of a reload, a handler or the operator keeps the types.
LEMMA StepType == TypeOK /\ [Next]_vars => TypeOK'
<1> SUFFICES ASSUME TypeOK, [Next]_vars PROVE TypeOK'
  OBVIOUS
<1> USE Disjoint DEF TypeOK, ReloadPCs, UpdatePCs, Procs
<1>1. ASSUME NEW c \in Edits, EditTruncate(c) PROVE TypeOK'
  <2>1. disk' \in Configs
    BY <1>1 DEF EditTruncate, Configs
  <2>2. edits' \in 0 .. MaxEdits
    BY <1>1, MaxAssumption DEF EditTruncate
  <2> QED
    BY <1>1, <2>1, <2>2 DEF EditTruncate
<1>2. CASE EditWrite
  BY <1>2, FilesAssumption DEF EditWrite
<1>3. CASE WatchEvent
  BY <1>3 DEF WatchEvent, Reloaders
<1>4. ASSUME NEW p \in Admins, AdminReload(p) PROVE TypeOK'
  BY <1>4, MaxAssumption DEF AdminReload, Reloaders
<1>5. ASSUME NEW p \in Reloaders, ReloadStep(p) PROVE TypeOK'
  <2>1. CASE Load(p)
    BY <2>1 DEF Load
  <2>2. CASE Swap(p)
    BY <2>2 DEF Swap
  <2>3. CASE Notify(p)
    BY <2>3 DEF Notify
  <2> QED
    BY <1>5, <2>1, <2>2, <2>3 DEF ReloadStep
<1>6. ASSUME NEW p \in Clients, Request(p) PROVE TypeOK'
  <2>1. PICK op \in {"create", "update", "enable", "delete"}, s \in Sites :
          Call(p, op, s)
    BY <1>6, InitialSite
    DEF Request, CreateSite, UpdateSite, EnableSite, DeleteSite, Sites
  <2>2. [op |-> op, site |-> s] \in Changes
    BY DEF Changes
  <2> QED
    BY <2>1, <2>2, MaxAssumption DEF Call
<1>7. ASSUME NEW p \in Clients, UpdateStep(p) PROVE TypeOK'
  <2>1. CASE Mutate(p)
    <3>1. Changed(config, change[p]) \in Configs
      BY ChangedType
    <3> QED
      BY <2>1, <3>1 DEF Mutate
  <2>2. CASE SaveTruncate(p)
    BY <2>2 DEF SaveTruncate, Configs
  <2>3. CASE SaveFails(p)
    BY <2>3 DEF SaveFails
  <2>4. CASE SaveWrite(p)
    BY <2>4 DEF SaveWrite
  <2>5. CASE Notify(p)
    BY <2>5 DEF Notify
  <2>6. CASE SaveTears(p)
    <3>1. disk' \in Configs
      BY <2>6, TornType DEF SaveTears
    <3> QED
      BY <2>6, <3>1 DEF SaveTears
  <2> QED
    BY <1>7, <2>1, <2>2, <2>3, <2>4, <2>5, <2>6 DEF UpdateStep
<1>8. CASE AtRest \/ UNCHANGED vars
  BY <1>8 DEF AtRest, vars
<1> QED
  BY <1>1, <1>2, <1>3, <1>4, <1>5, <1>6, <1>7, <1>8 DEF Next

\* No step of Load, Swap, UpdateConfig, SaveToFile or an edit leaves a file at
\* rest that Load would refuse.
LEMMA StepFile == FileInv /\ [Next]_vars => FileInv'
<1> SUFFICES ASSUME FileInv, [Next]_vars
             PROVE  /\ LoadedValid' /\ SavingValid' /\ FileStaysLoadable'
                    /\ LiveConfigValid'
  BY StepType DEF FileInv
<1>t. TypeOK /\ LoadedValid /\ SavingValid /\ FileStaysLoadable /\ LiveConfigValid
  BY DEF FileInv
<1> USE <1>t, Disjoint
    DEF LoadedValid, SavingValid, FileStaysLoadable, LiveConfigValid, Writing,
        TypeOK, Procs
<1>1. ASSUME NEW c \in Edits, EditTruncate(c)
      PROVE  /\ LoadedValid' /\ SavingValid' /\ FileStaysLoadable'
             /\ LiveConfigValid'
  <2>1. c # <<>>
    BY FilesAssumption DEF Validate
  <2> QED
    BY <1>1, <2>1 DEF EditTruncate
<1>2. CASE EditWrite
  <2>1. Validate(editing)
    BY <1>2, FilesAssumption DEF EditWrite
  <2> QED
    BY <1>2, <2>1 DEF EditWrite
<1>3. CASE WatchEvent
  BY <1>3 DEF WatchEvent, Reloaders
<1>4. ASSUME NEW p \in Admins, AdminReload(p)
      PROVE  /\ LoadedValid' /\ SavingValid' /\ FileStaysLoadable'
             /\ LiveConfigValid'
  BY <1>4 DEF AdminReload, Reloaders
<1>5. ASSUME NEW p \in Reloaders, ReloadStep(p)
      PROVE  /\ LoadedValid' /\ SavingValid' /\ FileStaysLoadable'
             /\ LiveConfigValid'
  <2>1. CASE Load(p)
    BY <2>1 DEF Load, Loads
  <2>2. CASE Swap(p)
    <3>1. \A q \in Clients : pc[q] \notin {"save", "write"}
      BY <2>2, ClientsAssumption DEF Swap
    <3> QED
      BY <2>2, <3>1 DEF Swap
  <2>3. CASE Notify(p)
    BY <2>3 DEF Notify
  <2> QED
    BY <1>5, <2>1, <2>2, <2>3 DEF ReloadStep
<1>6. ASSUME NEW p \in Clients, Request(p)
      PROVE  /\ LoadedValid' /\ SavingValid' /\ FileStaysLoadable'
             /\ LiveConfigValid'
  BY <1>6 DEF Request, CreateSite, UpdateSite, EnableSite, DeleteSite, Call
<1>7. ASSUME NEW p \in Clients, UpdateStep(p)
      PROVE  /\ LoadedValid' /\ SavingValid' /\ FileStaysLoadable'
             /\ LiveConfigValid'
  <2>1. CASE Mutate(p)
    <3>1. \A q \in Clients : pc[q] \notin {"save", "write"}
      BY <2>1, ClientsAssumption DEF Mutate
    <3>2. LoadedValid'
      BY <2>1 DEF Mutate
    <3>3. SavingValid'
      BY <2>1, <3>1 DEF Mutate, Accepts
    <3>4. FileStaysLoadable'
      BY <2>1, <3>1 DEF Mutate
    <3>5. LiveConfigValid'
      BY <2>1 DEF Mutate, Accepts
    <3> QED
      BY <3>2, <3>3, <3>4, <3>5
  <2>2. CASE SaveTruncate(p)
    BY <2>2 DEF SaveTruncate
  <2>3. CASE SaveFails(p)
    BY <2>3 DEF SaveFails
  <2>4. CASE SaveWrite(p)
    BY <2>4 DEF SaveWrite
  <2>5. CASE Notify(p)
    BY <2>5 DEF Notify
  <2>6. CASE SaveTears(p)
    BY <2>6 DEF SaveTears
  <2> QED
    BY <1>7, <2>1, <2>2, <2>3, <2>4, <2>5, <2>6 DEF UpdateStep
<1>8. CASE AtRest \/ UNCHANGED vars
  BY <1>8 DEF AtRest, vars
<1> QED
  BY <1>1, <1>2, <1>3, <1>4, <1>5, <1>6, <1>7, <1>8 DEF Next

\* Every variable of the manager keeps its type.
THEOREM TypeCorrect == Spec => []TypeOK
<1>1. FileInv => TypeOK
  BY DEF FileInv
<1> QED
  BY <1>1, InitFile, StepFile, PTL DEF Spec

\* Whatever reloads, edits, failing saves and API updates interleave, a file
\* nobody is writing is one that Load accepts, unless its last write broke off.
THEOREM FileLoadable == Spec => []FileStaysLoadable
<1>1. FileInv => FileStaysLoadable
  BY DEF FileInv
<1> QED
  BY <1>1, InitFile, StepFile, PTL DEF Spec

\* The live configuration is valid but for a change that UpdateConfig refused: a
\* reload makes neither a half-written nor a torn file live.
THEOREM ReloadKeepsValid == Spec => []LiveConfigValid
<1>1. FileInv => LiveConfigValid
  BY DEF FileInv
<1> QED
  BY <1>1, InitFile, StepFile, PTL DEF Spec
==============================================================================
