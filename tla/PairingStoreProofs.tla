------------------------- MODULE PairingStoreProofs -------------------------
(* Proofs about PairingStore for any sets of devices and callers and any     *)
(* number of tokens, restarts and failing file operations.  The last part is *)
(* about one caller at a time: then the store implements DurableStore, and   *)
(* what its calls report is true.                                            *)
EXTENDS PairingStore, FiniteSetTheorems, TLAPS

-----------------------------------------------------------------------------
(* The operators of Pairing.                                                 *)

LEMMA NewEntryType ==
  ASSUME NEW d \in Devices, NEW t \in Tokens
  PROVE  NewEntry(d, t) \in Entry
  BY DEF NewEntry, Entry, TokenHashes, HashToken

\* The listed entries of a well-typed map are entries.
LEMMA ListType == ASSUME NEW es \in Entries PROVE List(es) \in SUBSET Entry
  BY DEF Entries, List

\* What Pair, Revoke and Confirm make of the map is a map again.
LEMMA MapOperationsType ==
  ASSUME NEW es \in Entries, NEW d \in Devices
  PROVE  /\ \A t \in Tokens : PutEntry(es, d, t) \in Entries
         /\ DeleteEntry(es, d) \in Entries
         /\ es[d] # None => ConfirmEntry(es, d) \in Entries
<1>1. \A t \in Tokens : PutEntry(es, d, t) \in Entries
  BY NewEntryType DEF PutEntry, Entries
<1>2. DeleteEntry(es, d) \in Entries
  BY DEF DeleteEntry, Entries
<1>3. ASSUME es[d] # None PROVE ConfirmEntry(es, d) \in Entries
  <2>1. es[d] \in Entry
    BY <1>3 DEF Entries
  <2>2. [es[d] EXCEPT !.Confirmed = TRUE] \in Entry
    BY <2>1 DEF Entry
  <2> QED
    BY <2>2 DEF ConfirmEntry, Entries
<1> QED
  BY <1>1, <1>2, <1>3

\* OpenStore builds a map from a list of entries.
LEMMA LoadType == ASSUME NEW es \in SUBSET Entry PROVE Load(es) \in Entries
<1>1. ASSUME NEW d \in Devices
      PROVE  Load(es)[d] \in Entry \cup {None}
  BY DEF Load
<1> QED
  BY <1>1 DEF Load, Entries

LEMMA ContentType ==
  /\ NoFile \in Content
  /\ Garbled \in Content
  /\ \A es \in SUBSET Entry : ListFile(es) \in Content
  /\ \A old : \A es \in SUBSET Entry : Overlay(old, es) \in Content
  BY DEF NoFile, Garbled, ListFile, Overlay, Content

-----------------------------------------------------------------------------
(* Type correctness.                                                         *)

\* The history keeps its type when fates are rewritten.
LEMMA WithFateType ==
  ASSUME NEW ts, NEW fate \in Fates, TypeOK
  PROVE  WithFate(ts, fate) \in [Tokens -> [dev: Devices \cup {None}, fate: Fates]]
  BY DEF WithFate, TypeOK

\* A return, with or without an error, keeps the types of what it changes.
LEMMA ReturnType ==
  ASSUME NEW c \in Callers, NEW ok \in BOOLEAN, TypeOK, Return(c, ok)
  PROVE  /\ pc' \in [Callers -> Steps]
         /\ call' \in [Callers -> Calls]
         /\ list' \in [Callers -> SUBSET Entry]
         /\ ledger' \in [Tokens -> [dev: Devices \cup {None}, fate: Fates]]
<1>1. /\ pc' \in [Callers -> Steps]
      /\ list' \in [Callers -> SUBSET Entry]
  BY DEF Return, TypeOK, Steps
<1>2. NoCall \in Calls
  BY DEF NoCall, Calls
<1>3. call' \in [Callers -> Calls]
  BY <1>2 DEF Return, TypeOK
<1>4. ASSUME NEW t \in Tokens
      PROVE  ledger'[t] \in [dev: Devices \cup {None}, fate: Fates]
  <2> DEFINE f == CASE ok /\ t \in call[c].gone ->
                         IF call[c].token = None THEN "revoked" ELSE "replaced"
                    [] ok /\ t = call[c].token /\ ledger[t].fate = "pending" -> "issued"
                    [] OTHER -> ledger[t].fate
  <2>1. ledger[t] \in [dev: Devices \cup {None}, fate: Fates]
    BY DEF TypeOK
  <2>2. f \in Fates
    BY <2>1 DEF Fates
  <2>3. ledger'[t] = [ledger[t] EXCEPT !.fate = f]
    BY DEF Return
  <2> HIDE DEF f
  <2> QED
    BY <2>1, <2>2, <2>3
<1>5. ledger' = [t \in Tokens |-> ledger'[t]]
  BY DEF Return
<1> QED
  BY <1>1, <1>3, <1>4, <1>5

\* Pair, Revoke and Confirm keep the types.
LEMMA OperationType ==
  ASSUME NEW c \in Callers, TypeOK, Operation(c)
  PROVE  TypeOK'
<1> USE PairingAssumption, StoreAssumption
<1> PICK d \in Devices : Pair(c, d) \/ Revoke(c, d) \/ RevokeAbsent(c, d) \/ Confirm(c, d)
  BY DEF Operation
<1>1. Displaced(d) \in SUBSET Tokens
  BY DEF Displaced
<1>2. ASSUME NEW token \in Tokens \cup {None}, NEW gone \in SUBSET Tokens,
             Persist(c, token, gone)
      PROVE  pc' \in [Callers -> Steps] /\ call' \in [Callers -> Calls]
  BY <1>2 DEF Persist, TypeOK, Steps, Calls
<1>3. CASE Pair(c, d)
  <2>1. nextToken \in Tokens /\ nextToken' \in 0..MaxTokens
    BY <1>3 DEF Pair, TypeOK, Tokens
  <2>2. entries' \in Entries
    BY <1>3, <2>1, MapOperationsType DEF Pair, TypeOK
  <2>3. WithFate(Displaced(d), "ending") \in
          [Tokens -> [dev: Devices \cup {None}, fate: Fates]]
    BY WithFateType DEF Fates
  <2>4. ledger' \in [Tokens -> [dev: Devices \cup {None}, fate: Fates]]
    BY <1>3, <2>1, <2>3 DEF Pair, Fates
  <2>5. pc' \in [Callers -> Steps] /\ call' \in [Callers -> Calls]
    BY <1>3, <2>1, <1>1, <1>2 DEF Pair
  <2> QED
    BY <1>3, <2>1, <2>2, <2>4, <2>5 DEF Pair, TypeOK
<1>4. CASE Revoke(c, d)
  <2>1. entries' \in Entries
    BY <1>4, MapOperationsType DEF Revoke, TypeOK
  <2>2. ledger' \in [Tokens -> [dev: Devices \cup {None}, fate: Fates]]
    BY <1>4, WithFateType DEF Revoke, Fates
  <2>3. pc' \in [Callers -> Steps] /\ call' \in [Callers -> Calls]
    BY <1>4, <1>1, <1>2 DEF Revoke
  <2> QED
    BY <1>4, <2>1, <2>2, <2>3 DEF Revoke, TypeOK
<1>5. CASE RevokeAbsent(c, d)
  <2>1. ledger' \in [Tokens -> [dev: Devices \cup {None}, fate: Fates]]
    BY <1>5, WithFateType DEF RevokeAbsent, Fates
  <2> QED
    BY <1>5, <2>1 DEF RevokeAbsent, TypeOK
<1>6. CASE Confirm(c, d)
  <2>1. entries' \in Entries
    BY <1>6, MapOperationsType DEF Confirm, TypeOK
  <2>2. pc' \in [Callers -> Steps] /\ call' \in [Callers -> Calls]
    BY <1>6, <1>2 DEF Confirm
  <2> QED
    BY <1>6, <2>1, <2>2 DEF Confirm, TypeOK
<1> QED
  BY <1>3, <1>4, <1>5, <1>6

\* Every step of persist keeps the types.
LEMMA PersistStepType ==
  ASSUME NEW c \in Callers, TypeOK, PersistStep(c)
  PROVE  TypeOK'
<1> USE StoreAssumption
<1>1. CASE Snapshot(c)
  BY <1>1, ListType DEF Snapshot, TypeOK, Steps
<1>2. CASE OpenTmp(c)
  <2>1. file' \in [Files -> Content]
    BY <1>2, ContentType DEF OpenTmp, TypeOK
  <2> QED
    BY <1>2, <2>1 DEF OpenTmp, TypeOK, Steps, Files
<1>3. CASE WriteTmp(c)
  <2>1. file' \in [Files -> Content]
    BY <1>3, ContentType DEF WriteTmp, TypeOK
  <2> QED
    BY <1>3, <2>1 DEF WriteTmp, TypeOK, Steps
<1>4. CASE RenameTmp(c)
  <2>1. file' \in [Files -> Content]
    BY <1>4, ContentType DEF RenameTmp, TypeOK, Files
  <2>2. fd' \in [Callers -> Files \cup {"none", "unlinked"}]
    BY <1>4 DEF RenameTmp, TypeOK, Relink, Files
  <2> QED
    BY <1>4, <2>1, <2>2, ReturnType DEF RenameTmp, TypeOK
<1>5. CASE RenameLost(c)
  BY <1>5, ReturnType DEF RenameLost, TypeOK
<1>6. CASE PersistFails(c)
  <2>1. file' \in [Files -> Content]
    BY <1>6, ContentType DEF PersistFails, TypeOK
  <2>2. fd' \in [Callers -> Files \cup {"none", "unlinked"}]
    BY <1>6 DEF PersistFails, TypeOK
  <2>3. failures' \in 0..MaxFailures
    BY <1>6 DEF PersistFails, TypeOK
  <2> QED
    BY <1>6, <2>1, <2>2, <2>3, ReturnType DEF PersistFails, TypeOK
<1> QED
  BY <1>1, <1>2, <1>3, <1>4, <1>5, <1>6 DEF PersistStep

\* So do a stop and a start of the program.
LEMMA RestartType == TypeOK /\ (Crash \/ OpenStore) => TypeOK'
<1> USE PairingAssumption, StoreAssumption
<1> SUFFICES ASSUME TypeOK, Crash \/ OpenStore PROVE TypeOK'
  OBVIOUS
<1>1. CASE Crash
  <2>1. NoEntries \in Entries
    BY DEF NoEntries, Entries
  <2>2. NoCall \in Calls
    BY DEF NoCall, Calls
  <2>3. crashes' \in 0..MaxCrashes
    BY <1>1 DEF Crash, TypeOK
  <2> QED
    BY <1>1, <2>1, <2>2, <2>3 DEF Crash, TypeOK, Steps
<1>2. CASE OpenStore
  <2>1. file["path"].list \in SUBSET Entry
    BY DEF TypeOK, Content, Files
  <2>2. entries' \in Entries
    BY <1>2, <2>1, LoadType DEF OpenStore, TypeOK
  <2> QED
    BY <1>2, <2>2 DEF OpenStore, TypeOK
<1> QED
  BY <1>1, <1>2

LEMMA InitType == Init => TypeOK
<1> USE PairingAssumption, StoreAssumption
<1> SUFFICES ASSUME Init PROVE TypeOK
  OBVIOUS
<1>1. entries \in Entries
  BY DEF Init, NoEntries, Entries
<1>2. call \in [Callers -> Calls]
  BY DEF Init, NoCall, Calls
<1>3. file \in [Files -> Content]
  BY ContentType DEF Init
<1>4. ledger \in [Tokens -> [dev: Devices \cup {None}, fate: Fates]]
  BY DEF Init, Fates
<1> QED
  BY <1>1, <1>2, <1>3, <1>4 DEF Init, TypeOK, Steps

LEMMA StepType == TypeOK /\ [Next]_vars => TypeOK'
<1> SUFFICES ASSUME TypeOK, [Next]_vars PROVE TypeOK'
  OBVIOUS
<1>1. ASSUME NEW c \in Callers, Operation(c) \/ PersistStep(c) PROVE TypeOK'
  BY <1>1, OperationType, PersistStepType
<1>2. CASE UNCHANGED vars
  BY <1>2 DEF vars, TypeOK
<1> QED
  BY <1>1, <1>2, RestartType DEF Next

\* Type correctness of the store, under any interleaving of callers,
\* failures and restarts.
THEOREM StoreTypeCorrect == Spec => []TypeOK
  BY InitType, StepType, PTL DEF Spec

-----------------------------------------------------------------------------
(* Tokens and devices.  The inductive invariant adds to the types that every *)
(* entry anywhere carries a token already drawn, and drawn for its device.   *)

OwnedEntry(e) == /\ e.TokenHash.sha256 < nextToken
                 /\ ledger[e.TokenHash.sha256].dev = e.DeviceID

StoreInv == TypeOK /\ \A e \in KnownEntries : OwnedEntry(e)

\* No step forgets for whom a token was drawn.
LEMMA LedgerKeepsDevices ==
  ASSUME TypeOK, [Next]_vars
  PROVE  /\ nextToken' >= nextToken
         /\ \A t \in Tokens : t < nextToken => ledger'[t].dev = ledger[t].dev
<1> USE PairingAssumption
<1>1. ASSUME NEW ts, NEW fate, NEW t \in Tokens
      PROVE  WithFate(ts, fate)[t].dev = ledger[t].dev
  BY DEF WithFate, TypeOK
<1>2. ASSUME NEW c \in Callers, NEW ok, Return(c, ok), NEW t \in Tokens
      PROVE  ledger'[t].dev = ledger[t].dev
  BY <1>2 DEF Return, TypeOK
<1>3. ASSUME NEW c \in Callers, Operation(c)
      PROVE  /\ nextToken' >= nextToken
             /\ \A t \in Tokens : t < nextToken => ledger'[t].dev = ledger[t].dev
  <2> PICK d \in Devices :
        Pair(c, d) \/ Revoke(c, d) \/ RevokeAbsent(c, d) \/ Confirm(c, d)
    BY <1>3 DEF Operation
  <2>1. CASE Pair(c, d)
    <3>1. nextToken' = nextToken + 1 /\ nextToken \in Nat
      BY <2>1 DEF Pair, TypeOK
    <3>2. ASSUME NEW t \in Tokens, t < nextToken
          PROVE  ledger'[t].dev = WithFate(Displaced(d), "ending")[t].dev
      <4>1. WithFate(Displaced(d), "ending") \in
              [Tokens -> [dev: Devices \cup {None}, fate: Fates]]
        BY WithFateType DEF Fates
      <4>2. t # nextToken
        BY <3>1, <3>2 DEF Tokens
      <4> QED
        BY <2>1, <4>1, <4>2 DEF Pair
    <3> QED
      BY <3>1, <3>2, <1>1
  <2>2. CASE Revoke(c, d)
    BY <2>2, <1>1 DEF Revoke, TypeOK
  <2>3. CASE RevokeAbsent(c, d)
    BY <2>3, <1>1 DEF RevokeAbsent, TypeOK
  <2>4. CASE Confirm(c, d)
    BY <2>4 DEF Confirm, TypeOK
  <2> QED
    BY <2>1, <2>2, <2>3, <2>4
<1>4. ASSUME NEW c \in Callers, PersistStep(c)
      PROVE  /\ nextToken' >= nextToken
             /\ \A t \in Tokens : ledger'[t].dev = ledger[t].dev
  <2>0. nextToken \in Nat
    BY DEF TypeOK
  <2>1. nextToken' = nextToken
    BY <1>4 DEF PersistStep, Snapshot, OpenTmp, WriteTmp, RenameTmp, RenameLost,
       PersistFails
  <2>2. ledger' = ledger \/ \E ok \in BOOLEAN : Return(c, ok)
    BY <1>4 DEF PersistStep, Snapshot, OpenTmp, WriteTmp, RenameTmp, RenameLost,
       PersistFails
  <2> QED
    BY <2>0, <2>1, <2>2, <1>2
<1>5. CASE Crash \/ OpenStore \/ UNCHANGED vars
  BY <1>5 DEF Crash, OpenStore, vars, TypeOK
<1> QED
  BY <1>3, <1>4, <1>5 DEF Next

\* An entry known after a step was known before it, up to its Confirmed flag,
\* or is the one that Pair just made.
LEMMA Provenance ==
  ASSUME TypeOK, TypeOK', [Next]_vars, NEW e \in KnownEntries'
  PROVE  \/ \E k \in KnownEntries : /\ k.TokenHash = e.TokenHash
                                    /\ k.DeviceID = e.DeviceID
         \/ \E d \in Devices : /\ nextToken \in Tokens
                               /\ e = NewEntry(d, nextToken)
                               /\ nextToken' = nextToken + 1
                               /\ ledger'[nextToken].dev = d
<1> USE PairingAssumption
<1> DEFINE Goal == \/ \E k \in KnownEntries : /\ k.TokenHash = e.TokenHash
                                              /\ k.DeviceID = e.DeviceID
                   \/ \E d \in Devices : /\ nextToken \in Tokens
                                         /\ e = NewEntry(d, nextToken)
                                         /\ nextToken' = nextToken + 1
                                         /\ ledger'[nextToken].dev = d
<1>1. e \in KnownEntries => Goal
  OBVIOUS
<1>2. \/ e \in List(entries)'
      \/ \E c \in Callers : e \in list'[c]
      \/ \E f \in Files : e \in file'[f].list
  BY DEF KnownEntries
<1>3. \A x : \/ x \in List(entries)
             \/ \E c \in Callers : x \in list[c]
             \/ \E f \in Files : x \in file[f].list
             => x \in KnownEntries
  BY DEF KnownEntries
<1>4. ASSUME NEW c \in Callers, Operation(c) PROVE Goal
  <2> PICK d \in Devices :
        Pair(c, d) \/ Revoke(c, d) \/ RevokeAbsent(c, d) \/ Confirm(c, d)
    BY <1>4 DEF Operation
  <2>1. UNCHANGED <<list, file>>
    BY DEF Pair, Revoke, RevokeAbsent, Confirm
  <2>2. CASE e \notin List(entries)'
    BY <2>1, <2>2, <1>1, <1>2, <1>3
  <2>3. CASE e \in List(entries)'
    <3>0. PICK x \in Devices : e = entries'[x] /\ entries'[x] # None
      BY <2>3 DEF List
    <3>1. CASE x # d \/ RevokeAbsent(c, d)
      <4>1. entries'[x] = entries[x]
        BY <3>1 DEF Pair, Revoke, RevokeAbsent, Confirm, PutEntry, DeleteEntry,
           ConfirmEntry, TypeOK, Entries
      <4> QED
        BY <3>0, <4>1, <1>1, <1>3 DEF List
    <3>2. CASE x = d /\ Pair(c, d)
      <4>1. e = NewEntry(d, nextToken) /\ nextToken' = nextToken + 1
        BY <3>0, <3>2 DEF Pair, PutEntry, TypeOK, Entries
      <4>2. nextToken \in Tokens
        BY <3>2 DEF Pair, TypeOK, Tokens
      <4>3. ledger'[nextToken].dev = d
        BY <3>2, <4>2 DEF Pair, WithFate
      <4> QED
        BY <4>1, <4>2, <4>3
    <3>3. CASE x = d /\ Revoke(c, d)
      BY <3>0, <3>3 DEF Revoke, DeleteEntry, TypeOK, Entries
    <3>4. CASE x = d /\ Confirm(c, d)
      <4>1. entries[d] \in Entry /\ entries[d] # None
        BY <3>4 DEF Confirm, TypeOK, Entries
      <4>2. e = [entries[d] EXCEPT !.Confirmed = TRUE]
        BY <3>0, <3>4 DEF Confirm, ConfirmEntry, TypeOK, Entries
      <4>3. e.TokenHash = entries[d].TokenHash /\ e.DeviceID = entries[d].DeviceID
        BY <4>1, <4>2 DEF Entry
      <4> QED
        BY <4>1, <4>3, <1>3 DEF List
    <3> QED
      BY <3>1, <3>2, <3>3, <3>4
  <2> QED
    BY <2>2, <2>3
<1>5. ASSUME NEW c \in Callers, PersistStep(c) PROVE e \in KnownEntries
  <2>1. List(entries)' = List(entries)
    BY <1>5 DEF PersistStep, Snapshot, OpenTmp, WriteTmp, RenameTmp, RenameLost,
       PersistFails, List
  <2>2. CASE \E x \in Callers : e \in list'[x]
    <3>1. ASSUME NEW x \in Callers
          PROVE  list'[x] = list[x] \/ list'[x] = {} \/ list'[x] = List(entries)
      BY <1>5 DEF PersistStep, Snapshot, OpenTmp, WriteTmp, RenameTmp, RenameLost,
         PersistFails, Return, TypeOK
    <3> QED
      BY <2>2, <3>1, <1>3
  <2>3. CASE \E f \in Files : e \in file'[f].list
    <3>1. ASSUME NEW f \in Files
          PROVE  \/ file'[f].list = {}
                 \/ \E g \in Files : file'[f].list = file[g].list
                 \/ \E x \in Callers : file'[f].list = list[x]
      <4>1. CASE Snapshot(c) \/ RenameLost(c)
        BY <4>1 DEF Snapshot, RenameLost
      <4>2. CASE OpenTmp(c)
        BY <4>2 DEF OpenTmp, TypeOK, ListFile
      <4>3. CASE WriteTmp(c)
        BY <4>3 DEF WriteTmp, Overlay, ListFile, Garbled
      <4>4. CASE RenameTmp(c)
        BY <4>4 DEF RenameTmp, TypeOK, Files, NoFile
      <4>5. CASE PersistFails(c)
        BY <4>5 DEF PersistFails, Garbled
      <4> QED
        BY <1>5, <4>1, <4>2, <4>3, <4>4, <4>5 DEF PersistStep
    <3> QED
      BY <2>3, <3>1, <1>3
  <2> QED
    BY <2>1, <2>2, <2>3, <1>2, <1>3
<1>6. CASE Crash
  <2>1. List(entries)' = {}
    BY <1>6 DEF Crash, NoEntries, List
  <2>2. file' = file /\ \A c \in Callers : list'[c] = {}
    BY <1>6 DEF Crash
  <2> QED
    BY <2>1, <2>2, <1>1, <1>2, <1>3
<1>7. CASE OpenStore
  <2>1. UNCHANGED <<file, list>>
    BY <1>7 DEF OpenStore
  <2>2. CASE e \in List(entries)' /\ entries' = Load(file["path"].list)
    <3>1. PICK d \in Devices : e = entries'[d] /\ e # None
      BY <2>2 DEF List
    <3>2. e \in file["path"].list
      BY <2>2, <3>1 DEF Load
    <3> QED
      BY <3>2, <1>1, <1>3 DEF Files
  <2>3. CASE UNCHANGED entries
    BY <2>1, <2>3, <1>1, <1>2, <1>3 DEF List
  <2>4. CASE e \notin List(entries)'
    BY <2>1, <2>4, <1>1, <1>2, <1>3
  <2> QED
    BY <1>7, <2>2, <2>3, <2>4 DEF OpenStore
<1>8. CASE UNCHANGED vars
  BY <1>8, <1>1, <1>2, <1>3 DEF vars, List
<1> QED
  BY <1>1, <1>4, <1>5, <1>6, <1>7, <1>8 DEF Next

\* Known entries of a well-typed store are entries.
LEMMA KnownEntriesType == TypeOK => KnownEntries \subseteq Entry
  BY ListType DEF KnownEntries, TypeOK, Content

\* The ownership of entries is inductive.
LEMMA StoreInvStep == StoreInv /\ TypeOK' /\ [Next]_vars => StoreInv'
<1> SUFFICES ASSUME StoreInv, TypeOK', [Next]_vars, NEW e \in KnownEntries'
             PROVE  OwnedEntry(e)'
  BY DEF StoreInv
<1>0. TypeOK
  BY DEF StoreInv
<1>1. CASE \E k \in KnownEntries : k.TokenHash = e.TokenHash /\ k.DeviceID = e.DeviceID
  <2> PICK k \in KnownEntries : k.TokenHash = e.TokenHash /\ k.DeviceID = e.DeviceID
    BY <1>1
  <2>1. k \in Entry /\ OwnedEntry(k)
    BY <1>0, KnownEntriesType DEF StoreInv
  <2>2. k.TokenHash.sha256 \in Tokens
    BY <2>1 DEF Entry, TokenHashes
  <2>3. k.TokenHash.sha256 < nextToken'
    BY <2>1, <2>2, <1>0, PairingAssumption, LedgerKeepsDevices
       DEF OwnedEntry, TypeOK, Tokens
  <2>4. ledger'[k.TokenHash.sha256].dev = k.DeviceID
    BY <2>1, <2>2, <1>0, LedgerKeepsDevices DEF OwnedEntry
  <2> QED
    BY <2>3, <2>4 DEF OwnedEntry
<1>2. CASE \E d \in Devices : /\ nextToken \in Tokens
                              /\ e = NewEntry(d, nextToken)
                              /\ nextToken' = nextToken + 1
                              /\ ledger'[nextToken].dev = d
  BY <1>2, PairingAssumption DEF OwnedEntry, NewEntry, HashToken, Tokens
<1> QED
  BY <1>0, <1>1, <1>2, Provenance

LEMMA StoreInvInit == Init => StoreInv
<1> SUFFICES ASSUME Init, NEW e \in KnownEntries PROVE OwnedEntry(e)
  BY InitType DEF StoreInv
<1>1. List(entries) = {}
  BY DEF Init, NoEntries, List
<1> QED
  BY <1>1 DEF Init, KnownEntries, NoFile

\* In memory, in every snapshot and in both files, a token belongs to the
\* device it was issued to.
THEOREM StoreTokenIdentifiesDevice == Spec => []TokenIdentifiesDevice
<1>1. StoreInv => TokenIdentifiesDevice
  BY KnownEntriesType DEF StoreInv, TokenIdentifiesDevice, OwnedEntry, HashToken
<1> QED
  BY <1>1, StoreInvInit, StoreInvStep, StoreTypeCorrect, PTL DEF Spec

-----------------------------------------------------------------------------
(* No token comes back while the program runs.                               *)

\* Within one run of the program a drawn token that is rejected stays
\* rejected, whatever the callers do and whichever file operations fail.
THEOREM StoreNoResurrection == Spec => NoResurrection
<1>1. ASSUME TypeOK, [Next]_vars, up = "running", NEW t \in Tokens, t < nextToken,
             ~Authenticates(entries, t), Authenticates(entries', t)
      PROVE  FALSE
  <2> USE PairingAssumption
  <2>0. \A x \in Devices : entries[x] # None => entries[x].TokenHash # HashToken(t)
    BY <1>1 DEF Authenticates, Authenticate, List
  <2>1. PICK x \in Devices : entries'[x] # None /\ entries'[x].TokenHash = HashToken(t)
    BY <1>1 DEF Authenticates, Authenticate, List
  <2>2. entries' # entries
    BY <2>0, <2>1
  <2>3. entries' # NoEntries
    BY <2>1 DEF NoEntries
  <2>4. PICK c \in Callers : Operation(c)
    BY <1>1, <2>2, <2>3 DEF Next, vars, PersistStep, Snapshot, OpenTmp, WriteTmp,
       RenameTmp, RenameLost, PersistFails, Crash, OpenStore
  <2>5. PICK d \in Devices : Pair(c, d) \/ Revoke(c, d) \/ RevokeAbsent(c, d)
                             \/ Confirm(c, d)
    BY <2>4 DEF Operation
  <2>6. CASE Pair(c, d)
    <3>1. nextToken # t
      BY <1>1 DEF TypeOK, Tokens
    <3>2. NewEntry(d, nextToken).TokenHash # HashToken(t)
      BY <3>1 DEF NewEntry, HashToken
    <3>3. entries'[x] = entries[x] \/ entries'[x] = NewEntry(d, nextToken)
      BY <2>6, <1>1 DEF Pair, PutEntry, TypeOK, Entries
    <3> QED
      BY <2>0, <2>1, <3>2, <3>3
  <2>7. CASE Revoke(c, d)
    BY <2>7, <1>1, <2>0, <2>1 DEF Revoke, DeleteEntry, TypeOK, Entries
  <2>8. CASE Confirm(c, d)
    <3>1. entries[d] \in Entry /\ entries[d] # None
      BY <2>8, <1>1 DEF Confirm, TypeOK, Entries
    <3>2. [entries[d] EXCEPT !.Confirmed = TRUE].TokenHash = entries[d].TokenHash
      BY <3>1 DEF Entry
    <3>3. \/ entries'[x] = entries[x]
          \/ x = d /\ entries'[x] = [entries[d] EXCEPT !.Confirmed = TRUE]
      BY <2>8, <1>1 DEF Confirm, ConfirmEntry, TypeOK, Entries
    <3> QED
      BY <2>0, <2>1, <3>1, <3>2, <3>3
  <2> QED
    BY <2>2, <2>5, <2>6, <2>7, <2>8 DEF RevokeAbsent
<1>2. TypeOK /\ [Next]_vars =>
        [up = "running" =>
           \A t \in Tokens : /\ t < nextToken
                             /\ ~Authenticates(entries, t)
                             => ~Authenticates(entries', t)]_vars
  BY <1>1
<1> QED
  BY <1>2, StoreTypeCorrect, PTL DEF Spec, NoResurrection

-----------------------------------------------------------------------------
(* One caller at a time.                                                     *)

\* Calls follow one another, as in a program with a single user of the store.
AtMostOneCaller == \A b, c \in Callers : b = c

-----------------------------------------------------------------------------
(* The inductive invariant, part by part.                                    *)

Disk == file["path"].list

\* The entry of a device carries its id; a list has one entry per device.
KeyedMap(es) == \A d \in Devices : es[d] # None => es[d].DeviceID = d
KeyedList(es) == \A e, f \in es : e.DeviceID = f.DeviceID => e = f

Keyed == /\ KeyedMap(entries) /\ IsFiniteSet(List(entries))
         /\ KeyedList(Disk) /\ IsFiniteSet(Disk)

\* <path> is never half written, so OpenStore always succeeds.
Reloadable == up # "refused" /\ file["path"].kind # "garbled"

\* The caller inside persist writes what is in memory, to <path>.tmp alone.
InOrder ==
  \A c \in Callers :
    /\ pc[c] # "idle" => up = "running"
    /\ pc[c] \in {"open", "write", "rename"} => list[c] = List(entries)
    /\ pc[c] = "write" => fd[c] = "tmp" /\ file["tmp"] = ListFile({})
    /\ pc[c] = "rename" => file["tmp"] = ListFile(list[c])

Serial == TypeOK /\ Keyed /\ Reloadable /\ InOrder

\* A list that has an entry for token t.
Holds(es, t) == \E e \in es : e.TokenHash = HashToken(t)

\* What was reported to callers holds on disk and, while the program runs, in
\* memory; the call in progress has made its change in memory.
Reported ==
  /\ \A t \in Tokens :
       /\ ledger[t].fate = "issued" =>
            Holds(Disk, t) /\ (up = "running" => Holds(List(entries), t))
       /\ ledger[t].fate = "revoked" =>
            ~Holds(Disk, t) /\ (up = "running" => ~Holds(List(entries), t))
  /\ \A c \in Callers :
       pc[c] # "idle" =>
         /\ call[c].token # None => Holds(List(entries), call[c].token)
         /\ call[c].token = None => \A t \in call[c].gone : ~Holds(List(entries), t)

SerialInv == StoreInv /\ Serial /\ Reported

-----------------------------------------------------------------------------
(* The map as the list that is written and loaded.                           *)

Except(es, d) == {e \in es : e.DeviceID # d}

LEMMA ListKeyed ==
  ASSUME NEW es \in Entries, KeyedMap(es)
  PROVE  KeyedList(List(es))
  BY DEF KeyedMap, KeyedList, List

\* Pair, Revoke and Confirm change the list in the entry of one device.
LEMMA PutList ==
  ASSUME NEW es \in Entries, KeyedMap(es), NEW d \in Devices, NEW t \in Tokens
  PROVE  /\ KeyedMap(PutEntry(es, d, t))
         /\ List(PutEntry(es, d, t)) = Except(List(es), d) \cup {NewEntry(d, t)}
<1>1. NewEntry(d, t).DeviceID = d /\ NewEntry(d, t) # None
  BY NewEntryType, PairingAssumption DEF NewEntry
<1>2. /\ PutEntry(es, d, t)[d] = NewEntry(d, t)
      /\ \A x \in Devices : x # d => PutEntry(es, d, t)[x] = es[x]
  BY DEF PutEntry, Entries
<1> QED
  BY <1>1, <1>2 DEF KeyedMap, List, Except

LEMMA DeleteList ==
  ASSUME NEW es \in Entries, KeyedMap(es), NEW d \in Devices
  PROVE  /\ KeyedMap(DeleteEntry(es, d))
         /\ List(DeleteEntry(es, d)) = Except(List(es), d)
<1>1. /\ DeleteEntry(es, d)[d] = None
      /\ \A x \in Devices : x # d => DeleteEntry(es, d)[x] = es[x]
  BY DEF DeleteEntry, Entries
<1> QED
  BY <1>1 DEF KeyedMap, List, Except

LEMMA ConfirmList ==
  ASSUME NEW es \in Entries, KeyedMap(es), NEW d \in Devices, es[d] # None
  PROVE  /\ KeyedMap(ConfirmEntry(es, d))
         /\ List(ConfirmEntry(es, d)) =
              Except(List(es), d) \cup {[es[d] EXCEPT !.Confirmed = TRUE]}
<1> DEFINE new == [es[d] EXCEPT !.Confirmed = TRUE]
<1>1. es[d] \in Entry /\ es[d].DeviceID = d
  BY DEF Entries, KeyedMap
<1>2. new \in Entry /\ new.DeviceID = d /\ new # None
  BY <1>1, PairingAssumption DEF Entry
<1>3. /\ ConfirmEntry(es, d)[d] = new
      /\ \A x \in Devices : x # d => ConfirmEntry(es, d)[x] = es[x]
  BY DEF ConfirmEntry, Entries
<1> HIDE DEF new
<1>4. KeyedMap(ConfirmEntry(es, d))
  BY <1>2, <1>3 DEF KeyedMap
<1>5. List(ConfirmEntry(es, d)) = Except(List(es), d) \cup {new}
  BY <1>2, <1>3 DEF KeyedMap, List, Except
<1> QED
  BY <1>4, <1>5 DEF new

\* OpenStore brings back exactly the list it finds.
LEMMA LoadList ==
  ASSUME NEW es \in SUBSET Entry, KeyedList(es)
  PROVE  KeyedMap(Load(es)) /\ List(Load(es)) = es
<1>1. ASSUME NEW e \in es PROVE e.DeviceID \in Devices /\ Load(es)[e.DeviceID] = e
  <2>1. e.DeviceID \in Devices
    BY DEF Entry
  <2>2. \A x \in es : x.DeviceID = e.DeviceID <=> x = e
    BY DEF KeyedList
  <2> QED
    BY <2>1, <2>2 DEF Load
<1>2. ASSUME NEW d \in Devices, Load(es)[d] # None
      PROVE  Load(es)[d] \in es /\ Load(es)[d].DeviceID = d
  BY <1>2 DEF Load
<1>3. None \notin es
  BY PairingAssumption
<1>4. KeyedMap(Load(es))
  BY <1>2 DEF KeyedMap
<1>5. List(Load(es)) \subseteq es
  BY <1>2 DEF List
<1>6. es \subseteq List(Load(es))
  BY <1>1, <1>3 DEF List
<1> QED
  BY <1>4, <1>5, <1>6

\* Replacing or dropping an entry keeps a list finite.
LEMMA ExceptFinite ==
  ASSUME NEW es, IsFiniteSet(es), NEW d, NEW e
  PROVE  IsFiniteSet(Except(es, d)) /\ IsFiniteSet(Except(es, d) \cup {e})
<1>1. Except(es, d) \in SUBSET es
  BY DEF Except
<1>2. IsFiniteSet(Except(es, d))
  BY <1>1, FS_Subset
<1> QED
  BY <1>2, FS_AddElement

\* A list written into a truncated file is there whole.
LEMMA OverlayEmpty ==
  ASSUME NEW es, IsFiniteSet(es)
  PROVE  Overlay(ListFile({}), es) = ListFile(es)
<1> DEFINE confirmed(s) == {e \in s : e.Confirmed}
<1>1. Cardinality({}) = 0 /\ confirmed({}) = {}
  BY FS_EmptySet
<1>2. Cardinality(confirmed(es)) <= Cardinality(es)
  <2>1. confirmed(es) \in SUBSET es
    OBVIOUS
  <2> HIDE DEF confirmed
  <2> QED
    BY <2>1, FS_Subset
<1>3. IsFiniteSet(confirmed(es))
  <2>1. confirmed(es) \in SUBSET es
    OBVIOUS
  <2> HIDE DEF confirmed
  <2> QED
    BY <2>1, FS_Subset
<1>4. Cardinality(es) \in Nat /\ Cardinality(confirmed(es)) \in Nat
  <2> HIDE DEF confirmed
  <2> QED
    BY <1>3, FS_CardinalityType
<1>5. Size({}) = 0 /\ Size(es) >= 0
  <2>1. Size({}) = 2 * Cardinality({}) - Cardinality(confirmed({}))
    BY DEF Size
  <2>2. Size(es) = 2 * Cardinality(es) - Cardinality(confirmed(es))
    BY DEF Size
  <2> HIDE DEF confirmed
  <2>3. Cardinality(confirmed({})) = 0
    BY <1>1
  <2> QED
    BY <1>1, <1>2, <1>4, <2>1, <2>2, <2>3
<1>6. Size({}) <= Size(es)
  <2>1. Size(es) = 2 * Cardinality(es) - Cardinality(confirmed(es))
    BY DEF Size
  <2> HIDE DEF confirmed
  <2> QED
    BY <1>4, <1>5, <2>1
<1> QED
  BY <1>6 DEF Overlay, ListFile

-----------------------------------------------------------------------------
(* The serial store keeps its disk whole and up to date.                     *)

LEMMA InitSerial == Init => Serial
<1> SUFFICES ASSUME Init PROVE Serial
  OBVIOUS
<1>1. TypeOK
  BY InitType
<1>2. List(entries) = {} /\ Disk = {}
  BY DEF Init, NoEntries, List, Disk, Files, NoFile
<1> QED
  BY <1>1, <1>2, FS_EmptySet DEF Init, Serial, Keyed, Reloadable, InOrder, KeyedMap, KeyedList,
     NoEntries, Files, NoFile

\* Operations change memory and enter persist; the files stay as they are.
LEMMA OperationSerial ==
  ASSUME AtMostOneCaller, Serial, NEW c \in Callers, Operation(c)
  PROVE  Keyed' /\ Reloadable' /\ InOrder'
<1> USE DEF Serial, Disk
<1> PICK d \in Devices : Pair(c, d) \/ Revoke(c, d) \/ RevokeAbsent(c, d) \/ Confirm(c, d)
  BY DEF Operation
<1>1. UNCHANGED <<list, fd, file, up>> /\ up = "running"
  BY DEF Pair, Revoke, RevokeAbsent, Confirm, Ready
<1>2. entries \in Entries /\ KeyedMap(entries) /\ IsFiniteSet(List(entries))
  BY DEF Keyed, TypeOK
<1>3. KeyedMap(entries') /\ IsFiniteSet(List(entries'))
  <2>1. CASE Pair(c, d)
    <3>1. nextToken \in Tokens /\ entries' = PutEntry(entries, d, nextToken)
      BY <2>1, PairingAssumption DEF Pair, TypeOK, Tokens
    <3>2. /\ KeyedMap(entries')
          /\ List(entries') = Except(List(entries), d) \cup {NewEntry(d, nextToken)}
      BY <1>2, <3>1, PutList
    <3>3. IsFiniteSet(Except(List(entries), d) \cup {NewEntry(d, nextToken)})
      BY <1>2, ExceptFinite
    <3> QED
      BY <3>2, <3>3
  <2>2. CASE Revoke(c, d)
    <3>1. KeyedMap(entries') /\ List(entries') = Except(List(entries), d)
      BY <2>2, <1>2, DeleteList DEF Revoke
    <3> QED
      BY <1>2, <3>1, ExceptFinite
  <2>3. CASE RevokeAbsent(c, d)
    BY <2>3, <1>2 DEF RevokeAbsent
  <2>4. CASE Confirm(c, d)
    <3> DEFINE new == [entries[d] EXCEPT !.Confirmed = TRUE]
    <3>1. /\ KeyedMap(entries')
          /\ List(entries') = Except(List(entries), d) \cup {new}
      BY <2>4, <1>2, ConfirmList DEF Confirm
    <3> HIDE DEF new
    <3>2. IsFiniteSet(Except(List(entries), d) \cup {new})
      BY <1>2, ExceptFinite
    <3> QED
      BY <3>1, <3>2
  <2> QED
    BY <2>1, <2>2, <2>3, <2>4
<1>4. Keyed' /\ Reloadable'
  BY <1>1, <1>3 DEF Keyed, Reloadable
<1>5. \A x \in Callers : x = c /\ pc'[x] \in {"idle", "snapshot"}
  BY DEF AtMostOneCaller, Pair, Revoke, RevokeAbsent, Confirm, Ready, Persist, TypeOK
<1> QED
  BY <1>1, <1>4, <1>5 DEF InOrder

\* persist works on <path>.tmp and then makes <path> equal to memory.
LEMMA PersistSerial ==
  ASSUME AtMostOneCaller, Serial, NEW c \in Callers, PersistStep(c)
  PROVE  /\ Keyed' /\ Reloadable' /\ InOrder'
         /\ UNCHANGED <<entries, up>>
         /\ up = "running"
         /\ ~RenameLost(c)
         /\ Disk' = IF RenameTmp(c) THEN List(entries) ELSE Disk
<1> USE DEF Serial, Disk
<1>0. UNCHANGED <<entries, up>> /\ pc[c] # "idle" /\ up = "running"
  BY DEF PersistStep, Snapshot, OpenTmp, WriteTmp, RenameTmp, RenameLost, PersistFails, InOrder
<1>1. KeyedMap(entries) /\ KeyedList(List(entries)) /\ IsFiniteSet(List(entries))
  BY ListKeyed DEF Keyed, TypeOK
<1>2. \A x \in Callers : x = c
  BY DEF AtMostOneCaller
<1>3. ASSUME file'["path"] = file["path"] PROVE Keyed' /\ Reloadable'
  BY <1>0, <1>3 DEF Keyed, Reloadable
<1>4. ASSUME NEW ok, Return(c, ok) PROVE pc'[c] = "idle"
  BY <1>4 DEF Return, TypeOK
<1>5. CASE Snapshot(c)
  <2>1. UNCHANGED file /\ pc'[c] = "open" /\ list'[c] = List(entries)
    BY <1>5 DEF Snapshot, TypeOK
  <2> QED
    BY <1>0, <1>2, <1>3, <1>5, <2>1 DEF Snapshot, RenameTmp, RenameLost, InOrder
<1>6. CASE OpenTmp(c)
  <2>1. /\ file'["path"] = file["path"] /\ file'["tmp"] = ListFile({})
        /\ fd'[c] = "tmp" /\ pc'[c] = "write" /\ list' = list
    BY <1>6 DEF OpenTmp, TypeOK, Files
  <2> QED
    BY <1>0, <1>2, <1>3, <1>6, <2>1 DEF OpenTmp, RenameTmp, RenameLost, InOrder
<1>7. CASE WriteTmp(c)
  <2>1. /\ fd[c] = "tmp" /\ file["tmp"] = ListFile({}) /\ list[c] = List(entries)
        /\ pc'[c] = "rename" /\ list' = list
    BY <1>7 DEF WriteTmp, InOrder, TypeOK
  <2>2. file'["path"] = file["path"] /\ file'["tmp"] = ListFile(list[c])
    BY <1>1, <1>7, <2>1, OverlayEmpty DEF WriteTmp, Files
  <2> QED
    BY <1>0, <1>2, <1>3, <1>7, <2>1, <2>2 DEF WriteTmp, RenameTmp, RenameLost, InOrder
<1>8. CASE RenameTmp(c)
  <2>1. file["tmp"] = ListFile(List(entries)) /\ pc'[c] = "idle"
    BY <1>4, <1>8 DEF RenameTmp, InOrder
  <2>2. file'["path"] = ListFile(List(entries))
    BY <1>8, <2>1 DEF RenameTmp, TypeOK, Files
  <2>3. /\ file'["path"].kind # "garbled" /\ file'["path"].list = List(entries)
        /\ List(entries)' = List(entries)
    BY <1>0, <2>2 DEF ListFile
  <2> QED
    BY <1>0, <1>1, <1>2, <1>8, <2>1, <2>3 DEF RenameTmp, RenameLost, Keyed, Reloadable, InOrder
<1>9. ASSUME RenameLost(c) PROVE FALSE
  <2>1. file["tmp"] = NoFile /\ file["tmp"] = ListFile(list[c])
    BY <1>9 DEF RenameLost, InOrder
  <2>2. file["tmp"].kind = "absent" /\ file["tmp"].kind = "list"
    BY <2>1 DEF ListFile, NoFile
  <2> QED
    BY <2>2
<1>10. CASE PersistFails(c) /\ ~RenameTmp(c)
  <2>1. pc'[c] = "idle"
    BY <1>4, <1>10 DEF PersistFails
  <2>2. file'["path"] = file["path"]
    BY <1>10 DEF PersistFails, InOrder, Files
  <2> QED
    BY <1>0, <1>2, <1>3, <1>9, <1>10, <2>1, <2>2 DEF InOrder
<1> QED
  BY <1>5, <1>6, <1>7, <1>8, <1>9, <1>10 DEF PersistStep

\* A start loads what is on disk, whatever a stop interrupted.
LEMMA RestartSerial ==
  ASSUME Serial, Crash \/ OpenStore
  PROVE  /\ Keyed' /\ Reloadable' /\ InOrder'
         /\ UNCHANGED Disk
         /\ Crash => up' = "down"
         /\ OpenStore => up = "down" /\ up' = "running" /\ List(entries)' = Disk
<1> USE DEF Serial, Disk
<1>1. CASE Crash
  <2>1. List(entries') = {} /\ KeyedMap(entries') /\ UNCHANGED file
    BY <1>1 DEF Crash, NoEntries, List, KeyedMap
  <2> QED
    BY <1>1, <2>1, FS_EmptySet DEF Crash, OpenStore, Keyed, Reloadable, InOrder
<1>2. CASE OpenStore
  <2>1. up = "down" /\ UNCHANGED <<pc, list, fd, file>>
    BY <1>2 DEF OpenStore, Reloadable
  <2>2. up' = "running" /\ entries' = Load(Disk)
    BY <1>2 DEF OpenStore, Reloadable, Garbled
  <2>3. Disk \in SUBSET Entry
    BY DEF TypeOK, Files, Content
  <2>4. KeyedMap(entries') /\ List(entries') = Disk
    BY <2>2, <2>3, LoadList DEF Keyed
  <2>5. \A c \in Callers : pc'[c] = "idle"
    BY <2>1 DEF InOrder, TypeOK
  <2> QED
    BY <1>2, <2>1, <2>2, <2>4, <2>5 DEF Crash, Keyed, Reloadable, InOrder
<1> QED
  BY <1>1, <1>2

LEMMA StepSerial == AtMostOneCaller /\ Serial /\ [Next]_vars => Serial'
<1> SUFFICES ASSUME AtMostOneCaller, Serial, [Next]_vars PROVE Serial'
  OBVIOUS
<1>1. TypeOK'
  BY StepType DEF Serial
<1>2. CASE UNCHANGED vars
  BY <1>1, <1>2 DEF vars, Serial, Keyed, Reloadable, InOrder, Disk, KeyedMap, KeyedList, List
<1> QED
  BY <1>1, <1>2, OperationSerial, PersistSerial, RestartSerial DEF Next, Serial

\* With calls one at a time the store can always be opened again, whatever
\* fails and wherever the program stops.
THEOREM StoreAlwaysReopens ==
  ASSUME AtMostOneCaller
  PROVE  Spec => []StoreReopens
<1>1. Serial => StoreReopens
  BY DEF Serial, Reloadable, StoreReopens
<1> QED
  BY <1>1, InitSerial, StepSerial, PTL DEF Spec

-----------------------------------------------------------------------------
(* The serial store implements DurableStore.                                 *)

Memory == IF up = "running" THEN List(entries) ELSE None

\* What an operation does to memory is Put, Remove, Approve, or nothing.
LEMMA OperationRefines ==
  ASSUME Serial, NEW c \in Callers, Operation(c)
  PROVE  Durable!Put \/ Durable!Remove \/ Durable!Approve \/ UNCHANGED <<Memory, Disk>>
<1> PICK d \in Devices : Pair(c, d) \/ Revoke(c, d) \/ RevokeAbsent(c, d) \/ Confirm(c, d)
  BY DEF Operation
<1>1. /\ UNCHANGED <<file, up>> /\ up = "running" /\ entries \in Entries /\ KeyedMap(entries)
      /\ List(entries) # None
  BY StoreAssumption, ListType
     DEF Pair, Revoke, RevokeAbsent, Confirm, Ready, Serial, Keyed, TypeOK
<1>2. CASE Pair(c, d)
  <2>1. nextToken \in Tokens /\ entries' = PutEntry(entries, d, nextToken)
    BY <1>2, PairingAssumption DEF Pair, Serial, TypeOK, Tokens
  <2>2. List(entries') = Except(List(entries), d) \cup {NewEntry(d, nextToken)}
    BY <1>1, <2>1, PutList
  <2>3. Durable!Put
    BY <1>1, <2>1, <2>2 DEF Durable!Put, Durable!Others, Except, Tokens, Durable!Tokens,
       NewEntry, Durable!NewEntry, HashToken, Durable!HashToken
  <2> QED
    BY <2>3
<1>3. CASE Revoke(c, d)
  <2>1. List(entries') = Except(List(entries), d)
    BY <1>1, <1>3, DeleteList DEF Revoke
  <2>2. Durable!Remove
    BY <1>1, <2>1 DEF Durable!Remove, Durable!Others, Except
  <2> QED
    BY <2>2
<1>4. CASE RevokeAbsent(c, d)
  BY <1>4 DEF RevokeAbsent, Memory, Disk
<1>5. CASE Confirm(c, d)
  <2>1. entries[d] # None /\ entries[d].DeviceID = d /\ entries[d] \in List(entries)
    BY <1>1, <1>5 DEF Confirm, KeyedMap, List
  <2>2. List(entries') =
          Except(List(entries), d) \cup {[entries[d] EXCEPT !.Confirmed = TRUE]}
    BY <1>1, <1>5, <2>1, ConfirmList DEF Confirm
  <2>3. Durable!Approve
    BY <1>1, <2>1, <2>2 DEF Durable!Approve, Durable!Others, Except
  <2> QED
    BY <2>3
<1> QED
  BY <1>2, <1>3, <1>4, <1>5

\* A rename commits; the steps that lead to it, or fail, change neither.
LEMMA PersistRefines ==
  ASSUME AtMostOneCaller, Serial, NEW c \in Callers, PersistStep(c)
  PROVE  Durable!Commit \/ UNCHANGED <<Memory, Disk>>
<1>1. /\ UNCHANGED <<entries, up>> /\ up = "running"
      /\ Disk' = IF RenameTmp(c) THEN List(entries) ELSE Disk
  BY PersistSerial
<1>2. List(entries) # None /\ List(entries)' = List(entries)
  BY <1>1, StoreAssumption, ListType DEF Serial, TypeOK
<1> QED
  BY <1>1, <1>2 DEF Durable!Commit, Memory, Disk

LEMMA RestartRefines ==
  ASSUME Serial, Crash \/ OpenStore
  PROVE  Durable!Stop \/ Durable!Start
<1>1. CASE Crash
  BY <1>1, RestartSerial DEF Durable!Stop, Disk
<1>2. CASE OpenStore
  BY <1>2, RestartSerial DEF Durable!Start, Disk
<1> QED
  BY <1>1, <1>2

\* With calls one at a time the store, its temporary file, failing writes and
\* restarts included, is a DurableStore: every step is one of the abstract
\* store's, or is not seen.
THEOREM StoreImplementsDurableStore ==
  ASSUME AtMostOneCaller
  PROVE  Spec => ImplementsDurableStore
<1>1. Init => Durable!Init
  <2> SUFFICES ASSUME Init PROVE Durable!Init
    OBVIOUS
  <2>1. List(entries) = {}
    BY DEF Init, NoEntries, List
  <2> QED
    BY <2>1 DEF Init, Durable!Init, Files, NoFile
<1>2. Serial /\ [Next]_vars => [Durable!Next]_(Durable!abstractVars)
  <2> SUFFICES ASSUME Serial, [Next]_vars
               PROVE  Durable!Next \/ UNCHANGED Durable!abstractVars
    OBVIOUS
  <2>1. ASSUME UNCHANGED <<Memory, Disk>> PROVE UNCHANGED Durable!abstractVars
    BY <2>1 DEF Durable!abstractVars, Memory, Disk
  <2>2. CASE UNCHANGED vars
    BY <2>1, <2>2 DEF vars, Memory, Disk, List
  <2> QED
    BY <2>1, <2>2, OperationRefines, PersistRefines, RestartRefines DEF Next, Durable!Next
<1> QED
  BY <1>1, <1>2, InitSerial, StepSerial, PTL DEF Spec, ImplementsDurableStore, Durable!Spec

-----------------------------------------------------------------------------
(* What is reported to the callers of the serial store is true.              *)

\* A token in memory is held by the device it was drawn for, and only there.
LEMMA Holder ==
  ASSUME StoreInv, Keyed, NEW t \in Tokens
  PROVE  Holds(List(entries), t) =>
           \E x \in Devices : /\ entries[x] # None
                              /\ entries[x] \in List(entries)
                              /\ entries[x].DeviceID = x
                              /\ entries[x].TokenHash = HashToken(t)
                              /\ ledger[t].dev = x
<1> SUFFICES ASSUME Holds(List(entries), t)
             PROVE  \E x \in Devices : /\ entries[x] # None
                                       /\ entries[x] \in List(entries)
                                       /\ entries[x].DeviceID = x
                                       /\ entries[x].TokenHash = HashToken(t)
                                       /\ ledger[t].dev = x
  OBVIOUS
<1>1. PICK x \in Devices : /\ entries[x] # None
                           /\ entries[x] \in List(entries)
                           /\ entries[x].TokenHash = HashToken(t)
  BY DEF Holds, List
<1>2. OwnedEntry(entries[x]) /\ entries[x].DeviceID = x
  BY <1>1 DEF StoreInv, KnownEntries, Keyed, KeyedMap
<1>3. ledger[t].dev = x
  BY <1>1, <1>2 DEF OwnedEntry, HashToken
<1> QED
  BY <1>1, <1>2, <1>3

\* The fates that persist's return can give out.
LEMMA ReturnFate ==
  ASSUME TypeOK, NEW c \in Callers, NEW ok \in BOOLEAN, Return(c, ok), NEW t \in Tokens
  PROVE  /\ ledger'[t].fate = "issued" =>
              ledger[t].fate = "issued" \/ (ok /\ t = call[c].token)
         /\ ledger'[t].fate = "revoked" =>
              \/ ledger[t].fate = "revoked"
              \/ ok /\ t \in call[c].gone /\ call[c].token = None
<1> DEFINE f == CASE ok /\ t \in call[c].gone ->
                       IF call[c].token = None THEN "revoked" ELSE "replaced"
                  [] ok /\ t = call[c].token /\ ledger[t].fate = "pending" -> "issued"
                  [] OTHER -> ledger[t].fate
<1>1. ledger'[t] = [ledger[t] EXCEPT !.fate = f]
  BY DEF Return
<1>2. ledger'[t].fate = f
  <2> HIDE DEF f
  <2> QED
    BY <1>1 DEF TypeOK
<1> QED
  BY <1>2

\* The fates an operation on device d gives out.
LEMMA WithFateFate ==
  ASSUME TypeOK, NEW d \in Devices, NEW fate \in {"ending", "denied"}, NEW t \in Tokens
  PROVE  LET new == WithFate(Displaced(d), fate)[t].fate
         IN  /\ new = "issued" => ledger[t].fate = "issued" /\ ledger[t].dev # d
             /\ new = "revoked" => ledger[t].fate = "revoked"
  BY DEF WithFate, Displaced, TypeOK

LEMMA OperationReported ==
  ASSUME AtMostOneCaller, SerialInv, NEW c \in Callers, Operation(c)
  PROVE  Reported'
<1> USE DEF SerialInv, Serial
<1> PICK d \in Devices : Pair(c, d) \/ Revoke(c, d) \/ RevokeAbsent(c, d) \/ Confirm(c, d)
  BY DEF Operation
<1>1. /\ UNCHANGED <<file, up>> /\ up = "running" /\ pc[c] = "idle"
      /\ entries \in Entries /\ KeyedMap(entries)
      /\ \A x \in Callers : x = c
  BY DEF Pair, Revoke, RevokeAbsent, Confirm, Ready, Keyed, TypeOK, AtMostOneCaller
<1>2. ASSUME NEW t \in Tokens, Holds(List(entries), t), ledger[t].dev # d
      PROVE  Holds(Except(List(entries), d), t)
  BY <1>2, Holder DEF Holds, Except
<1>3. ASSUME NEW t \in Tokens, ledger[t].dev = d
      PROVE  ~Holds(Except(List(entries), d), t)
  <2> SUFFICES ASSUME NEW e \in List(entries), e.DeviceID # d, e.TokenHash = HashToken(t)
               PROVE  FALSE
    BY DEF Holds, Except
  <2>1. OwnedEntry(e) /\ e.TokenHash.sha256 = t
    BY DEF StoreInv, KnownEntries, HashToken
  <2> QED
    BY <1>3, <2>1 DEF OwnedEntry
<1>4. ASSUME NEW t \in Tokens, ~Holds(List(entries), t)
      PROVE  ~Holds(Except(List(entries), d), t)
  BY <1>4 DEF Holds, Except
<1>5. CASE Pair(c, d)
  <2>1. /\ nextToken \in Tokens /\ entries' = PutEntry(entries, d, nextToken)
        /\ call'[c].token = nextToken
    BY <1>5, PairingAssumption DEF Pair, Persist, TypeOK, Tokens
  <2>2. List(entries') = Except(List(entries), d) \cup {NewEntry(d, nextToken)}
    BY <1>1, <2>1, PutList
  <2>3. NewEntry(d, nextToken).TokenHash = HashToken(nextToken)
    BY DEF NewEntry
  <2>4. ASSUME NEW t \in Tokens, t # nextToken
        PROVE  /\ Holds(List(entries'), t) <=> Holds(Except(List(entries), d), t)
               /\ ledger'[t] = WithFate(Displaced(d), "ending")[t]
    <3>1. HashToken(t) # HashToken(nextToken)
      BY <2>4 DEF HashToken
    <3>2. Holds(List(entries'), t) <=> Holds(Except(List(entries), d), t)
      BY <2>2, <2>3, <3>1 DEF Holds
    <3>3. WithFate(Displaced(d), "ending") \in [Tokens -> [dev: Devices \cup {None}, fate: Fates]]
      BY WithFateType DEF Fates
    <3> QED
      BY <1>5, <2>4, <3>2, <3>3 DEF Pair
  <2>5. ledger'[nextToken].fate = "pending"
    <3>1. WithFate(Displaced(d), "ending") \in [Tokens -> [dev: Devices \cup {None}, fate: Fates]]
      BY WithFateType DEF Fates
    <3> QED
      BY <1>5, <2>1, <3>1 DEF Pair
  <2>6. Holds(List(entries'), nextToken)
    BY <2>2, <2>3 DEF Holds
  <2>7. ASSUME NEW t \in Tokens, ledger'[t].fate = "issued"
        PROVE  Holds(Disk', t) /\ Holds(List(entries'), t)
    <3>1. t # nextToken
      BY <2>5, <2>7
    <3>2. ledger[t].fate = "issued" /\ ledger[t].dev # d
      BY <2>4, <2>7, <3>1, WithFateFate
    <3> QED
      BY <1>1, <1>2, <2>4, <3>1, <3>2 DEF Reported, Disk
  <2>8. ASSUME NEW t \in Tokens, ledger'[t].fate = "revoked"
        PROVE  ~Holds(Disk', t) /\ ~Holds(List(entries'), t)
    <3>1. t # nextToken
      BY <2>5, <2>8
    <3>2. ledger[t].fate = "revoked"
      BY <2>4, <2>8, <3>1, WithFateFate
    <3> QED
      BY <1>1, <1>4, <2>4, <3>1, <3>2 DEF Reported, Disk
  <2> QED
    BY <1>1, <2>1, <2>6, <2>7, <2>8, StoreAssumption DEF Reported
<1>6. CASE Revoke(c, d)
  <2>1. /\ ledger' = WithFate(Displaced(d), "ending")
        /\ call'[c].gone = Displaced(d) /\ call'[c].token = None
    BY <1>6 DEF Revoke, Persist, TypeOK
  <2>2. List(entries') = Except(List(entries), d)
    BY <1>1, <1>6, DeleteList DEF Revoke
  <2>3. ASSUME NEW t \in Tokens, ledger'[t].fate = "issued"
        PROVE  Holds(Disk', t) /\ Holds(List(entries'), t)
    <3>1. ledger[t].fate = "issued" /\ ledger[t].dev # d
      BY <2>1, <2>3, WithFateFate
    <3> QED
      BY <1>1, <1>2, <2>2, <3>1 DEF Reported, Disk
  <2>4. ASSUME NEW t \in Tokens, ledger'[t].fate = "revoked"
        PROVE  ~Holds(Disk', t) /\ ~Holds(List(entries'), t)
    <3>1. ledger[t].fate = "revoked"
      BY <2>1, <2>4, WithFateFate
    <3> QED
      BY <1>1, <1>4, <2>2, <3>1 DEF Reported, Disk
  <2>5. \A t \in Displaced(d) : ~Holds(List(entries'), t)
    BY <1>3, <2>2 DEF Displaced
  <2> QED
    BY <1>1, <2>1, <2>3, <2>4, <2>5 DEF Reported
<1>7. CASE RevokeAbsent(c, d)
  <2>1. /\ ledger' = WithFate(Displaced(d), "denied")
        /\ UNCHANGED <<entries, pc>> /\ List(entries') = List(entries)
    BY <1>7 DEF RevokeAbsent
  <2>2. \A t \in Tokens : /\ ledger'[t].fate = "issued" => ledger[t].fate = "issued"
                          /\ ledger'[t].fate = "revoked" => ledger[t].fate = "revoked"
    BY <2>1, WithFateFate
  <2> QED
    BY <1>1, <2>1, <2>2 DEF Reported, Disk
<1>8. CASE Confirm(c, d)
  <2> DEFINE new == [entries[d] EXCEPT !.Confirmed = TRUE]
  <2>1. /\ UNCHANGED ledger /\ call'[c].token = None /\ call'[c].gone = {}
        /\ entries[d] # None /\ entries[d] \in Entry
    BY <1>8 DEF Confirm, Persist, TypeOK, Entries
  <2>2. List(entries') = Except(List(entries), d) \cup {new}
    BY <1>1, <1>8, ConfirmList DEF Confirm
  <2>3. /\ new.TokenHash = entries[d].TokenHash
        /\ entries[d] \in List(entries) /\ entries[d].DeviceID = d
    BY <1>1, <2>1 DEF Entry, List, KeyedMap
  <2>4. \A e \in List(entries) : e.DeviceID = d => e = entries[d]
    BY <1>1 DEF List, KeyedMap
  <2> HIDE DEF new
  <2>5. ASSUME NEW t PROVE Holds(List(entries'), t) <=> Holds(List(entries), t)
    BY <2>2, <2>3, <2>4 DEF Holds, Except
  <2> QED
    BY <1>1, <2>1, <2>5 DEF Reported, Disk
<1> QED
  BY <1>5, <1>6, <1>7, <1>8

LEMMA PersistReported ==
  ASSUME AtMostOneCaller, SerialInv, NEW c \in Callers, PersistStep(c)
  PROVE  Reported'
<1> USE DEF SerialInv, Serial
<1>1. /\ UNCHANGED <<entries, up>> /\ up = "running" /\ ~RenameLost(c)
      /\ Disk' = IF RenameTmp(c) THEN List(entries) ELSE Disk
      /\ List(entries)' = List(entries)
  BY PersistSerial
<1>2. \A x \in Callers : x = c
  BY DEF AtMostOneCaller
<1>3. CASE Snapshot(c) \/ OpenTmp(c) \/ WriteTmp(c)
  <2>1. UNCHANGED <<ledger, call>> /\ pc[c] # "idle" /\ ~RenameTmp(c)
    BY <1>3 DEF Snapshot, OpenTmp, WriteTmp, RenameTmp
  <2>2. Disk' = Disk
    BY <1>1, <2>1
  <2> QED
    BY <1>1, <1>2, <2>1, <2>2 DEF Reported
<1>4. CASE RenameTmp(c)
  <2>1. Return(c, TRUE) /\ pc[c] # "idle" /\ pc'[c] = "idle" /\ Disk' = List(entries)
    BY <1>1, <1>4 DEF RenameTmp, Return, TypeOK
  <2>2. ASSUME NEW t \in Tokens, ledger'[t].fate = "issued" PROVE Holds(List(entries), t)
    <3>1. ledger[t].fate = "issued" \/ t = call[c].token
      BY <2>1, <2>2, ReturnFate
    <3>2. t # None
      BY StoreAssumption
    <3> QED
      BY <1>1, <2>1, <3>1, <3>2 DEF Reported
  <2>3. ASSUME NEW t \in Tokens, ledger'[t].fate = "revoked" PROVE ~Holds(List(entries), t)
    BY <1>1, <2>1, <2>3, ReturnFate DEF Reported
  <2> QED
    BY <1>1, <1>2, <2>1, <2>2, <2>3 DEF Reported
<1>5. CASE PersistFails(c) /\ ~RenameTmp(c)
  <2>1. Return(c, FALSE) /\ pc'[c] = "idle" /\ Disk' = Disk
    BY <1>1, <1>5 DEF PersistFails, Return, TypeOK
  <2>2. \A t \in Tokens : /\ ledger'[t].fate = "issued" => ledger[t].fate = "issued"
                          /\ ledger'[t].fate = "revoked" => ledger[t].fate = "revoked"
    BY <2>1, ReturnFate
  <2> QED
    BY <1>1, <1>2, <2>1, <2>2 DEF Reported
<1> QED
  BY <1>1, <1>3, <1>4, <1>5 DEF PersistStep

LEMMA RestartReported ==
  ASSUME SerialInv, Crash \/ OpenStore
  PROVE  Reported'
<1> USE DEF SerialInv, Serial
<1>1. /\ Disk' = Disk /\ UNCHANGED ledger
      /\ up' = "running" => List(entries)' = Disk
  BY RestartSerial DEF Crash, OpenStore
<1>2. \A c \in Callers : pc'[c] = "idle"
  BY RestartSerial DEF Crash, OpenStore, InOrder
<1> QED
  BY <1>1, <1>2 DEF Reported

LEMMA StepSerialInv == AtMostOneCaller /\ SerialInv /\ [Next]_vars => SerialInv'
<1> SUFFICES ASSUME AtMostOneCaller, SerialInv, [Next]_vars PROVE SerialInv'
  OBVIOUS
<1>1. StoreInv' /\ Serial'
  BY StepType, StoreInvStep, StepSerial DEF SerialInv, StoreInv
<1>2. CASE UNCHANGED vars
  BY <1>1, <1>2 DEF vars, SerialInv, Reported, Disk, List
<1> QED
  BY <1>1, <1>2, OperationReported, PersistReported, RestartReported DEF Next, SerialInv

LEMMA InitSerialInv == Init => SerialInv
<1> SUFFICES ASSUME Init PROVE SerialInv
  OBVIOUS
<1>1. Reported
  BY DEF Init, Reported
<1> QED
  BY <1>1, StoreInvInit, InitSerial DEF SerialInv

\* A token Pair returned is accepted until a call displaces it: after any
\* number of restarts, stops inside persist and failing writes included.
THEOREM StorePairingIsDurable ==
  ASSUME AtMostOneCaller
  PROVE  Spec => []PairingIsDurable
<1>1. SerialInv => PairingIsDurable
  BY DEF SerialInv, Reported, PairingIsDurable, Authenticates, Authenticate, Holds
<1> QED
  BY <1>1, InitSerialInv, StepSerialInv, PTL DEF Spec

\* A token that a Revoke reported gone is rejected from then on, after
\* restarts too (section 7.3).
THEOREM StoreRevocationIsDurable ==
  ASSUME AtMostOneCaller
  PROVE  Spec => []RevocationIsDurable
<1>1. SerialInv => RevocationIsDurable
  BY DEF SerialInv, Reported, RevocationIsDurable, Authenticates, Authenticate, Holds
<1> QED
  BY <1>1, InitSerialInv, StepSerialInv, PTL DEF Spec
=============================================================================
