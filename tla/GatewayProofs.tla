---------------------------- MODULE GatewayProofs ----------------------------
(* Proofs about Gateway for any sets of handlers, devices and PINs, any      *)
(* number of tokens and displays, and every configuration.                   *)
EXTENDS Gateway, FiniteSetTheorems, TLAPS

-----------------------------------------------------------------------------
(* The inductive invariant, part by part.                                    *)

\* The token an entry holds was drawn before, and for the entry's own device.
OwnEntry(d) ==
  LET n == entries[d].TokenHash.sha256
  IN  entries[d].DeviceID = d /\ n < nextToken /\ issuedTo[n] = d

EntriesAreOwned == \A d \in Devices : entries[d] # None => OwnEntry(d)

\* The token of a request was drawn for the device the handler took it for.
RequestsAreOwned ==
  \A h \in Handlers :
    req[h].token # None => /\ req[h].token < nextToken
                           /\ issuedTo[req[h].token] = req[h].dev

\* Requests past authentication carry a token; those that pair have none yet.
TokensAreCarried ==
  \A h \in Handlers : /\ pc[h] \in {"confirm", "revoke", "seal", "reply"}
                           => req[h].token \in Tokens
                      /\ pc[h] # "idle" => req[h].dev \in Devices

HistoryIsDrawn == \A t \in delivered \cup viaPin : t < nextToken

\* Where the user was asked, the answer is on record before anything follows.
ConsentIsRecorded ==
  config.HasConfirmer =>
    /\ \A h \in Handlers :
         /\ pc[h] \in {"confirm", "pair", "seal"} => req[h].dev \in approved
         /\ pc[h] = "pair" => req[h].asked
    /\ \A d \in Devices : entries[d] # None /\ entries[d].Confirmed => d \in approved

\* A token drawn by PIN is in its controller's hands only after Seal.
SealedBeforeReply ==
  \A h \in Handlers :
    pc[h] = "reply" => \A d \in Devices : req[h].token \in TokenOf(d) => entries[d].Confirmed

\* Handlers whose PIN was accepted and that have not drawn a token yet.
Admitted == {h \in Handlers : \/ pc[h] = "pair"
                              \/ pc[h] = "prompt" /\ req[h].token = None}

\* Each displayed PIN is on the screen, admitted one handler, or became a token.
PinBudget ==
  /\ IsFiniteSet(viaPin)
  /\ IsFiniteSet(Admitted)
  /\ Cardinality(viaPin) + Cardinality(Admitted) + (IF pin = None THEN 0 ELSE 1)
       <= displayed

-----------------------------------------------------------------------------
(* Operators of Pairing and of the PIN manager.                              *)

LEMMA ListedEntries ==
  ASSUME NEW es \in Entries, NEW e \in List(es)
  PROVE  e \in Entry /\ \E d \in Devices : es[d] # None /\ e = es[d]
  BY DEF List, Entries

\* What Pair, Revoke and Confirm make of the map is a map again.
LEMMA MapType ==
  ASSUME NEW es \in Entries, NEW d \in Devices
  PROVE  /\ \A t \in Tokens : PutEntry(es, d, t) \in Entries
         /\ DeleteEntry(es, d) \in Entries
         /\ es[d] # None => ConfirmEntry(es, d) \in Entries
<1>1. ASSUME NEW t \in Tokens PROVE PutEntry(es, d, t) \in Entries
  <2>1. NewEntry(d, t) \in Entry
    BY DEF NewEntry, Entry, HashToken, TokenHashes
  <2> QED
    BY <2>1 DEF PutEntry, Entries
<1>2. DeleteEntry(es, d) \in Entries
  BY DEF DeleteEntry, Entries
<1>3. ASSUME es[d] # None PROVE ConfirmEntry(es, d) \in Entries
  <2>1. es[d] \in Entry
    BY <1>3 DEF Entries
  <2>2. [es[d] EXCEPT !.Confirmed = TRUE] \in Entry
    BY <2>1 DEF Entry
  <2> QED
    BY <2>2 DEF ConfirmEntry, Entries
<1> QED
  BY <1>1, <1>2, <1>3

LEMMA VerifyType ==
  ASSUME NEW p \in Pins, NEW r, PM!TypeOK, PM!Verify(p, r), UNCHANGED now
  PROVE  PM!TypeOK'
<1> USE GatewayAssumption
<1>1. CASE PM!Inactive /\ pin' = None /\ UNCHANGED <<expires, attempts, issue>>
  BY <1>1 DEF PM!TypeOK
<1>2. CASE issue' = [issue EXCEPT !.limited = TRUE] /\ UNCHANGED PM!pinVars
  BY <1>2 DEF PM!TypeOK, PM!Issue, PM!pinVars
<1>3. CASE PM!Compare(p, r) /\ UNCHANGED expires
  <2>1. attempts' \in 0..maxAttempts /\ pin' \in Pins \cup {None}
    BY <1>3 DEF PM!Compare, PM!TypeOK
  <2>2. /\ issue \in PM!Issue
        /\ issue.compared + 1 \in Nat
        /\ issue.uses + 1 \in Nat
        /\ now \in Nat
    BY DEF PM!TypeOK, PM!Issue
  <2>3. issue' \in PM!Issue
    BY <1>3, <2>2 DEF PM!Compare, PM!Issue
  <2> QED
    BY <1>3, <2>1, <2>3 DEF PM!TypeOK
<1> QED
  BY <1>1, <1>2, <1>3 DEF PM!Verify

-----------------------------------------------------------------------------
(* Type correctness.                                                         *)

LEMMA InitType == Init => TypeOK /\ TokensAreCarried
  BY GatewayAssumption, PairingAssumption
     DEF Init, TypeOK, NoEntries, Entries, Phases, NoRequest, PM!Init, PM!TypeOK,
         PM!Issue, PM!NewIssue, TokensAreCarried

\* A token drawn for a device.
LEMMA IssueType ==
  ASSUME TypeOK, NEW d \in Devices, Issue(d)
  PROVE  /\ nextToken \in Tokens
         /\ nextToken' \in 0..MaxTokens
         /\ entries' \in Entries
         /\ issuedTo' \in [Tokens -> Devices \cup {None}]
<1>1. nextToken \in Tokens /\ nextToken' \in 0..MaxTokens
  BY PairingAssumption DEF Issue, TypeOK, Tokens
<1> QED
  BY <1>1, MapType DEF Issue, TypeOK

LEMMA HostType ==
  ASSUME TypeOK, TokensAreCarried, Host, UNCHANGED config
  PROVE  TypeOK' /\ TokensAreCarried'
<1>1. ASSUME NEW d \in Devices, HostPair(d) PROVE TypeOK'
  BY <1>1, IssueType DEF HostPair, TypeOK, pinVars, PM!TypeOK
<1>2. ASSUME NEW d \in Devices, HostRevoke(d) PROVE TypeOK'
  BY <1>2, MapType DEF HostRevoke, TypeOK, pinVars, historyVars, PM!TypeOK
<1>3. ASSUME GeneratePIN PROVE TypeOK'
  <2>1. PM!TypeOK'
    BY <1>3, GatewayAssumption DEF GeneratePIN, PM!Generate, TypeOK, PM!TypeOK, PM!Issue, PM!NewIssue
  <2>2. displayed' \in 0..MaxPins
    BY <1>3, GatewayAssumption DEF GeneratePIN, TypeOK
  <2> QED
    BY <1>3, <2>1, <2>2 DEF GeneratePIN, TypeOK
<1>4. ASSUME Tick PROVE TypeOK'
  <2>1. PM!TypeOK'
    BY <1>4, GatewayAssumption DEF Tick, PM!Tick, PM!pinVars, TypeOK, PM!TypeOK
  <2> QED
    BY <1>4, <2>1 DEF Tick, TypeOK, historyVars
<1>5. UNCHANGED <<pc, req>>
  BY DEF Host, HostPair, HostRevoke, GeneratePIN, Tick
<1> QED
  BY <1>1, <1>2, <1>3, <1>4, <1>5 DEF Host, TokensAreCarried

\* What authWith makes of a request that authenticates.
LEMMA AuthStep ==
  ASSUME TypeOK, NEW h \in Handlers, NEW t \in Tokens, NEW confirming \in BOOLEAN,
         authWith(h, t, confirming)
  PROVE  \E x \in Devices, phase \in {"prompt", "confirm", "hook", "revoke"} :
           /\ entries[x] # None
           /\ entries[x].TokenHash = HashToken(t)
           /\ entries[x].DeviceID \in Devices
           /\ req' = [req EXCEPT ![h] = [token |-> t, dev |-> entries[x].DeviceID,
                                        asked |-> FALSE]]
           /\ pc' = [pc EXCEPT ![h] = phase]
           /\ phase = "hook" /\ config.RequireConfirmFirstConnect => entries[x].Confirmed
           /\ phase = "confirm" => ~config.HasConfirmer
<1>1. PICK e \in Authenticate(entries, t) :
        /\ req' = [req EXCEPT ![h] = [token |-> t, dev |-> e.DeviceID, asked |-> FALSE]]
        /\ Goto(h, IF ~confirming THEN "revoke"
                   ELSE IF config.RequireConfirmFirstConnect /\ ~e.Confirmed
                        THEN AskUser("confirm")
                        ELSE "hook")
  BY DEF authWith
<1>2. e \in List(entries) /\ e.TokenHash = HashToken(t)
  BY DEF Authenticate
<1>3. PICK x \in Devices : entries[x] # None /\ e = entries[x]
  BY <1>2, ListedEntries DEF TypeOK
<1>4. e.DeviceID \in Devices
  BY <1>2, ListedEntries DEF TypeOK, Entry
<1>5. PICK phase \in {"prompt", "confirm", "hook", "revoke"} :
        /\ pc' = [pc EXCEPT ![h] = phase]
        /\ phase = "hook" /\ config.RequireConfirmFirstConnect => e.Confirmed
        /\ phase = "confirm" => ~config.HasConfirmer
  BY <1>1 DEF Goto, AskUser
<1> QED
  BY <1>1, <1>2, <1>3, <1>4, <1>5

\* What handlePair makes of a request: nothing, or a handler that waits for
\* the user, or that may pair when there is nobody to ask.
LEMMA PairRequestStep ==
  ASSUME NEW h \in Handlers, NEW d \in Devices, NEW p \in Pins, PairRequest(h, d, p)
  PROVE  \/ UNCHANGED <<pc, req>>
         \/ /\ PM!Verify(p, "PINOK")
            /\ req' = [req EXCEPT ![h] = [token |-> None, dev |-> d, asked |-> FALSE]]
            /\ \E phase \in {"prompt", "pair"} :
                 /\ pc' = [pc EXCEPT ![h] = phase]
                 /\ phase = "pair" => ~config.HasConfirmer
  BY Zenon DEF PairRequest, Goto, AskUser

LEMMA RequestType ==
  ASSUME TypeOK, TokensAreCarried, NEW h \in Handlers, Request(h), UNCHANGED config
  PROVE  TypeOK' /\ TokensAreCarried'
<1>1. ASSUME NEW t \in Tokens, NEW confirming \in BOOLEAN, authWith(h, t, confirming)
      PROVE  TypeOK' /\ TokensAreCarried'
  <2> PICK x \in Devices, phase \in {"prompt", "confirm", "hook", "revoke"} :
        /\ entries[x].DeviceID \in Devices
        /\ req' = [req EXCEPT ![h] = [token |-> t, dev |-> entries[x].DeviceID,
                                     asked |-> FALSE]]
        /\ pc' = [pc EXCEPT ![h] = phase]
    BY <1>1, AuthStep
  <2>1. TypeOK'
    BY <1>1 DEF authWith, TypeOK, Phases, pinVars, historyVars, PM!TypeOK
  <2>2. TokensAreCarried'
    BY DEF TypeOK, TokensAreCarried
  <2> QED
    BY <2>1, <2>2
<1>2. ASSUME NEW d \in Devices, NEW p \in Pins, PairRequest(h, d, p)
      PROVE  TypeOK' /\ TokensAreCarried'
  <2>1. PM!TypeOK'
    BY <1>2, VerifyType DEF PairRequest, TypeOK
  <2>2. CASE UNCHANGED <<pc, req>>
    BY <1>2, <2>1, <2>2 DEF PairRequest, TypeOK, historyVars, TokensAreCarried
  <2>3. CASE /\ req' = [req EXCEPT ![h] = [token |-> None, dev |-> d, asked |-> FALSE]]
             /\ \E phase \in {"prompt", "pair"} : pc' = [pc EXCEPT ![h] = phase]
    <3>1. /\ pc' \in [Handlers -> Phases]
          /\ req' \in [Handlers -> [token: Tokens \cup {None}, dev: Devices \cup {None},
                                    asked: BOOLEAN]]
      BY <2>3 DEF TypeOK, Phases
    <3>2. TokensAreCarried'
      BY <2>3 DEF TypeOK, TokensAreCarried
    <3> QED
      BY <1>2, <2>1, <3>1, <3>2 DEF PairRequest, TypeOK, historyVars
  <2> QED
    BY <1>2, <2>2, <2>3, PairRequestStep
<1> QED
  BY <1>1, <1>2 DEF Request

LEMMA ServeType ==
  ASSUME TypeOK, TokensAreCarried, NEW h \in Handlers, Serve(h), UNCHANGED config
  PROVE  TypeOK' /\ TokensAreCarried'
<1> USE DEF Goto, Finish, NoRequest, Phases, pinVars, historyVars, TokensAreCarried
<1>1. CASE Refuse(h) \/ CallHook(h) \/ PairFails(h)
  <2>1. Finish(h) /\ UNCHANGED <<entries, nextToken, pinVars, historyVars>>
    BY <1>1 DEF Refuse, CallHook, PairFails
  <2> QED
    BY <2>1 DEF TypeOK, PM!TypeOK
<1>2. CASE Accept(h)
  BY ZenonT(40), <1>2 DEF Accept, TypeOK, PM!TypeOK
<1>3. CASE confirm(h) \/ Seal(h)
  BY <1>3, MapType DEF confirm, Seal, StoreConfirm, TypeOK, PM!TypeOK
<1>4. CASE handleUnpair(h)
  BY <1>4, MapType DEF handleUnpair, TypeOK, PM!TypeOK
<1>5. CASE PairDevice(h)
  <2>1. \/ pc' = [pc EXCEPT ![h] = "seal"] /\ req' = [req EXCEPT ![h].token = nextToken]
        \/ pc' = [pc EXCEPT ![h] = "idle"] /\ req' = [req EXCEPT ![h] = NoRequest]
    BY <1>5 DEF PairDevice
  <2>2. /\ nextToken \in Tokens
        /\ nextToken' \in 0..MaxTokens
        /\ entries' \in Entries
        /\ issuedTo' \in [Tokens -> Devices \cup {None}]
    BY <1>5, IssueType DEF PairDevice, TypeOK
  <2>3. /\ pc' \in [Handlers -> Phases]
        /\ req' \in [Handlers -> [token: Tokens \cup {None}, dev: Devices \cup {None},
                                  asked: BOOLEAN]]
    <3> DEFINE R == [token: Tokens \cup {None}, dev: Devices \cup {None}, asked: BOOLEAN]
    <3>1. req \in [Handlers -> R]
      BY DEF TypeOK
    <3>2. NoRequest \in R /\ [req[h] EXCEPT !.token = nextToken] \in R
      BY <2>2, <3>1
    <3>3. req' \in [Handlers -> R]
      <4> HIDE DEF R, NoRequest
      <4> QED
        BY <2>1, <3>1, <3>2
    <3> QED
      BY <2>1, <3>3 DEF TypeOK
  <2>4. TokensAreCarried'
    BY <2>1, <2>2, <1>5 DEF PairDevice, TypeOK
  <2> QED
    BY <1>5, <2>2, <2>3, <2>4 DEF PairDevice, TypeOK, PM!TypeOK
<1>6. CASE Reply(h)
  BY <1>6 DEF Reply, TypeOK, PM!TypeOK
<1> QED
  BY <1>1, <1>2, <1>3, <1>4, <1>5, <1>6 DEF Serve

LEMMA StepType == TypeOK /\ TokensAreCarried /\ [Next]_vars => TypeOK' /\ TokensAreCarried'
<1>1. CASE UNCHANGED vars
  BY <1>1 DEF vars, pinVars, TypeOK, PM!TypeOK, TokensAreCarried
<1> QED
  BY <1>1, HostType, RequestType, ServeType DEF Next

\* Type correctness of the gateway, PIN manager included.
THEOREM GatewayTypeCorrect == Spec => [](TypeOK /\ TokensAreCarried)
  BY InitType, StepType, PTL DEF Spec

-----------------------------------------------------------------------------
(* What a step can do to one handler and to one entry.                       *)

Stays(h) == pc'[h] = pc[h] /\ req'[h] = req[h]

Ends(h) == pc'[h] = "idle" /\ req'[h] = NoRequest

\* authWith lets a request through.
Enters(h) ==
  \E t \in delivered, x \in Devices :
    /\ entries[x] # None
    /\ entries[x].TokenHash = HashToken(t)
    /\ req'[h] = [token |-> t, dev |-> entries[x].DeviceID, asked |-> FALSE]
    /\ pc'[h] \in {"prompt", "confirm", "hook", "revoke"}
    /\ pc'[h] = "hook" /\ config.RequireConfirmFirstConnect => entries[x].Confirmed
    /\ pc'[h] = "confirm" => ~config.HasConfirmer
    /\ UNCHANGED <<entries, nextToken, historyVars>>

\* handlePair accepts a PIN.
Admits(h) ==
  /\ \E d \in Devices : req'[h] = [token |-> None, dev |-> d, asked |-> FALSE]
  /\ pc'[h] \in {"prompt", "pair"}
  /\ pc'[h] = "pair" => ~config.HasConfirmer
  /\ UNCHANGED <<entries, nextToken, historyVars>>

\* The user accepts.
Answered(h) ==
  /\ pc[h] = "prompt"
  /\ pc'[h] = IF req[h].token = None THEN "pair" ELSE "confirm"
  /\ req'[h] = [req[h] EXCEPT !.asked = TRUE]
  /\ approved' = approved \cup {req[h].dev}
  /\ UNCHANGED <<entries, nextToken, delivered, issuedTo, viaPin>>

\* Store.Confirm has returned.
Confirms(h) ==
  /\ \/ pc[h] = "confirm" /\ pc'[h] = "hook"
     \/ pc[h] = "seal" /\ pc'[h] = "reply"
  /\ req'[h] = req[h]
  /\ StoreConfirm(req[h].dev)
  /\ UNCHANGED <<nextToken, historyVars>>

\* Store.Pair has returned a token.
Draws(h) ==
  /\ pc[h] = "pair"
  /\ pc'[h] = "seal"
  /\ req'[h] = [req[h] EXCEPT !.token = nextToken]
  /\ Issue(req[h].dev)
  /\ viaPin' = viaPin \cup {nextToken}
  /\ UNCHANGED <<delivered, approved>>

LEMMA ConfirmSteps ==
  ASSUME TypeOK, NEW h \in Handlers, confirm(h) \/ Seal(h)
  PROVE  Confirms(h)
<1>1. \/ pc[h] = "confirm" /\ pc' = [pc EXCEPT ![h] = "hook"]
      \/ pc[h] = "seal" /\ pc' = [pc EXCEPT ![h] = "reply"]
  BY DEF confirm, Seal, Goto
<1>2. \/ pc[h] = "confirm" /\ pc'[h] = "hook"
      \/ pc[h] = "seal" /\ pc'[h] = "reply"
  BY <1>1 DEF TypeOK
<1>3. /\ req' = req
      /\ StoreConfirm(req[h].dev)
      /\ UNCHANGED <<nextToken, historyVars>>
  BY DEF confirm, Seal
<1> QED
  BY <1>2, <1>3 DEF Confirms

LEMMA HandlerSteps ==
  ASSUME TypeOK, [Next]_vars, NEW h \in Handlers
  PROVE  \/ Stays(h) \/ Ends(h) \/ Enters(h) \/ Admits(h) \/ Answered(h)
         \/ Confirms(h) \/ Draws(h)
<1> DEFINE Goal == \/ Stays(h) \/ Ends(h) \/ Enters(h) \/ Admits(h) \/ Answered(h)
                   \/ Confirms(h) \/ Draws(h)
<1>1. CASE Host \/ UNCHANGED vars
  BY <1>1 DEF Host, HostPair, HostRevoke, GeneratePIN, Tick, vars, Stays
<1>2. ASSUME NEW i \in Handlers, Request(i) \/ Serve(i), i # h PROVE Stays(h)
  <2>1. ASSUME NEW t \in Tokens, NEW confirming \in BOOLEAN, authWith(i, t, confirming)
        PROVE  Stays(h)
    BY <2>1, <1>2, AuthStep DEF TypeOK, Stays
  <2>2. ASSUME NEW d \in Devices, NEW p \in Pins, PairRequest(i, d, p)
        PROVE  Stays(h)
    BY <2>2, <1>2, PairRequestStep DEF TypeOK, Stays
  <2>3. ASSUME Serve(i) PROVE Stays(h)
    BY <2>3, <1>2 DEF Serve, Refuse, Accept, confirm, CallHook, handleUnpair, PairDevice,
       PairFails, Seal, Reply, Goto, Finish, TypeOK, Stays
  <2> QED
    BY <1>2, <2>1, <2>2, <2>3 DEF Request
<1>3. ASSUME NEW t \in Tokens, NEW confirming \in BOOLEAN, authWith(h, t, confirming)
      PROVE  Enters(h)
  <2>1. t \in delivered /\ UNCHANGED <<entries, nextToken, historyVars>>
    BY <1>3 DEF authWith
  <2> PICK x \in Devices, phase \in {"prompt", "confirm", "hook", "revoke"} :
        /\ entries[x] # None
        /\ entries[x].TokenHash = HashToken(t)
        /\ req' = [req EXCEPT ![h] = [token |-> t, dev |-> entries[x].DeviceID,
                                     asked |-> FALSE]]
        /\ pc' = [pc EXCEPT ![h] = phase]
        /\ phase = "hook" /\ config.RequireConfirmFirstConnect => entries[x].Confirmed
        /\ phase = "confirm" => ~config.HasConfirmer
    BY <1>3, AuthStep
  <2>2. pc'[h] = phase /\ req'[h] = [token |-> t, dev |-> entries[x].DeviceID, asked |-> FALSE]
    BY DEF TypeOK
  <2> QED
    BY <2>1, <2>2 DEF Enters
<1>4. ASSUME NEW d \in Devices, NEW p \in Pins, PairRequest(h, d, p)
      PROVE  Stays(h) \/ Admits(h)
  <2>1. UNCHANGED <<entries, nextToken, historyVars>>
    BY <1>4 DEF PairRequest
  <2> QED
    BY ZenonT(40), <1>4, <2>1, PairRequestStep DEF TypeOK, Stays, Admits
<1>5. CASE Refuse(h) \/ CallHook(h) \/ handleUnpair(h) \/ PairFails(h) \/ Reply(h)
  BY <1>5 DEF Refuse, CallHook, handleUnpair, PairFails, Reply, Goto, Finish, TypeOK, Ends
<1>6. CASE Accept(h)
  BY <1>6 DEF Accept, Goto, TypeOK, Answered
<1>7. CASE confirm(h) \/ Seal(h)
  BY <1>7, ConfirmSteps
<1>8. CASE PairDevice(h)
  BY <1>8 DEF PairDevice, Goto, Finish, TypeOK, Draws, Ends
<1> QED
  BY <1>1, <1>2, <1>3, <1>4, <1>5, <1>6, <1>7, <1>8 DEF Next, Request, Serve

\* An entry that stays in place keeps its device and token; only a handler that
\* confirms its own device sets the flag.
Keeps(d) ==
  /\ entries[d] # None
  /\ entries'[d].DeviceID = entries[d].DeviceID
  /\ entries'[d].TokenHash = entries[d].TokenHash
  /\ entries[d].Confirmed => entries'[d].Confirmed
  /\ entries'[d].Confirmed =>
       entries[d].Confirmed \/ \E h \in Handlers : Confirms(h) /\ req[h].dev = d

LEMMA EntrySteps ==
  ASSUME TypeOK, TokensAreCarried, [Next]_vars
  PROVE  \/ \E d \in Devices :
              /\ Issue(d)
              /\ \/ HostPair(d)
                 \/ \E h \in Handlers : PairDevice(h) /\ req[h].dev = d
         \/ /\ UNCHANGED <<nextToken, issuedTo, viaPin>>
            /\ \A d \in Devices : entries'[d] # None => Keeps(d)
<1> DEFINE Quiet == /\ UNCHANGED <<nextToken, issuedTo, viaPin>>
                    /\ \A d \in Devices : entries'[d] # None => Keeps(d)
<1>1. ASSUME UNCHANGED <<entries, nextToken, issuedTo, viaPin>> PROVE Quiet
  BY <1>1 DEF Keeps
<1>2. ASSUME NEW x, entries' = DeleteEntry(entries, x), UNCHANGED <<nextToken, historyVars>>
      PROVE  Quiet
  BY <1>2 DEF DeleteEntry, Keeps, TypeOK, Entries, historyVars
<1>3. ASSUME NEW h \in Handlers, confirm(h) \/ Seal(h) PROVE Quiet
  <2>1. Confirms(h) /\ req[h].dev \in Devices
    BY <1>3, ConfirmSteps DEF confirm, Seal, TokensAreCarried
  <2>2. ASSUME NEW d \in Devices, entries'[d] # None PROVE Keeps(d)
    <3>1. CASE entries'[d] = entries[d]
      BY <3>1, <2>2 DEF Keeps
    <3>2. CASE entries'[d] # entries[d]
      <4>1. d = req[h].dev /\ entries[d] \in Entry /\ entries[d] # None
        BY <2>1, <3>2 DEF Confirms, StoreConfirm, ConfirmEntry, TypeOK, Entries
      <4>2. entries'[d] = [entries[d] EXCEPT !.Confirmed = TRUE]
        BY <2>1, <4>1 DEF Confirms, StoreConfirm, ConfirmEntry, TypeOK, Entries
      <4> QED
        BY <2>1, <4>1, <4>2 DEF Keeps, Entry
    <3> QED
      BY <3>1, <3>2
  <2> QED
    BY <2>1, <2>2 DEF Confirms, historyVars
<1>4. ASSUME NEW d \in Devices, HostPair(d) PROVE Issue(d)
  BY <1>4 DEF HostPair
<1>5. ASSUME NEW h \in Handlers, PairDevice(h) PROVE Issue(req[h].dev) /\ req[h].dev \in Devices
  BY <1>5 DEF PairDevice, TokensAreCarried
<1>6. ASSUME NEW h \in Handlers, Request(h) PROVE Quiet
  BY <1>6, <1>1 DEF Request, authWith, PairRequest, historyVars
<1>7. ASSUME NEW h \in Handlers, Serve(h), ~PairDevice(h) PROVE Quiet
  BY <1>7, <1>1, <1>2, <1>3 DEF Serve, Refuse, Accept, CallHook, handleUnpair, PairFails,
     Reply, historyVars
<1>8. ASSUME Host, \A d \in Devices : ~HostPair(d) PROVE Quiet
  BY <1>8, <1>1, <1>2 DEF Host, HostRevoke, GeneratePIN, Tick, historyVars
<1>9. CASE UNCHANGED vars
  BY <1>9, <1>1 DEF vars
<1> QED
  BY <1>4, <1>5, <1>6, <1>7, <1>8, <1>9 DEF Next

-----------------------------------------------------------------------------
(* Who owns a token.                                                         *)

Owned == TypeOK /\ TokensAreCarried /\ EntriesAreOwned /\ RequestsAreOwned /\ HistoryIsDrawn

\* Tokens are drawn in order, and what one was drawn for never changes.
LEMMA DrawnStays ==
  ASSUME TypeOK, TokensAreCarried, [Next]_vars, NEW t \in Tokens, t < nextToken
  PROVE  t < nextToken' /\ issuedTo'[t] = issuedTo[t]
<1>1. ASSUME NEW d \in Devices, Issue(d) PROVE t < nextToken' /\ issuedTo'[t] = issuedTo[t]
  BY <1>1 DEF Issue, TypeOK, Tokens
<1> QED
  BY <1>1, EntrySteps

\* Only HostPair and Reply put a token into a controller's hands.
LEMMA DeliverySteps ==
  ASSUME [Next]_vars
  PROVE  \/ UNCHANGED delivered
         \/ \E d \in Devices : HostPair(d)
         \/ \E h \in Handlers : /\ Reply(h)
                                /\ delivered' = delivered \cup {req[h].token}
                                /\ UNCHANGED <<nextToken, viaPin>>
  BY DEF Next, Host, HostRevoke, GeneratePIN, Tick, Request, authWith, PairRequest, Serve,
     Refuse, Accept, confirm, CallHook, handleUnpair, PairDevice, PairFails, Seal, Reply,
     vars, historyVars

LEMMA InitOwned == Init => Owned
<1> SUFFICES ASSUME Init PROVE Owned
  OBVIOUS
<1>1. TypeOK /\ TokensAreCarried
  BY InitType
<1> QED
  BY <1>1 DEF Init, Owned, EntriesAreOwned, RequestsAreOwned, HistoryIsDrawn, NoEntries, NoRequest

LEMMA StepEntriesOwned == Owned /\ [Next]_vars => EntriesAreOwned'
<1> SUFFICES ASSUME Owned, [Next]_vars, NEW d \in Devices, entries'[d] # None
             PROVE  OwnEntry(d)'
  BY DEF EntriesAreOwned
<1> USE DEF Owned
<1>1. ASSUME entries[d] # None,
             entries'[d].DeviceID = entries[d].DeviceID,
             entries'[d].TokenHash = entries[d].TokenHash
      PROVE  OwnEntry(d)'
  <2>1. OwnEntry(d) /\ entries[d] \in Entry
    BY <1>1 DEF EntriesAreOwned, TypeOK, Entries
  <2>2. entries[d].TokenHash.sha256 \in Tokens
    BY <2>1 DEF Entry, TokenHashes
  <2> QED
    BY <1>1, <2>1, <2>2, DrawnStays DEF OwnEntry
<1>2. ASSUME NEW x \in Devices, Issue(x) PROVE OwnEntry(d)'
  <2>1. CASE d = x
    <3>1. entries'[d] = NewEntry(d, nextToken) /\ issuedTo'[nextToken] = d
      BY <1>2, <2>1, IssueType DEF Issue, PutEntry, TypeOK, Entries
    <3> QED
      BY <1>2, <3>1 DEF Issue, NewEntry, HashToken, OwnEntry, TypeOK
  <2>2. CASE d # x
    BY <1>1, <1>2, <2>2 DEF Issue, PutEntry, TypeOK, Entries
  <2> QED
    BY <2>1, <2>2
<1> QED
  BY <1>1, <1>2, EntrySteps DEF Keeps

LEMMA StepRequestsOwned == Owned /\ [Next]_vars => RequestsAreOwned'
<1> SUFFICES ASSUME Owned, [Next]_vars, NEW h \in Handlers, req'[h].token # None
             PROVE  /\ req'[h].token < nextToken'
                    /\ issuedTo'[req'[h].token] = req'[h].dev
  BY DEF RequestsAreOwned
<1> USE DEF Owned
<1>1. ASSUME req'[h].token = req[h].token, req'[h].dev = req[h].dev
      PROVE  req'[h].token < nextToken' /\ issuedTo'[req'[h].token] = req'[h].dev
  BY <1>1, DrawnStays DEF TypeOK, RequestsAreOwned
<1>2. CASE Stays(h) \/ Confirms(h)
  BY <1>1, <1>2 DEF Stays, Confirms
<1>3. CASE Answered(h)
  BY <1>1, <1>3 DEF Answered, TypeOK
<1>4. ASSUME Ends(h) \/ Admits(h) PROVE FALSE
  <2>1. ASSUME Ends(h) PROVE req'[h].token = None
    BY <2>1 DEF Ends, NoRequest
  <2>2. ASSUME Admits(h) PROVE req'[h].token = None
    BY <2>2 DEF Admits
  <2> QED
    BY <1>4, <2>1, <2>2
<1>5. CASE Enters(h)
  <2>1. PICK t \in delivered, x \in Devices :
          /\ entries[x] # None
          /\ entries[x].TokenHash = HashToken(t)
          /\ req'[h] = [token |-> t, dev |-> entries[x].DeviceID, asked |-> FALSE]
          /\ UNCHANGED <<nextToken, issuedTo>>
    BY <1>5 DEF Enters, historyVars
  <2>2. OwnEntry(x) /\ entries[x].TokenHash.sha256 = t
    BY <2>1 DEF EntriesAreOwned, HashToken
  <2> QED
    BY <2>1, <2>2 DEF OwnEntry
<1>6. CASE Draws(h)
  <2>1. req[h].dev \in Devices /\ Issue(req[h].dev)
    BY <1>6 DEF Draws, TokensAreCarried
  <2>2. req'[h].token = nextToken /\ req'[h].dev = req[h].dev
    BY <1>6 DEF Draws, TypeOK
  <2>3. nextToken \in Tokens /\ nextToken \in Nat
    BY <2>1, IssueType DEF TypeOK
  <2>4. issuedTo'[nextToken] = req[h].dev /\ nextToken < nextToken'
    BY <2>1, <2>3 DEF Issue, TypeOK
  <2> QED
    BY <2>2, <2>4
<1> QED
  BY <1>2, <1>3, <1>4, <1>5, <1>6, HandlerSteps

LEMMA StepHistoryDrawn == Owned /\ [Next]_vars => HistoryIsDrawn'
<1> SUFFICES ASSUME Owned, [Next]_vars, NEW t, t \in delivered' \cup viaPin'
             PROVE  t < nextToken'
  BY DEF HistoryIsDrawn
<1> USE DEF Owned
<1>1. ASSUME t \in delivered \cup viaPin PROVE t < nextToken'
  BY <1>1, DrawnStays DEF HistoryIsDrawn, TypeOK
<1>2. ASSUME NEW d \in Devices, Issue(d), t = nextToken PROVE t < nextToken'
  BY <1>2 DEF Issue, TypeOK
<1>3. ASSUME t \in viaPin' PROVE t < nextToken'
  BY <1>1, <1>2, <1>3, EntrySteps DEF HostPair, PairDevice
<1>4. ASSUME t \in delivered' PROVE t < nextToken'
  <2>1. ASSUME NEW d \in Devices, HostPair(d) PROVE t < nextToken'
    BY <1>1, <1>2, <1>4, <2>1 DEF HostPair
  <2>2. ASSUME NEW h \in Handlers, Reply(h), delivered' = delivered \cup {req[h].token}
        PROVE  t < nextToken'
    <3>1. req[h].token \in Tokens /\ req[h].token < nextToken
      BY <2>2, GatewayAssumption DEF Reply, TokensAreCarried, RequestsAreOwned
    <3> QED
      BY <1>1, <1>4, <2>2, <3>1, DrawnStays
  <2> QED
    BY <1>1, <1>4, <2>1, <2>2, DeliverySteps
<1> QED
  BY <1>3, <1>4

LEMMA StepOwned == Owned /\ [Next]_vars => Owned'
  BY StepType, StepEntriesOwned, StepRequestsOwned, StepHistoryDrawn DEF Owned

\* Entries, requests and what was handed out: every token belongs to the
\* device it was drawn for.
THEOREM TokensAreOwned == Spec => []Owned
  BY InitOwned, StepOwned, PTL DEF Spec

\* Section 7.3: for any number of controllers and requests, an entry goes away
\* only by the host's hand or by an unpair bearing a token of that very device.
THEOREM UnpairIsLocal == Spec => UnpairSparesOthers
<1> DEFINE Spared(d) ==
      entries[d] # None /\ entries'[d] = None =>
         \/ HostRevoke(d)
         \/ \E h \in Handlers : /\ pc[h] = "revoke"
                                /\ pc'[h] = "idle"
                                /\ issuedTo[req[h].token] = d
<1>1. ASSUME Owned, [Next]_vars, NEW d \in Devices, entries[d] # None, entries'[d] = None
      PROVE  Spared(d)
  <2> USE <1>1 DEF Owned
  <2>1. ASSUME NEW x \in Devices, Issue(x) PROVE FALSE
    BY <2>1, IssueType, PairingAssumption, MapType
       DEF Issue, PutEntry, NewEntry, TypeOK, Entries, Entry, HashToken, TokenHashes
  <2>2. ASSUME NEW h \in Handlers, confirm(h) \/ Seal(h) PROVE FALSE
    <3>1. entries[d] \in Entry
      BY DEF TypeOK, Entries
    <3>2. [entries[d] EXCEPT !.Confirmed = TRUE] \in Entry
      BY <3>1 DEF Entry
    <3> QED
      BY <2>2, <3>2, PairingAssumption DEF confirm, Seal, StoreConfirm, ConfirmEntry, TypeOK, Entries
  <2>3. ASSUME NEW h \in Handlers, handleUnpair(h) PROVE Spared(d)
    <3>1. req[h].dev = d /\ pc[h] = "revoke" /\ pc'[h] = "idle"
      BY <2>3 DEF handleUnpair, DeleteEntry, Finish, Goto, TypeOK, Entries
    <3>2. issuedTo[req[h].token] = d
      BY <3>1, GatewayAssumption DEF TokensAreCarried, RequestsAreOwned
    <3> QED
      BY <3>1, <3>2
  <2>4. ASSUME NEW x \in Devices, HostRevoke(x) PROVE Spared(d)
    BY <2>4 DEF HostRevoke, DeleteEntry, TypeOK, Entries
  <2>5. CASE UNCHANGED entries
    BY <2>5
  <2>6. ASSUME NEW h \in Handlers, PairDevice(h) PROVE FALSE
    BY <2>1, <2>6 DEF PairDevice, TokensAreCarried
  <2> QED
    BY <2>1, <2>2, <2>3, <2>4, <2>5, <2>6
       DEF Next, vars, Host, HostPair, GeneratePIN, Tick, Request, authWith, PairRequest, Serve,
           Refuse, Accept, CallHook, PairFails, Reply
<1>2. Owned /\ [Next]_vars => [\A d \in Devices : Spared(d)]_vars
  BY <1>1
<1> QED
  BY <1>2, TokensAreOwned, PTL DEF Spec, UnpairSparesOthers

-----------------------------------------------------------------------------
(* What the user has approved.                                               *)

Consented == Owned /\ ConsentIsRecorded /\ NoUnconfirmedHook

LEMMA ApprovalStays ==
  ASSUME [Next]_vars
  PROVE  config' = config /\ approved \subseteq approved'
<1>1. ASSUME NEW h \in Handlers, Request(h) \/ Serve(h) PROVE approved \subseteq approved'
  BY <1>1 DEF Request, authWith, PairRequest, Serve, Refuse, Accept, confirm, CallHook,
     handleUnpair, PairDevice, PairFails, Seal, Reply, historyVars
<1> QED
  BY <1>1 DEF Next, vars, Host, HostPair, HostRevoke, GeneratePIN, Tick, historyVars

LEMMA InitConsented == Init => Consented
<1> SUFFICES ASSUME Init PROVE Consented
  OBVIOUS
<1>1. Owned
  BY InitOwned
<1> QED
  BY <1>1 DEF Init, Consented, ConsentIsRecorded, NoUnconfirmedHook, NoEntries, NoRequest

LEMMA StepHandlersAsked ==
  ASSUME Consented, [Next]_vars, config.HasConfirmer, NEW h \in Handlers
  PROVE  /\ pc'[h] \in {"confirm", "pair", "seal"} => req'[h].dev \in approved'
         /\ pc'[h] = "pair" => req'[h].asked
<1> USE DEF Consented, Owned
<1>1. CASE Stays(h)
  BY <1>1, ApprovalStays DEF Stays, ConsentIsRecorded
<1>2. CASE Ends(h) \/ Enters(h) \/ Admits(h) \/ Confirms(h)
  BY <1>2 DEF Ends, Enters, Admits, Confirms
<1>3. CASE Answered(h)
  BY <1>3 DEF Answered, TypeOK
<1>4. CASE Draws(h)
  <2>1. pc'[h] = "seal" /\ req'[h].dev = req[h].dev /\ req[h].dev \in approved
    BY <1>4 DEF Draws, TypeOK, ConsentIsRecorded
  <2> QED
    BY <2>1, ApprovalStays
<1> QED
  BY <1>1, <1>2, <1>3, <1>4, HandlerSteps

LEMMA StepConfirmedApproved ==
  ASSUME Consented, [Next]_vars, config.HasConfirmer, NEW d \in Devices,
         entries'[d] # None, entries'[d].Confirmed
  PROVE  d \in approved'
<1> USE DEF Consented, Owned
<1>1. ASSUME entries[d] # None, entries[d].Confirmed PROVE d \in approved'
  BY <1>1, ApprovalStays DEF ConsentIsRecorded
<1>2. ASSUME NEW h \in Handlers, Confirms(h), req[h].dev = d PROVE d \in approved'
  BY <1>2, ApprovalStays DEF Confirms, ConsentIsRecorded
<1>3. ASSUME NEW x \in Devices, Issue(x) PROVE d \in approved'
  <2>1. CASE d = x
    BY <2>1, <1>3 DEF Issue, PutEntry, NewEntry, TypeOK, Entries
  <2>2. CASE d # x
    BY <2>2, <1>1, <1>3 DEF Issue, PutEntry, TypeOK, Entries
  <2> QED
    BY <2>1, <2>2
<1> QED
  BY <1>1, <1>2, <1>3, EntrySteps DEF Keeps

LEMMA StepHooksApproved ==
  ASSUME Consented, [Next]_vars, config.RequireConfirmFirstConnect, config.HasConfirmer,
         NEW h \in Handlers, pc'[h] = "hook"
  PROVE  req'[h].dev \in approved'
<1> USE DEF Consented, Owned
<1>1. CASE Stays(h)
  BY <1>1, ApprovalStays DEF Stays, NoUnconfirmedHook
<1>2. CASE Enters(h)
  <2>1. PICK x \in Devices :
          /\ entries[x] # None
          /\ req'[h].dev = entries[x].DeviceID
          /\ entries[x].Confirmed
    BY <1>2 DEF Enters
  <2>2. entries[x].DeviceID = x /\ x \in approved
    BY <2>1 DEF EntriesAreOwned, OwnEntry, ConsentIsRecorded
  <2> QED
    BY <2>1, <2>2, ApprovalStays
<1>3. CASE Confirms(h)
  BY <1>3, ApprovalStays DEF Confirms, ConsentIsRecorded
<1> QED
  BY <1>1, <1>2, <1>3, HandlerSteps DEF Ends, Admits, Answered, Draws

LEMMA StepConsented == Consented /\ [Next]_vars => Consented'
<1> SUFFICES ASSUME Consented, [Next]_vars PROVE Consented'
  OBVIOUS
<1>1. Owned'
  BY StepOwned DEF Consented
<1>2. ConsentIsRecorded'
  BY ApprovalStays, StepHandlersAsked, StepConfirmedApproved DEF ConsentIsRecorded
<1>3. NoUnconfirmedHook'
  BY ApprovalStays, StepHooksApproved DEF NoUnconfirmedHook
<1> QED
  BY <1>1, <1>2, <1>3 DEF Consented

\* Section 6.5: whatever the interleaving, with the mode on and somebody to ask
\* no request reaches a hook for a device the user has never approved.
THEOREM HooksAreApproved == Spec => []NoUnconfirmedHook
<1>1. Consented => NoUnconfirmedHook
  BY DEF Consented
<1> QED
  BY InitConsented, StepConsented, <1>1, PTL DEF Spec

\* Section 6.4: a device's token is replaced only by the host's own pairing or
\* by a PIN request about this device which the user was asked about.
THEOREM ConsentBeforePairing == Spec => PairedByConsent
<1> DEFINE ByConsent(d) ==
      TokenOf(d)' \ TokenOf(d) # {} =>
         \/ HostPair(d)
         \/ \E h \in Handlers : /\ pc[h] = "pair"
                                /\ pc'[h] # "pair"
                                /\ req[h].dev = d
                                /\ config.HasConfirmer => req[h].asked
<1>1. ASSUME Consented, [Next]_vars, NEW d \in Devices PROVE ByConsent(d)
  <2> USE <1>1 DEF Consented, Owned
  <2>1. ASSUME entries'[d] # None => Keeps(d) PROVE ByConsent(d)
    BY <2>1 DEF Keeps, TokenOf
  <2>2. ASSUME entries'[d] = entries[d] PROVE ByConsent(d)
    BY <2>2 DEF TokenOf
  <2>3. ASSUME NEW x \in Devices, Issue(x), x # d PROVE ByConsent(d)
    BY <2>2, <2>3 DEF Issue, PutEntry, TypeOK, Entries
  <2>4. ASSUME NEW h \in Handlers, PairDevice(h), req[h].dev = d PROVE ByConsent(d)
    <3>1. pc[h] = "pair" /\ pc'[h] # "pair"
      BY <2>4 DEF PairDevice, Goto, Finish, TypeOK
    <3>2. config.HasConfirmer => req[h].asked
      BY <3>1 DEF ConsentIsRecorded
    <3> QED
      BY <2>4, <3>1, <3>2
  <2> QED
    BY <2>1, <2>3, <2>4, EntrySteps
<1>2. Consented /\ [Next]_vars => [\A d \in Devices : ByConsent(d)]_vars
  BY <1>1
<1> QED
  BY <1>2, InitConsented, StepConsented, PTL DEF Spec, PairedByConsent

-----------------------------------------------------------------------------
(* What the PIN flow has confirmed.                                          *)

Sealed == Owned /\ SealedBeforeReply /\ PinPairingIsConfirmed

\* A token drawn earlier that a device has after a step, it had before, and
\* its confirmation is not lost.
LEMMA OldToken ==
  ASSUME TypeOK, TokensAreCarried, [Next]_vars, NEW d \in Devices, NEW t \in TokenOf(d)',
         t < nextToken
  PROVE  t \in TokenOf(d) /\ (entries[d].Confirmed => entries'[d].Confirmed)
<1>1. t \in Tokens /\ entries'[d] # None /\ entries'[d].TokenHash = HashToken(t)
  BY DEF TokenOf
<1>2. ASSUME Keeps(d) PROVE t \in TokenOf(d) /\ (entries[d].Confirmed => entries'[d].Confirmed)
  BY <1>1, <1>2 DEF Keeps, TokenOf
<1>3. ASSUME NEW x \in Devices, Issue(x), x # d PROVE entries'[d] = entries[d]
  BY <1>3 DEF Issue, PutEntry, TypeOK, Entries
<1>4. ASSUME Issue(d) PROVE FALSE
  <2>1. entries'[d].TokenHash = HashToken(nextToken) /\ nextToken \in Nat
    BY <1>4 DEF Issue, PutEntry, NewEntry, TypeOK, Entries
  <2>2. t = nextToken
    BY <1>1, <2>1 DEF HashToken
  <2> QED
    BY <2>1, <2>2
<1> QED
  BY <1>1, <1>2, <1>3, <1>4, EntrySteps DEF TokenOf

LEMMA StepSealed ==
  ASSUME Sealed, [Next]_vars, NEW h \in Handlers, pc'[h] = "reply",
         NEW d \in Devices, req'[h].token \in TokenOf(d)'
  PROVE  entries'[d].Confirmed
<1> USE DEF Sealed, Owned
<1>1. CASE Stays(h)
  <2>1. req[h].token < nextToken
    BY <1>1, GatewayAssumption DEF Stays, RequestsAreOwned, TokensAreCarried
  <2> QED
    BY <1>1, <2>1, OldToken DEF Stays, SealedBeforeReply
<1>2. CASE Confirms(h)
  <2>1. /\ req[h].token < nextToken
        /\ issuedTo[req[h].token] = req[h].dev
        /\ req'[h] = req[h]
    BY <1>2, GatewayAssumption DEF Confirms, RequestsAreOwned, TokensAreCarried
  <2>2. req[h].token \in TokenOf(d)
    BY <2>1, OldToken
  <2>3. d = req[h].dev
    BY <2>1, <2>2 DEF TokenOf, EntriesAreOwned, OwnEntry, HashToken
  <2>4. entries[d] # None /\ entries[d] \in Entry
    BY <2>2 DEF TokenOf, TypeOK, Entries
  <2>5. entries'[d] = [entries[d] EXCEPT !.Confirmed = TRUE]
    BY <1>2, <2>3, <2>4 DEF Confirms, StoreConfirm, ConfirmEntry, TypeOK, Entries
  <2> QED
    BY <2>4, <2>5 DEF Entry
<1> QED
  BY <1>1, <1>2, HandlerSteps DEF Ends, Enters, Admits, Answered, Draws

LEMMA StepPinConfirmed ==
  ASSUME Sealed, [Next]_vars, NEW d \in Devices,
         NEW t \in TokenOf(d)' \cap viaPin' \cap delivered'
  PROVE  entries'[d].Confirmed
<1> USE DEF Sealed, Owned
<1>1. nextToken \notin viaPin \cup delivered
  BY DEF HistoryIsDrawn, TypeOK
<1>2. t \in viaPin \/ t = nextToken
  BY EntrySteps DEF HostPair, PairDevice
<1>3. CASE t \in delivered /\ t \in viaPin
  BY <1>3, OldToken DEF HistoryIsDrawn, PinPairingIsConfirmed
<1>4. ASSUME NEW x \in Devices, HostPair(x), t \notin delivered PROVE FALSE
  BY <1>1, <1>4 DEF HostPair
<1>5. ASSUME NEW h \in Handlers, Reply(h), delivered' = delivered \cup {req[h].token},
             UNCHANGED <<nextToken, viaPin>>, t \notin delivered
      PROVE  entries'[d].Confirmed
  <2>1. t = req[h].token /\ pc[h] = "reply" /\ t < nextToken
    BY <1>5 DEF Reply, HistoryIsDrawn
  <2> QED
    BY <2>1, OldToken DEF SealedBeforeReply
<1>6. ASSUME t \in delivered PROVE t \in viaPin
  BY <1>1, <1>2, <1>6
<1> QED
  BY <1>3, <1>4, <1>5, <1>6, DeliverySteps

LEMMA InitSealed == Init => Sealed
<1> SUFFICES ASSUME Init PROVE Sealed
  OBVIOUS
<1>1. Owned
  BY InitOwned
<1> QED
  BY <1>1 DEF Init, Sealed, SealedBeforeReply, PinPairingIsConfirmed

\* However requests, un-pairing and pairing again interleave, the pairing of a
\* controller that received its token through the PIN flow is confirmed.
THEOREM PinPairingsAreConfirmed == Spec => []PinPairingIsConfirmed
<1>1. Sealed /\ [Next]_vars => Sealed'
  <2> SUFFICES ASSUME Sealed, [Next]_vars PROVE Sealed'
    OBVIOUS
  <2>1. Owned'
    BY StepOwned DEF Sealed
  <2>2. SealedBeforeReply'
    BY StepSealed DEF SealedBeforeReply
  <2>3. PinPairingIsConfirmed'
    BY StepPinConfirmed DEF PinPairingIsConfirmed
  <2> QED
    BY <2>1, <2>2, <2>3 DEF Sealed
<1>2. Sealed => PinPairingIsConfirmed
  BY DEF Sealed
<1> QED
  BY InitSealed, <1>1, <1>2, PTL DEF Spec

-----------------------------------------------------------------------------
(* How many tokens the displayed PINs are good for.                          *)

Budgeted == Owned /\ PinBudget

\* Every step leaves the budget alone, spends some of it, or moves a part on:
\* from a display to the PIN on screen, to an admitted handler, to a token.
LEMMA BudgetSteps ==
  ASSUME TypeOK, TokensAreCarried, [Next]_vars
  PROVE  \/ /\ Admitted' \subseteq Admitted
            /\ pin' \in {pin, None}
            /\ UNCHANGED <<viaPin, displayed>>
         \/ /\ displayed' = displayed + 1
            /\ UNCHANGED <<Admitted, viaPin>>
         \/ /\ pin # None /\ pin' = None
            /\ \E h \in Handlers : Admitted' \subseteq Admitted \cup {h}
            /\ UNCHANGED <<viaPin, displayed>>
         \/ /\ \E h \in Admitted : Admitted' \subseteq Admitted \ {h}
            /\ viaPin' = viaPin \cup {nextToken}
            /\ UNCHANGED <<pin, displayed>>
<1> DEFINE Spent == /\ Admitted' \subseteq Admitted
                    /\ pin' \in {pin, None}
                    /\ UNCHANGED <<viaPin, displayed>>
           Shown == /\ displayed' = displayed + 1
                    /\ UNCHANGED <<Admitted, viaPin>>
           Let   == /\ pin # None /\ pin' = None
                    /\ \E h \in Handlers : Admitted' \subseteq Admitted \cup {h}
                    /\ UNCHANGED <<viaPin, displayed>>
           Drawn == /\ \E h \in Admitted : Admitted' \subseteq Admitted \ {h}
                    /\ viaPin' = viaPin \cup {nextToken}
                    /\ UNCHANGED <<pin, displayed>>
<1>1. ASSUME UNCHANGED <<pc, req>> PROVE Admitted' = Admitted
  BY <1>1 DEF Admitted
<1>2. ASSUME NEW h \in Handlers, Finish(h) PROVE Admitted' \subseteq Admitted \ {h}
  BY <1>2 DEF Finish, Goto, Admitted, TypeOK
<1>3. ASSUME Host \/ UNCHANGED vars PROVE Spent \/ Shown
  <2>1. CASE GeneratePIN
    BY <2>1, <1>1 DEF GeneratePIN
  <2>2. CASE ~GeneratePIN
    <3>1. UNCHANGED <<pc, req, pin, viaPin, displayed>>
      BY <1>3, <2>2 DEF Host, HostPair, HostRevoke, Tick, PM!Tick, PM!pinVars, historyVars,
         vars, pinVars
    <3> QED
      BY <3>1, <1>1
  <2> QED
    BY <2>1, <2>2
<1>4. ASSUME NEW h \in Handlers, NEW t \in Tokens, NEW confirming \in BOOLEAN,
             authWith(h, t, confirming)
      PROVE  Spent
  <2> PICK x \in Devices, phase \in {"prompt", "confirm", "hook", "revoke"} :
        /\ req' = [req EXCEPT ![h] = [token |-> t, dev |-> entries[x].DeviceID,
                                     asked |-> FALSE]]
        /\ pc' = [pc EXCEPT ![h] = phase]
    BY <1>4, AuthStep
  <2>1. Admitted' \subseteq Admitted
    BY GatewayAssumption DEF Admitted, TypeOK
  <2>2. UNCHANGED <<pin, viaPin, displayed>>
    BY <1>4 DEF authWith, pinVars, historyVars
  <2> QED
    BY <2>1, <2>2
<1>5. ASSUME NEW h \in Handlers, NEW d \in Devices, NEW p \in Pins, PairRequest(h, d, p)
      PROVE  Spent \/ Let
  <2>1. UNCHANGED <<viaPin, displayed>>
    BY <1>5 DEF PairRequest, historyVars
  <2>2. ASSUME NEW r, PM!Verify(p, r) PROVE pin' \in {pin, None}
    BY <2>2 DEF PM!Verify, PM!Compare, PM!pinVars
  <2>3. ASSUME PM!Verify(p, "PINOK") PROVE pin # None /\ pin' = None
    BY <2>3, GatewayAssumption DEF PM!Verify, PM!Compare
  <2>4. CASE UNCHANGED <<pc, req>>
    <3>1. PICK r \in {"PINRateLimited", "PINWrong", "PINOK"} : PM!Verify(p, r)
      BY <1>5 DEF PairRequest
    <3> QED
      BY <2>1, <2>2, <2>4, <3>1, <1>1
  <2>5. CASE /\ PM!Verify(p, "PINOK")
             /\ req' = [req EXCEPT ![h] = [token |-> None, dev |-> d, asked |-> FALSE]]
             /\ \E phase \in {"prompt", "pair"} : pc' = [pc EXCEPT ![h] = phase]
    <3>1. Admitted' \subseteq Admitted \cup {h}
      BY <2>5 DEF Admitted, TypeOK
    <3> QED
      BY <2>1, <2>3, <2>5, <3>1
  <2> QED
    BY <1>5, <2>4, <2>5, PairRequestStep
<1>6. ASSUME NEW h \in Handlers, Serve(h), ~PairDevice(h) PROVE Spent
  <2>1. UNCHANGED <<pin, viaPin, displayed>>
    BY <1>6 DEF Serve, Refuse, Accept, confirm, CallHook, handleUnpair, PairFails, Seal, Reply,
       pinVars, historyVars
  <2>2. CASE Accept(h)
    BY <2>1, <2>2 DEF Accept, Goto, Admitted, TypeOK
  <2>3. CASE confirm(h) \/ Seal(h)
    BY <2>1, <2>3 DEF confirm, Seal, Goto, Admitted, TypeOK
  <2>4. CASE Refuse(h) \/ CallHook(h) \/ handleUnpair(h) \/ PairFails(h) \/ Reply(h)
    BY <2>1, <2>4, <1>2 DEF Refuse, CallHook, handleUnpair, PairFails, Reply
  <2> QED
    BY <1>6, <2>2, <2>3, <2>4 DEF Serve
<1>7. ASSUME NEW h \in Handlers, PairDevice(h) PROVE Drawn
  <2>1. h \in Admitted
    BY <1>7 DEF PairDevice, Admitted
  <2>2. CASE Finish(h)
    BY <1>7, <1>2, <2>1, <2>2 DEF PairDevice, pinVars
  <2>3. CASE Goto(h, "seal") /\ req' = [req EXCEPT ![h].token = nextToken]
    <3>1. Admitted' \subseteq Admitted \ {h}
      BY <2>3 DEF Goto, Admitted, TypeOK
    <3> QED
      BY <1>7, <2>1, <3>1 DEF PairDevice, pinVars
  <2> QED
    BY <1>7, <2>2, <2>3 DEF PairDevice
<1> QED
  BY <1>3, <1>4, <1>5, <1>6, <1>7 DEF Next, Request

LEMMA StepBudget == Budgeted /\ [Next]_vars => PinBudget'
<1> SUFFICES ASSUME Budgeted, [Next]_vars PROVE PinBudget'
  OBVIOUS
<1> DEFINE OnScreen == IF pin = None THEN 0 ELSE 1
<1>1. /\ TypeOK /\ TokensAreCarried
      /\ IsFiniteSet(viaPin) /\ IsFiniteSet(Admitted)
      /\ Cardinality(viaPin) + Cardinality(Admitted) + OnScreen <= displayed
      /\ displayed \in Nat
  BY DEF Budgeted, Owned, PinBudget, TypeOK
<1>2. Cardinality(viaPin) \in Nat /\ Cardinality(Admitted) \in Nat
  BY <1>1, FS_CardinalityType
<1>3. ASSUME NEW S, IsFiniteSet(S), Admitted' \subseteq S
      PROVE  /\ IsFiniteSet(Admitted')
             /\ Cardinality(Admitted') \in Nat
             /\ Cardinality(Admitted') <= Cardinality(S)
  BY <1>3, FS_Subset, FS_CardinalityType
<1>4. CASE /\ Admitted' \subseteq Admitted
           /\ pin' \in {pin, None}
           /\ UNCHANGED <<viaPin, displayed>>
  BY <1>1, <1>2, <1>3, <1>4 DEF PinBudget
<1>5. CASE displayed' = displayed + 1 /\ UNCHANGED <<Admitted, viaPin>>
  BY <1>1, <1>2, <1>5 DEF PinBudget
<1>6. CASE /\ pin # None /\ pin' = None
           /\ \E h \in Handlers : Admitted' \subseteq Admitted \cup {h}
           /\ UNCHANGED <<viaPin, displayed>>
  <2>1. PICK h \in Handlers : Admitted' \subseteq Admitted \cup {h}
    BY <1>6
  <2>2. /\ IsFiniteSet(Admitted \cup {h})
        /\ Cardinality(Admitted \cup {h}) \in Nat
        /\ Cardinality(Admitted \cup {h}) <= Cardinality(Admitted) + 1
    <3>1. /\ IsFiniteSet(Admitted \cup {h})
          /\ Cardinality(Admitted \cup {h}) \in {Cardinality(Admitted), Cardinality(Admitted) + 1}
      BY <1>1, FS_AddElement
    <3> QED
      BY <1>2, <3>1
  <2>3. /\ IsFiniteSet(Admitted')
        /\ Cardinality(Admitted') \in Nat
        /\ Cardinality(Admitted') <= Cardinality(Admitted \cup {h})
    BY <1>3, <2>1, <2>2
  <2> QED
    BY <1>1, <1>2, <1>6, <2>2, <2>3 DEF PinBudget
<1>7. CASE /\ \E h \in Admitted : Admitted' \subseteq Admitted \ {h}
           /\ viaPin' = viaPin \cup {nextToken}
           /\ UNCHANGED <<pin, displayed>>
  <2>1. PICK h \in Admitted : Admitted' \subseteq Admitted \ {h}
    BY <1>7
  <2>2. /\ IsFiniteSet(Admitted \ {h})
        /\ Cardinality(Admitted \ {h}) = Cardinality(Admitted) - 1
    BY <1>1, FS_RemoveElement
  <2>3. /\ IsFiniteSet(Admitted')
        /\ Cardinality(Admitted') \in Nat
        /\ Cardinality(Admitted') <= Cardinality(Admitted \ {h})
    BY <1>3, <2>1, <2>2
  <2>4. /\ IsFiniteSet(viaPin')
        /\ Cardinality(viaPin') \in Nat
        /\ Cardinality(viaPin') <= Cardinality(viaPin) + 1
    BY <1>1, <1>2, <1>7, FS_AddElement
  <2> QED
    BY <1>1, <1>2, <1>7, <2>2, <2>3, <2>4 DEF PinBudget
<1> QED
  BY <1>1, <1>4, <1>5, <1>6, <1>7, BudgetSteps

LEMMA InitBudgeted == Init => Budgeted
<1> SUFFICES ASSUME Init PROVE Budgeted
  OBVIOUS
<1>1. Owned
  BY InitOwned
<1>2. viaPin = {} /\ Admitted = {} /\ pin = None /\ displayed = 0
  BY DEF Init, Admitted, PM!Init
<1> QED
  BY <1>1, <1>2, FS_EmptySet DEF Budgeted, PinBudget

\* Section 6.4, "single-use", for any number of displays and requests: no more
\* tokens are drawn by PIN than PINs were displayed.
THEOREM PinsAreSingleUse == Spec => []OneTokenPerPin
<1>1. Budgeted => OneTokenPerPin
  <2> SUFFICES ASSUME Budgeted PROVE OneTokenPerPin
    OBVIOUS
  <2>1. /\ Cardinality(viaPin) \in Nat
        /\ Cardinality(Admitted) \in Nat
        /\ Cardinality(viaPin) + Cardinality(Admitted) + (IF pin = None THEN 0 ELSE 1)
             <= displayed
        /\ displayed \in Nat
    BY FS_CardinalityType DEF Budgeted, Owned, PinBudget, TypeOK
  <2> QED
    BY <2>1 DEF OneTokenPerPin
<1>2. Budgeted /\ [Next]_vars => Budgeted'
  BY StepOwned, StepBudget DEF Budgeted
<1> QED
  BY InitBudgeted, <1>1, <1>2, PTL DEF Spec

-----------------------------------------------------------------------------
(* The PIN manager inside the gateway.                                       *)

\* Requests and the host use the PIN manager by its calls alone: the gateway
\* implements PINManager's specification, so what PINManagerProofs shows of
\* one PIN holds for the PINs of the pair requests.
THEOREM PINManagerWithin == Spec => PM!Spec
<1>1. Init => PM!Init
  BY DEF Init
<1>2. [Next]_vars => [PM!Next]_(PM!vars)
  <2> SUFFICES ASSUME [Next]_vars PROVE PM!Next \/ UNCHANGED PM!vars
    OBVIOUS
  <2>1. ASSUME NEW h \in Handlers, NEW d \in Devices, NEW p \in Pins, PairRequest(h, d, p)
        PROVE  PM!VerifyCall(p)
    BY <2>1 DEF PairRequest, PM!VerifyCall, PM!VerifyResult
  <2>2. CASE GeneratePIN \/ Tick
    BY <2>2 DEF GeneratePIN, Tick, PM!Next
  <2>3. CASE UNCHANGED pinVars
    BY <2>3 DEF pinVars, PM!vars
  <2>4. ASSUME NEW h \in Handlers, Serve(h) PROVE UNCHANGED pinVars
    BY <2>4 DEF Serve, Refuse, Accept, confirm, CallHook, handleUnpair, PairDevice, PairFails,
       Seal, Reply
  <2>5. ASSUME NEW h \in Handlers, NEW t \in Tokens, NEW confirming \in BOOLEAN,
               authWith(h, t, confirming)
        PROVE  UNCHANGED pinVars
    BY <2>5 DEF authWith
  <2>6. ASSUME NEW d \in Devices, HostPair(d) \/ HostRevoke(d) PROVE UNCHANGED pinVars
    BY <2>6 DEF HostPair, HostRevoke
  <2> QED
    BY <2>1, <2>2, <2>3, <2>4, <2>5, <2>6 DEF Next, vars, Host, Request, PM!Next
<1> QED
  BY <1>1, <1>2, PTL DEF Spec, PM!Spec
=============================================================================
