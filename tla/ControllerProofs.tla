-------------------------- MODULE ControllerProofs --------------------------
(* Proofs about Controller for any agents, addresses and advertisements, and  *)
(* any number of moves, tokens and calls.                                     *)
(*                                                                            *)
(* What scanning relies on is proved of the codec, byte by byte, in           *)
(* PairingPayloadProofs.                                                      *)
EXTENDS Controller, PairingPayloadProofs

-----------------------------------------------------------------------------
(* The inductive invariant, part by part.                                    *)

\* No agent takes this for a token: it is none, or was cut short.
Broken(token) == Len(token) \in 0..(tokenLength - 1)

\* Who issued what: an entry, in memory or in the file, holds a token that has
\* been issued.
Ledger ==
  /\ nextToken \in 0..MaxTokens
  /\ entry \in [Agents -> Tokens \cup {None}]
  /\ file \in [Agents -> Tokens \cup {None}]
  /\ issuedBy \in [Tokens -> Agents \cup {None}]
  /\ \A t \in Tokens : t < nextToken => issuedBy[t] \in Agents
  /\ \A a \in Agents : /\ entry[a] \in Tokens => entry[a] < nextToken
                       /\ file[a] \in Tokens => file[a] < nextToken

\* A token that agent a has issued.
Issued(a, token) ==
  \E t \in Tokens : t < nextToken /\ issuedBy[t] = a /\ token = TokenBytes[t]

\* The same, or no token at all.
Owns(a, token) == Broken(token) \/ Issued(a, token)

\* A token pinned to the fingerprint of the agent that issued it.
Bound(fp, token) ==
  /\ Len(fp) = fpLength
  /\ Broken(token) \/ \E a \in Agents : fp = FP[a] /\ Owns(a, token)

\* What is on a screen is a payload with a token of its agent.
Screened ==
  screen # None =>
    \E a \in Agents, x \in Addrs, t \in Tokens :
      t < nextToken /\ issuedBy[t] = a /\ screen = PayloadOf(a, x, t)

\* What the controller keeps, in memory or stored, is bound.
Kept ==
  /\ client # None => client.addr \in Addrs /\ Bound(client.fp, client.token)
  /\ stored # None => /\ Bound(stored.fp, stored.token)
                      /\ \E a \in Agents : stored.fp = FP[a]

\* The request of call no was carried out by the agent with fingerprint fp; token
\* is the one it issued for it.
IsDone(no, method, fp, token) ==
  \E d \in done :
    /\ d.no = no /\ d.method = method
    /\ d.agent \in Agents /\ FP[d.agent] = fp
    /\ method = "pair" /\ token # <<>> =>
         /\ d.token \in Tokens /\ d.token < nextToken /\ issuedBy[d.token] = d.agent
         /\ token = TokenBytes[d.token]

CallFields == {"no", "method", "id", "addr", "fp", "token", "phase", "agent", "answer"}
CallPhases == {"dial", "request", "prompt", "response", "late", "cut"}

\* What the answer that is on its way means: it says only what is done, and as
\* long as the agent's program runs, that a token is no pairing is so.
Answered ==
  /\ call.answer \in Answers
  /\ call.answer.code = "ok" => IsDone(call.no, call.method, call.fp, call.answer.token)
  /\ call.phase = "response" /\ Ends(call.method, call.answer.code) =>
       ~Authenticates(call.agent, call.token)

\* The call in progress is bound, and past the handshake it is with the agent
\* whose fingerprint it is pinned to.
Called ==
  call # None =>
    /\ DOMAIN call = CallFields
    /\ call.addr \in Addrs
    /\ Bound(call.fp, call.token)
    /\ call.phase \in CallPhases
    /\ IF call.phase = "dial" THEN call.agent = None
       ELSE /\ call.agent \in Agents /\ FP[call.agent] = call.fp
            /\ Owns(call.agent, call.token)
    /\ call.phase \in {"response", "late"} => Answered

\* What a call has returned.
Told ==
  outcome # None =>
    /\ outcome.result \in Outcomes
    /\ outcome.result = "ok" => IsDone(outcome.no, outcome.method, outcome.fp, outcome.token)

\* The tokens that are gone were issued, if at all, and are no pairing.
Gone ==
  /\ DOMAIN gone = Agents
  /\ \A a \in Agents : \A b \in gone[a] : Owns(a, b) /\ ~Authenticates(a, b)

Heard == \A a \in Agents : \A b \in heard[a] : Owns(a, b)

Network == /\ home \in [Addrs -> Agents \cup {None}]
           /\ adverts \subseteq AllAdverts
           /\ \A req \in orphans :
                /\ DOMAIN req = {"no", "method", "token", "agent", "phase"}
                /\ req.agent \in Agents /\ req.phase \in {"request", "prompt"}
           /\ DOMAIN heard = Agents

\* An agent with a request or an answer under way has not been stopped since.
Running == call # None /\ call.phase \in {"request", "prompt", "response"} => Up(call.agent)

ControllerInv ==
  Ledger /\ Screened /\ Kept /\ Called /\ Told /\ Gone /\ Heard /\ Network /\ Running

-----------------------------------------------------------------------------
(* Tokens.                                                                   *)

LEMMA TokensDiffer ==
  ASSUME NEW t \in Tokens
  PROVE  /\ TokenBytes[t] \in Seq(Bytes) /\ Len(TokenBytes[t]) = tokenLength
         /\ TokenBytes[t] # <<>> /\ ~Broken(TokenBytes[t])
         /\ \A u \in Tokens : TokenBytes[t] = TokenBytes[u] => t = u
<1>1. /\ TokenBytes[t] \in Seq(Bytes) /\ Len(TokenBytes[t]) = tokenLength
      /\ tokenLength \in Nat \ {0}
      /\ \A u \in Tokens : t # u => TokenBytes[t] # TokenBytes[u]
  BY ControllerAssumption DEF ControllerAssumption
<1>2. TokenBytes[t] # <<>>
  BY <1>1
<1>3. ~Broken(TokenBytes[t])
  BY <1>1 DEF Broken
<1> QED
  BY <1>1, <1>2, <1>3

\* No token at all, and a token without its last byte, are broken.
LEMMA BrokenTokens ==
  /\ Broken(<<>>)
  /\ \A t \in Tokens : Broken(ButLast(TokenBytes[t]))
<1>1. tokenLength \in Nat \ {0}
  BY ControllerAssumption DEF ControllerAssumption
<1>2. ASSUME NEW t \in Tokens
      PROVE  Broken(ButLast(TokenBytes[t]))
  <2>1. CutOf(TokenBytes[t], ButLast(TokenBytes[t]))
    BY TokensDiffer, CutIsSubSeq
  <2>2. Len(ButLast(TokenBytes[t])) \in Nat /\ tokenLength = Len(ButLast(TokenBytes[t])) + 1
    BY <2>1, TokensDiffer DEF CutOf
  <2> QED
    BY <1>1, <2>2 DEF Broken
<1>3. Broken(<<>>)
  BY <1>1 DEF Broken
<1> QED
  BY <1>2, <1>3

\* What a step can do to the ledger, but for the start of a program.
EntryStep ==
  \/ UNCHANGED <<entry, nextToken, issuedBy>>
  \/ \E a \in Agents : Issue(a)
  \/ \E a \in Agents : Remove(a)
FileStep ==
  \/ UNCHANGED file
  \/ \E a \in Agents : file' = [file EXCEPT ![a] = entry'[a]]
LedgerStep == EntryStep /\ FileStep

\* No token that was issued is forgotten or changes hands.
TokensStay ==
  \A t \in Tokens : t < nextToken => t < nextToken' /\ issuedBy'[t] = issuedBy[t]

\* Tokens are only ever added, and no token that was issued becomes valid.
LEMMA EntriesGrow ==
  ASSUME Ledger, EntryStep
  PROVE  /\ nextToken' \in 0..MaxTokens /\ nextToken <= nextToken'
         /\ entry' \in [Agents -> Tokens \cup {None}]
         /\ issuedBy' \in [Tokens -> Agents \cup {None}]
         /\ \A t \in Tokens : t < nextToken' => issuedBy'[t] \in Agents
         /\ \A a \in Agents : entry'[a] \in Tokens => entry'[a] < nextToken'
         /\ TokensStay
         /\ \A a \in Agents : entry'[a] \in {entry[a], None, nextToken}
<1>0. MaxTokens \in Nat /\ nextToken \in Int
  BY ControllerAssumption DEF ControllerAssumption, Ledger
<1>1. CASE UNCHANGED <<entry, nextToken, issuedBy>>
  BY <1>0, <1>1 DEF Ledger, TokensStay
<1>2. ASSUME NEW a \in Agents, Issue(a)
      PROVE  /\ nextToken' \in 0..MaxTokens /\ nextToken <= nextToken'
             /\ entry' \in [Agents -> Tokens \cup {None}]
             /\ issuedBy' \in [Tokens -> Agents \cup {None}]
             /\ \A t \in Tokens : t < nextToken' => issuedBy'[t] \in Agents
             /\ \A b \in Agents : entry'[b] \in Tokens => entry'[b] < nextToken'
             /\ TokensStay
             /\ \A b \in Agents : entry'[b] \in {entry[b], None, nextToken}
  <2>1. nextToken \in Tokens /\ nextToken' = nextToken + 1 /\ nextToken \in Int
    BY <1>0, <1>2 DEF Issue, Ledger, Tokens
  <2>2. /\ entry' \in [Agents -> Tokens \cup {None}]
        /\ \A b \in Agents : entry'[b] \in {entry[b], None, nextToken}
    BY <1>2, <2>1 DEF Issue, Ledger
  <2>3. /\ issuedBy' \in [Tokens -> Agents \cup {None}]
        /\ \A t \in Tokens : t < nextToken => t < nextToken' /\ issuedBy'[t] = issuedBy[t]
        /\ issuedBy'[nextToken] = a
    BY <1>0, <1>2, <2>1 DEF Issue, Ledger, Tokens
  <2>4. \A t \in Tokens : t < nextToken' => issuedBy'[t] \in Agents
    BY <1>0, <2>1, <2>3 DEF Ledger, Tokens
  <2>5. \A b \in Agents : entry'[b] \in Tokens => entry'[b] < nextToken'
    BY <1>0, <1>2, <2>1 DEF Issue, Ledger, Tokens
  <2>6. nextToken' \in 0..MaxTokens /\ nextToken <= nextToken'
    BY <1>0, <1>2, <2>1 DEF Issue, Ledger
  <2> QED
    BY <2>2, <2>3, <2>4, <2>5, <2>6 DEF TokensStay
<1>3. ASSUME NEW a \in Agents, Remove(a)
      PROVE  /\ entry' \in [Agents -> Tokens \cup {None}]
             /\ \A b \in Agents : entry'[b] = entry[b] \/ entry'[b] = None
             /\ UNCHANGED <<nextToken, issuedBy>>
  BY <1>3 DEF Ledger, Remove, tokenVars
<1>4. ASSUME NEW a \in Agents, Remove(a)
      PROVE  /\ nextToken' \in 0..MaxTokens /\ nextToken <= nextToken'
             /\ issuedBy' \in [Tokens -> Agents \cup {None}]
             /\ \A t \in Tokens : t < nextToken' => issuedBy'[t] \in Agents
             /\ \A b \in Agents : entry'[b] \in Tokens => entry'[b] < nextToken'
             /\ TokensStay
  <2>1. UNCHANGED <<nextToken, issuedBy>> /\ None \notin Tokens
    BY <1>3, <1>4, ControllerAssumption DEF ControllerAssumption
  <2>2. \A b \in Agents : entry'[b] = entry[b] \/ entry'[b] = None
    BY <1>3, <1>4
  <2>3. \A b \in Agents : entry'[b] \in Tokens => entry'[b] < nextToken'
    BY <2>1, <2>2 DEF Ledger
  <2> QED
    BY <1>0, <2>1, <2>3 DEF Ledger, TokensStay
<1> QED
  BY <1>1, <1>2, <1>3, <1>4 DEF EntryStep

LEMMA LedgerGrows ==
  ASSUME Ledger, LedgerStep
  PROVE  /\ Ledger'
         /\ TokensStay
         /\ \A a \in Agents : entry'[a] \in {entry[a], None, nextToken}
<1>1. nextToken \in Int /\ nextToken' \in Int /\ nextToken <= nextToken' /\ Tokens \subseteq Int
  BY EntriesGrow, ControllerAssumption DEF LedgerStep, Ledger, Tokens, ControllerAssumption
<1>2. file' \in [Agents -> Tokens \cup {None}]
  BY EntriesGrow DEF LedgerStep, FileStep, Ledger
<1>3. \A a \in Agents : file'[a] \in {file[a], entry'[a]}
  BY DEF LedgerStep, FileStep, Ledger
<1>4. \A a \in Agents : file'[a] \in Tokens => file'[a] < nextToken'
  <2>1. ASSUME NEW a \in Agents, file'[a] \in Tokens
        PROVE  file'[a] < nextToken'
    <3>1. CASE file'[a] = entry'[a]
      BY <2>1, <3>1, EntriesGrow DEF LedgerStep
    <3>2. CASE file'[a] = file[a]
      <4>1. file[a] < nextToken /\ file[a] \in Int
        BY <1>1, <2>1, <3>2 DEF Ledger
      <4> QED
        BY <1>1, <3>2, <4>1
    <3> QED
      BY <1>3, <3>1, <3>2
  <2> QED
    BY <2>1
<1> QED
  BY <1>2, <1>4, EntriesGrow DEF LedgerStep, Ledger

\* A program that starts takes its entry from the file.
LEMMA StartLedger ==
  ASSUME Ledger, NEW a \in Agents, entry' = [entry EXCEPT ![a] = file[a]],
         UNCHANGED <<file, nextToken, issuedBy>>
  PROVE  /\ Ledger'
         /\ TokensStay
         /\ \A b \in Agents : b # a => entry'[b] = entry[b]
BY DEF Ledger, TokensStay

LEMMA OwnsStays ==
  ASSUME TokensStay
  PROVE  /\ \A a, token : Issued(a, token) => Issued(a, token)'
         /\ \A a, token : Owns(a, token) => Owns(a, token)'
         /\ \A fp, token : Bound(fp, token) => Bound(fp, token)'
<1>1. ASSUME NEW a, NEW token, Issued(a, token)
      PROVE  Issued(a, token)'
  BY <1>1 DEF Issued, TokensStay
<1> QED
  BY <1>1 DEF Bound, Owns

LEMMA DoneStays ==
  ASSUME TokensStay, done \subseteq done', NEW no, NEW method, NEW fp, NEW token,
         IsDone(no, method, fp, token)
  PROVE  IsDone(no, method, fp, token)'
BY DEF IsDone, TokensStay

LEMMA EndedStays ==
  ASSUME Ledger, LedgerStep, NEW a \in Agents, NEW token, Owns(a, token),
         ~Authenticates(a, token)
  PROVE  ~Authenticates(a, token)'
<1> SUFFICES ASSUME entry'[a] # None, token = TokenBytes[entry'[a]]
             PROVE  FALSE
  BY DEF Authenticates
<1>1. /\ entry'[a] \in Tokens
      /\ entry'[a] \in {entry[a], nextToken}
  BY LedgerGrows DEF Ledger
<1>2. PICK t \in Tokens : t < nextToken /\ token = TokenBytes[t]
  BY <1>1, TokensDiffer DEF Owns, Issued
<1>3. entry'[a] = t
  BY <1>1, <1>2, TokensDiffer
<1>4. t # nextToken
  BY <1>2, ControllerAssumption DEF Tokens, ControllerAssumption, Ledger
<1> QED
  BY <1>1, <1>2, <1>3, <1>4 DEF Authenticates

-----------------------------------------------------------------------------
(* Scanning.                                                                 *)

\* What is shown is a payload Encode accepts.
LEMMA PayloadsComplete ==
  ASSUME NEW p \in Payloads
  PROVE  Complete(p)
<1>1. PICK a \in Agents, x \in Addrs, t \in Tokens : p = PayloadOf(a, x, t)
  BY DEF Payloads
<1>2. /\ DeviceID[a] \in Seq(Bytes) /\ DeviceID[a] # <<>>
      /\ Name[a] \in Seq(Bytes)
      /\ FP[a] \in Seq(Bytes) /\ FP[a] # <<>>
  <2>1. Len(FP[a]) = fpLength /\ fpLength # 0
    BY ControllerAssumption DEF ControllerAssumption
  <2>2. FP[a] # <<>>
    BY <2>1
  <2> QED
    BY <2>2, ControllerAssumption DEF ControllerAssumption
<1>3. x \in Address /\ x.ip # <<>> /\ Head(x.ip) # Open
  BY ControllerAssumption DEF ControllerAssumption
<1>4. x.ip \in Seq(Bytes) /\ x.port \in Nat /\ x.port # 0
  <2>1. x.ip \in Seq(Bytes) /\ x.port \in Ports
    BY <1>3 DEF Address
  <2>2. MaxPort \in Nat
    BY DEF MaxPort
  <2>3. \A n \in Ports : n \in Nat /\ n # 0
    BY <2>2 DEF Ports
  <2> QED
    BY <2>1, <2>3
<1>5. TokenBytes[t] \in Seq(Bytes) /\ TokenBytes[t] # <<>>
  BY TokensDiffer
<1>6. p = [ip |-> x.ip, port |-> x.port, id |-> DeviceID[a], name |-> Name[a], app |-> <<>>,
           fp |-> FP[a], token |-> TokenBytes[t]]
  BY <1>1 DEF PayloadOf
<1>7. <<>> \in Seq(Bytes)
  OBVIOUS
<1> QED
  BY <1>2, <1>3, <1>4, <1>5, <1>6, <1>7 DEF Complete, Required

LEMMA ScansAreFaithful == EveryScan
<1>1. ASSUME NEW p \in Payloads, NEW e \in Edits
      PROVE  Faithful(p, e, Scanned[p][e])
  <2>1. Scanned[p][e] = Reread(p, e)
    BY DEF Scanned
  <2> QED
    BY <2>1, PayloadsComplete, RereadIsFaithful
<1> QED
  BY <1>1 DEF EveryScan

LEMMA BytesSurvive == EveryByte
<1>1. ASSUME NEW c \in Bytes
      PROVE  <<c>> \in Seq(Bytes)
  OBVIOUS
<1> QED
  BY <1>1, ComponentsSurvive DEF EveryByte

\* q is what a scan of p may read after the edit e.
Reads(p, e, q) ==
  /\ \A k \in DOMAIN p \ (Lost(e) \cup Cut(e)) : q[k] = p[k]
  /\ \A k \in Cut(e) : q[k] \in {p[k], ButLast(p[k])}
  /\ Lost(e) \cap Required = {}

LEMMA ScanIsRead ==
  ASSUME NEW p \in Payloads, NEW q, q \in UNION Readings[p]
  PROVE  \E e \in Edits : Reads(p, e, q)
<1>1. PICK e \in Edits : q \in Scanned[p][e]
  BY Zenon DEF Readings
<1>2. Faithful(p, e, Scanned[p][e])
  BY ScansAreFaithful, Zenon DEF EveryScan
<1> QED
  BY <1>1, <1>2, Zenon DEF Faithful, Reads

\* A payload that is accepted names the address, the fingerprint and the token
\* that were shown, or the last byte of the token is gone.
LEMMA ScanReads ==
  ASSUME NEW a \in Agents, NEW x \in Addrs, NEW t \in Tokens,
         NEW q, q \in UNION Readings[PayloadOf(a, x, t)], ValidFP(q.fp)
  PROVE  /\ q.ip = x.ip /\ q.port = x.port
         /\ q.fp = FP[a]
         /\ q.token = TokenBytes[t] \/ Broken(q.token)
<1> DEFINE p == PayloadOf(a, x, t)
<1>1. p \in Payloads
  BY DEF Payloads
<1>2. /\ DOMAIN p = {"ip", "port", "id", "name", "app", "fp", "token"}
      /\ p.ip = x.ip /\ p.port = x.port /\ p.fp = FP[a] /\ p.token = TokenBytes[t]
  BY DEF PayloadOf
<1> HIDE DEF p
<1>3. PICK e \in Edits : Reads(p, e, q)
  BY <1>1, ScanIsRead DEF p
<1>4. Lost(e) \subseteq Params /\ Cut(e) \subseteq Params
  <2>1. e.order \in Orders
    BY DEF Edits
  <2>2. ASSUME e.order # <<>>
        PROVE  canonicalParamOrder[e.order[Len(e.order)]] \in Params
    <3>1. Len(e.order) \in 1..Len(e.order)
      BY <2>1, <2>2, OrderFacts
    <3> QED
      BY <2>1, <3>1, OrderFacts, ParamFacts
  <2> QED
    BY <2>2 DEF Lost, Cut
<1>5. /\ \A k \in DOMAIN p \ (Lost(e) \cup Cut(e)) : q[k] = p[k]
      /\ \A k \in Cut(e) : q[k] \in {p[k], ButLast(p[k])}
      /\ Lost(e) \cap Required = {}
  BY <1>3 DEF Reads
<1>6. q.ip = x.ip /\ q.port = x.port
  <2>1. "ip" \notin Params /\ "port" \notin Params
    BY ParamFacts
  <2> QED
    BY <1>2, <1>4, <1>5, <2>1
<1>7. "fp" \notin Lost(e) /\ "token" \notin Lost(e)
  BY <1>5 DEF Required
<1>8. q.fp = FP[a]
  <2>1. SUFFICES ASSUME q.fp = ButLast(FP[a])
                 PROVE  FALSE
    BY <1>2, <1>5, <1>7
  <2>2. FP[a] \in Seq(Bytes) /\ Len(FP[a]) = fpLength /\ fpLength \in Nat \ {0}
    BY ControllerAssumption DEF ControllerAssumption
  <2>3. FP[a] # <<>>
    BY <2>2
  <2>4. CutOf(FP[a], q.fp)
    BY <2>1, <2>2, <2>3, CutIsSubSeq
  <2>5. fpLength = Len(q.fp) + 1 /\ Len(q.fp) \in Nat
    BY <2>2, <2>4 DEF CutOf
  <2> QED
    BY <2>5 DEF ValidFP
<1>9. q.token \in {TokenBytes[t], ButLast(TokenBytes[t])}
  BY <1>2, <1>5, <1>7
<1> QED
  BY <1>6, <1>8, <1>9, BrokenTokens

LEMMA FPsDiffer ==
  ASSUME NEW a \in Agents, NEW b \in Agents, FP[a] = FP[b]
  PROVE  a = b
BY ControllerAssumption DEF ControllerAssumption

-----------------------------------------------------------------------------
(* Advertisements.                                                           *)

LEMMA KeyFacts ==
  /\ DOMAIN txtKeyOrder = 1..5
  /\ \A i, j \in 1..5 : txtKeyOrder[i] = txtKeyOrder[j] => i = j
  /\ Keys = {"app", "id", "name", "ver", "fp"}
  /\ \A k \in Keys : \E i \in 1..5 : txtKeyOrder[i] = k
  /\ \A i \in 1..5 : txtKeyOrder[i] \in Keys
<1>1. /\ DOMAIN txtKeyOrder = 1..5
      /\ txtKeyOrder[1] = "app" /\ txtKeyOrder[2] = "id" /\ txtKeyOrder[3] = "name"
      /\ txtKeyOrder[4] = "ver" /\ txtKeyOrder[5] = "fp"
  BY DEF txtKeyOrder
<1>2. 1..5 = {1, 2, 3, 4, 5}
  OBVIOUS
<1>3. Keys = {"app", "id", "name", "ver", "fp"}
  BY <1>1, <1>2 DEF Keys
<1>4. \A i, j \in 1..5 : txtKeyOrder[i] = txtKeyOrder[j] => i = j
  BY <1>1, <1>2
<1>5. \A k \in Keys : \E i \in 1..5 : txtKeyOrder[i] = k
  BY <1>1 DEF Keys
<1>6. \A i \in 1..5 : txtKeyOrder[i] \in Keys
  BY <1>1 DEF Keys
<1> QED
  BY <1>1, <1>3, <1>4, <1>5, <1>6

\* The five entries of a record, in an order the network may change.
Permutes(o) ==
  /\ o \in [1..5 -> 1..5]
  /\ \A i, j \in 1..5 : o[i] = o[j] => i = j
  /\ \A j \in 1..5 : \E i \in 1..5 : o[i] = j

\* discovery.go, Encode and DecodeTXT: the entries of a record may come in any
\* order, and are read as the record.
THEOREM AnyOrderIsRead ==
  ASSUME NEW V, NEW t, t \in [Keys -> V], t.ver \in Int, NEW o, Permutes(o)
  PROVE  DecodeTXT([i \in 1..5 |-> EncodeTXT(t)[o[i]]]) = {t}
<1> DEFINE Q == [i \in 1..5 |-> EncodeTXT(t)[o[i]]]
<1>1. /\ DOMAIN Q = 1..5
      /\ \A i \in 1..5 : Q[i] = [key |-> txtKeyOrder[o[i]], value |-> t[txtKeyOrder[o[i]]]]
  <2>1. \A i \in 1..5 : o[i] \in DOMAIN txtKeyOrder
    BY KeyFacts DEF Permutes
  <2> QED
    BY <2>1 DEF EncodeTXT
<1> HIDE DEF Q
<1>2. ASSUME NEW k \in Keys
      PROVE  /\ \E i \in DOMAIN Q : Q[i].key = k
             /\ ValueOf(Q, k) = t[k]
  <2>1. PICK i \in 1..5 : txtKeyOrder[o[i]] = k
    BY KeyFacts DEF Permutes
  <2>2. i \in DOMAIN Q /\ Q[i].key = k /\ Q[i].value = t[k]
    BY <1>1, <2>1
  <2>3. \A x \in DOMAIN Q : Q[x].key = k => x = i
    BY <1>1, <2>1, KeyFacts DEF Permutes
  <2> DEFINE Last(x) == /\ Q[x].key = k
                        /\ \A y \in DOMAIN Q : Q[y].key = k => y <= x
  <2>4. Last(i)
    <3>1. i <= i
      OBVIOUS
    <3> QED
      BY <2>2, <2>3, <3>1
  <2>5. (CHOOSE x \in DOMAIN Q : Last(x)) = i
    <3>1. \A x \in DOMAIN Q : Last(x) => x = i
      BY <2>3
    <3> HIDE DEF Last
    <3> QED
      BY <2>2, <2>4, <3>1
  <2>6. ValueOf(Q, k) = Q[CHOOSE x \in DOMAIN Q : Last(x)].value
    BY DEF ValueOf
  <2> QED
    BY <2>2, <2>5, <2>6
<1>3. Keys \subseteq {Q[i].key : i \in DOMAIN Q}
  BY <1>2
<1>4. [k \in Keys |-> ValueOf(Q, k)] = t
  BY <1>2
<1>5. DecodeTXT(Q) = {t}
  BY <1>3, <1>4 DEF DecodeTXT
<1> QED
  BY <1>5 DEF Q

-----------------------------------------------------------------------------
(* What a step leaves alone keeps its part of the invariant.                 *)

LEMMA FrameStays ==
  ASSUME ControllerInv, LedgerStep, done \subseteq done'
  PROVE  /\ Ledger'
         /\ UNCHANGED screen => Screened'
         /\ UNCHANGED client /\ UNCHANGED stored => Kept'
         /\ UNCHANGED call => Called'
         /\ UNCHANGED outcome => Told'
         /\ UNCHANGED gone => Gone'
         /\ UNCHANGED heard => Heard'
         /\ UNCHANGED home /\ UNCHANGED adverts /\ UNCHANGED orphans /\ UNCHANGED heard
              => Network'
         /\ UNCHANGED home /\ UNCHANGED call => Running'
<1>0. Ledger /\ Screened /\ Kept /\ Called /\ Told /\ Gone /\ Heard /\ Network /\ Running
  BY DEF ControllerInv
<1>1. Ledger' /\ TokensStay
  BY <1>0, LedgerGrows
<1>2. ASSUME UNCHANGED screen PROVE Screened'
  BY <1>0, <1>1, <1>2 DEF Screened, PayloadOf, TokensStay
<1>3. ASSUME UNCHANGED client, UNCHANGED stored PROVE Kept'
  BY <1>0, <1>1, <1>3, OwnsStays DEF Kept
<1>4. ASSUME UNCHANGED call PROVE Called'
  <2> SUFFICES ASSUME call # None PROVE Called'
    BY <1>4 DEF Called
  <2>1. ASSUME call.phase \in {"response", "late"}
        PROVE  Answered'
    <3>1. call.agent \in Agents /\ Owns(call.agent, call.token) /\ Answered
      BY <1>0, <2>1 DEF Called
    <3>2. call.answer.code = "ok" => IsDone(call.no, call.method, call.fp, call.answer.token)'
      BY <1>1, <1>4, <3>1, DoneStays DEF Answered
    <3>3. call.phase = "response" /\ Ends(call.method, call.answer.code) =>
            ~Authenticates(call.agent, call.token)'
      BY <1>0, <1>4, <3>1, EndedStays DEF Answered
    <3> QED
      BY <1>4, <3>1, <3>2, <3>3 DEF Answered, Answers, Ends, Authenticates, IsDone
  <2>2. Bound(call.fp, call.token)'
    BY <1>0, <1>1, <1>4, OwnsStays DEF Called
  <2>3. call.phase # "dial" => Owns(call.agent, call.token)'
    BY <1>0, <1>1, <1>4, OwnsStays DEF Called
  <2> QED
    BY <1>0, <1>4, <2>1, <2>2, <2>3 DEF Called
<1>5. ASSUME UNCHANGED outcome PROVE Told'
  <2>1. ASSUME outcome # None, outcome.result = "ok"
        PROVE  IsDone(outcome.no, outcome.method, outcome.fp, outcome.token)'
    BY <1>0, <1>1, <1>5, <2>1, DoneStays DEF Told
  <2> QED
    BY <1>0, <1>5, <2>1 DEF Told, IsDone
<1>6. ASSUME UNCHANGED gone PROVE Gone'
  <2>1. \A a \in Agents : \A b \in gone[a] : Owns(a, b)' /\ ~Authenticates(a, b)'
    BY <1>0, <1>1, OwnsStays, EndedStays DEF Gone
  <2> QED
    BY <1>0, <1>6, <2>1 DEF Gone
<1>7. ASSUME UNCHANGED heard PROVE Heard'
  BY <1>0, <1>1, <1>7, OwnsStays DEF Heard
<1>8. ASSUME UNCHANGED home, UNCHANGED adverts, UNCHANGED orphans, UNCHANGED heard
      PROVE  Network'
  BY <1>0, <1>8 DEF Network, AllAdverts
<1>9. ASSUME UNCHANGED home, UNCHANGED call PROVE Running'
  BY <1>0, <1>9 DEF Running, Up
<1> QED
  BY <1>1, <1>2, <1>3, <1>4, <1>5, <1>6, <1>7, <1>8, <1>9

-----------------------------------------------------------------------------
(* Serving.                                                                  *)

LEMMA PersistFile ==
  ASSUME NEW a \in Agents, NEW err, Persist(a, err)
  PROVE  FileStep
BY DEF Persist, FileStep

LEMMA CarryOutLedger ==
  ASSUME NEW req, req.agent \in Agents, NEW answer, CarryOut(req, answer)
  PROVE  LedgerStep /\ done \subseteq done'
<1> DEFINE a == req.agent
<1>1. done \subseteq done'
  BY DEF CarryOut, Done
<1>2. EntryStep
  BY DEF CarryOut, Confirm, EntryStep, tokenVars
<1>3. FileStep
  <2>1. CASE UNCHANGED file
    BY <2>1 DEF FileStep
  <2>2. CASE Confirm(a)
    BY <2>2 DEF Confirm, FileStep
  <2>3. CASE \E err \in BOOLEAN : Persist(a, err)
    BY <2>3, PersistFile
  <2> QED
    BY <2>1, <2>2, <2>3 DEF CarryOut
<1> QED
  BY <1>1, <1>2, <1>3 DEF LedgerStep

\* The answers there are, and what goes with them.
LEMMA CarryOutCases ==
  ASSUME NEW req, NEW answer, CarryOut(req, answer)
  PROVE  \/ answer = Answer("refused", <<>>) \/ answer = Answer("internal", <<>>)
         \/ req.method = "status" /\ answer = Answer("ok", <<>>) /\ Done(req, None)
         \/ /\ req.method = "unpair" /\ answer = Answer("ok", <<>>) /\ Done(req, None)
            /\ Remove(req.agent) \/ (entry[req.agent] = None /\ UNCHANGED entry)
         \/ /\ req.method = "pair" /\ answer = Answer("ok", TokenBytes[nextToken])
            /\ Issue(req.agent) /\ Done(req, nextToken)
BY Zenon DEF CarryOut

\* An answer means what it says when it is given.
LEMMA CarryOutAnswers ==
  ASSUME Ledger, NEW req, req.agent \in Agents, NEW answer \in Answers, CarryOut(req, answer)
  PROVE  /\ answer.code = "ok" => IsDone(req.no, req.method, FP[req.agent], answer.token)'
         /\ Ends(req.method, answer.code) => ~Authenticates(req.agent, req.token)'
<1> DEFINE a == req.agent
<1>0. \A code, token : Answer(code, token).code = code /\ Answer(code, token).token = token
  BY DEF Answer
<1>1. ASSUME NEW t, Done(req, t)
      PROVE  \E d \in done' : d.no = req.no /\ d.method = req.method /\ d.agent = a /\ d.token = t
  <2> DEFINE d == [no |-> req.no, method |-> req.method, agent |-> a, token |-> t]
  <2>1. d \in done'
    BY <1>1 DEF Done
  <2>2. d.no = req.no /\ d.method = req.method /\ d.agent = a /\ d.token = t
    OBVIOUS
  <2> QED
    BY <2>1, <2>2
<1>2. CASE answer.code # "ok"
  <2>1. answer.code # "unauthorized"
    BY <1>0, <1>2, CarryOutCases
  <2> QED
    BY <1>2, <2>1 DEF Ends
<1>3. CASE req.method = "status" /\ answer.code = "ok"
  <2>1. Done(req, None)
    BY <1>0, <1>3, CarryOutCases
  <2> QED
    BY <1>1, <1>3, <2>1 DEF IsDone, Ends
<1>4. CASE req.method = "unpair" /\ answer.code = "ok"
  <2>1. Done(req, None)
    BY <1>0, <1>4, CarryOutCases
  <2>2. entry'[a] = None
    BY <1>0, <1>4, CarryOutCases DEF Remove, Ledger
  <2> QED
    BY <1>1, <1>4, <2>1, <2>2 DEF IsDone, Authenticates
<1>5. CASE req.method = "pair" /\ answer.code = "ok"
  <2>1. Issue(a) /\ answer.token = TokenBytes[nextToken] /\ Done(req, nextToken)
    BY <1>0, <1>5, CarryOutCases
  <2>2. nextToken \in Tokens /\ nextToken < nextToken' /\ issuedBy'[nextToken] = a
    BY <2>1, ControllerAssumption DEF Issue, Ledger, Tokens, ControllerAssumption
  <2> QED
    BY <1>1, <1>5, <2>1, <2>2 DEF IsDone, Ends
<1> QED
  BY <1>0, <1>2, <1>3, <1>4, <1>5, CarryOutCases

-----------------------------------------------------------------------------
(* The steps.                                                                *)

LEMMA BrowsedAddr ==
  ASSUME adverts \subseteq AllAdverts, NEW e \in Browse
  PROVE  e.addr \in Addrs
<1>1. PICK r \in adverts : e \in Found[r]
  BY DEF Browse
<1>2. r \in AllAdverts
  BY <1>1
<1>3. e.addr = r.addr
  BY <1>1, <1>2 DEF Found
<1>4. r.addr \in Addrs
  <2>1. \A a \in Agents, x \in Addrs : Advert(a, x).addr = x
    BY DEF Advert
  <2>2. r \in Strays \/ \E a \in Agents, x \in Addrs : r = Advert(a, x)
    BY <1>2 DEF AllAdverts
  <2> QED
    BY <2>1, <2>2, ControllerAssumption DEF ControllerAssumption
<1> QED
  BY <1>3, <1>4

\* An agent that appears somewhere keeps the others where they are.
LEMMA AppearNetwork ==
  ASSUME Network, NEW a \in Agents, NEW x \in Addrs, Appear(a, x)
  PROVE  /\ home' \in [Addrs -> Agents \cup {None}]
         /\ adverts' \subseteq AllAdverts
         /\ \A b \in Agents : Up(b) => Up(b)'
<1>1. home' \in [Addrs -> Agents \cup {None}]
  BY DEF Appear, Network
<1>2. adverts' \subseteq AllAdverts
  BY DEF Appear, Network, AllAdverts
<1>3. ASSUME NEW b \in Agents, Up(b) PROVE Up(b)'
  <2>0. None \notin Agents
    BY ControllerAssumption DEF ControllerAssumption
  <2>1. CASE b = a
    BY <2>1 DEF Appear, Up
  <2>2. CASE b # a
    <3>1. PICK y \in Addrs : home[y] = b
      BY <1>3 DEF Up
    <3>2. y # x /\ home'[y] = b
      BY <2>0, <2>2, <3>1 DEF Appear
    <3> QED
      BY <3>2 DEF Up
  <2> QED
    BY <2>1, <2>2
<1> QED
  BY <1>1, <1>2, <1>3

LEMMA MoveStep ==
  ASSUME ControllerInv, NEW a \in Agents, NEW x \in Addrs, Move(a, x)
  PROVE  ControllerInv'
<1>1. LedgerStep /\ done \subseteq done'
  BY DEF Move, agentVars, tokenVars, LedgerStep, EntryStep, FileStep
<1>2. Network' /\ Running'
  <2>1. Appear(a, x) /\ UNCHANGED <<call, orphans, heard>>
    BY DEF Move, callVars
  <2>2. Network /\ Running /\ Called
    BY DEF ControllerInv
  <2>3. Network'
    BY <2>1, <2>2, AppearNetwork DEF Network, AllAdverts
  <2>4. call # None /\ call.phase \in {"request", "prompt", "response"} => call.agent \in Agents
    BY <2>2 DEF Called
  <2>5. call # None /\ call.phase \in {"request", "prompt", "response"} => Up(call.agent)'
    BY <2>1, <2>2, <2>4, AppearNetwork DEF Running
  <2> QED
    BY <2>1, <2>3, <2>5 DEF Running, Up
<1> QED
  BY <1>1, <1>2, FrameStays DEF Move, keptVars, callVars, ControllerInv

\* A program that starts has no request under way, and what was known of it is
\* forgotten.
LEMMA StartStep ==
  ASSUME ControllerInv, NEW a \in Agents, NEW x \in Addrs, Start(a, x)
  PROVE  ControllerInv'
<1>0. Ledger /\ Screened /\ Kept /\ Called /\ Told /\ Gone /\ Heard /\ Network /\ Running
  BY DEF ControllerInv
<1>1. /\ Appear(a, x) /\ ~Up(a)
      /\ entry' = [entry EXCEPT ![a] = file[a]]
      /\ gone' = [gone EXCEPT ![a] = {}]
      /\ UNCHANGED <<file, nextToken, issuedBy, done, screen, stored, client, call, orphans,
                     outcome, heard>>
  BY DEF Start, tokenVars, keptVars
<1>2. /\ Ledger' /\ TokensStay /\ done \subseteq done'
      /\ \A b \in Agents : b # a => entry'[b] = entry[b]
  BY <1>0, <1>1, StartLedger
<1>3. Screened'
  BY <1>0, <1>1 DEF Screened, PayloadOf
<1>4. Kept'
  BY <1>0, <1>1, <1>2, OwnsStays DEF Kept
<1>5. Called'
  <2> SUFFICES ASSUME call # None PROVE Called'
    BY <1>1 DEF Called
  <2>1. ASSUME call.phase \in {"response", "late"}
        PROVE  Answered'
    <3>1. call.agent \in Agents /\ Answered
      BY <1>0, <2>1 DEF Called
    <3>2. call.answer.code = "ok" => IsDone(call.no, call.method, call.fp, call.answer.token)'
      BY <1>1, <1>2, <3>1, DoneStays DEF Answered
    <3>3. call.phase = "response" => entry'[call.agent] = entry[call.agent]
      BY <1>0, <1>1, <1>2, <3>1 DEF Running
    <3> QED
      BY <1>1, <3>1, <3>2, <3>3 DEF Answered, Answers, Ends, Authenticates, IsDone
  <2>2. Bound(call.fp, call.token)'
    BY <1>0, <1>1, <1>2, OwnsStays DEF Called
  <2>3. call.phase # "dial" => Owns(call.agent, call.token)'
    BY <1>0, <1>1, <1>2, OwnsStays DEF Called
  <2> QED
    BY <1>0, <1>1, <2>1, <2>2, <2>3 DEF Called
<1>6. Told'
  BY <1>0, <1>1 DEF Told, IsDone
<1>7. Gone'
  <2>1. DOMAIN gone' = Agents /\ gone'[a] = {}
        /\ \A b \in Agents : b # a => gone'[b] = gone[b]
    BY <1>0, <1>1 DEF Gone
  <2>2. \A b \in Agents : \A token \in gone'[b] : Owns(b, token)' /\ ~Authenticates(b, token)'
    BY <1>0, <1>2, <2>1, OwnsStays DEF Gone, Authenticates
  <2> QED
    BY <2>1, <2>2 DEF Gone
<1>8. Heard'
  BY <1>0, <1>1, <1>2, OwnsStays DEF Heard
<1>9. Network'
  BY <1>0, <1>1, AppearNetwork DEF Network, AllAdverts
<1>10. Running'
  <2>1. call # None /\ call.phase \in {"request", "prompt", "response"} => call.agent \in Agents
    BY <1>0 DEF Called
  <2>2. call # None /\ call.phase \in {"request", "prompt", "response"} => Up(call.agent)'
    BY <1>0, <1>1, <2>1, AppearNetwork DEF Running
  <2> QED
    BY <1>1, <2>2 DEF Running, Up
<1> QED
  BY <1>2, <1>3, <1>4, <1>5, <1>6, <1>7, <1>8, <1>9, <1>10 DEF ControllerInv

\* A program that ends takes its requests with it; an answer it has sent no
\* longer tells what its next run will know.
LEMMA StopStep ==
  ASSUME ControllerInv, NEW a \in Agents, Stop(a)
  PROVE  ControllerInv'
<1>1. LedgerStep /\ done \subseteq done'
  BY DEF Stop, tokenVars, LedgerStep, EntryStep, FileStep, Remove
<1>2. Ledger' /\ TokensStay
  BY <1>1, LedgerGrows DEF ControllerInv
<1>3. /\ Called /\ Network /\ Running /\ None \notin Agents
  BY ControllerAssumption DEF ControllerInv, ControllerAssumption
<1>4. Called'
  <2> SUFFICES ASSUME call' # None PROVE Called'
    BY DEF Called
  <2>1. call # None
    BY DEF Stop
  <2>2. CASE call.agent # a
    <3>1. call' = call
      BY <2>2 DEF Stop
    <3> QED
      BY <1>1, <3>1, FrameStays
  <2>3. CASE call.agent = a
    <3>1. /\ DOMAIN call = CallFields /\ call.addr \in Addrs
          /\ Bound(call.fp, call.token) /\ FP[a] = call.fp /\ Owns(a, call.token)
          /\ call.phase \in {"response", "late"} => Answered
      BY <1>3, <2>1, <2>3 DEF Called
    <3>2. /\ DOMAIN call' = CallFields
          /\ call'.no = call.no /\ call'.method = call.method /\ call'.addr = call.addr
          /\ call'.fp = call.fp /\ call'.token = call.token /\ call'.agent = a
          /\ call'.answer = call.answer
          /\ call'.phase = IF call.phase \in {"response", "late"} THEN "late" ELSE "cut"
      BY <2>1, <2>3, <3>1 DEF Stop, CallFields
    <3>3. Bound(call.fp, call.token)' /\ Owns(a, call.token)'
      BY <1>2, <3>1, <3>2, OwnsStays
    <3>4. call'.phase = "late" => Answered'
      BY <1>1, <1>2, <3>1, <3>2, DoneStays DEF Answered, Answers
    <3> QED
      BY <3>1, <3>2, <3>3, <3>4 DEF Called, CallPhases
  <2> QED
    BY <2>2, <2>3
<1>5. Network'
  BY <1>3 DEF Stop, Network, AllAdverts
<1>6. Running'
  <2> SUFFICES ASSUME call' # None, call'.phase \in {"request", "prompt", "response"}
               PROVE  Up(call.agent)'
    BY DEF Running
  <2>1. call # None
    BY DEF Stop
  <2>2. call.agent # a /\ call' = call
    <3>1. ASSUME call.agent = a
          PROVE  call'.phase \in {"late", "cut"}
      BY <1>3, <2>1, <3>1 DEF Stop, Called, CallFields
    <3>2. call.agent # a
      BY <3>1
    <3> QED
      BY <3>2 DEF Stop
  <2>3. call.agent \in Agents /\ Up(call.agent)
    BY <1>3, <2>1, <2>2 DEF Called, Running
  <2>4. PICK x \in Addrs : home[x] = call.agent
    BY <2>3 DEF Up
  <2>5. home'[x] = call.agent
    BY <2>2, <2>4 DEF Stop
  <2> QED
    BY <2>2, <2>5 DEF Up
<1> QED
  BY <1>1, <1>4, <1>5, <1>6, FrameStays DEF Stop, tokenVars, keptVars, ControllerInv

LEMMA ExpireStep ==
  ASSUME ControllerInv, NEW r, Expire(r)
  PROVE  ControllerInv'
<1>1. LedgerStep /\ done \subseteq done'
  BY DEF Expire, agentVars, tokenVars, LedgerStep, EntryStep, FileStep
<1>2. Network'
  BY DEF Expire, callVars, ControllerInv, Network, AllAdverts
<1> QED
  BY <1>1, <1>2, FrameStays DEF Expire, keptVars, callVars, ControllerInv

LEMMA ShowStep ==
  ASSUME ControllerInv, NEW a \in Agents, NEW x \in Addrs, ShowQR(a, x)
  PROVE  ControllerInv'
<1>0. PICK err \in BOOLEAN :
        /\ Persist(a, err)
        /\ screen' = IF err THEN screen ELSE PayloadOf(a, x, nextToken)
  BY DEF ShowQR
<1>1. LedgerStep /\ done \subseteq done'
  BY <1>0, PersistFile DEF ShowQR, LedgerStep, EntryStep
<1>2. Screened'
  <2>1. nextToken \in Tokens /\ nextToken < nextToken' /\ issuedBy'[nextToken] = a
    BY ControllerAssumption
    DEF ShowQR, Issue, ControllerInv, Ledger, Tokens, ControllerAssumption
  <2>2. CASE err
    BY <1>0, <1>1, <2>2, FrameStays
  <2>3. CASE ~err
    BY <1>0, <2>1, <2>3 DEF Screened, PayloadOf
  <2> QED
    BY <2>2, <2>3
<1> QED
  BY <1>1, <1>2, FrameStays DEF ShowQR, netVars, callVars, ControllerInv

LEMMA ScanStep ==
  ASSUME ControllerInv, Scan
  PROVE  ControllerInv'
<1>1. LedgerStep /\ done \subseteq done'
  BY DEF Scan, agentVars, tokenVars, LedgerStep, EntryStep, FileStep
<1>2. PICK a \in Agents, x \in Addrs, t \in Tokens :
        t < nextToken /\ issuedBy[t] = a /\ screen = PayloadOf(a, x, t)
  BY DEF Scan, ControllerInv, Screened
<1>3. ASSUME UNCHANGED <<client, stored>>
      PROVE  Kept'
  BY <1>1, <1>3, FrameStays
<1>4. ASSUME NEW p, p \in UNION Readings[screen], ValidFP(p.fp),
             client' \in New([ip |-> p.ip, port |-> p.port], p.fp, p.token),
             stored' = [id |-> p.id, fp |-> p.fp, token |-> p.token]
      PROVE  Kept'
  <2>1. /\ p.ip = x.ip /\ p.port = x.port
        /\ p.fp = FP[a]
        /\ p.token = TokenBytes[t] \/ Broken(p.token)
    BY <1>2, <1>4, ScanReads
  <2>2. [ip |-> p.ip, port |-> p.port] = x
    BY <2>1, ControllerAssumption DEF ControllerAssumption, Address
  <2>3. Owns(a, p.token)
    BY <1>2, <2>1 DEF Owns, Issued, Broken
  <2>4. Bound(p.fp, p.token)'
    <3>1. Len(p.fp) = fpLength
      BY <1>4 DEF ValidFP
    <3>2. Bound(p.fp, p.token)
      BY <2>1, <2>3, <3>1 DEF Bound
    <3> QED
      BY <1>1, <3>2, LedgerGrows, OwnsStays DEF ControllerInv
  <2>5. client' = [addr |-> x, fp |-> p.fp, token |-> p.token]
    BY <1>4, <2>2 DEF New
  <2> QED
    BY <1>4, <2>1, <2>4, <2>5 DEF Kept
<1>5. Kept'
  <2>1. PICK decoded \in Readings[screen] :
          \/ UNCHANGED <<client, stored>>
          \/ \E p \in {q \in decoded : ValidFP(q.fp)} :
               /\ client' \in New([ip |-> p.ip, port |-> p.port], p.fp, p.token)
               /\ stored' = [id |-> p.id, fp |-> p.fp, token |-> p.token]
    BY Zenon DEF Scan
  <2> QED
    BY <1>3, <1>4, <2>1
<1> QED
  BY <1>1, <1>5, FrameStays DEF Scan, netVars, callVars, ControllerInv, Screened

LEMMA RelocateStep ==
  ASSUME ControllerInv, Relocate
  PROVE  ControllerInv'
<1>1. LedgerStep /\ done \subseteq done'
  BY DEF Relocate, agentVars, tokenVars, LedgerStep, EntryStep, FileStep
<1>2. PICK e \in Browse : client' \in New(e.addr, stored.fp, stored.token)
  BY DEF Relocate
<1>3. e.addr \in Addrs
  BY <1>2, BrowsedAddr DEF ControllerInv, Network
<1>4. client' = [addr |-> e.addr, fp |-> stored.fp, token |-> stored.token]
  BY <1>2 DEF New
<1>5. stored # None /\ Bound(stored.fp, stored.token)
  BY DEF Relocate, ControllerInv, Kept
<1>6. Kept'
  <2>1. Bound(stored.fp, stored.token)'
    <3>1. UNCHANGED stored
      BY DEF Relocate
    <3> QED
      BY <1>1, <1>5, <3>1, LedgerGrows, OwnsStays DEF ControllerInv
  <2> QED
    BY <1>3, <1>4, <1>5, <2>1 DEF Relocate, ControllerInv, Kept
<1> QED
  BY <1>1, <1>6, FrameStays DEF Relocate, netVars, callVars, ControllerInv

LEMMA BeginStep ==
  ASSUME ControllerInv, NEW method, NEW id, NEW c, c.addr \in Addrs, Bound(c.fp, c.token),
         Begin(method, id, c)
  PROVE  ControllerInv'
<1>1. LedgerStep /\ done \subseteq done'
  BY DEF Begin, agentVars, tokenVars, LedgerStep, EntryStep, FileStep
<1>2. /\ DOMAIN call' = CallFields
      /\ call'.addr = c.addr /\ call'.fp = c.fp /\ call'.token = c.token
      /\ call'.phase = "dial" /\ call'.agent = None
  BY DEF Begin, CallFields
<1>3. Called'
  <2>1. Bound(c.fp, c.token)'
    BY <1>1, LedgerGrows, OwnsStays DEF ControllerInv
  <2>2. Bound(call.fp, call.token)'
    BY <1>2, <2>1
  <2> QED
    BY <1>2, <2>2 DEF Called, CallPhases
<1>4. Told' /\ Running'
  BY <1>2 DEF Begin, Told, Running
<1> QED
  BY <1>1, <1>3, <1>4, FrameStays DEF Begin, netVars, keptVars, ControllerInv

LEMMA PairWithPINStep ==
  ASSUME ControllerInv, PairWithPIN
  PROVE  ControllerInv'
<1>1. PICK e \in Browse : \E c \in New(e.addr, e.txt.fp, <<>>) : Begin("pair", e.txt.id, c)
  BY DEF PairWithPIN
<1>2. PICK c \in New(e.addr, e.txt.fp, <<>>) : Begin("pair", e.txt.id, c)
  BY <1>1
<1>3. e.addr \in Addrs
  BY <1>1, BrowsedAddr DEF ControllerInv, Network
<1>4. c.addr = e.addr /\ c.token = <<>> /\ Len(c.fp) = fpLength
  BY <1>2 DEF New, ValidFP
<1>5. Bound(c.fp, c.token)
  BY <1>4, BrokenTokens DEF Bound
<1> QED
  BY <1>2, <1>3, <1>4, <1>5, BeginStep

\* A call that has failed tells nothing.
LEMMA FailedStep ==
  ASSUME ControllerInv, Finish("failed", <<>>)
  PROVE  Called' /\ Told' /\ Running' /\ UNCHANGED gone
<1>1. outcome'.result = "failed"
  BY DEF Finish
<1> QED
  BY <1>1 DEF Finish, Called, Told, Running, Ends, Outcomes

\* A connection that is verified is with the agent the token belongs to.
LEMMA ConnectStep ==
  ASSUME ControllerInv, Connect
  PROVE  ControllerInv'
<1> DEFINE a == home[call.addr]
<1>1. LedgerStep /\ done \subseteq done'
  BY DEF Connect, agentVars, tokenVars, LedgerStep, EntryStep, FileStep
<1>2. CASE Finish("failed", <<>>) /\ UNCHANGED heard
  BY <1>1, <1>2, FailedStep, FrameStays DEF Connect, netVars, keptVars, ControllerInv
<1>3. CASE /\ a # None /\ PinMatches(a)
           /\ call' = [call EXCEPT !.phase = "request", !.agent = a]
           /\ heard' = [heard EXCEPT ![a] = @ \cup {call.token}]
           /\ UNCHANGED <<outcome, gone>>
  <2>1. /\ call # None /\ DOMAIN call = CallFields /\ call.addr \in Addrs
        /\ Bound(call.fp, call.token)
    BY DEF Connect, InPhase, ControllerInv, Called
  <2>2. a \in Agents /\ FP[a] = call.fp
    BY <1>3, <2>1 DEF PinMatches, ControllerInv, Network
  <2>3. Owns(a, call.token)
    <3>1. CASE Broken(call.token)
      BY <3>1 DEF Owns
    <3>2. ASSUME NEW b \in Agents, call.fp = FP[b], Owns(b, call.token)
          PROVE  Owns(a, call.token)
      BY <2>2, <3>2, FPsDiffer
    <3> QED
      BY <2>1, <3>1, <3>2 DEF Bound
  <2>4. /\ DOMAIN call' = CallFields
        /\ call'.addr = call.addr /\ call'.fp = call.fp /\ call'.token = call.token
        /\ call'.phase = "request" /\ call'.agent = a
    BY <1>3, <2>1 DEF CallFields
  <2>5. Called'
    <3>1. Bound(call.fp, call.token)' /\ Owns(call.agent, call.token)'
      BY <1>1, <2>1, <2>3, <2>4, LedgerGrows, OwnsStays DEF ControllerInv
    <3> QED
      BY <2>1, <2>2, <2>4, <3>1 DEF Called, CallPhases
  <2>6. Heard'
    <3>1. UNCHANGED <<nextToken, issuedBy>>
      BY DEF Connect, agentVars, tokenVars
    <3>2. \A b \in Agents : heard'[b] \subseteq heard[b] \cup (IF b = a THEN {call.token} ELSE {})
      BY <1>3 DEF ControllerInv, Network
    <3>3. \A b \in Agents : \A token \in heard'[b] : Owns(b, token)
      BY <2>3, <3>2 DEF ControllerInv, Heard
    <3> QED
      BY <3>1, <3>3 DEF Heard, Owns, Issued
  <2>7. Network'
    BY <1>3 DEF Connect, netVars, ControllerInv, Network, AllAdverts
  <2>8. Running'
    <3>1. home[call.addr] = a /\ UNCHANGED home
      BY DEF Connect, netVars
    <3>2. Up(call.agent)'
      BY <2>1, <2>4, <3>1 DEF Up
    <3> QED
      BY <3>2 DEF Running
  <2> QED
    BY <1>1, <1>3, <2>5, <2>6, <2>7, <2>8, FrameStays DEF Connect, keptVars, ControllerInv
<1> QED
  BY <1>2, <1>3 DEF Connect

\* The call in progress, while its agent has the request.
LEMMA Requested ==
  ASSUME ControllerInv, InPhase("request") \/ InPhase("prompt")
  PROVE  /\ call # None /\ DOMAIN call = CallFields
         /\ call.addr \in Addrs /\ Bound(call.fp, call.token)
         /\ call.agent \in Agents /\ FP[call.agent] = call.fp
         /\ Owns(call.agent, call.token) /\ Up(call.agent)
         /\ Request.agent = call.agent /\ Request.method = call.method
         /\ Request.token = call.token /\ Request.no = call.no
         /\ Request.phase = call.phase
BY DEF InPhase, ControllerInv, Called, Running, Request

\* The answer is on its way.
LEMMA AnswerStep ==
  ASSUME ControllerInv, InPhase("request") \/ InPhase("prompt"),
         LedgerStep, done \subseteq done', UNCHANGED home,
         NEW answer \in Answers,
         call' = [call EXCEPT !.phase = "response", !.answer = answer],
         answer.code = "ok" => IsDone(call.no, call.method, call.fp, answer.token)',
         Ends(call.method, answer.code) => ~Authenticates(call.agent, call.token)'
  PROVE  Called' /\ Running'
<1>1. /\ DOMAIN call' = CallFields
      /\ call'.no = call.no /\ call'.method = call.method /\ call'.addr = call.addr
      /\ call'.fp = call.fp /\ call'.token = call.token /\ call'.agent = call.agent
      /\ call'.phase = "response" /\ call'.answer = answer
  BY Requested DEF CallFields
<1>2. Bound(call.fp, call.token)' /\ Owns(call.agent, call.token)'
  BY <1>1, Requested, LedgerGrows, OwnsStays DEF ControllerInv
<1>3. Answered'
  BY <1>1 DEF Answered, Answers
<1>4. Up(call.agent)'
  BY <1>1, Requested DEF Up
<1> QED
  BY <1>1, <1>2, <1>3, <1>4, Requested DEF Called, CallPhases, Running

LEMMA AdmitStep ==
  ASSUME ControllerInv, Admit
  PROVE  ControllerInv'
<1>1. /\ LedgerStep /\ done \subseteq done' /\ InPhase("request")
      /\ UNCHANGED <<entry, file, nextToken, issuedBy, done>>
      /\ UNCHANGED <<home, adverts, screen, stored, client, orphans, outcome, heard, gone>>
  BY DEF Admit, agentVars, tokenVars, netVars, keptVars, LedgerStep, EntryStep, FileStep
<1>2. CASE call' = [call EXCEPT !.phase = "prompt"]
  <2>1. /\ DOMAIN call' = CallFields
        /\ call'.addr = call.addr /\ call'.fp = call.fp /\ call'.token = call.token
        /\ call'.agent = call.agent /\ call'.phase = "prompt"
    BY <1>1, <1>2, Requested DEF CallFields
  <2>2. Bound(call.fp, call.token)' /\ Owns(call.agent, call.token)' /\ Up(call.agent)'
    BY <1>1, <2>1, Requested, LedgerGrows, OwnsStays DEF ControllerInv, Up
  <2>3. Called' /\ Running'
    BY <1>1, <2>1, <2>2, Requested DEF Called, CallPhases, Running
  <2> QED
    BY <1>1, <2>3, FrameStays DEF ControllerInv
<1>3. ASSUME NEW answer \in Answers, TurnsAway(Request, answer),
             call' = [call EXCEPT !.phase = "response", !.answer = answer]
      PROVE  ControllerInv'
  <2>1. answer.code # "ok"
    BY <1>3 DEF TurnsAway, Answer
  <2>2. Ends(call.method, answer.code) => ~Authenticates(call.agent, call.token)
    BY <1>1, <1>3, Requested DEF TurnsAway, Admits, Answer, Ends
  <2>3. Ends(call.method, answer.code) => ~Authenticates(call.agent, call.token)'
    <3>1. /\ DOMAIN call' = CallFields /\ call'.agent = call.agent /\ call'.token = call.token
          /\ call'.method = call.method
      BY <1>1, <1>3, Requested DEF CallFields
    <3> QED
      BY <1>1, <2>2, <3>1 DEF Authenticates
  <2>4. Called' /\ Running'
    BY <1>1, <1>3, <2>1, <2>3, AnswerStep
  <2> QED
    BY <1>1, <2>4, FrameStays DEF ControllerInv
<1> QED
  BY <1>2, <1>3 DEF Admit

LEMMA ServeStep ==
  ASSUME ControllerInv, Serve
  PROVE  ControllerInv'
<1>1. PICK answer \in Answers :
        /\ CarryOut(Request, answer)
        /\ call' = [call EXCEPT !.phase = "response", !.answer = answer]
  BY DEF Serve
<1>2. /\ InPhase("prompt")
      /\ UNCHANGED <<home, adverts, screen, stored, client, orphans, outcome, heard, gone>>
  BY DEF Serve, netVars, keptVars
<1>3. LedgerStep /\ done \subseteq done'
  BY <1>1, <1>2, Requested, CarryOutLedger
<1>4. /\ answer.code = "ok" => IsDone(call.no, call.method, call.fp, answer.token)'
      /\ Ends(call.method, answer.code) => ~Authenticates(call.agent, call.token)'
  <2>1. ASSUME NEW req, req = Request
        PROVE  /\ answer.code = "ok" => IsDone(req.no, req.method, FP[req.agent], answer.token)'
               /\ Ends(req.method, answer.code) => ~Authenticates(req.agent, req.token)'
    BY <1>1, <1>2, <2>1, Requested, CarryOutAnswers DEF ControllerInv
  <2>2. \A no, method, fp, token, a :
          /\ no = call.no /\ method = call.method /\ fp = call.fp /\ token = call.token
          /\ a = call.agent
          => /\ answer.code = "ok" => IsDone(no, method, fp, answer.token)'
             /\ Ends(method, answer.code) => ~Authenticates(a, token)'
    BY <1>2, <2>1, Requested
  <2>3. /\ call'.no = call.no /\ call'.method = call.method /\ call'.fp = call.fp
        /\ call'.token = call.token /\ call'.agent = call.agent
    BY <1>1, <1>2, Requested DEF CallFields
  <2> QED
    BY <2>2, <2>3
<1>5. Called' /\ Running'
  BY <1>1, <1>2, <1>3, <1>4, AnswerStep
<1> QED
  BY <1>2, <1>3, <1>5, FrameStays DEF ControllerInv

LEMMA ServeOrphanStep ==
  ASSUME ControllerInv, ServeOrphan
  PROVE  ControllerInv'
<1>1. /\ UNCHANGED <<home, adverts, screen, stored, client, call, outcome, heard, gone>>
      /\ \A req \in orphans : req.agent \in Agents
  BY DEF ServeOrphan, netVars, keptVars, ControllerInv, Network
<1>2. PICK req \in orphans :
        \/ orphans' = orphans \ {req} /\ UNCHANGED agentVars
        \/ /\ req.phase = "request"
           /\ orphans' = (orphans \ {req}) \cup {[req EXCEPT !.phase = "prompt"]}
           /\ UNCHANGED agentVars
        \/ orphans' = orphans \ {req} /\ \E answer \in Answers : CarryOut(req, answer)
  BY DEF ServeOrphan
<1>3. LedgerStep /\ done \subseteq done'
  <2>1. CASE UNCHANGED agentVars
    BY <2>1 DEF agentVars, tokenVars, LedgerStep, EntryStep, FileStep
  <2>2. CASE \E answer \in Answers : CarryOut(req, answer)
    BY <1>1, <2>2, CarryOutLedger
  <2> QED
    BY <1>2, <2>1, <2>2
<1>4. \A r \in orphans' : /\ DOMAIN r = {"no", "method", "token", "agent", "phase"}
                          /\ r.agent \in Agents /\ r.phase \in {"request", "prompt"}
  <2>1. /\ DOMAIN req = {"no", "method", "token", "agent", "phase"} /\ req.agent \in Agents
        /\ \A r \in orphans : /\ DOMAIN r = {"no", "method", "token", "agent", "phase"}
                             /\ r.agent \in Agents /\ r.phase \in {"request", "prompt"}
    BY DEF ControllerInv, Network
  <2>2. /\ DOMAIN [req EXCEPT !.phase = "prompt"] = {"no", "method", "token", "agent", "phase"}
        /\ [req EXCEPT !.phase = "prompt"].agent = req.agent
        /\ [req EXCEPT !.phase = "prompt"].phase = "prompt"
    BY <2>1
  <2>3. ASSUME NEW r \in orphans'
        PROVE  r \in orphans \/ r = [req EXCEPT !.phase = "prompt"]
    BY <1>2, <2>3
  <2> QED
    BY <2>1, <2>2, <2>3
<1>5. Network'
  BY <1>1, <1>4 DEF ControllerInv, Network, AllAdverts
<1> QED
  BY <1>1, <1>3, <1>5, FrameStays DEF ControllerInv

LEMMA GiveUpStep ==
  ASSUME ControllerInv, GiveUp
  PROVE  ControllerInv'
<1>1. LedgerStep /\ done \subseteq done'
  BY DEF GiveUp, agentVars, tokenVars, LedgerStep, EntryStep, FileStep
<1>2. Called' /\ Told' /\ Running' /\ UNCHANGED gone
  BY FailedStep DEF GiveUp
<1>3. Network'
  <2>1. call.phase \in {"request", "prompt"} =>
          /\ DOMAIN Request = {"no", "method", "token", "agent", "phase"}
          /\ Request.agent \in Agents /\ Request.phase \in {"request", "prompt"}
    BY DEF GiveUp, Request, ControllerInv, Called
  <2> QED
    BY <2>1 DEF GiveUp, netVars, ControllerInv, Network, AllAdverts
<1> QED
  BY <1>1, <1>2, <1>3, FrameStays DEF GiveUp, netVars, keptVars, ControllerInv

\* What is returned is what was answered, or says less.
LEMMA ReceiveStep ==
  ASSUME ControllerInv, Receive
  PROVE  ControllerInv'
<1>1. /\ LedgerStep /\ done \subseteq done'
      /\ UNCHANGED <<entry, nextToken, issuedBy, done>>
  BY DEF Receive, agentVars, tokenVars, LedgerStep, EntryStep, FileStep
<1>2. PICK body \in {"whole", "part", "empty"} :
        Finish(Result(call.answer, body), IF body = "whole" THEN call.answer.token ELSE <<>>)
  BY DEF Receive
<1>3. /\ call # None /\ call.agent \in Agents /\ Owns(call.agent, call.token) /\ Answered
  BY DEF Receive, InPhase, ControllerInv, Called
<1>4. call.answer.code \in {"ok", "unauthorized", "refused", "internal"}
  BY <1>3 DEF Answered, Answers, Answer
<1> DEFINE result == Result(call.answer, body)
           token == IF body = "whole" THEN call.answer.token ELSE <<>>
<1>5. /\ result \in Outcomes
      /\ result = "ok" => call.answer.code = "ok"
      /\ result = "unauthorized" => call.answer.code = "unauthorized"
  BY <1>4 DEF Result, apiError, Outcomes
<1>6. result = "ok" => IsDone(call.no, call.method, call.fp, token)
  BY <1>3, <1>5 DEF Answered, IsDone
<1>7. call.phase = "response" /\ Ends(call.method, result) =>
        ~Authenticates(call.agent, call.token)
  BY <1>3, <1>5 DEF Answered, Ends
<1>8. /\ outcome'.no = call.no /\ outcome'.method = call.method /\ outcome'.fp = call.fp
      /\ outcome'.result = result /\ outcome'.token = token
      /\ gone' = IF call.phase = "response" /\ Ends(call.method, result)
                 THEN [gone EXCEPT ![call.agent] = @ \cup {call.token}]
                 ELSE gone
  BY <1>2 DEF Finish
<1> HIDE DEF result, token
<1>9. Told'
  BY <1>1, <1>5, <1>6, <1>8 DEF Told, IsDone
<1>10. Gone'
  <2>1. \A a \in Agents : \A b \in gone'[a] : Owns(a, b) /\ ~Authenticates(a, b)
    BY <1>3, <1>7, <1>8 DEF ControllerInv, Gone
  <2>2. DOMAIN gone' = Agents
    BY <1>8 DEF ControllerInv, Gone
  <2> QED
    BY <1>1, <2>1, <2>2 DEF Gone, Owns, Issued, Authenticates
<1>11. Called' /\ Running'
  BY <1>2 DEF Finish, Called, Running
<1> QED
  BY <1>1, <1>9, <1>10, <1>11, FrameStays DEF Receive, netVars, keptVars, ControllerInv

LEMMA KeepStep ==
  ASSUME ControllerInv, Keep
  PROVE  ControllerInv'
<1>1. LedgerStep /\ done \subseteq done'
  BY DEF Keep, agentVars, tokenVars, LedgerStep, EntryStep, FileStep
<1>2. PICK a \in Agents : FP[a] = outcome.fp /\ Owns(a, outcome.token)
  BY BrokenTokens DEF Keep, ControllerInv, Told, IsDone, Owns, Issued
<1>3. stored'.fp = outcome.fp /\ stored'.token = outcome.token /\ Len(FP[a]) = fpLength
  BY ControllerAssumption DEF Keep, ControllerAssumption
<1>4. Bound(stored.fp, stored.token)'
  <2>1. Bound(outcome.fp, outcome.token)
    BY <1>2, <1>3 DEF Bound
  <2>2. \A fp, token : fp = outcome.fp /\ token = outcome.token => Bound(fp, token)'
    BY <1>1, <2>1, LedgerGrows, OwnsStays DEF ControllerInv
  <2> QED
    BY <1>3, <2>2
<1>5. Kept'
  <2>1. client # None => client.addr \in Addrs /\ Bound(client.fp, client.token)'
    BY <1>1, LedgerGrows, OwnsStays DEF Keep, ControllerInv, Kept
  <2> QED
    BY <1>2, <1>3, <1>4, <2>1 DEF Keep, Kept
<1>6. Told'
  BY DEF Keep, Told
<1> QED
  BY <1>1, <1>5, <1>6, FrameStays DEF Keep, netVars, ControllerInv

LEMMA RevokeStep ==
  ASSUME ControllerInv, NEW a \in Agents, HostRevoke(a)
  PROVE  ControllerInv'
<1>1. LedgerStep /\ done \subseteq done'
  BY PersistFile DEF HostRevoke, LedgerStep, EntryStep
<1> QED
  BY <1>1, FrameStays DEF HostRevoke, netVars, keptVars, callVars, ControllerInv

-----------------------------------------------------------------------------
(* The invariant, and what it implies.                                       *)

LEMMA ControllerInvInit ==
  ASSUME Init
  PROVE  ControllerInv
<1> USE DEF Init
<1>1. Ledger
  BY ControllerAssumption DEF Ledger, Tokens, ControllerAssumption
<1>2. Screened /\ Kept /\ Called /\ Told /\ Gone /\ Running
  BY DEF Screened, Kept, Called, Told, Gone, Running
<1>3. Heard
  BY DEF Heard
<1>4. Network
  <2>1. home \in [Addrs -> Agents \cup {None}]
    BY ControllerAssumption DEF ControllerAssumption
  <2>2. \A x \in Addrs : home[x] # None => home[x] \in Agents
    BY <2>1
  <2>3. \A x \in Addrs : home[x] # None => Advert(home[x], x) \in AllAdverts
    BY <2>2 DEF AllAdverts
  <2>4. adverts \subseteq AllAdverts
    BY <2>3 DEF AllAdverts
  <2> QED
    BY <2>1, <2>4 DEF Network
<1> QED
  BY <1>1, <1>2, <1>3, <1>4 DEF ControllerInv

LEMMA ControllerInvStep ==
  ASSUME ControllerInv, [Next]_vars
  PROVE  ControllerInv'
<1>1. ASSUME NEW a \in Agents, AgentSide(a) PROVE ControllerInv'
  BY <1>1, RevokeStep, StopStep, StartStep, MoveStep, ShowStep DEF AgentSide
<1>2. ASSUME NEW r \in adverts, Expire(r) PROVE ControllerInv'
  BY <1>2, ExpireStep
<1>3. CASE Pairing
  BY <1>3, ScanStep, PairWithPINStep, KeepStep DEF Pairing
<1>4. CASE Relocate
  BY <1>4, RelocateStep
<1>5. CASE Calling
  <2>1. ASSUME NEW method, client # None, Begin(method, <<>>, client) PROVE ControllerInv'
    BY <2>1, BeginStep DEF ControllerInv, Kept
  <2> QED
    BY <1>5, <2>1, ConnectStep, ReceiveStep, GiveUpStep DEF Calling, Status, Unpair
<1>6. CASE Serving
  BY <1>6, AdmitStep, ServeStep, ServeOrphanStep DEF Serving
<1>7. CASE UNCHANGED vars
  <2>1. LedgerStep /\ done \subseteq done'
    BY <1>7 DEF vars, agentVars, tokenVars, LedgerStep, EntryStep, FileStep
  <2> QED
    BY <1>7, <2>1, FrameStays DEF vars, netVars, keptVars, callVars, ControllerInv
<1> QED
  BY <1>1, <1>2, <1>3, <1>4, <1>5, <1>6, <1>7 DEF Next

LEMMA InvariantHolds ==
  Spec => []ControllerInv
<1>1. Init => ControllerInv
  BY ControllerInvInit
<1>2. ControllerInv /\ [Next]_vars => ControllerInv'
  BY ControllerInvStep
<1> QED
  BY <1>1, <1>2, PTL DEF Spec

\* Every variable keeps its type, and whatever is kept or in use is pinned to
\* a whole fingerprint.
THEOREM ControllerTypeCorrect ==
  Spec => []TypeOK
<1>1. ControllerInv => TypeOK
  <2> SUFFICES ASSUME ControllerInv PROVE TypeOK
    OBVIOUS
  <2>0. /\ Ledger /\ Kept /\ Called /\ Told /\ Heard /\ Network
    BY DEF ControllerInv
  <2>1. client # None => client.addr \in Address
    BY <2>0, ControllerAssumption DEF Kept, ControllerAssumption
  <2>2. \A c \in {client, stored, call} \ {None} : Len(c.fp) = fpLength
    BY <2>0 DEF Kept, Called, Bound
  <2>3. \A a \in Agents : \A b \in heard[a] : Len(b) \in 0..tokenLength
    <3>1. tokenLength \in Nat
      BY ControllerAssumption DEF ControllerAssumption
    <3>2. ASSUME NEW a \in Agents, NEW b \in heard[a]
          PROVE  Len(b) \in 0..(tokenLength - 1) \/ Len(b) = tokenLength
      BY <2>0, TokensDiffer DEF Heard, Owns, Issued, Broken
    <3> QED
      BY <3>1, <3>2
  <2> QED
    BY <2>0, <2>1, <2>2, <2>3 DEF TypeOK, Ledger, Network, Told, Outcomes
<1> QED
  BY <1>1, InvariantHolds, PTL

\* controller.go, VerifyPeerCertificate: however agents move, and whatever
\* stale advertisement a client was built from, a token reaches no agent but
\* the one that issued it.
THEOREM TokensGoHome ==
  Spec => []TokenGoesHome
<1>1. ControllerInv => TokenGoesHome
  BY TokensDiffer DEF ControllerInv, Heard, Owns, Issued, TokenGoesHome
<1> QED
  BY <1>1, InvariantHolds, PTL

\* controller.go, do: nil means that the request of this very call was carried
\* out by the agent whose fingerprint was pinned, and a token PairWithPIN returns
\* is the one that agent issued for it.
THEOREM NilsMeanDone ==
  Spec => []NilMeansDone
<1>1. ControllerInv => NilMeansDone
  <2> SUFFICES ASSUME ControllerInv, outcome # None, outcome.result = "ok"
               PROVE  \E d \in done :
                        /\ d.no = outcome.no /\ d.method = outcome.method
                        /\ FP[d.agent] = outcome.fp
                        /\ outcome.method = "pair" /\ outcome.token # <<>> =>
                             d.token # None /\ outcome.token = TokenBytes[d.token]
    BY DEF NilMeansDone
  <2>1. IsDone(outcome.no, outcome.method, outcome.fp, outcome.token)
    BY DEF ControllerInv, Told
  <2>2. None \notin Tokens
    BY ControllerAssumption DEF ControllerAssumption
  <2> QED
    BY <2>1, <2>2 DEF IsDone
<1> QED
  BY <1>1, InvariantHolds, PTL

\* controller.go, Unpair and do: a token whose un-pairing returned nil, or that a
\* call was told is unauthorized, is no pairing again as long as the agent's
\* program runs, whatever it still serves of earlier attempts.
THEOREM GoneStaysGone ==
  Spec => []GoneIsGone
<1>1. ControllerInv => GoneIsGone
  BY DEF ControllerInv, Gone, GoneIsGone
<1> QED
  BY <1>1, InvariantHolds, PTL

\* payload.go, Encode and Decode: whatever way a payload takes from the screen,
\* what is read is what was shown; and what is pinned in the end is some agent's
\* fingerprint.
THEOREM ScansShowWhatWasShown ==
  Spec => []ScannedIsShown
<1>1. ControllerInv => ScannedIsShown
  BY ScansAreFaithful, BytesSurvive DEF ControllerInv, Kept, ScannedIsShown
<1> QED
  BY <1>1, InvariantHolds, PTL
=============================================================================
