----------------------------- MODULE Controller -----------------------------
(***************************************************************************)
(* controller/controller.go, with pairing/payload.go and discovery/mdns.go *)
(* where it gets its input: one controller pairs with agents by scanning   *)
(* what they show or by PIN, finds them again after they have moved, and   *)
(* calls them over connections pinned to a fingerprint.                    *)
(*                                                                         *)
(* The agents are seen from outside: of a gateway's state there is the     *)
(* token of this controller's entry, in memory and in the store's file; a  *)
(* handler is two steps, with the prompt between them (Gateway and         *)
(* PairingStore have the details).                                         *)
(***************************************************************************)
EXTENDS PairingPayload, TXTRecord

CONSTANTS
  Agents,
  DeviceID, FP, Name,  \* per agent: its device id, fingerprint and name
  Addrs,               \* addresses
  Homes,               \* which agents may be up at first, and where
  Strays,              \* other advertisements, malformed or lying
  fpLength,            \* length of a fingerprint in hexadecimal (64)
  TokenBytes,          \* the results of NewToken, in the order they are drawn
  tokenLength,         \* their length in base64url (43)
  MaxTokens, MaxCalls, \* bounds of the model
  Limits,              \* bounds of the model, one to a behaviour: how many tokens are
                       \* issued, how often agents appear somewhere, stop and fail
                       \* to save, and which take part
  None

Tokens == 0..(MaxTokens - 1)

\* Where a gateway can listen.
MaxPort == 65535
Ports == 1..MaxPort
Address == [ip: Seq(Bytes), port: Ports]

ASSUME ControllerAssumption ==
  /\ DeviceID \in [Agents -> Seq(Bytes)]
  /\ FP \in [Agents -> Seq(Bytes)]
  /\ Name \in [Agents -> Seq(Bytes)]
  /\ \A a \in Agents : /\ Len(FP[a]) = fpLength
                       /\ \A i \in DOMAIN FP[a] : unhex(FP[a][i]) # {}
                       /\ DeviceID[a] # <<>>
  /\ \A a, b \in Agents : a # b => FP[a] # FP[b] /\ DeviceID[a] # DeviceID[b]
  /\ TokenBytes \in [Tokens -> Seq(Bytes)]
  /\ \A t \in Tokens : Len(TokenBytes[t]) = tokenLength
  /\ \A t, u \in Tokens : t # u => TokenBytes[t] # TokenBytes[u]
  /\ Addrs \subseteq Address
  /\ \A x \in Addrs : x.ip # <<>> /\ Head(x.ip) # Open
  /\ Homes \subseteq [Addrs -> Agents \cup {None}]
  /\ None \notin Tokens /\ None \notin Agents
  /\ \A r \in Strays : r.addr \in Addrs
  /\ fpLength \in Nat \ {0}
  /\ tokenLength \in Nat \ {0}
  /\ MaxTokens \in Nat
  /\ MaxCalls \in Nat
  /\ Limits \subseteq [tokens: Nat, moves: Nat, stops: Nat, failures: Nat, agents: SUBSET Agents]

VARIABLES
  home,       \* which agent's gateway listens at an address
  adverts,    \* advertisements browsing returns, stale ones too
  entry,      \* per agent: the token of this controller's entry
  file,       \* per agent: the token of that entry in the store's file
  nextToken,
  screen,     \* the pairing URI on its way from a screen, with its history
  stored,     \* what the controller keeps: id, fp and token
  client,     \* its Client: address, pinned fingerprint and token
  call,       \* the call in progress
  orphans,    \* requests whose caller has given up
  outcome,    \* what the last call returned
  issuedBy,   \* history: the agent that issued each token
  heard,      \* history: the tokens each agent was sent
  done,       \* history: the requests agents have carried out
  gone,       \* history: per agent, the tokens its present program was said not to know
  moves, calls, stops, failures,
  limits      \* the bounds of this behaviour

tokenVars == <<nextToken, issuedBy>>
agentVars == <<entry, file, tokenVars, failures, done>>
callVars == <<call, orphans, outcome, heard, gone, calls>>
keptVars == <<screen, stored, client>>
netVars == <<home, adverts, moves, stops, limits>>
vars == <<netVars, agentVars, keptVars, callVars>>

Outcomes == {"ok", "unauthorized", "internal", "refused", "failed"}

\* Publish: the agent's TXT record, at its present address.
Advert(a, x) ==
  [text |-> EncodeTXT([app |-> None, id |-> DeviceID[a], name |-> Name[a], ver |-> 1,
                       fp |-> FP[a]]),
   addr |-> x]
AllAdverts == Strays \cup {Advert(a, x) : a \in Agents, x \in Addrs}

\* Some agents are up, and nobody is paired.
Init ==
  /\ home \in Homes
  /\ adverts = Strays \cup {Advert(home[x], x) : x \in {y \in Addrs : home[y] # None}}
  /\ entry = [a \in Agents |-> None]
  /\ file = [a \in Agents |-> None]
  /\ nextToken = 0
  /\ screen = None
  /\ stored = None
  /\ client = None
  /\ call = None
  /\ orphans = {}
  /\ outcome = None
  /\ issuedBy = [t \in Tokens |-> None]
  /\ heard = [a \in Agents |-> {}]
  /\ done = {}
  /\ gone = [a \in Agents |-> {}]
  /\ moves = 0
  /\ calls = 0
  /\ stops = 0
  /\ failures = 0
  /\ limits \in Limits

-----------------------------------------------------------------------------
Up(a) == \E x \in Addrs : home[x] = a

\* The agent's program is at a free address now, and advertises; what it
\* advertised before may linger.
Appear(a, x) ==
  /\ home[x] = None
  /\ moves < limits.moves
  /\ moves' = moves + 1
  /\ home' = [y \in Addrs |-> IF y = x THEN a ELSE IF home[y] = a THEN None ELSE home[y]]
  /\ adverts' = adverts \cup {Advert(a, x)}
  /\ UNCHANGED <<stops, limits>>

\* The network gives the host of a running program another address.
Move(a, x) ==
  /\ Up(a)
  /\ Appear(a, x)
  /\ UNCHANGED <<agentVars, keptVars, callVars>>

\* The program starts: OpenStore loads the file.  What was known of the program
\* before it is no longer known.
Start(a, x) ==
  /\ ~Up(a)
  /\ a \in limits.agents
  /\ Appear(a, x)
  /\ entry' = [entry EXCEPT ![a] = file[a]]
  /\ gone' = [gone EXCEPT ![a] = {}]
  /\ UNCHANGED <<file, tokenVars, failures, done, keptVars, call, orphans, outcome, heard,
                 calls>>

\* The program ends, and with it its requests; an answer it has sent may arrive.
Stop(a) ==
  /\ Up(a)
  /\ stops < limits.stops
  /\ stops' = stops + 1
  /\ home' = [x \in Addrs |-> IF home[x] = a THEN None ELSE home[x]]
  /\ entry' = [entry EXCEPT ![a] = None]
  /\ orphans' = {req \in orphans : req.agent # a}
  /\ call' = IF call # None /\ call.agent = a
             THEN [call EXCEPT !.phase = IF @ \in {"response", "late"} THEN "late" ELSE "cut"]
             ELSE call
  /\ UNCHANGED <<adverts, moves, limits, file, tokenVars, failures, done, keptVars, outcome, heard,
                 gone, calls>>

\* A goodbye or an expired record: a stale advertisement goes.
Expire(r) ==
  /\ r \notin Strays
  /\ \A a \in Agents : r = Advert(a, r.addr) => home[r.addr] # a
  /\ adverts' = adverts \ {r}
  /\ UNCHANGED <<home, moves, stops, limits, agentVars, keptVars, callVars>>

-----------------------------------------------------------------------------
\* Store.Pair in memory: the entry is replaced.
Issue(a) ==
  /\ nextToken < MaxTokens /\ nextToken < limits.tokens
  /\ entry' = [entry EXCEPT ![a] = nextToken]
  /\ nextToken' = nextToken + 1
  /\ issuedBy' = [issuedBy EXCEPT ![nextToken] = a]

\* Store.Revoke in memory.
Remove(a) ==
  /\ entry' = [entry EXCEPT ![a] = None]
  /\ UNCHANGED tokenVars

\* persist, with the error it returns.  The file has the new entry then; or it
\* stays, because a step failed or because an older snapshot was renamed after
\* this one (PairingStore).
Persist(a, err) ==
  \/ /\ ~err
     /\ file' = [file EXCEPT ![a] = entry'[a]]
     /\ UNCHANGED failures
  \/ /\ err \in BOOLEAN
     /\ failures < limits.failures
     /\ failures' = failures + 1
     /\ UNCHANGED file

\* The payload of agent a at address x with token t.
PayloadOf(a, x, t) ==
  [ip |-> x.ip, port |-> x.port, id |-> DeviceID[a], name |-> Name[a], app |-> <<>>,
   fp |-> FP[a], token |-> TokenBytes[t]]
Payloads == {PayloadOf(a, x, t) : a \in Agents, x \in Addrs, t \in Tokens}

\* What Decode makes of a payload that was shown and edited on its way.
Scanned == [p \in Payloads |-> [e \in Edits |-> Reread(p, e)]]
Readings == [p \in Payloads |-> {Scanned[p][e] : e \in Edits}]

\* The agent pairs by QR code, and shows the payload unless Pair fails.
ShowQR(a, x) ==
  /\ home[x] = a
  /\ Issue(a)
  /\ \E err \in BOOLEAN :
       /\ Persist(a, err)
       /\ screen' = IF err THEN screen ELSE PayloadOf(a, x, nextToken)
  /\ UNCHANGED <<netVars, done, stored, client, callVars>>

\* Mutant of ValidFP: any hexadecimal string.
ValidFPAnyLength(fp) == \A i \in DOMAIN fp : unhex(fp[i]) # {}

\* pinnedTLS accepts a fingerprint of the right length in hexadecimal.
ValidFP(fp) == Len(fp) = fpLength /\ \A i \in DOMAIN fp : unhex(fp[i]) # {}

New(addr, fp, token) ==
  IF ValidFP(fp) THEN {[addr |-> addr, fp |-> fp, token |-> token]} ELSE {}

\* The controller scans or pastes: Decode, then FromPayload.
Scan ==
  /\ screen # None
  /\ call = None
  /\ screen' = None
  /\ \E decoded \in Readings[screen] :
       LET accepted == {p \in decoded : ValidFP(p.fp)}
       IN  IF accepted = {} THEN UNCHANGED <<client, stored>>
           ELSE \E p \in accepted :
                  /\ client' \in New([ip |-> p.ip, port |-> p.port], p.fp, p.token)
                  /\ stored' = [id |-> p.id, fp |-> p.fp, token |-> p.token]
  /\ UNCHANGED <<netVars, agentVars, callVars>>

\* Browse: the advertisements that parse, in the order they arrive.
Found == [r \in AllAdverts |-> {[txt |-> t, addr |-> r.addr] : t \in DecodeTXT(r.text)}]
Browse == UNION {Found[r] : r \in adverts}

\* FindByDeviceID takes the first entry with the stored id; the controller
\* keeps the fingerprint and the token of the pairing.
Relocate ==
  /\ stored # None
  /\ call = None
  /\ \E e \in Browse : /\ e.txt.id = stored.id
                       /\ client' \in New(e.addr, stored.fp, stored.token)
  /\ UNCHANGED <<netVars, agentVars, screen, stored, callVars>>

-----------------------------------------------------------------------------
\* A call starts: method, the id of the agent it is meant for if that was looked
\* up, where it goes, and how far it is.
Begin(method, id, c) ==
  /\ call = None
  /\ calls < MaxCalls
  /\ calls' = calls + 1
  /\ call' = [no |-> calls, method |-> method, id |-> id, addr |-> c.addr, fp |-> c.fp,
              token |-> c.token, phase |-> "dial", agent |-> None, answer |-> None]
  /\ outcome' = None
  /\ UNCHANGED <<netVars, agentVars, keptVars, orphans, heard, gone>>

\* Status stands for every method but Unpair: what the handlers do is not
\* told apart here.
Status == client # None /\ Begin("status", <<>>, client)
Unpair == client # None /\ Begin("unpair", <<>>, client)

\* PairWithPIN with an agent found by browsing, and its advertised fingerprint.
PairWithPIN ==
  \E e \in Browse : \E c \in New(e.addr, e.txt.fp, <<>>) : Begin("pair", e.txt.id, c)

InPhase(phase) == call # None /\ call.phase = phase

\* An answer with this code tells that the token is no pairing.
Ends(method, code) == code = "unauthorized" \/ (method = "unpair" /\ code = "ok")

\* The call is over; token is what PairWithPIN returns.
Finish(result, token) ==
  /\ call' = None
  /\ outcome' = [no |-> call.no, method |-> call.method, id |-> call.id, fp |-> call.fp,
                 result |-> result, token |-> token]
  /\ gone' = IF call.phase = "response" /\ Ends(call.method, result)
             THEN [gone EXCEPT ![call.agent] = @ \cup {call.token}]
             ELSE gone

\* Mutant of PinMatches: whoever answers is taken for the agent.
PinMatchesAny(a) == TRUE

\* VerifyPeerCertificate.
PinMatches(a) == FP[a] = call.fp

\* do connects; the request goes out only over a verified connection.
Connect ==
  /\ InPhase("dial")
  /\ LET a == home[call.addr]
     IN  IF a # None /\ PinMatches(a)
         THEN /\ call' = [call EXCEPT !.phase = "request", !.agent = a]
              /\ heard' = [heard EXCEPT ![a] = @ \cup {call.token}]
              /\ UNCHANGED <<outcome, gone>>
         ELSE Finish("failed", <<>>) /\ UNCHANGED heard
  /\ UNCHANGED <<netVars, agentVars, keptVars, orphans, calls>>

-----------------------------------------------------------------------------
\* A request as an agent has it.
Request == [no |-> call.no, method |-> call.method, token |-> call.token,
            agent |-> call.agent, phase |-> call.phase]

Authenticates(a, token) == entry[a] # None /\ token = TokenBytes[entry[a]]

Answer(code, token) == [code |-> code, token |-> token]

Answers == {Answer(code, <<>>) : code \in {"ok", "unauthorized", "refused", "internal"}}
           \cup {Answer("ok", TokenBytes[t]) : t \in Tokens}

ASSUME AnswerAssumption == None \notin Answers

\* authWith and handlePair up to the prompt: a request with a token that is no
\* pairing, or with a PIN that is refused, gets its answer at once.
Admits(req) == req.method = "pair" \/ Authenticates(req.agent, req.token)
TurnsAway(req, answer) ==
  \/ req.method = "pair" /\ answer = Answer("refused", <<>>)
  \/ ~Admits(req) /\ answer = Answer("unauthorized", <<>>)

\* A request that has been carried out, with the token that was issued for it.
Done(req, token) ==
  done' = done \cup {[no |-> req.no, method |-> req.method, agent |-> req.agent,
                      token |-> token]}

\* Store.Confirm after the prompt saves the store, if the entry is still there.
Confirm(a) ==
  /\ UNCHANGED <<entry, tokenVars, failures>>
  /\ \/ UNCHANGED file
     \/ entry[a] # None /\ file' = [file EXCEPT ![a] = entry[a]]

\* The handler after the prompt, on an agent whose store may have changed
\* meanwhile: unpairing removes whatever entry the device has by now.
CarryOut(req, answer) ==
  LET a == req.agent
  IN  \/ /\ req.method = "pair"
         /\ answer = Answer("refused", <<>>)
         /\ UNCHANGED <<entry, file, tokenVars, failures, done>>
      \/ /\ req.method = "status"
         /\ Confirm(a)
         /\ \/ answer = Answer("ok", <<>>) /\ Done(req, None)
            \/ answer = Answer("refused", <<>>) /\ UNCHANGED done
      \/ /\ req.method = "unpair"
         /\ entry[a] = None
         /\ answer = Answer("ok", <<>>)
         /\ Done(req, None)
         /\ UNCHANGED <<entry, file, tokenVars, failures>>
      \/ /\ req.method = "unpair"
         /\ entry[a] # None
         /\ Remove(a)
         /\ \/ Persist(a, FALSE) /\ answer = Answer("ok", <<>>) /\ Done(req, None)
            \/ Persist(a, TRUE) /\ answer = Answer("internal", <<>>) /\ UNCHANGED done
      \/ /\ req.method = "pair"
         /\ Issue(a)
         /\ \/ /\ Persist(a, FALSE)
               /\ answer = Answer("ok", TokenBytes[nextToken])
               /\ Done(req, nextToken)
            \/ Persist(a, TRUE) /\ answer = Answer("internal", <<>>) /\ UNCHANGED done

\* The agent takes up the request of the call in progress.
Admit ==
  /\ InPhase("request")
  /\ \/ /\ Admits(Request)
        /\ call' = [call EXCEPT !.phase = "prompt"]
     \/ \E answer \in Answers :
          /\ TurnsAway(Request, answer)
          /\ call' = [call EXCEPT !.phase = "response", !.answer = answer]
  /\ UNCHANGED <<netVars, agentVars, keptVars, orphans, outcome, heard, gone, calls>>

\* The agent finishes it.
Serve ==
  /\ InPhase("prompt")
  /\ \E answer \in Answers :
       /\ CarryOut(Request, answer)
       /\ call' = [call EXCEPT !.phase = "response", !.answer = answer]
  /\ UNCHANGED <<netVars, keptVars, orphans, outcome, heard, gone, calls>>

\* The same for a request whose caller has given up; or it is dropped.
ServeOrphan ==
  /\ \E req \in orphans :
       \/ /\ orphans' = orphans \ {req}
          /\ UNCHANGED agentVars
       \/ /\ req.phase = "request"
          /\ Admits(req)
          /\ orphans' = (orphans \ {req}) \cup {[req EXCEPT !.phase = "prompt"]}
          /\ UNCHANGED agentVars
       \/ /\ req.phase = "prompt"
          /\ orphans' = orphans \ {req}
          /\ \E answer \in Answers : CarryOut(req, answer)
  /\ UNCHANGED <<netVars, keptVars, call, outcome, heard, gone, calls>>

\* The 15 seconds are over, ctx is done, or the connection fails: the request
\* may still be served.
GiveUp ==
  /\ call # None
  /\ Finish("failed", <<>>)
  /\ orphans' = IF call.phase \in {"request", "prompt"} THEN orphans \cup {Request}
                ELSE orphans
  /\ UNCHANGED <<netVars, agentVars, keptVars, heard, calls>>

\* Mutant of apiError: a 4xx answer whose body is lost counts as unauthorized.
apiErrorGuessed(code, body) == IF body = "whole" THEN code ELSE "unauthorized"

\* apiError: without the body the code is not known.
apiError(code, body) == IF body = "whole" THEN code ELSE "internal"

\* Mutant of Result: the status code is not looked at.
ResultUnchecked(answer, body) == IF body = "part" THEN "failed" ELSE "ok"

\* do: an empty body is not decoded, a part of one does not parse, and the
\* error of reading it is not looked at.
Result(answer, body) ==
  IF answer.code # "ok" THEN apiError(answer.code, body)
  ELSE IF body = "part" THEN "failed" ELSE "ok"

\* The answer arrives, its body perhaps cut short.
Receive ==
  /\ InPhase("response") \/ InPhase("late")
  /\ \E body \in {"whole", "part", "empty"} :
       Finish(Result(call.answer, body),
              IF body = "whole" THEN call.answer.token ELSE <<>>)
  /\ UNCHANGED <<netVars, agentVars, keptVars, orphans, heard, calls>>

\* The controller keeps the token PairWithPIN has returned, with the id and
\* the fingerprint it found the agent by.
Keep ==
  /\ outcome # None
  /\ outcome.method = "pair"
  /\ outcome.result = "ok"
  /\ call = None
  /\ stored' = [id |-> outcome.id, fp |-> outcome.fp, token |-> outcome.token]
  /\ outcome' = None
  /\ UNCHANGED <<netVars, agentVars, screen, client, call, orphans, heard, gone, calls>>

\* The user un-pairs the controller on agent a.
HostRevoke(a) ==
  /\ entry[a] # None
  /\ Remove(a)
  /\ \E err \in BOOLEAN : Persist(a, err)
  /\ UNCHANGED <<netVars, done, keptVars, callVars>>
-----------------------------------------------------------------------------
AgentSide(a) ==
  HostRevoke(a) \/ Stop(a) \/ \E x \in Addrs : Start(a, x) \/ Move(a, x) \/ ShowQR(a, x)

Pairing == Scan \/ PairWithPIN \/ Keep

Calling == Status \/ Unpair \/ Connect \/ Receive \/ GiveUp

Serving == Admit \/ Serve \/ ServeOrphan

Next ==
  \/ \E a \in Agents : AgentSide(a)
  \/ \E r \in adverts : Expire(r)
  \/ Pairing \/ Relocate \/ Calling \/ Serving

Spec == Init /\ [][Next]_vars

-----------------------------------------------------------------------------
\* Every variable keeps its type; what is pinned is a whole fingerprint.
TypeOK ==
  /\ home \in [Addrs -> Agents \cup {None}]
  /\ adverts \subseteq AllAdverts
  /\ entry \in [Agents -> Tokens \cup {None}]
  /\ file \in [Agents -> Tokens \cup {None}]
  /\ nextToken \in 0..MaxTokens
  /\ client # None => client.addr \in Address
  /\ \A c \in {client, stored, call} \ {None} : Len(c.fp) = fpLength
  /\ \A req \in orphans : req.agent \in Agents /\ req.phase \in {"request", "prompt"}
  /\ outcome # None => outcome.result \in Outcomes
  /\ \A a \in Agents : \A b \in heard[a] : Len(b) \in 0..tokenLength

\* Section 5.2, "A fingerprint mismatch MUST abort the connection before any
\* request is sent": however agents move and whatever stale advertisement a
\* client was built from, a token reaches no agent but the one that issued it.
TokenGoesHome ==
  \A a \in Agents : \A t \in Tokens : TokenBytes[t] \in heard[a] => issuedBy[t] = a

\* Every payload through every edit.
EveryScan == \A p \in Payloads, e \in Edits : Faithful(p, e, Scanned[p][e])

\* Every byte of a value survives, and no encoded value holds a delimiter that
\* would end it early.
EveryByte ==
  \A c \in Bytes : /\ decodeComponent(encodeComponent(<<c>>)) = {<<c>>}
                   /\ \A d \in Delimiters : ~Has(encodeComponent(<<c>>), d)

\* payload.go, Decode, and section 6.1: what was scanned is what was shown, in
\* whatever order the parameters come and whatever bytes they hold; a URI that
\* has lost a required one is refused; one cut short may change its last value,
\* never another one.  What is pinned in the end is some agent's fingerprint.
ScannedIsShown ==
  /\ EveryScan
  /\ EveryByte
  /\ stored # None => \E a \in Agents : stored.fp = FP[a]

\* controller.go, do: nil means that the request of this very call, not the one
\* of an earlier attempt, was carried out by the agent whose fingerprint was
\* pinned; and a token PairWithPIN returns is the one issued for this call.
NilMeansDone ==
  outcome # None /\ outcome.result = "ok" =>
    \E d \in done :
      /\ d.no = outcome.no
      /\ d.method = outcome.method
      /\ FP[d.agent] = outcome.fp
      /\ outcome.method = "pair" /\ outcome.token # <<>> =>
           d.token # None /\ outcome.token = TokenBytes[d.token]

\* controller.go, PairWithPIN: "It connects over pinned TLS using the discovered
\* fp and returns the issued token."
PairReturnsToken ==
  outcome # None /\ outcome.method = "pair" /\ outcome.result = "ok" => outcome.token # <<>>

\* Section 7.4 and 5.2: after an Unpair that returned nil, or any call that
\* returned "unauthorized", the agent's program never again takes the token it
\* was made with, whatever earlier attempts it serves late; only a program that
\* is started anew may (PairingStore's StoreRetriedRevoke and StoreRaceRevocation).
GoneIsGone ==
  \A a \in Agents : \A token \in gone[a] : ~Authenticates(a, token)
=============================================================================
