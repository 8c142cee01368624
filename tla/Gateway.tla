------------------------------- MODULE Gateway -------------------------------
(***************************************************************************)
(* agent/agent.go: who may reach a hook.  Each request is served by a      *)
(* handler goroutine of its own, which authenticates the bearer token,     *)
(* may wait for the user's confirmation on the agent's screen, and only    *)
(* then acts; the pairing store and the PIN manager are locked per call,   *)
(* so requests and the host's own calls interleave between those calls.    *)
(* The store is the in-memory map; a failing persist is only seen as the   *)
(* error it returns.                                                       *)
(***************************************************************************)
EXTENDS Pairing, FiniteSets

CONSTANTS
  Handlers,                    \* handler goroutines
  Pins, ttl, maxAttempts, MaxTime,   \* see PINManager
  Configs,                     \* Config.RequireConfirmFirstConnect, and
                               \* whether Config.Confirmer is not nil
  MaxPins                      \* bound of the model: PINs displayed

ASSUME GatewayAssumption ==
  /\ Configs \subseteq [RequireConfirmFirstConnect: BOOLEAN, HasConfirmer: BOOLEAN]
  /\ None \notin Pins \cup Tokens
  /\ ttl \in Nat /\ maxAttempts \in Nat /\ MaxTime \in Nat /\ MaxPins \in Nat

VARIABLES
  config,     \* the configuration the agent was started with
  entries,    \* Store.entries
  nextToken,  \* the next result of NewToken
  pin, expires, attempts, now, issue,   \* see PINManager
  pc,         \* where each handler is
  req,        \* its request: token and device, whether it may call hooks,
              \* and whether the user has approved it
  delivered,  \* history: tokens a controller has received
  issuedTo,   \* history: the device each token was drawn for
  viaPin,     \* history: tokens drawn by handlePair
  approved,   \* history: devices the user approved
  displayed   \* history: how many PINs were displayed

pinVars == <<pin, expires, attempts, now, issue>>
vars == <<config, entries, nextToken, pinVars, pc, req, delivered, issuedTo, viaPin,
          approved, displayed>>
historyVars == <<delivered, issuedTo, viaPin, approved, displayed>>

PM == INSTANCE PINManager

Phases == {"idle", "prompt", "confirm", "hook", "revoke", "pair", "seal", "reply"}
NoRequest == [token |-> None, dev |-> None, asked |-> FALSE]

\* Every variable keeps its type.
TypeOK ==
  /\ config \in Configs
  /\ entries \in Entries
  /\ nextToken \in 0..MaxTokens
  /\ PM!TypeOK
  /\ pc \in [Handlers -> Phases]
  /\ req \in [Handlers -> [token: Tokens \cup {None}, dev: Devices \cup {None},
                           asked: BOOLEAN]]
  /\ delivered \subseteq Tokens
  /\ issuedTo \in [Tokens -> Devices \cup {None}]
  /\ viaPin \subseteq Tokens
  /\ approved \subseteq Devices
  /\ displayed \in 0..MaxPins

Init ==
  /\ config \in Configs
  /\ entries = NoEntries
  /\ nextToken = 0
  /\ PM!Init
  /\ pc = [h \in Handlers |-> "idle"]
  /\ req = [h \in Handlers |-> NoRequest]
  /\ delivered = {}
  /\ issuedTo = [t \in Tokens |-> None]
  /\ viaPin = {}
  /\ approved = {}
  /\ displayed = 0

-----------------------------------------------------------------------------
Goto(h, phase) == pc' = [pc EXCEPT ![h] = phase]
Finish(h) == Goto(h, "idle") /\ req' = [req EXCEPT ![h] = NoRequest]

\* Store.Pair's effect on the map: a fresh token for device d.
Issue(d) ==
  /\ nextToken < MaxTokens
  /\ entries' = PutEntry(entries, d, nextToken)
  /\ nextToken' = nextToken + 1
  /\ issuedTo' = [issuedTo EXCEPT ![nextToken] = d]

\* The host pairs by QR code: the payload carries the token to the controller.
HostPair(d) ==
  /\ Issue(d)
  /\ delivered' = delivered \cup {nextToken}
  /\ UNCHANGED <<pinVars, pc, req, viaPin, approved, displayed>>

\* The user un-pairs a controller on the agent's screen.
HostRevoke(d) ==
  /\ entries[d] # None
  /\ entries' = DeleteEntry(entries, d)
  /\ UNCHANGED <<nextToken, pinVars, pc, req, historyVars>>

\* The host displays a new PIN.
GeneratePIN ==
  /\ displayed < MaxPins
  /\ displayed' = displayed + 1
  /\ PM!Generate
  /\ UNCHANGED <<entries, nextToken, pc, req, delivered, issuedTo, viaPin, approved>>

Tick ==
  /\ PM!Tick
  /\ UNCHANGED <<entries, nextToken, pc, req, historyVars>>

-----------------------------------------------------------------------------
\* Mutant of AskUser: with the optional mode off nobody is asked.
AskUserIfRequired(granted) ==
  IF config.HasConfirmer /\ config.RequireConfirmFirstConnect THEN "prompt" ELSE granted

\* ConfirmConnect blocks on the user; without a Confirmer it is granted.
AskUser(granted) == IF config.HasConfirmer THEN "prompt" ELSE granted

\* Mutant of authWith: an unconfirmed controller is let through.
authWithoutConfirm(h, t, confirm) ==
  /\ pc[h] = "idle"
  /\ t \in delivered
  /\ \E e \in Authenticate(entries, t) :
       /\ req' = [req EXCEPT ![h] = [token |-> t, dev |-> e.DeviceID, asked |-> FALSE]]
       /\ Goto(h, IF confirm THEN "hook" ELSE "revoke")
  /\ UNCHANGED <<entries, nextToken, pinVars, historyVars>>

\* authWith: the entry is read once; an unconfirmed one is put to the user if
\* the mode is on (confirm is FALSE for unpair).  A token that does not
\* authenticate is answered with an error and changes nothing.
authWith(h, t, confirm) ==
  /\ pc[h] = "idle"
  /\ t \in delivered
  /\ \E e \in Authenticate(entries, t) :
       /\ req' = [req EXCEPT ![h] = [token |-> t, dev |-> e.DeviceID, asked |-> FALSE]]
       /\ Goto(h, IF ~confirm THEN "revoke"
                  ELSE IF config.RequireConfirmFirstConnect /\ ~e.Confirmed
                       THEN AskUser("confirm")
                       ELSE "hook")
  /\ UNCHANGED <<entries, nextToken, pinVars, historyVars>>

\* The user refuses, or the controller gives up and the context ends.
Refuse(h) ==
  /\ pc[h] = "prompt"
  /\ Finish(h)
  /\ UNCHANGED <<entries, nextToken, pinVars, historyVars>>

\* The user accepts: the prompt named a device, so the answer is about the
\* pairing that device has now.
Accept(h) ==
  /\ pc[h] = "prompt"
  /\ Goto(h, IF req[h].token = None THEN "pair" ELSE "confirm")
  /\ req' = [req EXCEPT ![h].asked = TRUE]
  /\ approved' = approved \cup {req[h].dev}
  /\ UNCHANGED <<entries, nextToken, pinVars, delivered, issuedTo, viaPin, displayed>>

\* Store.Confirm by device id; an unknown device is an error.
StoreConfirm(d) ==
  entries' = IF entries[d] = None THEN entries ELSE ConfirmEntry(entries, d)

\* confirm: the error of Store.Confirm is ignored.
confirm(h) ==
  /\ pc[h] = "confirm"
  /\ StoreConfirm(req[h].dev)
  /\ Goto(h, "hook")
  /\ UNCHANGED <<nextToken, pinVars, req, historyVars>>

\* next: the handler calls its hook and answers.
CallHook(h) ==
  /\ pc[h] = "hook"
  /\ Finish(h)
  /\ UNCHANGED <<entries, nextToken, pinVars, historyVars>>

\* handleUnpair: revokes by device id; gone already is fine too.
handleUnpair(h) ==
  /\ pc[h] = "revoke"
  /\ entries' = DeleteEntry(entries, req[h].dev)
  /\ Finish(h)
  /\ UNCHANGED <<nextToken, pinVars, historyVars>>

-----------------------------------------------------------------------------
\* handlePair: PIN.Verify answers at once; a good PIN leads to the prompt.
PairRequest(h, d, p) ==
  /\ pc[h] = "idle"
  /\ \/ \E r \in {"PINRateLimited", "PINWrong"} : PM!Verify(p, r) /\ UNCHANGED <<pc, req>>
     \/ /\ PM!Verify(p, "PINOK")
        /\ req' = [req EXCEPT ![h] = [token |-> None, dev |-> d, asked |-> FALSE]]
        /\ Goto(h, AskUser("pair"))
  /\ UNCHANGED <<entries, nextToken, now, historyVars>>

\* Store.Pair; when its persist fails the request ends with the new entry in
\* place and the token in nobody's hands.
PairDevice(h) ==
  /\ pc[h] = "pair"
  /\ Issue(req[h].dev)
  /\ viaPin' = viaPin \cup {nextToken}
  /\ \/ Goto(h, "seal") /\ req' = [req EXCEPT ![h].token = nextToken]
     \/ Finish(h)
  /\ UNCHANGED <<pinVars, delivered, approved, displayed>>

\* NewToken fails: nothing is stored.
PairFails(h) ==
  /\ pc[h] = "pair"
  /\ Finish(h)
  /\ UNCHANGED <<entries, nextToken, pinVars, historyVars>>

\* Mutant of Seal: the confirmation is forgotten.
SealForgotten(h) ==
  /\ pc[h] = "seal"
  /\ Goto(h, "reply")
  /\ UNCHANGED <<entries, nextToken, pinVars, req, historyVars>>

\* Store.Confirm by device id, its error ignored.
Seal(h) ==
  /\ pc[h] = "seal"
  /\ StoreConfirm(req[h].dev)
  /\ Goto(h, "reply")
  /\ UNCHANGED <<nextToken, pinVars, req, historyVars>>

\* The answer carries the token, or finds the controller gone (it gives up
\* after 15 seconds, the prompt waits longer).
Reply(h) ==
  /\ pc[h] = "reply"
  /\ delivered' \in {delivered, delivered \cup {req[h].token}}
  /\ Finish(h)
  /\ UNCHANGED <<entries, nextToken, pinVars, issuedTo, viaPin, approved, displayed>>

-----------------------------------------------------------------------------
Host == (\E d \in Devices : HostPair(d) \/ HostRevoke(d)) \/ GeneratePIN \/ Tick

Request(h) == \/ \E t \in Tokens, confirming \in BOOLEAN : authWith(h, t, confirming)
              \/ \E d \in Devices, p \in Pins : PairRequest(h, d, p)

Serve(h) == \/ Refuse(h)
            \/ Accept(h)
            \/ confirm(h)
            \/ CallHook(h)
            \/ handleUnpair(h)
            \/ PairDevice(h)
            \/ PairFails(h)
            \/ Seal(h)
            \/ Reply(h)

Next == /\ Host \/ \E h \in Handlers : Request(h) \/ Serve(h)
        /\ UNCHANGED config

Spec == Init /\ [][Next]_vars

-----------------------------------------------------------------------------
\* PROTOCOL.md section 6.5: with the mode on, no control request reaches a hook
\* for a device the user has never approved on the agent's screen.
NoUnconfirmedHook ==
  config.RequireConfirmFirstConnect /\ config.HasConfirmer =>
    \A h \in Handlers : pc[h] = "hook" => req[h].dev \in approved

\* Section 6.4, "single-use": however PIN requests, prompts, new PINs and the
\* clock interleave, no more tokens are issued than PINs were displayed.
OneTokenPerPin == Cardinality(viaPin) <= displayed

\* The token of device d's present pairing.
TokenOf(d) == {t \in Tokens : entries[d] # None /\ entries[d].TokenHash = HashToken(t)}

\* A controller that received its token through the PIN flow is not asked a
\* second time: its entry, as long as it is the device's, is confirmed.
PinPairingIsConfirmed ==
  \A d \in Devices :
    TokenOf(d) \cap viaPin \cap delivered # {} => entries[d].Confirmed

\* Section 7.3, "Other controllers' tokens MUST continue to work": an entry
\* goes away only by the host's hand or by an unpair that bore a token which
\* was issued to that very device.
UnpairSparesOthers ==
  [][\A d \in Devices :
       entries[d] # None /\ entries'[d] = None =>
         \/ HostRevoke(d)
         \/ \E h \in Handlers : /\ pc[h] = "revoke"
                                /\ pc'[h] = "idle"
                                /\ issuedTo[req[h].token] = d]_vars

\* Section 6.4, "Confirm-on-agent-screen is mandatory", and agent.go, "The PIN
\* flow always confirms regardless of this setting": handlePair replaces the token
\* a device has, one that works perhaps, before it knows whether anybody will
\* receive the new one.  That takes the user's answer to a prompt about this very
\* request and device, if there is a Confirmer to ask, or the host's own pairing;
\* never a refusal, a prompt given up, or an answer about another device.
PairedByConsent ==
  [][\A d \in Devices :
       TokenOf(d)' \ TokenOf(d) # {} =>
         \/ HostPair(d)
         \/ \E h \in Handlers : /\ pc[h] = "pair"
                                /\ pc'[h] # "pair"
                                /\ req[h].dev = d
                                /\ config.HasConfirmer => req[h].asked]_vars

\* Section 5.2, a revoked token "MUST NOT reach a hook": a request whose pairing
\* is gone by the time confirm looks it up to record the approval is refused.
RevokedReachesNoHook ==
  [][\A h \in Handlers :
       pc[h] = "confirm" /\ pc'[h] = "hook" => Authenticates(entries, req[h].token)]_vars
=============================================================================
