---------------------------- MODULE RemoteButtons ----------------------------
(***************************************************************************)
(* agent/control.go and the handlers of agent/agent.go behind auth: every  *)
(* request is checked, runs its hook, and on success announces what it     *)
(* changed before it answers.  The hooks are those of CoreHooks, the app's *)
(* own for profiles, power and import, and /v1/core/ relays to the core.   *)
(***************************************************************************)
EXTENDS CoreHooks, Forwarder, Announcements

CONSTANTS
  Implemented,   \* capability tags whose interface the hooks implement
  Configs,       \* configurations: DisableCapabilities, the forwarder's ReadOnly
  ActionIDs,     \* what Actions lists
  FirstName,     \* the display name at start
  Requests,      \* the requests that reach each handler
  MaxRequests    \* bound of the model: requests to each handler

ASSUME ButtonsAssumption ==
  /\ MaxFailures \in Nat
  /\ MaxRequests \in Nat
  /\ Configs \subseteq [disabled: SUBSET Implemented, readOnly: BOOLEAN]

\* Groups holds every name a request can ask for as a group.
ASSUME RequestAssumption ==
  \A h \in Handlers : \A q \in Requests[h] :
    q.op \in {"SelectProxy", "UnfixProxy", "TestDelay"} /\ q.name # None => q.name \in Groups

VARIABLES
  config,       \* the configuration the agent was started with
  name,         \* Agent.name
  advertised,   \* the name last given to OnRename
  app,          \* the app's own state, a field each for power, the profiles and
                \* the active one: it flips when the thing changes
  todo,         \* names each handler's Notify still has to announce
  owed,         \* history: resources each handler's request altered whose event
                \* has not been sent since
  received,     \* requests each handler has received
  past          \* history of each request: values its resource had since the
                \* hook acted, connections open when it came, connections it
                \* closed, and whether it changed anything

buttonVars == <<config, name, advertised, app, todo, owed, received, past>>
vars == <<coreVars, hookVars, buttonVars>>

AllRequests == UNION {Requests[h] : h \in Handlers}

NoJob == [op |-> "none", name |-> None, arg |-> None, path |-> <<>>, wellFormed |-> TRUE]
NoPast == [since |-> {}, open |-> {}, closed |-> {}, changed |-> FALSE]

AppFields == {"power", "profiles", "active"}

Steps == HookSteps \cup {"idle", "settings", "actions", "app", "rename", "onRename",
                         "forward", "returned", "notify"}

\* Every variable keeps its type; in particular a setting only ever holds a
\* value of its own type, whatever the requests carry.
TypeOK ==
  /\ CoreTypeOK
  /\ settings["tun"] \in Booleans
  /\ settings["log_level"] \in Options
  /\ \A h \in Handlers : step[h] \in Steps /\ looked[h] \subseteq Conns
  /\ failures \in 0..MaxFailures
  /\ config \in Configs
  /\ {name, advertised} \subseteq {FirstName} \cup {q.arg : q \in AllRequests}
  /\ app \in [AppFields -> BOOLEAN]
  /\ owed \in [Handlers -> SUBSET Resources]
  /\ received \in [Handlers -> 0..MaxRequests]

Init ==
  /\ CoreInit
  /\ job = [h \in Handlers |-> NoJob]
  /\ step = [h \in Handlers |-> "idle"]
  /\ looked = [h \in Handlers |-> {}]
  /\ result = [h \in Handlers |-> NoResult]
  /\ failures = 0
  /\ config \in Configs
  /\ name = FirstName
  /\ advertised = FirstName
  /\ app = [f \in AppFields |-> FALSE]
  /\ todo = [h \in Handlers |-> <<>>]
  /\ owed = [h \in Handlers |-> {}]
  /\ received = [h \in Handlers |-> 0]
  /\ past = [h \in Handlers |-> NoPast]

-----------------------------------------------------------------------------
\* mountRemote: the capability each operation belongs to.
Capability ==
  [SelectProxy |-> "select", UnfixProxy |-> "unfix", TestDelay |-> "delay",
   SetMode |-> "mode", SelectProfile |-> "profiles", UpdateProfile |-> "profile_update",
   DeleteProfile |-> "profile_delete", UpdateProvider |-> "providers",
   HealthCheck |-> "providers", CloseConnections |-> "connections",
   SetSetting |-> "settings", RunAction |-> "actions"]

\* Mutant of detectRemoteCaps: the disabled ones stay.
detectRemoteCapsAll(has, disabled) == has

\* detectRemoteCaps: what the hooks implement, minus what is disabled.
detectRemoteCaps(has, disabled) == has \ disabled

remote == detectRemoteCaps(Implemented, config.disabled)

\* gated: operations outside the table are always served.
gated(op) == op \in DOMAIN Capability => Capability[op] \in remote

\* The checks a handler makes before its hook; None is the empty string.
ValidProxies(q) ==
  /\ q.op \in {"SelectProxy", "UnfixProxy", "TestDelay"} => q.name # None
  /\ q.op = "SelectProxy" => q.arg # None

ValidMode(q) == q.op = "SetMode" => q.arg \in Modes

ValidProfile(q) == q.op \in {"SelectProfile", "DeleteProfile"} => q.name # None

ValidProvider(q) ==
  /\ q.op \in {"UpdateProvider", "HealthCheck"} => q.name # None
  /\ q.op = "UpdateProvider" => q.arg \in {"proxy", "rule"}
  /\ q.op = "HealthCheck" => q.arg = "proxy"

ValidSetting(q) == q.op = "SetSetting" => q.name # None

ValidAction(q) == q.op = "RunAction" => q.name # None

ValidName(q) == q.op = "Rename" => q.arg # None

\* wellFormed: the body decodes; delay's timeout and url, power's action and
\* what is imported are as they must be.
Valid(q) ==
  /\ q.wellFormed
  /\ ValidProxies(q) /\ ValidMode(q) /\ ValidProfile(q) /\ ValidProvider(q)
  /\ ValidSetting(q) /\ ValidAction(q) /\ ValidName(q)

\* Where a valid request goes.
FirstStep(op) ==
  CASE op \in {"SelectProxy", "UnfixProxy", "TestDelay"} -> "group"
    [] op = "SetMode" -> "patchMode"
    [] op = "SetSetting" -> "settings"
    [] op = "CloseConnections" -> "listConns"
    [] op \in {"UpdateProvider", "HealthCheck"} -> "provider"
    [] op = "RunAction" -> "actions"
    [] op = "Rename" -> "rename"
    [] op = "Forward" -> "forward"
    [] OTHER -> "app"

\* A request the mux hands to its handler, authenticated.
Receive(h, q) ==
  /\ step[h] = "idle"
  /\ received[h] < MaxRequests /\ received' = [received EXCEPT ![h] = @ + 1]
  /\ gated(q.op) /\ Valid(q)
  /\ Goto(h, FirstStep(q.op))
  /\ job' = [job EXCEPT ![h] = q]
  /\ past' = [past EXCEPT ![h].open = conns]
  /\ owed' = [owed EXCEPT ![h] = {}]
  /\ UNCHANGED <<coreVars, looked, result, failures, config, name, advertised, app, todo>>

-----------------------------------------------------------------------------
\* The value the answer of h's operation reports, as it is now.
Item(h) ==
  CASE job[h].op \in {"SelectProxy", "UnfixProxy"} -> now[job[h].name]
    [] job[h].op = "SetMode" -> mode
    [] job[h].op = "SetSetting" -> settings[job[h].name]
    [] OTHER -> None

WriteSteps == {"put", "delete", "patchMode", "patchSetting"}

\* The history of the requests in progress after a step of the handlers hs.
Observe(hs, changing) ==
  past' = [h \in Handlers |->
    [past[h] EXCEPT
       !.since = IF @ # {} \/ (h \in hs /\ step[h] \in WriteSteps) THEN @ \cup {Item(h)'} ELSE @,
       !.closed = IF h \in hs THEN @ \cup (conns \ conns') ELSE @,
       !.changed = @ \/ (h \in hs /\ changing)]]

\* What the GET endpoint of a resource answers; the status holds the name, the
\* power and the summary: mode, active profile and node in use.
View(r) ==
  CASE r = "proxies" -> <<all, now, fixed, delays>>
    [] r = "mode" -> mode
    [] r = "settings" -> settings
    [] r = "connections" -> conns
    [] r = "providers" -> providers
    [] r = "profiles" -> <<app["profiles"], app["active"]>>
    [] r = "status" -> <<name, app["power"], app["active"], mode, now>>

\* The resources a step alters.
Altered == {r \in Resources : View(r)' # View(r)}

\* An action that succeeded counts as a change, too.
Changes(h) == Altered # {} \/ (step[h] = "post" /\ result'[h].code = "ok")

Owes(h) == owed' = [owed EXCEPT ![h] = @ \cup Altered]

Tracked(h) == /\ UNCHANGED <<config, name, advertised, todo, received>>
              /\ Owes(h)
              /\ Observe({h}, Changes(h))

RunHook(h) == HookStep(h) /\ UNCHANGED app /\ Tracked(h)

\* What a success of the app's own hooks may change: power, import, profiles.
AppChanges(op) ==
  CASE op = "Power" -> {"power"}
    [] op = "Subscription" -> {"profiles"}
    [] op = "SelectProfile" -> {"active"}
    [] op = "UpdateProfile" -> {"profiles"}
    [] op = "DeleteProfile" -> {"profiles", "active"}
    [] OTHER -> {}

\* A profile that is selected, or updated while active, is loaded into the core.
LoadProfile == /\ Regroup
               /\ providers' = ~providers
               /\ UNCHANGED <<mode, settings, delays, connVars, events>>

AppHook(h) ==
  /\ step[h] = "app"
  /\ \/ /\ \E code \in {"not_found", "invalid", "error"} : Fail(h, code)
        /\ UNCHANGED <<coreVars, app>>
     \/ /\ Succeed(h, None)
        /\ \E fs \in SUBSET AppChanges(job[h].op) :
             app' = [f \in AppFields |-> IF f \in fs THEN ~app[f] ELSE app[f]]
        /\ \/ UNCHANGED coreVars
           \/ job[h].op \in {"SelectProfile", "UpdateProfile"} /\ LoadProfile
  /\ Tracked(h)

-----------------------------------------------------------------------------
\* Mutant of checkSettingValue: an enum takes any string.
checkSettingValueType(key, value) ==
  key = "tun" => value \in Booleans

\* checkSettingValue for the settings CoreHooks lists.
checkSettingValue(key, value) ==
  IF key = "tun" THEN value \in Booleans ELSE value \in Options

\* handleSetSetting lists the settings first.
ListSettings(h) ==
  /\ step[h] = "settings"
  /\ UNCHANGED coreVars
  /\ \/ Lost(h)
     \/ \E r \in Answers : Refused(h, r)
     \/ job[h].name \notin SettingKeys /\ Fail(h, "not_found")
     \/ /\ job[h].name \in SettingKeys
        /\ IF checkSettingValue(job[h].name, job[h].arg) THEN Continue(h, "patchSetting")
                                                         ELSE Fail(h, "invalid")
  /\ UNCHANGED app /\ Tracked(h)

\* handleRunAction looks the action up first.
ListActions(h) ==
  /\ step[h] = "actions"
  /\ UNCHANGED coreVars
  /\ IF job[h].name \in ActionIDs THEN Continue(h, "post") ELSE Fail(h, "not_found")
  /\ UNCHANGED app /\ Tracked(h)

\* handleRename: the name under a.mu, then OnRename without it.
Rename(h) ==
  /\ step[h] = "rename"
  /\ Continue(h, "onRename")
  /\ name' = job[h].arg
  /\ UNCHANGED <<coreVars, config, advertised, app, todo, received, past>>
  /\ Owes(h)

OnRename(h) ==
  /\ step[h] = "onRename"
  /\ Succeed(h, None)
  /\ advertised' = job[h].arg
  /\ UNCHANGED <<coreVars, config, name, app, todo, owed, received, past>>

\* PUT on a proxy provider.
UpdatesNodes(method, segs) ==
  method = "PUT" /\ Len(segs) = 3 /\ segs[1] = "providers" /\ segs[2] = "proxies"

\* What the core does with a call whatever the forwarder thinks of it.
CoreCall(method, segs) ==
  CASE method = "PATCH" /\ segs = <<"configs">> ->
         \/ \E m \in Modes : PatchMode(m, "ok")
         \/ \E b \in Booleans : PatchSetting("tun", b, "ok")
    [] method = "PUT" /\ segs = <<"configs">> -> PutConfigs
    [] method = "PUT" /\ Len(segs) = 2 /\ segs[1] = "proxies" /\ segs[2] \in Groups ->
         \E n \in Nodes, r \in Answers : PutProxy(segs[2], n, r)
    [] method = "DELETE" /\ Len(segs) = 2 /\ segs[1] = "proxies" /\ segs[2] \in Groups ->
         \E r \in Answers : DeleteProxy(segs[2], r)
    [] method = "GET" /\ Len(segs) = 3 /\ segs[1] = "group" /\ segs[2] \in Groups ->
         \E r \in Answers : GroupDelay(segs[2], r)
    [] /\ method = "GET" /\ Len(segs) \in {3, 4} /\ segs[1] \in {"proxies", "providers"}
       /\ segs[Len(segs)] \in {"delay", "healthcheck"} ->
         \E r \in Answers : Measure(r)
    [] UpdatesNodes(method, segs) -> \E r \in Answers : PutProvider("proxy", r)
    [] method = "PUT" /\ Len(segs) = 3 /\ segs[1] = "providers" /\ segs[2] = "rules" ->
         \E r \in Answers : PutProvider("rule", r)
    [] method = "DELETE" /\ segs = <<"connections">> -> DeleteConns(conns)
    [] method = "DELETE" /\ Len(segs) = 2 /\ segs[1] = "connections" -> DeleteConns({segs[2]})
    [] OTHER -> UNCHANGED coreVars

\* Forwarder.ServeHTTP: refused with forbidden, or relayed.
Forward(h) ==
  LET allowed == IF config.readOnly THEN AllowedReadOnly(job[h].name, job[h].path)
                             ELSE Allowed(job[h].name, job[h].path)
  IN  /\ step[h] = "forward"
      /\ IF allowed THEN CoreCall(job[h].name, splitPath(job[h].path))
                    ELSE UNCHANGED coreVars
      /\ Fail(h, "relayed")
      /\ UNCHANGED app /\ Tracked(h)

-----------------------------------------------------------------------------
\* Mutant of hookError: every error is reported as not_found.
hookErrorNotFound(op, code) == "not_found"

\* hookError; power and import report every error as core_unavailable.
hookError(op, code) ==
  CASE op \in {"Power", "Subscription"} -> "core_unavailable"
    [] code = "not_found" -> "not_found"
    [] code = "invalid" -> "bad_request"
    [] OTHER -> "core_unavailable"

Done(h) == /\ looked' = [looked EXCEPT ![h] = {}]
           /\ result' = [result EXCEPT ![h] = NoResult]
           /\ past' = [past EXCEPT ![h] = NoPast]
           /\ UNCHANGED <<coreVars, failures, config, name, advertised, app, owed, received>>

Leave(h) == Goto(h, "idle") /\ job' = [job EXCEPT ![h] = NoJob]

\* The hook's error is answered; its success is announced first.
Answer(h) ==
  /\ step[h] = "returned"
  /\ IF result[h].code = "ok" /\ job[h].op \in Operations
     THEN /\ Goto(h, "notify") /\ UNCHANGED job
          /\ todo' = [todo EXCEPT ![h] = Announces[job[h].op]]
     ELSE Leave(h) /\ UNCHANGED todo
  /\ Done(h)

\* Notify: one event per name, in order; an event serves every handler that
\* owes it.
Notify(h) ==
  /\ step[h] = "notify"
  /\ todo' = [todo EXCEPT ![h] = Tail(@)]
  /\ IF Len(todo[h]) = 1 THEN Leave(h) ELSE UNCHANGED <<step, job>>
  /\ owed' = [i \in Handlers |-> owed[i] \ {Head(todo[h])}]
  /\ UNCHANGED <<coreVars, looked, result, failures, config, name, advertised, app, received, past>>

BehindTheGateway == /\ Elsewhere
                    /\ UNCHANGED <<hookVars, config, name, advertised, app, todo, owed, received>>
                    /\ Observe({}, FALSE)

Handle(h) == \/ RunHook(h)
             \/ AppHook(h)
             \/ ListSettings(h)
             \/ ListActions(h)
             \/ Rename(h)
             \/ OnRename(h)
             \/ Forward(h)
             \/ Answer(h)
             \/ Notify(h)

Next == \/ \E h \in Handlers : Handle(h) \/ \E q \in Requests[h] : Receive(h, q)
        \/ BehindTheGateway

Spec == Init /\ [][Next]_vars

-----------------------------------------------------------------------------
Returned(h) == step[h] = "returned" /\ result[h].code = "ok"

\* A handler sends its last event.
LastEvent(h) == step[h] = "notify" /\ step'[h] = "idle"

\* PROTOCOL.md section 9.2: when a successful request has sent its last event,
\* every resource whose GET answer any of its steps altered has been named by an
\* event sent since, whatever other requests and the app did meanwhile; the
\* status after the four operations that do not announce it is left out.
SuccessIsAnnounced ==
  [][\A h \in Handlers : LastEvent(h) =>
       owed'[h] \subseteq IF job[h].op \in StatusUnannounced THEN {"status"} ELSE {}]_vars

\* Section 9.2, status: "whenever power, name or summary changes".
StatusFollows == [][\A h \in Handlers : LastEvent(h) => "status" \notin owed'[h]]_vars

\* Section 9.2, "The agent MUST emit these for changes made through the
\* gateway": also when the request was answered with an error.
ChangesAreAnnounced ==
  [][\A h \in Handlers : step[h] # "idle" /\ step'[h] = "idle" => owed'[h] = {}]_vars

\* Sections 8.8, 8.10, 8.18: the node, mode or setting an answer reports is one
\* that was in force at some moment after the operation took effect, however
\* other requests and the app interleave.
AnswerIsCurrent ==
  \A h \in Handlers :
    Returned(h) /\ job[h].op \in {"SelectProxy", "UnfixProxy", "SetMode", "SetSetting"}
      => result[h].value \in past[h].since

\* Section 8.15: closing one connection closes that one and no other; closing
\* all leaves none that was open when the request came.
CloseIsExact ==
  \A h \in Handlers :
    Returned(h) /\ job[h].op = "CloseConnections" =>
      IF job[h].arg = None
      THEN conns \cap past[h].open = {}
      ELSE job[h].arg \notin conns /\ past[h].closed \subseteq {job[h].arg}

\* Section 8.6, "Unknown ... -> not_found", violations "before invoking any
\* hook": a request answered with not_found or bad_request changed nothing,
\* whichever of its calls the core refused.  UnfixProxy and SetSetting are left
\* out: they look again after they have acted, and that call may be refused.
RefusalChangesNothing ==
  \A h \in Handlers :
    /\ step[h] = "returned"
    /\ result[h].code \notin {"ok", "relayed"}
    /\ job[h].op \notin {"UnfixProxy", "SetSetting"}
    /\ hookError(job[h].op, result[h].code) \in {"not_found", "bad_request"}
    => ~past[h].changed

\* Config.DisableCapabilities: what only a disabled capability would change is
\* never changed through the gateway, neither by a hook nor by the forwarder.
DisabledStaysUntouched ==
  [][/\ "mode" \in config.disabled => mode' = mode
     /\ "settings" \in config.disabled => settings' = settings]_vars

DelayTest(segs) == Len(segs) = 3 /\ segs[3] = "delay"

\* Section 9.1: whatever calls come, none that is forwarded loads or patches a
\* configuration: the mode and the settings stay, and a group's members change by
\* the update of a provider only.  In read-only mode nothing is selected, updated
\* or closed; the group delay test, which the core answers by dropping the pin,
\* is the only change.
ForwardIsHarmless ==
  [][\A h \in Handlers : step[h] = "forward" /\ step'[h] = "returned" =>
       LET segs == splitPath(job[h].path)
       IN  /\ UNCHANGED <<mode, settings>>
           /\ all' # all => UpdatesNodes(job[h].name, segs)
           /\ config.readOnly => UNCHANGED <<all, providers, conns>>
           /\ config.readOnly /\ ~DelayTest(segs) => UNCHANGED <<now, fixed>>]_vars
=============================================================================
