------------------------- MODULE RemoteButtonsProofs -------------------------
(* Proofs about RemoteButtons for any groups, nodes, connections, handlers,   *)
(* configurations and requests, and for any number of failing calls.          *)
EXTENDS RemoteButtons, TLAPS

-----------------------------------------------------------------------------
(* The inductive invariant, part by part.                                    *)

GroupOps == {"SelectProxy", "UnfixProxy", "TestDelay"}
ValueOps == {"SelectProxy", "UnfixProxy", "SetMode", "SetSetting"}
Fields == {"since", "open", "closed", "changed"}

Shapes ==
  /\ job \in [Handlers -> AllRequests \cup {NoJob}]
  /\ step \in [Handlers -> Steps]
  /\ looked \in [Handlers -> SUBSET Conns]
  /\ DOMAIN result = Handlers
  /\ todo \in [Handlers -> Seq(Resources)]
  /\ DOMAIN past = Handlers
  /\ \A h \in Handlers : DOMAIN past[h] = Fields
  /\ settings \in [SettingKeys -> Booleans \cup Options]

Serving(h) == step[h] \notin {"idle", "notify"}

\* What a handler has checked by the time it gets to a step.
Fits(h) ==
  LET q == job[h]
  IN  /\ Serving(h) => q \in Requests[h] /\ gated(q.op) /\ Valid(q)
      /\ step[h] = "group" => q.op \in GroupOps
      /\ step[h] = "put" => q.op = "SelectProxy"
      /\ step[h] \in {"delete", "reread"} => q.op = "UnfixProxy"
      /\ step[h] \in {"groupDelay", "nodeDelay"} => q.op = "TestDelay"
      /\ step[h] = "patchMode" => q.op = "SetMode"
      /\ step[h] \in {"settings", "patchSetting", "readSetting"} => q.op = "SetSetting"
      /\ step[h] \in {"patchSetting", "readSetting"}
           => q.name \in SettingKeys /\ checkSettingValue(q.name, q.arg)
      /\ step[h] \in {"listConns", "closeAll", "closeOne"} => q.op = "CloseConnections"
      /\ step[h] = "closeAll" => q.arg = None
      /\ step[h] = "closeOne" => q.arg # None /\ q.arg \in used
      /\ step[h] = "provider" => q.op \in {"UpdateProvider", "HealthCheck"}
      /\ step[h] \in {"actions", "post"} => q.op = "RunAction"
      /\ step[h] \in {"rename", "onRename"} => q.op = "Rename"
      /\ step[h] = "forward" => q.op = "Forward"
      /\ step[h] = "app" => q.op \notin ValueOps \cup {"CloseConnections"}

ButtonsInv == TypeOK /\ Shapes /\ \A h \in Handlers : Fits(h)

-----------------------------------------------------------------------------
(* The core: each call and each event keeps the types, never reopens a       *)
(* connection, and is what it is about.                                      *)

CoreShape == /\ CoreTypeOK
             /\ settings \in [SettingKeys -> Booleans \cup Options]
             /\ settings["tun"] \in Booleans /\ settings["log_level"] \in Options

\* Connection ids are never used twice.
ConnsOnlyClose == used \subseteq used' /\ conns' \cap used \subseteq conns

LEMMA GroupCallStep ==
  ASSUME CoreShape, NEW g, NEW n, NEW r,
         PutProxy(g, n, r) \/ DeleteProxy(g, r) \/ GroupDelay(g, r)
  PROVE  /\ CoreShape' /\ UNCHANGED <<all, mode, settings, providers, conns, used, events>>
         /\ r \in {"not_found", "invalid"} => coreVars' = coreVars
<1>1. UNCHANGED <<all, mode, settings, providers, conns, used, events>>
  BY DEF PutProxy, DeleteProxy, GroupDelay, connVars
<1>2. r \in {"not_found", "invalid"} => UNCHANGED <<now, fixed, delays>>
  BY DEF PutProxy, DeleteProxy, GroupDelay
<1>3. now' \in [Groups -> Nodes \cup {None}] /\ fixed' \in [Groups -> Nodes \cup {None}]
  <2>1. CASE UNCHANGED <<now, fixed>>
    BY <2>1 DEF CoreShape, CoreTypeOK
  <2>2. CASE Unpin(g)
    BY <2>2 DEF Unpin, CoreShape, CoreTypeOK
  <2>3. CASE PutProxy(g, n, r) /\ r = "ok"
    BY <2>3 DEF PutProxy, CoreShape, CoreTypeOK
  <2> QED
    BY <2>1, <2>2, <2>3 DEF PutProxy, DeleteProxy, GroupDelay
<1>4. delays' \in BOOLEAN
  BY DEF PutProxy, DeleteProxy, GroupDelay, CoreShape, CoreTypeOK
<1> QED
  BY <1>1, <1>2, <1>3, <1>4 DEF CoreShape, CoreTypeOK, coreVars

LEMMA MeasureStep ==
  ASSUME CoreShape, NEW r, Measure(r)
  PROVE  /\ CoreShape'
         /\ UNCHANGED <<all, now, fixed, mode, settings, providers, conns, used, events>>
         /\ r # "ok" => coreVars' = coreVars
<1>1. /\ UNCHANGED <<all, now, fixed, mode, settings, providers, conns, used, events>>
      /\ r # "ok" => delays' = delays
  BY DEF Measure, groupVars, connVars
<1>2. delays' \in BOOLEAN
  BY DEF Measure, CoreShape, CoreTypeOK
<1> QED
  BY <1>1, <1>2 DEF CoreShape, CoreTypeOK, coreVars

LEMMA RegroupStep ==
  ASSUME CoreShape, Regroup
  PROVE  /\ all' \in [Groups -> SUBSET Nodes]
         /\ now' \in [Groups -> Nodes \cup {None}]
         /\ fixed' \in [Groups -> Nodes \cup {None}]
  BY DEF Regroup, CoreShape, CoreTypeOK

LEMMA ProviderStep ==
  ASSUME CoreShape, NEW kind, NEW r, PutProvider(kind, r)
  PROVE  /\ CoreShape' /\ UNCHANGED <<mode, settings, delays, conns, used, events>>
         /\ kind # "proxy" => UNCHANGED <<all, now, fixed>>
         /\ r # "ok" => coreVars' = coreVars
<1>1. /\ UNCHANGED <<mode, settings, delays, conns, used, events>>
      /\ kind # "proxy" => UNCHANGED <<all, now, fixed>>
      /\ r # "ok" => UNCHANGED <<all, now, fixed, providers>>
  BY DEF PutProvider, groupVars, connVars
<1>2. providers' \in BOOLEAN
  BY DEF PutProvider, CoreShape, CoreTypeOK
<1>3. /\ all' \in [Groups -> SUBSET Nodes]
      /\ now' \in [Groups -> Nodes \cup {None}]
      /\ fixed' \in [Groups -> Nodes \cup {None}]
  BY RegroupStep DEF PutProvider, groupVars, CoreShape, CoreTypeOK
<1> QED
  BY <1>1, <1>2, <1>3 DEF CoreShape, CoreTypeOK, coreVars

LEMMA LoadStep ==
  ASSUME CoreShape, LoadProfile
  PROVE  CoreShape' /\ UNCHANGED <<mode, settings, delays, conns, used, events>>
<1>1. UNCHANGED <<mode, settings, delays, conns, used, events>>
  BY DEF LoadProfile, connVars
<1>2. providers' \in BOOLEAN
  BY DEF LoadProfile, CoreShape, CoreTypeOK
<1> QED
  BY <1>1, <1>2, RegroupStep DEF LoadProfile, CoreShape, CoreTypeOK

LEMMA DeleteConnsStep ==
  ASSUME CoreShape, NEW ids, DeleteConns(ids)
  PROVE  /\ CoreShape' /\ conns' = conns \ ids
         /\ UNCHANGED <<all, now, fixed, mode, settings, delays, providers, used, events>>
  BY DEF DeleteConns, groupVars, CoreShape, CoreTypeOK

LEMMA ElsewhereStep ==
  ASSUME CoreShape, Elsewhere
  PROVE  CoreShape' /\ UNCHANGED <<mode, settings>> /\ ConnsOnlyClose
<1>1. CASE ConnOpens
  BY <1>1, CoreAssumption DEF ConnOpens, Happens, groupVars, CoreShape, CoreTypeOK, ConnsOnlyClose
<1>2. CASE ConnEnds
  BY <1>2, CoreAssumption DEF ConnEnds, Happens, groupVars, CoreShape, CoreTypeOK, ConnsOnlyClose
<1>3. CASE NodeSwitches
  BY <1>3, CoreAssumption DEF NodeSwitches, Happens, connVars, CoreShape, CoreTypeOK,
     ConnsOnlyClose
<1>4. CASE GroupChanges
  BY <1>4, CoreAssumption, RegroupStep DEF GroupChanges, Happens, connVars, CoreShape,
     CoreTypeOK, ConnsOnlyClose
<1> QED
  BY <1>1, <1>2, <1>3, <1>4 DEF Elsewhere

LEMMA CoreUnchanged ==
  ASSUME CoreShape, UNCHANGED coreVars
  PROVE  CoreShape' /\ ConnsOnlyClose
  BY DEF CoreShape, CoreTypeOK, coreVars, ConnsOnlyClose

-----------------------------------------------------------------------------
(* The whitelist.                                                            *)

LEMMA WildIsNoName == Wild \notin {"group", "delay", "proxies", "providers"}
  BY Zenon DEF Wild

LEMMA Matches ==
  ASSUME NEW pat, NEW got, segMatch(pat, got)
  PROVE  Len(pat) = Len(got) /\ \A i \in DOMAIN pat : pat[i] # Wild => pat[i] = got[i]
  BY Zenon DEF segMatch

LEMMA InRules ==
  ASSUME NEW method, NEW paths, NEW ru \in Rules(method, paths)
  PROVE  ru.method = method /\ ru.path \in paths
  BY DEF Rules

\* No PATCH and no POST is relayed.
LEMMA WhitelistedMethods ==
  ASSUME NEW m, NEW p, Allowed(m, p)
  PROVE  m \in {"GET", "PUT", "DELETE"}
<1>1. PICK ru \in whitelist : ru.method = m
  BY DEF Allowed
<1>2. \E paths : ru \in Rules("GET", paths) \cup Rules("PUT", paths) \cup Rules("DELETE", paths)
  BY Zenon DEF whitelist
<1> QED
  BY <1>1, <1>2, InRules

\* Among the calls that are read, a group's delay is the only one of its form.
LEMMA WhitelistedDelay ==
  ASSUME NEW p, Allowed("GET", p), Len(splitPath(p)) = 3, splitPath(p)[1] = "group"
  PROVE  splitPath(p)[3] = "delay"
<1>1. PICK ru \in whitelist : ru.method = "GET" /\ segMatch(ru.path, splitPath(p))
  BY DEF Allowed
<1>2. /\ Len(ru.path) = 3
      /\ \A i \in DOMAIN ru.path : ru.path[i] # Wild => ru.path[i] = splitPath(p)[i]
  BY <1>1, Matches
<1>3. ru.path \in {<<"proxies", Wild, "delay">>, <<"group", Wild, "delay">>,
                   <<"providers", "proxies", Wild>>}
  BY <1>1, <1>2, InRules DEF whitelist
<1>4. CASE ru.path = <<"group", Wild, "delay">>
  <2>1. 3 \in DOMAIN ru.path /\ ru.path[3] = "delay" /\ ru.path[3] # Wild
    BY <1>4, WildIsNoName
  <2> QED
    BY <1>2, <2>1
<1>5. CASE ru.path[1] \in {"proxies", "providers"} /\ 1 \in DOMAIN ru.path
  BY <1>2, <1>5, WildIsNoName
<1> QED
  BY <1>3, <1>4, <1>5

\* No PUT on the list has a path of one segment: none loads a configuration.
LEMMA WhitelistedPut ==
  ASSUME NEW p, Allowed("PUT", p)
  PROVE  Len(splitPath(p)) \in {2, 3}
<1>1. PICK ru \in whitelist : ru.method = "PUT" /\ segMatch(ru.path, splitPath(p))
  BY DEF Allowed
<1>2. ru.path \in {<<"proxies", Wild>>, <<"providers", "proxies", Wild>>,
                   <<"providers", "rules", Wild>>}
  BY <1>1, InRules DEF whitelist
<1>3. Len(ru.path) \in {2, 3}
  BY <1>2
<1> QED
  BY <1>1, <1>3, Matches

\* What is relayed, and what it can do to the core.
LEMMA RelayedStep ==
  ASSUME CoreShape, NEW m, NEW p, Allowed(m, p), CoreCall(m, splitPath(p))
  PROVE  /\ CoreShape' /\ UNCHANGED <<mode, settings, used>> /\ conns' \subseteq conns
         /\ all' # all => UpdatesNodes(m, splitPath(p))
         /\ m = "GET" => UNCHANGED <<all, providers, conns>>
         /\ m = "GET" /\ ~DelayTest(splitPath(p)) => UNCHANGED <<now, fixed>>
<1> DEFINE segs == splitPath(p)
<1>1. CASE UNCHANGED coreVars
  BY <1>1, CoreUnchanged DEF coreVars
<1>2. CASE m \in {"PUT", "DELETE"} /\ \E g, n, r : PutProxy(g, n, r) \/ DeleteProxy(g, r)
  BY <1>2, GroupCallStep
<1>3. CASE m = "GET" /\ Len(segs) = 3 /\ segs[1] = "group" /\ \E g, r : GroupDelay(g, r)
  <2>1. DelayTest(segs)
    BY <1>3, WhitelistedDelay DEF DelayTest
  <2> QED
    BY <1>3, <2>1, GroupCallStep
<1>4. CASE m = "DELETE" /\ \E ids : DeleteConns(ids)
  BY <1>4, DeleteConnsStep
<1>5. CASE \E r : Measure(r)
  BY <1>5, MeasureStep
<1>6. CASE m = "PUT" /\ \E kind, r : PutProvider(kind, r) /\ (kind = "proxy" => UpdatesNodes(m, segs))
  BY <1>6, ProviderStep
<1>7. m \in {"GET", "PUT", "DELETE"} /\ ~(m = "PUT" /\ segs = <<"configs">>)
  <2>1. Len(<<"configs">>) = 1
    OBVIOUS
  <2> QED
    BY <2>1, WhitelistedMethods, WhitelistedPut
<1>8. UpdatesNodes(m, segs) => m = "PUT"
  BY DEF UpdatesNodes
<1> HIDE DEF segs
<1> QED
  BY <1>1, <1>2, <1>3, <1>4, <1>5, <1>6, <1>7, <1>8 DEF CoreCall, segs

-----------------------------------------------------------------------------
(* A handler at work on its request: every step but Rename, OnRename, the    *)
(* answer and the announcements.                                             *)

Works(h) == RunHook(h) \/ AppHook(h) \/ ListSettings(h) \/ ListActions(h) \/ Forward(h)

WorkSteps == HookSteps \cup {"settings", "actions", "app", "forward"}

\* The hook returns, goes on, or has listed the connections.
Ends(h) == \E code, value, closed : /\ Return(h, code, value, closed)
                                    /\ UNCHANGED failures \/ failures' \in 0..MaxFailures
GoesOn(h) == \E next \in Steps : Continue(h, next)
Listed(h) == /\ \E next \in Steps : Goto(h, next)
             /\ looked' = [looked EXCEPT ![h] = conns]
             /\ UNCHANGED <<job, result, failures>>

LEMMA EndsWith ==
  ASSUME NEW h \in Handlers, TypeOK
  PROVE  /\ \A code : Fail(h, code) => Ends(h)
         /\ \A value : Succeed(h, value) => Ends(h)
         /\ \A r : Refused(h, r) => Ends(h)
         /\ Lost(h) => Ends(h)
         /\ \A n : Return(h, "ok", None, n) /\ UNCHANGED failures => Ends(h)
         /\ CallFails(h) => Ends(h)
<1>1. \A code : Fail(h, code) => Ends(h)
  BY DEF Fail, Ends
<1>2. \A value : Succeed(h, value) => Ends(h)
  BY DEF Succeed, Ends
<1>3. Lost(h) => Ends(h)
  BY ButtonsAssumption DEF Lost, Ends, TypeOK
<1>4. CallFails(h) => Ends(h)
  BY ButtonsAssumption DEF CallFails, Ends, TypeOK
<1> QED
  BY <1>1, <1>2, <1>3, <1>4 DEF Refused, Ends

LEMMA HookMoves ==
  ASSUME ButtonsInv, NEW h \in Handlers, HookStep(h)
  PROVE  (Ends(h) \/ GoesOn(h) \/ Listed(h)) /\ step[h] \in HookSteps
<1> USE EndsWith DEF ButtonsInv, GoesOn, Steps, HookSteps
<1>1. CASE CallFails(h)
  BY <1>1 DEF CallFails
<1>2. CASE LookUpGroup(h)
  BY <1>2 DEF LookUpGroup
<1>3. CASE SelectProxy(h)
  BY <1>3 DEF SelectProxy
<1>4. CASE UnfixProxy(h)
  BY <1>4 DEF UnfixProxy
<1>5. CASE RereadGroup(h)
  BY <1>5 DEF RereadGroup
<1>6. CASE TestDelay(h)
  BY <1>6 DEF TestDelay
<1>7. CASE SetMode(h)
  BY <1>7 DEF SetMode
<1>8. CASE SetSetting(h)
  BY <1>8 DEF SetSetting
<1>9. CASE RereadSetting(h)
  BY <1>9 DEF RereadSetting
<1>10. CASE CallProvider(h)
  BY <1>10 DEF CallProvider
<1>11. CASE RunAction(h)
  BY <1>11 DEF RunAction
<1>12. CASE ListConns(h)
  BY <1>12 DEF ListConns, Listed
<1>13. CASE CloseAll(h)
  BY <1>13 DEF CloseAll
<1>14. CASE CloseOne(h)
  BY <1>14 DEF CloseOne
<1> QED
  BY <1>1, <1>2, <1>3, <1>4, <1>5, <1>6, <1>7, <1>8, <1>9, <1>10, <1>11, <1>12, <1>13, <1>14
     DEF HookStep

LEMMA WorkMoves ==
  ASSUME ButtonsInv, NEW h \in Handlers, Works(h)
  PROVE  (Ends(h) \/ GoesOn(h) \/ Listed(h)) /\ step[h] \in WorkSteps /\ Tracked(h)
<1> USE EndsWith DEF ButtonsInv, GoesOn, Steps, HookSteps, WorkSteps
<1>1. CASE RunHook(h)
  BY <1>1, HookMoves DEF RunHook
<1>2. CASE AppHook(h)
  BY <1>2 DEF AppHook
<1>3. CASE ListSettings(h)
  BY <1>3 DEF ListSettings
<1>4. CASE ListActions(h)
  BY <1>4 DEF ListActions
<1>5. CASE Forward(h)
  BY <1>5 DEF Forward
<1> QED
  BY <1>1, <1>2, <1>3, <1>4, <1>5 DEF Works

\* The other handlers are where they were, and the types are kept.
LEMMA WorkIsLocal ==
  ASSUME ButtonsInv, NEW h \in Handlers, Works(h)
  PROVE  /\ UNCHANGED <<job, config, name, advertised, todo, received>>
         /\ step' \in [Handlers -> Steps] /\ looked' \in [Handlers -> SUBSET Conns]
         /\ DOMAIN result' = Handlers /\ failures' \in 0..MaxFailures
         /\ \A k \in Handlers \ {h} : /\ step'[k] = step[k] /\ result'[k] = result[k]
                                      /\ looked'[k] = looked[k]
<1>1. /\ step \in [Handlers -> Steps] /\ looked \in [Handlers -> SUBSET Conns]
      /\ DOMAIN result = Handlers /\ failures \in 0..MaxFailures /\ conns \subseteq Conns
  BY DEF ButtonsInv, Shapes, TypeOK, CoreTypeOK
<1>2. UNCHANGED <<config, name, advertised, todo, received>>
  BY WorkMoves DEF Tracked
<1>3. CASE Ends(h)
  BY <1>1, <1>2, <1>3 DEF Ends, Return, Goto, Steps
<1>4. CASE GoesOn(h)
  BY <1>1, <1>2, <1>4 DEF GoesOn, Continue, Quietly, Goto
<1>5. CASE Listed(h)
  BY <1>1, <1>2, <1>5 DEF Listed, Goto
<1> QED
  BY <1>3, <1>4, <1>5, WorkMoves

\* What a handler at work does to the core.
LEMMA WorkOnCore ==
  ASSUME ButtonsInv, NEW h \in Handlers, Works(h)
  PROVE  /\ CoreShape' /\ ConnsOnlyClose
         /\ mode' # mode => step[h] = "patchMode"
         /\ settings' # settings => step[h] = "patchSetting"
<1>0. CoreShape /\ Fits(h)
  BY DEF ButtonsInv, Shapes, TypeOK, CoreShape
<1>1. CASE UNCHANGED coreVars
  BY <1>0, <1>1, CoreUnchanged DEF coreVars
<1>2. CASE \E g, n, r : PutProxy(g, n, r) \/ DeleteProxy(g, r) \/ GroupDelay(g, r)
  BY <1>0, <1>2, GroupCallStep DEF ConnsOnlyClose
<1>3. CASE \E ids : DeleteConns(ids)
  BY <1>0, <1>3, DeleteConnsStep DEF ConnsOnlyClose
<1>4. CASE \E r : Measure(r)
  BY <1>0, <1>4, MeasureStep DEF ConnsOnlyClose
<1>5. CASE \E kind, r : PutProvider(kind, r)
  BY <1>0, <1>5, ProviderStep DEF ConnsOnlyClose
<1>6. CASE LoadProfile
  BY <1>0, <1>6, LoadStep DEF ConnsOnlyClose
<1>7. CASE SetMode(h)
  <2>1. step[h] = "patchMode" /\ \E r : PatchMode(job[h].arg, r)
    BY <1>7 DEF SetMode
  <2>2. job[h].arg \in Modes
    BY <1>0, <2>1 DEF Fits, Serving, Valid, ValidMode
  <2> QED
    BY <1>0, <2>1, <2>2 DEF PatchMode, groupVars, connVars, CoreShape, CoreTypeOK, ConnsOnlyClose
<1>8. CASE SetSetting(h)
  <2>1. /\ step[h] = "patchSetting" /\ \E r : PatchSetting(job[h].name, job[h].arg, r)
        /\ job[h].name \in SettingKeys /\ checkSettingValue(job[h].name, job[h].arg)
    BY <1>0, <1>8 DEF SetSetting, Fits
  <2>2. /\ settings' \in [SettingKeys -> Booleans \cup Options]
        /\ settings'["tun"] \in Booleans /\ settings'["log_level"] \in Options
    BY <1>0, <2>1 DEF PatchSetting, CoreShape, checkSettingValue, SettingKeys
  <2> QED
    BY <1>0, <2>1, <2>2 DEF PatchSetting, groupVars, connVars, CoreShape, CoreTypeOK, ConnsOnlyClose
<1>9. CASE HookStep(h)
  BY <1>1, <1>2, <1>3, <1>4, <1>5, <1>7, <1>8, <1>9 DEF HookStep, CallFails, LookUpGroup,
     SelectProxy, UnfixProxy, RereadGroup, TestDelay, RereadSetting, CallProvider, RunAction,
     ListConns, CloseAll, CloseOne
<1>10. CASE Forward(h)
  <2>1. CASE \E m, p : Allowed(m, p) /\ CoreCall(m, splitPath(p))
    BY <1>0, <2>1, RelayedStep DEF ConnsOnlyClose
  <2> QED
    BY <1>1, <1>10, <2>1 DEF Forward, AllowedReadOnly
<1> QED
  BY <1>1, <1>6, <1>9, <1>10 DEF Works, RunHook, AppHook, ListSettings, ListActions

\* The app's state keeps its type, and nobody renames.
LEMMA WorkOnApp ==
  ASSUME ButtonsInv, NEW h \in Handlers, Works(h)
  PROVE  /\ app' \in [AppFields -> BOOLEAN] /\ name' = name
         /\ step[h] # "app" => app' = app
<1>0. app \in [AppFields -> BOOLEAN]
  BY DEF ButtonsInv, TypeOK
<1>1. CASE UNCHANGED app
  BY <1>0, <1>1, WorkMoves DEF Tracked
<1>2. CASE AppHook(h)
  <2>1. CASE UNCHANGED app
    BY <1>1, <2>1
  <2>2. ASSUME NEW fs, app' = [f \in AppFields |-> IF f \in fs THEN ~app[f] ELSE app[f]]
        PROVE  app' \in [AppFields -> BOOLEAN]
    <3>1. ASSUME NEW f \in AppFields
          PROVE  (IF f \in fs THEN ~app[f] ELSE app[f]) \in BOOLEAN
      BY <1>0
    <3> QED
      BY <2>2, <3>1
  <2> QED
    BY <1>2, <2>1, <2>2, WorkMoves DEF AppHook, Tracked
<1> QED
  BY <1>1, <1>2 DEF Works, RunHook, ListSettings, ListActions, Forward

-----------------------------------------------------------------------------
(* How a step of the work ends.                                              *)

\* One disjunct per way the present step can go on or return.
Outcome(h) ==
  LET q == job[h]
      r == result'[h]
      returns == step'[h] = "returned"
  IN  \/ returns /\ r.code \in {"not_found", "invalid"} /\ UNCHANGED <<coreVars, app>>
      \/ returns /\ r.code \in {"error", "relayed"}
      \/ returns /\ r.code = "ok" /\ q.op \notin ValueOps \cup {"CloseConnections"}
      \/ returns /\ r.code = "ok" /\ step[h] = "put" /\ r.value = now'[q.name]
      \/ returns /\ r.code = "ok" /\ step[h] = "patchMode" /\ r.value = mode'
      \/ step[h] = "delete" /\ step'[h] = "reread"
      \/ /\ returns /\ r.code = "ok" /\ step[h] = "reread"
         /\ r.value = now[q.name] /\ UNCHANGED coreVars
      \/ step[h] = "patchSetting" /\ step'[h] = "readSetting"
      \/ /\ returns /\ r.code = "ok" /\ step[h] = "readSetting"
         /\ r.value = settings[q.name] /\ UNCHANGED coreVars
      \/ /\ step[h] \in {"group", "settings", "listConns", "actions"}
         /\ UNCHANGED <<coreVars, app>>
         /\ step'[h] \in WorkSteps \ {"reread", "readSetting"}
      \/ returns /\ r.code = "ok" /\ step[h] = "closeAll" /\ conns' = {}
      \/ returns /\ r.code = "ok" /\ step[h] = "closeOne" /\ conns' = conns \ {q.arg}

LEMMA Continues ==
  ASSUME ButtonsInv, NEW h \in Handlers, NEW next, Goto(h, next)
  PROVE  step'[h] = next
  BY DEF Goto, ButtonsInv, Shapes

\* A call the core refused, or one whose answer was lost.
LEMMA Failing ==
  ASSUME ButtonsInv, NEW h \in Handlers
  PROVE  /\ \A code : Fail(h, code) => step'[h] = "returned" /\ result'[h].code = code
         /\ \A r : Refused(h, r) => /\ step'[h] = "returned" /\ result'[h].code = r
                                    /\ r \in {"not_found", "invalid"}
         /\ Lost(h) => step'[h] = "returned" /\ result'[h].code = "error"
         /\ \A value : Succeed(h, value) => /\ step'[h] = "returned" /\ result'[h].code = "ok"
                                            /\ result'[h].value = value
         /\ \A n : Return(h, "ok", None, n) => step'[h] = "returned" /\ result'[h].code = "ok"
         /\ CallFails(h) => /\ step'[h] = "returned" /\ UNCHANGED coreVars
                            /\ result'[h].code \in {"error", "not_found", "invalid"}
<1> USE DEF Return, Goto, ButtonsInv, Shapes
<1>1. \A code : Fail(h, code) => step'[h] = "returned" /\ result'[h].code = code
  BY DEF Fail
<1>2. Lost(h) => step'[h] = "returned" /\ result'[h].code = "error"
  BY DEF Lost
<1>3. \A value : Succeed(h, value) => /\ step'[h] = "returned" /\ result'[h].code = "ok"
                                      /\ result'[h].value = value
  BY DEF Succeed
<1>4. \A n : Return(h, "ok", None, n) => step'[h] = "returned" /\ result'[h].code = "ok"
  OBVIOUS
<1>5. CallFails(h) => /\ step'[h] = "returned" /\ UNCHANGED coreVars
                      /\ result'[h].code \in {"error", "not_found", "invalid"}
  BY DEF CallFails
<1> QED
  BY <1>1, <1>2, <1>3, <1>4, <1>5 DEF Refused

LEMMA NamesAreGroups ==
  ASSUME ButtonsInv, NEW h \in Handlers, Serving(h), job[h].op \in GroupOps
  PROVE  job[h].name \in Groups
  BY RequestAssumption DEF ButtonsInv, Fits, Valid, ValidProxies, GroupOps

LEMMA HookOutcome ==
  ASSUME ButtonsInv, NEW h \in Handlers, HookStep(h), UNCHANGED app
  PROVE  Outcome(h)
<1> USE Failing, Continues DEF Outcome
<1>0. CoreShape /\ Fits(h)
  BY DEF ButtonsInv, Shapes, TypeOK, CoreShape
<1>1. CASE CallFails(h)
  BY <1>1
<1>2. CASE LookUpGroup(h)
  BY <1>2 DEF LookUpGroup, Continue, WorkSteps, HookSteps
<1>3. CASE SelectProxy(h)
  <2>1. job[h].name \in Groups
    BY <1>0, <1>3, NamesAreGroups DEF SelectProxy, Serving, Fits, GroupOps
  <2>2. PICK r \in Answers :
          /\ PutProxy(job[h].name, job[h].arg, r)
          /\ Refused(h, r) \/ Lost(h) \/ (r = "ok" /\ Succeed(h, job[h].arg))
    BY <1>3 DEF SelectProxy
  <2>3. CASE r = "ok" /\ Succeed(h, job[h].arg)
    <3>1. now'[job[h].name] = job[h].arg
      BY <1>0, <2>1, <2>2, <2>3 DEF PutProxy, CoreShape, CoreTypeOK
    <3> QED
      BY <1>3, <2>3, <3>1 DEF SelectProxy
  <2>4. CASE Refused(h, r)
    BY <1>0, <2>2, <2>4, GroupCallStep
  <2> QED
    BY <2>2, <2>3, <2>4
<1>4. CASE UnfixProxy(h)
  <2>1. PICK r \in Answers :
          /\ DeleteProxy(job[h].name, r)
          /\ Refused(h, r) \/ Lost(h) \/ (r = "ok" /\ Continue(h, "reread"))
    BY <1>4 DEF UnfixProxy
  <2>2. CASE Refused(h, r)
    BY <1>0, <2>1, <2>2, GroupCallStep
  <2> QED
    BY <1>4, <2>1, <2>2 DEF UnfixProxy, Continue
<1>5. CASE RereadGroup(h)
  BY <1>5 DEF RereadGroup
<1>6. CASE TestDelay(h)
  <2>1. job[h].op = "TestDelay"
    BY <1>0, <1>6 DEF TestDelay, Fits
  <2>2. PICK r \in Answers : /\ GroupDelay(job[h].name, r) \/ Measure(r)
                             /\ Refused(h, r) \/ Lost(h) \/ Succeed(h, None)
    BY <1>6 DEF TestDelay
  <2>3. CASE Refused(h, r)
    BY <1>0, <2>2, <2>3, GroupCallStep, MeasureStep
  <2> QED
    BY <2>1, <2>2, <2>3 DEF ValueOps
<1>7. CASE SetMode(h)
  <2>1. PICK r \in Answers :
          /\ PatchMode(job[h].arg, r)
          /\ Refused(h, r) \/ Lost(h) \/ (r = "ok" /\ Succeed(h, job[h].arg))
    BY <1>7 DEF SetMode
  <2>2. CASE Refused(h, r)
    <3>1. UNCHANGED coreVars
      BY <2>1, <2>2, Failing DEF PatchMode, groupVars, connVars, coreVars
    <3> QED
      BY <2>2, <3>1
  <2>3. CASE r = "ok" /\ Succeed(h, job[h].arg)
    BY <1>7, <2>1, <2>3 DEF SetMode, PatchMode
  <2> QED
    BY <2>1, <2>2, <2>3
<1>8. CASE SetSetting(h)
  <2>1. PICK r \in Answers :
          /\ PatchSetting(job[h].name, job[h].arg, r)
          /\ Refused(h, r) \/ Lost(h) \/ (r = "ok" /\ Continue(h, "readSetting"))
    BY <1>8 DEF SetSetting
  <2>2. CASE Refused(h, r)
    <3>1. UNCHANGED coreVars
      BY <2>1, <2>2, Failing DEF PatchSetting, groupVars, connVars, coreVars
    <3> QED
      BY <2>2, <3>1
  <2> QED
    BY <1>8, <2>1, <2>2 DEF SetSetting, Continue
<1>9. CASE RereadSetting(h)
  BY <1>9 DEF RereadSetting
<1>10. CASE CallProvider(h)
  <2>1. job[h].op \in {"UpdateProvider", "HealthCheck"}
    BY <1>0, <1>10 DEF CallProvider, Fits
  <2>2. PICK r \in Answers : /\ Measure(r) \/ PutProvider(job[h].arg, r)
                             /\ Refused(h, r) \/ Lost(h) \/ Succeed(h, None)
    BY <1>10 DEF CallProvider
  <2>3. CASE Refused(h, r)
    BY <1>0, <2>2, <2>3, MeasureStep, ProviderStep
  <2> QED
    BY <2>1, <2>2, <2>3 DEF ValueOps
<1>11. CASE RunAction(h)
  BY <1>0, <1>11 DEF RunAction, Fits, ValueOps
<1>12. CASE ListConns(h)
  BY <1>12 DEF ListConns, WorkSteps, HookSteps
<1>13. CASE CloseAll(h)
  BY <1>13 DEF CloseAll, DeleteConns
<1>14. CASE CloseOne(h)
  BY <1>14 DEF CloseOne, DeleteConns
<1> QED
  BY <1>1, <1>2, <1>3, <1>4, <1>5, <1>6, <1>7, <1>8, <1>9, <1>10, <1>11, <1>12, <1>13, <1>14
     DEF HookStep

LEMMA WorkOutcome ==
  ASSUME ButtonsInv, NEW h \in Handlers, Works(h)
  PROVE  Outcome(h)
<1> USE Failing, Continues DEF Outcome
<1>0. Fits(h)
  BY DEF ButtonsInv
<1>1. CASE RunHook(h)
  BY <1>1, HookOutcome DEF RunHook
<1>2. CASE AppHook(h)
  BY <1>0, <1>2 DEF AppHook, Fits
<1>3. CASE ListSettings(h)
  BY <1>3 DEF ListSettings, Continue, WorkSteps, HookSteps
<1>4. CASE ListActions(h)
  BY <1>4 DEF ListActions, Continue, WorkSteps, HookSteps
<1>5. CASE Forward(h)
  BY <1>5 DEF Forward
<1> QED
  BY <1>1, <1>2, <1>3, <1>4, <1>5 DEF Works

\* The next step fits the request again.
LEMMA WorkFits ==
  ASSUME ButtonsInv, NEW h \in Handlers, Works(h), NEW k \in Handlers
  PROVE  Fits(k)'
<1>0. Fits(k) /\ job' = job /\ config' = config /\ used \subseteq used'
  BY WorkIsLocal, WorkOnCore DEF ButtonsInv, ConnsOnlyClose
<1>1. CASE k # h
  <2>1. step'[k] = step[k]
    BY <1>1, WorkIsLocal
  <2> QED
    BY <1>0, <2>1 DEF Fits, Serving, gated, remote
<1>2. CASE k = h
  <2> USE <1>2
  <2>1. Serving(h) /\ job[h] \in Requests[h] /\ gated(job[h].op)' /\ Valid(job[h])
    BY <1>0, WorkMoves DEF Serving, WorkSteps, HookSteps, Fits, gated, remote
  <2>2. CASE step'[h] = "returned"
    BY <1>0, <2>1, <2>2 DEF Fits
  <2>3. CASE step[h] = "delete" /\ step'[h] = "reread"
    BY <1>0, <2>1, <2>3 DEF Fits
  <2>4. CASE step[h] = "patchSetting" /\ step'[h] = "readSetting"
    BY <1>0, <2>1, <2>4 DEF Fits
  <2>5. CASE LookUpGroup(h)
    <3>1. /\ job[h].op \in GroupOps
          /\ \/ job[h].op = "SelectProxy" /\ step'[h] = "put"
             \/ job[h].op = "UnfixProxy" /\ step'[h] = "delete"
             \/ job[h].op = "TestDelay" /\ step'[h] \in {"groupDelay", "nodeDelay"}
             \/ step'[h] = "returned"
      <4>1. job[h].op \in GroupOps
        BY <1>0, <2>5 DEF LookUpGroup, Fits
      <4>2. \/ \E code : Fail(h, code)
            \/ job[h].op = "SelectProxy" /\ Continue(h, "put")
            \/ job[h].op = "UnfixProxy" /\ Continue(h, "delete")
            \/ job[h].op = "TestDelay" /\ \E next \in {"groupDelay", "nodeDelay"} : Continue(h, next)
        BY <2>5, <4>1 DEF LookUpGroup, GroupOps
      <4> QED
        BY <4>1, <4>2, Failing, Continues DEF Continue
    <3> QED
      BY <1>0, <2>1, <3>1 DEF Fits
  <2>6. CASE ListConns(h)
    <3>1. /\ job[h].op = "CloseConnections"
          /\ \/ job[h].arg = None /\ step'[h] = "closeAll"
             \/ job[h].arg # None /\ job[h].arg \in conns /\ step'[h] = "closeOne"
             \/ step'[h] = "returned"
      BY <1>0, <2>6, Failing, Continues DEF ListConns, Fits
    <3>2. conns \subseteq used'
      BY <1>0 DEF ButtonsInv, TypeOK, CoreTypeOK
    <3> QED
      BY <1>0, <2>1, <3>1, <3>2 DEF Fits
  <2>7. CASE ListSettings(h)
    <3>1. /\ job[h].op = "SetSetting"
          /\ \/ step'[h] = "returned"
             \/ /\ job[h].name \in SettingKeys /\ step'[h] = "patchSetting"
                /\ checkSettingValue(job[h].name, job[h].arg)
      BY <1>0, <2>7, Failing, Continues DEF ListSettings, Fits, Continue
    <3> QED
      BY <1>0, <2>1, <3>1 DEF Fits
  <2>8. CASE ListActions(h)
    <3>1. job[h].op = "RunAction" /\ step'[h] \in {"returned", "post"}
      BY <1>0, <2>8, Failing, Continues DEF ListActions, Fits, Continue
    <3> QED
      BY <1>0, <2>1, <3>1 DEF Fits
  <2>9. CASE step[h] \in {"group", "settings", "listConns", "actions"}
    BY <2>2, <2>5, <2>6, <2>7, <2>8, <2>9, Failing DEF Works, RunHook, HookStep,
       SelectProxy, UnfixProxy, RereadGroup, TestDelay, SetMode, SetSetting, RereadSetting,
       CallProvider, RunAction, CloseAll, CloseOne, AppHook, Forward
  <2> QED
    BY <2>2, <2>3, <2>4, <2>9, WorkOutcome DEF Outcome
<1> QED
  BY <1>1, <1>2

-----------------------------------------------------------------------------
(* The histories, the announcements, and type correctness.                   *)

\* What an operation alters is announced, but for a status it leaves out.
LEMMA Effects ==
  ASSUME NEW op \in Operations
  PROVE  /\ Announces[op] \in Seq(Resources) /\ Announces[op] # <<>>
         /\ \A r \in Effect[op] : \/ \E i \in DOMAIN Announces[op] : Announces[op][i] = r
                                  \/ r = "status" /\ op \in StatusUnannounced
<1>0. op \in {"Power", "Rename", "Subscription", "SelectProxy", "UnfixProxy", "TestDelay",
              "SetMode", "SelectProfile", "UpdateProfile", "DeleteProfile",
              "UpdateProvider", "HealthCheck", "CloseConnections", "SetSetting"}
  BY DEF Operations, Announces
<1>1. CASE op \in {"Power", "Rename", "Subscription", "HealthCheck", "CloseConnections",
                   "SetSetting"}
  <2>1. PICK r \in Resources : Announces[op] = <<r>> /\ Effect[op] = {r}
    BY <1>1 DEF Announces, Effect, Resources
  <2> QED
    BY <2>1
<1>2. CASE op \in {"SelectProxy", "UnfixProxy", "SetMode"}
  <2>1. PICK r \in Resources, s \in Resources : Announces[op] = <<r, s>> /\ Effect[op] = {r, s}
    BY <1>2 DEF Announces, Effect, Resources
  <2> QED
    BY <2>1
<1>3. CASE op \in {"TestDelay", "DeleteProfile"}
  <2>1. PICK r \in Resources : Announces[op] = <<r>> /\ Effect[op] = {r, "status"}
    BY <1>3 DEF Announces, Effect, Resources
  <2> QED
    BY <1>3, <2>1 DEF StatusUnannounced
<1>4. CASE op = "UpdateProvider"
  <2>1. /\ Announces[op] = <<"providers", "proxies">>
        /\ Effect[op] = {"providers", "proxies", "status"}
    BY <1>4 DEF Announces, Effect
  <2> QED
    BY <1>4, <2>1 DEF Resources, StatusUnannounced
<1>5. CASE op = "UpdateProfile"
  <2>1. /\ Announces[op] = <<"profiles", "proxies", "providers">>
        /\ Effect[op] = {"profiles", "proxies", "providers", "status"}
    BY <1>5 DEF Announces, Effect
  <2> QED
    BY <1>5, <2>1 DEF Resources, StatusUnannounced
<1>6. CASE op = "SelectProfile"
  <2>1. /\ Announces[op] = <<"profiles", "proxies", "providers", "status">>
        /\ Effect[op] = {"profiles", "proxies", "providers", "status"}
    BY <1>6 DEF Announces, Effect
  <2> QED
    BY <2>1 DEF Resources
<1> QED
  BY <1>0, <1>1, <1>2, <1>3, <1>4, <1>5, <1>6

\* What a step of the work adds to the histories of handler k.
LEMMA WorkHistory ==
  ASSUME ButtonsInv, NEW h \in Handlers, Works(h), NEW k \in Handlers
  PROVE  /\ DOMAIN past' = Handlers /\ DOMAIN past'[k] = Fields
         /\ past'[k].open = past[k].open
         /\ past'[k].closed = IF k = h THEN past[k].closed \cup (conns \ conns')
                                       ELSE past[k].closed
         /\ past'[k].changed <=> past[k].changed \/ (k = h /\ Changes(h))
         /\ past'[k].since = IF past[k].since # {} \/ (k = h /\ step[k] \in WriteSteps)
                             THEN past[k].since \cup {Item(k)'} ELSE past[k].since
<1>1. /\ DOMAIN past = Handlers /\ DOMAIN past[k] = Fields
  BY DEF ButtonsInv, Shapes
<1>2. Observe({h}, Changes(h))
  BY WorkMoves DEF Tracked
<1> HIDE DEF Changes
<1> QED
  BY <1>1, <1>2 DEF Observe, Fields

LEMMA EventHistory ==
  ASSUME ButtonsInv, BehindTheGateway, NEW k \in Handlers
  PROVE  /\ DOMAIN past' = Handlers /\ DOMAIN past'[k] = Fields
         /\ past'[k].open = past[k].open /\ past'[k].closed = past[k].closed
         /\ past'[k].changed <=> past[k].changed
         /\ past'[k].since = IF past[k].since # {} THEN past[k].since \cup {Item(k)'}
                                                   ELSE past[k].since
<1>1. /\ DOMAIN past = Handlers /\ DOMAIN past[k] = Fields
  BY DEF ButtonsInv, Shapes
<1>2. Observe({}, FALSE)
  BY DEF BehindTheGateway
<1> QED
  BY <1>1, <1>2 DEF Observe, Fields

\* What shows that a resource was altered.
LEMMA AlteredBy ==
  /\ Altered \subseteq Resources
  /\ "proxies" \in Altered => ~UNCHANGED <<all, now, fixed, delays>>
  /\ "mode" \in Altered => ~UNCHANGED mode
  /\ "settings" \in Altered => ~UNCHANGED settings
  /\ "connections" \in Altered => ~UNCHANGED conns
  /\ "providers" \in Altered => ~UNCHANGED providers
  /\ "profiles" \in Altered => app'["profiles"] # app["profiles"] \/ app'["active"] # app["active"]
  /\ "status" \in Altered => \/ ~UNCHANGED <<name, mode, now>>
                             \/ app'["power"] # app["power"] \/ app'["active"] # app["active"]
  BY DEF Altered, View

LEMMA NothingAltered ==
  ASSUME UNCHANGED <<coreVars, app, name>>
  PROVE  Altered = {}
  BY AlteredBy DEF coreVars, Resources

\* A step of the work alters nothing its operation is not known for.
LEMMA WorkAlters ==
  ASSUME ButtonsInv, NEW h \in Handlers, Works(h), job[h].op \in Operations
  PROVE  Altered \subseteq Effect[job[h].op]
<1> DEFINE op == job[h].op
<1>0. CoreShape /\ Fits(h) /\ name' = name
  BY WorkOnApp DEF ButtonsInv, Shapes, TypeOK, CoreShape
<1>1. CASE UNCHANGED <<coreVars, app>>
  BY <1>0, <1>1, NothingAltered
<1>2. CASE /\ op \in {"SelectProxy", "UnfixProxy", "TestDelay"} /\ UNCHANGED app
           /\ UNCHANGED <<mode, settings, providers, conns>>
  <2>1. Effect[op] = {"proxies", "status"}
    BY <1>2 DEF Effect
  <2> QED
    BY <1>2, <2>1, AlteredBy DEF Resources
<1>3. CASE /\ op = "SetMode" /\ UNCHANGED app
           /\ UNCHANGED <<all, now, fixed, delays, settings, providers, conns>>
  <2>1. Effect[op] = {"mode", "status"}
    BY <1>3 DEF Effect
  <2> QED
    BY <1>3, <2>1, AlteredBy DEF Resources
<1>4. CASE /\ op = "SetSetting" /\ UNCHANGED app
           /\ UNCHANGED <<all, now, fixed, delays, mode, providers, conns>>
  <2>1. Effect[op] = {"settings"}
    BY <1>4 DEF Effect
  <2> QED
    BY <1>0, <1>4, <2>1, AlteredBy DEF Resources
<1>5. CASE /\ op = "HealthCheck" /\ UNCHANGED app
           /\ UNCHANGED <<all, now, fixed, mode, settings, providers, conns>>
  <2>1. Effect[op] = {"proxies"}
    BY <1>5 DEF Effect
  <2> QED
    BY <1>0, <1>5, <2>1, AlteredBy DEF Resources
<1>6. CASE op = "UpdateProvider" /\ UNCHANGED app /\ UNCHANGED <<mode, settings, conns>>
  <2>1. Effect[op] = {"providers", "proxies", "status"}
    BY <1>6 DEF Effect
  <2> QED
    BY <1>6, <2>1, AlteredBy DEF Resources
<1>7. CASE /\ op = "CloseConnections" /\ UNCHANGED app
           /\ UNCHANGED <<all, now, fixed, delays, mode, settings, providers>>
  <2>1. Effect[op] = {"connections"}
    BY <1>7 DEF Effect
  <2> QED
    BY <1>0, <1>7, <2>1, AlteredBy DEF Resources
<1>8. CASE AppHook(h)
  <2>1. CASE UNCHANGED <<coreVars, app>>
    BY <1>1, <2>1
  <2>2. CASE ~UNCHANGED <<coreVars, app>>
    <3>1. \A f \in AppFields \ AppChanges(op) : app'[f] = app[f]
      BY <1>8, <2>2 DEF AppHook
    <3>5. UNCHANGED coreVars \/ op \in {"SelectProfile", "UpdateProfile"}
      BY Zenon, <1>8 DEF AppHook
    <3>6. UNCHANGED coreVars \/ LoadProfile
      BY Zenon, <1>8 DEF AppHook
    <3>2. CASE op \in {"Power", "Subscription", "DeleteProfile"}
      <4>1. UNCHANGED <<all, now, fixed, delays, mode, settings, providers, conns>>
        BY <3>2, <3>5 DEF coreVars
      <4>2. \/ Effect[op] = {"status"} /\ AppChanges(op) = {"power"}
            \/ Effect[op] = {"profiles"} /\ AppChanges(op) = {"profiles"}
            \/ Effect[op] = {"profiles", "status"}
        BY <3>2 DEF Effect, AppChanges
      <4> QED
        BY <1>0, <3>1, <4>1, <4>2, AlteredBy DEF Resources, AppFields
    <3>3. CASE op \in {"SelectProfile", "UpdateProfile"}
      <4>1. UNCHANGED <<mode, settings, conns>>
        BY <1>0, <3>6, LoadStep DEF coreVars
      <4>2. Effect[op] = {"profiles", "proxies", "providers", "status"}
        BY <3>3 DEF Effect
      <4> QED
        BY <4>1, <4>2, AlteredBy DEF Resources
    <3>4. CASE op \notin {"Power", "Subscription", "DeleteProfile", "SelectProfile", "UpdateProfile"}
      <4>1. AppChanges(op) = {} /\ UNCHANGED coreVars
        BY <3>4, <3>5 DEF AppChanges
      <4>2. Altered = {}
        BY <1>0, <3>1, <4>1, AlteredBy DEF coreVars, Resources, AppFields
      <4> QED
        BY <4>2
    <3> QED
      BY <3>2, <3>3, <3>4
  <2> QED
    BY <2>1, <2>2
<1>9. ASSUME HookStep(h), UNCHANGED app PROVE Altered \subseteq Effect[op]
  <2>1. CASE SelectProxy(h) \/ UnfixProxy(h) \/ TestDelay(h)
    <3>1. op \in {"SelectProxy", "UnfixProxy", "TestDelay"}
      BY <1>0, <2>1 DEF SelectProxy, UnfixProxy, TestDelay, Fits
    <3>2. UNCHANGED <<mode, settings, providers, conns>>
      BY <1>0, <2>1, GroupCallStep, MeasureStep DEF SelectProxy, UnfixProxy, TestDelay
    <3> QED
      BY <1>2, <1>9, <3>1, <3>2
  <2>2. CASE SetMode(h)
    BY <1>0, <1>3, <1>9, <2>2 DEF SetMode, PatchMode, groupVars, connVars, Fits
  <2>3. CASE SetSetting(h)
    BY <1>0, <1>4, <1>9, <2>3 DEF SetSetting, PatchSetting, groupVars, connVars, Fits
  <2>4. CASE CallProvider(h)
    <3>1. op \in {"UpdateProvider", "HealthCheck"}
      BY <1>0, <2>4 DEF CallProvider, Fits
    <3>2. CASE op = "HealthCheck"
      <4>1. \E r : Measure(r)
        BY <2>4, <3>2 DEF CallProvider
      <4> QED
        BY <1>0, <1>5, <1>9, <3>2, <4>1, MeasureStep
    <3>3. CASE op = "UpdateProvider"
      <4>1. \E kind, r : PutProvider(kind, r)
        BY <2>4, <3>3 DEF CallProvider
      <4> QED
        BY <1>0, <1>6, <1>9, <3>3, <4>1, ProviderStep
    <3> QED
      BY <3>1, <3>2, <3>3
  <2>5. CASE CloseAll(h) \/ CloseOne(h)
    <3>1. op = "CloseConnections" /\ \E ids : DeleteConns(ids)
      BY <1>0, <2>5 DEF CloseAll, CloseOne, Fits
    <3> QED
      BY <1>0, <1>7, <1>9, <3>1, DeleteConnsStep
  <2>6. CASE UNCHANGED coreVars
    BY <1>1, <1>9, <2>6
  <2> QED
    BY <1>9, <2>1, <2>2, <2>3, <2>4, <2>5, <2>6 DEF HookStep, CallFails, LookUpGroup,
       RereadGroup, RereadSetting, RunAction, ListConns
<1>10. CASE Forward(h)
  BY <1>0, <1>10 DEF Forward, Fits, Operations, Announces
<1> QED
  BY <1>1, <1>8, <1>9, <1>10 DEF Works, RunHook, ListSettings, ListActions

\* What a step of the work owes to the controllers.
LEMMA WorkOwes ==
  ASSUME ButtonsInv, NEW h \in Handlers, Works(h)
  PROVE  /\ owed' \in [Handlers -> SUBSET Resources]
         /\ \A k \in Handlers \ {h} : owed'[k] = owed[k]
         /\ job[h].op \in Operations => owed'[h] \subseteq owed[h] \cup Effect[job[h].op]
<1>1. owed \in [Handlers -> SUBSET Resources]
  BY DEF ButtonsInv, TypeOK
<1>2. owed' = [owed EXCEPT ![h] = @ \cup Altered]
  BY WorkMoves DEF Tracked, Owes
<1>3. Altered \subseteq Resources
  BY AlteredBy
<1> HIDE DEF Altered
<1> QED
  BY <1>1, <1>2, <1>3, WorkAlters

LEMMA WorkInv ==
  ASSUME ButtonsInv, NEW h \in Handlers, Works(h)
  PROVE  ButtonsInv'
<1>1. TypeOK'
  BY WorkIsLocal, WorkOnCore, WorkOnApp, WorkOwes DEF ButtonsInv, TypeOK, CoreShape
<1>2. Shapes'
  BY WorkIsLocal, WorkOnCore, WorkHistory DEF ButtonsInv, Shapes, CoreShape
<1> QED
  BY <1>1, <1>2, WorkFits DEF ButtonsInv

LEMMA ReceiveInv ==
  ASSUME ButtonsInv, NEW h \in Handlers, NEW q \in Requests[h], Receive(h, q)
  PROVE  ButtonsInv'
<1> USE DEF ButtonsInv
<1>0. /\ CoreShape /\ q \in AllRequests /\ FirstStep(q.op) \in Steps
      /\ step' = [step EXCEPT ![h] = FirstStep(q.op)] /\ job' = [job EXCEPT ![h] = q]
      /\ UNCHANGED <<used, config>>
  BY DEF Receive, Goto, Shapes, TypeOK, CoreShape, FirstStep, AllRequests, Steps, HookSteps, coreVars
<1>1. CoreShape' /\ received' \in [Handlers -> 0..MaxRequests]
  <2>1. received[h] \in Nat /\ received[h] + 1 \in 0..MaxRequests
    BY ButtonsAssumption DEF Receive, TypeOK
  <2> QED
    BY <1>0, <2>1, CoreUnchanged DEF Receive, TypeOK, coreVars
<1>2. owed' \in [Handlers -> SUBSET Resources]
  BY DEF Receive, TypeOK
<1>3. DOMAIN past' = Handlers /\ \A k \in Handlers : DOMAIN past'[k] = Fields
  BY DEF Receive, Shapes, Fields
<1>4. ASSUME NEW k \in Handlers PROVE Fits(k)'
  <2>1. CASE k # h
    BY <1>0, <2>1 DEF Fits, Serving, gated, remote, Shapes
  <2>2. CASE k = h
    <3>1. step'[h] = FirstStep(q.op) /\ job'[h] = q /\ gated(q.op)' /\ Valid(q)
      BY <1>0 DEF Receive, Shapes, gated, remote
    <3> QED
      BY <2>2, <3>1 DEF Fits, Serving, FirstStep, GroupOps, ValueOps
  <2> QED
    BY <2>1, <2>2
<1> QED
  BY <1>0, <1>1, <1>2, <1>3, <1>4 DEF Receive, TypeOK, Shapes, CoreShape, AllRequests

\* handleRename, the answer and the announcements leave the core alone.
LEMMA RenameInv ==
  ASSUME ButtonsInv, NEW h \in Handlers, Rename(h) \/ OnRename(h)
  PROVE  ButtonsInv'
<1> USE DEF ButtonsInv
<1>0. /\ CoreShape /\ Fits(h) /\ step[h] \in {"rename", "onRename"} /\ UNCHANGED coreVars
      /\ job[h] \in Requests[h]
      /\ UNCHANGED <<job, config, looked, todo, past, received, failures, app>>
  BY DEF Rename, OnRename, Continue, Quietly, Succeed, Return, Shapes, TypeOK, CoreShape,
     Fits, Serving
<1>1. CoreShape' /\ used' = used
  BY <1>0, CoreUnchanged DEF coreVars
<1>2. owed' \in [Handlers -> SUBSET Resources]
  <2>1. owed' = owed \/ owed' = [owed EXCEPT ![h] = @ \cup Altered]
    BY DEF Rename, OnRename, Owes
  <2>2. Altered \subseteq Resources
    BY AlteredBy
  <2> HIDE DEF Altered
  <2> QED
    BY <2>1, <2>2 DEF TypeOK
<1>3. /\ step' \in [Handlers -> Steps] /\ step'[h] \in {"onRename", "returned"}
      /\ \A k \in Handlers \ {h} : step'[k] = step[k]
      /\ DOMAIN result' = Handlers
  BY <1>0 DEF Rename, OnRename, Continue, Succeed, Return, Goto, Quietly, Shapes, Steps
<1>4. ASSUME NEW k \in Handlers PROVE Fits(k)'
  BY <1>0, <1>1, <1>3 DEF Fits, Serving, gated, remote
<1>5. {name', advertised'} \subseteq {FirstName} \cup {q.arg : q \in AllRequests}
  BY <1>0 DEF Rename, OnRename, TypeOK, AllRequests
<1> QED
  BY <1>0, <1>1, <1>2, <1>3, <1>4, <1>5 DEF TypeOK, Shapes, CoreShape

LEMMA AnswerInv ==
  ASSUME ButtonsInv, NEW h \in Handlers, Answer(h)
  PROVE  ButtonsInv'
<1> USE DEF ButtonsInv
<1>0. /\ CoreShape /\ UNCHANGED coreVars /\ UNCHANGED <<config, name, advertised, app, owed, received>>
  BY DEF Answer, Done, Shapes, TypeOK, CoreShape
<1>1. CoreShape' /\ used' = used
  BY <1>0, CoreUnchanged DEF coreVars
<1>2. step' \in [Handlers -> Steps] /\ step'[h] \in {"notify", "idle"}
  BY DEF Answer, Leave, Goto, Shapes, Steps
<1>5. todo' \in [Handlers -> Seq(Resources)]
  BY Effects DEF Answer, Shapes
<1>3. /\ job' \in [Handlers -> AllRequests \cup {NoJob}]
      /\ looked' \in [Handlers -> SUBSET Conns]
      /\ DOMAIN result' = Handlers /\ failures' = failures
      /\ DOMAIN past' = Handlers /\ \A k \in Handlers : DOMAIN past'[k] = Fields
  BY DEF Answer, Leave, Done, Shapes, NoPast, Fields
<1>4. ASSUME NEW k \in Handlers PROVE Fits(k)'
  <2>1. CASE k = h
    BY <1>2, <2>1 DEF Fits, Serving
  <2>2. CASE k # h
    <3>1. step'[k] = step[k] /\ job'[k] = job[k]
      BY <2>2 DEF Answer, Leave, Done, Goto, Shapes
    <3> QED
      BY <1>0, <1>1, <3>1 DEF Fits, Serving, gated, remote
  <2> QED
    BY <2>1, <2>2
<1> QED
  BY <1>0, <1>1, <1>2, <1>3, <1>4, <1>5 DEF TypeOK, Shapes, CoreShape

LEMMA NotifyInv ==
  ASSUME ButtonsInv, NEW h \in Handlers, Notify(h), todo[h] # <<>>
  PROVE  ButtonsInv'
<1> USE DEF ButtonsInv
<1>0. /\ CoreShape /\ UNCHANGED coreVars
      /\ UNCHANGED <<config, name, advertised, app, received, past, looked, result, failures>>
      /\ job' \in [Handlers -> AllRequests \cup {NoJob}]
  BY DEF Notify, Leave, Shapes, TypeOK, CoreShape
<1>1. CoreShape' /\ used' = used
  BY <1>0, CoreUnchanged DEF coreVars
<1>2. step' \in [Handlers -> Steps] /\ step'[h] \in {"notify", "idle"}
  BY DEF Notify, Leave, Goto, Shapes, Steps
<1>5. todo' \in [Handlers -> Seq(Resources)]
  BY DEF Notify, Shapes
<1>3. owed' \in [Handlers -> SUBSET Resources]
  BY DEF Notify, TypeOK
<1>4. ASSUME NEW k \in Handlers PROVE Fits(k)'
  <2>1. CASE k = h
    BY <1>2, <2>1 DEF Notify, Fits, Serving, Shapes
  <2>2. CASE k # h
    <3>1. step'[k] = step[k] /\ job'[k] = job[k]
      BY <2>2 DEF Notify, Leave, Goto, Shapes
    <3> QED
      BY <1>0, <1>1, <3>1 DEF Fits, Serving, gated, remote
  <2> QED
    BY <2>1, <2>2
<1> QED
  BY <1>0, <1>1, <1>2, <1>3, <1>4, <1>5 DEF TypeOK, Shapes, CoreShape

LEMMA EventInv ==
  ASSUME ButtonsInv, BehindTheGateway
  PROVE  ButtonsInv'
<1> USE DEF ButtonsInv
<1>1. CoreShape' /\ ConnsOnlyClose
  BY ElsewhereStep DEF BehindTheGateway, Shapes, TypeOK, CoreShape
<1>2. DOMAIN past' = Handlers /\ \A k \in Handlers : DOMAIN past'[k] = Fields
  BY EventHistory DEF BehindTheGateway, Observe
<1>3. ASSUME NEW k \in Handlers PROVE Fits(k)'
  BY <1>1 DEF BehindTheGateway, hookVars, Fits, Serving, gated, remote, ConnsOnlyClose
<1> QED
  BY <1>1, <1>2, <1>3 DEF BehindTheGateway, hookVars, TypeOK, Shapes, CoreShape

\* A handler that announces has something to announce.
Announcing == \A h \in Handlers : step[h] = "notify" => todo[h] # <<>>

LEMMA HandleCases ==
  ASSUME NEW h, Handle(h)
  PROVE  Works(h) \/ Rename(h) \/ OnRename(h) \/ Answer(h) \/ Notify(h)
  BY DEF Handle, Works

LEMMA AnnouncingStep ==
  ASSUME ButtonsInv, Announcing, [Next]_vars
  PROVE  Announcing'
<1> SUFFICES ASSUME NEW k \in Handlers, step'[k] = "notify" PROVE todo'[k] # <<>>
  BY DEF Announcing
<1>0. step \in [Handlers -> Steps] /\ todo \in [Handlers -> Seq(Resources)]
  BY DEF ButtonsInv, Shapes
<1>1. ASSUME NEW h \in Handlers, Works(h) PROVE todo'[k] # <<>>
  <2>1. step'[k] = step[k]
    BY <1>1, WorkIsLocal, WorkOutcome DEF Outcome, WorkSteps, HookSteps
  <2> QED
    BY <1>1, <2>1, WorkIsLocal DEF Announcing
<1>2. ASSUME NEW h \in Handlers, Rename(h) \/ OnRename(h) PROVE todo'[k] # <<>>
  BY <1>0, <1>2 DEF Rename, OnRename, Continue, Succeed, Return, Goto, Announcing
<1>3. ASSUME NEW h \in Handlers, Answer(h) PROVE todo'[k] # <<>>
  BY <1>0, <1>3, Effects DEF Answer, Leave, Goto, Announcing
<1>4. ASSUME NEW h \in Handlers, Notify(h) PROVE todo'[k] # <<>>
  <2>1. CASE k = h
    <3>1. Len(todo[h]) # 1 /\ todo[h] # <<>> /\ todo'[h] = Tail(todo[h])
      BY <1>0, <1>4, <2>1 DEF Notify, Leave, Goto, Announcing
    <3>2. todo[h] \in Seq(Resources)
      BY <1>0
    <3>3. Len(Tail(todo[h])) = Len(todo[h]) - 1 /\ Len(todo[h]) \in Nat \ {0}
      BY <3>1, <3>2
    <3>4. Len(Tail(todo[h])) # 0
      BY <3>1, <3>3
    <3>5. Len(<<>>) = 0
      OBVIOUS
    <3>6. Tail(todo[h]) # <<>>
      BY <3>4, <3>5, Zenon
    <3> QED
      BY <2>1, <3>1, <3>6
  <2>2. CASE k # h
    BY <1>0, <1>4, <2>2 DEF Notify, Leave, Goto, Announcing
  <2> QED
    BY <2>1, <2>2
<1>5. ASSUME NEW h \in Handlers, NEW q \in Requests[h], Receive(h, q) PROVE todo'[k] # <<>>
  <2>1. FirstStep(q.op) # "notify"
    BY DEF FirstStep
  <2> QED
    BY <1>0, <1>5, <2>1 DEF Receive, Goto, Announcing
<1>6. CASE UNCHANGED <<step, todo>>
  BY <1>6 DEF Announcing
<1> QED
  BY <1>1, <1>2, <1>3, <1>4, <1>5, <1>6, HandleCases DEF Next, BehindTheGateway, hookVars, vars,
     buttonVars

LEMMA ButtonsInit == Init => ButtonsInv /\ Announcing
<1> SUFFICES ASSUME Init PROVE ButtonsInv /\ Announcing
  OBVIOUS
<1>1. CoreShape
  <2>1. /\ all \in [Groups -> SUBSET Nodes] /\ now \in [Groups -> Nodes \cup {None}]
        /\ fixed \in [Groups -> Nodes \cup {None}]
    BY DEF Init, CoreInit
  <2>2. /\ settings \in [SettingKeys -> Booleans \cup Options] /\ mode \in Modes
        /\ settings["tun"] \in Booleans /\ settings["log_level"] \in Options
    BY DEF Init, CoreInit, SettingKeys, Booleans, Options, Modes
  <2>3. delays = FALSE /\ providers = FALSE /\ conns \subseteq used /\ used \subseteq Conns
        /\ events \in 0..MaxEvents
    BY CoreAssumption DEF Init, CoreInit
  <2> QED
    BY <2>1, <2>2, <2>3 DEF CoreShape, CoreTypeOK
<1>2. TypeOK
  BY <1>1, ButtonsAssumption DEF Init, TypeOK, CoreShape, Steps
<1>3. Shapes
  BY <1>1 DEF Init, Shapes, CoreShape, Steps, NoPast, Fields
<1> QED
  BY <1>2, <1>3 DEF Init, ButtonsInv, Fits, Serving, Announcing

LEMMA ButtonsStep == ButtonsInv /\ Announcing /\ [Next]_vars => ButtonsInv' /\ Announcing'
<1> SUFFICES ASSUME ButtonsInv, Announcing, [Next]_vars PROVE ButtonsInv'
  BY AnnouncingStep
<1>1. ASSUME NEW h \in Handlers, Notify(h) PROVE todo[h] # <<>>
  BY <1>1 DEF Notify, Announcing
<1>2. CASE UNCHANGED vars
  <2>1. CoreShape' /\ used' = used
    BY <1>2, CoreUnchanged DEF vars, coreVars, ButtonsInv, Shapes, TypeOK, CoreShape
  <2> QED
    BY <1>2, <2>1 DEF vars, hookVars, buttonVars, ButtonsInv, TypeOK, Shapes, CoreShape, Fits,
       Serving, gated, remote
<1> QED
  BY <1>1, <1>2, HandleCases, WorkInv, RenameInv, AnswerInv, NotifyInv, ReceiveInv, EventInv DEF Next

\* Type correctness of the remote buttons: in particular a setting only ever
\* holds a value of its own type, whatever requests come and overlap.
THEOREM ButtonsTypeCorrect == Spec => []TypeOK
<1>1. ButtonsInv => TypeOK
  BY DEF ButtonsInv
<1> QED
  BY <1>1, ButtonsInit, ButtonsStep, PTL DEF Spec

-----------------------------------------------------------------------------
(* The forwarder and the disabled capabilities.                              *)

\* Only work moves a handler that serves to "returned", and Forward is the only
\* work at "forward".
LEMMA ForwardStep ==
  ASSUME ButtonsInv, [Next]_vars, NEW h \in Handlers,
         step[h] = "forward", step'[h] = "returned"
  PROVE  Forward(h)
<1>0. step \in [Handlers -> Steps]
  BY DEF ButtonsInv, Shapes
<1>1. ASSUME NEW k \in Handlers, Works(k) PROVE Forward(h)
  <2>1. k = h
    BY <1>1, WorkIsLocal
  <2> QED
    BY <1>1, <2>1 DEF Works, RunHook, HookStep, CallFails, LookUpGroup, SelectProxy, UnfixProxy,
       RereadGroup, TestDelay, SetMode, SetSetting, RereadSetting, CallProvider, RunAction,
       ListConns, CloseAll, CloseOne, AppHook, ListSettings, ListActions, HookSteps
<1>2. ASSUME NEW k \in Handlers, Rename(k) \/ OnRename(k) \/ Answer(k) \/ Notify(k) PROVE FALSE
  BY <1>0, <1>2 DEF Rename, OnRename, Answer, Notify, Leave, Continue, Succeed, Return, Goto
<1>3. ASSUME NEW k \in Handlers, NEW q \in Requests[k], Receive(k, q) PROVE FALSE
  BY <1>0, <1>3 DEF Receive, Goto
<1>4. CASE UNCHANGED step
  BY <1>4
<1> QED
  BY <1>1, <1>2, <1>3, <1>4, HandleCases DEF Next, BehindTheGateway, hookVars, vars

\* Section 9.1: whatever call the forwarder lets through, the core's mode and
\* settings stay as they are, no configuration is loaded, and a group's members
\* change by a provider's update only; in read-only mode nothing is selected,
\* updated or closed, unless the call tests a group's delay.
THEOREM ForwardingIsHarmless == Spec => ForwardIsHarmless
<1>1. ASSUME ButtonsInv, [Next]_vars, NEW h \in Handlers, step[h] = "forward", step'[h] = "returned"
      PROVE  /\ UNCHANGED <<mode, settings>>
             /\ all' # all => UpdatesNodes(job[h].name, splitPath(job[h].path))
             /\ config.readOnly => UNCHANGED <<all, providers, conns>>
             /\ config.readOnly /\ ~DelayTest(splitPath(job[h].path)) => UNCHANGED <<now, fixed>>
  <2>1. Forward(h) /\ CoreShape
    BY <1>1, ForwardStep DEF ButtonsInv, Shapes, TypeOK, CoreShape
  <2>2. CASE UNCHANGED coreVars
    BY <2>2 DEF coreVars
  <2>3. CASE config.readOnly /\ AllowedReadOnly(job[h].name, job[h].path)
             /\ CoreCall(job[h].name, splitPath(job[h].path))
    BY <2>1, <2>3, RelayedStep DEF AllowedReadOnly
  <2>4. CASE ~config.readOnly /\ Allowed(job[h].name, job[h].path)
             /\ CoreCall(job[h].name, splitPath(job[h].path))
    BY <2>1, <2>4, RelayedStep
  <2> QED
    BY <2>1, <2>2, <2>3, <2>4 DEF Forward
<1>2. ButtonsInv /\ [Next]_vars =>
        [\A h \in Handlers : step[h] = "forward" /\ step'[h] = "returned" =>
           LET segs == splitPath(job[h].path)
           IN  /\ UNCHANGED <<mode, settings>>
               /\ all' # all => UpdatesNodes(job[h].name, segs)
               /\ config.readOnly => UNCHANGED <<all, providers, conns>>
               /\ config.readOnly /\ ~DelayTest(segs) => UNCHANGED <<now, fixed>>]_vars
  BY <1>1
<1> QED
  BY <1>2, ButtonsInit, ButtonsStep, PTL DEF Spec, ForwardIsHarmless

\* The core is changed by a handler at work or behind the gateway's back.
LEMMA CoreChangers ==
  ASSUME ButtonsInv, [Next]_vars
  PROVE  \/ UNCHANGED coreVars
         \/ \E h \in Handlers : Works(h)
         \/ BehindTheGateway
  BY HandleCases DEF Next, Rename, OnRename, Answer, Done, Notify, Receive, vars

\* Config.DisableCapabilities: while the capability is disabled no sequence of
\* requests, hooks or forwarded calls changes the mode, or a setting.
THEOREM DisabledIsUntouched == Spec => DisabledStaysUntouched
<1>1. ASSUME ButtonsInv, [Next]_vars
      PROVE  /\ "mode" \in config.disabled => mode' = mode
             /\ "settings" \in config.disabled => settings' = settings
  <2>1. ASSUME NEW h \in Handlers, Works(h)
        PROVE  /\ "mode" \in config.disabled => mode' = mode
               /\ "settings" \in config.disabled => settings' = settings
    <3>1. Fits(h)
      BY <1>1 DEF ButtonsInv
    <3>2. /\ mode' # mode => step[h] = "patchMode"
          /\ settings' # settings => step[h] = "patchSetting"
      BY <1>1, <2>1, WorkOnCore
    <3>3. /\ step[h] = "patchMode" => gated("SetMode")
          /\ step[h] = "patchSetting" => gated("SetSetting")
      BY <3>1 DEF Fits, Serving
    <3>4. /\ gated("SetMode") => "mode" \notin config.disabled
          /\ gated("SetSetting") => "settings" \notin config.disabled
      BY DEF gated, Capability, remote, detectRemoteCaps
    <3> QED
      BY <3>2, <3>3, <3>4
  <2>2. CASE BehindTheGateway
    BY <1>1, <2>2, ElsewhereStep DEF BehindTheGateway, ButtonsInv, Shapes, TypeOK, CoreShape
  <2> QED
    BY <1>1, <2>1, <2>2, CoreChangers DEF coreVars
<1>2. ButtonsInv /\ [Next]_vars =>
        [/\ "mode" \in config.disabled => mode' = mode
         /\ "settings" \in config.disabled => settings' = settings]_vars
  BY <1>1
<1> QED
  BY <1>2, ButtonsInit, ButtonsStep, PTL DEF Spec, DisabledStaysUntouched

-----------------------------------------------------------------------------
(* The other steps of a handler.                                             *)

Quiet(h) == Rename(h) \/ OnRename(h) \/ Answer(h) \/ Notify(h) \/ \E q \in Requests[h] : Receive(h, q)

LEMMA NextCases ==
  ASSUME [Next]_vars
  PROVE  \/ \E h \in Handlers : Works(h) \/ Quiet(h)
         \/ BehindTheGateway
         \/ UNCHANGED vars
  BY HandleCases DEF Next, Quiet

LEMMA QuietElsewhere ==
  ASSUME ButtonsInv, NEW h \in Handlers, Quiet(h), NEW k \in Handlers \ {h}
  PROVE  /\ UNCHANGED coreVars
         /\ step'[k] = step[k] /\ job'[k] = job[k] /\ result'[k] = result[k]
         /\ past'[k] = past[k] /\ todo'[k] = todo[k] /\ owed'[k] \subseteq owed[k]
<1>0. /\ step \in [Handlers -> Steps] /\ job \in [Handlers -> AllRequests \cup {NoJob}]
      /\ DOMAIN result = Handlers /\ todo \in [Handlers -> Seq(Resources)]
      /\ DOMAIN past = Handlers /\ owed \in [Handlers -> SUBSET Resources]
  BY DEF ButtonsInv, Shapes, TypeOK
<1>1. CASE Rename(h) \/ OnRename(h)
  BY <1>0, <1>1 DEF Rename, OnRename, Continue, Quietly, Succeed, Return, Goto, Owes
<1>2. CASE Answer(h)
  BY <1>0, <1>2 DEF Answer, Leave, Done, Goto
<1>3. CASE Notify(h)
  BY <1>0, <1>3 DEF Notify, Leave, Goto
<1>4. ASSUME NEW q \in Requests[h], Receive(h, q)
      PROVE  /\ UNCHANGED coreVars
             /\ step'[k] = step[k] /\ job'[k] = job[k] /\ result'[k] = result[k]
             /\ past'[k] = past[k] /\ todo'[k] = todo[k] /\ owed'[k] \subseteq owed[k]
  BY <1>0, <1>4 DEF Receive, Goto
<1> QED
  BY <1>1, <1>2, <1>3, <1>4 DEF Quiet

FirstSteps == {"group", "patchMode", "settings", "listConns", "provider", "actions", "rename",
               "forward", "app"}

LEMMA QuietHere ==
  ASSUME ButtonsInv, NEW h \in Handlers, Quiet(h)
  PROVE  /\ UNCHANGED coreVars
         /\ \/ /\ step[h] = "rename" /\ step'[h] = "onRename"
               /\ UNCHANGED <<job, past>> /\ owed'[h] \subseteq owed[h] \cup Effect["Rename"]
            \/ /\ step[h] = "onRename" /\ step'[h] = "returned" /\ result'[h].code = "ok"
               /\ UNCHANGED <<job, past, owed>>
            \/ Answer(h) /\ step'[h] \in {"notify", "idle"} /\ past'[h] = NoPast /\ UNCHANGED owed
            \/ Notify(h) /\ step'[h] \in {"notify", "idle"} /\ UNCHANGED past
            \/ /\ step[h] = "idle" /\ step'[h] \in FirstSteps /\ owed'[h] = {}
               /\ past'[h] = [past[h] EXCEPT !.open = conns]
<1>0. /\ step \in [Handlers -> Steps] /\ job \in [Handlers -> AllRequests \cup {NoJob}]
      /\ DOMAIN result = Handlers
      /\ DOMAIN past = Handlers /\ owed \in [Handlers -> SUBSET Resources]
  BY DEF ButtonsInv, Shapes, TypeOK
<1>1. CASE Rename(h)
  <2>1. owed'[h] = owed[h] \cup Altered
    BY <1>0, <1>1 DEF Rename, Owes
  <2>2. UNCHANGED <<coreVars, app>>
    BY <1>1 DEF Rename
  <2>3. Altered \subseteq Effect["Rename"]
    BY <2>2, AlteredBy DEF coreVars, Resources, Effect
  <2> QED
    BY <1>0, <1>1, <2>1, <2>2, <2>3 DEF Rename, Continue, Quietly, Goto
<1>2. CASE OnRename(h)
  BY <1>0, <1>2 DEF OnRename, Succeed, Return, Goto
<1>3. CASE Answer(h)
  BY <1>0, <1>3 DEF Answer, Leave, Done, Goto
<1>4. CASE Notify(h)
  BY <1>0, <1>4 DEF Notify, Leave, Goto
<1>5. ASSUME NEW q \in Requests[h], Receive(h, q)
      PROVE  /\ UNCHANGED coreVars
             /\ step[h] = "idle" /\ step'[h] \in FirstSteps /\ owed'[h] = {}
             /\ past'[h] = [past[h] EXCEPT !.open = conns]
  <2>1. FirstStep(q.op) \in FirstSteps
    BY DEF FirstStep, FirstSteps
  <2> QED
    BY <1>0, <1>5, <2>1 DEF Receive, Goto
<1> QED
  BY <1>1, <1>2, <1>3, <1>4, <1>5 DEF Quiet

-----------------------------------------------------------------------------
(* The value an answer reports.                                              *)

\* What is about to be read again has been in force since the hook acted.
Watched(h) ==
  /\ step[h] = "reread" => now[job[h].name] \in past[h].since
  /\ step[h] = "readSetting" => settings[job[h].name] \in past[h].since
  /\ Returned(h) /\ job[h].op \in ValueOps => result[h].value \in past[h].since

\* A step that leaves handler k where it is keeps what it has watched.
LEMMA WatchedStays ==
  ASSUME ButtonsInv, NEW k \in Handlers, Watched(k),
         step'[k] = step[k], job'[k] = job[k], result'[k] = result[k],
         past'[k].since = past[k].since \/ past'[k].since = past[k].since \cup {Item(k)'},
         UNCHANGED <<now, settings>>
           \/ (past[k].since # {} => past'[k].since = past[k].since \cup {Item(k)'})
  PROVE  Watched(k)'
<1>1. Fits(k)
  BY DEF ButtonsInv
<1>2. CASE step[k] = "reread"
  <2>1. now[job[k].name] \in past[k].since /\ Item(k)' = now'[job[k].name]
    BY <1>1, <1>2 DEF Watched, Fits, Item
  <2> QED
    BY <1>2, <2>1 DEF Watched, Returned
<1>3. CASE step[k] = "readSetting"
  <2>1. settings[job[k].name] \in past[k].since /\ Item(k)' = settings'[job[k].name]
    BY <1>1, <1>3 DEF Watched, Fits, Item
  <2> QED
    BY <1>3, <2>1 DEF Watched, Returned
<1>4. CASE step[k] \notin {"reread", "readSetting"}
  BY <1>4 DEF Watched, Returned
<1> QED
  BY <1>2, <1>3, <1>4

LEMMA WatchedWork ==
  ASSUME ButtonsInv, NEW h \in Handlers, Watched(h), Works(h)
  PROVE  Watched(h)'
<1> DEFINE q == job[h]
           before == past[h].since
           after == past'[h].since
<1>0. Fits(h) /\ job'[h] = job[h]
  BY WorkIsLocal DEF ButtonsInv
<1>1. before \subseteq after /\ (step[h] \in WriteSteps => Item(h)' \in after)
  BY ZenonT(40), WorkHistory
<1>2. CASE step'[h] = "returned" /\ (result'[h].code # "ok" \/ q.op \notin ValueOps)
  BY <1>0, <1>2 DEF Watched, Returned
<1>3. CASE step'[h] = "returned" /\ step[h] = "put" /\ result'[h].value = now'[q.name]
  <2>1. Item(h)' = now'[q.name]
    BY <1>0, <1>3 DEF Fits, Item
  <2> QED
    BY <1>1, <1>3, <2>1 DEF Watched, WriteSteps
<1>4. CASE step'[h] = "returned" /\ step[h] = "patchMode" /\ result'[h].value = mode'
  <2>1. Item(h)' = mode'
    BY <1>0, <1>4 DEF Fits, Item
  <2> QED
    BY <1>1, <1>4, <2>1 DEF Watched, WriteSteps
<1>5. CASE step[h] = "delete" /\ step'[h] = "reread"
  <2>1. Item(h)' = now'[q.name]
    BY <1>0, <1>5 DEF Fits, Item
  <2> QED
    BY <1>0, <1>1, <1>5, <2>1 DEF Watched, Returned, WriteSteps
<1>6. CASE /\ step'[h] = "returned" /\ step[h] = "reread"
           /\ result'[h].value = now[q.name]
  BY <1>1, <1>6 DEF Watched
<1>7. CASE step[h] = "patchSetting" /\ step'[h] = "readSetting"
  <2>1. Item(h)' = settings'[q.name]
    BY <1>0, <1>7 DEF Fits, Item
  <2> QED
    BY <1>0, <1>1, <1>7, <2>1 DEF Watched, Returned, WriteSteps
<1>8. CASE /\ step'[h] = "returned" /\ step[h] = "readSetting"
           /\ result'[h].value = settings[q.name]
  BY <1>1, <1>8 DEF Watched
<1>9. CASE step'[h] \in WorkSteps \ {"reread", "readSetting"}
  BY <1>9 DEF Watched, Returned, WorkSteps, HookSteps
<1>10. CASE step[h] \in {"closeAll", "closeOne"} /\ step'[h] = "returned"
  BY <1>0, <1>10 DEF Fits, Watched, Returned, ValueOps
<1> QED
  BY <1>0, <1>2, <1>3, <1>4, <1>5, <1>6, <1>7, <1>8, <1>9, <1>10, WorkOutcome DEF Outcome

LEMMA WatchedStep ==
  ASSUME ButtonsInv, [Next]_vars, NEW k \in Handlers, Watched(k)
  PROVE  Watched(k)'
<1>1. ASSUME NEW h \in Handlers, Works(h) PROVE Watched(k)'
  <2>1. CASE k = h
    BY <1>1, <2>1, WatchedWork
  <2>2. CASE k # h
    BY <1>1, <2>2, WorkIsLocal, WorkHistory, WatchedStays
  <2> QED
    BY <2>1, <2>2
<1>2. ASSUME NEW h \in Handlers, Quiet(h) PROVE Watched(k)'
  <2>1. CASE k = h
    BY <1>2, <2>1, QuietHere DEF Watched, Returned, FirstSteps, ButtonsInv, Fits, ValueOps
  <2>2. CASE k # h
    BY <1>2, <2>2, QuietElsewhere, WatchedStays DEF coreVars
  <2> QED
    BY <2>1, <2>2
<1>3. CASE BehindTheGateway
  BY <1>3, EventHistory, WatchedStays DEF BehindTheGateway, hookVars
<1>4. CASE UNCHANGED vars
  BY <1>4, WatchedStays DEF vars, hookVars, buttonVars, coreVars
<1> QED
  BY <1>1, <1>2, <1>3, <1>4, NextCases

\* Sections 8.8, 8.10, 8.18: whatever other requests and the app do between the
\* calls of a hook, the node, mode or setting its answer reports was in force at
\* some moment after the operation took effect.
THEOREM AnswersAreCurrent == Spec => []AnswerIsCurrent
<1> DEFINE W == \A h \in Handlers : Watched(h)
<1>1. Init => W
  BY DEF Init, Watched, Returned
<1>2. ButtonsInv /\ W /\ [Next]_vars => W'
  BY WatchedStep
<1>3. W => AnswerIsCurrent
  BY DEF Watched, AnswerIsCurrent, ValueOps
<1> HIDE DEF W
<1> QED
  BY <1>1, <1>2, <1>3, ButtonsInit, ButtonsStep, PTL DEF Spec

-----------------------------------------------------------------------------
(* Closing connections.                                                      *)

Closes(h) ==
  LET id == job[h].arg
  IN  /\ past[h].open \subseteq used
      /\ step[h] \in {"idle", "notify", "listConns", "closeAll", "closeOne"} => past[h].closed = {}
      /\ Returned(h) /\ job[h].op = "CloseConnections" =>
           \/ id = None /\ conns \cap past[h].open = {}
           \/ id # None /\ id \in used \ conns /\ past[h].closed \subseteq {id}

LEMMA ClosesStays ==
  ASSUME ButtonsInv, ConnsOnlyClose, NEW k \in Handlers, Closes(k),
         step'[k] = step[k], job'[k] = job[k], result'[k] = result[k],
         past'[k].open = past[k].open, past'[k].closed = past[k].closed
  PROVE  Closes(k)'
  BY DEF Closes, Returned, ConnsOnlyClose

LEMMA ClosesWork ==
  ASSUME ButtonsInv, NEW h \in Handlers, Closes(h), Works(h)
  PROVE  Closes(h)'
<1> DEFINE id == job[h].arg
<1>0. /\ Fits(h) /\ Fits(h)' /\ job' = job /\ ConnsOnlyClose
      /\ past'[h].open = past[h].open /\ past'[h].closed = past[h].closed \cup (conns \ conns')
  BY ZenonT(40), WorkIsLocal, WorkFits, WorkOnCore, WorkHistory DEF ButtonsInv
<1>1. past'[h].open \subseteq used'
  BY <1>0 DEF Closes, ConnsOnlyClose
<1>2. CASE step'[h] = "returned" /\ (result'[h].code # "ok" \/ job[h].op # "CloseConnections")
  BY <1>0, <1>1, <1>2 DEF Closes, Returned
<1>3. CASE step'[h] = "returned" /\ step[h] = "closeAll" /\ conns' = {}
  <2>1. id = None
    BY <1>0, <1>3 DEF Fits
  <2> QED
    BY <1>0, <1>1, <1>3, <2>1 DEF Closes
<1>4. CASE step'[h] = "returned" /\ step[h] = "closeOne" /\ conns' = conns \ {id}
  <2>1. id # None /\ id \in used' /\ id \notin conns'
    BY <1>0, <1>4 DEF Fits, ConnsOnlyClose
  <2>2. past'[h].closed \subseteq {id}
    BY <1>0, <1>4 DEF Closes
  <2> QED
    BY <1>0, <1>1, <1>4, <2>1, <2>2 DEF Closes
<1>5. CASE step'[h] \in {"reread", "readSetting"}
  BY <1>1, <1>5 DEF Closes, Returned
<1>6. CASE /\ step[h] \in {"group", "settings", "listConns", "actions"} /\ UNCHANGED coreVars
           /\ step'[h] \in WorkSteps \ {"reread", "readSetting"}
  <2>1. past'[h].closed = past[h].closed /\ step'[h] # "returned"
    BY <1>0, <1>6 DEF coreVars, WorkSteps, HookSteps
  <2>2. CASE step'[h] \in {"idle", "notify", "listConns", "closeAll", "closeOne"}
    <3>1. job[h].op = "CloseConnections"
      BY <1>0, <1>6, <2>2 DEF Fits, WorkSteps, HookSteps
    <3>2. step[h] = "listConns"
      BY <1>0, <1>6, <3>1 DEF Fits, GroupOps
    <3> QED
      BY <1>1, <2>1, <3>2 DEF Closes, Returned
  <2> QED
    BY <1>1, <2>1, <2>2 DEF Closes, Returned
<1>7. step[h] \in {"put", "patchMode", "reread", "readSetting"} => job[h].op # "CloseConnections"
  BY <1>0 DEF Fits
<1> QED
  BY <1>2, <1>3, <1>4, <1>5, <1>6, <1>7, WorkOutcome DEF Outcome

LEMMA ClosesStep ==
  ASSUME ButtonsInv, [Next]_vars, NEW k \in Handlers, Closes(k)
  PROVE  Closes(k)'
<1>1. ASSUME NEW h \in Handlers, Works(h) PROVE Closes(k)'
  <2>1. CASE k = h
    BY <1>1, <2>1, ClosesWork
  <2>2. CASE k # h
    BY <1>1, <2>2, WorkIsLocal, WorkHistory, WorkOnCore, ClosesStays
  <2> QED
    BY <2>1, <2>2
<1>2. ASSUME NEW h \in Handlers, Quiet(h) PROVE Closes(k)'
  <2>0. ConnsOnlyClose /\ UNCHANGED <<conns, used>> /\ conns \subseteq used
    BY <1>2, QuietHere DEF coreVars, ConnsOnlyClose, ButtonsInv, TypeOK, CoreTypeOK
  <2>1. CASE k = h
    <3>1. CASE past'[h] = NoPast /\ step'[h] \in {"notify", "idle"}
      BY <2>1, <3>1 DEF Closes, Returned, NoPast
    <3>2. CASE step[h] = "idle" /\ step'[h] \in FirstSteps /\ past'[h] = [past[h] EXCEPT !.open = conns]
      BY <2>0, <2>1, <3>2 DEF Closes, Returned, FirstSteps, ButtonsInv, Shapes, Fields
    <3>3. CASE /\ step[h] \in {"rename", "onRename"} /\ step'[h] \in {"onRename", "returned"}
               /\ UNCHANGED <<job, past>>
      BY <2>0, <2>1, <3>3 DEF Closes, Returned, ButtonsInv, Fits
    <3>4. CASE Notify(h) /\ step'[h] \in {"notify", "idle"} /\ UNCHANGED past
      BY <2>0, <2>1, <3>4 DEF Notify, Closes, Returned
    <3> QED
      BY <1>2, <3>1, <3>2, <3>3, <3>4, QuietHere
  <2>2. CASE k # h
    BY <1>2, <2>0, <2>2, QuietElsewhere, ClosesStays
  <2> QED
    BY <2>1, <2>2
<1>3. CASE BehindTheGateway
  <2>1. ConnsOnlyClose
    BY <1>3, ElsewhereStep DEF BehindTheGateway, ButtonsInv, Shapes, TypeOK, CoreShape
  <2> QED
    BY <1>3, <2>1, EventHistory, ClosesStays DEF BehindTheGateway, hookVars
<1>4. CASE UNCHANGED vars
  BY <1>4, ClosesStays DEF vars, hookVars, buttonVars, coreVars, ConnsOnlyClose
<1> QED
  BY <1>1, <1>2, <1>3, <1>4, NextCases

\* Section 8.15: however connections open and end meanwhile, closing one closes
\* that one only, and closing all leaves none that was open when it was asked.
THEOREM ClosesAreExact == Spec => []CloseIsExact
<1> DEFINE C == \A h \in Handlers : Closes(h)
<1>1. Init => C
  BY DEF Init, Closes, Returned, NoPast
<1>2. ButtonsInv /\ C /\ [Next]_vars => C'
  BY ClosesStep
<1>3. C => CloseIsExact
  BY DEF Closes, CloseIsExact
<1> HIDE DEF C
<1> QED
  BY <1>1, <1>2, <1>3, ButtonsInit, ButtonsStep, PTL DEF Spec

-----------------------------------------------------------------------------
(* Refusals.                                                                 *)

\* The first change is the last thing a hook does, but for a look at the result.
Untouched(h) ==
  /\ step[h] \notin {"reread", "readSetting", "returned"} => ~past[h].changed
  /\ step[h] = "returned" /\ job[h].op \notin {"UnfixProxy", "SetSetting"}
     /\ result[h].code \in {"not_found", "invalid"} => ~past[h].changed

LEMMA UntouchedWork ==
  ASSUME ButtonsInv, NEW h \in Handlers, Untouched(h), Works(h)
  PROVE  Untouched(h)'
<1>0. /\ Fits(h) /\ job' = job /\ name' = name
      /\ past'[h].changed <=> past[h].changed \/ Changes(h)
  BY ZenonT(40), WorkIsLocal, WorkOnApp, WorkHistory DEF ButtonsInv
<1>1. CASE step'[h] = "returned" /\ result'[h].code \notin {"not_found", "invalid"}
  BY <1>1 DEF Untouched
<1>2. CASE /\ step'[h] = "returned" /\ result'[h].code \in {"not_found", "invalid"}
           /\ UNCHANGED <<coreVars, app>>
  <2>1. ~Changes(h)
    BY <1>0, <1>2, NothingAltered DEF Changes
  <2>2. /\ step[h] = "reread" => job[h].op = "UnfixProxy"
        /\ step[h] = "readSetting" => job[h].op = "SetSetting"
    BY <1>0 DEF Fits
  <2>3. step[h] # "returned"
    BY WorkMoves DEF WorkSteps, HookSteps
  <2> QED
    BY <1>0, <1>2, <2>1, <2>2, <2>3 DEF Untouched
<1>3. CASE step'[h] \in {"reread", "readSetting"}
  BY <1>3 DEF Untouched
<1>4. CASE /\ step[h] \in {"group", "settings", "listConns", "actions"}
           /\ UNCHANGED <<coreVars, app>>
           /\ step'[h] \in WorkSteps \ {"reread", "readSetting"}
  <2>1. ~Changes(h)
    BY <1>0, <1>4, NothingAltered DEF Changes
  <2> QED
    BY <1>0, <1>4, <2>1 DEF Untouched, WorkSteps, HookSteps
<1> QED
  BY <1>1, <1>2, <1>3, <1>4, WorkOutcome DEF Outcome

LEMMA UntouchedStep ==
  ASSUME ButtonsInv, [Next]_vars, NEW k \in Handlers, Untouched(k)
  PROVE  Untouched(k)'
<1>1. ASSUME NEW h \in Handlers, Works(h) PROVE Untouched(k)'
  <2>1. CASE k = h
    BY <1>1, <2>1, UntouchedWork
  <2>2. CASE k # h
    BY ZenonT(40), <1>1, <2>2, WorkIsLocal, WorkHistory DEF Untouched
  <2> QED
    BY <2>1, <2>2
<1>2. ASSUME NEW h \in Handlers, Quiet(h) PROVE Untouched(k)'
  <2>1. CASE k = h
    <3>1. CASE past'[h] = NoPast /\ step'[h] \in {"notify", "idle"}
      BY <2>1, <3>1 DEF Untouched, NoPast
    <3>2. CASE step[h] = "idle" /\ step'[h] \in FirstSteps /\ past'[h] = [past[h] EXCEPT !.open = conns]
      BY <2>1, <3>2 DEF Untouched, FirstSteps, ButtonsInv, Shapes, Fields
    <3>3. CASE step[h] = "rename" /\ step'[h] = "onRename" /\ UNCHANGED past
      BY <2>1, <3>3 DEF Untouched
    <3>4. CASE step[h] = "onRename" /\ step'[h] = "returned" /\ result'[h].code = "ok"
      BY <2>1, <3>4 DEF Untouched
    <3>5. CASE Notify(h) /\ step'[h] \in {"notify", "idle"} /\ UNCHANGED past
      BY <2>1, <3>5 DEF Notify, Untouched
    <3> QED
      BY <1>2, <3>1, <3>2, <3>3, <3>4, <3>5, QuietHere
  <2>2. CASE k # h
    BY <1>2, <2>2, QuietElsewhere DEF Untouched
  <2> QED
    BY <2>1, <2>2
<1>3. CASE BehindTheGateway
  BY <1>3, EventHistory DEF BehindTheGateway, hookVars, Untouched
<1>4. CASE UNCHANGED vars
  BY <1>4 DEF vars, hookVars, buttonVars, Untouched
<1> QED
  BY <1>1, <1>2, <1>3, <1>4, NextCases

\* Section 8.6: a request that is answered with not_found or bad_request has
\* changed nothing, whichever call of its hook the core refused.  UnfixProxy and
\* SetSetting are left out: the call that looks again after the change may be
\* refused.
THEOREM RefusalsChangeNothing == Spec => []RefusalChangesNothing
<1> DEFINE U == \A h \in Handlers : Untouched(h)
<1>1. Init => U
  BY DEF Init, Untouched, NoPast
<1>2. ButtonsInv /\ U /\ [Next]_vars => U'
  BY UntouchedStep
<1>3. U => RefusalChangesNothing
  BY DEF Untouched, RefusalChangesNothing, hookError
<1> HIDE DEF U
<1> QED
  BY <1>1, <1>2, <1>3, ButtonsInit, ButtonsStep, PTL DEF Spec

-----------------------------------------------------------------------------
(* Announcements.                                                            *)

\* What is owed is something the operation alters, and stays to be announced.
Owing(h) ==
  /\ Serving(h) /\ job[h].op \in Operations => owed[h] \subseteq Effect[job[h].op]
  /\ step[h] = "notify" =>
       \A r \in owed[h] : \/ \E i \in DOMAIN todo[h] : todo[h][i] = r
                          \/ r = "status" /\ job[h].op \in StatusUnannounced

LEMMA OwingStays ==
  ASSUME NEW k \in Handlers, Owing(k), step'[k] = step[k], job'[k] = job[k], todo'[k] = todo[k],
         owed'[k] \subseteq owed[k]
  PROVE  Owing(k)'
  BY DEF Owing, Serving

\* One announcement after the other.
LEMMA NotifyOne ==
  ASSUME ButtonsInv, NEW h \in Handlers, Notify(h), todo[h] # <<>>, Owing(h)
  PROVE  /\ \A r \in owed'[h] : \/ \E i \in DOMAIN todo'[h] : todo'[h][i] = r
                                \/ r = "status" /\ job[h].op \in StatusUnannounced
         /\ step'[h] = "idle" =>
              owed'[h] \subseteq IF job[h].op \in StatusUnannounced THEN {"status"} ELSE {}
         /\ step'[h] = "notify" => job'[h] = job[h]
<1>0. /\ todo \in [Handlers -> Seq(Resources)] /\ step \in [Handlers -> Steps]
      /\ step[h] = "notify" /\ todo'[h] = Tail(todo[h]) /\ owed'[h] = owed[h] \ {Head(todo[h])}
      /\ step'[h] = IF Len(todo[h]) = 1 THEN "idle" ELSE "notify"
      /\ step'[h] = "notify" => job'[h] = job[h]
  BY DEF Notify, Leave, Goto, ButtonsInv, Shapes
<1> DEFINE t == todo[h]
           left == job[h].op \in StatusUnannounced
<1>1. t \in Seq(Resources) /\ t # <<>>
  BY <1>0
<1>2. /\ DOMAIN t = 1..Len(t) /\ Len(t) \in Nat \ {0} /\ DOMAIN Tail(t) = 1..(Len(t) - 1)
      /\ Head(t) = t[1] /\ \A i \in 1..(Len(t) - 1) : Tail(t)[i] = t[i + 1]
  BY <1>1
<1>3. ASSUME NEW r \in owed'[h], ~(r = "status" /\ left)
      PROVE  \E i \in DOMAIN Tail(t) : Tail(t)[i] = r
  <2>1. PICK i \in DOMAIN t : t[i] = r
    BY <1>0, <1>3 DEF Owing
  <2>2. i # 1
    BY <1>0, <1>2, <1>3, <2>1
  <2>3. i - 1 \in DOMAIN Tail(t) /\ Tail(t)[i - 1] = r
    BY <1>2, <2>1, <2>2
  <2> QED
    BY <2>3
<1>4. Len(t) = 1 => DOMAIN Tail(t) = {}
  BY <1>2
<1> HIDE DEF t, left
<1>5. Len(t) = 1 => \A r \in owed'[h] : r = "status" /\ left
  BY <1>3, <1>4
<1>6. step'[h] = "idle" => Len(t) = 1
  BY <1>0 DEF t
<1>7. step'[h] = "idle" => owed'[h] \subseteq IF left THEN {"status"} ELSE {}
  BY <1>5, <1>6
<1> QED
  BY <1>0, <1>3, <1>7 DEF t, left

LEMMA OwingStep ==
  ASSUME ButtonsInv, Announcing, [Next]_vars, NEW k \in Handlers, Owing(k)
  PROVE  Owing(k)'
<1>1. ASSUME NEW h \in Handlers, Works(h) PROVE Owing(k)'
  <2>1. CASE k = h
    <3>1. job' = job /\ Serving(h) /\ step'[h] # "notify"
      BY <1>1, WorkIsLocal, WorkOutcome, WorkMoves DEF Outcome, Serving, WorkSteps, HookSteps
    <3> QED
      BY <1>1, <2>1, <3>1, WorkOwes DEF Owing
  <2>2. CASE k # h
    BY <1>1, <2>2, WorkIsLocal, WorkOwes, OwingStays
  <2> QED
    BY <2>1, <2>2
<1>2. ASSUME NEW h \in Handlers, Quiet(h) PROVE Owing(k)'
  <2>1. CASE k = h
    <3>0. Fits(h) /\ step \in [Handlers -> Steps] /\ todo \in [Handlers -> Seq(Resources)]
      BY DEF ButtonsInv, Shapes
    <3>1. CASE /\ step[h] = "rename" /\ step'[h] = "onRename"
               /\ UNCHANGED <<job, past>> /\ owed'[h] \subseteq owed[h] \cup Effect["Rename"]
      <4>1. job[h].op = "Rename" /\ "Rename" \in Operations
        BY <3>0, <3>1 DEF Fits, Operations, Announces
      <4>2. owed[h] \subseteq Effect["Rename"]
        BY <2>1, <3>1, <4>1 DEF Owing, Serving
      <4> QED
        BY <2>1, <3>1, <4>1, <4>2 DEF Owing, Serving
    <3>2. CASE step[h] = "onRename" /\ step'[h] = "returned" /\ UNCHANGED <<job, past, owed>>
      BY <2>1, <3>2 DEF Owing, Serving
    <3>3. CASE Answer(h)
      <4>1. step[h] = "returned" /\ owed' = owed
        BY <3>3 DEF Answer, Done
      <4>2. CASE /\ job[h].op \in Operations /\ Goto(h, "notify") /\ UNCHANGED job
                 /\ todo' = [todo EXCEPT ![h] = Announces[job[h].op]]
        <5>1. step'[h] = "notify" /\ todo'[h] = Announces[job[h].op]
          BY <3>0, <4>2 DEF Goto
        <5>2. owed[h] \subseteq Effect[job[h].op]
          BY <2>1, <4>1, <4>2 DEF Owing, Serving
        <5> QED
          BY <2>1, <4>1, <4>2, <5>1, <5>2, Effects DEF Owing, Serving
      <4>3. CASE Goto(h, "idle")
        BY <2>1, <3>0, <4>3 DEF Goto, Owing, Serving
      <4> QED
        BY <3>3, <4>2, <4>3 DEF Answer, Leave
    <3>4. CASE Notify(h) /\ step'[h] \in {"notify", "idle"}
      <4>1. todo[h] # <<>>
        BY <3>4 DEF Notify, Announcing
      <4> QED
        BY <2>1, <3>4, <4>1, NotifyOne DEF Owing, Serving
    <3>5. CASE step'[h] \in FirstSteps /\ owed'[h] = {}
      BY <2>1, <3>5 DEF Owing, FirstSteps
    <3> QED
      BY <1>2, <3>1, <3>2, <3>3, <3>4, <3>5, QuietHere
  <2>2. CASE k # h
    BY <1>2, <2>2, QuietElsewhere, OwingStays
  <2> QED
    BY <2>1, <2>2
<1>3. CASE BehindTheGateway
  BY <1>3, OwingStays DEF BehindTheGateway, hookVars
<1>4. CASE UNCHANGED vars
  BY <1>4, OwingStays DEF vars, hookVars, buttonVars
<1> QED
  BY <1>1, <1>2, <1>3, <1>4, NextCases

\* PROTOCOL.md section 9.2: when a successful request has sent its last event,
\* every resource whose GET answer one of its steps altered has been named by an
\* event sent since; the status after the four operations that do not announce it
\* is left out.
THEOREM SuccessesAreAnnounced == Spec => SuccessIsAnnounced
<1> DEFINE O == Announcing /\ \A h \in Handlers : Owing(h)
<1>1. Init => O
  BY ButtonsInit DEF Init, Owing, Serving
<1>2. ButtonsInv /\ O /\ [Next]_vars => O'
  BY OwingStep, AnnouncingStep
<1>3. ASSUME ButtonsInv, O, [Next]_vars, NEW h \in Handlers, LastEvent(h)
      PROVE  owed'[h] \subseteq IF job[h].op \in StatusUnannounced THEN {"status"} ELSE {}
  <2>0. step[h] = "notify" /\ step'[h] = "idle"
    BY <1>3 DEF LastEvent
  <2>1. ASSUME NEW k \in Handlers, Works(k) PROVE FALSE
    BY <1>3, <2>0, <2>1, WorkIsLocal, WorkMoves DEF WorkSteps, HookSteps
  <2>2. ASSUME NEW k \in Handlers, Quiet(k)
        PROVE  owed'[h] \subseteq IF job[h].op \in StatusUnannounced THEN {"status"} ELSE {}
    <3>1. k = h /\ Notify(h) /\ todo[h] # <<>>
      BY <1>3, <2>0, <2>2, QuietElsewhere, QuietHere DEF Answer, Announcing
    <3> QED
      BY <1>3, <2>0, <3>1, NotifyOne
  <2>3. step' # step
    BY <2>0
  <2> QED
    BY <1>3, <2>1, <2>2, <2>3, NextCases DEF BehindTheGateway, hookVars, vars
<1>4. ButtonsInv /\ O /\ [Next]_vars =>
        [\A h \in Handlers : LastEvent(h) =>
           owed'[h] \subseteq IF job[h].op \in StatusUnannounced THEN {"status"} ELSE {}]_vars
  BY <1>3
<1> HIDE DEF O
<1> QED
  BY <1>1, <1>2, <1>4, ButtonsInit, ButtonsStep, PTL DEF Spec, SuccessIsAnnounced
=============================================================================
