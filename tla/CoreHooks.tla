------------------------------ MODULE CoreHooks ------------------------------
(***************************************************************************)
(* corehooks/corehooks.go: the hooks of the remote buttons against the     *)
(* local core.  A hook is a sequence of HTTP calls, each a step here, and  *)
(* the core changes between them.  A call can fail before it reached the   *)
(* core, be refused by it, or lose its answer after the core has acted.    *)
(***************************************************************************)
EXTENDS Core, FiniteSets

CONSTANTS
  Handlers,     \* handler goroutines
  MaxFailures   \* bound of the model: failing calls

VARIABLES
  job,       \* the request each handler serves
  step,      \* its next step
  looked,    \* connections CloseConnections listed
  result,    \* what its hook returned: code, value, number closed
  failures

hookVars == <<job, step, looked, result, failures>>

HookSteps == {"group", "put", "delete", "reread", "groupDelay", "nodeDelay",
              "patchMode", "patchSetting", "readSetting", "listConns", "closeAll",
              "closeOne", "provider", "post"}

NoResult == [code |-> "none", value |-> None, closed |-> 0]

-----------------------------------------------------------------------------
Goto(h, next) == step' = [step EXCEPT ![h] = next]
Quietly == UNCHANGED <<job, looked, result, failures>>
Continue(h, next) == Goto(h, next) /\ Quietly

\* The hook returns.
Return(h, code, value, closed) ==
  /\ Goto(h, "returned")
  /\ result' = [result EXCEPT ![h] = [code |-> code, value |-> value, closed |-> closed]]
  /\ UNCHANGED <<job, looked>>

Succeed(h, value) == Return(h, "ok", value, 0) /\ UNCHANGED failures
Fail(h, code) == Return(h, code, None, 0) /\ UNCHANGED failures

\* A call the core refused (statusError.Unwrap), or whose answer was lost.
Lost(h) == /\ failures < MaxFailures
           /\ failures' = failures + 1
           /\ Return(h, "error", None, 0)
Refused(h, r) == r \in {"not_found", "invalid"} /\ Fail(h, r)

\* A call that does not reach the core, or that a core answers with a status of
\* its own: 404 and 400 are the hook's ErrNotFound and ErrInvalid at every call.
CallFails(h) == /\ step[h] \in HookSteps
                /\ failures < MaxFailures
                /\ failures' = failures + 1
                /\ \E code \in {"error", "not_found", "invalid"} : Return(h, code, None, 0)
                /\ UNCHANGED coreVars

-----------------------------------------------------------------------------
selectableTypes == {"Selector", "URLTest", "Fallback"}

\* The group look-up that SelectProxy, UnfixProxy and TestDelay begin with.
LookUpGroup(h) ==
  LET g == job[h].name
      node == job[h].arg
      unknown == node # None /\ node \notin all[g]
  IN  /\ step[h] = "group"
      /\ UNCHANGED coreVars
      /\ \/ (all[g] = {} \/ unknown) /\ Fail(h, "not_found")
         \/ /\ all[g] # {} /\ ~unknown
            /\ CASE job[h].op = "SelectProxy" ->
                      IF GroupType[g] \in selectableTypes THEN Continue(h, "put")
                                                          ELSE Fail(h, "invalid")
                 [] job[h].op = "UnfixProxy" -> Continue(h, "delete")
                 [] OTHER -> Continue(h, IF node = None THEN "groupDelay" ELSE "nodeDelay")

\* SelectProxy: PUT /proxies/{group}.
SelectProxy(h) ==
  /\ step[h] = "put"
  /\ \E r \in Answers :
       /\ PutProxy(job[h].name, job[h].arg, r)
       /\ Refused(h, r) \/ Lost(h) \/ (r = "ok" /\ Succeed(h, job[h].arg))

\* Mutant of UnfixProxy: the answer is read before the pin is cleared.
UnfixProxyReadsFirst(h) ==
  /\ step[h] = "delete"
  /\ \E r \in Answers :
       /\ DeleteProxy(job[h].name, r)
       /\ Refused(h, r) \/ Lost(h) \/ (r = "ok" /\ Succeed(h, now[job[h].name]))

\* UnfixProxy: DELETE /proxies/{group} ...
UnfixProxy(h) ==
  /\ step[h] = "delete"
  /\ \E r \in Answers :
       /\ DeleteProxy(job[h].name, r)
       /\ Refused(h, r) \/ Lost(h) \/ (r = "ok" /\ Continue(h, "reread"))

\* ... and the group is read again for the node in use.
RereadGroup(h) ==
  /\ step[h] = "reread"
  /\ UNCHANGED coreVars
  /\ IF all[job[h].name] = {} THEN Fail(h, "not_found")
                               ELSE Succeed(h, now[job[h].name])

\* TestDelay of a whole group, or of one node.
TestDelay(h) ==
  \E r \in Answers :
    /\ \/ step[h] = "groupDelay" /\ GroupDelay(job[h].name, r)
       \/ step[h] = "nodeDelay" /\ Measure(r)
    /\ Refused(h, r) \/ Lost(h) \/ (r = "ok" /\ Succeed(h, None))

-----------------------------------------------------------------------------
\* SetMode: the answer is the requested mode.
SetMode(h) ==
  /\ step[h] = "patchMode"
  /\ \E r \in Answers :
       /\ PatchMode(job[h].arg, r)
       /\ Refused(h, r) \/ Lost(h) \/ (r = "ok" /\ Succeed(h, job[h].arg))

\* SetSetting: PATCH /configs ...
SetSetting(h) ==
  /\ step[h] = "patchSetting"
  /\ \E r \in Answers :
       /\ PatchSetting(job[h].name, job[h].arg, r)
       /\ Refused(h, r) \/ Lost(h) \/ (r = "ok" /\ Continue(h, "readSetting"))

\* ... and the settings are read again: a refusal of GET /configs is answered
\* like one of the PATCH, though the setting has changed.
RereadSetting(h) ==
  /\ step[h] = "readSetting"
  /\ UNCHANGED coreVars
  /\ \E r \in Answers : Refused(h, r) \/ (r = "ok" /\ Succeed(h, settings[job[h].name]))

\* UpdateProvider and HealthCheckProvider.
CallProvider(h) ==
  /\ step[h] = "provider"
  /\ \E r \in Answers :
       /\ IF job[h].op = "HealthCheck" THEN Measure(r) ELSE PutProvider(job[h].arg, r)
       /\ Refused(h, r) \/ Lost(h) \/ (r = "ok" /\ Succeed(h, None))

\* RunAction: what an action changes is not modelled.
RunAction(h) ==
  /\ step[h] = "post"
  /\ UNCHANGED coreVars
  /\ \E r \in Answers : Refused(h, r) \/ (r = "ok" /\ Succeed(h, None))

-----------------------------------------------------------------------------
\* CloseConnections: the connections are listed first.
ListConns(h) ==
  LET id == job[h].arg
  IN  /\ step[h] = "listConns"
      /\ UNCHANGED coreVars
      /\ \/ id # None /\ id \notin conns /\ Fail(h, "not_found")
         \/ /\ id = None \/ id \in conns
            /\ Goto(h, IF id = None THEN "closeAll" ELSE "closeOne")
            /\ looked' = [looked EXCEPT ![h] = conns]
            /\ UNCHANGED <<job, result, failures>>

\* DELETE /connections; the answer counts the connections listed before.
CloseAll(h) ==
  /\ step[h] = "closeAll"
  /\ DeleteConns(conns)
  /\ \/ Lost(h)
     \/ Return(h, "ok", None, Cardinality(looked[h])) /\ UNCHANGED failures

\* Mutant of CloseOne: the id is left out of the path.
CloseOneClosesAll(h) ==
  /\ step[h] = "closeOne"
  /\ DeleteConns(conns)
  /\ \/ Lost(h)
     \/ Return(h, "ok", None, 1) /\ UNCHANGED failures

\* DELETE /connections/{id}.
CloseOne(h) ==
  /\ step[h] = "closeOne"
  /\ DeleteConns({job[h].arg})
  /\ \/ Lost(h)
     \/ Return(h, "ok", None, 1) /\ UNCHANGED failures

HookStep(h) == \/ CallFails(h)
               \/ LookUpGroup(h)
               \/ SelectProxy(h)
               \/ UnfixProxy(h)
               \/ RereadGroup(h)
               \/ TestDelay(h)
               \/ SetMode(h)
               \/ SetSetting(h)
               \/ RereadSetting(h)
               \/ CallProvider(h)
               \/ RunAction(h)
               \/ ListConns(h)
               \/ CloseAll(h)
               \/ CloseOne(h)
=============================================================================
