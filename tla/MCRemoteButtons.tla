--------------------------- MODULE MCRemoteButtons ---------------------------
(* Model-checking instances of RemoteButtons: requests that are right and    *)
(* wrong in every way the handlers tell apart.                               *)
EXTENDS RemoteButtons, TLC

CONSTANTS g1, g2, n1, n2, c1, c2, h1, h2

MCGroups == {g1, g2}
MCGroupType == g1 :> "URLTest" @@ g2 :> "Selector"

\* Without profiles and providers; and with them and the forwarder read-only, but
\* without mode, settings and more.
MCConfigs ==
  {[disabled |-> {"profiles", "profile_update", "profile_delete", "providers"},
    readOnly |-> FALSE],
   [disabled |-> {"unfix", "mode", "settings", "connections", "actions"}, readOnly |-> TRUE]}

Ask(op, key, arg) == [NoJob EXCEPT !.op = op, !.name = key, !.arg = arg]
Fwd(method, path) == [NoJob EXCEPT !.op = "Forward", !.name = method, !.path = path]

\* Right and wrong in every way the handlers tell apart.
AnyRequest ==
  {Ask("SelectProxy", g1, n2), Ask("SelectProxy", g1, "gone"),
   Ask("UnfixProxy", g1, None), Ask("UnfixProxy", g2, None), Ask("UnfixProxy", None, None),
   Ask("TestDelay", g1, n1),
   Ask("SetMode", None, "global"), Ask("SetMode", None, "script"),
   Ask("SetSetting", "tun", "true"), Ask("SetSetting", "tun", "info"),
   Ask("SetSetting", "log_level", "loud"), Ask("SetSetting", "port", "true"),
   Ask("CloseConnections", None, c1), Ask("CloseConnections", None, None),
   Ask("UpdateProvider", "ads", "rule"), Ask("HealthCheck", "ads", "rule"),
   Ask("RunAction", "flush_dns", None), Ask("RunAction", "reboot", None),
   Ask("Power", None, None), Ask("Rename", None, "den")}

\* What changes the app's profiles, loads one into the core or measures nodes.
AppRequests ==
  {Ask("SelectProfile", "home", None), Ask("UpdateProfile", None, None),
   Ask("DeleteProfile", "home", None), Ask("DeleteProfile", None, None),
   Ask("Subscription", None, None), Ask("UpdateProvider", "sub", "proxy"),
   Ask("HealthCheck", "sub", "proxy"), Ask("TestDelay", g1, None)}

Relayed ==
  {Fwd(m, <<"", "configs">>) : m \in {"GET", "PUT", "PATCH"}} \cup
  {Fwd(m, <<"", "proxies", g1>>) : m \in {"PUT", "DELETE"}} \cup
  {Fwd(m, <<"", "connections", "">>) : m \in {"PUT", "DELETE"}} \cup
  {Fwd("GET", <<"", "group", g1, "delay">>), Fwd("DELETE", <<"", "connections", c1>>),
   Fwd("GET", <<"", "proxies", n1, "delay">>), Fwd("PUT", <<"", "providers", "proxies", "sub">>)}

\* One handler serves anything, the other what meets it in the core.
MCRequests ==
  h1 :> AnyRequest \cup AppRequests \cup Relayed
  @@ h2 :> {Ask("SelectProxy", g1, n2), Ask("SetSetting", "tun", "true"),
            Fwd("DELETE", <<"", "connections">>)}
=============================================================================
