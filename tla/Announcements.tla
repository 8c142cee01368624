---------------------------- MODULE Announcements ----------------------------
(***************************************************************************)
(* What the gateway's state-changing handlers announce: the arguments of   *)
(* the Notify call that ends each handler of agent/agent.go and            *)
(* agent/control.go, in order; and the GET endpoints whose answers a       *)
(* success of each may alter, which RemoteButtons finds by comparing those *)
(* answers before and after every step.                                    *)
(***************************************************************************)
EXTENDS Sequences

Resources == {"status", "proxies", "mode", "profiles", "providers",
              "connections", "settings"}

\* protocol.LogLevels
LogLevels == <<"error", "warning", "info", "debug">>
Levels == {"error", "warning", "info", "debug"}

\* Mutant of Announces: the status is announced and the resource forgotten.
AnnouncesStatusOnly ==
  [op \in {"Power", "Rename", "Subscription", "SelectProxy", "UnfixProxy", "TestDelay",
           "SetMode", "SelectProfile", "UpdateProfile", "DeleteProfile",
           "UpdateProvider", "HealthCheck", "CloseConnections", "SetSetting"} |-> <<"status">>]

Announces ==
  [Power            |-> <<"status">>,
   Rename           |-> <<"status">>,
   Subscription     |-> <<"profiles">>,
   SelectProxy      |-> <<"proxies", "status">>,
   UnfixProxy       |-> <<"proxies", "status">>,
   TestDelay        |-> <<"proxies">>,
   SetMode          |-> <<"mode", "status">>,
   SelectProfile    |-> <<"profiles", "proxies", "providers", "status">>,
   UpdateProfile    |-> <<"profiles", "proxies", "providers">>,
   DeleteProfile    |-> <<"profiles">>,
   UpdateProvider   |-> <<"providers", "proxies">>,
   HealthCheck      |-> <<"proxies">>,
   CloseConnections |-> <<"connections">>,
   SetSetting       |-> <<"settings">>]

Operations == DOMAIN Announces

\* Operations that may change the node in use or the active profile, which the
\* status shows, and do not announce the status.
StatusUnannounced == {"TestDelay", "UpdateProfile", "DeleteProfile", "UpdateProvider"}

Effect ==
  [Power            |-> {"status"},
   Rename           |-> {"status"},
   Subscription     |-> {"profiles"},
   SelectProxy      |-> {"proxies", "status"},
   UnfixProxy       |-> {"proxies", "status"},
   TestDelay        |-> {"proxies", "status"},
   SetMode          |-> {"mode", "status"},
   SelectProfile    |-> {"profiles", "proxies", "providers", "status"},
   UpdateProfile    |-> {"profiles", "proxies", "providers", "status"},
   DeleteProfile    |-> {"profiles", "status"},
   UpdateProvider   |-> {"providers", "proxies", "status"},
   HealthCheck      |-> {"proxies"},
   CloseConnections |-> {"connections"},
   SetSetting       |-> {"settings"}]
=============================================================================
