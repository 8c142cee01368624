-------------------------------- MODULE Core --------------------------------
(***************************************************************************)
(* The local core (mihomo's external controller) as corehooks and the      *)
(* forwarder use it: policy groups with a node in use and possibly a       *)
(* pinned one, the nodes' delays, providers, the tunnel mode, settings and *)
(* open connections.  It is not part of the repository: what a call does   *)
(* is what the callers' code and comments rely on.  The app and the        *)
(* network change it too.                                                  *)
(***************************************************************************)
EXTENDS Naturals

CONSTANTS
  Groups,       \* names of proxies that may be groups
  GroupType,    \* the core type of each
  Nodes,        \* names of nodes
  Conns,        \* connection ids, never used twice
  MaxEvents,    \* bound of the model: changes made behind the gateway's back
  None          \* the empty string

Types == {"Selector", "URLTest", "LoadBalance"}
Modes == {"rule", "global", "direct"}

\* Two of the five settings: a boolean and an enum.
SettingKeys == {"tun", "log_level"}
Options == {"silent", "error", "warning", "info", "debug"}
Booleans == {"true", "false"}

ASSUME CoreAssumption == /\ GroupType \in [Groups -> Types]
                         /\ MaxEvents \in Nat

VARIABLES
  all,       \* the members of each group; none: there is no such group
  now,       \* the node in use
  fixed,     \* the pinned node
  mode,
  settings,
  delays,    \* the last delays of the nodes: flips when some are measured
  providers, \* the providers' contents: flips when one is updated
  conns,     \* open connections
  used,      \* connection ids used so far
  events

groupVars == <<all, now, fixed>>
connVars == <<conns, used>>
coreVars == <<all, now, fixed, mode, settings, delays, providers, conns, used, events>>

CoreTypeOK ==
  /\ all \in [Groups -> SUBSET Nodes]
  /\ now \in [Groups -> Nodes \cup {None}]
  /\ fixed \in [Groups -> Nodes \cup {None}]
  /\ mode \in Modes
  /\ DOMAIN settings = SettingKeys
  /\ {delays, providers} \subseteq BOOLEAN
  /\ conns \subseteq used
  /\ used \subseteq Conns
  /\ events \in 0..MaxEvents

CoreInit ==
  /\ all = [g \in Groups |-> Nodes]
  /\ \E n \in Nodes : now = [g \in Groups |-> n]
  /\ fixed \in {[g \in Groups |-> IF g \in pinned THEN now[g] ELSE None] :
                 pinned \in SUBSET {g \in Groups : GroupType[g] = "URLTest"}}
  /\ mode = "rule"
  /\ settings = [k \in SettingKeys |-> IF k = "tun" THEN "false" ELSE "info"]
  /\ delays = FALSE
  /\ providers = FALSE
  /\ \E c \in Conns : conns = {c}
  /\ used = conns
  /\ events = 0

-----------------------------------------------------------------------------
\* The calls, with the core's answer r: only "ok" changes anything.  A core in
\* embed mode answers PATCH /configs with not_found.

Answers == {"ok", "not_found", "invalid"}

\* PUT /proxies/{g}: selects, and pins in an automatic group.
PutProxy(g, n, r) ==
  /\ \/ /\ r = "ok"
        /\ n \in all[g]
        /\ now' = [now EXCEPT ![g] = n]
        /\ fixed' = [fixed EXCEPT ![g] = IF GroupType[g] = "URLTest" THEN n ELSE @]
     \/ /\ r = "not_found"
        /\ all[g] = {}
        /\ UNCHANGED <<now, fixed>>
     \/ /\ r = "invalid"
        /\ all[g] # {}
        /\ n \notin all[g]
        /\ UNCHANGED <<now, fixed>>
  /\ UNCHANGED <<all, mode, settings, delays, providers, connVars, events>>

\* The pin is cleared and the group picks a node.
Unpin(g) ==
  /\ fixed' = [fixed EXCEPT ![g] = None]
  /\ \E n \in all[g] : now' = [now EXCEPT ![g] = n]

\* DELETE /proxies/{g}: clears the pin of an automatic group.
DeleteProxy(g, r) ==
  /\ \/ /\ r = "ok"
        /\ GroupType[g] = "URLTest"
        /\ Unpin(g)
     \/ /\ r = "invalid"
        /\ all[g] # {}
        /\ GroupType[g] # "URLTest"
        /\ UNCHANGED <<now, fixed>>
     \/ /\ r = "not_found"
        /\ all[g] = {}
        /\ UNCHANGED <<now, fixed>>
  /\ UNCHANGED <<all, mode, settings, delays, providers, connVars, events>>

\* GET /group/{g}/delay: tests every node, and clears the pin.
GroupDelay(g, r) ==
  /\ \/ /\ r = "ok"
        /\ all[g] # {}
        /\ IF GroupType[g] = "URLTest" THEN Unpin(g) ELSE UNCHANGED <<now, fixed>>
        /\ delays' = ~delays
     \/ /\ r = "not_found"
        /\ all[g] = {}
        /\ UNCHANGED <<now, fixed, delays>>
  /\ UNCHANGED <<all, mode, settings, providers, connVars, events>>

\* GET /proxies/{n}/delay and GET /providers/proxies/{p}/healthcheck.
Measure(r) == /\ delays' = IF r = "ok" THEN ~delays ELSE delays
              /\ UNCHANGED <<groupVars, mode, settings, providers, connVars, events>>

\* A group gets other members, or is gone.
Regroup ==
  \E g \in Groups, ns \in SUBSET Nodes :
    /\ all' = [all EXCEPT ![g] = ns]
    /\ \E n \in IF ns = {} THEN {None} ELSE ns : now' = [now EXCEPT ![g] = n]
    /\ fixed' = [fixed EXCEPT ![g] = None]

\* PUT /providers/proxies/{p} and /providers/rules/{p}: new rules, or new nodes for the groups using it.
PutProvider(kind, r) ==
  /\ \/ r = "ok" /\ kind = "proxy" /\ Regroup /\ providers' = ~providers
     \/ r = "ok" /\ UNCHANGED groupVars /\ providers' = ~providers
     \/ r # "ok" /\ UNCHANGED <<groupVars, providers>>
  /\ UNCHANGED <<mode, settings, delays, connVars, events>>

\* PATCH /configs.
PatchMode(m, r) == /\ mode' = IF r = "ok" THEN m ELSE mode
                   /\ UNCHANGED <<groupVars, settings, delays, providers, connVars, events>>

PatchSetting(k, v, r) ==
  /\ settings' = IF r = "ok" THEN [settings EXCEPT ![k] = v] ELSE settings
  /\ UNCHANGED <<groupVars, mode, delays, providers, connVars, events>>

\* PUT /configs: another configuration, with groups, mode and settings of its own.
PutConfigs == /\ Regroup
              /\ mode' \in Modes
              /\ \E b \in Booleans : settings' = [settings EXCEPT !["tun"] = b]
              /\ UNCHANGED <<delays, providers, connVars, events>>

\* DELETE /connections/{id} for each of ids, or DELETE /connections.
DeleteConns(ids) == /\ conns' = conns \ ids
                    /\ UNCHANGED <<groupVars, mode, settings, delays, providers, used, events>>

-----------------------------------------------------------------------------
\* What happens without the gateway: traffic, automatic groups, the app.

Happens == events < MaxEvents /\ events' = events + 1

ConnOpens == /\ Happens
             /\ \E c \in Conns \ used : conns' = conns \cup {c} /\ used' = used \cup {c}
             /\ UNCHANGED <<groupVars, mode, settings, delays, providers>>

ConnEnds == /\ Happens
            /\ \E c \in conns : conns' = conns \ {c}
            /\ UNCHANGED <<groupVars, mode, settings, delays, providers, used>>

\* An automatic group that is not pinned switches; the app selects elsewhere.
NodeSwitches ==
  /\ Happens
  /\ \E g \in Groups : \E n \in all[g] : fixed[g] = None /\ now' = [now EXCEPT ![g] = n]
  /\ UNCHANGED <<all, fixed, mode, settings, delays, providers, connVars>>

\* Another profile on the device.
GroupChanges == /\ Happens
                /\ Regroup
                /\ UNCHANGED <<mode, settings, delays, providers, connVars>>

Elsewhere == ConnOpens \/ ConnEnds \/ NodeSwitches \/ GroupChanges
=============================================================================
