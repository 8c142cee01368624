------------------------------ MODULE EventHub ------------------------------
(***************************************************************************)
(* agent/events.go: live updates.  A handler that changed something calls  *)
(* Notify, which builds one frame per name and broadcasts it to the        *)
(* subscribers of the hub; handleEvents serves one stream: it reads the    *)
(* status, subscribes, and then writes what the select loop picks.         *)
(*                                                                         *)
(* The state the controllers look at is a version number per resource.  A  *)
(* controller refetches everything when its stream starts, and afterwards  *)
(* what a frame tells it to, as PROTOCOL.md section 9.2 asks.              *)
(***************************************************************************)
EXTENDS Naturals, Sequences, Announcements

CONSTANTS
  Streams,           \* runs of handleEvents
  Devices,           \* controller device ids
  Notifiers,         \* goroutines that change something and call Notify
  Request,           \* per stream: device, topics and level of the request
  Ops,               \* the operations the notifiers run, which announce all they
                     \* may alter; what the others leave out is RemoteButtons'
  LineLevels,        \* levels of the log lines the host publishes
  subscriberBuffer,  \* capacity of a subscriber's channel
  MaxOps,            \* bound of the model: operations run
  MaxFailures,       \* bound of the model: failing status reads
  None

Topics == {"traffic", "logs"}

ASSUME HubAssumption ==
  /\ Request \in [Streams -> [dev: Devices, topics: SUBSET Topics,
                              level: Levels \cup {""}]]
  /\ Ops \subseteq Operations \ StatusUnannounced
  /\ subscriberBuffer \in Nat
  /\ MaxOps \in Nat
  /\ MaxFailures \in Nat

VARIABLES
  version,   \* what the hooks would report, per resource
  paired,    \* devices whose token authenticates
  dropping,  \* devices whose unpair has revoked and not yet dropped streams
  subs,      \* hub.subs
  ch,        \* sub.ch
  done,      \* sub.done is closed
  pc,        \* where each handleEvents is
  out,       \* the frame it is writing
  todo,      \* names each Notify still has to announce
  ready,     \* the status frame a Notify has built and not yet broadcast
  seen,      \* what each controller last saw, per resource
  missed,    \* history: no status sent or queued tells the stream the current
             \* one, see NotifyStatus
  ops,
  failures

vars == <<version, paired, dropping, subs, ch, done, pc, out, todo, ready,
          seen, missed, ops, failures>>
streamVars == <<subs, ch, done, pc, out, seen, missed>>

\* sseFrame: kind, and the status version, the resource or the log level.
StatusFrame(v) == [kind |-> "status", data |-> v]
ChangedFrame(r) == [kind |-> "changed", data |-> r]
LogFrame(level) == [kind |-> "log", data |-> level]
TrafficFrame == [kind |-> "traffic", data |-> None]
Ping == [kind |-> "ping", data |-> None]

HubFrames == {StatusFrame(v) : v \in 0..MaxOps} \cup {ChangedFrame(r) : r \in Resources}
               \cup {LogFrame(l) : l \in LineLevels}
Frames == HubFrames \cup {TrafficFrame, Ping}

ASSUME FrameAssumption == None \notin Frames

Phases == {"idle", "authed", "snapped", "first", "writing", "select", "closed"}

\* Every variable keeps its type; no channel holds more than its capacity.
TypeOK ==
  /\ version \in [Resources -> 0..MaxOps]
  /\ paired \subseteq Devices
  /\ dropping \subseteq Devices
  /\ subs \subseteq Streams
  /\ \A s \in Streams : /\ \A i \in DOMAIN ch[s] : ch[s][i] \in HubFrames
                        /\ Len(ch[s]) <= subscriberBuffer
  /\ done \in [Streams -> BOOLEAN]
  /\ pc \in [Streams -> Phases]
  /\ out \in [Streams -> Frames \cup {None}]
  /\ \A n \in Notifiers : \A i \in DOMAIN todo[n] : todo[n][i] \in Resources
  /\ ready \in [Notifiers -> Frames \cup {None}]
  /\ seen \in [Streams -> [Resources -> 0..MaxOps]]
  /\ missed \in [Streams -> BOOLEAN]

Init ==
  /\ version = [r \in Resources |-> 0]
  /\ paired = Devices
  /\ dropping = {}
  /\ subs = {}
  /\ ch = [s \in Streams |-> <<>>]
  /\ done = [s \in Streams |-> FALSE]
  /\ pc = [s \in Streams |-> "idle"]
  /\ out = [s \in Streams |-> None]
  /\ todo = [n \in Notifiers |-> <<>>]
  /\ ready = [n \in Notifiers |-> None]
  /\ seen = [s \in Streams |-> [r \in Resources |-> 0]]
  /\ missed = [s \in Streams |-> FALSE]
  /\ ops = 0
  /\ failures = 0

-----------------------------------------------------------------------------
\* severity: error ranks 3, debug 0; an unknown level ranks as error.
severity(level) ==
  IF level \in Levels
  THEN Len(LogLevels) - CHOOSE i \in DOMAIN LogLevels : LogLevels[i] = level
  ELSE Len(LogLevels) - 1

\* sub.logLevel for a request that asks for logs.
logLevel(level) == IF level = "" THEN 0 ELSE severity(level)

\* Mutant of wants: the level is forgotten.
wantsAnyLevel(s, f) == f.kind = "log" => "logs" \in Request[s].topics

\* wants: only log frames are filtered.
wants(s, f) ==
  f.kind = "log" => /\ "logs" \in Request[s].topics
                    /\ severity(f.data) >= logLevel(Request[s].level)

\* Mutant of broadcast: a full channel loses the frame and keeps the stream.
broadcastLossy(f) ==
  /\ ch' = [s \in Streams |->
              IF s \in subs /\ wants(s, f) /\ Len(ch[s]) < subscriberBuffer
              THEN Append(ch[s], f) ELSE ch[s]]
  /\ done' = done

\* Mutant of broadcast: one frame more than the channel holds is queued.
broadcastOver(f) ==
  /\ ch' = [s \in Streams |->
              IF s \in subs /\ wants(s, f) /\ Len(ch[s]) <= subscriberBuffer
              THEN Append(ch[s], f) ELSE ch[s]]
  /\ done' = done

\* broadcast: one critical section of hub.mu; a full channel drops the
\* subscriber instead of blocking.
broadcast(f) ==
  LET takers == {s \in subs : wants(s, f)}
      full == {s \in takers : Len(ch[s]) >= subscriberBuffer}
  IN  /\ ch' = [s \in Streams |-> IF s \in takers \ full THEN Append(ch[s], f)
                                  ELSE ch[s]]
      /\ done' = [s \in Streams |-> done[s] \/ s \in full]

-----------------------------------------------------------------------------
\* A handler ran its hook, which altered all that Effect says it may, and calls
\* Notify.
Change(n, op) ==
  /\ todo[n] = <<>>
  /\ ops < MaxOps
  /\ ops' = ops + 1
  /\ version' = [r \in Resources |-> IF r \in Effect[op] THEN version[r] + 1
                                     ELSE version[r]]
  /\ todo' = [todo EXCEPT ![n] = Announces[op]]
  /\ UNCHANGED <<paired, dropping, streamVars, ready, failures>>

Announcing(n, kind) == todo[n] # <<>> /\ (Head(todo[n]) = "status") = (kind = "status")

\* Notify(EventStatus): a.status reads the hooks ...
NotifyReadStatus(n) ==
  /\ Announcing(n, "status")
  /\ ready[n] = None
  /\ ready' = [ready EXCEPT ![n] = StatusFrame(version["status"])]
  /\ UNCHANGED <<version, paired, dropping, streamVars, todo, ops, failures>>

\* ... or fails, and then nothing is sent.
NotifyStatusFails(n) ==
  /\ Announcing(n, "status")
  /\ ready[n] = None
  /\ failures < MaxFailures
  /\ failures' = failures + 1
  /\ todo' = [todo EXCEPT ![n] = Tail(@)]
  /\ missed' = [s \in Streams |-> TRUE]
  /\ UNCHANGED <<version, paired, dropping, subs, ch, done, pc, out, ready, seen, ops>>

\* ... and the frame is broadcast later: it misses a stream that has read its
\* first status and not subscribed, and it may be older than what another
\* Notify has sent since it was read.
NotifyStatus(n) ==
  /\ ready[n] # None
  /\ broadcast(ready[n])
  /\ missed' = [s \in Streams |-> ready[n].data # version["status"] \/ pc[s] = "snapped"]
  /\ ready' = [ready EXCEPT ![n] = None]
  /\ todo' = [todo EXCEPT ![n] = Tail(@)]
  /\ UNCHANGED <<version, paired, dropping, subs, pc, out, seen, ops, failures>>

\* Notify(Resource*): the frame only names the resource.
NotifyChanged(n) ==
  /\ Announcing(n, "changed")
  /\ broadcast(ChangedFrame(Head(todo[n])))
  /\ todo' = [todo EXCEPT ![n] = Tail(@)]
  /\ UNCHANGED <<version, paired, dropping, subs, pc, out, ready, seen, missed,
                 ops, failures>>

PublishLog(level) ==
  /\ broadcast(LogFrame(level))
  /\ UNCHANGED <<version, paired, dropping, subs, pc, out, todo, ready, seen,
                 missed, ops, failures>>

-----------------------------------------------------------------------------
\* handleUnpair: Store.Revoke, then dropDevice.
Unpair(d) ==
  /\ d \in paired
  /\ paired' = paired \ {d}
  /\ dropping' = dropping \cup {d}
  /\ UNCHANGED <<version, streamVars, todo, ready, ops, failures>>

\* The host revokes on the device itself, or handleUnpair's Revoke removed the
\* entry and failed to persist: no stream is dropped.
RevokeOnly(d) ==
  /\ d \in paired
  /\ paired' = paired \ {d}
  /\ UNCHANGED <<version, dropping, streamVars, todo, ready, ops, failures>>

\* Mutant of dropDevice: every subscriber is dropped.
dropAll(d) ==
  /\ d \in dropping
  /\ dropping' = dropping \ {d}
  /\ done' = [s \in Streams |-> done[s] \/ s \in subs]
  /\ UNCHANGED <<version, paired, subs, ch, pc, out, todo, ready, seen, missed,
                 ops, failures>>

\* dropDevice: the unpaired controller's streams are told to end.
dropDevice(d) ==
  /\ d \in dropping
  /\ dropping' = dropping \ {d}
  /\ done' = [s \in Streams |-> done[s] \/ (s \in subs /\ Request[s].dev = d)]
  /\ UNCHANGED <<version, paired, subs, ch, pc, out, todo, ready, seen, missed,
                 ops, failures>>

-----------------------------------------------------------------------------
Goto(s, phase) == pc' = [pc EXCEPT ![s] = phase]
Write(s, f) == Goto(s, "writing") /\ out' = [out EXCEPT ![s] = f]

\* a.auth let the request through.
Authed(s) ==
  /\ pc[s] = "idle"
  /\ Request[s].dev \in paired
  /\ Goto(s, "authed")
  /\ UNCHANGED <<version, paired, dropping, subs, ch, done, out, todo, ready, seen,
                 missed, ops, failures>>

\* The first event's status is read before the stream is subscribed.
ReadFirst(s) ==
  /\ pc[s] = "authed"
  /\ Goto(s, "snapped")
  /\ out' = [out EXCEPT ![s] = StatusFrame(version["status"])]
  /\ missed' = [missed EXCEPT ![s] = FALSE]
  /\ UNCHANGED <<version, paired, dropping, subs, ch, done, todo, ready, seen,
                 ops, failures>>

\* hub.add, and the first event goes out.
add(s) ==
  /\ pc[s] = "snapped"
  /\ subs' = subs \cup {s}
  /\ Goto(s, "first")
  /\ UNCHANGED <<version, paired, dropping, ch, done, out, todo, ready, seen,
                 missed, ops, failures>>

\* The controller has read its first event, and fetches what it shows.
ReaderStarts(s) ==
  /\ pc[s] = "first"
  /\ Goto(s, "select")
  /\ out' = [out EXCEPT ![s] = None]
  /\ seen' = [seen EXCEPT ![s] = [version EXCEPT !["status"] = out[s].data]]
  /\ UNCHANGED <<version, paired, dropping, subs, ch, done, todo, ready, missed,
                 ops, failures>>

\* What a controller knows once it has read frame f.
Refetch(s, f) ==
  CASE f.kind = "status" -> [seen[s] EXCEPT !["status"] = f.data]
    [] f.kind = "changed" -> [seen[s] EXCEPT ![f.data] = version[f.data]]
    [] OTHER -> seen[s]

\* The controller has read the frame: write returns.
ReaderReads(s) ==
  /\ pc[s] = "writing"
  /\ Goto(s, "select")
  /\ out' = [out EXCEPT ![s] = None]
  /\ seen' = [seen EXCEPT ![s] = Refetch(s, out[s])]
  /\ UNCHANGED <<version, paired, dropping, subs, ch, done, todo, ready, missed,
                 ops, failures>>

\* handleEvents returns; the deferred hub.remove unsubscribes.
Close(s) ==
  /\ Goto(s, "closed")
  /\ subs' = subs \ {s}
  /\ ch' = [ch EXCEPT ![s] = <<>>]
  /\ out' = [out EXCEPT ![s] = None]
  /\ UNCHANGED <<version, paired, dropping, done, todo, ready, seen, missed,
                 ops, failures>>

\* The connection is gone: write fails, or ctx is done.
ReaderLeaves(s) == pc[s] \in {"first", "writing", "select"} /\ Close(s)

\* Mutant of TakeDone: done only makes the loop look the token up.
TakeDoneRechecks(s) ==
  pc[s] = "select" /\ done[s] /\ Request[s].dev \notin paired /\ Close(s)

\* The select loop: the closed done channel ...
TakeDone(s) == pc[s] = "select" /\ done[s] /\ Close(s)

\* ... a queued frame ...
TakeFrame(s) ==
  /\ pc[s] = "select"
  /\ ch[s] # <<>>
  /\ Write(s, Head(ch[s]))
  /\ ch' = [ch EXCEPT ![s] = Tail(@)]
  /\ UNCHANGED <<version, paired, dropping, subs, done, todo, ready, seen, missed,
                 ops, failures>>

\* Mutant of Heartbeat: the ping is sent without looking at the token.
HeartbeatUnchecked(s) ==
  /\ pc[s] = "select"
  /\ Write(s, Ping)
  /\ UNCHANGED <<version, paired, dropping, subs, ch, done, todo, ready, seen, missed,
                 ops, failures>>

\* ... the heartbeat, which looks the token up again ...
Heartbeat(s) ==
  /\ pc[s] = "select"
  /\ \/ Request[s].dev \notin paired /\ Close(s)
     \/ /\ Request[s].dev \in paired
        /\ Write(s, Ping)
        /\ UNCHANGED <<version, paired, dropping, subs, ch, done, todo, ready, seen,
                       missed, ops, failures>>

\* ... and the traffic ticker (a failing read sends nothing).
TrafficTick(s) ==
  /\ pc[s] = "select"
  /\ "traffic" \in Request[s].topics
  /\ Write(s, TrafficFrame)
  /\ UNCHANGED <<version, paired, dropping, subs, ch, done, todo, ready, seen, missed,
                 ops, failures>>

-----------------------------------------------------------------------------
Announce(n) == NotifyReadStatus(n) \/ NotifyStatusFails(n) \/ NotifyStatus(n)
                 \/ NotifyChanged(n)

Open(s) == Authed(s) \/ ReadFirst(s) \/ add(s)

Reader(s) == ReaderStarts(s) \/ ReaderReads(s)

Loop(s) == TakeDone(s) \/ TakeFrame(s) \/ Heartbeat(s) \/ TrafficTick(s)

Next ==
  \/ \E n \in Notifiers : Announce(n) \/ \E op \in Ops : Change(n, op)
  \/ \E l \in LineLevels : PublishLog(l)
  \/ \E d \in Devices : Unpair(d) \/ RevokeOnly(d) \/ dropDevice(d)
  \/ \E s \in Streams : Open(s) \/ Reader(s) \/ ReaderLeaves(s) \/ Loop(s)

Spec == Init /\ [][Next]_vars

(***************************************************************************)
(* Fairness.  Notify and a begun handleEvents run to completion.  The      *)
(* select statement picks at random among the ready cases, so a case ready *)
(* again and again is taken (strong fairness); the heartbeat ticker always *)
(* becomes ready again.                                                    *)
(***************************************************************************)
AgentFairness ==
  /\ \A n \in Notifiers : WF_vars(Announce(n))
  /\ \A d \in Devices : WF_vars(dropDevice(d))
  /\ \A s \in Streams : /\ WF_vars(ReadFirst(s) \/ add(s))
                        /\ SF_vars(TakeDone(s))
                        /\ SF_vars(TakeFrame(s))
                        /\ SF_vars(Heartbeat(s))

\* Controllers keep reading, or their connection breaks.
ReaderFairness == \A s \in Streams : WF_vars(Reader(s) \/ ReaderLeaves(s))

FairSpec == Spec /\ AgentFairness /\ ReaderFairness

-----------------------------------------------------------------------------
Idle(n) == todo[n] = <<>>

\* A stream with nothing left to read, that nobody is about to tell anything.
Settled(s) == /\ pc[s] = "select"
              /\ ch[s] = <<>>
              /\ ~done[s]
              /\ \A n \in Notifiers : Idle(n)

\* Section 9.2, "whenever power, name or summary changes": the last status
\* event a settled controller has read is the current status.
StatusInSync ==
  \A s \in Streams : Settled(s) => seen[s]["status"] = version["status"]

\* However announcements overlap, a settled controller has the current status
\* unless the last update was broadcast between the status read and hub.add of
\* its stream, the hook could not report it, or an older status overtook it.
StatusInSyncUnlessMissed ==
  \A s \in Streams : Settled(s) /\ ~missed[s] => seen[s]["status"] = version["status"]

\* The lines a request's level leaves out; never one of unknown level.
Excludes(level) ==
  CASE level = "error" -> {"warning", "info", "debug"}
    [] level = "warning" -> {"info", "debug"}
    [] level = "info" -> {"debug"}
    [] OTHER -> {}

\* The rank arithmetic of severity agrees with the levels' meaning for every
\* level a request can name and every line, and what is queued obeys it.
LogFilter ==
  /\ \A level \in Levels \cup {""} : \A line \in Levels \cup LineLevels :
       severity(line) < logLevel(level) <=> line \in Excludes(level)
  /\ \A s \in Streams : \A i \in DOMAIN ch[s] :
       ch[s][i].kind = "log" => /\ "logs" \in Request[s].topics
                                /\ ch[s][i].data \notin Excludes(Request[s].level)

Live(s) == pc[s] \in {"first", "writing", "select"}

\* Section 7.3, "Other controllers' tokens MUST continue to work": a stream
\* of a paired controller is told to end only when its own buffer is full.
UnpairSparesOthers ==
  [][\A s \in Streams :
       /\ done'[s] /\ ~done[s]
       /\ Request[s].dev \in paired
       => Len(ch[s]) = subscriberBuffer]_vars

\* Section 7.3: the streams of a controller whose pairing is revoked end,
\* whether the revocation came from the controller or from the device, and
\* even when it raced the opening of the stream.
RevokedStreamsClose ==
  \A s \in Streams : (Live(s) /\ Request[s].dev \notin paired) ~> ~Live(s)

\* events.go, "a subscriber this far behind is disconnected".
OverrunStreamsClose == \A s \in Streams : (Live(s) /\ done[s]) ~> ~Live(s)

\* PROTOCOL.md section 9.2: a change made through the gateway reaches every
\* controller that stays connected: whatever is out of date at some point is up
\* to date later, also when nothing else happens.
ChangesReachReaders ==
  \A s \in Streams : \A r \in (UNION {Effect[op] : op \in Ops}) \ {"status"} :
    (Live(s) /\ seen[s][r] # version[r]) ~> (~Live(s) \/ seen[s][r] = version[r])
=============================================================================
