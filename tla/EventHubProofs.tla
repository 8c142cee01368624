---------------------------- MODULE EventHubProofs ----------------------------
(* Proofs about EventHub for any sets of streams, notifiers, devices and      *)
(* operations, any requests and any capacity of the subscribers' channels.    *)
EXTENDS EventHub, TLAPS

-----------------------------------------------------------------------------
(* The inductive invariant, part by part.                                    *)

StatusFrames == {StatusFrame(v) : v \in 0..MaxOps}

\* Sequences are sequences, a built frame is a status, versions count changes.
Shapes ==
  /\ ops \in 0..MaxOps
  /\ \A r \in Resources : version[r] <= ops
  /\ ch \in [Streams -> Seq(HubFrames)]
  /\ todo \in [Notifiers -> Seq(Resources)]
  /\ ready \in [Notifiers -> StatusFrames \cup {None}]
  /\ \A n \in Notifiers : ready[n] # None => todo[n] # <<>> /\ Head(todo[n]) = "status"

\* What handleEvents is writing.
Outgoing ==
  \A s \in Streams : /\ pc[s] \in {"snapped", "first"} => out[s] \in StatusFrames
                     /\ pc[s] = "writing" => out[s] \in Frames
                     /\ pc[s] = "select" => out[s] = None

HubType == TypeOK /\ Shapes /\ Outgoing

\* Streams are dropped for devices that are no longer paired.
DroppedAreUnpaired == dropping \cap paired = {}

\* Only what a subscriber wants is queued.
Wanted == \A s \in Streams : \A i \in DOMAIN ch[s] : wants(s, ch[s][i])

\* Exactly the streams past hub.add are subscribed, and only they hold frames.
Subscribed ==
  \A s \in Streams : /\ s \in subs <=> pc[s] \in {"first", "writing", "select"}
                     /\ s \notin subs => ch[s] = <<>>

\* Who read last, is being written frame and has queue ahead ends up with v.
Latest(queue, frame, last, v) ==
  \/ \E i \in DOMAIN queue :
       /\ queue[i] = StatusFrame(v)
       /\ \A j \in DOMAIN queue : j > i => queue[j] \notin StatusFrames
  \/ /\ \A i \in DOMAIN queue : queue[i] \notin StatusFrames
     /\ \/ frame = StatusFrame(v)
        \/ frame \notin StatusFrames /\ last = v

\* The last status that stream s was sent, is sent or will be sent is v.
Freshest(s, v) == Latest(ch[s], out[s], seen[s]["status"], v)

\* Some Notify has yet to announce the status.
Pending == \E n \in Notifiers : \E i \in DOMAIN todo[n] : todo[n][i] = "status"

\* An open stream that missed nothing is up to date, or is about to be told.
Counts(s) == /\ pc[s] \in {"snapped", "first", "writing", "select"}
             /\ ~done[s] /\ ~missed[s]

InSync == Pending \/ \A s \in Streams : Counts(s) => Freshest(s, version["status"])

-----------------------------------------------------------------------------
(* Frames, announcements and levels.                                         *)

LEMMA FrameKinds ==
  /\ StatusFrames \subseteq HubFrames /\ HubFrames \subseteq Frames
  /\ \A r \in Resources : ChangedFrame(r) \in HubFrames \ StatusFrames
  /\ \A l \in LineLevels : LogFrame(l) \in HubFrames \ StatusFrames
  /\ TrafficFrame \in Frames \ StatusFrames /\ Ping \in Frames \ StatusFrames
  /\ None \notin StatusFrames
  BY FrameAssumption DEF StatusFrames, HubFrames, Frames, StatusFrame, ChangedFrame, LogFrame,
     TrafficFrame, Ping

\* What a frame carries follows from its kind.
LEMMA FrameData ==
  ASSUME NEW f \in Frames
  PROVE  /\ f.kind = "status" <=> f \in StatusFrames
         /\ f.kind = "status" => f.data \in 0..MaxOps /\ f = StatusFrame(f.data)
         /\ f.kind = "changed" => f.data \in Resources
<1>1. CASE \E v \in 0..MaxOps : f = StatusFrame(v)
  <2>1. PICK v \in 0..MaxOps : f = StatusFrame(v)
    BY <1>1
  <2>2. f.kind = "status" /\ f.data = v /\ f \in StatusFrames
    BY <2>1 DEF StatusFrame, StatusFrames
  <2> QED
    BY <2>1, <2>2
<1>2. CASE \E r \in Resources : f = ChangedFrame(r)
  <2>1. PICK r \in Resources : f = ChangedFrame(r)
    BY <1>2
  <2>2. f.kind = "changed" /\ f.data = r
    BY <2>1 DEF ChangedFrame
  <2>3. f \notin StatusFrames
    BY <2>2 DEF StatusFrames, StatusFrame
  <2> QED
    BY <2>2, <2>3
<1>3. CASE f.kind \in {"log", "traffic", "ping"}
  <2>1. f \notin StatusFrames
    BY <1>3 DEF StatusFrames, StatusFrame
  <2> QED
    BY <1>3, <2>1
<1> QED
  BY <1>1, <1>2, <1>3 DEF Frames, HubFrames, LogFrame, TrafficFrame, Ping

\* What an announcement is about; these operations announce a changed status.
LEMMA Announced ==
  ASSUME NEW op \in Ops
  PROVE  /\ Announces[op] \in Seq(Resources)
         /\ "status" \in Effect[op] => \E i \in DOMAIN Announces[op] : Announces[op][i] = "status"
<1>0. op \in {"Power", "Rename", "Subscription", "SelectProxy", "UnfixProxy", "SetMode",
              "SelectProfile", "HealthCheck", "CloseConnections", "SetSetting"}
  <2>1. op \in Operations \ StatusUnannounced
    BY Zenon, HubAssumption
  <2>2. op \in {"Power", "Rename", "Subscription", "SelectProxy", "UnfixProxy", "TestDelay",
                "SetMode", "SelectProfile", "UpdateProfile", "DeleteProfile",
                "UpdateProvider", "HealthCheck", "CloseConnections", "SetSetting"}
    BY <2>1 DEF Operations, Announces
  <2> QED
    BY <2>1, <2>2 DEF StatusUnannounced
<1>1. CASE op \in {"Power", "Rename"}
  <2>1. Announces[op] = <<"status">>
    BY <1>1 DEF Announces
  <2>2. 1 \in DOMAIN Announces[op] /\ Announces[op][1] = "status"
    BY <2>1
  <2> QED
    BY <2>1, <2>2 DEF Resources
<1>2. CASE op \in {"SelectProxy", "UnfixProxy", "SetMode"}
  <2>1. Announces[op] \in {<<"proxies", "status">>, <<"mode", "status">>}
    BY <1>2 DEF Announces
  <2>2. 2 \in DOMAIN Announces[op] /\ Announces[op][2] = "status"
    BY <2>1
  <2>3. <<"proxies", "status">> \in Seq(Resources) /\ <<"mode", "status">> \in Seq(Resources)
    BY DEF Resources
  <2> QED
    BY <2>1, <2>2, <2>3
<1>3. CASE op = "SelectProfile"
  <2>1. Announces[op] = <<"profiles", "proxies", "providers", "status">>
    BY <1>3 DEF Announces
  <2>2. 4 \in DOMAIN Announces[op] /\ Announces[op][4] = "status"
    BY <2>1
  <2> QED
    BY <2>1, <2>2 DEF Resources
<1>4. CASE op \in {"Subscription", "HealthCheck", "CloseConnections", "SetSetting"}
  BY <1>4 DEF Announces, Effect, Resources
<1> QED
  BY <1>0, <1>1, <1>2, <1>3, <1>4

LEMMA HubConstants ==
  /\ \A s \in Streams : Request[s].dev \in Devices
  /\ subscriberBuffer \in Nat /\ MaxOps \in Nat
  BY HubAssumption

\* severity counts down from error; what it does not know ranks as error.
LEMMA Severities ==
  /\ severity("error") = 3 /\ severity("warning") = 2
  /\ severity("info") = 1 /\ severity("debug") = 0
  /\ \A level : level \notin Levels => severity(level) = 3
<1>1. Len(LogLevels) = 4 /\ DOMAIN LogLevels = 1..4
  BY DEF LogLevels
<1>2. /\ LogLevels[1] = "error" /\ LogLevels[2] = "warning"
      /\ LogLevels[3] = "info" /\ LogLevels[4] = "debug"
  BY DEF LogLevels
<1>3. ASSUME NEW k \in 1..4 PROVE severity(LogLevels[k]) = 4 - k
  <2>1. \A i \in 1..4 : LogLevels[i] = LogLevels[k] <=> i = k
    BY <1>2
  <2>2. (CHOOSE i \in DOMAIN LogLevels : LogLevels[i] = LogLevels[k]) = k
    BY <1>1, <2>1
  <2>3. LogLevels[k] \in Levels
    BY <1>2 DEF Levels
  <2> QED
    BY <1>1, <2>2, <2>3 DEF severity
<1>4. \A level : level \notin Levels => severity(level) = 3
  BY <1>1 DEF severity
<1> QED
  BY <1>2, <1>3, <1>4

RequestLevels == Levels \cup {""}

\* The order of severities is the meaning of the levels.
LEMMA LevelsMean ==
  ASSUME NEW level \in RequestLevels, NEW line
  PROVE  severity(line) < logLevel(level) <=> line \in Excludes(level)
<1>1. \/ line = "error" \/ line = "warning" \/ line = "info" \/ line = "debug"
      \/ line \notin Levels
  BY DEF Levels
<1>2. \/ level = "error" \/ level = "warning" \/ level = "info" \/ level = "debug"
      \/ level = ""
  BY DEF Levels, RequestLevels
<1>3. /\ severity(line) = IF line = "warning" THEN 2 ELSE IF line = "info" THEN 1
                          ELSE IF line = "debug" THEN 0 ELSE 3
      /\ logLevel(level) = IF level = "error" THEN 3 ELSE IF level = "warning" THEN 2
                           ELSE IF level = "info" THEN 1 ELSE 0
  BY <1>1, <1>2, Severities DEF logLevel
<1>4. line \in Excludes(level) <=>
        \/ level = "error" /\ line \in {"warning", "info", "debug"}
        \/ level = "warning" /\ line \in {"info", "debug"}
        \/ level = "info" /\ line = "debug"
  BY <1>2 DEF Excludes
<1>5. CASE level = "error"
  BY <1>1, <1>3, <1>4, <1>5 DEF Levels
<1>6. CASE level = "warning"
  BY <1>1, <1>3, <1>4, <1>6 DEF Levels
<1>7. CASE level = "info"
  BY <1>1, <1>3, <1>4, <1>7 DEF Levels
<1>8. CASE level \notin {"error", "warning", "info"}
  <2>1. logLevel(level) = 0 /\ line \notin Excludes(level)
    BY <1>3, <1>4, <1>8
  <2>2. PICK k \in 0..3 : severity(line) = k
    BY <1>1, Severities
  <2> QED
    BY <2>1, <2>2
<1> QED
  BY <1>5, <1>6, <1>7, <1>8

LEMMA LevelRanks ==
  /\ \A line : severity(line) \in 0..3
  /\ \A level \in RequestLevels : logLevel(level) \in 0..3
<1>1. \A line : severity(line) \in 0..3
  BY Severities DEF Levels
<1>2. 0 \in 0..3
  OBVIOUS
<1> QED
  BY <1>1, <1>2, Zenon DEF logLevel

\* What broadcast does to a subscriber: nothing, one more frame, or the end.
LEMMA BroadcastStep ==
  ASSUME HubType, NEW f \in HubFrames, broadcast(f), NEW s \in Streams
  PROVE  /\ Len(ch'[s]) <= subscriberBuffer
         /\ ch' \in [Streams -> Seq(HubFrames)] /\ done' \in [Streams -> BOOLEAN]
         /\ \/ ch'[s] = ch[s] /\ done'[s] = done[s] /\ (s \notin subs \/ ~wants(s, f))
            \/ /\ ch'[s] = ch[s] /\ done'[s]
               /\ s \in subs /\ Len(ch[s]) = subscriberBuffer
            \/ /\ ch'[s] = Append(ch[s], f) /\ done'[s] = done[s]
               /\ s \in subs /\ wants(s, f)
<1> DEFINE takers == {x \in subs : wants(x, f)}
           full == {x \in takers : Len(ch[x]) >= subscriberBuffer}
<1>1. /\ ch' = [x \in Streams |-> IF x \in takers \ full THEN Append(ch[x], f) ELSE ch[x]]
      /\ done' = [x \in Streams |-> done[x] \/ x \in full]
  BY DEF broadcast
<1>2. /\ ch \in [Streams -> Seq(HubFrames)] /\ done \in [Streams -> BOOLEAN]
      /\ \A x \in Streams : Len(ch[x]) <= subscriberBuffer
      /\ subscriberBuffer \in Nat
  BY HubConstants DEF HubType, TypeOK, Shapes
<1>3. ch' \in [Streams -> Seq(HubFrames)] /\ done' \in [Streams -> BOOLEAN]
  <2> HIDE DEF takers, full
  <2> QED
    BY <1>1, <1>2
<1>4. CASE s \notin takers
  BY <1>1, <1>2, <1>3, <1>4
<1>5. CASE s \in full
  <2>1. Len(ch[s]) = subscriberBuffer
    BY <1>2, <1>5
  <2>2. ch'[s] = ch[s] /\ done'[s] /\ s \in subs
    BY <1>1, <1>5
  <2> QED
    BY <1>2, <1>3, <2>1, <2>2
<1>6. CASE s \in takers \ full
  BY <1>1, <1>2, <1>3, <1>6
<1> QED
  BY <1>4, <1>5, <1>6

-----------------------------------------------------------------------------
(* Type correctness.                                                         *)

LEMMA InitType == Init => HubType
<1> SUFFICES ASSUME Init PROVE HubType
  OBVIOUS
<1>1. TypeOK
  BY HubConstants DEF Init, TypeOK, Resources, Phases, Frames
<1> QED
  BY <1>1, HubConstants DEF Init, HubType, Shapes, Outgoing

\* A change adds one to the versions it is about.
LEMMA ChangeType ==
  ASSUME HubType, NEW n \in Notifiers, NEW op \in Ops, Change(n, op)
  PROVE  HubType'
<1> USE DEF HubType, TypeOK, Shapes, Outgoing, streamVars, Change
<1>1. ops \in Nat /\ ops' \in 0..MaxOps /\ ops' = ops + 1
  BY HubConstants
<1>2. ASSUME NEW r \in Resources
      PROVE  version'[r] \in 0..MaxOps /\ version'[r] <= ops'
  BY <1>1, <1>2, HubConstants
<1>3. version' \in [Resources -> 0..MaxOps]
  BY <1>2
<1>4. todo' \in [Notifiers -> Seq(Resources)]
  BY Announced
<1> QED
  BY <1>1, <1>2, <1>3, <1>4

\* A notifier's queue, and what every broadcast leaves alone.
LEMMA QueueType ==
  ASSUME HubType, NEW n \in Notifiers, todo[n] # <<>>
  PROVE  /\ Head(todo[n]) \in Resources
         /\ [todo EXCEPT ![n] = Tail(@)] \in [Notifiers -> Seq(Resources)]
  BY DEF HubType, Shapes

LEMMA BroadcastType ==
  ASSUME HubType, NEW f \in HubFrames, broadcast(f),
         UNCHANGED <<version, paired, dropping, subs, pc, out, seen, ops>>,
         todo' \in [Notifiers -> Seq(Resources)],
         ready' \in [Notifiers -> StatusFrames \cup {None}],
         missed' \in [Streams -> BOOLEAN],
         \A n \in Notifiers : ready'[n] # None => todo'[n] # <<>> /\ Head(todo'[n]) = "status"
  PROVE  HubType'
<1>1. /\ ch' \in [Streams -> Seq(HubFrames)] \/ Streams = {}
      /\ done' \in [Streams -> BOOLEAN] \/ Streams = {}
      /\ \A s \in Streams : Len(ch'[s]) <= subscriberBuffer
  BY BroadcastStep
<1>2. /\ ch' \in [Streams -> Seq(HubFrames)]
      /\ done' \in [Streams -> BOOLEAN]
  BY <1>1 DEF broadcast
<1>3. ready' \in [Notifiers -> Frames \cup {None}]
  BY FrameKinds
<1> QED
  BY <1>1, <1>2, <1>3 DEF HubType, TypeOK, Shapes, Outgoing

LEMMA NotifyType ==
  ASSUME HubType, NEW n \in Notifiers, Announce(n)
  PROVE  HubType'
<1> USE DEF streamVars
<1>0. /\ ready \in [Notifiers -> StatusFrames \cup {None}]
      /\ todo \in [Notifiers -> Seq(Resources)] /\ missed \in [Streams -> BOOLEAN]
      /\ "status" \in Resources
  BY DEF HubType, TypeOK, Shapes, Resources
<1>1. CASE NotifyReadStatus(n)
  <2>1. StatusFrame(version["status"]) \in StatusFrames
    BY <1>0 DEF HubType, TypeOK, StatusFrames
  <2>2. ready' \in [Notifiers -> StatusFrames \cup {None}]
    BY <1>0, <1>1, <2>1 DEF NotifyReadStatus
  <2>3. ready' \in [Notifiers -> Frames \cup {None}]
    BY <2>2, FrameKinds
  <2>4. \A x \in Notifiers : ready'[x] # None => todo'[x] # <<>> /\ Head(todo'[x]) = "status"
    BY <1>0, <1>1 DEF NotifyReadStatus, Announcing, HubType, Shapes
  <2> QED
    BY <1>1, <2>2, <2>3, <2>4 DEF NotifyReadStatus, HubType, TypeOK, Shapes, Outgoing
<1>2. CASE NotifyStatusFails(n)
  <2>1. todo' \in [Notifiers -> Seq(Resources)]
    BY <1>2, QueueType DEF NotifyStatusFails, Announcing
  <2> QED
    BY <1>2, <2>1 DEF NotifyStatusFails, HubType, TypeOK, Shapes, Outgoing
<1>3. CASE NotifyStatus(n)
  <2>1. ready[n] \in HubFrames /\ broadcast(ready[n])
    BY <1>0, <1>3, FrameKinds DEF NotifyStatus
  <2>2. /\ todo' \in [Notifiers -> Seq(Resources)]
        /\ ready' \in [Notifiers -> StatusFrames \cup {None}]
        /\ missed' \in [Streams -> BOOLEAN]
    BY <1>0, <1>3, QueueType DEF NotifyStatus, HubType, Shapes
  <2>3. \A x \in Notifiers : ready'[x] # None => todo'[x] # <<>> /\ Head(todo'[x]) = "status"
    BY <1>0, <1>3 DEF NotifyStatus, HubType, Shapes
  <2> QED
    BY <1>3, <2>1, <2>2, <2>3, BroadcastType DEF NotifyStatus
<1>4. CASE NotifyChanged(n)
  <2>1. ChangedFrame(Head(todo[n])) \in HubFrames
    BY <1>4, QueueType, FrameKinds DEF NotifyChanged, Announcing
  <2>2. todo' \in [Notifiers -> Seq(Resources)]
    BY <1>4, QueueType DEF NotifyChanged, Announcing
  <2>3. \A x \in Notifiers : ready'[x] # None => todo'[x] # <<>> /\ Head(todo'[x]) = "status"
    BY <1>0, <1>4 DEF NotifyChanged, Announcing, HubType, Shapes
  <2> QED
    BY <1>0, <1>4, <2>1, <2>2, <2>3, BroadcastType DEF NotifyChanged
<1> QED
  BY <1>1, <1>2, <1>3, <1>4 DEF Announce

LEMMA UnpairType ==
  ASSUME HubType, NEW d \in Devices, Unpair(d) \/ RevokeOnly(d) \/ dropDevice(d)
  PROVE  HubType'
  BY DEF Unpair, RevokeOnly, dropDevice, streamVars, HubType, TypeOK, Shapes, Outgoing

LEMMA CloseType ==
  ASSUME HubType, NEW s \in Streams, Close(s)
  PROVE  HubType'
<1>1. ch' \in [Streams -> Seq(HubFrames)] /\ \A x \in Streams : Len(ch'[x]) <= subscriberBuffer
  BY HubConstants DEF Close, HubType, TypeOK, Shapes
<1> QED
  BY <1>1 DEF Close, Goto, HubType, TypeOK, Shapes, Outgoing, Phases

\* Opening a stream, and what its controller reads.
LEMMA OpenType ==
  ASSUME HubType, NEW s \in Streams, Open(s) \/ Reader(s)
  PROVE  HubType'
<1> USE DEF HubType, TypeOK, Shapes, Outgoing, Goto, Phases
<1>0. "status" \in Resources /\ StatusFrames \subseteq Frames
  BY FrameKinds DEF Resources
<1>1. CASE Authed(s)
  BY <1>1 DEF Authed
<1>2. CASE ReadFirst(s)
  <2>1. StatusFrame(version["status"]) \in StatusFrames
    BY <1>0 DEF StatusFrames
  <2>2. out' \in [Streams -> Frames \cup {None}]
    BY <1>0, <1>2, <2>1 DEF ReadFirst
  <2> QED
    BY <1>2, <2>1, <2>2 DEF ReadFirst
<1>3. CASE add(s)
  BY <1>3 DEF add
<1>4. CASE ReaderStarts(s)
  <2>1. out[s].data \in 0..MaxOps
    BY <1>4 DEF ReaderStarts, StatusFrames, StatusFrame
  <2>2. seen' \in [Streams -> [Resources -> 0..MaxOps]]
    BY <1>4, <2>1 DEF ReaderStarts
  <2> QED
    BY <1>4, <2>2 DEF ReaderStarts
<1>5. CASE ReaderReads(s)
  <2>1. out[s] \in Frames
    BY <1>5 DEF ReaderReads
  <2>2. /\ out[s].kind = "status" => out[s].data \in 0..MaxOps
        /\ out[s].kind = "changed" => out[s].data \in Resources
    BY <2>1, FrameData
  <2>3. Refetch(s, out[s]) \in [Resources -> 0..MaxOps]
    BY <2>2 DEF Refetch
  <2>4. seen' \in [Streams -> [Resources -> 0..MaxOps]]
    BY <1>5, <2>3 DEF ReaderReads
  <2> QED
    BY <1>5, <2>4 DEF ReaderReads
<1> QED
  BY <1>1, <1>2, <1>3, <1>4, <1>5 DEF Open, Reader

LEMMA LoopType ==
  ASSUME HubType, NEW s \in Streams, Loop(s) \/ ReaderLeaves(s)
  PROVE  HubType'
<1>1. CASE Close(s)
  BY <1>1, CloseType
<1>2. CASE /\ Write(s, Ping) \/ Write(s, TrafficFrame)
           /\ UNCHANGED <<version, paired, dropping, subs, ch, done, todo, ready, seen, missed, ops>>
  <2>1. PICK f \in Frames : Write(s, f)
    BY <1>2, FrameKinds
  <2> QED
    BY <1>2, <2>1 DEF Write, Goto, HubType, TypeOK, Shapes, Outgoing, Phases
<1>3. CASE TakeFrame(s)
  <2>1. Head(ch[s]) \in Frames /\ Tail(ch[s]) \in Seq(HubFrames) /\ Len(Tail(ch[s])) <= Len(ch[s])
    BY <1>3, FrameKinds DEF TakeFrame, HubType, Shapes
  <2>2. ch' \in [Streams -> Seq(HubFrames)] /\ \A x \in Streams : Len(ch'[x]) <= subscriberBuffer
    BY <1>3, <2>1, HubConstants DEF TakeFrame, HubType, TypeOK, Shapes
  <2> QED
    BY <1>3, <2>1, <2>2 DEF TakeFrame, Write, Goto, HubType, TypeOK, Shapes, Outgoing, Phases
<1> QED
  BY <1>1, <1>2, <1>3 DEF Loop, ReaderLeaves, TakeDone, Heartbeat, TrafficTick

LEMMA StepType == HubType /\ [Next]_vars => HubType'
<1> SUFFICES ASSUME HubType, [Next]_vars PROVE HubType'
  OBVIOUS
<1>1. ASSUME NEW l \in LineLevels, PublishLog(l) PROVE HubType'
  <2>1. LogFrame(l) \in HubFrames
    BY FrameKinds
  <2> QED
    BY <1>1, <2>1, BroadcastType DEF PublishLog, HubType, TypeOK, Shapes
<1>2. CASE UNCHANGED vars
  BY <1>2 DEF vars, HubType, TypeOK, Shapes, Outgoing
<1> QED
  BY <1>1, <1>2, ChangeType, NotifyType, UnpairType, OpenType, LoopType DEF Next

\* Type correctness of the hub; in particular no subscriber's channel ever
\* holds more frames than it has room for.
THEOREM HubTypeCorrect == Spec => []TypeOK
<1>1. HubType => TypeOK
  BY DEF HubType
<1> QED
  BY <1>1, InitType, StepType, PTL DEF Spec

-----------------------------------------------------------------------------
(* Who is told to end.                                                       *)

LEMMA DroppedInit == Init => DroppedAreUnpaired
  BY DEF Init, DroppedAreUnpaired

LEMMA DroppedStep == HubType /\ DroppedAreUnpaired /\ [Next]_vars => DroppedAreUnpaired'
<1> SUFFICES ASSUME HubType, DroppedAreUnpaired, [Next]_vars PROVE DroppedAreUnpaired'
  OBVIOUS
<1>1. ASSUME NEW d \in Devices, Unpair(d) \/ RevokeOnly(d) \/ dropDevice(d)
      PROVE  DroppedAreUnpaired'
  BY <1>1 DEF Unpair, RevokeOnly, dropDevice, DroppedAreUnpaired
<1>2. CASE UNCHANGED <<paired, dropping>>
  BY <1>2 DEF DroppedAreUnpaired
<1>3. ASSUME NEW n \in Notifiers, Announce(n) \/ \E op \in Ops : Change(n, op)
      PROVE  UNCHANGED <<paired, dropping>>
  BY <1>3 DEF Announce, NotifyReadStatus, NotifyStatusFails, NotifyStatus, NotifyChanged, Change
<1>4. ASSUME NEW s \in Streams, Open(s) \/ Reader(s) \/ ReaderLeaves(s) \/ Loop(s)
      PROVE  UNCHANGED <<paired, dropping>>
  BY <1>4 DEF Open, Authed, ReadFirst, add, Reader, ReaderStarts, ReaderReads, ReaderLeaves,
     Loop, TakeDone, TakeFrame, Heartbeat, TrafficTick, Close
<1> QED
  BY <1>1, <1>2, <1>3, <1>4 DEF Next, PublishLog, vars

\* Section 7.3: unpairing one controller ends no stream of another; the only
\* other reason a stream of a paired controller is told to end is its full buffer.
THEOREM UnpairingSparesOthers == Spec => UnpairSparesOthers
<1> DEFINE I == HubType /\ DroppedAreUnpaired
<1>1. I /\ [Next]_vars =>
        [\A s \in Streams :
           /\ done'[s] /\ ~done[s]
           /\ Request[s].dev \in paired
           => Len(ch[s]) = subscriberBuffer]_vars
  <2> SUFFICES ASSUME I, Next, NEW s \in Streams, done'[s], ~done[s], Request[s].dev \in paired
               PROVE  Len(ch[s]) = subscriberBuffer
    OBVIOUS
  <2>1. ASSUME NEW f \in HubFrames, broadcast(f) PROVE Len(ch[s]) = subscriberBuffer
    BY <2>1, BroadcastStep
  <2>2. ASSUME NEW n \in Notifiers, Announce(n) PROVE Len(ch[s]) = subscriberBuffer
    <3>1. CASE NotifyReadStatus(n) \/ NotifyStatusFails(n)
      BY <3>1 DEF NotifyReadStatus, NotifyStatusFails, streamVars
    <3>2. CASE NotifyStatus(n)
      <4>1. ready[n] \in HubFrames
        BY <3>2, FrameKinds DEF NotifyStatus, HubType, Shapes
      <4> QED
        BY <2>1, <3>2, <4>1 DEF NotifyStatus
    <3>3. CASE NotifyChanged(n)
      <4>1. ChangedFrame(Head(todo[n])) \in HubFrames
        BY <3>3, QueueType, FrameKinds DEF NotifyChanged, Announcing
      <4> QED
        BY <2>1, <3>3, <4>1 DEF NotifyChanged
    <3> QED
      BY <2>2, <3>1, <3>2, <3>3 DEF Announce
  <2>3. ASSUME NEW l \in LineLevels, PublishLog(l) PROVE Len(ch[s]) = subscriberBuffer
    BY <2>1, <2>3, FrameKinds DEF PublishLog
  <2>4. ASSUME NEW d \in Devices, dropDevice(d) PROVE FALSE
    BY <2>4 DEF dropDevice, DroppedAreUnpaired
  <2>5. CASE UNCHANGED done
    BY <2>5
  <2>6. ASSUME NEW d \in Devices, Unpair(d) \/ RevokeOnly(d) PROVE UNCHANGED done
    BY <2>6 DEF Unpair, RevokeOnly, streamVars
  <2>7. ASSUME NEW n \in Notifiers, NEW op \in Ops, Change(n, op) PROVE UNCHANGED done
    BY <2>7 DEF Change, streamVars
  <2>8. ASSUME NEW x \in Streams, Open(x) \/ Reader(x) \/ ReaderLeaves(x) \/ Loop(x)
        PROVE  UNCHANGED done
    BY <2>8 DEF Open, Authed, ReadFirst, add, Reader, ReaderStarts, ReaderReads, ReaderLeaves,
       Loop, TakeDone, TakeFrame, Heartbeat, TrafficTick, Close
  <2> QED
    BY <2>2, <2>3, <2>4, <2>5, <2>6, <2>7, <2>8 DEF Next
<1> QED
  BY <1>1, InitType, StepType, DroppedInit, DroppedStep, PTL DEF Spec, UnpairSparesOthers

-----------------------------------------------------------------------------
(* What is queued is wanted.                                                 *)

LEMMA WantedInit == Init => Wanted
  BY DEF Init, Wanted

LEMMA WantedStep == HubType /\ Wanted /\ [Next]_vars => Wanted'
<1> SUFFICES ASSUME HubType, Wanted, [Next]_vars, NEW s \in Streams, NEW i \in DOMAIN ch'[s]
             PROVE  wants(s, ch'[s][i])
  BY DEF Wanted, wants
<1>0. ch \in [Streams -> Seq(HubFrames)]
  BY DEF HubType, Shapes
<1>1. CASE UNCHANGED ch
  BY <1>1 DEF Wanted
<1>2. ASSUME NEW f \in HubFrames, broadcast(f) PROVE wants(s, ch'[s][i])
  <2>1. ch'[s] = ch[s] \/ (ch'[s] = Append(ch[s], f) /\ wants(s, f))
    BY <1>2, BroadcastStep
  <2>2. CASE ch'[s] = ch[s]
    BY <2>2 DEF Wanted
  <2>3. CASE ch'[s] = Append(ch[s], f) /\ wants(s, f)
    <3>1. ch'[s][i] = f \/ (i \in DOMAIN ch[s] /\ ch'[s][i] = ch[s][i])
      BY <1>0, <2>3
    <3> QED
      BY <2>3, <3>1 DEF Wanted
  <2> QED
    BY <2>1, <2>2, <2>3
<1>3. ASSUME NEW x \in Streams, Close(x) PROVE wants(s, ch'[s][i])
  <2>1. ch'[s] = <<>> \/ ch'[s] = ch[s]
    BY <1>0, <1>3 DEF Close
  <2> QED
    BY <2>1 DEF Wanted
<1>4. ASSUME NEW x \in Streams, TakeFrame(x) PROVE wants(s, ch'[s][i])
  <2>1. CASE s = x
    <3>1. ch'[s] = Tail(ch[s]) /\ ch[s] # <<>>
      BY <1>0, <1>4, <2>1 DEF TakeFrame
    <3>2. i + 1 \in DOMAIN ch[s] /\ ch'[s][i] = ch[s][i + 1]
      BY <1>0, <3>1
    <3> QED
      BY <3>2 DEF Wanted
  <2>2. CASE s # x
    BY <1>0, <1>4, <2>2 DEF TakeFrame, Wanted
  <2> QED
    BY <2>1, <2>2
<1>5. ASSUME NEW n \in Notifiers, Announce(n)
      PROVE  UNCHANGED ch \/ \E f \in HubFrames : broadcast(f)
  <2>1. CASE NotifyStatus(n)
    BY <2>1, FrameKinds DEF NotifyStatus, HubType, Shapes
  <2>2. CASE NotifyChanged(n)
    BY <2>2, QueueType, FrameKinds DEF NotifyChanged, Announcing
  <2> QED
    BY <1>5, <2>1, <2>2 DEF Announce, NotifyReadStatus, NotifyStatusFails, streamVars
<1>6. ASSUME NEW l \in LineLevels, PublishLog(l) PROVE \E f \in HubFrames : broadcast(f)
  BY <1>6, FrameKinds DEF PublishLog
<1>7. ASSUME NEW d \in Devices, Unpair(d) \/ RevokeOnly(d) \/ dropDevice(d) PROVE UNCHANGED ch
  BY <1>7 DEF Unpair, RevokeOnly, dropDevice, streamVars
<1>8. ASSUME NEW n \in Notifiers, NEW op \in Ops, Change(n, op) PROVE UNCHANGED ch
  BY <1>8 DEF Change, streamVars
<1>9. ASSUME NEW x \in Streams, Open(x) \/ Reader(x) \/ ReaderLeaves(x) \/ Loop(x)
      PROVE  UNCHANGED ch \/ Close(x) \/ TakeFrame(x)
  BY <1>9 DEF Open, Authed, ReadFirst, add, Reader, ReaderStarts, ReaderReads, ReaderLeaves,
     Loop, TakeDone, Heartbeat, TrafficTick
<1> QED
  BY <1>1, <1>2, <1>3, <1>4, <1>5, <1>6, <1>7, <1>8, <1>9 DEF Next, vars

LEMMA RequestedLevel == \A s \in Streams : Request[s].level \in RequestLevels
  BY HubAssumption, Zenon DEF RequestLevels

\* A log line reaches a stream's buffer only when the request asked for logs
\* and its level, by the levels' meaning, lets the line through.
THEOREM LogsAreFiltered == Spec => []LogFilter
<1>1. \A level \in RequestLevels : \A line \in Levels \cup LineLevels :
        severity(line) < logLevel(level) <=> line \in Excludes(level)
  BY LevelsMean
<1>2. HubType /\ Wanted => \A s \in Streams : \A i \in DOMAIN ch[s] :
        ch[s][i].kind = "log" => /\ "logs" \in Request[s].topics
                                 /\ ch[s][i].data \notin Excludes(Request[s].level)
  <2> SUFFICES ASSUME Wanted, NEW s \in Streams, NEW i \in DOMAIN ch[s], ch[s][i].kind = "log"
               PROVE  /\ "logs" \in Request[s].topics
                      /\ ch[s][i].data \notin Excludes(Request[s].level)
    OBVIOUS
  <2>1. /\ "logs" \in Request[s].topics
        /\ severity(ch[s][i].data) >= logLevel(Request[s].level)
    BY DEF Wanted, wants
  <2>2. severity(ch[s][i].data) < logLevel(Request[s].level)
          <=> ch[s][i].data \in Excludes(Request[s].level)
    BY LevelsMean, RequestedLevel
  <2>3. /\ severity(ch[s][i].data) \in 0..3
        /\ logLevel(Request[s].level) \in 0..3
    BY LevelRanks, RequestedLevel
  <2> QED
    BY <2>1, <2>2, <2>3
<1>3. HubType /\ Wanted => LogFilter
  BY <1>1, <1>2, Zenon DEF LogFilter, RequestLevels
<1> QED
  BY <1>3, InitType, StepType, WantedInit, WantedStep, PTL DEF Spec

-----------------------------------------------------------------------------
(* What a stream will have been told.                                        *)

LEMMA SubscribedInit == Init => Subscribed
  BY DEF Init, Subscribed

\* Broadcasts queue for subscribers only.
LEMMA SubscribedBroadcast ==
  ASSUME HubType, Subscribed, NEW f \in HubFrames, broadcast(f), UNCHANGED <<subs, pc>>
  PROVE  Subscribed'
<1> SUFFICES ASSUME NEW s \in Streams
             PROVE  /\ s \in subs' <=> pc'[s] \in {"first", "writing", "select"}
                    /\ s \notin subs' => ch'[s] = <<>>
  BY DEF Subscribed
<1>1. ch'[s] = ch[s] \/ s \in subs
  BY BroadcastStep
<1> QED
  BY <1>1 DEF Subscribed

LEMMA BroadcastsAre ==
  ASSUME HubType
  PROVE  /\ \A n \in Notifiers : NotifyStatus(n) =>
              ready[n] \in StatusFrames /\ ready[n] \in HubFrames /\ broadcast(ready[n])
         /\ \A n \in Notifiers : NotifyChanged(n) =>
              \E f \in HubFrames \ StatusFrames : broadcast(f)
         /\ \A l \in LineLevels : PublishLog(l) =>
              \E f \in HubFrames \ StatusFrames : broadcast(f)
<1>1. ASSUME NEW n \in Notifiers, NotifyStatus(n)
      PROVE  ready[n] \in StatusFrames /\ ready[n] \in HubFrames /\ broadcast(ready[n])
  BY <1>1, FrameKinds DEF NotifyStatus, HubType, Shapes
<1>2. ASSUME NEW n \in Notifiers, NotifyChanged(n)
      PROVE  \E f \in HubFrames \ StatusFrames : broadcast(f)
  BY <1>2, QueueType, FrameKinds DEF NotifyChanged, Announcing
<1>3. ASSUME NEW l \in LineLevels, PublishLog(l)
      PROVE  \E f \in HubFrames \ StatusFrames : broadcast(f)
  BY <1>3, FrameKinds DEF PublishLog
<1> QED
  BY <1>1, <1>2, <1>3

LEMMA SubscribedStep == HubType /\ Subscribed /\ [Next]_vars => Subscribed'
<1> SUFFICES ASSUME HubType, Subscribed, [Next]_vars PROVE Subscribed'
  OBVIOUS
<1>0. /\ ch \in [Streams -> Seq(HubFrames)] /\ pc \in [Streams -> Phases] /\ subs \subseteq Streams
  BY DEF HubType, TypeOK, Shapes
<1>1. CASE UNCHANGED <<subs, ch, pc>>
  BY <1>1 DEF Subscribed
<1>2. ASSUME NEW n \in Notifiers, Announce(n) PROVE Subscribed'
  <2>1. CASE NotifyReadStatus(n) \/ NotifyStatusFails(n)
    BY <1>1, <2>1 DEF NotifyReadStatus, NotifyStatusFails, streamVars
  <2>2. CASE NotifyStatus(n)
    BY <2>2, SubscribedBroadcast, BroadcastsAre DEF NotifyStatus
  <2>3. CASE NotifyChanged(n)
    <3>1. PICK f \in HubFrames \ StatusFrames : broadcast(f)
      BY <2>3, BroadcastsAre
    <3> QED
      BY <2>3, <3>1, SubscribedBroadcast DEF NotifyChanged
  <2> QED
    BY <1>2, <2>1, <2>2, <2>3 DEF Announce
<1>3. ASSUME NEW l \in LineLevels, PublishLog(l) PROVE Subscribed'
  <2>1. PICK f \in HubFrames \ StatusFrames : broadcast(f)
    BY <1>3, BroadcastsAre
  <2> QED
    BY <1>3, <2>1, SubscribedBroadcast DEF PublishLog
<1>4. ASSUME NEW x \in Streams, Close(x) PROVE Subscribed'
  BY <1>0, <1>4 DEF Close, Goto, Subscribed
<1>5. ASSUME NEW x \in Streams, Open(x) PROVE Subscribed'
  BY <1>0, <1>5 DEF Open, Authed, ReadFirst, add, Goto, Subscribed
<1>6. ASSUME NEW x \in Streams, Reader(x) PROVE Subscribed'
  BY <1>0, <1>6 DEF Reader, ReaderStarts, ReaderReads, Goto, Subscribed
<1>7. ASSUME NEW x \in Streams, Loop(x) \/ ReaderLeaves(x) PROVE Subscribed'
  <2>1. CASE TakeFrame(x)
    BY <1>0, <2>1 DEF TakeFrame, Write, Goto, Subscribed
  <2>2. CASE pc[x] = "select" /\ (Write(x, Ping) \/ Write(x, TrafficFrame)) /\ UNCHANGED <<subs, ch>>
    BY <1>0, <2>2 DEF Write, Goto, Subscribed
  <2> QED
    BY <1>4, <1>7, <2>1, <2>2 DEF Loop, ReaderLeaves, TakeDone, Heartbeat, TrafficTick
<1>8. ASSUME NEW d \in Devices, Unpair(d) \/ RevokeOnly(d) \/ dropDevice(d)
      PROVE  UNCHANGED <<subs, ch, pc>>
  BY <1>8 DEF Unpair, RevokeOnly, dropDevice, streamVars
<1>9. ASSUME NEW n \in Notifiers, NEW op \in Ops, Change(n, op) PROVE UNCHANGED <<subs, ch, pc>>
  BY <1>9 DEF Change, streamVars
<1> QED
  BY <1>1, <1>2, <1>3, <1>5, <1>6, <1>7, <1>8, <1>9 DEF Next, vars

\* Queueing a status, and queueing anything else.
LEMMA LatestAppend ==
  ASSUME NEW q \in Seq(HubFrames), NEW f \in HubFrames, NEW o, NEW l, NEW v,
         f = StatusFrame(v) \/ (f \notin StatusFrames /\ Latest(q, o, l, v))
  PROVE  Latest(Append(q, f), o, l, v)
<1> DEFINE r == Append(q, f)
<1>1. /\ DOMAIN q = 1..Len(q) /\ Len(q) \in Nat /\ DOMAIN r = 1..(Len(q) + 1)
      /\ r[Len(q) + 1] = f /\ \A i \in 1..Len(q) : r[i] = q[i]
  OBVIOUS
<1> HIDE DEF r
<1>2. CASE f = StatusFrame(v)
  <2>1. Len(q) + 1 \in DOMAIN r /\ \A j \in DOMAIN r : ~(j > Len(q) + 1)
    BY <1>1
  <2> QED
    BY <1>1, <1>2, <2>1 DEF Latest, r
<1>3. CASE f \notin StatusFrames /\ Latest(q, o, l, v)
  <2>1. ASSUME NEW i \in DOMAIN q, q[i] = StatusFrame(v),
               \A j \in DOMAIN q : j > i => q[j] \notin StatusFrames
        PROVE  Latest(r, o, l, v)
    <3>1. i \in DOMAIN r /\ r[i] = StatusFrame(v)
      BY <1>1, <2>1
    <3>2. \A j \in DOMAIN r : j > i => r[j] \notin StatusFrames
      BY <1>1, <1>3, <2>1
    <3> QED
      BY <3>1, <3>2 DEF Latest
  <2>2. (\A i \in DOMAIN q : q[i] \notin StatusFrames)
          => \A i \in DOMAIN r : r[i] \notin StatusFrames
    BY <1>1, <1>3
  <2>3. Latest(r, o, l, v)
    BY <1>3, <2>1, <2>2 DEF Latest
  <2> QED
    BY <2>3 DEF r
<1> QED
  BY <1>2, <1>3

\* The select loop takes the first frame of the channel.
LEMMA LatestTake ==
  ASSUME NEW q \in Seq(HubFrames), q # <<>>, NEW l, NEW v \in 0..MaxOps,
         Latest(q, None, l, v)
  PROVE  Latest(Tail(q), Head(q), l, v)
<1> DEFINE r == Tail(q)
<1>1. /\ DOMAIN q = 1..Len(q) /\ Len(q) \in Nat /\ Len(q) >= 1 /\ DOMAIN r = 1..(Len(q) - 1)
      /\ Head(q) = q[1] /\ \A i \in 1..(Len(q) - 1) : r[i] = q[i + 1]
  OBVIOUS
<1> HIDE DEF r
<1>2. ASSUME NEW i \in DOMAIN q, q[i] = StatusFrame(v),
             \A j \in DOMAIN q : j > i => q[j] \notin StatusFrames
      PROVE  Latest(r, Head(q), l, v)
  <2>1. CASE i = 1
    <3>1. \A j \in DOMAIN r : r[j] \notin StatusFrames
      BY <1>1, <1>2, <2>1
    <3> QED
      BY <1>1, <1>2, <2>1, <3>1 DEF Latest
  <2>2. CASE i # 1
    <3>1. i - 1 \in DOMAIN r /\ r[i - 1] = StatusFrame(v)
      BY <1>1, <1>2, <2>2
    <3>2. \A j \in DOMAIN r : j > i - 1 => r[j] \notin StatusFrames
      BY <1>1, <1>2
    <3> QED
      BY <3>1, <3>2 DEF Latest
  <2> QED
    BY <2>1, <2>2
<1>3. ASSUME \A i \in DOMAIN q : q[i] \notin StatusFrames, None = StatusFrame(v) \/ l = v
      PROVE  Latest(r, Head(q), l, v)
  <2>1. None # StatusFrame(v)
    BY FrameKinds DEF StatusFrames
  <2>2. \A i \in DOMAIN r : r[i] \notin StatusFrames
    BY <1>1, <1>3
  <2>3. Head(q) \notin StatusFrames
    BY <1>1, <1>3
  <2> QED
    BY <1>3, <2>1, <2>2, <2>3 DEF Latest
<1>4. Latest(r, Head(q), l, v)
  BY <1>2, <1>3 DEF Latest
<1> QED
  BY <1>4 DEF r

\* The controller reads the frame, or the loop writes one that is no status.
LEMMA LatestRead ==
  ASSUME NEW q, NEW f, NEW l, NEW k, NEW v \in 0..MaxOps, Latest(q, f, l, v),
         \/ f \in StatusFrames /\ f = StatusFrame(k)
         \/ f \notin StatusFrames /\ k \in {l, v}
  PROVE  Latest(q, None, k, v)
<1>1. f = StatusFrame(v) => f \in StatusFrames
  BY DEF StatusFrames
<1>2. f = StatusFrame(k) /\ f = StatusFrame(v) => k = v
  BY DEF StatusFrame
<1> QED
  BY <1>1, <1>2, FrameKinds DEF Latest

LEMMA LatestWrite ==
  ASSUME NEW q, NEW f, NEW l, NEW v \in 0..MaxOps, f \notin StatusFrames, Latest(q, None, l, v)
  PROVE  Latest(q, f, l, v)
<1>1. None # StatusFrame(v)
  BY FrameKinds DEF StatusFrames
<1> QED
  BY <1>1 DEF Latest

LEMMA InSyncInit == Init => InSync
  BY DEF Init, InSync, Counts

\* An announcement leaves a status that is still to come where it was.
LEMMA PendingStep ==
  ASSUME HubType, Pending, NEW n \in Notifiers, todo[n] # <<>>, Head(todo[n]) # "status",
         todo' = [todo EXCEPT ![n] = Tail(@)]
  PROVE  Pending'
<1>0. PICK m \in Notifiers : \E i \in DOMAIN todo[m] : todo[m][i] = "status"
  BY DEF Pending
<1>1. PICK i \in DOMAIN todo[m] : todo[m][i] = "status"
  BY <1>0
<1>2. todo \in [Notifiers -> Seq(Resources)]
  BY DEF HubType, Shapes
<1>3. CASE m = n
  <2>1. i # 1
    BY <1>1, <1>2, <1>3
  <2>2. i - 1 \in DOMAIN todo'[n] /\ todo'[n][i - 1] = "status"
    BY <1>1, <1>2, <1>3, <2>1
  <2> QED
    BY <2>2 DEF Pending
<1>4. CASE m # n
  BY <1>1, <1>2, <1>4 DEF Pending
<1> QED
  BY <1>3, <1>4

\* A frame that is no status changes nothing about the latest one.
LEMMA OtherBroadcast ==
  ASSUME HubType, InSync, Pending => Pending', NEW f \in HubFrames \ StatusFrames, broadcast(f),
         UNCHANGED <<version, pc, out, seen, missed>>
  PROVE  InSync'
<1> SUFFICES ASSUME ~Pending, NEW s \in Streams, Counts(s)' PROVE Freshest(s, version["status"])'
  BY DEF InSync
<1>1. (ch'[s] = ch[s] \/ ch'[s] = Append(ch[s], f)) /\ (done[s] => done'[s])
  BY BroadcastStep
<1>2. Freshest(s, version["status"])
  BY <1>1 DEF InSync, Counts
<1>3. ch[s] \in Seq(HubFrames)
  BY DEF HubType, Shapes
<1>4. Latest(ch'[s], out[s], seen[s]["status"], version["status"])
  BY <1>1, <1>2, <1>3, LatestAppend DEF Freshest
<1> QED
  BY <1>4 DEF Freshest

\* A status that is still current reaches every subscriber that is not full.
LEMMA InSyncNotify ==
  ASSUME HubType, Subscribed, InSync, NEW n \in Notifiers, Announce(n)
  PROVE  InSync'
<1>1. CASE NotifyReadStatus(n)
  BY <1>1 DEF NotifyReadStatus, streamVars, InSync, Pending, Counts, Freshest
<1>2. CASE NotifyStatusFails(n)
  BY <1>2 DEF NotifyStatusFails, InSync, Counts
<1>3. CASE NotifyStatus(n)
  <2> SUFFICES ASSUME NEW s \in Streams, Counts(s)' PROVE Freshest(s, version["status"])'
    BY DEF InSync
  <2>1. /\ pc[s] \in {"snapped", "first", "writing", "select"} /\ pc[s] # "snapped"
        /\ ready[n].data = version["status"] /\ ~done'[s]
    BY <1>3 DEF NotifyStatus, Counts
  <2>2. s \in subs
    BY <2>1 DEF Subscribed
  <2>3. ready[n] \in StatusFrames /\ ready[n] \in HubFrames /\ broadcast(ready[n])
    BY <1>3, BroadcastsAre
  <2>4. ready[n] = StatusFrame(version["status"]) /\ wants(s, ready[n])
    BY <2>1, <2>3 DEF StatusFrames, StatusFrame, wants
  <2>5. ch'[s] = Append(ch[s], ready[n])
    BY <2>1, <2>2, <2>3, <2>4, BroadcastStep
  <2>6. ch[s] \in Seq(HubFrames)
    BY DEF HubType, Shapes
  <2>7. Latest(ch'[s], out[s], seen[s]["status"], version["status"])
    BY <2>3, <2>4, <2>5, <2>6, LatestAppend
  <2> QED
    BY <1>3, <2>7 DEF NotifyStatus, Freshest
<1>4. CASE NotifyChanged(n)
  <2>1. PICK f \in HubFrames \ StatusFrames : broadcast(f)
    BY <1>4, BroadcastsAre
  <2>2. Pending => Pending'
    BY <1>4, PendingStep DEF NotifyChanged, Announcing
  <2> QED
    BY <1>4, <2>1, <2>2, OtherBroadcast DEF NotifyChanged
<1> QED
  BY <1>1, <1>2, <1>3, <1>4 DEF Announce

LEMMA InSyncChange ==
  ASSUME HubType, InSync, NEW n \in Notifiers, NEW op \in Ops, Change(n, op)
  PROVE  InSync'
<1>0. todo \in [Notifiers -> Seq(Resources)] /\ todo' = [todo EXCEPT ![n] = Announces[op]]
      /\ todo[n] = <<>>
  BY DEF Change, HubType, Shapes
<1>1. CASE "status" \in Effect[op]
  <2>1. Pending'
    BY <1>0, <1>1, Announced DEF Pending
  <2> QED
    BY <2>1 DEF InSync
<1>2. CASE "status" \notin Effect[op]
  <2>1. version'["status"] = version["status"]
    BY <1>2 DEF Change, Resources
  <2>2. Pending => Pending'
    BY <1>0 DEF Pending
  <2> QED
    BY <2>1, <2>2 DEF Change, streamVars, InSync, Counts, Freshest
<1> QED
  BY <1>1, <1>2

\* What one stream does leaves the others as they are.
LEMMA OneStream ==
  ASSUME HubType, InSync, NEW x \in Streams, UNCHANGED <<version, todo, done>>,
         \A s \in Streams \ {x} : /\ pc'[s] = pc[s] /\ missed'[s] = missed[s] /\ ch'[s] = ch[s]
                                  /\ out'[s] = out[s] /\ seen'[s] = seen[s],
         (Counts(x) => Freshest(x, version["status"])) /\ Counts(x)'
           => Freshest(x, version["status"])'
  PROVE  InSync'
<1> SUFFICES ASSUME ~Pending, NEW s \in Streams, Counts(s)' PROVE Freshest(s, version["status"])'
  BY DEF InSync, Pending
<1>1. CASE s = x
  BY <1>1 DEF InSync
<1>2. CASE s # x
  BY <1>2 DEF InSync, Counts, Freshest
<1> QED
  BY <1>1, <1>2

\* Opening a stream: the status it has read is the current one until it changes.
LEMMA InSyncOpen ==
  ASSUME HubType, Subscribed, InSync, NEW x \in Streams, Open(x)
  PROVE  InSync'
<1>0. /\ pc \in [Streams -> Phases] /\ ch \in [Streams -> Seq(HubFrames)]
      /\ out \in [Streams -> Frames \cup {None}] /\ missed \in [Streams -> BOOLEAN]
  BY DEF HubType, TypeOK, Shapes
<1>1. CASE Authed(x)
  <2>1. ~Counts(x)'
    BY <1>0, <1>1 DEF Authed, Goto, Counts
  <2> QED
    BY <1>0, <1>1, <2>1, OneStream DEF Authed, Goto
<1>2. CASE ReadFirst(x)
  <2>1. ch[x] = <<>>
    BY <1>2 DEF ReadFirst, Subscribed
  <2>2. Latest(<<>>, StatusFrame(version["status"]), seen[x]["status"], version["status"])
    BY DEF Latest
  <2>3. Freshest(x, version["status"])'
    BY <1>0, <1>2, <2>1, <2>2 DEF ReadFirst, Freshest
  <2> QED
    BY <1>0, <1>2, <2>3, OneStream DEF ReadFirst, Goto
<1>3. CASE add(x)
  <2>1. Counts(x)' => Counts(x)
    BY <1>0, <1>3 DEF add, Goto, Counts
  <2>2. Freshest(x, version["status"]) => Freshest(x, version["status"])'
    BY <1>3 DEF add, Freshest
  <2> QED
    BY <1>0, <1>3, <2>1, <2>2, OneStream DEF add, Goto
<1> QED
  BY <1>1, <1>2, <1>3 DEF Open

LEMMA InSyncReader ==
  ASSUME HubType, InSync, NEW x \in Streams, Reader(x)
  PROVE  InSync'
<1>0. /\ pc \in [Streams -> Phases] /\ out \in [Streams -> Frames \cup {None}]
      /\ seen \in [Streams -> [Resources -> 0..MaxOps]] /\ "status" \in Resources
      /\ version["status"] \in 0..MaxOps /\ version \in [Resources -> 0..MaxOps]
  BY DEF HubType, TypeOK, Shapes, Resources
<1> DEFINE v == version["status"]
<1>1. CASE ReaderStarts(x)
  <2>1. out[x] \in StatusFrames /\ out[x] = StatusFrame(out[x].data)
    BY <1>1 DEF ReaderStarts, HubType, Outgoing, StatusFrames, StatusFrame
  <2>2. out'[x] = None /\ seen'[x]["status"] = out[x].data /\ ch'[x] = ch[x]
    BY <1>0, <1>1 DEF ReaderStarts
  <2>3. Freshest(x, v) => Freshest(x, v)'
    BY <1>0, <1>1, <2>1, <2>2, LatestRead DEF Freshest, ReaderStarts
  <2>4. Counts(x)' => Counts(x)
    BY <1>0, <1>1 DEF ReaderStarts, Goto, Counts
  <2> QED
    BY <1>0, <1>1, <2>3, <2>4, OneStream DEF ReaderStarts, Goto
<1>2. CASE ReaderReads(x)
  <2>1. out[x] \in Frames
    BY <1>2 DEF ReaderReads, HubType, Outgoing
  <2>2. /\ out'[x] = None /\ ch'[x] = ch[x]
        /\ seen'[x]["status"] = Refetch(x, out[x])["status"]
    BY <1>0, <1>2 DEF ReaderReads
  <2>3. \/ out[x] \in StatusFrames /\ out[x] = StatusFrame(seen'[x]["status"])
        \/ out[x] \notin StatusFrames /\ seen'[x]["status"] \in {seen[x]["status"], v}
    <3>1. CASE out[x].kind = "status"
      <4>1. Refetch(x, out[x]) = [seen[x] EXCEPT !["status"] = out[x].data]
        BY <3>1 DEF Refetch
      <4> QED
        BY <1>0, <2>1, <2>2, <3>1, <4>1, FrameData
    <3>2. CASE out[x].kind = "changed"
      <4>1. Refetch(x, out[x]) = [seen[x] EXCEPT ![out[x].data] = version[out[x].data]]
        BY <3>2 DEF Refetch
      <4>2. Refetch(x, out[x])["status"] \in {seen[x]["status"], v}
        BY <1>0, <2>1, <3>2, <4>1, FrameData
      <4> QED
        BY <2>1, <2>2, <3>2, <4>2, FrameData
    <3>3. CASE out[x].kind \notin {"status", "changed"}
      <4>1. Refetch(x, out[x]) = seen[x]
        BY <3>3 DEF Refetch
      <4> QED
        BY <2>1, <2>2, <3>3, <4>1, FrameData
    <3> QED
      BY <3>1, <3>2, <3>3
  <2>4. Freshest(x, v) => Freshest(x, v)'
    BY <1>0, <1>2, <2>2, <2>3, LatestRead DEF Freshest, ReaderReads
  <2>5. Counts(x)' => Counts(x)
    BY <1>0, <1>2 DEF ReaderReads, Goto, Counts
  <2> QED
    BY <1>0, <1>2, <2>4, <2>5, OneStream DEF ReaderReads, Goto
<1> QED
  BY <1>1, <1>2 DEF Reader

LEMMA InSyncLoop ==
  ASSUME HubType, InSync, NEW x \in Streams, Loop(x) \/ ReaderLeaves(x)
  PROVE  InSync'
<1>0. /\ pc \in [Streams -> Phases] /\ out \in [Streams -> Frames \cup {None}]
      /\ ch \in [Streams -> Seq(HubFrames)] /\ version["status"] \in 0..MaxOps
  BY DEF HubType, TypeOK, Shapes, Resources
<1> DEFINE v == version["status"]
<1>1. CASE Close(x)
  <2>1. ~Counts(x)'
    BY <1>0, <1>1 DEF Close, Goto, Counts
  <2> QED
    BY <1>0, <1>1, <2>1, OneStream DEF Close, Goto
<1>2. ASSUME NEW f \in Frames \ StatusFrames, pc[x] = "select", Write(x, f),
             UNCHANGED <<version, paired, dropping, subs, ch, done, todo, ready, seen, missed>>
      PROVE  InSync'
  <2>1. out[x] = None /\ out'[x] = f
    BY <1>0, <1>2 DEF HubType, Outgoing, Write
  <2>2. Freshest(x, v) => Freshest(x, v)'
    BY <1>0, <1>2, <2>1, LatestWrite DEF Freshest
  <2>3. Counts(x)' => Counts(x)
    BY <1>2 DEF Counts
  <2> QED
    BY <1>0, <1>2, <2>2, <2>3, OneStream DEF Write, Goto
<1>3. CASE TakeFrame(x)
  <2>1. out[x] = None /\ out'[x] = Head(ch[x]) /\ ch'[x] = Tail(ch[x]) /\ ch[x] # <<>>
    BY <1>0, <1>3 DEF TakeFrame, HubType, Outgoing, Write
  <2>2. Freshest(x, v) => Freshest(x, v)'
    BY <1>0, <1>3, <2>1, LatestTake DEF Freshest, TakeFrame
  <2>3. Counts(x)' => Counts(x)
    BY <1>3 DEF Counts, TakeFrame
  <2> QED
    BY <1>0, <1>3, <2>2, <2>3, OneStream DEF TakeFrame, Write, Goto
<1> QED
  BY <1>1, <1>2, <1>3, FrameKinds DEF Loop, ReaderLeaves, TakeDone, Heartbeat, TrafficTick

LEMMA InSyncStep == HubType /\ Subscribed /\ InSync /\ [Next]_vars => InSync'
<1> SUFFICES ASSUME HubType, Subscribed, InSync, [Next]_vars PROVE InSync'
  OBVIOUS
<1>1. ASSUME UNCHANGED <<version, ch, pc, out, todo, seen, missed>>,
             \A s \in Streams : done[s] => done'[s]
      PROVE  InSync'
  BY <1>1 DEF InSync, Pending, Counts, Freshest
<1>2. ASSUME NEW d \in Devices, Unpair(d) \/ RevokeOnly(d) \/ dropDevice(d) PROVE InSync'
  <2>1. \A s \in Streams : done[s] => done'[s]
    BY <1>2 DEF Unpair, RevokeOnly, dropDevice, streamVars
  <2> QED
    BY <1>1, <1>2, <2>1 DEF Unpair, RevokeOnly, dropDevice, streamVars
<1>3. ASSUME NEW l \in LineLevels, PublishLog(l) PROVE InSync'
  <2>1. PICK f \in HubFrames \ StatusFrames : broadcast(f)
    BY <1>3, BroadcastsAre
  <2>2. Pending => Pending'
    BY <1>3 DEF PublishLog, Pending
  <2> QED
    BY <1>3, <2>1, <2>2, OtherBroadcast DEF PublishLog
<1>4. CASE UNCHANGED vars
  BY <1>1, <1>4 DEF vars
<1> QED
  BY <1>2, <1>3, <1>4, InSyncNotify, InSyncChange, InSyncOpen, InSyncReader, InSyncLoop DEF Next

\* However announcements of concurrent changes overlap with each other and with
\* the opening of streams, a controller with nothing left to read shows the
\* current status, unless its stream missed an update as the model's history says.
THEOREM StatusStaysInSync == Spec => []StatusInSyncUnlessMissed
<1>1. HubType /\ InSync => StatusInSyncUnlessMissed
  <2> SUFFICES ASSUME HubType, InSync, NEW s \in Streams, Settled(s), ~missed[s]
               PROVE  seen[s]["status"] = version["status"]
    BY DEF StatusInSyncUnlessMissed
  <2>1. ~Pending /\ Counts(s)
    BY DEF Settled, Idle, Pending, Counts
  <2>2. out[s] = None /\ ch[s] = <<>> /\ version["status"] \in 0..MaxOps
    BY DEF Settled, HubType, TypeOK, Outgoing, Resources
  <2>3. None # StatusFrame(version["status"])
    BY <2>2, FrameKinds DEF StatusFrames
  <2> QED
    BY <2>1, <2>2, <2>3 DEF InSync, Freshest, Latest
<1> QED
  BY <1>1, InitType, StepType, SubscribedInit, SubscribedStep, InSyncInit, InSyncStep, PTL DEF Spec
=============================================================================
