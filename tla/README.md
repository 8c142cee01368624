# clash-companion in TLA+

A verification development of the Go implementation under `src/go`: TLA+ modules translated from
the code, TLC configurations that check them on small instances, and TLAPS proofs of what can be
said for every instance. `src/PROTOCOL.md` states the protocol; where the text below says
"section n" it means a section of that file.

## 1. The system and its inventory

A *controller* (phone, desktop) pairs with an *agent* (an app on a TV, say) and from then on
drives it over HTTPS: power, profiles, node selection, settings. The agent embeds the *gateway*,
which authenticates every request, may ask the user on the agent's screen, calls the app's *hooks*
and tells the other controllers what changed. Most hooks end in calls of the local *core* (mihomo).

| Component (source) | State | Operations | Talks to | What is hard | What makes it correct |
|---|---|---|---|---|---|
| PIN manager (`agent/pin.go`) | active code, its expiry, failed attempts | `Generate`, `Verify`, each under one lock | called by `handlePair` and the host | expiry, lockout and regeneration interact | a PIN is accepted once, in time, after at most `maxAttempts` comparisons; a lockout belongs to the PIN shown |
| Pairing store (`pairing/store.go`, `ids.go`) | entries in memory, `<path>`, `<path>.tmp` | `Pair`, `Revoke`, `Confirm`, `Authenticate`, `List`, `OpenStore` | called by gateway and host | changes under a lock, file writes without; failing files; restarts | a token names one device; what was acknowledged survives a restart; the file stays loadable |
| Gateway (`agent/agent.go`) | handlers in progress, the name | `authWith`, `confirm`, `handlePair`, `handleUnpair`, `handleRename`, ... | store, PIN manager, the user, hooks, hub | an entry read before a prompt of minutes and used after it | no hook without approval; one token per PIN; un-pairing takes one's own pairing only |
| Event hub (`agent/events.go`) | subscribers, a bounded channel each | `Notify`, `PublishLog`, `handleEvents`, `dropDevice` | every handler, every stream | read-then-broadcast, read-then-subscribe, full channels, blocked writers, revocation | connected controllers end up with current state; revoked and overrun streams end |
| Remote buttons (`agent/control.go`) | none of its own | 12 state-changing endpoints, 9 reading ones | gate, hooks, hub | several hook calls per request; what failed half-way | validation before effect; a refusal changes nothing; changes are announced |
| Core hooks (`corehooks/corehooks.go`) | none | look up, write, read again: HTTP calls of the core | the core | the core changes between the calls; lost answers | the answer is about the operation; one connection closed is one |
| Core forwarder (`forwarder/forwarder.go`) | whitelist | `Allowed`, `AllowedReadOnly`, relaying | the core | a second way to the core past the gate | no configuration is loaded or patched; read-only means that |
| Stream readers (`controller/events.go`, `FollowLogs` in `corehooks.go`) | scanner buffer, half an event | `Events`, `FollowLogs` | a response body | bytes arrive in pieces, the stream breaks, is cancelled or times out anywhere | a prefix of what was sent, each event whole; the call returns when the stream is over, and not before |
| Controller client (`controller/*.go`) | address, pin and token; 15 s timeout | `New`, `FromPayload`, `PairWithPIN`, one call per endpoint | gateway | lost and cut answers, retries, requests served after the caller gave up | a token goes to the agent that issued it; what a result means is true |
| Payload and TXT codecs (`pairing/payload.go`, `discovery/discovery.go`) | none | `Encode`, `Decode`, `DecodeTXT` | QR code, paste, mDNS | reserved bytes, any order, truncation | what is scanned is what was shown |
| mDNS discovery (`discovery/mdns.go`) | the advertisement | `Publish`, `Browse`, `FindByDeviceID` | the network | stale and malformed records | an agent is found again after it has moved |
| TLS identity, canonical JSON, protocol types, vector generator | keys; none | library calls, formatting, constants | | | |

`PROJECT.json` lists, under "hazards", each place where something hard to test can go wrong.

## 2. Modules

    PINManager        <- PINManagerProofs
    Pairing           the map of the store, shared by the next two
      PairingStore    <- PairingStoreProofs;  refines DurableStore
      Gateway         = Pairing + INSTANCE PINManager  <- GatewayProofs
    Announcements     what each handler announces, shared by the next two
      EventHub        <- EventHubProofs
      RemoteButtons   = CoreHooks (on Core) + Forwarder + Announcements  <- RemoteButtonsProofs
    EventStream       refines EventFeed  <- EventStreamProofs
    PairingPayload    <- PairingPayloadProofs
    Controller        = PairingPayload + TXTRecord  <- ControllerProofs (on PairingPayloadProofs)
    MC...             instances for TLC

**PINManager.** `pin`, `expires`, `attempts` are the fields of `PINManager`; each method holds
`m.mu` throughout and is one action. Codes are model values: what Verify does depends only on
equality. The clock is a counter up to `MaxTime`. `issue` is a history of the PIN last displayed.

**Pairing, PairingStore, DurableStore.** `Pairing` has the operators on `entries`; tokens are
numbers in the order `NewToken` draws them and `HashToken` is injective. `PairingStore` gives every
caller a program counter through `persist`: the change under the lock, the snapshot, `O_TRUNC` of
`<path>.tmp`, the write, the rename. Because a file is renamed while another caller has it open,
`fd` follows the inode; `Overlay` says when a write over longer content leaves invalid JSON (the
size of an entry depends on its flag only). `PersistFails` fails any of the file operations, `Crash`
stops the program between any two steps, `OpenStore` loads what is there. `ledger` is a history of
each token's fate as the callers were told it. `DurableStore` is the abstract specification: memory
and disk, a commit in one step, a restart that brings the disk back.

**Gateway.** A handler goroutine is a program counter: authenticated, waiting for the user,
confirming, at its hook, revoking, pairing, sealing, answering. The store is its in-memory map (the
files are PairingStore's subject), the PIN manager is instantiated whole. The host pairs by QR code,
revokes, displays PINs at any time. `config` is the configuration, chosen once. `approved` records
the devices a user's answer covered. An error answer that leaves no trace (401) is left out.

**Announcements.** The arguments of each handler's `Notify` (`Announces`), and the resources whose
GET answers a success of each operation may alter (`Effect`). What an operation has altered is not
read off that table: `RemoteButtons` compares the answers before and after every step, and no property
mentions `Effect`. EventHub takes its changes from it, and the proofs of `RemoteButtons` show that no
step alters more. `StatusUnannounced` are the operations that may alter the status and do not announce it.

**EventHub.** A version number per resource stands for what the hooks report. A notifier changes it
and then runs `Notify` (its operations, `Ops`, are those that announce whatever they may alter; what
the others leave out is the subject of RemoteButtons): a status frame is built from a status read earlier, a changed frame only
names its resource. A stream is a program counter through `handleEvents`; the select loop's cases
are actions. The controller is external: it refetches all when its stream opens and what an event
names afterwards, as section 9.2 asks. `missed` is a history, see below.

**RemoteButtons, CoreHooks, Core, Forwarder.** `Core` is external: groups with members, a node in use
and a pin, delays, providers, mode, two settings (one boolean, one enum), connections; every operator
is a call that the code makes or that reaches the forwarder, with the answers the code tells apart.
`PutConfigs` is the load of another configuration, which the forwarder must keep out. The core also
changes behind the gateway's back (`Elsewhere`). `CoreHooks` runs each hook as the sequence of its
calls. A call can fail before it reaches the core, or be answered with a status of the core's own,
404 and 400 included, which `Unwrap` turns into `ErrNotFound` and `ErrInvalid` (`CallFails`); be
refused by it (`Refused`: also PATCH /configs by a core in embed mode, and the GET with which
`SetSetting` looks again); or lose its answer afterwards (`Lost`). `RemoteButtons` puts gate, checks,
hook, error mapping and announcement around it. Profiles, power and import are the app's hooks: `app`
has a field for each of these, which a success may change (`AppChanges`), and a profile that is
selected, or updated, may be loaded into the core (`LoadProfile`: other groups and providers; that
mode and settings stay is an assumption about the app, and that the code announces neither then is
its counterpart). `View` is what the GET endpoint of a resource answers: the status holds name, power
and the summary of mode, active profile and node in use (agent.go:149-170). `Forwarder` is pure: paths
are sequences of segments, and `CoreCall` says what the core does with a call, whatever the whitelist
thinks of it.
`owed` and `past` are histories: for each request the resources whose `View` its steps have altered and
that no event has named since; and the values its resource has had since it took effect, the
connections it closed, and whether it changed anything.

**EventStream, EventFeed.** One stream from the write to the callback; `reader` says which,
`GET /v1/events` (frames as `handleEvents` writes them) or the core's `GET /logs` (a JSON object per
line). Bytes are abstracted to pieces: a field name, a part of a value, a newline, a closing brace.
The connection carries up to `Capacity` of them, and on its way out it may keep any prefix. `Read`
hands the scanner any number of pieces it has room for, `Overlong` is `bufio.ErrTooLong`, `ScanRest`
the last line without a newline. `Events` assembles (`Blank`, `Field`), `FollowLogs` parses each line
by itself (`Entry`). `Timed` are the readers whose `http.Client` has a timeout. `EventFeed` is what a
caller may rely on; `DeliversWhole` is the refinement, with the history `sent` of the events the
writer has begun and `over` the result: safety (`FeedSafety`), and that what was sent arrives.

**PairingPayload, TXTRecord.** Pure. Strings are sequences of bytes, percent-encoding is done byte by
byte; a URI is its authority and a list of parameters. A conversion that can fail yields a set, empty
for an error. `Edits` is what may happen to a URI on its way: its parameters in any order, some of
them missing, one more that is unknown, the end cut off; `Faithful` says what may be read then.
`Controller` evaluates them over every byte and over every payload and edit of its instance
(`EveryByte`, `EveryScan`), which TLC does once.

**Controller.** The agents are seen from outside: of a gateway's state there is the token of this
controller's entry, in memory (`entry`) and in the store's file (`file`). `Persist` saves the entry or
leaves the file as it was: because a step failed, which the caller is told, or because an older
snapshot was renamed over it, which nobody is (`store_race_revocation`). Agents change their
address and leave stale advertisements (`Move`), stop at any moment (`Stop`, with the requests they
serve), and start again with what the file holds (`Start`). `Strays` are records nobody should use:
malformed ones, and one in order that has the id of an agent and the fingerprint and address of
another. The controller scans what a screen showed, after an edit of `Edits`, or pairs by PIN with an
agent it browsed, keeps id, fingerprint and token, and finds the agent again by its id.
`TokenBytes` are the results of `NewToken` in the order they are drawn, as the controller sends them.

A call dials, is admitted or turned away (`Admit`: authWith's look-up of the token, handlePair's PIN),
waits for the user, is carried out on an agent whose store may have changed meanwhile (`Serve`), and
its answer arrives whole, cut or empty. It can be given up at any point, and then its request is
admitted and carried out later or not at all (`orphans`). `Store.Confirm` after the prompt saves the
store (`Confirm`); its second save in handlePair is folded into the first. `Status` stands for
every call but `Unpair`: they differ in path and types. Whether un-pairing waits for a prompt makes no
difference here, as nothing says how long a step takes; other controllers are `Gateway`'s subject.
Histories: `heard` and `issuedBy`, which agent was sent which token and which one issued it; `done`,
every request an agent has carried out, with the token it issued for it; `gone`, the tokens each agent's
present program has said not to know, or to have un-paired.

Bounds of the models, all in guards: `MaxTokens`, `MaxTime`, `MaxPins`, `MaxCrashes`, `MaxFailures`,
`MaxOps`, `MaxRequests`, `MaxEvents`, `MaxFrames`, `MaxCalls`, `Limits` (a choice of bounds per
behaviour, so that one run of TLC has both). The real code bounds none
of these. `maxLine` and `subscriberBuffer` are the code's 1 MiB and 64, `fpLength` its 64 digits,
`tokenLength` the 43 characters of 32 bytes in base64url.

## 3. Runs

| Run | Instance | What it shows |
|---|---|---|
| `pin` | 3 codes, ttl 2, 3 attempts, clock to 7 | single use, attempt cap, no late acceptance, lockout earned by the displayed PIN |
| `store_serial` | 1 caller, 2 devices, 3 tokens, 2 failures, 2 restarts | acknowledged pairings and revocations are durable, the file reopens, DurableStore is implemented |
| `store_concurrent` | 2 callers, 2 devices, 2 tokens, 1 failure, 1 restart | tokens keep their device; within one run of the program nothing comes back |
| `gateway` | 2 handlers, 2 devices, 2 tokens, 1 PIN; three configurations | approval before any hook, one token per PIN, a device's token changes by consent only, the PIN flow never asks twice, un-pairing spares others |
| `hub` | 1 stream, 2 devices, 2 notifiers, 2 operations, 1 failing status read, channel of 1 | status in sync unless missed, no log line below the level asked for is queued, nobody else's stream is ended; revoked and overrun streams end; changes arrive |
| `buttons` | 2 handlers with 1 request each (the core's resources, profiles, providers, forwarded calls), 1 failing call, 1 change elsewhere; two configurations | see the seven properties of RemoteButtons |
| `stream` | each reader, 3 frames of 3 lengths, scanner of 5 pieces, connection of 3 | events are delivered whole, in order and once, all of them on EOF; "too long" is one line; the call returns when the stream is over, `Events` not before |
| `controller` | 2 addresses, 4 stray records, 2 calls; 2 agents with 2 tokens and 2 moves, or 1 agent with 1 token, 1 move, 1 stop and 1 failing save | tokens go home; scanned is shown; nil means done; gone is gone |
| `store_race_revocation` | 2 callers, 1 restart | violation: a revoked token returns |
| `store_retried_revoke` | 1 caller, 1 failure, 1 restart | violation: the retry of a failed Revoke persists nothing |
| `gateway_revoke_race` | 2 handlers, 1 token | violation: revoked during the prompt, and the hook is called |
| `hub_status_gap` | 1 stream, 1 operation | violation: an update between status read and subscription is lost |

Why these bounds are enough for the hazards: two callers are what a snapshot race needs, two tokens
a device paired anew while another call is in flight, two restarts a restart after the recovery of
the first. One PIN and two tokens suffice for a PIN used twice; the clock passes the lifetime twice
over. A channel of one frame overflows under two announcements, the more so with a log line between
them. Three frames let a long line follow short ones in the scanner's buffer; a connection of three
pieces holds less than a frame, so writes block half-way. Two moves let one agent leave an address
and another take it; two calls are a call whose answer is lost and its retry. With a failing
save, a stop and a start they are also an Unpair that was not saved, its retry, and the program that
has loaded the pairing again. Two requests in flight
give each interleaving of a hook with another writer, and the core starts with a pin or without, so
that no third request is needed to set the stage.

`hub`, `stream`, `controller` and `buttons` switch deadlock checking off, as their requests are
bounded and the only stream may be over; `store_*`, `gateway` and `pin` keep it as it is.

**Reading of some properties.** `StatusInSyncUnlessMissed` is the status guarantee the code does
give: a settled controller shows the current status unless the last update fell between its stream's
status read and `hub.add`, the hook could not report it, or an older status overtook it (`missed`).
`LogFilter` holds a stream's queue against what its request asked for, with lines on both sides of each
level: its stream asks for warnings, the lines are of info and of an unknown level, which ranks as an
error. That a stream that asks for no logs gets none is left to the theorem. `RefusalChangesNothing` excepts `UnfixProxy` and `SetSetting`, which look again after they have
acted: that look may find the group gone, or be refused, and is then answered with not_found or
bad_request although the core has changed (corehooks.go:508-511, 607-616). For them it does not hold.
`SuccessIsAnnounced` is about successful requests, and excepts the status after the operations of
`StatusUnannounced`; an event counts only
if it is sent after the change, by whichever handler.
`ForwardIsHarmless` is about a core that would obey: its PUT and PATCH /configs change mode, settings
and groups, so that it is the whitelist that keeps them out; an update of a provider, which the
whitelist lets through, may give its groups other nodes. `ChangesReachReaders` is
about every resource but the status, which has its own property.
`NilMeansDone` ties a nil to the request of that very call in the records of the agent whose
fingerprint was pinned; a request that an earlier call left behind does not count, and a token must be
the one that was issued for it. It does not say that there is one: `PairReturnsToken` does, and does not
hold.
`GoneIsGone` says that the program that answered an Unpair with nil, or any call with "unauthorized",
never takes that token again, whatever requests it still serves from earlier attempts. It says nothing
of the program after the next start, which loads the file: an Unpair whose save failed is answered with
internal, its retry with "unauthorized", and the pairing is back after a restart, as
`store_retried_revoke` and `store_race_revocation` show of the store; in the model `Start` clears
`gone` for that reason. The type invariants of Gateway and EventStream are proved, no run lists them.

**Fairness**, in EventHub and EventStream. EventHub's `FairSpec`: Notify and a begun `handleEvents`
run to completion: the Go scheduler runs every runnable goroutine (weak fairness). `select` picks
uniformly at random among ready cases, so a case that is ready again and again is taken (strong
fairness for `TakeDone`, `TakeFrame`, `Heartbeat`; the ticker always becomes ready again). That a
reader reads or its connection breaks is an assumption about the network: without it
`RevokedStreamsClose` fails, since the handler may be blocked in a write with no deadline.
EventStream's `FairSpec`: the connection moves what it can hold and the reading goroutine runs, its
callback returning (weak fairness each). That a connection ever ends is not assumed: neither reader
has a read deadline, and a peer that vanishes silently is not noticed.

## 4. Proofs

Proved by TLAPS for every value of the constants that the modules' named assumptions allow: any sets
of devices, handlers, streams and agents, any capacities, and any of the models' own bounds. The
inductive invariants are conjunctions of named parts, which stand at the head of each module of
proofs; a lemma per action, or per part, says that a step keeps them, and the theorems follow.

- `PINManagerProofs`: type correctness, `SingleUse`, `AttemptCap`, `NoLateAcceptance` and
  `LockoutIsEarned`. `PINInv` ties the history of the displayed PIN to the fields: comparisons equal
  `attempts` while the PIN is active, a used PIN is no longer in `pin`, and its expiry is `ttl` after
  its display. None of the four is inductive alone: without the link between `attempts` and the
  history a PIN could be compared again.
- `PairingStoreProofs`, any number of callers: `StoreTypeCorrect`; `StoreTokenIdentifiesDevice` from
  `StoreInv`, by which every entry anywhere (memory, snapshots, both files) carries a token of its
  own device. The lemma `Provenance` says that a step introduces no entry that was not known before
  but the one `Pair` makes or `Confirm` changes. `StoreNoResurrection`: while the program runs only
  `Pair` adds a token, a fresh one.
  Under the hypothesis `AtMostOneCaller`: `StoreAlwaysReopens`, `StorePairingIsDurable`,
  `StoreRevocationIsDurable`, and the refinement of `DurableStore` (`StoreImplementsDurableStore`).
  The hypothesis is needed: the runs `store_race_revocation` and `store_retried_revoke` and the first
  finding below show what two callers, or a failed call, break. The invariant `SerialInv`: the caller
  inside `persist` writes what is in memory, to `<path>.tmp` alone (`InOrder`), `<path>` is never half
  written (`Reloadable`), and whatever was reported to a caller holds on disk and, while the program
  runs, in memory (`Reported`).
- `GatewayProofs`: `GatewayTypeCorrect`, `TokensAreOwned`, `UnpairIsLocal`, `HooksAreApproved`,
  `ConsentBeforePairing`, `PinPairingsAreConfirmed`, `PinsAreSingleUse`, and `PINManagerWithin`: the
  gateway implements PINManager's specification. `Owned` follows a token from `NewToken` to the
  entry and to the handler that authenticated with it: it is its device's everywhere.
  `ConsentIsRecorded`: with somebody to ask, who is past the prompt, and whose entry is confirmed,
  is in `approved`. `SealedBeforeReply`: an answer on its way carries a token whose entry, if it is
  still there, is confirmed. `PinBudget`: tokens drawn by PIN, handlers whose PIN was accepted and
  the PIN on the screen together are no more than the displays.
- `EventHubProofs`: `HubTypeCorrect` (with the bound of the channels), `UnpairingSparesOthers`,
  `LogsAreFiltered`, `StatusStaysInSync`. The last one needs to know where the current status is
  (`InSync`): the latest status in the stream's buffer, or with none there the frame being written,
  or with none there the one on the screen, unless a notifier has yet to announce the status.
- `RemoteButtonsProofs`: all seven properties of `buttons`. `Fits` says what a handler has checked by
  the time it gets to each of its steps, which is what makes a later call of its hook well-founded;
  on top of it one part per property ties the step a handler has reached to its history: the values
  an answer may report (`Watched`), the connections it may have closed (`Closes`), whether it has
  changed anything yet (`Untouched`), the resources it still owes an event (`Owing`). `WorkAlters` says of
each step which answers it may alter, so that what is owed lies within `Effect`, and what is left of it
within what `Notify` has yet to announce. For the forwarder the whitelist is evaluated rule by rule:
no forwarded call is a PUT or PATCH of /configs (`WhitelistedMethods`, `WhitelistedPut`), and what is
relayed changes no more than it says (`RelayedStep`).
- `EventStreamProofs`: `StreamTypeCorrect`, `OnlyOneLineOverflows`, `EventsRunsOn`, and
  `StreamImplementsFeed`, the safety part of `DeliversWhole`. The invariant speaks of everything ever
  written, as one sequence of pieces S that no variable holds: `Layout` says where the frames lie in
  it, `Placed` where the reader stands, before a line of the next frame or between two frames, and
  `Pending` that buffer, connection and writer hold the rest of S, or its beginning once the
  connection has gone. A line is then known by its place (`LineCases`), whole or cut.
- `PairingPayloadProofs`: `ComponentsSurvive`, every byte string decodes from its percent-encoding to
  itself and nothing else, and no encoding holds a delimiter; and `RereadIsFaithful`, for payloads of
  any bytes and any length (`Complete`: what `Encode` accepts, on a host that is no bracketed literal
  already): after any edit, `Decode` returns what was encoded, but for a parameter that was cut, and
  refuses a URI that lost what is required. The encoders recurse over bytes or digits. Induction takes
  the form of a least counterexample (`SmallestNat`, `StrongInduction`, `Induction`), and that a
  recursively defined function exists at all is `CourseOfValues`. `Encoding`, `Decoding`, `Decimals`
  and `Values` state the recursions of the codec without its CHOOSE. The lemma the rest hangs on is
  `DecodePrefix`: a text that begins with the encoding of some bytes decodes to those bytes and what
  the remainder decodes to, or to an error if that does. It gives the round trip with the empty
  remainder (`RoundTrip`), and with half a triplet what a cut does (`CutComponent`). Ports are read as
  they were written (`DecimalIsNumeral`, `ScanNumeral`), hosts with or without brackets
  (`SplitAddress`), and each parameter that is left comes once, wherever it comes (`FieldIs`).
- `ControllerProofs`: `ControllerTypeCorrect`, `TokensGoHome`, `NilsMeanDone`, `GoneStaysGone`,
  `ScansShowWhatWasShown`, without hypotheses: that scanning is faithful for the constants' payloads
  follows from the module above (`ScansAreFaithful`). A token is *broken* if it is shorter than one
  that an agent issues, and `Bound` to the fingerprint of its issuer otherwise: that is the part of
  the invariant by which no token leaves home. `Called` says that past the handshake a call is with the
  agent it is pinned to, and what an answer on its way means (`Answered`): an "ok" that its request is
  among those done (`IsDone`), and, while the program that sent it runs (`Running`), an end of the
  pairing that its token does not authenticate. `Told` and `Gone` carry that to what was returned.
  `Ledger` has it that entries, in memory or loaded from the file, hold issued tokens only, so that a
  token that is gone is not drawn again. `AnyOrderIsRead` is about `DecodeTXT`: the five entries
  of an advertisement are read as its record in whatever order they arrive.

The invariants were evaluated by TLC on the runs' instances before they were proved.

The assumptions on constants are those named in the modules, which TLC evaluates in every run. Bounds
and sizes are numbers (the scanner's buffer holds more than one piece); `None` is no value of what it
is the absence of; requests, configurations, addresses and advertisements are of their types; a group
a request names is in `Groups`. Of substance are: agents have different ids and different, whole
fingerprints (SHA-256 of generated keys); tokens are strings of one length, no two alike (32 random
bytes each); the host an agent listens at is not empty and not in brackets (it is an address of one of
its interfaces, or a name); no event type and no part of a value is a newline or a
field name (canonjson escapes newlines, and a frame's type is one of the protocol's); a hub's operations announce what they may alter.

Model-checked only: liveness (`DeliversWhole`'s last part, `EventsReturns`, `RevokedStreamsClose`,
`OverrunStreamsClose`, `ChangesReachReaders`), which is out of the prover's reach. Every invariant and
action property of a passing run is a theorem; the findings' runs are counterexamples.

## 5. Findings

The four violation runs are disagreements of the code with the document lines that `PROJECT.json`
quotes. Further observations, made with these models (change the constants of a configuration as
stated to see them) or while reading for them:

- *Shared temporary file.* With two callers `StoreReopens` fails as well: both truncate
  `<path>.tmp`, one renames it, and the other's write lands in the renamed file (store.go:144-149).
- *Confirm names a device.* If a device is paired anew between the user's answer and
  `Store.Confirm`, the new pairing counts as confirmed (agent.go:145).
- *No Confirmer.* With `Config.Confirmer` nil the PIN flow asks nobody (agent.go:272), which
  hooks.go documents and section 6.4 excludes; `PairedByConsent` is stated for a Confirmer.
- *Status reordering.* Of two concurrent `Notify` calls the older status can be broadcast last
  (events.go:137) and stay on the controllers' screens; `StatusInSyncUnlessMissed` excepts it.
- *Forwarded writes* (PUT and DELETE on `/v1/core/`) are announced to nobody.
- *The status after some changes.* The group delay test clears the pin (corehooks.go:201-202), so that
  the node in use, which the status summary shows, may be another one, and announces proxies only
  (control.go:202), while section 9.2 wants the status "whenever power, name or summary changes". So
  do updating a profile or a proxy provider and deleting the active profile (control.go:279, 296,
  332). `StatusFollows` as the property of `buttons` shows it.
- *Read-only forwarding* still relays `GET /group/{}/delay`, which drops the group's pin; this is
  the exception in `ForwardIsHarmless`.
- *Number closed.* `CloseConnections` reports how many connections it listed, not how many the
  core closed (corehooks.go:426-443).
- *Concurrent renames* can leave the older name announced over mDNS (agent.go:237-242).
- *Unannounced changes.* `SetSetting` patches the core and reads again; when that read fails or is
  refused (corehooks.go:508) the request ends with an error and no event (control.go:451-456), although
  section 9.2 says that the agent MUST announce changes made through the gateway. `UnfixProxy` is alike
  (corehooks.go:194). `ChangesAreAnnounced` as the property of `buttons` shows it, and the forwarded
  writes.
- *Refused and changed.* `RefusalChangesNothing` without its exception fails for both: the refusal of
  the second look is reported as not_found or bad_request.
- *FollowLogs ends after 40 s.* The core's client has a `Timeout`, which covers the body
  (corehooks.go:78), so the stream that `FollowLogs` documents to last "until ctx is cancelled or the
  stream ends" is cut. `EventsKeepsStream` without its restriction to `Events` shows it.
- *Empty host.* `Decode` accepts `clashctl-pair://:8443?...`, which its comment (payload.go:52-54)
  and section 6.1 exclude; nothing looks at the host (payload.go:66).
- *Bracketed host.* A payload whose IP is bracketed already is encoded as it is (payload.go:32-35) and
  decoded without its brackets (payload.go:97-107), so it does not come back as it was; the theorems
  about payloads are for hosts without brackets, which is what agents show.
- *Cut URIs.* A token cut short is accepted by `Decode`; the first call then fails as unauthorized.
- *Cut answers.* `do` drops the error of reading the body (controller.go:157): an answer whose body
  is lost whole is a success, so `PairWithPIN`, which "returns the issued token", can return "" and no
  error. `PairReturnsToken` as the property of `controller` shows it.
- *Upper-case fingerprints* pass `pinnedTLS` (it decodes hexadecimal of both cases) and can never
  match, as the comparison is between strings (controller.go:58-68).
- *Stale records.* `FindByDeviceID` returns the first record with the id; if it is stale, the pinned
  connection fails although the agent is up elsewhere. No token is sent (`TokenGoesHome`).
- *Callback after cancel.* `Events` may still call its callback for lines it has buffered when ctx
  is cancelled.
- *Lost pairing answer.* The controller gives up on `POST /v1/pair` after 15 s while the prompt
  stays open; the acceptance then replaces a working pairing by a token nobody received.

## 6. What is not modelled, and the plan

Not modelled: the reading endpoints and the core's traffic (they change nothing and only format what
the core says; `Summary`, `Providers`, `Connections` and the like are field-by-field conversions);
TLS and key generation (assumed, but for the comparison of fingerprints); the mDNS library itself,
whose results are any set of records; canonical JSON, protocol types, the vector generator (no state).
What the core's actions do (`RunAction`; the handler and its call are modelled). In the controller,
the reuse of connections and the repetition of requests by Go's `http.Transport`, which resends an
idempotent request when a kept connection turns out to be closed: such a request counts as one.
The handlers' own timeouts and the HTTP server's are not in the repository.

Order of work. Done: (1) PINManager with proofs; (2) PairingStore with its abstract specification
and proofs; (3) EventHub with liveness; (4) Gateway; (5) RemoteButtons over CoreHooks and Forwarder;
(6) EventStream with its abstract specification; (7) the codecs and Controller;
(8) proofs of the safety properties of every component, and of the codecs.
