---------------------------- MODULE PairingStore ----------------------------
(***************************************************************************)
(* pairing/store.go: the file-backed pairing store under concurrent calls, *)
(* write errors and restarts of the program.  Pair, Revoke and Confirm     *)
(* change s.entries under s.mu and then call persist, which takes the lock *)
(* again for a snapshot and writes the snapshot with no lock held: create  *)
(* or truncate <path>.tmp, write it, rename it over <path>.  Each of those *)
(* is a step of its own here.                                              *)
(***************************************************************************)
EXTENDS Pairing, FiniteSets

CONSTANTS
  Callers,      \* goroutines that use the store
  MaxCrashes,   \* bound of the model: restarts of the program
  MaxFailures   \* bound of the model: failing file operations

\* <path>.tmp and <path>: absent, a list of entries, or not valid JSON.
Files == {"tmp", "path"}
Content == [kind: {"absent", "list", "garbled"}, list: SUBSET Entry]
NoFile == [kind |-> "absent", list |-> {}]
ListFile(es) == [kind |-> "list", list |-> es]
Garbled == [kind |-> "garbled", list |-> {}]

ASSUME StoreAssumption == /\ MaxCrashes \in Nat
                          /\ MaxFailures \in Nat
                          /\ None \notin Tokens
                          /\ \A es \in SUBSET Entry : es # None

VARIABLES
  entries,    \* s.entries
  nextToken,  \* the next result of NewToken
  pc,         \* where each caller is in persist
  call,       \* what each caller's operation issues and displaces
  list,       \* persist's snapshot, per caller
  fd,         \* WriteFile's open file, named by where it is linked now
  file,       \* the two files: what <path>.tmp and <path> hold
  up,         \* whether the program runs; "refused": OpenStore returned an error
  ledger,     \* history: each token's device and fate
  crashes,
  failures

vars == <<entries, nextToken, pc, call, list, fd, file, up, ledger, crashes, failures>>

(***************************************************************************)
(* The fate of a token: "none" not drawn; "pending" drawn by a Pair that   *)
(* has not returned it; "issued" returned by Pair; "ending" removed from   *)
(* memory by a Revoke or a newer Pair; "revoked" and "replaced" that call  *)
(* reported success; "denied" a later Revoke answered that the device is   *)
(* not paired.                                                             *)
(***************************************************************************)
Fates == {"none", "pending", "issued", "ending", "revoked", "replaced",
          "denied"}
Steps == {"idle", "snapshot", "open", "write", "rename"}
NoCall == [token |-> None, gone |-> {}]
Calls == [token: Tokens \cup {None}, gone: SUBSET Tokens]

\* Every variable keeps its type: in particular the files only ever hold
\* lists of entries, nothing readable, or nothing.
TypeOK ==
  /\ entries \in Entries
  /\ nextToken \in 0..MaxTokens
  /\ pc \in [Callers -> Steps]
  /\ call \in [Callers -> Calls]
  /\ list \in [Callers -> SUBSET Entry]
  /\ fd \in [Callers -> Files \cup {"none", "unlinked"}]
  /\ file \in [Files -> Content]
  /\ up \in {"running", "down", "refused"}
  /\ ledger \in [Tokens -> [dev: Devices \cup {None}, fate: Fates]]
  /\ crashes \in 0..MaxCrashes
  /\ failures \in 0..MaxFailures

\* The program starts with no file, and OpenStore made an empty store.
Init ==
  /\ entries = NoEntries
  /\ nextToken = 0
  /\ pc = [c \in Callers |-> "idle"]
  /\ call = [c \in Callers |-> NoCall]
  /\ list = [c \in Callers |-> {}]
  /\ fd = [c \in Callers |-> "none"]
  /\ file = [f \in Files |-> NoFile]
  /\ up = "running"
  /\ ledger = [t \in Tokens |-> [dev |-> None, fate |-> "none"]]
  /\ crashes = 0
  /\ failures = 0

-----------------------------------------------------------------------------
\* The tokens of device d that a call displaces: the one in memory, and any
\* an earlier failed call already removed from memory.
Displaced(d) == {t \in Tokens : ledger[t].dev = d /\ ledger[t].fate # "revoked"}

WithFate(ts, fate) ==
  [t \in Tokens |-> IF t \in ts THEN [ledger[t] EXCEPT !.fate = fate] ELSE ledger[t]]

\* The change under s.mu is made; persist comes next.
Persist(c, token, gone) ==
  /\ pc' = [pc EXCEPT ![c] = "snapshot"]
  /\ call' = [call EXCEPT ![c] = [token |-> token, gone |-> gone]]

Ready(c) == up = "running" /\ pc[c] = "idle"

\* Mutant of Pair: the token is not drawn afresh.
PairReusesToken(c, d) ==
  /\ Ready(c)
  /\ nextToken < MaxTokens
  /\ entries' = PutEntry(entries, d, 0)
  /\ nextToken' = nextToken + 1
  /\ ledger' = [WithFate(Displaced(d), "ending") EXCEPT
                  ![nextToken] = [dev |-> d, fate |-> "pending"]]
  /\ Persist(c, nextToken, Displaced(d))
  /\ UNCHANGED <<list, fd, file, up, crashes, failures>>

\* Pair: a fresh token replaces whatever entry the device had.
Pair(c, d) ==
  /\ Ready(c)
  /\ nextToken < MaxTokens
  /\ entries' = PutEntry(entries, d, nextToken)
  /\ nextToken' = nextToken + 1
  /\ ledger' = [WithFate(Displaced(d), "ending") EXCEPT
                  ![nextToken] = [dev |-> d, fate |-> "pending"]]
  /\ Persist(c, nextToken, Displaced(d))
  /\ UNCHANGED <<list, fd, file, up, crashes, failures>>

\* Mutant of Revoke: the deletion is not persisted.
RevokeInMemoryOnly(c, d) ==
  /\ Ready(c)
  /\ entries[d] # None
  /\ entries' = DeleteEntry(entries, d)
  /\ ledger' = WithFate(Displaced(d), "revoked")
  /\ UNCHANGED <<nextToken, pc, call, list, fd, file, up, crashes, failures>>

\* Revoke of a paired device.
Revoke(c, d) ==
  /\ Ready(c)
  /\ entries[d] # None
  /\ entries' = DeleteEntry(entries, d)
  /\ ledger' = WithFate(Displaced(d), "ending")
  /\ Persist(c, None, Displaced(d))
  /\ UNCHANGED <<nextToken, list, fd, file, up, crashes, failures>>

\* Revoke of a device that is not in memory: (false, nil), without persist.
\* The caller is told there is no such pairing.
RevokeAbsent(c, d) ==
  /\ Ready(c)
  /\ entries[d] = None
  /\ ledger' = WithFate(Displaced(d), "denied")
  /\ UNCHANGED <<entries, nextToken, pc, call, list, fd, file, up, crashes, failures>>

\* Confirm of a paired device (an unknown device is an error and no change).
Confirm(c, d) ==
  /\ Ready(c)
  /\ entries[d] # None
  /\ entries' = ConfirmEntry(entries, d)
  /\ Persist(c, None, {})
  /\ UNCHANGED <<nextToken, list, fd, file, up, ledger, crashes, failures>>

-----------------------------------------------------------------------------
\* persist: the snapshot, under the read lock.
Snapshot(c) ==
  /\ pc[c] = "snapshot"
  /\ list' = [list EXCEPT ![c] = List(entries)]
  /\ pc' = [pc EXCEPT ![c] = "open"]
  /\ UNCHANGED <<entries, nextToken, call, fd, file, up, ledger, crashes, failures>>

\* Mutant of OpenTmp: the store's file itself is truncated and rewritten.
OpenInPlace(c) ==
  /\ pc[c] = "open"
  /\ file' = [file EXCEPT !["path"] = ListFile({})]
  /\ fd' = [fd EXCEPT ![c] = "path"]
  /\ pc' = [pc EXCEPT ![c] = "write"]
  /\ UNCHANGED <<entries, nextToken, call, list, up, ledger, crashes, failures>>

\* WriteFile opens <path>.tmp with O_CREATE|O_TRUNC.
OpenTmp(c) ==
  /\ pc[c] = "open"
  /\ file' = [file EXCEPT !["tmp"] = ListFile({})]
  /\ fd' = [fd EXCEPT ![c] = "tmp"]
  /\ pc' = [pc EXCEPT ![c] = "write"]
  /\ UNCHANGED <<entries, nextToken, call, list, up, ledger, crashes, failures>>

\* The size of an encoded list: equal for all entries but for the flag, as
\* "true" is one byte shorter than "false".
Size(es) == 2 * Cardinality(es) - Cardinality({e \in es : e.Confirmed})

\* Writing a list from offset 0 into an open file: what a longer content
\* leaves behind the end makes the file invalid JSON.
Overlay(old, new) ==
  IF old.kind = "list" /\ Size(old.list) <= Size(new) THEN ListFile(new) ELSE Garbled

WriteTmp(c) ==
  /\ pc[c] = "write"
  /\ file' = [f \in Files |-> IF f = fd[c] THEN Overlay(file[f], list[c])
                                           ELSE file[f]]
  /\ fd' = [fd EXCEPT ![c] = "none"]
  /\ pc' = [pc EXCEPT ![c] = "rename"]
  /\ UNCHANGED <<entries, nextToken, call, list, up, ledger, crashes, failures>>

\* persist returns, and the operation with it.  On success Pair hands its
\* token out and what the call displaced is reported gone.
Return(c, ok) ==
  /\ pc' = [pc EXCEPT ![c] = "idle"]
  /\ call' = [call EXCEPT ![c] = NoCall]
  /\ list' = [list EXCEPT ![c] = {}]
  /\ ledger' = [t \in Tokens |->
       [ledger[t] EXCEPT !.fate =
          CASE ok /\ t \in call[c].gone ->
                 IF call[c].token = None THEN "revoked" ELSE "replaced"
            [] ok /\ t = call[c].token /\ @ = "pending" -> "issued"
            [] OTHER -> @]]

\* Rename moves the inode: a file still open under the old name is now the
\* store's file, and the one it replaces is linked nowhere.
Relink(f) == CASE f = "tmp" -> "path"
               [] f = "path" -> "unlinked"
               [] OTHER -> f

RenameTmp(c) ==
  /\ pc[c] = "rename"
  /\ file["tmp"] # NoFile
  /\ file' = [file EXCEPT !["tmp"] = NoFile, !["path"] = file["tmp"]]
  /\ fd' = [x \in Callers |-> Relink(fd[x])]
  /\ Return(c, TRUE)
  /\ UNCHANGED <<entries, nextToken, up, crashes, failures>>

\* Mutant of RenameLost: on the error memory is rolled back to the file.
RenameLostReloads(c) ==
  /\ pc[c] = "rename"
  /\ file["tmp"] = NoFile
  /\ entries' = [d \in Devices |->
                   IF \E e \in file["path"].list : e.DeviceID = d
                   THEN CHOOSE e \in file["path"].list : e.DeviceID = d
                   ELSE None]
  /\ Return(c, FALSE)
  /\ UNCHANGED <<nextToken, fd, file, up, crashes, failures>>

\* Another caller renamed the file first: rename answers ENOENT.
RenameLost(c) ==
  /\ pc[c] = "rename"
  /\ file["tmp"] = NoFile
  /\ Return(c, FALSE)
  /\ UNCHANGED <<entries, nextToken, fd, file, up, crashes, failures>>

\* Mutant of PersistFails: the error is swallowed.
PersistFailsSilently(c) ==
  /\ pc[c] \in {"open", "write", "rename"}
  /\ failures < MaxFailures
  /\ failures' = failures + 1
  /\ fd' = [fd EXCEPT ![c] = "none"]
  /\ Return(c, TRUE)
  /\ UNCHANGED <<entries, nextToken, file, up, crashes>>

\* Opening, writing (some bytes or none got written) or renaming fails, and
\* the error is returned; memory keeps the change.
PersistFails(c) ==
  /\ pc[c] \in {"open", "write", "rename"}
  /\ failures < MaxFailures
  /\ failures' = failures + 1
  /\ \/ UNCHANGED file
     \/ /\ pc[c] = "write"
        /\ file' = [f \in Files |-> IF f = fd[c] THEN Garbled ELSE file[f]]
  /\ fd' = [fd EXCEPT ![c] = "none"]
  /\ Return(c, FALSE)
  /\ UNCHANGED <<entries, nextToken, up, crashes>>

-----------------------------------------------------------------------------
\* The program stops anywhere: memory and the calls in progress are gone.
Crash ==
  /\ up = "running"
  /\ crashes < MaxCrashes
  /\ crashes' = crashes + 1
  /\ up' = "down"
  /\ entries' = NoEntries
  /\ pc' = [c \in Callers |-> "idle"]
  /\ call' = [c \in Callers |-> NoCall]
  /\ list' = [c \in Callers |-> {}]
  /\ fd' = [c \in Callers |-> "none"]
  /\ UNCHANGED <<nextToken, file, ledger, failures>>

\* OpenStore's loop over the decoded list; a missing file has none.
Load(es) == [d \in Devices |->
               IF \E e \in es : e.DeviceID = d
               THEN CHOOSE e \in es : e.DeviceID = d
               ELSE None]

\* Mutant of OpenStore: a leftover <path>.tmp is taken for the newer file.
OpenStorePrefersTmp ==
  /\ up \in {"down", "refused"}
  /\ up' = "running"
  /\ entries' = Load(file[IF file["tmp"] = NoFile THEN "path" ELSE "tmp"].list)
  /\ UNCHANGED <<nextToken, pc, call, list, fd, file, ledger, crashes, failures>>

\* OpenStore: the leftover <path>.tmp is not looked at.
OpenStore ==
  /\ up \in {"down", "refused"}
  /\ \/ /\ file["path"] = Garbled
        /\ up' = "refused"
        /\ UNCHANGED entries
     \/ /\ file["path"] # Garbled
        /\ up' = "running"
        /\ entries' = Load(file["path"].list)
  /\ UNCHANGED <<nextToken, pc, call, list, fd, file, ledger, crashes, failures>>

-----------------------------------------------------------------------------
Operation(c) == \E d \in Devices : \/ Pair(c, d)
                                   \/ Revoke(c, d)
                                   \/ RevokeAbsent(c, d)
                                   \/ Confirm(c, d)

PersistStep(c) == \/ Snapshot(c)
                  \/ OpenTmp(c)
                  \/ WriteTmp(c)
                  \/ RenameTmp(c)
                  \/ RenameLost(c)
                  \/ PersistFails(c)

Next == \/ \E c \in Callers : Operation(c) \/ PersistStep(c)
        \/ Crash
        \/ OpenStore

Spec == Init /\ [][Next]_vars

-----------------------------------------------------------------------------
\* The entries in memory, in a snapshot being written, or in a file.
KnownEntries == UNION ({List(entries)} \cup {list[c] : c \in Callers}
                        \cup {file[f].list : f \in Files})

\* A token only ever stands for the device it was issued to, in memory and in
\* every list that is written, however calls and restarts interleave.
TokenIdentifiesDevice ==
  \A e \in KnownEntries : \A t \in Tokens :
    e.TokenHash = HashToken(t) => ledger[t].dev = e.DeviceID

\* Within one run of the program, a token that was drawn and no longer
\* authenticates never does again: only OpenStore can bring one back.
NoResurrection ==
  [][up = "running" =>
       \A t \in Tokens : /\ t < nextToken
                         /\ ~Authenticates(entries, t)
                         => ~Authenticates(entries', t)]_vars

\* PROTOCOL.md section 7.3: once Revoke has removed an entry and returned
\* without error, the token is rejected, after restarts too.
RevocationIsDurable ==
  up = "running" =>
    \A t \in Tokens : ledger[t].fate = "revoked" => ~Authenticates(entries, t)

\* A token Pair has returned, and that nothing has displaced since, is
\* accepted, after restarts too.
PairingIsDurable ==
  up = "running" =>
    \A t \in Tokens : ledger[t].fate = "issued" => Authenticates(entries, t)

\* The file <path> can always be loaded again: OpenStore never refuses it.
StoreReopens == up # "refused"

\* PROTOCOL.md section 7.3, for a caller that repeats a Revoke which failed:
\* once the store has answered that the device is not paired, its token is
\* rejected, after restarts too.
DenialIsDurable ==
  up = "running" =>
    \A t \in Tokens : ledger[t].fate = "denied" => ~Authenticates(entries, t)

(***************************************************************************)
(* With one caller at a time the store is a DurableStore: what OpenStore   *)
(* finds on disk is always one whole state of memory, and a rename brings  *)
(* it up to date.                                                          *)
(***************************************************************************)
Durable == INSTANCE DurableStore
             WITH memory <- IF up = "running" THEN List(entries) ELSE None,
                  disk <- file["path"].list

\* The file-backed store implements the abstract one.
ImplementsDurableStore == Durable!Spec
=============================================================================
