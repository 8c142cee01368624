------------------------------- MODULE Pairing -------------------------------
(***************************************************************************)
(* pairing/store.go and ids.go: the data of the pairing store, shared by   *)
(* the modules that keep one.  The map s.entries is a function from device *)
(* ids to entries, None standing for a missing key.  Name and PairedAt are *)
(* carried along by the code and decide nothing, so they are left out.     *)
(***************************************************************************)
EXTENDS Naturals

CONSTANTS
  Devices,    \* controller device ids
  MaxTokens,  \* bound of the model: how many tokens are ever issued
  None        \* no entry, no file

\* The n-th call of NewToken returns token n: 32 random bytes never repeat.
Tokens == 0..(MaxTokens - 1)

\* HashToken: what is stored is a digest, never the token; SHA-256 is taken
\* to be injective.
HashToken(t) == [sha256 |-> t]
TokenHashes == [sha256: Tokens]

Entry == [DeviceID: Devices, TokenHash: TokenHashes, Confirmed: BOOLEAN]

Entries == [Devices -> Entry \cup {None}]

ASSUME PairingAssumption == /\ None \notin Entry
                            /\ MaxTokens \in Nat

NoEntries == [d \in Devices |-> None]

\* Mutant of NewEntry: the token itself is stored.
NewEntryRaw(d, t) ==
  [DeviceID |-> d, TokenHash |-> [plain |-> t], Confirmed |-> FALSE]

\* Pair: the new entry of a device, not confirmed yet.
NewEntry(d, t) ==
  [DeviceID |-> d, TokenHash |-> HashToken(t), Confirmed |-> FALSE]

\* The whole map as the list persist and List build from it.
List(es) == {es[d] : d \in {x \in Devices : es[x] # None}}

\* Mutant of Authenticate: the comparison is left out.
AuthenticateAny(es, t) == List(es)

\* Authenticate: the entries whose hash is the presented token's.
Authenticate(es, t) == {e \in List(es) : e.TokenHash = HashToken(t)}

Authenticates(es, t) == Authenticate(es, t) # {}

\* Pair's assignment: the device's entry is replaced, whatever it was.
PutEntry(es, d, t) == [es EXCEPT ![d] = NewEntry(d, t)]

\* Revoke's delete.
DeleteEntry(es, d) == [es EXCEPT ![d] = None]

\* Confirm's assignment, for a device that is present.
ConfirmEntry(es, d) == [es EXCEPT ![d] = [@ EXCEPT !.Confirmed = TRUE]]
=============================================================================
