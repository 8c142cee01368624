----------------------------- MODULE PINManager -----------------------------
(***************************************************************************)
(* agent/pin.go: the single-use, expiring, rate-limited PIN of the         *)
(* PIN-assisted pairing flow.  Generate and Verify each run under m.mu, so *)
(* each is one action.  The clock is m.now(), read once per call.          *)
(***************************************************************************)
EXTENDS Naturals

CONSTANTS
  Pins,         \* the codes Generate can draw (six digits in the code)
  None,         \* the empty string m.pin holds when no PIN is active
  ttl,          \* m.ttl, in ticks of the clock
  maxAttempts,  \* m.maxAttempts
  MaxTime       \* bound of the model: the clock stops here

ASSUME PINAssumption ==
  /\ None \notin Pins
  /\ ttl \in Nat
  /\ maxAttempts \in Nat
  /\ MaxTime \in Nat

VARIABLES
  pin,       \* m.pin
  expires,   \* m.expires
  attempts,  \* m.attempts
  now,       \* the clock
  issue      \* history of the PIN last shown: when it was shown, how many
             \* codes were compared with it, how often and when it was last
             \* accepted, whether a caller was told "too many attempts"

pinVars == <<pin, expires, attempts>>
vars == <<pin, expires, attempts, now, issue>>

VerifyResult == {"PINOK", "PINWrong", "PINRateLimited"}

Issue == [shown: Nat, compared: Nat, uses: Nat, usedAt: Nat, limited: BOOLEAN]

\* The fields of PINManager and the history keep their types, and the attempt
\* counter never passes its cap.
TypeOK ==
  /\ pin \in Pins \cup {None}
  /\ expires \in Nat
  /\ attempts \in 0..maxAttempts
  /\ now \in Nat
  /\ issue \in Issue

NewIssue == [shown |-> now, compared |-> 0, uses |-> 0, usedAt |-> now,
             limited |-> FALSE]

\* NewPINManager: no PIN is active until Generate is called.
Init ==
  /\ pin = None
  /\ expires = 0
  /\ attempts = 0
  /\ now = 0
  /\ issue = NewIssue

\* Mutant of Generate: the attempt budget is not restarted.
GenerateKeepsBudget ==
  \E p \in Pins : /\ pin' = p
                  /\ expires' = now + ttl
                  /\ issue' = NewIssue
                  /\ UNCHANGED <<attempts, now>>

\* Generate: a fresh random PIN replaces the previous one.
Generate ==
  \E p \in Pins : /\ pin' = p
                  /\ expires' = now + ttl
                  /\ attempts' = 0
                  /\ issue' = NewIssue
                  /\ UNCHANGED now

\* Mutant of Inactive: the lifetime is not looked at.
InactiveIgnoresExpiry == pin = None

\* m.pin == "" || m.now().After(m.expires)
Inactive == pin = None \/ now > expires

\* Mutant of Compare: the attempt cap is off by one.
CompareOneMore(p, r) ==
  /\ attempts <= maxAttempts
  /\ r = "PINWrong"
  /\ attempts' = attempts + 1
  /\ issue' = [issue EXCEPT !.compared = @ + 1]
  /\ UNCHANGED pin

\* Mutant of Compare: at the cap the comparison still goes ahead, uncounted.
CompareUncounted(p, r) ==
  /\ r = "PINWrong"
  /\ attempts' = IF attempts < maxAttempts THEN attempts + 1 ELSE attempts
  /\ issue' = [issue EXCEPT !.compared = @ + 1]
  /\ UNCHANGED pin

\* Mutant of Compare: a matching PIN is not consumed.
CompareKeepsPin(p, r) ==
  /\ attempts < maxAttempts
  /\ r = IF p = pin THEN "PINOK" ELSE "PINWrong"
  /\ attempts' = attempts + 1
  /\ issue' = [issue EXCEPT !.compared = @ + 1, !.usedAt = now,
                            !.uses = IF p = pin THEN @ + 1 ELSE @]
  /\ UNCHANGED pin

\* An attempt within the cap is counted, then compared; a match is consumed.
Compare(p, r) ==
  /\ attempts < maxAttempts
  /\ attempts' = attempts + 1
  /\ \/ /\ p = pin
        /\ r = "PINOK"
        /\ pin' = None
        /\ issue' = [issue EXCEPT !.compared = @ + 1, !.uses = @ + 1,
                                  !.usedAt = now]
     \/ /\ p # pin
        /\ r = "PINWrong"
        /\ issue' = [issue EXCEPT !.compared = @ + 1]
        /\ UNCHANGED pin

(***************************************************************************)
(* Verify(p) answering r: no active PIN (an expired one is cleared), the   *)
(* attempt cap, the comparison.                                            *)
(***************************************************************************)
Verify(p, r) ==
  \/ /\ Inactive
     /\ r = "PINWrong"
     /\ pin' = None
     /\ UNCHANGED <<expires, attempts, issue>>
  \/ /\ ~Inactive
     /\ attempts >= maxAttempts
     /\ r = "PINRateLimited"
     /\ issue' = [issue EXCEPT !.limited = TRUE]
     /\ UNCHANGED pinVars
  \/ /\ ~Inactive
     /\ Compare(p, r)
     /\ UNCHANGED expires

VerifyCall(p) == /\ \E r \in VerifyResult : Verify(p, r)
                 /\ UNCHANGED now

Tick == /\ now < MaxTime
        /\ now' = now + 1
        /\ UNCHANGED <<pinVars, issue>>

Next == \/ Generate
        \/ \E p \in Pins : VerifyCall(p)
        \/ Tick

Spec == Init /\ [][Next]_vars

-----------------------------------------------------------------------------
\* pin.go "A correct PIN is consumed (single-use)": however calls, timeouts
\* and regenerations interleave, one displayed PIN pairs at most one caller.
SingleUse == issue.uses <= 1

\* At most maxAttempts codes are ever compared with one displayed PIN, so
\* guessing it is bounded whatever the expiry and regeneration do.
AttemptCap == issue.compared <= maxAttempts

\* "PINs expire": a PIN is never accepted after its lifetime, counted from the
\* moment it was shown.
NoLateAcceptance == issue.usedAt <= issue.shown + ttl

\* A caller is told "too many attempts" only when the PIN on the screen used
\* up its whole budget on wrong codes, and that PIN then never pairs anyone.
LockoutIsEarned == issue.limited => /\ issue.compared = maxAttempts
                                    /\ issue.uses = 0

(***************************************************************************)
(* The inductive invariant of the proofs: the implementation's counters    *)
(* agree with the history, and a PIN that was accepted is no longer active.*)
(***************************************************************************)
PINInv ==
  /\ TypeOK
  /\ attempts = issue.compared
  /\ issue.usedAt <= issue.shown + ttl
  /\ pin # None => expires = issue.shown + ttl /\ issue.uses = 0
  /\ issue.uses <= 1
  /\ LockoutIsEarned
=============================================================================
