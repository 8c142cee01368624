-------------------------- MODULE PINManagerProofs --------------------------
(* Proofs about PINManager for every set of PINs, lifetime and attempt cap.  *)
EXTENDS PINManager, TLAPS

\* NewPINManager starts in a state of the inductive invariant.
LEMMA PINInit == Init => PINInv
  BY PINAssumption DEF Init, PINInv, TypeOK, Issue, NewIssue, LockoutIsEarned

\* Generate restarts the budget, the lifetime and the history together.
LEMMA GenerateInv == PINInv /\ Generate => PINInv'
<1> SUFFICES ASSUME PINInv, Generate PROVE PINInv'
  OBVIOUS
<1>1. TypeOK'
  BY PINAssumption DEF Generate, PINInv, TypeOK, Issue, NewIssue
<1>2. issue' = NewIssue /\ expires' = now + ttl /\ attempts' = 0
  BY DEF Generate
<1> QED
  BY <1>1, <1>2, PINAssumption DEF PINInv, TypeOK, NewIssue, LockoutIsEarned

\* Verify preserves the inductive invariant, whatever it answers.
LEMMA VerifyInv ==
  ASSUME NEW p \in Pins, NEW r \in VerifyResult, PINInv, Verify(p, r),
         UNCHANGED now
  PROVE  PINInv'
<1> USE PINAssumption
<1>1. CASE Inactive /\ pin' = None /\ UNCHANGED <<expires, attempts, issue>>
  BY <1>1 DEF PINInv, TypeOK, LockoutIsEarned
<1>2. CASE /\ ~Inactive
           /\ attempts >= maxAttempts
           /\ issue' = [issue EXCEPT !.limited = TRUE]
           /\ UNCHANGED pinVars
  <2>1. TypeOK'
    BY <1>2 DEF PINInv, TypeOK, Issue, pinVars
  <2> QED
    BY <1>2, <2>1 DEF PINInv, TypeOK, Issue, pinVars, LockoutIsEarned, Inactive
<1>3. CASE ~Inactive /\ Compare(p, r) /\ UNCHANGED expires
  <2>1. attempts < maxAttempts /\ attempts' = attempts + 1
    BY <1>3 DEF Compare
  <2>2. attempts' \in 0..maxAttempts
    BY <2>1 DEF PINInv, TypeOK
  <2>3. ~issue.limited
    BY <2>1 DEF PINInv, TypeOK, LockoutIsEarned
  <2>4. expires = issue.shown + ttl /\ issue.uses = 0 /\ now <= expires
    BY <1>3 DEF PINInv, TypeOK, Inactive
  <2>5. CASE pin' = None
             /\ issue' = [issue EXCEPT !.compared = @ + 1, !.uses = @ + 1,
                                       !.usedAt = now]
    <3>1. issue' \in Issue
      <4>1. issue \in Issue /\ now \in Nat
        BY DEF PINInv, TypeOK
      <4>2. issue.compared + 1 \in Nat /\ issue.uses + 1 \in Nat
        BY <4>1 DEF Issue
      <4> QED
        BY <2>5, <4>1, <4>2 DEF Issue
    <3>2. /\ issue'.shown = issue.shown
          /\ issue'.compared = issue.compared + 1
          /\ issue'.uses = issue.uses + 1
          /\ issue'.usedAt = now
          /\ issue'.limited = issue.limited
      BY <2>5 DEF PINInv, TypeOK, Issue
    <3> QED
      BY <1>3, <2>1, <2>2, <2>3, <2>4, <2>5, <3>1, <3>2
         DEF PINInv, TypeOK, LockoutIsEarned
  <2>6. CASE pin' = pin /\ issue' = [issue EXCEPT !.compared = @ + 1]
    <3>1. issue' \in Issue
      BY <2>6 DEF PINInv, TypeOK, Issue
    <3>2. /\ issue'.shown = issue.shown
          /\ issue'.compared = issue.compared + 1
          /\ issue'.uses = issue.uses
          /\ issue'.usedAt = issue.usedAt
          /\ issue'.limited = issue.limited
      BY <2>6 DEF PINInv, TypeOK, Issue
    <3> QED
      BY <1>3, <2>1, <2>2, <2>3, <2>4, <2>6, <3>1, <3>2
         DEF PINInv, TypeOK, LockoutIsEarned
  <2> QED
    BY <1>3, <2>5, <2>6 DEF Compare
<1> QED
  BY <1>1, <1>2, <1>3 DEF Verify

\* Every step of the manager preserves the inductive invariant.
LEMMA PINStep == PINInv /\ [Next]_vars => PINInv'
<1> SUFFICES ASSUME PINInv, [Next]_vars PROVE PINInv'
  OBVIOUS
<1>1. CASE Generate
  BY <1>1, GenerateInv
<1>2. ASSUME NEW p \in Pins, VerifyCall(p) PROVE PINInv'
  BY <1>2, VerifyInv DEF VerifyCall
<1>3. CASE Tick
  BY <1>3, PINAssumption DEF Tick, pinVars, PINInv, TypeOK, LockoutIsEarned
<1>4. CASE UNCHANGED vars
  BY <1>4 DEF vars, PINInv, TypeOK, LockoutIsEarned
<1> QED
  BY <1>1, <1>2, <1>3, <1>4 DEF Next

\* The inductive invariant holds of every reachable state.
THEOREM PINInvariant == Spec => []PINInv
  BY PINInit, PINStep, PTL DEF Spec

\* Type correctness of the PIN manager, the attempt cap included.
THEOREM PINTypeCorrect == Spec => []TypeOK
<1>1. PINInv => TypeOK
  BY DEF PINInv
<1> QED
  BY <1>1, PINInvariant, PTL

\* One displayed PIN pairs at most one caller (pin.go, "single-use").
THEOREM PINSingleUse == Spec => []SingleUse
<1>1. PINInv => SingleUse
  BY DEF PINInv, SingleUse
<1> QED
  BY <1>1, PINInvariant, PTL

\* At most maxAttempts codes are compared with one displayed PIN.
THEOREM PINAttemptCap == Spec => []AttemptCap
<1>1. PINInv => AttemptCap
  BY PINAssumption DEF PINInv, AttemptCap, TypeOK
<1> QED
  BY <1>1, PINInvariant, PTL

\* No PIN is accepted after its lifetime.
THEOREM PINNoLateAcceptance == Spec => []NoLateAcceptance
<1>1. PINInv => NoLateAcceptance
  BY DEF PINInv, NoLateAcceptance
<1> QED
  BY <1>1, PINInvariant, PTL

\* "Too many attempts" means the displayed PIN's own budget was used up, and
\* that PIN never pairs anyone afterwards.
THEOREM PINLockoutIsEarned == Spec => []LockoutIsEarned
<1>1. PINInv => LockoutIsEarned
  BY DEF PINInv
<1> QED
  BY <1>1, PINInvariant, PTL
=============================================================================
