----------------------------- MODULE OnceProofs ------------------------------
(***************************************************************************)
(* Proofs about OnceOrCancel, for any number of concurrent callers and of  *)
(* evaluations.                                                            *)
(***************************************************************************)
EXTENDS OnceOrCancel, TLAPS

(* Only the owner of o.mu is between Lock and the deferred unlock, nobody  *)
(* evaluates the callback once a result is kept, and whoever got a value   *)
(* got the one that is kept.                                               *)
OnceInv == /\ \A c \in Callers : pc[c] \in Inside => owner = c
           /\ \A c \in Callers : pc[c] \in {"run", "store"} => ~done
           /\ \A c \in Callers : got[c].kind = "value" => done /\ got[c] = val

(* The variables keep their types; o.mu is free or held by a caller that   *)
(* is inside the critical section.                                         *)
THEOREM TypeCorrect == Spec => []TypeOK
<1>1. Init => TypeOK
  <2> SUFFICES ASSUME Init PROVE TypeOK
    OBVIOUS
  <2>1. NoResult \in Result /\ runs \in 0..MaxRuns
    BY MaxRunsAssumption DEF Init, Result
  <2> QED
    BY <2>1 DEF Init, TypeOK
<1>2. TypeOK /\ [Next]_vars => TypeOK'
  <2> SUFFICES ASSUME TypeOK, [Next]_vars
               PROVE  TypeOK'
    OBVIOUS
  <2> USE CallersAssumption DEF TypeOK, Inside
  <2>1. ASSUME NEW c \in Callers, FastPath(c)
        PROVE  TypeOK'
    BY <2>1 DEF FastPath
  <2>2. ASSUME NEW c \in Callers, Lock(c)
        PROVE  TypeOK'
    BY <2>2 DEF Lock
  <2>3. ASSUME NEW c \in Callers, CheckAgain(c)
        PROVE  TypeOK'
    BY <2>3 DEF CheckAgain
  <2>4. ASSUME NEW c \in Callers, Evaluate(c)
        PROVE  TypeOK'
    <3>1. runs' \in 0..MaxRuns /\ runs + 1 \in 1..MaxRuns
      BY <2>4, MaxRunsAssumption DEF Evaluate
    <3>2. val' \in Result
      BY <2>4, <3>1 DEF Evaluate, Result
    <3> QED
      BY <2>4, <3>1, <3>2 DEF Evaluate
  <2>5. ASSUME NEW c \in Callers, Store(c)
        PROVE  TypeOK'
    BY <2>5 DEF Store
  <2>6. CASE UNCHANGED vars
    BY <2>6 DEF vars
  <2> QED
    BY <2>1, <2>2, <2>3, <2>4, <2>5, <2>6 DEF Next, Step
<1> QED
  BY <1>1, <1>2, PTL DEF Spec

(* One step of any caller keeps OnceInv.                                   *)
LEMMA OnceStep ==
    ASSUME TypeOK, OnceInv, [Next]_vars
    PROVE  OnceInv'
<1> USE CallersAssumption DEF TypeOK, OnceInv, Inside
<1>1. ASSUME NEW c \in Callers, FastPath(c)
      PROVE  OnceInv'
  BY <1>1 DEF FastPath
<1>2. ASSUME NEW c \in Callers, Lock(c)
      PROVE  OnceInv'
  BY <1>2 DEF Lock
<1>3. ASSUME NEW c \in Callers, CheckAgain(c)
      PROVE  OnceInv'
  BY <1>3 DEF CheckAgain
<1>4. ASSUME NEW c \in Callers, Evaluate(c)
      PROVE  OnceInv'
  BY <1>4 DEF Evaluate
<1>5. ASSUME NEW c \in Callers, Store(c)
      PROVE  OnceInv'
  BY <1>5 DEF Store
<1>6. CASE UNCHANGED vars
  BY <1>6 DEF vars
<1> QED
  BY <1>1, <1>2, <1>3, <1>4, <1>5, <1>6 DEF Next, Step

(* The inductive invariant holds in every state.                           *)
THEOREM OnceInvHolds == Spec => []OnceInv
<1>1. Init => OnceInv
  BY DEF Init, OnceInv, Inside, NoResult
<1>2. TypeOK /\ OnceInv /\ [Next]_vars => OnceInv'
  BY OnceStep
<1> QED
  BY <1>1, <1>2, TypeCorrect, PTL DEF Spec

(* Two calls that succeed return the result of one and the same evaluation *)
(* of the callback, whoever waited for the lock meanwhile.                 *)
THEOREM OneValueHolds == Spec => []OneValue
<1>1. OnceInv => OneValue
  BY DEF OnceInv, OneValue
<1> QED
  BY <1>1, OnceInvHolds, PTL

(* A result that is kept is never replaced: once done is set, no step      *)
(* evaluates the callback again.                                           *)
THEOREM KeptIsFinalHolds == Spec => KeptIsFinal
<1>1. OnceInv /\ [Next]_vars => [done => done' /\ val' = val]_vars
  <2> SUFFICES ASSUME OnceInv, [Next]_vars, done
               PROVE  done' /\ val' = val
    OBVIOUS
  <2>1. ASSUME NEW c \in Callers, FastPath(c) \/ Step(c)
        PROVE  done' /\ val' = val
    BY <2>1 DEF OnceInv, FastPath, Step, Lock, CheckAgain, Evaluate, Store
  <2> QED
    BY <2>1 DEF Next, vars
<1> QED
  BY <1>1, OnceInvHolds, PTL DEF Spec, KeptIsFinal
=============================================================================
