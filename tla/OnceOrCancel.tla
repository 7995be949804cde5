---------------------------- MODULE OnceOrCancel -----------------------------
(***************************************************************************)
(* onceOrCancel of kms/pkcs11/pkcs11.go: a callback evaluated on first     *)
(* use, whose result is kept unless the context was canceled.  RSA and EC  *)
(* keys export their public key through it (newRSA, newEC), so callers are *)
(* concurrent operations on one key.                                       *)
(***************************************************************************)
EXTENDS Naturals, FiniteSets

CONSTANTS
    Callers,  \* threads that call the function
    Results,  \* the results the callback may return, in terms of
              \* errors.Is: "value", "canceled", "deadline" or "broken"
    MaxRuns   \* bound: evaluations of the callback in a behaviour

(* "canceled" and "deadline": the caller's context ended (context.Canceled *)
(* and context.DeadlineExceeded), while session.Scope waited for a session *)
(* of a busy pool.  "broken": the token failed.                            *)
AllResults == {"value", "canceled", "deadline", "broken"}
ContextErrors == {"canceled", "deadline"}

Nobody == "nobody"

ASSUME CallersAssumption == Nobody \notin Callers
ASSUME ResultsAssumption == Results \subseteq AllResults
ASSUME MaxRunsAssumption == MaxRuns \in Nat

NoResult == [run |-> 0, kind |-> "none"]

VARIABLES
    done,   \* o.done
    owner,  \* who holds o.mu, or Nobody
    val,    \* o.ret and o.err: the result and the evaluation it is from
    pc,     \* per caller
    got,    \* per caller, what its last call returned
    runs    \* evaluations so far

vars == <<done, owner, val, pc, got, runs>>

Result == {NoResult} \cup [run : 1..MaxRuns, kind : Results]

(* Where a caller is while it holds o.mu.                                  *)
Inside == {"check", "run", "store"}

TypeOK == /\ done \in BOOLEAN
          /\ owner \in {c \in Callers : pc[c] \in Inside} \cup {Nobody}
          /\ val \in Result
          /\ pc \in [Callers -> {"idle", "lock", "check", "run", "store"}]
          /\ got \in [Callers -> Result]
          /\ runs \in 0..MaxRuns

Init == /\ done = FALSE
        /\ owner = Nobody
        /\ val = NoResult
        /\ pc = [c \in Callers |-> "idle"]
        /\ got = [c \in Callers |-> NoResult]
        /\ runs = 0

(* Line 455: the fast path reads done, and then val, without the lock.     *)
FastPath(c) ==
    /\ pc[c] = "idle"
    /\ IF done THEN got' = [got EXCEPT ![c] = val] /\ UNCHANGED pc
               ELSE pc' = [pc EXCEPT ![c] = "lock"] /\ UNCHANGED got
    /\ UNCHANGED <<done, owner, val, runs>>

Lock(c) ==
    /\ pc[c] = "lock" /\ owner = Nobody
    /\ owner' = c
    /\ pc' = [pc EXCEPT ![c] = "check"]
    /\ UNCHANGED <<done, val, got, runs>>

MutantCheckSkipped(c) ==
    /\ pc[c] = "check"
    /\ pc' = [pc EXCEPT ![c] = "run"]
    /\ UNCHANGED <<done, owner, val, got, runs>>

MutantCheckKeepsLock(c) ==
    /\ pc[c] = "check"
    /\ IF done
         THEN /\ got' = [got EXCEPT ![c] = val]
              /\ pc' = [pc EXCEPT ![c] = "idle"]
         ELSE pc' = [pc EXCEPT ![c] = "run"] /\ UNCHANGED got
    /\ UNCHANGED <<done, owner, val, runs>>

(* Lines 460-463: somebody else may have stored a result before we got the *)
(* lock.                                                                   *)
CheckAgain(c) ==
    /\ pc[c] = "check"
    /\ IF done
         THEN /\ got' = [got EXCEPT ![c] = val]
              /\ pc' = [pc EXCEPT ![c] = "idle"]
              /\ owner' = Nobody
         ELSE pc' = [pc EXCEPT ![c] = "run"] /\ UNCHANGED <<got, owner>>
    /\ UNCHANGED <<done, val, runs>>

(* Line 464.                                                               *)
Evaluate(c) ==
    /\ pc[c] = "run" /\ runs < MaxRuns
    /\ runs' = runs + 1
    /\ \E k \in Results : val' = [run |-> runs + 1, kind |-> k]
    /\ pc' = [pc EXCEPT ![c] = "store"]
    /\ UNCHANGED <<done, owner, got>>

(* Lines 466-467: every result is kept but that of a canceled context.     *)
Store(c) ==
    /\ pc[c] = "store"
    /\ done' = (val.kind # "canceled")
    /\ got' = [got EXCEPT ![c] = val]
    /\ owner' = Nobody
    /\ pc' = [pc EXCEPT ![c] = "idle"]
    /\ UNCHANGED <<val, runs>>

Step(c) == Lock(c) \/ CheckAgain(c) \/ Evaluate(c) \/ Store(c)

Next == \E c \in Callers : FastPath(c) \/ Step(c)

(* sync.Mutex hands itself to a waiter that keeps losing (its starvation   *)
(* mode), hence the strong fairness of Lock.                               *)
Fairness == \A c \in Callers : WF_vars(Step(c)) /\ SF_vars(Lock(c))

Spec == Init /\ [][Next]_vars

FairSpec == Spec /\ Fairness

-----------------------------------------------------------------------------
(* A result that is kept is the last one: the callback is not evaluated    *)
(* again, also not by the callers that were queueing for the lock.         *)
KeptIsFinal == [][done => done' /\ val' = val]_vars

(* Two calls that succeed return the result of one and the same            *)
(* evaluation.                                                             *)
OneValue ==
    \A c, d \in Callers :
        got[c].kind = "value" /\ got[d].kind = "value" => got[c] = got[d]

(* The comment on onceOrCancel: it "won't store a value if the context was *)
(* canceled, allowing reattempts".  Not so when the context's deadline     *)
(* expired, which line 466 does not look for (OnceDeadline.cfg).           *)
NoContextErrorKept == done => val.kind \notin ContextErrors

(* A call returns, unless the bound on evaluations stops it.               *)
CallReturns ==
    \A c \in Callers : pc[c] = "lock" ~> (pc[c] = "idle" \/ runs = MaxRuns)
=============================================================================
