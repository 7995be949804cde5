---------------------------- MODULE SessionBudget ----------------------------
(***************************************************************************)
(* What the semaphore of a session pool promises its users, without        *)
(* queues, channels or contexts: at most Size sessions at a time; once the *)
(* budget closes nobody gets another one; and closing succeeds only when   *)
(* all of them came back.                                                  *)
(***************************************************************************)
EXTENDS Naturals, FiniteSets

CONSTANTS Procs, Size

VARIABLES held,   \* the threads that own a session
          phase   \* "open", "closing" or "drained"

bvars == <<held, phase>>

BInit == held = {} /\ phase = "open"

Grant(p) == /\ phase = "open" /\ p \notin held
            /\ Cardinality(held) < Size
            /\ held' = held \cup {p}
            /\ UNCHANGED phase

Return(p) == /\ p \in held
             /\ held' = held \ {p}
             /\ UNCHANGED phase

(* A session that comes back passes straight to a waiting thread.          *)
HandOver(p, q) == /\ phase = "open"
                  /\ p \in held /\ q \notin held
                  /\ held' = (held \ {p}) \cup {q}
                  /\ UNCHANGED phase

StartClosing == phase = "open" /\ phase' = "closing" /\ UNCHANGED held

Drained == /\ phase = "closing" /\ held = {}
           /\ phase' = "drained"
           /\ UNCHANGED held

BNext == \/ \E p \in Procs : Grant(p) \/ Return(p)
         \/ \E p, q \in Procs : HandOver(p, q)
         \/ StartClosing
         \/ Drained

BSpec == BInit /\ [][BNext]_bvars
=============================================================================
