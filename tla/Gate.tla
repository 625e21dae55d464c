-------------------------------- MODULE Gate --------------------------------
(***************************************************************************)
(* What WaitForThreads promises its users (ParallelJIT.cpp): workers stop  *)
(* at the gate until the main thread has asked for their release and all   *)
(* of them are there; then everyone leaves, main included.                 *)
(***************************************************************************)
CONSTANTS Workers, Main

VARIABLES
  excused,                    (* a fault of a pthread call voids the promise *)
  arrived, asked, open, left

gateVars == <<arrived, asked, open, left>>

Init ==
  /\ arrived = {} /\ left = {}
  /\ asked = FALSE /\ open = FALSE

Arrive(w) ==
  /\ w \notin arrived
  /\ arrived' = arrived \cup {w}
  /\ UNCHANGED <<asked, open, left>>

Ask ==
  /\ ~asked
  /\ asked' = TRUE
  /\ UNCHANGED <<arrived, open, left>>

Open ==
  /\ asked /\ ~open /\ arrived = Workers
  /\ open' = TRUE
  /\ UNCHANGED <<arrived, asked, left>>

Leave(t) ==
  /\ open /\ t \notin left
  /\ left' = left \cup {t}
  /\ UNCHANGED <<arrived, asked, open>>

Next ==
  \/ \E w \in Workers : Arrive(w)
  \/ Ask
  \/ Open
  \/ \E t \in Workers \cup {Main} : Leave(t)

SafeSpec == Init /\ [][excused \/ Next]_gateVars

(* Everyone who is at an open gate leaves it, and the gate opens.          *)
Spec == SafeSpec /\ WF_gateVars(~excused /\ Next)
=============================================================================
