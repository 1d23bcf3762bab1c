----------------------------- MODULE IdleTimeout -----------------------------
(***************************************************************************)
(* What the idle-connection server promises, without any wheel: every live *)
(* connection has a countdown of N ticks, restarted by each message; the   *)
(* server starts closing a connection exactly when its countdown runs out. *)
(***************************************************************************)
EXTENDS Naturals

CONSTANTS Conn,   \* the connections
          N       \* ticks of silence after which a connection is closed

Phase == {"absent", "live", "closing", "gone"}

VARIABLES phase,  \* phase[c]: where connection c is in its life
          left    \* left[c]: ticks c may still stay silent; 0 unless live

vars == <<phase, left>>

Init == /\ phase = [c \in Conn |-> "absent"]
        /\ left  = [c \in Conn |-> 0]

\* A client connects.
Arrive(c) == /\ phase[c] = "absent"
             /\ phase' = [phase EXCEPT ![c] = "live"]
             /\ left'  = [left  EXCEPT ![c] = N]

\* A message of a live connection restarts its countdown.
Activity(c) == /\ phase[c] = "live"
               /\ left' = [left EXCEPT ![c] = N]
               /\ UNCHANGED phase

\* The peer closes; this may happen before or after the server starts to.
Leave(c) == /\ phase[c] \in {"live", "closing"}
            /\ phase' = [phase EXCEPT ![c] = "gone"]
            /\ left'  = [left  EXCEPT ![c] = 0]

\* One timer tick: every countdown advances, those at 1 run out.
Tick ==
  /\ phase' = [c \in Conn |-> IF phase[c] = "live" /\ left[c] = 1
                              THEN "closing" ELSE phase[c]]
  /\ left'  = [c \in Conn |-> IF phase[c] = "live" THEN left[c] - 1 ELSE 0]

Next == Tick \/ \E c \in Conn : Arrive(c) \/ Activity(c) \/ Leave(c)

Spec == Init /\ [][Next]_vars /\ WF_vars(Tick)
=============================================================================
