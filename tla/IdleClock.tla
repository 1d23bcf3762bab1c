------------------------------ MODULE IdleClock ------------------------------
(***************************************************************************)
(* The idle-connection server in seconds.  IdleEcho counts ticks of the    *)
(* timer; here the ticks come from runEvery(TickSeconds, onTimer), and the *)
(* seconds a client has been idle are counted beside them.  All else takes *)
(* no time.                                                                *)
(***************************************************************************)
EXTENDS IdleEcho

CONSTANT TickSeconds    \* the period given to runEvery, in seconds

ASSUME TickSecondsAssumption == TickSeconds \in Nat \ {0}

VARIABLES
  elapsed,   \* seconds since the timer last fired
  idle       \* idle[c]: seconds since the last message of c, up to MaxIdle

clockVars == <<vars, elapsed, idle>>

\* Bound on the idle counter: one second more than any property asks about.
MaxIdle == NBuckets * TickSeconds + 1

ClockInit == Init /\ elapsed = 0 /\ idle = [c \in Conn |-> 0]

\* One more second of silence for every connection that exists.
Older == [c \in Conn |-> IF object[c] # "unborn" /\ idle[c] < MaxIdle
                         THEN idle[c] + 1 ELSE idle[c]]

\* A second in which the timer does not expire.
Second ==
  /\ elapsed + 1 < TickSeconds
  /\ elapsed' = elapsed + 1
  /\ idle' = Older
  /\ UNCHANGED vars

\* The second in which it does: runEvery calls onTimer and re-arms.
RunEvery ==
  /\ elapsed + 1 = TickSeconds
  /\ elapsed' = 0
  /\ idle' = Older
  /\ OnTimer

\* What the server and the clients do between two seconds.
Instant(c) ==
  \/ /\ Accept(c) \/ OnMessage(c)
     /\ idle' = [idle EXCEPT ![c] = 0]
     /\ UNCHANGED elapsed
  \/ /\ OnDown(c) \/ ConnectDestroyed(c) \/ OnWritable(c)
        \/ PeerSend(c) \/ PeerClose(c)
     /\ UNCHANGED <<elapsed, idle>>

ClockNext == Second \/ RunEvery \/ \E c \in Conn : Instant(c)

ClockSpec == ClockInit /\ [][ClockNext]_clockVars

\* Time passes, and the loop polls with a timeout, so its timer always fires.
FairClockSpec == /\ ClockSpec
                 /\ WF_clockVars(Second) /\ WF_clockVars(RunEvery)
-----------------------------------------------------------------------------
\* The server closes a silent connection after more than NBuckets - 1 and at
\* most NBuckets timer periods of real silence.
CloseWindow ==
  [][\A c \in Conn : Connected(c) /\ conn'[c].state = "kDisconnecting"
       => /\ idle'[c] > (NBuckets - 1) * TickSeconds
          /\ idle'[c] <= NBuckets * TickSeconds]_clockVars

\* echo.cc:14 calls the constructor's argument nIdleSeconds: a connection
\* that has been idle for that many seconds is not connected any more.
IdleSecondsRespected == \A c \in Conn : Connected(c) => idle[c] <= NBuckets
=============================================================================
