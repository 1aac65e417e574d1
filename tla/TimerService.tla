---------------------------- MODULE TimerService ----------------------------
(***************************************************************************)
(* What a TimerManager promises its clients (src/include/timer.h), without *)
(* lists, locks or clocks: a started timer is called at most once per      *)
(* start, one handler runs at a time, a timer that was stopped, destroyed  *)
(* or never started is not called, and the manager goes away only after    *)
(* its last timer.                                                         *)
(***************************************************************************)
CONSTANTS Timers, NoTimer

VARIABLES
    timer,     \* "absent", "stopped" or "running"
    handler,   \* does the timer have a handler to call?
    calling,   \* the timer whose handler is being called
    service    \* "open", "closing" or "closed"

serviceVars == <<timer, handler, calling, service>>

ServiceTypeOK ==
    /\ timer \in [Timers -> {"absent", "stopped", "running"}]
    /\ handler \in [Timers -> BOOLEAN]
    /\ calling \in Timers \cup {NoTimer}
    /\ service \in {"open", "closing", "closed"}

ServiceInit ==
    /\ timer = [t \in Timers |-> "absent"]
    /\ handler = [t \in Timers |-> FALSE]
    /\ calling = NoTimer
    /\ service = "open"

Exists(t) == timer[t] # "absent"

Create(t, h) ==
    /\ service = "open"
    /\ ~ Exists(t)
    /\ timer' = [timer EXCEPT ![t] = "stopped"]
    /\ handler' = [handler EXCEPT ![t] = h]
    /\ UNCHANGED <<calling, service>>

Start(t) ==
    /\ service = "open"
    /\ Exists(t)
    /\ handler[t]
    /\ timer' = [timer EXCEPT ![t] = "running"]
    /\ UNCHANGED <<handler, calling, service>>

Stop(t) ==
    /\ Exists(t)
    /\ timer' = [timer EXCEPT ![t] = "stopped"]
    /\ UNCHANGED <<handler, calling, service>>

Destroy(t) ==
    /\ Exists(t)
    /\ timer' = [timer EXCEPT ![t] = "absent"]
    /\ handler' = [handler EXCEPT ![t] = FALSE]
    /\ UNCHANGED <<calling, service>>

SetHandler(t, h) ==
    /\ Exists(t)
    /\ handler' = [handler EXCEPT ![t] = h]
    /\ UNCHANGED <<timer, calling, service>>

\* A running timer is called and has to be started again.
Call(t) ==
    /\ calling = NoTimer
    /\ timer[t] = "running"
    /\ handler[t]
    /\ calling' = t
    /\ timer' = [timer EXCEPT ![t] = "stopped"]
    /\ UNCHANGED <<handler, service>>

\* Only a timer that lost its handler runs out without a call.
RunOut(t) ==
    /\ calling = NoTimer
    /\ timer[t] = "running"
    /\ ~ handler[t]
    /\ timer' = [timer EXCEPT ![t] = "stopped"]
    /\ UNCHANGED <<handler, calling, service>>

Return ==
    /\ calling # NoTimer
    /\ calling' = NoTimer
    /\ UNCHANGED <<timer, handler, service>>

Close ==
    /\ service = "open"
    /\ service' = "closing"
    /\ UNCHANGED <<timer, handler, calling>>

Closed ==
    /\ service = "closing"
    /\ calling = NoTimer
    /\ \A t \in Timers : ~ Exists(t)
    /\ service' = "closed"
    /\ UNCHANGED <<timer, handler, calling>>

ServiceNext ==
    \/ \E t \in Timers :
         \/ \E h \in BOOLEAN : Create(t, h) \/ SetHandler(t, h)
         \/ Start(t) \/ Stop(t) \/ Destroy(t) \/ Call(t) \/ RunOut(t)
    \/ Return \/ Close \/ Closed

ServiceSpec == ServiceInit /\ [][ServiceNext]_serviceVars
=============================================================================
