----------------------------- MODULE TimerStop ------------------------------
(***************************************************************************)
(* TimerManager with a history variable: the timers whose last request was *)
(* a Stop, or a destruction, that has returned.                            *)
(***************************************************************************)
EXTENDS TimerManager

VARIABLE stopped

StopInit == Init /\ stopped = {}

OtherStep ==
    \/ \E t \in Timers :
         \/ \E h \in HandlerChoices : CreateTimer(t, h) \/ AssignCallback(t, h)
    \/ DestroyManager \/ JoinWorker \/ Worker \/ Spurious \/ Tick

StopNext ==
    \/ \E t \in Timers :
         /\ UpdateTimer(t, 0) \/ DestroyTimer(t)
         /\ stopped' = (stopped \cup {t}) \cap ToSet(timers')
    \/ \E t \in Timers, d \in Durations :
         UpdateTimer(t, d) /\ stopped' = stopped \ {t}
    \/ OtherStep /\ stopped' = stopped \cap ToSet(timers')
    \/ Finished /\ UNCHANGED stopped

StopSpec == StopInit /\ [][StopNext]_<<vars, stopped>>

\* timer.h:80: "No time-out callback will occur once this function returns."
\* Nor does one once the destructor returned.
NoCallbackAfterStop == [][BeginCallback => cur \notin stopped]_<<vars, stopped>>
=============================================================================
