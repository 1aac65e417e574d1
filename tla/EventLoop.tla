------------------------------ MODULE EventLoop -----------------------------
(***************************************************************************)
(* A loop that takes events from a CircleBuffer, the event queue of        *)
(* src/examples/ex-circle-buffer.cpp, and dispatches them to an Fsm.  The  *)
(* repository has no such loop (ActiveObject is empty): this is the user   *)
(* of both.  Handlers post events to the queue, or dispatch to their own   *)
(* machine, by the style of the program.                                   *)
(***************************************************************************)
EXTENDS CircleBuffer, Fsm

VARIABLE style   \* whether handlers post or dispatch

loopVars == <<vars, fsmVars, style>>

LoopTypeOK == TypeOK /\ FsmTypeOK /\ style \in {"post", "dispatch"}

LoopInit == Init /\ FsmInit /\ style \in {"post", "dispatch"}

\* main calls init before its loop, and perhaps again.
StartMachine == InitCall /\ UNCHANGED <<vars, style>>

TakeEvent ==
    /\ frames = <<>> /\ m_state # NoState
    /\ Get
    /\ Dispatch
    /\ UNCHANGED style

FindNothing == frames = <<>> /\ GetNothing /\ UNCHANGED <<fsmVars, style>>

PostEvent ==
    /\ frames # <<>> => style = "post"
    /\ (\E v \in Values : Post(v)) \/ PostRefused
    /\ UNCHANGED <<fsmVars, style>>

DispatchAgain ==
    /\ frames # <<>> /\ style = "dispatch"
    /\ Dispatch
    /\ UNCHANGED <<vars, style>>

RunHandler == HandlerStep /\ UNCHANGED <<vars, style>>

LoopNext ==
    StartMachine \/ TakeEvent \/ FindNothing \/ PostEvent \/ DispatchAgain \/ RunHandler

LoopSpec == LoopInit /\ [][LoopNext]_loopVars

\* A program whose handlers only post never fails the assert of dispatch, not
\* even with transitions in its entry and exit actions: events run to completion.
PostingNeverAsserts == style = "post" => failed # "dispatch"
=============================================================================
