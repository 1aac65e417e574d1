-------------------------------- MODULE Fsm ---------------------------------
(***************************************************************************)
(* basic::Fsm (src/include/fsm.h, src/src/fsm.cpp): init and dispatch      *)
(* around handlers that belong to the user.  A handler may take a transi-  *)
(* tion (tran, whose result it returns) and may dispatch to its machine    *)
(* again; `frames' is the stack of the calls of init and dispatch, each    *)
(* with the handler it is in.  Which event is dispatched and why a handler *)
(* takes a transition is left open.  The asserts are compiled in.          *)
(***************************************************************************)
EXTENDS Integers, Sequences, SequencesExt

CONSTANTS
    StateHandlers,  \* the states of the machine
    Initial,        \* the handler the constructor is given
    NoState,        \* nullptr
    MaxDepth        \* bound on the calls that are nested

ASSUME StatesAssumption == Initial \notin StateHandlers /\ NoState \notin StateHandlers \cup {Initial}
ASSUME MaxDepthAssumption == MaxDepth \in Nat \ {0}

VARIABLES
    m_state,  \* m_state
    m_temp,   \* m_temp
    frames,   \* the calls of init and dispatch that have not returned
    failed,   \* the call whose assert failed, or "none"
    entered,  \* the state whose entry action was called last
    strayed   \* a transition in an entry action, or a dispatch from the
              \* entry or exit action of a transition to the same state

fsmVars == <<m_state, m_temp, frames, failed, entered, strayed>>

Phases == {"handler", "exit", "enter"}

FsmTypeOK ==
    /\ m_state \in StateHandlers \cup {NoState}
    /\ m_temp \in StateHandlers \cup {Initial}
    /\ frames \in Seq([call : {"init", "dispatch"}, at : Phases, tran : BOOLEAN,
                       handler : StateHandlers \cup {Initial}])
    /\ Len(frames) <= MaxDepth
    /\ failed \in {"none", "init", "dispatch"}
    /\ entered \in StateHandlers \cup {NoState}
    /\ strayed \in BOOLEAN

FsmInit ==
    /\ m_state = NoState /\ m_temp = Initial
    /\ frames = <<>> /\ failed = "none"
    /\ entered = NoState /\ strayed = FALSE

Top == Last(frames)

\* The call on top goes on to another handler.
GoOn(at, handler) ==
    frames' = Append(Front(frames),
        [call |-> Top.call, at |-> at, tran |-> FALSE, handler |-> handler])

Begin(call, handler) ==
    frames' = Append(frames, [call |-> call, at |-> "handler", tran |-> FALSE, handler |-> handler])

In(at) == failed = "none" /\ frames # <<>> /\ Top.at = at

-----------------------------------------------------------------------------

\* init() up to the initial transition.
InitCall ==
    /\ failed = "none" /\ frames = <<>>
    /\ IF m_state = NoState
       THEN Begin("init", m_temp) /\ UNCHANGED failed
       ELSE failed' = "init" /\ UNCHANGED frames
    /\ UNCHANGED <<m_state, m_temp, entered, strayed>>

\* Fault: dispatch does not test that the machine is between two events.
DispatchUnchecked ==
    /\ failed = "none" /\ Len(frames) < MaxDepth
    /\ m_state # NoState
    /\ Begin("dispatch", m_state)
    /\ strayed' = (strayed \/ (frames # <<>> /\ Top.at # "handler" /\ m_state = m_temp))
    /\ UNCHANGED <<m_state, m_temp, failed, entered>>

\* dispatch() up to the handler of the event, or to its assert.
Dispatch ==
    /\ failed = "none" /\ Len(frames) < MaxDepth
    /\ IF m_state = m_temp
       THEN Begin("dispatch", m_state) /\ UNCHANGED failed
       ELSE failed' = "dispatch" /\ UNCHANGED frames
    /\ strayed' = (strayed \/ (frames # <<>> /\ Top.at # "handler" /\ m_state = m_temp))
    /\ UNCHANGED <<m_state, m_temp, entered>>

\* A handler calls tran.
Tran(target) ==
    /\ failed = "none" /\ frames # <<>> /\ ~ Top.tran
    /\ m_temp' = target
    /\ frames' = [frames EXCEPT ![Len(frames)].tran = TRUE]
    /\ strayed' = (strayed \/ Top.at = "enter")
    /\ UNCHANGED <<m_state, failed, entered>>

\* A handler returns RET_HANDLED, RET_IGNORED or RET_UNHANDLED: init needs a
\* transition.
ReturnHandled ==
    /\ In("handler") /\ ~ Top.tran
    /\ IF Top.call = "dispatch" THEN frames' = Front(frames) /\ UNCHANGED failed
                                ELSE failed' = "init" /\ UNCHANGED frames
    /\ UNCHANGED <<m_state, m_temp, entered, strayed>>

\* Fault: the exit action of the target is called.
ExitTarget ==
    /\ In("handler") /\ Top.tran /\ Top.call = "dispatch"
    /\ GoOn("exit", m_temp)
    /\ UNCHANGED <<m_state, m_temp, failed, entered, strayed>>

\* RET_TRAN: the source is exited; it is the state of now, which a nested
\* dispatch may have changed.
ExitSource ==
    /\ In("handler") /\ Top.tran /\ Top.call = "dispatch"
    /\ GoOn("exit", m_state)
    /\ UNCHANGED <<m_state, m_temp, failed, entered, strayed>>

\* The target is entered, after the exit action or the initial transition.
EnterTarget ==
    /\ In("exit") \/ (In("handler") /\ Top.tran /\ Top.call = "init")
    /\ GoOn("enter", m_temp)
    /\ entered' = m_temp
    /\ UNCHANGED <<m_state, m_temp, failed, strayed>>

\* Fault: the target is recorded as it was before its entry action.
RecordEntered ==
    /\ In("enter")
    /\ m_state' = Top.handler
    /\ frames' = Front(frames)
    /\ UNCHANGED <<m_temp, failed, entered, strayed>>

\* The entry action returns, the new state is recorded.
RecordState ==
    /\ In("enter")
    /\ m_state' = m_temp
    /\ frames' = Front(frames)
    /\ UNCHANGED <<m_temp, failed, entered, strayed>>

HandlerStep ==
    \/ \E target \in StateHandlers : Tran(target)
    \/ ReturnHandled \/ ExitSource \/ EnterTarget \/ RecordState

-----------------------------------------------------------------------------
(* Properties                                                              *)

\* Every exit action belongs to the state that was entered last, also when a
\* handler dispatches to its machine before it takes a transition: exit and
\* entry actions come in pairs.
ExitsMatchEntries ==
    ~ strayed /\ frames # <<>> /\ Top.at = "exit" => Top.handler = entered

\* No event reaches a state that was exited or is not entered yet: the assert
\* of dispatch stops a handler that dispatches after its transition.
EventsReachEnteredState ==
    [][ Len(frames') > Len(frames) /\ Last(frames').call = "dispatch" /\ ~ strayed'
        => Last(frames').handler = entered ]_fsmVars
=============================================================================
