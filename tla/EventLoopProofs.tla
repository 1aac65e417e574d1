-------------------------- MODULE EventLoopProofs ---------------------------
(***************************************************************************)
(* The state machine for every depth of nested dispatches and every set of *)
(* states, and the buffer for every size and every width of its indices.   *)
(***************************************************************************)
EXTENDS EventLoop, SequenceTheorems, TLAPS

-----------------------------------------------------------------------------
(* The stack of calls                                                      *)

\* A call of init or dispatch under way.
Frame == [call : {"init", "dispatch"}, at : Phases, tran : BOOLEAN,
          handler : StateHandlers \cup {Initial}]

\* Taking the call on top away leaves the calls below it.
LEMMA FrontLemma ==
    ASSUME NEW S, NEW s \in Seq(S), s # <<>>
    PROVE  /\ Len(s) \in Nat \ {0}
           /\ Front(s) \in Seq(S)
           /\ Len(Front(s)) = Len(s) - 1
           /\ \A i \in 1..Len(s) - 1 : Front(s)[i] = s[i]
<1> DEFINE n == Len(s) - 1
<1>1. Len(s) \in Nat \ {0}
  OBVIOUS
<1>2. 1 \in Int /\ n \in Int /\ \A i \in 1..n : s[i] \in S
  BY <1>1
<1> HIDE DEF n
<1>3. /\ SubSeq(s, 1, n) \in Seq(S)
      /\ Len(SubSeq(s, 1, n)) = IF 1 <= n THEN n - 1 + 1 ELSE 0
      /\ \A i \in 1..n - 1 + 1 : SubSeq(s, 1, n)[i] = s[1 + i - 1]
  BY <1>2, SubSeqProperties
<1>4. n \in Nat
  BY <1>1 DEF n
<1>5. Len(SubSeq(s, 1, n)) = n /\ \A i \in 1..n : SubSeq(s, 1, n)[i] = s[i]
  BY <1>3, <1>4
<1> QED
  BY <1>1, <1>3, <1>5 DEF Front, n

\* GoOn replaces the call on top.
LEMMA ReplaceTop ==
    ASSUME NEW S, NEW s \in Seq(S), s # <<>>, NEW e \in S
    PROVE  /\ Append(Front(s), e) \in Seq(S)
           /\ Append(Front(s), e) # <<>>
           /\ Len(Append(Front(s), e)) = Len(s)
           /\ Last(Append(Front(s), e)) = e
           /\ \A i \in 1..Len(s) - 1 : Append(Front(s), e)[i] = s[i]
<1> DEFINE f == Front(s)
<1>1. /\ Len(s) \in Nat \ {0} /\ f \in Seq(S) /\ Len(f) = Len(s) - 1
      /\ \A i \in 1..Len(s) - 1 : f[i] = s[i]
  BY FrontLemma
<1> HIDE DEF f
<1>2. /\ Append(f, e) \in Seq(S) /\ Append(f, e) # <<>> /\ Len(Append(f, e)) = Len(f) + 1
      /\ \A i \in 1..Len(f) : Append(f, e)[i] = f[i]
      /\ Append(f, e)[Len(f) + 1] = e
  BY <1>1, AppendProperties
<1>3. /\ Append(f, e) \in Seq(S) /\ Append(f, e) # <<>> /\ Len(Append(f, e)) = Len(s)
      /\ Last(Append(f, e)) = e
      /\ \A i \in 1..Len(s) - 1 : Append(f, e)[i] = s[i]
  BY <1>1, <1>2 DEF Last
<1> QED
  BY <1>3 DEF f

\* What a step does to the stack of calls, apart from the call on top: nothing.
OnlyTop(n) ==
    /\ frames' \in Seq(Frame) /\ Len(frames') = n
    /\ \A i \in 1..n - 1 : i \in 1..Len(frames) /\ frames'[i] = frames[i]

\* The stack's share of FsmTypeOK.
StackType == frames \in Seq(Frame) /\ Len(frames) \in Nat /\ Len(frames) <= MaxDepth

\* The stack as a function on 1..Len.
LEMMA StackLemma ==
    ASSUME StackType
    PROVE  /\ \A i \in 1..Len(frames) : frames[i] \in Frame
           /\ frames = <<>> <=> Len(frames) = 0
           /\ frames # <<>> => Len(frames) \in 1..Len(frames) /\ Top = frames[Len(frames)]
BY DEF StackType, Top, Last

\* A call begins.
LEMMA BeginLemma ==
    ASSUME StackType, NEW call \in {"init", "dispatch"}, NEW handler \in StateHandlers \cup {Initial},
           Begin(call, handler)
    PROVE  /\ OnlyTop(Len(frames) + 1) /\ frames' # <<>>
           /\ Top' = [call |-> call, at |-> "handler", tran |-> FALSE, handler |-> handler]
<1> DEFINE f == [call |-> call, at |-> "handler", tran |-> FALSE, handler |-> handler]
<1>1. f \in Frame
  BY DEF Frame, Phases
<1>2. frames' = Append(frames, f)
  BY DEF Begin
<1> HIDE DEF f
<1>3. OnlyTop(Len(frames) + 1) /\ frames' # <<>> /\ Top' = f
  BY <1>1, <1>2, AppendProperties DEF StackType, OnlyTop, Top, Last
<1> QED
  BY <1>3 DEF f

\* The call on top goes on.
LEMMA GoOnLemma ==
    ASSUME StackType, frames # <<>>, NEW at \in Phases, NEW handler \in StateHandlers \cup {Initial},
           GoOn(at, handler)
    PROVE  /\ OnlyTop(Len(frames)) /\ frames' # <<>>
           /\ Top' = [call |-> Top.call, at |-> at, tran |-> FALSE, handler |-> handler]
<1> DEFINE f == [call |-> Top.call, at |-> at, tran |-> FALSE, handler |-> handler]
<1>1. f \in Frame
  BY StackLemma DEF Frame
<1>2. frames' = Append(Front(frames), f)
  BY DEF GoOn
<1> HIDE DEF f
<1>3. /\ frames' \in Seq(Frame) /\ frames' # <<>> /\ Len(frames') = Len(frames)
      /\ Last(frames') = f
      /\ \A i \in 1..Len(frames) - 1 : frames'[i] = frames[i]
  BY <1>1, <1>2, ReplaceTop DEF StackType
<1>4. OnlyTop(Len(frames)) /\ frames' # <<>> /\ Top' = f
  BY <1>3 DEF StackType, OnlyTop, Top
<1> QED
  BY <1>4 DEF f

\* The call on top takes a transition.
LEMMA TranLemma ==
    ASSUME StackType, NEW target, Tran(target)
    PROVE  /\ OnlyTop(Len(frames)) /\ frames' # <<>>
           /\ Top' = [Top EXCEPT !.tran = TRUE]
<1>1. frames # <<>> /\ frames' = [frames EXCEPT ![Len(frames)] = [Top EXCEPT !.tran = TRUE]]
  BY DEF Tran, Top, Last
<1>2. Top \in Frame
  BY <1>1, StackLemma
<1> DEFINE f == [Top EXCEPT !.tran = TRUE]
<1>3. f \in Frame
  BY <1>2 DEF Frame
<1> HIDE DEF f
<1>4. frames' = [frames EXCEPT ![Len(frames)] = f]
  BY <1>1 DEF f
<1>5. frames \in Seq(Frame) /\ Len(frames) \in Nat \ {0}
  BY <1>1 DEF StackType
<1>6. frames' \in Seq(Frame) /\ Len(frames') = Len(frames)
  BY <1>3, <1>4, <1>5
<1>7. \A i \in 1..Len(frames) : frames'[i] = IF i = Len(frames) THEN f ELSE frames[i]
  BY <1>4, <1>5
<1>8. OnlyTop(Len(frames)) /\ frames' # <<>> /\ Top' = f
  BY <1>5, <1>6, <1>7 DEF OnlyTop, Top, Last
<1> QED
  BY <1>8 DEF f

\* The call on top returns.
LEMMA ReturnLemma ==
    ASSUME StackType, frames # <<>>, frames' = Front(frames)
    PROVE  /\ OnlyTop(Len(frames) - 1)
           /\ frames' # <<>> => Len(frames) - 1 \in 1..Len(frames) - 1
                               /\ Top' = frames[Len(frames) - 1]
<1>1. /\ frames' \in Seq(Frame) /\ Len(frames') = Len(frames) - 1
      /\ \A i \in 1..Len(frames) - 1 : frames'[i] = frames[i]
  BY FrontLemma DEF StackType
<1>2. OnlyTop(Len(frames) - 1)
  BY <1>1 DEF StackType, OnlyTop
<1>3. ASSUME frames' # <<>>
      PROVE  Len(frames) - 1 \in 1..Len(frames) - 1 /\ Top' = frames[Len(frames) - 1]
  <2>1. Len(frames') \in Nat \ {0}
    BY <1>1, <1>3
  <2> QED
    BY <1>1, <2>1 DEF StackType, Top, Last
<1> QED
  BY <1>2, <1>3

\* The types, and what a call that is on its way to a state knows: there has
\* been a transition, and a dispatch begins after the initial one.
FsmInv ==
    /\ FsmTypeOK
    /\ \A i \in 1..Len(frames) :
         /\ frames[i].tran \/ frames[i].at # "handler" => m_temp # Initial
         /\ frames[i].call = "dispatch" => m_state # NoState

\* Between two handlers, in a handler and in an exit action the state entered
\* last is m_state; in an entry action it is m_temp.  Only a handler has other
\* calls on top of its own.
StackInv ==
    ~ strayed =>
        /\ \A i \in 1..Len(frames) - 1 : frames[i].at = "handler"
        /\ frames = <<>> \/ Top.at # "enter" => entered = m_state
        /\ frames # <<>> /\ Top.at = "exit" => Top.handler = m_state
        /\ frames # <<>> /\ Top.at = "enter" => entered = m_temp

\* The types of the machine, one by one.
LEMMA FsmVarsType ==
    ASSUME FsmTypeOK
    PROVE  /\ StackType
           /\ m_state \in StateHandlers \cup {NoState} /\ m_temp \in StateHandlers \cup {Initial}
           /\ entered \in StateHandlers \cup {NoState} /\ strayed \in BOOLEAN
           /\ failed \in {"none", "init", "dispatch"}
BY DEF FsmTypeOK, Frame, StackType

\* FsmInv holds after a step that changes the call on top alone.
LEMMA FsmInvLemma ==
    ASSUME FsmInv, NEW n \in 0..MaxDepth, OnlyTop(n),
           m_state' \in StateHandlers \cup {m_state}, m_temp' \in StateHandlers \cup {m_temp},
           entered' \in StateHandlers \cup {entered}, strayed' \in BOOLEAN,
           failed' \in {"none", "init", "dispatch"},
           frames' # <<>> => /\ Top'.tran \/ Top'.at # "handler" => m_temp' # Initial
                             /\ Top'.call = "dispatch" => m_state' # NoState
    PROVE  FsmInv'
<1>1. FsmTypeOK'
  BY FsmVarsType, MaxDepthAssumption DEF FsmInv, FsmTypeOK, Frame, OnlyTop
<1>2. m_temp # Initial => m_temp' # Initial
  BY StatesAssumption
<1>3. m_state # NoState => m_state' # NoState
  BY StatesAssumption
<1>4. ASSUME NEW i \in 1..n
      PROVE  /\ frames'[i].tran \/ frames'[i].at # "handler" => m_temp' # Initial
             /\ frames'[i].call = "dispatch" => m_state' # NoState
  <2>1. CASE i = n
    <3>1. frames' # <<>> /\ Top' = frames'[i]
      BY <2>1, MaxDepthAssumption DEF OnlyTop, Top, Last
    <3> QED BY <3>1
  <2>2. CASE i # n
    <3>1. i \in 1..Len(frames) /\ frames'[i] = frames[i]
      BY <2>2, MaxDepthAssumption DEF OnlyTop
    <3> QED BY <1>2, <1>3, <3>1 DEF FsmInv
  <2> QED BY <2>1, <2>2
<1> QED
  BY <1>1, <1>4 DEF FsmInv, OnlyTop

\* A call of init begins the stack.
LEMMA InitCallLemma ==
    ASSUME FsmInv, StackInv, InitCall
    PROVE  FsmInv' /\ StackInv'
<1>1. StackType /\ frames = <<>> /\ Len(frames) = 0
      /\ m_temp \in StateHandlers \cup {Initial} /\ strayed \in BOOLEAN
  BY FsmVarsType DEF InitCall, FsmInv
<1>2. CASE m_state = NoState
  <2>1. /\ OnlyTop(1) /\ frames' # <<>>
        /\ Top' = [call |-> "init", at |-> "handler", tran |-> FALSE, handler |-> m_temp]
    BY <1>1, <1>2, BeginLemma DEF InitCall
  <2>2. FsmInv'
    BY <1>1, <1>2, <2>1, FsmInvLemma, FsmVarsType, MaxDepthAssumption DEF InitCall, FsmInv
  <2>3. StackInv'
    BY <1>1, <1>2, <2>1 DEF InitCall, StackInv, OnlyTop
  <2> QED BY <2>2, <2>3
<1>3. CASE m_state # NoState
  BY <1>1, <1>3 DEF InitCall, FsmInv, FsmTypeOK, StackInv, Top
<1> QED BY <1>2, <1>3

\* A dispatch begins where m_temp is the state: in a handler, or it strays.
LEMMA DispatchLemma ==
    ASSUME FsmInv, StackInv, Dispatch
    PROVE  FsmInv' /\ StackInv'
<1>1. /\ StackType /\ Len(frames) \in Nat
      /\ m_state \in StateHandlers \cup {NoState} /\ m_temp \in StateHandlers \cup {Initial}
      /\ strayed' \in BOOLEAN /\ strayed' = (strayed \/ (frames # <<>> /\ Top.at # "handler" /\ m_state = m_temp))
      /\ UNCHANGED <<m_state, m_temp, entered>> /\ Len(frames) < MaxDepth
  BY FsmVarsType DEF Dispatch, FsmInv, StackType
<1>2. CASE m_state = m_temp
  <2>1. m_state \in StateHandlers /\ m_state # NoState
    BY <1>1, <1>2, StatesAssumption
  <2>2. /\ OnlyTop(Len(frames) + 1) /\ frames' # <<>>
        /\ Top' = [call |-> "dispatch", at |-> "handler", tran |-> FALSE, handler |-> m_state]
    BY <1>1, <1>2, <2>1, BeginLemma DEF Dispatch
  <2>3. FsmInv'
    <3>1. Len(frames) + 1 \in 0..MaxDepth
      BY <1>1, MaxDepthAssumption
    <3> QED
      BY <1>1, <1>2, <2>1, <2>2, <3>1, FsmInvLemma, FsmVarsType DEF Dispatch, FsmInv
  <2>4. StackInv'
    <3> SUFFICES ASSUME ~ strayed' PROVE StackInv'
      BY DEF StackInv
    <3>1. ~ strayed /\ (frames = <<>> \/ Top.at = "handler")
      BY <1>1, <1>2
    <3>2. entered' = m_state'
      BY <1>1, <3>1 DEF StackInv
    <3>3. \A i \in 1..Len(frames) : frames[i].at = "handler"
      BY <1>1, <3>1, StackLemma DEF StackInv
    <3>4. \A i \in 1..Len(frames') - 1 : frames'[i].at = "handler"
      BY <1>1, <2>2, <3>3 DEF OnlyTop
    <3> QED
      BY <2>2, <3>2, <3>4 DEF StackInv
  <2> QED BY <2>3, <2>4
<1>3. CASE m_state # m_temp
  <2>1. frames' = frames /\ failed' = "dispatch"
    BY <1>3 DEF Dispatch
  <2>2. strayed' = strayed
    BY <1>1, <1>3, FsmVarsType DEF FsmInv
  <2> QED
    BY <1>1, <2>1, <2>2 DEF FsmInv, FsmTypeOK, StackInv, Top
<1> QED BY <1>2, <1>3

\* tran in an entry action strays; elsewhere it changes m_temp alone.
LEMMA TranKeeps ==
    ASSUME FsmInv, StackInv, NEW target \in StateHandlers, Tran(target)
    PROVE  FsmInv' /\ StackInv'
<1>1. /\ StackType /\ frames # <<>> /\ Len(frames) \in Nat /\ Len(frames) <= MaxDepth
      /\ strayed' \in BOOLEAN /\ strayed' = (strayed \/ Top.at = "enter")
      /\ m_temp' = target /\ UNCHANGED <<m_state, failed, entered>>
  BY FsmVarsType DEF Tran, FsmInv, StackType
<1>2. /\ OnlyTop(Len(frames)) /\ frames' # <<>> /\ Top' = [Top EXCEPT !.tran = TRUE]
  BY <1>1, TranLemma
<1>3. /\ Top \in Frame /\ Len(frames) \in 1..Len(frames) /\ Top = frames[Len(frames)]
  BY <1>1, StackLemma
<1>4. /\ Top'.call = Top.call /\ Top'.at = Top.at /\ Top'.handler = Top.handler
  BY <1>2, <1>3 DEF Frame
<1>5. FsmInv'
  <2>1. Len(frames) \in 0..MaxDepth /\ failed' \in {"none", "init", "dispatch"}
    BY <1>1, MaxDepthAssumption, FsmVarsType DEF FsmInv
  <2>2. m_temp' # Initial /\ (Top'.call = "dispatch" => m_state' # NoState)
    BY <1>1, <1>3, <1>4, StatesAssumption DEF FsmInv
  <2> QED
    BY <1>1, <1>2, <2>1, <2>2, FsmInvLemma
<1>6. StackInv'
  <2> SUFFICES ASSUME ~ strayed' PROVE StackInv'
    BY DEF StackInv
  <2>1. ~ strayed /\ Top.at # "enter"
    BY <1>1
  <2>2. \A i \in 1..Len(frames') - 1 : frames'[i].at = "handler"
    BY <1>1, <1>2, <2>1 DEF OnlyTop, StackInv
  <2> QED
    BY <1>1, <1>2, <1>4, <2>1, <2>2 DEF StackInv
<1> QED BY <1>5, <1>6

\* A handler that returns without a transition leaves the state entered.
LEMMA ReturnKeeps ==
    ASSUME FsmInv, StackInv, ReturnHandled
    PROVE  FsmInv' /\ StackInv'
<1>1. /\ StackType /\ frames # <<>> /\ Len(frames) \in Nat /\ Len(frames) <= MaxDepth
      /\ Top.at = "handler" /\ failed = "none"
      /\ UNCHANGED <<m_state, m_temp, entered, strayed>> /\ strayed \in BOOLEAN
  BY FsmVarsType DEF ReturnHandled, In, FsmInv, StackType
<1>2. CASE Top.call = "dispatch"
  <2>1. /\ OnlyTop(Len(frames) - 1)
        /\ frames' # <<>> => Len(frames) - 1 \in 1..Len(frames) - 1
                            /\ Top' = frames[Len(frames) - 1]
    BY <1>1, <1>2, ReturnLemma DEF ReturnHandled
  <2>2. Len(frames) - 1 \in 0..MaxDepth
    BY <1>1, StackLemma, MaxDepthAssumption
  <2>3. FsmInv'
    <3>1. frames' # <<>> => /\ Top'.tran \/ Top'.at # "handler" => m_temp' # Initial
                            /\ Top'.call = "dispatch" => m_state' # NoState
      BY <1>1, <2>1 DEF FsmInv
    <3>2. failed' = "none"
      BY <1>1, <1>2 DEF ReturnHandled
    <3> QED
      BY <1>1, <2>1, <2>2, <3>1, <3>2, FsmInvLemma
  <2>4. StackInv'
    BY <1>1, <2>1, <2>2 DEF StackInv, OnlyTop
  <2> QED BY <2>3, <2>4
<1>3. CASE Top.call # "dispatch"
  BY <1>1, <1>3 DEF ReturnHandled, FsmInv, FsmTypeOK, StackInv, Top
<1> QED BY <1>2, <1>3

\* The state that is exited is the one entered last.
LEMMA ExitKeeps ==
    ASSUME FsmInv, StackInv, ExitSource
    PROVE  FsmInv' /\ StackInv'
<1>1. /\ StackType /\ frames # <<>> /\ Len(frames) \in Nat /\ Len(frames) <= MaxDepth
      /\ Top.at = "handler" /\ Top.tran /\ Top.call = "dispatch" /\ strayed \in BOOLEAN
      /\ UNCHANGED <<m_state, m_temp, entered, strayed, failed>>
  BY FsmVarsType DEF ExitSource, In, FsmInv, StackType
<1>2. Len(frames) \in 1..Len(frames) /\ Top = frames[Len(frames)]
  BY <1>1, StackLemma
<1>3. m_state \in StateHandlers /\ m_state # NoState /\ m_temp # Initial
  BY <1>1, <1>2, FsmVarsType DEF FsmInv
<1>4. /\ OnlyTop(Len(frames)) /\ frames' # <<>>
      /\ Top' = [call |-> Top.call, at |-> "exit", tran |-> FALSE, handler |-> m_state]
  BY <1>1, <1>3, GoOnLemma DEF ExitSource, Phases
<1>5. FsmInv'
  <2>1. Len(frames) \in 0..MaxDepth /\ failed' \in {"none", "init", "dispatch"}
    BY <1>1, MaxDepthAssumption, FsmVarsType DEF FsmInv
  <2> QED
    BY <1>1, <1>3, <1>4, <2>1, FsmInvLemma
<1>6. StackInv'
  BY <1>1, <1>4 DEF StackInv, OnlyTop
<1> QED BY <1>5, <1>6

\* The target is entered and is m_temp.
LEMMA EnterKeeps ==
    ASSUME FsmInv, StackInv, EnterTarget
    PROVE  FsmInv' /\ StackInv'
<1>1. /\ StackType /\ frames # <<>> /\ Len(frames) \in Nat /\ Len(frames) <= MaxDepth
      /\ Top.at = "exit" \/ (Top.at = "handler" /\ Top.tran)
      /\ strayed \in BOOLEAN /\ entered' = m_temp
      /\ UNCHANGED <<m_state, m_temp, strayed, failed>>
  BY FsmVarsType DEF EnterTarget, In, FsmInv, StackType
<1>2. Len(frames) \in 1..Len(frames) /\ Top = frames[Len(frames)]
  BY <1>1, StackLemma
<1>3. m_temp \in StateHandlers /\ m_temp # Initial /\ (Top.call = "dispatch" => m_state # NoState)
  BY <1>1, <1>2, FsmVarsType DEF FsmInv
<1>4. /\ OnlyTop(Len(frames)) /\ frames' # <<>>
      /\ Top' = [call |-> Top.call, at |-> "enter", tran |-> FALSE, handler |-> m_temp]
  BY <1>1, <1>3, GoOnLemma DEF EnterTarget, Phases
<1>5. FsmInv'
  <2>1. Len(frames) \in 0..MaxDepth /\ failed' \in {"none", "init", "dispatch"}
    BY <1>1, MaxDepthAssumption, FsmVarsType DEF FsmInv
  <2> QED
    BY <1>1, <1>3, <1>4, <2>1, FsmInvLemma
<1>6. StackInv'
  BY <1>1, <1>4 DEF StackInv, OnlyTop
<1> QED BY <1>5, <1>6

\* The target becomes the state.
LEMMA RecordKeeps ==
    ASSUME FsmInv, StackInv, RecordState
    PROVE  FsmInv' /\ StackInv'
<1>1. /\ StackType /\ frames # <<>> /\ Len(frames) \in Nat /\ Len(frames) <= MaxDepth
      /\ Top.at = "enter" /\ frames' = Front(frames) /\ m_state' = m_temp
      /\ strayed \in BOOLEAN /\ UNCHANGED <<m_temp, entered, strayed, failed>>
  BY FsmVarsType DEF RecordState, In, FsmInv, StackType
<1>2. Len(frames) \in 1..Len(frames) /\ Top = frames[Len(frames)]
  BY <1>1, StackLemma
<1>3. m_temp \in StateHandlers /\ m_temp # Initial /\ m_temp # NoState
  BY <1>1, <1>2, FsmVarsType, StatesAssumption DEF FsmInv
<1>4. /\ OnlyTop(Len(frames) - 1)
      /\ frames' # <<>> => Len(frames) - 1 \in 1..Len(frames) - 1
                          /\ Top' = frames[Len(frames) - 1]
  BY <1>1, ReturnLemma
<1>5. Len(frames) - 1 \in 0..MaxDepth /\ failed' \in {"none", "init", "dispatch"}
  BY <1>1, <1>2, MaxDepthAssumption, FsmVarsType DEF FsmInv
<1>6. FsmInv'
  BY <1>1, <1>3, <1>4, <1>5, FsmInvLemma
<1>7. StackInv'
  BY <1>1, <1>4, <1>5 DEF StackInv, OnlyTop
<1> QED BY <1>6, <1>7

\* Whatever the program does next, the stack stays in order.
LEMMA FsmKeeps ==
    ASSUME FsmInv, StackInv, InitCall \/ Dispatch \/ HandlerStep \/ UNCHANGED fsmVars
    PROVE  FsmInv' /\ StackInv'
<1>1. CASE UNCHANGED fsmVars
  BY <1>1 DEF fsmVars, FsmInv, FsmTypeOK, StackInv, Top
<1> QED
  BY <1>1, InitCallLemma, DispatchLemma, TranKeeps, ReturnKeeps, ExitKeeps, EnterKeeps, RecordKeeps
     DEF HandlerStep

-----------------------------------------------------------------------------
(* The machine in its loop                                                 *)

\* Every step of the loop is one of the machine or leaves the machine alone.
LEMMA LoopStepsFsm ==
    ASSUME [LoopNext]_loopVars
    PROVE  InitCall \/ Dispatch \/ HandlerStep \/ UNCHANGED fsmVars
BY DEF LoopNext, loopVars, StartMachine, TakeEvent, FindNothing, PostEvent, DispatchAgain, RunHandler

\* At first nothing is called and no state is entered.
LEMMA LoopInitInv == LoopInit => FsmInv /\ StackInv
<1> SUFFICES ASSUME LoopInit PROVE FsmInv /\ StackInv
  OBVIOUS
<1>1. /\ m_state = NoState /\ m_temp = Initial /\ frames = <<>> /\ failed = "none"
      /\ entered = NoState /\ strayed = FALSE /\ Len(frames) = 0
  BY DEF LoopInit, FsmInit
<1>2. FsmTypeOK
  <2>1. frames \in Seq(Frame) /\ Len(frames) <= MaxDepth
    BY <1>1, MaxDepthAssumption
  <2> QED
    BY <1>1, <2>1 DEF FsmTypeOK, Frame
<1> QED
  BY <1>1, <1>2 DEF FsmInv, StackInv

\* The stack stays in order in every program.
LEMMA LoopKeepsStack == FsmInv /\ StackInv /\ [LoopNext]_loopVars => FsmInv' /\ StackInv'
BY LoopStepsFsm, FsmKeeps

\* Exit and entry actions come in pairs, at any depth of nested dispatches: the
\* state that is exited is the one that was entered last.
THEOREM ExitsPairWithEntries == LoopSpec => []ExitsMatchEntries
<1>1. StackInv => ExitsMatchEntries
  BY DEF StackInv, ExitsMatchEntries
<1> QED
  BY <1>1, LoopInitInv, LoopKeepsStack, PTL DEF LoopSpec

\* At any depth an event reaches only the state that is entered.
THEOREM EventsMeetTheirState == LoopSpec => EventsReachEnteredState
<1>1. FsmInv /\ StackInv /\ [LoopNext]_loopVars =>
        [ Len(frames') > Len(frames) /\ Last(frames').call = "dispatch" /\ ~ strayed'
            => Last(frames').handler = entered ]_fsmVars
  <2> SUFFICES ASSUME FsmInv, StackInv, [LoopNext]_loopVars, Len(frames') > Len(frames),
                      Last(frames').call = "dispatch", ~ strayed'
               PROVE  Last(frames').handler = entered
    OBVIOUS
  <2>1. StackType /\ Len(frames) \in Nat
        /\ m_state \in StateHandlers \cup {NoState} /\ m_temp \in StateHandlers \cup {Initial}
    BY FsmVarsType DEF FsmInv, StackType
  <2>2. CASE Dispatch
    <3>1. m_state = m_temp /\ Begin("dispatch", m_state)
      BY <2>1, <2>2 DEF Dispatch
    <3>2. m_state \in StateHandlers
      BY <2>1, <3>1, StatesAssumption
    <3>3. Top' = [call |-> "dispatch", at |-> "handler", tran |-> FALSE, handler |-> m_state]
      BY <2>1, <3>1, <3>2, BeginLemma
    <3>4. ~ strayed /\ (frames = <<>> \/ Top.at = "handler")
      BY <2>2, <3>1 DEF Dispatch
    <3> QED
      BY <3>3, <3>4 DEF StackInv, Top
  <2>3. CASE InitCall
    <3>1. m_state = NoState /\ Begin("init", m_temp)
      BY <2>1, <2>3 DEF InitCall
    <3>2. Top'.call = "init"
      BY <2>1, <3>1, BeginLemma
    <3> QED
      BY <3>2 DEF Top
  <2>4. ASSUME NEW target \in StateHandlers, Tran(target)
        PROVE  FALSE
    BY <2>1, <2>4, TranLemma DEF OnlyTop
  <2>5. CASE ReturnHandled \/ RecordState
    <3>1. frames # <<>> /\ (frames' = Front(frames) \/ frames' = frames)
      BY <2>5 DEF ReturnHandled, RecordState, In
    <3> QED
      BY <2>1, <3>1, ReturnLemma DEF OnlyTop
  <2>6. CASE ExitSource \/ EnterTarget
    <3>1. frames # <<>> /\ Len(frames) \in 1..Len(frames) /\ Top = frames[Len(frames)]
      BY <2>1, <2>6, StackLemma DEF ExitSource, EnterTarget, In
    <3>2. \/ ExitSource /\ m_state \in StateHandlers /\ GoOn("exit", m_state)
          \/ EnterTarget /\ m_temp \in StateHandlers \cup {Initial} /\ GoOn("enter", m_temp)
      BY <2>1, <2>6, <3>1 DEF ExitSource, EnterTarget, In, FsmInv
    <3>3. Len(frames') = Len(frames)
      BY <2>1, <3>1, <3>2, GoOnLemma DEF OnlyTop, Phases
    <3> QED
      BY <2>1, <3>3
  <2>7. CASE UNCHANGED fsmVars
    BY <2>1, <2>7 DEF fsmVars
  <2> QED
    BY <2>2, <2>3, <2>4, <2>5, <2>6, <2>7, LoopStepsFsm DEF HandlerStep
<1> QED
  BY <1>1, LoopInitInv, LoopKeepsStack, PTL DEF LoopSpec, EventsReachEnteredState

\* A program whose handlers only post is in one call at a time; between two
\* calls, and until a handler takes a transition, m_temp is the state.
PostInv ==
    style = "post" =>
        /\ Len(frames) <= 1
        /\ failed # "dispatch"
        /\ frames = <<>> => m_state \in {NoState, m_temp}
        /\ frames # <<>> /\ Top.at = "handler" /\ Top.call = "dispatch" /\ ~ Top.tran =>
             m_state = m_temp

\* A program that only posts dispatches from its loop alone.
LEMMA PostKeeps == FsmInv /\ StackInv /\ PostInv /\ [LoopNext]_loopVars => PostInv'
<1> SUFFICES ASSUME FsmInv, StackInv, PostInv, [LoopNext]_loopVars, style' = "post"
             PROVE  PostInv'
  BY DEF PostInv
<1>1. /\ StackType /\ Len(frames) \in Nat /\ style = "post"
      /\ m_state \in StateHandlers \cup {NoState} /\ m_temp \in StateHandlers \cup {Initial}
      /\ frames # <<>> => Len(frames) \in 1..Len(frames) /\ Top \in Frame
      /\ frames = <<>> => Len(frames) = 0
  BY FsmVarsType, StackLemma DEF FsmInv, StackType, LoopNext, loopVars, StartMachine, TakeEvent,
     FindNothing, PostEvent, DispatchAgain, RunHandler
<1>2. CASE StartMachine
  <2>1. frames = <<>> /\ InitCall /\ m_temp' = m_temp /\ m_state' = m_state
    BY <1>2 DEF StartMachine, InitCall
  <2>2. CASE m_state = NoState
    <3>1. OnlyTop(1) /\ frames' # <<>> /\ Top'.call = "init" /\ failed' = failed
      BY <1>1, <2>1, <2>2, BeginLemma DEF InitCall
    <3> QED BY <1>1, <3>1 DEF PostInv, OnlyTop
  <2>3. CASE m_state # NoState
    BY <1>1, <2>1, <2>3 DEF InitCall, PostInv, Top
  <2> QED BY <2>2, <2>3
<1>3. CASE TakeEvent
  <2>1. /\ frames = <<>> /\ m_state # NoState /\ Dispatch
        /\ m_state' = m_state /\ m_temp' = m_temp
    BY <1>3 DEF TakeEvent, Dispatch
  <2>2. m_state = m_temp /\ m_state \in StateHandlers
    BY <1>1, <2>1 DEF PostInv
  <2>3. OnlyTop(1) /\ frames' # <<>> /\ failed' = failed
    BY <1>1, <2>1, <2>2, BeginLemma DEF Dispatch
  <2> QED BY <1>1, <2>1, <2>2, <2>3 DEF PostInv, OnlyTop
<1>4. CASE FindNothing \/ PostEvent \/ UNCHANGED loopVars
  <2>1. frames' = frames /\ failed' = failed /\ m_state' = m_state /\ m_temp' = m_temp
    BY <1>4 DEF FindNothing, PostEvent, loopVars, fsmVars
  <2> QED BY <1>1, <2>1 DEF PostInv, Top
<1>5. CASE DispatchAgain
  BY <1>1, <1>5 DEF DispatchAgain
<1>6. ASSUME NEW target \in StateHandlers, Tran(target)
      PROVE  PostInv'
  <2>1. frames # <<>> /\ failed' = failed
    BY <1>6 DEF Tran
  <2>2. OnlyTop(Len(frames)) /\ frames' # <<>> /\ Top'.tran
    BY <1>1, <1>6, <2>1, TranLemma DEF Frame
  <2> QED BY <1>1, <2>1, <2>2 DEF PostInv, OnlyTop
<1>7. CASE ReturnHandled
  <2>1. /\ frames # <<>> /\ Top.at = "handler" /\ ~ Top.tran /\ failed' # "dispatch"
        /\ m_state' = m_state /\ m_temp' = m_temp
        /\ \/ frames' = frames
           \/ Top.call = "dispatch" /\ frames' = Front(frames)
    BY <1>7 DEF ReturnHandled, In
  <2>2. CASE frames' = frames
    BY <1>1, <2>1, <2>2 DEF PostInv, Top
  <2>3. CASE Top.call = "dispatch" /\ frames' = Front(frames)
    <3>1. Len(frames') = 0 /\ frames' \in Seq(Frame)
      BY <1>1, <2>1, <2>3, ReturnLemma DEF OnlyTop, PostInv
    <3>2. frames' = <<>>
      BY <3>1
    <3> QED BY <1>1, <2>1, <2>3, <3>1, <3>2 DEF PostInv
  <2> QED BY <2>1, <2>2, <2>3
<1>8. CASE ExitSource \/ EnterTarget
  <2>1. frames # <<>> /\ failed' = failed /\ Top = frames[Len(frames)]
    BY <1>1, <1>8, StackLemma DEF ExitSource, EnterTarget, In
  <2>2. \/ ExitSource /\ m_state \in StateHandlers /\ GoOn("exit", m_state)
        \/ EnterTarget /\ m_temp \in StateHandlers \cup {Initial} /\ GoOn("enter", m_temp)
    BY <1>1, <1>8, <2>1 DEF ExitSource, EnterTarget, In, FsmInv
  <2>3. OnlyTop(Len(frames)) /\ frames' # <<>> /\ Top'.at # "handler"
    BY <1>1, <2>1, <2>2, GoOnLemma DEF Phases
  <2> QED BY <1>1, <2>1, <2>3 DEF PostInv, OnlyTop
<1>9. CASE RecordState
  <2>1. frames # <<>> /\ frames' = Front(frames) /\ m_state' = m_temp /\ m_temp' = m_temp
        /\ failed' = failed
    BY <1>9 DEF RecordState, In
  <2>2. Len(frames') = 0 /\ frames' \in Seq(Frame)
    BY <1>1, <2>1, ReturnLemma DEF OnlyTop, PostInv
  <2>3. frames' = <<>>
    BY <2>2
  <2> QED BY <1>1, <2>1, <2>2, <2>3 DEF PostInv
<1> QED
  BY <1>2, <1>3, <1>4, <1>5, <1>6, <1>7, <1>8, <1>9 DEF LoopNext, RunHandler, HandlerStep

\* A program whose handlers only post never fails the assert of dispatch.
THEOREM PostingIsSafe == LoopSpec => []PostingNeverAsserts
<1>1. LoopInit => PostInv
  BY DEF LoopInit, FsmInit, PostInv
<1>2. PostInv => PostingNeverAsserts
  BY DEF PostInv, PostingNeverAsserts
<1> QED
  BY <1>1, <1>2, LoopInitInv, LoopKeepsStack, PostKeeps, PTL DEF LoopSpec

-----------------------------------------------------------------------------
(* CircleBuffer implements BoundedBuffer                                   *)

\* k places further down, from index i.
Below(i, k) == IF k <= i THEN i - k ELSE i - k + Size

\* The index arithmetic of Contents is the wrap-around of Down.
LEMMA BelowLemma ==
    ASSUME NEW i \in Index, NEW k \in 0..Size
    PROVE  (i - k) % Size = Below(i, k) /\ Below(i, k) \in Index
BY SizeAssumption, SMTT(30) DEF Index, Below

\* Down moves one place and stays in the ring.
LEMMA DownLemma ==
    ASSUME NEW i \in Index
    PROVE  Down(i) \in Index /\ Down(i) = Below(i, 1)
BY SizeAssumption DEF Index, Below, Down

\* Steps add up, wherever the wrap-around falls.
LEMMA BelowSteps ==
    ASSUME NEW i \in Index, NEW k \in 0..Size - 1
    PROVE  Below(i, k + 1) = Down(Below(i, k)) /\ Below(Down(i), k) = Below(i, k + 1)
BY SizeAssumption DEF Index, Below, Down

\* Less than Size places away from an index lie as many places.
LEMMA BelowDiffers ==
    ASSUME NEW i \in Index, NEW k \in 0..Size - 1, NEW j \in 0..Size - 1, k # j
    PROVE  Below(i, k) # Below(i, j)
BY SizeAssumption DEF Index, Below

\* How many values the ring holds.
Held == IF front = NullPtr THEN 0 ELSE InRing

\* m_free says whether there is a front value and how far apart the indices are,
\* and the places between them hold posted values.
RingInv ==
    /\ TypeOK
    /\ front = NullPtr <=> free = Size + 1
    /\ front # NullPtr => free \in 0..Size
    /\ head = Below(tail, Held)
    /\ \A k \in 0..Size - 1 : k < Held => ring[Below(tail, k)] \in Values

\* What RingInv says of the numbers.
HeldFacts ==
    /\ Held \in 0..Size
    /\ front # NullPtr => Held = Size - free /\ free \in 0..Size /\ front \in Values
    /\ front = NullPtr => Held = 0 /\ free = Size + 1
    /\ head \in Index /\ tail \in Index /\ ring \in [Index -> Pointer]

\* RingInv says so.
LEMMA HeldLemma == RingInv => HeldFacts
BY SizeAssumption DEF RingInv, HeldFacts, Held, InRing, TypeOK, Pointer

\* The values held, one by one.
ContentsFacts ==
    /\ Contents \in Seq(Values)
    /\ front = NullPtr => Contents = <<>>
    /\ front # NullPtr => /\ Len(Contents) = Held + 1
                          /\ Contents[1] = front
                          /\ \A k \in 0..Size - 1 :
                               k < Held => Contents[k + 2] = ring[Below(tail, k)]

\* The wrap-around of Contents taken apart.
LEMMA ContentsLemma == RingInv => ContentsFacts
<1> SUFFICES ASSUME RingInv PROVE ContentsFacts
  OBVIOUS
<1>1. CASE front = NullPtr
  BY <1>1 DEF Contents, ContentsFacts
<1>2. CASE front # NullPtr
  <2> DEFINE rest == [i \in 1..InRing |-> ring[(tail - (i - 1)) % Size]]
  <2>1. /\ InRing = Held /\ Held \in 0..Size /\ front \in Values /\ tail \in Index
        /\ Size \in Nat
    BY <1>2, HeldLemma, SizeAssumption DEF Held, HeldFacts
  <2>2. \A k \in 0..Size - 1 : k < Held => /\ (tail - k) % Size = Below(tail, k)
                                         /\ ring[Below(tail, k)] \in Values
    BY <2>1, BelowLemma DEF RingInv
  <2>3. rest \in Seq(Values) /\ Len(rest) = Held
    <3>1. ASSUME NEW i \in 1..Held
          PROVE  ring[(tail - (i - 1)) % Size] \in Values
      <4>1. i - 1 \in 0..Size - 1 /\ i - 1 < Held
        BY <2>1
      <4> QED BY <2>2, <4>1
    <3> QED BY <2>1, <3>1
  <2>4. \A k \in 0..Size - 1 : k < Held => rest[k + 1] = ring[Below(tail, k)]
    <3> SUFFICES ASSUME NEW k \in 0..Size - 1, k < Held PROVE rest[k + 1] = ring[Below(tail, k)]
      OBVIOUS
    <3>1. k + 1 \in 1..InRing /\ (k + 1) - 1 = k
      BY <2>1
    <3>2. rest[k + 1] = ring[(tail - k) % Size]
      BY <3>1
    <3> QED BY <2>2, <3>2
  <2>5. Contents = <<front>> \o rest
    BY <1>2 DEF Contents
  <2> HIDE DEF rest
  <2>6. <<front>> \in Seq(Values) /\ Len(<<front>>) = 1 /\ <<front>>[1] = front
    BY <2>1
  <2>7. /\ <<front>> \o rest \in Seq(Values) /\ Len(<<front>> \o rest) = 1 + Held
        /\ \A i \in 1..1 + Held : (<<front>> \o rest)[i] = IF i <= 1 THEN <<front>>[i] ELSE rest[i - 1]
    BY <2>3, <2>6, ConcatProperties
  <2>8. \A k \in 0..Size - 1 : k < Held => Contents[k + 2] = rest[k + 1]
    <3> SUFFICES ASSUME NEW k \in 0..Size - 1, k < Held PROVE Contents[k + 2] = rest[k + 1]
      OBVIOUS
    <3>1. k + 2 \in 1..1 + Held /\ ~ (k + 2 <= 1) /\ (k + 2) - 1 = k + 1
      BY <2>1
    <3> QED BY <2>5, <2>7, <3>1
  <2>9. Len(Contents) = Held + 1 /\ Contents[1] = front
    BY <2>1, <2>5, <2>6, <2>7
  <2> QED BY <1>2, <2>4, <2>5, <2>7, <2>8, <2>9 DEF ContentsFacts
<1> QED BY <1>1, <1>2

\* The same after a step.
LEMMA FactsThen == RingInv' => HeldFacts' /\ ContentsFacts'
BY HeldLemma, ContentsLemma, PTL

\* A value that is posted goes behind the others.
LEMMA PostBuffers ==
    ASSUME RingInv, NEW v \in Values, Post(v)
    PROVE  RingInv' /\ Buffer!Accept(v)
<1>1. HeldFacts /\ ContentsFacts /\ Size \in Nat \ {0} /\ v # NullPtr /\ Modulus \in Nat /\ Size + 1 < Modulus
  BY HeldLemma, ContentsLemma, SizeAssumption, ValuesAssumption
<1>2. free' = free - 1 /\ answer' = TRUE /\ tail' = tail /\ free # 0 /\ TypeOK
  BY DEF Post, RingInv
<1>3. CASE PostFirst(v)
  <2>1. front = NullPtr /\ front' = v /\ head' = head /\ ring' = ring /\ free = Size + 1
    BY <1>1, <1>3 DEF PostFirst, HeldFacts
  <2>2. Held = 0 /\ Held' = 0
    BY <1>1, <1>2, <2>1 DEF Held, InRing
  <2>3. TypeOK'
    BY <1>1, <1>2, <2>1 DEF TypeOK, Pointer
  <2>4. RingInv'
    BY <1>1, <1>2, <2>1, <2>2, <2>3 DEF RingInv, Below
  <2>5. Contents = <<>> /\ Contents' \in Seq(Values) /\ Len(Contents') = 1 /\ Contents'[1] = v
    BY <1>1, <2>1, <2>2, <2>4, FactsThen DEF ContentsFacts
  <2>6. Contents' = Append(Contents, v)
    BY <2>5
  <2> QED BY <1>1, <1>2, <2>4, <2>5, <2>6 DEF Buffer!Accept
<1>4. CASE PostToRing(v)
  <2>1. front # NullPtr /\ front' = front /\ ring' = [ring EXCEPT ![head] = v] /\ head' = Down(head)
    BY <1>4 DEF PostToRing
  <2>2. Held = Size - free /\ Held' = Held + 1 /\ Held \in 0..Size - 1 /\ free' \in 0..Size - 1
        /\ head \in Index /\ tail \in Index /\ ring \in [Index -> Pointer]
    BY <1>1, <1>2, <2>1 DEF Held, InRing, HeldFacts
  <2>3. head = Below(tail, Held) /\ head' = Below(tail, Held + 1) /\ head' \in Index
    BY <2>1, <2>2, BelowSteps, DownLemma DEF RingInv
  <2>4. /\ ring'[head] = v
        /\ \A k \in 0..Size - 1 : k < Held => /\ ring'[Below(tail, k)] = ring[Below(tail, k)]
                                              /\ ring[Below(tail, k)] \in Values
    <3> SUFFICES ASSUME NEW k \in 0..Size - 1, k < Held
                 PROVE  ring'[Below(tail, k)] = ring[Below(tail, k)]
      BY <2>1, <2>2 DEF RingInv
    <3>1. Below(tail, k) # head
      BY <2>2, <2>3, BelowDiffers
    <3>2. Below(tail, k) \in Index
      BY <1>1, <2>2, BelowLemma
    <3> QED BY <2>1, <2>2, <3>1, <3>2
  <2>5. TypeOK'
    BY <1>1, <1>2, <2>1, <2>2, <2>3 DEF TypeOK, Pointer
  <2>6. \A k \in 0..Size - 1 : k < Held + 1 => ring'[Below(tail, k)] \in Values
    <3> SUFFICES ASSUME NEW k \in 0..Size - 1, k < Held + 1
                 PROVE  ring'[Below(tail, k)] \in Values
      OBVIOUS
    <3>1. k < Held \/ k = Held
      BY <2>2
    <3> QED BY <2>3, <2>4, <3>1
  <2>7. RingInv'
    BY <1>1, <1>2, <2>1, <2>2, <2>3, <2>5, <2>6 DEF RingInv
  <2>8. /\ Contents \in Seq(Values) /\ Contents' \in Seq(Values)
        /\ Len(Contents) = Held + 1 /\ Len(Contents') = Held + 2
        /\ Contents[1] = front /\ Contents'[1] = front
        /\ \A k \in 0..Size - 1 : k < Held => Contents[k + 2] = ring[Below(tail, k)]
        /\ \A k \in 0..Size - 1 : k < Held + 1 => Contents'[k + 2] = ring'[Below(tail, k)]
    BY <1>1, <1>2, <2>1, <2>2, <2>7, FactsThen DEF ContentsFacts
  <2>9. Contents' = Append(Contents, v)
    <3> DEFINE a == Append(Contents, v)
    <3>1. /\ a \in Seq(Values) /\ Len(a) = Held + 2 /\ a[Held + 2] = v
          /\ \A i \in 1..Held + 1 : a[i] = Contents[i]
      BY <2>2, <2>8, AppendProperties
    <3> HIDE DEF a
    <3>2. ASSUME NEW i \in 1..Held + 2 PROVE Contents'[i] = a[i]
      <4>1. CASE i = 1
        BY <2>2, <2>8, <3>1, <4>1
      <4>2. CASE i > 1
        <5>1. i - 2 \in 0..Size - 1 /\ i - 2 < Held + 1 /\ (i - 2) + 2 = i
          BY <1>1, <2>2, <4>2
        <5>2. Contents'[i] = ring'[Below(tail, i - 2)]
          BY <2>8, <5>1
        <5>3. CASE i = Held + 2
          BY <2>2, <2>3, <2>4, <3>1, <5>2, <5>3
        <5>4. CASE i # Held + 2
          <6>1. i \in 1..Held + 1 /\ i - 2 < Held
            BY <2>2, <5>4
          <6>2. Contents[i] = ring[Below(tail, i - 2)]
            BY <2>8, <5>1, <6>1
          <6> QED BY <2>4, <3>1, <5>1, <5>2, <6>1, <6>2
        <5> QED BY <5>3, <5>4
      <4> QED BY <4>1, <4>2
    <3>3. Contents' = a
      BY <2>2, <2>8, <3>1, <3>2, SeqEqual
    <3> QED BY <3>3 DEF a
  <2>10. Len(Contents) < Size + 1
    BY <1>1, <2>2, <2>8
  <2> QED BY <1>2, <2>7, <2>9, <2>10 DEF Buffer!Accept
<1> QED BY <1>3, <1>4 DEF Post

\* The oldest value is answered, and the others follow.
LEMMA GetBuffers ==
    ASSUME RingInv, Get
    PROVE  RingInv' /\ Buffer!Take
<1>1. HeldFacts /\ ContentsFacts /\ Size \in Nat \ {0} /\ Modulus \in Nat /\ Size + 1 < Modulus
  BY HeldLemma, ContentsLemma, SizeAssumption
<1>2. /\ front # NullPtr /\ answer' = front /\ free' = (free + 1) % Modulus
      /\ head' = head /\ ring' = ring /\ TypeOK
  BY DEF Get, RingInv
<1>3. /\ Held = Size - free /\ free \in 0..Size /\ front \in Values /\ Held \in 0..Size
      /\ head \in Index /\ tail \in Index /\ ring \in [Index -> Pointer]
  BY <1>1, <1>2 DEF HeldFacts
<1>4. free' = free + 1
  <2>1. free + 1 \in 0..Modulus - 1
    BY <1>1, <1>3
  <2> QED BY <1>1, <1>2, <2>1
<1>5. Contents # <<>> /\ Head(Contents) = front /\ Contents \in Seq(Values) /\ Len(Contents) = Held + 1
  BY <1>1, <1>2, <1>3 DEF ContentsFacts
<1>6. /\ Tail(Contents) \in Seq(Values) /\ Len(Tail(Contents)) = Held
      /\ \A i \in 1..Held : Tail(Contents)[i] = Contents[i + 1]
  BY <1>3, <1>5, HeadTailProperties
<1>7. CASE GetFromRing
  <2>1. front' = ring[tail] /\ tail' = Down(tail) /\ Held \in 1..Size
    BY <1>1, <1>3, <1>4, <1>7 DEF GetFromRing
  <2>2. front' \in Values /\ front' = ring[Below(tail, 0)] /\ front' # NullPtr
    <3>1. 0 \in 0..Size - 1 /\ 0 < Held /\ Below(tail, 0) = tail
      BY <1>1, <1>3, <2>1 DEF Below, Index
    <3> QED BY <2>1, <3>1, ValuesAssumption DEF RingInv
  <2>3. Held' = Held - 1
    BY <1>1, <1>2, <1>3, <1>4, <2>2 DEF Held, InRing
  <2>4. tail' \in Index /\ \A k \in 0..Size - 1 : Below(tail', k) = Below(tail, k + 1)
    BY <1>3, <2>1, DownLemma, BelowSteps
  <2>5. TypeOK'
    BY <1>1, <1>2, <1>3, <1>4, <2>1, <2>2, <2>4 DEF TypeOK, Pointer
  <2>6. head' = Below(tail', Held - 1)
    <3>1. Held - 1 \in 0..Size - 1 /\ (Held - 1) + 1 = Held
      BY <1>1, <2>1
    <3> QED BY <1>2, <2>4, <3>1 DEF RingInv
  <2>7. \A k \in 0..Size - 1 : k < Held - 1 => ring'[Below(tail', k)] \in Values
    <3> SUFFICES ASSUME NEW k \in 0..Size - 1, k < Held - 1
                 PROVE  ring'[Below(tail', k)] \in Values
      OBVIOUS
    <3>1. k + 1 \in 0..Size - 1 /\ k + 1 < Held
      BY <1>1, <2>1
    <3> QED BY <1>2, <2>4, <3>1 DEF RingInv
  <2>8. RingInv'
    BY <1>1, <1>3, <1>4, <2>1, <2>2, <2>3, <2>5, <2>6, <2>7 DEF RingInv
  <2>9. /\ Contents' \in Seq(Values) /\ Len(Contents') = Held /\ Contents'[1] = front'
        /\ \A k \in 0..Size - 1 : k < Held - 1 => Contents'[k + 2] = ring[Below(tail, k + 1)]
    BY <1>2, <2>1, <2>2, <2>3, <2>4, <2>8, FactsThen DEF ContentsFacts
  <2>10. ASSUME NEW i \in 1..Held PROVE Contents'[i] = Tail(Contents)[i]
    <3>1. Tail(Contents)[i] = Contents[i + 1] /\ i - 1 \in 0..Size - 1 /\ i - 1 < Held
          /\ (i - 1) + 2 = i + 1
      BY <1>1, <1>6, <2>1
    <3>2. Contents[i + 1] = ring[Below(tail, i - 1)]
      BY <1>1, <1>2, <3>1 DEF ContentsFacts
    <3>3. CASE i = 1
      <4>1. i - 1 = 0 /\ Contents'[i] = front'
        BY <2>9, <3>3
      <4> QED BY <2>2, <3>1, <3>2, <4>1
    <3>4. CASE i # 1
      <4>1. i - 2 \in 0..Size - 1 /\ i - 2 < Held - 1 /\ (i - 2) + 2 = i /\ (i - 2) + 1 = i - 1
        BY <1>1, <2>1, <3>4
      <4> QED BY <2>9, <3>1, <3>2, <4>1
    <3> QED BY <3>3, <3>4
  <2>11. Contents' = Tail(Contents)
    BY <1>6, <2>9, <2>10, SeqEqual
  <2> QED BY <1>2, <1>5, <2>8, <2>11 DEF Buffer!Take
<1>8. CASE GetLast
  <2>1. front' = NullPtr /\ tail' = tail /\ Held = 0 /\ free' = Size + 1
    BY <1>1, <1>3, <1>4, <1>8 DEF GetLast
  <2>2. Held' = 0
    BY <2>1 DEF Held
  <2>3. TypeOK'
    BY <1>1, <1>2, <1>3, <2>1 DEF TypeOK, Pointer
  <2>4. RingInv'
    BY <1>1, <1>2, <2>1, <2>2, <2>3 DEF RingInv
  <2>5. Contents' = <<>>
    BY <2>1 DEF Contents
  <2>6. Tail(Contents) = <<>>
    <3> DEFINE t == Tail(Contents)
    <3>1. t \in Seq(Values) /\ Len(t) = 0
      BY <1>6, <2>1
    <3> HIDE DEF t
    <3>2. t = <<>>
      BY <3>1
    <3> QED BY <3>2 DEF t
  <2> QED BY <1>2, <1>5, <2>4, <2>5, <2>6 DEF Buffer!Take
<1> QED BY <1>7, <1>8 DEF Get

\* A call that changes nothing is refused by a full buffer, or finds an empty one.
LEMMA IdleBuffers ==
    ASSUME RingInv, PostRefused \/ GetNothing
    PROVE  RingInv' /\ (Buffer!Refuse \/ Buffer!TakeNothing)
<1>1. HeldFacts /\ ContentsFacts /\ Size \in Nat \ {0}
  BY HeldLemma, ContentsLemma, SizeAssumption
<1>2. UNCHANGED <<front, head, tail, free, ring>> /\ answer' \in Pointer \cup BOOLEAN
  BY DEF PostRefused, GetNothing, Pointer
<1>3. RingInv'
  BY <1>2 DEF RingInv, TypeOK, Held, InRing
<1>4. Contents' = Contents
  BY <1>2 DEF Contents, InRing
<1>5. CASE PostRefused
  <2>1. free = 0 /\ front # NullPtr
    BY <1>1, <1>5 DEF PostRefused, HeldFacts
  <2>2. Len(Contents) = Size + 1
    BY <1>1, <2>1 DEF HeldFacts, ContentsFacts
  <2> QED BY <1>3, <1>4, <1>5, <2>2 DEF PostRefused, Buffer!Refuse
<1>6. CASE GetNothing
  BY <1>1, <1>3, <1>4, <1>6 DEF GetNothing, ContentsFacts, Buffer!TakeNothing
<1> QED BY <1>5, <1>6

\* A new buffer holds nothing, and m_free is its size + 1.
LEMMA InitBuffers == Init => RingInv /\ Buffer!BufferInit
<1> SUFFICES ASSUME Init PROVE RingInv /\ Buffer!BufferInit
  OBVIOUS
<1>1. Size + 1 \in 0..Modulus - 1 /\ Modulus \in Nat \ {0} /\ Size \in Nat \ {0}
  BY SizeAssumption
<1>2. free = Size + 1 /\ front = NullPtr /\ head = 0 /\ tail = 0 /\ answer = NullPtr
  BY <1>1 DEF Init
<1>3. ring \in [Index -> Pointer]
  BY DEF Init, Pointer
<1>4. TypeOK
  BY <1>1, <1>2, <1>3 DEF TypeOK, Pointer, Index
<1>5. Held = 0 /\ head = Below(tail, 0)
  BY <1>1, <1>2 DEF Held, Below
<1>6. RingInv
  BY <1>1, <1>2, <1>4, <1>5 DEF RingInv
<1> QED
  BY <1>2, <1>6 DEF Buffer!BufferInit, Contents

\* A call of the bounded buffer, or none.
BufferStep == [Buffer!BufferNext]_<<Contents, answer>>

\* Every call is one of the bounded buffer.
LEMMA BufferKeeps == RingInv /\ [Next]_vars => RingInv' /\ BufferStep
<1> SUFFICES ASSUME RingInv, [Next]_vars PROVE RingInv' /\ BufferStep
  OBVIOUS
<1>1. ASSUME NEW v \in Values, Post(v) PROVE RingInv' /\ BufferStep
  BY <1>1, PostBuffers DEF BufferStep, Buffer!BufferNext
<1>2. CASE Get
  BY <1>2, GetBuffers DEF BufferStep, Buffer!BufferNext
<1>3. CASE PostRefused \/ GetNothing
  BY <1>3, IdleBuffers DEF BufferStep, Buffer!BufferNext
<1>4. CASE UNCHANGED vars
  BY <1>4 DEF vars, RingInv, TypeOK, Held, InRing, BufferStep, Contents
<1> QED BY <1>1, <1>2, <1>3, <1>4 DEF Next

\* For every size and width a CircleBuffer is a first-in first-out buffer of
\* size + 1 places, used alone...
THEOREM CircleIsBuffer == Spec => ImplementsBuffer
<1>1. RingInv /\ [Next]_vars => [Buffer!BufferNext]_<<Contents, answer>>
  BY BufferKeeps DEF BufferStep
<1> QED
  BY <1>1, InitBuffers, BufferKeeps, PTL DEF Spec, ImplementsBuffer, Buffer!BufferSpec

\* ... or between the handlers of the loop.
THEOREM LoopUsesBuffer == LoopSpec => ImplementsBuffer
<1>1. [LoopNext]_loopVars => [Next]_vars
  BY DEF LoopNext, loopVars, Next, StartMachine, TakeEvent, FindNothing, PostEvent, DispatchAgain,
         RunHandler
<1>2. LoopInit => Init
  BY DEF LoopInit
<1> QED
  BY <1>1, <1>2, CircleIsBuffer, PTL DEF LoopSpec, Spec

\* Indices stay in the ring, the free places in their width, and the calls
\* within their depth.
THEOREM LoopTypeCorrect == LoopSpec => []LoopTypeOK
<1> DEFINE Inv == RingInv /\ FsmInv /\ StackInv /\ style \in {"post", "dispatch"}
<1>1. LoopInit => Inv
  BY InitBuffers, LoopInitInv DEF LoopInit
<1>2. Inv /\ [LoopNext]_loopVars => Inv'
  <2>1. [LoopNext]_loopVars => [Next]_vars /\ style' = style
    BY DEF LoopNext, loopVars, Next, StartMachine, TakeEvent, FindNothing, PostEvent, DispatchAgain,
           RunHandler
  <2> QED BY <2>1, BufferKeeps, LoopKeepsStack
<1>3. Inv => LoopTypeOK
  BY DEF RingInv, FsmInv, LoopTypeOK
<1> QED
  BY <1>1, <1>2, <1>3, PTL DEF LoopSpec
=============================================================================
