------------------------- MODULE LogMakerDlgProofs -------------------------
(***************************************************************************)
(* Proofs about LogMakerDlg, for any number of sender threads and sinks,   *)
(* and about LogFields: what a Send logs against what the dialog shows.    *)
(***************************************************************************)
EXTENDS LogMakerDlg, LogFields, TLAPS

USE SendersAssumption, SinksAssumption, BatchAssumption, BoundsAssumption

\* Inserting a line keeps the text within the bound of the model.
LEMMA PushInTexts ==
    ASSUME NEW t \in Threads, NEW s \in Texts
    PROVE  Push(t, s) \in Texts
<1> DEFINE all == <<t>> \o s
           n == IF Len(all) > TextCap THEN TextCap ELSE Len(all)
<1>1. all \in Seq(Threads) /\ Len(all) \in Nat
    BY DEF Texts
<1>2. n \in 0..Len(all) /\ n <= TextCap
    BY <1>1
<1>3. SubSeq(all, 1, n) \in Seq(Threads) /\ Len(SubSeq(all, 1, n)) = n
    <2> HIDE DEF all, n
    <2> QED BY <1>1, <1>2
<1> QED
    BY <1>2, <1>3 DEF Push, Texts

-----------------------------------------------------------------------------
(* The type invariant.  The message counts stay natural numbers because a  *)
(* thread inside a log call has a message left.                            *)

BatchLeft ==
    \A t \in Threads :
        pc[t] \in {"load", "store", "lock", "write", "get", "set"} => batch[t] > 0

TypeInv == TypeOK /\ BatchLeft

LEMMA InitTypeInv == Init => TypeInv
<1> SUFFICES ASSUME Init PROVE TypeInv
    OBVIOUS
<1>1. <<>> \in Texts
    BY DEF Texts
<1>2. 0 \in 0..UIntMod - 1 /\ 1 \in Senders /\ 1 \in Sinks
    BY DEF Senders, Sinks
<1>3. TypeOK
    BY <1>1, <1>2 DEF Init, TypeOK, Phases, PCs
<1>4. BatchLeft
    BY DEF Init, BatchLeft
<1> QED BY <1>3, <1>4 DEF TypeInv

\* Leaving a sink keeps the types.
LEMMA LeaveSinkTypeInv ==
    ASSUME TypeInv, NEW t \in Threads, LeaveSink(t),
           pc[t] \in {"write", "set"},
           UNCHANGED <<object, g_nSendCnt>>,
           msg' \in [Threads -> {"none", "sent", "answered"}],
           buf' \in [Threads -> Texts],
           text' \in Texts
    PROVE  TypeInv'
<1>1. batch[t] \in Nat /\ batch[t] > 0
    BY DEF TypeInv, TypeOK, BatchLeft
<1>2. batch' \in [Threads -> Nat]
    BY <1>1 DEF TypeInv, TypeOK, LeaveSink
<1>3. k' \in [Threads -> Sinks]
    BY DEF TypeInv, TypeOK, LeaveSink, Sinks
<1>4. pc' \in [Threads -> PCs]
    BY DEF TypeInv, TypeOK, LeaveSink, PCs
<1>5. mutex' \in [Sinks -> Threads \cup {NoThread}] /\ phase' \in Phases
    BY DEF TypeInv, TypeOK, LeaveSink, Released, Phases
<1>6. TypeOK'
    BY <1>2, <1>3, <1>4, <1>5 DEF TypeInv, TypeOK, LeaveSink, object
<1>7. BatchLeft'
    BY <1>1 DEF TypeInv, TypeOK, BatchLeft, LeaveSink, LastOfBatch
<1> QED BY <1>6, <1>7 DEF TypeInv

LEMMA NextTypeInv == TypeInv /\ [Next]_vars => TypeInv'
<1> SUFFICES ASSUME TypeInv, [Next]_vars PROVE TypeInv'
    OBVIOUS
<1> USE DEF TypeInv
<1>1. ASSUME NEW n \in Counts, ClickSend(n) PROVE TypeInv'
    <2>1. n \in Int /\ n % UIntMod \in Nat
        OBVIOUS
    <2>2. CASE n % UIntMod = 0
        BY <1>1, <2>2 DEF ClickSend, TypeOK, BatchLeft, Phases, call, object
    <2>3. CASE n % UIntMod # 0
        <3>1. batch' \in [Threads -> Nat] /\ pc' \in [Threads -> PCs]
            BY <1>1, <2>1, <2>3 DEF ClickSend, TypeOK, PCs
        <3>2. TypeOK'
            BY <1>1, <2>3, <3>1 DEF ClickSend, TypeOK, Phases, object
        <3>3. BatchLeft'
            BY <1>1, <2>1, <2>3 DEF ClickSend, TypeOK, BatchLeft
        <3> QED BY <3>2, <3>3
    <2> QED BY <2>2, <2>3
<1>2. ASSUME ClickCheck \/ ClickUncheck \/ DismissBox \/ Escape \/ Exit
             \/ StaleHandle \/ DoubleDelete \/ RacyExchange
      PROVE  TypeInv'
    <2>1. CASE StaleHandle \/ DoubleDelete \/ RacyExchange
        <3>1. Crash
            BY <2>1 DEF StaleHandle, DoubleDelete, RacyExchange
        <3> QED BY <3>1 DEF TypeOK, BatchLeft, Crash, Phases, object, call
    <2>2. CASE ClickCheck \/ ClickUncheck
        <3>1. checked' \in BOOLEAN /\ m_bSendRep' \in BOOLEAN
            BY <2>2, Zenon DEF ClickCheck, ClickUncheck
        <3>2. phase' \in Phases /\ gi' \in Senders
              /\ UNCHANGED <<object, call, mutex, g_nSendCnt, text>>
            BY <2>2 DEF ClickCheck, ClickUncheck, Phases, Senders
        <3> QED BY <3>1, <3>2 DEF TypeOK, BatchLeft, object, call
    <2>3. CASE DismissBox \/ Escape \/ Exit
        BY <2>3 DEF TypeOK, BatchLeft, DismissBox, Escape, Exit, Phases, object, call
    <2> QED BY <1>2, <2>1, <2>2, <2>3
<1>3. ASSUME StartOrResume PROVE TypeInv'
    <2>1. th' \in [Senders -> {"none", "live", "done"}]
          /\ obj' \in [Senders -> {"null", "valid", "freed"}]
          /\ susp' \in [Senders -> Nat]
        BY <1>3 DEF TypeOK, StartOrResume, object
    <2>2. phase' \in Phases /\ gi' \in Senders
        BY <1>3 DEF TypeOK, StartOrResume, NextThread, Phases, Senders
    <2> QED BY <1>3, <2>1, <2>2 DEF TypeOK, BatchLeft, StartOrResume, call
<1>4. ASSUME Suspend PROVE TypeInv'
    <2>1. susp' \in [Senders -> Nat] /\ phase' \in Phases /\ gi' \in Senders
        BY <1>4 DEF TypeOK, Suspend, SuspendThread, NextThread, Phases, Senders
    <2> QED BY <1>4, <2>1 DEF TypeOK, BatchLeft, Suspend, call
<1>5. ASSUME Close \/ \E v \in BOOLEAN : ClickOk(v) PROVE TypeInv'
    <2>1. obj' \in [Senders -> {"null", "valid", "freed"}] /\ phase' \in Phases
        BY <1>5 DEF TypeOK, Close, ClickOk, CloseAll, Phases
    <2> QED BY <1>5, <2>1 DEF TypeOK, BatchLeft, Close, ClickOk, call
<1>6. ASSUME NEW t \in Threads, Load(t) PROVE TypeInv'
    BY <1>6 DEF TypeOK, BatchLeft, Load, PCs, gui, object
<1>7. ASSUME NEW t \in Threads, Store(t) PROVE TypeInv'
    <2>1. g_nSendCnt' \in 0..UIntMod - 1 /\ loaded' \in [Threads -> 0..UIntMod - 1]
        BY <1>7 DEF TypeOK, Store
    <2> QED BY <1>7, <2>1 DEF TypeOK, BatchLeft, Store, PCs, gui, object
<1>8. ASSUME NEW t \in Threads, Lock(t) PROVE TypeInv'
    BY <1>8 DEF TypeOK, BatchLeft, Lock, PCs, gui, object
<1>9. ASSUME NEW t \in Threads, Write(t) PROVE TypeInv'
    BY <1>9, LeaveSinkTypeInv DEF TypeOK, Write
<1>10. ASSUME GetTextDirect PROVE TypeInv'
    BY <1>10 DEF TypeOK, BatchLeft, GetTextDirect, PCs, gui, object
<1>11. ASSUME SetTextDirect PROVE TypeInv'
    <2>1. GUI \in Threads
        BY DEF GUI, Threads
    <2>2. text' \in Texts /\ buf' \in [Threads -> Texts]
        BY <1>11, <2>1, PushInTexts DEF TypeOK, SetTextDirect, Texts
    <2> QED BY <1>11, <2>1, <2>2, LeaveSinkTypeInv DEF TypeOK, SetTextDirect
<1>12. ASSUME NEW t \in Senders, LoopTop(t) PROVE TypeInv'
    <2>1. t \in Threads /\ Batch \in Nat /\ Batch > 0
        BY DEF Senders, Threads
    <2>2. th' \in [Senders -> {"none", "live", "done"}]
          /\ obj' \in [Senders -> {"null", "valid", "freed"}]
          /\ pc' \in [Threads -> PCs] /\ batch' \in [Threads -> Nat]
        BY <1>12, <2>1 DEF TypeOK, LoopTop, PCs
    <2>3. BatchLeft'
        BY <1>12, <2>1 DEF TypeOK, BatchLeft, LoopTop
    <2> QED BY <1>12, <2>2, <2>3 DEF TypeOK, LoopTop, gui
<1>13. ASSUME NEW t \in Senders, EndStale(t) \/ CallStale(t) \/ UseDestroyed(t)
       PROVE  TypeInv'
    BY <1>13 DEF TypeOK, BatchLeft, EndStale, CallStale, UseDestroyed, Crash, Phases, object, call
<1>14. ASSUME NEW t \in Senders, CallGui(t) \/ DispatchGone(t) PROVE TypeInv'
    BY <1>14 DEF TypeOK, BatchLeft, CallGui, DispatchGone, gui, object
<1>15. ASSUME NEW t \in Senders, Dispatch(t) PROVE TypeInv'
    <2>1. t \in Threads
        BY DEF Senders, Threads
    <2>2. text' \in Texts /\ buf' \in [Threads -> Texts]
        BY <1>15, <2>1, PushInTexts DEF TypeOK, Dispatch
    <2> QED BY <1>15, <2>2 DEF TypeOK, BatchLeft, Dispatch, gui, object
<1>16. ASSUME NEW t \in Senders, Return(t) PROVE TypeInv'
    <2>1. t \in Threads /\ <<>> \in Texts
        BY DEF Senders, Threads, Texts
    <2>2. CASE pc[t] = "set"
        <3>1. LeaveSink(t) /\ msg' \in [Threads -> {"none", "sent", "answered"}]
              /\ buf' \in [Threads -> Texts] /\ text' \in Texts
              /\ UNCHANGED <<object, g_nSendCnt>>
            BY <1>16, <2>1, <2>2 DEF TypeOK, Return
        <3> QED BY <2>1, <2>2, <3>1, LeaveSinkTypeInv
    <2>3. CASE pc[t] # "set"
        <3>1. /\ pc' = [pc EXCEPT ![t] = IF pc[t] = "get" THEN "set" ELSE "top"]
              /\ msg' = [msg EXCEPT ![t] = "none"]
              /\ pc[t] \in {"get", "show"}
              /\ UNCHANGED <<gui, k, loaded, batch, buf, mutex, object, g_nSendCnt, text>>
            BY <1>16, <2>3 DEF Return
        <3>2. TypeOK'
            BY <2>1, <3>1 DEF TypeOK, PCs, gui, object
        <3>3. BatchLeft'
            BY <2>1, <3>1 DEF TypeOK, BatchLeft
        <3> QED BY <3>2, <3>3
    <2> QED BY <2>2, <2>3
<1>17. CASE UNCHANGED vars
    BY <1>17 DEF TypeOK, BatchLeft, vars, gui, object, call
<1> QED
    BY <1>1, <1>2, <1>3, <1>4, <1>5, <1>6, <1>7, <1>8, <1>9, <1>10, <1>11, <1>12,
       <1>13, <1>14, <1>15, <1>16, <1>17
    DEF Next, UserStep, HandlerStep, LogStep, SenderStep, GuiServes

\* Every variable keeps its type and its bound in every behaviour: the counter
\* stays an unsigned integer, the batches never run below zero.
THEOREM TypeCorrect == Spec => []TypeOK
<1>1. TypeInv => TypeOK
    BY DEF TypeInv
<1> QED
    BY InitTypeInv, NextTypeInv, <1>1, PTL DEF Spec

-----------------------------------------------------------------------------
(* The mutexes and the edit window.                                        *)

\* Only the callback sink reads and writes the window, and only a sender
\* thread inside such a call has a SendMessage under way.
CallShape ==
    \A t \in Threads :
        /\ pc[t] \in {"get", "set"} => k[t] = Cb
        /\ msg[t] # "none" => t # GUI /\ pc[t] \in {"get", "set", "show"}

\* Between handlers the GUI thread is not inside a log call.
GuiIdle == phase \in {"pump", "msgbox", "starting", "stopping"} => pc[GUI] = "top"

SafetyInv == TypeInv /\ GuiIdle /\ CallShape /\ MutexOwner /\ EditIntact

\* The handler steps of the GUI thread but the click on Send.
QuietHandler ==
    \/ ClickCheck \/ ClickUncheck \/ DismissBox \/ Escape \/ DoubleDelete \/ RacyExchange
    \/ Close \/ (\E v \in BOOLEAN : ClickOk(v))
    \/ HandlerStep

\* Every handler step of the GUI thread but the click on Send leaves the log
\* calls, the mutexes and the window's text alone.
LEMMA HandlerFrame ==
    ASSUME QuietHandler PROVE  UNCHANGED <<pc, k, buf, msg, mutex, text>>
<1>1. CASE StaleHandle \/ DoubleDelete \/ RacyExchange
    BY <1>1 DEF StaleHandle, DoubleDelete, RacyExchange, Crash, call
<1>2. CASE ClickCheck \/ ClickUncheck \/ DismissBox \/ Escape \/ Exit
    BY <1>2 DEF ClickCheck, ClickUncheck, DismissBox, Escape, Exit, call
<1>3. CASE Close \/ \E v \in BOOLEAN : ClickOk(v)
    BY <1>3 DEF Close, ClickOk, call
<1>4. CASE StartOrResume \/ Suspend
    BY <1>4 DEF StartOrResume, Suspend, call
<1> QED BY <1>1, <1>2, <1>3, <1>4 DEF QuietHandler, HandlerStep

\* A crash leaves them alone too.
LEMMA CrashFrame ==
    ASSUME Crash PROVE UNCHANGED <<pc, k, buf, msg, mutex, text>> /\ Closed'
BY DEF Crash, call, Closed

\* Once the window is gone it does not come back.
LEMMA ClosedForever == TypeOK /\ [Next]_vars /\ Closed => Closed'
<1> SUFFICES ASSUME TypeOK, [Next]_vars, Closed PROVE Closed'
    OBVIOUS
<1>1. phase \in {"gone", "exited", "crashed"}
    BY DEF Closed
<1>2. ASSUME HandlerStep \/ UserStep PROVE Closed'
    BY <1>1, <1>2 DEF HandlerStep, UserStep, StartOrResume, Suspend, StaleHandle, Exit, ClickSend,
        ClickCheck, ClickUncheck, DismissBox, ClickOk, Close, DoubleDelete, RacyExchange, Escape,
        Crash, Closed
<1>3. ASSUME NEW t \in Threads, LogStep(t) \/ Lock(t) PROVE Closed'
    BY <1>1, <1>3 DEF LogStep, Load, Store, Write, Lock, LeaveSink, Runs, Closed, gui
<1>4. ASSUME GetTextDirect \/ SetTextDirect PROVE Closed'
    BY <1>1, <1>4 DEF GetTextDirect, SetTextDirect, Runs, Closed
<1>5. ASSUME NEW t \in Senders, SenderStep(t) PROVE Closed'
    <2>1. t # GUI
        BY DEF Senders, GUI
    <2> QED BY <1>1, <1>5, <2>1 DEF SenderStep, LoopTop, EndStale, CallGui, CallStale, UseDestroyed,
            Return, LeaveSink, Crash, Closed, gui
<1>6. ASSUME NEW t \in Senders, GuiServes(t) PROVE Closed'
    BY <1>1, <1>6 DEF GuiServes, Dispatch, DispatchGone, Pumping, Closed, gui
<1>7. CASE UNCHANGED vars
    BY <1>7 DEF vars, gui, Closed
<1> QED BY <1>2, <1>3, <1>4, <1>5, <1>6, <1>7 DEF Next

LEMMA NextGuiIdle == TypeInv /\ GuiIdle /\ [Next]_vars => GuiIdle'
<1> SUFFICES ASSUME TypeInv, GuiIdle, [Next]_vars PROVE GuiIdle'
    OBVIOUS
<1>a. GUI \in Threads /\ GUI \notin Senders /\ Senders \subseteq Threads
    BY DEF GUI, Threads, Senders
<1>1. ASSUME NEW n \in Counts, ClickSend(n) PROVE GuiIdle'
    BY <1>1 DEF ClickSend, GuiIdle, call
<1>2. ASSUME QuietHandler PROVE  GuiIdle'
    <2>1. UNCHANGED pc
        BY <1>2, HandlerFrame
    <2>2. phase \in {"pump", "msgbox", "starting", "stopping"} \/ phase' = "exited"
        BY <1>2 DEF QuietHandler, HandlerStep, ClickCheck, ClickUncheck, DismissBox, Escape,
            DoubleDelete, RacyExchange,
            Close, ClickOk, StartOrResume, Suspend, StaleHandle, Exit
    <2> QED BY <2>1, <2>2 DEF GuiIdle
<1>3. ASSUME NEW t \in Threads, LogStep(t) \/ Lock(t) PROVE GuiIdle'
    <2>1. CASE t = GUI
        BY <1>3, <2>1, <1>a DEF TypeInv, TypeOK, GuiIdle, LogStep, Lock, Load, Store, Write,
            Runs, LeaveSink, LastOfBatch, gui
    <2>2. CASE t # GUI
        BY <1>3, <2>2, <1>a DEF TypeInv, TypeOK, GuiIdle, LogStep, Lock, Load, Store, Write,
            LeaveSink, gui
    <2> QED BY <2>1, <2>2
<1>4. ASSUME GetTextDirect \/ SetTextDirect PROVE GuiIdle'
    BY <1>4, <1>a DEF TypeInv, TypeOK, GuiIdle, GetTextDirect, SetTextDirect, Runs,
        LeaveSink, LastOfBatch, gui
<1>5. ASSUME NEW t \in Senders, SenderStep(t) PROVE GuiIdle'
    <2>1. t # GUI /\ t \in Threads
        BY <1>a
    <2>2. CASE EndStale(t) \/ CallStale(t) \/ UseDestroyed(t)
        BY <2>2 DEF EndStale, CallStale, UseDestroyed, Crash, GuiIdle
    <2>3. CASE LoopTop(t) \/ CallGui(t)
        BY <1>a, <2>1, <2>3 DEF TypeInv, TypeOK, GuiIdle, LoopTop, CallGui, gui
    <2>4. CASE Return(t)
        BY <1>a, <2>1, <2>4 DEF TypeInv, TypeOK, GuiIdle, Return, LeaveSink, gui
    <2> QED BY <1>5, <2>2, <2>3, <2>4 DEF SenderStep
<1>6. ASSUME NEW t \in Senders, GuiServes(t) PROVE GuiIdle'
    BY <1>6 DEF GuiIdle, GuiServes, Dispatch, DispatchGone, gui
<1>7. CASE UNCHANGED vars
    BY <1>7 DEF vars, gui, call, GuiIdle
<1> QED BY <1>1, <1>2, <1>3, <1>4, <1>5, <1>6, <1>7 DEF Next, UserStep, QuietHandler

LEMMA InitSafetyInv == Init => SafetyInv
<1> SUFFICES ASSUME Init PROVE SafetyInv
    OBVIOUS
<1>1. NoThread \notin Threads
    BY DEF NoThread, Threads
<1>2. CallShape /\ EditIntact
    BY DEF Init, CallShape, EditIntact, BetweenGetAndSet
<1>4. GuiIdle
    BY DEF Init, GuiIdle, Threads, GUI
<1>3. MutexOwner
    BY <1>1 DEF Init, MutexOwner, Inside
<1> QED BY <1>2, <1>3, <1>4, InitTypeInv DEF SafetyInv

\* A step that changes none of the variables of CallShape and MutexOwner.
LEMMA FrameKeeps ==
    ASSUME CallShape, MutexOwner, UNCHANGED <<pc, k, msg, mutex>>
    PROVE  CallShape' /\ MutexOwner'
BY DEF CallShape, MutexOwner, Inside

\* Leaving a sink gives its mutex back and nothing else.
LEMMA LeaveSinkKeeps ==
    ASSUME TypeInv, CallShape, MutexOwner, NEW t \in Threads, LeaveSink(t),
           pc[t] \in {"write", "set"}, msg' = [msg EXCEPT ![t] = "none"]
    PROVE  CallShape' /\ MutexOwner'
<1>1. CallShape'
    <2> SUFFICES ASSUME NEW u \in Threads
                 PROVE  /\ pc'[u] \in {"get", "set"} => k'[u] = Cb
                        /\ msg'[u] # "none" => u # GUI /\ pc'[u] \in {"get", "set", "show"}
        BY DEF CallShape
    <2>1. CASE u = t
        BY <2>1 DEF TypeInv, TypeOK, LeaveSink
    <2>2. CASE u # t
        BY <2>2 DEF TypeInv, TypeOK, LeaveSink, CallShape
    <2> QED BY <2>1, <2>2
<1>2. MutexOwner'
    <2> SUFFICES ASSUME NEW s \in Sinks, NEW u \in Threads
                 PROVE  mutex'[s] = u <=> Inside(u, s)'
        BY DEF MutexOwner
    <2>1. mutex[k[t]] = t /\ k[t] \in Sinks /\ NoThread \notin Threads
        BY DEF TypeInv, TypeOK, MutexOwner, Inside, NoThread, Threads
    <2>2. ~Inside(t, s)'
        BY DEF TypeInv, TypeOK, LeaveSink, Inside
    <2>3. u # t => (Inside(u, s)' <=> Inside(u, s))
        BY DEF TypeInv, TypeOK, LeaveSink, Inside
    <2>4. mutex'[s] = IF s = k[t] THEN NoThread ELSE mutex[s]
        BY <2>1 DEF TypeInv, TypeOK, LeaveSink, Released
    <2>5. mutex[s] = u <=> Inside(u, s)
        BY DEF MutexOwner
    <2>6. mutex[s] = t => s = k[t]
        BY DEF MutexOwner, Inside
    <2> QED BY <2>1, <2>2, <2>3, <2>4, <2>5, <2>6
<1> QED BY <1>1, <1>2

LEMMA NextMutex ==
    TypeInv /\ GuiIdle /\ CallShape /\ MutexOwner /\ [Next]_vars => CallShape' /\ MutexOwner'
<1> SUFFICES ASSUME TypeInv, GuiIdle, CallShape, MutexOwner, [Next]_vars
             PROVE  CallShape' /\ MutexOwner'
    OBVIOUS
<1>a. GUI \in Threads /\ Senders \subseteq Threads /\ GUI \notin Senders
    BY DEF GUI, Threads, Senders
<1>1. ASSUME NEW n \in Counts, ClickSend(n) PROVE CallShape' /\ MutexOwner'
    <2>1. UNCHANGED <<k, msg, mutex>>
        BY <1>1 DEF ClickSend, call
    <2>2. pc' = pc \/ pc' = [pc EXCEPT ![GUI] = "load"]
        BY <1>1 DEF ClickSend, call
    <2>3. pc[GUI] = "top"
        BY <1>1 DEF ClickSend, GuiIdle
    <2> QED BY <2>1, <2>2, <2>3, <1>a DEF TypeInv, TypeOK, CallShape, MutexOwner, Inside
<1>2. ASSUME QuietHandler PROVE  CallShape' /\ MutexOwner'
    BY <1>2, HandlerFrame, FrameKeeps
<1>3. ASSUME NEW t \in Threads, Load(t) \/ Store(t) PROVE CallShape' /\ MutexOwner'
    BY <1>3 DEF TypeInv, TypeOK, CallShape, MutexOwner, Inside, Load, Store
<1>4. ASSUME NEW t \in Threads, Lock(t) PROVE CallShape' /\ MutexOwner'
    BY <1>4 DEF TypeInv, TypeOK, CallShape, MutexOwner, Inside, Lock, SinkFree, NoThread, Threads
<1>5. ASSUME NEW t \in Threads, Write(t) PROVE CallShape' /\ MutexOwner'
    <2>1. msg[t] = "none"
        BY <1>5 DEF Write, CallShape
    <2> QED BY <1>5, <2>1, LeaveSinkKeeps DEF Write, TypeInv, TypeOK
<1>6. ASSUME GetTextDirect PROVE CallShape' /\ MutexOwner'
    BY <1>6, <1>a DEF TypeInv, TypeOK, CallShape, MutexOwner, Inside, GetTextDirect
<1>7. ASSUME SetTextDirect PROVE CallShape' /\ MutexOwner'
    <2>1. msg[GUI] = "none"
        BY <1>a DEF CallShape
    <2> QED BY <1>7, <1>a, <2>1, LeaveSinkKeeps DEF SetTextDirect, TypeInv, TypeOK
<1>8. ASSUME NEW t \in Senders, LoopTop(t) PROVE CallShape' /\ MutexOwner'
    BY <1>8, <1>a DEF TypeInv, TypeOK, CallShape, MutexOwner, Inside, LoopTop
<1>9. ASSUME NEW t \in Senders, EndStale(t) \/ CallStale(t) \/ UseDestroyed(t)
      PROVE  CallShape' /\ MutexOwner'
    BY <1>9, CrashFrame, FrameKeeps DEF EndStale, CallStale, UseDestroyed
<1>10. ASSUME NEW t \in Senders, CallGui(t) \/ Dispatch(t) \/ DispatchGone(t)
       PROVE  CallShape' /\ MutexOwner'
    BY <1>10, <1>a DEF TypeInv, TypeOK, CallShape, MutexOwner, Inside, CallGui, Dispatch, DispatchGone
<1>11. ASSUME NEW t \in Senders, Return(t) PROVE CallShape' /\ MutexOwner'
    <2>1. CASE pc[t] = "set"
        BY <1>11, <1>a, <2>1, LeaveSinkKeeps DEF Return
    <2>2. CASE pc[t] # "set"
        BY <1>11, <1>a, <2>2 DEF TypeInv, TypeOK, CallShape, MutexOwner, Inside, Return
    <2> QED BY <2>1, <2>2
<1>12. CASE UNCHANGED vars
    BY <1>12, FrameKeeps DEF vars, call
<1> QED
    BY <1>1, <1>2, <1>3, <1>4, <1>5, <1>6, <1>7, <1>8, <1>9, <1>10, <1>11, <1>12
    DEF Next, UserStep, QuietHandler, LogStep, SenderStep, GuiServes

\* The callback sink's mutex lets one thread at a time be at the window.
LEMMA OneAtTheWindow ==
    ASSUME TypeInv, CallShape, MutexOwner, NEW t \in Threads, NEW u \in Threads,
           pc[t] \in {"get", "set"}, pc[u] \in {"get", "set"}
    PROVE  t = u
<1>1. Cb \in Sinks
    BY DEF Sinks
<1>2. Inside(t, Cb) /\ Inside(u, Cb)
    BY DEF CallShape, Inside
<1> QED BY <1>1, <1>2 DEF MutexOwner

LEMMA NextEditIntact == SafetyInv /\ [Next]_vars => EditIntact'
<1> SUFFICES ASSUME SafetyInv, [Next]_vars, ~Closed', NEW u \in Threads, BetweenGetAndSet(u)'
             PROVE  buf'[u] = text'
    BY DEF EditIntact
<1>a. GUI \in Threads /\ Senders \subseteq Threads /\ GUI \notin Senders
    BY DEF GUI, Threads, Senders
<1>b. ~Closed
    BY ClosedForever DEF SafetyInv, TypeInv
<1>c. BetweenGetAndSet(u) => buf[u] = text
    BY <1>b DEF SafetyInv, EditIntact
<1>d. ASSUME UNCHANGED <<pc, msg, buf, text>> PROVE buf'[u] = text'
    BY <1>c, <1>d DEF BetweenGetAndSet
<1> USE DEF SafetyInv, TypeInv, TypeOK
<1>1. ASSUME NEW n \in Counts, ClickSend(n) PROVE buf'[u] = text'
    BY <1>1, <1>a, <1>c DEF ClickSend, call, BetweenGetAndSet
<1>2. ASSUME QuietHandler PROVE  buf'[u] = text'
    BY <1>2, <1>d, HandlerFrame
<1>3. ASSUME NEW t \in Threads, Load(t) \/ Store(t) PROVE buf'[u] = text'
    BY <1>3, <1>c DEF Load, Store, BetweenGetAndSet
<1>4. ASSUME NEW t \in Threads, Lock(t) PROVE buf'[u] = text'
    BY <1>4, <1>c DEF Lock, BetweenGetAndSet, CallShape
<1>5. ASSUME NEW t \in Threads, Write(t) PROVE buf'[u] = text'
    BY <1>5, <1>c DEF Write, LeaveSink, BetweenGetAndSet
<1>6. ASSUME GetTextDirect PROVE buf'[u] = text'
    BY <1>6, <1>a, <1>c DEF GetTextDirect, BetweenGetAndSet
<1>7. ASSUME SetTextDirect PROVE buf'[u] = text'
    <2>1. u # GUI /\ pc[u] \in {"get", "set"}
        BY <1>7, <1>a DEF SetTextDirect, LeaveSink, BetweenGetAndSet
    <2> QED BY <1>7, <1>a, <2>1, OneAtTheWindow DEF SetTextDirect
<1>8. ASSUME NEW t \in Senders, LoopTop(t) PROVE buf'[u] = text'
    BY <1>8, <1>a, <1>c DEF LoopTop, BetweenGetAndSet
<1>9. ASSUME NEW t \in Senders, EndStale(t) \/ CallStale(t) \/ UseDestroyed(t)
      PROVE  buf'[u] = text'
    BY <1>9, CrashFrame DEF EndStale, CallStale, UseDestroyed
<1>10. ASSUME NEW t \in Senders, CallGui(t) PROVE buf'[u] = text'
    BY <1>10, <1>a, <1>c DEF CallGui, BetweenGetAndSet
<1>11. ASSUME NEW t \in Senders, Dispatch(t) PROVE buf'[u] = text'
    <2>1. CASE pc[t] = "get"
        BY <1>11, <1>a, <1>c, <2>1 DEF Dispatch, BetweenGetAndSet
    <2>2. CASE pc[t] = "set"
        <3>1. u # t /\ pc[u] \in {"get", "set"}
            BY <1>11, <1>a, <2>2 DEF Dispatch, BetweenGetAndSet
        <3> QED BY <1>a, <2>2, <3>1, OneAtTheWindow
    <2>3. CASE pc[t] \notin {"get", "set"}
        BY <1>11, <1>a, <1>c, <2>3 DEF Dispatch, BetweenGetAndSet
    <2> QED BY <2>1, <2>2, <2>3
<1>12. ASSUME NEW t \in Senders, DispatchGone(t) PROVE buf'[u] = text'
    BY <1>12, <1>b DEF DispatchGone, Closed
<1>13. ASSUME NEW t \in Senders, Return(t) PROVE buf'[u] = text'
    <2>1. CASE pc[t] = "set"
        BY <1>13, <1>a, <1>c, <2>1 DEF Return, LeaveSink, BetweenGetAndSet
    <2>2. CASE pc[t] # "set"
        BY <1>13, <1>a, <1>c, <2>2 DEF Return, BetweenGetAndSet
    <2> QED BY <2>1, <2>2
<1>14. CASE UNCHANGED vars
    BY <1>14, <1>d DEF vars, call
<1> QED
    BY <1>1, <1>2, <1>3, <1>4, <1>5, <1>6, <1>7, <1>8, <1>9, <1>10, <1>11, <1>12, <1>13, <1>14
    DEF Next, UserStep, QuietHandler, LogStep, SenderStep, GuiServes

LEMMA NextSafetyInv == SafetyInv /\ [Next]_vars => SafetyInv'
BY NextTypeInv, NextGuiIdle, NextMutex, NextEditIntact DEF SafetyInv

\* Each sink's mutex is owned by exactly the thread inside the sink.
THEOREM MutexCorrect == Spec => []MutexOwner
<1>1. SafetyInv => MutexOwner
    BY DEF SafetyInv
<1> QED BY InitSafetyInv, NextSafetyInv, <1>1, PTL DEF Spec

\* The text read by callbackLog is the window's text when it is written back.
THEOREM EditCorrect == Spec => []EditIntact
<1>1. SafetyInv => EditIntact
    BY DEF SafetyInv
<1> QED BY InitSafetyInv, NextSafetyInv, <1>1, PTL DEF Spec

-----------------------------------------------------------------------------
(* Suspension.  The check box handler goes through the threads one by one, *)
(* so the invariant says what holds of those it has reached and of those   *)
(* it has not.                                                             *)

\* The last click on the check box has been applied to sender i.
Handled(i) ==
    \/ phase \in {"pump", "msgbox", "send"}
    \/ phase \in {"starting", "stopping"} /\ i < gi

\* The flag follows the box, and each handler runs for its own click.
FlagInv ==
    /\ m_bSendRep <=> checked
    /\ phase = "starting" => checked
    /\ phase = "stopping" => ~checked

\* A sender has its object from its start to its end, is suspended at most
\* once, and exactly when the last click that reached it was a stop.
SuspInv(i) ==
    /\ obj[i] = "null" => th[i] = "none" /\ susp[i] = 0
    /\ obj[i] = "valid" => th[i] = "live"
    /\ ~Closed =>
        /\ obj[i] = "valid" /\ checked /\ Handled(i) => susp[i] = 0
        /\ obj[i] = "valid" /\ checked /\ ~Handled(i) => susp[i] = 1
        /\ obj[i] = "valid" /\ ~checked /\ Handled(i) => susp[i] = 1
        /\ obj[i] = "valid" /\ ~checked /\ ~Handled(i) => susp[i] = 0
        /\ (checked /\ Handled(i)) \/ (~checked /\ ~Handled(i)) => obj[i] # "null"

ThreadInv == FlagInv /\ \A i \in Senders : SuspInv(i)

LEMMA InitThreadInv == Init => ThreadInv
BY DEF Init, ThreadInv, FlagInv, SuspInv, Handled

\* Steps that touch neither the senders' objects nor the check box.
LEMMA FrameThreadInv ==
    ASSUME ThreadInv, UNCHANGED <<th, obj, susp, checked, m_bSendRep, gi>>,
           \/ phase' = phase
           \/ phase \in {"pump", "msgbox", "send"} /\ phase' \in {"pump", "msgbox", "send"}
           \/ Closed'
    PROVE  ThreadInv'
<1>1. FlagInv'
    BY DEF ThreadInv, FlagInv, Closed
<1>2. ASSUME NEW i \in Senders PROVE SuspInv(i)'
    BY DEF ThreadInv, SuspInv, Handled, Closed
<1> QED BY <1>1, <1>2 DEF ThreadInv

LEMMA NextThreadInv == TypeOK /\ ThreadInv /\ [Next]_vars => ThreadInv'
<1> SUFFICES ASSUME TypeOK, ThreadInv, [Next]_vars PROVE ThreadInv'
    OBVIOUS
<1>1. ASSUME NEW n \in Counts, ClickSend(n) PROVE ThreadInv'
    BY <1>1, FrameThreadInv DEF ClickSend, object
<1>2. ASSUME ClickCheck \/ ClickUncheck PROVE ThreadInv'
    <2>1. FlagInv'
        BY <1>2 DEF ClickCheck, ClickUncheck, FlagInv
    <2>2. ASSUME NEW i \in Senders PROVE SuspInv(i)'
        <3>1. ~(i < 1)
            BY DEF Senders
        <3> QED BY <1>2, <3>1 DEF ClickCheck, ClickUncheck, ThreadInv, SuspInv, Handled, Closed, object
    <2> QED BY <2>1, <2>2 DEF ThreadInv
<1>3. ASSUME StartOrResume \/ Suspend PROVE ThreadInv'
    <2>a. gi \in 1..NSenders /\ UNCHANGED <<checked, m_bSendRep>>
        BY <1>3 DEF TypeOK, Senders, StartOrResume, Suspend
    <2>b. \/ gi < NSenders /\ gi' = gi + 1 /\ phase' = phase
          \/ gi = NSenders /\ phase = "starting" /\ phase' = "pump"
          \/ gi = NSenders /\ phase = "stopping" /\ phase' = "msgbox"
        BY <1>3, <2>a DEF StartOrResume, Suspend, NextThread
    <2>1. FlagInv'
        BY <1>3, <2>a, <2>b DEF ThreadInv, FlagInv
    <2>2. ASSUME NEW i \in Senders PROVE SuspInv(i)'
        <3>0. i \in 1..NSenders /\ SuspInv(i) /\ FlagInv /\ ~Closed
            BY <1>3 DEF ThreadInv, Senders, StartOrResume, Suspend, Closed
        <3>1. CASE i = gi
            <4>1. Handled(i)' /\ ~Handled(i)
                BY <1>3, <2>a, <2>b, <3>1 DEF Handled, StartOrResume, Suspend
            <4>2. CASE StartOrResume
                <5>1. checked
                    BY <3>0, <4>2 DEF StartOrResume, FlagInv
                <5>2. obj'[i] # "null" /\ (obj'[i] = "valid" => th'[i] = "live" /\ susp'[i] = 0)
                    BY <3>0, <3>1, <4>1, <4>2, <5>1
                    DEF TypeOK, StartOrResume, SuspInv, object
                <5> QED BY <2>a, <4>1, <5>1, <5>2 DEF SuspInv
            <4>3. CASE Suspend
                <5>1. ~checked
                    BY <3>0, <4>3 DEF Suspend, FlagInv
                <5>2. obj'[i] = obj[i] /\ th'[i] = th[i] /\ obj[i] # "null"
                      /\ (obj[i] = "valid" => susp'[i] = 1)
                    BY <3>0, <3>1, <4>1, <4>3, <5>1
                    DEF TypeOK, Suspend, SuspendThread, SuspInv
                <5> QED BY <2>a, <3>0, <4>1, <5>1, <5>2 DEF SuspInv
            <4> QED BY <1>3, <4>2, <4>3
        <3>2. CASE i # gi
            <4>1. obj'[i] = obj[i] /\ th'[i] = th[i] /\ susp'[i] = susp[i]
                BY <1>3, <3>2 DEF TypeOK, StartOrResume, Suspend, SuspendThread, object
            <4>2. Handled(i)' <=> Handled(i)
                BY <1>3, <2>a, <2>b, <3>0, <3>2 DEF Handled, StartOrResume, Suspend
            <4> QED BY <2>a, <3>0, <4>1, <4>2 DEF SuspInv
        <3> QED BY <3>1, <3>2
    <2> QED BY <2>1, <2>2 DEF ThreadInv
<1>4. ASSUME Crash PROVE ThreadInv'
    BY <1>4, FrameThreadInv DEF Crash, Closed, object
<1>5. ASSUME DismissBox \/ Escape \/ Exit PROVE ThreadInv'
    BY <1>5, FrameThreadInv DEF DismissBox, Escape, Exit, Closed, object
<1>6. ASSUME Close \/ \E v \in BOOLEAN : ClickOk(v) PROVE ThreadInv'
    <2>1. FlagInv'
        BY <1>6 DEF Close, ClickOk, ThreadInv, FlagInv
    <2>2. ASSUME NEW i \in Senders PROVE SuspInv(i)'
        <3>1. obj'[i] = obj[i] \/ (obj[i] = "valid" /\ obj'[i] = "freed")
            BY <1>6 DEF TypeOK, Close, ClickOk, CloseAll
        <3>2. phase = "pump" /\ phase' \in {"gone", "msgbox"}
              /\ UNCHANGED <<th, susp, checked>>
            BY <1>6 DEF Close, ClickOk
        <3> QED BY <3>1, <3>2 DEF ThreadInv, SuspInv, Handled, Closed
    <2> QED BY <2>1, <2>2 DEF ThreadInv
<1>7. ASSUME NEW t \in Threads, LogStep(t) \/ Lock(t) PROVE ThreadInv'
    <2>1. UNCHANGED <<th, obj, susp, checked, m_bSendRep, gi>>
        BY <1>7 DEF LogStep, Load, Store, Write, Lock, LeaveSink, gui, object
    <2>2. phase' = phase \/ (phase = "send" /\ phase' = "msgbox")
        BY <1>7 DEF LogStep, Load, Store, Write, Lock, LeaveSink, Runs, gui
    <2> QED BY <2>1, <2>2, FrameThreadInv
<1>8. ASSUME GetTextDirect \/ SetTextDirect PROVE ThreadInv'
    <2>1. UNCHANGED <<th, obj, susp, checked, m_bSendRep, gi>>
        BY <1>8 DEF GetTextDirect, SetTextDirect, LeaveSink, gui, object
    <2>2. phase' = phase \/ (phase = "send" /\ phase' = "msgbox")
        BY <1>8 DEF GetTextDirect, SetTextDirect, LeaveSink, Runs, gui
    <2> QED BY <2>1, <2>2, FrameThreadInv
<1>9. ASSUME NEW t \in Senders, LoopTop(t) PROVE ThreadInv'
    <2>1. UNCHANGED <<phase, checked, m_bSendRep, gi, susp>> /\ th[t] = "live"
        BY <1>9 DEF LoopTop, Runs, gui, Senders, GUI
    <2>2. ASSUME NEW i \in Senders
          PROVE  \/ obj'[i] = obj[i] /\ th'[i] = th[i]
                 \/ obj'[i] = "freed"
        BY <1>9 DEF TypeOK, LoopTop
    <2>3. ASSUME NEW i \in Senders PROVE SuspInv(i)'
        BY <2>1, <2>2 DEF ThreadInv, SuspInv, Handled, Closed
    <2>4. FlagInv'
        BY <2>1 DEF ThreadInv, FlagInv
    <2> QED BY <2>3, <2>4 DEF ThreadInv
<1>10. ASSUME NEW t \in Senders, CallGui(t) \/ Return(t) \/ Dispatch(t) \/ DispatchGone(t)
       PROVE  ThreadInv'
    <2>1. t # GUI
        BY DEF Senders, GUI
    <2>2. UNCHANGED <<th, obj, susp, checked, m_bSendRep, gi, phase>>
        BY <1>10, <2>1 DEF CallGui, Return, Dispatch, DispatchGone, LeaveSink, gui, object
    <2> QED BY <2>2, FrameThreadInv
<1>11. CASE UNCHANGED vars
    BY <1>11, FrameThreadInv DEF vars, gui, object
<1> QED
    BY <1>1, <1>2, <1>3, <1>4, <1>5, <1>6, <1>7, <1>8, <1>9, <1>10, <1>11
    DEF Next, UserStep, HandlerStep, SenderStep, GuiServes, StaleHandle, DoubleDelete, RacyExchange,
        EndStale, CallStale, UseDestroyed

LEMMA ThreadsAlways == Spec => [](TypeOK /\ ThreadInv)
<1>1. TypeInv => TypeOK
    BY DEF TypeInv
<1> QED BY InitTypeInv, NextTypeInv, InitThreadInv, NextThreadInv, <1>1, PTL DEF Spec

\* After a stop every sender that still has its object is suspended once.
THEOREM StopCorrect == Spec => []StopQuiesces
<1>1. ThreadInv => StopQuiesces
    BY DEF ThreadInv, SuspInv, Handled, Closed, Pumping, StopQuiesces
<1> QED BY ThreadsAlways, <1>1, PTL

\* After a start every sender that still has its object runs.
THEOREM StartCorrect == Spec => []StartResumes
<1>1. TypeOK /\ ThreadInv => StartResumes
    <2> SUFFICES ASSUME TypeOK, ThreadInv, phase = "pump", checked, NEW i \in Senders
                 PROVE  m_bSendRep /\ (obj[i] = "freed"
                            \/ (obj[i] = "valid" /\ th[i] = "live" /\ susp[i] = 0))
        BY DEF StartResumes, ThreadInv, FlagInv
    <2>1. obj[i] \in {"null", "valid", "freed"}
        BY DEF TypeOK
    <2> QED BY <2>1 DEF ThreadInv, FlagInv, SuspInv, Handled, Closed
<1> QED BY ThreadsAlways, <1>1, PTL

-----------------------------------------------------------------------------
(* LogFields: for any number of rows and any limit that a UINT can hold.   *)

\* What the history variable sent says of the last Send, in terms of the row it
\* read: the call its level selects, and the count when nothing broke the
\* exchange off before it.
SentInv ==
    sent # NothingSent =>
        /\ sent.name \in Names
        /\ sent.lvl = SpdLevel(sent.name)
        /\ sent.clean /\ Readable(sent.shown) =>
              /\ sent.n = AsUInt(sent.shown)
              /\ Valid(sent.shown) => sent.n = sent.shown

FieldsInv == FieldsTypeOK /\ SentInv

-----------------------------------------------------------------------------
\* A valid count is the same number as an int and as a UINT.
LEMMA ValidAsUInt ==
    ASSUME NEW v \in Numbers \cup {Bad}, Valid(v)
    PROVE  v \in Nat /\ AsUInt(v) = v
<1>1. v \in Int /\ 0 <= v /\ v <= Limit /\ Limit < UIntValues /\ UIntValues \in Nat /\ Limit \in Nat
  BY NumberAssumption DEF Valid, Readable
<1>2. v \in 0..UIntValues - 1
  BY <1>1
<1>3. \A x \in 0..UIntValues - 1 : x % UIntValues = x
  BY <1>1, SMT
<1> QED
  BY <1>2, <1>3 DEF AsUInt

\* The conversion to UINT, of any int.
LEMMA AsUIntType ==
    ASSUME NEW n \in Int
    PROVE  AsUInt(n) \in 0..UIntValues - 1
<1>1. UIntValues \in Nat /\ UIntValues > 0
  BY NumberAssumption
<1>2. n % UIntValues \in 0..UIntValues - 1
  BY <1>1, SMT
<1> QED
  BY <1>2 DEF AsUInt

\* An exchange leaves a number in every count.
LEMMA ExchangedType ==
    ASSUME FieldsTypeOK
    PROVE  Exchanged(ctlCnt) \in [Rows -> Int]
<1>1. \A i \in Rows : Readable(ctlCnt[i]) => ctlCnt[i] \in Int
  BY NumberAssumption DEF FieldsTypeOK, Readable
<1> QED
  BY <1>1 DEF FieldsTypeOK, Exchanged

\* The call for a name is one of the six.
LEMMA SpdLevelType == \A name \in Names : SpdLevel(name) \in Levels
  BY DEF Names, Levels, SpdLevel

-----------------------------------------------------------------------------
LEMMA InitFields == FieldsInit => FieldsInv
<1> SUFFICES ASSUME FieldsInit PROVE FieldsInv
  OBVIOUS
<1>1. Choices \subseteq Names /\ Numbers \subseteq Int
  BY ChoicesAssumption, NumberAssumption
<1> QED
  BY <1>1 DEF FieldsInit, FieldsInv, FieldsTypeOK, SentInv

\* The record a Send leaves.
LEMMA SendFields ==
    ASSUME FieldsInv, NEW i \in Rows, Send(i)
    PROVE  FieldsInv'
<1>1. FieldsTypeOK
  BY DEF FieldsInv
<1>2. /\ strLevel' = ctlLevel /\ nCnt' = Exchanged(ctlCnt)
      /\ ctlLevel' = ctlLevel /\ ctlCnt' = ctlCnt
  BY DEF Send, UpdateData
<1>3. sent' = [row |-> i, lvl |-> SpdLevel(ctlLevel[i]), n |-> AsUInt(nCnt'[i]),
               name |-> ctlLevel[i], shown |-> ctlCnt[i],
               clean |-> \A j \in 1..i - 1 : Valid(ctlCnt[j])]
  BY <1>2 DEF Send
<1>4. ctlLevel[i] \in Names /\ ctlCnt[i] \in Numbers \cup {Bad}
  BY <1>1 DEF FieldsTypeOK
<1>5. nCnt' \in [Rows -> Int] /\ AsUInt(nCnt'[i]) \in 0..UIntValues - 1
  BY <1>1, <1>2, ExchangedType, AsUIntType
<1>6. sent' \in [row : Rows, lvl : Levels, n : 0..UIntValues - 1,
                 name : Names, shown : Numbers \cup {Bad}, clean : BOOLEAN]
  BY <1>3, <1>4, <1>5, SpdLevelType
<1>7. FieldsTypeOK'
  BY <1>1, <1>2, <1>5, <1>6 DEF FieldsTypeOK
<1>8. ASSUME \A j \in 1..i - 1 : Valid(ctlCnt[j]), Readable(ctlCnt[i])
      PROVE  /\ AsUInt(nCnt'[i]) = AsUInt(ctlCnt[i])
             /\ Valid(ctlCnt[i]) => AsUInt(nCnt'[i]) = ctlCnt[i]
  <2>1. Reached(ctlCnt, i)
    BY <1>8 DEF Reached
  <2>2. nCnt'[i] = ctlCnt[i]
    BY <1>2, <1>8, <2>1 DEF Exchanged
  <2> QED
    BY <1>4, <2>2, ValidAsUInt
<1>9. SentInv'
  <2>1. /\ sent'.name = ctlLevel[i] /\ sent'.lvl = SpdLevel(ctlLevel[i])
        /\ sent'.n = AsUInt(nCnt'[i]) /\ sent'.shown = ctlCnt[i]
        /\ sent'.clean = \A j \in 1..i - 1 : Valid(ctlCnt[j])
    BY <1>3
  <2>2. sent'.clean /\ Readable(sent'.shown) =>
           /\ sent'.n = AsUInt(sent'.shown)
           /\ Valid(sent'.shown) => sent'.n = sent'.shown
    BY <1>8, <2>1
  <2> QED
    BY <1>4, <2>1, <2>2 DEF SentInv
<1> QED
  BY <1>7, <1>9 DEF FieldsInv

LEMMA StepFields == FieldsInv /\ [FieldsNext]_fieldVars => FieldsInv'
<1> SUFFICES ASSUME FieldsInv, [FieldsNext]_fieldVars PROVE FieldsInv'
  OBVIOUS
<1>1. ASSUME NEW i \in Rows, NEW name \in Choices, PickLevel(i, name) PROVE FieldsInv'
  <2>1. name \in Names
    BY ChoicesAssumption
  <2> QED
    BY <1>1, <2>1 DEF PickLevel, FieldsInv, FieldsTypeOK, SentInv
<1>2. ASSUME NEW i \in Rows, NEW v \in Numbers \cup {Bad}, TypeCount(i, v) PROVE FieldsInv'
  BY <1>2 DEF TypeCount, FieldsInv, FieldsTypeOK, SentInv
<1>3. ASSUME NEW i \in Rows, Send(i) PROVE FieldsInv'
  BY <1>3, SendFields
<1>4. CASE CheckSendRep
  <2>1. nCnt' \in [Rows -> Int]
    BY <1>4, ExchangedType DEF CheckSendRep, UpdateData, FieldsInv
  <2> QED
    BY <1>4, <2>1 DEF CheckSendRep, UpdateData, FieldsInv, FieldsTypeOK, SentInv
<1>5. CASE UNCHANGED fieldVars
  BY <1>5 DEF fieldVars, FieldsInv, FieldsTypeOK, SentInv
<1> QED
  BY <1>1, <1>2, <1>3, <1>4, <1>5 DEF FieldsNext

LEMMA FieldsCorrect == FieldsSpec => []FieldsInv
<1> QED
  BY InitFields, StepFields, PTL DEF FieldsSpec

\* A Send logs as many messages as its row shows as long as no row above it is
\* invalid, even if its own count has been refused (LogMakerDlg.cpp:129-138,
\* 327-331, 453), for any number of rows.
THEOREM FreshCorrect == FieldsSpec => []FreshAboveInvalid
<1>1. FieldsInv => FreshAboveInvalid
  BY DEF FieldsInv, SentInv, FreshAboveInvalid, HasSent
<1> QED
  BY <1>1, FieldsCorrect, PTL

\* A Send logs at the level its row shows and at no other (LogMakerDlg.cpp:421-435):
\* names other than Off have calls of their own.
THEOREM LevelCorrect == FieldsSpec => []LevelAsShown
<1>1. ASSUME NEW a \in Names \ {"Off"}, NEW b \in Names \ {"Off", a}
      PROVE  SpdLevel(a) # SpdLevel(b)
  BY DEF Names, SpdLevel
<1>2. FieldsInv => LevelAsShown
  BY <1>1 DEF FieldsInv, SentInv, LevelAsShown, HasSent
<1> QED
  BY <1>2, FieldsCorrect, PTL
=============================================================================
