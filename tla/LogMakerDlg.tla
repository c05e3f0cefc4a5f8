---------------------------- MODULE LogMakerDlg ----------------------------
(***************************************************************************)
(* The dialog of LogMaker (src/LogMakerDlg.cpp) and the threads it starts. *)
(*                                                                         *)
(* The GUI thread runs one handler at a time and, between handlers and     *)
(* while a message box is open, dispatches the window messages that the    *)
(* sender threads wait for.  A log call takes the mutex of every sink in   *)
(* turn; the callback sink calls callbackLog under its mutex, which reads  *)
(* and rewrites the edit window.  From a sender thread each access to the  *)
(* window is a synchronous SendMessage to the GUI thread.                  *)
(*                                                                         *)
(* Undefined behaviour of the code (a pointer to a deleted CWinThread) is  *)
(* the choice between a crash and no effect.                               *)
(***************************************************************************)
EXTENDS Integers, Sequences

CONSTANTS
    NSenders,   \* sender threads: 2 in the code (m_pThreadSend, m_pThreadSend2)
    NSinks,     \* sinks of the logger that are switched on
    Cb,         \* position of the callback sink among them
    Batch,      \* messages of one sendLogAllMsg: 5 in the code
    Counts,     \* values the user can type for nCnt1..nCnt10
    UIntMod,    \* 2^32 in the code: int -> UINT, and g_nSendCnt
    TextCap     \* bound of the model: newest lines of the edit window kept

ASSUME SendersAssumption == NSenders \in Nat \ {0}
ASSUME SinksAssumption   == NSinks \in Nat \ {0} /\ Cb \in 1..NSinks
ASSUME BatchAssumption   == Batch \in Nat \ {0} /\ Counts \subseteq Int
ASSUME BoundsAssumption  == UIntMod \in Nat \ {0} /\ TextCap \in Nat

GUI      == 0
Senders  == 1..NSenders
Threads  == 0..NSenders
Sinks    == 1..NSinks
NoThread == -1

VARIABLES
    phase,       \* what the GUI thread is doing
    checked,     \* the check box IDC_CHECK_SendRep
    m_bSendRep,  \* the flag the sender loops read
    gi,          \* the thread OnBnClickedCheckSendrep is about to resume or suspend
    th,          \* operating system thread of each sender
    obj,         \* its CWinThread object, as m_pThreadSend points to it
    susp,        \* its suspend count
    pc, k,       \* where each thread is in a log call, and at which sink
    loaded,      \* g_nSendCnt as read by g_nSendCnt++
    batch,       \* messages left in sendLogAllMsg or in sendLogMsgCnt
    buf,         \* the text callbackLog has read
    msg,         \* the thread's synchronous SendMessage to the GUI thread
    mutex,       \* owner of each sink's mutex
    g_nSendCnt,  \* the global message counter
    text         \* IDC_EDIT_SentLogs: who logged each line, newest first

gui    == <<phase, checked, m_bSendRep, gi>>
object == <<th, obj, susp>>
call   == <<pc, k, loaded, batch, buf, msg>>
vars   == <<gui, object, call, mutex, g_nSendCnt, text>>

Phases == {"pump", "msgbox", "send", "starting", "stopping",
           "gone", "exited", "crashed"}
PCs    == {"top", "load", "store", "lock", "write", "get", "set", "show"}
Texts  == {s \in Seq(Threads) : Len(s) <= TextCap}

TypeOK ==
    /\ phase \in Phases
    /\ checked \in BOOLEAN
    /\ m_bSendRep \in BOOLEAN
    /\ gi \in Senders
    /\ th \in [Senders -> {"none", "live", "done"}]
    /\ obj \in [Senders -> {"null", "valid", "freed"}]
    /\ susp \in [Senders -> Nat]
    /\ pc \in [Threads -> PCs]
    /\ k \in [Threads -> Sinks]
    /\ loaded \in [Threads -> 0..UIntMod - 1]
    /\ batch \in [Threads -> Nat]
    /\ buf \in [Threads -> Texts]
    /\ msg \in [Threads -> {"none", "sent", "answered"}]
    /\ mutex \in [Sinks -> Threads \cup {NoThread}]
    /\ g_nSendCnt \in 0..UIntMod - 1
    /\ text \in Texts

Init ==
    /\ phase = "pump" /\ checked = FALSE /\ m_bSendRep = FALSE /\ gi = 1
    /\ th = [i \in Senders |-> "none"]
    /\ obj = [i \in Senders |-> "null"]
    /\ susp = [i \in Senders |-> 0]
    /\ pc = [t \in Threads |-> "top"]
    /\ k = [t \in Threads |-> 1]
    /\ loaded = [t \in Threads |-> 0]
    /\ batch = [t \in Threads |-> 0]
    /\ buf = [t \in Threads |-> <<>>]
    /\ msg = [t \in Threads |-> "none"]
    /\ mutex = [s \in Sinks |-> NoThread]
    /\ g_nSendCnt = 0
    /\ text = <<>>

-----------------------------------------------------------------------------
(* Helpers.                                                                *)

\* The GUI thread is inside a message loop: its own or a message box's.
Pumping == phase \in {"pump", "msgbox"}

\* The dialog window no longer exists.
Closed == phase \in {"gone", "exited", "crashed"}

\* The process is over.
Over == phase \in {"exited", "crashed"}

\* Thread t can execute an instruction of a log call.
Runs(t) ==
    IF t = GUI THEN phase = "send"
    ELSE th[t] = "live" /\ susp[t] = 0 /\ ~Over

\* str.Insert(0, line), cut to the newest TextCap lines.
Push(t, s) ==
    LET all == <<t>> \o s IN SubSeq(all, 1, IF Len(all) > TextCap THEN TextCap ELSE Len(all))

\* std::mutex of base_sink, the CRITICAL_SECTION of postgresql_sink: only a
\* free mutex can be taken.  (Variant: callback_sink_st, with a null_mutex.)
SinkFree_CallbackSt(s) == mutex[s] = NoThread \/ s = Cb
SinkFree(s) == mutex[s] = NoThread

\* The mutexes after thread t has left its sink.  (Variant: a sink that locks
\* by hand and returns early.)
Released_EarlyReturn(t) ==
    IF k[t] = Cb THEN [mutex EXCEPT ![k[t]] = NoThread] ELSE mutex
Released(t) == [mutex EXCEPT ![k[t]] = NoThread]

Crash == phase' = "crashed" /\ UNCHANGED <<checked, m_bSendRep, gi, object, call,
                                           mutex, g_nSendCnt, text>>

-----------------------------------------------------------------------------
(* Handlers of the GUI thread.                                             *)

\* OnBnClickedButtonSend1..10: the result of UpdateData is not looked at, and
\* sendLogMsgCnt takes the signed count as UINT.
ClickSend(n) ==
    /\ phase = "pump"
    /\ IF n % UIntMod = 0
       THEN /\ phase' = "msgbox"
            /\ UNCHANGED call
       ELSE /\ phase' = "send"
            /\ pc' = [pc EXCEPT ![GUI] = "load"]
            /\ batch' = [batch EXCEPT ![GUI] = n % UIntMod]
            /\ UNCHANGED <<k, loaded, buf, msg>>
    /\ UNCHANGED <<checked, m_bSendRep, gi, object, mutex, g_nSendCnt, text>>

\* OnBnClickedCheckSendrep, the box now checked: up to line 516.
ClickCheck ==
    /\ phase = "pump" /\ ~checked
    /\ phase' = "starting" /\ checked' = TRUE /\ m_bSendRep' = TRUE /\ gi' = 1
    /\ UNCHANGED <<object, call, mutex, g_nSendCnt, text>>

\* The handler goes on to the next thread, and after the last one to `then'.
\* (Variant: the second thread is forgotten, as closeAll forgets it.)
NextThread_FirstOnly(then) == gi' = 1 /\ phase' = then
NextThread(then) ==
    IF gi < NSenders
    THEN gi' = gi + 1 /\ phase' = phase
    ELSE gi' = 1 /\ phase' = then

\* AfxBeginThread when there is no thread yet, else ResumeThread on the object
\* the pointer has kept since then.
StartOrResume ==
    /\ phase = "starting"
    /\ \/ /\ obj[gi] = "null"
          /\ th' = [th EXCEPT ![gi] = "live"]
          /\ obj' = [obj EXCEPT ![gi] = "valid"]
          /\ UNCHANGED susp
       \/ /\ obj[gi] = "valid"
          /\ susp' = [susp EXCEPT ![gi] = IF @ > 0 THEN @ - 1 ELSE @]
          /\ UNCHANGED <<th, obj>>
       \/ /\ obj[gi] = "freed"
          /\ UNCHANGED object
    /\ NextThread("pump")
    /\ UNCHANGED <<checked, m_bSendRep, call, mutex, g_nSendCnt, text>>

\* OnBnClickedCheckSendrep, the box now unchecked: up to line 529.
ClickUncheck ==
    /\ phase = "pump" /\ checked
    /\ phase' = "stopping" /\ checked' = FALSE /\ m_bSendRep' = FALSE /\ gi' = 1
    /\ UNCHANGED <<object, call, mutex, g_nSendCnt, text>>

\* SuspendThread through the pointer.  (Variant: not while the thread waits
\* for this one.)
SuspendThread_IfIdle(i) ==
    susp' = IF obj[i] = "valid" /\ msg[i] = "none" THEN [susp EXCEPT ![i] = @ + 1] ELSE susp
SuspendThread(i) ==
    susp' = IF obj[i] = "valid" THEN [susp EXCEPT ![i] = @ + 1] ELSE susp

\* One thread after the other, then the elapsed-time message box.
Suspend ==
    /\ phase = "stopping"
    /\ SuspendThread(gi)
    /\ NextThread("msgbox")
    /\ UNCHANGED <<checked, m_bSendRep, th, obj, call, mutex, g_nSendCnt, text>>

\* The handle of a deleted CWinThread is used by ResumeThread or SuspendThread.
StaleHandle ==
    /\ phase \in {"starting", "stopping"} /\ obj[gi] = "freed"
    /\ Crash

DismissBox ==
    /\ phase = "msgbox"
    /\ phase' = "pump"
    /\ UNCHANGED <<checked, m_bSendRep, gi, object, call, mutex, g_nSendCnt, text>>

\* closeAll deletes the first thread's object, does not stop the thread, and
\* keeps the pointer.
CloseAll == obj' = [obj EXCEPT ![1] = IF @ = "valid" THEN "freed" ELSE @]

\* OnBnClickedOk: closeAll, then CDialogEx::OnOK, which stays open (behind the
\* validation's message box) when a field is invalid.
ClickOk(valid) ==
    /\ phase = "pump"
    /\ CloseAll
    /\ phase' = IF valid THEN "gone" ELSE "msgbox"
    /\ UNCHANGED <<checked, m_bSendRep, gi, th, susp, call, mutex, g_nSendCnt, text>>

\* OnClose: closeAll, then the dialog ends.
Close ==
    /\ phase = "pump"
    /\ CloseAll
    /\ phase' = "gone"
    /\ UNCHANGED <<checked, m_bSendRep, gi, th, susp, call, mutex, g_nSendCnt, text>>

\* closeAll a second time, or after the thread deleted its own object.
DoubleDelete ==
    /\ phase = "pump" /\ obj[1] = "freed"
    /\ Crash

\* A click makes UpdateData write strLevel1.. and strMsg1.. while a sender
\* copies them for its next message: a data race on CString objects.
RacyExchange ==
    /\ phase = "pump" /\ \E t \in Senders : Runs(t) /\ pc[t] = "load"
    /\ Crash

\* The Escape key ends the dialog through OnCancel, which is not overridden.
Escape ==
    /\ phase = "pump"
    /\ phase' = "gone"
    /\ UNCHANGED <<checked, m_bSendRep, gi, object, call, mutex, g_nSendCnt, text>>

\* DoModal has returned; InitInstance returns FALSE and the process ends,
\* whatever its other threads are doing.
Exit ==
    /\ phase = "gone"
    /\ phase' = "exited"
    /\ UNCHANGED <<checked, m_bSendRep, gi, object, call, mutex, g_nSendCnt, text>>

-----------------------------------------------------------------------------
(* The sender loop and one log call.                                       *)

\* while (pDlg->m_bSendRep): a new batch, or return, after which MFC deletes
\* the CWinThread object.
LoopTop(t) ==
    /\ pc[t] = "top" /\ Runs(t)
    /\ IF m_bSendRep
       THEN /\ pc' = [pc EXCEPT ![t] = "load"]
            /\ batch' = [batch EXCEPT ![t] = Batch]
            /\ UNCHANGED <<th, obj>>
       ELSE /\ th' = [th EXCEPT ![t] = "done"]
            /\ obj' = [obj EXCEPT ![t] = "freed"]
            /\ UNCHANGED <<pc, batch>>
    /\ UNCHANGED <<gui, susp, k, loaded, buf, msg, mutex, g_nSendCnt, text>>

\* The object MFC deletes at the end of the thread was deleted by closeAll.
EndStale(t) ==
    /\ pc[t] = "top" /\ Runs(t) /\ ~m_bSendRep /\ obj[t] = "freed"
    /\ Crash

\* g_nSendCnt++ in sendLogMsg1 is a load ...
Load(t) ==
    /\ pc[t] = "load" /\ Runs(t)
    /\ loaded' = [loaded EXCEPT ![t] = g_nSendCnt]
    /\ pc' = [pc EXCEPT ![t] = "store"]
    /\ UNCHANGED <<gui, object, k, batch, buf, msg, mutex, g_nSendCnt, text>>

\* ... and a store.  (Variant: a counter that does not wrap.)
Store_NoWrap(t) ==
    /\ pc[t] = "store" /\ Runs(t)
    /\ g_nSendCnt' = loaded[t] + 1
    /\ loaded' = [loaded EXCEPT ![t] = 0]
    /\ pc' = [pc EXCEPT ![t] = "lock"]
    /\ UNCHANGED <<gui, object, k, batch, buf, msg, mutex, text>>
Store(t) ==
    /\ pc[t] = "store" /\ Runs(t)
    /\ g_nSendCnt' = (loaded[t] + 1) % UIntMod
    /\ loaded' = [loaded EXCEPT ![t] = 0]
    /\ pc' = [pc EXCEPT ![t] = "lock"]
    /\ UNCHANGED <<gui, object, k, batch, buf, msg, mutex, text>>

\* base_sink::log and postgresql_sink::log take the sink's own mutex.
Lock(t) ==
    /\ pc[t] = "lock" /\ Runs(t) /\ SinkFree(k[t])
    /\ mutex' = [mutex EXCEPT ![k[t]] = t]
    /\ pc' = [pc EXCEPT ![t] = IF k[t] = Cb THEN "get" ELSE "write"]
    /\ UNCHANGED <<gui, object, k, loaded, batch, buf, msg, g_nSendCnt, text>>

\* The last sink has the last message of the batch.
LastOfBatch(t) == k[t] = NSinks /\ batch[t] = 1

\* Leave the sink: release its mutex, go to the next sink, the next message,
\* or the end of the batch, where a sender shows the count and the Send
\* handler opens its message box.
LeaveSink(t) ==
    /\ mutex' = Released(t)
    /\ k' = [k EXCEPT ![t] = IF @ < NSinks THEN @ + 1 ELSE 1]
    /\ batch' = [batch EXCEPT ![t] = IF k[t] = NSinks THEN @ - 1 ELSE @]
    /\ pc' = [pc EXCEPT ![t] = IF k[t] < NSinks THEN "lock"
                               ELSE IF ~LastOfBatch(t) THEN "load"
                               ELSE IF t = GUI THEN "top" ELSE "show"]
    /\ phase' = IF t = GUI /\ LastOfBatch(t) THEN "msgbox" ELSE phase
    /\ UNCHANGED <<checked, m_bSendRep, gi, loaded>>

\* A sink that does not call back: the write ends and the mutex is released.
Write(t) ==
    /\ pc[t] = "write" /\ Runs(t)
    /\ LeaveSink(t)
    /\ UNCHANGED <<object, buf, msg, g_nSendCnt, text>>

-----------------------------------------------------------------------------
(* callbackLog and the count field: access to the window.                  *)

\* On its own thread the window is called directly.
GetTextDirect ==
    /\ pc[GUI] = "get" /\ Runs(GUI)
    /\ buf' = [buf EXCEPT ![GUI] = text]
    /\ pc' = [pc EXCEPT ![GUI] = "set"]
    /\ UNCHANGED <<gui, object, k, loaded, batch, msg, mutex, g_nSendCnt, text>>

SetTextDirect ==
    /\ pc[GUI] = "set" /\ Runs(GUI)
    /\ text' = Push(GUI, buf[GUI])
    /\ buf' = [buf EXCEPT ![GUI] = <<>>]
    /\ LeaveSink(GUI)
    /\ UNCHANGED <<object, msg, g_nSendCnt>>

\* A sender's GetWindowText or SetWindowText: SendMessage to the GUI thread.
CallGui(t) ==
    /\ pc[t] \in {"get", "set", "show"} /\ Runs(t) /\ msg[t] = "none"
    /\ phase # "gone"
    /\ msg' = [msg EXCEPT ![t] = "sent"]
    /\ UNCHANGED <<gui, object, pc, k, loaded, batch, buf, mutex, g_nSendCnt, text>>

\* AfxGetMainWnd goes through the deleted CWinThread of the calling thread.
CallStale(t) ==
    /\ pc[t] = "get" /\ Runs(t) /\ msg[t] = "none" /\ obj[t] = "freed"
    /\ Crash

\* A sender goes on after the dialog ended: the window is destroyed, then the
\* dialog and its logger, which are on the stack of InitInstance.
UseDestroyed(t) ==
    /\ phase = "gone" /\ Runs(t) /\ msg[t] # "sent"
    /\ Crash

\* The GUI thread, in a message loop, executes a sender's request.
Dispatch(t) ==
    /\ msg[t] = "sent" /\ Pumping
    /\ msg' = [msg EXCEPT ![t] = "answered"]
    /\ buf' = IF pc[t] = "get" THEN [buf EXCEPT ![t] = text] ELSE buf
    /\ text' = IF pc[t] = "set" THEN Push(t, buf[t]) ELSE text
    /\ UNCHANGED <<gui, object, pc, k, loaded, batch, mutex, g_nSendCnt>>

\* SendMessage to a destroyed window fails and returns.
DispatchGone(t) ==
    /\ msg[t] = "sent" /\ phase = "gone"
    /\ msg' = [msg EXCEPT ![t] = "answered"]
    /\ UNCHANGED <<gui, object, pc, k, loaded, batch, buf, mutex, g_nSendCnt, text>>

\* SendMessage returns in the sender.
Return(t) ==
    /\ msg[t] = "answered" /\ Runs(t)
    /\ msg' = [msg EXCEPT ![t] = "none"]
    /\ \/ /\ pc[t] = "get"
          /\ pc' = [pc EXCEPT ![t] = "set"]
          /\ UNCHANGED <<gui, k, loaded, batch, buf, mutex>>
       \/ /\ pc[t] = "set"
          /\ buf' = [buf EXCEPT ![t] = <<>>]
          /\ LeaveSink(t)
       \/ /\ pc[t] = "show"
          /\ pc' = [pc EXCEPT ![t] = "top"]
          /\ UNCHANGED <<gui, k, loaded, batch, buf, mutex>>
    /\ UNCHANGED <<object, g_nSendCnt, text>>

-----------------------------------------------------------------------------
\* What the user does: never fair.
UserStep ==
    \/ \E n \in Counts : ClickSend(n)
    \/ ClickCheck
    \/ ClickUncheck
    \/ DismissBox
    \/ \E valid \in BOOLEAN : ClickOk(valid)
    \/ Close
    \/ Escape
    \/ DoubleDelete
    \/ RacyExchange

\* The rest of a handler that a click started, and the end of the process.
HandlerStep == StartOrResume \/ Suspend \/ StaleHandle \/ Exit

\* A thread inside a log call, apart from waiting for a mutex.
LogStep(t) == Load(t) \/ Store(t) \/ Write(t)

SenderStep(t) ==
    LoopTop(t) \/ EndStale(t) \/ CallGui(t) \/ CallStale(t) \/ UseDestroyed(t) \/ Return(t)

GuiServes(t) == Dispatch(t) \/ DispatchGone(t)

Next ==
    \/ UserStep
    \/ HandlerStep
    \/ \E t \in Threads : LogStep(t) \/ Lock(t)
    \/ GetTextDirect \/ SetTextDirect
    \/ \E t \in Senders : SenderStep(t) \/ GuiServes(t)

Spec == Init /\ [][Next]_vars

\* A running thread takes its steps; a mutex that is free again and again is
\* taken; a message loop that is entered again and again serves a waiting
\* SendMessage (Windows delivers sent messages before posted ones).
Fairness ==
    /\ WF_vars(HandlerStep)
    /\ WF_vars(GetTextDirect \/ SetTextDirect)
    /\ \A t \in Threads : WF_vars(LogStep(t)) /\ SF_vars(Lock(t))
    /\ \A t \in Senders : SF_vars(SenderStep(t)) /\ SF_vars(GuiServes(t))

FairSpec == Spec /\ Fairness

-----------------------------------------------------------------------------
(* Properties.                                                             *)

\* A thread inside sink s: between lock and unlock of its mutex.
Inside(t, s) == pc[t] \in {"write", "get", "set"} /\ k[t] = s

\* Each sink's mutex is owned exactly by the thread that is inside the sink
\* (base_sink-inl.h:25-29, CleLogger.h:80-107), through every suspension,
\* window call and closing of the dialog.
MutexOwner ==
    \A s \in Sinks, t \in Threads : mutex[s] = t <=> Inside(t, s)

\* A thread of callbackLog whose GetWindowText has been answered and whose
\* SetWindowText is still to come.
BetweenGetAndSet(t) ==
    \/ pc[t] = "get" /\ msg[t] = "answered"
    \/ pc[t] = "set" /\ msg[t] # "answered"

\* The text callbackLog has read is still the window's text when it is written
\* back with the new line (LogMakerDlg.cpp:218-220): no line of another thread
\* is lost, because the callback sink's mutex spans both messages.
EditIntact ==
    ~Closed => \A t \in Threads : BetweenGetAndSet(t) => buf[t] = text

\* Once a stop has been handled, every sender thread that m_pThreadSend still
\* stands for is suspended, exactly once (LogMakerDlg.cpp:530-535): the next
\* ResumeThread is enough to get it going.
StopQuiesces ==
    Pumping /\ ~checked =>
        \A i \in Senders : obj[i] = "valid" => th[i] = "live" /\ susp[i] = 1

\* Once a start has been handled, every sender thread that m_pThreadSend still
\* stands for runs with the flag on (LogMakerDlg.cpp:514-526): no resume is
\* lost and no sender is left out.
StartResumes ==
    phase = "pump" /\ checked =>
        m_bSendRep /\ \A i \in Senders :
            obj[i] = "freed" \/ (obj[i] = "valid" /\ th[i] = "live" /\ susp[i] = 0)

\* The GUI thread, in a Send, waits for a sink inside which a sender has been
\* suspended, or waits for the GUI thread: neither goes on.
Hung ==
    /\ phase = "send" /\ pc[GUI] = "lock"
    /\ \E t \in Senders : Inside(t, k[GUI]) /\ (susp[t] > 0 \/ msg[t] = "sent")

\* A message a sender has begun to log passes every sink, the edit window
\* included, unless the user stops the senders, ends the dialog, or hangs it by
\* a Send.
MessageArrives ==
    \A t \in Senders :
        (pc[t] = "lock" /\ k[t] = 1) ~>
            (pc[t] \in {"load", "show"} \/ Closed \/ Hung \/ \E i \in Senders : susp[i] > 0)

\* A click on Send or on the check box leads back to a message loop or to the end
\* of the program, whatever the senders do: only a Send can fail to, and only at a
\* sink inside which a sender is suspended or waits for the GUI thread
\* (LogMakerDlg.cpp:327-331, 489, 508-542).
HandlersReturn ==
    (phase \in {"send", "starting", "stopping"}) ~> (phase \in {"pump", "msgbox"} \/ Closed \/ Hung)
=============================================================================
