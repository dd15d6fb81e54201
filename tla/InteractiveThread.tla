--------------------------- MODULE InteractiveThread ---------------------------
(***************************************************************************)
(* C4InteractiveThread: the network thread with the processes it executes  *)
(* (StdSchedulerThread), and the queue of events from all threads to the   *)
(* main thread with the pipe that wakes it up (CStdApp).                   *)
(*                                                                         *)
(* The queue is a linked list that always holds one node that was popped   *)
(* already (pFirstEvent).  Those who push hold EventPushCSec, the main     *)
(* thread pops without it, so both work on the same nodes.  Nodes are      *)
(* numbered in the order of their creation, 0 is the node the constructor  *)
(* makes.                                                                  *)
(***************************************************************************)
EXTENDS Integers, Sequences

CONSTANTS
    Thread,      \* threads that push events: Main, Net and others
    Main, Net,
    Nobody,      \* the owner of a free lock, the successor of the last node
    Event,       \* what is pushed
    Proc,        \* processes (StdSchedulerProc)
    Timed,       \* processes with a timeout (GetTimeout() >= 0)
    InOrder,     \* stores of a thread become visible to others in program order
    MaxEvent,    \* bound: events pushed
    PipeSize,    \* bytes the pipe of the main thread takes
    MaxCalls     \* bound: calls of AddProc and RemoveProc

ASSUME ThreadAssumption ==
    /\ Main \in Thread /\ Net \in Thread /\ Main # Net
    /\ Nobody \notin Thread \cup Nat \cup Event \cup Proc
ASSUME BoundAssumption == MaxEvent \in Nat /\ PipeSize \in Nat /\ MaxCalls \in Nat

VARIABLES
    \* the queue
    created,                  \* nodes created so far
    next, data, alive,        \* Next, Type and Data of a node; nodes not deleted
    pFirstEvent, pLastEvent,
    pushLock,                 \* who holds EventPushCSec
    pushed,                   \* the event its holder pushes
    todo,                     \* its stores that others do not see yet
    signals,                  \* threads between the unlock and SignalNetworkEvent
    \* the main loop
    pipe,                     \* bytes in the pipe
    processing,               \* in ProcessEvents
    processed,                \* history: events that were processed
    \* the scheduler
    procs, fThread, runThreadRun,
    unblocked,                \* unblocker is set
    call, op, arg, restart,   \* the call of AddProc or RemoveProc in progress
    calls,
    netAt,                    \* what the network thread is about to do
    ready, running,           \* processes it is about to execute, and executes
    input                     \* processes with something to read

queueVars == <<created, next, data, alive, pFirstEvent, pLastEvent, pushLock, pushed, todo>>
mainVars  == <<pipe, processing, processed>>
schedVars == <<procs, fThread, runThreadRun, unblocked, call, op, arg, restart, calls>>
netVars   == <<netAt, ready, running, input>>
vars == <<queueVars, signals, mainVars, schedVars, netVars>>

-------------------------------------------------------------------------------
(* PushEvent and PopEvent *)

\* The stores of PushEvent, in program order: the new node's fields, the link
\* from the node before, and pLastEvent.
Stores == <<"fill", "link", "last">>
StoreSet == {"fill", "link", "last"}

\* Mutant: the lock is released before pLastEvent is set.
Unlockable_Early == todo \subseteq {"last"}
\* Others can take the lock when all its stores are done: unlocking makes
\* them visible.
Unlockable == todo = {}

\* A thread runs other code: neither between unlock and signal, nor in PushEvent,
\* the main thread not in a call of the scheduler, the network thread in the
\* Execute of a process.
MayPush(t) ==
    /\ t # pushLock /\ t \notin signals
    /\ t = Main => call = "none"
    /\ t = Net => netAt = "execute"

\* Mutant: the queue's lock does not keep other threads out.
LockFree_Always == TRUE
\* EventPushCSec can be taken.
LockFree == pushLock = Nobody

PushEvent(t, e) ==
    /\ MayPush(t) /\ LockFree
    /\ created < MaxEvent
    /\ pushLock' = t
    /\ pushed' = e
    /\ todo' = StoreSet
    /\ created' = created + 1
    /\ alive' = alive \cup {created + 1}
    /\ UNCHANGED <<next, data, pFirstEvent, pLastEvent, signals, mainVars, schedVars, netVars>>

\* One store becomes visible.  The main thread takes another lock, so nothing
\* but the order of stores keeps it from seeing the link before the contents.
Store(w) ==
    /\ w \in todo
    /\ InOrder => (w = "link" => "fill" \notin todo) /\ (w = "last" => todo = {"last"})
    /\ todo' = todo \ {w}
    /\ IF w = "fill" THEN data' = [data EXCEPT ![created] = pushed] ELSE UNCHANGED data
    /\ IF w = "link" THEN next' = [next EXCEPT ![pLastEvent] = created] ELSE UNCHANGED next
    /\ IF w = "last" THEN pLastEvent' = created ELSE UNCHANGED pLastEvent
    /\ UNCHANGED <<created, alive, pFirstEvent, pushLock, pushed, signals, mainVars, schedVars, netVars>>

\* Mutant: the main thread is not woken up for its own events.
Signalled_Others == signals \cup ({pushLock} \ {Main})
\* All who leave the lock signal the main thread.
Signalled == signals \cup {pushLock}

PushUnlock ==
    /\ pushLock # Nobody /\ Unlockable
    /\ signals' = Signalled
    /\ pushLock' = Nobody
    /\ pushed' = Nobody
    /\ UNCHANGED <<created, next, data, alive, pFirstEvent, pLastEvent, todo,
                   mainVars, schedVars, netVars>>

\* write blocks while the pipe is full.
SignalNetworkEvent(t) ==
    /\ t \in signals /\ pipe < PipeSize
    /\ signals' = signals \ {t}
    /\ pipe' = pipe + 1
    /\ UNCHANGED <<queueVars, processing, processed, schedVars, netVars>>

\* The main thread is in its message loop or in a callback of an event.
MainRuns == call = "none" /\ pushLock # Main /\ Main \notin signals

OnPipeInput ==
    /\ MainRuns /\ ~processing /\ pipe > 0
    /\ pipe' = pipe - 1
    /\ processing' = TRUE
    /\ UNCHANGED <<queueVars, signals, processed, schedVars, netVars>>

\* The callback of the event follows before the next PopEvent; what it may do,
\* pushing events and calling the scheduler, is enabled.
PopEvent ==
    /\ next[pFirstEvent] # Nobody
    /\ processed' = Append(processed, data[next[pFirstEvent]])
    /\ alive' = alive \ {pFirstEvent}
    /\ pFirstEvent' = next[pFirstEvent]
    /\ UNCHANGED <<created, next, data, pLastEvent, pushLock, pushed, todo, processing>>

QueueEmpty ==
    /\ next[pFirstEvent] = Nobody
    /\ processing' = FALSE
    /\ UNCHANGED <<queueVars, processed>>

ProcessEvents ==
    /\ MainRuns /\ processing
    /\ PopEvent \/ QueueEmpty
    /\ UNCHANGED <<signals, pipe, schedVars, netVars>>

-------------------------------------------------------------------------------
(* The scheduler: AddProc and RemoveProc in the main thread *)

\* StdSchedulerThread::Add and Remove stop the thread if there is one, change
\* the set of processes and start the thread again; AddProc starts the thread for
\* the first process, RemoveProc stops it after the last.
Call(o, p, starts) ==
    /\ MainRuns /\ calls < MaxCalls
    /\ calls' = calls + 1
    /\ op' = o /\ arg' = p
    /\ restart' = starts
    /\ call' = IF fThread THEN "stop" ELSE "change"
    /\ UNCHANGED <<queueVars, signals, mainVars, procs, fThread, runThreadRun, unblocked, netVars>>

AddProc(p) == Call("add", p, fThread \/ procs = {})
RemoveProc(p) == Call("remove", p, fThread)

StopThread ==
    /\ call = "stop"
    /\ runThreadRun' = FALSE
    /\ call' = "unblock"
    /\ UNCHANGED <<queueVars, signals, mainVars, procs, fThread, unblocked, op, arg, restart, calls, netVars>>

\* Mutant: the thread is told to stop, but not woken up.
WakeUp_Missing == UNCHANGED unblocked
WakeUp == unblocked' = TRUE

UnBlock ==
    /\ call = "unblock"
    /\ WakeUp
    /\ call' = "join"
    /\ UNCHANGED <<queueVars, signals, mainVars, procs, fThread, runThreadRun, op, arg, restart, calls, netVars>>

\* Mutant: the thread is not waited for.
Joined_AtOnce == TRUE
Joined == netAt = "ended"

\* The end of Stop, before the change or for good.
Join ==
    /\ call = "join" /\ Joined
    /\ fThread' = FALSE
    /\ call' = IF op = "none" THEN "none" ELSE "change"
    /\ UNCHANGED <<queueVars, signals, mainVars, procs, runThreadRun, unblocked, op, arg, restart, calls, netVars>>

Change ==
    /\ call = "change"
    /\ procs' = IF op = "add" THEN procs \cup {arg} ELSE procs \ {arg}
    /\ call' = IF restart THEN "start" ELSE "none"
    /\ op' = "none"
    /\ UNCHANGED <<queueVars, signals, mainVars, fThread, runThreadRun, unblocked, arg, restart, calls, netVars>>

Start ==
    /\ call = "start"
    /\ runThreadRun' = TRUE /\ fThread' = TRUE
    /\ netAt' = "loop"
    /\ call' = IF procs = {} THEN "stop" ELSE "none"
    /\ UNCHANGED <<queueVars, signals, mainVars, procs, unblocked, op, arg, restart, calls,
                   ready, running, input>>

-------------------------------------------------------------------------------
(* The network thread: while (runThreadRun) Execute() *)

NetLoop ==
    /\ netAt = "loop"
    /\ netAt' = IF ~runThreadRun THEN "ended" ELSE IF procs = {} THEN "loop" ELSE "poll"
    /\ UNCHANGED <<queueVars, signals, mainVars, schedVars, ready, running, input>>

\* Poll returns for the unblocker, for processes with something to read, or when
\* the timeout of a process is over; those are executed one after the other.
Poll ==
    /\ netAt = "poll"
    /\ \E due \in SUBSET (Timed \cap procs) :
         /\ unblocked \/ (input \cap procs) \cup due # {}
         /\ ready' = (input \cap procs) \cup due
    /\ unblocked' = FALSE
    /\ netAt' = "choose"
    /\ UNCHANGED <<queueVars, signals, mainVars, procs, fThread, runThreadRun, call, op, arg, restart, calls, running, input>>

Choose ==
    /\ netAt = "choose"
    /\ IF ready = {}
       THEN netAt' = "loop" /\ UNCHANGED <<ready, running, input>>
       ELSE \E p \in ready :
              /\ netAt' = "execute"
              /\ running' = p
              /\ ready' = ready \ {p}
              /\ input' = input \ {p}
    /\ UNCHANGED <<queueVars, signals, mainVars, schedVars>>

\* The process was executed; while it was, it may have pushed events.
Executed ==
    /\ netAt = "execute" /\ pushLock # Net /\ Net \notin signals
    /\ netAt' = "choose"
    /\ running' = Nobody
    /\ UNCHANGED <<queueVars, signals, mainVars, schedVars, ready, input>>

\* Something arrives for a process.
Arrive(p) ==
    /\ p \notin input
    /\ input' = input \cup {p}
    /\ UNCHANGED <<queueVars, signals, mainVars, schedVars, netAt, ready, running>>

-------------------------------------------------------------------------------
Init ==
    /\ created = 0
    /\ next = [n \in 0 .. MaxEvent |-> Nobody]
    /\ data = [n \in 0 .. MaxEvent |-> Nobody]
    /\ alive = {0}
    /\ pFirstEvent = 0 /\ pLastEvent = 0
    /\ pushLock = Nobody /\ pushed = Nobody /\ todo = {}
    /\ signals = {}
    /\ pipe = 0 /\ processing = FALSE /\ processed = <<>>
    /\ procs = {} /\ fThread = FALSE /\ runThreadRun = FALSE /\ unblocked = FALSE
    /\ call = "none" /\ op = "none" /\ arg = Nobody /\ restart = FALSE /\ calls = 0
    /\ netAt = "ended" /\ ready = {} /\ running = Nobody /\ input = {}

Next ==
    \/ \E t \in Thread, e \in Event : PushEvent(t, e)
    \/ \E w \in StoreSet : Store(w)
    \/ PushUnlock
    \/ \E t \in Thread : SignalNetworkEvent(t)
    \/ OnPipeInput
    \/ ProcessEvents
    \/ \E p \in Proc : AddProc(p) \/ RemoveProc(p)
    \/ StopThread \/ UnBlock \/ Join \/ Change \/ Start
    \/ NetLoop
    \/ Poll
    \/ Choose
    \/ Executed
    \/ \E p \in Proc : Arrive(p)

Spec == Init /\ [][Next]_vars

\* Threads go on: whoever is in PushEvent, the main loop, a call of the
\* scheduler, the network thread.  Nothing is assumed of users and of input.
Fairness ==
    /\ WF_vars(\E w \in StoreSet : Store(w))
    /\ WF_vars(PushUnlock)
    /\ \A t \in Thread : WF_vars(SignalNetworkEvent(t))
    /\ WF_vars(OnPipeInput)
    /\ WF_vars(ProcessEvents)
    /\ WF_vars(StopThread) /\ WF_vars(UnBlock) /\ WF_vars(Join) /\ WF_vars(Change) /\ WF_vars(Start)
    /\ WF_vars(NetLoop) /\ WF_vars(Poll) /\ WF_vars(Choose)
    /\ WF_vars(Executed)

FairSpec == Spec /\ Fairness
-------------------------------------------------------------------------------
(* Properties *)

\* The last node the list leads to: what PopEvent can see.
Linked == IF "link" \in todo THEN created - 1 ELSE created

\* The list runs through all linked nodes, nobody follows or writes a deleted node
\* (C4InteractiveThread.cpp:82), and what can be popped is filled.
QueueInv ==
    /\ alive = pFirstEvent .. created
    /\ pFirstEvent <= Linked
    /\ \A n \in pFirstEvent .. MaxEvent : next[n] = IF n < Linked THEN n + 1 ELSE Nobody
    /\ \A n \in (pFirstEvent + 1) .. Linked : data[n] \in Event
    /\ pLastEvent = IF "last" \in todo THEN created - 1 ELSE created
    /\ todo \in {{}, {"last"}, {"link", "last"}, StoreSet}
    /\ todo # {} => created > 0
    /\ (pushLock = Nobody) = (pushed = Nobody)
    /\ pushLock = Nobody => todo = {}
    /\ "fill" \notin todo /\ pushLock # Nobody => data[created] = pushed

TypeOK ==
    /\ created \in 0 .. MaxEvent
    /\ next \in [0 .. MaxEvent -> (0 .. MaxEvent) \cup {Nobody}]
    /\ data \in [0 .. MaxEvent -> Event \cup {Nobody}]
    /\ pFirstEvent \in 0 .. MaxEvent /\ pLastEvent \in 0 .. MaxEvent
    /\ pushLock \in Thread \cup {Nobody} /\ pushed \in Event \cup {Nobody}
    /\ signals \subseteq Thread
    /\ pipe \in 0 .. PipeSize /\ processing \in BOOLEAN /\ processed \in Seq(Event)
    /\ procs \subseteq Proc /\ fThread \in BOOLEAN /\ runThreadRun \in BOOLEAN
    /\ call \in {"none", "stop", "unblock", "join", "change", "start"}
    /\ op \in {"none", "add", "remove"} /\ restart \in BOOLEAN /\ arg \in Proc \cup {Nobody}
    /\ call = "change" => op # "none" /\ arg \in Proc
    /\ op # "none" => arg \in Proc
    /\ ready \subseteq Proc /\ input \subseteq Proc /\ running \in Proc \cup {Nobody}

IInv == TypeOK /\ QueueInv

\* The queue implements EventQueue: a node is pushed when its link becomes
\* visible, so that events are processed once, in order and with their contents.
Queued == [n \in 1 .. (Linked - pFirstEvent) |-> data[pFirstEvent + n]]
Promise == INSTANCE EventQueue WITH queue <- Queued, done <- processed
ImplementsQueue == Promise!Spec

\* Each event that is pushed is processed in the end: the main thread is not left
\* asleep with an event in the queue (the signal comes after the link).
EveryEventProcessed ==
    \A n \in 1 .. MaxEvent : created >= n ~> Len(processed) >= n

\* AddProc and RemoveProc return: the network thread does not sleep while it is
\* joined (StdScheduler.cpp:245).
CallReturns == call # "none" ~> call = "none"

\* The network thread executes nothing but processes of the scheduler: after
\* RemoveProc the caller deletes the process (C4Network2IO.cpp:192).
OnlyMembersExecuted ==
    /\ ready \subseteq procs
    /\ netAt = "execute" => running \in procs
===============================================================================
