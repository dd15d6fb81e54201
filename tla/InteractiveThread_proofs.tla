----------------------- MODULE InteractiveThread_proofs -----------------------
(***************************************************************************)
(* The event queue of C4InteractiveThread is a queue, for every number of  *)
(* threads that push and events, as long as stores become visible in       *)
(* program order.                                                          *)
(***************************************************************************)
EXTENDS InteractiveThread, TLAPS

LEMMA TypeInit == Init => IInv
<1> SUFFICES ASSUME Init PROVE IInv
  OBVIOUS
<1>1. 0 \in 0 .. MaxEvent /\ 0 \in 0 .. PipeSize
  BY BoundAssumption
<1>2. TypeOK
  <2>1. /\ next \in [0 .. MaxEvent -> (0 .. MaxEvent) \cup {Nobody}]
        /\ data \in [0 .. MaxEvent -> Event \cup {Nobody}]
    BY DEF Init
  <2>2. processed \in Seq(Event)
    BY DEF Init
  <2> QED
    BY <1>1, <2>1, <2>2 DEF Init, TypeOK
<1>3. Linked = 0
  BY DEF Init, Linked
<1>4. QueueInv
  BY <1>1, <1>3, BoundAssumption DEF Init, QueueInv, StoreSet
<1> QED
  BY <1>2, <1>4 DEF IInv

\* PushEvent up to the lock: the new node is not part of the list yet.
LEMMA PushPreserves ==
    ASSUME IInv, NEW t \in Thread, NEW e \in Event, PushEvent(t, e)
    PROVE  IInv' /\ Linked' = Linked
<1>1. /\ todo = {} /\ todo' = StoreSet /\ created' = created + 1 /\ alive' = alive \cup {created + 1}
      /\ UNCHANGED <<next, data, pFirstEvent, pLastEvent>> /\ pushed' = e /\ pushLock' = t
      /\ created \in Nat /\ pFirstEvent \in Nat /\ created + 1 \in 0 .. MaxEvent
      /\ pushLock = Nobody /\ t # Nobody /\ e # Nobody
  BY ThreadAssumption, BoundAssumption DEF IInv, TypeOK, QueueInv, PushEvent, LockFree
<1>2. Linked = created /\ Linked' = created
  BY <1>1 DEF Linked, StoreSet
<1>3. TypeOK'
  BY <1>1 DEF IInv, TypeOK, PushEvent, mainVars, schedVars, netVars
<1>4. QueueInv'
  <2>1. alive' = pFirstEvent .. (created + 1)
    BY <1>1, <1>2 DEF IInv, QueueInv
  <2> QED
    BY <1>1, <1>2, <2>1 DEF IInv, QueueInv, StoreSet
<1> QED
  BY <1>2, <1>3, <1>4 DEF IInv

\* Each store of PushEvent: the contents, the link, the end of the list.
LEMMA StorePreserves ==
    ASSUME InOrder, IInv, NEW w \in StoreSet, Store(w)
    PROVE  /\ IInv'
           /\ \/ Linked' = Linked
              \/ Linked = created - 1 /\ Linked' = created /\ data[created] \in Event
           /\ \A n \in pFirstEvent .. Linked : data'[n] = data[n]
           /\ UNCHANGED <<pFirstEvent, processed, created>>
<1>1. /\ created \in Nat /\ created \in 0 .. MaxEvent /\ pFirstEvent \in Nat /\ created > 0
      /\ pushed \in Event /\ pushLock # Nobody /\ w \in todo
      /\ UNCHANGED <<created, alive, pFirstEvent, pushLock, pushed, processed>>
  BY ThreadAssumption, BoundAssumption DEF IInv, TypeOK, QueueInv, Store, mainVars
<1>2. CASE w = "fill"
  <2>1. /\ todo = StoreSet /\ todo' = {"link", "last"} /\ data' = [data EXCEPT ![created] = pushed]
        /\ UNCHANGED <<next, pLastEvent>>
    BY <1>1, <1>2 DEF IInv, QueueInv, Store, StoreSet
  <2>2. Linked = created - 1 /\ Linked' = created - 1
    BY <1>1, <2>1 DEF Linked, StoreSet
  <2>3. \A n \in pFirstEvent .. Linked : data'[n] = data[n]
    BY <1>1, <2>1, <2>2, BoundAssumption DEF IInv, TypeOK
  <2>4. TypeOK'
    BY <1>1, <2>1 DEF IInv, TypeOK, Store, mainVars, schedVars, netVars
  <2>5. data'[created] = pushed
    BY <1>1, <2>1 DEF IInv, TypeOK
  <2>6. QueueInv'
    BY <1>1, <2>1, <2>2, <2>3, <2>5 DEF IInv, QueueInv, StoreSet
  <2> QED
    BY <1>1, <2>2, <2>3, <2>4, <2>6 DEF IInv
<1>3. CASE w = "link"
  <2>1. /\ todo = {"link", "last"} /\ todo' = {"last"} /\ next' = [next EXCEPT ![pLastEvent] = created]
        /\ UNCHANGED <<data, pLastEvent>>
    BY InOrder, <1>1, <1>3 DEF IInv, QueueInv, Store, StoreSet
  <2>2. Linked = created - 1 /\ Linked' = created
    BY <1>1, <2>1 DEF Linked
  <2>3. pLastEvent = created - 1 /\ data[created] = pushed /\ pFirstEvent <= created - 1
    BY <1>1, <2>1, <2>2 DEF IInv, QueueInv
  <2>4. TypeOK'
    BY <1>1, <2>1 DEF IInv, TypeOK, Store, mainVars, schedVars, netVars
  <2>5. \A n \in pFirstEvent .. MaxEvent : next'[n] = IF n < created THEN n + 1 ELSE Nobody
    <3> SUFFICES ASSUME NEW n \in pFirstEvent .. MaxEvent
                 PROVE  next'[n] = IF n < created THEN n + 1 ELSE Nobody
      OBVIOUS
    <3>1. n \in 0 .. MaxEvent /\ n \in Nat
      BY <1>1, BoundAssumption
    <3>2. next[n] = IF n < created - 1 THEN n + 1 ELSE Nobody
      BY <2>2 DEF IInv, QueueInv
    <3>3. next'[n] = IF n = created - 1 THEN created ELSE next[n]
      BY <2>1, <2>3, <3>1 DEF IInv, TypeOK
    <3>4. CASE n = created - 1
      BY <1>1, <3>1, <3>3, <3>4
    <3>5. CASE n # created - 1
      <4>1. (n < created) = (n < created - 1)
        BY <1>1, <3>1, <3>5
      <4> QED
        BY <3>2, <3>3, <3>5, <4>1
    <3> QED
      BY <3>4, <3>5
  <2>6. \A n \in (pFirstEvent + 1) .. created : data[n] \in Event
    BY <1>1, <2>2, <2>3 DEF IInv, QueueInv
  <2>7. QueueInv'
    BY <1>1, <2>1, <2>2, <2>3, <2>5, <2>6 DEF IInv, QueueInv, StoreSet
  <2> QED
    BY <1>1, <2>1, <2>2, <2>3, <2>4, <2>7 DEF IInv
<1>4. CASE w = "last"
  <2>1. /\ todo = {"last"} /\ todo' = {} /\ pLastEvent' = created /\ UNCHANGED <<next, data>>
    BY InOrder, <1>1, <1>4 DEF IInv, QueueInv, Store, StoreSet
  <2>2. Linked = created /\ Linked' = created
    BY <1>1, <2>1 DEF Linked
  <2>3. TypeOK'
    BY <1>1, <2>1 DEF IInv, TypeOK, Store, mainVars, schedVars, netVars
  <2>4. QueueInv'
    BY <1>1, <2>1, <2>2 DEF IInv, QueueInv, StoreSet
  <2> QED
    BY <1>1, <2>1, <2>2, <2>3, <2>4 DEF IInv
<1> QED
  BY <1>2, <1>3, <1>4 DEF StoreSet

\* PopEvent: the head of the list moves on to a node that is filled.
LEMMA PopPreserves ==
    ASSUME IInv, ProcessEvents, PopEvent
    PROVE  /\ IInv'
           /\ pFirstEvent < Linked /\ pFirstEvent' = pFirstEvent + 1 /\ Linked' = Linked
           /\ processed' = Append(processed, data[pFirstEvent + 1]) /\ data' = data
<1>1. /\ created \in 0 .. MaxEvent /\ created \in Nat /\ pFirstEvent \in Nat /\ pFirstEvent \in 0 .. MaxEvent
      /\ pFirstEvent <= Linked /\ Linked \in Int /\ Linked <= created
      /\ UNCHANGED <<created, next, data, pLastEvent, pushLock, pushed, todo, processing>>
  BY BoundAssumption DEF IInv, TypeOK, QueueInv, PopEvent, Linked
<1>2. next[pFirstEvent] = IF pFirstEvent < Linked THEN pFirstEvent + 1 ELSE Nobody
  BY <1>1 DEF IInv, QueueInv
<1>3. pFirstEvent < Linked /\ pFirstEvent' = pFirstEvent + 1
  BY <1>2 DEF PopEvent
<1>4. data[pFirstEvent + 1] \in Event
  BY <1>1, <1>3 DEF IInv, QueueInv
<1>5. /\ processed' = Append(processed, data[pFirstEvent + 1])
      /\ alive' = alive \ {pFirstEvent}
  BY <1>2, <1>3 DEF PopEvent
<1>6. processed' \in Seq(Event)
  BY <1>4, <1>5 DEF IInv, TypeOK
<1>7. TypeOK'
  BY <1>1, <1>3, <1>6, BoundAssumption DEF IInv, TypeOK, ProcessEvents, schedVars, netVars
<1>8. Linked' = Linked
  BY <1>1 DEF Linked
<1>9. alive' = (pFirstEvent + 1) .. created
  BY <1>1, <1>5 DEF IInv, QueueInv
<1>10. QueueInv'
  BY <1>1, <1>3, <1>8, <1>9 DEF IInv, QueueInv
<1> QED
  BY <1>1, <1>3, <1>5, <1>7, <1>8, <1>10 DEF IInv

LEMMA UnlockPreserves == ASSUME IInv, PushUnlock PROVE IInv' /\ Linked' = Linked
<1>1. /\ todo = {} /\ pushLock \in Thread /\ pushLock' = Nobody /\ pushed' = Nobody
      /\ UNCHANGED <<created, next, data, alive, pFirstEvent, pLastEvent, todo>>
      /\ signals' \subseteq Thread
  BY DEF IInv, TypeOK, PushUnlock, Unlockable, Signalled
<1>2. Linked' = Linked
  BY <1>1 DEF Linked
<1>3. TypeOK'
  BY <1>1 DEF IInv, TypeOK, PushUnlock, mainVars, schedVars, netVars
<1>4. QueueInv'
  BY <1>1, <1>2 DEF IInv, QueueInv
<1> QED
  BY <1>2, <1>3, <1>4 DEF IInv

\* All other steps leave the list alone.
LEMMA KeepsQueue == ASSUME IInv, TypeOK', UNCHANGED queueVars PROVE IInv' /\ Linked' = Linked
BY DEF IInv, QueueInv, Linked, queueVars

\* What the steps that do not push or pop leave alone.
Unrelated == IInv' /\ Linked' = Linked /\ UNCHANGED <<data, pFirstEvent, processed>>

LEMMA SchedulerPreserves ==
    ASSUME IInv,
           \/ \E p \in Proc : AddProc(p) \/ RemoveProc(p) \/ Arrive(p)
           \/ StopThread \/ UnBlock \/ Join \/ Change \/ Start
           \/ NetLoop \/ Poll \/ Choose \/ Executed
    PROVE  Unrelated
<1>1. UNCHANGED <<queueVars, signals, mainVars>>
  BY DEF AddProc, RemoveProc, Call, Arrive, StopThread, UnBlock, Join, Change, Start, NetLoop, Poll, Choose, Executed
<1> DEFINE SchedulerType ==
             /\ procs \subseteq Proc /\ fThread \in BOOLEAN /\ runThreadRun \in BOOLEAN
             /\ call \in {"none", "stop", "unblock", "join", "change", "start"}
             /\ op \in {"none", "add", "remove"} /\ restart \in BOOLEAN /\ arg \in Proc \cup {Nobody}
             /\ call = "change" => op # "none" /\ arg \in Proc
             /\ op # "none" => arg \in Proc
             /\ ready \subseteq Proc /\ input \subseteq Proc /\ running \in Proc \cup {Nobody}
<1>2. SchedulerType'
  <2>1. SchedulerType
    BY DEF IInv, TypeOK
  <2>2. CASE \E p \in Proc : AddProc(p) \/ RemoveProc(p)
    BY <2>1, <2>2 DEF AddProc, RemoveProc, Call, netVars
  <2>3. CASE \E p \in Proc : Arrive(p)
    BY <2>1, <2>3 DEF Arrive, schedVars
  <2>4. CASE StopThread \/ UnBlock \/ Join
    BY <2>1, <2>4 DEF StopThread, UnBlock, Join, netVars
  <2>5. CASE Change \/ Start
    BY <2>1, <2>5 DEF Change, Start, netVars
  <2>6. CASE NetLoop \/ Poll \/ Choose \/ Executed
    BY <2>1, <2>6 DEF NetLoop, Poll, Choose, Executed, netVars, schedVars
  <2> QED
    BY <2>2, <2>3, <2>4, <2>5, <2>6
<1>3. TypeOK'
  BY <1>1, <1>2 DEF IInv, TypeOK, queueVars, mainVars
<1> QED
  BY <1>1, <1>3, KeepsQueue DEF Unrelated, queueVars, mainVars

LEMMA MainPreserves ==
    ASSUME IInv,
           \/ \E t \in Thread : SignalNetworkEvent(t)
           \/ OnPipeInput
           \/ ProcessEvents /\ QueueEmpty
    PROVE  Unrelated
<1>1. UNCHANGED <<queueVars, processed, schedVars, netVars>>
  BY DEF SignalNetworkEvent, OnPipeInput, ProcessEvents, QueueEmpty
<1>2. pipe' \in 0 .. PipeSize /\ processing' \in BOOLEAN /\ signals' \subseteq Thread
  <2>0. pipe \in 0 .. PipeSize /\ PipeSize \in Nat /\ processing \in BOOLEAN /\ signals \subseteq Thread
    BY BoundAssumption DEF IInv, TypeOK
  <2>1. CASE \E t \in Thread : SignalNetworkEvent(t)
    BY <2>0, <2>1 DEF SignalNetworkEvent
  <2>2. CASE OnPipeInput
    BY <2>0, <2>2 DEF OnPipeInput
  <2>3. CASE ProcessEvents /\ QueueEmpty
    BY <2>0, <2>3 DEF ProcessEvents, QueueEmpty
  <2> QED
    BY <2>1, <2>2, <2>3
<1>3. TypeOK'
  BY <1>1, <1>2 DEF IInv, TypeOK, queueVars, schedVars, netVars
<1> QED
  BY <1>1, <1>3, KeepsQueue DEF Unrelated, queueVars

\* What a step may do to the queue, as seen by those who push and process.
LEMMA Steps ==
    ASSUME InOrder, IInv, [Next]_vars
    PROVE  /\ IInv'
           /\ \/ /\ Linked' = Linked /\ UNCHANGED <<pFirstEvent, processed>>
                 /\ \A n \in pFirstEvent .. Linked : data'[n] = data[n]
              \/ /\ Linked' = Linked + 1 /\ UNCHANGED <<pFirstEvent, processed>>
                 /\ \A n \in pFirstEvent .. Linked : data'[n] = data[n]
                 /\ data'[Linked'] \in Event
              \/ /\ pFirstEvent < Linked /\ pFirstEvent' = pFirstEvent + 1 /\ Linked' = Linked
                 /\ data' = data /\ processed' = Append(processed, data[pFirstEvent + 1])
<1>1. ASSUME NEW t \in Thread, NEW e \in Event, PushEvent(t, e)
      PROVE  Unrelated
  BY <1>1, PushPreserves DEF Unrelated, PushEvent, mainVars
<1>2. CASE PushUnlock
  BY <1>2, UnlockPreserves DEF Unrelated, PushUnlock, mainVars
<1>3. CASE UNCHANGED vars
  BY <1>3, KeepsQueue DEF vars, queueVars, mainVars, schedVars, netVars, IInv, TypeOK
<1>4. CASE \E w \in StoreSet : Store(w)
  <2>1. PICK w \in StoreSet : Store(w)
    BY <1>4
  <2>2. created \in Nat
    BY BoundAssumption DEF IInv, TypeOK
  <2>3. CASE Linked' = Linked
    BY InOrder, <2>1, <2>3, StorePreserves
  <2>4. CASE Linked = created - 1 /\ Linked' = created /\ data[created] \in Event
    <3>1. IInv' /\ UNCHANGED <<pFirstEvent, processed, created>>
          /\ \A n \in pFirstEvent .. Linked : data'[n] = data[n]
      BY InOrder, <2>1, StorePreserves
    <3>2. Linked' = Linked + 1
      BY <2>2, <2>4
    <3>3. Linked' \in (pFirstEvent' + 1) .. Linked'
      BY <2>2, <2>4, <3>1, BoundAssumption DEF IInv, QueueInv, TypeOK
    <3>4. data'[Linked'] \in Event
      BY <3>1, <3>3 DEF IInv, QueueInv
    <3> QED
      BY <3>1, <3>2, <3>4
  <2> QED
    BY InOrder, <2>1, <2>3, <2>4, StorePreserves
<1>5. CASE ProcessEvents /\ PopEvent
  BY <1>5, PopPreserves
<1>6. ASSUME Unrelated
      PROVE  /\ IInv' /\ Linked' = Linked /\ UNCHANGED <<pFirstEvent, processed>>
             /\ \A n \in pFirstEvent .. Linked : data'[n] = data[n]
  BY <1>6 DEF Unrelated
<1> QED
  BY <1>1, <1>2, <1>3, <1>4, <1>5, <1>6, SchedulerPreserves, MainPreserves DEF Next, ProcessEvents, Unrelated

\* The list is in order, no deleted node is followed or written, and what can be
\* popped was filled (C4InteractiveThread.cpp:70, 106).
THEOREM QueueInvariance == ASSUME InOrder PROVE Spec => []IInv
<1>1. IInv /\ [Next]_vars => IInv'
  BY InOrder, Steps
<1> QED
  BY <1>1, TypeInit, PTL DEF Spec

\* The queue of C4InteractiveThread implements EventQueue: every event is
\* processed at most once, in the order of the pushes, with its contents.
THEOREM QueueRefinement == ASSUME InOrder PROVE Spec => ImplementsQueue
<1>1. Init => Promise!Init
  <2> SUFFICES ASSUME Init PROVE Promise!Init
    OBVIOUS
  <2>1. Linked - pFirstEvent = 0
    BY DEF Init, Linked
  <2>2. 1 .. (Linked - pFirstEvent) = {}
    BY <2>1
  <2>3. Queued = <<>>
    BY <2>2 DEF Queued
  <2> QED
    BY <2>3 DEF Init, Promise!Init
<1>2. IInv /\ [Next]_vars => [Promise!Next]_Promise!vars
  <2> SUFFICES ASSUME IInv, [Next]_vars PROVE [Promise!Next]_Promise!vars
    OBVIOUS
  <2>1. /\ pFirstEvent \in Nat /\ created \in Nat /\ Linked \in Int /\ pFirstEvent <= Linked
        /\ \A n \in (pFirstEvent + 1) .. Linked : data[n] \in Event
    BY BoundAssumption DEF IInv, TypeOK, QueueInv, Linked
  <2> DEFINE k == Linked - pFirstEvent
  <2>2. k \in Nat /\ Queued = [n \in 1 .. k |-> data[pFirstEvent + n]] /\ Queued \in Seq(Event) /\ Len(Queued) = k
    <3>1. k \in Nat
      BY <2>1
    <3>2. \A n \in 1 .. k : data[pFirstEvent + n] \in Event
      BY <2>1
    <3>3. Queued = [n \in 1 .. k |-> data[pFirstEvent + n]]
      BY DEF Queued
    <3> QED
      BY <3>1, <3>2, <3>3
  <2>3. CASE /\ Linked' = Linked /\ UNCHANGED <<pFirstEvent, processed>>
             /\ \A n \in pFirstEvent .. Linked : data'[n] = data[n]
    <3>1. Queued' = Queued
      <4>1. \A n \in 1 .. k : data'[pFirstEvent + n] = data[pFirstEvent + n]
        BY <2>1, <2>3
      <4> QED
        BY <2>3, <4>1 DEF Queued
    <3> QED
      BY <2>3, <3>1 DEF Promise!vars
  <2>4. CASE /\ Linked' = Linked + 1 /\ UNCHANGED <<pFirstEvent, processed>>
             /\ \A n \in pFirstEvent .. Linked : data'[n] = data[n]
             /\ data'[Linked'] \in Event
    <3> DEFINE e == data'[Linked']
    <3>1. \A n \in 1 .. k : data'[pFirstEvent + n] = data[pFirstEvent + n]
      BY <2>1, <2>4
    <3>2. Linked' - pFirstEvent' = k + 1 /\ Linked' = pFirstEvent + (k + 1)
      BY <2>1, <2>4
    <3>3. Queued' = [n \in 1 .. (k + 1) |-> data'[pFirstEvent + n]]
      BY <2>4, <3>2 DEF Queued
    <3>4. Queued' = Append(Queued, e)
      BY <2>2, <3>1, <3>2, <3>3
    <3>5. e \in Event
      BY <2>4
    <3>6. Promise!Push(e)
      BY <2>4, <3>4 DEF Promise!Push
    <3> QED
      BY <3>5, <3>6 DEF Promise!Next
  <2>5. CASE /\ pFirstEvent < Linked /\ pFirstEvent' = pFirstEvent + 1 /\ Linked' = Linked
             /\ data' = data /\ processed' = Append(processed, data[pFirstEvent + 1])
    <3>1. k > 0 /\ Linked' - pFirstEvent' = k - 1
      BY <2>1, <2>5
    <3>2. Queued' = [n \in 1 .. (k - 1) |-> data[pFirstEvent + 1 + n]]
      BY <2>5, <3>1 DEF Queued
    <3>3. Queued # <<>> /\ Head(Queued) = data[pFirstEvent + 1]
      BY <2>2, <3>1
    <3>4. Queued' = Tail(Queued)
      <4>1. Tail(Queued) = [n \in 1 .. (k - 1) |-> Queued[n + 1]]
        BY <2>2, <3>1
      <4>2. \A n \in 1 .. (k - 1) : Queued[n + 1] = data[pFirstEvent + 1 + n]
        BY <2>1, <2>2
      <4> QED
        BY <3>2, <4>1, <4>2
    <3>5. Promise!Process
      BY <2>5, <3>3, <3>4 DEF Promise!Process
    <3> QED
      BY <3>5 DEF Promise!Next
  <2> QED
    BY InOrder, <2>3, <2>4, <2>5, Steps
<1> QED
  BY <1>1, <1>2, InOrder, QueueInvariance, PTL DEF Spec, Promise!Spec, ImplementsQueue

-------------------------------------------------------------------------------
(* The scheduler *)

\* The thread has ended when the main thread changes the processes, and those it
\* is about to execute were taken from them since it was started.
SchedInv ==
    /\ ~fThread => netAt = "ended"
    /\ call \in {"change", "start"} => ~fThread
    /\ netAt \in {"ended", "loop", "poll"} => ready = {}
    /\ OnlyMembersExecuted

\* A process that was removed is not executed any more, so that it may be deleted
\* when RemoveProc returns (StdScheduler.cpp:216, C4Network2IO.cpp:192).
THEOREM OnlyMembersExecutedHolds == Spec => []OnlyMembersExecuted
<1>1. Init => SchedInv
  BY DEF Init, SchedInv, OnlyMembersExecuted
<1>2. SchedInv /\ [Next]_vars => SchedInv'
  <2> SUFFICES ASSUME SchedInv, [Next]_vars PROVE SchedInv'
    OBVIOUS
  <2> USE DEF SchedInv, OnlyMembersExecuted
  <2>1. CASE UNCHANGED <<schedVars, netVars>>
    BY <2>1 DEF schedVars, netVars
  <2>2. CASE \E p \in Proc : AddProc(p) \/ RemoveProc(p)
    BY <2>2 DEF AddProc, RemoveProc, Call, netVars
  <2>3. CASE \E p \in Proc : Arrive(p)
    BY <2>3 DEF Arrive, schedVars
  <2>4. CASE StopThread \/ UnBlock \/ Join
    BY <2>4 DEF StopThread, UnBlock, Join, Joined, netVars
  <2>5. CASE Change
    BY <2>5 DEF Change, netVars
  <2>6. CASE Start
    BY <2>6 DEF Start
  <2>7. CASE NetLoop \/ Poll \/ Choose \/ Executed
    BY <2>7 DEF NetLoop, Poll, Choose, Executed, schedVars
  <2>8. CASE \/ \E t \in Thread, e \in Event : PushEvent(t, e)
             \/ \E w \in StoreSet : Store(w)
             \/ PushUnlock
             \/ \E t \in Thread : SignalNetworkEvent(t)
             \/ OnPipeInput
             \/ ProcessEvents
             \/ UNCHANGED vars
    BY <2>1, <2>8 DEF PushEvent, Store, PushUnlock, SignalNetworkEvent, OnPipeInput, ProcessEvents, vars
  <2> QED
    BY <2>2, <2>3, <2>4, <2>5, <2>6, <2>7, <2>8 DEF Next
<1>3. SchedInv => OnlyMembersExecuted
  BY DEF SchedInv
<1> QED
  BY <1>1, <1>2, <1>3, PTL DEF Spec
===============================================================================
