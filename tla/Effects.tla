------------------------------- MODULE Effects -------------------------------
(***************************************************************************)
(* The effects of an object (C4Effect): a list sorted by priority.  When   *)
(* an effect starts or stops, the active effects above it are stopped      *)
(* temporarily, from the last to the first, and started again afterwards,  *)
(* so that every effect can rely on those below it.  Each of these steps   *)
(* is a script callback, which may add and remove effects of the very list *)
(* that is being walked.                                                   *)
(*                                                                         *)
(* What the engine still has to do is the sequence todo, the next step     *)
(* first: the frames of the C++ functions.  Every effect has all           *)
(* callbacks; that a script does not define one is the callback that       *)
(* changes nothing and returns 0.  The object is not deleted.              *)
(***************************************************************************)
EXTENDS Integers, Sequences, FiniteSets, SequencesExt

CONSTANTS
    Priority,    \* the priorities scripts use
    Meddling,    \* the callbacks in which scripts add and remove effects
    Stubborn,    \* may an effect refuse to be removed while it is temporarily stopped,
                 \* or after it added effects in that very callback?
    MaxEffect,   \* bound: the effects that are ever created
    MaxRemove,   \* bound: how often scripts remove an effect or the object dies
    MaxExecute   \* bound: how often the effects are executed

Calls == {"Start", "TempStart", "StartForRemoval", "Stop", "TempStop", "ClearStop", "Effect", "Add", "Timer"}
Starts == {"Start", "TempStart", "StartForRemoval"}
Stops == {"Stop", "TempStop", "ClearStop"}

ASSUME PriorityAssumption == Priority \subseteq Nat \ {0}
ASSUME CallAssumption     == Meddling \subseteq Calls
ASSUME BoundAssumption    == {MaxEffect, MaxRemove, MaxExecute} \subseteq Nat

Effect == 1 .. MaxEffect
None == 0

VARIABLES
    list,      \* the effects of the object, dead ones included
    prio,      \* iPriority: 0 for a dead effect, negative for one temporarily stopped
    on,        \* is the effect started, as its own callbacks were told?
    todo,      \* what the functions that are running still have to do
    made, removes, rounds   \* how many effects were created, ...

vars == <<list, prio, on, todo, made, removes, rounds>>

Abs(n) == IF n < 0 THEN -n ELSE n

\* Where e is in the list, the effect behind it and all effects behind it.
Index(e)  == CHOOSE i \in DOMAIN list : list[i] = e
pNext(e)  == list[Index(e) + 1]
Behind(e) == {list[i] : i \in Index(e) + 1 .. Len(list)}

\* Mutant: TempRemoveUpperEffects does not call itself for the next active effect.
Upper_NextOnly(e) ==
    LET active == {i \in Index(e) + 1 .. Len(list) : prio[list[i]] > 0}
    IN  IF prio[e] = 1 \/ active = {} THEN <<>> ELSE <<list[Min(active)]>>

\* The active effects behind e that TempRemoveUpperEffects stops, the last first:
\* none behind an effect with priority 1.
Upper(e) ==
    LET stops(i) == /\ i > Index(e) /\ prio[list[i]] > 0
                    /\ \A j \in Index(e) + 1 .. i : prio[list[j]] # 1
        up[i \in 0 .. Len(list)] == IF i = 0 THEN <<>>
                                    ELSE IF stops(i) THEN <<list[i]>> \o up[i - 1] ELSE up[i - 1]
    IN  IF prio[e] = 1 THEN <<>> ELSE up[Len(list)]

\* The script of e is called; was and over tell what it finds: whether e was started,
\* and the effects above e that are.
Call(e, fn) ==
    [op |-> "Call", fn |-> fn, e |-> e, was |-> on[e], prio |-> prio[e], made |-> made,
     over |-> {x \in Behind(e) : on[x] /\ prio[x] # 1}]

Tell(e, fn) ==
    on' = CASE fn \in Starts -> [on EXCEPT ![e] = TRUE]
            [] fn \in Stops  -> [on EXCEPT ![e] = FALSE]
            [] OTHER         -> on

\* Mutant: the last effect that is stopped is taken for the last one to start.
Bracket_ToLowest(e, more) ==
    LET up == Upper(e)
    IN  [i \in DOMAIN up |-> [op |-> "TempRemove", e |-> up[i]]] \o more
        \o (IF up = <<>> THEN <<>> ELSE <<[op |-> "Readd", e |-> e, last |-> Last(up)]>>)

\* TempRemoveUpperEffects, then more, then TempReaddUpperEffects.
Bracket(e, more) ==
    LET up == Upper(e)
    IN  [i \in DOMAIN up |-> [op |-> "TempRemove", e |-> up[i]]] \o more
        \o (IF up = <<>> THEN <<>> ELSE <<[op |-> "Readd", e |-> e, last |-> Head(up)]>>)

\* Mutant: an effect that is stopped temporarily is not started for its removal.
Kill_NoReactivation(e) ==
    IF prio[e] > 0 THEN Bracket(e, <<[op |-> "SetDead", e |-> e]>>) ELSE <<[op |-> "SetDead", e |-> e]>>

\* An active effect is stopped with those above it out of the way; another one, which
\* is stopped temporarily, or dead when its own timer has removed it, is started first.
Kill(e) ==
    IF prio[e] > 0 THEN Bracket(e, <<[op |-> "SetDead", e |-> e]>>)
    ELSE <<[op |-> "Reactivate", e |-> e], [op |-> "SetDead", e |-> e]>>

\* Where the new effect goes: behind the effects with a lower priority.  Those that
\* are dead, or not yet valid, count as lower.
Place(p) ==
    LET higher == {i \in 2 .. Len(list) : Abs(prio[list[i]]) >= p}
    IN  IF list = <<>> \/ Abs(prio[list[1]]) >= p THEN 1
        ELSE IF higher = {} THEN Len(list) + 1 ELSE Min(higher)
-----------------------------------------------------------------------------
Init ==
    /\ list = <<>>
    /\ prio = [e \in Effect |-> 0]
    /\ on = [e \in Effect |-> FALSE]
    /\ todo = <<>>
    /\ made = 0 /\ removes = 0 /\ rounds = 0

\* Scripts may change the list now: none is running, or one of a callback.
ScriptRuns ==
    IF todo = <<>> THEN TRUE ELSE Head(todo).op = "Call" /\ Head(todo).fn \in Meddling

\* AddEffect: the new effect is in the list, but not valid until the effects above
\* it were asked.
AddEffect(p) ==
    /\ ScriptRuns /\ made < MaxEffect
    /\ made' = made + 1
    /\ list' = InsertAt(list, Place(p), made + 1)
    /\ todo' = (IF p = 1 THEN <<>> ELSE <<[op |-> "Check", e |-> made + 1, at |-> made + 1, p |-> p, add |-> None, calls |-> FALSE]>>)
               \o <<[op |-> "New", e |-> made + 1, p |-> p]>> \o todo
    /\ UNCHANGED <<prio, on, removes, rounds>>

RemoveEffect(e) ==
    /\ ScriptRuns /\ removes < MaxRemove
    /\ e \in Range(list) /\ prio[e] # 0
    /\ removes' = removes + 1
    /\ todo' = Kill(e) \o todo
    /\ UNCHANGED <<list, prio, on, made, rounds>>

\* The effect is marked dead without a callback: RemoveEffect with fDoNoCalls, or
\* its command target is gone (ClearPointers).
RemoveSilently(e) ==
    /\ ScriptRuns /\ removes < MaxRemove
    /\ e \in Range(list) /\ prio[e] # 0
    /\ removes' = removes + 1
    /\ prio' = [prio EXCEPT ![e] = 0] /\ on' = [on EXCEPT ![e] = FALSE]
    /\ UNCHANGED <<list, todo, made, rounds>>

\* The object dies: all effects are removed, the last first.
ClearAll ==
    /\ todo = <<>> /\ removes < MaxRemove /\ list # <<>>
    /\ removes' = removes + 1
    /\ todo' = [i \in DOMAIN list |-> [op |-> "Clear", e |-> Reverse(list)[i]]]
    /\ UNCHANGED <<list, prio, on, made, rounds>>

\* One frame of the game.
Execute ==
    /\ todo = <<>> /\ rounds < MaxExecute /\ list # <<>>
    /\ rounds' = rounds + 1
    /\ todo' = <<[op |-> "Execute", e |-> Head(list)]>>
    /\ UNCHANGED <<list, prio, on, made, removes>>
-----------------------------------------------------------------------------
\* The steps of the functions.  s: the step, rest: what comes after it.

ExecuteNext(e) == IF Index(e) = Len(list) THEN <<>> ELSE <<[op |-> "Execute", e |-> pNext(e)]>>

\* Execute: a dead effect is deleted; of another one the time may have come.
ExecuteEffect(s, rest) ==
    \/ /\ prio[s.e] = 0
       /\ list' = RemoveAt(list, Index(s.e))
       /\ todo' = ExecuteNext(s.e) \o rest
       /\ UNCHANGED <<prio, on>>
    \/ /\ prio[s.e] # 0
       /\ todo' = ExecuteNext(s.e) \o rest
       /\ UNCHANGED <<list, prio, on>>
    \/ /\ prio[s.e] # 0
       /\ todo' = <<Call(s.e, "Timer"), [op |-> "Result", e |-> s.e], [op |-> "Next", e |-> s.e]>> \o rest
       /\ UNCHANGED <<list, prio, on>>

\* Check: the next active effect with at least this priority is asked; at last the
\* new effect is added to one that wanted it.
Check(s, rest) ==
    LET asked == {i \in Index(s.at) + 1 .. Len(list) : prio[list[i]] >= s.p}
        x == list[Min(asked)]
    IN  /\ todo' = IF asked # {}
                   THEN <<Call(x, "Effect"), [s EXCEPT !.at = x]>> \o rest
                   ELSE IF s.add = None THEN rest
                   ELSE (IF s.calls THEN Bracket(s.add, <<[op |-> "Add", e |-> s.add]>>)
                         ELSE <<[op |-> "Add", e |-> s.add]>>)
                        \o <<[op |-> "Result", e |-> s.add]>> \o Tail(rest)
        /\ UNCHANGED <<list, prio, on>>

\* The new effect was not denied: it becomes valid when those above it are stopped.
New(s, rest) ==
    /\ todo' = (IF s.p = 1 THEN <<[op |-> "Start", e |-> s.e, p |-> s.p]>>
                ELSE Bracket(s.e, <<[op |-> "Start", e |-> s.e, p |-> s.p]>>)) \o rest
    /\ UNCHANGED <<list, prio, on>>

Start(s, rest) ==
    /\ prio' = [prio EXCEPT ![s.e] = s.p]
    /\ todo' = <<[Call(s.e, "Start") EXCEPT !.prio = s.p]>> \o rest
    /\ Tell(s.e, "Start")
    /\ UNCHANGED list

\* FlipActive and the temporary Stop.
TempRemove(s, rest) ==
    /\ prio' = [prio EXCEPT ![s.e] = -@]
    /\ todo' = <<Call(s.e, "TempStop")>> \o rest
    /\ Tell(s.e, "TempStop")
    /\ UNCHANGED list

Add(s, rest) ==
    /\ todo' = <<Call(s.e, "Add")>> \o rest
    /\ UNCHANGED <<list, prio, on>>

\* The timer, or the effect that took in a new one, may end the effect.
Result(s, rest) ==
    /\ todo' \in {rest, Kill(s.e) \o rest}
    /\ UNCHANGED <<list, prio, on>>

\* TempReaddUpperEffects: the next inactive effect is started, up to the last one
\* that was stopped.  (That one is still in the list, and none has priority -1.)
Readd(s, rest) ==
    LET x == pNext(s.e)
        more == IF x = s.last THEN rest ELSE <<[s EXCEPT !.e = x]>> \o rest
    IN  /\ UNCHANGED list
        /\ \/ prio[x] >= 0 /\ todo' = more /\ UNCHANGED <<prio, on>>
           \/ /\ prio[x] < 0
              /\ prio' = [prio EXCEPT ![x] = -@]
              /\ todo' = <<Call(x, "TempStart")>> \o more
              /\ Tell(x, "TempStart")

\* An inactive effect is started before it is stopped for good.
Reactivate(s, rest) ==
    /\ todo' = <<Call(s.e, "StartForRemoval")>> \o rest
    /\ Tell(s.e, "StartForRemoval")
    /\ UNCHANGED <<list, prio>>

SetDead(s, rest, fn) ==
    /\ prio' = [prio EXCEPT ![s.e] = 0]
    /\ todo' = <<Call(s.e, fn)>> \o rest
    /\ Tell(s.e, fn)
    /\ UNCHANGED list

Clear(s, rest) ==
    IF prio[s.e] = 0 THEN todo' = rest /\ UNCHANGED <<list, prio, on>> ELSE SetDead(s, rest, "ClearStop")

Step ==
    /\ todo # <<>>
    /\ LET s == Head(todo)
           rest == Tail(todo)
       IN  \/ s.op = "Execute"    /\ ExecuteEffect(s, rest)
           \/ s.op = "Next"       /\ todo' = ExecuteNext(s.e) \o rest /\ UNCHANGED <<list, prio, on>>
           \/ s.op = "Check"      /\ Check(s, rest)
           \/ s.op = "New"        /\ New(s, rest)
           \/ s.op = "Start"      /\ Start(s, rest)
           \/ s.op = "Add"        /\ Add(s, rest)
           \/ s.op = "Result"     /\ Result(s, rest)
           \/ s.op = "TempRemove" /\ TempRemove(s, rest)
           \/ s.op = "Readd"      /\ Readd(s, rest)
           \/ s.op = "Reactivate" /\ Reactivate(s, rest)
           \/ s.op = "SetDead"    /\ SetDead(s, rest, "Stop")
           \/ s.op = "Clear"      /\ Clear(s, rest)
    /\ UNCHANGED <<made, removes, rounds>>

\* A callback returns, most often 0.
Return ==
    /\ todo # <<>> /\ Head(todo).op = "Call"
    /\ LET s == Head(todo)
           rest == Tail(todo)
       IN  \/ todo' = rest /\ UNCHANGED <<prio, on>>
           \* the effect does not want to start
           \/ /\ s.fn = "Start"
              /\ prio' = [prio EXCEPT ![s.e] = 0] /\ on' = [on EXCEPT ![s.e] = FALSE]
              /\ todo' = rest
           \* ... or to stop: it gets the priority back that it had
           \/ /\ s.fn \in {"Stop", "ClearStop"} /\ (Stubborn \/ (s.prio > 0 /\ s.made = made))
              /\ prio' = [prio EXCEPT ![s.e] = s.prio] /\ on' = [on EXCEPT ![s.e] = TRUE]
              /\ todo' = rest
           \* an effect denies a new one, ...
           \/ /\ s.fn = "Effect"
              /\ todo' = Tail(Tail(rest))
              /\ UNCHANGED <<prio, on>>
           \* ... or wants to take it in, with the effects above it stopped or not
           \/ /\ s.fn = "Effect"
              /\ \E calls \in BOOLEAN : todo' = <<[rest[1] EXCEPT !.add = s.e, !.calls = calls]>> \o Tail(rest)
              /\ UNCHANGED <<prio, on>>
    /\ UNCHANGED <<list, made, removes, rounds>>

Next ==
    \/ \E p \in Priority : AddEffect(p)
    \/ \E e \in Effect : RemoveEffect(e) \/ RemoveSilently(e)
    \/ ClearAll \/ Execute \/ Step \/ Return

Spec == Init /\ [][Next]_vars
-----------------------------------------------------------------------------
Told(fns) == {i \in DOMAIN todo : todo[i].op = "Call" /\ todo[i].fn \in fns}

\* Every effect is told Start and Stop in turn, the temporary ones included: it
\* never does or undoes something twice, although it may be removed while it is
\* stopped temporarily (C4Effect::Kill starts it once more for that).
Balanced ==
    /\ \A i \in Told(Starts) : ~todo[i].was
    /\ \A i \in Told(Stops) : todo[i].was

\* When an effect starts, or an active one stops, those above it are stopped
\* ("higher-priority effects must be deactivated temporarily").  Effects with
\* priority 1 are out of this.
Layered == \A i \in Told({"Start", "Stop"}) : todo[i].prio > 1 => todo[i].over = {}

\* When all callbacks have returned, what was stopped temporarily is started again
\* and the list is sorted, whatever the callbacks did to it.
Restored ==
    todo = <<>> =>
        LET live == {i \in DOMAIN list : prio[list[i]] # 0}
        IN  /\ \A e \in Effect : on[e] <=> \E i \in live : list[i] = e
            /\ \A i \in live : prio[list[i]] > 0
            /\ \A i, j \in live : i < j => prio[list[i]] <= prio[list[j]] /\ list[i] # list[j]
=============================================================================
