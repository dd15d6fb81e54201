------------------------------ MODULE ControlLog ------------------------------
(***************************************************************************)
(* What the control engine promises to the game: there is one log of       *)
(* control, at most one entry per tick, entries are never changed, and     *)
(* every client executes the entries of this log one after the other from  *)
(* tick 0 on.  Entries for later ticks may be decided ahead of time and in *)
(* any order.                                                              *)
(***************************************************************************)
EXTENDS Integers

CONSTANTS Client, Ctrl

VARIABLES
    log,     \* the decided control: a set of [tick, ctrl]
    done     \* what every client has executed of it

Entry == [tick : Nat, ctrl : Ctrl]

OnePerTick(S) == \A d, e \in S : d.tick = e.tick => d = e

Init ==
    /\ log = {}
    /\ done = [n \in Client |-> {}]

\* Control is decided for some more ticks.
Decide ==
    /\ log \subseteq log'
    /\ log' \subseteq Entry
    /\ OnePerTick(log')
    /\ UNCHANGED done

\* A client executes the control of its next tick.
Execute(n) ==
    /\ \E e \in log :
         /\ {d.tick : d \in done[n]} = 0 .. (e.tick - 1)
         /\ done' = [done EXCEPT ![n] = @ \cup {e}]
    /\ UNCHANGED log

Next == Decide \/ \E n \in Client : Execute(n)

Spec == Init /\ [][Next]_<<log, done>>
=============================================================================
