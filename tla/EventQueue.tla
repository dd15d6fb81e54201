------------------------------ MODULE EventQueue ------------------------------
(***************************************************************************)
(* What the event queue of C4InteractiveThread promises to the threads     *)
(* that push events and to the main thread: every event is processed at    *)
(* most once, and in the order in which they were pushed.                  *)
(***************************************************************************)
EXTENDS Sequences

CONSTANT Event

VARIABLES
    queue,    \* pushed and not yet processed
    done      \* processed, in this order

vars == <<queue, done>>

Init == queue = <<>> /\ done = <<>>

Push(e) == queue' = Append(queue, e) /\ done' = done

Process ==
    /\ queue # <<>>
    /\ queue' = Tail(queue)
    /\ done' = Append(done, Head(queue))

Next == (\E e \in Event : Push(e)) \/ Process

Spec == Init /\ [][Next]_vars
===============================================================================
