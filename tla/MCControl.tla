------------------------------ MODULE MCControl ------------------------------
EXTENDS GameControlNetwork
CONSTANTS h, a, b, x, y

\* Started and never stopped; started and stopped; run up to a target tick.
StartOnly == {<<TRUE, -1>>}
StartStop == {<<TRUE, -1>>, <<FALSE, -1>>}
RunTo1    == {<<TRUE, 1>>}
AllSettings == StartStop \cup RunTo1

Lossless == [settings |-> StartOnly, input |-> Input, asked |-> FALSE, lossy |-> FALSE]

\* Without losses: old requests come late, or the control is stopped.
KeptGames == {[Lossless EXCEPT !.asked = TRUE], [Lossless EXCEPT !.settings = StartStop]}
\* With losses, up to a target tick.
LossyGames == {[Lossless EXCEPT !.settings = RunTo1, !.lossy = TRUE, !.input = {x}]}

DecentralGames == KeptGames \cup LossyGames
AsyncGames == {Lossless}
==============================================================================
