----------------------------- MODULE MCNetStatus -----------------------------
EXTENDS NetStatus
CONSTANTS h, a, b

Played(clients, tick, p, c) ==
    [activated |-> clients, reconnect |-> FALSE, netThread |-> FALSE,
     maxTick |-> tick, maxPauses |-> p, maxChanges |-> c, maxCrashes |-> 0]

\* Nobody crashes, and b is not activated at first: a pause and a change in tick 0;
\* a pause, or an activation, while control of two ticks is on its way.
SyncGames == {Played({h, a}, 0, 1, 1), Played({h, a}, 1, 1, 0), Played({h}, 1, 0, 1)}

\* Two clients crash without the reconnect feature: all activated, or with the
\* network thread.  One crashes with it: all activated, or before or after a pause.
CrashGames ==
    {[Played({h, a, b}, 0, 0, 0) EXCEPT !.maxCrashes = 2],
     [Played({h, a}, 0, 0, 0) EXCEPT !.maxCrashes = 2, !.netThread = TRUE],
     [Played({h, a, b}, 0, 0, 0) EXCEPT !.maxCrashes = 1, !.netThread = TRUE, !.reconnect = TRUE],
     [Played({h}, 0, 1, 0) EXCEPT !.maxCrashes = 1, !.netThread = TRUE, !.reconnect = TRUE]}

AllGames == SyncGames \cup CrashGames

\* Nobody crashes: one change, with the network thread.
RaceGame == {[Played({h, a}, 0, 0, 1) EXCEPT !.netThread = TRUE]}
==============================================================================
