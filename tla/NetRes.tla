------------------------------- MODULE NetRes -------------------------------
(***************************************************************************)
(* One resource (a scenario, a player file, ...) among the computers of a  *)
(* game: who has it, who loads it from whom, chunk by chunk, and what they *)
(* tell each other about the chunks they have (C4Network2Res and           *)
(* C4Network2ResList).                                                     *)
(*                                                                         *)
(* Statuses, discoveries and requests use a computer's message connection, *)
(* chunks the data connection, each of them in order; both break together. *)
(* What a computer that needs nothing discovers or learns is left out: it  *)
(* only shows it in the lobby.                                             *)
(***************************************************************************)
EXTENDS ResChunkData

CONSTANTS
    Computer,
    Source,            \* those who have the file from the beginning
    Connected,         \* pairs of computers that are connected in the beginning
    Breakable,         \* those of them whose connection may break
    MaxLoad,           \* C4NetResMaxLoad
    MaxLoadPerPeer,    \* C4NetResMaxLoadPerPeerPerFile
    Fresh,             \* whether those who have it still have to tell the others
    Announced,         \* whether the resource is among the first 15 of the list (AddDisID)
    MaxFaults,         \* bound: broken connections, the removal of the client and
                       \* timeouts although an answer is under way, all together
    MaxDiscover        \* bound: discoveries of a computer by its timer

ASSUME Limits == /\ IsFiniteSet(Computer) /\ Source \subseteq Computer
                 /\ Breakable \subseteq Connected /\ Connected \subseteq SUBSET Computer
                 /\ {MaxLoad, MaxLoadPerPeer} \subseteq Nat \ {0}
                 /\ {MaxFaults, MaxDiscover} \subseteq Nat /\ {Announced, Fresh} \subseteq BOOLEAN

VARIABLES
    res,    \* the C4Network2Res of each computer
    file,   \* the chunks with the right content in its file
    conn,   \* the pairs of computers that are connected
    msg,    \* messages on their way: msg[from][to]
    data,   \* chunks on their way: data[from][to]
    left,   \* who has removed the client that brought the resource
    count   \* connections that broke, answers that were too late, discoveries

vars == <<res, file, conn, msg, data, left, count>>

Others(n)    == Computer \ {n}
Peers(n)     == {m \in Others(n) : {n, m} \in conn}
NoClient     == [m \in {} |-> SetIncomplete]
AllChunks    == 0 .. (ChunkCnt - 1)

\* Not in the list; complete; and as SetLoad leaves it.  peers is pCChunks, a
\* load is a chunk and by whom, discovering means that iDiscoverStartTime is set.
Unlisted == [listed |-> FALSE, removed |-> FALSE, loading |-> FALSE, dirty |-> FALSE, discovering |-> FALSE,
             chunks |-> SetIncomplete, peers |-> NoClient, loads |-> {}]
Complete == [Unlisted EXCEPT !.listed = TRUE, !.chunks = SetComplete, !.dirty = Fresh]
SetLoad  == [Unlisted EXCEPT !.listed = TRUE, !.loading = TRUE]

Needs(n) == ~res[n].listed \/ res[n].loading

-----------------------------------------------------------------------------
\* A step of computer n is computed on its resource and on what it sends, out:
\* for each other computer a sequence of messages.
Nothing == [m \in Computer |-> <<>>]

SendAll(n, out) == [msg EXCEPT ![n] = [m \in Computer |-> @[m] \o out[m]]]

\* Mutant: the list is packed as it is.
Status_NotCopied(r) == [type |-> "Stat", chunks |-> Packed(r.chunks)]
Status(r)   == [type |-> "Stat", chunks |-> Packed(Copy(r.chunks))]
Discover    == [type |-> "Dis"]
Request(c)  == [type |-> "Req", chunk |-> c]

\* The loads StartLoad may add for what m has; none if it is not connected.
StartLoad(r, n, m) ==
    IF Cardinality(r.loads) + 1 >= MaxLoad \/ Cardinality({l \in r.loads : l.by = m}) >= MaxLoadPerPeer
       \/ m \notin Peers(n)
    THEN {}
    ELSE {[chunk |-> c, by |-> m] : c \in GetChunkToRetrieve(r.chunks, r.peers[m], {l.chunk : l \in r.loads})}

Load == [chunk : AllChunks, by : Computer]

\* What may come out of StartNewLoads: the clients are taken in any order, and
\* each one is asked until nothing more can be loaded from it.  Every call of
\* StartLoad, the k-th here, adds a load or is the last one for its client.
StartNewLoads(r, n) ==
    LET Call(L, order) ==
            LET new == StartLoad([r EXCEPT !.loads = L], n, Head(order))
            IN  IF order = <<>> THEN {<<L, order>>}
                ELSE IF new = {} THEN {<<L, Tail(order)>>} ELSE {<<L \cup {l}, order>> : l \in new}
        calls == MaxLoad + Cardinality(DOMAIN r.peers)
        after[k \in 0 .. calls] ==
            IF k = 0 THEN {<<r.loads, order>> : order \in SetToSeqs(DOMAIN r.peers)}
            ELSE UNION {Call(a[1], a[2]) : a \in after[k - 1]}
    IN  {a[1] : a \in {b \in after[calls] : b[2] = <<>>}}

\* The requests for the loads that were added.
Requests(old, new) ==
    [m \in Computer |-> LET S == {l \in new \ old : l.by = m}
                        IN  [i \in 1 .. Cardinality(S) |-> Request(SetToSeq(S)[i].chunk)]]

\* Nothing is loaded any more, and the list of clients is gone.
ClearLoad(r) == [r EXCEPT !.loading = FALSE, !.peers = NoClient, !.loads = {}, !.discovering = FALSE]

-----------------------------------------------------------------------------
Init ==
    /\ res = [n \in Computer |-> IF n \in Source THEN Complete ELSE Unlisted]
    /\ file = [n \in Computer |-> IF n \in Source THEN AllChunks ELSE {}]
    /\ conn = Connected /\ left = {}
    /\ msg = [n \in Computer |-> Nothing] /\ data = [n \in Computer |-> Nothing]
    /\ count = [breaks |-> 0, early |-> 0, discover |-> [n \in Computer |-> 0]]

\* The resource is needed (PreExecute, RetrieveRes): it is loaded unless it is
\* in the list.
AddByCore(n) ==
    /\ ~res[n].listed /\ n \notin left
    /\ res' = [res EXCEPT ![n] = SetLoad]
    /\ file' = [file EXCEPT ![n] = {}]
    /\ UNCHANGED <<conn, msg, data, left, count>>

\* The request of a load or the answer to it is still under way.
UnderWay(n, l) == \/ Request(l.chunk) \in Range(msg[n][l.by])
                  \/ \E d \in Range(data[l.by][n]) : d.chunk = l.chunk

DiscoverUnderWay(n) == \E m \in Computer : \/ Discover \in Range(msg[n][m])
                                           \/ \E s \in Range(msg[m][n]) : s.type = "Stat"

\* What the timer may find: loads that timed out, nobody found in time, time to
\* discover or to tell the others what is there.
Early(n, T) == IF \E l \in T : UnderWay(n, l) THEN 1 ELSE 0

MayTimeOut(n, T) ==
    /\ res[n].loading /\ ~res[n].removed /\ T \subseteq res[n].loads
    /\ count.early + Early(n, T) + count.breaks <= MaxFaults

MayGiveUp(n) ==
    res[n].loading /\ ~res[n].removed /\ res[n].loads = {} /\ res[n].discovering /\ ~DiscoverUnderWay(n)

MayDiscover(n) ==
    count.discover[n] < MaxDiscover /\ res[n].loading /\ ~res[n].removed /\ ~DiscoverUnderWay(n)

MaySendStatus(n) == res[n].dirty /\ ~res[n].removed

OnTimer(n, T, giveUp, discover, status) ==
    LET r == res[n]
        timed == [r EXCEPT !.loads = @ \ T]
    IN  /\ T # {} \/ giveUp \/ discover \/ status
        /\ T # {} => MayTimeOut(n, T)
        /\ giveUp => MayGiveUp(n) /\ ~discover /\ ~status
        /\ discover => MayDiscover(n)
        /\ status => MaySendStatus(n)
        /\ \E loads \in IF T = {} THEN {r.loads} ELSE StartNewLoads(timed, n) :
             /\ res' = [res EXCEPT ![n] = [r EXCEPT !.loads = loads, !.removed = @ \/ giveUp,
                                           !.discovering = @ \/ discover, !.dirty = @ /\ ~status]]
             /\ msg' = SendAll(n, [m \in Computer |->
                            Requests(timed.loads, loads)[m]
                            \o (IF discover /\ Announced /\ m \in Peers(n) THEN <<Discover>> ELSE <<>>)
                            \o (IF status /\ m \in Peers(n) /\ Needs(m) THEN <<Status(r)>> ELSE <<>>)])
        /\ count' = [count EXCEPT !.early = @ + Early(n, T), !.discover[n] = @ + IF discover THEN 1 ELSE 0]
        /\ UNCHANGED <<file, conn, data, left>>

\* Mutant: only those who are loading answer.
OnDiscover_OnlyLoading(n, m) ==
    /\ msg' = [[msg EXCEPT ![m][n] = Tail(@)]
                EXCEPT ![n][m] = IF res[n].loading THEN Append(@, Status(res[n])) ELSE @]
    /\ UNCHANGED <<res, data>>

\* A message from m; what the other computer no longer has in its list gets no answer.
OnDiscover(n, m) ==
    /\ msg' = [[msg EXCEPT ![m][n] = Tail(@)]
                EXCEPT ![n][m] = IF res[n].listed THEN Append(@, Status(res[n])) ELSE @]
    /\ UNCHANGED <<res, data>>

\* The list of the client is replaced, or added.
Learned(peers, m, chunks) ==
    [k \in DOMAIN peers \cup {m} |-> IF k = m THEN Copy(chunks) ELSE peers[k]]

OnStatus(n, m, chunks) ==
    LET r == [res[n] EXCEPT !.discovering = FALSE, !.peers = Learned(@, m, chunks)]
        new == StartLoad(r, n, m)
    IN  /\ IF res[n].listed /\ res[n].loading
           THEN \E loads \in IF new = {} THEN {r.loads} ELSE {r.loads \cup {l} : l \in new} :
                    /\ res' = [res EXCEPT ![n] = [r EXCEPT !.loads = loads]]
                    /\ msg' = [SendAll(n, Requests(r.loads, loads)) EXCEPT ![m][n] = Tail(@)]
           ELSE msg' = [msg EXCEPT ![m][n] = Tail(@)] /\ UNCHANGED res
        /\ UNCHANGED data

\* A chunk that is not in the file is sent all the same: its content is wrong.
SendChunk(n, m, chunk) ==
    /\ msg' = [msg EXCEPT ![m][n] = Tail(@)]
    /\ data' = [data EXCEPT ![n][m] = IF res[n].listed
                                      THEN Append(@, [chunk |-> chunk, good |-> chunk \in file[n]]) ELSE @]
    /\ UNCHANGED res

HandlePacket(n, m) ==
    /\ msg[m][n] # <<>>
    /\ LET p == Head(msg[m][n])
       IN  \/ p.type = "Dis"  /\ OnDiscover(n, m)
           \/ p.type = "Stat" /\ OnStatus(n, m, p.chunks)
           \/ p.type = "Req"  /\ SendChunk(n, m, p.chunk)
    /\ UNCHANGED <<file, conn, left, count>>

\* A chunk from m is written to the file, asked for or not.
OnChunk(n, m) ==
    LET d == Head(data[m][n])
        r == [res[n] EXCEPT !.chunks = AddChunk(@, d.chunk), !.dirty = TRUE,
                            !.loads = {l \in @ : l.chunk # d.chunk}]
    IN  /\ data[m][n] # <<>>
        /\ data' = [data EXCEPT ![m][n] = Tail(@)]
        /\ IF res[n].listed /\ res[n].loading
           THEN /\ file' = [file EXCEPT ![n] = IF d.good THEN @ \cup {d.chunk} ELSE @ \ {d.chunk}]
                /\ IF isComplete(r.chunks)
                   THEN res' = [res EXCEPT ![n] = ClearLoad(r)] /\ UNCHANGED msg
                   ELSE \E loads \in StartNewLoads(r, n) :
                            /\ res' = [res EXCEPT ![n] = [r EXCEPT !.loads = loads]]
                            /\ msg' = SendAll(n, Requests(r.loads, loads))
           ELSE UNCHANGED <<res, file, msg>>
        /\ UNCHANGED <<conn, left, count>>

\* The client that brought the resource is removed from the game, by each
\* computer when it executes this control.
RemoveAtClient(n) ==
    /\ n \notin left /\ (left # {} \/ count.breaks + count.early < MaxFaults)
    /\ left' = left \cup {n}
    /\ res' = [res EXCEPT ![n].removed = res[n].listed]
    /\ count' = [count EXCEPT !.breaks = IF left = {} THEN @ + 1 ELSE @]
    /\ UNCHANGED <<file, conn, msg, data>>

MayForget(n) ==
    /\ res[n].removed
    /\ ~Announced \/ \A m \in Peers(n) : ~res[m].listed \/ res[m].removed
    /\ \A m \in Computer : Discover \notin Range(msg[m][n])

\* Removed and not asked for during C4NetResDeleteTime: out of the list.  Others
\* that are connected and have it in theirs ask for it every second.
OnShareFree(n) ==
    /\ MayForget(n)
    /\ res' = [res EXCEPT ![n] = Unlisted]
    /\ file' = [file EXCEPT ![n] = {}]
    /\ UNCHANGED <<conn, msg, data, left, count>>

\* A connection breaks; what is on its way is lost.
Disconnect(pair) ==
    /\ count.breaks + count.early < MaxFaults /\ pair \in conn
    /\ conn' = conn \ {pair}
    /\ msg' = [n \in Computer |-> [m \in Computer |-> IF {n, m} = pair THEN <<>> ELSE msg[n][m]]]
    /\ data' = [n \in Computer |-> [m \in Computer |-> IF {n, m} = pair THEN <<>> ELSE data[n][m]]]
    /\ count' = [count EXCEPT !.breaks = @ + 1]
    /\ UNCHANGED <<res, file, left>>

\* It is opened again, and both discover what they need.
OnClientConnect(pair) ==
    /\ pair \notin conn
    /\ conn' = conn \cup {pair}
    /\ msg' = [n \in Computer |-> [m \in Computer |->
                  IF n # m /\ {n, m} = pair /\ res[n].loading /\ ~res[n].removed /\ Announced
                  THEN <<Discover>> ELSE msg[n][m]]]
    /\ UNCHANGED <<res, file, data, left, count>>

Timer(n) == \E T \in SUBSET res[n].loads, giveUp, discover, status \in BOOLEAN :
                OnTimer(n, T, giveUp, discover, status)

Next ==
    \/ \E n \in Computer : AddByCore(n) \/ Timer(n) \/ RemoveAtClient(n) \/ OnShareFree(n)
    \/ \E n, m \in Computer : HandlePacket(n, m) \/ OnChunk(n, m)
    \/ \E pair \in Breakable : Disconnect(pair) \/ OnClientConnect(pair)

Spec == Init /\ [][Next]_vars
-----------------------------------------------------------------------------
ChunkData == [ranges : Seq(AllChunks \X (1 .. ChunkCnt)), present : 0 .. ChunkCnt, rangeCnt : 0 .. ChunkCnt]

\* The ranges hold chunks of the file, in order, and no two of them touch.
RangesApart(d) == /\ Chunks(d) \subseteq AllChunks
              /\ \A i, j \in DOMAIN d.ranges : i < j => d.ranges[i][1] + d.ranges[i][2] < d.ranges[j][1]

RangesRight(d) == d.rangeCnt = Len(d.ranges)
ChunksRight(d) == d.present = Cardinality(Chunks(d))

\* Every list of chunks has its ranges in order, and both counts are what the ranges
\* hold, on every computer and of every client it knows, however the chunks came and
\* the ranges were merged; only SetComplete leaves the ranges uncounted.  A list
\* that is sent has all its ranges, and its chunks are not counted yet.
TypeOK ==
    /\ \A n \in Computer :
         /\ DOMAIN res[n] = DOMAIN Unlisted
         /\ {res[n].listed, res[n].removed, res[n].loading, res[n].dirty, res[n].discovering} \subseteq BOOLEAN
         /\ res[n].loads \subseteq Load
         /\ res[n].chunks \in ChunkData /\ RangesApart(res[n].chunks) /\ ChunksRight(res[n].chunks)
         /\ RangesRight(res[n].chunks) \/ (res[n].chunks = SetComplete /\ ~res[n].loading)
         /\ \A m \in DOMAIN res[n].peers :
              LET d == res[n].peers[m]
              IN  d \in ChunkData /\ RangesApart(d) /\ ChunksRight(d) /\ RangesRight(d)
    /\ \A n, m \in Computer : \A p \in Range(msg[n][m]) :
         /\ p.type = "Stat" => /\ p.chunks \in ChunkData /\ RangesApart(p.chunks)
                               /\ RangesRight(p.chunks) /\ p.chunks.present = 0
         /\ p.type = "Req" => p.chunk \in AllChunks
    /\ file \in [Computer -> SUBSET AllChunks]
    /\ conn \subseteq SUBSET Computer

\* Whoever takes the resource for complete has the whole file with the right
\* content, and a loader has every chunk it tells others of, although the count
\* that decides this is kept apart from the ranges and chunks arrive repeatedly.
FileComplete ==
    \A n \in Computer :
        /\ res[n].listed => Chunks(res[n].chunks) \subseteq file[n]
        /\ res[n].listed /\ ~res[n].loading => file[n] = AllChunks

\* What a computer believes others to have and asks them for, they have, unless
\* the resource is no longer in their list and they do not answer at all: SendChunk
\* does not look whether the chunk is there.
RequestsAnswerable ==
    \A n \in Computer : \A m \in {k \in Computer : res[k].listed} :
        /\ m \in DOMAIN res[n].peers => Chunks(res[n].peers[m]) \subseteq file[m]
        /\ \A p \in Range(msg[n][m]) : p.type = "Req" => p.chunk \in file[m]

\* A chunk is loaded from one computer at a time and not when it is there, and
\* the loads fit in the array StartLoad copies them to (iLoads).
LoadsApart ==
    \A n \in Computer :
        /\ \A l \in res[n].loads : l.chunk \notin Chunks(res[n].chunks)
        /\ \A l, k \in res[n].loads : l.chunk = k.chunk => l = k
        /\ Cardinality(res[n].loads) < MaxLoad
        /\ \A m \in Computer : Cardinality({l \in res[n].loads : l.by = m}) <= MaxLoadPerPeer

\* A load is given up only when nobody who has had the resource from the beginning
\* is connected, except that the client that brought it was removed.
NotGivenUp ==
    [][\A n \in Computer \ left' :
         ~res[n].removed /\ res'[n].removed => \A m \in Peers(n) \cap Source : ~res[m].listed]_vars

\* What there is to do: everything that was sent arrives, and timeouts run out.
Busy ==
    \/ \E n \in Computer :
         \/ n \notin left /\ (~res[n].listed \/ left # {})
         \/ MayGiveUp(n) \/ MayDiscover(n) \/ MaySendStatus(n) \/ MayForget(n)
         \/ \E l \in res[n].loads : MayTimeOut(n, {l})
    \/ \E n, m \in Computer : msg[n][m] # <<>> \/ data[n][m] # <<>>
    \/ ~(Breakable \subseteq conn)

\* Nobody waits for ever: as long as somebody lacks the resource, there is
\* something to do.  Nothing can go on without end here (discoveries, breaks and
\* early timeouts are bounded, and every load ends), so it gets there.
NobodyStuck == Busy \/ \A n \in Computer : n \in left \/ (res[n].listed /\ ~res[n].loading)
=============================================================================
