---------------------------- MODULE ResChunkData ----------------------------
(***************************************************************************)
(* The list of the chunks of a resource that are present, as               *)
(* C4Network2ResChunkData keeps it: a list of ranges, in order, and two    *)
(* counts that are kept up with it.                                        *)
(***************************************************************************)
EXTENDS Integers, Sequences, FiniteSets, SequencesExt

CONSTANT ChunkCnt   \* iChunkCnt, the same for everybody

ASSUME ChunkCount == ChunkCnt \in Nat \ {0}

\* A record: the ranges <<Start, Length>>, iPresentChunkCnt and iChunkRangeCnt.
SetIncomplete == [ranges |-> <<>>, present |-> 0, rangeCnt |-> 0]

\* The range count stays 0 here, as Clear has left it.
SetComplete == [ranges |-> <<<<0, ChunkCnt>>>>, present |-> ChunkCnt, rangeCnt |-> 0]

isComplete(d) == d.present = ChunkCnt

Chunks(d) == UNION {r[1] .. (r[1] + r[2] - 1) : r \in Range(d.ranges)}

\* Mutants: the range that is gone, or a chunk that comes again, stays counted.
MergeRanges_StillCounted(d, i) ==
    LET r == d.ranges[i]
        s == d.ranges[i + 1]
        overlap == IF r[1] + r[2] - s[1] < s[2] THEN r[1] + r[2] - s[1] ELSE s[2]
    IN  IF i < 1 \/ i >= Len(d.ranges) \/ r[1] + r[2] < s[1] THEN d
        ELSE [ranges |-> RemoveAt([d.ranges EXCEPT ![i] = <<r[1], r[2] + s[2] - overlap>>], i + 1),
              present |-> d.present - overlap, rangeCnt |-> d.rangeCnt]

MergeRanges_CountedAgain(d, i) ==
    LET r == d.ranges[i]
        s == d.ranges[i + 1]
        overlap == IF r[1] + r[2] - s[1] < s[2] THEN r[1] + r[2] - s[1] ELSE s[2]
    IN  IF i < 1 \/ i >= Len(d.ranges) \/ r[1] + r[2] < s[1] THEN d
        ELSE [ranges |-> RemoveAt([d.ranges EXCEPT ![i] = <<r[1], r[2] + s[2] - overlap>>], i + 1),
              present |-> d.present, rangeCnt |-> d.rangeCnt - 1]

\* The i-th range swallows its successor if they touch.
MergeRanges(d, i) ==
    LET r == d.ranges[i]
        s == d.ranges[i + 1]
        reach == r[1] + r[2] - s[1]
        overlap == IF reach < s[2] THEN reach ELSE s[2]
    IN  IF i < 1 \/ i >= Len(d.ranges) \/ r[1] + r[2] < s[1] THEN d
        ELSE [ranges |-> RemoveAt([d.ranges EXCEPT ![i] = <<r[1], r[2] + s[2] - overlap>>], i + 1),
              present |-> d.present - overlap, rangeCnt |-> d.rangeCnt - 1]

\* ... and the next ones, as long as they touch.
MergeAll(d, i) ==
    LET merged[k \in 0 .. Len(d.ranges)] == IF k = 0 THEN d ELSE MergeRanges(merged[k - 1], i)
    IN  merged[Len(d.ranges)]

\* How many ranges start before start.
Before(d, start) == Cardinality({i \in DOMAIN d.ranges : d.ranges[i][1] < start})

Added(d, i, start, length) ==
    [ranges |-> InsertAt(d.ranges, i, <<start, length>>), present |-> d.present + length, rangeCnt |-> d.rangeCnt + 1]

\* A new range comes before the first one that starts at the same place or later.
AddChunkRange(d, start, length) ==
    LET prev == Before(d, start)
        added == Added(d, prev + 1, start, length)
        merged == MergeRanges(added, prev)
    IN  IF start < 0 \/ start + length > ChunkCnt \/ length <= 0 THEN d
        ELSE IF merged # added THEN MergeAll(merged, prev) ELSE MergeAll(added, prev + 1)

AddChunk(d, chunk) == AddChunkRange(d, chunk, 1)

Merge(d, other) ==
    LET merged[k \in 0 .. Len(other.ranges)] ==
            IF k = 0 THEN d ELSE AddChunkRange(merged[k - 1], other.ranges[k][1], other.ranges[k][2])
    IN  merged[Len(other.ranges)]

\* The copy constructor and the assignment count the ranges anew.
Copy(d) == Merge(SetIncomplete, d)

\* What the receiver of a packed list has: as many ranges as were counted, and
\* iPresentChunkCnt was not packed.
Packed(d) == [ranges |-> SubSeq(d.ranges, 1, d.rangeCnt), present |-> 0, rangeCnt |-> d.rangeCnt]

\* The chunks between the range before the i-th one and the i-th one are added.
GetNegative(d) ==
    LET ends == Append(d.ranges, <<ChunkCnt, 0>>)
        FreeStart(i) == IF i = 1 THEN 0 ELSE ends[i - 1][1] + ends[i - 1][2]
        negative[i \in 0 .. Len(ends)] ==
            IF i = 0 THEN SetIncomplete ELSE AddChunkRange(negative[i - 1], FreeStart(i), ends[i][1] - FreeStart(i))
    IN  negative[Len(ends)]

\* How many chunks are in the first i ranges.
Length(d, i) ==
    LET length[k \in 0 .. Len(d.ranges)] == IF k = 0 THEN 0 ELSE length[k - 1] + d.ranges[k][2]
    IN  length[i]

\* The chunks GetChunkToRetrieve may choose: the random number picks any place
\* in the list of what is left.
getPresentChunk(d, nr) ==
    LET i == CHOOSE j \in DOMAIN d.ranges : Length(d, j - 1) <= nr /\ nr < Length(d, j)
    IN  d.ranges[i][1] + nr - Length(d, i - 1)

AddChunks(d, chunks) ==
    LET added[k \in 0 .. Len(chunks)] == IF k = 0 THEN d ELSE AddChunk(added[k - 1], chunks[k])
    IN  added[Len(chunks)]

\* Mutants: the chunk need not be available; what is being loaded is loaded again.
GetChunkToRetrieve_Unavailable(d, available, loading) ==
    LET left == GetNegative(AddChunks(d, SetToSeq(loading)))
    IN  {getPresentChunk(left, nr) : nr \in 0 .. (left.present - 1)}

GetChunkToRetrieve_AgainLoaded(d, available, loading) ==
    LET left == GetNegative(Merge(GetNegative(available), d))
    IN  {getPresentChunk(left, nr) : nr \in 0 .. (left.present - 1)}

GetChunkToRetrieve(d, available, loading) ==
    LET known == AddChunks(Merge(GetNegative(available), d), SetToSeq(loading))
        left == GetNegative(known)
    IN  IF isComplete(known) THEN {}
        ELSE {getPresentChunk(left, nr) : nr \in 0 .. (left.present - 1)}
=============================================================================
