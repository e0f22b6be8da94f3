----------------------------- MODULE ChunkAlloc -----------------------------
(***************************************************************************)
(* How one MemContext of src/src/mem_manager/mem_mgr.c hands out memory:   *)
(* blocks are cut off the current chunk, a chunk that is too short is      *)
(* abandoned for a new one, and the arrays of chunks grow by doubling.     *)
(*                                                                         *)
(* A chunk is numbered by its creation, which stands for the address       *)
(* malloc() returns for it; malloc() is taken to succeed.  Sizes and       *)
(* offsets are in bytes.                                                   *)
(***************************************************************************)
EXTENDS Integers, Sequences, FiniteSets

CONSTANTS
    DEFAULT_CHUNK_SIZE,
    INIT_CHUNK_ARRAY_SIZE,
    Request,     \* sizes asked of malloc_ and calloc_ (bytes * count)
    MaxChunk,    \* bound: chunks created in a behaviour
    MaxBlock     \* bound: blocks handed out in a behaviour

ASSUME ChunkAssumption ==
    /\ DEFAULT_CHUNK_SIZE \in Nat \ {0}
    /\ INIT_CHUNK_ARRAY_SIZE \in Nat \ {0}
    /\ Request \subseteq Nat
    /\ MaxChunk \in Nat
    /\ MaxBlock \in Nat

VARIABLES
    state,              \* of the context: "none", "live" or "freed"
    chunks,             \* mc->chunks[0 .. numChunks - 1], as chunk numbers
    curChunkArraySize,
    memLeftInChunk,
    curAllocPos,        \* the chunk and the offset the next block starts at
    unusedBytes,
    size,               \* size[c]: bytes malloc() gave to chunk c
    heap,               \* chunks malloc() gave out and free() did not get back
    blocks,             \* the blocks handed out since the last clear
    asked               \* number of blocks handed out so far

chunkVars == << state, chunks, curChunkArraySize, memLeftInChunk, curAllocPos,
                unusedBytes, size, heap, blocks, asked >>

Block == [chunk : Nat, off : Nat, len : Nat]
Pos == [chunk : Nat, off : Nat]

ChunkTypeOK ==
    /\ state \in {"none", "live", "freed"}
    /\ chunks \in Seq(Nat)
    /\ curChunkArraySize \in Nat
    /\ memLeftInChunk \in Nat
    /\ curAllocPos \in Pos
    /\ unusedBytes \in Nat
    /\ size \in Seq(Nat)
    /\ heap \subseteq 1 .. Len(size)
    /\ blocks \subseteq Block
    /\ asked \in Nat

numChunks == Len(chunks)

ChunkInit ==
    /\ state = "none"
    /\ chunks = << >>
    /\ curChunkArraySize = 0
    /\ memLeftInChunk = 0
    /\ curAllocPos = [chunk |-> 0, off |-> 0]
    /\ unusedBytes = 0
    /\ size = << >>
    /\ heap = {}
    /\ blocks = {}
    /\ asked = 0

\* createFirstChunk, part of newMemContext
createFirstChunk ==
    /\ state = "none"
    /\ MaxChunk >= 1
    /\ state' = "live"
    /\ size' = << DEFAULT_CHUNK_SIZE >>
    /\ heap' = {1}
    /\ chunks' = << 1 >>
    /\ curChunkArraySize' = INIT_CHUNK_ARRAY_SIZE
    /\ curAllocPos' = [chunk |-> 1, off |-> 0]
    /\ memLeftInChunk' = DEFAULT_CHUNK_SIZE
    /\ unusedBytes' = 0
    /\ UNCHANGED << blocks, asked >>

ActualSize(bytes) ==
    IF bytes < DEFAULT_CHUNK_SIZE THEN DEFAULT_CHUNK_SIZE ELSE bytes

\* Mutant: the arrays are doubled one chunk too late.
GrownArraySizeLate ==
    IF numChunks > curChunkArraySize THEN 2 * curChunkArraySize
    ELSE curChunkArraySize

\* The arrays are doubled when every slot is taken, before the slot after
\* the last one is written.
GrownArraySize ==
    IF numChunks = curChunkArraySize THEN 2 * curChunkArraySize
    ELSE curChunkArraySize

\* createChunk, followed by the rest of malloc_
AllocFromNewChunk(bytes) ==
    LET c == Len(size) + 1
    IN  /\ memLeftInChunk < bytes
        /\ c <= MaxChunk
        /\ unusedBytes' = unusedBytes + memLeftInChunk
        /\ size' = Append(size, ActualSize(bytes))
        /\ heap' = heap \union {c}
        /\ curChunkArraySize' = GrownArraySize
        /\ chunks' = Append(chunks, c)
        /\ blocks' = blocks \union {[chunk |-> c, off |-> 0, len |-> bytes]}
        /\ curAllocPos' = [chunk |-> c, off |-> bytes]
        /\ memLeftInChunk' = ActualSize(bytes) - bytes

\* Mutant: curAllocPos is not advanced.
AllocInPlace(bytes) ==
    /\ memLeftInChunk >= bytes
    /\ blocks' = blocks \union
            {[chunk |-> curAllocPos.chunk, off |-> curAllocPos.off, len |-> bytes]}
    /\ memLeftInChunk' = memLeftInChunk - bytes
    /\ UNCHANGED << curAllocPos, unusedBytes, size, heap, curChunkArraySize, chunks >>

AllocFromCurChunk(bytes) ==
    /\ memLeftInChunk >= bytes
    /\ blocks' = blocks \union
            {[chunk |-> curAllocPos.chunk, off |-> curAllocPos.off, len |-> bytes]}
    /\ curAllocPos' = [chunk |-> curAllocPos.chunk, off |-> curAllocPos.off + bytes]
    /\ memLeftInChunk' = memLeftInChunk - bytes
    /\ UNCHANGED << unusedBytes, size, heap, curChunkArraySize, chunks >>

\* malloc_ and calloc_, which differ in the memset only
allocBytes(bytes) ==
    /\ state = "live"
    /\ asked < MaxBlock
    /\ asked' = asked + 1
    /\ AllocFromNewChunk(bytes) \/ AllocFromCurChunk(bytes)
    /\ UNCHANGED state

\* Mutant: memLeftInChunk is not reset, so the freed chunk stays in use.
clearKeepsMemLeft ==
    /\ state = "live"
    /\ heap' = heap \ {chunks[i] : i \in 1 .. numChunks}
    /\ chunks' = << >>
    /\ blocks' = {}
    /\ UNCHANGED << state, curChunkArraySize, memLeftInChunk, curAllocPos,
                    unusedBytes, size, asked >>

\* clearAMemContext: curAllocPos and unusedBytes keep their values.
clearAMemContext ==
    /\ state = "live"
    /\ heap' = heap \ {chunks[i] : i \in 1 .. numChunks}
    /\ chunks' = << >>
    /\ memLeftInChunk' = 0
    /\ blocks' = {}
    /\ UNCHANGED << state, curChunkArraySize, curAllocPos, unusedBytes, size, asked >>

\* internalFreeMemContext: memContextSize counts hashAlloc, which nothing
\* fills any more, so the branch that would clear the chunks is never taken.
internalFreeMemContext ==
    /\ state = "live"
    /\ state' = "freed"
    /\ blocks' = {}
    /\ UNCHANGED << chunks, curChunkArraySize, memLeftInChunk, curAllocPos,
                    unusedBytes, size, heap, asked >>

ChunkNext ==
    \/ createFirstChunk
    \/ \E bytes \in Request : allocBytes(bytes)
    \/ clearAMemContext
    \/ internalFreeMemContext

ChunkSpec == ChunkInit /\ [][ChunkNext]_chunkVars

-----------------------------------------------------------------------------

\* A block with at least one byte lies inside a chunk that has not been given
\* back: malloc_ never returns memory beyond the end of a chunk (requests of
\* exactly the space left, of more than the default chunk size and the first
\* request after a clear included) nor memory of a cleared chunk.
BlocksInChunks ==
    \A b \in blocks : b.len > 0 =>
        /\ b.chunk \in heap
        /\ b.off + b.len <= size[b.chunk]

\* Blocks handed out since the last clear do not overlap.
Overlap(a, b) ==
    /\ a.chunk = b.chunk
    /\ a.off < b.off + b.len
    /\ b.off < a.off + a.len

BlocksDisjoint ==
    \A a, b \in blocks : a # b /\ a.len > 0 /\ b.len > 0 => ~Overlap(a, b)

\* The arrays chunks and chunkSizes have a slot for every chunk: createChunk
\* never writes past their end.
ArraysLargeEnough == state = "live" => numChunks <= curChunkArraySize

\* A live context owns exactly the chunks that are in its array: none is lost
\* when the arrays are doubled or when a chunk is abandoned half used.
ChunksTracked == state = "live" => heap = {chunks[i] : i \in 1 .. numChunks}

-----------------------------------------------------------------------------

\* The end of the blocks of a chunk: what the next block of the current chunk
\* must not go below.
EndOfBlocks(c) == IF c = curAllocPos.chunk THEN curAllocPos.off ELSE size[c]

\* The inductive invariant: the bump pointer and the bytes left add up to the
\* current chunk, and every block ends before the pointer.
ChunkIInv ==
    /\ ChunkTypeOK
    /\ state = "none" =>
         chunks = << >> /\ size = << >> /\ heap = {} /\ blocks = {}
    /\ \A i \in 1 .. numChunks : chunks[i] \in heap
    /\ state = "live" =>
         /\ curAllocPos.chunk \in 1 .. Len(size)
         /\ 1 <= curChunkArraySize
         /\ memLeftInChunk > 0 => curAllocPos.chunk \in heap
         /\ curAllocPos.off + memLeftInChunk <= size[curAllocPos.chunk]
    /\ state = "freed" => blocks = {}
    /\ \A b \in blocks : b.len > 0 =>
         b.chunk \in heap /\ b.off + b.len <= EndOfBlocks(b.chunk)
    /\ BlocksDisjoint
    /\ ArraysLargeEnough
    /\ ChunksTracked
=============================================================================
