------------------------------- MODULE Arena -------------------------------
(***************************************************************************)
(* ArenaAllocator: allocate() moves an offset through a chunk and goes on  *)
(* to the next chunk when the current one is full; reset() starts over     *)
(* with the chunks that are there. Sizes are natural numbers: the model    *)
(* holds for requests whose sums do not overflow size_t.                   *)
(***************************************************************************)
EXTENDS Integers, Sequences

CONSTANTS ChunkSize,   \* chunk_size_
          Alignments,  \* the alignments that callers ask for
          MaxBytes,    \* bound of a request
          MaxChunks,   \* bound of the number of chunks
          MaxBlocks    \* bound of the number of blocks between two resets

ASSUME ArenaAssumption == /\ ChunkSize \in Nat /\ Alignments \subseteq Nat \ {0}
                          /\ MaxBytes \in Nat /\ MaxChunks \in Nat \ {0}
                          /\ MaxBlocks \in Nat

VARIABLES
    chunks,   \* chunks_.size()
    current,  \* current_chunk_idx_
    offset,   \* current_offset_
    blocks,   \* history: what allocate() has returned since the last reset
    thrown    \* history: has add_chunk() thrown since the last reset?

arenaVars == <<chunks, current, offset, blocks, thrown>>

(* The constructor adds a chunk.                                            *)
ArenaInit == /\ chunks = 1 /\ current = 0 /\ offset = 0
             /\ blocks = <<>> /\ thrown = FALSE

Padding(at, alignment) == (alignment - (at % alignment)) % alignment

Block(chunk, at, bytes, alignment) ==
    [chunk |-> chunk, at |-> at, bytes |-> bytes, alignment |-> alignment]

(* chunks_[index] of a vector of that size. Behind its end the expression   *)
(* is undefined: it may yield one of the chunks or memory that is in none.  *)
ChunkAt(index, size) == IF index < size THEN {index} ELSE 0..size

(* allocate(), when the block fits in the current chunk.                    *)
Allocate(bytes, alignment) ==
    LET padding == Padding(offset, alignment)
        at == offset + padding
    IN  /\ offset + (bytes + padding) <= ChunkSize
        /\ \E chunk \in ChunkAt(current, chunks) :
              blocks' = Append(blocks, Block(chunk, at, bytes, alignment))
        /\ offset' = at + bytes
        /\ UNCHANGED <<chunks, current, thrown>>

(* The request does not fit in the rest of the current chunk. One that is   *)
(* too large with the padding throws and changes nothing.                   *)
GoesOn(bytes, alignment) ==
    LET padding == Padding(offset, alignment)
    IN  offset + (bytes + padding) > ChunkSize /\ bytes + padding <= ChunkSize

\* Variant: the index moves on only when a chunk is added.
AllocateNextReuses(bytes, alignment) ==
    /\ GoesOn(bytes, alignment) /\ current + 1 < MaxChunks
    /\ chunks' = IF current + 1 >= chunks THEN chunks + 1 ELSE chunks
    /\ current' = IF current + 1 >= chunks THEN current + 1 ELSE current
    /\ LET at == Padding(0, alignment)
       IN  /\ \E chunk \in ChunkAt(current', chunks') :
                 blocks' = Append(blocks, Block(chunk, at, bytes, alignment))
           /\ offset' = at + bytes
    /\ UNCHANGED thrown

(* allocate(), when it goes on to the next chunk, adding one if there is    *)
(* none.                                                                    *)
AllocateNext(bytes, alignment) ==
    /\ GoesOn(bytes, alignment) /\ current + 1 < MaxChunks
    /\ current' = current + 1
    /\ chunks' = IF current + 1 >= chunks THEN chunks + 1 ELSE chunks
    /\ LET at == Padding(0, alignment)
       IN  /\ \E chunk \in ChunkAt(current', chunks') :
                 blocks' = Append(blocks, Block(chunk, at, bytes, alignment))
           /\ offset' = at + bytes
    /\ UNCHANGED thrown

(* add_chunk() throws: allocate() is left with the index moved on and the   *)
(* offset as it was.                                                        *)
AddChunkThrows(bytes, alignment) ==
    /\ GoesOn(bytes, alignment) /\ current + 1 >= chunks /\ current + 1 < MaxChunks
    /\ current' = current + 1
    /\ thrown' = TRUE
    /\ UNCHANGED <<chunks, offset, blocks>>

(* reset(): the blocks given out so far are not used any more.              *)
Reset == /\ current' = 0 /\ offset' = 0 /\ blocks' = <<>> /\ thrown' = FALSE
         /\ UNCHANGED chunks

ArenaNext == \/ /\ Len(blocks) < MaxBlocks
                /\ \E bytes \in 0..MaxBytes, alignment \in Alignments :
                     \/ Allocate(bytes, alignment) \/ AllocateNext(bytes, alignment)
                     \/ AddChunkThrows(bytes, alignment)
             \/ Reset

ArenaSpec == ArenaInit /\ [][ArenaNext]_arenaVars

-----------------------------------------------------------------------------
Overlap(a, b) == /\ a.chunk = b.chunk
                 /\ a.at < b.at + b.bytes /\ b.at < a.at + a.bytes

Disjoint == \A i, j \in DOMAIN blocks : i # j => ~Overlap(blocks[i], blocks[j])

Aligned == \A i \in DOMAIN blocks : blocks[i].at % blocks[i].alignment = 0

(* Every block in use lies inside a chunk that exists, begins at a multiple *)
(* of its alignment counted from the beginning of the chunk, and overlaps   *)
(* no other, although chunks are reused after reset() and their ends may be *)
(* left unused. After add_chunk() has thrown, the index stays behind the    *)
(* last chunk and nothing is promised until reset(), which repairs it.      *)
BlocksSound ==
    ~thrown => /\ Disjoint /\ Aligned
               /\ \A i \in DOMAIN blocks : /\ blocks[i].chunk < chunks
                                          /\ blocks[i].at + blocks[i].bytes <= ChunkSize

(* The inductive invariant: everything in use lies behind the offset in the *)
(* current chunk or in an earlier chunk.                                    *)
PlacedInv ==
    /\ current < chunks /\ offset <= ChunkSize
    /\ blocks \in Seq([chunk : Nat, at : Nat, bytes : Nat, alignment : Nat])
    /\ \A i \in DOMAIN blocks :
        /\ blocks[i].chunk <= current
        /\ blocks[i].at + blocks[i].bytes <= ChunkSize
        /\ blocks[i].chunk = current => blocks[i].at + blocks[i].bytes <= offset
    /\ Disjoint /\ Aligned

ArenaInv == /\ chunks \in Nat \ {0} /\ current \in Nat /\ offset \in Nat
            /\ thrown \in BOOLEAN
            /\ ~thrown => PlacedInv
=============================================================================
