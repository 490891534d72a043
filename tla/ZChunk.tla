------------------------------- MODULE ZChunk -------------------------------
(* The class zchunk (zchunk.c): octets with a capacity, kept in one of three  *)
(* places (behind the object itself, in a block of its own, in a block of the *)
(* caller that a destructor gives back), growing on demand, and consumed      *)
(* piecemeal by another chunk. The application fills the chunk "source" and   *)
(* consumes it into the chunk "sink". The cached digest is left out.          *)
EXTENDS Integers, Sequences, FiniteSets

CONSTANTS Octets,        \* values of an octet
          MaxData,       \* bound: octets in one call
          MaxSize,       \* bound: octets a chunk is filled to
          ReusesConsumed \* may the program set or resize a chunk of which some
                         \* octets were consumed?

VARIABLES chunk,   \* the chunks: content, max_size, consumed and place
          heap,    \* blocks zchunk allocated and has not freed
          lent,    \* blocks of the caller whose destructor has not run
          taken    \* the octets consumed from the source, in order

chunkVars == <<chunk, heap, lent, taken>>

Chunks == {"source", "sink"}

Data == UNION {[1 .. n -> Octets] : n \in 0 .. MaxData}

\* zchunk_new, and zchunk_frommem when the place is a block of the caller: a
\* chunk that holds what it was given, or an empty one with room.
zchunk_new(data, size, place) ==
    [content |-> data, max_size |-> size, consumed |-> 0, place |-> place]

ChunkInit ==
    /\ chunk \in [Chunks -> {zchunk_new(<<>>, n, "inside") : n \in 0 .. MaxData}]
    /\ heap = 0
    /\ lent = 0
    /\ taken = <<>>

Truncated(data, room) == IF Len(data) > room THEN SubSeq(data, 1, room) ELSE data

\* The chunk moves to a block of its own: a block of the caller is given back,
\* one of its own is reallocated.
Reallocated(c) ==
    /\ heap' = IF chunk[c].place = "heap" THEN heap ELSE heap + 1
    /\ lent' = IF chunk[c].place = "caller" THEN lent - 1 ELSE lent

\* zchunk_destroy, followed by a new chunk in the place of the old.
zchunk_destroy(c, data, size, place) ==
    /\ heap' = IF chunk[c].place = "heap" THEN heap - 1 ELSE heap
    /\ lent' = lent - (IF chunk[c].place = "caller" THEN 1 ELSE 0)
                    + (IF place = "caller" THEN 1 ELSE 0)
    /\ chunk' = [chunk EXCEPT ![c] = zchunk_new(data, size, place)]
    /\ taken' = IF c = "source" THEN <<>> ELSE taken

MayReset(c) == ReusesConsumed \/ chunk[c].consumed = 0

\* zchunk_resize: another capacity and no content. What was consumed stays.
zchunk_resize(c, size) ==
    /\ MayReset(c)
    /\ Reallocated(c)
    /\ chunk' = [chunk EXCEPT ![c].content = <<>>, ![c].max_size = size, ![c].place = "heap"]
    /\ UNCHANGED taken

\* zchunk_set and zchunk_fill: other content, truncated to the capacity.
zchunk_set(c, data) ==
    /\ MayReset(c)
    /\ chunk' = [chunk EXCEPT ![c].content = Truncated(data, chunk[c].max_size)]
    /\ UNCHANGED <<heap, lent, taken>>

\* zchunk_append: what exceeds the room is dropped.
zchunk_append(c, data) ==
    /\ Len(chunk[c].content) + Len(data) <= MaxSize
    /\ chunk' = [chunk EXCEPT ![c].content =
                    @ \o Truncated(data, chunk[c].max_size - Len(@))]
    /\ UNCHANGED <<heap, lent, taken>>

\* zchunk_extend: the chunk grows to twice what it then holds.
zchunk_extend(c, data) ==
    LET size == Len(chunk[c].content) + Len(data)
    IN  /\ size <= MaxSize
        /\ IF size > chunk[c].max_size
              THEN /\ Reallocated(c)
                   /\ chunk' = [chunk EXCEPT ![c].content = @ \o data,
                                             ![c].max_size = 2 * size, ![c].place = "heap"]
              ELSE /\ chunk' = [chunk EXCEPT ![c].content = @ \o data]
                   /\ UNCHANGED <<heap, lent>>
        /\ UNCHANGED taken

\* The octets zchunk_consume copies: as many as the source still has, and the
\* sink has room for, from the first that was not consumed.
Piece ==
    LET source == chunk["source"]
        sink == chunk["sink"]
    IN  Truncated(SubSeq(source.content, source.consumed + 1, Len(source.content)),
                  sink.max_size - Len(sink.content))

zchunk_consume ==
    /\ chunk["source"].consumed <= Len(chunk["source"].content)
    /\ chunk' = [chunk EXCEPT !["sink"].content = @ \o Piece,
                              !["source"].consumed = @ + Len(Piece)]
    /\ taken' = taken \o Piece
    /\ UNCHANGED <<heap, lent>>

ChunkNext ==
    \/ \E c \in Chunks, data \in Data :
          \/ \E place \in {"inside", "caller"} : zchunk_destroy(c, data, Len(data), place)
          \/ zchunk_set(c, data)
          \/ zchunk_append(c, data)
          \/ zchunk_extend(c, data)
    \/ \E c \in Chunks, size \in 1 .. MaxData :
          \/ zchunk_destroy(c, <<>>, size, "inside")
          \/ zchunk_resize(c, size)
    \/ zchunk_consume

ChunkSpec == ChunkInit /\ [][ChunkNext]_chunkVars

-----------------------------------------------------------------------------

\* "Source can be consumed as many times as needed until it is exhausted": over
\* any number of calls of zchunk_consume, into a sink with any room, the octets
\* that left the source are its first ones, each once and in order, while it
\* grows by zchunk_append and zchunk_extend; so the assert of zchunk_exhausted,
\* that no more was consumed than there is, holds.
StreamExact ==
    LET source == chunk["source"]
    IN  /\ Len(taken) = source.consumed
        /\ source.consumed <= Len(source.content)
        /\ \A i \in 1 .. source.consumed : taken[i] = source.content[i]

\* Whatever way a chunk grew or was resized, the blocks that are allocated are
\* those of the chunks that live in one, and the destructor of a block of the
\* caller has run once, as soon as no chunk uses it.
BlocksOwned ==
    /\ heap = Cardinality({c \in Chunks : chunk[c].place = "heap"})
    /\ lent = Cardinality({c \in Chunks : chunk[c].place = "caller"})

=============================================================================
