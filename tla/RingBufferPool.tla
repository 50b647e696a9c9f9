---------------------------- MODULE RingBufferPool ----------------------------
(***************************************************************************)
(* The RingBufferPool (src/src/media/audio/ringbufferpool.cpp): which      *)
(* buffer is read under which id.  A pool is a record: reads holds         *)
(* <<reader, source>> for every read offset, which is every read binding;  *)
(* mic is micMutedIds_ and play localPlaybackMutedIds_.  Each operation    *)
(* runs under stateLock_.  One buffer is the subject of RingBuffer.        *)
(***************************************************************************)
EXTENDS Integers, FiniteSets

DEFAULT_ID == "default"    \* the microphone as a source, the speakers as a reader

BindHalfDuplexOut(pool, reader, source) ==
    [pool EXCEPT !.reads = @ \cup {<<reader, source>>}]

BindCallID(pool, id1, id2) ==
    BindHalfDuplexOut(BindHalfDuplexOut(pool, id1, id2), id2, id1)

UnBindHalfDuplexOut(pool, reader, source) ==
    [pool EXCEPT !.reads = @ \ {<<reader, source>>}]

GetReadBindings(pool, id) == {r[2] : r \in {r \in pool.reads : r[1] = id}}

(* Only the readers that the call itself reads are known to be removed. *)
UnBindAllHalfDuplexOut(pool, id) ==
    [pool EXCEPT !.reads = @ \ {<<other, id>> : other \in GetReadBindings(pool, id)}]

UnBindAll(pool, id) ==
    [UnBindAllHalfDuplexOut(pool, id)
         EXCEPT !.reads = @ \ {<<id, other>> : other \in GetReadBindings(pool, id)}]

SetLocalPlaybackMuted(pool, ids, muted) ==
    [pool EXCEPT !.play = IF muted THEN @ \cup ids ELSE @ \ ids]

SetMicMuted(pool, ids, muted) ==
    [pool EXCEPT !.mic = IF muted THEN @ \cup ids ELSE @ \ ids]

(* getData: the sources that are in the mix of a reader. *)
SkipMutedBuffer(pool, source, reader) ==
    \/ reader = DEFAULT_ID /\ source \in pool.play
    \/ source = DEFAULT_ID /\ reader \in pool.mic

GetData(pool, reader) ==
    {source \in GetReadBindings(pool, reader) : ~SkipMutedBuffer(pool, source, reader)}

====
