---------------------------- MODULE RingBuffer ----------------------------
(***************************************************************************)
(* The ring of audio frames between one writer and the readers of a stream *)
(* (media/audio/ringbuffer.cpp): Size slots, the position endPos_ the next *)
(* frame goes to, and a read offset per reader.  Frames stand for their    *)
(* number in the order of writing.  Every operation holds lock_, so each   *)
(* is one step; the resampler and the 20 ms resizer in front of            *)
(* putToBuffer only decide what a frame is.                                *)
(***************************************************************************)
EXTENDS Integers, FiniteSets

CONSTANTS Readers,    \* the ids a read offset can have
          Size,       \* slots of buffer_, 16 in the code
          MaxFrames   \* bound: frames written in a behaviour

ASSUME SizeAssumption == Size \in Nat /\ Size >= 2

ASSUME BoundAssumption == MaxFrames \in Nat

VARIABLES buffer,       \* buffer_: slot -> frame
          endPos,       \* endPos_
          readoffsets,  \* readoffsets_: reader -> slot it reads next
          waiting,      \* readers blocked on not_empty_
          written,      \* history: number of frames written
          out           \* history: the last frame a get returned, and to whom

vars == <<buffer, endPos, readoffsets, waiting, written, out>>

Slots == 0 .. Size - 1

Empty == -1

Nobody == [reader |-> "none", frame |-> 0]

Init ==
    /\ buffer = [s \in Slots |-> Empty]
    /\ endPos = 0
    /\ readoffsets = [r \in {} |-> 0]
    /\ waiting = {}
    /\ written = 0
    /\ out = Nobody

HasThisReadOffset(r) == r \in DOMAIN readoffsets

\* The frames between a position and the writer.
Distance(pos) == (endPos + Size - pos) % Size

GetLength(r) == Distance(readoffsets[r])

GetSmallestReadOffset ==
    IF DOMAIN readoffsets = {} THEN 0
    ELSE CHOOSE o \in {readoffsets[r] : r \in DOMAIN readoffsets} :
             \A r \in DOMAIN readoffsets : o <= readoffsets[r]

PutLength == Distance(GetSmallestReadOffset)

DiscardFromAll(n) ==
    [r \in DOMAIN readoffsets |->
        LET dst == (readoffsets[r] + Size - endPos) % Size
        IN  IF dst < n THEN (readoffsets[r] + n - dst) % Size
                       ELSE readoffsets[r]]

\* not_empty_.notify_all: a waiter re-evaluates its check, and stays while it is
\* still a reader and has nothing to read.
StillWaiting(end, offsets) ==
    {r \in waiting : r \in DOMAIN offsets /\ (end + Size - offsets[r]) % Size = 0}

\* Seeded bug: the frame is stored behind the position the readers are sent to.
PutToBufferPastEnd ==
    /\ written < MaxFrames
    /\ endPos' = (endPos + 1) % Size
    /\ buffer' = [buffer EXCEPT ![endPos'] = written]
    /\ waiting' = StillWaiting(endPos', readoffsets)
    /\ written' = written + 1
    /\ UNCHANGED <<readoffsets, out>>

\* Seeded bug: nobody is told of the new frame.
PutToBufferSilently ==
    /\ written < MaxFrames
    /\ endPos' = (endPos + 1) % Size
    /\ buffer' = [buffer EXCEPT ![endPos] = written]
    /\ written' = written + 1
    /\ UNCHANGED <<readoffsets, waiting, out>>

PutToBuffer ==
    /\ written < MaxFrames
    /\ readoffsets' = IF Size - PutLength = 0 THEN DiscardFromAll(1) ELSE readoffsets
    /\ buffer' = [buffer EXCEPT ![endPos] = written]
    /\ endPos' = (endPos + 1) % Size
    /\ waiting' = StillWaiting(endPos', readoffsets')
    /\ written' = written + 1
    /\ UNCHANGED out

\* Seeded bug: the offset stays, and the frame is given again.
GetAgain(r) ==
    /\ HasThisReadOffset(r) /\ GetLength(r) # 0
    /\ out' = [reader |-> r, frame |-> buffer[readoffsets[r]]]
    /\ UNCHANGED <<buffer, endPos, readoffsets, waiting, written>>

Get(r) ==
    /\ HasThisReadOffset(r) /\ GetLength(r) # 0
    /\ out' = [reader |-> r, frame |-> buffer[readoffsets[r]]]
    /\ readoffsets' = [readoffsets EXCEPT ![r] = (@ + 1) % Size]
    /\ UNCHANGED <<buffer, endPos, waiting, written>>

Discard(r, n) ==
    /\ HasThisReadOffset(r)
    /\ LET len == GetLength(r)
       IN  readoffsets' = [readoffsets EXCEPT ![r] = (@ + (IF n < len THEN n ELSE len)) % Size]
    /\ UNCHANGED <<buffer, endPos, waiting, written, out>>

Flush(r) ==
    /\ HasThisReadOffset(r)
    /\ readoffsets' = [readoffsets EXCEPT ![r] = endPos]
    /\ UNCHANGED <<buffer, endPos, waiting, written, out>>

FlushAll ==
    /\ readoffsets' = [r \in DOMAIN readoffsets |-> endPos]
    /\ UNCHANGED <<buffer, endPos, waiting, written, out>>

CreateReadOffset(r) ==
    /\ ~HasThisReadOffset(r)
    /\ readoffsets' = [s \in DOMAIN readoffsets \cup {r} |->
                          IF s = r THEN endPos ELSE readoffsets[s]]
    /\ UNCHANGED <<buffer, endPos, waiting, written, out>>

\* Nobody is notified: a waiter that lost its offset finds out at the next frame
\* or at its deadline.
RemoveReadOffset(r) ==
    /\ readoffsets' = [s \in DOMAIN readoffsets \ {r} |-> readoffsets[s]]
    /\ UNCHANGED <<buffer, endPos, waiting, written, out>>

\* A call that finds data, or is not a reader, returns at once.
WaitForDataAvailable(r) ==
    /\ HasThisReadOffset(r) /\ GetLength(r) = 0
    /\ waiting' = waiting \cup {r}
    /\ UNCHANGED <<buffer, endPos, readoffsets, written, out>>

Deadline(r) ==
    /\ r \in waiting
    /\ waiting' = waiting \ {r}
    /\ UNCHANGED <<buffer, endPos, readoffsets, written, out>>

Next ==
    \/ PutToBuffer
    \/ FlushAll
    \/ \E r \in Readers :
         \/ Get(r)
         \/ Flush(r)
         \/ CreateReadOffset(r)
         \/ RemoveReadOffset(r)
         \/ WaitForDataAvailable(r)
         \/ Deadline(r)
         \/ \E n \in 1 .. Size : Discard(r, n)

Spec == Init /\ [][Next]_vars

-----------------------------------------------------------------------------
\* Every position is a slot, only readers wait, and a reader is handed only
\* frames that were written.
TypeOK ==
    /\ buffer \in [Slots -> Int]
    /\ endPos \in Slots
    /\ DOMAIN readoffsets \subseteq Readers
    /\ \A r \in DOMAIN readoffsets : readoffsets[r] \in Slots
    /\ waiting \subseteq Readers
    /\ written \in Nat
    /\ out = Nobody \/ (out.reader \in Readers /\ out.frame \in 0 .. written - 1)

\* The slots from a reader's offset up to endPos_ hold the frames written last, in
\* the order of writing and with none missing: however often the ring has turned
\* over, get and discard never meet a frame that was overwritten or one of an
\* earlier turn.
WindowIsLatest ==
    \A r \in DOMAIN readoffsets : \A s \in Slots :
        LET ahead == (s + Size - readoffsets[r]) % Size
        IN  ahead < GetLength(r) =>
                buffer[s] = written - GetLength(r) + ahead

\* A reader blocked in waitForDataAvailable has nothing to read: every frame that
\* gives it something also wakes it (putToBuffer's notify_all).
WaiterHasNothing ==
    \A r \in waiting \cap DOMAIN readoffsets : GetLength(r) = 0

\* The ring implements the queue of numbered frames: a reader's next frame is the
\* one as far behind the last one written as its offset is behind endPos_.
Queue == INSTANCE FrameQueue WITH
             Capacity <- Size - 1,
             next <- [r \in DOMAIN readoffsets |-> written - GetLength(r)]

\* Every step of the ring is a step of the queue or changes nothing a reader sees:
\* frames come in order, once, none from before the reader joined, and what a slow
\* reader loses is always a whole turn.
ImplementsQueue == Queue!Spec

\* A frame written into a full ring takes the place of the oldest one and leaves a
\* reader the others ("to make place for new data", ringbuffer.h, line 192).  Fails:
\* putLength is never the size, so putToBuffer never calls discard.
MakesPlaceForNewData ==
    [][written' # written =>
         \A r \in DOMAIN readoffsets : GetLength(r) > 0 => GetLength(r)' > 0]_vars

=============================================================================
