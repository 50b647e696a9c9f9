------------------------- MODULE RingBufferProofs -------------------------
(***************************************************************************)
(* The ring of frames keeps every reader's window intact and implements    *)
(* the queue of numbered frames, for every number of slots, every set of   *)
(* readers and every number of frames.                                     *)
(***************************************************************************)
EXTENDS RingBuffer, WellFoundedInduction, TLAPS

\* A position that is less than a turn ahead is its own remainder.
LEMMA ModSmall ==
    ASSUME NEW x \in Int, 0 <= x, x < Size
    PROVE  x % Size = x
BY SizeAssumption DEF SizeAssumption

\* A position in the second turn is one turn back.
LEMMA ModWrap ==
    ASSUME NEW x \in Int, Size <= x, x < 2 * Size
    PROVE  x % Size = x - Size
BY SizeAssumption DEF SizeAssumption

\* The slot after a slot.
LEMMA Successor ==
    ASSUME NEW s \in Slots
    PROVE  (s + 1) % Size = IF s = Size - 1 THEN 0 ELSE s + 1
<1>1. CASE s = Size - 1
  BY <1>1, ModWrap, SizeAssumption DEF Slots, SizeAssumption
<1>2. CASE s # Size - 1
  BY <1>2, ModSmall, SizeAssumption DEF Slots, SizeAssumption
<1> QED BY <1>1, <1>2

\* How far one slot is ahead of another.
LEMMA Ahead ==
    ASSUME NEW s \in Slots, NEW o \in Slots
    PROVE  (s + Size - o) % Size = IF o <= s THEN s - o ELSE s + Size - o
<1>1. CASE o <= s
  BY <1>1, ModWrap, SizeAssumption DEF Slots, SizeAssumption
<1>2. CASE ~(o <= s)
  BY <1>2, ModSmall, SizeAssumption DEF Slots, SizeAssumption
<1> QED BY <1>1, <1>2

\* The smallest read offset, which is a slot whenever the offsets are: so is what
\* putLength measures from it, and a ring is never seen to be full.
LEMMA NeverSeenFull ==
    ASSUME TypeOK
    PROVE  Size - PutLength # 0
<1>1. GetSmallestReadOffset \in Slots
  <2>1. CASE DOMAIN readoffsets = {}
    BY <2>1, SizeAssumption DEF GetSmallestReadOffset, Slots, SizeAssumption
  <2>2. CASE DOMAIN readoffsets # {}
    <3> DEFINE T == {readoffsets[r] : r \in DOMAIN readoffsets}
    <3>1. T \subseteq Nat /\ T # {} /\ T \subseteq Slots
      BY <2>2 DEF TypeOK, Slots
    <3>2. PICK x \in T : \A y \in T : ~(<<y, x>> \in OpToRel(<, Nat))
      <4> HIDE DEF T
      <4> QED BY <3>1, NatLessThanWellFounded, WFMin, Zenon
    <3>3. \A y \in T : x <= y
      <4> SUFFICES ASSUME NEW y \in T, y < x PROVE FALSE
        BY <3>1
      <4>1. <<y, x>> \in OpToRel(<, Nat)
        <5>1. <<y, x>> \in Nat \X Nat /\ <<y, x>>[1] < <<y, x>>[2]
          BY <3>1
        <5> QED BY <5>1, Zenon DEF OpToRel
      <4> QED BY <3>2, <4>1
    <3>4. \E o \in T : \A r \in DOMAIN readoffsets : o <= readoffsets[r]
      BY <3>3
    <3>5. GetSmallestReadOffset \in T
      BY <2>2, <3>4 DEF GetSmallestReadOffset
    <3> QED BY <3>1, <3>5
  <2> QED BY <2>1, <2>2
<1>2. PutLength \in Slots
  BY <1>1, Ahead, SizeAssumption DEF PutLength, Distance, TypeOK, Slots, SizeAssumption
<1> QED BY <1>2, SizeAssumption DEF Slots, SizeAssumption

\* No reader has more to read than was ever written.
BacklogIsWritten ==
    \A r \in DOMAIN readoffsets : GetLength(r) <= written

\* What every operation keeps.
IInv == TypeOK /\ WindowIsLatest /\ WaiterHasNothing /\ BacklogIsWritten

\* What a reader has to read fits the ring without its last slot.
LEMMA LengthIsSlot ==
    ASSUME TypeOK, NEW r \in DOMAIN readoffsets
    PROVE  /\ GetLength(r) \in Slots
           /\ GetLength(r) = IF readoffsets[r] <= endPos THEN endPos - readoffsets[r]
                             ELSE endPos + Size - readoffsets[r]
<1>1. endPos \in Slots /\ readoffsets[r] \in Slots
  BY DEF TypeOK
<1>2. GetLength(r) = IF readoffsets[r] <= endPos THEN endPos - readoffsets[r]
                     ELSE endPos + Size - readoffsets[r]
  BY <1>1, Ahead DEF GetLength, Distance
<1> QED BY <1>1, <1>2, SizeAssumption DEF Slots, SizeAssumption

\* An empty ring satisfies the invariant.
LEMMA InitInvariant == Init => IInv
BY SizeAssumption
DEF Init, IInv, TypeOK, WindowIsLatest, WaiterHasNothing, BacklogIsWritten, Slots,
    Empty, SizeAssumption

\* A new frame lengthens every backlog by one, and empties a backlog of Size - 1.
LEMMA PutLengths ==
    ASSUME TypeOK, PutToBuffer, NEW r \in DOMAIN readoffsets
    PROVE  /\ readoffsets' = readoffsets
           /\ endPos' \in Slots
           /\ GetLength(r)' = IF GetLength(r) = Size - 1 THEN 0 ELSE GetLength(r) + 1
<1>1. readoffsets' = readoffsets
  BY NeverSeenFull DEF PutToBuffer
<1>2. endPos \in Slots /\ readoffsets[r] \in Slots
  BY DEF TypeOK
<1>3. endPos' = IF endPos = Size - 1 THEN 0 ELSE endPos + 1
  BY <1>2, Successor DEF PutToBuffer
<1>4. endPos' \in Slots
  BY <1>2, <1>3, SizeAssumption DEF Slots, SizeAssumption
<1>5. GetLength(r)' = IF readoffsets[r] <= endPos' THEN endPos' - readoffsets[r]
                      ELSE endPos' + Size - readoffsets[r]
  BY <1>1, <1>2, <1>4, Ahead DEF GetLength, Distance
<1> QED
  BY <1>1, <1>2, <1>3, <1>4, <1>5, LengthIsSlot, SizeAssumption DEF Slots, SizeAssumption

\* Writing a frame keeps every window: the slot written is outside all of them but
\* of those it has just become the end of.
LEMMA PutKeeps == IInv /\ PutToBuffer => IInv'
<1> SUFFICES ASSUME IInv, PutToBuffer PROVE IInv'
  OBVIOUS
<1>1. TypeOK
  BY DEF IInv
<1>2. readoffsets' = readoffsets
  BY <1>1, NeverSeenFull DEF PutToBuffer
<1>3. endPos \in Slots /\ endPos' \in Slots
  BY <1>1, Successor, SizeAssumption DEF TypeOK, PutToBuffer, Slots, SizeAssumption
<1>4. TypeOK'
  <2>1. buffer' \in [Slots -> Int] /\ written' \in Nat
    BY <1>1, <1>3 DEF TypeOK, PutToBuffer
  <2>2. waiting' \subseteq Readers
    BY <1>1 DEF TypeOK, PutToBuffer, StillWaiting
  <2>3. (out = Nobody \/ (out.reader \in Readers /\ out.frame \in 0 .. written - 1))'
    BY <1>1 DEF TypeOK, PutToBuffer, Nobody
  <2> QED BY <1>1, <1>2, <1>3, <2>1, <2>2, <2>3 DEF TypeOK
<1>5. WindowIsLatest'
  <2> SUFFICES ASSUME NEW r \in DOMAIN readoffsets, NEW s \in Slots,
                      ((s + Size - readoffsets[r]) % Size) < GetLength(r)'
               PROVE  buffer'[s] = written' - GetLength(r)' + ((s + Size - readoffsets[r]) % Size)
    BY <1>2 DEF WindowIsLatest
  <2> DEFINE ahead == (s + Size - readoffsets[r]) % Size
             len == GetLength(r)
             len2 == GetLength(r)'
  <2>1. readoffsets[r] \in Slots
    BY <1>1 DEF TypeOK
  <2>2. ahead = IF readoffsets[r] <= s THEN s - readoffsets[r] ELSE s + Size - readoffsets[r]
    BY <2>1, Ahead
  <2>3. len = IF readoffsets[r] <= endPos THEN endPos - readoffsets[r]
              ELSE endPos + Size - readoffsets[r]
    BY <1>1, LengthIsSlot
  <2>4. len2 = len + 1
    <3>1. len2 = IF len = Size - 1 THEN 0 ELSE len + 1
      BY <1>1, PutLengths
    <3>2. ahead < len2
      OBVIOUS
    <3> HIDE DEF len2, ahead, len
    <3> QED BY <2>1, <2>2, <3>1, <3>2, SizeAssumption DEF Slots, SizeAssumption
  <2>5. written' = written + 1 /\ written \in Nat /\ buffer \in [Slots -> Int]
        /\ buffer' = [buffer EXCEPT ![endPos] = written]
    BY <1>1 DEF PutToBuffer, TypeOK
  <2>6. ahead < len2
    OBVIOUS
  <2>7. ahead < len => buffer[s] = written - len + ahead
    BY DEF IInv, WindowIsLatest
  <2>8. buffer'[s] = written' - len2 + ahead
    <3> HIDE DEF len2, ahead, len
    <3>1. CASE s = endPos
      <4>1. ahead = len /\ len \in Int
        BY <1>3, <2>1, <2>2, <2>3, <3>1, SizeAssumption DEF Slots, SizeAssumption
      <4>2. buffer'[s] = written
        BY <2>5, <3>1
      <4> QED BY <2>4, <2>5, <4>1, <4>2
    <3>2. CASE s # endPos
      <4>1. ahead # len
        BY <1>3, <2>1, <2>2, <2>3, <3>2, SizeAssumption DEF Slots, SizeAssumption
      <4>2. ahead < len /\ ahead \in Int /\ len \in Int
        BY <1>3, <2>1, <2>2, <2>3, <2>4, <2>6, <4>1, SizeAssumption DEF Slots, SizeAssumption
      <4>3. buffer'[s] = buffer[s]
        BY <2>5, <3>2
      <4> QED BY <2>4, <2>5, <2>7, <4>2, <4>3
    <3> QED BY <3>1, <3>2
  <2> QED BY <2>8
<1>6. WaiterHasNothing'
  BY <1>2 DEF WaiterHasNothing, PutToBuffer, StillWaiting, GetLength, Distance
<1>7. BacklogIsWritten'
  <2> SUFFICES ASSUME NEW r \in DOMAIN readoffsets PROVE GetLength(r)' <= written'
    BY <1>2 DEF BacklogIsWritten
  <2>1. GetLength(r)' = IF GetLength(r) = Size - 1 THEN 0 ELSE GetLength(r) + 1
    BY <1>1, PutLengths
  <2>2. GetLength(r) \in Slots /\ GetLength(r) <= written /\ written \in Nat /\ written' = written + 1
    BY <1>1, LengthIsSlot DEF IInv, BacklogIsWritten, TypeOK, PutToBuffer
  <2> QED BY <2>1, <2>2 DEF Slots
<1> QED BY <1>4, <1>5, <1>6, <1>7 DEF IInv

\* Moving an offset forward by what there is to read, or by less, leaves the rest.
LEMMA Forward ==
    ASSUME TypeOK, NEW r \in DOMAIN readoffsets, NEW k \in 0 .. GetLength(r)
    PROVE  /\ (readoffsets[r] + k) % Size \in Slots
           /\ Distance((readoffsets[r] + k) % Size) = GetLength(r) - k
<1> DEFINE o == readoffsets[r]
           p == (o + k) % Size
           len == GetLength(r)
<1>1. o \in Slots /\ endPos \in Slots
  BY DEF TypeOK
<1>2. len \in Slots /\ len = IF o <= endPos THEN endPos - o ELSE endPos + Size - o
  BY LengthIsSlot
<1>3. k \in Int /\ 0 <= k /\ k <= len
  BY <1>2 DEF Slots
<1>4. p = IF o + k < Size THEN o + k ELSE o + k - Size
  <2> HIDE DEF len
  <2>1. CASE o + k < Size
    BY <1>1, <1>3, <2>1, ModSmall DEF Slots
  <2>2. CASE ~(o + k < Size)
    BY <1>1, <1>2, <1>3, <2>2, ModWrap, SizeAssumption DEF Slots, SizeAssumption
  <2> QED BY <2>1, <2>2
<1>5. p \in Slots
  <2> HIDE DEF len, p
  <2> QED BY <1>1, <1>2, <1>3, <1>4, SizeAssumption DEF Slots, SizeAssumption
<1>6. Distance(p) = IF p <= endPos THEN endPos - p ELSE endPos + Size - p
  BY <1>1, <1>5, Ahead DEF Distance
<1>7. Distance(p) = len - k
  <2> HIDE DEF len, p
  <2> QED BY <1>1, <1>2, <1>3, <1>4, <1>5, <1>6, SizeAssumption DEF Slots, SizeAssumption
<1> QED BY <1>5, <1>7

\* A reader that stands where the writer does has nothing to read.
LEMMA AtEnd ==
    ASSUME TypeOK
    PROVE  Distance(endPos) = 0
<1>1. endPos \in Slots
  BY DEF TypeOK
<1> QED BY <1>1, Ahead DEF Distance, Slots

\* The readers that remain after a step that writes nothing are where they were,
\* further ahead, or at the writer's position.
Moved ==
    /\ UNCHANGED <<buffer, endPos, written>>
    /\ DOMAIN readoffsets' \subseteq Readers
    /\ \A r \in DOMAIN readoffsets' :
         /\ readoffsets'[r] \in Slots
         /\ \/ readoffsets'[r] = endPos
            \/ r \in DOMAIN readoffsets /\ Distance(readoffsets'[r]) <= GetLength(r)

\* Such a step keeps every window.
LEMMA MovedKeepsWindow ==
    ASSUME IInv, Moved
    PROVE  WindowIsLatest' /\ BacklogIsWritten'
<1>1. TypeOK
  BY DEF IInv
<1>2. UNCHANGED <<buffer, endPos, written>> /\ endPos \in Slots /\ written \in Nat
  BY <1>1 DEF Moved, TypeOK
<1>3. ASSUME NEW r \in DOMAIN readoffsets'
      PROVE  GetLength(r)' = Distance(readoffsets'[r])
  BY <1>2 DEF GetLength, Distance
<1>4. ASSUME NEW r \in DOMAIN readoffsets', NEW s \in Slots,
             ((s + Size - readoffsets'[r]) % Size) < GetLength(r)'
      PROVE  buffer'[s] = written' - GetLength(r)' + ((s + Size - readoffsets'[r]) % Size)
  <2> DEFINE o == readoffsets[r]
             p == readoffsets'[r]
             ahead == (s + Size - o) % Size
             ahead2 == (s + Size - p) % Size
             len == GetLength(r)
             len2 == GetLength(r)'
  <2>1. p \in Slots /\ (p = endPos \/ (r \in DOMAIN readoffsets /\ Distance(p) <= len))
    BY <1>4 DEF Moved
  <2>2. ahead2 = IF p <= s THEN s - p ELSE s + Size - p
    BY <2>1, Ahead
  <2>3. len2 = IF p <= endPos THEN endPos - p ELSE endPos + Size - p
    BY <1>2, <1>3, <1>4, <2>1, Ahead DEF Distance
  <2>4. ahead2 < len2
    BY <1>4
  <2>5. p # endPos
    <3> HIDE DEF ahead2, len2, p
    <3> QED BY <1>2, <2>1, <2>2, <2>3, <2>4, SizeAssumption DEF Slots, SizeAssumption
  <2>6. r \in DOMAIN readoffsets /\ len2 <= len
    BY <1>3, <1>4, <2>1, <2>5
  <2>7. o \in Slots /\ len = IF o <= endPos THEN endPos - o ELSE endPos + Size - o
    BY <1>1, <2>6, LengthIsSlot DEF TypeOK
  <2>8. ahead = IF o <= s THEN s - o ELSE s + Size - o
    BY <2>7, Ahead
  <2>9. ahead < len => buffer[s] = written - len + ahead
    BY <2>6 DEF IInv, WindowIsLatest
  <2>10. len2 <= len
    BY <2>6
  <2> HIDE DEF ahead, ahead2, len, len2, o, p
  <2>11. ahead = ahead2 + len - len2 /\ ahead < len /\ ahead \in Int /\ ahead2 \in Int
         /\ len \in Int /\ len2 \in Int
    BY <1>2, <2>1, <2>2, <2>3, <2>4, <2>7, <2>8, <2>10, SizeAssumption DEF Slots, SizeAssumption
  <2>12. buffer'[s] = written' - len2 + ahead2
    BY <1>2, <2>9, <2>11
  <2> QED BY <2>12 DEF len2, ahead2, p
<1>5. WindowIsLatest'
  BY <1>4 DEF WindowIsLatest
<1>6. ASSUME NEW r \in DOMAIN readoffsets' PROVE GetLength(r)' <= written'
  <2>1. CASE readoffsets'[r] = endPos
    BY <1>1, <1>2, <1>3, <1>6, <2>1, AtEnd
  <2>2. CASE r \in DOMAIN readoffsets /\ Distance(readoffsets'[r]) <= GetLength(r)
    <3>1. GetLength(r) \in Int /\ GetLength(r) <= written
      BY <1>1, <2>2, LengthIsSlot DEF IInv, BacklogIsWritten, Slots
    <3>2. Distance(readoffsets'[r]) \in Int
      BY <1>2, <1>6, Ahead, SizeAssumption DEF Moved, Distance, Slots, SizeAssumption
    <3> QED BY <1>2, <1>3, <1>6, <2>2, <3>1, <3>2
  <2> QED BY <1>6, <2>1, <2>2 DEF Moved
<1>7. BacklogIsWritten'
  BY <1>6 DEF BacklogIsWritten
<1> QED BY <1>5, <1>7

\* A step that moves offsets, hands out only frames that were written and makes
\* only a reader without a frame wait keeps the invariant.
LEMMA MovedKeeps ==
    ASSUME IInv, Moved,
           waiting' \subseteq Readers,
           out' = Nobody \/ (out'.reader \in Readers /\ out'.frame \in 0 .. written - 1),
           \A r \in waiting' \ waiting : r \in DOMAIN readoffsets /\ GetLength(r) = 0
    PROVE  IInv'
<1>1. TypeOK
  BY DEF IInv
<1>2. WindowIsLatest' /\ BacklogIsWritten'
  BY MovedKeepsWindow
<1>3. TypeOK'
  <2>1. UNCHANGED <<buffer, endPos, written>>
    BY DEF Moved
  <2>2. (out = Nobody \/ (out.reader \in Readers /\ out.frame \in 0 .. written - 1))'
    BY <2>1 DEF Nobody
  <2> QED BY <1>1, <2>1, <2>2 DEF TypeOK, Moved
<1>4. WaiterHasNothing'
  <2> SUFFICES ASSUME NEW r \in waiting', r \in DOMAIN readoffsets'
               PROVE  Distance(readoffsets'[r]) = 0
    BY DEF WaiterHasNothing, Moved, GetLength, Distance
  <2>1. CASE readoffsets'[r] = endPos
    BY <1>1, <2>1, AtEnd
  <2>2. CASE readoffsets'[r] # endPos
    <3>1. r \in DOMAIN readoffsets /\ Distance(readoffsets'[r]) <= GetLength(r)
      BY <2>2 DEF Moved
    <3>2. GetLength(r) = 0
      BY <3>1 DEF IInv, WaiterHasNothing
    <3>3. endPos \in Slots /\ readoffsets'[r] \in Slots
      BY <1>1 DEF TypeOK, Moved
    <3>4. Distance(readoffsets'[r]) \in Nat
      BY <3>3, Ahead, SizeAssumption DEF Distance, Slots, SizeAssumption
    <3> QED BY <3>1, <3>2, <3>4
  <2> QED BY <2>1, <2>2
<1> QED BY <1>2, <1>3, <1>4 DEF IInv

\* An offset that stays where it is counts as moved.
LEMMA Stays ==
    ASSUME TypeOK, NEW r \in DOMAIN readoffsets
    PROVE  readoffsets[r] \in Slots /\ Distance(readoffsets[r]) <= GetLength(r)
BY LengthIsSlot DEF TypeOK, GetLength, Slots

\* One reader going forward by what it has to read, or by less, is a move.
LEMMA ForwardMoves ==
    ASSUME TypeOK, NEW r \in DOMAIN readoffsets, NEW k \in 0 .. GetLength(r),
           readoffsets' = [readoffsets EXCEPT ![r] = (@ + k) % Size],
           UNCHANGED <<buffer, endPos, written>>
    PROVE  Moved
<1>1. DOMAIN readoffsets' = DOMAIN readoffsets
  OBVIOUS
<1>2. (readoffsets[r] + k) % Size \in Slots
      /\ Distance((readoffsets[r] + k) % Size) <= GetLength(r)
  BY Forward, LengthIsSlot DEF Slots
<1>3. ASSUME NEW q \in DOMAIN readoffsets
      PROVE  readoffsets'[q] \in Slots /\ Distance(readoffsets'[q]) <= GetLength(q)
  <2>1. CASE q = r
    BY <1>2, <2>1
  <2>2. CASE q # r
    <3>1. readoffsets'[q] = readoffsets[q]
      BY <2>2
    <3> QED BY <3>1, Stays
  <2> QED BY <2>1, <2>2
<1> QED BY <1>1, <1>3 DEF Moved, TypeOK

\* A frame handed out was written, and is the oldest one the reader has not read.
LEMMA FrameHandedOut ==
    ASSUME IInv, NEW r \in DOMAIN readoffsets, GetLength(r) # 0
    PROVE  /\ buffer[readoffsets[r]] = written - GetLength(r)
           /\ written - GetLength(r) \in 0 .. written - 1
<1>1. TypeOK
  BY DEF IInv
<1>2. readoffsets[r] \in Slots /\ written \in Nat
  BY <1>1 DEF TypeOK
<1>3. GetLength(r) \in Slots /\ GetLength(r) <= written
  BY <1>1, LengthIsSlot DEF IInv, BacklogIsWritten
<1>4. (readoffsets[r] + Size - readoffsets[r]) % Size = 0
  BY <1>2, Ahead DEF Slots
<1>5. buffer[readoffsets[r]] = written - GetLength(r) + 0
  BY <1>2, <1>3, <1>4 DEF IInv, WindowIsLatest, Slots
<1> QED BY <1>2, <1>3, <1>5 DEF Slots

\* Every operation keeps the invariant.
LEMMA NextInvariant == IInv /\ [Next]_vars => IInv'
<1> SUFFICES ASSUME IInv, [Next]_vars PROVE IInv'
  OBVIOUS
<1>1. TypeOK
  BY DEF IInv
<1>2. \A r \in DOMAIN readoffsets : readoffsets[r] \in Slots /\ Distance(readoffsets[r]) <= GetLength(r)
  BY <1>1, Stays
<1>3. out = Nobody \/ (out.reader \in Readers /\ out.frame \in 0 .. written - 1)
  BY <1>1 DEF TypeOK
<1>4. waiting \subseteq Readers /\ DOMAIN readoffsets \subseteq Readers /\ endPos \in Slots
  BY <1>1 DEF TypeOK
<1>5. CASE PutToBuffer
  BY <1>5, PutKeeps
<1>6. CASE FlushAll
  <2>1. Moved
    BY <1>4, <1>6 DEF FlushAll, Moved
  <2> QED BY <1>3, <1>4, <1>6, <2>1, MovedKeeps DEF FlushAll
<1>7. ASSUME NEW r \in Readers, Get(r) PROVE IInv'
  <2>1. r \in DOMAIN readoffsets /\ 1 \in 0 .. GetLength(r)
    BY <1>1, <1>7, LengthIsSlot DEF Get, HasThisReadOffset, Slots
  <2>2. Moved
    BY <1>1, <1>7, <2>1, ForwardMoves DEF Get
  <2>3. out'.reader \in Readers /\ out'.frame \in 0 .. written - 1
    BY <1>7, <2>1, FrameHandedOut DEF Get
  <2> QED BY <1>4, <1>7, <2>2, <2>3, MovedKeeps DEF Get
<1>8. ASSUME NEW r \in Readers, Flush(r) PROVE IInv'
  <2>1. Moved
    BY <1>2, <1>4, <1>8 DEF Flush, Moved
  <2> QED BY <1>3, <1>4, <1>8, <2>1, MovedKeeps DEF Flush
<1>9. ASSUME NEW r \in Readers, CreateReadOffset(r) PROVE IInv'
  <2>1. Moved
    BY <1>2, <1>4, <1>9 DEF CreateReadOffset, Moved
  <2> QED BY <1>3, <1>4, <1>9, <2>1, MovedKeeps DEF CreateReadOffset
<1>10. ASSUME NEW r \in Readers, RemoveReadOffset(r) PROVE IInv'
  <2>1. Moved
    BY <1>2, <1>4, <1>10 DEF RemoveReadOffset, Moved
  <2> QED BY <1>3, <1>4, <1>10, <2>1, MovedKeeps DEF RemoveReadOffset
<1>11. ASSUME NEW r \in Readers, WaitForDataAvailable(r) \/ Deadline(r) PROVE IInv'
  <2>1. Moved
    BY <1>2, <1>4, <1>11 DEF WaitForDataAvailable, Deadline, Moved
  <2>2. waiting' \subseteq Readers
        /\ \A q \in waiting' \ waiting : q \in DOMAIN readoffsets /\ GetLength(q) = 0
    BY <1>4, <1>11 DEF WaitForDataAvailable, Deadline, HasThisReadOffset
  <2> QED BY <1>3, <1>11, <2>1, <2>2, MovedKeeps DEF WaitForDataAvailable, Deadline
<1>12. ASSUME NEW r \in Readers, NEW n \in 1 .. Size, Discard(r, n) PROVE IInv'
  <2> DEFINE k == IF n < GetLength(r) THEN n ELSE GetLength(r)
  <2>1. r \in DOMAIN readoffsets /\ k \in 0 .. GetLength(r)
    BY <1>1, <1>12, LengthIsSlot, SizeAssumption DEF Discard, HasThisReadOffset, Slots, SizeAssumption
  <2>2. readoffsets' = [readoffsets EXCEPT ![r] = (@ + k) % Size]
        /\ UNCHANGED <<buffer, endPos, written, waiting, out>>
    BY <1>12 DEF Discard
  <2> HIDE DEF k
  <2>3. Moved
    BY <1>1, <2>1, <2>2, ForwardMoves
  <2> QED BY <1>3, <1>4, <2>2, <2>3, MovedKeeps
<1>13. CASE UNCHANGED vars
  <2>1. Moved
    BY <1>2, <1>4, <1>13 DEF vars, Moved
  <2> QED BY <1>3, <1>4, <1>13, <2>1, MovedKeeps DEF vars
<1> QED BY <1>5, <1>6, <1>7, <1>8, <1>9, <1>10, <1>11, <1>12, <1>13 DEF Next

\* Every reachable ring satisfies the invariant.
LEMMA Invariance == Spec => []IInv
BY InitInvariant, NextInvariant, PTL DEF Spec

\* The window of every reader holds the latest frames in order, whatever the number
\* of slots and readers and however often the ring turns over.
THEOREM WindowTheorem == Spec => []WindowIsLatest
<1>1. IInv => WindowIsLatest
  BY DEF IInv
<1> QED BY <1>1, Invariance, PTL

\* No reader sleeps over a frame it could read.
THEOREM WaiterTheorem == Spec => []WaiterHasNothing
<1>1. IInv => WaiterHasNothing
  BY DEF IInv
<1> QED BY <1>1, Invariance, PTL

\* The number of the frame a reader gets next.
NextFrame == [r \in DOMAIN readoffsets |-> written - GetLength(r)]

\* An empty ring is an empty queue.
LEMMA InitImplements == Init => Queue!Init
BY DEF Init, Queue!Init, Nobody, Queue!Nobody

\* Writing a frame is the queue's write: the reader whose backlog filled the ring
\* stands at the writer's position afterwards.
LEMMA PutImplements ==
    ASSUME IInv, PutToBuffer
    PROVE  Queue!Write
<1>1. TypeOK
  BY DEF IInv
<1>2. readoffsets' = readoffsets /\ written' = written + 1 /\ out' = out /\ written \in Nat
  BY <1>1, NeverSeenFull DEF PutToBuffer, TypeOK
<1>3. ASSUME NEW r \in DOMAIN readoffsets
      PROVE  written' - GetLength(r)' =
                 IF written - (written - GetLength(r)) = Size - 1
                 THEN written + 1 ELSE written - GetLength(r)
  <2>1. GetLength(r)' = IF GetLength(r) = Size - 1 THEN 0 ELSE GetLength(r) + 1
    BY <1>1, PutLengths
  <2>2. GetLength(r) \in Int
    BY <1>1, LengthIsSlot DEF Slots
  <2> QED BY <1>2, <2>1, <2>2, SizeAssumption DEF SizeAssumption
<1>4. NextFrame' = [r \in DOMAIN NextFrame |->
                      IF written - NextFrame[r] = Size - 1 THEN written + 1 ELSE NextFrame[r]]
  BY <1>2, <1>3 DEF NextFrame
<1> QED BY <1>2, <1>4 DEF Queue!Write, Queue!Backlog, NextFrame

\* A reader's offset going forward by k is its next frame going forward by k.
LEMMA ForwardImplements ==
    ASSUME TypeOK, NEW r \in DOMAIN readoffsets, NEW k \in 0 .. GetLength(r),
           readoffsets' = [readoffsets EXCEPT ![r] = (@ + k) % Size],
           UNCHANGED <<endPos, written>>
    PROVE  NextFrame' = [NextFrame EXCEPT ![r] = @ + k]
<1>1. written \in Nat /\ DOMAIN readoffsets' = DOMAIN readoffsets
  BY DEF TypeOK
<1>2. ASSUME NEW q \in DOMAIN readoffsets
      PROVE  (written - GetLength(q))' = IF q = r THEN written - GetLength(r) + k
                                                  ELSE written - GetLength(q)
  <2>1. CASE q = r
    <3>1. GetLength(q)' = Distance((readoffsets[r] + k) % Size)
      BY <2>1 DEF GetLength, Distance
    <3>2. GetLength(r) \in Int /\ k \in Int
      BY LengthIsSlot DEF Slots
    <3> QED BY <1>1, <2>1, <3>1, <3>2, Forward
  <2>2. CASE q # r
    BY <2>2 DEF GetLength, Distance
  <2> QED BY <2>1, <2>2
<1> QED BY <1>1, <1>2 DEF NextFrame

\* Every step of the ring is a step of the queue or leaves the queue as it is.
LEMMA NextImplements == IInv /\ [Next]_vars => [Queue!Next]_(Queue!vars)
<1> SUFFICES ASSUME IInv, [Next]_vars PROVE Queue!Next \/ UNCHANGED Queue!vars
  OBVIOUS
<1>1. TypeOK
  BY DEF IInv
<1>2. written \in Nat /\ endPos \in Slots
  BY <1>1 DEF TypeOK
<1>3. \A r \in DOMAIN readoffsets : GetLength(r) \in Nat /\ GetLength(r) <= written
  BY <1>1, LengthIsSlot DEF IInv, BacklogIsWritten, Slots
<1>4. CASE PutToBuffer
  BY <1>4, PutImplements DEF Queue!Next
<1>5. CASE FlushAll
  <2>1. NextFrame' = [r \in DOMAIN NextFrame |-> written]
    BY <1>1, <1>2, <1>5, AtEnd DEF FlushAll, NextFrame, GetLength, Distance
  <2>2. Queue!SkipAll
    BY <1>5, <2>1 DEF Queue!SkipAll, NextFrame, FlushAll
  <2> QED BY <2>2 DEF Queue!Next
<1>6. ASSUME NEW r \in Readers, Get(r) PROVE Queue!Next
  <2>1. r \in DOMAIN readoffsets /\ 1 \in 0 .. GetLength(r) /\ GetLength(r) # 0
    BY <1>3, <1>6 DEF Get, HasThisReadOffset
  <2>2. NextFrame' = [NextFrame EXCEPT ![r] = @ + 1]
    BY <1>1, <1>6, <2>1, ForwardImplements DEF Get
  <2>3. out' = [reader |-> r, frame |-> NextFrame[r]]
    BY <1>6, <2>1, FrameHandedOut DEF Get, NextFrame
  <2>4. r \in DOMAIN NextFrame /\ NextFrame[r] < written
    BY <1>2, <1>3, <2>1 DEF NextFrame
  <2>5. Queue!Deliver(r)
    BY <1>6, <2>2, <2>3, <2>4 DEF Queue!Deliver, NextFrame, Get
  <2> QED BY <2>5 DEF Queue!Next
<1>7. ASSUME NEW r \in Readers, NEW n \in 1 .. Size, Discard(r, n) PROVE Queue!Next
  <2> DEFINE k == IF n < GetLength(r) THEN n ELSE GetLength(r)
  <2>1. r \in DOMAIN readoffsets /\ k \in 0 .. GetLength(r)
    BY <1>3, <1>7, SizeAssumption DEF Discard, HasThisReadOffset, SizeAssumption
  <2>2. readoffsets' = [readoffsets EXCEPT ![r] = (@ + k) % Size]
        /\ UNCHANGED <<endPos, written, out>>
    BY <1>7 DEF Discard
  <2> HIDE DEF k
  <2>3. NextFrame' = [NextFrame EXCEPT ![r] = NextFrame[r] + k]
    BY <1>1, <2>1, <2>2, ForwardImplements
  <2>4. r \in DOMAIN NextFrame /\ NextFrame[r] + k \in NextFrame[r] .. written
    BY <1>2, <1>3, <2>1 DEF NextFrame
  <2>5. Queue!Skip(r)
    BY <2>2, <2>3, <2>4 DEF Queue!Skip, NextFrame
  <2> QED BY <2>5 DEF Queue!Next
<1>8. ASSUME NEW r \in Readers, Flush(r) PROVE Queue!Next
  <2>1. r \in DOMAIN readoffsets /\ UNCHANGED <<endPos, written, out>>
    BY <1>8 DEF Flush, HasThisReadOffset
  <2>2. NextFrame' = [NextFrame EXCEPT ![r] = written]
    <3>1. DOMAIN readoffsets' = DOMAIN readoffsets /\ readoffsets'[r] = endPos
          /\ \A q \in DOMAIN readoffsets : q # r => readoffsets'[q] = readoffsets[q]
      BY <1>8, <2>1 DEF Flush
    <3>2. written' - GetLength(r)' = written
      BY <1>1, <1>2, <2>1, <3>1, AtEnd DEF GetLength, Distance
    <3>3. \A q \in DOMAIN readoffsets : q # r => GetLength(q)' = GetLength(q)
      BY <2>1, <3>1 DEF GetLength, Distance
    <3> QED BY <2>1, <3>1, <3>2, <3>3 DEF NextFrame
  <2>3. r \in DOMAIN NextFrame /\ written \in NextFrame[r] .. written
    BY <1>2, <1>3, <2>1 DEF NextFrame
  <2>4. Queue!Skip(r)
    BY <2>1, <2>2, <2>3 DEF Queue!Skip, NextFrame
  <2> QED BY <2>4 DEF Queue!Next
<1>9. ASSUME NEW r \in Readers, CreateReadOffset(r) PROVE Queue!Next
  <2>1. NextFrame' = [q \in DOMAIN NextFrame \cup {r} |-> IF q = r THEN written ELSE NextFrame[q]]
    BY <1>1, <1>2, <1>9, AtEnd
    DEF CreateReadOffset, HasThisReadOffset, NextFrame, GetLength, Distance
  <2>2. Queue!Join(r)
    BY <1>9, <2>1 DEF Queue!Join, NextFrame, CreateReadOffset, HasThisReadOffset
  <2> QED BY <2>2 DEF Queue!Next
<1>10. ASSUME NEW r \in Readers, RemoveReadOffset(r) PROVE Queue!Next
  <2>1. NextFrame' = [q \in DOMAIN NextFrame \ {r} |-> NextFrame[q]]
    BY <1>10 DEF RemoveReadOffset, NextFrame, GetLength, Distance
  <2>2. Queue!Leave(r)
    BY <1>10, <2>1 DEF Queue!Leave, NextFrame, RemoveReadOffset
  <2> QED BY <2>2 DEF Queue!Next
<1>11. ASSUME UNCHANGED <<readoffsets, endPos, written, out>> PROVE UNCHANGED Queue!vars
  BY <1>11 DEF Queue!vars, GetLength, Distance
<1>12. ASSUME NEW r \in Readers, WaitForDataAvailable(r) \/ Deadline(r)
       PROVE  UNCHANGED Queue!vars
  BY <1>11, <1>12 DEF WaitForDataAvailable, Deadline
<1>13. CASE UNCHANGED vars
  BY <1>11, <1>13 DEF vars
<1> QED BY <1>4, <1>5, <1>6, <1>7, <1>8, <1>9, <1>10, <1>12, <1>13 DEF Next

\* The ring of slots implements the queue of numbered frames.
THEOREM RefinementTheorem == Spec => ImplementsQueue
BY InitImplements, NextImplements, Invariance, PTL DEF Spec, ImplementsQueue, Queue!Spec

=============================================================================
