--------------------------- MODULE ReserveBuffer ---------------------------
(***************************************************************************)
(* org.signal.aesgcmprovider.ReserveBuffer: the ring that keeps back the   *)
(* last reserve.length bytes of a ciphertext, because they may be the tag. *)
(*                                                                         *)
(* The content of a byte is its position 1, 2, 3, ... in the stream fed to *)
(* update; 0 is the zero a Java array is created with.  Arrays are         *)
(* functions on 0..length-1.                                               *)
(***************************************************************************)
EXTENDS Integers

CONSTANTS Sizes,    \* the sizes the constructor is called with
          MaxFed    \* bound on the number of bytes fed

ASSUME SizesAssumption == Sizes \subseteq Nat
ASSUME MaxFedAssumption == MaxFed \in Nat

VARIABLES size,          \* reserve.length
          reserve,       \* byte[] reserve
          writePointer,
          available

\* Auxiliary: the caller's view of the stream.
VARIABLES fed,           \* bytes taken in by the calls that returned
          emitted,       \* bytes handed out
          out            \* the array filled by the last call

ring == <<size, reserve, writePointer, available>>
vars == <<size, reserve, writePointer, available, fed, emitted, out>>

-----------------------------------------------------------------------------
MathMin(a, b) == IF a <= b THEN a ELSE b
MathMax(a, b) == IF a >= b THEN a ELSE b

NewArray(n) == [i \in 0 .. n - 1 |-> 0]

\* The n bytes the caller passes to update: the next n of the stream.
Input(n) == [i \in 0 .. n - 1 |-> fed + 1 + i]

\* System.arraycopy: dst after the copy.
Arraycopy(src, srcPos, dst, dstPos, length) ==
    [i \in DOMAIN dst |-> IF dstPos <= i /\ i < dstPos + length
                          THEN src[srcPos + (i - dstPos)]
                          ELSE dst[i]]

capacityOfEmpty == size
capacity == size - available

\* Where the oldest byte kept back is.
StartPosition == IF writePointer - available < 0
                 THEN writePointer - available + size
                 ELSE writePointer - available

\* read: buffer after the oldest `length' bytes are copied to its front.
Read(buffer, length) ==
    LET amountToCopy == MathMin(size - StartPosition, length)
    IN  Arraycopy(reserve, 0,
                  Arraycopy(reserve, StartPosition, buffer, 0, amountToCopy),
                  amountToCopy, length - amountToCopy)

\* write: the ring after `length' bytes of buffer are copied in at writePointer.
WriteToEndOnly(buffer, offset, length) ==
    Arraycopy(buffer, offset, reserve, writePointer,
              MathMin(size - writePointer, length))
Write(buffer, offset, length) ==
    LET amountToCopy == MathMin(size - writePointer, length)
    IN  Arraycopy(buffer, offset + amountToCopy,
                  Arraycopy(buffer, offset, reserve, writePointer, amountToCopy),
                  0, length - amountToCopy)

\* write: where writePointer ends up.
AdvanceNoWrap(length) == writePointer + length
Advance(length) == (writePointer + length) % size

-----------------------------------------------------------------------------
Init == /\ size \in Sizes
        /\ reserve = NewArray(size)
        /\ writePointer = 0
        /\ available = 0
        /\ fed = 0
        /\ emitted = 0
        /\ out = NewArray(0)

\* update on n bytes: the reserve gives up what the input pushes out of it, then
\* the head of the input passes through, then its tail is written to the ring.
Update(n) ==
    LET toApply   == MathMin(size, n)
        toRelease == MathMax(toApply - capacity, 0)
        passed    == n - toApply
    IN  /\ size > 0
        /\ fed + n <= MaxFed
        /\ out' = Arraycopy(Input(n), 0,
                            Read(NewArray(toRelease + passed), toRelease),
                            toRelease, passed)
        /\ reserve' = Write(Input(n), passed, toApply)
        /\ writePointer' = Advance(toApply)
        /\ available' = available - toRelease + toApply
        /\ fed' = fed + n
        /\ emitted' = emitted + toRelease + passed
        /\ UNCHANGED size

\* update of a reserve of no bytes: write divides by reserve.length, so the call
\* ends in an ArithmeticException after copying nothing into the ring.
UpdateThrows ==
    /\ size = 0
    /\ out' = NewArray(0)
    /\ UNCHANGED <<ring, fed, emitted>>

\* The caller reads n of the bytes kept back: engineDoFinal reads the tag.
ReadOut(n) ==
    /\ n <= available
    /\ out' = Read(NewArray(n), n)
    /\ available' = available - n
    /\ emitted' = emitted + n
    /\ UNCHANGED <<size, reserve, writePointer, fed>>

Next == \/ \E n \in 0 .. MaxFed : Update(n) \/ ReadOut(n)
        \/ UpdateThrows

Spec == Init /\ [][Next]_vars

-----------------------------------------------------------------------------
\* The ring's fields keep their types, and the pointers stay inside the ring,
\* whatever is fed to update and read from it.
TypeOK == /\ size \in Sizes
          /\ reserve \in [0 .. size - 1 -> Nat]
          /\ writePointer \in 0 .. size
          /\ size > 0 => writePointer < size
          /\ available \in 0 .. size
          /\ fed \in Nat
          /\ emitted \in Nat

\* The slot of the ring that is i bytes after the oldest byte kept back.
Slot(i) == IF StartPosition + i < size THEN StartPosition + i
                                       ELSE StartPosition + i - size

\* However update's two-part copies wrapped around the end of the array, the
\* ring holds exactly the bytes of the stream that did not come out yet, oldest
\* first: the bytes read as the tag are the last ones of the ciphertext.
RingHoldsTail ==
    /\ fed = emitted + available
    /\ \A i \in 0 .. available - 1 : reserve[Slot(i)] = emitted + 1 + i

\* The ring does what TagHoldback promises: every array that update or read
\* fills holds the next bytes of the stream, and update never keeps back more,
\* or fewer, than the last reserve.length.
Abs == INSTANCE TagHoldback WITH size <- size, fed <- fed, emitted <- emitted, out <- out
HoldsBackTag == Abs!Spec
=============================================================================
