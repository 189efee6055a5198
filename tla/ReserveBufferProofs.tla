------------------------ MODULE ReserveBufferProofs ------------------------
(***************************************************************************)
(* Machine-checked proofs about ReserveBuffer, for every set of sizes and  *)
(* every length of the stream.  Invariant below is inductive: TypeOK alone *)
(* bounds the pointers, RingHoldsTail is needed to say what read returns.  *)
(***************************************************************************)
EXTENDS ReserveBuffer, TLAPS

Invariant == TypeOK /\ RingHoldsTail

\* The stream bytes after position p, n of them, as an array.
Bytes(p, n) == [i \in 0 .. n - 1 |-> p + 1 + i]

LEMMA AdvanceInRing ==
    ASSUME NEW w \in Nat, NEW n \in Nat, NEW s \in Nat, s > 0, w < s, n <= s
    PROVE  (w + n) % s = IF w + n < s THEN w + n ELSE w + n - s
<1>1. CASE w + n < s
    BY <1>1
<1>2. CASE w + n >= s
    <2>1. w + n - s \in 0 .. s - 1 /\ w + n = 1 * s + (w + n - s)
        BY <1>2
    <2> QED BY <2>1
<1> QED BY <1>1, <1>2

\* The oldest byte kept back lies inside a ring that is not empty.
LEMMA StartInRing ==
    ASSUME TypeOK
    PROVE  /\ StartPosition \in 0 .. size
           /\ size > 0 => StartPosition < size
           /\ size = 0 => StartPosition = 0
BY SizesAssumption DEF TypeOK, StartPosition

\* read(buffer, 0, n) puts the n oldest bytes kept back at the front of buffer
\* and leaves the rest of buffer alone.
LEMMA ReadDelivers ==
    ASSUME Invariant, NEW n \in Nat, n <= available,
           NEW m \in Nat, n <= m
    PROVE  Read(NewArray(m), n) =
               [i \in 0 .. m - 1 |-> IF i < n THEN emitted + 1 + i ELSE 0]
<1> DEFINE a == MathMin(size - StartPosition, n)
           buffer == NewArray(m)
           first == Arraycopy(reserve, StartPosition, buffer, 0, a)
<1>1. /\ StartPosition \in Nat /\ a \in Nat /\ a <= n /\ size \in Nat
      /\ StartPosition + a <= size
      /\ a < n => StartPosition + a = size
    BY StartInRing, SizesAssumption DEF Invariant, TypeOK, MathMin
<1>2. first = [i \in 0 .. m - 1 |-> IF i < a THEN reserve[StartPosition + i] ELSE 0]
    BY <1>1 DEF Arraycopy, NewArray
<1>3. Read(buffer, n) =
        [i \in 0 .. m - 1 |-> IF a <= i /\ i < n THEN reserve[i - a] ELSE first[i]]
    BY <1>1, <1>2 DEF Read, Arraycopy
<1>4. ASSUME NEW i \in 0 .. m - 1, i < n
      PROVE  (IF a <= i THEN reserve[i - a] ELSE reserve[StartPosition + i])
                = emitted + 1 + i
    <2>1. i \in 0 .. available - 1
        BY <1>4 DEF Invariant, TypeOK
    <2>2. reserve[Slot(i)] = emitted + 1 + i
        BY <2>1 DEF Invariant, RingHoldsTail
    <2>3. Slot(i) = IF a <= i THEN i - a ELSE StartPosition + i
        BY <1>1, <1>4 DEF Slot
    <2> QED BY <2>2, <2>3
<1> HIDE DEF first, a
<1>5. ASSUME NEW i \in 0 .. m - 1
      PROVE (IF a <= i /\ i < n THEN reserve[i - a] ELSE first[i])
               = IF i < n THEN emitted + 1 + i ELSE 0
    BY <1>1, <1>2, <1>4
<1> QED BY <1>3, <1>5

\* write(buffer, offset, n) lays n bytes of buffer into the ring from
\* writePointer on, wrapping around its end, and disturbs no other slot.
LEMMA WriteLays ==
    ASSUME TypeOK, NEW m \in Nat, NEW offset \in Nat, NEW n \in Nat,
           n <= size, offset + n <= m, NEW p \in Nat
    PROVE  Write(Bytes(p, m), offset, n) =
             [j \in 0 .. size - 1 |->
                IF writePointer <= j /\ j < writePointer + n
                THEN p + 1 + offset + (j - writePointer)
                ELSE IF j < writePointer + n - size
                THEN p + 1 + offset + (size - writePointer) + j
                ELSE reserve[j]]
<1> DEFINE a == MathMin(size - writePointer, n)
           buffer == Bytes(p, m)
           first == Arraycopy(buffer, offset, reserve, writePointer, a)
<1>1. /\ writePointer \in Nat /\ a \in Nat /\ a <= n /\ size \in Nat
      /\ writePointer + a <= size
      /\ a < n => writePointer + a = size
    BY SizesAssumption DEF TypeOK, MathMin
<1>2. first = [j \in 0 .. size - 1 |->
                  IF writePointer <= j /\ j < writePointer + a
                  THEN p + 1 + offset + (j - writePointer) ELSE reserve[j]]
    BY <1>1 DEF Arraycopy, TypeOK, Bytes
<1>3. Write(buffer, offset, n) =
        [j \in 0 .. size - 1 |-> IF j < n - a THEN p + 1 + offset + a + j ELSE first[j]]
    <2>1. DOMAIN first = 0 .. size - 1
        BY <1>2
    <2>2. Write(buffer, offset, n) =
            [j \in 0 .. size - 1 |-> IF 0 <= j /\ j < 0 + (n - a)
                                     THEN buffer[offset + a + (j - 0)] ELSE first[j]]
        BY <2>1 DEF Write, Arraycopy
    <2> HIDE DEF first, a
    <2>3. ASSUME NEW j \in 0 .. size - 1, j < n - a
          PROVE  buffer[offset + a + (j - 0)] = p + 1 + offset + a + j
        <3>1. offset + a + (j - 0) = offset + a + j /\ offset + a + j \in 0 .. m - 1
            BY <1>1, <2>3
        <3> QED BY <1>1, <3>1 DEF Bytes
    <2> HIDE DEF buffer
    <2>4. ASSUME NEW j \in 0 .. size - 1
          PROVE  (IF 0 <= j /\ j < 0 + (n - a)
                  THEN buffer[offset + a + (j - 0)] ELSE first[j])
                   = IF j < n - a THEN p + 1 + offset + a + j ELSE first[j]
        BY <1>1, <2>3
    <2> QED BY <2>2, <2>4
<1> HIDE DEF first, a
<1>4. ASSUME NEW j \in 0 .. size - 1
      PROVE  (IF j < n - a THEN p + 1 + offset + a + j ELSE first[j])
               = IF writePointer <= j /\ j < writePointer + n
                 THEN p + 1 + offset + (j - writePointer)
                 ELSE IF j < writePointer + n - size
                 THEN p + 1 + offset + (size - writePointer) + j
                 ELSE reserve[j]
    BY <1>1, <1>2
<1> QED BY <1>3, <1>4

-----------------------------------------------------------------------------
\* What update(n) does, in terms of the stream: the lengths of its three copies
\* and what they leave in the ring and in the returned array.
LEMMA UpdateEffect ==
    ASSUME Invariant, NEW n \in Nat, Update(n)
    PROVE  \E k \in Nat, r \in Nat :
             /\ r = MathMin(size, n)
             /\ k = MathMax(available + n - size, 0)
             /\ size \in Nat /\ size > 0 /\ size' = size
             /\ fed' = fed + n /\ emitted' = emitted + k
             /\ available' = available + n - k
             /\ available' \in 0 .. size
             /\ writePointer' = IF writePointer + r < size THEN writePointer + r
                                                           ELSE writePointer + r - size
             /\ out' = Bytes(emitted, k)
             /\ reserve' =
                  [j \in 0 .. size - 1 |->
                     IF writePointer <= j /\ j < writePointer + r
                     THEN fed + 1 + (n - r) + (j - writePointer)
                     ELSE IF j < writePointer + r - size
                     THEN fed + 1 + (n - r) + (size - writePointer) + j
                     ELSE reserve[j]]
<1> DEFINE r == MathMin(size, n)
           release == MathMax(r - capacity, 0)
           passed == n - r
           k == release + passed
<1>1. /\ size \in Nat /\ size > 0 /\ available \in 0 .. size
      /\ writePointer \in 0 .. size - 1 /\ fed \in Nat /\ emitted \in Nat
      /\ fed = emitted + available
    BY SizesAssumption DEF Invariant, TypeOK, RingHoldsTail, Update
<1>2. /\ r \in Nat /\ r <= size /\ release \in Nat /\ passed \in Nat /\ k \in Nat
      /\ release <= available
      /\ passed > 0 => release = available
      /\ k = MathMax(available + n - size, 0)
      /\ available - release + r = available + n - k
      /\ available + n - k \in 0 .. size
    BY <1>1 DEF MathMin, MathMax, capacity
<1>3. Input(n) = Bytes(fed, n)
    BY DEF Input, Bytes
<1>4. reserve' = [j \in 0 .. size - 1 |->
                     IF writePointer <= j /\ j < writePointer + r
                     THEN fed + 1 + passed + (j - writePointer)
                     ELSE IF j < writePointer + r - size
                     THEN fed + 1 + passed + (size - writePointer) + j
                     ELSE reserve[j]]
    <2>1. reserve' = Write(Bytes(fed, n), passed, r)
        BY <1>3 DEF Update
    <2>2. passed + r <= n
        BY <1>1 DEF MathMin
    <2>3. passed \in Nat /\ r \in Nat /\ r <= size /\ fed \in Nat /\ TypeOK
        BY <1>1, <1>2 DEF Invariant
    <2> HIDE DEF r, passed, k, release
    <2> QED BY <2>1, <2>2, <2>3, WriteLays
<1>5. out' = Bytes(emitted, k)
    <2> DEFINE filled == Read(NewArray(k), release)
    <2>1. filled = [i \in 0 .. k - 1 |-> IF i < release THEN emitted + 1 + i ELSE 0]
        <3>1. release <= k
            BY <1>2
        <3> HIDE DEF release, passed, k
        <3> QED BY <1>1, <1>2, <3>1, ReadDelivers
    <2>2. out' = Arraycopy(Input(n), 0, filled, release, passed)
        BY DEF Update
    <2> HIDE DEF filled, release, passed
    <2>3. out' = [i \in 0 .. k - 1 |->
                    IF release <= i /\ i < release + passed
                    THEN Input(n)[i - release] ELSE filled[i]]
        BY <2>1, <2>2, <1>2 DEF Arraycopy
    <2>4. ASSUME NEW i \in 0 .. k - 1
          PROVE  (IF release <= i /\ i < release + passed
                  THEN Input(n)[i - release] ELSE filled[i]) = emitted + 1 + i
        <3>1. CASE i < release
            BY <3>1, <1>2, <2>1
        <3>2. CASE i >= release
            <4>1. i - release \in 0 .. n - 1 /\ passed > 0 /\ i < release + passed
                BY <3>2, <1>1, <1>2 DEF passed, r, MathMin
            <4>2. Input(n)[i - release] = fed + 1 + (i - release)
                BY <4>1 DEF Input
            <4> QED BY <4>1, <4>2, <3>2, <1>1, <1>2
        <3> QED BY <3>1, <3>2, <1>2
    <2> QED BY <2>3, <2>4 DEF Bytes
<1>6. writePointer' = IF writePointer + r < size THEN writePointer + r
                                                 ELSE writePointer + r - size
    <2>1. writePointer' = (writePointer + r) % size
        BY DEF Update, Advance
    <2> HIDE DEF r
    <2> QED BY <2>1, <1>1, <1>2, AdvanceInRing
<1>7. /\ size' = size /\ fed' = fed + n /\ emitted' = emitted + k
      /\ available' = available - release + r
    BY <1>1, <1>2 DEF Update
<1> HIDE DEF r, release, passed
<1>8. passed = n - r /\ r = MathMin(size, n)
    BY DEF r, passed
<1> QED BY <1>1, <1>2, <1>4, <1>5, <1>6, <1>7, <1>8

-----------------------------------------------------------------------------
LEMMA InitInvariant == Init => Invariant
BY SizesAssumption
   DEF Init, Invariant, TypeOK, RingHoldsTail, NewArray, StartPosition, Slot

LEMMA UpdateKeepsInvariant ==
    ASSUME Invariant, NEW n \in Nat, Update(n)
    PROVE  Invariant'
<1>1. PICK k \in Nat, r \in Nat :
             /\ r = MathMin(size, n)
             /\ k = MathMax(available + n - size, 0)
             /\ size \in Nat /\ size > 0 /\ size' = size
             /\ fed' = fed + n /\ emitted' = emitted + k
             /\ available' = available + n - k
             /\ available' \in 0 .. size
             /\ writePointer' = IF writePointer + r < size THEN writePointer + r
                                                           ELSE writePointer + r - size
             /\ out' = Bytes(emitted, k)
             /\ reserve' =
                  [j \in 0 .. size - 1 |->
                     IF writePointer <= j /\ j < writePointer + r
                     THEN fed + 1 + (n - r) + (j - writePointer)
                     ELSE IF j < writePointer + r - size
                     THEN fed + 1 + (n - r) + (size - writePointer) + j
                     ELSE reserve[j]]
    BY UpdateEffect
<1>2. /\ size \in Nat /\ size > 0 /\ available \in 0 .. size
      /\ writePointer \in 0 .. size - 1
      /\ fed \in Nat /\ emitted \in Nat /\ fed = emitted + available
      /\ r = IF size <= n THEN size ELSE n
      /\ k = IF available + n - size >= 0 THEN available + n - size ELSE 0
    BY <1>1 DEF Invariant, TypeOK, RingHoldsTail, MathMin, MathMax
<1>3. /\ size' = size /\ fed' = fed + n /\ emitted' = emitted + k
      /\ available' = available + n - k
      /\ writePointer' = IF writePointer + r < size THEN writePointer + r
                                                    ELSE writePointer + r - size
    BY <1>1
<1>4. ASSUME NEW j \in 0 .. size - 1
      PROVE  reserve'[j] = IF writePointer <= j /\ j < writePointer + r
                           THEN fed + 1 + (n - r) + (j - writePointer)
                           ELSE IF j < writePointer + r - size
                           THEN fed + 1 + (n - r) + (size - writePointer) + j
                           ELSE reserve[j]
    BY <1>1
<1>5. TypeOK'
    <2>1. /\ size' \in Sizes /\ writePointer' \in 0 .. size' - 1
          /\ fed' \in Nat /\ emitted' \in Nat /\ available' \in 0 .. size'
        BY <1>2, <1>3 DEF Invariant, TypeOK
    <2>2. ASSUME NEW j \in 0 .. size - 1
          PROVE  reserve'[j] \in Nat
        <3>1. reserve[j] \in Nat
            BY DEF Invariant, TypeOK
        <3> QED BY <1>2, <1>4, <3>1
    <2>3. reserve' \in [0 .. size - 1 -> Nat]
        BY <1>1, <2>2
    <2> QED BY <1>2, <1>3, <2>1, <2>3 DEF TypeOK
<1>6. fed' = emitted' + available'
    BY <1>2, <1>3
<1>7. ASSUME NEW i \in 0 .. available' - 1
      PROVE  reserve'[Slot(i)'] = emitted' + 1 + i
    <2> DEFINE old == i + k   \* the place in the old ring, if it was there
               s == Slot(i)'
               v == writePointer'
    <2>1. /\ s \in 0 .. size - 1
          /\ v = IF writePointer + r < size THEN writePointer + r
                                            ELSE writePointer + r - size
          /\ s = IF v - (available + n - k) + i < 0
                 THEN v - (available + n - k) + i + size
                 ELSE v - (available + n - k) + i
        <3>1. /\ v \in 0 .. size - 1
              /\ available + n - k \in 0 .. size
              /\ i \in 0 .. available + n - k - 1
            BY <1>2, <1>3
        <3>2. s = IF (IF v - (available + n - k) < 0
                      THEN v - (available + n - k) + size
                      ELSE v - (available + n - k)) + i < size
                  THEN (IF v - (available + n - k) < 0
                        THEN v - (available + n - k) + size
                        ELSE v - (available + n - k)) + i
                  ELSE (IF v - (available + n - k) < 0
                        THEN v - (available + n - k) + size
                        ELSE v - (available + n - k)) + i - size
            BY <1>3 DEF Slot, StartPosition
        <3> HIDE DEF s, v
        <3>3. v = IF writePointer + r < size THEN writePointer + r
                                             ELSE writePointer + r - size
            BY <1>3 DEF v
        <3> QED BY <3>1, <3>2, <3>3, <1>2
    <2> HIDE DEF s, v
    <2>2. /\ size \in Nat /\ available \in 0 .. size /\ writePointer \in 0 .. size - 1
          /\ r = IF size <= n THEN size ELSE n
          /\ k = IF available + n - size >= 0 THEN available + n - size ELSE 0
          /\ i \in 0 .. available + n - k - 1
        BY <1>2, <1>3
    <2>3. CASE old < available
        <3>1. /\ s = IF writePointer - available + old < 0
                     THEN writePointer - available + old + size
                     ELSE writePointer - available + old
              /\ ~(writePointer <= s /\ s < writePointer + r)
              /\ ~(s < writePointer + r - size)
            BY <2>1, <2>2, <2>3
        <3>2. old \in 0 .. available - 1
            BY <2>2, <2>3
        <3>3. reserve[Slot(old)] = emitted + 1 + old
            BY <3>2 DEF Invariant, RingHoldsTail
        <3>4. Slot(old) = s
            BY <3>1, <3>2, <2>2 DEF Slot, StartPosition
        <3>5. reserve'[s] = reserve[s]
            BY <2>1, <3>1, <1>4
        <3> QED BY <3>3, <3>4, <3>5, <2>1, <1>2, <1>3 DEF s
    <2>4. CASE old >= available
        <3>1. \/ /\ writePointer <= s
                 /\ s < writePointer + r
                 /\ (n - r) + (s - writePointer) = k - available + i
              \/ /\ ~(writePointer <= s /\ s < writePointer + r)
                 /\ s < writePointer + r - size
                 /\ (n - r) + (size - writePointer) + s = k - available + i
            BY <2>1, <2>2, <2>4
        <3>2. reserve'[s] = fed + 1 + (k - available + i)
            BY <2>1, <3>1, <2>2, <1>2, <1>4
        <3> QED BY <3>2, <2>1, <2>2, <1>2, <1>3 DEF s
    <2> QED BY <2>2, <2>3, <2>4
<1> QED BY <1>5, <1>6, <1>7 DEF Invariant, RingHoldsTail

LEMMA ReadOutKeepsInvariant ==
    ASSUME Invariant, NEW n \in Nat, ReadOut(n)
    PROVE  Invariant'
<1>1. /\ size \in Nat /\ available \in 0 .. size /\ available' = available - n
      /\ n <= available /\ emitted' = emitted + n /\ emitted \in Nat
      /\ size' = size /\ reserve' = reserve /\ writePointer' = writePointer
      /\ fed' = fed /\ writePointer \in 0 .. size
      /\ size > 0 => writePointer < size
    BY SizesAssumption DEF Invariant, TypeOK, ReadOut
<1>2. TypeOK'
    BY <1>1 DEF Invariant, TypeOK
<1>3. ASSUME NEW i \in 0 .. available' - 1
      PROVE  reserve'[Slot(i)'] = emitted' + 1 + i
    <2>1. i + n \in 0 .. available - 1
        BY <1>1
    <2>2. reserve[Slot(i + n)] = emitted + 1 + (i + n)
        BY <2>1 DEF Invariant, RingHoldsTail
    <2>3. Slot(i)' = Slot(i + n)
        BY <1>1 DEF Slot, StartPosition
    <2> QED BY <1>1, <2>1, <2>2, <2>3
<1> QED BY <1>1, <1>2, <1>3 DEF Invariant, RingHoldsTail

LEMMA NextKeepsInvariant == Invariant /\ [Next]_vars => Invariant'
<1> SUFFICES ASSUME Invariant, [Next]_vars PROVE Invariant'
    OBVIOUS
<1>1. ASSUME NEW n \in 0 .. MaxFed, Update(n) PROVE Invariant'
    BY <1>1, UpdateKeepsInvariant, MaxFedAssumption
<1>2. ASSUME NEW n \in 0 .. MaxFed, ReadOut(n) PROVE Invariant'
    BY <1>2, ReadOutKeepsInvariant, MaxFedAssumption
<1>3. CASE UpdateThrows
    BY <1>3 DEF UpdateThrows, ring, Invariant, TypeOK, RingHoldsTail, Slot,
                StartPosition
<1>4. CASE UNCHANGED vars
    BY <1>4 DEF vars, Invariant, TypeOK, RingHoldsTail, Slot, StartPosition
<1> QED BY <1>1, <1>2, <1>3, <1>4 DEF Next

LEMMA SpecInvariant == Spec => []Invariant
BY InitInvariant, NextKeepsInvariant, PTL DEF Spec

-----------------------------------------------------------------------------
\* The pointers of the ring stay inside it and its fields keep their types.
THEOREM TypeCorrect == Spec => []TypeOK
<1>1. Invariant => TypeOK
    BY DEF Invariant
<1> QED BY <1>1, SpecInvariant, PTL

\* Between two calls the ring holds exactly the bytes that were fed to update
\* and have not come out again, oldest first: what engineDoFinal reads as the
\* tag is the end of the ciphertext.
THEOREM RingCorrect == Spec => []RingHoldsTail
<1>1. Invariant => RingHoldsTail
    BY DEF Invariant
<1> QED BY <1>1, SpecInvariant, PTL

\* ReserveBuffer implements TagHoldback: for every size, every array handed out
\* is the next stretch of the stream, and exactly the last `size' bytes stay.
THEOREM Implements == Spec => HoldsBackTag
<1>1. Init => Abs!Init
    BY DEF Init, Abs!Init, Abs!NextOut, NewArray
<1>2. Invariant /\ [Next]_vars => [Abs!Next]_(Abs!vars)
    <2> SUFFICES ASSUME Invariant, [Next]_vars PROVE [Abs!Next]_(Abs!vars)
        OBVIOUS
    <2>1. ASSUME NEW n \in 0 .. MaxFed, Update(n) PROVE Abs!Feed(n)
        <3>1. PICK k \in Nat : /\ k = MathMax(available + n - size, 0)
                               /\ size' = size /\ fed' = fed + n
                               /\ emitted' = emitted + k
                               /\ out' = Bytes(emitted, k)
            BY <2>1, UpdateEffect, MaxFedAssumption
        <3>2. k = Abs!Excess(n)
            BY <3>1, SizesAssumption, MaxFedAssumption
               DEF Invariant, TypeOK, RingHoldsTail, MathMax, Abs!Excess
        <3> QED BY <3>1, <3>2 DEF Abs!Feed, Abs!NextOut, Bytes
    <2>2. ASSUME NEW n \in 0 .. MaxFed, ReadOut(n) PROVE Abs!Take(n)
        <3>1. out' = [i \in 0 .. n - 1 |-> IF i < n THEN emitted + 1 + i ELSE 0]
            <4>1. out' = Read(NewArray(n), n) /\ n <= available /\ n \in Nat
                BY <2>2, MaxFedAssumption DEF ReadOut
            <4> QED BY <4>1, ReadDelivers
        <3>2. out' = Abs!NextOut(n)
            BY <3>1, MaxFedAssumption DEF Abs!NextOut
        <3>3. n <= fed - emitted
            BY <2>2, SizesAssumption
               DEF ReadOut, Invariant, TypeOK, RingHoldsTail
        <3> QED BY <2>2, <3>2, <3>3 DEF ReadOut, Abs!Take
    <2>3. CASE UpdateThrows
        BY <2>3 DEF UpdateThrows, ring, Abs!Next, Abs!Refuse, Abs!NextOut, NewArray
    <2>4. CASE UNCHANGED vars
        BY <2>4 DEF vars, Abs!vars
    <2> QED BY <2>1, <2>2, <2>3, <2>4 DEF Next, Abs!Next
<1> QED BY <1>1, <1>2, SpecInvariant, PTL DEF Spec, HoldsBackTag, Abs!Spec
=============================================================================
