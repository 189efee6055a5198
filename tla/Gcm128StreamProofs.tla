-------------------------- MODULE Gcm128StreamProofs --------------------------
(***************************************************************************)
(* Theorems about Gcm128Stream, for every block size, counter width,       *)
(* limits and bounds.                                                      *)
(*                                                                         *)
(* The inductive invariant is the one Gcm128Proofs keeps through each      *)
(* call: Tracked(g, finishes).  It says where the counters of the context  *)
(* stand as a function of the bytes taken, and what Xi holds: the          *)
(* polynomial of all that was given, until a finish or late AAD leaves a   *)
(* term in it that no reference tag has.                                   *)
(***************************************************************************)
EXTENDS Gcm128Stream, Gcm128Proofs

\* What the last finish computed.
TagInv == TagOfWholeMessage /\ NoSecondTag

IInv == Tracked(g, finishes) /\ TagInv

LEMMA Starts == ASSUME g = SetIv, finishes = 0 PROVE IInv
BY FreshTracked DEF IInv, TagInv, TagOfWholeMessage, NoSecondTag

LEMMA GiveAadKeeps ==
    ASSUME IInv, NEW n \in Nat, GiveAad(n)
    PROVE  IInv'
<1>1. /\ AadAccepts(g, From(g.lenA, n)) /\ g' = Aad(g, From(g.lenA, n))
      /\ finishes' = finishes /\ tag' = tag
    BY DEF GiveAad
<1>2. Tracked(g', finishes')
    BY <1>1, AadKeepsTracked DEF IInv
<1> QED BY <1>1, <1>2 DEF IInv, TagInv, TagOfWholeMessage, NoSecondTag

LEMMA GiveMessageKeeps ==
    ASSUME IInv, NEW n \in Nat, GiveMessage(n)
    PROVE  IInv'
<1>1. /\ CryptAccepts(g, From(g.lenM, n)) /\ g' = Crypt(g, From(g.lenM, n))
      /\ finishes' = finishes /\ tag' = tag
    BY DEF GiveMessage
<1>2. Tracked(g', finishes')
    BY <1>1, CryptKeepsTracked DEF IInv
<1> QED BY <1>1, <1>2 DEF IInv, TagInv, TagOfWholeMessage, NoSecondTag

LEMMA DoFinishKeeps ==
    ASSUME IInv, DoFinish
    PROVE  IInv'
<1> DEFINE v == TagValue(g)
           r == ReferenceTag(From(0, g.lenA), From(0, g.lenM))
           s == AadSplit(g)
<1>1. /\ g' = Finish(g) /\ finishes' = finishes + 1
      /\ tag' = [value |-> v, reference |-> r, split |-> s]
    BY DEF DoFinish
<1>2. Tracked(g', finishes') /\ finishes \in Nat
    BY <1>1, FinishKeepsTracked DEF IInv, Tracked
<1>3. (v = r) <=> finishes = 0 /\ ~s
    BY TagOfTracked DEF IInv
<1> HIDE DEF v, r, s
<1>4. tag'.value = v /\ tag'.reference = r /\ tag'.split = s
    BY <1>1
<1>5. TagInv'
    BY <1>1, <1>2, <1>3, <1>4 DEF TagInv, TagOfWholeMessage, NoSecondTag
<1> QED BY <1>2, <1>5 DEF IInv

LEMMA Fresh == NewIv => IInv'
<1> DEFINE Restarted == g = SetIv /\ finishes = 0
<1>1. Restarted => IInv
    BY Starts
<1>2. NewIv => Restarted'
    BY DEF NewIv, SetIv
<1> HIDE DEF Restarted
<1> QED BY <1>1, <1>2, PTL

LEMMA NextKeeps == IInv /\ [Next]_vars => IInv'
<1> SUFFICES ASSUME IInv, [Next]_vars PROVE IInv'
    OBVIOUS
<1>1. CASE UNCHANGED vars
    BY <1>1 DEF vars, IInv, TagInv, TagOfWholeMessage, NoSecondTag
<1>2. CASE NewIv
    BY <1>2, Fresh
<1>3. ASSUME NEW n \in 0 .. MaxChunk, GiveAad(n) PROVE IInv'
    BY <1>3, StreamAssumption, GiveAadKeeps
<1>4. ASSUME NEW n \in 0 .. MaxChunk, GiveMessage(n) PROVE IInv'
    BY <1>4, StreamAssumption, GiveMessageKeeps
<1>5. CASE DoFinish
    BY <1>5, DoFinishKeeps
<1> QED BY <1>1, <1>2, <1>3, <1>4, <1>5 DEF Next

LEMMA SpecIInv == Spec => []IInv
<1>1. Init => IInv
    BY Starts DEF Init
<1> QED BY <1>1, NextKeeps, PTL DEF Spec

LEMMA OrderAlways == Spec => []Order(g)
<1>1. IInv => Order(g)
    BY DEF IInv, Tracked, Context
<1> QED BY <1>1, SpecIInv, PTL

-----------------------------------------------------------------------------
\* Every message byte is combined with its own byte of the keystream, whatever
\* the block size and however the message is cut into calls.
THEOREM KeystreamIsInOrder == Spec => []KeystreamInOrder
<1>1. Order(g) => KeystreamInOrder
    BY DEF Order, Fields, InOrder, KeystreamInOrder
<1> QED BY <1>1, OrderAlways, PTL

\* No keystream byte is used twice under one IV, and none is a byte of the block
\* that masks the tag.
THEOREM KeystreamIsFresh == Spec => []KeystreamNeverReused
<1>1. Order(g) => KeystreamNeverReused
    <2> SUFFICES ASSUME Order(g) PROVE KeystreamNeverReused
        OBVIOUS
    <2>1. DOMAIN g.ks = 1 .. g.lenM /\ g.lenM \in Nat
        BY LimitIsNat DEF Order, Fields
    <2>2. \A i \in 1 .. g.lenM : g.ks[i] = InOrder(i)
        BY DEF Order, Fields
    <2>3. ASSUME NEW i \in 1 .. g.lenM
          PROVE  /\ g.ks[i][1] = 2 + ((i - 1) \div B) /\ g.ks[i][2] = (i - 1) % B
                 /\ (i - 1) \div B \in Nat
                 /\ i - 1 = ((i - 1) \div B) * B + ((i - 1) % B)
        <3> DEFINE k == i - 1
                   d == k \div B
                   r == k % B
        <3>1. k \in Nat
            BY <2>1
        <3>2. g.ks[i] = <<2 + d, r>>
            BY <2>2 DEF InOrder
        <3> HIDE DEF k
        <3>3. d \in Nat /\ k = d * B + r
            BY <3>1, DivMod
        <3> HIDE DEF d, r
        <3>4. g.ks[i][1] = 2 + d /\ g.ks[i][2] = r
            BY <3>2
        <3> QED BY <3>3, <3>4 DEF d, r, k
    <2>4. ASSUME NEW i \in 1 .. g.lenM, NEW j \in 1 .. g.lenM, g.ks[i] = g.ks[j]
          PROVE  i = j
        <3>1. (i - 1) \div B = (j - 1) \div B /\ (i - 1) % B = (j - 1) % B
            BY <2>3, <2>4
        <3>2. i - 1 = j - 1
            BY <2>3, <3>1
        <3> QED BY <2>1, <3>2
    <2>5. ASSUME NEW i \in 1 .. g.lenM PROVE g.ks[i][1] # 1
        BY <2>3
    <2> QED BY <2>1, <2>4, <2>5 DEF KeystreamNeverReused
<1> QED BY <1>1, OrderAlways, PTL

\* The residues stay inside a block, the counters inside their 32 bits and the
\* lengths inside their limits.
THEOREM TypeCorrect == Spec => []TypeOK
<1>1. Order(g) => TypeOK
    <2> SUFFICES ASSUME Order(g) PROVE TypeOK
        OBVIOUS
    <2>1. g.lenM \in Nat
        BY LimitIsNat DEF Order, Fields
    <2>2. g.mres \in 0 .. B - 1
        BY <2>1, DivMod DEF Order, Fields
    <2>3. g.Yi \in 0 .. CtrMod - 1
        <3>1. 2 + CeilDiv(g.lenM) \in Nat
            BY <2>1, CeilDivNat
        <3> QED BY <3>1, CtrModAdd DEF Order, Counters
    <2>4. Len(g.ks) = g.lenM
        BY <2>1 DEF Order, Fields
    <2> QED BY <2>2, <2>3, <2>4 DEF TypeOK, Order, Fields, Counters, AadFields
<1> QED BY <1>1, OrderAlways, PTL

\* For every block size, every limit and however AAD and message are cut into calls,
\* the first finish under an IV computes the tag of SP 800-38D, unless AAD came after
\* a message call had closed an open block of it.
THEOREM TagIsReference == Spec => []TagOfWholeMessage
<1>1. IInv => TagOfWholeMessage
    BY DEF IInv, TagInv
<1> QED BY <1>1, SpecIInv, PTL

\* No later finish under that IV computes the tag of what was given, whatever is
\* given between them.
THEOREM LaterFinishesFail == Spec => []NoSecondTag
<1>1. IInv => NoSecondTag
    BY DEF IInv, TagInv
<1> QED BY <1>1, SpecIInv, PTL
=============================================================================
