--------------------------- MODULE CtrDrbgProofs ---------------------------
(***************************************************************************)
(* Machine-checked proofs about CtrDrbg, for every block size, chunk size, *)
(* counter width and limit: no counter block is encrypted twice under one  *)
(* key, the bytes returned are the keystream of one key from its first     *)
(* block on, and that key has been replaced when the call returns.         *)
(*                                                                         *)
(* DrbgInv below is inductive.  The argument is that the counter says how  *)
(* many blocks were encrypted under the key: those are 1 .. counter, and   *)
(* the bytes written so far are theirs.  No step makes it wrap, because    *)
(* MaxGenerate bounds the blocks of a call (DrbgAssumption).               *)
(***************************************************************************)
EXTENDS CtrDrbg, SequenceTheorems, TLAPS

\* The first len bytes of the keystream of key k.
Stream(k, len) == [i \in 1 .. len |-> <<k, 1 + (i - 1) \div Block, (i - 1) % Block>>]

MaxBlocks == MaxGenerate \div Block

NumbersInv ==
    /\ key \in 1 .. MaxKeys
    /\ counter \in 0 .. MaxBlocks + 1
    /\ reseed_counter \in 1 .. MaxReseedCount + 1
    /\ pc \in {"ready", "generate"}
    /\ asked \in 0 .. MaxGenerate
    /\ out_len \in 0 .. asked
    /\ served + 1 = reseed_counter /\ served \in Nat

UsedInv == used = 1 .. counter /\ reused = FALSE

ReadyInv ==
    pc = "ready" =>
      /\ counter = 0 /\ out_len = 0
      /\ \E k \in 0 .. key - 1 : out = Stream(k, asked) /\ (k = 0 => asked = 0)

CallInv ==
    pc = "generate" =>
      /\ key < MaxKeys
      /\ reseed_counter <= MaxReseedCount
      /\ out_len > 0 => asked - out_len = counter * Block
      /\ out = Stream(key, asked - out_len)

DrbgInv == NumbersInv /\ UsedInv /\ ReadyInv /\ CallInv

-----------------------------------------------------------------------------
\* Arithmetic with a divisor that is not a number but a constant.

LEMMA Constants ==
    /\ Block \in Nat /\ Block > 0
    /\ SeedBlocks \in Nat /\ SeedBlocks > 0
    /\ MaxGenerate \in Nat /\ MaxGenerate > 0
    /\ ChunkBlocks \in Nat /\ ChunkBlocks > 0
    /\ MaxReseedCount \in Nat /\ MaxReseedCount > 0
    /\ MaxKeys \in Nat /\ MaxKeys > 0
    /\ CtrMod \in Nat
    /\ MaxBlocks + 1 + SeedBlocks < CtrMod
BY DrbgAssumption DEF MaxBlocks

LEMMA DivMod ==
    ASSUME NEW n \in Nat
    PROVE  /\ n \div Block \in Nat /\ n % Block \in 0 .. Block - 1
           /\ n = (n \div Block) * Block + (n % Block)
BY Constants

LEMMA DivModUnique ==
    ASSUME NEW q \in Nat, NEW r \in 0 .. Block - 1
    PROVE  /\ (q * Block + r) \div Block = q
           /\ (q * Block + r) % Block = r
BY Constants

\* c blocks further on, the block is c further and the place in it the same.
LEMMA DivModShift ==
    ASSUME NEW c \in Nat, NEW n \in Nat
    PROVE  /\ (c * Block + n) \div Block = c + n \div Block
           /\ (c * Block + n) % Block = n % Block
<1> DEFINE q == n \div Block
           r == n % Block
<1>1. q \in Nat /\ r \in 0 .. Block - 1 /\ n = q * Block + r
    BY DivMod
<1> HIDE DEF q, r
<1>2. (c + q) * Block = c * Block + q * Block /\ c + q \in Nat
    BY <1>1, Constants
<1>3. c * Block \in Nat /\ q * Block \in Nat
    BY <1>1, Constants
<1>4. c * Block + n = (c + q) * Block + r
    BY <1>1, <1>2, <1>3
<1>5. /\ ((c + q) * Block + r) \div Block = c + q
      /\ ((c + q) * Block + r) % Block = r
    BY <1>1, <1>2, DivModUnique
<1> QED BY <1>4, <1>5 DEF q, r

\* As many bytes as lie in n blocks have quotients below n.
LEMMA DivBelow ==
    ASSUME NEW n \in Nat, NEW m \in Nat, m < n * Block
    PROVE  m \div Block < n
<1> DEFINE q == m \div Block
           r == m % Block
<1>1. q \in Nat /\ r \in 0 .. Block - 1 /\ m = q * Block + r
    BY DivMod
<1> HIDE DEF q, r
<1>2. CASE q >= n
    <2>1. q * Block >= n * Block
        BY <1>1, <1>2, Constants
    <2> QED BY <1>1, <2>1, Constants
<1> QED BY <1>1, <1>2 DEF q

LEMMA WholeBlocks ==
    ASSUME NEW c \in Nat, c * Block <= MaxGenerate
    PROVE  MaxBlocks \in Nat /\ c <= MaxBlocks
<1> DEFINE r == MaxGenerate % Block
<1>1. MaxBlocks \in Nat /\ r \in 0 .. Block - 1 /\ MaxGenerate = MaxBlocks * Block + r
    BY DivMod, Constants DEF MaxBlocks
<1> HIDE DEF r
<1>2. CASE c >= MaxBlocks + 1
    <2>1. c * Block >= (MaxBlocks + 1) * Block
        BY <1>1, <1>2, Constants
    <2>2. (MaxBlocks + 1) * Block = MaxBlocks * Block + Block
        BY <1>1, Constants
    <2> QED BY <1>1, <2>1, <2>2, Constants
<1> QED BY <1>1, <1>2

LEMMA LimitIsNat == MaxBlocks \in Nat
BY WholeBlocks, Constants, 0 * Block = 0

LEMMA CtrSmall ==
    ASSUME NEW n \in Nat, n < CtrMod
    PROVE  n % CtrMod = n
BY Constants

-----------------------------------------------------------------------------
\* Blocks encrypted after the first c of a key, short of the width of the counter,
\* are new ones.
LEMMA CountersAre ==
    ASSUME NEW c \in Nat, NEW n \in Nat, c + n < CtrMod
    PROVE  Counters(Ctr32Add(c, 1), n) = c + 1 .. c + n
<1>1. CASE n = 0
    <2>1. 0 .. n - 1 = {} /\ c + 1 .. c + n = {}
        BY <1>1
    <2> QED BY <2>1 DEF Counters
<1>2. CASE n # 0
    <2>1. Ctr32Add(c, 1) = c + 1
        BY <1>2, CtrSmall, Constants DEF Ctr32Add
    <2>2. ASSUME NEW i \in 0 .. n - 1
          PROVE  Ctr32Add(c + 1, i) = c + 1 + i
        BY CtrSmall, Constants DEF Ctr32Add
    <2>3. Counters(c + 1, n) = {c + 1 + i : i \in 0 .. n - 1}
        BY <2>2 DEF Counters
    <2>4. ASSUME NEW x \in c + 1 .. c + n
          PROVE  \E i \in 0 .. n - 1 : x = c + 1 + i
        <3>1. x - (c + 1) \in 0 .. n - 1 /\ x = c + 1 + (x - (c + 1))
            OBVIOUS
        <3> QED BY <3>1
    <2>5. \A i \in 0 .. n - 1 : c + 1 + i \in c + 1 .. c + n
        OBVIOUS
    <2>6. {c + 1 + i : i \in 0 .. n - 1} = c + 1 .. c + n
        BY <2>4, <2>5
    <2> QED BY <2>1, <2>3, <2>6
<1> QED BY <1>1, <1>2

LEMMA NoneRepeats ==
    ASSUME NEW n \in Nat, counter \in Nat, counter + n < CtrMod, UsedInv
    PROVE  ~Repeats(Ctr32Add(counter, 1), n)
<1>1. Counters(Ctr32Add(counter, 1), n) = counter + 1 .. counter + n
    BY CountersAre
<1>2. (counter + 1 .. counter + n) \cap (1 .. counter) = {}
    OBVIOUS
<1> QED BY <1>1, <1>2 DEF Repeats, UsedInv

\* ctr_drbg_update repeats no block and leaves a new key with none used.
LEMMA UpdateNew ==
    ASSUME NumbersInv, UsedInv, Update
    PROVE  key' = key + 1 /\ counter' = 0 /\ UsedInv'
<1>1. ~Repeats(Ctr32Add(counter, 1), SeedBlocks)
    BY NoneRepeats, LimitIsNat, Constants DEF NumbersInv
<1>2. reused' = FALSE
    BY <1>1 DEF Update, UsedInv
<1>3. 1 .. 0 = {}
    OBVIOUS
<1> QED BY <1>2, <1>3 DEF Update, SetsKey, UsedInv

\* The first a items of u are those of s and the next b those of t.
Parts(T, a, b, s, t, u) ==
    /\ a \in Nat /\ b \in Nat
    /\ s \in [1 .. a -> T] /\ t \in [1 .. b -> T] /\ u \in [1 .. a + b -> T]
    /\ \A i \in 1 .. a : s[i] = u[i]
    /\ \A i \in 1 .. b : t[i] = u[a + i]

LEMMA PartsMakeUp ==
    ASSUME NEW T, NEW a, NEW b, NEW s, NEW t, NEW u, Parts(T, a, b, s, t, u)
    PROVE  s \o t = u
<1> USE DEF Parts
<1>1. s \in Seq(T) /\ Len(s) = a /\ t \in Seq(T) /\ Len(t) = b
    OBVIOUS
<1>2. u \in Seq(T) /\ Len(u) = a + b
    <2>1. a + b \in Nat
        OBVIOUS
    <2> QED BY <2>1
<1>3. s \o t \in Seq(T) /\ Len(s \o t) = a + b
    <2>1. s \o t \in Seq(T) /\ Len(s \o t) = Len(s) + Len(t)
        <3> HIDE DEF Parts
        <3> QED BY <1>1, ConcatProperties
    <2> QED BY <1>1, <2>1
<1>4. ASSUME NEW i \in 1 .. a + b
      PROVE  (s \o t)[i] = u[i]
    <2>1. CASE i <= a
        <3>1. i \in 1 .. a
            BY <2>1
        <3>2. (s \o t)[i] = s[i]
            BY <1>1, <3>1
        <3> QED BY <3>1, <3>2
    <2>2. CASE i > a
        <3>1. i - a \in 1 .. b /\ a + (i - a) = i
            BY <2>2
        <3>2. (s \o t)[i] = t[i - a]
            BY <1>1, <2>2, ConcatProperties
        <3>3. t[i - a] = u[a + (i - a)]
            BY <3>1
        <3> QED BY <3>1, <3>2, <3>3
    <2> QED BY <2>1, <2>2
<1> QED BY <1>2, <1>3, <1>4, SeqEqual

\* Byte n of the stream of key k, from 0.
Byte(k, n) == <<k, 1 + n \div Block, n % Block>>

LEMMA StreamIs ==
    ASSUME NEW k \in Nat, NEW len \in Nat
    PROVE  /\ Stream(k, len) \in [1 .. len -> Nat \X Nat \X Nat]
           /\ \A i \in 1 .. len : Stream(k, len)[i] = Byte(k, i - 1)
<1>1. Stream(k, len) = [i \in 1 .. len |-> Byte(k, i - 1)]
    BY DEF Stream, Byte
<1>2. ASSUME NEW i \in 1 .. len
      PROVE  Byte(k, i - 1) \in Nat \X Nat \X Nat
    <2>1. i - 1 \in Nat
        OBVIOUS
    <2>2. 1 + (i - 1) \div Block \in Nat /\ (i - 1) % Block \in Nat
        BY <2>1, DivMod, Constants
    <2> QED BY <2>2 DEF Byte
<1> QED BY <1>1, <1>2, Zenon

\* A piece of keystream that starts where a stream of whole blocks ends continues it.
LEMMA StreamGrows ==
    ASSUME NEW c \in Nat, NEW n \in Nat, NEW written \in Nat,
           written <= n * Block, c + n < CtrMod,
           key \in Nat
    PROVE  Stream(key, c * Block) \o Keystream(Ctr32Add(c, 1), written)
             = Stream(key, c * Block + written)
<1> DEFINE len == c * Block
           s == Stream(key, len)
           t == Keystream(Ctr32Add(c, 1), written)
           u == Stream(key, len + written)
           T == Nat \X Nat \X Nat
<1>1. len \in Nat
    BY Constants
<1>2. ASSUME NEW i \in 1 .. written
      PROVE  <<key, Ctr32Add(Ctr32Add(c, 1), (i - 1) \div Block), (i - 1) % Block>>
               = Byte(key, len + i - 1)
    <2> DEFINE m == i - 1
    <2>1. m \in Nat /\ m < n * Block /\ len + i - 1 = len + m
        BY <1>1, Constants
    <2> HIDE DEF m
    <2>2. m \div Block \in Nat /\ m \div Block < n
        BY <2>1, DivMod, DivBelow
    <2>3. Ctr32Add(c, 1) = 1 + c
        BY <2>2, CtrSmall, Constants DEF Ctr32Add
    <2>4. Ctr32Add(1 + c, m \div Block) = 1 + (c + m \div Block)
        BY <2>2, CtrSmall, Constants DEF Ctr32Add
    <2>5. /\ (len + m) \div Block = c + m \div Block
          /\ (len + m) % Block = m % Block
        BY <2>1, DivModShift
    <2>6. <<key, Ctr32Add(Ctr32Add(c, 1), m \div Block), m % Block>> = Byte(key, len + m)
        BY <2>3, <2>4, <2>5, Zenon DEF Byte
    <2> QED BY <2>1, <2>6, Zenon DEF m
<1>3. t = [i \in 1 .. written |-> Byte(key, len + i - 1)]
    <2> HIDE DEF len
    <2> QED BY <1>2, Zenon DEF Keystream
<1>4. len + written \in Nat
    BY <1>1
<1>5. s \in [1 .. len -> T] /\ \A i \in 1 .. len : s[i] = Byte(key, i - 1)
    BY <1>1, StreamIs
<1>6. u \in [1 .. len + written -> T]
      /\ \A i \in 1 .. len + written : u[i] = Byte(key, i - 1)
    BY <1>4, StreamIs
<1> HIDE DEF len, s, t, u, T
<1>7. \A i \in 1 .. len : s[i] = u[i]
    BY <1>1, <1>4, <1>5, <1>6
<1>8. \A i \in 1 .. written : len + i \in 1 .. len + written /\ t[i] = u[len + i]
    BY <1>1, <1>3, <1>6
<1>9. \A i \in 1 .. written : t[i] = u[len + i]
    BY <1>8
<1>10. t \in [1 .. written -> T]
    <2>1. \A i \in 1 .. written : Byte(key, len + i - 1) \in T
        <3>1. \A i \in 1 .. written : u[len + i] = Byte(key, len + i - 1)
            BY <1>1, <1>6, <1>8
        <3> QED BY <1>6, <1>8, <3>1
    <2> QED BY <1>3, <2>1, Zenon
<1>11. s \o t = u
    <2>1. len \in Nat /\ written \in Nat
        BY <1>1
    <2>2. s \in [1 .. len -> T]
        BY <1>5
    <2>3. u \in [1 .. len + written -> T]
        BY <1>6
    <2>4. Parts(T, len, written, s, t, u)
        BY <2>1, <2>2, <2>3, <1>7, <1>9, <1>10 DEF Parts
    <2> QED BY <2>4, PartsMakeUp
<1> QED BY <1>11 DEF len, s, t, u

\* What a turn of the loop does.
LEMMA EncryptsNew ==
    ASSUME NEW n \in Nat, NEW written \in Nat,
           written <= n * Block, counter \in Nat, n > 0, counter + n < CtrMod,
           key \in Nat,
           UsedInv, out = Stream(key, counter * Block),
           Encrypts(Ctr32Add(counter, 1), n, written)
    PROVE  /\ counter' = counter + n
           /\ UsedInv'
           /\ out' = Stream(key, counter * Block + written)
           /\ key' = key
<1>1. Ctr32Add(counter, 1) = counter + 1
    BY CtrSmall, Constants DEF Ctr32Add
<1>2. Ctr32Add(counter + 1, n - 1) = counter + n
    BY CtrSmall, Constants DEF Ctr32Add
<1>3. counter' = counter + n
    BY <1>1, <1>2 DEF Encrypts
<1>4. reused' = FALSE
    BY NoneRepeats DEF Encrypts, UsedInv
<1>5. used' = 1 .. counter + n
    <2>1. (1 .. counter) \cup (counter + 1 .. counter + n) = 1 .. counter + n
        OBVIOUS
    <2> QED BY <2>1, CountersAre DEF Encrypts, UsedInv
<1>6. out' = Stream(key, counter * Block + written)
    BY StreamGrows DEF Encrypts
<1> QED BY <1>3, <1>4, <1>5, <1>6 DEF Encrypts, UsedInv

-----------------------------------------------------------------------------
LEMMA ZeroBelow == \A n \in Nat : n >= 1 => 0 \in 0 .. n - 1
OBVIOUS

LEMMA EmptyStream == ASSUME NEW k PROVE Stream(k, 0) = << >>
BY DEF Stream

LEMMA InitInv == Init => DrbgInv
<1> SUFFICES ASSUME Init PROVE DrbgInv
    OBVIOUS
<1>1. NumbersInv
    BY LimitIsNat, Constants DEF Init, NumbersInv
<1>2. UsedInv
    <2>1. 1 .. 0 = {}
        OBVIOUS
    <2> QED BY <2>1 DEF Init, UsedInv
<1>3. ReadyInv
    <2>1. out = Stream(0, asked) /\ 0 \in 0 .. key - 1
        BY EmptyStream DEF Init
    <2> QED BY <2>1 DEF Init, ReadyInv
<1>4. CallInv
    BY DEF Init, CallInv
<1> QED BY <1>1, <1>2, <1>3, <1>4 DEF DrbgInv

\* Between calls, with nothing to write.
LEMMA NothingAsked ==
    ASSUME NumbersInv', pc' = "ready", counter' = 0, out_len' = 0, asked' = 0, out' = << >>
    PROVE  ReadyInv' /\ CallInv'
<1>1. out' = Stream(0, asked')
    BY EmptyStream
<1>2. 0 \in 0 .. key' - 1
    <2>1. key' \in 1 .. MaxKeys
        BY DEF NumbersInv
    <2>2. key' \in Nat /\ key' >= 1
        BY <2>1, Constants
    <2> QED BY <2>2, ZeroBelow, Zenon
<1>3. ReadyInv'
    BY <1>1, <1>2 DEF ReadyInv, Stream
<1>4. CallInv'
    BY DEF CallInv
<1> QED BY <1>3, <1>4

LEMMA KeepInv == DrbgInv /\ [Next]_vars => DrbgInv'
<1> SUFFICES ASSUME DrbgInv, [Next]_vars PROVE DrbgInv'
    OBVIOUS
<1>0. NumbersInv /\ UsedInv /\ ReadyInv /\ CallInv
    BY DEF DrbgInv
<1>1. ASSUME NEW dataLen \in {0, 1, EntropyLen, EntropyLen + 1}, InitAgain(dataLen)
      PROVE  DrbgInv'
    <2>1. NumbersInv'
        BY <1>0, <1>1, LimitIsNat, Constants DEF NumbersInv, ReadyInv, InitAgain, SetsKey
    <2>2. UsedInv'
        <3>1. 1 .. 0 = {}
            OBVIOUS
        <3> QED BY <1>0, <1>1, <3>1 DEF InitAgain, SetsKey, UsedInv
    <2>3. ReadyInv' /\ CallInv'
        BY <1>0, <1>1, <2>1, NothingAsked DEF InitAgain, SetsKey, ReadyInv
    <2> QED BY <2>1, <2>2, <2>3 DEF DrbgInv
<1>2. ASSUME NEW dataLen \in {0, 1, EntropyLen, EntropyLen + 1}, Reseed(dataLen)
      PROVE  DrbgInv'
    <2>1. key' = key + 1 /\ counter' = 0 /\ UsedInv'
        BY <1>0, <1>2, UpdateNew DEF Reseed
    <2>2. NumbersInv'
        BY <1>0, <1>2, <2>1, LimitIsNat, Constants DEF NumbersInv, ReadyInv, Reseed
    <2>3. ReadyInv' /\ CallInv'
        BY <1>0, <1>2, <2>1, <2>2, NothingAsked DEF Reseed, ReadyInv
    <2> QED BY <2>1, <2>2, <2>3 DEF DrbgInv
<1>3. ASSUME NEW dataLen \in {0, 1, EntropyLen, EntropyLen + 1},
             NEW len \in 0 .. MaxGenerate + 1, GenerateFails(len, dataLen)
      PROVE  DrbgInv'
    <2>1. NumbersInv'
        BY <1>0, <1>3, Constants DEF NumbersInv, ReadyInv, GenerateFails, drbg
    <2>2. UsedInv'
        BY <1>0, <1>3 DEF UsedInv, GenerateFails, drbg
    <2>3. ReadyInv' /\ CallInv'
        BY <1>0, <1>3, <2>1, NothingAsked DEF GenerateFails, drbg, ReadyInv
    <2> QED BY <2>1, <2>2, <2>3 DEF DrbgInv
<1>4. ASSUME NEW dataLen \in {0, 1, EntropyLen, EntropyLen + 1},
             NEW len \in 0 .. MaxGenerate + 1, Generate(len, dataLen)
      PROVE  DrbgInv'
    <2>1. key' \in {key, key + 1} /\ counter' = 0 /\ UsedInv'
        <3>1. CASE dataLen # 0
            BY <1>0, <1>4, <3>1, UpdateNew DEF Generate
        <3>2. CASE dataLen = 0
            BY <1>0, <1>4, <3>2 DEF Generate, drbg, ReadyInv, UsedInv
        <3> QED BY <3>1, <3>2
    <2>2. NumbersInv'
        BY <1>0, <1>4, <2>1, LimitIsNat, Constants DEF NumbersInv, Generate
    <2>3. ReadyInv'
        BY <1>4 DEF Generate, ReadyInv
    <2>4. CallInv'
        <3>1. key' < MaxKeys /\ reseed_counter' <= MaxReseedCount
            BY <1>0, <1>4, <2>1, Constants DEF NumbersInv, Generate, MayGenerate
        <3>2. asked' - out_len' = 0 /\ counter' * Block = 0
            BY <1>4, <2>1, Constants DEF Generate
        <3>3. out' = Stream(key', asked' - out_len')
            BY <1>4, <3>2, EmptyStream DEF Generate
        <3> QED BY <3>1, <3>2, <3>3 DEF CallInv, Stream
    <2> QED BY <2>1, <2>2, <2>3, <2>4 DEF DrbgInv
<1>5. ASSUME Chunk PROVE DrbgInv'
    <2> DEFINE n == Blocks
    <2>1. n \in Nat /\ n > 0 /\ n * Block <= out_len
        <3> DEFINE q == out_len \div Block
                   r == out_len % Block
        <3>1. q \in Nat /\ r \in 0 .. Block - 1 /\ out_len = q * Block + r
            BY <1>0, DivMod DEF NumbersInv
        <3>2. Blocks \in {q, ChunkBlocks} /\ Blocks <= q
            BY <3>1, Constants DEF Blocks
        <3> HIDE DEF q, r
        <3>3. q # 0
            <4>1. 0 * Block = 0
                BY Constants
            <4> QED BY <1>5, <3>1, <4>1, Constants DEF Chunk
        <3>4. n \in Nat /\ n > 0 /\ n <= q
            BY <3>1, <3>2, <3>3, Constants
        <3> HIDE DEF n
        <3>5. n * Block <= q * Block /\ n * Block \in Nat /\ q * Block \in Nat
            BY <3>1, <3>4, Constants
        <3> QED BY <3>1, <3>4, <3>5, Constants
    <2>2. out_len > 0 /\ pc = "generate"
        BY <1>0, <1>5, Constants DEF Chunk, NumbersInv
    <2>3. asked - out_len = counter * Block /\ out = Stream(key, counter * Block)
        BY <1>0, <2>2 DEF CallInv
    <2>4. Encrypts(Ctr32Add(counter, 1), n, n * Block)
        BY <1>5 DEF Chunk, ChunkOf
    <2>5. out_len' = out_len - n * Block /\ UNCHANGED <<reseed_counter, pc, asked, served>>
        BY <1>5 DEF Chunk
    <2> HIDE DEF n
    <2>6. (counter + n) * Block = counter * Block + n * Block /\ n * Block \in Nat
          /\ counter * Block \in Nat
        BY <1>0, <2>1, LimitIsNat, Constants DEF NumbersInv
    <2>7. (counter + n) * Block <= MaxGenerate
        BY <1>0, <2>1, <2>3, <2>6, Constants DEF NumbersInv
    <2>8. counter \in Nat /\ counter + n \in Nat /\ counter + n <= MaxBlocks
        BY <1>0, <2>1, <2>7, LimitIsNat, WholeBlocks DEF NumbersInv
    <2>9. counter + n < CtrMod /\ key \in Nat
        BY <1>0, <2>1, <2>8, LimitIsNat, Constants DEF NumbersInv
    <2>10. /\ counter' = counter + n
           /\ UsedInv'
           /\ out' = Stream(key, counter * Block + n * Block)
           /\ key' = key
        BY <1>0, <2>1, <2>3, <2>4, <2>6, <2>8, <2>9, EncryptsNew
    <2>11. asked' - out_len' = counter' * Block
        BY <1>0, <2>3, <2>5, <2>6, <2>10, Constants DEF NumbersInv
    <2>12. NumbersInv'
        BY <1>0, <2>1, <2>5, <2>6, <2>8, <2>10, LimitIsNat, Constants DEF NumbersInv
    <2>13. ReadyInv'
        BY <2>2, <2>5 DEF ReadyInv
    <2>14. CallInv'
        <3>1. out' = Stream(key', asked' - out_len')
            BY <2>6, <2>10, <2>11
        <3> QED BY <1>0, <2>2, <2>5, <2>10, <2>11, <3>1 DEF CallInv, Stream
    <2> QED BY <2>10, <2>12, <2>13, <2>14 DEF DrbgInv
<1>6. ASSUME LastBlock PROVE DrbgInv'
    <2>1. out_len > 0 /\ out_len \in Nat /\ out_len <= 1 * Block /\ pc = "generate"
        BY <1>0, <1>6, Constants DEF LastBlock, NumbersInv
    <2>2. asked - out_len = counter * Block /\ out = Stream(key, counter * Block)
        BY <1>0, <2>1 DEF CallInv
    <2>3. counter \in Nat /\ counter * Block <= MaxGenerate
        BY <1>0, <2>1, <2>2, LimitIsNat, Constants DEF NumbersInv
    <2>4. counter <= MaxBlocks /\ counter + 1 < CtrMod /\ key \in Nat
        BY <1>0, <2>3, WholeBlocks, LimitIsNat, Constants DEF NumbersInv
    <2>5. Encrypts(Ctr32Add(counter, 1), 1, out_len)
        BY <1>6 DEF LastBlock, LastBlockOf
    <2>6. /\ counter' = counter + 1
          /\ UsedInv'
          /\ out' = Stream(key, counter * Block + out_len)
          /\ key' = key
        BY <1>0, <2>1, <2>2, <2>3, <2>4, <2>5, EncryptsNew
    <2>7. out_len' = 0 /\ UNCHANGED <<reseed_counter, pc, asked, served>>
        BY <1>6 DEF LastBlock
    <2>8. NumbersInv'
        BY <1>0, <2>3, <2>4, <2>6, <2>7, LimitIsNat, Constants DEF NumbersInv
    <2>9. ReadyInv'
        BY <2>1, <2>7 DEF ReadyInv
    <2>10. CallInv'
        <3>1. asked' - out_len' = counter * Block + out_len
            BY <1>0, <2>2, <2>7 DEF NumbersInv
        <3>2. out' = Stream(key', asked' - out_len')
            BY <2>6, <3>1
        <3> QED BY <1>0, <2>1, <2>6, <2>7, <3>2 DEF CallInv, Stream
    <2> QED BY <2>6, <2>8, <2>9, <2>10 DEF DrbgInv
<1>7. ASSUME Finish PROVE DrbgInv'
    <2>1. key' = key + 1 /\ counter' = 0 /\ UsedInv'
        BY <1>0, <1>7, UpdateNew DEF Finish
    <2>2. key < MaxKeys /\ reseed_counter <= MaxReseedCount /\ out = Stream(key, asked - out_len)
        BY <1>0, <1>7 DEF Finish, CallInv
    <2>3. NumbersInv'
        BY <1>0, <1>7, <2>1, <2>2, LimitIsNat, Constants DEF NumbersInv, Finish
    <2>4. ReadyInv'
        <3>1. out' = Stream(key, asked')
            BY <1>0, <1>7, <2>2 DEF Finish, NumbersInv
        <3>2. key \in 0 .. key' - 1 /\ key # 0
            BY <1>0, <2>1, Constants DEF NumbersInv
        <3> QED BY <1>7, <2>1, <3>1, <3>2 DEF Finish, ReadyInv, Stream
    <2>5. CallInv'
        BY <1>7 DEF Finish, CallInv
    <2> QED BY <2>1, <2>3, <2>4, <2>5 DEF DrbgInv
<1>8. ASSUME UNCHANGED vars PROVE DrbgInv'
    <2>1. UNCHANGED <<key, counter, used, reused, reseed_counter, pc, out_len, asked, out, served>>
        BY <1>8 DEF vars, drbg
    <2> QED BY <1>0, <2>1 DEF DrbgInv, NumbersInv, UsedInv, ReadyInv, CallInv, Stream
<1> QED BY <1>1, <1>2, <1>3, <1>4, <1>5, <1>6, <1>7, <1>8 DEF Next

THEOREM DrbgCorrect == Spec => []DrbgInv
BY InitInv, KeepInv, PTL DEF Spec

-----------------------------------------------------------------------------
\* The fields keep their types, the counter never wraps, and between calls it is
\* where the key was set (ctr32_add, CTR_DRBG_generate).
THEOREM TypeCorrect == Spec => []TypeOK
<1>1. DrbgInv => TypeOK
    <2> SUFFICES ASSUME DrbgInv PROVE TypeOK
        OBVIOUS
    <2>1. 1 .. counter \subseteq 0 .. CtrMod - 1
        BY LimitIsNat, Constants DEF DrbgInv, NumbersInv
    <2> QED BY <2>1, LimitIsNat, Constants DEF DrbgInv, NumbersInv, UsedInv, ReadyInv, TypeOK
<1> QED BY <1>1, DrbgCorrect, PTL

\* No counter block is encrypted twice under one key (ctr_drbg_update, the loop of
\* CTR_DRBG_generate).
THEOREM NoBlockTwice == Spec => []BlocksUsedOnce
<1>1. DrbgInv => BlocksUsedOnce
    BY DEF DrbgInv, UsedInv, BlocksUsedOnce
<1> QED BY <1>1, DrbgCorrect, PTL

\* A call returns as many bytes as it was asked for, the keystream of one key from
\* its first block on, however its length was cut into chunks (CTR_DRBG_generate).
THEOREM OutputIsOneStream == Spec => []OutputIsKeystream
<1>1. DrbgInv => OutputIsKeystream
    <2> SUFFICES ASSUME DrbgInv, pc = "ready"
                 PROVE  /\ Len(out) = asked
                        /\ \E k \in 1 .. key :
                             \A i \in DOMAIN out :
                               out[i] = <<k, 1 + (i - 1) \div Block, (i - 1) % Block>>
        BY DEF OutputIsKeystream
    <2>1. PICK k \in 0 .. key - 1 : out = Stream(k, asked) /\ (k = 0 => asked = 0)
        BY DEF DrbgInv, ReadyInv
    <2>2. asked \in Nat /\ key \in Nat /\ key >= 1
        BY Constants DEF DrbgInv, NumbersInv
    <2>3. Len(out) = asked /\ DOMAIN out = 1 .. asked
        BY <2>1, <2>2 DEF Stream
    <2>4. CASE asked = 0
        <3>1. DOMAIN out = {} /\ 1 \in 1 .. key
            BY <2>2, <2>3, <2>4
        <3> QED BY <2>3, <3>1
    <2>5. CASE asked # 0
        <3>1. k \in 1 .. key
            BY <2>1, <2>2, <2>5
        <3>2. \A i \in DOMAIN out : out[i] = <<k, 1 + (i - 1) \div Block, (i - 1) % Block>>
            BY <2>1, <2>3 DEF Stream
        <3> QED BY <2>3, <3>1, <3>2
    <2> QED BY <2>4, <2>5
<1> QED BY <1>1, DrbgCorrect, PTL

\* When a call has returned, the key its bytes came from has been replaced
\* (CTR_DRBG_generate, ctr_drbg_update).
THEOREM KeyIsReplaced == Spec => []OutputKeyReplaced
<1>1. DrbgInv => OutputKeyReplaced
    <2> SUFFICES ASSUME DrbgInv, pc = "ready", NEW i \in DOMAIN out
                 PROVE  out[i][1] < key
        BY DEF OutputKeyReplaced
    <2>1. PICK k \in 0 .. key - 1 : out = Stream(k, asked)
        BY DEF DrbgInv, ReadyInv
    <2>2. out[i] = <<k, 1 + (i - 1) \div Block, (i - 1) % Block>>
        BY <2>1 DEF Stream
    <2>3. out[i][1] = k
        BY <2>2
    <2> QED BY <2>1, <2>3, Constants DEF DrbgInv, NumbersInv
<1> QED BY <1>1, DrbgCorrect, PTL

\* Without a reseed at most MaxReseedCount calls return bytes (reseed_counter).
THEOREM ServedBounded == Spec => []ServedWithinInterval
<1>1. DrbgInv => ServedWithinInterval
    BY Constants DEF DrbgInv, NumbersInv, ServedWithinInterval
<1> QED BY <1>1, DrbgCorrect, PTL
=============================================================================
