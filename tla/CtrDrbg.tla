------------------------------ MODULE CtrDrbg ------------------------------
(***************************************************************************)
(* BoringSSL's CTR_DRBG (crypto/fipsmodule/rand/ctrdrbg.c): one state,     *)
(* seeded, reseeded and asked for bytes in any order, by one caller.       *)
(*                                                                         *)
(* A key and the counter block stored with it are derived from what was    *)
(* encrypted under the key before, so they are named by a number, key, and *)
(* the counter by its distance from that block in the last 32 bits.        *)
(* Parameters: a block has Block bytes (16 in the code), a seed SeedBlocks *)
(* blocks (3), one call at most MaxGenerate bytes (65536), one AES-CTR run *)
(* at most ChunkBlocks blocks (512), and the counter CtrMod values (2^32). *)
(***************************************************************************)
EXTENDS Integers, Sequences

CONSTANTS Block, SeedBlocks, MaxGenerate, ChunkBlocks, CtrMod,
          MaxReseedCount,   \* kMaxReseedCount
          MaxKeys           \* bound on the keys set

ASSUME DrbgAssumption ==
    /\ {Block, SeedBlocks, MaxGenerate, ChunkBlocks, MaxReseedCount, MaxKeys} \subseteq Nat \ {0}
    /\ CtrMod \in Nat
    /\ MaxGenerate \div Block + 1 + SeedBlocks < CtrMod

EntropyLen == SeedBlocks * Block

VARIABLES key, counter,      \* ks, and the last word of counter
          reseed_counter

\* In CTR_DRBG_generate, or between calls, and the bytes the call has to write.
VARIABLES pc, out_len

\* Auxiliary: the counters encrypted under this key, whether one of them was
\* encrypted before, how many bytes the last call was asked for and those it
\* has written, each a key, a counter and a place in the block, and the generate
\* calls that returned one since the last seed.
VARIABLES used, reused, asked, out, served

drbg == <<key, counter, used, reused>>
vars == <<drbg, reseed_counter, pc, out_len, asked, out, served>>

-----------------------------------------------------------------------------
\* ctr32_add.
Ctr32Add(c, n) == (c + n) % CtrMod

\* The counters of the n blocks from c on, and the first `written' bytes of these
\* blocks.
Counters(c, n) == {Ctr32Add(c, i) : i \in 0 .. n - 1}
Keystream(c, written) ==
    [i \in 1 .. written |-> <<key, Ctr32Add(c, (i - 1) \div Block), (i - 1) % Block>>]

\* Whether the n blocks from c on repeat one.
Repeats(c, n) == Counters(c, n) \cap used # {}

\* They are encrypted, and `written' bytes of them are written to out.
Encrypts(c, n, written) ==
    /\ counter' = Ctr32Add(c, n - 1)
    /\ used' = used \cup Counters(c, n)
    /\ reused' = (reused \/ Repeats(c, n))
    /\ out' = out \o Keystream(c, written)
    /\ UNCHANGED key

\* aes_ctr_set_key, and the copy to counter.
SetsKeyOnly == key' = key + 1 /\ UNCHANGED counter /\ used' = {}
SetsKey == key' = key + 1 /\ counter' = 0 /\ used' = {}

\* ctr_drbg_update: SeedBlocks blocks, mixed with the data, become the next key
\* and counter.
UpdateAccepts(dataLen) == dataLen <= EntropyLen

UpdateKeepsKey ==
    /\ UNCHANGED key
    /\ counter' = Ctr32Add(counter, SeedBlocks)
    /\ used' = used \cup Counters(Ctr32Add(counter, 1), SeedBlocks)
    /\ reused' = (reused \/ Repeats(Ctr32Add(counter, 1), SeedBlocks))
Update == /\ SetsKey
          /\ reused' = (reused \/ Repeats(Ctr32Add(counter, 1), SeedBlocks))

-----------------------------------------------------------------------------
\* CTR_DRBG_init.
Init == /\ key = 1 /\ counter = 0 /\ reseed_counter = 1
        /\ pc = "ready" /\ out_len = 0
        /\ used = {} /\ reused = FALSE /\ asked = 0 /\ out = << >> /\ served = 0

\* CTR_DRBG_init once more, with `dataLen' bytes of personalization.
InitAgain(dataLen) ==
    /\ pc = "ready" /\ key < MaxKeys
    /\ dataLen <= EntropyLen
    /\ SetsKey
    /\ reseed_counter' = 1
    /\ asked' = 0 /\ out' = << >> /\ served' = 0
    /\ UNCHANGED <<reused, pc, out_len>>

\* CTR_DRBG_reseed with `dataLen' bytes of additional data, which update takes
\* already mixed into the entropy.
Reseed(dataLen) ==
    /\ pc = "ready" /\ key < MaxKeys
    /\ UpdateAccepts(dataLen)
    /\ Update
    /\ reseed_counter' = 1
    /\ asked' = 0 /\ out' = << >> /\ served' = 0
    /\ UNCHANGED <<pc, out_len>>

\* CTR_DRBG_generate returning zero: it has changed nothing.
MayGenerateOneMore == reseed_counter <= MaxReseedCount + 1
MayGenerate == reseed_counter <= MaxReseedCount

GenerateFails(len, dataLen) ==
    /\ pc = "ready"
    /\ \/ len > MaxGenerate
       \/ ~MayGenerate
       \/ ~UpdateAccepts(dataLen)
    /\ asked' = 0 /\ out' = << >>
    /\ UNCHANGED <<drbg, reseed_counter, pc, out_len, served>>

\* CTR_DRBG_generate returning one: it mixes in the additional data,
Generate(len, dataLen) ==
    /\ pc = "ready" /\ key < MaxKeys - 1
    /\ len <= MaxGenerate
    /\ MayGenerate
    /\ UpdateAccepts(dataLen)
    /\ IF dataLen # 0 THEN Update ELSE UNCHANGED drbg
    /\ pc' = "generate" /\ out_len' = len
    /\ asked' = len /\ out' = << >>
    /\ UNCHANGED <<reseed_counter, served>>

\* takes turns of some whole blocks,
Blocks == IF out_len \div Block < ChunkBlocks THEN out_len \div Block ELSE ChunkBlocks

ChunkStartsOver == Encrypts(counter, Blocks, Blocks * Block)
ChunkOf == Encrypts(Ctr32Add(counter, 1), Blocks, Blocks * Block)

Chunk == /\ pc = "generate" /\ out_len >= Block
         /\ ChunkOf
         /\ out_len' = out_len - Blocks * Block
         /\ UNCHANGED <<reseed_counter, pc, asked, served>>

\* one for part of a block,
LastBlockRepeats == Encrypts(counter, 1, out_len)
LastBlockOf == Encrypts(Ctr32Add(counter, 1), 1, out_len)

LastBlock == /\ pc = "generate" /\ out_len \in 1 .. Block - 1
             /\ LastBlockOf
             /\ out_len' = 0
             /\ UNCHANGED <<reseed_counter, pc, asked, served>>

\* and sets the next key.
Finish == /\ pc = "generate" /\ out_len = 0
          /\ Update
          /\ reseed_counter' = reseed_counter + 1
          /\ pc' = "ready"
          /\ served' = served + 1
          /\ UNCHANGED <<out_len, asked, out>>

Next == \/ \E dataLen \in {0, 1, EntropyLen, EntropyLen + 1} :
              \/ InitAgain(dataLen)
              \/ Reseed(dataLen)
              \/ \E len \in 0 .. MaxGenerate + 1 :
                    Generate(len, dataLen) \/ GenerateFails(len, dataLen)
        \/ Chunk
        \/ LastBlock
        \/ Finish

Spec == Init /\ [][Next]_vars

-----------------------------------------------------------------------------
\* Between calls the counter is where the key was set and nothing is left to write,
\* and the counter stays inside its width.
TypeOK == /\ key \in 1 .. MaxKeys /\ counter \in 0 .. CtrMod - 1
          /\ reseed_counter \in 1 .. MaxReseedCount + 1
          /\ pc \in {"ready", "generate"} /\ out_len \in 0 .. MaxGenerate
          /\ pc = "ready" => counter = 0 /\ out_len = 0
          /\ used \subseteq 0 .. CtrMod - 1

\* No counter block is encrypted twice under one key, by output or by the
\* blocks that become the next key, at any length and across the chunks.
BlocksUsedOnce == ~reused

\* A call returns as many bytes as it was asked for, the keystream of one key from
\* its first block on: no block is skipped or written twice, at any length.
OutputIsKeystream ==
    pc = "ready" =>
      /\ Len(out) = asked
      /\ \E k \in 1 .. key :
           \A i \in DOMAIN out : out[i] = <<k, 1 + (i - 1) \div Block, (i - 1) % Block>>

\* Backtracking resistance: when a call has returned, the key its bytes came from
\* has been replaced.
OutputKeyReplaced == pc = "ready" => \A i \in DOMAIN out : out[i][1] < key

\* Without a reseed at most MaxReseedCount calls return bytes.
ServedWithinInterval == served <= MaxReseedCount
=============================================================================
