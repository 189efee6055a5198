# AES-GCM provider on BoringSSL: verification project

The repository is an Android library, `AesGcmProvider`, with its copy of BoringSSL
and a small app. The library's own code is a Java `CipherSpi` (AES/GCM/NoPadding),
a ring buffer, and a JNI file; the work is done by BoringSSL's EVP cipher layer and
GCM mode. A second JNI entry point hands out random numbers from CTR_DRBG.
Everything below is read from that code. Paths are short: `java/` is
`src/library/src/main/java/org/signal/aesgcmprovider/`, `cpp/` is
`src/library/src/main/cpp/`, `bssl/` is `cpp/third_party/boringssl/src/`, `fips/`
is `bssl/crypto/fipsmodule/`.

## 1. Inventory

| Component | State it keeps | Operations | Used by |
|---|---|---|---|
| `ReserveBuffer` (`java/ReserveBuffer.java`) | byte ring, `writePointer`, `available` | `update`, `read`, `getAvailable` | `AesGcmCipher`, decrypting only |
| `AesGcmCipher` (`java/AesGcmCipher.java`) | spec, direction, native context address, reserve | `engineInit` (3 forms), `engineUpdate` (2), `engineUpdateAAD` (2), `engineDoFinal` (2), `finalize` | `javax.crypto.Cipher`, the collector |
| JNI layer (`cpp/AesGcmCipher.c`) | a `STREAMING_GCM_CTX` on the C heap per init | `initializeCipher`, `update`, `updateAAD`, `finishEncrypt`, `finishDecrypt`, `destroy` | `AesGcmCipher` |
| EVP layer (`fips/cipher/cipher.c`, `e_aes.c`) | direction, `key_set`, `iv_set`, IV, tag buffer, `taglen` | `EVP_CipherInit_ex`, `Update`, `Final_ex`, `ctrl` | JNI layer |
| GCM mode (`fips/modes/gcm.c`) | counter, open keystream block, hash, lengths, residues | `setiv`, `aad`, `encrypt/decrypt_ctr32`, `finish`, `tag` | EVP layer |
| CTR_DRBG (`fips/rand/ctrdrbg.c`) | key, counter, reseed counter | `init`, `reseed`, `generate`, `clear` | `RAND_bytes`, `getDRBGRandomNumber` |
| `RAND_bytes` (`fips/rand/rand.c`) | a generator per thread, a list of them under a rwlock | call, thread exit, process exit | BoringSSL at large |
| thread locals, static locks (`bssl/crypto/thread_pthread.c`) | pthread key, destructors, rwlocks | get, set, destructor, lock | `RAND_bytes` |
| `getDRBGRandomNumber` (`cpp/AesGcmCipher.c:193`) | one static CTR_DRBG state, no lock | init and generate in one call | `OpenSSLApiLibrary`, `MainActivity` |
| provider registration, app screen | none | | platform |
| rest of BoringSSL (ASN.1, X.509, public keys, TLS, AEADs) | | | not called by the library |

How they interact: plain calls downwards, no callbacks. `javax.crypto.Cipher`
(not in the repository) forwards a call only after an `init` that returned. Each
Java object owns one native context by its address. The three places with
concurrency are the collector's `finalize`, which runs only when no reference is
left, `RAND_bytes` in several threads, and `getDRBGRandomNumber`.

What is hard, and the properties that make each part correct:

* **ReserveBuffer**: two-part copies around the end of the ring, for every pair of
  pointers; sizes 0 and 1. Correct: the last `size` bytes fed are kept back, all
  earlier ones came out once and in order.
* **GCM mode**: an open block carried across calls, separately for hash and
  keystream; the 32-bit counter; a finish that overwrites the hash. Correct:
  keystream bytes are used once and in order, the tag is that of NIST SP 800-38D,
  no second tag.
* **EVP layer**: key, IV and direction changed at any point; tag buffer and `taglen`
  that outlive a message. Correct: a final vouches only for what was given under
  the key and IV in force, and a finished message stays finished.
* **AesGcmCipher and JNI**: fields assigned before a call that may throw; re-init;
  exceptions after the native state moved; ciphertext shorter than the tag.
  Correct: what is accepted is what was sent, what was sent is accepted, one
  message per init, no byte of the tag handed on at any time, the native context is
  live and agrees with the fields, the Java arrays are released on every path.
* **CTR_DRBG**: chunks, a partial block, counter arithmetic, a limit. Correct: no
  block twice, exact keystream, key replaced, limit kept.
* **getDRBGRandomNumber**: threads that seed and use one static generator at the same
  time, without a lock. Correct: what a race leaves behind does not outlast the next
  call, no number comes from the zeroed state, the limit is not met early.
* **RAND_bytes**: threads starting and ending while the process exits, failing
  allocations. Correct: the list stays a list, nothing is drawn from a zeroed
  generator, nobody keeps the lock.

All hazards, each at its line, are in `PROJECT.json` under "hazards".

## 2. Modules

| Module | Models | Used by |
|---|---|---|
| `TagHoldback` | abstract: what a reserve promises | `ReserveBuffer` refines it |
| `ReserveBuffer` | the ring, index by index | |
| `ReserveBufferProofs` | proofs about it | |
| `Gcm128` | GCM contexts as records, operators for each call, the reference tag | all below |
| `Gcm128Proofs` | lemmas about the operators of `Gcm128`, for any context | the three below that prove |
| `Gcm128Stream` | one GCM context under any order of calls | |
| `Gcm128StreamProofs` | proofs about it: the keystream, the tag | |
| `EvpAesGcm` | EVP contexts, operators for each call | `EvpProtocol`, `AesGcmJni` |
| `EvpProtocol` | one EVP context under any order of EVP calls | |
| `EvpProtocolProofs` | proofs about it | |
| `AesGcmJni` | the native methods, operators | `AesGcmCipher` |
| `SealedMessage` | abstract: what a cipher object promises its caller | `AesGcmCipher` refines it |
| `AesGcmCipher` | the Java object over the whole native stack, with the facade | |
| `AesGcmCipherProofs` | proofs about it, with the refinement | |
| `MCAesGcmCipher` | symmetry and view for TLC | |
| `CtrDrbg` | one CTR_DRBG state, its generate loop turn by turn | |
| `CtrDrbgProofs` | proofs about it | |
| `DrbgNumbers` | threads in `getDRBGRandomNumber`, racing for one CTR_DRBG state | |
| `DrbgNumbersProofs` | proofs about it | |
| `RandThreads` | threads in `RAND_bytes`, thread exit, process exit | |
| `RandThreadsProofs` | proofs about it: use of the generators, the list | |

The stack is composed by operators: `Gcm128` is extended by `EvpAesGcm`, that by
`AesGcmJni`, that by `AesGcmCipher`, so a Java call in the model runs the same
definitions of the native code that `Gcm128Stream` and `EvpProtocol` check alone.
Only `ReserveBuffer` is replaced in `AesGcmCipher` by what it promises (a sequence
of bytes kept back); that the ring keeps that promise is proved.

There are two abstract specifications. `TagHoldback` says what a reserve does, and
`ReserveBuffer` implements it (`HoldsBackTag`). `SealedMessage` says what the caller
of a cipher object gets, without contexts, reserves, tags or hash states: data is
handed on in order, when opening the last bytes are never handed on, at most one
doFinal ends a message, and only an authentic one. `AesGcmCipher` implements it
(`HandsOnSealedMessage`); the mapping takes what may still be handed on from the
context and the reserve.

How the models read the code:

* **Bytes are names.** A byte is its position in the stream it belongs to; 0 is a
  byte nobody sent there. A keystream byte is the counter block and the place in
  it. This is what the properties tell apart: loss, repetition, reordering,
  tampering.
* **GHASH is a polynomial.** `Xi` is the set of terms "byte b was xored in at
  offset o and multiplied n times by H". Two sets are equal only when the hash is
  equal for every H, so a tag that matches in the model matches by construction of
  GCM; chance collisions of real tags are outside the model. `SymDiff` is xor.
* **Block size and counter width are constants** (`B`, `CtrMod`), 16 and 2^32 in
  the code. All index arithmetic is written with them.
* **The facade.** `javax.crypto.Cipher` is external: it refuses update and doFinal
  until an init has returned, and an init that throws leaves it uninitialised.
  Its later choice of another provider is not modelled.
* **Failures**: `malloc` and `EVP_CipherInit_ex` may fail in `initializeCipher`
  (`InitThrows`); a bad spec or key is refused before anything is assigned
  (`InitRefused`); short output arrays; tag lengths that the native code rejects.
* **Arrays**: the native methods are operators that also return how often they
  released each Java array they pinned (`releases`); `ArraysReleased` compares the
  two for every call, the throwing ones included.
* **CtrDrbg** names a key by a number and a counter by its distance from where the
  key set it. A generate call is a sequence of steps: the checks and the first
  update, a turn of the loop each, the partial block, the last update.
* **DrbgNumbers** is the code of `CtrDrbg` again, for several threads and at the grain
  they race at: an access to a part of the static state is a step (two parts of
  the key schedule, the first 12 bytes of the counter, its last word, the reseed
  counter). Two steps touch more than one part: `SetCounter` is the 16-byte copy and
  writes the whole counter, and `EncryptFirst` reads the whole counter with the first
  part of the key schedule. Counters are torn all the same, by `Store` and
  `StoreAgain`, which write back a last word loaded before another thread's copy.
  A data race has no defined outcome in C; the model takes each read or write of a part as one that happens whole, and the
  parts of different threads in any order: torn keys and counters, but no values
  out of thin air. A value is named by what it was computed from, `NULL` for
  the zeroes of a static. The seed of a call is whatever memory lies at the handle
  it passes: any member of `Memories`, chosen again in each call.
* **RandThreads** is the `BORINGSSL_FIPS` build, the only one with the list. A
  critical section of the rwlock that cannot block inside is one action, since the
  list is only accessed under the lock; the walk of `clear_all` and the reader's
  loop are split into steps. Memory from `OPENSSL_malloc` that was never written
  is taken as zero in `TlsFails`, the mildest outcome of reading it.

Correspondence of state and actions to the code is line by line in "map" of
`PROJECT.json`. In short: in `AesGcmCipher` the variables before the word
"Auxiliary" are the Java fields, `allocated` the native heap, `ctx` what is at
`cipherContext`; `InitDone`, `InitThrows`, `InitRefused` are the three ways out of
`engineInit`; `UpdateCall` and `DoFinal` are the engine methods with and without
an output array (`fits`); `Finalize` is the collector's call. In `RandThreads`,
`pc` is the place in `RAND_bytes_with_additional_data` or in the thread's
destructor, `drbg` and `calls` are the fields of each `rand_thread_state`. In
`CtrDrbg`, `out_len` is the variable of that name that the loop counts down. In
`DrbgNumbers`, `pc` is the place of a thread in `CTR_DRBG_init` or
`CTR_DRBG_generate`, and `material`, `temp`, `word` are its locals.

## 3. Runs

| Run | Question | Bounds |
|---|---|---|
| `reserve_ring` | does the ring keep its promise? | sizes 0 to 5, 13 bytes in pieces of any length: twice around the largest ring and more |
| `gcm_stream` | keystream and tag for every cut into calls | blocks of 3 bytes, 7 bytes of AAD, 3 counters for messages (9 bytes), calls up to 8 bytes: open, head, several whole blocks, tail, and the limit |
| `evp_protocol` | every order of EVP calls | one key, two IVs, blocks of 2, one block of message, two finals per IV |
| `aes_gcm_cipher` | the whole stack, one object | tags of 0, 1, 2, 3 bytes (block 2: none, short, full, too long), 2 bytes of message, 1 of AAD, 3 bytes fed besides faults, 2 addresses, 2 doFinals per init; 3 counters, so GCM takes one block (2 bytes) and what is fed beyond it is refused |
| `ctr_drbg` | lengths around block, chunk and limit | blocks of 2, chunks of 2 blocks, requests of 0 to 12 bytes, three calls per seed |
| `drbg_numbers` | threads in `getDRBGRandomNumber` | 2 threads, 3 calls, 2 values of memory, 2 blocks a seed, a counter of 4 values, an interval of 2: about 5.5 million states, under 2 minutes |
| `rand_threads` | threads, exits, failing allocations | 3 threads (removal in the middle), 3 calls, requests of 1 or 2 chunks, interval 2 |
| `gcm_split_aad`, `evp_previous_iv`, `aes_gcm_contexts`, `rand_tls_fails`, `rand_comments` | statements of the repository that the code does not keep | see "Findings" |

What the passing runs show:

* `reserve_ring`: `RingHoldsTail` (content of the ring) and `HoldsBackTag`
  (refinement of `TagHoldback`): the tag is always the last bytes and the
  plaintext everything before them. A reserve of size 0 can only throw.
* `gcm_stream`: `KeystreamInOrder`, `KeystreamNeverReused` up to the 32-bit limit,
  where the length check is what prevents reuse; `TagOfWholeMessage` except after
  the AAD was split (first finding); `NoSecondTag`.
* `evp_protocol`: `VerdictIsOfThisMessage`, `SealedStaysSealed`, with keys, IVs and
  directions changed on the way.
* `aes_gcm_cipher`: `FieldsAgree` (no mixture of two inits reaches a call),
  `HeldContextLives`, `AcceptedIsAuthentic`, `AuthenticIsAccepted`,
  `MessageIsWhole`, `SealIsWhole`, `OneMessagePerInit`; `ArraysReleased` (an `update`
  that throws releases its arrays twice, and this happens only to a caller that goes
  on after a doFinal or beyond what GCM takes; an init without memory releases none,
  and leaves an object that cannot be called); `HandsOnSealedMessage` (the refinement of `SealedMessage`, across
  inits and calls that throw). With at most one AAD byte
  the AAD cannot be cut; `gcm_stream` covers that.
* `ctr_drbg`: `BlocksUsedOnce`, `OutputIsKeystream`, `OutputKeyReplaced`,
  `ServedWithinInterval`.
* `drbg_numbers`: `AloneIsFresh` (a call that no other overlaps returns the first block
  under its own seed, whatever torn keys and counters the state held), `NeverUnseeded`,
  `RefusedLate` (delayed increments of the reseed counter undo its reset and add up,
  but never to a refusal before the interval was really served).
* `rand_threads`: `ListOfLinked`, `GeneratesKeyed`, `LinkedZeroed`,
  `StackLeftClean`, `CallsBounded` (`calls` passes the interval, against the comment on
  the field (finding 6), but by no more than one call asks for, less one), and the liveness properties `CallsReturn`, `ExitEnds`.

Bounds are chosen so that each case of the index arithmetic happens at least once:
no, partial and full open block; zero, one and several whole blocks; empty and
partial tail; both sides of each limit. Model values stand for keys, IVs,
addresses and threads. `MCAesGcmCipher` uses a symmetry on addresses (its action
properties and the refinement mention none of them) and a
view that drops what the facade keeps any call from reading until the next init,
which overwrites it; every checked property is about forwarded calls, the
allocated set or `collected`, all of which the view keeps. `DrbgNumbers` uses the
symmetry of its threads and memories; its properties are invariants that name
neither. It is checked with `HasCtr` true, the branch of `CTR_DRBG_generate` on processors with
AES instructions (`aes_ctr_set_key`, `fips/cipher/e_aes.c:231`); its proofs cover both
branches.

Fairness. Only `RandThreads` has any: weak fairness of each thread's steps inside a
call or its exit, and of the exit destructor. The scheduler runs threads that can
run, and a lock that stays free is granted. Starting a call, ending a thread and
exiting the process are never forced. A pthread rwlock may let readers pass a
waiting writer for ever; the model does not assume otherwise, and the liveness
properties hold because the calls are finitely many (`MaxCalls`). The other modules
model passive objects, where nothing has to happen.

Deadlock is checked everywhere but in `AesGcmCipher` (a finalized object stops),
`DrbgNumbers` (nothing is left to do after `MaxCalls` calls) and `RandThreads` (after
`clear_all` the threads hang on the lock, as its comment says).

### Findings

1. `gcm_split_aad`: AAD accepted after a message call of no bytes is authenticated
   as other AAD than was given (`fips/modes/gcm.c:439`, `680`).
2. `evp_previous_iv`: a key alone after a key with an IV runs under an IV nobody
   gave (`fips/cipher/e_aes.c:323`).
3. `aes_gcm_contexts`: each init after the first leaks the native context of the
   one before (`java/AesGcmCipher.java:125`).
4. `rand_tls_fails`: a failing `CRYPTO_set_thread_local` makes the list of states
   lose the states of other threads (`fips/rand/rand.c:108`).
5. `rand_comments`: an exit misses a generator that is keyed and not on the list
   (`fips/rand/rand.c:270`), so not all states are zeroed on exit (`rand.c:77-80`).
6. `rand_comments`: `calls` is compared once for a call and incremented for each
   64 KiB (`fips/rand/rand.c:290`), so it is not "bound by |kReseedInterval|"
   (`rand.c:60-62`).

`rand_comments` checks the disjunction `OneCommentHolds` of the two statements,
`AllZeroed` and `CallsWithinInterval`: the state it ends in violates both, so one
counterexample shows both findings. In it the interval is 2, `calls` of a state is 3,
and the destructor has finished while a generator is keyed.

Findings 4 and 5 are of the FIPS build, which the library's `CMakeLists.txt` does not
select; finding 6 does not depend on the build.

## 4. Proofs

`ReserveBufferProofs`, for every set of sizes and every stream length:

* `TypeCorrect`: `Spec => []TypeOK`; `RingCorrect`: `Spec => []RingHoldsTail`;
  `Implements`: `Spec => HoldsBackTag`.
* The inductive invariant is `TypeOK /\ RingHoldsTail`. `TypeOK` alone bounds the
  pointers, but what `read` returns needs the content of the ring. `ReadDelivers`
  and `WriteLays` say what the two-part copies do as one function each;
  `UpdateEffect` joins them; refinement follows because each returned array is the
  next piece of the stream.
* Assumptions: sizes and the length bound are natural numbers.

`RandThreadsProofs`, for any number of threads and calls and every interval:

* `TypeCorrect`, `OutputIsKeyed` (`[]GeneratesKeyed`), `StackIsClean`
  (`[]StackLeftClean`), `CallsAreBounded` (`[]CallsBounded`).
* `GeneratesKeyed` is not inductive: that a heap state is keyed when its thread
  generates depends on where the thread got it, so `Invariant` adds that
  `clear_all` holds the lock alone (`Alone`), which state a thread is on
  (`StateChosen`), that heap states of threads stay keyed until `clear_all` has the
  lock (`HeapKeyed`), and that a stack state is keyed exactly inside its call
  (`StackKeyed`). `CallsBounded` needs `CallsFit`: what is left to write fits too.
* Assumptions: `NULL` is neither a thread nor the writer's name, the interval and
  the request bound are positive.
* `ListIsOfLinked` (`[]ListOfLinked`) and `LinkedAreZeroed` (`[]LinkedZeroed`).
  `ListOfLinked` says which states are reached from the head, which is no help when
  one of them is taken out. `ListInv` says that there is an order of the linked
  states, each once, that `next` and `prev` follow (`Chain`), and while `clear_all`
  walks, how far in that order it is and that all before it are zeroed (`Walked`).
  Linking a state is an insertion at the head of the order, unlinking is a removal
  anywhere (lemmas about both do the work), and the walk ends only at the end of the
  order, so at the end all are zeroed.

`Gcm128Proofs` is about a context `g` and arbitrary bytes, so that everything above
GCM can rest on it; it has no theorems of its own. For every block size `B`, counter
width `CtrMod` and AAD limit:

* `Order(g)`: `Yi`, `EKi` and `mres` are functions of `lenM` alone, so of no call in
  particular. `CutHolds` and `ByteOfCall` are the arithmetic of a call that starts
  in the middle of a block (head, whole blocks, tail); `CounterOfByte` is what the
  length check is for: within `MsgLimit` no counter wraps.
* A stream hashed block by block gives a polynomial that depends only on its bytes and
  on how many blocks were closed (`Poly`). `Hashed(g, a, m)`: `Xi` is the one of the AAD
  `a`, multiplied on by the blocks of the message, and the one of the message `m`. The
  open blocks count as not yet multiplied; lemmas about `Poly` say what one more byte,
  a closed block and a run of whole blocks do to it. With both padded and the lengths
  added this is the reference tag; and only of the same bytes, since every byte is a
  term of its own.
* `Spoiled(g)`: `Xi` has a term that no reference tag has: the mask `EK0`, which every
  finish leaves in it, multiplied by `H` by whatever follows; or a byte of AAD at the
  place where it stands after the AAD was split. Multiplying keeps it such a term, so
  the context will match no tag until its IV is set again.
* Assumptions: `B` is positive and `CtrMod` more than 2 (counters 0 and 1 are not
  the message's).

`Gcm128StreamProofs`, for every cut of AAD and message into calls, in any order:

* `KeystreamIsInOrder` (`[]KeystreamInOrder`), `KeystreamIsFresh`
  (`[]KeystreamNeverReused`), `TypeCorrect`, `TagIsReference`
  (`[]TagOfWholeMessage`), `LaterFinishesFail` (`[]NoSecondTag`).
* The properties speak of the keystream used so far and of the last tag, and say
  nothing of the counters and the sum they come from. `Tracked` adds that: `Order`
  always; `Hashed` until a finish or until AAD came after an open block was closed
  (the first finding); `Spoiled` from then on. Freshness follows from order, because
  a division with remainder gives back the position.

`EvpProtocolProofs`, for all keys and IVs, given with any direction in any order:

* `TypeCorrect`, `VerdictIsOfMessage` (`[]VerdictIsOfThisMessage`), `SealedStays`
  (`SealedStaysSealed`).
* `IInv` adds what the verdict rests on: the context has hashed what was given under the
  key and IV in force until a final is called (`Unfinished`); without a key
  nothing was given, so that an IV given before the key, which does not reach the GCM
  context, leaves a fresh one (`TakesNothing`); and a sealed context has `ivSet` off (`SealedInv`), which every
  call checks. The final that is refused is why `Unfinished` says nothing after the
  first one: a context that was refused for want of an IV or a tag has still the whole sum.
* Assumptions: those of `Gcm128` and of `EvpProtocol`.

`AesGcmCipherProofs`, for all keys, IVs, tag lengths, addresses, block sizes, limits
and bounds:

* `TypeCorrect`, `FieldsDoAgree` (`[]FieldsAgree`), `HeldContextIsLive`
  (`[]HeldContextLives`), `OneMessage` (`OneMessagePerInit`), `AcceptsOnlyAuthentic`
  (`[]AcceptedIsAuthentic`), `AcceptsAuthentic` (`[]AuthenticIsAccepted`),
  `ReturnsWholeMessage` (`[]MessageIsWhole`), `SealsWhole` (`[]SealIsWhole`),
  `ReleasesArrays` (`ArraysReleased`), `HandsOnMessage` (`HandsOnSealedMessage`).
* `IInv` follows `engineInit`: which of its assignments were done when an init
  threw. It has a part for the spec and direction, one for the reserve, one for the
  native context, and holds them together only while calls can reach the engine.
  That no native method but `initializeCipher` changes direction, key or IV is a
  lemma about the EVP operators. `EndInv` adds that a context whose message has
  ended has `ivSet` off, so every later native call fails.
* What a doFinal returns depends on every call since the init, so the verdict
  properties need `DataInv`. Of the bytes fed, the last are in the reserve and the `p`
  before them were passed to the context (`EndOf`). When sealing (`SealState`) it has
  hashed them, and they are what was handed out, until a call was refused beyond
  `MsgLimit` (`Taken`, `AllTaken`). When opening (`OpenState`) the same holds until a
  tag was compared or AAD came late, and afterwards the context has taken a part of them or is
  `Spoiled`. A doFinal that throws for a tag that does not match has mixed
  the mask in, and one that throws for want of bytes has not: `tried` tells them apart, and only
  after the latter does the object accept the rest of the message.
* `Stage` says what one call of the engine does to all that, `Received` what the
  caller has of it when its array is too short. `UpdateCall`, `DoFinal` and
  `UpdateAAD` are instances of these.
* `VerdictInv` is the four verdict properties: what a doFinal established stands until
  the next init. `AcceptedIsAuthentic` is that a tag equal to the reference tag is of the
  same bytes; `AuthenticIsAccepted` is the other direction, and needs that nothing
  was left out. `ReleaseInv` is `ArraysReleased` as a state.
* `HandsOnMessage` takes each action to one of `SealedMessage`: inits to `Start`, a
  call that returns to `Give`, one that throws or whose output is lost to `Throw` or
  `Give`, a doFinal that returns to `End`. `EndOf` gives the mapping of `passed`, and
  `AcceptedIsAuthentic` the guard of `End`.
* Assumption: `CipherAssumption` of `AesGcmCipher`. It has a sender's message no
  longer than GCM takes (`MaxMsg <= MsgLimit`); what is fed has no such bound.

`DrbgNumbersProofs`, for any number of threads and calls, every counter width and
limit, with and without `HasCtr`:

* `TypeCorrect`, `NumbersAreSeeded` (`[]NeverUnseeded`), `RefusalIsLate`
  (`[]RefusedLate`), `AloneCallsAreFresh` (`[]AloneIsFresh`).
* Four invariants. `TypeInv` adds the types of what threads have loaded. `SeedInv`:
  from the step at which a thread wrote a word of the state to the end of its call,
  that word is not the zero the static state starts with, whoever wrote it last, and
  nor is what a thread copied from there. `CountInv`: the reseed counter, and every value of it a
  thread has read, is at most one more than the numbers counted. `FreshInv`: as long as a thread is alone, the state and its locals are
  what a sequential run from its seed has at that place.
* Assumptions: `NULL`, `Error` and memories are different, and no block is one of them.

`CtrDrbgProofs`, for every block, seed and chunk size, counter width and limit:

* `TypeCorrect`, `NoBlockTwice` (`[]BlocksUsedOnce`), `OutputIsOneStream`
  (`[]OutputIsKeystream`), `KeyIsReplaced` (`[]OutputKeyReplaced`), `ServedBounded`
  (`[]ServedWithinInterval`).
* `DrbgInv`: the counter says how many blocks were encrypted under the key, these are
  1 to `counter`, and what is written so far is their keystream; while whole blocks
  remain, the bytes written are exactly those blocks. `EncryptsNew` is what any turn
  of the loop does to this, chunk or partial block.
* Assumption: a call of the longest length and the update after it encrypt fewer
  blocks than the counter has values (65536 bytes and 3 blocks against 2^32).

Only model-checked: the liveness properties `CallsReturn` and `ExitEnds` of
`RandThreads`, since the prover handles neither fairness nor ENABLED, and the six
findings, which are counterexamples. Every other property of a passing run is a
theorem. Nothing proved here needs induction over data: the hashing of a run of
whole blocks and the loops of the code are one step or one operator each, and the
invariants carry the rest.

## 5. Not modelled, and why

* AES, GF(2^128) and bignum arithmetic, assembly: outside a model checker's reach;
  taken as names.
* In the JNI layer: `GetByteArrayElements` returning NULL, which no method checks
  (undefined behaviour from there on); the write-back of an array that was copied,
  not pinned. In `getDRBGRandomNumber`: the 16 bytes `NewString` reads behind the
  number, and that the seed is the handle of an array and not its bytes. The last
  two are facts about one expression; they are listed as hazards.
* `hwrand`, the continuous test of `rand_get_seed` (it aborts the process), fork.
* The rest of BoringSSL: vendored, and not on a call path of the library.
* The positions of a `ByteBuffer`, `engineGetIV`, `engineGetParameters`,
  `engineGetOutputSize`: no state of the object changes.

## 6. Plan

Done in this order: the ring and its promise (core of what the library adds), GCM
mode, EVP layer, the Java object over all of it, CTR_DRBG, `RAND_bytes`; then
`getDRBGRandomNumber` under several threads, the JNI array discipline, the abstract
cipher object and its refinement; then the proofs of the tag, of the list, of
CTR_DRBG, of the races of `getDRBGRandomNumber` and of the fields of the object; then
the lemmas about a GCM context, stated for any context, and from them the proofs of
the EVP layer, of what the cipher object accepts, returns and seals, of its arrays
and of its refinement of `SealedMessage`.

Left:

1. That the ring in place of the sequence changes nothing: `ReserveBuffer` refines
   `TagHoldback`, and `AesGcmCipher` uses the reserve by what that promises; the
   composition is an argument in this file and not a theorem.
2. Positions of a direct and of a heap `ByteBuffer`, which differ after
   `engineUpdateAAD` (`java/AesGcmCipher.java:218`), if the object comes to depend on
   them.
3. Two objects in two threads over the same error queue, if the library comes to
   share more than that between objects.
