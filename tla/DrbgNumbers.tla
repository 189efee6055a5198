----------------------------- MODULE DrbgNumbers -----------------------------
(***************************************************************************)
(* OpenSSLApiLibrary.getDRBGRandomNumber (src/main/cpp/AesGcmCipher.c) in  *)
(* several threads: every call seeds the one static CTR_DRBG_STATE, draws  *)
(* 16 bytes from it, and takes no lock.                                    *)
(*                                                                         *)
(* The state is kept as the words the threads race for: two parts of the   *)
(* key schedule, the first 12 bytes of the counter and its last word.      *)
(* An access to one of them is a step of its own, so a thread can use a    *)
(* key schedule that another has half written, with two exceptions: the    *)
(* 16-byte copy to the counter writes both parts of it in one step, and    *)
(* the block function reads the whole counter and the first part of the    *)
(* key schedule in one.  The counter is torn all the same, where ctr32_add *)
(* writes back a last word it read before another thread's copy.           *)
(* A value is named by what it was computed from: nothing (NULL: the       *)
(* zeroes of a static), the memory a call took its seed from, or blocks    *)
(* that were encrypted.                                                    *)
(***************************************************************************)
EXTENDS Integers, Sequences, Functions, TLC

CONSTANTS Threads,
          Memories,         \* what 48 bytes of memory may hold
          NULL, Error,      \* no value; the string an error returns
          Encrypted,        \* what was made by encrypting seeded values
          SeedBlocks,       \* blocks of key and counter: 3
          CtrMod,           \* values of the counter's last word: 2^32
          kMaxReseedCount,  \* 2^48
          HasCtr,           \* aes_ctr_set_key returns a function for many blocks
          MaxCalls          \* bound on the calls of all threads

VARIABLES ks, counter, reseed_counter    \* ctr_drbg_state

\* Of each thread: where it is, the 48 bytes it is about to key the state with
\* (seed_material, then temp), the word of the counter it loaded, the block it
\* has begun to encrypt, the blocks it encrypted, the reseed_counter it read, and
\* what its last call returned.
VARIABLES pc, material, word, begun, temp, read, number

\* Auxiliary: what each thread's last call was seeded with, NULL once another
\* call overlaps it; how many calls began and how many numbers were counted.
VARIABLES seed, calls, served

state  == <<ks, counter, reseed_counter>>
locals == <<material, word, begun, temp, read, number>>
ghost  == <<seed, calls, served>>
vars   == <<state, pc, locals, ghost>>

-----------------------------------------------------------------------------
Values    == Memories \cup {NULL, Encrypted}
Schedules == [first : Values, rest : Values]
Words     == [of : Values, n : 0 .. CtrMod - 1]
Counters  == [first : Values, last : Words]
Blocks    == [key : Schedules, ctr : Counters]

\* A key schedule and a counter made from x: the first parts, the last word.
Schedule(x) == [first |-> x, rest |-> x]
Counter(x, n) == [first |-> x, last |-> [of |-> x, n |-> n]]

\* A block: a counter encrypted under a key schedule.
Block(key, ctr) == [key |-> key, ctr |-> ctr]
FirstBlock(m) == Block(Schedule(m), Counter(m, 1))

\* What a block is made from, and what is made from such parts.
Parts(block) == {block.key.first, block.key.rest, block.ctr.first, block.ctr.last.of}
MadeFrom(parts) == IF NULL \in parts THEN NULL ELSE Encrypted

AddUnwrapped(w, k) == [of |-> w.of, n |-> w.n + k]
Add(w, k) == [of |-> w.of, n |-> (w.n + k) % CtrMod]

ASSUME NumbersAssumption ==
    /\ {SeedBlocks, kMaxReseedCount} \subseteq Nat \ {0}
    /\ CtrMod \in Nat /\ CtrMod > 1
    /\ HasCtr \in BOOLEAN /\ MaxCalls \in Nat
    /\ NULL \notin Memories \cup {Encrypted, Error} \cup Blocks
    /\ Error \notin Blocks

InCall == {t \in Threads : pc[t] # "idle"}

Goes(t, from, to) == pc[t] = from /\ pc' = [pc EXCEPT ![t] = to]

-----------------------------------------------------------------------------
\* The static state is zero until the first call.
Init == /\ ks = Schedule(NULL) /\ counter = Counter(NULL, 0) /\ reseed_counter = 0
        /\ pc = [t \in Threads |-> "idle"]
        /\ material = [t \in Threads |-> NULL] /\ word = [t \in Threads |-> NULL]
        /\ begun = [t \in Threads |-> NULL] /\ temp = [t \in Threads |-> << >>]
        /\ read = [t \in Threads |-> 0] /\ number = [t \in Threads |-> NULL]
        /\ seed = [t \in Threads |-> NULL] /\ calls = 0 /\ served = 0

\* getDRBGRandomNumber passes CTR_DRBG_init the handle of the seed array, so the
\* entropy is whatever the 48 bytes at that handle hold.
Call(t) ==
    /\ calls < MaxCalls
    /\ Goes(t, "idle", "key 1")
    /\ \E m \in Memories :
          /\ material' = [material EXCEPT ![t] = m]
          /\ seed' = [u \in Threads |-> IF u = t /\ InCall = {} THEN m ELSE NULL]
    /\ number' = [u \in Threads |-> IF u \in InCall THEN number[u] ELSE NULL]
    /\ calls' = calls + 1
    /\ UNCHANGED <<state, word, begun, temp, read, served>>

\* aes_ctr_set_key and the copy to the counter, in CTR_DRBG_init and at the end
\* of ctr_drbg_update: three writes, the last one of the whole counter.
KeyFirst(t) ==
    /\ \/ Goes(t, "key 1", "key 2")
       \/ Goes(t, "rekey 1", "rekey 2")
    /\ ks' = [ks EXCEPT !.first = material[t]]
    /\ UNCHANGED <<counter, reseed_counter, locals, ghost>>

KeyRest(t) ==
    /\ \/ Goes(t, "key 2", "set counter")
       \/ Goes(t, "rekey 2", "reset counter")
    /\ ks' = [ks EXCEPT !.rest = material[t]]
    /\ UNCHANGED <<counter, reseed_counter, locals, ghost>>

CounterKeepsLo(t) == [counter EXCEPT !.first = material[t]]
CounterOf(t) == Counter(material[t], 0)
SetCounter(t) ==
    /\ \/ Goes(t, "set counter", "reseeded")
       \/ Goes(t, "reset counter", "count")
    /\ counter' = CounterOf(t)
    /\ UNCHANGED <<ks, reseed_counter, locals, ghost>>

Reseeded(t) ==
    /\ Goes(t, "reseeded", "check")
    /\ reseed_counter' = 1
    /\ UNCHANGED <<ks, counter, locals, ghost>>

-----------------------------------------------------------------------------
\* CTR_DRBG_generate for 16 bytes and no additional data: refused,
RefusesEarly == reseed_counter >= kMaxReseedCount
Refuses == reseed_counter > kMaxReseedCount

Refused(t) ==
    /\ Refuses
    /\ Goes(t, "check", "idle")
    /\ number' = [number EXCEPT ![t] = Error]
    /\ material' = [material EXCEPT ![t] = NULL]
    /\ UNCHANGED <<state, word, begun, temp, read, ghost>>

Accepted(t) ==
    /\ ~Refuses
    /\ Goes(t, "check", "load")
    /\ temp' = [temp EXCEPT ![t] = << >>]
    /\ UNCHANGED <<state, material, word, begun, read, number, ghost>>

\* or one block: ctr32_add reads the last word,
Load(t) ==
    /\ \/ Goes(t, "load", "store")
       \/ Goes(t, "load again", "store again")
    /\ word' = [word EXCEPT ![t] = counter.last]
    /\ UNCHANGED <<state, material, begun, temp, read, number, ghost>>

\* adds one and writes it back;
Store(t) ==
    /\ Goes(t, "store", "encrypt 1")
    /\ counter' = [counter EXCEPT !.last = Add(word[t], 1)]
    /\ word' = [word EXCEPT ![t] = NULL]
    /\ UNCHANGED <<ks, reseed_counter, material, begun, temp, read, number, ghost>>

\* the block function reads the counter and the start of the key schedule, and
\* then the rest of the schedule.
EncryptFirst(t) ==
    /\ Goes(t, "encrypt 1", "encrypt 2")
    /\ begun' = [begun EXCEPT ![t] = [first |-> ks.first, ctr |-> counter]]
    /\ UNCHANGED <<state, material, word, temp, read, number, ghost>>

BlockOf(t) == Block([first |-> begun[t].first, rest |-> ks.rest], begun[t].ctr)

\* The first block is the number.
EncryptNumber(t) ==
    /\ number[t] = NULL
    /\ Goes(t, "encrypt 2", IF HasCtr THEN "load again" ELSE "load")
    /\ number' = [number EXCEPT ![t] = BlockOf(t)]
    /\ begun' = [begun EXCEPT ![t] = NULL]
    /\ UNCHANGED <<state, material, word, temp, read, ghost>>

\* After a call for many blocks, here one, the rest is added to the counter: 0.
StoreAgain(t) ==
    /\ Goes(t, "store again", "load")
    /\ counter' = [counter EXCEPT !.last = Add(word[t], 0)]
    /\ word' = [word EXCEPT ![t] = NULL]
    /\ UNCHANGED <<ks, reseed_counter, material, begun, temp, read, number, ghost>>

\* The next SeedBlocks are the next key and counter: ctr_drbg_update.
EncryptNext(t) ==
    LET blocks == Append(temp[t], MadeFrom(Parts(BlockOf(t))))
        last   == Len(blocks) = SeedBlocks
    IN  /\ number[t] # NULL
        /\ Goes(t, "encrypt 2", IF last THEN "rekey 1" ELSE "load")
        /\ temp' = [temp EXCEPT ![t] = IF last THEN << >> ELSE blocks]
        /\ material' = [material EXCEPT ![t] = IF last THEN MadeFrom(Range(blocks)) ELSE @]
        /\ begun' = [begun EXCEPT ![t] = NULL]
        /\ UNCHANGED <<state, word, read, number, ghost>>

\* drbg->reseed_counter++, and the number is returned.
Count(t) ==
    /\ Goes(t, "count", "counted")
    /\ read' = [read EXCEPT ![t] = reseed_counter]
    /\ UNCHANGED <<state, material, word, begun, temp, number, ghost>>

Clears == ks' = Schedule(NULL) /\ counter' = Counter(NULL, 0)
Keeps == UNCHANGED <<ks, counter>>

Counted(t) ==
    /\ Goes(t, "counted", "idle")
    /\ reseed_counter' = read[t] + 1
    /\ read' = [read EXCEPT ![t] = 0]
    /\ material' = [material EXCEPT ![t] = NULL]
    /\ served' = served + 1
    /\ Keeps
    /\ UNCHANGED <<word, begun, temp, number, seed, calls>>

Next == \E t \in Threads :
          \/ Call(t) \/ KeyFirst(t) \/ KeyRest(t) \/ SetCounter(t) \/ Reseeded(t)
          \/ Refused(t) \/ Accepted(t) \/ Load(t) \/ Store(t)
          \/ EncryptFirst(t) \/ EncryptNumber(t) \/ StoreAgain(t) \/ EncryptNext(t)
          \/ Count(t) \/ Counted(t)

Spec == Init /\ [][Next]_vars

Symmetry == Permutations(Threads) \cup Permutations(Memories)

-----------------------------------------------------------------------------
Drawn(t) == number[t] \notin {NULL, Error}

\* The words keep their types: the counter's last word stays inside its width.
TypeOK == /\ pc \in [Threads -> {"idle", "key 1", "key 2", "set counter", "reseeded",
                                 "check", "load", "store", "encrypt 1", "encrypt 2",
                                 "load again", "store again", "rekey 1", "rekey 2",
                                 "reset counter", "count", "counted"}]
          /\ ks \in Schedules /\ counter \in Counters
          /\ reseed_counter \in Nat
          /\ \A t \in Threads : Len(temp[t]) < SeedBlocks

\* Whatever torn keys and counters the races of earlier calls left behind, a
\* call that no other call overlaps returns the first block under its own seed:
\* CTR_DRBG_init overwrites everything that the number depends on.
AloneIsFresh ==
    \A t \in Threads :
        pc[t] = "idle" /\ Drawn(t) /\ seed[t] # NULL => number[t] = FirstBlock(seed[t])

\* No number is drawn, in any part, from the zeroes the static state starts
\* with: no thread undoes the seeding another relies on.
NeverUnseeded ==
    \A t \in Threads : Drawn(t) => NULL \notin Parts(number[t])

\* Each call sets the reseed counter to one, but an increment that a race delays
\* undoes that, and such increments add up.  Still no call is refused before
\* kMaxReseedCount numbers were counted.
RefusedLate == (\E t \in Threads : number[t] = Error) => served >= kMaxReseedCount
=============================================================================
