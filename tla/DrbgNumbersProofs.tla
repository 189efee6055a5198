-------------------------- MODULE DrbgNumbersProofs --------------------------
(***************************************************************************)
(* Proofs about DrbgNumbers, for any number of threads and calls, every    *)
(* counter width and every reseed limit.                                   *)
(***************************************************************************)
EXTENDS DrbgNumbers, SequenceTheorems, TLAPS

\* TypeOK with the types of the locals, which the steps copy to the state.
Types ==
    /\ TypeOK
    /\ material \in [Threads -> Values]
    /\ word \in [Threads -> Words \cup {NULL}]
    /\ begun \in [Threads -> [first : Values, ctr : Counters] \cup {NULL}]
    /\ temp \in [Threads -> Seq(Values)]
    /\ read \in [Threads -> Nat]
    /\ DOMAIN number = Threads
    /\ DOMAIN seed = Threads
    /\ calls \in Nat /\ served \in Nat

\* What a thread has loaded when it is about to use it.
Loaded ==
    \A t \in Threads :
      /\ pc[t] \in {"store", "store again"} => word[t] \in Words
      /\ pc[t] = "encrypt 2" => begun[t] \in [first : Values, ctr : Counters]

TypeInv == Types /\ Loaded

\* A counter that is set, or has been added to, is a counter.
LEMMA CounterType ==
    ASSUME NEW x \in Values PROVE Counter(x, 0) \in Counters
BY NumbersAssumption DEF Counter, Counters, Words

LEMMA AddType ==
    ASSUME NEW w \in Words, NEW k \in Nat PROVE Add(w, k) \in Words
<1>1. w.of \in Values /\ w.n \in Nat
    BY NumbersAssumption DEF Words
<1>2. (w.n + k) % CtrMod \in 0 .. CtrMod - 1
    BY <1>1, NumbersAssumption
<1> QED BY <1>1, <1>2 DEF Add, Words

LEMMA LastReplaced ==
    ASSUME NEW c \in Counters, NEW w \in Words
    PROVE  /\ [c EXCEPT !.last = w] \in Counters
           /\ [c EXCEPT !.last = w].first = c.first
           /\ [c EXCEPT !.last = w].last = w
BY DEF Counters

\* The type invariant is Types, TypeOK and Loaded.  Each is kept on its own.
LEMMA TypeInvInductive ==
    /\ Init => TypeInv
    /\ TypeInv /\ [Next]_vars => TypeInv'
<1>1. Init => TypeInv
    BY NumbersAssumption
    DEF Init, TypeInv, Types, TypeOK, Loaded, Values, Words, Counters, Schedules, Counter, Schedule
<1>2. TypeInv /\ [Next]_vars => TypeInv'
    <2> SUFFICES ASSUME TypeInv, [Next]_vars PROVE TypeInv'
        OBVIOUS
    <2>1. ASSUME NEW t \in Threads, Call(t) PROVE TypeInv'
        <3>1. PICK m \in Memories : material' = [material EXCEPT ![t] = m]
            BY <2>1 DEF Call
        <3>2. material' \in [Threads -> Values]
            BY <3>1 DEF TypeInv, Types, Values
        <3>3. DOMAIN seed' = Threads /\ DOMAIN number' = Threads
            BY <2>1, Zenon DEF Call
        <3>4. calls' = calls + 1 /\ calls \in Nat
            BY <2>1, Zenon DEF Call, TypeInv, Types
        <3>5. /\ pc' = [pc EXCEPT ![t] = "key 1"]
              /\ UNCHANGED <<ks, counter, reseed_counter, word, begun, temp, read, served>>
            BY <2>1 DEF Call, Goes, state
        <3>6. TypeOK'
            BY <3>5 DEF TypeInv, Types, TypeOK
        <3>7. calls' \in Nat
            BY <3>4
        <3>8. Types'
            BY <3>2, <3>3, <3>5, <3>6, <3>7 DEF TypeInv, Types
        <3>9. Loaded'
            BY <3>5 DEF TypeInv, Types, TypeOK, Loaded
        <3> QED BY <3>8, <3>9 DEF TypeInv
    <2>2. ASSUME NEW t \in Threads, KeyFirst(t) PROVE TypeInv'
        <3>1. ks' \in Schedules
            BY <2>2 DEF KeyFirst, TypeInv, Types, TypeOK, Schedules
        <3> QED BY <2>2, <3>1 DEF KeyFirst, TypeInv, Types, TypeOK, Loaded, Goes, state, locals, ghost
    <2>3. ASSUME NEW t \in Threads, KeyRest(t) PROVE TypeInv'
        <3>1. ks' \in Schedules
            BY <2>3 DEF KeyRest, TypeInv, Types, TypeOK, Schedules
        <3> QED BY <2>3, <3>1 DEF KeyRest, TypeInv, Types, TypeOK, Loaded, Goes, state, locals, ghost
    <2>4. ASSUME NEW t \in Threads, SetCounter(t) PROVE TypeInv'
        <3>1. counter' \in Counters
            BY <2>4, CounterType DEF SetCounter, CounterOf, TypeInv, Types, TypeOK
        <3> QED BY <2>4, <3>1 DEF SetCounter, TypeInv, Types, TypeOK, Loaded, Goes, state, locals, ghost
    <2>5. ASSUME NEW t \in Threads, Reseeded(t) PROVE TypeInv'
        BY <2>5 DEF Reseeded, TypeInv, Types, TypeOK, Loaded, Goes, state, locals, ghost, Values, Words, Counters, Schedules
    <2>6. ASSUME NEW t \in Threads, Refused(t) PROVE TypeInv'
        BY <2>6 DEF Refused, TypeInv, Types, TypeOK, Loaded, Goes, state, locals, ghost, Values, Words, Counters, Schedules
    <2>7. ASSUME NEW t \in Threads, Accepted(t) PROVE TypeInv'
        <3>1. temp' = [temp EXCEPT ![t] = << >>] /\ temp \in [Threads -> Seq(Values)]
            BY <2>7 DEF Accepted, TypeInv, Types
        <3>2. temp' \in [Threads -> Seq(Values)]
            BY <3>1, EmptySeq
        <3>3. \A u \in Threads : Len(temp[u]) < SeedBlocks
            BY DEF TypeInv, Types, TypeOK
        <3>4. Len(<< >>) < SeedBlocks
            BY EmptySeq, NumbersAssumption
        <3>5. \A u \in Threads : Len(temp'[u]) < SeedBlocks
            BY <3>1, <3>3, <3>4
        <3> QED BY <2>7, <3>2, <3>5 DEF Accepted, TypeInv, Types, TypeOK, Loaded, Goes, state, locals, ghost
    <2>8. ASSUME NEW t \in Threads, Load(t) PROVE TypeInv'
        BY <2>8 DEF Load, TypeInv, Types, TypeOK, Loaded, Goes, state, locals, ghost, Values, Words, Counters, Schedules
    <2>9. ASSUME NEW t \in Threads, Store(t) PROVE TypeInv'
        <3>1. word[t] \in Words /\ counter \in Counters /\ word \in [Threads -> Words \cup {NULL}]
            BY <2>9 DEF Store, Goes, TypeInv, Types, TypeOK, Loaded
        <3>2. counter' \in Counters
            BY <2>9, <3>1, AddType, LastReplaced DEF Store
        <3> QED BY <2>9, <3>2 DEF Store, TypeInv, Types, TypeOK, Loaded, Goes, state, locals, ghost
    <2>10. ASSUME NEW t \in Threads, EncryptFirst(t) PROVE TypeInv'
        BY <2>10 DEF EncryptFirst, TypeInv, Types, TypeOK, Loaded, Goes, state, locals, ghost, Values, Words, Counters, Schedules
    <2>11. ASSUME NEW t \in Threads, EncryptNumber(t) PROVE TypeInv'
        BY <2>11 DEF EncryptNumber, TypeInv, Types, TypeOK, Loaded, Goes, state, locals, ghost, Values, Words, Counters, Schedules, BlockOf, Block
    <2>12. ASSUME NEW t \in Threads, StoreAgain(t) PROVE TypeInv'
        <3>1. word[t] \in Words /\ counter \in Counters /\ word \in [Threads -> Words \cup {NULL}]
            BY <2>12 DEF StoreAgain, Goes, TypeInv, Types, TypeOK, Loaded
        <3>2. counter' \in Counters
            BY <2>12, <3>1, AddType, LastReplaced DEF StoreAgain
        <3> QED BY <2>12, <3>2 DEF StoreAgain, TypeInv, Types, TypeOK, Loaded, Goes, state, locals, ghost
    <2>13. ASSUME NEW t \in Threads, EncryptNext(t) PROVE TypeInv'
        <3> DEFINE made == MadeFrom(Parts(BlockOf(t)))
                   blocks == Append(temp[t], made)
                   last == Len(blocks) = SeedBlocks
        <3>1. made \in Values /\ MadeFrom(Range(blocks)) \in Values
            BY DEF MadeFrom, Values
        <3>2. temp \in [Threads -> Seq(Values)] /\ material \in [Threads -> Values]
            BY DEF TypeInv, Types
        <3>3. blocks \in Seq(Values) /\ Len(blocks) = Len(temp[t]) + 1
            BY <3>1, <3>2, AppendProperties
        <3>4. /\ temp' = [temp EXCEPT ![t] = IF last THEN << >> ELSE blocks]
              /\ material' = [material EXCEPT ![t] = IF last THEN MadeFrom(Range(blocks)) ELSE @]
            BY <2>13 DEF EncryptNext
        <3> HIDE DEF made, blocks
        <3>5. material' \in [Threads -> Values]
            BY <3>1, <3>2, <3>4
        <3>6. temp' \in [Threads -> Seq(Values)]
            BY <3>2, <3>3, <3>4, EmptySeq
        <3>7. \A u \in Threads : Len(temp[u]) < SeedBlocks
            BY DEF TypeInv, Types, TypeOK
        <3>8. Len(temp'[t]) < SeedBlocks
            <4>1. temp'[t] = IF last THEN << >> ELSE blocks
                BY <3>2, <3>4
            <4>2. Len(temp[t]) \in Nat /\ Len(temp[t]) < SeedBlocks /\ SeedBlocks \in Nat \ {0}
                BY <3>2, <3>7, LenProperties, NumbersAssumption
            <4> QED BY <3>3, <4>1, <4>2, EmptySeq
        <3>9. \A u \in Threads : Len(temp'[u]) < SeedBlocks
            BY <3>2, <3>4, <3>7, <3>8
        <3>10. begun' \in [Threads -> [first : Values, ctr : Counters] \cup {NULL}]
            BY <2>13 DEF EncryptNext, TypeInv, Types
        <3> QED BY <2>13, <3>5, <3>6, <3>9, <3>10 DEF EncryptNext, TypeInv, Types, TypeOK, Loaded, Goes, state, locals, ghost
    <2>14. ASSUME NEW t \in Threads, Count(t) PROVE TypeInv'
        BY <2>14 DEF Count, TypeInv, Types, TypeOK, Loaded, Goes, state, locals, ghost, Values, Words, Counters, Schedules
    <2>15. ASSUME NEW t \in Threads, Counted(t) PROVE TypeInv'
        <3>1. read \in [Threads -> Nat] /\ served \in Nat /\ material \in [Threads -> Values]
            BY DEF TypeInv, Types
        <3>2. /\ reseed_counter' = read[t] + 1 /\ served' = served + 1
              /\ read' = [read EXCEPT ![t] = 0] /\ material' = [material EXCEPT ![t] = NULL]
            BY <2>15 DEF Counted
        <3>3. /\ reseed_counter' \in Nat /\ served' \in Nat
              /\ read' \in [Threads -> Nat] /\ material' \in [Threads -> Values]
            BY <3>1, <3>2 DEF Values
        <3> QED BY <2>15, <3>3 DEF Counted, Keeps, TypeInv, Types, TypeOK, Loaded, Goes, state, locals, ghost
    <2>16. CASE UNCHANGED vars
        BY <2>16 DEF vars, TypeInv, Types, TypeOK, Loaded, Goes, state, locals, ghost
    <2> QED BY <2>1, <2>2, <2>3, <2>4, <2>5, <2>6, <2>7, <2>8, <2>9, <2>10, <2>11, <2>12, <2>13, <2>14, <2>15, <2>16 DEF Next
<1> QED BY <1>1, <1>2

THEOREM TypeCorrect == Spec => []TypeOK
<1>1. TypeInv => TypeOK
    BY DEF TypeInv, Types
<1> QED BY <1>1, TypeInvInductive, PTL DEF Spec

LEMMA TypeInvHolds == Spec => []TypeInv
BY TypeInvInductive, PTL DEF Spec

-----------------------------------------------------------------------------
\* NeverUnseeded: from the step at which a thread wrote a part of the state to
\* the end of its call, that part is not what the static state started with,
\* whoever wrote it last; nor is anything a thread copied from there.
StateSeeded ==
    \A t \in Threads :
      /\ pc[t] \notin {"idle", "key 1"} => ks.first # NULL
      /\ pc[t] \notin {"idle", "key 1", "key 2"} => ks.rest # NULL
      /\ pc[t] \notin {"idle", "key 1", "key 2", "set counter"} =>
            counter.first # NULL /\ counter.last.of # NULL

LocalsSeeded ==
    \A t \in Threads :
      /\ pc[t] # "idle" => material[t] # NULL
      /\ pc[t] \in {"store", "store again"} => word[t].of # NULL
      /\ pc[t] = "encrypt 2" =>
            /\ begun[t].first # NULL
            /\ begun[t].ctr.first # NULL /\ begun[t].ctr.last.of # NULL

TempSeeded ==
    \A t \in Threads : \A i \in 1 .. Len(temp[t]) : temp[t][i] # NULL

SeedInv == StateSeeded /\ LocalsSeeded /\ TempSeeded /\ NeverUnseeded

\* A block that was encrypted under seeded values is seeded.
LEMMA BlockSeeded ==
    ASSUME NEW t \in Threads, SeedInv, pc[t] = "encrypt 2"
    PROVE  NULL \notin Parts(BlockOf(t))
BY DEF SeedInv, StateSeeded, LocalsSeeded, Parts, BlockOf, Block

LEMMA SeedInvInductive ==
    /\ Init => SeedInv
    /\ TypeInv /\ SeedInv /\ [Next]_vars => SeedInv'
<1>1. Init => SeedInv
    BY DEF Init, SeedInv, StateSeeded, LocalsSeeded, TempSeeded, NeverUnseeded, Drawn
<1>2. TypeInv /\ SeedInv /\ [Next]_vars => SeedInv'
    <2> SUFFICES ASSUME TypeInv, SeedInv, [Next]_vars PROVE SeedInv'
        OBVIOUS
    <2>0. /\ DOMAIN pc = Threads /\ material \in [Threads -> Values]
          /\ ks \in Schedules /\ counter \in Counters
          /\ word \in [Threads -> Words \cup {NULL}] /\ temp \in [Threads -> Seq(Values)]
          /\ begun \in [Threads -> [first : Values, ctr : Counters] \cup {NULL}]
          /\ DOMAIN number = Threads
        BY DEF TypeInv, Types, TypeOK
    <2>1. ASSUME NEW t \in Threads, Call(t) PROVE SeedInv'
        <3>1. PICK m \in Memories : material' = [material EXCEPT ![t] = m]
            BY <2>1 DEF Call
        <3>2. m # NULL
            BY NumbersAssumption
        <3>3. /\ pc' = [pc EXCEPT ![t] = "key 1"]
              /\ UNCHANGED <<ks, counter, word, begun, temp>>
            BY <2>1 DEF Call, Goes, state
        <3>4. \A u \in Threads : number'[u] = IF u \in InCall THEN number[u] ELSE NULL
            BY <2>1, Zenon DEF Call
        <3>5. StateSeeded' /\ TempSeeded'
            BY <2>0, <3>3 DEF SeedInv, StateSeeded, TempSeeded
        <3>6. LocalsSeeded'
            BY <2>0, <3>1, <3>2, <3>3 DEF SeedInv, LocalsSeeded
        <3>7. NeverUnseeded'
            BY <3>4 DEF SeedInv, NeverUnseeded, Drawn
        <3> QED BY <3>5, <3>6, <3>7 DEF SeedInv
    <2>2. ASSUME NEW t \in Threads, KeyFirst(t) PROVE SeedInv'
        <3>1. StateSeeded'
            BY <2>0, <2>2 DEF KeyFirst, Schedules, Goes, state, locals, ghost, SeedInv, StateSeeded, LocalsSeeded
        <3>2. LocalsSeeded'
            BY <2>0, <2>2 DEF KeyFirst, Goes, state, locals, ghost, SeedInv, LocalsSeeded
        <3>3. TempSeeded'
            BY <2>0, <2>2 DEF KeyFirst, Goes, state, locals, ghost, SeedInv, TempSeeded
        <3>4. NeverUnseeded'
            BY <2>0, <2>2 DEF KeyFirst, Goes, state, locals, ghost, SeedInv, NeverUnseeded, Drawn
        <3> QED BY <3>1, <3>2, <3>3, <3>4 DEF SeedInv
    <2>3. ASSUME NEW t \in Threads, KeyRest(t) PROVE SeedInv'
        <3>1. StateSeeded'
            BY <2>0, <2>3 DEF KeyRest, Schedules, Goes, state, locals, ghost, SeedInv, StateSeeded, LocalsSeeded
        <3>2. LocalsSeeded'
            BY <2>0, <2>3 DEF KeyRest, Goes, state, locals, ghost, SeedInv, LocalsSeeded
        <3>3. TempSeeded'
            BY <2>0, <2>3 DEF KeyRest, Goes, state, locals, ghost, SeedInv, TempSeeded
        <3>4. NeverUnseeded'
            BY <2>0, <2>3 DEF KeyRest, Goes, state, locals, ghost, SeedInv, NeverUnseeded, Drawn
        <3> QED BY <3>1, <3>2, <3>3, <3>4 DEF SeedInv
    <2>4. ASSUME NEW t \in Threads, SetCounter(t) PROVE SeedInv'
        <3>1. StateSeeded'
            BY <2>0, <2>4 DEF SetCounter, CounterOf, Counter, Goes, state, locals, ghost, SeedInv, StateSeeded, LocalsSeeded
        <3>2. LocalsSeeded'
            BY <2>0, <2>4 DEF SetCounter, Goes, state, locals, ghost, SeedInv, LocalsSeeded
        <3>3. TempSeeded'
            BY <2>0, <2>4 DEF SetCounter, Goes, state, locals, ghost, SeedInv, TempSeeded
        <3>4. NeverUnseeded'
            BY <2>0, <2>4 DEF SetCounter, Goes, state, locals, ghost, SeedInv, NeverUnseeded, Drawn
        <3> QED BY <3>1, <3>2, <3>3, <3>4 DEF SeedInv
    <2>5. ASSUME NEW t \in Threads, Reseeded(t) PROVE SeedInv'
        <3>1. StateSeeded'
            BY <2>0, <2>5 DEF Reseeded, Goes, state, locals, ghost, SeedInv, StateSeeded, LocalsSeeded
        <3>2. LocalsSeeded'
            BY <2>0, <2>5 DEF Reseeded, Goes, state, locals, ghost, SeedInv, LocalsSeeded
        <3>3. TempSeeded'
            BY <2>0, <2>5 DEF Reseeded, Goes, state, locals, ghost, SeedInv, TempSeeded
        <3>4. NeverUnseeded'
            BY <2>0, <2>5 DEF Reseeded, Goes, state, locals, ghost, SeedInv, NeverUnseeded, Drawn
        <3> QED BY <3>1, <3>2, <3>3, <3>4 DEF SeedInv
    <2>6. ASSUME NEW t \in Threads, Refused(t) PROVE SeedInv'
        <3>1. StateSeeded'
            BY <2>0, <2>6 DEF Refused, Goes, state, locals, ghost, SeedInv, StateSeeded, LocalsSeeded
        <3>2. LocalsSeeded'
            BY <2>0, <2>6 DEF Refused, Goes, state, locals, ghost, SeedInv, LocalsSeeded
        <3>3. TempSeeded'
            BY <2>0, <2>6 DEF Refused, Goes, state, locals, ghost, SeedInv, TempSeeded
        <3>4. NeverUnseeded'
            BY <2>0, <2>6 DEF Refused, Goes, state, locals, ghost, SeedInv, NeverUnseeded, Drawn
        <3> QED BY <3>1, <3>2, <3>3, <3>4 DEF SeedInv
    <2>7. ASSUME NEW t \in Threads, Accepted(t) PROVE SeedInv'
        <3>1. StateSeeded'
            BY <2>0, <2>7 DEF Accepted, Goes, state, locals, ghost, SeedInv, StateSeeded, LocalsSeeded
        <3>2. LocalsSeeded'
            BY <2>0, <2>7 DEF Accepted, Goes, state, locals, ghost, SeedInv, LocalsSeeded
        <3>3. TempSeeded'
            BY <2>0, <2>7, EmptySeq DEF Accepted, Goes, state, locals, ghost, SeedInv, TempSeeded
        <3>4. NeverUnseeded'
            BY <2>0, <2>7 DEF Accepted, Goes, state, locals, ghost, SeedInv, NeverUnseeded, Drawn
        <3> QED BY <3>1, <3>2, <3>3, <3>4 DEF SeedInv
    <2>8. ASSUME NEW t \in Threads, Load(t) PROVE SeedInv'
        <3>1. StateSeeded'
            BY <2>0, <2>8 DEF Load, Goes, state, locals, ghost, SeedInv, StateSeeded, LocalsSeeded
        <3>2. LocalsSeeded'
            BY <2>0, <2>8 DEF Load, Goes, state, locals, ghost, SeedInv, LocalsSeeded, StateSeeded
        <3>3. TempSeeded'
            BY <2>0, <2>8 DEF Load, Goes, state, locals, ghost, SeedInv, TempSeeded
        <3>4. NeverUnseeded'
            BY <2>0, <2>8 DEF Load, Goes, state, locals, ghost, SeedInv, NeverUnseeded, Drawn
        <3> QED BY <3>1, <3>2, <3>3, <3>4 DEF SeedInv
    <2>9. ASSUME NEW t \in Threads, Store(t) PROVE SeedInv'
        <3>0. /\ counter'.first = counter.first
              /\ counter'.last.of = word[t].of
            <4>1. word[t] \in Words
                BY <2>9 DEF Store, Goes, TypeInv, Loaded
            <4>2. counter' = [counter EXCEPT !.last = Add(word[t], 1)]
                BY <2>9 DEF Store
            <4> QED BY <2>0, <4>1, <4>2, AddType, LastReplaced DEF Add
        <3>1. StateSeeded'
            BY <3>0, <2>0, <2>9 DEF Store, Goes, state, locals, ghost, SeedInv, StateSeeded, LocalsSeeded
        <3>2. LocalsSeeded'
            BY <3>0, <2>0, <2>9 DEF Store, Goes, state, locals, ghost, SeedInv, LocalsSeeded
        <3>3. TempSeeded'
            BY <3>0, <2>0, <2>9 DEF Store, Goes, state, locals, ghost, SeedInv, TempSeeded
        <3>4. NeverUnseeded'
            BY <3>0, <2>0, <2>9 DEF Store, Goes, state, locals, ghost, SeedInv, NeverUnseeded, Drawn
        <3> QED BY <3>1, <3>2, <3>3, <3>4 DEF SeedInv
    <2>10. ASSUME NEW t \in Threads, EncryptFirst(t) PROVE SeedInv'
        <3>1. StateSeeded'
            BY <2>0, <2>10 DEF EncryptFirst, Goes, state, locals, ghost, SeedInv, StateSeeded, LocalsSeeded
        <3>2. LocalsSeeded'
            BY <2>0, <2>10 DEF EncryptFirst, Goes, state, locals, ghost, SeedInv, LocalsSeeded, StateSeeded
        <3>3. TempSeeded'
            BY <2>0, <2>10 DEF EncryptFirst, Goes, state, locals, ghost, SeedInv, TempSeeded
        <3>4. NeverUnseeded'
            BY <2>0, <2>10 DEF EncryptFirst, Goes, state, locals, ghost, SeedInv, NeverUnseeded, Drawn
        <3> QED BY <3>1, <3>2, <3>3, <3>4 DEF SeedInv
    <2>11. ASSUME NEW t \in Threads, EncryptNumber(t) PROVE SeedInv'
        <3>0. NULL \notin Parts(BlockOf(t))
            BY <2>11, BlockSeeded DEF EncryptNumber, Goes
        <3>1. StateSeeded'
            BY <3>0, <2>0, <2>11 DEF EncryptNumber, Goes, state, locals, ghost, SeedInv, StateSeeded, LocalsSeeded
        <3>2. LocalsSeeded'
            BY <3>0, <2>0, <2>11 DEF EncryptNumber, Goes, state, locals, ghost, SeedInv, LocalsSeeded
        <3>3. TempSeeded'
            BY <3>0, <2>0, <2>11 DEF EncryptNumber, Goes, state, locals, ghost, SeedInv, TempSeeded
        <3>4. NeverUnseeded'
            BY <3>0, <2>0, <2>11 DEF EncryptNumber, Goes, state, locals, ghost, SeedInv, NeverUnseeded, Drawn
        <3> QED BY <3>1, <3>2, <3>3, <3>4 DEF SeedInv
    <2>12. ASSUME NEW t \in Threads, StoreAgain(t) PROVE SeedInv'
        <3>0. /\ counter'.first = counter.first
              /\ counter'.last.of = word[t].of
            <4>1. word[t] \in Words
                BY <2>12 DEF StoreAgain, Goes, TypeInv, Loaded
            <4>2. counter' = [counter EXCEPT !.last = Add(word[t], 0)]
                BY <2>12 DEF StoreAgain
            <4> QED BY <2>0, <4>1, <4>2, AddType, LastReplaced DEF Add
        <3>1. StateSeeded'
            BY <3>0, <2>0, <2>12 DEF StoreAgain, Goes, state, locals, ghost, SeedInv, StateSeeded, LocalsSeeded
        <3>2. LocalsSeeded'
            BY <3>0, <2>0, <2>12 DEF StoreAgain, Goes, state, locals, ghost, SeedInv, LocalsSeeded
        <3>3. TempSeeded'
            BY <3>0, <2>0, <2>12 DEF StoreAgain, Goes, state, locals, ghost, SeedInv, TempSeeded
        <3>4. NeverUnseeded'
            BY <3>0, <2>0, <2>12 DEF StoreAgain, Goes, state, locals, ghost, SeedInv, NeverUnseeded, Drawn
        <3> QED BY <3>1, <3>2, <3>3, <3>4 DEF SeedInv
    <2>13. ASSUME NEW t \in Threads, EncryptNext(t) PROVE SeedInv'
        <3> DEFINE made == MadeFrom(Parts(BlockOf(t)))
                   blocks == Append(temp[t], made)
                   last == Len(blocks) = SeedBlocks
        <3>1. made = Encrypted
            BY <2>13, BlockSeeded DEF EncryptNext, Goes, MadeFrom
        <3>2. Encrypted # NULL /\ Encrypted \in Values
            BY NumbersAssumption DEF Values
        <3>3. /\ temp' = [temp EXCEPT ![t] = IF last THEN << >> ELSE blocks]
              /\ material' = [material EXCEPT ![t] = IF last THEN MadeFrom(Range(blocks)) ELSE @]
              /\ pc[t] = "encrypt 2"
              /\ pc' = [pc EXCEPT ![t] = IF last THEN "rekey 1" ELSE "load"]
              /\ begun' = [begun EXCEPT ![t] = NULL]
              /\ UNCHANGED <<ks, counter, word, number>>
            BY <2>13 DEF EncryptNext, Goes, state, ghost
        <3> HIDE DEF made
        <3>4. \A i \in 1 .. Len(blocks) : blocks[i] # NULL
            BY <2>0, <3>1, <3>2, AppendProperties, LenProperties DEF SeedInv, TempSeeded
        <3>5. NULL \notin Range(blocks)
            BY <2>0, <3>1, <3>2, <3>4, AppendProperties, LenProperties DEF Range
        <3>6. MadeFrom(Range(blocks)) # NULL
            BY <3>2, <3>5 DEF MadeFrom
        <3> HIDE DEF blocks
        <3>7. StateSeeded'
            BY <2>0, <3>3 DEF SeedInv, StateSeeded
        <3>8. LocalsSeeded'
            BY <2>0, <3>3, <3>6 DEF SeedInv, LocalsSeeded
        <3>9. TempSeeded'
            <4>1. ASSUME NEW u \in Threads, NEW i \in 1 .. Len(temp'[u]) PROVE temp'[u][i] # NULL
                <5>1. CASE u = t
                    <6>1. temp'[u] = IF last THEN << >> ELSE blocks
                        BY <2>0, <3>3, <5>1
                    <6>2. CASE last
                        BY <6>1, <6>2, <4>1
                    <6>3. CASE ~last
                        BY <6>1, <6>3, <4>1, <3>4
                    <6> QED BY <6>2, <6>3
                <5>2. CASE u # t
                    BY <2>0, <3>3, <4>1, <5>2 DEF SeedInv, TempSeeded
                <5> QED BY <5>1, <5>2
            <4> QED BY <4>1 DEF TempSeeded
        <3>10. NeverUnseeded'
            BY <3>3 DEF SeedInv, NeverUnseeded, Drawn
        <3> QED BY <3>7, <3>8, <3>9, <3>10 DEF SeedInv
    <2>14. ASSUME NEW t \in Threads, Count(t) PROVE SeedInv'
        <3>1. StateSeeded'
            BY <2>0, <2>14 DEF Count, Goes, state, locals, ghost, SeedInv, StateSeeded, LocalsSeeded
        <3>2. LocalsSeeded'
            BY <2>0, <2>14 DEF Count, Goes, state, locals, ghost, SeedInv, LocalsSeeded
        <3>3. TempSeeded'
            BY <2>0, <2>14 DEF Count, Goes, state, locals, ghost, SeedInv, TempSeeded
        <3>4. NeverUnseeded'
            BY <2>0, <2>14 DEF Count, Goes, state, locals, ghost, SeedInv, NeverUnseeded, Drawn
        <3> QED BY <3>1, <3>2, <3>3, <3>4 DEF SeedInv
    <2>15. ASSUME NEW t \in Threads, Counted(t) PROVE SeedInv'
        <3>1. StateSeeded'
            BY <2>0, <2>15 DEF Counted, Goes, state, locals, ghost, SeedInv, StateSeeded, LocalsSeeded, Keeps
        <3>2. LocalsSeeded'
            BY <2>0, <2>15 DEF Counted, Goes, state, locals, ghost, SeedInv, LocalsSeeded
        <3>3. TempSeeded'
            BY <2>0, <2>15 DEF Counted, Goes, state, locals, ghost, SeedInv, TempSeeded
        <3>4. NeverUnseeded'
            BY <2>0, <2>15 DEF Counted, Goes, state, locals, ghost, SeedInv, NeverUnseeded, Drawn
        <3> QED BY <3>1, <3>2, <3>3, <3>4 DEF SeedInv
    <2>16. CASE UNCHANGED vars
        BY <2>16 DEF vars, state, locals, ghost, SeedInv, StateSeeded, LocalsSeeded, TempSeeded,
                     NeverUnseeded, Drawn
    <2> QED BY <2>1, <2>2, <2>3, <2>4, <2>5, <2>6, <2>7, <2>8, <2>9, <2>10, <2>11, <2>12, <2>13, <2>14, <2>15, <2>16 DEF Next
<1> QED BY <1>1, <1>2

\* No number any thread draws, in whatever race, has a part that comes from the
\* zeroed static state.
THEOREM NumbersAreSeeded == Spec => []NeverUnseeded
<1>1. SeedInv => NeverUnseeded
    BY DEF SeedInv
<1> QED BY <1>1, TypeInvHolds, SeedInvInductive, PTL DEF Spec

-----------------------------------------------------------------------------
\* RefusedLate: the reseed counter, and what any thread read of it, is at most
\* one more than the numbers counted.
CountsBounded ==
    /\ reseed_counter <= served + 1
    /\ \A t \in Threads : read[t] <= served + 1

CountInv == CountsBounded /\ RefusedLate

\* Neither NULL nor Error is a block.
LEMMA BlockType ==
    ASSUME NEW t \in Threads, TypeInv, pc[t] = "encrypt 2"
    PROVE  BlockOf(t) \in Blocks
<1>1. begun[t].first \in Values /\ begun[t].ctr \in Counters /\ ks.rest \in Values
    BY DEF TypeInv, Types, TypeOK, Loaded, Schedules
<1> QED BY <1>1 DEF BlockOf, Block, Blocks, Schedules

LEMMA CountInvInductive ==
    /\ Init => CountInv
    /\ TypeInv /\ CountInv /\ [Next]_vars => CountInv'
<1>1. Init => CountInv
    <2> SUFFICES ASSUME Init PROVE CountInv
        OBVIOUS
    <2>1. CountsBounded
        BY DEF Init, CountsBounded
    <2>2. RefusedLate
        BY NumbersAssumption DEF Init, RefusedLate
    <2> QED BY <2>1, <2>2 DEF CountInv
<1>2. TypeInv /\ CountInv /\ [Next]_vars => CountInv'
    <2> SUFFICES ASSUME TypeInv, CountInv, [Next]_vars PROVE CountInv'
        OBVIOUS
    <2>0. /\ DOMAIN number = Threads /\ read \in [Threads -> Nat]
          /\ reseed_counter \in Nat /\ served \in Nat /\ kMaxReseedCount \in Nat
        BY NumbersAssumption DEF TypeInv, Types, TypeOK
    <2>1. ASSUME NEW t \in Threads, Call(t) PROVE CountInv'
        <3>1. \A u \in Threads : number'[u] = IF u \in InCall THEN number[u] ELSE NULL
            BY <2>1, Zenon DEF Call
        <3>2. UNCHANGED <<reseed_counter, read, served>>
            BY <2>1 DEF Call, state
        <3>3. RefusedLate'
            <4>1. NULL # Error
                BY NumbersAssumption
            <4> QED BY <3>1, <3>2, <4>1 DEF CountInv, RefusedLate
        <3> QED BY <3>2, <3>3 DEF CountInv, CountsBounded
    <2>2. ASSUME NEW t \in Threads, KeyFirst(t) PROVE CountInv'
        BY <2>0, <2>2 DEF KeyFirst, Goes, state, locals, ghost, CountInv, CountsBounded, RefusedLate
    <2>3. ASSUME NEW t \in Threads, KeyRest(t) PROVE CountInv'
        BY <2>0, <2>3 DEF KeyRest, Goes, state, locals, ghost, CountInv, CountsBounded, RefusedLate
    <2>4. ASSUME NEW t \in Threads, SetCounter(t) PROVE CountInv'
        BY <2>0, <2>4 DEF SetCounter, Goes, state, locals, ghost, CountInv, CountsBounded, RefusedLate
    <2>5. ASSUME NEW t \in Threads, Reseeded(t) PROVE CountInv'
        BY <2>0, <2>5 DEF Reseeded, Goes, state, locals, ghost, CountInv, CountsBounded, RefusedLate
    <2>6. ASSUME NEW t \in Threads, Refused(t) PROVE CountInv'
        <3>1. /\ number' = [number EXCEPT ![t] = Error]
              /\ kMaxReseedCount < reseed_counter
              /\ UNCHANGED <<reseed_counter, read, served>>
            BY <2>0, <2>6 DEF Refused, Refuses, state, ghost
        <3>2. served >= kMaxReseedCount
            BY <2>0, <3>1 DEF CountInv, CountsBounded
        <3> QED BY <3>1, <3>2 DEF CountInv, CountsBounded, RefusedLate
    <2>7. ASSUME NEW t \in Threads, Accepted(t) PROVE CountInv'
        BY <2>0, <2>7 DEF Accepted, Goes, state, locals, ghost, CountInv, CountsBounded, RefusedLate
    <2>8. ASSUME NEW t \in Threads, Load(t) PROVE CountInv'
        BY <2>0, <2>8 DEF Load, Goes, state, locals, ghost, CountInv, CountsBounded, RefusedLate
    <2>9. ASSUME NEW t \in Threads, Store(t) PROVE CountInv'
        BY <2>0, <2>9 DEF Store, Goes, state, locals, ghost, CountInv, CountsBounded, RefusedLate
    <2>10. ASSUME NEW t \in Threads, EncryptFirst(t) PROVE CountInv'
        BY <2>0, <2>10 DEF EncryptFirst, Goes, state, locals, ghost, CountInv, CountsBounded, RefusedLate
    <2>11. ASSUME NEW t \in Threads, EncryptNumber(t) PROVE CountInv'
        <3>1. /\ number' = [number EXCEPT ![t] = BlockOf(t)]
              /\ UNCHANGED <<reseed_counter, read, served>>
            BY <2>11 DEF EncryptNumber, state, ghost
        <3>2. BlockOf(t) # Error
            BY <2>11, BlockType, NumbersAssumption DEF EncryptNumber, Goes
        <3> QED BY <2>0, <3>1, <3>2 DEF CountInv, CountsBounded, RefusedLate
    <2>12. ASSUME NEW t \in Threads, StoreAgain(t) PROVE CountInv'
        BY <2>0, <2>12 DEF StoreAgain, Goes, state, locals, ghost, CountInv, CountsBounded, RefusedLate
    <2>13. ASSUME NEW t \in Threads, EncryptNext(t) PROVE CountInv'
        BY <2>0, <2>13 DEF EncryptNext, Goes, state, locals, ghost, CountInv, CountsBounded, RefusedLate
    <2>14. ASSUME NEW t \in Threads, Count(t) PROVE CountInv'
        BY <2>0, <2>14 DEF Count, Goes, state, locals, ghost, CountInv, CountsBounded, RefusedLate
    <2>15. ASSUME NEW t \in Threads, Counted(t) PROVE CountInv'
        <3>1. /\ reseed_counter' = read[t] + 1 /\ read' = [read EXCEPT ![t] = 0]
              /\ served' = served + 1 /\ number' = number
            BY <2>15 DEF Counted
        <3>2. CountsBounded'
            BY <2>0, <3>1 DEF CountInv, CountsBounded
        <3>3. RefusedLate'
            BY <2>0, <3>1 DEF CountInv, RefusedLate
        <3> QED BY <3>2, <3>3 DEF CountInv
    <2>16. CASE UNCHANGED vars
        BY <2>16 DEF vars, state, locals, ghost, CountInv, CountsBounded, RefusedLate
    <2> QED BY <2>1, <2>2, <2>3, <2>4, <2>5, <2>6, <2>7, <2>8, <2>9, <2>10, <2>11, <2>12, <2>13, <2>14, <2>15, <2>16 DEF Next
<1> QED BY <1>1, <1>2

\* However many increments the races delay, a call is refused only after
\* kMaxReseedCount numbers were counted.
THEOREM RefusalIsLate == Spec => []RefusedLate
<1>1. CountInv => RefusedLate
    BY DEF CountInv
<1> QED BY <1>1, TypeInvHolds, CountInvInductive, PTL DEF Spec

-----------------------------------------------------------------------------
\* AloneIsFresh: while no other thread is in a call, the state at each place of a
\* call is a function of the call's own seed.
AtPlace(t) ==
    LET m == seed[t]
    IN  /\ pc[t] \in {"key 1", "key 2", "set counter"} => material[t] = m
        /\ pc[t] \in {"key 2", "set counter"} => ks.first = m
        /\ pc[t] \in {"set counter", "reseeded", "check", "load", "store", "encrypt 1", "encrypt 2"} =>
              ks.rest = m
        /\ pc[t] \in {"reseeded", "check", "load", "store", "encrypt 1"} => ks.first = m
        /\ pc[t] \in {"reseeded", "check", "load", "store"} => counter = Counter(m, 0)
        /\ pc[t] = "store" => word[t] = [of |-> m, n |-> 0]
        /\ pc[t] = "encrypt 1" => counter = Counter(m, 1)
        /\ pc[t] = "encrypt 2" => begun[t] = [first |-> m, ctr |-> Counter(m, 1)]

NoNumberYet(t) == pc[t] \in {"key 1", "key 2", "set counter", "reseeded", "check"}
NumberDrawn(t) == pc[t] \in {"load again", "store again", "rekey 1", "rekey 2",
                             "reset counter", "count", "counted"}

Fresh(t) ==
    seed[t] # NULL =>
      /\ seed[t] \in Memories
      /\ \A u \in Threads \ {t} : pc[u] = "idle"
      /\ number[t] \in {NULL, Error, FirstBlock(seed[t])}
      /\ number[t] = Error => pc[t] = "idle"
      /\ NoNumberYet(t) => number[t] = NULL
      /\ NumberDrawn(t) => number[t] # NULL
      /\ number[t] = NULL => AtPlace(t)

FreshInv == \A t \in Threads : Fresh(t)

LEMMA FirstCount ==
    ASSUME NEW m PROVE Add([of |-> m, n |-> 0], 1) = [of |-> m, n |-> 1]
<1>1. (0 + 1) % CtrMod = 1
    BY NumbersAssumption
<1> QED BY <1>1 DEF Add

LEMMA FirstBlockType ==
    ASSUME NEW m \in Memories PROVE FirstBlock(m) \in Blocks
BY NumbersAssumption
DEF FirstBlock, Block, Schedule, Counter, Blocks, Schedules, Counters, Words, Values

LEMMA FreshInvInductive ==
    /\ Init => FreshInv
    /\ TypeInv /\ FreshInv /\ [Next]_vars => FreshInv'
<1>1. Init => FreshInv
    BY DEF Init, FreshInv, Fresh
<1>2. TypeInv /\ FreshInv /\ [Next]_vars => FreshInv'
    <2> SUFFICES ASSUME TypeInv, FreshInv, [Next]_vars PROVE FreshInv'
        OBVIOUS
    <2>0. /\ DOMAIN pc = Threads /\ material \in [Threads -> Values]
          /\ ks \in Schedules /\ counter \in Counters
          /\ word \in [Threads -> Words \cup {NULL}]
          /\ begun \in [Threads -> [first : Values, ctr : Counters] \cup {NULL}]
          /\ DOMAIN number = Threads
        BY DEF TypeInv, Types, TypeOK
    <2>1. ASSUME NEW t \in Threads, Call(t) PROVE FreshInv'
        <3>1. PICK m \in Memories :
                 /\ material' = [material EXCEPT ![t] = m]
                 /\ seed' = [u \in Threads |-> IF u = t /\ InCall = {} THEN m ELSE NULL]
            BY <2>1 DEF Call
        <3>2. \A u \in Threads : seed'[u] # NULL => u = t /\ InCall = {} /\ seed'[u] = m
            BY <3>1, Zenon
        <3>3. pc[t] = "idle" /\ pc' = [pc EXCEPT ![t] = "key 1"]
            BY <2>1 DEF Call, Goes
        <3>4. number'[t] = NULL
            BY <2>1, <3>3, Zenon DEF Call, InCall
        <3>5. ASSUME NEW u \in Threads, seed'[u] # NULL PROVE Fresh(u)'
            <4>1. u = t /\ seed'[t] = m /\ InCall = {}
                BY <3>2, <3>5
            <4>2. \A x \in Threads : pc[x] = "idle"
                BY <4>1 DEF InCall
            <4>3. pc'[t] = "key 1" /\ \A x \in Threads \ {t} : pc'[x] = "idle"
                BY <2>0, <3>3, <4>2
            <4>4. NULL # Error
                BY NumbersAssumption
            <4>5. material'[t] = m
                BY <2>0, <3>1
            <4> QED BY <3>4, <4>1, <4>3, <4>4, <4>5 DEF Fresh, AtPlace, NoNumberYet, NumberDrawn
        <3> QED BY <3>5 DEF FreshInv, Fresh
    <2>2. ASSUME NEW t \in Threads, KeyFirst(t) PROVE FreshInv'
        <3> SUFFICES ASSUME NEW u \in Threads, seed[u] # NULL, seed' = seed PROVE Fresh(u)'
            BY <2>2 DEF KeyFirst, ghost, FreshInv, Fresh
        <3>1. /\ u = t /\ seed[t] \in Memories
              /\ \A x \in Threads \ {t} : pc[x] = "idle"
            BY <2>2 DEF KeyFirst, Goes, FreshInv, Fresh
        <3>2. \A x \in Threads \ {t} : pc'[x] = "idle"
            BY <2>0, <2>2, <3>1 DEF KeyFirst, Goes
        <3> QED BY <2>0, <2>2, <3>1, <3>2, NumbersAssumption DEF KeyFirst, Goes, state, locals, ghost, FreshInv, Fresh, AtPlace, NoNumberYet, NumberDrawn, Schedules
    <2>3. ASSUME NEW t \in Threads, KeyRest(t) PROVE FreshInv'
        <3> SUFFICES ASSUME NEW u \in Threads, seed[u] # NULL, seed' = seed PROVE Fresh(u)'
            BY <2>3 DEF KeyRest, ghost, FreshInv, Fresh
        <3>1. /\ u = t /\ seed[t] \in Memories
              /\ \A x \in Threads \ {t} : pc[x] = "idle"
            BY <2>3 DEF KeyRest, Goes, FreshInv, Fresh
        <3>2. \A x \in Threads \ {t} : pc'[x] = "idle"
            BY <2>0, <2>3, <3>1 DEF KeyRest, Goes
        <3> QED BY <2>0, <2>3, <3>1, <3>2, NumbersAssumption DEF KeyRest, Goes, state, locals, ghost, FreshInv, Fresh, AtPlace, NoNumberYet, NumberDrawn, Schedules
    <2>4. ASSUME NEW t \in Threads, SetCounter(t) PROVE FreshInv'
        <3> SUFFICES ASSUME NEW u \in Threads, seed[u] # NULL, seed' = seed PROVE Fresh(u)'
            BY <2>4 DEF SetCounter, ghost, FreshInv, Fresh
        <3>1. /\ u = t /\ seed[t] \in Memories
              /\ \A x \in Threads \ {t} : pc[x] = "idle"
            BY <2>4 DEF SetCounter, Goes, FreshInv, Fresh
        <3>2. \A x \in Threads \ {t} : pc'[x] = "idle"
            BY <2>0, <2>4, <3>1 DEF SetCounter, Goes
        <3>3. /\ counter' = Counter(material[t], 0) /\ pc[t] \in {"set counter", "reset counter"}
              /\ pc' = [pc EXCEPT ![t] = IF @ = "set counter" THEN "reseeded" ELSE "count"]
              /\ UNCHANGED <<ks, material, word, begun, number>>
            BY <2>4 DEF SetCounter, CounterOf, Goes, locals
        <3> QED BY <2>0, <3>1, <3>2, <3>3 DEF FreshInv, Fresh, AtPlace, NoNumberYet, NumberDrawn
    <2>5. ASSUME NEW t \in Threads, Reseeded(t) PROVE FreshInv'
        <3> SUFFICES ASSUME NEW u \in Threads, seed[u] # NULL, seed' = seed PROVE Fresh(u)'
            BY <2>5 DEF Reseeded, ghost, FreshInv, Fresh
        <3>1. /\ u = t /\ seed[t] \in Memories
              /\ \A x \in Threads \ {t} : pc[x] = "idle"
            BY <2>5 DEF Reseeded, Goes, FreshInv, Fresh
        <3>2. \A x \in Threads \ {t} : pc'[x] = "idle"
            BY <2>0, <2>5, <3>1 DEF Reseeded, Goes
        <3> QED BY <2>0, <2>5, <3>1, <3>2, NumbersAssumption DEF Reseeded, Goes, state, locals, ghost, FreshInv, Fresh, AtPlace, NoNumberYet, NumberDrawn
    <2>6. ASSUME NEW t \in Threads, Refused(t) PROVE FreshInv'
        <3> SUFFICES ASSUME NEW u \in Threads, seed[u] # NULL, seed' = seed PROVE Fresh(u)'
            BY <2>6 DEF Refused, ghost, FreshInv, Fresh
        <3>1. /\ u = t /\ seed[t] \in Memories
              /\ \A x \in Threads \ {t} : pc[x] = "idle"
            BY <2>6 DEF Refused, Goes, FreshInv, Fresh
        <3>2. \A x \in Threads \ {t} : pc'[x] = "idle"
            BY <2>0, <2>6, <3>1 DEF Refused, Goes
        <3> QED BY <2>0, <2>6, <3>1, <3>2, NumbersAssumption DEF Refused, Goes, state, locals, ghost, FreshInv, Fresh, AtPlace, NoNumberYet, NumberDrawn
    <2>7. ASSUME NEW t \in Threads, Accepted(t) PROVE FreshInv'
        <3> SUFFICES ASSUME NEW u \in Threads, seed[u] # NULL, seed' = seed PROVE Fresh(u)'
            BY <2>7 DEF Accepted, ghost, FreshInv, Fresh
        <3>1. /\ u = t /\ seed[t] \in Memories
              /\ \A x \in Threads \ {t} : pc[x] = "idle"
            BY <2>7 DEF Accepted, Goes, FreshInv, Fresh
        <3>2. \A x \in Threads \ {t} : pc'[x] = "idle"
            BY <2>0, <2>7, <3>1 DEF Accepted, Goes
        <3> QED BY <2>0, <2>7, <3>1, <3>2, NumbersAssumption DEF Accepted, Goes, state, locals, ghost, FreshInv, Fresh, AtPlace, NoNumberYet, NumberDrawn
    <2>8. ASSUME NEW t \in Threads, Load(t) PROVE FreshInv'
        <3> SUFFICES ASSUME NEW u \in Threads, seed[u] # NULL, seed' = seed PROVE Fresh(u)'
            BY <2>8 DEF Load, ghost, FreshInv, Fresh
        <3>1. /\ u = t /\ seed[t] \in Memories
              /\ \A x \in Threads \ {t} : pc[x] = "idle"
            BY <2>8 DEF Load, Goes, FreshInv, Fresh
        <3>2. \A x \in Threads \ {t} : pc'[x] = "idle"
            BY <2>0, <2>8, <3>1 DEF Load, Goes
        <3>3. counter = Counter(seed[t], 0) => counter.last = [of |-> seed[t], n |-> 0]
            BY DEF Counter
        <3> QED BY <2>0, <2>8, <3>1, <3>2, <3>3 DEF Load, Goes, state, locals, ghost, FreshInv, Fresh, AtPlace, NoNumberYet, NumberDrawn
    <2>9. ASSUME NEW t \in Threads, Store(t) PROVE FreshInv'
        <3> SUFFICES ASSUME NEW u \in Threads, seed[u] # NULL, seed' = seed PROVE Fresh(u)'
            BY <2>9 DEF Store, ghost, FreshInv, Fresh
        <3>1. /\ u = t /\ seed[t] \in Memories
              /\ \A x \in Threads \ {t} : pc[x] = "idle"
            BY <2>9 DEF Store, Goes, FreshInv, Fresh
        <3>2. \A x \in Threads \ {t} : pc'[x] = "idle"
            BY <2>0, <2>9, <3>1 DEF Store, Goes
        <3>3. counter = Counter(seed[t], 0) /\ word[t] = [of |-> seed[t], n |-> 0]
                 => [counter EXCEPT !.last = Add(word[t], 1)] = Counter(seed[t], 1)
            BY FirstCount DEF Counter
        <3> QED BY <2>0, <2>9, <3>1, <3>2, <3>3 DEF Store, Goes, state, locals, ghost, FreshInv, Fresh, AtPlace, NoNumberYet, NumberDrawn
    <2>10. ASSUME NEW t \in Threads, EncryptFirst(t) PROVE FreshInv'
        <3> SUFFICES ASSUME NEW u \in Threads, seed[u] # NULL, seed' = seed PROVE Fresh(u)'
            BY <2>10 DEF EncryptFirst, ghost, FreshInv, Fresh
        <3>1. /\ u = t /\ seed[t] \in Memories
              /\ \A x \in Threads \ {t} : pc[x] = "idle"
            BY <2>10 DEF EncryptFirst, Goes, FreshInv, Fresh
        <3>2. \A x \in Threads \ {t} : pc'[x] = "idle"
            BY <2>0, <2>10, <3>1 DEF EncryptFirst, Goes
        <3> QED BY <2>0, <2>10, <3>1, <3>2, NumbersAssumption DEF EncryptFirst, Goes, state, locals, ghost, FreshInv, Fresh, AtPlace, NoNumberYet, NumberDrawn
    <2>11. ASSUME NEW t \in Threads, EncryptNumber(t) PROVE FreshInv'
        <3> SUFFICES ASSUME NEW u \in Threads, seed[u] # NULL, seed' = seed PROVE Fresh(u)'
            BY <2>11 DEF EncryptNumber, ghost, FreshInv, Fresh
        <3>1. /\ u = t /\ seed[t] \in Memories
              /\ \A x \in Threads \ {t} : pc[x] = "idle"
            BY <2>11 DEF EncryptNumber, Goes, FreshInv, Fresh
        <3>2. \A x \in Threads \ {t} : pc'[x] = "idle"
            BY <2>0, <2>11, <3>1 DEF EncryptNumber, Goes
        <3>3. /\ pc[t] = "encrypt 2" /\ number[t] = NULL
              /\ number' = [number EXCEPT ![t] = BlockOf(t)]
              /\ pc'[t] \in {"load again", "load"}
            BY <2>0, <2>11 DEF EncryptNumber, Goes
        <3>4. BlockOf(t) = FirstBlock(seed[t])
            <4>1. begun[t] = [first |-> seed[t], ctr |-> Counter(seed[t], 1)] /\ ks.rest = seed[t]
                BY <3>1, <3>3 DEF FreshInv, Fresh, AtPlace
            <4> QED BY <4>1 DEF BlockOf, FirstBlock, Block, Schedule
        <3>5. FirstBlock(seed[t]) \notin {NULL, Error}
            BY <3>1, FirstBlockType, NumbersAssumption
        <3>6. number'[t] = FirstBlock(seed[t])
            BY <2>0, <3>3, <3>4
        <3> QED BY <3>1, <3>2, <3>3, <3>5, <3>6 DEF FreshInv, Fresh, AtPlace, NoNumberYet, NumberDrawn
    <2>12. ASSUME NEW t \in Threads, StoreAgain(t) PROVE FreshInv'
        <3> SUFFICES ASSUME NEW u \in Threads, seed[u] # NULL, seed' = seed PROVE Fresh(u)'
            BY <2>12 DEF StoreAgain, ghost, FreshInv, Fresh
        <3>1. /\ u = t /\ seed[t] \in Memories
              /\ \A x \in Threads \ {t} : pc[x] = "idle"
            BY <2>12 DEF StoreAgain, Goes, FreshInv, Fresh
        <3>2. \A x \in Threads \ {t} : pc'[x] = "idle"
            BY <2>0, <2>12, <3>1 DEF StoreAgain, Goes
        <3> QED BY <2>0, <2>12, <3>1, <3>2, NumbersAssumption DEF StoreAgain, Goes, state, locals, ghost, FreshInv, Fresh, AtPlace, NoNumberYet, NumberDrawn
    <2>13. ASSUME NEW t \in Threads, EncryptNext(t) PROVE FreshInv'
        <3> SUFFICES ASSUME NEW u \in Threads, seed[u] # NULL, seed' = seed PROVE Fresh(u)'
            BY <2>13 DEF EncryptNext, ghost, FreshInv, Fresh
        <3>1. /\ u = t /\ seed[t] \in Memories
              /\ \A x \in Threads \ {t} : pc[x] = "idle"
            BY <2>13 DEF EncryptNext, Goes, FreshInv, Fresh
        <3>2. \A x \in Threads \ {t} : pc'[x] = "idle"
            BY <2>0, <2>13, <3>1 DEF EncryptNext, Goes
        <3> QED BY <2>0, <2>13, <3>1, <3>2, NumbersAssumption DEF EncryptNext, Goes, state, locals, ghost, FreshInv, Fresh, AtPlace, NoNumberYet, NumberDrawn
    <2>14. ASSUME NEW t \in Threads, Count(t) PROVE FreshInv'
        <3> SUFFICES ASSUME NEW u \in Threads, seed[u] # NULL, seed' = seed PROVE Fresh(u)'
            BY <2>14 DEF Count, ghost, FreshInv, Fresh
        <3>1. /\ u = t /\ seed[t] \in Memories
              /\ \A x \in Threads \ {t} : pc[x] = "idle"
            BY <2>14 DEF Count, Goes, FreshInv, Fresh
        <3>2. \A x \in Threads \ {t} : pc'[x] = "idle"
            BY <2>0, <2>14, <3>1 DEF Count, Goes
        <3> QED BY <2>0, <2>14, <3>1, <3>2, NumbersAssumption DEF Count, Goes, state, locals, ghost, FreshInv, Fresh, AtPlace, NoNumberYet, NumberDrawn
    <2>15. ASSUME NEW t \in Threads, Counted(t) PROVE FreshInv'
        <3> SUFFICES ASSUME NEW u \in Threads, seed[u] # NULL, seed' = seed PROVE Fresh(u)'
            BY <2>15 DEF Counted, ghost, FreshInv, Fresh
        <3>1. /\ u = t /\ seed[t] \in Memories
              /\ \A x \in Threads \ {t} : pc[x] = "idle"
            BY <2>15 DEF Counted, Goes, FreshInv, Fresh
        <3>2. \A x \in Threads \ {t} : pc'[x] = "idle"
            BY <2>0, <2>15, <3>1 DEF Counted, Goes
        <3> QED BY <2>0, <2>15, <3>1, <3>2, NumbersAssumption DEF Counted, Goes, state, locals, ghost, FreshInv, Fresh, AtPlace, NoNumberYet, NumberDrawn
    <2>16. CASE UNCHANGED vars
        BY <2>16 DEF vars, state, locals, ghost, FreshInv, Fresh, AtPlace, NoNumberYet, NumberDrawn
    <2> QED BY <2>1, <2>2, <2>3, <2>4, <2>5, <2>6, <2>7, <2>8, <2>9, <2>10, <2>11, <2>12, <2>13, <2>14, <2>15, <2>16 DEF Next
<1> QED BY <1>1, <1>2

\* Whatever races ran before it, a call that no other overlaps returns the first
\* block under the memory it was seeded with.
THEOREM AloneCallsAreFresh == Spec => []AloneIsFresh
<1>1. FreshInv => AloneIsFresh
    BY DEF FreshInv, Fresh, AloneIsFresh, Drawn
<1> QED BY <1>1, TypeInvHolds, FreshInvInductive, PTL DEF Spec
=============================================================================
