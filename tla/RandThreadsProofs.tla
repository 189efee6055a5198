------------------------- MODULE RandThreadsProofs -------------------------
(***************************************************************************)
(* Machine-checked proofs about RandThreads, for any number of threads and *)
(* calls and every reseed interval.  Invariant below is inductive.  What a *)
(* thread draws from is keyed because of where the thread got it: a heap   *)
(* state stays keyed until clear_all has the lock, which no reader has     *)
(* then; a state on the stack is keyed in its call only.                   *)
(*                                                                         *)
(* The second half is about the list: next and prev stay a double-linked   *)
(* list of the linked states, and clear_all, which walks it, reaches them  *)
(* all.  ListInv names the order of the states in the list and, once       *)
(* clear_all has the lock, how far in it the walk has come.                *)
(***************************************************************************)
EXTENDS RandThreads, FiniteSetTheorems, TLAPS

\* clear_all works, and afterwards stays, alone.
Alone == exit \in {"clears", "done"} => readers = {}

\* Which state a thread in a call works on.
StateChosen == \A t \in Threads :
    /\ pc[t] = "alloc" => ~tls[t] /\ ~onStack[t]
    /\ pc[t] = "link" => ~onStack[t]
    /\ pc[t] = "seed" /\ onStack[t] => ~tls[t]
    /\ pc[t] \in {"seed", "link", "enter", "generate"} /\ ~onStack[t] => tls[t]

HeapKeyed == exit \in {"no", "waits"} =>
    \A t \in Threads : tls[t] /\ pc[t] # "seed" => drbg[<<t, "heap">>] = "keyed"

StackKeyed == \A t \in Threads :
    drbg[<<t, "stack">>] = "keyed" <=> onStack[t] /\ pc[t] \in {"enter", "generate"}

\* What a call has still to write fits under the bound.
CallsFit == \A t \in Threads :
    pc[t] = "generate" => calls[State(t)] + left[t] <= kReseedInterval - 1 + MaxChunks

Invariant == TypeOK /\ Alone /\ StateChosen /\ HeapKeyed /\ StackKeyed

LEMMA InitInvariant == Init => Invariant
BY RandAssumption DEF Init, Invariant, TypeOK, Alone, StateChosen, HeapKeyed, StackKeyed, Places

LEMMA TypeStep == Invariant /\ [Next]_vars => TypeOK'
<1> SUFFICES ASSUME Invariant, [Next]_vars PROVE TypeOK'
    OBVIOUS
<1> USE RandAssumption DEF Invariant, TypeOK, Places, State, Goes, list, lock, exiting
<1>1. CASE UNCHANGED vars
    BY <1>1 DEF vars
<1>2. ASSUME NEW t \in Threads, NEW chunks \in 1 .. MaxChunks, Call(t, chunks)
      PROVE TypeOK'
    BY <1>2 DEF Call
<1>3. ASSUME NEW t \in Threads, Alloc(t) PROVE TypeOK'
    BY <1>3 DEF Alloc
<1>4. ASSUME NEW t \in Threads, AllocFails(t) PROVE TypeOK'
    BY <1>4 DEF AllocFails
<1>5. ASSUME NEW t \in Threads, Seed(t) PROVE TypeOK'
    BY <1>5 DEF Seed
<1>6. ASSUME NEW t \in Threads, Link(t) PROVE TypeOK'
    BY <1>6 DEF Link, LinkIn, MayWrite
<1>7. ASSUME NEW t \in Threads, Enter(t) PROVE TypeOK'
    <2> DEFINE s == State(t)
    <2>0. s \in Threads \X {"heap", "stack"}
        OBVIOUS
    <2> HIDE DEF s
    <2>1. /\ drbg' \in [Threads \X {"heap", "stack"} -> {"raw", "keyed", "zero"}]
          /\ calls' \in [Threads \X {"heap", "stack"} -> Nat]
        <3>1. CASE Due(s)
            <4>1. drbg' = [drbg EXCEPT ![s] = "keyed"] /\ calls' = [calls EXCEPT ![s] = 0]
                BY <1>7, <3>1 DEF Enter, s
            <4> QED BY <2>0, <4>1
        <3>2. CASE ~Due(s)
            BY <1>7, <3>2 DEF Enter, s
        <3> QED BY <3>1, <3>2
    <2>2. /\ pc' \in [Threads -> {"idle", "alloc", "seed", "link", "enter", "generate",
                                 "unlink", "free"}]
          /\ readers' = {u \in Threads : pc'[u] = "generate"}
        BY <1>7 DEF Enter
    <2> QED BY <1>7, <2>1, <2>2 DEF Enter
<1>8. ASSUME NEW t \in Threads, Generate(t) PROVE TypeOK'
    BY <1>8 DEF Generate
<1>9. ASSUME NEW t \in Threads, Leave(t) PROVE TypeOK'
    BY <1>9 DEF Leave
<1>10. ASSUME NEW t \in Threads, ThreadEnds(t) PROVE TypeOK'
    BY <1>10 DEF ThreadEnds
<1>11. ASSUME NEW t \in Threads, UnlinkState(t) PROVE TypeOK'
    BY <1>11 DEF UnlinkState, Unlink, MayWrite
<1>12. ASSUME NEW t \in Threads, FreeState(t) PROVE TypeOK'
    BY <1>12 DEF FreeState
<1>13. CASE ExitCalled
    BY <1>13 DEF ExitCalled
<1>14. CASE ClearAll
    BY <1>14 DEF ClearAll, MayWrite
<1>15. CASE ClearOne
    BY <1>15 DEF ClearOne
<1>16. CASE ClearDone
    BY <1>16 DEF ClearDone
<1> QED BY <1>1, <1>2, <1>3, <1>4, <1>5, <1>6, <1>7, <1>8, <1>9, <1>10, <1>11,
           <1>12, <1>13, <1>14, <1>15, <1>16 DEF Next, InCall, InThreadExit, InExit

\* clear_all gets the lock when nobody reads, and no reader gets it afterwards.
LEMMA AloneStep == Invariant /\ [Next]_vars => Alone'
<1> SUFFICES ASSUME Invariant, [Next]_vars PROVE Alone'
    OBVIOUS
<1> USE DEF Alone
<1>1. CASE UNCHANGED <<exit, readers>>
    BY <1>1 DEF Invariant
<1>2. ASSUME NEW t \in Threads, Enter(t) PROVE Alone'
    BY <1>2, RandAssumption DEF Enter, MayRead, Invariant, TypeOK, exiting
<1>3. ASSUME NEW t \in Threads, Leave(t) PROVE Alone'
    BY <1>3 DEF Leave, Invariant, exiting
<1>4. CASE ExitCalled
    BY <1>4 DEF ExitCalled, Invariant
<1>5. CASE ClearAll
    BY <1>5 DEF ClearAll, MayWrite, Invariant
<1>6. CASE ClearOne \/ ClearDone
    BY <1>6 DEF ClearOne, ClearDone, Invariant, lock
<1>7. CASE UNCHANGED vars
    BY <1>1, <1>7 DEF vars, lock, exiting
<1>8. ASSUME NEW t \in Threads, NEW chunks \in 1 .. MaxChunks,
             \/ Call(t, chunks) \/ Alloc(t) \/ AllocFails(t) \/ Seed(t) \/ Link(t)
             \/ Generate(t) \/ ThreadEnds(t) \/ UnlinkState(t) \/ FreeState(t)
      PROVE  Alone'
    BY <1>1, <1>8 DEF Call, Alloc, AllocFails, Seed, Link, Generate, ThreadEnds,
                      UnlinkState, FreeState, lock, exiting
<1>9. 1 \in 1 .. MaxChunks
    BY RandAssumption
<1> QED BY <1>2, <1>3, <1>4, <1>5, <1>6, <1>7, <1>8, <1>9
           DEF Next, InCall, InThreadExit, InExit

\* A thread chooses its state at the start of a call and keeps it to the end.
LEMMA StateChosenStep == Invariant /\ [Next]_vars => StateChosen'
<1> SUFFICES ASSUME Invariant, [Next]_vars PROVE StateChosen'
    OBVIOUS
<1> USE DEF StateChosen, Invariant, TypeOK, Goes
<1>1. CASE UNCHANGED <<pc, tls, onStack>>
    BY <1>1
<1>2. ASSUME NEW t \in Threads, NEW chunks \in 1 .. MaxChunks, Call(t, chunks)
      PROVE StateChosen'
    BY <1>2 DEF Call
<1>3. ASSUME NEW t \in Threads, Alloc(t) \/ AllocFails(t)
      PROVE StateChosen'
    BY <1>3 DEF Alloc, AllocFails
<1>4. ASSUME NEW t \in Threads, Seed(t) \/ Link(t) \/ Enter(t)
      PROVE StateChosen'
    BY <1>4 DEF Seed, Link, Enter
<1>5. ASSUME NEW t \in Threads,
             Leave(t) \/ ThreadEnds(t) \/ UnlinkState(t) \/ FreeState(t)
      PROVE StateChosen'
    BY <1>5 DEF Leave, ThreadEnds, UnlinkState, FreeState
<1>6. ASSUME NEW t \in Threads, Generate(t) PROVE StateChosen'
    BY <1>1, <1>6 DEF Generate
<1>7. CASE ExitCalled \/ ClearAll \/ ClearOne \/ ClearDone
    BY <1>1, <1>7 DEF ExitCalled, ClearAll, ClearOne, ClearDone
<1>8. CASE UNCHANGED vars
    BY <1>1, <1>8 DEF vars
<1> QED BY <1>2, <1>3, <1>4, <1>5, <1>6, <1>7, <1>8
           DEF Next, InCall, InThreadExit, InExit

\* A heap state is zeroed by clear_all, or by its own thread, which then has none.
LEMMA HeapKeyedStep == Invariant /\ [Next]_vars => HeapKeyed'
<1> SUFFICES ASSUME Invariant, [Next]_vars, exit' \in {"no", "waits"}
             PROVE  \A u \in Threads :
                        tls'[u] /\ pc'[u] # "seed" => drbg'[<<u, "heap">>] = "keyed"
    BY DEF HeapKeyed
<1> USE DEF HeapKeyed, Invariant, TypeOK, Goes, Places, exiting
<1>1. CASE UNCHANGED <<pc, tls, drbg, exit>>
    BY <1>1
<1>2. ASSUME NEW t \in Threads, NEW chunks \in 1 .. MaxChunks, Call(t, chunks)
      PROVE  \A u \in Threads :
                 tls'[u] /\ pc'[u] # "seed" => drbg'[<<u, "heap">>] = "keyed"
    BY <1>2 DEF Call
<1>3. ASSUME NEW t \in Threads, Alloc(t) \/ AllocFails(t)
      PROVE  \A u \in Threads :
                 tls'[u] /\ pc'[u] # "seed" => drbg'[<<u, "heap">>] = "keyed"
    BY <1>3 DEF Alloc, AllocFails
<1>4. ASSUME NEW t \in Threads, Seed(t)
      PROVE  \A u \in Threads :
                 tls'[u] /\ pc'[u] # "seed" => drbg'[<<u, "heap">>] = "keyed"
    <2>1. CASE onStack[t]
        BY <1>4, <2>1 DEF Seed, State, StateChosen
    <2>2. CASE ~onStack[t]
        BY <1>4, <2>2 DEF Seed, State
    <2> QED BY <2>1, <2>2
<1>5. ASSUME NEW t \in Threads, Link(t) \/ ThreadEnds(t) \/ UnlinkState(t)
      PROVE  \A u \in Threads :
                 tls'[u] /\ pc'[u] # "seed" => drbg'[<<u, "heap">>] = "keyed"
    BY <1>5 DEF Link, ThreadEnds, UnlinkState
<1>6. ASSUME NEW t \in Threads, Enter(t)
      PROVE  \A u \in Threads :
                 tls'[u] /\ pc'[u] # "seed" => drbg'[<<u, "heap">>] = "keyed"
    <2>1. drbg' = drbg \/ drbg' = [drbg EXCEPT ![State(t)] = "keyed"]
        BY <1>6 DEF Enter
    <2>2. \A u \in Threads : drbg[<<u, "heap">>] = "keyed" => drbg'[<<u, "heap">>] = "keyed"
        BY <2>1 DEF State
    <2> QED BY <1>6, <2>2 DEF Enter
<1>7. ASSUME NEW t \in Threads, Leave(t)
      PROVE  \A u \in Threads :
                 tls'[u] /\ pc'[u] # "seed" => drbg'[<<u, "heap">>] = "keyed"
    BY <1>7 DEF Leave, State
<1>8. ASSUME NEW t \in Threads, FreeState(t)
      PROVE  \A u \in Threads :
                 tls'[u] /\ pc'[u] # "seed" => drbg'[<<u, "heap">>] = "keyed"
    BY <1>8 DEF FreeState
<1>9. ASSUME NEW t \in Threads, Generate(t)
      PROVE  UNCHANGED <<pc, tls, drbg, exit>>
    BY <1>9 DEF Generate
<1>10. CASE ExitCalled
    BY <1>10 DEF ExitCalled
<1>11. ClearAll \/ ClearOne \/ ClearDone => exit' \notin {"no", "waits"}
    BY DEF ClearAll, ClearOne, ClearDone
<1>12. CASE UNCHANGED vars
    BY <1>1, <1>12 DEF vars
<1> QED BY <1>1, <1>2, <1>3, <1>4, <1>5, <1>6, <1>7, <1>8, <1>9, <1>10, <1>11, <1>12
           DEF Next, InCall, InThreadExit, InExit

\* The state on a stack is keyed from the seed of its call to the end of it.
LEMMA StackKeyedStep == Invariant /\ [Next]_vars => StackKeyed'
<1> SUFFICES ASSUME Invariant, [Next]_vars PROVE StackKeyed'
    OBVIOUS
<1>. /\ pc \in [Threads -> {"idle", "alloc", "seed", "link", "enter", "generate",
                            "unlink", "free"}]
     /\ tls \in [Threads -> BOOLEAN] /\ onStack \in [Threads -> BOOLEAN]
     /\ drbg \in [Places -> {"raw", "keyed", "zero"}]
     /\ cur \in Threads \cup {NULL} /\ StateChosen /\ StackKeyed
    BY DEF Invariant, TypeOK
<1> USE DEF StackKeyed, Goes, Places
<1>1. CASE UNCHANGED <<pc, onStack, drbg>>
    BY <1>1
<1>2. ASSUME NEW t \in Threads, NEW chunks \in 1 .. MaxChunks, Call(t, chunks)
      PROVE StackKeyed'
    <2>1. /\ pc[t] = "idle" /\ pc'[t] \in {"enter", "alloc"} /\ ~onStack'[t]
          /\ \A u \in Threads \ {t} : pc'[u] = pc[u] /\ onStack'[u] = onStack[u]
        BY <1>2 DEF Call
    <2>2. drbg' = drbg
        BY <1>2 DEF Call
    <2>3. drbg[<<t, "stack">>] # "keyed"
        BY <2>1
    <2>4. ASSUME NEW u \in Threads \ {t}
          PROVE  drbg'[<<u, "stack">>] = "keyed"
                   <=> onStack'[u] /\ pc'[u] \in {"enter", "generate"}
        BY <2>1, <2>2
    <2> QED BY <2>1, <2>2, <2>3, <2>4
<1>3. ASSUME NEW t \in Threads, Alloc(t) \/ AllocFails(t)
      PROVE StackKeyed'
    BY <1>3 DEF Alloc, AllocFails
<1>4. ASSUME NEW t \in Threads, Seed(t) PROVE StackKeyed'
    <2>1. /\ pc[t] = "seed" /\ onStack' = onStack
          /\ pc'[t] = IF onStack[t] THEN "enter" ELSE "link"
          /\ \A u \in Threads \ {t} : pc'[u] = pc[u]
        BY <1>4 DEF Seed
    <2>2. drbg' = [drbg EXCEPT ![State(t)] = "keyed"]
        BY <1>4 DEF Seed
    <2>3. \A u \in Threads \ {t} : drbg'[<<u, "stack">>] = drbg[<<u, "stack">>]
        BY <2>2 DEF State
    <2>4. onStack[t] => drbg'[<<t, "stack">>] = "keyed"
        BY <2>2 DEF State
    <2>5. ~onStack[t] => drbg'[<<t, "stack">>] = drbg[<<t, "stack">>]
        BY <2>2 DEF State
    <2>6. ASSUME NEW u \in Threads \ {t}
          PROVE  drbg'[<<u, "stack">>] = "keyed"
                   <=> onStack'[u] /\ pc'[u] \in {"enter", "generate"}
        BY <2>1, <2>3
    <2>7. drbg'[<<t, "stack">>] = "keyed"
            <=> onStack'[t] /\ pc'[t] \in {"enter", "generate"}
        BY <2>1, <2>4, <2>5
    <2> QED BY <2>6, <2>7
<1>5. ASSUME NEW t \in Threads, Link(t) \/ ThreadEnds(t) \/ UnlinkState(t)
      PROVE StackKeyed'
    <2>1. /\ drbg' = drbg /\ onStack' = onStack /\ pc[t] \in {"link", "idle", "unlink"}
          /\ pc' = [pc EXCEPT ![t] = pc'[t]] /\ pc'[t] \in {"enter", "unlink", "free"}
          /\ pc'[t] = "enter" => pc[t] = "link"
        BY <1>5 DEF Link, ThreadEnds, UnlinkState
    <2>2. pc[t] = "link" => ~onStack[t]
        BY DEF StateChosen
    <2> QED BY <2>1, <2>2
<1>6. ASSUME NEW t \in Threads, Enter(t) PROVE StackKeyed'
    <2>1. drbg' = drbg \/ drbg' = [drbg EXCEPT ![State(t)] = "keyed"]
        BY <1>6 DEF Enter
    <2>2. pc[t] = "enter" /\ pc' = [pc EXCEPT ![t] = "generate"] /\ onStack' = onStack
        BY <1>6 DEF Enter
    <2>3. onStack[t] => drbg[State(t)] = "keyed"
        BY <2>2 DEF State
    <2>4. \A u \in Threads :
            drbg'[<<u, "stack">>] = "keyed" <=> drbg[<<u, "stack">>] = "keyed"
        <3>1. CASE onStack[t]
            <4>1. drbg[State(t)] = "keyed"
                BY <2>3, <3>1
            <4>2. drbg' = drbg
                BY <2>1, <4>1
            <4> QED BY <4>2
        <3>2. CASE ~onStack[t]
            BY <2>1, <3>2 DEF State
        <3> QED BY <3>1, <3>2
    <2> QED BY <2>2, <2>4
<1>7. ASSUME NEW t \in Threads, Leave(t) PROVE StackKeyed'
    BY <1>7 DEF Leave, State
<1>8. ASSUME NEW t \in Threads, FreeState(t) PROVE StackKeyed'
    BY <1>8 DEF FreeState
<1>9. ASSUME NEW t \in Threads, Generate(t) PROVE UNCHANGED <<pc, onStack, drbg>>
    BY <1>9 DEF Generate
<1>10. CASE ExitCalled \/ ClearAll \/ ClearDone
    BY <1>1, <1>10 DEF ExitCalled, ClearAll, ClearDone
<1>11. CASE ClearOne
    BY <1>11 DEF ClearOne
<1>12. CASE UNCHANGED vars
    BY <1>1, <1>12 DEF vars
<1> QED BY <1>1, <1>2, <1>3, <1>4, <1>5, <1>6, <1>7, <1>8, <1>9, <1>10, <1>11, <1>12
           DEF Next, InCall, InThreadExit, InExit

LEMMA SpecInvariant == Spec => []Invariant
<1>1. Invariant /\ [Next]_vars => Invariant'
    BY TypeStep, AloneStep, StateChosenStep, HeapKeyedStep, StackKeyedStep DEF Invariant
<1> QED BY InitInvariant, <1>1, PTL DEF Spec

-----------------------------------------------------------------------------
\* The variables of RAND_bytes, of the list and of its lock keep their types, and
\* the readers of the lock are the threads that generate, with any number of
\* threads starting, ending and exiting.
THEOREM TypeCorrect == Spec => []TypeOK
<1>1. Invariant => TypeOK
    BY DEF Invariant
<1> QED BY SpecInvariant, <1>1, PTL

\* rand.c:294: with any number of threads, no byte comes from a generator that is
\* zeroed, freed or not yet seeded, whenever the process exits.
THEOREM OutputIsKeyed == Spec => []GeneratesKeyed
<1>1. Invariant => GeneratesKeyed
    <2> SUFFICES ASSUME Invariant, NEW t \in Threads, pc[t] = "generate"
                 PROVE  drbg[State(t)] = "keyed"
        BY DEF GeneratesKeyed
    <2>1. exit \in {"no", "waits"}
        BY DEF Invariant, TypeOK, Alone
    <2>2. CASE onStack[t]
        BY <2>2 DEF Invariant, StackKeyed, State
    <2>3. CASE ~onStack[t]
        BY <2>1, <2>3 DEF Invariant, StateChosen, HeapKeyed, State
    <2> QED BY <2>2, <2>3
<1> QED BY SpecInvariant, <1>1, PTL

\* A state on a stack is left without a key by every call.
THEOREM StackIsClean == Spec => []StackLeftClean
<1>1. Invariant => StackLeftClean
    BY DEF Invariant, StackKeyed, StackLeftClean
<1> QED BY SpecInvariant, <1>1, PTL

-----------------------------------------------------------------------------
\* CallsBounded is kept by Invariant with CallsFit: a call that enters has at most
\* MaxChunks to write, on top of fewer than kReseedInterval.
Bounded == CallsFit /\ CallsBounded

LEMMA BoundedInit == Init => Bounded
BY RandAssumption DEF Init, Bounded, CallsFit, CallsBounded, Places

LEMMA BoundedStep == Invariant /\ Bounded /\ [Next]_vars => Bounded'
<1> SUFFICES ASSUME Invariant, Bounded, [Next]_vars PROVE Bounded'
    OBVIOUS
<1> DEFINE limit == kReseedInterval - 1 + MaxChunks
<1>0. limit \in Nat /\ MaxChunks <= limit /\ kReseedInterval \in Nat /\ MaxChunks \in Nat
    BY RandAssumption
<1>1. ASSUME calls' = calls, left' = left,
             \A u \in Threads : pc'[u] = "generate" =>
                                 pc[u] = "generate" /\ onStack'[u] = onStack[u]
      PROVE  Bounded'
    BY <1>1 DEF Bounded, CallsFit, CallsBounded, State
<1>2. ASSUME NEW t \in Threads, NEW chunks \in 1 .. MaxChunks, Call(t, chunks)
      PROVE  Bounded'
    BY <1>2 DEF Call, Goes, Bounded, CallsFit, CallsBounded, State, Invariant, TypeOK
<1>3. ASSUME NEW t \in Threads, Seed(t) PROVE Bounded'
    <2>1. \A u \in Threads : pc[u] = "generate" => u # t
        BY <1>3 DEF Seed
    <2>2. \A u \in Threads : u # t => State(u) # State(t)
        BY DEF State
    <2>3. State(t) \in Places /\ \A u \in Threads : State(u) \in Places
        BY DEF State, Places
    <2>4. /\ calls' = [calls EXCEPT ![State(t)] = 0] /\ left' = left
          /\ \A u \in Threads : pc'[u] = "generate" => pc[u] = "generate"
          /\ \A u \in Threads : State(u)' = State(u)
        BY <1>3 DEF Seed, Goes, Invariant, TypeOK, State
    <2>5. CallsBounded'
        BY <1>0, <2>4 DEF Bounded, CallsBounded, Invariant, TypeOK
    <2>6. \A u \in Threads : pc[u] = "generate" => calls'[State(u)] = calls[State(u)]
        BY <2>1, <2>2, <2>3, <2>4 DEF Invariant, TypeOK
    <2> QED BY <2>4, <2>5, <2>6 DEF Bounded, CallsFit
<1>4. ASSUME NEW t \in Threads, Enter(t) PROVE Bounded'
    <2>1. \A u \in Threads : u # t => State(u) # State(t)
        BY DEF State
    <2>2. State(t) \in Places /\ \A u \in Threads : State(u) \in Places
        BY DEF State, Places
    <2>3. /\ left' = left /\ left[t] \in 0 .. MaxChunks
          /\ \A u \in Threads : pc'[u] = "generate" => u = t \/ pc[u] = "generate"
          /\ \A u \in Threads : State(u)' = State(u)
        BY <1>4 DEF Enter, Goes, Invariant, TypeOK, State
    <2>4. CASE Due(State(t))
        <3>1. calls' = [calls EXCEPT ![State(t)] = 0]
            BY <1>4, <2>4 DEF Enter
        <3>2. /\ calls'[State(t)] = 0
              /\ \A s \in Places : s # State(t) => calls'[s] = calls[s]
            BY <2>2, <3>1 DEF Invariant, TypeOK
        <3>3. CallsBounded'
            BY <1>0, <3>2 DEF Bounded, CallsBounded
        <3>4. calls'[State(t)] + left[t] <= limit
            BY <1>0, <2>3, <3>2
        <3> QED BY <2>1, <2>2, <2>3, <3>2, <3>3, <3>4 DEF Bounded, CallsFit
    <2>5. CASE ~Due(State(t))
        <3>1. calls' = calls
            BY <1>4, <2>5 DEF Enter
        <3>2. calls[State(t)] \in Nat /\ calls[State(t)] < kReseedInterval
            BY <1>0, <2>2, <2>5 DEF Due, Invariant, TypeOK
        <3>3. calls[State(t)] + left[t] <= limit
            BY <1>0, <2>3, <3>2
        <3> QED BY <2>3, <3>1, <3>3 DEF Bounded, CallsFit, CallsBounded
    <2> QED BY <2>4, <2>5
<1>5. ASSUME NEW t \in Threads, Generate(t) PROVE Bounded'
    <2>1. \A u \in Threads : u # t => State(u) # State(t)
        BY DEF State
    <2>2. State(t) \in Places /\ \A u \in Threads : State(u) \in Places
        BY DEF State, Places
    <2>3. /\ calls' = [calls EXCEPT ![State(t)] = @ + 1]
          /\ left' = [left EXCEPT ![t] = @ - 1]
          /\ pc' = pc /\ onStack' = onStack /\ pc[t] = "generate" /\ left[t] > 0
        BY <1>5 DEF Generate
    <2>4. /\ calls[State(t)] \in Nat /\ left[t] \in 0 .. MaxChunks
          /\ calls'[State(t)] = calls[State(t)] + 1 /\ left'[t] = left[t] - 1
          /\ \A s \in Places : s # State(t) => calls'[s] = calls[s]
          /\ \A u \in Threads : u # t => left'[u] = left[u]
        BY <2>2, <2>3 DEF Invariant, TypeOK
    <2>5. calls[State(t)] + left[t] <= limit
        BY <2>3 DEF Bounded, CallsFit
    <2>6. calls'[State(t)] <= limit /\ calls'[State(t)] + left'[t] <= limit
        BY <1>0, <2>3, <2>4, <2>5
    <2>7. \A u \in Threads : State(u)' = State(u)
        BY <2>3 DEF State
    <2>8. CallsBounded'
        BY <2>4, <2>6 DEF Bounded, CallsBounded
    <2> HIDE DEF limit
    <2>9. ASSUME NEW u \in Threads, pc'[u] = "generate"
          PROVE  calls'[State(u)] + left'[u] <= limit
        <3>1. CASE u = t
            BY <2>6, <3>1
        <3>2. CASE u # t
            BY <2>1, <2>2, <2>3, <2>4, <2>9, <3>2 DEF Bounded, CallsFit, limit
        <3> QED BY <3>1, <3>2
    <2> QED BY <2>7, <2>8, <2>9 DEF Bounded, CallsFit, limit
<1>6. ASSUME NEW t \in Threads,
             \/ Alloc(t) \/ AllocFails(t) \/ Link(t) \/ Leave(t)
             \/ ThreadEnds(t) \/ UnlinkState(t) \/ FreeState(t)
      PROVE  Bounded'
    BY <1>1, <1>6 DEF Alloc, AllocFails, Link, Leave, ThreadEnds, UnlinkState, FreeState,
                      Goes, Invariant, TypeOK
<1>7. CASE ExitCalled \/ ClearAll \/ ClearOne \/ ClearDone
    BY <1>1, <1>7 DEF ExitCalled, ClearAll, ClearOne, ClearDone
<1>8. CASE UNCHANGED vars
    BY <1>1, <1>8 DEF vars
<1> QED BY <1>2, <1>3, <1>4, <1>5, <1>6, <1>7, <1>8
           DEF Next, InCall, InThreadExit, InExit

\* rand.c:290: the check is made once for each call of RAND_bytes.  So the generate
\* calls without a reseed may pass the interval, unlike rand.c:60 says, but for every
\* interval and request size they stay under the interval and one request.
THEOREM CallsAreBounded == Spec => []CallsBounded
<1>1. Bounded => CallsBounded
    BY DEF Bounded
<1> QED BY SpecInvariant, BoundedInit, BoundedStep, <1>1, PTL DEF Spec

-----------------------------------------------------------------------------
\* The i-th of n states in this order, NULL before the first and after the last.
At(order, n, i) == IF i \in 1 .. n THEN order[i] ELSE NULL

\* The states of L, each once, in this order.
Orders(L, order, n) ==
    /\ order \in [1 .. n -> L]
    /\ \A i, j \in 1 .. n : order[i] = order[j] => i = j
    /\ \A t \in L : \E i \in 1 .. n : order[i] = t

\* hd, nx and pv link them in this order.
Chain(L, hd, nx, pv, order, n) ==
    /\ Orders(L, order, n)
    /\ hd = At(order, n, 1)
    /\ \A i \in 1 .. n : nx[order[i]] = At(order, n, i + 1) /\ pv[order[i]] = At(order, n, i - 1)

\* clear_all is at the k-th state, and has zeroed those before it.
Walked(order, n) ==
    /\ exit \in {"clears", "done"} =>
          \E k \in 1 .. n + 1 : /\ cur = At(order, n, k)
                                /\ \A i \in 1 .. k - 1 : drbg[<<order[i], "heap">>] = "zero"
    /\ exit = "done" => cur = NULL

Listed(order, n) == Chain(Linked, head, next, prev, order, n) /\ Walked(order, n)

\* A thread that ends has a state.
EndsWithState == \A t \in Threads : pc[t] \in {"unlink", "free"} => tls[t]

ListInv == EndsWithState /\ \E n \in Nat : \E order : Listed(order, n)

-----------------------------------------------------------------------------
\* Insertion of t at the head.
Pushes(L, t, hd, nx, pv, nx2, pv2) ==
    /\ nx2[t] = hd /\ pv2[t] = NULL
    /\ \A p \in L : nx2[p] = nx[p] /\ pv2[p] = IF p = hd THEN t ELSE pv[p]

LEMMA PushOrders ==
    ASSUME NEW L, NEW n \in Nat, NEW order, Orders(L, order, n), NEW t, t \notin L
    PROVE  LET new == [i \in 1 .. n + 1 |-> IF i = 1 THEN t ELSE order[i - 1]]
           IN  Orders(L \cup {t}, new, n + 1)
<1> DEFINE new == [i \in 1 .. n + 1 |-> IF i = 1 THEN t ELSE order[i - 1]]
<1>1. \A i \in 1 .. n + 1 : i = 1 \/ i - 1 \in 1 .. n
    OBVIOUS
<1>2. \A i \in 1 .. n : i + 1 \in 1 .. n + 1 /\ i + 1 # 1 /\ (i + 1) - 1 = i
    OBVIOUS
<1>3. \A i \in 1 .. n : order[i] \in L
    BY DEF Orders
<1>4. new \in [1 .. n + 1 -> L \cup {t}]
    BY <1>1, <1>3
<1>5. ASSUME NEW i \in 1 .. n + 1, NEW j \in 1 .. n + 1, new[i] = new[j]
      PROVE  i = j
    <2>1. CASE i = 1 \/ j = 1
        BY <1>1, <1>3, <1>5, <2>1
    <2>2. CASE i # 1 /\ j # 1
        <3>1. order[i - 1] = order[j - 1]
            BY <1>5, <2>2
        <3>2. i - 1 = j - 1
            BY <1>1, <2>2, <3>1 DEF Orders
        <3> QED BY <3>2
    <2> QED BY <2>1, <2>2
<1>6. ASSUME NEW u \in L \cup {t}
      PROVE  \E i \in 1 .. n + 1 : new[i] = u
    <2>1. CASE u = t
        <3>1. 1 \in 1 .. n + 1
            OBVIOUS
        <3> QED BY <2>1, <3>1
    <2>2. CASE u \in L
        <3>1. PICK i \in 1 .. n : order[i] = u
            BY <2>2 DEF Orders
        <3>2. new[i + 1] = u
            BY <1>2, <3>1
        <3> QED BY <1>2, <3>2
    <2> QED BY <2>1, <2>2
<1> HIDE DEF new
<1>7. Orders(L \cup {t}, new, n + 1)
    BY <1>4, <1>5, <1>6 DEF Orders
<1> QED BY <1>7 DEF new

LEMMA Push ==
    ASSUME NEW L \in SUBSET Threads, NEW hd, NEW nx, NEW pv, NEW n \in Nat, NEW order,
           Chain(L, hd, nx, pv, order, n),
           NEW t \in Threads \ L, NEW nx2, NEW pv2, Pushes(L, t, hd, nx, pv, nx2, pv2)
    PROVE  \E new : Chain(L \cup {t}, t, nx2, pv2, new, n + 1)
<1> DEFINE new == [i \in 1 .. n + 1 |-> IF i = 1 THEN t ELSE order[i - 1]]
<1>0. /\ nx2[t] = hd /\ \A p \in L : nx2[p] = nx[p]
      /\ pv2[t] = NULL /\ \A p \in L : pv2[p] = IF p = hd THEN t ELSE pv[p]
    BY DEF Pushes
<1>1. Orders(L \cup {t}, new, n + 1)
    BY PushOrders DEF Chain
<1>2. /\ \A i \in 1 .. n : order[i] \in L
      /\ \A i, j \in 1 .. n : order[i] = order[j] => i = j
    BY DEF Chain, Orders
<1>3. \A i \in Int : At(new, n + 1, i + 1) = IF i = 0 THEN t ELSE At(order, n, i)
    <2> TAKE i \in Int
    <2>1. i + 1 \in 1 .. n + 1 <=> i = 0 \/ i \in 1 .. n
        OBVIOUS
    <2>2. i + 1 = 1 <=> i = 0
        OBVIOUS
    <2>3. (i + 1) - 1 = i
        OBVIOUS
    <2> QED BY <2>1, <2>2, <2>3 DEF At
<1> HIDE DEF new
<1>4. At(new, n + 1, 1) = t
    <2>1. At(new, n + 1, 0 + 1) = t
        BY <1>3
    <2> QED BY <2>1
<1>5. ASSUME NEW i \in 1 .. n + 1
      PROVE  /\ nx2[new[i]] = At(new, n + 1, i + 1)
             /\ pv2[new[i]] = At(new, n + 1, i - 1)
    <2>1. CASE i = 1
        <3>1. new[i] = t
            BY <1>4, <2>1 DEF At
        <3>2. At(new, n + 1, i + 1) = At(order, n, 1)
            BY <1>3, <2>1
        <3>3. At(new, n + 1, i - 1) = NULL
            BY <2>1 DEF At
        <3> QED BY <1>0, <3>1, <3>2, <3>3 DEF Chain
    <2>2. CASE i # 1
        <3> DEFINE j == i - 1
        <3>1. j \in 1 .. n /\ i = j + 1 /\ i - 1 = (j - 1) + 1 /\ j - 1 \in Int /\ j \in Int
            BY <2>2
        <3> HIDE DEF j
        <3>2. At(new, n + 1, i + 1) = At(order, n, j + 1)
            BY <1>3, <3>1
        <3>3. At(new, n + 1, i - 1) = IF j - 1 = 0 THEN t ELSE At(order, n, j - 1)
            BY <1>3, <3>1
        <3>4. new[i] = order[j]
            <4>1. At(new, n + 1, j + 1) = order[j]
                BY <1>3, <3>1 DEF At
            <4> QED BY <3>1, <4>1 DEF At
        <3>5. nx2[order[j]] = At(order, n, j + 1) /\ pv[order[j]] = At(order, n, j - 1)
            BY <1>0, <1>2, <3>1 DEF Chain
        <3>6. order[j] = hd <=> j = 1
            <4>1. 1 \in 1 .. n /\ hd = order[1]
                BY <3>1 DEF Chain, At
            <4> QED BY <1>2, <3>1, <4>1
        <3>7. pv2[order[j]] = IF j = 1 THEN t ELSE At(order, n, j - 1)
            BY <1>0, <1>2, <3>1, <3>5, <3>6
        <3>8. j = 1 <=> j - 1 = 0
            BY <3>1
        <3> QED BY <3>2, <3>3, <3>4, <3>5, <3>7, <3>8
    <2> QED BY <2>1, <2>2
<1>6. Chain(L \cup {t}, t, nx2, pv2, new, n + 1)
    BY <1>1, <1>4, <1>5 DEF Chain
<1> QED BY <1>6

-----------------------------------------------------------------------------
\* Removal of t, the k-th.
Pulls(L, t, hd, nx, pv, hd2, nx2, pv2) ==
    /\ hd2 = IF pv[t] = NULL THEN nx[t] ELSE hd
    /\ \A p \in L : nx2[p] = IF p = pv[t] THEN nx[t] ELSE nx[p]
    /\ \A p \in L : pv2[p] = IF p = nx[t] THEN pv[t] ELSE pv[p]

LEMMA PullAt ==
    ASSUME NEW n \in Nat, NEW order, NEW k \in 1 .. n, NEW i \in Int
    PROVE  LET new == [j \in 1 .. n - 1 |-> IF j < k THEN order[j] ELSE order[j + 1]]
           IN  At(new, n - 1, i) = IF i < k THEN At(order, n, i) ELSE At(order, n, i + 1)
<1>1. k \in Int /\ 1 <= k /\ k <= n
    OBVIOUS
<1>2. CASE i < k
    <2>1. i \in 1 .. n - 1 <=> i \in 1 .. n
        BY <1>1, <1>2
    <2> QED BY <1>2, <2>1 DEF At
<1>3. CASE ~(i < k)
    <2>1. i \in 1 .. n - 1 <=> i + 1 \in 1 .. n
        BY <1>1, <1>3
    <2> QED BY <1>3, <2>1 DEF At
<1> QED BY <1>2, <1>3

LEMMA PullOrders ==
    ASSUME NEW L, NEW n \in Nat, NEW order, Orders(L, order, n), NEW k \in 1 .. n
    PROVE  LET new == [j \in 1 .. n - 1 |-> IF j < k THEN order[j] ELSE order[j + 1]]
           IN  Orders(L \ {order[k]}, new, n - 1)
<1> DEFINE new == [j \in 1 .. n - 1 |-> IF j < k THEN order[j] ELSE order[j + 1]]
           at(j) == IF j < k THEN j ELSE j + 1
<1>1. \A j \in 1 .. n - 1 : at(j) \in 1 .. n /\ at(j) # k /\ new[j] = order[at(j)]
    OBVIOUS
<1>2. \A i, j \in 1 .. n - 1 : at(i) = at(j) => i = j
    OBVIOUS
<1>3. \A i \in 1 .. n : i # k => \E j \in 1 .. n - 1 : at(j) = i
    <2> SUFFICES ASSUME NEW i \in 1 .. n, i # k PROVE \E j \in 1 .. n - 1 : at(j) = i
        OBVIOUS
    <2>1. CASE i < k
        <3>1. i \in 1 .. n - 1 /\ at(i) = i
            BY <2>1
        <3> QED BY <3>1
    <2>2. CASE ~(i < k)
        <3>1. i - 1 \in 1 .. n - 1 /\ at(i - 1) = i
            BY <2>2
        <3> QED BY <3>1
    <2> QED BY <2>1, <2>2
<1>4. DOMAIN new = 1 .. n - 1 /\ new = [j \in 1 .. n - 1 |-> new[j]]
    OBVIOUS
<1> HIDE DEF new, at
<1>5. /\ \A i \in 1 .. n : order[i] \in L
      /\ \A i, j \in 1 .. n : order[i] = order[j] => i = j
      /\ \A t \in L : \E i \in 1 .. n : order[i] = t
    BY DEF Orders
<1>6. \A j \in 1 .. n - 1 : new[j] \in L \ {order[k]}
    BY <1>1, <1>5
<1>7. new \in [1 .. n - 1 -> L \ {order[k]}]
    BY <1>4, <1>6
<1>8. \A i, j \in 1 .. n - 1 : new[i] = new[j] => i = j
    BY <1>1, <1>2, <1>5
<1>9. \A t \in L \ {order[k]} : \E j \in 1 .. n - 1 : new[j] = t
    <2> TAKE t \in L \ {order[k]}
    <2>1. PICK i \in 1 .. n : order[i] = t
        BY <1>5
    <2>2. i # k
        BY <2>1
    <2>3. PICK j \in 1 .. n - 1 : at(j) = i
        BY <1>3, <2>2
    <2> QED BY <1>1, <2>1, <2>3
<1>10. Orders(L \ {order[k]}, new, n - 1)
    BY <1>7, <1>8, <1>9 DEF Orders
<1> QED BY <1>10 DEF new

LEMMA Pull ==
    ASSUME NEW L \in SUBSET Threads, NEW hd, NEW nx, NEW pv, NEW n \in Nat, NEW order,
           Chain(L, hd, nx, pv, order, n),
           NEW t \in L, NEW hd2, NEW nx2, NEW pv2, Pulls(L, t, hd, nx, pv, hd2, nx2, pv2)
    PROVE  n - 1 \in Nat /\ \E new : Chain(L \ {t}, hd2, nx2, pv2, new, n - 1)
<1>0. /\ hd2 = IF pv[t] = NULL THEN nx[t] ELSE hd
      /\ \A p \in L : nx2[p] = IF p = pv[t] THEN nx[t] ELSE nx[p]
      /\ \A p \in L : pv2[p] = IF p = nx[t] THEN pv[t] ELSE pv[p]
    BY DEF Pulls
<1>1. PICK k \in 1 .. n : order[k] = t
    BY DEF Chain, Orders
<1> DEFINE new == [j \in 1 .. n - 1 |-> IF j < k THEN order[j] ELSE order[j + 1]]
<1>2. Orders(L \ {t}, new, n - 1)
    BY <1>1, PullOrders DEF Chain
<1>3. \A i \in Int : At(new, n - 1, i) = IF i < k THEN At(order, n, i)
                                         ELSE At(order, n, i + 1)
    BY PullAt
<1> HIDE DEF new
<1>4. /\ \A i \in 1 .. n : order[i] \in L /\ order[i] # NULL
      /\ \A i, j \in 1 .. n : order[i] = order[j] => i = j
    <2>1. Orders(L, order, n)
        BY DEF Chain
    <2>2. \A i \in 1 .. n : order[i] \in L
        BY <2>1 DEF Orders
    <2>3. NULL \notin L
        BY RandAssumption
    <2> QED BY <2>1, <2>2, <2>3 DEF Orders
<1>5. nx[t] = At(order, n, k + 1) /\ pv[t] = At(order, n, k - 1)
    BY <1>1 DEF Chain
<1>6. ASSUME NEW i \in 1 .. n, NEW j \in Int
      PROVE  order[i] = At(order, n, j) <=> i = j
    BY <1>4 DEF At
<1>7. hd2 = At(new, n - 1, 1)
    <2>1. CASE k = 1
        <3>1. pv[t] = NULL
            BY <1>5, <2>1 DEF At
        <3>2. At(new, n - 1, 1) = At(order, n, 1 + 1)
            BY <1>3, <2>1
        <3> QED BY <1>0, <1>5, <2>1, <3>1, <3>2
    <2>2. CASE k # 1
        <3>1. k - 1 \in 1 .. n
            BY <2>2
        <3>2. pv[t] # NULL
            BY <1>4, <1>5, <3>1 DEF At
        <3>3. At(new, n - 1, 1) = At(order, n, 1)
            <4>1. 1 \in Int /\ 1 < k
                BY <2>2
            <4> QED BY <1>3, <4>1
        <3> QED BY <1>0, <3>2, <3>3 DEF Chain
    <2> QED BY <2>1, <2>2
<1>8. ASSUME NEW i \in 1 .. n - 1
      PROVE  /\ nx2[new[i]] = At(new, n - 1, i + 1)
             /\ pv2[new[i]] = At(new, n - 1, i - 1)
    <2> DEFINE j == IF i < k THEN i ELSE i + 1
    <2>1. j \in 1 .. n /\ i \in Int /\ k \in Int
        OBVIOUS
    <2>2. new[i] = order[j]
        <3>1. At(new, n - 1, i) = At(order, n, j)
            BY <1>3, <2>1
        <3> QED BY <2>1, <3>1 DEF At
    <2>3. nx[order[j]] = At(order, n, j + 1) /\ pv[order[j]] = At(order, n, j - 1)
        BY <2>1 DEF Chain
    <2>4. nx2[order[j]] = IF j = k - 1 THEN At(order, n, k + 1) ELSE At(order, n, j + 1)
        <3>1. order[j] = pv[t] <=> j = k - 1
            BY <1>5, <1>6, <2>1
        <3> QED BY <1>0, <1>4, <1>5, <2>1, <2>3, <3>1
    <2>5. pv2[order[j]] = IF j = k + 1 THEN At(order, n, k - 1) ELSE At(order, n, j - 1)
        <3>1. order[j] = nx[t] <=> j = k + 1
            BY <1>5, <1>6, <2>1
        <3> QED BY <1>0, <1>4, <1>5, <2>1, <2>3, <3>1
    <2>6. At(new, n - 1, i + 1) = IF i + 1 < k THEN At(order, n, i + 1)
                                  ELSE At(order, n, (i + 1) + 1)
        BY <1>3, <2>1
    <2>7. At(new, n - 1, i - 1) = IF i - 1 < k THEN At(order, n, i - 1)
                                  ELSE At(order, n, (i - 1) + 1)
        BY <1>3, <2>1
    <2>8. CASE i < k
        <3>1. /\ j = i /\ j # k + 1 /\ i - 1 < k
              /\ j = k - 1 => ~(i + 1 < k) /\ (i + 1) + 1 = k + 1
              /\ j # k - 1 => i + 1 < k
            BY <2>1, <2>8
        <3> HIDE DEF j
        <3> QED BY <2>2, <2>4, <2>5, <2>6, <2>7, <3>1
    <2>9. CASE ~(i < k)
        <3>1. /\ j = i + 1 /\ j # k - 1 /\ ~(i + 1 < k)
              /\ j = k + 1 => i - 1 < k /\ i - 1 = k - 1
              /\ j # k + 1 => ~(i - 1 < k) /\ (i - 1) + 1 = j - 1
            BY <2>1, <2>9
        <3> HIDE DEF j
        <3> QED BY <2>2, <2>4, <2>5, <2>6, <2>7, <3>1
    <2> QED BY <2>8, <2>9
<1>9. Chain(L \ {t}, hd2, nx2, pv2, new, n - 1)
    BY <1>2, <1>7, <1>8 DEF Chain
<1> QED BY <1>9

-----------------------------------------------------------------------------
\* A step that leaves the list alone keeps it, and the walk, as long as it zeroes
\* what it visits and wakes no linked state.
LEMMA ListKept ==
    ASSUME ListInv, EndsWithState', Linked' = Linked, UNCHANGED list,
           UNCHANGED exiting \/ exit' \in {"no", "waits"},
           exit \in {"clears", "done"} =>
              \A t \in Linked : drbg[<<t, "heap">>] = "zero" => drbg'[<<t, "heap">>] = "zero"
    PROVE  ListInv'
<1>0. PICK n \in Nat : \E order : Listed(order, n)
    BY DEF ListInv
<1>1. PICK order : Listed(order, n)
    BY <1>0
<1>2. \A i \in 1 .. n : order[i] \in Linked
    BY <1>1 DEF Listed, Chain, Orders
<1>3. Chain(Linked, head, next, prev, order, n)'
    BY <1>1 DEF Listed, Chain, Orders, At, list
<1>4. Walked(order, n)'
    <2>1. CASE exit' \in {"no", "waits"}
        BY <2>1 DEF Walked
    <2>2. CASE exit' \notin {"no", "waits"}
        <3>1. exit' = exit /\ cur' = cur
            BY <2>2 DEF exiting
        <3>2. SUFFICES ASSUME exit \in {"clears", "done"}
                       PROVE  /\ \E k \in 1 .. n + 1 :
                                    /\ cur = At(order, n, k)
                                    /\ \A i \in 1 .. k - 1 : drbg'[<<order[i], "heap">>] = "zero"
                              /\ exit = "done" => cur = NULL
            BY <3>1 DEF Walked, At
        <3>3. PICK k \in 1 .. n + 1 : /\ cur = At(order, n, k)
                                      /\ \A i \in 1 .. k - 1 : drbg[<<order[i], "heap">>] = "zero"
            BY <1>1, <3>2 DEF Listed, Walked
        <3>4. \A i \in 1 .. k - 1 : i \in 1 .. n
            OBVIOUS
        <3>5. \A i \in 1 .. k - 1 : drbg'[<<order[i], "heap">>] = "zero"
            BY <1>2, <3>2, <3>3, <3>4
        <3>6. exit = "done" => cur = NULL
            BY <1>1 DEF Listed, Walked
        <3> QED BY <3>3, <3>5, <3>6
    <2> QED BY <2>1, <2>2
<1> QED BY <1>1, <1>3, <1>4 DEF ListInv, Listed

LEMMA InitList == Init => ListInv
<1> SUFFICES ASSUME Init PROVE ListInv
    OBVIOUS
<1>1. Linked = {} /\ head = NULL /\ exit = "no" /\ EndsWithState
    BY DEF Init, Linked, EndsWithState
<1>2. 1 .. 0 = {}
    OBVIOUS
<1> DEFINE order == [i \in 1 .. 0 |-> NULL]
<1>3. Listed(order, 0)
    BY <1>1, <1>2 DEF Listed, Chain, Orders, At, Walked
<1>4. 0 \in Nat
    OBVIOUS
<1> QED BY <1>1, <1>3, <1>4 DEF ListInv

LEMMA LinkedStep ==
    ASSUME Invariant, EndsWithState, NEW t \in Threads, NEW chunks \in 1 .. MaxChunks,
           \/ Call(t, chunks) \/ Alloc(t) \/ AllocFails(t) \/ Seed(t) \/ Enter(t)
           \/ Generate(t) \/ Leave(t) \/ ThreadEnds(t) \/ FreeState(t)
    PROVE  EndsWithState' /\ Linked' = Linked /\ UNCHANGED list /\ UNCHANGED exiting
<1> USE DEF Invariant, TypeOK, StateChosen, EndsWithState, Linked, Goes
<1>1. CASE Call(t, chunks)
    BY <1>1 DEF Call
<1>2. CASE Alloc(t)
    BY <1>2 DEF Alloc
<1>3. CASE AllocFails(t)
    BY <1>3 DEF AllocFails
<1>4. CASE Seed(t)
    BY <1>4 DEF Seed
<1>5. CASE Enter(t)
    BY <1>5 DEF Enter
<1>6. CASE Generate(t)
    BY <1>6 DEF Generate
<1>7. CASE Leave(t)
    BY <1>7 DEF Leave
<1>8. CASE ThreadEnds(t)
    BY <1>8 DEF ThreadEnds
<1>9. CASE FreeState(t)
    BY <1>9 DEF FreeState
<1> QED BY <1>1, <1>2, <1>3, <1>4, <1>5, <1>6, <1>7, <1>8, <1>9

\* While clear_all has the lock no thread draws or reseeds, and a thread that seeds
\* or frees its state is not on the list.
LEMMA LinkedStayZero ==
    ASSUME Invariant, exit \in {"clears", "done"}, NEW t \in Threads, NEW chunks \in 1 .. MaxChunks,
           \/ Call(t, chunks) \/ Alloc(t) \/ AllocFails(t) \/ Seed(t) \/ Enter(t)
           \/ Generate(t) \/ Leave(t) \/ ThreadEnds(t) \/ FreeState(t),
           NEW u \in Linked, drbg[<<u, "heap">>] = "zero"
    PROVE  drbg'[<<u, "heap">>] = "zero"
<1>1. readers = {} /\ writer = "exit" /\ "exit" # NULL /\ pc[t] # "generate"
    BY RandAssumption DEF Invariant, TypeOK, Alone
<1>2. ~Enter(t) /\ ~Leave(t) /\ ~Generate(t)
    BY <1>1 DEF Enter, MayRead, Leave, Generate
<1>3. CASE Call(t, chunks) \/ Alloc(t) \/ AllocFails(t) \/ ThreadEnds(t)
    BY <1>3 DEF Call, Alloc, AllocFails, ThreadEnds
<1>4. CASE Seed(t)
    <2>1. <<u, "heap">> # State(t)
        BY <1>4 DEF Seed, Goes, Linked, State
    <2>2. drbg' = [drbg EXCEPT ![State(t)] = "keyed"]
        BY <1>4 DEF Seed
    <2> QED BY <2>1, <2>2 DEF Invariant, TypeOK
<1>5. CASE FreeState(t)
    <2>1. u # t /\ drbg' = [drbg EXCEPT ![<<t, "heap">>] = "raw"]
        BY <1>5 DEF FreeState, Goes, Linked
    <2> QED BY <2>1 DEF Invariant, TypeOK
<1> QED BY <1>2, <1>3, <1>4, <1>5

LEMMA ThreadStepKeepsList ==
    ASSUME Invariant, ListInv, NEW t \in Threads, NEW chunks \in 1 .. MaxChunks,
           \/ Call(t, chunks) \/ Alloc(t) \/ AllocFails(t) \/ Seed(t) \/ Enter(t)
           \/ Generate(t) \/ Leave(t) \/ ThreadEnds(t) \/ FreeState(t)
    PROVE  ListInv'
<1>1. EndsWithState' /\ Linked' = Linked /\ UNCHANGED list /\ UNCHANGED exiting
    BY LinkedStep DEF ListInv
<1>2. exit \in {"clears", "done"} =>
         \A u \in Linked : drbg[<<u, "heap">>] = "zero" => drbg'[<<u, "heap">>] = "zero"
    BY LinkedStayZero
<1> QED BY <1>1, <1>2, ListKept

\* A thread that links or unlinks its state holds the lock, so clear_all does not.
LEMMA LinkKeepsList ==
    ASSUME Invariant, ListInv, NEW t \in Threads, Link(t)
    PROVE  ListInv'
<1>0. PICK n \in Nat : \E order : Listed(order, n)
    BY DEF ListInv
<1>1. PICK order : Listed(order, n)
    BY <1>0
<1>2. /\ pc[t] = "link" /\ pc' = [pc EXCEPT ![t] = "enter"] /\ tls[t] /\ tls' = tls
      /\ t \notin Linked /\ Linked \subseteq Threads
    BY DEF Link, Goes, Invariant, StateChosen, Linked
<1>3. Linked' = Linked \cup {t} /\ EndsWithState'
    BY <1>2 DEF Linked, ListInv, EndsWithState, Invariant, TypeOK
<1>4. exit' \notin {"clears", "done"}
    BY RandAssumption DEF Link, MayWrite, Invariant, TypeOK, exiting
<1>5. head' = t /\ Pushes(Linked, t, head, next, prev, next', prev')
    BY <1>2 DEF Link, LinkIn, Invariant, TypeOK, Pushes
<1>6. \E new : Chain(Linked \cup {t}, t, next', prev', new, n + 1)
    <2>1. Chain(Linked, head, next, prev, order, n)
        BY <1>1 DEF Listed
    <2>2. Linked \in SUBSET Threads /\ t \in Threads \ Linked
        BY <1>2
    <2> QED BY <1>5, <2>1, <2>2, Push
<1>7. PICK new : Chain(Linked \cup {t}, t, next', prev', new, n + 1)
    BY <1>6
<1>8. Chain(Linked, head, next, prev, new, n + 1)'
    BY <1>3, <1>5, <1>7 DEF Chain, Orders, At
<1>9. Walked(new, n + 1)'
    BY <1>4 DEF Walked
<1>10. n + 1 \in Nat
    OBVIOUS
<1> QED BY <1>3, <1>8, <1>9, <1>10 DEF ListInv, Listed

LEMMA UnlinkKeepsList ==
    ASSUME Invariant, ListInv, NEW t \in Threads, UnlinkState(t)
    PROVE  ListInv'
<1>0. PICK n \in Nat : \E order : Listed(order, n)
    BY DEF ListInv
<1>1. PICK order : Listed(order, n)
    BY <1>0
<1>2. /\ pc[t] = "unlink" /\ pc' = [pc EXCEPT ![t] = "free"] /\ tls[t] /\ tls' = tls
      /\ t \in Linked /\ Linked \subseteq Threads
    BY DEF UnlinkState, Goes, ListInv, EndsWithState, Linked
<1>3. Linked' = Linked \ {t} /\ EndsWithState'
    BY <1>2 DEF Linked, ListInv, EndsWithState, Invariant, TypeOK
<1>4. exit' \notin {"clears", "done"}
    BY RandAssumption DEF UnlinkState, MayWrite, Invariant, TypeOK, exiting
<1>5. Pulls(Linked, t, head, next, prev, head', next', prev')
    BY <1>2, RandAssumption DEF UnlinkState, Unlink, Invariant, TypeOK, Pulls
<1>6. n - 1 \in Nat /\ \E new : Chain(Linked \ {t}, head', next', prev', new, n - 1)
    <2>1. Chain(Linked, head, next, prev, order, n)
        BY <1>1 DEF Listed
    <2>2. Linked \in SUBSET Threads
        BY <1>2
    <2> QED BY <1>2, <1>5, <2>1, <2>2, Pull
<1>7. PICK new : Chain(Linked \ {t}, head', next', prev', new, n - 1)
    BY <1>6
<1>8. Chain(Linked, head, next, prev, new, n - 1)'
    BY <1>3, <1>7 DEF Chain, Orders, At
<1>9. Walked(new, n - 1)'
    BY <1>4 DEF Walked
<1> QED BY <1>3, <1>6, <1>8, <1>9 DEF ListInv, Listed

\* clear_all starts at the head, and zeroes the state it leaves.
LEMMA ExitKeepsList ==
    ASSUME Invariant, ListInv, ExitCalled \/ ClearAll \/ ClearOne \/ ClearDone
    PROVE  ListInv'
<1>0. PICK n \in Nat : \E order : Listed(order, n)
    BY DEF ListInv
<1>1. PICK order : Listed(order, n)
    BY <1>0
<1>2. /\ Chain(Linked, head, next, prev, order, n) /\ Walked(order, n)
      /\ \A i \in 1 .. n : order[i] \in Threads /\ order[i] # NULL
    BY <1>1, RandAssumption DEF Listed, Chain, Orders, Linked
<1>3. Linked' = Linked /\ EndsWithState' /\ UNCHANGED list
    BY DEF ExitCalled, ClearAll, ClearOne, ClearDone, Linked, ListInv, EndsWithState, list
<1>4. Chain(Linked, head, next, prev, order, n)'
    BY <1>2, <1>3 DEF Chain, Orders, At, list
<1>5. Walked(order, n)'
    <2>1. CASE ExitCalled
        BY <2>1 DEF ExitCalled, Walked
    <2>2. CASE ClearAll
        <3>1. exit' = "clears" /\ cur' = At(order, n, 1)
            BY <1>2, <2>2 DEF ClearAll, Chain
        <3>2. 1 \in 1 .. n + 1 /\ 1 .. 1 - 1 = {}
            OBVIOUS
        <3> QED BY <3>1, <3>2 DEF Walked, At
    <2>3. CASE ClearOne
        <3>1. exit = "clears" /\ exit' = "clears" /\ cur # NULL
            BY <2>3 DEF ClearOne
        <3>2. PICK k \in 1 .. n + 1 :
                    /\ cur = At(order, n, k)
                    /\ \A i \in 1 .. k - 1 : drbg[<<order[i], "heap">>] = "zero"
            BY <1>2, <3>1 DEF Walked
        <3>3. k \in 1 .. n /\ cur = order[k] /\ k + 1 \in 1 .. n + 1
            BY <3>1, <3>2 DEF At
        <3>4. cur' = At(order, n, k + 1)
            BY <1>2, <2>3, <3>3 DEF ClearOne, Chain
        <3>5. ASSUME NEW i \in 1 .. (k + 1) - 1
              PROVE  drbg'[<<order[i], "heap">>] = "zero"
            <4>1. i = k \/ i \in 1 .. k - 1
                BY <3>3
            <4>2. i \in 1 .. n
                BY <3>3
            <4>3. <<order[i], "heap">> \in Places
                BY <1>2, <4>2 DEF Places
            <4>4. drbg' = [drbg EXCEPT ![<<cur, "heap">>] = "zero"]
                BY <2>3 DEF ClearOne
            <4> QED BY <3>2, <3>3, <4>1, <4>3, <4>4 DEF Invariant, TypeOK
        <3> QED BY <3>1, <3>3, <3>4, <3>5 DEF Walked, At
    <2>4. CASE ClearDone
        <3>1. exit = "clears" /\ cur = NULL /\ UNCHANGED <<cur, drbg>>
            BY <2>4 DEF ClearDone
        <3> QED BY <1>2, <3>1 DEF Walked, At
    <2> QED BY <2>1, <2>2, <2>3, <2>4
<1> QED BY <1>3, <1>4, <1>5 DEF ListInv, Listed

LEMMA NextKeepsList == Invariant /\ ListInv /\ [Next]_vars => ListInv'
<1> SUFFICES ASSUME Invariant, ListInv, [Next]_vars PROVE ListInv'
    OBVIOUS
<1>1. CASE UNCHANGED vars
    <2>1. EndsWithState' /\ Linked' = Linked /\ UNCHANGED list /\ UNCHANGED exiting
        BY <1>1 DEF vars, ListInv, EndsWithState, Linked
    <2>2. drbg' = drbg
        BY <1>1 DEF vars
    <2> QED BY <2>1, <2>2, ListKept
<1>2. ASSUME NEW t \in Threads, NEW chunks \in 1 .. MaxChunks,
             \/ Call(t, chunks) \/ Alloc(t) \/ AllocFails(t) \/ Seed(t) \/ Enter(t)
             \/ Generate(t) \/ Leave(t) \/ ThreadEnds(t) \/ FreeState(t)
      PROVE  ListInv'
    BY <1>2, ThreadStepKeepsList
<1>3. ASSUME NEW t \in Threads, Link(t) PROVE ListInv'
    BY <1>3, LinkKeepsList
<1>4. ASSUME NEW t \in Threads, UnlinkState(t) PROVE ListInv'
    BY <1>4, UnlinkKeepsList
<1>5. CASE ExitCalled \/ ClearAll \/ ClearOne \/ ClearDone
    BY <1>5, ExitKeepsList
<1>6. 1 \in 1 .. MaxChunks
    BY RandAssumption
<1> QED BY <1>1, <1>2, <1>3, <1>4, <1>5, <1>6 DEF Next, InCall, InThreadExit, InExit

LEMMA SpecListInv == Spec => []ListInv
BY InitList, NextKeepsList, SpecInvariant, PTL DEF Spec

-----------------------------------------------------------------------------
\* rand.c:70 and 77: with any number of threads, whichever of them start, end, or
\* find no memory, next and prev form a NULL-terminated, double-linked list of the
\* states that are linked.
THEOREM ListIsOfLinked == Spec => []ListOfLinked
<1>1. ListInv => ListOfLinked
    <2> SUFFICES ASSUME ListInv PROVE ListOfLinked
        OBVIOUS
    <2>0. PICK n \in Nat : \E order : Listed(order, n)
        BY DEF ListInv
    <2>1. PICK order : Listed(order, n)
        BY <2>0
    <2>2. /\ order \in [1 .. n -> Linked]
          /\ \A i, j \in 1 .. n : order[i] = order[j] => i = j
          /\ \A t \in Linked : \E i \in 1 .. n : order[i] = t
          /\ head = At(order, n, 1)
          /\ \A i \in 1 .. n : /\ next[order[i]] = At(order, n, i + 1)
                               /\ prev[order[i]] = At(order, n, i - 1)
        BY <2>1 DEF Listed, Chain, Orders
    <2>3. Cardinality(Linked) = n
        <3>1. order \in Bijection(1 .. n, Linked)
            BY <2>2 DEF Bijection, Injection, Surjection, IsInjective
        <3>2. ExistsBijection(1 .. n, Linked)
            BY <3>1 DEF ExistsBijection
        <3> QED BY <3>2, FS_CountingElements
    <2>4. {order[i] : i \in 1 .. n} = Linked
        BY <2>2
    <2> QED BY <2>2, <2>3, <2>4 DEF ListOfLinked, At
<1> QED BY <1>1, SpecListInv, PTL

\* Whatever threads are in the middle of when the process exits, once clear_all has
\* ended all linked states are zeroed and stay so.
THEOREM LinkedAreZeroed == Spec => []LinkedZeroed
<1>1. ListInv => LinkedZeroed
    <2> SUFFICES ASSUME ListInv, exit = "done", NEW t \in Linked
                 PROVE  drbg[<<t, "heap">>] = "zero"
        BY DEF LinkedZeroed
    <2>0. PICK n \in Nat : \E order : Listed(order, n)
        BY DEF ListInv
    <2>1. PICK order : Listed(order, n)
        BY <2>0
    <2>2. PICK k \in 1 .. n + 1 :
                /\ cur = At(order, n, k) /\ cur = NULL
                /\ \A i \in 1 .. k - 1 : drbg[<<order[i], "heap">>] = "zero"
        BY <2>1 DEF Listed, Walked
    <2>3. PICK i \in 1 .. n : order[i] = t
        BY <2>1 DEF Listed, Chain, Orders
    <2>4. \A j \in 1 .. n : order[j] # NULL
        BY <2>1, RandAssumption DEF Listed, Chain, Orders, Linked
    <2>5. k \notin 1 .. n
        BY <2>2, <2>4 DEF At
    <2>6. i \in 1 .. k - 1
        BY <2>5
    <2> QED BY <2>2, <2>3, <2>6
<1> QED BY <1>1, SpecListInv, PTL
=============================================================================
