---------------------------- MODULE RandThreads ----------------------------
(***************************************************************************)
(* RAND_bytes of several threads while the process exits                   *)
(* (crypto/fipsmodule/rand/rand.c and thread_pthread.c, BORINGSSL_FIPS).   *)
(*                                                                         *)
(* A thread keeps its generator in a heap state that is linked in a list   *)
(* of all threads' states, or, when there is no memory, in a state on its  *)
(* stack.  The exit destructor zeroes what the list holds.  Every access   *)
(* of the list is made under thread_states_list_lock, a pthread rwlock, so *)
(* a critical section without calls that can block is one action.          *)
(* Of a generator it matters whether it is uninitialised, keyed or zeroed. *)
(***************************************************************************)
EXTENDS Integers, FiniteSets

CONSTANTS Threads,           \* the addresses of their heap states, too
          NULL,
          kReseedInterval,
          MaxChunks,         \* bound on out_len, in CTR_DRBG_MAX_GENERATE_LENGTH
          MaxCalls           \* bound on the calls of RAND_bytes

ASSUME RandAssumption == /\ NULL \notin Threads \cup {"exit"}
                         /\ kReseedInterval \in Nat \ {0}
                         /\ MaxChunks \in Nat \ {0}
                         /\ MaxCalls \in Nat

Places == Threads \X {"heap", "stack"}

VARIABLES pc, left,          \* where each thread is, and the chunks it has to write
          tls, onStack,      \* whether it has a thread-local state, and `state' here
          drbg, calls,       \* of each rand_thread_state
          head, next, prev,  \* thread_states_list
          readers, writer,   \* thread_states_list_lock
          exit, cur,         \* rand_thread_state_clear_all
          made

list == <<head, next, prev>>
lock == <<readers, writer>>
exiting == <<exit, cur>>
vars == <<pc, left, tls, onStack, drbg, calls, list, lock, exiting, made>>

-----------------------------------------------------------------------------
MayRead == writer = NULL
MayWrite == writer = NULL /\ readers = {}

State(t) == <<t, IF onStack[t] THEN "stack" ELSE "heap">>

Goes(t, to) == pc' = [pc EXCEPT ![t] = to]

\* Insertion at the head.
LinkIn(t) == /\ head' = t
             /\ next' = [next EXCEPT ![t] = head]
             /\ prev' = [p \in Threads |-> IF p = t THEN NULL
                                           ELSE IF p = head THEN t ELSE prev[p]]

\* What rand_thread_state_free does with a state whose pointers are nx and pv.
UnlinkOneWay(nx, pv) ==
    /\ head' = IF pv = NULL THEN nx ELSE head
    /\ next' = IF pv = NULL THEN next ELSE [next EXCEPT ![pv] = nx]
    /\ UNCHANGED prev
Unlink(nx, pv) ==
    /\ head' = IF pv = NULL THEN nx ELSE head
    /\ next' = IF pv = NULL THEN next ELSE [next EXCEPT ![pv] = nx]
    /\ prev' = IF nx = NULL THEN prev ELSE [prev EXCEPT ![nx] = pv]

-----------------------------------------------------------------------------
Init == /\ pc = [t \in Threads |-> "idle"] /\ left = [t \in Threads |-> 0]
        /\ tls = [t \in Threads |-> FALSE] /\ onStack = [t \in Threads |-> FALSE]
        /\ drbg = [s \in Places |-> "raw"] /\ calls = [s \in Places |-> 0]
        /\ head = NULL
        /\ next = [t \in Threads |-> NULL] /\ prev = [t \in Threads |-> NULL]
        /\ readers = {} /\ writer = NULL
        /\ exit = "no" /\ cur = NULL /\ made = 0

\* RAND_bytes with a length that is not zero: is there a thread-local state?
Call(t, chunks) ==
    /\ pc[t] = "idle" /\ made < MaxCalls
    /\ Goes(t, IF tls[t] THEN "enter" ELSE "alloc")
    /\ left' = [left EXCEPT ![t] = chunks]
    /\ onStack' = [onStack EXCEPT ![t] = FALSE]
    /\ made' = made + 1
    /\ UNCHANGED <<tls, drbg, calls, list, lock, exiting>>

\* OPENSSL_malloc and CRYPTO_set_thread_local succeed.
Alloc(t) ==
    /\ pc[t] = "alloc"
    /\ tls' = [tls EXCEPT ![t] = TRUE]
    /\ Goes(t, "seed")
    /\ UNCHANGED <<left, onStack, drbg, calls, list, lock, exiting, made>>

\* OPENSSL_malloc returns NULL.
AllocFails(t) ==
    /\ pc[t] = "alloc"
    /\ onStack' = [onStack EXCEPT ![t] = TRUE]
    /\ Goes(t, "seed")
    /\ UNCHANGED <<left, tls, drbg, calls, list, lock, exiting, made>>

\* CRYPTO_set_thread_local fails and has called the destructor on the state, whose
\* next and prev nobody has set.  Memory may hold anything there; this is the mild
\* case of fresh memory, or memory that OPENSSL_free cleansed: zeros.
TlsFails(t) ==
    /\ pc[t] = "alloc" /\ MayWrite
    /\ Unlink(NULL, NULL)
    /\ onStack' = [onStack EXCEPT ![t] = TRUE]
    /\ Goes(t, "seed")
    /\ UNCHANGED <<left, tls, drbg, calls, lock, exiting, made>>

\* rand_get_seed and CTR_DRBG_init.
Seed(t) ==
    /\ pc[t] = "seed"
    /\ drbg' = [drbg EXCEPT ![State(t)] = "keyed"]
    /\ calls' = [calls EXCEPT ![State(t)] = 0]
    /\ Goes(t, IF onStack[t] THEN "enter" ELSE "link")
    /\ UNCHANGED <<left, tls, onStack, list, lock, exiting, made>>

Link(t) ==
    /\ pc[t] = "link" /\ MayWrite
    /\ LinkIn(t)
    /\ Goes(t, "enter")
    /\ UNCHANGED <<left, tls, onStack, drbg, calls, lock, exiting, made>>

\* The read lock, and a reseed when one is due.
DueLate(s) == calls[s] > kReseedInterval
Due(s) == calls[s] >= kReseedInterval

EnterDueUnlocked(t) ==
    /\ pc[t] = "enter" /\ MayRead
    /\ readers' = IF Due(State(t)) THEN readers ELSE readers \cup {t}
    /\ IF Due(State(t)) THEN /\ drbg' = [drbg EXCEPT ![State(t)] = "keyed"]
                             /\ calls' = [calls EXCEPT ![State(t)] = 0]
                        ELSE UNCHANGED <<drbg, calls>>
    /\ Goes(t, "generate")
    /\ UNCHANGED <<left, tls, onStack, list, writer, exiting, made>>
Enter(t) ==
    /\ pc[t] = "enter" /\ MayRead
    /\ readers' = readers \cup {t}
    /\ IF Due(State(t)) THEN /\ drbg' = [drbg EXCEPT ![State(t)] = "keyed"]
                             /\ calls' = [calls EXCEPT ![State(t)] = 0]
                        ELSE UNCHANGED <<drbg, calls>>
    /\ Goes(t, "generate")
    /\ UNCHANGED <<left, tls, onStack, list, writer, exiting, made>>

\* One turn of the loop.
Generate(t) ==
    /\ pc[t] = "generate" /\ left[t] > 0
    /\ left' = [left EXCEPT ![t] = @ - 1]
    /\ calls' = [calls EXCEPT ![State(t)] = @ + 1]
    /\ UNCHANGED <<pc, tls, onStack, drbg, list, lock, exiting, made>>

\* The end of the call.
LeaveLocked(t) ==
    /\ pc[t] = "generate" /\ left[t] = 0
    /\ drbg' = IF onStack[t] THEN [drbg EXCEPT ![State(t)] = "zero"] ELSE drbg
    /\ Goes(t, "idle")
    /\ UNCHANGED <<left, tls, onStack, calls, list, lock, exiting, made>>
LeaveKeyed(t) ==
    /\ pc[t] = "generate" /\ left[t] = 0
    /\ readers' = readers \ {t}
    /\ Goes(t, "idle")
    /\ UNCHANGED <<left, tls, onStack, drbg, calls, list, writer, exiting, made>>
Leave(t) ==
    /\ pc[t] = "generate" /\ left[t] = 0
    /\ drbg' = IF onStack[t] THEN [drbg EXCEPT ![State(t)] = "zero"] ELSE drbg
    /\ readers' = readers \ {t}
    /\ Goes(t, "idle")
    /\ UNCHANGED <<left, tls, onStack, calls, list, writer, exiting, made>>

\* A thread ends: thread_local_destructor calls rand_thread_state_free.  Another
\* thread may take its place.
ThreadEnds(t) ==
    /\ pc[t] = "idle" /\ tls[t]
    /\ Goes(t, "unlink")
    /\ UNCHANGED <<left, tls, onStack, drbg, calls, list, lock, exiting, made>>

UnlinkLocked(t) ==
    /\ pc[t] = "unlink" /\ MayWrite
    /\ Unlink(next[t], prev[t])
    /\ writer' = t
    /\ Goes(t, "free")
    /\ UNCHANGED <<left, tls, onStack, drbg, calls, readers, exiting, made>>
UnlinkState(t) ==
    /\ pc[t] = "unlink" /\ MayWrite
    /\ Unlink(next[t], prev[t])
    /\ Goes(t, "free")
    /\ UNCHANGED <<left, tls, onStack, drbg, calls, lock, exiting, made>>

FreeState(t) ==
    /\ pc[t] = "free"
    /\ drbg' = [drbg EXCEPT ![<<t, "heap">>] = "raw"]
    /\ tls' = [tls EXCEPT ![t] = FALSE]
    /\ Goes(t, "idle")
    /\ UNCHANGED <<left, onStack, calls, list, lock, exiting, made>>

-----------------------------------------------------------------------------
\* The process exits, in a thread that is not in RAND_bytes: clear_all waits for
\* the lock, walks the list, and keeps the lock.
ExitCalled ==
    /\ exit = "no"
    /\ exit' = "waits"
    /\ UNCHANGED <<pc, left, tls, onStack, drbg, calls, list, lock, cur, made>>

ClearAll ==
    /\ exit = "waits" /\ MayWrite
    /\ exit' = "clears" /\ writer' = "exit" /\ cur' = head
    /\ UNCHANGED <<pc, left, tls, onStack, drbg, calls, list, readers, made>>

ClearOne ==
    /\ exit = "clears" /\ cur # NULL
    /\ drbg' = [drbg EXCEPT ![<<cur, "heap">>] = "zero"]
    /\ cur' = next[cur]
    /\ UNCHANGED <<pc, left, tls, onStack, calls, list, lock, exit, made>>

ClearDoneUnlocks ==
    /\ exit = "clears" /\ cur = NULL
    /\ exit' = "done" /\ writer' = NULL
    /\ UNCHANGED <<pc, left, tls, onStack, drbg, calls, list, readers, cur, made>>
ClearDone ==
    /\ exit = "clears" /\ cur = NULL
    /\ exit' = "done"
    /\ UNCHANGED <<pc, left, tls, onStack, drbg, calls, list, lock, cur, made>>

InCall(t) == \/ Alloc(t) \/ AllocFails(t) \/ Seed(t) \/ Link(t)
             \/ Enter(t) \/ Generate(t) \/ Leave(t)
InThreadExit(t) == UnlinkState(t) \/ FreeState(t)
InExit == ClearAll \/ ClearOne \/ ClearDone

Next == \/ \E t \in Threads : \/ \E chunks \in 1 .. MaxChunks : Call(t, chunks)
                              \/ InCall(t)
                              \/ ThreadEnds(t)
                              \/ InThreadExit(t)
        \/ ExitCalled
        \/ InExit

Spec == Init /\ [][Next]_vars

\* The same, where CRYPTO_set_thread_local may fail.
SpecTlsFails == Init /\ [][Next \/ \E t \in Threads : TlsFails(t)]_vars

\* Every thread that can run does, and a lock that stays free is granted.  A
\* rwlock that lets readers pass is not asked for more: the calls are finite.
FairSpec == /\ Spec
            /\ \A t \in Threads : WF_vars(InCall(t)) /\ WF_vars(InThreadExit(t))
            /\ WF_vars(InExit)

-----------------------------------------------------------------------------
TypeOK == /\ pc \in [Threads -> {"idle", "alloc", "seed", "link", "enter", "generate",
                                 "unlink", "free"}]
          /\ left \in [Threads -> 0 .. MaxChunks]
          /\ tls \in [Threads -> BOOLEAN] /\ onStack \in [Threads -> BOOLEAN]
          /\ drbg \in [Places -> {"raw", "keyed", "zero"}]
          /\ calls \in [Places -> Nat]
          /\ head \in Threads \cup {NULL} /\ cur \in Threads \cup {NULL}
          /\ next \in [Threads -> Threads \cup {NULL}]
          /\ prev \in [Threads -> Threads \cup {NULL}]
          /\ readers = {t \in Threads : pc[t] = "generate"}
          /\ writer = IF exit \in {"clears", "done"} THEN "exit" ELSE NULL
          /\ exit \in {"no", "waits", "clears", "done"}
          /\ made \in 0 .. MaxCalls

\* The states a thread has put on the list and not taken off.
Linked == {t \in Threads : tls[t] /\ pc[t] \notin {"seed", "link", "free"}}

\* The comments at rand.c:70 and 77: next and prev form a NULL-terminated, double
\* linked list, headed by thread_states_list, of the states of all threads.
ListOfLinked ==
    \E order \in [1 .. Cardinality(Linked) -> Linked] :
        LET n     == Cardinality(Linked)
            at(i) == IF i \in 1 .. n THEN order[i] ELSE NULL
        IN  /\ {order[i] : i \in 1 .. n} = Linked
            /\ head = at(1)
            /\ \A i \in 1 .. n : next[order[i]] = at(i + 1) /\ prev[order[i]] = at(i - 1)

\* The comment at rand.c:294: no byte is returned from a generator that is zeroed,
\* freed or not yet seeded, whenever the process exits.
GeneratesKeyed == \A t \in Threads : pc[t] = "generate" => drbg[State(t)] = "keyed"

\* When clear_all has ended, the generators of all linked states are zeroed, and
\* stay so: no thread reseeds one.
LinkedZeroed == exit = "done" => \A t \in Linked : drbg[<<t, "heap">>] = "zero"

\* A state on the stack does not outlive its call with a key in it.
StackLeftClean == \A t \in Threads : pc[t] = "idle" => drbg[<<t, "stack">>] # "keyed"

\* The comment at rand.c:60 bounds `calls' by kReseedInterval, and the code does not
\* keep that (CallsWithinInterval below).  What it keeps: the check is made once for
\* each call of RAND_bytes, so the generate calls without a reseed pass the interval
\* by what one such call adds, less one, and no further.
CallsBounded == \A s \in Places : calls[s] <= kReseedInterval - 1 + MaxChunks

\* As long as the process does not exit, every call of RAND_bytes and every thread
\* exit ends: no thread leaves the lock taken.
CallsReturn == \A t \in Threads : pc[t] # "idle" ~> (pc[t] = "idle" \/ exit # "no")

\* An exit that was called ends, whatever the threads are doing.
ExitEnds == exit = "waits" ~> exit = "done"

-----------------------------------------------------------------------------
\* Two comments the code does not keep.  The one at rand.c:77: the list exists so
\* that all states in the process are zeroed on exit (a state that its own thread is
\* about to zero and free may wait for that).
AllZeroed ==
    exit = "done" => \A s \in Places : drbg[s] = "keyed" => pc[s[1]] = "free"

\* The one at rand.c:60: `calls' is bound by kReseedInterval.
CallsWithinInterval == \A s \in Places : calls[s] <= kReseedInterval

\* In every state one of the comments at rand.c:60 and rand.c:77 holds.  A state
\* that violates this weaker statement violates each of the two.
OneCommentHolds == AllZeroed \/ CallsWithinInterval
=============================================================================
