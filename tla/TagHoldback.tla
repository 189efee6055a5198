---------------------------- MODULE TagHoldback ----------------------------
(***************************************************************************)
(* What a ReserveBuffer promises to the decrypting cipher, without the     *)
(* ring that keeps the promise: of a stream of bytes, the last `size' are  *)
(* always kept back (they may be the authentication tag) and every earlier *)
(* byte has been handed on, once and in order.                             *)
(*                                                                         *)
(* The bytes are their positions 1, 2, 3, ... in the stream.  An array is  *)
(* a function on 0..length-1, as in Java.                                  *)
(***************************************************************************)
EXTENDS Integers

CONSTANTS Sizes,    \* the reserve sizes a caller may ask for, in bytes
          MaxFed    \* bound on the length of the stream

VARIABLES size,     \* the size the reserve was built with
          fed,      \* how many bytes went in
          emitted,  \* how many came out again
          out       \* the array the last call returned

vars == <<size, fed, emitted, out>>

\* The next n bytes of the stream that are due to come out.
NextOut(n) == [i \in 0 .. n - 1 |-> emitted + 1 + i]

Init == /\ size \in Sizes
        /\ fed = 0
        /\ emitted = 0
        /\ out = NextOut(0)

\* How many bytes come out when n more go in: what exceeds the reserve.
Excess(n) == IF fed + n - emitted > size THEN fed + n - emitted - size ELSE 0

Feed(n) == /\ fed' = fed + n
           /\ emitted' = emitted + Excess(n)
           /\ out' = NextOut(Excess(n))
           /\ UNCHANGED size

\* The caller takes n of the bytes kept back.
Take(n) ==
    /\ n <= fed - emitted
    /\ emitted' = emitted + n
    /\ out' = NextOut(n)
    /\ UNCHANGED <<size, fed>>

\* Only a reserve of size 0 may refuse a call, and then nothing goes in.
Refuse == /\ size = 0
          /\ out' = NextOut(0)
          /\ UNCHANGED <<size, fed, emitted>>

Next == \/ \E n \in 0 .. MaxFed : Feed(n) \/ Take(n)
        \/ Refuse

Spec == Init /\ [][Next]_vars
=============================================================================
