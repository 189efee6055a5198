---------------------------- MODULE SealedMessage ----------------------------
(***************************************************************************)
(* What a cipher object promises to the caller of one direction or the     *)
(* other, without contexts, reserves, tags or hash states: data is given   *)
(* in calls of any length and handed on in order, and at most one doFinal  *)
(* ends the message.  Opening, the last `size' bytes given may be the tag, *)
(* so none of them is ever handed on, and only an authentic message ends.  *)
(* A call may also throw; the bytes it would have handed on are lost.      *)
(***************************************************************************)
EXTENDS Integers, SequencesExt

VARIABLES opening,     \* or sealing
          size,        \* bytes of tag at the end of a message that is opened
          given,       \* the data given since the last init
          passed,      \* how many bytes of it can no longer be handed on
          out,         \* the bytes handed on
          authentic,   \* what was given is what a sender sealed
          ended        \* a doFinal did its work

vars == <<opening, size, given, passed, out, authentic, ended>>

Init == given = << >> /\ passed = 0 /\ out = << >> /\ ~ended

\* An init, with whatever direction and tag length.
Start == given' = << >> /\ passed' = 0 /\ out' = << >> /\ ~ended'

\* More may be given, and bytes up to the one numbered `to' are handed on.
HandOn(to) ==
    /\ UNCHANGED <<opening, size>>
    /\ IsPrefix(given, given')
    /\ passed' \in passed .. Len(given')
    /\ out' = out \o SubSeq(given', passed + 1, to)

Give == /\ ~ended /\ ~ended'
        /\ HandOn(passed')
        /\ opening => passed' <= Len(given') - size \/ passed' = passed

\* A call that throws.
Throw == HandOn(passed) /\ UNCHANGED ended

\* The message ends here; a caller whose array is too short does not get the rest.
End == /\ ~ended /\ ended'
       /\ passed' = Len(given')
       /\ HandOn(IF opening THEN Len(given') - size ELSE Len(given')) \/ HandOn(passed)
       /\ opening => authentic'

Next == Start \/ Give \/ Throw \/ End

Spec == Init /\ [][Next]_vars
=============================================================================
