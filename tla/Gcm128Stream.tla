--------------------------- MODULE Gcm128Stream ---------------------------
(***************************************************************************)
(* A GCM128_CONTEXT under every order of calls: AAD, message bytes and     *)
(* finish calls of any length, and a new IV at any time.  The n-th byte of *)
(* AAD, or of message, given since the IV was set is called n.             *)
(***************************************************************************)
EXTENDS Gcm128

CONSTANTS MaxChunk,    \* bound on the bytes of one call
          MaxFinishes  \* bound on the finish calls under one IV

ASSUME StreamAssumption == MaxChunk \in Nat /\ MaxFinishes \in Nat

VARIABLE g   \* the GCM128_CONTEXT

\* Auxiliary: the finish calls under this IV, and what the last one computed.
VARIABLES finishes, tag

vars == <<g, finishes, tag>>

NoTag == [value |-> {}, reference |-> {}, split |-> FALSE]

Init == g = SetIv /\ finishes = 0 /\ tag = NoTag

NewIv == g' = SetIv /\ finishes' = 0 /\ tag' = NoTag

GiveAad(n) == /\ AadAccepts(g, From(g.lenA, n))
              /\ g' = Aad(g, From(g.lenA, n))
              /\ UNCHANGED <<finishes, tag>>

GiveMessage(n) == /\ CryptAccepts(g, From(g.lenM, n))
                  /\ g' = Crypt(g, From(g.lenM, n))
                  /\ UNCHANGED <<finishes, tag>>

DoFinish == /\ finishes < MaxFinishes
            /\ g' = Finish(g)
            /\ finishes' = finishes + 1
            /\ tag' = [value     |-> TagValue(g),
                       reference |-> ReferenceTag(From(0, g.lenA), From(0, g.lenM)),
                       split     |-> AadSplit(g)]

Next == \/ NewIv
        \/ \E n \in 0 .. MaxChunk : GiveAad(n) \/ GiveMessage(n)
        \/ DoFinish

Spec == Init /\ [][Next]_vars

-----------------------------------------------------------------------------
\* The residues stay inside a block and the lengths inside their limits.
TypeOK == /\ g.Yi \in 0 .. CtrMod - 1 /\ g.EKi \in 0 .. CtrMod - 1
          /\ g.lenA \in 0 .. AadLimit /\ g.lenM \in 0 .. MsgLimit
          /\ g.ares \in 0 .. B - 1 /\ g.mres \in 0 .. B - 1
          /\ Len(g.ks) = g.lenM

\* No two message bytes under one IV meet the same keystream byte, and none
\* meets a byte of the block that masks the tag (counter 1): with the 32-bit
\* counter about to wrap, the length check of CRYPTO_gcm128_encrypt stops it.
KeystreamNeverReused ==
    /\ \A i, j \in DOMAIN g.ks : g.ks[i] = g.ks[j] => i = j
    /\ \A i \in DOMAIN g.ks : g.ks[i][1] # 1

\* Sender and receiver meet the same keystream: byte i is combined with byte i
\* of the keystream, however the message is cut into calls.
KeystreamInOrder ==
    \A i \in DOMAIN g.ks : g.ks[i] = <<2 + (i - 1) \div B, (i - 1) % B>>

\* However AAD and message are cut into calls, the first finish under an IV
\* computes the tag GCM defines for them, unless AAD was accepted after a call
\* for message bytes, perhaps for none, had closed an open block of AAD.
TagOfWholeMessage ==
    finishes = 1 /\ ~tag.split => tag.value = tag.reference

\* A finish leaves its value in Xi: no later finish under that IV, with or
\* without more bytes, computes the tag of what was given.  After one failed
\* comparison nothing is accepted.
NoSecondTag == finishes > 1 => tag.value # tag.reference

\* modes/internal.h on CRYPTO_gcm128_aad: it "sets the authenticated data for an
\* instance of GCM" and "returns one on success and zero otherwise".  So when
\* every call returned one, the AAD that was given is what the tag covers.
AadAuthenticatedAsGiven == finishes = 1 => tag.value = tag.reference
=============================================================================
