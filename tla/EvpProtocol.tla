---------------------------- MODULE EvpProtocol ----------------------------
(***************************************************************************)
(* One EVP_CIPHER_CTX for AES-GCM under every order of EVP calls: keys and *)
(* IVs given together, apart or not at all, the direction changed on the   *)
(* way, AAD, message bytes, tags set, read and compared.                   *)
(***************************************************************************)
EXTENDS EvpAesGcm

CONSTANTS Keys, Ivs,
          MaxChunk,    \* bound on the bytes of one call
          MaxFinals    \* bound on the finals between two keys or IVs

ASSUME EvpAssumption == /\ NULL \notin Keys \cup Ivs
                        /\ ZeroIv \notin Ivs \cup {NULL}
                        /\ MaxChunk \in Nat /\ MaxFinals \in Nat

VARIABLE c   \* the context

\* Auxiliary: the finals since a key or an IV was given; the IV last given;
\* whether the message of the IV in force was sealed or accepted; what the last
\* final returned, and whether the tag it compared with or produced was right.
VARIABLES finals, lastIv, sealed, verdict

vars == <<c, finals, lastIv, sealed, verdict>>

NoVerdict == [ok |-> FALSE, right |-> FALSE, split |-> FALSE]

\* The tag of what was given to the context under the nonce in force.
Expected == <<c.nonce, ReferenceTag(From(0, c.g.lenA), From(0, c.g.lenM))>>

Init == /\ c \in {CipherInit(enc) : enc \in BOOLEAN}
        /\ finals = 0 /\ lastIv = NULL /\ sealed = FALSE
        /\ verdict = NoVerdict

\* A call of EVP_CipherInit_ex on the configured context.
ReInit(key, iv, enc) ==
    /\ c' = CipherReInit(c, key, iv, enc)
    /\ lastIv' = IF iv # NULL THEN iv ELSE lastIv
    /\ sealed' = (sealed /\ ~c'.ivSet)
    /\ finals' = IF key = NULL /\ iv = NULL THEN finals ELSE 0
    /\ verdict' = NoVerdict

GiveAad(n) == /\ UpdateOk(c, "aad", From(c.g.lenA, n))
              /\ c' = Update(c, "aad", From(c.g.lenA, n))
              /\ UNCHANGED <<finals, lastIv, sealed, verdict>>

GiveMessage(n) == /\ UpdateOk(c, "msg", From(c.g.lenM, n))
                  /\ c' = Update(c, "msg", From(c.g.lenM, n))
                  /\ UNCHANGED <<finals, lastIv, sealed, verdict>>

\* The caller sets the right tag of what was given so far, or bytes that are no
\* tag's.
GiveTag(value) == /\ SetTagOk(c, B)
                  /\ c' = SetTag(c, B, value)
                  /\ UNCHANGED <<finals, lastIv, sealed, verdict>>

DoFinal == /\ finals < MaxFinals
           /\ c' = Final(c)
           /\ finals' = finals + 1
           /\ sealed' = (sealed \/ FinalOk(c))
           /\ verdict' = [ok    |-> FinalOk(c),
                          right |-> (IF c.encrypt THEN c' ELSE c).buf = Expected,
                          split |-> AadSplit(c.g)]
           /\ UNCHANGED lastIv

Next == \/ \E key \in Keys \cup {NULL}, iv \in Ivs \cup {NULL}, enc \in BOOLEAN :
              ReInit(key, iv, enc)
        \/ \E n \in 0 .. MaxChunk : GiveAad(n) \/ GiveMessage(n)
        \/ \E value \in {Expected, NULL} : GiveTag(value)
        \/ DoFinal

Spec == Init /\ [][Next]_vars

-----------------------------------------------------------------------------
TypeOK == /\ c.encrypt \in BOOLEAN /\ c.keySet \in BOOLEAN /\ c.ivSet \in BOOLEAN
          /\ c.iv \in Ivs \cup {ZeroIv}
          /\ c.taglen \in -1 .. B
          /\ c.nonce \in (Keys \cup {NULL}) \X (Ivs \cup {NULL, ZeroIv})

\* The first final under a key and an IV, when it returns one, has compared with
\* or produced the tag of all the AAD and all the message bytes given under
\* them: no tag left in ctx->buf, no message cut short and no change of key, IV
\* or direction on the way makes it vouch for anything else.
VerdictIsOfThisMessage ==
    verdict.ok /\ ~verdict.split /\ finals = 1 => verdict.right

\* Once the message is sealed or accepted, no call combines another byte with
\* the keystream, and none computes another tag, before an IV is in force
\* again.
SealedStaysSealed ==
    [][sealed /\ sealed' => /\ Len(c'.g.ks) <= Len(c.g.ks)
                            /\ (verdict' # verdict => ~verdict'.ok)]_vars

\* openssl/cipher.h on EVP_CipherInit_ex: "If |ctx| has been previously
\* configured with a cipher then |cipher|, |key| and |iv| may be |NULL| and
\* |enc| may be -1 to reuse the previous values."  So with a key and no IV the
\* context runs under that key and the IV given last.
PreviousIvReused ==
    Ready(c) /\ lastIv # NULL => c.nonce[2] = lastIv
=============================================================================
