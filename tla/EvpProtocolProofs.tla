-------------------------- MODULE EvpProtocolProofs --------------------------
(***************************************************************************)
(* Theorems about EvpProtocol, for all keys and IVs, every block size,     *)
(* limit and bound: which message a final vouches for, and that a sealed   *)
(* context stays sealed until it is given an IV.                           *)
(***************************************************************************)
EXTENDS EvpProtocol, Gcm128Proofs

\* The fields of an EVP_CIPHER_CTX.
IsEvp(d) ==
    d = [encrypt |-> d.encrypt, keySet |-> d.keySet, ivSet |-> d.ivSet, iv |-> d.iv,
         taglen |-> d.taglen, buf |-> d.buf, g |-> d.g, nonce |-> d.nonce]

\* The fields of d have their types; but for g.
FieldTypes(d) ==
    /\ IsEvp(d)
    /\ d.encrypt \in BOOLEAN /\ d.keySet \in BOOLEAN /\ d.ivSet \in BOOLEAN
    /\ d.iv \in Ivs \cup {ZeroIv}
    /\ d.taglen \in -1 .. B
    /\ d.nonce \in (Keys \cup {NULL}) \X (Ivs \cup {NULL, ZeroIv})

\* Before the first final, Xi holds the sum of all that was given, as long as the AAD
\* was not split.  (A final that is refused counts among the finals and leaves the
\* sum, so that nothing is said of Xi after one.)
Unfinished(g, n) == Context(g) /\ (n = 0 /\ ~AadSplit(g) => Sum(g))

\* Bytes are taken only once there is a key.
TakesNothing(d) == ~d.keySet => d.g = SetIv

-----------------------------------------------------------------------------
\* CRYPTO_gcm128_setiv, _aad, and the two that encrypt and decrypt.
LEMMA FreshUnfinished == ASSUME NEW n PROVE Unfinished(SetIv, n)
<1>1. Context(SetIv) /\ ~AadSplit(SetIv)
    BY FreshContext DEF AadSplit, SetIv
<1>2. Tracked(SetIv, 0)
    BY FreshTracked
<1> QED BY <1>1, <1>2 DEF Unfinished, Tracked

LEMMA AadKeepsUnfinished ==
    ASSUME NEW g, NEW n, Unfinished(g, n), NEW k \in Nat, AadAccepts(g, From(g.lenA, k))
    PROVE  Unfinished(Aad(g, From(g.lenA, k)), n)
<1> DEFINE in == From(g.lenA, k)
           d == Aad(g, in)
<1>1. Context(g) /\ IsGcm(g) /\ g.lenA \in Nat
    BY ContextTypes DEF Unfinished
<1>2. in \in Seq(Nat) /\ Len(in) = k
    BY <1>1, FromIs
<1>3. AadAccepts(g, in)
    OBVIOUS
<1> HIDE DEF in
<1>4. d.lenA = g.lenA + Len(in) /\ d.padAt = g.padAt
    BY <1>1, AadIs
<1>5. Context(d)
    BY <1>1, <1>2, <1>3, AadKeepsContext
<1>6. g.padAt \in Nat
    BY <1>1 DEF Context, Order, AadFields
<1> HIDE DEF d
<1>7. ASSUME AadSplit(g) PROVE AadSplit(d)
    BY <1>1, <1>2, <1>4, <1>6, <1>7 DEF AadSplit
<1>8. ASSUME n = 0, ~AadSplit(d) PROVE Sum(d)
    <2>1. Tracked(g, 0)
        BY <1>7, <1>8 DEF Unfinished, Tracked
    <2>2. Tracked(d, 0)
        BY <2>1, AadKeepsTracked DEF d, in
    <2> QED BY <1>8, <2>2 DEF Tracked
<1> QED BY <1>5, <1>8 DEF Unfinished, d, in

LEMMA CryptKeepsUnfinished ==
    ASSUME NEW g, NEW n, Unfinished(g, n), NEW k \in Nat, CryptAccepts(g, From(g.lenM, k))
    PROVE  Unfinished(Crypt(g, From(g.lenM, k)), n)
<1> DEFINE in == From(g.lenM, k)
           d == Crypt(g, in)
<1>1. Context(g) /\ g.lenM \in Nat
    BY ContextTypes DEF Unfinished
<1>2. in \in Seq(Nat) /\ Len(in) = k
    BY <1>1, FromIs
<1>3. CryptAccepts(g, in)
    OBVIOUS
<1> HIDE DEF in
<1>4. d.lenA = g.lenA /\ d.padAt = PadAfter(g)
    BY <1>2, CryptIs
<1>5. Context(d)
    BY <1>1, <1>2, <1>3, CryptKeepsContext
<1> HIDE DEF d
<1>6. ASSUME AadSplit(g) PROVE AadSplit(d)
    BY <1>4, <1>6 DEF AadSplit, PadAfter
<1>7. ASSUME n = 0, ~AadSplit(d) PROVE Sum(d)
    <2>1. Tracked(g, 0)
        BY <1>6, <1>7 DEF Unfinished, Tracked
    <2>2. Tracked(d, 0)
        BY <2>1, CryptKeepsTracked DEF d, in
    <2> QED BY <1>7, <2>2 DEF Tracked
<1> QED BY <1>5, <1>7 DEF Unfinished, d, in

LEMMA FinishIsUnfinished ==
    ASSUME NEW g, Context(g), NEW n \in Nat
    PROVE  Unfinished(Finish(g), n + 1)
BY FinishKeepsContext DEF Unfinished

-----------------------------------------------------------------------------
SealedInv == sealed => ~c.ivSet

IInv == /\ FieldTypes(c) /\ TakesNothing(c)
        /\ finals \in Nat /\ Unfinished(c.g, finals)
        /\ SealedInv
        /\ VerdictIsOfThisMessage

\* What one step owes the action property.
StepSeals == sealed /\ sealed' => /\ Len(c'.g.ks) <= Len(c.g.ks)
                                  /\ (verdict' # verdict => ~verdict'.ok)

LEMMA KeystreamLength == ASSUME NEW g, Context(g) PROVE Len(g.ks) \in Nat
BY ContextTypes DEF Context, Order, Fields

LEMMA InitIInv == Init => IInv
<1> SUFFICES ASSUME Init PROVE IInv
    OBVIOUS
<1>1. PICK enc \in BOOLEAN : c = CipherInit(enc)
    BY DEF Init
<1>2. FieldTypes(c)
    BY <1>1, GcmAssumption DEF FieldTypes, IsEvp, CipherInit
<1>3. c.g = SetIv
    BY <1>1 DEF CipherInit
<1> QED BY <1>2, <1>3, FreshUnfinished
        DEF Init, IInv, TakesNothing, SealedInv, VerdictIsOfThisMessage, NoVerdict

\* EVP_CipherInit_ex: with neither a key nor an IV it leaves g; otherwise g is fresh,
\* or it still is because there never was a key.
LEMMA ReInitIs ==
    ASSUME NEW key \in Keys \cup {NULL}, NEW iv \in Ivs \cup {NULL}, NEW enc \in BOOLEAN,
           FieldTypes(c), TakesNothing(c)
    PROVE  LET d == CipherReInit(c, key, iv, enc)
           IN  /\ FieldTypes(d) /\ TakesNothing(d)
               /\ IF key = NULL /\ iv = NULL THEN d.g = c.g /\ d.ivSet = c.ivSet
                                             ELSE d.g = SetIv
<1> DEFINE e == [c EXCEPT !.encrypt = enc]
<1>1. FieldTypes(e) /\ e.g = c.g /\ e.keySet = c.keySet /\ e.ivSet = c.ivSet
    BY DEF FieldTypes, IsEvp
<1> HIDE DEF e
<1>2. CASE key # NULL
    <2> DEFINE used == IF iv # NULL THEN iv ELSE IF e.ivSet THEN e.iv ELSE NULL
    <2>1. used \in Ivs \cup {NULL, ZeroIv} /\ <<key, used>> \in (Keys \cup {NULL}) \X (Ivs \cup {NULL, ZeroIv})
        BY <1>1 DEF FieldTypes
    <2>2. CipherReInit(c, key, iv, enc) =
             [e EXCEPT !.keySet = TRUE, !.ivSet = used # NULL \/ @, !.g = SetIv,
                       !.nonce = <<key, used>>]
        BY <1>2 DEF CipherReInit, InitKey, e
    <2> HIDE DEF used
    <2> QED BY <1>1, <1>2, <2>1, <2>2 DEF FieldTypes, IsEvp, TakesNothing
<1>3. CASE key = NULL /\ iv # NULL
    <2>1. CipherReInit(c, key, iv, enc) = InitIv(e, iv)
        BY <1>3 DEF CipherReInit, e
    <2>2. e.nonce[1] \in Keys \cup {NULL} /\ iv \in Ivs
        BY <1>1, <1>3 DEF FieldTypes
    <2>3. <<e.nonce[1], iv>> \in (Keys \cup {NULL}) \X (Ivs \cup {NULL, ZeroIv})
        BY <2>2
    <2>4. CASE e.keySet
        <3> DEFINE n == <<e.nonce[1], iv>>
        <3>1. InitIv(e, iv) = [e EXCEPT !.ivSet = TRUE, !.g = SetIv, !.nonce = n]
            BY <2>4 DEF InitIv
        <3>2. n \in (Keys \cup {NULL}) \X (Ivs \cup {NULL, ZeroIv})
            BY <2>3
        <3> HIDE DEF n
        <3>3. CipherReInit(c, key, iv, enc) =
                 [encrypt |-> e.encrypt, keySet |-> e.keySet, ivSet |-> TRUE, iv |-> e.iv,
                  taglen |-> e.taglen, buf |-> e.buf, g |-> SetIv, nonce |-> n]
            BY <1>1, <2>1, <3>1 DEF FieldTypes, IsEvp
        <3> QED BY <1>1, <1>3, <3>2, <3>3 DEF FieldTypes, IsEvp, TakesNothing
    <2>5. CASE ~e.keySet
        <3>1. InitIv(e, iv) = [e EXCEPT !.ivSet = TRUE, !.iv = iv]
            BY <2>5 DEF InitIv
        <3>2. CipherReInit(c, key, iv, enc) =
                 [encrypt |-> e.encrypt, keySet |-> e.keySet, ivSet |-> TRUE, iv |-> iv,
                  taglen |-> e.taglen, buf |-> e.buf, g |-> e.g, nonce |-> e.nonce]
            BY <1>1, <2>1, <3>1 DEF FieldTypes, IsEvp
        <3>3. e.g = SetIv
            BY <1>1, <2>5 DEF TakesNothing
        <3> QED BY <1>1, <1>3, <2>2, <3>2, <3>3 DEF FieldTypes, IsEvp, TakesNothing
    <2> QED BY <2>4, <2>5
<1>4. CASE key = NULL /\ iv = NULL
    <2>1. CipherReInit(c, key, iv, enc) = e
        BY <1>4 DEF CipherReInit, e
    <2> QED BY <1>1, <1>4, <2>1 DEF TakesNothing
<1> QED BY <1>2, <1>3, <1>4

LEMMA ReInitKeeps ==
    ASSUME IInv, NEW key \in Keys \cup {NULL}, NEW iv \in Ivs \cup {NULL},
           NEW enc \in BOOLEAN, ReInit(key, iv, enc)
    PROVE  IInv' /\ StepSeals
<1>1. /\ c' = CipherReInit(c, key, iv, enc)
      /\ sealed' = (sealed /\ ~c'.ivSet)
      /\ finals' = IF key = NULL /\ iv = NULL THEN finals ELSE 0
      /\ verdict' = NoVerdict
    BY DEF ReInit
<1>2. FieldTypes(c) /\ TakesNothing(c) /\ finals \in Nat /\ Unfinished(c.g, finals)
    BY DEF IInv
<1>3. /\ FieldTypes(c') /\ TakesNothing(c')
      /\ IF key = NULL /\ iv = NULL THEN c'.g = c.g /\ c'.ivSet = c.ivSet
                                    ELSE c'.g = SetIv
    BY <1>1, <1>2, ReInitIs
<1>4. finals' \in Nat /\ Unfinished(c'.g, finals')
    <2>1. CASE key = NULL /\ iv = NULL
        BY <1>1, <1>2, <1>3, <2>1
    <2>2. CASE ~(key = NULL /\ iv = NULL)
        <3>1. c'.g = SetIv /\ finals' = 0
            BY <1>1, <1>3, <2>2
        <3> QED BY <3>1, FreshUnfinished
    <2> QED BY <2>1, <2>2
<1>5. ~verdict'.ok
    BY <1>1 DEF NoVerdict
<1>6. Len(c'.g.ks) <= Len(c.g.ks)
    <2>1. Len(c.g.ks) \in Nat
        BY <1>2, KeystreamLength DEF Unfinished
    <2>2. Len(SetIv.ks) = 0
        BY EmptySeq DEF SetIv
    <2>3. CASE c'.g = c.g
        BY <2>1, <2>3
    <2>4. CASE c'.g = SetIv
        BY <2>1, <2>2, <2>4
    <2> QED BY <1>3, <2>3, <2>4
<1> QED BY <1>1, <1>3, <1>4, <1>5, <1>6 DEF IInv, SealedInv, VerdictIsOfThisMessage, StepSeals

\* EVP_CipherUpdate needs an IV in force, and so a message that is not sealed.
LEMMA UpdateKeeps ==
    ASSUME IInv, NEW h, Ready(c), c' = [c EXCEPT !.g = h], Unfinished(h, finals),
           UNCHANGED <<finals, lastIv, sealed, verdict>>
    PROVE  IInv' /\ StepSeals
<1>1. FieldTypes(c') /\ c'.g = h /\ c'.keySet = c.keySet /\ c'.ivSet = c.ivSet
    BY DEF IInv, FieldTypes, IsEvp
<1> QED BY <1>1 DEF IInv, TakesNothing, SealedInv, VerdictIsOfThisMessage, Ready, StepSeals

LEMMA GiveAadKeeps ==
    ASSUME IInv, NEW n \in Nat, GiveAad(n)
    PROVE  IInv' /\ StepSeals
<1> DEFINE h == Aad(c.g, From(c.g.lenA, n))
<1>1. Ready(c) /\ AadAccepts(c.g, From(c.g.lenA, n)) /\ c' = [c EXCEPT !.g = h]
    BY DEF GiveAad, UpdateOk, Update
<1>2. Unfinished(h, finals)
    BY <1>1, AadKeepsUnfinished DEF IInv
<1>3. UNCHANGED <<finals, lastIv, sealed, verdict>>
    BY DEF GiveAad
<1> HIDE DEF h
<1> QED BY <1>1, <1>2, <1>3, UpdateKeeps

LEMMA GiveMessageKeeps ==
    ASSUME IInv, NEW n \in Nat, GiveMessage(n)
    PROVE  IInv' /\ StepSeals
<1> DEFINE h == Crypt(c.g, From(c.g.lenM, n))
<1>1. Ready(c) /\ CryptAccepts(c.g, From(c.g.lenM, n)) /\ c' = [c EXCEPT !.g = h]
    BY DEF GiveMessage, UpdateOk, Update
<1>2. Unfinished(h, finals)
    BY <1>1, CryptKeepsUnfinished DEF IInv
<1>3. UNCHANGED <<finals, lastIv, sealed, verdict>>
    BY DEF GiveMessage
<1> HIDE DEF h
<1> QED BY <1>1, <1>2, <1>3, UpdateKeeps

\* EVP_CTRL_AEAD_SET_TAG touches neither g nor iv_set.
LEMMA GiveTagKeeps ==
    ASSUME IInv, NEW value, GiveTag(value)
    PROVE  IInv' /\ StepSeals
<1>1. c' = [c EXCEPT !.buf = value, !.taglen = B] /\ B \in -1 .. B
    BY GcmAssumption DEF GiveTag, SetTag
<1>2. FieldTypes(c') /\ c'.g = c.g /\ c'.keySet = c.keySet /\ c'.ivSet = c.ivSet
    BY <1>1 DEF IInv, FieldTypes, IsEvp
<1>3. Len(c.g.ks) \in Nat
    BY KeystreamLength DEF IInv, Unfinished
<1>4. UNCHANGED <<finals, lastIv, sealed, verdict>>
    BY DEF GiveTag
<1> QED BY <1>2, <1>3, <1>4 DEF IInv, TakesNothing, SealedInv, VerdictIsOfThisMessage, StepSeals

\* EVP_CipherFinal_ex leaves g or finishes it, and takes the IV away when it returns 1.
LEMMA FinalIs ==
    ASSUME FieldTypes(c)
    PROVE  /\ FieldTypes(Final(c))
           /\ Final(c).keySet = c.keySet
           /\ Final(c).g = c.g \/ (Ready(c) /\ Final(c).g = Finish(c.g))
           /\ Final(c).ivSet => c.ivSet /\ ~FinalOk(c)
           /\ FinalOk(c) => (IF c.encrypt THEN Final(c) ELSE c).buf = TagOf(c)
           /\ ~Ready(c) => Final(c) = c /\ ~FinalOk(c)
<1>1. CASE ~Ready(c)
    BY <1>1 DEF Final, FinalOk, FieldTypes, Ready
<1>2. CASE Ready(c) /\ c.encrypt
    <2>1. Final(c) = [c EXCEPT !.g = Finish(c.g), !.buf = TagOf(c), !.taglen = B,
                               !.ivSet = FALSE]
        BY <1>2 DEF Final, Seal
    <2>2. B \in -1 .. B
        BY GcmAssumption
    <2> QED BY <1>2, <2>1, <2>2 DEF FieldTypes, IsEvp
<1>3. CASE Ready(c) /\ ~c.encrypt /\ c.taglen >= 0
    <2>1. Final(c) = [c EXCEPT !.g = Finish(c.g), !.ivSet = ~TagMatches(c)]
        BY <1>3 DEF Final, Open
    <2>2. FinalOk(c) <=> TagMatches(c)
        BY <1>3 DEF FinalOk
    <2>3. TagMatches(c) \in BOOLEAN
        BY DEF TagMatches
    <2>4. c.ivSet
        BY <1>3 DEF Ready
    <2>5. FieldTypes(Final(c)) /\ Final(c).keySet = c.keySet /\ Final(c).g = Finish(c.g)
          /\ Final(c).ivSet = ~TagMatches(c)
        BY <2>1, <2>3 DEF FieldTypes, IsEvp
    <2>6. TagMatches(c) => c.buf = TagOf(c)
        BY DEF TagMatches
    <2> QED BY <1>3, <2>2, <2>4, <2>5, <2>6
<1>4. CASE Ready(c) /\ ~c.encrypt /\ ~(c.taglen >= 0)
    BY <1>4 DEF Final, FinalOk, FieldTypes, Ready
<1> QED BY <1>1, <1>2, <1>3, <1>4

\* The first final compares with, or leaves, the tag of what was given.
LEMMA DoFinalKeeps ==
    ASSUME IInv, DoFinal
    PROVE  IInv' /\ StepSeals
<1> DEFINE right == (IF c.encrypt THEN c' ELSE c).buf = Expected
           split == AadSplit(c.g)
           ok == FinalOk(c)
<1>1. /\ c' = Final(c) /\ finals' = finals + 1 /\ sealed' = (sealed \/ ok)
      /\ verdict' = [ok |-> ok, right |-> right, split |-> split]
    BY DEF DoFinal
<1>2. FieldTypes(c) /\ TakesNothing(c) /\ finals \in Nat /\ Unfinished(c.g, finals)
    BY DEF IInv
<1>3. /\ FieldTypes(c') /\ c'.keySet = c.keySet
      /\ c'.g = c.g \/ (Ready(c) /\ c'.g = Finish(c.g))
      /\ c'.ivSet => c.ivSet /\ ~FinalOk(c)
      /\ FinalOk(c) => (IF c.encrypt THEN c' ELSE c).buf = TagOf(c)
      /\ ~Ready(c) => c' = c /\ ~FinalOk(c)
    BY <1>1, <1>2, FinalIs, Zenon
<1>4. TakesNothing(c') /\ Unfinished(c'.g, finals')
    <2>1. CASE c'.g = c.g
        BY <1>1, <1>2, <1>3, <2>1 DEF TakesNothing, Unfinished
    <2>2. CASE Ready(c) /\ c'.g = Finish(c.g)
        <3>1. Unfinished(Finish(c.g), finals + 1)
            BY <1>2, FinishIsUnfinished DEF Unfinished
        <3> QED BY <1>1, <1>3, <2>2, <3>1 DEF TakesNothing, Ready
    <2> QED BY <1>3, <2>1, <2>2
<1>5. ASSUME ok, ~split, finals = 0 PROVE right
    <2>1. Sum(c.g) /\ Context(c.g)
        BY <1>2, <1>5 DEF Unfinished
    <2>2. TagValue(c.g) = ReferenceTag(From(0, c.g.lenA), From(0, c.g.lenM))
        BY <2>1, FinishIsReference DEF Sum
    <2>3. TagOf(c) = Expected
        BY <2>2 DEF TagOf, Expected
    <2> QED BY <1>3, <1>5, <2>3
<1> HIDE DEF right, split
<1>6. verdict'.ok = ok /\ verdict'.right = right /\ verdict'.split = split
    BY <1>1
<1>7. VerdictIsOfThisMessage'
    <2>1. finals' = 1 => finals = 0
        BY <1>1, <1>2
    <2> QED BY <1>5, <1>6, <2>1 DEF VerdictIsOfThisMessage
<1>8. SealedInv'
    <2>1. sealed => ~c.ivSet
        BY DEF SealedInv, IInv
    <2> QED BY <1>1, <1>3, <2>1 DEF SealedInv
<1>9. StepSeals
    <2>1. sealed => ~Ready(c)
        BY DEF IInv, SealedInv, Ready
    <2>2. Len(c.g.ks) \in Nat
        BY <1>2, KeystreamLength DEF Unfinished
    <2>3. sealed => Len(c'.g.ks) <= Len(c.g.ks)
        BY <1>3, <2>1, <2>2
    <2>4. sealed => ~verdict'.ok
        BY <1>3, <1>6, <2>1
    <2> QED BY <2>3, <2>4 DEF StepSeals
<1> QED BY <1>1, <1>2, <1>3, <1>4, <1>7, <1>8, <1>9 DEF IInv

LEMMA NextKeeps == IInv /\ [Next]_vars => IInv' /\ (StepSeals \/ UNCHANGED vars)
<1> SUFFICES ASSUME IInv, [Next]_vars PROVE IInv' /\ (StepSeals \/ UNCHANGED vars)
    OBVIOUS
<1>1. CASE UNCHANGED vars
    BY <1>1 DEF vars, IInv, SealedInv, VerdictIsOfThisMessage
<1>2. ASSUME NEW key \in Keys \cup {NULL}, NEW iv \in Ivs \cup {NULL}, NEW enc \in BOOLEAN,
             ReInit(key, iv, enc)
      PROVE  IInv' /\ StepSeals
    BY <1>2, ReInitKeeps
<1>3. ASSUME NEW n \in 0 .. MaxChunk, GiveAad(n) \/ GiveMessage(n)
      PROVE  IInv' /\ StepSeals
    <2>1. n \in Nat
        BY EvpAssumption
    <2> QED BY <1>3, <2>1, GiveAadKeeps, GiveMessageKeeps
<1>4. ASSUME NEW value, GiveTag(value) PROVE IInv' /\ StepSeals
    BY <1>4, GiveTagKeeps
<1>5. CASE DoFinal
    BY <1>5, DoFinalKeeps
<1> QED BY <1>1, <1>2, <1>3, <1>4, <1>5 DEF Next

LEMMA SpecIInv == Spec => []IInv
<1>1. IInv /\ [Next]_vars => IInv'
    BY NextKeeps
<1> QED BY InitIInv, <1>1, PTL DEF Spec

-----------------------------------------------------------------------------
\* The fields of the context keep their types, whatever keys, IVs and directions are
\* given in whatever order.
THEOREM TypeCorrect == Spec => []TypeOK
<1>1. IInv => TypeOK
    BY DEF IInv, FieldTypes, TypeOK
<1> QED BY <1>1, SpecIInv, PTL

\* The first final under a key and an IV that returns one has compared with or
\* produced the tag, of SP 800-38D, of all that was given under them.
THEOREM VerdictIsOfMessage == Spec => []VerdictIsOfThisMessage
<1>1. IInv => VerdictIsOfThisMessage
    BY DEF IInv
<1> QED BY <1>1, SpecIInv, PTL

\* Once a message is sealed or accepted, no call takes another byte under its IV or
\* vouches for another tag.
THEOREM SealedStays == Spec => SealedStaysSealed
<1>1. IInv /\ [Next]_vars => [StepSeals]_vars
    BY NextKeeps
<1>2. [StepSeals]_vars <=> [sealed /\ sealed' => /\ Len(c'.g.ks) <= Len(c.g.ks)
                                                 /\ (verdict' # verdict => ~verdict'.ok)]_vars
    BY DEF StepSeals
<1> QED BY <1>1, <1>2, SpecIInv, PTL DEF Spec, SealedStaysSealed
=============================================================================
