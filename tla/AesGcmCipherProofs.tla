-------------------------- MODULE AesGcmCipherProofs --------------------------
(***************************************************************************)
(* Theorems about AesGcmCipher, for all keys, IVs, tag lengths, addresses, *)
(* block sizes, limits and bounds.                                         *)
(*                                                                         *)
(* IInv: the fields agree with each other and with the native context,     *)
(* whatever inits failed.  EndInv: after a doFinal has returned the        *)
(* context is spent.  DataInv: the GCM context of an object that can be    *)
(* called has taken the bytes that were fed and are not held back, each    *)
(* once and in order, until it is full, or holds a term that no tag has.   *)
(* VerdictInv: what the last doFinal said is so.  ReleaseInv: when arrays  *)
(* were not released once.  What a context hashes is in Gcm128Proofs.      *)
(* Last, that every step is one of SealedMessage, or a stutter.            *)
(***************************************************************************)
EXTENDS AesGcmCipher, Gcm128Proofs

\* The fields of a STREAMING_GCM_CTX, an EVP_CIPHER_CTX and a ReserveBuffer.
IsEvp(c) ==
    c = [encrypt |-> c.encrypt, keySet |-> c.keySet, ivSet |-> c.ivSet, iv |-> c.iv,
         taglen |-> c.taglen, buf |-> c.buf, g |-> c.g, nonce |-> c.nonce]

IsContext(s) == s = [gcm_ctx |-> s.gcm_ctx, encrypt |-> s.encrypt] /\ IsEvp(s.gcm_ctx)

\* The context s after calls that began with it as r: for the same direction, and
\* under the same key and IV.
SameMessage(s, r) ==
    /\ IsContext(s)
    /\ s.encrypt = r.encrypt
    /\ s.gcm_ctx.encrypt = r.gcm_ctx.encrypt
    /\ s.gcm_ctx.nonce = r.gcm_ctx.nonce

-----------------------------------------------------------------------------
\* No native method but initializeCipher changes the direction, the key or the IV.
LEMMA EvpKeepsMessage ==
    ASSUME NEW c, IsEvp(c), NEW kind, NEW in, NEW arg, NEW value
    PROVE  \A d \in {Update(c, kind, in), Final(c), SetTag(c, arg, value)} :
              IsEvp(d) /\ d.encrypt = c.encrypt /\ d.nonce = c.nonce
<1>1. ASSUME NEW d, d = Update(c, kind, in)
      PROVE  IsEvp(d) /\ d.encrypt = c.encrypt /\ d.nonce = c.nonce
    BY <1>1 DEF Update, IsEvp
<1>2. ASSUME NEW d, d = SetTag(c, arg, value)
      PROVE  IsEvp(d) /\ d.encrypt = c.encrypt /\ d.nonce = c.nonce
    BY <1>2 DEF SetTag, IsEvp
<1>3. ASSUME NEW d, d \in {Seal(c), Open(c)}
      PROVE  IsEvp(d) /\ d.encrypt = c.encrypt /\ d.nonce = c.nonce
    BY <1>3 DEF Seal, Open, IsEvp
<1>4. Final(c) \in {c, Seal(c), Open(c)}
    BY DEF Final
<1> QED BY <1>1, <1>2, <1>3, <1>4

LEMMA NativeKeepsMessage ==
    ASSUME NEW s, IsContext(s), NEW in, NEW tag, NEW length
    PROVE  /\ SameMessage(s, s)
           /\ SameMessage(NativeUpdate(s, in), s)
           /\ SameMessage(NativeUpdateAAD(s, in), s)
           /\ SameMessage(FinishEncrypt(s), s)
           /\ SameMessage(FinishDecrypt(s, tag, length), s)
<1>1. IsEvp(s.gcm_ctx)
    BY DEF IsContext
<1>2. ASSUME NEW d, IsEvp(d), d.encrypt = s.gcm_ctx.encrypt, d.nonce = s.gcm_ctx.nonce
      PROVE  SameMessage([s EXCEPT !.gcm_ctx = d], s)
    BY <1>2 DEF SameMessage, IsContext
<1>3. SameMessage(s, s)
    BY DEF SameMessage
<1>4. SameMessage([s EXCEPT !.gcm_ctx = Update(@, "msg", in)], s)
    BY <1>1, <1>2, EvpKeepsMessage
<1>5. SameMessage([s EXCEPT !.gcm_ctx = Update(@, "aad", in)], s)
    BY <1>1, <1>2, EvpKeepsMessage
<1>6. SameMessage([s EXCEPT !.gcm_ctx = Final(@)], s)
    BY <1>1, <1>2, EvpKeepsMessage
<1>7. SameMessage([s EXCEPT !.gcm_ctx = Final(SetTag(@, length, tag))], s)
    <2> DEFINE t == SetTag(s.gcm_ctx, length, tag)
    <2>1. IsEvp(t) /\ t.encrypt = s.gcm_ctx.encrypt /\ t.nonce = s.gcm_ctx.nonce
        BY <1>1, EvpKeepsMessage
    <2> HIDE DEF t
    <2>2. IsEvp(Final(t)) /\ Final(t).encrypt = t.encrypt /\ Final(t).nonce = t.nonce
        BY <2>1, EvpKeepsMessage
    <2>3. SameMessage([s EXCEPT !.gcm_ctx = Final(t)], s)
        BY <1>2, <2>1, <2>2
    <2> QED BY <2>3 DEF t
<1> QED BY <1>3, <1>4, <1>5, <1>6, <1>7
        DEF NativeUpdate, NativeUpdateAAD, FinishEncrypt, FinishDecrypt

\* initializeCipher returns a context for the direction, the key and the IV it got.
LEMMA InitializeCipherSetsMessage ==
    ASSUME NEW enc, NEW iv \in Ivs
    PROVE  LET s == InitializeCipher(enc, Key, iv)
           IN  /\ IsContext(s)
               /\ s.encrypt = enc /\ s.gcm_ctx.encrypt = enc
               /\ s.gcm_ctx.nonce = <<Key, iv>>
<1>1. Key # NULL /\ iv # NULL
    BY CipherAssumption
<1> QED BY <1>1 DEF InitializeCipher, CipherReInit, CipherInit, InitKey, IsContext, IsEvp

\* What a sequence joined of two has at each place, and what a part of one has.
LEMMA JoinedAt ==
    ASSUME NEW s \in Seq(Nat), NEW in \in Seq(Nat)
    PROVE  /\ \A i \in 1 .. Len(s) : (s \o in)[i] = s[i]
           /\ \A i \in 1 .. Len(s) + Len(in) :
                 i > Len(s) => (s \o in)[i] = in[i - Len(s)]
BY ConcatProperties, LenProperties

LEMMA PartAt ==
    ASSUME NEW s \in Seq(Nat), NEW m \in 1 .. Len(s) + 1, NEW n \in m - 1 .. Len(s)
    PROVE  /\ SubSeq(s, m, n) \in Seq(Nat) /\ Len(SubSeq(s, m, n)) = n - m + 1
           /\ \A i \in 1 .. n - m + 1 : SubSeq(s, m, n)[i] = s[m + i - 1]
<1>1. Len(s) \in Nat /\ m \in Int /\ n \in Int
    BY LenProperties
<1>2. \A i \in m .. n : s[i] \in Nat
    <2>1. \A i \in m .. n : i \in 1 .. Len(s)
        BY <1>1
    <2> QED BY <2>1, ElementOfSeq
<1>3. m <= n \/ n - m + 1 = 0
    BY <1>1
<1> QED BY <1>1, <1>2, <1>3, SubSeqProperties

-----------------------------------------------------------------------------
\* The reserve that update leaves is within its size.
LEMMA KeptIsReserve ==
    ASSUME NEW r \in Reserves, NEW in \in Seq(Nat)
    PROVE  /\ Kept(r, in) \in Reserves
           /\ Kept(r, in).size = r.size
           /\ Len(Kept(r, in).held) <= r.size
<1> DEFINE all == r.held \o in
<1>1. r.size \in Nat /\ r.size \in TagLengths /\ r.held \in Seq(Nat)
    BY CipherAssumption DEF Reserves
<1>2. all \in Seq(Nat) /\ Len(all) = Len(r.held) + Len(in)
    BY <1>1, ConcatProperties
<1>3. Len(r.held) \in Nat /\ Len(in) \in Nat
    BY <1>1, LenProperties
<1>4. /\ Excess(r, in) \in 0 .. Len(all)
      /\ Len(all) - Excess(r, in) <= r.size
    BY <1>1, <1>2, <1>3 DEF Excess
<1> HIDE DEF all
<1>5. /\ SubSeq(all, Excess(r, in) + 1, Len(all)) \in Seq(Nat)
      /\ Len(SubSeq(all, Excess(r, in) + 1, Len(all))) = Len(all) - Excess(r, in)
    <2>1. /\ Excess(r, in) + 1 \in 1 .. Len(all) + 1
          /\ Len(all) \in (Excess(r, in) + 1) - 1 .. Len(all)
          /\ Len(all) - (Excess(r, in) + 1) + 1 = Len(all) - Excess(r, in)
        <3>1. Len(all) \in Nat
            BY <1>2, <1>3
        <3>2. Excess(r, in) \in 0 .. Len(all)
            BY <1>4
        <3> QED BY <3>1, <3>2
    <2> DEFINE e == Excess(r, in) + 1
               t == SubSeq(all, e, Len(all))
    <2>2. t \in Seq(Nat) /\ Len(t) = Len(all) - e + 1
        <3> HIDE DEF e
        <3> QED BY <1>2, <2>1, PartAt, Zenon DEF e
    <2> QED BY <2>1, <2>2
<1>6. Kept(r, in) = [r EXCEPT !.held = SubSeq(all, Excess(r, in) + 1, Len(all))]
    BY DEF Kept, all
<1> QED BY <1>1, <1>4, <1>5, <1>6 DEF Reserves

-----------------------------------------------------------------------------
\* A reserve that is no fuller than it may be, and the one that takes its place.
IsReserve(r) == r \in Reserves /\ Len(r.held) <= r.size

Successor(d, r) == IsReserve(d) /\ d.size = r.size

LEMMA EmptyIsReserve ==
    ASSUME NEW n \in TagLengths
    PROVE  IsReserve(Reserve(n)) /\ Reserve(n).size = n
<1>1. << >> \in Seq(Nat) /\ Len(<< >>) = 0 /\ n \in Nat
    BY EmptySeq, CipherAssumption
<1> QED BY <1>1 DEF IsReserve, Reserve, Reserves

\* engineUpdate keeps the message of the context.  It leaves the reserve alone when
\* encrypting, and one of the same size when decrypting.
LEMMA UpdateKeepsFields ==
    ASSUME NEW s, IsContext(s), NEW r, ~encrypt => IsReserve(r),
           NEW in \in Seq(Nat)
    PROVE  LET u == EngineUpdate(s, r, in)
           IN  /\ SameMessage(u.ctx, s)
               /\ encrypt => u.reserve = r
               /\ ~encrypt => Successor(u.reserve, r)
<1>1. SameMessage(s, s) /\ SameMessage(NativeUpdate(s, in), s)
    BY NativeKeepsMessage
<1>2. CASE encrypt
    BY <1>1, <1>2 DEF EngineUpdate, Passes
<1>3. CASE ~encrypt /\ r.size = 0
    BY <1>1, <1>3 DEF EngineUpdate, Nothing, Successor
<1>4. CASE ~encrypt /\ r.size # 0
    <2>1. Successor(Kept(r, in), r)
        BY <1>4, KeptIsReserve DEF IsReserve, Successor
    <2>2. EngineUpdate(s, r, in) = Passes(s, Kept(r, in), Released(r, in))
        BY <1>4 DEF EngineUpdate
    <2>3. SameMessage(NativeUpdate(s, Released(r, in)), s)
        BY NativeKeepsMessage
    <2> QED BY <1>4, <2>1, <2>2, <2>3 DEF Passes
<1> QED BY <1>2, <1>3, <1>4

\* So does engineDoFinal, with input or without.
LEMMA DoFinalKeepsFields ==
    ASSUME NEW s, IsContext(s), NEW r, ~encrypt => IsReserve(r),
           NEW in, in = NULL \/ in \in Seq(Nat)
    PROVE  LET u == EngineDoFinal(s, r, in)
           IN  /\ SameMessage(u.ctx, s)
               /\ encrypt => u.reserve = r
               /\ ~encrypt => Successor(u.reserve, r)
<1> DEFINE d == DataOfFinal(s, r, in)
           length == algorithmParameterSpec.tag
<1>1. /\ SameMessage(d.ctx, s)
      /\ encrypt => d.reserve = r
      /\ ~encrypt => Successor(d.reserve, r)
    <2>1. CASE in = NULL
        <3>1. d = Nothing(TRUE, s, r)
            BY <2>1 DEF DataOfFinal
        <3>2. SameMessage(s, s)
            BY NativeKeepsMessage
        <3> QED BY <3>1, <3>2 DEF Nothing, Successor
    <2>2. CASE in # NULL
        <3>1. d = EngineUpdate(s, r, in)
            BY <2>2 DEF DataOfFinal
        <3> QED BY <2>2, <3>1, UpdateKeepsFields
    <2> QED BY <2>1, <2>2
<1>2. IsContext(d.ctx)
    BY <1>1 DEF SameMessage
<1>3. ASSUME NEW t, SameMessage(t, d.ctx) PROVE SameMessage(t, s)
    BY <1>1, <1>3 DEF SameMessage
<1>4. \A f \in {"ok", "out", "ctx", "reserve", "releases"} : f \in DOMAIN d
    BY DEF DataOfFinal, Nothing, EngineUpdate, Passes
<1>5. EngineDoFinal(s, r, in) = IF ~d.ok THEN d
                                ELSE IF encrypt THEN EncryptFinal(d) ELSE DecryptFinal(d)
    BY DEF EngineDoFinal
<1> HIDE DEF d
<1>6. ASSUME encrypt
      PROVE  SameMessage(EncryptFinal(d).ctx, s) /\ EncryptFinal(d).reserve = r
    <2>1. EncryptFinal(d).ctx = FinishEncrypt(d.ctx) /\ EncryptFinal(d).reserve = d.reserve
        BY <1>4 DEF EncryptFinal
    <2> QED BY <2>1, <1>1, <1>2, <1>3, <1>6, NativeKeepsMessage
<1>7. ASSUME ~encrypt
      PROVE  /\ SameMessage(DecryptFinal(d).ctx, s)
             /\ Successor(DecryptFinal(d).reserve, r)
    <2> DEFINE tag == TagIn(d.reserve.held)
    <2>1. CASE ~Full(d)
        BY <2>1, <1>1, <1>4, <1>7 DEF DecryptFinal
    <2>2. CASE Full(d)
        <3>1. /\ DecryptFinal(d).ctx = FinishDecrypt(d.ctx, tag, length)
              /\ DecryptFinal(d).reserve = Reserve(d.reserve.size)
            BY <2>2, <1>4 DEF DecryptFinal
        <3>2. SameMessage(FinishDecrypt(d.ctx, tag, length), s)
            BY <1>2, <1>3, NativeKeepsMessage
        <3>3. d.reserve.size = r.size /\ r.size \in TagLengths
            BY <1>1, <1>7 DEF Successor, IsReserve, Reserves
        <3> QED BY <3>1, <3>2, <3>3, EmptyIsReserve DEF Successor
    <2> QED BY <2>1, <2>2
<1> QED BY <1>1, <1>5, <1>6, <1>7

-----------------------------------------------------------------------------
\* What is invariant besides the properties themselves.  Only an object that can
\* be called is known to have a context; a reserve may be left from any init.
ContextInv == Forwards => IsContext(ctx)

ReserveInv == reserveBuffer # NULL => IsReserve(reserveBuffer)

SpecInv == /\ algorithmParameterSpec \in [iv : Ivs, tag : TagLengths] \cup {NULL}
           /\ cipherContext \in Addrs \cup {NULL}
           /\ fed \in Seq(Nat)
           /\ finals \in 0 .. MaxFinals /\ returned \in 0 .. finals

IInv == SpecInv /\ ReserveInv /\ ContextInv /\ FieldsAgree /\ HeldContextLives

LEMMA ReserveIsNotNull == ASSUME NEW r \in Reserves PROVE r # NULL
BY CipherAssumption

LEMMA FromIsSeq == ASSUME NEW a \in Nat, NEW n \in Nat PROVE From(a, n) \in Seq(Nat)
<1>1. \A i \in 1 .. n : a + i \in Nat
    OBVIOUS
<1>2. From(a, n) \in [1 .. n -> Nat]
    BY <1>1 DEF From
<1> QED BY <1>2, SeqDef

LEMMA InputsAreSeqs == ASSUME fed \in Seq(Nat) PROVE Inputs \subseteq Seq(Nat)
<1>1. Len(fed) \in Nat
    BY LenProperties
<1>2. \A n \in 0 .. MaxFed - Len(fed) : From(Len(fed), n) \in Seq(Nat)
    <2> TAKE n \in 0 .. MaxFed - Len(fed)
    <2>1. n \in Nat
        OBVIOUS
    <2> QED BY <1>1, <2>1, FromIsSeq
<1>3. <<0>> \in Seq(Nat)
    OBVIOUS
<1> QED BY <1>2, <1>3 DEF Inputs

LEMMA InitIInv == Init => IInv
<1> SUFFICES ASSUME Init PROVE IInv
    OBVIOUS
<1>1. << >> \in Seq(Nat)
    BY EmptySeq
<1> QED BY <1>1, CipherAssumption
        DEF Init, IInv, SpecInv, ReserveInv, ContextInv, FieldsAgree, HeldContextLives, Forwards

\* engineInit that returns.
LEMMA InitDoneKeeps ==
    ASSUME IInv, NEW enc \in BOOLEAN, NEW iv \in Ivs, NEW tag \in TagLengths,
           InitDone(enc, iv, tag)
    PROVE  IInv'
<1>1. PICK a \in Addrs :
          /\ algorithmParameterSpec' = [iv |-> iv, tag |-> tag]
          /\ encrypt' = enc /\ cipherContext' = a /\ a \in allocated'
          /\ ctx' = InitializeCipher(enc, Key, iv)
          /\ reserveBuffer' = NewReserve(enc, tag)
          /\ fed' = << >> /\ finals' = 0 /\ returned' = 0
    BY DEF InitDone, NothingGiven
<1>2. /\ IsContext(ctx') /\ ctx'.encrypt = enc /\ ctx'.gcm_ctx.encrypt = enc
      /\ ctx'.gcm_ctx.nonce = <<Key, iv>>
    BY <1>1, InitializeCipherSetsMessage
<1>3. reserveBuffer' = IF enc THEN reserveBuffer ELSE Reserve(tag)
    BY <1>1 DEF NewReserve
<1>4. IsReserve(Reserve(tag)) /\ Reserve(tag).size = tag /\ Reserve(tag) # NULL
    BY EmptyIsReserve, ReserveIsNotNull DEF IsReserve
<1>5. SpecInv'
    <2>1. << >> \in Seq(Nat)
        BY EmptySeq
    <2> QED BY <1>1, <2>1, CipherAssumption DEF SpecInv
<1>6. ReserveInv'
    BY <1>3, <1>4 DEF ReserveInv, IInv, IsReserve
<1>7. ContextInv'
    BY <1>2 DEF ContextInv
<1>8. FieldsAgree'
    BY <1>1, <1>2, <1>3, <1>4 DEF FieldsAgree
<1>9. HeldContextLives'
    BY <1>1 DEF HeldContextLives
<1> QED BY <1>5, <1>6, <1>7, <1>8, <1>9 DEF IInv

\* engineInit that throws, and finalize: no call reaches the engine any more.
LEMMA SilencedKeeps ==
    ASSUME IInv, SpecInv', ~Forwards', HeldContextLives',
           UNCHANGED reserveBuffer
    PROVE  IInv'
BY DEF IInv, ReserveInv, ContextInv, FieldsAgree, IsReserve

LEMMA InitThrowsKeeps ==
    ASSUME IInv, NEW enc \in BOOLEAN, NEW iv \in Ivs, NEW tag \in TagLengths,
           InitThrows(enc, iv, tag)
    PROVE  IInv'
<1>1. << >> \in Seq(Nat)
    BY EmptySeq
<1>2. SpecInv'
    BY <1>1, CipherAssumption DEF InitThrows, NothingGiven, SpecInv, IInv
<1>3. ~Forwards' /\ HeldContextLives' /\ UNCHANGED reserveBuffer
    BY DEF InitThrows, Forwards, StillAllocated, HeldContextLives, IInv
<1> QED BY <1>2, <1>3, SilencedKeeps

LEMMA InitRefusedKeeps == IInv /\ InitRefused => IInv'
<1> SUFFICES ASSUME IInv, InitRefused PROVE IInv'
    OBVIOUS
<1>1. SpecInv'
    BY DEF InitRefused, java, ghost, SpecInv, IInv
<1>2. ~Forwards' /\ HeldContextLives' /\ UNCHANGED reserveBuffer
    BY DEF InitRefused, java, Forwards, HeldContextLives, IInv
<1> QED BY <1>1, <1>2, SilencedKeeps

LEMMA FinalizeKeeps == IInv /\ Finalize => IInv'
<1> SUFFICES ASSUME IInv, Finalize PROVE IInv'
    OBVIOUS
<1>1. SpecInv'
    BY DEF Finalize, java, ghost, SpecInv, IInv
<1>2. ~Forwards' /\ HeldContextLives' /\ UNCHANGED reserveBuffer
    BY DEF Finalize, java, Forwards, HeldContextLives, IInv
<1> QED BY <1>1, <1>2, SilencedKeeps

\* A call that reaches the engine and leaves a context of the same message, and the
\* reserve alone or one of the same size.
LEMMA CallKeeps ==
    ASSUME IInv, Forwards, SpecInv',
           SameMessage(ctx', ctx),
           encrypt => UNCHANGED reserveBuffer,
           ~encrypt => Successor(reserveBuffer', reserveBuffer),
           UNCHANGED <<algorithmParameterSpec, cipherContext, encrypt, allocated,
                       initialized, collected>>
    PROVE  IInv'
<1>1. ReserveInv'
    BY DEF IInv, ReserveInv, Successor, IsReserve
<1>2. ContextInv'
    BY DEF ContextInv, SameMessage
<1>3. ~encrypt => reserveBuffer' # NULL /\ reserveBuffer'.size = reserveBuffer.size
    BY ReserveIsNotNull DEF Successor, IsReserve
<1>4. FieldsAgree'
    BY <1>3 DEF IInv, FieldsAgree, SameMessage
<1>5. HeldContextLives'
    BY DEF IInv, HeldContextLives
<1> QED BY <1>1, <1>2, <1>4, <1>5 DEF IInv

\* What a call finds when it reaches the engine.
LEMMA CallFinds ==
    ASSUME IInv, Forwards
    PROVE  IsContext(ctx) /\ (~encrypt => IsReserve(reserveBuffer))
BY DEF IInv, ContextInv, ReserveInv, FieldsAgree

LEMMA UpdateAADKeeps ==
    ASSUME IInv, NEW n \in Nat, UpdateAAD(n)
    PROVE  IInv'
<1>1. Forwards /\ IsContext(ctx) /\ (~encrypt => IsReserve(reserveBuffer))
    BY CallFinds DEF UpdateAAD
<1>2. SameMessage(ctx', ctx)
    BY <1>1, NativeKeepsMessage DEF UpdateAAD
<1>3. SpecInv'
    BY DEF UpdateAAD, java, SpecInv, IInv
<1>4. UNCHANGED <<algorithmParameterSpec, cipherContext, encrypt, allocated,
                  initialized, collected, reserveBuffer>>
    BY DEF UpdateAAD, java
<1>5. ~encrypt => Successor(reserveBuffer', reserveBuffer)
    BY <1>1, <1>4 DEF Successor
<1> QED BY <1>1, <1>2, <1>3, <1>4, <1>5, CallKeeps

LEMMA UpdateCallKeeps ==
    ASSUME IInv, NEW in \in Inputs, NEW fits \in BOOLEAN, UpdateCall(in, fits)
    PROVE  IInv'
<1> DEFINE u == EngineUpdate(ctx, reserveBuffer, in)
<1>1. Forwards /\ IsContext(ctx) /\ (~encrypt => IsReserve(reserveBuffer))
    BY CallFinds DEF UpdateCall
<1>2. in \in Seq(Nat) /\ fed \in Seq(Nat)
    BY InputsAreSeqs DEF IInv, SpecInv
<1>3. /\ SameMessage(u.ctx, ctx)
      /\ encrypt => u.reserve = reserveBuffer
      /\ ~encrypt => Successor(u.reserve, reserveBuffer)
    BY <1>1, <1>2, UpdateKeepsFields
<1>4. /\ ctx' = u.ctx /\ reserveBuffer' = u.reserve /\ fed' = fed \o in
      /\ UNCHANGED <<algorithmParameterSpec, cipherContext, encrypt, allocated,
                     initialized, collected, finals, returned>>
    BY DEF UpdateCall, Leaves
<1> HIDE DEF u
<1>5. SpecInv'
    <2>1. fed' \in Seq(Nat)
        BY <1>2, <1>4, ConcatProperties
    <2> QED BY <1>4, <2>1 DEF IInv, SpecInv
<1> QED BY <1>1, <1>3, <1>4, <1>5, CallKeeps

LEMMA DoFinalKeeps ==
    ASSUME IInv, NEW in \in Inputs \cup {NULL}, NEW fits \in BOOLEAN, DoFinal(in, fits)
    PROVE  IInv'
<1> DEFINE u == EngineDoFinal(ctx, reserveBuffer, in)
           given == IF in = NULL THEN << >> ELSE in
<1>1. Forwards /\ IsContext(ctx) /\ (~encrypt => IsReserve(reserveBuffer))
    BY CallFinds DEF DoFinal
<1>2. (in = NULL \/ in \in Seq(Nat)) /\ fed \in Seq(Nat)
    BY InputsAreSeqs DEF IInv, SpecInv
<1>3. /\ SameMessage(u.ctx, ctx)
      /\ encrypt => u.reserve = reserveBuffer
      /\ ~encrypt => Successor(u.reserve, reserveBuffer)
    BY <1>1, <1>2, DoFinalKeepsFields
<1>4. /\ ctx' = u.ctx /\ reserveBuffer' = u.reserve /\ fed' = fed \o given
      /\ finals < MaxFinals /\ finals' = finals + 1
      /\ returned' = returned + 1 \/ returned' = returned
      /\ UNCHANGED <<algorithmParameterSpec, cipherContext, encrypt, allocated,
                     initialized, collected>>
    BY DEF DoFinal, Leaves
<1> HIDE DEF u
<1>5. given \in Seq(Nat)
    BY <1>2, EmptySeq
<1> HIDE DEF given
<1>6. SpecInv'
    <2>1. fed' \in Seq(Nat)
        BY <1>2, <1>4, <1>5, ConcatProperties
    <2>2. finals' \in 0 .. MaxFinals /\ returned' \in 0 .. finals'
        BY <1>4, CipherAssumption DEF IInv, SpecInv
    <2> QED BY <1>4, <2>1, <2>2 DEF IInv, SpecInv
<1> QED BY <1>1, <1>3, <1>4, <1>6, CallKeeps

LEMMA NextKeeps == IInv /\ [Next]_vars => IInv'
<1> SUFFICES ASSUME IInv, [Next]_vars PROVE IInv'
    OBVIOUS
<1>1. ASSUME NEW enc \in BOOLEAN, NEW iv \in Ivs, NEW tag \in TagLengths,
             InitDone(enc, iv, tag) \/ InitThrows(enc, iv, tag)
      PROVE  IInv'
    BY <1>1, InitDoneKeeps, InitThrowsKeeps
<1>2. CASE InitRefused
    BY <1>2, InitRefusedKeeps
<1>3. ASSUME NEW n \in 1 .. MaxAad, UpdateAAD(n) PROVE IInv'
    <2>1. n \in Nat
        OBVIOUS
    <2> QED BY <1>3, <2>1, UpdateAADKeeps
<1>4. ASSUME NEW in \in Inputs, NEW fits \in BOOLEAN, UpdateCall(in, fits) PROVE IInv'
    BY <1>4, UpdateCallKeeps
<1>5. ASSUME NEW in \in Inputs \cup {NULL}, NEW fits \in BOOLEAN, DoFinal(in, fits)
      PROVE  IInv'
    BY <1>5, DoFinalKeeps
<1>6. CASE Finalize
    BY <1>6, FinalizeKeeps
<1>7. CASE UNCHANGED vars
    BY <1>7 DEF vars, java, ghost, IInv, SpecInv, ReserveInv, ContextInv, FieldsAgree,
                HeldContextLives, Forwards
<1> QED BY <1>1, <1>2, <1>3, <1>4, <1>5, <1>6, <1>7 DEF Next

LEMMA SpecIInv == Spec => []IInv
BY InitIInv, NextKeeps, PTL DEF Spec

-----------------------------------------------------------------------------
\* The fields of the object keep their types, and the reserve that engineUpdate
\* fills never holds more bytes than the tag has.
THEOREM TypeCorrect == Spec => []TypeOK
<1>1. IInv => TypeOK
    BY DEF IInv, SpecInv, ReserveInv, IsReserve, TypeOK
<1> QED BY <1>1, SpecIInv, PTL

\* Whatever engineInit calls threw half-way before, whenever a call can reach the
\* engine its context is allocated and works in the direction and under the IV of
\* the last init, and the reserve has the length of its tag.
THEOREM FieldsDoAgree == Spec => []FieldsAgree
<1>1. IInv => FieldsAgree
    BY DEF IInv
<1> QED BY <1>1, SpecIInv, PTL

\* The object never holds the address of a context that was freed, so finalize
\* calls destroyCipher on one that is allocated.
THEOREM HeldContextIsLive == Spec => []HeldContextLives
<1>1. IInv => HeldContextLives
    BY DEF IInv
<1> QED BY <1>1, SpecIInv, PTL

-----------------------------------------------------------------------------
\* One message per init.  A context is spent when its IV is taken from it: no native
\* method returns on it, or makes it fit for use again.
Spent(s) == IsContext(s) /\ ~s.gcm_ctx.ivSet

EndInv == /\ returned \in {0, 1}
          /\ Forwards /\ returned = 1 => Spent(ctx)

LEMMA SpentEvpStays ==
    ASSUME NEW c, IsEvp(c), ~c.ivSet, NEW kind, NEW in, NEW arg, NEW value
    PROVE  /\ ~UpdateOk(c, kind, in) /\ ~FinalOk(c)
           /\ \A d \in {Update(c, kind, in), Final(c), SetTag(c, arg, value)} :
                 IsEvp(d) /\ ~d.ivSet
<1>1. ~Ready(c)
    BY DEF Ready
<1>2. ~Update(c, kind, in).ivSet
    BY DEF Update, IsEvp
<1>3. ~SetTag(c, arg, value).ivSet
    BY DEF SetTag, IsEvp
<1>4. Final(c) = c
    BY <1>1 DEF Final
<1> QED BY <1>1, <1>2, <1>3, <1>4, EvpKeepsMessage DEF UpdateOk, FinalOk

LEMMA SpentStays ==
    ASSUME NEW s, Spent(s), NEW in, NEW tag, NEW length
    PROVE  /\ ~NativeUpdateOk(s, in) /\ NativeUpdate(s, in) = s
           /\ Spent(NativeUpdateAAD(s, in))
           /\ ~FinishEncryptOk(s, length) /\ Spent(FinishEncrypt(s))
           /\ ~FinishDecryptOk(s, tag, length) /\ Spent(FinishDecrypt(s, tag, length))
<1> DEFINE c == s.gcm_ctx
           t == SetTag(c, length, tag)
<1>1. IsEvp(c) /\ ~c.ivSet /\ s = [gcm_ctx |-> c, encrypt |-> s.encrypt]
    BY DEF Spent, IsContext
<1>2. ASSUME NEW d, IsEvp(d), ~d.ivSet
      PROVE  Spent([s EXCEPT !.gcm_ctx = d])
    BY <1>1, <1>2 DEF Spent, IsContext
<1>3. ~NativeUpdateOk(s, in) /\ NativeUpdate(s, in) = s
    BY <1>1, SpentEvpStays DEF NativeUpdateOk, NativeUpdate
<1>4. NativeUpdateAAD(s, in) = s
    BY <1>1, SpentEvpStays DEF NativeUpdateAADOk, NativeUpdateAAD
<1>5. ~FinishEncryptOk(s, length)
    BY <1>1, SpentEvpStays DEF FinishEncryptOk
<1>6. IsEvp(Final(c)) /\ ~Final(c).ivSet
    BY <1>1, SpentEvpStays
<1>7. Spent(FinishEncrypt(s))
    BY <1>2, <1>6 DEF FinishEncrypt
<1>8. IsEvp(t) /\ ~t.ivSet
    BY <1>1, SpentEvpStays
<1> HIDE DEF t
<1>9. ~FinalOk(t) /\ IsEvp(Final(t)) /\ ~Final(t).ivSet
    BY <1>8, SpentEvpStays
<1>10. ~FinishDecryptOk(s, tag, length)
    BY <1>9 DEF FinishDecryptOk, t
<1>11. Spent(FinishDecrypt(s, tag, length))
    BY <1>2, <1>9 DEF FinishDecrypt, t
<1> QED BY <1>3, <1>4, <1>5, <1>7, <1>10, <1>11

\* engineUpdate and engineDoFinal throw on a spent context, and leave it spent.
LEMMA SpentUpdateThrows ==
    ASSUME NEW s, Spent(s), NEW r, NEW in
    PROVE  ~EngineUpdate(s, r, in).ok /\ Spent(EngineUpdate(s, r, in).ctx)
BY SpentStays DEF EngineUpdate, Passes, Nothing

LEMMA SpentDoFinalThrows ==
    ASSUME NEW s, Spent(s), NEW r, NEW in
    PROVE  ~EngineDoFinal(s, r, in).ok /\ Spent(EngineDoFinal(s, r, in).ctx)
<1> DEFINE d == DataOfFinal(s, r, in)
<1>1. Spent(d.ctx)
    BY SpentUpdateThrows DEF DataOfFinal, Nothing
<1>2. \A f \in {"ok", "out", "ctx", "reserve", "releases"} : f \in DOMAIN d
    BY DEF DataOfFinal, Nothing, EngineUpdate, Passes
<1>3. EngineDoFinal(s, r, in) = IF ~d.ok THEN d
                                ELSE IF encrypt THEN EncryptFinal(d) ELSE DecryptFinal(d)
    BY DEF EngineDoFinal
<1> HIDE DEF d
<1>4. ~EncryptFinal(d).ok /\ Spent(EncryptFinal(d).ctx)
    BY <1>1, <1>2, SpentStays DEF EncryptFinal
<1>5. ~DecryptFinal(d).ok /\ Spent(DecryptFinal(d).ctx)
    BY <1>1, <1>2, SpentStays DEF DecryptFinal
<1> QED BY <1>1, <1>3, <1>4, <1>5

\* A finish that returns takes the IV.
LEMMA FinalTakesIv ==
    ASSUME NEW c, IsEvp(c), FinalOk(c)
    PROVE  ~Final(c).ivSet
<1>1. Ready(c) /\ (c.encrypt \/ (c.taglen >= 0 /\ TagMatches(c)))
    BY DEF FinalOk
<1>2. CASE c.encrypt
    BY <1>1, <1>2 DEF Final, Seal, IsEvp
<1>3. CASE ~c.encrypt
    <2>1. Final(c) = Open(c) /\ TagMatches(c)
        BY <1>1, <1>3 DEF Final
    <2> QED BY <2>1 DEF Open, IsEvp
<1> QED BY <1>2, <1>3

LEMMA DoFinalSpends ==
    ASSUME NEW s, IsContext(s), NEW r, ~encrypt => IsReserve(r),
           NEW in, in = NULL \/ in \in Seq(Nat),
           EngineDoFinal(s, r, in).ok
    PROVE  Spent(EngineDoFinal(s, r, in).ctx)
<1> DEFINE d == DataOfFinal(s, r, in)
           e == EngineDoFinal(s, r, in)
           length == algorithmParameterSpec.tag
           tag == TagIn(d.reserve.held)
           t == SetTag(d.ctx.gcm_ctx, length, tag)
<1>1. IsContext(e.ctx)
    BY DoFinalKeepsFields DEF SameMessage
<1>2. IsContext(d.ctx)
    <2>1. CASE in = NULL
        BY <2>1 DEF DataOfFinal, Nothing
    <2>2. CASE in # NULL
        BY <2>2, UpdateKeepsFields DEF DataOfFinal, SameMessage
    <2> QED BY <2>1, <2>2
<1>3. \A f \in {"ok", "out", "ctx", "reserve", "releases"} : f \in DOMAIN d
    BY DEF DataOfFinal, Nothing, EngineUpdate, Passes
<1>4. e = IF ~d.ok THEN d ELSE IF encrypt THEN EncryptFinal(d) ELSE DecryptFinal(d)
    BY DEF EngineDoFinal
<1>5. IsEvp(d.ctx.gcm_ctx) /\ d.ctx = [gcm_ctx |-> d.ctx.gcm_ctx, encrypt |-> d.ctx.encrypt]
    BY <1>2 DEF IsContext
<1> HIDE DEF d
<1>6. ASSUME e = EncryptFinal(d) PROVE ~e.ctx.gcm_ctx.ivSet
    <2>1. FinishEncryptOk(d.ctx, length) /\ e.ctx = FinishEncrypt(d.ctx)
        BY <1>3, <1>6 DEF EncryptFinal
    <2>2. d.ctx.encrypt /\ FinalOk(d.ctx.gcm_ctx)
        BY <2>1 DEF FinishEncryptOk
    <2>3. e.ctx.gcm_ctx = Final(d.ctx.gcm_ctx)
        BY <2>1, <2>2, <1>5 DEF FinishEncrypt
    <2> QED BY <2>2, <2>3, <1>5, FinalTakesIv
<1>7. ASSUME e = DecryptFinal(d) PROVE ~e.ctx.gcm_ctx.ivSet
    <2>1. Full(d)
        BY <1>3, <1>7 DEF DecryptFinal
    <2>2. FinishDecryptOk(d.ctx, tag, length) /\ e.ctx = FinishDecrypt(d.ctx, tag, length)
        BY <1>3, <1>7, <2>1 DEF DecryptFinal
    <2>3. ~d.ctx.encrypt /\ SetTagOk(d.ctx.gcm_ctx, length) /\ FinalOk(t)
        BY <2>2 DEF FinishDecryptOk
    <2>4. e.ctx.gcm_ctx = Final(t)
        BY <2>2, <2>3, <1>5 DEF FinishDecrypt
    <2>5. IsEvp(t)
        BY <1>5, EvpKeepsMessage
    <2> HIDE DEF t
    <2> QED BY <2>3, <2>4, <2>5, FinalTakesIv
<1>8. e = EncryptFinal(d) \/ e = DecryptFinal(d)
    BY <1>4
<1> QED BY <1>1, <1>6, <1>7, <1>8 DEF Spent

\* In every step EndInv survives, and what OneMessagePerInit says of the step holds.
EndStep == returned = 1 /\ returned' # 0 => returned' = 1 /\ got' = got

LEMMA NextEnds == IInv /\ EndInv /\ [Next]_vars => EndInv' /\ EndStep
<1> SUFFICES ASSUME IInv, EndInv, [Next]_vars PROVE EndInv' /\ EndStep
    OBVIOUS
<1>1. ASSUME NEW enc \in BOOLEAN, NEW iv \in Ivs, NEW tag \in TagLengths,
             InitDone(enc, iv, tag) \/ InitThrows(enc, iv, tag)
      PROVE  EndInv' /\ EndStep
    <2>1. returned' = 0
        BY <1>1 DEF InitDone, InitThrows, NothingGiven
    <2> QED BY <2>1 DEF EndInv, EndStep
<1>2. CASE InitRefused
    BY <1>2 DEF InitRefused, ghost, EndInv, EndStep, Forwards
<1>3. ASSUME NEW n \in 1 .. MaxAad, UpdateAAD(n) PROVE EndInv' /\ EndStep
    <2>1. /\ Forwards /\ UNCHANGED <<returned, got>>
          /\ ctx' = NativeUpdateAAD(ctx, From(aadFed, n))
        BY <1>3 DEF UpdateAAD
    <2>2. returned = 1 => Spent(ctx')
        BY <2>1, SpentStays DEF EndInv
    <2> QED BY <2>1, <2>2 DEF EndInv, EndStep
<1>4. ASSUME NEW in \in Inputs, NEW fits \in BOOLEAN, UpdateCall(in, fits)
      PROVE  EndInv' /\ EndStep
    <2> DEFINE u == EngineUpdate(ctx, reserveBuffer, in)
    <2>1. Forwards /\ UNCHANGED returned /\ ctx' = u.ctx /\ Receives(u, fits)
        BY <1>4 DEF UpdateCall, Leaves
    <2>2. returned = 1 => ~u.ok /\ Spent(u.ctx)
        BY <2>1, SpentUpdateThrows DEF EndInv
    <2> HIDE DEF u
    <2>3. returned = 1 => UNCHANGED got
        BY <2>1, <2>2 DEF Receives
    <2> QED BY <2>1, <2>2, <2>3 DEF EndInv, EndStep
<1>5. ASSUME NEW in \in Inputs \cup {NULL}, NEW fits \in BOOLEAN, DoFinal(in, fits)
      PROVE  EndInv' /\ EndStep
    <2> DEFINE u == EngineDoFinal(ctx, reserveBuffer, in)
    <2>1. /\ Forwards /\ ctx' = u.ctx /\ Receives(u, fits)
          /\ returned' = IF u.ok THEN returned + 1 ELSE returned
        BY <1>5 DEF DoFinal, Leaves
    <2>2. returned = 1 => ~u.ok /\ Spent(u.ctx)
        BY <2>1, SpentDoFinalThrows DEF EndInv
    <2>3. u.ok => Spent(u.ctx)
        <3>1. IsContext(ctx) /\ (~encrypt => IsReserve(reserveBuffer))
            BY <2>1, CallFinds
        <3>2. in = NULL \/ in \in Seq(Nat)
            BY InputsAreSeqs DEF IInv, SpecInv
        <3> QED BY <3>1, <3>2, DoFinalSpends
    <2> HIDE DEF u
    <2>4. returned = 1 => UNCHANGED got
        BY <2>1, <2>2 DEF Receives
    <2> QED BY <2>1, <2>2, <2>3, <2>4 DEF EndInv, EndStep
<1>6. CASE Finalize
    BY <1>6 DEF Finalize, ghost, EndInv, EndStep, Forwards
<1>7. CASE UNCHANGED vars
    BY <1>7 DEF vars, ghost, EndInv, EndStep, Forwards
<1> QED BY <1>1, <1>2, <1>3, <1>4, <1>5, <1>6, <1>7 DEF Next

\* Once a doFinal of an init has returned, no later one does and no byte is handed
\* out until the next init: finishEncrypt, and a finishDecrypt whose tag matches,
\* take the IV from the context, and every native method wants one.
THEOREM OneMessage == Spec => OneMessagePerInit
<1>1. Init => EndInv
    BY DEF Init, EndInv
<1>2. Spec => [](IInv /\ EndInv)
    BY <1>1, InitIInv, NextKeeps, NextEnds, PTL DEF Spec
<1>3. IInv /\ EndInv /\ [Next]_vars
      => [returned = 1 /\ returned' # 0 => returned' = 1 /\ got' = got]_vars
    BY NextEnds DEF EndStep
<1> QED BY <1>2, <1>3, PTL DEF Spec, OneMessagePerInit
-----------------------------------------------------------------------------
\* What the native methods do to the GCM context, whose key is set from the start.
Gcm(s) == s.gcm_ctx.g
HasIv(s) == s.gcm_ctx.ivSet

Usable(s) == IsContext(s) /\ s.gcm_ctx.keySet /\ Context(Gcm(s))

LEMMA InitializeCipherIs ==
    ASSUME NEW enc, NEW iv \in Ivs
    PROVE  LET s == InitializeCipher(enc, Key, iv)
           IN  Usable(s) /\ HasIv(s) /\ Gcm(s) = SetIv
<1>1. Key # NULL /\ iv # NULL
    BY CipherAssumption
<1>2. IsContext(InitializeCipher(enc, Key, iv))
    BY InitializeCipherSetsMessage
<1>3. /\ InitializeCipher(enc, Key, iv).gcm_ctx.keySet
      /\ InitializeCipher(enc, Key, iv).gcm_ctx.ivSet
      /\ InitializeCipher(enc, Key, iv).gcm_ctx.g = SetIv
    BY <1>1 DEF InitializeCipher, CipherReInit, CipherInit, InitKey
<1> QED BY <1>2, <1>3, FreshContext DEF Usable, Gcm, HasIv

LEMMA UsableSplits ==
    ASSUME NEW s, Usable(s)
    PROVE  /\ s = [gcm_ctx |-> s.gcm_ctx, encrypt |-> s.encrypt]
           /\ IsEvp(s.gcm_ctx) /\ s.gcm_ctx.keySet /\ Context(s.gcm_ctx.g)
           /\ Ready(s.gcm_ctx) <=> s.gcm_ctx.ivSet
BY DEF Usable, IsContext, Gcm, Ready

\* A context with another GCM context in it.
LEMMA UsableWith ==
    ASSUME NEW s, Usable(s), NEW d, IsEvp(d), d.keySet, Context(d.g)
    PROVE  /\ Usable([s EXCEPT !.gcm_ctx = d])
           /\ Gcm([s EXCEPT !.gcm_ctx = d]) = d.g
           /\ HasIv([s EXCEPT !.gcm_ctx = d]) = d.ivSet
<1>1. s = [gcm_ctx |-> s.gcm_ctx, encrypt |-> s.encrypt]
    BY UsableSplits
<1>2. [s EXCEPT !.gcm_ctx = d] = [gcm_ctx |-> d, encrypt |-> s.encrypt]
    BY <1>1
<1> QED BY <1>2 DEF Usable, IsContext, Gcm, HasIv

LEMMA EvpUpdateIs ==
    ASSUME NEW c, IsEvp(c), NEW kind, NEW in
    PROVE  /\ IsEvp(Update(c, kind, in))
           /\ Update(c, kind, in).keySet = c.keySet /\ Update(c, kind, in).ivSet = c.ivSet
           /\ Update(c, "msg", in).g = Crypt(c.g, in)
           /\ Update(c, "aad", in).g = Aad(c.g, in)
BY DEF Update, IsEvp

\* update takes the bytes when there is an IV and GCM accepts them.
LEMMA NativeUpdateIs ==
    ASSUME NEW s, Usable(s), NEW in \in Seq(Nat)
    PROVE  LET t  == NativeUpdate(s, in)
               ok == NativeUpdateOk(s, in)
           IN  /\ Usable(t) /\ HasIv(t) = HasIv(s)
               /\ ok <=> HasIv(s) /\ CryptAccepts(Gcm(s), in)
               /\ ok => Gcm(t) = Crypt(Gcm(s), in)
               /\ ~ok => t = s
<1> DEFINE c == s.gcm_ctx
           d == Update(c, "msg", in)
           ok == NativeUpdateOk(s, in)
<1>1. IsEvp(c) /\ c.keySet /\ Context(c.g) /\ (Ready(c) <=> c.ivSet)
    BY UsableSplits
<1>2. ok <=> c.ivSet /\ CryptAccepts(c.g, in)
    BY <1>1 DEF NativeUpdateOk, UpdateOk
<1>3. NativeUpdate(s, in) = IF ok THEN [s EXCEPT !.gcm_ctx = d] ELSE s
    BY DEF NativeUpdate
<1>4. IsEvp(d) /\ d.keySet = c.keySet /\ d.ivSet = c.ivSet /\ d.g = Crypt(c.g, in)
    BY <1>1, EvpUpdateIs
<1> HIDE DEF d
<1>5. CASE ok
    <2>1. Context(Crypt(c.g, in))
        BY <1>1, <1>2, <1>5, CryptKeepsContext
    <2>2. /\ Usable([s EXCEPT !.gcm_ctx = d])
          /\ Gcm([s EXCEPT !.gcm_ctx = d]) = d.g
          /\ HasIv([s EXCEPT !.gcm_ctx = d]) = d.ivSet
        BY <1>1, <1>4, <2>1, UsableWith
    <2> QED BY <1>2, <1>3, <1>4, <1>5, <2>2 DEF Gcm, HasIv
<1>6. CASE ~ok
    BY <1>2, <1>3, <1>6 DEF Gcm, HasIv
<1> QED BY <1>5, <1>6

\* So does updateAAD.
LEMMA NativeUpdateAADIs ==
    ASSUME NEW s, Usable(s), NEW in \in Seq(Nat)
    PROVE  LET t  == NativeUpdateAAD(s, in)
               ok == NativeUpdateAADOk(s, in)
           IN  /\ Usable(t) /\ HasIv(t) = HasIv(s)
               /\ ok <=> HasIv(s) /\ AadAccepts(Gcm(s), in)
               /\ ok => Gcm(t) = Aad(Gcm(s), in)
               /\ ~ok => t = s
<1> DEFINE c == s.gcm_ctx
           d == Update(c, "aad", in)
           ok == NativeUpdateAADOk(s, in)
<1>1. IsEvp(c) /\ c.keySet /\ Context(c.g) /\ (Ready(c) <=> c.ivSet)
    BY UsableSplits
<1>2. ok <=> c.ivSet /\ AadAccepts(c.g, in)
    BY <1>1 DEF NativeUpdateAADOk, UpdateOk
<1>3. NativeUpdateAAD(s, in) = IF ok THEN [s EXCEPT !.gcm_ctx = d] ELSE s
    BY DEF NativeUpdateAAD
<1>4. IsEvp(d) /\ d.keySet = c.keySet /\ d.ivSet = c.ivSet /\ d.g = Aad(c.g, in)
    BY <1>1, EvpUpdateIs
<1> HIDE DEF d
<1>5. CASE ok
    <2>1. Context(Aad(c.g, in))
        BY <1>1, <1>2, <1>5, AadKeepsContext
    <2>2. /\ Usable([s EXCEPT !.gcm_ctx = d])
          /\ Gcm([s EXCEPT !.gcm_ctx = d]) = d.g
          /\ HasIv([s EXCEPT !.gcm_ctx = d]) = d.ivSet
        BY <1>1, <1>4, <2>1, UsableWith
    <2> QED BY <1>2, <1>3, <1>4, <1>5, <2>2 DEF Gcm, HasIv
<1>6. CASE ~ok
    BY <1>2, <1>3, <1>6 DEF Gcm, HasIv
<1> QED BY <1>5, <1>6

\* finishEncrypt leaves the tag of what was hashed, and takes the IV.
LEMMA FinishEncryptIs ==
    ASSUME NEW s, Usable(s), s.encrypt, s.gcm_ctx.encrypt, NEW length
    PROVE  LET t == FinishEncrypt(s)
           IN  /\ Usable(t) /\ ~HasIv(t)
               /\ Gcm(t).lenA = Gcm(s).lenA /\ Gcm(t).lenM = Gcm(s).lenM
               /\ HasIv(s) => t.gcm_ctx.buf = <<s.gcm_ctx.nonce, TagValue(Gcm(s))>>
               /\ FinishEncryptOk(s, length) => HasIv(s)
<1> DEFINE c == s.gcm_ctx
           d == Final(c)
<1>1. IsEvp(c) /\ c.keySet /\ Context(c.g) /\ (Ready(c) <=> c.ivSet)
    BY UsableSplits
<1>2. FinishEncrypt(s) = [s EXCEPT !.gcm_ctx = d]
    BY DEF FinishEncrypt
<1>3. FinishEncryptOk(s, length) => c.ivSet
    BY <1>1 DEF FinishEncryptOk, FinalOk
<1>4. CASE ~c.ivSet
    <2>1. d = c
        BY <1>1, <1>4 DEF Final
    <2>2. [s EXCEPT !.gcm_ctx = c] = s
        <3>1. s = [gcm_ctx |-> c, encrypt |-> s.encrypt]
            BY UsableSplits
        <3> QED BY <3>1
    <2> QED BY <1>2, <1>3, <1>4, <2>1, <2>2 DEF Gcm, HasIv
<1>5. CASE c.ivSet
    <2>1. d = [c EXCEPT !.g = Finish(c.g), !.buf = TagOf(c), !.taglen = B, !.ivSet = FALSE]
        BY <1>1, <1>5 DEF Final, Seal
    <2>2. IsEvp(d) /\ d.keySet = c.keySet /\ ~d.ivSet /\ d.g = Finish(c.g) /\ d.buf = TagOf(c)
        BY <1>1, <2>1 DEF IsEvp
    <2> HIDE DEF d
    <2>3. /\ Context(Finish(c.g)) /\ Finish(c.g).lenA = c.g.lenA
          /\ Finish(c.g).lenM = c.g.lenM
        BY <1>1, FinishKeepsContext, FinishIs, ContextTypes
    <2>4. /\ Usable([s EXCEPT !.gcm_ctx = d])
          /\ Gcm([s EXCEPT !.gcm_ctx = d]) = d.g
          /\ HasIv([s EXCEPT !.gcm_ctx = d]) = d.ivSet
        BY <1>1, <2>2, <2>3, UsableWith
    <2>5. [s EXCEPT !.gcm_ctx = d].gcm_ctx = d
        BY UsableSplits
    <2> QED BY <1>2, <1>3, <1>5, <2>2, <2>3, <2>4, <2>5 DEF Gcm, HasIv, TagOf
<1> QED BY <1>4, <1>5

\* finishDecrypt compares with it, and takes the IV if it matches.
LEMMA FinishDecryptIs ==
    ASSUME NEW s, Usable(s), ~s.encrypt, ~s.gcm_ctx.encrypt, NEW tag, NEW length \in Nat
    PROVE  LET t  == FinishDecrypt(s, tag, length)
               ok == FinishDecryptOk(s, tag, length)
           IN  /\ Usable(t)
               /\ Gcm(t).lenA = Gcm(s).lenA /\ Gcm(t).lenM = Gcm(s).lenM
               /\ IF HasIv(s) /\ length \in 1 .. B
                  THEN /\ Gcm(t) = Finish(Gcm(s))
                       /\ ok <=> tag = <<s.gcm_ctx.nonce, TagValue(Gcm(s))>>
                       /\ HasIv(t) <=> ~ok
                  ELSE Gcm(t) = Gcm(s) /\ (HasIv(t) <=> HasIv(s)) /\ ~ok
<1> DEFINE c == s.gcm_ctx
           e == SetTag(c, length, tag)
           d == Final(e)
           ok == FinishDecryptOk(s, tag, length)
<1>1. IsEvp(c) /\ c.keySet /\ Context(c.g) /\ (Ready(c) <=> c.ivSet)
    BY UsableSplits
<1>2. SetTagOk(c, length) <=> length \in 1 .. B
    BY GcmAssumption DEF SetTagOk
<1>3. /\ FinishDecrypt(s, tag, length) = IF ~SetTagOk(c, length) THEN s ELSE [s EXCEPT !.gcm_ctx = d]
      /\ ok <=> SetTagOk(c, length) /\ FinalOk(e)
    BY DEF FinishDecrypt, FinishDecryptOk
<1>4. /\ IsEvp(e) /\ e.keySet = c.keySet /\ e.ivSet = c.ivSet /\ e.g = c.g
      /\ e.nonce = c.nonce /\ ~e.encrypt /\ e.buf = tag /\ e.taglen = length
      /\ length >= 0
    <2>1. e = [c EXCEPT !.buf = tag, !.taglen = length]
        BY DEF SetTag
    <2>2. e = [encrypt |-> c.encrypt, keySet |-> c.keySet, ivSet |-> c.ivSet, iv |-> c.iv,
               taglen |-> length, buf |-> tag, g |-> c.g, nonce |-> c.nonce]
        BY <1>1, <2>1 DEF IsEvp
    <2> HIDE DEF e, c
    <2>3. length >= 0 /\ ~c.encrypt
        BY DEF c
    <2> QED BY <2>2, <2>3 DEF IsEvp
<1> HIDE DEF e
<1>5. /\ TagOf(e) = <<c.nonce, TagValue(c.g)>>
      /\ TagMatches(e) <=> tag = <<c.nonce, TagValue(c.g)>>
      /\ TagMatches(e) \in BOOLEAN
    BY <1>4 DEF TagOf, TagMatches
<1>6. Ready(e) <=> c.ivSet
    BY <1>1, <1>4 DEF Ready
<1>7. FinalOk(e) <=> c.ivSet /\ TagMatches(e)
    BY <1>4, <1>6 DEF FinalOk
<1>8. CASE ~SetTagOk(c, length)
    BY <1>2, <1>3, <1>8 DEF Gcm, HasIv
<1>9. CASE SetTagOk(c, length) /\ ~c.ivSet
    <2>1. d = e
        BY <1>6, <1>9 DEF Final
    <2>2. /\ Usable([s EXCEPT !.gcm_ctx = d])
          /\ Gcm([s EXCEPT !.gcm_ctx = d]) = d.g
          /\ HasIv([s EXCEPT !.gcm_ctx = d]) = d.ivSet
        BY <1>1, <1>4, <2>1, UsableWith
    <2> HIDE DEF d
    <2> QED BY <1>3, <1>4, <1>7, <1>9, <2>1, <2>2 DEF Gcm, HasIv
<1>10. CASE SetTagOk(c, length) /\ c.ivSet
    <2>1. d = [e EXCEPT !.g = Finish(e.g), !.ivSet = ~TagMatches(e)]
        BY <1>4, <1>6, <1>10 DEF Final, Open
    <2>2. IsEvp(d) /\ d.keySet = c.keySet /\ (d.ivSet <=> ~TagMatches(e)) /\ d.g = Finish(c.g)
        BY <1>4, <1>5, <2>1 DEF IsEvp
    <2> HIDE DEF d
    <2>3. /\ Context(Finish(c.g)) /\ Finish(c.g).lenA = c.g.lenA
          /\ Finish(c.g).lenM = c.g.lenM
        BY <1>1, FinishKeepsContext, FinishIs, ContextTypes
    <2>4. /\ Usable([s EXCEPT !.gcm_ctx = d])
          /\ Gcm([s EXCEPT !.gcm_ctx = d]) = d.g
          /\ HasIv([s EXCEPT !.gcm_ctx = d]) = d.ivSet
        BY <1>1, <2>2, <2>3, UsableWith
    <2> QED BY <1>2, <1>3, <1>5, <1>7, <1>10, <2>2, <2>3, <2>4 DEF Gcm, HasIv
<1> QED BY <1>8, <1>9, <1>10

-----------------------------------------------------------------------------
\* x is the stretch of the stream f that follows its first p bytes.
Segment(x, f, p) == /\ x \in Seq(Nat) /\ f \in Seq(Nat) /\ p \in Nat
                    /\ p + Len(x) <= Len(f)
                    /\ \A i \in 1 .. Len(x) : x[i] = f[p + i]

LEMMA SegmentTypes ==
    ASSUME NEW x, NEW f, NEW p, Segment(x, f, p)
    PROVE  /\ x \in Seq(Nat) /\ f \in Seq(Nat) /\ p \in Nat
           /\ Len(x) \in Nat /\ Len(f) \in Nat /\ p + Len(x) <= Len(f)
BY LenProperties DEF Segment

LEMMA NoSegment ==
    ASSUME NEW f \in Seq(Nat), NEW p \in 0 .. Len(f)
    PROVE  Segment(<< >>, f, p)
<1>1. << >> \in Seq(Nat) /\ Len(<< >>) = 0 /\ Len(f) \in Nat
    BY EmptySeq, LenProperties
<1> QED BY <1>1 DEF Segment

\* More may follow.
LEMMA SegmentStays ==
    ASSUME NEW x, NEW f, NEW p, Segment(x, f, p), NEW in \in Seq(Nat)
    PROVE  Segment(x, f \o in, p)
<1> DEFINE all == f \o in
<1>1. /\ x \in Seq(Nat) /\ f \in Seq(Nat) /\ p \in Nat
      /\ Len(x) \in Nat /\ Len(f) \in Nat /\ p + Len(x) <= Len(f)
    BY SegmentTypes
<1>2. all \in Seq(Nat) /\ Len(all) = Len(f) + Len(in) /\ Len(in) \in Nat
    BY <1>1, JoinedIs, LenProperties
<1>3. \A i \in 1 .. Len(f) : all[i] = f[i]
    BY <1>1, ConcatProperties
<1> HIDE DEF all
<1>4. ASSUME NEW i \in 1 .. Len(x) PROVE x[i] = all[p + i]
    <2>1. p + i \in 1 .. Len(f)
        BY <1>1
    <2> QED BY <1>3, <2>1 DEF Segment
<1>5. p + Len(x) <= Len(all)
    BY <1>1, <1>2
<1> QED BY <1>1, <1>2, <1>4, <1>5 DEF Segment, all

\* x is what of the stream f follows its first p bytes, up to the end of f.
EndOf(x, f, p) == Segment(x, f, p) /\ p + Len(x) = Len(f)

LEMMA EndTypes ==
    ASSUME NEW x, NEW f, NEW p, EndOf(x, f, p)
    PROVE  /\ x \in Seq(Nat) /\ f \in Seq(Nat) /\ p \in Nat
           /\ Len(x) \in Nat /\ Len(f) \in Nat /\ p + Len(x) = Len(f) /\ p <= Len(f)
<1>1. /\ x \in Seq(Nat) /\ f \in Seq(Nat) /\ p \in Nat
      /\ Len(x) \in Nat /\ Len(f) \in Nat /\ p + Len(x) = Len(f)
    BY SegmentTypes DEF EndOf
<1> QED BY <1>1

\* The end of a stream, and what is added to the stream, are the end of it then.
LEMMA EndGrows ==
    ASSUME NEW x, NEW f, NEW p, EndOf(x, f, p), NEW in \in Seq(Nat)
    PROVE  EndOf(x \o in, f \o in, p)
<1> DEFINE all == f \o in
           y == x \o in
<1>1. /\ x \in Seq(Nat) /\ f \in Seq(Nat) /\ p \in Nat
      /\ Len(x) \in Nat /\ Len(f) \in Nat /\ Len(in) \in Nat /\ Len(f) = p + Len(x)
    BY EndTypes, LenProperties
<1>2. all \in Seq(Nat) /\ Len(all) = Len(f) + Len(in) /\ y \in Seq(Nat) /\ Len(y) = Len(x) + Len(in)
    BY <1>1, JoinedIs
<1>3. /\ \A i \in 1 .. Len(f) : all[i] = f[i]
      /\ \A i \in 1 .. Len(f) + Len(in) : i > Len(f) => all[i] = in[i - Len(f)]
    BY <1>1, JoinedAt, Zenon
<1>4. /\ \A i \in 1 .. Len(x) : y[i] = x[i]
      /\ \A i \in 1 .. Len(x) + Len(in) : i > Len(x) => y[i] = in[i - Len(x)]
    BY <1>1, JoinedAt, Zenon
<1> HIDE DEF all, y
<1>5. ASSUME NEW i \in 1 .. Len(y) PROVE y[i] = all[p + i]
    <2>1. CASE i <= Len(x)
        <3>1. i \in 1 .. Len(x) /\ p + i \in 1 .. Len(f)
            BY <1>1, <2>1
        <3>2. x[i] = f[p + i]
            BY <3>1 DEF EndOf, Segment
        <3> QED BY <1>3, <1>4, <3>1, <3>2
    <2>2. CASE i > Len(x)
        <3>1. i \in 1 .. Len(x) + Len(in)
            BY <1>2
        <3>2. /\ p + i \in 1 .. Len(f) + Len(in)
              /\ p + i > Len(f) /\ (p + i) - Len(f) = i - Len(x)
            BY <1>1, <2>2, <3>1
        <3>3. y[i] = in[i - Len(x)]
            BY <1>4, <2>2, <3>1
        <3>4. all[p + i] = in[(p + i) - Len(f)]
            BY <1>3, <3>2
        <3> QED BY <3>2, <3>3, <3>4
    <2> QED BY <1>1, <1>2, <2>1, <2>2
<1>6. p + Len(y) = Len(all)
    BY <1>1, <1>2
<1>7. Segment(y, all, p)
    BY <1>1, <1>2, <1>5, <1>6 DEF Segment
<1> QED BY <1>6, <1>7 DEF EndOf, y, all

\* A stretch cut in two.
LEMMA SegmentCut ==
    ASSUME NEW x, NEW f, NEW p, Segment(x, f, p), NEW e \in 0 .. Len(x)
    PROVE  /\ Segment(SubSeq(x, 1, e), f, p) /\ Len(SubSeq(x, 1, e)) = e
           /\ Segment(SubSeq(x, e + 1, Len(x)), f, p + e)
           /\ Len(SubSeq(x, e + 1, Len(x))) = Len(x) - e
           /\ (p + e) + Len(SubSeq(x, e + 1, Len(x))) = p + Len(x)
<1> DEFINE a == SubSeq(x, 1, e)
           b == SubSeq(x, e + 1, Len(x))
<1>1. /\ x \in Seq(Nat) /\ f \in Seq(Nat) /\ p \in Nat
      /\ Len(x) \in Nat /\ Len(f) \in Nat /\ p + Len(x) <= Len(f)
    BY SegmentTypes
<1>2. e \in Nat /\ e <= Len(x)
    BY <1>1
<1>3. /\ a \in Seq(Nat) /\ Len(a) = e
      /\ \A i \in 1 .. e : a[i] = x[i]
    BY <1>1, <1>2, SubSeqProperties
<1>4. /\ b \in Seq(Nat) /\ Len(b) = Len(x) - e
      /\ \A i \in 1 .. Len(x) - e : b[i] = x[e + i]
    <2>1. /\ b \in Seq(Nat) /\ Len(b) = Len(x) - (e + 1) + 1
          /\ \A i \in 1 .. Len(x) - (e + 1) + 1 : b[i] = x[(e + 1) + i - 1]
        <3>1. e + 1 \in 1 .. Len(x) + 1 /\ Len(x) \in (e + 1) - 1 .. Len(x)
            BY <1>1, <1>2
        <3> HIDE DEF b
        <3> QED BY <1>1, <3>1, PartAt DEF b
    <2>2. /\ Len(x) - (e + 1) + 1 = Len(x) - e
          /\ \A i \in 1 .. Len(x) - e : (e + 1) + i - 1 = e + i
        BY <1>1, <1>2
    <2> QED BY <2>1, <2>2
<1> HIDE DEF a, b
<1>5. ASSUME NEW i \in 1 .. Len(a) PROVE a[i] = f[p + i]
    <2>1. i \in 1 .. Len(x)
        BY <1>1, <1>2, <1>3
    <2> QED BY <1>3, <2>1 DEF Segment
<1>6. ASSUME NEW i \in 1 .. Len(b) PROVE b[i] = f[(p + e) + i]
    <2>1. i \in 1 .. Len(x) - e /\ e + i \in 1 .. Len(x) /\ p + (e + i) = (p + e) + i
        BY <1>1, <1>2, <1>4
    <2>2. x[e + i] = f[p + (e + i)]
        BY <2>1 DEF Segment
    <2> QED BY <1>4, <2>1, <2>2
<1>7. p + e \in Nat /\ p + Len(a) <= Len(f) /\ (p + e) + Len(b) <= Len(f)
      /\ (p + e) + Len(b) = p + Len(x)
    BY <1>1, <1>2, <1>3, <1>4
<1> QED BY <1>1, <1>3, <1>4, <1>5, <1>6, <1>7 DEF Segment, a, b

\* The beginning of a stream and the stretch that follows it.
LEMMA SegmentJoins ==
    ASSUME NEW m, NEW f, NEW p, Segment(m, f, 0), Len(m) = p, NEW x, Segment(x, f, p)
    PROVE  Segment(m \o x, f, 0) /\ Len(m \o x) = p + Len(x)
<1> DEFINE y == m \o x
<1>1. /\ m \in Seq(Nat) /\ x \in Seq(Nat) /\ f \in Seq(Nat) /\ p \in Nat
      /\ Len(x) \in Nat /\ Len(f) \in Nat /\ p + Len(x) <= Len(f)
    BY SegmentTypes
<1>2. y \in Seq(Nat) /\ Len(y) = p + Len(x)
    BY <1>1, JoinedIs
<1>3. /\ \A i \in 1 .. p : y[i] = m[i]
      /\ \A i \in 1 .. p + Len(x) : i > p => y[i] = x[i - p]
    BY <1>1, JoinedAt, Zenon
<1> HIDE DEF y
<1>4. ASSUME NEW i \in 1 .. Len(y) PROVE y[i] = f[0 + i]
    <2>1. CASE i <= p
        <3>1. i \in 1 .. p /\ 0 + i = i
            BY <1>1, <2>1
        <3>2. m[i] = f[0 + i]
            BY <3>1 DEF Segment
        <3> QED BY <1>3, <3>1, <3>2
    <2>2. CASE i > p
        <3>1. i - p \in 1 .. Len(x) /\ p + (i - p) = 0 + i /\ i \in 1 .. p + Len(x)
            BY <1>1, <1>2, <2>2
        <3>2. x[i - p] = f[p + (i - p)]
            BY <3>1 DEF Segment
        <3> QED BY <1>3, <2>2, <3>1, <3>2
    <2> QED BY <1>1, <1>2, <2>1, <2>2
<1>5. 0 + Len(y) <= Len(f)
    BY <1>1, <1>2
<1> QED BY <1>1, <1>2, <1>4, <1>5 DEF Segment, y

LEMMA SegmentIsSubSeq ==
    ASSUME NEW x, NEW f, NEW p, Segment(x, f, p), NEW q, q = p + Len(x)
    PROVE  x = SubSeq(f, p + 1, q)
<1> DEFINE y == SubSeq(f, p + 1, q)
<1>1. /\ x \in Seq(Nat) /\ f \in Seq(Nat) /\ p \in Nat
      /\ Len(x) \in Nat /\ Len(f) \in Nat /\ q <= Len(f) /\ q \in Nat
    BY SegmentTypes
<1>2. \A i \in p + 1 .. q : f[i] \in Nat
    BY <1>1, LenProperties
<1>3. /\ y \in Seq(Nat)
      /\ Len(y) = IF p + 1 <= q THEN q - (p + 1) + 1 ELSE 0
      /\ \A i \in 1 .. q - (p + 1) + 1 : y[i] = f[(p + 1) + i - 1]
    BY <1>1, <1>2, SubSeqProperties
<1> HIDE DEF y
<1>4. Len(y) = Len(x)
    BY <1>1, <1>3
<1>5. ASSUME NEW i \in 1 .. Len(x) PROVE x[i] = y[i]
    <2>1. i \in 1 .. q - (p + 1) + 1 /\ (p + 1) + i - 1 = p + i
        BY <1>1
    <2>2. x[i] = f[p + i]
        BY DEF Segment
    <2> QED BY <1>3, <2>1, <2>2
<1>6. x = y
    BY <1>1, <1>3, <1>4, <1>5, SeqEqual
<1> QED BY <1>6 DEF y

LEMMA WholeSegment ==
    ASSUME NEW x, NEW f, Segment(x, f, 0), Len(x) = Len(f)
    PROVE  x = f
<1>1. x \in Seq(Nat) /\ f \in Seq(Nat) /\ Len(x) \in Nat
    BY SegmentTypes
<1>2. ASSUME NEW i \in 1 .. Len(x) PROVE x[i] = f[i]
    <2>1. x[i] = f[0 + i]
        BY DEF Segment
    <2>2. 0 + i = i
        OBVIOUS
    <2> QED BY <2>1, <2>2
<1> QED BY <1>1, <1>2, SeqEqual
-----------------------------------------------------------------------------
\* What the GCM context has hashed: k bytes of AAD, and a message, which is what was
\* handed out unless output was lost.  Of the first p bytes of the stream f it missed
\* none, or some because it was full.
Taken(g, k, f, p, o, l) ==
    \E m : /\ Hashed(g, From(0, k), m)
           /\ Len(m) <= p /\ (Len(m) = p => Segment(m, f, 0))
           /\ l \/ o = m

AllTaken(g, p) == p <= MsgLimit => g.lenM = p

LEMMA FromZero ==
    ASSUME NEW n \in Nat
    PROVE  /\ From(0, n) \in Seq(Nat) /\ Len(From(0, n)) = n
           /\ \A i \in 1 .. n : From(0, n)[i] = i
<1>1. 0 \in Nat
    OBVIOUS
<1>2. /\ From(0, n) \in Seq(Nat) /\ Len(From(0, n)) = n
      /\ \A i \in 1 .. n : From(0, n)[i] = 0 + i
    BY <1>1, FromIs
<1> QED BY <1>2

LEMMA FreshTaken ==
    ASSUME NEW l
    PROVE  Taken(SetIv, 0, << >>, 0, << >>, l) /\ AllTaken(SetIv, 0)
<1>1. << >> \in Seq(Nat) /\ Len(<< >>) = 0
    BY EmptySeq
<1>2. From(0, 0) \in Seq(Nat) /\ Len(From(0, 0)) = 0
    <2>1. 0 \in Nat
        OBVIOUS
    <2> QED BY <2>1, FromZero
<1>3. Hashed(SetIv, From(0, 0), << >>)
    BY <1>1, <1>2, FreshHashed
<1>4. Segment(<< >>, << >>, 0)
    BY <1>1 DEF Segment
<1>5. SetIv.lenM = 0
    BY DEF SetIv
<1> QED BY <1>1, <1>3, <1>4, <1>5 DEF Taken, AllTaken

LEMMA TakenTypes ==
    ASSUME NEW g, Context(g), NEW k, NEW f, NEW p, NEW o, NEW l, Taken(g, k, f, p, o, l)
    PROVE  \E m \in Seq(Nat) :
              /\ Hashed(g, From(0, k), m) /\ Len(m) = g.lenM /\ g.lenM \in Nat
              /\ From(0, k) \in Seq(Nat) /\ Len(From(0, k)) = g.lenA
              /\ g.lenM <= p /\ (g.lenM = p => Segment(m, f, 0))
              /\ l \/ o = m
<1>1. PICK m : /\ Hashed(g, From(0, k), m)
               /\ Len(m) <= p /\ (Len(m) = p => Segment(m, f, 0))
               /\ l \/ o = m
    BY DEF Taken
<1>2. /\ m \in Seq(Nat) /\ Len(m) = g.lenM
      /\ From(0, k) \in Seq(Nat) /\ Len(From(0, k)) = g.lenA
    BY <1>1 DEF Hashed
<1>3. g.lenM \in Nat
    BY ContextTypes
<1> QED BY <1>1, <1>2, <1>3

LEMMA WithinLimit == ASSUME NEW g, Context(g) PROVE g.lenM \in Nat /\ g.lenM <= MsgLimit
BY LimitIsNat DEF Context, Order, Fields

\* update on x, the next stretch of the stream, which grows by `in' at the same time.
PassTaken(s, k, f, p, o, l, x, t, ok, f2, p2) ==
    /\ Usable(t) /\ HasIv(t) = HasIv(s)
    /\ Gcm(t).lenA = Gcm(s).lenA
    /\ ok => HasIv(s) /\ Gcm(t).lenM = Gcm(s).lenM + Len(x)
    /\ ~ok => Gcm(t).lenM = Gcm(s).lenM
    /\ ok \/ ~HasIv(s) \/ Gcm(s).lenM + Len(x) > MsgLimit
    /\ Spoiled(Gcm(s)) => Spoiled(Gcm(t))
    /\ Taken(Gcm(s), k, f, p, o, l) /\ HasIv(s)
         => /\ ok => Taken(Gcm(t), k, f2, p2, o \o x, l)
            /\ Taken(Gcm(t), k, f2, p2, o, TRUE)
            /\ ~ok \/ Len(x) = 0 => Taken(Gcm(t), k, f2, p2, o, l)
    /\ AllTaken(Gcm(s), p) /\ HasIv(s) => AllTaken(Gcm(t), p2)

LEMMA PassKeepsTaken ==
    ASSUME NEW s, Usable(s), NEW f, NEW in \in Seq(Nat), NEW f2, f2 = f \o in,
           NEW k, NEW p, NEW o, NEW l, NEW x, Segment(x, f2, p), NEW p2, p2 = p + Len(x),
           NEW t, t = NativeUpdate(s, x), NEW ok, ok = NativeUpdateOk(s, x)
    PROVE  PassTaken(s, k, f, p, o, l, x, t, ok, f2, p2)
<1> DEFINE g == Gcm(s)
           h == Gcm(t)
<1>1. /\ x \in Seq(Nat) /\ f2 \in Seq(Nat) /\ p \in Nat /\ Len(x) \in Nat
      /\ p2 \in Nat
    <2>1. x \in Seq(Nat) /\ f2 \in Seq(Nat) /\ p \in Nat /\ Len(x) \in Nat
        BY SegmentTypes
    <2> QED BY <2>1
<1>2. /\ Usable(t) /\ HasIv(t) = HasIv(s)
      /\ ok <=> HasIv(s) /\ CryptAccepts(g, x)
      /\ ok => h = Crypt(g, x)
      /\ ~ok => h = g
    BY <1>1, NativeUpdateIs DEF Gcm
<1>3. Context(g) /\ Context(h)
    BY <1>2 DEF Usable
<1>4. g.lenM \in Nat /\ g.lenM <= MsgLimit /\ MsgLimit \in Nat
    BY <1>3, WithinLimit, LimitIsNat
<1> HIDE DEF g, h
<1>5. Crypt(g, x).lenA = g.lenA /\ Crypt(g, x).lenM = g.lenM + Len(x)
    BY CryptIs
<1>6. CryptAccepts(g, x) <=> g.lenM + Len(x) <= MsgLimit
    BY DEF CryptAccepts
<1>7. h.lenM = IF ok THEN g.lenM + Len(x) ELSE g.lenM
    BY <1>2, <1>5
<1>8. h.lenA = g.lenA
    BY <1>2, <1>5
<1>9. ok \/ ~HasIv(s) \/ g.lenM + Len(x) > MsgLimit
    BY <1>1, <1>2, <1>4, <1>6
<1>10. ASSUME Spoiled(g) PROVE Spoiled(h)
    <2>1. Spoiled(Crypt(g, x))
        BY <1>1, <1>3, <1>10, CryptKeepsSpoiled
    <2> QED BY <1>2, <1>10, <2>1
<1>11. ASSUME AllTaken(g, p), HasIv(s) PROVE AllTaken(h, p2)
    <2> SUFFICES ASSUME p2 <= MsgLimit PROVE h.lenM = p2
        BY DEF AllTaken
    <2>1. p <= MsgLimit
        BY <1>1, <1>4
    <2>2. g.lenM = p
        BY <1>11, <2>1 DEF AllTaken
    <2> QED BY <1>1, <1>4, <1>7, <1>9, <1>11, <2>2
<1>12. ASSUME Taken(g, k, f, p, o, l), HasIv(s)
       PROVE  /\ ok => Taken(h, k, f2, p2, o \o x, l)
              /\ Taken(h, k, f2, p2, o, TRUE)
              /\ ~ok \/ Len(x) = 0 => Taken(h, k, f2, p2, o, l)
    <2>1. PICK m \in Seq(Nat) :
              /\ Hashed(g, From(0, k), m) /\ Len(m) = g.lenM
              /\ g.lenM <= p /\ (g.lenM = p => Segment(m, f, 0))
              /\ l \/ o = m
        BY <1>3, <1>12, TakenTypes
    <2>2. g.lenM = p => Segment(m, f2, 0)
        <3>1. ASSUME g.lenM = p PROVE Segment(m, f2, 0)
            <4>1. Segment(m, f, 0)
                BY <2>1, <3>1
            <4> QED BY <4>1, SegmentStays
        <3> QED BY <3>1
    <2>3. CASE ok
        <3> DEFINE m2 == m \o x
        <3>1. m2 \in Seq(Nat) /\ Len(m2) = g.lenM + Len(x)
            BY <1>1, <2>1, JoinedIs
        <3>2. Hashed(Crypt(g, x), From(0, k), m2)
            BY <1>1, <1>2, <1>3, <2>1, <2>3, CryptKeepsHashed
        <3>3. Hashed(h, From(0, k), m2)
            BY <1>2, <2>3, <3>2
        <3>4. /\ l \/ o \o x = m2
              /\ Len(x) = 0 => l \/ o = m2
            BY <1>1, <2>1, EmptyJoined
        <3> HIDE DEF m2
        <3>5. Len(m2) <= p2
            BY <1>1, <1>4, <2>1, <3>1
        <3>6. ASSUME Len(m2) = p2 PROVE Segment(m2, f2, 0)
            <4>1. g.lenM = p /\ Len(m) = p
                BY <1>1, <1>4, <2>1, <3>1, <3>6
            <4>2. Segment(m, f2, 0)
                BY <2>2, <4>1
            <4> QED BY <4>1, <4>2, SegmentJoins DEF m2
        <3> QED BY <2>3, <3>3, <3>4, <3>5, <3>6 DEF Taken
    <2>4. CASE ~ok
        <3>1. h = g
            BY <1>2, <2>4
        <3>2. Len(m) <= p2
            BY <1>1, <1>4, <2>1
        <3>3. Len(m) # p2
            BY <1>1, <1>4, <1>9, <1>12, <2>1, <2>4
        <3> QED BY <2>1, <2>4, <3>1, <3>2, <3>3 DEF Taken
    <2> QED BY <2>3, <2>4
<1> QED BY <1>2, <1>7, <1>8, <1>9, <1>10, <1>11, <1>12 DEF PassTaken, g, h

\* updateAAD on the next n bytes of the AAD: split AAD spoils the tag.
AadTaken(s, k, f, p, o, l, t, ok, k2) ==
    /\ Usable(t) /\ HasIv(t) = HasIv(s)
    /\ Gcm(t).lenA = k2 /\ k2 \in Nat
    /\ Gcm(t).lenM = Gcm(s).lenM /\ Gcm(t).padAt = Gcm(s).padAt
    /\ ok => Gcm(s).lenM = 0
    /\ Spoiled(Gcm(s)) => Spoiled(Gcm(t))
    /\ Taken(Gcm(s), k, f, p, o, l) => Taken(Gcm(t), k2, f, p, o, l) \/ Spoiled(Gcm(t))
    /\ Taken(Gcm(s), k, f, p, o, l) /\ (ok => Gcm(s).padAt = 0)
         => Taken(Gcm(t), k2, f, p, o, l)

LEMMA AadKeepsTaken ==
    ASSUME NEW s, Usable(s), NEW k, k = Gcm(s).lenA, NEW n \in Nat,
           NEW f, NEW p, NEW o, NEW l,
           NEW t, t = NativeUpdateAAD(s, From(k, n)),
           NEW ok, ok = NativeUpdateAADOk(s, From(k, n)),
           NEW k2, ok => k2 = k + n, ~ok => k2 = k
    PROVE  AadTaken(s, k, f, p, o, l, t, ok, k2)
<1> DEFINE g == Gcm(s)
           h == Gcm(t)
           in == From(k, n)
<1>1. Context(g) /\ IsGcm(g) /\ k \in Nat /\ k = g.lenA
    BY ContextTypes DEF Usable
<1>2. in \in Seq(Nat) /\ Len(in) = n /\ \A i \in 1 .. n : in[i] = k + i
    BY <1>1, FromIs
<1>3. /\ Usable(t) /\ HasIv(t) = HasIv(s)
      /\ ok => AadAccepts(g, in)
      /\ ok => h = Aad(g, in)
      /\ ~ok => h = g
    BY <1>2, NativeUpdateAADIs DEF Gcm
<1>4. From(0, k) \o in = From(0, k + n)
    BY <1>1, FromJoins
<1>5. From(0, k) \in Seq(Nat) /\ Len(From(0, k)) = k /\ \A i \in 1 .. k : From(0, k)[i] = i
    <2>1. k \in Nat
        BY <1>1
    <2> QED BY <2>1, FromZero
<1> HIDE DEF g, h, in
<1>6. Aad(g, in).lenA = k + n /\ Aad(g, in).lenM = g.lenM /\ Aad(g, in).padAt = g.padAt
    <2>1. /\ Aad(g, in).lenA = g.lenA + Len(in)
          /\ Aad(g, in).lenM = g.lenM /\ Aad(g, in).padAt = g.padAt
        BY <1>1, AadIs
    <2>2. k = g.lenA /\ Len(in) = n
        BY <1>1, <1>2
    <2> QED BY <2>1, <2>2
<1>7. h.lenA = k2 /\ k2 \in Nat /\ h.lenM = g.lenM /\ h.padAt = g.padAt
    BY <1>1, <1>3, <1>6
<1>8. ok => g.lenM = 0
    BY <1>3 DEF AadAccepts
<1>9. ASSUME Spoiled(g) PROVE Spoiled(h)
    <2>1. CASE ok
        <3>1. \A j \in 1 .. Len(in) : in[j] > g.lenA
            BY <1>1, <1>2
        <3>2. Spoiled(Aad(g, in))
            BY <1>1, <1>2, <1>3, <1>9, <2>1, <3>1, AadKeepsSpoiled
        <3> QED BY <1>3, <2>1, <3>2
    <2> QED BY <1>3, <1>9, <2>1
<1>10. ASSUME Taken(g, k, f, p, o, l)
       PROVE  /\ Taken(h, k2, f, p, o, l) \/ Spoiled(h)
              /\ (ok => g.padAt = 0) => Taken(h, k2, f, p, o, l)
    <2>1. CASE ~ok
        BY <1>3, <1>10, <2>1
    <2>2. CASE ok
        <3>1. PICK m : /\ Hashed(g, From(0, k), m)
                       /\ Len(m) <= p /\ (Len(m) = p => Segment(m, f, 0))
                       /\ l \/ o = m
            BY <1>10 DEF Taken
        <3>2. AadAccepts(g, in) /\ h = Aad(g, in) /\ k2 = k + n
            BY <1>3, <2>2
        <3>3. ASSUME ~AadSplit(Aad(g, in)) PROVE Taken(h, k2, f, p, o, l)
            <4>1. Hashed(Aad(g, in), From(0, k) \o in, m)
                BY <1>1, <1>2, <3>1, <3>2, <3>3, AadKeepsHashed
            <4>2. Hashed(h, From(0, k2), m)
                BY <1>4, <3>2, <4>1
            <4> QED BY <3>1, <4>2 DEF Taken
        <3>4. ASSUME AadSplit(Aad(g, in)) PROVE Spoiled(h) /\ g.padAt # 0
            <4>1. \A i \in 1 .. Len(From(0, k)) : From(0, k)[i] <= g.lenA
                BY <1>1, <1>5
            <4>2. Len(in) > 0 => in[1] = g.lenA + 1
                BY <1>1, <1>2
            <4>3. Spoiled(Aad(g, in))
                BY <1>1, <1>2, <3>1, <3>2, <3>4, <4>1, <4>2, SplitSpoils
            <4>4. g.padAt # 0
                BY <1>6, <3>4 DEF AadSplit
            <4> QED BY <3>2, <4>3, <4>4
        <3> QED BY <2>2, <3>3, <3>4
    <2> QED BY <2>1, <2>2
<1> QED BY <1>3, <1>7, <1>8, <1>9, <1>10 DEF AadTaken, g, h, in

-----------------------------------------------------------------------------
\* t is the tag of k bytes of AAD and of the output o, unless some of it was lost, and
\* o is the data f, unless that was too long.
IsSealOf(t, k, f, o, l) ==
    /\ l \/ t = ReferenceTag(From(0, k), o)
    /\ Len(f) <= MsgLimit => t = ReferenceTag(From(0, k), f) /\ (l \/ o = f)

\* The tag of what was taken.
LEMMA SealOfTaken ==
    ASSUME NEW g, Context(g), NEW k, NEW f \in Seq(Nat), NEW o, NEW l,
           Taken(g, k, f, Len(f), o, l), AllTaken(g, Len(f))
    PROVE  IsSealOf(TagValue(g), k, f, o, l)
<1>1. PICK m \in Seq(Nat) :
          /\ Hashed(g, From(0, k), m) /\ Len(m) = g.lenM
          /\ g.lenM = Len(f) => Segment(m, f, 0)
          /\ l \/ o = m
    BY TakenTypes
<1>2. TagValue(g) = ReferenceTag(From(0, k), m)
    BY <1>1, FinishIsReference
<1>3. ASSUME Len(f) <= MsgLimit PROVE m = f
    <2>1. g.lenM = Len(f)
        BY <1>3 DEF AllTaken
    <2> QED BY <1>1, <2>1, WholeSegment
<1> QED BY <1>1, <1>2, <1>3 DEF IsSealOf

\* Every byte of the stream is the sender's byte of that place, or none of the sender's.
Placed(f) == \A i \in 1 .. Len(f) : f[i] \in {i, 0}

\* A reserve that holds the sender's tag ends a stream as long as the sender's.
LEMMA TagEndsStream ==
    ASSUME NEW f, Placed(f), NEW h, NEW p, Segment(h, f, p), p + Len(h) = Len(f), Len(h) > 0,
           NEW q \in Nat, h = From(q, Len(h))
    PROVE  p = q
<1>1. p \in Nat /\ Len(h) \in Nat /\ Len(f) \in Nat
    BY SegmentTypes
<1> DEFINE n == Len(h)
<1>2. n \in Nat /\ n \in 1 .. n /\ p + n \in 1 .. Len(f)
    BY <1>1
<1>3. h[n] = f[p + n]
    BY <1>2 DEF Segment
<1>4. f[p + n] \in {p + n, 0}
    BY <1>2 DEF Placed
<1> HIDE DEF n
<1>5. h = From(q, n)
    BY DEF n
<1>6. From(q, n)[n] = q + n
    BY <1>2, FromIs
<1> QED BY <1>1, <1>2, <1>3, <1>4, <1>5, <1>6

LEMMA StreamIsFrom ==
    ASSUME NEW m, NEW f, NEW h, NEW q \in Nat, NEW n \in Nat,
           NEW z \in Nat, z = q + n,
           Segment(m, f, 0), Segment(h, f, q), Len(h) = n, Len(f) = z,
           m = From(0, q), h = From(q, n)
    PROVE  f = From(0, z)
<1>1. f \in Seq(Nat)
    BY SegmentTypes
<1>2. /\ From(0, z) \in Seq(Nat) /\ Len(From(0, z)) = z
      /\ \A i \in 1 .. z : From(0, z)[i] = i
    BY FromZero
<1>3. Len(From(0, q)) = q /\ \A i \in 1 .. q : From(0, q)[i] = i
    BY FromZero
<1>4. \A i \in 1 .. n : From(q, n)[i] = q + i
    BY FromIs
<1>5. ASSUME NEW i \in 1 .. Len(f) PROVE f[i] = From(0, z)[i]
    <2>1. From(0, z)[i] = i
        BY <1>2
    <2>2. CASE i <= q
        <3>1. i \in 1 .. q /\ i \in 1 .. Len(m) /\ 0 + i = i
            BY <1>3, <2>2
        <3>2. m[i] = f[0 + i]
            BY <3>1 DEF Segment
        <3>3. From(0, q)[i] = i
            BY <1>3, <3>1
        <3> QED BY <2>1, <3>1, <3>2, <3>3
    <2>3. CASE i > q
        <3>1. i - q \in 1 .. n /\ q + (i - q) = i
            BY <2>3
        <3>2. h[i - q] = f[q + (i - q)]
            BY <3>1 DEF Segment
        <3>3. From(q, n)[i - q] = q + (i - q)
            BY <1>4, <3>1
        <3> QED BY <2>1, <3>1, <3>2, <3>3
    <2> QED BY <2>2, <2>3
<1> QED BY <1>1, <1>2, <1>5, SeqEqual

IsSent == sent \in [aad : 0 .. MaxAad, msg : 0 .. MaxMsg]

LEMMA SentTypes ==
    ASSUME IsSent
    PROVE  /\ sent.aad \in Nat /\ sent.msg \in Nat /\ sent.msg <= MsgLimit
           /\ From(0, sent.aad) \in Seq(Nat) /\ From(0, sent.msg) \in Seq(Nat)
           /\ Len(From(0, sent.aad)) = sent.aad /\ Len(From(0, sent.msg)) = sent.msg
<1>1. sent.aad \in Nat /\ sent.msg \in Nat /\ sent.msg <= MsgLimit
    BY CipherAssumption, LimitIsNat DEF IsSent
<1> QED BY <1>1, FromZero

\* A reserve that matches the tag of what was taken shows that this was what the
\* sender sealed.
LEMMA MatchIsAuthentic ==
    ASSUME IsSent, NEW g, Context(g), NEW k \in Nat, NEW f, NEW p, NEW o, NEW l,
           Taken(g, k, f, p, o, l), Placed(f),
           NEW h, Segment(h, f, p), p + Len(h) = Len(f), Len(h) > 0,
           NEW iv \in Ivs, TagIn(h) = <<<<Key, iv>>, TagValue(g)>>
    PROVE  /\ iv = SentIv /\ k = sent.aad
           /\ f = From(0, sent.msg + Len(h))
           /\ l \/ o = From(0, sent.msg)
<1> DEFINE a == From(0, sent.aad)
           c == From(0, sent.msg)
<1>1. /\ sent.aad \in Nat /\ sent.msg \in Nat
      /\ a \in Seq(Nat) /\ c \in Seq(Nat) /\ Len(a) = sent.aad /\ Len(c) = sent.msg
    BY SentTypes
<1>2. TagValue(g) \in Polynomials
    BY FinishTypes
<1>3. TagIn(h) # NULL
    BY <1>2, CipherAssumption
<1>4. h = From(sent.msg, Len(h)) /\ TagIn(h) = <<<<Key, SentIv>>, ReferenceTag(a, c)>>
    BY <1>3 DEF TagIn
<1>5. iv = SentIv /\ TagValue(g) = ReferenceTag(a, c)
    BY <1>4
<1>6. PICK m \in Seq(Nat) :
          /\ Hashed(g, From(0, k), m) /\ Len(m) = g.lenM
          /\ From(0, k) \in Seq(Nat)
          /\ g.lenM = p => Segment(m, f, 0)
          /\ l \/ o = m
    BY TakenTypes
<1>7. TagValue(g) = ReferenceTag(From(0, k), m)
    BY <1>6, FinishIsReference
<1> HIDE DEF a, c
<1>8. From(0, k) = a /\ m = c
    <2>1. ReferenceTag(From(0, k), m) = ReferenceTag(a, c)
        BY <1>5, <1>7
    <2> QED BY <1>1, <1>6, <2>1, ReferenceTells
<1>9. k = sent.aad
    <2>1. Len(From(0, k)) = k
        BY FromZero
    <2> QED BY <1>1, <1>8, <2>1
<1>10. p = sent.msg
    BY <1>1, <1>4, TagEndsStream
<1>11. f = From(0, sent.msg + Len(h))
    <2>1. Segment(m, f, 0) /\ m = From(0, sent.msg)
        BY <1>1, <1>6, <1>8, <1>10 DEF c
    <2>2. Segment(h, f, sent.msg) /\ Len(f) = sent.msg + Len(h)
        BY <1>10
    <2>3. Len(h) \in Nat
        BY SegmentTypes
    <2>4. sent.msg + Len(h) \in Nat
        BY <1>1, <2>3
    <2> QED BY <1>1, <1>4, <2>1, <2>2, <2>3, <2>4, StreamIsFrom
<1> QED BY <1>5, <1>6, <1>8, <1>9, <1>11 DEF c

\* And what the sender sealed matches.
LEMMA AuthenticMatches ==
    ASSUME IsSent, NEW g, Context(g), NEW f, NEW p, NEW o, NEW l,
           Taken(g, sent.aad, f, p, o, l), AllTaken(g, p),
           NEW h, Segment(h, f, p), p + Len(h) = Len(f),
           f = From(0, sent.msg + Len(h))
    PROVE  p = sent.msg /\ TagIn(h) = <<<<Key, SentIv>>, TagValue(g)>>
<1> DEFINE q == sent.msg
           n == Len(h)
<1>1. q \in Nat /\ q <= MsgLimit /\ From(0, q) \in Seq(Nat) /\ Len(From(0, q)) = q
    BY SentTypes
<1>2. p \in Nat /\ n \in Nat /\ h \in Seq(Nat) /\ f \in Seq(Nat)
    BY SegmentTypes
<1>3. Len(f) = q + n /\ \A i \in 1 .. q + n : f[i] = i
    <2>1. q + n \in Nat
        BY <1>1, <1>2
    <2> HIDE DEF q, n
    <2>2. Len(From(0, q + n)) = q + n /\ \A i \in 1 .. q + n : From(0, q + n)[i] = i
        BY <2>1, FromZero
    <2> QED BY <2>2 DEF q, n
<1>4. p = q
    BY <1>1, <1>2, <1>3
<1>5. h = From(q, n)
    <2>1. From(q, n) \in Seq(Nat) /\ Len(From(q, n)) = n /\ \A i \in 1 .. n : From(q, n)[i] = q + i
        BY <1>1, <1>2, FromIs
    <2>2. ASSUME NEW i \in 1 .. n PROVE h[i] = From(q, n)[i]
        <3>1. h[i] = f[p + i]
            BY DEF Segment
        <3> HIDE DEF q, n
        <3>2. q \in Nat /\ n \in Nat /\ p = q
            BY <1>1, <1>2, <1>4
        <3>3. p + i \in 1 .. q + n /\ p + i = q + i
            BY <3>2
        <3> QED BY <1>3, <2>1, <3>1, <3>3
    <2> QED BY <1>2, <2>1, <2>2, SeqEqual
<1>6. PICK m \in Seq(Nat) :
          /\ Hashed(g, From(0, sent.aad), m) /\ Len(m) = g.lenM
          /\ g.lenM = p => Segment(m, f, 0)
    BY TakenTypes
<1>7. g.lenM = p
    BY <1>1, <1>4 DEF AllTaken
<1>8. m = From(0, q)
    <2>1. Segment(m, f, 0) /\ Len(m) = q
        BY <1>4, <1>6, <1>7
    <2>2. \A i \in 1 .. q : From(0, q)[i] = i
        BY <1>1, FromZero
    <2>3. ASSUME NEW i \in 1 .. Len(m) PROVE m[i] = From(0, q)[i]
        <3>1. m[i] = f[0 + i]
            BY <2>1 DEF Segment
        <3>2. 0 + i = i /\ i \in 1 .. q + n /\ i \in 1 .. q
            BY <1>1, <1>2, <2>1
        <3> QED BY <1>3, <2>2, <3>1, <3>2
    <2> QED BY <1>1, <1>6, <2>1, <2>3, SeqEqual
<1>9. TagValue(g) = ReferenceTag(From(0, sent.aad), m)
    BY <1>6, FinishIsReference
<1> HIDE DEF q, n
<1>10. TagIn(h) = <<<<Key, SentIv>>, ReferenceTag(From(0, sent.aad), From(0, q))>>
    BY <1>5 DEF TagIn, q, n
<1> QED BY <1>4, <1>8, <1>9, <1>10 DEF q

\* Nothing matches the tag of a spoiled context.
LEMMA SpoiledMatchesNothing ==
    ASSUME IsSent, NEW g, Context(g), Spoiled(g), NEW iv \in Ivs, NEW h
    PROVE  TagIn(h) # <<<<Key, iv>>, TagValue(g)>>
<1>1. TagValue(g) \in Polynomials /\ SpoiledTag(TagValue(g))
    BY FinishTypes, FinishKeepsSpoiled
<1>2. NULL # <<<<Key, iv>>, TagValue(g)>>
    BY <1>1, CipherAssumption
<1> DEFINE a == From(0, sent.aad)
           c == From(0, sent.msg)
<1>3. /\ a \in Seq(Nat) /\ c \in Seq(Nat) /\ \A i \in 1 .. Len(a) : a[i] = i
    <2>1. sent.aad \in Nat /\ c \in Seq(Nat)
        BY SentTypes
    <2>2. a \in Seq(Nat) /\ Len(a) = sent.aad /\ \A i \in 1 .. sent.aad : a[i] = i
        BY <2>1, FromZero
    <2> QED BY <2>1, <2>2
<1>4. TagIn(h) \in {NULL, <<<<Key, SentIv>>, ReferenceTag(a, c)>>}
    BY DEF TagIn
<1> HIDE DEF a, c
<1>5. ~SpoiledTag(ReferenceTag(a, c))
    BY <1>3, ReferenceIsNotSpoiled
<1>6. ReferenceTag(a, c) # TagValue(g)
    BY <1>1, <1>5
<1> QED BY <1>2, <1>4, <1>6

-----------------------------------------------------------------------------
\* What the object holds back: nothing when encrypting.
Keeps(enc, r) == IF enc THEN << >> ELSE r.held

\* A reserve is filled when it is full or has all there is.
Filled(h, size, f) == Len(h) = size \/ Len(h) = Len(f)

FreshPad(g) == g.lenM = 0 => g.padAt = 0

\* Of what engineUpdate, or its share of engineDoFinal, left as d when f2 was given and p2
\* of it had passed, and when it had begun at the context s, the reserve r, f and p:
ContextDone(s, d) == Usable(d.ctx) /\ HasIv(d.ctx) = HasIv(s) /\ Gcm(d.ctx).lenA = Gcm(s).lenA

PassedDone(s, p, d, f2, p2) ==
    /\ EndOf(Keeps(encrypt, d.reserve), f2, p2) /\ p <= p2
    /\ Gcm(s).lenM <= p => Gcm(d.ctx).lenM <= p2
    /\ d.ok => /\ Segment(d.out, f2, p) /\ p2 = p + Len(d.out)
               /\ Gcm(d.ctx).lenM = Gcm(s).lenM + Len(d.out)

ReserveDone(r, f, d, f2) ==
    ~encrypt => /\ d.ok => Len(d.out) = 0 \/ Len(d.reserve.held) = r.size
                /\ Filled(r.held, r.size, f) => Filled(d.reserve.held, r.size, f2)

\* what was taken before is still taken, with what passed when the call returned;
TakenDone(s, k, f, p, o, l, d, f2, p2) ==
    /\ Spoiled(Gcm(s)) => Spoiled(Gcm(d.ctx))
    /\ HasIv(s) /\ Taken(Gcm(s), k, f, p, o, l)
         => /\ d.ok => Taken(Gcm(d.ctx), k, f2, p2, o \o d.out, l)
            /\ Taken(Gcm(d.ctx), k, f2, p2, o, TRUE)
            /\ ~d.ok \/ Len(d.out) = 0 => Taken(Gcm(d.ctx), k, f2, p2, o, l)
    /\ HasIv(s) /\ AllTaken(Gcm(s), p) => AllTaken(Gcm(d.ctx), p2)
    /\ d.ok \/ ~HasIv(s) \/ (Gcm(s).lenM <= p => p2 > MsgLimit)

\* and it threw for want of an IV, of space, or of a reserve.
CallDone(s, p, d, f2) ==
    /\ ~d.ok => d.ctx = s
    /\ 0 \notin d.releases
    /\ 2 \in d.releases /\ Gcm(s).lenM <= p => ~HasIv(s) \/ Len(f2) > MsgLimit

Stage(s, r, k, f, p, o, l, d, f2, p2) ==
    /\ ContextDone(s, d) /\ PassedDone(s, p, d, f2, p2) /\ ReserveDone(r, f, d, f2)
    /\ CallDone(s, p, d, f2)
    /\ encrypt \/ r.size # 0 => TakenDone(s, k, f, p, o, l, d, f2, p2)

\* Of a reserve of z bytes that had h and gets n, e go.
LEMMA FilledLengths ==
    ASSUME NEW h \in Nat, NEW n \in Nat, NEW z \in Nat, h <= z, NEW a, a = h + n,
           NEW e, e = IF a > z THEN a - z ELSE 0, NEW k, k = a - e
    PROVE  (h = z => k = z) /\ (k = z \/ k = a)
OBVIOUS

\* Of a full reserve and what comes in, it gives up what is too much and keeps the rest,
\* which is full again; before it is full it has all there is.
LEMMA ReserveSplits ==
    ASSUME NEW r, IsReserve(r), NEW in \in Seq(Nat), NEW f, NEW p, EndOf(r.held, f, p)
    PROVE  LET x == Released(r, in)
               k == Kept(r, in)
           IN  /\ Segment(x, f \o in, p) /\ EndOf(k.held, f \o in, p + Len(x))
               /\ Len(x) = 0 \/ Len(k.held) = r.size
               /\ Filled(r.held, r.size, f) => Filled(k.held, r.size, f \o in)
<1> DEFINE all == r.held \o in
           f2 == f \o in
           e == Excess(r, in)
           x == SubSeq(all, 1, e)
           y == SubSeq(all, e + 1, Len(all))
<1>1. /\ Len(r.held) \in Nat /\ r.held \in Seq(Nat) /\ Len(in) \in Nat /\ Len(f) \in Nat
      /\ p + Len(r.held) = Len(f) /\ p \in Nat /\ f \in Seq(Nat)
    BY EndTypes, LenProperties
<1>2. r.size \in Nat /\ Len(r.held) <= r.size
    BY CipherAssumption DEF IsReserve, Reserves
<1>3. EndOf(all, f2, p)
    BY EndGrows, Zenon
<1>4. Len(all) = Len(r.held) + Len(in) /\ Len(f2) = Len(f) + Len(in)
    BY <1>1, JoinedIs
<1>5. Released(r, in) = x /\ Kept(r, in).held = y
    BY DEF Released, Kept, IsReserve, Reserves
<1> HIDE DEF all, f2, e, x, y
<1>6. e = IF Len(all) > r.size THEN Len(all) - r.size ELSE 0
    BY <1>1, <1>2, <1>4 DEF Excess, e
<1>7. Len(all) \in Nat /\ Len(f2) \in Nat /\ p + Len(all) = Len(f2)
    BY <1>3, EndTypes
<1>8. e \in 0 .. Len(all) /\ e \in Nat /\ (e = 0 \/ Len(all) - e = r.size)
    BY <1>2, <1>6, <1>7
<1>9. /\ Segment(x, f2, p) /\ Len(x) = e
      /\ Segment(y, f2, p + e) /\ Len(y) = Len(all) - e
      /\ p + e + Len(y) = p + Len(all)
    BY <1>3, <1>8, SegmentCut DEF x, y, EndOf
<1>10. Len(x) = 0 \/ Len(y) = r.size
    BY <1>8, <1>9
<1>11. EndOf(y, f2, p + Len(x))
    <2>1. p + e + Len(y) = Len(f2)
        BY <1>7, <1>9, Zenon
    <2> QED BY <1>9, <2>1 DEF EndOf
<1>12. Filled(r.held, r.size, f) => Filled(y, r.size, f2)
    <2>1. /\ Len(r.held) \in Nat /\ Len(in) \in Nat /\ Len(f) \in Nat
          /\ p + Len(r.held) = Len(f) /\ p \in Nat
        BY <1>1, Zenon
    <2>2. Len(y) = Len(all) - e
        BY <1>9, Zenon
    <2>3. (Len(r.held) = r.size => Len(y) = r.size) /\ (Len(y) = r.size \/ Len(y) = Len(all))
        BY <1>2, <1>4, <1>6, <2>1, <2>2, FilledLengths
    <2>4. Len(r.held) = Len(f) => Len(all) = Len(f2)
        BY <1>4, Zenon
    <2> QED BY <2>3, <2>4 DEF Filled
<1>13. /\ Segment(Released(r, in), f2, p) /\ EndOf(Kept(r, in).held, f2, p + Len(Released(r, in)))
       /\ Len(Released(r, in)) = 0 \/ Len(Kept(r, in).held) = r.size
       /\ Filled(r.held, r.size, f) => Filled(Kept(r, in).held, r.size, f2)
    BY <1>5, <1>9, <1>10, <1>11, <1>12
<1> QED BY <1>13 DEF f2

\* The engine passed the bytes d.out to the native update, when f had grown to f2.
Passing(s, r, f, p, d, f2, p2) ==
    /\ \E in \in Seq(Nat) : f2 = f \o in
    /\ p2 = p + Len(d.out)
    /\ Segment(d.out, f2, p) /\ EndOf(Keeps(encrypt, d.reserve), f2, p2)
    /\ d.ok = NativeUpdateOk(s, d.out) /\ d.ctx = NativeUpdate(s, d.out)
    /\ d.releases = NativeUpdateReleases(s, d.out)
    /\ ~encrypt => /\ Len(d.out) = 0 \/ Len(d.reserve.held) = r.size
                   /\ Filled(r.held, r.size, f) => Filled(d.reserve.held, r.size, f2)

LEMMA EngineUpdatePasses ==
    ASSUME NEW s, NEW r, ~encrypt => IsReserve(r) /\ r.size # 0,
           NEW f, NEW p, EndOf(Keeps(encrypt, r), f, p), NEW in \in Seq(Nat)
    PROVE  LET d == EngineUpdate(s, r, in) IN Passing(s, r, f, p, d, f \o in, p + Len(d.out))
<1> DEFINE d == EngineUpdate(s, r, in)
           f2 == f \o in
<1>3. \E i \in Seq(Nat) : f2 = f \o i
    OBVIOUS
<1>1. CASE encrypt
    <2>1. d = Passes(s, r, in)
        BY <1>1 DEF EngineUpdate
    <2>2. Keeps(encrypt, r) = << >> /\ Keeps(encrypt, d.reserve) = << >>
        BY <1>1 DEF Keeps
    <2>3. Segment(in, f2, p) /\ p + Len(in) = Len(f2)
        <3>1. << >> \o in = in
            BY EmptySeq, ConcatEmptySeq
        <3>2. EndOf(<< >> \o in, f2, p)
            BY <2>2, EndGrows, Zenon
        <3> QED BY <3>1, <3>2, Zenon DEF EndOf
    <2>4. EndOf(<< >>, f2, p + Len(in))
        <3>1. f2 \in Seq(Nat) /\ Len(f2) \in Nat
            BY <2>3, SegmentTypes
        <3> HIDE DEF f2
        <3>2. Len(f2) \in 0 .. Len(f2) /\ Len(<< >>) = 0
            BY <3>1, EmptySeq
        <3>3. Segment(<< >>, f2, Len(f2))
            BY <3>1, <3>2, NoSegment
        <3>4. Len(f2) + Len(<< >>) = Len(f2)
            BY <3>1, <3>2
        <3> QED BY <2>3, <3>3, <3>4 DEF EndOf
    <2>5. /\ d.ok = NativeUpdateOk(s, in) /\ d.out = in /\ d.ctx = NativeUpdate(s, in)
          /\ d.releases = NativeUpdateReleases(s, in)
        BY <2>1 DEF Passes
    <2> HIDE DEF d, f2
    <2>6. /\ Segment(d.out, f2, p) /\ EndOf(Keeps(encrypt, d.reserve), f2, p + Len(d.out))
          /\ d.ok = NativeUpdateOk(s, d.out) /\ d.ctx = NativeUpdate(s, d.out)
          /\ d.releases = NativeUpdateReleases(s, d.out)
        BY <2>2, <2>3, <2>4, <2>5
    <2>7. Passing(s, r, f, p, d, f2, p + Len(d.out))
        BY <1>1, <1>3, <2>6, Zenon DEF Passing
    <2> QED BY <2>7 DEF d, f2
<1>2. CASE ~encrypt
    <2> DEFINE x == Released(r, in)
               k == Kept(r, in)
    <2>1. IsReserve(r) /\ r.size # 0 /\ EndOf(r.held, f, p)
        BY <1>2 DEF Keeps
    <2>2. d = Passes(s, k, x)
        BY <1>2, <2>1 DEF EngineUpdate
    <2> HIDE DEF x, k
    <2>3. /\ d.ok = NativeUpdateOk(s, x) /\ d.out = x /\ d.ctx = NativeUpdate(s, x)
          /\ d.releases = NativeUpdateReleases(s, x) /\ d.reserve = k
        BY <2>2 DEF Passes
    <2>4. /\ Segment(x, f2, p) /\ EndOf(k.held, f2, p + Len(x))
          /\ Len(x) = 0 \/ Len(k.held) = r.size
          /\ Filled(r.held, r.size, f) => Filled(k.held, r.size, f2)
        BY <2>1, ReserveSplits DEF x, k
    <2>5. Keeps(encrypt, d.reserve) = k.held
        BY <1>2, <2>3 DEF Keeps
    <2> HIDE DEF d, f2
    <2>6. /\ Segment(d.out, f2, p) /\ EndOf(Keeps(encrypt, d.reserve), f2, p + Len(d.out))
          /\ d.ok = NativeUpdateOk(s, d.out) /\ d.ctx = NativeUpdate(s, d.out)
          /\ d.releases = NativeUpdateReleases(s, d.out)
          /\ Len(d.out) = 0 \/ Len(d.reserve.held) = r.size
          /\ Filled(r.held, r.size, f) => Filled(d.reserve.held, r.size, f2)
        BY <2>3, <2>4, <2>5
    <2>7. Passing(s, r, f, p, d, f2, p + Len(d.out))
        BY <1>2, <1>3, <2>6, Zenon DEF Passing
    <2> QED BY <2>7 DEF d, f2
<1> QED BY <1>1, <1>2

\* When the engine passes bytes to the native update,
LEMMA PassingTakes ==
    ASSUME NEW s, Usable(s), NEW r, NEW k, NEW f, NEW p, NEW o, NEW l,
           NEW d, NEW f2, NEW p2, Passing(s, r, f, p, d, f2, p2)
    PROVE  PassTaken(s, k, f, p, o, l, d.out, d.ctx, d.ok, f2, p2)
BY PassKeepsTaken DEF Passing

LEMMA StageOfPassing ==
    ASSUME NEW s, Usable(s), NEW r, NEW k, NEW f, NEW p, NEW o, NEW l,
           NEW d, NEW f2, NEW p2, Passing(s, r, f, p, d, f2, p2)
    PROVE  Stage(s, r, k, f, p, o, l, d, f2, p2)
<1>1. /\ Segment(d.out, f2, p) /\ EndOf(Keeps(encrypt, d.reserve), f2, p2)
      /\ d.ok = NativeUpdateOk(s, d.out) /\ d.ctx = NativeUpdate(s, d.out)
      /\ d.releases = NativeUpdateReleases(s, d.out) /\ p2 = p + Len(d.out)
      /\ ~encrypt => /\ Len(d.out) = 0 \/ Len(d.reserve.held) = r.size
                     /\ Filled(r.held, r.size, f) => Filled(d.reserve.held, r.size, f2)
    BY DEF Passing
<1>2. /\ Usable(d.ctx) /\ HasIv(d.ctx) = HasIv(s)
      /\ Gcm(d.ctx).lenA = Gcm(s).lenA
      /\ d.ok => HasIv(s) /\ Gcm(d.ctx).lenM = Gcm(s).lenM + Len(d.out)
      /\ ~d.ok => Gcm(d.ctx).lenM = Gcm(s).lenM
      /\ d.ok \/ ~HasIv(s) \/ Gcm(s).lenM + Len(d.out) > MsgLimit
      /\ Spoiled(Gcm(s)) => Spoiled(Gcm(d.ctx))
      /\ Taken(Gcm(s), k, f, p, o, l) /\ HasIv(s)
           => /\ d.ok => Taken(Gcm(d.ctx), k, f2, p2, o \o d.out, l)
              /\ Taken(Gcm(d.ctx), k, f2, p2, o, TRUE)
              /\ ~d.ok \/ Len(d.out) = 0 => Taken(Gcm(d.ctx), k, f2, p2, o, l)
      /\ AllTaken(Gcm(s), p) /\ HasIv(s) => AllTaken(Gcm(d.ctx), p2)
    <2>1. PassTaken(s, k, f, p, o, l, d.out, d.ctx, d.ok, f2, p2)
        BY PassingTakes, Zenon
    <2> QED BY <2>1, Zenon DEF PassTaken
<1>3. /\ Len(d.out) \in Nat /\ p \in Nat /\ p2 \in Nat /\ Len(f2) \in Nat /\ p2 <= Len(f2)
      /\ Gcm(s).lenM \in Nat /\ p2 = p + Len(d.out)
    <2>1. Len(d.out) \in Nat /\ p \in Nat
        BY <1>1, SegmentTypes
    <2>2. p2 \in Nat /\ Len(f2) \in Nat /\ p2 <= Len(f2)
        BY <1>1, EndTypes
    <2>3. Context(Gcm(s))
        BY DEF Usable
    <2>4. Gcm(s).lenM \in Nat
        BY <2>3, WithinLimit
    <2> QED BY <1>1, <2>1, <2>2, <2>4
<1>4. MsgLimit \in Nat
    BY GcmAssumption DEF MsgLimit
<1>5. ~d.ok => d.ctx = s
    BY <1>1 DEF NativeUpdate
<1>6. d.releases = IF d.ok THEN {1} ELSE {2}
    BY <1>1 DEF NativeUpdateReleases
<1>7. ASSUME Gcm(s).lenM <= p
      PROVE  /\ Gcm(d.ctx).lenM <= p2
             /\ Gcm(s).lenM + Len(d.out) > MsgLimit => p2 > MsgLimit /\ Len(f2) > MsgLimit
    <2>1. Gcm(d.ctx).lenM = Gcm(s).lenM + Len(d.out) \/ Gcm(d.ctx).lenM = Gcm(s).lenM
        BY <1>2, Zenon
    <2>2. Gcm(d.ctx).lenM <= p2
        BY <1>3, <1>7, <2>1
    <2> DEFINE n == Len(d.out)
               M == Gcm(s).lenM
    <2>3. /\ n \in Nat /\ p \in Nat /\ p2 \in Nat /\ Len(f2) \in Nat /\ p2 <= Len(f2)
          /\ M \in Nat /\ p2 = p + n /\ M <= p
        BY <1>3, <1>7, Zenon
    <2> HIDE DEF n, M
    <2>4. M + n > MsgLimit => p2 > MsgLimit /\ Len(f2) > MsgLimit
        BY <1>4, <2>3
    <2> QED BY <2>2, <2>4 DEF n, M
<1>8. p <= p2
    BY <1>3
<1>9. ContextDone(s, d)
    BY <1>2 DEF ContextDone
<1>10. PassedDone(s, p, d, f2, p2)
    <2>1. d.ok => Gcm(d.ctx).lenM = Gcm(s).lenM + Len(d.out)
        BY <1>2, Zenon
    <2> QED BY <1>1, <1>7, <1>8, <2>1, Zenon DEF PassedDone
<1>11. ReserveDone(r, f, d, f2)
    BY <1>1 DEF ReserveDone
<1>12. CallDone(s, p, d, f2)
    BY <1>2, <1>5, <1>6, <1>7 DEF CallDone
<1>13. TakenDone(s, k, f, p, o, l, d, f2, p2)
    BY <1>2, <1>7, Zenon DEF TakenDone
<1> QED BY <1>9, <1>10, <1>11, <1>12, <1>13 DEF Stage

\* when a reserve of no bytes makes it throw,
LEMMA StageOfNoReserve ==
    ASSUME NEW s, Usable(s), NEW r, ~encrypt, IsReserve(r), r.size = 0,
           NEW k, NEW f, NEW p, NEW o, NEW l, EndOf(Keeps(encrypt, r), f, p),
           NEW in \in Seq(Nat), NEW d, d = EngineUpdate(s, r, in), NEW f2, f2 = f \o in,
           NEW p2, p2 = Len(f2)
    PROVE  Stage(s, r, k, f, p, o, l, d, f2, p2)
<1>1. d = Nothing(FALSE, s, r)
    BY DEF EngineUpdate
<1>2. ~d.ok /\ d.ctx = s /\ d.reserve = r /\ d.releases = {}
    BY <1>1 DEF Nothing
<1>3. r.held = << >> /\ Len(r.held) = 0
    <2>1. r.held \in Seq(Nat) /\ Len(r.held) <= 0
        BY CipherAssumption DEF IsReserve, Reserves
    <2>2. Len(r.held) = 0
        BY <2>1, LenProperties
    <2> QED BY <2>1, <2>2, EmptySeq
<1>4. Keeps(encrypt, d.reserve) = << >> /\ Keeps(encrypt, r) = << >>
    BY <1>2, <1>3 DEF Keeps
<1>5. EndOf(<< >>, f, p)
    BY <1>4
<1>6. EndOf(<< >> \o in, f2, p)
    BY <1>5, EndGrows, Zenon
<1>7. f2 \in Seq(Nat) /\ Len(f2) \in Nat /\ p <= p2
    BY <1>6, EndTypes, Zenon
<1>8. EndOf(<< >>, f2, p2)
    <2>1. Len(f2) \in 0 .. Len(f2) /\ Len(<< >>) = 0
        BY <1>7, EmptySeq
    <2>2. Segment(<< >>, f2, p2)
        BY <1>7, <2>1, NoSegment, Zenon
    <2>3. Len(f2) + 0 = Len(f2)
        BY <1>7
    <2> QED BY <2>1, <2>2, <2>3, Zenon DEF EndOf
<1>9. Gcm(s).lenM <= p => Gcm(s).lenM <= p2
    <2>1. Context(Gcm(s))
        BY DEF Usable
    <2>2. Gcm(s).lenM \in Nat /\ p \in Nat
        BY <1>5, <2>1, WithinLimit, EndTypes, Zenon
    <2> QED BY <1>7, <2>2
<1>10. ContextDone(s, d) /\ CallDone(s, p, d, f2)
    BY <1>2 DEF ContextDone, CallDone
<1>11. PassedDone(s, p, d, f2, p2)
    BY <1>2, <1>4, <1>7, <1>8, <1>9, Zenon DEF PassedDone
<1>12. ReserveDone(r, f, d, f2)
    BY <1>2, <1>3 DEF ReserveDone, Filled
<1> QED BY <1>10, <1>11, <1>12 DEF Stage

\* and when there is no input.
LEMMA StageOfNothing ==
    ASSUME NEW s, Usable(s), NEW r, NEW k, NEW f, NEW p, NEW o, NEW l,
           EndOf(Keeps(encrypt, r), f, p), NEW d, d = Nothing(TRUE, s, r)
    PROVE  Stage(s, r, k, f, p, o, l, d, f, p)
<1>1. d.ok /\ d.ctx = s /\ d.reserve = r /\ d.releases = {} /\ d.out = << >> /\ Len(d.out) = 0
    BY EmptySeq DEF Nothing
<1>2. p \in Nat /\ Len(f) \in Nat /\ f \in Seq(Nat) /\ p <= Len(f)
    BY EndTypes
<1>3. Segment(d.out, f, p) /\ p = p + Len(d.out) /\ p <= p
    <2>1. p \in 0 .. Len(f) /\ p = p + 0 /\ p <= p
        BY <1>2
    <2>2. Segment(<< >>, f, p)
        BY <1>2, <2>1, NoSegment, Zenon
    <2> QED BY <1>1, <2>1, <2>2, Zenon
<1>4. ASSUME Taken(Gcm(s), k, f, p, o, l)
      PROVE  Taken(Gcm(s), k, f, p, o \o d.out, l) /\ Taken(Gcm(s), k, f, p, o, TRUE)
    <2>1. Context(Gcm(s))
        BY DEF Usable
    <2>2. PICK m \in Seq(Nat) : /\ Hashed(Gcm(s), From(0, k), m)
                                /\ Len(m) = Gcm(s).lenM /\ Gcm(s).lenM \in Nat
                                /\ From(0, k) \in Seq(Nat) /\ Len(From(0, k)) = Gcm(s).lenA
                                /\ Gcm(s).lenM <= p /\ (Gcm(s).lenM = p => Segment(m, f, 0))
                                /\ l \/ o = m
        BY <1>4, <2>1, TakenTypes
    <2>3. m \o << >> = m
        BY ConcatEmptySeq
    <2>4. l \/ o \o d.out = m
        BY <1>1, <2>2, <2>3
    <2> QED BY <2>2, <2>4, Zenon DEF Taken
<1>5. ContextDone(s, d) /\ CallDone(s, p, d, f)
    BY <1>1 DEF ContextDone, CallDone
<1>6. PassedDone(s, p, d, f, p)
    <2>1. Context(Gcm(s))
        BY DEF Usable
    <2>2. Gcm(s).lenM \in Nat
        BY <2>1, WithinLimit
    <2>3. Gcm(s).lenM = Gcm(s).lenM + 0
        BY <2>2
    <2> QED BY <1>1, <1>3, <2>3, Zenon DEF PassedDone
<1>7. ReserveDone(r, f, d, f)
    BY <1>1 DEF ReserveDone
<1>8. TakenDone(s, k, f, p, o, l, d, f, p)
    BY <1>1, <1>4, Zenon DEF TakenDone
<1> QED BY <1>5, <1>6, <1>7, <1>8 DEF Stage

\* So always.
LEMMA StageOfUpdate ==
    ASSUME NEW s, Usable(s), NEW r, ~encrypt => IsReserve(r),
           NEW k, NEW f, NEW p, NEW o, NEW l, EndOf(Keeps(encrypt, r), f, p), NEW in \in Seq(Nat)
    PROVE  \E p2 : Stage(s, r, k, f, p, o, l, EngineUpdate(s, r, in), f \o in, p2)
<1>1. CASE encrypt \/ r.size # 0
    <2> DEFINE d  == EngineUpdate(s, r, in)
               p2 == p + Len(d.out)
    <2>1. ~encrypt => IsReserve(r) /\ r.size # 0
        BY <1>1
    <2>2. Passing(s, r, f, p, d, f \o in, p2)
        BY <2>1, EngineUpdatePasses, Zenon
    <2>3. Stage(s, r, k, f, p, o, l, d, f \o in, p2)
        BY <2>2, StageOfPassing, Zenon
    <2> QED BY <2>3
<1>2. CASE ~encrypt /\ r.size = 0
    <2> DEFINE d == EngineUpdate(s, r, in)
               F == f \o in
    <2>1. Stage(s, r, k, f, p, o, l, d, F, Len(F))
        BY <1>2, StageOfNoReserve
    <2> QED BY <2>1
<1> QED BY <1>1, <1>2

LEMMA StageOfFinal ==
    ASSUME NEW s, Usable(s), NEW r, ~encrypt => IsReserve(r),
           NEW k, NEW f, NEW p, NEW o, NEW l, EndOf(Keeps(encrypt, r), f, p),
           NEW in, in = NULL \/ in \in Seq(Nat)
    PROVE  \E p2 : Stage(s, r, k, f, p, o, l, DataOfFinal(s, r, in),
                         f \o (IF in = NULL THEN << >> ELSE in), p2)
<1>1. CASE in = NULL
    <2>1. DataOfFinal(s, r, in) = Nothing(TRUE, s, r)
        BY <1>1 DEF DataOfFinal
    <2>2. f \in Seq(Nat)
        BY EndTypes
    <2>3. f \o (IF in = NULL THEN << >> ELSE in) = f
        BY <1>1, <2>2, ConcatEmptySeq
    <2>4. Stage(s, r, k, f, p, o, l, Nothing(TRUE, s, r), f, p)
        BY StageOfNothing
    <2> QED BY <2>1, <2>3, <2>4
<1>2. CASE in # NULL
    <2>1. in \in Seq(Nat) /\ DataOfFinal(s, r, in) = EngineUpdate(s, r, in)
          /\ f \o (IF in = NULL THEN << >> ELSE in) = f \o in
        BY <1>2 DEF DataOfFinal
    <2>2. \E p2 : Stage(s, r, k, f, p, o, l, EngineUpdate(s, r, in), f \o in, p2)
        BY <2>1, StageOfUpdate, Zenon
    <2> QED BY <2>1, <2>2, Zenon
<1> QED BY <1>1, <1>2

-----------------------------------------------------------------------------
\* What a caller received of what the engine handed out: o and l become o2 and l2.
Received(ok, out, o, l, o2, l2) ==
    \/ ok /\ o2 = o \o out /\ l2 = l
    \/ ok /\ o2 = o /\ l2 = TRUE
    \/ ~ok /\ o2 = o /\ l2 = l

\* When sealing, the context has all that was given until there was too much, and has an
\* IV until a doFinal.
SealState(s, k, f, p, o, l, fin) ==
    /\ HasIv(s) => Taken(Gcm(s), k, f, p, o, l) /\ AllTaken(Gcm(s), p) /\ FreshPad(Gcm(s))
    /\ ~HasIv(s) => fin > 0

\* When opening it has an IV until a doFinal has returned.  It matches no tag any more, or
\* has what passed, and has all of it until a tag was tried or AAD came too late.
OpenState(s, r, k, f, p, o, l, fin, ret, tri, lat) ==
    /\ ~HasIv(s) => ret > 0
    /\ ~tri => Filled(r.held, r.size, f)
    /\ r.size \in 1 .. B =>
         /\ HasIv(s) => Spoiled(Gcm(s)) \/ Taken(Gcm(s), k, f, p, o, l)
         /\ ~tri /\ ~lat => /\ HasIv(s) /\ Taken(Gcm(s), k, f, p, o, l) /\ AllTaken(Gcm(s), p)
                            /\ f = << >> /\ fin = 0 => Gcm(s).padAt = 0

DataState(enc, s, r, k, f, p, o, l, fin, ret, tri, lat) ==
    /\ Usable(s) /\ Gcm(s).lenA = k
    /\ EndOf(Keeps(enc, r), f, p) /\ Gcm(s).lenM <= p
    /\ enc => SealState(s, k, f, p, o, l, fin)
    /\ ~enc => OpenState(s, r, k, f, p, o, l, fin, ret, tri, lat)

\* What was taken when the engine handed out d.out, and the caller received it or not.
LEMMA StageTakes ==
    ASSUME NEW s, NEW r, NEW k, NEW f, NEW p, NEW o, NEW l, NEW d, NEW f2, NEW p2,
           Stage(s, r, k, f, p, o, l, d, f2, p2), encrypt \/ r.size # 0,
           HasIv(s), Taken(Gcm(s), k, f, p, o, l),
           NEW o2, NEW l2, Received(d.ok, d.out, o, l, o2, l2)
    PROVE  Taken(Gcm(d.ctx), k, f2, p2, o2, l2)
<1>1. TakenDone(s, k, f, p, o, l, d, f2, p2)
    BY Zenon DEF Stage
<1>2. /\ d.ok => Taken(Gcm(d.ctx), k, f2, p2, o \o d.out, l)
      /\ Taken(Gcm(d.ctx), k, f2, p2, o, TRUE)
      /\ ~d.ok \/ Len(d.out) = 0 => Taken(Gcm(d.ctx), k, f2, p2, o, l)
    BY <1>1, Zenon DEF TakenDone
<1> QED BY <1>2, Zenon DEF Received

\* The share of engineUpdate in engineDoFinal keeps the fields as well.
LEMMA DataOfFinalKeepsFields ==
    ASSUME NEW s, IsContext(s), NEW r, ~encrypt => IsReserve(r),
           NEW in, in = NULL \/ in \in Seq(Nat)
    PROVE  LET d == DataOfFinal(s, r, in)
           IN  /\ SameMessage(d.ctx, s)
               /\ encrypt => d.reserve = r
               /\ ~encrypt => Successor(d.reserve, r)
<1>1. CASE in = NULL
    <2>1. DataOfFinal(s, r, in) = Nothing(TRUE, s, r)
        BY <1>1 DEF DataOfFinal
    <2>2. SameMessage(s, s)
        BY NativeKeepsMessage
    <2> QED BY <2>1, <2>2 DEF Nothing, Successor
<1>2. CASE in # NULL
    <2>1. in \in Seq(Nat) /\ DataOfFinal(s, r, in) = EngineUpdate(s, r, in)
        BY <1>2 DEF DataOfFinal
    <2> QED BY <2>1, UpdateKeepsFields
<1> QED BY <1>1, <1>2

\* A call of update on x bytes.
LEMMA UpdateData ==
    ASSUME NEW s, NEW r, NEW k, NEW f, NEW p, NEW o, NEW l, NEW fin, NEW ret, NEW tri, NEW lat,
           DataState(encrypt, s, r, k, f, p, o, l, fin, ret, tri, lat),
           NEW d, NEW f2, NEW p2, Stage(s, r, k, f, p, o, l, d, f2, p2),
           ~encrypt => d.reserve.size = r.size, encrypt /\ d.ok => Len(d.out) > 0,
           f2 # << >>, NEW o2, NEW l2, Received(d.ok, d.out, o, l, o2, l2)
    PROVE  DataState(encrypt, d.ctx, d.reserve, k, f2, p2, o2, l2, fin, ret, tri, lat)
<1>1. /\ Usable(s) /\ Gcm(s).lenA = k
      /\ EndOf(Keeps(encrypt, r), f, p) /\ Gcm(s).lenM <= p
      /\ encrypt => SealState(s, k, f, p, o, l, fin)
      /\ ~encrypt => OpenState(s, r, k, f, p, o, l, fin, ret, tri, lat)
    BY Zenon DEF DataState
<1>2. /\ ContextDone(s, d) /\ PassedDone(s, p, d, f2, p2) /\ ReserveDone(r, f, d, f2)
      /\ CallDone(s, p, d, f2)
      /\ encrypt \/ r.size # 0 => TakenDone(s, k, f, p, o, l, d, f2, p2)
    BY Zenon DEF Stage
<1>3. Usable(d.ctx) /\ HasIv(d.ctx) = HasIv(s) /\ Gcm(d.ctx).lenA = k
    BY <1>1, <1>2 DEF ContextDone
<1>4. EndOf(Keeps(encrypt, d.reserve), f2, p2) /\ Gcm(d.ctx).lenM <= p2
    BY <1>1, <1>2, Zenon DEF PassedDone
<1>5. encrypt \/ r.size # 0 =>
        /\ Spoiled(Gcm(s)) => Spoiled(Gcm(d.ctx))
        /\ HasIv(s) /\ AllTaken(Gcm(s), p) => AllTaken(Gcm(d.ctx), p2)
        /\ HasIv(s) /\ Taken(Gcm(s), k, f, p, o, l) => Taken(Gcm(d.ctx), k, f2, p2, o2, l2)
    BY <1>2, StageTakes, Zenon DEF TakenDone
<1>6. ASSUME encrypt PROVE SealState(d.ctx, k, f2, p2, o2, l2, fin)
    <2>1. HasIv(s) => FreshPad(Gcm(d.ctx))
        <3>1. CASE ~d.ok
            BY <1>1, <1>2, <1>6, <3>1 DEF CallDone, SealState
        <3>2. CASE d.ok
            <4>1. Gcm(d.ctx).lenM = Gcm(s).lenM + Len(d.out) /\ Len(d.out) > 0
                BY <1>2, <1>6, <3>2 DEF PassedDone
            <4>2. Gcm(s).lenM \in Nat
                BY <1>1, WithinLimit DEF Usable
            <4>3. Len(d.out) \in Nat
                BY <1>2, <3>2, SegmentTypes DEF PassedDone
            <4> QED BY <4>1, <4>2, <4>3 DEF FreshPad
        <3> QED BY <3>1, <3>2
    <2> QED BY <1>1, <1>3, <1>5, <1>6, <2>1, Zenon DEF SealState
<1>7. ASSUME ~encrypt PROVE OpenState(d.ctx, d.reserve, k, f2, p2, o2, l2, fin, ret, tri, lat)
    <2>1. d.reserve.size = r.size /\ OpenState(s, r, k, f, p, o, l, fin, ret, tri, lat)
        BY <1>1, <1>7
    <2>2. Filled(r.held, r.size, f) => Filled(d.reserve.held, r.size, f2)
        BY <1>2, <1>7 DEF ReserveDone
    <2>3. r.size \in 1 .. B => r.size # 0
        OBVIOUS
    <2> QED BY <1>3, <1>5, <2>1, <2>2, <2>3, Zenon DEF OpenState
<1> QED BY <1>3, <1>4, <1>6, <1>7, Zenon DEF DataState

\* A doFinal that encrypts seals all that was taken.
LEMMA SealData ==
    ASSUME encrypt, NEW s, NEW r, NEW k, NEW f, NEW p, NEW o, NEW l, NEW fin \in Nat,
           NEW ret, NEW tri, NEW lat, DataState(encrypt, s, r, k, f, p, o, l, fin, ret, tri, lat),
           NEW d, NEW f2, NEW p2, Stage(s, r, k, f, p, o, l, d, f2, p2),
           d.ctx.encrypt, d.ctx.gcm_ctx.encrypt,
           NEW u, u.reserve = d.reserve, u.out = d.out,
           d.ok => /\ u.ctx = FinishEncrypt(d.ctx)
                   /\ u.ok = FinishEncryptOk(d.ctx, algorithmParameterSpec.tag),
           ~d.ok => u.ctx = d.ctx /\ ~u.ok,
           NEW o2, NEW l2, Received(u.ok, u.out, o, l, o2, l2), NEW ret2, NEW tri2
    PROVE  /\ DataState(encrypt, u.ctx, u.reserve, k, f2, p2, o2, l2, fin + 1, ret2, tri2, lat)
           /\ u.ok => /\ u.ctx.gcm_ctx.buf = <<d.ctx.gcm_ctx.nonce, TagValue(Gcm(d.ctx))>>
                      /\ IsSealOf(TagValue(Gcm(d.ctx)), k, f2, o2, l2)
<1>1. /\ Usable(s) /\ Gcm(s).lenA = k /\ Gcm(s).lenM <= p
      /\ SealState(s, k, f, p, o, l, fin)
    BY Zenon DEF DataState
<1>2. /\ ContextDone(s, d) /\ PassedDone(s, p, d, f2, p2)
      /\ CallDone(s, p, d, f2) /\ TakenDone(s, k, f, p, o, l, d, f2, p2)
    BY Zenon DEF Stage
<1>3. Usable(d.ctx) /\ HasIv(d.ctx) = HasIv(s) /\ Gcm(d.ctx).lenA = k
    BY <1>1, <1>2 DEF ContextDone
<1>4. EndOf(Keeps(encrypt, d.reserve), f2, p2) /\ Gcm(d.ctx).lenM <= p2
    BY <1>1, <1>2, Zenon DEF PassedDone
<1>5. CASE ~d.ok
    <2>1. u.ctx = d.ctx /\ ~u.ok /\ o2 = o /\ l2 = l /\ d.ctx = s
        BY <1>2, <1>5 DEF Received, CallDone
    <2>2. HasIv(s) => Taken(Gcm(d.ctx), k, f2, p2, o, l) /\ AllTaken(Gcm(d.ctx), p2)
        BY <1>1, <1>2, <1>5, Zenon DEF SealState, TakenDone
    <2>3. ~HasIv(s) => fin + 1 > 0
        OBVIOUS
    <2>4. SealState(u.ctx, k, f2, p2, o2, l2, fin + 1)
        BY <1>1, <2>1, <2>2, <2>3, Zenon DEF SealState
    <2> QED BY <1>3, <1>4, <2>1, <2>4, Zenon DEF DataState
<1>6. CASE d.ok
    <2>1. /\ Usable(u.ctx) /\ ~HasIv(u.ctx)
          /\ Gcm(u.ctx).lenA = k /\ Gcm(u.ctx).lenM = Gcm(d.ctx).lenM
          /\ HasIv(d.ctx) => u.ctx.gcm_ctx.buf = <<d.ctx.gcm_ctx.nonce, TagValue(Gcm(d.ctx))>>
          /\ u.ok => HasIv(d.ctx)
        BY <1>3, <1>6, FinishEncryptIs
    <2>2. SealState(u.ctx, k, f2, p2, o2, l2, fin + 1)
        <3>1. fin + 1 > 0
            OBVIOUS
        <3> QED BY <2>1, <3>1, Zenon DEF SealState
    <2>3. DataState(encrypt, u.ctx, u.reserve, k, f2, p2, o2, l2, fin + 1, ret2, tri2, lat)
        BY <1>4, <2>1, <2>2, Zenon DEF DataState
    <2>4. ASSUME u.ok PROVE IsSealOf(TagValue(Gcm(d.ctx)), k, f2, o2, l2)
        <3>1. HasIv(s) /\ Taken(Gcm(s), k, f, p, o, l) /\ AllTaken(Gcm(s), p)
            BY <1>1, <1>3, <2>1, <2>4 DEF SealState
        <3>2. Received(d.ok, d.out, o, l, o2, l2)
            BY <1>6, <2>4 DEF Received
        <3>3. Taken(Gcm(d.ctx), k, f2, p2, o2, l2)
            BY <3>1, <3>2, StageTakes, Zenon
        <3>4. AllTaken(Gcm(d.ctx), p2)
            BY <1>2, <3>1, Zenon DEF TakenDone
        <3>5. f2 \in Seq(Nat) /\ p2 = Len(f2)
            <4>1. EndOf(<< >>, f2, p2)
                BY <1>4 DEF Keeps
            <4>2. f2 \in Seq(Nat) /\ p2 \in Nat /\ p2 + Len(<< >>) = Len(f2)
                BY <4>1, EndTypes, Zenon
            <4>3. p2 + 0 = Len(f2)
                BY <4>2, EmptySeq, Zenon
            <4> QED BY <4>2, <4>3
        <3>6. Context(Gcm(d.ctx))
            BY <1>3 DEF Usable
        <3>7. Taken(Gcm(d.ctx), k, f2, Len(f2), o2, l2) /\ AllTaken(Gcm(d.ctx), Len(f2))
            BY <3>3, <3>4, <3>5
        <3>8. f2 \in Seq(Nat)
            BY <3>5
        <3> QED BY <3>6, <3>7, <3>8, SealOfTaken, Zenon
    <2> QED BY <2>1, <2>3, <2>4
<1> QED BY <1>5, <1>6

\* A doFinal that decrypts and finds the reserve not full, or had no luck with its data,
\* throws and leaves everything to the next one.
LEMMA OpenTooEarly ==
    ASSUME ~encrypt, NEW s, NEW r, NEW k, NEW f, NEW p, NEW o, NEW l, NEW fin \in Nat,
           NEW ret, NEW tri, NEW lat, DataState(encrypt, s, r, k, f, p, o, l, fin, ret, tri, lat),
           NEW d, NEW f2, NEW p2, Stage(s, r, k, f, p, o, l, d, f2, p2),
           d.reserve.size = r.size, NEW full, d.ok => ~full,
           full <=> Len(d.reserve.held) = r.size
    PROVE  DataState(encrypt, d.ctx, d.reserve, k, f2, p2, o, l, fin + 1, ret, tri \/ full, lat)
<1>1. /\ Usable(s) /\ Gcm(s).lenA = k /\ Gcm(s).lenM <= p
      /\ OpenState(s, r, k, f, p, o, l, fin, ret, tri, lat)
    BY Zenon DEF DataState
<1>2. /\ ContextDone(s, d) /\ PassedDone(s, p, d, f2, p2) /\ ReserveDone(r, f, d, f2)
      /\ r.size # 0 => TakenDone(s, k, f, p, o, l, d, f2, p2)
    BY Zenon DEF Stage
<1>3. Usable(d.ctx) /\ HasIv(d.ctx) = HasIv(s) /\ Gcm(d.ctx).lenA = k
    BY <1>1, <1>2 DEF ContextDone
<1>4. EndOf(Keeps(encrypt, d.reserve), f2, p2) /\ Gcm(d.ctx).lenM <= p2
    BY <1>1, <1>2, Zenon DEF PassedDone
<1>5. ~d.ok \/ Len(d.out) = 0
    BY <1>2 DEF ReserveDone
<1>6. r.size # 0 =>
        /\ Spoiled(Gcm(s)) => Spoiled(Gcm(d.ctx))
        /\ HasIv(s) /\ AllTaken(Gcm(s), p) => AllTaken(Gcm(d.ctx), p2)
        /\ HasIv(s) /\ Taken(Gcm(s), k, f, p, o, l) => Taken(Gcm(d.ctx), k, f2, p2, o, l)
    BY <1>2, <1>5, Zenon DEF TakenDone
<1>7. Filled(r.held, r.size, f) => Filled(d.reserve.held, r.size, f2)
    BY <1>2 DEF ReserveDone
<1>8. r.size \in 1 .. B => r.size # 0
    OBVIOUS
<1>9. fin + 1 # 0
    OBVIOUS
<1>10. OpenState(d.ctx, d.reserve, k, f2, p2, o, l, fin + 1, ret, tri \/ full, lat)
    BY <1>1, <1>3, <1>6, <1>7, <1>8, <1>9, Zenon DEF OpenState
<1> QED BY <1>3, <1>4, <1>10, Zenon DEF DataState

\* One that finds it full tries it as the tag, whatever comes of that.
LEMMA OpenTries ==
    ASSUME ~encrypt, NEW s, NEW r, NEW k, NEW f, NEW p, NEW o, NEW l, NEW fin \in Nat,
           NEW ret \in Nat, NEW tri, NEW lat,
           DataState(encrypt, s, r, k, f, p, o, l, fin, ret, tri, lat),
           NEW d, NEW f2, NEW p2, Stage(s, r, k, f, p, o, l, d, f2, p2),
           ~d.ctx.encrypt, ~d.ctx.gcm_ctx.encrypt, r.size \in Nat, NEW tag,
           NEW u, u.reserve = Reserve(r.size), u.ctx = FinishDecrypt(d.ctx, tag, r.size),
           u.ok = FinishDecryptOk(d.ctx, tag, r.size), NEW o2, NEW l2
    PROVE  \E p3 : DataState(encrypt, u.ctx, u.reserve, k, f2, p3, o2, l2, fin + 1,
                             IF u.ok THEN ret + 1 ELSE ret, TRUE, lat)
<1>1. /\ Usable(s) /\ Gcm(s).lenA = k /\ Gcm(s).lenM <= p
      /\ OpenState(s, r, k, f, p, o, l, fin, ret, tri, lat)
    BY Zenon DEF DataState
<1>2. /\ ContextDone(s, d) /\ PassedDone(s, p, d, f2, p2)
      /\ r.size # 0 => TakenDone(s, k, f, p, o, l, d, f2, p2)
    BY Zenon DEF Stage
<1>3. Usable(d.ctx) /\ HasIv(d.ctx) = HasIv(s) /\ Gcm(d.ctx).lenA = k /\ Context(Gcm(d.ctx))
    BY <1>1, <1>2 DEF ContextDone, Usable
<1>4. EndOf(Keeps(encrypt, d.reserve), f2, p2) /\ Gcm(d.ctx).lenM <= p2
    BY <1>1, <1>2, Zenon DEF PassedDone
<1>5. /\ Usable(u.ctx) /\ Gcm(u.ctx).lenA = k /\ Gcm(u.ctx).lenM = Gcm(d.ctx).lenM
      /\ IF HasIv(d.ctx) /\ r.size \in 1 .. B
         THEN Gcm(u.ctx) = Finish(Gcm(d.ctx)) /\ (HasIv(u.ctx) <=> ~u.ok)
         ELSE (HasIv(u.ctx) <=> HasIv(d.ctx)) /\ ~u.ok
    BY <1>3, FinishDecryptIs
<1>6. Keeps(encrypt, u.reserve) = << >> /\ u.reserve.size = r.size
    BY DEF Keeps, Reserve
<1>7. EndOf(<< >>, f2, Len(f2)) /\ Gcm(u.ctx).lenM <= Len(f2)
    <2>1. f2 \in Seq(Nat) /\ Len(f2) \in Nat /\ p2 \in Nat /\ p2 <= Len(f2)
        BY <1>4, EndTypes, Zenon
    <2>2. Gcm(d.ctx).lenM \in Nat
        BY <1>3, WithinLimit
    <2>3. Len(f2) \in 0 .. Len(f2) /\ Len(f2) + 0 = Len(f2)
        BY <2>1
    <2>4. Segment(<< >>, f2, Len(f2))
        BY <2>1, <2>3, NoSegment, Zenon
    <2>5. EndOf(<< >>, f2, Len(f2))
        BY <2>3, <2>4, EmptySeq DEF EndOf
    <2> QED BY <1>4, <1>5, <2>1, <2>2, <2>5
<1>8. ASSUME r.size \in 1 .. B, HasIv(u.ctx) PROVE Spoiled(Gcm(u.ctx))
    <2>1. HasIv(d.ctx) /\ Gcm(u.ctx) = Finish(Gcm(d.ctx)) /\ r.size # 0
        BY <1>5, <1>8
    <2>2. Spoiled(Gcm(s)) \/ Taken(Gcm(s), k, f, p, o, l)
        BY <1>1, <1>3, <1>8, <2>1, Zenon DEF OpenState
    <2>3. Spoiled(Gcm(d.ctx)) \/ Taken(Gcm(d.ctx), k, f2, p2, o, TRUE)
        BY <1>2, <1>3, <2>1, <2>2, Zenon DEF TakenDone
    <2>4. CASE Spoiled(Gcm(d.ctx))
        BY <1>3, <2>1, <2>4, FinishKeepsSpoiled
    <2>5. CASE Taken(Gcm(d.ctx), k, f2, p2, o, TRUE)
        <3>1. PICK m : Hashed(Gcm(d.ctx), From(0, k), m)
            BY <2>5 DEF Taken
        <3> QED BY <1>3, <2>1, <3>1, FinishSpoils
    <2> QED BY <2>3, <2>4, <2>5
<1>9. ~HasIv(u.ctx) => (IF u.ok THEN ret + 1 ELSE ret) > 0
    <2>1. ~HasIv(s) => ret > 0
        BY <1>1, Zenon DEF OpenState
    <2> QED BY <1>3, <1>5, <2>1
<1>10. OpenState(u.ctx, u.reserve, k, f2, Len(f2), o2, l2, fin + 1,
                 IF u.ok THEN ret + 1 ELSE ret, TRUE, lat)
    <2> DEFINE ret2 == IF u.ok THEN ret + 1 ELSE ret
               fin2 == fin + 1
    <2>1. ~HasIv(u.ctx) => ret2 > 0
        BY <1>9
    <2> HIDE DEF ret2, fin2
    <2>2. OpenState(u.ctx, u.reserve, k, f2, Len(f2), o2, l2, fin2, ret2, TRUE, lat)
        BY <1>6, <1>8, <2>1, Zenon DEF OpenState
    <2> QED BY <2>2 DEF ret2, fin2
<1>11. DataState(encrypt, u.ctx, u.reserve, k, f2, Len(f2), o2, l2, fin + 1,
                 IF u.ok THEN ret + 1 ELSE ret, TRUE, lat)
    <2> DEFINE ret2 == IF u.ok THEN ret + 1 ELSE ret
               fin2 == fin + 1
    <2>1. OpenState(u.ctx, u.reserve, k, f2, Len(f2), o2, l2, fin2, ret2, TRUE, lat)
        BY <1>10
    <2> HIDE DEF ret2, fin2
    <2>2. DataState(encrypt, u.ctx, u.reserve, k, f2, Len(f2), o2, l2, fin2, ret2, TRUE, lat)
        BY <1>5, <1>6, <1>7, <2>1, Zenon DEF DataState
    <2> QED BY <2>2 DEF ret2, fin2
<1> QED BY <1>11

\* The engine got as far as a tag of the sender's length, and finishDecrypt matched it.
Matches(d, size, iv) ==
    /\ d.ok /\ ~d.ctx.encrypt /\ ~d.ctx.gcm_ctx.encrypt /\ d.ctx.gcm_ctx.nonce = <<Key, iv>>
    /\ size \in Nat /\ Len(d.reserve.held) = size
    /\ FinishDecryptOk(d.ctx, TagIn(d.reserve.held), size)

\* The sender's AAD, ciphertext and tag were given, and nothing else.
GivenAll(k, f, size) == k = sent.aad /\ f = From(0, sent.msg + size)

IsOpened(iv, k, f, size, o, l) ==
    /\ iv = SentIv /\ GivenAll(k, f, size)
    /\ l \/ o = From(0, sent.msg)

\* What matched is what the sender sent.
LEMMA OpenedIsSent ==
    ASSUME ~encrypt, NEW s, NEW r, NEW k \in Nat, NEW f, NEW p, NEW o, NEW l, NEW fin,
           NEW ret, NEW tri, NEW lat,
           DataState(encrypt, s, r, k, f, p, o, l, fin, ret, tri, lat),
           NEW d, NEW f2, NEW p2, Stage(s, r, k, f, p, o, l, d, f2, p2), Placed(f2), IsSent,
           NEW iv \in Ivs, Matches(d, r.size, iv),
           NEW o2, NEW l2, Received(d.ok, d.out, o, l, o2, l2)
    PROVE  IsOpened(iv, k, f2, r.size, o2, l2)
<1> DEFINE h == d.reserve.held
<1> USE DEF Matches
<1>1. Usable(s) /\ OpenState(s, r, k, f, p, o, l, fin, ret, tri, lat)
    BY Zenon DEF DataState
<1>2. /\ ContextDone(s, d) /\ PassedDone(s, p, d, f2, p2)
      /\ r.size # 0 => TakenDone(s, k, f, p, o, l, d, f2, p2)
    BY Zenon DEF Stage
<1>3. Usable(d.ctx) /\ HasIv(d.ctx) = HasIv(s) /\ Context(Gcm(d.ctx))
    BY <1>1, <1>2 DEF ContextDone, Usable
<1>4. /\ HasIv(d.ctx) /\ r.size \in 1 .. B
      /\ TagIn(h) = <<<<Key, iv>>, TagValue(Gcm(d.ctx))>>
    BY <1>3, FinishDecryptIs
<1>5. ~Spoiled(Gcm(d.ctx))
    BY <1>3, <1>4, SpoiledMatchesNothing
<1>6. r.size # 0 /\ HasIv(s)
    BY <1>3, <1>4
<1>7. ~Spoiled(Gcm(s))
    BY <1>2, <1>5, <1>6, Zenon DEF TakenDone
<1>8. Taken(Gcm(s), k, f, p, o, l)
    BY <1>1, <1>4, <1>6, <1>7, Zenon DEF OpenState
<1>9. Received(d.ok, d.out, o, l, o2, l2)
    OBVIOUS
<1>10. Taken(Gcm(d.ctx), k, f2, p2, o2, l2)
    BY <1>6, <1>8, <1>9, StageTakes, Zenon
<1>11. Segment(h, f2, p2) /\ p2 + Len(h) = Len(f2)
    <2>1. EndOf(Keeps(encrypt, d.reserve), f2, p2)
        BY <1>2, Zenon DEF PassedDone
    <2>2. EndOf(h, f2, p2)
        BY <2>1 DEF Keeps
    <2> QED BY <2>2, Zenon DEF EndOf
<1>12. Len(h) > 0 /\ Len(h) = r.size
    BY <1>4
<1> HIDE DEF h
<1>13. /\ iv = SentIv /\ k = sent.aad
       /\ f2 = From(0, sent.msg + Len(h))
       /\ l2 \/ o2 = From(0, sent.msg)
    BY <1>3, <1>4, <1>10, <1>11, <1>12, MatchIsAuthentic
<1> QED BY <1>12, <1>13 DEF GivenAll, IsOpened

\* And what the sender sent gets that far, when it comes first, and matches.
TagFits(d, size) == /\ d.ok /\ Len(d.reserve.held) = size /\ HasIv(d.ctx)
                    /\ TagIn(d.reserve.held) = <<<<Key, SentIv>>, TagValue(Gcm(d.ctx))>>

LEMMA SentReachesTag ==
    ASSUME ~encrypt, NEW s, NEW r, IsReserve(r), NEW k, NEW f, NEW p, NEW o, NEW l, NEW fin,
           NEW ret, NEW tri, NEW lat,
           DataState(encrypt, s, r, k, f, p, o, l, fin, ret, tri, lat), ~tri, ~lat,
           r.size \in 1 .. B,
           NEW d, NEW f2, NEW p2, Stage(s, r, k, f, p, o, l, d, f2, p2), IsSent,
           Successor(d.reserve, r), GivenAll(k, f2, r.size)
    PROVE  TagFits(d, r.size)
<1> DEFINE h == d.reserve.held
<1>1. Usable(s) /\ Gcm(s).lenM <= p /\ OpenState(s, r, k, f, p, o, l, fin, ret, tri, lat)
    BY Zenon DEF DataState
<1>2. /\ ContextDone(s, d) /\ PassedDone(s, p, d, f2, p2) /\ ReserveDone(r, f, d, f2)
      /\ r.size # 0 => TakenDone(s, k, f, p, o, l, d, f2, p2)
    BY Zenon DEF Stage
<1>3. Usable(d.ctx) /\ HasIv(d.ctx) = HasIv(s) /\ Context(Gcm(d.ctx))
    BY <1>1, <1>2 DEF ContextDone, Usable
<1>4. /\ HasIv(s) /\ Taken(Gcm(s), k, f, p, o, l) /\ AllTaken(Gcm(s), p)
      /\ Filled(r.held, r.size, f)
    BY <1>1, Zenon DEF OpenState
<1>5. r.size # 0 /\ r.size \in Nat /\ r.size > 0
    OBVIOUS
<1>6. EndOf(h, f2, p2)
    <2>1. EndOf(Keeps(encrypt, d.reserve), f2, p2)
        BY <1>2, Zenon DEF PassedDone
    <2> QED BY <2>1 DEF Keeps
<1>7. Filled(h, r.size, f2) /\ Len(h) <= r.size
    BY <1>2, <1>4 DEF ReserveDone, IsReserve, Successor
<1>8. /\ sent.msg \in Nat /\ sent.msg <= MsgLimit
    BY SentTypes
<1>9. Len(f2) = sent.msg + r.size
    <2>1. sent.msg + r.size \in Nat
        BY <1>5, <1>8
    <2> QED BY <2>1, FromZero DEF GivenAll
<1>10. p2 \in Nat /\ Len(h) \in Nat /\ p2 + Len(h) = Len(f2)
    BY <1>6, EndTypes, Zenon
<1> HIDE DEF h
<1>11. Len(h) = r.size
    <2>1. Len(h) = r.size \/ Len(h) = Len(f2)
        BY <1>7 DEF Filled
    <2> QED BY <1>5, <1>7, <1>8, <1>9, <1>10, <2>1
<1>12. p2 = sent.msg
    BY <1>5, <1>8, <1>9, <1>10, <1>11
<1>13. ~(p2 > MsgLimit)
    BY <1>8, <1>12, LimitIsNat
<1>14. d.ok
    BY <1>1, <1>2, <1>4, <1>5, <1>13, Zenon DEF TakenDone
<1>15. Taken(Gcm(d.ctx), k, f2, p2, o, TRUE) /\ AllTaken(Gcm(d.ctx), p2)
    BY <1>2, <1>4, <1>5, Zenon DEF TakenDone
<1>16. Segment(h, f2, p2) /\ f2 = From(0, sent.msg + Len(h))
    BY <1>6, <1>11 DEF EndOf, GivenAll
<1>17. TagIn(h) = <<<<Key, SentIv>>, TagValue(Gcm(d.ctx))>>
    <2>1. Taken(Gcm(d.ctx), sent.aad, f2, p2, o, TRUE)
        BY <1>15 DEF GivenAll
    <2> QED BY <1>3, <1>10, <1>15, <1>16, <2>1, AuthenticMatches
<1> QED BY <1>3, <1>4, <1>11, <1>14, <1>17 DEF h, TagFits

-----------------------------------------------------------------------------
\* Before anything was given.
LEMMA FreshData ==
    ASSUME NEW enc, NEW iv \in Ivs, NEW tag \in TagLengths, NEW r, ~enc => r = Reserve(tag)
    PROVE  DataState(enc, InitializeCipher(enc, Key, iv), r, 0, << >>, 0, << >>, FALSE, 0, 0,
                     FALSE, FALSE)
<1> DEFINE s == InitializeCipher(enc, Key, iv)
<1>1. Usable(s) /\ HasIv(s) /\ Gcm(s) = SetIv
    BY InitializeCipherIs
<1> HIDE DEF s
<1>2. SetIv.lenA = 0 /\ SetIv.lenM = 0 /\ SetIv.padAt = 0
    BY DEF SetIv
<1>3. Taken(SetIv, 0, << >>, 0, << >>, FALSE) /\ AllTaken(SetIv, 0)
    BY FreshTaken
<1>4. Keeps(enc, r) = << >> /\ (~enc => Filled(r.held, r.size, << >>))
    BY DEF Keeps, Reserve, Filled
<1>5. << >> \in Seq(Nat) /\ Len(<< >>) = 0
    BY EmptySeq
<1>6. Segment(<< >>, << >>, 0)
    <2>1. 0 \in 0 .. Len(<< >>)
        BY <1>5
    <2> QED BY <1>5, <2>1, NoSegment, Zenon
<1>7. EndOf(Keeps(enc, r), << >>, 0)
    BY <1>4, <1>5, <1>6 DEF EndOf
<1>8. SealState(s, 0, << >>, 0, << >>, FALSE, 0)
    BY <1>1, <1>2, <1>3 DEF SealState, FreshPad
<1>9. ~enc => OpenState(s, r, 0, << >>, 0, << >>, FALSE, 0, 0, FALSE, FALSE)
    BY <1>1, <1>2, <1>3, <1>4 DEF OpenState
<1>10. Gcm(s).lenA = 0 /\ Gcm(s).lenM <= 0
    BY <1>1, <1>2
<1>11. DataState(enc, s, r, 0, << >>, 0, << >>, FALSE, 0, 0, FALSE, FALSE)
    BY <1>1, <1>7, <1>8, <1>9, <1>10, Zenon DEF DataState
<1> QED BY <1>11 DEF s

\* A call of updateAAD.  When data or a doFinal came before it, it may spoil the tag.
AadGiven(ok, n, k, k2, f, fin, lat, lat2) ==
    /\ ok => k2 = k + n /\ (lat2 <=> lat \/ f # << >> \/ fin > 0)
    /\ ~ok => k2 = k /\ (lat2 <=> lat)

LEMMA AadData ==
    ASSUME NEW enc, NEW s, NEW r, NEW k, NEW f, NEW p, NEW o, NEW l, NEW fin \in Nat,
           NEW ret, NEW tri, NEW lat, DataState(enc, s, r, k, f, p, o, l, fin, ret, tri, lat),
           NEW n \in Nat, NEW k2, NEW lat2,
           AadGiven(NativeUpdateAADOk(s, From(k, n)), n, k, k2, f, fin, lat, lat2)
    PROVE  /\ DataState(enc, NativeUpdateAAD(s, From(k, n)), r, k2, f, p, o, l, fin, ret, tri,
                        lat2)
           /\ k2 \in Nat
<1> DEFINE t  == NativeUpdateAAD(s, From(k, n))
           ok == NativeUpdateAADOk(s, From(k, n))
<1>1. /\ Usable(s) /\ Gcm(s).lenA = k /\ Gcm(s).lenM <= p /\ EndOf(Keeps(enc, r), f, p)
      /\ enc => SealState(s, k, f, p, o, l, fin)
      /\ ~enc => OpenState(s, r, k, f, p, o, l, fin, ret, tri, lat)
    BY Zenon DEF DataState
<1>2. AadTaken(s, k, f, p, o, l, t, ok, k2)
    <2>1. Usable(s) /\ k = Gcm(s).lenA
        BY <1>1
    <2>2. (ok => k2 = k + n) /\ (~ok => k2 = k)
        BY DEF AadGiven
    <2> QED BY <2>1, <2>2, AadKeepsTaken
<1>0. /\ ok => (lat2 <=> lat \/ f # << >> \/ fin > 0)
      /\ ~ok => (lat2 <=> lat)
    BY DEF AadGiven
<1> HIDE DEF t, ok
<1>3. AllTaken(Gcm(s), p) => AllTaken(Gcm(t), p)
    BY <1>2, Zenon DEF AllTaken, AadTaken
<1>4. FreshPad(Gcm(s)) => FreshPad(Gcm(t)) /\ (ok => Gcm(s).padAt = 0)
    BY <1>2, Zenon DEF FreshPad, AadTaken
<1>5. SealState(s, k, f, p, o, l, fin) => SealState(t, k2, f, p, o, l, fin)
    BY <1>2, <1>3, <1>4, Zenon DEF SealState, AadTaken
<1>6. fin > 0 \/ fin = 0
    OBVIOUS
<1>7. OpenState(s, r, k, f, p, o, l, fin, ret, tri, lat)
        => OpenState(t, r, k2, f, p, o, l, fin, ret, tri, lat2)
    BY <1>0, <1>2, <1>3, <1>4, <1>6, Zenon DEF OpenState, AadTaken
<1>8. Gcm(t).lenM <= p
    BY <1>1, <1>2 DEF AadTaken
<1> QED BY <1>1, <1>2, <1>5, <1>7, <1>8, Zenon DEF DataState, AadTaken, t

\* What a caller may pass is of its place, or not the sender's.
LEMMA PlacedGrows ==
    ASSUME fed \in Seq(Nat), Placed(fed), NEW in, in \in Inputs \/ in = << >>
    PROVE  Placed(fed \o in)
<1>1. in \in Seq(Nat)
    BY InputsAreSeqs, EmptySeq
<1>2. \A i \in 1 .. Len(in) : in[i] \in {Len(fed) + i, 0}
    <2>1. CASE in = << >>
        BY <2>1
    <2>2. CASE in = <<0>>
        BY <2>2
    <2>3. ASSUME NEW n \in 0 .. MaxFed - Len(fed), in = From(Len(fed), n)
          PROVE  \A i \in 1 .. Len(in) : in[i] \in {Len(fed) + i, 0}
        <3>1. n \in Nat /\ Len(fed) \in Nat
            BY CipherAssumption
        <3>2. Len(in) = n
            BY <2>3, <3>1 DEF From
        <3> QED BY <2>3, <3>1, <3>2 DEF From
    <2> QED BY <2>1, <2>2, <2>3 DEF Inputs
<1>3. ASSUME NEW i \in 1 .. Len(fed \o in)
      PROVE  (fed \o in)[i] \in {i, 0}
    <2>1. /\ Len(fed) \in Nat /\ Len(in) \in Nat /\ Len(fed \o in) = Len(fed) + Len(in)
          /\ i \in 1 .. Len(fed) => (fed \o in)[i] = fed[i]
          /\ i \notin 1 .. Len(fed) => (fed \o in)[i] = in[i - Len(fed)]
        BY <1>1, <1>3, ConcatProperties
    <2>2. CASE i \in 1 .. Len(fed)
        BY <2>1, <2>2 DEF Placed
    <2>3. CASE i \notin 1 .. Len(fed)
        <3>1. i - Len(fed) \in 1 .. Len(in) /\ Len(fed) + (i - Len(fed)) = i
            BY <2>1, <2>3, <1>3
        <3> QED BY <1>2, <2>1, <2>3, <3>1
    <2> QED BY <2>2, <2>3
<1> QED BY <1>3 DEF Placed

-----------------------------------------------------------------------------
\* What is invariant of the data: a context that can be called has taken it.
DataOf(p) == DataState(encrypt, ctx, reserveBuffer, aadFed, fed, p, got, lost, finals,
                       returned, tried, late)

DataInv == /\ IsSent /\ aadFed \in Nat /\ Placed(fed)
           /\ Forwards => /\ algorithmParameterSpec \in [iv : Ivs, tag : TagLengths]
                          /\ \E p : DataOf(p)

\* What a call finds.
LEMMA CallFindsData ==
    ASSUME IInv, DataInv, Forwards
    PROVE  /\ IsContext(ctx) /\ (~encrypt => IsReserve(reserveBuffer))
           /\ fed \in Seq(Nat) /\ finals \in Nat /\ returned \in Nat /\ aadFed \in Nat
           /\ \E p : DataOf(p) /\ Usable(ctx) /\ EndOf(Keeps(encrypt, reserveBuffer), fed, p)
<1>1. IsContext(ctx) /\ (~encrypt => IsReserve(reserveBuffer))
    BY CallFinds
<1>2. fed \in Seq(Nat) /\ finals \in Nat /\ returned \in Nat
    BY CipherAssumption DEF IInv, SpecInv
<1>3. aadFed \in Nat /\ \E p : DataOf(p)
    BY DEF DataInv
<1>4. ASSUME NEW p, DataOf(p)
      PROVE  Usable(ctx) /\ EndOf(Keeps(encrypt, reserveBuffer), fed, p)
    BY <1>4, Zenon DEF DataOf, DataState
<1> QED BY <1>1, <1>2, <1>3, <1>4

\* update, with what engineUpdate does in it.
LEMMA UpdateCallStage ==
    ASSUME IInv, DataInv, NEW in \in Inputs, NEW fits \in BOOLEAN, UpdateCall(in, fits)
    PROVE  LET d == EngineUpdate(ctx, reserveBuffer, in)
           IN  \E p, p2 :
                 /\ DataOf(p)
                 /\ Stage(ctx, reserveBuffer, aadFed, fed, p, got, lost, d, fed', p2)
                 /\ DataState(encrypt, ctx', reserveBuffer', aadFed, fed', p2, got', lost',
                              finals, returned, tried, late)
<1> DEFINE d == EngineUpdate(ctx, reserveBuffer, in)
<1>1. /\ Forwards /\ in # << >> /\ ctx' = d.ctx /\ reserveBuffer' = d.reserve
      /\ fed' = fed \o in /\ Receives(d, fits)
    BY DEF UpdateCall, Leaves
<1>2. PICK p : /\ IsContext(ctx) /\ (~encrypt => IsReserve(reserveBuffer))
               /\ fed \in Seq(Nat)
               /\ DataOf(p) /\ Usable(ctx) /\ EndOf(Keeps(encrypt, reserveBuffer), fed, p)
    BY <1>1, CallFindsData
<1>3. in \in Seq(Nat)
    BY <1>2, InputsAreSeqs
<1>4. PICK p2 : Stage(ctx, reserveBuffer, aadFed, fed, p, got, lost, d, fed', p2)
    <2>1. \E p2 : Stage(ctx, reserveBuffer, aadFed, fed, p, got, lost, d, fed \o in, p2)
        BY <1>2, <1>3, StageOfUpdate
    <2> QED BY <1>1, <2>1
<1>5. ~encrypt => d.reserve.size = reserveBuffer.size
    BY <1>2, <1>3, UpdateKeepsFields DEF Successor
<1>6. encrypt => d.out = in
    BY DEF EngineUpdate, Passes
<1> HIDE DEF d
<1>7. encrypt /\ d.ok => Len(d.out) > 0
    <2>1. Len(in) > 0
        BY <1>1, <1>3, EmptySeq
    <2> QED BY <1>6, <2>1
<1>8. fed' # << >>
    BY <1>1, <1>2, <1>3, ConcatProperties, EmptySeq
<1>9. Received(d.ok, d.out, got, lost, got', lost')
    BY <1>1 DEF Receives, Received
<1>10. DataState(encrypt, d.ctx, d.reserve, aadFed, fed', p2, got', lost', finals, returned,
                 tried, late)
    BY <1>2, <1>4, <1>5, <1>7, <1>8, <1>9, UpdateData, Zenon DEF DataOf
<1>11. DataState(encrypt, ctx', reserveBuffer', aadFed, fed', p2, got', lost', finals,
                 returned, tried, late)
    BY <1>1, <1>10
<1> QED BY <1>2, <1>4, <1>11, Zenon DEF d

\* doFinal, up to what engineUpdate does in it.
LEMMA DoFinalStage ==
    ASSUME IInv, DataInv, NEW in \in Inputs \cup {NULL}, NEW fits \in BOOLEAN,
           DoFinal(in, fits)
    PROVE  LET d == DataOfFinal(ctx, reserveBuffer, in)
           IN  /\ SameMessage(d.ctx, ctx)
               /\ encrypt => d.reserve = reserveBuffer
               /\ ~encrypt => Successor(d.reserve, reserveBuffer)
               /\ fed' \in Seq(Nat) /\ (Placed(fed) => Placed(fed'))
               /\ \E p, p2 : /\ DataOf(p)
                             /\ Stage(ctx, reserveBuffer, aadFed, fed, p, got, lost, d, fed', p2)
<1> DEFINE d == DataOfFinal(ctx, reserveBuffer, in)
           given == IF in = NULL THEN << >> ELSE in
<1>1. Forwards /\ fed' = fed \o given
    BY DEF DoFinal, Leaves
<1>2. PICK p : /\ IsContext(ctx) /\ (~encrypt => IsReserve(reserveBuffer))
               /\ fed \in Seq(Nat)
               /\ DataOf(p) /\ Usable(ctx) /\ EndOf(Keeps(encrypt, reserveBuffer), fed, p)
    BY <1>1, CallFindsData
<1>3. in = NULL \/ in \in Seq(Nat)
    BY <1>2, InputsAreSeqs
<1>4. PICK p2 : Stage(ctx, reserveBuffer, aadFed, fed, p, got, lost, d, fed', p2)
    <2>1. \E p2 : Stage(ctx, reserveBuffer, aadFed, fed, p, got, lost, d, fed \o given, p2)
        BY <1>2, <1>3, StageOfFinal
    <2> QED BY <1>1, <2>1
<1>5. /\ SameMessage(d.ctx, ctx)
      /\ encrypt => d.reserve = reserveBuffer
      /\ ~encrypt => Successor(d.reserve, reserveBuffer)
    BY <1>2, <1>3, DataOfFinalKeepsFields
<1>6. given \in Seq(Nat) /\ (given \in Inputs \/ given = << >>)
    BY <1>3, EmptySeq
<1> HIDE DEF d, given
<1>7. fed' \in Seq(Nat)
    BY <1>1, <1>2, <1>6, ConcatProperties
<1>8. Placed(fed) => Placed(fed')
    BY <1>1, <1>2, <1>6, PlacedGrows
<1> QED BY <1>2, <1>4, <1>5, <1>7, <1>8, Zenon DEF d

\* A doFinal that encrypts, and returns, returns all that was given and its tag.
LEMMA SealingDoFinal ==
    ASSUME IInv, DataInv, NEW in \in Inputs \cup {NULL}, NEW fits \in BOOLEAN,
           DoFinal(in, fits), encrypt
    PROVE  /\ \E p2 : DataState(encrypt, ctx', reserveBuffer', aadFed, fed', p2, got', lost',
                                finals', returned', tried', late)
           /\ verdict'.ok => verdict'.due
<1> DEFINE d == DataOfFinal(ctx, reserveBuffer, in)
           u == EngineDoFinal(ctx, reserveBuffer, in)
           iv == algorithmParameterSpec.iv
<1>1. /\ Forwards /\ ctx' = u.ctx /\ reserveBuffer' = u.reserve /\ Receives(u, fits)
      /\ finals' = finals + 1 /\ verdict'.ok = u.ok /\ verdict'.due = SealedAll(u)
    BY DEF DoFinal, Leaves
<1>2. PICK p, p2 : /\ SameMessage(d.ctx, ctx)
                   /\ DataOf(p)
                   /\ Stage(ctx, reserveBuffer, aadFed, fed, p, got, lost, d, fed', p2)
    BY DoFinalStage
<1>3. ctx.encrypt = encrypt /\ ctx.gcm_ctx.encrypt = encrypt /\ ctx.gcm_ctx.nonce = <<Key, iv>>
    BY <1>1 DEF IInv, FieldsAgree
<1>4. /\ d.ctx.encrypt /\ d.ctx.gcm_ctx.encrypt
      /\ d.ctx.gcm_ctx.nonce = <<Key, iv>>
    BY <1>2, <1>3 DEF SameMessage
<1>5. u.reserve = d.reserve /\ u.out = d.out
    BY DEF EngineDoFinal, EncryptFinal, DataOfFinal, Nothing, EngineUpdate, Passes
<1>6. d.ok => /\ u.ctx = FinishEncrypt(d.ctx)
              /\ u.ok = FinishEncryptOk(d.ctx, algorithmParameterSpec.tag)
    BY DEF EngineDoFinal, EncryptFinal, DataOfFinal, Nothing, EngineUpdate, Passes
<1>7. ~d.ok => u.ctx = d.ctx /\ ~u.ok
    BY DEF EngineDoFinal
<1>8. finals \in Nat
    BY <1>1, CallFindsData
<1> HIDE DEF d, u
<1>9. Received(u.ok, u.out, got, lost, got', lost')
    BY <1>1 DEF Receives, Received
<1>10. DataState(encrypt, ctx, reserveBuffer, aadFed, fed, p, got, lost, finals, returned,
                 tried, late)
    BY <1>2 DEF DataOf
<1>11. /\ DataState(encrypt, u.ctx, u.reserve, aadFed, fed', p2, got', lost', finals + 1,
                    returned', tried', late)
       /\ u.ok => /\ u.ctx.gcm_ctx.buf = <<d.ctx.gcm_ctx.nonce, TagValue(Gcm(d.ctx))>>
                  /\ IsSealOf(TagValue(Gcm(d.ctx)), aadFed, fed', got', lost')
    BY <1>2, <1>4, <1>5, <1>6, <1>7, <1>8, <1>9, <1>10, SealData, Zenon
<1>12. u.ok => SealedAll(u)
    BY <1>4, <1>11 DEF SealedAll, IsSealOf
<1> QED BY <1>1, <1>11, <1>12

\* A doFinal that decrypts returns only what the sender sent; and that, if it is the
\* first to compare a tag, it returns.
LEMMA OpeningDoFinal ==
    ASSUME IInv, DataInv, NEW in \in Inputs \cup {NULL}, NEW fits \in BOOLEAN,
           DoFinal(in, fits), ~encrypt
    PROVE  /\ \E p2 : DataState(encrypt, ctx', reserveBuffer', aadFed, fed', p2, got', lost',
                                finals', returned', tried', late)
           /\ verdict'.ok => verdict'.due /\ (lost' \/ got' = From(0, sent.msg))
           /\ /\ verdict'.due /\ verdict'.first /\ ~late
              /\ algorithmParameterSpec.tag \in 1 .. B
              => verdict'.ok
<1> DEFINE d == DataOfFinal(ctx, reserveBuffer, in)
           u == EngineDoFinal(ctx, reserveBuffer, in)
           r == reserveBuffer
           iv == algorithmParameterSpec.iv
           tag == algorithmParameterSpec.tag
           full == Len(d.reserve.held) = r.size
<1>1. /\ Forwards /\ ctx' = u.ctx /\ reserveBuffer' = u.reserve /\ Receives(u, fits)
      /\ finals' = finals + 1 /\ returned' = (IF u.ok THEN returned + 1 ELSE returned)
      /\ UNCHANGED <<algorithmParameterSpec, sent, aadFed>>
    BY DEF DoFinal, Leaves
<1>2. PICK p, p2 : /\ SameMessage(d.ctx, ctx) /\ Successor(d.reserve, r)
                   /\ fed' \in Seq(Nat) /\ (Placed(fed) => Placed(fed'))
                   /\ DataOf(p)
                   /\ Stage(ctx, r, aadFed, fed, p, got, lost, d, fed', p2)
    BY DoFinalStage
<1>3. /\ ctx.encrypt = encrypt /\ ctx.gcm_ctx.encrypt = encrypt
      /\ ctx.gcm_ctx.nonce = <<Key, iv>> /\ r.size = tag /\ IsReserve(r)
    BY <1>1, CallFindsData DEF IInv, FieldsAgree
<1>4. ~d.ctx.encrypt /\ ~d.ctx.gcm_ctx.encrypt /\ d.ctx.gcm_ctx.nonce = <<Key, iv>>
    BY <1>2, <1>3 DEF SameMessage
<1>5. /\ IsReserve(d.reserve) /\ d.reserve.size = r.size
      /\ r.size \in Nat /\ r # NULL
    BY <1>2, <1>3, CipherAssumption DEF Successor, IsReserve, Reserves
<1>6. iv \in Ivs /\ IsSent /\ aadFed \in Nat /\ Placed(fed')
    BY <1>1, <1>2 DEF IInv, SpecInv, DataInv
<1>7. /\ d.ok /\ full =>
           /\ u.reserve = Reserve(r.size) /\ u.out = d.out
           /\ u.ctx = FinishDecrypt(d.ctx, TagIn(d.reserve.held), r.size)
           /\ u.ok = FinishDecryptOk(d.ctx, TagIn(d.reserve.held), r.size)
      /\ ~(d.ok /\ full) => u.ctx = d.ctx /\ u.reserve = d.reserve /\ ~u.ok
    BY <1>3, <1>5 DEF EngineDoFinal, DecryptFinal, DataOfFinal, Nothing, EngineUpdate, Passes,
                      Full, Plaintext
<1>8. /\ tried' <=> tried \/ full
      /\ verdict'.ok <=> u.ok
      /\ verdict'.due <=> SentAll'
      /\ verdict'.first <=> ~tried
    BY <1>3 DEF DoFinal, Full
<1>9. finals \in Nat /\ returned \in Nat
    BY <1>1, CallFindsData
<1> HIDE DEF d, u, r, iv, tag
<1>10. DataState(encrypt, ctx, r, aadFed, fed, p, got, lost, finals, returned, tried, late)
    BY <1>2 DEF DataOf, r
<1>11. Received(u.ok, u.out, got, lost, got', lost')
    BY <1>1 DEF Receives, Received
<1>12. SentAll' <=> iv = SentIv /\ GivenAll(aadFed, fed', r.size)
    BY <1>1, <1>3 DEF SentAll, GivenAll, iv, tag
<1>13. \E p3 : DataState(encrypt, u.ctx, u.reserve, aadFed, fed', p3, got', lost', finals',
                         returned', tried', late)
    <2>1. CASE d.ok /\ full
        <3>1. PICK p3 : DataState(encrypt, u.ctx, u.reserve, aadFed, fed', p3, got', lost',
                                  finals + 1, IF u.ok THEN returned + 1 ELSE returned, TRUE,
                                  late)
            <4>1. /\ u.reserve = Reserve(r.size)
                  /\ u.ctx = FinishDecrypt(d.ctx, TagIn(d.reserve.held), r.size)
                  /\ u.ok = FinishDecryptOk(d.ctx, TagIn(d.reserve.held), r.size)
                BY <1>7, <2>1
            <4>2. /\ Stage(ctx, r, aadFed, fed, p, got, lost, d, fed', p2)
                  /\ ~d.ctx.encrypt /\ ~d.ctx.gcm_ctx.encrypt /\ r.size \in Nat
                BY <1>2, <1>4, <1>5
            <4> QED BY <1>9, <1>10, <4>1, <4>2, OpenTries, Zenon
        <3>2. tried' <=> TRUE
            BY <1>8, <2>1
        <3>3. DataState(encrypt, u.ctx, u.reserve, aadFed, fed', p3, got', lost', finals',
                        returned', TRUE, late)
            BY <1>1, <3>1, Zenon
        <3> QED BY <3>2, <3>3 DEF DataState, OpenState
    <2>2. CASE ~(d.ok /\ full)
        <3>1. got' = got /\ lost' = lost
            BY <1>7, <1>11, <2>2 DEF Received
        <3>2. DataState(encrypt, d.ctx, d.reserve, aadFed, fed', p2, got, lost, finals + 1,
                        returned, tried \/ full, late)
            BY <1>2, <1>5, <1>9, <1>10, <2>2, OpenTooEarly
        <3>3. DataState(encrypt, u.ctx, u.reserve, aadFed, fed', p2, got', lost', finals',
                        returned', tried \/ full, late)
            BY <1>1, <1>7, <2>2, <3>1, <3>2, Zenon
        <3> QED BY <1>8, <3>3 DEF DataState, OpenState
    <2> QED BY <2>1, <2>2
<1>14. u.ok => SentAll' /\ (lost' \/ got' = From(0, sent.msg))
    <2> SUFFICES ASSUME u.ok PROVE SentAll' /\ (lost' \/ got' = From(0, sent.msg))
        OBVIOUS
    <2>1. d.ok /\ full
        BY <1>7
    <2>2. FinishDecryptOk(d.ctx, TagIn(d.reserve.held), r.size)
        BY <1>7, <2>1
    <2>3. Received(d.ok, d.out, got, lost, got', lost')
        BY <1>7, <1>11, <2>1 DEF Received
    <2>4. iv = SentIv /\ GivenAll(aadFed, fed', r.size) /\ (lost' \/ got' = From(0, sent.msg))
        <3>1. Matches(d, r.size, iv)
            BY <1>4, <1>5, <2>1, <2>2 DEF Matches
        <3>2. Stage(ctx, r, aadFed, fed, p, got, lost, d, fed', p2)
            BY <1>2
        <3>3. IsOpened(iv, aadFed, fed', r.size, got', lost')
            BY <1>6, <1>10, <2>3, <3>1, <3>2, OpenedIsSent
        <3> QED BY <3>3 DEF IsOpened
    <2> QED BY <1>12, <2>4
<1>15. SentAll' /\ ~tried /\ ~late /\ tag \in 1 .. B => u.ok
    <2> SUFFICES ASSUME SentAll', ~tried, ~late, tag \in 1 .. B PROVE u.ok
        OBVIOUS
    <2>1. r.size \in 1 .. B
        BY <1>3 DEF r, tag
    <2>2. /\ d.ok /\ full /\ HasIv(d.ctx)
          /\ TagIn(d.reserve.held) = <<<<Key, SentIv>>, TagValue(Gcm(d.ctx))>>
        <3>1. /\ Stage(ctx, r, aadFed, fed, p, got, lost, d, fed', p2)
              /\ IsReserve(r) /\ Successor(d.reserve, r)
              /\ GivenAll(aadFed, fed', r.size)
            BY <1>2, <1>3, <1>12 DEF r
        <3>2. TagFits(d, r.size)
            BY <1>6, <1>10, <2>1, <3>1, SentReachesTag
        <3> QED BY <3>2 DEF TagFits
    <2>3. Usable(d.ctx)
        BY <1>2, Zenon DEF Stage, ContextDone
    <2>4. FinishDecryptOk(d.ctx, TagIn(d.reserve.held), r.size)
            <=> TagIn(d.reserve.held) = <<d.ctx.gcm_ctx.nonce, TagValue(Gcm(d.ctx))>>
        BY <1>4, <1>5, <2>1, <2>2, <2>3, FinishDecryptIs
    <2>5. iv = SentIv
        BY <1>12
    <2> QED BY <1>4, <1>7, <2>2, <2>4, <2>5
<1> QED BY <1>1, <1>8, <1>13, <1>14, <1>15 DEF tag, r

\* How often the calls release arrays: twice when update throws.
LEMMA StageReleases ==
    ASSUME NEW p, DataOf(p), NEW d, NEW f2, NEW p2,
           Stage(ctx, reserveBuffer, aadFed, fed, p, got, lost, d, f2, p2)
    PROVE  /\ 0 \notin d.releases
           /\ 2 \in d.releases => \/ IF encrypt THEN finals > 0 ELSE returned > 0
                                  \/ Len(f2) > MsgLimit
<1>1. /\ Gcm(ctx).lenM <= p
      /\ encrypt => SealState(ctx, aadFed, fed, p, got, lost, finals)
      /\ ~encrypt => OpenState(ctx, reserveBuffer, aadFed, fed, p, got, lost, finals,
                               returned, tried, late)
    BY Zenon DEF DataOf, DataState
<1>2. CallDone(ctx, p, d, f2)
    BY Zenon DEF Stage
<1>3. ~HasIv(ctx) => IF encrypt THEN finals > 0 ELSE returned > 0
    BY <1>1 DEF SealState, OpenState
<1> QED BY <1>1, <1>2, <1>3 DEF CallDone

LEMMA DoFinalReleases ==
    ASSUME NEW s, NEW r, NEW in
    PROVE  LET d == DataOfFinal(s, r, in)
           IN  \A n \in EngineDoFinal(s, r, in).releases : n \in d.releases \/ n = 1
<1> DEFINE d == DataOfFinal(s, r, in)
           u == EngineDoFinal(s, r, in)
<1>1. d = [ok |-> d.ok, out |-> d.out, ctx |-> d.ctx, reserve |-> d.reserve,
           releases |-> d.releases]
    BY DEF DataOfFinal, Nothing, EngineUpdate, Passes
<1>2. u = IF ~d.ok THEN d ELSE IF encrypt THEN EncryptFinal(d) ELSE DecryptFinal(d)
    BY DEF EngineDoFinal
<1> HIDE DEF d
<1>3. \A right : FinishReleases(right) \subseteq {1}
    BY DEF FinishReleases
<1>4. EncryptFinal(d).releases = d.releases \cup FinishReleases(d.ctx.encrypt)
    BY <1>1 DEF EncryptFinal
<1>5. \/ DecryptFinal(d).releases = d.releases \cup FinishReleases(~d.ctx.encrypt)
      \/ DecryptFinal(d).releases = d.releases
    BY <1>1 DEF DecryptFinal
<1> QED BY <1>2, <1>3, <1>4, <1>5 DEF d

\* What ArraysReleased says of a step, and what is left of it in a state.
ReleaseStep == /\ 2 \in releases' => \/ IF encrypt THEN finals > 0 ELSE returned > 0
                                     \/ Len(fed') > MsgLimit
               /\ 0 \in releases' => ~initialized'

ReleaseInv == /\ 2 \in releases => \/ IF encrypt THEN finals > 0 ELSE returned > 0
                                   \/ Len(fed) > MsgLimit
              /\ 0 \in releases => ~initialized

\* What the last doFinal said stands until the next init.
VerdictInv == /\ verdict.ok => returned = 1
              /\ AcceptedIsAuthentic /\ AuthenticIsAccepted
              /\ MessageIsWhole /\ SealIsWhole

LEMMA VerdictStands ==
    ASSUME VerdictInv, UNCHANGED <<encrypt, algorithmParameterSpec, sent, verdict>>,
           lost => lost', late => late', verdict.ok => returned' = 1 /\ UNCHANGED got
    PROVE  VerdictInv'
BY DEF VerdictInv, AcceptedIsAuthentic, AuthenticIsAccepted, MessageIsWhole, SealIsWhole

AllInv == IInv /\ EndInv /\ DataInv /\ VerdictInv /\ ReleaseInv

\* engineInit that returns or throws.
LEMMA InitsKeepData ==
    ASSUME AllInv, NEW enc \in BOOLEAN, NEW iv \in Ivs, NEW tag \in TagLengths,
           InitDone(enc, iv, tag) \/ InitThrows(enc, iv, tag)
    PROVE  DataInv' /\ VerdictInv' /\ ReleaseInv' /\ ReleaseStep
<1>1. /\ NothingGiven /\ UNCHANGED sent
      /\ algorithmParameterSpec' = [iv |-> iv, tag |-> tag] /\ encrypt' = enc
      /\ 2 \notin releases' /\ (0 \in releases' => ~initialized')
    BY DEF InitDone, InitThrows, InitReleases
<1>2. VerdictInv'
    BY <1>1 DEF NothingGiven, NoVerdict, VerdictInv, AcceptedIsAuthentic, AuthenticIsAccepted,
                MessageIsWhole, SealIsWhole
<1>3. ReleaseInv' /\ ReleaseStep
    BY <1>1 DEF ReleaseInv, ReleaseStep
<1>4. IsSent' /\ aadFed' \in Nat /\ Placed(fed)'
    BY <1>1 DEF NothingGiven, AllInv, DataInv, IsSent, Placed
<1>5. (algorithmParameterSpec \in [iv : Ivs, tag : TagLengths])'
    BY <1>1
<1>6. Forwards' => \E p : DataOf(p)'
    <2>1. CASE InitThrows(enc, iv, tag)
        BY <2>1 DEF InitThrows, Forwards
    <2>2. CASE InitDone(enc, iv, tag)
        <3>1. /\ ctx' = InitializeCipher(enc, Key, iv)
              /\ ~enc => reserveBuffer' = Reserve(tag)
            BY <2>2 DEF InitDone, NewReserve
        <3>2. DataState(enc, InitializeCipher(enc, Key, iv), reserveBuffer', 0, << >>, 0, << >>,
                        FALSE, 0, 0, FALSE, FALSE)
            BY <3>1, FreshData, Zenon
        <3>3. DataOf(0)'
            BY <1>1, <3>1, <3>2, Zenon DEF DataOf, NothingGiven
        <3> QED BY <3>3
    <2> QED BY <2>1, <2>2
<1>7. DataInv'
    BY <1>4, <1>5, <1>6 DEF DataInv
<1> QED BY <1>2, <1>3, <1>7

\* engineInit that refuses, and finalize: no call reaches the engine any more.
LEMMA SilencedKeepsData ==
    ASSUME AllInv, ~Forwards', UNCHANGED <<encrypt, algorithmParameterSpec, sent, ghost>>,
           initialized' => initialized
    PROVE  DataInv' /\ VerdictInv' /\ ReleaseInv' /\ ReleaseStep
<1>1. DataInv'
    BY DEF ghost, AllInv, DataInv, IsSent, Placed
<1>2. VerdictInv'
    BY VerdictStands DEF ghost, AllInv, VerdictInv
<1>3. ReleaseInv' /\ ReleaseStep
    BY DEF ghost, AllInv, ReleaseInv, ReleaseStep
<1> QED BY <1>1, <1>2, <1>3

LEMMA UpdateAADKeepsData ==
    ASSUME AllInv, NEW n \in 1 .. MaxAad, UpdateAAD(n)
    PROVE  DataInv' /\ VerdictInv' /\ ReleaseInv' /\ ReleaseStep
<1> DEFINE ok == NativeUpdateAADOk(ctx, From(aadFed, n))
<1>1. /\ Forwards /\ ctx' = NativeUpdateAAD(ctx, From(aadFed, n)) /\ releases' = {1}
      /\ UNCHANGED <<encrypt, algorithmParameterSpec, reserveBuffer, initialized, collected, sent,
                     fed, got, lost, finals, returned, tried, verdict>>
    BY DEF UpdateAAD, java
<1>2. PICK p : DataOf(p) /\ finals \in Nat /\ n \in Nat
    BY <1>1, CallFindsData DEF AllInv
<1>3. AadGiven(ok, n, aadFed, aadFed', fed, finals, late, late')
    BY DEF UpdateAAD, AadGiven
<1>4. /\ DataState(encrypt, ctx', reserveBuffer, aadFed', fed, p, got, lost, finals, returned,
                   tried, late')
      /\ aadFed' \in Nat
    <2>1. DataState(encrypt, ctx, reserveBuffer, aadFed, fed, p, got, lost, finals, returned,
                    tried, late)
        BY <1>2 DEF DataOf
    <2> QED BY <1>1, <1>2, <1>3, <2>1, AadData, Zenon
<1>5. DataOf(p)'
    BY <1>1, <1>4, Zenon DEF DataOf
<1>6. DataInv'
    BY <1>1, <1>4, <1>5 DEF AllInv, DataInv, IsSent, Placed
<1>7. VerdictInv'
    <2>1. VerdictInv /\ (verdict.ok => returned = 1)
        BY DEF AllInv, VerdictInv
    <2>2. (lost => lost') /\ (late => late')
        BY <1>1, <1>3 DEF AadGiven
    <2>3. verdict.ok => returned' = 1 /\ UNCHANGED got
        BY <1>1, <2>1
    <2>4. UNCHANGED <<encrypt, algorithmParameterSpec, sent, verdict>>
        BY <1>1
    <2> QED BY <2>1, <2>2, <2>3, <2>4, VerdictStands
<1>8. ReleaseInv' /\ ReleaseStep
    BY <1>1 DEF ReleaseInv, ReleaseStep
<1> QED BY <1>6, <1>7, <1>8

LEMMA UpdateCallKeepsData ==
    ASSUME AllInv, NEW in \in Inputs, NEW fits \in BOOLEAN, UpdateCall(in, fits),
           EndInv', EndStep
    PROVE  DataInv' /\ VerdictInv' /\ ReleaseInv' /\ ReleaseStep
<1> DEFINE d == EngineUpdate(ctx, reserveBuffer, in)
<1>1. /\ Forwards /\ fed' = fed \o in /\ releases' = d.releases /\ Receives(d, fits)
      /\ UNCHANGED <<encrypt, algorithmParameterSpec, initialized, collected, sent, aadFed, late,
                     finals, returned, tried, verdict>>
    BY DEF UpdateCall, Leaves
<1>2. PICK p, p2 :
        /\ DataOf(p)
        /\ Stage(ctx, reserveBuffer, aadFed, fed, p, got, lost, d, fed', p2)
        /\ DataState(encrypt, ctx', reserveBuffer', aadFed, fed', p2, got', lost', finals,
                     returned, tried, late)
    BY UpdateCallStage DEF AllInv
<1> HIDE DEF d
<1>3. DataOf(p2)'
    BY <1>1, <1>2, Zenon DEF DataOf
<1>4. Placed(fed')
    <2>1. fed \in Seq(Nat) /\ Placed(fed)
        BY DEF AllInv, IInv, SpecInv, DataInv
    <2> QED BY <1>1, <2>1, PlacedGrows
<1>5. DataInv'
    BY <1>1, <1>3, <1>4 DEF AllInv, DataInv, IsSent, Placed
<1>6. VerdictInv'
    <2>1. VerdictInv /\ (verdict.ok => returned = 1)
        BY DEF AllInv, VerdictInv
    <2>2. (lost => lost') /\ (late => late')
        BY <1>1 DEF Receives
    <2>3. verdict.ok => returned' = 1 /\ UNCHANGED got
        BY <1>1, <2>1 DEF EndStep
    <2>4. UNCHANGED <<encrypt, algorithmParameterSpec, sent, verdict>>
        BY <1>1
    <2> QED BY <2>1, <2>2, <2>3, <2>4, VerdictStands
<1>7. /\ 0 \notin releases'
      /\ 2 \in releases' => \/ IF encrypt THEN finals > 0 ELSE returned > 0
                            \/ Len(fed') > MsgLimit
    BY <1>1, <1>2, StageReleases
<1>8. ReleaseInv' /\ ReleaseStep
    BY <1>1, <1>7 DEF ReleaseInv, ReleaseStep
<1> QED BY <1>5, <1>6, <1>8

LEMMA DoFinalKeepsData ==
    ASSUME AllInv, NEW in \in Inputs \cup {NULL}, NEW fits \in BOOLEAN, DoFinal(in, fits),
           EndInv'
    PROVE  DataInv' /\ VerdictInv' /\ ReleaseInv' /\ ReleaseStep
<1> DEFINE d == DataOfFinal(ctx, reserveBuffer, in)
           u == EngineDoFinal(ctx, reserveBuffer, in)
<1>1. /\ Forwards /\ releases' = u.releases
      /\ finals' = finals + 1 /\ returned' = (IF u.ok THEN returned + 1 ELSE returned)
      /\ verdict'.ok = u.ok
      /\ UNCHANGED <<encrypt, algorithmParameterSpec, initialized, collected, sent, aadFed, late>>
    BY DEF DoFinal, Leaves
<1>2. finals \in Nat /\ returned \in Nat
    BY <1>1, CallFindsData DEF AllInv
<1>3. PICK p, p2 :
        /\ Placed(fed) => Placed(fed')
        /\ DataOf(p)
        /\ Stage(ctx, reserveBuffer, aadFed, fed, p, got, lost, d, fed', p2)
    BY DoFinalStage DEF AllInv
<1>4. \A n \in u.releases : n \in d.releases \/ n = 1
    BY DoFinalReleases
<1> HIDE DEF d, u
<1>5. \E p3 : DataState(encrypt, ctx', reserveBuffer', aadFed, fed', p3, got', lost', finals',
                        returned', tried', late)
    BY SealingDoFinal, OpeningDoFinal DEF AllInv
<1>6. \E p3 : DataOf(p3)'
    BY <1>1, <1>5, Zenon DEF DataOf
<1>7. DataInv'
    BY <1>1, <1>3, <1>6 DEF AllInv, DataInv, IsSent, Placed
<1>8. verdict'.ok => returned' = 1
    BY <1>1, <1>2 DEF EndInv
<1>9. VerdictInv'
    <2>1. CASE encrypt
        <3>1. verdict'.ok => verdict'.due
            BY <2>1, SealingDoFinal DEF AllInv
        <3>2. encrypt'
            BY <1>1, <2>1
        <3> QED BY <1>8, <3>1, <3>2 DEF VerdictInv, AcceptedIsAuthentic, AuthenticIsAccepted,
                                        MessageIsWhole, SealIsWhole
    <2>2. CASE ~encrypt
        <3>1. /\ verdict'.ok => verdict'.due /\ (lost' \/ got' = From(0, sent.msg))
              /\ /\ verdict'.due /\ verdict'.first /\ ~late
                 /\ algorithmParameterSpec.tag \in 1 .. B
                 => verdict'.ok
            BY <2>2, OpeningDoFinal DEF AllInv
        <3>2. ~encrypt' /\ UNCHANGED <<late, algorithmParameterSpec, sent>>
            BY <1>1, <2>2
        <3> QED BY <1>8, <3>1, <3>2 DEF VerdictInv, AcceptedIsAuthentic, AuthenticIsAccepted,
                                        MessageIsWhole, SealIsWhole
    <2> QED BY <2>1, <2>2
<1>10. /\ 0 \notin releases'
       /\ 2 \in releases' => \/ IF encrypt THEN finals > 0 ELSE returned > 0
                             \/ Len(fed') > MsgLimit
    BY <1>1, <1>3, <1>4, StageReleases
<1>11. ReleaseInv' /\ ReleaseStep
    BY <1>1, <1>2, <1>10 DEF ReleaseInv, ReleaseStep
<1> QED BY <1>7, <1>9, <1>11

\* AllInv is inductive, and every step releases arrays as ArraysReleased says.
LEMMA NextData == AllInv /\ [Next]_vars => AllInv' /\ ReleaseStep
<1> SUFFICES ASSUME AllInv, [Next]_vars PROVE AllInv' /\ ReleaseStep
    OBVIOUS
<1>1. IInv' /\ EndInv' /\ EndStep
    BY NextKeeps, NextEnds DEF AllInv
<1> SUFFICES DataInv' /\ VerdictInv' /\ ReleaseInv' /\ ReleaseStep
    BY <1>1 DEF AllInv
<1>2. ASSUME NEW enc \in BOOLEAN, NEW iv \in Ivs, NEW tag \in TagLengths,
             InitDone(enc, iv, tag) \/ InitThrows(enc, iv, tag)
      PROVE  DataInv' /\ VerdictInv' /\ ReleaseInv' /\ ReleaseStep
    BY <1>2, InitsKeepData
<1>3. CASE InitRefused
    BY <1>3, SilencedKeepsData DEF InitRefused, Forwards, java
<1>4. ASSUME NEW n \in 1 .. MaxAad, UpdateAAD(n) PROVE DataInv' /\ VerdictInv' /\ ReleaseInv' /\ ReleaseStep
    BY <1>4, UpdateAADKeepsData
<1>5. ASSUME NEW in \in Inputs, NEW fits \in BOOLEAN, UpdateCall(in, fits) PROVE DataInv' /\ VerdictInv' /\ ReleaseInv' /\ ReleaseStep
    BY <1>1, <1>5, UpdateCallKeepsData
<1>6. ASSUME NEW in \in Inputs \cup {NULL}, NEW fits \in BOOLEAN, DoFinal(in, fits)
      PROVE  DataInv' /\ VerdictInv' /\ ReleaseInv' /\ ReleaseStep
    BY <1>1, <1>6, DoFinalKeepsData
<1>7. CASE Finalize
    BY <1>7, SilencedKeepsData DEF Finalize, Forwards, java
<1>8. CASE UNCHANGED vars
    <2>1. /\ UNCHANGED <<algorithmParameterSpec, encrypt, reserveBuffer, ctx, initialized,
                         collected, sent>>
          /\ UNCHANGED <<aadFed, fed, got, late, lost, finals, returned, tried, verdict, releases>>
        BY <1>8 DEF vars, java, ghost
    <2>2. DataInv'
        BY <2>1 DEF AllInv, DataInv, DataOf, IsSent, Placed, Forwards
    <2>3. VerdictInv'
        BY <2>1, VerdictStands DEF AllInv, VerdictInv
    <2>4. ReleaseInv' /\ ReleaseStep
        BY <2>1 DEF AllInv, ReleaseInv, ReleaseStep
    <2> QED BY <2>2, <2>3, <2>4
<1> QED BY <1>2, <1>3, <1>4, <1>5, <1>6, <1>7, <1>8 DEF Next

LEMMA InitAllInv == Init => AllInv
<1> SUFFICES ASSUME Init PROVE AllInv
    OBVIOUS
<1>1. IInv
    BY InitIInv
<1>2. EndInv /\ DataInv
    BY DEF Init, EndInv, DataInv, IsSent, Placed, Forwards
<1>3. VerdictInv /\ ReleaseInv
    BY DEF Init, NoVerdict, VerdictInv, ReleaseInv, AcceptedIsAuthentic, AuthenticIsAccepted,
           MessageIsWhole, SealIsWhole
<1> QED BY <1>1, <1>2, <1>3 DEF AllInv

LEMMA SpecAllInv == Spec => []AllInv
BY InitAllInv, NextData, PTL DEF Spec

-----------------------------------------------------------------------------
\* A decrypting doFinal returns only what the sender sealed under this IV: after
\* whatever failed, early or repeated calls, the AAD, the ciphertext and the tag that
\* were given are the sender's, all of them and nothing else.
THEOREM AcceptsOnlyAuthentic == Spec => []AcceptedIsAuthentic
<1>1. AllInv => AcceptedIsAuthentic
    BY DEF AllInv, VerdictInv
<1> QED BY <1>1, SpecAllInv, PTL

\* And it does return that, however it was cut into calls and though a doFinal came too
\* early, when the AAD came first and no tag was compared before.
THEOREM AcceptsAuthentic == Spec => []AuthenticIsAccepted
<1>1. AllInv => AuthenticIsAccepted
    BY DEF AllInv, VerdictInv
<1> QED BY <1>1, SpecAllInv, PTL

\* What the caller has by then is the sender's message, every byte once, in order,
\* without the tag.
THEOREM ReturnsWholeMessage == Spec => []MessageIsWhole
<1>1. AllInv => MessageIsWhole
    BY DEF AllInv, VerdictInv
<1> QED BY <1>1, SpecAllInv, PTL

\* An encrypting doFinal that returns has handed out all the data it was given, and the
\* tag of that and of all the AAD.
THEOREM SealsWhole == Spec => []SealIsWhole
<1>1. AllInv => SealIsWhole
    BY DEF AllInv, VerdictInv
<1> QED BY <1>1, SpecAllInv, PTL

\* Arrays are released twice only by an update that throws after the end of a message or
\* beyond what GCM takes, and never only by an initializeCipher that throws.
THEOREM ReleasesArrays == Spec => ArraysReleased
<1>1. AllInv /\ [Next]_vars => [ReleaseStep]_vars
    BY NextData
<1>2. Spec => [][ReleaseStep]_vars
    BY <1>1, SpecAllInv, PTL DEF Spec
<1> QED BY <1>2 DEF ArraysReleased, ReleaseStep

-----------------------------------------------------------------------------
\* SealedMessage is implemented.  What it calls passed, of an object that can be called.
Passed == IF encrypt THEN Len(fed) ELSE Len(fed) - Len(reserveBuffer.held)

LEMMA EndIsPassed ==
    ASSUME NEW enc, NEW r, NEW f, NEW p, EndOf(Keeps(enc, r), f, p)
    PROVE  /\ enc => p = Len(f)
           /\ ~enc => p = Len(f) - Len(r.held)
           /\ p \in 0 .. Len(f) /\ Len(f) \in Nat /\ f \in Seq(Nat)
<1> DEFINE n == Len(f)
           k == Len(Keeps(enc, r))
<1>1. f \in Seq(Nat) /\ p \in Nat /\ n \in Nat /\ k \in Nat /\ p + k = n
    BY EndTypes, Zenon
<1>2. (enc => k = 0) /\ (~enc => k = Len(r.held))
    BY EmptySeq DEF Keeps
<1> HIDE DEF n, k
<1>3. p \in 0 .. n /\ p = n - k
    BY <1>1
<1>4. enc => p = n
    BY <1>1, <1>2, <1>3
<1>5. ~enc => p = n - Len(r.held)
    BY <1>2, <1>3
<1> QED BY <1>1, <1>3, <1>4, <1>5, Zenon DEF n

\* SealedMessage's variable itself.
MessagePassed == IF ~Forwards THEN 0
                 ELSE IF encrypt THEN Len(fed)
                 ELSE Len(fed) - Len(reserveBuffer.held)

\* A call gives more, and hands on the bytes up to the one numbered `to'.
LEMMA CallHandsOn ==
    ASSUME Forwards,
           UNCHANGED <<initialized, collected, encrypt, algorithmParameterSpec>>,
           NEW in \in Seq(Nat), fed \in Seq(Nat), fed' = fed \o in,
           Passed \in Nat, Passed' \in Passed .. Len(fed'),
           NEW to, got' = got \o SubSeq(fed', Passed + 1, to)
    PROVE  Message!HandOn(to)
<1>1. Forwards'
    BY DEF Forwards
<1>2. Len(fed) <= Len(fed') /\ SubSeq(fed, 1, Len(fed)) = SubSeq(fed', 1, Len(fed))
    <2>1. /\ Len(fed) \in Nat /\ Len(in) \in Nat /\ Len(fed') = Len(fed) + Len(in)
          /\ \A i \in 1 .. Len(fed) : fed'[i] = fed[i]
        BY ConcatProperties
    <2>2. fed' \in Seq(Nat)
        BY ConcatProperties
    <2> QED BY <2>1, <2>2, SubSeqProperties
<1> QED BY <1>1, <1>2 DEF Message!HandOn, Passed, Visible, Message!IsPrefix

\* When no call can reach the engine after a step, a new message has been started.
LEMMA SilencedStarts == ~Forwards' => Message!Start
BY DEF Message!Start, Visible

LEMMA InitDoneStarts ==
    ASSUME NEW enc \in BOOLEAN, NEW iv \in Ivs, NEW tag \in TagLengths, InitDone(enc, iv, tag)
    PROVE  Message!Start
<1>1. /\ Forwards' /\ fed' = << >> /\ got' = << >> /\ returned' = 0 /\ encrypt' = enc
      /\ ~enc => reserveBuffer' = Reserve(tag)
    BY DEF InitDone, NothingGiven, NewReserve, Forwards
<1>2. ~enc => reserveBuffer'.held = << >>
    BY <1>1 DEF Reserve
<1> QED BY <1>1, <1>2, EmptySeq DEF Message!Start, Visible

\* got, as SealedMessage has it, is a sequence.
GotInv == got \in Seq(Nat)

\* A call that throws, or whose output is lost, hands on nothing.
LEMMA NothingHandedOn ==
    ASSUME GotInv, UNCHANGED got, Passed \in Nat
    PROVE  got' = got \o SubSeq(fed', Passed + 1, Passed)
<1>1. SubSeq(fed', Passed + 1, Passed) = << >>
    BY SubSeqEmpty
<1> QED BY <1>1, ConcatEmptySeq DEF GotInv

LEMMA UpdateAADThrows ==
    ASSUME AllInv, GotInv, NEW n \in 1 .. MaxAad, UpdateAAD(n)
    PROVE  Message!Throw /\ GotInv'
<1>1. /\ Forwards
      /\ UNCHANGED <<initialized, collected, encrypt, algorithmParameterSpec, reserveBuffer,
                     fed, got, returned>>
    BY DEF UpdateAAD, java
<1>2. PICK p : EndOf(Keeps(encrypt, reserveBuffer), fed, p) /\ fed \in Seq(Nat)
    BY <1>1, CallFindsData DEF AllInv
<1>3. Passed = p /\ p \in 0 .. Len(fed) /\ Len(fed) \in Nat
    BY <1>2, EndIsPassed DEF Passed
<1>4. Passed' = Passed
    BY <1>1 DEF Passed
<1>5. << >> \in Seq(Nat) /\ fed' = fed \o << >>
    BY <1>1, <1>2, ConcatEmptySeq, EmptySeq
<1>6. got' = got \o SubSeq(fed', Passed + 1, Passed)
    BY <1>1, <1>3, NothingHandedOn
<1>7. Passed \in Nat /\ Passed' \in Passed .. Len(fed')
    BY <1>1, <1>3, <1>4
<1>8. Message!HandOn(Passed)
    BY <1>1, <1>2, <1>5, <1>6, <1>7, CallHandsOn
<1> QED BY <1>1, <1>8 DEF Message!Throw, Passed, Forwards, Visible, GotInv

\* What engineUpdate does to a message, as SealedMessage has it: p of the data had passed,
\* and p2 have.
LEMMA StagePasses ==
    ASSUME NEW p, DataOf(p), NEW d, NEW f2, NEW p2,
           Stage(ctx, reserveBuffer, aadFed, fed, p, got, lost, d, f2, p2)
    PROVE  /\ Passed = p /\ fed \in Seq(Nat) /\ p \in Nat
           /\ EndOf(Keeps(encrypt, d.reserve), f2, p2) /\ p <= p2
           /\ d.ok => /\ d.out \in Seq(Nat) /\ d.out = SubSeq(f2, p + 1, p2)
                      /\ ~encrypt => p2 = p \/ Len(d.reserve.held) = reserveBuffer.size
<1>1. EndOf(Keeps(encrypt, reserveBuffer), fed, p)
    BY Zenon DEF DataOf, DataState
<1>2. Passed = p /\ fed \in Seq(Nat) /\ p \in Nat
    BY <1>1, EndIsPassed DEF Passed
<1>3. PassedDone(ctx, p, d, f2, p2) /\ ReserveDone(reserveBuffer, fed, d, f2)
    BY Zenon DEF Stage
<1>4. /\ EndOf(Keeps(encrypt, d.reserve), f2, p2) /\ p <= p2
      /\ d.ok => Segment(d.out, f2, p) /\ p2 = p + Len(d.out)
    BY <1>3, Zenon DEF PassedDone
<1>5. d.ok => /\ d.out \in Seq(Nat) /\ d.out = SubSeq(f2, p + 1, p2)
              /\ ~encrypt => p2 = p \/ Len(d.reserve.held) = reserveBuffer.size
    <2> SUFFICES ASSUME d.ok
                 PROVE  /\ d.out \in Seq(Nat) /\ d.out = SubSeq(f2, p + 1, p2)
                        /\ ~encrypt => p2 = p \/ Len(d.reserve.held) = reserveBuffer.size
        OBVIOUS
    <2>1. Segment(d.out, f2, p) /\ p2 = p + Len(d.out)
        BY <1>4
    <2>2. d.out \in Seq(Nat)
        BY <2>1 DEF Segment
    <2>3. d.out = SubSeq(f2, p + 1, p2)
        BY <2>1, SegmentIsSubSeq
    <2>4. ~encrypt => Len(d.out) = 0 \/ Len(d.reserve.held) = reserveBuffer.size
        BY <1>3 DEF ReserveDone
    <2>5. Len(d.out) = 0 => p2 = p
        BY <1>2, <2>1
    <2> QED BY <2>2, <2>3, <2>4, <2>5
<1> QED BY <1>2, <1>4, <1>5

LEMMA UpdateCallGives ==
    ASSUME AllInv, GotInv, NEW in \in Inputs, NEW fits \in BOOLEAN, UpdateCall(in, fits)
    PROVE  (Message!Give \/ Message!Throw) /\ GotInv'
<1> DEFINE d == EngineUpdate(ctx, reserveBuffer, in)
<1>1. /\ Forwards /\ fed' = fed \o in /\ reserveBuffer' = d.reserve /\ Receives(d, fits)
      /\ UNCHANGED <<encrypt, algorithmParameterSpec, initialized, collected, returned>>
    BY DEF UpdateCall, Leaves
<1>2. PICK p, p2 :
        /\ DataOf(p)
        /\ Stage(ctx, reserveBuffer, aadFed, fed, p, got, lost, d, fed', p2)
    BY UpdateCallStage DEF AllInv
<1>3. d.ok => returned = 0
    BY <1>1, SpentUpdateThrows DEF AllInv, EndInv
<1>4. ~encrypt => reserveBuffer.size = algorithmParameterSpec.tag
    BY <1>1 DEF AllInv, IInv, FieldsAgree
<1> HIDE DEF d
<1>5. /\ Passed = p /\ fed \in Seq(Nat) /\ p \in Nat
      /\ EndOf(Keeps(encrypt, d.reserve), fed', p2) /\ p <= p2
      /\ d.ok => /\ d.out \in Seq(Nat) /\ d.out = SubSeq(fed', p + 1, p2)
                 /\ ~encrypt => p2 = p \/ Len(d.reserve.held) = reserveBuffer.size
    BY <1>2, StagePasses
<1>6. /\ encrypt => p2 = Len(fed')
      /\ ~encrypt => p2 = Len(fed') - Len(d.reserve.held)
      /\ p2 \in 0 .. Len(fed') /\ Len(fed') \in Nat
    BY <1>5, EndIsPassed
<1>7. Passed' = p2
    BY <1>1, <1>6 DEF Passed
<1>8. Passed \in Nat /\ Passed' \in Passed .. Len(fed') /\ in \in Seq(Nat)
    BY <1>5, <1>6, <1>7, InputsAreSeqs
<1>9. CASE d.ok /\ fits
    <2>1. got' = got \o SubSeq(fed', Passed + 1, Passed') /\ d.out \in Seq(Nat)
        BY <1>1, <1>5, <1>7, <1>9 DEF Receives
    <2>2. Message!HandOn(Passed')
        BY <1>1, <1>5, <1>8, <2>1, CallHandsOn
    <2>3. ~encrypt => Passed' = Passed \/ Passed' <= Len(fed') - algorithmParameterSpec.tag
        <3> DEFINE n == Len(fed')
                   h == Len(d.reserve.held)
                   tag == algorithmParameterSpec.tag
        <3>1. ~encrypt => p2 = n - h /\ (p2 = p \/ h = tag)
            BY <1>4, <1>5, <1>6, <1>9
        <3>2. p2 \in 0 .. n /\ n \in Nat
            BY <1>6
        <3> HIDE DEF n, h, tag
        <3>3. ~encrypt => p2 = p \/ p2 <= n - tag
            BY <3>1, <3>2
        <3> QED BY <1>5, <1>7, <3>3 DEF n, tag
    <2>4. GotInv'
        BY <1>1, <1>5, <1>9, <2>1, ConcatProperties DEF GotInv, Receives
    <2>5. Message!Give
        <3>1. Forwards' /\ returned = 0 /\ returned' = 0
            BY <1>1, <1>3, <1>9 DEF Forwards
        <3>2. MessagePassed = Passed /\ MessagePassed' = Passed'
            BY <1>1, <3>1 DEF MessagePassed, Passed
        <3>3. Message!HandOn(MessagePassed')
            BY <2>2, <3>2, Zenon
        <3>4. Visible(~encrypt, FALSE)
                => \/ MessagePassed' <= Len(Visible(fed, << >>)')
                                        - Visible(algorithmParameterSpec, [tag |-> 0]).tag
                   \/ MessagePassed' = MessagePassed
            BY <1>1, <2>3, <3>1, <3>2 DEF Visible
        <3>5. ~(Forwards /\ returned > 0) /\ ~(Forwards /\ returned > 0)'
            BY <3>1
        <3> QED BY <3>3, <3>4, <3>5, Zenon DEF Message!Give, MessagePassed
    <2> QED BY <2>4, <2>5
<1>10. CASE ~(d.ok /\ fits)
    <2>1. UNCHANGED got
        BY <1>1, <1>10 DEF Receives
    <2>2. got' = got \o SubSeq(fed', Passed + 1, Passed)
        BY <1>8, <2>1, NothingHandedOn
    <2>3. Message!HandOn(Passed)
        BY <1>1, <1>5, <1>8, <2>2, CallHandsOn
    <2>4. Message!Throw
        BY <1>1, <2>3 DEF Message!Throw, Passed, Forwards, Visible
    <2> QED BY <2>1, <2>4 DEF GotInv
<1> QED BY <1>9, <1>10

\* What engineDoFinal makes of what engineUpdate left.
LEMMA FinalLeaves ==
    ASSUME NEW s, NEW r, NEW in
    PROVE  LET d == DataOfFinal(s, r, in)
               u == EngineDoFinal(s, r, in)
           IN  /\ u.ok => d.ok /\ u.out = d.out
               /\ encrypt => u.reserve = d.reserve
               /\ ~encrypt => u.reserve = d.reserve \/ u.reserve = Reserve(d.reserve.size)
               /\ ~encrypt /\ u.ok =>
                    /\ Len(d.reserve.held) = algorithmParameterSpec.tag
                    /\ u.reserve = Reserve(d.reserve.size)
<1> DEFINE d == DataOfFinal(s, r, in)
           u == EngineDoFinal(s, r, in)
<1>1. d = [ok |-> d.ok, out |-> d.out, ctx |-> d.ctx, reserve |-> d.reserve,
           releases |-> d.releases]
    BY DEF DataOfFinal, Nothing, EngineUpdate, Passes
<1>2. u = IF ~d.ok THEN d ELSE IF encrypt THEN EncryptFinal(d) ELSE DecryptFinal(d)
    BY DEF EngineDoFinal
<1> HIDE DEF d, u
<1>3. EncryptFinal(d).out = d.out /\ EncryptFinal(d).reserve = d.reserve
    BY <1>1 DEF EncryptFinal
<1>4. CASE Full(d)
    <2>1. DecryptFinal(d).out = d.out /\ DecryptFinal(d).reserve = Reserve(d.reserve.size)
        BY <1>1, <1>4 DEF DecryptFinal, Plaintext
    <2> QED BY <1>2, <1>3, <1>4, <2>1 DEF d, u, Full
<1>5. CASE ~Full(d)
    <2>1. ~DecryptFinal(d).ok /\ DecryptFinal(d).reserve = d.reserve
        BY <1>1, <1>5 DEF DecryptFinal
    <2> QED BY <1>2, <1>3, <1>5, <2>1 DEF d, u
<1> QED BY <1>4, <1>5

\* Of the data given, f2, the doFinal leaves in the reserve what engineUpdate left or nothing.
LEMMA FinalPasses ==
    ASSUME NEW d, NEW f2, NEW p2, EndOf(Keeps(encrypt, d.reserve), f2, p2), NEW r2,
           encrypt => r2 = d.reserve,
           ~encrypt => r2 = d.reserve \/ r2 = Reserve(d.reserve.size)
    PROVE  LET passed == IF encrypt THEN Len(f2) ELSE Len(f2) - Len(r2.held)
           IN  /\ passed \in p2 .. Len(f2) /\ Len(f2) \in Nat
               /\ encrypt \/ r2 = Reserve(d.reserve.size) => passed = Len(f2)
<1>1. /\ encrypt => p2 = Len(f2)
      /\ ~encrypt => p2 = Len(f2) - Len(d.reserve.held)
      /\ p2 \in 0 .. Len(f2) /\ Len(f2) \in Nat
    BY EndIsPassed
<1>2. r2 = Reserve(d.reserve.size) => Len(r2.held) = 0
    BY EmptySeq DEF Reserve
<1>3. CASE encrypt
    BY <1>1, <1>3
<1>4. CASE ~encrypt /\ r2 = Reserve(d.reserve.size)
    BY <1>1, <1>2, <1>4
<1>5. CASE ~encrypt /\ r2 = d.reserve /\ r2 # Reserve(d.reserve.size)
    BY <1>1, <1>5
<1> QED BY <1>3, <1>4, <1>5

LEMMA DoFinalEnds ==
    ASSUME AllInv, GotInv, NEW in \in Inputs \cup {NULL}, NEW fits \in BOOLEAN,
           DoFinal(in, fits), EndInv'
    PROVE  (Message!End \/ Message!Throw) /\ GotInv'
<1> DEFINE d == DataOfFinal(ctx, reserveBuffer, in)
           u == EngineDoFinal(ctx, reserveBuffer, in)
           given == IF in = NULL THEN << >> ELSE in
           tag == algorithmParameterSpec.tag
<1>1. /\ Forwards /\ fed' = fed \o given /\ reserveBuffer' = u.reserve /\ Receives(u, fits)
      /\ returned' = (IF u.ok THEN returned + 1 ELSE returned)
      /\ verdict'.ok = u.ok /\ (~encrypt => verdict'.due = SentAll')
      /\ UNCHANGED <<encrypt, algorithmParameterSpec, initialized, collected>>
    BY DEF DoFinal, Leaves
<1>2. PICK p, p2 :
        /\ DataOf(p)
        /\ Stage(ctx, reserveBuffer, aadFed, fed, p, got, lost, d, fed', p2)
    BY DoFinalStage DEF AllInv
<1>3. /\ u.ok => d.ok /\ u.out = d.out
      /\ encrypt => u.reserve = d.reserve
      /\ ~encrypt => u.reserve = d.reserve \/ u.reserve = Reserve(d.reserve.size)
      /\ ~encrypt /\ u.ok => Len(d.reserve.held) = tag /\ u.reserve = Reserve(d.reserve.size)
    BY FinalLeaves
<1>4. ~encrypt /\ u.ok => SentAll'
    BY <1>1, OpeningDoFinal DEF AllInv
<1>5. given \in Seq(Nat)
    <2>1. fed \in Seq(Nat)
        BY DEF AllInv, IInv, SpecInv
    <2> QED BY <2>1, InputsAreSeqs, EmptySeq
<1> HIDE DEF d, u, given
<1>6. /\ Passed = p /\ fed \in Seq(Nat) /\ p \in Nat
      /\ EndOf(Keeps(encrypt, d.reserve), fed', p2) /\ p <= p2
      /\ d.ok => d.out \in Seq(Nat) /\ d.out = SubSeq(fed', p + 1, p2)
    BY <1>2, StagePasses
<1>7. /\ encrypt => p2 = Len(fed')
      /\ ~encrypt => p2 = Len(fed') - Len(d.reserve.held)
      /\ p2 \in Nat
    BY <1>6, EndIsPassed
<1>8. /\ Passed' \in p2 .. Len(fed') /\ Len(fed') \in Nat
      /\ u.ok => Passed' = Len(fed')
    <2> DEFINE passed == IF encrypt THEN Len(fed') ELSE Len(fed') - Len(u.reserve.held)
    <2>1. /\ passed \in p2 .. Len(fed') /\ Len(fed') \in Nat
          /\ encrypt \/ u.reserve = Reserve(d.reserve.size) => passed = Len(fed')
        BY <1>3, <1>6, FinalPasses
    <2>2. Passed' = passed
        BY <1>1 DEF Passed
    <2> HIDE DEF passed
    <2> QED BY <1>3, <2>1, <2>2
<1>9. Passed \in Nat /\ Passed' \in Passed .. Len(fed')
    BY <1>6, <1>7, <1>8
<1>10. Forwards'
    BY <1>1 DEF Forwards
<1>11. MessagePassed = Passed /\ MessagePassed' = Passed'
    BY <1>1, <1>10 DEF MessagePassed, Passed
<1>12. ~(u.ok /\ fits) => UNCHANGED got /\ Message!HandOn(Passed)
    <2> SUFFICES ASSUME ~(u.ok /\ fits) PROVE UNCHANGED got /\ Message!HandOn(Passed)
        OBVIOUS
    <2>1. UNCHANGED got
        BY <1>1 DEF Receives
    <2>2. got' = got \o SubSeq(fed', Passed + 1, Passed)
        BY <1>9, <2>1, NothingHandedOn
    <2> QED BY <1>1, <1>5, <1>6, <1>9, <2>1, <2>2, CallHandsOn
<1>13. CASE ~u.ok
    <2>1. Message!Throw
        BY <1>1, <1>12, <1>13 DEF Message!Throw, Passed, Forwards, Visible
    <2> QED BY <1>12, <1>13, <2>1 DEF GotInv
<1>14. CASE u.ok
    <2>1. returned = 0 /\ returned' = 1
        BY <1>1, <1>14 DEF AllInv, EndInv
    <2>2. p2 = IF ~encrypt THEN Len(fed') - tag ELSE Len(fed')
        BY <1>3, <1>7, <1>14
    <2>3. fits => Message!HandOn(p2) /\ GotInv'
        <3> SUFFICES ASSUME fits PROVE Message!HandOn(p2) /\ GotInv'
            OBVIOUS
        <3>1. /\ got' = got \o SubSeq(fed', Passed + 1, p2)
              /\ d.out \in Seq(Nat) /\ got' = got \o d.out
            BY <1>1, <1>3, <1>6, <1>14 DEF Receives
        <3> QED BY <1>1, <1>5, <1>6, <1>9, <3>1, CallHandsOn, ConcatProperties DEF GotInv
    <2>4. ~(Forwards /\ returned > 0) /\ (Forwards /\ returned > 0)'
        BY <1>10, <2>1
    <2>5. MessagePassed' = Len(Visible(fed, << >>)')
        BY <1>8, <1>10, <1>11, <1>14 DEF Visible
    <2>6. \/ Message!HandOn(IF Visible(~encrypt, FALSE)
                            THEN Len(Visible(fed, << >>)')
                                   - Visible(algorithmParameterSpec, [tag |-> 0]).tag
                            ELSE Len(Visible(fed, << >>)'))
          \/ Message!HandOn(MessagePassed)
        <3>1. p2 = IF Visible(~encrypt, FALSE)
                   THEN Len(Visible(fed, << >>)')
                          - Visible(algorithmParameterSpec, [tag |-> 0]).tag
                   ELSE Len(Visible(fed, << >>)')
            BY <1>1, <1>10, <2>2 DEF Visible
        <3>2. fits \/ Message!HandOn(MessagePassed)
            BY <1>11, <1>12, Zenon
        <3> QED BY <2>3, <3>1, <3>2, Zenon
    <2>7. Visible(~encrypt, FALSE) => (Forwards /\ SentAll)'
        BY <1>1, <1>4, <1>10, <1>14 DEF Visible
    <2>8. Message!End
        BY <2>4, <2>5, <2>6, <2>7, Zenon DEF Message!End, MessagePassed
    <2>9. GotInv'
        BY <1>12, <2>3 DEF GotInv
    <2> QED BY <2>8, <2>9
<1> QED BY <1>13, <1>14

LEMMA NextHandsOn ==
    AllInv /\ GotInv /\ [Next]_vars => [Message!Next]_(Message!vars) /\ GotInv'
<1> SUFFICES ASSUME AllInv, GotInv, [Next]_vars
             PROVE  [Message!Next]_(Message!vars) /\ GotInv'
    OBVIOUS
<1>1. EndInv'
    BY NextEnds DEF AllInv
<1>2. ASSUME NEW enc \in BOOLEAN, NEW iv \in Ivs, NEW tag \in TagLengths,
             InitDone(enc, iv, tag) \/ InitThrows(enc, iv, tag)
      PROVE  Message!Start /\ GotInv'
    <2>1. GotInv'
        BY <1>2, EmptySeq DEF InitDone, InitThrows, NothingGiven, GotInv
    <2>2. InitThrows(enc, iv, tag) => ~Forwards'
        BY DEF InitThrows, Forwards
    <2> QED BY <1>2, <2>1, <2>2, InitDoneStarts, SilencedStarts
<1>3. ASSUME InitRefused \/ Finalize PROVE Message!Start /\ GotInv'
    <2>1. ~Forwards' /\ UNCHANGED got
        BY <1>3 DEF InitRefused, Finalize, ghost, Forwards
    <2> QED BY <2>1, SilencedStarts DEF GotInv
<1>4. ASSUME NEW n \in 1 .. MaxAad, UpdateAAD(n) PROVE Message!Throw /\ GotInv'
    BY <1>4, UpdateAADThrows
<1>5. ASSUME NEW in \in Inputs, NEW fits \in BOOLEAN, UpdateCall(in, fits)
      PROVE  (Message!Give \/ Message!Throw) /\ GotInv'
    BY <1>5, UpdateCallGives
<1>6. ASSUME NEW in \in Inputs \cup {NULL}, NEW fits \in BOOLEAN, DoFinal(in, fits)
      PROVE  (Message!End \/ Message!Throw) /\ GotInv'
    BY <1>1, <1>6, DoFinalEnds
<1>7. CASE UNCHANGED vars
    <2>1. /\ UNCHANGED <<algorithmParameterSpec, encrypt, reserveBuffer, initialized, collected,
                         sent, aadFed, fed, got, returned>>
        BY <1>7 DEF vars, java, ghost
    <2>2. UNCHANGED Message!vars
        BY <2>1 DEF Message!vars, Visible, Forwards, SentAll
    <2> QED BY <2>1, <2>2 DEF GotInv
<1>8. CASE Next
    <2>1. Message!Next /\ GotInv'
        BY <1>2, <1>3, <1>4, <1>5, <1>6, <1>8 DEF Next, Message!Next
    <2> QED BY <2>1
<1> QED BY <1>7, <1>8

\* The object does what SealedMessage promises: whatever is cut, refused or thrown, what
\* it hands on are the bytes that were given, in order; when decrypting, never one that may
\* still be the tag; and at most one doFinal, of an authentic message, ends it.
THEOREM HandsOnMessage == Spec => HandsOnSealedMessage
<1>1. Init => Message!Init /\ GotInv
    <2> SUFFICES ASSUME Init PROVE Message!Init /\ GotInv
        OBVIOUS
    <2>1. ~Forwards /\ got = << >>
        BY DEF Init, Forwards
    <2> QED BY <2>1, EmptySeq DEF Message!Init, Visible, GotInv
<1>2. Spec => [](AllInv /\ GotInv)
    BY <1>1, InitAllInv, NextData, NextHandsOn, PTL DEF Spec
<1>3. Spec => Message!Init /\ [][Message!Next]_(Message!vars)
    BY <1>1, <1>2, NextHandsOn, PTL DEF Spec
<1> QED BY <1>3 DEF HandsOnSealedMessage, Message!Spec

=============================================================================
