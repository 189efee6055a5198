---------------------------- MODULE AesGcmCipher ----------------------------
(***************************************************************************)
(* org.signal.aesgcmprovider.AesGcmCipher with the native contexts it owns *)
(* and the javax.crypto.Cipher that calls it: one object, initialised for  *)
(* either direction any number of times, fed AAD and data in calls of any  *)
(* length, finished, and at last finalized by the collector.               *)
(*                                                                         *)
(* A sender has sealed one message, under SentIv: sent.aad bytes of AAD,   *)
(* sent.msg bytes of ciphertext and a tag of B bytes.  What a decrypting   *)
(* caller feeds are positions 1, 2, 3, ... in the sender's stream, the     *)
(* last B of them the tag; 0 is a byte the sender did not send there.      *)
(*                                                                         *)
(* The ReserveBuffer is the sequence of the bytes it keeps back: what it   *)
(* returns and keeps is TagHoldback, which module ReserveBufferProofs      *)
(* proves of the ring.                                                     *)
(***************************************************************************)
EXTENDS AesGcmJni

CONSTANTS Key, Ivs, SentIv,
          TagLengths,        \* getTLen() / 8 of the specs a caller may pass
          Addrs,             \* where a context can be allocated: the memory
          MaxAad,            \* bound on the AAD, the sender's and the caller's
          MaxMsg,            \* bound on the sender's message
          MaxFed,            \* bound on the bytes fed after one init
          MaxFinals          \* bound on the doFinal calls after one init

Reserves == [size : TagLengths, held : Seq(Nat)]

ASSUME CipherAssumption == /\ SentIv \in Ivs
                           /\ NULL \notin Ivs \cup {Key} \cup Addrs \cup Reserves
                           /\ NULL \notin ({Key} \X Ivs) \X Polynomials
                           /\ TagLengths \subseteq Nat
                           /\ MaxAad \in Nat /\ MaxMsg \in 0 .. MsgLimit
                           /\ MaxFed \in Nat /\ MaxFinals \in Nat

VARIABLES algorithmParameterSpec,   \* [iv, tag]: getIV(), getTLen() / 8
          cipherContext,            \* an address, or NULL for 0
          encrypt,
          reserveBuffer             \* [size, held], or NULL

VARIABLES allocated,     \* the addresses of contexts that were not freed
          ctx,           \* what is at cipherContext
          initialized,   \* of the javax.crypto.Cipher
          collected      \* the object was finalized

\* Auxiliary, since the last init: the AAD bytes and the data bytes given,
\* the data bytes returned, whether AAD came after data or a doFinal, whether
\* an output array was too short, the doFinals called, those that did all their
\* work, whether one got as far as the tag, and what the last was about.  And how
\* often the last call released the arrays it passed to native methods.
VARIABLES sent, aadFed, fed, got, late, lost, finals, returned, tried, verdict, releases

java  == <<algorithmParameterSpec, cipherContext, encrypt, reserveBuffer>>
ghost == <<aadFed, fed, got, late, lost, finals, returned, tried, verdict, releases>>
vars  == <<java, allocated, ctx, initialized, collected, sent, ghost>>

NoVerdict == [ok |-> FALSE, due |-> FALSE, first |-> FALSE]

Reserve(size) == [size |-> size, held |-> << >>]

Init == /\ algorithmParameterSpec = NULL /\ cipherContext = NULL
        /\ encrypt = FALSE /\ reserveBuffer = NULL
        /\ allocated = {} /\ ctx = NULL
        /\ initialized = FALSE /\ collected = FALSE
        /\ sent \in [aad : 0 .. MaxAad, msg : 0 .. MaxMsg]
        /\ aadFed = 0 /\ fed = << >> /\ got = << >> /\ late = FALSE /\ lost = FALSE
        /\ finals = 0 /\ returned = 0 /\ tried = FALSE /\ verdict = NoVerdict
        /\ releases = {}

-----------------------------------------------------------------------------
\* engineInit.  The context of an earlier init is forgotten, not destroyed.
DestroyedFirst == allocated \ {cipherContext}
StillAllocated == allocated

OldReserve(enc, size) ==
    IF enc \/ reserveBuffer # NULL THEN reserveBuffer ELSE Reserve(size)
NewReserve(enc, size) == IF enc THEN reserveBuffer ELSE Reserve(size)

NothingGiven ==
    /\ aadFed' = 0 /\ fed' = << >> /\ got' = << >> /\ late' = FALSE /\ lost' = FALSE
    /\ finals' = 0 /\ returned' = 0 /\ tried' = FALSE /\ verdict' = NoVerdict

\* Cipher.init with a spec, and a key and an IV of lengths engineInit takes.
InitDone(enc, iv, tag) ==
    \E a \in Addrs \ allocated :
        /\ ~collected
        /\ algorithmParameterSpec' = [iv |-> iv, tag |-> tag]
        /\ encrypt' = enc
        /\ cipherContext' = a
        /\ allocated' = StillAllocated \cup {a}
        /\ ctx' = InitializeCipher(enc, Key, iv)
        /\ reserveBuffer' = NewReserve(enc, tag)
        /\ initialized' = TRUE
        /\ NothingGiven
        /\ releases' = InitReleases(TRUE)
        /\ UNCHANGED <<collected, sent>>

\* initializeCipher throws: malloc, or EVP_CipherInit_ex for want of memory, fails.
InitThrows(enc, iv, tag) ==
    /\ ~collected
    /\ algorithmParameterSpec' = [iv |-> iv, tag |-> tag]
    /\ encrypt' = enc
    /\ allocated' = StillAllocated
    /\ initialized' = FALSE
    /\ NothingGiven
    /\ \E malloced \in BOOLEAN : releases' = InitReleases(malloced)
    /\ UNCHANGED <<cipherContext, ctx, reserveBuffer, collected, sent>>

\* engineInit refuses the spec or the key before it assigns anything.
InitRefused ==
    /\ ~collected
    /\ initialized' = FALSE
    /\ UNCHANGED <<java, allocated, ctx, collected, sent, ghost>>

-----------------------------------------------------------------------------
\* What ReserveBuffer.update gives up, and keeps, when `in' goes in.
ExcessAndOne(r, in) ==
    IF Len(r.held) + Len(in) >= r.size THEN Len(r.held) + Len(in) - r.size + 1 ELSE 0
Excess(r, in) == IF Len(r.held) + Len(in) > r.size THEN Len(r.held) + Len(in) - r.size ELSE 0
Released(r, in) == SubSeq(r.held \o in, 1, Excess(r, in))
KeptAll(r, in) == [r EXCEPT !.held = @ \o in]
Kept(r, in) == [r EXCEPT !.held = SubSeq(@ \o in, Excess(r, in) + 1, Len(@ \o in))]

\* engineUpdate on the context s and the reserve r: whether it returns, the bytes
\* it returns, and what it leaves behind.  A reserve of no bytes divides by zero.
Passes(s, r, in) ==
    [ok |-> NativeUpdateOk(s, in), out |-> in, ctx |-> NativeUpdate(s, in), reserve |-> r,
     releases |-> NativeUpdateReleases(s, in)]

Nothing(ok, s, r) == [ok |-> ok, out |-> << >>, ctx |-> s, reserve |-> r, releases |-> {}]

EngineUpdate(s, r, in) ==
    IF encrypt THEN Passes(s, r, in)
    ELSE IF r.size = 0 THEN Nothing(FALSE, s, r)
    ELSE Passes(s, Kept(r, in), Released(r, in))

\* engineDoFinal after its engineUpdate returned u.  When encrypting,
EncryptFinal(u) ==
    LET length == algorithmParameterSpec.tag
    IN  [u EXCEPT !.ok = FinishEncryptOk(u.ctx, length), !.ctx = FinishEncrypt(@),
                  !.releases = @ \cup FinishReleases(u.ctx.encrypt)]

\* and when decrypting: the reserve must be full, and is read as the tag.
FullWithMore(u) == Len(u.reserve.held) > algorithmParameterSpec.tag
Full(u) == Len(u.reserve.held) = algorithmParameterSpec.tag

TagIn(held) == IF held = From(sent.msg, Len(held))
               THEN <<<<Key, SentIv>>, ReferenceTag(From(0, sent.aad), From(0, sent.msg))>>
               ELSE NULL

PlaintextAndTag(u) == u.out \o u.reserve.held
Plaintext(u) == u.out

DecryptFinal(u) ==
    LET tag    == TagIn(u.reserve.held)
        length == algorithmParameterSpec.tag
    IN  IF ~Full(u) THEN [u EXCEPT !.ok = FALSE]
        ELSE [u EXCEPT !.ok      = FinishDecryptOk(u.ctx, tag, length),
                       !.out     = Plaintext(u),
                       !.ctx     = FinishDecrypt(@, tag, length),
                       !.reserve = Reserve(@.size),
                       !.releases = @ \cup FinishReleases(~u.ctx.encrypt)]

\* engineUpdate's share of doFinal: the input is NULL when there is none.
DataOfFinal(s, r, in) ==
    IF in = NULL THEN Nothing(TRUE, s, r) ELSE EngineUpdate(s, r, in)

EngineDoFinal(s, r, in) ==
    LET u == DataOfFinal(s, r, in)
    IN  IF ~u.ok THEN u
        ELSE IF encrypt THEN EncryptFinal(u)
        ELSE DecryptFinal(u)

-----------------------------------------------------------------------------
\* What a caller may pass: the bytes that are due next, or another byte.
Inputs == {From(Len(fed), n) : n \in 0 .. MaxFed - Len(fed)} \cup {<<0>>}

\* javax.crypto.Cipher forwards a call only after an init that returned, and
\* forwards no AAD or update of no bytes.
Forwards == initialized /\ ~collected

\* Cipher.updateAAD on n bytes.
UpdateAAD(n) ==
    /\ Forwards
    /\ n > 0 /\ aadFed + n <= MaxAad
    /\ ctx' = NativeUpdateAAD(ctx, From(aadFed, n))
    /\ IF NativeUpdateAADOk(ctx, From(aadFed, n))
       THEN aadFed' = aadFed + n /\ late' = (late \/ fed # << >> \/ finals > 0)
       ELSE UNCHANGED <<aadFed, late>>
    /\ releases' = {1}
    /\ UNCHANGED <<java, allocated, initialized, collected, sent, fed, got, lost, finals,
                   returned, tried, verdict>>

\* The engine leaves its context and reserve as u says; `in' was given to it.
Leaves(u, in) ==
    /\ ctx' = u.ctx
    /\ reserveBuffer' = u.reserve
    /\ releases' = u.releases
    /\ fed' = fed \o in
    /\ UNCHANGED <<algorithmParameterSpec, cipherContext, encrypt, allocated,
                   initialized, collected, sent, aadFed, late>>

\* The caller receives the output, or, with too short an array of its own, a
\* ShortBufferException after everything else was done.
Receives(u, fits) == IF ~u.ok THEN UNCHANGED <<got, lost>>
                     ELSE IF fits THEN got' = got \o u.out /\ UNCHANGED lost
                     ELSE lost' = TRUE /\ UNCHANGED got

\* Cipher.update on the bytes `in'.
UpdateCall(in, fits) ==
    LET u == EngineUpdate(ctx, reserveBuffer, in)
    IN  /\ Forwards
        /\ in # << >> /\ Len(fed) + Len(in) <= MaxFed
        /\ fits \/ u.out # << >>
        /\ Leaves(u, in)
        /\ Receives(u, fits)
        /\ UNCHANGED <<finals, returned, tried, verdict>>

\* What a doFinal that returns ought to have returned, or to have been given.
SealedAll(u) ==
    LET TagsData(data) == u.ctx.gcm_ctx.buf = <<<<Key, algorithmParameterSpec.iv>>,
                                               ReferenceTag(From(0, aadFed), data)>>
    IN  /\ lost' \/ TagsData(got')
        /\ Len(fed') <= MsgLimit => TagsData(fed') /\ (lost' \/ got' = fed')

SentAll == /\ fed = From(0, sent.msg + algorithmParameterSpec.tag)
           /\ aadFed = sent.aad
           /\ algorithmParameterSpec.iv = SentIv

\* Cipher.doFinal on the bytes `in', or on none.
DoFinal(in, fits) ==
    LET u     == EngineDoFinal(ctx, reserveBuffer, in)
        given == IF in = NULL THEN << >> ELSE in
    IN  /\ Forwards
        /\ finals < MaxFinals /\ Len(fed) + Len(given) <= MaxFed
        /\ fits \/ encrypt \/ u.out # << >>
        /\ Leaves(u, given)
        /\ Receives(u, fits)
        /\ finals' = finals + 1
        /\ returned' = IF u.ok THEN returned + 1 ELSE returned
        /\ tried' = (tried \/ encrypt \/ Full(DataOfFinal(ctx, reserveBuffer, in)))
        /\ verdict' = [ok    |-> u.ok,
                       due   |-> IF encrypt THEN SealedAll(u) ELSE SentAll',
                       first |-> ~tried]

\* finalize, when nothing refers to the object any more.
Finalize ==
    /\ ~collected
    /\ collected' = TRUE
    /\ allocated' = allocated \ {cipherContext}
    /\ UNCHANGED <<java, ctx, initialized, sent, ghost>>

Next == \/ \E enc \in BOOLEAN, iv \in Ivs, tag \in TagLengths :
              InitDone(enc, iv, tag) \/ InitThrows(enc, iv, tag)
        \/ InitRefused
        \/ \E n \in 1 .. MaxAad : UpdateAAD(n)
        \/ \E in \in Inputs, fits \in BOOLEAN : UpdateCall(in, fits)
        \/ \E in \in Inputs \cup {NULL}, fits \in BOOLEAN : DoFinal(in, fits)
        \/ Finalize

Spec == Init /\ [][Next]_vars

-----------------------------------------------------------------------------
\* Every field keeps its type, and a reserve never holds more than its size.
TypeOK ==
    /\ algorithmParameterSpec \in [iv : Ivs, tag : TagLengths] \cup {NULL}
    /\ cipherContext \in Addrs \cup {NULL}
    /\ reserveBuffer \in Reserves \cup {NULL}
    /\ reserveBuffer # NULL => Len(reserveBuffer.held) <= reserveBuffer.size
    /\ finals \in 0 .. MaxFinals /\ returned \in 0 .. finals

\* The fields that engineInit assigns one by one agree whenever a call can reach
\* the engine, whatever inits threw or were refused before: the context is
\* allocated, works in the direction the object believes in and under the IV of
\* the spec, and a decrypting object has a reserve of the spec's tag length.
FieldsAgree ==
    Forwards =>
      /\ cipherContext \in allocated
      /\ ctx.encrypt = encrypt /\ ctx.gcm_ctx.encrypt = encrypt
      /\ ctx.gcm_ctx.nonce = <<Key, algorithmParameterSpec.iv>>
      /\ ~encrypt => reserveBuffer # NULL /\ reserveBuffer.size = algorithmParameterSpec.tag

\* Until it is finalized the object never holds the address of a context that
\* was freed, so finalize frees a context that is allocated, once.
HeldContextLives == ~collected /\ cipherContext # NULL => cipherContext \in allocated

\* A decrypting doFinal that returns has been given the sender's AAD, the whole
\* ciphertext and the whole tag, under the sender's IV, and nothing else, over
\* however many calls and after whatever calls that threw.
AcceptedIsAuthentic == ~encrypt /\ verdict.ok => verdict.due

\* And it accepts what the sender sent, however it is cut into calls and even
\* after a doFinal that came too early, when the AAD came first, no tag was
\* compared before and the tag length is one GCM has.
AuthenticIsAccepted ==
    /\ ~encrypt /\ verdict.due /\ verdict.first /\ ~late
    /\ algorithmParameterSpec.tag \in 1 .. B
    => verdict.ok

\* When decrypting doFinal has returned, the caller has the sender's message,
\* every byte of it once, in order and without the tag.
MessageIsWhole ==
    ~encrypt /\ verdict.ok /\ ~lost => got = From(0, sent.msg)

\* An encrypting doFinal that returns has returned all the data it was given, and
\* the tag over all the AAD and all the data.  When that was more than GCM takes, so
\* that a call threw, it is still the tag of what was returned.
SealIsWhole ==
    encrypt /\ verdict.ok => verdict.due

\* update releases an array twice only when the caller goes on after the end (a
\* doFinal of this init has sealed a message, or has returned one) or beyond what GCM
\* takes.  And an array is never released only when the object cannot be called: its
\* init threw.
ArraysReleased ==
    [][/\ 2 \in releases' => \/ IF encrypt THEN finals > 0 ELSE returned > 0
                             \/ Len(fed') > MsgLimit
       /\ 0 \in releases' => ~initialized']_vars

\* After a doFinal has returned, no doFinal returns and no byte is returned until
\* the next init.
OneMessagePerInit ==
    [][returned = 1 /\ returned' # 0 => returned' = 1 /\ got' = got]_vars

\* The object does what SealedMessage promises, of whatever a caller can see of it:
\* what each update hands on, and when, and the one message that ends.
Visible(value, hidden) == IF Forwards THEN value ELSE hidden

Message == INSTANCE SealedMessage WITH
    opening   <- Visible(~encrypt, FALSE),
    size      <- Visible(algorithmParameterSpec, [tag |-> 0]).tag,
    given     <- Visible(fed, << >>),
    passed    <- IF ~Forwards THEN 0
                 ELSE IF encrypt THEN Len(fed)
                 ELSE Len(fed) - Len(reserveBuffer.held),
    out       <- Visible(got, << >>),
    authentic <- Forwards /\ SentAll,
    ended     <- Forwards /\ returned > 0

HandsOnSealedMessage == Message!Spec

\* API-CONVENTIONS.md: "The cleanup function must be called on all codepaths,
\* regardless of success or failure."  So the only context allocated is the one
\* that finalize will destroy.
AllContextsReachable ==
    \A a \in allocated : a = cipherContext /\ ~collected
=============================================================================
