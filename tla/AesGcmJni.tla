----------------------------- MODULE AesGcmJni -----------------------------
(***************************************************************************)
(* The native methods of AesGcmCipher (src/main/cpp/AesGcmCipher.c) on one *)
(* STREAMING_GCM_CTX, the record s of its gcm_ctx and its encrypt flag.    *)
(* Each method is an operator for what it leaves in *s and, named ...Ok,   *)
(* the condition for returning without a Java exception (finishDecrypt:    *)
(* for returning JNI_TRUE).  Those named ...Releases say how often the     *)
(* method calls ReleaseByteArrayElements on an array it was passed: the    *)
(* set of the counts of its arrays.                                        *)
(***************************************************************************)
EXTENDS EvpAesGcm

\* The context initializeCipher returns, when nothing on the way fails.
InitializeCipher(encrypt, key, iv) ==
    [gcm_ctx |-> CipherReInit(CipherInit(encrypt), key, iv, encrypt),
     encrypt |-> encrypt]

\* When malloc fails, initializeCipher returns before it releases key and iv.
InitReleases(malloced) == IF malloced THEN {1} ELSE {0}

\* update: EVP_CipherUpdate with a buffer for the output.
NativeUpdateOk(s, in) == UpdateOk(s.gcm_ctx, "msg", in)
NativeUpdate(s, in) ==
    IF NativeUpdateOk(s, in) THEN [s EXCEPT !.gcm_ctx = Update(@, "msg", in)] ELSE s

\* After an error has been thrown, update falls through to its own end.
NativeUpdateReleases(s, in) == IF NativeUpdateOk(s, in) THEN {1} ELSE {2}

\* updateAAD: EVP_CipherUpdate without one.
NativeUpdateAADOk(s, in) == UpdateOk(s.gcm_ctx, "aad", in)
NativeUpdateAAD(s, in) ==
    IF NativeUpdateAADOk(s, in) THEN [s EXCEPT !.gcm_ctx = Update(@, "aad", in)] ELSE s

\* finishEncrypt: EVP_CipherFinal_ex, then the tag is read.  A tag length that
\* EVP_CTRL_AEAD_GET_TAG refuses is noticed after the message was sealed.
FinishEncrypt(s) == IF s.encrypt THEN [s EXCEPT !.gcm_ctx = Final(@)] ELSE s
FinishEncryptOk(s, tagLength) ==
    s.encrypt /\ FinalOk(s.gcm_ctx) /\ GetTagOk(FinishEncrypt(s).gcm_ctx, tagLength)

\* finishEncrypt, and finishDecrypt, release their array on every way out; called
\* on a context of the other direction they have not asked for it yet.
FinishReleases(rightDirection) == IF rightDirection THEN {1} ELSE {}

\* finishDecrypt: the tag is set, then EVP_CipherFinal_ex compares.
FinishDecrypt(s, tag, tagLength) ==
    IF s.encrypt \/ ~SetTagOk(s.gcm_ctx, tagLength) THEN s
    ELSE [s EXCEPT !.gcm_ctx = Final(SetTag(@, tagLength, tag))]
FinishDecryptOk(s, tag, tagLength) ==
    /\ ~s.encrypt /\ SetTagOk(s.gcm_ctx, tagLength)
    /\ FinalOk(SetTag(s.gcm_ctx, tagLength, tag))
=============================================================================
