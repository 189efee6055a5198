----------------------------- MODULE EvpAesGcm -----------------------------
(***************************************************************************)
(* An EVP_CIPHER_CTX set up for AES-GCM (crypto/fipsmodule/cipher): the    *)
(* generic EVP_Cipher* entry points with the aes_gcm_* functions they call *)
(* through the EVP_CIPHER table.  GCM sets EVP_CIPH_FLAG_CUSTOM_CIPHER and *)
(* EVP_CIPH_ALWAYS_CALL_INIT, so every call goes straight to them.         *)
(*                                                                         *)
(* A context c is a record:                                                *)
(*   encrypt  ctx->encrypt                                                 *)
(*   keySet, ivSet, iv, taglen  key_set, iv_set, *iv and taglen of the     *)
(*            EVP_AES_GCM_CTX; iv is ZeroIv until something is stored      *)
(*   buf      what ctx->buf holds: a tag, NULL for bytes that are no tag's *)
(*   g        the GCM128_CONTEXT                                           *)
(*   nonce    the key and the IV that g runs under                         *)
(* Keys and IVs are names, NULL is the null pointer.  Tags under different *)
(* keys or IVs differ: a tag is the pair of the nonce and the polynomial.  *)
(***************************************************************************)
EXTENDS Gcm128

CONSTANTS NULL, ZeroIv

\* EVP_CIPHER_CTX_init, then EVP_CipherInit_ex with a cipher and no key: a fresh
\* cipher_data is allocated and EVP_CTRL_INIT runs on it.
CipherInit(enc) ==
    [encrypt |-> enc, keySet |-> FALSE, ivSet |-> FALSE, iv |-> ZeroIv,
     taglen |-> -1, buf |-> NULL, g |-> SetIv, nonce |-> <<NULL, NULL>>]

\* EVP_CipherInit_ex without a cipher, through aes_gcm_init_key.
InitKeyStoresIv(c, key, iv) ==
    [c EXCEPT !.keySet = TRUE, !.iv = iv, !.ivSet = TRUE, !.g = SetIv, !.nonce = <<key, iv>>]
InitKey(c, key, iv) ==
    LET used == IF iv # NULL THEN iv ELSE IF c.ivSet THEN c.iv ELSE NULL
    IN  [c EXCEPT !.keySet = TRUE,
                  !.ivSet  = used # NULL \/ @,
                  !.g      = SetIv,
                  !.nonce  = <<key, used>>]

InitIvKeepsRest(c, iv) ==
    IF c.keySet THEN [c EXCEPT !.ivSet = TRUE, !.nonce = <<@[1], iv>>,
                               !.g = [SetIv EXCEPT !.ares = c.g.ares, !.mres = c.g.mres]]
                ELSE [c EXCEPT !.ivSet = TRUE, !.iv = iv]
InitIv(c, iv) ==
    IF c.keySet THEN [c EXCEPT !.ivSet = TRUE, !.g = SetIv, !.nonce = <<@[1], iv>>]
                ELSE [c EXCEPT !.ivSet = TRUE, !.iv = iv]

CipherReInit(c, key, iv, enc) ==
    LET d == [c EXCEPT !.encrypt = enc]
    IN  IF key # NULL THEN InitKey(d, key, iv)
        ELSE IF iv # NULL THEN InitIv(d, iv)
        ELSE d

-----------------------------------------------------------------------------
\* EVP_CipherUpdate, through aes_gcm_cipher: AAD when `out' is NULL, message
\* bytes otherwise.  It returns 1 iff UpdateOk, and then leaves Update.
Ready(c) == c.keySet /\ c.ivSet

UpdateOk(c, kind, in) ==
    Ready(c) /\ IF kind = "aad" THEN AadAccepts(c.g, in) ELSE CryptAccepts(c.g, in)

Update(c, kind, in) ==
    [c EXCEPT !.g = IF kind = "aad" THEN Aad(@, in) ELSE Crypt(@, in)]

\* EVP_CipherFinal_ex, through aes_gcm_cipher with in = NULL.  It returns 1 iff
\* FinalOk, but the context moves on to Final in any case: a tag that does not
\* match has been hashed into by then.
TagOf(c) == <<c.nonce, TagValue(c.g)>>

TagMatches(c) == c.buf = TagOf(c)

FinalOkUnchecked(c) == Ready(c) /\ (c.encrypt \/ c.taglen >= 0)
FinalOk(c) == Ready(c) /\ (c.encrypt \/ (c.taglen >= 0 /\ TagMatches(c)))

SealKeepsIv(c) == [c EXCEPT !.g = Finish(@), !.buf = TagOf(c), !.taglen = B]
Seal(c) == [c EXCEPT !.g = Finish(@), !.buf = TagOf(c), !.taglen = B,
                     !.ivSet = FALSE]

OpenEndsIv(c) == [c EXCEPT !.g = Finish(@), !.ivSet = FALSE]
Open(c) == [c EXCEPT !.g = Finish(@), !.ivSet = ~TagMatches(c)]

Final(c) == IF ~Ready(c) THEN c
            ELSE IF c.encrypt THEN Seal(c)
            ELSE IF c.taglen >= 0 THEN Open(c)
            ELSE c

\* EVP_CIPHER_CTX_ctrl, through aes_gcm_ctrl, with EVP_CTRL_AEAD_SET_TAG and
\* GET_TAG: `arg' bytes of a tag go into, or come from, ctx->buf.
SetTagOk(c, arg) == 0 < arg /\ arg <= B /\ ~c.encrypt
SetTag(c, arg, value) == [c EXCEPT !.buf = value, !.taglen = arg]

GetTagOk(c, arg) == 0 < arg /\ arg <= B /\ c.encrypt /\ c.taglen >= 0
=============================================================================
