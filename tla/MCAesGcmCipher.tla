--------------------------- MODULE MCAesGcmCipher ---------------------------
(***************************************************************************)
(* AesGcmCipher for TLC.  States that differ only in what no later call    *)
(* can read are explored once: until the next init that returns, nothing   *)
(* reads the context, the reserve or what was given, and while encrypting  *)
(* nothing reads the reserve.                                              *)
(***************************************************************************)
EXTENDS AesGcmCipher, TLC

\* Nothing depends on which address malloc returns.
AddrSymmetry == Permutations(Addrs)

StateView ==
    <<initialized, collected, sent, allocated, cipherContext,
      IF ~Forwards THEN << >>
      ELSE <<encrypt, algorithmParameterSpec, ctx, ghost,
             IF encrypt THEN NULL ELSE reserveBuffer>> >>
=============================================================================
