------------------------------ MODULE Gcm128 ------------------------------
(***************************************************************************)
(* BoringSSL's streaming GCM (crypto/fipsmodule/modes/gcm.c), as the       *)
(* library drives it: one key, a 12-byte IV, additional data, then message *)
(* bytes, both in calls of any length, then the tag.                       *)
(*                                                                         *)
(* Bytes are names: what is kept of one is where it was placed.  GHASH is  *)
(* linear over its input, so Xi is kept as the set of terms of a           *)
(* polynomial in the hash key H: a term says which byte was xored in at    *)
(* which offset of the block and how many multiplications by H followed.   *)
(* The keystream is kept as the counter block that was encrypted.          *)
(* Parameters: a block has B bytes (16 in the code), the counter CtrMod    *)
(* values (2^32), and at most AadLimit bytes of AAD are taken (2^61).      *)
(***************************************************************************)
EXTENDS Integers, Sequences, FiniteSetsExt

CONSTANTS B, CtrMod, AadLimit

ASSUME GcmAssumption == /\ B \in Nat \ {0}
                        /\ CtrMod \in Nat /\ CtrMod > 2
                        /\ AadLimit \in Nat

\* (1 << 36) - 32 bytes: one block for each of the 2^32 - 2 counters after 1.
MsgNoLimit == B * CtrMod
MsgLimit == B * (CtrMod - 2)

(***************************************************************************)
(* A GCM128_CONTEXT, g, is a record:                                       *)
(*   Yi          the counter in the last 32 bits of the next counter block *)
(*   EKi         the counter whose encrypted block is in use               *)
(*   Xi          the terms of the GHASH polynomial                         *)
(*   lenA, lenM  len.u[0] and len.u[1], in bytes                           *)
(*   ares, mres  the bytes in the open block of AAD, of message            *)
(* and, for the properties only:                                           *)
(*   ks          the keystream byte each message byte was combined with    *)
(*   padAt       the length of the AAD when an open block of it was first  *)
(*               closed (0: never)                                         *)
(***************************************************************************)
-----------------------------------------------------------------------------
\* n bytes of a stream whose bytes are named 1, 2, 3, ...: the next after `after'.
From(after, n) == [i \in 1 .. n |-> after + i]

Term(src, byte, off, pow) == [src |-> src, byte |-> byte, off |-> off, pow |-> pow]

\* What Xi can be.
Terms == [src : {"aad", "msg", "lenA", "lenM", "EK0"}, byte : Nat, off : Nat, pow : Int]
Polynomials == SUBSET Terms

\* GCM_MUL, n times over.
Mul(X, n) == {[t EXCEPT !.pow = @ + n] : t \in X}

\* Bytes in[from .. to] xored into the block from offset `off' on.
XorIn(X, src, in, from, to, off) ==
    SymDiff(X, {Term(src, in[j], off + j - from, 0) : j \in from .. to})

\* GHASH over n whole blocks, the first byte of them in[from].
GHASH(X, src, in, from, n) ==
    SymDiff(Mul(X, n),
            {Term(src, in[from + i], i % B, n - (i \div B)) : i \in 0 .. n * B - 1})

\* How a call splits its input when `res' bytes of a block are open: the head
\* fills up the open block, then come whole blocks, then the tail.
Lead(res, len) == IF res = 0 THEN 0 ELSE Min({B - res, len})
Blocks(res, len) == (len - Lead(res, len)) \div B
Rest(res, len) == len - Lead(res, len) - Blocks(res, len) * B

\* The open block is full after the call's head, and is multiplied in.
ClosesBlock(res, len) == res # 0 /\ res + Lead(res, len) = B

\* The bytes left open after the call.
LeftUnwrapped(res, len) == IF res # 0 THEN res + Lead(res, len) ELSE Rest(res, len)
Left(res, len) == IF res # 0 /\ ~ClosesBlock(res, len)
                  THEN res + Lead(res, len)
                  ELSE Rest(res, len)

\* Xi after the call.
Absorb(X, src, res, in) ==
    LET len    == Len(in)
        head   == Lead(res, len)
        opened == XorIn(X, src, in, 1, head, res)
        closed == IF ClosesBlock(res, len) THEN Mul(opened, 1) ELSE opened
        hashed == GHASH(closed, src, in, head + 1, Blocks(res, len))
    IN  XorIn(hashed, src, in, len - Rest(res, len) + 1, len, 0)

\* The keystream byte for byte j of a call: the head takes what is left of EKi,
\* every later block the next counter.
KeystreamFromStart(g, j, len) ==
    LET head == Lead(g.mres, len)
    IN  IF j < head THEN <<g.EKi, j>>
                    ELSE <<(g.Yi + (j - head) \div B) % CtrMod, (j - head) % B>>
Keystream(g, j, len) ==
    LET head == Lead(g.mres, len)
    IN  IF j < head THEN <<g.EKi, g.mres + j>>
                    ELSE <<(g.Yi + (j - head) \div B) % CtrMod, (j - head) % B>>

-----------------------------------------------------------------------------
\* CRYPTO_gcm128_setiv with a 12-byte IV: the counter starts at 1, which is
\* encrypted into EK0 for the tag, and the message starts at the next.
SetIv == [Yi |-> 2, EKi |-> 0, Xi |-> {}, lenA |-> 0, lenM |-> 0,
          ares |-> 0, mres |-> 0, ks |-> << >>, padAt |-> 0]

\* CRYPTO_gcm128_aad: it refuses AAD once a message byte was taken.
AadAcceptsLate(g, in) == g.lenA + Len(in) <= AadLimit
AadAccepts(g, in) == g.lenM = 0 /\ g.lenA + Len(in) <= AadLimit

Aad(g, in) == [g EXCEPT !.lenA = @ + Len(in),
                        !.Xi   = Absorb(g.Xi, "aad", g.ares, in),
                        !.ares = Left(g.ares, Len(in))]

\* CRYPTO_gcm128_encrypt_ctr32, and decrypt_ctr32: `in' names the bytes that are
\* hashed, the ciphertext, which is the output of the one and the input of the
\* other.  The first call closes the AAD, whatever the call's length.
CryptAccepts(g, in) == g.lenM + Len(in) <= MsgLimit

AadUnclosed(g) == g.Xi
AadClosed(g) == IF g.ares # 0 THEN Mul(g.Xi, 1) ELSE g.Xi

Crypt(g, in) ==
    LET len  == Len(in)
        tail == Rest(g.mres, len) > 0    \* the tail starts one more block
        last == g.Yi + Blocks(g.mres, len)
    IN  [Yi    |-> (IF tail THEN last + 1 ELSE last) % CtrMod,
         EKi   |-> IF tail THEN last % CtrMod ELSE g.EKi,
         Xi    |-> Absorb(AadClosed(g), "msg", g.mres, in),
         lenA  |-> g.lenA,
         lenM  |-> g.lenM + len,
         ares  |-> 0,
         mres  |-> Left(g.mres, len),
         ks    |-> g.ks \o [i \in 1 .. len |-> Keystream(g, i - 1, len)],
         padAt |-> IF g.ares # 0 /\ g.padAt = 0 THEN g.lenA ELSE g.padAt]

\* CRYPTO_gcm128_finish, without and with the comparison: Xi becomes the tag.
Lengths(g) == {Term("lenA", g.lenA, 0, 0), Term("lenM", g.lenM, 1, 0)}
EK0 == {Term("EK0", 1, 0, 0)}
TagValue(g) ==
    LET closed == IF g.mres # 0 \/ g.ares # 0 THEN Mul(g.Xi, 1) ELSE g.Xi
    IN  SymDiff(Mul(SymDiff(closed, Lengths(g)), 1), EK0)

FinishKeepsXi(g) == g
Finish(g) == [g EXCEPT !.Xi = TagValue(g)]

-----------------------------------------------------------------------------
\* Reference: the tag of AAD `a' and ciphertext `c' (NIST SP 800-38D): pad each
\* with zeros to whole blocks, append a block of the two lengths, evaluate the
\* polynomial and mask it with the encrypted first counter block.
CeilDiv(n) == (n + B - 1) \div B
ReferenceTag(a, c) ==
    LET nA == CeilDiv(Len(a))
        n  == nA + CeilDiv(Len(c)) + 1
    IN  {Term("aad", a[i], (i - 1) % B, n - (i - 1) \div B) : i \in DOMAIN a}
        \cup {Term("msg", c[i], (i - 1) % B, n - nA - (i - 1) \div B) : i \in DOMAIN c}
        \cup {Term("lenA", Len(a), 0, 1), Term("lenM", Len(c), 1, 1)}
        \cup {Term("EK0", 1, 0, 0)}

\* An AAD call was accepted after an open block of AAD had been closed.
AadSplit(g) == g.padAt # 0 /\ g.lenA > g.padAt
=============================================================================
