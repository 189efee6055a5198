----------------------------- MODULE Gcm128Proofs -----------------------------
(***************************************************************************)
(* Lemmas about the operators of Gcm128, for any GCM128_CONTEXT g and any  *)
(* bytes, for every block size, counter width and limit.  The modules of   *)
(* proofs about what uses a context rest on them.                          *)
(*                                                                         *)
(* Order(g): the counters of a context are functions of how many message   *)
(* bytes it took.  Hashed(g, a, m): its Xi is the polynomial of the AAD a  *)
(* and the message m, however they were cut into calls.  Spoiled(g): Xi    *)
(* holds a term that no later call takes out and no reference tag has.     *)
(***************************************************************************)
EXTENDS Gcm128, SequenceTheorems, TLAPS

-----------------------------------------------------------------------------
\* Arithmetic with a divisor that is not a number but a constant.

LEMMA DivMod ==
    ASSUME NEW n \in Nat
    PROVE  /\ n \div B \in Nat /\ n % B \in 0 .. B - 1
           /\ n = (n \div B) * B + (n % B)
BY GcmAssumption

LEMMA DivModUnique ==
    ASSUME NEW q \in Nat, NEW r \in 0 .. B - 1
    PROVE  /\ (q * B + r) \div B = q
           /\ (q * B + r) % B = r
BY GcmAssumption

LEMMA CtrDivMod ==
    ASSUME NEW n \in Nat
    PROVE  /\ n \div CtrMod \in Nat /\ n % CtrMod \in 0 .. CtrMod - 1
           /\ n = (n \div CtrMod) * CtrMod + (n % CtrMod)
BY GcmAssumption

LEMMA CtrDivModUnique ==
    ASSUME NEW q \in Nat, NEW r \in 0 .. CtrMod - 1
    PROVE  /\ (q * CtrMod + r) \div CtrMod = q
           /\ (q * CtrMod + r) % CtrMod = r
BY GcmAssumption

LEMMA CtrModAdd ==
    ASSUME NEW a \in Nat, NEW x \in Nat
    PROVE  /\ a % CtrMod \in 0 .. CtrMod - 1
           /\ ((a % CtrMod) + x) % CtrMod = (a + x) % CtrMod
           /\ a < CtrMod => a % CtrMod = a
<1> DEFINE d == a \div CtrMod
           t == a % CtrMod
           e == (t + x) \div CtrMod
           u == (t + x) % CtrMod
<1>1. CtrMod \in Nat /\ CtrMod > 0
    BY GcmAssumption
<1>2. d \in Nat /\ t \in 0 .. CtrMod - 1 /\ a = d * CtrMod + t
    BY CtrDivMod
<1>3. t + x \in Nat
    BY <1>1, <1>2
<1> HIDE DEF d, t
<1>4. e \in Nat /\ u \in 0 .. CtrMod - 1 /\ t + x = e * CtrMod + u
    BY <1>3, CtrDivMod
<1> HIDE DEF e, u
<1>5. a + x = (d + e) * CtrMod + u
    <2>1. (d + e) * CtrMod = d * CtrMod + e * CtrMod
        BY <1>1, <1>2, <1>4
    <2>2. d * CtrMod \in Nat /\ e * CtrMod \in Nat
        BY <1>1, <1>2, <1>4
    <2> QED BY <1>1, <1>2, <1>4, <2>1, <2>2
<1>6. (a + x) % CtrMod = u
    <2>1. d + e \in Nat
        BY <1>2, <1>4
    <2> QED BY <1>4, <1>5, <2>1, CtrDivModUnique
<1>7. ASSUME a < CtrMod PROVE t = a
    <2>1. 0 * CtrMod + a = a /\ a \in 0 .. CtrMod - 1
        BY <1>1, <1>7
    <2> QED BY <2>1, CtrDivModUnique DEF t
<1> QED BY <1>2, <1>6, <1>7 DEF t, u

LEMMA CeilDivIs ==
    ASSUME NEW n \in Nat
    PROVE  CeilDiv(n) = IF n % B = 0 THEN n \div B ELSE (n \div B) + 1
<1> DEFINE q == n \div B
           r == n % B
<1>1. q \in Nat /\ r \in 0 .. B - 1 /\ n = q * B + r /\ B \in Nat /\ B > 0
    BY DivMod, GcmAssumption
<1> HIDE DEF q, r
<1>2. CASE r = 0
    <2>1. n + B - 1 = q * B + (B - 1) /\ B - 1 \in 0 .. B - 1
        BY <1>1, <1>2
    <2>2. (n + B - 1) \div B = q
        BY <1>1, <2>1, DivModUnique
    <2> QED BY <1>2, <2>2 DEF CeilDiv, q, r
<1>3. CASE r # 0
    <2>1. n + B - 1 = (q + 1) * B + (r - 1) /\ r - 1 \in 0 .. B - 1 /\ q + 1 \in Nat
        BY <1>1, <1>3
    <2>2. (n + B - 1) \div B = q + 1
        BY <2>1, DivModUnique
    <2> QED BY <1>3, <2>2 DEF CeilDiv, q, r
<1> QED BY <1>2, <1>3

LEMMA LeadIs ==
    ASSUME NEW res \in 0 .. B - 1, NEW len \in Nat
    PROVE  Lead(res, len) = IF res = 0 THEN 0 ELSE IF len < B - res THEN len ELSE B - res
<1>1. CASE res = 0
    BY <1>1 DEF Lead
<1>2. CASE res # 0
    <2> DEFINE m == IF len < B - res THEN len ELSE B - res
    <2>1. m \in {B - res, len} /\ \A y \in {B - res, len} : m =< y
        BY <1>2, GcmAssumption
    <2>2. \A x \in {B - res, len} : (\A y \in {B - res, len} : x =< y) => x = m
        BY <2>1, GcmAssumption
    <2>3. Min({B - res, len}) = m
        BY <2>1, <2>2 DEF Min
    <2> QED BY <1>2, <2>3 DEF Lead
<1> QED BY <1>1, <1>2

\* The bytes and the blocks of a call that finds m bytes taken before it.
Cut(m, n) ==
    LET r == m % B
    IN  /\ Lead(r, n) \in 0 .. n
        /\ Blocks(r, n) \in Nat
        /\ Rest(r, n) \in Nat
        /\ Left(r, n) = (m + n) % B
        /\ CeilDiv(m + n) = CeilDiv(m) + Blocks(r, n) + (IF Rest(r, n) > 0 THEN 1 ELSE 0)
        /\ Rest(r, n) > 0 => (m + n) \div B = CeilDiv(m) + Blocks(r, n)
        /\ Rest(r, n) = 0 /\ (m + n) % B # 0 => r # 0 /\ (m + n) \div B = m \div B

LEMMA CutHolds ==
    ASSUME NEW m \in Nat, NEW n \in Nat
    PROVE  Cut(m, n)
<1> DEFINE q == m \div B
           r == m % B
           k == n - Lead(r, n)
<1>1. /\ q \in Nat /\ r \in 0 .. B - 1 /\ m = q * B + r /\ B \in Nat /\ B > 0
    BY DivMod, GcmAssumption
<1>2. CeilDiv(m) = (IF r = 0 THEN q ELSE q + 1)
    BY CeilDivIs
<1>3. Lead(r, n) = IF r = 0 THEN 0 ELSE IF n < B - r THEN n ELSE B - r
    BY <1>1, LeadIs
<1>4. CeilDiv(m + n) = IF (m + n) % B = 0 THEN (m + n) \div B ELSE ((m + n) \div B) + 1
    BY CeilDivIs
<1> HIDE DEF q, r
<1>5. k \in Nat /\ Lead(r, n) \in 0 .. n
    BY <1>1, <1>3
<1>6. /\ Blocks(r, n) = k \div B
      /\ Rest(r, n) = k - (k \div B) * B
    BY DEF Blocks, Rest
<1> HIDE DEF k
<1>7. /\ Blocks(r, n) \in Nat /\ Rest(r, n) \in 0 .. B - 1
      /\ Rest(r, n) = k % B /\ k = Blocks(r, n) * B + Rest(r, n)
    BY <1>1, <1>5, <1>6, DivMod
<1>8. CASE r = 0 \/ n >= B - r
    <2> DEFINE c == IF r = 0 THEN q ELSE q + 1
    <2>1. /\ c \in Nat
          /\ m + n = (c + Blocks(r, n)) * B + Rest(r, n)
          /\ c + Blocks(r, n) \in Nat
        <3> DEFINE b == Blocks(r, n)
        <3>1. c \in Nat /\ b \in Nat /\ c * B = (IF r = 0 THEN q * B ELSE q * B + B)
            BY <1>1, <1>7
        <3>2. m + n = c * B + k
            BY <1>1, <1>3, <1>8, <3>1 DEF k
        <3> HIDE DEF b, c
        <3>3. (c + b) * B = c * B + b * B /\ c * B \in Nat /\ b * B \in Nat
            BY <1>1, <3>1
        <3>4. k = b * B + Rest(r, n)
            BY <1>7 DEF b
        <3>5. m + n = (c + b) * B + Rest(r, n)
            BY <1>7, <3>2, <3>3, <3>4
        <3> QED BY <3>1, <3>5 DEF b
    <2>2. (m + n) \div B = c + Blocks(r, n) /\ (m + n) % B = Rest(r, n)
        BY <1>7, <2>1, DivModUnique
    <2>3. Left(r, n) = Rest(r, n)
        BY <1>1, <1>3, <1>8 DEF Left, ClosesBlock
    <2> QED BY <1>2, <1>4, <1>5, <1>7, <2>1, <2>2, <2>3 DEF Cut, r
<1>9. CASE r # 0 /\ n < B - r
    <2>1. m + n = q * B + (r + n) /\ r + n \in 1 .. B - 1
        BY <1>1, <1>9
    <2>2. (m + n) \div B = q /\ (m + n) % B = r + n
        BY <1>1, <2>1, DivModUnique
    <2>3. k = 0
        BY <1>3, <1>9 DEF k
    <2>4. Blocks(r, n) = 0 /\ Rest(r, n) = 0
        BY <1>1, <1>6, <2>3
    <2>5. Left(r, n) = r + n
        BY <1>1, <1>3, <1>9 DEF Left, ClosesBlock
    <2> QED BY <1>1, <1>2, <1>4, <1>5, <1>9, <2>1, <2>2, <2>4, <2>5 DEF Cut, r, q
<1> QED BY <1>1, <1>8, <1>9

\* Where the bytes of that call lie: byte j of its n is byte m + j of all.
LEMMA ByteOfCall ==
    ASSUME NEW m \in Nat, NEW n \in Nat, NEW j \in 0 .. n - 1
    PROVE  LET h == Lead(m % B, n)
           IN  /\ j < h => (m + j) \div B = m \div B /\ (m + j) % B = (m % B) + j
               /\ j >= h => /\ (m + j) \div B = CeilDiv(m) + ((j - h) \div B)
                            /\ (m + j) % B = (j - h) % B
               /\ j < h => m % B # 0
<1> DEFINE q == m \div B
           r == m % B
           h == Lead(r, n)
<1>1. q \in Nat /\ r \in 0 .. B - 1 /\ m = q * B + r /\ B \in Nat /\ B > 0
    BY DivMod, GcmAssumption
<1>2. CeilDiv(m) = (IF r = 0 THEN q ELSE q + 1)
    BY CeilDivIs
<1>3. h = IF r = 0 THEN 0 ELSE IF n < B - r THEN n ELSE B - r
    BY <1>1, LeadIs
<1> HIDE DEF q, r, h
<1>4. CASE j < h
    <2>1. m + j = q * B + (r + j) /\ r + j \in 0 .. B - 1 /\ r # 0
        BY <1>1, <1>3, <1>4
    <2>2. (m + j) \div B = q /\ (m + j) % B = r + j
        BY <1>1, <2>1, DivModUnique
    <2> QED BY <1>1, <1>3, <1>4, <2>1, <2>2 DEF q, r, h
<1>5. CASE j >= h
    <2> DEFINE c == IF r = 0 THEN q ELSE q + 1
               i == j - h
    <2>1. c \in Nat /\ i \in Nat /\ c * B = (IF r = 0 THEN q * B ELSE q * B + B)
        BY <1>1, <1>3, <1>5
    <2>2. m + j = c * B + i
        BY <1>1, <1>3, <1>5, <2>1
    <2> HIDE DEF c, i
    <2> DEFINE b == i \div B
               x == i % B
    <2>3. b \in Nat /\ x \in 0 .. B - 1 /\ i = b * B + x
        BY <2>1, DivMod
    <2> HIDE DEF b, x
    <2>4. (c + b) * B = c * B + b * B /\ c * B \in Nat /\ b * B \in Nat /\ c + b \in Nat
        BY <1>1, <2>1, <2>3
    <2>5. m + j = (c + b) * B + x
        BY <2>2, <2>3, <2>4
    <2>6. (m + j) \div B = c + b /\ (m + j) % B = x
        BY <2>3, <2>4, <2>5, DivModUnique
    <2> QED BY <1>1, <1>2, <1>3, <1>5, <2>6 DEF q, r, h, c, i, b, x
<1>6. j < h \/ j >= h
    BY <1>1, <1>3
<1> QED BY <1>4, <1>5, <1>6 DEF h, r

\* What the length check is worth: the counter of a byte that was taken has not
\* wrapped.
LEMMA CounterOfByte ==
    ASSUME NEW n \in Nat, n < MsgLimit
    PROVE  2 + (n \div B) \in 2 .. CtrMod - 1
<1> DEFINE q == n \div B
           r == n % B
<1>1. q \in Nat /\ r \in 0 .. B - 1 /\ n = q * B + r /\ B \in Nat /\ B > 0
    BY DivMod, GcmAssumption
<1>2. CtrMod \in Nat /\ CtrMod > 2
    BY GcmAssumption
<1> HIDE DEF q, r
<1>3. q < CtrMod - 2
    <2> SUFFICES ASSUME q >= CtrMod - 2 PROVE FALSE
        BY <1>1, <1>2
    <2>1. PICK d \in Nat : q = (CtrMod - 2) + d
        <3>1. q = (CtrMod - 2) + (q - (CtrMod - 2)) /\ q - (CtrMod - 2) \in Nat
            BY <1>1, <1>2
        <3> QED BY <3>1
    <2>2. q * B = B * (CtrMod - 2) + d * B /\ d * B \in Nat /\ B * (CtrMod - 2) \in Nat
        BY <1>1, <1>2, <2>1
    <2> QED BY <1>1, <2>2 DEF MsgLimit
<1> QED BY <1>1, <1>2, <1>3 DEF q

LEMMA LimitIsNat == MsgLimit \in Nat
<1>1. B \in Nat /\ CtrMod - 2 \in Nat
    BY GcmAssumption
<1> QED BY <1>1 DEF MsgLimit
LEMMA CeilDivNat == ASSUME NEW n \in Nat PROVE CeilDiv(n) \in Nat
BY CeilDivIs, DivMod

LEMMA ZeroDivMod == 0 \div B = 0 /\ 0 % B = 0
<1>1. 0 = 0 * B + 0 /\ 0 \in 0 .. B - 1 /\ 0 \in Nat
    BY GcmAssumption
<1> QED BY <1>1, DivModUnique

LEMMA ResidueDivMod == ASSUME NEW r \in 0 .. B - 1 PROVE r \in Nat /\ r \div B = 0 /\ r % B = r
<1>1. r = 0 * B + r /\ r \in Nat /\ 0 \in Nat
    BY GcmAssumption
<1> QED BY <1>1, DivModUnique

-----------------------------------------------------------------------------
\* What the calls do to the fields of a context.
IsGcm(g) == DOMAIN g = {"Yi", "EKi", "Xi", "lenA", "lenM", "ares", "mres", "ks", "padAt"}

LEMMA SetIvIs == IsGcm(SetIv)
BY DEF IsGcm, SetIv

LEMMA AadIs ==
    ASSUME NEW g, IsGcm(g), NEW in
    PROVE  LET d == Aad(g, in)
           IN  /\ IsGcm(d)
               /\ d.lenA = g.lenA + Len(in) /\ d.ares = Left(g.ares, Len(in))
               /\ d.Xi = Absorb(g.Xi, "aad", g.ares, in)
               /\ d.Yi = g.Yi /\ d.EKi = g.EKi /\ d.lenM = g.lenM /\ d.mres = g.mres
               /\ d.ks = g.ks /\ d.padAt = g.padAt
<1> DEFINE X == Absorb(g.Xi, "aad", g.ares, in)
           n == g.lenA + Len(in)
           a == Left(g.ares, Len(in))
<1>1. Aad(g, in) = [g EXCEPT !.lenA = n, !.Xi = X, !.ares = a]
    BY DEF Aad
<1> HIDE DEF X, n, a
<1>2. LET d == Aad(g, in)
      IN  /\ IsGcm(d)
          /\ d.lenA = n /\ d.ares = a /\ d.Xi = X
          /\ d.Yi = g.Yi /\ d.EKi = g.EKi /\ d.lenM = g.lenM /\ d.mres = g.mres
          /\ d.ks = g.ks /\ d.padAt = g.padAt
    BY <1>1 DEF IsGcm
<1> QED BY <1>2 DEF X, n, a

\* After message bytes an open block of AAD is closed.
PadAfter(g) == IF g.ares # 0 /\ g.padAt = 0 THEN g.lenA ELSE g.padAt
LastCounter(g, n) == g.Yi + Blocks(g.mres, n)
KeystreamOf(g, n) == [i \in 1 .. n |-> Keystream(g, i - 1, n)]

LEMMA CryptIs ==
    ASSUME NEW g, NEW in, NEW n, n = Len(in)
    PROVE  LET d    == Crypt(g, in)
               tail == Rest(g.mres, n) > 0
               last == LastCounter(g, n)
           IN  /\ IsGcm(d)
               /\ d.Yi = (IF tail THEN last + 1 ELSE last) % CtrMod
               /\ d.EKi = (IF tail THEN last % CtrMod ELSE g.EKi)
               /\ d.Xi = Absorb(AadClosed(g), "msg", g.mres, in)
               /\ d.lenA = g.lenA /\ d.lenM = g.lenM + n
               /\ d.ares = 0 /\ d.mres = Left(g.mres, n)
               /\ d.ks = g.ks \o KeystreamOf(g, n) /\ d.padAt = PadAfter(g)
<1> DEFINE X == Absorb(AadClosed(g), "msg", g.mres, in)
           last == LastCounter(g, n)
           L == Left(g.mres, n)
           Y == (IF Rest(g.mres, n) > 0 THEN last + 1 ELSE last) % CtrMod
           E == IF Rest(g.mres, n) > 0 THEN last % CtrMod ELSE g.EKi
           K == g.ks \o KeystreamOf(g, n)
           P == PadAfter(g)
           m == g.lenM + n
<1>1. Crypt(g, in) = [Yi |-> Y, EKi |-> E, Xi |-> X, lenA |-> g.lenA, lenM |-> m,
                      ares |-> 0, mres |-> L, ks |-> K, padAt |-> P]
    BY Zenon DEF Crypt, LastCounter, PadAfter, KeystreamOf
<1> HIDE DEF X, last, L, Y, E, K, P, m
<1>2. LET d == Crypt(g, in)
      IN  /\ IsGcm(d) /\ d.Yi = Y /\ d.EKi = E /\ d.Xi = X /\ d.lenA = g.lenA /\ d.lenM = m
          /\ d.ares = 0 /\ d.mres = L /\ d.ks = K /\ d.padAt = P
    BY <1>1 DEF IsGcm
<1> QED BY <1>2 DEF X, last, L, Y, E, K, P, m

LEMMA FinishIs ==
    ASSUME NEW g, IsGcm(g)
    PROVE  LET d == Finish(g)
           IN  /\ IsGcm(d) /\ d.Xi = TagValue(g)
               /\ d.Yi = g.Yi /\ d.EKi = g.EKi /\ d.lenA = g.lenA /\ d.lenM = g.lenM
               /\ d.ares = g.ares /\ d.mres = g.mres /\ d.ks = g.ks /\ d.padAt = g.padAt
<1> DEFINE X == TagValue(g)
<1>1. Finish(g) = [g EXCEPT !.Xi = X]
    BY DEF Finish
<1> HIDE DEF X
<1>2. LET d == Finish(g)
      IN  /\ IsGcm(d) /\ d.Xi = X
          /\ d.Yi = g.Yi /\ d.EKi = g.EKi /\ d.lenA = g.lenA /\ d.lenM = g.lenM
          /\ d.ares = g.ares /\ d.mres = g.mres /\ d.ks = g.ks /\ d.padAt = g.padAt
    BY <1>1 DEF IsGcm
<1> QED BY <1>2 DEF X

-----------------------------------------------------------------------------
\* The keystream byte that byte i of the message (from 1) must meet.
InOrder(i) == <<2 + ((i - 1) \div B), (i - 1) % B>>

\* A GCM128_CONTEXT after lenM bytes of message, however they were cut.
Fields(g) == /\ IsGcm(g)
             /\ g.lenM \in 0 .. MsgLimit
             /\ g.mres = g.lenM % B
             /\ g.ks = [i \in 1 .. g.lenM |-> InOrder(i)]

Counters(g) == /\ g.Yi = (2 + CeilDiv(g.lenM)) % CtrMod
               /\ g.EKi \in 0 .. CtrMod - 1
               /\ g.mres # 0 => g.EKi = 2 + (g.lenM \div B)

AadFields(g) == /\ g.lenA \in 0 .. AadLimit
                /\ g.ares \in 0 .. B - 1
                /\ g.padAt \in Nat

Order(g) == Fields(g) /\ Counters(g) /\ AadFields(g)

\* A context whose IV was just set.
LEMMA FreshOrder == Order(SetIv)
<1>1. B \in Nat /\ B > 0 /\ CtrMod \in Nat /\ CtrMod > 2 /\ AadLimit \in Nat
    BY GcmAssumption
<1>2. CeilDiv(0) = 0
    BY ZeroDivMod, CeilDivIs
<1>3. 2 % CtrMod = 2
    BY <1>1, CtrModAdd
<1>4. SetIv.ks = [i \in 1 .. 0 |-> InOrder(i)]
    BY DEF SetIv
<1>5. Fields(SetIv)
    BY <1>1, <1>4, ZeroDivMod, SetIvIs, LimitIsNat DEF Fields, SetIv
<1>6. Counters(SetIv)
    BY <1>1, <1>2, <1>3 DEF Counters, SetIv
<1>7. AadFields(SetIv)
    BY <1>1 DEF AadFields, SetIv
<1> QED BY <1>5, <1>6, <1>7 DEF Order

\* CRYPTO_gcm128_aad leaves the message fields alone.
LEMMA AadKeepsOrder ==
    ASSUME NEW g, Order(g), NEW in, Len(in) \in Nat, AadAccepts(g, in)
    PROVE  Order(Aad(g, in))
<1> DEFINE d == Aad(g, in)
           n == Len(in)
           a == Left(g.ares, n)
<1>1. g.ares \in 0 .. B - 1 /\ g.lenA \in 0 .. AadLimit /\ IsGcm(g)
    BY DEF Order, AadFields, Fields
<1>2. a \in 0 .. B - 1
    <2>1. g.ares \in Nat /\ g.ares % B = g.ares
        BY <1>1, ResidueDivMod
    <2>2. a = (g.ares + n) % B
        <3>1. Cut(g.ares, n)
            BY <2>1, CutHolds
        <3> QED BY <2>1, <3>1 DEF Cut
    <2>3. g.ares + n \in Nat
        BY <2>1
    <2> QED BY <2>2, <2>3, DivMod
<1>3. /\ IsGcm(d) /\ d.lenA = g.lenA + n /\ d.ares = a
      /\ d.Yi = g.Yi /\ d.EKi = g.EKi /\ d.lenM = g.lenM /\ d.mres = g.mres /\ d.ks = g.ks
      /\ d.padAt = g.padAt
    BY <1>1, AadIs
<1>4. g.lenA + n <= AadLimit
    BY DEF AadAccepts
<1> HIDE DEF d, a
<1>5. Fields(d) /\ Counters(d)
    BY <1>3 DEF Order, Fields, Counters
<1>6. AadFields(d)
    BY <1>1, <1>2, <1>3, <1>4, GcmAssumption DEF Order, AadFields
<1> QED BY <1>5, <1>6 DEF Order, d

\* CRYPTO_gcm128_finish changes Xi only.
LEMMA FinishKeepsOrder ==
    ASSUME NEW g, Order(g)
    PROVE  Order(Finish(g))
<1> DEFINE d == Finish(g)
<1>1. /\ IsGcm(d) /\ d.lenA = g.lenA /\ d.ares = g.ares
      /\ d.Yi = g.Yi /\ d.EKi = g.EKi /\ d.lenM = g.lenM /\ d.mres = g.mres /\ d.ks = g.ks
      /\ d.padAt = g.padAt
    BY FinishIs DEF Order, Fields
<1> HIDE DEF d
<1> QED BY <1>1 DEF Order, Fields, Counters, AadFields, d

\* The keystream a call uses continues that of the calls before it.
LEMMA CallMeetsOrder ==
    ASSUME NEW g, Order(g), NEW n \in Nat, g.lenM + n <= MsgLimit, NEW j \in 0 .. n - 1
    PROVE  Keystream(g, j, n) = InOrder(g.lenM + j + 1)
<1> DEFINE m == g.lenM
           h == Lead(m % B, n)
<1>1. m \in Nat /\ MsgLimit \in Nat
    BY LimitIsNat DEF Order, Fields
<1>2. g.mres = m % B /\ g.Yi = (2 + CeilDiv(m)) % CtrMod
    BY DEF Order, Fields, Counters
<1>3. g.mres # 0 => g.EKi = 2 + (m \div B)
    BY DEF Order, Counters
<1>4. m + j \in Nat /\ m + j < MsgLimit
    BY <1>1
<1>5. 2 + ((m + j) \div B) \in 2 .. CtrMod - 1
    BY <1>4, CounterOfByte
<1>6. InOrder(m + j + 1) = <<2 + ((m + j) \div B), (m + j) % B>>
    <2>1. (m + j + 1) - 1 = m + j
        BY <1>1
    <2> QED BY <2>1 DEF InOrder
<1>7. h \in 0 .. n
    BY <1>1, CutHolds DEF Cut
<1>8. Keystream(g, j, n) = IF j < h THEN <<g.EKi, g.mres + j>>
                           ELSE <<(g.Yi + ((j - h) \div B)) % CtrMod, (j - h) % B>>
    BY <1>2 DEF Keystream
<1> HIDE DEF m
<1>9. CASE j < h
    <2>1. /\ (m + j) \div B = m \div B
          /\ (m + j) % B = (m % B) + j
          /\ m % B # 0
        BY <1>1, <1>9, ByteOfCall
    <2> QED BY <1>2, <1>3, <1>6, <1>8, <1>9, <2>1 DEF m
<1>10. CASE j >= h
    <2> DEFINE x == (j - h) \div B
    <2>1. (m + j) \div B = CeilDiv(m) + x /\ (m + j) % B = (j - h) % B
        BY <1>1, <1>10, ByteOfCall
    <2>2. x \in Nat /\ CeilDiv(m) \in Nat
        BY <1>1, <1>7, <1>10, DivMod, CeilDivNat
    <2> HIDE DEF x
    <2>3. (g.Yi + x) % CtrMod = (2 + CeilDiv(m) + x) % CtrMod
        BY <1>2, <2>2, CtrModAdd
    <2>4. 2 + CeilDiv(m) + x = 2 + ((m + j) \div B)
        BY <2>1, <2>2
    <2>5. (2 + ((m + j) \div B)) % CtrMod = 2 + ((m + j) \div B)
        <3> DEFINE y == 2 + ((m + j) \div B)
        <3>1. y \in Nat /\ y < CtrMod
            BY <1>5, GcmAssumption
        <3> HIDE DEF y
        <3>2. y % CtrMod = y
            BY <3>1, CtrModAdd
        <3> QED BY <3>2 DEF y
    <2>6. ~(j < h)
        BY <1>7, <1>10
    <2>7. (g.Yi + x) % CtrMod = 2 + ((m + j) \div B)
        BY <2>3, <2>4, <2>5
    <2>8. Keystream(g, j, n) = <<(g.Yi + x) % CtrMod, (j - h) % B>>
        BY <1>8, <2>6 DEF x
    <2>9. Keystream(g, j, n) = <<2 + ((m + j) \div B), (m + j) % B>>
        BY <2>1, <2>7, <2>8
    <2> QED BY <1>6, <2>9 DEF m
<1>11. j < h \/ j >= h
    BY <1>7
<1> QED BY <1>9, <1>10, <1>11 DEF m

\* CRYPTO_gcm128_encrypt_ctr32 and decrypt_ctr32: where the counters stand after
\* a call.
LEMMA CryptKeepsOrder ==
    ASSUME NEW g, Order(g), NEW in, Len(in) \in Nat, CryptAccepts(g, in)
    PROVE  Order(Crypt(g, in))
<1> DEFINE m == g.lenM
           n == Len(in)
           f == Crypt(g, in)
           tail == Rest(g.mres, n) > 0
           last == g.Yi + Blocks(g.mres, n)
           more == KeystreamOf(g, n)
<1>1. n \in Nat
    OBVIOUS
<1>2. m + n <= MsgLimit
    BY DEF CryptAccepts
<1>3. /\ IsGcm(f)
      /\ f.Yi = (IF tail THEN last + 1 ELSE last) % CtrMod
      /\ f.EKi = (IF tail THEN last % CtrMod ELSE g.EKi)
      /\ f.lenA = g.lenA /\ f.ares = 0
      /\ f.lenM = m + n /\ f.mres = Left(g.mres, n)
      /\ f.ks = g.ks \o more /\ f.padAt = PadAfter(g)
    <2>1. n = Len(in)
        OBVIOUS
    <2>2. LastCounter(g, n) = last
        BY DEF LastCounter
    <2> HIDE DEF f, n, last, more
    <2> QED BY <2>1, <2>2, CryptIs DEF f, more
<1>4. m \in Nat /\ n \in Nat /\ MsgLimit \in Nat /\ g.mres = m % B
    BY <1>1, LimitIsNat DEF Order, Fields
<1>5. Cut(m, n)
    BY <1>4, CutHolds
<1>6. /\ Blocks(g.mres, n) \in Nat /\ Rest(g.mres, n) \in Nat
      /\ Left(g.mres, n) = (m + n) % B
      /\ CeilDiv(m + n) = CeilDiv(m) + Blocks(g.mres, n) + (IF tail THEN 1 ELSE 0)
      /\ tail => (m + n) \div B = CeilDiv(m) + Blocks(g.mres, n)
      /\ ~tail /\ (m + n) % B # 0 => g.mres # 0 /\ (m + n) \div B = m \div B
    BY <1>4, <1>5 DEF Cut
<1>7. CeilDiv(m) \in Nat /\ g.Yi = (2 + CeilDiv(m)) % CtrMod
    BY <1>4, CeilDivNat DEF Order, Counters
<1> DEFINE b == Blocks(g.mres, n)
           c == CeilDiv(m)
<1> HIDE DEF f, n, m, tail, more, b, c
<1>8. Fields(f)
    <2>1. f.ks = [i \in 1 .. m + n |-> InOrder(i)]
        <3>1. g.ks = [i \in 1 .. m |-> InOrder(i)]
            BY DEF Order, Fields, m
        <3>2. more = [i \in 1 .. n |-> InOrder(m + i)]
            <4>1. ASSUME NEW i \in 1 .. n PROVE Keystream(g, i - 1, n) = InOrder(m + i)
                <5>1. i - 1 \in 0 .. n - 1 /\ m + (i - 1) + 1 = m + i
                    BY <1>4
                <5>2. Keystream(g, i - 1, n) = InOrder(m + (i - 1) + 1)
                    BY <1>2, <1>4, <5>1, CallMeetsOrder DEF m
                <5> QED BY <5>1, <5>2
            <4> QED BY <4>1 DEF more, KeystreamOf
        <3>3. Len(g.ks) = m /\ Len(more) = n
            BY <1>4, <3>1, <3>2
        <3> QED BY <1>3, <1>4, <3>1, <3>2, <3>3
    <2>2. f.mres = (m + n) % B /\ f.lenM = m + n
        BY <1>3, <1>6 DEF m
    <2> QED BY <1>1, <1>2, <1>3, <1>4, <2>1, <2>2 DEF Fields
<1>9. Counters(f)
    <2> DEFINE y == 2 + c
    <2>0. c \in Nat /\ b \in Nat /\ y \in Nat /\ g.Yi = y % CtrMod
        BY <1>6, <1>7 DEF b, c
    <2>1. c \in Nat /\ b \in Nat /\ g.Yi \in Nat /\ CtrMod \in Nat
        <3> HIDE DEF y
        <3>1. y % CtrMod \in Nat
            BY <2>0, CtrDivMod
        <3> QED BY <2>0, <3>1, GcmAssumption
    <2>2. (g.Yi + b) % CtrMod = (2 + c + b) % CtrMod
        <3> HIDE DEF y
        <3>1. (g.Yi + b) % CtrMod = (y + b) % CtrMod
            BY <2>0, CtrModAdd
        <3> QED BY <3>1 DEF y
    <2>3. (g.Yi + (b + 1)) % CtrMod = (2 + c + (b + 1)) % CtrMod
        <3> HIDE DEF y
        <3> DEFINE x == b + 1
        <3>1. x \in Nat
            BY <2>0
        <3> HIDE DEF x
        <3>2. (g.Yi + x) % CtrMod = (y + x) % CtrMod
            BY <2>0, <3>1, CtrModAdd
        <3> QED BY <3>2 DEF x, y
    <2> HIDE DEF y
    <2>4. f.lenM = m + n /\ f.mres = (m + n) % B
        BY <1>3, <1>6 DEF m
    <2>5. f.Yi = (2 + CeilDiv(m + n)) % CtrMod
        <3>1. CASE tail
            <4>1. f.Yi = (g.Yi + (b + 1)) % CtrMod
                <5>1. g.Yi + b + 1 = g.Yi + (b + 1)
                    BY <2>1
                <5> QED BY <1>3, <3>1, <5>1 DEF b
            <4>2. 2 + CeilDiv(m + n) = 2 + c + (b + 1)
                BY <1>6, <2>1, <3>1 DEF b, c
            <4> QED BY <2>3, <4>1, <4>2
        <3>2. CASE ~tail
            <4>1. f.Yi = (g.Yi + b) % CtrMod
                BY <1>3, <3>2 DEF b
            <4>2. 2 + CeilDiv(m + n) = 2 + c + b
                BY <1>6, <2>1, <3>2 DEF b, c
            <4> QED BY <2>2, <4>1, <4>2
        <3> QED BY <3>1, <3>2
    <2>6. f.EKi \in 0 .. CtrMod - 1
        <3>1. (g.Yi + b) % CtrMod \in 0 .. CtrMod - 1
            <4>1. g.Yi + b \in Nat
                BY <2>1
            <4> QED BY <4>1, CtrDivMod
        <3>2. g.EKi \in 0 .. CtrMod - 1
            BY DEF Order, Counters
        <3>3. f.EKi = IF tail THEN (g.Yi + b) % CtrMod ELSE g.EKi
            BY <1>3 DEF b
        <3> QED BY <3>1, <3>2, <3>3
    <2>7. ASSUME (m + n) % B # 0 PROVE f.EKi = 2 + ((m + n) \div B)
        <3>1. CASE tail
            <4> DEFINE z == 2 + ((m + n) \div B)
            <4>1. z < CtrMod /\ z \in Nat
                <5>2. m + n < MsgLimit
                    <6> SUFFICES ASSUME m + n = MsgLimit PROVE FALSE
                        BY <1>2, <1>4 DEF m
                    <6>1. MsgLimit = (CtrMod - 2) * B + 0 /\ CtrMod - 2 \in Nat /\ 0 \in 0 .. B - 1
                        BY GcmAssumption DEF MsgLimit
                    <6>2. MsgLimit % B = 0
                        BY <6>1, DivModUnique
                    <6> QED BY <2>7, <6>2
                <5>3. m + n \in Nat
                    BY <1>4
                <5> QED BY <5>2, <5>3, CounterOfByte, GcmAssumption
            <4>2. z = 2 + c + b
                BY <1>6, <2>1, <3>1 DEF b, c
            <4> HIDE DEF z
            <4>3. z % CtrMod = z
                BY <4>1, CtrModAdd
            <4>4. f.EKi = (g.Yi + b) % CtrMod
                BY <1>3, <3>1 DEF b
            <4> QED BY <2>2, <4>2, <4>3, <4>4 DEF z
        <3>2. CASE ~tail
            BY <1>3, <1>6, <2>7, <3>2 DEF Order, Counters, m
        <3> QED BY <3>1, <3>2
    <2> QED BY <2>4, <2>5, <2>6, <2>7 DEF Counters
<1>10. AadFields(f)
    <2>1. g.lenA \in 0 .. AadLimit /\ g.lenA \in Nat /\ g.padAt \in Nat
        BY GcmAssumption DEF Order, AadFields
    <2>2. f.padAt \in Nat
        BY <1>3, <2>1 DEF PadAfter
    <2> QED BY <1>3, <2>1, <2>2, GcmAssumption DEF AadFields
<1> QED BY <1>8, <1>9, <1>10 DEF Order, f


-----------------------------------------------------------------------------
\* Terms of the polynomial, and multiplying them by H.
Sources == {"aad", "msg", "lenA", "lenM", "EK0"}

LEMMA TermIs ==
    ASSUME NEW src, NEW byte, NEW off, NEW pow
    PROVE  /\ LET t == Term(src, byte, off, pow)
              IN  t.src = src /\ t.byte = byte /\ t.off = off /\ t.pow = pow
           /\ src \in Sources /\ byte \in Nat /\ off \in Nat /\ pow \in Int
                => Term(src, byte, off, pow) \in Terms
BY DEF Term, Terms, Sources

LEMMA TermOf ==
    ASSUME NEW t \in Terms
    PROVE  /\ t = Term(t.src, t.byte, t.off, t.pow)
           /\ t.src \in Sources /\ t.byte \in Nat /\ t.off \in Nat /\ t.pow \in Int
BY DEF Term, Terms, Sources

\* A term multiplied by H, n times over.
Times(t, n) == [t EXCEPT !.pow = @ + n]

LEMMA TermTimes ==
    ASSUME NEW src, NEW byte, NEW off, NEW pow, NEW n
    PROVE  Times(Term(src, byte, off, pow), n) = Term(src, byte, off, pow + n)
BY DEF Term, Times

LEMMA TimesIs ==
    ASSUME NEW t \in Terms, NEW a \in Int, NEW b \in Int
    PROVE  /\ Times(t, 0) = t
           /\ Times(Times(t, a), b) = Times(t, a + b)
           /\ Times(Times(t, a), -a) = t
           /\ Times(t, a) \in Terms
           /\ Times(t, a).src = t.src /\ Times(t, a).byte = t.byte
           /\ Times(t, a).off = t.off /\ Times(t, a).pow = t.pow + a
<1>1. /\ t = Term(t.src, t.byte, t.off, t.pow)
      /\ t.src \in Sources /\ t.byte \in Nat /\ t.off \in Nat /\ t.pow \in Int
    BY TermOf
<1> DEFINE src == t.src
           byte == t.byte
           off == t.off
           pow == t.pow
<1>2. /\ t = Term(src, byte, off, pow)
      /\ src \in Sources /\ byte \in Nat /\ off \in Nat /\ pow \in Int
    BY <1>1
<1> HIDE DEF src, byte, off, pow
<1>3. Times(t, a) = Term(src, byte, off, pow + a)
    BY <1>2, TermTimes
<1>4. Times(Times(t, a), b) = Term(src, byte, off, (pow + a) + b)
    BY <1>3, TermTimes
<1>5. Times(t, a + b) = Term(src, byte, off, pow + (a + b))
    BY <1>2, TermTimes
<1>6. Times(Times(t, a), -a) = Term(src, byte, off, (pow + a) + (-a))
    BY <1>3, TermTimes
<1>7. Times(t, 0) = Term(src, byte, off, pow + 0)
    BY <1>2, TermTimes
<1>8. /\ (pow + a) + b = pow + (a + b) /\ (pow + a) + (-a) = pow /\ pow + 0 = pow
      /\ pow + a \in Int
    BY <1>2
<1>9. Times(t, a) \in Terms
    BY <1>2, <1>3, <1>8, TermIs
<1>10. /\ Times(t, a).src = src /\ Times(t, a).byte = byte
       /\ Times(t, a).off = off /\ Times(t, a).pow = pow + a
    BY <1>3, TermIs
<1> QED BY <1>2, <1>4, <1>5, <1>6, <1>7, <1>8, <1>9, <1>10 DEF src, byte, off, pow

LEMMA MulIs == ASSUME NEW X, NEW n PROVE Mul(X, n) = {Times(t, n) : t \in X}
BY DEF Mul, Times

LEMMA MulUnion ==
    ASSUME NEW X, NEW Y, NEW n
    PROVE  Mul(X \cup Y, n) = Mul(X, n) \cup Mul(Y, n)
BY MulIs

LEMMA MulKeepsTerms ==
    ASSUME NEW X \in Polynomials, NEW n \in Int
    PROVE  Mul(X, n) \in Polynomials
<1>1. \A t \in X : Times(t, n) \in Terms
    BY TimesIs DEF Polynomials
<1> QED BY <1>1, MulIs DEF Polynomials

LEMMA MulZero == ASSUME NEW X \in Polynomials PROVE Mul(X, 0) = X
<1>1. \A t \in X : Times(t, 0) = t
    <2>1. 0 \in Int
        OBVIOUS
    <2> QED BY <2>1, TimesIs DEF Polynomials
<1> QED BY <1>1, MulIs

LEMMA MulTwice ==
    ASSUME NEW X \in Polynomials, NEW a \in Int, NEW b \in Int
    PROVE  Mul(Mul(X, a), b) = Mul(X, a + b)
<1>1. \A t \in X : Times(Times(t, a), b) = Times(t, a + b)
    BY TimesIs DEF Polynomials
<1>2. Mul(Mul(X, a), b) = {Times(Times(t, a), b) : t \in X}
    BY MulIs
<1> QED BY <1>1, <1>2, MulIs

\* Multiplying is injective on terms, so it distributes over the sum.
LEMMA MulSum ==
    ASSUME NEW X \in Polynomials, NEW Y \in Polynomials, NEW n \in Int
    PROVE  Mul(SymDiff(X, Y), n) = SymDiff(Mul(X, n), Mul(Y, n))
<1>1. \A t \in X \cup Y : Times(Times(t, n), -n) = t
    BY TimesIs DEF Polynomials
<1>2. \A s, t \in X \cup Y : Times(s, n) = Times(t, n) => s = t
    BY <1>1, Zenon
<1>3. SymDiff(X, Y) = {t \in X \cup Y : ~(t \in X /\ t \in Y)}
    BY DEF SymDiff
<1>4. SymDiff(Mul(X, n), Mul(Y, n))
        = {t \in Mul(X, n) \cup Mul(Y, n) : ~(t \in Mul(X, n) /\ t \in Mul(Y, n))}
    BY DEF SymDiff
<1>5. \A t \in X \cup Y : /\ Times(t, n) \in Mul(X, n) <=> t \in X
                          /\ Times(t, n) \in Mul(Y, n) <=> t \in Y
    BY <1>2, MulIs
<1>6. Mul(X, n) \cup Mul(Y, n) = {Times(t, n) : t \in X \cup Y}
    BY MulIs
<1>7. Mul(SymDiff(X, Y), n) = {Times(t, n) : t \in SymDiff(X, Y)}
    BY MulIs
<1> DEFINE L == Mul(SymDiff(X, Y), n)
           R == SymDiff(Mul(X, n), Mul(Y, n))
<1>8. ASSUME NEW u \in L PROVE u \in R
    <2>1. PICK t \in SymDiff(X, Y) : u = Times(t, n)
        BY <1>7
    <2>2. t \in X \cup Y /\ ~(t \in X /\ t \in Y)
        BY <1>3
    <2> QED BY <1>4, <1>5, <2>1, <2>2
<1>9. ASSUME NEW u \in R PROVE u \in L
    <2>1. u \in Mul(X, n) \cup Mul(Y, n) /\ ~(u \in Mul(X, n) /\ u \in Mul(Y, n))
        BY <1>4
    <2>2. PICK t \in X \cup Y : u = Times(t, n)
        BY <1>6, <2>1
    <2>3. t \in SymDiff(X, Y)
        BY <1>3, <1>5, <2>1, <2>2
    <2> QED BY <1>7, <2>2, <2>3
<1> HIDE DEF L, R
<1>10. L = R
    BY <1>8, <1>9
<1> QED BY <1>10 DEF L, R

LEMMA SumTypes ==
    ASSUME NEW X \in Polynomials, NEW Y \in Polynomials
    PROVE  SymDiff(X, Y) \in Polynomials /\ X \cup Y \in Polynomials
BY DEF SymDiff, Polynomials

LEMMA SumOfDisjoint ==
    ASSUME NEW X, NEW Y, X \cap Y = {}
    PROVE  SymDiff(X, Y) = X \cup Y
BY DEF SymDiff

LEMMA SumSum ==
    ASSUME NEW X, NEW Y, NEW Z, Y \cap Z = {}
    PROVE  SymDiff(SymDiff(X, Y), Z) = SymDiff(X, Y \cup Z)
<1> DEFINE L == SymDiff(SymDiff(X, Y), Z)
           R == SymDiff(X, Y \cup Z)
<1>1. ASSUME NEW t PROVE t \in L <=> t \in R
    BY DEF SymDiff
<1> HIDE DEF L, R
<1>2. L = R
    BY <1>1
<1> QED BY <1>2 DEF L, R

LEMMA SumWithNothing == ASSUME NEW X PROVE SymDiff(X, {}) = X
BY DEF SymDiff

-----------------------------------------------------------------------------
\* `byte' at place i of the bytes of src, when c blocks were closed.
ByteTerm(src, byte, i, c) == Term(src, byte, (i - 1) % B, c - ((i - 1) \div B))

LEMMA ByteTermIs ==
    ASSUME NEW src \in Sources, NEW byte \in Nat, NEW i \in Nat \ {0},
           NEW c \in Int, NEW n \in Int
    PROVE  /\ ByteTerm(src, byte, i, c) \in Terms
           /\ ByteTerm(src, byte, i, c).src = src /\ ByteTerm(src, byte, i, c).byte = byte
           /\ ByteTerm(src, byte, i, c).off = (i - 1) % B
           /\ Times(ByteTerm(src, byte, i, c), n) = ByteTerm(src, byte, i, c + n)
<1> DEFINE d == (i - 1) \div B
           x == (i - 1) % B
<1>1. d \in Nat /\ x \in Nat
    <2>1. i - 1 \in Nat
        OBVIOUS
    <2> QED BY <2>1, DivMod, GcmAssumption
<1> HIDE DEF d, x
<1>2. c - d \in Int /\ (c - d) + n = (c + n) - d
    BY <1>1
<1>3. ByteTerm(src, byte, i, c) = Term(src, byte, x, c - d)
    BY DEF ByteTerm, d, x
<1>4. ByteTerm(src, byte, i, c + n) = Term(src, byte, x, (c + n) - d)
    BY DEF ByteTerm, d, x
<1>5. Times(ByteTerm(src, byte, i, c), n) = Term(src, byte, x, (c - d) + n)
    BY <1>3, TermTimes
<1>6. Term(src, byte, x, c - d) \in Terms
    BY <1>1, <1>2, TermIs
<1>7. /\ Term(src, byte, x, c - d).src = src /\ Term(src, byte, x, c - d).byte = byte
      /\ Term(src, byte, x, c - d).off = x
    BY TermIs
<1> QED BY <1>2, <1>3, <1>4, <1>5, <1>6, <1>7 DEF x

\* The place can be read off the term.
LEMMA ByteTermPlace ==
    ASSUME NEW src, NEW byte, NEW i \in Nat \ {0},
           NEW other, NEW k \in Nat \ {0}, NEW c \in Int,
           ByteTerm(src, byte, i, c) = ByteTerm(src, other, k, c)
    PROVE  i = k /\ byte = other
<1> DEFINE d == (i - 1) \div B
           x == (i - 1) % B
           e == (k - 1) \div B
           y == (k - 1) % B
<1>1. /\ i - 1 \in Nat /\ k - 1 \in Nat
    OBVIOUS
<1>2. d \in Nat /\ e \in Nat /\ i - 1 = d * B + x /\ k - 1 = e * B + y
    BY <1>1, DivMod
<1>3. Term(src, byte, x, c - d) = Term(src, other, y, c - e)
    BY DEF ByteTerm
<1> HIDE DEF d, x, e, y
<1>4. byte = other /\ x = y /\ c - d = c - e
    BY <1>3, TermIs
<1>5. d = e
    BY <1>2, <1>4
<1>6. i - 1 = k - 1
    BY <1>2, <1>4, <1>5
<1> QED BY <1>1, <1>4, <1>6

\* Bytes in[from .. to] of a call that finds m bytes, when e blocks are closed.
Part(src, in, m, from, to, e) == {ByteTerm(src, in[j], m + j, e) : j \in from .. to}

LEMMA PartTypes ==
    ASSUME NEW src \in Sources, NEW in \in Seq(Nat), NEW m \in Nat,
           NEW from \in Nat \ {0}, NEW to \in 0 .. Len(in), NEW e \in Int, NEW n \in Int
    PROVE  /\ Part(src, in, m, from, to, e) \in Polynomials
           /\ Mul(Part(src, in, m, from, to, e), n) = Part(src, in, m, from, to, e + n)
<1>1. ASSUME NEW j \in from .. to PROVE in[j] \in Nat /\ m + j \in Nat \ {0}
    <2>1. j \in 1 .. Len(in) /\ Len(in) \in Nat
        BY LenProperties
    <2> QED BY <2>1, ElementOfSeq
<1>2. \A j \in from .. to :
         /\ ByteTerm(src, in[j], m + j, e) \in Terms
         /\ Times(ByteTerm(src, in[j], m + j, e), n) = ByteTerm(src, in[j], m + j, e + n)
    BY <1>1, ByteTermIs
<1>3. Part(src, in, m, from, to, e) \in Polynomials
    BY <1>2 DEF Part, Polynomials
<1>4. Mul(Part(src, in, m, from, to, e), n)
        = {Times(ByteTerm(src, in[j], m + j, e), n) : j \in from .. to}
    BY MulIs DEF Part
<1> QED BY <1>2, <1>3, <1>4 DEF Part

LEMMA PartsJoin ==
    ASSUME NEW src, NEW in, NEW m \in Nat, NEW e \in Int,
           NEW a \in Nat \ {0}, NEW b \in Nat, NEW c \in Nat, a <= b + 1, b <= c
    PROVE  /\ Part(src, in, m, a, b, e) \cup Part(src, in, m, b + 1, c, e)
                = Part(src, in, m, a, c, e)
           /\ Part(src, in, m, a, b, e) \cap Part(src, in, m, b + 1, c, e) = {}
<1>1. a .. c = (a .. b) \cup (b + 1 .. c)
    OBVIOUS
<1>2. \A j \in a .. b : \A k \in b + 1 .. c :
         ByteTerm(src, in[j], m + j, e) # ByteTerm(src, in[k], m + k, e)
    <2> TAKE j \in a .. b
    <2> TAKE k \in b + 1 .. c
    <2>1. m + j \in Nat \ {0} /\ m + k \in Nat \ {0} /\ m + j # m + k
        OBVIOUS
    <2> QED BY <2>1, ByteTermPlace
<1>3. Part(src, in, m, a, b, e) \cup Part(src, in, m, b + 1, c, e) = Part(src, in, m, a, c, e)
    BY <1>1, Zenon DEF Part
<1> QED BY <1>2, <1>3, Zenon DEF Part

LEMMA PartOfNothing ==
    ASSUME NEW src, NEW in, NEW m, NEW from \in Int, NEW to \in Int, to < from, NEW e
    PROVE  Part(src, in, m, from, to, e) = {}
<1>1. from .. to = {}
    OBVIOUS
<1> QED BY <1>1 DEF Part

-----------------------------------------------------------------------------
\* The three parts of a call.
InBlock(from, to, m, off, e) ==
    \A j \in from .. to : /\ (m + (j - 1)) \div B = e
                          /\ (m + (j - 1)) % B = off + j - from

LEMMA XorInIs ==
    ASSUME NEW X, NEW src, NEW in, NEW from \in Nat, NEW to \in Int, NEW m \in Nat,
           NEW off \in Nat, NEW e \in Int, InBlock(from, to, m, off, e)
    PROVE  XorIn(X, src, in, from, to, off) = SymDiff(X, Part(src, in, m, from, to, e))
<1>1. \A j \in from .. to : ByteTerm(src, in[j], m + j, e) = Term(src, in[j], off + j - from, 0)
    <2> TAKE j \in from .. to
    <2>1. (m + j) - 1 = m + (j - 1) /\ e - e = 0
        OBVIOUS
    <2> QED BY <2>1 DEF ByteTerm, InBlock
<1> QED BY <1>1 DEF XorIn, Part

\* in[from .. to] are the b blocks of the message after the first D.
AreBlocks(from, to, m, b, D, e) ==
    m + from = D * B + 1 /\ to = from + b * B - 1 /\ e = D + b

LEMMA GhashIs ==
    ASSUME NEW X, NEW src, NEW in, NEW from \in Nat, NEW b \in Nat, NEW m \in Nat,
           NEW D \in Nat, NEW to, NEW e, AreBlocks(from, to, m, b, D, e)
    PROVE  GHASH(X, src, in, from, b) = SymDiff(Mul(X, b), Part(src, in, m, from, to, e))
<1>0. B \in Nat /\ B > 0
    BY GcmAssumption
<1> DEFINE k == b * B
<1>1. k \in Nat
    BY <1>0
<1>2. ASSUME NEW i \in 0 .. k - 1
      PROVE  ByteTerm(src, in[from + i], m + (from + i), D + b)
               = Term(src, in[from + i], i % B, b - (i \div B))
    <2> DEFINE d == i \div B
               x == i % B
    <2>1. i \in Nat
        BY <1>1
    <2>2. d \in Nat /\ x \in 0 .. B - 1 /\ i = d * B + x
        BY <2>1, DivMod
    <2> HIDE DEF d, x, k
    <2>3. (D + d) * B = D * B + d * B /\ D * B \in Nat /\ d * B \in Nat
        BY <1>0, <2>2
    <2>4. (m + (from + i)) - 1 = (D + d) * B + x
        BY <1>0, <2>1, <2>2, <2>3 DEF AreBlocks
    <2>5. ((m + (from + i)) - 1) \div B = D + d /\ ((m + (from + i)) - 1) % B = x
        BY <2>2, <2>4, DivModUnique
    <2>6. (D + b) - (D + d) = b - d
        BY <2>2
    <2> QED BY <2>5, <2>6 DEF ByteTerm, d, x
<1> HIDE DEF k
<1>3. {Term(src, in[from + i], i % B, b - (i \div B)) : i \in 0 .. k - 1}
        = Part(src, in, m, from, from + k - 1, D + b)
    <2>1. \A i \in 0 .. k - 1 : from + i \in from .. from + k - 1
        BY <1>1
    <2>2. \A j \in from .. from + k - 1 : j - from \in 0 .. k - 1 /\ from + (j - from) = j
        BY <1>1
    <2> QED BY <1>2, <2>1, <2>2 DEF Part
<1>4. to = from + k - 1 /\ e = D + b
    BY DEF AreBlocks, k
<1> QED BY <1>3, <1>4 DEF GHASH, k

\* A call on `in' that finds m bytes taken, m % B of them in the open block: what
\* was in Xi is multiplied by H once for each block the call closes, and the bytes
\* are added at their places.
Added(src, in, m, e) == Part(src, in, m, 1, Len(in), e)

Closed(m, in) == ((m + Len(in)) \div B) - (m \div B)

LEMMA AbsorbIs ==
    ASSUME NEW X \in Polynomials, NEW src \in Sources, NEW m \in Nat, NEW in \in Seq(Nat)
    PROVE  /\ Closed(m, in) \in Nat
           /\ Absorb(X, src, m % B, in)
                = SymDiff(Mul(X, Closed(m, in)),
                          Added(src, in, m, (m + Len(in)) \div B))
<1> DEFINE c == m \div B
           r == m % B
           n == Len(in)
           h == Lead(r, n)
           b == Blocks(r, n)
           s == Rest(r, n)
           opened == XorIn(X, src, in, 1, h, r)
           closed == IF ClosesBlock(r, n) THEN Mul(opened, 1) ELSE opened
           hashed == GHASH(closed, src, in, h + 1, b)
           e == (m + n) \div B
           P(from, to, E) == Part(src, in, m, from, to, E)
<1>0. B \in Nat /\ B > 0 /\ n \in Nat
    BY GcmAssumption, LenProperties
<1>1. c \in Nat /\ r \in 0 .. B - 1 /\ m = c * B + r
    BY DivMod
<1>2. h = IF r = 0 THEN 0 ELSE IF n < B - r THEN n ELSE B - r
    BY <1>0, <1>1, LeadIs
<1>3. Absorb(X, src, r, in) = XorIn(hashed, src, in, n - s + 1, n, 0)
    BY DEF Absorb
<1>4. ClosesBlock(r, n) <=> r # 0 /\ r + h = B
    BY DEF ClosesBlock
<1>5. h \in 0 .. n /\ b \in Nat /\ s \in 0 .. B - 1 /\ n = h + b * B + s
    <2> DEFINE k == n - h
    <2>1. k \in Nat /\ h \in 0 .. n
        BY <1>0, <1>1, <1>2
    <2>2. b = k \div B /\ s = k - (k \div B) * B
        BY DEF Blocks, Rest
    <2> HIDE DEF k
    <2> DEFINE x == k % B
    <2>3. b \in Nat /\ x \in 0 .. B - 1 /\ k = b * B + x
        BY <2>1, <2>2, DivMod
    <2>4. b * B \in Nat
        BY <1>0, <2>3
    <2>5. s = k - b * B
        BY <2>2
    <2> HIDE DEF h, b, s, n, x
    <2> QED BY <1>0, <2>1, <2>3, <2>4, <2>5 DEF k
<1> HIDE DEF c, r, n, h, b, s, e
<1>6. opened = SymDiff(X, P(1, h, c))
    <2>1. ASSUME NEW j \in 1 .. h
          PROVE  (m + (j - 1)) \div B = c /\ (m + (j - 1)) % B = r + j - 1
        <3>1. m + (j - 1) = c * B + (r + j - 1) /\ r + j - 1 \in 0 .. B - 1
            BY <1>0, <1>1, <1>2
        <3> QED BY <1>1, <3>1, DivModUnique
    <2>2. 1 \in Nat /\ h \in Int /\ r \in Nat /\ c \in Int /\ InBlock(1, h, m, r, c)
        BY <1>0, <1>1, <1>5, <2>1 DEF InBlock
    <2> QED BY <2>2, XorInIs
<1>7. P(1, h, c) \in Polynomials
    <2>1. 1 \in Nat \ {0} /\ h \in 0 .. Len(in) /\ c \in Int /\ 0 \in Int
        BY <1>1, <1>5 DEF n
    <2> QED BY <2>1, PartTypes
<1> HIDE DEF opened
\* The whole call fits into the open block and leaves it open.
<1>8. ASSUME r # 0 /\ r + h # B
      PROVE  /\ e - c \in Nat
             /\ Absorb(X, src, r, in) = SymDiff(Mul(X, e - c), P(1, n, e))
    <2>1. h = n /\ r + n < B /\ b * B + s = 0
        BY <1>0, <1>1, <1>2, <1>5, <1>8
    <2>2. b = 0 /\ s = 0
        <3>1. b * B \in Nat /\ s \in Nat
            BY <1>0, <1>5
        <3>2. b * B = 0 /\ s = 0
            BY <2>1, <3>1
        <3> QED BY <1>0, <1>5, <3>2
    <2>3. e = c
        <3>1. m + n = c * B + (r + n) /\ r + n \in 0 .. B - 1
            BY <1>0, <1>1, <2>1
        <3> QED BY <1>1, <3>1, DivModUnique DEF e
    <2>4. closed = opened /\ opened \in Polynomials
        BY <1>4, <1>6, <1>7, <1>8, SumTypes
    <2> HIDE DEF closed
    <2>5. hashed = closed
        <3>1. 0 .. 0 * B - 1 = {}
            BY <1>0
        <3>2. Mul(closed, 0) = closed
            BY <2>4, MulZero
        <3> QED BY <2>2, <3>1, <3>2, SumWithNothing DEF GHASH
    <2> HIDE DEF hashed
    <2>6. XorIn(hashed, src, in, n - s + 1, n, 0) = hashed
        <3>1. n - s + 1 .. n = {}
            BY <1>0, <2>2
        <3> QED BY <3>1, SumWithNothing DEF XorIn
    <2>7. e - c = 0 /\ Mul(X, 0) = X
        BY <1>1, <2>3, MulZero
    <2> QED BY <1>3, <1>6, <2>1, <2>3, <2>4, <2>5, <2>6, <2>7
\* The call meets the start of a block: after its head, or at once.
<1>9. ASSUME r = 0 \/ r + h = B
      PROVE  /\ e - c \in Nat
             /\ Absorb(X, src, r, in) = SymDiff(Mul(X, e - c), P(1, n, e))
    <2> DEFINE a == IF r = 0 THEN 0 ELSE 1
               D == c + a
    <2>1. D \in Nat /\ a \in Nat /\ m + h = D * B /\ c \in Int /\ a \in Int
        <3>1. D * B = IF r = 0 THEN c * B ELSE c * B + B
            BY <1>0, <1>1
        <3> QED BY <1>0, <1>1, <1>2, <1>9, <3>1
    <2>2. closed = SymDiff(Mul(X, a), P(1, h, D))
        <3>1. CASE r = 0
            <4>1. a = 0 /\ D = c /\ closed = opened
                BY <1>1, <1>4, <3>1
            <4> QED BY <1>6, <4>1, MulZero
        <3>2. CASE r # 0
            <4>1. a = 1 /\ D = c + 1 /\ closed = Mul(opened, 1) /\ 1 \in Int
                BY <1>4, <1>9, <3>2
            <4>2. Mul(P(1, h, c), 1) = P(1, h, c + 1)
                <5>1. 1 \in Nat \ {0} /\ h \in 0 .. Len(in)
                    BY <1>5 DEF n
                <5> QED BY <2>1, <4>1, <5>1, PartTypes
            <4>3. Mul(opened, 1) = SymDiff(Mul(X, 1), Mul(P(1, h, c), 1))
                BY <1>6, <1>7, <4>1, MulSum
            <4> QED BY <4>1, <4>2, <4>3
        <3> QED BY <3>1, <3>2
    <2> HIDE DEF a, closed, D
    <2> DEFINE t == h + b * B
    <2>3. /\ b \in Int /\ D + b \in Int /\ D + b \in Nat /\ b * B \in Nat /\ t \in 0 .. n /\ h <= t
          /\ n - s + 1 = t + 1 /\ h + 1 + b * B - 1 = t /\ m + t = (D + b) * B
          /\ a + b \in Int /\ a + b \in Nat
        <3>1. b * B \in Nat /\ (D + b) * B = D * B + b * B
            BY <1>0, <1>5, <2>1
        <3> QED BY <1>0, <1>5, <2>1, <3>1
    <2>4. hashed = SymDiff(Mul(X, a + b), P(1, t, D + b))
        <3>1. m + (h + 1) = D * B + 1 /\ h + 1 \in Nat
            BY <1>5, <2>1
        <3>2. hashed = SymDiff(Mul(closed, b), P(h + 1, h + 1 + b * B - 1, D + b))
            <4> DEFINE f == h + 1
                       z == f + b * B - 1
                       E == D + b
            <4>1. f \in Nat /\ AreBlocks(f, z, m, b, D, E)
                BY <3>1 DEF AreBlocks
            <4>3. b \in Nat /\ D \in Nat
                BY <1>5, <2>1
            <4> HIDE DEF f, z, E, P, t, hashed
            <4>2. GHASH(closed, src, in, f, b) = SymDiff(Mul(closed, b), Part(src, in, m, f, z, E))
                BY <4>1, <4>3, GhashIs
            <4> QED BY <4>2 DEF f, z, E, hashed, P
        <3>3. /\ P(1, h, D) \in Polynomials
              /\ Mul(P(1, h, D), b) = P(1, h, D + b)
            <4>1. 1 \in Nat \ {0} /\ h \in 0 .. Len(in) /\ D \in Int
                BY <1>5, <2>1 DEF n
            <4> QED BY <2>3, <4>1, PartTypes
        <3>4. Mul(X, a) \in Polynomials /\ Mul(Mul(X, a), b) = Mul(X, a + b)
            BY <2>1, <2>3, MulKeepsTerms, MulTwice
        <3>5. Mul(closed, b) = SymDiff(Mul(X, a + b), P(1, h, D + b))
            <4> DEFINE Y == Mul(X, a)
                       Z == P(1, h, D)
            <4>1. Y \in Polynomials /\ Z \in Polynomials /\ closed = SymDiff(Y, Z)
                BY <2>2, <3>3, <3>4
            <4>2. Mul(Y, b) = Mul(X, a + b) /\ Mul(Z, b) = P(1, h, D + b)
                BY <3>3, <3>4
            <4> HIDE DEF Y, Z
            <4>3. Mul(closed, b) = SymDiff(Mul(Y, b), Mul(Z, b))
                BY <2>3, <4>1, MulSum
            <4> QED BY <4>2, <4>3
        <3>6. /\ P(1, h, D + b) \cup P(h + 1, t, D + b) = P(1, t, D + b)
              /\ P(1, h, D + b) \cap P(h + 1, t, D + b) = {}
            <4>1. 1 \in Nat \ {0} /\ h \in Nat /\ t \in Nat /\ 1 <= h + 1 /\ h <= t
                BY <1>0, <1>5, <2>3
            <4> HIDE DEF t
            <4> QED BY <2>3, <4>1, PartsJoin
        <3> HIDE DEF t, P, hashed, closed
        <3> QED BY <2>3, <3>2, <3>5, <3>6, SumSum
    <2> HIDE DEF hashed
    <2>5. Absorb(X, src, r, in) = SymDiff(hashed, P(t + 1, n, D + b))
        <3>1. ASSUME NEW j \in t + 1 .. n
              PROVE  /\ (m + (j - 1)) \div B = D + b
                     /\ (m + (j - 1)) % B = 0 + j - (t + 1)
            <4> DEFINE y == j - (t + 1)
            <4>1. m + (j - 1) = (D + b) * B + y /\ y \in 0 .. B - 1 /\ 0 + j - (t + 1) = y
                BY <1>0, <1>5, <2>3
            <4> HIDE DEF y
            <4> QED BY <2>3, <4>1, DivModUnique
        <3>2. t + 1 \in Nat /\ n \in Int /\ 0 \in Nat
            BY <1>0, <2>3
        <3> DEFINE f == t + 1
                   E == D + b
        <3>3. f \in Nat /\ E \in Int /\ InBlock(f, n, m, 0, E)
            BY <2>3, <3>1, <3>2 DEF InBlock
        <3> HIDE DEF f, E
        <3>4. XorIn(hashed, src, in, f, n, 0) = SymDiff(hashed, Part(src, in, m, f, n, E))
            BY <3>2, <3>3, XorInIs
        <3> QED BY <1>3, <2>3, <3>4 DEF f, E
    <2>6. /\ P(1, t, D + b) \cup P(t + 1, n, D + b) = P(1, n, D + b)
          /\ P(1, t, D + b) \cap P(t + 1, n, D + b) = {}
        <3>1. 1 \in Nat \ {0} /\ t \in Nat /\ n \in Nat /\ 1 <= t + 1 /\ t <= n
            BY <1>0, <2>3
        <3> HIDE DEF t
        <3> QED BY <2>3, <3>1, PartsJoin
    <2>7. e = D + b
        <3>1. m + n = (D + b) * B + s
            BY <1>0, <1>5, <2>1, <2>3
        <3> QED BY <1>5, <2>3, <3>1, DivModUnique DEF e
    <2>8. e - c = a + b
        BY <1>1, <1>5, <2>1, <2>7 DEF D
    <2> HIDE DEF t, P
    <2> QED BY <2>3, <2>4, <2>5, <2>6, <2>7, <2>8, SumSum
<1> QED BY <1>8, <1>9 DEF c, r, n, e, Closed, Added

LEMMA AddedTypes ==
    ASSUME NEW src \in Sources, NEW in \in Seq(Nat), NEW m \in Nat, NEW e \in Int, NEW n \in Int
    PROVE  /\ Added(src, in, m, e) \in Polynomials
           /\ Mul(Added(src, in, m, e), n) = Added(src, in, m, e + n)
<1>1. 1 \in Nat \ {0} /\ Len(in) \in 0 .. Len(in)
    BY LenProperties
<1> QED BY <1>1, PartTypes DEF Added

\* A term of what a call adds, and of what it does not.
LEMMA AddedIs ==
    ASSUME NEW src \in Sources, NEW in \in Seq(Nat), NEW m \in Nat, NEW e \in Int
    PROVE  /\ \A t \in Added(src, in, m, e) :
                 \E j \in 1 .. Len(in) : /\ t = ByteTerm(src, in[j], m + j, e)
                                         /\ t.src = src /\ t.byte = in[j]
                                         /\ t.off = (m + j - 1) % B
           /\ \A j \in 1 .. Len(in) : ByteTerm(src, in[j], m + j, e) \in Added(src, in, m, e)
<1>1. ASSUME NEW j \in 1 .. Len(in)
      PROVE  /\ ByteTerm(src, in[j], m + j, e).src = src
             /\ ByteTerm(src, in[j], m + j, e).byte = in[j]
             /\ ByteTerm(src, in[j], m + j, e).off = (m + j - 1) % B
    <2>1. in[j] \in Nat /\ Len(in) \in Nat
        BY ElementOfSeq, LenProperties
    <2>2. m + j \in Nat \ {0} /\ 0 \in Int
        BY <2>1
    <2> DEFINE i == m + j
               byte == in[j]
    <2>3. i \in Nat \ {0} /\ byte \in Nat
        BY <2>1, <2>2
    <2> HIDE DEF i, byte
    <2>4. /\ ByteTerm(src, byte, i, e).src = src /\ ByteTerm(src, byte, i, e).byte = byte
          /\ ByteTerm(src, byte, i, e).off = (i - 1) % B
        BY <2>2, <2>3, ByteTermIs
    <2> QED BY <2>4 DEF i, byte
<1> QED BY <1>1 DEF Added, Part

LEMMA AbsorbTypes ==
    ASSUME NEW X \in Polynomials, NEW src \in Sources, NEW m \in Nat, NEW in \in Seq(Nat)
    PROVE  Absorb(X, src, m % B, in) \in Polynomials
<1> DEFINE e == (m + Len(in)) \div B
           d == Closed(m, in)
<1>1. e \in Int
    <2>1. m + Len(in) \in Nat
        BY LenProperties
    <2> QED BY <2>1, DivMod
<1>2. d \in Nat /\ Absorb(X, src, m % B, in) = SymDiff(Mul(X, d), Added(src, in, m, e))
    BY AbsorbIs
<1> HIDE DEF d, e
<1>3. Mul(X, d) \in Polynomials
    BY <1>2, MulKeepsTerms
<1>4. Added(src, in, m, e) \in Polynomials
    BY <1>1, AddedTypes
<1> QED BY <1>2, <1>3, <1>4, SumTypes

\* No term of X is about a byte of src.
Avoids(X, src) == \A t \in X : t.src # src

\* A call leaves the terms of other bytes in Xi, multiplied.
LEMMA AbsorbKeepsTerm ==
    ASSUME NEW X \in Polynomials, NEW src \in Sources, NEW m \in Nat, NEW in \in Seq(Nat),
           NEW t \in X, t.src # src \/ \A j \in 1 .. Len(in) : t.byte # in[j]
    PROVE  \E d \in Nat : Times(t, d) \in Absorb(X, src, m % B, in)
<1> DEFINE e == (m + Len(in)) \div B
           d == Closed(m, in)
           u == Times(t, d)
<1>1. e \in Int
    <2>1. m + Len(in) \in Nat
        BY LenProperties
    <2> QED BY <2>1, DivMod
<1>2. d \in Nat /\ Absorb(X, src, m % B, in) = SymDiff(Mul(X, d), Added(src, in, m, e))
    BY AbsorbIs
<1> HIDE DEF d, e
<1>3. u \in Mul(X, d)
    BY MulIs
<1>4. u.src = t.src /\ u.byte = t.byte
    <2>1. t \in Terms /\ d \in Int
        BY <1>2 DEF Polynomials
    <2> QED BY <2>1, TimesIs
<1> HIDE DEF u
<1>5. u \notin Added(src, in, m, e)
    <2> SUFFICES ASSUME u \in Added(src, in, m, e) PROVE FALSE
        OBVIOUS
    <2>1. PICK j \in 1 .. Len(in) : u.src = src /\ u.byte = in[j]
        BY <1>1, AddedIs
    <2> QED BY <1>4, <2>1
<1>6. u \in SymDiff(Mul(X, d), Added(src, in, m, e))
    BY <1>3, <1>5 DEF SymDiff
<1> QED BY <1>2, <1>6 DEF u

-----------------------------------------------------------------------------
\* The polynomial of the stream s, when c blocks of it and of what followed it were
\* closed.
Poly(src, s, c) == Added(src, s, 0, c)

LEMMA PolyTypes ==
    ASSUME NEW src \in Sources, NEW s \in Seq(Nat), NEW c \in Int, NEW n \in Int
    PROVE  /\ Poly(src, s, c) \in Polynomials
           /\ Mul(Poly(src, s, c), n) = Poly(src, s, c + n)
           /\ \A other : other # src => Avoids(Poly(src, s, c), other)
<1>1. 0 \in Nat
    OBVIOUS
<1>2. Added(src, s, 0, c) \in Polynomials /\ Mul(Added(src, s, 0, c), n) = Added(src, s, 0, c + n)
    BY <1>1, AddedTypes
<1>3. \A t \in Added(src, s, 0, c) : t.src = src
    BY <1>1, AddedIs
<1> QED BY <1>2, <1>3 DEF Poly, Avoids

LEMMA PolyOfNothing == ASSUME NEW src, NEW s, Len(s) = 0, NEW c PROVE Poly(src, s, c) = {}
<1>1. 1 .. 0 = {}
    OBVIOUS
<1> QED BY <1>1 DEF Poly, Added, Part

LEMMA PolyGrows ==
    ASSUME NEW src \in Sources, NEW s \in Seq(Nat), NEW in \in Seq(Nat), NEW e \in Int
    PROVE  /\ Poly(src, s, e) \cup Added(src, in, Len(s), e) = Poly(src, s \o in, e)
           /\ Poly(src, s, e) \cap Added(src, in, Len(s), e) = {}
<1> DEFINE all == s \o in
           k == Len(s)
           n == Len(in)
<1>1. /\ k \in Nat /\ n \in Nat /\ all \in Seq(Nat) /\ Len(all) = k + n
      /\ \A i \in 1 .. k : all[i] = s[i]
      /\ \A i \in 1 .. n : all[k + i] = in[i]
    <2>1. \A i \in 1 .. n : k + i \in 1 .. k + n /\ ~(k + i <= k) /\ (k + i) - k = i
        BY LenProperties
    <2>2. \A i \in 1 .. k : i \in 1 .. k + n /\ i <= k
        BY LenProperties
    <2> QED BY <2>1, <2>2, LenProperties, ConcatProperties
<1> HIDE DEF all, k, n
<1>2. Part(src, all, 0, 1, k, e) = Part(src, s, 0, 1, k, e)
    BY <1>1 DEF Part
<1>3. Part(src, all, 0, k + 1, k + n, e) = Part(src, in, k, 1, n, e)
    <2>1. \A j \in 1 .. n : k + j \in k + 1 .. k + n /\ 0 + (k + j) = k + j
        BY <1>1
    <2>2. \A i \in k + 1 .. k + n : i - k \in 1 .. n /\ k + (i - k) = i /\ 0 + i = i
        BY <1>1
    <2>3. ASSUME NEW t \in Part(src, all, 0, k + 1, k + n, e)
          PROVE  t \in Part(src, in, k, 1, n, e)
        <3>1. PICK i \in k + 1 .. k + n : t = ByteTerm(src, all[i], 0 + i, e)
            BY DEF Part
        <3>2. i - k \in 1 .. n /\ t = ByteTerm(src, in[i - k], k + (i - k), e)
            BY <1>1, <2>2, <3>1
        <3> QED BY <3>2 DEF Part
    <2>4. ASSUME NEW t \in Part(src, in, k, 1, n, e)
          PROVE  t \in Part(src, all, 0, k + 1, k + n, e)
        <3>1. PICK j \in 1 .. n : t = ByteTerm(src, in[j], k + j, e)
            BY DEF Part
        <3>2. k + j \in k + 1 .. k + n /\ t = ByteTerm(src, all[k + j], 0 + (k + j), e)
            BY <1>1, <2>1, <3>1
        <3> QED BY <3>2 DEF Part
    <2> QED BY <2>3, <2>4
<1>4. /\ Part(src, all, 0, 1, k, e) \cup Part(src, all, 0, k + 1, k + n, e)
           = Part(src, all, 0, 1, k + n, e)
      /\ Part(src, all, 0, 1, k, e) \cap Part(src, all, 0, k + 1, k + n, e) = {}
    <2>1. 0 \in Nat /\ 1 \in Nat \ {0} /\ k + n \in Nat /\ 1 <= k + 1 /\ k <= k + n
        BY <1>1
    <2> QED BY <1>1, <2>1, PartsJoin
<1> QED BY <1>1, <1>2, <1>3, <1>4 DEF Poly, Added, all, k, n

\* A call on the bytes that follow s: the polynomial of the stream grows by them, and
\* everything else is multiplied by H once for each block that the call closed.
Follows(s, in, all, c, e, d, r) ==
    /\ all = s \o in
    /\ c = Len(s) \div B /\ r = Len(s) % B
    /\ e = (Len(s) + Len(in)) \div B /\ d = e - c

LEMMA AbsorbGrows ==
    ASSUME NEW src \in Sources, NEW s \in Seq(Nat), NEW in \in Seq(Nat),
           NEW O \in Polynomials, Avoids(O, src),
           NEW all, NEW c, NEW e, NEW d, NEW r, Follows(s, in, all, c, e, d, r)
    PROVE  /\ d \in Nat
           /\ Absorb(Poly(src, s, c) \cup O, src, r, in) = Poly(src, all, e) \cup Mul(O, d)
<1> DEFINE P == Poly(src, s, c)
           m == Len(s)
           A == Added(src, in, m, e)
<1>0. all = s \o in /\ c = m \div B /\ r = m % B /\ e = (m + Len(in)) \div B /\ d = e - c
    BY DEF Follows
<1>1. m \in Nat /\ c \in Nat /\ e \in Nat /\ c \in Int /\ e \in Int
    <2>1. m \in Nat /\ m + Len(in) \in Nat
        BY LenProperties
    <2>2. c \in Nat /\ e \in Nat
        BY <1>0, <2>1, DivMod
    <2> QED BY <2>1, <2>2
<1>2. d = Closed(m, in)
    BY <1>0 DEF Closed
<1>3. P \in Polynomials /\ P \cup O \in Polynomials
    BY <1>1, PolyTypes, SumTypes
<1>4. d \in Nat /\ Absorb(P \cup O, src, m % B, in) = SymDiff(Mul(P \cup O, d), A)
    BY <1>0, <1>1, <1>2, <1>3, AbsorbIs
<1>5. Mul(P \cup O, d) = Poly(src, s, e) \cup Mul(O, d)
    <2>1. d \in Int /\ c + d = e
        BY <1>0, <1>1, <1>4
    <2> HIDE DEF P
    <2>2. Mul(P, d) = Poly(src, s, c + d)
        BY <1>1, <2>1, PolyTypes DEF P
    <2> QED BY <2>1, <2>2, MulUnion
<1>6. Poly(src, s, e) \cup A = Poly(src, all, e) /\ Poly(src, s, e) \cap A = {}
    BY <1>0, <1>1, PolyGrows
<1>7. Mul(O, d) \cap A = {}
    <2>1. \A t \in A : t.src = src
        BY <1>1, AddedIs
    <2>2. \A t \in O : Times(t, d).src # src
        <3> TAKE t \in O
        <3>1. t \in Terms /\ d \in Int /\ t.src # src
            BY <1>4 DEF Polynomials, Avoids
        <3> QED BY <3>1, TimesIs
    <2>3. \A t \in Mul(O, d) : t.src # src
        BY <2>2, MulIs
    <2> QED BY <2>1, <2>3
<1> HIDE DEF P, A
<1>8. SymDiff(Mul(P \cup O, d), A) = (Poly(src, s, e) \cup Mul(O, d)) \cup A
    <2>1. (Poly(src, s, e) \cup Mul(O, d)) \cap A = {}
        BY <1>6, <1>7
    <2> QED BY <1>5, <2>1, SumOfDisjoint
<1>9. (Poly(src, s, e) \cup Mul(O, d)) \cup A = Poly(src, all, e) \cup Mul(O, d)
    BY <1>6
<1> QED BY <1>0, <1>4, <1>8, <1>9 DEF P, m

-----------------------------------------------------------------------------
\* A context that can be trusted with types: what it has counted and what Xi holds.
Context(g) == Order(g) /\ g.Xi \in Polynomials

LEMMA ContextTypes ==
    ASSUME NEW g, Context(g)
    PROVE  /\ IsGcm(g) /\ g.Xi \in Polynomials
           /\ g.lenA \in Nat /\ g.lenM \in Nat /\ g.ares \in 0 .. B - 1
           /\ g.mres = g.lenM % B
           /\ g.lenA \div B \in Nat /\ g.lenM \div B \in Nat
           /\ CeilDiv(g.lenA) \in Nat /\ CeilDiv(g.lenM) \in Nat
<1>1. g.lenA \in Nat /\ g.lenM \in Nat /\ g.ares \in 0 .. B - 1
    BY LimitIsNat, GcmAssumption DEF Context, Order, Fields, AadFields
<1> QED BY <1>1, CeilDivNat, DivMod DEF Context, Order, Fields

LEMMA FreshContext == Context(SetIv)
<1>1. SetIv.Xi = {}
    BY DEF SetIv
<1> QED BY <1>1, FreshOrder DEF Context, Polynomials

LEMMA AadKeepsContext ==
    ASSUME NEW g, Context(g), NEW in \in Seq(Nat), AadAccepts(g, in)
    PROVE  Context(Aad(g, in))
<1>1. Order(Aad(g, in))
    BY LenProperties, AadKeepsOrder DEF Context
<1>2. g.ares \in Nat /\ g.ares % B = g.ares /\ "aad" \in Sources
    BY ContextTypes, ResidueDivMod DEF Sources
<1>3. Absorb(g.Xi, "aad", g.ares % B, in) \in Polynomials
    BY <1>2, AbsorbTypes DEF Context
<1>4. Aad(g, in).Xi = Absorb(g.Xi, "aad", g.ares, in)
    BY ContextTypes, AadIs
<1> QED BY <1>1, <1>2, <1>3, <1>4 DEF Context

LEMMA ClosedTypes == ASSUME NEW g, Context(g) PROVE AadClosed(g) \in Polynomials
<1>1. 1 \in Int
    OBVIOUS
<1> QED BY <1>1, MulKeepsTerms DEF AadClosed, Context

LEMMA CryptKeepsContext ==
    ASSUME NEW g, Context(g), NEW in \in Seq(Nat), CryptAccepts(g, in)
    PROVE  Context(Crypt(g, in))
<1>1. Order(Crypt(g, in))
    BY LenProperties, CryptKeepsOrder DEF Context
<1>2. g.lenM \in Nat /\ g.mres = g.lenM % B /\ "msg" \in Sources
    BY ContextTypes DEF Sources
<1>3. Absorb(AadClosed(g), "msg", g.lenM % B, in) \in Polynomials
    BY <1>2, ClosedTypes, AbsorbTypes
<1>4. Crypt(g, in).Xi = Absorb(AadClosed(g), "msg", g.mres, in)
    BY CryptIs
<1> QED BY <1>1, <1>2, <1>3, <1>4 DEF Context

\* What CRYPTO_gcm128_finish hashes: Xi with open blocks closed, and the lengths.
ClosedXi(g) == IF g.mres # 0 \/ g.ares # 0 THEN Mul(g.Xi, 1) ELSE g.Xi
WithLengths(g) == Mul(SymDiff(ClosedXi(g), Lengths(g)), 1)

LEMMA TagValueIs == ASSUME NEW g PROVE TagValue(g) = SymDiff(WithLengths(g), EK0)
BY Zenon DEF TagValue, WithLengths, ClosedXi

LEMMA LengthsTypes ==
    ASSUME NEW g, Context(g)
    PROVE  /\ Lengths(g) \in Polynomials /\ \A t \in Lengths(g) : t.src \in {"lenA", "lenM"}
           /\ EK0 \in Polynomials /\ \A t \in EK0 : t.src = "EK0" /\ t.pow = 0
<1>1. /\ g.lenA \in Nat /\ g.lenM \in Nat /\ 0 \in Nat /\ 1 \in Nat /\ 0 \in Int
      /\ "lenA" \in Sources /\ "lenM" \in Sources /\ "EK0" \in Sources
    BY ContextTypes DEF Sources
<1>2. Lengths(g) \in Polynomials
    BY <1>1, TermIs DEF Lengths, Polynomials
<1>3. EK0 \in Polynomials
    BY <1>1, TermIs DEF EK0, Polynomials
<1>4. \A t \in Lengths(g) : t.src \in {"lenA", "lenM"}
    BY TermIs DEF Lengths
<1>5. \A t \in EK0 : t.src = "EK0" /\ t.pow = 0
    BY TermIs DEF EK0
<1> QED BY <1>2, <1>3, <1>4, <1>5

LEMMA FinishTypes ==
    ASSUME NEW g, Context(g)
    PROVE  /\ ClosedXi(g) \in Polynomials
           /\ SymDiff(ClosedXi(g), Lengths(g)) \in Polynomials
           /\ WithLengths(g) \in Polynomials
           /\ TagValue(g) \in Polynomials
<1>0. 1 \in Int
    OBVIOUS
<1>1. ClosedXi(g) \in Polynomials
    BY <1>0, MulKeepsTerms DEF ClosedXi, Context
<1>2. SymDiff(ClosedXi(g), Lengths(g)) \in Polynomials
    BY <1>1, LengthsTypes, SumTypes
<1>3. WithLengths(g) \in Polynomials
    BY <1>0, <1>2, MulKeepsTerms DEF WithLengths
<1>4. TagValue(g) \in Polynomials
    BY <1>3, LengthsTypes, SumTypes, TagValueIs
<1> QED BY <1>1, <1>2, <1>3, <1>4

LEMMA FinishKeepsContext ==
    ASSUME NEW g, Context(g)
    PROVE  Context(Finish(g))
<1>1. Order(Finish(g))
    BY FinishKeepsOrder DEF Context
<1>2. Finish(g).Xi = TagValue(g)
    BY ContextTypes, FinishIs
<1> QED BY <1>1, <1>2, FinishTypes DEF Context

-----------------------------------------------------------------------------
\* The context has hashed the AAD a and the message m, block by block.  An open block
\* of AAD that a message call closed counts as closed; nothing more may be added to
\* it.
ClosedAad(g) == IF g.ares = 0 THEN CeilDiv(g.lenA) ELSE g.lenA \div B

AadPlaced(g) == /\ IF g.padAt = 0 THEN g.ares = g.lenA % B
                   ELSE g.padAt = g.lenA /\ g.lenA % B # 0 /\ g.ares = 0
                /\ g.ares # 0 => g.lenM = 0

IsHash(g, a, m) ==
    g.Xi = Poly("aad", a, ClosedAad(g) + (g.lenM \div B)) \cup Poly("msg", m, g.lenM \div B)

Hashed(g, a, m) == /\ a \in Seq(Nat) /\ Len(a) = g.lenA
                   /\ m \in Seq(Nat) /\ Len(m) = g.lenM
                   /\ AadPlaced(g)
                   /\ IsHash(g, a, m)

LEMMA FreshHashed ==
    ASSUME NEW a \in Seq(Nat), Len(a) = 0, NEW m \in Seq(Nat), Len(m) = 0
    PROVE  Hashed(SetIv, a, m)
<1>1. /\ SetIv.Xi = {} /\ SetIv.lenA = 0 /\ SetIv.lenM = 0 /\ SetIv.ares = 0
      /\ SetIv.padAt = 0
    BY DEF SetIv
<1>2. AadPlaced(SetIv)
    BY <1>1, ZeroDivMod DEF AadPlaced
<1>3. IsHash(SetIv, a, m)
    BY <1>1, PolyOfNothing DEF IsHash
<1> QED BY <1>1, <1>2, <1>3 DEF Hashed

LEMMA HashedTypes ==
    ASSUME NEW g, Context(g), NEW a, NEW m, Hashed(g, a, m)
    PROVE  /\ ClosedAad(g) \in Nat
           /\ g.padAt = 0 => ClosedAad(g) = g.lenA \div B
           /\ g.padAt # 0 => ClosedAad(g) = CeilDiv(g.lenA)
           /\ g.padAt = 0 \/ g.padAt = g.lenA
           /\ ~AadSplit(g)
<1>1. /\ g.lenA \in Nat /\ g.lenA \div B \in Nat /\ CeilDiv(g.lenA) \in Nat
    BY ContextTypes
<1>2. CeilDiv(g.lenA) = IF g.lenA % B = 0 THEN g.lenA \div B ELSE (g.lenA \div B) + 1
    BY <1>1, CeilDivIs
<1>3. AadPlaced(g)
    BY DEF Hashed
<1> QED BY <1>1, <1>2, <1>3 DEF AadPlaced, ClosedAad, AadSplit

\* A call on no bytes leaves Xi alone.
LEMMA AbsorbNothing ==
    ASSUME NEW X \in Polynomials, NEW src \in Sources, NEW m \in Nat, NEW in \in Seq(Nat),
           Len(in) = 0
    PROVE  Absorb(X, src, m % B, in) = X
<1> DEFINE e == (m + Len(in)) \div B
<1>1. m + Len(in) = m /\ m \div B \in Nat
    BY DivMod
<1>2. Closed(m, in) = 0
    BY <1>1 DEF Closed
<1>3. 1 .. Len(in) = {}
    OBVIOUS
<1>4. Added(src, in, m, e) = {}
    BY <1>3 DEF Added, Part
<1> HIDE DEF e
<1>5. Absorb(X, src, m % B, in) = SymDiff(Mul(X, Closed(m, in)), Added(src, in, m, e))
    BY AbsorbIs DEF e
<1>6. Absorb(X, src, m % B, in) = SymDiff(Mul(X, 0), {})
    BY <1>2, <1>4, <1>5
<1> QED BY <1>6, MulZero, SumWithNothing

LEMMA JoinedIs ==
    ASSUME NEW s \in Seq(Nat), NEW in \in Seq(Nat)
    PROVE  s \o in \in Seq(Nat) /\ Len(s \o in) = Len(s) + Len(in)
BY ConcatProperties

LEMMA EmptyJoined ==
    ASSUME NEW s \in Seq(Nat), NEW in \in Seq(Nat), Len(in) = 0
    PROVE  s \o in = s /\ in \o s = s
BY EmptySeq, ConcatEmptySeq

\* CRYPTO_gcm128_aad goes on with the AAD, unless the open block was closed before.
LEMMA AadKeepsHashed ==
    ASSUME NEW g, Context(g), NEW a, NEW m, Hashed(g, a, m), NEW in \in Seq(Nat),
           AadAccepts(g, in), ~AadSplit(Aad(g, in))
    PROVE  Hashed(Aad(g, in), a \o in, m)
<1> DEFINE d == Aad(g, in)
           n == Len(in)
<1>1. /\ d.lenA = g.lenA + n /\ d.lenM = g.lenM /\ g.lenM = 0 /\ d.padAt = g.padAt
      /\ d.ares = Left(g.ares, n) /\ d.Xi = Absorb(g.Xi, "aad", g.ares, in)
    BY ContextTypes, AadIs DEF AadAccepts
<1>2. /\ g.lenA \in Nat /\ g.ares \in 0 .. B - 1 /\ g.ares \in Nat /\ g.ares % B = g.ares
      /\ n \in Nat /\ g.Xi \in Polynomials /\ "aad" \in Sources
    BY ContextTypes, ResidueDivMod, LenProperties DEF Sources
<1>3. a \in Seq(Nat) /\ Len(a) = g.lenA /\ m \in Seq(Nat) /\ Len(m) = 0
    BY <1>1 DEF Hashed
<1>4. a \o in \in Seq(Nat) /\ Len(a \o in) = g.lenA + n
    <2>1. a \o in \in Seq(Nat) /\ Len(a \o in) = Len(a) + Len(in)
        BY <1>3, JoinedIs, Zenon
    <2> QED BY <1>3, <2>1, Zenon
<1>5. ClosedAad(g) \in Nat /\ (g.padAt = 0 => ClosedAad(g) = g.lenA \div B)
      /\ (g.padAt = 0 \/ g.padAt = g.lenA)
    BY HashedTypes
<1>6. g.Xi = Poly("aad", a, ClosedAad(g)) /\ Poly("msg", m, 0) = {}
    <2>1. g.lenM \div B = 0 /\ ClosedAad(g) + 0 = ClosedAad(g)
        BY <1>1, <1>5, ZeroDivMod
    <2> QED BY <1>3, <2>1, PolyOfNothing DEF Hashed, IsHash
<1> HIDE DEF d, n
<1>7. ASSUME AadPlaced(d), d.Xi = Poly("aad", a \o in, ClosedAad(d)), ClosedAad(d) \in Nat
      PROVE  Hashed(d, a \o in, m)
    <2>1. d.lenM \div B = 0 /\ ClosedAad(d) + 0 = ClosedAad(d)
        BY <1>1, <1>7, ZeroDivMod
    <2>2. IsHash(d, a \o in, m)
        BY <1>6, <1>7, <2>1 DEF IsHash
    <2> QED BY <1>1, <1>3, <1>4, <1>7, <2>2 DEF Hashed
<1>8. CASE g.padAt # 0
    <2>1. n = 0
        BY <1>1, <1>2, <1>5, <1>8 DEF AadSplit, d
    <2>2. d.lenA = g.lenA /\ d.Xi = g.Xi /\ a \o in = a
        <3>1. Len(in) = 0
            BY <2>1 DEF n
        <3>2. Absorb(g.Xi, "aad", g.ares % B, in) = g.Xi
            BY <1>2, <3>1, AbsorbNothing
        <3>3. a \o in = a
            BY <1>3, <3>1, EmptyJoined
        <3> QED BY <1>1, <1>2, <2>1, <3>2, <3>3
    <2>3. d.ares = g.ares
        <3>1. Cut(g.ares, 0) /\ g.ares + 0 = g.ares
            BY <1>2, CutHolds
        <3> QED BY <1>1, <1>2, <2>1, <3>1 DEF Cut
    <2>4. AadPlaced(d)
        BY <1>1, <2>2, <2>3 DEF Hashed, AadPlaced
    <2>5. ClosedAad(d) = ClosedAad(g)
        BY <2>2, <2>3 DEF ClosedAad
    <2> QED BY <1>5, <1>6, <1>7, <2>2, <2>4, <2>5 DEF d
<1>9. CASE g.padAt = 0
    <2> DEFINE e == (g.lenA + n) \div B
               c == g.lenA \div B
    <2>1. g.ares = g.lenA % B /\ ClosedAad(g) = c
        BY <1>5, <1>9 DEF Hashed, AadPlaced
    <2>2. d.ares = (g.lenA + n) % B
        <3>1. Cut(g.lenA, n)
            BY <1>2, CutHolds
        <3> QED BY <1>1, <2>1, <3>1 DEF Cut
    <2>3. AadPlaced(d)
        BY <1>1, <1>9, <2>2 DEF AadPlaced
    <2>4. ClosedAad(d) = e /\ e \in Nat
        <3>1. g.lenA + n \in Nat
            BY <1>2
        <3> QED BY <1>1, <2>2, <3>1, CeilDivIs, DivMod DEF ClosedAad
    <2> HIDE DEF c, e
    <2>5. d.Xi = Poly("aad", a \o in, e)
        <3> DEFINE O == {}
        <3>1. O \in Polynomials /\ Avoids(O, "aad") /\ Mul(O, e - c) = {}
            BY DEF Polynomials, Avoids, Mul
        <3> DEFINE all == a \o in
                   x == e - c
        <3>2. Follows(a, in, all, c, e, x, g.ares)
            BY <1>3, <2>1 DEF n, c, e, Follows
        <3>4. Poly("aad", a, c) \cup O = g.Xi
            BY <1>6, <2>1
        <3>5. Poly("aad", a \o in, e) \cup {} = Poly("aad", a \o in, e)
            OBVIOUS
        <3> HIDE DEF O, all, x
        <3>3. Absorb(Poly("aad", a, c) \cup O, "aad", g.ares, in)
                = Poly("aad", all, e) \cup Mul(O, x)
            BY <1>2, <1>3, <3>1, <3>2, AbsorbGrows
        <3> QED BY <1>1, <3>1, <3>3, <3>4, <3>5 DEF all, x, O
    <2> QED BY <1>7, <2>3, <2>4, <2>5 DEF d
<1> QED BY <1>8, <1>9 DEF d

\* The AAD as it stands once its last block is closed.
LEMMA ClosedIsHash ==
    ASSUME NEW g, Context(g), NEW a, NEW m, Hashed(g, a, m),
           NEW c, c = g.lenM \div B, NEW A, A = CeilDiv(g.lenA)
    PROVE  /\ c \in Nat /\ A \in Nat
           /\ AadClosed(g) = Poly("aad", a, A + c) \cup Poly("msg", m, c)
           /\ g.ares # 0 => c = 0 /\ g.mres = 0
<1>1. /\ g.lenA \in Nat /\ g.lenA \div B \in Nat /\ c \in Nat /\ A \in Nat
      /\ g.mres = g.lenM % B
    BY ContextTypes
<1>2. A = IF g.lenA % B = 0 THEN g.lenA \div B ELSE (g.lenA \div B) + 1
    BY <1>1, CeilDivIs
<1>3. /\ a \in Seq(Nat) /\ m \in Seq(Nat) /\ Len(m) = g.lenM
      /\ g.Xi = Poly("aad", a, ClosedAad(g) + c) \cup Poly("msg", m, c)
    BY DEF Hashed, IsHash
<1>4. CASE g.ares = 0
    <2>1. ClosedAad(g) = A /\ AadClosed(g) = g.Xi
        BY <1>4 DEF ClosedAad, AadClosed
    <2> QED BY <1>1, <1>3, <1>4, <2>1
<1>5. CASE g.ares # 0
    <2>1. g.lenM = 0 /\ g.lenA % B # 0
        BY <1>5 DEF Hashed, AadPlaced
    <2>2. c = 0 /\ g.mres = 0
        BY <1>1, <2>1, ZeroDivMod
    <2> DEFINE q == g.lenA \div B
    <2>3. ClosedAad(g) = q /\ A = q + 1 /\ AadClosed(g) = Mul(g.Xi, 1)
        BY <1>2, <1>5, <2>1 DEF ClosedAad, AadClosed
    <2>4. Poly("msg", m, c) = {}
        BY <1>3, <2>1, PolyOfNothing
    <2>5. q \in Int /\ 1 \in Int /\ "aad" \in Sources /\ q + 0 = q /\ A + 0 = A
        BY <1>1, <2>3 DEF Sources
    <2> HIDE DEF q
    <2>6. g.Xi = Poly("aad", a, q)
        BY <1>3, <2>2, <2>3, <2>4, <2>5
    <2>7. Mul(Poly("aad", a, q), 1) = Poly("aad", a, q + 1)
        BY <1>3, <2>5, PolyTypes
    <2> QED BY <1>1, <2>2, <2>3, <2>4, <2>5, <2>6, <2>7
<1> QED BY <1>4, <1>5

\* CRYPTO_gcm128_encrypt_ctr32 and decrypt_ctr32 go on with the message.
LEMMA CryptKeepsHashed ==
    ASSUME NEW g, Context(g), NEW a, NEW m, Hashed(g, a, m), NEW in \in Seq(Nat),
           CryptAccepts(g, in)
    PROVE  Hashed(Crypt(g, in), a, m \o in)
<1> DEFINE f == Crypt(g, in)
           n == Len(in)
           A == CeilDiv(g.lenA)
           c == g.lenM \div B
           e == (g.lenM + n) \div B
           all == m \o in
           x == e - c
           O == Poly("aad", a, A + c)
<1>1. /\ f.lenA = g.lenA /\ f.lenM = g.lenM + n /\ f.ares = 0 /\ f.padAt = PadAfter(g)
      /\ f.Xi = Absorb(AadClosed(g), "msg", g.mres, in)
    BY CryptIs
<1>2. /\ g.lenM \in Nat /\ g.mres = g.lenM % B /\ "aad" \in Sources /\ "msg" \in Sources
      /\ n \in Nat /\ "aad" # "msg"
    BY ContextTypes, LenProperties DEF Sources
<1>3. a \in Seq(Nat) /\ Len(a) = g.lenA /\ m \in Seq(Nat) /\ Len(m) = g.lenM /\ AadPlaced(g)
    BY DEF Hashed
<1>4. all \in Seq(Nat) /\ Len(all) = g.lenM + n
    <2>1. all \in Seq(Nat) /\ Len(all) = Len(m) + Len(in)
        BY <1>3, JoinedIs, Zenon
    <2> QED BY <1>3, <2>1, Zenon
<1>5. c \in Nat /\ A \in Nat /\ AadClosed(g) = O \cup Poly("msg", m, c)
    BY ClosedIsHash
<1>6. Follows(m, in, all, c, e, x, g.mres)
    BY <1>2, <1>3 DEF Follows
<1>7. f.lenM \div B = e /\ e \in Int /\ A + e \in Int /\ A + c \in Int /\ x \in Int
      /\ (A + c) + x = A + e
    <2>1. g.lenM + n \in Nat
        BY <1>2
    <2>2. e \in Nat
        BY <2>1, DivMod
    <2> HIDE DEF e, c, A
    <2> QED BY <1>1, <1>5, <2>2 DEF e
<1> HIDE DEF f, n, A, c, e, all, x
<1>8. O \in Polynomials /\ Avoids(O, "msg") /\ Mul(O, x) = Poly("aad", a, A + e)
    <2> DEFINE E == A + c
    <2>1. E \in Int
        BY <1>7
    <2> HIDE DEF E
    <2>2. /\ Poly("aad", a, E) \in Polynomials /\ Avoids(Poly("aad", a, E), "msg")
          /\ Mul(Poly("aad", a, E), x) = Poly("aad", a, E + x)
        BY <1>2, <1>3, <1>7, <2>1, PolyTypes
    <2> QED BY <1>7, <2>2 DEF E
<1> HIDE DEF O
<1>9. Absorb(Poly("msg", m, c) \cup O, "msg", g.mres, in) = Poly("msg", all, e) \cup Mul(O, x)
    <2>1. m \in Seq(Nat) /\ "msg" \in Sources /\ O \in Polynomials /\ Avoids(O, "msg")
        BY <1>2, <1>3, <1>8
    <2> QED BY <1>6, <2>1, AbsorbGrows
<1>10. f.Xi = Poly("aad", a, A + e) \cup Poly("msg", all, e)
    <2>1. AadClosed(g) = Poly("msg", m, c) \cup O
        BY <1>5
    <2> QED BY <1>1, <1>8, <1>9, <2>1
<1>11. IsHash(f, a, all)
    <2>1. ClosedAad(f) = A
        BY <1>1 DEF ClosedAad, A
    <2> QED BY <1>7, <1>10, <2>1 DEF IsHash
<1>12. AadPlaced(f)
    <2>1. CASE g.ares = 0
        <3>1. f.padAt = g.padAt
            BY <1>1, <2>1 DEF PadAfter
        <3> QED BY <1>1, <1>3, <2>1, <3>1 DEF AadPlaced
    <2>2. CASE g.ares # 0
        <3>1. g.padAt = 0 /\ g.lenA % B # 0
            BY <1>3, <2>2 DEF AadPlaced
        <3>2. f.padAt = g.lenA
            BY <1>1, <2>2, <3>1 DEF PadAfter
        <3>3. g.lenA # 0
            BY <3>1, ZeroDivMod
        <3> QED BY <1>1, <3>1, <3>2, <3>3 DEF AadPlaced
    <2> QED BY <2>1, <2>2
<1> QED BY <1>1, <1>3, <1>4, <1>11, <1>12 DEF Hashed, f, all

-----------------------------------------------------------------------------
\* The reference tag, and CRYPTO_gcm128_finish.
LengthTerms(a, m) == {Term("lenA", a, 0, 1), Term("lenM", m, 1, 1)}

LEMMA ReferenceIs ==
    ASSUME NEW a \in Seq(Nat), NEW m \in Seq(Nat),
           NEW A, A = CeilDiv(Len(a)), NEW M, M = CeilDiv(Len(m))
    PROVE  ReferenceTag(a, m)
             = (Poly("aad", a, A + M + 1) \cup Poly("msg", m, M + 1)
                \cup LengthTerms(Len(a), Len(m))) \cup EK0
<1> DEFINE n == A + M + 1
           k == n - A
<1>1. A \in Nat /\ M \in Nat
    BY LenProperties, CeilDivNat
<1>2. k = M + 1
    BY <1>1
<1>3. DOMAIN a = 1 .. Len(a) /\ DOMAIN m = 1 .. Len(m)
    BY LenProperties
<1>4. ReferenceTag(a, m)
        = {Term("aad", a[i], (i - 1) % B, n - (i - 1) \div B) : i \in DOMAIN a}
          \cup {Term("msg", m[i], (i - 1) % B, k - (i - 1) \div B) : i \in DOMAIN m}
          \cup LengthTerms(Len(a), Len(m)) \cup EK0
    BY Zenon DEF ReferenceTag, LengthTerms, EK0
<1> HIDE DEF n, k
<1>5. {Term("aad", a[i], (i - 1) % B, n - (i - 1) \div B) : i \in DOMAIN a} = Poly("aad", a, n)
    <2>1. \A j \in 1 .. Len(a) : 0 + j = j
        OBVIOUS
    <2> QED BY <1>3, <2>1 DEF Poly, Added, Part, ByteTerm
<1>6. {Term("msg", m[i], (i - 1) % B, k - (i - 1) \div B) : i \in DOMAIN m} = Poly("msg", m, k)
    <2>1. \A j \in 1 .. Len(m) : 0 + j = j
        OBVIOUS
    <2> QED BY <1>3, <2>1 DEF Poly, Added, Part, ByteTerm
<1> QED BY <1>2, <1>4, <1>5, <1>6 DEF n

LEMMA ClosedXiIs ==
    ASSUME NEW g, Context(g), NEW a, NEW m, Hashed(g, a, m),
           NEW A, A = CeilDiv(Len(a)), NEW M, M = CeilDiv(Len(m))
    PROVE  /\ A \in Nat /\ M \in Nat
           /\ ClosedXi(g) = Poly("aad", a, A + M) \cup Poly("msg", m, M)
<1> DEFINE c == g.lenM \div B
<1>1. /\ a \in Seq(Nat) /\ m \in Seq(Nat) /\ A = CeilDiv(g.lenA) /\ M = CeilDiv(g.lenM)
      /\ g.lenM \in Nat /\ g.mres = g.lenM % B
    BY ContextTypes DEF Hashed
<1>2. /\ c \in Nat /\ A \in Nat
      /\ AadClosed(g) = Poly("aad", a, A + c) \cup Poly("msg", m, c)
      /\ g.ares # 0 => c = 0 /\ g.mres = 0
    BY <1>1, ClosedIsHash
<1>3. M = IF g.mres = 0 THEN c ELSE c + 1
    BY <1>1, CeilDivIs
<1> HIDE DEF c
<1>4. CASE g.mres = 0
    <2>1. ClosedXi(g) = AadClosed(g)
        BY <1>4 DEF ClosedXi, AadClosed
    <2> QED BY <1>2, <1>3, <1>4, <2>1
<1>5. CASE g.mres # 0
    <2>1. g.ares = 0
        BY <1>2, <1>5
    <2>2. ClosedXi(g) = Mul(AadClosed(g), 1)
        BY <1>5, <2>1 DEF ClosedXi, AadClosed
    <2> DEFINE E == A + c
    <2>3. E \in Int /\ c \in Int /\ 1 \in Int /\ "aad" \in Sources /\ "msg" \in Sources
          /\ M = c + 1 /\ A + M = E + 1
        BY <1>2, <1>3, <1>5 DEF Sources
    <2>4. AadClosed(g) = Poly("aad", a, E) \cup Poly("msg", m, c)
        BY <1>2
    <2> HIDE DEF E
    <2>5. Mul(Poly("aad", a, E), 1) = Poly("aad", a, E + 1)
        BY <1>1, <2>3, PolyTypes
    <2>6. Mul(Poly("msg", m, c), 1) = Poly("msg", m, c + 1)
        BY <1>1, <2>3, PolyTypes
    <2>7. Mul(AadClosed(g), 1) = Mul(Poly("aad", a, E), 1) \cup Mul(Poly("msg", m, c), 1)
        BY <2>4, MulUnion
    <2>8. M \in Nat
        BY <1>2, <2>3
    <2> HIDE DEF E
    <2>9. ClosedXi(g) = Poly("aad", a, E + 1) \cup Poly("msg", m, c + 1)
        BY <2>2, <2>5, <2>6, <2>7
    <2> QED BY <1>2, <2>3, <2>8, <2>9
<1> QED BY <1>4, <1>5

\* The tag of what was hashed is the tag of the standard.
LEMMA FinishIsReference ==
    ASSUME NEW g, Context(g), NEW a, NEW m, Hashed(g, a, m)
    PROVE  TagValue(g) = ReferenceTag(a, m)
<1> DEFINE A == CeilDiv(Len(a))
           M == CeilDiv(Len(m))
           P == Poly("aad", a, A + M)
           Q == Poly("msg", m, M)
           L == Lengths(g)
<1>1. a \in Seq(Nat) /\ m \in Seq(Nat) /\ Len(a) = g.lenA /\ Len(m) = g.lenM
    BY DEF Hashed
<1>2. A \in Nat /\ M \in Nat /\ ClosedXi(g) = P \cup Q
    BY ClosedXiIs
<1>3. ReferenceTag(a, m)
        = (Poly("aad", a, A + M + 1) \cup Poly("msg", m, M + 1)
           \cup LengthTerms(Len(a), Len(m))) \cup EK0
    BY <1>1, ReferenceIs
<1> DEFINE E == A + M
<1>4. /\ E \in Int /\ M \in Int /\ 1 \in Int /\ "aad" \in Sources /\ "msg" \in Sources
      /\ "EK0" # "aad" /\ "EK0" # "msg" /\ "lenA" # "aad" /\ "lenA" # "msg"
      /\ "lenM" # "aad" /\ "lenM" # "msg"
    BY <1>2 DEF Sources
<1> HIDE DEF A, M
<1>5. P = Poly("aad", a, E)
    OBVIOUS
<1> HIDE DEF P, Q, L, E
<1>6. /\ P \in Polynomials /\ Mul(P, 1) = Poly("aad", a, E + 1)
      /\ \A t \in P : t.src = "aad"
    <2>1. \A t \in Added("aad", a, 0, E) : t.src = "aad"
        <3>1. 0 \in Nat
            OBVIOUS
        <3> QED BY <1>1, <1>4, <3>1, AddedIs
    <2> QED BY <1>1, <1>4, <1>5, <2>1, PolyTypes DEF Poly
<1>7. /\ Q \in Polynomials /\ Mul(Q, 1) = Poly("msg", m, M + 1)
      /\ \A t \in Q : t.src = "msg"
    <2>1. \A t \in Added("msg", m, 0, M) : t.src = "msg"
        <3>1. 0 \in Nat
            OBVIOUS
        <3> QED BY <1>1, <1>4, <3>1, AddedIs
    <2> QED BY <1>1, <1>4, <2>1, PolyTypes DEF Poly, Q
<1>8. \A t \in L : t.src \in {"lenA", "lenM"}
    BY LengthsTypes DEF L
<1>9. SymDiff(ClosedXi(g), L) = (P \cup Q) \cup L
    <2>1. (P \cup Q) \cap L = {}
        BY <1>4, <1>6, <1>7, <1>8
    <2> QED BY <1>2, <2>1, SumOfDisjoint
<1>10. Mul(L, 1) = LengthTerms(g.lenA, g.lenM)
    <2>1. /\ Times(Term("lenA", g.lenA, 0, 0), 1) = Term("lenA", g.lenA, 0, 1)
          /\ Times(Term("lenM", g.lenM, 1, 0), 1) = Term("lenM", g.lenM, 1, 1)
        <3>1. 0 + 1 = 1
            OBVIOUS
        <3> QED BY <3>1, TermTimes
    <2> QED BY <2>1, MulIs DEF L, Lengths, LengthTerms
<1>11. WithLengths(g) = (Poly("aad", a, E + 1) \cup Poly("msg", m, M + 1))
                          \cup LengthTerms(g.lenA, g.lenM)
    <2>1. WithLengths(g) = Mul((P \cup Q) \cup L, 1)
        BY <1>9 DEF WithLengths, L
    <2>2. Mul((P \cup Q) \cup L, 1) = (Mul(P, 1) \cup Mul(Q, 1)) \cup Mul(L, 1)
        <3>1. Mul(P \cup Q, 1) = Mul(P, 1) \cup Mul(Q, 1)
            BY MulUnion
        <3> DEFINE PQ == P \cup Q
        <3> HIDE DEF PQ
        <3>2. Mul(PQ \cup L, 1) = Mul(PQ, 1) \cup Mul(L, 1)
            BY MulUnion
        <3> QED BY <3>1, <3>2 DEF PQ
    <2>3. /\ Mul(P, 1) = Poly("aad", a, E + 1)
          /\ Mul(Q, 1) = Poly("msg", m, M + 1)
        BY <1>6, <1>7
    <2> QED BY <1>10, <2>1, <2>2, <2>3, Zenon
<1>12. WithLengths(g) \cap EK0 = {}
    <2>1. \A t \in P \cup Q \cup L : t \in Terms /\ t.src # "EK0"
        BY <1>4, <1>6, <1>7, <1>8, LengthsTypes DEF L, Polynomials
    <2>2. \A t \in P \cup Q \cup L : Times(t, 1).src = t.src
        BY <1>4, <2>1, TimesIs
    <2>3. WithLengths(g) = {Times(t, 1) : t \in (P \cup Q) \cup L}
        BY <1>9, MulIs DEF WithLengths, L
    <2>4. \A t \in EK0 : t.src = "EK0"
        BY LengthsTypes
    <2> QED BY <2>1, <2>2, <2>3, <2>4
<1>13. TagValue(g) = WithLengths(g) \cup EK0
    BY <1>12, TagValueIs, SumOfDisjoint
<1>14. E + 1 = A + M + 1
    BY DEF E
<1> QED BY <1>1, <1>3, <1>11, <1>13, <1>14

-----------------------------------------------------------------------------
\* A term that no reference tag of AAD 1, 2, 3, ... has, and that no later call takes
\* out of Xi: a byte of AAD at an offset that is not its own, or the mask of a tag that
\* was multiplied by H.
Bad(t, n) == \/ t.src = "aad" /\ t.byte \in 1 .. n /\ t.off # (t.byte - 1) % B
             \/ t.src = "EK0" /\ t.pow \in Nat

Spoiled(g) == \E t \in g.Xi : Bad(t, g.lenA)

LEMMA BadStays ==
    ASSUME NEW t \in Terms, NEW n \in Nat, NEW k \in Nat, n <= k, Bad(t, n), NEW d \in Nat
    PROVE  /\ Bad(Times(t, d), k)
           /\ t.src = "EK0" => Times(t, d).pow >= d
           /\ t.src \in {"aad", "EK0"} /\ Times(t, d).src = t.src
<1>1. /\ Times(t, d).src = t.src /\ Times(t, d).byte = t.byte
      /\ Times(t, d).off = t.off /\ Times(t, d).pow = t.pow + d
    BY TimesIs
<1>2. t.byte \in 1 .. n => t.byte \in 1 .. k
    OBVIOUS
<1>3. t.src = "EK0" => t.pow \in Nat /\ t.pow + d \in Nat /\ t.pow + d >= d
    BY DEF Bad
<1> DEFINE u == Times(t, d)
<1>4. /\ u.src = t.src /\ u.byte = t.byte /\ u.off = t.off /\ u.pow = t.pow + d
    BY <1>1
<1> HIDE DEF u
<1>5. Bad(u, k)
    <2>1. CASE t.src = "aad" /\ t.byte \in 1 .. n /\ t.off # (t.byte - 1) % B
        BY <1>2, <1>4, <2>1 DEF Bad
    <2>2. CASE t.src = "EK0" /\ t.pow \in Nat
        BY <1>3, <1>4, <2>2 DEF Bad
    <2> QED BY <2>1, <2>2 DEF Bad
<1>6. t.src \in {"aad", "EK0"}
    BY DEF Bad
<1> QED BY <1>3, <1>4, <1>5, <1>6 DEF u

LEMMA AadKeepsSpoiled ==
    ASSUME NEW g, Context(g), Spoiled(g), NEW in \in Seq(Nat), AadAccepts(g, in),
           \A j \in 1 .. Len(in) : in[j] > g.lenA
    PROVE  Spoiled(Aad(g, in))
<1> DEFINE d == Aad(g, in)
<1>1. PICK t \in g.Xi : Bad(t, g.lenA)
    BY DEF Spoiled
<1>2. d.lenA = g.lenA + Len(in) /\ d.Xi = Absorb(g.Xi, "aad", g.ares, in)
    BY ContextTypes, AadIs
<1>3. /\ g.lenA \in Nat /\ Len(in) \in Nat /\ g.ares \in Nat /\ g.ares % B = g.ares
      /\ "aad" \in Sources /\ g.Xi \in Polynomials
    BY ContextTypes, ResidueDivMod, LenProperties DEF Sources
<1>4. t.src # "aad" \/ \A j \in 1 .. Len(in) : t.byte # in[j]
    <2> SUFFICES ASSUME t.src = "aad", NEW j \in 1 .. Len(in) PROVE t.byte # in[j]
        OBVIOUS
    <2>1. t.byte \in 1 .. g.lenA
        BY <1>1 DEF Bad
    <2>2. in[j] \in Nat /\ in[j] > g.lenA
        BY <1>3, ElementOfSeq
    <2> QED BY <1>3, <2>1, <2>2
<1>5. PICK x \in Nat : Times(t, x) \in Absorb(g.Xi, "aad", g.ares % B, in)
    BY <1>3, <1>4, AbsorbKeepsTerm
<1> HIDE DEF d
<1>6. Bad(Times(t, x), d.lenA)
    <2>1. t \in Terms /\ d.lenA \in Nat /\ g.lenA <= d.lenA
        BY <1>2, <1>3 DEF Polynomials
    <2> QED BY <1>1, <1>3, <2>1, BadStays
<1> QED BY <1>2, <1>3, <1>5, <1>6 DEF Spoiled, d

LEMMA CryptKeepsSpoiled ==
    ASSUME NEW g, Context(g), Spoiled(g), NEW in \in Seq(Nat)
    PROVE  Spoiled(Crypt(g, in))
<1> DEFINE f == Crypt(g, in)
           C == AadClosed(g)
<1>1. PICK t \in g.Xi : Bad(t, g.lenA)
    BY DEF Spoiled
<1>2. f.lenA = g.lenA /\ f.Xi = Absorb(C, "msg", g.mres, in)
    BY CryptIs
<1>3. /\ g.lenA \in Nat /\ g.lenM \in Nat /\ g.mres = g.lenM % B
      /\ "msg" \in Sources /\ "msg" # "aad" /\ "msg" # "EK0" /\ g.Xi \in Polynomials
    BY ContextTypes DEF Sources
<1>4. C \in Polynomials
    BY ClosedTypes
<1>5. \E x \in Nat : Times(t, x) \in C
    <2>1. CASE g.ares = 0
        <3>1. Times(t, 0) = t /\ 0 \in Nat
            <4>1. t \in Terms /\ 0 \in Int /\ 0 \in Nat
                BY <1>3 DEF Polynomials
            <4> QED BY <4>1, TimesIs
        <3> QED BY <2>1, <3>1 DEF AadClosed
    <2>2. CASE g.ares # 0
        <3>1. 1 \in Nat /\ Times(t, 1) \in Mul(g.Xi, 1)
            BY MulIs
        <3> QED BY <2>2, <3>1 DEF AadClosed
    <2> QED BY <2>1, <2>2
<1>6. PICK x \in Nat : Times(t, x) \in C
    BY <1>5
<1> DEFINE u == Times(t, x)
<1>7. Bad(u, g.lenA) /\ u.src # "msg" /\ u \in C /\ u \in Terms
    <2>1. t \in Terms /\ g.lenA <= g.lenA
        BY <1>3 DEF Polynomials
    <2>2. Bad(Times(t, x), g.lenA) /\ t.src \in {"aad", "EK0"} /\ Times(t, x).src = t.src
        BY <1>1, <1>3, <2>1, BadStays
    <2> QED BY <1>3, <1>4, <1>6, <2>2 DEF Polynomials
<1> HIDE DEF u, C, f
<1>8. PICK y \in Nat : Times(u, y) \in Absorb(C, "msg", g.lenM % B, in)
    BY <1>3, <1>4, <1>7, AbsorbKeepsTerm
<1>9. Bad(Times(u, y), g.lenA)
    <2>1. g.lenA <= g.lenA
        BY <1>3
    <2> QED BY <1>3, <1>7, <2>1, BadStays
<1> QED BY <1>2, <1>3, <1>8, <1>9 DEF Spoiled, f, C

\* What CRYPTO_gcm128_finish does with such a term.
SpoiledTag(X) == \E t \in X : \/ t.src = "aad" /\ t.off # (t.byte - 1) % B
                              \/ t.src = "EK0" /\ t.pow > 0

LEMMA FinishKeepsSpoiled ==
    ASSUME NEW g, Context(g), Spoiled(g)
    PROVE  SpoiledTag(TagValue(g)) /\ Spoiled(Finish(g))
<1> DEFINE f == Finish(g)
           C == ClosedXi(g)
           S == SymDiff(C, Lengths(g))
<1>1. PICK t \in g.Xi : Bad(t, g.lenA)
    BY DEF Spoiled
<1>2. f.lenA = g.lenA /\ f.Xi = TagValue(g)
    BY ContextTypes, FinishIs
<1>3. g.lenA \in Nat /\ g.lenA <= g.lenA /\ g.Xi \in Polynomials /\ t \in Terms
    BY ContextTypes DEF Polynomials
<1>4. C \in Polynomials /\ S \in Polynomials
    BY FinishTypes
<1>5. \E x \in Nat : Times(t, x) \in C
    <2>1. CASE ~(g.mres # 0 \/ g.ares # 0)
        <3>1. Times(t, 0) = t /\ 0 \in Nat
            <4>1. 0 \in Int /\ 0 \in Nat
                OBVIOUS
            <4> QED BY <1>3, <4>1, TimesIs
        <3> QED BY <2>1, <3>1 DEF ClosedXi
    <2>2. CASE g.mres # 0 \/ g.ares # 0
        <3>1. 1 \in Nat /\ Times(t, 1) \in Mul(g.Xi, 1)
            BY MulIs
        <3> QED BY <2>2, <3>1 DEF ClosedXi
    <2> QED BY <2>1, <2>2
<1>6. PICK x \in Nat : Times(t, x) \in C
    BY <1>5
<1> DEFINE u == Times(t, x)
           w == Times(u, 1)
<1>7. Bad(u, g.lenA) /\ u.src \in {"aad", "EK0"} /\ u \in C /\ u \in Terms
    <2>1. Bad(Times(t, x), g.lenA) /\ t.src \in {"aad", "EK0"} /\ Times(t, x).src = t.src
        BY <1>1, <1>3, BadStays
    <2> QED BY <1>4, <1>6, <2>1 DEF Polynomials
<1> HIDE DEF u, C, f, S
<1>8. u \in S
    <2>1. "aad" # "lenA" /\ "aad" # "lenM" /\ "EK0" # "lenA" /\ "EK0" # "lenM"
        OBVIOUS
    <2>2. u \notin Lengths(g)
        BY <1>7, <2>1, LengthsTypes
    <2> QED BY <1>7, <2>2 DEF SymDiff, S
<1>9. w \in WithLengths(g)
    BY <1>8, MulIs DEF WithLengths, S, C
<1>10. 1 \in Nat
    OBVIOUS
<1>11. Bad(w, g.lenA) /\ (w.src = "EK0" => w.pow >= 1) /\ w.src = u.src
    BY <1>3, <1>7, <1>10, BadStays
<1> HIDE DEF w
<1>12. w \notin EK0
    <2>1. \A v \in EK0 : v.src = "EK0" /\ v.pow = 0
        BY LengthsTypes
    <2> QED BY <1>11, <2>1
<1>13. w \in TagValue(g)
    BY <1>9, <1>12, TagValueIs DEF SymDiff
<1>14. Spoiled(f)
    BY <1>2, <1>11, <1>13 DEF Spoiled
<1>15. SpoiledTag(TagValue(g))
    <2>1. w.src = "EK0" => w.pow > 0
        BY <1>11 DEF Bad
    <2> QED BY <1>11, <1>13, <2>1 DEF Bad, SpoiledTag
<1> QED BY <1>14, <1>15 DEF f

\* The mask of the tag stays in Xi.
LEMMA FinishSpoils ==
    ASSUME NEW g, Context(g), NEW a, NEW m, Hashed(g, a, m)
    PROVE  Spoiled(Finish(g))
<1> DEFINE t == Term("EK0", 1, 0, 0)
<1>1. Finish(g).Xi = ReferenceTag(a, m)
    BY ContextTypes, FinishIs, FinishIsReference
<1>2. a \in Seq(Nat) /\ m \in Seq(Nat)
    BY DEF Hashed
<1>3. EK0 \subseteq ReferenceTag(a, m)
    BY <1>2, ReferenceIs
<1>4. t \in EK0 /\ t.src = "EK0" /\ t.pow = 0
    BY TermIs DEF EK0
<1> HIDE DEF t
<1>5. Bad(t, Finish(g).lenA)
    BY <1>4 DEF Bad
<1> QED BY <1>1, <1>3, <1>4, <1>5 DEF Spoiled

\* A stream whose bytes are named 1, 2, 3, ...
LEMMA FromIs ==
    ASSUME NEW a \in Nat, NEW n \in Nat
    PROVE  /\ From(a, n) \in Seq(Nat) /\ Len(From(a, n)) = n
           /\ \A i \in 1 .. n : From(a, n)[i] = a + i
<1> DEFINE f == From(a, n)
<1>1. f = [i \in 1 .. n |-> a + i]
    BY DEF From
<1>2. \A i \in 1 .. n : a + i \in Nat
    OBVIOUS
<1>3. f \in Seq(Nat)
    BY <1>1, <1>2
<1>4. Len(f) = n /\ \A i \in 1 .. n : f[i] = a + i
    BY <1>1
<1> QED BY <1>3, <1>4

LEMMA FromJoins ==
    ASSUME NEW a \in Nat, NEW n \in Nat
    PROVE  From(0, a) \o From(a, n) = From(0, a + n)
<1>1. /\ From(0, a) = [i \in 1 .. a |-> 0 + i] /\ Len(From(0, a)) = a
      /\ From(a, n) = [i \in 1 .. n |-> a + i] /\ Len(From(a, n)) = n
      /\ From(0, a + n) = [i \in 1 .. a + n |-> 0 + i] /\ a + n \in Nat
    <2>1. 0 \in Nat
        OBVIOUS
    <2> QED BY <2>1, FromIs DEF From
<1>2. /\ From(0, a) \in Seq(Nat) /\ From(a, n) \in Seq(Nat) /\ From(0, a + n) \in Seq(Nat)
      /\ \A i \in 1 .. a : From(0, a)[i] = 0 + i
      /\ \A i \in 1 .. n : From(a, n)[i] = a + i
      /\ \A i \in 1 .. a + n : From(0, a + n)[i] = 0 + i
      /\ Len(From(0, a + n)) = a + n
    BY <1>1, FromIs
<1> DEFINE s == From(0, a)
           t == From(a, n)
           u == From(0, a + n)
           w == s \o t
<1>3. s \in Seq(Nat) /\ t \in Seq(Nat) /\ Len(s) = a /\ Len(t) = n
    BY <1>1, <1>2
<1>4. w \in Seq(Nat) /\ Len(w) = a + n
    <2>1. w \in Seq(Nat) /\ Len(w) = Len(s) + Len(t)
        BY <1>3, JoinedIs, Zenon
    <2> QED BY <1>3, <2>1, Zenon
<1>5. ASSUME NEW i \in 1 .. a + n PROVE w[i] = u[i]
    <2>1. w[i] = IF i <= a THEN s[i] ELSE t[i - a]
        BY <1>3, ConcatProperties
    <2>2. CASE i <= a
        <3>1. i \in 1 .. a
            BY <2>2
        <3> QED BY <1>2, <2>1, <2>2, <3>1
    <2>3. CASE ~(i <= a)
        <3>1. i - a \in 1 .. n /\ a + (i - a) = 0 + i
            BY <2>3
        <3>2. t[i - a] = a + (i - a)
            BY <1>2, <3>1
        <3> QED BY <1>2, <2>1, <2>3, <3>1, <3>2
    <2> QED BY <2>2, <2>3
<1>6. u \in Seq(Nat) /\ Len(u) = a + n
    BY <1>2
<1> HIDE DEF s, t, u, w
<1>7. w = u
    BY <1>4, <1>5, <1>6, SeqEqual
<1> QED BY <1>7 DEF s, t, u, w

LEMMA PolyElements ==
    ASSUME NEW src \in Sources, NEW s \in Seq(Nat), NEW c \in Int, NEW t \in Poly(src, s, c)
    PROVE  /\ t.src = src
           /\ \E j \in 1 .. Len(s) : t.byte = s[j] /\ t.off = (j - 1) % B
<1>1. 0 \in Nat
    OBVIOUS
<1>2. PICK j \in 1 .. Len(s) : t.src = src /\ t.byte = s[j] /\ t.off = (0 + j - 1) % B
    BY <1>1, AddedIs DEF Poly
<1>3. 0 + j - 1 = j - 1
    OBVIOUS
<1> QED BY <1>2, <1>3

LEMMA CeilDivLen ==
    ASSUME NEW s \in Seq(Nat), NEW u \in Seq(Nat)
    PROVE  /\ CeilDiv(Len(s)) \in Nat
           /\ CeilDiv(Len(s)) + 1 \in Int
           /\ CeilDiv(Len(s)) + CeilDiv(Len(u)) + 1 \in Int
<1>1. Len(s) \in Nat /\ Len(u) \in Nat
    BY LenProperties
<1> DEFINE x == CeilDiv(Len(s))
           y == CeilDiv(Len(u))
<1>2. x \in Nat /\ y \in Nat
    BY <1>1, CeilDivNat
<1> HIDE DEF x, y
<1>3. x \in Nat /\ x + 1 \in Int /\ x + y + 1 \in Int
    BY <1>2
<1> QED BY <1>3 DEF x, y

\* AAD that goes on after its open block was closed: its first byte takes offset 0 of a
\* new block, where the standard has it inside the old one.
LEMMA SplitSpoils ==
    ASSUME NEW g, Context(g), NEW a, NEW m, Hashed(g, a, m), NEW in \in Seq(Nat),
           AadAccepts(g, in), AadSplit(Aad(g, in)),
           \A i \in 1 .. Len(a) : a[i] <= g.lenA,
           Len(in) > 0 => in[1] = g.lenA + 1
    PROVE  Spoiled(Aad(g, in))
<1> DEFINE d == Aad(g, in)
           n == Len(in)
           e == (0 + n) \div B
           t == ByteTerm("aad", in[1], 0 + 1, e)
           x == Closed(0, in)
           C == ClosedAad(g) + (g.lenM \div B)
<1>1. /\ d.lenA = g.lenA + n /\ d.padAt = g.padAt
      /\ d.Xi = Absorb(g.Xi, "aad", g.ares, in)
    BY ContextTypes, AadIs
<1>2. /\ g.lenA \in Nat /\ n \in Nat /\ g.Xi \in Polynomials /\ "aad" \in Sources
      /\ g.lenM \div B \in Nat
    BY ContextTypes, LenProperties DEF Sources
<1>3. /\ a \in Seq(Nat) /\ m \in Seq(Nat) /\ Len(a) = g.lenA
      /\ g.Xi = Poly("aad", a, C) \cup Poly("msg", m, g.lenM \div B)
    BY DEF Hashed, IsHash
<1>4. g.padAt = g.lenA /\ g.lenA % B # 0 /\ g.ares = 0 /\ n > 0
    <2>1. g.padAt # 0
        BY <1>1 DEF AadSplit
    <2>2. g.padAt = g.lenA /\ g.lenA % B # 0 /\ g.ares = 0
        BY <2>1 DEF Hashed, AadPlaced
    <2> QED BY <1>1, <1>2, <2>2 DEF AadSplit
<1>5. C \in Int
    <2>1. ClosedAad(g) \in Nat
        BY HashedTypes
    <2> QED BY <1>2, <2>1
<1>6. e \in Int /\ 0 \in Nat /\ 0 % B = 0
    <2>1. 0 + n \in Nat
        BY <1>2
    <2> QED BY <2>1, DivMod, ZeroDivMod
<1>7. in[1] = g.lenA + 1 /\ 1 \in 1 .. n
    BY <1>2, <1>4
<1> HIDE DEF d, n, e, x, C
<1>8. /\ x \in Nat /\ d.Xi = SymDiff(Mul(g.Xi, x), Added("aad", in, 0, e))
    BY <1>1, <1>2, <1>4, <1>6, AbsorbIs DEF x, e, n
<1>9. t \in Added("aad", in, 0, e) /\ t.src = "aad" /\ t.byte = g.lenA + 1 /\ t.off = 0
    <2>1. t \in Added("aad", in, 0, e)
        BY <1>2, <1>6, <1>7, AddedIs DEF n
    <2>2. 0 + 1 \in Nat \ {0} /\ in[1] \in Nat /\ (0 + 1) - 1 = 0 /\ 0 \in Int
        BY <1>2, <1>7
    <2> DEFINE i == 0 + 1
               byte == in[1]
    <2>3. i \in Nat \ {0} /\ byte \in Nat /\ i - 1 = 0
        BY <2>2
    <2> HIDE DEF i, byte
    <2>4. /\ ByteTerm("aad", byte, i, e).src = "aad" /\ ByteTerm("aad", byte, i, e).byte = byte
          /\ ByteTerm("aad", byte, i, e).off = (i - 1) % B
        BY <1>2, <1>6, <2>2, <2>3, ByteTermIs
    <2> QED BY <1>6, <1>7, <2>1, <2>3, <2>4 DEF i, byte
<1> HIDE DEF t
<1>10. \A u \in g.Xi : u.src = "aad" => u.byte <= g.lenA
    <2>1. ASSUME NEW u \in Poly("aad", a, C) PROVE u.byte <= g.lenA
        <3>0. "aad" \in Sources /\ a \in Seq(Nat)
            BY <1>2, <1>3
        <3>1. PICK j \in 1 .. Len(a) : u.byte = a[j]
            BY <1>5, <3>0, PolyElements
        <3> QED BY <3>1
    <2>2. ASSUME NEW u \in Poly("msg", m, g.lenM \div B) PROVE u.src = "msg"
        <3> DEFINE M == g.lenM \div B
        <3>1. M \in Int /\ "msg" \in Sources
            BY <1>2 DEF Sources
        <3> HIDE DEF M
        <3>2. m \in Seq(Nat) /\ u \in Poly("msg", m, M)
            BY <1>3 DEF M
        <3> QED BY <3>1, <3>2, PolyElements
    <2>3. "msg" # "aad"
        OBVIOUS
    <2> QED BY <1>3, <2>1, <2>2, <2>3
<1>11. t \notin Mul(g.Xi, x)
    <2> SUFFICES ASSUME t \in Mul(g.Xi, x) PROVE FALSE
        OBVIOUS
    <2>1. PICK u \in g.Xi : t = Times(u, x)
        BY MulIs
    <2>2. t.src = u.src /\ t.byte = u.byte
        <3>1. u \in Terms /\ x \in Int
            BY <1>2, <1>8 DEF Polynomials
        <3> QED BY <2>1, <3>1, TimesIs
    <2>3. u.byte <= g.lenA
        BY <1>9, <1>10, <2>2
    <2> QED BY <1>2, <1>9, <2>2, <2>3
<1>12. t \in d.Xi
    BY <1>8, <1>9, <1>11 DEF SymDiff
<1>13. Bad(t, d.lenA)
    <2>0. g.lenA \in Nat /\ n \in Nat /\ n > 0
        BY <1>2, <1>4
    <2>1. g.lenA + 1 \in 1 .. g.lenA + n /\ (g.lenA + 1) - 1 = g.lenA
        BY <2>0
    <2> QED BY <1>1, <1>4, <1>9, <2>1 DEF Bad
<1> QED BY <1>12, <1>13 DEF Spoiled, d

\* A reference tag has no such term,
LEMMA ReferenceIsNotSpoiled ==
    ASSUME NEW a \in Seq(Nat), \A i \in 1 .. Len(a) : a[i] = i, NEW m \in Seq(Nat)
    PROVE  ~SpoiledTag(ReferenceTag(a, m))
<1> DEFINE A == CeilDiv(Len(a))
           M == CeilDiv(Len(m))
           E == A + M + 1
           F == M + 1
<1>1. /\ A \in Nat /\ M \in Nat /\ E \in Int /\ F \in Int /\ 0 \in Nat
      /\ "aad" \in Sources /\ "msg" \in Sources
    BY CeilDivLen DEF Sources
<1>2. ReferenceTag(a, m)
        = (Poly("aad", a, E) \cup Poly("msg", m, F) \cup LengthTerms(Len(a), Len(m))) \cup EK0
    BY ReferenceIs
<1> HIDE DEF A, M, E, F
<1>3. "msg" # "aad" /\ "msg" # "EK0" /\ "lenA" # "aad" /\ "lenA" # "EK0"
      /\ "lenM" # "aad" /\ "lenM" # "EK0" /\ "aad" # "EK0"
    OBVIOUS
<1>4. ASSUME NEW t \in Poly("aad", a, E) PROVE t.src = "aad" /\ t.off = (t.byte - 1) % B
    <2>1. t.src = "aad"
        BY <1>1, PolyElements
    <2>2. PICK j \in 1 .. Len(a) : t.byte = a[j] /\ t.off = (j - 1) % B
        BY <1>1, PolyElements
    <2> QED BY <2>1, <2>2
<1>5. ASSUME NEW t \in Poly("msg", m, F) PROVE t.src = "msg"
    BY <1>1, PolyElements
<1>6. ASSUME NEW t \in LengthTerms(Len(a), Len(m)) PROVE t.src \in {"lenA", "lenM"}
    BY TermIs DEF LengthTerms
<1>7. ASSUME NEW t \in EK0 PROVE t.src = "EK0" /\ t.pow = 0
    BY TermIs DEF EK0
<1>8. ASSUME NEW t \in ReferenceTag(a, m)
      PROVE  ~(t.src = "aad" /\ t.off # (t.byte - 1) % B) /\ ~(t.src = "EK0" /\ t.pow > 0)
    <2>1. CASE t \in Poly("aad", a, E)
        BY <1>3, <1>4, <2>1
    <2>2. CASE t \in Poly("msg", m, F)
        BY <1>3, <1>5, <2>2
    <2>3. CASE t \in LengthTerms(Len(a), Len(m))
        BY <1>3, <1>6, <2>3
    <2>4. CASE t \in EK0
        <3>1. t.src = "EK0" /\ t.pow = 0
            BY <1>7, <2>4
        <3> QED BY <1>3, <3>1
    <2> QED BY <1>2, <2>1, <2>2, <2>3, <2>4
<1> QED BY <1>8 DEF SpoiledTag

\* and tells what it is a tag of.
LEMMA PolyTells ==
    ASSUME NEW src, NEW s \in Seq(Nat), NEW u \in Seq(Nat), Len(s) = Len(u), NEW c \in Int,
           Poly(src, s, c) = Poly(src, u, c)
    PROVE  s = u
<1>1. ASSUME NEW i \in 1 .. Len(s) PROVE s[i] = u[i]
    <2>1. ByteTerm(src, s[i], 0 + i, c) \in Poly(src, u, c)
        BY DEF Poly, Added, Part
    <2>2. PICK k \in 1 .. Len(u) : ByteTerm(src, s[i], 0 + i, c) = ByteTerm(src, u[k], 0 + k, c)
        BY <2>1 DEF Poly, Added, Part
    <2>3. 0 + i = i /\ 0 + k = k /\ i \in Nat \ {0} /\ k \in Nat \ {0}
        BY LenProperties
    <2>4. ByteTerm(src, s[i], i, c) = ByteTerm(src, u[k], k, c)
        BY <2>2, <2>3
    <2> DEFINE x == s[i]
               y == u[k]
    <2>5. ByteTerm(src, x, i, c) = ByteTerm(src, y, k, c)
        BY <2>4
    <2> HIDE DEF x, y
    <2>6. i = k /\ x = y
        BY <2>3, <2>5, ByteTermPlace
    <2> QED BY <2>6 DEF x, y
<1> QED BY <1>1, SeqEqual

LEMMA ReferenceTells ==
    ASSUME NEW a \in Seq(Nat), NEW m \in Seq(Nat), NEW b \in Seq(Nat), NEW n \in Seq(Nat),
           ReferenceTag(a, m) = ReferenceTag(b, n)
    PROVE  a = b /\ m = n
<1> DEFINE Is(t, src) == t.src = src
           A == CeilDiv(Len(a)) + CeilDiv(Len(m)) + 1
           M == CeilDiv(Len(m)) + 1
           C == CeilDiv(Len(b)) + CeilDiv(Len(n)) + 1
           N == CeilDiv(Len(n)) + 1
<1>1. A \in Int /\ M \in Int /\ C \in Int /\ N \in Int /\ 0 \in Nat
      /\ "aad" \in Sources /\ "msg" \in Sources
    BY CeilDivLen DEF Sources
<1>2. ReferenceTag(a, m)
        = (Poly("aad", a, A) \cup Poly("msg", m, M) \cup LengthTerms(Len(a), Len(m))) \cup EK0
    BY ReferenceIs
<1>3. ReferenceTag(b, n)
        = (Poly("aad", b, C) \cup Poly("msg", n, N) \cup LengthTerms(Len(b), Len(n))) \cup EK0
    BY ReferenceIs
<1> HIDE DEF A, M, C, N
<1>4. /\ \A t \in Poly("aad", a, A) \cup Poly("aad", b, C) : t.src = "aad"
      /\ \A t \in Poly("msg", m, M) \cup Poly("msg", n, N) : t.src = "msg"
    BY <1>1, PolyElements
<1>5. \A x, y : \A t \in LengthTerms(x, y) :
         \/ t = Term("lenA", x, 0, 1) /\ t.src = "lenA" /\ t.byte = x
         \/ t = Term("lenM", y, 1, 1) /\ t.src = "lenM" /\ t.byte = y
    BY TermIs DEF LengthTerms
<1>6. \A t \in EK0 : t.src = "EK0"
    BY TermIs DEF EK0
<1>7. "lenA" # "aad" /\ "lenA" # "msg" /\ "lenA" # "EK0" /\ "lenM" # "aad" /\ "lenM" # "msg"
      /\ "lenM" # "EK0" /\ "lenA" # "lenM" /\ "aad" # "msg" /\ "aad" # "EK0" /\ "msg" # "EK0"
    OBVIOUS
<1>8. Len(a) = Len(b)
    <2> DEFINE t == Term("lenA", Len(a), 0, 1)
    <2>1. t \in ReferenceTag(b, n) /\ t.src = "lenA" /\ t.byte = Len(a)
        BY <1>2, TermIs DEF LengthTerms
    <2> HIDE DEF t
    <2>2. t \in LengthTerms(Len(b), Len(n))
        BY <1>3, <1>4, <1>6, <1>7, <2>1
    <2>3. t.src = "lenM" \/ t.byte = Len(b)
        BY <1>5, <2>2
    <2> QED BY <1>7, <2>1, <2>3
<1>9. Len(m) = Len(n)
    <2> DEFINE t == Term("lenM", Len(m), 1, 1)
    <2>1. t \in ReferenceTag(b, n) /\ t.src = "lenM" /\ t.byte = Len(m)
        BY <1>2, TermIs DEF LengthTerms
    <2> HIDE DEF t
    <2>2. t \in LengthTerms(Len(b), Len(n))
        BY <1>3, <1>4, <1>6, <1>7, <2>1
    <2>3. t.src = "lenA" \/ t.byte = Len(n)
        BY <1>5, <2>2
    <2> QED BY <1>7, <2>1, <2>3
<1>10. A = C /\ M = N
    BY <1>8, <1>9 DEF A, M, C, N
<1>11. Poly("aad", a, A) = Poly("aad", b, C) /\ Poly("msg", m, M) = Poly("msg", n, N)
    <2> DEFINE R == ReferenceTag(a, m)
               L == LengthTerms(Len(a), Len(m))
               P == Poly("aad", a, A)
               Q == Poly("msg", m, M)
               U == Poly("aad", b, C)
               V == Poly("msg", n, N)
    <2>1. R = (P \cup Q \cup L) \cup EK0 /\ R = (U \cup V \cup L) \cup EK0
        BY <1>2, <1>3, <1>8, <1>9
    <2>2. /\ \A t \in P \cup U : t.src = "aad"
          /\ \A t \in Q \cup V : t.src = "msg"
          /\ \A t \in L : t.src \in {"lenA", "lenM"}
        BY <1>4, <1>5
    <2> HIDE DEF R, L, P, Q, U, V
    <2>3. P = {t \in R : t.src = "aad"} /\ U = {t \in R : t.src = "aad"}
        BY <1>6, <1>7, <2>1, <2>2
    <2>4. Q = {t \in R : t.src = "msg"} /\ V = {t \in R : t.src = "msg"}
        BY <1>6, <1>7, <2>1, <2>2
    <2> QED BY <2>3, <2>4 DEF P, Q, U, V
<1>12. a = b
    BY <1>1, <1>8, <1>10, <1>11, PolyTells
<1>13. m = n
    BY <1>1, <1>9, <1>10, <1>11, PolyTells
<1> QED BY <1>12, <1>13

-----------------------------------------------------------------------------
\* A context that was given AAD 1, 2, 3, ... and message 1, 2, 3, ... and was finished n
\* times: it has hashed them as long as there was no finish and no AAD after its open
\* block was closed, and from then on holds a term no reference tag has.
Sum(g) == Hashed(g, From(0, g.lenA), From(0, g.lenM))

Tracked(g, n) == /\ Context(g) /\ n \in Nat
                 /\ IF n = 0 /\ ~AadSplit(g) THEN Sum(g) ELSE Spoiled(g)

LEMMA FreshTracked == Tracked(SetIv, 0)
<1>1. SetIv.lenA = 0 /\ SetIv.lenM = 0 /\ 0 \in Nat
    BY DEF SetIv
<1>2. From(0, 0) \in Seq(Nat) /\ Len(From(0, 0)) = 0
    BY <1>1, FromIs
<1>3. Sum(SetIv)
    BY <1>1, <1>2, FreshHashed DEF Sum
<1>4. ~AadSplit(SetIv)
    BY <1>1, FreshContext, <1>3, HashedTypes DEF Sum
<1> QED BY <1>1, <1>3, <1>4, FreshContext DEF Tracked

LEMMA AadKeepsTracked ==
    ASSUME NEW g, NEW n, Tracked(g, n), NEW k \in Nat, AadAccepts(g, From(g.lenA, k))
    PROVE  Tracked(Aad(g, From(g.lenA, k)), n)
<1> DEFINE in == From(g.lenA, k)
           d == Aad(g, in)
           s == From(0, g.lenA)
<1>1. /\ Context(g) /\ n \in Nat /\ g.lenA \in Nat /\ g.lenM \in Nat /\ 0 \in Nat
      /\ AadAccepts(g, in)
    BY ContextTypes DEF Tracked
<1>2. /\ in \in Seq(Nat) /\ Len(in) = k /\ \A i \in 1 .. k : in[i] = g.lenA + i
    BY <1>1, FromIs
<1>3. s \in Seq(Nat) /\ Len(s) = g.lenA /\ \A i \in 1 .. g.lenA : s[i] = 0 + i
    BY <1>1, FromIs
<1>4. s \o in = From(0, g.lenA + k)
    BY <1>1, FromJoins
<1>5. /\ d.lenA = g.lenA + Len(in) /\ d.lenM = g.lenM /\ d.padAt = g.padAt
    BY <1>1, ContextTypes, AadIs
<1> HIDE DEF in, d, s
<1>6. Context(d)
    BY <1>1, <1>2, AadKeepsContext DEF d
<1>7. ASSUME Spoiled(g) PROVE Spoiled(d)
    <2>1. \A j \in 1 .. Len(in) : in[j] > g.lenA
        BY <1>1, <1>2
    <2> QED BY <1>1, <1>2, <1>7, <2>1, AadKeepsSpoiled DEF d
<1>8. ASSUME Sum(g), ~AadSplit(d) PROVE Sum(d)
    <2>1. Hashed(g, s, From(0, g.lenM))
        BY <1>8 DEF Sum, s
    <2>2. Hashed(d, s \o in, From(0, g.lenM))
        BY <1>1, <1>2, <1>8, <2>1, AadKeepsHashed DEF d
    <2> QED BY <1>2, <1>4, <1>5, <2>2 DEF Sum
<1>9. ASSUME Sum(g), AadSplit(d) PROVE Spoiled(d)
    <2>1. Hashed(g, s, From(0, g.lenM))
        BY <1>9 DEF Sum, s
    <2>2. \A i \in 1 .. Len(s) : s[i] <= g.lenA
        BY <1>1, <1>3
    <2>3. Len(in) > 0 => in[1] = g.lenA + 1
        BY <1>2
    <2> QED BY <1>1, <1>2, <1>9, <2>1, <2>2, <2>3, SplitSpoils DEF d
<1>10. AadSplit(g) => AadSplit(d)
    <2>1. g.padAt \in Nat
        BY <1>1 DEF Context, Order, AadFields
    <2> QED BY <1>1, <1>2, <1>5, <2>1 DEF AadSplit
<1>11. Tracked(d, n)
    BY <1>1, <1>6, <1>7, <1>8, <1>9, <1>10 DEF Tracked
<1> QED BY <1>11 DEF d, in

LEMMA CryptKeepsTracked ==
    ASSUME NEW g, NEW n, Tracked(g, n), NEW k \in Nat, CryptAccepts(g, From(g.lenM, k))
    PROVE  Tracked(Crypt(g, From(g.lenM, k)), n)
<1> DEFINE in == From(g.lenM, k)
           f == Crypt(g, in)
<1>1. /\ Context(g) /\ n \in Nat /\ g.lenA \in Nat /\ g.lenM \in Nat /\ 0 \in Nat
      /\ CryptAccepts(g, in)
    BY ContextTypes DEF Tracked
<1>2. in \in Seq(Nat) /\ Len(in) = k
    BY <1>1, FromIs
<1>3. From(0, g.lenM) \o in = From(0, g.lenM + k)
    BY <1>1, FromJoins
<1>4. f.lenA = g.lenA /\ f.lenM = g.lenM + Len(in) /\ f.padAt = PadAfter(g)
    BY CryptIs
<1> HIDE DEF in, f
<1>5. Context(f)
    BY <1>1, <1>2, CryptKeepsContext DEF f
<1>6. Spoiled(g) => Spoiled(f)
    BY <1>1, <1>2, CryptKeepsSpoiled DEF f
<1>7. ASSUME Sum(g) PROVE Sum(f) /\ ~AadSplit(f)
    <2>1. Hashed(f, From(0, g.lenA), From(0, g.lenM) \o in)
        BY <1>1, <1>2, <1>7, CryptKeepsHashed DEF Sum, f
    <2>2. Sum(f)
        BY <1>2, <1>3, <1>4, <2>1 DEF Sum
    <2> QED BY <1>5, <2>1, <2>2, HashedTypes
<1>8. AadSplit(g) => AadSplit(f)
    BY <1>4 DEF AadSplit, PadAfter
<1>9. Tracked(f, n)
    BY <1>1, <1>5, <1>6, <1>7, <1>8 DEF Tracked
<1> QED BY <1>9 DEF f, in

LEMMA FinishKeepsTracked ==
    ASSUME NEW g, NEW n, Tracked(g, n)
    PROVE  Tracked(Finish(g), n + 1)
<1>1. Context(g) /\ n \in Nat /\ n + 1 \in Nat /\ n + 1 # 0 /\ Context(Finish(g))
    BY FinishKeepsContext DEF Tracked
<1>2. Spoiled(Finish(g))
    BY <1>1, FinishSpoils, FinishKeepsSpoiled DEF Tracked, Sum
<1> QED BY <1>1, <1>2 DEF Tracked

\* When a finish computes the reference tag of what was given, and when not.
LEMMA TagOfTracked ==
    ASSUME NEW g, NEW n, Tracked(g, n)
    PROVE  (TagValue(g) = ReferenceTag(From(0, g.lenA), From(0, g.lenM)))
             <=> n = 0 /\ ~AadSplit(g)
<1>1. Context(g) /\ g.lenA \in Nat /\ g.lenM \in Nat /\ 0 \in Nat
    BY ContextTypes DEF Tracked
<1>2. ASSUME n = 0 /\ ~AadSplit(g)
      PROVE  TagValue(g) = ReferenceTag(From(0, g.lenA), From(0, g.lenM))
    BY <1>1, <1>2, FinishIsReference DEF Tracked, Sum
<1>3. ASSUME ~(n = 0 /\ ~AadSplit(g))
      PROVE  TagValue(g) # ReferenceTag(From(0, g.lenA), From(0, g.lenM))
    <2>1. SpoiledTag(TagValue(g))
        BY <1>1, <1>3, FinishKeepsSpoiled DEF Tracked
    <2> DEFINE a == From(0, g.lenA)
               m == From(0, g.lenM)
    <2>2. a \in Seq(Nat) /\ m \in Seq(Nat) /\ \A i \in 1 .. Len(a) : a[i] = i
        <3>1. a \in Seq(Nat) /\ Len(a) = g.lenA /\ \A i \in 1 .. g.lenA : a[i] = 0 + i
            BY <1>1, FromIs
        <3>2. m \in Seq(Nat)
            BY <1>1, FromIs
        <3> QED BY <3>1, <3>2
    <2> HIDE DEF a, m
    <2>3. ~SpoiledTag(ReferenceTag(a, m))
        BY <2>2, ReferenceIsNotSpoiled
    <2> QED BY <2>1, <2>3 DEF a, m
<1> QED BY <1>2, <1>3

=============================================================================
