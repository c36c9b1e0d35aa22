------------------------- MODULE AttestationRequestProofs -------------------------
(***************************************************************************)
(* What handle_attestation's decoding of proofHash guarantees for every    *)
(* alphabet of hex digits and every digest length: the bytes it binds are  *)
(* a suffix of the digest the caller sent.  lstrip("0x") can drop leading  *)
(* bytes, never change one.                                                *)
(***************************************************************************)
EXTENDS AttestationRequest, SequenceTheorems, WellFoundedInduction, TLAPS

(* The least-number principle, for a set of naturals. *)
LEMMA NatMin ==
  ASSUME NEW T \in SUBSET Nat, T # {}
  PROVE  \E m \in T : \A y \in T : m <= y
<1>1. \E m \in T : \A y \in T : ~(<<y, m>> \in OpToRel(<, Nat))
  BY NatLessThanWellFounded, WFMin
<1>2. PICK m \in T : \A y \in T : ~(<<y, m>> \in OpToRel(<, Nat))
  BY <1>1
<1>3. \A y \in T : ~(y < m)
  BY <1>2, Zenon DEF OpToRel
<1>4. QED
  BY <1>3


-----------------------------------------------------------------------------
(* The characters lstrip("0x") removes, and where it cuts a string. *)
CS == {"0", "x"}

Pre(s, i) == (\A j \in 1..i : s[j] \in CS) /\ (i = Len(s) \/ s[i + 1] \notin CS)

Cut(s) == CHOOSE i \in 0..Len(s) : Pre(s, i)

(* str.lstrip is well defined: every string has a longest prefix of        *)
(* stripped characters, and LStrip drops exactly that.                     *)
LEMMA CutExists ==
  ASSUME NEW s \in Seq(Chars)
  PROVE  /\ Cut(s) \in 0..Len(s) /\ Pre(s, Cut(s))
         /\ LStrip(s, CS) = SubSeq(s, Cut(s) + 1, Len(s))
<1>1. \E i \in 0..Len(s) : Pre(s, i)
  <2>1. CASE \A j \in 1..Len(s) : s[j] \in CS
    BY <2>1 DEF Pre
  <2>2. CASE \E j \in 1..Len(s) : s[j] \notin CS
    <3> DEFINE T == {j \in 1..Len(s) : s[j] \notin CS}
    <3>1. T \in SUBSET Nat /\ T # {}
      BY <2>2
    <3>2. PICK m \in T : \A y \in T : m <= y
      BY <3>1, NatMin
    <3>3. m - 1 \in 0..Len(s) /\ Pre(s, m - 1)
      BY <3>2 DEF Pre
    <3>4. QED
      BY <3>3
  <2>3. QED
    BY <2>1, <2>2
<1>2. Cut(s) \in 0..Len(s) /\ Pre(s, Cut(s))
  BY <1>1 DEF Cut
<1>3. QED
  BY <1>2 DEF LStrip, Cut, Pre, CS

(* A digest the caller may send is its hex digits, possibly behind "0x":  *)
(* an even number of them, at least two, and Intended takes the prefix     *)
(* off.                                                                    *)
LEMMA CallerHashForm ==
  ASSUME NEW s \in CallerHashes
  PROVE  \E p \in {0, 2} :
           LET u == Intended(s) IN
           /\ s \in Seq(Chars) /\ u \in Seq(HexDigits)
           /\ Len(u) % 2 = 0 /\ Len(u) >= 2 /\ Len(s) = Len(u) + p
           /\ \A j \in 1..Len(u) : s[p + j] = u[j]
           /\ p = 2 => s[1] = "0" /\ s[2] = "x"
<1> USE AttestationAssumption
<1>1. CASE s \in HexStrings
  <2>1. PICK n \in 1..MaxDigest : s \in [1..2 * n -> HexDigits]
    BY <1>1 DEF HexStrings
  <2>2. s \in Seq(HexDigits) /\ Len(s) = 2 * n
    BY <2>1
  <2>3. SubSeq(s, 1, 2) # <<"0", "x">>
    <3>1. SubSeq(s, 1, 2)[2] = s[2] /\ s[2] \in HexDigits
      BY <2>2, SubSeqProperties
    <3>2. <<"0", "x">>[2] = "x"
      OBVIOUS
    <3>3. QED
      BY <3>1, <3>2
  <2>4. Intended(s) = s
    BY <2>3 DEF Intended
  <2>5. s \in Seq(Chars)
    BY <2>2, SeqMonotonic DEF Chars
  <2>6. QED
    BY <2>2, <2>4, <2>5
<1>2. CASE s \notin HexStrings
  <2>1. PICK h \in HexStrings : s = Prefixed(h)
    BY <1>2 DEF CallerHashes
  <2>2. PICK n \in 1..MaxDigest : h \in [1..2 * n -> HexDigits]
    BY DEF HexStrings
  <2>3. h \in Seq(HexDigits) /\ Len(h) = 2 * n
    BY <2>2
  <2>4. s = <<"0", "x">> \o h
    BY <2>1 DEF Prefixed
  <2>5. h \in Seq(Chars) /\ <<"0", "x">> \in Seq(Chars)
    BY <2>3, SeqMonotonic DEF Chars
  <2>6. /\ s \in Seq(Chars) /\ Len(s) = Len(h) + 2
        /\ \A i \in 1..Len(h) + 2 : s[i] = IF i <= 2 THEN <<"0", "x">>[i] ELSE h[i - 2]
    BY <2>4, <2>5, ConcatProperties
  <2>7. s[1] = "0" /\ s[2] = "x" /\ \A j \in 1..Len(h) : s[2 + j] = h[j]
    BY <2>3, <2>6
  <2>8. SubSeq(s, 1, 2) = <<"0", "x">>
    <3>1. SubSeq(s, 1, 2) \in Seq(Chars) /\ Len(SubSeq(s, 1, 2)) = 2
          /\ SubSeq(s, 1, 2)[1] = "0" /\ SubSeq(s, 1, 2)[2] = "x"
      BY <2>3, <2>6, <2>7, SubSeqProperties
    <3>2. Len(<<"0", "x">>) = 2
          /\ \A i \in 1..2 : SubSeq(s, 1, 2)[i] = <<"0", "x">>[i]
      BY <3>1
    <3>3. QED
      BY <2>5, <3>1, <3>2, SeqEqual
  <2>9. SubSeq(s, 3, Len(s)) = h
    <3>1. SubSeq(s, 3, Len(s)) \in Seq(Chars) /\ Len(SubSeq(s, 3, Len(s))) = Len(h)
          /\ \A i \in 1..Len(h) : SubSeq(s, 3, Len(s))[i] = h[i]
      BY <2>3, <2>6, <2>7, SubSeqProperties
    <3>2. QED
      BY <2>5, <3>1, SeqEqual
  <2>10. Intended(s) = h
    BY <2>3, <2>6, <2>8, <2>9 DEF Intended
  <2>11. /\ s \in Seq(Chars) /\ h \in Seq(HexDigits)
         /\ Len(h) % 2 = 0 /\ Len(h) >= 2 /\ Len(s) = Len(h) + 2
         /\ \A j \in 1..Len(h) : s[2 + j] = h[j]
         /\ s[1] = "0" /\ s[2] = "x"
    BY <2>3, <2>6, <2>7
  <2>12. QED
    BY <2>10, <2>11
<1>3. QED
  BY <1>1, <1>2

(* bytes.fromhex of a string of 2m characters is m pairs of them. *)
LEMMA FromHexSeq ==
  ASSUME NEW h \in Seq(Chars)
  PROVE  /\ FromHex(h) \in Seq(Chars \X Chars)
         /\ Len(FromHex(h)) = Len(h) \div 2
         /\ \A i \in 1..Len(h) \div 2 : FromHex(h)[i] = <<h[2 * i - 1], h[2 * i]>>
<1>1. \A i \in 1..Len(h) \div 2 : <<h[2 * i - 1], h[2 * i]>> \in Chars \X Chars
  BY LenProperties
<1>2. FromHex(h) \in Seq(Chars \X Chars)
  BY <1>1, IsASeq DEF FromHex
<1>3. QED
  BY <1>2, LenProperties DEF FromHex

(* lstrip("0x") followed by bytes.fromhex, when it succeeds, yields the    *)
(* digest the caller meant with whole leading bytes dropped: the "0x"      *)
(* prefix and the leading zeros it strips come in pairs once fromhex       *)
(* accepts what is left (lines 460-461).                                   *)
LEMMA StripSuffix ==
  ASSUME NEW s \in CallerHashes, FromHexOK(LStrip(s, CS))
  PROVE  SuffixOf(FromHex(LStrip(s, CS)), FromHex(Intended(s)))
<1>1. PICK p \in {0, 2} :
           LET u == Intended(s) IN
           /\ s \in Seq(Chars) /\ u \in Seq(HexDigits)
           /\ Len(u) % 2 = 0 /\ Len(u) >= 2 /\ Len(s) = Len(u) + p
           /\ \A j \in 1..Len(u) : s[p + j] = u[j]
           /\ p = 2 => s[1] = "0" /\ s[2] = "x"
  BY CallerHashForm
<1> DEFINE u == Intended(s)
           k == Cut(s)
           h == LStrip(s, CS)
           N == Len(s)
<1>2. s \in Seq(Chars) /\ u \in Seq(Chars) /\ Len(u) % 2 = 0 /\ N = Len(u) + p
      /\ \A j \in 1..Len(u) : s[p + j] = u[j]
  BY <1>1, SeqMonotonic DEF Chars
<1>3. k \in 0..N /\ Pre(s, k) /\ h = SubSeq(s, k + 1, N)
  BY <1>2, CutExists
<1>4. p <= k
  <2>1. CASE p = 2
    <3>1. s[1] \in CS /\ s[2] \in CS /\ N >= 4
      BY <1>1, <2>1 DEF CS
    <3>2. QED
      BY <1>3, <3>1 DEF Pre
  <2>2. QED
    BY <1>3, <2>1
<1>5. h \in Seq(Chars) /\ Len(h) = N - k /\ \A i \in 1..N - k : h[i] = s[k + i]
  BY <1>2, <1>3, SubSeqProperties, LenProperties
<1>6. (N - k) % 2 = 0
  BY <1>5 DEF FromHexOK
<1> DEFINE M == Len(u) \div 2
           R == (N - k) \div 2
           d == M - R
           U == FromHex(u)
<1>7. Len(u) = 2 * M /\ N - k = 2 * R /\ M \in Nat /\ R \in Nat
  <2>1. Len(u) \in Nat /\ N - k \in Nat
    BY <1>2, <1>3, LenProperties
  <2>2. \A x \in Nat : x % 2 = 0 => x = 2 * (x \div 2) /\ x \div 2 \in Nat
    OBVIOUS
  <2>3. QED
    BY <1>2, <1>6, <2>1, <2>2
<1>8. k = p + 2 * d /\ d \in 0..M
  <2>1. N = Len(u) + p /\ k \in 0..N /\ p <= k /\ p \in Nat
    BY <1>2, <1>3, <1>4
  <2> HIDE DEF M, R, N, k, u
  <2>2. QED
    BY <1>7, <2>1
<1>9. U \in Seq(Chars \X Chars) /\ Len(U) = M
      /\ \A i \in 1..M : U[i] = <<u[2 * i - 1], u[2 * i]>>
  BY <1>2, FromHexSeq
<1>10. FromHex(h) \in Seq(Chars \X Chars) /\ Len(FromHex(h)) = R
      /\ \A i \in 1..R : FromHex(h)[i] = <<h[2 * i - 1], h[2 * i]>>
  BY <1>5, FromHexSeq
<1>11. SubSeq(U, d + 1, M) \in Seq(Chars \X Chars)
       /\ Len(SubSeq(U, d + 1, M)) = R
       /\ \A i \in 1..R : SubSeq(U, d + 1, M)[i] = U[d + i]
  <2> HIDE DEF M, R, U
  <2>1. \A i \in d + 1..M : U[i] \in Chars \X Chars
    <3>1. U \in [1..M -> Chars \X Chars]
      BY <1>9, LenProperties
    <3>2. QED
      BY <1>8, <3>1
  <2>2. d + 1 \in Int /\ M \in Int /\ (IF d + 1 <= M THEN M - (d + 1) + 1 ELSE 0) = R
        /\ M - (d + 1) + 1 = R /\ \A i \in 1..R : d + 1 + i - 1 = d + i
    BY <1>7, <1>8
  <2>3. QED
    BY <2>1, <2>2, SubSeqProperties
<1>12. \A i \in 1..R : FromHex(h)[i] = SubSeq(U, d + 1, M)[i]
  <2> SUFFICES ASSUME NEW i \in 1..R
               PROVE  <<h[2 * i - 1], h[2 * i]>> = U[d + i]
    BY <1>10, <1>11
  <2> HIDE DEF M, R, U, N, k, u, h
  <2>1. h[2 * i - 1] = s[k + 2 * i - 1] /\ h[2 * i] = s[k + 2 * i]
    <3>1. 2 * i - 1 \in 1..N - k /\ 2 * i \in 1..N - k
      BY <1>7
    <3>2. QED
      BY <1>5, <3>1
  <2>2. U[d + i] = <<u[2 * (d + i) - 1], u[2 * (d + i)]>>
    <3>1. d + i \in 1..M
      BY <1>7, <1>8
    <3>2. QED
      BY <1>9, <3>1
  <2>3. u[2 * (d + i) - 1] = s[k + 2 * i - 1] /\ u[2 * (d + i)] = s[k + 2 * i]
    <3>1. 2 * (d + i) - 1 \in 1..Len(u) /\ 2 * (d + i) \in 1..Len(u)
      BY <1>7, <1>8
    <3>2. p + (2 * (d + i) - 1) = k + 2 * i - 1 /\ p + 2 * (d + i) = k + 2 * i
      BY <1>7, <1>8
    <3>3. QED
      BY <1>2, <3>1, <3>2
  <2>4. QED
    BY <2>1, <2>2, <2>3
<1>13. FromHex(h) = SubSeq(U, d + 1, M)
  BY <1>10, <1>11, <1>12, SeqEqual
<1>14. QED
  BY <1>8, <1>9, <1>13 DEF SuffixOf

-----------------------------------------------------------------------------
(* What handle_attestation leaves after an attestation: fromhex accepted   *)
(* lstrip's result, and that result decoded is the user_data bound.       *)
Binding ==
  response = "attestation" /\ proofHash # NoHash =>
    /\ FromHexOK(LStrip(proofHash, CS))
    /\ bound = FromHex(LStrip(proofHash, CS))

(* The inductive invariant: the request carries a digest a caller may     *)
(* send, and the last attestation bound what the code computed from it.   *)
IInv == proofHash \in CallerHashes \cup {NoHash} /\ Binding

(* A fresh request has no response yet. *)
LEMMA IInvInit == Init => IInv
BY DEF Init, IInv, Binding

(* Every request and every handling of one keeps IInv. *)
LEMMA IInvStep == IInv /\ [Next]_vars => IInv'
<1> SUFFICES ASSUME IInv, [Next]_vars PROVE IInv'
  OBVIOUS
<1>1. CASE HandleAttestation
  <2> DEFINE h == LStrip(proofHash, {"0", "x"})
  <2>1. proofHash' = proofHash
    BY <1>1 DEF HandleAttestation
  <2>2. CASE proofHash = NoHash /\ Attest(NoHash)
    BY <2>1, <2>2 DEF IInv, Binding
  <2>3. CASE proofHash # NoHash /\ FromHexOK(h) /\ Attest(FromHex(h))
    BY <2>1, <2>3 DEF IInv, Binding, Attest, CS
  <2>4. CASE proofHash # NoHash /\ ~FromHexOK(h) /\ response' = "error" /\ UNCHANGED bound
    BY <2>1, <2>4 DEF IInv, Binding
  <2>5. QED
    BY <1>1, <2>2, <2>3, <2>4 DEF HandleAttestation
<1>2. CASE NextRequest
  BY <1>2 DEF NextRequest, IInv, Binding
<1>3. CASE UNCHANGED vars
  BY <1>3 DEF vars, IInv, Binding
<1>4. QED
  BY <1>1, <1>2, <1>3 DEF Next

(* The user_data handle_attestation binds into an attestation document is *)
(* always a suffix, in whole bytes, of the digest the caller sent, for     *)
(* every alphabet of hex digits and every digest length: lstrip("0x") may  *)
(* drop leading zero bytes but never alters or invents one (lines          *)
(* 457-477).                                                               *)
THEOREM BoundSuffix == Spec => []BoundIsSuffix
<1>1. Init => IInv
  BY IInvInit
<1>2. IInv /\ [Next]_vars => IInv'
  BY IInvStep
<1>3. IInv => BoundIsSuffix
  BY StripSuffix DEF IInv, Binding, BoundIsSuffix
<1>4. QED
  BY <1>1, <1>2, <1>3, PTL DEF Spec

=============================================================================
