------------------------- MODULE AttestationRequest -------------------------
(***************************************************************************)
(* handle_attestation (src/aws/enclave-server.py): a standalone            *)
(* attestation request carries an optional hex digest, proofHash, which    *)
(* is decoded with bytes.fromhex(proof_hash_hex.lstrip("0x")) and bound    *)
(* into the NSM document as user_data.                                     *)
(*                                                                         *)
(* Strings are sequences of characters from a small alphabet: the hex      *)
(* digits HexDigits (which must include "0") and "x".  A byte is the pair  *)
(* of hex digits that encodes it.                                          *)
(***************************************************************************)
EXTENDS Naturals, Sequences, NsmAttestation

CONSTANTS HexDigits,  \* hex digits the model uses; "0" among them
          MaxDigest   \* longest digest, in bytes

ASSUME AttestationAssumption ==
  /\ "0" \in HexDigits /\ "x" \notin HexDigits
  /\ MaxDigest \in Nat \ {0}

Chars == HexDigits \cup {"x"}

(* Non-empty hex strings of whole bytes, and the same with a "0x" prefix:  *)
(* the digests a caller may send (spec 3: a hex-encoded digest).           *)
HexStrings == UNION {[1..2 * n -> HexDigits] : n \in 1..MaxDigest}
Prefixed(h) == <<"0", "x">> \o h
CallerHashes == HexStrings \cup {Prefixed(h) : h \in HexStrings}

\* Mutant: str.strip(chars), which also drops matching trailing characters.
StripBoth(s, cs) ==
  LET k == CHOOSE i \in 0..Len(s) :
             /\ \A j \in 1..i : s[j] \in cs
             /\ i = Len(s) \/ s[i + 1] \notin cs
      m == CHOOSE i \in k..Len(s) :
             /\ \A j \in (i + 1)..Len(s) : s[j] \in cs
             /\ i = k \/ s[i] \notin cs
  IN  SubSeq(s, k + 1, m)

(* str.lstrip(chars): drop the longest prefix made of characters in cs. *)
LStrip(s, cs) ==
  LET k == CHOOSE i \in 0..Len(s) :
             /\ \A j \in 1..i : s[j] \in cs
             /\ i = Len(s) \/ s[i + 1] \notin cs
  IN  SubSeq(s, k + 1, Len(s))

(* bytes.fromhex accepts an even number of hex digits ... *)
FromHexOK(h) == Len(h) % 2 = 0 /\ \A i \in 1..Len(h) : h[i] \in HexDigits

(* ... and returns one byte per pair of digits. *)
FromHex(h) == [i \in 1..(Len(h) \div 2) |-> <<h[2 * i - 1], h[2 * i]>>]

(* The digest the caller meant: the hex after an optional "0x" prefix. *)
Intended(s) ==
  IF Len(s) >= 2 /\ SubSeq(s, 1, 2) = <<"0", "x">> THEN SubSeq(s, 3, Len(s)) ELSE s

(* t is what is left of u after dropping its first k elements, for some k *)
(* (SequencesExt's IsSuffix, stated with SubSeq so that the proofs about   *)
(* this module keep their SMT backend).                                    *)
SuffixOf(t, u) == \E k \in 0..Len(u) : t = SubSeq(u, k + 1, Len(u))

NoHash == <<>>   \* proofHash absent or "": user_data = b""

VARIABLES proofHash,  \* the request's proofHash
          response,   \* "none", "attestation" or "error"
          bound       \* the user_data get_nsm_attestation sent to the device

vars == <<proofHash, response, bound>>

TypeOK ==
  /\ proofHash \in CallerHashes \cup {NoHash}
  /\ response \in {"none", "attestation", "error"}
  /\ bound \in Seq(HexDigits \X HexDigits) \cup {NoHash}

Init ==
  /\ proofHash \in CallerHashes \cup {NoHash}
  /\ response = "none"
  /\ bound = NoHash

(* The call of get_nsm_attestation with user_data, and the reply built     *)
(* from its result: a document only if truthy, else "NSM device not        *)
(* available".                                                             *)
Attest(userData) ==
  \E e \in NsmEnv :
    /\ response' = IF DocAttached(e) THEN "attestation" ELSE "error"
    /\ bound' = userData

(* handle_attestation: lines 457-477. *)
HandleAttestation ==
  LET s == proofHash
      h == LStrip(s, {"0", "x"})
  IN
  /\ response = "none"
  /\ \/ s = NoHash /\ Attest(NoHash)
     \/ s # NoHash /\ FromHexOK(h) /\ Attest(FromHex(h))
     \/ s # NoHash /\ ~FromHexOK(h) /\ response' = "error" /\ UNCHANGED bound
  /\ UNCHANGED proofHash

(* handle_connection closes the socket (finally) and run_server accepts  *)
(* the next connection; nothing is kept, so it brings a fresh request.    *)
NextRequest ==
  /\ response # "none"
  /\ proofHash' \in CallerHashes \cup {NoHash}
  /\ response' = "none"
  /\ bound' = NoHash

Next == HandleAttestation \/ NextRequest

Spec == Init /\ [][Next]_vars

-----------------------------------------------------------------------------
(* The document binds the digest the caller sent: whenever an attestation  *)
(* is returned for a proofHash, the user_data given to the device is the   *)
(* bytes that hex string encodes (spec 3 and 4.3; line 461).               *)
BoundDigest ==
  response = "attestation" /\ proofHash # NoHash
    => bound = FromHex(Intended(proofHash))

(* What the code does guarantee: the user_data bound is always a suffix,  *)
(* in whole bytes, of the digest the caller sent; lstrip can only lose     *)
(* leading bytes, never alter one, so a verifier comparing the document    *)
(* against the full digest detects the loss (line 461).                    *)
BoundIsSuffix ==
  response = "attestation" /\ proofHash # NoHash
    => SuffixOf(bound, FromHex(Intended(proofHash)))

=============================================================================
