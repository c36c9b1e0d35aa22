--------------------------- MODULE NsmAttestation ---------------------------
(***************************************************************************)
(* get_nsm_attestation (src/aws/enclave-server.py): one self-contained     *)
(* open / ioctl / close sequence against /dev/nsm.  Nothing is kept        *)
(* between calls, so the call is a function of what the environment does  *)
(* during it: whether the device file exists, whether cbor2 imports,       *)
(* whether the ioctl raises, the response length the driver writes back   *)
(* into nsm_raw.response_len, and the shape of the decoded CBOR map.       *)
(* The CBOR payload itself is abstracted to that shape.                    *)
(***************************************************************************)
EXTENDS Naturals

CONSTANTS NsmBufSize,   \* NSM_RESPONSE_BUF_SIZE, in abstract length units
          NsmMaxLen     \* largest response length the device may report

ASSUME NsmAssumption ==
  /\ NsmBufSize \in Nat \ {0}
  /\ NsmMaxLen \in Nat

(* Shapes of the decoded response map:                                     *)
(*   AttDoc      {"Attestation": {"document": <non-empty bytes>}}          *)
(*   AttEmptyDoc {"Attestation": {"document": b""}}                        *)
(*   AttNoDoc    {"Attestation": {...}} without "document"                 *)
(*   ErrorMap    {"Error": ...}                                            *)
(*   Other       any other map, or a non-map CBOR value                    *)
(*   Malformed   bytes cbor2.loads rejects                                 *)
Shapes == {"AttDoc", "AttEmptyDoc", "AttNoDoc", "ErrorMap", "Other", "Malformed"}

(* What the environment does during one call. *)
NsmEnv == [device : BOOLEAN,           \* os.path.exists(NSM_DEVICE)
           cbor2  : BOOLEAN,           \* import cbor2 succeeds
           ioctl  : {"ok", "oserror"}, \* os.open / fcntl.ioctl outcome
           len    : 0..NsmMaxLen,      \* response_len read back at offset 24
           shape  : Shapes]

(* The ioctl completed and reported a length the code will decode:         *)
(* non-zero (line 163), and within the buffer; a longer response is cut    *)
(* to NSM_RESPONSE_BUF_SIZE by resp_buf.raw[:actual_len] and the truncated *)
(* CBOR fails to decode, which the except clause turns into None.          *)
Decodable(e) ==
  /\ e.device /\ e.cbor2 /\ e.ioctl = "ok"
  /\ e.len \in 1..NsmBufSize

(* The value get_nsm_attestation returns: "doc" for non-empty document     *)
(* bytes, "empty" for b"" (returned, but falsy at every caller), "none"    *)
(* for None.                                                               *)
GetNsmAttestation(e) ==
  IF Decodable(e) /\ e.shape = "AttDoc" THEN "doc"
  ELSE IF Decodable(e) /\ e.shape = "AttEmptyDoc" THEN "empty"
  ELSE "none"

(* Callers test `if nsm_doc:`: only a non-empty document is attached. *)
DocAttached(e) == GetNsmAttestation(e) = "doc"

=============================================================================
