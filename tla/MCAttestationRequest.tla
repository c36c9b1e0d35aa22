------------------------ MODULE MCAttestationRequest ------------------------
(* handle_attestation on every digest of one or two bytes over the digits *)
(* "0" and "a", with and without the "0x" prefix.                          *)
EXTENDS AttestationRequest

MCHexDigits == {"0", "a"}

=============================================================================
