\* The user_data bound into the document is a suffix of the digest the caller sent.
CONSTANTS
  HexDigits <- MCHexDigits
  MaxDigest = 2
  NsmBufSize = 2
  NsmMaxLen = 3

SPECIFICATION Spec

INVARIANTS
  BoundIsSuffix
