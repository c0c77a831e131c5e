------------------------------- MODULE IdCodec -------------------------------
(***************************************************************************)
(* The identifier encoding of lib/definition.h: an ACVP ID is a uint32_t  *)
(* whose bits 28..30 are status flags of an outstanding request; the      *)
(* remaining bits hold the number the ACVP server assigned.  Bit 31 is   *)
(* never set by the code (the flags are ORed onto server numbers below    *)
(* 2^28), so IDs are naturals below 2^31 and "~" keeps bits 0..30.        *)
(***************************************************************************)
EXTENDS Integers, Bitwise

UINT31_MAX == (2^30 - 1) + 2^30          \* bits 0..30 of a uint32_t

ACVP_REQUEST_INITIAL    == 2^30
ACVP_REQUEST_PROCESSING == 2^29
ACVP_REQUEST_REJECTED   == 2^28
ACVP_REQUEST_MASK ==
    (ACVP_REQUEST_INITIAL | ACVP_REQUEST_PROCESSING) | ACVP_REQUEST_REJECTED

\* fault variant: the mask built without ACVP_REQUEST_INITIAL
acvp_id_PartMask(id) ==
    id & (UINT31_MAX - (ACVP_REQUEST_PROCESSING | ACVP_REQUEST_REJECTED))

\* id & ~(uint32_t)ACVP_REQUEST_MASK
acvp_id(id) == id & (UINT31_MAX - ACVP_REQUEST_MASK)

\* false for 0 and for any ID carrying a request flag
acvp_valid_id(id) == id # 0 /\ (id & ACVP_REQUEST_MASK) = 0

\* true for any ID carrying a request flag
acvp_request_id(id) == (id & ACVP_REQUEST_MASK) # 0

\* the C expression "a | b" on two int values (two's complement):
\* for x >= 0, ~x = -x-1 < 0 and x & ~y = x - (x & y)
IntOr(a, b) ==
    IF a >= 0 /\ b >= 0 THEN a | b
    ELSE IF a < 0 /\ b < 0 THEN -((-a - 1) & (-b - 1)) - 1
    ELSE LET n == IF a < 0 THEN -a - 1 ELSE -b - 1
             p == IF a < 0 THEN b ELSE a
         IN  -(n - (n & p)) - 1

=============================================================================
