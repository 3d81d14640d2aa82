---------------------------- MODULE MCValidation ----------------------------
(* Validation for TLC: every document of up to MaxLen bytes.                  *)
EXTENDS Validation

CONSTANT MaxLen

MCDocuments == UNION {[1..n -> Bytes] : n \in 0..MaxLen}
=============================================================================
