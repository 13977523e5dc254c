--------------------------- MODULE MCHandlerStore ----------------------------
(* One key of a bucket, lists of up to two values, two fields.             *)
EXTENDS HandlerStore, TLC

CONSTANT k1

MCKey == {k1}
MCField == {1, 2}
=============================================================================
