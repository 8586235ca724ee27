--------------------------- MODULE MCSdkFunctions ---------------------------
(***************************************************************************)
(* SdkFunctions on small words: an int64 is 13 bits, a second 10           *)
(* milliseconds.                                                           *)
(***************************************************************************)
EXTENDS SdkFunctions

SmallNumbers == {-4000, -1, 0, 11, 40, 99, 100, 110, 400, 990, 4000}
SmallEra == {11, 40, 99}
SmallNows == {0, 130, 395}
=============================================================================
