----------------------------- MODULE MCStreams -----------------------------
(***************************************************************************)
(* Instances of Streams for TLC.                                           *)
(***************************************************************************)
EXTENDS Streams, TLC

CONSTANTS s1, s2

\* One stream long enough for rows of a book to come and go, and a short one.
LongAndShort == s1 :> 3 @@ s2 :> 1
=============================================================================
