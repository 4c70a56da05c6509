----------------------------- MODULE MCFraming -----------------------------
(***************************************************************************)
(* Instances of Framing for TLC.                                           *)
(***************************************************************************)
EXTENDS Framing

Greeting == <<1, 0, 2, 0>>

\* Bodies that can be decoded, cannot, are empty, and are too long.  The unit
\* values are lengths of others, so that a reader out of step finds messages.
\* In base 3 the two longest have lengths of two digits.
Short == <<1>>
Other == <<0, 1>>
Malformed == <<2>>
Empty == <<>>
TooLong == <<0, 1, 2>>

FewBodies == {Greeting, Short, Other, Malformed, Empty, TooLong}
Good == {Short, Other, TooLong}
=============================================================================
