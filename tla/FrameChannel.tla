---------------------------- MODULE FrameChannel ----------------------------
(***************************************************************************)
(* What the framing of the byte stream promises: the messages TWS sent     *)
(* that can be decoded reach the decoder once each, whole and in order.    *)
(* There are no bytes, chunks or buffers here.                             *)
(***************************************************************************)
EXTENDS Integers, Sequences

CONSTANT Messages  \* the messages that can be decoded

VARIABLES
  sent,     \* what TWS has sent
  decoded   \* what the decoder was given

vars == <<sent, decoded>>

Init == sent = <<>> /\ decoded = <<>>

Send == \E m \in Messages : sent' = Append(sent, m) /\ UNCHANGED decoded

Decode ==
  /\ Len(decoded) < Len(sent)
  /\ decoded' = Append(decoded, sent[Len(decoded) + 1])
  /\ UNCHANGED sent

Next == Send \/ Decode

Spec == Init /\ [][Next]_vars
=============================================================================
