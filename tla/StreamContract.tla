--------------------------- MODULE StreamContract ---------------------------
(***************************************************************************)
(* What a stream promises its consumer, with no queue, callback or         *)
(* generator: the items TWS sends, in order and with none left out; after  *)
(* the last of them the end or the error TWS closed the stream with; and,  *)
(* until then, leave to stop at any point.                                 *)
(***************************************************************************)
EXTENDS Naturals, Sequences

CONSTANT Streams

VARIABLES
  sent,      \* how many items TWS has sent
  verdict,   \* what TWS closed the stream with: "none" so far, "end", "error"
  received,  \* the items the consumer was given, by their numbers
  outcome    \* how the stream ended for the consumer: "none" so far

vars == <<sent, verdict, received, outcome>>

Init ==
  /\ sent = [s \in Streams |-> 0]
  /\ verdict = [s \in Streams |-> "none"]
  /\ received = [s \in Streams |-> <<>>]
  /\ outcome = [s \in Streams |-> "none"]

Send(s) ==
  /\ verdict[s] = "none"
  /\ sent' = [sent EXCEPT ![s] = @ + 1]
  /\ UNCHANGED <<verdict, received, outcome>>

Finish(s) ==
  /\ verdict[s] = "none"
  /\ \E v \in {"end", "error"} : verdict' = [verdict EXCEPT ![s] = v]
  /\ UNCHANGED <<sent, received, outcome>>

Deliver(s) ==
  /\ outcome[s] = "none"
  /\ Len(received[s]) < sent[s]
  /\ received' = [received EXCEPT ![s] = Append(@, Len(@) + 1)]
  /\ UNCHANGED <<sent, verdict, outcome>>

Conclude(s, o) ==
  /\ outcome[s] = "none"
  /\ outcome' = [outcome EXCEPT ![s] = o]
  /\ UNCHANGED <<sent, verdict, received>>

\* The consumer learns TWS's verdict when it has been given every item.
Learn(s) ==
  /\ verdict[s] # "none"
  /\ Len(received[s]) = sent[s]
  /\ Conclude(s, verdict[s])

Refuse(s) == sent[s] = 0 /\ Conclude(s, "refused")
Stop(s) == Conclude(s, "stopped")
Snapshot(s) == received[s] # <<>> /\ Conclude(s, "snapshot")

Next ==
  \E s \in Streams :
    \/ Send(s) \/ Finish(s) \/ Deliver(s)
    \/ Learn(s) \/ Refuse(s) \/ Stop(s) \/ Snapshot(s)

Spec == Init /\ [][Next]_vars
=============================================================================
