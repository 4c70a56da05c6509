-------------------------- MODULE RequestContract --------------------------
(***************************************************************************)
(* What a get_* method that carries a request id promises its caller, with *)
(* no tables, keys, events or tasks: a call has at most one outcome; it    *)
(* returns the whole answer of TWS to that call, or raises the error TWS   *)
(* gave for that call, or gives up; and a call that asked gets an outcome. *)
(* Only a lenient caller, giving up, may be handed a part of the answer.   *)
(***************************************************************************)
CONSTANTS Callers, Lenient

VARIABLES
  asked,     \* calls made
  answered,  \* calls whose answer arrived while they were pending
  failed,    \* calls whose error arrived while they were pending
  outcome    \* what the caller saw

vars == <<asked, answered, failed, outcome>>

Pending(c) == c \in asked /\ outcome[c] = "none"

Init ==
  /\ asked = {}
  /\ answered = {}
  /\ failed = {}
  /\ outcome = [c \in Callers |-> "none"]

Ask(c) ==
  /\ c \notin asked
  /\ asked' = asked \cup {c}
  /\ UNCHANGED <<answered, failed, outcome>>

\* TWS's answer, or its error, reaches a pending call; only the first of each counts.
Answer(c) ==
  /\ Pending(c)
  /\ answered' = answered \cup {c}
  /\ UNCHANGED <<asked, failed, outcome>>

Fail(c) ==
  /\ Pending(c)
  /\ failed' = failed \cup {c}
  /\ UNCHANGED <<asked, answered, outcome>>

Conclude(c, o) ==
  /\ Pending(c)
  /\ outcome' = [outcome EXCEPT ![c] = o]
  /\ UNCHANGED <<asked, answered, failed>>

Return(c) == c \in answered /\ Conclude(c, "answer")
Raise(c) == c \in failed /\ Conclude(c, "error")
GiveUp(c) == Conclude(c, "gave_up")
Settle(c) == c \in Lenient /\ Conclude(c, "partial")

End(c) == Return(c) \/ Raise(c) \/ GiveUp(c) \/ Settle(c)

Next == \E c \in Callers : Ask(c) \/ Answer(c) \/ Fail(c) \/ End(c)

Spec == Init /\ [][Next]_vars /\ \A c \in Callers : WF_vars(End(c))
=============================================================================
