------------------------------ MODULE Framing ------------------------------
(***************************************************************************)
(* The bytes TWS sends and the messages the client makes of them: the      *)
(* handshake of AsyncEClient.connect, the buffer of _read_loop and         *)
(* _dispatch_message.                                                      *)
(*                                                                         *)
(* A message travels as its length, a prefix of four units with the high   *)
(* one first, and its body.  Units are bytes, for which Base is 256.  The  *)
(* network delivers any number of units at a time.  Unit values matter: a  *)
(* reader that is off by one takes body units for a length.                *)
(***************************************************************************)
EXTENDS Integers, Sequences, SequencesExt

CONSTANTS
  Base,       \* the number of unit values
  Bodies,     \* the bodies TWS may send
  Hello,      \* the body with the server version and the time
  Decodable,  \* bodies that do not make the dispatch raise
  MaxMsgLen,  \* the longest body that is dispatched
  ReadSize,   \* the most units one read returns
  MaxFrames,  \* bound: frames sent to the read loop
  MaxEarly    \* bound: frames sent before the hello

Units == 0..Base - 1

ASSUME BaseAssumption == Base \in Nat \ {0, 1}

\* A body is as long as its prefix can say.
ASSUME BodiesAssumption ==
  /\ Bodies \subseteq Seq(Units)
  /\ \A b \in Bodies : Len(b) < Base * (Base * (Base * Base))
  /\ Hello \in Bodies \ {<<>>}
  /\ Decodable \subseteq Bodies
ASSUME BoundsAssumption ==
  {MaxMsgLen, ReadSize, MaxFrames, MaxEarly} \subseteq Nat

VARIABLES
  phase,    \* handshake, reading, extracting, failed or ended
  wire,     \* units sent and not read
  buf,      \* raw of connect, then buf of _read_loop
  greeted,  \* TWS has sent its hello
  early,    \* frames sent before it
  eof,      \* TWS has closed the connection
  stalled,  \* the last message taken was empty
  sent,     \* history: bodies sent to the read loop
  decoded   \* bodies the decoder was given

vars == <<phase, wire, buf, greeted, early, eof, stalled, sent, decoded>>

TypeOK ==
  /\ phase \in {"handshake", "reading", "extracting", "failed", "ended"}
  /\ wire \in Seq(Units)
  /\ buf \in Seq(Units)
  /\ greeted \in BOOLEAN
  /\ early \in 0..MaxEarly
  /\ eof \in BOOLEAN
  /\ stalled \in BOOLEAN
  /\ sent \in Seq(Bodies)
  /\ decoded \in Seq(Bodies)

Init ==
  /\ phase = "handshake"
  /\ wire = <<>> /\ buf = <<>>
  /\ greeted = FALSE /\ early = 0
  /\ eof = FALSE /\ stalled = FALSE
  /\ sent = <<>> /\ decoded = <<>>

(***************************************************************************)
(* comm.make_msg and comm.read_msg of ibapi                                *)
(***************************************************************************)
Prefix == 4

\* The digits of a length, the high one first.
Digits(n) ==
  LET n1 == n \div Base
      n2 == n1 \div Base
      n3 == n2 \div Base
  IN <<n3, n2 % Base, n1 % Base, n % Base>>

Frame(b) == Digits(Len(b)) \o b

Size(u) == ((u[1] * Base + u[2]) * Base + u[3]) * Base + u[4]

\* Units u begin with a whole message.
Complete(u) == Len(u) >= Prefix /\ Len(u) >= Prefix + Size(u)

Body(u) == SubSeq(u, Prefix + 1, Prefix + Size(u))

\* Faulty: what follows the message is dropped.
NoRest(u) == SubSeq(u, 1, 0)
Rest(u) == SubSeq(u, Prefix + Size(u) + 1, Len(u))

(***************************************************************************)
(* TWS                                                                     *)
(***************************************************************************)

\* Other messages may come before the hello: connect loops over them.
SendEarly(b) ==
  /\ ~greeted /\ ~eof
  /\ early < MaxEarly
  /\ b # Hello
  /\ early' = early + 1
  /\ wire' = wire \o Frame(b)
  /\ UNCHANGED <<phase, buf, greeted, eof, stalled, sent, decoded>>

SendHello ==
  /\ ~greeted /\ ~eof
  /\ greeted' = TRUE
  /\ wire' = wire \o Frame(Hello)
  /\ UNCHANGED <<phase, buf, early, eof, stalled, sent, decoded>>

\* Nothing follows the hello until TWS gets START_API, which the client sends
\* once it has read the hello.
Send(b) ==
  /\ phase \notin {"handshake", "failed"} /\ ~eof
  /\ Len(sent) < MaxFrames
  /\ sent' = Append(sent, b)
  /\ wire' = wire \o Frame(b)
  /\ UNCHANGED <<phase, buf, greeted, early, eof, stalled, decoded>>

ServerCloses ==
  /\ ~eof
  /\ eof' = TRUE
  /\ UNCHANGED <<phase, wire, buf, greeted, early, stalled, sent, decoded>>

(***************************************************************************)
(* connect                                                                 *)
(***************************************************************************)

\* A read returns what has arrived, up to ReadSize units and at least one.
Reads(n) ==
  /\ n \in 1..ReadSize
  /\ n <= Len(wire)
  /\ wire' = SubSeq(wire, n + 1, Len(wire))

\* Faulty: what was read replaces what was buffered.
ChunkOnly(n) == SubSeq(wire, 1, n)
Buffered(n) == buf \o SubSeq(wire, 1, n)

\* One turn of the handshake loop reads, and then takes one message at most, if
\* a whole one is there and is not empty.  What the buffer holds behind the
\* hello is dropped.
HandshakeRead(n) ==
  /\ phase = "handshake"
  /\ Reads(n)
  /\ LET raw == Buffered(n)
         found == Complete(raw) /\ Body(raw) # <<>>
     IN \/ ~found /\ buf' = raw /\ UNCHANGED phase
        \/ found /\ Body(raw) # Hello /\ buf' = Rest(raw) /\ UNCHANGED phase
        \/ found /\ Body(raw) = Hello /\ buf' = <<>> /\ phase' = "reading"
  /\ UNCHANGED <<greeted, early, eof, stalled, sent, decoded>>

\* EOF, a reset, or ten seconds without a unit.
HandshakeFails ==
  /\ phase = "handshake"
  /\ phase' = "failed"
  /\ UNCHANGED <<wire, buf, greeted, early, eof, stalled, sent, decoded>>

(***************************************************************************)
(* _read_loop                                                              *)
(***************************************************************************)

Read(n) ==
  /\ phase = "reading"
  /\ Reads(n)
  /\ buf' = Buffered(n)
  /\ phase' = "extracting"
  /\ stalled' = FALSE
  /\ UNCHANGED <<greeted, early, eof, sent, decoded>>

\* Faulty: a message that cannot be decoded ends the extraction.
StopsAtBadMessage ==
  /\ phase = "extracting"
  /\ Complete(buf) /\ Body(buf) # <<>>
  /\ buf' = Rest(buf)
  /\ IF Body(buf) \in Decodable
       THEN decoded' = Append(decoded, Body(buf)) /\ UNCHANGED phase
       ELSE phase' = "reading" /\ UNCHANGED decoded
  /\ UNCHANGED <<wire, greeted, early, eof, stalled, sent>>

\* Faulty: the decoder is given the prefix too.
KeepsPrefix ==
  /\ phase = "extracting"
  /\ Complete(buf) /\ Body(buf) # <<>>
  /\ buf' = Rest(buf)
  /\ decoded' = Append(decoded, SubSeq(buf, 1, Prefix + Size(buf)))
  /\ UNCHANGED <<phase, wire, greeted, early, eof, stalled, sent>>

\* The inner loop takes a message and dispatches it: one that is too long is
\* dropped, and what the dispatch raises is swallowed.
Dispatch ==
  /\ phase = "extracting"
  /\ Complete(buf) /\ Body(buf) # <<>>
  /\ buf' = Rest(buf)
  /\ decoded' = IF Len(Body(buf)) <= MaxMsgLen /\ Body(buf) \in Decodable
                  THEN Append(decoded, Body(buf))
                  ELSE decoded
  /\ UNCHANGED <<phase, wire, greeted, early, eof, stalled, sent>>

\* The inner loop stops at an incomplete message, and at an empty one, which it
\* takes for incomplete although read_msg has consumed its prefix.
StopExtracting ==
  /\ phase = "extracting"
  /\ phase' = "reading"
  /\ \/ ~Complete(buf) /\ UNCHANGED <<buf, stalled>>
     \/ Complete(buf) /\ Body(buf) = <<>> /\ buf' = Rest(buf) /\ stalled' = TRUE
  /\ UNCHANGED <<wire, greeted, early, eof, sent, decoded>>

\* A read finds EOF once everything before it has been read.
ReadEof ==
  /\ phase = "reading"
  /\ eof /\ wire = <<>>
  /\ phase' = "ended"
  /\ UNCHANGED <<wire, buf, greeted, early, eof, stalled, sent, decoded>>

\* A reset, a cancellation, or a connection that is no longer connected.
StopReading ==
  /\ phase = "reading"
  /\ phase' = "ended"
  /\ UNCHANGED <<wire, buf, greeted, early, eof, stalled, sent, decoded>>

ReadLoop ==
  \/ \E n \in 1..ReadSize : Read(n)
  \/ Dispatch \/ StopExtracting \/ ReadEof

Next ==
  \/ \E b \in Bodies : SendEarly(b) \/ Send(b)
  \/ SendHello
  \/ ServerCloses
  \/ \E n \in 1..ReadSize : HandshakeRead(n)
  \/ HandshakeFails
  \/ ReadLoop
  \/ StopReading

Spec == Init /\ [][Next]_vars

\* The network delivers what it carries, and the event loop runs the task.
FairSpec == Spec /\ WF_vars(ReadLoop)

(***************************************************************************)
(* Properties                                                              *)
(***************************************************************************)

\* What the decoder is meant to get of a sequence of bodies.
Deliverable(b) == Len(b) \in 1..MaxMsgLen /\ b \in Decodable
ToDeliver(bodies) ==
  FlattenSeq([i \in 1..Len(bodies) |-> IF Deliverable(bodies[i]) THEN <<bodies[i]>> ELSE <<>>])

\* The units in which bodies travel.
Frames(bodies) == FlattenSeq([i \in 1..Len(bodies) |-> Frame(bodies[i])])

\* However the stream was cut, the buffer begins where a message begins, no
\* unit is lost or taken twice, and the decoder has what came before.
Aligned ==
  phase \in {"reading", "extracting", "ended"} =>
    \E i \in 0..Len(sent) :
      /\ buf \o wire = Frames(SubSeq(sent, i + 1, Len(sent)))
      /\ decoded = ToDeliver(SubSeq(sent, 1, i))

\* The loop does not wait for more units with a whole message in its buffer,
\* except behind an empty one; nor does connect, which would miss the hello and
\* time out, unless TWS sent another message before it.
Prompt ==
  /\ phase = "reading" /\ Complete(buf) => stalled
  /\ phase = "handshake" /\ Complete(buf) => early > 0

\* What TWS sent is decoded unless the connection ends first, or the message is
\* held up behind an empty one until TWS sends again.
Delivers ==
  \A i \in 1..MaxFrames :
    Len(ToDeliver(sent)) >= i
      ~> \/ Len(decoded) >= i
         \/ phase = "ended"
         \/ stalled /\ Complete(buf)

\* The reader implements a channel of messages.
Channel == INSTANCE FrameChannel WITH
  Messages <- {b \in Bodies : Deliverable(b)},
  sent <- ToDeliver(sent)

ImplementsChannel == Channel!Spec
=============================================================================
