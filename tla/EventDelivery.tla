--------------------------- MODULE EventDelivery ---------------------------
(***************************************************************************)
(* The reactor's durable JetStream consumer (bus.SubscribeEvents): events  *)
(* are handed to the handler one at a time and acknowledged when it        *)
(* returns.  The server sends an event again when the handler fails (Nak), *)
(* when the acknowledgement takes longer than AckWait - also while the     *)
(* first copy still waits in the client behind a slow handler - and when   *)
(* the reactor comes back after a crash.  The steps here are parts of the  *)
(* actions of HoneyDispatch.                                               *)
(***************************************************************************)
EXTENDS Naturals, Sequences, SequencesExt

CONSTANTS
    Events,         \* the events that may be published, with their ids
    NoEvent,        \* nothing is being handled
    MaxCopies       \* bound on the times one process is sent an event

ASSUME DeliveryAssumption ==
    /\ \A e, f \in Events : e.id = f.id => e = f
    /\ NoEvent \notin Events
    /\ MaxCopies \in Nat \ {0}

VARIABLES
    up,             \* the reactor process runs
    published,      \* the stream, oldest first
    acked,          \* events the consumer was acknowledged
    inbox,          \* copies that wait in the client
    hand,           \* the event the handler works on
    copies          \* how often each event was sent to this process

deliveryVars == <<up, published, acked, inbox, hand, copies>>

DeliveryInit ==
    /\ up = TRUE
    /\ published = <<>> /\ acked = {} /\ inbox = <<>> /\ hand = NoEvent
    /\ copies = [e \in Events |-> 0]

DeliveryTypeOK ==
    /\ up \in BOOLEAN
    /\ published \in Seq(Events) /\ inbox \in Seq(Events)
    /\ acked \subseteq Events
    /\ hand \in Events \cup {NoEvent}
    /\ copies \in [Events -> 0..MaxCopies]

-----------------------------------------------------------------------------

Unpublished(e) == e \notin ToSet(published)

\* A running reactor's consumer is sent the event at once.
Publish(e) ==
    /\ Unpublished(e)
    /\ published' = Append(published, e)
    /\ inbox' = IF up THEN Append(inbox, e) ELSE inbox
    /\ copies' = IF up THEN [copies EXCEPT ![e] = 1] ELSE copies
    /\ UNCHANGED <<up, acked, hand>>

Deliver(e) ==
    /\ hand = NoEvent
    /\ inbox # <<>> /\ e = Head(inbox)
    /\ hand' = e
    /\ inbox' = Tail(inbox)
    /\ UNCHANGED <<up, published, acked, copies>>

Ack ==
    /\ acked' = acked \cup {hand}
    /\ hand' = NoEvent
    /\ UNCHANGED <<up, published, inbox, copies>>

\* Beyond MaxCopies the next copy is still on its way.
SendAgain(e) ==
    IF copies[e] < MaxCopies
    THEN inbox' = Append(inbox, e) /\ copies' = [copies EXCEPT ![e] = @ + 1]
    ELSE UNCHANGED <<inbox, copies>>

\* An event that another copy acknowledged is not sent again.
Nak ==
    /\ IF hand \in acked THEN UNCHANGED <<inbox, copies>> ELSE SendAgain(hand)
    /\ hand' = NoEvent
    /\ UNCHANGED <<up, published, acked>>

\* AckWait ran out for a copy that is handled or still waits its turn.
AckWaitExpires(e) ==
    /\ e = hand \/ e \in ToSet(inbox)
    /\ e \notin acked
    /\ copies[e] < MaxCopies
    /\ SendAgain(e)
    /\ UNCHANGED <<up, published, acked, hand>>

ProcessDies ==
    /\ up' = FALSE
    /\ inbox' = <<>> /\ hand' = NoEvent
    /\ UNCHANGED <<published, acked, copies>>

\* The durable consumer kept what was not acknowledged.
ProcessStarts ==
    /\ up' = TRUE
    /\ inbox' = SelectSeq(published, LAMBDA e : e \notin acked)
    /\ copies' = [e \in Events |->
                    IF e \in ToSet(published) \ acked THEN 1 ELSE 0]
    /\ UNCHANGED <<published, acked, hand>>
=============================================================================
