------------------------------ MODULE Producer ------------------------------
(***************************************************************************)
(* internal/kafka/producer.go.  PublishJSON marshals the payload and calls *)
(* WriteMessages up to PublishAttempts times.  One WriteMessages call may  *)
(* store the record and still report an error (the acknowledgement is      *)
(* lost), and the client library retries inside the call, so a call leaves *)
(* 0..WriterCopies copies in the topic.  An acknowledged call has stored   *)
(* at least one copy (RequireOne, Async: false).                           *)
(*                                                                         *)
(* The state of a call is the number of the attempt it is at; it belongs   *)
(* to the module whose process makes the call.                             *)
(***************************************************************************)
EXTENDS Naturals, Sequences

CONSTANTS
  PublishAttempts,  (* attempts of PublishJSON; 3 in the code              *)
  WriterCopies      (* copies one WriteMessages call can leave behind      *)

ASSUME ProducerAssumption ==
  /\ PublishAttempts \in Nat \ {0}
  /\ WriterCopies \in Nat \ {0}

\* What one WriteMessages call did to the topic, and what it returned.
WriteOutcomes ==
  {w \in [copies : 0..WriterCopies, acked : BOOLEAN] : w.acked => w.copies > 0}

\* The topic after a call with outcome w that wrote record e.
Stored(log, e, w) == log \o [i \in 1..w.copies |-> e]

\* Mutant of GivesUp: one attempt too many.
GivesUpOffByOne(w, n) == ~w.acked /\ n > PublishAttempts

\* The n-th attempt failed: the loop tries again, or PublishJSON returns an error.
GivesUp(w, n)    == ~w.acked /\ n >= PublishAttempts
TriesAgain(w, n) == ~w.acked /\ ~GivesUp(w, n)
=============================================================================
