--------------------------- MODULE MessageQueue ---------------------------
(***************************************************************************)
(* What the operations on a Task's queue do to the vector of its messages, *)
(* each with an id of its own.  Positions count from 1.                    *)
(* The operators of SequencesExt would serve, but every definition that    *)
(* module brings along is weighed in each step of the proofs about         *)
(* TaskTurns, which then take several times as long.                       *)
(***************************************************************************)
EXTENDS Integers, Sequences, Functions

(* Vec::remove and Vec::insert. *)
RemoveIndex(q, k) == SubSeq(q, 1, k - 1) \o SubSeq(q, k + 1, Len(q))
InsertIndex(q, k, i) == SubSeq(q, 1, k - 1) \o <<i>> \o SubSeq(q, k, Len(q))

(* The position of the message with the id i. *)
Position(q, i) == CHOOSE k \in DOMAIN q : q[k] = i

(* The message i is taken out, if it is there. *)
Without(q, i) == IF i \in Range(q) THEN RemoveIndex(q, Position(q, i)) ELSE q

(* The message i goes to position k of the others. *)
MovedTo(q, i, k) == InsertIndex(Without(q, i), k, i)
=============================================================================
