-------------------------- MODULE BatcherContract --------------------------
(***************************************************************************)
(* Batcher implements ServingContract.  The futures are the same; the call *)
(* is what the coordinator has handed to the backend while it awaits the   *)
(* answer; the phase is read off the coordinator task and stop().          *)
(***************************************************************************)
EXTENDS Batcher

Phase ==
    CASE shutdown = "no" /\ worker = "none" -> "unopened"
      [] shutdown = "no" /\ worker # "none" -> "open"
      [] shutdown = "joining" -> "closing"
      [] shutdown = "returned" -> "closed"
      [] shutdown = "raised" -> "broken"

Contract == INSTANCE ServingContract WITH
    call <- IF worker = "backend" THEN Range(inflight) ELSE {},
    phase <- Phase

(* Every behaviour of the batcher, seen through its futures, is one that   *)
(* the contract allows: refusals, overload rejections and settlements      *)
(* happen only when and in the groups the contract says.                   *)
ImplementsContract == Contract!Spec
=============================================================================
