---------------------------- MODULE MCRequestQueue ----------------------------
(* RequestQueue with three requests of two priorities, all queued at a time,    *)
(* so that one can be removed from inside the heap, and two tasks that compete   *)
(* for one permit.                                                              *)
EXTENDS RequestQueue
=============================================================================
