----------------------------- MODULE CallQueue -----------------------------
(***************************************************************************)
(* What the delegate task queue of the input service promises its posters, *)
(* with no pipe, no task ids and no batches: calls posted by the service's *)
(* threads are served one at a time, in the order in which they were       *)
(* posted, each at most once; a synchronous call whose poster has given up *)
(* before its turn came is dropped, never started.                         *)
(***************************************************************************)
EXTENDS Naturals, Sequences

CONSTANT Clients   \* the threads that post calls to the worker thread

VARIABLES
  pending,    \* calls not yet finished, oldest first
  serving     \* TRUE while the call at the head of pending is executing

cqVars == <<pending, serving>>

Call == [client : Clients, sync : BOOLEAN, expired : BOOLEAN]

CQTypeOK ==
  /\ pending \in Seq(Call)
  /\ serving \in BOOLEAN
  /\ serving => pending # <<>>

Init ==
  /\ pending = <<>>
  /\ serving = FALSE

Enqueue(c, sync) ==
  /\ pending' = Append(pending, [client |-> c, sync |-> sync, expired |-> FALSE])
  /\ UNCHANGED serving

(* The poster of a synchronous call stops waiting for it; a call that is
   pending or executing is expired from here on. *)
Expire(c) ==
  /\ pending' = [i \in DOMAIN pending |->
                   IF pending[i].client = c /\ pending[i].sync
                   THEN [pending[i] EXCEPT !.expired = TRUE]
                   ELSE pending[i]]
  /\ UNCHANGED serving

Start ==
  /\ ~serving
  /\ pending # <<>>
  /\ ~Head(pending).expired
  /\ serving' = TRUE
  /\ UNCHANGED pending

Finish ==
  /\ serving
  /\ pending' = Tail(pending)
  /\ serving' = FALSE

Drop ==
  /\ ~serving
  /\ pending # <<>>
  /\ Head(pending).expired
  /\ pending' = Tail(pending)
  /\ UNCHANGED serving

(* The process dies and init starts a new one. *)
Respawn ==
  /\ serving
  /\ pending' = <<>>
  /\ serving' = FALSE

Next ==
  \/ \E c \in Clients, sync \in BOOLEAN : Enqueue(c, sync)
  \/ \E c \in Clients : Expire(c)
  \/ Start
  \/ Finish
  \/ Drop
  \/ Respawn

Spec == Init /\ [][Next]_cqVars
=============================================================================
