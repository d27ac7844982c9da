--------------------------- MODULE MCKeySubscriber ---------------------------
(* KeySubscriber for TLC: two applications that subscribe to a key that is
   held, alone and in a combination, to a delayed release, and to a short
   press of a power key; one of them asks twice with the same id. *)
EXTENDS KeySubscriber

CONSTANTS s, t, x, y

Held(pre, key) ==
  [preKeys |-> pre, finalKey |-> key, isFinalKeyDown |-> TRUE, lasting |-> TRUE, delayed |-> FALSE]

Released(key, lasting) ==
  [preKeys |-> {}, finalKey |-> key, isFinalKeyDown |-> FALSE, lasting |-> lasting, delayed |-> TRUE]

MCSubscriptions ==
  { [sess |-> s, id |-> 0, option |-> Held({}, x)],
    [sess |-> s, id |-> 1, option |-> Held({x}, y)],
    [sess |-> t, id |-> 0, option |-> Released(y, TRUE)],
    [sess |-> t, id |-> 0, option |-> Released(x, FALSE)] }
=============================================================================
