---------------------------- MODULE MCKeyCommand ----------------------------
(* KeyCommand for TLC: a power key and a volume key; a shortcut that is held
   and one that is launched by a quick release; a sequence that does not
   wait, which erases the list the other one is read from, and one that does.
   Presses of the power key are injected and releases of it intercepted. *)
EXTENDS KeyCommand

CONSTANTS p, v

Key(key, action, timed) == [key |-> key, action |-> action, timed |-> timed]

MCShortcuts ==
  { [preKeys |-> {v}, finalKey |-> p, trigger |-> "down", lasting |-> TRUE],
    [preKeys |-> {v}, finalKey |-> p, trigger |-> "up", lasting |-> TRUE] }

MCSequences ==
  << [keys |-> <<Key(p, "down", FALSE), Key(p, "up", FALSE)>>, delayed |-> FALSE],
     [keys |-> <<Key(p, "down", TRUE), Key(v, "down", FALSE)>>, delayed |-> TRUE] >>

PowerDown == {[key |-> p, action |-> "down"]}
PowerUp == {[key |-> p, action |-> "up"]}
=============================================================================
