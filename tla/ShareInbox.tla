----------------------------- MODULE ShareInbox -----------------------------
(***************************************************************************)
(* What sharing to Notelayer promises: an item the share sheet reported as *)
(* saved waits until it is imported, is imported once, and can only be     *)
(* lost on its way into the lists when the app's process ends.             *)
(***************************************************************************)
EXTENDS Naturals

CONSTANT Item

VARIABLES
    stage,      \* stage[i]: how far item i has come
    crashes     \* times the app's process ended

vars == <<stage, crashes>>

In(s) == {i \in Item : stage[i] = s}

Init ==
    /\ stage = [i \in Item |-> "unshared"]
    /\ crashes = 0

Become(items, s) == stage' = [i \in Item |-> IF i \in items THEN s ELSE stage[i]]

Share(i) ==
    /\ i \in In("unshared")
    /\ Become({i}, "waiting")
    /\ UNCHANGED crashes

Import(items) ==
    /\ items # {}
    /\ Become(items, "imported")
    /\ UNCHANGED crashes

Crash(items) ==
    /\ Become(items, "lost")
    /\ crashes' = crashes + 1

Next ==
    \/ \E i \in Item : Share(i)
    \/ \E items \in SUBSET In("waiting") : Import(items) \/ Crash(items)

Spec == Init /\ [][Next]_vars

=============================================================================
