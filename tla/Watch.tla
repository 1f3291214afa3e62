-------------------------------- MODULE Watch --------------------------------
(***************************************************************************)
(* What a signal promises to those who watch it: a level-triggered         *)
(* notification.  A published value makes every watcher stale and owes     *)
(* each of them a notification; a notification wakes its watcher; a woken  *)
(* watcher looks, and is then up to date.  Watchers may be woken for no    *)
(* reason.  The promise is Covered: whoever is stale is woken or is still  *)
(* owed a notification, so nobody stale sleeps for ever unless the         *)
(* notifications themselves are withheld.                                  *)
(*                                                                         *)
(* Module Signal implements this specification (see SignalWatch there).    *)
(***************************************************************************)
CONSTANT Watchers

VARIABLES
  watching,  \* watchers that follow the value
  stale,     \* those of them that have not looked since the last publication
  owed,      \* those a notification is on its way to
  woken      \* those that have a reason to look

vars == <<watching, stale, owed, woken>>

Init ==
  /\ watching = {}
  /\ stale = {}
  /\ owed = {}
  /\ woken = {}

Publish ==
  /\ stale' = watching
  /\ owed' = watching
  /\ UNCHANGED <<watching, woken>>

\* A notification arrives; it may be the one that was owed.
Notify(s) ==
  /\ s \in watching
  /\ woken' = woken \cup {s}
  /\ owed' \in {owed, owed \ {s}}
  /\ UNCHANGED <<watching, stale>>

\* A watcher looks; it may have been notified again in the meantime.
Look(s) ==
  /\ s \in woken
  /\ stale' = stale \ {s}
  /\ woken' \in {woken, woken \ {s}}
  /\ UNCHANGED <<watching, owed>>

\* A newcomer has yet to look for the first time.
Join(s) ==
  /\ s \in Watchers \ watching
  /\ watching' = watching \cup {s}
  /\ woken' = woken \cup {s}
  /\ stale' \in {stale, stale \cup {s}}
  /\ owed' \in {owed, owed \cup {s}}

Leave(s) ==
  /\ s \in watching
  /\ watching' = watching \ {s}
  /\ stale' = stale \ {s}
  /\ owed' = owed \ {s}
  /\ woken' = woken \ {s}

Next ==
  \/ Publish
  \/ \E s \in Watchers : Notify(s) \/ Look(s) \/ Join(s) \/ Leave(s)

Spec == Init /\ [][Next]_vars

Covered == stale \subseteq owed \cup woken
=============================================================================
