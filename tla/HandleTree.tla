----------------------------- MODULE HandleTree -----------------------------
(***************************************************************************)
(* What every bus driver of this package owes the UEFI driver model, for a *)
(* tree of controllers: a handle appears only below a controller its       *)
(* driver manages, and a driver lets go of a controller, or a handle       *)
(* disappears, only when nothing is left below it.  An error path that     *)
(* cannot put a child back on the record of its parent orphans it; orphans *)
(* are all that may be left behind.                                        *)
(***************************************************************************)
CONSTANTS Nodes, Root, Parent

VARIABLES
  live,     \* handles in the handle database
  managed,  \* controllers a driver has open BY_DRIVER
  orphans   \* handles that no DisconnectController finds any more

vars == <<live, managed, orphans>>

Below(n) == {c \in live \ orphans : c # Root /\ Parent[c] = n}

Init == live = {Root} /\ managed = {} /\ orphans = {}

\* DRIVER_BINDING.Start, the whole or a part of it.
Start(n) ==
  /\ n \in live
  /\ managed' = managed \cup {n}
  /\ live \subseteq live'
  /\ \A c \in live' \ live : c \in Nodes \ {Root} /\ Parent[c] = n
  /\ UNCHANGED orphans

\* DRIVER_BINDING.Stop for one child, or what undoes an incomplete Start.
Remove(c) ==
  /\ c \in live \ ({Root} \cup managed)
  /\ Below(c) = {}
  /\ live' = live \ {c}
  /\ orphans' = orphans \ {c}
  /\ UNCHANGED managed

\* DRIVER_BINDING.Stop without children.
Stop(n) ==
  /\ n \in managed
  /\ Below(n) = {}
  /\ managed' = managed \ {n}
  /\ UNCHANGED <<live, orphans>>

\* The record of a child that could not be removed is not restored.
Orphan(c) ==
  /\ c \in live \ {Root}
  /\ orphans' = orphans \cup {c}
  /\ UNCHANGED <<live, managed>>

Next == \E n \in Nodes : Start(n) \/ Remove(n) \/ Stop(n) \/ Orphan(n)

Spec == Init /\ [][Next]_vars
=============================================================================
