--------------------------- MODULE NativeSession ---------------------------
(***************************************************************************)
(* What a persistent native session promises to those who use it: one     *)
(* app-server at most may write its state, wherever that is kept, and the *)
(* state is the last one written until the retired session is purged.     *)
(***************************************************************************)
EXTENDS Naturals

CONSTANTS Servers, Gone

VARIABLES
  native,     \* the state, as the number of turns that made it, or Gone
  writers,    \* the app-servers that may write it
  turn,       \* the last one: settled, asked for, or uncertain and held
  retired     \* no turn will be asked for any more

vars == <<native, writers, turn, retired>>

Init ==
    /\ native = 0
    /\ turn \in {"settled", "asked", "held"} /\ retired \in BOOLEAN
    /\ \E S \in SUBSET Servers : writers = S /\ \A m, n \in S : m = n

Starts(n) ==
    /\ writers = {} /\ ~retired
    /\ writers' = {n}
    /\ UNCHANGED <<native, turn, retired>>

Asks ==
    /\ writers # {} /\ ~retired /\ turn = "settled" /\ turn' = "asked"
    /\ UNCHANGED <<native, writers, retired>>

\* Also by a server that outlives the run that asked.
Writes ==
    /\ writers # {} /\ turn # "settled"
    /\ native' = native + 1
    /\ UNCHANGED <<writers, turn, retired>>

Settles ==
    /\ writers # {} /\ turn' = "settled"
    /\ UNCHANGED <<native, writers, retired>>

Holds ==
    /\ writers # {} /\ turn = "asked" /\ turn' = "held"
    /\ UNCHANGED <<native, writers, retired>>

Ends(n) ==
    /\ writers' = writers \ {n}
    /\ UNCHANGED <<native, turn, retired>>

Retires ==
    /\ writers = {} /\ retired' = TRUE
    /\ UNCHANGED <<native, writers, turn>>

\* A turn that is held goes with the state: only one that was just asked for
\* protects it.
Purges ==
    /\ writers = {} /\ retired /\ turn # "asked"
    /\ native' = Gone
    /\ UNCHANGED <<writers, turn, retired>>

Next ==
    \/ \E n \in Servers : Starts(n) \/ Ends(n)
    \/ Asks \/ Writes \/ Settles \/ Holds \/ Retires \/ Purges

Spec == Init /\ [][Next]_vars

=============================================================================
