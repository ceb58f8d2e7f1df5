----------------------------- MODULE IdAllocator -----------------------------
(***************************************************************************)
(* What a store of ids promises its clients: an id that is handed out was  *)
(* free, and stays taken until the client that holds it gives it back.     *)
(* Ids may be lost (taken and held by nobody), when an answer is lost or   *)
(* when all clients die; they are never handed out twice.                  *)
(***************************************************************************)
VARIABLES
  taken,   \* the ids that are not free
  held     \* the ids each client holds

vars == <<taken, held>>

Clients == DOMAIN held

Init == \A c \in Clients : held[c] = {}

\* Ids that were free are taken, and the client holds them.
Allocate(c) ==
  /\ taken \subseteq taken'
  /\ held' = [held EXCEPT ![c] = @ \cup (taken' \ taken)]

\* Ids that were free are taken, but no client gets to know of it.
Lose ==
  /\ taken \subseteq taken'
  /\ UNCHANGED held

\* The client gives some of its ids up; they become free, or are lost.
Release(c, ids) ==
  /\ held' = [held EXCEPT ![c] = @ \ ids]
  /\ taken' \in {taken, taken \ ids}

\* The clients die with all they hold.
Restart ==
  /\ held' = [c \in Clients |-> {}]
  /\ UNCHANGED taken

Next ==
  \/ \E c \in Clients : Allocate(c) \/ (\E ids \in SUBSET held[c] : Release(c, ids))
  \/ Lose
  \/ Restart

Spec == Init /\ [][Next]_vars
=============================================================================
