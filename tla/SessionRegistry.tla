-------------------------- MODULE SessionRegistry --------------------------
(***************************************************************************)
(* What the session registry promises, as spec.md 3 and 4.1 describe it:  *)
(* per protocol, a map from a peer's external process id to the routing   *)
(* id of its session.                                                      *)
(*                                                                         *)
(*   Register  a PID not registered for the protocol gets a session whose *)
(*             routing id lies in 1..MaxId and is held by no live session *)
(*             of that protocol; a live session's id never changes;       *)
(*   Destroy   sessions end (the reaper evicts UDP sessions, a read       *)
(*             failure ends a TCP one), several at once for a reaper pass.*)
(*                                                                         *)
(* Server, whose registerClient checks, reads the counter and inserts in  *)
(* separate steps, is shown to implement this module when one TCP handler *)
(* runs at a time (Server!RegistryRefinement).                             *)
(***************************************************************************)
EXTENDS Integers, TLC

CONSTANTS
    Protocols,   \* the two namespaces
    Pids,        \* external process ids peers may report
    MaxId        \* MAX_CLIENTS_ID

VARIABLE sessions  \* protocol -> (PID -> routing id)

LiveIds(pr) == {sessions[pr][p] : p \in DOMAIN sessions[pr]}

Register(pr, p, id) ==
    /\ p \notin DOMAIN sessions[pr]
    /\ id \in (1..MaxId) \ LiveIds(pr)
    /\ sessions' = [sessions EXCEPT ![pr] = @ @@ (p :> id)]

\* The sessions of `pr` outside `kept` end.
Destroy(pr, kept) ==
    /\ kept \subseteq DOMAIN sessions[pr] /\ kept # DOMAIN sessions[pr]
    /\ sessions' = [sessions EXCEPT ![pr] = [p \in kept |-> @[p]]]

Init == sessions = [pr \in Protocols |-> [p \in {} |-> 0]]

\* Every step of the registry changes it: a session is added or some end.
Next ==
    /\ sessions' # sessions
    /\ \E pr \in Protocols :
          \/ \E p \in Pids, id \in 1..MaxId : Register(pr, p, id)
          \/ \E kept \in SUBSET DOMAIN sessions[pr] : Destroy(pr, kept)

Spec == Init /\ [][Next]_sessions

=============================================================================
