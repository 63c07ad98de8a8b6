---------------------------- MODULE RegistryService ----------------------------
(***************************************************************************)
(* What operators may rely on who register the owner and the type of a     *)
(* node, whatever the node, the hub and the connection between them do: a  *)
(* registration is of what its operator named and takes effect at most     *)
(* once, from when he asked for it on, and perhaps long after he was told  *)
(* that it failed; he is told once what came of it, and "ok" only after it *)
(* took effect; nothing else changes the record.                           *)
(***************************************************************************)
CONSTANTS
  Callers,          \* operators; each registers once or never
  Registrations,    \* what one can register
  NoNode

VARIABLES
  record,   \* the registration that the hub holds
  asked,    \* what an operator asked for
  taken,    \* the operators whose registrations took effect
  said      \* what an operator has been told: "nothing", "ok" or "error"

vars == <<record, asked, taken, said>>

Init ==
  /\ record = NoNode
  /\ asked = [c \in Callers |-> NoNode]
  /\ taken = {}
  /\ said = [c \in Callers |-> "nothing"]

\* An operator asks; if there is no node to ask he learns it at once.
Ask(c) ==
  /\ asked[c] = NoNode
  /\ \E registration \in Registrations : asked' = [asked EXCEPT ![c] = registration]
  /\ \E answer \in {"nothing", "error"} : said' = [said EXCEPT ![c] = answer]
  /\ UNCHANGED <<record, taken>>

\* His registration takes effect.
Take(c) ==
  /\ asked[c] # NoNode /\ c \notin taken
  /\ record' = asked[c]
  /\ taken' = taken \cup {c}
  /\ UNCHANGED <<asked, said>>

\* Some operators are told something: all who wait, if the node ends.
Tell(callers) ==
  /\ \A c \in callers : asked[c] # NoNode /\ said[c] = "nothing"
  /\ \E answer \in [callers -> {"ok", "error"}] :
       /\ \A c \in callers : answer[c] = "ok" => c \in taken
       /\ said' = [c \in Callers |-> IF c \in callers THEN answer[c] ELSE said[c]]
  /\ UNCHANGED <<record, asked, taken>>

Next ==
  \/ \E c \in Callers : Ask(c) \/ Take(c)
  \/ \E callers \in SUBSET Callers : Tell(callers)

Spec == Init /\ [][Next]_vars
=============================================================================
