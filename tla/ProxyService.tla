----------------------------- MODULE ProxyService -----------------------------
(***************************************************************************)
(* What a client may rely on when it sends a request through the network,  *)
(* whatever the proxy, the edge node and the network between them do: one  *)
(* status line that never changes; the pieces of the body in order, without*)
(* gaps or duplicates; no piece without a status line of the application;  *)
(* a request that was refused (any answer of the network itself, except    *)
(* 502) has not been, and will not be, performed by the application; and   *)
(* nothing after the end.                                                  *)
(***************************************************************************)
EXTENDS Naturals, Sequences

CONSTANT Requests

VARIABLES
  status,   \* the status line that the client has received
  got,      \* the pieces of the body that it has received
  end,      \* "open", or how its connection ended: "clean", cut ("broken"), or
            \* closed before the declared length ("short")
  ran       \* the application has been handed the request

vars == <<status, got, end, ran>>

Init ==
  /\ status = [r \in Requests |-> [by |-> "none", code |-> 0]]
  /\ got = [r \in Requests |-> <<>>]
  /\ end = [r \in Requests |-> "open"]
  /\ ran = [r \in Requests |-> FALSE]

Answered(s) == s.by # "none"
Refuses(s)  == s.by \in {"proxy", "edge"} /\ s.code # 502

\* The application gets the request, at most once and never after a refusal;
\* it may be after the client was disconnected.
Perform(r) ==
  /\ ~ran[r] /\ ~Answered(status[r])
  /\ ran' = [ran EXCEPT ![r] = TRUE]
  /\ UNCHANGED <<status, got, end>>

\* The client sees more of its answer: a status line, pieces, the end, or some
\* of these at once.
Advance(r) ==
  /\ end[r] = "open"
  /\ Answered(status[r]) => status'[r] = status[r]
  /\ status'[r].by = "app" => ran[r]
  /\ Refuses(status'[r]) => ~ran[r]
  /\ end'[r] \in {"open", "clean", "short", "broken"}
  /\ end'[r] = "clean" => Answered(status'[r])
  /\ \E n \in 0..Len(got'[r]) :
       /\ got'[r] = got[r] \o [i \in 1..n |-> Len(got[r]) + i]
       /\ n > 0 => status'[r].by = "app"
  /\ \A q \in Requests \ {r} :
       status'[q] = status[q] /\ got'[q] = got[q] /\ end'[q] = end[q]
  /\ UNCHANGED ran

Next == \E r \in Requests : Perform(r) \/ Advance(r)

Spec == Init /\ [][Next]_vars
=============================================================================
