----------------------------- MODULE RpcContract -----------------------------
(***************************************************************************)
(* What the RPC server promises its host: a request that was accepted is   *)
(* answered at most once, and a well-formed notification is not answered.  *)
(***************************************************************************)
EXTENDS Sequences

CONSTANT Packets    \* the host's packets

VARIABLES request,  \* request[p]: what packet p asks for (set when it is sent)
          accepted, \* the packets taken for processing
          sent      \* sent[p]: the replies to p that reached the bridge

vars == <<request, accepted, sent>>

Answers == {"result", "error"}

\* A packet is answered if it has an id, or is too malformed to look for one.
WantsAnswer(r) == r.id \/ r.call = "malformed"

Init == accepted = {} /\ sent = [p \in Packets |-> << >>]

\* A packet is sent: what it asks for is known before it is accepted.
Send ==
    /\ \A p \in accepted : request'[p] = request[p]
    /\ UNCHANGED <<accepted, sent>>

Accept(p) ==
    /\ p \notin accepted
    /\ accepted' = accepted \cup {p}
    /\ UNCHANGED <<request, sent>>

Answer(p, a) ==
    /\ p \in accepted /\ sent[p] = << >> /\ WantsAnswer(request[p])
    /\ sent' = [sent EXCEPT ![p] = <<a>>]
    /\ UNCHANGED <<request, accepted>>

Next ==
    \/ Send
    \/ \E p \in Packets : Accept(p) \/ \E a \in Answers : Answer(p, a)

Spec == Init /\ [][Next]_vars
==============================================================================
