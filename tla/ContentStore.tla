---------------------------- MODULE ContentStore ----------------------------
(***************************************************************************)
(* What the token cache promises its clients, with neither recency order   *)
(* nor files: a token denotes at most one payload for all time, distinct   *)
(* tokens denote distinct payloads, and a stored payload may be forgotten  *)
(* at any moment except by the upload that stores it.                      *)
(***************************************************************************)
CONSTANTS Payload, Token

VARIABLES
    denotes,    \* the payload each live token stands for
    spent       \* every token ever drawn

storeVars == <<denotes, spent>>

Init == denotes = <<>> /\ spent = {}

\* A new payload under a fresh token; other payloads may make room for it
Store(p, t) ==
    /\ \A u \in DOMAIN denotes : denotes[u] # p
    /\ t \notin spent
    /\ spent' = spent \cup {t}
    /\ \E kept \in SUBSET DOMAIN denotes :
          denotes' = [u \in kept \cup {t} |-> IF u = t THEN p ELSE denotes[u]]

\* Any set of payloads is deleted, or lost with the process
Lose ==
    /\ \E kept \in SUBSET DOMAIN denotes : denotes' = [u \in kept |-> denotes[u]]
    /\ UNCHANGED spent

\* A token drawn for an upload that never completed
Waste(t) ==
    /\ t \notin spent
    /\ spent' = spent \cup {t}
    /\ denotes' \in {denotes, <<>>}

Next ==
    \/ \E p \in Payload, t \in Token : Store(p, t)
    \/ Lose
    \/ \E t \in Token : Waste(t)

Spec == Init /\ [][Next]_storeVars

=============================================================================
