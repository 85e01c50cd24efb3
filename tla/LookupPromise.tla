---------------------------- MODULE LookupPromise ----------------------------
(***************************************************************************)
(* What FacehuggerClient.lookup promises its caller, without manifests,    *)
(* shards, caches and requests: a digest is answered out of one            *)
(* publication that has been served, with all its occurrences there and    *)
(* nothing else.  A lookup may fail, but it says that the index is missing *)
(* only if the site was replaced since it began.                           *)
(***************************************************************************)
EXTENDS Integers

CONSTANTS
    Clients,   \* the processes that look digests up
    Queries,   \* the digests they look up
    Versions,  \* 1..n, the publications
    Content,   \* Content[v][d]: the occurrences of a digest in a publication
    Nothing    \* no digest, no version, no answer

VARIABLES
    current,   \* the newest publication, 0 before the first
    call       \* what each client has asked, and what it was told

vars == <<current, call>>

NoCall == [state |-> "none", digest |-> Nothing, startedAt |-> 0,
           version |-> Nothing, matches |-> Nothing]

Init == current = 0 /\ call = [c \in Clients |-> NoCall]

Publish ==
    /\ current + 1 \in Versions
    /\ current' = current + 1
    /\ UNCHANGED call

Ask(c, d) ==
    /\ call[c].state = "none"
    /\ call' = [call EXCEPT ![c] =
                   [NoCall EXCEPT !.state = "asked", !.digest = d, !.startedAt = current]]
    /\ UNCHANGED current

Told(c, state, v, matches) ==
    [state |-> state, digest |-> call[c].digest, startedAt |-> call[c].startedAt,
     version |-> v, matches |-> matches]

Answer(c, v) ==
    /\ call[c].state = "asked" /\ v <= current
    /\ call' = [call EXCEPT ![c] = Told(c, "answered", v, Content[v][call[c].digest])]
    /\ UNCHANGED current

Miss(c) ==
    /\ call[c].state = "asked" /\ call[c].startedAt < current
    /\ call' = [call EXCEPT ![c] = Told(c, "missing", Nothing, Nothing)]
    /\ UNCHANGED current

\* The result is taken, or the lookup fails for a reason of its own.
Leave(c) ==
    /\ call' = [call EXCEPT ![c] = NoCall]
    /\ UNCHANGED current

Next ==
    \/ Publish
    \/ \E c \in Clients :
          \/ \E d \in Queries : Ask(c, d)
          \/ \E v \in Versions : Answer(c, v)
          \/ Miss(c) \/ Leave(c)

Spec == Init /\ [][Next]_vars
=============================================================================
