------------------------------ MODULE CrawlerMC -----------------------------
(* Instances of Crawler for TLC. *)
EXTENDS Crawler

CONSTANTS a, b,    \* revisions
          p,       \* a path
          s, t,    \* digests
          none     \* NULL

MCRevisions == {a, b}
MCPaths == {p}
MCShas == {s, t}

\* Every repository has digest s at its first commit; at its second, repository 1 has a
\* file without an exact digest, 2 no candidate file, and the others digest t.
MCContent ==
    [r \in Repos |->
        [v \in MCRevisions |->
            IF v = a THEN {[path |-> p, sha |-> s]}
            ELSE IF r = 1 THEN {[path |-> p, sha |-> none]}
            ELSE IF r = 2 THEN {} ELSE {[path |-> p, sha |-> t]}]]

\* An older release indexed repository 2; or nothing was indexed before.
MCLegacy == [r \in {2} |-> a]
NoLegacy == [r \in {} |-> a]

\* Repository 1 is the oldest on the Hub, and all are public and open; or repository 2
\* is already gone.
AllPublic == [r \in Repos |-> [vis |-> "public", rev |-> a, gated |-> FALSE, stamp |-> r]]
MCHubs == {AllPublic, [AllPublic EXCEPT ![2].vis = "gone"]}
OneHub == {AllPublic}
=============================================================================
