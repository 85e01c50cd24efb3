---------------------------- MODULE CrawlPromise -----------------------------
(***************************************************************************)
(* What the full crawl promises to whoever deploys its site, without       *)
(* pages, continuations, requests, tables, commits, crashes and deadlines: *)
(* in rounds, it takes note of what the Hub says of its repositories,      *)
(* forgets those it heard nothing of, and completes the round with a site  *)
(* of exactly what it has noted.                                           *)
(***************************************************************************)
EXTENDS Integers

CONSTANTS
    Repos,   \* the repositories
    Revs,    \* their revisions, and the absence of one
    Files    \* Files[r][v]: what there is to publish of repository r at revision v

VARIABLES
    hub,     \* what the Hub says of each repository it lists
    noted,   \* what the crawl has noted of each repository it knows
    heard,   \* the repositories noted in the open round
    phase,   \* where the open round stands
    round,   \* the number of the last round that was completed
    sites    \* the site ready for deployment, if there is one

vars == <<hub, noted, heard, phase, round, sites>>

Record == [rev : Revs, gated : BOOLEAN, eligible : BOOLEAN]

\* A site that has all of what is noted, and nothing else.
Contents ==
    UNION {{<<r, noted[r].gated, f>> : f \in Files[r][noted[r].rev]} :
              r \in {q \in DOMAIN noted : noted[q].eligible}}

\* Repositories an earlier release has left are known, but nothing is noted of them.
Init ==
    /\ \E S \in SUBSET Repos : \E old \in Record :
          /\ ~old.eligible
          /\ noted = [r \in S |-> old]
    /\ heard = {} /\ phase = "idle" /\ round = 0 /\ sites = {}

\* The Hub is not the crawl's to restrain: it may list anything at any moment.
HubChanges == UNCHANGED <<noted, heard, phase, round, sites>>

Open ==
    /\ phase = "idle"
    /\ phase' = "listing" /\ heard' = {}
    /\ UNCHANGED <<hub, noted, round, sites>>

\* Repositories are noted as the Hub has them at that moment, any number at a time.
Note(S) ==
    /\ phase = "listing" /\ S \subseteq DOMAIN hub
    /\ noted' = [r \in DOMAIN noted \union S |-> IF r \in S THEN hub[r] ELSE noted[r]]
    /\ heard' = heard \union S
    /\ UNCHANGED <<hub, phase, round, sites>>

ForgetUnheard ==
    /\ phase = "listing"
    /\ noted' = [r \in heard |-> noted[r]]
    /\ UNCHANGED <<hub, heard, phase, round, sites>>

\* What is noted now, the round is about.
Settle ==
    /\ phase = "listing" /\ DOMAIN noted = heard
    /\ phase' = "settling"
    /\ UNCHANGED <<hub, noted, heard, round, sites>>

\* What turns out not to be there is published no more.
Withdraw(r) ==
    /\ phase = "settling" /\ r \in DOMAIN noted
    /\ noted' = [noted EXCEPT ![r].eligible = FALSE]
    /\ UNCHANGED <<hub, heard, phase, round, sites>>

Stage ==
    /\ phase \in {"settling", "published"}
    /\ sites' = {Contents}
    /\ UNCHANGED <<hub, noted, heard, phase, round>>

\* The site of a workspace that is given up, or was deployed.
Discard ==
    /\ sites' = {}
    /\ UNCHANGED <<hub, noted, heard, phase, round>>

Publish ==
    /\ phase = "settling" /\ sites = {Contents}
    /\ phase' = "published" /\ round' = round + 1
    /\ UNCHANGED <<hub, noted, heard, sites>>

Close ==
    /\ phase = "published" /\ sites = {Contents}
    /\ phase' = "idle" /\ heard' = {}
    /\ UNCHANGED <<hub, noted, round, sites>>

Next ==
    \/ HubChanges \/ Discard
    \/ Open \/ (\E S \in SUBSET Repos : Note(S)) \/ ForgetUnheard \/ Settle
    \/ (\E r \in Repos : Withdraw(r)) \/ Stage \/ Publish \/ Close

Spec == Init /\ [][Next]_vars
=============================================================================
