--------------------------- MODULE StaticClientMC ---------------------------
(***************************************************************************)
(* Instances of StaticClient for TLC.  Digests have two binary digits; the *)
(* three publications need prefixes of different lengths, and differ in    *)
(* every digest they have.                                                 *)
(***************************************************************************)
EXTENDS StaticClient, TLC

Binary == 0..3
HalvesAndSingles == 1 :> 2 @@ 2 :> 1

OneThenTwoThenOne ==
    LET First  == <<{}, {1}, {}, {}>>
        Second == <<{1, 2}, {2}, {}, {1}>>
        Third  == <<{2}, {}, {1}, {2}>>
    IN [v \in 1..3 |-> [d \in Digests |-> <<First, Second, Third>>[v][d + 1]]]

FirstThree == 1..3

Identical == Permutations(Clients)
=============================================================================
