----------------------------- MODULE ProofRunMC -----------------------------
(***************************************************************************)
(* An instance of ProofRun for TLC.  Digests have three binary digits.     *)
(* Repository 1 is listed with two different numbers of downloads, one row *)
(* is private and one has no candidate file; the orders of the sources     *)
(* disagree; 4 and 5 are reached as extra repositories only.  Occurrences  *)
(* 3 and 4 have the same digest, the bytes of 6 are not those reported,    *)
(* and 8 is too large to be verified.                                      *)
(***************************************************************************)
EXTENDS ProofRun, TLC

Binary == 0..7
HalvesAndQuarters == 1 :> 4 @@ 2 :> 2

Row(repo, downloads, score, private) ==
    [repo |-> repo, downloads |-> downloads, score |-> score, private |-> private]

MCRows == {Row(1, 2, 1, FALSE), Row(1, 0, 1, FALSE), Row(2, 1, 3, FALSE),
           Row(3, 0, 2, FALSE), Row(3, 9, 2, TRUE), Row(4, 9, 0, FALSE)}
MCRank == <<3, 2, 1, 4, 5>>
MCLimits == [s \in Sources |-> IF s = "popular" THEN 2 ELSE 1]
MCExtra == <<4, 3, 4, 5, 1>>

MCRepoOf == <<1, 1, 1, 2, 2, 3, 3, 4>>
MCSnapshots == <<{{1, 2}, {2, 3}}, {{}, {4, 5}}, {{6, 7}}, {{8}, {}}, {{}}>>
MCReported == <<0, 1, 3, 3, 4, 6, 7, 2>>
MCCalculated == <<0, 1, 3, 3, 4, 5, 7, 2>>
MCSize == <<1, 2, 1, 2, 1, 1, 2, 3>>
=============================================================================
