---------------------------- MODULE MCAgreement ----------------------------
(***************************************************************************)
(* Agreement for TLC: four members, of whom three make a quorum; the block *)
(* b2 is nearer to the CRS than b1.                                        *)
(***************************************************************************)
EXTENDS Agreement, TLC

CONSTANTS b1, b2

MCDistance == (b1 :> 2) @@ (b2 :> 1)

Setting(late, leaderBlock, maxPeriod, maxCrashes) ==
    [late |-> late, leaderBlock |-> leaderBlock, maxPeriod |-> maxPeriod,
     maxCrashes |-> maxCrashes]

(* All votes in time: two periods; a crash; the leader's block.  The votes *)
(* that decide late: the leader's block.  PreCom votes late: no such block.*)
MCSettings ==
    {Setting({}, None, 3, 0), Setting({}, None, 2, 1), Setting({}, b1, 2, 0),
     Setting({"FastCom", "Com"}, b1, 2, 0), Setting({"PreCom"}, None, 2, 0)}

MCSymmetry == Permutations(Members)
=============================================================================
