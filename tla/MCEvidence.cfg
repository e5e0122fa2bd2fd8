\* Kills, rot of the archive and rewritten artifacts in any order.
CONSTANTS
    good = good
    other = other
    Contents <- TwoContents
    Digest = good
    MaxKills = 2
    MaxRot = 2
    MaxRewrites = 1
SPECIFICATION FairSpec
INVARIANTS
    TypeOK
    CorruptionIsRecorded
    OnlyRewritesStopARepair
PROPERTY
    RepairConverges
