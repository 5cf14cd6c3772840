SPECIFICATION FairSpec
CONSTANTS
    Assets = {a1, a2}
    Workers = {w1, w2}
    Mixes <- Mixture
    Nothing = Nothing
INVARIANTS DetachedExpires AttachedToStored AttachedHasBlob
PROPERTIES SweepSparesNamed 
CHECK_DEADLOCK FALSE
