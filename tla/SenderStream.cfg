SPECIFICATION FairSpec
CONSTANTS
    Formats = {avc720, avc1080, hevc1080}
    Tall = {avc1080, hevc1080}
    Offers = {{avc720, avc1080}, {avc720, avc1080, hevc1080}}
    None = None
    MaxEpoch = 3
    MaxId = 3
    MaxGen = 2
INVARIANTS CommittedFactsAgree EpochBindsFormat ConfigBeforeItsMedia
PROPERTIES TransactionEnds
CHECK_DEADLOCK FALSE
