SPECIFICATION FairSpec
CONSTANTS
    Saves = {1, 2}
    Browsers <- AllBrowsers
    Loader = "global"
    RevokeDelay = 3
    LateBy = 1
    PickUpTime = 1
INVARIANTS TypeOK PickedUpIsLive SentToItsPopup
PROPERTIES BlobIsSaved UrlsAreRevoked
CHECK_DEADLOCK FALSE
