CONSTANTS
    r1 = r1
    r2 = r2
    r3 = r3
    stable = stable
    None = None
    Release = {r1, r2, r3}
    Channel = {stable}
    ChannelOf <- OneChannel
    Legacy = {r1}
    Rollouts = {100}
    MaxSeq = 4
SYMMETRY NewReleases
SPECIFICATION Spec
INVARIANTS TypeOK PublicBytesCleared LiveHasBytes ActivePointerSound
PROPERTIES OffersMoveForward OffSaleOnlyWhenNothingLeft StoreContract
CHECK_DEADLOCK FALSE
