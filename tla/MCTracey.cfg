SPECIFICATION FairSpec
CONSTANTS
    Agents = {a1, a2}
    Announcing = {a1}
    Beating = {a2}
    Mistaken = {a1}
    Addresses = {x, y}
    Nowhere = Nowhere
    Statuses = {"healthy", "offline"}
    StaleAfter = 1
    Start <- MCStart
    a1 = a1
    a2 = a2
    x = x
    y = y
    OfflineAfter = 1
    MaxMessages = 1
    MaxMoves = 1
    MaxOutdated = 1
INVARIANTS
    SnapshotIsOwn
PROPERTIES
    AddressSettles
    ReturnsToService
    DeadIsDisclosed
