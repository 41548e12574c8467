SPECIFICATION Spec
CONSTANTS
    Devices = {d1}
    Systems = {lighthouse, quest}
    Transforms = {id, x}
    Identity = id
    Mid = mid
    None = None
    Off = Off
    MaxFallbackSlots = 1
INVARIANTS TypeOK NoOrphanFollower EnabledFollowsOverlay
PROPERTIES OverlayNameWins
