SPECIFICATION Spec
CONSTANTS
    Devices = {tracker}
    Silence = 1
    Defaults <- MCDefaults
    Configs <- MCConfigs
    Horizon = 4
INVARIANTS TypeOK DropoutIsAnchored OptInReachesSlot
PROPERTIES SilentIsNotOk LadderOnlyClimbs
