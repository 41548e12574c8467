SPECIFICATION FairHookSpec
CONSTANTS
    Devices = {tracker}
    Silence = 1
    Defaults <- MCDefaults
    Configs <- MCConfigs
    Horizon = 4
PROPERTIES FrozenTrackerClears
