SPECIFICATION LiveSpec
CONSTANTS
    c1 = c1
    c2 = c2
    Clients = {c1, c2}
    Presets = {1, 2}
    RequestsOf <- LoaderAndSwitcher
    MinGain <- ShortRange
    Keep = Keep
    MaxTaps = 3
    CHUNK = 2
    RemoteChanges = {"volume", "mute"}
    MaxRequests = 3
    MaxFailures = 1
    MaxRemote = 1
INVARIANTS TypeOK AudioRestored SettingsInTheirPreset
PROPERTIES RequestsEnd
CHECK_DEADLOCK FALSE
