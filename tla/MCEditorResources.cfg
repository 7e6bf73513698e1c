SPECIFICATION Spec
CONSTANTS
    strings = strings
    teamColor = teamColor
    abilities = abilities
    buffs = buffs
    abilityData = abilityData
    abilityFunc = abilityFunc
    buffFunc = buffFunc
    picture = picture
    map = map
    Refreshed = {strings}
    Textures = {teamColor}
    Clients = {picture}
    Maps = {map}
    Objects = {abilities, buffs}
    Files <- MCFiles
    UrlOf <- MCUrlOf
    Urls <- MCUrls
INVARIANTS
    TypeOK
    RegistryNeverDangles
    SoleOwnersAreListed
    SharedDataIsLoaded
PROPERTIES
    RequestLoads
CHECK_DEADLOCK FALSE
