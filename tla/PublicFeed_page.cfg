SPECIFICATION Spec
CONSTANTS
    Special <- MCSpecial
    Malformed <- MCMalformed
    Padded = {"pad"}
    Slashed = {"slash"}
    Ending <- MCEnding
    Parted <- MCParted
    Escaped <- MCEscaped
    Hostless <- MCHostless
    Names <- MCNames
    Key <- MCKey
    Conns = {1, 2, 3}
    Rank <- MCRank
    Sources <- MCSources
    Memberships <- MCMemberships
    Slots <- MCSlots
    Scenarios <- MCScenarios
INVARIANTS
    TypeOK
    SteadyFeedExact
    RestingPageTrue
    JsonLeadsWhereUriDoes
    UriLeadsWhereJsonDoes
PROPERTIES
    RefusedOnlyIfStale
CHECK_DEADLOCK FALSE
