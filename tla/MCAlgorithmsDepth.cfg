SPECIFICATION MCSpec
CONSTANTS
    p1 = p1
    p2 = p2
    p3 = p3
    Global = Global
    Kind = {"auth", "request"}
    Peer = {p1, p2, p3}
    Minute = 2
    PeerLimit <- MCPeerLimit
    GlobalLimit <- MCGlobalLimit
    MaxWindows = 2
    Root <- MCRoot
    None <- MCNone
    MaxScopeDepth = 3
    Paths <- MCPaths
    PathPrefixes <- MCPathPrefixes
    Ipv4 <- MCIpv4
    Ipv6 <- MCIpv6
    Bodies <- MCBodies
    Sizes <- MCSizes
    Limit = 3
    Entries <- MCEntries
    MaxEnvName = 2
    MaxEnvLine = 10
    MaxEnvValue = 3
    MaxEnvEntries = 2
    MaxEnvFile = 17
    ScopeTables <- MCScopeTables
    ProfileTables <- MCProfileTables
    SecretTables <- MCSecretTables
    Destination <- MCDestination
    NewScope <- MCNewScope
    Labels <- MCLabels
SYMMETRY Symmetry
INVARIANTS
    ImportedVaultOpens
CHECK_DEADLOCK FALSE
