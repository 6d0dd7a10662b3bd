CONSTANTS
    id1 = id1
    id2 = id2
    host1 = host1
    host2 = host2
    ip1 = ip1
    odd = odd
    NoText = NoText
    Malformed = Malformed
    Ssl = ssl
    DefaultPort = 8883
    Texts <- MCTexts
    Ports <- MCPorts
    Addresses <- MCAddresses
    BrokerLists <- MCBrokerLists
    Sections <- MCSections
    Retries <- MCRetries
    MaxTime = 2
    Delay = 1
    DelayMax = 2
    Multiplier = 2
    RandomPercent = 50
    MaxChanges = 2
SPECIFICATION
    FairSpec
INVARIANTS
    FastestChosen
    NoAddressMissed
    ConfigSurvives
    DelayBounded
PROPERTIES
    ConnectEnds
