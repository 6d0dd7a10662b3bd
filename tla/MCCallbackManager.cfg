\* Two registrars, two callbacks, the topic and its wildcard "/#".
SPECIFICATION Spec
CONSTANTS
    Levels = {"", "a", "#", "a#"}
    HashLevels = {"#", "a#"}
    HashPairs = {"a#"}
    Registrars = {r1, r2}
    NoThread = NoThread
    Callbacks = {k1, k2}
    Topic <- TheTopic
    Channels <- TopicWildcard
SYMMETRY Symmetry
INVARIANTS
    FlagExact
    NoUpdateLost
    SteadyDirectDelivered
    DeliveredOnce
