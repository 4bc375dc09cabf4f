CONSTANTS
    Pages = {p1}
    Inputs = {ad}
    Outputs = {ka}
    PoolSize = 15
    MaxRequests = 2
    MaxReplies = 2
SPECIFICATION FairSpec
INVARIANTS
    TypeOK
    PageAccounts
    
PROPERTIES
    PagesSettle
    PulsesEnd
    GatewayReconnects
