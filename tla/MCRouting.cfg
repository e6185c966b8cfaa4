\* every topology of four nodes, every sequence of changes
SPECIFICATION FairSpec
CONSTANTS
    Routers <- MCRouters
    NewRouters = {}
    Costs <- MCCosts
    Messages <- MCMessages
    Infinity = 99
INVARIANTS
    TypeOK
    LinksAgree
    CostsShortest
    SettledIsFinal
    RoundsAddLinks
    WalksAreShortest
    WalksDoNotLoop
PROPERTIES
    IsService
    EveryMessageAnswered
