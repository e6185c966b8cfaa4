\* a node that only the changes file names
SPECIFICATION Spec
CONSTANTS
    Routers <- MCRouters
    NewRouters = {4}
    Costs <- MCCosts
    Messages <- MCMessages
    Infinity = 99
INVARIANT TablesFollowTopology
