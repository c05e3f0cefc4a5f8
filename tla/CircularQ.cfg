SPECIFICATION Spec
CONSTANTS
    Queues = {a, b}
    Items = {x, y}
    NoItem = NoItem
    Capacities <- MCCapacities
    MaxLost = 1
INVARIANTS TypeOK SizesAgree
PROPERTY KeepsNewest
