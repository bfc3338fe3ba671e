SPECIFICATION Spec
CONSTANTS
    Entries <- MCEntries
    Key <- MCKey
    NoEntry = NoEntry
    Initial = 6
    EntrySize = 8
INVARIANTS
    HeapOrdered
    FitsUntilGrowth
PROPERTIES
    ImplementsPriorityQueue
CHECK_DEADLOCK FALSE
