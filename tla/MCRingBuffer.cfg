\* Every content of a buffer of four slots, at every position of the head,
\* with items in any order of their timestamps.
SPECIFICATION Spec
CONSTANTS
    Times = {1, 2, 3}
    Capacity = 4
    Zero = Zero
INVARIANTS ReadersAgree QueryMissesNothing NearestIsNearest
PROPERTIES ImplementsBoundedLog
