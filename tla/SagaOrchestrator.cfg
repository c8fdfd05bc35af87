SPECIFICATION Spec
CONSTANTS
    Sagas = {s1, s2}
    N = 5
    Handled = {1, 2, 3, 5}
    Compensable = {2, 3, 4}
    MaxCompleted = 1
INVARIANTS
    UndoneInReverse
    AllOrAccountedFor
    StatsAddUp
PROPERTY StepsEnd
CHECK_DEADLOCK FALSE
