\* Three workers, as in main.cpp, and enough tasks that all of them are busy
\* while the queue still holds some.
CONSTANTS
    Workers = {w1, w2, w3}
    NumTasks = 5
    MaxSpurious = 2
    Main = Main
    NoOne = NoOne
SPECIFICATION FairSpec
INVARIANTS
    TypeOK
    ExactlyOnce
    WorkConserving
    NobodySleepsThroughStop
    DestructorDrains
PROPERTY
    ImplementsTaskPool
