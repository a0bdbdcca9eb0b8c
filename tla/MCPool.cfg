\* Loops, submissions and the shutdown in any order; work runs loops of one index
\* or two.
SPECIFICATION FairSpec
CONSTANTS
    w1 = w1
    w2 = w2
    Main = main
    NoOne = noone
    Workers <- TwoWorkers
    Counts <- Several
    NestedCounts <- OneOrTwo
    MaxTasks = 4
INVARIANTS TypeOK GoneIsDone OwnedOnce
PROPERTIES NothingHangs
\* The pool may be destroyed.
CHECK_DEADLOCK FALSE
