\* Two properties that comments of p2p/session.rs state and the code does not have, one
\* at a time: move the comment sign to see the other counterexample.
SPECIFICATION FairSpec
CONSTANTS
    MaxPaths = 1
    EventCap = 2
CHECK_DEADLOCK FALSE
PROPERTY LossFallsBack
\* PROPERTY ValidatedIsPromoted
