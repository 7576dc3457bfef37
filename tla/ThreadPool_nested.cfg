CONSTANTS
    Client = {"c1", "c2"}
    Worker = {"w1"}
    Job <- NestedJob
    Work <- NestedWork
    Leaf = {"l1", "l2", "l3", "l4"}
    Throws = {"l2", "j4"}
SPECIFICATION FairSpec
INVARIANTS WaitMeansDone LeafKnown NoLostWakeup
PROPERTIES Returns
CHECK_DEADLOCK FALSE
