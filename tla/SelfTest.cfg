SPECIFICATION TestSpec
INVARIANTS
    PassIsEarned
    TestCleansUp
CHECK_DEADLOCK FALSE
