SPECIFICATION FairSpec
CONSTANTS
    MaxConns = 2
    MaxMsgs = 2
 
PROPERTIES ClientServes
CHECK_DEADLOCK FALSE
