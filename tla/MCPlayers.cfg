\* Clients join, repeat their requests, leave, come back and are kicked off.
SPECIFICATION FairSpec
CONSTANTS
    Address = {a1, a2}
    Unique <- Identities
    UniqueToTry = 2
    MaxJoin = 3
    MaxChannel = 3
    MaxKick = 1
INVARIANTS TypeOK TablesAgree GameInStep PlayersStay
PROPERTIES KickEnds
\* All work may be done, and threads may cross.
CHECK_DEADLOCK FALSE
