SPECIFICATION FairSpec
CONSTANTS
    t1 = t1
    t2 = t2
    t3 = t3
    w1 = w1
    Txs = {t1, t2, t3}
    Writers = {w1}
    MaxHops = 7
INVARIANTS
    ExclusiveUntilBarged
    AllOrNothing
    LostOnlyWithAFailedTx
PROPERTY
    EveryTxEnds
CHECK_DEADLOCK FALSE
