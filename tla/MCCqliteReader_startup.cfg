SPECIFICATION FairSpec
CONSTANTS
    Threads = {t1, t2}
    Main = main
    NoThread = NoThread
    t1 = t1
    t2 = t2
    CqliteTables <- MCTables
    Work <- MCWork
    ReconnectInterval = 1
    RetryAfter = 1
    MaxOutages = 1
    MaxForced = 1
INVARIANTS
    ClientsSound
    ReaderCancelsMetAnAbort
PROPERTIES
    
    EverythingIsRegistered
