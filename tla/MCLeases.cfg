SPECIFICATION FairSpec
CONSTANTS
    Agents = {a1, a2, a3}
    Supervised = {a1}
    Resources = {r1}
    Threads = {t1, t2}
    NoAgent = NoAgent
INVARIANTS
    TableWellFormed
    NoPhantomRestartHolder
    RestartHeld
PROPERTIES
    AnswersTrue
    FifoHandOver
    RestartRepeatable
