SPECIFICATION Spec
CONSTANTS
    None = None
    m1 = m1
    m2 = m2
    m3 = m3
    Requests = {r1, r2}
    Models = {m1, m2, m3}
    Chain <- MCChain
    Capped = {m1}
    Incompatible = {m3}
    Tools = {t1}
INVARIANTS TypeOK ServedIsRecorded NoFailedModelAgain AnsweredAtEnd
PROPERTIES AnswerIsFinal StreamKeepsModel
CHECK_DEADLOCK FALSE
