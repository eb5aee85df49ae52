SPECIFICATION Spec
CONSTANTS
    q1 = q1
    q2 = q2
    Requests = {q1, q2}
    MaxChanges = 1
    MaxFaults = 1
CHECK_DEADLOCK FALSE
INVARIANTS TypeOK HintExplains OnceFoundAlwaysFound NotFoundWasMissing AnswersFromSecret
