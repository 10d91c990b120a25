\* A WebSocket request.
SPECIFICATION Spec
CONSTANTS
    q1 = q1
    q2 = q2
    Request = {q1}
    Upgrade = {q1}
    Size = {"empty"}
PROPERTY
    RequestAnswered
CHECK_DEADLOCK FALSE
