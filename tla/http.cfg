\* Two plain requests with bodies within and beyond the frame limit, one session.
SPECIFICATION Spec
CONSTANTS
    q1 = q1
    q2 = q2
    Request = {q1, q2}
    Upgrade = {}
    Size = {"some", "huge"}
INVARIANTS
    TypeOK
    AnswerIsWhole
    ServiceSeesWholeBody
PROPERTIES
    RequestAnswered
    ClientStreamEnds
CHECK_DEADLOCK FALSE
