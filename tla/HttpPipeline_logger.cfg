SPECIFICATION Spec
CONSTANT Request = {r1, r2}
CHECK_DEADLOCK FALSE
INVARIANTS
    LogsCarryUser
