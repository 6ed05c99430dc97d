SPECIFICATION Spec
INVARIANTS TypeOK StateAgrees AnswersMatch NothingLost NoneStalled
PROPERTY ReadersUndisturbed
CHECK_DEADLOCK FALSE
