SPECIFICATION Spec
CONSTANTS
    W = 3
    Lines <- MCLines
PROPERTY TeardownJoins
CHECK_DEADLOCK FALSE
