SPECIFICATION Spec
CONSTANTS
    W = 3
    Lines <- MCLines
PROPERTY ScenariosComplete
CHECK_DEADLOCK FALSE
