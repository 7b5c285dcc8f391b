SPECIFICATION Spec
CONSTANTS
    W = 3
    Lines <- MCLines
INVARIANT TypeOK CountsAssertsHold
PROPERTY RaisedLinesDelivered WaitForThreadReturns
CHECK_DEADLOCK FALSE
