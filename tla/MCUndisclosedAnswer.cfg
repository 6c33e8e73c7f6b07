SPECIFICATION RoutingSpec
CHECK_DEADLOCK FALSE
INVARIANT ModelAnswersAreDisclosed
