SPECIFICATION Spec
CONSTANT Plans <- PlansValue
INVARIANT SentIsWhole
INVARIANT QuarantineReachesFold
INVARIANT HashIsExact
INVARIANT BackOffIsKept
CHECK_DEADLOCK FALSE
