\* A desk that can send one top-up.
CONSTANT MaxSends = 1
SPECIFICATION TopUpSpec
CHECK_DEADLOCK FALSE
PROPERTY TapIsSent
