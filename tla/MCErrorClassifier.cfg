\* Every three-digit status code a response can carry.
INIT Init
NEXT Next

INVARIANT CategoryMatchesSpec
