\* One peer that two calls share.
CONSTANTS
    Calls = {t1, t2}
    Peers = {p1}
    Payloads = {e1}
    Selections <- AllSelections
SPECIFICATION Spec
INVARIANT EndorseResponds
