SPECIFICATION OSpec
CONSTANTS
    Ops = {a, b}
    Targets = {near, far}
    Near = {near}
    Wins = {w}
    NoOp = NoOp
INVARIANT WaitallPromise
