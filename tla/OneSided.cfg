SPECIFICATION OSpec
CONSTANTS
    Ops = {a, b}
    Targets = {near, far}
    Near = {near}
    Wins = {w, x}
    NoOp = NoOp
INVARIANTS
    CompletionInv
    FirstWaitPromise
