SPECIFICATION ESpec
CONSTANTS
    Fns = {f, g}
    MaxEntries = 3
    MaxEmits = 3
    MaxDepth = 3
PROPERTIES
    DispatchesSnapshot
    OnceUnsubscribed
\* The bounds on subscriptions and emissions are reached.
CHECK_DEADLOCK FALSE
