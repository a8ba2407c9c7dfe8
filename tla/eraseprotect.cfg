\* Three resets that nobody asked for: one to stop the first write, one to stop
\* the second, and one more.
CONSTANTS
    MaxResets = 3
SPECIFICATION Spec
INVARIANTS
    TypeOK
    NeverBricked
PROPERTIES
    SettlesProtected
    ScriptErases
