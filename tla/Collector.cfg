SPECIFICATION Spec
CONSTANTS
    Clients = {c1, c2, c3}
    MaxRepeats = 2
SYMMETRY Alike
INVARIANTS
    TypeOK
    AppendedOnce
    ReadsWhatWasTold
    
