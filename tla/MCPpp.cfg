SPECIFICATION MCSpec
CONSTANTS
    IdMod = 3
    MaxConfreqs = 2
    MaxTermreqs = 2
    MaxNakloops = 2
INVARIANTS PppTypeOK   OpenAgreed 
PROPERTIES TerminationEnds 
