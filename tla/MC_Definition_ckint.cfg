\* The same responses as the value a CKINT caller accepts.
CONSTANTS
    None = None
    Unparsable = Unparsable
    CNull = CNull
    JNull = JNull
SPECIFICATION Spec
INVARIANT StripVersionPassesCKINT
