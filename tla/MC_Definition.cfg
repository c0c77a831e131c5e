\* Every response of the enumerated shapes and every sampled ID: the data
\* acvp_req_strip_version returns with 0, the accessors and the ID codec
\* against references, and the version round trip.
CONSTANTS
    None = None
    Unparsable = Unparsable
    CNull = CNull
    JNull = JNull
SPECIFICATION Spec
INVARIANT StripVersionSound
INVARIANT AccessorsAgree
INVARIANT AccessorsTyped
INVARIANT VersionRoundTrip
INVARIANT CodecMatchesReference
