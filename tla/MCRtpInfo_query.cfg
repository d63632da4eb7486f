CONSTANTS
    URLs <- MCURLsQuery
    URLHeads <- MCURLHeads
    SeqValues <- MCSeqValues
    TsValues <- MCTsValues
    NumDomain <- MCNumDomain
    RtpTimeBits = 20
    MaxEntries = 2
    ForeignValues <- MCForeignBad
SPECIFICATION Spec
INVARIANT
    RoundTrip
