CONSTANTS
    URLs <- MCURLs
    URLHeads <- MCURLHeads
    SeqValues <- MCSeqValues
    TsValues <- MCTsValues
    NumDomain <- MCNumDomain
    RtpTimeBits = 20
    MaxEntries = 2
    ForeignValues <- MCForeignNoURL
SPECIFICATION Spec
INVARIANT
    ForwardNeverPanics
