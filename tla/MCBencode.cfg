SPECIFICATION Spec
CONSTANTS
    MaxUsize = 100
    MaxI64 = 110
    Text <- MCText
    Tokens <- MCTokens
    Encoding <- MCEncoding
    NoneEmpty <- MCNoneEmpty
    MaxTokens = 6
    MaxTyped = 2
INVARIANTS DecodersAgree ValuesDecoded
PROPERTY RestIgnored
CHECK_DEADLOCK FALSE
