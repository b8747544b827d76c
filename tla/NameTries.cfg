SPECIFICATION Spec
CONSTANTS
    Names <- SomeNames
    Root <- NoComponents
    Prefixes <- PrefixesOf
    Payloads <- TwoPayloads
    Undefined = Undefined
INVARIANTS
    TypeOK
    TreeOfEntries
    LookupsAgree
PROPERTIES
    ImplementsNameMap
CHECK_DEADLOCK FALSE
