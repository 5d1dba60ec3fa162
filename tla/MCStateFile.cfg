SPECIFICATION Spec
CONSTANTS
    Docs <- MCDocs
    serialize <- serialize_state
    deserialize <- deserialize_state
    Loadable <- MCLoadable
    Threads = {t1, t2}
    Setups <- MCSetups
    Noise <- MCNoise
    NoDoc = NoDoc
    Spoilt = Spoilt
    NoSum = NoSum
    MaxCollectionItems = 3
    MaxString = 4
    PersistenceMagic = 77
    PersistenceVersion = 2
INVARIANTS TypeOK LoadsBackExactly DecodersStrict
PROPERTIES ImplementsRegister
