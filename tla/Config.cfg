CONSTANTS
    Key <- MCKey
    NameLen <- MCNameLen
    Min <- MCMin
    Max <- MCMax
    Size <- MCSize
    Default <- MCDefault
    Try <- MCTry
    RadioKey <- MCRadioKey
SPECIFICATION Spec
INVARIANTS
    TypeOK
    NextBootKeepsPromise
    LiveMatchesFlash
