CONSTANTS
    Key <- MCLongKey
    NameLen <- MCNameLen
    Min <- MCMin
    Max <- MCMax
    Size <- MCSize
    Default <- MCDefault
    Try <- MCTry
    RadioKey = {}
SPECIFICATION Spec
INVARIANT NextBootKeepsPromise
