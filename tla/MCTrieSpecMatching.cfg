\* Ordinary paths only; those that are registered are looked up, too.
SPECIFICATION Spec
CONSTANTS
    Registrable <- MCNames
    Queries <- MCQueries
    Servers = {s1, s2}
    NotEnd = NotEnd
INVARIANT FindsLongestMatchingPrefix
