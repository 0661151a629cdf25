\* Every order of registering nested, diverging and root paths by two servers;
\* every path of up to four characters is looked up in every state.
SPECIFICATION Spec
CONSTANTS
    Registrable <- MCRegistrable
    Queries <- MCQueries
    Servers = {s1, s2}
    NotEnd = NotEnd
INVARIANTS
    FindsLongestUnlessRegistered
PROPERTY RegistrationsAreSteadfast
