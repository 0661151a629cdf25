------------------------------- MODULE TrieSpec -------------------------------
(***************************************************************************)
(* Sequences of addPathToTrie calls, and what findInTrie answers after     *)
(* them, against a reference definition that knows no trie.                *)
(***************************************************************************)
EXTENDS Trie, FiniteSets

CONSTANTS
    Registrable,    \* the paths that servers register
    Queries,        \* the paths that are looked up
    Servers

ASSUME NotEndAssumption == NotEnd \notin Servers
\* Paths are sequences of character codes.
ASSUME PathsAssumption == Registrable \subseteq Seq(Nat) /\ Queries \subseteq Seq(Nat)

VARIABLES
    trie,           \* root
    registered      \* history: the server that registered a path last

vars == <<trie, registered>>

Init ==
    /\ trie = EmptyTrie
    /\ registered = [p \in Registrable |-> NotEnd]

Add(p, s) ==
    /\ trie' = AddPathToTrie(trie, p, s)
    /\ registered' = [registered EXCEPT ![p] = s]

Next == \E p \in Registrable, s \in Servers : Add(p, s)

Spec == Init /\ [][Next]_vars

-----------------------------------------------------------------------------

\* The server that registered the longest prefix of p last, if any.
MatchingPrefixes(p) == {q \in Registrable : registered[q] # NotEnd /\ IsPrefix(q, p)}
LongestMatchingPrefix(p) ==
    IF MatchingPrefixes(p) = {} THEN NotEnd
    ELSE registered[CHOOSE q \in MatchingPrefixes(p) :
                        \A r \in MatchingPrefixes(p) : Len(r) <= Len(q)]

\* "Function to find longest matching prefix in Trie" (line 178): for every path,
\* which if it is registered is its own longest prefix.  The code does not do it:
\* the last node is reached but never looked at (the test of line 185 comes before
\* the descent of line 188), and a registered path is answered by the longest
\* registered path above it, or by none.
FindsLongestMatchingPrefix ==
    \A p \in Queries : FindInTrie(trie, p) = LongestMatchingPrefix(p)

\* It does it for every path that is not registered itself, after any sequence of
\* registrations (lines 162-193).
FindsLongestUnlessRegistered ==
    \A p \in Queries :
        p \notin MatchingPrefixes(p) => FindInTrie(trie, p) = LongestMatchingPrefix(p)

\* A registration never takes an answer away, and it changes the answer for a
\* path only to the server that has just registered.
Steadfast ==
    \A p \in Queries :
        LET before == FindInTrie(trie, p)
            after == FindInTrie(trie', p)
        IN  before # after =>
                \E q \in Registrable : IsStrictPrefix(q, p) /\ registered'[q] = after
                                       /\ registered[q] # after
RegistrationsAreSteadfast == [][Steadfast]_vars
=============================================================================
