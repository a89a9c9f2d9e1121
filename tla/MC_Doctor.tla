------------------------------ MODULE MC_Doctor ------------------------------
\* Two transmitters in a session, a third that is only heard, and a station.
EXTENDS Doctor, TLC
CONSTANTS a, b, c, rx
PairRelations == {[by |-> a, of |-> b], [by |-> b, of |-> a],
                  [by |-> rx, of |-> a], [by |-> rx, of |-> b]}
MCRelations == PairRelations \cup {[by |-> b, of |-> c], [by |-> c, of |-> a]}
ThreeOfPair == SeqOf(PairRelations, 3)
BothWays == {<<[by |-> a, of |-> b], [by |-> b, of |-> a]>>}
TripleRelations == {[by |-> a, of |-> b], [by |-> b, of |-> a],
                    [by |-> a, of |-> c], [by |-> c, of |-> a]}
AllOfTriple == {SetToSeq(TripleRelations)}
SingleOrPair == {<<a>>, <<a, b>>}
JustPair == {<<a, b>>}
Triple == {<<a, b, c>>}
===============================================================================
