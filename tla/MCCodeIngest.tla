---------------------------- MODULE MCCodeIngest ----------------------------
(***************************************************************************)
(* Instances of CodeIngest for TLC: one file that is edited from one Go    *)
(* version to another, to one that does not parse, and back.               *)
(***************************************************************************)
EXTENDS CodeIngest, TLC

CONSTANTS
    v1,      \* f, which calls g, and g
    v2,      \* as v1, but g calls f as well
    twice,   \* as v2, with g defined before f and once more after it
    broken,  \* a syntax error
    f, g

MCConcurrentVersions == {v1, twice, broken}
MCReingestVersions == {v1, v2}

\* Go rejects broken; the line scanners of the other languages reject nothing.
MCValid == [v \in Versions |-> [l \in Languages |-> v # broken \/ l # "go"]]

\* What the Ruby scanner finds in a Go file need not be nothing.
MCDefs == [v \in Versions |-> [l \in Languages |->
              CASE l = "go" /\ v \in {v1, v2} -> <<f, g>>
                [] l = "go" /\ v = twice -> <<g, f, g>>
                [] l = "ruby" /\ v = v1 -> <<f>>
                [] OTHER -> <<>>]]

\* Only the Go parser finds calls.
MCRefs == [v \in Versions |-> [l \in Languages |->
              CASE l = "go" /\ v = v1 -> {<<f, g>>}
                [] l = "go" /\ v \in {v2, twice} -> {<<f, g>>, <<g, f>>}
                [] OTHER -> {}]]

\* The two goroutines are alike.
CallsAlike == Permutations(Calls)
=============================================================================
