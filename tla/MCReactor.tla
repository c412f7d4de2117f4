----------------------------- MODULE MCReactor -----------------------------
(* Small instances of Reactor.                                             *)
EXTENDS Reactor, TLC

CONSTANTS s1, s2

W(src, force, kind, lane) == [src |-> src, force |-> force, kind |-> kind, lane |-> lane]

MCUnfinished == W(NoSource, FALSE, "other", "village")

\* One actor's piles: the same utterance heard plainly and by force, a player's
\* word, the same event as a low-information one.
PileWarrants ==
    {MCUnfinished, W(s1, FALSE, "speech", "village"), W(s1, TRUE, "speech", "village"),
     W(s2, FALSE, "wake", "player"), W(s2, FALSE, "ambient", "village")}
PileHolds == {{}, {"labor"}, {"break"}, {"asleep"}, {"bake"}}

\* The pool's traffic: what makes a job, and its lane.
PoolWarrants ==
    {MCUnfinished, W(NoSource, FALSE, "ambient", "player")}
PoolHolds == {{}}
PoolSymmetry == Permutations(Actors) \cup Permutations(Workers) \cup Permutations(Attempts)
=============================================================================
