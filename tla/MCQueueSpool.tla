---------------------------- MODULE MCQueueSpool ----------------------------
(* Small instances of QueueSpool for model checking. *)
EXTENDS QueueSpool, TLC

CONSTANTS n1, n2, q1, q2, q3, d1, d2, r1, r2, r3

Plain == [rcpts |-> {r1}, notify |-> {}, release |-> 0, by |-> 0, byReturn |-> FALSE]

\* One recipient.
OneDomainOf == r1 :> d1
PlainEnvelopes == {Plain}
Retry1 == <<1>>
Notify1 == <<9>>

\* Two recipients in one domain and one in another, with their NOTIFY options.
PairDomainOf == r1 :> d1 @@ r2 :> d1
TwoDomainsOf == r1 :> d1 @@ r2 :> d1 @@ r3 :> d2
Mixed == [Plain EXCEPT !.rcpts = {r1, r2, r3}]
MixedEnvelopes == {Mixed}
Pair == [Plain EXCEPT !.rcpts = {r1, r2}]
PairOnly == {Pair}
PairEnvelopes == {Pair, [Pair EXCEPT !.notify = {"success", "failure"}]}
Notify11 == <<1, 1>>

Nodes == Permutations(Node)
=============================================================================
