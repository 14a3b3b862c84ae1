---------------------------- MODULE MCPhoneSync ----------------------------
(* Instances of PhoneSync for TLC. *)
EXTENDS PhoneSync, TLC

CONSTANTS c1, c2, p1, p2, l1, l2, k1, k2

OneComic == {c1}
TwoComics == {c1, c2}
OnePhone == {p1}
TwoPhones == {p1, p2}
TwoCalls == {k1, k2}

\* Pages are not symmetric, comics and request slots are.
Symmetry == Permutations(TwoCalls) \cup Permutations(TwoComics)

Allow(turn, web, open, reset, fault) ==
    [turn |-> turn, web |-> web, open |-> open, reset |-> reset, fault |-> fault]

\* One of everything: a page turn, another device, an opening, a reset, a fault.
Careful == Allow(1, 1, 1, 1, 1)
\* Two page turns, each on any phone, and nothing else.
Hurried == Allow(2, 0, 0, 0, 0)
=============================================================================
