----------------------------- MODULE Quadratic ------------------------------
(***************************************************************************)
(* solve_quadratic of the VIL programs: the quantity Q that solves         *)
(* S*Q^2 + P*Q = C, with the rounding of Amount.                           *)
(***************************************************************************)
EXTENDS Amount

\* Seeded fault: the factor 4 is missing.
RadicalUnscaled(s, p, c) == Plus(Times(p, p), Times(c, s))

Radical(s, p, c)       == Plus(Times(p, p), Times(FOUR, Times(c, s)))
Root(s, p, c)          == Sqrt(Radical(s, p, c))

\* Seeded fault: the solution is divided by S, not by 2*S.
IndexQuantityUnhalved(s, p, c) == Over(Ssb(Root(s, p, c), p), s)

IndexQuantity(s, p, c) == Over(Ssb(Root(s, p, c), p), Times(s, TWO))

\* Every value the subroutine computes on the way fits an Amount.
Solvable(s, p, c) ==
    /\ Representable(Times(p, p))
    /\ Representable(Times(c, s))
    /\ Representable(Times(FOUR, Times(c, s)))
    /\ Representable(Radical(s, p, c))
    /\ Representable(Root(s, p, c))
    /\ Representable(Times(s, TWO))
    /\ Representable(IndexQuantity(s, p, c))

=============================================================================
