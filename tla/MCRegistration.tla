----------------------------- MODULE MCRegistration -----------------------------
EXTENDS Registration, TLC

CONSTANTS c1, w1, c2, d1, x1, l1, l2, l3, l4, l5, u, v

\* c1 with its linked worktree w1, a fork c2 that has the remote of c1 and one of its own.
MCMainOf == (c1 :> c1) @@ (w1 :> c1) @@ (c2 :> c2)
MCRemotesOf == (c1 :> {u}) @@ (w1 :> {u}) @@ (c2 :> {u, v})
MCHome == (c1 :> l1) @@ (w1 :> l2) @@ (c2 :> l3) @@ (d1 :> l4)

\* Two checkouts for the runs that aim at a short counterexample.
SmallMainOf == (c1 :> c1) @@ (w1 :> c1)
SmallRemotesOf == (c1 :> {u}) @@ (w1 :> {u})
SmallHome == (c1 :> l1) @@ (w1 :> l2)
=============================================================================
