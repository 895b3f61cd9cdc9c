-------------------------- MODULE MCRefCountBits --------------------------
(* RefCountBits at small widths.                                          *)
EXTENDS RefCountBits

Layout(unowned, strong) == [unowned |-> unowned, strong |-> strong]

\* As on 32-bit targets, side table words have wider fields.
NarrowLayout == Layout(3, 3)
WideLayout == Layout(4, 4)

\* The stored pointer has seven bits, of which the upper two are where the
\* strong count was.
SmallAddresses == {8, 176, 248}
============================================================================
