------------------------------ MODULE MCStartup -------------------------------
(* Instances of Startup for TLC: floats of 10 bits, of which 30 are in     *)
(* front of the point, difficulties up to 7 and amounts of 11 bits, so     *)
(* that amounts beyond 1024 are rounded.                                   *)
EXTENDS Startup, TLC

CONSTANT None

Coeff(n, e) == [sig |-> n, exp |-> e]

Layer(max, min, b, q, l) ==
  [max_difficulty |-> max, min_difficulty |-> min, min_balance |-> b,
   amount_per_claim |-> q, difficulty_increase_coeff |-> l]

Default == Layer(6, 1, 0, 0, Coeff(5, 2))

Settings(l1, l2, net, url) ==
  [l1 |-> l1, l2 |-> l2, network |-> net, l2_http_endpoint |-> url]

Ordinary == Layer(None, None, None, 3, None)

\* Lines near to their origin and far from it, flat and steep, coefficients of one
\* half to 25, and balances of more bits than a float has.
Served ==
  {Settings(Ordinary, Layer(7, 2, 40, 8, Coeff(5, 1)), "signet", "url"),
   Settings(Layer(7, 2, 900, 8, Coeff(25, 0)), Layer(4, 4, 3, 1, None), "regtest", "url"),
   Settings(Layer(7, 0, 700, 17, Coeff(25, 0)), Layer(7, 0, 7, 8, Coeff(1, -1)), "signet", "url"),
   Settings(Layer(7, 3, 1031, 8, Coeff(23, 0)), Layer(7, 2, 230, 3, Coeff(5, -1)), "signet", "url"),
   Settings(Layer(7, 2, 1000, 20, Coeff(1, 2)), Layer(7, 0, 100, 15, Coeff(1, 0)), "signet", "url")}

\* Every error of DifficultyConfig::new, and amounts beyond the limit.
Refused ==
  {Settings(Ordinary, Layer(7, None, 60, 7, Coeff(3, 0)), "signet", "not a url"),
   Settings(Ordinary, Layer(2, 3, 0, 1, None), "signet", "url"),
   Settings(Layer(6, 1, 0, 0, None), Ordinary, "signet", "url"),
   Settings(Ordinary, Layer(6, 1, 0, 1, Coeff(-1, 0)), "signet", "url"),
   Settings(Ordinary, Layer(6, 1, 0, 1, NotFinite), "signet", "url"),
   Settings(Layer(6, 1, 0, 3, Coeff(1, 29)), Ordinary, "regtest", "url"),
   Settings(Layer(6, 1, 0, 1, Coeff(1, -10)), Ordinary, "signet", "url"),
   Settings(Ordinary, Layer(None, None, None, 21, None), "signet", "url"),
   Settings(Layer(None, None, None, 21, None), Ordinary, "signet", "url")}

Readable == Served \cup Refused

\* For what depends on the seed alone.
OneSetting == {Settings(Ordinary, Ordinary, "signet", "url")}
=============================================================================
