------------------------------ MODULE MCClient ------------------------------
(* Two users (one may log in after the other in the same page), two        *)
(* settings of the filters, two sites, two refreshes in flight (so that    *)
(* the later one may land first) and one failed request (Client.cfg).      *)
EXTENDS Client
=============================================================================
