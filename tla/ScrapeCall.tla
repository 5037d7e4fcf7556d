----------------------------- MODULE ScrapeCall -----------------------------
(***************************************************************************)
(* What a scraper's Scrape promises its goroutine: it returns, once, with  *)
(* a status for every app of the source.                                   *)
(***************************************************************************)
CONSTANTS Apps, Statuses, NoResult

VARIABLE out   \* NoResult until Scrape has returned

CallInit == out = NoResult

Return == out = NoResult /\ out' \in [Apps -> Statuses]

CallSpec == CallInit /\ [][Return]_out /\ WF_out(Return)
=============================================================================
