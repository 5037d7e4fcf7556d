---------------------------- MODULE MCCacheLock ----------------------------
(* Model values for CacheLock: scrapers s1 and s2, request handlers h1, h2. *)
EXTENDS CacheLock

CONSTANTS s1, s2, h1, h2

\* Every handler but the one of /api/locations (of /sync, h1 has the requests with
\* filters and h2 those without), and that one.
MCPrograms ==
  [p \in Procs |-> CASE p \in {s1, s2} -> ScraperPrograms
                     [] p = h1 -> OtherPrograms \ {HandleSyncRequest(<<>>)}
                     [] p = h2 -> OtherPrograms \ {HandleSyncRequest(FindAppsByLabels)}]
MCWithLocations == [p \in Procs |-> IF p \in {s1, s2} THEN ScraperPrograms ELSE LocationsPrograms]
=============================================================================
