---------------------------- MODULE MCHTTPScrape ----------------------------
(* Four apps for HTTPScrape, checked two at a time: one with defaults, one   *)
(* that allows a redirect and does not verify, one with conditions and no    *)
(* time limit, one that allows nothing.                                      *)
EXTENDS HTTPScrape

FourApps == 4

App(n, al, bl, follow, max, ssl, tm, ok, ko) ==
  [name |-> n, allowed |-> al, blocked |-> bl, followRedirects |-> follow, maxRedirects |-> max,
   sslVerify |-> ssl, timeout |-> tm, success |-> ok, failure |-> ko]
Text(w, sp) == [word |-> w, spelling |-> sp]
Body(ty, t, cs) == [type |-> ty, text |-> t, caseSensitive |-> cs]
Within(max) == [type |-> "response_time", maxMS |-> max]
Path(value) == [type |-> "json_path", path |-> "$.status", expected |-> value]

MCapps ==
  << App("default", NotSet, NotSet, TRUE, 0, TRUE, NotSet, {}, {}),
     App("moved", {Class(3), Exactly(200)}, {}, FALSE, 0, FALSE, 50, {},
         {Body("body_contains", NoText, TRUE), Path(NotSet)}),
     App("content", NotSet, {Exactly(204)}, TRUE, 3, TRUE, 0,
         {Body("body_contains", Text("ok", "given"), FALSE), Within(10), Path("fine")},
         {Body("body_contains", Text("err", "given"), TRUE), [type |-> "status_code", code |-> 203]}),
     App("closed", {}, {}, TRUE, 0, TRUE, NotSet, {}, {}) >>

Ans(rd, cd, hd, tt, tx, js, tr) ==
  [redirects |-> rd, moved |-> 301, code |-> cd, ms |-> hd, total |-> tt, texts |-> tx,
   json |-> js, trusted |-> tr]
Good(tx, js) == Ans(0, 200, 10, 200, tx, js, TRUE)
OK == Text("ok", "given")

\* The answers of every app lie on both sides of its limits; those of the first
\* on both sides of where the documentation and the code part.
MCEndpoints ==
  << {Ans(0, 299, 5, 100, {}, "other", TRUE), Ans(0, 200, 5, 101, {}, "other", TRUE),
      Ans(9, 300, 5, 5, {}, "other", TRUE), Ans(10, 200, 5, 5, {}, "other", TRUE),
      Ans(0, 200, 5, 5, {}, "other", FALSE)},
     {Ans(1, 200, 5, 50, {}, "object", FALSE), Ans(0, 201, 5, 5, {}, "other", TRUE),
      Ans(0, 200, 5, 51, {}, "other", TRUE)},
     {Good({Text("ok", "other"), Text("err", "other")}, "null"), Good({OK}, "other"),
      Ans(0, 204, 5, 5, {OK}, "object", TRUE), Ans(0, 200, 11, 20, {OK}, "object", TRUE),
      Ans(4, 200, 5, 5, {OK}, "object", TRUE), Refused},
     {Ans(0, 200, 5, 5, {}, "other", TRUE)} >>
=============================================================================
