----------------------------- MODULE HTTPChecks -----------------------------
(***************************************************************************)
(* How an http source decides on one app: its configuration with defaults, *)
(* what its endpoint answers, and the verdict of check.  A text is a word  *)
(* in one of its spellings; a body is the texts it contains and how it      *)
(* reads as JSON; an answer is trusted if its certificates pass, or none is *)
(* asked for.                                                               *)
(***************************************************************************)
EXTENDS Integers

CONSTANTS
  Words,
  scrapeTimeout,   \* scraping.timeout, in ms; 0 or less is no limit
  NotSet,          \* a setting the configuration leaves out
  Refused          \* no answer: name, connection or body failed

ASSUME TimeoutAssumption == scrapeTimeout \in Int

Codes == 100..599
Texts == [word : Words, spelling : {"given", "other"}]
NoText == [word |-> "", spelling |-> "given"]

\* What an endpoint does with one request: redirects on its way and the code of
\* the first, the code and the time of the final headers, the time of the whole
\* body, the body, and its certificate.
EndpointAnswers ==
  [redirects : Nat, moved : {301, 302, 303, 307, 308}, code : Codes, ms : Nat, total : Nat,
   texts : SUBSET Texts, json : {"object", "null", "other"}, trusted : BOOLEAN]

(***************************************************************************)
(* An entry of allowed_status_codes or blocked_status_codes is one code or *)
(* a class like "2XX".  A list may be missing (NotSet) or empty.           *)
(***************************************************************************)
Exactly(c) == [class |-> FALSE, n |-> c]
Class(n) == [class |-> TRUE, n |-> n]
CodeEntries == [class : {FALSE}, n : Codes] \cup [class : {TRUE}, n : 1..5]

isStatusCodeInRange(code, class) == code >= class * 100 /\ code < (class + 1) * 100
isStatusListed(code, entries) ==
  \E e \in entries : IF e.class THEN isStatusCodeInRange(code, e.n) ELSE code = e.n

OrDefault(value, default) == IF value = NotSet THEN default ELSE value

\* The other settings have plain defaults: follow, verify, no condition.
mergeWithDefaults(app) ==
  [name            |-> app.name,
   allowed         |-> OrDefault(app.allowed, {Class(2)}),
   blocked         |-> OrDefault(app.blocked, {Class(4), Class(5)}),
   followRedirects |-> app.followRedirects,
   maxRedirects    |-> IF app.maxRedirects = 0 THEN 10 ELSE app.maxRedirects,
   sslVerify       |-> app.sslVerify,
   timeout         |-> app.timeout,
   success         |-> app.success,
   failure         |-> app.failure]

\* ValidateConfig lets a source start only with such apps.
ValidApps(apps) ==
  \A i \in DOMAIN apps :
    /\ \A j \in DOMAIN apps : apps[i].name = apps[j].name => i = j
    /\ apps[i].timeout \in Int \cup {NotSet}   \* not a duration is as not given
    /\ apps[i].maxRedirects \in Int
    /\ apps[i].followRedirects \in BOOLEAN /\ apps[i].sslVerify \in BOOLEAN
    /\ apps[i].allowed = NotSet \/ apps[i].allowed \subseteq CodeEntries
    /\ apps[i].blocked = NotSet \/ apps[i].blocked \subseteq CodeEntries
    /\ \A c \in apps[i].success \cup apps[i].failure : c.type = "response_time" => c.maxMS \in Int

(***************************************************************************)
(* Content validation.  A condition that lacks its operand does not hold.  *)
(***************************************************************************)
Contains(c, texts) ==
  IF c.caseSensitive THEN c.text \in texts ELSE \E t \in texts : t.word = c.text.word

validateCondition(c, r) ==
  \/ c.type = "status_code" /\ r.code = c.code
  \/ c.type = "response_time" /\ c.maxMS > 0 /\ r.ms <= c.maxMS
  \/ c.type = "body_contains" /\ c.text # NoText /\ Contains(c, r.texts)
  \/ c.type = "body_not_contains" /\ c.text # NoText /\ ~Contains(c, r.texts)
  \/ c.type = "json_path" /\ c.path # "" /\ c.expected # NotSet /\ r.json \in {"object", "null"}

(***************************************************************************)
(* The request.  max_redirects is not used: the client follows fewer than  *)
(* ten, or none.  The timeout covers the body, too.                        *)
(***************************************************************************)
timeoutOf(app) == OrDefault(app.timeout, scrapeTimeout)

requestFails(app, verifies, r) ==
  \/ r = Refused
  \/ verifies /\ ~r.trusted
  \/ timeoutOf(app) > 0 /\ r.total > timeoutOf(app)
  \/ app.followRedirects /\ r.redirects >= 10

received(app, r) == IF ~app.followRedirects /\ r.redirects > 0 THEN [r EXCEPT !.code = r.moved] ELSE r

check(app, verifies, answer) ==
  LET merged == mergeWithDefaults(app)
      r == received(merged, answer)
  IN  IF requestFails(merged, verifies, answer) THEN "down"
      ELSE IF ~isStatusListed(r.code, merged.allowed) THEN "down"
      ELSE IF isStatusListed(r.code, merged.blocked) THEN "down"
      ELSE IF \E c \in merged.success : ~validateCondition(c, r) THEN "down"
      ELSE IF \E c \in merged.failure : validateCondition(c, r) THEN "down"
      ELSE "up"
=============================================================================
