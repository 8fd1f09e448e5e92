------------------------------- MODULE Csrf --------------------------------
(***************************************************************************)
(* The forms of the web pages and the token that protects them:            *)
(* CSRFMiddleware (src/web/csrf.go), the pages that carry a token, logging *)
(* out, and the audit entry every refusal makes (module Audit) while main  *)
(* may be shutting the server down.                                        *)
(*                                                                         *)
(* The server keeps no token: what a form needs to be accepted is in the   *)
(* browser's one cookie jar, which answers to requests of several tabs,    *)
(* and for the parts of their pages (style sheet, scripts),                *)
(* write in the order they arrive. A request carries the cookie of the     *)
(* moment it was sent, or none when another site led the browser here, for *)
(* the cookie is SameSite=Strict. Pages put the token in a form field; the *)
(* two headers that may carry it instead are left out. Paths other than    *)
(* the forms' are exempt and stand together as "api".                      *)
(***************************************************************************)
EXTENDS Naturals, FiniteSets, Audit

CONSTANTS
  Tab,         \* tabs of one browser
  Site,        \* a page of another site open in the same browser
  Part,        \* requests for parts of pages that can be under way at once
  CookieName,  \* security.csrf.cookie_name
  FieldName,   \* security.csrf.field_name
  MaxTokens,   \* bound: tokens generated
  MaxPosts     \* bound: posts sent

ASSUME CsrfAssumption ==
  /\ IsFiniteSet(Tab) /\ Site \notin Tab
  /\ MaxTokens \in Nat /\ MaxPosts \in Nat

VARIABLES
  jar,      \* the browser's CSRF cookie
  req,      \* what each tab shows or waits for
  parts,     \* requests for parts of pages, and their answers
  tokens,   \* tokens generated so far
  posts,    \* posts sent so far
  proc,     \* where main is: "serving", the steps of a shutdown, or "down"
  kept,     \* history: the tabs whose page was asked for since the browser was
            \* last at rest, with nothing since that takes its token away
  refused   \* history: the refusals answered while serving, on a disk that takes writes

webVars == <<jar, req, parts, tokens, posts, kept, refused>>
csrfVars == <<webVars, proc, auditVars>>

NoToken == 0

\* The literal in the templates and in GetCSRFToken's fallback.
Literal == "csrf_token"

Blank == [at |-> "blank", path |-> "form", cookie |-> NoToken, token |-> NoToken,
          n |-> 0, logger |-> "none"]

NoPart == [at |-> "none", cookie |-> NoToken]

Client == Tab \cup {Site}
Waiting(c) == req[c].at \notin {"blank", "page"}
Up == proc # "down"

\* Nothing is under way but what c is at.
AtRest(c) ==
  /\ \A o \in Tab \ {c} : ~Waiting(o)
  /\ \A s \in Part : parts[s] = NoPart

CsrfInit ==
  /\ jar = NoToken
  /\ req = [c \in Client |-> Blank]
  /\ parts = [s \in Part |-> NoPart]
  /\ tokens = 0 /\ posts = 0
  /\ proc = "serving"
  /\ kept = {}
  /\ refused = {}
  /\ AuditInit

Set(c, r) == req' = [req EXCEPT ![c] = r]

-----------------------------------------------------------------------------
(***************************************************************************)
(* The browser                                                             *)
(***************************************************************************)

\* A request for a page. One that is sent at rest starts a row of pages with
\* one token, which later ones with the cookie join. One without will get a
\* token of its own, which ends the row, or starts one where there is no
\* cookie yet and nothing else under way.
Fetch(c, method, cookie) ==
  /\ Set(c, [Blank EXCEPT !.at = method, !.cookie = cookie])
  /\ kept' = CASE cookie # NoToken /\ (kept # {} \/ AtRest(c))  -> kept \cup {c}
              [] cookie = NoToken /\ jar = NoToken /\ AtRest(c) -> {c}
              [] OTHER -> {}

Open(c, method) ==
  /\ Up
  /\ ~Waiting(c)
  /\ Fetch(c, method, jar)
  /\ UNCHANGED <<jar, parts, tokens, posts, refused, proc, auditVars>>

\* A link or a form of another site leads the tab to a page: no cookie is sent.
Follow(c) ==
  /\ Up
  /\ ~Waiting(c)
  /\ Fetch(c, "get", NoToken)
  /\ UNCHANGED <<jar, parts, tokens, posts, refused, proc, auditVars>>

\* A page that is shown asks for one of its parts.
FetchPart(s) ==
  /\ Up
  /\ parts[s] = NoPart
  /\ \E c \in Tab : req[c].at = "page"
  /\ parts' = [parts EXCEPT ![s] = [at |-> "get", cookie |-> jar]]
  /\ kept' = IF jar = NoToken THEN {} ELSE kept
  /\ UNCHANGED <<jar, req, tokens, posts, refused, proc, auditVars>>

Post(c, path, cookie, token) ==
  /\ Up
  /\ posts < MaxPosts
  /\ posts' = posts + 1
  /\ Set(c, [Blank EXCEPT !.at = "post", !.path = path, !.cookie = cookie,
                          !.token = token, !.n = posts + 1])
  /\ UNCHANGED <<jar, parts, tokens, kept, refused, proc, auditVars>>

Submit(c) ==
  /\ req[c].at = "page"
  /\ Post(c, "form", jar, req[c].token)

\* The other site has a token of its own or none, and a browser attaches the
\* cookie or, by SameSite, does not.
ForeignPost ==
  /\ ~Waiting(Site)
  /\ \/ \E cookie \in {jar, NoToken}, token \in {NoToken, MaxTokens + 1} :
            Post(Site, "form", cookie, token)
     \/ Post(Site, "api", jar, NoToken)

\* An answer with a page, and with a cookie unless it answers a form.
Arrive(c) ==
  /\ req[c].at \in {"answer", "rendered"}
  /\ jar' = IF req[c].cookie = NoToken THEN jar ELSE req[c].cookie
  /\ Set(c, [Blank EXCEPT !.at = "page", !.token = req[c].token])
  /\ UNCHANGED <<parts, tokens, posts, kept, refused, proc, auditVars>>

\* The answer with a part has a cookie as well. It may be dropped, as when
\* the tab has left the page meanwhile.
ArrivePart(s) ==
  /\ parts[s].at = "answer"
  /\ jar' \in {jar, parts[s].cookie}
  /\ parts' = [parts EXCEPT ![s] = NoPart]
  /\ UNCHANGED <<req, tokens, posts, kept, refused, proc, auditVars>>

\* The answer to a log out sets the cookie and clears all cookies, in an order
\* that is the browser's, and sends the tab to the login page.
ArriveLogout(c) ==
  /\ req[c].at = "loggedOut"
  /\ jar' \in {NoToken, req[c].cookie}
  /\ Set(c, [Blank EXCEPT !.at = "get", !.cookie = jar'])
  /\ kept' = {}
  /\ UNCHANGED <<parts, tokens, posts, refused, proc, auditVars>>

\* The cookie was not refreshed for a day.
CookieExpires ==
  /\ jar # NoToken
  /\ jar' = NoToken
  /\ kept' = {}
  /\ UNCHANGED <<req, parts, tokens, posts, refused, proc, auditVars>>

-----------------------------------------------------------------------------
(***************************************************************************)
(* The server                                                              *)
(***************************************************************************)

isSafeMethod(r) == r.at \in {"get", "logout"}
isCSRFExempt(r) == r.path = "api"

\* generateCSRFToken, within the bound; the system has random bytes.
Fresh == tokens + 1
Generate(token) == tokens' = IF token = Fresh THEN Fresh ELSE tokens

\* The token of a safe request: its cookie's, or a fresh one.
SafeToken(r) == IF r.cookie # NoToken THEN r.cookie ELSE Fresh

\* A safe request: the answer refreshes the cookie, and the context hands the
\* token to the page.
HandleSafe(c) ==
  /\ Up
  /\ isSafeMethod(req[c])
  /\ tokens < MaxTokens \/ req[c].cookie # NoToken
  /\ LET token == SafeToken(req[c])
     IN  /\ Generate(token)
         /\ Set(c, [Blank EXCEPT !.at = IF req[c].at = "get" THEN "answer" ELSE "loggedOut",
                                 !.cookie = token, !.token = token])
  /\ UNCHANGED <<jar, parts, posts, kept, refused, proc, auditVars>>

\* So is the request for a part of a page, which has no use for the token.
HandlePart(s) ==
  /\ Up
  /\ parts[s].at = "get"
  /\ tokens < MaxTokens \/ parts[s].cookie # NoToken
  /\ LET token == SafeToken(parts[s])
     IN  /\ Generate(token)
         /\ parts' = [parts EXCEPT ![s] = [at |-> "answer", cookie |-> token]]
  /\ UNCHANGED <<jar, req, posts, kept, refused, proc, auditVars>>

\* What the form submits is found under the configured name only.
extractCSRFToken(r) == IF FieldName = Literal THEN r.token ELSE NoToken

\* Mutant of Valid: two missing tokens agree as well.
OnlyCompares(r) == r.cookie = extractCSRFToken(r)

\* Neither half of the double submit is missing and both agree.
Valid(r) ==
  /\ r.cookie # NoToken
  /\ extractCSRFToken(r) # NoToken
  /\ r.cookie = extractCSRFToken(r)

\* audit.CSRFFailure fetches the logger, and then tells it.
CSRFFailure(r) == [r EXCEPT !.at = "log", !.logger = GetLogger]

ValidatePost(c) ==
  /\ Up
  /\ req[c].at = "post"
  /\ Set(c, IF isCSRFExempt(req[c]) \/ Valid(req[c])
            THEN [req[c] EXCEPT !.at = "handler"]
            ELSE CSRFFailure(req[c]))
  /\ UNCHANGED <<jar, parts, tokens, posts, kept, refused, proc, auditVars>>

\* The entry and the answer. A failed write is nobody's concern.
Refuse(c, disk) ==
  /\ Up
  /\ req[c].at = "log"
  /\ Log(req[c].n, req[c].logger, disk)
  /\ refused' = IF disk /\ proc = "serving" THEN refused \cup {req[c].n} ELSE refused
  /\ Set(c, Blank)
  /\ UNCHANGED <<jar, parts, tokens, posts, kept, proc>>

\* Mutant of GetCSRFToken: without a context there is only a token of its own.
EphemeralToken(r) == Fresh

\* GetCSRFToken without a context: the cookie of the fixed name, or a token
\* that no cookie will have.
GetCSRFToken(r) == IF CookieName = Literal /\ r.cookie # NoToken THEN r.cookie ELSE Fresh

\* A form that failed comes back with its page (handleLoginPost), and no
\* cookie.
Render(c) ==
  /\ Up
  /\ req[c].at = "handler"
  /\ c \in Tab
  /\ LET token == GetCSRFToken(req[c])
     IN  /\ token <= MaxTokens
         /\ Generate(token)
         /\ Set(c, [Blank EXCEPT !.at = "rendered", !.token = token])
  /\ UNCHANGED <<jar, parts, posts, kept, refused, proc, auditVars>>

\* A form that succeeded sends the browser to a page. Where one of the other
\* site leads the browser is a step of a tab (Follow).
Redirect(c) ==
  /\ Up
  /\ req[c].at = "handler"
  /\ IF c \in Tab THEN Fetch(c, "get", jar) ELSE Set(c, Blank) /\ UNCHANGED kept
  /\ UNCHANGED <<jar, parts, tokens, posts, refused, proc, auditVars>>

-----------------------------------------------------------------------------
(***************************************************************************)
(* main                                                                    *)
(***************************************************************************)

\* The process ends: requests in flight are cut, pages stay.
CutRequests ==
  /\ req' = [c \in Client |-> IF Waiting(c) THEN Blank ELSE req[c]]
  /\ parts' = [s \in Part |-> NoPart]

\* The terminal signal: the audit log gets its last event (one of System, which
\* it has) and is closed before Shutdown waits for the requests.
StopAudit ==
  /\ proc = "serving"
  /\ proc' = "draining"
  /\ CloseGlobal
  /\ UNCHANGED webVars

\* Shutdown has waited for the requests, or 30 seconds; or a crash.
Exit ==
  /\ Up
  /\ proc' = "down"
  /\ CutRequests
  /\ ProcessGone
  /\ UNCHANGED <<jar, tokens, posts, kept, refused>>

StartAgain ==
  /\ proc = "down"
  /\ proc' = "serving"
  /\ InitGlobal
  /\ UNCHANGED webVars

-----------------------------------------------------------------------------
CsrfNext ==
  \/ \E c \in Tab :
       \/ \E method \in {"get", "logout"} : Open(c, method)
       \/ Follow(c) \/ Submit(c) \/ Arrive(c) \/ ArriveLogout(c) \/ HandleSafe(c) \/ Render(c)
  \/ \E s \in Part : FetchPart(s) \/ HandlePart(s) \/ ArrivePart(s)
  \/ \E c \in Client :
       \/ ValidatePost(c) \/ Redirect(c)
       \/ \E disk \in BOOLEAN : Refuse(c, disk)
  \/ ForeignPost \/ CookieExpires
  \/ StopAudit \/ Exit \/ StartAgain

CsrfSpec == CsrfInit /\ [][CsrfNext]_csrfVars

-----------------------------------------------------------------------------
(***************************************************************************)
(* Properties                                                              *)
(***************************************************************************)

Stage == {"blank", "get", "logout", "answer", "rendered", "loggedOut", "page", "post", "handler",
          "log"}

RequestTypeOK(c) ==
  /\ DOMAIN req[c] = DOMAIN Blank
  /\ req[c].at \in Stage
  /\ req[c].path \in {"form", "api"}
  /\ req[c].cookie \in 0..MaxTokens
  /\ req[c].token \in 0..MaxTokens + 1
  /\ req[c].n \in 0..MaxPosts
  /\ req[c].logger \in {"none", "set"}

\* Every variable keeps its type.
CsrfTypeOK ==
  /\ AuditTypeOK
  /\ jar \in 0..MaxTokens
  /\ DOMAIN req = Client
  /\ \A c \in Client : RequestTypeOK(c)
  /\ parts \in [Part -> [at : {"none", "get", "answer"}, cookie : 0..MaxTokens]]
  /\ tokens \in 0..MaxTokens /\ posts \in 0..MaxPosts
  /\ proc \in {"serving", "draining", "down"}
  /\ kept \subseteq Tab
  /\ refused \subseteq 1..MaxPosts

\* No form that a page of another site makes the browser send is handled,
\* with whatever cookie the browser attaches and whether or not the page has
\* a token of its own (the three checks of CSRFMiddleware).
ForeignFormRefused == req[Site].at = "handler" => isCSRFExempt(req[Site])

\* Whatever tokens tabs, style sheets and scripts raced for, and after a log
\* out, a day away or a link from another site, loading a page again once
\* everything has arrived mends it: its form is never refused, nor are those
\* of pages loaded later in any tab and of forms that failed, over restarts,
\* since "the CSRF secret lives only in the browser cookie", until one of the
\* three happens again or a part is asked for without a cookie
\* (CSRFMiddleware, setCSRFCookie, GetCSRFToken).
ReloadNeverRefused == \A c \in kept : req[c].at # "log"

\* A refusal that was answered before a shutdown began, on a disk that takes
\* writes, is in the audit log and stays there over every restart
\* (CSRFFailure, Log, New).
RefusalsRecorded == refused \subseteq entries
=============================================================================
