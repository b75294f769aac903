------------------------------- MODULE Cookies -------------------------------
(* CookieManager, in the pages of one browser: each tries at its load whether *)
(* cookies work, with a cookie of its own that the others must not disturb,   *)
(* and then reads, writes and removes cookies of the root path. And           *)
(* Environment, which tells where a script runs.                              *)
EXTENDS Integers, FiniteSets

CONSTANTS
    CookiePages,       \* pages open in the browser
    CookieNames,       \* names of cookies (they are written encoded)
    CookieValues,      \* values (not encoded; one with ";" in it is cut there)
    RandomNumbers,     \* what randomG gives a page for the name of its test
    CookiesAvoided     \* "same_number": two pages draw one number; "deeper_paths": a page makes a
                       \* cookie of a deeper path itself; "settings_change": the user's, meanwhile

VARIABLE cookies       \* [browser, jar, last, page]

NoValue == "null"

(* --- Environment -----------------------------------------------------------*)
(* The globals a script finds.                                                *)
Document == {"window", "navigator", "document"}
Globals ==
    [http |-> Document, file |-> Document, worker |-> {"importScripts"}, node |-> {"process"},
     node_worker |-> {"process", "importScripts"}, shell |-> {}]
isBrowserDocument(where) == Document \subseteq Globals[where]
isNodeJS(where) == ~isBrowserDocument(where) /\ "process" \in Globals[where]
isWebWorker(where) == ~isBrowserDocument(where) /\ ~isNodeJS(where) /\ "importScripts" \in Globals[where]
isOther(where) == ~isBrowserDocument(where) /\ ~isNodeJS(where) /\ ~isWebWorker(where)
isBrowser(where) == "process" \notin Globals[where] /\ (isBrowserDocument(where) \/ isWebWorker(where))

(* --- the browser's jar -----------------------------------------------------*)
(* A cookie is stored by its name and path; of a name it gives the one of the *)
(* deepest path first. A browser that never deletes keeps the last value.     *)
Stored(c, name, path, value) ==
    IF c.browser = "refuses" THEN c
    ELSE [c EXCEPT !.jar = {k \in @ : k.name # name \/ k.path # path} \cup {[name |-> name, path |-> path, value |-> value]}]
Expired(c, name, path) ==
    IF c.browser = "never_deletes" /\ \E k \in c.jar : k.name = name /\ k.path = path THEN Stored(c, name, path, "deleting")
    ELSE [c EXCEPT !.jar = {k \in @ : k.name # name \/ k.path # path}]
First(c, name) ==
    LET named == {k \in c.jar : k.name = name}
    IN CHOOSE k \in named : k.path = "deeper" \/ \A l \in named : l.path = "root"

(* --- the manager -----------------------------------------------------------*)
areCookiesEnabled(c, p) == c.page[p].enabled
getAllCookiesAsSingleString(c, p) == IF areCookiesEnabled(c, p) THEN c.jar ELSE {}
writeCookie(c, p, name, value) == IF areCookiesEnabled(c, p) THEN Stored(c, name, "root", value) ELSE c
removeCookie(c, p, name) == IF areCookiesEnabled(c, p) THEN Expired(c, name, "root") ELSE c
readCookie(c, p, name) ==
    IF \E k \in getAllCookiesAsSingleString(c, p) : k.name = name THEN First(c, name).value ELSE NoValue

Named(n) == <<"page", n>>
cookieTestName(c, p) == <<"test", c.page[p].rand>>
Checked(c, p, step) == [c EXCEPT !.page[p].check = step]
Fails(c, p) == [Checked(c, p, "done") EXCEPT !.page[p].enabled = FALSE]

(* --- actions ---------------------------------------------------------------*)
Fresh(where, rand) ==
    [where |-> where, rand |-> rand, check |-> "load", enabled |-> FALSE, told |-> [value |-> NoValue, due |-> NoValue]]
MayDraw(p, rand, pages) == "same_number" \in CookiesAvoided => \A q \in CookiePages \ {p} : pages[q].rand # rand
CookiesInit ==
    \E browser \in {"keeps", "refuses", "never_deletes"}, pages \in [CookiePages -> {Fresh(w, r) : w \in DOMAIN Globals, r \in RandomNumbers}] :
        /\ \A p \in CookiePages : MayDraw(p, pages[p].rand, pages)
        /\ cookies = [browser |-> browser, jar |-> {}, page |-> pages, last |-> [n \in CookieNames |-> NoValue]]
(* A page goes, perhaps in the middle of its test, and one comes.             *)
Reload(p, rand) ==
    /\ cookies.page[p].check # "load" /\ MayDraw(p, rand, cookies.page)
    /\ cookies' = [cookies EXCEPT !.page[p] = Fresh(@.where, rand)]

(* checkCookiesFunctionality, an access to the jar at a time.                 *)
CheckWrites(p) ==
    /\ cookies.page[p].check = "load"
    /\ cookies' = IF ~isBrowserDocument(cookies.page[p].where) \/ cookies.page[p].where # "http" THEN Checked(cookies, p, "done")
                  ELSE LET tried == [Checked(cookies, p, "written") EXCEPT !.page[p].enabled = TRUE]
                       IN writeCookie(tried, p, cookieTestName(tried, p), "testing")
CheckReads(p) ==
    /\ cookies.page[p].check = "written"
    /\ cookies' = IF readCookie(cookies, p, cookieTestName(cookies, p)) = "testing" THEN Checked(cookies, p, "read") ELSE Fails(cookies, p)
CheckRemoves(p) ==
    /\ cookies.page[p].check = "read"
    /\ cookies' = removeCookie(Checked(cookies, p, "removed"), p, cookieTestName(cookies, p))
CheckReadsAgain(p) ==
    /\ cookies.page[p].check = "removed"
    /\ cookies' = IF readCookie(cookies, p, cookieTestName(cookies, p)) = NoValue THEN Checked(cookies, p, "done") ELSE Fails(cookies, p)

PageReady(p) == cookies.page[p].check = "done"
WriteCookie(p, n, value) ==
    /\ PageReady(p)
    /\ cookies' = [writeCookie(cookies, p, Named(n), value) EXCEPT !.last[n] = IF areCookiesEnabled(cookies, p) THEN value ELSE @]
RemoveCookie(p, n) ==
    /\ PageReady(p)
    /\ cookies' = [removeCookie(cookies, p, Named(n)) EXCEPT !.last[n] = IF areCookiesEnabled(cookies, p) THEN NoValue ELSE @]
ReadCookie(p, n) ==
    /\ PageReady(p)
    /\ cookies' = [cookies EXCEPT !.page[p].told =
                       [value |-> readCookie(cookies, p, Named(n)),
                        due |-> IF areCookiesEnabled(cookies, p) THEN cookies.last[n] ELSE NoValue]]
DeeperCookie(n, value) ==
    /\ "deeper_paths" \notin CookiesAvoided
    /\ cookies' = Stored(cookies, Named(n), "deeper", value)
SettingsChange == "settings_change" \notin CookiesAvoided /\ \E b \in {"keeps", "refuses"} : cookies' = [cookies EXCEPT !.browser = b]

CookiesNext ==
    \/ \E p \in CookiePages : CheckWrites(p) \/ CheckReads(p) \/ CheckRemoves(p) \/ CheckReadsAgain(p)
    \/ \E p \in CookiePages, rand \in RandomNumbers : Reload(p, rand)
    \/ \E p \in CookiePages, n \in CookieNames : RemoveCookie(p, n) \/ ReadCookie(p, n) \/ \E value \in CookieValues : WriteCookie(p, n, value)
    \/ \E n \in CookieNames, value \in CookieValues : DeeperCookie(n, value)
    \/ SettingsChange
-----------------------------------------------------------------------------
(* Once its test is over a page, whatever the others do, uses cookies if and  *)
(* only if it is one of the web in a browser that keeps and deletes them; its *)
(* test has left nothing there; and what it reads is what a page wrote last.  *)
CookiesAreTold ==
    \A p \in CookiePages : PageReady(p) =>
        LET page == cookies.page[p] IN
        /\ page.enabled <=> page.where = "http" /\ cookies.browser = "keeps"
        /\ page.enabled => cookieTestName(cookies, p) \notin {k.name : k \in cookies.jar}
        /\ page.told.value = page.told.due
        /\ Cardinality({f \in {<<"document", isBrowserDocument(page.where)>>, <<"node", isNodeJS(page.where)>>,
                               <<"worker", isWebWorker(page.where)>>, <<"other", isOther(page.where)>>} : f[2]}) = 1
=============================================================================
