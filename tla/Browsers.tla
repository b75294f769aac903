------------------------------ MODULE Browsers -------------------------------
(* BrowserDetection: which browser this probably is, from the words of its    *)
(* user agent, each answer kept once it is known. A user agent is the set of  *)
(* its words and the numbers that follow some of them.                        *)
EXTENDS Integers, FiniteSets

CONSTANTS
    Versions,          \* numbers of versions, of the browsers and asked for
    MaxQuestions,      \* questions of a page
    BrowsersAvoided    \* "borrowed_words": no user agent has the words of another

VARIABLE browser       \* [is, words, version, document, known, told]

NoNumber == 0
NotIt == [is |-> FALSE, version |-> NoNumber]

(* --- the browsers ----------------------------------------------------------*)
(* What each one says of itself.                                              *)
Words ==
    [Chrome |-> {"webkit", "chrome/", "safari"}, ChromeAndroid |-> {"webkit", "chrome/", "safari", "android"},
     Android |-> {"webkit", "safari", "android"}, Safari |-> {"webkit", "safari"},
     SafariMobile |-> {"webkit", "safari", "iphone"}, Rekonq |-> {"webkit", "safari", "rekonq"},
     Konqueror |-> {"konqueror"}, Firefox |-> {"firefox"}, FirefoxEleven |-> {"firefox", "rv:11.0"},
     Explorer |-> {"msie"}, ExplorerEleven |-> {"rv:11.0"}, Edge |-> {"webkit", "chrome/", "safari", "edge"},
     Opera |-> {"opera"}, OperaMobile |-> {"opera", "opera mobi"}, Playstation |-> {"playstation 3"},
     Node |-> {}]
Borrowing == {"FirefoxEleven", "Edge"}
PageBrowsers == DOMAIN Words \ IF "borrowed_words" \in BrowsersAvoided THEN Borrowing ELSE {}

doUACheck(b, word) == word \in b.words
getSolution(mine, asked, less) ==
    \/ asked = NoNumber \/ mine = NoNumber
    \/ IF less = "or_lower" THEN mine <= asked ELSE IF less = "or_higher" THEN mine >= asked ELSE mine = asked

(* --- the questions ---------------------------------------------------------*)
(* The result of the check each function makes when it is first called.       *)
isProbablyAndroidBrowser(b) ==
    doUACheck(b, "android") /\ doUACheck(b, "webkit") /\ ~doUACheck(b, "chrome/")
isProbablyApple(b) ==
    /\ doUACheck(b, "safari")
    /\ \/ doUACheck(b, "iphone")
       \/ ~isProbablyAndroidBrowser(b) /\ ~doUACheck(b, "chrome/") /\ ~doUACheck(b, "rekonq")
isProbablyOperaMobile(b) == doUACheck(b, "opera") /\ doUACheck(b, "opera mobi")
Checks(b) ==
    [isProbablyRekonq |-> doUACheck(b, "rekonq"), isProbablyAWebkit |-> doUACheck(b, "webkit"),
     isProbablyPlaystation |-> doUACheck(b, "playstation 3"), isProbablyChrome |-> doUACheck(b, "chrome/"),
     isProbablyAKhtml |-> b.document = "khtml", isProbablyKonqueror |-> doUACheck(b, "konqueror"),
     isProbablyEdge |-> doUACheck(b, "edge"), isProbablyFX |-> doUACheck(b, "firefox"),
     isProbablyOldOpera |-> doUACheck(b, "opera"), isProbablyAndroidBrowser |-> isProbablyAndroidBrowser(b),
     isProbablyOperaMobile |-> isProbablyOperaMobile(b), isProbablyApple |-> isProbablyApple(b)]
Versioned == {"isProbablyChrome", "isProbablyKonqueror", "isProbablyFX", "isProbablyOldOpera", "isProbablyApple"}

getVersionedFunction(b, f, asked, less) ==
    LET found == IF f \in DOMAIN b.known THEN b.known[f]
                 ELSE IF b.is # "Node" /\ Checks(b)[f] THEN [is |-> TRUE, version |-> b.version] ELSE NotIt
        yes == found.is /\ (f \in Versioned => getSolution(found.version, asked, less))
    IN [b EXCEPT !.known = [g \in DOMAIN @ \cup {f} |-> IF g = f THEN found ELSE @[g]],
                 !.told = [q |-> f, asked |-> asked, less |-> less, yes |-> yes]]

(* isProbablyIE asks anew each time: its functions last for one call.         *)
isProbablyIE(b, asked, less) ==
    \/ doUACheck(b, "msie") /\ getSolution(b.version, asked, less)
    \/ doUACheck(b, "rv:11.0") /\ getSolution(11, asked, less)

(* --- actions ---------------------------------------------------------------*)
BrowsersInit ==
    \E is \in PageBrowsers, v \in Versions :
        browser = [is |-> is, words |-> Words[is], version |-> IF is \in {"ExplorerEleven", "FirefoxEleven"} THEN 11 ELSE v,
                   document |-> IF is = "Konqueror" THEN "khtml" ELSE "other", known |-> <<>>,
                   told |-> [q |-> "none", asked |-> NoNumber, less |-> "exactly", yes |-> FALSE]]
Ask(f, asked, less) ==
    /\ f \in DOMAIN browser.known \/ Cardinality(DOMAIN browser.known) < MaxQuestions
    /\ browser' = getVersionedFunction(browser, f, asked, less)
AskForIE(asked, less) ==
    browser' = [browser EXCEPT !.told = [q |-> "isProbablyIE", asked |-> asked, less |-> less,
                                         yes |-> isProbablyIE(browser, asked, less)]]
Orders == {"or_lower", "or_higher", "exactly"}
BrowsersNext ==
    \/ \E f \in DOMAIN Checks(browser) : Ask(f, NoNumber, "exactly")
    \/ \E f \in Versioned, asked \in Versions, less \in Orders : Ask(f, asked, less)
    \/ \E asked \in Versions, less \in Orders : AskForIE(asked, less)
-----------------------------------------------------------------------------
(* Who each question is about.                                                *)
About ==
    [isProbablyRekonq |-> {"Rekonq"},
     isProbablyAWebkit |-> {"Chrome", "ChromeAndroid", "Android", "Safari", "SafariMobile", "Rekonq", "Edge"},
     isProbablyPlaystation |-> {"Playstation"}, isProbablyChrome |-> {"Chrome", "ChromeAndroid"},
     isProbablyAKhtml |-> {"Konqueror"}, isProbablyKonqueror |-> {"Konqueror"}, isProbablyEdge |-> {"Edge"},
     isProbablyFX |-> {"Firefox", "FirefoxEleven"}, isProbablyOldOpera |-> {"Opera", "OperaMobile"},
     isProbablyAndroidBrowser |-> {"Android"}, isProbablyOperaMobile |-> {"OperaMobile"},
     isProbablyApple |-> {"Safari", "SafariMobile"}, isProbablyIE |-> {"Explorer", "ExplorerEleven"}]
InRange(v, asked, less) ==
    asked = NoNumber \/ v \in IF less = "exactly" THEN {asked} ELSE IF less = "or_lower" THEN 1..asked ELSE asked..100

(* Whatever was asked before, the answer is yes for the browsers the question *)
(* is about, in the versions it asks for, and for no other.                   *)
BrowserIsTold ==
    browser.told.q # "none" =>
        (browser.told.yes <=> /\ browser.is \in About[browser.told.q]
                              /\ InRange(browser.version, browser.told.asked, browser.told.less))
=============================================================================
